-------------------------- MODULE AutoAllocProofs --------------------------
(***************************************************************************)
(* Proof that the descriptors keep track of the allocations of the queue   *)
(* manager (TracksAllocations), for any set of queues and ids, any target  *)
(* and any number of failures.                                             *)
(*                                                                         *)
(* While refresh_allocations works on a queue its allocations are partly   *)
(* in the descriptor and partly in the local variable of the process, and  *)
(* a submitted allocation is only in an answer: the invariant counts them  *)
(* as known.  What remains, the allocations nobody knows of (Forgotten),   *)
(* grows by one with each status call that fails and in no other way.      *)
(***************************************************************************)
EXTENDS AutoAlloc, FiniteSetTheorems, TLAPS

Current == Head(process.names)

Statuses == {"Queued", "Running"}

\* What the sum of the workers of a queue is cannot be derived here, hence the
\* numbers of workers are typed by some set W.
Entry(W) == [id : Ids, worker_count : W, status : Statuses]

Held(W) == [worker_count : W, status : Statuses]

Descriptor(W) == [allocations : Seq(Entry(W)), events : Seq(AllocationEvent)]

Typed(W) ==
    /\ DOMAIN descriptors \subseteq Queues
    /\ IsFiniteSet(DOMAIN descriptors)
    /\ descriptors \in [DOMAIN descriptors -> Descriptor(W)]
    /\ process \in [pc : {"tick", "next", "refresh", "schedule"},
                    names : Seq(DOMAIN descriptors),
                    old : Seq(Entry(W)),
                    remaining : W,
                    answer : SUBSET (Ids \cup {"Queued", "Running", "None", "Err"})]
    /\ DOMAIN manager = Queues
    /\ manager = [q \in Queues |-> manager[q]]
    /\ \A q \in Queues : /\ DOMAIN manager[q] \subseteq Ids
                         /\ manager[q] \in [DOMAIN manager[q] -> Held(W)]
    /\ fails \in [status : Nat, queue : Nat]

\* What the process holds where it is suspended.  An answer that is not read yet
\* belongs to the call that is under way.
Suspended ==
    /\ process.pc \in {"refresh", "schedule"} => process.names # <<>>
    /\ process.pc # "refresh" => process.old = <<>>
    /\ \A a \in process.answer :
           /\ process.answer = {a}
           /\ \/ /\ process.pc = "refresh" /\ process.old # <<>>
                 /\ a \in {"Queued", "Running", "None", "Err"}
                 /\ a = "None" => Head(process.old).id \notin DOMAIN manager[Current]
              \/ /\ process.pc = "schedule" /\ process.remaining > 0
                 /\ a \in Ids \cup {"Err"}

\* No two entries of a list have the same id.
Distinct(list) == \A i, j \in DOMAIN list : list[i].id = list[j].id => i = j

\* A list has no entry with the id.
Free(list, id) == \A i \in DOMAIN list : list[i].id # id

Unique ==
    /\ \A q \in DOMAIN descriptors : Distinct(descriptors[q].allocations)
    /\ Distinct(process.old)
    /\ process.pc = "refresh" => \A i \in DOMAIN process.old :
           Free(descriptors[Current].allocations, process.old[i].id)
    /\ process.pc = "schedule" => \A a \in process.answer :
           Free(descriptors[Current].allocations, a)

\* A list has the allocation id of the queue q.
Has(list, q, id) ==
    \E i \in DOMAIN list : list[i].id = id /\ list[i].worker_count = manager[q][id].worker_count

Known(q, id) ==
    \/ Has(descriptors[q].allocations, q, id)
    \/ process.pc = "refresh" /\ q = Current /\ Has(process.old, q, id)
    \/ /\ process.pc = "schedule" /\ q = Current /\ id \in process.answer
       /\ to_schedule(q) = manager[q][id].worker_count

Forgotten == {p \in (DOMAIN descriptors) \X Ids :
                  p[2] \in DOMAIN manager[p[1]] /\ ~ Known(p[1], p[2])}

\* A failed status call whose allocation is not dropped yet.
Pending == IF process.pc = "refresh" /\ "Err" \in process.answer THEN 1 ELSE 0

Within == IsFiniteSet(Forgotten) /\ Cardinality(Forgotten) + Pending <= fails.status

\* Nobody submits to a queue without a descriptor.
NoStrangers == \A q \in Queues \ DOMAIN descriptors : DOMAIN manager[q] = {}

AllocInv == (\E W : Typed(W)) /\ Suspended /\ Unique /\ NoStrangers /\ Within
----------------------------------------------------------------------------
(* Types.                                                                  *)

\* Sequences over a set are sequences over a larger one.
LEMMA SeqMono ==
    ASSUME NEW S, NEW T, S \subseteq T, NEW s \in Seq(S)
    PROVE  s \in Seq(T)
  OBVIOUS

\* The set that types the numbers of workers may be enlarged.
LEMMA TypedMono ==
    ASSUME NEW W, NEW V, W \subseteq V, Typed(W)
    PROVE  Typed(V)
<1>1. Entry(W) \subseteq Entry(V) /\ Held(W) \subseteq Held(V)
  BY Zenon DEF Entry, Held
<1>2. Seq(Entry(W)) \subseteq Seq(Entry(V))
  BY Zenon, <1>1, SeqMono
<1>3. Descriptor(W) \subseteq Descriptor(V)
  BY Zenon, <1>2 DEF Descriptor
<1>4. descriptors \in [DOMAIN descriptors -> Descriptor(V)]
  BY Zenon, <1>3 DEF Typed
<1>5. \A q \in Queues : manager[q] \in [DOMAIN manager[q] -> Held(V)]
  BY <1>1 DEF Typed
<1>. QED  BY Zenon, <1>2, <1>4, <1>5 DEF Typed

\* add_event changes the events only.
LEMMA AddEvent ==
    ASSUME NEW W, NEW d \in Descriptor(W), NEW e \in AllocationEvent
    PROVE  /\ add_event(d, e) \in Descriptor(W)
           /\ add_event(d, e).allocations = d.allocations
<1>. DEFINE events == Append(d.events, e)
            kept == IF Len(events) > MAX_EVENT_QUEUE_LENGTH THEN Tail(events) ELSE events
<1>1. /\ d.events \in Seq(AllocationEvent)
      /\ events \in Seq(AllocationEvent)
      /\ Len(events) = Len(d.events) + 1
  <2>1. d.events \in Seq(AllocationEvent)
    BY Zenon DEF Descriptor
  <2>. QED  BY <2>1
<1>2. kept \in Seq(AllocationEvent)
  BY <1>1
<1>3. add_event(d, e) = [d EXCEPT !.events = kept]
  BY Zenon DEF add_event
<1>. HIDE DEF kept
<1>. QED  BY Zenon, <1>2, <1>3 DEF Descriptor

\* An entry added to the allocations of a descriptor.
LEMMA AppendEntry ==
    ASSUME NEW W, NEW d \in Descriptor(W), NEW x \in Entry(W)
    PROVE  LET e == [d EXCEPT !.allocations = Append(@, x)]
           IN  e \in Descriptor(W) /\ e.allocations = Append(d.allocations, x)
<1>. DEFINE new == Append(d.allocations, x)
<1>1. new \in Seq(Entry(W))
  <2>1. d.allocations \in Seq(Entry(W))
    BY Zenon DEF Descriptor
  <2>. HIDE DEF Entry
  <2>. QED  BY <2>1
<1>2. [d EXCEPT !.allocations = Append(@, x)] = [d EXCEPT !.allocations = new]
  BY Zenon
<1>. HIDE DEF new
<1>3. /\ [d EXCEPT !.allocations = new] \in Descriptor(W)
      /\ [d EXCEPT !.allocations = new].allocations = new
  BY Zenon, <1>1 DEF Descriptor
<1>. QED  BY Zenon, <1>2, <1>3 DEF new

\* The allocations taken out of a descriptor.
LEMMA TakeEntries ==
    ASSUME NEW W, NEW d \in Descriptor(W)
    PROVE  LET e == [d EXCEPT !.allocations = <<>>]
           IN  e \in Descriptor(W) /\ e.allocations = <<>>
<1>1. <<>> \in Seq(Entry(W))
  OBVIOUS
<1>. QED  BY Zenon, <1>1 DEF Descriptor

\* What is left of a sequence.
LEMMA TailSeq ==
    ASSUME NEW S, NEW s \in Seq(S), s # <<>>
    PROVE  Tail(s) \in Seq(S) /\ Head(s) \in S
  OBVIOUS

\* A list with one more entry, that of x with some status.
Appended(W, new, list, x) ==
    \E y \in Entry(W) : /\ y.id = x.id /\ y.worker_count = x.worker_count
                        /\ new = Append(list, y)

\* The descriptor after a status was applied.
LEMMA Refreshed ==
    ASSUME NEW W, NEW d \in Descriptor(W), NEW x \in Entry(W),
           NEW a \in {"Queued", "Running", "None", "Err"}
    PROVE  /\ refreshed(d, x, a) \in Descriptor(W)
           /\ a \in {"None", "Err"} => refreshed(d, x, a).allocations = d.allocations
           /\ a \in Statuses => Appended(W, refreshed(d, x, a).allocations, d.allocations, x)
<1>1. CASE a \in {"None", "Err"}
  BY Zenon, <1>1, AddEvent DEF refreshed, AllocationEvent, Statuses
<1>2. CASE a \in Statuses
  <2>. DEFINE y == [x EXCEPT !.status = a]
  <2>1. y \in Entry(W) /\ y.id = x.id /\ y.worker_count = x.worker_count
    BY Zenon, <1>2 DEF Entry
  <2>2. refreshed(d, x, a) = [d EXCEPT !.allocations = Append(@, y)]
    BY Zenon, <1>2 DEF refreshed, Statuses
  <2>. HIDE DEF y
  <2>3. /\ refreshed(d, x, a) \in Descriptor(W)
        /\ refreshed(d, x, a).allocations = Append(d.allocations, y)
    BY <2>1, <2>2, AppendEntry
  <2>4. Appended(W, refreshed(d, x, a).allocations, d.allocations, x)
    BY Zenon, <2>1, <2>3 DEF Appended
  <2>. QED  BY Zenon, <1>2, <2>3, <2>4 DEF Statuses
<1>. QED  BY Zenon, <1>1, <1>2 DEF Statuses

\* A list with one more entry, that of a new allocation.
Added(W, new, list, id, n) ==
    \E y \in Entry(W) : y.id = id /\ y.worker_count = n /\ new = Append(list, y)

\* The descriptor after a submission was answered.
LEMMA Queued ==
    ASSUME NEW W, NEW d \in Descriptor(W), NEW n \in W, NEW a \in Ids \cup {"Err"}
    PROVE  /\ queued(d, n, a) \in Descriptor(W)
           /\ a = "Err" => queued(d, n, a).allocations = d.allocations
           /\ a \in Ids => Added(W, queued(d, n, a).allocations, d.allocations, a, n)
<1>1. CASE a = "Err"
  BY Zenon, <1>1, AddEvent, IdsAssumption DEF queued, AllocationEvent
<1>2. CASE a \in Ids
  <2>. DEFINE x == [id |-> a, worker_count |-> n, status |-> "Queued"]
              e == add_event(d, "QueueSuccess")
  <2>1. x \in Entry(W) /\ x.id = a /\ x.worker_count = n
    BY Zenon, <1>2 DEF Entry, Statuses
  <2>2. e \in Descriptor(W) /\ e.allocations = d.allocations
    BY Zenon, AddEvent DEF AllocationEvent
  <2>3. queued(d, n, a) = [e EXCEPT !.allocations = Append(@, x)]
    BY Zenon, <1>2, IdsAssumption DEF queued
  <2>4. a # "Err"
    BY Zenon, <1>2, IdsAssumption
  <2>. HIDE DEF x, e
  <2>5. queued(d, n, a) \in Descriptor(W) /\ queued(d, n, a).allocations = Append(e.allocations, x)
    BY <2>1, <2>2, <2>3, AppendEntry
  <2>. QED  BY Zenon, <2>1, <2>2, <2>4, <2>5 DEF Added
<1>. QED  BY Zenon, <1>1, <1>2

\* The queue that is being processed.
LEMMA CurrentTyped ==
    ASSUME NEW V, Typed(V), process.names # <<>>
    PROVE  /\ Current \in DOMAIN descriptors /\ Current \in Queues
           /\ descriptors[Current] \in Descriptor(V)
           /\ descriptors[Current].allocations \in Seq(Entry(V))
<1>1. Current \in DOMAIN descriptors
  BY Zenon, TailSeq DEF Typed, Current
<1>. QED  BY Zenon, <1>1 DEF Typed, Descriptor

\* The ids of a list.
LEMMA ListIds ==
    ASSUME NEW W, NEW s \in Seq(Entry(W))
    PROVE  \A i \in DOMAIN s : s[i].id \in Ids
<1>1. \A i \in DOMAIN s : s[i] \in Entry(W)
  OBVIOUS
<1>. QED  BY Zenon, <1>1 DEF Entry

\* Every step keeps the types.
LEMMA NextTyped ==
    ASSUME AllocInv, [Next]_vars
    PROVE  \E V : Typed(V) /\ Typed(V)' /\ to_schedule(Current) \in V
<1>. PICK W : Typed(W)
  BY Zenon DEF AllocInv
<1>. PICK r : r = process'.remaining
  BY Zenon
<1>. PICK n : n = to_schedule(Current)
  BY Zenon
<1>. DEFINE V == W \cup {r, n, 0}
<1>1. Typed(V) /\ r \in V /\ n \in V /\ 0 \in V
  BY Zenon, TypedMono
<1>. HIDE DEF V
<1>. SUFFICES Typed(V)'
  BY Zenon, <1>1
<1>. USE <1>1
<1>2. /\ process.pc \in {"tick", "next", "refresh", "schedule"}
      /\ process.names \in Seq(DOMAIN descriptors)
      /\ process.old \in Seq(Entry(V))
      /\ process.answer \subseteq Ids \cup {"Queued", "Running", "None", "Err"}
      /\ process.pc \in {"refresh", "schedule"} => Current \in DOMAIN descriptors
  BY DEF Typed, AllocInv, Suspended, Current
<1>3. ASSUME UNCHANGED <<descriptors, manager, fails>>,
             process' \in [pc : {"tick", "next", "refresh", "schedule"},
                           names : Seq(DOMAIN descriptors),
                           old : Seq(Entry(V)),
                           remaining : V,
                           answer : SUBSET (Ids \cup {"Queued", "Running", "None", "Err"})]
      PROVE  Typed(V)'
  BY Zenon, <1>3 DEF Typed
<1>4. CASE autoalloc_tick
  <2>1. PICK names \in SetToSeqs(DOMAIN descriptors) :
            process' = [process EXCEPT !.pc = "next", !.names = names]
    BY Zenon, <1>4 DEF autoalloc_tick
  <2>2. Cardinality(DOMAIN descriptors) \in Nat
    BY Zenon, FS_CardinalityType DEF Typed
  <2>3. names \in [1 .. Cardinality(DOMAIN descriptors) -> DOMAIN descriptors]
    BY Zenon DEF SetToSeqs
  <2>4. names \in Seq(DOMAIN descriptors)
    BY <2>2, <2>3
  <2>. QED  BY Zenon, <1>3, <1>4, <2>1, <2>4 DEF autoalloc_tick, Typed
<1>5. CASE process_descriptor
  <2>1. Current \in DOMAIN descriptors
    BY <1>2, <1>5 DEF process_descriptor, Current
  <2>2. descriptors[Current] \in Descriptor(V)
    BY Zenon, <2>1 DEF Typed
  <2>3. /\ process' = [process EXCEPT !.pc = "refresh", !.old = descriptors[Current].allocations]
        /\ descriptors' = [descriptors EXCEPT ![Current].allocations = <<>>]
        /\ UNCHANGED <<manager, fails>>
    BY Zenon, <1>5 DEF process_descriptor, Current
  <2>4. [descriptors[Current] EXCEPT !.allocations = <<>>] \in Descriptor(V)
    BY Zenon, <2>2, TakeEntries
  <2>5. /\ DOMAIN descriptors' = DOMAIN descriptors
        /\ descriptors' \in [DOMAIN descriptors -> Descriptor(V)]
    BY Zenon, <2>1, <2>3, <2>4 DEF Typed
  <2>6. process' \in [pc : {"tick", "next", "refresh", "schedule"},
                      names : Seq(DOMAIN descriptors), old : Seq(Entry(V)), remaining : V,
                      answer : SUBSET (Ids \cup {"Queued", "Running", "None", "Err"})]
    BY Zenon, <2>2, <2>3 DEF Typed, Descriptor
  <2>. QED  BY Zenon, <2>3, <2>5, <2>6 DEF Typed
<1>6. CASE tick_ends
  <2>1. process' = Asleep /\ <<>> \in Seq(DOMAIN descriptors) /\ <<>> \in Seq(Entry(V))
    BY <1>6 DEF tick_ends
  <2>. QED  BY <1>3, <1>6, <2>1 DEF tick_ends, Asleep, Nothing
<1>7. CASE refresh_allocations
  <2>1. PICK a \in process.answer :
            /\ descriptors' = [descriptors EXCEPT ![Current] = refreshed(@, Head(process.old), a)]
            /\ process' = [process EXCEPT !.old = Tail(@), !.answer = Nothing]
            /\ process.pc = "refresh" /\ process.old # <<>>
            /\ UNCHANGED <<manager, fails>>
    BY Zenon, <1>7 DEF refresh_allocations, Current
  <2>2. a \in {"Queued", "Running", "None", "Err"}
    BY Zenon, <2>1 DEF AllocInv, Suspended
  <2>3. Current \in DOMAIN descriptors /\ descriptors[Current] \in Descriptor(V)
    BY Zenon, <1>2, <2>1 DEF Typed
  <2>4. Head(process.old) \in Entry(V) /\ Tail(process.old) \in Seq(Entry(V))
    BY <1>2, <2>1
  <2>5. refreshed(descriptors[Current], Head(process.old), a) \in Descriptor(V)
    BY Zenon, <2>2, <2>3, <2>4, Refreshed
  <2>6. /\ DOMAIN descriptors' = DOMAIN descriptors
        /\ descriptors' \in [DOMAIN descriptors -> Descriptor(V)]
    BY Zenon, <2>1, <2>3, <2>5 DEF Typed
  <2>7. process' \in [pc : {"tick", "next", "refresh", "schedule"},
                      names : Seq(DOMAIN descriptors), old : Seq(Entry(V)), remaining : V,
                      answer : SUBSET (Ids \cup {"Queued", "Running", "None", "Err"})]
    BY Zenon, <2>1, <2>4 DEF Typed, Nothing
  <2>. QED  BY Zenon, <2>1, <2>6, <2>7 DEF Typed
<1>8. CASE schedule_new_allocations
  BY Zenon, <1>3, <1>8 DEF schedule_new_allocations, Typed
<1>9. CASE schedule_answered
  <2>1. PICK a \in process.answer :
            /\ descriptors' = [descriptors EXCEPT ![Current] = queued(@, n, a)]
            /\ process' = [process EXCEPT !.remaining = @ - n, !.answer = Nothing]
            /\ process.pc = "schedule"
            /\ UNCHANGED <<manager, fails>>
    BY Zenon, <1>9 DEF schedule_answered, Current
  <2>2. a \in Ids \cup {"Err"}
    BY Zenon, <2>1 DEF AllocInv, Suspended
  <2>3. Current \in DOMAIN descriptors /\ descriptors[Current] \in Descriptor(V)
    BY Zenon, <1>2, <2>1 DEF Typed
  <2>4. queued(descriptors[Current], n, a) \in Descriptor(V)
    BY Zenon, <2>2, <2>3, Queued
  <2>5. /\ DOMAIN descriptors' = DOMAIN descriptors
        /\ descriptors' \in [DOMAIN descriptors -> Descriptor(V)]
    BY Zenon, <2>1, <2>3, <2>4 DEF Typed
  <2>6. process' \in [pc : {"tick", "next", "refresh", "schedule"},
                      names : Seq(DOMAIN descriptors), old : Seq(Entry(V)), remaining : V,
                      answer : SUBSET (Ids \cup {"Queued", "Running", "None", "Err"})]
    BY Zenon, <2>1 DEF Typed, Nothing
  <2>. QED  BY Zenon, <2>1, <2>5, <2>6 DEF Typed
<1>10. CASE schedule_ends
  <2>1. process.names # <<>>
    BY Zenon, <1>10 DEF schedule_ends, AllocInv, Suspended
  <2>2. Tail(process.names) \in Seq(DOMAIN descriptors)
    BY Zenon, <1>2, <2>1, TailSeq
  <2>. QED  BY Zenon, <1>3, <1>10, <2>2 DEF schedule_ends, Typed
<1>11. CASE ManagerStatus
  <2>. DEFINE held == manager[Current]
              id == Head(process.old).id
              a == IF id \in DOMAIN held THEN held[id].status ELSE "None"
  <2>1. process' = [process EXCEPT !.answer = {a}] /\ UNCHANGED <<descriptors, manager, fails>>
    BY Zenon, <1>11 DEF ManagerStatus, Current
  <2>2. Current \in Queues
    BY Zenon, <1>2, <1>11 DEF ManagerStatus, Typed
  <2>3. a \in {"Queued", "Running", "None"}
    BY <2>2 DEF Typed, Held, Statuses
  <2>. HIDE DEF a
  <2>. QED  BY Zenon, <1>3, <2>1, <2>3 DEF Typed
<1>12. CASE ManagerStatusFails \/ ManagerQueueFails
  <2>1. /\ fails' \in [status : Nat, queue : Nat]
        /\ process' = [process EXCEPT !.answer = {"Err"}]
        /\ UNCHANGED <<descriptors, manager>>
    BY <1>12 DEF ManagerStatusFails, ManagerQueueFails, Typed
  <2>2. process' \in [pc : {"tick", "next", "refresh", "schedule"},
                      names : Seq(DOMAIN descriptors), old : Seq(Entry(V)), remaining : V,
                      answer : SUBSET (Ids \cup {"Queued", "Running", "None", "Err"})]
    BY Zenon, <2>1 DEF Typed
  <2>. QED  BY Zenon, <2>1, <2>2 DEF Typed
<1>13. CASE ManagerQueues
  <2>1. Current \in DOMAIN descriptors /\ Current \in Queues
    BY Zenon, <1>2, <1>13 DEF ManagerQueues, Typed
  <2>2. PICK id \in Ids :
            /\ manager' = [manager EXCEPT ![Current] = [i \in DOMAIN @ \cup {id} |->
                   IF i = id THEN [worker_count |-> n, status |-> "Queued"] ELSE @[i]]]
            /\ process' = [process EXCEPT !.answer = {id}]
            /\ UNCHANGED <<descriptors, fails>>
    BY Zenon, <1>13 DEF ManagerQueues, Current
  <2>. DEFINE held == [i \in DOMAIN manager[Current] \cup {id} |->
                   IF i = id THEN [worker_count |-> n, status |-> "Queued"]
                             ELSE manager[Current][i]]
  <2>3. DOMAIN held \subseteq Ids /\ held \in [DOMAIN held -> Held(V)]
    BY <2>1 DEF Typed, Held, Statuses
  <2>4. manager' = [manager EXCEPT ![Current] = held]
    BY Zenon, <2>2
  <2>. HIDE DEF held
  <2>5. /\ DOMAIN manager' = Queues
        /\ manager' = [q \in Queues |-> manager'[q]]
        /\ \A q \in Queues : /\ DOMAIN manager'[q] \subseteq Ids
                             /\ manager'[q] \in [DOMAIN manager'[q] -> Held(V)]
    BY Zenon, <2>1, <2>3, <2>4 DEF Typed
  <2>6. process' \in [pc : {"tick", "next", "refresh", "schedule"},
                      names : Seq(DOMAIN descriptors), old : Seq(Entry(V)), remaining : V,
                      answer : SUBSET (Ids \cup {"Queued", "Running", "None", "Err"})]
    BY Zenon, <2>2 DEF Typed
  <2>. QED  BY Zenon, <2>2, <2>5, <2>6 DEF Typed
<1>14. ASSUME NEW name \in Queues, add_descriptor(name)
       PROVE  Typed(V)'
  <2>. DEFINE new == DOMAIN descriptors \cup {name}
  <2>1. /\ descriptors' = [q \in new |-> IF q = name THEN [allocations |-> <<>>, events |-> <<>>]
                                         ELSE descriptors[q]]
        /\ UNCHANGED <<process, manager, fails>>
    BY Zenon, <1>14 DEF add_descriptor
  <2>2. [allocations |-> <<>>, events |-> <<>>] \in Descriptor(V)
    BY DEF Descriptor
  <2>3. DOMAIN descriptors' = new /\ descriptors' \in [new -> Descriptor(V)]
    BY Zenon, <2>1, <2>2 DEF Typed
  <2>4. IsFiniteSet(new) /\ new \subseteq Queues
    BY Zenon, <1>14, FS_AddElement DEF Typed
  <2>5. process.names \in Seq(new)
    BY Zenon, <1>2, SeqMono
  <2>6. process \in [pc : {"tick", "next", "refresh", "schedule"},
                     names : Seq(new), old : Seq(Entry(V)), remaining : V,
                     answer : SUBSET (Ids \cup {"Queued", "Running", "None", "Err"})]
    BY Zenon, <2>5 DEF Typed
  <2>. QED  BY Zenon, <2>1, <2>3, <2>4, <2>6 DEF Typed
<1>15. ASSUME NEW name \in Queues, NEW id \in DOMAIN manager[name],
              ManagerStarts(name, id) \/ ManagerEnds(name, id)
       PROVE  Typed(V)'
  <2>1. manager[name] \in [DOMAIN manager[name] -> Held(V)] /\ DOMAIN manager[name] \subseteq Ids
    BY Zenon, <1>15 DEF Typed
  <2>2. PICK held : /\ manager' = [manager EXCEPT ![name] = held]
                    /\ DOMAIN held \subseteq Ids
                    /\ held \in [DOMAIN held -> Held(V)]
    <3>1. CASE ManagerStarts(name, id)
      <4>. DEFINE held == [manager[name] EXCEPT ![id].status = "Running"]
      <4>1. manager' = [manager EXCEPT ![name] = held]
        BY Zenon, <3>1 DEF ManagerStarts
      <4>2. DOMAIN held \subseteq Ids /\ held \in [DOMAIN held -> Held(V)]
        BY Zenon, <1>15, <2>1 DEF Held, Statuses
      <4>. QED  BY Zenon, <4>1, <4>2
    <3>2. CASE ManagerEnds(name, id)
      <4>. DEFINE held == [i \in DOMAIN manager[name] \ {id} |-> manager[name][i]]
      <4>1. manager' = [manager EXCEPT ![name] = held]
        BY Zenon, <3>2 DEF ManagerEnds
      <4>2. DOMAIN held \subseteq Ids /\ held \in [DOMAIN held -> Held(V)]
        BY Zenon, <2>1
      <4>. QED  BY Zenon, <4>1, <4>2
    <3>. QED  BY Zenon, <1>15, <3>1, <3>2
  <2>3. /\ DOMAIN manager' = Queues
        /\ manager' = [q \in Queues |-> manager'[q]]
        /\ \A q \in Queues : /\ DOMAIN manager'[q] \subseteq Ids
                             /\ manager'[q] \in [DOMAIN manager'[q] -> Held(V)]
    BY Zenon, <1>15, <2>2 DEF Typed
  <2>4. UNCHANGED <<descriptors, process, fails>>
    BY Zenon, <1>15 DEF ManagerStarts, ManagerEnds
  <2>. QED  BY Zenon, <2>3, <2>4 DEF Typed
<1>16. CASE UNCHANGED vars
  BY Zenon, <1>16 DEF vars, Typed
<1>. QED  BY Zenon, <1>4, <1>5, <1>6, <1>7, <1>8, <1>9, <1>10, <1>11, <1>12, <1>13, <1>14, <1>15, <1>16
          DEF Next, Process, Manager
----------------------------------------------------------------------------
(* What the process and the manager hold.                                  *)

Rest == Suspended /\ Unique /\ NoStrangers /\ Within

\* The allocations that nobody knows of do not grow when the ones that are known
\* stay known.
LEMMA KeepWithin ==
    ASSUME Within, fails' = fails, fails.status \in Nat, Pending' <= Pending,
           \A q \in DOMAIN descriptors' : \A id \in Ids \cap DOMAIN manager'[q] :
               /\ q \in DOMAIN descriptors
               /\ id \in DOMAIN manager[q]
               /\ Known(q, id) => Known(q, id)'
    PROVE  Within'
<1>1. Forgotten' \subseteq Forgotten
  BY Zenon DEF Forgotten
<1>2. /\ IsFiniteSet(Forgotten')
      /\ Cardinality(Forgotten') <= Cardinality(Forgotten)
      /\ Cardinality(Forgotten') \in Nat
      /\ Cardinality(Forgotten) \in Nat
  BY Zenon, <1>1, FS_Subset, FS_CardinalityType DEF Within
<1>3. Pending \in Nat /\ Pending' \in Nat
  BY Zenon DEF Pending
<1>. QED  BY <1>2, <1>3 DEF Within

\* Where no call is under way, an allocation is known when its descriptor has it.
LEMMA KnownIdle ==
    ASSUME NEW q, NEW id, process.answer = {},
           process.pc = "refresh" => process.old = <<>>
    PROVE  /\ Known(q, id) <=> Has(descriptors[q].allocations, q, id)
           /\ Pending = 0
  BY DEF Known, Has, Pending

\* The steps that only move the process from one await to the next.
LEMMA MoveRest ==
    ASSUME NEW V, Typed(V), Typed(V)', Rest,
           autoalloc_tick \/ tick_ends \/ schedule_new_allocations \/ schedule_ends
    PROVE  Rest'
<1>1. /\ process.answer = {} /\ process'.answer = {}
      /\ process.old = <<>> /\ process'.old = <<>>
      /\ process'.pc = "schedule" => process'.names # <<>>
      /\ process'.pc \in {"next", "schedule", "tick"}
      /\ UNCHANGED <<descriptors, manager, fails>>
  <2>1. UNCHANGED <<descriptors, manager, fails>>
    BY Zenon DEF autoalloc_tick, tick_ends, schedule_new_allocations, schedule_ends
  <2>2. process.answer = {} /\ process.old = <<>>
    <3>1. \/ process.pc \in {"tick", "next"}
          \/ process.pc = "refresh" /\ process.old = <<>>
          \/ process.pc = "schedule" /\ process.remaining = 0
      BY Zenon DEF autoalloc_tick, tick_ends, schedule_new_allocations, schedule_ends
    <3>2. \A a : a \notin process.answer
      BY <3>1 DEF Rest, Suspended
    <3>. QED  BY Zenon, <3>1, <3>2 DEF Rest, Suspended
  <2>3. CASE autoalloc_tick
    BY <2>1, <2>2, <2>3 DEF autoalloc_tick, Typed
  <2>4. CASE tick_ends
    BY Zenon, <2>1, <2>2, <2>4 DEF tick_ends, Asleep, Nothing
  <2>5. CASE schedule_new_allocations
    BY Zenon, <2>1, <2>2, <2>5 DEF schedule_new_allocations, Typed, Rest, Suspended
  <2>6. CASE schedule_ends
    BY Zenon, <2>1, <2>2, <2>6 DEF schedule_ends, Typed
  <2>. QED  BY Zenon, <2>3, <2>4, <2>5, <2>6
<1>2. Suspended'
  BY Zenon, <1>1 DEF Suspended
<1>3. Unique'
  BY <1>1 DEF Unique, Rest, Distinct
<1>4. NoStrangers'
  BY Zenon, <1>1 DEF NoStrangers, Rest
<1>5. ASSUME NEW q, NEW id
      PROVE  /\ Known(q, id) <=> Has(descriptors[q].allocations, q, id)
             /\ Known(q, id)' <=> Has(descriptors[q].allocations, q, id)
  BY <1>1 DEF Known, Has
<1>6. Within'
  <2>1. Pending = 0 /\ Pending' = 0
    BY Zenon, <1>1 DEF Pending
  <2>2. fails.status \in Nat
    BY Zenon DEF Typed
  <2>. QED  BY <1>1, <1>5, <2>1, <2>2, KeepWithin DEF Rest
<1>. QED  BY Zenon, <1>2, <1>3, <1>4, <1>6 DEF Rest

\* The start of refresh_allocations: the entries move to the local variable.
LEMMA TakeRest ==
    ASSUME NEW V, Typed(V), Typed(V)', Rest, process_descriptor
    PROVE  Rest'
<1>1. /\ process.pc = "next" /\ process'.pc = "refresh"
      /\ process'.names = process.names /\ process.names # <<>>
      /\ process'.old = descriptors[Current].allocations
      /\ process'.answer = process.answer
      /\ UNCHANGED <<manager, fails>>
  BY Zenon DEF process_descriptor, Typed, Current
<1>2. process.answer = {} /\ process'.answer = {}
  BY Zenon, <1>1 DEF Rest, Suspended
<1>3. Current \in DOMAIN descriptors /\ Current' = Current
  BY <1>1 DEF Typed, Current
<1>4. /\ DOMAIN descriptors' = DOMAIN descriptors
      /\ descriptors'[Current].allocations = <<>>
      /\ \A q \in DOMAIN descriptors \ {Current} : descriptors'[q] = descriptors[q]
  <2>1. descriptors' = [descriptors EXCEPT ![Current].allocations = <<>>]
    BY Zenon DEF process_descriptor, Current
  <2>2. descriptors[Current] \in Descriptor(V)
    BY Zenon, <1>3 DEF Typed
  <2>. QED  BY Zenon, <1>3, <2>1, <2>2, TakeEntries DEF Typed
<1>5. Suspended'
  BY Zenon, <1>1, <1>2 DEF Suspended
<1>6. Unique'
  <2>1. \A q \in DOMAIN descriptors' : Distinct(descriptors'[q].allocations)
    BY <1>4 DEF Rest, Unique, Distinct
  <2>2. Distinct(process'.old)
    BY Zenon, <1>1, <1>3 DEF Rest, Unique
  <2>3. \A id : Free(descriptors'[Current'].allocations, id)
    BY <1>3, <1>4 DEF Free
  <2>. QED  BY Zenon, <1>1, <2>1, <2>2, <2>3 DEF Unique
<1>7. NoStrangers'
  BY Zenon, <1>1, <1>4 DEF NoStrangers, Rest
<1>8. ASSUME NEW q \in DOMAIN descriptors, NEW id
      PROVE  Known(q, id) => Known(q, id)'
  BY <1>1, <1>2, <1>3, <1>4, KnownIdle DEF Known, Has
<1>9. Pending' <= Pending
  BY <1>1, <1>2 DEF Pending
<1>10. Within'
  BY Zenon, <1>1, <1>4, <1>8, <1>9, KeepWithin DEF Rest, Typed
<1>. QED  BY Zenon, <1>5, <1>6, <1>7, <1>10 DEF Rest

\* A list after an entry was appended.
LEMMA AppendList ==
    ASSUME NEW W, NEW s \in Seq(Entry(W)), NEW x \in Entry(W), NEW q, NEW id
    PROVE  /\ Has(s, q, id) => Has(Append(s, x), q, id)
           /\ x.id = id /\ x.worker_count = manager[q][id].worker_count
                  => Has(Append(s, x), q, id)
           /\ Distinct(s) /\ Free(s, x.id) => Distinct(Append(s, x))
           /\ Free(s, id) /\ x.id # id => Free(Append(s, x), id)
<1>. DEFINE t == Append(s, x)
<1>1. /\ DOMAIN s = 1 .. Len(s) /\ DOMAIN t = 1 .. Len(s) + 1 /\ Len(s) \in Nat
      /\ \A i \in DOMAIN s : t[i] = s[i]
      /\ t[Len(s) + 1] = x
  OBVIOUS
<1>. HIDE DEF t
<1>2. DOMAIN t = DOMAIN s \cup {Len(s) + 1} /\ Len(s) + 1 \notin DOMAIN s
  BY <1>1
<1>3. /\ Has(s, q, id) => Has(t, q, id)
      /\ x.id = id /\ x.worker_count = manager[q][id].worker_count => Has(t, q, id)
  BY Zenon, <1>1, <1>2 DEF Has
<1>4. Distinct(s) /\ Free(s, x.id) => Distinct(t)
  BY Zenon, <1>1, <1>2 DEF Distinct, Free
<1>5. Free(s, id) /\ x.id # id => Free(t, id)
  BY Zenon, <1>1, <1>2 DEF Free
<1>. QED  BY Zenon, <1>3, <1>4, <1>5 DEF t

\* A list after its first entry was removed.
LEMMA TailList ==
    ASSUME NEW W, NEW s \in Seq(Entry(W)), s # <<>>
    PROVE  /\ \A q, id : Has(s, q, id) =>
                  \/ Has(Tail(s), q, id)
                  \/ Head(s).id = id /\ Head(s).worker_count = manager[q][id].worker_count
           /\ 1 \in DOMAIN s /\ Head(s) = s[1]
           /\ \A i \in DOMAIN Tail(s) : i + 1 \in DOMAIN s /\ Tail(s)[i] = s[i + 1]
           /\ Distinct(s) => /\ Distinct(Tail(s))
                             /\ \A i \in DOMAIN Tail(s) : Tail(s)[i].id # Head(s).id
<1>. DEFINE t == Tail(s)
<1>1. /\ DOMAIN s = 1 .. Len(s) /\ DOMAIN t = 1 .. Len(s) - 1 /\ Len(s) \in Nat \ {0}
      /\ \A i \in DOMAIN t : t[i] = s[i + 1]
      /\ Head(s) = s[1]
  OBVIOUS
<1>. HIDE DEF t
<1>2. /\ 1 \in DOMAIN s
      /\ \A i \in DOMAIN t : i \in Nat \ {0} /\ i + 1 \in DOMAIN s
      /\ \A i \in DOMAIN s : i = 1 \/ (i - 1 \in DOMAIN t /\ s[i] = t[i - 1])
  BY <1>1
<1>3. ASSUME NEW q, NEW id, Has(s, q, id)
      PROVE  \/ Has(t, q, id)
             \/ Head(s).id = id /\ Head(s).worker_count = manager[q][id].worker_count
  BY <1>1, <1>2, <1>3 DEF Has
<1>4. ASSUME Distinct(s)
      PROVE  Distinct(t) /\ \A i \in DOMAIN t : t[i].id # Head(s).id
  <2>1. ASSUME NEW i \in DOMAIN t, NEW j \in DOMAIN t, t[i].id = t[j].id
        PROVE  i = j
    <3>1. i + 1 = j + 1
      BY <1>1, <1>2, <1>4, <2>1 DEF Distinct
    <3>. QED  BY <1>2, <3>1
  <2>2. ASSUME NEW i \in DOMAIN t, t[i].id = Head(s).id
        PROVE  FALSE
    <3>1. i + 1 = 1
      BY <1>1, <1>2, <1>4, <2>2 DEF Distinct
    <3>. QED  BY <1>2, <3>1
  <2>. QED  BY Zenon, <2>1, <2>2 DEF Distinct
<1>. QED  BY Zenon, <1>1, <1>2, <1>3, <1>4 DEF t

\* An answer of the manager to a status call is applied.  The entry is put back,
\* or the manager has forgotten it too, or the call failed and this entry is the
\* one it costs.
LEMMA RefreshRest ==
    ASSUME NEW V, Typed(V), Typed(V)', Rest, refresh_allocations
    PROVE  Rest'
<1>. DEFINE x == Head(process.old)
            list == descriptors[Current].allocations
<1>1. PICK a \in process.answer :
          /\ descriptors' = [descriptors EXCEPT ![Current] = refreshed(@, x, a)]
          /\ process' = [process EXCEPT !.old = Tail(@), !.answer = Nothing]
          /\ process.pc = "refresh" /\ process.old # <<>>
          /\ UNCHANGED <<manager, fails>>
  BY Zenon DEF refresh_allocations, Current
<1>2. /\ a \in {"Queued", "Running", "None", "Err"}
      /\ a = "None" => x.id \notin DOMAIN manager[Current]
      /\ process.answer = {a}
      /\ process.names # <<>>
  BY Zenon, <1>1 DEF Rest, Suspended
<1>3. /\ process'.pc = "refresh" /\ process'.names = process.names
      /\ process'.old = Tail(process.old) /\ process'.answer = {}
  BY Zenon, <1>1 DEF Typed, Nothing
<1>4. /\ Current \in DOMAIN descriptors /\ Current' = Current
      /\ descriptors[Current] \in Descriptor(V)
      /\ list \in Seq(Entry(V))
  BY SMTT(30), <1>1, <1>2, <1>3 DEF Typed, Current, Descriptor
<1>5. process.old \in Seq(Entry(V)) /\ x \in Entry(V)
  BY Zenon, <1>1, TailSeq DEF Typed
<1>6. /\ DOMAIN descriptors' = DOMAIN descriptors
      /\ descriptors'[Current] = refreshed(descriptors[Current], x, a)
      /\ \A q \in DOMAIN descriptors \ {Current} : descriptors'[q] = descriptors[q]
  BY Zenon, <1>1, <1>4 DEF Typed
<1>. DEFINE new == descriptors'[Current].allocations
<1>7. /\ a \in {"None", "Err"} => new = list
      /\ a \in Statuses => Appended(V, new, list, x)
  <2>. DEFINE d == descriptors[Current]
              A == {"Queued", "Running", "None", "Err"}
  <2>1. d \in Descriptor(V) /\ x \in Entry(V) /\ a \in A
    BY Zenon, <1>2, <1>4, <1>5
  <2>2. list = d.allocations /\ new = refreshed(d, x, a).allocations
    BY Zenon, <1>6
  <2>. HIDE DEF d, x, list, new
  <2>3. /\ a \in {"None", "Err"} => refreshed(d, x, a).allocations = d.allocations
        /\ a \in Statuses => Appended(V, refreshed(d, x, a).allocations, d.allocations, x)
    BY ONLY <2>1, Refreshed
  <2>. QED  BY Zenon, <2>2, <2>3
<1>. HIDE DEF x, list, new
<1>8. /\ Distinct(list) /\ Distinct(process.old) /\ Free(list, x.id)
      /\ \A i \in DOMAIN process.old : Free(list, process.old[i].id)
  <2>1. /\ Distinct(list) /\ Distinct(process.old)
        /\ \A i \in DOMAIN process.old : Free(list, process.old[i].id)
    BY Zenon, <1>1, <1>4 DEF Rest, Unique, list
  <2>2. 1 \in DOMAIN process.old /\ x = process.old[1]
    BY Zenon, <1>1, <1>5, TailList DEF x
  <2>. QED  BY Zenon, <2>1, <2>2
<1>9. Suspended'
  BY Zenon, <1>2, <1>3 DEF Suspended
<1>10. /\ Distinct(new)
       /\ \A i \in DOMAIN process'.old : Free(new, process'.old[i].id)
       /\ Distinct(process'.old)
  <2>1. /\ Distinct(Tail(process.old))
        /\ \A i \in DOMAIN Tail(process.old) :
               /\ Tail(process.old)[i].id # x.id
               /\ Free(list, Tail(process.old)[i].id)
    BY <1>1, <1>5, <1>8, TailList DEF x
  <2>2. CASE a \in {"None", "Err"}
    BY Zenon, <1>3, <1>7, <1>8, <2>1, <2>2
  <2>3. CASE a \in Statuses
    <3>1. Distinct(new)
      BY Zenon, <1>4, <1>7, <1>8, <2>3, AppendList DEF Appended
    <3>2. \A i \in DOMAIN Tail(process.old) : Free(new, Tail(process.old)[i].id)
      BY Zenon, <1>4, <1>7, <2>1, <2>3, AppendList DEF Appended
    <3>. QED  BY Zenon, <1>3, <2>1, <3>1, <3>2
  <2>. QED  BY Zenon, <1>2, <2>2, <2>3 DEF Statuses
<1>11. Unique'
  BY Zenon, <1>3, <1>4, <1>6, <1>10 DEF Rest, Unique, new
<1>12. NoStrangers'
  BY Zenon, <1>1, <1>6 DEF NoStrangers, Rest
<1>13. ASSUME NEW q \in DOMAIN descriptors, NEW id, Known(q, id),
              a \in Statuses \/ q # Current \/ id # x.id
       PROVE  Known(q, id)'
  <2>1. CASE q # Current
    BY Zenon, <1>1, <1>6, <1>13, <2>1 DEF Known, Has
  <2>2. CASE q = Current
    <3>1. Has(list, q, id) \/ Has(process.old, q, id)
      BY Zenon, <1>1, <1>13, <2>2 DEF Known, list
    <3>2. \/ Has(list, q, id)
          \/ Has(Tail(process.old), q, id)
          \/ x.id = id /\ x.worker_count = manager[q][id].worker_count
      BY <1>1, <1>5, <3>1, TailList DEF x
    <3>3. Has(new, q, id) \/ Has(Tail(process.old), q, id)
      <4>1. CASE a \in Statuses
        <5>1. PICK y \in Entry(V) : /\ y.id = x.id /\ y.worker_count = x.worker_count
                                    /\ new = Append(list, y)
          BY Zenon, <1>7, <4>1 DEF Appended
        <5>2. /\ Has(list, q, id) => Has(Append(list, y), q, id)
              /\ y.id = id /\ y.worker_count = manager[q][id].worker_count
                     => Has(Append(list, y), q, id)
          BY Zenon, <1>4, <5>1, AppendList
        <5>. QED  BY Zenon, <3>2, <5>1, <5>2
      <4>2. CASE a \in {"None", "Err"} /\ id # x.id
        BY Zenon, <1>7, <3>2, <4>2
      <4>. QED  BY Zenon, <1>2, <1>13, <2>2, <4>1, <4>2 DEF Statuses
    <3>. QED  BY <1>1, <1>3, <1>4, <2>2, <3>3 DEF Known, Has, new
  <2>. QED  BY Zenon, <2>1, <2>2
<1>14. Pending' = 0 /\ fails' = fails /\ fails.status \in Nat
  BY Zenon, <1>1, <1>3 DEF Pending, Typed
<1>15. Within'
  <2>1. CASE a # "Err"
    <3>1. \A q \in DOMAIN descriptors : \A id \in DOMAIN manager[q] : Known(q, id) => Known(q, id)'
      BY Zenon, <1>2, <1>13, <2>1 DEF Statuses
    <3>2. Pending' <= Pending
      BY <1>14 DEF Pending
    <3>. QED  BY Zenon, <1>1, <1>6, <1>14, <3>1, <3>2, KeepWithin DEF Rest
  <2>2. CASE a = "Err"
    <3>. DEFINE more == Forgotten \cup {<<Current, x.id>>}
    <3>1. Forgotten' \subseteq more
      <4>. SUFFICES ASSUME NEW p \in Forgotten', p # <<Current, x.id>>
                    PROVE  p \in Forgotten
        BY Zenon
      <4>1. /\ p \in (DOMAIN descriptors) \X Ids /\ p[2] \in DOMAIN manager[p[1]]
            /\ ~ Known(p[1], p[2])'
        BY Zenon, <1>1, <1>6 DEF Forgotten
      <4>2. p[1] \in DOMAIN descriptors /\ (p[1] # Current \/ p[2] # x.id)
        BY <4>1
      <4>3. ~ Known(p[1], p[2])
        BY Zenon, <1>13, <4>1, <4>2
      <4>. QED  BY Zenon, <4>1, <4>3 DEF Forgotten
    <3>2. /\ IsFiniteSet(Forgotten) /\ Cardinality(Forgotten) + 1 <= fails.status
          /\ Cardinality(Forgotten) \in Nat
      BY Zenon, <1>1, <1>2, <2>2, FS_CardinalityType DEF Rest, Within, Pending
    <3>3. IsFiniteSet(more) /\ Cardinality(more) <= Cardinality(Forgotten) + 1
      <4>1. ASSUME NEW z
            PROVE  /\ IsFiniteSet(Forgotten \cup {z})
                   /\ \/ Cardinality(Forgotten \cup {z}) = Cardinality(Forgotten)
                      \/ Cardinality(Forgotten \cup {z}) = Cardinality(Forgotten) + 1
        BY Zenon, <3>2, FS_AddElement
      <4>2. /\ IsFiniteSet(more)
            /\ \/ Cardinality(more) = Cardinality(Forgotten)
               \/ Cardinality(more) = Cardinality(Forgotten) + 1
        BY Zenon, <4>1
      <4>. HIDE DEF more
      <4>. QED  BY <3>2, <4>2
    <3>. HIDE DEF more
    <3>4. /\ IsFiniteSet(Forgotten') /\ Cardinality(Forgotten') <= Cardinality(more)
          /\ Cardinality(Forgotten') \in Nat /\ Cardinality(more) \in Nat
      BY Zenon, <3>1, <3>3, FS_Subset, FS_CardinalityType
    <3>. QED  BY <1>14, <3>2, <3>3, <3>4 DEF Within
  <2>. QED  BY Zenon, <2>1, <2>2
<1>. QED  BY Zenon, <1>9, <1>11, <1>12, <1>15 DEF Rest

\* A submission is answered: its allocation moves from the answer to the list.
LEMMA AnswerRest ==
    ASSUME NEW V, NEW n \in V, n = to_schedule(Current), Typed(V), Typed(V)', Rest,
           schedule_answered
    PROVE  Rest'
<1>. DEFINE list == descriptors[Current].allocations
            new == descriptors'[Current].allocations
<1>1. PICK a \in process.answer :
          /\ descriptors' = [descriptors EXCEPT ![Current] = queued(@, n, a)]
          /\ process' = [process EXCEPT !.remaining = @ - n, !.answer = Nothing]
          /\ process.pc = "schedule"
          /\ UNCHANGED <<manager, fails>>
  BY Zenon DEF schedule_answered, Current
<1>2. a \in Ids \cup {"Err"} /\ process.answer = {a} /\ process.names # <<>> /\ process.old = <<>>
  BY Zenon, <1>1 DEF Rest, Suspended
<1>3. /\ process'.pc = "schedule" /\ process'.names = process.names
      /\ process'.old = process.old /\ process'.answer = {}
  BY Zenon, <1>1 DEF Typed, Nothing
<1>4. /\ Current \in DOMAIN descriptors /\ Current' = Current
      /\ descriptors[Current] \in Descriptor(V)
      /\ list \in Seq(Entry(V))
  <2>1. Current' = Current
    BY Zenon, <1>3 DEF Current
  <2>. QED  BY Zenon, <1>2, <2>1, CurrentTyped
<1>5. /\ DOMAIN descriptors' = DOMAIN descriptors
      /\ descriptors'[Current] = queued(descriptors[Current], n, a)
      /\ \A q \in DOMAIN descriptors \ {Current} : descriptors'[q] = descriptors[q]
  BY Zenon, <1>1, <1>4 DEF Typed
<1>6. /\ a = "Err" => new = list
      /\ a \in Ids => Added(V, new, list, a, n)
  <2>1. \A d \in Descriptor(V) :
            /\ a = "Err" => queued(d, n, a).allocations = d.allocations
            /\ a \in Ids => Added(V, queued(d, n, a).allocations, d.allocations, a, n)
    BY <1>2, Queued
  <2>. QED  BY Zenon, <1>4, <1>5, <2>1
<1>. HIDE DEF list, new
<1>7. Distinct(list) /\ Free(list, a) /\ Distinct(process.old)
  BY Zenon, <1>1, <1>4 DEF Rest, Unique, list
<1>8. Suspended'
  BY Zenon, <1>2, <1>3 DEF Suspended
<1>9. Distinct(new)
  <2>1. CASE a \in Ids
    <3>1. PICK y \in Entry(V) : y.id = a /\ new = Append(list, y)
      BY Zenon, <1>6, <2>1 DEF Added
    <3>. QED  BY Zenon, <1>4, <1>7, <3>1, AppendList
  <2>2. CASE a = "Err"
    BY Zenon, <1>6, <1>7, <2>2
  <2>. QED  BY Zenon, <1>2, <2>1, <2>2
<1>10. Unique'
  <2>1. \A q \in DOMAIN descriptors' : Distinct(descriptors'[q].allocations)
    BY Zenon, <1>4, <1>5, <1>9 DEF Rest, Unique, new
  <2>. QED  BY Zenon, <1>3, <1>7, <2>1 DEF Unique
<1>11. NoStrangers'
  BY Zenon, <1>1, <1>5 DEF NoStrangers, Rest
<1>12. ASSUME NEW q \in DOMAIN descriptors, NEW id \in Ids, Known(q, id)
       PROVE  Known(q, id)'
  <2>1. CASE q # Current
    BY Zenon, <1>1, <1>5, <1>12, <2>1 DEF Known, Has
  <2>2. CASE q = Current
    <3>1. Has(list, q, id) \/ (id = a /\ a \in Ids /\ n = manager[q][id].worker_count)
      BY Zenon, <1>1, <1>2, <1>12, <2>2 DEF Known, list
    <3>2. Has(new, q, id)
      <4>1. CASE a \in Ids
        <5>1. PICK y \in Entry(V) : y.id = a /\ y.worker_count = n /\ new = Append(list, y)
          BY Zenon, <1>6, <4>1 DEF Added
        <5>2. /\ Has(list, q, id) => Has(Append(list, y), q, id)
              /\ y.id = id /\ y.worker_count = manager[q][id].worker_count
                     => Has(Append(list, y), q, id)
          BY Zenon, <1>4, AppendList
        <5>. QED  BY Zenon, <3>1, <5>1, <5>2
      <4>2. CASE a = "Err"
        BY Zenon, <1>6, <3>1, <4>2, IdsAssumption
      <4>. QED  BY Zenon, <1>2, <4>1, <4>2
    <3>. QED  BY Zenon, <1>1, <1>4, <2>2, <3>2 DEF Known, Has, new
  <2>. QED  BY Zenon, <2>1, <2>2
<1>13. Pending' <= Pending /\ fails' = fails /\ fails.status \in Nat
  BY <1>1, <1>3 DEF Pending, Typed
<1>14. Within'
  BY Zenon, <1>1, <1>5, <1>12, <1>13, KeepWithin DEF Rest
<1>. QED  BY Zenon, <1>8, <1>10, <1>11, <1>14 DEF Rest

\* The manager answers a call, and nothing else changes but the count of failed
\* calls.
LEMMA StatusRest ==
    ASSUME NEW V, Typed(V), Typed(V)', Rest,
           ManagerStatus \/ ManagerStatusFails \/ ManagerQueueFails
    PROVE  Rest'
<1>1. PICK a :
          /\ process' = [process EXCEPT !.answer = {a}]
          /\ \/ /\ process.pc = "refresh" /\ process.old # <<>> /\ fails' = fails
                /\ a \in {"Queued", "Running", "None"}
                /\ a = "None" => Head(process.old).id \notin DOMAIN manager[Current]
             \/ /\ process.pc = "refresh" /\ process.old # <<>> /\ a = "Err"
                /\ fails'.status = fails.status + 1
             \/ /\ process.pc = "schedule" /\ process.remaining > 0 /\ a = "Err"
                /\ fails'.status = fails.status
  <2>1. CASE ManagerStatus
    <3>. DEFINE held == manager[Current]
                id == Head(process.old).id
                a == IF id \in DOMAIN held THEN held[id].status ELSE "None"
    <3>1. /\ process' = [process EXCEPT !.answer = {a}] /\ fails' = fails
          /\ process.pc = "refresh" /\ process.old # <<>>
      BY Zenon, <2>1 DEF ManagerStatus, Current
    <3>2. Current \in Queues
      BY Zenon, <3>1, CurrentTyped DEF Rest, Suspended
    <3>3. a \in {"Queued", "Running", "None"} /\ (a = "None" => id \notin DOMAIN held)
      BY <3>2 DEF Typed, Held, Statuses
    <3>. HIDE DEF a
    <3>. QED  BY Zenon, <3>1, <3>3
  <2>2. CASE ManagerStatusFails
    BY Zenon, <2>2 DEF ManagerStatusFails, Typed
  <2>3. CASE ManagerQueueFails
    BY Zenon, <2>3 DEF ManagerQueueFails, Typed
  <2>. QED  BY Zenon, <2>1, <2>2, <2>3
<1>2. UNCHANGED <<descriptors, manager>> /\ process.answer = {}
  BY Zenon DEF ManagerStatus, ManagerStatusFails, ManagerQueueFails, Nothing
<1>3. /\ process'.pc = process.pc /\ process'.names = process.names
      /\ process'.old = process.old /\ process'.remaining = process.remaining
      /\ process'.answer = {a} /\ Current' = Current
  BY Zenon, <1>1 DEF Typed, Current
<1>4. Suspended'
  BY Zenon, <1>1, <1>2, <1>3 DEF Rest, Suspended
<1>5. Unique'
  <2>1. process.pc = "schedule" => Free(descriptors[Current].allocations, a)
    <3>. SUFFICES ASSUME process.pc = "schedule"
                  PROVE  Free(descriptors[Current].allocations, a)
      BY Zenon
    <3>1. a = "Err" /\ process.names # <<>>
      BY Zenon, <1>1 DEF Rest, Suspended
    <3>2. \A i \in DOMAIN descriptors[Current].allocations :
              descriptors[Current].allocations[i].id \in Ids
      BY Zenon, <3>1, CurrentTyped, ListIds
    <3>. QED  BY Zenon, <3>1, <3>2, IdsAssumption DEF Free
  <2>. QED  BY Zenon, <1>2, <1>3, <2>1 DEF Rest, Unique
<1>6. NoStrangers'
  BY Zenon, <1>2 DEF NoStrangers, Rest
<1>7. Forgotten' \subseteq Forgotten
  <2>1. ASSUME NEW q, NEW id, Known(q, id)
        PROVE  Known(q, id)'
    BY Zenon, <1>2, <1>3, <2>1 DEF Known, Has
  <2>. QED  BY Zenon, <1>2, <2>1 DEF Forgotten
<1>8. Pending = 0 /\ fails.status \in Nat /\ fails'.status = fails.status + Pending'
  BY <1>1, <1>2, <1>3 DEF Pending, Typed
<1>9. /\ IsFiniteSet(Forgotten') /\ Cardinality(Forgotten') <= Cardinality(Forgotten)
      /\ Cardinality(Forgotten') \in Nat /\ Cardinality(Forgotten) \in Nat
  BY Zenon, <1>7, FS_Subset, FS_CardinalityType DEF Rest, Within
<1>10. Within'
  <2>1. Pending' \in Nat
    BY Zenon DEF Pending
  <2>. QED  BY <1>8, <1>9, <2>1 DEF Rest, Within
<1>. QED  BY Zenon, <1>4, <1>5, <1>6, <1>10 DEF Rest

\* The manager accepts a submission, under an id that the descriptor does not list.
LEMMA QueuesRest ==
    ASSUME NEW V, Typed(V), Typed(V)', Rest, ManagerQueues
    PROVE  Rest'
<1>. DEFINE list == descriptors[Current].allocations
<1>1. PICK id \in Ids :
          /\ id \notin {alloc.id : alloc \in ToSet(list)}
          /\ manager' = [manager EXCEPT ![Current] = [i \in DOMAIN @ \cup {id} |->
                 IF i = id THEN [worker_count |-> to_schedule(Current), status |-> "Queued"]
                           ELSE @[i]]]
          /\ process' = [process EXCEPT !.answer = {id}]
          /\ process.pc = "schedule" /\ process.remaining > 0 /\ process.answer = {}
          /\ UNCHANGED <<descriptors, fails>>
  BY Zenon DEF ManagerQueues, Current, Nothing
<1>2. process.names # <<>>
  BY Zenon, <1>1 DEF Rest, Suspended
<1>3. Current \in DOMAIN descriptors /\ Current \in Queues /\ list \in Seq(Entry(V))
  BY Zenon, <1>2, CurrentTyped
<1>4. /\ process'.pc = "schedule" /\ process'.names = process.names
      /\ process'.old = process.old /\ process'.remaining = process.remaining
      /\ process'.answer = {id} /\ Current' = Current
  BY Zenon, <1>1 DEF Typed, Current
<1>5. /\ DOMAIN manager' = Queues
      /\ DOMAIN manager'[Current] = DOMAIN manager[Current] \cup {id}
      /\ manager'[Current][id].worker_count = to_schedule(Current)
      /\ \A i \in DOMAIN manager[Current] \ {id} : manager'[Current][i] = manager[Current][i]
      /\ \A q \in Queues \ {Current} : manager'[q] = manager[q]
  BY Zenon, <1>1, <1>3 DEF Typed
<1>6. Suspended'
  BY Zenon, <1>1, <1>2, <1>4 DEF Rest, Suspended
<1>7. Unique'
  <2>1. Free(list, id)
    BY Zenon, <1>1 DEF Free, ToSet
  <2>. QED  BY Zenon, <1>1, <1>4, <2>1 DEF Rest, Unique
<1>8. NoStrangers'
  BY <1>1, <1>3, <1>5 DEF NoStrangers, Rest
<1>9. ASSUME NEW q \in DOMAIN descriptors, NEW i \in DOMAIN manager'[q]
      PROVE  Known(q, i)' \/ (i \in DOMAIN manager[q] /\ (Known(q, i) => Known(q, i)'))
  <2>1. q \in Queues
    BY Zenon DEF Typed
  <2>2. CASE q = Current /\ i = id
    <3>1. to_schedule(q)' = to_schedule(q)
      BY Zenon, <1>4 DEF to_schedule
    <3>. QED  BY Zenon, <1>4, <1>5, <2>2, <3>1 DEF Known
  <2>3. CASE q # Current \/ i # id
    <3>1. i \in DOMAIN manager[q] /\ manager'[q][i] = manager[q][i]
      BY <1>5, <1>9, <2>1, <2>3
    <3>2. Known(q, i) => Has(descriptors[q].allocations, q, i)
      BY Zenon, <1>1 DEF Known
    <3>3. Has(descriptors[q].allocations, q, i) => Known(q, i)'
      BY Zenon, <1>1, <3>1 DEF Known, Has
    <3>. QED  BY Zenon, <3>1, <3>2, <3>3
  <2>. QED  BY Zenon, <2>2, <2>3
<1>10. Within'
  <2>1. Forgotten' \subseteq Forgotten
    BY Zenon, <1>1, <1>9 DEF Forgotten
  <2>2. /\ IsFiniteSet(Forgotten') /\ Cardinality(Forgotten') <= Cardinality(Forgotten)
        /\ Cardinality(Forgotten') \in Nat /\ Cardinality(Forgotten) \in Nat
    BY Zenon, <2>1, FS_Subset, FS_CardinalityType DEF Rest, Within
  <2>3. Pending = 0 /\ Pending' = 0 /\ fails' = fails /\ fails.status \in Nat
    BY Zenon, <1>1, <1>4 DEF Pending, Typed
  <2>. QED  BY <2>2, <2>3 DEF Rest, Within
<1>. QED  BY Zenon, <1>6, <1>7, <1>8, <1>10 DEF Rest

\* A new queue: the manager holds nothing of it.
LEMMA AddRest ==
    ASSUME NEW V, Typed(V), Typed(V)', Rest, NEW name \in Queues, add_descriptor(name)
    PROVE  Rest'
<1>1. /\ name \notin DOMAIN descriptors
      /\ DOMAIN descriptors' = DOMAIN descriptors \cup {name}
      /\ descriptors'[name].allocations = <<>>
      /\ \A q \in DOMAIN descriptors : descriptors'[q] = descriptors[q]
      /\ UNCHANGED <<process, manager, fails>>
  BY Zenon DEF add_descriptor
<1>2. DOMAIN manager[name] = {}
  BY Zenon, <1>1 DEF Rest, NoStrangers
<1>3. Current' = Current /\ (process.pc \in {"refresh", "schedule"} => Current \in DOMAIN descriptors)
  BY Zenon, <1>1, CurrentTyped DEF Rest, Suspended, Current
<1>4. Suspended'
  BY Zenon, <1>1, <1>3 DEF Rest, Suspended
<1>5. Unique'
  <2>1. Distinct(<<>>)
    BY DEF Distinct
  <2>2. \A q \in DOMAIN descriptors' : Distinct(descriptors'[q].allocations)
    BY Zenon, <1>1, <2>1 DEF Rest, Unique
  <2>. QED  BY Zenon, <1>1, <1>3, <2>2 DEF Rest, Unique
<1>6. NoStrangers'
  BY Zenon, <1>1 DEF NoStrangers, Rest
<1>7. ASSUME NEW q \in DOMAIN descriptors, NEW id, Known(q, id)
      PROVE  Known(q, id)'
  BY Zenon, <1>1, <1>3, <1>7 DEF Known, Has, to_schedule
<1>8. Within'
  <2>1. Pending' <= Pending /\ fails' = fails /\ fails.status \in Nat
    BY <1>1 DEF Pending, Typed
  <2>. QED  BY Zenon, <1>1, <1>2, <1>7, <2>1, KeepWithin DEF Rest
<1>. QED  BY Zenon, <1>4, <1>5, <1>6, <1>8 DEF Rest

\* An allocation starts or ends.
LEMMA ManagerRest ==
    ASSUME NEW V, Typed(V), Typed(V)', Rest, NEW name \in Queues, NEW id \in DOMAIN manager[name],
           ManagerStarts(name, id) \/ ManagerEnds(name, id)
    PROVE  Rest'
<1>1. UNCHANGED <<descriptors, process, fails>> /\ Current' = Current
  BY Zenon DEF ManagerStarts, ManagerEnds, Current
<1>2. /\ \A q \in Queues \ {name} : manager'[q] = manager[q]
      /\ DOMAIN manager'[name] \subseteq DOMAIN manager[name]
      /\ \A i \in DOMAIN manager'[name] :
             manager'[name][i].worker_count = manager[name][i].worker_count
  <2>1. manager[name] \in [DOMAIN manager[name] -> Held(V)]
    BY Zenon DEF Typed
  <2>2. CASE ManagerStarts(name, id)
    <3>. DEFINE held == [manager[name] EXCEPT ![id].status = "Running"]
    <3>1. manager' = [manager EXCEPT ![name] = held]
      BY Zenon, <2>2 DEF ManagerStarts
    <3>2. /\ DOMAIN held = DOMAIN manager[name]
          /\ \A i \in DOMAIN held : held[i].worker_count = manager[name][i].worker_count
      BY Zenon, <2>1 DEF Held
    <3>. HIDE DEF held
    <3>. QED  BY Zenon, <3>1, <3>2 DEF Typed
  <2>3. CASE ManagerEnds(name, id)
    BY Zenon, <2>3 DEF ManagerEnds, Typed
  <2>. QED  BY Zenon, <2>2, <2>3
<1>3. \A q \in Queues :
          /\ DOMAIN manager'[q] \subseteq DOMAIN manager[q]
          /\ \A i \in DOMAIN manager'[q] :
                 manager'[q][i].worker_count = manager[q][i].worker_count
  BY Zenon, <1>2
<1>4. Suspended'
  <2>1. process.pc \in {"refresh", "schedule"} => Current \in Queues
    BY Zenon, CurrentTyped DEF Rest, Suspended
  <2>. QED  BY Zenon, <1>1, <1>3, <2>1 DEF Rest, Suspended
<1>5. Unique'
  BY Zenon, <1>1 DEF Rest, Unique
<1>6. NoStrangers'
  BY Zenon, <1>1, <1>3 DEF NoStrangers, Rest
<1>7. ASSUME NEW q \in DOMAIN descriptors, NEW i \in DOMAIN manager'[q], Known(q, i)
      PROVE  Known(q, i)'
  <2>1. manager'[q][i].worker_count = manager[q][i].worker_count
    BY Zenon, <1>3 DEF Typed
  <2>. QED  BY Zenon, <1>1, <1>7, <2>1 DEF Known, Has, to_schedule
<1>8. Within'
  <2>1. Pending' <= Pending /\ fails' = fails /\ fails.status \in Nat
    BY <1>1 DEF Pending, Typed
  <2>2. DOMAIN descriptors \subseteq Queues
    BY Zenon DEF Typed
  <2>. QED  BY Zenon, <1>1, <1>3, <1>7, <2>1, <2>2, KeepWithin DEF Rest
<1>. QED  BY Zenon, <1>4, <1>5, <1>6, <1>8 DEF Rest
----------------------------------------------------------------------------
(* The invariant.                                                          *)

\* The server starts without descriptors.
LEMMA InitAlloc ==
    ASSUME Init
    PROVE  AllocInv
<1>1. DOMAIN descriptors = {} /\ process.answer = {} /\ process.old = <<>>
  BY Zenon DEF Init, Asleep, Nothing
<1>2. Typed({0})
  <2>1. IsFiniteSet({})
    BY Zenon, FS_EmptySet
  <2>2. <<>> \in Seq(DOMAIN descriptors) /\ <<>> \in Seq(Entry({0}))
    OBVIOUS
  <2>3. process \in [pc : {"tick", "next", "refresh", "schedule"},
                     names : Seq(DOMAIN descriptors), old : Seq(Entry({0})), remaining : {0},
                     answer : SUBSET (Ids \cup {"Queued", "Running", "None", "Err"})]
    BY Zenon, <2>2 DEF Init, Asleep, Nothing
  <2>. QED  BY Zenon, <1>1, <2>1, <2>3 DEF Init, Typed
<1>3. Suspended /\ Unique
  BY <1>1 DEF Init, Asleep, Suspended, Unique, Distinct
<1>4. NoStrangers
  BY Zenon DEF Init, NoStrangers
<1>5. Forgotten = {} /\ Pending = 0 /\ fails.status = 0
  BY Zenon, <1>1 DEF Forgotten, Pending, Init
<1>6. Within
  BY <1>5, FS_EmptySet DEF Within
<1>. QED  BY Zenon, <1>2, <1>3, <1>4, <1>6 DEF AllocInv

\* Every step of the process, the manager and the user keeps the invariant.
LEMMA NextAlloc ==
    ASSUME AllocInv, [Next]_vars
    PROVE  AllocInv'
<1>1. PICK V : Typed(V) /\ Typed(V)' /\ to_schedule(Current) \in V
  BY Zenon, NextTyped
<1>2. PICK n : n = to_schedule(Current)
  BY Zenon
<1>3. Typed(V) /\ Typed(V)' /\ n \in V
  BY Zenon, <1>1, <1>2
<1>. SUFFICES Rest'
  BY Zenon, <1>3 DEF AllocInv, Rest
<1>4. Rest
  BY Zenon DEF AllocInv, Rest
<1>5. CASE Process
  BY Zenon, <1>2, <1>3, <1>4, <1>5, MoveRest, TakeRest, RefreshRest, AnswerRest DEF Process
<1>6. CASE Manager
  BY Zenon, <1>3, <1>4, <1>6, StatusRest, QueuesRest DEF Manager
<1>7. ASSUME NEW name \in Queues,
             \/ add_descriptor(name)
             \/ \E id \in DOMAIN manager[name] : ManagerStarts(name, id) \/ ManagerEnds(name, id)
      PROVE  Rest'
  BY Zenon, <1>3, <1>4, <1>7, AddRest, ManagerRest
<1>8. CASE UNCHANGED vars
  <2>1. UNCHANGED <<descriptors, process, manager, fails>> /\ Current' = Current
    BY Zenon, <1>8 DEF vars, Current
  <2>2. Suspended' /\ Unique' /\ NoStrangers'
    BY Zenon, <1>4, <2>1 DEF Rest, Suspended, Unique, NoStrangers
  <2>3. \A q, id : Known(q, id)' <=> Known(q, id)
    BY <2>1 DEF Known, Has, to_schedule
  <2>4. Forgotten' = Forgotten /\ Pending' = Pending
    <3>1. DOMAIN descriptors' = DOMAIN descriptors /\ manager' = manager
      BY Zenon, <2>1
    <3>2. Forgotten' = Forgotten
      BY Zenon, <3>1, <2>3 DEF Forgotten
    <3>. QED  BY Zenon, <2>1, <3>2 DEF Pending
  <2>. QED  BY Zenon, <1>4, <2>1, <2>2, <2>4 DEF Rest, Within
<1>. QED  BY Zenon, <1>5, <1>6, <1>7, <1>8 DEF Next

\* autoalloc_process always knows of every allocation the manager holds, in a
\* descriptor, in the variable of refresh_allocations or in an answer, but for
\* one per failed status call, and lists none twice.
THEOREM AllocInvariant == Spec => []AllocInv
<1>1. Init => AllocInv
  BY Zenon, InitAlloc
<1>2. AllocInv /\ [Next]_vars => AllocInv'
  BY Zenon, NextAlloc
<1>. QED  BY <1>1, <1>2, PTL DEF Spec

\* While autoalloc_process sleeps, the descriptors list every allocation the manager
\* holds once, except one for each status call that failed.
THEOREM TracksAlways == Spec => []TracksAllocations
<1>1. ASSUME AllocInv
      PROVE  TracksAllocations
  <2>. SUFFICES ASSUME process.pc = "tick"
                PROVE  /\ Cardinality(Unlisted) <= fails.status
                       /\ \A name \in DOMAIN descriptors : \A id \in DOMAIN manager[name] :
                              Cardinality(Listed(name, id)) <= 1
    BY Zenon DEF TracksAllocations
  <2>1. PICK W : Typed(W)
    BY Zenon, <1>1 DEF AllocInv
  <2>2. Unlisted \subseteq Forgotten
    <3>1. ASSUME NEW q, NEW id, Known(q, id)
          PROVE  Listed(q, id) # {}
      BY Zenon, <3>1 DEF Known, Has, Listed
    <3>. QED  BY Zenon, <3>1 DEF Unlisted, Forgotten
  <2>3. /\ IsFiniteSet(Forgotten) /\ Cardinality(Forgotten) <= fails.status
        /\ fails.status \in Nat /\ Cardinality(Forgotten) \in Nat
    BY <1>1, <2>1, FS_CardinalityType DEF AllocInv, Within, Pending, Typed
  <2>4. Cardinality(Unlisted) <= Cardinality(Forgotten) /\ Cardinality(Unlisted) \in Nat
    BY Zenon, <2>2, <2>3, FS_Subset, FS_CardinalityType
  <2>5. ASSUME NEW name \in DOMAIN descriptors, NEW id
        PROVE  Cardinality(Listed(name, id)) <= 1
    <3>1. \A i, j \in Listed(name, id) : i = j
      BY <1>1 DEF AllocInv, Unique, Distinct, Listed
    <3>2. Listed(name, id) = {} \/ \E i : Listed(name, id) = {i}
      BY Zenon, <3>1
    <3>3. Cardinality({}) = 0
      BY Zenon, FS_EmptySet
    <3>4. \A i : Cardinality({i}) = 1
      BY Zenon, FS_Singleton
    <3>. QED  BY SMTT(30), <3>2, <3>3, <3>4
  <2>. QED  BY <2>3, <2>4, <2>5
<1>. QED  BY <1>1, AllocInvariant, PTL
============================================================================
