---------------------------- MODULE AutoAlloc -----------------------------
(***************************************************************************)
(* Automatic allocation (server/autoalloc): a background process that, in  *)
(* each tick and for each queue, asks the queue manager (PBS, Slurm) for   *)
(* the status of the allocations it knows and submits new ones until the   *)
(* target number of workers is reached.                                    *)
(*                                                                         *)
(* `process' is the state of that one process.  It waits only for answers  *)
(* of the manager, which goes on in the meantime: an answer may be out of  *)
(* date when it is processed.                                              *)
(***************************************************************************)
EXTENDS Integers, Sequences, FiniteSets, SequencesExt

CONSTANTS Queues,                  \* names of descriptors
          Ids,                     \* allocation ids of the manager
          target_scale,            \* QueueDescriptor::target_scale, per queue
          max_workers_per_alloc,   \* QueueDescriptor::max_workers_per_alloc
          MAX_EVENT_QUEUE_LENGTH,
          MaxStatusFails,          \* bound: status calls that fail
          MaxQueueFails,           \* bound: submissions that fail
          MaxEnds                  \* bound: allocations that end

\* A descriptor that allows no worker in an allocation would make
\* schedule_new_allocations submit for ever.
ASSUME QueuesAssumption ==
    /\ target_scale \in [Queues -> Nat]
    /\ max_workers_per_alloc \in [Queues -> Nat \ {0}]
    /\ MAX_EVENT_QUEUE_LENGTH \in Nat
    /\ MaxStatusFails \in Nat /\ MaxQueueFails \in Nat /\ MaxEnds \in Nat

\* An id is none of the other answers of the manager.
ASSUME IdsAssumption == Ids \cap {"Queued", "Running", "None", "Err"} = {}

VARIABLES descriptors,   \* AutoAllocState::descriptors
          process,       \* autoalloc_process, suspended where `pc' says
          manager,       \* the allocations each queue of the manager holds
          fails,         \* status calls and submissions that failed so far
          ends           \* allocations that ended so far

vars == <<descriptors, process, manager, fails, ends>>

Nothing == {}

Asleep == [pc |-> "tick", names |-> <<>>, old |-> <<>>, remaining |-> 0,
           answer |-> Nothing]

Init ==
    /\ descriptors = [q \in {} |-> 0]
    /\ process = Asleep
    /\ manager = [q \in Queues |-> [id \in {} |-> 0]]
    /\ fails = [status |-> 0, queue |-> 0]
    /\ ends = 0
----------------------------------------------------------------------------
(* State.                                                                  *)

\* A second descriptor of the same name is refused.
add_descriptor(name) ==
    /\ name \notin DOMAIN descriptors
    /\ descriptors' = [q \in DOMAIN descriptors \cup {name} |->
           IF q = name THEN [allocations |-> <<>>, events |-> <<>>] ELSE descriptors[q]]
    /\ UNCHANGED <<process, manager, fails, ends>>

\* Mutant: the oldest event is never dropped.
add_event_always(d, event) == [d EXCEPT !.events = Append(@, event)]

add_event(d, event) ==
    LET events == Append(d.events, event)
    IN  [d EXCEPT !.events = IF Len(events) > MAX_EVENT_QUEUE_LENGTH
                             THEN Tail(events) ELSE events]

WorkerCount(allocations) ==
    FoldSeq(LAMBDA alloc, sum : sum + alloc.worker_count, 0, allocations)
----------------------------------------------------------------------------
(* The process.                                                            *)

\* A tick: the names are copied, in the order of the map.
autoalloc_tick ==
    /\ process.pc = "tick"
    /\ \E names \in SetToSeqs(DOMAIN descriptors) :
           process' = [process EXCEPT !.pc = "next", !.names = names]
    /\ UNCHANGED <<descriptors, manager, fails, ends>>

\* process_descriptor, and the start of refresh_allocations: the allocations
\* are taken out of the descriptor.
process_descriptor ==
    /\ process.pc = "next"
    /\ process.names # <<>>
    /\ LET name == Head(process.names)
       IN  /\ process' = [process EXCEPT !.pc = "refresh",
                                         !.old = descriptors[name].allocations]
           /\ descriptors' = [descriptors EXCEPT ![name].allocations = <<>>]
    /\ UNCHANGED <<manager, fails, ends>>

tick_ends ==
    /\ process.pc = "next"
    /\ process.names = <<>>
    /\ process' = Asleep
    /\ UNCHANGED <<descriptors, manager, fails, ends>>

\* Mutants: a finished allocation is kept; one that has started is forgotten.
refresh_keeps_finished(d, alloc, answer) ==
    CASE answer = "None" ->
            [add_event(d, "Finished") EXCEPT !.allocations = Append(@, alloc)]
      [] answer = "Err" -> add_event(d, "StatusFail")
      [] OTHER -> [d EXCEPT !.allocations = Append(@, [alloc EXCEPT !.status = answer])]

refresh_forgets_running(d, alloc, answer) ==
    CASE answer = "Queued" -> [d EXCEPT !.allocations = Append(@, alloc)]
      [] OTHER -> add_event(d, "Finished")

\* The body of refresh_allocations after the await: an allocation with a
\* status is put back, any other is dropped.
refreshed(d, alloc, answer) ==
    CASE answer = "None" -> add_event(d, "Finished")
      [] answer = "Err"  -> add_event(d, "StatusFail")
      [] OTHER -> [d EXCEPT !.allocations = Append(@, [alloc EXCEPT !.status = answer])]

refresh_allocations ==
    /\ process.pc = "refresh"
    /\ process.old # <<>>
    /\ \E answer \in process.answer :
           /\ descriptors' = [descriptors EXCEPT ![Head(process.names)] =
                                  refreshed(@, Head(process.old), answer)]
           /\ process' = [process EXCEPT !.old = Tail(@), !.answer = Nothing]
    /\ UNCHANGED <<manager, fails, ends>>

\* The start of schedule_new_allocations: saturating_sub of what is active.
schedule_new_allocations ==
    /\ process.pc = "refresh"
    /\ process.old = <<>>
    /\ LET name == Head(process.names)
           active == WorkerCount(descriptors[name].allocations)
           missing == target_scale[name] - active
       IN  process' = [process EXCEPT !.pc = "schedule",
                                      !.remaining = IF missing > 0 THEN missing ELSE 0]
    /\ UNCHANGED <<descriptors, manager, fails, ends>>

\* Mutant: an allocation is always as large as allowed.
whole_allocation(name) == max_workers_per_alloc[name]

to_schedule(name) ==
    IF process.remaining < max_workers_per_alloc[name]
    THEN process.remaining ELSE max_workers_per_alloc[name]

\* The loop of schedule_new_allocations after the await.
queued(d, n, answer) ==
    IF answer = "Err" THEN add_event(d, "QueueFail")
    ELSE [add_event(d, "QueueSuccess") EXCEPT !.allocations =
              Append(@, [id |-> answer, worker_count |-> n, status |-> "Queued"])]

schedule_answered ==
    /\ process.pc = "schedule"
    /\ process.remaining > 0
    /\ \E answer \in process.answer :
           LET name == Head(process.names)
               n == to_schedule(name)
           IN  /\ descriptors' = [descriptors EXCEPT ![name] = queued(@, n, answer)]
               /\ process' = [process EXCEPT !.remaining = @ - n, !.answer = Nothing]
    /\ UNCHANGED <<manager, fails, ends>>

schedule_ends ==
    /\ process.pc = "schedule"
    /\ process.remaining = 0
    /\ process' = [process EXCEPT !.pc = "next", !.names = Tail(@)]
    /\ UNCHANGED <<descriptors, manager, fails, ends>>
----------------------------------------------------------------------------
(* The queue manager: what the implementations of QueueDescriptor answer.  *)

ManagerStatus ==
    /\ process.pc = "refresh"
    /\ process.old # <<>>
    /\ process.answer = Nothing
    /\ LET held == manager[Head(process.names)]
           id == Head(process.old).id
       IN  process' = [process EXCEPT !.answer =
                           {IF id \in DOMAIN held THEN held[id].status ELSE "None"}]
    /\ UNCHANGED <<descriptors, manager, fails, ends>>

ManagerStatusFails ==
    /\ process.pc = "refresh"
    /\ process.old # <<>>
    /\ process.answer = Nothing
    /\ fails.status < MaxStatusFails
    /\ fails' = [fails EXCEPT !.status = @ + 1]
    /\ process' = [process EXCEPT !.answer = {"Err"}]
    /\ UNCHANGED <<descriptors, manager, ends>>

\* A new allocation has an id that nobody uses any more.
ManagerQueues ==
    /\ process.pc = "schedule"
    /\ process.remaining > 0
    /\ process.answer = Nothing
    /\ LET name == Head(process.names)
           known == {alloc.id : alloc \in ToSet(descriptors[name].allocations)}
           free == Ids \ (known \cup DOMAIN manager[name])
           id == CHOOSE id \in free : TRUE
       IN  /\ free # {}
           /\ manager' = [manager EXCEPT ![name] = [i \in DOMAIN @ \cup {id} |->
                  IF i = id THEN [worker_count |-> to_schedule(name), status |-> "Queued"]
                            ELSE @[i]]]
           /\ process' = [process EXCEPT !.answer = {id}]
    /\ UNCHANGED <<descriptors, fails, ends>>

ManagerQueueFails ==
    /\ process.pc = "schedule"
    /\ process.remaining > 0
    /\ process.answer = Nothing
    /\ fails.queue < MaxQueueFails
    /\ fails' = [fails EXCEPT !.queue = @ + 1]
    /\ process' = [process EXCEPT !.answer = {"Err"}]
    /\ UNCHANGED <<descriptors, manager, ends>>

ManagerStarts(name, id) ==
    /\ manager[name][id].status = "Queued"
    /\ manager' = [manager EXCEPT ![name][id].status = "Running"]
    /\ UNCHANGED <<descriptors, process, fails, ends>>

\* An allocation ends, or is removed from the queue.
ManagerEnds(name, id) ==
    /\ ends < MaxEnds
    /\ ends' = ends + 1
    /\ manager' = [manager EXCEPT ![name] = [i \in DOMAIN @ \ {id} |-> @[i]]]
    /\ UNCHANGED <<descriptors, process, fails>>
----------------------------------------------------------------------------
Process ==
    \/ autoalloc_tick
    \/ process_descriptor
    \/ tick_ends
    \/ refresh_allocations
    \/ schedule_new_allocations
    \/ schedule_answered
    \/ schedule_ends

Manager ==
    \/ ManagerStatus
    \/ ManagerStatusFails
    \/ ManagerQueues
    \/ ManagerQueueFails

Next ==
    \/ Process
    \/ Manager
    \/ \E name \in Queues :
           \/ add_descriptor(name)
           \/ \E id \in DOMAIN manager[name] : ManagerStarts(name, id) \/ ManagerEnds(name, id)

Spec == Init /\ [][Next]_vars

\* The runtime polls the process, whose timer ticks for ever, and the manager
\* answers every call.
FairSpec == Spec /\ WF_vars(Process) /\ WF_vars(Manager)
----------------------------------------------------------------------------
Allocation == [id : Ids, worker_count : Nat \ {0}, status : {"Queued", "Running"}]

AllocationEvent == {"QueueSuccess", "QueueFail", "StatusFail", "Finished"}

\* Every variable has its type, allocations are never empty, and the record of
\* events is as long as MAX_EVENT_QUEUE_LENGTH allows.
TypeOK ==
    /\ DOMAIN descriptors \subseteq Queues
    /\ \A q \in DOMAIN descriptors :
           /\ descriptors[q].allocations \in Seq(Allocation)
           /\ descriptors[q].events \in Seq(AllocationEvent)
           /\ Len(descriptors[q].events) <= MAX_EVENT_QUEUE_LENGTH
    /\ process.pc \in {"tick", "next", "refresh", "schedule"}
    /\ process.names \in Seq(Queues)
    /\ process.old \in Seq(Allocation)
    /\ process.remaining \in Nat
    /\ process.answer \subseteq Ids \cup {"Queued", "Running", "None", "Err"}
    /\ \A q \in Queues : DOMAIN manager[q] \subseteq Ids
    /\ fails \in [status : 0 .. MaxStatusFails, queue : 0 .. MaxQueueFails]
    /\ ends \in 0 .. MaxEnds

\* The workers of the allocations the manager of a queue holds.
ActiveWorkers(name) ==
    WorkerCount([i \in 1 .. Cardinality(DOMAIN manager[name]) |->
                     manager[name][SetToSeq(DOMAIN manager[name])[i]]])

\* The process never asks a queue for more workers than target_scale, however
\* its submissions fail and allocations start and end while it waits; a status
\* call that fails costs the workers of one allocation at most.
NoOverallocation ==
    \A name \in Queues :
        ActiveWorkers(name) <= target_scale[name] + fails.status * max_workers_per_alloc[name]

\* The places at which a descriptor lists an allocation of the manager, with the
\* number of workers it was submitted with.
Listed(name, id) ==
    {i \in DOMAIN descriptors[name].allocations :
        LET alloc == descriptors[name].allocations[i]
        IN  alloc.id = id /\ alloc.worker_count = manager[name][id].worker_count}

Unlisted == {p \in (DOMAIN descriptors) \X Ids :
                 p[2] \in DOMAIN manager[p[1]] /\ Listed(p[1], p[2]) = {}}

\* While the process sleeps, a descriptor lists every allocation the manager
\* holds once, except one for each status call that failed.
TracksAllocations ==
    process.pc = "tick" =>
        /\ Cardinality(Unlisted) <= fails.status
        /\ \A name \in DOMAIN descriptors : \A id \in DOMAIN manager[name] :
               Cardinality(Listed(name, id)) <= 1

\* "Allocations that are currently running or are in the queue" (AutoAllocState):
\* while the process sleeps, every allocation the manager holds is listed.
ListsAllAllocations == process.pc = "tick" => Unlisted = {}

\* When calls have ceased to fail and allocations to end, every queue comes to
\* hold the target number of workers and keeps them.
ReachesScale ==
    \A name \in Queues :
        (name \in DOMAIN descriptors) ~> [](ActiveWorkers(name) >= target_scale[name])
============================================================================
