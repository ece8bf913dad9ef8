----------------------------- MODULE QueueProofs -----------------------------
(***************************************************************************)
(* What the handlers send to tako, and the kinds of steps.                 *)
(*                                                                         *)
(* Cancels: a response says that tako has released all tasks of the job,   *)
(* and a request names all those that tako holds (CancelInv).  This is     *)
(* shown for the kinds of steps in StepKind; the last part shows that      *)
(* every step of the server is of one of these kinds.                      *)
(***************************************************************************)
EXTENDS ServerInv, FiniteSetTheorems, TLAPS

\* Most of the leaves are first-order: Zenon, unless a leaf cites SMT.
USE Zenon
----------------------------------------------------------------------------
(* Counting the responses of a queue, and the handlers.                    *)

\* A set of naturals that is not empty has a least element.
LEMMA FirstOfNaturals ==
    ASSUME NEW T, T \subseteq Nat, T # {}
    PROVE  \E x \in T : \A y \in T : x <= y
<1>. DEFINE R == {ss \in Nat \X Nat : ss[1] < ss[2]}
<1>1. IsWellFoundedOn(R, Nat)
  BY NatLessThanWellFounded DEF OpToRel
<1>2. \A x, y \in Nat : x < y => <<x, y>> \in R
  OBVIOUS
<1>. HIDE DEF R
<1>3. PICK x \in T : \A y \in T : ~ (<<y, x>> \in R)
  BY <1>1, WFMin
<1>4. \A y \in T : ~ (y < x)
  BY <1>2, <1>3
<1>. QED  BY SMT, <1>4

\* The count is a natural number, and goes up by one with every response.
LEMMA RespStep ==
    ASSUME NEW q, NEW k \in Nat
    PROVE  /\ RespCount(q, k) \in Nat
           /\ RespCount(q, 0) = 0
           /\ q[k + 1].type \in Responses => RespCount(q, k + 1) = RespCount(q, k) + 1
           /\ q[k + 1].type \notin Responses => RespCount(q, k + 1) = RespCount(q, k)
<1>. DEFINE R(n) == {i \in 1 .. n : q[i].type \in Responses}
<1>1. IsFiniteSet(R(k))
  <2>1. IsFiniteSet(1 .. k)
    BY SMT, FS_Interval
  <2>. QED  BY <2>1, FS_Subset
<1>2. Cardinality(R(k)) \in Nat
  BY <1>1, FS_CardinalityType
<1>3. Cardinality(R(0)) = 0
  <2>1. R(0) = {}
    BY SMT
  <2>. QED  BY <2>1, FS_EmptySet
<1>4. q[k + 1].type \in Responses => Cardinality(R(k + 1)) = Cardinality(R(k)) + 1
  <2>1. HAVE q[k + 1].type \in Responses
  <2>2. R(k + 1) = R(k) \cup {k + 1} /\ k + 1 \notin R(k)
    BY SMT, <2>1
  <2>. HIDE DEF R
  <2>. QED  BY <1>1, <2>2, FS_AddElement
<1>5. q[k + 1].type \notin Responses => R(k + 1) = R(k)
  BY SMT
<1>. QED  BY <1>2, <1>3, <1>4, <1>5 DEF RespCount

\* The count never falls.
LEMMA RespMono ==
    ASSUME NEW q, NEW k \in Nat, NEW l \in Nat, k <= l
    PROVE  RespCount(q, k) <= RespCount(q, l)
<1>. DEFINE R(n) == {i \in 1 .. n : q[i].type \in Responses}
<1>1. IsFiniteSet(R(l))
  <2>1. IsFiniteSet(1 .. l)
    BY SMT, FS_Interval
  <2>. QED  BY <2>1, FS_Subset
<1>2. R(k) \subseteq R(l)
  BY SMT
<1>3. Cardinality(R(k)) <= Cardinality(R(l))
  BY <1>1, <1>2, FS_Subset
<1>. QED  BY <1>3 DEF RespCount

\* The place of a response among the responses of the queue.
LEMMA RespPlace ==
    ASSUME NEW q, NEW n \in Nat, NEW k \in 1 .. n, q[k].type \in Responses
    PROVE  RespCount(q, k) \in 1 .. RespCount(q, n)
<1>1. k - 1 \in Nat /\ k \in Nat /\ (k - 1) + 1 = k /\ k <= n
  BY SMT
<1>2. RespCount(q, k) = RespCount(q, k - 1) + 1 /\ RespCount(q, k - 1) \in Nat
  BY <1>1, RespStep
<1>3. RespCount(q, k) <= RespCount(q, n) /\ RespCount(q, n) \in Nat
  BY <1>1, RespMono, RespStep
<1>. QED  BY SMT, <1>2, <1>3

\* A message added at the end changes no count before it.
LEMMA RespAppend ==
    ASSUME NEW S, NEW q \in Seq(S), NEW m \in S
    PROVE  /\ \A k \in 0 .. Len(q) : RespCount(Append(q, m), k) = RespCount(q, k)
           /\ m.type \in Responses => InFlight(Append(q, m)) = InFlight(q) + 1
           /\ m.type \notin Responses => InFlight(Append(q, m)) = InFlight(q)
<1>1. /\ Len(Append(q, m)) = Len(q) + 1 /\ Len(q) \in Nat
      /\ \A i \in 1 .. Len(q) : Append(q, m)[i] = q[i]
      /\ Append(q, m)[Len(q) + 1] = m
  BY SMT
<1>2. \A k \in 0 .. Len(q) : RespCount(Append(q, m), k) = RespCount(q, k)
  <2>1. ASSUME NEW k \in 0 .. Len(q)
        PROVE  {i \in 1 .. k : Append(q, m)[i].type \in Responses} = {i \in 1 .. k : q[i].type \in Responses}
    BY SMT, <1>1
  <2>. QED  BY <2>1 DEF RespCount
<1>. DEFINE a == Append(q, m)
            n == Len(q)
<1>3. /\ a[n + 1] = m /\ n \in Nat /\ Len(a) = n + 1
      /\ RespCount(a, n) = RespCount(q, n)
  BY SMT, <1>1, <1>2
<1>. HIDE DEF a, n
<1>4. /\ a[n + 1].type \in Responses => RespCount(a, n + 1) = RespCount(a, n) + 1
      /\ a[n + 1].type \notin Responses => RespCount(a, n + 1) = RespCount(a, n)
  BY <1>3, RespStep
<1>5. /\ m.type \in Responses => InFlight(a) = RespCount(q, n) + 1
      /\ m.type \notin Responses => InFlight(a) = RespCount(q, n)
  BY <1>3, <1>4 DEF InFlight
<1>. QED  BY <1>2, <1>5 DEF InFlight, a, n

\* What is left when the first message is taken.
LEMMA RespTail ==
    ASSUME NEW S, NEW q \in Seq(S), q # <<>>, NEW d \in {0, 1},
           d = 1 <=> Head(q).type \in Responses
    PROVE  /\ \A k \in 0 .. Len(q) - 1 : RespCount(q, k + 1) = RespCount(Tail(q), k) + d
           /\ InFlight(q) = InFlight(Tail(q)) + d
<1>. DEFINE t == Tail(q)
            Bad == {k \in 0 .. Len(q) - 1 : RespCount(q, k + 1) # RespCount(t, k) + d}
<1>1. /\ Len(q) \in Nat \ {0} /\ Len(t) = Len(q) - 1 /\ Head(q) = q[1]
      /\ \A i \in 1 .. Len(q) - 1 : t[i] = q[i + 1]
  BY SMT
<1>2. RespCount(q, 0 + 1) = d /\ RespCount(t, 0) = 0
  <2>1. q[0 + 1] = Head(q) /\ 0 \in Nat
    BY SMT, <1>1
  <2>2. RespCount(q, 0) = 0 /\ RespCount(t, 0) = 0
    BY RespStep
  <2>. HIDE DEF t
  <2>3. d = 1 => RespCount(q, 0 + 1) = RespCount(q, 0) + 1
    BY <2>1, RespStep
  <2>4. d = 0 => RespCount(q, 0 + 1) = RespCount(q, 0)
    BY SMT, <2>1, RespStep
  <2>. QED  BY SMT, <2>2, <2>3, <2>4
<1>3. Bad = {}
  <2>1. SUFFICES ASSUME Bad # {} PROVE FALSE
    OBVIOUS
  <2>2. PICK k \in Bad : \A l \in Bad : k <= l
    <3>1. Bad \subseteq Nat
      BY SMT
    <3>. HIDE DEF Bad
    <3>. QED  BY <2>1, <3>1, FirstOfNaturals
  <2>3. k # 0
    BY SMT, <1>2
  <2>4. k - 1 \in 0 .. Len(q) - 1 /\ k \in 1 .. Len(q) - 1 /\ k - 1 \notin Bad
    BY SMT, <2>2, <2>3
  <2>5. RespCount(q, k) = RespCount(t, k - 1) + d
    BY SMT, <2>4
  <2>6. t[k] = q[k + 1] /\ (k - 1) + 1 = k /\ k \in Nat /\ k - 1 \in Nat
    BY SMT, <1>1, <2>4
  <2>. HIDE DEF t
  <2>7. /\ t[k].type \in Responses => RespCount(t, k) = RespCount(t, k - 1) + 1
        /\ t[k].type \notin Responses => RespCount(t, k) = RespCount(t, k - 1)
        /\ RespCount(t, k - 1) \in Nat
    BY SMT, <2>6, RespStep
  <2>8. /\ q[k + 1].type \in Responses => RespCount(q, k + 1) = RespCount(q, k) + 1
        /\ q[k + 1].type \notin Responses => RespCount(q, k + 1) = RespCount(q, k)
    BY <2>6, RespStep
  <2>9. RespCount(q, k + 1) = RespCount(t, k) + d
    BY SMT, <2>5, <2>6, <2>7, <2>8
  <2>. QED  BY <2>2, <2>9
<1>4. \A k \in 0 .. Len(q) - 1 : RespCount(q, k + 1) = RespCount(t, k) + d
  BY <1>3
<1>5. Len(q) - 1 \in 0 .. Len(q) - 1 /\ (Len(q) - 1) + 1 = Len(q)
  BY SMT, <1>1
<1>. QED  BY <1>1, <1>4, <1>5 DEF InFlight

\* Every response and every request has a place in the queue of handlers.
LEMMA QueuePlaces ==
    ASSUME NEW from, NEW to, NEW waiting, QueueTypes(from, to, waiting),
           Len(waiting) = InFlight(from) + Len(to)
    PROVE  /\ InFlight(from) \in Nat /\ Len(from) \in Nat /\ Len(to) \in Nat /\ Len(waiting) \in Nat
           /\ \A k \in 1 .. Len(from) : from[k].type \in Responses =>
                  /\ RespCount(from, k) \in 1 .. InFlight(from)
                  /\ RespCount(from, k) \in 1 .. Len(waiting)
                  /\ waiting[RespCount(from, k)] \in Waiting
           /\ \A i \in 1 .. Len(to) : /\ InFlight(from) + i \in 1 .. Len(waiting)
                                      /\ waiting[InFlight(from) + i] \in Waiting
           /\ \A i \in 1 .. Len(waiting) : waiting[i] \in Waiting
<1>1. /\ Len(from) \in Nat /\ Len(to) \in Nat /\ Len(waiting) \in Nat
      /\ \A i \in 1 .. Len(waiting) : waiting[i] \in Waiting
  BY SMT DEF QueueTypes
<1>2. InFlight(from) \in Nat
  BY <1>1, RespStep DEF InFlight
<1>3. \A k \in 1 .. Len(from) : from[k].type \in Responses => RespCount(from, k) \in 1 .. InFlight(from)
  BY <1>1, RespPlace DEF InFlight
<1>4. 1 .. InFlight(from) \subseteq 1 .. Len(waiting)
  BY SMT, <1>1, <1>2
<1>5. \A i \in 1 .. Len(to) : InFlight(from) + i \in 1 .. Len(waiting)
  BY SMT, <1>1, <1>2
<1>. QED  BY <1>1, <1>2, <1>3, <1>4, <1>5

\* The handlers of clients and the spawned cancels.
LEMMA HandlerTypes ==
    ASSUME NEW cl, NEW cb
    PROVE  /\ \A c \in Clients : /\ ClientWaits(c) \in Waiting
                                 /\ HandlersOf(cl, cb)[ClientWaits(c)] = ClientHandler(cl[c])
           /\ \A t \in Nat : /\ CallbackWaits(t) \in Waiting
                             /\ HandlersOf(cl, cb)[CallbackWaits(t)] =
                                    IF t \in DOMAIN cb THEN CallbackHandler(cb[t]) ELSE NoHandler
           /\ \A who \in Waiting : \/ \E c \in Clients : who = ClientWaits(c)
                                   \/ \E t \in Nat : who = CallbackWaits(t)
           /\ \A c, d \in Clients : ClientWaits(c) = ClientWaits(d) => c = d
           /\ \A t, u \in Nat : CallbackWaits(t) = CallbackWaits(u) => t = u
           /\ \A c \in Clients, t \in Nat : ClientWaits(c) # CallbackWaits(t)
<1>1. ASSUME NEW c \in Clients
      PROVE  /\ ClientWaits(c) \in Waiting
             /\ ClientWaits(c).kind = "client" /\ ClientWaits(c).client = c
  BY DEF ClientWaits, Waiting
<1>2. ASSUME NEW t \in Nat
      PROVE  /\ CallbackWaits(t) \in Waiting
             /\ CallbackWaits(t).kind = "callback" /\ CallbackWaits(t).task = t
  BY DEF CallbackWaits, Waiting
<1>3. ASSUME NEW c \in Clients
      PROVE  HandlersOf(cl, cb)[ClientWaits(c)] = ClientHandler(cl[c])
  BY <1>1 DEF HandlersOf, Status, ClientHandler
<1>4. ASSUME NEW t \in Nat
      PROVE  HandlersOf(cl, cb)[CallbackWaits(t)] =
                 IF t \in DOMAIN cb THEN CallbackHandler(cb[t]) ELSE NoHandler
  BY <1>2 DEF HandlersOf, Status, CallbackHandler, NoHandler
<1>5. ASSUME NEW who \in Waiting
      PROVE  \/ \E c \in Clients : who = ClientWaits(c)
             \/ \E t \in Nat : who = CallbackWaits(t)
  BY DEF Waiting, ClientWaits, CallbackWaits
<1>. QED  BY SMT, <1>1, <1>2, <1>3, <1>4, <1>5

\* The types of the queues.
LEMMA LifeTypes ==
    ASSUME BasicInv
    PROVE  /\ QueueTypes(from_tako, to_tako, tako_responses)
           /\ control \in Seq(Control)
           /\ client \in [Clients -> ClientState]
           /\ DOMAIN callbacks \subseteq Nat
           /\ callbacks \in [DOMAIN callbacks -> CallbackState]
  BY DEF BasicInv, TypeOK, RpcTypeOK, QueueTypes, StreamTypeOK, HandlersTypeOK
----------------------------------------------------------------------------
(* Cancels.                                                                *)

\* Handlers go on that do not wait, and what tako holds is not about cancels.
LEMMA CancelsFrame ==
    ASSUME NEW from, NEW to, NEW waiting, QueueTypes(from, to, waiting),
           Len(waiting) = InFlight(from) + Len(to),
           NEW held, NEW J, NEW done, CancelsOK(from, to, waiting, held, J, done),
           NEW held2, NEW J2, NEW done2, Released(done2, from, 0, held2),
           \A i \in 1 .. Len(waiting), c \in Clients :
               waiting[i] = ClientWaits(c) => /\ J2[c] = J[c]
                                              /\ \A t \in J[c] : t \in held2 => t \in held
    PROVE  CancelsOK(from, to, waiting, held2, J2, done2)
<1>1. ASSUME NEW k \in 1 .. Len(from), NEW c \in Clients, from[k].type = "CancelTasksResponse",
             waiting[RespCount(from, k)] = ClientWaits(c)
      PROVE  Released(J2[c], from, k, held2)
  <2>1. from[k].type \in Responses
    BY SMT, <1>1 DEF Responses
  <2>2. RespCount(from, k) \in 1 .. Len(waiting)
    BY <2>1, QueuePlaces
  <2>3. Released(J[c], from, k, held)
    BY <1>1 DEF CancelsOK
  <2>. QED  BY <1>1, <2>2, <2>3 DEF Released
<1>2. ASSUME NEW i \in 1 .. Len(to), NEW c \in Clients, to[i].type = "CancelTasks",
             waiting[InFlight(from) + i] = ClientWaits(c), NEW t \in J2[c]
      PROVE  /\ t \in held2 => t \in to[i].tasks
             /\ \A l \in i + 1 .. Len(to) : to[l].type = "NewTasks" => t \notin to[l].tasks
  <2>1. InFlight(from) + i \in 1 .. Len(waiting)
    BY QueuePlaces
  <2>2. J2[c] = J[c] /\ (t \in held2 => t \in held)
    BY <1>2, <2>1
  <2>. QED  BY <1>2, <2>2 DEF CancelsOK
<1>. QED  BY <1>1, <1>2 DEF CancelsOK

\* send_tako_message: a cancel names what tako holds, a submit adds tasks that
\* no cancel is about.
LEMMA CancelsSend ==
    ASSUME NEW from, NEW to, NEW waiting, QueueTypes(from, to, waiting),
           Len(waiting) = InFlight(from) + Len(to),
           NEW held, NEW J, NEW done, CancelsOK(from, to, waiting, held, J, done),
           NEW msg \in ToTako, NEW who \in Waiting,
           \A c \in Clients : msg.type = "CancelTasks" /\ who = ClientWaits(c) =>
               \A t \in J[c] : t \in held => t \in msg.tasks,
           \A c \in Clients : msg.type = "NewTasks" => \A t \in J[c] : t \notin msg.tasks
    PROVE  CancelsOK(from, Append(to, msg), Append(waiting, who), held, J, done)
<1>. DEFINE to2 == Append(to, msg)
            wait2 == Append(waiting, who)
<1>1. /\ Len(to2) = Len(to) + 1 /\ to2[Len(to) + 1] = msg /\ Len(to) \in Nat
      /\ \A i \in 1 .. Len(to) : to2[i] = to[i]
      /\ wait2[Len(waiting) + 1] = who /\ Len(waiting) \in Nat
      /\ \A i \in 1 .. Len(waiting) : wait2[i] = waiting[i]
  <2>1. to \in Seq(ToTako) /\ waiting \in Seq(Waiting)
    BY DEF QueueTypes
  <2>2. /\ Len(to2) = Len(to) + 1 /\ to2[Len(to) + 1] = msg /\ Len(to) \in Nat
        /\ \A i \in 1 .. Len(to) : to2[i] = to[i]
    BY SMT, <2>1
  <2>3. /\ wait2[Len(waiting) + 1] = who /\ Len(waiting) \in Nat
        /\ \A i \in 1 .. Len(waiting) : wait2[i] = waiting[i]
    BY SMT, <2>1
  <2>. QED  BY <2>2, <2>3
<1>. HIDE DEF to2, wait2
<1>2. ASSUME NEW k \in 1 .. Len(from), NEW c \in Clients, from[k].type = "CancelTasksResponse",
             wait2[RespCount(from, k)] = ClientWaits(c)
      PROVE  Released(J[c], from, k, held)
  <2>1. from[k].type \in Responses
    BY SMT, <1>2 DEF Responses
  <2>2. RespCount(from, k) \in 1 .. Len(waiting)
    BY <2>1, QueuePlaces
  <2>. QED  BY <1>1, <1>2, <2>2 DEF CancelsOK
<1>3. ASSUME NEW i \in 1 .. Len(to2), NEW c \in Clients, to2[i].type = "CancelTasks",
             wait2[InFlight(from) + i] = ClientWaits(c), NEW t \in J[c]
      PROVE  /\ t \in held => t \in to2[i].tasks
             /\ \A l \in i + 1 .. Len(to2) : to2[l].type = "NewTasks" => t \notin to2[l].tasks
  <2>1. CASE i \in 1 .. Len(to)
    <3>1. InFlight(from) + i \in 1 .. Len(waiting) /\ to2[i] = to[i]
      BY <1>1, <2>1, QueuePlaces
    <3>2. /\ t \in held => t \in to[i].tasks
          /\ \A l \in i + 1 .. Len(to) : to[l].type = "NewTasks" => t \notin to[l].tasks
      BY <1>1, <1>3, <2>1, <3>1 DEF CancelsOK
    <3>3. ASSUME NEW l \in i + 1 .. Len(to2), to2[l].type = "NewTasks"
          PROVE  t \notin to2[l].tasks
      <4>1. l = Len(to) + 1 \/ (l \in i + 1 .. Len(to) /\ l \in 1 .. Len(to))
        BY SMT, <1>1, <2>1
      <4>. QED  BY <1>1, <3>2, <3>3, <4>1
    <3>. QED  BY <3>1, <3>2, <3>3
  <2>2. CASE i = Len(to) + 1
    <3>1. InFlight(from) + i = Len(waiting) + 1 /\ i + 1 .. Len(to2) = {}
      BY SMT, <1>1, <2>2, QueuePlaces
    <3>2. msg.type = "CancelTasks" /\ who = ClientWaits(c) /\ to2[i] = msg
      BY <1>1, <1>3, <2>2, <3>1
    <3>. QED  BY <3>1, <3>2
  <2>. QED  BY SMT, <1>1, <2>1, <2>2
<1>. QED  BY <1>2, <1>3 DEF CancelsOK, to2, wait2

\* A report is read.
LEMMA ReleasedTail ==
    ASSUME NEW from \in Seq(FromTako), from # <<>>, NEW k \in 0 .. Len(from) - 1, NEW ids, NEW held,
           Released(ids, from, k + 1, held)
    PROVE  Released(ids, Tail(from), k, held)
<1>1. /\ Len(Tail(from)) = Len(from) - 1 /\ Len(from) \in Nat
      /\ \A i \in 1 .. Len(from) - 1 : Tail(from)[i] = from[i + 1]
  BY SMT
<1>2. ASSUME NEW t \in ids, NEW i \in k + 1 .. Len(Tail(from))
      PROVE  t \notin Ended(Tail(from)[i])
  <2>1. i \in 1 .. Len(from) - 1 /\ i + 1 \in (k + 1) + 1 .. Len(from)
    BY SMT, <1>1
  <2>. QED  BY <1>1, <2>1 DEF Released
<1>. QED  BY <1>2 DEF Released

\* A report is added: tako ends tasks that it holds.
LEMMA ReleasedAppend ==
    ASSUME NEW from \in Seq(FromTako), NEW msg \in FromTako, NEW k \in 0 .. Len(from), NEW ids,
           NEW held, NEW held2, held2 \cup Ended(msg) \subseteq held,
           Released(ids, from, k, held)
    PROVE  Released(ids, Append(from, msg), k, held2)
<1>1. /\ Len(Append(from, msg)) = Len(from) + 1 /\ Len(from) \in Nat
      /\ \A i \in 1 .. Len(from) : Append(from, msg)[i] = from[i]
      /\ Append(from, msg)[Len(from) + 1] = msg
  BY SMT
<1>2. ASSUME NEW t \in ids, NEW i \in k + 1 .. Len(Append(from, msg))
      PROVE  t \notin Ended(Append(from, msg)[i])
  <2>1. i = Len(from) + 1 \/ (i \in 1 .. Len(from) /\ i \in k + 1 .. Len(from))
    BY SMT, <1>1
  <2>2. t \notin Ended(msg)
    BY DEF Released
  <2>. QED  BY <1>1, <2>1, <2>2 DEF Released
<1>. QED  BY <1>2 DEF Released

\* The reader takes a message that is not a response.
LEMMA CancelsRead ==
    ASSUME NEW from, NEW to, NEW waiting, QueueTypes(from, to, waiting),
           NEW held, NEW J, NEW done, CancelsOK(from, to, waiting, held, J, done),
           from # <<>>, Head(from).type \notin Responses
    PROVE  CancelsOK(Tail(from), to, waiting, held, J, done)
<1>. DEFINE from2 == Tail(from)
<1>1. /\ Len(from) \in Nat \ {0} /\ Len(from2) = Len(from) - 1
      /\ \A i \in 1 .. Len(from2) : from2[i] = from[i + 1]
      /\ from \in Seq(FromTako)
  BY SMT DEF QueueTypes
<1>2. /\ InFlight(from) = InFlight(from2) + 0
      /\ \A k \in 0 .. Len(from) - 1 : RespCount(from, k + 1) = RespCount(from2, k) + 0
  BY SMT, RespTail DEF QueueTypes
<1>3. \A k \in 0 .. Len(from) - 1 : \A ids : Released(ids, from, k + 1, held) => Released(ids, from2, k, held)
  BY <1>1, ReleasedTail
<1>. HIDE DEF from2
<1>4. InFlight(from) = InFlight(from2)
  BY SMT, <1>1, <1>2, RespStep DEF InFlight
<1>5. Released(done, from2, 0, held)
  <2>1. Released(done, from, 0, held) /\ 0 \in 0 .. Len(from) - 1 /\ Len(from) \in Nat
    BY SMT, <1>1 DEF CancelsOK
  <2>2. Released(done, from, 0 + 1, held)
    <3>1. (0 + 1) + 1 .. Len(from) \subseteq 0 + 1 .. Len(from)
      BY SMT, <2>1
    <3>. QED  BY <2>1, <3>1 DEF Released
  <2>. QED  BY <1>3, <2>1, <2>2
<1>6. ASSUME NEW k \in 1 .. Len(from2), NEW c \in Clients, from2[k].type = "CancelTasksResponse",
             waiting[RespCount(from2, k)] = ClientWaits(c)
      PROVE  Released(J[c], from2, k, held)
  <2>1. k + 1 \in 1 .. Len(from) /\ k \in 0 .. Len(from) - 1 /\ from2[k] = from[k + 1] /\ k \in Nat
    BY SMT, <1>1
  <2>2. RespCount(from2, k) \in Nat
    BY <2>1, RespStep
  <2>3. RespCount(from, k + 1) = RespCount(from2, k)
    BY SMT, <1>2, <2>1, <2>2
  <2>4. Released(J[c], from, k + 1, held)
    BY <1>6, <2>1, <2>3 DEF CancelsOK
  <2>. QED  BY <1>3, <2>1, <2>4
<1>. QED  BY <1>4, <1>5, <1>6 DEF CancelsOK, from2

\* The reader gives a response to the handler that waits for it: all tasks that
\* it asked to cancel are canceled, if it is a response to a cancel.
LEMMA CancelsDeliver ==
    ASSUME NEW from, NEW to, NEW waiting, QueueTypes(from, to, waiting),
           Len(waiting) = InFlight(from) + Len(to),
           NEW held, NEW J, NEW done, CancelsOK(from, to, waiting, held, J, done),
           from # <<>>, Head(from).type \in Responses,
           NEW done2, \A t \in done2 : t \in done \/ \E c \in Clients :
               t \in J[c] /\ Head(from).type = "CancelTasksResponse" /\ Head(waiting) = ClientWaits(c)
    PROVE  CancelsOK(Tail(from), to, Tail(waiting), held, J, done2)
<1>. DEFINE from2 == Tail(from)
            wait2 == Tail(waiting)
<1>1. /\ Len(from) \in Nat \ {0} /\ Len(from2) = Len(from) - 1 /\ Head(from) = from[1]
      /\ \A i \in 1 .. Len(from2) : from2[i] = from[i + 1]
      /\ from \in Seq(FromTako) /\ from2 \in Seq(FromTako)
  BY SMT DEF QueueTypes
<1>2. /\ InFlight(from) = InFlight(from2) + 1
      /\ \A k \in 0 .. Len(from) - 1 : RespCount(from, k + 1) = RespCount(from2, k) + 1
  BY RespTail DEF QueueTypes
<1>3. \A k \in 0 .. Len(from) - 1 : \A ids : Released(ids, from, k + 1, held) => Released(ids, from2, k, held)
  BY <1>1, ReleasedTail
<1>. HIDE DEF from2
<1>4. InFlight(from) \in Nat /\ Len(to) \in Nat /\ InFlight(from2) \in Nat
  <2>1. InFlight(from2) \in Nat
    BY SMT, <1>1, RespStep DEF InFlight
  <2>. QED  BY <2>1, QueuePlaces
<1>5. Len(waiting) \in Nat \ {0}
  BY SMT, <1>2, <1>4
<1>6. /\ Head(waiting) = waiting[1] /\ Len(wait2) = Len(waiting) - 1
      /\ \A i \in 1 .. Len(wait2) : wait2[i] = waiting[i + 1]
  <2>1. waiting \in Seq(Waiting)
    BY DEF QueueTypes
  <2>. QED  BY SMT, <1>5, <2>1
<1>. HIDE DEF wait2
<1>7. RespCount(from, 1) = 1 /\ 0 \in 0 .. Len(from) - 1 /\ 0 + 1 = 1 /\ 1 \in 1 .. Len(from)
  <2>1. 0 \in 0 .. Len(from) - 1 /\ 0 \in Nat /\ 0 + 1 = 1 /\ 1 \in 1 .. Len(from)
    BY SMT, <1>1
  <2>. QED  BY <1>2, <2>1, RespStep
<1>8. Released(done2, from2, 0, held)
  <2>1. Released(done, from, 0, held)
    BY DEF CancelsOK
  <2>2. 1 + 1 .. Len(from) \subseteq 0 + 1 .. Len(from)
    BY SMT, <1>1
  <2>3. Released(done, from, 1, held)
    BY <2>1, <2>2 DEF Released
  <2>4. \A c \in Clients : Head(from).type = "CancelTasksResponse" /\ Head(waiting) = ClientWaits(c)
            => Released(J[c], from, 1, held)
    BY <1>1, <1>6, <1>7 DEF CancelsOK
  <2>5. Released(done2, from, 1, held)
    BY <2>3, <2>4 DEF Released
  <2>. QED  BY <1>3, <1>7, <2>5
<1>9. ASSUME NEW k \in 1 .. Len(from2), NEW c \in Clients, from2[k].type = "CancelTasksResponse",
             wait2[RespCount(from2, k)] = ClientWaits(c)
      PROVE  Released(J[c], from2, k, held)
  <2>1. k + 1 \in 1 .. Len(from) /\ k \in 0 .. Len(from) - 1 /\ from2[k] = from[k + 1] /\ Len(from2) \in Nat
    BY SMT, <1>1
  <2>2. from2[k].type \in Responses
    BY SMT, <1>9 DEF Responses
  <2>3. RespCount(from2, k) \in 1 .. InFlight(from2)
    BY <2>1, <2>2, RespPlace DEF InFlight
  <2>4. RespCount(from2, k) \in 1 .. Len(wait2)
    BY SMT, <1>2, <1>4, <1>6, <2>3
  <2>5. RespCount(from, k + 1) = RespCount(from2, k) + 1
    BY <1>2, <2>1
  <2>6. Released(J[c], from, k + 1, held)
    BY <1>6, <1>9, <2>1, <2>4, <2>5 DEF CancelsOK
  <2>. QED  BY <1>3, <2>1, <2>6
<1>10. ASSUME NEW i \in 1 .. Len(to), NEW c \in Clients, to[i].type = "CancelTasks",
              wait2[InFlight(from2) + i] = ClientWaits(c)
       PROVE  waiting[InFlight(from) + i] = ClientWaits(c)
  <2>1. /\ Len(wait2) = Len(waiting) - 1 /\ Len(waiting) = InFlight(from) + Len(to)
        /\ InFlight(from) = InFlight(from2) + 1
    BY <1>2, <1>6
  <2>2. InFlight(from2) + i \in 1 .. Len(wait2) /\ (InFlight(from2) + i) + 1 = InFlight(from) + i
    <3>1. i \in Nat /\ i >= 1 /\ i <= Len(to)
      BY SMT, <1>4
    <3>2. Len(wait2) = InFlight(from2) + Len(to)
      BY SMT, <1>4, <2>1
    <3>3. InFlight(from2) + i \in 1 .. Len(wait2)
      BY SMT, <1>4, <3>1, <3>2
    <3>4. (InFlight(from2) + i) + 1 = InFlight(from) + i
      BY SMT, <1>4, <2>1, <3>1
    <3>. QED  BY <3>3, <3>4
  <2>. QED  BY <1>6, <1>10, <2>2
<1>. QED  BY <1>8, <1>9, <1>10 DEF CancelsOK, from2, wait2

\* Tako reports something that is not a response; it ends only what it holds.
LEMMA CancelsReport ==
    ASSUME NEW from, NEW to, NEW waiting, QueueTypes(from, to, waiting),
           NEW held, NEW J, NEW done, CancelsOK(from, to, waiting, held, J, done),
           NEW msg \in FromTako, msg.type \notin Responses,
           NEW held2, held2 \cup Ended(msg) \subseteq held
    PROVE  CancelsOK(Append(from, msg), to, waiting, held2, J, done)
<1>. DEFINE from2 == Append(from, msg)
<1>1. /\ Len(from2) = Len(from) + 1 /\ from2[Len(from) + 1] = msg /\ Len(from) \in Nat
      /\ \A i \in 1 .. Len(from) : from2[i] = from[i]
      /\ from \in Seq(FromTako) /\ 0 \in 0 .. Len(from)
  BY SMT DEF QueueTypes
<1>2. /\ InFlight(from2) = InFlight(from)
      /\ \A k \in 0 .. Len(from) : RespCount(from2, k) = RespCount(from, k)
  BY RespAppend DEF QueueTypes
<1>3. \A k \in 0 .. Len(from) : \A ids : Released(ids, from, k, held) => Released(ids, from2, k, held2)
  BY <1>1, ReleasedAppend
<1>. HIDE DEF from2
<1>4. Released(done, from2, 0, held2)
  BY <1>1, <1>3 DEF CancelsOK
<1>5. ASSUME NEW k \in 1 .. Len(from2), NEW c \in Clients, from2[k].type = "CancelTasksResponse",
             waiting[RespCount(from2, k)] = ClientWaits(c)
      PROVE  Released(J[c], from2, k, held2)
  <2>1. from2[k].type \in Responses
    BY SMT, <1>5 DEF Responses
  <2>2. k \in 1 .. Len(from) /\ k \in 0 .. Len(from)
    BY SMT, <1>1, <2>1
  <2>. QED  BY <1>1, <1>2, <1>3, <1>5, <2>2 DEF CancelsOK
<1>6. \A t \in held2 : t \in held
  OBVIOUS
<1>. QED  BY <1>2, <1>4, <1>5, <1>6 DEF CancelsOK, from2

\* Tako answers the request that was sent first: a cancel ends all tasks it
\* names, and none of those that come after it is about the same job.
LEMMA CancelsAnswer ==
    ASSUME NEW from, NEW to, NEW waiting, QueueTypes(from, to, waiting),
           NEW held, NEW J, NEW done, CancelsOK(from, to, waiting, held, J, done), to # <<>>,
           NEW msg \in FromTako, msg.type \in Responses,
           NEW held2, held2 \cup Ended(msg) \subseteq held,
           msg.type = "CancelTasksResponse" =>
               /\ Head(to).type = "CancelTasks"
               /\ \A t \in held2 : \/ t \notin Head(to).tasks
                                   \/ \E l \in 2 .. Len(to) : to[l].type = "NewTasks" /\ t \in to[l].tasks
    PROVE  CancelsOK(Append(from, msg), Tail(to), waiting, held2, J, done)
<1>. DEFINE from2 == Append(from, msg)
            to2 == Tail(to)
<1>1. from \in Seq(FromTako) /\ to \in Seq(ToTako)
  BY DEF QueueTypes
<1>2. /\ Len(from2) = Len(from) + 1 /\ from2[Len(from) + 1] = msg /\ Len(from) \in Nat
      /\ \A i \in 1 .. Len(from) : from2[i] = from[i]
      /\ 0 \in 0 .. Len(from)
  BY SMT, <1>1
<1>3. /\ Len(to) \in Nat \ {0} /\ Len(to2) = Len(to) - 1 /\ Head(to) = to[1]
      /\ \A i \in 1 .. Len(to2) : to2[i] = to[i + 1]
  BY SMT, <1>1
<1>4. /\ InFlight(from2) = InFlight(from) + 1
      /\ \A k \in 0 .. Len(from) : RespCount(from2, k) = RespCount(from, k)
  BY <1>1, RespAppend
<1>5. \A k \in 0 .. Len(from) : \A ids : Released(ids, from, k, held) => Released(ids, from2, k, held2)
  BY <1>1, ReleasedAppend
<1>. HIDE DEF from2, to2
<1>6. InFlight(from) \in Nat /\ RespCount(from2, Len(from) + 1) = InFlight(from) + 1
  BY <1>2, <1>4, RespStep DEF InFlight
<1>7. Released(done, from2, 0, held2)
  BY <1>2, <1>5 DEF CancelsOK
<1>8. ASSUME NEW k \in 1 .. Len(from2), NEW c \in Clients, from2[k].type = "CancelTasksResponse",
             waiting[RespCount(from2, k)] = ClientWaits(c)
      PROVE  Released(J[c], from2, k, held2)
  <2>1. CASE k \in 1 .. Len(from)
    <3>1. k \in 0 .. Len(from)
      BY SMT, <1>2, <2>1
    <3>. QED  BY <1>2, <1>4, <1>5, <1>8, <2>1, <3>1 DEF CancelsOK
  <2>2. CASE k = Len(from) + 1
    <3>1. /\ msg.type = "CancelTasksResponse" /\ waiting[InFlight(from) + 1] = ClientWaits(c)
          /\ 1 \in 1 .. Len(to) /\ k + 1 .. Len(from2) = {} /\ 2 .. Len(to) = 1 + 1 .. Len(to)
      BY SMT, <1>2, <1>3, <1>6, <1>8, <2>2
    <3>2. ASSUME NEW t \in J[c]
          PROVE  t \notin held2
      <4>1. /\ t \in held => t \in to[1].tasks
            /\ \A l \in 1 + 1 .. Len(to) : to[l].type = "NewTasks" => t \notin to[l].tasks
        BY <1>3, <3>1 DEF CancelsOK
      <4>. QED  BY <1>3, <3>1, <4>1
    <3>. QED  BY <3>1, <3>2 DEF Released
  <2>. QED  BY SMT, <1>2, <2>1, <2>2
<1>9. ASSUME NEW i \in 1 .. Len(to2), NEW c \in Clients, to2[i].type = "CancelTasks",
             waiting[InFlight(from2) + i] = ClientWaits(c), NEW t \in J[c]
      PROVE  /\ t \in held2 => t \in to2[i].tasks
             /\ \A l \in i + 1 .. Len(to2) : to2[l].type = "NewTasks" => t \notin to2[l].tasks
  <2>1. i \in Nat /\ i + 1 \in 1 .. Len(to) /\ to2[i] = to[i + 1]
    BY SMT, <1>3
  <2>2. InFlight(from2) + i = InFlight(from) + (i + 1)
    BY SMT, <1>4, <1>6, <2>1
  <2>3. /\ t \in held => t \in to2[i].tasks
        /\ \A l \in (i + 1) + 1 .. Len(to) : to[l].type = "NewTasks" => t \notin to[l].tasks
    BY <1>9, <2>1, <2>2 DEF CancelsOK
  <2>4. ASSUME NEW l \in i + 1 .. Len(to2), to2[l].type = "NewTasks"
        PROVE  t \notin to2[l].tasks
    <3>1. l + 1 \in (i + 1) + 1 .. Len(to) /\ to2[l] = to[l + 1]
      BY SMT, <1>3, <2>1
    <3>. QED  BY <2>3, <2>4, <3>1
  <2>. QED  BY <2>3, <2>4
<1>. QED  BY <1>7, <1>8, <1>9 DEF CancelsOK, from2, to2

\* The tasks on their way to tako, when a request is sent and when one is read.
LEMMA ComingAppend ==
    ASSUME NEW to \in Seq(ToTako), NEW msg \in ToTako
    PROVE  /\ msg.type # "NewTasks" => Coming(Append(to, msg)) = Coming(to)
           /\ msg.type = "NewTasks" => Coming(Append(to, msg)) = Coming(to) \cup msg.tasks
<1>. DEFINE to2 == Append(to, msg)
<1>1. /\ Len(to2) = Len(to) + 1 /\ to2[Len(to) + 1] = msg /\ Len(to) \in Nat
      /\ \A i \in 1 .. Len(to) : to2[i] = to[i]
  BY SMT
<1>2. 1 .. Len(to2) = 1 .. Len(to) \cup {Len(to) + 1}
  BY SMT, <1>1
<1>. HIDE DEF to2
<1>3. ASSUME NEW t
      PROVE  t \in Coming(to2) <=> t \in Coming(to) \/ (msg.type = "NewTasks" /\ t \in msg.tasks)
  BY <1>1, <1>2 DEF Coming
<1>. QED  BY <1>3 DEF to2

\* As above.
LEMMA ComingTail ==
    ASSUME NEW to \in Seq(ToTako), to # <<>>
    PROVE  /\ Head(to).type # "NewTasks" => Coming(Tail(to)) = Coming(to)
           /\ Head(to).type = "NewTasks" => Coming(to) = Coming(Tail(to)) \cup Head(to).tasks
           /\ \A t \in Coming(Tail(to)) : \E l \in 2 .. Len(to) : to[l].type = "NewTasks" /\ t \in to[l].tasks
<1>. DEFINE to2 == Tail(to)
<1>1. /\ Len(to) \in Nat \ {0} /\ Len(to2) = Len(to) - 1 /\ Head(to) = to[1]
      /\ \A i \in 1 .. Len(to2) : to2[i] = to[i + 1]
  BY SMT
<1>. HIDE DEF to2
<1>2. ASSUME NEW t \in Coming(to2)
      PROVE  \E l \in 2 .. Len(to) : to[l].type = "NewTasks" /\ t \in to[l].tasks
  <2>1. PICK i \in 1 .. Len(to2) : to2[i].type = "NewTasks" /\ t \in to2[i].tasks
    BY DEF Coming
  <2>2. i + 1 \in 2 .. Len(to) /\ to2[i] = to[i + 1]
    BY SMT, <1>1
  <2>. QED  BY <2>1, <2>2
<1>3. ASSUME NEW l \in 2 .. Len(to), to[l].type = "NewTasks", NEW t \in to[l].tasks
      PROVE  t \in Coming(to2)
  <2>1. l - 1 \in 1 .. Len(to2) /\ to2[l - 1] = to[l]
    BY SMT, <1>1
  <2>. QED  BY <1>3, <2>1 DEF Coming
<1>4. 1 .. Len(to) = {1} \cup 2 .. Len(to)
  BY SMT, <1>1
<1>5. ASSUME NEW t
      PROVE  t \in Coming(to) <=> t \in Coming(to2) \/ (Head(to).type = "NewTasks" /\ t \in Head(to).tasks)
  <2>1. t \in Coming(to) => t \in Coming(to2) \/ (Head(to).type = "NewTasks" /\ t \in Head(to).tasks)
    <3>1. ASSUME t \in Coming(to)
          PROVE  \E l \in 1 .. Len(to) : to[l].type = "NewTasks" /\ t \in to[l].tasks
      BY <3>1 DEF Coming
    <3>. QED  BY <1>1, <1>3, <1>4, <3>1
  <2>2. 1 \in 1 .. Len(to)
    BY SMT, <1>1
  <2>3. Head(to).type = "NewTasks" /\ t \in Head(to).tasks => t \in Coming(to)
    BY SMT, <1>1, <2>2 DEF Coming
  <2>4. t \in Coming(to2) => t \in Coming(to)
    BY <1>2, <1>4 DEF Coming
  <2>. QED  BY <2>1, <2>3, <2>4
<1>. QED  BY <1>2, <1>5 DEF to2

\* The tasks that are known to be canceled.
LEMMA KnownMember ==
    ASSUME NEW told, NEW T, NEW J, NEW H
    PROVE  \A t : t \in KnownOf(told, T, J, H) <=>
               \/ \E j \in told : t \in T[j]
               \/ \E c \in Clients : CancelDone(H[ClientWaits(c)]) /\ t \in J[c]
  BY DEF KnownOf

\* What the cancel of a client is about stays as long as its handler waits.
LEMMA SameCancels ==
    ASSUME StepFacts, RpcInv, NEW c \in Clients,
           Handlers'[ClientWaits(c)] = Handlers[ClientWaits(c)]
    PROVE  BeingCanceled'[c] = BeingCanceled[c]
<1>1. PICK h : h = Handlers[ClientWaits(c)]
  OBVIOUS
<1>2. PICK T : T = TasksOf(jobs)
  OBVIOUS
<1>3. PICK U : U = TasksOf(jobs')
  OBVIOUS
<1>4. HandlerOK(h, T) /\ Grows(T, U)
  BY <1>1, <1>2, <1>3, HandlerTypes DEF RpcInv, HandlersOK, StepFacts
<1>5. BeingCanceled[c] = ToCancel(h, T) /\ BeingCanceled'[c] = ToCancel(h, U)
  BY <1>1, <1>2, <1>3 DEF BeingCanceled
<1>6. h.pc = "cancel" => h.job \in DOMAIN T /\ h.job \in DOMAIN U /\ U[h.job] = T[h.job]
  BY <1>4 DEF HandlerOK, Grows
<1>. QED  BY <1>5, <1>6 DEF ToCancel

\* The clients' handlers do not go on.
LEMMA SameClients ==
    ASSUME StepFacts, RpcInv, UNCHANGED <<client, told_canceled>>
    PROVE  /\ BeingCanceled' = BeingCanceled
           /\ KnownCanceled' = KnownCanceled
           /\ NoneRegisters => NoneRegisters'
<1>1. \A c \in Clients : Handlers'[ClientWaits(c)] = Handlers[ClientWaits(c)]
  <2>1. \A c \in Clients : HandlersOf(client, callbacks)[ClientWaits(c)] = ClientHandler(client[c])
    BY HandlerTypes
  <2>2. \A c \in Clients : HandlersOf(client', callbacks')[ClientWaits(c)] = ClientHandler(client'[c])
    BY HandlerTypes
  <2>. QED  BY <2>1, <2>2 DEF Handlers
<1>2. \A c \in Clients : BeingCanceled'[c] = BeingCanceled[c]
  BY <1>1, SameCancels
<1>3. BeingCanceled' = BeingCanceled
  <2>1. /\ BeingCanceled = [c \in Clients |-> BeingCanceled[c]]
        /\ BeingCanceled' = [c \in Clients |-> BeingCanceled'[c]]
    BY DEF BeingCanceled
  <2>. QED  BY <1>2, <2>1
<1>4. \A j \in told_canceled : TasksOf(jobs')[j] = TasksOf(jobs)[j]
  <2>1. told_canceled \subseteq DOMAIN TasksOf(jobs)
    BY DEF StepFacts, BasicInv, TypeOK, StateTypeOK, TasksOf
  <2>. QED  BY <2>1 DEF StepFacts, Grows
<1>5. ASSUME NEW t  PROVE t \in KnownCanceled' <=> t \in KnownCanceled
  <2>1. t \in KnownCanceled <=> \/ \E j \in told_canceled : t \in TasksOf(jobs)[j]
                               \/ \E c \in Clients : /\ CancelDone(Handlers[ClientWaits(c)])
                                                    /\ t \in BeingCanceled[c]
    BY KnownMember DEF KnownCanceled
  <2>2. t \in KnownCanceled' <=> \/ \E j \in told_canceled' : t \in TasksOf(jobs')[j]
                                \/ \E c \in Clients : /\ CancelDone(Handlers'[ClientWaits(c)])
                                                     /\ t \in BeingCanceled'[c]
    BY KnownMember DEF KnownCanceled
  <2>3. (\E j \in told_canceled' : t \in TasksOf(jobs')[j]) <=> (\E j \in told_canceled : t \in TasksOf(jobs)[j])
    BY <1>4
  <2>4. (\E c \in Clients : CancelDone(Handlers'[ClientWaits(c)]) /\ t \in BeingCanceled'[c])
          <=> (\E c \in Clients : CancelDone(Handlers[ClientWaits(c)]) /\ t \in BeingCanceled[c])
    BY <1>1, <1>2
  <2>. QED  BY <2>1, <2>2, <2>3, <2>4
<1>6. NoneRegisters => NoneRegisters'
  BY <1>1 DEF NoneRegisters
<1>. QED  BY <1>3, <1>5, <1>6

\* Nothing happens to clients, to requests and to what tako holds.
LEMMA CancelStill ==
    ASSUME StepFacts, RpcInv, CancelInv,
           UNCHANGED <<client, told_canceled, to_tako, tako_responses, from_tako, tako_tasks>>
    PROVE  CancelInv'
<1>1. AtTako' = AtTako
  BY DEF AtTako
<1>. QED  BY <1>1, SameClients DEF CancelInv

\* The reader takes a message that is not a response.
LEMMA CancelReads ==
    ASSUME StepFacts, RpcInv, CancelInv,
           UNCHANGED <<client, told_canceled, to_tako, tako_responses, tako_tasks>>,
           from_tako # <<>>, Head(from_tako).type \notin Responses, from_tako' = Tail(from_tako)
    PROVE  CancelInv'
<1>1. AtTako' = AtTako /\ BasicInv
  BY DEF AtTako, StepFacts
<1>2. CancelsOK(Tail(from_tako), to_tako, tako_responses, AtTako, BeingCanceled, KnownCanceled)
  BY <1>1, LifeTypes, CancelsRead DEF CancelInv
<1>. QED  BY <1>1, <1>2, SameClients DEF CancelInv

\* The reports of tako that are read.
LEMMA CancelReports ==
    ASSUME StepFacts, RpcInv, CancelInv,
           \/ process_task_running \/ process_task_finished \/ process_task_waiting
           \/ process_worker_new \/ process_worker_lost \/ process_task_failed
    PROVE  CancelInv'
<1>1. CASE Panic
  <2>1. UNCHANGED <<client, told_canceled, to_tako, tako_responses, from_tako, tako_tasks>>
    BY <1>1 DEF Panic, handlerVars, rpcVars, takoVars
  <2>. QED  BY <2>1, CancelStill
<1>2. CASE ~ Panic /\ ~ process_task_failed
  <2>1. /\ UNCHANGED <<client, told_canceled, to_tako, tako_responses, tako_tasks>>
        /\ from_tako # <<>> /\ Head(from_tako).type \notin Responses
        /\ from_tako' = Tail(from_tako)
    BY <1>2 DEF process_task_running, process_task_finished, process_task_waiting,
                process_worker_new, process_worker_lost, Receive, Received, Responses,
                handlerVars, rpcVars, takoVars
  <2>. QED  BY <2>1, CancelReads
<1>3. CASE ~ Panic /\ process_task_failed
  <2>1. /\ UNCHANGED <<client, told_canceled, to_tako, tako_responses, tako_tasks>>
        /\ from_tako # <<>> /\ Head(from_tako).type \notin Responses
        /\ from_tako' = Tail(from_tako)
    BY <1>3 DEF process_task_failed, Receive, Received, Responses, rpcVars, takoVars
  <2>. QED  BY <2>1, CancelReads
<1>. QED  BY <1>1, <1>2, <1>3

\* A response is given to its handler.
LEMMA CancelDelivers ==
    ASSUME StepFacts, RpcInv, CancelInv, NEW who \in Waiting, NEW msg, Delivered(who, msg)
    PROVE  CancelInv'
<1>1. /\ who = Head(tako_responses) /\ msg = Head(from_tako)
      /\ from_tako # <<>> /\ msg.type \in Responses
      /\ from_tako' = Tail(from_tako) /\ tako_responses' = Tail(tako_responses)
      /\ Only(Handlers, Handlers', who)
      /\ Handlers'[who] = Replied(Handlers[who], msg)
      /\ Waits(Handlers[who])
      /\ UNCHANGED <<jobs, told_canceled, to_tako, tako_tasks>>
  BY DEF Delivered, stateVars, takoVars
<1>2. AtTako' = AtTako /\ BasicInv
  BY <1>1 DEF AtTako, StepFacts
<1>3. \A c \in Clients : ClientWaits(c) \in Waiting
  BY HandlerTypes
<1>4. ASSUME NEW c \in Clients, ClientWaits(c) # who
      PROVE  Handlers'[ClientWaits(c)] = Handlers[ClientWaits(c)]
  BY <1>1, <1>3, <1>4 DEF Only
<1>5. PICK h : h = Handlers[who]
  OBVIOUS
<1>6. PICK g : g = Handlers'[who]
  OBVIOUS
<1>7. g.pc = h.pc /\ g.job = h.job /\ g.reply = {msg}
  BY SMT, <1>1, <1>5, <1>6 DEF Replied
<1>8. ASSUME NEW c \in Clients
      PROVE  BeingCanceled'[c] = BeingCanceled[c]
  <2>1. CASE ClientWaits(c) = who
    <3>1. BeingCanceled[c] = ToCancel(h, TasksOf(jobs)) /\ BeingCanceled'[c] = ToCancel(g, TasksOf(jobs))
      BY <1>1, <1>5, <1>6, <2>1 DEF BeingCanceled
    <3>. QED  BY SMT, <1>7, <3>1 DEF ToCancel
  <2>. QED  BY <1>4, <2>1, SameCancels
<1>9. BeingCanceled' = BeingCanceled
  <2>1. /\ BeingCanceled = [c \in Clients |-> BeingCanceled[c]]
        /\ BeingCanceled' = [c \in Clients |-> BeingCanceled'[c]]
    BY DEF BeingCanceled
  <2>. QED  BY <1>8, <2>1
<1>10. ASSUME NEW t \in KnownCanceled'
       PROVE  t \in KnownCanceled \/ \E c \in Clients :
                  /\ t \in BeingCanceled[c] /\ Head(from_tako).type = "CancelTasksResponse"
                  /\ Head(tako_responses) = ClientWaits(c)
  <2>1. CASE \E j \in told_canceled : t \in TasksOf(jobs)[j]
    BY <2>1, KnownMember DEF KnownCanceled
  <2>2. CASE \E c \in Clients : CancelDone(Handlers'[ClientWaits(c)]) /\ t \in BeingCanceled[c]
    <3>1. PICK c \in Clients : CancelDone(Handlers'[ClientWaits(c)]) /\ t \in BeingCanceled[c]
      BY <2>2
    <3>2. CASE ClientWaits(c) = who
      <4>1. CancelDone(g)
        BY <1>6, <3>1, <3>2
      <4>2. msg.type = "CancelTasksResponse"
        BY <1>7, <4>1 DEF CancelDone
      <4>. QED  BY <1>1, <3>1, <3>2, <4>2
    <3>3. CASE ClientWaits(c) # who
      <4>1. CancelDone(Handlers[ClientWaits(c)])
        BY <1>4, <3>1, <3>3
      <4>. QED  BY <3>1, <4>1, KnownMember DEF KnownCanceled
    <3>. QED  BY <3>2, <3>3
  <2>3. \/ \E j \in told_canceled' : t \in TasksOf(jobs')[j]
        \/ \E c \in Clients : CancelDone(Handlers'[ClientWaits(c)]) /\ t \in BeingCanceled'[c]
    BY KnownMember DEF KnownCanceled
  <2>. QED  BY <1>1, <1>9, <2>1, <2>2, <2>3
<1>11. PICK known : known = KnownCanceled'
  OBVIOUS
<1>12. Len(tako_responses) = InFlight(from_tako) + Len(to_tako)
  BY DEF RpcInv, QueuesOK
<1>13. CancelsOK(Tail(from_tako), to_tako, Tail(tako_responses), AtTako, BeingCanceled, known)
  BY <1>1, <1>2, <1>10, <1>11, <1>12, LifeTypes, CancelsDeliver DEF CancelInv
<1>14. NoneRegisters'
  <2>1. ASSUME NEW c \in Clients
        PROVE  Handlers'[ClientWaits(c)].pc = Handlers[ClientWaits(c)].pc
    BY <1>4, <1>5, <1>6, <1>7
  <2>. QED  BY <2>1 DEF CancelInv, NoneRegisters
<1>. QED  BY <1>1, <1>2, <1>9, <1>11, <1>13, <1>14 DEF CancelInv

\* A spawned cancel sends its request.
LEMMA CancelSpawns ==
    ASSUME StepFacts, RpcInv, CancelInv, NEW t \in Nat, SpawnedSends(t)
    PROVE  CancelInv'
<1>1. PICK msg \in ToTako : msg.type = "CancelTasks" /\ send_tako_message(msg, CallbackWaits(t))
  BY DEF SpawnedSends
<1>2. /\ to_tako' = Append(to_tako, msg) /\ tako_responses' = Append(tako_responses, CallbackWaits(t))
      /\ UNCHANGED <<client, told_canceled, from_tako, tako_tasks>>
      /\ BasicInv
  BY <1>1 DEF send_tako_message, SpawnedSends, TasksStay, StepFacts
<1>3. AtTako' = AtTako
  <2>1. to_tako \in Seq(ToTako) /\ msg.type # "NewTasks"
    BY <1>1, <1>2, LifeTypes DEF QueueTypes
  <2>. QED  BY <1>2, <2>1, ComingAppend DEF AtTako
<1>4. /\ CallbackWaits(t) \in Waiting /\ \A c \in Clients : CallbackWaits(t) # ClientWaits(c)
      /\ msg.type # "NewTasks"
  BY <1>1, HandlerTypes
<1>5. Len(tako_responses) = InFlight(from_tako) + Len(to_tako)
  BY DEF RpcInv, QueuesOK
<1>6. CancelsOK(from_tako, Append(to_tako, msg), Append(tako_responses, CallbackWaits(t)),
                AtTako, BeingCanceled, KnownCanceled)
  BY <1>2, <1>4, <1>5, LifeTypes, CancelsSend DEF CancelInv
<1>. QED  BY <1>2, <1>3, <1>6, SameClients DEF CancelInv

\* Tako answers a request.
LEMMA CancelTakoAnswers ==
    ASSUME StepFacts, RpcInv, CancelInv, NEW type, TakoAnswers(type), NEW msg \in FromTako,
           from_tako' = Append(from_tako, msg), msg.type \in Responses,
           AtTako' \cup Ended(msg) \subseteq AtTako,
           msg.type = "CancelTasksResponse" =>
               /\ type = "CancelTasks"
               /\ \A t \in AtTako' : t \notin Head(to_tako).tasks \/ t \in Coming(Tail(to_tako))
    PROVE  CancelInv'
<1>1. /\ to_tako # <<>> /\ Head(to_tako).type = type /\ to_tako' = Tail(to_tako)
      /\ UNCHANGED <<client, told_canceled, tako_responses>>
  BY DEF TakoAnswers, handlerVars
<1>2. QueueTypes(from_tako, to_tako, tako_responses) /\ to_tako \in Seq(ToTako)
  BY LifeTypes DEF StepFacts, QueueTypes
<1>3. PICK held : held = AtTako'
  OBVIOUS
<1>4. msg.type = "CancelTasksResponse" =>
          /\ Head(to_tako).type = "CancelTasks"
          /\ \A t \in held : \/ t \notin Head(to_tako).tasks
                             \/ \E l \in 2 .. Len(to_tako) : /\ to_tako[l].type = "NewTasks"
                                                             /\ t \in to_tako[l].tasks
  BY <1>1, <1>2, <1>3, ComingTail
<1>5. CancelsOK(Append(from_tako, msg), Tail(to_tako), tako_responses, held, BeingCanceled, KnownCanceled)
  BY <1>1, <1>2, <1>3, <1>4, CancelsAnswer DEF CancelInv
<1>. QED  BY <1>1, <1>3, <1>5, SameClients DEF CancelInv

\* The answers of tako.
LEMMA CancelTakoRequest ==
    ASSUME StepFacts, RpcInv, CancelInv, TakoRequest
    PROVE  CancelInv'
<1>0. to_tako \in Seq(ToTako) /\ DOMAIN tako_tasks \subseteq Nat
  BY LifeTypes DEF StepFacts, QueueTypes, BasicInv, TypeOK, TakoTypeOK
<1>1. ASSUME TakoNewTasks  PROVE  CancelInv'
  <2>. DEFINE msg == [type |-> "NewTasksResponse"]
  <2>1. msg \in FromTako /\ msg.type = "NewTasksResponse" /\ msg.type \in Responses
    BY DEF FromTako, Response, Responses
  <2>2. /\ TakoAnswers("NewTasks") /\ from_tako' = Append(from_tako, msg) /\ to_tako # <<>>
        /\ Head(to_tako).type = "NewTasks" /\ to_tako' = Tail(to_tako)
        /\ DOMAIN tako_tasks' = DOMAIN tako_tasks \cup Head(to_tako).tasks
    BY <1>1 DEF TakoNewTasks, TakoAnswers
  <2>. HIDE DEF msg
  <2>3. Ended(msg) = {}
    BY SMT, <2>1 DEF Ended
  <2>4. AtTako' \subseteq AtTako
    BY <1>0, <2>2, ComingTail DEF AtTako
  <2>. QED  BY <2>1, <2>2, <2>3, <2>4, CancelTakoAnswers
<1>2. ASSUME TakoCancelTasks  PROVE  CancelInv'
  <2>. DEFINE tasks == Head(to_tako).tasks \cap DOMAIN tako_tasks
              msg == [type |-> "CancelTasksResponse", tasks |-> tasks]
  <2>1. /\ msg \in FromTako /\ msg.type = "CancelTasksResponse" /\ msg.type \in Responses
        /\ msg.tasks = tasks
    BY <1>0 DEF FromTako, Response, Responses
  <2>2. /\ TakoAnswers("CancelTasks") /\ from_tako' = Append(from_tako, msg) /\ to_tako # <<>>
        /\ Head(to_tako).type = "CancelTasks" /\ to_tako' = Tail(to_tako)
        /\ DOMAIN tako_tasks' = DOMAIN tako_tasks \ tasks
    BY <1>2 DEF TakoCancelTasks, TakoAnswers, Remove
  <2>. HIDE DEF msg
  <2>3. Ended(msg) = tasks
    BY SMT, <2>1 DEF Ended
  <2>4. Coming(Tail(to_tako)) = Coming(to_tako)
    BY SMT, <1>0, <2>2, ComingTail
  <2>5. AtTako' \cup Ended(msg) \subseteq AtTako
    BY <2>2, <2>3, <2>4 DEF AtTako
  <2>6. \A t \in AtTako' : t \notin Head(to_tako).tasks \/ t \in Coming(Tail(to_tako))
    BY <2>2 DEF AtTako
  <2>. QED  BY <2>1, <2>2, <2>5, <2>6, CancelTakoAnswers
<1>3. ASSUME NEW type, TakoAnswers(type), type # "NewTasks", UNCHANGED tako_tasks, NEW msg \in FromTako,
             msg.type \in {"WorkerStopped", "Error"}, from_tako' = Append(from_tako, msg)
      PROVE  CancelInv'
  <2>1. to_tako # <<>> /\ Head(to_tako).type # "NewTasks" /\ to_tako' = Tail(to_tako)
    BY <1>3 DEF TakoAnswers
  <2>2. AtTako' = AtTako
    BY <1>0, <1>3, <2>1, ComingTail DEF AtTako
  <2>3. Ended(msg) = {} /\ msg.type # "CancelTasksResponse" /\ msg.type \in Responses
    BY SMT, <1>3 DEF Ended, Responses
  <2>. QED  BY <1>3, <2>2, <2>3, CancelTakoAnswers
<1>4. ASSUME TakoCancelFails  PROVE  CancelInv'
  <2>. DEFINE msg == [type |-> "Error"]
  <2>1. msg \in FromTako /\ msg.type \in {"WorkerStopped", "Error"}
    BY DEF FromTako, Response
  <2>2. TakoAnswers("CancelTasks") /\ from_tako' = Append(from_tako, msg) /\ UNCHANGED tako_tasks
    BY <1>4 DEF TakoCancelFails
  <2>. HIDE DEF msg
  <2>. QED  BY <1>3, <2>1, <2>2
<1>5. ASSUME TakoStopWorker  PROVE  CancelInv'
  <2>. DEFINE msg == [type |-> IF tako_workers[Head(to_tako).worker] = "connected"
                               THEN "WorkerStopped" ELSE "Error"]
  <2>1. msg \in FromTako /\ msg.type \in {"WorkerStopped", "Error"}
    BY DEF FromTako, Response
  <2>2. TakoAnswers("StopWorker") /\ from_tako' = Append(from_tako, msg) /\ UNCHANGED tako_tasks
    BY <1>5 DEF TakoStopWorker, takoVars
  <2>. HIDE DEF msg
  <2>. QED  BY <1>3, <2>1, <2>2
<1>. QED  BY <1>1, <1>2, <1>4, <1>5 DEF TakoRequest

\* What tako reports of its own accord ends at most a task that it holds.
LEMMA CancelTakoEvent ==
    ASSUME StepFacts, RpcInv, CancelInv, TakoEvent
    PROVE  CancelInv'
<1>0. QueueTypes(from_tako, to_tako, tako_responses) /\ QueueTypes(from_tako', to_tako', tako_responses')
  BY LifeTypes DEF StepFacts, BasicInv, TypeOK, RpcTypeOK, QueueTypes
<1>1. ASSUME NEW msg, TakoReports(msg), msg.type \notin Responses,
             DOMAIN tako_tasks' \cup Ended(msg) \subseteq DOMAIN tako_tasks
      PROVE  CancelInv'
  <2>1. from_tako' = Append(from_tako, msg) /\ UNCHANGED <<client, told_canceled, to_tako, tako_responses>>
    BY <1>1 DEF TakoReports, handlerVars, rpcVars
  <2>2. msg \in FromTako
    <3>1. from_tako \in Seq(FromTako) /\ Append(from_tako, msg) \in Seq(FromTako)
      BY <1>0, <2>1 DEF QueueTypes
    <3>2. /\ Append(from_tako, msg)[Len(from_tako) + 1] = msg
          /\ Len(Append(from_tako, msg)) = Len(from_tako) + 1 /\ Len(from_tako) \in Nat
      BY SMT, <3>1
    <3>. QED  BY SMT, <3>1, <3>2
  <2>3. PICK held : held = AtTako'
    OBVIOUS
  <2>4. held \cup Ended(msg) \subseteq AtTako
    BY <1>1, <2>1, <2>3 DEF AtTako
  <2>5. CancelsOK(Append(from_tako, msg), to_tako, tako_responses, held, BeingCanceled, KnownCanceled)
    BY <1>0, <1>1, <2>2, <2>4, CancelsReport DEF CancelInv
  <2>. QED  BY <2>1, <2>3, <2>5, SameClients DEF CancelInv
<1>2. \E msg : /\ TakoReports(msg) /\ msg.type \notin Responses
               /\ DOMAIN tako_tasks' \cup Ended(msg) \subseteq DOMAIN tako_tasks
  <2>1. ASSUME NEW w \in Workers, TakoWorkerConnects(w) \/ TakoWorkerLost(w)
        PROVE  \E msg : /\ TakoReports(msg) /\ msg.type \notin Responses
                        /\ DOMAIN tako_tasks' \cup Ended(msg) \subseteq DOMAIN tako_tasks
    BY SMT, <2>1 DEF TakoWorkerConnects, TakoWorkerLost, Responses, Ended
  <2>2. ASSUME NEW t \in DOMAIN tako_tasks,
               \/ \E w \in Workers : TakoTaskStarts(t, w)
               \/ TakoTaskStartsAgain(t) \/ TakoTaskReturns(t)
        PROVE  \E msg : /\ TakoReports(msg) /\ msg.type \notin Responses
                        /\ DOMAIN tako_tasks' \cup Ended(msg) \subseteq DOMAIN tako_tasks
    <3>1. CASE \E w \in Workers : TakoTaskStarts(t, w)
      BY SMT, <3>1 DEF TakoTaskStarts, Responses, Ended
    <3>2. CASE TakoTaskStartsAgain(t)
      BY SMT, <3>2 DEF TakoTaskStartsAgain, Responses, Ended
    <3>3. CASE TakoTaskReturns(t)
      BY SMT, <3>3 DEF TakoTaskReturns, Responses, Ended
    <3>. QED  BY <2>2, <3>1, <3>2, <3>3
  <2>3. ASSUME NEW t \in DOMAIN tako_tasks, TakoTaskEnds(t)
        PROVE  \E msg : /\ TakoReports(msg) /\ msg.type \notin Responses
                        /\ DOMAIN tako_tasks' \cup Ended(msg) \subseteq DOMAIN tako_tasks
    <3>1. PICK type \in {"Finished", "TaskFailed"} : TakoReports([type |-> type, task |-> t])
      BY <2>3 DEF TakoTaskEnds
    <3>2. [type |-> type, task |-> t].type \notin Responses /\ Ended([type |-> type, task |-> t]) = {t}
      BY SMT DEF Responses, Ended
    <3>3. DOMAIN tako_tasks' \subseteq DOMAIN tako_tasks
      BY <2>3 DEF TakoTaskEnds, Remove
    <3>. QED  BY <3>1, <3>2, <3>3
  <2>. QED  BY <2>1, <2>2, <2>3 DEF TakoEvent
<1>. QED  BY <1>1, <1>2

\* A handler that sends, or that ends, was not waiting.
LEMMA NotWaiting ==
    ASSUME BasicInv, BasicInv', RpcInv', NEW who \in Waiting,
           \/ UNCHANGED tako_responses /\ ~ Waits(Handlers'[who])
           \/ tako_responses' = Append(tako_responses, who)
    PROVE  \A i \in 1 .. Len(tako_responses) : tako_responses[i] # who
<1>1. /\ \A i \in 1 .. Len(tako_responses') : Waits(Handlers'[tako_responses'[i]])
      /\ \A i, k \in 1 .. Len(tako_responses') : tako_responses'[i] = tako_responses'[k] => i = k
  BY DEF RpcInv, QueuesOK
<1>2. tako_responses \in Seq(Waiting)
  BY LifeTypes DEF QueueTypes
<1>3. CASE UNCHANGED tako_responses /\ ~ Waits(Handlers'[who])
  BY <1>1, <1>3
<1>4. CASE tako_responses' = Append(tako_responses, who)
  <2>1. /\ Len(tako_responses') = Len(tako_responses) + 1 /\ Len(tako_responses) \in Nat
        /\ tako_responses'[Len(tako_responses) + 1] = who
        /\ \A i \in 1 .. Len(tako_responses) : tako_responses'[i] = tako_responses[i]
    BY SMT, <1>2, <1>4
  <2>. QED  BY SMT, <1>1, <2>1
<1>. QED  BY <1>3, <1>4

\* The cancels are about tasks of jobs.
LEMMA CanceledTasks ==
    ASSUME BasicInv
    PROVE  /\ \A t \in KnownCanceled : \E j \in DOMAIN jobs : t \in DOMAIN jobs[j].tasks
           /\ \A c \in Clients : \A t \in BeingCanceled[c] : \E j \in DOMAIN jobs : t \in DOMAIN jobs[j].tasks
<1>1. told_canceled \subseteq DOMAIN jobs
  BY DEF BasicInv, TypeOK, StateTypeOK
<1>2. \A j \in DOMAIN jobs : TasksOf(jobs)[j] = DOMAIN jobs[j].tasks
  BY DEF TasksOf
<1>3. ASSUME NEW c \in Clients, NEW t \in BeingCanceled[c]
      PROVE  \E j \in DOMAIN jobs : t \in DOMAIN jobs[j].tasks
  <2>1. PICK h : h = Handlers[ClientWaits(c)]
    OBVIOUS
  <2>2. BeingCanceled[c] = ToCancel(h, TasksOf(jobs))
    BY <2>1 DEF BeingCanceled
  <2>3. h.job \in DOMAIN TasksOf(jobs) /\ t \in TasksOf(jobs)[h.job]
    BY SMT, <1>3, <2>2 DEF ToCancel
  <2>4. h.job \in DOMAIN jobs
    BY <2>3 DEF TasksOf
  <2>. QED  BY <1>2, <2>3, <2>4
<1>4. ASSUME NEW t \in KnownCanceled
      PROVE  \E j \in DOMAIN jobs : t \in DOMAIN jobs[j].tasks
  <2>1. \/ \E j \in told_canceled : t \in TasksOf(jobs)[j]
        \/ \E c \in Clients : t \in BeingCanceled[c]
    BY KnownMember DEF KnownCanceled
  <2>. QED  BY <1>1, <1>2, <1>3, <2>1
<1>. QED  BY <1>3, <1>4

\* The job is told canceled: it was before, tako has canceled it for the client,
\* or there was nothing to cancel.
NewlyTold(c) ==
    \A j \in told_canceled' :
        \/ j \in told_canceled
        \/ LET h == Handlers[ClientWaits(c)]
           IN  j = h.job /\ h.pc = "cancel" /\ h.job \in DOMAIN jobs /\ CancelDone(h)
        \/ j \in DOMAIN jobs' /\ non_finished_task_ids(jobs'[j]) = {}

\* What is known of the tasks of jobs that are told canceled.
LEMMA KnownStep ==
    ASSUME StepFacts, RpcInv, NEW c \in Clients, Only(Handlers, Handlers', ClientWaits(c)),
           Handlers'[ClientWaits(c)].reply = {}, NewlyTold(c)
    PROVE  \A t \in KnownCanceled' : \/ t \in KnownCanceled
                                     \/ \E j \in DOMAIN jobs' : t \in InState(jobs'[j], Terminal)
<1>. SUFFICES ASSUME NEW t \in KnownCanceled', t \notin KnownCanceled
              PROVE  \E j \in DOMAIN jobs' : t \in InState(jobs'[j], Terminal)
  OBVIOUS
<1>1. /\ \A j \in told_canceled : t \notin TasksOf(jobs)[j]
      /\ \A d \in Clients : CancelDone(Handlers[ClientWaits(d)]) => t \notin BeingCanceled[d]
  BY KnownMember DEF KnownCanceled
<1>2. \/ \E j \in told_canceled' : t \in TasksOf(jobs')[j]
      \/ \E d \in Clients : CancelDone(Handlers'[ClientWaits(d)]) /\ t \in BeingCanceled'[d]
  <2>1. PICK told, T, J, H : told = told_canceled' /\ T = TasksOf(jobs') /\ J = BeingCanceled' /\ H = Handlers'
    OBVIOUS
  <2>2. t \in KnownOf(told, T, J, H)
    BY <2>1 DEF KnownCanceled
  <2>3. \/ \E j \in told : t \in T[j]
        \/ \E d \in Clients : CancelDone(H[ClientWaits(d)]) /\ t \in J[d]
    BY <2>2 DEF KnownOf
  <2>4. CASE \E j \in told : t \in T[j]
    BY <2>1, <2>4
  <2>5. CASE \E d \in Clients : CancelDone(H[ClientWaits(d)]) /\ t \in J[d]
    <3>1. PICK d \in Clients : CancelDone(H[ClientWaits(d)]) /\ t \in J[d]
      BY <2>5
    <3>2. H[ClientWaits(d)] = Handlers'[ClientWaits(d)] /\ J[d] = BeingCanceled'[d]
      BY <2>1
    <3>3. CancelDone(Handlers'[ClientWaits(d)])
      BY <3>1, <3>2
    <3>. QED  BY <3>1, <3>2, <3>3
  <2>. QED  BY <2>3, <2>4, <2>5
<1>3. ~ \E d \in Clients : CancelDone(Handlers'[ClientWaits(d)]) /\ t \in BeingCanceled'[d]
  <2>. SUFFICES ASSUME NEW d \in Clients, CancelDone(Handlers'[ClientWaits(d)]), t \in BeingCanceled'[d]
                PROVE  FALSE
    OBVIOUS
  <2>1. ClientWaits(d) # ClientWaits(c)
    BY DEF CancelDone
  <2>2. Handlers'[ClientWaits(d)] = Handlers[ClientWaits(d)]
    BY <2>1, HandlerTypes DEF Only
  <2>3. CancelDone(Handlers[ClientWaits(d)]) /\ t \in BeingCanceled[d]
    BY <2>2, SameCancels
  <2>. QED  BY <1>1, <2>3
<1>4. PICK j \in told_canceled' : t \in TasksOf(jobs')[j]
  BY <1>2, <1>3
<1>5. /\ told_canceled \subseteq DOMAIN jobs /\ told_canceled' \subseteq DOMAIN jobs'
      /\ \A k \in DOMAIN jobs : TasksOf(jobs')[k] = TasksOf(jobs)[k]
  BY DEF StepFacts, BasicInv, TypeOK, StateTypeOK, Grows, TasksOf
<1>6. j \notin told_canceled
  BY <1>1, <1>4, <1>5
<1>7. ASSUME NEW h, h = Handlers[ClientWaits(c)], j = h.job, h.pc = "cancel", h.job \in DOMAIN jobs, CancelDone(h)
      PROVE  FALSE
  <2>1. BeingCanceled[c] = ToCancel(h, TasksOf(jobs)) /\ h.job \in DOMAIN TasksOf(jobs)
    BY <1>7 DEF BeingCanceled, TasksOf
  <2>2. BeingCanceled[c] = TasksOf(jobs)[j]
    BY SMT, <1>7, <2>1 DEF ToCancel
  <2>. QED  BY <1>1, <1>4, <1>5, <1>7, <2>2
<1>8. j \in DOMAIN jobs' /\ non_finished_task_ids(jobs'[j]) = {}
  BY <1>6, <1>7 DEF NewlyTold
<1>9. t \in DOMAIN jobs'[j].tasks
  BY <1>4, <1>8 DEF TasksOf
<1>10. jobs'[j].tasks[t] \in JobTaskState
  BY <1>8, <1>9 DEF StepFacts, BasicInv, TypeOK, StateTypeOK, JobTypeOK, JobRecord
<1>11. jobs'[j].tasks[t] \in Terminal
  BY <1>8, <1>9, <1>10 DEF JobTaskState, non_finished_task_ids, InState
<1>. QED  BY <1>8, <1>9, <1>11 DEF InState

\* The tasks of the server's jobs: what a request of a client adds at tako is none
\* of them.
OldTasks == {t \in Nat : \E j \in DOMAIN jobs : t \in DOMAIN jobs[j].tasks}

\* The cancels are about tasks of jobs.
LEMMA CanceledOld ==
    ASSUME BasicInv
    PROVE  /\ \A j \in DOMAIN jobs : \A t \in DOMAIN jobs[j].tasks : t \in OldTasks
           /\ \A t \in KnownCanceled : t \in OldTasks
           /\ \A c \in Clients : \A t \in BeingCanceled[c] : t \in OldTasks
<1>1. \A j \in DOMAIN jobs : \A t \in DOMAIN jobs[j].tasks : t \in Nat
  BY DEF BasicInv, TypeOK, StateTypeOK, JobTypeOK
<1>2. \A j \in DOMAIN jobs : \A t \in DOMAIN jobs[j].tasks : t \in OldTasks
  BY <1>1 DEF OldTasks
<1>. QED  BY <1>2, CanceledTasks

\* A client's request goes on: what the queues hold stays true.
LEMMA ClientCancels ==
    ASSUME StepFacts, RpcInv, CancelInv, EndedReleased', NEW c \in Clients,
           Only(Handlers, Handlers', ClientWaits(c)), Handlers'[ClientWaits(c)].reply = {}, NewlyTold(c),
           \A i \in 1 .. Len(tako_responses) : tako_responses[i] # ClientWaits(c),
           UNCHANGED from_tako, \A t \in AtTako' : t \in AtTako \/ t \notin OldTasks
    PROVE  CancelsOK(from_tako, to_tako, tako_responses, AtTako', BeingCanceled', KnownCanceled')
<1>1. /\ QueueTypes(from_tako, to_tako, tako_responses)
      /\ Len(tako_responses) = InFlight(from_tako) + Len(to_tako)
  BY LifeTypes DEF StepFacts, RpcInv, QueuesOK
<1>2. PICK held, J, done : held = AtTako' /\ J = BeingCanceled' /\ done = KnownCanceled'
  OBVIOUS
<1>3. CancelsOK(from_tako, to_tako, tako_responses, AtTako, BeingCanceled, KnownCanceled)
  BY DEF CancelInv
<1>4. /\ \A t \in KnownCanceled : t \in OldTasks
      /\ \A d \in Clients : \A t \in BeingCanceled[d] : t \in OldTasks
  BY CanceledOld DEF StepFacts
<1>5. \A t \in done : \/ t \in KnownCanceled
                      \/ \E j \in DOMAIN jobs' : t \in InState(jobs'[j], Terminal)
  BY <1>2, KnownStep
<1>6. Released(KnownCanceled, from_tako, 0, AtTako)
  BY <1>3 DEF CancelsOK
<1>7. \A j \in DOMAIN jobs' : Released(InState(jobs'[j], Terminal), from_tako, 0, held)
  BY <1>2 DEF EndedReleased
<1>8. Released(done, from_tako, 0, held)
  BY <1>2, <1>4, <1>5, <1>6, <1>7 DEF Released
<1>9. ASSUME NEW i \in 1 .. Len(tako_responses), NEW d \in Clients, tako_responses[i] = ClientWaits(d)
      PROVE  J[d] = BeingCanceled[d] /\ \A t \in BeingCanceled[d] : t \in held => t \in AtTako
  <2>1. Handlers'[ClientWaits(d)] = Handlers[ClientWaits(d)]
    BY <1>9, HandlerTypes DEF Only
  <2>2. BeingCanceled'[d] = BeingCanceled[d]
    BY <2>1, SameCancels
  <2>. QED  BY <1>2, <1>4, <2>2
<1>10. CancelsOK(from_tako, to_tako, tako_responses, held, J, done)
  BY <1>1, <1>3, <1>8, <1>9, CancelsFrame
<1>. QED  BY <1>2, <1>10

\* ... and what it sends is what is needed.
LEMMA ClientSends ==
    ASSUME StepFacts, RpcInv, RpcInv', CancelInv, EndedReleased', NEW c \in Clients,
           Only(Handlers, Handlers', ClientWaits(c)), Handlers'[ClientWaits(c)].reply = {}, NewlyTold(c),
           UNCHANGED <<from_tako, tako_tasks>>,
           Handlers'[ClientWaits(c)].pc # "register",
           NEW msg \in ToTako, send_tako_message(msg, ClientWaits(c)),
           msg.type = "NewTasks" =>
               /\ \A t \in msg.tasks : t \notin OldTasks
               /\ BeingCanceled'[c] = {},
           msg.type = "CancelTasks" =>
               \A t \in BeingCanceled'[c] : t \in msg.tasks \/ \E j \in DOMAIN jobs' : t \in InState(jobs'[j], Terminal)
    PROVE  CancelInv'
<1>1. /\ QueueTypes(from_tako, to_tako, tako_responses)
      /\ Len(tako_responses) = InFlight(from_tako) + Len(to_tako)
  BY LifeTypes DEF StepFacts, RpcInv, QueuesOK
<1>2. to_tako' = Append(to_tako, msg) /\ tako_responses' = Append(tako_responses, ClientWaits(c))
  BY DEF send_tako_message
<1>3. PICK held, J, done : held = AtTako' /\ J = BeingCanceled' /\ done = KnownCanceled'
  OBVIOUS
<1>4. \A i \in 1 .. Len(tako_responses) : tako_responses[i] # ClientWaits(c)
  BY <1>2, NotWaiting, HandlerTypes DEF StepFacts
<1>5. \A t \in AtTako' : t \in AtTako \/ t \notin OldTasks
  <2>1. to_tako \in Seq(ToTako)
    BY <1>1 DEF QueueTypes
  <2>2. PICK to2 : to2 = to_tako'
    OBVIOUS
  <2>3. /\ msg.type # "NewTasks" => Coming(to2) = Coming(to_tako)
        /\ msg.type = "NewTasks" => Coming(to2) = Coming(to_tako) \cup msg.tasks
    BY <1>2, <2>1, <2>2, ComingAppend
  <2>4. AtTako' = DOMAIN tako_tasks \cup Coming(to2)
    BY <2>2 DEF AtTako
  <2>. QED  BY <2>3, <2>4 DEF AtTako
<1>6. CancelsOK(from_tako, to_tako, tako_responses, held, J, done)
  BY <1>3, <1>4, <1>5, ClientCancels
<1>7. ASSUME NEW d \in Clients, msg.type = "CancelTasks", ClientWaits(c) = ClientWaits(d), NEW t \in J[d], t \in held
      PROVE  t \in msg.tasks
  <2>1. d = c
    BY <1>7, HandlerTypes
  <2>2. ASSUME NEW j \in DOMAIN jobs', t \in InState(jobs'[j], Terminal)  PROVE FALSE
    BY <1>3, <1>7, <2>2 DEF EndedReleased, Released
  <2>. QED  BY <1>3, <1>7, <2>1, <2>2
<1>8. ASSUME NEW d \in Clients, msg.type = "NewTasks", NEW t \in J[d]
      PROVE  t \notin msg.tasks
  <2>1. CASE d = c
    BY <1>3, <1>8, <2>1
  <2>2. CASE d # c
    <3>1. Handlers'[ClientWaits(d)] = Handlers[ClientWaits(d)]
      BY <2>2, HandlerTypes DEF Only
    <3>2. t \in BeingCanceled[d]
      BY <1>3, <1>8, <3>1, SameCancels
    <3>3. t \in OldTasks
      BY <3>2, CanceledOld DEF StepFacts
    <3>. QED  BY <1>8, <3>3
  <2>. QED  BY <2>1, <2>2
<1>9. CancelsOK(from_tako, Append(to_tako, msg), Append(tako_responses, ClientWaits(c)), held, J, done)
  BY <1>1, <1>6, <1>7, <1>8, CancelsSend, HandlerTypes
<1>10. NoneRegisters'
  BY HandlerTypes DEF NoneRegisters, CancelInv, Only
<1>. QED  BY <1>2, <1>3, <1>9, <1>10 DEF CancelInv

\* A request is answered: nothing is sent.
LEMMA ClientAnswers ==
    ASSUME StepFacts, RpcInv, RpcInv', CancelInv, EndedReleased', NEW c \in Clients,
           Only(Handlers, Handlers', ClientWaits(c)), Quiet(Handlers'[ClientWaits(c)]), NewlyTold(c),
           UNCHANGED <<from_tako, tako_tasks, to_tako, tako_responses>>
    PROVE  CancelInv'
<1>1. /\ Handlers'[ClientWaits(c)].reply = {}
      /\ Handlers'[ClientWaits(c)].pc # "register"
      /\ ~ Waits(Handlers'[ClientWaits(c)])
  BY SMT DEF Quiet, Waits
<1>2. \A i \in 1 .. Len(tako_responses) : tako_responses[i] # ClientWaits(c)
  BY <1>1, NotWaiting, HandlerTypes DEF StepFacts
<1>3. AtTako' = AtTako
  BY DEF AtTako
<1>4. CancelsOK(from_tako, to_tako, tako_responses, AtTako', BeingCanceled', KnownCanceled')
  BY <1>1, <1>2, <1>3, ClientCancels
<1>5. NoneRegisters'
  BY <1>1, HandlerTypes DEF NoneRegisters, CancelInv, Only
<1>. QED  BY <1>4, <1>5 DEF CancelInv

\* handle_job_cancel goes on: the CancelTasks names every task of the job that has
\* not ended.
LEMMA CancelGoesOn ==
    ASSUME StepFacts, RpcInv, RpcInv', CancelInv, EndedReleased', NEW c \in Clients,
           Only(Handlers, Handlers', ClientWaits(c)), NewlyTold(c), CancelsNext(c, jobs'),
           UNCHANGED <<from_tako, tako_tasks>>
    PROVE  CancelInv'
<1>1. CASE Quiet(Handlers'[ClientWaits(c)]) /\ UNCHANGED rpcVars
  <2>1. UNCHANGED <<to_tako, tako_responses>>
    BY <1>1 DEF rpcVars
  <2>. QED  BY <1>1, <2>1, ClientAnswers
<1>2. ASSUME NEW j \in DOMAIN jobs', Handlers'[ClientWaits(c)] = Sent("cancel", j),
             send_tako_message(CancelTasks(non_finished_task_ids(jobs'[j])), ClientWaits(c))
      PROVE  CancelInv'
  <2>1. PICK msg : msg = CancelTasks(non_finished_task_ids(jobs'[j]))
    OBVIOUS
  <2>2. DOMAIN jobs'[j].tasks \subseteq Nat
    BY DEF StepFacts, BasicInv, TypeOK, StateTypeOK, JobTypeOK
  <2>3. msg \in ToTako /\ msg.type = "CancelTasks" /\ msg.tasks = non_finished_task_ids(jobs'[j])
    BY SMT, <2>1, <2>2 DEF CancelTasks, ToTako, non_finished_task_ids, InState
  <2>4. /\ Handlers'[ClientWaits(c)].reply = {} /\ Handlers'[ClientWaits(c)].pc = "cancel"
        /\ Handlers'[ClientWaits(c)].job = j
    BY SMT, <1>2 DEF Sent
  <2>5. PICK h, T : h = Handlers'[ClientWaits(c)] /\ T = TasksOf(jobs')
    OBVIOUS
  <2>6. BeingCanceled'[c] = ToCancel(h, T)
    BY <2>5 DEF BeingCanceled
  <2>7. j \in DOMAIN T /\ T[j] = DOMAIN jobs'[j].tasks
    BY <2>5 DEF TasksOf
  <2>8. BeingCanceled'[c] = DOMAIN jobs'[j].tasks
    BY SMT, <2>4, <2>5, <2>6, <2>7 DEF ToCancel
  <2>9. \A t \in DOMAIN jobs'[j].tasks : t \in msg.tasks \/ t \in InState(jobs'[j], Terminal)
    <3>. SUFFICES ASSUME NEW t \in DOMAIN jobs'[j].tasks
                  PROVE  t \in msg.tasks \/ t \in InState(jobs'[j], Terminal)
      OBVIOUS
    <3>1. jobs'[j].tasks[t] \in JobTaskState
      BY DEF StepFacts, BasicInv, TypeOK, StateTypeOK, JobTypeOK, JobRecord
    <3>. QED  BY <2>3, <3>1 DEF JobTaskState, non_finished_task_ids, InState
  <2>10. send_tako_message(msg, ClientWaits(c))
    BY <1>2, <2>1
  <2>11. \A t \in BeingCanceled'[c] : t \in msg.tasks \/ \E i \in DOMAIN jobs' : t \in InState(jobs'[i], Terminal)
    BY <2>8, <2>9
  <2>. QED  BY SMT, ClientSends, <2>3, <2>4, <2>10, <2>11
<1>. QED  BY <1>1, <1>2 DEF CancelsNext

\* handle_worker_stop goes on.
LEMMA StopGoesOn ==
    ASSUME StepFacts, RpcInv, RpcInv', CancelInv, EndedReleased', NEW c \in Clients,
           Only(Handlers, Handlers', ClientWaits(c)), NewlyTold(c), StopsNext(c),
           UNCHANGED <<from_tako, tako_tasks>>
    PROVE  CancelInv'
<1>1. CASE Quiet(Handlers'[ClientWaits(c)]) /\ UNCHANGED rpcVars
  <2>1. UNCHANGED <<to_tako, tako_responses>>
    BY <1>1 DEF rpcVars
  <2>. QED  BY <1>1, <2>1, ClientAnswers
<1>2. ASSUME NEW w \in Workers, Handlers'[ClientWaits(c)] = Sent("stop", 0),
             send_tako_message([type |-> "StopWorker", worker |-> w], ClientWaits(c))
      PROVE  CancelInv'
  <2>1. PICK msg : msg = [type |-> "StopWorker", worker |-> w]
    OBVIOUS
  <2>2. msg \in ToTako /\ msg.type = "StopWorker"
    BY SMT, <2>1 DEF ToTako
  <2>3. Handlers'[ClientWaits(c)].reply = {} /\ Handlers'[ClientWaits(c)].pc = "stop"
    BY SMT, <1>2 DEF Sent
  <2>4. send_tako_message(msg, ClientWaits(c))
    BY <1>2, <2>1
  <2>. QED  BY SMT, ClientSends, <2>2, <2>3, <2>4
<1>. QED  BY <1>1, <1>2 DEF StopsNext

\* handle_submit: the tasks of the new job are no other job's.
LEMMA CancelSubmits ==
    ASSUME StepFacts, RpcInv, RpcInv', CancelInv, EndedReleased', NEW c \in Clients,
           NEW spec, Submitted(c, spec), ~ spec.log
    PROVE  CancelInv'
<1>. DEFINE job == new(task_id_counter, spec)
            j == job_id_counter
<1>1. /\ jobs' = Insert(jobs, j, job)
      /\ send_tako_message(NewTasks(job), ClientWaits(c))
      /\ Handlers'[ClientWaits(c)] = Sent("newtasks", j)
      /\ Only(Handlers, Handlers', ClientWaits(c))
      /\ UNCHANGED <<told_canceled, from_tako, tako_tasks>>
  BY DEF Submitted, takoVars
<1>. HIDE DEF job, j
<1>2. j \in DOMAIN jobs' /\ jobs'[j] = job
  BY SMT, <1>1 DEF Insert
<1>3. j \notin DOMAIN jobs
  BY SMT DEF StepFacts, BasicInv, TypeOK, StateTypeOK, j
<1>4. PICK msg : msg = NewTasks(job)
  OBVIOUS
<1>5. msg \in ToTako /\ msg.type = "NewTasks" /\ msg.tasks = DOMAIN jobs'[j].tasks
  <2>1. DOMAIN jobs'[j].tasks \subseteq Nat
    BY <1>2 DEF StepFacts, BasicInv, TypeOK, StateTypeOK, JobTypeOK
  <2>. QED  BY SMT, <1>2, <1>4, <2>1 DEF NewTasks, ToTako
<1>6. ASSUME NEW t \in msg.tasks  PROVE t \notin OldTasks
  <2>1. SUFFICES ASSUME NEW i \in DOMAIN jobs, t \in DOMAIN jobs[i].tasks  PROVE FALSE
    BY DEF OldTasks
  <2>2. i \in DOMAIN jobs' /\ DOMAIN jobs'[i].tasks = DOMAIN jobs[i].tasks
    BY DEF StepFacts, Grows, TasksOf
  <2>3. \A k \in DOMAIN jobs' : t \in DOMAIN jobs'[k].tasks => get_job_by_tako_task_id(t)' = k
    BY DEF StepFacts, BasicInv
  <2>. QED  BY <1>2, <1>3, <1>5, <1>6, <2>1, <2>2, <2>3
<1>7. Handlers'[ClientWaits(c)].reply = {} /\ Handlers'[ClientWaits(c)].pc = "newtasks"
  BY SMT, <1>1 DEF Sent
<1>8. BeingCanceled'[c] = {}
  <2>1. PICK h, T : h = Handlers'[ClientWaits(c)] /\ T = TasksOf(jobs')
    OBVIOUS
  <2>2. BeingCanceled'[c] = ToCancel(h, T)
    BY <2>1 DEF BeingCanceled
  <2>. QED  BY SMT, <1>7, <2>1, <2>2 DEF ToCancel
<1>9. NewlyTold(c)
  BY <1>1 DEF NewlyTold
<1>10. send_tako_message(msg, ClientWaits(c))
  BY <1>1, <1>4
<1>. QED  BY ClientSends, <1>1, <1>5, <1>6, <1>7, <1>8, <1>9, <1>10

\* A step of a client.
LEMMA CancelClient ==
    ASSUME StepFacts, RpcInv, RpcInv', CancelInv, EndedReleased', \A spec \in JobSpecs : ~ spec.log,
           NEW c \in Clients, ClientStepOf(c)
    PROVE  CancelInv'
<1>1. ASSUME NEW spec, GoodSpec(spec), Submitted(c, spec)  PROVE CancelInv'
  <2>1. ~ spec.log
    BY <1>1 DEF GoodSpec
  <2>. QED  BY <1>1, <2>1, CancelSubmits
<1>2. ~ SendsTasks(c)
  BY DEF SendsTasks, CancelInv, NoneRegisters
<1>3. CASE Proceeds(c)
  <2>1. /\ Only(Handlers, Handlers', ClientWaits(c)) /\ ToldOf(jobs, told_canceled)
        /\ CancelsNext(c, jobs) \/ StopsNext(c)
        /\ jobs' = jobs /\ UNCHANGED <<from_tako, tako_tasks>>
    BY <1>3 DEF Proceeds, TasksStay
  <2>2. NewlyTold(c)
    BY <2>1 DEF NewlyTold, ToldOf
  <2>3. CASE CancelsNext(c, jobs)
    <3>1. CancelsNext(c, jobs')
      BY <2>1, <2>3
    <3>. QED  BY <2>1, <2>2, <3>1, CancelGoesOn
  <2>4. CASE StopsNext(c)
    BY <2>1, <2>2, <2>4, StopGoesOn
  <2>. QED  BY <2>1, <2>3, <2>4
<1>4. CASE MarksNext(c)
  <2>1. /\ Only(Handlers, Handlers', ClientWaits(c))
        /\ CancelsNext(c, jobs')
        /\ ToldOf(jobs', told_canceled \cup {Handlers[ClientWaits(c)].job})
        /\ Handlers[ClientWaits(c)].pc = "cancel" /\ Handlers[ClientWaits(c)].job \in DOMAIN jobs
        /\ CancelDone(Handlers[ClientWaits(c)])
        /\ UNCHANGED <<from_tako, tako_tasks>>
    BY <1>4 DEF MarksNext, Marks, CancelDone
  <2>2. NewlyTold(c)
    BY <2>1 DEF NewlyTold, ToldOf
  <2>. QED  BY <2>1, <2>2, CancelGoesOn
<1>. QED  BY <1>1, <1>2, <1>3, <1>4 DEF ClientStepOf

\* The cancels stay in order through every step.
LEMMA CancelStep ==
    ASSUME StepFacts, RpcInv, RpcInv', CancelInv, EndedReleased', \A spec \in JobSpecs : ~ spec.log,
           StepKind
    PROVE  CancelInv'
<1>1. CASE ReaderStep
  <2>1. ASSUME NEW who, Fails(who)  PROVE CancelInv'
    BY <2>1, CancelReports DEF Fails
  <2>2. ASSUME NEW who \in Waiting, NEW msg \in FromTako, Delivered(who, msg)  PROVE CancelInv'
    BY <2>2, CancelDelivers
  <2>. QED  BY <1>1, <2>1, <2>2, CancelReports DEF ReaderStep
<1>2. ASSUME NEW c \in Clients, ClientStepOf(c)  PROVE CancelInv'
  BY <1>2, CancelClient
<1>3. ASSUME NEW c \in Clients, Registers(c)  PROVE CancelInv'
  BY <1>3 DEF Registers, CancelInv, NoneRegisters
<1>4. ASSUME NEW t \in Nat, SpawnedSends(t)  PROVE CancelInv'
  BY <1>4, CancelSpawns
<1>5. ASSUME NEW t \in Nat, SpawnedEnds(t)  PROVE CancelInv'
  <2>1. UNCHANGED <<client, told_canceled, to_tako, tako_responses, from_tako, tako_tasks>>
    BY <1>5 DEF SpawnedEnds, Marks, TasksStay, rpcVars
  <2>. QED  BY <2>1, CancelStill
<1>6. CASE TakoRequest \/ TakoEvent
  BY <1>6, CancelTakoRequest, CancelTakoEvent
<1>7. CASE TasksStay /\ UNCHANGED <<client, callbacks, told_canceled, rpcVars, panicked>>
  <2>1. UNCHANGED <<client, told_canceled, to_tako, tako_responses, from_tako, tako_tasks>>
    BY <1>7 DEF TasksStay, rpcVars
  <2>. QED  BY <2>1, CancelStill
<1>8. CASE PanicStep
  <2>1. UNCHANGED <<client, told_canceled, to_tako, tako_responses, from_tako, tako_tasks>>
    BY <1>8 DEF PanicStep, Panic, rpcVars, handlerVars, takoVars
  <2>. QED  BY <2>1, CancelStill
<1>. QED  BY <1>1, <1>2, <1>3, <1>4, <1>5, <1>6, <1>7, <1>8 DEF StepKind

\* At the start nothing is canceled.
LEMMA CancelInit ==
    ASSUME Init
    PROVE  CancelInv
<1>1. /\ from_tako = <<>> /\ to_tako = <<>> /\ told_canceled = {} /\ DOMAIN client = Clients
      /\ \A c \in Clients : client[c].pc = "idle" /\ client[c].reply = {}
  BY SMT DEF Init, Idle
<1>2. \A c \in Clients : Handlers[ClientWaits(c)] = ClientHandler(client[c])
  BY HandlerTypes DEF Handlers
<1>3. \A c \in Clients : Handlers[ClientWaits(c)].pc = "idle" /\ Handlers[ClientWaits(c)].reply = {}
  <2>. SUFFICES ASSUME NEW c \in Clients
                PROVE  Handlers[ClientWaits(c)].pc = "idle" /\ Handlers[ClientWaits(c)].reply = {}
    OBVIOUS
  <2>1. PICK h, st : h = Handlers[ClientWaits(c)] /\ st = client[c]
    OBVIOUS
  <2>2. h = ClientHandler(st) /\ st.pc = "idle" /\ st.reply = {}
    BY <1>1, <1>2, <2>1
  <2>3. h.pc = "idle" /\ h.reply = {}
    BY SMT, <2>2 DEF ClientHandler
  <2>. QED  BY <2>1, <2>3
<1>4. \A t : t \notin KnownCanceled
  <2>1. \A c \in Clients : ~ CancelDone(Handlers[ClientWaits(c)])
    BY <1>3 DEF CancelDone
  <2>. QED  BY <1>1, <2>1, KnownMember DEF KnownCanceled
<1>5. NoneRegisters
  BY SMT, <1>3 DEF NoneRegisters
<1>6. Len(from_tako) = 0 /\ Len(to_tako) = 0
  BY SMT, <1>1
<1>7. \A i \in 1 .. 0 : FALSE
  BY SMT
<1>8. Released(KnownCanceled, from_tako, 0, AtTako)
  BY <1>4 DEF Released
<1>9. CancelsOK(from_tako, to_tako, tako_responses, AtTako, BeingCanceled, KnownCanceled)
  BY <1>6, <1>7, <1>8 DEF CancelsOK
<1>. QED  BY <1>5, <1>9 DEF CancelInv

\* A report of an end is about a task that tako held, and a task that tako no
\* longer holds is reported.
LEMMA EndsHeld ==
    ASSUME NEW msg, NEW v, NEW u, Advances(msg, v, u), NEW t \in Nat
    PROVE  /\ t \in Ended(msg) => v.task[t] \in Held
           /\ v.task[t] \in Held /\ u.task[t] \notin Held => t \in Ended(msg)
<1>1. CASE msg.type = "Running" /\ Moves(v, u, {msg.task}, Held, "running")
  BY <1>1 DEF Moves, Ended, Held
<1>2. CASE msg.type = "Waiting" /\ Moves(v, u, {msg.task}, {"running"}, "waiting")
  BY SMT, <1>2 DEF Moves, Ended, Held
<1>3. CASE msg.type \in {"Finished", "TaskFailed"} /\ Moves(v, u, {msg.task}, {"running"}, "gone")
  BY SMT, <1>3 DEF Moves, Ended, Held
<1>4. CASE msg.type = "CancelTasksResponse" /\ Moves(v, u, msg.tasks, Held, "canceling")
  BY SMT, <1>4 DEF Moves, Ended
<1>5. CASE msg.type = "LostWorker" /\ Moves(v, u, msg.tasks, {"running"}, "waiting")
  BY SMT, <1>5 DEF Moves, Ended, Held
<1>6. CASE msg.type \in {"NewWorker", "NewTasksResponse", "WorkerStopped", "Error"} /\ u.task = v.task
  BY SMT, <1>6 DEF Ended
<1>. QED  BY <1>1, <1>2, <1>3, <1>4, <1>5, <1>6 DEF Advances

\* The tasks on their way to tako.
LEMMA ComingNotYet ==
    ASSUME BasicInv
    PROVE  /\ \A t \in Nat : t \in Coming(to_tako) => t \in NotYet(to_tako, Handlers, TasksOf(jobs))
           /\ NoneRegisters => \A t \in NotYet(to_tako, Handlers, TasksOf(jobs)) : t \in Coming(to_tako)
<1>1. \A t : t \in Coming(to_tako) <=>
          \E i \in 1 .. Len(to_tako) : to_tako[i].type = "NewTasks" /\ t \in to_tako[i].tasks
  BY DEF Coming
<1>. QED  BY <1>1 DEF NotYet, NoneRegisters

\* The ends of tasks that the server has read are behind it.
LEMMA AgreementReleases ==
    ASSUME BasicInv, NEW V, Agreement(V)
    PROVE  EndedReleased
<1>. SUFFICES ASSUME NEW j \in DOMAIN jobs, NEW t \in InState(jobs[j], Terminal)
              PROVE  t \notin AtTako /\ \A i \in 0 + 1 .. Len(from_tako) : t \notin Ended(from_tako[i])
  BY DEF EndedReleased, Released
<1>1. t \in DOMAIN jobs[j].tasks /\ jobs[j].tasks[t] \in Terminal /\ t \in Nat
  BY DEF InState, BasicInv, TypeOK, StateTypeOK, JobTypeOK
<1>2. Len(from_tako) \in Nat
  BY SMT, LifeTypes DEF QueueTypes
<1>3. /\ Seen(V[0].task[t], V[0].on[t], jobs[j].tasks[t], jobs[j].worker[t])
      /\ \A k \in 1 .. Len(from_tako) : Advances(from_tako[k], V[k - 1], V[k])
      /\ \A k, l \in 0 .. Len(from_tako) : k <= l => Later(V[k], V[l])
      /\ TakoView(V[Len(from_tako)], tako_tasks, NotYet(to_tako, Handlers, TasksOf(jobs)))
  BY <1>1 DEF Agreement, Agrees, ServerTasks, Trace
<1>4. V[0].task[t] \notin Held
  BY SMT, <1>1, <1>3 DEF Seen, Terminal, Held
<1>5. ASSUME NEW k \in 0 .. Len(from_tako)  PROVE V[k].task[t] \notin Held
  <2>1. 0 \in 0 .. Len(from_tako) /\ 0 <= k
    BY SMT, <1>2
  <2>2. Later(V[0], V[k])
    BY <1>3, <2>1
  <2>. QED  BY <1>1, <1>4, <2>2 DEF Later
<1>6. ASSUME NEW i \in 1 .. Len(from_tako)  PROVE t \notin Ended(from_tako[i])
  <2>1. i - 1 \in 0 .. Len(from_tako)
    BY SMT, <1>2
  <2>. QED  BY <1>1, <1>3, <1>5, <2>1, EndsHeld
<1>7. V[Len(from_tako)].task[t] \notin Held
  <2>1. Len(from_tako) \in 0 .. Len(from_tako)
    BY SMT, <1>2
  <2>. QED  BY <1>5, <2>1
<1>8. t \notin DOMAIN tako_tasks /\ t \notin NotYet(to_tako, Handlers, TasksOf(jobs))
  BY <1>1, <1>3, <1>7 DEF TakoView, Held
<1>9. t \notin AtTako
  BY <1>1, <1>8, ComingNotYet DEF AtTako
<1>10. 0 + 1 .. Len(from_tako) = 1 .. Len(from_tako)
  BY SMT
<1>. QED  BY <1>6, <1>9, <1>10

\* A task that tako has released is not held in the server's view either.
LEMMA ReleasedNotHeld ==
    ASSUME BasicInv, NoneRegisters, NEW V, Agreement(V), NEW t \in Nat, t \notin AtTako,
           \A i \in 1 .. Len(from_tako) : t \notin Ended(from_tako[i])
    PROVE  V[0].task[t] \notin Held
<1>. DEFINE N == Len(from_tako)
            S == {k \in 0 .. N : V[k].task[t] \notin Held}
<1>1. N \in Nat
  BY SMT, LifeTypes DEF QueueTypes
<1>2. /\ \A k \in 1 .. N : Advances(from_tako[k], V[k - 1], V[k])
      /\ TakoView(V[N], tako_tasks, NotYet(to_tako, Handlers, TasksOf(jobs)))
  BY DEF Agreement, Agrees, Trace
<1>3. t \notin DOMAIN tako_tasks /\ t \notin NotYet(to_tako, Handlers, TasksOf(jobs))
  BY ComingNotYet DEF AtTako
<1>4. V[N].task[t] \notin Held
  BY <1>2, <1>3 DEF TakoView
<1>5. S \subseteq Nat /\ N \in S
  BY SMT, <1>1, <1>4
<1>6. PICK k \in S : \A l \in S : k <= l
  BY <1>5, FirstOfNaturals
<1>7. k \in 0 .. N /\ V[k].task[t] \notin Held
  BY <1>6
<1>8. CASE k = 0
  BY <1>7, <1>8
<1>9. CASE k # 0
  <2>1. k \in 1 .. N /\ k - 1 \in 0 .. N /\ ~ (k <= k - 1)
    BY SMT, <1>1, <1>7, <1>9
  <2>2. V[k - 1].task[t] \in Held
    BY <1>6, <2>1
  <2>3. t \in Ended(from_tako[k])
    BY <1>2, <1>7, <2>1, <2>2, EndsHeld
  <2>. QED  BY <2>1, <2>3
<1>. QED  BY <1>8, <1>9
----------------------------------------------------------------------------
(* What the actions do to the handlers.                                    *)

\* The reader takes a response: it finds a handler, one that asked for it.
LEMMA QueuesDeliver ==
    ASSUME NEW from, NEW to, NEW waiting, QueueTypes(from, to, waiting),
           NEW H, NEW T, QueuesOK(from, to, waiting, H, T),
           from # <<>>, Head(from).type \in Responses
    PROVE  /\ waiting # <<>> /\ Head(waiting) \in Waiting
           /\ Waits(H[Head(waiting)])
           /\ Answers(Head(from), H[Head(waiting)], T)
           /\ \A G : (\A other \in Waiting : other # Head(waiting) => G[other] = H[other])
                       => QueuesOK(Tail(from), to, Tail(waiting), G, T)
<1>. DEFINE from2 == Tail(from)
            wait2 == Tail(waiting)
<1>1. /\ Len(from) \in Nat \ {0} /\ Len(from2) = Len(from) - 1 /\ Head(from) = from[1]
      /\ \A i \in 1 .. Len(from2) : from2[i] = from[i + 1]
      /\ from2 \in Seq(FromTako)
  BY SMT DEF QueueTypes
<1>2. /\ InFlight(from) = InFlight(from2) + 1
      /\ \A k \in 0 .. Len(from) - 1 : RespCount(from, k + 1) = RespCount(from2, k) + 1
  BY RespTail DEF QueueTypes
<1>. HIDE DEF from2
<1>3. /\ Len(waiting) = InFlight(from) + Len(to)
      /\ InFlight(from) \in Nat /\ Len(to) \in Nat
      /\ \A i \in 1 .. Len(waiting) : Waits(H[waiting[i]])
      /\ \A i, k \in 1 .. Len(waiting) : waiting[i] = waiting[k] => i = k
  BY QueuePlaces DEF QueuesOK
<1>4. InFlight(from2) \in Nat
  BY SMT, <1>1, RespStep DEF InFlight
<1>5. Len(waiting) \in Nat \ {0}
  BY SMT, <1>2, <1>3, <1>4
<1>6. /\ waiting # <<>> /\ Head(waiting) = waiting[1] /\ Head(waiting) \in Waiting
      /\ Len(wait2) = Len(waiting) - 1
      /\ \A i \in 1 .. Len(wait2) : wait2[i] = waiting[i + 1] /\ wait2[i] \in Waiting
  BY SMT, <1>5 DEF QueueTypes
<1>. HIDE DEF wait2
<1>7. Waits(H[Head(waiting)])
  BY SMT, <1>3, <1>5, <1>6
<1>8. RespCount(from, 1) = 1
  <2>1. 0 \in 0 .. Len(from) - 1 /\ 0 \in Nat /\ 0 + 1 = 1
    BY SMT, <1>1
  <2>. QED  BY <1>2, <2>1, RespStep
<1>9. Answers(Head(from), H[Head(waiting)], T)
  <2>1. 1 \in 1 .. Len(from)
    BY SMT, <1>1
  <2>. QED  BY SMT, <1>1, <1>6, <1>8, <2>1 DEF QueuesOK
<1>10. ASSUME NEW G, \A other \in Waiting : other # Head(waiting) => G[other] = H[other]
       PROVE  QueuesOK(from2, to, wait2, G, T)
  <2>1. Len(wait2) = InFlight(from2) + Len(to)
    BY SMT, <1>2, <1>3, <1>4, <1>6
  <2>2. ASSUME NEW i \in 1 .. Len(wait2)
        PROVE  i + 1 \in 1 .. Len(waiting) /\ wait2[i] = waiting[i + 1] /\ G[wait2[i]] = H[waiting[i + 1]]
    <3>1. i + 1 \in 1 .. Len(waiting) /\ 1 \in 1 .. Len(waiting) /\ i + 1 # 1
      BY SMT, <1>5, <1>6
    <3>2. waiting[i + 1] # waiting[1]
      BY <1>3, <3>1
    <3>. QED  BY <1>6, <1>10, <3>1, <3>2
  <2>3. \A i \in 1 .. Len(wait2) : Waits(G[wait2[i]])
    BY <1>3, <2>2
  <2>4. ASSUME NEW i \in 1 .. Len(wait2), NEW k \in 1 .. Len(wait2), wait2[i] = wait2[k]
        PROVE  i = k
    <3>1. waiting[i + 1] = waiting[k + 1] /\ i + 1 \in 1 .. Len(waiting) /\ k + 1 \in 1 .. Len(waiting)
      BY <2>2, <2>4
    <3>2. i + 1 = k + 1
      BY <1>3, <3>1
    <3>. QED  BY SMT, <3>2
  <2>5. ASSUME NEW k \in 1 .. Len(from2), from2[k].type \in Responses
        PROVE  Answers(from2[k], G[wait2[RespCount(from2, k)]], T)
    <3>1. k + 1 \in 1 .. Len(from) /\ k \in 0 .. Len(from) - 1 /\ from2[k] = from[k + 1] /\ Len(from2) \in Nat
      BY SMT, <1>1
    <3>2. RespCount(from2, k) \in 1 .. InFlight(from2)
      BY <2>5, <3>1, RespPlace DEF InFlight
    <3>3. RespCount(from2, k) \in 1 .. Len(wait2)
      BY SMT, <1>3, <1>4, <2>1, <3>2
    <3>4. RespCount(from, k + 1) = RespCount(from2, k) + 1
      BY <1>2, <3>1
    <3>5. Answers(from[k + 1], H[waiting[RespCount(from, k + 1)]], T)
      BY <2>5, <3>1 DEF QueuesOK
    <3>. QED  BY <2>2, <3>1, <3>3, <3>4, <3>5
  <2>6. ASSUME NEW i \in 1 .. Len(to)
        PROVE  Asked(to[i], G[wait2[InFlight(from2) + i]], T)
    <3>1. InFlight(from2) + i \in 1 .. Len(wait2) /\ (InFlight(from2) + i) + 1 = InFlight(from) + i
      BY SMTT(30), <1>2, <1>3, <1>4, <2>1
    <3>2. Asked(to[i], H[waiting[InFlight(from) + i]], T)
      BY DEF QueuesOK
    <3>. QED  BY <2>2, <3>1, <3>2
  <2>. QED  BY <2>1, <2>3, <2>4, <2>5, <2>6 DEF QueuesOK
<1>. QED  BY <1>6, <1>7, <1>9, <1>10 DEF from2, wait2

\* One client's handler goes on.
LEMMA ClientGoesOn ==
    ASSUME NEW cl, NEW cl2, NEW cb, NEW c \in Clients,
           \A d \in Clients \ {c} : cl2[d] = cl[d]
    PROVE  Only(HandlersOf(cl, cb), HandlersOf(cl2, cb), ClientWaits(c))
<1>. SUFFICES ASSUME NEW other \in Waiting, other # ClientWaits(c)
              PROVE  HandlersOf(cl2, cb)[other] = HandlersOf(cl, cb)[other]
  BY DEF Only
<1>1. CASE \E d \in Clients : other = ClientWaits(d)
  <2>1. PICK d \in Clients : other = ClientWaits(d)
    BY <1>1
  <2>2. cl2[d] = cl[d]
    BY <2>1
  <2>. QED  BY SMT, <2>1, <2>2, HandlerTypes
<1>2. CASE \E t \in Nat : other = CallbackWaits(t)
  <2>1. PICK t \in Nat : other = CallbackWaits(t)
    BY <1>2
  <2>. QED  BY SMT, <2>1, HandlerTypes
<1>. QED  BY <1>1, <1>2, HandlerTypes

\* One spawned cancel appears, goes on or ends.
LEMMA CallbackGoesOn ==
    ASSUME NEW cl, NEW cb, NEW cb2, NEW t \in Nat,
           \A u \in Nat \ {t} : /\ u \in DOMAIN cb2 <=> u \in DOMAIN cb
                                /\ u \in DOMAIN cb => cb2[u] = cb[u]
    PROVE  Only(HandlersOf(cl, cb), HandlersOf(cl, cb2), CallbackWaits(t))
<1>. SUFFICES ASSUME NEW other \in Waiting, other # CallbackWaits(t)
              PROVE  HandlersOf(cl, cb2)[other] = HandlersOf(cl, cb)[other]
  BY DEF Only
<1>1. CASE \E d \in Clients : other = ClientWaits(d)
  <2>1. PICK d \in Clients : other = ClientWaits(d)
    BY <1>1
  <2>. QED  BY SMT, <2>1, HandlerTypes
<1>2. CASE \E u \in Nat : other = CallbackWaits(u)
  <2>1. PICK u \in Nat : other = CallbackWaits(u)
    BY <1>2
  <2>2. (u \in DOMAIN cb2 <=> u \in DOMAIN cb) /\ (u \in DOMAIN cb => cb2[u] = cb[u])
    BY <2>1
  <2>. QED  BY SMT, <2>1, <2>2, HandlerTypes
<1>. QED  BY <1>1, <1>2, HandlerTypes

\* The job of a task that is reported on.
LEMMA ReportedTask ==
    ASSUME BasicInv, NEW type \in {"Running", "Finished", "Waiting", "TaskFailed"}, Receive(type),
           get_job_by_tako_task_id(Head(from_tako).task) # NoJob
    PROVE  /\ Head(from_tako).task \in Nat
           /\ get_job_by_tako_task_id(Head(from_tako).task) \in DOMAIN jobs
           /\ Head(from_tako).task \in DOMAIN jobs[get_job_by_tako_task_id(Head(from_tako).task)].tasks
<1>1. from_tako \in Seq(FromTako) /\ from_tako # <<>> /\ Head(from_tako).type = type
  BY LifeTypes DEF QueueTypes, Receive
<1>2. Head(from_tako) \in FromTako
  BY SMT, <1>1
<1>3. Head(from_tako).task \in Nat
  BY <1>1, <1>2 DEF FromTako, Response
<1>. QED  BY <1>3 DEF BasicInv

\* Min of a set of naturals.
LEMMA MinIsLeast ==
    ASSUME NEW T, T \subseteq Nat, T # {}
    PROVE  Min(T) \in T /\ \A y \in T : Min(T) <= y
BY FirstOfNaturals DEF Min

\* The handler of a client goes on.
LEMMA ClientStep ==
    ASSUME NEW c \in Clients, UNCHANGED callbacks,
           \A d \in Clients \ {c} : client'[d] = client[d]
    PROVE  /\ ClientWaits(c) \in Waiting
           /\ Only(Handlers, Handlers', ClientWaits(c))
           /\ Handlers[ClientWaits(c)] = ClientHandler(client[c])
           /\ Handlers'[ClientWaits(c)] = ClientHandler(client'[c])
<1>1. Only(HandlersOf(client, callbacks), HandlersOf(client', callbacks), ClientWaits(c))
  BY ClientGoesOn
<1>2. Handlers = HandlersOf(client, callbacks) /\ Handlers' = HandlersOf(client', callbacks)
  BY DEF Handlers
<1>. QED  BY SMT, <1>1, <1>2, HandlerTypes

\* A spawned cancel goes on.
LEMMA CallbackStep ==
    ASSUME NEW t \in Nat, UNCHANGED client,
           \A u \in Nat \ {t} : /\ u \in DOMAIN callbacks' <=> u \in DOMAIN callbacks
                                /\ u \in DOMAIN callbacks => callbacks'[u] = callbacks[u]
    PROVE  /\ CallbackWaits(t) \in Waiting
           /\ Only(Handlers, Handlers', CallbackWaits(t))
           /\ Handlers[CallbackWaits(t)] =
                  IF t \in DOMAIN callbacks THEN CallbackHandler(callbacks[t]) ELSE NoHandler
           /\ Handlers'[CallbackWaits(t)] =
                  IF t \in DOMAIN callbacks' THEN CallbackHandler(callbacks'[t]) ELSE NoHandler
<1>1. Only(HandlersOf(client, callbacks), HandlersOf(client, callbacks'), CallbackWaits(t))
  BY CallbackGoesOn
<1>2. Handlers = HandlersOf(client, callbacks) /\ Handlers' = HandlersOf(client, callbacks')
  BY DEF Handlers
<1>. QED  BY SMTT(30), <1>1, <1>2, HandlerTypes

\* Only the client c changes its state.
LEMMA ClientUpdate ==
    ASSUME NEW c \in Clients, NEW st, client \in [Clients -> ClientState],
           client' = [client EXCEPT ![c] = st], UNCHANGED callbacks
    PROVE  /\ client'[c] = st
           /\ \A d \in Clients \ {c} : client'[d] = client[d]
           /\ Only(Handlers, Handlers', ClientWaits(c))
           /\ Handlers[ClientWaits(c)] = ClientHandler(client[c])
           /\ Handlers'[ClientWaits(c)] = ClientHandler(st)
<1>1. client'[c] = st /\ \A d \in Clients \ {c} : client'[d] = client[d]
  OBVIOUS
<1>. QED  BY <1>1, ClientStep

\* The answer to a client.
LEMMA AnswerEffect ==
    ASSUME BasicInv, NEW c \in Clients, Answer(c), UNCHANGED callbacks
    PROVE  /\ Only(Handlers, Handlers', ClientWaits(c))
           /\ Quiet(Handlers'[ClientWaits(c)])
<1>1. client \in [Clients -> ClientState]
  BY LifeTypes
<1>2. \E st : /\ client' = [client EXCEPT ![c] = st]
              /\ st.pc \in {"idle", "unsent"} /\ st.reply = {}
  BY SMT DEF Answer, Idle
<1>3. PICK st : /\ client' = [client EXCEPT ![c] = st]
                /\ st.pc \in {"idle", "unsent"} /\ st.reply = {}
  BY <1>2
<1>4. Only(Handlers, Handlers', ClientWaits(c)) /\ Handlers'[ClientWaits(c)] = ClientHandler(st)
  BY <1>1, <1>3, ClientUpdate
<1>. QED  BY SMT, <1>3, <1>4 DEF Quiet, ClientHandler

\* The loop of handle_job_cancel skips the jobs that have nothing to cancel, and
\* answers the client or suspends in a CancelTasks.
LEMMA CancelLoopEffect ==
    ASSUME BasicInv, NEW c \in Clients, NEW todo \in IdList, NEW js, NEW told,
           cancel_loop(c, todo, js, told), UNCHANGED callbacks
    PROVE  /\ Only(Handlers, Handlers', ClientWaits(c))
           /\ CancelsNext(c, js)
           /\ \A j \in told_canceled' : j \in told \/ (j \in DOMAIN js /\ non_finished_task_ids(js[j]) = {})
<1>. DEFINE pending == {i \in DOMAIN todo : /\ todo[i] \in DOMAIN js
                                            /\ non_finished_task_ids(js[todo[i]]) # {}}
            i == Min(pending)
            st == [pc |-> "cancel", job |-> todo[i], reply |-> {},
                   todo |-> SubSeq(todo, i + 1, Len(todo))]
<1>1. DOMAIN todo \subseteq Nat
  BY SMT DEF IdList
<1>2. \A j \in told_canceled' : j \in told \/ (j \in DOMAIN js /\ non_finished_task_ids(js[j]) = {})
  <2>1. told_canceled' = told \cup ({todo[k] : k \in {k \in DOMAIN todo : \A p \in pending : k < p}} \cap DOMAIN js)
    BY DEF cancel_loop
  <2>2. ASSUME NEW k \in DOMAIN todo, \A p \in pending : k < p, todo[k] \in DOMAIN js
        PROVE  non_finished_task_ids(js[todo[k]]) = {}
    <3>1. k \notin pending
      BY SMT, <1>1, <2>2
    <3>. QED  BY <2>2, <3>1
  <2>. HIDE DEF pending
  <2>. QED  BY <2>1, <2>2
<1>3. CASE pending = {}
  <2>1. Answer(c) /\ UNCHANGED rpcVars
    BY <1>3 DEF cancel_loop
  <2>. QED  BY <1>2, <2>1, AnswerEffect DEF CancelsNext
<1>4. CASE pending # {}
  <2>1. /\ send_tako_message(CancelTasks(non_finished_task_ids(js[todo[i]])), ClientWaits(c))
        /\ client' = [client EXCEPT ![c] = st]
    BY <1>4 DEF cancel_loop
  <2>2. i \in pending
    BY <1>1, <1>4, MinIsLeast
  <2>3. todo[i] \in DOMAIN js
    BY <2>2
  <2>4. ClientHandler(st) = Sent("cancel", todo[i])
    BY DEF ClientHandler, Sent
  <2>. HIDE DEF st, i, pending
  <2>5. Only(Handlers, Handlers', ClientWaits(c)) /\ Handlers'[ClientWaits(c)] = ClientHandler(st)
    BY <2>1, LifeTypes, ClientUpdate
  <2>. QED  BY <1>2, <2>1, <2>3, <2>4, <2>5 DEF CancelsNext
<1>. QED  BY <1>3, <1>4

\* The loop of handle_worker_stop skips the workers that are not connected, and
\* answers the client or suspends in a StopWorker.
LEMMA StopLoopEffect ==
    ASSUME BasicInv, NEW c \in Clients, NEW todo \in IdList, stop_loop(c, todo), UNCHANGED callbacks
    PROVE  Only(Handlers, Handlers', ClientWaits(c)) /\ StopsNext(c)
<1>. DEFINE pending == {i \in DOMAIN todo : todo[i] \in Online}
            i == Min(pending)
            st == [pc |-> "stop", job |-> 0, reply |-> {},
                   todo |-> SubSeq(todo, i + 1, Len(todo))]
<1>1. CASE pending = {}
  <2>1. Answer(c) /\ UNCHANGED rpcVars
    BY <1>1 DEF stop_loop
  <2>. QED  BY <2>1, AnswerEffect DEF StopsNext
<1>2. CASE pending # {}
  <2>1. /\ send_tako_message([type |-> "StopWorker", worker |-> todo[i]], ClientWaits(c))
        /\ client' = [client EXCEPT ![c] = st]
    BY <1>2 DEF stop_loop
  <2>2. DOMAIN todo \subseteq Nat
    BY SMT DEF IdList
  <2>3. i \in pending
    BY <1>2, <2>2, MinIsLeast
  <2>4. todo[i] \in Workers
    BY <2>3 DEF Online, BasicInv, TypeOK, WorkersTypeOK
  <2>5. ClientHandler(st) = Sent("stop", 0)
    BY DEF ClientHandler, Sent
  <2>. HIDE DEF st, i, pending
  <2>6. Only(Handlers, Handlers', ClientWaits(c)) /\ Handlers'[ClientWaits(c)] = ClientHandler(st)
    BY <2>1, LifeTypes, ClientUpdate
  <2>. QED  BY <2>1, <2>4, <2>5, <2>6 DEF StopsNext
<1>. QED  BY <1>1, <1>2

\* The responses that the handlers of clients and the spawned cancels get.
LEMMA RepliesFit ==
    ASSUME RpcInv, BasicInv
    PROVE  /\ \A c \in Clients : \A msg \in client[c].reply :
                 /\ client[c].pc = "newtasks" => msg.type = "NewTasksResponse"
                 /\ client[c].pc = "stop" => msg.type \in {"WorkerStopped", "Error"}
                 /\ client[c].pc = "cancel" => msg.type \in {"CancelTasksResponse", "Error"}
                 /\ client[c].reply = {msg}
           /\ \A c \in Clients : client[c].pc \in {"idle", "unsent"} => client[c].reply = {}
           /\ \A t \in DOMAIN callbacks : \A msg \in callbacks[t].reply :
                 /\ msg.type \in {"CancelTasksResponse", "Error"}
                 /\ callbacks[t].reply = {msg}
                 /\ callbacks[t].sent
<1>. DEFINE T == TasksOf(jobs)
<1>1. ASSUME NEW c \in Clients
      PROVE  HandlerOK(ClientHandler(client[c]), T)
  <2>1. ClientWaits(c) \in Waiting /\ Handlers[ClientWaits(c)] = ClientHandler(client[c])
    BY HandlerTypes DEF Handlers
  <2>. QED  BY <2>1 DEF RpcInv, HandlersOK
<1>2. ASSUME NEW t \in DOMAIN callbacks
      PROVE  HandlerOK(CallbackHandler(callbacks[t]), T)
  <2>0. t \in Nat
    BY LifeTypes
  <2>1. CallbackWaits(t) \in Waiting /\ Handlers[CallbackWaits(t)] = CallbackHandler(callbacks[t])
    BY <2>0, HandlerTypes DEF Handlers
  <2>. QED  BY <2>1 DEF RpcInv, HandlersOK
<1>3. ASSUME NEW c \in Clients, NEW msg \in client[c].reply
      PROVE  /\ client[c].pc = "newtasks" => msg.type = "NewTasksResponse"
             /\ client[c].pc = "stop" => msg.type \in {"WorkerStopped", "Error"}
             /\ client[c].pc = "cancel" => msg.type \in {"CancelTasksResponse", "Error"}
             /\ client[c].reply = {msg}
             /\ client[c].pc \notin {"idle", "unsent"}
  BY <1>1 DEF HandlerOK, ClientHandler, Answers
<1>4. ASSUME NEW t \in DOMAIN callbacks, NEW msg \in callbacks[t].reply
      PROVE  /\ msg.type \in {"CancelTasksResponse", "Error"}
             /\ callbacks[t].reply = {msg}
             /\ callbacks[t].sent
  BY <1>2 DEF HandlerOK, CallbackHandler, Answers
<1>5. ASSUME NEW c \in Clients, client[c].pc \in {"idle", "unsent"}  PROVE  client[c].reply = {}
  BY <1>3, <1>5
<1>. QED  BY <1>3, <1>4, <1>5

\* A client without a request waits for nothing.
LEMMA IdleQuiet ==
    ASSUME RpcInv, BasicInv, NEW c \in Clients, client[c].pc \in {"idle", "unsent"}
    PROVE  Quiet(Handlers[ClientWaits(c)])
<1>1. client[c].reply = {}
  BY RepliesFit
<1>2. Handlers[ClientWaits(c)] = ClientHandler(client[c])
  BY HandlerTypes DEF Handlers
<1>. QED  BY SMT, <1>1, <1>2 DEF Quiet, ClientHandler

\* handle_submit panics in add_job, or adds the job and suspends.
LEMMA SubmitEffect ==
    ASSUME BasicInv, RpcInv, NEW c \in Clients, NEW spec, handle_submit(c, spec)
    PROVE  Panic \/ Submitted(c, spec)
<1>. SUFFICES ASSUME ~ Panic  PROVE  Submitted(c, spec)
  OBVIOUS
<1>. DEFINE reg == [Idle EXCEPT !.pc = "register", !.job = job_id_counter]
            new_ == [Idle EXCEPT !.pc = "newtasks", !.job = job_id_counter]
<1>0. new(task_id_counter, spec).base = task_id_counter
  BY DEF new
<1>1. /\ job_id_counter' = job_id_counter + 1
      /\ task_id_counter' = task_id_counter + spec.id_count
      /\ base_task_id_to_job_id' =
              Insert(base_task_id_to_job_id, task_id_counter, job_id_counter)
      /\ jobs' = Insert(jobs, job_id_counter, new(task_id_counter, spec))
      /\ UNCHANGED <<workers, told_canceled, callbacks, from_tako, takoVars,
                     registrations, processVars>>
      /\ client[c].pc = "idle"
  BY <1>0 DEF handle_submit
<1>2. IF spec.log
      THEN /\ control' = Append(control, [type |-> "RegisterStream",
                                          job |-> job_id_counter, client |-> c])
           /\ client' = [client EXCEPT ![c] = reg]
           /\ UNCHANGED rpcVars
      ELSE /\ send_tako_message(NewTasks(new(task_id_counter, spec)), ClientWaits(c))
           /\ client' = [client EXCEPT ![c] = new_]
           /\ UNCHANGED control
  BY DEF handle_submit
<1>3. Quiet(Handlers[ClientWaits(c)])
  BY <1>1, IdleQuiet
<1>4. /\ ClientHandler(reg) = Sent("register", job_id_counter)
      /\ ClientHandler(new_) = Sent("newtasks", job_id_counter)
  BY DEF ClientHandler, Sent, Idle
<1>. HIDE DEF reg, new_
<1>5. /\ Only(Handlers, Handlers', ClientWaits(c))
      /\ Handlers'[ClientWaits(c)] = ClientHandler(IF spec.log THEN reg ELSE new_)
  BY <1>1, <1>2, LifeTypes, ClientUpdate
<1>. QED  BY <1>1, <1>2, <1>3, <1>4, <1>5 DEF Submitted

\* handle_submit goes on when its stream is registered: it sends the tasks.
LEMMA RegisteredEffect ==
    ASSUME BasicInv, NEW c \in Clients, submit_registered(c)
    PROVE  SendsTasks(c)
<1>. DEFINE st == [client[c] EXCEPT !.pc = "newtasks", !.reply = {}]
<1>1. /\ client[c].pc = "register" /\ client[c].reply # {}
      /\ send_tako_message(NewTasks(jobs[client[c].job]), ClientWaits(c))
      /\ UNCHANGED callbacks
  BY DEF submit_registered
<1>2. client \in [Clients -> ClientState] /\ client[c] \in ClientState
  BY LifeTypes
<1>3. client' = [client EXCEPT ![c] = st]
  BY <1>2 DEF submit_registered, ClientState
<1>4. ClientHandler(st) = Sent("newtasks", client[c].job)
  BY <1>2 DEF ClientHandler, Sent, ClientState
<1>. HIDE DEF st
<1>5. /\ Only(Handlers, Handlers', ClientWaits(c))
      /\ Handlers[ClientWaits(c)] = ClientHandler(client[c])
      /\ Handlers'[ClientWaits(c)] = ClientHandler(st)
  BY <1>1, <1>2, <1>3, ClientUpdate
<1>6. /\ Handlers[ClientWaits(c)].pc = client[c].pc /\ Handlers[ClientWaits(c)].job = client[c].job
      /\ Handlers[ClientWaits(c)].reply = client[c].reply
  BY SMT, <1>5 DEF ClientHandler
<1>. QED  BY <1>1, <1>4, <1>5, <1>6 DEF SendsTasks

\* What process_task_failed does when it does not panic.
LEMMA FailedEffect ==
    ASSUME BasicInv, process_task_failed
    PROVE  Panic \/ \E t \in Nat, job_id \in DOMAIN jobs : Spawned(t, job_id)
<1>. DEFINE t == Head(from_tako).task
            job_id == get_job_by_tako_task_id(t)
<1>1. CASE job_id = NoJob \/ ~ can_end(jobs[job_id], t)
  BY <1>1 DEF process_task_failed
<1>2. CASE ~ (job_id = NoJob \/ ~ can_end(jobs[job_id], t))
  <2>1. /\ Receive("TaskFailed") /\ Received
        /\ jobs' = [jobs EXCEPT ![job_id] = set_failed_state(jobs[job_id], t)]
        /\ UnregisterStream(job_id, jobs'[job_id])
        /\ cancel_tasks_from_callback(t, job_id, jobs'[job_id])
        /\ UNCHANGED <<base_task_id_to_job_id, job_id_counter, task_id_counter,
                       workers, client, told_canceled, rpcVars, takoVars,
                       registrations, processVars>>
    BY <1>2 DEF process_task_failed
  <2>2. t \in Nat /\ job_id \in DOMAIN jobs /\ t \in DOMAIN jobs[job_id].tasks
    BY <1>2, <2>1, ReportedTask
  <2>3. job_id \in Nat
    BY <2>2 DEF BasicInv, TypeOK, StateTypeOK
  <2>4. jobs[job_id].tasks[t] = "Running"
    BY <1>2 DEF can_end
  <2>5. t = Head(from_tako).task
    OBVIOUS
  <2>. HIDE DEF t, job_id
  <2>6. Spawned(t, job_id)
    BY <2>1, <2>2, <2>3, <2>4, <2>5 DEF Spawned, Received, cancel_tasks_from_callback, rpcVars
  <2>. QED  BY <2>2, <2>6
<1>. QED  BY <1>1, <1>2

\* What deliver_response does: there always is a handler that waits.
LEMMA DeliverEffect ==
    ASSUME BasicInv, RpcInv, deliver_response
    PROVE  /\ \E who \in Waiting, msg \in FromTako : Delivered(who, msg)
           /\ \A t \in DOMAIN callbacks' : t \in DOMAIN callbacks /\ callbacks'[t].job = callbacks[t].job
<1>. DEFINE msg == Head(from_tako)
            who == Head(tako_responses)
<1>1. from_tako # <<>> /\ msg.type \in Responses
  BY DEF deliver_response, Receive
<1>2. QueueTypes(from_tako, to_tako, tako_responses)
  BY LifeTypes
<1>3. /\ tako_responses # <<>> /\ who \in Waiting
      /\ Waits(Handlers[who])
      /\ Answers(msg, Handlers[who], TasksOf(jobs))
  BY <1>1, <1>2, QueuesDeliver DEF RpcInv
<1>4. /\ from_tako' = Tail(from_tako) /\ tako_responses' = Tail(tako_responses)
      /\ IF who.kind = "client"
         THEN /\ client' = [client EXCEPT ![who.client].reply = {msg}]
              /\ UNCHANGED callbacks
         ELSE /\ callbacks' = [callbacks EXCEPT ![who.task].reply = {msg}]
              /\ UNCHANGED client
      /\ UNCHANGED <<stateVars, workers, told_canceled, to_tako, takoVars, streamVars, processVars>>
  BY <1>3 DEF deliver_response, Received
<1>5. msg \in FromTako
  BY SMT, <1>1, <1>2 DEF QueueTypes
<1>6. who = Head(tako_responses) /\ msg = Head(from_tako)
  OBVIOUS
<1>. HIDE DEF msg, who
<1>7. /\ Only(Handlers, Handlers', who) /\ Handlers'[who] = Replied(Handlers[who], msg)
      /\ \A t \in DOMAIN callbacks' : t \in DOMAIN callbacks /\ callbacks'[t].job = callbacks[t].job
  <2>1. CASE \E c \in Clients : who = ClientWaits(c)
    <3>1. PICK c \in Clients : who = ClientWaits(c)
      BY <2>1
    <3>2. who.kind = "client" /\ who.client = c
      BY <3>1 DEF ClientWaits
    <3>. DEFINE st == [client[c] EXCEPT !.reply = {msg}]
    <3>3. client \in [Clients -> ClientState] /\ client[c] \in ClientState
      BY LifeTypes
    <3>4. client' = [client EXCEPT ![c] = st] /\ UNCHANGED callbacks
      BY <1>4, <3>2, <3>3
    <3>5. ClientHandler(st) = Replied(ClientHandler(client[c]), msg)
      BY <3>3 DEF ClientHandler, Replied, ClientState
    <3>. HIDE DEF st
    <3>6. /\ Only(Handlers, Handlers', who)
          /\ Handlers[who] = ClientHandler(client[c]) /\ Handlers'[who] = ClientHandler(st)
      BY <3>1, <3>3, <3>4, ClientUpdate
    <3>. QED  BY <3>4, <3>5, <3>6
  <2>2. CASE \E t \in Nat : who = CallbackWaits(t)
    <3>1. PICK t \in Nat : who = CallbackWaits(t)
      BY <2>2
    <3>2. who.kind # "client" /\ who.task = t
      BY <3>1 DEF CallbackWaits
    <3>. DEFINE cb == [callbacks[t] EXCEPT !.reply = {msg}]
    <3>3. t \in DOMAIN callbacks
      <4>1. t \notin DOMAIN callbacks => Handlers[who] = NoHandler
        BY SMT, <3>1, HandlerTypes DEF Handlers
      <4>. QED  BY SMT, <1>3, <4>1 DEF Waits, NoHandler
    <3>4. callbacks \in [DOMAIN callbacks -> CallbackState] /\ callbacks[t] \in CallbackState
      BY <3>3, LifeTypes
    <3>5. callbacks' = [callbacks EXCEPT ![t] = cb] /\ UNCHANGED client
      BY <1>4, <3>2, <3>3, <3>4
    <3>6. CallbackHandler(cb) = Replied(CallbackHandler(callbacks[t]), msg) /\ cb.job = callbacks[t].job
      BY <3>4 DEF CallbackHandler, Replied, CallbackState
    <3>. HIDE DEF cb
    <3>7. /\ DOMAIN callbacks' = DOMAIN callbacks /\ callbacks'[t] = cb
          /\ \A u \in DOMAIN callbacks : u # t => callbacks'[u] = callbacks[u]
      BY <3>3, <3>4, <3>5
    <3>8. /\ Only(Handlers, Handlers', who)
          /\ Handlers[who] = CallbackHandler(callbacks[t]) /\ Handlers'[who] = CallbackHandler(cb)
      BY <3>1, <3>3, <3>5, <3>7, CallbackStep
    <3>. QED  BY <3>6, <3>7, <3>8
  <2>. QED  BY <1>3, <2>1, <2>2, HandlerTypes
<1>. QED  BY <1>1, <1>3, <1>4, <1>5, <1>6, <1>7 DEF Delivered
----------------------------------------------------------------------------
(* Every step is of one of the kinds of StepKind.                          *)

\* A handler without a response to a cancel holds no canceled task.
LEMMA NoHand ==
    ASSUME NEW h, \A msg \in h.reply : msg.type # "CancelTasksResponse"
    PROVE  Hand(h) = {}
  BY DEF Hand

\* A handler holds what tako's response says.
LEMMA HandOfReply ==
    ASSUME BasicInv, RpcInv, NEW who \in Waiting, NEW msg, Handlers[who].reply = {msg},
           Handlers[who].pc = "cancel", msg.type = "CancelTasksResponse"
    PROVE  /\ Hand(Handlers[who]) = msg.tasks
           /\ Handlers[who].job \in DOMAIN jobs
           /\ Hand(Handlers[who]) \subseteq DOMAIN jobs[Handlers[who].job].tasks
<1>1. HandlerOK(Handlers[who], TasksOf(jobs))
  BY DEF RpcInv, HandlersOK
<1>2. Answers(msg, Handlers[who], TasksOf(jobs)) /\ Handlers[who].job \in DOMAIN TasksOf(jobs)
  BY <1>1 DEF HandlerOK
<1>3. Handlers[who].job \in DOMAIN jobs
      /\ TasksOf(jobs)[Handlers[who].job] = DOMAIN jobs[Handlers[who].job].tasks
  BY <1>2 DEF TasksOf
<1>4. msg.tasks \subseteq DOMAIN jobs[Handlers[who].job].tasks
  BY <1>2, <1>3 DEF Answers
<1>5. DOMAIN jobs[Handlers[who].job].tasks \subseteq Nat
  BY <1>3 DEF BasicInv, TypeOK, StateTypeOK, JobTypeOK
<1>. QED  BY <1>3, <1>4, <1>5 DEF Hand

\* A client whose answer cannot be sent is marked.
LEMMA AnswerExcused ==
    ASSUME BasicInv, NEW c \in Clients, Answer(c)
    PROVE  Excused
<1>1. client \in [Clients -> ClientState]
  BY LifeTypes
<1>2. CASE UNCHANGED panicked
  BY <1>2 DEF Excused
<1>3. CASE client' = [client EXCEPT ![c] = [Idle EXCEPT !.pc = "unsent"]]
  <2>1. client'[c].pc = "unsent"
    BY <1>1, <1>3 DEF Idle
  <2>. QED  BY <2>1 DEF Excused
<1>. QED  BY <1>2, <1>3 DEF Answer

\* So are the loops over jobs and over workers.
LEMMA LoopsExcused ==
    ASSUME BasicInv, NEW c \in Clients, NEW todo, NEW js, NEW told,
           cancel_loop(c, todo, js, told) \/ stop_loop(c, todo)
    PROVE  Excused
<1>1. Answer(c) \/ UNCHANGED panicked
  BY DEF cancel_loop, stop_loop
<1>. QED  BY <1>1, AnswerExcused DEF Excused

\* submit_finished and connection_ended answer the client.
LEMMA AnswerKind ==
    ASSUME BasicInv, RpcInv, NEW c \in Clients, submit_finished(c) \/ connection_ended(c)
    PROVE  Proceeds(c)
<1>. DEFINE who == ClientWaits(c)
<1>1. /\ Answer(c) /\ client[c].pc \in {"newtasks", "idle"}
      /\ UNCHANGED <<told_canceled, callbacks, control, registrations, rpcVars>>
      /\ TasksStay
  <2>1. CASE submit_finished(c)
    <3>1. /\ Answer(c) /\ client[c].pc = "newtasks"
          /\ UNCHANGED <<stateVars, workers, told_canceled, callbacks, rpcVars,
                         from_tako, takoVars, streamVars, broken>>
      BY <2>1, RepliesFit DEF submit_finished
    <3>. QED  BY <3>1 DEF TasksStay, stateVars, takoVars, streamVars
  <2>2. CASE connection_ended(c)
    BY <2>2 DEF connection_ended, TasksStay, stateVars, takoVars, streamVars
  <2>. QED  BY <2>1, <2>2
<1>2. Handlers[who] = ClientHandler(client[c])
  BY HandlerTypes DEF Handlers
<1>3. Handlers[who].pc = client[c].pc /\ Handlers[who].reply = client[c].reply
  BY SMT, <1>2 DEF ClientHandler
<1>4. \A msg \in client[c].reply : msg.type # "CancelTasksResponse"
  BY <1>1, RepliesFit
<1>5. Hand(Handlers[who]) = {}
  BY <1>3, <1>4, NoHand
<1>6. Only(Handlers, Handlers', who) /\ Quiet(Handlers'[who])
  BY <1>1, AnswerEffect
<1>7. Excused
  BY <1>1, AnswerExcused
<1>8. ToldOf(jobs, told_canceled) /\ CancelsNext(c, jobs) /\ Handlers[who].pc # "register"
  BY <1>1, <1>3, <1>6 DEF ToldOf, CancelsNext
<1>. QED  BY <1>1, <1>5, <1>6, <1>7, <1>8 DEF Proceeds

\* handle_worker_stop stops the next worker or answers.
LEMMA StopKind ==
    ASSUME BasicInv, RpcInv, NEW c \in Clients, NEW todo \in IdList,
           \/ handle_worker_stop(c, todo)
           \/ stop_answered(c) /\ todo = client[c].todo
    PROVE  Proceeds(c)
<1>. DEFINE who == ClientWaits(c)
<1>1. /\ stop_loop(c, todo) /\ client[c].pc \in {"stop", "idle"}
      /\ UNCHANGED <<told_canceled, callbacks, control, registrations>>
      /\ TasksStay
  <2>1. CASE stop_answered(c) /\ todo = client[c].todo
    <3>1. /\ stop_loop(c, todo) /\ client[c].pc = "stop"
          /\ UNCHANGED <<stateVars, workers, told_canceled, callbacks,
                         from_tako, takoVars, streamVars, broken>>
      BY <2>1, RepliesFit DEF stop_answered
    <3>. QED  BY <3>1 DEF TasksStay, stateVars, takoVars, streamVars
  <2>2. CASE handle_worker_stop(c, todo)
    BY <2>2 DEF handle_worker_stop, TasksStay, stateVars, takoVars, streamVars
  <2>. QED  BY <2>1, <2>2
<1>2. Handlers[who] = ClientHandler(client[c])
  BY HandlerTypes DEF Handlers
<1>3. Handlers[who].pc = client[c].pc /\ Handlers[who].reply = client[c].reply
  BY SMT, <1>2 DEF ClientHandler
<1>4. \A msg \in client[c].reply : msg.type # "CancelTasksResponse"
  BY <1>1, RepliesFit
<1>5. Hand(Handlers[who]) = {}
  BY <1>3, <1>4, NoHand
<1>6. Only(Handlers, Handlers', who) /\ StopsNext(c)
  BY <1>1, StopLoopEffect
<1>7. Excused
  BY <1>1, LoopsExcused
<1>8. ToldOf(jobs, told_canceled) /\ Handlers[who].pc # "register"
  BY <1>1, <1>3 DEF ToldOf
<1>. QED  BY <1>1, <1>5, <1>6, <1>7, <1>8 DEF Proceeds

\* handle_job_cancel starts its loop, or goes on after an error.
LEMMA CancelKind ==
    ASSUME BasicInv, RpcInv, NEW c \in Clients, NEW todo \in IdList,
           client[c].pc \in {"idle", "cancel"},
           \A msg \in client[c].reply : msg.type # "CancelTasksResponse",
           cancel_loop(c, todo, jobs, told_canceled),
           UNCHANGED <<stateVars, workers, callbacks, from_tako, takoVars, streamVars, broken>>
    PROVE  Proceeds(c)
<1>. DEFINE who == ClientWaits(c)
<1>1. TasksStay /\ UNCHANGED <<callbacks, control, registrations>>
  BY DEF TasksStay, stateVars, takoVars, streamVars
<1>2. Handlers[who] = ClientHandler(client[c])
  BY HandlerTypes DEF Handlers
<1>3. Handlers[who].pc = client[c].pc /\ Handlers[who].reply = client[c].reply
  BY SMT, <1>2 DEF ClientHandler
<1>5. Hand(Handlers[who]) = {} /\ Handlers[who].pc # "register"
  BY <1>3, NoHand
<1>6. Only(Handlers, Handlers', who) /\ CancelsNext(c, jobs) /\ ToldOf(jobs, told_canceled)
  BY <1>1, CancelLoopEffect DEF ToldOf
<1>7. Excused
  BY LoopsExcused
<1>. QED  BY <1>1, <1>5, <1>6, <1>7 DEF Proceeds

\* handle_job_cancel marks what tako canceled and goes on.
LEMMA CancelAnsweredKind ==
    ASSUME BasicInv, RpcInv, NEW c \in Clients, cancel_answered(c)
    PROVE  Proceeds(c) \/ MarksNext(c) \/ PanicStep
<1>. DEFINE who == ClientWaits(c)
<1>1. PICK msg \in client[c].reply :
        /\ client[c].pc = "cancel"
        /\ CASE /\ msg.type = "CancelTasksResponse"
                /\ can_cancel(jobs[client[c].job], msg.tasks) ->
                    /\ apply_cancel(client[c].job, msg.tasks)
                    /\ cancel_loop(c, client[c].todo, jobs', told_canceled \cup {client[c].job})
                    /\ UNCHANGED <<workers, callbacks, from_tako, takoVars,
                                   registrations, broken>>
             [] msg.type = "Error" ->
                    /\ cancel_loop(c, client[c].todo, jobs, told_canceled)
                    /\ UNCHANGED <<stateVars, workers, callbacks, from_tako,
                                   takoVars, streamVars, broken>>
             [] OTHER -> Panic
  BY DEF cancel_answered
<1>2. client[c].reply = {msg} /\ msg.type \in {"CancelTasksResponse", "Error"}
  BY <1>1, RepliesFit
<1>3. client[c].todo \in IdList
  BY LifeTypes DEF ClientState, IdList
<1>4. who \in Waiting /\ Handlers[who] = ClientHandler(client[c])
  BY HandlerTypes DEF Handlers
<1>5. /\ Handlers[who].pc = client[c].pc /\ Handlers[who].reply = client[c].reply
      /\ Handlers[who].job = client[c].job
  BY SMTT(30), <1>4 DEF ClientHandler
<1>6. CASE msg.type = "Error"
  <2>1. /\ cancel_loop(c, client[c].todo, jobs, told_canceled)
        /\ UNCHANGED <<stateVars, workers, callbacks, from_tako, takoVars, streamVars, broken>>
    BY <1>1, <1>6
  <2>2. \A m \in client[c].reply : m.type # "CancelTasksResponse"
    BY <1>2, <1>6
  <2>. QED  BY <1>1, <1>3, <2>1, <2>2, CancelKind
<1>7. CASE msg.type = "CancelTasksResponse"
  <2>1. /\ Hand(Handlers[who]) = msg.tasks
        /\ Handlers[who].job \in DOMAIN jobs
        /\ Hand(Handlers[who]) \subseteq DOMAIN jobs[Handlers[who].job].tasks
    BY <1>1, <1>2, <1>4, <1>5, <1>7, HandOfReply
  <2>2. CASE can_cancel(jobs[client[c].job], msg.tasks)
    <3>1. /\ apply_cancel(client[c].job, msg.tasks)
          /\ cancel_loop(c, client[c].todo, jobs', told_canceled \cup {client[c].job})
          /\ UNCHANGED <<workers, callbacks, from_tako, takoVars, registrations, broken>>
      BY <1>1, <1>7, <2>2
    <3>2. /\ Only(Handlers, Handlers', who) /\ CancelsNext(c, jobs')
          /\ ToldOf(jobs', told_canceled \cup {client[c].job})
      BY <1>3, <3>1, CancelLoopEffect DEF ToldOf
    <3>3. Excused
      BY <3>1, LoopsExcused
    <3>4. Marks(who)
      BY <1>1, <1>2, <1>4, <1>5, <1>7, <2>1, <2>2, <3>1, <3>2, <3>3 DEF Marks, takoVars
    <3>. QED  BY <1>5, <3>1, <3>2, <3>4 DEF MarksNext
  <2>3. CASE ~ can_cancel(jobs[client[c].job], msg.tasks)
    <3>1. Panic
      BY <1>1, <1>7, <2>3
    <3>. QED  BY <1>4, <1>5, <2>1, <2>3, <3>1 DEF PanicStep, BadCancel
  <2>. QED  BY <2>2, <2>3
<1>. QED  BY <1>2, <1>6, <1>7

\* A submit adds a job or panics over a base id that is taken.
LEMMA SubmitKind ==
    ASSUME BasicInv, RpcInv, NEW c \in Clients, NEW spec, handle_submit(c, spec)
    PROVE  Submitted(c, spec) \/ PanicStep
<1>1. CASE ~ Panic
  BY <1>1, SubmitEffect
<1>2. CASE Panic
  <2>1. job_id_counter \notin DOMAIN jobs
    BY SMT DEF BasicInv, TypeOK, StateTypeOK
  <2>2. new(task_id_counter, spec).base = task_id_counter
    BY DEF new
  <2>3. \/ task_id_counter \in DOMAIN base_task_id_to_job_id
        \/ job_id_counter' = job_id_counter + 1
    BY <2>1, <2>2 DEF handle_submit
  <2>4. job_id_counter' = job_id_counter /\ job_id_counter \in Nat
    BY <1>2 DEF Panic, stateVars, BasicInv, TypeOK, StateTypeOK
  <2>5. task_id_counter \in DOMAIN base_task_id_to_job_id
    BY SMT, <2>3, <2>4
  <2>. QED  BY <1>2, <2>5 DEF PanicStep, Clash
<1>. QED  BY <1>1, <1>2

\* What handle_resubmit submits.
LEMMA ResubmitGood ==
    ASSUME BasicInv, NEW c \in Clients, NEW j \in DOMAIN jobs, NEW filter,
           handle_resubmit(c, j, filter)
    PROVE  \E spec : GoodSpec(spec) /\ handle_submit(c, spec)
<1>. DEFINE count == Cardinality(InState(jobs[j], filter))
            spec == [n |-> count, id_count |-> count, log |-> FALSE,
                     max_fails |-> jobs[j].max_fails]
<1>1. handle_submit(c, spec) /\ count > 0
  BY DEF handle_resubmit
<1>2. JobTypeOK(jobs[j])
  BY DEF BasicInv, TypeOK, StateTypeOK
<1>3. count \in Nat
  <2>1. InState(jobs[j], filter) \in SUBSET DOMAIN jobs[j].tasks
    BY DEF InState
  <2>. QED  BY <1>2, <2>1, FS_Subset, FS_CardinalityType DEF JobTypeOK
<1>4. spec.n = count /\ spec.id_count = count /\ spec.log = FALSE
  OBVIOUS
<1>. HIDE DEF spec, count
<1>5. GoodSpec(spec)
  BY <1>1, <1>3, <1>4 DEF GoodSpec
<1>. QED  BY <1>1, <1>5

\* The requests of a client, by kind.
LEMMA ClientKinds ==
    ASSUME StepFacts, RpcInv, NEW c \in Clients, Request(c) \/ Resume(c) \/ connection_ended(c)
    PROVE  ClientStepOf(c) \/ PanicStep
<1>0. JobIds \cup {<<w>> : w \in Workers} \cup Orderings(Online) \subseteq IdList /\ BasicInv
  BY DEF StepFacts
<1>1. CASE \E spec \in JobSpecs : handle_submit(c, spec)
  <2>1. PICK spec \in JobSpecs : handle_submit(c, spec)
    BY <1>1
  <2>2. GoodSpec(spec)
    BY JobSpecsAssumption DEF GoodSpec
  <2>. QED  BY <1>0, <2>1, <2>2, SubmitKind DEF ClientStepOf
<1>2. CASE \E j \in DOMAIN jobs, filter \in Filters : handle_resubmit(c, j, filter)
  <2>1. \E spec : GoodSpec(spec) /\ handle_submit(c, spec)
    BY <1>0, <1>2, ResubmitGood
  <2>. QED  BY <1>0, <2>1, SubmitKind DEF ClientStepOf
<1>3. CASE \E todo \in JobIds : handle_job_cancel(c, todo)
  <2>1. PICK todo \in IdList : handle_job_cancel(c, todo)
    BY <1>0, <1>3
  <2>2. /\ client[c].pc = "idle" /\ cancel_loop(c, todo, jobs, told_canceled)
        /\ UNCHANGED <<stateVars, workers, callbacks, from_tako, takoVars, streamVars, broken>>
    BY <2>1 DEF handle_job_cancel
  <2>3. \A msg \in client[c].reply : msg.type # "CancelTasksResponse"
    BY <1>0, <2>2, RepliesFit
  <2>. QED  BY <1>0, <2>2, <2>3, CancelKind DEF ClientStepOf
<1>4. CASE \E todo \in {<<w>> : w \in Workers} \cup Orderings(Online) : handle_worker_stop(c, todo)
  BY <1>0, <1>4, StopKind DEF ClientStepOf
<1>5. CASE submit_registered(c)
  <2>1. TasksStay /\ UNCHANGED <<callbacks, told_canceled, control, registrations, panicked>>
    BY <1>5 DEF submit_registered, TasksStay, stateVars, takoVars, streamVars, processVars
  <2>. QED  BY <1>0, <1>5, <2>1, RegisteredEffect DEF ClientStepOf
<1>6. CASE stop_answered(c)
  <2>1. client[c].todo \in IdList
    BY <1>0, LifeTypes DEF ClientState, IdList
  <2>. QED  BY <1>0, <1>6, <2>1, StopKind DEF ClientStepOf
<1>7. CASE cancel_answered(c)
  BY <1>0, <1>7, CancelAnsweredKind DEF ClientStepOf
<1>8. CASE submit_finished(c) \/ connection_ended(c)
  BY <1>0, <1>8, AnswerKind DEF ClientStepOf
<1>. QED  BY <1>1, <1>2, <1>3, <1>4, <1>5, <1>6, <1>7, <1>8 DEF Request, Resume

\* A spawned cancel sends its request.
LEMMA CallbackSendKind ==
    ASSUME BasicInv, RpcInv, NEW t \in DOMAIN callbacks, callback_send(t)
    PROVE  SpawnedSends(t)
<1>. DEFINE who == CallbackWaits(t)
            msg == CancelTasks(callbacks[t].tasks)
            cb == [callbacks[t] EXCEPT !.sent = TRUE]
<1>1. t \in Nat /\ callbacks \in [DOMAIN callbacks -> CallbackState] /\ callbacks[t] \in CallbackState
  BY LifeTypes
<1>2. /\ ~ callbacks[t].sent /\ send_tako_message(msg, who)
      /\ callbacks' = [callbacks EXCEPT ![t] = cb]
      /\ TasksStay /\ UNCHANGED <<client, told_canceled, control, registrations, panicked>>
  BY <1>1 DEF callback_send, TasksStay, stateVars, takoVars, streamVars, processVars, CallbackState
<1>3. DOMAIN callbacks' = DOMAIN callbacks /\ callbacks'[t] = cb
      /\ \A u \in Nat \ {t} : u \in DOMAIN callbacks => callbacks'[u] = callbacks[u]
  BY <1>1, <1>2
<1>4. /\ who \in Waiting /\ Only(Handlers, Handlers', who)
      /\ Handlers[who] = CallbackHandler(callbacks[t])
      /\ Handlers'[who] = CallbackHandler(cb)
  BY <1>1, <1>2, <1>3, CallbackStep
<1>5. callbacks[t].reply = {}
  BY <1>2, RepliesFit
<1>6. cb.reply = {}
  BY <1>1, <1>5 DEF CallbackState
<1>7. msg \in ToTako /\ msg.type = "CancelTasks"
  BY <1>1 DEF CancelTasks, ToTako, CallbackState
<1>. HIDE DEF cb, msg
<1>8. Handlers[who].reply = {} /\ Handlers'[who].reply = {}
  BY SMTT(30), <1>4, <1>5, <1>6 DEF CallbackHandler
<1>. QED  BY <1>2, <1>4, <1>7, <1>8 DEF SpawnedSends

\* A spawned cancel ends.
LEMMA CallbackAnsweredKind ==
    ASSUME BasicInv, RpcInv, NEW t \in DOMAIN callbacks, callback_answered(t)
    PROVE  SpawnedEnds(t) \/ PanicStep
<1>. DEFINE who == CallbackWaits(t)
<1>1. t \in Nat /\ callbacks[t] \in CallbackState
  BY LifeTypes
<1>2. PICK msg \in callbacks[t].reply :
        CASE /\ msg.type = "CancelTasksResponse"
             /\ can_cancel(jobs[callbacks[t].job], msg.tasks) ->
                    /\ apply_cancel(callbacks[t].job, msg.tasks)
                    /\ callbacks' = Remove(callbacks, {t})
                    /\ UNCHANGED <<workers, client, told_canceled, rpcVars, from_tako,
                                   takoVars, registrations, processVars>>
          [] msg.type = "Error" ->
                    /\ callbacks' = Remove(callbacks, {t})
                    /\ UNCHANGED <<stateVars, workers, client, told_canceled, rpcVars,
                                   from_tako, takoVars, streamVars, processVars>>
          [] OTHER -> Panic
  BY DEF callback_answered
<1>3. /\ callbacks[t].reply = {msg} /\ callbacks[t].sent
      /\ msg.type \in {"CancelTasksResponse", "Error"}
  BY RepliesFit
<1>4. who \in Waiting /\ Handlers[who] = CallbackHandler(callbacks[t])
  BY <1>1, HandlerTypes DEF Handlers
<1>5. /\ Handlers[who].pc = "cancel" /\ Handlers[who].job = callbacks[t].job
      /\ Handlers[who].reply = callbacks[t].reply
  BY SMT, <1>3, <1>4 DEF CallbackHandler
<1>6. ASSUME callbacks' = Remove(callbacks, {t}), UNCHANGED client
      PROVE  Only(Handlers, Handlers', who) /\ Quiet(Handlers'[who])
  <2>1. /\ DOMAIN callbacks' = DOMAIN callbacks \ {t}
        /\ \A u \in DOMAIN callbacks' : u \in DOMAIN callbacks /\ callbacks'[u] = callbacks[u]
    BY <1>6 DEF Remove
  <2>2. Only(Handlers, Handlers', who) /\ Handlers'[who] = NoHandler
    BY <1>1, <1>6, <2>1, CallbackStep
  <2>. QED  BY SMT, <2>2 DEF Quiet, NoHandler
<1>7. CASE msg.type = "Error"
  <2>1. /\ callbacks' = Remove(callbacks, {t})
        /\ UNCHANGED <<stateVars, workers, client, told_canceled, rpcVars,
                       from_tako, takoVars, streamVars, processVars>>
    BY <1>2, <1>7
  <2>2. Hand(Handlers[who]) = {}
    BY <1>3, <1>5, <1>7, NoHand
  <2>. QED  BY <1>4, <1>6, <2>1, <2>2
            DEF SpawnedEnds, TasksStay, stateVars, takoVars, streamVars, processVars
<1>8. CASE msg.type = "CancelTasksResponse"
  <2>1. /\ Hand(Handlers[who]) = msg.tasks
        /\ Handlers[who].job \in DOMAIN jobs
        /\ Hand(Handlers[who]) \subseteq DOMAIN jobs[Handlers[who].job].tasks
    BY <1>3, <1>4, <1>5, <1>8, HandOfReply
  <2>2. CASE can_cancel(jobs[callbacks[t].job], msg.tasks)
    <3>1. /\ apply_cancel(callbacks[t].job, msg.tasks)
          /\ callbacks' = Remove(callbacks, {t})
          /\ UNCHANGED <<workers, client, told_canceled, rpcVars, from_tako,
                         takoVars, registrations, processVars>>
      BY <1>2, <1>8, <2>2
    <3>2. Only(Handlers, Handlers', who) /\ Quiet(Handlers'[who])
      BY <1>6, <3>1
    <3>3. UNCHANGED <<workers, from_tako, tako_tasks, tako_workers, registrations, panicked>> /\ Excused
      BY <3>1 DEF takoVars, processVars, Excused
    <3>4. Marks(who)
      BY <1>3, <1>4, <1>5, <1>8, <2>1, <2>2, <3>1, <3>2, <3>3 DEF Marks
    <3>. QED  BY <1>4, <3>1, <3>2, <3>3, <3>4 DEF SpawnedEnds
  <2>3. CASE ~ can_cancel(jobs[callbacks[t].job], msg.tasks)
    <3>1. Panic
      BY <1>2, <1>8, <2>3
    <3>. QED  BY <1>4, <1>5, <2>1, <2>3, <3>1 DEF PanicStep, BadCancel
  <2>. QED  BY <2>2, <2>3
<1>. QED  BY <1>3, <1>7, <1>8

\* A failed task is read: the spawned cancel is new.
LEMMA FailedKind ==
    ASSUME BasicInv, RpcInv, process_task_failed
    PROVE  Panic \/ \E who : Fails(who)
<1>. SUFFICES ASSUME ~ Panic  PROVE  \E who : Fails(who)
  OBVIOUS
<1>1. PICK t \in Nat, job_id \in DOMAIN jobs : Spawned(t, job_id)
  BY FailedEffect
<1>. DEFINE who == CallbackWaits(t)
            cb == [job |-> job_id, tasks |-> non_finished_task_ids(jobs'[job_id]),
                   sent |-> FALSE, reply |-> {}]
<1>2. /\ t \in DOMAIN jobs[job_id].tasks /\ jobs[job_id].tasks[t] = "Running"
      /\ callbacks' = callbacks \/ callbacks' = Insert(callbacks, t, cb)
      /\ UNCHANGED client
  BY <1>1 DEF Spawned
<1>3. t \notin DOMAIN callbacks
  <2>1. SUFFICES ASSUME t \in DOMAIN callbacks  PROVE  FALSE
    OBVIOUS
  <2>2. callbacks[t].job \in DOMAIN jobs /\ t \in InState(jobs[callbacks[t].job], Terminal)
    BY <2>1 DEF RpcInv, KeysOK
  <2>3. callbacks[t].job = job_id
    BY <1>2, <2>2 DEF BasicInv, InState
  <2>4. "Running" \in Terminal
    BY <1>2, <2>2, <2>3 DEF InState
  <2>. QED  BY SMT, <2>4 DEF Terminal
<1>4. /\ t \in DOMAIN callbacks' => callbacks'[t] = cb
      /\ \A u \in Nat \ {t} : /\ u \in DOMAIN callbacks' <=> u \in DOMAIN callbacks
                              /\ u \in DOMAIN callbacks => callbacks'[u] = callbacks[u]
  BY <1>2, <1>3 DEF Insert
<1>5. /\ who \in Waiting /\ Only(Handlers, Handlers', who)
      /\ Handlers[who] = NoHandler
      /\ Handlers'[who] \in {NoHandler, CallbackHandler(cb)}
  BY <1>2, <1>3, <1>4, CallbackStep
<1>6. NoHandler.reply = {} /\ CallbackHandler(cb).reply = {}
  BY DEF NoHandler, CallbackHandler
<1>. HIDE DEF cb
<1>7. Handlers[who].reply = {} /\ Handlers'[who].reply = {}
  BY <1>5, <1>6
<1>8. SameRegister(Handlers, Handlers')
  BY <1>5, HandlerTypes DEF SameRegister, Only
<1>. QED  BY <1>5, <1>7, <1>8 DEF Fails

\* The reader of tako's messages.
LEMMA ReaderKind ==
    ASSUME BasicInv, RpcInv, Reader
    PROVE  ReaderStep \/ PanicStep
  BY FailedKind, DeliverEffect DEF Reader, ReaderStep, PanicStep

\* The stream server.
LEMMA StreamKind ==
    ASSUME BasicInv, RpcInv, StreamServer
    PROVE  \/ \E c \in Clients : Registers(c)
           \/ /\ TasksStay /\ UNCHANGED <<client, callbacks, told_canceled, rpcVars, panicked>>
              /\ unregister_stream
           \/ PanicStep
<1>1. CASE unregister_stream
  <2>1. CASE Head(control).job \in registrations
    BY <1>1, <2>1 DEF unregister_stream, TasksStay, handlerVars, stateVars, takoVars, processVars
  <2>2. CASE Head(control).job \notin registrations
    BY <1>1, <2>2 DEF unregister_stream, PanicStep, Clash
  <2>. QED  BY <2>1, <2>2
<1>2. CASE register_stream /\ Head(control).job \in registrations
  BY <1>2 DEF register_stream, PanicStep, Clash
<1>3. CASE register_stream /\ Head(control).job \notin registrations
  <2>. DEFINE msg == Head(control)
              c == msg.client
              answer == [type |-> "Registered"]
              st == [client[c] EXCEPT !.reply = {answer}]
              who == ClientWaits(c)
  <2>1. /\ control # <<>> /\ msg.type = "RegisterStream"
        /\ client' = [client EXCEPT ![c].reply = {answer}]
        /\ TasksStay /\ UNCHANGED <<told_canceled, callbacks, rpcVars, panicked>>
    BY <1>3 DEF register_stream, TasksStay, stateVars, takoVars, processVars
  <2>2. control \in Seq(Control) /\ msg \in Control /\ msg = control[1] /\ 1 \in 1 .. Len(control)
    BY SMT, <2>1, LifeTypes
  <2>3. c \in Clients
    BY <2>1, <2>2 DEF Control
  <2>4. client \in [Clients -> ClientState] /\ client[c] \in ClientState
    BY <2>3, LifeTypes
  <2>5. client' = [client EXCEPT ![c] = st]
    BY <2>1, <2>3, <2>4
  <2>6. ClientHandler(st) = Replied(ClientHandler(client[c]), answer)
    BY <2>4 DEF ClientHandler, Replied, ClientState
  <2>7. Handlers[who].pc = "register"
    BY <2>1, <2>2 DEF RpcInv, RegisterOK
  <2>. HIDE DEF st, c
  <2>8. UNCHANGED callbacks
    BY <2>1
  <2>9. /\ Only(Handlers, Handlers', who)
        /\ Handlers[who] = ClientHandler(client[c]) /\ Handlers'[who] = ClientHandler(st)
    BY <2>3, <2>4, <2>5, <2>8, ClientUpdate
  <2>. QED  BY <1>3, <2>1, <2>3, <2>6, <2>7, <2>9 DEF Registers
<1>. QED  BY <1>1, <1>2, <1>3 DEF StreamServer

\* Every step is of one of the kinds.
LEMMA NextKinds ==
    ASSUME StepFacts, RpcInv, Next
    PROVE  StepKind
<1>0. BasicInv
  BY DEF StepFacts
<1>1. CASE Reader
  BY <1>0, <1>1, ReaderKind DEF StepKind
<1>2. CASE StreamServer
  BY <1>0, <1>2, StreamKind DEF StepKind
<1>3. CASE TakoRequest \/ TakoEvent
  <2>1. InFlight(from_tako) \in Nat
    BY <1>0, LifeTypes, QueuePlaces DEF RpcInv, QueuesOK
  <2>. QED  BY <1>3, <2>1 DEF StepKind
<1>4. CASE \E c \in Clients : Request(c) \/ Resume(c) \/ connection_ended(c)
  BY <1>4, ClientKinds DEF StepKind
<1>5. CASE \E c \in Clients : connection_lost(c)
  BY <1>5 DEF connection_lost, StepKind, TasksStay, stateVars, handlerVars, takoVars, streamVars
<1>6. CASE \E t \in DOMAIN callbacks : Callback(t)
  <2>1. DOMAIN callbacks \subseteq Nat
    BY <1>0, LifeTypes
  <2>. QED  BY <1>0, <1>6, <2>1, CallbackSendKind, CallbackAnsweredKind DEF Callback, StepKind
<1>. QED  BY <1>1, <1>2, <1>3, <1>4, <1>5, <1>6 DEF Next

\* Only a submit takes task ids.
LEMMA NextIds ==
    ASSUME BasicInv, RpcInv, Next
    PROVE  \/ UNCHANGED <<base_task_id_to_job_id, task_id_counter>>
           \/ \E c \in Clients : \E spec : GoodSpec(spec) /\ Submitted(c, spec)
<1>. DEFINE ids == UNCHANGED <<base_task_id_to_job_id, task_id_counter>>
<1>0. Panic => ids
  BY DEF Panic, stateVars
<1>. HIDE DEF ids
<1>1. CASE Reader
  BY <1>0, <1>1 DEF Reader, process_task_running, process_task_finished, process_task_waiting,
     process_task_failed, process_worker_new, process_worker_lost, deliver_response, stateVars, ids
<1>2. CASE StreamServer
  BY <1>0, <1>2 DEF StreamServer, register_stream, unregister_stream, stateVars, ids
<1>3. CASE TakoRequest
  BY <1>3 DEF TakoRequest, TakoNewTasks, TakoCancelTasks, TakoCancelFails, TakoStopWorker,
     TakoAnswers, stateVars, ids
<1>4. CASE TakoEvent
  BY <1>4 DEF TakoEvent, TakoWorkerConnects, TakoWorkerLost, TakoTaskStarts,
     TakoTaskStartsAgain, TakoTaskReturns, TakoTaskEnds, TakoReports, stateVars, ids
<1>5. ASSUME NEW c \in Clients, Request(c)
      PROVE  ids \/ \E spec : GoodSpec(spec) /\ Submitted(c, spec)
  <2>1. ASSUME NEW spec, GoodSpec(spec), handle_submit(c, spec)
        PROVE  ids \/ Submitted(c, spec)
    BY <1>0, <2>1, SubmitEffect
  <2>2. \A spec \in JobSpecs : GoodSpec(spec)
    BY JobSpecsAssumption DEF GoodSpec
  <2>3. ASSUME NEW todo, handle_job_cancel(c, todo) \/ handle_worker_stop(c, todo)
        PROVE  ids
    BY <2>3 DEF handle_job_cancel, handle_worker_stop, stateVars, ids
  <2>. QED  BY <1>5, <2>1, <2>2, <2>3, ResubmitGood DEF Request
<1>6. ASSUME NEW c \in Clients, Resume(c) \/ connection_lost(c) \/ connection_ended(c)
      PROVE  ids
  BY <1>0, <1>6 DEF Resume, submit_registered, submit_finished, cancel_answered, apply_cancel,
     stop_answered, connection_lost, connection_ended, stateVars, ids
<1>7. CASE \E t \in DOMAIN callbacks : Callback(t)
  BY <1>0, <1>7 DEF Callback, callback_send, callback_answered, apply_cancel, stateVars, ids
<1>. QED  BY <1>1, <1>2, <1>3, <1>4, <1>5, <1>6, <1>7 DEF Next, ids

\* Nothing happens after a panic.
LEMMA NextAlive == Next => ~ panicked
<1>. SUFFICES ASSUME Next  PROVE Alive
  BY DEF Alive
<1>1. CASE Reader
  BY <1>1 DEF Reader, process_task_running, process_task_finished, process_task_waiting,
                     process_task_failed, process_worker_new, process_worker_lost, deliver_response, Receive
<1>2. CASE StreamServer
  BY <1>2 DEF StreamServer, register_stream, unregister_stream
<1>3. CASE TakoRequest
  BY <1>3 DEF TakoRequest, TakoNewTasks, TakoCancelTasks, TakoCancelFails, TakoStopWorker,
                     TakoAnswers
<1>4. CASE TakoEvent
  BY <1>4 DEF TakoEvent, TakoWorkerConnects, TakoWorkerLost, TakoTaskStarts,
                     TakoTaskStartsAgain, TakoTaskReturns, TakoTaskEnds, TakoReports
<1>5. ASSUME NEW c \in Clients, Request(c)  PROVE Alive
  BY <1>5 DEF Request, handle_submit, handle_resubmit, handle_job_cancel, handle_worker_stop
<1>6. ASSUME NEW c \in Clients, Resume(c) \/ connection_lost(c) \/ connection_ended(c)  PROVE Alive
  BY <1>6 DEF Resume, submit_registered, submit_finished, cancel_answered, stop_answered,
                     connection_lost, connection_ended
<1>7. ASSUME NEW t \in DOMAIN callbacks, Callback(t)  PROVE Alive
  BY <1>7 DEF Callback, callback_send, callback_answered
<1>. QED  BY <1>1, <1>2, <1>3, <1>4, <1>5, <1>6, <1>7 DEF Next
============================================================================
