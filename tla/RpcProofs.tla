---------------------------- MODULE RpcProofs ------------------------------
(***************************************************************************)
(* The requests and responses between the server and tako.                 *)
(*                                                                         *)
(* The responses of tako reach the handlers that wait for them.  Backend   *)
(* keeps the waiting handlers in one queue, the requests they made are in  *)
(* another, and the responses arrive in a third among the reports on tasks *)
(* and workers.  The invariant puts the three side by side: the first      *)
(* waiting handlers belong to the responses that are on their way, in      *)
(* order, and the others to the requests tako has not answered.            *)
(***************************************************************************)
EXTENDS QueueProofs

\* Most of the leaves are first-order: Zenon, unless a leaf cites SMT.
USE Zenon
----------------------------------------------------------------------------
(* The three queues.                                                       *)

\* A request and its responses stay what they are when jobs are added.
LEMMA AskedGrows ==
    ASSUME NEW T, NEW U, Grows(T, U), NEW msg, NEW h
    PROVE  /\ Asked(msg, h, T) => Asked(msg, h, U)
           /\ Answers(msg, h, T) => Answers(msg, h, U)
<1>1. Asked(msg, h, T) => Asked(msg, h, U)
  BY DEF Asked, Grows
<1>2. Answers(msg, h, T) => Answers(msg, h, U)
  BY DEF Answers, Grows
<1>. QED  BY <1>1, <1>2

\* Handlers that do not wait may go on, and jobs may be added.
LEMMA QueuesFrame ==
    ASSUME NEW from, NEW to, NEW waiting, QueueTypes(from, to, waiting),
           NEW H, NEW T, QueuesOK(from, to, waiting, H, T),
           NEW G, \A who \in Waiting : Waits(H[who]) => G[who] = H[who],
           NEW U, Grows(T, U)
    PROVE  QueuesOK(from, to, waiting, G, U)
<1>1. Len(waiting) = InFlight(from) + Len(to)
  BY DEF QueuesOK
<1>2. \A i \in 1 .. Len(waiting) : Waits(H[waiting[i]]) /\ G[waiting[i]] = H[waiting[i]]
  BY <1>1, QueuePlaces DEF QueuesOK
<1>3. ASSUME NEW k \in 1 .. Len(from), from[k].type \in Responses
      PROVE  Answers(from[k], G[waiting[RespCount(from, k)]], U)
  <2>1. Answers(from[k], H[waiting[RespCount(from, k)]], T)
    BY <1>3 DEF QueuesOK
  <2>2. RespCount(from, k) \in 1 .. Len(waiting)
    BY <1>1, <1>3, QueuePlaces
  <2>. QED  BY <1>2, <2>1, <2>2, AskedGrows
<1>4. ASSUME NEW i \in 1 .. Len(to)
      PROVE  Asked(to[i], G[waiting[InFlight(from) + i]], U)
  <2>1. Asked(to[i], H[waiting[InFlight(from) + i]], T)
    BY DEF QueuesOK
  <2>2. InFlight(from) + i \in 1 .. Len(waiting)
    BY <1>1, QueuePlaces
  <2>. QED  BY <1>2, <2>1, <2>2, AskedGrows
<1>5. \A i, k \in 1 .. Len(waiting) : waiting[i] = waiting[k] => i = k
  BY DEF QueuesOK
<1>. QED  BY <1>1, <1>2, <1>3, <1>4, <1>5 DEF QueuesOK

\* send_tako_message: a handler that did not wait sends a request.
LEMMA QueuesSend ==
    ASSUME NEW from, NEW to, NEW waiting, QueueTypes(from, to, waiting),
           NEW H, NEW T, QueuesOK(from, to, waiting, H, T),
           NEW G, NEW U, Grows(T, U),
           NEW who \in Waiting, ~ Waits(H[who]),
           \A other \in Waiting : other # who => G[other] = H[other],
           NEW msg \in ToTako, Asked(msg, G[who], U), Waits(G[who])
    PROVE  QueuesOK(from, Append(to, msg), Append(waiting, who), G, U)
<1>. DEFINE to2 == Append(to, msg)
            wait2 == Append(waiting, who)
<1>1. QueuesOK(from, to, waiting, G, U)
  BY QueuesFrame
<1>2. Len(waiting) = InFlight(from) + Len(to)
  BY DEF QueuesOK
<1>3. /\ Len(to2) = Len(to) + 1 /\ to2[Len(to) + 1] = msg
      /\ \A i \in 1 .. Len(to) : to2[i] = to[i]
      /\ Len(wait2) = Len(waiting) + 1 /\ wait2[Len(waiting) + 1] = who
      /\ \A i \in 1 .. Len(waiting) : wait2[i] = waiting[i]
  BY SMT DEF QueueTypes
<1>4. \A i \in 1 .. Len(waiting) : waiting[i] # who
  BY DEF QueuesOK
<1>. HIDE DEF to2, wait2
<1>5. Len(wait2) = InFlight(from) + Len(to2)
  BY SMT, <1>2, <1>3, QueuePlaces
<1>6. ASSUME NEW k \in 1 .. Len(from), from[k].type \in Responses
      PROVE  Answers(from[k], G[wait2[RespCount(from, k)]], U)
  <2>1. Answers(from[k], G[waiting[RespCount(from, k)]], U)
    BY <1>1, <1>6 DEF QueuesOK
  <2>2. RespCount(from, k) \in 1 .. Len(waiting)
    BY <1>2, <1>6, QueuePlaces
  <2>. QED  BY <1>3, <2>1, <2>2
<1>7. ASSUME NEW i \in 1 .. Len(to2)
      PROVE  Asked(to2[i], G[wait2[InFlight(from) + i]], U)
  <2>1. CASE i \in 1 .. Len(to)
    <3>1. Asked(to[i], G[waiting[InFlight(from) + i]], U)
      BY <1>1, <2>1 DEF QueuesOK
    <3>2. InFlight(from) + i \in 1 .. Len(waiting)
      BY <1>2, <2>1, QueuePlaces
    <3>. QED  BY <1>3, <2>1, <3>1, <3>2
  <2>2. CASE i = Len(to) + 1
    <3>1. InFlight(from) + i = Len(waiting) + 1
      BY SMT, <1>2, <2>2, QueuePlaces
    <3>. QED  BY <1>3, <2>2, <3>1
  <2>3. i \in 1 .. Len(to) \/ i = Len(to) + 1
    BY SMT, <1>2, <1>3, QueuePlaces
  <2>. QED  BY <2>1, <2>2, <2>3
<1>8. \A i \in 1 .. Len(wait2) : i \in 1 .. Len(waiting) \/ i = Len(waiting) + 1
  BY SMT, <1>2, <1>3, QueuePlaces
<1>9. \A i \in 1 .. Len(wait2) : Waits(G[wait2[i]])
  <2>1. \A i \in 1 .. Len(waiting) : Waits(G[waiting[i]])
    BY <1>1 DEF QueuesOK
  <2>. QED  BY <1>3, <1>8, <2>1
<1>10. \A i, k \in 1 .. Len(wait2) : wait2[i] = wait2[k] => i = k
  <2>1. \A i, k \in 1 .. Len(waiting) : waiting[i] = waiting[k] => i = k
    BY DEF QueuesOK
  <2>. QED  BY SMT, <1>3, <1>4, <1>8, <2>1
<1>. QED  BY <1>5, <1>6, <1>7, <1>9, <1>10 DEF QueuesOK, to2, wait2

\* Tako reports something that is not a response.
LEMMA QueuesReport ==
    ASSUME NEW from, NEW to, NEW waiting, QueueTypes(from, to, waiting),
           NEW H, NEW T, QueuesOK(from, to, waiting, H, T),
           NEW msg \in FromTako, msg.type \notin Responses
    PROVE  QueuesOK(Append(from, msg), to, waiting, H, T)
<1>. DEFINE from2 == Append(from, msg)
<1>1. /\ Len(from2) = Len(from) + 1 /\ from2[Len(from) + 1] = msg /\ Len(from) \in Nat
      /\ \A i \in 1 .. Len(from) : from2[i] = from[i]
  BY SMT DEF QueueTypes
<1>2. /\ InFlight(from2) = InFlight(from)
      /\ \A k \in 0 .. Len(from) : RespCount(from2, k) = RespCount(from, k)
  BY RespAppend DEF QueueTypes
<1>. HIDE DEF from2
<1>3. ASSUME NEW k \in 1 .. Len(from2), from2[k].type \in Responses
      PROVE  Answers(from2[k], H[waiting[RespCount(from2, k)]], T)
  <2>1. k \in 1 .. Len(from) /\ k \in 0 .. Len(from)
    BY SMT, <1>1, <1>3
  <2>2. from[k].type \in Responses /\ from2[k] = from[k]
    BY <1>1, <1>3, <2>1
  <2>3. Answers(from[k], H[waiting[RespCount(from, k)]], T)
    BY <2>1, <2>2 DEF QueuesOK
  <2>. QED  BY <1>2, <2>1, <2>2, <2>3
<1>. QED  BY <1>2, <1>3 DEF QueuesOK, from2

\* Tako answers the request that was sent first.
LEMMA QueuesAnswer ==
    ASSUME NEW from, NEW to, NEW waiting, QueueTypes(from, to, waiting),
           NEW H, NEW T, QueuesOK(from, to, waiting, H, T), to # <<>>,
           NEW msg \in FromTako, msg.type \in Responses,
           \A h : Asked(Head(to), h, T) => Answers(msg, h, T)
    PROVE  QueuesOK(Append(from, msg), Tail(to), waiting, H, T)
<1>. DEFINE from2 == Append(from, msg)
            to2 == Tail(to)
<1>1. /\ Len(from2) = Len(from) + 1 /\ from2[Len(from) + 1] = msg /\ Len(from) \in Nat
      /\ \A i \in 1 .. Len(from) : from2[i] = from[i]
      /\ Len(to) \in Nat \ {0} /\ Len(to2) = Len(to) - 1 /\ Head(to) = to[1]
      /\ \A i \in 1 .. Len(to2) : to2[i] = to[i + 1]
  BY SMT DEF QueueTypes
<1>2. /\ InFlight(from2) = InFlight(from) + 1
      /\ \A k \in 0 .. Len(from) : RespCount(from2, k) = RespCount(from, k)
  BY RespAppend DEF QueueTypes
<1>. HIDE DEF from2, to2
<1>3. /\ Len(waiting) = InFlight(from) + Len(to) /\ InFlight(from) \in Nat
      /\ \A i \in 1 .. Len(waiting) : Waits(H[waiting[i]])
      /\ \A i, k \in 1 .. Len(waiting) : waiting[i] = waiting[k] => i = k
  BY QueuePlaces DEF QueuesOK
<1>4. Len(waiting) = InFlight(from2) + Len(to2)
  BY SMT, <1>1, <1>2, <1>3
<1>5. Answers(msg, H[waiting[InFlight(from) + 1]], T)
  <2>1. 1 \in 1 .. Len(to)
    BY SMT, <1>1
  <2>. QED  BY <1>1, <2>1 DEF QueuesOK
<1>6. ASSUME NEW k \in 1 .. Len(from2), from2[k].type \in Responses
      PROVE  Answers(from2[k], H[waiting[RespCount(from2, k)]], T)
  <2>1. CASE k \in 1 .. Len(from)
    <3>1. from[k].type \in Responses /\ from2[k] = from[k] /\ k \in 0 .. Len(from)
      BY SMT, <1>1, <1>6, <2>1
    <3>2. Answers(from[k], H[waiting[RespCount(from, k)]], T)
      BY <2>1, <3>1 DEF QueuesOK
    <3>. QED  BY <1>2, <3>1, <3>2
  <2>2. CASE k = Len(from) + 1
    <3>1. RespCount(from2, k) = InFlight(from) + 1 /\ from2[k] = msg
      BY <1>1, <1>2, <2>2 DEF InFlight
    <3>. QED  BY <1>5, <3>1
  <2>. QED  BY SMT, <1>1, <2>1, <2>2
<1>7. ASSUME NEW i \in 1 .. Len(to2)
      PROVE  Asked(to2[i], H[waiting[InFlight(from2) + i]], T)
  <2>1. i + 1 \in 1 .. Len(to) /\ to2[i] = to[i + 1] /\ InFlight(from2) + i = InFlight(from) + (i + 1)
    <3>1. i \in Nat /\ i + 1 \in 1 .. Len(to) /\ to2[i] = to[i + 1]
      BY SMT, <1>1
    <3>2. InFlight(from2) + i = InFlight(from) + (i + 1)
      BY SMT, <1>2, <1>3, <3>1
    <3>. QED  BY <3>1, <3>2
  <2>2. Asked(to[i + 1], H[waiting[InFlight(from) + (i + 1)]], T)
    BY <2>1 DEF QueuesOK
  <2>. QED  BY <2>1, <2>2
<1>. QED  BY <1>3, <1>4, <1>6, <1>7 DEF QueuesOK, from2, to2

\* The reader takes a message that is not a response.
LEMMA QueuesRead ==
    ASSUME NEW from, NEW to, NEW waiting, QueueTypes(from, to, waiting),
           NEW H, NEW T, QueuesOK(from, to, waiting, H, T),
           from # <<>>, Head(from).type \notin Responses
    PROVE  QueuesOK(Tail(from), to, waiting, H, T)
<1>. DEFINE from2 == Tail(from)
<1>1. /\ Len(from) \in Nat \ {0} /\ Len(from2) = Len(from) - 1 /\ Head(from) = from[1]
      /\ \A i \in 1 .. Len(from2) : from2[i] = from[i + 1]
      /\ from2 \in Seq(FromTako)
  BY SMT DEF QueueTypes
<1>2. /\ InFlight(from) = InFlight(from2) + 0
      /\ \A k \in 0 .. Len(from) - 1 : RespCount(from, k + 1) = RespCount(from2, k) + 0
  BY SMT, RespTail DEF QueueTypes
<1>. HIDE DEF from2
<1>3. InFlight(from) = InFlight(from2)
  BY SMT, <1>1, <1>2, RespStep DEF InFlight
<1>4. ASSUME NEW k \in 1 .. Len(from2), from2[k].type \in Responses
      PROVE  Answers(from2[k], H[waiting[RespCount(from2, k)]], T)
  <2>1. k + 1 \in 1 .. Len(from) /\ k \in 0 .. Len(from) - 1 /\ from2[k] = from[k + 1] /\ k \in Nat
    BY SMT, <1>1
  <2>2. RespCount(from2, k) \in Nat
    BY <2>1, RespStep
  <2>3. RespCount(from, k + 1) = RespCount(from2, k)
    BY SMT, <1>2, <2>1, <2>2
  <2>4. Answers(from[k + 1], H[waiting[RespCount(from, k + 1)]], T)
    BY <1>4, <2>1 DEF QueuesOK
  <2>. QED  BY <2>1, <2>3, <2>4
<1>. QED  BY <1>3, <1>4 DEF QueuesOK, from2
----------------------------------------------------------------------------
(* Handlers.                                                               *)

\* A handler that is fine stays so when jobs are added.
LEMMA HandlerGrows ==
    ASSUME NEW T, NEW U, Grows(T, U), NEW h, HandlerOK(h, T)
    PROVE  HandlerOK(h, U)
<1>1. \A msg : Answers(msg, h, T) => Answers(msg, h, U)
  BY AskedGrows
<1>. QED  BY <1>1 DEF HandlerOK, Grows

\* It is enough to look at the handler that goes on.
LEMMA OneHandler ==
    ASSUME NEW H, NEW G, NEW who \in Waiting, Only(H, G, who),
           NEW T, NEW U, Grows(T, U), HandlersOK(H, T), HandlerOK(G[who], U)
    PROVE  HandlersOK(G, U)
<1>1. ASSUME NEW other \in Waiting, other # who
      PROVE  HandlerOK(G[other], U)
  <2>1. HandlerOK(H[other], T) /\ G[other] = H[other]
    BY <1>1 DEF HandlersOK, Only
  <2>. QED  BY <2>1, HandlerGrows
<1>. QED  BY <1>1 DEF HandlersOK

\* The handler who is not about the job of another submit.
Distinguished(H, G, who) ==
    G[who].pc \in Submitting =>
        \A other \in Waiting : other # who /\ H[other].pc \in Submitting => H[other].job # G[who].job

\* Submits still differ when the handler that goes on is told from the others.
LEMMA OneSubmit ==
    ASSUME NEW H, NEW G, NEW who \in Waiting, Only(H, G, who), SubmitsDiffer(H),
           Distinguished(H, G, who)
    PROVE  SubmitsDiffer(G)
<1>. SUFFICES ASSUME NEW a \in Waiting, NEW b \in Waiting, G[a].pc \in Submitting,
                     G[b].pc \in Submitting, G[a].job = G[b].job, a # b
              PROVE  FALSE
  BY DEF SubmitsDiffer, Submitting
<1>1. CASE a # who /\ b # who
  BY <1>1 DEF Only, SubmitsDiffer, Submitting
<1>2. CASE a = who
  BY <1>2 DEF Only, Distinguished
<1>3. CASE b = who
  BY <1>3 DEF Only, Distinguished
<1>. QED  BY <1>1, <1>2, <1>3

\* Nothing but the end of a stream is sent to the stream server.
ControlStep(ctl, ctl2) ==
    ctl2 = ctl \/ \E msg \in Control : msg.type = "UnregisterStream" /\ ctl2 = Append(ctl, msg)

\* A handler that does not wait for its stream goes on: the others still wait for
\* theirs.
LEMMA RegisterFrame ==
    ASSUME NEW H, NEW G, NEW who \in Waiting, Only(H, G, who),
           ~ (H[who].pc = "register" /\ H[who].reply = {}),
           NEW ctl \in Seq(Control), NEW ctl2, ControlStep(ctl, ctl2), RegisterOK(ctl, H)
    PROVE  RegisterOK(ctl2, G)
<1>1. RegisterOK(ctl, G)
  <2>1. ASSUME NEW i \in 1 .. Len(ctl), ctl[i].type = "RegisterStream"
        PROVE  G[ClientWaits(ctl[i].client)] = H[ClientWaits(ctl[i].client)]
    <3>1. ctl[i] \in Control
      BY SMT
    <3>2. ctl[i].client \in Clients
      BY <2>1, <3>1 DEF Control
    <3>3. ClientWaits(ctl[i].client) \in Waiting
      BY <3>2, HandlerTypes
    <3>4. ClientWaits(ctl[i].client) # who
      BY <2>1 DEF RegisterOK
    <3>. QED  BY <3>3, <3>4 DEF Only
  <2>. QED  BY <2>1 DEF RegisterOK
<1>2. ASSUME NEW msg \in Control, msg.type = "UnregisterStream", ctl2 = Append(ctl, msg)
      PROVE  RegisterOK(ctl2, G)
  <2>1. /\ Len(ctl2) = Len(ctl) + 1 /\ Len(ctl) \in Nat /\ ctl2[Len(ctl) + 1] = msg
        /\ \A i \in 1 .. Len(ctl) : ctl2[i] = ctl[i]
    BY SMT, <1>2
  <2>2. \A i \in 1 .. Len(ctl2) : ctl2[i].type = "RegisterStream" => i \in 1 .. Len(ctl)
    BY SMT, <1>2, <2>1
  <2>. QED  BY ZenonT(30), <1>1, <2>1, <2>2 DEF RegisterOK
<1>. QED  BY <1>1, <1>2 DEF ControlStep

\* The key of a spawned cancel stays what it is.
LEMMA KeyStays ==
    ASSUME StepFacts, KeysOK, NEW t \in DOMAIN callbacks
    PROVE  /\ callbacks[t].job \in DOMAIN jobs'
           /\ t \in InState(jobs'[callbacks[t].job], Terminal)
<1>. DEFINE j == callbacks[t].job
<1>1. j \in DOMAIN jobs /\ t \in InState(jobs[j], Terminal)
  BY DEF KeysOK
<1>. HIDE DEF j
<1>2. j \in DOMAIN jobs' /\ DOMAIN jobs'[j].tasks = DOMAIN jobs[j].tasks
  BY <1>1 DEF StepFacts, Grows, TasksOf
<1>3. jobs'[j].tasks[t] = jobs[j].tasks[t]
  BY <1>1 DEF StepFacts
<1>4. t \in InState(jobs'[j], Terminal)
  BY <1>1, <1>2, <1>3 DEF InState
<1>. QED  BY <1>2, <1>4 DEF j

\* So do the keys of all of them when none is spawned.
LEMMA KeysFrame ==
    ASSUME StepFacts, KeysOK,
           \A t \in DOMAIN callbacks' : t \in DOMAIN callbacks /\ callbacks'[t].job = callbacks[t].job
    PROVE  KeysOK'
  BY KeyStays DEF KeysOK
----------------------------------------------------------------------------
(* Steps.                                                                  *)

\* The handler who, and no other, goes on.
HandlerStep(who) ==
    /\ who \in Waiting
    /\ Only(Handlers, Handlers', who)
    /\ ~ Suspended(Handlers[who])
    /\ HandlerOK(Handlers'[who], TasksOf(jobs'))
    /\ Distinguished(Handlers, Handlers', who)

\* A handler goes on: the parts of the invariant that are not about queues.
LEMMA HandlerStepInv ==
    ASSUME StepFacts, RpcInv, NEW who, HandlerStep(who)
    PROVE  /\ HandlersOK(Handlers', TasksOf(jobs'))
           /\ SubmitsDiffer(Handlers')
           /\ ControlStep(control, control') => RegisterOK(control', Handlers')
           /\ QueuesOK(from_tako, to_tako, tako_responses, Handlers', TasksOf(jobs'))
<1>. DEFINE H == Handlers
            G == Handlers'
<1>1. /\ who \in Waiting /\ Only(H, G, who) /\ ~ Suspended(H[who])
      /\ HandlerOK(G[who], TasksOf(jobs')) /\ Distinguished(H, G, who)
  BY DEF HandlerStep
<1>2. /\ HandlersOK(H, TasksOf(jobs)) /\ SubmitsDiffer(H) /\ RegisterOK(control, H)
      /\ QueuesOK(from_tako, to_tako, tako_responses, H, TasksOf(jobs))
  BY DEF RpcInv
<1>3. /\ Grows(TasksOf(jobs), TasksOf(jobs'))
      /\ QueueTypes(from_tako, to_tako, tako_responses) /\ control \in Seq(Control)
  BY LifeTypes DEF StepFacts
<1>. HIDE DEF H, G
<1>4. HandlersOK(G, TasksOf(jobs'))
  BY <1>1, <1>2, <1>3, OneHandler
<1>5. SubmitsDiffer(G)
  BY <1>1, <1>2, OneSubmit
<1>6. ControlStep(control, control') => RegisterOK(control', G)
  BY <1>1, <1>2, <1>3, RegisterFrame DEF Suspended
<1>7. QueuesOK(from_tako, to_tako, tako_responses, G, TasksOf(jobs'))
  <2>1. \A other \in Waiting : Waits(H[other]) => G[other] = H[other]
    BY <1>1 DEF Only, Suspended, Waits
  <2>. QED  BY <1>2, <1>3, <2>1, QueuesFrame
<1>. QED  BY <1>4, <1>5, <1>6, <1>7 DEF G

\* It sends nothing.
LEMMA SilentInv ==
    ASSUME StepFacts, RpcInv, NEW who, HandlerStep(who), KeysOK', ControlStep(control, control'),
           UNCHANGED <<from_tako, to_tako, tako_responses>>
    PROVE  RpcInv'
<1>1. QueuesOK(from_tako', to_tako', tako_responses', Handlers', TasksOf(jobs'))
  BY HandlerStepInv
<1>. QED  BY <1>1, HandlerStepInv DEF RpcInv

\* It sends a request.
LEMMA SendInv ==
    ASSUME StepFacts, RpcInv, NEW who, HandlerStep(who), KeysOK', ControlStep(control, control'),
           NEW msg \in ToTako, send_tako_message(msg, who), UNCHANGED from_tako,
           Waits(Handlers'[who]), Asked(msg, Handlers'[who], TasksOf(jobs'))
    PROVE  RpcInv'
<1>. DEFINE H == Handlers
            G == Handlers'
            T == TasksOf(jobs)
            U == TasksOf(jobs')
<1>1. /\ QueueTypes(from_tako, to_tako, tako_responses) /\ Grows(T, U)
      /\ QueuesOK(from_tako, to_tako, tako_responses, H, T)
  BY LifeTypes DEF StepFacts, RpcInv
<1>2. who \in Waiting /\ ~ Waits(H[who]) /\ \A other \in Waiting : other # who => G[other] = H[other]
  BY DEF HandlerStep, Only, Suspended, Waits
<1>3. Waits(G[who]) /\ Asked(msg, G[who], U)
  OBVIOUS
<1>. HIDE DEF H, G, T, U
<1>4. QueuesOK(from_tako, Append(to_tako, msg), Append(tako_responses, who), G, U)
  BY ONLY <1>1, <1>2, <1>3, msg \in ToTako, QueuesSend
<1>5. QueuesOK(from_tako', to_tako', tako_responses', G, U)
  BY <1>4 DEF send_tako_message
<1>. QED  BY <1>5, HandlerStepInv DEF RpcInv, G, U

\* No handler goes on.
LEMMA NoHandlerInv ==
    ASSUME StepFacts, RpcInv, UNCHANGED <<client, callbacks>>, ControlStep(control, control'),
           QueuesOK(from_tako', to_tako', tako_responses', Handlers, TasksOf(jobs)) \/
               UNCHANGED <<from_tako, to_tako, tako_responses>>,
           QueueTypes(from_tako', to_tako', tako_responses')
    PROVE  RpcInv'
<1>1. Handlers' = Handlers
  BY DEF Handlers
<1>2. QueuesOK(from_tako', to_tako', tako_responses', Handlers, TasksOf(jobs))
  BY DEF RpcInv
<1>3. QueuesOK(from_tako', to_tako', tako_responses', Handlers', TasksOf(jobs'))
  BY <1>1, <1>2, QueuesFrame DEF StepFacts
<1>4. HandlersOK(Handlers', TasksOf(jobs'))
  BY <1>1, HandlerGrows DEF RpcInv, HandlersOK, StepFacts
<1>5. KeysOK'
  BY KeysFrame DEF RpcInv
<1>6. RegisterOK(control', Handlers)
  <2>1. CASE control' = control
    BY <2>1 DEF RpcInv
  <2>2. ASSUME NEW msg \in Control, msg.type = "UnregisterStream", control' = Append(control, msg)
        PROVE  RegisterOK(control', Handlers)
    <3>0. control \in Seq(Control)
      BY LifeTypes DEF StepFacts
    <3>1. /\ Len(control') = Len(control) + 1 /\ Len(control) \in Nat
          /\ control'[Len(control) + 1] = msg
          /\ \A i \in 1 .. Len(control) : control'[i] = control[i]
      BY SMT, <2>2, <3>0
    <3>2. \A i \in 1 .. Len(control') : control'[i].type = "RegisterStream" => i \in 1 .. Len(control)
      BY SMT, <2>2, <3>1
    <3>. QED  BY ZenonT(30), <3>1, <3>2 DEF RpcInv, RegisterOK
  <2>. QED  BY <2>1, <2>2 DEF ControlStep
<1>. QED  BY <1>1, <1>3, <1>4, <1>5, <1>6 DEF RpcInv

\* A handler that was at pc waits for nothing.
LEMMA QuietOK ==
    ASSUME NEW h, Quiet(h), NEW T
    PROVE  HandlerOK(h, T) /\ h.pc \notin Submitting /\ ~ Suspended(h)
  BY DEF Quiet, HandlerOK, Submitting, Suspended

\* A request that was just sent has no response yet.
LEMMA SentOK ==
    ASSUME NEW pc \in {"register", "newtasks", "cancel", "stop"}, NEW T, NEW job,
           pc = "stop" \/ job \in DOMAIN T
    PROVE  /\ HandlerOK(Sent(pc, job), T)
           /\ pc # "register" => Waits(Sent(pc, job))
           /\ Sent(pc, job).pc = pc /\ Sent(pc, job).job = job
  BY DEF HandlerOK, Sent, Waits
----------------------------------------------------------------------------
(* The requests of clients.                                                *)

\* A client whose request got a response is not suspended.
LEMMA AnsweredClient ==
    ASSUME NEW c \in Clients, client[c].reply # {}
    PROVE  /\ ~ Suspended(Handlers[ClientWaits(c)])
           /\ Handlers[ClientWaits(c)] = ClientHandler(client[c])
<1>1. Handlers[ClientWaits(c)] = ClientHandler(client[c])
  BY HandlerTypes DEF Handlers
<1>. QED  BY SMT, <1>1 DEF Suspended, ClientHandler

\* A panic leaves the queues and the handlers alone.
LEMMA PanicRpc ==
    ASSUME StepFacts, RpcInv, Panic
    PROVE  RpcInv'
<1>1. UNCHANGED <<client, callbacks, from_tako, to_tako, tako_responses, control>>
  BY DEF Panic, handlerVars, rpcVars, streamVars
<1>2. QueueTypes(from_tako', to_tako', tako_responses') /\ ControlStep(control, control')
  BY <1>1, LifeTypes DEF StepFacts, ControlStep
<1>. QED  BY <1>1, <1>2, NoHandlerInv

\* A submit starts to wait for its stream.
LEMMA RegisterAppend ==
    ASSUME NEW H, NEW G, NEW c \in Clients, Only(H, G, ClientWaits(c)), Quiet(H[ClientWaits(c)]),
           NEW job \in Nat, G[ClientWaits(c)] = Sent("register", job),
           NEW ctl \in Seq(Control), RegisterOK(ctl, H)
    PROVE  RegisterOK(Append(ctl, [type |-> "RegisterStream", job |-> job, client |-> c]), G)
<1>. DEFINE msg == [type |-> "RegisterStream", job |-> job, client |-> c]
            ctl2 == Append(ctl, msg)
<1>0. ClientWaits(c) \in Waiting
  BY HandlerTypes
<1>1. RegisterOK(ctl, G)
  BY <1>0, RegisterFrame DEF Quiet, ControlStep
<1>2. /\ Len(ctl2) = Len(ctl) + 1 /\ Len(ctl) \in Nat /\ ctl2[Len(ctl) + 1] = msg
      /\ \A i \in 1 .. Len(ctl) : ctl2[i] = ctl[i]
  BY SMT
<1>3. \A i \in 1 .. Len(ctl) : ctl[i].type = "RegisterStream" => ctl[i].client # c
  BY DEF RegisterOK, Quiet
<1>4. /\ G[ClientWaits(c)].pc = "register" /\ G[ClientWaits(c)].job = job
      /\ G[ClientWaits(c)].reply = {}
      /\ msg.type = "RegisterStream" /\ msg.client = c /\ msg.job = job
  BY SMT DEF Sent
<1>. HIDE DEF msg, ctl2
<1>5. \A i \in 1 .. Len(ctl2) : i \in 1 .. Len(ctl) \/ i = Len(ctl) + 1
  BY SMT, <1>2
<1>6. ASSUME NEW i \in 1 .. Len(ctl2), ctl2[i].type = "RegisterStream"
      PROVE  /\ G[ClientWaits(ctl2[i].client)].pc = "register"
             /\ G[ClientWaits(ctl2[i].client)].job = ctl2[i].job
             /\ G[ClientWaits(ctl2[i].client)].reply = {}
  BY <1>1, <1>2, <1>4, <1>5, <1>6 DEF RegisterOK
<1>7. ASSUME NEW i \in 1 .. Len(ctl2), NEW k \in 1 .. Len(ctl2),
             ctl2[i].type = "RegisterStream", ctl2[k].type = "RegisterStream",
             ctl2[i].client = ctl2[k].client
      PROVE  i = k
  <2>1. CASE i \in 1 .. Len(ctl) /\ k \in 1 .. Len(ctl)
    BY <1>1, <1>2, <1>7, <2>1 DEF RegisterOK
  <2>2. CASE i = Len(ctl) + 1 /\ k \in 1 .. Len(ctl)
    BY <1>2, <1>3, <1>4, <1>7, <2>2
  <2>3. CASE k = Len(ctl) + 1 /\ i \in 1 .. Len(ctl)
    BY <1>2, <1>3, <1>4, <1>7, <2>3
  <2>. QED  BY <1>5, <2>1, <2>2, <2>3
<1>8. RegisterOK(ctl2, G)
  BY <1>6, <1>7 DEF RegisterOK
<1>. QED  BY <1>8 DEF msg, ctl2

\* A submit is about a job that exists.
LEMMA SubmitsKnown ==
    ASSUME RpcInv, NEW who \in Waiting, Handlers[who].pc \in Submitting
    PROVE  Handlers[who].job \in DOMAIN jobs
<1>1. HandlerOK(Handlers[who], TasksOf(jobs))
  BY DEF RpcInv, HandlersOK
<1>. QED  BY <1>1 DEF HandlerOK, Submitting, TasksOf

\* A submit that suspends keeps the queues in step.
LEMMA SubmittedRpc ==
    ASSUME StepFacts, RpcInv, NEW c \in Clients, NEW spec, Submitted(c, spec)
    PROVE  RpcInv'
<1>. DEFINE who == ClientWaits(c)
            j == job_id_counter
<1>1. /\ DOMAIN jobs' = DOMAIN jobs \cup {j} /\ j \notin DOMAIN jobs
      /\ jobs'[j] = new(task_id_counter, spec)
  BY SMTT(30) DEF StepFacts, BasicInv, TypeOK, StateTypeOK, Submitted, Insert
<1>2. DOMAIN TasksOf(jobs') = DOMAIN jobs' /\ TasksOf(jobs')[j] = DOMAIN new(task_id_counter, spec).tasks
  BY <1>1 DEF TasksOf
<1>3. who \in Waiting /\ Only(Handlers, Handlers', who) /\ Quiet(Handlers[who])
  BY HandlerTypes DEF Submitted
<1>4. Handlers'[who] \in {Sent("register", j), Sent("newtasks", j)}
  BY DEF Submitted
<1>. HIDE DEF who
<1>5. HandlerStep(who)
  <2>1. Handlers'[who].job = j /\ HandlerOK(Handlers'[who], TasksOf(jobs'))
    BY SMT, <1>1, <1>2, <1>4, SentOK
  <2>2. Distinguished(Handlers, Handlers', who)
    BY <1>1, <2>1, SubmitsKnown DEF Distinguished
  <2>. QED  BY <1>3, <2>1, <2>2, QuietOK DEF HandlerStep
<1>6. KeysOK'
  <2>1. callbacks' = callbacks
    BY DEF Submitted
  <2>. QED  BY <2>1, KeysFrame DEF RpcInv
<1>7. CASE spec.log
  <2>1. /\ control' = Append(control, [type |-> "RegisterStream", job |-> j, client |-> c])
        /\ Handlers'[who] = Sent("register", j)
        /\ UNCHANGED <<from_tako, to_tako, tako_responses>>
    BY <1>7 DEF Submitted, rpcVars, who
  <2>2. j \in Nat /\ control \in Seq(Control)
    BY LifeTypes DEF StepFacts, BasicInv, TypeOK, StateTypeOK
  <2>3. RegisterOK(control', Handlers')
    BY <1>3, <2>1, <2>2, RegisterAppend DEF RpcInv, who
  <2>4. QueuesOK(from_tako', to_tako', tako_responses', Handlers', TasksOf(jobs'))
    BY <1>5, <2>1, HandlerStepInv
  <2>. QED  BY <1>5, <1>6, <2>3, <2>4, HandlerStepInv DEF RpcInv
<1>8. CASE ~ spec.log
  <2>. DEFINE msg == NewTasks(new(task_id_counter, spec))
  <2>1. /\ send_tako_message(msg, who) /\ UNCHANGED from_tako
        /\ Handlers'[who] = Sent("newtasks", j)
        /\ ControlStep(control, control')
    BY <1>8 DEF Submitted, who, ControlStep
  <2>2. msg \in ToTako
    <3>1. JobTypeOK(jobs'[j])
      BY <1>1 DEF StepFacts, BasicInv, TypeOK, StateTypeOK
    <3>. QED  BY <1>1, <3>1 DEF NewTasks, ToTako, JobTypeOK
  <2>3. Asked(msg, Handlers'[who], TasksOf(jobs')) /\ Waits(Handlers'[who])
    <3>1. msg.type = "NewTasks" /\ msg.tasks = DOMAIN new(task_id_counter, spec).tasks
      BY DEF NewTasks
    <3>2. Handlers'[who].pc = "newtasks" /\ Handlers'[who].job = j /\ Handlers'[who].reply = {}
      BY SMT, <2>1 DEF Sent
    <3>3. j \in DOMAIN TasksOf(jobs')
      BY <1>1, <1>2
    <3>. QED  BY <1>2, <3>1, <3>2, <3>3 DEF Asked, Waits
  <2>. HIDE DEF msg
  <2>. QED  BY <1>5, <1>6, <2>1, <2>2, <2>3, SendInv
<1>. QED  BY <1>7, <1>8

\* handle_submit, and with it handle_resubmit.
LEMMA SubmitRpc ==
    ASSUME StepFacts, RpcInv, NEW c \in Clients, NEW spec, handle_submit(c, spec)
    PROVE  RpcInv'
  BY SubmitEffect, SubmittedRpc, PanicRpc DEF StepFacts

\* That keeps the queues in step.
LEMMA RegisteredRpc ==
    ASSUME StepFacts, RpcInv, NEW c \in Clients, submit_registered(c)
    PROVE  RpcInv'
<1>. DEFINE who == ClientWaits(c)
            j == Handlers[who].job
            msg == NewTasks(jobs[j])
<1>1. /\ Handlers[who].pc = "register" /\ Handlers[who].reply # {}
      /\ Handlers'[who] = Sent("newtasks", j)
      /\ Only(Handlers, Handlers', who)
      /\ send_tako_message(msg, who)
  BY RegisteredEffect DEF SendsTasks, StepFacts
<1>2. who \in Waiting
  BY HandlerTypes
<1>3. j \in DOMAIN jobs /\ DOMAIN TasksOf(jobs') = DOMAIN jobs' /\ jobs' = jobs
  BY <1>1, <1>2, SubmitsKnown DEF Submitting, submit_registered, stateVars, TasksOf
<1>4. TasksOf(jobs')[j] = DOMAIN jobs[j].tasks
  BY <1>3 DEF TasksOf
<1>5. msg \in ToTako
  BY <1>3 DEF StepFacts, BasicInv, TypeOK, StateTypeOK, NewTasks, ToTako, JobTypeOK
<1>6. msg.type = "NewTasks" /\ msg.tasks = DOMAIN jobs[j].tasks
  BY DEF NewTasks
<1>. HIDE DEF who, j, msg
<1>7. HandlerStep(who)
  <2>1. Handlers'[who].job = j /\ HandlerOK(Handlers'[who], TasksOf(jobs'))
    BY SMT, <1>1, <1>3, SentOK
  <2>2. Distinguished(Handlers, Handlers', who)
    BY <1>1, <1>2, <2>1 DEF Distinguished, RpcInv, SubmitsDiffer, Submitting, j
  <2>. QED  BY <1>1, <1>2, <2>1, <2>2 DEF HandlerStep, Suspended
<1>8. Asked(msg, Handlers'[who], TasksOf(jobs')) /\ Waits(Handlers'[who])
  BY SMT, <1>1, <1>3, <1>4, <1>6 DEF Asked, Sent, Waits
<1>9. KeysOK' /\ ControlStep(control, control') /\ UNCHANGED from_tako
  BY KeysFrame DEF RpcInv, submit_registered, ControlStep, streamVars
<1>. QED  BY <1>1, <1>5, <1>7, <1>8, <1>9, SendInv

\* A client's request has been answered.
LEMMA QuietRpc ==
    ASSUME StepFacts, RpcInv, NEW who \in Waiting, Only(Handlers, Handlers', who),
           ~ Suspended(Handlers[who]), Quiet(Handlers'[who]), KeysOK',
           ControlStep(control, control'), UNCHANGED <<from_tako, to_tako, tako_responses>>
    PROVE  RpcInv'
<1>1. HandlerStep(who)
  BY QuietOK DEF HandlerStep, Distinguished
<1>. QED  BY <1>1, SilentInv

\* A handler that is no submit has sent a request.
LEMMA SentRpc ==
    ASSUME StepFacts, RpcInv, NEW who \in Waiting, Only(Handlers, Handlers', who),
           ~ Suspended(Handlers[who]), HandlerOK(Handlers'[who], TasksOf(jobs')),
           Waits(Handlers'[who]), Handlers'[who].pc \notin Submitting, KeysOK',
           ControlStep(control, control'), UNCHANGED from_tako,
           NEW msg \in ToTako, send_tako_message(msg, who),
           Asked(msg, Handlers'[who], TasksOf(jobs'))
    PROVE  RpcInv'
<1>1. HandlerStep(who)
  BY DEF HandlerStep, Distinguished
<1>. QED  BY <1>1, SendInv

\* The loop over the jobs to cancel goes on.
LEMMA CancelsRpc ==
    ASSUME StepFacts, RpcInv, NEW c \in Clients, Only(Handlers, Handlers', ClientWaits(c)),
           ~ Suspended(Handlers[ClientWaits(c)]), CancelsNext(c, jobs'),
           ControlStep(control, control'), UNCHANGED <<callbacks, from_tako>>
    PROVE  RpcInv'
<1>1. ClientWaits(c) \in Waiting
  BY HandlerTypes
<1>2. KeysOK'
  BY KeysFrame DEF RpcInv
<1>3. CASE Quiet(Handlers'[ClientWaits(c)]) /\ UNCHANGED rpcVars
  BY <1>1, <1>2, <1>3, QuietRpc DEF rpcVars
<1>4. CASE \E j \in DOMAIN jobs' :
               /\ Handlers'[ClientWaits(c)] = Sent("cancel", j)
               /\ send_tako_message(CancelTasks(non_finished_task_ids(jobs'[j])), ClientWaits(c))
  <2>1. PICK j \in DOMAIN jobs' :
               /\ Handlers'[ClientWaits(c)] = Sent("cancel", j)
               /\ send_tako_message(CancelTasks(non_finished_task_ids(jobs'[j])), ClientWaits(c))
    BY <1>4
  <2>. DEFINE msg == CancelTasks(non_finished_task_ids(jobs'[j]))
              h == Handlers'[ClientWaits(c)]
              T == TasksOf(jobs')
  <2>2. j \in DOMAIN T /\ T[j] = DOMAIN jobs'[j].tasks
    BY DEF TasksOf
  <2>3. DOMAIN jobs'[j].tasks \subseteq Nat
    BY DEF StepFacts, BasicInv, TypeOK, StateTypeOK, JobTypeOK
  <2>4. /\ msg.type = "CancelTasks" /\ msg.tasks \subseteq DOMAIN jobs'[j].tasks
        /\ msg \in ToTako
    BY <2>3 DEF CancelTasks, non_finished_task_ids, InState, ToTako
  <2>. HIDE DEF msg, h, T
  <2>5. HandlerOK(h, T) /\ Waits(h) /\ h.pc = "cancel" /\ h.job = j
    BY SMT, <2>1, <2>2, SentOK DEF h
  <2>6. Asked(msg, h, T)
    BY <2>2, <2>4, <2>5 DEF Asked
  <2>7. send_tako_message(msg, ClientWaits(c))
    BY <2>1 DEF msg
  <2>. QED  BY <1>1, <1>2, <2>4, <2>5, <2>6, <2>7, SentRpc DEF h, T, Submitting
<1>. QED  BY <1>3, <1>4 DEF CancelsNext

\* The loop over the workers to stop goes on.
LEMMA StopsRpc ==
    ASSUME StepFacts, RpcInv, NEW c \in Clients, Only(Handlers, Handlers', ClientWaits(c)),
           ~ Suspended(Handlers[ClientWaits(c)]), StopsNext(c),
           UNCHANGED <<callbacks, from_tako, control>>
    PROVE  RpcInv'
<1>1. ClientWaits(c) \in Waiting
  BY HandlerTypes
<1>2. KeysOK' /\ ControlStep(control, control')
  BY KeysFrame DEF RpcInv, ControlStep
<1>3. CASE Quiet(Handlers'[ClientWaits(c)]) /\ UNCHANGED rpcVars
  BY <1>1, <1>2, <1>3, QuietRpc DEF rpcVars
<1>4. CASE \E w \in Workers :
               /\ Handlers'[ClientWaits(c)] = Sent("stop", 0)
               /\ send_tako_message([type |-> "StopWorker", worker |-> w], ClientWaits(c))
  <2>1. PICK w \in Workers :
               /\ Handlers'[ClientWaits(c)] = Sent("stop", 0)
               /\ send_tako_message([type |-> "StopWorker", worker |-> w], ClientWaits(c))
    BY <1>4
  <2>. DEFINE msg == [type |-> "StopWorker", worker |-> w]
              h == Handlers'[ClientWaits(c)]
              T == TasksOf(jobs')
  <2>4. msg.type = "StopWorker" /\ msg \in ToTako
    BY DEF ToTako
  <2>. HIDE DEF msg, h, T
  <2>5. HandlerOK(h, T) /\ Waits(h) /\ h.pc = "stop"
    <3>1. HandlerOK(Sent("stop", 0), T) /\ Waits(Sent("stop", 0)) /\ Sent("stop", 0).pc = "stop"
      BY SentOK
    <3>. QED  BY <2>1, <3>1 DEF h
  <2>6. Asked(msg, h, T)
    BY <2>4, <2>5 DEF Asked
  <2>7. send_tako_message(msg, ClientWaits(c))
    BY <2>1 DEF msg
  <2>. QED  BY <1>1, <1>2, <2>4, <2>5, <2>6, <2>7, SentRpc DEF h, T, Submitting
<1>. QED  BY <1>3, <1>4 DEF StopsNext

\* submit_finished answers the client.
LEMMA FinishedRpc ==
    ASSUME StepFacts, RpcInv, NEW c \in Clients, submit_finished(c)
    PROVE  RpcInv'
<1>1. CASE Panic
  BY <1>1, PanicRpc
<1>2. CASE /\ Answer(c)
           /\ UNCHANGED <<stateVars, workers, told_canceled, callbacks, rpcVars,
                          from_tako, takoVars, streamVars, broken>>
  <2>1. client[c].reply # {} /\ UNCHANGED <<callbacks, control, from_tako, to_tako, tako_responses>>
    BY <1>2 DEF submit_finished, streamVars, rpcVars
  <2>2. Only(Handlers, Handlers', ClientWaits(c)) /\ Quiet(Handlers'[ClientWaits(c)])
    BY <1>2, <2>1, AnswerEffect DEF StepFacts
  <2>3. KeysOK' /\ ControlStep(control, control') /\ ClientWaits(c) \in Waiting
    BY <2>1, KeysFrame, HandlerTypes DEF RpcInv, ControlStep
  <2>. QED  BY <2>1, <2>2, <2>3, AnsweredClient, QuietRpc
<1>. QED  BY <1>1, <1>2 DEF submit_finished

\* handle_job_cancel starts its loop.
LEMMA CancelRpc ==
    ASSUME StepFacts, RpcInv, NEW c \in Clients, NEW todo \in IdList, handle_job_cancel(c, todo)
    PROVE  RpcInv'
<1>1. /\ client[c].pc = "idle" /\ cancel_loop(c, todo, jobs, told_canceled)
      /\ UNCHANGED <<jobs, callbacks, from_tako, control>>
  BY DEF handle_job_cancel, stateVars, streamVars
<1>2. Only(Handlers, Handlers', ClientWaits(c)) /\ CancelsNext(c, jobs)
  BY <1>1, CancelLoopEffect DEF StepFacts
<1>3. ~ Suspended(Handlers[ClientWaits(c)])
  BY <1>1, IdleQuiet, QuietOK DEF StepFacts
<1>4. CancelsNext(c, jobs') /\ ControlStep(control, control')
  BY <1>1, <1>2 DEF ControlStep
<1>. QED  BY <1>1, <1>2, <1>3, <1>4, CancelsRpc

\* set_cancel_state may end the stream of the job.
LEMMA ApplyCancelControl ==
    ASSUME NEW job_id \in Nat, NEW ids, apply_cancel(job_id, ids)
    PROVE  ControlStep(control, control')
<1>. DEFINE msg == [type |-> "UnregisterStream", job |-> job_id]
<1>1. msg \in Control /\ msg.type = "UnregisterStream"
  BY DEF Control
<1>2. control' = control \/ control' = Append(control, msg)
  BY DEF apply_cancel, UnregisterStream
<1>. QED  BY <1>1, <1>2 DEF ControlStep

\* handle_job_cancel goes on with tako's answer.
LEMMA CancelAnsweredRpc ==
    ASSUME StepFacts, RpcInv, NEW c \in Clients, cancel_answered(c)
    PROVE  RpcInv'
<1>1. PICK msg \in client[c].reply :
        \/ /\ apply_cancel(client[c].job, msg.tasks)
           /\ cancel_loop(c, client[c].todo, jobs', told_canceled \cup {client[c].job})
           /\ UNCHANGED <<workers, callbacks, from_tako, takoVars, registrations, broken>>
        \/ /\ cancel_loop(c, client[c].todo, jobs, told_canceled)
           /\ UNCHANGED <<stateVars, workers, callbacks, from_tako, takoVars, streamVars, broken>>
        \/ Panic
  BY DEF cancel_answered
<1>2. client[c].todo \in IdList /\ client[c].job \in Nat
  BY LifeTypes DEF StepFacts, ClientState, IdList
<1>3. ~ Suspended(Handlers[ClientWaits(c)])
  BY <1>1, AnsweredClient
<1>4. CASE /\ apply_cancel(client[c].job, msg.tasks)
           /\ cancel_loop(c, client[c].todo, jobs', told_canceled \cup {client[c].job})
           /\ UNCHANGED <<workers, callbacks, from_tako, takoVars, registrations, broken>>
  <2>1. ControlStep(control, control')
    BY <1>2, <1>4, ApplyCancelControl
  <2>2. Only(Handlers, Handlers', ClientWaits(c)) /\ CancelsNext(c, jobs')
    BY <1>2, <1>4, CancelLoopEffect DEF StepFacts
  <2>. QED  BY <1>3, <1>4, <2>1, <2>2, CancelsRpc
<1>5. CASE /\ cancel_loop(c, client[c].todo, jobs, told_canceled)
           /\ UNCHANGED <<stateVars, workers, callbacks, from_tako, takoVars, streamVars, broken>>
  <2>1. ControlStep(control, control') /\ jobs' = jobs /\ UNCHANGED <<callbacks, from_tako>>
    BY <1>5 DEF ControlStep, streamVars, stateVars
  <2>2. Only(Handlers, Handlers', ClientWaits(c)) /\ CancelsNext(c, jobs)
    BY <1>2, <1>5, <2>1, CancelLoopEffect DEF StepFacts
  <2>. QED  BY <1>3, <2>1, <2>2, CancelsRpc
<1>. QED  BY <1>1, <1>4, <1>5, PanicRpc

\* handle_worker_stop starts its loop and goes on with it.
LEMMA StopRpc ==
    ASSUME StepFacts, RpcInv, NEW c \in Clients, NEW todo \in IdList,
           handle_worker_stop(c, todo) \/ stop_answered(c)
    PROVE  RpcInv'
<1>1. CASE handle_worker_stop(c, todo)
  <2>1. /\ client[c].pc = "idle" /\ stop_loop(c, todo)
        /\ UNCHANGED <<callbacks, from_tako, control>>
    BY <1>1 DEF handle_worker_stop, streamVars
  <2>2. ~ Suspended(Handlers[ClientWaits(c)])
    BY <2>1, IdleQuiet, QuietOK DEF StepFacts
  <2>3. Only(Handlers, Handlers', ClientWaits(c)) /\ StopsNext(c)
    BY <2>1, StopLoopEffect DEF StepFacts
  <2>. QED  BY <2>1, <2>2, <2>3, StopsRpc
<1>2. CASE stop_answered(c)
  <2>1. client[c].todo \in IdList
    BY LifeTypes DEF StepFacts, ClientState, IdList
  <2>2. CASE Panic
    BY <2>2, PanicRpc
  <2>3. CASE ~ Panic
    <3>1. /\ client[c].reply # {} /\ stop_loop(c, client[c].todo)
          /\ UNCHANGED <<callbacks, from_tako, control>>
      BY <1>2, <2>3 DEF stop_answered, streamVars
    <3>2. ~ Suspended(Handlers[ClientWaits(c)])
      BY <3>1, AnsweredClient
    <3>3. Only(Handlers, Handlers', ClientWaits(c)) /\ StopsNext(c)
      BY <2>1, <3>1, StopLoopEffect DEF StepFacts
    <3>. QED  BY <3>1, <3>2, <3>3, StopsRpc
  <2>. QED  BY <2>2, <2>3
<1>. QED  BY <1>1, <1>2

\* A connection breaks or ends.
LEMMA ConnectionRpc ==
    ASSUME StepFacts, RpcInv, NEW c \in Clients, connection_lost(c) \/ connection_ended(c)
    PROVE  RpcInv'
<1>1. CASE connection_lost(c)
  <2>1. UNCHANGED <<client, callbacks, control, from_tako, to_tako, tako_responses>>
    BY <1>1 DEF connection_lost, handlerVars, rpcVars, streamVars
  <2>2. QueueTypes(from_tako', to_tako', tako_responses') /\ ControlStep(control, control')
    BY <2>1, LifeTypes DEF StepFacts, ControlStep
  <2>. QED  BY <2>1, <2>2, NoHandlerInv
<1>2. CASE connection_ended(c)
  <2>1. /\ client[c].pc = "idle" /\ Answer(c)
        /\ UNCHANGED <<callbacks, control, from_tako, to_tako, tako_responses>>
    BY <1>2 DEF connection_ended, streamVars, rpcVars
  <2>2. Only(Handlers, Handlers', ClientWaits(c)) /\ Quiet(Handlers'[ClientWaits(c)])
    BY <2>1, AnswerEffect DEF StepFacts
  <2>3. ~ Suspended(Handlers[ClientWaits(c)])
    BY <2>1, IdleQuiet, QuietOK DEF StepFacts
  <2>4. KeysOK' /\ ControlStep(control, control') /\ ClientWaits(c) \in Waiting
    BY <2>1, KeysFrame, HandlerTypes DEF RpcInv, ControlStep
  <2>. QED  BY <2>1, <2>2, <2>3, <2>4, QuietRpc
<1>. QED  BY <1>1, <1>2

\* The requests of a client and what becomes of them.
LEMMA ClientRpc ==
    ASSUME StepFacts, RpcInv, NEW c \in Clients,
           Request(c) \/ Resume(c) \/ connection_lost(c) \/ connection_ended(c)
    PROVE  RpcInv'
<1>0. JobIds \cup {<<w>> : w \in Workers} \cup Orderings(Online) \subseteq IdList
  BY DEF StepFacts
<1>1. CASE \E spec \in JobSpecs : handle_submit(c, spec)
  BY <1>1, SubmitRpc
<1>2. CASE \E j \in DOMAIN jobs, filter \in Filters : handle_resubmit(c, j, filter)
  BY <1>2, SubmitRpc DEF handle_resubmit
<1>3. CASE \E todo \in JobIds : handle_job_cancel(c, todo)
  BY <1>0, <1>3, CancelRpc
<1>4. CASE \E todo \in {<<w>> : w \in Workers} \cup Orderings(Online) : handle_worker_stop(c, todo)
  BY <1>0, <1>4, StopRpc
<1>5. CASE Resume(c)
  <2>1. client[c].todo \in IdList
    BY LifeTypes DEF StepFacts, ClientState, IdList
  <2>. QED  BY <1>5, <2>1, RegisteredRpc, FinishedRpc, CancelAnsweredRpc, StopRpc DEF Resume
<1>. QED  BY <1>1, <1>2, <1>3, <1>4, <1>5, ConnectionRpc DEF Request
----------------------------------------------------------------------------
(* The other actions, one by one.                                          *)

\* The spawned cancel sends its request.
LEMMA CallbackSendRpc ==
    ASSUME StepFacts, RpcInv, NEW t \in DOMAIN callbacks, callback_send(t)
    PROVE  RpcInv'
<1>. DEFINE who == CallbackWaits(t)
            msg == CancelTasks(callbacks[t].tasks)
            T == TasksOf(jobs')
            cb == [callbacks[t] EXCEPT !.sent = TRUE]
<1>1. t \in Nat /\ callbacks \in [DOMAIN callbacks -> CallbackState] /\ callbacks[t] \in CallbackState
  BY LifeTypes DEF StepFacts
<1>2. /\ ~ callbacks[t].sent /\ send_tako_message(msg, who)
      /\ callbacks' = [callbacks EXCEPT ![t] = cb]
      /\ UNCHANGED <<client, from_tako, control, jobs>>
  BY <1>1 DEF callback_send, stateVars, streamVars, CallbackState
<1>3. DOMAIN callbacks' = DOMAIN callbacks /\ callbacks'[t] = cb
      /\ \A u \in Nat \ {t} : u \in DOMAIN callbacks => callbacks'[u] = callbacks[u]
  BY <1>1, <1>2
<1>4. /\ who \in Waiting /\ Only(Handlers, Handlers', who)
      /\ Handlers[who] = CallbackHandler(callbacks[t])
      /\ Handlers'[who] = CallbackHandler(cb)
  BY <1>1, <1>2, <1>3, CallbackStep
<1>5. HandlerOK(CallbackHandler(callbacks[t]), TasksOf(jobs))
  BY <1>4 DEF RpcInv, HandlersOK
<1>6. /\ CallbackHandler(callbacks[t]).pc = "spawned"
      /\ CallbackHandler(callbacks[t]).job = callbacks[t].job
      /\ CallbackHandler(callbacks[t]).tasks = callbacks[t].tasks
      /\ CallbackHandler(callbacks[t]).reply = callbacks[t].reply
  BY <1>2 DEF CallbackHandler
<1>7. callbacks[t].reply = {} /\ callbacks[t].job \in DOMAIN T
      /\ callbacks[t].tasks \subseteq T[callbacks[t].job]
  BY <1>2, <1>5, <1>6 DEF HandlerOK, Answers
<1>8. /\ CallbackHandler(cb).pc = "cancel" /\ CallbackHandler(cb).job = callbacks[t].job
      /\ CallbackHandler(cb).reply = {}
  BY <1>1, <1>7 DEF CallbackHandler, CallbackState
<1>9. msg \in ToTako /\ msg.type = "CancelTasks" /\ msg.tasks = callbacks[t].tasks
  BY <1>1 DEF CancelTasks, ToTako, CallbackState
<1>10. KeysOK' /\ ControlStep(control, control')
  <2>1. cb.job = callbacks[t].job
    BY <1>1 DEF CallbackState
  <2>2. \A u \in DOMAIN callbacks' : u \in DOMAIN callbacks /\ callbacks'[u].job = callbacks[u].job
    BY <1>1, <1>3, <2>1, LifeTypes DEF StepFacts
  <2>. QED  BY <1>2, <2>2, KeysFrame DEF RpcInv, ControlStep
<1>. HIDE DEF who, msg, T, cb
<1>11. ~ Suspended(Handlers[who])
  BY <1>4, <1>6 DEF Suspended
<1>12. /\ HandlerOK(Handlers'[who], T) /\ Waits(Handlers'[who])
       /\ Handlers'[who].pc \notin Submitting /\ Asked(msg, Handlers'[who], T)
  BY <1>4, <1>7, <1>8, <1>9 DEF HandlerOK, Waits, Submitting, Asked
<1>. QED  BY <1>2, <1>4, <1>9, <1>10, <1>11, <1>12, SentRpc DEF T

\* The spawned cancel ends.
LEMMA CallbackAnsweredRpc ==
    ASSUME StepFacts, RpcInv, NEW t \in DOMAIN callbacks, callback_answered(t)
    PROVE  RpcInv'
<1>. DEFINE who == CallbackWaits(t)
<1>1. t \in Nat /\ callbacks[t] \in CallbackState
  BY LifeTypes DEF StepFacts
<1>2. PICK msg \in callbacks[t].reply :
        \/ /\ apply_cancel(callbacks[t].job, msg.tasks)
           /\ callbacks' = Remove(callbacks, {t})
           /\ UNCHANGED <<workers, client, told_canceled, rpcVars, from_tako,
                          takoVars, registrations, processVars>>
        \/ /\ callbacks' = Remove(callbacks, {t})
           /\ UNCHANGED <<stateVars, workers, client, told_canceled, rpcVars,
                          from_tako, takoVars, streamVars, processVars>>
        \/ Panic
  BY DEF callback_answered
<1>3. CASE Panic
  BY <1>3, PanicRpc
<1>4. CASE ~ Panic
  <2>1. /\ callbacks' = Remove(callbacks, {t})
        /\ UNCHANGED <<client, from_tako, to_tako, tako_responses>>
    BY <1>2, <1>4 DEF rpcVars
  <2>2. ControlStep(control, control')
    <3>1. callbacks[t].job \in Nat
      BY <1>1 DEF CallbackState
    <3>. QED  BY <1>2, <1>4, <3>1, ApplyCancelControl DEF ControlStep, streamVars
  <2>3. /\ DOMAIN callbacks' = DOMAIN callbacks \ {t}
        /\ \A u \in DOMAIN callbacks' : u \in DOMAIN callbacks /\ callbacks'[u] = callbacks[u]
    BY <2>1 DEF Remove
  <2>4. /\ who \in Waiting /\ Only(Handlers, Handlers', who)
        /\ Handlers[who] = CallbackHandler(callbacks[t])
        /\ Handlers'[who] = NoHandler
    BY <1>1, <2>1, <2>3, CallbackStep
  <2>5. ~ Suspended(Handlers[who]) /\ Quiet(Handlers'[who])
    BY SMTT(30), <1>2, <2>4 DEF Suspended, CallbackHandler, Quiet, NoHandler
  <2>6. KeysOK'
    BY <2>3, KeysFrame DEF RpcInv
  <2>. QED  BY <2>1, <2>2, <2>4, <2>5, <2>6, QuietRpc
<1>. QED  BY <1>3, <1>4

\* A report is read and no handler is concerned.
LEMMA ReadRpc ==
    ASSUME StepFacts, RpcInv, UNCHANGED <<client, callbacks, to_tako, tako_responses>>,
           from_tako # <<>>, Head(from_tako).type \notin Responses, from_tako' = Tail(from_tako),
           ControlStep(control, control')
    PROVE  RpcInv'
<1>1. QueueTypes(from_tako, to_tako, tako_responses) /\ QueueTypes(from_tako', to_tako', tako_responses')
  BY LifeTypes DEF StepFacts, BasicInv, TypeOK, RpcTypeOK, QueueTypes
<1>2. QueuesOK(Tail(from_tako), to_tako, tako_responses, Handlers, TasksOf(jobs))
  BY <1>1, QueuesRead DEF RpcInv
<1>. QED  BY <1>1, <1>2, NoHandlerInv

\* The end of a task may end the stream of the job.
LEMMA UnregisterControl ==
    ASSUME NEW job_id \in Nat, NEW job, UnregisterStream(job_id, job)
    PROVE  ControlStep(control, control')
<1>. DEFINE msg == [type |-> "UnregisterStream", job |-> job_id]
<1>1. msg \in Control /\ msg.type = "UnregisterStream"
  BY DEF Control
<1>2. control' = control \/ control' = Append(control, msg)
  BY DEF UnregisterStream
<1>. QED  BY <1>1, <1>2 DEF ControlStep

\* Reports on tasks and workers that spawn nothing.
LEMMA ReportsRpc ==
    ASSUME StepFacts, RpcInv,
           \/ process_task_running \/ process_task_finished \/ process_task_waiting
           \/ process_worker_new \/ process_worker_lost
    PROVE  RpcInv'
<1>1. CASE Panic
  BY <1>1, PanicRpc
<1>2. CASE ~ Panic
  <2>1. /\ UNCHANGED <<client, callbacks, to_tako, tako_responses>>
        /\ from_tako # <<>> /\ Head(from_tako).type \notin Responses
        /\ from_tako' = Tail(from_tako)
    BY <1>2 DEF process_task_running, process_task_finished, process_task_waiting,
                process_worker_new, process_worker_lost, Receive, Received, Responses,
                handlerVars, rpcVars
  <2>2. ControlStep(control, control')
    <3>1. CASE process_task_finished
      <4>1. /\ get_job_by_tako_task_id(Head(from_tako).task) # NoJob
            /\ \E job : UnregisterStream(get_job_by_tako_task_id(Head(from_tako).task), job)
            /\ Receive("Finished")
        BY <1>2, <3>1 DEF process_task_finished
      <4>2. get_job_by_tako_task_id(Head(from_tako).task) \in DOMAIN jobs /\ DOMAIN jobs \subseteq Nat
        BY <4>1, ReportedTask DEF StepFacts, BasicInv, TypeOK, StateTypeOK
      <4>. QED  BY <4>1, <4>2, UnregisterControl
    <3>2. CASE ~ process_task_finished
      BY <1>2, <3>2 DEF process_task_running, process_task_waiting,
                process_worker_new, process_worker_lost, streamVars, ControlStep
    <3>. QED  BY <3>1, <3>2
  <2>. QED  BY <2>1, <2>2, ReadRpc
<1>. QED  BY <1>1, <1>2

\* The failed task ends in its state.
LEMMA FailedTask ==
    ASSUME BasicInv, NEW t, NEW job_id \in DOMAIN jobs, Spawned(t, job_id)
    PROVE  /\ jobs'[job_id].tasks = [jobs[job_id].tasks EXCEPT ![t] = "Failed"]
           /\ DOMAIN jobs' = DOMAIN jobs
<1>1. jobs[job_id] \in JobRecord(DOMAIN jobs[job_id].tasks)
  BY DEF BasicInv, TypeOK, StateTypeOK, JobTypeOK
<1>2. jobs'[job_id] = set_failed_state(jobs[job_id], t) /\ DOMAIN jobs' = DOMAIN jobs
  BY DEF Spawned
<1>3. set_failed_state(jobs[job_id], t).tasks = [jobs[job_id].tasks EXCEPT ![t] = "Failed"]
  BY <1>1 DEF set_failed_state, check_termination, JobRecord
<1>. QED  BY <1>2, <1>3

\* process_task_failed keeps the queues in step.
LEMMA FailedRpc ==
    ASSUME StepFacts, RpcInv, process_task_failed
    PROVE  RpcInv'
<1>1. CASE Panic
  BY <1>1, PanicRpc
<1>2. CASE ~ Panic
  <2>1. PICK t \in Nat, job_id \in DOMAIN jobs : Spawned(t, job_id)
    BY <1>2, FailedEffect DEF StepFacts
  <2>. DEFINE cb == [job |-> job_id, tasks |-> non_finished_task_ids(jobs'[job_id]),
                     sent |-> FALSE, reply |-> {}]
              who == CallbackWaits(t)
  <2>2. /\ UNCHANGED <<client, to_tako, tako_responses>>
        /\ from_tako # <<>> /\ Head(from_tako).type \notin Responses
        /\ from_tako' = Tail(from_tako) /\ job_id \in Nat
        /\ jobs[job_id].tasks[t] = "Running" /\ t \in DOMAIN jobs[job_id].tasks
    BY <2>1 DEF Spawned, Receive, Responses
  <2>3. ControlStep(control, control')
    BY <2>1, <2>2, UnregisterControl DEF Spawned
  <2>4. CASE callbacks' = callbacks
    BY <2>2, <2>3, <2>4, ReadRpc
  <2>5. CASE callbacks' = Insert(callbacks, t, cb)
    <3>1. t \notin DOMAIN callbacks
      <4>. SUFFICES ASSUME t \in DOMAIN callbacks  PROVE  FALSE
        OBVIOUS
      <4>1. /\ callbacks[t].job \in DOMAIN jobs /\ t \in DOMAIN jobs[callbacks[t].job].tasks
            /\ jobs[callbacks[t].job].tasks[t] \in Terminal
        BY DEF RpcInv, KeysOK, InState
      <4>2. callbacks[t].job = job_id
        BY <2>2, <4>1 DEF StepFacts, BasicInv
      <4>. QED  BY <2>2, <4>1, <4>2 DEF Terminal
    <3>2. /\ DOMAIN callbacks' = DOMAIN callbacks \cup {t} /\ callbacks'[t] = cb
          /\ \A u \in DOMAIN callbacks : u # t => callbacks'[u] = callbacks[u]
      BY <2>5, <3>1 DEF Insert
    <3>3. /\ who \in Waiting /\ Only(Handlers, Handlers', who)
          /\ Handlers[who] = NoHandler /\ Handlers'[who] = CallbackHandler(cb)
      <4>1. \A u \in Nat \ {t} : /\ u \in DOMAIN callbacks' <=> u \in DOMAIN callbacks
                                 /\ u \in DOMAIN callbacks => callbacks'[u] = callbacks[u]
        BY <3>2
      <4>. QED  BY <2>2, <3>1, <3>2, <4>1, CallbackStep
    <3>4. DOMAIN jobs' = DOMAIN jobs /\ jobs'[job_id].tasks = [jobs[job_id].tasks EXCEPT ![t] = "Failed"]
      BY <2>1, FailedTask DEF StepFacts
    <3>5. HandlerOK(CallbackHandler(cb), TasksOf(jobs'))
      BY <3>4 DEF HandlerOK, CallbackHandler, TasksOf, non_finished_task_ids, InState
    <3>6. HandlerStep(who)
      <4>1. CallbackHandler(cb).pc = "spawned"
        BY DEF CallbackHandler
      <4>. QED  BY SMT, <3>3, <3>5, <4>1 DEF HandlerStep, Suspended, NoHandler, Distinguished, Submitting
    <3>7. KeysOK'
      <4>1. t \in InState(jobs'[job_id], Terminal)
        <5>1. DOMAIN jobs'[job_id].tasks = DOMAIN jobs[job_id].tasks /\ jobs'[job_id].tasks[t] = "Failed"
          BY <2>2, <3>4
        <5>. QED  BY <2>2, <5>1 DEF InState, Terminal
      <4>2. cb.job = job_id
        OBVIOUS
      <4>3. \A u \in DOMAIN callbacks : /\ callbacks[u].job \in DOMAIN jobs'
                                        /\ u \in InState(jobs'[callbacks[u].job], Terminal)
        BY KeyStays DEF RpcInv
      <4>. HIDE DEF cb
      <4>4. ASSUME NEW u \in DOMAIN callbacks'
            PROVE  /\ callbacks'[u].job \in DOMAIN jobs'
                   /\ u \in InState(jobs'[callbacks'[u].job], Terminal)
        <5>1. CASE u = t
          BY <3>2, <3>4, <4>1, <4>2, <5>1
        <5>2. CASE u # t
          BY <3>2, <4>3, <5>2
        <5>. QED  BY <5>1, <5>2
      <4>. QED  BY <4>4 DEF KeysOK
    <3>8. QueueTypes(from_tako, to_tako, tako_responses)
      BY LifeTypes DEF StepFacts
    <3>9. /\ HandlersOK(Handlers', TasksOf(jobs')) /\ SubmitsDiffer(Handlers')
          /\ RegisterOK(control', Handlers')
          /\ QueuesOK(from_tako, to_tako, tako_responses, Handlers', TasksOf(jobs'))
      BY <2>3, <3>6, HandlerStepInv
    <3>10. QueuesOK(Tail(from_tako), to_tako, tako_responses, Handlers', TasksOf(jobs'))
      BY <2>2, <3>8, <3>9, QueuesRead
    <3>. QED  BY <2>2, <3>7, <3>9, <3>10 DEF RpcInv
  <2>. QED  BY <2>1, <2>4, <2>5 DEF Spawned
<1>. QED  BY <1>1, <1>2

\* A handler that gets the response to its request is fine.
LEMMA ReplyOK ==
    ASSUME NEW H, NEW G, NEW T, NEW who \in Waiting, NEW msg, Only(H, G, who),
           G[who] = Replied(H[who], msg), HandlersOK(H, T), SubmitsDiffer(H),
           (H[who].pc = "register" /\ msg.type = "Registered") \/ Answers(msg, H[who], T),
           H[who].pc # "spawned"
    PROVE  HandlersOK(G, T) /\ SubmitsDiffer(G)
<1>1. G[who].pc = H[who].pc /\ G[who].job = H[who].job /\ G[who].reply = {msg}
  BY SMT DEF Replied
<1>2. HandlerOK(H[who], T)
  BY DEF HandlersOK
<1>3. HandlerOK(G[who], T)
  BY <1>1, <1>2 DEF HandlerOK, Answers
<1>4. Grows(T, T)
  BY DEF Grows
<1>5. Distinguished(H, G, who)
  BY <1>1 DEF Distinguished, SubmitsDiffer, Submitting
<1>. QED  BY <1>3, <1>4, <1>5, OneHandler, OneSubmit

\* The head of the control queue is taken, and its client, if any, goes on.
LEMMA RegisterTail ==
    ASSUME NEW H, NEW G, NEW ctl \in Seq(Control), ctl # <<>>, RegisterOK(ctl, H),
           \A c \in Clients : \/ G[ClientWaits(c)] = H[ClientWaits(c)]
                              \/ Head(ctl).type = "RegisterStream" /\ Head(ctl).client = c
    PROVE  RegisterOK(Tail(ctl), G)
<1>. DEFINE ctl2 == Tail(ctl)
<1>1. /\ Len(ctl) \in Nat \ {0} /\ Len(ctl2) = Len(ctl) - 1 /\ Head(ctl) = ctl[1]
      /\ \A i \in 1 .. Len(ctl2) : ctl2[i] = ctl[i + 1]
  BY SMT
<1>2. \A i \in 1 .. Len(ctl) : ctl[i].type = "RegisterStream" => ctl[i].client \in Clients
  BY SMT DEF Control
<1>. HIDE DEF ctl2
<1>3. ASSUME NEW i \in 1 .. Len(ctl2), ctl2[i].type = "RegisterStream"
      PROVE  G[ClientWaits(ctl2[i].client)] = H[ClientWaits(ctl2[i].client)]
  <2>1. i + 1 \in 1 .. Len(ctl) /\ 1 \in 1 .. Len(ctl) /\ i + 1 # 1 /\ ctl2[i] = ctl[i + 1]
    BY SMT, <1>1
  <2>. QED  BY SMT, <1>1, <1>2, <1>3, <2>1 DEF RegisterOK
<1>4. ASSUME NEW i \in 1 .. Len(ctl2)
      PROVE  i + 1 \in 1 .. Len(ctl) /\ ctl2[i] = ctl[i + 1]
  BY SMT, <1>1
<1>5. ASSUME NEW i \in 1 .. Len(ctl2), ctl2[i].type = "RegisterStream"
      PROVE  /\ G[ClientWaits(ctl2[i].client)].pc = "register"
             /\ G[ClientWaits(ctl2[i].client)].job = ctl2[i].job
             /\ G[ClientWaits(ctl2[i].client)].reply = {}
  BY SMT, <1>3, <1>4, <1>5 DEF RegisterOK
<1>6. ASSUME NEW i \in 1 .. Len(ctl2), NEW k \in 1 .. Len(ctl2),
             ctl2[i].type = "RegisterStream", ctl2[k].type = "RegisterStream",
             ctl2[i].client = ctl2[k].client
      PROVE  i = k
  <2>1. i + 1 = k + 1
    BY SMT, <1>4, <1>6 DEF RegisterOK
  <2>. QED  BY SMT, <2>1
<1>7. RegisterOK(ctl2, G)
  BY <1>5, <1>6 DEF RegisterOK
<1>. QED  BY <1>7 DEF ctl2

\* deliver_response keeps the queues in step.
LEMMA DeliverRpc ==
    ASSUME StepFacts, RpcInv, deliver_response
    PROVE  RpcInv'
<1>1. PICK who \in Waiting, msg \in FromTako : Delivered(who, msg)
  BY DeliverEffect DEF StepFacts
<1>2. KeysOK'
  BY DeliverEffect, KeysFrame DEF StepFacts, RpcInv
<1>3. /\ from_tako # <<>> /\ Head(from_tako).type \in Responses /\ who = Head(tako_responses)
      /\ jobs' = jobs /\ control' = control
      /\ Only(Handlers, Handlers', who) /\ Handlers'[who] = Replied(Handlers[who], msg)
      /\ Waits(Handlers[who]) /\ Answers(msg, Handlers[who], TasksOf(jobs))
      /\ from_tako' = Tail(from_tako) /\ tako_responses' = Tail(tako_responses) /\ to_tako' = to_tako
  BY <1>1 DEF Delivered, stateVars, streamVars
<1>4. QueueTypes(from_tako, to_tako, tako_responses) /\ control \in Seq(Control)
  BY LifeTypes DEF StepFacts
<1>5. QueuesOK(Tail(from_tako), to_tako, Tail(tako_responses), Handlers', TasksOf(jobs))
  <2>1. \A G : (\A other \in Waiting : other # Head(tako_responses) => G[other] = Handlers[other])
                  => QueuesOK(Tail(from_tako), to_tako, Tail(tako_responses), G, TasksOf(jobs))
    BY <1>3, <1>4, QueuesDeliver DEF RpcInv
  <2>. QED  BY <1>3, <2>1 DEF Only
<1>6. HandlersOK(Handlers', TasksOf(jobs)) /\ SubmitsDiffer(Handlers')
  BY <1>3, ReplyOK DEF RpcInv, Waits
<1>7. RegisterOK(control, Handlers')
  BY <1>3, <1>4, RegisterFrame DEF RpcInv, Waits, ControlStep
<1>. QED  BY <1>2, <1>3, <1>5, <1>6, <1>7 DEF RpcInv

\* The handlers of clients stay when the stream server goes on, but the one it
\* answers.
LEMMA RegisterRpc ==
    ASSUME StepFacts, RpcInv, register_stream
    PROVE  RpcInv'
<1>1. CASE Panic
  BY <1>1, PanicRpc
<1>2. CASE ~ Panic
  <2>. DEFINE msg == Head(control)
              c == msg.client
              answer == [type |-> "Registered"]
              st == [client[c] EXCEPT !.reply = {answer}]
              who == ClientWaits(c)
  <2>1. /\ control # <<>> /\ msg.type = "RegisterStream"
        /\ control' = Tail(control)
        /\ client' = [client EXCEPT ![c].reply = {answer}]
        /\ UNCHANGED <<jobs, callbacks, to_tako, tako_responses, from_tako>>
    BY <1>2 DEF register_stream, stateVars, rpcVars
  <2>2. control \in Seq(Control) /\ msg \in Control /\ msg = control[1] /\ 1 \in 1 .. Len(control)
    BY SMT, <2>1, LifeTypes DEF StepFacts
  <2>3. c \in Clients
    BY <2>1, <2>2 DEF Control
  <2>4. client \in [Clients -> ClientState] /\ client[c] \in ClientState
    BY <2>3, LifeTypes DEF StepFacts
  <2>5. client' = [client EXCEPT ![c] = st]
    BY <2>1, <2>3, <2>4
  <2>6. ClientHandler(st) = Replied(ClientHandler(client[c]), answer) /\ answer.type = "Registered"
    BY <2>4 DEF ClientHandler, Replied, ClientState
  <2>7. Handlers[who].pc = "register" /\ Handlers[who].reply = {}
    BY <2>1, <2>2 DEF RpcInv, RegisterOK
  <2>. HIDE DEF st, c, answer
  <2>8. /\ who \in Waiting /\ Only(Handlers, Handlers', who)
        /\ Handlers'[who] = Replied(Handlers[who], answer)
    <3>1. UNCHANGED callbacks
      BY <2>1
    <3>2. /\ Only(Handlers, Handlers', who)
          /\ Handlers[who] = ClientHandler(client[c]) /\ Handlers'[who] = ClientHandler(st)
      BY <2>3, <2>4, <2>5, <3>1, ClientUpdate
    <3>3. who \in Waiting
      BY <2>3 DEF ClientWaits, Waiting
    <3>. QED  BY <2>6, <3>2, <3>3
  <2>9. HandlersOK(Handlers', TasksOf(jobs)) /\ SubmitsDiffer(Handlers')
    BY <2>6, <2>7, <2>8, ReplyOK DEF RpcInv
  <2>10. RegisterOK(Tail(control), Handlers')
    <3>1. \A d \in Clients : \/ Handlers'[ClientWaits(d)] = Handlers[ClientWaits(d)]
                             \/ msg.type = "RegisterStream" /\ msg.client = d
      BY <2>1, <2>3, <2>8, HandlerTypes DEF Only, c
    <3>. QED  BY <2>1, <2>2, <3>1, RegisterTail DEF RpcInv
  <2>11. QueuesOK(from_tako, to_tako, tako_responses, Handlers', TasksOf(jobs))
    <3>1. \A other \in Waiting : Waits(Handlers[other]) => Handlers'[other] = Handlers[other]
      BY <2>7, <2>8 DEF Waits, Only
    <3>2. QueueTypes(from_tako, to_tako, tako_responses) /\ Grows(TasksOf(jobs), TasksOf(jobs))
      BY LifeTypes DEF StepFacts, Grows
    <3>. QED  BY <3>1, <3>2, QueuesFrame DEF RpcInv
  <2>12. KeysOK'
    BY <2>1 DEF RpcInv, KeysOK
  <2>. QED  BY <2>1, <2>9, <2>10, <2>11, <2>12 DEF RpcInv
<1>. QED  BY <1>1, <1>2

\* The end of a stream concerns no handler.
LEMMA UnregisterRpc ==
    ASSUME StepFacts, RpcInv, unregister_stream
    PROVE  RpcInv'
<1>1. CASE Panic
  BY <1>1, PanicRpc
<1>2. CASE ~ Panic
  <2>1. /\ control # <<>> /\ control' = Tail(control)
        /\ UNCHANGED <<jobs, client, callbacks, to_tako, tako_responses, from_tako>>
    BY <1>2 DEF unregister_stream, stateVars, rpcVars, handlerVars
  <2>2. control \in Seq(Control)
    BY LifeTypes DEF StepFacts
  <2>3. RegisterOK(Tail(control), Handlers)
    BY <2>1, <2>2, RegisterTail DEF RpcInv
  <2>4. Handlers' = Handlers /\ KeysOK'
    BY <2>1 DEF Handlers, HandlersOf, Status, RpcInv, KeysOK
  <2>. QED  BY <2>1, <2>3, <2>4 DEF RpcInv
<1>. QED  BY <1>1, <1>2

\* Tako answers the oldest request.
LEMMA TakoAnswersRpc ==
    ASSUME StepFacts, RpcInv, NEW type, TakoAnswers(type), NEW msg \in FromTako,
           from_tako' = Append(from_tako, msg), msg.type \in Responses,
           \A h : Asked(Head(to_tako), h, TasksOf(jobs)) => Answers(msg, h, TasksOf(jobs))
    PROVE  RpcInv'
<1>1. /\ to_tako # <<>> /\ to_tako' = Tail(to_tako)
      /\ UNCHANGED <<client, callbacks, tako_responses, control>>
  BY DEF TakoAnswers, handlerVars, streamVars
<1>2. QueueTypes(from_tako, to_tako, tako_responses) /\ QueueTypes(from_tako', to_tako', tako_responses')
  BY LifeTypes DEF StepFacts, BasicInv, TypeOK, RpcTypeOK, QueueTypes
<1>3. QueuesOK(Append(from_tako, msg), Tail(to_tako), tako_responses, Handlers, TasksOf(jobs))
  BY <1>1, <1>2, QueuesAnswer DEF RpcInv
<1>. QED  BY <1>1, <1>2, <1>3, NoHandlerInv DEF ControlStep

\* The responses of tako fit the requests.
LEMMA TakoRequestRpc ==
    ASSUME StepFacts, RpcInv, TakoRequest
    PROVE  RpcInv'
<1>1. ASSUME TakoNewTasks  PROVE  RpcInv'
  <2>. DEFINE msg == [type |-> "NewTasksResponse"]
  <2>1. msg \in FromTako /\ msg.type = "NewTasksResponse" /\ msg.type \in Responses
    BY DEF FromTako, Response, Responses
  <2>2. TakoAnswers("NewTasks") /\ from_tako' = Append(from_tako, msg) /\ Head(to_tako).type = "NewTasks"
    BY <1>1 DEF TakoNewTasks, TakoAnswers
  <2>. HIDE DEF msg
  <2>. QED  BY <2>1, <2>2, TakoAnswersRpc DEF Asked, Answers
<1>2. ASSUME TakoCancelTasks  PROVE  RpcInv'
  <2>. DEFINE tasks == Head(to_tako).tasks \cap DOMAIN tako_tasks
              msg == [type |-> "CancelTasksResponse", tasks |-> tasks]
  <2>0. DOMAIN tako_tasks \subseteq Nat
    BY DEF StepFacts, BasicInv, TypeOK, TakoTypeOK
  <2>1. /\ msg \in FromTako /\ msg.type = "CancelTasksResponse" /\ msg.type \in Responses
        /\ msg.tasks \subseteq Head(to_tako).tasks
    BY <2>0 DEF FromTako, Response, Responses
  <2>2. TakoAnswers("CancelTasks") /\ from_tako' = Append(from_tako, msg)
        /\ Head(to_tako).type = "CancelTasks"
    BY <1>2 DEF TakoCancelTasks, TakoAnswers
  <2>. HIDE DEF msg
  <2>. QED  BY <2>1, <2>2, TakoAnswersRpc DEF Asked, Answers
<1>3. ASSUME TakoCancelFails  PROVE  RpcInv'
  <2>. DEFINE msg == [type |-> "Error"]
  <2>1. msg \in FromTako /\ msg.type = "Error" /\ msg.type \in Responses
    BY DEF FromTako, Response, Responses
  <2>2. TakoAnswers("CancelTasks") /\ from_tako' = Append(from_tako, msg)
        /\ Head(to_tako).type = "CancelTasks"
    BY <1>3 DEF TakoCancelFails, TakoAnswers
  <2>. HIDE DEF msg
  <2>. QED  BY <2>1, <2>2, TakoAnswersRpc DEF Asked, Answers
<1>4. ASSUME TakoStopWorker  PROVE  RpcInv'
  <2>. DEFINE msg == [type |-> IF tako_workers[Head(to_tako).worker] = "connected"
                               THEN "WorkerStopped" ELSE "Error"]
  <2>1. msg \in FromTako /\ msg.type \in {"WorkerStopped", "Error"} /\ msg.type \in Responses
    BY DEF FromTako, Response, Responses
  <2>2. TakoAnswers("StopWorker") /\ from_tako' = Append(from_tako, msg)
        /\ Head(to_tako).type = "StopWorker"
    BY <1>4 DEF TakoStopWorker, TakoAnswers
  <2>. HIDE DEF msg
  <2>. QED  BY <2>1, <2>2, TakoAnswersRpc DEF Asked, Answers
<1>. QED  BY <1>1, <1>2, <1>3, <1>4 DEF TakoRequest

\* Tako reports something of its own accord.
LEMMA TakoEventRpc ==
    ASSUME StepFacts, RpcInv, TakoEvent
    PROVE  RpcInv'
<1>1. ASSUME NEW msg, TakoReports(msg), msg.type \notin Responses
      PROVE  RpcInv'
  <2>1. from_tako' = Append(from_tako, msg) /\ UNCHANGED <<client, callbacks, to_tako, tako_responses, control>>
    BY <1>1 DEF TakoReports, handlerVars, rpcVars, streamVars
  <2>2. /\ from_tako \in Seq(FromTako) /\ Append(from_tako, msg) \in Seq(FromTako)
        /\ QueueTypes(from_tako, to_tako, tako_responses) /\ QueueTypes(from_tako', to_tako', tako_responses')
    BY <2>1, LifeTypes DEF StepFacts, BasicInv, TypeOK, RpcTypeOK, QueueTypes
  <2>3. msg \in FromTako
    <3>1. Append(from_tako, msg)[Len(from_tako) + 1] = msg /\ Len(Append(from_tako, msg)) = Len(from_tako) + 1
      BY SMT, <2>2
    <3>2. Len(from_tako) \in Nat
      BY SMT, <2>2
    <3>. QED  BY SMT, <2>2, <3>1, <3>2
  <2>4. QueuesOK(Append(from_tako, msg), to_tako, tako_responses, Handlers, TasksOf(jobs))
    BY <1>1, <2>2, <2>3, QueuesReport DEF RpcInv
  <2>. QED  BY <2>1, <2>2, <2>4, NoHandlerInv DEF ControlStep
<1>2. \E msg : TakoReports(msg) /\ msg.type \notin Responses
  <2>1. ASSUME NEW w \in Workers, TakoWorkerConnects(w) \/ TakoWorkerLost(w)
        PROVE  \E msg : TakoReports(msg) /\ msg.type \notin Responses
    BY SMT, <2>1 DEF TakoWorkerConnects, TakoWorkerLost, Responses
  <2>2. ASSUME NEW t \in DOMAIN tako_tasks,
               \/ \E w \in Workers : TakoTaskStarts(t, w)
               \/ TakoTaskStartsAgain(t) \/ TakoTaskReturns(t) \/ TakoTaskEnds(t)
        PROVE  \E msg : TakoReports(msg) /\ msg.type \notin Responses
    <3>1. CASE \E w \in Workers : TakoTaskStarts(t, w)
      BY SMT, <3>1 DEF TakoTaskStarts, Responses
    <3>2. CASE TakoTaskStartsAgain(t)
      BY SMT, <3>2 DEF TakoTaskStartsAgain, Responses
    <3>3. CASE TakoTaskReturns(t)
      BY SMT, <3>3 DEF TakoTaskReturns, Responses
    <3>4. CASE TakoTaskEnds(t)
      <4>1. PICK type \in {"Finished", "TaskFailed"} : TakoReports([type |-> type, task |-> t])
        BY <3>4 DEF TakoTaskEnds
      <4>2. [type |-> type, task |-> t].type \notin Responses
        BY DEF Responses
      <4>. QED  BY <4>1, <4>2
    <3>. QED  BY <2>2, <3>1, <3>2, <3>3, <3>4
  <2>. QED  BY <2>1, <2>2 DEF TakoEvent
<1>. QED  BY <1>1, <1>2
----------------------------------------------------------------------------
(* The invariant.                                                          *)

\* Nobody waits at the start.
LEMMA RpcInit == Init => RpcInv
<1>. SUFFICES ASSUME Init  PROVE  RpcInv
  OBVIOUS
<1>1. /\ from_tako = <<>> /\ to_tako = <<>> /\ tako_responses = <<>> /\ control = <<>>
      /\ callbacks = [t \in {} |-> 0] /\ client = [c \in Clients |-> Idle]
  BY DEF Init
<1>2. InFlight(from_tako) = 0
  <2>1. {i \in 1 .. Len(from_tako) : from_tako[i].type \in Responses} = {}
    BY SMT, <1>1
  <2>. QED  BY <2>1, FS_EmptySet DEF InFlight, RespCount
<1>3. QueuesOK(from_tako, to_tako, tako_responses, Handlers, TasksOf(jobs))
  BY SMT, <1>1, <1>2 DEF QueuesOK
<1>4. ASSUME NEW who \in Waiting  PROVE  Quiet(Handlers[who])
  <2>1. CASE \E c \in Clients : who = ClientWaits(c)
    <3>1. PICK c \in Clients : who = ClientWaits(c)
      BY <2>1
    <3>2. Handlers[who] = ClientHandler(client[c]) /\ client[c] = Idle
      BY SMT, <1>1, <3>1, HandlerTypes DEF Handlers
    <3>. QED  BY SMT, <3>2 DEF ClientHandler, Idle, Quiet
  <2>2. CASE \E t \in Nat : who = CallbackWaits(t)
    BY SMT, <1>1, <2>2, HandlerTypes DEF Handlers, NoHandler, Quiet
  <2>. QED  BY <2>1, <2>2, HandlerTypes
<1>5. HandlersOK(Handlers, TasksOf(jobs)) /\ SubmitsDiffer(Handlers)
  BY <1>4, QuietOK DEF HandlersOK, SubmitsDiffer, Submitting
<1>6. RegisterOK(control, Handlers) /\ KeysOK
  BY SMT, <1>1 DEF RegisterOK, KeysOK
<1>. QED  BY <1>3, <1>5, <1>6 DEF RpcInv

\* Every step keeps the queues in step.
LEMMA RpcNext ==
    ASSUME StepFacts, RpcInv, [Next]_vars
    PROVE  RpcInv'
<1>1. CASE UNCHANGED vars
  <2>1. UNCHANGED <<client, callbacks, control, from_tako, to_tako, tako_responses>>
    BY <1>1 DEF vars, handlerVars, rpcVars, streamVars
  <2>2. QueueTypes(from_tako', to_tako', tako_responses')
    BY <2>1, LifeTypes DEF StepFacts
  <2>. QED  BY <2>1, <2>2, NoHandlerInv DEF ControlStep
<1>2. CASE Reader
  BY <1>2, ReportsRpc, FailedRpc, DeliverRpc DEF Reader
<1>3. CASE StreamServer
  BY <1>3, RegisterRpc, UnregisterRpc DEF StreamServer
<1>4. CASE TakoRequest \/ TakoEvent
  BY <1>4, TakoRequestRpc, TakoEventRpc
<1>5. CASE \E c \in Clients : Request(c) \/ Resume(c) \/ connection_lost(c) \/ connection_ended(c)
  BY <1>5, ClientRpc
<1>6. CASE \E t \in DOMAIN callbacks : Callback(t)
  BY <1>6, CallbackSendRpc, CallbackAnsweredRpc DEF Callback
<1>. QED  BY <1>1, <1>2, <1>3, <1>4, <1>5, <1>6 DEF Next
============================================================================
