---------------------------- MODULE SafetyProofs ----------------------------
(***************************************************************************)
(* Safety of the server: its steps preserve the invariants of ServerInv,   *)
(* and these imply what the runs of the Server module check.               *)
(***************************************************************************)
EXTENDS LifecycleProofs, RpcProofs, AgreementProofs

\* A panic has a cause: a client whose answer could not be sent, or the first
\* task id of the next job is taken (by a job that was given no ids).
PanicHasReason ==
    panicked => \/ \E c \in Clients : client[c].pc = "unsent"
                \/ task_id_counter \in DOMAIN base_task_id_to_job_id

\* Server and tako agree, up to the reports on their way.
Agreed == \E V : Agreement(V)

\* The invariants that all steps preserve: the State and its jobs, the requests
\* and responses that are on their way, the views that lead from what the
\* server believes to what tako knows, and the streams.
SafetyInv ==
    /\ LifeInv
    /\ RpcInv
    /\ Agreed
    /\ StreamInv
    /\ PanicHasReason

\* They hold initially.
LEMMA SafetyInit == Init => SafetyInv
<1>. SUFFICES ASSUME Init  PROVE SafetyInv
  BY Zenon
<1>1. LifeInv
  BY Zenon, InitLife
<1>2. RpcInv
  BY Zenon, RpcInit
<1>3. Agreed
  BY Zenon, AgreementInit DEF Agreed
<1>4. StreamInv
  BY Zenon, StreamInit
<1>5. PanicHasReason
  BY Zenon DEF Init, PanicHasReason
<1>. QED  BY Zenon, <1>1, <1>2, <1>3, <1>4, <1>5 DEF SafetyInv

\* The job of a submit that waits for the stream server is not completed.
LEMMA SafetyOpen == LifeInv /\ RpcInv /\ Agreed => OpenRegisters
  BY Zenon, LifeBasic, AgreementOpen DEF Agreed

\* Every step preserves them.
LEMMA SafetyNext ==
    ASSUME SafetyInv, Next
    PROVE  SafetyInv'
<1>1. StepFacts /\ LifeInv' /\ RpcInv /\ StreamInv
  BY Zenon, NextFacts DEF SafetyInv
<1>2. RpcInv'
  BY Zenon, <1>1, RpcNext
<1>3. PICK V : Agreement(V)
  BY Zenon DEF SafetyInv, Agreed
<1>4. StepKind
  BY Zenon, <1>1, NextKinds
<1>5. Agreed' /\ (Excused \/ Clash)
  BY Zenon, <1>1, <1>3, <1>4, AgreementKind DEF Agreed
<1>6. OpenRegisters'
  BY <1>1, <1>2, <1>5, SafetyOpen, PTL
<1>7. StreamInv'
  BY Zenon, <1>1, <1>2, <1>4, <1>6, StreamKinds
<1>8. PanicHasReason'
  <2>. SUFFICES ASSUME panicked', \A c \in Clients : client'[c].pc # "unsent"
                PROVE  task_id_counter' \in DOMAIN base_task_id_to_job_id'
    BY Zenon DEF PanicHasReason
  <2>1. BasicInv /\ ~ panicked
    BY Zenon, <1>1, NextAlive DEF StepFacts
  <2>2. Clash
    BY Zenon, <1>5, <2>1 DEF Excused
  <2>3. task_id_counter \in DOMAIN base_task_id_to_job_id
    BY Zenon, <1>1, <2>1, <2>2, StreamsHold
  <2>4. \A c \in Clients : \A spec : ~ Submitted(c, spec)
    BY Zenon, <2>1 DEF Submitted, processVars
  <2>5. UNCHANGED <<base_task_id_to_job_id, task_id_counter>>
    BY Zenon, <1>1, <2>1, <2>4, NextIds
  <2>. QED  BY Zenon, <2>3, <2>5
<1>. QED  BY Zenon, <1>1, <1>2, <1>5, <1>7, <1>8 DEF SafetyInv

\* Nothing happens.
LEMMA SafetyStutter ==
    ASSUME SafetyInv, UNCHANGED vars
    PROVE  SafetyInv'
<1>1. LifeInv' /\ StepFacts /\ RpcInv
  BY Zenon, NextFacts DEF SafetyInv
<1>2. RpcInv'
  BY Zenon, <1>1, RpcNext
<1>3. /\ TasksStay
      /\ UNCHANGED <<client, callbacks, to_tako, control, registrations, panicked>>
      /\ UNCHANGED <<base_task_id_to_job_id, task_id_counter>>
  BY Zenon DEF vars, TasksStay, stateVars, handlerVars, rpcVars, takoVars, streamVars, processVars
<1>4. Agreed'
  BY Zenon, <1>3, StillAgreement DEF SafetyInv, Agreed
<1>5. StreamInv'
  BY Zenon, <1>3, StreamIdle DEF SafetyInv, TasksStay
<1>6. PanicHasReason'
  BY Zenon, <1>3 DEF SafetyInv, PanicHasReason
<1>. QED  BY Zenon, <1>1, <1>2, <1>4, <1>5, <1>6 DEF SafetyInv

\* The invariants hold in every reachable state, for any numbers of clients,
\* workers, jobs and messages.
THEOREM SafetyInvariant == Spec => []SafetyInv
<1>1. SafetyInv /\ [Next]_vars => SafetyInv'
  BY Zenon, SafetyNext, SafetyStutter
<1>. QED  BY <1>1, SafetyInit, PTL DEF Spec

\* Every response of tako reaches the handler whose request it answers:
\* send_tako_message of server/rpc.rs numbers nothing and relies on the order
\* alone, however many clients and spawned cancels wait.
THEOREM RpcInvariant == Spec => []RpcInv
<1>1. SafetyInv => RpcInv
  BY Zenon DEF SafetyInv
<1>. QED  BY <1>1, SafetyInvariant, PTL

\* When no report of tako is on its way, the server has every task in the state
\* in which tako has it, on the same worker, except those whose cancel a handler
\* has been told of and has still to mark.
THEOREM Quiescence == Spec => []QuiescentAgreement
<1>1. SafetyInv => QuiescentAgreement
  <2>. SUFFICES ASSUME SafetyInv  PROVE QuiescentAgreement
    BY Zenon
  <2>1. BasicInv /\ RpcInv
    BY Zenon, LifeBasic DEF SafetyInv
  <2>. QED  BY Zenon, <2>1, AgreementQuiescent DEF SafetyInv, Agreed
<1>. QED  BY <1>1, SafetyInvariant, PTL

\* A task that the server has as running is on a worker that the server has
\* as connected: process_worker_lost returns all tasks of the lost worker.
THEOREM RunningOnline == Spec => []RunsOnOnlineWorker
<1>1. SafetyInv => RunsOnOnlineWorker
  <2>. SUFFICES ASSUME SafetyInv  PROVE RunsOnOnlineWorker
    BY Zenon
  <2>1. BasicInv
    BY Zenon, LifeBasic DEF SafetyInv
  <2>. QED  BY Zenon, <2>1, AgreementRuns DEF SafetyInv, Agreed
<1>. QED  BY <1>1, SafetyInvariant, PTL

\* As long as tako holds a task of a job with a log, the stream server has the
\* job registered: handle_submit waits for the registration before it sends
\* the tasks, and the stream is unregistered after the last task has ended.
THEOREM LogRegistered == Spec => []LogRegisteredWhileHeld
<1>1. SafetyInv => LogRegisteredWhileHeld
  <2>. SUFFICES ASSUME SafetyInv  PROVE LogRegisteredWhileHeld
    BY Zenon
  <2>1. BasicInv /\ RpcInv /\ StreamInv
    BY Zenon, LifeBasic DEF SafetyInv
  <2>. QED  BY Zenon, <2>1, AgreementLogs DEF SafetyInv, Agreed
<1>. QED  BY <1>1, SafetyInvariant, PTL

\* The server panics for two reasons only: it cannot send an answer to a
\* client, or add_job finds the base id of the new job in the map.
THEOREM PanicReasons == Spec => []PanicHasReason
<1>1. SafetyInv => PanicHasReason
  BY Zenon DEF SafetyInv
<1>. QED  BY <1>1, SafetyInvariant, PTL

\* Every base id of a job is below the ids that are still to be given.
BasesBelow == \A b \in DOMAIN base_task_id_to_job_id : b < task_id_counter

\* When every job is given at least one task id, no assert!, unwrap or panic!
\* of State, of the reader of tako's messages and of the stream server is ever
\* reached.  (handle_submit of a job without ids makes the next submit panic.)
THEOREM NoPanics ==
    ASSUME \A spec \in JobSpecs : spec.id_count > 0
    PROVE  Spec => []NoPanic
<1>1. Init => BasesBelow
  BY DEF Init, BasesBelow
<1>2. SafetyInv /\ BasesBelow /\ [Next]_vars => BasesBelow'
  <2>. SUFFICES ASSUME SafetyInv, BasesBelow, [Next]_vars  PROVE BasesBelow'
    BY Zenon
  <2>1. CASE UNCHANGED <<base_task_id_to_job_id, task_id_counter>>
    BY Zenon, <2>1 DEF BasesBelow
  <2>2. ASSUME NEW c \in Clients, NEW spec, GoodSpec(spec), Submitted(c, spec)
        PROVE  BasesBelow'
    <3>1. task_id_counter \in Nat /\ DOMAIN base_task_id_to_job_id \subseteq Nat
      BY Zenon, LifeBasic DEF SafetyInv, BasicInv, TypeOK, StateTypeOK
    <3>2. spec.id_count \in Nat /\ spec.id_count > 0
      BY Zenon, <2>2 DEF GoodSpec
    <3>3. /\ task_id_counter' = task_id_counter + spec.id_count
          /\ DOMAIN base_task_id_to_job_id' = DOMAIN base_task_id_to_job_id \cup {task_id_counter}
      BY Zenon, <2>2 DEF Submitted, Insert
    <3>. QED  BY <3>1, <3>2, <3>3 DEF BasesBelow
  <2>3. BasicInv /\ RpcInv
    BY Zenon, LifeBasic DEF SafetyInv
  <2>4. CASE UNCHANGED vars
    BY Zenon, <2>1, <2>4 DEF vars, stateVars
  <2>. QED  BY Zenon, <2>1, <2>2, <2>3, <2>4, NextIds
<1>3. SafetyInv /\ BasesBelow => NoPanic
  <2>. SUFFICES ASSUME SafetyInv, BasesBelow, task_id_counter \in DOMAIN base_task_id_to_job_id
                PROVE  FALSE
    BY Zenon DEF SafetyInv, PanicHasReason, NoPanic
  <2>1. task_id_counter \in Nat
    BY Zenon, LifeBasic DEF SafetyInv, BasicInv, TypeOK, StateTypeOK
  <2>. QED  BY <2>1 DEF BasesBelow
<1>. QED  BY <1>1, <1>2, <1>3, SafetyInvariant, PTL DEF Spec

\* The ends of tasks that the server has read are behind it.
LEMMA AgreedReleases == LifeInv /\ Agreed => EndedReleased
  BY Zenon, LifeBasic, AgreementReleases DEF Agreed

\* A job that is told canceled has no task left that a cancel could miss.
LEMMA CancelComplete ==
    ASSUME SafetyInv, CancelInv
    PROVE  CancelIsComplete
<1>. SUFFICES ASSUME NEW j \in told_canceled, NEW t \in non_finished_task_ids(jobs[j])
              PROVE  t \in CancelsInHand
  BY Zenon DEF CancelIsComplete
<1>1. BasicInv /\ RpcInv
  BY Zenon, LifeBasic DEF SafetyInv
<1>2. PICK V : Agreement(V)
  BY Zenon DEF SafetyInv, Agreed
<1>3. j \in DOMAIN jobs
  BY Zenon, <1>1 DEF BasicInv, TypeOK, StateTypeOK
<1>4. t \in DOMAIN jobs[j].tasks /\ jobs[j].tasks[t] \in NonFinished /\ t \in Nat
  BY Zenon, <1>1, <1>3 DEF non_finished_task_ids, InState, BasicInv, TypeOK, StateTypeOK, JobTypeOK
<1>5. t \in KnownCanceled
  <2>1. t \in TasksOf(jobs)[j]
    BY Zenon, <1>3, <1>4 DEF TasksOf
  <2>. QED  BY Zenon, <2>1, KnownMember DEF KnownCanceled
<1>6. t \notin AtTako /\ \A i \in 0 + 1 .. Len(from_tako) : t \notin Ended(from_tako[i])
  BY Zenon, <1>5 DEF CancelInv, CancelsOK, Released
<1>7. 0 + 1 .. Len(from_tako) = 1 .. Len(from_tako)
  OBVIOUS
<1>8. V[0].task[t] \notin Held
  BY Zenon, <1>1, <1>2, <1>4, <1>6, <1>7, ReleasedNotHeld DEF CancelInv
<1>9. /\ V[0].task[t] \in {"waiting", "running", "canceling", "gone"}
      /\ Seen(V[0].task[t], V[0].on[t], jobs[j].tasks[t], jobs[j].worker[t])
      /\ ServerHands(V[0], Handlers)
  <2>1. Len(from_tako) \in Nat
    BY <1>1, LifeTypes DEF QueueTypes
  <2>2. 0 \in 0 .. Len(from_tako)
    BY <2>1
  <2>3. V[0] \in View
    BY Zenon, <1>2, <2>2 DEF Agreement, Agrees, Trace
  <2>4. V[0].task \in [Nat -> {"waiting", "running", "canceling", "gone"}]
    BY <2>3 DEF View
  <2>. QED  BY Zenon, <1>2, <1>3, <1>4, <2>4 DEF Agreement, Agrees, ServerTasks
<1>10. V[0].task[t] = "canceling"
  BY <1>4, <1>8, <1>9 DEF Seen, Held, Terminal, NonFinished
<1>11. \E who \in Waiting : t \in Hand(Handlers[who])
  BY Zenon, <1>4, <1>9, <1>10 DEF ServerHands
<1>. QED  BY Zenon, <1>11, HandOwner

\* When no job has a log, a client that is told that a job is canceled can rely on
\* it: every task of the job has ended, or a handler that holds tako's response is
\* about to mark it canceled.  handle_job_cancel sends only the tasks that have not
\* ended, and marks only those that tako says it has canceled: the proof shows that
\* tako has released the others too, however many cancels, failures and reports
\* cross.  (A submit that still waits for the stream server sends its tasks after
\* the cancel: with a log the property does not hold.)
THEOREM CancelCompletes ==
    ASSUME \A spec \in JobSpecs : ~ spec.log
    PROVE  Spec => []CancelIsComplete
<1>1. Init => CancelInv
  BY Zenon, CancelInit
<1>2. SafetyInv /\ SafetyInv' /\ CancelInv /\ [Next]_vars => CancelInv'
  <2>. SUFFICES ASSUME SafetyInv, SafetyInv', CancelInv, [Next]_vars  PROVE CancelInv'
    BY Zenon
  <2>1. LifeInv' /\ StepFacts /\ RpcInv /\ RpcInv' /\ Agreed'
    BY Zenon, NextFacts DEF SafetyInv
  <2>2. EndedReleased'
    BY <2>1, AgreedReleases, PTL
  <2>3. CASE Next
    <3>1. StepKind
      BY Zenon, <2>1, <2>3, NextKinds
    <3>. QED  BY Zenon, <2>1, <2>2, <3>1, CancelStep
  <2>4. CASE UNCHANGED vars
    <3>1. UNCHANGED <<client, told_canceled, to_tako, tako_responses, from_tako, tako_tasks>>
      BY Zenon, <2>4 DEF vars, handlerVars, rpcVars, takoVars
    <3>. QED  BY Zenon, <2>1, <3>1, CancelStill
  <2>. QED  BY Zenon, <2>3, <2>4
<1>3. SafetyInv /\ CancelInv => CancelIsComplete
  BY Zenon, CancelComplete
<1>. QED  BY <1>1, <1>2, <1>3, SafetyInvariant, PTL DEF Spec
============================================================================
