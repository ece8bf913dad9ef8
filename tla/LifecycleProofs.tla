-------------------------- MODULE LifecycleProofs --------------------------
(***************************************************************************)
(* The server implements the task lifecycle: every step of Server is a     *)
(* step of Lifecycle or leaves jobs and tasks alone, a job is completed    *)
(* exactly when all its tasks have ended, and its status follows the rules *)
(* of docs/arrays.md.                                                      *)
(***************************************************************************)
EXTENDS ServerProofs, ServerInv

\* The completion date is set if and only if no task waits or runs.
CompletedOK(job) ==
    job.completed <=> (DOMAIN job.tasks # {} /\ non_finished_task_ids(job) = {})

GoodJob(job) == JobInv(job) /\ CompletedOK(job)

\* moved has the tasks of job, with those in ids moved to the state `to'.
Moved(job, moved, ids, from, to) ==
    /\ ids \subseteq DOMAIN job.tasks
    /\ \A t \in ids : job.tasks[t] \in from
    /\ moved.tasks = [t \in DOMAIN job.tasks |-> IF t \in ids THEN to ELSE job.tasks[t]]

\* The edges of the lifecycle, for one job.
Edge(job, moved) ==
    \/ moved.tasks = job.tasks /\ moved.completed = job.completed
    \/ /\ \E t \in DOMAIN job.tasks : Moved(job, moved, {t}, {"Waiting"}, "Running")
       /\ moved.completed = job.completed
    \/ \E t \in DOMAIN job.tasks : \E to \in {"Finished", "Failed"} :
           Moved(job, moved, {t}, {"Running"}, to)
    \/ \E ids \in SUBSET DOMAIN job.tasks :
           ids # {} /\ Moved(job, moved, ids, NonFinished, "Canceled")

Returns(job, moved, ids) ==
    Moved(job, moved, ids, {"Running"}, "Waiting") /\ moved.completed = job.completed
----------------------------------------------------------------------------
(* Jobs.                                                                   *)

\* The counters that is_terminated looks at are zero if and only if no task
\* waits or runs.
LEMMA TerminatedMeans ==
    ASSUME NEW job, JobInv(job)
    PROVE  is_terminated(job) <=> non_finished_task_ids(job) = {}
<1>. DEFINE W == InState(job, {"Waiting"})
            R == InState(job, {"Running"})
<1>1. IsFiniteSet(W) /\ IsFiniteSet(R)
  BY Zenon, InStateFinite DEF JobInv
<1>2. n_waiting_tasks(job) = Cardinality(W) /\ job.n_running_tasks = Cardinality(R)
  BY Zenon, WaitingCount DEF JobInv, CountersOK
<1>3. (Cardinality(W) = 0 <=> W = {}) /\ (Cardinality(R) = 0 <=> R = {})
  BY Zenon, <1>1, FS_EmptySet
<1>4. non_finished_task_ids(job) = {} <=> (W = {} /\ R = {})
  BY Zenon DEF non_finished_task_ids, InState, NonFinished
<1>. QED  BY Zenon, <1>2, <1>3, <1>4 DEF is_terminated

\* check_termination reads counters and sets nothing but the completion date.
LEMMA CheckCompletes ==
    ASSUME NEW ids, NEW moved \in JobRecord(ids), ~ moved.completed, DOMAIN moved.tasks # {},
           JobInv(check_termination(moved))
    PROVE  /\ CompletedOK(check_termination(moved))
           /\ check_termination(moved).tasks = moved.tasks
<1>. DEFINE done == check_termination(moved)
<1>1. /\ done.tasks = moved.tasks /\ (done.completed <=> is_terminated(moved))
      /\ is_terminated(done) <=> is_terminated(moved)
  BY Zenon DEF check_termination, JobRecord, is_terminated, n_waiting_tasks, n_tasks
<1>. HIDE DEF done
<1>2. CompletedOK(done)
  BY Zenon, <1>1, TerminatedMeans DEF CompletedOK, done
<1>. QED  BY Zenon, <1>1, <1>2 DEF done

\* A job with a task that waits or runs is not completed.
LEMMA OpenJob ==
    ASSUME NEW job, CompletedOK(job), NEW t \in InState(job, NonFinished)
    PROVE  ~ job.completed /\ DOMAIN job.tasks # {}
BY Zenon DEF CompletedOK, non_finished_task_ids, InState

\* A move between the states of tasks that have not ended.
LEMMA OpenMoveCompleted ==
    ASSUME NEW job, NEW moved, CompletedOK(job), NEW ids, NEW to \in NonFinished,
           Moved(job, moved, ids, NonFinished, to), moved.completed = job.completed
    PROVE  CompletedOK(moved)
<1>1. DOMAIN moved.tasks = DOMAIN job.tasks
  BY Zenon DEF Moved
<1>2. non_finished_task_ids(moved) = non_finished_task_ids(job)
  BY Zenon DEF Moved, non_finished_task_ids, InState
<1>. QED  BY Zenon, <1>1, <1>2 DEF CompletedOK

\* A new job is not completed.
LEMMA NewJobGood ==
    ASSUME NEW base \in Nat, NEW spec, IsSpec(spec)
    PROVE  /\ GoodJob(new(base, spec))
           /\ \A t \in DOMAIN new(base, spec).tasks : new(base, spec).tasks[t] = "Waiting"
           /\ ~ new(base, spec).completed
<1>1. JobInv(new(base, spec))
  BY Zenon, NewJobInv DEF IsSpec
<1>2. /\ \A t \in DOMAIN new(base, spec).tasks : new(base, spec).tasks[t] = "Waiting"
      /\ ~ new(base, spec).completed
  BY Zenon DEF new
<1>3. non_finished_task_ids(new(base, spec)) = DOMAIN new(base, spec).tasks
  BY Zenon, <1>2 DEF non_finished_task_ids, InState, NonFinished
<1>. QED  BY Zenon, <1>1, <1>2, <1>3 DEF GoodJob, CompletedOK

\* set_running_state takes an edge of the lifecycle.
LEMMA RunningEdge ==
    ASSUME NEW job, GoodJob(job), NEW id \in DOMAIN job.tasks, NEW w \in Workers
    PROVE  GoodJob(set_running_state(job, id, w)) /\ Edge(job, set_running_state(job, id, w))
<1>. DEFINE moved == set_running_state(job, id, w)
<1>0. job \in JobRecord(DOMAIN job.tasks) /\ JobInv(moved)
  BY Zenon, RunningJobStep DEF GoodJob, JobInv, JobTypeOK, JobStep
<1>1. CASE job.tasks[id] # "Waiting"
  BY Zenon, <1>1 DEF set_running_state, Edge
<1>2. CASE job.tasks[id] = "Waiting"
  <2>1. Moved(job, moved, {id}, {"Waiting"}, "Running") /\ moved.completed = job.completed
    BY Zenon, <1>0, <1>2 DEF set_running_state, JobRecord, Moved
  <2>. HIDE DEF moved
  <2>2. CompletedOK(moved)
    BY Zenon, <2>1, OpenMoveCompleted DEF GoodJob, Moved, NonFinished
  <2>3. Edge(job, moved) /\ GoodJob(moved)
    BY Zenon, <1>0, <2>1, <2>2 DEF Edge, GoodJob
  <2>. QED  BY Zenon, <2>3 DEF moved
<1>. QED  BY Zenon, <1>1, <1>2

\* set_waiting_state moves tasks back.
LEMMA WaitingEdge ==
    ASSUME NEW job, GoodJob(job), NEW ids, can_wait(job, ids)
    PROVE  /\ GoodJob(set_waiting_state(job, ids))
           /\ Returns(job, set_waiting_state(job, ids), ids)
<1>. DEFINE moved == set_waiting_state(job, ids)
<1>0. job \in JobRecord(DOMAIN job.tasks) /\ JobInv(moved)
  BY Zenon, WaitingJobStep DEF GoodJob, JobInv, JobTypeOK, JobStep
<1>1. Returns(job, moved, ids)
  BY Zenon, <1>0 DEF set_waiting_state, JobRecord, Moved, Returns, can_wait, InState
<1>. HIDE DEF moved
<1>2. CompletedOK(moved)
  BY Zenon, <1>1, OpenMoveCompleted DEF GoodJob, Moved, Returns, NonFinished
<1>3. GoodJob(moved)
  BY Zenon, <1>0, <1>2 DEF GoodJob
<1>. QED  BY Zenon, <1>1, <1>3 DEF moved

\* The last step of set_finished_state, set_failed_state and set_cancel_state.
LEMMA EndEdge ==
    ASSUME NEW job, GoodJob(job), NEW ids, ids # {}, NEW from, from \subseteq NonFinished,
           NEW to, NEW moved \in JobRecord(DOMAIN job.tasks), moved.completed = job.completed,
           Moved(job, moved, ids, from, to), JobInv(check_termination(moved))
    PROVE  /\ GoodJob(check_termination(moved))
           /\ Moved(job, check_termination(moved), ids, from, to)
<1>1. ~ job.completed /\ DOMAIN moved.tasks # {}
  BY Zenon, OpenJob DEF GoodJob, InState, Moved
<1>2. /\ CompletedOK(check_termination(moved))
      /\ check_termination(moved).tasks = moved.tasks
  BY Zenon, <1>1, CheckCompletes
<1>. QED  BY Zenon, <1>2 DEF GoodJob, Moved

\* set_finished_state takes an edge of the lifecycle.
LEMMA FinishedEdge ==
    ASSUME NEW job, GoodJob(job), NEW id, can_end(job, id)
    PROVE  GoodJob(set_finished_state(job, id)) /\ Edge(job, set_finished_state(job, id))
<1>. DEFINE moved == [job EXCEPT !.tasks[id] = "Finished",
                                 !.n_running_tasks = job.n_running_tasks - 1,
                                 !.n_finished_tasks = job.n_finished_tasks + 1]
<1>1. /\ job \in JobRecord(DOMAIN job.tasks) /\ job.n_running_tasks - 1 \in Nat
      /\ job.n_finished_tasks + 1 \in Nat
      /\ id \in DOMAIN job.tasks /\ job.tasks[id] = "Running"
  BY RunningPositive DEF GoodJob, JobInv, JobTypeOK, JobRecord, can_end
<1>2. set_finished_state(job, id) = check_termination(moved)
  BY Zenon DEF set_finished_state
<1>3. JobInv(check_termination(moved))
  BY Zenon, <1>2, FinishedJobStep DEF GoodJob, JobStep
<1>4. moved \in JobRecord(DOMAIN job.tasks) /\ moved.completed = job.completed
  BY Zenon, <1>1 DEF JobRecord, JobTaskState, Terminal
<1>5. Moved(job, moved, {id}, {"Running"}, "Finished")
  BY Zenon, <1>1 DEF JobRecord, Moved
<1>. HIDE DEF moved
<1>6. /\ GoodJob(check_termination(moved))
      /\ Moved(job, check_termination(moved), {id}, {"Running"}, "Finished")
  BY Zenon, <1>3, <1>4, <1>5, EndEdge DEF NonFinished
<1>. QED  BY Zenon, <1>1, <1>2, <1>6 DEF Edge

\* set_failed_state takes an edge of the lifecycle.
LEMMA FailedEdge ==
    ASSUME NEW job, GoodJob(job), NEW id, can_end(job, id)
    PROVE  GoodJob(set_failed_state(job, id)) /\ Edge(job, set_failed_state(job, id))
<1>. DEFINE moved == [job EXCEPT !.tasks[id] = "Failed",
                                 !.n_running_tasks = job.n_running_tasks - 1,
                                 !.n_failed_tasks = job.n_failed_tasks + 1]
<1>1. /\ job \in JobRecord(DOMAIN job.tasks) /\ job.n_running_tasks - 1 \in Nat
      /\ job.n_failed_tasks + 1 \in Nat
      /\ id \in DOMAIN job.tasks /\ job.tasks[id] = "Running"
  BY RunningPositive DEF GoodJob, JobInv, JobTypeOK, JobRecord, can_end
<1>2. set_failed_state(job, id) = check_termination(moved)
  BY Zenon DEF set_failed_state
<1>3. JobInv(check_termination(moved))
  BY Zenon, <1>2, FailedJobStep DEF GoodJob, JobStep
<1>4. moved \in JobRecord(DOMAIN job.tasks) /\ moved.completed = job.completed
  BY Zenon, <1>1 DEF JobRecord, JobTaskState, Terminal
<1>5. Moved(job, moved, {id}, {"Running"}, "Failed")
  BY Zenon, <1>1 DEF JobRecord, Moved
<1>. HIDE DEF moved
<1>6. /\ GoodJob(check_termination(moved))
      /\ Moved(job, check_termination(moved), {id}, {"Running"}, "Failed")
  BY Zenon, <1>3, <1>4, <1>5, EndEdge DEF NonFinished
<1>. QED  BY Zenon, <1>1, <1>2, <1>6 DEF Edge

\* set_cancel_state takes an edge of the lifecycle, or none if tako canceled
\* no task.
LEMMA CancelEdge ==
    ASSUME NEW job, GoodJob(job), NEW ids, can_cancel(job, ids)
    PROVE  GoodJob(set_cancel_state(job, ids)) /\ Edge(job, set_cancel_state(job, ids))
<1>. DEFINE running == ids \cap InState(job, {"Running"})
            moved == CancelWith(job, ids, Cardinality(running))
<1>1. /\ job \in JobRecord(DOMAIN job.tasks)
      /\ ids \subseteq DOMAIN job.tasks /\ \A t \in ids : job.tasks[t] \in NonFinished
      /\ IsFiniteSet(DOMAIN job.tasks)
  BY Zenon DEF GoodJob, JobInv, JobTypeOK, can_cancel, InState
<1>2. CASE ids = {}
  BY Zenon, <1>2 DEF set_cancel_state, Edge
<1>3. CASE ids # {}
  <2>1. set_cancel_state(job, ids) = check_termination(moved)
    BY Zenon, <1>3 DEF set_cancel_state
  <2>2. JobInv(check_termination(moved))
    BY Zenon, <2>1, CancelJobStep DEF GoodJob, JobStep
  <2>3. Cardinality(ids) \in Nat
    BY Zenon, <1>1, FS_Subset, FS_CardinalityType
  <2>4. job.n_running_tasks - Cardinality(running) \in Nat
    <3>1. running \subseteq InState(job, {"Running"})
      BY Zenon
    <3>. HIDE DEF running
    <3>. QED  BY <1>1, <3>1, AtMostRunning DEF GoodJob, JobRecord
  <2>. HIDE DEF running
  <2>5. moved \in JobRecord(DOMAIN job.tasks) /\ moved.completed = job.completed
    <3>1. job.n_canceled_tasks + Cardinality(ids) \in Nat
      BY <1>1, <2>3 DEF JobRecord
    <3>. QED  BY Zenon, <1>1, <2>4, <3>1 DEF JobRecord, JobTaskState, Terminal, CancelWith
  <2>6. Moved(job, moved, ids, NonFinished, "Canceled")
    BY Zenon, <1>1 DEF JobRecord, Moved, CancelWith
  <2>. HIDE DEF moved
  <2>7. /\ GoodJob(check_termination(moved))
        /\ Moved(job, check_termination(moved), ids, NonFinished, "Canceled")
    BY Zenon, <1>3, <2>2, <2>5, <2>6, EndEdge
  <2>. QED  BY Zenon, <1>1, <1>3, <2>1, <2>7 DEF Edge
<1>. QED  BY Zenon, <1>2, <1>3
----------------------------------------------------------------------------
(* What an action does to jobs.                                            *)

LifeInv == IInv /\ CompletedWhenTerminated

\* A job appears.
JobAdded ==
    \E spec : /\ IsSpec(spec)
              /\ job_id_counter \notin DOMAIN jobs
              /\ jobs' = Insert(jobs, job_id_counter, new(task_id_counter, spec))

\* The tasks of one job take an edge of the lifecycle.
JobMoved ==
    \E j \in DOMAIN jobs : \E job :
        /\ jobs' = [jobs EXCEPT ![j] = job]
        /\ GoodJob(job)
        /\ Edge(jobs[j], job)

\* Tasks of any jobs wait again.
TasksReturned ==
    \E ids :
        /\ jobs' = [j \in DOMAIN jobs |-> jobs'[j]]
        /\ \A j \in DOMAIN jobs :
               /\ GoodJob(jobs'[j])
               /\ Returns(jobs[j], jobs'[j], ids \cap DOMAIN jobs[j].tasks)

JobsChange == UNCHANGED jobs \/ JobAdded \/ JobMoved \/ TasksReturned

\* Every job is in a good state.
LEMMA AllGood ==
    ASSUME LifeInv, NEW j \in DOMAIN jobs
    PROVE  GoodJob(jobs[j])
BY Zenon, JobOfState DEF LifeInv, CompletedWhenTerminated, GoodJob, CompletedOK

\* A panic leaves jobs alone.
LEMMA PanicJobs == Panic => JobsChange
BY Zenon DEF Panic, JobsChange, stateVars

\* handle_submit adds a job, or panics.
LEMMA SubmitJobs ==
    ASSUME LifeInv, NEW c \in Clients, NEW spec, IsSpec(spec), handle_submit(c, spec)
    PROVE  JobsChange
<1>. DEFINE refused == \/ new(task_id_counter, spec).base \in DOMAIN base_task_id_to_job_id
                       \/ job_id_counter \in DOMAIN jobs
<1>1. CASE refused
  BY Zenon, <1>1, PanicJobs DEF handle_submit
<1>2. CASE ~ refused
  <2>1. JobAdded
    BY Zenon, <1>2 DEF handle_submit, JobAdded
  <2>. QED  BY Zenon, <2>1 DEF JobsChange
<1>. QED  BY Zenon, <1>1, <1>2

\* The specification of the job that handle_resubmit submits.
LEMMA ResubmitSpec ==
    ASSUME LifeInv, NEW j \in DOMAIN jobs, NEW filter
    PROVE  IsSpec([n |-> Cardinality(InState(jobs[j], filter)),
                   id_count |-> Cardinality(InState(jobs[j], filter)), log |-> FALSE,
                   max_fails |-> jobs[j].max_fails])
<1>. DEFINE count == Cardinality(InState(jobs[j], filter))
<1>1. JobTypeOK(jobs[j])
  BY Zenon, AllGood DEF GoodJob, JobInv
<1>2. count \in Nat /\ jobs[j].max_fails \subseteq Nat
  BY Zenon, <1>1, InStateFinite DEF JobTypeOK, JobRecord
<1>. HIDE DEF count
<1>3. IsSpec([n |-> count, id_count |-> count, log |-> FALSE, max_fails |-> jobs[j].max_fails])
  BY <1>2 DEF IsSpec
<1>. QED  BY Zenon, <1>3 DEF count

\* The requests of clients: only submits and resubmits change jobs.
LEMMA RequestJobs ==
    ASSUME LifeInv, NEW c \in Clients, Request(c)
    PROVE  JobsChange
<1>1. ASSUME NEW spec \in JobSpecs, handle_submit(c, spec)
      PROVE  JobsChange
  BY Zenon, <1>1, SubmitJobs, JobSpecsAssumption DEF IsSpec
<1>2. ASSUME NEW j \in DOMAIN jobs, NEW filter \in Filters, handle_resubmit(c, j, filter)
      PROVE  JobsChange
  BY Zenon, <1>2, SubmitJobs, ResubmitSpec DEF handle_resubmit
<1>3. ASSUME NEW todo, handle_job_cancel(c, todo) \/ handle_worker_stop(c, todo)
      PROVE  JobsChange
  BY Zenon, <1>3 DEF handle_job_cancel, handle_worker_stop, stateVars, JobsChange
<1>. QED  BY Zenon, <1>1, <1>2, <1>3 DEF Request

\* apply_cancel moves the tasks tako canceled.
LEMMA ApplyCancelJobs ==
    ASSUME LifeInv, NEW job_id, NEW ids, can_cancel(jobs[job_id], ids),
           apply_cancel(job_id, ids)
    PROVE  JobsChange
<1>. DEFINE job == set_cancel_state(jobs[job_id], ids)
<1>1. jobs' = [jobs EXCEPT ![job_id] = job] /\ jobs = [j \in DOMAIN jobs |-> jobs[j]]
  BY Zenon DEF apply_cancel, LifeInv, IInv, StateInv, StateTypeOK
<1>2. CASE job_id \notin DOMAIN jobs
  <2>1. jobs' = jobs
    BY Zenon, <1>1, <1>2
  <2>. QED  BY Zenon, <2>1 DEF JobsChange
<1>3. CASE job_id \in DOMAIN jobs
  <2>1. GoodJob(job) /\ Edge(jobs[job_id], job)
    BY Zenon, <1>3, AllGood, CancelEdge
  <2>. HIDE DEF job
  <2>2. JobMoved
    BY Zenon, <1>1, <1>3, <2>1 DEF JobMoved
  <2>. QED  BY Zenon, <2>2 DEF JobsChange
<1>. QED  BY Zenon, <1>2, <1>3

\* The continuations of requests: only the answer to a cancel changes jobs.
LEMMA ResumeJobs ==
    ASSUME LifeInv, NEW c \in Clients,
           Resume(c) \/ connection_lost(c) \/ connection_ended(c)
    PROVE  JobsChange
<1>1. CASE cancel_answered(c)
  <2>1. PICK msg \in client[c].reply :
            CASE /\ msg.type = "CancelTasksResponse"
                 /\ can_cancel(jobs[client[c].job], msg.tasks) ->
                        apply_cancel(client[c].job, msg.tasks)
              [] msg.type = "Error" -> UNCHANGED stateVars
              [] OTHER -> Panic
    BY Zenon, <1>1 DEF cancel_answered
  <2>2. \/ /\ can_cancel(jobs[client[c].job], msg.tasks)
           /\ apply_cancel(client[c].job, msg.tasks)
        \/ UNCHANGED stateVars
        \/ Panic
    BY Zenon, <2>1
  <2>. QED  BY Zenon, <2>2, ApplyCancelJobs, PanicJobs DEF stateVars, JobsChange
<1>2. CASE submit_registered(c) \/ submit_finished(c) \/ stop_answered(c)
  BY Zenon, <1>2, PanicJobs DEF submit_registered, submit_finished, stop_answered, stateVars, JobsChange
<1>3. CASE connection_lost(c) \/ connection_ended(c)
  BY Zenon, <1>3 DEF connection_lost, connection_ended, stateVars, JobsChange
<1>. QED  BY Zenon, <1>1, <1>2, <1>3 DEF Resume

\* The tasks that cancel on behalf of max_fails.
LEMMA CallbackJobs ==
    ASSUME LifeInv, NEW t \in DOMAIN callbacks, Callback(t)
    PROVE  JobsChange
<1>1. CASE callback_send(t)
  BY Zenon, <1>1 DEF callback_send, stateVars, JobsChange
<1>2. CASE callback_answered(t)
  <2>1. PICK msg \in callbacks[t].reply :
            CASE /\ msg.type = "CancelTasksResponse"
                 /\ can_cancel(jobs[callbacks[t].job], msg.tasks) ->
                        apply_cancel(callbacks[t].job, msg.tasks)
              [] msg.type = "Error" -> UNCHANGED stateVars
              [] OTHER -> Panic
    BY Zenon, <1>2 DEF callback_answered
  <2>2. \/ /\ can_cancel(jobs[callbacks[t].job], msg.tasks)
           /\ apply_cancel(callbacks[t].job, msg.tasks)
        \/ UNCHANGED stateVars
        \/ Panic
    BY Zenon, <2>1
  <2>. QED  BY Zenon, <2>2, ApplyCancelJobs, PanicJobs DEF stateVars, JobsChange
<1>. QED  BY Zenon, <1>1, <1>2 DEF Callback

\* The job a report of tako is about.
LEMMA ReportedJob ==
    ASSUME LifeInv, NEW type \in {"Running", "Finished", "Waiting", "TaskFailed"}, Receive(type),
           get_job_by_tako_task_id(Head(from_tako).task) # NoJob
    PROVE  LET task == Head(from_tako).task
               job_id == get_job_by_tako_task_id(task)
           IN  /\ task \in Nat
               /\ job_id \in DOMAIN jobs
               /\ task \in DOMAIN jobs[job_id].tasks
               /\ GoodJob(jobs[job_id])
<1>1. Head(from_tako).task \in Nat
  BY Zenon, ReceivedType DEF LifeInv
<1>. QED  BY Zenon, <1>1, LookupSound, AllGood DEF LifeInv, IInv

\* One job takes the edge of a report.
LEMMA MovedChange ==
    ASSUME NEW j \in DOMAIN jobs, NEW job, GoodJob(job), Edge(jobs[j], job),
           jobs' = [jobs EXCEPT ![j] = job]
    PROVE  JobsChange
BY Zenon DEF JobsChange, JobMoved

\* process_task_update of a task that runs.
LEMMA RunningJobs ==
    ASSUME LifeInv, process_task_running
    PROVE  JobsChange
<1>. DEFINE msg == Head(from_tako)
            job_id == get_job_by_tako_task_id(msg.task)
            job == set_running_state(jobs[job_id], msg.task, msg.worker)
<1>1. CASE job_id = NoJob
  BY Zenon, <1>1, PanicJobs DEF process_task_running
<1>2. CASE job_id # NoJob
  <2>1. Receive("Running") /\ jobs' = [jobs EXCEPT ![job_id] = job]
    BY Zenon, <1>2 DEF process_task_running
  <2>2. /\ job_id \in DOMAIN jobs /\ msg.task \in DOMAIN jobs[job_id].tasks
        /\ GoodJob(jobs[job_id])
    BY Zenon, <1>2, <2>1, ReportedJob
  <2>3. msg.worker \in Workers
    BY Zenon, <2>1, ReceivedType DEF LifeInv
  <2>4. GoodJob(job) /\ Edge(jobs[job_id], job)
    BY Zenon, <2>2, <2>3, RunningEdge
  <2>. HIDE DEF job, job_id
  <2>. QED  BY Zenon, <2>1, <2>2, <2>4, MovedChange
<1>. QED  BY Zenon, <1>1, <1>2

\* process_task_update of a task that finished.
LEMMA FinishedJobs ==
    ASSUME LifeInv, process_task_finished
    PROVE  JobsChange
<1>. DEFINE msg == Head(from_tako)
            job_id == get_job_by_tako_task_id(msg.task)
            job == set_finished_state(jobs[job_id], msg.task)
            refused == job_id = NoJob \/ ~ can_end(jobs[job_id], msg.task)
<1>1. CASE refused
  BY Zenon, <1>1, PanicJobs DEF process_task_finished
<1>2. CASE ~ refused
  <2>1. Receive("Finished") /\ jobs' = [jobs EXCEPT ![job_id] = job]
    BY Zenon, <1>2 DEF process_task_finished
  <2>2. job_id \in DOMAIN jobs /\ GoodJob(jobs[job_id])
    BY Zenon, <1>2, <2>1, ReportedJob
  <2>3. GoodJob(job) /\ Edge(jobs[job_id], job)
    BY Zenon, <1>2, <2>2, FinishedEdge
  <2>. HIDE DEF job, job_id
  <2>. QED  BY Zenon, <2>1, <2>2, <2>3, MovedChange
<1>. QED  BY Zenon, <1>1, <1>2

\* process_task_failed.
LEMMA FailedJobs ==
    ASSUME LifeInv, process_task_failed
    PROVE  JobsChange
<1>. DEFINE msg == Head(from_tako)
            job_id == get_job_by_tako_task_id(msg.task)
            job == set_failed_state(jobs[job_id], msg.task)
            refused == job_id = NoJob \/ ~ can_end(jobs[job_id], msg.task)
<1>1. CASE refused
  BY Zenon, <1>1, PanicJobs DEF process_task_failed
<1>2. CASE ~ refused
  <2>1. Receive("TaskFailed") /\ jobs' = [jobs EXCEPT ![job_id] = job]
    BY Zenon, <1>2 DEF process_task_failed
  <2>2. job_id \in DOMAIN jobs /\ GoodJob(jobs[job_id])
    BY Zenon, <1>2, <2>1, ReportedJob
  <2>3. GoodJob(job) /\ Edge(jobs[job_id], job)
    BY Zenon, <1>2, <2>2, FailedEdge
  <2>. HIDE DEF job, job_id
  <2>. QED  BY Zenon, <2>1, <2>2, <2>3, MovedChange
<1>. QED  BY Zenon, <1>1, <1>2

\* A job none of whose tasks is returned.
LEMMA NothingReturned ==
    ASSUME NEW job, GoodJob(job)
    PROVE  Returns(job, job, {})
BY Zenon DEF GoodJob, JobInv, JobTypeOK, JobRecord, Returns, Moved

\* process_task_update of a task that waits again.
LEMMA WaitingJobs ==
    ASSUME LifeInv, process_task_waiting
    PROVE  JobsChange
<1>. DEFINE msg == Head(from_tako)
            job_id == get_job_by_tako_task_id(msg.task)
            job == set_waiting_state(jobs[job_id], {msg.task})
            refused == job_id = NoJob \/ ~ can_wait(jobs[job_id], {msg.task})
<1>1. CASE refused
  BY Zenon, <1>1, PanicJobs DEF process_task_waiting
<1>2. CASE ~ refused
  <2>1. Receive("Waiting") /\ jobs' = [jobs EXCEPT ![job_id] = job]
    BY Zenon, <1>2 DEF process_task_waiting
  <2>2. /\ job_id \in DOMAIN jobs /\ GoodJob(jobs[job_id])
        /\ msg.task \in DOMAIN jobs[job_id].tasks
    BY Zenon, <1>2, <2>1, ReportedJob
  <2>3. GoodJob(job) /\ Returns(jobs[job_id], job, {msg.task})
    BY Zenon, <1>2, <2>2, WaitingEdge
  <2>4. \A j \in DOMAIN jobs \ {job_id} : {msg.task} \cap DOMAIN jobs[j].tasks = {}
    BY Zenon, LookupComplete DEF LifeInv, IInv
  <2>5. \A j \in DOMAIN jobs : GoodJob(jobs[j]) /\ Returns(jobs[j], jobs[j], {})
    BY Zenon, AllGood, NothingReturned
  <2>. HIDE DEF job, job_id
  <2>6. ASSUME NEW j \in DOMAIN jobs
        PROVE  /\ GoodJob(jobs'[j])
               /\ Returns(jobs[j], jobs'[j], {msg.task} \cap DOMAIN jobs[j].tasks)
    <3>1. CASE j = job_id
      <4>1. jobs'[j] = job /\ {msg.task} \cap DOMAIN jobs[j].tasks = {msg.task}
        BY Zenon, <2>1, <2>2, <3>1
      <4>. QED  BY Zenon, <2>3, <3>1, <4>1
    <3>2. CASE j # job_id
      <4>1. jobs'[j] = jobs[j] /\ {msg.task} \cap DOMAIN jobs[j].tasks = {}
        BY Zenon, <2>1, <2>4, <3>2
      <4>. QED  BY Zenon, <2>5, <4>1
    <3>. QED  BY Zenon, <3>1, <3>2
  <2>7. jobs' = [j \in DOMAIN jobs |-> jobs'[j]]
    BY Zenon, <2>1
  <2>8. TasksReturned
    BY Zenon, <2>6, <2>7 DEF TasksReturned
  <2>. QED  BY Zenon, <2>8 DEF JobsChange
<1>. QED  BY Zenon, <1>1, <1>2

\* process_worker_lost returns the tasks that ran on the worker.
LEMMA WorkerLostJobs ==
    ASSUME LifeInv, process_worker_lost
    PROVE  JobsChange
<1>. DEFINE msg == Head(from_tako)
            lost(j) == {t \in msg.tasks : get_job_by_tako_task_id(t) = j}
            refused == \/ msg.worker \notin DOMAIN workers
                       \/ lost(NoJob) # {}
                       \/ \E j \in DOMAIN jobs : ~ can_wait(jobs[j], lost(j))
<1>1. CASE refused
  BY Zenon, <1>1, PanicJobs DEF process_worker_lost
<1>2. CASE ~ refused
  <2>1. jobs' = [j \in DOMAIN jobs |-> set_waiting_state(jobs[j], lost(j))]
    BY Zenon, <1>2 DEF process_worker_lost
  <2>2. ASSUME NEW j \in DOMAIN jobs
        PROVE  /\ GoodJob(jobs'[j])
               /\ Returns(jobs[j], jobs'[j], msg.tasks \cap DOMAIN jobs[j].tasks)
    <3>1. can_wait(jobs[j], lost(j))
      BY Zenon, <1>2
    <3>2. lost(j) = msg.tasks \cap DOMAIN jobs[j].tasks
      <4>1. lost(j) \subseteq DOMAIN jobs[j].tasks
        BY Zenon, <3>1 DEF can_wait, InState
      <4>2. \A t \in DOMAIN jobs[j].tasks : get_job_by_tako_task_id(t) = j
        BY Zenon, LookupComplete DEF LifeInv, IInv
      <4>. QED  BY Zenon, <4>1, <4>2
    <3>3. jobs'[j] = set_waiting_state(jobs[j], lost(j))
      BY Zenon, <2>1
    <3>. HIDE DEF lost
    <3>. QED  BY Zenon, <3>1, <3>2, <3>3, AllGood, WaitingEdge
  <2>3. TasksReturned
    BY Zenon, <2>1, <2>2 DEF TasksReturned
  <2>. QED  BY Zenon, <2>3 DEF JobsChange
<1>. QED  BY Zenon, <1>1, <1>2

\* Every step of the server changes jobs in one of four ways.
LEMMA NextJobs == LifeInv /\ [Next]_vars => JobsChange
<1>. SUFFICES ASSUME LifeInv, [Next]_vars  PROVE  JobsChange
  BY Zenon
<1>1. CASE Reader
  <2>1. CASE process_worker_new
    BY Zenon, <2>1, PanicJobs DEF process_worker_new, stateVars, JobsChange
  <2>2. CASE deliver_response
    BY Zenon, <2>2, PanicJobs DEF deliver_response, stateVars, JobsChange
  <2>. QED  BY Zenon, <1>1, <2>1, <2>2, RunningJobs, FinishedJobs, WaitingJobs, FailedJobs,
            WorkerLostJobs DEF Reader
<1>2. CASE StreamServer
  BY Zenon, <1>2, PanicJobs DEF StreamServer, register_stream, unregister_stream, stateVars, JobsChange
<1>3. CASE TakoRequest
  BY Zenon, <1>3 DEF TakoRequest, TakoNewTasks, TakoCancelTasks, TakoCancelFails, TakoStopWorker,
     TakoAnswers, stateVars, JobsChange
<1>4. CASE TakoEvent
  BY Zenon, <1>4 DEF TakoEvent, TakoWorkerConnects, TakoWorkerLost, TakoTaskStarts,
     TakoTaskStartsAgain, TakoTaskReturns, TakoTaskEnds, TakoReports, stateVars, JobsChange
<1>5. ASSUME NEW c \in Clients, Request(c) \/ Resume(c) \/ connection_lost(c)
                                   \/ connection_ended(c)
      PROVE  JobsChange
  BY Zenon, <1>5, RequestJobs, ResumeJobs
<1>6. ASSUME NEW t \in DOMAIN callbacks, Callback(t)
      PROVE  JobsChange
  BY Zenon, <1>6, CallbackJobs
<1>7. CASE UNCHANGED vars
  BY Zenon, <1>7 DEF vars, stateVars, JobsChange
<1>. QED  BY Zenon, <1>1, <1>2, <1>3, <1>4, <1>5, <1>6, <1>7 DEF Next
----------------------------------------------------------------------------
(* The steps of the lifecycle.                                             *)

\* The variables of Lifecycle.
TaskStates == [j \in DOMAIN jobs |-> jobs[j].tasks]

CompletedJobs == {j \in DOMAIN jobs : jobs[j].completed}

LifeStep == CompletedWhenTerminated' /\ [L!Next]_(L!vars)

\* Whether all tasks of a job ended, as Lifecycle and as the server see it.
LEMMA EndedMeans ==
    ASSUME NEW job, GoodJob(job)
    PROVE  L!AllEnded(job.tasks) <=> non_finished_task_ids(job) = {}
BY Zenon DEF L!AllEnded, L!Ended, non_finished_task_ids, InState, NonFinished, GoodJob, JobInv,
   JobTypeOK, JobRecord, JobTaskState, Terminal

\* A step that changes no job.
LEMMA SameLife ==
    ASSUME LifeInv, UNCHANGED jobs
    PROVE  LifeStep
BY Zenon DEF LifeInv, LifeStep, CompletedWhenTerminated, L!vars

\* A submit.
LEMMA AddedLife ==
    ASSUME LifeInv, JobAdded
    PROVE  LifeStep
<1>1. PICK spec : /\ IsSpec(spec)
                  /\ job_id_counter \notin DOMAIN jobs
                  /\ jobs' = Insert(jobs, job_id_counter, new(task_id_counter, spec))
  BY Zenon DEF JobAdded
<1>. DEFINE k == job_id_counter
            job == new(task_id_counter, spec)
<1>2. /\ GoodJob(job) /\ ~ job.completed
      /\ \A t \in DOMAIN job.tasks : job.tasks[t] = "Waiting"
  BY Zenon, <1>1, NewJobGood DEF LifeInv, IInv, StateInv, StateTypeOK
<1>. HIDE DEF job
<1>3. /\ DOMAIN jobs' = DOMAIN jobs \cup {k} /\ k \notin DOMAIN jobs
      /\ jobs'[k] = job
      /\ \A j \in DOMAIN jobs : jobs'[j] = jobs[j]
  BY Zenon, <1>1 DEF Insert, job
<1>4. CompletedWhenTerminated'
  BY Zenon, <1>2, <1>3 DEF LifeInv, CompletedWhenTerminated, GoodJob, CompletedOK
<1>5. L!Submitted
  <2>1. /\ DOMAIN TaskStates' = DOMAIN TaskStates \cup {k} /\ k \notin DOMAIN TaskStates
        /\ TaskStates'[k] = job.tasks
        /\ \A j \in DOMAIN TaskStates : TaskStates'[j] = TaskStates[j]
    BY Zenon, <1>3 DEF TaskStates
  <2>2. CompletedJobs' = CompletedJobs
    BY Zenon, <1>2, <1>3 DEF CompletedJobs
  <2>. QED  BY Zenon, <1>2, <2>1, <2>2 DEF L!Submitted, TaskStates, CompletedJobs
<1>. QED  BY Zenon, <1>4, <1>5 DEF LifeStep, L!Next

\* Tasks that wait again.
LEMMA ReturnedLife ==
    ASSUME LifeInv, TasksReturned
    PROVE  LifeStep
<1>1. PICK ids : /\ jobs' = [j \in DOMAIN jobs |-> jobs'[j]]
                 /\ \A j \in DOMAIN jobs :
                        /\ GoodJob(jobs'[j])
                        /\ Returns(jobs[j], jobs'[j], ids \cap DOMAIN jobs[j].tasks)
  BY Zenon DEF TasksReturned
<1>2. DOMAIN jobs' = DOMAIN jobs
  BY Zenon, <1>1
<1>3. CompletedWhenTerminated'
  BY Zenon, <1>1, <1>2 DEF CompletedWhenTerminated, GoodJob, CompletedOK
<1>4. CompletedJobs' = CompletedJobs
  BY Zenon, <1>1, <1>2 DEF CompletedJobs, Returns
<1>5. PICK back \in SUBSET UNION {DOMAIN jobs[j].tasks : j \in DOMAIN jobs} :
          \A j \in DOMAIN jobs : \A t \in DOMAIN jobs[j].tasks : t \in back <=> t \in ids
  <2>. WITNESS ids \cap UNION {DOMAIN jobs[j].tasks : j \in DOMAIN jobs}
                  \in SUBSET UNION {DOMAIN jobs[j].tasks : j \in DOMAIN jobs}
  <2>. QED  BY Zenon
<1>6. \A j \in DOMAIN jobs :
          /\ jobs'[j].tasks = [t \in DOMAIN jobs[j].tasks |->
                                   IF t \in back THEN "Waiting" ELSE jobs[j].tasks[t]]
          /\ \A t \in DOMAIN jobs[j].tasks \cap back : jobs[j].tasks[t] = "Running"
  BY <1>1, <1>5 DEF Returns, Moved
<1>7. L!Returned(back)
  <2>1. TaskStates' = [j \in DOMAIN TaskStates |-> [t \in DOMAIN TaskStates[j] |->
                           IF t \in back THEN "Waiting" ELSE TaskStates[j][t]]]
    BY <1>2, <1>6 DEF TaskStates
  <2>2. \A j \in DOMAIN TaskStates : \A t \in DOMAIN TaskStates[j] \cap back :
            TaskStates[j][t] = "Running"
    BY Zenon, <1>6 DEF TaskStates
  <2>. QED  BY Zenon, <1>4, <2>1, <2>2 DEF L!Returned, TaskStates, CompletedJobs
<1>8. back \in SUBSET UNION {DOMAIN TaskStates[j] : j \in DOMAIN TaskStates}
  BY Zenon, <1>5 DEF TaskStates
<1>9. \E some \in SUBSET UNION {DOMAIN TaskStates[j] : j \in DOMAIN TaskStates} : L!Returned(some)
  BY <1>7, <1>8, Zenon
<1>10. L!Next
  BY <1>9, Zenon DEF L!Next, TaskStates
<1>. QED  BY Zenon, <1>3, <1>10 DEF LifeStep

\* Tasks of one job that move, and the completion of that job.
LEMMA MoveLife ==
    ASSUME LifeInv, NEW j \in DOMAIN jobs, NEW job, GoodJob(job),
           jobs' = [jobs EXCEPT ![j] = job],
           NEW ids, ids # {}, NEW from, NEW to, Moved(jobs[j], job, ids, from, to)
    PROVE  /\ L!Move(j, ids, from, to)
           /\ from \subseteq NonFinished => L!Completes(j)
           /\ job.completed = jobs[j].completed => UNCHANGED CompletedJobs
<1>1. /\ DOMAIN jobs' = DOMAIN jobs /\ jobs'[j] = job
      /\ \A i \in DOMAIN jobs \ {j} : jobs'[i] = jobs[i]
  BY Zenon
<1>2. L!Move(j, ids, from, to)
  <2>1. /\ DOMAIN TaskStates = DOMAIN jobs
        /\ TaskStates[j] = jobs[j].tasks
        /\ TaskStates' = [TaskStates EXCEPT ![j] = job.tasks]
    BY Zenon, <1>1 DEF TaskStates
  <2>2. /\ ids \subseteq DOMAIN TaskStates[j]
        /\ \A t \in ids : TaskStates[j][t] \in from
        /\ TaskStates' = [TaskStates EXCEPT ![j] =
               [t \in DOMAIN TaskStates[j] |-> IF t \in ids THEN to ELSE TaskStates[j][t]]]
    BY Zenon, <2>1 DEF Moved
  <2>. QED  BY Zenon, <2>2 DEF L!Move, TaskStates
<1>3. job.completed = jobs[j].completed => UNCHANGED CompletedJobs
  BY Zenon, <1>1 DEF CompletedJobs
<1>4. ASSUME from \subseteq NonFinished
      PROVE  L!Completes(j)
  <2>1. GoodJob(jobs[j])
    BY Zenon, AllGood
  <2>2. ~ jobs[j].completed /\ DOMAIN job.tasks # {}
    BY Zenon, <1>4, <2>1, OpenJob DEF Moved, GoodJob, InState
  <2>3. job.completed <=> L!AllEnded(job.tasks)
    BY Zenon, <2>2, EndedMeans DEF GoodJob, CompletedOK
  <2>4. TaskStates'[j] = job.tasks
    BY Zenon, <1>1 DEF TaskStates
  <2>5. CompletedJobs' = IF job.completed THEN CompletedJobs \cup {j} ELSE CompletedJobs
    BY Zenon, <1>1, <2>2 DEF CompletedJobs
  <2>. QED  BY Zenon, <2>3, <2>4, <2>5 DEF L!Completes, TaskStates, CompletedJobs
<1>. QED  BY Zenon, <1>2, <1>3, <1>4

\* One job whose tasks take an edge.
LEMMA MovedLife ==
    ASSUME LifeInv, JobMoved
    PROVE  LifeStep
<1>0. PICK j \in DOMAIN jobs :
          \E job : jobs' = [jobs EXCEPT ![j] = job] /\ GoodJob(job) /\ Edge(jobs[j], job)
  BY Zenon DEF JobMoved
<1>1. PICK job : /\ jobs' = [jobs EXCEPT ![j] = job]
                 /\ GoodJob(job)
                 /\ Edge(jobs[j], job)
  BY Zenon, <1>0
<1>2. CompletedWhenTerminated'
  BY Zenon, <1>1 DEF LifeInv, CompletedWhenTerminated, GoodJob, CompletedOK
<1>3. j \in DOMAIN TaskStates /\ TaskStates[j] = jobs[j].tasks
  BY Zenon DEF TaskStates
<1>4. CASE job.tasks = jobs[j].tasks /\ job.completed = jobs[j].completed
  <2>1. TaskStates' = TaskStates /\ CompletedJobs' = CompletedJobs
    BY Zenon, <1>1, <1>4 DEF TaskStates, CompletedJobs
  <2>. QED  BY Zenon, <1>2, <2>1 DEF LifeStep, L!vars, TaskStates, CompletedJobs
<1>5. ASSUME NEW t \in DOMAIN jobs[j].tasks, Moved(jobs[j], job, {t}, {"Waiting"}, "Running"),
             job.completed = jobs[j].completed
      PROVE  L!Started(j, t)
  BY Zenon, <1>1, <1>5, MoveLife DEF L!Started, CompletedJobs
<1>6. ASSUME NEW t \in DOMAIN jobs[j].tasks, NEW to \in {"Finished", "Failed"},
             Moved(jobs[j], job, {t}, {"Running"}, to)
      PROVE  L!Ends(j, t)
  BY Zenon, <1>1, <1>6, MoveLife DEF L!Ends, NonFinished
<1>7. ASSUME NEW ids \in SUBSET DOMAIN jobs[j].tasks, ids # {},
             Moved(jobs[j], job, ids, NonFinished, "Canceled")
      PROVE  L!Cancels(j, ids)
  BY Zenon, <1>1, <1>7, MoveLife DEF L!Cancels, NonFinished
<1>8. CASE \/ \E t \in DOMAIN jobs[j].tasks : L!Started(j, t) \/ L!Ends(j, t)
           \/ \E ids \in SUBSET DOMAIN jobs[j].tasks : L!Cancels(j, ids)
  <2>1. \/ \E t \in DOMAIN TaskStates[j] : L!Started(j, t) \/ L!Ends(j, t)
        \/ \E ids \in SUBSET DOMAIN TaskStates[j] : L!Cancels(j, ids)
    BY Zenon, <1>3, <1>8
  <2>2. \E i \in DOMAIN TaskStates :
            \/ \E t \in DOMAIN TaskStates[i] : L!Started(i, t) \/ L!Ends(i, t)
            \/ \E ids \in SUBSET DOMAIN TaskStates[i] : L!Cancels(i, ids)
    BY Zenon, <1>3, <2>1
  <2>3. L!Next
    BY <2>2, Zenon DEF L!Next, TaskStates
  <2>. QED  BY Zenon, <1>2, <2>3 DEF LifeStep
<1>. QED  BY Zenon, <1>1, <1>4, <1>5, <1>6, <1>7, <1>8 DEF Edge
----------------------------------------------------------------------------
(* Theorems.                                                               *)

\* Every step of the server keeps LifeInv and is a step of Lifecycle.
LEMMA NextLife == LifeInv /\ [Next]_vars => LifeInv' /\ [L!Next]_(L!vars)
<1>. SUFFICES ASSUME LifeInv, [Next]_vars  PROVE  LifeInv' /\ [L!Next]_(L!vars)
  BY Zenon
<1>1. IInv'
  BY Zenon, NextInv DEF LifeInv, Preserved
<1>2. LifeStep
  BY Zenon, NextJobs, SameLife, AddedLife, MovedLife, ReturnedLife DEF JobsChange
<1>. QED  BY Zenon, <1>1, <1>2 DEF LifeInv, LifeStep

\* The server starts without jobs.
LEMMA InitLife == Init => LifeInv /\ L!Init
<1>. SUFFICES ASSUME Init  PROVE  LifeInv /\ L!Init
  BY Zenon
<1>1. DOMAIN jobs = {}
  BY Zenon DEF Init
<1>2. CompletedWhenTerminated
  BY Zenon, <1>1 DEF CompletedWhenTerminated
<1>3. L!Init
  BY Zenon, <1>1 DEF L!Init
<1>. QED  BY Zenon, <1>2, <1>3, InitInv DEF LifeInv

\* A job is completed (check_termination) exactly when none of its tasks waits
\* or runs, in every reachable state of the server.
THEOREM CompletedCorrect == Spec => []CompletedWhenTerminated
<1>1. LifeInv => CompletedWhenTerminated
  BY Zenon DEF LifeInv
<1>2. LifeInv /\ [Next]_vars => LifeInv'
  BY Zenon, NextLife
<1>. QED  BY InitLife, <1>1, <1>2, PTL DEF Spec

\* Whatever requests, responses and reports interleave, jobs and tasks only
\* take the steps of Lifecycle: the server refines the state diagram of
\* docs/jobs.md.
THEOREM LifecycleImplemented == Spec => ImplementsLifecycle
<1>1. LifeInv /\ [Next]_vars => LifeInv' /\ [L!Next]_(L!vars)
  BY Zenon, NextLife
<1>. QED  BY InitLife, <1>1, PTL DEF Spec, ImplementsLifecycle, L!Spec

\* The rules of docs/arrays.md hold for one job.
LEMMA StatusOfJob ==
    ASSUME NEW job, JobInv(job)
    PROVE  job_status(job) =
               IF InState(job, {"Running"}) # {} THEN "Running"
               ELSE IF InState(job, {"Waiting"}) # {} THEN "Waiting"
               ELSE IF InState(job, {"Canceled"}) # {} THEN "Canceled"
               ELSE IF InState(job, {"Failed"}) # {} THEN "Failed"
               ELSE "Finished"
<1>1. \A s : /\ Cardinality(InState(job, {s})) \in Nat
             /\ Cardinality(InState(job, {s})) > 0 <=> InState(job, {s}) # {}
  <2>. TAKE s
  <2>1. IsFiniteSet(InState(job, {s})) /\ Cardinality(InState(job, {s})) \in Nat
    BY Zenon, InStateFinite DEF JobInv
  <2>2. Cardinality(InState(job, {s})) = 0 <=> InState(job, {s}) = {}
    BY Zenon, <2>1, FS_EmptySet
  <2>. QED  BY <2>1, <2>2
<1>2. /\ job.n_running_tasks = Cardinality(InState(job, {"Running"}))
      /\ job.n_failed_tasks = Cardinality(InState(job, {"Failed"}))
      /\ job.n_canceled_tasks = Cardinality(InState(job, {"Canceled"}))
      /\ n_waiting_tasks(job) = Cardinality(InState(job, {"Waiting"}))
  BY Zenon, WaitingCount DEF JobInv, CountersOK
<1>3. /\ job.n_running_tasks \in Nat /\ (job.n_running_tasks > 0 <=> InState(job, {"Running"}) # {})
      /\ job.n_failed_tasks \in Nat /\ (job.n_failed_tasks > 0 <=> InState(job, {"Failed"}) # {})
      /\ job.n_canceled_tasks \in Nat
      /\ job.n_canceled_tasks > 0 <=> InState(job, {"Canceled"}) # {}
      /\ n_waiting_tasks(job) \in Nat
      /\ n_waiting_tasks(job) > 0 <=> InState(job, {"Waiting"}) # {}
  BY Zenon, <1>1, <1>2
<1>4. CASE InState(job, {"Running"}) # {}
  BY <1>3, <1>4 DEF job_status, is_terminated
<1>5. CASE InState(job, {"Running"}) = {} /\ InState(job, {"Waiting"}) # {}
  BY <1>3, <1>5 DEF job_status, is_terminated
<1>6. CASE InState(job, {"Running"}) = {} /\ InState(job, {"Waiting"}) = {}
  <2>1. is_terminated(job) /\ ~ (job.n_running_tasks > 0) /\ ~ (n_waiting_tasks(job) > 0)
    BY <1>3, <1>6 DEF is_terminated
  <2>. QED  BY <1>3, <1>6, <2>1 DEF job_status
<1>. QED  BY Zenon, <1>4, <1>5, <1>6

\* job_status, computed from the counters, is the state docs/arrays.md derives
\* from the states of the tasks, for every job of every reachable state.
THEOREM StatusCorrect == Spec => []JobStatusRules
<1>1. IInv => JobStatusRules
  <2>. SUFFICES ASSUME IInv, NEW j \in DOMAIN jobs
                PROVE  LET has(S) == InState(jobs[j], S) # {}
                       IN  job_status(jobs[j]) =
                               IF has({"Running"}) THEN "Running"
                               ELSE IF has(JobTaskState \ Terminal) THEN "Waiting"
                               ELSE IF has({"Canceled"}) THEN "Canceled"
                               ELSE IF has({"Failed"}) THEN "Failed"
                               ELSE "Finished"
    BY Zenon DEF JobStatusRules
  <2>1. JobInv(jobs[j])
    BY Zenon, JobOfState
  <2>2. InState(jobs[j], {"Running"}) = {} =>
            InState(jobs[j], JobTaskState \ Terminal) = InState(jobs[j], {"Waiting"})
    BY Zenon DEF InState, JobTaskState, NonFinished, Terminal
  <2>. QED  BY Zenon, <2>1, <2>2, StatusOfJob
<1>. QED  BY Invariant, <1>1, PTL
----------------------------------------------------------------------------
(* What the proofs about requests, responses and reports use of the steps. *)


\* What the State is known to be.
LEMMA LifeBasic == LifeInv => BasicInv
<1>. SUFFICES ASSUME LifeInv  PROVE  BasicInv
  OBVIOUS
<1>1. StateInv /\ CompletedWhenTerminated
  BY DEF LifeInv, IInv
<1>2. TypeOK
  BY DEF LifeInv, IInv, StateInv, TypeOK, ProcessTypeOK
<1>3. DOMAIN jobs = 1 .. (job_id_counter - 1)
  BY <1>1 DEF StateInv, RangesOK
<1>4. ASSUME NEW j \in DOMAIN jobs, NEW t \in DOMAIN jobs[j].tasks
      PROVE  t < task_id_counter /\ get_job_by_tako_task_id(t) = j
  <2>1. JobTypeOK(jobs[j]) /\ task_id_counter \in Nat
    BY <1>1 DEF StateInv, StateTypeOK
  <2>2. /\ DOMAIN jobs[j].tasks = jobs[j].base .. (jobs[j].base + n_tasks(jobs[j]) - 1)
        /\ jobs[j].base + n_tasks(jobs[j]) <= task_id_counter
    BY <1>1 DEF StateInv, RangesOK
  <2>3. jobs[j].base \in Nat /\ n_tasks(jobs[j]) \in Nat
    BY <2>1, FS_CardinalityType DEF JobTypeOK, JobRecord, n_tasks
  <2>. QED  BY <1>1, <2>1, <2>2, <2>3, LookupComplete
<1>5. ASSUME NEW t \in Nat, get_job_by_tako_task_id(t) # NoJob
      PROVE  /\ get_job_by_tako_task_id(t) \in DOMAIN jobs
             /\ t \in DOMAIN jobs[get_job_by_tako_task_id(t)].tasks
  BY <1>1, <1>5, LookupSound
<1>6. ASSUME NEW j \in DOMAIN jobs
      PROVE  is_terminated(jobs[j]) <=> non_finished_task_ids(jobs[j]) = {}
  BY AllGood, TerminatedMeans DEF GoodJob
<1>. QED  BY <1>1, <1>2, <1>3, <1>4, <1>5, <1>6 DEF BasicInv

\* Jobs are never removed and keep their tasks.
LEMMA NextGrows ==
    ASSUME JobsChange
    PROVE  Grows(TasksOf(jobs), TasksOf(jobs'))
<1>1. DOMAIN jobs \subseteq DOMAIN jobs' /\ \A j \in DOMAIN jobs : DOMAIN jobs'[j].tasks = DOMAIN jobs[j].tasks
  <2>1. CASE UNCHANGED jobs
    BY <2>1
  <2>2. CASE JobAdded
    BY <2>2 DEF JobAdded, Insert
  <2>3. CASE JobMoved
    <3>1. PICK j \in DOMAIN jobs : \E job : jobs' = [jobs EXCEPT ![j] = job] /\ Edge(jobs[j], job)
      BY <2>3 DEF JobMoved
    <3>2. PICK job : jobs' = [jobs EXCEPT ![j] = job] /\ Edge(jobs[j], job)
      BY <3>1
    <3>3. DOMAIN job.tasks = DOMAIN jobs[j].tasks
      BY <3>2 DEF Edge, Moved
    <3>. QED  BY <3>2, <3>3
  <2>4. CASE TasksReturned
    <3>1. DOMAIN jobs' = DOMAIN jobs
      BY <2>4 DEF TasksReturned
    <3>2. ASSUME NEW j \in DOMAIN jobs  PROVE  DOMAIN jobs'[j].tasks = DOMAIN jobs[j].tasks
      <4>1. \E ids : Returns(jobs[j], jobs'[j], ids)
        BY <2>4 DEF TasksReturned
      <4>. QED  BY <4>1 DEF Returns, Moved
    <3>. QED  BY <3>1, <3>2
  <2>. QED  BY <2>1, <2>2, <2>3, <2>4 DEF JobsChange
<1>. QED  BY <1>1 DEF Grows, TasksOf

\* What every step of the server keeps.
LEMMA NextFacts ==
    ASSUME LifeInv, [Next]_vars
    PROVE  StepFacts /\ LifeInv'
<1>1. LifeInv' /\ EndedTasksStay /\ JobsChange
  BY NextLife, NextInv, NextJobs DEF LifeInv, Preserved
<1>2. BasicInv
  BY LifeBasic
<1>3. BasicInv'
  BY <1>1, LifeBasic, PTL
<1>4. Grows(TasksOf(jobs), TasksOf(jobs'))
  BY <1>1, NextGrows
<1>5. \A j \in DOMAIN jobs : \A t \in InState(jobs[j], Terminal) : jobs'[j].tasks[t] = jobs[j].tasks[t]
  BY <1>1 DEF EndedTasksStay
<1>6. JobIds \cup {<<w>> : w \in Workers} \cup Orderings(Online) \subseteq IdList
  <2>1. IInv
    BY DEF LifeInv
  <2>2. ASSUME NEW todo \in JobIds  PROVE todo \in IdList
    BY <2>1, JobIdsType DEF IdList, Todo
  <2>3. ASSUME NEW todo \in {<<w>> : w \in Workers} \cup Orderings(Online)  PROVE todo \in IdList
    BY <2>1, WorkerIdsType DEF IdList, Todo
  <2>. QED  BY <2>2, <2>3
<1>. QED  BY <1>1, <1>2, <1>3, <1>4, <1>5, <1>6 DEF StepFacts
============================================================================
