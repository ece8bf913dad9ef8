------------------------------ MODULE Server ------------------------------
(***************************************************************************)
(* The HyperQueue server: the State (server/state.rs), the handlers of     *)
(* client requests (server/client.rs), the Backend that exchanges messages *)
(* with the tako scheduler (server/rpc.rs) and the control channel of the  *)
(* stream server (stream/server/rpc.rs).                                   *)
(*                                                                         *)
(* All of it but the stream server runs on one thread, so the code between *)
(* two awaits is atomic.  An action is such a piece of code: a handler     *)
(* suspended in an await is a record in `client' or `callbacks', and any   *)
(* other piece may run before it resumes.                                  *)
(*                                                                         *)
(* Tako is a library outside this repository.  The Tako... actions are     *)
(* what the server relies on: requests are processed one at a time and     *)
(* answered in order, cancelling forgets a task at once, and nothing is    *)
(* reported of a task that was forgotten.                                  *)
(***************************************************************************)
EXTENDS Job, Sequences, FiniteSetsExt

CONSTANTS Clients,      \* client connections
          JobSpecs,     \* the jobs a client may submit
          Selections,   \* job lists of Selector::Specific
          LastNs,       \* arguments of Selector::LastN
          Filters,      \* status filters of a resubmit
          Unreliable,   \* clients whose connection may break
          MaxJobs,      \* bound: jobs submitted in a behaviour
          MaxQueue,     \* bound: events tako may have outstanding
          MaxErrors     \* bound: requests tako answers with an error

\* id_count ids are reserved for n tasks: a stepped range reserves more.
ASSUME JobSpecsAssumption ==
    \A spec \in JobSpecs : /\ spec.n \in Nat
                           /\ spec.id_count \in Nat
                           /\ spec.n <= spec.id_count
                           /\ spec.max_fails \subseteq Nat
                           /\ spec.log \in BOOLEAN

ASSUME BoundsAssumption ==
    /\ Unreliable \subseteq Clients
    /\ MaxJobs \in Nat /\ MaxQueue \in Nat /\ MaxErrors \in Nat
    /\ LastNs \subseteq Nat
    /\ Selections \subseteq Seq(Nat)
    /\ Filters \subseteq SUBSET JobTaskState

VARIABLES
    jobs,                    \* State::jobs
    base_task_id_to_job_id,  \* State::base_task_id_to_job_id
    job_id_counter,          \* State::job_id_counter
    task_id_counter,         \* State::task_id_counter
    workers,                 \* State::workers
    client,                  \* the request each client connection is handling
    told_canceled,           \* jobs for which a CancelJobResponse::Canceled was made
    callbacks,               \* tasks spawned by cancel_tasks_from_callback
    to_tako,                 \* the channel to_tako of Backend::start
    from_tako,               \* the channel from_tako of Backend::start
    tako_responses,          \* Inner::tako_responses: who waits, in order
    tako_tasks,              \* tako: the tasks it holds, ready or running
    tako_workers,            \* tako: which worker ids are unused, connected, lost
    errors,                  \* requests answered with an error so far
    control,                 \* Inner::stream_server_control
    registrations,           \* StreamServerState::registrations
    broken,                  \* clients whose connection is broken
    panicked                 \* an assert!, unwrap or panic! aborted the process

stateVars   == <<jobs, base_task_id_to_job_id, job_id_counter, task_id_counter>>
rpcVars     == <<to_tako, tako_responses>>
takoVars    == <<tako_tasks, tako_workers, errors>>
streamVars  == <<control, registrations>>
handlerVars == <<client, callbacks, told_canceled>>
processVars == <<broken, panicked>>
vars == <<stateVars, workers, handlerVars, rpcVars, from_tako, takoVars,
          streamVars, processVars>>

Ready == "ready"

\* What tako has of a task tells whether a worker runs it.
ASSUME ReadyAssumption == Ready \notin Workers

Idle == [pc |-> "idle", job |-> 0, todo |-> <<>>, reply |-> {}]

Init ==
    /\ jobs = [j \in {} |-> 0]
    /\ base_task_id_to_job_id = [b \in {} |-> 0]
    /\ job_id_counter = 1
    /\ task_id_counter = 1
    /\ workers = [w \in {} |-> 0]
    /\ client = [c \in Clients |-> Idle]
    /\ told_canceled = {}
    /\ callbacks = [t \in {} |-> 0]
    /\ to_tako = <<>>
    /\ from_tako = <<>>
    /\ tako_responses = <<>>
    /\ tako_tasks = [t \in {} |-> 0]
    /\ tako_workers = [w \in Workers |-> "unused"]
    /\ errors = 0
    /\ control = <<>>
    /\ registrations = {}
    /\ broken = {}
    /\ panicked = FALSE
----------------------------------------------------------------------------
(* Maps and queues.                                                        *)

Insert(f, k, v) == [x \in DOMAIN f \cup {k} |-> IF x = k THEN v ELSE f[x]]

Remove(f, S) == [x \in DOMAIN f \ S |-> f[x]]

\* The process aborts (panic = "abort" in Cargo.toml): nothing else happens.
Panic ==
    /\ panicked' = TRUE
    /\ UNCHANGED <<stateVars, workers, handlerVars, rpcVars, from_tako,
                   takoVars, streamVars, broken>>

Alive == ~ panicked

NoJob == 0

\* Mutant: the id after the last task counts as a task of the job.
get_job_off_by_one(id) ==
    LET bases == {b \in DOMAIN base_task_id_to_job_id : b <= id}
        job_id == base_task_id_to_job_id[Max(bases)]
    IN  IF bases = {} \/ id > jobs[job_id].base + n_tasks(jobs[job_id])
        THEN NoJob ELSE job_id

\* get_job_mut_by_tako_task_id: the job with the largest base not above id,
\* provided that id is among its tasks.
get_job_by_tako_task_id(id) ==
    LET bases == {b \in DOMAIN base_task_id_to_job_id : b <= id}
        job_id == base_task_id_to_job_id[Max(bases)]
    IN  IF bases = {} THEN NoJob
        ELSE IF /\ job_id \in DOMAIN jobs
                /\ id < jobs[job_id].base + n_tasks(jobs[job_id])
             THEN job_id
             ELSE NoJob

\* send_tako_message: the message is queued and the caller starts to wait.
send_tako_message(msg, who) ==
    /\ to_tako' = Append(to_tako, msg)
    /\ tako_responses' = Append(tako_responses, who)

ClientWaits(c) == [kind |-> "client", client |-> c]

CallbackWaits(t) == [kind |-> "callback", task |-> t]

\* client_rpc_loop sends the response of a handler.  The send may fail when the
\* connection is broken, and then the assert! around it aborts the process.
Answer(c) ==
    \/ client' = [client EXCEPT ![c] = Idle] /\ UNCHANGED panicked
    \/ /\ c \in broken
       /\ client' = [client EXCEPT ![c] = [Idle EXCEPT !.pc = "unsent"]]
       /\ panicked' = TRUE

\* Mutants: the stream is unregistered whenever a task ends, or when no task
\* runs although some wait.
UnregisterAtEveryEnd(job_id, job) ==
    control' = IF job.log
               THEN Append(control, [type |-> "UnregisterStream", job |-> job_id])
               ELSE control

UnregisterWhenNothingRuns(job_id, job) ==
    control' = IF job.log /\ job.n_running_tasks = 0
               THEN Append(control, [type |-> "UnregisterStream", job |-> job_id])
               ELSE control

\* The end of check_termination: the stream of a job that has just
\* terminated is unregistered.
UnregisterStream(job_id, job) ==
    control' = IF job.log /\ is_terminated(job)
               THEN Append(control, [type |-> "UnregisterStream", job |-> job_id])
               ELSE control
----------------------------------------------------------------------------
(* Requests of clients: submit and resubmit.                               *)

NewTasks(job) == [type |-> "NewTasks", tasks |-> DOMAIN job.tasks]

\* handle_submit up to its first await.
handle_submit(c, spec) ==
    LET job_id == job_id_counter
        job    == new(task_id_counter, spec)
    IN  /\ Alive
        /\ client[c].pc = "idle"
        /\ job_id_counter <= MaxJobs
        /\ IF \/ job.base \in DOMAIN base_task_id_to_job_id
              \/ job_id \in DOMAIN jobs
           THEN Panic
           ELSE /\ job_id_counter' = job_id_counter + 1
                /\ task_id_counter' = task_id_counter + spec.id_count
                /\ base_task_id_to_job_id' =
                        Insert(base_task_id_to_job_id, job.base, job_id)
                /\ jobs' = Insert(jobs, job_id, job)
                /\ IF spec.log
                   THEN /\ control' = Append(control, [type |-> "RegisterStream",
                                                       job |-> job_id, client |-> c])
                        /\ client' = [client EXCEPT ![c] =
                               [Idle EXCEPT !.pc = "register", !.job = job_id]]
                        /\ UNCHANGED rpcVars
                   ELSE /\ send_tako_message(NewTasks(job), ClientWaits(c))
                        /\ client' = [client EXCEPT ![c] =
                               [Idle EXCEPT !.pc = "newtasks", !.job = job_id]]
                        /\ UNCHANGED control
                /\ UNCHANGED <<workers, told_canceled, callbacks, from_tako,
                               takoVars, registrations, processVars>>

\* handle_resubmit: the tasks of an older job whose status is in the filter
\* become a new job, which never has a log.
handle_resubmit(c, job_id, filter) ==
    /\ job_id \in DOMAIN jobs
    /\ LET count == Cardinality(InState(jobs[job_id], filter))
       IN  /\ count > 0
           /\ handle_submit(c, [n |-> count, id_count |-> count, log |-> FALSE,
                                max_fails |-> jobs[job_id].max_fails])

\* handle_submit, resumed after the stream server registered the log.
submit_registered(c) ==
    /\ Alive
    /\ client[c].pc = "register"
    /\ client[c].reply # {}
    /\ send_tako_message(NewTasks(jobs[client[c].job]), ClientWaits(c))
    /\ client' = [client EXCEPT ![c].pc = "newtasks", ![c].reply = {}]
    /\ UNCHANGED <<stateVars, workers, told_canceled, callbacks, from_tako,
                   takoVars, streamVars, processVars>>

\* handle_submit, resumed with tako's answer.
submit_finished(c) ==
    /\ Alive
    /\ client[c].pc = "newtasks"
    /\ client[c].reply # {}
    /\ IF \A msg \in client[c].reply : msg.type = "NewTasksResponse"
       THEN /\ Answer(c)
            /\ UNCHANGED <<stateVars, workers, told_canceled, callbacks, rpcVars,
                           from_tako, takoVars, streamVars, broken>>
       ELSE Panic
----------------------------------------------------------------------------
(* Requests of clients: cancel.                                            *)

\* last_n_ids: the ids of the last n jobs, in order.
last_n_ids(n) ==
    LET m == Min({n, job_id_counter - 1})
    IN  [i \in 1 .. m |-> job_id_counter - m + i - 1]

\* A map is iterated in no particular order.
Orderings(S) == {s \in [1 .. Cardinality(S) -> S] : \A x \in S : \E i \in DOMAIN s : s[i] = x}

\* The job ids a selector of a cancel request stands for.
JobIds ==
    Selections \cup {last_n_ids(n) : n \in LastNs}
      \cup Orderings({j \in DOMAIN jobs : job_status(jobs[j]) \in NonFinished})

CancelTasks(tasks) == [type |-> "CancelTasks", tasks |-> tasks]

\* The loop of handle_job_cancel over the job ids `todo', run on the jobs js
\* until a CancelTasks is sent or the list is exhausted.  Unknown jobs are
\* skipped; a job with nothing left to cancel is answered at once.
cancel_loop(c, todo, js, told) ==
    LET pending == {i \in DOMAIN todo : /\ todo[i] \in DOMAIN js
                                        /\ non_finished_task_ids(js[todo[i]]) # {}}
        i == Min(pending)
        passed == {todo[k] : k \in {k \in DOMAIN todo : \A p \in pending : k < p}}
    IN  /\ told_canceled' = told \cup (passed \cap DOMAIN js)
        /\ IF pending = {}
           THEN Answer(c) /\ UNCHANGED rpcVars
           ELSE /\ UNCHANGED panicked
                /\ send_tako_message(CancelTasks(non_finished_task_ids(js[todo[i]])),
                                     ClientWaits(c))
                /\ client' = [client EXCEPT ![c] =
                      [pc |-> "cancel", job |-> todo[i], reply |-> {},
                       todo |-> SubSeq(todo, i + 1, Len(todo))]]

handle_job_cancel(c, todo) ==
    /\ Alive
    /\ client[c].pc = "idle"
    /\ cancel_loop(c, todo, jobs, told_canceled)
    /\ UNCHANGED <<stateVars, workers, callbacks, from_tako, takoVars,
                   streamVars, broken>>

\* Mutants: every task of the job is canceled, whatever tako answered; the
\* stream is not unregistered.
cancel_whole_job(job_id, ids) ==
    LET job == set_cancel_state(jobs[job_id], DOMAIN jobs[job_id].tasks)
    IN  /\ jobs' = [jobs EXCEPT ![job_id] = job]
        /\ UnregisterStream(job_id, job)
        /\ UNCHANGED <<base_task_id_to_job_id, job_id_counter, task_id_counter>>

cancel_without_unregister(job_id, ids) ==
    /\ jobs' = [jobs EXCEPT ![job_id] = set_cancel_state(@, ids)]
    /\ UNCHANGED <<base_task_id_to_job_id, job_id_counter, task_id_counter, control>>

\* set_cancel_state for every task tako cancelled.
apply_cancel(job_id, ids) ==
    LET job == set_cancel_state(jobs[job_id], ids)
    IN  /\ jobs' = [jobs EXCEPT ![job_id] = job]
        /\ IF ids = {} THEN UNCHANGED control ELSE UnregisterStream(job_id, job)
        /\ UNCHANGED <<base_task_id_to_job_id, job_id_counter, task_id_counter>>

\* handle_job_cancel, resumed with tako's answer.
cancel_answered(c) ==
    \E msg \in client[c].reply :
        LET job_id == client[c].job
        IN  /\ Alive
            /\ client[c].pc = "cancel"
            /\ CASE /\ msg.type = "CancelTasksResponse"
                    /\ can_cancel(jobs[job_id], msg.tasks) ->
                        /\ apply_cancel(job_id, msg.tasks)
                        /\ cancel_loop(c, client[c].todo, jobs', told_canceled \cup {job_id})
                        /\ UNCHANGED <<workers, callbacks, from_tako, takoVars,
                                       registrations, broken>>
                 [] msg.type = "Error" ->
                        /\ cancel_loop(c, client[c].todo, jobs, told_canceled)
                        /\ UNCHANGED <<stateVars, workers, callbacks, from_tako,
                                       takoVars, streamVars, broken>>
                 [] OTHER -> Panic
----------------------------------------------------------------------------
(* Requests of clients: stop workers.                                      *)

Online == {w \in DOMAIN workers : workers[w] = "Online"}

\* The loop of handle_worker_stop: offline and unknown workers are skipped.
stop_loop(c, todo) ==
    LET pending == {i \in DOMAIN todo : todo[i] \in Online}
        i == Min(pending)
    IN  IF pending = {}
        THEN Answer(c) /\ UNCHANGED rpcVars
        ELSE /\ UNCHANGED panicked
             /\ send_tako_message([type |-> "StopWorker", worker |-> todo[i]],
                                  ClientWaits(c))
             /\ client' = [client EXCEPT ![c] =
                   [pc |-> "stop", job |-> 0, reply |-> {},
                    todo |-> SubSeq(todo, i + 1, Len(todo))]]

handle_worker_stop(c, todo) ==
    /\ Alive
    /\ client[c].pc = "idle"
    /\ stop_loop(c, todo)
    /\ UNCHANGED <<stateVars, workers, told_canceled, callbacks, from_tako,
                   takoVars, streamVars, broken>>

\* handle_worker_stop, resumed with tako's answer.
stop_answered(c) ==
    \E msg \in client[c].reply :
        /\ Alive
        /\ client[c].pc = "stop"
        /\ IF msg.type \in {"WorkerStopped", "Error"}
           THEN /\ stop_loop(c, client[c].todo)
                /\ UNCHANGED <<stateVars, workers, told_canceled, callbacks,
                               from_tako, takoVars, streamVars, broken>>
           ELSE Panic
----------------------------------------------------------------------------
(* Connections that break.                                                 *)

connection_lost(c) ==
    /\ Alive
    /\ c \in Unreliable \ broken
    /\ broken' = broken \cup {c}
    /\ UNCHANGED <<stateVars, workers, handlerVars, rpcVars, from_tako, takoVars,
                   streamVars, panicked>>

\* rx.next() sees the end of the connection, or an error that client_rpc_loop
\* tries to report to the client.  The user may connect again.
connection_ended(c) ==
    /\ Alive
    /\ client[c].pc = "idle"
    /\ c \in broken
    /\ Answer(c)
    /\ broken' = broken \ {c}
    /\ UNCHANGED <<stateVars, workers, told_canceled, callbacks, rpcVars, from_tako,
                   takoVars, streamVars>>
----------------------------------------------------------------------------
(* The tasks spawned by cancel_tasks_from_callback.                        *)

callback_send(t) ==
    /\ Alive
    /\ ~ callbacks[t].sent
    /\ send_tako_message(CancelTasks(callbacks[t].tasks), CallbackWaits(t))
    /\ callbacks' = [callbacks EXCEPT ![t].sent = TRUE]
    /\ UNCHANGED <<stateVars, workers, client, told_canceled, from_tako,
                   takoVars, streamVars, processVars>>

callback_answered(t) ==
    \E msg \in callbacks[t].reply :
        /\ Alive
        /\ CASE /\ msg.type = "CancelTasksResponse"
                /\ can_cancel(jobs[callbacks[t].job], msg.tasks) ->
                    /\ apply_cancel(callbacks[t].job, msg.tasks)
                    /\ callbacks' = Remove(callbacks, {t})
                    /\ UNCHANGED <<workers, client, told_canceled, rpcVars, from_tako,
                                   takoVars, registrations, processVars>>
             [] msg.type = "Error" ->
                    /\ callbacks' = Remove(callbacks, {t})
                    /\ UNCHANGED <<stateVars, workers, client, told_canceled, rpcVars,
                                   from_tako, takoVars, streamVars, processVars>>
             [] OTHER -> Panic
----------------------------------------------------------------------------
(* The reader of Backend::start: one message of tako at a time.            *)

Responses == {"NewTasksResponse", "CancelTasksResponse", "WorkerStopped", "Error"}

\* The next message of tako has the type `type' and is taken from the queue.
Receive(type) ==
    /\ Alive
    /\ from_tako # <<>>
    /\ Head(from_tako).type = type

Received == from_tako' = Tail(from_tako)

process_task_running ==
    /\ Receive("Running")
    /\ LET msg == Head(from_tako)
           job_id == get_job_by_tako_task_id(msg.task)
       IN  IF job_id = NoJob THEN Panic
           ELSE /\ Received
                /\ jobs' = [jobs EXCEPT ![job_id] =
                                set_running_state(@, msg.task, msg.worker)]
                /\ UNCHANGED <<base_task_id_to_job_id, job_id_counter, task_id_counter,
                               workers, handlerVars, rpcVars, takoVars, streamVars,
                               processVars>>

process_task_finished ==
    /\ Receive("Finished")
    /\ LET msg == Head(from_tako)
           job_id == get_job_by_tako_task_id(msg.task)
       IN  IF job_id = NoJob \/ ~ can_end(jobs[job_id], msg.task) THEN Panic
           ELSE /\ Received
                /\ jobs' = [jobs EXCEPT ![job_id] = set_finished_state(@, msg.task)]
                /\ UnregisterStream(job_id, jobs'[job_id])
                /\ UNCHANGED <<base_task_id_to_job_id, job_id_counter, task_id_counter,
                               workers, handlerVars, rpcVars, takoVars, registrations,
                               processVars>>

process_task_waiting ==
    /\ Receive("Waiting")
    /\ LET msg == Head(from_tako)
           job_id == get_job_by_tako_task_id(msg.task)
       IN  IF job_id = NoJob \/ ~ can_wait(jobs[job_id], {msg.task}) THEN Panic
           ELSE /\ Received
                /\ jobs' = [jobs EXCEPT ![job_id] = set_waiting_state(@, {msg.task})]
                /\ UNCHANGED <<base_task_id_to_job_id, job_id_counter, task_id_counter,
                               workers, handlerVars, rpcVars, takoVars, streamVars,
                               processVars>>

\* Mutant: one more failure is allowed.
cancel_one_failure_late(t, job_id, job) ==
    LET tasks == non_finished_task_ids(job)
    IN  callbacks' = IF (\E m \in job.max_fails : job.n_failed_tasks > m + 1) /\ tasks # {}
                     THEN Insert(callbacks, t, [job |-> job_id, tasks |-> tasks,
                                                sent |-> FALSE, reply |-> {}])
                     ELSE callbacks

\* max_fails: the failure that exceeds it cancels what is left of the job.
cancel_tasks_from_callback(t, job_id, job) ==
    LET tasks == non_finished_task_ids(job)
    IN  callbacks' = IF (\E m \in job.max_fails : job.n_failed_tasks > m) /\ tasks # {}
                     THEN Insert(callbacks, t, [job |-> job_id, tasks |-> tasks,
                                                sent |-> FALSE, reply |-> {}])
                     ELSE callbacks

process_task_failed ==
    /\ Receive("TaskFailed")
    /\ LET msg == Head(from_tako)
           job_id == get_job_by_tako_task_id(msg.task)
       IN  IF job_id = NoJob \/ ~ can_end(jobs[job_id], msg.task) THEN Panic
           ELSE /\ Received
                /\ jobs' = [jobs EXCEPT ![job_id] = set_failed_state(@, msg.task)]
                /\ UnregisterStream(job_id, jobs'[job_id])
                /\ cancel_tasks_from_callback(msg.task, job_id, jobs'[job_id])
                /\ UNCHANGED <<base_task_id_to_job_id, job_id_counter, task_id_counter,
                               workers, client, told_canceled, rpcVars, takoVars,
                               registrations, processVars>>

process_worker_new ==
    /\ Receive("NewWorker")
    /\ LET w == Head(from_tako).worker
       IN  IF w \in DOMAIN workers THEN Panic
           ELSE /\ Received
                /\ workers' = Insert(workers, w, "Online")
                /\ UNCHANGED <<stateVars, handlerVars, rpcVars, takoVars, streamVars,
                               processVars>>

\* Mutant: the tasks that ran on the worker are not reset.
lost_worker_keeps_tasks ==
    /\ Receive("LostWorker")
    /\ Received
    /\ workers' = [workers EXCEPT ![Head(from_tako).worker] = "Offline"]
    /\ UNCHANGED <<stateVars, handlerVars, rpcVars, takoVars, streamVars, processVars>>

process_worker_lost ==
    /\ Receive("LostWorker")
    /\ LET msg == Head(from_tako)
           lost(j) == {t \in msg.tasks : get_job_by_tako_task_id(t) = j}
       IN  IF \/ msg.worker \notin DOMAIN workers
              \/ lost(NoJob) # {}
              \/ \E j \in DOMAIN jobs : ~ can_wait(jobs[j], lost(j))
           THEN Panic
           ELSE /\ Received
                /\ workers' = [workers EXCEPT ![msg.worker] = "Offline"]
                /\ jobs' = [j \in DOMAIN jobs |-> set_waiting_state(jobs[j], lost(j))]
                /\ UNCHANGED <<base_task_id_to_job_id, job_id_counter, task_id_counter,
                               handlerVars, rpcVars, takoVars, streamVars, processVars>>

\* Mutant: the request that was sent last is answered first.
deliver_to_last ==
    /\ \E type \in Responses : Receive(type)
    /\ tako_responses # <<>>
    /\ LET who == tako_responses[Len(tako_responses)]
       IN  /\ who.kind = "client"
           /\ client' = [client EXCEPT ![who.client].reply = {Head(from_tako)}]
    /\ Received
    /\ tako_responses' = SubSeq(tako_responses, 1, Len(tako_responses) - 1)
    /\ UNCHANGED <<stateVars, workers, told_canceled, callbacks, to_tako, takoVars,
                   streamVars, processVars>>

\* Anything else answers the request that has waited longest.
deliver_response ==
    /\ \E type \in Responses : Receive(type)
    /\ LET msg == Head(from_tako)
           who == Head(tako_responses)
       IN  IF tako_responses = <<>> THEN Panic
           ELSE /\ Received
                /\ tako_responses' = Tail(tako_responses)
                /\ IF who.kind = "client"
                   THEN /\ client' = [client EXCEPT ![who.client].reply = {msg}]
                        /\ UNCHANGED callbacks
                   ELSE /\ callbacks' = [callbacks EXCEPT ![who.task].reply = {msg}]
                        /\ UNCHANGED client
                /\ UNCHANGED <<stateVars, workers, told_canceled, to_tako, takoVars,
                               streamVars, processVars>>
----------------------------------------------------------------------------
(* The stream server's control loop.                                       *)

\* Mutant: the handler that waits for the registration is not told.
register_without_answer ==
    /\ Alive
    /\ control # <<>>
    /\ Head(control).type = "RegisterStream"
    /\ control' = Tail(control)
    /\ registrations' = registrations \cup {Head(control).job}
    /\ UNCHANGED <<stateVars, workers, handlerVars, rpcVars, from_tako, takoVars, processVars>>

register_stream ==
    /\ Alive
    /\ control # <<>>
    /\ Head(control).type = "RegisterStream"
    /\ LET msg == Head(control)
       IN  IF msg.job \in registrations THEN Panic
           ELSE /\ control' = Tail(control)
                /\ registrations' = registrations \cup {msg.job}
                /\ client' = [client EXCEPT ![msg.client].reply = {[type |-> "Registered"]}]
                /\ UNCHANGED <<stateVars, workers, told_canceled, callbacks, rpcVars,
                               from_tako, takoVars, processVars>>

unregister_stream ==
    /\ Alive
    /\ control # <<>>
    /\ Head(control).type = "UnregisterStream"
    /\ LET msg == Head(control)
       IN  IF msg.job \notin registrations THEN Panic
           ELSE /\ control' = Tail(control)
                /\ registrations' = registrations \ {msg.job}
                /\ UNCHANGED <<stateVars, workers, handlerVars, rpcVars, from_tako,
                               takoVars, processVars>>
----------------------------------------------------------------------------
(* Tako: the requests, in order, each with one response.                   *)

TakoAnswers(type) ==
    /\ Alive
    /\ to_tako # <<>>
    /\ Head(to_tako).type = type
    /\ to_tako' = Tail(to_tako)
    /\ UNCHANGED <<stateVars, workers, handlerVars, tako_responses, streamVars, processVars>>

TakoNewTasks ==
    /\ TakoAnswers("NewTasks")
    /\ LET tasks == Head(to_tako).tasks
       IN  tako_tasks' = [t \in DOMAIN tako_tasks \cup tasks |->
                              IF t \in tasks THEN Ready ELSE tako_tasks[t]]
    /\ from_tako' = Append(from_tako, [type |-> "NewTasksResponse"])
    /\ UNCHANGED <<tako_workers, errors>>

\* The tasks tako still holds are forgotten and named in the response.
TakoCancelTasks ==
    /\ TakoAnswers("CancelTasks")
    /\ LET tasks == Head(to_tako).tasks \cap DOMAIN tako_tasks
       IN  /\ tako_tasks' = Remove(tako_tasks, tasks)
           /\ from_tako' = Append(from_tako, [type |-> "CancelTasksResponse",
                                              tasks |-> tasks])
    /\ UNCHANGED <<tako_workers, errors>>

TakoCancelFails ==
    /\ TakoAnswers("CancelTasks")
    /\ errors < MaxErrors
    /\ errors' = errors + 1
    /\ from_tako' = Append(from_tako, [type |-> "Error"])
    /\ UNCHANGED <<tako_tasks, tako_workers>>

TakoStopWorker ==
    /\ TakoAnswers("StopWorker")
    /\ from_tako' = Append(from_tako,
            [type |-> IF tako_workers[Head(to_tako).worker] = "connected"
                      THEN "WorkerStopped" ELSE "Error"])
    /\ UNCHANGED takoVars
----------------------------------------------------------------------------
(* Tako: what happens to workers and tasks.                                *)

TakoReports(msg) ==
    /\ Alive
    /\ Len(from_tako) < MaxQueue
    /\ from_tako' = Append(from_tako, msg)
    /\ UNCHANGED <<stateVars, workers, handlerVars, rpcVars, streamVars, errors,
                   processVars>>

RunningOn(w) == {t \in DOMAIN tako_tasks : tako_tasks[t] = w}

\* Worker ids are never used twice.
TakoWorkerConnects(w) ==
    /\ tako_workers[w] = "unused"
    /\ TakoReports([type |-> "NewWorker", worker |-> w])
    /\ tako_workers' = [tako_workers EXCEPT ![w] = "connected"]
    /\ UNCHANGED tako_tasks

TakoWorkerLost(w) ==
    /\ tako_workers[w] = "connected"
    /\ TakoReports([type |-> "LostWorker", worker |-> w, tasks |-> RunningOn(w)])
    /\ tako_workers' = [tako_workers EXCEPT ![w] = "lost"]
    /\ tako_tasks' = [t \in DOMAIN tako_tasks |->
                         IF t \in RunningOn(w) THEN Ready ELSE tako_tasks[t]]

TakoTaskStarts(t, w) ==
    /\ tako_tasks[t] = Ready
    /\ tako_workers[w] = "connected"
    /\ TakoReports([type |-> "Running", task |-> t, worker |-> w])
    /\ tako_tasks' = [tako_tasks EXCEPT ![t] = w]
    /\ UNCHANGED tako_workers

\* set_running_state allows for a task that is reported running again.
TakoTaskStartsAgain(t) ==
    /\ tako_tasks[t] # Ready
    /\ TakoReports([type |-> "Running", task |-> t, worker |-> tako_tasks[t]])
    /\ UNCHANGED <<tako_tasks, tako_workers>>

TakoTaskReturns(t) ==
    /\ tako_tasks[t] # Ready
    /\ TakoReports([type |-> "Waiting", task |-> t])
    /\ tako_tasks' = [tako_tasks EXCEPT ![t] = Ready]
    /\ UNCHANGED tako_workers

TakoTaskEnds(t) ==
    /\ tako_tasks[t] # Ready
    /\ \E type \in {"Finished", "TaskFailed"} : TakoReports([type |-> type, task |-> t])
    /\ tako_tasks' = Remove(tako_tasks, {t})
    /\ UNCHANGED tako_workers
----------------------------------------------------------------------------
Reader ==
    \/ process_task_running
    \/ process_task_finished
    \/ process_task_waiting
    \/ process_task_failed
    \/ process_worker_new
    \/ process_worker_lost
    \/ deliver_response

\* The continuations of a suspended request.
Resume(c) ==
    \/ submit_registered(c)
    \/ submit_finished(c)
    \/ cancel_answered(c)
    \/ stop_answered(c)

Callback(t) == callback_send(t) \/ callback_answered(t)

StreamServer == register_stream \/ unregister_stream

TakoRequest ==
    \/ TakoNewTasks
    \/ TakoCancelTasks
    \/ TakoCancelFails
    \/ TakoStopWorker

\* The requests clients make, at any time.
Request(c) ==
    \/ \E spec \in JobSpecs : handle_submit(c, spec)
    \/ \E j \in DOMAIN jobs, filter \in Filters : handle_resubmit(c, j, filter)
    \/ \E todo \in JobIds : handle_job_cancel(c, todo)
    \/ \E todo \in {<<w>> : w \in Workers} \cup Orderings(Online) :
           handle_worker_stop(c, todo)

TakoEvent ==
    \/ \E w \in Workers : TakoWorkerConnects(w) \/ TakoWorkerLost(w)
    \/ \E t \in DOMAIN tako_tasks :
           \/ \E w \in Workers : TakoTaskStarts(t, w)
           \/ TakoTaskStartsAgain(t)
           \/ TakoTaskReturns(t)
           \/ TakoTaskEnds(t)

Next ==
    \/ Reader
    \/ StreamServer
    \/ TakoRequest
    \/ TakoEvent
    \/ \E c \in Clients :
           Request(c) \/ Resume(c) \/ connection_lost(c) \/ connection_ended(c)
    \/ \E t \in DOMAIN callbacks : Callback(t)

Spec == Init /\ [][Next]_vars

\* The runtime polls every task that can go on.  Nothing is assumed of the
\* users, the workers or the tasks themselves.
Fairness ==
    /\ WF_vars(Reader)
    /\ WF_vars(StreamServer)
    /\ WF_vars(TakoRequest)
    /\ \A c \in Clients : WF_vars(Resume(c))
    /\ WF_vars(\E t \in DOMAIN callbacks : Callback(t))

FairSpec == Spec /\ Fairness
----------------------------------------------------------------------------
(* Types.                                                                  *)

Response ==
    [type : {"NewTasksResponse", "WorkerStopped", "Error", "Registered"}]
      \cup [type : {"CancelTasksResponse"}, tasks : SUBSET Nat]

ToTako ==
    [type : {"NewTasks", "CancelTasks"}, tasks : SUBSET Nat]
      \cup [type : {"StopWorker"}, worker : Workers]

FromTako ==
    [type : {"Running"}, task : Nat, worker : Workers]
      \cup [type : {"Finished", "Waiting", "TaskFailed"}, task : Nat]
      \cup [type : {"NewWorker"}, worker : Workers]
      \cup [type : {"LostWorker"}, worker : Workers, tasks : SUBSET Nat]
      \cup Response

Control ==
    [type : {"RegisterStream"}, job : Nat, client : Clients]
      \cup [type : {"UnregisterStream"}, job : Nat]

ClientState ==
    [pc    : {"idle", "register", "newtasks", "cancel", "stop", "unsent"},
     job   : Nat,
     todo  : Seq(Nat \cup Workers),
     reply : SUBSET Response]

\* An entry of tako_responses.
Waiting ==
    [kind : {"client"}, client : Clients] \cup [kind : {"callback"}, task : Nat]

CallbackState ==
    [job : Nat, tasks : SUBSET Nat, sent : BOOLEAN, reply : SUBSET Response]

StateTypeOK ==
    /\ DOMAIN jobs \subseteq Nat
    /\ jobs = [j \in DOMAIN jobs |-> jobs[j]]
    /\ \A j \in DOMAIN jobs : JobTypeOK(jobs[j])
    /\ DOMAIN base_task_id_to_job_id \subseteq Nat
    /\ base_task_id_to_job_id \in [DOMAIN base_task_id_to_job_id -> DOMAIN jobs]
    /\ job_id_counter \in Nat
    /\ task_id_counter \in Nat
    /\ told_canceled \subseteq DOMAIN jobs

HandlersTypeOK ==
    /\ client \in [Clients -> ClientState]
    /\ DOMAIN callbacks \subseteq Nat
    /\ callbacks \in [DOMAIN callbacks -> CallbackState]

RpcTypeOK ==
    /\ to_tako \in Seq(ToTako)
    /\ from_tako \in Seq(FromTako)
    /\ tako_responses \in Seq(Waiting)

WorkersTypeOK ==
    /\ DOMAIN workers \subseteq Workers
    /\ workers \in [DOMAIN workers -> {"Online", "Offline"}]

TakoTypeOK ==
    /\ DOMAIN tako_tasks \subseteq Nat
    /\ tako_tasks \in [DOMAIN tako_tasks -> Workers \cup {Ready}]
    /\ tako_workers \in [Workers -> {"unused", "connected", "lost"}]
    /\ errors \in Nat

StreamTypeOK ==
    /\ control \in Seq(Control)
    /\ registrations \subseteq Nat

\* Every variable has its type and each job is well formed: the maps from
\* bases to jobs name jobs that exist, and so do the answers to cancels.
TypeOK ==
    /\ StateTypeOK
    /\ HandlersTypeOK
    /\ RpcTypeOK
    /\ WorkersTypeOK
    /\ TakoTypeOK
    /\ StreamTypeOK
    /\ broken \subseteq Clients
    /\ panicked \in BOOLEAN
----------------------------------------------------------------------------
(* Safety.                                                                 *)

\* No assert!, unwrap or panic! of the server and of the stream server's
\* control loop is ever reached: every report of tako finds the task in a
\* state that allows it, every response finds the request it belongs to,
\* every stream is registered and unregistered exactly once.  The exceptions
\* are the asserts of client_rpc_loop on the answer to a client whose
\* connection broke, which the program does not survive.
NoPanic == panicked => \E c \in Clients : client[c].pc = "unsent"

\* The server goes on whatever its clients do: also the asserts of
\* client_rpc_loop on a sent answer hold.
SurvivesClients == ~ panicked

\* The counters of a job (JobTaskCounters) are the numbers of its tasks in
\* each state, so n_waiting_tasks never underflows and is the number of tasks
\* that wait, whichever handlers changed the tasks and in which order.
CountersMatch ==
    \A j \in DOMAIN jobs :
        /\ CountersOK(jobs[j])
        /\ n_waiting_tasks(jobs[j]) = Cardinality(InState(jobs[j], {"Waiting"}))

\* job_status, computed from the counters, is the state docs/arrays.md derives
\* from the tasks: the first of its five rules that matches.
JobStatusRules ==
    \A j \in DOMAIN jobs :
        LET has(S) == InState(jobs[j], S) # {}
        IN  job_status(jobs[j]) =
                IF has({"Running"}) THEN "Running"
                ELSE IF has(JobTaskState \ Terminal) THEN "Waiting"
                ELSE IF has({"Canceled"}) THEN "Canceled"
                ELSE IF has({"Failed"}) THEN "Failed"
                ELSE "Finished"

\* The completion date of a job is set (check_termination) exactly when no
\* task of it waits or runs: no order of finishes, failures and cancels
\* completes it too early or leaves it open.
CompletedWhenTerminated ==
    \A j \in DOMAIN jobs :
        jobs[j].completed <=> (DOMAIN jobs[j].tasks # {} /\ non_finished_task_ids(jobs[j]) = {})

\* The jobs own disjoint ranges of task ids, and the search for the largest
\* base (get_job_mut_by_tako_task_id) finds the owner of every id, and no job
\* for the ids a submit reserved without using them.
LookupFindsOwner ==
    \A id \in 0 .. task_id_counter :
        LET owners == {j \in DOMAIN jobs : id \in DOMAIN jobs[j].tasks}
        IN  IF owners = {} THEN get_job_by_tako_task_id(id) = NoJob
                           ELSE owners = {get_job_by_tako_task_id(id)}

\* The tasks tako cancelled for a handler that has not resumed yet.
CancelsInHand ==
    UNION ({msg.tasks : msg \in {m \in UNION {client[c].reply : c \in Clients} :
                                    m.type = "CancelTasksResponse"}}
           \cup
           {msg.tasks : msg \in {m \in UNION {callbacks[t].reply : t \in DOMAIN callbacks} :
                                    m.type = "CancelTasksResponse"}})

\* A task the server shows as running is shown on a worker that it shows as
\* online: process_worker_lost leaves no task behind on the lost worker, save
\* one that tako had already cancelled for a handler that has not resumed yet.
RunsOnOnlineWorker ==
    \A j \in DOMAIN jobs : \A t \in InState(jobs[j], {"Running"}) :
        jobs[j].worker[t] \in Online \/ t \in CancelsInHand

\* As long as tako holds a task of a job with a log, so that a worker may
\* open its stream, the stream server has the job registered.
LogRegisteredWhileHeld ==
    \A j \in DOMAIN jobs :
        jobs[j].log /\ (DOMAIN jobs[j].tasks \cap DOMAIN tako_tasks # {})
            => j \in registrations

\* The tasks of a submit that tako has not seen yet.
NotYetAtTako ==
    UNION ({to_tako[i].tasks : i \in {i \in DOMAIN to_tako : to_tako[i].type = "NewTasks"}}
           \cup
           {DOMAIN jobs[client[c].job].tasks : c \in {c \in Clients : client[c].pc = "register"}})

\* When every report of tako has been read, the server and tako agree on each
\* task: it waits in both, it runs on the same worker in both, or tako has
\* forgotten it and the server has it finished, failed or (at the latest when
\* a handler processes the response it was given) canceled.
QuiescentAgreement ==
    from_tako = <<>> =>
        \A j \in DOMAIN jobs : \A t \in DOMAIN jobs[j].tasks :
            CASE t \in DOMAIN tako_tasks ->
                    IF tako_tasks[t] = Ready
                    THEN jobs[j].tasks[t] = "Waiting"
                    ELSE jobs[j].tasks[t] = "Running" /\ jobs[j].worker[t] = tako_tasks[t]
              [] t \in NotYetAtTako -> jobs[j].tasks[t] = "Waiting"
              [] OTHER -> jobs[j].tasks[t] \in Terminal \/ t \in CancelsInHand

\* docs/arrays.md: "When a job with more tasks is canceled then all
\* non-finished tasks is canceled."  Once handle_job_cancel has made a
\* Canceled response for a job, each of its tasks has ended or is about to be
\* canceled by another handler that already holds tako's response.
CancelIsComplete ==
    \A j \in told_canceled : non_finished_task_ids(jobs[j]) \subseteq CancelsInHand
----------------------------------------------------------------------------
(* Steps and liveness.                                                     *)

\* A finished, failed or canceled task never changes its state again, however
\* late a cancel, a lost worker or a repeated report is processed.
TerminalIsFinal ==
    [][\A j \in DOMAIN jobs : \A t \in InState(jobs[j], Terminal) :
           jobs'[j].tasks[t] = jobs[j].tasks[t]]_vars

\* docs/arrays.md: "If more tasks then X fails, then the rest of non-finished
\* tasks are canceled": the job ends although no task makes progress.
MaxFailsEndsJob ==
    \A j \in 1 .. MaxJobs :
        (j \in DOMAIN jobs /\ \E m \in jobs[j].max_fails : jobs[j].n_failed_tasks > m)
            ~> (j \in DOMAIN jobs /\ non_finished_task_ids(jobs[j]) = {})

\* Every request of a client is answered: no handler waits forever for a
\* response of tako or of the stream server.
RequestsAnswered ==
    \A c \in Clients : (client[c].pc # "idle") ~> (client[c].pc = "idle")

\* The stream of a completed job is unregistered.
CompletedUnregistered ==
    \A j \in 1 .. MaxJobs :
        (j \in DOMAIN jobs /\ jobs[j].completed) ~> (j \notin registrations)
----------------------------------------------------------------------------
(* Refinement.                                                             *)

L == INSTANCE Lifecycle
        WITH state     <- [j \in DOMAIN jobs |-> jobs[j].tasks],
             completed <- {j \in DOMAIN jobs : jobs[j].completed}

\* Every step of the server is a step of the task lifecycle of docs/jobs.md or
\* leaves jobs and tasks alone: reports that are repeated, delayed behind a
\* cancel or delivered together with a lost worker never show a task taking
\* an edge the diagram does not have, nor a job completing at another moment.
ImplementsLifecycle == L!Spec
============================================================================
