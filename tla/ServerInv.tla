----------------------------- MODULE ServerInv -----------------------------
(***************************************************************************)
(* The inductive invariants behind the safety of the server, and what its  *)
(* steps do to the handlers that are suspended.                            *)
(***************************************************************************)
EXTENDS Server

\* What the State, its ids and the types of all variables are known to be.
BasicInv ==
    /\ TypeOK
    /\ CompletedWhenTerminated
    /\ DOMAIN jobs = 1 .. (job_id_counter - 1)
    /\ \A j \in DOMAIN jobs : \A t \in DOMAIN jobs[j].tasks :
           t < task_id_counter /\ get_job_by_tako_task_id(t) = j
    /\ \A t \in Nat : get_job_by_tako_task_id(t) # NoJob =>
           /\ get_job_by_tako_task_id(t) \in DOMAIN jobs
           /\ t \in DOMAIN jobs[get_job_by_tako_task_id(t)].tasks
    /\ \A j \in DOMAIN jobs : is_terminated(jobs[j]) <=> non_finished_task_ids(jobs[j]) = {}
----------------------------------------------------------------------------
(* Requests and responses.                                                 *)

\* The number of responses among the first k messages of a queue.
RespCount(queue, k) == Cardinality({i \in 1 .. k : queue[i].type \in Responses})

\* The responses on their way to the server.
InFlight(queue) == RespCount(queue, Len(queue))

\* What is known of the handler who: a client's, or a spawned cancel.
Status(who, cl, cb) ==
    IF who.kind = "client"
    THEN [pc |-> cl[who.client].pc, job |-> cl[who.client].job,
          tasks |-> {}, reply |-> cl[who.client].reply]
    ELSE IF who.task \in DOMAIN cb
    THEN [pc |-> IF cb[who.task].sent THEN "cancel" ELSE "spawned", job |-> cb[who.task].job,
          tasks |-> cb[who.task].tasks, reply |-> cb[who.task].reply]
    ELSE [pc |-> "none", job |-> 0, tasks |-> {}, reply |-> {}]

\* All handlers, from the clients and the spawned cancels.
HandlersOf(cl, cb) == [who \in Waiting |-> Status(who, cl, cb)]

Handlers == HandlersOf(client, callbacks)

\* The tasks of every job.
TasksOf(js) == [j \in DOMAIN js |-> DOMAIN js[j].tasks]

\* The handler has sent a request and got no response.
Waits(h) == h.pc \in {"newtasks", "cancel", "stop"} /\ h.reply = {}

\* The request is the one the handler sent.
Asked(request, h, T) ==
    \/ /\ request.type = "NewTasks" /\ h.pc = "newtasks"
       /\ h.job \in DOMAIN T /\ request.tasks = T[h.job]
    \/ /\ request.type = "CancelTasks" /\ h.pc = "cancel"
       /\ h.job \in DOMAIN T /\ request.tasks \subseteq T[h.job]
    \/ request.type = "StopWorker" /\ h.pc = "stop"

\* The response is one to such a request.
Answers(response, h, T) ==
    \/ response.type = "NewTasksResponse" /\ h.pc = "newtasks"
    \/ /\ response.type = "CancelTasksResponse" /\ h.pc = "cancel"
       /\ h.job \in DOMAIN T /\ response.tasks \subseteq T[h.job]
    \/ response.type = "WorkerStopped" /\ h.pc = "stop"
    \/ response.type = "Error" /\ h.pc \in {"cancel", "stop"}

\* The three queues.
QueuesOK(from, to, waiting, H, T) ==
    /\ Len(waiting) = InFlight(from) + Len(to)
    /\ \A k \in 1 .. Len(from) : from[k].type \in Responses =>
           Answers(from[k], H[waiting[RespCount(from, k)]], T)
    /\ \A i \in 1 .. Len(to) : Asked(to[i], H[waiting[InFlight(from) + i]], T)
    /\ \A i \in 1 .. Len(waiting) : Waits(H[waiting[i]])
    /\ \A i, k \in 1 .. Len(waiting) : waiting[i] = waiting[k] => i = k

\* A handler has at most one response, to the request it sent.
HandlerOK(h, T) ==
    /\ \A msg \in h.reply :
           /\ h.reply = {msg}
           /\ (h.pc = "register" /\ msg.type = "Registered") \/ Answers(msg, h, T)
    /\ h.pc \in {"register", "newtasks", "cancel", "spawned"} => h.job \in DOMAIN T
    /\ h.pc = "spawned" => h.tasks \subseteq T[h.job]

\* All handlers are in order.
HandlersOK(H, T) == \A who \in Waiting : HandlerOK(H[who], T)

\* No two submits are about the same job.
SubmitsDiffer(H) ==
    \A who, other \in Waiting :
        /\ H[who].pc \in {"register", "newtasks"}
        /\ H[other].pc \in {"register", "newtasks"}
        /\ H[who].job = H[other].job
        => who = other

\* A spawned cancel is known by the task that failed.
KeysOK ==
    \A t \in DOMAIN callbacks : /\ callbacks[t].job \in DOMAIN jobs
                                /\ t \in InState(jobs[callbacks[t].job], Terminal)

\* A stream that is to be registered belongs to a submit that waits for it.
RegisterOK(ctl, H) ==
    /\ \A i \in 1 .. Len(ctl) : ctl[i].type = "RegisterStream" =>
           /\ H[ClientWaits(ctl[i].client)].pc = "register"
           /\ H[ClientWaits(ctl[i].client)].job = ctl[i].job
           /\ H[ClientWaits(ctl[i].client)].reply = {}
    /\ \A i, k \in 1 .. Len(ctl) :
           /\ ctl[i].type = "RegisterStream"
           /\ ctl[k].type = "RegisterStream"
           /\ ctl[i].client = ctl[k].client
           => i = k

\* Requests, responses and the handlers that wait fit together.
RpcInv ==
    /\ QueuesOK(from_tako, to_tako, tako_responses, Handlers, TasksOf(jobs))
    /\ HandlersOK(Handlers, TasksOf(jobs))
    /\ SubmitsDiffer(Handlers)
    /\ RegisterOK(control, Handlers)
    /\ KeysOK
----------------------------------------------------------------------------
(* Steps.                                                                  *)

\* Jobs are added, and keep their tasks.
Grows(T, U) == DOMAIN T \subseteq DOMAIN U /\ \A j \in DOMAIN T : U[j] = T[j]

\* The lists of ids that requests name.
IdList == Seq(Nat \cup Workers)

\* What is known before and after every step.
StepFacts ==
    /\ BasicInv /\ BasicInv'
    /\ Grows(TasksOf(jobs), TasksOf(jobs'))
    /\ \A j \in DOMAIN jobs : \A t \in InState(jobs[j], Terminal) :
           jobs'[j].tasks[t] = jobs[j].tasks[t]
    /\ JobIds \cup {<<w>> : w \in Workers} \cup Orderings(Online) \subseteq IdList

\* The types of the three queues.
QueueTypes(from, to, waiting) ==
    from \in Seq(FromTako) /\ to \in Seq(ToTako) /\ waiting \in Seq(Waiting)

\* The handler of a client, of a spawned cancel, and where there is none.
ClientHandler(st) == [pc |-> st.pc, job |-> st.job, tasks |-> {}, reply |-> st.reply]

CallbackHandler(cb) ==
    [pc |-> IF cb.sent THEN "cancel" ELSE "spawned", job |-> cb.job,
     tasks |-> cb.tasks, reply |-> cb.reply]

NoHandler == [pc |-> "none", job |-> 0, tasks |-> {}, reply |-> {}]

\* At most the handler who goes on.
Only(H, G, who) == \A other \in Waiting : other # who => G[other] = H[other]

\* Where a submit is suspended.
Submitting == {"register", "newtasks"}

\* The handler waits, for tako or for the stream server.
Suspended(h) == h.pc \in {"register", "newtasks", "cancel", "stop"} /\ h.reply = {}

\* A handler that has nothing to do.
Quiet(h) == h.pc \in {"idle", "unsent", "none"} /\ h.reply = {}

\* A handler that waits for the response to its request.
Sent(pc, job) == [pc |-> pc, job |-> job, tasks |-> {}, reply |-> {}]

\* The handler got a response.
Replied(h, msg) == [pc |-> h.pc, job |-> h.job, tasks |-> h.tasks, reply |-> {msg}]

\* The rest of a cancel request: it is answered, or a CancelTasks is sent.
CancelsNext(c, js) ==
    \/ Quiet(Handlers'[ClientWaits(c)]) /\ UNCHANGED rpcVars
    \/ \E j \in DOMAIN js :
           /\ Handlers'[ClientWaits(c)] = Sent("cancel", j)
           /\ send_tako_message(CancelTasks(non_finished_task_ids(js[j])), ClientWaits(c))

\* The rest of a request to stop workers.
StopsNext(c) ==
    \/ Quiet(Handlers'[ClientWaits(c)]) /\ UNCHANGED rpcVars
    \/ \E w \in Workers :
           /\ Handlers'[ClientWaits(c)] = Sent("stop", 0)
           /\ send_tako_message([type |-> "StopWorker", worker |-> w], ClientWaits(c))

\* handle_submit, when add_job does not panic.
Submitted(c, spec) ==
    LET who == ClientWaits(c)
    IN  /\ job_id_counter' = job_id_counter + 1
        /\ task_id_counter' = task_id_counter + spec.id_count
        /\ base_task_id_to_job_id' =
                Insert(base_task_id_to_job_id, task_id_counter, job_id_counter)
        /\ jobs' = Insert(jobs, job_id_counter, new(task_id_counter, spec))
        /\ IF spec.log
           THEN /\ control' = Append(control, [type |-> "RegisterStream",
                                               job |-> job_id_counter, client |-> c])
                /\ Handlers'[who] = Sent("register", job_id_counter)
                /\ UNCHANGED rpcVars
           ELSE /\ send_tako_message(NewTasks(new(task_id_counter, spec)), who)
                /\ Handlers'[who] = Sent("newtasks", job_id_counter)
                /\ UNCHANGED control
        /\ Only(Handlers, Handlers', who)
        /\ Quiet(Handlers[who])
        /\ UNCHANGED <<workers, told_canceled, callbacks, from_tako, takoVars,
                       registrations, processVars>>

\* handle_submit goes on after the stream was registered.
SendsTasks(c) ==
    LET who == ClientWaits(c)
    IN  /\ Handlers[who].pc = "register" /\ Handlers[who].reply # {}
        /\ Handlers'[who] = Sent("newtasks", Handlers[who].job)
        /\ Only(Handlers, Handlers', who)
        /\ send_tako_message(NewTasks(jobs[Handlers[who].job]), who)

\* process_task_failed may spawn a cancel for the rest of the job.
Spawned(t, job_id) ==
    LET cb == [job |-> job_id, tasks |-> non_finished_task_ids(jobs'[job_id]),
               sent |-> FALSE, reply |-> {}]
    IN  /\ Receive("TaskFailed") /\ t = Head(from_tako).task
        /\ job_id \in DOMAIN jobs /\ job_id \in Nat /\ t \in DOMAIN jobs[job_id].tasks
        /\ jobs[job_id].tasks[t] = "Running"
        /\ jobs' = [jobs EXCEPT ![job_id] = set_failed_state(jobs[job_id], t)]
        /\ from_tako' = Tail(from_tako)
        /\ UnregisterStream(job_id, jobs'[job_id])
        /\ callbacks' = callbacks \/ callbacks' = Insert(callbacks, t, cb)
        /\ UNCHANGED <<client, to_tako, tako_responses>>

\* deliver_response gives the first response to the first handler that waits.
Delivered(who, msg) ==
    /\ who = Head(tako_responses) /\ msg = Head(from_tako)
    /\ from_tako # <<>> /\ msg.type \in Responses
    /\ from_tako' = Tail(from_tako) /\ tako_responses' = Tail(tako_responses)
    /\ Only(Handlers, Handlers', who)
    /\ Handlers'[who] = Replied(Handlers[who], msg)
    /\ Waits(Handlers[who])
    /\ Answers(msg, Handlers[who], TasksOf(jobs))
    /\ UNCHANGED <<stateVars, workers, told_canceled, to_tako, takoVars, streamVars, processVars>>
----------------------------------------------------------------------------
(* Server and tako.                                                        *)

\* What one side believes of tasks and workers.  A task that tako has canceled
\* and the server has not marked yet is "canceling"; "gone" are the tasks that
\* have ended and the ids that are not in use.
View == [task   : [Nat -> {"waiting", "running", "canceling", "gone"}],
         on     : [Nat -> Workers \cup {NoWorker}],
         worker : [Workers -> {"unused", "connected", "lost"}]]

\* The states of a task that tako holds, or is about to be given.
Held == {"waiting", "running"}

\* The tasks in ids move to a state, the others stay.
Moves(v, u, ids, from, to) ==
    /\ \A t \in ids : v.task[t] \in from
    /\ u.task = [t \in Nat |-> IF t \in ids THEN to ELSE v.task[t]]

\* The report msg leads from the view v to the view u.
Advances(msg, v, u) ==
    \/ /\ msg.type = "Running"
       /\ Moves(v, u, {msg.task}, Held, "running")
       /\ v.task[msg.task] = "running" => v.on[msg.task] = msg.worker
       /\ v.worker[msg.worker] = "connected"
       /\ u.on = [v.on EXCEPT ![msg.task] = msg.worker]
       /\ u.worker = v.worker
    \/ /\ msg.type = "Waiting"
       /\ Moves(v, u, {msg.task}, {"running"}, "waiting")
       /\ u.on = v.on /\ u.worker = v.worker
    \/ /\ msg.type \in {"Finished", "TaskFailed"}
       /\ Moves(v, u, {msg.task}, {"running"}, "gone")
       /\ u.on = v.on /\ u.worker = v.worker
    \/ /\ msg.type = "CancelTasksResponse"
       /\ Moves(v, u, msg.tasks, Held, "canceling")
       /\ u.on = v.on /\ u.worker = v.worker
    \/ /\ msg.type = "NewWorker"
       /\ v.worker[msg.worker] = "unused"
       /\ u.task = v.task /\ u.on = v.on
       /\ u.worker = [v.worker EXCEPT ![msg.worker] = "connected"]
    \/ /\ msg.type = "LostWorker"
       /\ v.worker[msg.worker] = "connected"
       /\ msg.tasks = {t \in Nat : v.task[t] = "running" /\ v.on[t] = msg.worker}
       /\ Moves(v, u, msg.tasks, {"running"}, "waiting")
       /\ u.on = v.on
       /\ u.worker = [v.worker EXCEPT ![msg.worker] = "lost"]
    \/ /\ msg.type \in {"NewTasksResponse", "WorkerStopped", "Error"}
       /\ u = v

\* A task runs on a worker that is connected.
Plausible(v) == \A t \in Nat : v.task[t] = "running" => /\ v.on[t] \in Workers
                                                        /\ v.worker[v.on[t]] = "connected"

\* A task that tako does not hold stays as it is.
Later(v, u) == \A t \in Nat : v.task[t] \notin Held => u.task[t] = v.task[t]

\* The views between two reports of a queue.
Trace(V, queue) ==
    /\ V \in [0 .. Len(queue) -> View]
    /\ \A k \in 1 .. Len(queue) : Advances(queue[k], V[k - 1], V[k])
    /\ \A k \in 0 .. Len(queue) : Plausible(V[k])
    /\ \A k, l \in 0 .. Len(queue) : k <= l => Later(V[k], V[l])

\* The task as the server has it.
Seen(task, on, state, worker) ==
    /\ task = "waiting" => state = "Waiting"
    /\ task = "running" => state = "Running" /\ worker = on
    /\ task = "canceling" => state \in NonFinished
    /\ task = "gone" => state \in Terminal

\* The server's view.
ServerTasks(v, js) ==
    /\ \A j \in DOMAIN js : \A t \in DOMAIN js[j].tasks :
           Seen(v.task[t], v.on[t], js[j].tasks[t], js[j].worker[t])
    /\ \A t \in Nat : v.task[t] # "gone" => \E j \in DOMAIN js : t \in DOMAIN js[j].tasks

\* The tasks that tako canceled for the handler.
Hand(h) == {t \in Nat : \E msg \in h.reply : msg.type = "CancelTasksResponse" /\ t \in msg.tasks}

\* The tasks that are being canceled are in the hands of one handler each.
ServerHands(v, H) ==
    /\ \A t \in Nat : v.task[t] = "canceling" <=> \E who \in Waiting : t \in Hand(H[who])
    /\ \A who, other \in Waiting : who # other => Hand(H[who]) \cap Hand(H[other]) = {}

\* The workers as the server has them.
ServerWorkers(v, ws) ==
    \A w \in Workers : v.worker[w] = IF w \notin DOMAIN ws THEN "unused"
                                     ELSE IF ws[w] = "Online" THEN "connected" ELSE "lost"

\* Tako's view.
TakoView(v, held, pending) ==
    \A t \in Nat :
        /\ t \in DOMAIN held /\ held[t] = Ready => v.task[t] = "waiting" /\ t \notin pending
        /\ t \in DOMAIN held /\ held[t] # Ready =>
              v.task[t] = "running" /\ v.on[t] = held[t] /\ t \notin pending
        /\ t \notin DOMAIN held /\ t \in pending => v.task[t] = "waiting"
        /\ t \notin DOMAIN held /\ t \notin pending => v.task[t] \notin Held

\* The views V lead from what the server believes to what tako knows.
Agrees(V, queue, js, H, ws, held, pending, tws) ==
    /\ Trace(V, queue)
    /\ ServerTasks(V[0], js)
    /\ ServerHands(V[0], H)
    /\ ServerWorkers(V[0], ws)
    /\ TakoView(V[Len(queue)], held, pending)
    /\ V[Len(queue)].worker = tws

\* The tasks of submits that tako has not seen: NotYetAtTako.
NotYet(to, H, T) ==
    {t \in Nat : \/ \E i \in 1 .. Len(to) : to[i].type = "NewTasks" /\ t \in to[i].tasks
                 \/ \E c \in Clients : /\ H[ClientWaits(c)].pc = "register"
                                       /\ t \in T[H[ClientWaits(c)].job]}

\* The same of the variables of Server.
Agreement(V) ==
    Agrees(V, from_tako, jobs, Handlers, workers, tako_tasks,
           NotYet(to_tako, Handlers, TasksOf(jobs)), tako_workers)

\* The first report is read, a report is added, tasks that are not held change.
Shift(V, queue) == [k \in 0 .. Len(queue) - 1 |-> V[k + 1]]

Extend(V, queue, u) == [k \in 0 .. Len(queue) + 1 |-> IF k <= Len(queue) THEN V[k] ELSE u]

Relabel(v, ids, to) ==
    [task |-> [t \in Nat |-> IF t \in ids THEN to ELSE v.task[t]], on |-> v.on, worker |-> v.worker]

Relabelled(V, queue, ids, to) == [k \in 0 .. Len(queue) |-> Relabel(V[k], ids, to)]
----------------------------------------------------------------------------
(* What a step does to the handlers and to what server and tako share.     *)

\* The same submits wait for the stream server.
SameRegister(H, G) ==
    \A c \in Clients :
        /\ G[ClientWaits(c)].pc = "register" <=> H[ClientWaits(c)].pc = "register"
        /\ H[ClientWaits(c)].pc = "register" => G[ClientWaits(c)].job = H[ClientWaits(c)].job

\* The process goes on, or a client could not be answered.
Excused == panicked' => panicked \/ \E c \in Clients : client'[c].pc = "unsent"

\* Nothing happens to tasks and workers, and tako reports nothing.
TasksStay == UNCHANGED <<jobs, workers, from_tako, tako_tasks, tako_workers>>

\* The jobs that are newly told canceled have nothing left to cancel.
ToldOf(js, told) ==
    \A j \in told_canceled' : j \in told \/ (j \in DOMAIN js /\ non_finished_task_ids(js[j]) = {})

\* A request of a client is answered or goes on.
Proceeds(c) ==
    LET who == ClientWaits(c)
    IN  /\ Only(Handlers, Handlers', who)
        /\ Hand(Handlers[who]) = {} /\ Handlers[who].pc # "register"
        /\ CancelsNext(c, jobs) \/ StopsNext(c)
        /\ ToldOf(jobs, told_canceled)
        /\ TasksStay /\ UNCHANGED <<callbacks, control, registrations>> /\ Excused

\* The handler who marks the tasks that tako canceled for it.
Marks(who) ==
    LET j == Handlers[who].job
    IN  /\ who \in Waiting /\ Only(Handlers, Handlers', who)
        /\ Handlers[who].pc = "cancel" /\ j \in DOMAIN jobs
        /\ \E msg \in Handlers[who].reply : msg.type = "CancelTasksResponse"
        /\ Hand(Handlers[who]) \subseteq DOMAIN jobs[j].tasks
        /\ can_cancel(jobs[j], Hand(Handlers[who]))
        /\ apply_cancel(j, Hand(Handlers[who]))
        /\ UNCHANGED <<workers, from_tako, tako_tasks, tako_workers, registrations>> /\ Excused

\* A cancel request of a client goes on after that.
MarksNext(c) ==
    /\ Marks(ClientWaits(c))
    /\ CancelsNext(c, jobs')
    /\ ToldOf(jobs', told_canceled \cup {Handlers[ClientWaits(c)].job})
    /\ UNCHANGED callbacks

\* A spawned cancel sends its request, is done with it, or fails.
SpawnedSends(t) ==
    LET who == CallbackWaits(t)
    IN  /\ who \in Waiting /\ Only(Handlers, Handlers', who)
        /\ Handlers[who].reply = {} /\ Handlers'[who].reply = {}
        /\ \E msg \in ToTako : msg.type = "CancelTasks" /\ send_tako_message(msg, who)
        /\ TasksStay /\ UNCHANGED <<client, told_canceled, control, registrations, panicked>>

SpawnedEnds(t) ==
    LET who == CallbackWaits(t)
    IN  /\ who \in Waiting /\ Only(Handlers, Handlers', who)
        /\ Quiet(Handlers'[who])
        /\ \/ Marks(who)
           \/ Hand(Handlers[who]) = {} /\ TasksStay /\ UNCHANGED <<control, registrations>>
        /\ UNCHANGED <<client, told_canceled, rpcVars, panicked>>

\* The stream server answers a submit.
Registers(c) ==
    LET who == ClientWaits(c)
    IN  /\ Only(Handlers, Handlers', who)
        /\ Handlers[who].pc = "register"
        /\ Handlers'[who] = Replied(Handlers[who], [type |-> "Registered"])
        /\ register_stream
        /\ TasksStay /\ UNCHANGED <<callbacks, told_canceled, rpcVars, panicked>>

\* A failed task is read, and what it spawns.
Fails(who) ==
    /\ process_task_failed
    /\ who \in Waiting /\ Only(Handlers, Handlers', who)
    /\ Handlers[who].reply = {} /\ Handlers'[who].reply = {}
    /\ SameRegister(Handlers, Handlers')

\* A spec that is submitted or made from an older job.
GoodSpec(spec) ==
    /\ spec.n \in Nat /\ spec.id_count \in Nat
    /\ spec \in JobSpecs \/ (spec.id_count > 0 /\ ~ spec.log)

\* An answer that set_cancel_state does not expect.
BadCancel ==
    \E who \in Waiting :
        LET j == Handlers[who].job
        IN  /\ j \in DOMAIN jobs /\ Hand(Handlers[who]) \subseteq DOMAIN jobs[j].tasks
            /\ ~ can_cancel(jobs[j], Hand(Handlers[who]))

\* A step of the handler of a client.
ClientStepOf(c) ==
    \/ \E spec : GoodSpec(spec) /\ Submitted(c, spec)
    \/ /\ SendsTasks(c) /\ TasksStay
       /\ UNCHANGED <<callbacks, told_canceled, control, registrations, panicked>>
    \/ Proceeds(c)
    \/ MarksNext(c)

\* What the server asserts of task ids and of streams does not hold.
Clash ==
    \/ task_id_counter \in DOMAIN base_task_id_to_job_id
    \/ control # <<>> /\ Head(control).type = "RegisterStream" /\ Head(control).job \in registrations
    \/ control # <<>> /\ Head(control).type = "UnregisterStream" /\ Head(control).job \notin registrations

\* A step that ends the server.
PanicStep == Panic /\ (BadCancel \/ Clash \/ process_task_failed)

\* A step of the reader of tako's messages.
ReaderStep ==
    \/ process_task_running \/ process_task_finished \/ process_task_waiting
    \/ process_worker_new \/ process_worker_lost
    \/ \E who : Fails(who)
    \/ \E who \in Waiting, msg \in FromTako : Delivered(who, msg)

\* Every step is one of these.
StepKind ==
    \/ ReaderStep
    \/ \E c \in Clients : ClientStepOf(c) \/ Registers(c)
    \/ \E t \in Nat : SpawnedSends(t) \/ SpawnedEnds(t)
    \/ (TakoRequest \/ TakoEvent) /\ InFlight(from_tako) \in Nat
    \/ /\ TasksStay /\ UNCHANGED <<client, callbacks, told_canceled, rpcVars, panicked>>
       /\ unregister_stream \/ UNCHANGED <<control, registrations>>
    \/ PanicStep
----------------------------------------------------------------------------
(* Streams.                                                                *)

\* A job with a log is registered, or is about to be, until it is completed,
\* and a stream is unregistered once, after that.
StreamOK(ctl, reg, js) ==
    /\ reg \subseteq DOMAIN js
    /\ \A i \in 1 .. Len(ctl) : ctl[i].job \in DOMAIN js
    /\ \A i, k \in 1 .. Len(ctl) : ctl[i].job = ctl[k].job => i = k
    /\ \A i \in 1 .. Len(ctl) : ctl[i].type = "RegisterStream" => ctl[i].job \notin reg
    /\ \A i \in 1 .. Len(ctl) : ctl[i].type = "UnregisterStream" =>
           ctl[i].job \in reg /\ js[ctl[i].job].completed
    /\ \A j \in DOMAIN js : js[j].log /\ ~ js[j].completed =>
           \/ j \in reg
           \/ \E i \in 1 .. Len(ctl) : ctl[i].type = "RegisterStream" /\ ctl[i].job = j

\* The same of the variables of Server.
StreamInv == StreamOK(control, registrations, jobs)

\* A job whose submit waits for the stream server is not completed.
OpenRegisters ==
    \A c \in Clients : Handlers[ClientWaits(c)].pc = "register" =>
        ~ jobs[Handlers[ClientWaits(c)].job].completed

\* Jobs keep their log, and stay completed.
JobsKeep(js, ks) ==
    /\ DOMAIN js \subseteq DOMAIN ks
    /\ \A j \in DOMAIN js : ks[j].log = js[j].log /\ (js[j].completed => ks[j].completed)
----------------------------------------------------------------------------
(* Cancels.                                                                *)

\* The tasks that the report says have ended at tako.
Ended(msg) == IF msg.type \in {"Finished", "TaskFailed"} THEN {msg.task}
              ELSE IF msg.type = "CancelTasksResponse" THEN msg.tasks
              ELSE {}

\* Tako holds none of the tasks, and had ended all of them before it made the
\* reports that follow the k-th.
Released(ids, from, k, held) ==
    \A t \in ids : /\ t \notin held
                   /\ \A i \in k + 1 .. Len(from) : t \notin Ended(from[i])

\* The tasks of submits that are on their way to tako.
Coming(to) == UNION {to[i].tasks : i \in {i \in 1 .. Len(to) : to[i].type = "NewTasks"}}

\* What a cancel of a client is about: the tasks of its job.
ToCancel(h, T) == IF h.pc = "cancel" /\ h.job \in DOMAIN T THEN T[h.job] ELSE {}

\* Tako has canceled what the handler asked for.
CancelDone(h) == \E msg \in h.reply : msg.type = "CancelTasksResponse"

\* J are the tasks that cancels of clients are about, done are those of which
\* it is known that they have been canceled.  A response says so for all tasks
\* of the job, not only for those it names; a request names all that tako holds.
CancelsOK(from, to, waiting, held, J, done) ==
    /\ Released(done, from, 0, held)
    /\ \A k \in 1 .. Len(from), c \in Clients :
           /\ from[k].type = "CancelTasksResponse"
           /\ waiting[RespCount(from, k)] = ClientWaits(c)
           => Released(J[c], from, k, held)
    /\ \A i \in 1 .. Len(to), c \in Clients :
           /\ to[i].type = "CancelTasks"
           /\ waiting[InFlight(from) + i] = ClientWaits(c)
           => \A t \in J[c] :
                 /\ t \in held => t \in to[i].tasks
                 /\ \A l \in i + 1 .. Len(to) : to[l].type = "NewTasks" => t \notin to[l].tasks

\* The tasks that tako has or will get.
AtTako == DOMAIN tako_tasks \cup Coming(to_tako)

\* The tasks that the cancel of each client is about.
BeingCanceled == [c \in Clients |-> ToCancel(Handlers[ClientWaits(c)], TasksOf(jobs))]

\* The tasks of the jobs that are told canceled, and of those whose cancel is done.
KnownOf(told, T, J, H) ==
    UNION ({T[j] : j \in told}
           \cup {J[c] : c \in {c \in Clients : CancelDone(H[ClientWaits(c)])}})

\* The same of the variables of Server.
KnownCanceled == KnownOf(told_canceled, TasksOf(jobs), BeingCanceled, Handlers)

\* No submit waits for the stream server.
NoneRegisters == \A c \in Clients : Handlers[ClientWaits(c)].pc # "register"

\* The cancels are in order.  It holds when no job has a log: the tasks of a
\* submit that waits for the stream server come to tako after the cancel.
CancelInv ==
    /\ NoneRegisters
    /\ CancelsOK(from_tako, to_tako, tako_responses, AtTako, BeingCanceled, KnownCanceled)

\* Tako does not hold the tasks that the server has as ended.
EndedReleased ==
    \A j \in DOMAIN jobs : Released(InState(jobs[j], Terminal), from_tako, 0, AtTako)
============================================================================
