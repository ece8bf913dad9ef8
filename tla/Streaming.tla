---------------------------- MODULE Streaming -----------------------------
(***************************************************************************)
(* The way of the output of the tasks of one job with a log from the       *)
(* workers to the log file: run_task (worker/start.rs), the Streamer of    *)
(* each worker (worker/streamer.rs) and the stream server                  *)
(* (stream/server/rpc.rs).  Everything is kept per job on both sides, so   *)
(* one job is enough.                                                      *)
(*                                                                         *)
(* A worker is single threaded and so is the stream server; an action is a *)
(* piece of code between two awaits.  Each connection is a task of the     *)
(* worker and a task of the server with a pair of byte streams in between, *)
(* which deliver messages in order until they break.                       *)
(***************************************************************************)
EXTENDS Integers, Sequences, FiniteSets, FiniteSetsExt, SequencesExt

CONSTANTS Tasks, Workers,
          STREAMER_BUFFER_SIZE,  \* capacity of the queue of a connection
          STREAM_BUFFER_SIZE,    \* capacity of the queue of the file writer
          MaxInstances,          \* bound: runs of a task
          MaxConns,              \* bound: connections opened
          MaxData,               \* bound: chunks the present runs send together
          MaxCrashes,            \* bound: workers that die
          MaxBreaks,             \* bound: connections that break or cannot be made
          MaxWriteFails,         \* bound: writes to the log that fail
          MaxFaults              \* bound: all of these together

ASSUME BoundsAssumption ==
    /\ STREAMER_BUFFER_SIZE \in Nat \ {0} /\ STREAM_BUFFER_SIZE \in Nat \ {0}
    /\ {MaxInstances, MaxConns, MaxData, MaxCrashes, MaxBreaks, MaxWriteFails,
        MaxFaults} \subseteq Nat

VARIABLES
    task,        \* run_task of each task
    streams,     \* Streamer::streams of each worker: no or one StreamInfo
    conns,       \* the connections made so far
    alive,       \* the workers that run
    panicked,    \* the workers aborted by an unwrap or an assert!
    canceled,    \* the tasks the server has canceled
    registered,  \* StreamServerState::registrations has the job
    stream,      \* StreamServerState::streams has the job
    writer,      \* the task spawned by get_stream: none, create, writing, error, ended
    wqueue,      \* the channel to that task
    log,         \* what was written to the log since it was created
    flushed,     \* how much of it is in the file
    creations,   \* how often the log was created
    faults       \* crashes, breaks and failed writes so far

workerVars == <<task, streams, alive, panicked>>
serverVars == <<registered, stream, writer, wqueue, log, flushed, creations>>
vars == <<workerVars, conns, canceled, serverVars, faults>>

NotRunning(i) == [pc |-> "new", worker |-> {}, conn |-> 0, instance |-> i, sent |-> 0,
                  result |-> "none", responder |-> "none"]

Init ==
    /\ task = [t \in Tasks |-> NotRunning(0)]
    /\ streams = [w \in Workers |-> {}]
    /\ conns = <<>>
    /\ alive = Workers
    /\ panicked = {}
    /\ canceled = {}
    /\ registered = TRUE
    /\ stream = FALSE
    /\ writer = "none"
    /\ wqueue = <<>>
    /\ log = <<>>
    /\ flushed = 0
    /\ creations = 0
    /\ faults = [crash |-> 0, break |-> 0, write |-> 0]

Message(kind, t) == [kind |-> kind, task |-> t, instance |-> task[t].instance,
                     n |-> IF kind = "Data" THEN task[t].sent + 1 ELSE 0]

Fault(kind, max) ==
    /\ faults[kind] < max
    /\ faults.crash + faults.break + faults.write < MaxFaults
    /\ faults' = [faults EXCEPT ![kind] = @ + 1]
----------------------------------------------------------------------------
(* A worker that dies takes its tasks and its ends of the connections      *)
(* along; tako starts the tasks again elsewhere.                           *)

Dies(w) ==
    /\ alive' = alive \ {w}
    /\ streams' = [streams EXCEPT ![w] = {}]
    /\ conns' = [c \in DOMAIN conns |->
           IF conns[c].worker = w /\ conns[c].pc # "ended"
           THEN [conns[c] EXCEPT !.pc = "ended", !.queue = <<>>, !.broken = TRUE]
           ELSE conns[c]]
    /\ task' = [t \in Tasks |-> IF task[t].worker = {w} /\ task[t].pc # "done"
                                THEN NotRunning(task[t].instance) ELSE task[t]]

\* panic = "abort" in Cargo.toml.
Panic(w) ==
    /\ Dies(w)
    /\ panicked' = panicked \cup {w}
    /\ UNCHANGED <<canceled, serverVars>>

WorkerCrashes(w) ==
    /\ w \in alive
    /\ Fault("crash", MaxCrashes)
    /\ Dies(w)
    /\ UNCHANGED <<panicked, canceled, serverVars>>
----------------------------------------------------------------------------
(* run_task.                                                               *)

NewConn(w) == [worker |-> w, pc |-> "connect", queue |-> <<>>, up |-> <<>>,
               down |-> <<>>, broken |-> FALSE, srv |-> "none", opened_ids |-> {},
               hand |-> {}, lost |-> {}]

\* The child process is spawned and get_stream called: the task joins the
\* connection of its job, or a new one is started.
get_stream(w, t) ==
    LET c == Len(conns) + 1
        starts(conn) == [task EXCEPT ![t] =
            [pc |-> "start", worker |-> {w}, conn |-> conn, instance |-> @.instance + 1,
             sent |-> 0, result |-> "none", responder |-> "open"]]
    IN  /\ w \in alive
        /\ task[t].pc = "new"
        /\ task[t].instance < MaxInstances
        /\ t \in canceled => task[t].instance = 0
        /\ UNCHANGED faults
        /\ IF streams[w] = {}
           THEN /\ c <= MaxConns
                /\ conns' = Append(conns, NewConn(w))
                /\ streams' = [streams EXCEPT ![w] = {[conn |-> c, responses |-> {t}]}]
                /\ task' = starts(c)
                /\ UNCHANGED <<alive, panicked, canceled, serverVars>>
           ELSE \E info \in streams[w] :
                    IF t \in info.responses THEN Panic(w)
                    ELSE /\ streams' = [streams EXCEPT ![w] =
                                {[info EXCEPT !.responses = @ \cup {t}]}]
                         /\ task' = starts(info.conn)
                         /\ UNCHANGED <<conns, alive, panicked, canceled, serverVars>>

\* run_task returns `result'.
Done(t, result) ==
    task' = [task EXCEPT ![t].pc = "done", ![t].result = result, ![t].responder = "none"]

\* A StreamSender hands a message over: an error when the task of the
\* connection has ended, else a wait for room in its queue.
Send(t, kind, next) ==
    LET c == task[t].conn
    IN  /\ IF conns[c].pc = "ended"
           THEN Done(t, "StreamError") /\ UNCHANGED conns
           ELSE /\ Len(conns[c].queue) < STREAMER_BUFFER_SIZE
                /\ conns' = [conns EXCEPT ![c].queue = Append(@, Message(kind, t))]
                /\ next
        /\ UNCHANGED <<streams, alive, panicked, canceled, serverVars, faults>>

send_stream_start(t) ==
    /\ task[t].pc = "start"
    /\ Send(t, "Start", task' = [task EXCEPT ![t].pc = "run"])

\* resend_stdio forwards a chunk of output.
send_data(t) ==
    /\ task[t].pc = "run"
    /\ MapThenSumSet(LAMBDA u : task[u].sent, Tasks) < MaxData
    /\ Send(t, "Data", task' = [task EXCEPT ![t].sent = @ + 1])

\* The program ends, or end_receiver fires because the task is canceled or
\* its time is up.
program_ends(t) ==
    /\ task[t].pc = "run"
    /\ \E result \in {"Finished", "Failed", "Stopped"} :
           task' = [task EXCEPT ![t].pc = "close", ![t].result = result]
    /\ UNCHANGED <<streams, alive, panicked, conns, canceled, serverVars, faults>>

\* Mutant: run_task does not wait for the confirmation.
close_without_waiting(t) ==
    /\ task[t].pc = "close"
    /\ Send(t, "End", Done(t, task[t].result))

\* The end of guard_fut: a result that is an error ends the try_join! at
\* once, any other waits for close_responder.
close(t) ==
    /\ task[t].pc = "close"
    /\ Send(t, "End",
            IF task[t].result = "Failed" THEN Done(t, "Failed")
            ELSE task' = [task EXCEPT ![t].pc = "confirm"])

\* close_responder resolves.
close_confirmed(t) ==
    /\ task[t].pc = "confirm"
    /\ task[t].responder = "ok"
    /\ Done(t, task[t].result)
    /\ UNCHANGED <<streams, alive, panicked, conns, canceled, serverVars, faults>>

close_responder_fails(t) ==
    /\ task[t].pc \in {"run", "close", "confirm"}
    /\ task[t].responder \in {"err", "dropped"}
    /\ Done(t, "StreamError")
    /\ UNCHANGED <<streams, alive, panicked, conns, canceled, serverVars, faults>>
----------------------------------------------------------------------------
(* The task of a connection in the worker.                                 *)

Connected(c) == conns[c].pc = "open"

\* The server has dropped its ends of the connection.
ServerClosed(c) == conns[c].srv \in {"closing", "ended"}

\* Mutant: the response senders are kept somewhere and never used.
Teardown_silent(c, how) ==
    /\ streams' = [streams EXCEPT ![conns[c].worker] = {}]
    /\ conns' = [conns EXCEPT ![c].pc = "ended", ![c].queue = <<>>]
    /\ UNCHANGED <<task, alive, panicked, canceled, serverVars>>

\* The StreamInfo of the job is removed and its response senders are used or
\* dropped.  It need not be the StreamInfo this connection was made for.
Teardown(c, how) ==
    LET w == conns[c].worker
        waiting == UNION {info.responses : info \in streams[w]}
    IN  /\ streams' = [streams EXCEPT ![w] = {}]
        /\ task' = [t \in Tasks |-> IF t \in waiting /\ task[t].responder = "open"
                                    THEN [task[t] EXCEPT !.responder = how] ELSE task[t]]
        /\ conns' = [conns EXCEPT ![c].pc = "ended", ![c].queue = <<>>]
        /\ UNCHANGED <<alive, panicked, canceled, serverVars>>

send_error(c) ==
    IF streams[conns[c].worker] = {} THEN Panic(conns[c].worker) ELSE Teardown(c, "err")

connect(c) ==
    /\ conns[c].pc = "connect"
    /\ conns' = [conns EXCEPT ![c].pc = "open", ![c].srv = "accepted"]
    /\ UNCHANGED <<workerVars, canceled, serverVars, faults>>

connect_fails(c) ==
    /\ conns[c].pc = "connect"
    /\ Fault("break", MaxBreaks)
    /\ send_error(c)

\* send_loop forwards a message, which is lost when the server is gone.
forward(c) ==
    /\ Connected(c)
    /\ conns[c].queue # <<>>
    /\ conns' = [conns EXCEPT ![c].queue = Tail(@),
                              ![c].up = IF conns[c].broken \/ ServerClosed(c) THEN @
                                        ELSE Append(@, Head(conns[c].queue))]
    /\ UNCHANGED <<workerVars, canceled, serverVars, faults>>

Senders(c) ==
    {t \in Tasks : task[t].conn = c /\ task[t].pc \in {"start", "run", "close"}}

\* send_loop ends when the last sender is dropped.
send_loop_ends(c) ==
    /\ Connected(c)
    /\ conns[c].queue = <<>>
    /\ Senders(c) = {}
    /\ \A info \in streams[conns[c].worker] : info.conn # c
    /\ Teardown(c, "dropped")
    /\ UNCHANGED faults

\* Either loop of the connection meets an error.
connection_errors(c) ==
    /\ Connected(c)
    /\ conns[c].broken \/ ServerClosed(c)
    /\ send_error(c)
    /\ UNCHANGED faults

\* stream_receiver ends when the server has closed the connection.
connection_closed(c) ==
    /\ Connected(c)
    /\ ServerClosed(c)
    /\ conns[c].down = <<>>
    /\ Teardown(c, "dropped")
    /\ UNCHANGED faults

\* Mutant: close_task_stream removes the StreamInfo whoever still uses it.
receive_end_drops_info(c) ==
    LET w == conns[c].worker
        t == Head(conns[c].down).task
    IN  /\ Connected(c)
        /\ conns[c].down # <<>>
        /\ Head(conns[c].down).kind = "EndResponse"
        /\ UNCHANGED faults
        /\ IF \A info \in streams[w] : t \notin info.responses
           THEN Panic(w)
           ELSE /\ streams' = [streams EXCEPT ![w] = {}]
                /\ task' = [task EXCEPT ![t].responder = IF @ = "open" THEN "ok" ELSE @]
                /\ conns' = [conns EXCEPT ![c].down = Tail(@)]
                /\ UNCHANGED <<alive, panicked, canceled, serverVars>>

\* stream_receiver: the confirmation for a task, with close_task_stream.
receive_end(c) ==
    LET w == conns[c].worker
        t == Head(conns[c].down).task
    IN  /\ Connected(c)
        /\ conns[c].down # <<>>
        /\ Head(conns[c].down).kind = "EndResponse"
        /\ UNCHANGED faults
        /\ IF \A info \in streams[w] : t \notin info.responses
           THEN Panic(w)
           ELSE /\ \E info \in streams[w] :
                       streams' = [streams EXCEPT ![w] =
                           IF info.responses = {t} THEN {}
                           ELSE {[info EXCEPT !.responses = @ \ {t}]}]
                /\ task' = [task EXCEPT ![t].responder = IF @ = "open" THEN "ok" ELSE @]
                /\ conns' = [conns EXCEPT ![c].down = Tail(@)]
                /\ UNCHANGED <<alive, panicked, canceled, serverVars>>

receive_error(c) ==
    /\ Connected(c)
    /\ conns[c].down # <<>>
    /\ Head(conns[c].down).kind = "Error"
    /\ send_error(c)
    /\ UNCHANGED faults

ConnectionBreaks(c) ==
    /\ Connected(c)
    /\ ~ conns[c].broken
    /\ Fault("break", MaxBreaks)
    /\ conns' = [conns EXCEPT ![c].broken = TRUE]
    /\ UNCHANGED <<workerVars, canceled, serverVars>>
----------------------------------------------------------------------------
(* A connection in the stream server.                                      *)

\* Mutant: every connection starts a writer.
handle_connection_creates(c) ==
    /\ conns[c].srv = "accepted"
    /\ registered
    /\ conns' = [conns EXCEPT ![c].srv = "attached"]
    /\ stream' = TRUE
    /\ writer' = "create"
    /\ UNCHANGED <<workerVars, canceled, registered, wqueue, log, flushed, creations, faults>>

\* handle_connection, with get_stream: the first connection of the job starts
\* the writer of its log.
handle_connection(c) ==
    /\ conns[c].srv = "accepted"
    /\ IF stream
       THEN /\ conns' = [conns EXCEPT ![c].srv = "attached"]
            /\ UNCHANGED serverVars
       ELSE IF registered
       THEN /\ conns' = [conns EXCEPT ![c].srv = "attached"]
            /\ stream' = TRUE
            /\ writer' = "create"
            /\ UNCHANGED <<registered, wqueue, log, flushed, creations>>
       ELSE /\ conns' = [conns EXCEPT ![c].srv = "ended"]
            /\ UNCHANGED serverVars
    /\ UNCHANGED <<workerVars, canceled, faults>>

\* The connection breaks before its registration was read.
registration_fails(c) ==
    /\ conns[c].srv = "accepted"
    /\ conns[c].broken
    /\ conns' = [conns EXCEPT ![c].srv = "ended"]
    /\ UNCHANGED <<workerVars, canceled, serverVars, faults>>

\* Mutant: a stream that has ended counts as open.
never_closed(ids, msg) ==
    ids \cup (IF msg.kind = "Start" THEN {<<msg.task, msg.instance>>} ELSE {})

opened(ids, msg) ==
    CASE msg.kind = "Start" -> ids \cup {<<msg.task, msg.instance>>}
      [] msg.kind = "End"   -> ids \ {<<msg.task, msg.instance>>}
      [] OTHER              -> ids

Room == Len(wqueue) < STREAM_BUFFER_SIZE

\* receive_loop reads a message.  When the queue of the writer is full it is
\* suspended with the message in its hand.
receive(c) ==
    /\ conns[c].srv = "attached"
    /\ conns[c].hand = {}
    /\ conns[c].up # <<>>
    /\ LET msg == Head(conns[c].up)
       IN  /\ conns' = [conns EXCEPT ![c].up = Tail(@),
                                     ![c].opened_ids = opened(@, msg),
                                     ![c].hand = IF Room THEN {} ELSE {msg}]
           /\ wqueue' = IF Room THEN Append(wqueue, [msg |-> msg, reply |-> {c}]) ELSE wqueue
    /\ UNCHANGED <<workerVars, canceled, registered, stream, writer, log, flushed,
                   creations, faults>>

pass_on(c) ==
    /\ conns[c].srv = "attached"
    /\ Room
    /\ \E msg \in conns[c].hand : wqueue' = Append(wqueue, [msg |-> msg, reply |-> {c}])
    /\ conns' = [conns EXCEPT ![c].hand = {}]
    /\ UNCHANGED <<workerVars, canceled, registered, stream, writer, log, flushed,
                   creations, faults>>

Gone(c) == conns[c].pc = "ended"

\* The select! of handle_connection ends: receive_loop is not suspended and
\* finds the connection closed and all of it read, or broken; or snd_loop
\* cannot send a response.
SelectEnds(c) ==
    \/ conns[c].hand = {} /\ (conns[c].broken \/ (Gone(c) /\ conns[c].up = <<>>))
    \/ conns[c].down # <<>> /\ (conns[c].broken \/ Gone(c))

\* Mutant: the open streams are forgotten.
connection_ends_forgets(c) ==
    /\ conns[c].srv = "attached"
    /\ SelectEnds(c)
    /\ conns' = [conns EXCEPT ![c].srv = "closing", ![c].up = <<>>, ![c].hand = {},
                              ![c].opened_ids = {}]
    /\ UNCHANGED <<workerVars, canceled, serverVars, faults>>

\* After the select! what was not read or not passed on is lost.
connection_ends(c) ==
    /\ conns[c].srv = "attached"
    /\ SelectEnds(c)
    /\ conns' = [conns EXCEPT ![c].srv = "closing", ![c].up = <<>>, ![c].hand = {},
                              ![c].lost = conns[c].hand]
    /\ UNCHANGED <<workerVars, canceled, serverVars, faults>>

\* Every stream that is still open is ended in the log.
emergency_close(c) ==
    /\ conns[c].srv = "closing"
    /\ Room
    /\ \E id \in conns[c].opened_ids :
           /\ wqueue' = Append(wqueue, [reply |-> {}, msg |->
                  [kind |-> "End", task |-> id[1], instance |-> id[2], n |-> 0]])
           /\ conns' = [conns EXCEPT ![c].opened_ids = @ \ {id}]
    /\ UNCHANGED <<workerVars, canceled, registered, stream, writer, log, flushed,
                   creations, faults>>

handler_ends(c) ==
    /\ conns[c].srv = "closing"
    /\ conns[c].opened_ids = {}
    /\ conns' = [conns EXCEPT ![c].srv = "ended"]
    /\ UNCHANGED <<workerVars, canceled, serverVars, faults>>
----------------------------------------------------------------------------
(* The file writer and the registration.                                   *)

Reply(who, msg) ==
    conns' = [c \in DOMAIN conns |->
        IF c \in who /\ conns[c].srv = "attached"
        THEN [conns[c] EXCEPT !.down = Append(@, msg)] ELSE conns[c]]

\* The log is flushed at the end of every stream.
flush(msg) == flushed' = IF msg.kind = "End" THEN Len(log') ELSE flushed

\* The beginning of file_writer: the log is truncated and gets its header.
create_log ==
    /\ writer = "create"
    /\ writer' = "writing"
    /\ log' = <<>>
    /\ flushed' = 0
    /\ creations' = creations + 1
    /\ UNCHANGED <<workerVars, conns, canceled, registered, stream, wqueue, faults>>

create_log_fails ==
    /\ writer = "create"
    /\ Fault("write", MaxWriteFails)
    /\ writer' = "error"
    /\ UNCHANGED <<workerVars, conns, canceled, registered, stream, wqueue, log, flushed,
                   creations>>

file_writer ==
    /\ writer = "writing"
    /\ wqueue # <<>>
    /\ LET msg == Head(wqueue).msg
       IN  /\ log' = Append(log, msg)
           /\ flush(msg)
           /\ IF msg.kind = "End"
              THEN Reply(Head(wqueue).reply, [kind |-> "EndResponse", task |-> msg.task])
              ELSE UNCHANGED conns
    /\ wqueue' = Tail(wqueue)
    /\ UNCHANGED <<workerVars, canceled, registered, stream, writer, creations, faults>>

file_writer_fails ==
    /\ writer = "writing"
    /\ wqueue # <<>>
    /\ Fault("write", MaxWriteFails)
    /\ Reply(Head(wqueue).reply, [kind |-> "Error"])
    /\ wqueue' = Tail(wqueue)
    /\ writer' = "error"
    /\ UNCHANGED <<workerVars, canceled, registered, stream, log, flushed, creations>>

error_state ==
    /\ writer = "error"
    /\ wqueue # <<>>
    /\ Reply(Head(wqueue).reply, [kind |-> "Error"])
    /\ wqueue' = Tail(wqueue)
    /\ UNCHANGED <<workerVars, canceled, registered, stream, writer, log, flushed,
                   creations, faults>>

\* The writer ends when nobody can send to it any more; the buffer is
\* dropped.
writer_ends ==
    /\ writer \in {"writing", "error"}
    /\ wqueue = <<>>
    /\ ~ stream
    /\ \A c \in DOMAIN conns : conns[c].srv \notin {"attached", "closing"}
    /\ writer' = "ended"
    /\ UNCHANGED <<workerVars, conns, canceled, registered, stream, wqueue, log,
                   flushed, creations, faults>>

\* The server cancels a task.
cancel(t) ==
    /\ t \notin canceled
    /\ task[t].pc # "done"
    /\ canceled' = canceled \cup {t}
    /\ UNCHANGED <<workerVars, conns, serverVars, faults>>

\* UnregisterStream, sent when every task of the job has ended for the server.
unregister_stream ==
    /\ registered
    /\ \A t \in Tasks : t \in canceled \/ task[t].pc = "done"
    /\ registered' = FALSE
    /\ stream' = FALSE
    /\ UNCHANGED <<workerVars, conns, canceled, writer, wqueue, log, flushed,
                   creations, faults>>
----------------------------------------------------------------------------
RunTask(t) ==
    \/ send_stream_start(t)
    \/ close(t)
    \/ close_confirmed(t)
    \/ close_responder_fails(t)

WorkerSide(c) ==
    \/ connect(c)
    \/ forward(c)
    \/ send_loop_ends(c)
    \/ connection_errors(c)
    \/ connection_closed(c)
    \/ receive_end(c)
    \/ receive_error(c)

ServerSide(c) ==
    \/ handle_connection(c)
    \/ registration_fails(c)
    \/ receive(c)
    \/ pass_on(c)
    \/ connection_ends(c)
    \/ emergency_close(c)
    \/ handler_ends(c)

Writer == create_log \/ file_writer \/ error_state \/ writer_ends

Next ==
    \/ \E t \in Tasks :
           \/ \E w \in Workers : get_stream(w, t)
           \/ RunTask(t)
           \/ send_data(t)
           \/ program_ends(t)
           \/ cancel(t)
    \/ \E c \in DOMAIN conns :
           \/ WorkerSide(c)
           \/ ServerSide(c)
           \/ connect_fails(c)
           \/ ConnectionBreaks(c)
    \/ Writer
    \/ create_log_fails
    \/ file_writer_fails
    \/ unregister_stream
    \/ \E w \in Workers : WorkerCrashes(w)

Spec == Init /\ [][Next]_vars

\* The runtimes of worker and server poll what can go on.  The programs of
\* tasks may run for ever and nobody has to start a task.
FairSpec ==
    /\ Spec
    /\ \A t \in Tasks : WF_vars(RunTask(t))
    /\ \A c \in 1 .. MaxConns :
           /\ WF_vars(c \in DOMAIN conns /\ WorkerSide(c))
           /\ WF_vars(c \in DOMAIN conns /\ ServerSide(c))
    /\ WF_vars(Writer)
----------------------------------------------------------------------------
(* Properties.                                                             *)

Msg == [kind : {"Start", "Data", "End"}, task : Tasks, instance : Nat, n : Nat]

\* Every variable has its type; queues never exceed their capacity.
TypeOK ==
    /\ \A t \in Tasks :
           /\ task[t].pc \in {"new", "start", "run", "close", "confirm", "done"}
           /\ task[t].worker \subseteq Workers
           /\ task[t].conn \in 0 .. Len(conns)
           /\ task[t].result \in {"none", "Finished", "Failed", "Stopped", "StreamError"}
           /\ task[t].responder \in {"none", "open", "ok", "err", "dropped"}
    /\ \A w \in Workers : \A info \in streams[w] :
           info.conn \in DOMAIN conns /\ info.responses \in SUBSET Tasks \ {{}}
    /\ \A c \in DOMAIN conns :
           /\ conns[c].queue \in Seq(Msg) /\ Len(conns[c].queue) <= STREAMER_BUFFER_SIZE
           /\ conns[c].up \in Seq(Msg)
           /\ conns[c].hand \subseteq Msg
    /\ Len(wqueue) <= STREAM_BUFFER_SIZE
    /\ \A i \in DOMAIN wqueue : wqueue[i].msg \in Msg
    /\ log \in Seq(Msg)
    /\ flushed \in 0 .. Len(log)

\* What a sequence of blocks has of the i-th run of task t.
Blocks(blocks, t, i) == SelectSeq(blocks, LAMBDA b : b.task = t /\ b.instance = i)

\* The log is created once: no connection, however late it comes, truncates
\* what is already there.
LogCreatedOnce == creations <= 1

\* A connection was given up with this message of the i-th run of t in hand.
LostInHand(kind, t, i) ==
    \E c \in DOMAIN conns : \E msg \in conns[c].lost :
        msg.kind = kind /\ msg.task = t /\ msg.instance = i

\* The log has the stream of a run in the order the run sent it, without
\* gaps, and nothing after its end: an emergency end is never a second end nor
\* followed by data.  Only if its start was in the hand of a connection that was
\* given up, the end is all there is.
StreamsInOrder ==
    \A t \in Tasks, i \in 1 .. MaxInstances :
        LET s == Blocks(log, t, i)
        IN  \/ Len(s) = 1 /\ s[1].kind = "End" /\ LostInHand("Start", t, i)
            \/ \A k \in DOMAIN s :
                   CASE s[k].kind = "Start" -> k = 1
                     [] s[k].kind = "Data"  -> k > 1 /\ s[k].n = k - 1
                     [] s[k].kind = "End"   -> k > 1 /\ k = Len(s)

Reader == INSTANCE LogReader

\* The log can be opened by `hq log' at any time: make_index finds a start
\* before every chunk and every end, and no second start.
LogReadable ==
    Reader!make_index([k \in DOMAIN log |->
        [kind |-> IF log[k].kind = "Data" THEN "Chunk" ELSE log[k].kind,
         task |-> log[k].task, instance |-> log[k].instance, channel |-> 0, size |-> 1]]).ok

\* The same as far as the stream server can help it: a log becomes unreadable
\* only by a start that a connection had in hand, already among its opened_ids,
\* when it was given up.
ReadableUnlessLost ==
    (\A t \in Tasks, i \in 1 .. MaxInstances : ~ LostInHand("Start", t, i)) => LogReadable

\* The stream of the last run of t is complete in the file.
FullyFlushed(t) ==
    LET s == Blocks(SubSeq(log, 1, flushed), t, task[t].instance)
    IN  Len(s) = task[t].sent + 2 /\ s[Len(s)].kind = "End"

\* docs/streaming.md: "When a task is finished [...] then it is guaranteed that
\* its stream is fully flushed into the log file": start, every chunk and end
\* are in the file when run_task returns without an error.
FlushedWhenFinished ==
    \A t \in Tasks : task[t].pc = "done" /\ task[t].result \in {"Finished", "Stopped"}
                        => FullyFlushed(t)

\* The same for a task that failed: "When a task is finished or failed (except
\* fail of streaming, see below) then it is guaranteed that its stream is fully
\* flushed into the log file."
FlushedWhenFailed ==
    \A t \in Tasks : task[t].pc = "done" /\ task[t].result = "Failed" => FullyFlushed(t)

\* No unwrap or assert! of the Streamer fails: the StreamInfo that send_error
\* and close_task_stream look for is there.
NoWorkerPanic == panicked = {}

\* The unwraps of send_error and close_task_stream fail only after a fault,
\* after the job is no longer registered, or when the worker has opened a second
\* connection for the job, whose StreamInfo the end of the first one removes:
\* tasks that come and go on one connection never pull it from under each other.
PanicHasCause ==
    \A w \in panicked :
        \/ ~ registered
        \/ faults # [crash |-> 0, break |-> 0, write |-> 0]
        \/ Cardinality({c \in DOMAIN conns : conns[c].worker = w}) > 1

\* "response_sender - error and finish confirmation mechanism": a run ends with
\* a streaming error only if a connection broke, a write failed, a worker died
\* or the job is not registered any more.
StreamErrorHasCause ==
    \A t \in Tasks :
        task[t].result = "StreamError"
            => ~ registered \/ faults # [crash |-> 0, break |-> 0, write |-> 0]

Ended(t, i) == \E k \in DOMAIN log : log[k].kind = "End" /\ log[k].task = t
                                         /\ log[k].instance = i

\* docs/streaming.md: "the stream will be eventually closed": a stream that a
\* connection has open is ended in the log after its run is over or its worker
\* is gone, unless the log cannot be written or the connection was given up with
\* this end in hand.
StreamsClosed ==
    \A c \in 1 .. MaxConns, t \in Tasks, i \in 1 .. MaxInstances :
        (/\ c \in DOMAIN conns
         /\ <<t, i>> \in conns[c].opened_ids
         /\ \/ Gone(c)
            \/ task[t].instance = i /\ task[t].pc \in {"close", "confirm", "done"})
        ~> (Ended(t, i) \/ writer = "error" \/ LostInHand("End", t, i))

\* run_task does not wait for ever: after its program has ended a run is
\* confirmed or fails, whatever happens to connections, queues and the log.
RunTaskEnds ==
    \A t \in Tasks : (task[t].pc \in {"close", "confirm"}) ~> (task[t].pc \in {"done", "new"})
============================================================================
