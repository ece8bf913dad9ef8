# HyperQueue in TLA+

HyperQueue is a job scheduler for clusters. A *server* keeps jobs, each made of
one or more tasks; *clients* (the `hq` command line) submit, cancel, list and
resubmit jobs; *workers* run tasks. The scheduling itself is done by *tako*, a
library that is not part of this repository. This directory holds TLA+ modules
translated from the code under `src/`, the TLC models that check them and the
proofs that TLAPS checks.

## The system

| part | code | state | what makes it hard |
|---|---|---|---|
| job | `server/job.rs`, `client/status.rs` | task states, four counters, completion date | counters are adjusted by four operations that run in any order |
| server state | `server/state.rs`, `server/worker.rs` | jobs, workers, id counters, map from first task id to job | reports of tako that arrive after the job changed |
| client requests | `server/client.rs` | what a handler remembers across an await | a cancel, a submit and a failure that overlap |
| tako backend | `server/rpc.rs` | two channels, queue of pending responses | responses carry no request id |
| stream server | `stream/server/rpc.rs` | registered logs, open streams, one writer per log | connections that outlive the registration of their job |
| streamer | `worker/streamer.rs`, `worker/start.rs` | one connection per job, one response sender per task | a connection that is torn down while the next one is set up |
| log reader | `stream/reader/logfile.rs` | index of the chunks of a log | logs that are still being written |
| automatic allocation | `server/autoalloc/` | allocations per queue, event log | failing calls of the queue manager between two awaits |
| server directory | `common/serverdir.rs`, `server/bootstrap.rs` | symlink to the current run, access file | two servers started in one directory |
| submission | `client/commands/submit.rs`, `server/client.rs`, `worker/start.rs` | task definitions held by tako, output files | tasks, ids and lines are enumerated in three places and paired by position |
| client commands | `client/`, `bin/hq.rs` | none but the connection | waiting for jobs, parsing, printing |

All of the server except the stream server runs on one thread; its state is in
`RefCell`s that are never borrowed across an await. Code between two awaits is
therefore atomic, and this is the granularity of the actions. A handler that is
suspended is a record holding what it will need when it resumes. The stream
server is a thread of its own and reached through a channel. Both profiles of
`Cargo.toml` set `panic = "abort"`: a failed `assert!` or `unwrap` ends the
process, which the models show as the variable `panicked`, after which nothing
happens.

## Modules

- `Job` - one job as a record, and each operation of `server/job.rs` as a pure
  operator with the source's name. The `panic!`s and `assert!`s that guard the
  operations are the operators `can_...`. `set_waiting_state` and
  `set_cancel_state` take the set of tasks for which the code calls them in a
  loop.
- `Server` - the state, the handlers, the backend and the control loop of the
  stream server, with tako as the environment.
- `Lifecycle` - the abstract specification: what a user may see jobs and tasks
  do. `Server` implements it under the mapping at its end.
- `ServerInv` - the inductive invariants behind the safety of `Server`, and the kinds
  of steps it takes; definitions only.
- `ServerProofs`, `LifecycleProofs`, `QueueProofs`, `RpcProofs`, `AgreementProofs`,
  `SafetyProofs` - theorems about `Server` and their proofs; `ServerDirProofs` -
  theorems about `ServerDir`; `AutoAllocProofs` - theorems about `AutoAlloc`.
- `Submission` - what `hq submit` asks for, the job and the task definitions the
  server makes of it, what `hq resubmit` makes of a job, and the variables and files
  a worker gives to a process. `Server` models how these requests interleave and
  leaves out this data.
- `AutoAlloc` - the process of `server/autoalloc/process.rs` and the queue
  manager it talks to.
- `Streaming` - the way of the output of tasks from `run_task` over the streamer
  and the stream server into the log file.
- `LogReader` - the functions of `stream/reader/logfile.rs` on a log, as
  operators; `LogFile` - a log that is written while it is opened and read.
  `Streaming` reads the logs it writes with the same operators.
- `IntArray` - arrays of ids and the parsing of ranges with `u32` arithmetic, as
  operators.
- `Wait` - the client of `hq wait` (`client/commands/wait.rs`), which parses its
  selector with `IntArray` and polls the jobs of `Job`.
- `ServerDir` - processes that start, stop and crash in one server directory, and
  a client that looks for the server.
- `MCServer`, `MCAutoAlloc`, `MCStreaming`, `MCWait`, `MCServerDir`,
  `MCSubmission` - the constants of the TLC models. `LogFile` needs none.

An operator whose comment begins with "Mutant" is a plausible mistake in the
operator after it; put in its place, it breaks the property that `PROJECT.json`
names.

### State and actions of `Server`

| variable | code |
|---|---|
| `jobs`, `base_task_id_to_job_id`, `job_id_counter`, `task_id_counter`, `workers` | the fields of `State` |
| `client` | per connection, the local variables of the handler that is suspended in an await; `reply` is the value its oneshot receiver will yield |
| `callbacks` | the tasks spawned by `cancel_tasks_from_callback`, named by the failed task |
| `told_canceled` | jobs for which `CancelJobResponse::Canceled` was made (history) |
| `to_tako`, `from_tako`, `tako_responses` | the channels and the `VecDeque` of `Backend` |
| `broken` | clients whose connection is broken and not yet given up |
| `control`, `registrations` | the control channel and the registrations of the stream server |
| `tako_tasks`, `tako_workers`, `errors` | tako: external |

A handler is one action up to its first await and one action per continuation:
`handle_submit`, `submit_registered`, `submit_finished`; `handle_resubmit`;
`handle_job_cancel`, `cancel_answered`; `handle_worker_stop`, `stop_answered`;
`callback_send`, `callback_answered`. The reader of `Backend::start` is one
action per kind of message: `process_task_running`, `process_task_finished`,
`process_task_waiting`, `process_task_failed`, `process_worker_new`,
`process_worker_lost`, `deliver_response`. The stream server's control loop is
`register_stream` and `unregister_stream`. Requests that only read the state are
left out. A connection may break at any moment (`connection_lost`): the handler
goes on, and `client_rpc_loop` meets the error when it sends the answer (`Answer`) or
reads the next request (`connection_ended`).

Tako is described by what the server's code relies on: requests are processed
in order and each gets one response; `CancelTasks` names the tasks it forgot,
and nothing is reported of a forgotten task afterwards; the tasks of a lost
worker are the ones reported running on it. A report of a running task may be
repeated, since `set_running_state` allows for it. Worker ids are not reused,
which `add_worker` asserts.

### The other modules

**`AutoAlloc`.** `process` is the one task of the server that serves all queues.
Its actions are the code between two awaits: `autoalloc_tick`,
`process_descriptor` (which takes the allocations out of the descriptor),
`refresh_allocations` after every status call, `schedule_new_allocations`, and
`schedule_answered` after every submission. The manager is external: it answers,
fails to answer, and starts and ends allocations at any time, also between an
answer and its use.

**`Streaming`.** One job with a log, since both sides keep everything per job.
`task` is `run_task`; `streams` and the first half of a record of `conns` are the
streamer of a worker and the task it spawns per connection; the second half is
`handle_connection` of the server; `writer`, `wqueue`, `log` and `flushed` are
the task that writes the file. Every queue has its capacity, so a full queue
suspends its sender with the message in hand (`hand`). The periodic cleaner of
`Streamer` is left out: it removes a `StreamInfo` without responses, and
`TypeOK` shows there is none (`MCStreamingShared.cfg`).

**`LogReader`, `LogFile`.** A log is the sequence of writes of the file writer,
in which header and data of a chunk are two. `LogFile` extends the file in the
orders `StreamsInOrder` allows; `opened` is the length at which `make_index` ran.

**`IntArray`, `Wait`.** `U32` is the number of values of a `u32`; sums
are taken modulo it, as in a release build. A selector is a list of ranges whose
tokens are numbers. In every round `Wait` asks with `from_ids` of its hash set, in
every possible order. The jobs are changed by the operations of `Job` at any time.

**`Submission`.** A request is one step. `jobs` is what the server keeps (a task has
the id `make_job_detail` reports), `task_defs` what tako keeps: the two are made by
different code from the same request. A path is the set of placeholders in it;
`opened` remembers which process was given which file; `source` remembers what the
user asked for, so that the properties can say it of the user and not of the code.
`launcher_main` and the end of `run_task` are the worker; tako starts a task again
with the next instance id.

**`ServerDir`.** A step is one system call. A directory is named by its second,
so two starts within one second compute the same name. `version` is the version of hq
that a process runs and that its record names: `Stored` is the record in a directory,
`Record` what a process of a given version reads of it, which is nothing if the versions
differ. `overlap` remembers whether a start went on beside another start, a stop or a
running server whose record it refused to read: some promises depend on that. Crashes and errors of tako are not counted as overlapping.

## Runs

| run | instance | checks |
|---|---|---|
| `cancel` | two clients, two workers that are stopped or lost, one job of two tasks with `max_fails = 0`, one refused cancel | `NoPanic`, `CountersMatch`, `QuiescentAgreement`, `CancelIsComplete`, `RunsOnOnlineWorker`, `TerminalIsFinal`, `ImplementsLifecycle` |
| `log` | two clients, a job of two tasks with a log, under `FairSpec` | `NoPanic`, `CompletedWhenTerminated`, `LogRegisteredWhileHeld`, `MaxFailsEndsJob`, `RequestsAnswered`, `CompletedUnregistered` |
| `many` | one client whose connection breaks, two jobs (a stepped array, a single task with a log), resubmits, cancels of two jobs and of the last one | `LookupFindsOwner`, `JobStatusRules` |
| `autoalloc` | two queues, one allocation that ends, one failed submission, one failed status call, under `FairSpec` | `NoOverallocation`, `TracksAllocations`, `ReachesScale` |
| `streaming` | two tasks on one worker, a connection that breaks | `ReadableUnlessLost`, `PanicHasCause`, `StreamsInOrder`, `FlushedWhenFinished` |
| `streaming_live` | a task that runs on two workers; a crash, a break or a failed write, under `FairSpec` | `StreamsInOrder`, `StreamsClosed`, `RunTaskEnds` |
| `logfile` | logs of up to seven writes, two tasks with two runs each | `CatPrintsLatest`, `ShowAgreesWithCat`, `SummaryAddsUp` |
| `wait` | three jobs, the first of two tasks, every range and every pair of proper ranges of ids up to 3 | `ParsedAsTyped`, `AsksForRemaining`, `WaitResult` |
| `serverdir` | two servers and a client of two versions, three seconds, crashes anywhere, under `FairSpec` | `OnlineIsFound`, `ClientFindsServer`, `RecordIsOwn`, `LinkLeadsToRecord`, `StartDecides` |
| `submission` | one of six command lines, two resubmits, three starts, one restart | `TasksHaveDefs`, `CopiesKeepLines`, `ResubmitSelects`, `OutputsKeptApart` |
| `cancel_log` | as `log`, without fairness | `CancelIsComplete` is violated |
| `resubmit` | a file of three lines, one resubmit | `EntryIsLine` is violated |

What each property says is in the comment before it. Some configurations check
what is of less interest and are not among the runs: the types of `AutoAlloc`
(`MCAutoAllocTypes.cfg`), of `Streaming` with two tasks that take a shared connection
down (`MCStreamingShared.cfg`, also `RunTaskEnds` and `LogCreatedOnce`), and the
counters of the progress bar of `hq wait` (`MCWaitProgress.cfg`). The types of
`Server` are a theorem.

### Deviations

Places where the code does not do what its documentation, a comment or an
assertion says. The first is the run `cancel_log`, the second the run `resubmit`. The
configuration named with each of the others is kept as a reproducer: TLC finds the property violated. They
are not among the runs of `PROJECT.json`.

| reproducer | property | what happens |
|---|---|---|
| `MCServerCancelLog.cfg` (`MCServer`) | `CancelIsComplete` | A cancel that is handled while `handle_submit` waits for the stream server finds the job, but tako does not know its tasks yet. The answer is `Canceled` with an empty list, and the tasks are then submitted and run. |
| `MCSubmissionEntry.cfg` (`MCSubmission`) | `EntryIsLine` | A resubmit with `--status` keeps all lines of the file and pairs them with the selected tasks by position: a task gets the line of another one in `HQ_ENTRY`. |
| `MCSubmissionExact.cfg` (`MCSubmission`) | `ResubmitIsExact` | `docs/jobs.md` promises a copy with the same configuration; the only task of `--array=5` becomes task 0 and the log is dropped. The relative paths of a copy start from the directory of the server (`std::env::current_dir` in `handle_resubmit`) and not from the one "from which the job was submitted". |
| `MCSubmissionPipe.cfg` (`MCSubmission`) | `PipesHaveLog` | The copy of a job with a log has its piped output and no log: the stream server refuses its tasks and all of them fail. |
| `MCSubmissionReported.cfg` (`MCSubmission`) | `ReportedIdIsOwn` | The task of `--array=5` runs as task 5 and is reported as task 0. |
| `MCServerHangup.cfg` (`MCServer`) | `SurvivesClients` | `client_rpc_loop` asserts that its answer was sent; when the client has hung up this aborts the server. |
| `MCServerEmpty.cfg` (`MCServer`) | `NoPanic` | A job without tasks does not advance `task_id_counter`; the next job gets the same base and the assertion of `add_job` fails. |
| `MCAutoAllocFails.cfg` (`MCAutoAlloc`) | `ListsAllAllocations` | A status call that fails makes `refresh_allocations` drop an allocation that is still queued or running; another one is submitted in its place. |
| `MCStreamingFailed.cfg` (`MCStreaming`) | `FlushedWhenFailed` | `run_task` reports a program that fails without waiting for its stream; `docs/streaming.md` promises that it is flushed. |
| `MCStreamingPanic.cfg` (`MCStreaming`) | `NoWorkerPanic` | `send_error` unwraps a `StreamInfo` that the last confirmation has removed, which aborts the worker. Without a fault the same happens when a connection that ends has removed the `StreamInfo` of the next one. |
| `MCStreamingSwap.cfg` (`MCStreaming`) | `StreamErrorHasCause` | A connection that ends finds, by job id, the `StreamInfo` of the next connection and fails its tasks. |
| `MCStreamingLost.cfg` (`MCStreaming`) | `LogReadable` | `receive_loop` notes a stream as open before its start is passed on; if the connection is given up in that await, the log has an end without a start and the reader refuses it. |
| `MCLogFileUnfinished.cfg` (`LogFile`) | `CatAllowsUnfinished` | `cat --allow-unfinished` fails between the two writes of a chunk. |
| `MCLogFileGrows.cfg` (`LogFile`) | `ShowNoPanic` | `show` panics at a stream that began after the log was opened. |
| `MCWaitWrap.cfg` (`MCWait`) | `ParsedAsTyped` | A range that ends at the largest `u32` has no ids in a release build. |
| `MCServerDirStop.cfg` (`MCServerDir`) | `NoLinkNoServer` | A server that ends removes `hq-current` without looking whose it is: a server started between the end of its listener and the removal is not found. |
| `MCServerDirVersion.cfg` (`MCServerDir`) | `RunningIsRefused` | `init_hq_server` says "If an already running server is found, an error will be returned"; a server of another version is found, but its record cannot be read, and any error leads to a start: a second server runs and has taken `hq-current` over. |

The passing runs state what holds besides: `log` does not check
`CancelIsComplete` and no run has a job of zero tasks; `NoPanic` excuses only the
answer to a lost client; `CopiesKeepLines` is about copies of all tasks and
`ResubmitSelects` about sources with several; `PanicHasCause` is about a worker with one
connection and no fault; `ShowAgreesWithCat` excuses a task whose first stream began
after the log was opened; `NoOverallocation` and
`TracksAllocations` allow one allocation for each failed status call;
`ReadableUnlessLost` and `StreamsInOrder` excuse only a start, and `StreamsClosed` only
an end, that a connection had in hand when it was given up in that await; `wait` stays one
below the largest `u32`; `OnlineIsFound` and `ClientFindsServer` are about starts that
overlap neither another start nor a stop and pass no running server of another version.

**Bounds.** `MaxJobs` is the number of submitted jobs, `MaxQueue` the number of unread
messages in `from_tako` beyond which tako reports nothing new (responses are always
sent), `MaxErrors` the number of refused cancels. Two tasks are enough for a task that
has ended beside one that has not, which is what the counters, the completion and the
cancels depend on; two unread messages are enough for a task to start and end, or to
return, behind a cancel; two workers are enough for a task that is lost with one and
starts on the other; two clients are enough for two cancels of one job, to which
`max_fails` adds a third. Two jobs are enough for a wrong owner in the search by task
id. Clients and workers are symmetric in `cancel`, where no liveness is checked.

The queues of `Streaming` hold one or two messages instead of many: what matters is that
they fill. Two tasks are enough to share a connection and to follow one another on it,
two connections for one to be taken down while the next is set up, two workers for a
task that runs again. Faults are counted (`MaxCrashes`, `MaxBreaks`, `MaxWriteFails`)
and one may happen in a behaviour (`MaxFaults`), since their effects are local to a
connection or final. A run sends `MaxData` chunks of output, one in both runs. A start
is lost in hand only while another task of the connection gets a response, which two
tasks are enough for. Seven writes hold two complete streams with a chunk and the start
of a third. `U32` is 5, the smallest value for which no range up to 3 wraps, and 4 in
the reproducer. Two servers are enough for one that crashed and its successor, one that
runs and one that is refused, and two that race; two versions for each of them to meet,
or not to meet, a record it can read. Of the jobs of `wait` one has two tasks, so that
it is reported while one of them has ended and the other has not, and three jobs give
`from_ids` every order that matters. A submitted job and two resubmits are enough for a
copy of a copy of a part; six command lines stand for a plain job, a single id, a
stepped range with `%{INSTANCE_ID}`, a log, three lines and one line.

Runs without the deadlock check are those in which the system may come to rest:
all tasks have ended, the client is done, all servers are over.

**Fairness.** The tokio runtime polls every task that can go on: the reader,
the stream server, each handler that has its reply and the spawned cancels are
weakly fair. So are tako's responses. Nothing is assumed of users, workers or
tasks: they may stop for ever, which is why `MaxFailsEndsJob` is about cancels
and not about tasks that end. In `AutoAlloc` the process is polled and its timer
ticks, and the manager answers every call, if only with an error; in `Streaming`
the tasks of worker and server and the file writer are polled, while a program
may run for ever; in `ServerDir` a start goes on unless it is killed.

## Proofs

TLAPS proves, for any set of clients and workers, any number of jobs and tasks
and any bounds:

- `Invariant` (`ServerProofs`): `Spec => []IInv`, the inductive invariant of the state;
- `TypeCorrect`: `Spec => []TypeOK`;
- `CountersCorrect`: `Spec => []CountersMatch`;
- `LookupCorrect`: `Spec => []LookupFindsOwner`;
- `TerminalFinal`: `Spec => TerminalIsFinal`;
- `CompletedCorrect` (`LifecycleProofs`): `Spec => []CompletedWhenTerminated`;
- `StatusCorrect`: `Spec => []JobStatusRules`;
- `LifecycleImplemented`: `Spec => ImplementsLifecycle`, the refinement of
  `Lifecycle` by `Server`;
- `SafetyInvariant` (`SafetyProofs`): `Spec => []SafetyInv`, the inductive invariant
  that relates the server, tako, the stream server and the queues between them;
- `RpcInvariant`: `Spec => []RpcInv`, every response reaches the handler whose request
  it answers;
- `Quiescence`: `Spec => []QuiescentAgreement`;
- `RunningOnline`: `Spec => []RunsOnOnlineWorker`;
- `LogRegistered`: `Spec => []LogRegisteredWhileHeld`;
- `PanicReasons`: `Spec => []PanicHasReason`, the server panics only when it cannot
  answer a client or when the base id of a new job is taken;
- `NoPanics`: `Spec => []NoPanic`, when every submitted job reserves at least one id;
- `CancelCompletes`: `Spec => []CancelIsComplete`, when no job has a log;

and, for any sets of servers and versions and any number of seconds:

- `DirInvariant` (`ServerDirProofs`): `Spec => []DirInv`, the inductive invariant;
- `RecordIsOwnAlways`, `LinkAlwaysLeads`, `OnlineAlwaysFound`, `ClientAlwaysFinds`:
  the four invariants of the run `serverdir`;

and, for any queues, ids, targets and numbers of failures:

- `AllocInvariant` (`AutoAllocProofs`): `Spec => []AllocInv`, the inductive invariant;
- `TracksAlways`: `Spec => []TracksAllocations`.

**The state.** None of the first is inductive by itself. `IInv` adds to the types that
every job's counters are right (`CountersOK`), that the jobs occupy disjoint ranges of
task ids below `task_id_counter`, each listed under its base (`RangesOK`), that
suspended handlers and spawned cancels name jobs that exist (`RequestsKnown`)
and that the set of workers is finite.
`ServerProofs` begins with the operations of a job: each keeps the type and the
counters and never changes a task that has ended; the heart of it is
`MoveCounts`, on how the number of tasks in a state changes when a set of tasks
moves from one state to another. This is then lifted to each action. The
assumptions are the ones named in `Job` and `Server`: `NoWorker` and `Ready` are not
workers, a job reserves at least as many ids as it has tasks, and the bounds are
natural numbers.

**The refinement.** `LifecycleProofs` works with `LifeInv`, `IInv` together with
`CompletedWhenTerminated`: that a job completes exactly with its last task is what
`Lifecycle` demands of a step, and it holds because `check_termination` sees counters
that are right. The proof has two halves. `NextJobs` shows that every action changes
`jobs` in one of four ways (`JobsChange`): not at all, by a new job all of whose tasks
wait, by a move of some tasks of one job along an edge of the lifecycle (`Edge`), or by
sending running tasks of any jobs back to waiting (a lost worker). `NextLife` shows that
each of the four is a step of `Lifecycle` under the mapping, or a stutter. The status
rules follow from the counters.

**Server, tako and the queues.** `NoPanic`, `QuiescentAgreement` and the others of this
group compare the server with tako while reports, requests and responses are on their
way, so their invariant (`SafetyInv`) is about the contents of the queues. It has four
layers, defined in `ServerInv`:

1. `RpcInv` (`RpcProofs`). Responses carry no request id: `Backend` pairs them with
   the waiting handlers by position. The invariant puts the three queues side by side:
   the first handlers in `tako_responses` belong, in order, to the responses that are
   among the messages of `from_tako`, the others to the requests in `to_tako`; each
   handler waits for exactly the kind of response it will get, about its own job. With it
   no `unwrap` or `panic!` on the kind of a response is reached.
2. `Agreed` (`AgreementProofs`): there is a sequence of *views*, one more than there are
   unread reports. The first is what the server believes of tasks and workers, the
   last is what tako knows, and each report leads from one view to the next
   (`Advances`). A step of the server drops the first view, a report of tako adds one at
   the end, and a submit or a cancel relabels tasks in all of them. A task that tako has
   canceled and the server has not marked yet is `canceling` and is in the hand of one
   handler (`ServerHands`), which is why two overlapping cancels never mark a task twice
   and why a late report never meets a task in a state its operation rejects.
3. `StreamInv` (`AgreementProofs`): a job with a log is registered, or its registration is
   queued, until it is completed, and it is unregistered once.
4. `PanicHasReason`: with the three layers above, what is left of the ways to panic.

Each action is first reduced to one of a few kinds of steps (`StepKind`, shown in
`QueueProofs`); the layers are then shown for each kind. The layers depend on `LifeInv`
for the state, and layer 3 on layer 2, since a submit that waits for the stream server
must find its job not completed.

`NoPanics` needs one more fact, that the bases of all jobs are below `task_id_counter`,
and the hypothesis that no submitted job reserves zero ids: `MCServerEmpty.cfg` shows what
happens otherwise. `PanicReasons` has no such hypothesis and says that nothing else can
go wrong.

`CancelCompletes` uses `CancelInv` (`QueueProofs`) on top of `SafetyInv`. The handler of a
cancel sends the tasks that have not ended *for the server* and marks those that tako
names in its response; that the rest of the job is settled as well has to be argued from
the queues. `CancelInv` says that a request to cancel names every task of the job that
tako still holds; that once tako has responded, no task of the job is held by tako or has
an end among the later reports; and that the same is true of every job a client was told
is canceled. Its hypothesis, that no job has a log, is the reason for which the run
`cancel_log` fails: with a log the tasks may come to tako after the cancel.
TLC checked `CancelInv` on the instance of the run `cancel` before it was proved.

**The directory.** `DirInv` says, for every point of a start, what the process has
already left in the directory: the record of its second is its own from `create` on,
the link leads only to written records, and, as long as no start has overlapped, at most
one process is between `open` and its end, so that the link a starting server removes is
never that of a server that runs. A start that reads no record either met none or one of
another version; in the second case its server does not listen any more, or the start
counts as overlapping. A client's view is tied to the servers it saw running: it is about
to connect only to a server of its version, and is done without a result if the versions
differ.

**Automatic allocation.** `TracksAllocations` speaks of the moments at which the process
sleeps; in between, `refresh_allocations` has taken the list out of the descriptor, and
an allocation that was just submitted is only in the answer of the manager. `AllocInv`
counts an allocation as known in any of the three places (`Known`). It says that the
allocations known nowhere (`Forgotten`), together with a failed status call that was not
read yet (`Pending`), are no more than the status calls that failed; that no id is in two
places; and that an answer which is not read yet belongs to the call under way, so that
"no such allocation" is still true when it is read. Only `refresh_allocations` with a
failed call makes `Forgotten` grow, by the one allocation it drops. The numbers of
workers are typed by an arbitrary set, since their sum is a fold. The
assumption, `IdsAssumption` in `AutoAlloc`, is that an id is none of the other answers of
the manager.

Model-checked only: the liveness properties, which are out of the prover's reach;
`NoOverallocation`, which bounds the sum of the workers of all allocations, a fold that
needs induction over data; and what the runs check of `Streaming`, `LogFile`, `Wait`
and `Submission`. The reading of logs (`LogReader`) and the parsing of ranges
(`IntArray`) are folds, so what is said of their results needs induction over data as
well. `PanicHasCause`, `StreamsInOrder` and `FlushedWhenFinished` of `Streaming` do not:
they wait for an inductive invariant over the two halves of its connections.

## Not modelled

Reading requests, printing, argument parsing and resource detection change no shared
state. The authentication and the framing of connections are in tako. Dates and error
texts are data no property depends on; so are the name, the arguments, the resources,
the priority and the user's variables of a job, which `handle_submit` and
`handle_resubmit` copy unchanged.

The commands of the client other than `submit`, `resubmit`, `wait` and `log` send one
request and print the answer. The start of a worker detects resources once, before it
connects. A descriptor with `max_workers_per_alloc = 0`, for which the loop of
`schedule_new_allocations` would not end, is excluded by an assumption of `AutoAlloc`: no
descriptor of the repository returns it.

## Plan

In this order:

1. An abstract log - per task the latest run's chunks - implemented by
   `Streaming`.
2. `StreamsInOrder` of `Streaming` as a theorem, for any number of tasks.
3. That `hq wait` ends once its jobs have ended.
