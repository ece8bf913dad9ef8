------------------------------- MODULE Job -------------------------------
(***************************************************************************)
(* A job of the HyperQueue server: the states of its tasks, the counters   *)
(* kept beside them, and the operations that change both (server/job.rs).  *)
(*                                                                         *)
(* A job is a record.  `tasks' maps each tako task id of the job to its    *)
(* JobTaskState and `worker' to the worker stored in that state; the       *)
(* counters are the JobTaskCounters; an Option is a set of at most one     *)
(* element.  Dates, the program and the error text are left out.  The      *)
(* operations are pure: the panic! and assert! that guard them in the code *)
(* are the operators named can_..., and the Server module turns a false    *)
(* one into the abort of the process.                                      *)
(***************************************************************************)
EXTENDS Integers, FiniteSets

CONSTANTS Workers,   \* the worker ids tako can hand out
          NoWorker   \* the worker of a task that has none

ASSUME NoWorkerAssumption == NoWorker \notin Workers

NonFinished == {"Waiting", "Running"}

Terminal == {"Finished", "Failed", "Canceled"}

JobTaskState == NonFinished \cup Terminal

\* The tako ids of the tasks of `job' that are in one of the states S.
InState(job, S) == {id \in DOMAIN job.tasks : job.tasks[id] \in S}

n_tasks(job) == Cardinality(DOMAIN job.tasks)

\* JobTaskCounters::n_waiting_tasks: what the other counters leave over.
n_waiting_tasks(job) ==
    n_tasks(job) - job.n_running_tasks - job.n_finished_tasks
                 - job.n_failed_tasks - job.n_canceled_tasks

is_terminated(job) ==
    job.n_running_tasks = 0 /\ n_waiting_tasks(job) = 0

\* Mutant: failures are looked at before cancels.
job_status_failed_first(job) ==
    CASE job.n_running_tasks > 0                             -> "Running"
      [] job.n_running_tasks = 0 /\ n_waiting_tasks(job) > 0 -> "Waiting"
      [] is_terminated(job) /\ job.n_failed_tasks > 0        -> "Failed"
      [] is_terminated(job) /\ job.n_failed_tasks = 0
                            /\ job.n_canceled_tasks > 0      -> "Canceled"
      [] OTHER                                               -> "Finished"

job_status(job) ==
    CASE job.n_running_tasks > 0    -> "Running"
      [] job.n_running_tasks = 0 /\ n_waiting_tasks(job) > 0 -> "Waiting"
      [] is_terminated(job) /\ job.n_canceled_tasks > 0      -> "Canceled"
      [] is_terminated(job) /\ job.n_canceled_tasks = 0
                            /\ job.n_failed_tasks > 0        -> "Failed"
      [] OTHER                      -> "Finished"

\* Mutant: tasks that run are forgotten.
waiting_task_ids(job) == InState(job, {"Waiting"})

non_finished_task_ids(job) == InState(job, NonFinished)

\* Job::new: every task waits and every counter is zero.
new(base, spec) ==
    LET ids == base .. (base + spec.n - 1)
    IN  [base             |-> base,
         tasks            |-> [id \in ids |-> "Waiting"],
         worker           |-> [id \in ids |-> NoWorker],
         n_running_tasks  |-> 0,
         n_finished_tasks |-> 0,
         n_failed_tasks   |-> 0,
         n_canceled_tasks |-> 0,
         max_fails        |-> spec.max_fails,
         log              |-> spec.log,
         completed        |-> FALSE]

\* Mutant: tasks that wait are forgotten.
check_nothing_runs(job) ==
    [job EXCEPT !.completed = @ \/ job.n_running_tasks = 0]

\* The completion date is set as soon as nothing runs and nothing waits.
check_termination(job) ==
    [job EXCEPT !.completed = @ \/ is_terminated(job)]

\* A report for a task that does not wait is ignored.
set_running_state(job, id, w) ==
    IF job.tasks[id] = "Waiting"
    THEN [job EXCEPT !.tasks[id] = "Running",
                     !.worker[id] = w,
                     !.n_running_tasks = @ + 1]
    ELSE job

can_end(job, id) == id \in DOMAIN job.tasks /\ job.tasks[id] = "Running"

set_finished_state(job, id) ==
    check_termination([job EXCEPT !.tasks[id] = "Finished",
                                  !.n_running_tasks = @ - 1,
                                  !.n_finished_tasks = @ + 1])

\* Mutant: the call of check_termination is missing.
set_failed_state_unchecked(job, id) ==
    [job EXCEPT !.tasks[id] = "Failed",
                !.n_running_tasks = @ - 1,
                !.n_failed_tasks = @ + 1]

set_failed_state(job, id) ==
    check_termination([job EXCEPT !.tasks[id] = "Failed",
                                  !.n_running_tasks = @ - 1,
                                  !.n_failed_tasks = @ + 1])

can_wait(job, ids) == ids \subseteq InState(job, {"Running"})

\* Mutant: the counter changes and the task does not.
set_waiting_counter(job, ids) ==
    [job EXCEPT !.n_running_tasks = @ - Cardinality(ids)]

\* set_waiting_state, called once for every task of the set ids.
set_waiting_state(job, ids) ==
    [job EXCEPT
        !.tasks  = [id \in DOMAIN @ |-> IF id \in ids THEN "Waiting" ELSE @[id]],
        !.worker = [id \in DOMAIN @ |-> IF id \in ids THEN NoWorker ELSE @[id]],
        !.n_running_tasks = @ - Cardinality(ids)]

can_cancel(job, ids) == ids \subseteq InState(job, NonFinished)

CancelWith(job, ids, were_running) ==
    [job EXCEPT
        !.tasks  = [id \in DOMAIN @ |-> IF id \in ids THEN "Canceled" ELSE @[id]],
        !.worker = [id \in DOMAIN @ |-> IF id \in ids THEN NoWorker ELSE @[id]],
        !.n_running_tasks = @ - were_running,
        !.n_canceled_tasks = @ + Cardinality(ids)]

\* Mutants: the counter of running tasks is left alone, or drops by every task.
set_cancel_state_running(job, ids) == check_termination(CancelWith(job, ids, 0))

set_cancel_state_all(job, ids) ==
    check_termination(CancelWith(job, ids, Cardinality(ids)))

\* set_cancel_state, called once for every task of the set ids.
set_cancel_state(job, ids) ==
    LET running == ids \cap InState(job, {"Running"})
    IN  IF ids = {} THEN job
                    ELSE check_termination(CancelWith(job, ids, Cardinality(running)))
----------------------------------------------------------------------------
JobRecord(ids) ==
    [base             : Nat,
     tasks            : [ids -> JobTaskState],
     worker           : [ids -> Workers \cup {NoWorker}],
     n_running_tasks  : Nat,
     n_finished_tasks : Nat,
     n_failed_tasks   : Nat,
     n_canceled_tasks : Nat,
     max_fails        : SUBSET Nat,
     log              : BOOLEAN,
     completed        : BOOLEAN]

JobTypeOK(job) ==
    /\ job \in JobRecord(DOMAIN job.tasks)
    /\ DOMAIN job.tasks \subseteq Nat
    /\ IsFiniteSet(DOMAIN job.tasks)

\* Each counter is the number of tasks in the state it counts.
CountersOK(job) ==
    /\ job.n_running_tasks  = Cardinality(InState(job, {"Running"}))
    /\ job.n_finished_tasks = Cardinality(InState(job, {"Finished"}))
    /\ job.n_failed_tasks   = Cardinality(InState(job, {"Failed"}))
    /\ job.n_canceled_tasks = Cardinality(InState(job, {"Canceled"}))
============================================================================
