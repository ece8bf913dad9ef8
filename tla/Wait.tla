------------------------------- MODULE Wait -------------------------------
(***************************************************************************)
(* `hq wait' and `hq submit --wait' (client/commands/wait.rs): a client    *)
(* that polls the server for the jobs it waits for, while the jobs go on.  *)
(* The operations on jobs are those of the module Job; a task may start,   *)
(* return, end or be canceled at any time.                                 *)
(***************************************************************************)
EXTENDS Job, IntArray

CONSTANTS Sizes,    \* the number of tasks of each job, a sequence
          Typed     \* the selectors users type, each a sequence of ranges

ASSUME SizesAssumption == Sizes \in Seq(Nat \ {0})

VARIABLES jobs,    \* State::jobs of the server
          client   \* the local variables of wait_for_jobs

vars == <<jobs, client>>

JobIds == DOMAIN Sizes

Zero == [n_running_tasks |-> 0, n_finished_tasks |-> 0,
         n_failed_tasks |-> 0, n_canceled_tasks |-> 0]

\* JobTaskCounters::add.
add(a, b) == [f \in DOMAIN Zero |-> a[f] + b[f]]

AddAll(counters) == FoldLeft(add, Zero, counters)

Init ==
    /\ jobs = [j \in JobIds |->
           new(10 * j, [n |-> Sizes[j], max_fails |-> {}, log |-> FALSE])]
    /\ client = [pc |-> "idle", typed |-> <<>>, ids |-> <<>>, response |-> <<>>, first |-> TRUE,
                 remaining |-> {}, waited |-> {}, total |-> 0,
                 counters |-> Zero, shown |-> Zero, result |-> "none"]
----------------------------------------------------------------------------
(* The server.                                                             *)

\* Reports about a task and cancels change the job.
JobGoesOn(j) ==
    /\ \/ \E id \in InState(jobs[j], {"Waiting"}), w \in Workers :
              jobs' = [jobs EXCEPT ![j] = set_running_state(@, id, w)]
       \/ \E id \in InState(jobs[j], {"Running"}) :
              \/ jobs' = [jobs EXCEPT ![j] = set_finished_state(@, id)]
              \/ jobs' = [jobs EXCEPT ![j] = set_failed_state(@, id)]
       \/ /\ non_finished_task_ids(jobs[j]) # {}
          /\ jobs' = [jobs EXCEPT ![j] = set_cancel_state(@, non_finished_task_ids(@))]
    /\ UNCHANGED client

WorkerLost(j) ==
    /\ \E ids \in SUBSET InState(jobs[j], {"Running"}) \ {{}} :
           jobs' = [jobs EXCEPT ![j] = set_waiting_state(@, ids)]
    /\ UNCHANGED client

\* Job::make_job_info.
make_job_info(j) ==
    [id |-> j, n_tasks |-> n_tasks(jobs[j]),
     counters |-> [f \in DOMAIN Zero |-> jobs[j][f]], terminated |-> is_terminated(jobs[j])]

\* compute_job_info for Selector::Specific; unknown ids are left out.
compute_job_info ==
    /\ client.pc = "call"
    /\ LET known == SelectSeq(client.ids, LAMBDA j : j \in JobIds)
       IN  client' = [client EXCEPT !.pc = "answer", !.typed = <<>>,
               !.response = [k \in DOMAIN known |-> make_job_info(known[k])]]
    /\ UNCHANGED jobs
----------------------------------------------------------------------------
(* The client.                                                             *)

\* The selector is parsed, and wait_for_job_with_selector sends the first request.
wait_for_job_with_selector ==
    /\ client.pc = "idle"
    /\ \E typed \in Typed :
           \/ /\ parse_array(typed) = {}
              /\ client' = [client EXCEPT !.pc = "done", !.result = "invalid", !.typed = typed]
           \/ \E ranges \in parse_array(typed) :
                  client' = [client EXCEPT !.pc = "call", !.ids = iter(ranges), !.typed = typed]
    /\ UNCHANGED jobs

\* The request of the loop, with the ids in the order of a hash set.
Request(remaining) == {iter(from_ids(ids)) : ids \in SetToSeqs(remaining)}

\* The beginning of wait_for_jobs: jobs that have ended are not waited for.
wait_for_jobs ==
    LET open == SelectSeq(client.response, LAMBDA info : ~ info.terminated)
        remaining == {open[k].id : k \in DOMAIN open}
    IN  /\ client.pc = "answer"
        /\ client.first
        /\ IF open = <<>>
           THEN client' = [client EXCEPT !.pc = "done", !.result = "nothing"]
           ELSE \E ids \in Request(remaining) :
                    client' = [client EXCEPT !.pc = "call", !.ids = ids, !.first = FALSE,
                        !.remaining = remaining, !.waited = remaining,
                        !.total = FoldLeft(LAMBDA n, info : n + info.n_tasks, 0, open)]
        /\ UNCHANGED jobs

\* Mutant: the counters of a job are added in every round.
counted_each_round(counters, response) ==
    add(counters, AddAll([k \in DOMAIN response |-> response[k].counters]))

\* The counters of the jobs that have ended are kept.
counted(counters, response) ==
    LET ended == SelectSeq(response, LAMBDA info : info.terminated)
    IN  add(counters, AddAll([k \in DOMAIN ended |-> ended[k].counters]))

wait_result(counters) ==
    CASE counters.n_failed_tasks > 0 -> "failed"
      [] counters.n_failed_tasks = 0 /\ counters.n_canceled_tasks > 0 -> "canceled"
      [] OTHER -> "ok"

still_remaining(remaining, response) ==
    {j \in remaining : ~ \E k \in DOMAIN response :
                             response[k].id = j /\ response[k].terminated}

\* A round of the loop of wait_for_jobs.
wait_round ==
    LET remaining == still_remaining(client.remaining, client.response)
        counters == counted(client.counters, client.response)
        all == AddAll([k \in DOMAIN client.response |-> client.response[k].counters])
        new_client == [client EXCEPT !.remaining = remaining, !.counters = counters,
                           !.shown = add(client.counters, all)]
    IN  /\ client.pc = "answer"
        /\ ~ client.first
        /\ IF remaining = {}
           THEN client' = [new_client EXCEPT !.pc = "done", !.result = wait_result(counters)]
           ELSE \E ids \in Request(remaining) :
                    client' = [new_client EXCEPT !.pc = "call", !.ids = ids]
        /\ UNCHANGED jobs
----------------------------------------------------------------------------
Next ==
    \/ \E j \in JobIds : JobGoesOn(j) \/ WorkerLost(j)
    \/ wait_for_job_with_selector
    \/ compute_job_info
    \/ wait_for_jobs
    \/ wait_round

Spec == Init /\ [][Next]_vars
----------------------------------------------------------------------------
\* The ids a range stands for: "X-Y - Include range from X to Y", every x-th of
\* them when there is a step.
Meant(range) ==
    LET v == range[1]
        w == IF range[2] = {} THEN v ELSE Max(range[2])
        x == IF range[3] = {} THEN 1 ELSE Max({1} \cup range[3])
    IN  {id \in v .. w : (id - v) % x = 0}

\* docs/arrays.md: the client asks first for exactly the ids that were typed; a
\* list of ranges is refused exactly if an id was typed twice.
ParsedAsTyped ==
    LET pairs == {<<k, id>> \in (DOMAIN client.typed) \X (0 .. U32) : id \in Meant(client.typed[k])}
        twice == \E p, q \in pairs : p # q /\ p[2] = q[2]
    IN  /\ client.pc = "call" /\ client.first =>
               ~ twice /\ ToSet(client.ids) = {p[2] : p \in pairs}
        /\ client.result = "invalid" /\ p_ranges(client.typed) # {} => twice

\* In every further round the client asks exactly for the jobs it still waits
\* for, each once, in whatever order from_ids got their ids.
AsksForRemaining ==
    client.pc = "call" /\ ~ client.first =>
        ToSet(client.ids) = client.remaining /\ Len(client.ids) = Cardinality(client.remaining)

\* The exit code of `hq wait': when it ends, every job it waited for has ended,
\* each of its tasks was counted exactly once, and the result is an error
\* exactly if one of these tasks failed or was canceled.
WaitResult ==
    client.pc = "done" /\ client.result \notin {"nothing", "invalid"} =>
        LET states(s) == {<<j, id>> \in client.waited \X UNION {DOMAIN jobs[j].tasks : j \in JobIds} :
                              id \in InState(jobs[j], {s})}
        IN  /\ \A j \in client.waited : is_terminated(jobs[j])
            /\ client.counters.n_finished_tasks = Cardinality(states("Finished"))
            /\ client.counters.n_failed_tasks = Cardinality(states("Failed"))
            /\ client.counters.n_canceled_tasks = Cardinality(states("Canceled"))
            /\ client.result = IF states("Failed") # {} THEN "failed"
                               ELSE IF states("Canceled") # {} THEN "canceled" ELSE "ok"

\* The progress line never shows more tasks than there are: a job that ended in
\* one answer is not counted again from a later one.
ProgressWithinTotal ==
    client.shown.n_running_tasks + client.shown.n_finished_tasks
        + client.shown.n_failed_tasks + client.shown.n_canceled_tasks <= client.total
============================================================================
