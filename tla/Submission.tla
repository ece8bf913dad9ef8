---------------------------- MODULE Submission ----------------------------
(***************************************************************************)
(* From the command line to the process: what `hq submit' asks for         *)
(* (client/commands/submit.rs), the job and the task definitions the       *)
(* server makes of it (server/client.rs, server/job.rs), what `hq          *)
(* resubmit' makes of a job that exists, and the environment and files a   *)
(* worker gives to the process it starts (worker/start.rs).                *)
(*                                                                         *)
(* Server models how the same requests interleave; here a request is one   *)
(* step and the tasks carry the data that Server leaves out: ids, lines of *)
(* the input file, paths and the log.  A path is the set of placeholders   *)
(* it contains; after replace_placeholders it is the directory it starts   *)
(* from and the values of those placeholders.  Arguments, resources, user  *)
(* variables, %{CWD} and %{DATE} are left out.  An Option is a set of at   *)
(* most one element.                                                       *)
(***************************************************************************)
EXTENDS IntArray

CONSTANTS CommandLines,  \* the SubmitOpts a user may type
          StatusLists,   \* the values of --status of a resubmit
          ClientDir,     \* the directory in which the user runs hq
          ServerCwd,     \* the directory in which the server was started
          MaxSubmits,    \* bound: jobs that are submitted
          MaxJobs,       \* bound: jobs, the resubmitted ones included
          MaxStarted,    \* bound: tasks that have left the state Waiting when one starts
          MaxRestarts    \* bound: times a task is started again

VARIABLES jobs,             \* State.jobs, a job for each job id
          task_id_counter,  \* State.task_id_counter
          task_defs,        \* the TaskBody tako keeps for each tako task id
          instance,         \* tako: the instance id each task has now
          opened,           \* the output files that processes were given
          source            \* history: what the user asked for with each job

vars == <<jobs, task_id_counter, task_defs, instance, opened, source>>

Streams == {"stdout", "stderr"}

File(placeholders) == [kind |-> "File", placeholders |-> placeholders]

Pipe == [kind |-> "Pipe", placeholders |-> {}]

Null == [kind |-> "Null", placeholders |-> {}]

\* DEFAULT_STDOUT_PATH and DEFAULT_STDERR_PATH.
DefaultPath == File({"JOB_ID", "TASK_ID"})

\* The command lines that clap accepts and that name at least one task.
ASSUME CommandLinesAssumption ==
    \A o \in CommandLines :
        /\ o.array = {} \/ o.each_line = {}
        /\ \A typed \in o.array : parse_array(typed) # {}
        /\ \A lines \in o.each_line : lines # <<>>

ASSUME BoundsAssumption ==
    /\ {MaxSubmits, MaxJobs, MaxStarted, MaxRestarts} \subseteq Nat
    /\ ClientDir # ServerCwd

TheOnly(option) == CHOOSE x \in option : TRUE

Simple == [simple |-> TRUE, ranges |-> <<>>]

Array(ranges) == [simple |-> FALSE, ranges |-> ranges]

\* Mutant: ids that start at one.
from_one(start, count) == <<IntRange(start + 1, count, 1)>>

from_range(start, count) == <<IntRange(start, count, 1)>>

id_count(ranges) == FoldSeq(LAMBDA r, n : Plus(n, r.count), 0, ranges)

Init ==
    /\ jobs = <<>>
    /\ task_id_counter = 1
    /\ task_defs = <<>>
    /\ instance = <<>>
    /\ opened = {}
    /\ source = <<>>
----------------------------------------------------------------------------
(* The client.                                                             *)

\* submit_computation: the SubmitRequest for a command line.
submit_request(o) ==
    [job_type   |-> IF o.each_line # {} THEN Array(from_range(0, Len(TheOnly(o.each_line))))
                    ELSE IF o.array # {} THEN Array(TheOnly(parse_array(TheOnly(o.array))))
                    ELSE Simple,
     entries    |-> o.each_line,
     stdio      |-> [s \in Streams |-> IF o[s] # {} THEN TheOnly(o[s])
                                       ELSE IF o.log THEN Pipe ELSE DefaultPath],
     submit_dir |-> ClientDir,
     log        |-> o.log]
----------------------------------------------------------------------------
(* The server.                                                             *)

\* make_task with make_program_def_for_task.
make_task(request, job_id, task_id, entry) ==
    [job_id  |-> job_id,
     task_id |-> task_id,
     env     |-> [HQ_JOB_ID     |-> job_id,
                  HQ_TASK_ID    |-> task_id,
                  HQ_SUBMIT_DIR |-> request.submit_dir,
                  HQ_ENTRY      |-> entry],
     stdio   |-> request.stdio]

\* The match of handle_submit: the task definitions in the order of their tako
\* ids.  zip stops at the end of the shorter sequence.
make_tasks(request, job_id) ==
    LET ids == iter(request.job_type.ranges)
        lines == TheOnly(request.entries)
    IN  CASE request.job_type.simple -> <<make_task(request, job_id, 0, {})>>
          [] ~ request.job_type.simple /\ request.entries = {} ->
                 [i \in DOMAIN ids |-> make_task(request, job_id, ids[i], {})]
          [] OTHER -> [i \in 1 .. Min({Len(ids), Len(lines)}) |->
                           make_task(request, job_id, ids[i], {lines[i]})]

is_single(job_type) == job_type.simple \/ id_count(job_type.ranges) = 1

\* Job::new: a single task has no id of its own (make_job_detail shows 0).
new_tasks(job_type, base) ==
    LET ids == IF is_single(job_type) THEN <<0>> ELSE iter(job_type.ranges)
    IN  [t \in base .. (base + Len(ids) - 1) |->
            [task_id |-> ids[t - base + 1], state |-> "Waiting"]]

new_job(request, base) ==
    [single  |-> is_single(request.job_type),
     tasks   |-> new_tasks(request.job_type, base),
     entries |-> request.entries,
     stdio   |-> request.stdio,
     log     |-> request.log]

\* Mutant: one id is reserved, whatever the number of tasks.
task_count_one(job_type) == 1

\* The ids to reserve, in ranges with a step more than there are tasks.
task_count(job_type) == IF job_type.simple THEN 1 ELSE id_count(job_type.ranges)

\* handle_submit, to the hand-over of the task definitions to tako.
handle_submit(request, asked) ==
    LET job_id == Len(jobs) + 1
        base == task_id_counter
        defs == make_tasks(request, job_id)
        new == base .. (base + Len(defs) - 1)
    IN  /\ job_id <= MaxJobs
        /\ task_id_counter' = base + task_count(request.job_type)
        /\ jobs' = Append(jobs, new_job(request, base))
        /\ task_defs' = [t \in new |-> defs[t - base + 1]] @@ task_defs
        /\ instance' = [t \in new |-> 0] @@ instance
        /\ source' = Append(source, asked)
        /\ UNCHANGED opened

handle_client_submit(o) ==
    /\ Cardinality({j \in DOMAIN jobs : source[j].of = {}}) < MaxSubmits
    /\ handle_submit(submit_request(o),
           [lines |-> o.each_line, of |-> {}, ids |-> {}, whole |-> TRUE])

Matching(job, status) ==
    {t \in DOMAIN job.tasks : \A list \in status : job.tasks[t].state \in list}

resubmit_type(job, chosen) ==
    LET ids == {job.tasks[t].task_id : t \in chosen}
    IN  IF job.single THEN Simple ELSE Array(from_ids(SetToSortSeq(ids, LAMBDA a, b : a < b)))

\* handle_resubmit.  The history records the ids the tasks of the source have
\* for themselves, and whether the job is a copy of all of its first ancestor.
handle_resubmit(j, status) ==
    LET job == jobs[j]
        chosen == Matching(job, status)
        request == [job_type   |-> resubmit_type(job, chosen),
                    entries    |-> job.entries,
                    stdio      |-> job.stdio,
                    submit_dir |-> ServerCwd,
                    log        |-> FALSE]
    IN  /\ chosen # {}
        /\ handle_submit(request,
               [lines |-> source[j].lines,
                of    |-> {j},
                ids   |-> {task_defs[t].env.HQ_TASK_ID : t \in chosen},
                whole |-> source[j].whole /\ ~ job.single /\ chosen = DOMAIN job.tasks])

\* The state of a task, found by its tako id (get_task_state_mut), changes.
set_state(ids, to) ==
    jobs' = [j \in DOMAIN jobs |-> [jobs[j] EXCEPT
        !.tasks = [t \in DOMAIN @ |-> IF t \in ids THEN [@[t] EXCEPT !.state = to] ELSE @[t]]]]

StateOf(t) == jobs[task_defs[t].job_id].tasks[t].state

\* handle_job_cancel of a job whose tasks tako all still holds.
handle_job_cancel(j) ==
    LET ids == {t \in DOMAIN jobs[j].tasks : StateOf(t) \in {"Waiting", "Running"}}
    IN  /\ ids # {}
        /\ set_state(ids, "Canceled")
        /\ UNCHANGED <<task_id_counter, task_defs, instance, opened, source>>
----------------------------------------------------------------------------
(* The worker.                                                             *)

\* Mutant: the job id is not looked up.
replace_task_id(body, placeholders, instance_id) ==
    [dir     |-> body.env.HQ_SUBMIT_DIR,
     job_id  |-> {},
     task_id |-> IF "TASK_ID" \in placeholders THEN {body.env.HQ_TASK_ID} ELSE {},
     instance_id |-> IF "INSTANCE_ID" \in placeholders THEN {instance_id} ELSE {}]

\* replace_placeholders for one path; submit_dir.join comes first.
replace_placeholders(body, placeholders, instance_id) ==
    [dir     |-> body.env.HQ_SUBMIT_DIR,
     job_id  |-> IF "JOB_ID" \in placeholders THEN {body.env.HQ_JOB_ID} ELSE {},
     task_id |-> IF "TASK_ID" \in placeholders THEN {body.env.HQ_TASK_ID} ELSE {},
     instance_id |-> IF "INSTANCE_ID" \in placeholders THEN {instance_id} ELSE {}]

\* launcher_main: the files a process gets for its output.
launcher_main(t) ==
    LET body == task_defs[t]
        files == {s \in Streams : body.stdio[s].kind = "File"}
    IN  /\ StateOf(t) = "Waiting"
        /\ Cardinality({i \in DOMAIN task_defs : StateOf(i) # "Waiting"}) < MaxStarted
        /\ set_state({t}, "Running")
        /\ opened' = opened \cup
              {[task |-> t, instance_id |-> instance[t], stream |-> s,
                path |-> replace_placeholders(body, body.stdio[s].placeholders, instance[t])] :
                   s \in files}
        /\ UNCHANGED <<task_id_counter, task_defs, instance, source>>

\* A task that pipes its output needs the log of its job at the stream server.
Refused(t) ==
    /\ \E s \in Streams : task_defs[t].stdio[s] = Pipe
    /\ ~ jobs[task_defs[t].job_id].log

\* The end of run_task, reported to the server.
run_task_ends(t) ==
    /\ StateOf(t) = "Running"
    /\ \E to \in {"Finished", "Failed"} : (Refused(t) => to = "Failed") /\ set_state({t}, to)
    /\ UNCHANGED <<task_id_counter, task_defs, instance, opened, source>>

\* The worker is lost: tako starts the task again with a larger instance id.
TakoRestarts(t) ==
    /\ StateOf(t) = "Running"
    /\ MapThenSumSet(LAMBDA i : instance[i], DOMAIN instance) < MaxRestarts
    /\ set_state({t}, "Waiting")
    /\ instance' = [instance EXCEPT ![t] = @ + 1]
    /\ UNCHANGED <<task_id_counter, task_defs, opened, source>>

Next ==
    \/ \E o \in CommandLines : handle_client_submit(o)
    \/ \E j \in DOMAIN jobs :
           \/ handle_job_cancel(j)
           \/ \E status \in StatusLists : handle_resubmit(j, status)
    \/ \E t \in DOMAIN task_defs : launcher_main(t) \/ run_task_ends(t) \/ TakoRestarts(t)

Spec == Init /\ [][Next]_vars
----------------------------------------------------------------------------
(* Properties.                                                             *)

DefsOf(j) == {t \in DOMAIN task_defs : task_defs[t].job_id = j}

\* The tasks a job keeps in its state (Job::new) and the task definitions that
\* tako gets for it (handle_submit), which the code enumerates separately,
\* have the same tako ids and, in a job of several tasks, the same task ids:
\* no task is lost in the zip with the entries of a resubmitted job, and no
\* task of one job takes the id of a task of another.
TasksHaveDefs ==
    \A j \in DOMAIN jobs :
        /\ DefsOf(j) = DOMAIN jobs[j].tasks
        /\ jobs[j].single \/ \A t \in DefsOf(j) : task_defs[t].task_id = jobs[j].tasks[t].task_id

LineOf(t) == LET lines == TheOnly(source[task_defs[t].job_id].lines)
             IN  {lines[k] : k \in DOMAIN lines \cap {task_defs[t].env.HQ_TASK_ID + 1}}

\* "The corresponding line will be passed to the task in environment variable
\* `HQ_ENTRY`" (submit.rs): the task with id i sees line i of the file, also
\* in a job that was made by handle_resubmit.
EntryIsLine ==
    \A t \in DOMAIN task_defs :
        source[task_defs[t].job_id].lines # {} => task_defs[t].env.HQ_ENTRY = LineOf(t)

\* As long as no resubmit selects a part of the tasks or starts from a job with
\* a single task, every task of an --each-line job and of its copies sees the
\* line of its id: sorting, from_ids and zip restore the order of the lines
\* however the tasks are stored.
CopiesKeepLines ==
    \A t \in DOMAIN task_defs :
        source[task_defs[t].job_id].lines # {} /\ source[task_defs[t].job_id].whole
            => task_defs[t].env.HQ_ENTRY = LineOf(t)

\* A resubmit of a job with several tasks runs exactly the task ids whose tasks
\* had one of the requested states when handle_resubmit looked, each once.
ResubmitSelects ==
    \A j \in DOMAIN jobs : \A i \in source[j].of :
        ~ jobs[i].single =>
            /\ {task_defs[t].env.HQ_TASK_ID : t \in DefsOf(j)} = source[j].ids
            /\ Cardinality(DefsOf(j)) = Cardinality(source[j].ids)

\* Two processes are given the same output file only if the path has no
\* placeholder to tell them apart: with %{JOB_ID} and %{TASK_ID} (as in the
\* default paths) they run the same task, with %{INSTANCE_ID} the same
\* instance of it, across resubmits and restarts of tasks.
OutputsKeptApart ==
    \A a, b \in opened :
        a.path = b.path /\ a.stream = b.stream
            => LET uses == task_defs[a.task].stdio[a.stream].placeholders
               IN  {"JOB_ID", "TASK_ID"} \subseteq uses =>
                       /\ a.task = b.task
                       /\ "INSTANCE_ID" \in uses => a.instance_id = b.instance_id

\* "creates a new job with the exact the same configuration as the source job"
\* (docs/jobs.md): without --status the tasks of the copy have the ids, lines
\* and outputs of the tasks of the source.
ResubmitIsExact ==
    \A j \in DOMAIN jobs : \A i \in source[j].of :
        LET configuration(k) == {[id |-> task_defs[t].env.HQ_TASK_ID,
                                  entry |-> task_defs[t].env.HQ_ENTRY,
                                  stdio |-> task_defs[t].stdio] : t \in DefsOf(k)}
        IN  source[j].ids = {task_defs[t].env.HQ_TASK_ID : t \in DefsOf(i)}
                => configuration(j) = configuration(i) /\ jobs[j].log = jobs[i].log

\* A task whose output is piped (StdioDef::Pipe) belongs to a job whose log the
\* server registered, so that its stream is not refused.
PipesHaveLog ==
    \A t \in DOMAIN task_defs : ~ Refused(t)

\* The task id that the server reports for a task (make_job_detail) is the id
\* the task has for itself: "`--array=5` - create task array with one job with
\* task ID 5" (submit.rs).
ReportedIdIsOwn ==
    \A t \in DOMAIN task_defs :
        jobs[task_defs[t].job_id].tasks[t].task_id = task_defs[t].env.HQ_TASK_ID
============================================================================
