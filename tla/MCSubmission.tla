--------------------------- MODULE MCSubmission ---------------------------
(***************************************************************************)
(* Instances of Submission: command lines with and without an array, a     *)
(* file of lines, a log and paths.                                         *)
(***************************************************************************)
EXTENDS Submission

Plain == [array |-> {}, each_line |-> {}, stdout |-> {}, stderr |-> {Null}, log |-> FALSE]

EachLine(lines) == [Plain EXCEPT !.each_line = {lines}]

\* --array=v
One(v) == <<v, {}, {}>>

\* --array=5
SingleId == [Plain EXCEPT !.array = {<<One(5)>>}, !.stderr = {}]

\* --array=0-2:2, with a path per instance
Steps == [Plain EXCEPT !.array = {<<<<0, {2}, {2}>>>>},
                       !.stdout = {File({"JOB_ID", "TASK_ID", "INSTANCE_ID"})}]

\* --array=1-2 --log=... --stderr=none
Logged == [Plain EXCEPT !.array = {<<<<1, {2}, {}>>>>}, !.log = TRUE]

Lines == EachLine(<<"a", "b", "c">>)

AllCommandLines == {Plain, SingleId, Steps, Logged, Lines, EachLine(<<"a">>)}

LineFiles == {Lines}

SingleIds == {SingleId}

LoggedJobs == {Logged}

\* No --status, --status=failed,canceled and --status=finished.
AllStatusLists == {{}, {{"Failed", "Canceled"}}, {{"Finished"}}}
============================================================================
