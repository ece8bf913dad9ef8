----------------------------- MODULE MCServer -----------------------------
(* Instances of Server for TLC.                                            *)
EXTENDS Server, TLC

CONSTANTS c1, c2, w1, w2

Submit(n, fails, log) == [n |-> n, id_count |-> n, max_fails |-> fails, log |-> log]

\* Two tasks without a log, of which none may fail.
LimitedJobs == {Submit(2, {0}, FALSE)}

\* Two tasks whose output is streamed to a log.
LogJobs == {Submit(2, {0}, TRUE)}

\* A stepped array that reserves three ids for two tasks, and a single task
\* with a log.
MixedJobs == {[n |-> 2, id_count |-> 3, max_fails |-> {0}, log |-> FALSE],
              Submit(1, {}, TRUE)}

\* --each-line with an empty file, and an ordinary job.
EmptyJobs == {Submit(0, {}, FALSE), Submit(1, {}, FALSE)}

SymAll == Permutations({c1, c2}) \cup Permutations({w1, w2})

FirstJob == {<<1>>}
BothJobs == {<<1, 2>>}
Unfinished == {{"Failed", "Canceled"}, JobTaskState}
============================================================================
