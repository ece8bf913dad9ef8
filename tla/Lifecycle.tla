---------------------------- MODULE Lifecycle -----------------------------
(***************************************************************************)
(* What the server promises of jobs and tasks, whatever messages it takes  *)
(* to get there: a task moves along the edges of the state diagram of      *)
(* docs/jobs.md and no others, only tasks of one job are canceled          *)
(* together, and a job completes in the very step in which its last task   *)
(* ends.                                                                   *)
(***************************************************************************)
EXTENDS Integers

VARIABLES state,      \* for each job, the states of its tasks
          completed   \* the jobs that are completed

vars == <<state, completed>>

Ended == {"Finished", "Failed", "Canceled"}

AllEnded(tasks) == \A t \in DOMAIN tasks : tasks[t] \in Ended

Init ==
    /\ state = [j \in {} |-> 0]
    /\ completed = {}

\* The tasks `ids' of job j, which were in one of the states `from', take the
\* state `to'.
Move(j, ids, from, to) ==
    /\ ids # {}
    /\ ids \subseteq DOMAIN state[j]
    /\ \A t \in ids : state[j][t] \in from
    /\ state' = [state EXCEPT ![j] =
            [t \in DOMAIN state[j] |-> IF t \in ids THEN to ELSE state[j][t]]]

\* A new job appears with all its tasks waiting.
Submitted ==
    \E j \in DOMAIN state' :
        /\ j \notin DOMAIN state
        /\ DOMAIN state' = DOMAIN state \cup {j}
        /\ \A i \in DOMAIN state : state'[i] = state[i]
        /\ \A t \in DOMAIN state'[j] : state'[j][t] = "Waiting"
        /\ UNCHANGED completed

Started(j, t) == Move(j, {t}, {"Waiting"}, "Running") /\ UNCHANGED completed

\* Tasks of any number of jobs wait again, when the worker they ran on is lost.
Returned(ids) ==
    /\ state' = [j \in DOMAIN state |-> [t \in DOMAIN state[j] |->
            IF t \in ids THEN "Waiting" ELSE state[j][t]]]
    /\ \A j \in DOMAIN state : \A t \in DOMAIN state[j] \cap ids : state[j][t] = "Running"
    /\ UNCHANGED completed

Completes(j) ==
    completed' = IF AllEnded(state'[j]) THEN completed \cup {j} ELSE completed

Ends(j, t) ==
    /\ \E to \in {"Finished", "Failed"} : Move(j, {t}, {"Running"}, to)
    /\ Completes(j)

Cancels(j, ids) == Move(j, ids, {"Waiting", "Running"}, "Canceled") /\ Completes(j)

Next ==
    \/ Submitted
    \/ \E ids \in SUBSET UNION {DOMAIN state[j] : j \in DOMAIN state} : Returned(ids)
    \/ \E j \in DOMAIN state :
           \/ \E t \in DOMAIN state[j] : Started(j, t) \/ Ends(j, t)
           \/ \E ids \in SUBSET DOMAIN state[j] : Cancels(j, ids)

Spec == Init /\ [][Next]_vars
============================================================================
