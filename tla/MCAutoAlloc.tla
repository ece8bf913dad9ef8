--------------------------- MODULE MCAutoAlloc ----------------------------
(* Instances of AutoAlloc for TLC.                                         *)
EXTENDS AutoAlloc

CONSTANTS q1, q2

\* Three workers in allocations of at most two, and one in an allocation of
\* its own.
Scales == [q \in Queues |-> IF q = q1 THEN 3 ELSE 1]
PerAlloc == [q \in Queues |-> IF q = q1 THEN 2 ELSE 1]
============================================================================
