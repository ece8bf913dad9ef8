------------------------------ MODULE MCWait ------------------------------
(* Instances of Wait for TLC.                                              *)
EXTENDS Wait

CONSTANTS w1, MaxId

TwoTasksFirst == <<2, 1, 1>>

Ids == 0 .. MaxId

Option(S) == {{}} \cup {{x} : x \in S}

Range1 == {<<v, w, x>> : v \in Ids, w \in Option(Ids), x \in Option(Ids)}

Proper == {r \in Range1 : p_range(r) # {}}

\* Every single range, proper or not, and every pair of proper ones.
RangesAndPairs == {<<r>> : r \in Range1} \cup {<<r, q>> : r \in Proper, q \in Proper}
============================================================================
