--------------------------- MODULE MCStreaming ----------------------------
(* Instances of Streaming for TLC.                                         *)
EXTENDS Streaming, TLC

CONSTANTS t1, t2, w1, w2

SymTasks == Permutations({t1, t2})
============================================================================
