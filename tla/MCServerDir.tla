---------------------------- MODULE MCServerDir ----------------------------
(* Instances of ServerDir for TLC.                                         *)
EXTENDS ServerDir

CONSTANTS s1, s2, v1, v2
============================================================================
