---------------------------- MODULE MCStatusCheck ----------------------------
(* States the plugins report: "tst" is one that stateToProto does not know. *)
EXTENDS StatusCheck

MCStates == {"Init", "OK", "tst"}
=============================================================================
