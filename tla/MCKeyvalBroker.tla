--------------------------- MODULE MCKeyvalBroker ---------------------------
(* Two prefixes, one within the other. *)
EXTENDS KeyvalBroker
CONSTANTS p, q, v
MCKeysOf == [x \in {p, q} |-> IF x = p THEN {1, 2} ELSE {2}]
=============================================================================
