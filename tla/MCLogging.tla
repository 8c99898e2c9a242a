------------------------------ MODULE MCLogging ------------------------------
(* Two goroutines, a logger next to the default one, and a configuration whose *)
(* second line for it does not parse. *)
EXTENDS Logging
Sym == Permutations(Goroutines) \cup Permutations(Ids \ {Default}) \cup Permutations(TimeLogs)
MCConf == <<<<"a", 0>>, <<"a", None>>>>
=============================================================================
