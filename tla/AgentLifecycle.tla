--------------------------- MODULE AgentLifecycle ---------------------------
(***************************************************************************)
(* What the agent core promises its plugins, seen from the plugins alone:  *)
(* Init is called in list order, AfterInit is called in list order and     *)
(* only once every Init has succeeded, Close is called in the reverse      *)
(* order, once, and only after a failure or after the whole start-up.      *)
(* Module AgentCore is the detailed specification that implements it.      *)
(***************************************************************************)
EXTENDS Integers

CONSTANTS N,        \* number of plugins in the agent's list
          PostInit  \* the plugins (their indexes) that implement AfterInit()

VARIABLES stage,    \* how far each plugin got: see Stages
          failed    \* some Init or AfterInit returned an error

lvars == <<stage, failed>>

Plugins == 1..N
Stages  == {"new", "initialized", "ready", "closed"}

LInit == /\ stage = [p \in Plugins |-> "new"]
         /\ failed = FALSE

\* The next plugin of the list is initialised.
InitPlugin(p) ==
    /\ ~failed
    /\ stage[p] = "new"
    /\ \A q \in Plugins : (q < p => stage[q] = "initialized")
                          /\ (q > p => stage[q] = "new")
    /\ stage' = [stage EXCEPT ![p] = "initialized"]
    /\ UNCHANGED failed

\* AfterInit() of the next plugin that has one, all plugins being initialised.
AfterInitPlugin(p) ==
    /\ ~failed
    /\ p \in PostInit
    /\ stage[p] = "initialized"
    /\ \A q \in Plugins : /\ stage[q] \in {"initialized", "ready"}
                          /\ (q < p /\ q \in PostInit) => stage[q] = "ready"
    /\ stage' = [stage EXCEPT ![p] = "ready"]
    /\ UNCHANGED failed

\* An Init or an AfterInit fails: at most one does, the later ones are skipped.
Fail ==
    /\ ~failed
    /\ \A q \in Plugins : stage[q] # "closed"
    /\ failed' = TRUE
    /\ UNCHANGED stage

\* Close() of the last plugin that is not closed yet.
ClosePlugin(p) ==
    /\ \/ failed
       \/ \A q \in Plugins : stage[q] # "new" /\ (q \in PostInit => stage[q] \in {"ready", "closed"})
    /\ stage[p] # "closed"
    /\ \A q \in Plugins : q > p => stage[q] = "closed"
    /\ stage' = [stage EXCEPT ![p] = "closed"]
    /\ UNCHANGED failed

LNext == \/ \E p \in Plugins : InitPlugin(p) \/ AfterInitPlugin(p) \/ ClosePlugin(p)
         \/ Fail

LSpec == LInit /\ [][LNext]_lvars
=============================================================================
