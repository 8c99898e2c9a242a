----------------------------- MODULE StatusCheck -----------------------------
(***************************************************************************)
(* The status check plugin (health/statuscheck) and the Kubernetes probes  *)
(* that read it (health/probe).  Plugins register and push their status,   *)
(* one goroutine pulls it from the registered probes, another one writes   *)
(* everything to the transport again and again, and Close cancels both and *)
(* waits for them.  Methods that hold the mutex are single steps.          *)
(***************************************************************************)
EXTENDS Integers, FiniteSets

CONSTANTS Names,    \* names of the plugins that report a status
          Probed,   \* those that register a probe
          States,   \* the PluginState values they report
          Errors    \* texts of the errors they report

ASSUME ErrorsAssumption == "" \notin Errors

VARIABLES
    agentStat,    \* agentStat.State
    pluginStat,   \* pluginStat: state and error of each plugin, Absent if not registered
    pluginProbe,  \* the plugins with a registered probe
    pubAgent,     \* agent state last written to the transport
    pubPlugin,    \* plugin states last written to the transport
    started,      \* AfterInit() has run
    ctxDone,      \* the context is cancelled
    prober,       \* place of periodicProbing
    todo,         \* probes left in its range loop
    result,       \* what the probe being reported returned
    updater,      \* place of periodicUpdates
    wg,           \* the wait group's counter
    closer,       \* place of Close()
    fatal         \* the Go runtime has stopped the process

stats == <<agentStat, pluginStat>>
pubs  == <<pubAgent, pubPlugin>>
threads == <<started, ctxDone, prober, todo, result, updater, wg, closer, fatal>>
vars == <<agentStat, pluginStat, pluginProbe, pubAgent, pubPlugin, started, ctxDone,
          prober, todo, result, updater, wg, closer, fatal>>

ProtoStates == {"INIT", "OK", "ERROR"}
Status(s, e) == [state |-> s, err |-> e]
Absent == Status("absent", "")
Registered == {p \in Names : pluginStat[p] # Absent}
NoResult == [name |-> "", state |-> "", err |-> ""]

\* stateToProto: every unknown state counts as an error.
stateToProto(s) == IF s = "Init" THEN "INIT" ELSE IF s = "OK" THEN "OK" ELSE "ERROR"

\* Init()
Init ==
    /\ agentStat = "INIT"
    /\ pluginStat = [p \in Names |-> Absent]
    /\ pluginProbe = {}
    /\ pubAgent = "none" /\ pubPlugin = [p \in Names |-> Absent]
    /\ started = FALSE /\ ctxDone = FALSE
    /\ prober = "none" /\ todo = {} /\ result = NoResult
    /\ updater = "none"
    /\ wg = 0 /\ closer = "open" /\ fatal = FALSE

----------------------------------------------------------------------------
(* Writes to the transport.  Errors of Put are ignored: a write may be lost. *)

publishAgentData == pubAgent' \in {pubAgent, agentStat'}

publishPluginData(p) ==
    pubPlugin' \in {pubPlugin, [pubPlugin EXCEPT ![p] = pluginStat'[p]]}

\* Mutant: the periodic update writes the agent's status only.
publishAgentOnly(lost) ==
    /\ pubAgent' = IF "agent" \in lost THEN pubAgent ELSE agentStat
    /\ UNCHANGED <<stats, pubPlugin>>

\* publishAllData, with the writes of `lost` failing ("agent" is the agent's own).
publishAllData(lost) ==
    /\ pubAgent' = IF "agent" \in lost THEN pubAgent ELSE agentStat
    /\ pubPlugin' = [p \in Names |-> IF p \in Registered \ lost THEN pluginStat[p]
                                                               ELSE pubPlugin[p]]
    /\ UNCHANGED stats

----------------------------------------------------------------------------
\* AfterInit(): the goroutines are spawned, the state published; an agent
\* without plugins is OK at once.
AfterInit ==
    /\ ~started /\ started' = TRUE
    /\ prober' = "spawned" /\ updater' = "spawned"
    /\ agentStat' = IF Registered = {} THEN "OK" ELSE agentStat
    /\ pubAgent' \in {pubAgent, agentStat, agentStat'}
    /\ UNCHANGED <<pluginStat, pluginProbe, pubPlugin, ctxDone, todo, result, wg, closer, fatal>>

\* A map written while periodicProbing ranges over it without the lock: the
\* running iteration may or may not see the new entry.
ProbeMapWrite(p) ==
    /\ pluginProbe' = pluginProbe \cup {p}
    /\ todo' \in IF prober = "ranging" THEN {todo, todo \cup {p}} ELSE {todo}

\* Register(): a registered plugin starts, or starts over, in INIT.
Register(p, probe) ==
    /\ pluginStat' = [pluginStat EXCEPT ![p] = Status("INIT", "")]
    /\ IF probe THEN ProbeMapWrite(p) ELSE UNCHANGED <<pluginProbe, todo>>
    /\ publishPluginData(p)
    /\ UNCHANGED <<agentStat, pubAgent, started, ctxDone, prober, result, updater, wg, closer, fatal>>

\* The same write meeting the iteration itself: "concurrent map iteration and
\* map write" ends the process.
RegisterRaces(p) ==
    /\ prober = "ranging" /\ result = NoResult
    /\ fatal' = TRUE
    /\ UNCHANGED <<stats, pluginProbe, pubs, started, ctxDone, prober, todo, result, updater, wg, closer>>

\* The report differs from what is stored for the plugin.
Changed(p, s, e) == pluginStat[p] # Status(stateToProto(s), e)

\* Mutant: the agent turns OK with the first plugin that does.
GlobalStateFirstOK(s, stat) == stateToProto(s)

\* Mutant: the other plugins are looked at before the report is stored.
GlobalStateTooEarly(s, stat) ==
    IF s = "OK" /\ \E q \in Registered : pluginStat[q].state # "OK" THEN agentStat
    ELSE stateToProto(s)

\* The agent's state after a report of s that leaves the plugins at stat.
GlobalState(s, stat) ==
    IF s = "OK" /\ \E q \in Registered : stat[q].state # "OK" THEN agentStat
    ELSE stateToProto(s)

\* ReportStateChange(): unregistered plugins and unchanged states are ignored.
ReportStateChange(p, s, e) ==
    IF p \notin Registered \/ ~Changed(p, s, e)
      THEN UNCHANGED <<stats, pubs>>
      ELSE /\ pluginStat' = [pluginStat EXCEPT ![p] = Status(stateToProto(s), e)]
           /\ agentStat' = GlobalState(s, pluginStat')
           /\ publishPluginData(p)
           /\ IF s = "OK" /\ \E q \in Registered : pluginStat'[q].state # "OK"
                THEN UNCHANGED pubAgent
                ELSE publishAgentData

\* A plugin pushes its status.
Push(p, s, e) == ReportStateChange(p, s, e) /\ UNCHANGED <<pluginProbe, threads>>

----------------------------------------------------------------------------
(* periodicProbing. *)

ProberStarts ==
    /\ prober = "spawned" /\ prober' = "waiting"
    /\ wg' = wg + 1
    /\ UNCHANGED <<stats, pluginProbe, pubs, started, ctxDone, todo, result, updater, closer, fatal>>

\* The timer of the select fires: range over the probes.
ProberTimer ==
    /\ prober = "waiting" /\ prober' = "ranging"
    /\ todo' = pluginProbe
    /\ UNCHANGED <<stats, pluginProbe, pubs, started, ctxDone, result, updater, wg, closer, fatal>>

\* The next probe() returns s and e; not reported yet.
ProbeReturns(p, s, e) ==
    /\ prober = "ranging" /\ result = NoResult /\ p \in todo
    /\ todo' = todo \ {p}
    /\ result' = [name |-> p, state |-> s, err |-> e]
    /\ UNCHANGED <<stats, pluginProbe, pubs, started, ctxDone, prober, updater, wg, closer, fatal>>

\* The result is reported; a cancelled context ends the goroutine.
ProbeReports ==
    /\ prober = "ranging" /\ result # NoResult
    /\ ReportStateChange(result.name, result.state, result.err)
    /\ result' = NoResult
    /\ IF ctxDone THEN prober' = "done" /\ wg' = wg - 1 ELSE UNCHANGED <<prober, wg>>
    /\ UNCHANGED <<pluginProbe, started, ctxDone, todo, updater, closer, fatal>>

ProberRoundEnds ==
    /\ prober = "ranging" /\ result = NoResult /\ todo = {}
    /\ prober' = "waiting"
    /\ UNCHANGED <<stats, pluginProbe, pubs, started, ctxDone, todo, result, updater, wg, closer, fatal>>

ProberCancelled ==
    /\ prober = "waiting" /\ ctxDone
    /\ prober' = "done" /\ wg' = wg - 1
    /\ UNCHANGED <<stats, pluginProbe, pubs, started, ctxDone, todo, result, updater, closer, fatal>>

(* periodicUpdates. *)

UpdaterStarts ==
    /\ updater = "spawned" /\ updater' = "waiting"
    /\ wg' = wg + 1
    /\ UNCHANGED <<stats, pluginProbe, pubs, started, ctxDone, prober, todo, result, closer, fatal>>

UpdaterTimer(lost) ==
    /\ updater = "waiting"
    /\ publishAllData(lost)
    /\ UNCHANGED <<pluginProbe, threads>>

UpdaterCancelled ==
    /\ updater = "waiting" /\ ctxDone
    /\ updater' = "done" /\ wg' = wg - 1
    /\ UNCHANGED <<stats, pluginProbe, pubs, started, ctxDone, prober, todo, result, closer, fatal>>

----------------------------------------------------------------------------
(* Close(). *)

\* Mutant: Close() waits without cancelling the context.
CloseWithoutCancel ==
    /\ closer = "open" /\ closer' = "waiting"
    /\ UNCHANGED <<stats, pluginProbe, pubs, started, ctxDone, prober, todo, result, updater, wg, fatal>>

CloseCancels ==
    /\ closer = "open" /\ closer' = "waiting"
    /\ ctxDone' = TRUE
    /\ UNCHANGED <<stats, pluginProbe, pubs, started, prober, todo, result, updater, wg, fatal>>

\* wg.Wait() returns; it does not know of goroutines that have not called Add.
CloseReturns ==
    /\ closer = "waiting" /\ wg = 0
    /\ closer' = "closed"
    /\ UNCHANGED <<stats, pluginProbe, pubs, started, ctxDone, prober, todo, result, updater, wg, fatal>>

----------------------------------------------------------------------------
(* The answers of the Kubernetes probes. *)

readinessProbe == IF agentStat = "OK" THEN 200 ELSE 500
\* The HTTP code comes from the first of its two reads of the status.
livenessProbe  == IF agentStat \in {"INIT", "OK"} THEN 200 ELSE 500

----------------------------------------------------------------------------
Reports == States \X (Errors \cup {""})

ProberStep == \/ ProberStarts \/ ProberTimer \/ ProbeReports \/ ProberRoundEnds \/ ProberCancelled
              \/ \E p \in Names, r \in Reports : ProbeReturns(p, r[1], r[2])

Next ==
    /\ ~fatal
    /\ \/ AfterInit
       \/ \E p \in Names : Register(p, p \in Probed)
       \/ \E p \in Names : RegisterRaces(p)
       \/ \E p \in Names, r \in Reports : Push(p, r[1], r[2])
       \/ ProberStep
       \/ UpdaterStarts \/ UpdaterCancelled
       \/ \E lost \in SUBSET (Names \cup {"agent"}) : UpdaterTimer(lost)
       \/ CloseCancels \/ CloseReturns

Spec == Init /\ [][Next]_vars

(***************************************************************************)
(* Fairness: the goroutines run, their timers fire, probes return, and the *)
(* transport does not lose every one of the periodic writes.               *)
(***************************************************************************)
FairSpec ==
    /\ Spec
    /\ WF_vars(~fatal /\ (ProberStarts \/ ProbeReports \/ ProberRoundEnds))
    /\ WF_vars(~fatal /\ \E p \in Names, r \in Reports : ProbeReturns(p, r[1], r[2]))
    /\ SF_vars(~fatal /\ ProberCancelled)
    /\ WF_vars(~fatal /\ UpdaterStarts)
    /\ SF_vars(~fatal /\ UpdaterCancelled)
    /\ WF_vars(~fatal /\ updater = "waiting" /\ UpdaterTimer({}))
    /\ WF_vars(~fatal /\ CloseReturns)

----------------------------------------------------------------------------
(* Properties. *)

\* The shapes of the state; the wait group counts the goroutines at work.
TypeOK ==
    /\ agentStat \in ProtoStates
    /\ pluginStat \in [Names -> [state : ProtoStates, err : Errors \cup {""}] \cup {Absent}]
    /\ pluginProbe \subseteq Names /\ todo \subseteq pluginProbe
    /\ pubAgent \in ProtoStates \cup {"none"}
    /\ pubPlugin \in [Names -> [state : ProtoStates, err : Errors \cup {""}] \cup {Absent}]
    /\ prober \in {"none", "spawned", "waiting", "ranging", "done"}
    /\ updater \in {"none", "spawned", "waiting", "done"}
    /\ wg = Cardinality({t \in {"prober", "updater"} :
                IF t = "prober" THEN prober \in {"waiting", "ranging"} ELSE updater = "waiting"})
    /\ closer \in {"open", "waiting", "closed"}
    /\ {started, ctxDone, fatal} \subseteq BOOLEAN

\* The readiness probe never answers 200 while a plugin is in ERROR, whatever
\* the order of registrations, pushed reports and probe results.
ReadyNeverHidesError ==
    readinessProbe = 200 => \A p \in Registered : pluginStat[p].state # "ERROR"

\* Once every registered plugin is OK the agent is: the readiness probe
\* recovers from any earlier error with the last plugin that does.
AllOKMeansReady ==
    (Registered # {} /\ \A p \in Registered : pluginStat[p].state = "OK") => readinessProbe = 200

\* While periodicUpdates runs, what clients read from the transport catches up
\* with the real states again and again, although single writes get lost.
Published ==
    /\ pubAgent = agentStat
    /\ \A p \in Registered : pubPlugin[p] = pluginStat[p]
PublishedCatchesUp == []<>(Published \/ fatal \/ updater # "waiting")

\* Close() returns: both goroutines notice the cancelled context, even amid a
\* round of probes.
CloseCompletes == closer = "waiting" ~> (closer = "closed" \/ fatal)

\* README.md: "The overall Agent Status is aggregated from all Plugins' Status
\* (logical AND ...)".  The agent stays in ERROR when the only failing plugin
\* has recovered, or registered anew, while some plugin is still in INIT.
ErrorHasCause == agentStat = "ERROR" => \E p \in Registered : pluginStat[p].state = "ERROR"
=============================================================================
