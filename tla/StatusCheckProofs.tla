-------------------------- MODULE StatusCheckProofs --------------------------
(***************************************************************************)
(* Proofs about the aggregation of StatusCheck, for any set of plugins,    *)
(* states and errors.  The two aggregation properties are inductive        *)
(* together once the status of every plugin has its type.                  *)
(***************************************************************************)
EXTENDS StatusCheck, FiniteSetTheorems, TLAPS

Texts == Errors \cup {""}
Statuses == [state : ProtoStates, err : Texts] \cup {Absent}

\* The types the aggregation depends on.
StatType ==
    /\ agentStat \in ProtoStates
    /\ pluginStat \in [Names -> Statuses]
    /\ result = NoResult \/ result \in [name : Names, state : States, err : Texts]

\* The two properties, over the statuses alone.
Aggregated ==
    /\ agentStat = "OK" => \A p \in Names : pluginStat[p].state # "ERROR"
    /\ ((\E p \in Names : pluginStat[p].state = "OK")
        /\ \A p \in Names : pluginStat[p].state \in {"OK", "absent"}) => agentStat = "OK"

Inv == StatType /\ Aggregated

----------------------------------------------------------------------------
\* A plugin is registered exactly when its status is not the absent one.
LEMMA RegisteredState ==
    ASSUME StatType
    PROVE  /\ Registered = {p \in Names : pluginStat[p].state # "absent"}
           /\ \A p \in Names : pluginStat[p].state \in ProtoStates \cup {"absent"}
<1>1. ASSUME NEW p \in Names
      PROVE  /\ pluginStat[p] # Absent <=> pluginStat[p].state # "absent"
             /\ pluginStat[p].state \in ProtoStates \cup {"absent"}
  <2>1. pluginStat[p] \in Statuses
    BY DEF StatType
  <2>2. Absent.state = "absent"
    BY DEF Absent, Status
  <2>3. CASE pluginStat[p] = Absent
    BY <2>2, <2>3
  <2>4. CASE pluginStat[p] \in [state : ProtoStates, err : Texts]
    <3>1. pluginStat[p].state \in ProtoStates /\ pluginStat[p].state # "absent"
      BY <2>4 DEF ProtoStates
    <3> QED
      BY <2>2, <3>1
  <2> QED
    BY <2>1, <2>3, <2>4 DEF Statuses
<1> QED
  BY <1>1 DEF Registered

\* stateToProto() returns a protobuf state.
LEMMA ProtoType == \A s : stateToProto(s) \in ProtoStates
  BY DEF stateToProto, ProtoStates

\* ReportStateChange() keeps the types and the aggregation.
LEMMA ReportInv ==
    ASSUME Inv, NEW p \in Names, NEW s, NEW e \in Texts, ReportStateChange(p, s, e)
    PROVE  /\ agentStat' \in ProtoStates
           /\ pluginStat' \in [Names -> Statuses]
           /\ Aggregated'
<1>1. CASE UNCHANGED stats
  BY <1>1 DEF Inv, StatType, Aggregated, stats
<1>2. CASE /\ p \in Registered
           /\ pluginStat' = [pluginStat EXCEPT ![p] = Status(stateToProto(s), e)]
           /\ agentStat' = GlobalState(s, pluginStat')
  <2> DEFINE c == stateToProto(s)
  <2>1. c \in ProtoStates /\ (s = "OK" => c = "OK") /\ (c = "OK" => s = "OK")
    BY DEF stateToProto, ProtoStates
  <2>2. agentStat' \in ProtoStates
    BY <1>2, <2>1 DEF GlobalState, Inv, StatType
  <2>3. pluginStat' \in [Names -> Statuses]
    BY <1>2, <2>1 DEF Inv, StatType, Statuses, Status
  <2>4. \A q \in Names : pluginStat'[q].state = IF q = p THEN c ELSE pluginStat[q].state
    BY <1>2 DEF Inv, StatType, Status
  <2>5. /\ Registered = {q \in Names : pluginStat[q].state # "absent"}
        /\ \A q \in Names : pluginStat[q].state \in ProtoStates \cup {"absent"}
    BY RegisteredState DEF Inv
  <2>6. CASE s = "OK" /\ \E q \in Registered : pluginStat'[q].state # "OK"
    <3>1. agentStat' = agentStat
      BY <1>2, <2>6 DEF GlobalState
    <3>2. PICK q \in Names : pluginStat'[q].state # "OK" /\ pluginStat'[q].state # "absent"
      BY <2>6, <2>5, <2>4, <2>1 DEF ProtoStates
    <3> QED
      BY <2>1, <2>2, <2>3, <2>4, <2>6, <3>1, <3>2 DEF Inv, Aggregated
  <2>7. CASE ~(s = "OK" /\ \E q \in Registered : pluginStat'[q].state # "OK")
    <3>1. agentStat' = c
      BY <1>2, <2>7 DEF GlobalState
    <3>2. c = "OK" => \A q \in Names : pluginStat'[q].state \in {"OK", "absent"}
      BY <2>1, <2>4, <2>5, <2>7
    <3>3. c # "OK" => ~ \A q \in Names : pluginStat'[q].state \in {"OK", "absent"}
      BY <2>1, <2>4 DEF ProtoStates
    <3> QED
      BY <2>2, <2>3, <3>1, <3>2, <3>3 DEF Aggregated
  <2> QED
    BY <2>6, <2>7
<1> QED
  BY <1>1, <1>2 DEF ReportStateChange, stats

\* Inv holds initially.
LEMMA InitInv == Init => Inv
<1> SUFFICES ASSUME Init PROVE Inv
  OBVIOUS
<1>1. StatType
  BY DEF Init, StatType, ProtoStates, Statuses
<1>2. \A p \in Names : pluginStat[p].state = "absent"
  BY DEF Init, Absent, Status
<1> QED
  BY <1>1, <1>2 DEF Init, Inv, Aggregated

\* Every step preserves Inv.
LEMMA NextInv == Inv /\ [Next]_vars => Inv'
<1> SUFFICES ASSUME Inv, [Next]_vars PROVE Inv'
  OBVIOUS
<1>1. CASE UNCHANGED <<agentStat, pluginStat, result>>
  BY <1>1 DEF Inv, StatType, Aggregated
<1>2. CASE AfterInit
  <2>1. CASE Registered = {}
    <3>1. \A p \in Names : pluginStat[p].state = "absent"
      BY <2>1, RegisteredState DEF Inv
    <3> QED
      BY <1>2, <2>1, <3>1 DEF AfterInit, Inv, StatType, Aggregated, ProtoStates
  <2>2. CASE Registered # {}
    BY <1>2, <2>2 DEF AfterInit, Inv, StatType, Aggregated
  <2> QED
    BY <2>1, <2>2
<1>3. ASSUME NEW p \in Names, Register(p, p \in Probed) PROVE Inv'
  <2>1. Status("INIT", "") \in Statuses /\ Status("INIT", "").state = "INIT"
    BY DEF Statuses, Status, Texts, ProtoStates
  <2>2. \A q \in Names : pluginStat'[q] = IF q = p THEN Status("INIT", "") ELSE pluginStat[q]
    BY <1>3 DEF Register, Inv, StatType
  <2>3. pluginStat'[p].state = "INIT"
    BY <2>1, <2>2
  <2>4. StatType'
    BY <1>3, <2>1 DEF Register, Inv, StatType
  <2> QED
    BY <1>3, <2>1, <2>2, <2>3, <2>4 DEF Register, Inv, Aggregated
<1>4. ASSUME NEW p \in Names, NEW r \in Reports, Push(p, r[1], r[2]) PROVE Inv'
  <2>1. r[2] \in Texts
    BY DEF Reports, Texts
  <2>2. ReportStateChange(p, r[1], r[2]) /\ result' = result
    BY <1>4 DEF Push, threads
  <2> QED
    BY <2>1, <2>2, ReportInv DEF Inv, StatType
<1>5. ASSUME NEW p \in Names, NEW r \in Reports, ProbeReturns(p, r[1], r[2]) PROVE Inv'
  BY <1>5 DEF ProbeReturns, Inv, StatType, Aggregated, Reports, Texts, stats
<1>6. CASE ProbeReports
  <2>1. result \in [name : Names, state : States, err : Texts]
    BY <1>6 DEF ProbeReports, Inv, StatType
  <2> QED
    BY <1>6, <2>1, ReportInv DEF ProbeReports, Inv, StatType
<1> QED
  BY <1>1, <1>2, <1>3, <1>4, <1>5, <1>6
  DEF Next, RegisterRaces, ProberStep, ProberStarts, ProberTimer, ProberRoundEnds,
      ProberCancelled, UpdaterStarts, UpdaterCancelled, UpdaterTimer, publishAllData,
      CloseCancels, CloseReturns, stats, threads, vars

\* Inv is an invariant of the status check plugin.
THEOREM InvHolds == Spec => []Inv
  BY InitInv, NextInv, PTL DEF Spec

\* Whatever is registered and reported in whatever order, the readiness probe
\* does not answer 200 while a plugin is in ERROR.
THEOREM NoHiddenError == Spec => []ReadyNeverHidesError
<1>1. Inv => ReadyNeverHidesError
  BY RegisteredState DEF Inv, Aggregated, ReadyNeverHidesError, readinessProbe
<1> QED
  BY <1>1, InvHolds, PTL

\* The readiness probe answers 200 as soon as every registered plugin is OK.
THEOREM RecoversWithLast == Spec => []AllOKMeansReady
<1>1. Inv => AllOKMeansReady
  BY RegisteredState DEF Inv, Aggregated, AllOKMeansReady, readinessProbe
<1> QED
  BY <1>1, InvHolds, PTL

----------------------------------------------------------------------------
(* The goroutines and the wait group. *)

ProberAtWork == prober \in {"waiting", "ranging"}
UpdaterAtWork == updater = "waiting"
AtWork == (IF ProberAtWork THEN 1 ELSE 0) + (IF UpdaterAtWork THEN 1 ELSE 0)

\* The types beside those of the statuses.  A result is held only amid a round, so
\* that a goroutine which leaves the round has nothing left to report.
ThreadType ==
    /\ pluginProbe \subseteq Names /\ todo \subseteq pluginProbe
    /\ pubAgent \in ProtoStates \cup {"none"}
    /\ pubPlugin \in [Names -> Statuses]
    /\ prober \in {"none", "spawned", "waiting", "ranging", "done"}
    /\ updater \in {"none", "spawned", "waiting", "done"}
    /\ ~started => prober = "none" /\ updater = "none"
    /\ result # NoResult => prober = "ranging"
    /\ wg = AtWork
    /\ closer \in {"open", "waiting", "closed"}
    /\ started \in BOOLEAN /\ ctxDone \in BOOLEAN /\ fatal \in BOOLEAN
    /\ closer # "open" => ctxDone

\* The number of goroutines at work, as TypeOK counts them.
LEMMA AtWorkCounts ==
    Cardinality({t \in {"prober", "updater"} :
                    IF t = "prober" THEN prober \in {"waiting", "ranging"} ELSE updater = "waiting"}) = AtWork
<1> DEFINE W == {t \in {"prober", "updater"} :
                    IF t = "prober" THEN prober \in {"waiting", "ranging"} ELSE updater = "waiting"}
<1>1. CASE ProberAtWork /\ UpdaterAtWork
  <2>1. W = {"prober"} \cup {"updater"} /\ "updater" \notin {"prober"}
    BY <1>1 DEF ProberAtWork, UpdaterAtWork
  <2>2. IsFiniteSet({"prober"}) /\ Cardinality({"prober"}) = 1
    BY FS_Singleton
  <2> QED
    BY <1>1, <2>1, <2>2, FS_AddElement DEF AtWork
<1>2. CASE ProberAtWork /\ ~UpdaterAtWork
  <2>1. W = {"prober"}
    BY <1>2 DEF ProberAtWork, UpdaterAtWork
  <2> QED
    BY <1>2, <2>1, FS_Singleton DEF AtWork
<1>3. CASE ~ProberAtWork /\ UpdaterAtWork
  <2>1. W = {"updater"}
    BY <1>3 DEF ProberAtWork, UpdaterAtWork
  <2>2. Cardinality(W) = 1
    BY <2>1, FS_Singleton
  <2>3. AtWork = 1
    BY <1>3 DEF AtWork
  <2> QED
    BY <2>2, <2>3
<1>4. CASE ~ProberAtWork /\ ~UpdaterAtWork
  <2>1. W = {}
    BY <1>4 DEF ProberAtWork, UpdaterAtWork
  <2> QED
    BY <1>4, <2>1, FS_EmptySet DEF AtWork
<1> QED
  BY <1>1, <1>2, <1>3, <1>4

\* ReportStateChange() writes statuses of the plugins to the transport, or nothing.
LEMMA ReportPublishes ==
    ASSUME Inv, ThreadType, NEW p \in Names, NEW s, NEW e \in Texts, ReportStateChange(p, s, e)
    PROVE  pubAgent' \in ProtoStates \cup {"none"} /\ pubPlugin' \in [Names -> Statuses]
<1>1. agentStat' \in ProtoStates /\ pluginStat' \in [Names -> Statuses]
  BY ReportInv
<1> QED
  BY <1>1 DEF ReportStateChange, publishPluginData, publishAgentData, ThreadType, pubs

\* The types of the threads hold initially.
LEMMA InitThreads == Init => ThreadType
<1> SUFFICES ASSUME Init PROVE ThreadType
  OBVIOUS
<1>1. wg = AtWork
  BY DEF Init, AtWork, ProberAtWork, UpdaterAtWork
<1>2. pubPlugin \in [Names -> Statuses]
  BY DEF Init, Statuses
<1> QED
  BY <1>1, <1>2 DEF Init, ThreadType

\* Every step keeps them: each goroutine counts itself in and out of the wait group.
LEMMA NextThreads == Inv /\ ThreadType /\ [Next]_vars => ThreadType'
<1> SUFFICES ASSUME Inv, ThreadType, [Next]_vars PROVE ThreadType'
  OBVIOUS
<1> USE DEF AtWork, ProberAtWork, UpdaterAtWork
<1>1. CASE UNCHANGED vars
  BY <1>1 DEF ThreadType, vars, stats, pubs, threads
<1>2. CASE AfterInit
  BY <1>2 DEF AfterInit, Inv, StatType, ThreadType, ProtoStates
<1>3. ASSUME NEW p \in Names, Register(p, p \in Probed) PROVE ThreadType'
  <2>1. pluginStat' \in [Names -> Statuses]
    BY <1>3 DEF Register, Inv, StatType, Statuses, Status, Texts, ProtoStates
  <2>2. pubPlugin' \in [Names -> Statuses]
    BY <1>3, <2>1 DEF Register, publishPluginData, ThreadType
  <2>3. pluginProbe' \subseteq Names /\ todo' \subseteq pluginProbe'
    BY <1>3 DEF Register, ProbeMapWrite, ThreadType
  <2> QED
    BY <1>3, <2>2, <2>3 DEF Register, ThreadType
<1>4. ASSUME NEW p \in Names, RegisterRaces(p) PROVE ThreadType'
  BY <1>4 DEF RegisterRaces, ThreadType, stats, pubs
<1>5. ASSUME NEW p \in Names, NEW r \in Reports, Push(p, r[1], r[2]) PROVE ThreadType'
  <2>1. r[2] \in Texts /\ ReportStateChange(p, r[1], r[2])
    BY <1>5 DEF Reports, Texts, Push
  <2> QED
    BY <1>5, <2>1, ReportPublishes DEF Push, ThreadType, threads
<1>6. CASE ProberStarts
  BY <1>6 DEF ProberStarts, ThreadType, stats, pubs
<1>7. CASE ProberTimer
  BY <1>7 DEF ProberTimer, ThreadType, stats, pubs
<1>8. ASSUME NEW p \in Names, NEW r \in Reports, ProbeReturns(p, r[1], r[2]) PROVE ThreadType'
  BY <1>8 DEF ProbeReturns, ThreadType, stats, pubs
<1>9. CASE ProbeReports
  <2>1. result.name \in Names /\ result.err \in Texts
    BY <1>9 DEF ProbeReports, Inv, StatType
  <2>2. pubAgent' \in ProtoStates \cup {"none"} /\ pubPlugin' \in [Names -> Statuses]
    BY <1>9, <2>1, ReportPublishes DEF ProbeReports
  <2> QED
    BY <1>9, <2>2 DEF ProbeReports, ThreadType
<1>10. CASE ProberRoundEnds
  BY <1>10 DEF ProberRoundEnds, ThreadType, stats, pubs
<1>11. CASE ProberCancelled
  BY <1>11 DEF ProberCancelled, ThreadType, stats, pubs
<1>12. CASE UpdaterStarts
  BY <1>12 DEF UpdaterStarts, ThreadType, stats, pubs
<1>13. CASE UpdaterCancelled
  BY <1>13 DEF UpdaterCancelled, ThreadType, stats, pubs
<1>14. ASSUME NEW lost \in SUBSET (Names \cup {"agent"}), UpdaterTimer(lost) PROVE ThreadType'
  <2>1. pubAgent' \in ProtoStates \cup {"none"} /\ pubPlugin' \in [Names -> Statuses]
    BY <1>14 DEF UpdaterTimer, publishAllData, Inv, StatType, ThreadType
  <2> QED
    BY <1>14, <2>1 DEF UpdaterTimer, ThreadType, threads
<1>15. CASE CloseCancels
  BY <1>15 DEF CloseCancels, ThreadType, stats, pubs
<1>16. CASE CloseReturns
  BY <1>16 DEF CloseReturns, ThreadType, stats, pubs
<1> QED
  BY <1>1, <1>2, <1>3, <1>4, <1>5, <1>6, <1>7, <1>8, <1>9, <1>10, <1>11, <1>12, <1>13,
     <1>14, <1>15, <1>16 DEF Next, ProberStep

\* The types of the threads are an invariant.
LEMMA ThreadsHold == Spec => [](Inv /\ ThreadType)
  BY InitInv, NextInv, InitThreads, NextThreads, PTL DEF Spec

\* The state of the status check keeps its shape, and the wait group counts exactly the
\* goroutines that have begun and not ended, however probes, cancellation and Close()
\* interleave.
THEOREM StatusTypes == Spec => []TypeOK
<1>1. Inv /\ ThreadType => TypeOK
  BY AtWorkCounts DEF Inv, StatType, ThreadType, TypeOK, Statuses, Texts
<1> QED
  BY <1>1, ThreadsHold, PTL

\* Close() returns only after it has cancelled the context and with no goroutine at work:
\* no probe result is on its way to be reported then.  (A goroutine that AfterInit() has
\* spawned and that has not called wg.Add() is not waited for.)
THEOREM CloseLeavesNoneAtWork ==
    Spec => [][CloseReturns => ctxDone /\ ~ProberAtWork /\ ~UpdaterAtWork /\ result = NoResult]_vars
<1>1. Inv /\ ThreadType => (CloseReturns => ctxDone /\ ~ProberAtWork /\ ~UpdaterAtWork /\ result = NoResult)
  BY DEF ThreadType, CloseReturns, AtWork, ProberAtWork, UpdaterAtWork
<1> QED
  BY <1>1, ThreadsHold, PTL
=============================================================================
