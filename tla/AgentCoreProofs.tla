--------------------------- MODULE AgentCoreProofs ---------------------------
(***************************************************************************)
(* Proofs about AgentCore, for every number of plugins and every choice of *)
(* those that implement AfterInit().  Inv is the inductive invariant: it   *)
(* ties the place of the goroutine, and that of the caller, to what each   *)
(* plugin has been through and to which plugins have been closed.          *)
(***************************************************************************)
EXTENDS AgentCore, TLAPS

\* Exactly the plugins after the i-th have been closed, once.
ClosedAbove(i) == \A p \in Plugins : closes[p] = IF p > i THEN 1 ELSE 0

\* Exactly the plugins before the i-th have been initialised, none failed.
InitBelow(i) == \A p \in Plugins : plugin[p] = IF p < i THEN "initialized" ELSE "new"

\* AfterInit() has succeeded on exactly the plugins before the i-th that have it.
ReadyBelow(i) == \A p \in Plugins : plugin[p] = IF p < i /\ p \in PostInit THEN "ready"
                                                                           ELSE "initialized"

\* What holds at each place of the goroutine.
BootInv ==
    /\ wasError.kind = "nil" => wasError = NilErr
    /\ (boot = "none") = (main = "start")
    /\ boot = "none" => wasError = NilErr /\ InitBelow(1)
    /\ boot \in {"init", "initCall"} =>
         k >= 1 /\ (IF wasError = NilErr THEN InitBelow(k) ELSE Failed)
    /\ boot = "initCall" => wasError = NilErr /\ k <= N
    /\ boot \in {"afterInit", "afterCall"} =>
         k >= 1 /\ (IF wasError = NilErr THEN ReadyBelow(k) ELSE Failed)
    /\ boot = "afterCall" => wasError = NilErr /\ k <= N /\ k \in PostInit
    /\ boot \in {"rollback", "stop", "send"} => Failed /\ wasError.kind # "nil"
    /\ boot \in {"rollback", "stop"} => k <= N /\ ClosedAbove(k)
    /\ boot = "send" => ClosedAbove(0)
    /\ boot \in {"none", "init", "initCall", "afterInit", "afterCall"} => ClosedAbove(N)
    /\ doneChannel => boot = "finished" /\ ReadyBelow(N + 1)
    /\ (boot = "finished" /\ ~doneChannel) =>
         main = "exit" /\ startErr.kind \in {"init", "afterInit", "close"} /\ ClosedAbove(0)

\* What holds at each place of the caller.
MainInv ==
    /\ main \in {"start", "select"} => startErr = Pending
    /\ main \in {"loop", "stopping"} => startErr = NilErr /\ doneChannel
    /\ (main = "select" /\ doneChannel) => ClosedAbove(N)
    /\ main = "loop" => ClosedAbove(N)
    /\ main = "stopping" => ClosedAbove(m)
    /\ main = "exit" =>
         \/ startErr.kind = "timeout" /\ (doneChannel => ClosedAbove(N))
         \/ startErr = NilErr /\ doneChannel /\ ClosedAbove(0)
         \/ startErr.kind \in {"init", "afterInit", "close"} /\ boot = "finished" /\ ~doneChannel

Inv == TypeOK /\ BootInv /\ MainInv

----------------------------------------------------------------------------
\* The initial state of the agent satisfies the invariant.
LEMMA InitInv == Init => Inv
<1> SUFFICES ASSUME Init PROVE Inv
  OBVIOUS
<1>1. TypeOK
  <2>1. wasError \in [kind : {"nil", "init", "afterInit", "close"}, plugin : 0..N]
    BY NAssumption DEF Init, NilErr, Err
  <2>2. startErr \in [kind : {"pending", "nil", "init", "afterInit", "close", "timeout"},
                      plugin : 0..Torn]
    BY NAssumption DEF Init, Pending, Err, Torn
  <2>3. plugin \in [Plugins -> Stages] /\ closes \in [Plugins -> Nat]
    BY DEF Init, Stages
  <2>4. stopErr \in BOOLEAN /\ doneChannel \in BOOLEAN /\ closeChan \in BOOLEAN
    BY DEF Init
  <2>5. k \in 0..(N + 1) /\ m \in 0..N /\ currentlyProcessing \in 0..N
    BY NAssumption DEF Init
  <2> QED
    BY <2>1, <2>2, <2>3, <2>4, <2>5 DEF Init, TypeOK
<1>2. BootInv /\ MainInv
  BY NAssumption DEF Init, BootInv, MainInv, ClosedAbove, InitBelow, Plugins
<1> QED
  BY <1>1, <1>2 DEF Inv

\* Every step of the agent preserves the invariant.
LEMMA NextInv == Inv /\ [Next]_vars => Inv'
<1> SUFFICES ASSUME Inv, [Next]_vars PROVE Inv'
  OBVIOUS
<1> USE NAssumption, PostInitAssumption
<1> USE DEF Inv, TypeOK, BootInv, MainInv, ClosedAbove, InitBelow, ReadyBelow, Failed,
            Plugins, Stages, Err, NilErr, Pending, Torn, mainVars, bootVars
<1>1. CASE Start
  BY <1>1 DEF Start
<1>2. CASE NextInit
  BY <1>2 DEF NextInit
<1>3. CASE InitEnds
  BY <1>3 DEF InitEnds
<1>4. CASE RollbackEnds
  BY <1>4 DEF RollbackEnds
<1>5. CASE NextAfterInit
  BY <1>5 DEF NextAfterInit
<1>6. CASE AfterInitEnds
  <2>1. CASE wasError = NilErr
    <3>1. ReadyBelow(N + 1)
      BY <1>6, <2>1 DEF AfterInitEnds
    <3> QED
      BY <1>6, <2>1, <3>1 DEF AfterInitEnds
  <2>2. CASE wasError # NilErr
    BY <1>6, <2>2 DEF AfterInitEnds
  <2> QED
    BY <2>1, <2>2
<1>7. CASE BootStop
  BY <1>7 DEF BootStop
<1>8. CASE BootStopEnds
  BY <1>8 DEF BootStopEnds
<1>9. CASE StartFails
  BY <1>9 DEF StartFails
<1>10. CASE StartDone
  BY <1>10 DEF StartDone
<1>11. CASE StartTimeout
  BY <1>11 DEF StartTimeout
<1>12. CASE CloseCloseChan
  BY <1>12 DEF CloseCloseChan
<1>13. CASE Interrupt
  BY <1>13 DEF Interrupt, StopBegins
<1>14. CASE CloseChanSeen
  BY <1>14 DEF CloseChanSeen, StopBegins
<1>15. CASE StopEnds
  BY <1>15 DEF StopEnds
<1>16. ASSUME NEW b \in BOOLEAN, InitReturns(b) PROVE Inv'
  BY <1>16 DEF InitReturns
<1>17. ASSUME NEW b \in BOOLEAN, AfterInitReturns(b) PROVE Inv'
  BY <1>17 DEF AfterInitReturns
<1>18. ASSUME NEW b \in BOOLEAN, Rollback(b) PROVE Inv'
  BY <1>18 DEF Rollback
<1>19. ASSUME NEW b \in BOOLEAN, Stop(b) PROVE Inv'
  BY <1>19 DEF Stop
<1>20. CASE UNCHANGED vars
  BY <1>20 DEF vars
<1> QED
  BY <1>1, <1>2, <1>3, <1>4, <1>5, <1>6, <1>7, <1>8, <1>9, <1>10, <1>11, <1>12, <1>13, <1>14, <1>15, <1>16, <1>17, <1>18, <1>19, <1>20
  DEF Next, BootStep, MainStep

\* Inv is an invariant of the agent core.
THEOREM InvHolds == Spec => []Inv
  BY InitInv, NextInv, PTL DEF Spec

----------------------------------------------------------------------------
\* Type correctness: in particular no closing loop leaves the plugin list.
THEOREM TypeCorrect == Spec => []TypeOK
  BY InvHolds, PTL DEF Inv

\* AfterInit() runs only when every Init() has succeeded and nothing is closed.
THEOREM BarrierHolds == Spec => []AfterInitBarrier
<1>1. Inv => AfterInitBarrier
  BY NAssumption DEF Inv, TypeOK, BootInv, ReadyBelow, ClosedAbove, AfterInitBarrier, Plugins
<1> QED
  BY <1>1, InvHolds, PTL

\* While the event loop waits, every plugin is up and none is closed.
THEOREM ReadyWhenStarted == Spec => []StartNilMeansReady
<1>1. Inv => StartNilMeansReady
  BY NAssumption DEF Inv, TypeOK, BootInv, MainInv, ReadyBelow, ClosedAbove,
     StartNilMeansReady, Plugins
<1> QED
  BY <1>1, InvHolds, PTL

\* An error of Init() or AfterInit() is handed over only after a full roll-back.
THEOREM RolledBackOnError == Spec => []ErrorMeansRolledBack
<1>1. Inv => ErrorMeansRolledBack
  BY NAssumption DEF Inv, TypeOK, BootInv, MainInv, ClosedAbove, ErrorMeansRolledBack,
     AllClosedOnce, Plugins, Pending, NilErr, Err
<1> QED
  BY <1>1, InvHolds, PTL

\* At every place of the two threads, some tail of the list is closed, once.
LEMMA TailClosed == Inv => \E i \in 0..N : ClosedAbove(i)
<1> SUFFICES ASSUME Inv PROVE \E i \in 0..N : ClosedAbove(i)
  OBVIOUS
<1>1. N \in 0..N /\ 0 \in 0..N
  BY NAssumption
<1>2. CASE boot \in {"rollback", "stop"}
  BY <1>2 DEF Inv, TypeOK, BootInv
<1>3. CASE boot \in {"none", "init", "initCall", "afterInit", "afterCall", "send"}
  BY <1>1, <1>3 DEF Inv, TypeOK, BootInv
<1>4. CASE boot = "finished"
  BY <1>1, <1>4 DEF Inv, TypeOK, BootInv, MainInv
<1> QED
  BY <1>2, <1>3, <1>4 DEF Inv, TypeOK

\* No plugin is closed twice, by whichever of the closing loops.
THEOREM NoDoubleClose == Spec => []ClosedAtMostOnce
<1>1. Inv => ClosedAtMostOnce
  BY TailClosed, NAssumption DEF ClosedAbove, ClosedAtMostOnce, Plugins
<1> QED
  BY <1>1, InvHolds, PTL

\* Plugins are closed in the reverse order of the list, whoever closes them.
THEOREM ClosesInReverse == Spec => CloseReverse
<1> DEFINE R == \A p \in Plugins : closes'[p] # closes[p] => \A q \in (p + 1)..N : closes[q] > 0
<1>1. Inv /\ [Next]_vars => [R]_vars
  <2> SUFFICES ASSUME Inv, Next PROVE R
    OBVIOUS
  <2> USE NAssumption DEF Inv, TypeOK, ClosedAbove, Plugins
  <2>1. ASSUME NEW b \in BOOLEAN, Rollback(b) PROVE R
    BY <2>1 DEF Rollback, BootInv
  <2>2. CASE BootStop
    BY <2>2 DEF BootStop, BootInv
  <2>3. ASSUME NEW b \in BOOLEAN, Stop(b) PROVE R
    BY <2>3 DEF Stop, MainInv
  <2>4. CASE UNCHANGED closes
    BY <2>4
  <2> QED
    BY <2>1, <2>2, <2>3, <2>4
    DEF Next, BootStep, MainStep, Start, NextInit, InitEnds, RollbackEnds, NextAfterInit,
        AfterInitEnds, BootStopEnds, InitReturns, AfterInitReturns, StartFails, StartDone,
        StartTimeout, CloseCloseChan, Interrupt, CloseChanSeen, StopBegins, StopEnds
<1> QED
  BY <1>1, InvHolds, PTL DEF Spec, CloseReverse

----------------------------------------------------------------------------
(* The refinement of AgentLifecycle. *)

\* The initial states map to initial states of the contract.
LEMMA LifecycleInit == Init => Lifecycle!LInit
  BY NAssumption DEF Init, Lifecycle!LInit, Lifecycle!Plugins, Plugins, Stage, Failed

\* Closing the k-th plugin after all later ones is a ClosePlugin step.
LEMMA LifecycleClose ==
    ASSUME Inv, NEW p \in Plugins, ClosedAbove(p), closes' = [closes EXCEPT ![p] = @ + 1],
           plugin' = plugin,
           Failed \/ ReadyBelow(N + 1)
    PROVE  Lifecycle!ClosePlugin(p)
<1> USE NAssumption, PostInitAssumption DEF Plugins
<1> DEFINE st == [q \in Plugins |-> Stage(q)]
<1>1. st' = [st EXCEPT ![p] = "closed"]
  <2>1. ASSUME NEW q \in Plugins PROVE Stage(q)' = IF q = p THEN "closed" ELSE Stage(q)
    BY DEF Inv, TypeOK, ClosedAbove, Stage
  <2> QED
    BY <2>1
<1>2. Failed' = Failed
  BY DEF Failed
<1>3. /\ Stage(p) # "closed"
      /\ \A q \in Plugins : q > p => Stage(q) = "closed"
  <2>1. plugin[p] \in Stages /\ plugin[p] # "closed" /\ closes[p] = 0
    BY DEF Inv, TypeOK, ClosedAbove, Stages
  <2>2. Stage(p) # "closed"
    BY <2>1 DEF Stage
  <2>3. ASSUME NEW q \in Plugins, q > p PROVE Stage(q) = "closed"
    BY <2>3 DEF ClosedAbove, Stage
  <2> QED
    BY <2>2, <2>3
<1>4. ReadyBelow(N + 1) => \A q \in Plugins : Stage(q) # "new"
                                            /\ (q \in PostInit => Stage(q) \in {"ready", "closed"})
  BY DEF Inv, TypeOK, ReadyBelow, Stage
<1> QED
  BY <1>1, <1>2, <1>3, <1>4 DEF Lifecycle!ClosePlugin, Lifecycle!Plugins

\* Every step of the agent core is a step of the contract or leaves it unchanged.
LEMMA LifecycleNext == Inv /\ [Next]_vars => [Lifecycle!LNext]_Lifecycle!lvars
<1> SUFFICES ASSUME Inv, [Next]_vars PROVE [Lifecycle!LNext]_Lifecycle!lvars
  OBVIOUS
<1> USE NAssumption, PostInitAssumption
<1>1. CASE UNCHANGED <<plugin, closes>>
  BY <1>1 DEF Lifecycle!lvars, Stage, Failed
<1>2. CASE InitReturns(TRUE)
  <2>1. k \in Plugins
    BY <1>2 DEF InitReturns, Inv, TypeOK, BootInv, Plugins
  <2>2. Lifecycle!InitPlugin(k)
    <3>1. \A q \in Plugins : /\ q < k => Stage(q) = "initialized"
                             /\ q >= k => Stage(q) = "new"
      BY <1>2, <2>1
      DEF InitReturns, Inv, TypeOK, BootInv, InitBelow, ClosedAbove, Plugins, Stages, Stage
    <3>2. ASSUME NEW q \in Plugins
          PROVE  Stage(q)' = IF q = k THEN "initialized" ELSE Stage(q)
      BY <1>2, <2>1
      DEF InitReturns, Inv, TypeOK, BootInv, InitBelow, ClosedAbove, Plugins, Stages, Stage
    <3>3. [q \in Plugins |-> Stage(q)]' = [[q \in Plugins |-> Stage(q)] EXCEPT ![k] = "initialized"]
      BY <3>2
    <3>4. ~Failed /\ ~Failed'
      BY <1>2, <2>1
      DEF InitReturns, Inv, TypeOK, BootInv, InitBelow, ClosedAbove, Plugins, Stages, Failed
    <3>5. Failed' = Failed
      BY <3>4 DEF Failed
    <3> QED
      BY <2>1, <3>1, <3>3, <3>4, <3>5 DEF Lifecycle!InitPlugin, Lifecycle!Plugins, Plugins
  <2> QED
    BY <2>1, <2>2 DEF Lifecycle!LNext, Lifecycle!Plugins, Plugins
<1>3. CASE AfterInitReturns(TRUE)
  <2>1. k \in Plugins
    BY <1>3 DEF AfterInitReturns, Inv, TypeOK, BootInv, Plugins
  <2>2. Lifecycle!AfterInitPlugin(k)
    <3>1. \A q \in Plugins : /\ Stage(q) \in {"initialized", "ready"}
                             /\ (q < k /\ q \in PostInit) => Stage(q) = "ready"
                             /\ q = k => Stage(q) = "initialized"
      BY <1>3, <2>1
      DEF AfterInitReturns, Inv, TypeOK, BootInv, ReadyBelow, ClosedAbove, Plugins, Stages, Stage
    <3>2. ASSUME NEW q \in Plugins
          PROVE  Stage(q)' = IF q = k THEN "ready" ELSE Stage(q)
      BY <1>3, <2>1
      DEF AfterInitReturns, Inv, TypeOK, BootInv, ReadyBelow, ClosedAbove, Plugins, Stages, Stage
    <3>3. k \in PostInit
      BY <1>3 DEF AfterInitReturns, Inv, BootInv
    <3>4. [q \in Plugins |-> Stage(q)]' = [[q \in Plugins |-> Stage(q)] EXCEPT ![k] = "ready"]
      BY <3>2
    <3>5. ~Failed /\ ~Failed'
      BY <1>3, <2>1
      DEF AfterInitReturns, Inv, TypeOK, BootInv, ReadyBelow, ClosedAbove, Plugins, Stages, Failed
    <3>6. Failed' = Failed
      BY <3>5 DEF Failed
    <3> QED
      BY <2>1, <3>1, <3>4, <3>5, <3>3, <3>6
      DEF Lifecycle!AfterInitPlugin, Lifecycle!Plugins, Plugins
  <2> QED
    BY <2>1, <2>2 DEF Lifecycle!LNext, Lifecycle!Plugins, Plugins
<1>4. CASE InitReturns(FALSE)
  <2>1. Lifecycle!Fail
    BY <1>4 DEF InitReturns, Inv, TypeOK, BootInv, InitBelow, ClosedAbove, Plugins, Stages,
       Lifecycle!Fail, Lifecycle!Plugins, Stage, Failed, mainVars
  <2> QED
    BY <2>1 DEF Lifecycle!LNext
<1>5. CASE AfterInitReturns(FALSE)
  <2>1. Lifecycle!Fail
    BY <1>5 DEF AfterInitReturns, Inv, TypeOK, BootInv, ReadyBelow, ClosedAbove, Plugins, Stages,
       Lifecycle!Fail, Lifecycle!Plugins, Stage, Failed, mainVars
  <2> QED
    BY <2>1 DEF Lifecycle!LNext
<1>6. ASSUME NEW p \in Plugins, Lifecycle!ClosePlugin(p) PROVE Lifecycle!LNext
  BY <1>6 DEF Lifecycle!LNext, Lifecycle!Plugins, Plugins
<1>7. ASSUME NEW b \in BOOLEAN, Rollback(b) PROVE Lifecycle!LNext
  <2>1. k \in Plugins /\ ClosedAbove(k) /\ Failed
    BY <1>7 DEF Rollback, Inv, TypeOK, BootInv, Plugins
  <2> QED
    BY <1>6, <1>7, <2>1, LifecycleClose DEF Rollback
<1>8. CASE BootStop
  <2>1. k \in Plugins /\ ClosedAbove(k) /\ Failed
    BY <1>8 DEF BootStop, Inv, TypeOK, BootInv, Plugins
  <2> QED
    BY <1>6, <1>8, <2>1, LifecycleClose DEF BootStop
<1>9. ASSUME NEW b \in BOOLEAN, Stop(b) PROVE Lifecycle!LNext
  <2>1. m \in Plugins /\ ClosedAbove(m) /\ ReadyBelow(N + 1)
    BY <1>9 DEF Stop, Inv, TypeOK, BootInv, MainInv, Plugins
  <2> QED
    BY <1>6, <1>9, <2>1, LifecycleClose DEF Stop
<1> QED
  BY <1>1, <1>2, <1>3, <1>4, <1>5, <1>7, <1>8, <1>9
  DEF Next, BootStep, MainStep, Start, NextInit, InitEnds, RollbackEnds, NextAfterInit,
      AfterInitEnds, BootStopEnds, StartFails, StartDone, StartTimeout, CloseCloseChan,
      Interrupt, CloseChanSeen, StopBegins, StopEnds, vars

\* The agent core implements the contract with its plugins.
THEOREM Refinement == Spec => ImplementsLifecycle
<1> QED
  BY LifecycleInit, LifecycleNext, InvHolds, PTL DEF Spec, ImplementsLifecycle, Lifecycle!LSpec

=============================================================================
