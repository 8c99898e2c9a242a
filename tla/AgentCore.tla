------------------------------ MODULE AgentCore ------------------------------
(***************************************************************************)
(* The agent core (core/agent_core.go, core/event_loop.go): the caller of  *)
(* EventLoopWithInterrupt, which runs Agent.Start, waits for an interrupt  *)
(* and runs Agent.Stop, and the goroutine Start launches, which runs       *)
(* initPlugins and handleAfterInit.  The two meet on the unbuffered        *)
(* errChannel, on doneChannel and on the start-up timer.  Calls into       *)
(* plugins may fail, take any time or never return.                        *)
(***************************************************************************)
EXTENDS Integers

CONSTANTS N,        \* number of plugins in agent.plugins
          PostInit  \* indexes of the plugins that implement AfterInit()

ASSUME NAssumption == N \in Nat
ASSUME PostInitAssumption == PostInit \subseteq 1..N

VARIABLES
    main,         \* where the caller of EventLoopWithInterrupt is
    boot,         \* where the goroutine launched by Start is
    k,            \* its loop index
    wasError,     \* its local error
    m,            \* loop index of Agent.Stop run by the caller
    stopErr,      \* errMsg of that Stop
    plugin,       \* how far each plugin got
    closes,       \* how many times Close() of each plugin was called
    currentlyProcessing, \* index of the plugin whose name is in the agent's field, 0 for ""
    doneChannel,  \* closed?
    closeChan,    \* closed?
    startErr      \* what Start returned

vars == <<main, boot, k, wasError, m, stopErr, plugin, closes,
          currentlyProcessing, doneChannel, closeChan, startErr>>
bootVars == <<boot, k, wasError>>
mainVars == <<main, m, stopErr, closeChan, startErr>>

Plugins == 1..N

\* An error, by the call that produced it and the plugin it names.
Err(kind, p) == [kind |-> kind, plugin |-> p]
NilErr == Err("nil", 0)
Pending == Err("pending", 0)

\* A string torn by the unsynchronised read of currentlyProcessing in Start.
Torn == N + 1

Init ==
    /\ main = "start" /\ boot = "none"
    /\ k = 0 /\ m = 0
    /\ wasError = NilErr /\ stopErr = FALSE
    /\ plugin = [p \in Plugins |-> "new"]
    /\ closes = [p \in Plugins |-> 0]
    /\ currentlyProcessing = 0
    /\ doneChannel = FALSE /\ closeChan = FALSE
    /\ startErr = Pending

----------------------------------------------------------------------------
(* Agent.Start, up to its select. *)

Start ==
    /\ main = "start"
    /\ main' = "select"
    /\ boot' = "init" /\ k' = 1
    /\ UNCHANGED <<wasError, m, stopErr, plugin, closes, currentlyProcessing,
                   doneChannel, closeChan, startErr>>

----------------------------------------------------------------------------
(* The goroutine: initPlugins. *)

\* Head of one iteration: the plugin is noted, and skipped after a failure.
NextInit ==
    /\ boot = "init" /\ k <= N
    /\ currentlyProcessing' = k
    /\ IF wasError # NilErr
         THEN k' = k + 1 /\ UNCHANGED boot
         ELSE boot' = "initCall" /\ UNCHANGED k
    /\ UNCHANGED <<wasError, plugin, closes, doneChannel>> /\ UNCHANGED mainVars

\* plugin.Init() returns.
InitReturns(ok) ==
    /\ boot = "initCall"
    /\ plugin' = [plugin EXCEPT ![k] = IF ok THEN "initialized" ELSE "initFailed"]
    /\ wasError' = IF ok THEN wasError ELSE Err("init", k)
    /\ boot' = "init" /\ k' = k + 1
    /\ UNCHANGED <<closes, currentlyProcessing, doneChannel>> /\ UNCHANGED mainVars

\* Mutant: AfterInit is called although an Init has failed.
InitErrorIgnored ==
    /\ boot = "init" /\ k > N
    /\ boot' = "afterInit" /\ k' = 1 /\ wasError' = NilErr
    /\ UNCHANGED <<plugin, closes, currentlyProcessing, doneChannel>> /\ UNCHANGED mainVars

\* The loop is over: on an error the roll-back starts at initPluginCounter,
\* which the skipped iterations have moved to the last plugin.
InitEnds ==
    /\ boot = "init" /\ k > N
    /\ IF wasError # NilErr
         THEN boot' = "rollback" /\ k' = N
         ELSE boot' = "afterInit" /\ k' = 1
    /\ UNCHANGED <<wasError, plugin, closes, currentlyProcessing, doneChannel>>
    /\ UNCHANGED mainVars

\* One safeclose.Close of the roll-back; its error replaces the one to return.
Rollback(failure) ==
    /\ boot = "rollback" /\ k >= 1
    /\ closes' = [closes EXCEPT ![k] = @ + 1]
    /\ wasError' = IF failure THEN Err("close", k) ELSE wasError
    /\ k' = k - 1
    /\ UNCHANGED <<boot, plugin, currentlyProcessing, doneChannel>> /\ UNCHANGED mainVars

\* Mutant: the roll-back misses the first plugin of the list.
RollbackEndsEarly ==
    /\ boot = "rollback" /\ k <= 1
    /\ boot' = "send"
    /\ UNCHANGED <<k, wasError, plugin, closes, currentlyProcessing, doneChannel>>
    /\ UNCHANGED mainVars

RollbackEnds ==
    /\ boot = "rollback" /\ k = 0
    /\ boot' = "send"
    /\ UNCHANGED <<k, wasError, plugin, closes, currentlyProcessing, doneChannel>>
    /\ UNCHANGED mainVars

----------------------------------------------------------------------------
(* The goroutine: handleAfterInit. *)

\* Mutant: AfterInit goes on after a failed one.
NextAfterInitUnchecked ==
    /\ boot = "afterInit" /\ k <= N
    /\ currentlyProcessing' = k
    /\ IF k \notin PostInit
         THEN k' = k + 1 /\ UNCHANGED boot
         ELSE boot' = "afterCall" /\ UNCHANGED k
    /\ UNCHANGED <<wasError, plugin, closes, doneChannel>> /\ UNCHANGED mainVars

NextAfterInit ==
    /\ boot = "afterInit" /\ k <= N
    /\ currentlyProcessing' = k
    /\ IF wasError # NilErr \/ k \notin PostInit
         THEN k' = k + 1 /\ UNCHANGED boot
         ELSE boot' = "afterCall" /\ UNCHANGED k
    /\ UNCHANGED <<wasError, plugin, closes, doneChannel>> /\ UNCHANGED mainVars

AfterInitReturns(ok) ==
    /\ boot = "afterCall"
    /\ plugin' = [plugin EXCEPT ![k] = IF ok THEN "ready" ELSE "afterFailed"]
    /\ wasError' = IF ok THEN wasError ELSE Err("afterInit", k)
    /\ boot' = "afterInit" /\ k' = k + 1
    /\ UNCHANGED <<closes, currentlyProcessing, doneChannel>> /\ UNCHANGED mainVars

\* Mutant: a failed AfterInit is reported without stopping the agent.
AfterInitEndsNoStop ==
    /\ boot = "afterInit" /\ k > N
    /\ IF wasError # NilErr
         THEN boot' = "send" /\ UNCHANGED <<k, doneChannel>>
         ELSE boot' = "finished" /\ doneChannel' = TRUE /\ UNCHANGED k
    /\ UNCHANGED <<wasError, plugin, closes, currentlyProcessing>> /\ UNCHANGED mainVars

\* The loop is over: agent.Stop() on an error, else close(doneChannel).
AfterInitEnds ==
    /\ boot = "afterInit" /\ k > N
    /\ IF wasError # NilErr
         THEN boot' = "stop" /\ k' = N /\ UNCHANGED doneChannel
         ELSE boot' = "finished" /\ doneChannel' = TRUE /\ UNCHANGED k
    /\ UNCHANGED <<wasError, plugin, closes, currentlyProcessing>> /\ UNCHANGED mainVars

\* One iteration of that agent.Stop(); its errors are dropped.
BootStop ==
    /\ boot = "stop" /\ k >= 1
    /\ closes' = [closes EXCEPT ![k] = @ + 1]
    /\ k' = k - 1
    /\ UNCHANGED <<boot, wasError, plugin, currentlyProcessing, doneChannel>>
    /\ UNCHANGED mainVars

BootStopEnds ==
    /\ boot = "stop" /\ k = 0
    /\ boot' = "send"
    /\ UNCHANGED <<k, wasError, plugin, closes, currentlyProcessing, doneChannel>>
    /\ UNCHANGED mainVars

----------------------------------------------------------------------------
(* Agent.Start: its select; EventLoopWithInterrupt after it. *)

\* Mutant: the event loop stops the agent after a failed Start too.
StartFailsThenStop ==
    /\ main = "select" /\ boot = "send"
    /\ boot' = "finished"
    /\ main' = "stopping" /\ m' = N /\ startErr' = wasError
    /\ UNCHANGED <<k, wasError, stopErr, plugin, closes, currentlyProcessing,
                   doneChannel, closeChan>>

\* errChannel <- err meets case err := <-errChannel.  The event loop returns it.
StartFails ==
    /\ main = "select" /\ boot = "send"
    /\ boot' = "finished"
    /\ main' = "exit" /\ startErr' = wasError
    /\ UNCHANGED <<k, wasError, m, stopErr, plugin, closes, currentlyProcessing,
                   doneChannel, closeChan>>

StartDone ==
    /\ main = "select" /\ doneChannel
    /\ main' = "loop" /\ startErr' = NilErr
    /\ UNCHANGED <<m, stopErr, plugin, closes, currentlyProcessing, doneChannel, closeChan>>
    /\ UNCHANGED bootVars

\* Mutant: a timeout that the event loop takes for a successful start.
StartTimeoutIgnored ==
    /\ main = "select"
    /\ main' = "loop" /\ startErr' = NilErr
    /\ UNCHANGED <<m, stopErr, plugin, closes, currentlyProcessing, doneChannel, closeChan>>
    /\ UNCHANGED bootVars

\* Mutant: a select without the timer.
NoTimeout == FALSE

\* The start-up timer fires first.  Start reads currentlyProcessing while the
\* goroutine may be writing it: any name written so far, or a torn string.
StartTimeout ==
    /\ main = "select"
    /\ \E name \in (0..(IF boot \in {"none", "init", "initCall"} THEN currentlyProcessing ELSE N))
                   \cup {Torn} :
         startErr' = Err("timeout", name)
    /\ main' = "exit"
    /\ UNCHANGED <<m, stopErr, plugin, closes, currentlyProcessing, doneChannel, closeChan>>
    /\ UNCHANGED bootVars

\* Whoever owns closeChan closes it, at any time.
CloseCloseChan ==
    /\ ~closeChan
    /\ closeChan' = TRUE
    /\ UNCHANGED <<main, m, stopErr, plugin, closes, currentlyProcessing, doneChannel, startErr>>
    /\ UNCHANGED bootVars

StopBegins ==
    /\ main' = "stopping" /\ m' = N
    /\ UNCHANGED <<stopErr, plugin, closes, currentlyProcessing, doneChannel, closeChan, startErr>>
    /\ UNCHANGED bootVars

Interrupt == main = "loop" /\ StopBegins
CloseChanSeen == main = "loop" /\ closeChan /\ StopBegins

\* One iteration of Agent.Stop, which goes on after an error.
Stop(failure) ==
    /\ main = "stopping" /\ m >= 1
    /\ closes' = [closes EXCEPT ![m] = @ + 1]
    /\ stopErr' = (stopErr \/ failure)
    /\ m' = m - 1
    /\ UNCHANGED <<main, plugin, currentlyProcessing, doneChannel, closeChan, startErr>>
    /\ UNCHANGED bootVars

StopEnds ==
    /\ main = "stopping" /\ m = 0
    /\ main' = "exit"
    /\ UNCHANGED <<m, stopErr, plugin, closes, currentlyProcessing, doneChannel, closeChan, startErr>>
    /\ UNCHANGED bootVars

----------------------------------------------------------------------------
\* The goroutine takes a step that does not need the caller.
BootStep ==
    \/ NextInit \/ InitEnds \/ RollbackEnds
    \/ NextAfterInit \/ AfterInitEnds \/ BootStop \/ BootStopEnds
    \/ \E b \in BOOLEAN : InitReturns(b) \/ AfterInitReturns(b) \/ Rollback(b)

\* The caller takes a step of its own accord once Start has returned.
MainStep == CloseChanSeen \/ StopEnds \/ \E b \in BOOLEAN : Stop(b)

Next == Start \/ BootStep \/ StartFails \/ StartDone \/ StartTimeout
        \/ CloseCloseChan \/ Interrupt \/ MainStep

Spec == Init /\ [][Next]_vars

(***************************************************************************)
(* Fairness.  A started select ends at the latest when its timer fires.    *)
(* HangSpec lets plugins hang forever: only the select is fair.            *)
(* PluginsReturn says that every call into a plugin returns; goroutines    *)
(* that can run are run, which the Go scheduler guarantees.                *)
(***************************************************************************)
HangSpec == Spec /\ WF_vars(Start) /\ WF_vars(StartFails \/ StartDone \/ StartTimeout)
PluginsReturn == WF_vars(BootStep) /\ WF_vars(MainStep)
----------------------------------------------------------------------------
(* Properties. *)

Stages == {"new", "initialized", "initFailed", "ready", "afterFailed"}
Failed == \E p \in Plugins : plugin[p] \in {"initFailed", "afterFailed"}
AllClosedOnce == \A p \in Plugins : closes[p] = 1

\* The shapes of the state: loop indexes stay in the plugin list (one past
\* its end when a loop is over) and errors name plugins.
TypeOK ==
    /\ main \in {"start", "select", "loop", "stopping", "exit"}
    /\ boot \in {"none", "init", "initCall", "rollback", "afterInit", "afterCall",
                 "stop", "send", "finished"}
    /\ k \in 0..(N + 1) /\ m \in 0..N
    /\ wasError \in [kind : {"nil", "init", "afterInit", "close"}, plugin : 0..N]
    /\ stopErr \in BOOLEAN
    /\ plugin \in [Plugins -> Stages]
    /\ closes \in [Plugins -> Nat]
    /\ currentlyProcessing \in 0..N
    /\ doneChannel \in BOOLEAN /\ closeChan \in BOOLEAN
    /\ startErr \in [kind : {"pending", "nil", "init", "afterInit", "close", "timeout"},
                     plugin : 0..Torn]

\* plugin_spi.go: "AfterInit is called once Init() of all plugins have returned
\* without error"; while one runs, none has been closed either.
AfterInitBarrier ==
    boot = "afterCall" => \A p \in Plugins : /\ plugin[p] \in {"initialized", "ready"}
                                             /\ closes[p] = 0

\* Whichever of the three closing loops runs (initPlugins' roll-back, Stop in
\* handleAfterInit, Stop in the event loop), and however late, plugins are
\* closed in the reverse order of the list.
CloseReverse ==
    [][\A p \in Plugins : closes'[p] # closes[p] => \A q \in (p + 1)..N : closes[q] > 0]_vars

\* No two of these loops ever close the same plugin, although a goroutine that
\* outlived its timeout may roll back on its own.
ClosedAtMostOnce == \A p \in Plugins : closes[p] <= 1

\* When the event loop waits for an interrupt, the goroutine is over, every
\* Init and every AfterInit has succeeded and no plugin has been closed.
StartNilMeansReady ==
    main = "loop" => /\ boot = "finished"
                     /\ \A p \in Plugins : /\ plugin[p] = IF p \in PostInit THEN "ready"
                                                                            ELSE "initialized"
                                           /\ closes[p] = 0

\* An error of Init or AfterInit is reported by Start, or waits forever to be
\* reported after a timeout, only once every plugin has been closed.
ErrorMeansRolledBack ==
    (boot = "send" \/ startErr.kind \in {"init", "afterInit", "close"}) => AllClosedOnce

\* The agent core keeps the contract of AgentLifecycle with its plugins.
Stage(p) == IF closes[p] > 0 THEN "closed"
            ELSE IF plugin[p] = "initFailed" THEN "new"
            ELSE IF plugin[p] = "afterFailed" THEN "initialized"
            ELSE plugin[p]

Lifecycle == INSTANCE AgentLifecycle
                 WITH stage <- [p \in Plugins |-> Stage(p)], failed <- Failed

ImplementsLifecycle == Lifecycle!LSpec

\* Start returns even when a plugin hangs in Init, AfterInit or Close.
StartReturns == main = "start" ~> main \notin {"start", "select"}

\* If the plugins' calls return, a failed Init or AfterInit leads to every
\* plugin being closed, also when Start has long returned with a timeout.
FailureIsRolledBack == PluginsReturn => (Failed ~> AllClosedOnce)

\* Once the agent runs, closing closeChan leads to the event loop returning
\* with every plugin closed, whatever errors Close() returns, if it returns.
CloseChanStopsAgent ==
    PluginsReturn => ((main = "loop" /\ closeChan) ~> (main = "exit" /\ AllClosedOnce))

\* However the agent ends, by a failure or by closeChan, it ends with every plugin
\* closed, if the plugins' calls return.
EndsClosed == FailureIsRolledBack /\ CloseChanStopsAgent
=============================================================================
