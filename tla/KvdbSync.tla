------------------------------- MODULE KvdbSync -------------------------------
(***************************************************************************)
(* Data synchronisation with a key-value store: the kvdbsync plugin        *)
(* (datasync/kvdbsync), the resync orchestrator (datasync/resync), the     *)
(* revisions of syncbase, the store, and the plugins that watch it.        *)
(*                                                                         *)
(* A subscription s has a change channel and a resync channel, read by its *)
(* application; a goroutine of the store's client that turns store events  *)
(* into change events; and a goroutine that answers the orchestrator's     *)
(* status event with a snapshot of the store.  The orchestrator resyncs    *)
(* the subscriptions one after the other, with a timeout of five seconds,  *)
(* the application has four seconds to confirm a snapshot.  Timeouts may   *)
(* come at any time.                                                       *)
(***************************************************************************)
EXTENDS Integers, Sequences, FiniteSets

CONSTANTS Subs,      \* subscriptions, by their resync names
          Keys,
          Watched,   \* Watched[s]: the keys under the prefixes of s
          Cap,       \* capacity of the change channels
          Buffered,  \* the subscriptions whose resync channel has a buffer
          MaxRev,    \* bound: writes to the store
          Orders     \* the values of orchLast to consider

ASSUME SubsAssumption == IsFiniteSet(Subs) /\ Watched \in [Subs -> SUBSET Keys]
ASSUME BoundAssumption == Cap \in Nat \ {0} /\ MaxRev \in Nat \ {0} /\ Orders \subseteq BOOLEAN

VARIABLES
    db, rev,        \* the store: value of each key (0: none); last revision
    events,         \* events[s]: store events not yet read by the client's goroutine
    lastRev,        \* PrevRevisions: last change of each key seen by any goroutine
    pending,        \* pending[s]: change event its goroutine is sending, if any
    changeChan,     \* changeChan[s]
    orchLast,       \* the orchestrator comes after kvdbsync in the flavor
    subscribed,     \* order of the Watch() calls
    kv,             \* AfterInit of kvdbsync: "off", "loop", "done", "failed"
    regOrder,       \* resync registrations, in order
    registrations,  \* the registrations that are still in the map
    orch, oi,       \* startResync: place and loop index
    worker,         \* worker[s]: place of watchResync
    snap,           \* snap[s]: the snapshot it is sending
    resyncChan,     \* resyncChan[s]: the snapshot in the channel, if any
    doneChan,       \* doneChan[s]: the confirmation in DoneChan
    app,            \* app[s]: the application handles a snapshot
    view,           \* view[s]: what the application believes of its keys
    seen,           \* seen[s]: the value of the last change event it took of each key (0: none yet)
    sync,           \* history: sync[s]: "none" before the snapshot is handled, then "applied"; "overtaken"
                    \* once a change was handled while the snapshot was on its way
    timedOut        \* one of the timers has fired

store == <<db, rev>>
channels == <<events, lastRev, pending, changeChan>>
setup == <<orchLast, subscribed, kv, regOrder>>
resyncing == <<registrations, orch, oi, worker, snap, resyncChan, doneChan, timedOut>>
apps == <<app, view, seen, sync>>
vars == <<db, rev, events, lastRev, pending, changeChan, orchLast, subscribed, kv, regOrder,
          registrations, orch, oi, worker, snap, resyncChan, doneChan, app, view, seen, sync, timedOut>>

Event(k, v) == [key |-> k, val |-> v]
Change(k, v, p) == [key |-> k, val |-> v, prev |-> p]
NoSnap == [k \in {} |-> 0]
SeqOf(q) == {q[i] : i \in DOMAIN q}

Init ==
    /\ db \in [Keys -> {0, 1}] /\ rev = 1
    /\ events = [s \in Subs |-> <<>>]
    /\ lastRev = [k \in Keys |-> 0]
    /\ pending = [s \in Subs |-> <<>>]
    /\ changeChan = [s \in Subs |-> <<>>]
    /\ orchLast \in Orders /\ subscribed = <<>> /\ regOrder = <<>> /\ registrations = {}
    /\ kv = "off" /\ orch = "off" /\ oi = 0
    /\ worker = [s \in Subs |-> "off"]
    /\ snap = [s \in Subs |-> NoSnap]
    /\ resyncChan = [s \in Subs |-> <<>>]
    /\ doneChan = [s \in Subs |-> FALSE]
    /\ app = [s \in Subs |-> "idle"]
    /\ view = [s \in Subs |-> [k \in Watched[s] |-> 0]]
    /\ seen = [s \in Subs |-> [k \in Watched[s] |-> 0]]
    /\ sync = [s \in Subs |-> "none"] /\ timedOut = FALSE

----------------------------------------------------------------------------
(* The store (external): a write gets a new revision, which is also its    *)
(* value, and is announced to every watcher of the key in order.           *)

\* The subscriptions the store's client watches for; the last Watch may have failed.
Watching == {s \in Subs : worker[s] # "off" /\ ~(kv = "failed" /\ s = regOrder[Len(regOrder)])}

StoreWrite(k, v) ==
    /\ rev < MaxRev
    /\ rev' = rev + 1
    /\ db' = [db EXCEPT ![k] = v]
    /\ events' = [s \in Subs |-> IF s \in Watching /\ k \in Watched[s]
                                   THEN Append(events[s], Event(k, v)) ELSE events[s]]
    /\ UNCHANGED <<lastRev, pending, changeChan>>
    /\ UNCHANGED <<setup, resyncing, apps>>

\* kvdbsync's Put and Delete, which fail until AfterInit has made the adapter.
Put(k) == kv # "off" /\ StoreWrite(k, rev + 1)
Delete(k) == kv # "off" /\ db[k] # 0 /\ StoreWrite(k, 0)

\* Another client of the store.
ExternalPut(k) == StoreWrite(k, rev + 1)

----------------------------------------------------------------------------
(* kvdbsync: Watch() and AfterInit(). *)

\* Watch() in an application's Init; a later one is registered for nothing.
Watch(s) ==
    /\ s \notin SeqOf(subscribed)
    /\ kv # "loop"
    /\ subscribed' = Append(subscribed, s)
    /\ UNCHANGED <<orchLast, kv, regOrder>> /\ UNCHANGED <<store, channels, resyncing, apps>>

AfterInitBegins ==
    /\ kv = "off"
    /\ orchLast \/ orch = "finished"
    /\ kv' = "loop"
    /\ UNCHANGED <<orchLast, subscribed, regOrder>> /\ UNCHANGED <<store, channels, resyncing, apps>>

\* One iteration over Subscriptions(), a map, hence in any order:
\* ResyncOrch.Register, the goroutine of watchResync, and Watch of the store's
\* client, which may fail and end AfterInit.
watchAndResyncBrokerKeys(s, ok) ==
    /\ kv = "loop" /\ s \in SeqOf(subscribed) \ SeqOf(regOrder)
    /\ regOrder' = Append(regOrder, s)
    /\ registrations' = registrations \cup {s}
    /\ worker' = [worker EXCEPT ![s] = "idle"]
    /\ kv' = IF ok THEN kv ELSE "failed"
    /\ UNCHANGED <<orchLast, subscribed, orch, oi, snap, resyncChan, doneChan, timedOut>>
    /\ UNCHANGED <<store, channels, apps>>

AfterInitEnds ==
    /\ kv = "loop" /\ SeqOf(subscribed) = SeqOf(regOrder)
    /\ kv' = "done"
    /\ UNCHANGED <<orchLast, subscribed, regOrder>> /\ UNCHANGED <<store, channels, resyncing, apps>>

----------------------------------------------------------------------------
(* watchChanges, run by the store client's goroutine. *)

\* LastRev().Del or LastRev().PutWithRevision, on the revisions all goroutines share.
LastRevUpdate(k, v) == [lastRev EXCEPT ![k] = v]

\* Mutant: store events are handled by goroutines of their own, in any order.
TakeAnyEvent(s) ==
    /\ pending[s] = <<>> /\ events[s] # <<>>
    /\ \E i \in DOMAIN events[s] :
         LET e == events[s][i] IN
         /\ events' = [events EXCEPT ![s] = SubSeq(@, 1, i - 1) \o SubSeq(@, i + 1, Len(@))]
         /\ pending' = [pending EXCEPT ![s] = <<Change(e.key, e.val, lastRev[e.key])>>]
         /\ lastRev' = LastRevUpdate(e.key, e.val)
    /\ UNCHANGED changeChan /\ UNCHANGED <<store, setup, resyncing, apps>>

watchChanges(s) ==
    /\ pending[s] = <<>> /\ events[s] # <<>>
    /\ LET e == Head(events[s]) IN
         /\ events' = [events EXCEPT ![s] = Tail(@)]
         /\ pending' = [pending EXCEPT ![s] = <<Change(e.key, e.val, lastRev[e.key])>>]
         /\ lastRev' = LastRevUpdate(e.key, e.val)
    /\ UNCHANGED changeChan /\ UNCHANGED <<store, setup, resyncing, apps>>

\* Mutant: a change is dropped when the channel is full.
SendOrDrop(s) ==
    /\ pending[s] # <<>>
    /\ changeChan' = [changeChan EXCEPT ![s] = IF Len(@) < Cap THEN Append(@, Head(pending[s])) ELSE @]
    /\ pending' = [pending EXCEPT ![s] = <<>>]
    /\ UNCHANGED <<events, lastRev>> /\ UNCHANGED <<store, setup, resyncing, apps>>

\* keys.changeChan <- ch
SendChange(s) ==
    /\ pending[s] # <<>> /\ Len(changeChan[s]) < Cap
    /\ changeChan' = [changeChan EXCEPT ![s] = Append(@, Head(pending[s]))]
    /\ pending' = [pending EXCEPT ![s] = <<>>]
    /\ UNCHANGED <<events, lastRev>> /\ UNCHANGED <<store, setup, resyncing, apps>>

----------------------------------------------------------------------------
(* The orchestrator. *)

\* Mutant: the loop misses the first registration.
ResyncSkipsFirst ==
    /\ orch = "off"
    /\ orchLast => kv = "done"
    /\ orch' = "loop" /\ oi' = 2
    /\ UNCHANGED <<registrations, worker, snap, resyncChan, doneChan, timedOut>>
    /\ UNCHANGED <<store, channels, setup, apps>>

\* AfterInit() of the orchestrator: startResync ranges over regOrder.
ResyncBegins ==
    /\ orch = "off"
    /\ orchLast => kv = "done"
    /\ orch' = "loop" /\ oi' = 1
    /\ UNCHANGED <<registrations, worker, snap, resyncChan, doneChan, timedOut>>
    /\ UNCHANGED <<store, channels, setup, apps>>

\* Mutant: the orchestrator does not wait for the confirmation.
startSingleResyncAsync ==
    /\ orch = "loop" /\ oi <= Len(regOrder)
    /\ worker[regOrder[oi]] = "idle"
    /\ worker' = [worker EXCEPT ![regOrder[oi]] = "list"]
    /\ oi' = oi + 1
    /\ UNCHANGED <<orch, registrations, snap, resyncChan, doneChan, timedOut>>
    /\ UNCHANGED <<store, channels, setup, apps>>

\* reg.StatusChan() <- started, received by watchResync.
startSingleResync ==
    /\ orch = "loop" /\ oi <= Len(regOrder)
    /\ LET s == regOrder[oi] IN
         IF s \in registrations
           THEN /\ worker[s] = "idle"
                /\ worker' = [worker EXCEPT ![s] = "list"]
                /\ orch' = "waitAck" /\ UNCHANGED oi
           ELSE oi' = oi + 1 /\ UNCHANGED <<worker, orch>>
    /\ UNCHANGED <<registrations, snap, resyncChan, doneChan, timedOut>>
    /\ UNCHANGED <<store, channels, setup, apps>>

\* Ack() meets ReceiveAck().
Ack(s) ==
    /\ worker[s] = "ack" /\ orch = "waitAck" /\ regOrder[oi] = s
    /\ worker' = [worker EXCEPT ![s] = "idle"]
    /\ orch' = "loop" /\ oi' = oi + 1
    /\ UNCHANGED <<registrations, snap, resyncChan, doneChan, timedOut>>
    /\ UNCHANGED <<store, channels, setup, apps>>

\* Five seconds without it.  The worker's Ack() will block for good.
AckTimeout ==
    /\ orch = "waitAck"
    /\ orch' = "loop" /\ oi' = oi + 1 /\ timedOut' = TRUE
    /\ UNCHANGED <<registrations, worker, snap, resyncChan, doneChan>>
    /\ UNCHANGED <<store, channels, setup, apps>>

ResyncEnds ==
    /\ orch = "loop" /\ oi > Len(regOrder)
    /\ orch' = "finished"
    /\ UNCHANGED <<registrations, oi, worker, snap, resyncChan, doneChan, timedOut>>
    /\ UNCHANGED <<store, channels, setup, apps>>

\* Close() of the orchestrator, at shutdown.
OrchClose ==
    /\ orch = "finished" \/ kv = "failed"
    /\ kv \in {"done", "failed"} /\ registrations # {}
    /\ registrations' = {}
    /\ UNCHANGED <<orch, oi, worker, snap, resyncChan, doneChan, timedOut>>
    /\ UNCHANGED <<store, channels, setup, apps>>

----------------------------------------------------------------------------
(* watchResync and resync, for one subscription. *)

\* db.ListValues of every prefix; an error goes straight to Ack().
ListValues(s, ok) ==
    /\ worker[s] = "list"
    /\ IF ok THEN /\ snap' = [snap EXCEPT ![s] = [k \in Watched[s] |-> db[k]]]
                  /\ worker' = [worker EXCEPT ![s] = "send"]
             ELSE /\ worker' = [worker EXCEPT ![s] = "ack"] /\ UNCHANGED snap
    /\ UNCHANGED <<registrations, orch, oi, resyncChan, doneChan, timedOut>>
    /\ UNCHANGED <<store, channels, setup, apps>>

\* keys.resyncChan <- resyncEvent, into a buffer.
SendResync(s) ==
    /\ s \in Buffered /\ worker[s] = "send" /\ resyncChan[s] = <<>>
    /\ resyncChan' = [resyncChan EXCEPT ![s] = <<snap[s]>>]
    /\ snap' = [snap EXCEPT ![s] = NoSnap]
    /\ worker' = [worker EXCEPT ![s] = "waitDone"]
    /\ UNCHANGED <<registrations, orch, oi, doneChan, timedOut>>
    /\ UNCHANGED <<store, channels, setup, apps>>

\* The application's Done() arrives.
DoneReceived(s) ==
    /\ worker[s] = "waitDone" /\ doneChan[s]
    /\ doneChan' = [doneChan EXCEPT ![s] = FALSE]
    /\ worker' = [worker EXCEPT ![s] = "ack"]
    /\ UNCHANGED <<registrations, orch, oi, snap, resyncChan, timedOut>>
    /\ UNCHANGED <<store, channels, setup, apps>>

\* Four seconds without it.
DoneTimeout(s) ==
    /\ worker[s] = "waitDone"
    /\ worker' = [worker EXCEPT ![s] = "ack"] /\ timedOut' = TRUE
    /\ UNCHANGED <<registrations, orch, oi, snap, resyncChan, doneChan>>
    /\ UNCHANGED <<store, channels, setup, apps>>

----------------------------------------------------------------------------
(* The application of a subscription (external): one goroutine that        *)
(* selects from its two channels, as the guidelines' example does.         *)

SnapshotUnderway(s) == worker[s] = "send" \/ resyncChan[s] # <<>>
Applied(s) == sync' = [sync EXCEPT ![s] = IF @ = "none" THEN "applied" ELSE @]

AppChange(s) ==
    /\ app[s] = "idle" /\ changeChan[s] # <<>>
    /\ LET c == Head(changeChan[s]) IN
         /\ view' = [view EXCEPT ![s][c.key] = c.val]
         /\ seen' = [seen EXCEPT ![s][c.key] = c.val]
    /\ changeChan' = [changeChan EXCEPT ![s] = Tail(@)]
    /\ sync' = [sync EXCEPT ![s] = IF SnapshotUnderway(s) THEN "overtaken" ELSE @]
    /\ UNCHANGED <<app, events, lastRev, pending>> /\ UNCHANGED <<store, setup, resyncing>>

AppResync(s) ==
    /\ app[s] = "idle" /\ resyncChan[s] # <<>>
    /\ app' = [app EXCEPT ![s] = "resync"]
    /\ view' = [view EXCEPT ![s] = Head(resyncChan[s])] /\ Applied(s)
    /\ resyncChan' = [resyncChan EXCEPT ![s] = <<>>]
    /\ UNCHANGED <<seen, registrations, orch, oi, worker, snap, doneChan, timedOut>>
    /\ UNCHANGED <<store, channels, setup>>

\* The same, from a channel without a buffer: the sender waits for this.
AppReceivesResync(s) ==
    /\ s \notin Buffered /\ app[s] = "idle" /\ worker[s] = "send"
    /\ app' = [app EXCEPT ![s] = "resync"]
    /\ view' = [view EXCEPT ![s] = snap[s]] /\ Applied(s)
    /\ snap' = [snap EXCEPT ![s] = NoSnap]
    /\ worker' = [worker EXCEPT ![s] = "waitDone"]
    /\ UNCHANGED <<seen, registrations, orch, oi, resyncChan, doneChan, timedOut>>
    /\ UNCHANGED <<store, channels, setup>>

\* Mutant: Done() waits until its confirmation is received.
AppDoneWaits(s) ==
    /\ app[s] = "resync" /\ worker[s] = "waitDone"
    /\ app' = [app EXCEPT ![s] = "idle"]
    /\ worker' = [worker EXCEPT ![s] = "ack"]
    /\ UNCHANGED <<view, seen, sync, registrations, orch, oi, snap, resyncChan, doneChan, timedOut>>
    /\ UNCHANGED <<store, channels, setup>>

\* Done() of the resync event: DoneChan has room for one.
AppDone(s) ==
    /\ app[s] = "resync"
    /\ app' = [app EXCEPT ![s] = "idle"]
    /\ doneChan' = [doneChan EXCEPT ![s] = TRUE]
    /\ UNCHANGED <<view, seen, sync, registrations, orch, oi, worker, snap, resyncChan, timedOut>>
    /\ UNCHANGED <<store, channels, setup>>

----------------------------------------------------------------------------
SyncStep == \/ AfterInitBegins \/ AfterInitEnds
            \/ \E s \in Subs, ok \in BOOLEAN : watchAndResyncBrokerKeys(s, ok)
OrchStep == ResyncBegins \/ startSingleResync \/ ResyncEnds \/ AckTimeout \/ \E s \in Subs : Ack(s)
WorkerStep(s) == SendResync(s) \/ DoneReceived(s) \/ DoneTimeout(s) \/ \E ok \in BOOLEAN : ListValues(s, ok)
AppStep(s) == AppChange(s) \/ AppResync(s) \/ AppReceivesResync(s) \/ AppDone(s)

Next ==
    \/ \E k \in Keys : Put(k) \/ Delete(k) \/ ExternalPut(k)
    \/ SyncStep \/ OrchStep \/ OrchClose
    \/ \E s \in Subs : Watch(s) \/ watchChanges(s) \/ SendChange(s) \/ WorkerStep(s) \/ AppStep(s)

Spec == Init /\ [][Next]_vars

(***************************************************************************)
(* Fairness: the goroutines run and their timers fire.  HangSpec leaves    *)
(* applications free to hang; AppReads says that one of them reads its     *)
(* channels and confirms, each channel getting its turn (select picks at   *)
(* random).                                                                *)
(***************************************************************************)
HangSpec ==
    /\ Spec
    /\ WF_vars(SyncStep) /\ WF_vars(OrchStep)
    /\ \A s \in Subs : WF_vars(watchChanges(s)) /\ WF_vars(SendChange(s)) /\ WF_vars(WorkerStep(s))
AppReads(s) ==
    SF_vars(AppChange(s)) /\ SF_vars(AppResync(s) \/ AppReceivesResync(s)) /\ WF_vars(AppDone(s))

----------------------------------------------------------------------------
(* Properties. *)

Places == {"off", "idle", "list", "send", "waitDone", "ack"}

\* The shapes of the state; no resync name is registered twice (Register panics).
TypeOK ==
    /\ db \in [Keys -> 0..MaxRev] /\ rev \in 1..(MaxRev + 1)
    /\ lastRev \in [Keys -> 0..MaxRev]
    /\ worker \in [Subs -> Places]
    /\ orch \in {"off", "loop", "waitAck", "finished"} /\ oi \in 0..(Len(regOrder) + 1)
    /\ kv \in {"off", "loop", "done", "failed"}
    /\ SeqOf(regOrder) \subseteq SeqOf(subscribed) /\ registrations \subseteq SeqOf(regOrder)
    /\ Cardinality(SeqOf(regOrder)) = Len(regOrder)
    /\ \A s \in Subs : Len(changeChan[s]) <= Cap

\* Subscriptions are resynced one at a time: before any timer has fired, the
\* orchestrator turns to the next one only when the application of the earlier
\* one has confirmed (or its snapshot could not be read), and a later one has
\* not begun.  Timeouts let an earlier resync go on, never a later one begin.
ResyncOneByOne ==
    \A i \in DOMAIN regOrder :
        LET s == regOrder[i] IN
        /\ (i < oi /\ ~timedOut) => /\ worker[s] = "idle" /\ app[s] = "idle"
                                    /\ resyncChan[s] = <<>>
        /\ i > oi => worker[s] = "idle" /\ app[s] = "idle"

\* Another subscription watches the key too.
Shared(s, k) == \E t \in Subs \ {s} : k \in Watched[t]

\* The change event at the head of the channel of s, if there is one, and that it is taken.
First(s) == {Head(q) : q \in {changeChan[s]} \ {<<>>}}
Taken(s) == Len(changeChan'[s]) < Len(changeChan[s])

\* The change events of a key reach an application in the order of the store, none
\* missing: the previous value of each is the value of the change event before it,
\* none for the first one, as long as no other subscription shares the key (the
\* revisions are shared by all).  What a snapshot told in between does not enter:
\* a resync does not fill the revisions, see PreviousValue.
ChangesChain ==
    [][\A s \in Subs : \A c \in First(s) :
          Taken(s) /\ ~Shared(s, c.key) =>
             /\ c.prev = seen[s][c.key]
             /\ c.val > c.prev \/ c.val = 0]_vars

\* README.md: "Each data change event contains both the previous and the new/current
\* value."  The first change after a resync has no previous value.
PreviousValue ==
    [][\A s \in Subs : \A c \in First(s) :
          Taken(s) /\ ~Shared(s, c.key) => c.prev = view[s][c.key]]_vars

\* README.md: "switched to this optimized mode only after successful Full Data RESYNC".
\* The store is watched before the resync begins, and after one that failed.
ChangesAfterResync ==
    [][\A s \in Subs : Taken(s) => sync[s] # "none"]_vars

\* The orchestrator comes to its end although applications may never read a
\* channel or confirm a snapshot, and the store may fail to list.
OrchestratorFinishes == orch = "loop" ~> orch = "finished"

\* The watched changes reach an application that reads, whatever the others do: they
\* may never read, and the resync goroutine of this one may be stuck in Ack() for
\* good.  (Changes arrive with or without a resync: see ChangesAfterResync.)
ChangesArrive ==
    \A s \in Subs : AppReads(s) =>
        ((s \in Watching /\ rev = MaxRev) ~>
            (events[s] = <<>> /\ pending[s] = <<>> /\ changeChan[s] = <<>>))

\* Every subscription made in Init gets its turn, whatever the applications do,
\* if the orchestrator comes after kvdbsync in the flavor.
Resynced(s) == worker[s] \in {"send", "waitDone", "ack"}
EveryoneResynced ==
    \A s \in Subs : (orchLast /\ kv = "loop" /\ s \in SeqOf(subscribed)) ~> (Resynced(s) \/ kv = "failed")

\* The start-up resync completes: everyone gets a turn and the orchestrator ends,
\* past applications that hang, late confirmations and failing snapshots.
ResyncCompletes == EveryoneResynced /\ OrchestratorFinishes

\* Nothing falls between the snapshot and the changes: an application that has
\* handled its snapshot, and no change while that was on its way, agrees with the
\* store when all that was sent is handled, however writes, timeouts and late
\* confirmations are interleaved.
Drained(s) ==
    /\ s \in Watching /\ events[s] = <<>> /\ pending[s] = <<>> /\ changeChan[s] = <<>>
    /\ ~SnapshotUnderway(s)
NothingFallsBetween ==
    \A s \in Subs : (Drained(s) /\ sync[s] = "applied") => \A k \in Watched[s] : view[s][k] = db[k]

\* README.md: "the minimal set of changes (deltas) needed to get in-sync gets
\* propagated to plugins".  With the snapshot and every delta handled, the
\* application holds what the store holds.
InSyncWhenDrained ==
    \A s \in Subs : (Drained(s) /\ sync[s] # "none" /\ ~timedOut) => \A k \in Watched[s] : view[s][k] = db[k]
=============================================================================
