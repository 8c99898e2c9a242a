----------------------------- MODULE SyncRegistry -----------------------------
(***************************************************************************)
(* The registry of subscriptions (datasync/syncbase) as the transports use *)
(* that push changes into it: the local transactions, REST and the global  *)
(* registry of kvdbsync/local.  A transaction is propagated by             *)
(* PropagateChanges: the caller makes the events, a goroutine sends them   *)
(* one by one, another one collects the applications' confirmations, and   *)
(* the caller waits for it for at most five seconds.                       *)
(*                                                                         *)
(* PropagateResync sends every subscription all its keys, in the caller.   *)
(*                                                                         *)
(* A call is made once, and its goroutines may outlive it.  Revision       *)
(* numbers are left out: an event carries the new and the previous value.  *)
(***************************************************************************)
EXTENDS Naturals, Sequences, FiniteSets, SequencesExt

CONSTANTS Subs, Keys, KeyPrefixes,
          Matches,     \* Matches[p]: the keys with prefix p
          Wanted,      \* Wanted[s]: the prefixes s watches
          Calls,       \* calls of PropagateChanges and PropagateResync
          Cap,         \* capacity of the change channels
          DoneCap,     \* capacity of partialDone (5 in the code)
          Nobody

ASSUME RegistryAssumption ==
    /\ Matches \in [KeyPrefixes -> SUBSET Keys] /\ Wanted \in [Subs -> SUBSET KeyPrefixes]
    /\ Nobody \notin Subs
    /\ IsFiniteSet(Subs) /\ IsFiniteSet(Keys) /\ IsFiniteSet(KeyPrefixes)
ASSUME CapAssumption == Cap \in Nat \ {0} /\ DoneCap \in Nat \ {0}

VARIABLES
    subscriptions, \* the names in the map
    prefixes,  \* prefixes[s]: the prefixes of the subscription
    lock,      \* who holds the registry's lock across a blocking send
    lastRev,   \* lastRev[k]: the last value of key k (0: none)
    place,     \* place[c]: "idle", "wait", "resync" or "returned"
    result,    \* result[c]: "nil", "error"; nil as well: "timeout" (the timer), "sent" (a resync)
    fire,      \* fire[c]: events the sending goroutine has still to send
    partial,   \* partial[c]: partialDone, the confirmations not yet collected
    left,      \* left[c]: confirmations collectDoneEvents still waits for
    lastError, \* lastError[c]
    chan,      \* chan[s]: the change channel
    resync,    \* resync[c]: a PropagateResync: its data, the subscriptions to come, the event to send
    rchan,     \* rchan[s]: the resync channel
    view,      \* view[s]: what the application knows
    told,      \* told[k]: what the callers last said of a watched key
    dropped,   \* keys some resync left out although the registry held a value
    failures,  \* calls for which some application reported an error
    overlap,   \* a call began while events of another one were under way
    late       \* subscriptions made after a transaction: they may have missed it

subsVars == <<subscriptions, prefixes, lock>>
callVars == <<place, result, fire, partial, left, lastError>>
resyncVars == <<resync, rchan, told, dropped>>
vars == <<subscriptions, prefixes, lock, lastRev, place, result, fire, partial, left, lastError,
          resync, rchan, told, dropped, chan, view, failures, overlap, late>>

UnderWay(c) ==
    \/ fire[c] # <<>> \/ resync[c].todo # {} \/ resync[c].ev # <<>>
    \/ \E s \in Subs : \E e \in ToSet(chan[s]) \cup ToSet(rchan[s]) : e.call = c

Quiet == [tx |-> <<>>, todo |-> {}, ev |-> <<>>]

\* The value of a key with an item but no content (a deletion in a resync).
Empty == 99

Init ==
    /\ subscriptions = {} /\ prefixes = Wanted /\ lock = Nobody
    /\ lastRev = [k \in Keys |-> 0]
    /\ place = [c \in Calls |-> "idle"] /\ result = [c \in Calls |-> "nil"]
    /\ fire = [c \in Calls |-> <<>>] /\ partial = [c \in Calls |-> <<>>]
    /\ left = [c \in Calls |-> 0] /\ lastError = [c \in Calls |-> FALSE]
    /\ chan = [s \in Subs |-> <<>>]
    /\ resync = [c \in Calls |-> Quiet] /\ rchan = [s \in Subs |-> <<>>]
    /\ told = [k \in Keys |-> 0] /\ dropped = {}
    /\ view = [s \in Subs |-> [k \in Keys |-> 0]]
    /\ failures = {} /\ overlap = FALSE /\ late = {}

----------------------------------------------------------------------------
(* Registration. *)

\* WatchDataBase; a name that is watched already is refused.  An application
\* that watches again passes the same channel.
Watch(s) ==
    /\ lock = Nobody /\ s \notin subscriptions
    /\ subscriptions' = subscriptions \cup {s}
    /\ prefixes' = [prefixes EXCEPT ![s] = Wanted[s]]
    /\ late' = IF \E c \in Calls : place[c] # "idle" THEN late \cup {s} ELSE late
    /\ UNCHANGED <<lock, lastRev, chan, view, failures, overlap>>
    /\ UNCHANGED callVars /\ UNCHANGED resyncVars

\* WatchDataReg.Close: the subscription is deleted; closing the channels of
\* type chan string does nothing (safeclose).
Close(s) ==
    /\ lock = Nobody /\ s \in subscriptions
    /\ subscriptions' = subscriptions \ {s}
    /\ UNCHANGED <<prefixes, lock, lastRev, chan, view, failures, overlap, late>>
    /\ UNCHANGED callVars /\ UNCHANGED resyncVars

\* WatchDataReg.Unregister: the prefix is removed, then sent to CloseChan, which
\* has no buffer and, in these transports, no reader; the lock is held.
Unregister(s, p) ==
    /\ lock = Nobody /\ s \in subscriptions /\ p \in prefixes[s]
    /\ prefixes' = [prefixes EXCEPT ![s] = @ \ {p}]
    /\ lock' = s
    /\ UNCHANGED <<subscriptions, lastRev, chan, view, failures, overlap, late>>
    /\ UNCHANGED callVars /\ UNCHANGED resyncVars

----------------------------------------------------------------------------
(* PropagateChanges. *)

Watched(s) == UNION {Matches[p] : p \in prefixes[s]}

\* What the three nested loops come across for transaction tx.
Hits(tx) == {h \in subscriptions \X KeyPrefixes \X DOMAIN tx : h[2] \in prefixes[h[1]] /\ h[3] \in Matches[h[2]]}

\* An order of the loops: one subscription after the other, one of its prefixes
\* after the other, then the keys.  Maps give the order of subscriptions and keys,
\* the application that of its prefixes; any of them is possible here.
LoopOrder(q) ==
    \A i, j \in DOMAIN q : i < j =>
        \A l \in i..j : /\ q[i][1] = q[j][1] => q[l][1] = q[i][1]
                        /\ (q[i][1] = q[j][1] /\ q[i][2] = q[j][2]) => q[l][2] = q[i][2]

\* The event of hit i: the first one of a key finds the value before the
\* transaction, the next ones find the transaction's own.
ChangeEvent(c, tx, q, i) ==
    LET k == q[i][3] IN
    [sub |-> q[i][1], key |-> k, val |-> tx[k], call |-> c,
     prev |-> IF \E j \in 1..(i - 1) : q[j][3] = k THEN tx[k] ELSE lastRev[k]]

\* Mutant: only a key that is found is updated.
revisionsFound(tx) ==
    [k \in Keys |-> IF lastRev[k] # 0 /\ \E h \in Hits(tx) : h[3] = k THEN tx[k] ELSE lastRev[k]]

\* PrevRevisions.Put and Del, for the keys somebody watches.
revisions(tx) == [k \in Keys |-> IF \E h \in Hits(tx) : h[3] = k THEN tx[k] ELSE lastRev[k]]

PropagateChanges(c, tx) ==
    /\ place[c] = "idle"
    /\ place' = [place EXCEPT ![c] = "wait"]
    /\ \E q \in SetToSeqs(Hits(tx)) :
         /\ LoopOrder(q)
         /\ fire' = [fire EXCEPT ![c] = [i \in DOMAIN q |-> ChangeEvent(c, tx, q, i)]]
    /\ left' = [left EXCEPT ![c] = Cardinality(Hits(tx))]
    /\ lastRev' = revisions(tx)
    /\ told' = [k \in Keys |-> IF k \in DOMAIN tx /\ \E s \in subscriptions : k \in Watched(s)
                              THEN tx[k] ELSE told[k]]
    /\ overlap' = (overlap \/ \E d \in Calls : UnderWay(d))
    /\ UNCHANGED <<result, partial, lastError, chan, view, failures, late, resync, rchan, dropped>>
    /\ UNCHANGED subsVars

\* Mutant: the goroutine gives up once the caller has returned.
FireWhileAwaited(c) ==
    /\ fire[c] # <<>> /\ place[c] = "wait"
    /\ LET e == Head(fire[c]) IN
         /\ Len(chan[e.sub]) < Cap
         /\ chan' = [chan EXCEPT ![e.sub] = Append(@, e)]
    /\ fire' = [fire EXCEPT ![c] = Tail(@)]
    /\ UNCHANGED <<lastRev, place, result, partial, left, lastError, view, failures, overlap, late>>
    /\ UNCHANGED subsVars /\ UNCHANGED resyncVars

\* AggregateDone: sub.ChangeChan <- event.
Fire(c) ==
    /\ fire[c] # <<>>
    /\ LET e == Head(fire[c]) IN
         /\ Len(chan[e.sub]) < Cap
         /\ chan' = [chan EXCEPT ![e.sub] = Append(@, e)]
    /\ fire' = [fire EXCEPT ![c] = Tail(@)]
    /\ UNCHANGED <<lastRev, place, result, partial, left, lastError, view, failures, overlap, late>>
    /\ UNCHANGED subsVars /\ UNCHANGED resyncVars

\* Mutant: the collector remembers the last answer, not the last error.
collectLast(was, err) == err

\* lastError of collectDoneEvents after one more confirmation.
collectError(was, err) == was \/ err

\* collectDoneEvents: one confirmation.
Collect(c) ==
    /\ partial[c] # <<>> /\ left[c] > 0
    /\ lastError' = [lastError EXCEPT ![c] = collectError(@, Head(partial[c]))]
    /\ partial' = [partial EXCEPT ![c] = Tail(@)]
    /\ left' = [left EXCEPT ![c] = @ - 1]
    /\ UNCHANGED <<lastRev, place, result, fire, chan, view, failures, overlap, late>>
    /\ UNCHANGED subsVars /\ UNCHANGED resyncVars

\* The last one has been collected: done <- lastError.
CallDone(c) ==
    /\ place[c] = "wait" /\ left[c] = 0
    /\ place' = [place EXCEPT ![c] = "returned"]
    /\ result' = [result EXCEPT ![c] = IF lastError[c] THEN "error" ELSE "nil"]
    /\ UNCHANGED <<lastRev, fire, partial, left, lastError, chan, view, failures, overlap, late>>
    /\ UNCHANGED subsVars /\ UNCHANGED resyncVars

\* Mutant: the caller waits without a timer.
NoTimeout(c) == FALSE

\* Five seconds: the call returns nil, its goroutines go on.
CallTimeout(c) ==
    /\ place[c] = "wait"
    /\ place' = [place EXCEPT ![c] = "returned"]
    /\ result' = [result EXCEPT ![c] = "timeout"]
    /\ UNCHANGED <<lastRev, fire, partial, left, lastError, chan, view, failures, overlap, late>>
    /\ UNCHANGED subsVars /\ UNCHANGED resyncVars

\* DoneChannel.Done on partialDone: a confirmation without room is lost.
Done(q, err) == IF Len(q) < DoneCap THEN Append(q, err) ELSE q

\* An application handles an event and calls Done(err).
AppHandles(s, err) ==
    /\ chan[s] # <<>> /\ Head(chan[s]).call \in Calls
    /\ LET e == Head(chan[s]) IN
         /\ view' = [view EXCEPT ![s][e.key] = e.val]
         /\ partial' = [partial EXCEPT ![e.call] = Done(@, err)]
         /\ failures' = IF err THEN failures \cup {e.call} ELSE failures
    /\ chan' = [chan EXCEPT ![s] = Tail(@)]
    /\ UNCHANGED <<lastRev, place, result, fire, left, lastError, overlap, late>>
    /\ UNCHANGED subsVars /\ UNCHANGED resyncVars

----------------------------------------------------------------------------
(* PropagateResync. *)

\* What the iterators of the event hold for each watched key: an item that
\* deletes is passed on as a key without content, and a key that is not among
\* the data is absent (0).
resyncValue(tx, k) == IF k \notin DOMAIN tx THEN 0 ELSE IF tx[k] = 0 THEN Empty ELSE tx[k]

\* ResyncEventDB: the iterators of the subscription's prefixes.
resyncEvent(c, s, tx) == [sub |-> s, call |-> c, vals |-> [k \in Watched(s) |-> resyncValue(tx, k)]]

PropagateResync(c, tx) ==
    /\ place[c] = "idle"
    /\ place' = [place EXCEPT ![c] = "resync"]
    /\ resync' = [resync EXCEPT ![c] = [tx |-> tx, todo |-> subscriptions, ev |-> <<>>]]
    /\ overlap' = (overlap \/ \E d \in Calls : UnderWay(d))
    /\ UNCHANGED <<lastRev, result, fire, partial, left, lastError, rchan, told, dropped, chan, view,
                   failures, late>>
    /\ UNCHANGED subsVars

\* The next subscription of the loop: PutWithRevision for every key it watches,
\* then the event.  Values the data does not name stay in the revisions.
ResyncNext(c, s) ==
    /\ place[c] = "resync" /\ s \in resync[c].todo /\ resync[c].ev = <<>>
    /\ LET tx == resync[c].tx
           mine == IF s \in subscriptions THEN Watched(s) ELSE {}
       IN /\ lastRev' = [k \in Keys |-> IF k \in mine \cap DOMAIN tx THEN resyncValue(tx, k) ELSE lastRev[k]]
          /\ told' = [k \in Keys |-> IF k \in mine THEN resyncValue(tx, k) ELSE told[k]]
          /\ dropped' = dropped \cup {k \in mine \ DOMAIN tx : lastRev[k] # 0}
          /\ resync' = [resync EXCEPT ![c] = [tx |-> tx, todo |-> resync[c].todo \ {s},
                                      ev |-> IF s \notin subscriptions THEN <<>> ELSE <<resyncEvent(c, s, tx)>>]]
    /\ UNCHANGED <<place, result, fire, partial, left, lastError, rchan, chan, view, failures, overlap, late>>
    /\ UNCHANGED subsVars

\* sub.ResyncChan <- resyncEv: without a timer.
ResyncSend(c) ==
    /\ resync[c].ev # <<>>
    /\ LET e == Head(resync[c].ev) IN
         /\ Len(rchan[e.sub]) < Cap
         /\ rchan' = [rchan EXCEPT ![e.sub] = Append(@, e)]
    /\ resync' = [resync EXCEPT ![c] = [@ EXCEPT !.ev = <<>>]]
    /\ UNCHANGED <<lastRev, told, dropped, chan, view, failures, overlap, late>>
    /\ UNCHANGED callVars /\ UNCHANGED subsVars

ResyncDone(c) ==
    /\ place[c] = "resync" /\ resync[c].todo = {} /\ resync[c].ev = <<>>
    /\ place' = [place EXCEPT ![c] = "returned"]
    /\ result' = [result EXCEPT ![c] = "sent"]
    /\ resync' = [resync EXCEPT ![c] = Quiet]
    /\ UNCHANGED <<fire, partial, left, lastError, lastRev, rchan, told, dropped, chan, view,
                   failures, overlap, late>>
    /\ UNCHANGED subsVars

\* An application takes over the values of a resync event: it reads the
\* iterators to their ends.  Nobody listens to the event's Done.
AppResyncs(s) ==
    /\ rchan[s] # <<>>
    /\ LET vals == Head(rchan[s]).vals IN
         view' = [view EXCEPT ![s] = [k \in Keys |-> IF k \in DOMAIN vals THEN vals[k] ELSE @[k]]]
    /\ rchan' = [rchan EXCEPT ![s] = Tail(@)]
    /\ UNCHANGED <<lastRev, resync, told, dropped, chan, failures, overlap, late>>
    /\ UNCHANGED callVars /\ UNCHANGED subsVars

----------------------------------------------------------------------------
CallStep(c) == Fire(c) \/ Collect(c) \/ ResyncSend(c) \/ \E s \in Subs : ResyncNext(c, s)
CallReturns(c) == CallDone(c) \/ CallTimeout(c) \/ ResyncDone(c)
AppStep(s) == AppResyncs(s) \/ \E err \in BOOLEAN : AppHandles(s, err)

----------------------------------------------------------------------------
(* Properties. *)

\* The shapes of the state; neither kind of channel exceeds its buffer, and a
\* collector never ends before the confirmations that are still to come.
TypeOK ==
    /\ late \subseteq Subs /\ subscriptions \subseteq Subs /\ prefixes \in [Subs -> SUBSET KeyPrefixes]
    /\ lock \in Subs \cup {Nobody} /\ lastRev \in [Keys -> Nat]
    /\ place \in [Calls -> {"idle", "wait", "resync", "returned"}]
    /\ told \in [Keys -> Nat] /\ dropped \subseteq Keys
    /\ result \in [Calls -> {"nil", "error", "timeout", "sent"}]
    /\ \A s \in Subs : Len(chan[s]) <= Cap /\ Len(rchan[s]) <= Cap
    /\ \A c \in Calls : Len(partial[c]) <= DoneCap /\ left[c] >= Len(fire[c]) + Len(partial[c])

\* A call that is answered by its collector, not by its timer, returns nil only
\* when every event has been handled without an error, and an error only when
\* one was reported.  (After the timer it returns nil too: callers cannot tell.)
AnswerIsTrue ==
    \A c \in Calls : place[c] = "returned" =>
        /\ result[c] = "nil" => c \notin failures /\ ~UnderWay(c)
        /\ result[c] = "error" => c \in failures /\ ~UnderWay(c)

\* Without overlapping calls, an application that has handled all events and has
\* watched from the start knows of every key it still watches what the callers
\* last said.  (Calls overlap after a timeout too: then the older value may come last.)
ViewsFollow ==
    (~overlap /\ \A c \in Calls : ~UnderWay(c)) =>
        \A s \in subscriptions \ late : \A k \in Watched(s) : view[s][k] = told[k]

\* Without overlapping calls, the previous value of the next change event is the
\* value the application has, if nobody else has watched the key and no resync has
\* left it out.  (Otherwise the registry's last values are not this application's: in
\* the loops another subscription may come first, also one whose prefix is gone
\* when the event is read.)
PrevIsKnown ==
    ~overlap =>
        \A s \in subscriptions \ late :
            (chan[s] # <<>> /\ rchan[s] = <<>> /\ Head(chan[s]).call \in Calls) =>
                LET e == Head(chan[s]) IN
                (e.key \notin dropped /\ Cardinality({p \in KeyPrefixes : e.key \in Matches[p]}) = 1
                 /\ \A t \in Subs \ {s} : \A p \in Wanted[t] : e.key \notin Matches[p]) => e.prev = view[s][e.key]
=============================================================================
