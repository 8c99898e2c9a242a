---------------------------- MODULE KvdbSyncProofs ----------------------------
(***************************************************************************)
(* The start-up resync and the changes, for any subscriptions and keys,    *)
(* any capacity of the change channels and any number of writes:           *)
(* subscriptions are resynced one at a time, nothing falls between a       *)
(* subscription's snapshot and its changes, and the changes of a key       *)
(* reach the application in order, each with the one before it as its      *)
(* previous value.                                                         *)
(***************************************************************************)
EXTENDS KvdbSync, FiniteSetTheorems, SequenceTheorems, TLAPS

Vals == 0..MaxRev
Events == [key : Keys, val : Vals]
Changes == [key : Keys, val : Vals, prev : Vals]
Snaps == UNION {[D -> Vals] : D \in SUBSET Keys}

\* The state, each variable by itself.
Types ==
    /\ db \in [Keys -> Vals] /\ rev \in 1..MaxRev /\ lastRev \in [Keys -> Vals]
    /\ events \in [Subs -> Seq(Events)] /\ pending \in [Subs -> Seq(Changes)] /\ changeChan \in [Subs -> Seq(Changes)]
    /\ subscribed \in Seq(Subs) /\ regOrder \in Seq(Subs) /\ SeqOf(regOrder) \subseteq SeqOf(subscribed)
    /\ registrations \subseteq SeqOf(regOrder)
    /\ kv \in {"off", "loop", "done", "failed"} /\ orch \in {"off", "loop", "waitAck", "finished"}
    /\ oi \in 0..(Len(regOrder) + 1) /\ worker \in [Subs -> Places]
    /\ snap \in [Subs -> Snaps] /\ resyncChan \in [Subs -> Seq(Snaps)] /\ doneChan \in [Subs -> BOOLEAN]
    /\ app \in [Subs -> {"idle", "resync"}] /\ view \in [Subs -> Snaps]
    /\ sync \in [Subs -> {"none", "applied", "overtaken"}] /\ timedOut \in BOOLEAN

\* Subscription s is told only of its keys, and its snapshots hold all of them.
Own(s) ==
    /\ \A n \in DOMAIN events[s] : events[s][n].key \in Watched[s]
    /\ \A n \in DOMAIN pending[s] : pending[s][n].key \in Watched[s]
    /\ \A n \in DOMAIN changeChan[s] : changeChan[s][n].key \in Watched[s]
    /\ worker[s] = "send" => snap[s] \in [Watched[s] -> Vals]
    /\ \A n \in DOMAIN resyncChan[s] : resyncChan[s][n] \in [Watched[s] -> Vals]
    /\ view[s] \in [Watched[s] -> Vals]
    /\ Len(pending[s]) <= 1 /\ Len(resyncChan[s]) <= 1 /\ Len(changeChan[s]) <= Cap

----------------------------------------------------------------------------
(* Turns. *)

\* Nothing of a resync is under way for s: it has not had its turn, or is through.
Idle(s) == worker[s] = "idle" /\ app[s] = "idle" /\ resyncChan[s] = <<>> /\ ~doneChan[s]

\* It is the turn of s, and no timer has fired: once the snapshot is sent, it is in the
\* channel, with the application, or confirmed.
Turn(s) ==
    \/ worker[s] \in {"list", "send", "ack"} /\ app[s] = "idle" /\ resyncChan[s] = <<>> /\ ~doneChan[s]
    \/ /\ worker[s] = "waitDone"
       /\ \/ resyncChan[s] # <<>> /\ app[s] = "idle" /\ ~doneChan[s]
          \/ resyncChan[s] = <<>> /\ app[s] = "resync" /\ ~doneChan[s]
          \/ resyncChan[s] = <<>> /\ app[s] = "idle" /\ doneChan[s]

\* Subscriptions that are not registered.
Unregistered(s) ==
    /\ worker[s] = "off" <=> s \notin SeqOf(regOrder)
    /\ worker[s] = "off" => app[s] = "idle" /\ resyncChan[s] = <<>> /\ ~doneChan[s]

\* The turns of the registrations, by their places in regOrder.
Turns ==
    /\ \A i, j \in DOMAIN regOrder : regOrder[i] = regOrder[j] => i = j
    /\ orch = "off" <=> oi = 0
    /\ orch = "waitAck" => oi \in DOMAIN regOrder /\ (~timedOut => Turn(regOrder[oi]))
    /\ \A i \in DOMAIN regOrder :
          Idle(regOrder[i]) \/ (i = oi /\ orch = "waitAck") \/ (i < oi /\ timedOut)

TurnInv == Turns /\ \A s \in Subs : Unregistered(s)

----------------------------------------------------------------------------
(* Changes and snapshots. *)

Occurs(q, k) == \E n \in DOMAIN q : q[n].key = k

\* The last entry of q for key k has value v.
LastIs(q, k, v) ==
    \A n \in DOMAIN q : q[n].key = k /\ (\A m \in DOMAIN q : m > n => q[m].key # k) => q[n].val = v

\* No change of k is on its way, from the store (ev) over the goroutine (pe) to the channel (ch).
NoneOf(ch, pe, ev, k) == ~Occurs(ch, k) /\ ~Occurs(pe, k) /\ ~Occurs(ev, k)

\* The last change of k on its way has value v.
LastOf(ch, pe, ev, k, v) ==
    /\ LastIs(ev, k, v)
    /\ ~Occurs(ev, k) => LastIs(pe, k, v)
    /\ ~Occurs(ev, k) /\ ~Occurs(pe, k) => LastIs(ch, k, v)

None(s, k) == NoneOf(changeChan[s], pending[s], events[s], k)

\* What a subscription with a watch holds, or is about to be sent, is what the store
\* holds, but for the changes that are on their way.
Fed(s, k) ==
    /\ LastOf(changeChan[s], pending[s], events[s], k, db[k])
    /\ None(s, k) /\ sync[s] = "applied" => view[s][k] = db[k]
    /\ None(s, k) /\ sync[s] # "overtaken" /\ worker[s] = "send" => snap[s][k] = db[k]
    /\ None(s, k) /\ sync[s] # "overtaken" => \A n \in DOMAIN resyncChan[s] : resyncChan[s][n][k] = db[k]

\* Before its registration nothing is sent to s.
Silent(s) == events[s] = <<>> /\ pending[s] = <<>> /\ changeChan[s] = <<>> /\ resyncChan[s] = <<>> /\ sync[s] = "none"

FedInv(s) ==
    /\ worker[s] = "off" => Silent(s)
    /\ s \in Watching => \A k \in Watched[s] : Fed(s, k)

\* The inductive invariant.
Inv == Types /\ TurnInv /\ \A s \in Subs : Own(s) /\ FedInv(s)

----------------------------------------------------------------------------
(* Sequences. *)

\* An entry is added at the end of a sequence.
LEMMA AtEnd ==
    ASSUME NEW S, NEW q \in Seq(S), NEW e \in S
    PROVE  /\ Append(q, e) \in Seq(S) /\ Len(q) \in Nat /\ Len(Append(q, e)) = Len(q) + 1
           /\ DOMAIN q = 1..Len(q) /\ DOMAIN Append(q, e) = 1..(Len(q) + 1)
           /\ Append(q, e)[Len(q) + 1] = e /\ \A n \in 1..Len(q) : Append(q, e)[n] = q[n]
BY AppendProperties, LenProperties

\* The first entry of a sequence and the rest.
LEMMA AtFront ==
    ASSUME NEW S, NEW q \in Seq(S), q # <<>>
    PROVE  /\ Len(q) \in Nat \ {0} /\ DOMAIN q = 1..Len(q) /\ 1 \in DOMAIN q
           /\ Head(q) = q[1] /\ q[1] \in S
           /\ Tail(q) \in Seq(S) /\ Len(Tail(q)) = Len(q) - 1 /\ DOMAIN Tail(q) = 1..(Len(q) - 1)
           /\ \A n \in 1..(Len(q) - 1) : Tail(q)[n] = q[n + 1] /\ n + 1 \in DOMAIN q
<1>1. Len(q) \in Nat \ {0} /\ DOMAIN q = 1..Len(q)
  BY EmptySeq, LenProperties
<1>2. Head(q) \in S /\ Tail(q) \in Seq(S) /\ Len(Tail(q)) = Len(q) - 1
      /\ \A n \in 1..Len(Tail(q)) : Tail(q)[n] = q[n + 1]
  BY HeadTailProperties
<1>3. DOMAIN Tail(q) = 1..(Len(q) - 1)
  BY <1>2, LenProperties
<1>4. Head(q) = q[1]
  OBVIOUS
<1> QED BY <1>1, <1>2, <1>3, <1>4

\* The last entry for a key after one is added.
LEMMA LastAtEnd ==
    ASSUME NEW S, NEW q \in Seq(S), NEW e \in S, NEW k, NEW v
    PROVE  /\ Occurs(Append(q, e), k) <=> Occurs(q, k) \/ e.key = k
           /\ e.key = k /\ e.val = v => LastIs(Append(q, e), k, v)
           /\ e.key # k /\ LastIs(q, k, v) => LastIs(Append(q, e), k, v)
<1> DEFINE r == Append(q, e)
<1>1. /\ Len(q) \in Nat /\ DOMAIN q = 1..Len(q) /\ DOMAIN r = 1..(Len(q) + 1)
      /\ r[Len(q) + 1] = e /\ \A n \in 1..Len(q) : r[n] = q[n]
  BY AtEnd
<1> HIDE DEF r
<1>2. PICK N \in Nat : N = Len(q)
  BY <1>1
<1>3. Occurs(r, k) <=> Occurs(q, k) \/ e.key = k
  BY <1>1, <1>2 DEF Occurs
<1>4. ASSUME e.key = k, e.val = v PROVE LastIs(r, k, v)
  <2> SUFFICES ASSUME NEW n \in DOMAIN r, r[n].key = k, \A m \in DOMAIN r : m > n => r[m].key # k
               PROVE  r[n].val = v
    BY DEF LastIs
  <2>1. N + 1 \in DOMAIN r /\ ~(N + 1 > n)
    BY <1>1, <1>2, <1>4
  <2>2. n = N + 1
    BY <1>1, <1>2, <2>1
  <2> QED BY <1>1, <1>2, <1>4, <2>2
<1>5. ASSUME e.key # k, LastIs(q, k, v) PROVE LastIs(r, k, v)
  <2> SUFFICES ASSUME NEW n \in DOMAIN r, r[n].key = k, \A m \in DOMAIN r : m > n => r[m].key # k
               PROVE  r[n].val = v
    BY DEF LastIs
  <2>1. n # N + 1
    BY <1>1, <1>2, <1>5
  <2>2. n \in DOMAIN q /\ r[n] = q[n]
    BY <1>1, <1>2, <2>1
  <2>3. \A m \in DOMAIN q : m \in DOMAIN r /\ r[m] = q[m]
    BY <1>1, <1>2
  <2> QED BY <1>5, <2>2, <2>3 DEF LastIs
<1> QED BY <1>3, <1>4, <1>5 DEF r

\* The last entry for a key after the first one of the sequence is taken.
LEMMA LastAtFront ==
    ASSUME NEW S, NEW q \in Seq(S), q # <<>>, NEW k, NEW v
    PROVE  /\ Occurs(q, k) <=> Occurs(Tail(q), k) \/ Head(q).key = k
           /\ LastIs(q, k, v) => LastIs(Tail(q), k, v)
           /\ LastIs(q, k, v) /\ ~Occurs(Tail(q), k) /\ Head(q).key = k => Head(q).val = v
<1> DEFINE r == Tail(q)
<1>1. /\ Len(q) \in Nat \ {0} /\ DOMAIN q = 1..Len(q) /\ Head(q) = q[1] /\ DOMAIN r = 1..(Len(q) - 1)
      /\ \A n \in 1..(Len(q) - 1) : r[n] = q[n + 1]
  BY AtFront
<1> HIDE DEF r
<1>2. PICK N \in Nat : N + 1 = Len(q) /\ N = Len(q) - 1
  <2>1. Len(q) - 1 \in Nat /\ (Len(q) - 1) + 1 = Len(q)
    BY <1>1
  <2> QED BY <2>1
<1>3. DOMAIN q = 1..(N + 1) /\ DOMAIN r = 1..N /\ \A n \in 1..N : r[n] = q[n + 1]
  BY <1>1, <1>2
<1>4. \A m \in DOMAIN q : m = 1 \/ (m - 1 \in DOMAIN r /\ r[m - 1] = q[m])
  BY <1>3
<1>5. \A n \in DOMAIN r : n + 1 \in DOMAIN q /\ r[n] = q[n + 1]
  BY <1>3
<1>6. Occurs(q, k) <=> Occurs(r, k) \/ Head(q).key = k
  <2>1. 1 \in DOMAIN q
    BY <1>3
  <2> QED BY <1>1, <1>4, <1>5, <2>1 DEF Occurs
<1>7. ASSUME LastIs(q, k, v) PROVE LastIs(r, k, v)
  <2> SUFFICES ASSUME NEW n \in DOMAIN r, r[n].key = k, \A m \in DOMAIN r : m > n => r[m].key # k
               PROVE  r[n].val = v
    BY DEF LastIs
  <2>1. ASSUME NEW m \in DOMAIN q, m > n + 1 PROVE q[m].key # k
    <3>1. m - 1 \in DOMAIN r /\ m - 1 > n /\ r[m - 1] = q[m]
      BY <1>3, <1>4, <2>1
    <3> QED BY <3>1
  <2>2. n + 1 \in DOMAIN q /\ q[n + 1].key = k
    BY <1>5
  <2>3. q[n + 1].val = v
    BY <1>7, <2>1, <2>2 DEF LastIs
  <2> QED BY <1>5, <2>3
<1>8. ASSUME LastIs(q, k, v), ~Occurs(r, k), Head(q).key = k PROVE Head(q).val = v
  <2>1. 1 \in DOMAIN q /\ q[1].key = k
    BY <1>1, <1>3, <1>8
  <2>2. ASSUME NEW m \in DOMAIN q, m > 1 PROVE q[m].key # k
    <3>1. m - 1 \in DOMAIN r /\ r[m - 1] = q[m]
      BY <1>3, <1>4, <2>2
    <3> QED BY <1>8, <3>1 DEF Occurs
  <2> QED BY <1>1, <1>8, <2>1, <2>2 DEF LastIs
<1> QED BY <1>6, <1>7, <1>8 DEF r

\* No change, and one change, in the goroutine's hands.
LEMMA LastOfOne ==
    ASSUME NEW c, NEW k, NEW v
    PROVE  /\ ~Occurs(<<>>, k) /\ LastIs(<<>>, k, v)
           /\ Occurs(<<c>>, k) <=> c.key = k
           /\ LastIs(<<c>>, k, v) <=> (c.key = k => c.val = v)
BY DEF Occurs, LastIs

----------------------------------------------------------------------------
(* The way of a change: store, goroutine, channel, application. *)

\* A write of key j: for j it is the last change, for the other keys nothing changes.
LEMMA WayWrite ==
    ASSUME NEW ch, NEW pe, NEW ev \in Seq(Events), NEW e \in Events, NEW k, NEW v
    PROVE  /\ e.key = k /\ e.val = v => LastOf(ch, pe, Append(ev, e), k, v)
           /\ e.key = k => ~NoneOf(ch, pe, Append(ev, e), k)
           /\ e.key # k /\ LastOf(ch, pe, ev, k, v) => LastOf(ch, pe, Append(ev, e), k, v)
           /\ e.key # k => (NoneOf(ch, pe, Append(ev, e), k) <=> NoneOf(ch, pe, ev, k))
<1>1. /\ Occurs(Append(ev, e), k) <=> Occurs(ev, k) \/ e.key = k
      /\ e.key = k /\ e.val = v => LastIs(Append(ev, e), k, v)
      /\ e.key # k /\ LastIs(ev, k, v) => LastIs(Append(ev, e), k, v)
  BY LastAtEnd
<1> QED BY <1>1 DEF LastOf, NoneOf

\* The goroutine takes the next event of the store.
LEMMA WayTaken ==
    ASSUME NEW ch, NEW ev \in Seq(Events), ev # <<>>, NEW c, c.key = Head(ev).key, c.val = Head(ev).val,
           NEW k, NEW v, LastOf(ch, <<>>, ev, k, v)
    PROVE  /\ LastOf(ch, <<c>>, Tail(ev), k, v)
           /\ NoneOf(ch, <<c>>, Tail(ev), k) <=> NoneOf(ch, <<>>, ev, k)
<1>1. /\ Occurs(ev, k) <=> Occurs(Tail(ev), k) \/ Head(ev).key = k
      /\ LastIs(ev, k, v) => LastIs(Tail(ev), k, v)
      /\ LastIs(ev, k, v) /\ ~Occurs(Tail(ev), k) /\ Head(ev).key = k => Head(ev).val = v
  BY LastAtFront
<1>2. /\ ~Occurs(<<>>, k) /\ LastIs(<<>>, k, v)
      /\ Occurs(<<c>>, k) <=> c.key = k
      /\ LastIs(<<c>>, k, v) <=> (c.key = k => c.val = v)
  BY LastOfOne
<1> QED BY <1>1, <1>2 DEF LastOf, NoneOf

\* It sends the change.
LEMMA WaySent ==
    ASSUME NEW ch \in Seq(Changes), NEW c \in Changes, NEW ev, NEW k, NEW v, LastOf(ch, <<c>>, ev, k, v)
    PROVE  /\ LastOf(Append(ch, c), <<>>, ev, k, v)
           /\ NoneOf(Append(ch, c), <<>>, ev, k) <=> NoneOf(ch, <<c>>, ev, k)
<1>1. /\ Occurs(Append(ch, c), k) <=> Occurs(ch, k) \/ c.key = k
      /\ c.key = k /\ c.val = v => LastIs(Append(ch, c), k, v)
      /\ c.key # k /\ LastIs(ch, k, v) => LastIs(Append(ch, c), k, v)
  BY LastAtEnd
<1>2. /\ ~Occurs(<<>>, k) /\ LastIs(<<>>, k, v)
      /\ Occurs(<<c>>, k) <=> c.key = k
      /\ LastIs(<<c>>, k, v) <=> (c.key = k => c.val = v)
  BY LastOfOne
<1> QED BY <1>1, <1>2 DEF LastOf, NoneOf

\* The application handles it.
LEMMA WayHandled ==
    ASSUME NEW ch \in Seq(Changes), ch # <<>>, NEW pe, NEW ev, NEW k, NEW v, LastOf(ch, pe, ev, k, v)
    PROVE  /\ LastOf(Tail(ch), pe, ev, k, v)
           /\ NoneOf(Tail(ch), pe, ev, k) /\ Head(ch).key = k => Head(ch).val = v
           /\ NoneOf(Tail(ch), pe, ev, k) /\ Head(ch).key # k => NoneOf(ch, pe, ev, k)
<1>1. /\ Occurs(ch, k) <=> Occurs(Tail(ch), k) \/ Head(ch).key = k
      /\ LastIs(ch, k, v) => LastIs(Tail(ch), k, v)
      /\ LastIs(ch, k, v) /\ ~Occurs(Tail(ch), k) /\ Head(ch).key = k => Head(ch).val = v
  BY LastAtFront
<1> QED BY <1>1 DEF LastOf, NoneOf

----------------------------------------------------------------------------
\* The initial state: nothing is registered, nothing is on its way.
LEMMA InitInv == Init => Inv
<1> SUFFICES ASSUME Init PROVE Inv
  OBVIOUS
<1>1. /\ regOrder = <<>> /\ subscribed = <<>> /\ oi = 0 /\ orch = "off" /\ kv = "off" /\ registrations = {}
      /\ \A s \in Subs : /\ events[s] = <<>> /\ pending[s] = <<>> /\ changeChan[s] = <<>> /\ resyncChan[s] = <<>>
                         /\ worker[s] = "off" /\ app[s] = "idle" /\ doneChan[s] = FALSE /\ sync[s] = "none"
  BY DEF Init
<1>2. Types
  <2>1. db \in [Keys -> Vals] /\ rev \in 1..MaxRev /\ lastRev \in [Keys -> Vals]
    BY BoundAssumption DEF Init, Vals
  <2>2. NoSnap \in Snaps
    <3>1. NoSnap \in [{} -> Vals]
      BY DEF NoSnap
    <3> QED BY <3>1 DEF Snaps
  <2>3. \A s \in Subs : [k \in Watched[s] |-> 0] \in Snaps
    <3>1. \A s \in Subs : [k \in Watched[s] |-> 0] \in [Watched[s] -> Vals] /\ Watched[s] \in SUBSET Keys
      BY SubsAssumption, BoundAssumption DEF Vals
    <3> QED BY <3>1 DEF Snaps
  <2>4. /\ events \in [Subs -> Seq(Events)] /\ pending \in [Subs -> Seq(Changes)]
        /\ changeChan \in [Subs -> Seq(Changes)] /\ resyncChan \in [Subs -> Seq(Snaps)]
    BY DEF Init
  <2>5. /\ snap \in [Subs -> Snaps] /\ view \in [Subs -> Snaps] /\ doneChan \in [Subs -> BOOLEAN]
        /\ worker \in [Subs -> Places] /\ app \in [Subs -> {"idle", "resync"}]
        /\ sync \in [Subs -> {"none", "applied", "overtaken"}] /\ timedOut \in BOOLEAN
    BY <2>2, <2>3 DEF Init, Places
  <2>6. /\ subscribed \in Seq(Subs) /\ regOrder \in Seq(Subs) /\ SeqOf(regOrder) \subseteq SeqOf(subscribed)
        /\ oi \in 0..(Len(regOrder) + 1)
    BY <1>1 DEF SeqOf
  <2> QED BY <1>1, <2>1, <2>4, <2>5, <2>6 DEF Types
<1>3. ASSUME NEW s \in Subs PROVE Own(s) /\ Unregistered(s)
  <2>1. view[s] \in [Watched[s] -> Vals]
    BY SubsAssumption, BoundAssumption DEF Init, Vals
  <2>2. Own(s)
    BY <1>1, <2>1, BoundAssumption DEF Own
  <2>3. Unregistered(s)
    BY <1>1 DEF Unregistered, SeqOf
  <2> QED BY <2>2, <2>3
<1>4. Turns
  BY <1>1 DEF Turns
<1>5. \A s \in Subs : FedInv(s)
  BY <1>1 DEF FedInv, Silent, Watching
<1> QED BY <1>2, <1>3, <1>4, <1>5 DEF Inv, TurnInv

----------------------------------------------------------------------------
(* What a step leaves alone. *)

\* Nothing on the way to subscription t or held by it changes, but for its goroutine's place.
Kept(t) ==
    /\ db' = db /\ events'[t] = events[t] /\ pending'[t] = pending[t] /\ changeChan'[t] = changeChan[t]
    /\ resyncChan'[t] = resyncChan[t] /\ view'[t] = view[t] /\ sync'[t] = sync[t]
    /\ \/ worker'[t] = worker[t] /\ snap'[t] = snap[t]
       \/ worker'[t] \notin {"off", "send"}
    /\ t \in Watching' => t \in Watching

\* Then what holds of it still holds.
LEMMA KeptInv ==
    ASSUME NEW t \in Subs, Own(t), FedInv(t), Kept(t)
    PROVE  Own(t)' /\ FedInv(t)'
<1>1. Own(t)'
  BY DEF Kept, Own
<1>2. (worker[t] = "off" => Silent(t))'
  BY DEF Kept, FedInv, Silent
<1>3. ASSUME NEW k \in Watched[t], t \in Watching' PROVE Fed(t, k)'
  <2>1. Fed(t, k)
    BY <1>3 DEF Kept, FedInv
  <2> QED BY <2>1 DEF Kept, Fed, None
<1> QED BY <1>1, <1>2, <1>3 DEF FedInv

\* The turns stay as they are.
TurnKept == UNCHANGED <<worker, app, resyncChan, doneChan, regOrder, orch, oi, timedOut>>

\* Then so does the invariant about them.
LEMMA TurnKeptInv ==
    ASSUME TurnInv, TurnKept
    PROVE  TurnInv'
BY DEF TurnKept, TurnInv, Turns, Turn, Idle, Unregistered

\* The subscriptions with a watch stay the same.
LEMMA WatchingKept ==
    ASSUME UNCHANGED <<kv, regOrder>>, \A t \in Subs : worker'[t] = "off" <=> worker[t] = "off"
    PROVE  Watching' = Watching
BY DEF Watching

\* A step of the resync of s, which is under way.
LocalStep(s) ==
    /\ UNCHANGED <<regOrder, orch, oi>> /\ (timedOut => timedOut')
    /\ \A t \in Subs \ {s} : /\ worker'[t] = worker[t] /\ app'[t] = app[t]
                             /\ resyncChan'[t] = resyncChan[t] /\ doneChan'[t] = doneChan[t]
    /\ worker[s] # "off" /\ worker'[s] # "off" /\ ~Idle(s)
    /\ ~timedOut' /\ Turn(s) => Turn(s)'

\* It concerns s only.
LEMMA LocalTurn ==
    ASSUME Types, TurnInv, NEW s \in Subs, LocalStep(s)
    PROVE  TurnInv'
<1>1. PICK i \in DOMAIN regOrder : regOrder[i] = s
  BY DEF TurnInv, Unregistered, LocalStep, SeqOf
<1>2. (i = oi /\ orch = "waitAck") \/ (i < oi /\ timedOut)
  BY <1>1 DEF TurnInv, Turns, LocalStep
<1>3. \A j \in DOMAIN regOrder : regOrder[j] \in Subs /\ (j # i => regOrder[j] # s)
  BY <1>1 DEF TurnInv, Turns, Types
<1>4. \A t \in Subs \ {s} : (Idle(t)' <=> Idle(t)) /\ (Turn(t)' <=> Turn(t)) /\ (Unregistered(t) => Unregistered(t)')
  BY DEF LocalStep, Idle, Turn, Unregistered
<1>5. Unregistered(s)'
  BY DEF TurnInv, Unregistered, LocalStep
<1>6. UNCHANGED <<regOrder, orch, oi>> /\ (timedOut => timedOut')
  BY DEF LocalStep
<1>7. Turns'
  <2>1. (\A j, l \in DOMAIN regOrder : regOrder[j] = regOrder[l] => j = l)'
    BY <1>6 DEF TurnInv, Turns
  <2>2. (orch = "waitAck" => oi \in DOMAIN regOrder /\ (~timedOut => Turn(regOrder[oi])))'
    <3> SUFFICES ASSUME orch = "waitAck" PROVE oi \in DOMAIN regOrder /\ (~timedOut' => Turn(regOrder[oi])')
      BY <1>6
    <3>1. oi \in DOMAIN regOrder /\ (~timedOut => Turn(regOrder[oi]))
      BY DEF TurnInv, Turns
    <3>2. CASE oi = i
      BY <1>1, <1>6, <3>1, <3>2 DEF LocalStep
    <3>3. CASE oi # i
      BY <1>3, <1>4, <1>6, <3>1, <3>3
    <3> QED BY <3>1, <3>2, <3>3
  <2>3. ASSUME NEW j \in DOMAIN regOrder
        PROVE  Idle(regOrder[j])' \/ (j = oi /\ orch = "waitAck") \/ (j < oi /\ timedOut')
    <3>1. CASE j = i
      BY <1>2, <1>6, <3>1
    <3>2. CASE j # i
      BY <1>3, <1>4, <1>6, <3>2 DEF TurnInv, Turns
    <3> QED BY <3>1, <3>2
  <2>4. (orch = "off" <=> oi = 0)'
    BY <1>6 DEF TurnInv, Turns
  <2> QED BY <1>6, <2>1, <2>2, <2>3, <2>4 DEF Turns
<1> QED BY <1>4, <1>5, <1>7 DEF TurnInv

----------------------------------------------------------------------------
(* The store and the changes. *)

\* A write: the change is announced behind all others.
LEMMA StoreWriteInv ==
    ASSUME Inv, NEW j \in Keys, NEW v \in Vals, StoreWrite(j, v)
    PROVE  Inv'
<1>1. /\ rev < MaxRev /\ rev' = rev + 1 /\ db' = [db EXCEPT ![j] = v]
      /\ events' = [t \in Subs |-> IF t \in Watching /\ j \in Watched[t] THEN Append(events[t], Event(j, v)) ELSE events[t]]
      /\ UNCHANGED <<lastRev, pending, changeChan, orchLast, subscribed, kv, regOrder>>
      /\ UNCHANGED <<registrations, orch, oi, worker, snap, resyncChan, doneChan, timedOut, app, view, seen, sync>>
  BY DEF StoreWrite, setup, resyncing, apps
<1>2. Event(j, v) \in Events /\ Event(j, v).key = j /\ Event(j, v).val = v
  BY DEF Event, Events
<1>3. Types'
  <2>1. rev' \in 1..MaxRev
    BY <1>1, BoundAssumption DEF Inv, Types
  <2>2. db' \in [Keys -> Vals]
    BY <1>1 DEF Inv, Types
  <2>3. events' \in [Subs -> Seq(Events)]
    BY <1>1, <1>2 DEF Inv, Types
  <2> QED BY <1>1, <2>1, <2>2, <2>3 DEF Inv, Types
<1>4. TurnInv'
  BY <1>1, TurnKeptInv DEF Inv, TurnKept
<1>5. Watching' = Watching
  BY <1>1, WatchingKept
<1>6. db'[j] = v /\ \A k \in Keys \ {j} : db'[k] = db[k]
  BY <1>1 DEF Inv, Types
<1>7. ASSUME NEW t \in Subs PROVE Own(t)' /\ FedInv(t)'
  <2>1. Own(t) /\ FedInv(t) /\ Watched[t] \subseteq Keys /\ events[t] \in Seq(Events)
    BY SubsAssumption DEF Inv, Types
  <2>2. CASE t \in Watching /\ j \in Watched[t]
    <3>1. events'[t] = Append(events[t], Event(j, v))
      BY <1>1, <2>2
    <3>2. \A n \in DOMAIN events'[t] : events'[t][n].key \in Watched[t]
      <4>1. /\ Len(events[t]) \in Nat /\ DOMAIN events[t] = 1..Len(events[t])
            /\ DOMAIN events'[t] = 1..(Len(events[t]) + 1)
            /\ events'[t][Len(events[t]) + 1] = Event(j, v)
            /\ \A n \in 1..Len(events[t]) : events'[t][n] = events[t][n]
        BY <1>2, <2>1, <3>1, AtEnd
      <4> QED BY <1>2, <2>1, <2>2, <4>1 DEF Own
    <3>3. Own(t)'
      BY <1>1, <2>1, <3>2 DEF Own
    <3>4. ASSUME NEW k \in Watched[t] PROVE Fed(t, k)'
      <4>1. Fed(t, k)
        BY <2>1, <2>2 DEF FedInv
      <4>2. CASE k = j
        <5>1. /\ LastOf(changeChan[t], pending[t], events'[t], k, v)
              /\ ~NoneOf(changeChan[t], pending[t], events'[t], k)
          BY <1>2, <2>1, <3>1, <4>2, WayWrite
        <5> QED BY <1>1, <1>6, <4>2, <5>1 DEF Fed, None
      <4>3. CASE k # j
        <5>1. /\ LastOf(changeChan[t], pending[t], events'[t], k, db[k])
              /\ NoneOf(changeChan[t], pending[t], events'[t], k) <=> NoneOf(changeChan[t], pending[t], events[t], k)
          BY <1>2, <2>1, <3>1, <4>1, <4>3, WayWrite DEF Fed
        <5> QED BY <1>1, <1>6, <2>1, <4>1, <4>3, <5>1 DEF Fed, None
      <4> QED BY <4>2, <4>3
    <3>5. worker'[t] # "off"
      BY <1>1, <2>2 DEF Watching
    <3> QED BY <3>3, <3>4, <3>5 DEF FedInv
  <2>3. CASE ~(t \in Watching /\ j \in Watched[t])
    <3>1. events'[t] = events[t]
      BY <1>1, <2>3
    <3>2. Own(t)'
      BY <1>1, <2>1, <3>1 DEF Own
    <3>3. ASSUME NEW k \in Watched[t], t \in Watching PROVE Fed(t, k)'
      <4>1. Fed(t, k) /\ db'[k] = db[k]
        BY <1>6, <2>1, <2>3, <3>3 DEF FedInv
      <4> QED BY <1>1, <3>1, <4>1 DEF Fed, None
    <3>4. (worker[t] = "off" => Silent(t))'
      BY <1>1, <2>1, <3>1 DEF FedInv, Silent
    <3> QED BY <1>5, <3>2, <3>3, <3>4 DEF FedInv
  <2> QED BY <2>2, <2>3
<1> QED BY <1>3, <1>4, <1>7 DEF Inv

\* The goroutine of the store's client takes an event.
LEMMA WatchChangesInv ==
    ASSUME Inv, NEW s \in Subs, watchChanges(s)
    PROVE  Inv'
<1>1. PICK e \in Events : e = Head(events[s]) /\ e.key \in Watched[s] /\ events[s] # <<>>
  <2>1. events[s] \in Seq(Events) /\ events[s] # <<>> /\ Own(s)
    BY DEF watchChanges, Inv, Types
  <2> QED BY <2>1, AtFront DEF Own
<1>2. e.key \in Keys /\ e.val \in Vals
  BY DEF Events
<1>3. PICK c \in Changes : c = Change(e.key, e.val, lastRev[e.key]) /\ c.key = e.key /\ c.val = e.val
  <2>1. lastRev[e.key] \in Vals
    BY <1>2 DEF Inv, Types
  <2>2. Change(e.key, e.val, lastRev[e.key]) \in Changes
    BY <1>2, <2>1 DEF Change, Changes
  <2> QED BY <2>2 DEF Change
<1>4. /\ events[s] \in Seq(Events) /\ events[s] # <<>> /\ pending[s] = <<>>
      /\ events' = [events EXCEPT ![s] = Tail(@)] /\ pending' = [pending EXCEPT ![s] = <<c>>]
      /\ lastRev' = [lastRev EXCEPT ![e.key] = e.val]
      /\ UNCHANGED <<changeChan, db, rev, orchLast, subscribed, kv, regOrder>>
      /\ UNCHANGED <<registrations, orch, oi, worker, snap, resyncChan, doneChan, timedOut, app, view, seen, sync>>
  BY <1>1, <1>3 DEF watchChanges, LastRevUpdate, Inv, Types, store, setup, resyncing, apps
<1>5. /\ events'[s] = Tail(events[s]) /\ pending'[s] = <<c>>
      /\ \A t \in Subs \ {s} : events'[t] = events[t] /\ pending'[t] = pending[t]
  BY <1>4 DEF Inv, Types
<1>6. Types'
  <2>1. events' \in [Subs -> Seq(Events)] /\ pending' \in [Subs -> Seq(Changes)] /\ lastRev' \in [Keys -> Vals]
    <3>1. Tail(events[s]) \in Seq(Events) /\ <<c>> \in Seq(Changes)
      BY <1>4, AtFront
    <3> QED BY <1>2, <1>4, <3>1 DEF Inv, Types
  <2> QED BY <1>4, <2>1 DEF Inv, Types
<1>7. TurnInv'
  BY <1>4, TurnKeptInv DEF Inv, TurnKept
<1>8. Watching' = Watching
  BY <1>4, WatchingKept
<1>9. ASSUME NEW t \in Subs PROVE Own(t)' /\ FedInv(t)'
  <2>1. CASE t # s
    BY <1>4, <1>5, <1>8, <2>1, KeptInv DEF Kept, Inv
  <2>2. CASE t = s
    <3>1. Own(s)'
      <4>1. \A n \in DOMAIN Tail(events[s]) : Tail(events[s])[n].key \in Watched[s]
        BY <1>4, AtFront DEF Inv, Own
      <4>2. \A n \in DOMAIN pending'[s] : pending'[s][n].key \in Watched[s]
        BY <1>1, <1>3, <1>5
      <4>3. Len(pending'[s]) <= 1
        BY <1>5
      <4> QED BY <1>4, <1>5, <4>1, <4>2, <4>3 DEF Inv, Own
    <3>2. worker[s] # "off"
      BY <1>4 DEF Inv, FedInv, Silent
    <3>3. ASSUME NEW k \in Watched[s], s \in Watching PROVE Fed(s, k)'
      <4>1. Fed(s, k)
        BY <3>3 DEF Inv, FedInv
      <4>2. /\ LastOf(changeChan[s], <<c>>, Tail(events[s]), k, db[k])
            /\ NoneOf(changeChan[s], <<c>>, Tail(events[s]), k) <=> NoneOf(changeChan[s], <<>>, events[s], k)
        BY <1>1, <1>3, <1>4, <4>1, WayTaken DEF Fed
      <4> QED BY <1>4, <1>5, <4>1, <4>2 DEF Fed, None
    <3> QED BY <1>4, <1>8, <2>2, <3>1, <3>2, <3>3 DEF FedInv
  <2> QED BY <2>1, <2>2
<1> QED BY <1>6, <1>7, <1>9 DEF Inv

\* It sends the change.
LEMMA SendChangeInv ==
    ASSUME Inv, NEW s \in Subs, SendChange(s)
    PROVE  Inv'
<1>1. PICK c \in Changes : pending[s] = <<c>> /\ Head(pending[s]) = c /\ c.key \in Watched[s]
  <2>1. pending[s] \in Seq(Changes) /\ pending[s] # <<>> /\ Own(s)
    BY DEF SendChange, Inv, Types
  <2>2. /\ Len(pending[s]) \in Nat \ {0} /\ DOMAIN pending[s] = 1..Len(pending[s]) /\ 1 \in DOMAIN pending[s]
        /\ Head(pending[s]) = pending[s][1] /\ pending[s][1] \in Changes
    BY <2>1, AtFront
  <2>3. Len(pending[s]) = 1
    <3>1. Len(pending[s]) <= 1
      BY <2>1 DEF Own
    <3>2. \A n \in Nat \ {0} : n <= 1 => n = 1
      OBVIOUS
    <3> QED BY <2>2, <3>1, <3>2
  <2>4. pending[s] = <<pending[s][1]>>
    BY <2>1, <2>3
  <2> QED BY <2>1, <2>2, <2>4 DEF Own
<1>2. /\ Len(changeChan[s]) < Cap /\ changeChan[s] \in Seq(Changes)
      /\ changeChan' = [changeChan EXCEPT ![s] = Append(@, c)] /\ pending' = [pending EXCEPT ![s] = <<>>]
      /\ UNCHANGED <<events, lastRev, db, rev, orchLast, subscribed, kv, regOrder>>
      /\ UNCHANGED <<registrations, orch, oi, worker, snap, resyncChan, doneChan, timedOut, app, view, seen, sync>>
  BY <1>1 DEF SendChange, Inv, Types, store, setup, resyncing, apps
<1>3. /\ changeChan'[s] = Append(changeChan[s], c) /\ pending'[s] = <<>>
      /\ \A t \in Subs \ {s} : changeChan'[t] = changeChan[t] /\ pending'[t] = pending[t]
  BY <1>2 DEF Inv, Types
<1>4. Types'
  <2>1. pending' \in [Subs -> Seq(Changes)] /\ changeChan' \in [Subs -> Seq(Changes)]
    BY <1>2 DEF Inv, Types
  <2> QED BY <1>2, <2>1 DEF Inv, Types
<1>5. TurnInv'
  BY <1>2, TurnKeptInv DEF Inv, TurnKept
<1>6. Watching' = Watching
  BY <1>2, WatchingKept
<1>7. ASSUME NEW t \in Subs PROVE Own(t)' /\ FedInv(t)'
  <2>1. CASE t # s
    BY <1>2, <1>3, <1>6, <2>1, KeptInv DEF Kept, Inv
  <2>2. CASE t = s
    <3>1. Own(s)'
      <4>1. /\ Len(changeChan[s]) \in Nat /\ Len(changeChan'[s]) = Len(changeChan[s]) + 1
            /\ DOMAIN changeChan[s] = 1..Len(changeChan[s]) /\ DOMAIN changeChan'[s] = 1..(Len(changeChan[s]) + 1)
            /\ changeChan'[s][Len(changeChan[s]) + 1] = c
            /\ \A n \in 1..Len(changeChan[s]) : changeChan'[s][n] = changeChan[s][n]
        BY <1>2, <1>3, AtEnd
      <4>2. \A n \in DOMAIN changeChan'[s] : changeChan'[s][n].key \in Watched[s]
        BY <1>1, <4>1 DEF Inv, Own
      <4>3. Len(changeChan'[s]) <= Cap
        BY <1>2, <4>1, BoundAssumption
      <4>4. Len(pending'[s]) <= 1 /\ DOMAIN pending'[s] = {}
        BY <1>3
      <4> QED BY <1>2, <1>3, <4>2, <4>3, <4>4 DEF Inv, Own
    <3>2. worker[s] # "off"
      BY <1>1 DEF Inv, FedInv, Silent
    <3>3. ASSUME NEW k \in Watched[s], s \in Watching PROVE Fed(s, k)'
      <4>1. Fed(s, k)
        BY <3>3 DEF Inv, FedInv
      <4>2. /\ LastOf(Append(changeChan[s], c), <<>>, events[s], k, db[k])
            /\ NoneOf(Append(changeChan[s], c), <<>>, events[s], k) <=> NoneOf(changeChan[s], <<c>>, events[s], k)
        BY <1>1, <1>2, <4>1, WaySent DEF Fed
      <4> QED BY <1>1, <1>2, <1>3, <4>1, <4>2 DEF Fed, None
    <3> QED BY <1>2, <1>6, <2>2, <3>1, <3>2, <3>3 DEF FedInv
  <2> QED BY <2>1, <2>2
<1> QED BY <1>4, <1>5, <1>7 DEF Inv

\* The application handles a change; a snapshot on its way may be older.
LEMMA AppChangeInv ==
    ASSUME Inv, NEW s \in Subs, AppChange(s)
    PROVE  Inv'
<1>1. PICK c \in Changes : c = Head(changeChan[s]) /\ c.key \in Watched[s]
  <2>1. changeChan[s] \in Seq(Changes) /\ changeChan[s] # <<>> /\ Own(s)
    BY DEF AppChange, Inv, Types
  <2> QED BY <2>1, AtFront DEF Own
<1>2. /\ changeChan[s] \in Seq(Changes) /\ changeChan[s] # <<>>
      /\ view' = [view EXCEPT ![s][c.key] = c.val]
      /\ changeChan' = [changeChan EXCEPT ![s] = Tail(@)]
      /\ sync' = [sync EXCEPT ![s] = IF SnapshotUnderway(s) THEN "overtaken" ELSE @]
      /\ UNCHANGED <<events, lastRev, pending, db, rev, orchLast, subscribed, kv, regOrder>>
      /\ UNCHANGED <<registrations, orch, oi, worker, snap, resyncChan, doneChan, timedOut, app>>
  BY <1>1 DEF AppChange, Inv, Types, store, setup, resyncing
<1>3. view[s] \in [Watched[s] -> Vals] /\ c.val \in Vals /\ Watched[s] \in SUBSET Keys
  BY SubsAssumption DEF Inv, Own, Changes
<1>4. /\ changeChan'[s] = Tail(changeChan[s]) /\ view'[s] = [view[s] EXCEPT ![c.key] = c.val]
      /\ sync'[s] = IF SnapshotUnderway(s) THEN "overtaken" ELSE sync[s]
      /\ \A t \in Subs \ {s} : changeChan'[t] = changeChan[t] /\ view'[t] = view[t] /\ sync'[t] = sync[t]
  BY <1>2 DEF Inv, Types
<1>5. /\ view'[s] \in [Watched[s] -> Vals] /\ view'[s][c.key] = c.val
      /\ \A k \in Watched[s] \ {c.key} : view'[s][k] = view[s][k]
  BY <1>1, <1>3, <1>4
<1>6. Types'
  <2>1. changeChan' \in [Subs -> Seq(Changes)]
    <3>1. Tail(changeChan[s]) \in Seq(Changes)
      BY <1>2, AtFront
    <3> QED BY <1>2, <3>1 DEF Inv, Types
  <2>2. view' \in [Subs -> Snaps]
    <3>1. view'[s] \in Snaps
      BY <1>3, <1>5 DEF Snaps
    <3>2. view' = [view EXCEPT ![s] = view'[s]]
      BY <1>2, <1>4 DEF Inv, Types
    <3> QED BY <3>1, <3>2 DEF Inv, Types
  <2>3. sync' \in [Subs -> {"none", "applied", "overtaken"}]
    BY <1>2 DEF Inv, Types
  <2> QED BY <1>2, <2>1, <2>2, <2>3 DEF Inv, Types
<1>7. TurnInv'
  BY <1>2, TurnKeptInv DEF Inv, TurnKept
<1>8. Watching' = Watching
  BY <1>2, WatchingKept
<1>9. ASSUME NEW t \in Subs PROVE Own(t)' /\ FedInv(t)'
  <2>1. CASE t # s
    BY <1>2, <1>4, <1>8, <2>1, KeptInv DEF Kept, Inv
  <2>2. CASE t = s
    <3>1. Own(s)'
      <4>1. /\ \A n \in DOMAIN Tail(changeChan[s]) : Tail(changeChan[s])[n].key \in Watched[s]
            /\ Len(Tail(changeChan[s])) = Len(changeChan[s]) - 1 /\ Len(changeChan[s]) \in Nat
        BY <1>2, AtFront DEF Inv, Own
      <4>2. Len(changeChan'[s]) <= Cap
        BY <1>4, <4>1, BoundAssumption DEF Inv, Own
      <4> QED BY <1>2, <1>4, <1>5, <4>1, <4>2 DEF Inv, Own
    <3>2. worker[s] # "off"
      BY <1>2 DEF Inv, FedInv, Silent
    <3>3. ASSUME NEW k \in Watched[s], s \in Watching PROVE Fed(s, k)'
      <4>1. Fed(s, k)
        BY <3>3 DEF Inv, FedInv
      <4>2. /\ LastOf(Tail(changeChan[s]), pending[s], events[s], k, db[k])
            /\ NoneOf(Tail(changeChan[s]), pending[s], events[s], k) /\ c.key = k => c.val = db[k]
            /\ NoneOf(Tail(changeChan[s]), pending[s], events[s], k) /\ c.key # k =>
                 NoneOf(changeChan[s], pending[s], events[s], k)
        BY <1>1, <1>2, <4>1, WayHandled DEF Fed
      <4>3. (None(s, k) /\ sync[s] = "applied" => view[s][k] = db[k])'
        BY <1>2, <1>4, <1>5, <4>1, <4>2 DEF Fed, None
      <4>4. (sync[s] # "overtaken" => worker[s] # "send" /\ resyncChan[s] = <<>>)'
        BY <1>2, <1>4 DEF SnapshotUnderway
      <4> QED BY <1>2, <1>4, <4>2, <4>3, <4>4 DEF Fed
    <3> QED BY <1>2, <1>8, <2>2, <3>1, <3>2, <3>3 DEF FedInv
  <2> QED BY <2>1, <2>2
<1> QED BY <1>6, <1>7, <1>9 DEF Inv

----------------------------------------------------------------------------
(* Watch() and AfterInit(). *)

\* Subscriptions and the places of AfterInit.
LEMMA SetupInv ==
    ASSUME Inv, (\E s \in Subs : Watch(s)) \/ AfterInitBegins \/ AfterInitEnds
    PROVE  Inv'
<1>1. /\ UNCHANGED <<db, rev, events, lastRev, pending, changeChan, regOrder>>
      /\ UNCHANGED <<registrations, orch, oi, worker, snap, resyncChan, doneChan, timedOut, app, view, seen, sync>>
  BY DEF Watch, AfterInitBegins, AfterInitEnds, store, channels, resyncing, apps
<1>2. kv' \in {"off", "loop", "done", "failed"} /\ (kv' = "failed" <=> kv = "failed")
  BY DEF Watch, AfterInitBegins, AfterInitEnds, Inv, Types
<1>3. subscribed' \in Seq(Subs) /\ SeqOf(subscribed) \subseteq SeqOf(subscribed')
  <2>1. CASE UNCHANGED subscribed
    BY <2>1 DEF Inv, Types
  <2>2. ASSUME NEW s \in Subs, Watch(s) PROVE subscribed' \in Seq(Subs) /\ SeqOf(subscribed) \subseteq SeqOf(subscribed')
    <3>1. subscribed \in Seq(Subs) /\ subscribed' = Append(subscribed, s)
      BY <2>2 DEF Watch, Inv, Types
    <3>2. /\ subscribed' \in Seq(Subs) /\ Len(subscribed) \in Nat /\ DOMAIN subscribed = 1..Len(subscribed)
          /\ DOMAIN subscribed' = 1..(Len(subscribed) + 1) /\ \A n \in 1..Len(subscribed) : subscribed'[n] = subscribed[n]
      BY <3>1, AtEnd
    <3>3. \A n \in DOMAIN subscribed : n \in DOMAIN subscribed' /\ subscribed'[n] = subscribed[n]
      BY <3>2
    <3> QED BY <3>2, <3>3 DEF SeqOf
  <2> QED BY <2>1, <2>2 DEF AfterInitBegins, AfterInitEnds
<1>4. Types'
  BY <1>1, <1>2, <1>3 DEF Inv, Types, SeqOf
<1>5. Watching' = Watching
  BY <1>1, <1>2 DEF Watching
<1>6. TurnInv'
  BY <1>1, TurnKeptInv DEF Inv, TurnKept
<1>7. ASSUME NEW t \in Subs PROVE Own(t)' /\ FedInv(t)'
  BY <1>1, <1>5, KeptInv DEF Kept, Inv
<1> QED BY <1>4, <1>6, <1>7 DEF Inv

\* A subscription is registered; if the watch fails, nothing will be sent to it.
LEMMA RegisterInv ==
    ASSUME Inv, NEW s \in Subs, NEW ok \in BOOLEAN, watchAndResyncBrokerKeys(s, ok)
    PROVE  Inv'
<1>1. /\ kv = "loop" /\ s \in SeqOf(subscribed) /\ s \notin SeqOf(regOrder) /\ regOrder' = Append(regOrder, s)
      /\ registrations' = registrations \cup {s} /\ worker' = [worker EXCEPT ![s] = "idle"]
      /\ kv' = (IF ok THEN kv ELSE "failed")
      /\ UNCHANGED <<db, rev, events, lastRev, pending, changeChan, orchLast, subscribed>>
      /\ UNCHANGED <<orch, oi, snap, resyncChan, doneChan, timedOut, app, view, seen, sync>>
  BY DEF watchAndResyncBrokerKeys, store, channels, apps
<1>2. PICK N \in Nat :
        /\ Len(regOrder) = N /\ Len(regOrder') = N + 1 /\ DOMAIN regOrder = 1..N /\ DOMAIN regOrder' = 1..(N + 1)
        /\ regOrder' \in Seq(Subs) /\ regOrder'[N + 1] = s /\ \A n \in 1..N : regOrder'[n] = regOrder[n]
  <2>1. regOrder \in Seq(Subs)
    BY DEF Inv, Types
  <2> QED BY <1>1, <2>1, AtEnd
<1>3. SeqOf(regOrder') = SeqOf(regOrder) \cup {s}
  <2>1. \A x : x \in SeqOf(regOrder') <=> x \in SeqOf(regOrder) \/ x = s
    BY <1>2 DEF SeqOf
  <2> QED BY <2>1
<1>4. worker'[s] = "idle" /\ worker[s] = "off" /\ \A t \in Subs \ {s} : worker'[t] = worker[t]
  BY <1>1 DEF Inv, Types, TurnInv, Unregistered
<1>5. Types'
  <2>1. oi \in 0..(N + 2)
    BY <1>2 DEF Inv, Types
  <2>2. oi' \in 0..(Len(regOrder') + 1)
    BY <1>1, <1>2, <2>1
  <2>3. worker' \in [Subs -> Places]
    BY <1>1 DEF Inv, Types, Places
  <2>4. (SeqOf(regOrder) \subseteq SeqOf(subscribed))' /\ (registrations \subseteq SeqOf(regOrder))'
    <3>1. SeqOf(regOrder)' = SeqOf(regOrder) \cup {s} /\ SeqOf(subscribed)' = SeqOf(subscribed)
      BY <1>1, <1>3 DEF SeqOf
    <3> QED BY <1>1, <3>1 DEF Inv, Types
  <2>5. kv' \in {"off", "loop", "done", "failed"}
    BY <1>1
  <2> QED BY <1>1, <1>2, <2>2, <2>3, <2>4, <2>5 DEF Inv, Types
<1>6. TurnInv'
  <2>1. ASSUME NEW t \in Subs PROVE Unregistered(t)'
    <3>1. Unregistered(t)
      BY DEF Inv, TurnInv
    <3>2. t \in SeqOf(regOrder)' <=> t \in SeqOf(regOrder) \/ t = s
      BY <1>3 DEF SeqOf
    <3> QED BY <1>1, <1>4, <3>1, <3>2 DEF Unregistered
  <2>2. \A n \in 1..N : regOrder[n] \in SeqOf(regOrder) /\ regOrder[n] \in Subs \ {s} /\ regOrder'[n] = regOrder[n]
    <3>1. \A n \in 1..N : regOrder[n] \in SeqOf(regOrder)
      BY <1>2 DEF SeqOf
    <3>2. \A n \in 1..N : regOrder[n] \in Subs
      BY <1>2 DEF Inv, Types
    <3> QED BY <1>1, <1>2, <3>1, <3>2
  <2>3. \A t \in Subs \ {s} : (Idle(t)' <=> Idle(t)) /\ (Turn(t)' <=> Turn(t))
    BY <1>1, <1>4 DEF Idle, Turn
  <2>4. Idle(s)'
    BY <1>1, <1>4 DEF Inv, TurnInv, Unregistered, Idle
  <2>5. (\A i, j \in DOMAIN regOrder : regOrder[i] = regOrder[j] => i = j)'
    BY <1>2, <2>2 DEF Inv, TurnInv, Turns
  <2>6. (orch = "waitAck" => oi \in DOMAIN regOrder /\ (~timedOut => Turn(regOrder[oi])))'
    <3>1. CASE orch = "waitAck"
      <4>1. oi \in 1..N /\ (~timedOut => Turn(regOrder[oi]))
        BY <1>2, <3>1 DEF Inv, TurnInv, Turns
      <4>2. PICK t \in Subs \ {s} : t = regOrder[oi] /\ t = regOrder'[oi'] /\ oi' \in DOMAIN regOrder'
        BY <1>1, <1>2, <2>2, <4>1
      <4>3. ~timedOut' => Turn(t)'
        BY <1>1, <2>3, <4>1, <4>2
      <4> QED BY <4>2, <4>3 DEF Turn
    <3> QED BY <1>1, <3>1
  <2>7. (\A i \in DOMAIN regOrder :
            Idle(regOrder[i]) \/ (i = oi /\ orch = "waitAck") \/ (i < oi /\ timedOut))'
    <3> SUFFICES ASSUME NEW i \in DOMAIN regOrder'
                 PROVE  (Idle(regOrder[i]) \/ (i = oi /\ orch = "waitAck") \/ (i < oi /\ timedOut))'
      OBVIOUS
    <3>1. CASE i = N + 1
      BY <1>2, <2>4, <3>1 DEF Idle
    <3>2. CASE i # N + 1
      <4>1. i \in 1..N
        BY <1>2, <3>2
      <4>2. PICK t \in Subs \ {s} : t = regOrder[i] /\ t = regOrder'[i]
        BY <2>2, <4>1
      <4>3. Idle(t) \/ (i = oi /\ orch = "waitAck") \/ (i < oi /\ timedOut)
        BY <1>2, <4>1, <4>2 DEF Inv, TurnInv, Turns
      <4>4. Idle(t)' \/ (i = oi' /\ orch' = "waitAck") \/ (i < oi' /\ timedOut')
        BY <1>1, <2>3, <4>2, <4>3
      <4> QED BY <4>2, <4>4 DEF Idle
    <3> QED BY <3>1, <3>2
  <2>8. Turns'
    <3>1. (orch = "off" <=> oi = 0)'
      BY <1>1 DEF Inv, TurnInv, Turns
    <3> QED BY <2>5, <2>6, <2>7, <3>1 DEF Turns
  <2> QED BY <2>1, <2>8 DEF TurnInv
<1>7. ASSUME NEW t \in Subs PROVE Own(t)' /\ FedInv(t)'
  <2>1. CASE t # s
    <3>1. t \in Watching' => t \in Watching
      BY <1>1, <1>4, <2>1 DEF Watching
    <3> QED BY <1>1, <1>4, <2>1, <3>1, KeptInv DEF Kept, Inv
  <2>2. CASE t = s
    <3>1. Own(s)'
      BY <1>1, <1>4 DEF Inv, Own
    <3>2. Silent(s)
      BY <1>4 DEF Inv, FedInv
    <3>3. ASSUME NEW k \in Watched[s] PROVE Fed(s, k)'
      <4>1. /\ events'[s] = <<>> /\ pending'[s] = <<>> /\ changeChan'[s] = <<>> /\ resyncChan'[s] = <<>>
            /\ sync'[s] = "none"
        BY <1>1, <3>2 DEF Silent
      <4> QED BY <1>4, <4>1 DEF Fed, LastOf, LastIs
    <3> QED BY <1>4, <2>2, <3>1, <3>3 DEF FedInv
  <2> QED BY <2>1, <2>2
<1> QED BY <1>5, <1>6, <1>7 DEF Inv

----------------------------------------------------------------------------
(* The orchestrator. *)

\* What the orchestrator's steps share: only goroutines' places change.
OrchFrame ==
    /\ UNCHANGED <<db, rev, events, lastRev, pending, changeChan, orchLast, subscribed, kv, regOrder>>
    /\ UNCHANGED <<snap, resyncChan, doneChan, app, view, seen, sync>>
    /\ \A t \in Subs : worker'[t] = worker[t] \/ (worker[t] # "off" /\ worker'[t] \in {"idle", "list"})

\* The changes and snapshots are not touched.
LEMMA OrchFed ==
    ASSUME Inv, OrchFrame
    PROVE  \A t \in Subs : Own(t)' /\ FedInv(t)'
<1>1. Watching' = Watching
  <2>1. \A t \in Subs : worker'[t] = "off" <=> worker[t] = "off"
    BY DEF OrchFrame
  <2> QED BY <2>1, WatchingKept DEF OrchFrame
<1>2. ASSUME NEW t \in Subs PROVE Kept(t)
  BY <1>1 DEF Kept, OrchFrame
<1> QED BY <1>2, KeptInv DEF Inv

\* The loop begins and ends; the registrations are dropped at shutdown.
LEMMA OrchEndsInv ==
    ASSUME Inv, ResyncBegins \/ ResyncEnds \/ OrchClose
    PROVE  Inv'
<1>1. UNCHANGED <<worker, timedOut>> /\ OrchFrame
  BY DEF ResyncBegins, ResyncEnds, OrchClose, OrchFrame, store, channels, setup, apps
<1>2. \/ orch' = orch /\ oi' = oi
      \/ orch' = "loop" /\ oi' = 1 /\ orch = "off"
      \/ orch' = "finished" /\ oi' = oi /\ orch = "loop"
  BY DEF ResyncBegins, ResyncEnds, OrchClose
<1>3. registrations' \subseteq registrations
  BY DEF ResyncBegins, ResyncEnds, OrchClose
<1>4. Types'
  <2>1. oi' \in 0..(Len(regOrder) + 1) /\ orch' \in {"off", "loop", "waitAck", "finished"}
    <3>1. Len(regOrder) \in Nat
      BY DEF Inv, Types
    <3> QED BY <1>2, <3>1 DEF Inv, Types
  <2>2. regOrder' = regOrder /\ subscribed' = subscribed
    BY <1>1 DEF OrchFrame
  <2>3. (SeqOf(regOrder) \subseteq SeqOf(subscribed))' /\ (registrations \subseteq SeqOf(regOrder))'
    BY <1>3, <2>2 DEF Inv, Types, SeqOf
  <2> QED BY <1>1, <2>1, <2>2, <2>3 DEF Inv, Types, OrchFrame
<1>5. TurnInv'
  <2>1. \A t \in Subs : (Idle(t)' <=> Idle(t)) /\ (Turn(t)' <=> Turn(t)) /\ (Unregistered(t)' <=> Unregistered(t))
    BY <1>1 DEF OrchFrame, Idle, Turn, Unregistered, SeqOf
  <2>2. regOrder' = regOrder /\ timedOut' = timedOut /\ \A i \in DOMAIN regOrder : regOrder[i] \in Subs
    BY <1>1 DEF OrchFrame, Inv, Types
  <2>3. CASE orch' = orch /\ oi' = oi
    BY <2>1, <2>2, <2>3 DEF Inv, TurnInv, Turns
  <2>4. CASE orch' = "loop" /\ oi' = 1 /\ orch = "off"
    <3>1. \A i \in DOMAIN regOrder : Idle(regOrder[i])
      <4>1. oi = 0 /\ \A i \in DOMAIN regOrder : i \in Nat \ {0}
        BY <2>4 DEF Inv, TurnInv, Turns, Types
      <4>2. \A i \in DOMAIN regOrder : ~(i < oi)
        BY <4>1
      <4> QED BY <2>4, <4>2 DEF Inv, TurnInv, Turns
    <3> QED BY <2>1, <2>2, <2>4, <3>1 DEF Inv, TurnInv, Turns
  <2>5. CASE orch' = "finished" /\ oi' = oi /\ orch = "loop"
    BY <2>1, <2>2, <2>5 DEF Inv, TurnInv, Turns
  <2> QED BY <1>2, <2>3, <2>4, <2>5
<1> QED BY <1>1, <1>4, <1>5, OrchFed DEF Inv

\* The turn of the next registration.
LEMMA StartInv ==
    ASSUME Inv, startSingleResync
    PROVE  Inv'
<1>1. oi \in DOMAIN regOrder /\ oi \in 1..Len(regOrder) /\ Len(regOrder) \in Nat /\ DOMAIN regOrder = 1..Len(regOrder)
  <2>1. /\ orch = "loop" /\ oi <= Len(regOrder) /\ oi \in 0..(Len(regOrder) + 1)
        /\ Len(regOrder) \in Nat /\ DOMAIN regOrder = 1..Len(regOrder)
    BY DEF startSingleResync, Inv, Types
  <2>2. oi # 0
    BY <2>1 DEF Inv, TurnInv, Turns
  <2> QED BY <2>1, <2>2
<1>2. PICK s \in Subs : s = regOrder[oi]
  BY <1>1 DEF Inv, Types
<1>3. orch = "loop" /\ UNCHANGED <<registrations, timedOut>>
      /\ UNCHANGED <<db, rev, events, lastRev, pending, changeChan, orchLast, subscribed, kv, regOrder>>
      /\ UNCHANGED <<snap, resyncChan, doneChan, app, view, seen, sync>>
  BY DEF startSingleResync, store, channels, setup, apps
<1>4. \/ /\ worker[s] = "idle" /\ worker' = [worker EXCEPT ![s] = "list"]
         /\ orch' = "waitAck" /\ oi' = oi
      \/ oi' = oi + 1 /\ UNCHANGED <<worker, orch>>
  BY <1>2 DEF startSingleResync
<1>5. Idle(s) /\ \A j \in DOMAIN regOrder : Idle(regOrder[j]) \/ (j < oi /\ timedOut)
  <2>1. ~(oi < oi)
    BY <1>1
  <2> QED BY <1>1, <1>2, <1>3, <2>1 DEF Inv, TurnInv, Turns
<1>6. \A j \in DOMAIN regOrder : regOrder[j] \in Subs /\ (j # oi => regOrder[j] # s)
  BY <1>1, <1>2 DEF Inv, TurnInv, Turns, Types
<1>7. CASE worker[s] = "idle" /\ worker' = [worker EXCEPT ![s] = "list"] /\ orch' = "waitAck" /\ oi' = oi
  <2>1. worker'[s] = "list" /\ \A t \in Subs \ {s} : worker'[t] = worker[t]
    BY <1>7 DEF Inv, Types
  <2>2. Types'
    <3>1. worker' \in [Subs -> Places]
      BY <1>7 DEF Inv, Types, Places
    <3> QED BY <1>3, <1>7, <3>1 DEF Inv, Types
  <2>3. OrchFrame
    BY <1>3, <1>7, <2>1 DEF OrchFrame
  <2>4. \A t \in Subs \ {s} : Idle(t)' <=> Idle(t)
    BY <1>3, <2>1 DEF Idle
  <2>5. Turn(s)'
    BY <1>3, <1>5, <2>1 DEF Turn, Idle
  <2>6. \A t \in Subs : Unregistered(t)'
    BY <1>3, <1>7, <2>1 DEF Inv, TurnInv, Unregistered
  <2>7. Turns'
    <3>1. ASSUME NEW j \in DOMAIN regOrder
          PROVE  Idle(regOrder[j])' \/ (j = oi' /\ orch' = "waitAck") \/ (j < oi' /\ timedOut')
      BY <1>3, <1>5, <1>6, <1>7, <2>4
    <3>2. oi' \in DOMAIN regOrder' /\ Turn(regOrder[oi])'
      BY <1>1, <1>2, <1>3, <1>7, <2>5
    <3>3. (orch = "off" <=> oi = 0)'
      BY <1>1, <1>7
    <3>4. (\A i, j \in DOMAIN regOrder : regOrder[i] = regOrder[j] => i = j)'
      BY <1>3 DEF Inv, TurnInv, Turns
    <3> QED BY <1>3, <3>1, <3>2, <3>3, <3>4 DEF Turns
  <2> QED BY <2>2, <2>3, <2>6, <2>7, OrchFed DEF Inv, TurnInv
<1>8. CASE oi' = oi + 1 /\ UNCHANGED <<worker, orch>>
  <2>1. oi' \in 0..(Len(regOrder) + 1) /\ oi' # 0 /\ \A j \in DOMAIN regOrder : j < oi => j < oi'
    BY <1>1, <1>8
  <2>2. Types'
    BY <1>3, <1>8, <2>1 DEF Inv, Types
  <2>3. OrchFrame
    BY <1>3, <1>8 DEF OrchFrame
  <2>4. \A t \in Subs : (Idle(t)' <=> Idle(t)) /\ Unregistered(t)'
    BY <1>3, <1>8 DEF Idle, Inv, TurnInv, Unregistered
  <2>5. Turns'
    BY <1>3, <1>5, <1>6, <1>8, <2>1, <2>4 DEF Inv, TurnInv, Turns
  <2> QED BY <2>2, <2>3, <2>4, <2>5, OrchFed DEF Inv, TurnInv
<1> QED BY <1>4, <1>7, <1>8

\* The turn ends: with the goroutine's Ack(), or by the timer.
LEMMA TurnEndsInv ==
    ASSUME Inv, AckTimeout \/ \E s \in Subs : Ack(s)
    PROVE  Inv'
<1>1. /\ orch = "waitAck" /\ orch' = "loop" /\ oi' = oi + 1 /\ UNCHANGED registrations
      /\ UNCHANGED <<db, rev, events, lastRev, pending, changeChan, orchLast, subscribed, kv, regOrder>>
      /\ UNCHANGED <<snap, resyncChan, doneChan, app, view, seen, sync>>
  BY DEF AckTimeout, Ack, store, channels, setup, apps
<1>2. /\ oi \in DOMAIN regOrder /\ oi \in 1..Len(regOrder) /\ Len(regOrder) \in Nat
      /\ \A j \in DOMAIN regOrder : j \in Nat /\ regOrder[j] \in Subs
  <2>1. oi \in DOMAIN regOrder
    BY <1>1 DEF Inv, TurnInv, Turns
  <2>2. regOrder \in Seq(Subs)
    BY DEF Inv, Types
  <2>3. Len(regOrder) \in Nat /\ DOMAIN regOrder = 1..Len(regOrder)
    BY <2>2, LenProperties
  <2> QED BY <2>1, <2>2, <2>3
<1>3. PICK s \in Subs : s = regOrder[oi]
  BY <1>2
<1>4. \/ timedOut' = TRUE /\ worker' = worker
      \/ timedOut' = timedOut /\ worker[s] = "ack" /\ worker' = [worker EXCEPT ![s] = "idle"]
  BY <1>3 DEF AckTimeout, Ack
<1>5. /\ \A t \in Subs \ {s} : worker'[t] = worker[t]
      /\ worker'[s] = worker[s] \/ (worker[s] = "ack" /\ worker'[s] = "idle")
  BY <1>4 DEF Inv, Types
<1>6. Types'
  <2>1. oi' \in 0..(Len(regOrder) + 1)
    BY <1>1, <1>2
  <2>2. worker' \in [Subs -> Places] /\ timedOut' \in BOOLEAN
    BY <1>4 DEF Inv, Types, Places
  <2> QED BY <1>1, <2>1, <2>2 DEF Inv, Types
<1>7. OrchFrame
  BY <1>1, <1>5 DEF OrchFrame
<1>8. ~timedOut' => Idle(s)'
  <2>1. ASSUME ~timedOut' PROVE Idle(s)'
    <3>1. ~timedOut /\ worker[s] = "ack" /\ worker'[s] = "idle"
      BY <1>4, <2>1 DEF Inv, Types
    <3>2. Turn(s)
      BY <1>1, <1>3, <3>1 DEF Inv, TurnInv, Turns
    <3> QED BY <1>1, <3>1, <3>2 DEF Turn, Idle
  <2> QED BY <2>1
<1>9. \A t \in Subs \ {s} : Idle(t)' <=> Idle(t)
  BY <1>1, <1>5 DEF Idle
<1>10. \A t \in Subs : Unregistered(t)'
  BY <1>1, <1>5 DEF Inv, TurnInv, Unregistered
<1>11. timedOut => timedOut'
  BY <1>4
<1>12. Turns'
  <2>1. ASSUME NEW j \in DOMAIN regOrder
        PROVE  Idle(regOrder[j])' \/ (j = oi' /\ orch' = "waitAck") \/ (j < oi' /\ timedOut')
    <3>1. CASE j = oi
      <4>1. j < oi'
        BY <1>1, <1>2, <3>1
      <4> QED BY <1>1, <1>3, <1>8, <3>1, <4>1
    <3>2. CASE j # oi
      <4>1. regOrder[j] \in Subs \ {s} /\ (j < oi => j < oi')
        BY <1>1, <1>2, <1>3, <3>2 DEF Inv, TurnInv, Turns
      <4>2. Idle(regOrder[j]) \/ (j < oi /\ timedOut)
        BY <3>2 DEF Inv, TurnInv, Turns
      <4> QED BY <1>1, <1>9, <1>11, <4>1, <4>2
    <3> QED BY <3>1, <3>2
  <2>2. (orch = "off" <=> oi = 0)'
    BY <1>1, <1>2
  <2>3. (\A i, j \in DOMAIN regOrder : regOrder[i] = regOrder[j] => i = j)'
    BY <1>1 DEF Inv, TurnInv, Turns
  <2> QED BY <1>1, <2>1, <2>2, <2>3 DEF Turns
<1> QED BY <1>6, <1>7, <1>10, <1>12, OrchFed DEF Inv, TurnInv

----------------------------------------------------------------------------
(* The goroutine of a subscription and its application. *)

\* A resync step of s leaves the store, the channels of changes and the others alone.
ResyncFrame(s) ==
    /\ UNCHANGED <<db, rev, events, lastRev, pending, changeChan, orchLast, subscribed, kv, regOrder>>
    /\ UNCHANGED <<registrations, orch, oi>>
    /\ \A t \in Subs \ {s} : /\ worker'[t] = worker[t] /\ app'[t] = app[t] /\ snap'[t] = snap[t]
                             /\ resyncChan'[t] = resyncChan[t] /\ doneChan'[t] = doneChan[t]
                             /\ view'[t] = view[t] /\ sync'[t] = sync[t]

\* The others keep what they have.
LEMMA OthersKept ==
    ASSUME Inv, NEW s \in Subs, ResyncFrame(s), worker'[s] # "off", worker[s] # "off"
    PROVE  Watching' = Watching /\ \A t \in Subs \ {s} : Own(t)' /\ FedInv(t)'
<1>1. Watching' = Watching
  <2>1. \A t \in Subs : worker'[t] = "off" <=> worker[t] = "off"
    BY DEF ResyncFrame
  <2> QED BY <2>1, WatchingKept DEF ResyncFrame
<1>2. ASSUME NEW t \in Subs \ {s} PROVE Kept(t)
  BY <1>1 DEF Kept, ResyncFrame
<1> QED BY <1>1, <1>2, KeptInv DEF Inv

\* The confirmation arrives, or the timer fires; the application confirms.
LEMMA ConfirmInv ==
    ASSUME Inv, NEW s \in Subs, DoneReceived(s) \/ DoneTimeout(s) \/ AppDone(s)
    PROVE  Inv'
<1>1. /\ UNCHANGED <<db, rev, events, lastRev, pending, changeChan, orchLast, subscribed, kv, regOrder>>
      /\ UNCHANGED <<registrations, orch, oi, snap, resyncChan, view, sync>> /\ (timedOut => timedOut')
      /\ timedOut' = TRUE \/ timedOut' = timedOut
  BY DEF DoneReceived, DoneTimeout, AppDone, store, channels, setup, apps
<1>2. /\ worker' = worker \/ (worker[s] = "waitDone" /\ worker' = [worker EXCEPT ![s] = "ack"])
      /\ app' = app \/ (app[s] = "resync" /\ app' = [app EXCEPT ![s] = "idle"])
      /\ \E b \in BOOLEAN : doneChan' = doneChan \/ doneChan' = [doneChan EXCEPT ![s] = b]
  BY DEF DoneReceived, DoneTimeout, AppDone, apps
<1>3. Types'
  <2>1. worker' \in [Subs -> Places] /\ app' \in [Subs -> {"idle", "resync"}]
    BY <1>2 DEF Inv, Types, Places
  <2>2. doneChan' \in [Subs -> BOOLEAN]
    BY <1>2 DEF Inv, Types
  <2>3. timedOut' \in BOOLEAN
    BY <1>1 DEF Inv, Types
  <2> QED BY <1>1, <2>1, <2>2, <2>3 DEF Inv, Types
<1>4. worker[s] # "off" /\ ~Idle(s)
  <2>1. worker[s] = "waitDone" \/ app[s] = "resync"
    BY DEF DoneReceived, DoneTimeout, AppDone
  <2> QED BY <2>1 DEF Idle, Inv, TurnInv, Unregistered
<1>5. \A t \in Subs \ {s} : worker'[t] = worker[t] /\ app'[t] = app[t] /\ doneChan'[t] = doneChan[t]
  BY <1>2 DEF Inv, Types
<1>6. worker'[s] = worker[s] \/ worker'[s] = "ack"
  BY <1>2 DEF Inv, Types
<1>7. ~timedOut' /\ Turn(s) => Turn(s)'
  <2>1. CASE DoneReceived(s)
    <3>1. /\ worker[s] = "waitDone" /\ doneChan[s] /\ worker'[s] = "ack" /\ app' = app
          /\ resyncChan' = resyncChan
      BY <2>1 DEF DoneReceived, apps, Inv, Types
    <3>2. ~doneChan'[s]
      BY <2>1 DEF DoneReceived, Inv, Types
    <3> QED BY <3>1, <3>2 DEF Turn
  <2>2. CASE DoneTimeout(s)
    BY <2>2 DEF DoneTimeout
  <2>3. CASE AppDone(s)
    <3>1. app[s] = "resync" /\ app'[s] = "idle" /\ worker' = worker /\ resyncChan' = resyncChan
      BY <2>3 DEF AppDone, Inv, Types
    <3>2. doneChan'[s]
      BY <2>3 DEF AppDone, Inv, Types
    <3> QED BY <3>1, <3>2 DEF Turn
  <2> QED BY <2>1, <2>2, <2>3
<1>8. LocalStep(s)
  BY <1>1, <1>4, <1>5, <1>6, <1>7 DEF LocalStep
<1>9. Watching' = Watching
  <2>1. \A t \in Subs : worker'[t] = "off" <=> worker[t] = "off"
    BY <1>4, <1>5, <1>6
  <2> QED BY <1>1, <2>1, WatchingKept
<1>10. ASSUME NEW t \in Subs PROVE Kept(t)
  BY <1>1, <1>5, <1>6, <1>9 DEF Kept
<1> QED BY <1>3, <1>8, <1>10, KeptInv, LocalTurn DEF Inv

\* The snapshot is read, or cannot be read.
LEMMA ListInv ==
    ASSUME Inv, NEW s \in Subs, NEW ok \in BOOLEAN, ListValues(s, ok)
    PROVE  Inv'
<1>1. /\ UNCHANGED <<db, rev, events, lastRev, pending, changeChan, orchLast, subscribed, kv, regOrder>>
      /\ UNCHANGED <<registrations, orch, oi, resyncChan, doneChan, timedOut, app, view, sync>>
      /\ worker[s] = "list"
  BY DEF ListValues, store, channels, setup, apps
<1> DEFINE shot == [k \in Watched[s] |-> db[k]]
<1>2. \/ snap' = [snap EXCEPT ![s] = shot] /\ worker' = [worker EXCEPT ![s] = "send"]
      \/ snap' = snap /\ worker' = [worker EXCEPT ![s] = "ack"]
  BY DEF ListValues
<1>3. shot \in [Watched[s] -> Vals] /\ shot \in Snaps
  <2>1. Watched[s] \in SUBSET Keys
    BY SubsAssumption
  <2>2. shot \in [Watched[s] -> Vals]
    BY <2>1 DEF Inv, Types
  <2> QED BY <2>1, <2>2 DEF Snaps
<1>4. \A k \in Watched[s] : shot[k] = db[k]
  OBVIOUS
<1> HIDE DEF shot
<1>5. /\ (worker'[s] = "send" /\ snap'[s] = shot) \/ worker'[s] = "ack"
      /\ \A t \in Subs \ {s} : worker'[t] = worker[t] /\ snap'[t] = snap[t]
  BY <1>2 DEF Inv, Types
<1>6. Types'
  <2>1. worker' \in [Subs -> Places]
    BY <1>2 DEF Inv, Types, Places
  <2>2. snap' \in [Subs -> Snaps]
    BY <1>2, <1>3 DEF Inv, Types
  <2> QED BY <1>1, <2>1, <2>2 DEF Inv, Types
<1>7. LocalStep(s)
  BY <1>1, <1>5 DEF LocalStep, Idle, Turn
<1>8. Watching' = Watching /\ \A t \in Subs \ {s} : Own(t)' /\ FedInv(t)'
  BY <1>1, <1>5, OthersKept DEF ResyncFrame
<1>9. Own(s)'
  BY <1>1, <1>3, <1>5 DEF Inv, Own
<1>10. FedInv(s)'
  <2>1. ASSUME NEW k \in Watched[s], s \in Watching PROVE Fed(s, k)'
    <3>1. Fed(s, k)
      BY <2>1 DEF Inv, FedInv
    <3> QED BY <1>1, <1>4, <1>5, <3>1 DEF Fed, None
  <2> QED BY <1>5, <1>8, <2>1 DEF FedInv
<1> QED BY <1>6, <1>7, <1>8, <1>9, <1>10, LocalTurn DEF Inv

\* The snapshot goes into a channel with a buffer.
LEMMA SendResyncInv ==
    ASSUME Inv, NEW s \in Subs, SendResync(s)
    PROVE  Inv'
<1>1. /\ UNCHANGED <<db, rev, events, lastRev, pending, changeChan, orchLast, subscribed, kv, regOrder>>
      /\ UNCHANGED <<registrations, orch, oi, doneChan, timedOut, app, view, sync>>
      /\ worker[s] = "send" /\ resyncChan[s] = <<>>
      /\ resyncChan' = [resyncChan EXCEPT ![s] = <<snap[s]>>] /\ snap' = [snap EXCEPT ![s] = NoSnap]
      /\ worker' = [worker EXCEPT ![s] = "waitDone"]
  BY DEF SendResync, store, channels, setup, apps
<1>2. /\ worker'[s] = "waitDone" /\ resyncChan'[s] = <<snap[s]>>
      /\ \A t \in Subs \ {s} : worker'[t] = worker[t] /\ snap'[t] = snap[t] /\ resyncChan'[t] = resyncChan[t]
  BY <1>1 DEF Inv, Types
<1>3. /\ DOMAIN resyncChan'[s] = {1} /\ resyncChan'[s][1] = snap[s] /\ Len(resyncChan'[s]) <= 1
      /\ resyncChan'[s] # <<>>
  BY <1>2
<1>4. Types'
  <2>1. NoSnap \in Snaps /\ <<snap[s]>> \in Seq(Snaps)
    <3>1. NoSnap \in [{} -> Vals]
      BY DEF NoSnap
    <3>2. snap[s] \in Snaps
      BY DEF Inv, Types
    <3>3. <<snap[s]>> \in Seq(Snaps)
      BY <3>2
    <3> QED BY <3>1, <3>3 DEF Snaps
  <2>2. worker' \in [Subs -> Places] /\ snap' \in [Subs -> Snaps] /\ resyncChan' \in [Subs -> Seq(Snaps)]
    BY <1>1, <2>1 DEF Inv, Types, Places
  <2> QED BY <1>1, <2>2 DEF Inv, Types
<1>5. LocalStep(s)
  BY <1>1, <1>2, <1>3 DEF LocalStep, Idle, Turn
<1>6. Watching' = Watching /\ \A t \in Subs \ {s} : Own(t)' /\ FedInv(t)'
  BY <1>1, <1>2, OthersKept DEF ResyncFrame
<1>7. Own(s)'
  BY <1>1, <1>2, <1>3 DEF Inv, Own
<1>8. FedInv(s)'
  <2>1. ASSUME NEW k \in Watched[s], s \in Watching PROVE Fed(s, k)'
    <3>1. Fed(s, k)
      BY <2>1 DEF Inv, FedInv
    <3> QED BY <1>1, <1>2, <1>3, <3>1 DEF Fed, None
  <2> QED BY <1>2, <1>6, <2>1 DEF FedInv
<1> QED BY <1>4, <1>5, <1>6, <1>7, <1>8, LocalTurn DEF Inv

\* The application takes the snapshot from the buffer, or from the goroutine's hands.
LEMMA AppResyncInv ==
    ASSUME Inv, NEW s \in Subs, AppResync(s) \/ AppReceivesResync(s)
    PROVE  Inv'
<1>1. /\ UNCHANGED <<db, rev, events, lastRev, pending, changeChan, orchLast, subscribed, kv, regOrder>>
      /\ UNCHANGED <<registrations, orch, oi, doneChan, timedOut>>
      /\ app[s] = "idle" /\ app' = [app EXCEPT ![s] = "resync"]
      /\ sync' = [sync EXCEPT ![s] = IF @ = "none" THEN "applied" ELSE @]
  BY DEF AppResync, AppReceivesResync, Applied, store, channels, setup
<1>2. PICK shot \in [Watched[s] -> Vals] :
        /\ view' = [view EXCEPT ![s] = shot]
        /\ \A k \in Watched[s] : s \in Watching /\ None(s, k) /\ sync[s] # "overtaken" => shot[k] = db[k]
  <2>1. CASE AppResync(s)
    <3>1. resyncChan[s] \in Seq(Snaps) /\ resyncChan[s] # <<>> /\ Own(s) /\ FedInv(s)
      BY <2>1 DEF AppResync, Inv, Types
    <3>2. 1 \in DOMAIN resyncChan[s] /\ Head(resyncChan[s]) = resyncChan[s][1]
      BY <3>1, AtFront
    <3>3. Head(resyncChan[s]) \in [Watched[s] -> Vals]
      BY <3>1, <3>2 DEF Own
    <3>4. \A k \in Watched[s] : s \in Watching /\ None(s, k) /\ sync[s] # "overtaken" => Head(resyncChan[s])[k] = db[k]
      BY <3>1, <3>2 DEF FedInv, Fed
    <3> QED BY <2>1, <3>3, <3>4 DEF AppResync
  <2>2. CASE AppReceivesResync(s)
    <3>1. worker[s] = "send" /\ Own(s) /\ FedInv(s)
      BY <2>2 DEF AppReceivesResync, Inv
    <3>2. snap[s] \in [Watched[s] -> Vals]
      BY <3>1 DEF Own
    <3>3. \A k \in Watched[s] : s \in Watching /\ None(s, k) /\ sync[s] # "overtaken" => snap[s][k] = db[k]
      BY <3>1 DEF FedInv, Fed
    <3> QED BY <2>2, <3>2, <3>3 DEF AppReceivesResync
  <2> QED BY <2>1, <2>2
<1>3. \/ /\ resyncChan[s] # <<>> /\ resyncChan' = [resyncChan EXCEPT ![s] = <<>>] /\ UNCHANGED <<worker, snap>>
      \/ /\ worker[s] = "send" /\ worker' = [worker EXCEPT ![s] = "waitDone"]
         /\ snap' = [snap EXCEPT ![s] = NoSnap] /\ UNCHANGED resyncChan
  BY DEF AppResync, AppReceivesResync
<1>4. /\ app'[s] = "resync" /\ view'[s] = shot /\ sync'[s] = (IF sync[s] = "none" THEN "applied" ELSE sync[s])
      /\ \A t \in Subs \ {s} : /\ app'[t] = app[t] /\ view'[t] = view[t] /\ sync'[t] = sync[t]
                               /\ worker'[t] = worker[t] /\ snap'[t] = snap[t] /\ resyncChan'[t] = resyncChan[t]
  BY <1>1, <1>2, <1>3 DEF Inv, Types
<1>5. \/ resyncChan[s] # <<>> /\ resyncChan'[s] = <<>> /\ worker'[s] = worker[s] /\ snap'[s] = snap[s]
      \/ worker[s] = "send" /\ worker'[s] = "waitDone" /\ resyncChan'[s] = resyncChan[s]
  BY <1>3 DEF Inv, Types
<1>6. worker[s] # "off" /\ worker'[s] # "off"
  BY <1>5 DEF Inv, TurnInv, Unregistered
<1>7. Types'
  <2>1. NoSnap \in Snaps /\ shot \in Snaps
    <3>1. NoSnap \in [{} -> Vals] /\ Watched[s] \in SUBSET Keys
      BY SubsAssumption DEF NoSnap
    <3> QED BY <3>1 DEF Snaps
  <2>2. worker' \in [Subs -> Places] /\ snap' \in [Subs -> Snaps] /\ resyncChan' \in [Subs -> Seq(Snaps)]
    <3>1. <<>> \in Seq(Snaps)
      OBVIOUS
    <3>2. worker' \in [Subs -> Places]
      BY <1>3 DEF Inv, Types, Places
    <3>3. snap' \in [Subs -> Snaps]
      BY <1>3, <2>1 DEF Inv, Types
    <3>4. resyncChan' \in [Subs -> Seq(Snaps)]
      BY <1>3, <3>1 DEF Inv, Types
    <3> QED BY <3>2, <3>3, <3>4
  <2>3. app' \in [Subs -> {"idle", "resync"}] /\ view' \in [Subs -> Snaps]
    BY <1>1, <1>2, <2>1 DEF Inv, Types
  <2>4. sync' \in [Subs -> {"none", "applied", "overtaken"}]
    BY <1>1 DEF Inv, Types
  <2> QED BY <1>1, <2>2, <2>3, <2>4 DEF Inv, Types
<1>8. LocalStep(s)
  <2>1. ~Idle(s)
    BY <1>5 DEF Idle
  <2>2. Turn(s) => Turn(s)'
    BY <1>1, <1>4, <1>5 DEF Turn
  <2> QED BY <1>1, <1>4, <1>6, <2>1, <2>2 DEF LocalStep
<1>9. Watching' = Watching /\ \A t \in Subs \ {s} : Own(t)' /\ FedInv(t)'
  BY <1>1, <1>4, <1>6, OthersKept DEF ResyncFrame
<1>10. Own(s)'
  BY <1>1, <1>4, <1>5 DEF Inv, Own
<1>11. FedInv(s)'
  <2>1. ASSUME NEW k \in Watched[s], s \in Watching PROVE Fed(s, k)'
    <3>1. Fed(s, k)
      BY <2>1 DEF Inv, FedInv
    <3>2. None(s, k)' <=> None(s, k)
      BY <1>1 DEF None
    <3>3. (None(s, k) /\ sync[s] = "applied" => view[s][k] = db[k])'
      BY <1>1, <1>2, <1>4, <2>1, <3>2
    <3> QED BY <1>1, <1>4, <1>5, <3>1, <3>2, <3>3 DEF Fed
  <2> QED BY <1>6, <1>9, <2>1 DEF FedInv
<1> QED BY <1>7, <1>8, <1>9, <1>10, <1>11, LocalTurn DEF Inv

----------------------------------------------------------------------------
\* Every step preserves the invariant.
LEMMA NextInv == Inv /\ [Next]_vars => Inv'
<1> SUFFICES ASSUME Inv, [Next]_vars PROVE Inv'
  OBVIOUS
<1>1. CASE UNCHANGED vars
  <2>1. Types'
    BY <1>1 DEF vars, Inv, Types, SeqOf
  <2>2. TurnInv'
    BY <1>1, TurnKeptInv DEF vars, TurnKept, Inv
  <2>3. Watching' = Watching
    BY <1>1 DEF vars, Watching
  <2>4. \A t \in Subs : Kept(t)
    BY <1>1, <2>3 DEF vars, Kept
  <2> QED BY <2>1, <2>2, <2>4, KeptInv DEF Inv
<1>2. ASSUME NEW k \in Keys, Put(k) \/ Delete(k) \/ ExternalPut(k) PROVE Inv'
  <2>1. 0 \in Vals /\ (rev < MaxRev => rev + 1 \in Vals)
    BY BoundAssumption DEF Vals, Inv, Types
  <2>2. PICK v \in Vals : StoreWrite(k, v)
    <3>1. StoreWrite(k, 0) \/ StoreWrite(k, rev + 1)
      BY <1>2 DEF Put, Delete, ExternalPut
    <3>2. rev < MaxRev
      BY <3>1 DEF StoreWrite
    <3> QED BY <2>1, <3>1, <3>2
  <2> QED BY <2>2, StoreWriteInv
<1>3. CASE SyncStep
  BY <1>3, SetupInv, RegisterInv DEF SyncStep
<1>4. CASE OrchStep \/ OrchClose
  BY <1>4, OrchEndsInv, StartInv, TurnEndsInv DEF OrchStep
<1>5. ASSUME NEW s \in Subs, Watch(s) \/ watchChanges(s) \/ SendChange(s) \/ WorkerStep(s) \/ AppStep(s) PROVE Inv'
  <2>1. CASE Watch(s) \/ watchChanges(s) \/ SendChange(s)
    BY <2>1, SetupInv, WatchChangesInv, SendChangeInv
  <2>2. CASE WorkerStep(s)
    BY <2>2, SendResyncInv, ConfirmInv, ListInv DEF WorkerStep
  <2>3. CASE AppStep(s)
    BY <2>3, AppChangeInv, AppResyncInv, ConfirmInv DEF AppStep
  <2> QED BY <1>5, <2>1, <2>2, <2>3
<1> QED BY <1>1, <1>2, <1>3, <1>4, <1>5 DEF Next

\* The inductive invariant holds of every behaviour.
THEOREM SyncInvHolds == Spec => []Inv
BY InitInv, NextInv, PTL DEF Spec

\* Subscriptions are resynced one at a time: until a timer has fired, startResync has
\* turned to the next registration only when the application of the one before has
\* confirmed its snapshot or that could not be read, and never has one begun before
\* its turn, timers or not; for any number of subscriptions, applications and writes.
THEOREM OneByOne == Spec => []ResyncOneByOne
<1>1. Inv => ResyncOneByOne
  <2> SUFFICES ASSUME Inv, NEW i \in DOMAIN regOrder
               PROVE  LET s == regOrder[i] IN
                      /\ (i < oi /\ ~timedOut) => /\ worker[s] = "idle" /\ app[s] = "idle"
                                                  /\ resyncChan[s] = <<>>
                      /\ i > oi => worker[s] = "idle" /\ app[s] = "idle"
    BY DEF ResyncOneByOne
  <2>1. Idle(regOrder[i]) \/ (i = oi /\ orch = "waitAck") \/ (i < oi /\ timedOut)
    BY DEF Inv, TurnInv, Turns
  <2>2. i \in Nat /\ oi \in Nat
    BY DEF Inv, Types
  <2>3. ~(i < oi /\ i = oi) /\ ~(i > oi /\ i = oi) /\ ~(i > oi /\ i < oi)
    BY <2>2
  <2> QED BY <2>1, <2>3 DEF Idle
<1> QED BY <1>1, SyncInvHolds, PTL

\* Nothing falls between the snapshot and the changes: an application that has handled
\* its snapshot, and no change while that was on its way, holds what the store holds
\* when nothing more is on its way to it, however writes of any number of keys, timers
\* and late confirmations are interleaved, and also if subscriptions share keys.
THEOREM NothingLost == Spec => []NothingFallsBetween
<1>1. Inv => NothingFallsBetween
  <2> SUFFICES ASSUME Inv, NEW s \in Subs, Drained(s), sync[s] = "applied", NEW k \in Watched[s]
               PROVE  view[s][k] = db[k]
    BY DEF NothingFallsBetween
  <2>1. Fed(s, k)
    BY DEF Inv, FedInv, Drained
  <2>2. None(s, k)
    BY DEF Drained, None, NoneOf, Occurs
  <2> QED BY <2>1, <2>2 DEF Fed
<1> QED BY <1>1, SyncInvHolds, PTL

\* The shapes of the state; a resync name is never registered twice, which Register would
\* answer with a panic.
THEOREM SyncTypes == Spec => []TypeOK
<1>1. Inv => TypeOK
  <2> SUFFICES ASSUME Inv PROVE TypeOK
    OBVIOUS
  <2>1. Cardinality(SeqOf(regOrder)) = Len(regOrder)
    <3>1. regOrder \in Seq(Subs) /\ Len(regOrder) \in Nat /\ DOMAIN regOrder = 1..Len(regOrder)
      BY LenProperties DEF Inv, Types
    <3>2. regOrder \in Bijection(1..Len(regOrder), SeqOf(regOrder))
      BY <3>1 DEF Inv, TurnInv, Turns, SeqOf, Bijection, Injection, Surjection, IsInjective
    <3>3. IsFiniteSet(1..Len(regOrder)) /\ Cardinality(1..Len(regOrder)) = Len(regOrder)
      BY <3>1, FS_Interval
    <3> QED BY <3>2, <3>3, FS_Bijection DEF ExistsBijection
  <2>2. rev \in 1..(MaxRev + 1)
    BY BoundAssumption DEF Inv, Types
  <2> QED BY <2>1, <2>2 DEF Inv, Types, Own, TypeOK, Vals
<1> QED BY <1>1, SyncInvHolds, PTL

----------------------------------------------------------------------------
(* The order of the changes of a key. *)

\* A change goes up, or deletes.
Up(c) == c.val > c.prev \/ c.val = 0

\* The changes of k in q, each with the value of the one before it as its previous
\* one, and b before the first.
Linked(q, k, b) ==
    /\ \A n \in DOMAIN q : q[n].key = k => Up(q[n])
    /\ \A n \in DOMAIN q : q[n].key = k /\ (\A m \in DOMAIN q : m < n => q[m].key # k) => q[n].prev = b
    /\ \A n, m \in DOMAIN q :
          n < m /\ q[n].key = k /\ q[m].key = k /\ (\A j \in DOMAIN q : n < j /\ j < m => q[j].key # k) =>
             q[m].prev = q[n].val

\* The value after them.
EndsAt(q, k, b, v) == LastIs(q, k, v) /\ (~Occurs(q, k) => v = b)

\* Events of the store for k are above b and go up, but for those that delete.
Rising(q, k, b) ==
    \A n \in DOMAIN q : q[n].key = k =>
        \/ q[n].val = 0
        \/ q[n].val > b /\ \A m \in DOMAIN q : m < n /\ q[m].key = k => q[m].val < q[n].val

\* The value of k when the last change in the channel was taken from the store's events.
Sent(pe, k, v) == IF Occurs(pe, k) THEN pe[1].prev ELSE v

Chain(s, k) ==
    /\ Linked(changeChan[s], k, seen[s][k])
    /\ EndsAt(changeChan[s], k, seen[s][k], Sent(pending[s], k, lastRev[k]))
    /\ \A n \in DOMAIN pending[s] : pending[s][n].key = k => pending[s][n].val = lastRev[k] /\ Up(pending[s][n])
    /\ Rising(events[s], k, lastRev[k])

\* Values are revisions the store has reached.
Reached ==
    /\ \A k \in Keys : lastRev[k] <= rev
    /\ \A s \in Subs : \A n \in DOMAIN events[s] : events[s][n].val <= rev

ChainInv ==
    /\ DOMAIN seen = Subs /\ \A s \in Subs : seen[s] \in [Watched[s] -> Vals]
    /\ Reached
    /\ \A s \in Subs : \A k \in Watched[s] : ~Shared(s, k) => Chain(s, k)

\* A change is added after them.
LEMMA LinkedAtEnd ==
    ASSUME NEW q \in Seq(Changes), NEW c \in Changes, NEW k, NEW b, NEW v, Linked(q, k, b), EndsAt(q, k, b, v)
    PROVE  /\ c.key = k /\ c.prev = v /\ Up(c) => Linked(Append(q, c), k, b) /\ EndsAt(Append(q, c), k, b, c.val)
           /\ c.key # k => Linked(Append(q, c), k, b) /\ EndsAt(Append(q, c), k, b, v)
<1> DEFINE r == Append(q, c)
<1>1. /\ Len(q) \in Nat /\ DOMAIN q = 1..Len(q) /\ DOMAIN r = 1..(Len(q) + 1)
      /\ r[Len(q) + 1] = c /\ \A n \in 1..Len(q) : r[n] = q[n]
  BY AtEnd
<1>2. /\ Occurs(r, k) <=> Occurs(q, k) \/ c.key = k
      /\ c.key = k => LastIs(r, k, c.val)
      /\ c.key # k => LastIs(r, k, v)
  BY LastAtEnd DEF EndsAt
<1> HIDE DEF r
<1>3. PICK N \in Nat : N = Len(q)
  BY <1>1
<1>4. /\ \A n \in DOMAIN q : n \in Int /\ n < N + 1 /\ n \in DOMAIN r /\ r[n] = q[n]
      /\ \A n \in DOMAIN r : n \in DOMAIN q \/ n = N + 1
      /\ r[N + 1] = c
  BY <1>1, <1>3
<1>5. ASSUME c.key # k PROVE Linked(r, k, b) /\ EndsAt(r, k, b, v)
  <2>1. \A n \in DOMAIN r : r[n].key = k => n \in DOMAIN q
    BY <1>4, <1>5
  <2>2. \A n \in DOMAIN r : r[n].key = k => Up(r[n])
    BY <1>4, <2>1 DEF Linked
  <2>3. \A n \in DOMAIN r : r[n].key = k /\ (\A m \in DOMAIN r : m < n => r[m].key # k) => r[n].prev = b
    BY <1>4, <2>1 DEF Linked
  <2>4. ASSUME NEW n \in DOMAIN r, NEW m \in DOMAIN r, n < m, r[n].key = k, r[m].key = k,
               \A j \in DOMAIN r : n < j /\ j < m => r[j].key # k
        PROVE  r[m].prev = r[n].val
    <3>1. n \in DOMAIN q /\ m \in DOMAIN q /\ r[n] = q[n] /\ r[m] = q[m]
      BY <1>4, <2>1, <2>4
    <3>2. \A j \in DOMAIN q : n < j /\ j < m => q[j].key # k
      BY <1>4, <2>4
    <3> QED BY <2>4, <3>1, <3>2 DEF Linked
  <2> QED BY <1>2, <1>5, <2>2, <2>3, <2>4 DEF Linked, EndsAt
<1>6. ASSUME c.key = k, c.prev = v, Up(c) PROVE Linked(r, k, b) /\ EndsAt(r, k, b, c.val)
  <2>1. \A n \in DOMAIN r : r[n].key = k => Up(r[n])
    BY <1>4, <1>6 DEF Linked
  <2>2. ASSUME NEW n \in DOMAIN r, r[n].key = k, \A m \in DOMAIN r : m < n => r[m].key # k PROVE r[n].prev = b
    <3>1. CASE n \in DOMAIN q
      BY <1>4, <2>2, <3>1 DEF Linked
    <3>2. CASE n = N + 1
      <4>1. ~Occurs(q, k)
        BY <1>4, <2>2, <3>2 DEF Occurs
      <4> QED BY <1>4, <1>6, <3>2, <4>1 DEF EndsAt
    <3> QED BY <1>4, <3>1, <3>2
  <2>3. ASSUME NEW n \in DOMAIN r, NEW m \in DOMAIN r, n < m, r[n].key = k, r[m].key = k,
               \A j \in DOMAIN r : n < j /\ j < m => r[j].key # k
        PROVE  r[m].prev = r[n].val
    <3>1. n \in DOMAIN q /\ r[n] = q[n]
      <4>1. n # N + 1
        BY <1>4, <2>3
      <4> QED BY <1>4, <4>1
    <3>2. CASE m \in DOMAIN q
      <4>1. \A j \in DOMAIN q : n < j /\ j < m => q[j].key # k
        BY <1>4, <2>3
      <4> QED BY <1>4, <2>3, <3>1, <3>2, <4>1 DEF Linked
    <3>3. CASE m = N + 1
      <4>1. \A j \in DOMAIN q : j > n => q[j].key # k
        <5> SUFFICES ASSUME NEW j \in DOMAIN q, j > n PROVE q[j].key # k
          OBVIOUS
        <5>1. j \in DOMAIN r /\ n < j /\ j < m /\ r[j] = q[j]
          BY <1>4, <3>1, <3>3
        <5> QED BY <2>3, <5>1
      <4>2. q[n].val = v
        BY <2>3, <3>1, <4>1 DEF EndsAt, LastIs
      <4> QED BY <1>4, <1>6, <3>1, <3>3, <4>2
    <3> QED BY <1>4, <3>2, <3>3
  <2> QED BY <1>2, <1>6, <2>1, <2>2, <2>3 DEF Linked, EndsAt
<1> QED BY <1>5, <1>6 DEF r

\* The first change is taken off.
LEMMA LinkedAtFront ==
    ASSUME NEW q \in Seq(Changes), q # <<>>, NEW k, NEW b, NEW v, Linked(q, k, b), EndsAt(q, k, b, v)
    PROVE  /\ Head(q).key = k => /\ Head(q).prev = b /\ Up(Head(q))
                                 /\ Linked(Tail(q), k, Head(q).val) /\ EndsAt(Tail(q), k, Head(q).val, v)
           /\ Head(q).key # k => Linked(Tail(q), k, b) /\ EndsAt(Tail(q), k, b, v)
<1> DEFINE r == Tail(q)
<1>1. /\ Len(q) \in Nat \ {0} /\ DOMAIN q = 1..Len(q) /\ Head(q) = q[1] /\ DOMAIN r = 1..(Len(q) - 1)
      /\ \A n \in 1..(Len(q) - 1) : r[n] = q[n + 1]
  BY AtFront
<1>2. /\ Occurs(q, k) <=> Occurs(r, k) \/ Head(q).key = k
      /\ LastIs(r, k, v)
      /\ ~Occurs(r, k) /\ Head(q).key = k => Head(q).val = v
  BY LastAtFront DEF EndsAt
<1> HIDE DEF r
<1>3. PICK N \in Nat : N + 1 = Len(q) /\ N = Len(q) - 1
  <2>1. Len(q) - 1 \in Nat /\ (Len(q) - 1) + 1 = Len(q)
    BY <1>1
  <2> QED BY <2>1
<1>4. /\ \A n \in DOMAIN r : n \in Nat /\ n >= 1 /\ n + 1 \in DOMAIN q /\ r[n] = q[n + 1]
      /\ \A n \in DOMAIN q : n \in Nat /\ (n = 1 \/ (n - 1 \in DOMAIN r /\ r[n - 1] = q[n]))
      /\ 1 \in DOMAIN q
  BY <1>1, <1>3
<1>5. \A n \in DOMAIN r : r[n].key = k => Up(r[n])
  BY <1>4 DEF Linked
<1>6. ASSUME NEW n \in DOMAIN r, NEW m \in DOMAIN r, n < m, r[n].key = k, r[m].key = k,
             \A j \in DOMAIN r : n < j /\ j < m => r[j].key # k
      PROVE  r[m].prev = r[n].val
  <2>1. n + 1 \in DOMAIN q /\ m + 1 \in DOMAIN q /\ n + 1 < m + 1 /\ r[n] = q[n + 1] /\ r[m] = q[m + 1]
    BY <1>4, <1>6
  <2>2. ASSUME NEW j \in DOMAIN q, n + 1 < j, j < m + 1 PROVE q[j].key # k
    <3>1. j - 1 \in DOMAIN r /\ r[j - 1] = q[j] /\ n < j - 1 /\ j - 1 < m
      BY <1>4, <2>2
    <3> QED BY <1>6, <3>1
  <2> QED BY <1>6, <2>1, <2>2 DEF Linked
<1>7. ASSUME Head(q).key # k PROVE Linked(r, k, b) /\ EndsAt(r, k, b, v)
  <2>1. ASSUME NEW n \in DOMAIN r, r[n].key = k, \A m \in DOMAIN r : m < n => r[m].key # k PROVE r[n].prev = b
    <3>1. n + 1 \in DOMAIN q /\ q[n + 1] = r[n]
      BY <1>4
    <3>2. ASSUME NEW m \in DOMAIN q, m < n + 1 PROVE q[m].key # k
      <4>1. CASE m = 1
        BY <1>1, <1>7, <4>1
      <4>2. CASE m # 1
        <5>1. m - 1 \in DOMAIN r /\ r[m - 1] = q[m] /\ m - 1 < n
          BY <1>4, <3>2, <4>2
        <5> QED BY <2>1, <5>1
      <4> QED BY <4>1, <4>2
    <3> QED BY <2>1, <3>1, <3>2 DEF Linked
  <2> QED BY <1>2, <1>5, <1>6, <1>7, <2>1 DEF Linked, EndsAt
<1>8. ASSUME Head(q).key = k
      PROVE  Head(q).prev = b /\ Up(Head(q)) /\ Linked(r, k, Head(q).val) /\ EndsAt(r, k, Head(q).val, v)
  <2>1. Up(q[1]) /\ q[1].prev = b
    <3>1. \A m \in DOMAIN q : ~(m < 1)
      BY <1>4
    <3> QED BY <1>1, <1>4, <1>8, <3>1 DEF Linked
  <2>2. ASSUME NEW n \in DOMAIN r, r[n].key = k, \A m \in DOMAIN r : m < n => r[m].key # k
        PROVE  r[n].prev = q[1].val
    <3>1. n + 1 \in DOMAIN q /\ q[n + 1] = r[n] /\ 1 < n + 1
      BY <1>4
    <3>2. ASSUME NEW j \in DOMAIN q, 1 < j, j < n + 1 PROVE q[j].key # k
      <4>1. j - 1 \in DOMAIN r /\ r[j - 1] = q[j] /\ j - 1 < n
        BY <1>4, <3>2
      <4> QED BY <2>2, <4>1
    <3> QED BY <1>1, <1>4, <1>8, <2>2, <3>1, <3>2 DEF Linked
  <2> QED BY <1>1, <1>2, <1>5, <1>6, <1>8, <2>1, <2>2 DEF Linked, EndsAt
<1> QED BY <1>7, <1>8 DEF r

\* A write of the store: its value is above all before it, or deletes.
LEMMA RisingAtEnd ==
    ASSUME NEW q \in Seq(Events), NEW e \in Events, NEW k, NEW b \in Vals, NEW r \in Nat, Rising(q, k, b),
           \A n \in DOMAIN q : q[n].val <= r, b <= r, e.key = k => e.val = 0 \/ e.val = r + 1
    PROVE  Rising(Append(q, e), k, b)
<1> DEFINE p == Append(q, e)
<1>1. /\ Len(q) \in Nat /\ DOMAIN q = 1..Len(q) /\ DOMAIN p = 1..(Len(q) + 1)
      /\ p[Len(q) + 1] = e /\ \A n \in 1..Len(q) : p[n] = q[n] /\ q[n] \in Events
  BY AtEnd
<1> HIDE DEF p
<1>2. PICK N \in Nat : N = Len(q)
  BY <1>1
<1>3. /\ \A n \in DOMAIN q : n \in Int /\ n < N + 1 /\ n \in DOMAIN p /\ p[n] = q[n]
      /\ \A n \in DOMAIN p : n \in DOMAIN q \/ n = N + 1
      /\ p[N + 1] = e
  BY <1>1, <1>2
<1>4. ASSUME NEW n \in DOMAIN p, p[n].key = k, p[n].val # 0
      PROVE  p[n].val > b /\ \A m \in DOMAIN p : m < n /\ p[m].key = k => p[m].val < p[n].val
  <2>1. CASE n \in DOMAIN q
    <3>1. \A m \in DOMAIN p : m < n => m \in DOMAIN q
      BY <1>3, <2>1
    <3> QED BY <1>3, <1>4, <2>1, <3>1 DEF Rising
  <2>2. CASE n = N + 1
    <3>1. p[n].val = r + 1
      BY <1>3, <1>4, <2>2
    <3>2. ASSUME NEW m \in DOMAIN p, m < n PROVE p[m].val < p[n].val
      <4>1. m \in DOMAIN q /\ p[m] = q[m] /\ q[m] \in Events
        BY <1>1, <1>3, <2>2, <3>2
      <4>2. q[m].val \in Int /\ q[m].val <= r
        BY <4>1 DEF Events, Vals
      <4> QED BY <3>1, <4>1, <4>2
    <3>3. r + 1 > b
      BY DEF Vals
    <3> QED BY <3>1, <3>2, <3>3
  <2> QED BY <1>3, <2>1, <2>2
<1> QED BY <1>4 DEF Rising, p

\* The first event is taken: it is above b, and the others are above it.
LEMMA RisingAtFront ==
    ASSUME NEW q \in Seq(Events), q # <<>>, NEW k, NEW b \in Vals, Rising(q, k, b)
    PROVE  /\ Head(q).key = k => (Head(q).val = 0 \/ Head(q).val > b) /\ Rising(Tail(q), k, Head(q).val)
           /\ Head(q).key # k => Rising(Tail(q), k, b)
<1> DEFINE p == Tail(q)
<1>1. /\ Len(q) \in Nat \ {0} /\ DOMAIN q = 1..Len(q) /\ Head(q) = q[1] /\ DOMAIN p = 1..(Len(q) - 1)
      /\ \A n \in 1..(Len(q) - 1) : p[n] = q[n + 1]
  BY AtFront
<1> HIDE DEF p
<1>3. PICK N \in Nat : N + 1 = Len(q) /\ N = Len(q) - 1
  <2>1. Len(q) - 1 \in Nat /\ (Len(q) - 1) + 1 = Len(q)
    BY <1>1
  <2> QED BY <2>1
<1>4. /\ \A n \in DOMAIN p : n \in Nat /\ n >= 1 /\ n + 1 \in DOMAIN q /\ p[n] = q[n + 1]
      /\ 1 \in DOMAIN q
  BY <1>1, <1>3
<1>5. ASSUME NEW n \in DOMAIN p, p[n].key = k, p[n].val # 0
      PROVE  /\ p[n].val > b /\ (q[1].key = k => p[n].val > q[1].val)
             /\ \A m \in DOMAIN p : m < n /\ p[m].key = k => p[m].val < p[n].val
  <2>1. n + 1 \in DOMAIN q /\ q[n + 1] = p[n] /\ 1 < n + 1
    BY <1>4
  <2>2. q[n + 1].val > b /\ \A m \in DOMAIN q : m < n + 1 /\ q[m].key = k => q[m].val < q[n + 1].val
    BY <1>5, <2>1 DEF Rising
  <2>3. \A m \in DOMAIN p : m < n => m + 1 \in DOMAIN q /\ m + 1 < n + 1 /\ q[m + 1] = p[m]
    BY <1>4
  <2>4. q[1].key = k => q[1].val < q[n + 1].val
    BY <1>4, <2>1, <2>2
  <2>5. q[1].val \in Int /\ q[n + 1].val \in Int
    <3>1. q[1] \in Events /\ q[n + 1] \in Events
      BY <1>1, <1>4, <2>1
    <3> QED BY <3>1 DEF Events, Vals
  <2> QED BY <2>1, <2>2, <2>3, <2>4, <2>5
<1>6. q[1].key = k => q[1].val = 0 \/ q[1].val > b
  BY <1>4 DEF Rising
<1> QED BY <1>1, <1>5, <1>6 DEF Rising, p

\* Before the first write.
LEMMA ChainInit == Init => ChainInv
<1> SUFFICES ASSUME Init PROVE ChainInv
  OBVIOUS
<1>1. /\ DOMAIN seen = Subs
      /\ \A s \in Subs : seen[s] \in [Watched[s] -> Vals] /\ \A k \in Watched[s] : k \in Keys /\ seen[s][k] = 0
  BY BoundAssumption, SubsAssumption DEF Init, Vals
<1>2. Reached
  BY DEF Init, Reached
<1>3. ASSUME NEW s \in Subs, NEW k \in Watched[s] PROVE Chain(s, k)
  <2>1. /\ DOMAIN changeChan[s] = {} /\ DOMAIN pending[s] = {} /\ DOMAIN events[s] = {}
        /\ lastRev[k] = 0 /\ seen[s][k] = 0
    BY <1>1 DEF Init
  <2> QED BY <2>1 DEF Chain, Linked, EndsAt, LastIs, Occurs, Sent, Rising
<1> QED BY <1>1, <1>2, <1>3 DEF ChainInv

\* Steps that do not move a change.
LEMMA ChainKept ==
    ASSUME ChainInv, UNCHANGED <<rev, events, lastRev, pending, changeChan, seen>>
    PROVE  ChainInv'
<1>1. Reached' /\ \A s \in Subs, k \in Keys : Chain(s, k) => Chain(s, k)'
  BY DEF ChainInv, Reached, Chain
<1>2. \A s \in Subs : Watched[s] \subseteq Keys
  BY SubsAssumption
<1> QED BY <1>1, <1>2 DEF ChainInv, Shared

\* A write of the store.
LEMMA ChainWrite ==
    ASSUME Inv, ChainInv, NEW j \in Keys, NEW v \in Vals, v = 0 \/ v = rev + 1, StoreWrite(j, v)
    PROVE  ChainInv'
<1>1. /\ rev' = rev + 1 /\ rev \in Nat
      /\ events' = [t \in Subs |-> IF t \in Watching /\ j \in Watched[t] THEN Append(events[t], Event(j, v)) ELSE events[t]]
      /\ UNCHANGED <<lastRev, pending, changeChan, seen>>
  BY BoundAssumption DEF StoreWrite, apps, Inv, Types
<1>2. Event(j, v) \in Events /\ Event(j, v).key = j /\ Event(j, v).val = v
  BY DEF Event, Events
<1>3. \A k \in Keys : lastRev[k] \in Vals /\ lastRev[k] <= rev /\ lastRev'[k] <= rev'
  BY <1>1 DEF Inv, Types, ChainInv, Reached, Vals
<1>4. \A s \in Subs : events[s] \in Seq(Events) /\ \A n \in DOMAIN events[s] : events[s][n].val <= rev
  BY DEF Inv, Types, ChainInv, Reached
<1>5. ASSUME NEW s \in Subs, NEW n \in DOMAIN events'[s] PROVE events'[s][n].val <= rev'
  <2>1. CASE events'[s] = events[s]
    <3>1. events[s][n] \in Events /\ events[s][n].val <= rev
      BY <1>4, <2>1
    <3>2. events[s][n].val \in Int
      BY <3>1 DEF Events, Vals
    <3>3. events'[s][n].val = events[s][n].val
      BY <2>1
    <3> QED BY <1>1, <3>1, <3>2, <3>3
  <2>2. CASE events'[s] = Append(events[s], Event(j, v))
    <3>1. /\ Len(events[s]) \in Nat /\ DOMAIN events[s] = 1..Len(events[s]) /\ DOMAIN events'[s] = 1..(Len(events[s]) + 1)
          /\ events'[s][Len(events[s]) + 1] = Event(j, v)
          /\ \A m \in 1..Len(events[s]) : events'[s][m] = events[s][m] /\ events[s][m] \in Events
      BY <1>2, <1>4, <2>2, AtEnd
    <3>2. CASE n = Len(events[s]) + 1
      BY <1>1, <1>2, <3>1, <3>2
    <3>3. CASE n # Len(events[s]) + 1
      <4>1. n \in DOMAIN events[s] /\ events'[s][n] = events[s][n] /\ events[s][n] \in Events
        BY <3>1, <3>3
      <4>2. events[s][n].val \in Int /\ events[s][n].val <= rev
        BY <1>4, <4>1 DEF Events, Vals
      <4> QED BY <1>1, <4>1, <4>2
    <3> QED BY <3>2, <3>3
  <2> QED BY <1>1, <2>1, <2>2
<1>6. ASSUME NEW s \in Subs, NEW k \in Watched[s], Chain(s, k) PROVE Chain(s, k)'
  <2>1. k \in Keys
    BY SubsAssumption
  <2>2. Rising(events[s], k, lastRev[k])
    BY <1>6 DEF Chain
  <2>3. Rising(Append(events[s], Event(j, v)), k, lastRev[k])
    BY <1>1, <1>2, <1>3, <1>4, <2>1, <2>2, RisingAtEnd
  <2>4. Rising(events'[s], k, lastRev[k])
    BY <1>1, <2>2, <2>3
  <2> QED BY <1>1, <1>6, <2>4 DEF Chain
<1> QED BY <1>1, <1>3, <1>5, <1>6 DEF ChainInv, Reached, Shared

\* The goroutine takes an event: the change has the value before it as its previous one.
LEMMA ChainTaken ==
    ASSUME Inv, ChainInv, NEW s \in Subs, watchChanges(s)
    PROVE  ChainInv'
<1>1. PICK e \in Events : e = Head(events[s]) /\ e.key \in Watched[s] /\ events[s] # <<>>
  <2>1. events[s] \in Seq(Events) /\ events[s] # <<>> /\ Own(s)
    BY DEF watchChanges, Inv, Types
  <2> QED BY <2>1, AtFront DEF Own
<1>2. e.key \in Keys /\ e.val \in Vals
  BY DEF Events
<1>3. PICK c \in Changes : /\ c = Change(e.key, e.val, lastRev[e.key])
                          /\ c.key = e.key /\ c.val = e.val /\ c.prev = lastRev[e.key]
  <2>1. lastRev[e.key] \in Vals
    BY <1>2 DEF Inv, Types
  <2>2. Change(e.key, e.val, lastRev[e.key]) \in Changes
    BY <1>2, <2>1 DEF Change, Changes
  <2> QED BY <2>2 DEF Change
<1>4. /\ events[s] \in Seq(Events) /\ events[s] # <<>> /\ pending[s] = <<>>
      /\ events' = [events EXCEPT ![s] = Tail(@)] /\ pending' = [pending EXCEPT ![s] = <<c>>]
      /\ lastRev' = [lastRev EXCEPT ![e.key] = e.val] /\ UNCHANGED <<changeChan, rev, seen>>
  BY <1>1, <1>3 DEF watchChanges, LastRevUpdate, Inv, Types, store, apps
<1>5. /\ events'[s] = Tail(events[s]) /\ pending'[s] = <<c>>
      /\ \A t \in Subs \ {s} : events'[t] = events[t] /\ pending'[t] = pending[t]
      /\ lastRev'[e.key] = e.val /\ \A k \in Keys \ {e.key} : lastRev'[k] = lastRev[k]
  BY <1>2, <1>4 DEF Inv, Types
<1>6. /\ Len(events[s]) \in Nat \ {0} /\ DOMAIN events[s] = 1..Len(events[s]) /\ 1 \in DOMAIN events[s]
      /\ Head(events[s]) = events[s][1] /\ DOMAIN events'[s] = 1..(Len(events[s]) - 1)
      /\ \A n \in 1..(Len(events[s]) - 1) : events'[s][n] = events[s][n + 1] /\ n + 1 \in DOMAIN events[s]
  <2>1. /\ Len(events[s]) \in Nat \ {0} /\ DOMAIN events[s] = 1..Len(events[s]) /\ 1 \in DOMAIN events[s]
        /\ Head(events[s]) = events[s][1] /\ DOMAIN Tail(events[s]) = 1..(Len(events[s]) - 1)
        /\ \A n \in 1..(Len(events[s]) - 1) : Tail(events[s])[n] = events[s][n + 1] /\ n + 1 \in DOMAIN events[s]
    BY <1>4, AtFront
  <2> QED BY <1>5, <2>1
<1>7. Reached'
  <2>1. e.val <= rev
    BY <1>1, <1>6 DEF ChainInv, Reached
  <2>2. \A k \in Keys : lastRev'[k] <= rev'
    BY <1>4, <1>5, <2>1 DEF ChainInv, Reached
  <2>3. \A n \in DOMAIN events'[s] : events'[s][n].val <= rev'
    BY <1>4, <1>6 DEF ChainInv, Reached
  <2>4. \A t \in Subs \ {s} : \A n \in DOMAIN events'[t] : events'[t][n].val <= rev'
    BY <1>4, <1>5 DEF ChainInv, Reached
  <2> QED BY <2>2, <2>3, <2>4 DEF Reached
<1>8. ASSUME NEW t \in Subs, NEW k \in Watched[t], ~Shared(t, k) PROVE Chain(t, k)'
  <2>1. Chain(t, k) /\ k \in Keys
    BY <1>8, SubsAssumption DEF ChainInv
  <2>2. CASE t # s
    <3>1. k # e.key
      BY <1>1, <1>8, <2>2 DEF Shared
    <3> QED BY <1>4, <1>5, <2>1, <2>2, <3>1 DEF Chain
  <2>3. CASE t = s /\ k # e.key
    <3>1. Rising(events'[s], k, lastRev[k])
      <4>1. Rising(events[s], k, lastRev[k]) /\ lastRev[k] \in Vals
        BY <2>1, <2>3 DEF Chain, Inv, Types
      <4> QED BY <1>1, <1>4, <1>5, <2>3, <4>1, RisingAtFront
    <3>2. lastRev'[k] = lastRev[k]
      BY <1>5, <2>1, <2>3
    <3>3. ~Occurs(pending[s], k) /\ ~Occurs(pending'[s], k)
      BY <1>3, <1>4, <1>5, <2>3 DEF Occurs
    <3>4. Sent(pending'[s], k, lastRev'[k]) = Sent(pending[s], k, lastRev[k])
      BY <3>2, <3>3 DEF Sent
    <3>5. \A n \in DOMAIN pending'[s] : pending'[s][n].key # k
      BY <3>3 DEF Occurs
    <3> QED BY <1>4, <2>1, <2>3, <3>1, <3>2, <3>4, <3>5 DEF Chain
  <2>4. CASE t = s /\ k = e.key
    <3>1. Rising(events[s], k, lastRev[k]) /\ lastRev[k] \in Vals
      BY <2>1, <2>4 DEF Chain, Inv, Types
    <3>2. (e.val = 0 \/ e.val > lastRev[k]) /\ Rising(events'[s], k, e.val)
      BY <1>1, <1>4, <1>5, <2>4, <3>1, RisingAtFront
    <3>3. ~Occurs(pending[s], k) /\ Occurs(pending'[s], k) /\ pending'[s][1] = c
      BY <1>3, <1>4, <1>5, <2>4 DEF Occurs
    <3>4. Sent(pending'[s], k, lastRev'[k]) = Sent(pending[s], k, lastRev[k])
      BY <1>3, <2>4, <3>3 DEF Sent
    <3>5. \A n \in DOMAIN pending'[s] : pending'[s][n].val = lastRev'[k] /\ Up(pending'[s][n])
      <4>1. \A n \in DOMAIN pending'[s] : pending'[s][n] = c
        BY <1>5
      <4>2. c.val = lastRev'[k] /\ Up(c)
        BY <1>3, <1>5, <2>4, <3>2 DEF Up
      <4> QED BY <4>1, <4>2
    <3> QED BY <1>4, <1>5, <2>1, <2>4, <3>2, <3>4, <3>5 DEF Chain
  <2> QED BY <2>2, <2>3, <2>4
<1> QED BY <1>4, <1>7, <1>8 DEF ChainInv, Shared

\* It sends the change.
LEMMA ChainSent ==
    ASSUME Inv, ChainInv, NEW s \in Subs, SendChange(s)
    PROVE  ChainInv'
<1>1. PICK c \in Changes : pending[s] = <<c>> /\ Head(pending[s]) = c
  <2>1. pending[s] \in Seq(Changes) /\ pending[s] # <<>> /\ Len(pending[s]) <= 1
    BY DEF SendChange, Inv, Types, Own
  <2>2. Len(pending[s]) \in Nat \ {0} /\ Head(pending[s]) = pending[s][1] /\ pending[s][1] \in Changes
    BY <2>1, AtFront
  <2>3. Len(pending[s]) = 1
    <3>1. \A n \in Nat \ {0} : n <= 1 => n = 1
      OBVIOUS
    <3> QED BY <2>1, <2>2, <3>1
  <2>4. pending[s] = <<pending[s][1]>>
    BY <2>1, <2>3
  <2> QED BY <2>2, <2>4
<1>2. /\ changeChan[s] \in Seq(Changes)
      /\ changeChan' = [changeChan EXCEPT ![s] = Append(@, c)] /\ pending' = [pending EXCEPT ![s] = <<>>]
      /\ UNCHANGED <<events, lastRev, rev, seen>>
  BY <1>1 DEF SendChange, Inv, Types, store, apps
<1>3. /\ changeChan'[s] = Append(changeChan[s], c) /\ pending'[s] = <<>>
      /\ \A t \in Subs \ {s} : changeChan'[t] = changeChan[t] /\ pending'[t] = pending[t]
  BY <1>2 DEF Inv, Types
<1>4. ASSUME NEW t \in Subs, NEW k \in Watched[t], ~Shared(t, k) PROVE Chain(t, k)'
  <2>1. Chain(t, k)
    BY <1>4 DEF ChainInv
  <2>2. CASE t # s
    BY <1>2, <1>3, <2>1, <2>2 DEF Chain
  <2>3. CASE t = s
    <3>1. /\ Linked(changeChan[s], k, seen[s][k])
          /\ EndsAt(changeChan[s], k, seen[s][k], Sent(pending[s], k, lastRev[k]))
          /\ c.key = k => c.val = lastRev[k] /\ Up(c)
      BY <1>1, <2>1, <2>3 DEF Chain
    <3>2. Sent(pending[s], k, lastRev[k]) = IF c.key = k THEN c.prev ELSE lastRev[k]
      BY <1>1 DEF Sent, Occurs
    <3>3. Sent(pending'[s], k, lastRev'[k]) = lastRev[k] /\ DOMAIN pending'[s] = {}
      BY <1>2, <1>3 DEF Sent, Occurs
    <3>4. CASE c.key = k
      <4>1. Linked(changeChan'[s], k, seen[s][k]) /\ EndsAt(changeChan'[s], k, seen[s][k], lastRev[k])
        BY <1>2, <1>3, <3>1, <3>2, <3>4, LinkedAtEnd
      <4> QED BY <1>2, <2>1, <2>3, <3>3, <4>1 DEF Chain
    <3>5. CASE c.key # k
      <4>1. Linked(changeChan'[s], k, seen[s][k]) /\ EndsAt(changeChan'[s], k, seen[s][k], lastRev[k])
        BY <1>2, <1>3, <3>1, <3>2, <3>5, LinkedAtEnd
      <4> QED BY <1>2, <2>1, <2>3, <3>3, <4>1 DEF Chain
    <3> QED BY <3>4, <3>5
  <2> QED BY <2>2, <2>3
<1>5. Reached'
  BY <1>2 DEF ChainInv, Reached
<1> QED BY <1>2, <1>4, <1>5 DEF ChainInv, Shared

\* The application handles a change: it is the next one of its key.
LEMMA ChainHandled ==
    ASSUME Inv, ChainInv, NEW s \in Subs, AppChange(s)
    PROVE  /\ ChainInv'
           /\ ~Shared(s, Head(changeChan[s]).key) =>
                /\ Head(changeChan[s]).prev = seen[s][Head(changeChan[s]).key] /\ Up(Head(changeChan[s]))
<1>1. PICK c \in Changes : c = Head(changeChan[s]) /\ c.key \in Watched[s]
  <2>1. changeChan[s] \in Seq(Changes) /\ changeChan[s] # <<>> /\ Own(s)
    BY DEF AppChange, Inv, Types
  <2> QED BY <2>1, AtFront DEF Own
<1>2. /\ changeChan[s] \in Seq(Changes) /\ changeChan[s] # <<>>
      /\ seen' = [seen EXCEPT ![s][c.key] = c.val]
      /\ changeChan' = [changeChan EXCEPT ![s] = Tail(@)]
      /\ UNCHANGED <<events, lastRev, pending, rev>>
  BY <1>1 DEF AppChange, Inv, Types, store
<1>3. seen[s] \in [Watched[s] -> Vals] /\ c.val \in Vals
  BY DEF ChainInv, Changes
<1>4. changeChan'[s] = Tail(changeChan[s]) /\ \A t \in Subs \ {s} : changeChan'[t] = changeChan[t]
  BY <1>2 DEF Inv, Types
<1>5. /\ DOMAIN seen' = Subs /\ seen'[s] = [seen[s] EXCEPT ![c.key] = c.val]
      /\ \A t \in Subs \ {s} : seen'[t] = seen[t]
  BY <1>2 DEF ChainInv
<1>6. /\ seen'[s] \in [Watched[s] -> Vals] /\ seen'[s][c.key] = c.val
      /\ \A k \in Watched[s] \ {c.key} : seen'[s][k] = seen[s][k]
  BY <1>1, <1>3, <1>5
<1>7. ASSUME NEW t \in Subs, NEW k \in Watched[t], ~Shared(t, k)
      PROVE  Chain(t, k)' /\ (t = s /\ k = c.key => c.prev = seen[s][k] /\ Up(c))
  <2>1. Chain(t, k)
    BY <1>7 DEF ChainInv
  <2>2. CASE t # s
    BY <1>2, <1>4, <1>5, <2>1, <2>2 DEF Chain
  <2>3. CASE t = s
    <3>1. /\ Linked(changeChan[s], k, seen[s][k])
          /\ EndsAt(changeChan[s], k, seen[s][k], Sent(pending[s], k, lastRev[k]))
      BY <2>1, <2>3 DEF Chain
    <3>2. CASE c.key = k
      <4>1. /\ c.prev = seen[s][k] /\ Up(c) /\ Linked(changeChan'[s], k, c.val)
            /\ EndsAt(changeChan'[s], k, c.val, Sent(pending[s], k, lastRev[k]))
        BY <1>1, <1>2, <1>4, <3>1, <3>2, LinkedAtFront
      <4> QED BY <1>2, <1>6, <2>1, <2>3, <3>2, <4>1 DEF Chain
    <3>3. CASE c.key # k
      <4>1. /\ Linked(changeChan'[s], k, seen[s][k])
            /\ EndsAt(changeChan'[s], k, seen[s][k], Sent(pending[s], k, lastRev[k]))
        BY <1>1, <1>2, <1>4, <3>1, <3>3, LinkedAtFront
      <4>2. seen'[s][k] = seen[s][k]
        BY <1>6, <2>3, <3>3
      <4> QED BY <1>2, <2>1, <2>3, <3>3, <4>1, <4>2 DEF Chain
    <3> QED BY <3>2, <3>3
  <2> QED BY <2>2, <2>3
<1>8. Reached'
  BY <1>2 DEF ChainInv, Reached
<1>9. \A t \in Subs : seen'[t] \in [Watched[t] -> Vals]
  BY <1>5, <1>6 DEF ChainInv
<1> QED BY <1>1, <1>5, <1>7, <1>8, <1>9 DEF ChainInv, Shared

\* Every step keeps the order, and takes a change off a channel only when the application
\* handles it.
LEMMA ChainNext ==
    ASSUME Inv, ChainInv, [Next]_vars
    PROVE  /\ ChainInv'
           /\ \A s \in Subs : AppChange(s) \/ changeChan'[s] = changeChan[s]
                              \/ \E c \in Changes : changeChan'[s] = Append(changeChan[s], c)
<1>1. CASE UNCHANGED vars
  BY <1>1, ChainKept DEF vars
<1>2. ASSUME NEW k \in Keys, Put(k) \/ Delete(k) \/ ExternalPut(k) PROVE ChainInv' /\ changeChan' = changeChan
  <2>1. StoreWrite(k, 0) \/ StoreWrite(k, rev + 1)
    BY <1>2 DEF Put, Delete, ExternalPut
  <2>2. rev < MaxRev /\ changeChan' = changeChan
    BY <2>1 DEF StoreWrite
  <2>3. 0 \in Vals /\ rev + 1 \in Vals
    BY <2>2, BoundAssumption DEF Vals, Inv, Types
  <2> QED BY <2>1, <2>2, <2>3, ChainWrite
<1>3. ASSUME UNCHANGED <<store, channels>>, seen' = seen PROVE ChainInv' /\ changeChan' = changeChan
  BY <1>3, ChainKept DEF store, channels
<1>4. CASE SyncStep \/ OrchStep \/ OrchClose
  <2>1. UNCHANGED <<store, channels>> /\ seen' = seen
    BY <1>4 DEF SyncStep, AfterInitBegins, AfterInitEnds, watchAndResyncBrokerKeys, OrchStep, ResyncBegins,
       startSingleResync, ResyncEnds, AckTimeout, Ack, OrchClose, apps
  <2> QED BY <1>3, <2>1
<1>5. ASSUME NEW s \in Subs, Watch(s) \/ WorkerStep(s) \/ AppResync(s) \/ AppReceivesResync(s) \/ AppDone(s)
      PROVE  ChainInv' /\ changeChan' = changeChan
  <2>1. UNCHANGED <<store, channels>> /\ seen' = seen
    BY <1>5 DEF Watch, WorkerStep, SendResync, DoneReceived, DoneTimeout, ListValues, AppResync, AppReceivesResync,
       AppDone, apps
  <2> QED BY <1>3, <2>1
<1>6. ASSUME NEW s \in Subs, watchChanges(s) PROVE ChainInv' /\ changeChan' = changeChan
  BY <1>6, ChainTaken DEF watchChanges
<1>7. ASSUME NEW s \in Subs, SendChange(s)
      PROVE  /\ ChainInv' /\ \A t \in Subs : changeChan'[t] = changeChan[t]
                                \/ \E c \in Changes : changeChan'[t] = Append(changeChan[t], c)
  <2>1. Head(pending[s]) \in Changes
    <3>1. pending[s] \in Seq(Changes) /\ pending[s] # <<>>
      BY <1>7 DEF SendChange, Inv, Types
    <3> QED BY <3>1, AtFront
  <2>2. \A t \in Subs : changeChan'[t] = IF t = s THEN Append(changeChan[t], Head(pending[s])) ELSE changeChan[t]
    BY <1>7 DEF SendChange, Inv, Types
  <2> QED BY <1>7, <2>1, <2>2, ChainSent
<1>8. ASSUME NEW s \in Subs, AppChange(s)
      PROVE  ChainInv' /\ \A t \in Subs : AppChange(t) \/ changeChan'[t] = changeChan[t]
  <2>1. \A t \in Subs \ {s} : changeChan'[t] = changeChan[t]
    BY <1>8 DEF AppChange, Inv, Types
  <2> QED BY <1>8, <2>1, ChainHandled
<1>9. [Next]_vars
  OBVIOUS
<1> QED BY <1>1, <1>2, <1>4, <1>5, <1>6, <1>7, <1>8, <1>9 DEF Next, AppStep

\* A step of the order: what ChangesChain says of it.
LEMMA ChainStep ==
    ASSUME Inv, ChainInv, [Next]_vars, NEW s \in Subs, changeChan[s] # <<>>,
           Len(changeChan'[s]) < Len(changeChan[s]), ~Shared(s, Head(changeChan[s]).key)
    PROVE  /\ Head(changeChan[s]).prev = seen[s][Head(changeChan[s]).key]
           /\ Head(changeChan[s]).val > Head(changeChan[s]).prev \/ Head(changeChan[s]).val = 0
<1>1. changeChan[s] \in Seq(Changes) /\ Len(changeChan[s]) \in Nat
  BY DEF Inv, Types
<1>2. changeChan'[s] # changeChan[s]
  BY <1>1
<1>3. \A c \in Changes : changeChan'[s] # Append(changeChan[s], c)
  <2> SUFFICES ASSUME NEW c \in Changes, changeChan'[s] = Append(changeChan[s], c) PROVE FALSE
    OBVIOUS
  <2>1. Len(changeChan'[s]) = Len(changeChan[s]) + 1
    BY <1>1, AtEnd
  <2> QED BY <1>1, <2>1
<1>4. AppChange(s)
  BY <1>2, <1>3, ChainNext
<1> QED BY <1>4, ChainHandled DEF Up

\* The change events of a key reach an application in the order of the store, each with the
\* value of the change event before it as its previous one: watchChanges, whose goroutine
\* takes the event of the store, asks PrevRevisions and then blocks on the application's
\* channel, neither skips nor swaps a change of a key, unless subscriptions share the key;
\* for any number of subscriptions, keys and writes.  What a snapshot told does not enter.
THEOREM ChangesInOrder == Spec => ChangesChain
<1>1. Inv /\ ChainInv /\ [Next]_vars => ChainInv'
  BY ChainNext
<1>2. Inv /\ ChainInv /\ [Next]_vars =>
        [\A s \in Subs : \A c \in First(s) :
            Taken(s) /\ ~Shared(s, c.key) =>
               /\ c.prev = seen[s][c.key]
               /\ c.val > c.prev \/ c.val = 0]_vars
  BY ChainStep DEF First, Taken
<1> QED BY <1>1, <1>2, ChainInit, SyncInvHolds, PTL DEF Spec, ChangesChain
=============================================================================
