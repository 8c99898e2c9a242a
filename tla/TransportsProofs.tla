--------------------------- MODULE TransportsProofs ---------------------------
(***************************************************************************)
(* Nobody is told a success or a failure that has not happened, for any    *)
(* subscriptions, prefixes, keys, calls and transports, and any capacity   *)
(* of the channels.  The argument counts: the confirmations a collector    *)
(* still waits for are at least the events that are under way and the      *)
(* confirmations not yet collected, so that a collector that waits for     *)
(* none has heard of all; a confirmation that is lost for want of room     *)
(* leaves it waiting, and the call to its timer.                           *)
(*                                                                         *)
(* The second half is about what the applications learn: the events of a   *)
(* transaction that is being committed carry its items (Frozen), a change  *)
(* of the gRPC stream is known or the last of its key on the way           *)
(* (StreamInvariant), and, as long as calls do not overlap, what the       *)
(* callers last said of a watched key is known to the application or       *)
(* coming (FollowInv).                                                     *)
(***************************************************************************)
EXTENDS Transports, FiniteSetTheorems, SequenceTheorems, TLAPS

\* Change events, events of the gRPC stream among them; transactions; resync events.
Events == [sub : Subs, key : Keys, val : Nat, call : Calls \cup {Stream}, prev : Nat]
Txs == UNION {[D -> Nat] : D \in SUBSET Keys}
ResyncEvents == [sub : Subs, call : Calls, vals : Txs]

\* The places in the channels ch where an event of call c waits.
Waiting(ch, c) == {x \in Subs \X Nat : x[2] \in 1..Len(ch[x[1]]) /\ ch[x[1]][x[2]].call = c}

\* The confirmations that may still reach the collector of call c.
Outstanding(c) == Len(fire[c]) + Cardinality(Waiting(chan, c)) + Len(partial[c])

\* An error among the confirmations collected, or among those not yet collected.
Reported(c) == lastError[c] \/ \E n \in DOMAIN partial[c] : partial[c][n]

\* The state of the registry.
Types ==
    /\ subscriptions \subseteq Subs /\ prefixes \in [Subs -> SUBSET KeyPrefixes] /\ lock \in Subs \cup {Nobody}
    /\ lastRev \in [Keys -> Nat] /\ told \in [Keys -> Nat] /\ dropped \subseteq Keys /\ late \subseteq Subs
    /\ place \in [Calls -> {"idle", "wait", "resync", "returned"}]
    /\ result \in [Calls -> {"nil", "error", "timeout", "sent"}]
    /\ fire \in [Calls -> Seq(Events)] /\ partial \in [Calls -> Seq(BOOLEAN)]
    /\ left \in [Calls -> Nat] /\ lastError \in [Calls -> BOOLEAN] /\ failures \subseteq Calls
    /\ resync \in [Calls -> [tx : Txs, todo : SUBSET Subs, ev : Seq(ResyncEvents)]]
    /\ chan \in [Subs -> Seq(Events)] /\ rchan \in [Subs -> Seq(ResyncEvents)]
    /\ \A s \in Subs : Len(chan[s]) <= Cap /\ Len(rchan[s]) <= Cap
    /\ \A c \in Calls : Len(partial[c]) <= DoneCap

\* PropagateChanges: the collector waits for all that is outstanding; an error that has
\* been reported is known or on its way, unless its confirmation was lost, and then
\* the collector waits for more than there is.
Counted(c) ==
    /\ IsFiniteSet(Waiting(chan, c)) /\ left[c] >= Outstanding(c)
    /\ \A n \in DOMAIN fire[c] : fire[c][n].call = c
    /\ Reported(c) => c \in failures
    /\ c \in failures => Reported(c) \/ left[c] > Outstanding(c)
    /\ place[c] \in {"idle", "resync"} => left[c] = 0 /\ ~lastError[c]
    /\ place[c] = "returned" /\ result[c] # "timeout" =>
          left[c] = 0 /\ (result[c] = "error" <=> lastError[c])

\* PropagateResync: its events come from a call that is at it or has sent them all.
Resyncs(c) ==
    /\ resync[c].todo # {} \/ resync[c].ev # <<>> => place[c] = "resync"
    /\ \A n \in DOMAIN resync[c].ev : resync[c].ev[n].call = c
    /\ \A s \in Subs : \A n \in DOMAIN rchan[s] : rchan[s][n].call = c =>
          place[c] = "resync" \/ (place[c] = "returned" /\ result[c] = "sent")

RegistryInv == Types /\ \A c \in Calls : Counted(c) /\ Resyncs(c)

\* The transports around it.
TransportTypes ==
    /\ traffic \in Traffic /\ items \in Txs /\ holder \in Calls \cup {Nobody}
    /\ answer \in [Calls -> {"none", "pending", "OK", "error", "dropped"}] /\ routes \subseteq KeyPrefixes
    /\ reg \in [Subs -> {"none", "joining", "open", "closed", "refused"}] /\ gsubs \subseteq Subs
    /\ stream \in Seq([key : Keys, val : Nat])
    /\ gloop \in Seq(Events) /\ \A n \in DOMAIN gloop : gloop[n].call = Stream

\* REST: a request is pending while its call waits, and answered with what that returned.
Requests(c) ==
    /\ answer[c] = "pending" => place[c] = "wait"
    /\ answer[c] = "OK" => place[c] = "returned" /\ result[c] # "error"
    /\ answer[c] = "error" => c \in failures

\* The composite Put: the answers so far, and whether one was an error.
PutSoFar ==
    /\ put.at \in 0..(Len(Writers) + 1) /\ put.wasError \in BOOLEAN
    /\ put.told \in Seq({"skipped", "written", "error"})
    /\ put.at > 0 => /\ Len(put.told) = put.at - 1
                     /\ put.wasError <=> Writers = <<>> \/ \E n \in DOMAIN put.told : put.told[n] = "error"

\* The inductive invariant.
Inv == RegistryInv /\ TransportTypes /\ (\A c \in Calls : Requests(c)) /\ PutSoFar

----------------------------------------------------------------------------
\* The first element of a sequence and the rest.
LEMMA HeadAndTail ==
    ASSUME NEW S, NEW q \in Seq(S), q # <<>>
    PROVE  /\ Len(q) \in Nat \ {0} /\ DOMAIN q = 1..Len(q) /\ 1 \in DOMAIN q
           /\ Head(q) = q[1] /\ q[1] \in S
           /\ Tail(q) \in Seq(S) /\ Len(Tail(q)) = Len(q) - 1 /\ DOMAIN Tail(q) = 1..(Len(q) - 1)
           /\ \A n \in 1..(Len(q) - 1) : Tail(q)[n] = q[n + 1] /\ n + 1 \in DOMAIN q
<1>1. Len(q) \in Nat \ {0} /\ DOMAIN q = 1..Len(q)
  BY EmptySeq, LenProperties
<1>2. Head(q) \in S /\ Tail(q) \in Seq(S) /\ Len(Tail(q)) = Len(q) - 1
      /\ \A n \in 1..Len(Tail(q)) : Tail(q)[n] = q[n + 1]
  BY HeadTailProperties
<1>3. DOMAIN Tail(q) = 1..(Len(q) - 1)
  BY <1>2, LenProperties
<1>4. Head(q) = q[1]
  OBVIOUS
<1> QED BY <1>1, <1>2, <1>3, <1>4

\* nch are the channels ch with one more event e at the end of that of t.
OneMore(ch, nch, t, e) ==
    /\ t \in Subs /\ \A s \in Subs \ {t} : nch[s] = ch[s]
    /\ \E n \in Nat : /\ Len(ch[t]) = n /\ Len(nch[t]) = n + 1
                      /\ nch[t][n + 1] = e /\ \A j \in 1..n : nch[t][j] = ch[t][j]

\* nch are the channels ch without the first event e of that of t.
OneLess(ch, nch, t, e) ==
    /\ t \in Subs /\ \A s \in Subs \ {t} : nch[s] = ch[s]
    /\ \E n \in Nat : /\ Len(ch[t]) = n + 1 /\ Len(nch[t]) = n
                      /\ ch[t][1] = e /\ \A j \in 1..n : nch[t][j] = ch[t][j + 1]

\* One more event of a call waits.
LEMMA WaitingOneMore ==
    ASSUME NEW ch, NEW nch, NEW t, NEW e, NEW c, IsFiniteSet(Waiting(ch, c)), OneMore(ch, nch, t, e)
    PROVE  /\ IsFiniteSet(Waiting(nch, c))
           /\ e.call = c => Cardinality(Waiting(nch, c)) = Cardinality(Waiting(ch, c)) + 1
           /\ e.call # c => Cardinality(Waiting(nch, c)) = Cardinality(Waiting(ch, c))
<1>6. t \in Subs /\ \A s \in Subs \ {t} : nch[s] = ch[s]
  BY DEF OneMore
<1>7. PICK n \in Nat : /\ Len(ch[t]) = n /\ Len(nch[t]) = n + 1
                       /\ nch[t][n + 1] = e /\ \A j \in 1..n : nch[t][j] = ch[t][j]
  BY DEF OneMore
<1>1. \A s \in Subs, j \in Nat :
        <<s, j>> \in Waiting(nch, c) <=> <<s, j>> \in Waiting(ch, c) \/ (s = t /\ j = n + 1 /\ e.call = c)
  BY <1>6, <1>7 DEF Waiting
<1>2. \A x : x \in Waiting(nch, c) \/ x \in Waiting(ch, c) => \E s \in Subs, j \in Nat : x = <<s, j>>
  BY DEF Waiting
<1>3. <<t, n + 1>> \notin Waiting(ch, c)
  BY <1>7 DEF Waiting
<1>4. CASE e.call = c
  <2>1. Waiting(nch, c) = Waiting(ch, c) \cup {<<t, n + 1>>}
    <3>1. \A x : x \in Waiting(nch, c) <=> x \in Waiting(ch, c) \/ x = <<t, n + 1>>
      BY <1>1, <1>2, <1>4, <1>6
    <3> QED BY <3>1
  <2>2. /\ IsFiniteSet(Waiting(ch, c) \cup {<<t, n + 1>>})
        /\ Cardinality(Waiting(ch, c) \cup {<<t, n + 1>>}) = Cardinality(Waiting(ch, c)) + 1
    BY <1>3, FS_AddElement
  <2> QED BY <1>4, <2>1, <2>2
<1>5. CASE e.call # c
  <2>1. Waiting(nch, c) = Waiting(ch, c)
    <3>1. \A x : x \in Waiting(nch, c) <=> x \in Waiting(ch, c)
      BY <1>1, <1>2, <1>5
    <3> QED BY <3>1
  <2> QED BY <1>5, <2>1
<1> QED BY <1>4, <1>5

\* The first event of a channel is taken: the others move up.
LEMMA WaitingOneLess ==
    ASSUME NEW ch, NEW nch, NEW t, NEW e, NEW c, IsFiniteSet(Waiting(ch, c)), OneLess(ch, nch, t, e)
    PROVE  /\ IsFiniteSet(Waiting(nch, c))
           /\ e.call = c => Cardinality(Waiting(nch, c)) = Cardinality(Waiting(ch, c)) - 1
           /\ e.call # c => Cardinality(Waiting(nch, c)) = Cardinality(Waiting(ch, c))
<1>7. t \in Subs /\ \A s \in Subs \ {t} : nch[s] = ch[s]
  BY DEF OneLess
<1>1. PICK n \in Nat : /\ Len(ch[t]) = n + 1 /\ Len(nch[t]) = n
                       /\ ch[t][1] = e /\ \A j \in 1..n : nch[t][j] = ch[t][j + 1]
  BY DEF OneLess
<1> DEFINE old == Waiting(ch, c) \ {<<t, 1>>}
           new == Waiting(nch, c)
           f == [x \in old |-> IF x[1] = t THEN <<t, x[2] - 1>> ELSE x]
<1>2. \A s \in Subs, j \in Nat :
        /\ <<s, j>> \in old <=> (IF s = t THEN j \in 2..(n + 1) ELSE j \in 1..Len(ch[s])) /\ ch[s][j].call = c
        /\ <<s, j>> \in new <=> (IF s = t THEN j \in 1..n /\ ch[t][j + 1].call = c
                                          ELSE j \in 1..Len(ch[s]) /\ ch[s][j].call = c)
  BY <1>1, <1>7 DEF Waiting
<1>3. f \in Bijection(old, new)
  <2>1. ASSUME NEW x \in old PROVE f[x] \in new
    <3>1. PICK s \in Subs, j \in Nat : x = <<s, j>>
      BY DEF Waiting
    <3>2. CASE s = t
      <4>1. j \in 2..(n + 1) /\ ch[t][j].call = c
        BY <1>2, <2>1, <3>1, <3>2
      <4>2. j - 1 \in 1..n /\ (j - 1) + 1 = j
        BY <4>1
      <4>3. f[x] = <<t, j - 1>>
        BY <2>1, <3>1, <3>2
      <4> QED BY <1>2, <1>7, <4>1, <4>2, <4>3
    <3>3. CASE s # t
      BY <1>2, <2>1, <3>1, <3>3
    <3> QED BY <3>2, <3>3
  <2>2. ASSUME NEW x \in old, NEW y \in old, f[x] = f[y] PROVE x = y
    <3>1. PICK s \in Subs, j \in Nat : x = <<s, j>>
      BY DEF Waiting
    <3>2. PICK u \in Subs, k \in Nat : y = <<u, k>>
      BY DEF Waiting
    <3> QED BY <2>2, <3>1, <3>2
  <2>3. ASSUME NEW y \in new PROVE \E x \in old : f[x] = y
    <3>1. PICK s \in Subs, j \in Nat : y = <<s, j>>
      BY DEF Waiting
    <3>2. CASE s = t
      <4>1. <<t, j + 1>> \in old
        BY <1>1, <1>2, <1>7, <3>1, <3>2
      <4>2. f[<<t, j + 1>>] = y
        BY <3>1, <3>2, <4>1
      <4> QED BY <4>1, <4>2
    <3>3. CASE s # t
      <4>1. y \in old
        BY <1>2, <3>1, <3>3
      <4> QED BY <3>1, <3>3, <4>1
    <3> QED BY <3>2, <3>3
  <2> QED BY <2>1, <2>2, <2>3 DEF Bijection, Injection, Surjection, IsInjective
<1>4. IsFiniteSet(old) /\ Cardinality(old) = IF <<t, 1>> \in Waiting(ch, c)
                                             THEN Cardinality(Waiting(ch, c)) - 1 ELSE Cardinality(Waiting(ch, c))
  BY FS_RemoveElement
<1>5. IsFiniteSet(new) /\ Cardinality(new) = Cardinality(old)
  BY <1>3, <1>4, FS_Bijection DEF ExistsBijection
<1>6. <<t, 1>> \in Waiting(ch, c) <=> e.call = c
  BY <1>1, <1>7 DEF Waiting
<1> HIDE DEF old, new
<1> QED BY <1>4, <1>5, <1>6 DEF new

\* A send into a channel.
LEMMA AppendIsOneMore ==
    ASSUME NEW ch \in [Subs -> Seq(Events)], NEW t \in Subs, NEW e \in Events
    PROVE  OneMore(ch, [ch EXCEPT ![t] = Append(@, e)], t, e)
BY DEF OneMore

\* A receive from a channel.
LEMMA TailIsOneLess ==
    ASSUME NEW ch \in [Subs -> Seq(Events)], NEW t \in Subs, ch[t] # <<>>
    PROVE  OneLess(ch, [ch EXCEPT ![t] = Tail(@)], t, Head(ch[t]))
<1> DEFINE nch == [ch EXCEPT ![t] = Tail(@)]
           n == Len(ch[t]) - 1
<1>1. nch[t] = Tail(ch[t]) /\ ch[t] \in Seq(Events) /\ \A s \in Subs \ {t} : nch[s] = ch[s]
  OBVIOUS
<1>2. /\ n \in Nat /\ Len(ch[t]) = n + 1 /\ Len(nch[t]) = n /\ ch[t][1] = Head(ch[t])
      /\ \A j \in 1..n : nch[t][j] = ch[t][j + 1]
  BY <1>1, HeadAndTail
<1> HIDE DEF nch, n
<1>3. OneLess(ch, nch, t, Head(ch[t]))
  BY <1>1, <1>2 DEF OneLess
<1> QED BY <1>3 DEF nch

\* A transaction without items.
LEMMA EmptyTx == <<>> \in Txs
<1>1. <<>> \in [{} -> Nat]
  OBVIOUS
<1> QED BY <1>1 DEF Txs

\* No event waits in empty channels.
LEMMA WaitingEmpty ==
    ASSUME NEW ch, \A s \in Subs : ch[s] = <<>>
    PROVE  \A c \in Calls : IsFiniteSet(Waiting(ch, c)) /\ Cardinality(Waiting(ch, c)) = 0
<1>1. \A c \in Calls : Waiting(ch, c) = {}
  BY DEF Waiting
<1> QED BY <1>1, FS_EmptySet

\* The initial state: nothing has been called.
LEMMA InitInv == TInit => Inv
<1> SUFFICES ASSUME TInit PROVE Inv
  OBVIOUS
<1>1. Types
  <2>1. /\ fire \in [Calls -> Seq(Events)] /\ partial \in [Calls -> Seq(BOOLEAN)]
        /\ chan \in [Subs -> Seq(Events)] /\ rchan \in [Subs -> Seq(ResyncEvents)]
        /\ \A x \in Subs : Len(chan[x]) = 0 /\ Len(rchan[x]) = 0
        /\ \A c \in Calls : Len(partial[c]) = 0
    BY DEF TInit, Init
  <2>2. Quiet \in [tx : Txs, todo : SUBSET Subs, ev : Seq(ResyncEvents)]
    BY EmptyTx DEF Quiet
  <2>3. resync \in [Calls -> [tx : Txs, todo : SUBSET Subs, ev : Seq(ResyncEvents)]]
    BY <2>2 DEF TInit, Init
  <2> QED BY <2>1, <2>3, RegistryAssumption, CapAssumption DEF TInit, Init, Types
<1>2. ASSUME NEW c \in Calls PROVE Counted(c) /\ Resyncs(c) /\ Requests(c)
  <2>1. IsFiniteSet(Waiting(chan, c)) /\ Cardinality(Waiting(chan, c)) = 0
    BY WaitingEmpty DEF TInit, Init
  <2>2. /\ fire[c] = <<>> /\ partial[c] = <<>> /\ left[c] = 0 /\ lastError[c] = FALSE /\ place[c] = "idle"
        /\ failures = {} /\ resync[c] = Quiet /\ answer[c] = "none" /\ \A s \in Subs : rchan[s] = <<>>
    BY DEF TInit, Init
  <2> QED BY <2>1, <2>2 DEF Counted, Outstanding, Reported, Resyncs, Requests, Quiet
<1>3. TransportTypes
  BY EmptyTx, TransportsAssumption DEF TInit, TransportTypes
<1>4. PutSoFar
  BY TransportsAssumption DEF TInit, NoPut, PutSoFar
<1> QED BY <1>1, <1>2, <1>3, <1>4 DEF Inv, RegistryInv

\* Calls that are under way or have returned stay where they are.
Stays ==
    /\ failures \subseteq failures'
    /\ \A d \in Calls : place[d] # "idle" => place'[d] = place[d] /\ result'[d] = result[d]

\* Registrations do not touch the calls.
LEMMA RegistrationInv ==
    ASSUME RegistryInv, NEW s \in Subs, Watch(s) \/ Close(s) \/ \E p \in KeyPrefixes : Unregister(s, p)
    PROVE  RegistryInv' /\ Stays
<1>1. UNCHANGED <<lastRev, chan, failures>> /\ UNCHANGED callVars /\ UNCHANGED resyncVars
  BY DEF Watch, Close, Unregister
<1>2. Types'
  <2>1. /\ subscriptions' \subseteq Subs /\ prefixes' \in [Subs -> SUBSET KeyPrefixes]
        /\ lock' \in Subs \cup {Nobody} /\ late' \subseteq Subs
    <3>1. CASE Watch(s)
      BY <3>1, RegistryAssumption DEF RegistryInv, Types, Watch
    <3>2. CASE Close(s)
      BY <3>2 DEF RegistryInv, Types, Close
    <3>3. ASSUME NEW p \in KeyPrefixes, Unregister(s, p)
          PROVE  /\ subscriptions' \subseteq Subs /\ prefixes' \in [Subs -> SUBSET KeyPrefixes]
                 /\ lock' \in Subs \cup {Nobody} /\ late' \subseteq Subs
      BY <3>3 DEF RegistryInv, Types, Unregister
    <3> QED BY <3>1, <3>2, <3>3
  <2> QED BY <1>1, <2>1 DEF RegistryInv, Types, callVars, resyncVars
<1>3. ASSUME NEW c \in Calls PROVE Counted(c)' /\ Resyncs(c)'
  BY <1>1 DEF RegistryInv, Counted, Outstanding, Reported, Resyncs, callVars, resyncVars
<1> QED BY <1>1, <1>2, <1>3 DEF RegistryInv, Stays, callVars

\* The hits of a transaction are finitely many.
LEMMA HitsFinite ==
    ASSUME Types, NEW tx \in Txs
    PROVE  IsFiniteSet(Hits(tx)) /\ Cardinality(Hits(tx)) \in Nat
<1> DEFINE P == (Subs \X KeyPrefixes) \X Keys
           f == [h \in Hits(tx) |-> <<<<h[1], h[2]>>, h[3]>>]
<1>1. IsFiniteSet(P)
  BY RegistryAssumption, FS_Product
<1>2. \A h \in Hits(tx) : \E a \in Subs, b \in KeyPrefixes, k \in Keys : h = <<a, b, k>>
  BY DEF Hits, Types, Txs
<1>3. f \in Injection(Hits(tx), P)
  <2>1. f \in [Hits(tx) -> P]
    BY <1>2
  <2>2. ASSUME NEW x \in Hits(tx), NEW y \in Hits(tx), f[x] = f[y] PROVE x = y
    BY <1>2, <2>2
  <2> QED BY <2>1, <2>2 DEF Injection, IsInjective
<1>4. IsFiniteSet(Hits(tx))
  <2> HIDE DEF P, f
  <2> QED BY <1>1, <1>3, FS_Injection
<1> QED BY <1>4, FS_CardinalityType

\* The events of a call: one for each hit, all its own.
LEMMA FireTyped ==
    ASSUME Types, NEW c \in Calls, NEW tx \in Txs, NEW q \in SetToSeqs(Hits(tx))
    PROVE  LET es == [n \in DOMAIN q |-> ChangeEvent(c, tx, q, n)] IN
           /\ es \in Seq(Events) /\ Len(es) = Cardinality(Hits(tx))
           /\ \A n \in DOMAIN es : es[n].call = c
<1> DEFINE es == [n \in DOMAIN q |-> ChangeEvent(c, tx, q, n)]
           N == Cardinality(Hits(tx))
<1>1. N \in Nat /\ q \in [1..N -> Hits(tx)]
  BY HitsFinite DEF SetToSeqs
<1>2. ASSUME NEW n \in 1..N PROVE es[n] \in Events /\ es[n].call = c
  <2>1. q[n] \in Hits(tx)
    BY <1>1
  <2>2. q[n][1] \in Subs /\ q[n][3] \in Keys /\ q[n][3] \in DOMAIN tx /\ tx[q[n][3]] \in Nat
    BY <2>1 DEF Hits, Types, Txs
  <2>3. lastRev[q[n][3]] \in Nat
    BY <2>2 DEF Types
  <2>4. es[n] = ChangeEvent(c, tx, q, n)
    BY <1>1
  <2> HIDE DEF es
  <2> QED BY <2>2, <2>3, <2>4 DEF ChangeEvent, Events
<1>3. es \in [1..N -> Events]
  BY <1>1, <1>2
<1>4. DOMAIN es = 1..N
  BY <1>1
<1> HIDE DEF es, N
<1>5. es \in Seq(Events) /\ Len(es) = N
  BY <1>1, <1>3, <1>4
<1> QED BY <1>2, <1>4, <1>5 DEF es, N

\* PropagateChanges: the collector waits for as many confirmations as there are events.
LEMMA ChangesInv ==
    ASSUME RegistryInv, NEW c \in Calls, NEW tx \in Txs, PropagateChanges(c, tx)
    PROVE  RegistryInv' /\ Stays /\ place'[c] = "wait"
<1>1. PICK q \in SetToSeqs(Hits(tx)) :
        fire' = [fire EXCEPT ![c] = [n \in DOMAIN q |-> ChangeEvent(c, tx, q, n)]]
  BY DEF PropagateChanges
<1> DEFINE es == [n \in DOMAIN q |-> ChangeEvent(c, tx, q, n)]
<1>2. /\ es \in Seq(Events) /\ Len(es) = Cardinality(Hits(tx)) /\ Cardinality(Hits(tx)) \in Nat
      /\ \A n \in DOMAIN es : es[n].call = c
  BY FireTyped, HitsFinite DEF RegistryInv
<1>3. fire' = [fire EXCEPT ![c] = es]
  BY <1>1
<1> HIDE DEF es
<1>4. lastRev' \in [Keys -> Nat] /\ told' \in [Keys -> Nat]
  <2>1. \A k \in DOMAIN tx : tx[k] \in Nat
    BY DEF Txs
  <2>2. \A h \in Hits(tx) : h[3] \in DOMAIN tx
    BY DEF Hits
  <2> QED BY <2>1, <2>2 DEF PropagateChanges, revisions, RegistryInv, Types
<1>5. Types'
  BY <1>2, <1>3, <1>4 DEF PropagateChanges, RegistryInv, Types, subsVars
<1>6. ASSUME NEW d \in Calls PROVE Counted(d)' /\ Resyncs(d)'
  <2>1. CASE d = c
    <3>1. place[c] = "idle" /\ left[c] = 0 /\ ~lastError[c] /\ Outstanding(c) <= 0
      BY DEF PropagateChanges, RegistryInv, Counted
    <3>2. Len(fire[c]) \in Nat /\ Cardinality(Waiting(chan, c)) \in Nat /\ Len(partial[c]) \in Nat
      BY FS_CardinalityType DEF RegistryInv, Counted, Types
    <3>3. Cardinality(Waiting(chan, c)) = 0 /\ Len(partial[c]) = 0
      BY <3>1, <3>2 DEF Outstanding
    <3>4. partial[c] = <<>>
      BY <3>3 DEF RegistryInv, Types
    <3>5. ~Reported(c) /\ c \notin failures
      <4>1. ~Reported(c)
        BY <3>1, <3>4 DEF Reported
      <4>2. ~(left[c] > Outstanding(c))
        BY <3>1, <3>2 DEF Outstanding
      <4> QED BY <4>1, <4>2 DEF RegistryInv, Counted
    <3>6. /\ fire'[c] = es /\ left'[c] = Cardinality(Hits(tx)) /\ place'[c] = "wait"
          /\ partial' = partial /\ chan' = chan /\ failures' = failures /\ lastError' = lastError
          /\ resync' = resync /\ rchan' = rchan
      BY <1>3 DEF PropagateChanges, RegistryInv, Types
    <3>7. Outstanding(c)' = Cardinality(Hits(tx))
      BY <1>2, <3>3, <3>6 DEF Outstanding
    <3>8. Counted(c)'
      BY <1>2, <3>5, <3>6, <3>7 DEF Counted, Reported, RegistryInv
    <3>9. Resyncs(c)'
      BY <3>1, <3>6 DEF Resyncs, RegistryInv
    <3> QED BY <2>1, <3>8, <3>9
  <2>2. CASE d # c
    <3>1. /\ fire'[d] = fire[d] /\ left'[d] = left[d] /\ place'[d] = place[d]
          /\ UNCHANGED <<result, partial, lastError, chan, failures, resync, rchan>>
      BY <1>3, <2>2 DEF PropagateChanges, RegistryInv, Types
    <3> QED BY <3>1 DEF RegistryInv, Counted, Outstanding, Reported, Resyncs
  <2> QED BY <2>1, <2>2
<1>7. Stays /\ place'[c] = "wait"
  BY DEF PropagateChanges, RegistryInv, Types, Stays
<1> QED BY <1>5, <1>6, <1>7 DEF RegistryInv

\* Call d is as it was, as far as the registry is concerned.
Untouched(d) ==
    /\ place'[d] = place[d] /\ result'[d] = result[d] /\ fire'[d] = fire[d] /\ partial'[d] = partial[d]
    /\ left'[d] = left[d] /\ lastError'[d] = lastError[d] /\ resync'[d] = resync[d]
    /\ d \in failures' <=> d \in failures
    /\ IsFiniteSet(Waiting(chan', d)) /\ Cardinality(Waiting(chan', d)) = Cardinality(Waiting(chan, d))
    /\ \A s \in Subs : \A n \in DOMAIN rchan'[s] : rchan'[s][n].call = d =>
          \E m \in DOMAIN rchan[s] : rchan[s][m] = rchan'[s][n]

\* Then what holds of it still holds.
LEMMA UntouchedInv ==
    ASSUME NEW d \in Calls, Counted(d), Resyncs(d), Untouched(d)
    PROVE  Counted(d)' /\ Resyncs(d)'
<1>1. Counted(d)'
  BY DEF Untouched, Counted, Outstanding, Reported
<1>2. Resyncs(d)'
  BY DEF Untouched, Resyncs
<1> QED BY <1>1, <1>2

\* The numbers of Outstanding.
LEMMA OutstandingTypes ==
    ASSUME RegistryInv, NEW c \in Calls
    PROVE  /\ Len(fire[c]) \in Nat /\ Cardinality(Waiting(chan, c)) \in Nat /\ Len(partial[c]) \in Nat
           /\ left[c] \in Nat /\ Outstanding(c) \in Nat
BY FS_CardinalityType DEF RegistryInv, Counted, Types, Outstanding

\* Fire: an event goes from the goroutine to the channel.
LEMMA FireInv ==
    ASSUME RegistryInv, NEW c \in Calls, Fire(c)
    PROVE  RegistryInv' /\ Stays
<1> DEFINE e == Head(fire[c])
<1>1. /\ e \in Events /\ e.call = c /\ e.sub \in Subs
      /\ Tail(fire[c]) \in Seq(Events) /\ Len(Tail(fire[c])) = Len(fire[c]) - 1 /\ Len(fire[c]) \in Nat
      /\ \A n \in DOMAIN Tail(fire[c]) : Tail(fire[c])[n].call = c
  <2>1. fire[c] \in Seq(Events) /\ fire[c] # <<>>
    BY DEF Fire, RegistryInv, Types
  <2>2. \A n \in DOMAIN fire[c] : fire[c][n].call = c
    BY DEF RegistryInv, Counted
  <2>3. e \in Events /\ e.call = c
    BY <2>1, <2>2, HeadAndTail
  <2>4. e.sub \in Subs
    BY <2>3 DEF Events
  <2> QED BY <2>1, <2>2, <2>3, <2>4, HeadAndTail
<1>2. /\ chan' = [chan EXCEPT ![e.sub] = Append(@, e)] /\ Len(chan[e.sub]) < Cap
      /\ fire' = [fire EXCEPT ![c] = Tail(@)]
      /\ UNCHANGED <<lastRev, place, result, partial, left, lastError, failures, late>>
      /\ UNCHANGED subsVars /\ UNCHANGED resyncVars
  BY DEF Fire
<1> HIDE DEF e
<1>3. Types'
  <2>1. chan' \in [Subs -> Seq(Events)] /\ \A s \in Subs : Len(chan'[s]) <= Cap
    BY <1>1, <1>2, CapAssumption DEF RegistryInv, Types
  <2>2. fire' \in [Calls -> Seq(Events)]
    BY <1>1, <1>2 DEF RegistryInv, Types
  <2> QED BY <1>2, <2>1, <2>2 DEF RegistryInv, Types, subsVars, resyncVars
<1>4. ASSUME NEW d \in Calls PROVE Counted(d)' /\ Resyncs(d)'
  <2>1. /\ IsFiniteSet(Waiting(chan', d))
        /\ d = c => Cardinality(Waiting(chan', d)) = Cardinality(Waiting(chan, d)) + 1
        /\ d # c => Cardinality(Waiting(chan', d)) = Cardinality(Waiting(chan, d))
    <3>1. IsFiniteSet(Waiting(chan, d)) /\ chan \in [Subs -> Seq(Events)]
      BY DEF RegistryInv, Types, Counted
    <3>2. OneMore(chan, chan', e.sub, e)
      BY <1>1, <1>2, <3>1, AppendIsOneMore
    <3>3. /\ IsFiniteSet(Waiting(chan', d))
          /\ e.call = d => Cardinality(Waiting(chan', d)) = Cardinality(Waiting(chan, d)) + 1
          /\ e.call # d => Cardinality(Waiting(chan', d)) = Cardinality(Waiting(chan, d))
      BY <3>1, <3>2, WaitingOneMore
    <3> QED BY <1>1, <3>3
  <2>2. CASE d # c
    BY <1>2, <2>1, <2>2, UntouchedInv DEF Untouched, RegistryInv, Types, resyncVars
  <2>3. CASE d = c
    <3>1. fire'[c] = Tail(fire[c])
      BY <1>2 DEF RegistryInv, Types
    <3>2. Outstanding(c)' = Outstanding(c)
      <4>1. Len(fire[c]) \in Nat /\ Cardinality(Waiting(chan, c)) \in Nat /\ Len(partial[c]) \in Nat
        BY OutstandingTypes
      <4>2. Outstanding(c)' = (Len(fire[c]) - 1) + (Cardinality(Waiting(chan, c)) + 1) + Len(partial[c])
        BY <1>1, <1>2, <2>1, <2>3, <3>1 DEF Outstanding
      <4> QED BY <4>1, <4>2 DEF Outstanding
    <3>3. Counted(c)'
      BY <1>1, <1>2, <2>1, <2>3, <3>1, <3>2 DEF RegistryInv, Counted, Reported
    <3>4. Resyncs(c)'
      BY <1>2 DEF RegistryInv, Resyncs, resyncVars
    <3> QED BY <2>3, <3>3, <3>4
  <2> QED BY <2>2, <2>3
<1> QED BY <1>2, <1>3, <1>4 DEF RegistryInv, Stays

\* Collect: a confirmation less to wait for, and one less outstanding.
LEMMA CollectInv ==
    ASSUME RegistryInv, NEW c \in Calls, Collect(c)
    PROVE  RegistryInv' /\ Stays
<1>0. lastError' = [lastError EXCEPT ![c] = @ \/ Head(partial[c])]
  BY DEF Collect, collectError
<1>1. /\ partial[c] \in Seq(BOOLEAN) /\ partial[c] # <<>> /\ left[c] > 0 /\ left[c] \in Nat
      /\ partial' = [partial EXCEPT ![c] = Tail(@)] /\ left' = [left EXCEPT ![c] = @ - 1]
      /\ UNCHANGED <<lastRev, place, result, fire, chan, failures, late>>
      /\ UNCHANGED subsVars /\ UNCHANGED resyncVars
  BY DEF Collect, RegistryInv, Types
<1>2. /\ Head(partial[c]) \in BOOLEAN /\ Head(partial[c]) = partial[c][1] /\ 1 \in DOMAIN partial[c]
      /\ Tail(partial[c]) \in Seq(BOOLEAN) /\ Len(Tail(partial[c])) = Len(partial[c]) - 1
      /\ Len(partial[c]) \in Nat /\ DOMAIN partial[c] = 1..Len(partial[c])
      /\ DOMAIN Tail(partial[c]) = 1..(Len(partial[c]) - 1)
      /\ \A n \in 1..(Len(partial[c]) - 1) : Tail(partial[c])[n] = partial[c][n + 1]
  BY <1>1, HeadAndTail
<1>3. partial'[c] = Tail(partial[c]) /\ left'[c] = left[c] - 1
  BY <1>1, <1>2 DEF RegistryInv, Types
<1>7. lastError'[c] = (lastError[c] \/ partial[c][1]) /\ \A d \in Calls \ {c} : lastError'[d] = lastError[d]
  BY <1>0, <1>2 DEF RegistryInv, Types
<1>4. Types'
  <2>1. lastError' \in [Calls -> BOOLEAN]
    BY <1>0 DEF RegistryInv, Types
  <2>2. partial' \in [Calls -> Seq(BOOLEAN)] /\ left' \in [Calls -> Nat]
    <3>1. left[c] - 1 \in Nat
      BY <1>1
    <3> QED BY <1>1, <1>2, <3>1 DEF RegistryInv, Types
  <2>3. \A d \in Calls : Len(partial'[d]) <= DoneCap
    <3>1. Len(partial[c]) <= DoneCap /\ Len(partial'[c]) = Len(partial[c]) - 1
      BY <1>2, <1>3 DEF RegistryInv, Types
    <3>2. Len(partial'[c]) <= DoneCap
      BY <1>2, <3>1, CapAssumption
    <3>3. \A d \in Calls \ {c} : partial'[d] = partial[d]
      BY <1>1 DEF RegistryInv, Types
    <3> QED BY <3>2, <3>3 DEF RegistryInv, Types
  <2> QED BY <1>1, <2>1, <2>2, <2>3 DEF RegistryInv, Types, subsVars, resyncVars
<1>5. Reported(c)' <=> Reported(c)
  <2>1. (\E n \in DOMAIN partial[c] : partial[c][n]) <=>
          partial[c][1] \/ \E n \in 1..(Len(partial[c]) - 1) : partial[c][n + 1]
    <3>1. ASSUME NEW n \in DOMAIN partial[c], partial[c][n], n # 1
          PROVE  \E m \in 1..(Len(partial[c]) - 1) : partial[c][m + 1]
      <4>1. n - 1 \in 1..(Len(partial[c]) - 1) /\ (n - 1) + 1 = n
        BY <1>2, <3>1
      <4> QED BY <3>1, <4>1
    <3>2. \A m \in 1..(Len(partial[c]) - 1) : m + 1 \in DOMAIN partial[c]
      BY <1>2
    <3> QED BY <1>2, <3>1, <3>2
  <2>2. (\E n \in DOMAIN partial'[c] : partial'[c][n]) <=> \E n \in 1..(Len(partial[c]) - 1) : partial[c][n + 1]
    BY <1>2, <1>3
  <2> QED BY <1>7, <2>1, <2>2 DEF Reported
<1>6. ASSUME NEW d \in Calls PROVE Counted(d)' /\ Resyncs(d)'
  <2>1. CASE d # c
    BY <1>1, <1>7, <2>1, UntouchedInv DEF Untouched, RegistryInv, Types, Counted, resyncVars
  <2>2. CASE d = c
    <3>1. /\ Len(fire[c]) \in Nat /\ Cardinality(Waiting(chan, c)) \in Nat /\ Len(partial[c]) \in Nat
          /\ Outstanding(c) \in Nat
      BY OutstandingTypes
    <3>2. Outstanding(c)' = Outstanding(c) - 1
      <4>1. Outstanding(c)' = Len(fire[c]) + Cardinality(Waiting(chan, c)) + (Len(partial[c]) - 1)
        BY <1>1, <1>2, <1>3 DEF Outstanding
      <4>2. PICK f, w, p \in Nat :
              Len(fire[c]) = f /\ Cardinality(Waiting(chan, c)) = w /\ Len(partial[c]) = p
        BY <3>1
      <4>3. Outstanding(c)' = f + w + (p - 1) /\ Outstanding(c) = f + w + p
        BY <4>1, <4>2 DEF Outstanding
      <4> QED BY <4>3
    <3>3. Counted(c)
      BY DEF RegistryInv
    <3>4. IsFiniteSet(Waiting(chan, c))' /\ left'[c] >= Outstanding(c)'
          /\ (c \in failures => Reported(c)' \/ left'[c] > Outstanding(c)')
      BY <1>1, <1>3, <1>5, <3>1, <3>2, <3>3 DEF Counted
    <3>5. place[c] \notin {"idle", "resync"} /\ ~(place[c] = "returned" /\ result[c] # "timeout")
      BY <1>1, <3>3 DEF Counted
    <3>6. Counted(c)'
      BY <1>1, <1>5, <3>3, <3>4, <3>5 DEF Counted
    <3>7. Resyncs(c)'
      BY <1>1 DEF RegistryInv, Resyncs, resyncVars
    <3> QED BY <2>2, <3>6, <3>7
  <2> QED BY <2>1, <2>2
<1> QED BY <1>1, <1>4, <1>6 DEF RegistryInv, Stays

\* CallDone: the collector waits for none, so nothing is outstanding.
LEMMA CallDoneInv ==
    ASSUME RegistryInv, NEW c \in Calls, CallDone(c)
    PROVE  /\ RegistryInv' /\ place'[c] = "returned" /\ failures' = failures
           /\ result'[c] = "error" => c \in failures
           /\ \A d \in Calls \ {c} : place'[d] = place[d] /\ result'[d] = result[d]
<1>1. /\ place[c] = "wait" /\ left[c] = 0 /\ place' = [place EXCEPT ![c] = "returned"]
      /\ UNCHANGED <<lastRev, fire, partial, left, lastError, chan, failures, late>>
      /\ UNCHANGED subsVars /\ UNCHANGED resyncVars
  BY DEF CallDone
<1>2. result' \in [Calls -> {"nil", "error", "timeout", "sent"}] /\ result'[c] \in {"nil", "error"}
      /\ (result'[c] = "error" <=> lastError[c]) /\ \A d \in Calls \ {c} : result'[d] = result[d]
  BY DEF CallDone, RegistryInv, Types
<1>3. place'[c] = "returned" /\ \A d \in Calls \ {c} : place'[d] = place[d]
  BY <1>1 DEF RegistryInv, Types
<1>4. Types'
  BY <1>1, <1>2 DEF RegistryInv, Types, subsVars, resyncVars
<1>5. ASSUME NEW d \in Calls PROVE Counted(d)' /\ Resyncs(d)'
  <2>1. CASE d # c
    BY <1>1, <1>2, <1>3, <2>1, UntouchedInv DEF Untouched, RegistryInv, Counted, resyncVars
  <2>2. CASE d = c
    <3>1. Counted(c)'
      BY <1>1, <1>2, <1>3 DEF RegistryInv, Counted, Outstanding, Reported
    <3>2. Resyncs(c)'
      BY <1>1, <1>3 DEF RegistryInv, Resyncs, resyncVars
    <3> QED BY <2>2, <3>1, <3>2
  <2> QED BY <2>1, <2>2
<1>6. lastError[c] => c \in failures
  BY DEF RegistryInv, Counted, Reported
<1> QED BY <1>1, <1>2, <1>3, <1>4, <1>5, <1>6 DEF RegistryInv

\* CallTimeout, ResyncDone and RestPut return without an answer of the collector.
LEMMA OtherReturnInv ==
    ASSUME RegistryInv, NEW c \in Calls, NEW r \in {"timeout", "sent"},
           place[c] # "returned", (place[c] = "resync" => r = "sent"), (r = "sent" => place[c] # "wait"),
           resync[c].todo = {}, resync[c].ev = <<>>,
           place' = [place EXCEPT ![c] = "returned"], result' = [result EXCEPT ![c] = r],
           resync' = resync \/ resync' = [resync EXCEPT ![c] = Quiet],
           UNCHANGED <<fire, partial, left, lastError, lastRev, rchan, told, dropped, chan, failures, late>>,
           UNCHANGED subsVars
    PROVE  /\ RegistryInv' /\ place'[c] = "returned" /\ failures' = failures /\ result'[c] = r
           /\ \A d \in Calls \ {c} : place'[d] = place[d] /\ result'[d] = result[d]
<1>1. /\ place'[c] = "returned" /\ result'[c] = r
      /\ \A d \in Calls \ {c} : place'[d] = place[d] /\ result'[d] = result[d]
  BY DEF RegistryInv, Types
<1>2. /\ resync' \in [Calls -> [tx : Txs, todo : SUBSET Subs, ev : Seq(ResyncEvents)]]
      /\ resync'[c].todo = {} /\ resync'[c].ev = <<>> /\ \A d \in Calls \ {c} : resync'[d] = resync[d]
  <2>1. Quiet \in [tx : Txs, todo : SUBSET Subs, ev : Seq(ResyncEvents)] /\ Quiet.todo = {} /\ Quiet.ev = <<>>
    BY EmptyTx DEF Quiet
  <2>2. CASE resync' = resync
    BY <2>2 DEF RegistryInv, Types
  <2>3. CASE resync' = [resync EXCEPT ![c] = Quiet]
    BY <2>1, <2>3 DEF RegistryInv, Types
  <2> QED BY <2>2, <2>3
<1>3. Types'
  BY <1>2 DEF RegistryInv, Types, subsVars
<1>4. ASSUME NEW d \in Calls PROVE Counted(d)' /\ Resyncs(d)'
  <2>1. CASE d # c
    BY <1>1, <1>2, <2>1, UntouchedInv DEF Untouched, RegistryInv, Counted
  <2>2. CASE d = c
    <3>1. Counted(c)'
      <4>1. Counted(c) /\ place[c] \in {"idle", "wait", "resync", "returned"}
        BY DEF RegistryInv, Types
      <4>2. r = "timeout" \/ (r = "sent" /\ left[c] = 0 /\ ~lastError[c])
        BY <4>1 DEF Counted
      <4>3. /\ Outstanding(c)' = Outstanding(c) /\ (Reported(c)' <=> Reported(c))
        BY DEF Outstanding, Reported
      <4> QED BY <1>1, <4>1, <4>2, <4>3 DEF Counted
    <3>2. Resyncs(c)'
      BY <1>1, <1>2 DEF RegistryInv, Resyncs
    <3> QED BY <2>2, <3>1, <3>2
  <2> QED BY <2>1, <2>2
<1> QED BY <1>1, <1>3, <1>4 DEF RegistryInv

\* An application handles an event and confirms it, when there is room.
LEMMA AppHandlesInv ==
    ASSUME RegistryInv, NEW s \in Subs, NEW err \in BOOLEAN, AppHandles(s, err)
    PROVE  RegistryInv' /\ Stays
<1>0. PICK e \in Events, c \in Calls : e = Head(chan[s]) /\ c = e.call
  <2>1. chan[s] \in Seq(Events) /\ chan[s] # <<>> /\ Head(chan[s]).call \in Calls
    BY DEF AppHandles, RegistryInv, Types
  <2> QED BY <2>1, HeadAndTail
<1>1. /\ chan[s] \in Seq(Events) /\ chan[s] # <<>> /\ c \in Calls
      /\ chan' = [chan EXCEPT ![s] = Tail(@)]
      /\ partial' = [partial EXCEPT ![c] = Done(@, err)]
      /\ failures' = IF err THEN failures \cup {c} ELSE failures
      /\ UNCHANGED <<lastRev, place, result, fire, left, lastError, late>>
      /\ UNCHANGED subsVars /\ UNCHANGED resyncVars
  BY <1>0 DEF AppHandles, RegistryInv, Types
<1>2. OneLess(chan, chan', s, e)
  BY <1>0, <1>1, TailIsOneLess DEF RegistryInv, Types
<1>3. Stays
  BY <1>1 DEF Stays
<1>4. /\ Len(partial[c]) \in Nat /\ DOMAIN partial[c] = 1..Len(partial[c])
      /\ partial'[c] = Done(partial[c], err) /\ \A d \in Calls \ {c} : partial'[d] = partial[d]
  BY <1>1 DEF RegistryInv, Types
<1>5. \A d \in Calls : /\ IsFiniteSet(Waiting(chan', d))
                       /\ c = d => Cardinality(Waiting(chan', d)) = Cardinality(Waiting(chan, d)) - 1
                       /\ c # d => Cardinality(Waiting(chan', d)) = Cardinality(Waiting(chan, d))
  <2> SUFFICES ASSUME NEW d \in Calls
               PROVE  /\ IsFiniteSet(Waiting(chan', d))
                      /\ c = d => Cardinality(Waiting(chan', d)) = Cardinality(Waiting(chan, d)) - 1
                      /\ c # d => Cardinality(Waiting(chan', d)) = Cardinality(Waiting(chan, d))
    OBVIOUS
  <2>1. IsFiniteSet(Waiting(chan, d))
    BY DEF RegistryInv, Counted
  <2> QED BY <1>0, <1>2, <2>1, WaitingOneLess
<1>6. /\ Len(fire[c]) \in Nat /\ Cardinality(Waiting(chan, c)) \in Nat /\ left[c] \in Nat /\ Outstanding(c) \in Nat
      /\ left[c] >= Outstanding(c)
  BY <1>1, OutstandingTypes DEF RegistryInv, Counted
<1>7. /\ partial'[c] \in Seq(BOOLEAN) /\ Len(partial'[c]) <= DoneCap
      /\ Outstanding(c)' <= Outstanding(c) /\ Outstanding(c)' \in Int
      /\ Reported(c)' => Reported(c) \/ err
      /\ Reported(c) => Reported(c)'
      /\ err => Reported(c)' \/ left[c] > Outstanding(c)'
  <2>1. CASE Len(partial[c]) < DoneCap
    <3>1. /\ partial'[c] \in Seq(BOOLEAN) /\ Len(partial'[c]) = Len(partial[c]) + 1
          /\ DOMAIN partial'[c] = 1..(Len(partial[c]) + 1)
          /\ partial'[c][Len(partial[c]) + 1] = err /\ \A n \in 1..Len(partial[c]) : partial'[c][n] = partial[c][n]
      <4>1. partial'[c] = Append(partial[c], err) /\ partial[c] \in Seq(BOOLEAN)
        BY <1>1, <1>4, <2>1 DEF Done, RegistryInv, Types
      <4> QED BY <4>1, AppendProperties, LenProperties
    <3>2. Outstanding(c)' = Len(fire[c]) + (Cardinality(Waiting(chan, c)) - 1) + (Len(partial[c]) + 1)
      BY <1>1, <1>5, <3>1 DEF Outstanding
    <3>3. Outstanding(c)' = Outstanding(c)
      <4>1. Outstanding(c) = Len(fire[c]) + Cardinality(Waiting(chan, c)) + Len(partial[c])
        BY DEF Outstanding
      <4>2. Len(fire[c]) \in Nat /\ Cardinality(Waiting(chan, c)) \in Nat /\ Len(partial[c]) \in Nat
        BY <1>4, <1>6
      <4> QED BY <3>2, <4>1, <4>2
    <3>4. Reported(c)' => Reported(c) \/ err
      <4>1. ASSUME NEW n \in DOMAIN partial'[c], partial'[c][n] PROVE Reported(c) \/ err
        <5>1. n \in DOMAIN partial[c] \/ n = Len(partial[c]) + 1
          BY <1>4, <3>1
        <5> QED BY <1>4, <3>1, <4>1, <5>1 DEF Reported
      <4> QED BY <1>1, <4>1 DEF Reported
    <3>5. Reported(c) \/ err => Reported(c)'
      <4>1. \A n \in 1..Len(partial[c]) : n \in DOMAIN partial'[c]
        BY <1>4, <3>1
      <4>2. Len(partial[c]) + 1 \in DOMAIN partial'[c]
        BY <1>4, <3>1
      <4> QED BY <1>1, <1>4, <3>1, <4>1, <4>2 DEF Reported
    <3>6. Len(partial'[c]) <= DoneCap
      BY <1>4, <2>1, <3>1, CapAssumption
    <3> QED BY <1>6, <3>1, <3>3, <3>4, <3>5, <3>6
  <2>2. CASE ~(Len(partial[c]) < DoneCap)
    <3>1. partial'[c] = partial[c]
      BY <1>4, <2>2 DEF Done
    <3>2. Outstanding(c)' = Len(fire[c]) + (Cardinality(Waiting(chan, c)) - 1) + Len(partial[c])
      BY <1>1, <1>5, <3>1 DEF Outstanding
    <3>3. Outstanding(c)' = Outstanding(c) - 1
      <4>1. Outstanding(c) = Len(fire[c]) + Cardinality(Waiting(chan, c)) + Len(partial[c])
        BY DEF Outstanding
      <4>2. Len(fire[c]) \in Nat /\ Cardinality(Waiting(chan, c)) \in Nat /\ Len(partial[c]) \in Nat
        BY <1>4, <1>6
      <4> QED BY <3>2, <4>1, <4>2
    <3>4. Reported(c)' <=> Reported(c)
      BY <1>1, <3>1 DEF Reported
    <3>5. partial[c] \in Seq(BOOLEAN) /\ Len(partial[c]) <= DoneCap
      BY <1>1 DEF RegistryInv, Types
    <3> QED BY <1>6, <3>1, <3>3, <3>4, <3>5
  <2> QED BY <2>1, <2>2
<1>8. Types'
  <2>1. chan' \in [Subs -> Seq(Events)] /\ \A t \in Subs : Len(chan'[t]) <= Cap
    <3>1. /\ chan'[s] = Tail(chan[s]) /\ Tail(chan[s]) \in Seq(Events) /\ Len(Tail(chan[s])) = Len(chan[s]) - 1
          /\ Len(chan[s]) \in Nat /\ \A t \in Subs \ {s} : chan'[t] = chan[t]
      BY <1>1, HeadAndTail DEF RegistryInv, Types
    <3>2. Len(chan'[s]) <= Cap
      BY <3>1, CapAssumption DEF RegistryInv, Types
    <3> QED BY <1>1, <3>1, <3>2 DEF RegistryInv, Types
  <2>2. partial' \in [Calls -> Seq(BOOLEAN)] /\ \A d \in Calls : Len(partial'[d]) <= DoneCap
    BY <1>1, <1>4, <1>7 DEF RegistryInv, Types
  <2>3. failures' \subseteq Calls
    BY <1>1 DEF RegistryInv, Types
  <2> QED BY <1>1, <2>1, <2>2, <2>3 DEF RegistryInv, Types, subsVars, resyncVars
<1>9. ASSUME NEW d \in Calls PROVE Counted(d)' /\ Resyncs(d)'
  <2>1. CASE d # c
    BY <1>1, <1>4, <1>5, <2>1, UntouchedInv DEF Untouched, RegistryInv, resyncVars
  <2>2. CASE d = c
    <3>1. Counted(c)
      BY <1>1 DEF RegistryInv
    <3>2. left[c] >= Outstanding(c)' /\ (left[c] > Outstanding(c) => left[c] > Outstanding(c)')
      BY <1>6, <1>7
    <3>3. (Reported(c)' => c \in failures') /\ (c \in failures' => Reported(c)' \/ left[c] > Outstanding(c)')
      BY <1>1, <1>7, <3>1, <3>2 DEF Counted
    <3>4. Counted(c)'
      BY <1>1, <1>5, <3>1, <3>2, <3>3 DEF Counted
    <3>5. Resyncs(c)'
      BY <1>1 DEF RegistryInv, Resyncs, resyncVars
    <3> QED BY <2>2, <3>4, <3>5
  <2> QED BY <2>1, <2>2
<1> QED BY <1>3, <1>8, <1>9 DEF RegistryInv

\* PropagateResync begins: no event yet.
LEMMA ResyncBeginsInv ==
    ASSUME RegistryInv, NEW c \in Calls, NEW tx \in Txs, PropagateResync(c, tx)
    PROVE  RegistryInv' /\ Stays /\ place'[c] = "resync"
<1> DEFINE r == [tx |-> tx, todo |-> subscriptions, ev |-> <<>>]
<1>1. /\ place[c] = "idle" /\ place' = [place EXCEPT ![c] = "resync"]
      /\ resync' = [resync EXCEPT ![c] = r]
      /\ UNCHANGED <<lastRev, result, fire, partial, left, lastError, rchan, told, dropped, chan, failures, late>>
      /\ UNCHANGED subsVars
  BY DEF PropagateResync
<1>2. r \in [tx : Txs, todo : SUBSET Subs, ev : Seq(ResyncEvents)] /\ r.ev = <<>>
  BY DEF RegistryInv, Types
<1> HIDE DEF r
<1>3. Types'
  BY <1>1, <1>2 DEF RegistryInv, Types, subsVars
<1>4. /\ place'[c] = "resync" /\ resync'[c] = r
      /\ \A d \in Calls \ {c} : place'[d] = place[d] /\ resync'[d] = resync[d]
  BY <1>1 DEF RegistryInv, Types
<1>5. ASSUME NEW d \in Calls PROVE Counted(d)' /\ Resyncs(d)'
  <2>1. CASE d # c
    BY <1>1, <1>4, <2>1, UntouchedInv DEF Untouched, RegistryInv, Counted
  <2>2. CASE d = c
    <3>1. Counted(c)'
      BY <1>1, <1>4 DEF RegistryInv, Counted, Outstanding, Reported
    <3>2. Resyncs(c)'
      BY <1>1, <1>2, <1>4 DEF RegistryInv, Resyncs
    <3> QED BY <2>2, <3>1, <3>2
  <2> QED BY <2>1, <2>2
<1> QED BY <1>1, <1>3, <1>4, <1>5 DEF RegistryInv, Stays

\* The next subscription of a resync gets its event made.
LEMMA ResyncNextInv ==
    ASSUME RegistryInv, NEW c \in Calls, NEW s \in Subs, ResyncNext(c, s)
    PROVE  RegistryInv' /\ Stays
<1> DEFINE tx == resync[c].tx
           r == [tx |-> tx, todo |-> resync[c].todo \ {s},
                 ev |-> IF s \notin subscriptions THEN <<>> ELSE <<resyncEvent(c, s, tx)>>]
<1>1. place[c] = "resync" /\ resync[c] \in [tx : Txs, todo : SUBSET Subs, ev : Seq(ResyncEvents)]
  BY DEF ResyncNext, RegistryInv, Types
<1>2. /\ resync' = [resync EXCEPT ![c] = r]
      /\ UNCHANGED <<place, result, fire, partial, left, lastError, rchan, chan, failures, late>>
      /\ UNCHANGED subsVars
  BY DEF ResyncNext
<1>3. \A k \in Keys : resyncValue(tx, k) \in Nat
  BY <1>1 DEF resyncValue, Empty, Txs
<1>4. Watched(s) \subseteq Keys
  BY RegistryAssumption DEF Watched, RegistryInv, Types
<1>5. resyncEvent(c, s, tx) \in ResyncEvents /\ resyncEvent(c, s, tx).call = c
  <2>1. [k \in Watched(s) |-> resyncValue(tx, k)] \in Txs
    BY <1>3, <1>4 DEF Txs
  <2> QED BY <2>1 DEF resyncEvent, ResyncEvents
<1>6. /\ r \in [tx : Txs, todo : SUBSET Subs, ev : Seq(ResyncEvents)]
      /\ \A n \in DOMAIN r.ev : r.ev[n].call = c
  <2>1. CASE s \notin subscriptions
    BY <1>1, <2>1
  <2>2. CASE s \in subscriptions
    <3>1. <<resyncEvent(c, s, tx)>> \in Seq(ResyncEvents)
      BY <1>5
    <3> QED BY <1>1, <1>5, <2>2, <3>1
  <2> QED BY <2>1, <2>2
<1>7. lastRev' \in [Keys -> Nat] /\ told' \in [Keys -> Nat] /\ dropped' \subseteq Keys
  BY <1>3, <1>4 DEF ResyncNext, RegistryInv, Types
<1> HIDE DEF r
<1>8. Types'
  BY <1>2, <1>6, <1>7 DEF RegistryInv, Types, subsVars
<1>9. resync'[c] = r /\ \A d \in Calls \ {c} : resync'[d] = resync[d]
  BY <1>2 DEF RegistryInv, Types
<1>10. ASSUME NEW d \in Calls PROVE Counted(d)' /\ Resyncs(d)'
  <2>1. CASE d # c
    BY <1>2, <1>9, <2>1, UntouchedInv DEF Untouched, RegistryInv, Counted
  <2>2. CASE d = c
    <3>1. Counted(c)'
      BY <1>2 DEF RegistryInv, Counted, Outstanding, Reported
    <3>2. Resyncs(c)'
      BY <1>1, <1>2, <1>6, <1>9 DEF RegistryInv, Resyncs
    <3> QED BY <2>2, <3>1, <3>2
  <2> QED BY <2>1, <2>2
<1> QED BY <1>2, <1>8, <1>10 DEF RegistryInv, Stays

\* The event of a resync is sent.
LEMMA ResyncSendInv ==
    ASSUME RegistryInv, NEW c \in Calls, ResyncSend(c)
    PROVE  RegistryInv' /\ Stays
<1>1. PICK e \in ResyncEvents, r \in [tx : Txs, todo : SUBSET Subs, ev : Seq(ResyncEvents)] :
        /\ e.call = c /\ e.sub \in Subs /\ r.todo = resync[c].todo /\ r.ev = <<>> /\ place[c] = "resync"
        /\ Len(rchan[e.sub]) < Cap /\ rchan' = [rchan EXCEPT ![e.sub] = Append(@, e)]
        /\ resync' = [resync EXCEPT ![c] = r]
  <2>1. resync[c] \in [tx : Txs, todo : SUBSET Subs, ev : Seq(ResyncEvents)] /\ resync[c].ev # <<>>
    BY DEF ResyncSend, RegistryInv, Types
  <2>2. Resyncs(c)
    BY DEF RegistryInv
  <2>3. Head(resync[c].ev) \in ResyncEvents /\ Head(resync[c].ev).call = c
    BY <2>1, <2>2, HeadAndTail DEF Resyncs
  <2>4. Head(resync[c].ev).sub \in Subs
    BY <2>3 DEF ResyncEvents
  <2>5. resync' = [resync EXCEPT ![c] = [tx |-> resync[c].tx, todo |-> resync[c].todo, ev |-> <<>>]]
    <3>1. [resync[c] EXCEPT !.ev = <<>>] = [tx |-> resync[c].tx, todo |-> resync[c].todo, ev |-> <<>>]
      BY <2>1
    <3>2. resync' = [resync EXCEPT ![c] = [resync[c] EXCEPT !.ev = <<>>]]
      BY DEF ResyncSend, RegistryInv, Types
    <3> QED BY <3>1, <3>2
  <2>6. [tx |-> resync[c].tx, todo |-> resync[c].todo, ev |-> <<>>] \in
          [tx : Txs, todo : SUBSET Subs, ev : Seq(ResyncEvents)]
    BY <2>1
  <2> QED BY <2>1, <2>2, <2>3, <2>4, <2>5, <2>6 DEF ResyncSend, Resyncs
<1>2. UNCHANGED <<lastRev, told, dropped, chan, failures, late>> /\ UNCHANGED callVars /\ UNCHANGED subsVars
  BY DEF ResyncSend
<1>3. Types'
  <2>1. rchan' \in [Subs -> Seq(ResyncEvents)] /\ \A s \in Subs : Len(rchan'[s]) <= Cap
    BY <1>1, CapAssumption DEF RegistryInv, Types
  <2> QED BY <1>1, <1>2, <2>1 DEF RegistryInv, Types, callVars, subsVars
<1>4. resync'[c] = r /\ \A d \in Calls \ {c} : resync'[d] = resync[d]
  BY <1>1 DEF RegistryInv, Types
<1>5. \A s \in Subs : \A n \in DOMAIN rchan'[s] :
        rchan'[s][n] = e \/ \E m \in DOMAIN rchan[s] : rchan[s][m] = rchan'[s][n]
  <2> SUFFICES ASSUME NEW s \in Subs, NEW n \in DOMAIN rchan'[s]
               PROVE  rchan'[s][n] = e \/ (n \in DOMAIN rchan[s] /\ rchan[s][n] = rchan'[s][n])
    OBVIOUS
  <2>1. rchan[s] \in Seq(ResyncEvents)
    BY DEF RegistryInv, Types
  <2>2. rchan'[s] = IF s = e.sub THEN Append(rchan[s], e) ELSE rchan[s]
    BY <1>1 DEF RegistryInv, Types
  <2> QED BY <2>1, <2>2, AppendProperties, LenProperties
<1>6. ASSUME NEW d \in Calls PROVE Counted(d)' /\ Resyncs(d)'
  <2>1. CASE d # c
    <3>1. Untouched(d)
      BY <1>1, <1>2, <1>4, <1>5, <2>1 DEF Untouched, RegistryInv, Counted, callVars
    <3> QED BY <3>1, UntouchedInv DEF RegistryInv
  <2>2. CASE d = c
    <3>1. Counted(c)'
      BY <1>2 DEF RegistryInv, Counted, Outstanding, Reported, callVars
    <3>2. Resyncs(c)'
      BY <1>1, <1>2, <1>4 DEF RegistryInv, Resyncs, callVars
    <3> QED BY <2>2, <3>1, <3>2
  <2> QED BY <2>1, <2>2
<1> QED BY <1>2, <1>3, <1>6 DEF RegistryInv, Stays, callVars

\* An application reads a resync event.
LEMMA AppResyncsInv ==
    ASSUME RegistryInv, NEW s \in Subs, AppResyncs(s)
    PROVE  RegistryInv' /\ Stays
<1>1. /\ rchan[s] \in Seq(ResyncEvents) /\ rchan[s] # <<>> /\ rchan' = [rchan EXCEPT ![s] = Tail(@)]
      /\ UNCHANGED <<lastRev, resync, told, dropped, chan, failures, late>>
      /\ UNCHANGED callVars /\ UNCHANGED subsVars
  BY DEF AppResyncs, RegistryInv, Types
<1>2. rchan'[s] = Tail(rchan[s]) /\ \A t \in Subs \ {s} : rchan'[t] = rchan[t]
  BY <1>1 DEF RegistryInv, Types
<1>3. Types'
  <2>1. Len(rchan'[s]) <= Cap /\ rchan'[s] \in Seq(ResyncEvents)
    <3>1. Len(rchan[s]) <= Cap
      BY DEF RegistryInv, Types
    <3> QED BY <1>1, <1>2, <3>1, HeadAndTail, CapAssumption
  <2>2. rchan' \in [Subs -> Seq(ResyncEvents)] /\ \A t \in Subs : Len(rchan'[t]) <= Cap
    BY <1>1, <1>2, <2>1 DEF RegistryInv, Types
  <2> QED BY <1>1, <2>2 DEF RegistryInv, Types, callVars, subsVars
<1>4. \A t \in Subs : \A n \in DOMAIN rchan'[t] : \E m \in DOMAIN rchan[t] : rchan[t][m] = rchan'[t][n]
  BY <1>1, <1>2, HeadAndTail
<1>5. ASSUME NEW d \in Calls PROVE Counted(d)' /\ Resyncs(d)'
  BY <1>1, <1>4, UntouchedInv DEF Untouched, RegistryInv, Counted, callVars
<1> QED BY <1>1, <1>3, <1>5 DEF RegistryInv, Stays, callVars

\* An event of the gRPC stream enters or leaves a channel: no call waits for it.
LEMMA StreamStepInv ==
    ASSUME RegistryInv, NEW t \in Subs, NEW e \in Events, e.call = Stream,
           OneMore(chan, chan', t, e) \/ OneLess(chan, chan', t, e),
           chan' \in [Subs -> Seq(Events)], \A s \in Subs : Len(chan'[s]) <= Cap,
           UNCHANGED <<lastRev, failures, late>>, UNCHANGED <<callVars, subsVars, resyncVars>>
    PROVE  RegistryInv' /\ Stays
<1>1. Types'
  BY DEF RegistryInv, Types, callVars, subsVars, resyncVars
<1>2. ASSUME NEW d \in Calls PROVE Counted(d)' /\ Resyncs(d)'
  <2>1. IsFiniteSet(Waiting(chan, d)) /\ e.call # d
    BY TransportsAssumption DEF RegistryInv, Counted
  <2>2. IsFiniteSet(Waiting(chan', d)) /\ Cardinality(Waiting(chan', d)) = Cardinality(Waiting(chan, d))
    <3>1. CASE OneMore(chan, chan', t, e)
      BY <2>1, <3>1, WaitingOneMore
    <3>2. CASE OneLess(chan, chan', t, e)
      BY <2>1, <3>2, WaitingOneLess
    <3> QED BY <3>1, <3>2
  <2>3. Untouched(d)
    BY <2>2 DEF Untouched, callVars, resyncVars
  <2> QED BY <2>3, UntouchedInv DEF RegistryInv
<1>3. Stays
  BY DEF Stays, callVars
<1> QED BY <1>1, <1>2, <1>3 DEF RegistryInv

\* Send: the next event of the stream goes into its channel.
LEMMA SendInv ==
    ASSUME RegistryInv, TransportTypes, Send
    PROVE  RegistryInv' /\ Stays /\ TransportTypes'
<1>1. PICK e \in Events : e = Head(gloop) /\ e.call = Stream /\ e.sub \in Subs
  <2>1. gloop \in Seq(Events) /\ gloop # <<>> /\ \A n \in DOMAIN gloop : gloop[n].call = Stream
    BY DEF Send, TransportTypes
  <2>2. Head(gloop) \in Events /\ Head(gloop).call = Stream
    BY <2>1, HeadAndTail
  <2> QED BY <2>2 DEF Events
<1>2. /\ gloop \in Seq(Events) /\ gloop # <<>> /\ gloop' = Tail(gloop)
      /\ Len(chan[e.sub]) < Cap /\ chan' = [chan EXCEPT ![e.sub] = Append(@, e)]
      /\ UNCHANGED <<lastRev, failures, late>> /\ UNCHANGED <<callVars, subsVars, resyncVars>>
  BY <1>1 DEF Send, TransportTypes
<1>3. OneMore(chan, chan', e.sub, e)
  BY <1>1, <1>2, AppendIsOneMore DEF RegistryInv, Types
<1>4. chan' \in [Subs -> Seq(Events)] /\ \A s \in Subs : Len(chan'[s]) <= Cap
  BY <1>1, <1>2, CapAssumption DEF RegistryInv, Types
<1>5. RegistryInv' /\ Stays
  BY <1>1, <1>2, <1>3, <1>4, StreamStepInv
<1>6. gloop' \in Seq(Events) /\ \A n \in DOMAIN gloop' : gloop'[n].call = Stream
  BY <1>2, HeadAndTail DEF TransportTypes
<1>7. UNCHANGED <<traffic, items, holder, answer, routes, reg, gsubs, stream>>
  BY DEF Send, txnVars, restVars
<1> QED BY <1>5, <1>6, <1>7 DEF TransportTypes

\* An application takes an event of the stream.
LEMMA StreamTakenInv ==
    ASSUME RegistryInv, TransportTypes, NEW s \in Subs, AppHandlesStream(s)
    PROVE  RegistryInv' /\ Stays /\ TransportTypes'
<1>1. /\ chan[s] \in Seq(Events) /\ chan[s] # <<>> /\ chan' = [chan EXCEPT ![s] = Tail(@)]
      /\ UNCHANGED <<lastRev, failures, late>> /\ UNCHANGED <<callVars, subsVars, resyncVars>>
  BY DEF AppHandlesStream, RegistryInv, Types
<1>2. PICK e \in Events : e = Head(chan[s]) /\ e.call = Stream
  BY <1>1, HeadAndTail DEF AppHandlesStream
<1>3. OneLess(chan, chan', s, e)
  BY <1>1, <1>2, TailIsOneLess DEF RegistryInv, Types
<1>4. chan' \in [Subs -> Seq(Events)] /\ \A t \in Subs : Len(chan'[t]) <= Cap
  <2>1. /\ chan'[s] = Tail(chan[s]) /\ Tail(chan[s]) \in Seq(Events) /\ Len(Tail(chan[s])) = Len(chan[s]) - 1
        /\ Len(chan[s]) \in Nat /\ Len(chan[s]) <= Cap /\ \A t \in Subs \ {s} : chan'[t] = chan[t]
    BY <1>1, HeadAndTail DEF RegistryInv, Types
  <2>2. Len(chan'[s]) <= Cap
    BY <2>1, CapAssumption
  <2> QED BY <1>1, <2>1, <2>2 DEF RegistryInv, Types
<1>5. RegistryInv' /\ Stays
  BY <1>1, <1>2, <1>3, <1>4, StreamStepInv
<1>6. UNCHANGED <<traffic, items, holder, answer, routes, reg, gsubs, stream, gloop>>
  BY DEF AppHandlesStream, txnVars, restVars
<1> QED BY <1>5, <1>6 DEF TransportTypes

\* Receive: the events of a change, one for each subscription and prefix it is found under.
LEMMA ReceiveTypes ==
    ASSUME TransportTypes, Receive
    PROVE  TransportTypes'
<1>1. PICK m \in [key : Keys, val : Nat] : m = Head(stream)
  <2>1. stream \in Seq([key : Keys, val : Nat]) /\ stream # <<>>
    BY DEF Receive, TransportTypes
  <2> QED BY <2>1, HeadAndTail
<1> DEFINE H == {h \in gsubs \X KeyPrefixes : h[2] \in Wanted[h[1]] /\ m.key \in Matches[h[2]]}
<1>2. PICK q \in SetToSeqs(H) : gloop' = [n \in DOMAIN q |-> streamEvent(q[n][1], m)]
  BY <1>1 DEF Receive
<1>3. Cardinality(H) \in Nat
  <2>1. IsFiniteSet(Subs \X KeyPrefixes)
    BY RegistryAssumption, FS_Product
  <2>2. H \subseteq Subs \X KeyPrefixes
    BY DEF TransportTypes
  <2> HIDE DEF H
  <2> QED BY <2>1, <2>2, FS_Subset, FS_CardinalityType
<1>4. q \in [1..Cardinality(H) -> H]
  BY <1>2 DEF SetToSeqs
<1>5. PICK N \in Nat : N = Cardinality(H)
  BY <1>3
<1>6. \A h \in H : h[1] \in Subs
  BY DEF TransportTypes
<1> HIDE DEF H
<1>7. ASSUME NEW n \in 1..N PROVE streamEvent(q[n][1], m) \in Events /\ streamEvent(q[n][1], m).call = Stream
  <2>1. q[n][1] \in Subs
    BY <1>4, <1>5, <1>6
  <2> QED BY <2>1 DEF streamEvent, Events
<1>8. gloop' \in [1..N -> Events] /\ DOMAIN gloop' = 1..N
  BY <1>2, <1>4, <1>5, <1>7
<1>9. gloop' \in Seq(Events) /\ \A n \in DOMAIN gloop' : gloop'[n].call = Stream
  BY <1>2, <1>4, <1>5, <1>7, <1>8
<1>10. stream' \in Seq([key : Keys, val : Nat])
  BY HeadAndTail DEF Receive, TransportTypes
<1>11. UNCHANGED <<traffic, items, holder, answer, routes, reg, gsubs>>
  BY DEF Receive, txnVars, restVars
<1> QED BY <1>9, <1>10, <1>11 DEF TransportTypes

\* The registry is left alone.
LEMMA RegistryIdle ==
    ASSUME RegistryInv, UNCHANGED vars
    PROVE  RegistryInv' /\ Stays
<1>1. Types'
  BY DEF RegistryInv, Types, vars
<1>2. ASSUME NEW d \in Calls PROVE Counted(d)' /\ Resyncs(d)'
  BY DEF RegistryInv, Counted, Outstanding, Reported, Resyncs, vars
<1>3. Stays
  BY DEF Stays, vars
<1> QED BY <1>1, <1>2, <1>3 DEF RegistryInv

\* Steps that answer no request.
LEMMA NoAnswerInv ==
    ASSUME Inv, RegistryInv', Stays, TransportTypes', UNCHANGED <<answer, put>>
    PROVE  Inv'
<1>1. ASSUME NEW c \in Calls PROVE Requests(c)'
  BY DEF Inv, Requests, Stays
<1>2. PutSoFar'
  BY DEF Inv, PutSoFar
<1> QED BY <1>1, <1>2 DEF Inv

----------------------------------------------------------------------------
\* The composite watcher and the applications that watch the registry alone.
LEMMA WatchingInv ==
    ASSUME Inv, NEW s \in Subs,
           \/ WatchRest(s) \/ WatchGrpc(s) \/ AggregatedClose(s) \/ CloseOne(s) \/ LocalWatch(s)
           \/ \E p \in KeyPrefixes : AggregatedUnregister(s, p)
    PROVE  Inv'
<1>1. RegistryInv' /\ Stays
  <2>1. \/ UNCHANGED vars
        \/ Watch(s) \/ Close(s) \/ \E p \in KeyPrefixes : Unregister(s, p)
    BY DEF WatchRest, WatchGrpc, AggregatedClose, CloseOne, LocalWatch, AggregatedUnregister
  <2> QED BY <2>1, RegistryIdle, RegistrationInv DEF Inv
<1>2. UNCHANGED <<traffic, items, holder, answer, stream, gloop, put>>
  BY DEF WatchRest, WatchGrpc, AggregatedClose, CloseOne, LocalWatch, AggregatedUnregister,
         txnVars, restVars, grpcVars, putVars
<1>3. routes' \subseteq KeyPrefixes
  BY RegistryAssumption DEF Inv, TransportTypes, WatchRest, WatchGrpc, AggregatedClose, CloseOne, LocalWatch,
     AggregatedUnregister, restVars
<1>4. reg' \in [Subs -> {"none", "joining", "open", "closed", "refused"}]
  BY DEF Inv, TransportTypes, WatchRest, WatchGrpc, AggregatedClose, CloseOne, LocalWatch, AggregatedUnregister
<1>5. gsubs' \subseteq Subs
  BY DEF Inv, TransportTypes, WatchRest, WatchGrpc, GrpcWatch, AggregatedClose, CloseOne, LocalWatch,
     AggregatedUnregister, grpcVars
<1>6. TransportTypes'
  BY <1>2, <1>3, <1>4, <1>5 DEF Inv, TransportTypes
<1> QED BY <1>1, <1>2, <1>6, NoAnswerInv

\* The goroutines of the calls and the applications.
LEMMA WorkInv ==
    ASSUME Inv, (\E c \in Calls : CallWorks(c)) \/ (\E s \in Subs : AppWorks(s))
    PROVE  Inv'
<1>1. RegistryInv' /\ Stays
  <2>1. ASSUME NEW c \in Calls, CallStep(c) PROVE RegistryInv' /\ Stays
    BY <2>1, FireInv, CollectInv, ResyncSendInv, ResyncNextInv DEF CallStep, Inv
  <2>2. ASSUME NEW s \in Subs, AppStep(s) PROVE RegistryInv' /\ Stays
    BY <2>2, AppHandlesInv, AppResyncsInv DEF AppStep, Inv
  <2> QED BY <2>1, <2>2 DEF CallWorks, AppWorks
<1>2. UNCHANGED <<traffic, items, holder, answer, routes, reg, gsubs, stream, gloop, put>>
  BY DEF CallWorks, AppWorks, txnVars, restVars, grpcVars, putVars
<1>3. TransportTypes'
  BY <1>2 DEF Inv, TransportTypes
<1> QED BY <1>1, <1>2, <1>3, NoAnswerInv

\* A transaction gets an item, or is committed.
LEMMA TxnInv ==
    ASSUME Inv, (\E o \in Ops : TxnOp(o)) \/ (\E c \in Calls : Commit(c))
    PROVE  Inv'
<1>1. ASSUME NEW o \in Ops, TxnOp(o) PROVE Inv'
  <2>1. items' = [j \in DOMAIN items \cup {o.key} |-> IF j = o.key THEN o.val ELSE items[j]]
    BY <1>1 DEF TxnOp, setItem
  <2>2. PICK D \in SUBSET Keys : items \in [D -> Nat]
    BY DEF Inv, TransportTypes, Txs
  <2>3. items' \in [D \cup {o.key} -> Nat] /\ D \cup {o.key} \in SUBSET Keys
    BY <2>1, <2>2, TransportsAssumption
  <2>4. items' \in Txs
    BY <2>3 DEF Txs
  <2>5. UNCHANGED vars /\ UNCHANGED <<traffic, holder, answer, routes, reg, gsubs, stream, gloop, put>>
    BY <1>1 DEF TxnOp, restVars, grpcVars, putVars
  <2>6. TransportTypes'
    BY <2>4, <2>5 DEF Inv, TransportTypes
  <2>7. RegistryInv' /\ Stays
    BY <2>5, RegistryIdle DEF Inv
  <2> QED BY <2>5, <2>6, <2>7, NoAnswerInv
<1>2. ASSUME NEW c \in Calls, Commit(c) PROVE Inv'
  <2>1. items \in Txs
    BY DEF Inv, TransportTypes
  <2>2. RegistryInv' /\ Stays
    BY <1>2, <2>1, ChangesInv, ResyncBeginsInv DEF Inv, Commit
  <2>3. holder' = c /\ UNCHANGED <<traffic, items, answer, routes, reg, gsubs, stream, gloop, put>>
    BY <1>2 DEF Commit, restVars, grpcVars, putVars
  <2>4. TransportTypes'
    BY <2>3 DEF Inv, TransportTypes
  <2> QED BY <2>2, <2>3, <2>4, NoAnswerInv
<1> QED BY <1>1, <1>2

\* The client whose turn it is has not called yet.
LEMMA NextCallIdle == CallLeft => place[NextCall] = "idle"
BY DEF CallLeft, NextCall

\* A DELETE request begins, a PUT request is over at once.
LEMMA RestInv ==
    ASSUME Inv, NEW c \in Calls, NEW k \in Keys, RestDelete(c, k) \/ RestPut(c, k)
    PROVE  Inv'
<1>1. CASE RestDelete(c, k)
  <2>1. [j \in {k} |-> 0] \in Txs
    <3>1. [j \in {k} |-> 0] \in [{k} -> Nat] /\ {k} \in SUBSET Keys
      OBVIOUS
    <3> QED BY <3>1 DEF Txs
  <2>2. RegistryInv' /\ Stays /\ place'[c] = "wait"
    BY <1>1, <2>1, ChangesInv DEF RestDelete, Inv
  <2>3. answer' = [answer EXCEPT ![c] = "pending"]
        /\ UNCHANGED <<traffic, items, holder, routes, reg, gsubs, stream, gloop, put>>
    BY <1>1 DEF RestDelete, txnVars, grpcVars, putVars
  <2>4. TransportTypes'
    BY <2>3 DEF Inv, TransportTypes
  <2>5. ASSUME NEW d \in Calls PROVE Requests(d)'
    <3>1. Requests(d) /\ answer'[d] = IF d = c THEN "pending" ELSE answer[d]
      BY <2>3 DEF Inv, TransportTypes
    <3> QED BY <2>2, <3>1 DEF Requests, Stays
  <2>6. PutSoFar'
    BY <2>3 DEF Inv, PutSoFar
  <2> QED BY <2>2, <2>4, <2>5, <2>6 DEF Inv
<1>2. CASE RestPut(c, k)
  <2>1. place[c] = "idle"
    BY <1>2, NextCallIdle DEF RestPut
  <2>2. resync[c].todo = {} /\ resync[c].ev = <<>>
    BY <2>1 DEF Inv, RegistryInv, Resyncs
  <2>3. /\ place' = [place EXCEPT ![c] = "returned"] /\ result' = [result EXCEPT ![c] = "sent"]
        /\ UNCHANGED <<fire, partial, left, lastError, lastRev, rchan, told, dropped, chan, failures, late>>
        /\ UNCHANGED subsVars /\ resync' = resync
    BY <1>2 DEF RestPut, resyncVars
  <2>4. /\ RegistryInv' /\ place'[c] = "returned" /\ failures' = failures /\ result'[c] = "sent"
        /\ \A d \in Calls \ {c} : place'[d] = place[d] /\ result'[d] = result[d]
    BY <2>1, <2>2, <2>3, OtherReturnInv DEF Inv
  <2>5. PICK a \in {"OK", "dropped"} : answer' = [answer EXCEPT ![c] = a]
    BY <1>2 DEF RestPut
  <2>6. UNCHANGED <<traffic, items, holder, routes, reg, gsubs, stream, gloop, put>>
    BY <1>2 DEF RestPut, txnVars, grpcVars, putVars
  <2>7. TransportTypes'
    BY <2>5, <2>6 DEF Inv, TransportTypes
  <2>8. ASSUME NEW d \in Calls PROVE Requests(d)'
    <3>1. Requests(d) /\ answer'[d] = IF d = c THEN a ELSE answer[d]
      BY <2>5 DEF Inv, TransportTypes
    <3> QED BY <2>4, <3>1 DEF Requests
  <2>9. PutSoFar'
    BY <2>6 DEF Inv, PutSoFar
  <2> QED BY <2>4, <2>7, <2>8, <2>9 DEF Inv
<1> QED BY <1>1, <1>2

\* A call returns, and its request is answered with what it returned.
LEMMA ReturnInv ==
    ASSUME Inv, NEW c \in Calls, Return(c)
    PROVE  Inv'
<1>1. /\ RegistryInv' /\ place[c] # "returned" /\ place'[c] = "returned" /\ failures' = failures
      /\ result'[c] = "error" => c \in failures
      /\ \A d \in Calls \ {c} : place'[d] = place[d] /\ result'[d] = result[d]
  <2>1. CASE CallDone(c)
    <3>1. place[c] # "returned"
      BY <2>1 DEF CallDone
    <3> QED BY <2>1, <3>1, CallDoneInv DEF Inv
  <2>2. CASE CallTimeout(c)
    <3>1. place[c] = "wait" /\ resync[c].todo = {} /\ resync[c].ev = <<>>
      BY <2>2 DEF CallTimeout, Inv, RegistryInv, Resyncs
    <3>2. /\ place' = [place EXCEPT ![c] = "returned"] /\ result' = [result EXCEPT ![c] = "timeout"]
          /\ UNCHANGED <<fire, partial, left, lastError, lastRev, rchan, told, dropped, chan, failures, late>>
          /\ UNCHANGED subsVars /\ resync' = resync
      BY <2>2 DEF CallTimeout, resyncVars
    <3> QED BY <3>1, <3>2, OtherReturnInv DEF Inv
  <2>3. CASE ResyncDone(c)
    <3>1. place[c] = "resync" /\ resync[c].todo = {} /\ resync[c].ev = <<>>
      BY <2>3 DEF ResyncDone
    <3>2. /\ place' = [place EXCEPT ![c] = "returned"] /\ result' = [result EXCEPT ![c] = "sent"]
          /\ UNCHANGED <<fire, partial, left, lastError, lastRev, rchan, told, dropped, chan, failures, late>>
          /\ UNCHANGED subsVars /\ resync' = [resync EXCEPT ![c] = Quiet]
      BY <2>3 DEF ResyncDone
    <3> QED BY <3>1, <3>2, OtherReturnInv DEF Inv
  <2> QED BY <2>1, <2>2, <2>3 DEF Return, CallReturns
<1>2. /\ holder' \in Calls \cup {Nobody}
      /\ UNCHANGED <<traffic, items, routes, reg, gsubs, stream, gloop, put>>
  BY DEF Return, Inv, TransportTypes, grpcVars, putVars
<1>3. \A d \in Calls :
        answer'[d] = IF d = c /\ answer[d] = "pending" THEN restAnswer(result'[c]) ELSE answer[d]
  BY DEF Return, Inv, TransportTypes
<1>4. answer' \in [Calls -> {"none", "pending", "OK", "error", "dropped"}]
  BY DEF Return, restAnswer, Inv, TransportTypes
<1>5. TransportTypes'
  BY <1>2, <1>4 DEF Inv, TransportTypes
<1>6. ASSUME NEW d \in Calls PROVE Requests(d)'
  <2>1. Requests(d)
    BY DEF Inv
  <2> QED BY <1>1, <1>3, <2>1 DEF Requests, restAnswer
<1>7. PutSoFar'
  BY <1>2 DEF Inv, PutSoFar
<1> QED BY <1>1, <1>5, <1>6, <1>7 DEF Inv

\* The composite Put asks the next transport.
LEMMA PutNextInv ==
    ASSUME PutSoFar, PutNext
    PROVE  PutSoFar'
<1>1. PICK a \in {"skipped", "written", "error"} :
        put' = [at |-> put.at + 1, wasError |-> wasError(put.wasError, a), told |-> Append(put.told, a)]
  BY DEF PutNext, PubAnswers
<1>2. put.at \in 1..Len(Writers) /\ Len(Writers) \in Nat
  BY TransportsAssumption, LenProperties DEF PutNext
<1>3. /\ put'.at = put.at + 1 /\ put'.told = Append(put.told, a)
      /\ put'.wasError = (put.wasError \/ a = "error")
  BY <1>1 DEF wasError
<1>4. /\ put.told \in Seq({"skipped", "written", "error"}) /\ Len(put.told) = put.at - 1
      /\ put.wasError \in BOOLEAN
      /\ put.wasError <=> Writers = <<>> \/ \E n \in DOMAIN put.told : put.told[n] = "error"
  BY <1>2 DEF PutSoFar
<1>5. /\ put'.told \in Seq({"skipped", "written", "error"}) /\ Len(put'.told) = put.at
      /\ DOMAIN put'.told = DOMAIN put.told \cup {put.at} /\ put'.told[put.at] = a
      /\ \A n \in DOMAIN put.told : put'.told[n] = put.told[n]
  <2>1. /\ put'.told \in Seq({"skipped", "written", "error"}) /\ Len(put'.told) = Len(put.told) + 1
        /\ put'.told[Len(put.told) + 1] = a /\ \A n \in 1..Len(put.told) : put'.told[n] = put.told[n]
        /\ DOMAIN put.told = 1..Len(put.told) /\ DOMAIN put'.told = 1..Len(put'.told)
    BY <1>3, <1>4, AppendProperties, LenProperties
  <2>2. Len(put'.told) = put.at /\ Len(put.told) + 1 = put.at
    BY <1>2, <1>4, <2>1
  <2> QED BY <1>2, <2>1, <2>2
<1>6. (\E n \in DOMAIN put'.told : put'.told[n] = "error") <=>
        a = "error" \/ \E n \in DOMAIN put.told : put.told[n] = "error"
  BY <1>5
<1>7. put'.wasError <=> Writers = <<>> \/ \E n \in DOMAIN put'.told : put'.told[n] = "error"
  BY <1>3, <1>4, <1>6
<1>8. put'.wasError \in BOOLEAN
  BY <1>3
<1>9. put'.at \in 0..(Len(Writers) + 1) /\ Len(put'.told) = put'.at - 1
  BY <1>2, <1>3, <1>5
<1> QED BY <1>5, <1>7, <1>8, <1>9 DEF PutSoFar

\* The composite writer and its publishers.
LEMMA PutInv ==
    ASSUME Inv, PutBegins \/ PutNext \/ \E w \in ToSet(Writers) : AfterInit(w)
    PROVE  Inv'
<1>1. UNCHANGED vars /\ UNCHANGED <<traffic, items, holder, answer, routes, reg, gsubs, stream, gloop>>
  BY DEF PutBegins, PutNext, AfterInit, txnVars, restVars, grpcVars
<1>2. PutSoFar'
  <2>1. CASE PutBegins
    <3>1. put' = [at |-> 1, wasError |-> (Writers = <<>>), told |-> <<>>]
      BY <2>1 DEF PutBegins
    <3>2. put'.at = 1 /\ put'.told = <<>> /\ put'.told \in Seq({"skipped", "written", "error"})
      BY <3>1
    <3>3. put'.wasError = (Writers = <<>>)
      BY <3>1, Zenon
    <3>4. 1 \in 0..(Len(Writers) + 1)
      BY TransportsAssumption
    <3>5. Len(put'.told) = put'.at - 1
      BY <3>2
    <3>6. ~\E n \in DOMAIN put'.told : put'.told[n] = "error"
      BY <3>2
    <3>7. put'.wasError \in BOOLEAN /\ (put'.wasError <=> Writers = <<>>)
      BY <3>3, Zenon
    <3> QED BY <3>2, <3>4, <3>5, <3>6, <3>7 DEF PutSoFar
  <2>2. CASE PutNext
    BY <2>2, PutNextInv DEF Inv
  <2>3. CASE \E w \in ToSet(Writers) : AfterInit(w)
    BY <2>3 DEF AfterInit, Inv, PutSoFar
  <2> QED BY <2>1, <2>2, <2>3
<1>3. RegistryInv' /\ Stays
  BY <1>1, RegistryIdle DEF Inv
<1>4. TransportTypes'
  BY <1>1 DEF Inv, TransportTypes
<1>5. ASSUME NEW c \in Calls PROVE Requests(c)'
  BY <1>1, <1>3 DEF Inv, Requests, Stays
<1> QED BY <1>2, <1>3, <1>4, <1>5 DEF Inv

\* The gRPC stream.
LEMMA StreamInv ==
    ASSUME Inv, Receive \/ StreamEnds \/ Send \/ \E s \in Subs : AppHandlesStream(s)
    PROVE  Inv'
<1>1. UNCHANGED <<answer, put>>
  BY DEF Receive, StreamEnds, Send, AppHandlesStream, restVars, putVars
<1>2. CASE Receive
  <2>1. UNCHANGED vars
    BY <1>2 DEF Receive
  <2> QED BY <1>1, <1>2, <2>1, RegistryIdle, ReceiveTypes, NoAnswerInv DEF Inv
<1>3. CASE StreamEnds
  <2>1. UNCHANGED vars /\ stream' = <<>> /\ UNCHANGED <<traffic, items, holder, answer, routes, reg, gsubs, gloop>>
    BY <1>3 DEF StreamEnds, txnVars, restVars
  <2>2. TransportTypes'
    BY <2>1 DEF Inv, TransportTypes
  <2> QED BY <1>1, <2>1, <2>2, RegistryIdle, NoAnswerInv DEF Inv
<1>4. CASE Send
  BY <1>1, <1>4, SendInv, NoAnswerInv DEF Inv
<1>5. CASE \E s \in Subs : AppHandlesStream(s)
  BY <1>1, <1>5, StreamTakenInv, NoAnswerInv DEF Inv
<1> QED BY <1>2, <1>3, <1>4, <1>5

\* Every step preserves the invariant.
LEMMA NextInv == Inv /\ [TNext]_tvars => Inv'
<1> SUFFICES ASSUME Inv, [TNext]_tvars PROVE Inv'
  OBVIOUS
<1>1. CASE UNCHANGED tvars
  <2>1. UNCHANGED vars /\ UNCHANGED <<traffic, items, holder, answer, routes, reg, gsubs, stream, gloop, put>>
    BY <1>1 DEF tvars
  <2>2. TransportTypes'
    BY <2>1 DEF Inv, TransportTypes
  <2> QED BY <2>1, <2>2, RegistryIdle, NoAnswerInv DEF Inv
<1>2. ASSUME NEW s \in Subs,
             \/ WatchRest(s) \/ WatchGrpc(s) \/ AggregatedClose(s) \/ CloseOne(s)
             \/ LocalWatch(s) \/ AppWorks(s) \/ AppHandlesStream(s)
             \/ \E p \in KeyPrefixes : AggregatedUnregister(s, p)
      PROVE  Inv'
  BY <1>2, WatchingInv, WorkInv, StreamInv
<1>3. ASSUME NEW c \in Calls,
             Return(c) \/ CallWorks(c) \/ Commit(c) \/ \E k \in Keys : RestDelete(c, k) \/ RestPut(c, k)
      PROVE  Inv'
  BY <1>3, ReturnInv, WorkInv, TxnInv, RestInv
<1>4. CASE \E o \in Ops : TxnOp(o)
  BY <1>4, TxnInv
<1>5. CASE Receive \/ StreamEnds \/ Send
  BY <1>5, StreamInv
<1>6. CASE PutBegins \/ PutNext \/ \E w \in ToSet(Writers) : AfterInit(w)
  BY <1>6, PutInv
<1> QED BY <1>1, <1>2, <1>3, <1>4, <1>5, <1>6 DEF TNext

\* The inductive invariant holds of every behaviour of the transports.
THEOREM TransportsInvHolds == TSpec => []Inv
BY InitInv, NextInv, PTL DEF TSpec

----------------------------------------------------------------------------
\* A collector that waits for none has no event under way.
LEMMA NothingLeft ==
    ASSUME RegistryInv, NEW c \in Calls, left[c] = 0
    PROVE  /\ fire[c] = <<>> /\ partial[c] = <<>>
           /\ \A s \in Subs : \A n \in DOMAIN chan[s] : chan[s][n].call # c
<1>1. Counted(c)
  BY DEF RegistryInv
<1>2. PICK f, w, p \in Nat : Len(fire[c]) = f /\ Cardinality(Waiting(chan, c)) = w /\ Len(partial[c]) = p
  BY OutstandingTypes
<1>3. 0 >= f + w + p
  BY <1>1, <1>2 DEF Counted, Outstanding
<1>4. f = 0 /\ w = 0 /\ p = 0
  BY <1>3
<1>5. fire[c] = <<>> /\ partial[c] = <<>>
  BY <1>2, <1>4 DEF RegistryInv, Types
<1>6. Waiting(chan, c) = {}
  BY <1>1, <1>2, <1>4, FS_EmptySet DEF Counted
<1>7. ASSUME NEW s \in Subs, NEW n \in DOMAIN chan[s], chan[s][n].call = c PROVE FALSE
  <2>1. n \in Nat /\ n \in 1..Len(chan[s])
    BY LenProperties DEF RegistryInv, Types
  <2>2. <<s, n>> \in Waiting(chan, c)
    BY <1>7, <2>1 DEF Waiting
  <2> QED BY <1>6, <2>2
<1> QED BY <1>5, <1>7

\* A call that its collector has answered has no event under way, and its answer is
\* what the applications have reported.
LEMMA AnsweredMeansDone ==
    ASSUME RegistryInv, NEW c \in Calls, place[c] = "returned", result[c] \in {"nil", "error"}
    PROVE  ~UnderWay(c) /\ (c \in failures <=> result[c] = "error")
<1>1. left[c] = 0 /\ Counted(c) /\ Resyncs(c)
  BY DEF RegistryInv, Counted
<1>2. /\ fire[c] = <<>> /\ partial[c] = <<>>
      /\ \A s \in Subs : \A n \in DOMAIN chan[s] : chan[s][n].call # c
  BY <1>1, NothingLeft
<1>3. resync[c].todo = {} /\ resync[c].ev = <<>>
  BY <1>1 DEF Resyncs
<1>4. ASSUME NEW s \in Subs, NEW n \in DOMAIN rchan[s], rchan[s][n].call = c PROVE FALSE
  BY <1>1, <1>4 DEF Resyncs
<1>5. ~UnderWay(c)
  BY <1>2, <1>3, <1>4 DEF UnderWay, ToSet
<1>6. c \in failures <=> lastError[c]
  <2>1. Reported(c) <=> lastError[c]
    BY <1>2 DEF Reported
  <2>2. Outstanding(c) \in Nat
    BY OutstandingTypes
  <2> QED BY <1>1, <2>1, <2>2 DEF Counted
<1> QED BY <1>1, <1>5, <1>6 DEF Counted

\* What callers are told follows from the invariant.
LEMMA InvAnswers == Inv => ConfirmedAnswersTrue
<1> SUFFICES ASSUME Inv PROVE ConfirmedAnswersTrue
  OBVIOUS
<1>1. AnswerIsTrue
  BY AnsweredMeansDone DEF AnswerIsTrue, Inv
<1>2. RequestsAnsweredTruly
  <2> SUFFICES ASSUME NEW c \in Calls
               PROVE  /\ answer[c] = "error" => c \in failures
                      /\ (answer[c] = "OK" /\ result[c] \notin {"timeout", "sent"}) => c \notin failures /\ ~UnderWay(c)
    BY DEF RequestsAnsweredTruly
  <2>1. Requests(c) /\ result[c] \in {"nil", "error", "timeout", "sent"}
    BY DEF Inv, RegistryInv, Types
  <2> QED BY <2>1, AnsweredMeansDone DEF Requests, Inv
<1>3. PutAnswersTruly
  <2> SUFFICES ASSUME put.at = Len(Writers) + 1
               PROVE  /\ Len(put.told) = Len(Writers)
                      /\ put.wasError <=> Writers = <<>> \/ \E n \in DOMAIN put.told : put.told[n] = "error"
    BY DEF PutAnswersTruly
  <2>1. Len(Writers) \in Nat
    BY TransportsAssumption
  <2> QED BY <2>1 DEF Inv, PutSoFar
<1> QED BY <1>1, <1>2, <1>3 DEF ConfirmedAnswersTrue

\* The answers that confirmations decide are true: when the collector answers before
\* the five seconds, PropagateChanges returns nil only if every event was handled
\* without an error and an error only if one was reported, a REST deletion is
\* answered accordingly, and the composite Put fails exactly if one transport did;
\* for any number of subscribers, keys, calls and transports, and any capacity of the
\* channels, those of the confirmations included.
THEOREM ConfirmedAnswersAreTrue == TSpec => []ConfirmedAnswersTrue
BY TransportsInvHolds, InvAnswers, PTL

\* The shapes of the state; in particular no channel exceeds its buffer.
THEOREM TransportsTypes == TSpec => []TransportsTypeOK
<1>1. Inv => TransportsTypeOK
  <2> SUFFICES ASSUME Inv PROVE TransportsTypeOK
    OBVIOUS
  <2>1. ASSUME NEW c \in Calls PROVE left[c] >= Len(fire[c]) + Len(partial[c])
    <3>1. PICK l, f, w, p \in Nat :
            left[c] = l /\ Len(fire[c]) = f /\ Cardinality(Waiting(chan, c)) = w /\ Len(partial[c]) = p
      BY OutstandingTypes DEF Inv
    <3>2. left[c] >= Outstanding(c)
      BY DEF Inv, RegistryInv, Counted
    <3>3. l >= f + w + p
      BY <3>1, <3>2 DEF Outstanding
    <3>4. l >= f + p
      BY <3>3
    <3> QED BY <3>1, <3>4
  <2>2. TypeOK
    BY <2>1 DEF Inv, RegistryInv, Types, TypeOK
  <2>3. DOMAIN items \subseteq Keys
    BY DEF Inv, TransportTypes, Txs
  <2>4. \A n \in DOMAIN gloop : gloop[n].sub \in Subs /\ gloop[n].call = Stream
    <3>1. \A n \in DOMAIN gloop : gloop[n] \in Events
      BY LenProperties DEF Inv, TransportTypes
    <3> QED BY <3>1 DEF Events, Inv, TransportTypes
  <2> QED BY <2>2, <2>3, <2>4 DEF Inv, TransportTypes, TransportsTypeOK
<1> QED BY <1>1, TransportsInvHolds, PTL

\* An element is added to one of the sequences q: it is the last one there.
LEMMA Entered ==
    ASSUME NEW I, NEW E, NEW q \in [I -> Seq(E)], NEW t \in I, NEW e \in E,
           NEW nq, nq = [q EXCEPT ![t] = Append(@, e)]
    PROVE  /\ nq \in [I -> Seq(E)] /\ \A s \in I \ {t} : nq[s] = q[s]
           /\ \A n \in DOMAIN q[t] : n \in DOMAIN nq[t] /\ nq[t][n] = q[t][n]
           /\ \A n \in DOMAIN nq[t] : n \in DOMAIN q[t] \/ (n = Len(q[t]) + 1 /\ nq[t][n] = e)
           /\ Len(q[t]) + 1 \in DOMAIN nq[t] /\ nq[t][Len(q[t]) + 1] = e
<1>1. nq \in [I -> Seq(E)] /\ nq[t] = Append(q[t], e) /\ q[t] \in Seq(E) /\ \A s \in I \ {t} : nq[s] = q[s]
  OBVIOUS
<1>2. PICK N \in Nat : N = Len(q[t])
  BY <1>1
<1>3. /\ DOMAIN q[t] = 1..N /\ DOMAIN nq[t] = 1..(N + 1) /\ nq[t][N + 1] = e
      /\ \A n \in 1..N : nq[t][n] = q[t][n]
  BY <1>1, <1>2, AppendProperties, LenProperties
<1>4. N + 1 \in 1..(N + 1) /\ (\A n \in 1..N : n \in 1..(N + 1)) /\ \A n \in 1..(N + 1) : n = N + 1 \/ n \in 1..N
  OBVIOUS
<1> QED BY <1>1, <1>2, <1>3, <1>4

\* The first element is taken off one of the sequences q: the others move up.
LEMMA Taken ==
    ASSUME NEW I, NEW E, NEW q \in [I -> Seq(E)], NEW t \in I, q[t] # <<>>,
           NEW nq, nq = [q EXCEPT ![t] = Tail(@)]
    PROVE  /\ nq \in [I -> Seq(E)] /\ \A s \in I \ {t} : nq[s] = q[s]
           /\ 1 \in DOMAIN q[t] /\ Head(q[t]) = q[t][1] /\ q[t][1] \in E
           /\ \A n \in DOMAIN nq[t] : n \in Nat /\ n >= 1 /\ n + 1 \in DOMAIN q[t] /\ nq[t][n] = q[t][n + 1]
           /\ \A n \in DOMAIN q[t] : n # 1 => n \in Nat /\ n - 1 \in DOMAIN nq[t] /\ nq[t][n - 1] = q[t][n]
<1>1. nq[t] = Tail(q[t]) /\ q[t] \in Seq(E) /\ \A s \in I \ {t} : nq[s] = q[s]
  OBVIOUS
<1>2. PICK N \in Nat \ {0} :
        /\ DOMAIN q[t] = 1..N /\ DOMAIN nq[t] = 1..(N - 1) /\ nq[t] \in Seq(E)
        /\ Head(q[t]) = q[t][1] /\ q[t][1] \in E /\ \A n \in 1..(N - 1) : nq[t][n] = q[t][n + 1]
  BY <1>1, HeadAndTail
<1>3. \A n \in 1..(N - 1) : n \in Nat /\ n >= 1 /\ n + 1 \in 1..N
  OBVIOUS
<1>4. \A n \in 1..N : n # 1 => n \in Nat /\ n - 1 \in 1..(N - 1) /\ (n - 1) + 1 = n
  OBVIOUS
<1>5. nq \in [I -> Seq(E)]
  BY <1>1, <1>2
<1>6. \A n \in 1..N : n # 1 => nq[t][n - 1] = q[t][n]
  <2> SUFFICES ASSUME NEW n \in 1..N, n # 1 PROVE nq[t][n - 1] = q[t][n]
    OBVIOUS
  <2>1. n - 1 \in 1..(N - 1) /\ (n - 1) + 1 = n
    BY <1>4
  <2> QED BY <1>2, <2>1
<1> QED BY <1>1, <1>2, <1>3, <1>4, <1>5, <1>6

\* The elements of the sequences of the state.
LEMMA Elements ==
    ASSUME Types
    PROVE  /\ \A c \in Calls : \A n \in DOMAIN fire[c] : fire[c][n] \in Events
           /\ \A s \in Subs : \A n \in DOMAIN chan[s] : chan[s][n] \in Events
           /\ \A s \in Subs : \A n \in DOMAIN rchan[s] : rchan[s][n] \in ResyncEvents
           /\ \A c \in Calls : \A n \in DOMAIN resync[c].ev : resync[c].ev[n] \in ResyncEvents
<1>1. \A c \in Calls : fire[c] \in Seq(Events) /\ resync[c].ev \in Seq(ResyncEvents)
  BY DEF Types
<1>2. \A s \in Subs : chan[s] \in Seq(Events) /\ rchan[s] \in Seq(ResyncEvents)
  BY DEF Types
<1> QED BY <1>1, <1>2, LenProperties

\* An order of a finite set lists each of its elements once.
LEMMA AllListed ==
    ASSUME NEW S, IsFiniteSet(S), NEW q \in SetToSeqs(S)
    PROVE  /\ \A h \in S : \E n \in DOMAIN q : q[n] = h
           /\ \A n \in DOMAIN q : q[n] \in S
           /\ \A n, m \in DOMAIN q : q[n] = q[m] => n = m
<1> DEFINE N == Cardinality(S)
<1>1. N \in Nat /\ q \in [1..N -> S] /\ \A n, m \in 1..N : n # m => q[n] # q[m]
  BY FS_CardinalityType DEF SetToSeqs
<1>2. q \in Injection(1..N, S)
  BY <1>1 DEF Injection, IsInjective
<1>3. IsFiniteSet(1..N) /\ Cardinality(1..N) = N
  BY <1>1, FS_Interval
<1>4. q \in Surjection(1..N, S)
  BY <1>2, <1>3, FS_Injection
<1> QED BY <1>1, <1>4 DEF Surjection

----------------------------------------------------------------------------
(* The transaction that is being committed. *)

\* The event carries an item of the transaction.
CarriesItem(e) == e.key \in DOMAIN items /\ e.val = items[e.key]

\* The transaction's lock is held by a call that has not returned, and the events of a
\* call that waits carry the items.
FrozenFor(c) ==
    holder = c => /\ place[c] \in {"wait", "resync"}
                  /\ place[c] = "wait" =>
                       /\ \A n \in DOMAIN fire[c] : CarriesItem(fire[c][n])
                       /\ \A s \in Subs : \A n \in DOMAIN chan[s] : chan[s][n].call = c => CarriesItem(chan[s][n])
Frozen == \A c \in Calls : FrozenFor(c)

\* Steps that leave the calls and the transaction alone and add no event of a call to a channel.
LEMMA FrozenStays ==
    ASSUME Frozen, UNCHANGED <<items, holder, place, fire>>,
           \A s \in Subs : \A n \in DOMAIN chan'[s] :
               chan'[s][n].call \in Calls => \E m \in DOMAIN chan[s] : chan[s][m] = chan'[s][n]
    PROVE  Frozen'
BY DEF Frozen, FrozenFor, CarriesItem

\* A call begins that does not commit the transaction, or is over at once.
LEMMA FrozenOther ==
    ASSUME Frozen, NEW c \in Calls, place[c] = "idle", UNCHANGED <<items, holder, chan>>,
           \A d \in Calls \ {c} : place'[d] = place[d] /\ fire'[d] = fire[d]
    PROVE  Frozen'
BY DEF Frozen, FrozenFor, CarriesItem

\* Every step leaves the transaction that is being committed as it is.
LEMMA FrozenNext == Inv /\ Frozen /\ [TNext]_tvars => Frozen'
<1> SUFFICES ASSUME Inv, Frozen, [TNext]_tvars PROVE Frozen'
  OBVIOUS
<1> USE DEF Inv, RegistryInv
<1>1. CASE UNCHANGED tvars
  BY <1>1, FrozenStays DEF tvars, vars
<1>2. ASSUME NEW s \in Subs,
             \/ WatchRest(s) \/ WatchGrpc(s) \/ AggregatedClose(s) \/ CloseOne(s) \/ LocalWatch(s)
             \/ \E p \in KeyPrefixes : AggregatedUnregister(s, p)
      PROVE  Frozen'
  <2>1. UNCHANGED <<items, holder>>
    BY <1>2 DEF WatchRest, WatchGrpc, AggregatedClose, CloseOne, LocalWatch, AggregatedUnregister, txnVars
  <2>2. UNCHANGED vars \/ Watch(s) \/ Close(s) \/ \E p \in KeyPrefixes : Unregister(s, p)
    BY <1>2 DEF WatchRest, WatchGrpc, AggregatedClose, CloseOne, LocalWatch, AggregatedUnregister
  <2>3. UNCHANGED <<place, fire, chan>>
    BY <2>2 DEF vars, Watch, Close, Unregister, callVars
  <2> QED BY <2>1, <2>3, FrozenStays
<1>3. ASSUME NEW s \in Subs, AppWorks(s) \/ AppHandlesStream(s) PROVE Frozen'
  <2>1. UNCHANGED <<items, holder, place, fire>>
    BY <1>3 DEF AppWorks, AppHandlesStream, AppStep, AppResyncs, AppHandles, txnVars, callVars
  <2>2. chan' = chan \/ (chan[s] # <<>> /\ chan' = [chan EXCEPT ![s] = Tail(@)])
    BY <1>3 DEF AppWorks, AppHandlesStream, AppStep, AppResyncs, AppHandles
  <2>3. ASSUME chan[s] # <<>>, chan' = [chan EXCEPT ![s] = Tail(@)] PROVE Frozen'
    <3>1. chan \in [Subs -> Seq(Events)]
      BY DEF Types
    <3>2. /\ \A t \in Subs \ {s} : chan'[t] = chan[t]
          /\ \A n \in DOMAIN chan'[s] : n + 1 \in DOMAIN chan[s] /\ chan'[s][n] = chan[s][n + 1]
      BY <2>3, <3>1, Taken
    <3> QED BY <2>1, <3>2, FrozenStays
  <2> QED BY <2>1, <2>2, <2>3, FrozenStays
<1>4. ASSUME NEW c \in Calls, CallWorks(c) PROVE Frozen'
  <2>1. UNCHANGED <<items, holder, place>>
    BY <1>4 DEF CallWorks, CallStep, Fire, Collect, ResyncSend, ResyncNext, txnVars, callVars
  <2>2. CASE ~Fire(c)
    <3>1. UNCHANGED <<fire, chan>>
      BY <1>4, <2>2 DEF CallWorks, CallStep, Collect, ResyncSend, ResyncNext, callVars
    <3> QED BY <2>1, <3>1, FrozenStays
  <2>3. CASE Fire(c)
    <3>1. /\ fire \in [Calls -> Seq(Events)] /\ fire[c] # <<>> /\ fire' = [fire EXCEPT ![c] = Tail(@)]
          /\ chan \in [Subs -> Seq(Events)]
      BY <2>3 DEF Types, Fire
    <3>2. /\ \A d \in Calls \ {c} : fire'[d] = fire[d] /\ 1 \in DOMAIN fire[c] /\ Head(fire[c]) = fire[c][1]
          /\ \A n \in DOMAIN fire'[c] : n + 1 \in DOMAIN fire[c] /\ fire'[c][n] = fire[c][n + 1]
          /\ 1 \in DOMAIN fire[c] /\ Head(fire[c]) = fire[c][1] /\ fire[c][1] \in Events
      BY <3>1, Taken
    <3>3. PICK e \in Events : e = fire[c][1] /\ e.sub \in Subs /\ e.call = c
      <4>1. fire[c][1].call = c
        BY <3>2 DEF Counted
      <4> QED BY <3>2, <4>1 DEF Events
    <3>4. chan' = [chan EXCEPT ![e.sub] = Append(@, e)]
      BY <2>3, <3>2, <3>3 DEF Fire
    <3>5. \A s \in Subs : \A n \in DOMAIN chan'[s] :
            chan'[s][n] = e \/ \E m \in DOMAIN chan[s] : chan[s][m] = chan'[s][n]
      <4>1. /\ \A s \in Subs \ {e.sub} : chan'[s] = chan[s]
            /\ \A n \in DOMAIN chan[e.sub] : chan'[e.sub][n] = chan[e.sub][n]
            /\ \A n \in DOMAIN chan'[e.sub] : n \in DOMAIN chan[e.sub] \/ chan'[e.sub][n] = e
        BY <3>1, <3>3, <3>4, Entered
      <4> QED BY <4>1
    <3>6. ASSUME NEW d \in Calls PROVE FrozenFor(d)'
      <4>1. FrozenFor(d)
        BY DEF Frozen
      <4>2. \A n \in DOMAIN fire'[d] : \E m \in DOMAIN fire[d] : fire[d][m] = fire'[d][n]
        BY <3>2
      <4>3. CASE d # c
        BY <2>1, <3>3, <3>5, <4>1, <4>2, <4>3 DEF FrozenFor, CarriesItem
      <4>4. CASE d = c
        BY <2>1, <3>2, <3>3, <3>5, <4>1, <4>2, <4>4 DEF FrozenFor, CarriesItem
      <4> QED BY <4>3, <4>4
    <3> QED BY <3>6 DEF Frozen
  <2> QED BY <2>2, <2>3
<1>5. ASSUME NEW c \in Calls, Return(c) PROVE Frozen'
  <2>1. /\ UNCHANGED <<items, fire, chan>> /\ \A d \in Calls \ {c} : place'[d] = place[d]
        /\ holder' = IF holder = c THEN Nobody ELSE holder
    BY <1>5 DEF Return, CallReturns, CallDone, CallTimeout, ResyncDone, Types
  <2> QED BY <2>1, TransportsAssumption DEF Frozen, FrozenFor, CarriesItem
<1>6. ASSUME NEW c \in Calls, Commit(c) PROVE Frozen'
  <2>1. /\ holder = Nobody /\ holder' = c /\ items' = items /\ chan' = chan /\ place[c] = "idle" /\ items \in Txs
    BY <1>6 DEF Commit, PropagateChanges, PropagateResync, TransportTypes
  <2>2. \A d \in Calls : holder' = d => d = c
    BY <2>1
  <2>3. CASE PropagateResync(c, items)
    <3>1. place'[c] = "resync"
      BY <2>3 DEF PropagateResync, Types
    <3> QED BY <2>2, <3>1 DEF Frozen, FrozenFor
  <2>4. CASE PropagateChanges(c, items)
    <3>1. place'[c] = "wait"
      BY <2>4 DEF PropagateChanges, Types
    <3>2. PICK q \in SetToSeqs(Hits(items)) :
            fire' = [fire EXCEPT ![c] = [n \in DOMAIN q |-> ChangeEvent(c, items, q, n)]]
      BY <2>4 DEF PropagateChanges
    <3>3. fire'[c] = [n \in DOMAIN q |-> ChangeEvent(c, items, q, n)]
      BY <3>2 DEF Types
    <3>4. \A n \in DOMAIN q : q[n] \in Hits(items)
      BY <3>2 DEF SetToSeqs
    <3>5. \A n \in DOMAIN fire'[c] : fire'[c][n].key \in DOMAIN items /\ fire'[c][n].val = items[fire'[c][n].key]
      BY <3>3, <3>4 DEF ChangeEvent, Hits
    <3>6. \A s \in Subs : \A n \in DOMAIN chan'[s] : chan'[s][n].call # c
      BY <2>1, NothingLeft DEF Counted
    <3>7. FrozenFor(c)'
      BY <2>1, <3>1, <3>5, <3>6 DEF FrozenFor, CarriesItem
    <3> QED BY <2>2, <3>7 DEF Frozen, FrozenFor
  <2> QED BY <1>6, <2>3, <2>4 DEF Commit
<1>7. ASSUME NEW c \in Calls, NEW k \in Keys, RestDelete(c, k) \/ RestPut(c, k) PROVE Frozen'
  <2>1. place[c] = "idle" /\ UNCHANGED <<items, holder, chan>>
    BY <1>7, NextCallIdle DEF RestDelete, RestPut, PropagateChanges, txnVars
  <2>2. \A d \in Calls \ {c} : place'[d] = place[d] /\ fire'[d] = fire[d]
    BY <1>7 DEF RestDelete, RestPut, PropagateChanges, Types
  <2> QED BY <2>1, <2>2, FrozenOther
<1>8. CASE \E o \in Ops : TxnOp(o)
  <2>1. holder = Nobody /\ holder' = Nobody
    BY <1>8 DEF TxnOp, setItem
  <2> QED BY <2>1, TransportsAssumption DEF Frozen, FrozenFor
<1>9. CASE Send
  <2>1. UNCHANGED <<items, holder, place, fire>>
    BY <1>9 DEF Send, txnVars, callVars
  <2>2. /\ gloop \in Seq(Events) /\ gloop # <<>> /\ chan \in [Subs -> Seq(Events)]
        /\ \A n \in DOMAIN gloop : gloop[n].call = Stream
    BY <1>9 DEF Types, Send, TransportTypes
  <2>3. PICK e \in Events : e = Head(gloop) /\ e.sub \in Subs /\ e.call = Stream
    <3>1. Head(gloop) \in Events /\ Head(gloop).call = Stream
      BY <2>2, HeadAndTail
    <3> QED BY <3>1 DEF Events
  <2>4. chan' = [chan EXCEPT ![e.sub] = Append(@, e)]
    BY <1>9, <2>3 DEF Send
  <2>5. /\ \A s \in Subs \ {e.sub} : chan'[s] = chan[s]
        /\ \A n \in DOMAIN chan[e.sub] : chan'[e.sub][n] = chan[e.sub][n]
        /\ \A n \in DOMAIN chan'[e.sub] : n \in DOMAIN chan[e.sub] \/ chan'[e.sub][n] = e
    BY <2>2, <2>3, <2>4, Entered
  <2> QED BY <2>1, <2>3, <2>5, FrozenStays, TransportsAssumption
<1>10. CASE Receive \/ StreamEnds
  BY <1>10, FrozenStays DEF Receive, StreamEnds, vars, txnVars
<1>11. CASE PutBegins \/ PutNext \/ \E w \in ToSet(Writers) : AfterInit(w)
  BY <1>11, FrozenStays DEF PutBegins, PutNext, AfterInit, vars, txnVars
<1> QED BY <1>1, <1>2, <1>3, <1>4, <1>5, <1>6, <1>7, <1>8, <1>9, <1>10, <1>11 DEF TNext

\* A transaction that is being committed does not change under the call.
LEMMA CommitsFrozen == TSpec => []CommitIsFrozen
<1>1. TInit => Frozen
  BY TransportsAssumption DEF TInit, Frozen, FrozenFor
<1>2. Inv /\ Frozen => CommitIsFrozen
  <2> SUFFICES ASSUME Inv, Frozen, NEW c \in Calls, holder = c, place[c] = "wait",
                      NEW e \in ToSet(fire[c]) \cup UNION {ToSet(chan[s]) : s \in Subs}, e.call = c
               PROVE  e.key \in DOMAIN items /\ e.val = items[e.key]
    BY DEF CommitIsFrozen
  <2>1. \/ \E n \in DOMAIN fire[c] : e = fire[c][n]
        \/ \E s \in Subs : \E n \in DOMAIN chan[s] : e = chan[s][n]
    BY DEF ToSet
  <2> QED BY <2>1 DEF Frozen, FrozenFor, CarriesItem
<1> QED BY <1>1, <1>2, FrozenNext, TransportsInvHolds, PTL DEF TSpec

----------------------------------------------------------------------------
(* The gRPC stream. *)

\* The event is one of the stream, for key k; the last one of a channel has value v; or
\* there is none.
IsStream(e, k) == e.call = Stream /\ e.key = k
LastStream(q, k, v) ==
    \E n \in DOMAIN q : /\ IsStream(q[n], k) /\ q[n].val = v
                        /\ \A m \in DOMAIN q : m > n => ~IsStream(q[m], k)
NoneOf(q, k) == \A n \in DOMAIN q : ~IsStream(q[n], k)

\* What the application still has to learn of key k is on the way, in the loop or in
\* its channel; if nothing is, it knows the last change.
OnTheWay(s, k) ==
    \/ \E n \in DOMAIN gloop : gloop[n].sub = s /\ gloop[n].key = k
    \/ LastStream(chan[s], k, got[k])
    \/ NoneOf(chan[s], k) /\ gview[s][k] = got[k]

StreamTypes ==
    /\ got \in [Keys -> Nat] /\ gview \in [Subs -> [Keys -> Nat]] /\ Len(stream) <= Len(Script)

\* Before the first change nobody knows of one.
NotBegun ==
    stream = Script => /\ \A k \in Keys : got[k] = 0 /\ \A s \in Subs : gview[s][k] = 0
                       /\ gloop = <<>> /\ \A s \in Subs, k \in Keys : NoneOf(chan[s], k)

\* The events of the loop carry the change that was received last.
LoopTrue == \A n \in DOMAIN gloop : gloop[n].val = got[gloop[n].key]

StreamInvariant ==
    /\ StreamTypes /\ NotBegun /\ LoopTrue
    /\ \A s \in gsubs \ glate : \A p \in Wanted[s] : \A k \in Matches[p] : OnTheWay(s, k)

\* An event enters a channel.
LEMMA StreamEntered ==
    ASSUME NEW q \in Seq(Events), NEW e \in Events, NEW k, NEW v
    PROVE  /\ IsStream(e, k) => LastStream(Append(q, e), k, e.val)
           /\ ~IsStream(e, k) /\ LastStream(q, k, v) => LastStream(Append(q, e), k, v)
           /\ ~IsStream(e, k) /\ NoneOf(q, k) => NoneOf(Append(q, e), k)
<1>1. PICK N \in Nat : N = Len(q)
  OBVIOUS
<1>2. /\ DOMAIN q = 1..N /\ DOMAIN Append(q, e) = 1..(N + 1) /\ Append(q, e)[N + 1] = e
      /\ \A n \in 1..N : Append(q, e)[n] = q[n]
  BY <1>1, AppendProperties, LenProperties
<1> DEFINE a == Append(q, e)
<1> HIDE DEF a
<1>3. /\ DOMAIN q = 1..N /\ DOMAIN a = 1..(N + 1) /\ a[N + 1] = e /\ \A n \in 1..N : a[n] = q[n]
  BY <1>2 DEF a
<1>4. IsStream(e, k) => LastStream(a, k, e.val)
  BY <1>3 DEF LastStream
<1>5. ASSUME ~IsStream(e, k), LastStream(q, k, v) PROVE LastStream(a, k, v)
  <2>1. PICK n \in 1..N : IsStream(q[n], k) /\ q[n].val = v /\ \A m \in 1..N : m > n => ~IsStream(q[m], k)
    BY <1>3, <1>5 DEF LastStream
  <2>2. n \in DOMAIN a /\ a[n] = q[n]
    BY <1>3
  <2>3. \A m \in DOMAIN a : m > n => ~IsStream(a[m], k)
    BY <1>3, <1>5, <2>1
  <2> QED BY <2>1, <2>2, <2>3 DEF LastStream
<1>6. ~IsStream(e, k) /\ NoneOf(q, k) => NoneOf(a, k)
  BY <1>3 DEF NoneOf
<1> QED BY <1>4, <1>5, <1>6 DEF a

\* The first event of a channel is taken.
LEMMA StreamTaken ==
    ASSUME NEW q \in Seq(Events), q # <<>>, NEW k, NEW v
    PROVE  /\ NoneOf(q, k) => NoneOf(Tail(q), k)
           /\ LastStream(q, k, v) => \/ LastStream(Tail(q), k, v)
                                     \/ IsStream(Head(q), k) /\ Head(q).val = v /\ NoneOf(Tail(q), k)
<1>1. PICK N \in Nat \ {0} :
        /\ DOMAIN q = 1..N /\ DOMAIN Tail(q) = 1..(N - 1) /\ Head(q) = q[1]
        /\ \A n \in 1..(N - 1) : Tail(q)[n] = q[n + 1] /\ n + 1 \in 1..N
  BY HeadAndTail
<1> DEFINE a == Tail(q)
<1> HIDE DEF a
<1>2. DOMAIN q = 1..N /\ DOMAIN a = 1..(N - 1) /\ \A n \in 1..(N - 1) : a[n] = q[n + 1] /\ n + 1 \in 1..N
  BY <1>1 DEF a
<1>3. NoneOf(q, k) => NoneOf(a, k)
  BY <1>2 DEF NoneOf
<1>4. ASSUME LastStream(q, k, v)
      PROVE  LastStream(a, k, v) \/ (IsStream(Head(q), k) /\ Head(q).val = v /\ NoneOf(a, k))
  <2>1. PICK n \in 1..N : IsStream(q[n], k) /\ q[n].val = v /\ \A m \in 1..N : m > n => ~IsStream(q[m], k)
    BY <1>2, <1>4 DEF LastStream
  <2>2. CASE n = 1
    <3>1. \A m \in 1..(N - 1) : m + 1 > 1 /\ m + 1 \in 1..N
      OBVIOUS
    <3>2. NoneOf(a, k)
      BY <1>2, <2>1, <2>2, <3>1 DEF NoneOf
    <3> QED BY <1>1, <2>1, <2>2, <3>2
  <2>3. CASE n # 1
    <3>1. n - 1 \in 1..(N - 1) /\ (n - 1) + 1 = n
      BY <2>3
    <3>2. a[n - 1] = q[n]
      BY <1>2, <3>1
    <3>3. \A m \in 1..(N - 1) : m > n - 1 => m + 1 > n /\ m + 1 \in 1..N
      OBVIOUS
    <3>4. \A m \in DOMAIN a : m > n - 1 => ~IsStream(a[m], k)
      BY <1>2, <2>1, <3>3
    <3> QED BY <1>2, <2>1, <3>1, <3>2, <3>4 DEF LastStream
  <2> QED BY <2>2, <2>3
<1> QED BY <1>3, <1>4 DEF a

\* The step leaves the events of the stream in the channels as they are.
SameStream ==
    \A s \in Subs, k \in Keys : /\ \A v \in Nat : LastStream(chan[s], k, v) => LastStream(chan'[s], k, v)
                                /\ NoneOf(chan[s], k) => NoneOf(chan'[s], k)

\* The keys of prefixes are keys.
LEMMA WantedKeys == \A s \in Subs : \A p \in Wanted[s] : p \in KeyPrefixes /\ \A k \in Matches[p] : k \in Keys
BY RegistryAssumption

\* Steps that leave the stream alone; who begins to watch is late or the first.
LEMMA StreamKept ==
    ASSUME StreamInvariant, UNCHANGED <<stream, gloop, got, gview>>, SameStream, gsubs \subseteq Subs,
           \A s \in gsubs' \ glate' : s \in gsubs \ glate \/ (stream = Script /\ s \in Subs)
    PROVE  StreamInvariant'
<1>1. StreamTypes' /\ LoopTrue'
  BY DEF StreamInvariant, StreamTypes, LoopTrue
<1>2. NotBegun'
  BY DEF StreamInvariant, NotBegun, SameStream
<1>3. ASSUME NEW s \in gsubs' \ glate', NEW p \in Wanted[s], NEW k \in Matches[p] PROVE OnTheWay(s, k)'
  <2>1. s \in Subs /\ k \in Keys
    BY WantedKeys
  <2>2. got[k] \in Nat
    BY <2>1 DEF StreamInvariant, StreamTypes
  <2>3. OnTheWay(s, k)
    <3>1. CASE s \in gsubs \ glate
      BY <3>1 DEF StreamInvariant
    <3>2. CASE stream = Script
      BY <2>1, <3>2 DEF StreamInvariant, NotBegun, OnTheWay
    <3> QED BY <3>1, <3>2
  <2> QED BY <2>1, <2>2, <2>3 DEF OnTheWay, SameStream
<1> QED BY <1>1, <1>2, <1>3 DEF StreamInvariant

\* An event that is not one of the stream enters or leaves a channel.
LEMMA CallsEventMoves ==
    ASSUME Types, NEW s \in Subs,
           \/ \E e \in Events : e.call # Stream /\ chan' = [chan EXCEPT ![s] = Append(@, e)]
           \/ chan[s] # <<>> /\ Head(chan[s]).call # Stream /\ chan' = [chan EXCEPT ![s] = Tail(@)]
    PROVE  SameStream
<1>1. chan[s] \in Seq(Events) /\ chan \in [Subs -> Seq(Events)]
  BY DEF Types
<1>2. ASSUME NEW e \in Events, e.call # Stream, chan' = [chan EXCEPT ![s] = Append(@, e)] PROVE SameStream
  <2>1. chan'[s] = Append(chan[s], e) /\ \A t \in Subs \ {s} : chan'[t] = chan[t]
    BY <1>1, <1>2
  <2>2. \A k : ~IsStream(e, k)
    BY <1>2 DEF IsStream
  <2> QED BY <1>1, <2>1, <2>2, StreamEntered DEF SameStream
<1>3. ASSUME chan[s] # <<>>, Head(chan[s]).call # Stream, chan' = [chan EXCEPT ![s] = Tail(@)] PROVE SameStream
  <2>1. chan'[s] = Tail(chan[s]) /\ \A t \in Subs \ {s} : chan'[t] = chan[t]
    BY <1>1, <1>3
  <2>2. \A k : ~IsStream(Head(chan[s]), k)
    BY <1>3 DEF IsStream
  <2> QED BY <1>1, <1>3, <2>1, <2>2, StreamTaken DEF SameStream
<1> QED BY <1>2, <1>3

\* Receive: the subscriptions that watch the key get events of the change.
LEMMA ReceiveFollows ==
    ASSUME Inv, StreamInvariant, Receive
    PROVE  StreamInvariant'
<1> USE DEF Inv
<1>1. PICK m \in [key : Keys, val : Nat] : m = Head(stream)
  <2>1. stream \in Seq([key : Keys, val : Nat]) /\ stream # <<>>
    BY DEF Receive, TransportTypes
  <2> QED BY <2>1, HeadAndTail
<1> DEFINE H == {h \in gsubs \X KeyPrefixes : h[2] \in Wanted[h[1]] /\ m.key \in Matches[h[2]]}
<1>2. PICK q \in SetToSeqs(H) : gloop' = [n \in DOMAIN q |-> streamEvent(q[n][1], m)]
  BY <1>1 DEF Receive
<1>3. IsFiniteSet(H)
  <2>1. IsFiniteSet(Subs \X KeyPrefixes)
    BY RegistryAssumption, FS_Product
  <2>2. H \subseteq Subs \X KeyPrefixes
    BY DEF TransportTypes
  <2> HIDE DEF H
  <2> QED BY <2>1, <2>2, FS_Subset
<1>4. \A h \in H : \E n \in DOMAIN q : q[n] = h
  <2> HIDE DEF H
  <2> QED BY <1>2, <1>3, AllListed
<1>5. /\ got' = [got EXCEPT ![m.key] = m.val] /\ gloop = <<>> /\ stream' = Tail(stream) /\ stream # <<>>
      /\ UNCHANGED <<chan, gview, gsubs, glate>>
  BY <1>1 DEF Receive, vars
<1>6. /\ got' \in [Keys -> Nat] /\ got'[m.key] = m.val /\ \A k \in Keys \ {m.key} : got'[k] = got[k]
  BY <1>1, <1>5 DEF StreamInvariant, StreamTypes
<1>7. \A n \in DOMAIN q : streamEvent(q[n][1], m).key = m.key /\ streamEvent(q[n][1], m).val = m.val
                          /\ streamEvent(q[n][1], m).sub = q[n][1]
  BY DEF streamEvent
<1>8. LoopTrue'
  BY <1>2, <1>6, <1>7 DEF LoopTrue
<1>9. Len(stream') <= Len(Script) /\ stream' # Script
  <2>1. stream \in Seq([key : Keys, val : Nat]) /\ Len(Script) \in Nat /\ Len(stream) <= Len(Script)
    BY TransportsAssumption DEF TransportTypes, StreamInvariant, StreamTypes
  <2>2. Len(stream) \in Nat \ {0} /\ Len(stream') = Len(stream) - 1
    BY <1>5, <2>1, HeadAndTail
  <2>3. Len(stream') < Len(Script)
    BY <2>1, <2>2
  <2> QED BY <2>1, <2>2, <2>3
<1>10. ASSUME NEW s \in gsubs' \ glate', NEW p \in Wanted[s], NEW k \in Matches[p] PROVE OnTheWay(s, k)'
  <2>1. s \in Subs /\ k \in Keys /\ p \in KeyPrefixes /\ s \in gsubs \ glate
    BY <1>5, WantedKeys DEF TransportTypes
  <2>2. CASE k = m.key
    <3>1. <<s, p>> \in H
      BY <2>1, <2>2
    <3>2. PICK n \in DOMAIN q : q[n] = <<s, p>>
      BY <1>4, <3>1
    <3>3. n \in DOMAIN gloop' /\ gloop'[n].sub = s /\ gloop'[n].key = k
      BY <1>2, <1>7, <2>2, <3>2
    <3> QED BY <3>3 DEF OnTheWay
  <2>3. CASE k # m.key
    <3>1. OnTheWay(s, k) /\ got'[k] = got[k]
      BY <1>6, <2>1, <2>3 DEF StreamInvariant
    <3> QED BY <1>5, <3>1 DEF OnTheWay
  <2> QED BY <2>2, <2>3
<1>11. StreamTypes' /\ NotBegun'
  BY <1>5, <1>6, <1>9 DEF StreamInvariant, StreamTypes, NotBegun
<1> QED BY <1>8, <1>10, <1>11 DEF StreamInvariant

\* Send: the event goes from the loop to the end of the channel.
LEMMA SendFollows ==
    ASSUME Inv, StreamInvariant, Send
    PROVE  StreamInvariant'
<1> USE DEF Inv, RegistryInv
<1>1. /\ gloop \in Seq(Events) /\ gloop # <<>> /\ chan \in [Subs -> Seq(Events)] /\ gloop' = Tail(gloop)
      /\ \A n \in DOMAIN gloop : gloop[n].call = Stream
      /\ UNCHANGED <<stream, got, gview, gsubs, glate>>
  BY DEF Types, Send, TransportTypes
<1>2. PICK e \in Events : e = gloop[1] /\ e = Head(gloop) /\ e.sub \in Subs /\ e.call = Stream /\ 1 \in DOMAIN gloop
  <2>1. Head(gloop) \in Events /\ Head(gloop).call = Stream /\ Head(gloop) = gloop[1] /\ 1 \in DOMAIN gloop
    BY <1>1, HeadAndTail
  <2> QED BY <2>1 DEF Events
<1>3. /\ \A n \in DOMAIN gloop' : n + 1 \in DOMAIN gloop /\ gloop'[n] = gloop[n + 1]
      /\ \A n \in DOMAIN gloop : n # 1 => n - 1 \in DOMAIN gloop' /\ gloop'[n - 1] = gloop[n]
  <2>1. PICK N \in Nat \ {0} :
          /\ DOMAIN gloop = 1..N /\ DOMAIN gloop' = 1..(N - 1)
          /\ \A n \in 1..(N - 1) : gloop'[n] = gloop[n + 1] /\ n + 1 \in 1..N
    BY <1>1, HeadAndTail
  <2>2. ASSUME NEW n \in 1..N, n # 1 PROVE n - 1 \in DOMAIN gloop' /\ gloop'[n - 1] = gloop[n]
    <3>1. n - 1 \in 1..(N - 1) /\ (n - 1) + 1 = n
      BY <2>2
    <3> QED BY <2>1, <3>1
  <2> QED BY <2>1, <2>2
<1>4. chan' = [chan EXCEPT ![e.sub] = Append(@, e)]
  BY <1>2 DEF Send
<1>5. chan'[e.sub] = Append(chan[e.sub], e) /\ \A s \in Subs \ {e.sub} : chan'[s] = chan[s]
  BY <1>1, <1>2, <1>4
<1>6. e.val = got[e.key]
  BY <1>2 DEF StreamInvariant, LoopTrue
<1>7. LoopTrue' /\ StreamTypes'
  BY <1>1, <1>3 DEF StreamInvariant, LoopTrue, StreamTypes
<1>8. NotBegun'
  BY <1>1 DEF StreamInvariant, NotBegun
<1>9. ASSUME NEW s \in gsubs' \ glate', NEW p \in Wanted[s], NEW k \in Matches[p] PROVE OnTheWay(s, k)'
  <2>1. s \in Subs /\ k \in Keys /\ OnTheWay(s, k) /\ got'[k] = got[k] /\ chan[s] \in Seq(Events)
    BY <1>1, WantedKeys DEF StreamInvariant, TransportTypes
  <2>2. CASE e.sub = s /\ e.key = k
    <3>1. LastStream(chan'[s], k, got[k])
      BY <1>2, <1>5, <1>6, <2>1, <2>2, StreamEntered DEF IsStream
    <3> QED BY <2>1, <3>1 DEF OnTheWay
  <2>3. CASE e.sub # s
    <3>1. \A n \in DOMAIN gloop : gloop[n].sub = s => n # 1
      BY <1>2, <2>3
    <3>2. ASSUME NEW n \in DOMAIN gloop, gloop[n].sub = s, gloop[n].key = k
          PROVE  \E m \in DOMAIN gloop' : gloop'[m].sub = s /\ gloop'[m].key = k
      <4>1. n - 1 \in DOMAIN gloop' /\ gloop'[n - 1] = gloop[n]
        BY <1>3, <3>1, <3>2
      <4> QED BY <3>2, <4>1
    <3>3. chan'[s] = chan[s] /\ gview' = gview
      BY <1>1, <1>5, <2>1, <2>3
    <3> QED BY <2>1, <3>2, <3>3 DEF OnTheWay
  <2>4. CASE e.sub = s /\ e.key # k
    <3>1. \A n \in DOMAIN gloop : gloop[n].key = k => n # 1
      BY <1>2, <2>4
    <3>2. ~IsStream(e, k)
      BY <2>4 DEF IsStream
    <3>3. /\ LastStream(chan[s], k, got[k]) => LastStream(chan'[s], k, got[k])
          /\ NoneOf(chan[s], k) => NoneOf(chan'[s], k)
      BY <1>5, <2>1, <2>4, <3>2, StreamEntered
    <3> QED BY <1>1, <1>3, <2>1, <3>1, <3>3 DEF OnTheWay
  <2> QED BY <2>2, <2>3, <2>4
<1> QED BY <1>7, <1>8, <1>9 DEF StreamInvariant

\* An application takes an event of the stream: it was the last one for its key, or
\* the last one is still on the way.
LEMMA StreamTakenFollows ==
    ASSUME Inv, StreamInvariant, NEW t \in Subs, AppHandlesStream(t)
    PROVE  StreamInvariant'
<1> USE DEF Inv, RegistryInv
<1>1. /\ chan \in [Subs -> Seq(Events)] /\ chan[t] # <<>> /\ chan' = [chan EXCEPT ![t] = Tail(@)]
      /\ UNCHANGED <<stream, gloop, got, gsubs, glate>>
  BY DEF Types, AppHandlesStream
<1>2. PICK e \in Events : e = Head(chan[t]) /\ e.call = Stream /\ e = chan[t][1] /\ 1 \in DOMAIN chan[t]
  BY <1>1, HeadAndTail DEF AppHandlesStream
<1>3. e.key \in Keys /\ e.val \in Nat
  BY <1>2 DEF Events
<1>4. /\ gview' \in [Subs -> [Keys -> Nat]] /\ gview'[t][e.key] = e.val
      /\ \A s \in Subs, k \in Keys : s # t \/ k # e.key => gview'[s][k] = gview[s][k]
  BY <1>2, <1>3 DEF AppHandlesStream, StreamInvariant, StreamTypes
<1>5. chan'[t] = Tail(chan[t]) /\ \A s \in Subs \ {t} : chan'[s] = chan[s]
  BY <1>1
<1>6. LoopTrue' /\ StreamTypes'
  BY <1>1, <1>4 DEF StreamInvariant, LoopTrue, StreamTypes
<1>7. stream # Script
  <2>1. ~NoneOf(chan[t], e.key)
    BY <1>2 DEF NoneOf, IsStream
  <2> QED BY <1>3, <2>1 DEF StreamInvariant, NotBegun
<1>8. NotBegun'
  BY <1>1, <1>7 DEF NotBegun
<1>9. ASSUME NEW s \in gsubs' \ glate', NEW p \in Wanted[s], NEW k \in Matches[p] PROVE OnTheWay(s, k)'
  <2>1. s \in Subs /\ k \in Keys /\ OnTheWay(s, k) /\ got'[k] = got[k] /\ chan[s] \in Seq(Events)
    BY <1>1, WantedKeys DEF StreamInvariant, TransportTypes
  <2>2. CASE s # t
    BY <1>1, <1>4, <1>5, <2>1, <2>2 DEF OnTheWay
  <2>3. CASE s = t
    <3>1. /\ NoneOf(chan[s], k) => NoneOf(chan'[s], k) /\ k # e.key
          /\ LastStream(chan[s], k, got[k]) =>
               \/ LastStream(chan'[s], k, got[k])
               \/ k = e.key /\ e.val = got[k] /\ NoneOf(chan'[s], k)
      <4>1. NoneOf(chan[s], k) => k # e.key
        BY <1>2, <2>3 DEF NoneOf, IsStream
      <4>2. IsStream(e, k) => k = e.key
        BY DEF IsStream
      <4>3. /\ NoneOf(chan[t], k) => NoneOf(Tail(chan[t]), k)
            /\ LastStream(chan[t], k, got[k]) =>
                 \/ LastStream(Tail(chan[t]), k, got[k])
                 \/ IsStream(Head(chan[t]), k) /\ Head(chan[t]).val = got[k] /\ NoneOf(Tail(chan[t]), k)
        BY <1>1, StreamTaken
      <4> QED BY <1>2, <1>5, <2>3, <4>1, <4>2, <4>3
    <3> QED BY <1>1, <1>4, <2>1, <2>3, <3>1 DEF OnTheWay
  <2> QED BY <2>2, <2>3
<1> QED BY <1>6, <1>8, <1>9 DEF StreamInvariant

\* Every step keeps what is on the way of the stream.
LEMMA StreamNext == Inv /\ StreamInvariant /\ [TNext]_tvars => StreamInvariant'
<1> SUFFICES ASSUME Inv, StreamInvariant, [TNext]_tvars PROVE StreamInvariant'
  OBVIOUS
<1> USE DEF Inv, RegistryInv
<1>a. gsubs \subseteq Subs
  BY DEF TransportTypes
<1>b. ASSUME UNCHANGED <<stream, gloop, got, gview, gsubs, glate>>, SameStream PROVE StreamInvariant'
  BY <1>a, <1>b, StreamKept
<1>c. ASSUME chan' = chan PROVE SameStream
  BY <1>c DEF SameStream
<1>1. CASE UNCHANGED tvars
  BY <1>1, <1>b, <1>c DEF tvars, vars
<1>2. ASSUME NEW s \in Subs,
             \/ WatchRest(s) \/ WatchGrpc(s) \/ AggregatedClose(s) \/ CloseOne(s) \/ LocalWatch(s)
             \/ \E p \in KeyPrefixes : AggregatedUnregister(s, p)
      PROVE  StreamInvariant'
  <2>1. UNCHANGED <<stream, gloop, got, gview>>
    BY <1>2 DEF WatchRest, WatchGrpc, AggregatedClose, CloseOne, LocalWatch, AggregatedUnregister, grpcVars
  <2>2. UNCHANGED vars \/ Watch(s) \/ Close(s) \/ \E p \in KeyPrefixes : Unregister(s, p)
    BY <1>2 DEF WatchRest, WatchGrpc, AggregatedClose, CloseOne, LocalWatch, AggregatedUnregister
  <2>3. chan' = chan
    BY <2>2 DEF vars, Watch, Close, Unregister
  <2>4. \A t \in gsubs' \ glate' : t \in gsubs \ glate \/ (stream = Script /\ t \in Subs)
    BY <1>2 DEF WatchRest, WatchGrpc, GrpcWatch, AggregatedClose, CloseOne, LocalWatch, AggregatedUnregister, grpcVars
  <2> QED BY <1>a, <1>c, <2>1, <2>3, <2>4, StreamKept
<1>3. ASSUME NEW s \in Subs, AppWorks(s) PROVE StreamInvariant'
  <2>1. UNCHANGED <<stream, gloop, got, gview, gsubs, glate>>
    BY <1>3 DEF AppWorks, grpcVars
  <2>2. CASE AppResyncs(s)
    BY <1>b, <1>c, <2>1, <2>2 DEF AppResyncs
  <2>3. ASSUME NEW err \in BOOLEAN, AppHandles(s, err) PROVE StreamInvariant'
    <3>1. chan[s] # <<>> /\ Head(chan[s]).call # Stream /\ chan' = [chan EXCEPT ![s] = Tail(@)]
      BY <2>3, TransportsAssumption DEF AppHandles
    <3> QED BY <1>b, <2>1, <3>1, CallsEventMoves
  <2> QED BY <1>3, <2>2, <2>3 DEF AppWorks, AppStep
<1>4. ASSUME NEW c \in Calls, CallWorks(c) PROVE StreamInvariant'
  <2>1. UNCHANGED <<stream, gloop, got, gview, gsubs, glate>>
    BY <1>4 DEF CallWorks, grpcVars
  <2>2. CASE ~Fire(c)
    <3>1. chan' = chan
      BY <1>4, <2>2 DEF CallWorks, CallStep, Collect, ResyncSend, ResyncNext
    <3> QED BY <1>b, <1>c, <2>1, <3>1
  <2>3. CASE Fire(c)
    <3>1. PICK e \in Events : e = Head(fire[c]) /\ e.call = c /\ e.sub \in Subs
      <4>1. fire[c] \in Seq(Events) /\ fire[c] # <<>> /\ \A n \in DOMAIN fire[c] : fire[c][n].call = c
        BY <2>3 DEF Fire, Types, Counted
      <4>2. Head(fire[c]) \in Events /\ Head(fire[c]).call = c
        BY <4>1, HeadAndTail
      <4> QED BY <4>2 DEF Events
    <3>2. e.call # Stream /\ chan' = [chan EXCEPT ![e.sub] = Append(@, e)]
      BY <2>3, <3>1, TransportsAssumption DEF Fire
    <3> QED BY <1>b, <2>1, <3>1, <3>2, CallsEventMoves
  <2> QED BY <2>2, <2>3
<1>5. ASSUME NEW c \in Calls, Return(c) \/ Commit(c) \/ \E k \in Keys : RestDelete(c, k) \/ RestPut(c, k)
      PROVE  StreamInvariant'
  <2>1. UNCHANGED <<stream, gloop, got, gview, gsubs, glate>> /\ chan' = chan
    BY <1>5 DEF Return, CallReturns, CallDone, CallTimeout, ResyncDone, Commit, RestDelete, RestPut,
       PropagateChanges, PropagateResync, grpcVars
  <2> QED BY <1>b, <1>c, <2>1
<1>6. CASE (\E o \in Ops : TxnOp(o)) \/ PutBegins \/ PutNext \/ \E w \in ToSet(Writers) : AfterInit(w)
  <2>1. UNCHANGED <<stream, gloop, got, gview, gsubs, glate>> /\ chan' = chan
    BY <1>6 DEF TxnOp, PutBegins, PutNext, AfterInit, vars, grpcVars
  <2> QED BY <1>b, <1>c, <2>1
<1>7. CASE StreamEnds
  <2>1. stream # <<>> /\ stream' = <<>> /\ UNCHANGED <<gloop, got, gview, gsubs, glate, chan>>
    BY <1>7 DEF StreamEnds, vars
  <2>2. Len(stream') <= Len(Script) /\ stream' # Script
    <3>1. stream \in Seq([key : Keys, val : Nat]) /\ Len(Script) \in Nat /\ Len(stream) <= Len(Script)
      BY TransportsAssumption DEF TransportTypes, StreamInvariant, StreamTypes
    <3>2. Len(stream) \in Nat \ {0}
      BY <2>1, <3>1, HeadAndTail
    <3>3. Len(stream') = 0 /\ Len(Script) # 0
      BY <2>1, <3>1, <3>2
    <3> QED BY <3>1, <3>3
  <2>3. StreamTypes' /\ NotBegun' /\ LoopTrue'
    BY <2>1, <2>2 DEF StreamInvariant, StreamTypes, NotBegun, LoopTrue
  <2>4. \A s \in Subs, k \in Keys : OnTheWay(s, k) => OnTheWay(s, k)'
    BY <2>1 DEF OnTheWay
  <2>5. ASSUME NEW s \in gsubs \ glate, NEW p \in Wanted[s], NEW k \in Matches[p] PROVE OnTheWay(s, k)'
    <3>1. s \in Subs /\ k \in Keys /\ OnTheWay(s, k)
      BY <1>a, WantedKeys DEF StreamInvariant
    <3> QED BY <2>4, <3>1
  <2> QED BY <2>1, <2>3, <2>5 DEF StreamInvariant
<1> QED BY <1>1, <1>2, <1>3, <1>4, <1>5, <1>6, <1>7, ReceiveFollows, SendFollows, StreamTakenFollows DEF TNext

\* Who has watched from the start of the stream learns the last change of every key it
\* watches.
LEMMA StreamIsFollowed == TSpec => []StreamFollowed
<1>1. TInit => StreamInvariant
  <2> SUFFICES ASSUME TInit PROVE StreamInvariant
    OBVIOUS
  <2>1. StreamTypes /\ LoopTrue
    BY TransportsAssumption DEF TInit, StreamTypes, LoopTrue
  <2>2. NotBegun
    BY DEF TInit, Init, NotBegun, NoneOf
  <2> QED BY <2>1, <2>2 DEF TInit, StreamInvariant
<1>2. Inv /\ StreamInvariant => StreamFollowed
  <2> SUFFICES ASSUME Inv, StreamInvariant, gloop = <<>>, NEW s \in gsubs \ glate,
                      \A e \in ToSet(chan[s]) : e.call # Stream,
                      NEW k \in UNION {Matches[p] : p \in Wanted[s]}
               PROVE  gview[s][k] = got[k]
    BY DEF StreamFollowed
  <2>1. OnTheWay(s, k)
    BY DEF StreamInvariant
  <2>2. \A n \in DOMAIN chan[s] : chan[s][n].call # Stream
    BY DEF ToSet
  <2> QED BY <2>1, <2>2 DEF OnTheWay, LastStream, IsStream
<1> QED BY <1>1, <1>2, StreamNext, TransportsInvHolds, PTL DEF TSpec

----------------------------------------------------------------------------
(* What applications know, as long as calls do not overlap. *)

\* A change event that a call has still to send to s, or that waits in a channel, for key k.
IsFor(e, s, k) == e.sub = s /\ e.key = k
OfCall(e, k) == e.call \in Calls /\ e.key = k
Has(q, k) == \E n \in DOMAIN q : OfCall(q[n], k)
OnceIn(q, k) == \A n, m \in DOMAIN q : OfCall(q[n], k) /\ OfCall(q[m], k) => n = m
ToSend(s, k) == \E c \in Calls : \E n \in DOMAIN fire[c] : IsFor(fire[c][n], s, k)

\* What holds whether calls overlap or not: the registry's last value of a key is what
\* the callers last said, unless a resync has left it out.
Known ==
    /\ view \in [Subs -> [Keys -> Nat]] /\ \A s \in Subs : prefixes[s] \subseteq Wanted[s]
    /\ (\A c \in Calls : place[c] = "idle") => \A k \in Keys : told[k] = 0 /\ \A s \in Subs : view[s][k] = 0
    /\ \A k \in Keys \ dropped : lastRev[k] = told[k]
    /\ \A c \in Calls : \A n \in DOMAIN resync[c].ev : n = 1

\* One call at a time is under way.
Alone == \A c, d \in Calls : UnderWay(c) /\ UnderWay(d) => c = d

\* The events carry what the callers last said.
ChangesTold ==
    /\ \A c \in Calls : \A n \in DOMAIN fire[c] : fire[c][n].val = told[fire[c][n].key]
    /\ \A s \in Subs : \A n \in DOMAIN chan[s] : chan[s][n].call \in Calls => chan[s][n].val = told[chan[s][n].key]
Says(e, f) == \A k \in DOMAIN e.vals : e.vals[k] = f[k]
ResyncsTold ==
    /\ \A c \in Calls : \A n \in DOMAIN resync[c].ev : Says(resync[c].ev[n], told)
    /\ \A s \in Subs : \A n \in DOMAIN rchan[s] : Says(rchan[s][n], told)

\* A resync that is not through with the subscriptions: those it is through with, and its
\* events, have the values of its data.
Data(c) == [k \in Keys |-> resyncValue(resync[c].tx, k)]
ResyncData(c) ==
    resync[c].todo # {} =>
        /\ \A s \in (subscriptions \ late) \ resync[c].todo : \A k \in Watched(s) : told[k] = Data(c)[k]
        /\ \A d \in Calls : \A n \in DOMAIN resync[d].ev : Says(resync[d].ev[n], Data(c))
        /\ \A s \in Subs : \A n \in DOMAIN rchan[s] : Says(rchan[s][n], Data(c))

\* Something that will tell s of key k is under way.
Coming(s, k) ==
    \/ ToSend(s, k) \/ Has(chan[s], k)
    \/ \E c \in Calls : s \in resync[c].todo
    \/ \E c \in Calls : \E n \in DOMAIN resync[c].ev : resync[c].ev[n].sub = s /\ k \in DOMAIN resync[c].ev[n].vals
    \/ \E n \in DOMAIN rchan[s] : k \in DOMAIN rchan[s][n].vals
Covered == \A s \in subscriptions \ late : \A k \in Watched(s) : view[s][k] = told[k] \/ Coming(s, k)

\* Only s watches k, and under one prefix: then there is at most one event for it, and
\* its previous value is the one s has.
Only(s, k) ==
    /\ Cardinality({p \in KeyPrefixes : k \in Matches[p]}) = 1
    /\ \A t \in Subs \ {s} : \A p \in Wanted[t] : k \notin Matches[p]
PrevAs(s, k) ==
    /\ \A c \in Calls : \A n, m \in DOMAIN fire[c] : IsFor(fire[c][n], s, k) /\ IsFor(fire[c][m], s, k) => n = m
    /\ OnceIn(chan[s], k) /\ ~(ToSend(s, k) /\ Has(chan[s], k))
    /\ k \notin dropped =>
         /\ \A c \in Calls : \A n \in DOMAIN fire[c] : IsFor(fire[c][n], s, k) => fire[c][n].prev = view[s][k]
         /\ \A n \in DOMAIN chan[s] : OfCall(chan[s][n], k) => chan[s][n].prev = view[s][k]
Prevs == \A s \in subscriptions \ late : \A k \in Keys : Only(s, k) => PrevAs(s, k)

Apart == Alone /\ ChangesTold /\ ResyncsTold /\ (\A c \in Calls : ResyncData(c)) /\ Covered /\ Prevs

FollowInv == Known /\ (~overlap => Apart)

\* The step leaves the events of calls in the channels as they are.
SameCalls ==
    \A s \in Subs :
        /\ \A n \in DOMAIN chan'[s] : chan'[s][n].call \in Calls => \E m \in DOMAIN chan[s] : chan[s][m] = chan'[s][n]
        /\ \A k \in Keys : Has(chan[s], k) => Has(chan'[s], k)
        /\ \A k \in Keys : OnceIn(chan[s], k) => OnceIn(chan'[s], k)

\* Steps that only move a call on, and those of the stream.
QuietStep ==
    /\ UNCHANGED <<fire, view, told, lastRev, dropped, rchan, overlap, prefixes, subscriptions, late>> /\ SameCalls
    /\ \A c \in Calls : place'[c] = "idle" => place[c] = "idle"
    /\ \A c \in Calls : /\ resync'[c].todo = resync[c].todo /\ resync'[c].ev = resync[c].ev
                        /\ resync'[c] = resync[c] \/ resync[c].todo = {}

\* Watched keys are keys.
LEMMA WatchedKeys ==
    ASSUME Types
    PROVE  subscriptions \subseteq Subs /\ \A s \in Subs : Watched(s) \subseteq Keys
BY RegistryAssumption DEF Types, Watched

\* They change nothing of what is known and coming.
LEMMA QuietFollows ==
    ASSUME Types, FollowInv, QuietStep
    PROVE  FollowInv'
<1>1. Known'
  BY DEF FollowInv, Known, QuietStep
<1>2. ASSUME ~overlap' PROVE Apart'
  <2>0. Apart
    BY <1>2 DEF FollowInv, QuietStep
  <2>1. Alone'
    <3>1. \A c \in Calls : UnderWay(c)' => UnderWay(c)
      BY DEF QuietStep, SameCalls, UnderWay, ToSet
    <3> QED BY <2>0, <3>1 DEF Apart, Alone
  <2>2. ChangesTold'
    BY <2>0 DEF Apart, ChangesTold, QuietStep, SameCalls
  <2>3. ResyncsTold'
    BY <2>0 DEF Apart, ResyncsTold, QuietStep, Says
  <2>4. ASSUME NEW c \in Calls PROVE ResyncData(c)'
    <3>1. CASE resync[c].todo = {}
      BY <3>1 DEF QuietStep, ResyncData
    <3>2. CASE resync[c].todo # {}
      <4>1. resync'[c] = resync[c] /\ ResyncData(c)
        BY <2>0, <3>2 DEF QuietStep, Apart
      <4>2. Data(c)' = Data(c)
        BY <4>1 DEF Data, resyncValue
      <4>3. \A s \in Subs : Watched(s)' = Watched(s)
        BY DEF QuietStep, Watched
      <4> QED BY <3>2, <4>1, <4>2 DEF QuietStep, ResyncData, Says, Watched
    <3> QED BY <3>1, <3>2
  <2>5. Covered'
    <3>1. \A s \in Subs, k \in Keys : Coming(s, k) => Coming(s, k)'
      BY DEF QuietStep, SameCalls, Coming, ToSend
    <3> QED BY <2>0, <3>1, WatchedKeys DEF Apart, Covered, QuietStep, Watched
  <2>6. Prevs'
    <3> SUFFICES ASSUME NEW s \in subscriptions \ late, NEW k \in Keys, Only(s, k) PROVE PrevAs(s, k)'
      BY DEF Prevs, QuietStep, Only
    <3>1. PrevAs(s, k) /\ s \in Subs
      BY <2>0, WatchedKeys DEF Apart, Prevs
    <3>2. Has(chan'[s], k) => Has(chan[s], k)
      BY <3>1 DEF QuietStep, SameCalls, Has, OfCall
    <3>3. ToSend(s, k)' <=> ToSend(s, k)
      BY DEF QuietStep, ToSend
    <3>4. OnceIn(chan[s], k) => OnceIn(chan'[s], k)
      BY <3>1 DEF QuietStep, SameCalls
    <3>5. \A n \in DOMAIN chan'[s] : OfCall(chan'[s][n], k) =>
            \E m \in DOMAIN chan[s] : OfCall(chan[s][m], k) /\ chan[s][m] = chan'[s][n]
      BY <3>1 DEF QuietStep, SameCalls, OfCall
    <3> QED BY <3>1, <3>2, <3>3, <3>4, <3>5 DEF PrevAs, QuietStep
  <2> QED BY <2>1, <2>2, <2>3, <2>4, <2>5, <2>6 DEF Apart
<1> QED BY <1>1, <1>2 DEF FollowInv

\* Registrations: who watches was there before, with no less prefixes, or comes before all calls,
\* or is late.
LEMMA RegisterFollows ==
    ASSUME RegistryInv, FollowInv, NEW s \in Subs, Watch(s) \/ Close(s) \/ \E p \in KeyPrefixes : Unregister(s, p)
    PROVE  FollowInv'
<1> USE DEF RegistryInv
<1>1. UNCHANGED <<place, fire, chan, view, told, lastRev, dropped, rchan, resync, overlap>>
  BY DEF Watch, Close, Unregister, callVars, resyncVars
<1> DEFINE AllIdle == \A c \in Calls : place[c] = "idle"
<1>2. \A t \in subscriptions' \ late' :
        /\ t \in Subs /\ (t \in subscriptions \ late \/ AllIdle)
        /\ AllIdle \/ prefixes'[t] \subseteq prefixes[t]
  <2>1. CASE Watch(s)
    BY <2>1, WatchedKeys DEF Watch, Types
  <2>2. CASE Close(s)
    BY <2>2, WatchedKeys DEF Close, Types
  <2>3. ASSUME NEW p \in KeyPrefixes, Unregister(s, p)
        PROVE  \A t \in subscriptions' \ late' :
                 /\ t \in Subs /\ (t \in subscriptions \ late \/ AllIdle)
                 /\ AllIdle \/ prefixes'[t] \subseteq prefixes[t]
    BY <2>3, WatchedKeys DEF Unregister, Types
  <2> QED BY <2>1, <2>2, <2>3
<1>3. \A t \in Subs : prefixes'[t] \subseteq Wanted[t]
  <2>1. prefixes \in [Subs -> SUBSET KeyPrefixes] /\ \A t \in Subs : prefixes[t] \subseteq Wanted[t]
    BY DEF Types, FollowInv, Known
  <2>2. prefixes' = prefixes \/ \E P : prefixes' = [prefixes EXCEPT ![s] = P] /\ P \subseteq Wanted[s]
    <3>1. CASE Watch(s)
      BY <3>1 DEF Watch
    <3>2. CASE Close(s)
      BY <3>2 DEF Close
    <3>3. ASSUME NEW p \in KeyPrefixes, Unregister(s, p)
          PROVE  \E P : prefixes' = [prefixes EXCEPT ![s] = P] /\ P \subseteq Wanted[s]
      <4>1. prefixes' = [prefixes EXCEPT ![s] = prefixes[s] \ {p}] /\ prefixes[s] \ {p} \subseteq Wanted[s]
        BY <2>1, <3>3 DEF Unregister
      <4> QED BY <4>1
    <3> QED BY <3>1, <3>2, <3>3
  <2> QED BY <2>1, <2>2
<1>4. Known'
  BY <1>1, <1>3 DEF FollowInv, Known
<1>5. ASSUME ~overlap' PROVE Apart'
  <2>0. Apart
    BY <1>1, <1>5 DEF FollowInv
  <2>1. Alone' /\ ChangesTold' /\ ResyncsTold'
    BY <1>1, <2>0 DEF Apart, Alone, ChangesTold, ResyncsTold, UnderWay, Says
  <2>2. \A t \in Subs : Watched(t)' \subseteq Keys
    BY <1>3, WantedKeys DEF Watched
  <2>3. \A t \in subscriptions' \ late' : AllIdle \/ Watched(t)' \subseteq Watched(t)
    BY <1>2 DEF Watched
  <2>4. ASSUME NEW c \in Calls PROVE ResyncData(c)'
    <3>1. CASE resync[c].todo = {}
      BY <1>1, <3>1 DEF ResyncData
    <3>2. CASE resync[c].todo # {}
      <4>1. ~AllIdle
        BY <3>2 DEF Resyncs
      <4>2. ResyncData(c)
        BY <2>0 DEF Apart
      <4>3. Data(c)' = Data(c)
        BY <1>1 DEF Data, resyncValue
      <4>4. \A t \in subscriptions' \ late' : t \in subscriptions \ late /\ Watched(t)' \subseteq Watched(t)
        BY <1>2, <2>3, <4>1
      <4> QED BY <1>1, <3>2, <4>2, <4>3, <4>4 DEF ResyncData, Says
    <3> QED BY <3>1, <3>2
  <2>5. Covered'
    <3> SUFFICES ASSUME NEW t \in subscriptions' \ late', NEW k \in Watched(t)'
                 PROVE  (view[t][k] = told[k] \/ Coming(t, k))'
      BY DEF Covered
    <3>1. t \in Subs /\ k \in Keys
      BY <1>2, <2>2
    <3>2. CASE AllIdle
      <4>1. view[t][k] = 0 /\ told[k] = 0
        BY <3>1, <3>2 DEF FollowInv, Known
      <4> QED BY <1>1, <4>1
    <3>3. CASE ~AllIdle
      <4>1. t \in subscriptions \ late /\ k \in Watched(t)
        BY <1>2, <2>3, <3>3
      <4>2. view[t][k] = told[k] \/ Coming(t, k)
        BY <2>0, <4>1 DEF Apart, Covered
      <4> QED BY <1>1, <4>2 DEF Coming, ToSend
    <3> QED BY <3>2, <3>3
  <2>6. Prevs'
    <3> SUFFICES ASSUME NEW t \in subscriptions' \ late', NEW k \in Keys, Only(t, k) PROVE PrevAs(t, k)'
      BY DEF Prevs, Only
    <3>1. t \in Subs
      BY <1>2
    <3>2. CASE AllIdle
      <4>1. \A c \in Calls : fire[c] = <<>> /\ \A n \in DOMAIN chan[t] : chan[t][n].call # c
        BY <3>1, <3>2, NothingLeft DEF Counted
      <4>2. ~ToSend(t, k)'
        BY <1>1, <4>1 DEF ToSend
      <4>3. \A n \in DOMAIN chan'[t] : ~OfCall(chan'[t][n], k)
        BY <1>1, <4>1 DEF OfCall
      <4> QED BY <4>2, <4>3 DEF PrevAs, ToSend, OnceIn, Has
    <3>3. CASE ~AllIdle
      <4>1. PrevAs(t, k)
        BY <1>2, <2>0, <3>3 DEF Apart, Prevs
      <4> QED BY <1>1, <4>1 DEF PrevAs, ToSend
    <3> QED BY <3>2, <3>3
  <2> QED BY <2>1, <2>4, <2>5, <2>6 DEF Apart
<1> QED BY <1>4, <1>5 DEF FollowInv

\* Nothing is under way.
LEMMA NothingComes ==
    ASSUME Types, \A d \in Calls : ~UnderWay(d)
    PROVE  /\ \A d \in Calls : fire[d] = <<>> /\ resync[d].todo = {} /\ resync[d].ev = <<>>
           /\ \A s \in Subs : \A n \in DOMAIN chan[s] : chan[s][n].call \notin Calls
           /\ \A s \in Subs : DOMAIN rchan[s] = {}
           /\ \A s \in Subs, k \in Keys : ~Coming(s, k)
<1>1. \A d \in Calls : fire[d] = <<>> /\ resync[d].todo = {} /\ resync[d].ev = <<>>
  BY DEF UnderWay
<1>2. \A s \in Subs : \A n \in DOMAIN chan[s] : chan[s][n].call \notin Calls
  BY DEF UnderWay, ToSet
<1>3. \A s \in Subs : DOMAIN rchan[s] = {}
  <2> SUFFICES ASSUME NEW s \in Subs, NEW n \in DOMAIN rchan[s] PROVE FALSE
    OBVIOUS
  <2>1. rchan[s][n].call \in Calls
    BY Elements DEF ResyncEvents
  <2> QED BY <2>1 DEF UnderWay, ToSet
<1>4. ASSUME NEW s \in Subs, NEW k \in Keys, Coming(s, k) PROVE FALSE
  BY <1>1, <1>2, <1>3, <1>4 DEF Coming, ToSend, Has, OfCall
<1> QED BY <1>1, <1>2, <1>3, <1>4

\* PropagateResync begins: it has all subscriptions before it.
LEMMA ResyncBeginsFollows ==
    ASSUME RegistryInv, FollowInv, NEW c \in Calls, NEW tx \in Txs, PropagateResync(c, tx)
    PROVE  FollowInv'
<1> USE DEF RegistryInv
<1>1. /\ UNCHANGED <<lastRev, fire, rchan, told, dropped, chan, view, late, subscriptions, prefixes>>
      /\ place'[c] = "resync" /\ resync'[c] = [tx |-> tx, todo |-> subscriptions, ev |-> <<>>]
      /\ \A d \in Calls \ {c} : resync'[d] = resync[d]
  BY DEF PropagateResync, subsVars, Types
<1>2. resync'[c].ev = <<>> /\ resync'[c].todo = subscriptions
  BY <1>1
<1>3. Known'
  BY <1>1, <1>2 DEF FollowInv, Known
<1>4. ASSUME ~overlap' PROVE Apart'
  <2>1. ~overlap /\ \A d \in Calls : ~UnderWay(d)
    BY <1>4 DEF PropagateResync
  <2>0. Apart
    BY <2>1 DEF FollowInv
  <2>2. /\ \A d \in Calls : fire[d] = <<>> /\ resync[d].todo = {} /\ resync[d].ev = <<>>
        /\ \A s \in Subs : \A n \in DOMAIN chan[s] : chan[s][n].call \notin Calls
        /\ \A s \in Subs : DOMAIN rchan[s] = {}
        /\ \A s \in Subs, k \in Keys : ~Coming(s, k)
    BY <2>1, NothingComes
  <2>3. Alone'
    <3>1. \A d \in Calls \ {c} : UnderWay(d)' => UnderWay(d)
      BY <1>1 DEF UnderWay
    <3> QED BY <2>1, <3>1 DEF Alone
  <2>4. ChangesTold' /\ ResyncsTold'
    BY <1>1, <1>2, <2>0, <2>2 DEF Apart, ChangesTold, ResyncsTold
  <2>5. ASSUME NEW d \in Calls PROVE ResyncData(d)'
    BY <1>1, <1>2, <2>2 DEF ResyncData
  <2>6. Covered'
    <3> SUFFICES ASSUME NEW s \in subscriptions \ late, NEW k \in Watched(s)
                 PROVE  (view[s][k] = told[k] \/ Coming(s, k))'
      BY <1>1 DEF Covered, Watched
    <3> QED BY <1>2 DEF Coming
  <2>7. Prevs'
    <3> SUFFICES ASSUME NEW t \in subscriptions \ late, NEW k \in Keys, Only(t, k) PROVE PrevAs(t, k)'
      BY <1>1 DEF Prevs, Only
    <3>1. PrevAs(t, k)
      BY <2>0 DEF Apart, Prevs
    <3> QED BY <1>1, <3>1 DEF PrevAs, ToSend
  <2> QED BY <2>3, <2>4, <2>5, <2>6, <2>7 DEF Apart
<1> QED BY <1>3, <1>4 DEF FollowInv

\* A key that only s watches is hit once.
LEMMA OnlyHit ==
    ASSUME Types, \A t \in Subs : prefixes[t] \subseteq Wanted[t],
           NEW tx \in Txs, NEW s \in Subs, NEW k \in Keys, Only(s, k),
           NEW h \in Hits(tx), NEW g \in Hits(tx), h[3] = k, g[3] = k
    PROVE  h = g /\ h[1] = s
<1>1. /\ \E a \in subscriptions, b \in KeyPrefixes : h = <<a, b, k>> /\ b \in prefixes[a] /\ k \in Matches[b]
      /\ \E a \in subscriptions, b \in KeyPrefixes : g = <<a, b, k>> /\ b \in prefixes[a] /\ k \in Matches[b]
  BY DEF Hits
<1>2. subscriptions \subseteq Subs
  BY DEF Types
<1>3. PICK p : {b \in KeyPrefixes : k \in Matches[b]} = {p}
  <2>1. IsFiniteSet({b \in KeyPrefixes : k \in Matches[b]})
    BY RegistryAssumption, FS_Subset
  <2> QED BY <2>1, FS_Singleton DEF Only
<1>4. \A b \in KeyPrefixes : k \in Matches[b] => b = p
  BY <1>3
<1>5. \A a \in Subs, b \in KeyPrefixes : b \in prefixes[a] /\ k \in Matches[b] => a = s /\ b = p
  BY <1>4 DEF Only
<1> QED BY <1>1, <1>2, <1>5

\* PropagateChanges: events for all who watch, with what the caller says.
LEMMA ChangesFollows ==
    ASSUME RegistryInv, FollowInv, NEW c \in Calls, NEW tx \in Txs, PropagateChanges(c, tx)
    PROVE  FollowInv'
<1> USE DEF RegistryInv
<1>1. PICK q \in SetToSeqs(Hits(tx)) :
        fire' = [fire EXCEPT ![c] = [n \in DOMAIN q |-> ChangeEvent(c, tx, q, n)]]
  BY DEF PropagateChanges
<1>2. /\ \A h \in Hits(tx) : \E n \in DOMAIN q : q[n] = h
      /\ \A n \in DOMAIN q : q[n] \in Hits(tx)
      /\ \A n, m \in DOMAIN q : q[n] = q[m] => n = m
      /\ \E N \in Nat : DOMAIN q = 1..N
  <2>1. IsFiniteSet(Hits(tx)) /\ Cardinality(Hits(tx)) \in Nat
    BY HitsFinite
  <2>2. DOMAIN q = 1..Cardinality(Hits(tx))
    BY <1>1 DEF SetToSeqs
  <2> QED BY <1>1, <2>1, <2>2, AllListed
<1>3. \A n \in DOMAIN q : /\ q[n][1] \in subscriptions /\ q[n][3] \in DOMAIN tx /\ q[n][3] \in Keys
                          /\ q[n][3] \in Watched(q[n][1])
  BY <1>2 DEF Hits, Txs, Watched
<1>4. /\ DOMAIN fire'[c] = DOMAIN q /\ \A d \in Calls \ {c} : fire'[d] = fire[d]
      /\ \A n \in DOMAIN q : fire'[c][n] = ChangeEvent(c, tx, q, n)
  BY <1>1 DEF Types
<1>5. \A n \in DOMAIN q : /\ fire'[c][n].sub = q[n][1] /\ fire'[c][n].key = q[n][3]
                          /\ fire'[c][n].val = tx[q[n][3]]
                          /\ (~\E j \in 1..(n - 1) : q[j][3] = q[n][3]) => fire'[c][n].prev = lastRev[q[n][3]]
  <2> SUFFICES ASSUME NEW n \in DOMAIN q
               PROVE  /\ fire'[c][n].sub = q[n][1] /\ fire'[c][n].key = q[n][3]
                      /\ fire'[c][n].val = tx[q[n][3]]
                      /\ (~\E j \in 1..(n - 1) : q[j][3] = q[n][3]) => fire'[c][n].prev = lastRev[q[n][3]]
    OBVIOUS
  <2>1. PICK v : /\ fire'[c][n] = [sub |-> q[n][1], key |-> q[n][3], val |-> tx[q[n][3]], call |-> c, prev |-> v]
                 /\ v = IF \E j \in 1..(n - 1) : q[j][3] = q[n][3] THEN tx[q[n][3]] ELSE lastRev[q[n][3]]
    BY <1>4, Zenon DEF ChangeEvent
  <2>2. fire'[c][n].sub = q[n][1] /\ fire'[c][n].key = q[n][3] /\ fire'[c][n].val = tx[q[n][3]] /\ fire'[c][n].prev = v
    BY <2>1
  <2> QED BY <2>1, <2>2
<1>6. /\ UNCHANGED <<chan, view, late, resync, rchan, dropped, subscriptions, prefixes>>
      /\ place'[c] = "wait"
      /\ \A k \in Keys : told'[k] = IF k \in DOMAIN tx /\ \E s \in subscriptions : k \in Watched(s) THEN tx[k] ELSE told[k]
      /\ \A k \in Keys : lastRev'[k] = IF \E h \in Hits(tx) : h[3] = k THEN tx[k] ELSE lastRev[k]
  BY DEF PropagateChanges, revisions, subsVars, Types
<1>7. \A k \in Keys : (\E h \in Hits(tx) : h[3] = k) <=> (k \in DOMAIN tx /\ \E s \in subscriptions : k \in Watched(s))
  <2>1. \A s \in subscriptions : prefixes[s] \subseteq KeyPrefixes
    BY DEF Types
  <2>2. ASSUME NEW k \in DOMAIN tx, NEW s \in subscriptions, k \in Watched(s) PROVE \E h \in Hits(tx) : h[3] = k
    <3>1. PICK p \in prefixes[s] : k \in Matches[p]
      BY <2>2 DEF Watched
    <3>2. <<s, p, k>> \in Hits(tx)
      BY <2>1, <3>1 DEF Hits
    <3> QED BY <3>2
  <2>3. ASSUME NEW h \in Hits(tx) PROVE h[3] \in DOMAIN tx /\ \E s \in subscriptions : h[3] \in Watched(s)
    BY DEF Hits, Watched
  <2> QED BY <2>2, <2>3
<1>8. Known'
  <2>1. \A k \in Keys \ dropped : lastRev'[k] = told'[k]
    BY <1>6, <1>7 DEF FollowInv, Known
  <2> QED BY <1>6, <2>1 DEF FollowInv, Known
<1>9. ASSUME ~overlap' PROVE Apart'
  <2>1. ~overlap /\ \A d \in Calls : ~UnderWay(d)
    BY <1>9 DEF PropagateChanges
  <2>0. Apart
    BY <2>1 DEF FollowInv
  <2>2. /\ \A d \in Calls : fire[d] = <<>> /\ resync[d].todo = {} /\ resync[d].ev = <<>>
        /\ \A s \in Subs : \A n \in DOMAIN chan[s] : chan[s][n].call \notin Calls
        /\ \A s \in Subs : DOMAIN rchan[s] = {}
        /\ \A s \in Subs, k \in Keys : ~Coming(s, k)
    BY <2>1, NothingComes
  <2>3. Alone'
    <3>1. \A d \in Calls \ {c} : UnderWay(d)' => UnderWay(d)
      BY <1>4, <1>6 DEF UnderWay
    <3> QED BY <2>1, <3>1 DEF Alone
  <2>4. ChangesTold'
    <3>1. \A n \in DOMAIN fire'[c] : fire'[c][n].val = told'[fire'[c][n].key]
      BY <1>3, <1>4, <1>5, <1>6
    <3>2. \A d \in Calls \ {c} : DOMAIN fire'[d] = {}
      BY <1>4, <2>2
    <3> QED BY <1>6, <2>2, <3>1, <3>2 DEF ChangesTold
  <2>5. ResyncsTold' /\ \A d \in Calls : ResyncData(d)'
    BY <1>6, <2>2 DEF ResyncsTold, ResyncData
  <2>6. Covered'
    <3> SUFFICES ASSUME NEW s \in subscriptions \ late, NEW k \in Watched(s)
                 PROVE  (view[s][k] = told[k] \/ Coming(s, k))'
      BY <1>6 DEF Covered, Watched
    <3>1. s \in Subs /\ k \in Keys
      BY WatchedKeys
    <3>2. CASE k \in DOMAIN tx
      <4>1. PICK p \in KeyPrefixes : p \in prefixes[s] /\ k \in Matches[p]
        BY <3>1 DEF Watched, Types
      <4>2. <<s, p, k>> \in Hits(tx)
        BY <3>2, <4>1 DEF Hits
      <4>3. PICK n \in DOMAIN q : q[n] = <<s, p, k>>
        BY <1>2, <4>2
      <4>4. n \in DOMAIN fire'[c] /\ IsFor(fire'[c][n], s, k)
        BY <1>4, <1>5, <4>3 DEF IsFor
      <4> QED BY <4>4 DEF Coming, ToSend
    <3>3. CASE k \notin DOMAIN tx
      <4>1. view[s][k] = told[k]
        BY <2>0, <2>2, <3>1 DEF Apart, Covered
      <4> QED BY <1>6, <3>1, <3>3, <4>1
    <3> QED BY <3>2, <3>3
  <2>7. Prevs'
    <3> SUFFICES ASSUME NEW s \in subscriptions \ late, NEW k \in Keys, Only(s, k) PROVE PrevAs(s, k)'
      BY <1>6 DEF Prevs, Only
    <3>1. s \in Subs /\ prefixes \in [Subs -> SUBSET KeyPrefixes] /\ \A t \in Subs : prefixes[t] \subseteq Wanted[t]
      BY WatchedKeys DEF Types, FollowInv, Known
    <3>2. \A n \in DOMAIN chan'[s] : ~OfCall(chan'[s][n], k)
      BY <1>6, <2>2, <3>1 DEF OfCall
    <3>3. \A n, m \in DOMAIN q : q[n][3] = k /\ q[m][3] = k => n = m
      BY <1>2, <3>1, OnlyHit
    <3>4. \A d \in Calls : \A n, m \in DOMAIN fire'[d] : IsFor(fire'[d][n], s, k) /\ IsFor(fire'[d][m], s, k) => n = m
      <4>1. \A d \in Calls \ {c} : DOMAIN fire'[d] = {}
        BY <1>4, <2>2
      <4>2. \A n, m \in DOMAIN fire'[c] : IsFor(fire'[c][n], s, k) /\ IsFor(fire'[c][m], s, k) => n = m
        BY <1>4, <1>5, <3>3 DEF IsFor
      <4> QED BY <4>1, <4>2
    <3>5. ASSUME k \notin dropped, NEW d \in Calls, NEW n \in DOMAIN fire'[d], IsFor(fire'[d][n], s, k)
          PROVE  fire'[d][n].prev = view[s][k]
      <4>1. d = c /\ n \in DOMAIN q /\ q[n][1] = s /\ q[n][3] = k
        <5>1. d = c
          BY <1>4, <2>2, <3>5
        <5> QED BY <1>4, <1>5, <3>5, <5>1 DEF IsFor
      <4>2. ~\E j \in 1..(n - 1) : q[j][3] = k
        <5>1. PICK N \in Nat : DOMAIN q = 1..N
          BY <1>2
        <5> QED BY <3>3, <4>1, <5>1
      <4>3. fire'[c][n].prev = lastRev[k]
        BY <1>5, <4>1, <4>2
      <4>4. k \in Watched(s)
        BY <1>3, <4>1
      <4>5. view[s][k] = told[k] /\ told[k] = lastRev[k]
        BY <2>0, <2>2, <3>1, <3>5, <4>4 DEF Apart, Covered, FollowInv, Known
      <4> QED BY <4>1, <4>3, <4>5
    <3>6. ~Has(chan'[s], k) /\ OnceIn(chan'[s], k)
      BY <3>2 DEF Has, OnceIn
    <3> QED BY <1>6, <3>2, <3>4, <3>5, <3>6 DEF PrevAs
  <2> QED BY <2>3, <2>4, <2>5, <2>6, <2>7 DEF Apart
<1> QED BY <1>8, <1>9 DEF FollowInv

\* Fire: an event moves from its call to the end of a channel.
LEMMA FireFollows ==
    ASSUME RegistryInv, FollowInv, NEW c \in Calls, Fire(c)
    PROVE  FollowInv'
<1> USE DEF RegistryInv
<1>1. /\ fire \in [Calls -> Seq(Events)] /\ fire[c] # <<>> /\ fire' = [fire EXCEPT ![c] = Tail(@)]
      /\ chan \in [Subs -> Seq(Events)]
      /\ UNCHANGED <<place, view, told, lastRev, dropped, rchan, resync, overlap, prefixes, subscriptions, late>>
  BY DEF Types, Fire, subsVars, resyncVars
<1>2. /\ \A d \in Calls \ {c} : fire'[d] = fire[d]
      /\ \A n \in DOMAIN fire'[c] : n \in Nat /\ n >= 1 /\ n + 1 \in DOMAIN fire[c] /\ fire'[c][n] = fire[c][n + 1]
      /\ \A n \in DOMAIN fire[c] : n # 1 => n - 1 \in DOMAIN fire'[c] /\ fire'[c][n - 1] = fire[c][n]
      /\ 1 \in DOMAIN fire[c] /\ Head(fire[c]) = fire[c][1] /\ fire[c][1] \in Events
  BY <1>1, Taken
<1>3. PICK e \in Events : e = fire[c][1] /\ e.sub \in Subs /\ e.key \in Keys /\ e.call = c
  <2>1. fire[c][1].call = c
    BY <1>2 DEF Counted
  <2> QED BY <1>2, <2>1 DEF Events
<1>4. chan' = [chan EXCEPT ![e.sub] = Append(@, e)]
  BY <1>2, <1>3 DEF Fire
<1>5. /\ \A s \in Subs \ {e.sub} : chan'[s] = chan[s]
      /\ \A n \in DOMAIN chan[e.sub] : n \in DOMAIN chan'[e.sub] /\ chan'[e.sub][n] = chan[e.sub][n]
      /\ \A n \in DOMAIN chan'[e.sub] : n \in DOMAIN chan[e.sub] \/ (n = Len(chan[e.sub]) + 1 /\ chan'[e.sub][n] = e)
      /\ Len(chan[e.sub]) + 1 \in DOMAIN chan'[e.sub] /\ chan'[e.sub][Len(chan[e.sub]) + 1] = e
  BY <1>1, <1>3, <1>4, Entered
<1>6. PICK N \in DOMAIN chan'[e.sub] :
        chan'[e.sub][N] = e /\ \A n \in DOMAIN chan'[e.sub] : n = N \/ n \in DOMAIN chan[e.sub]
  BY <1>5
<1>7. \A s \in Subs : \A n \in DOMAIN chan'[s] : chan'[s][n] = e \/ (n \in DOMAIN chan[s] /\ chan'[s][n] = chan[s][n])
  BY <1>5, <1>6
<1>8. \A d \in Calls : \A n \in DOMAIN fire'[d] : \E m \in DOMAIN fire[d] : fire[d][m] = fire'[d][n]
  BY <1>2
<1>9. \A s \in Subs, k \in Keys : ToSend(s, k) => ToSend(s, k)' \/ IsFor(e, s, k)
  <2> SUFFICES ASSUME NEW s \in Subs, NEW k \in Keys, NEW d \in Calls, NEW n \in DOMAIN fire[d],
                      IsFor(fire[d][n], s, k), ~IsFor(e, s, k)
               PROVE  \E m \in DOMAIN fire'[d] : fire'[d][m] = fire[d][n]
    BY DEF ToSend
  <2>1. CASE d # c
    BY <1>2, <2>1
  <2>2. CASE d = c
    BY <1>2, <1>3, <2>2
  <2> QED BY <2>1, <2>2
<1>10. \A s \in Subs, k \in Keys : Has(chan[s], k) \/ IsFor(e, s, k) => Has(chan'[s], k)
  <2>1. \A s \in Subs : \A n \in DOMAIN chan[s] : n \in DOMAIN chan'[s] /\ chan'[s][n] = chan[s][n]
    BY <1>3, <1>5
  <2> QED BY <1>3, <1>6, <2>1 DEF Has, OfCall, IsFor
<1>11. Known'
  BY <1>1 DEF FollowInv, Known
<1>12. ASSUME ~overlap' PROVE Apart'
  <2>0. Apart /\ Alone
    BY <1>1, <1>12 DEF FollowInv, Apart
  <2>1. Alone'
    <3>1. \A d \in Calls : UnderWay(d)' => UnderWay(d)
      <4>1. UnderWay(c)
        BY <1>1 DEF UnderWay
      <4>2. ASSUME NEW d \in Calls, d # c, UnderWay(d)' PROVE UnderWay(d)
        <5>1. fire'[d] = fire[d] /\ e.call # d
          BY <1>2, <1>3, <4>2
        <5>2. \A s \in Subs : \A x \in ToSet(chan'[s]) : x.call = d => x \in ToSet(chan[s])
          BY <1>7, <5>1 DEF ToSet
        <5> QED BY <1>1, <4>2, <5>1, <5>2 DEF UnderWay
      <4> QED BY <4>1, <4>2
    <3> QED BY <2>0, <3>1 DEF Alone
  <2>2. ChangesTold'
    <3>1. e.val = told[e.key]
      BY <1>2, <1>3, <2>0 DEF Apart, ChangesTold
    <3>2. \A d \in Calls : \A n \in DOMAIN fire'[d] : fire'[d][n].val = told[fire'[d][n].key]
      BY <1>8, <2>0 DEF Apart, ChangesTold
    <3>3. \A s \in Subs : \A n \in DOMAIN chan'[s] :
            chan'[s][n].call \in Calls => chan'[s][n].val = told[chan'[s][n].key]
      BY <1>7, <2>0, <3>1 DEF Apart, ChangesTold
    <3> QED BY <1>1, <3>2, <3>3 DEF ChangesTold
  <2>3. ResyncsTold'
    BY <1>1, <2>0 DEF Apart, ResyncsTold, Says
  <2>4. ASSUME NEW d \in Calls PROVE ResyncData(d)'
    <3>1. Data(d)' = Data(d)
      BY <1>1 DEF Data, resyncValue
    <3>2. ResyncData(d)
      BY <2>0 DEF Apart
    <3> QED BY <1>1, <3>1, <3>2 DEF ResyncData, Says, Watched
  <2>5. Covered'
    <3>1. \A s \in Subs, k \in Keys : Coming(s, k) => Coming(s, k)'
      BY <1>1, <1>9, <1>10 DEF Coming
    <3> QED BY <1>1, <2>0, <3>1, WatchedKeys DEF Apart, Covered, Watched
  <2>6. Prevs'
    <3> SUFFICES ASSUME NEW s \in subscriptions \ late, NEW k \in Keys, Only(s, k) PROVE PrevAs(s, k)'
      BY <1>1 DEF Prevs, Only
    <3>1. s \in Subs /\ PrevAs(s, k)
      BY <2>0, WatchedKeys DEF Apart, Prevs
    <3>2. CASE IsFor(e, s, k)
      <4>1. ~Has(chan[s], k) /\ ToSend(s, k)
        BY <1>2, <1>3, <3>1, <3>2 DEF PrevAs, ToSend
      <4>2. ~ToSend(s, k)'
        <5> SUFFICES ASSUME NEW d \in Calls, NEW n \in DOMAIN fire'[d], IsFor(fire'[d][n], s, k) PROVE FALSE
          BY DEF ToSend
        <5>1. CASE d = c
          <6>1. n + 1 \in DOMAIN fire[c] /\ IsFor(fire[c][n + 1], s, k) /\ n \in Nat /\ n >= 1
            BY <1>2, <5>1
          <6>2. n + 1 = 1
            BY <1>2, <1>3, <3>1, <3>2, <6>1 DEF PrevAs
          <6> QED BY <6>1, <6>2
        <5>2. CASE d # c
          <6>1. fire[d] # <<>> /\ fire[c] # <<>>
            BY <1>1, <1>2, <5>2
          <6> QED BY <2>0, <5>2, <6>1 DEF Alone, UnderWay
        <5> QED BY <5>1, <5>2
      <4>3. \A n \in DOMAIN chan'[s] : OfCall(chan'[s][n], k) => n = N /\ chan'[s][n] = e
        BY <1>5, <1>6, <3>2, <4>1 DEF IsFor, Has
      <4>4. k \notin dropped => e.prev = view[s][k]
        BY <1>2, <1>3, <3>1, <3>2 DEF PrevAs
      <4>5. OnceIn(chan'[s], k)
        BY <4>3 DEF OnceIn
      <4> QED BY <1>1, <4>2, <4>3, <4>4, <4>5 DEF PrevAs, ToSend
    <3>3. CASE ~IsFor(e, s, k)
      <4>1. \A n \in DOMAIN chan'[s] : OfCall(chan'[s][n], k) => n \in DOMAIN chan[s] /\ chan'[s][n] = chan[s][n]
        <5>1. CASE s = e.sub
          BY <1>5, <1>6, <3>3, <5>1 DEF IsFor, OfCall
        <5>2. CASE s # e.sub
          BY <1>5, <3>1, <5>2
        <5> QED BY <5>1, <5>2
      <4>2. ToSend(s, k)' => ToSend(s, k)
        BY <1>8 DEF ToSend
      <4>3. OnceIn(chan'[s], k) /\ (Has(chan'[s], k) => Has(chan[s], k))
        BY <3>1, <4>1 DEF PrevAs, OnceIn, Has
      <4>4. \A d \in Calls : \A n, m \in DOMAIN fire'[d] : IsFor(fire'[d][n], s, k) /\ IsFor(fire'[d][m], s, k) => n = m
        <5> SUFFICES ASSUME NEW n \in DOMAIN fire'[c], NEW m \in DOMAIN fire'[c],
                            IsFor(fire'[c][n], s, k), IsFor(fire'[c][m], s, k)
                     PROVE  n = m
          BY <1>2, <3>1 DEF PrevAs
        <5>1. n + 1 \in DOMAIN fire[c] /\ m + 1 \in DOMAIN fire[c] /\ n \in Nat /\ m \in Nat
              /\ IsFor(fire[c][n + 1], s, k) /\ IsFor(fire[c][m + 1], s, k)
          BY <1>2
        <5>2. n + 1 = m + 1
          BY <3>1, <5>1 DEF PrevAs
        <5> QED BY <5>1, <5>2
      <4> QED BY <1>1, <1>8, <3>1, <4>1, <4>2, <4>3, <4>4 DEF PrevAs
    <3> QED BY <3>2, <3>3
  <2> QED BY <2>1, <2>2, <2>3, <2>4, <2>5, <2>6 DEF Apart
<1> QED BY <1>11, <1>12 DEF FollowInv

\* An application handles a change event: it knows what the caller said.
LEMMA HandleFollows ==
    ASSUME RegistryInv, FollowInv, NEW t \in Subs, NEW err \in BOOLEAN, AppHandles(t, err)
    PROVE  FollowInv'
<1> USE DEF RegistryInv
<1>1. /\ chan \in [Subs -> Seq(Events)] /\ chan[t] # <<>> /\ chan' = [chan EXCEPT ![t] = Tail(@)]
      /\ UNCHANGED <<place, fire, told, lastRev, dropped, rchan, resync, overlap, prefixes, subscriptions, late>>
  BY DEF Types, AppHandles, subsVars, resyncVars
<1>2. /\ \A s \in Subs \ {t} : chan'[s] = chan[s]
      /\ \A n \in DOMAIN chan'[t] : n \in Nat /\ n >= 1 /\ n + 1 \in DOMAIN chan[t] /\ chan'[t][n] = chan[t][n + 1]
      /\ \A n \in DOMAIN chan[t] : n # 1 => n - 1 \in DOMAIN chan'[t] /\ chan'[t][n - 1] = chan[t][n]
      /\ 1 \in DOMAIN chan[t] /\ Head(chan[t]) = chan[t][1] /\ chan[t][1] \in Events
  BY <1>1, Taken
<1>3. PICK e \in Events : e = chan[t][1] /\ e.key \in Keys /\ e.val \in Nat /\ e.call \in Calls
  <2>1. chan[t][1].call \in Calls
    BY <1>2 DEF AppHandles
  <2> QED BY <1>2, <2>1 DEF Events
<1>4. view' = [view EXCEPT ![t][e.key] = e.val]
  BY <1>2, <1>3 DEF AppHandles
<1>5. /\ view' \in [Subs -> [Keys -> Nat]] /\ view'[t][e.key] = e.val
      /\ \A s \in Subs, k \in Keys : s # t \/ k # e.key => view'[s][k] = view[s][k]
  BY <1>3, <1>4 DEF FollowInv, Known
<1>6. ~\A c \in Calls : place[c] = "idle"
  <2>1. left[e.call] # 0
    BY <1>2, <1>3, NothingLeft
  <2> QED BY <1>3, <2>1 DEF Counted
<1>7. Known'
  BY <1>1, <1>5, <1>6 DEF FollowInv, Known
<1>8. \A s \in Subs : \A n \in DOMAIN chan'[s] : \E m \in DOMAIN chan[s] : chan[s][m] = chan'[s][n]
  BY <1>2
<1>9. ASSUME ~overlap' PROVE Apart'
  <2>0. Apart /\ Alone
    BY <1>1, <1>9 DEF FollowInv, Apart
  <2>1. Alone'
    <3>1. \A d \in Calls : UnderWay(d)' => UnderWay(d)
      <4>1. \A s \in Subs : \A x \in ToSet(chan'[s]) : x \in ToSet(chan[s])
        BY <1>8 DEF ToSet
      <4> QED BY <1>1, <4>1 DEF UnderWay
    <3> QED BY <2>0, <3>1 DEF Alone
  <2>2. ChangesTold'
    BY <1>1, <1>8, <2>0 DEF Apart, ChangesTold
  <2>3. ResyncsTold'
    BY <1>1, <2>0 DEF Apart, ResyncsTold, Says
  <2>4. ASSUME NEW d \in Calls PROVE ResyncData(d)'
    <3>1. Data(d)' = Data(d)
      BY <1>1 DEF Data, resyncValue
    <3>2. ResyncData(d)
      BY <2>0 DEF Apart
    <3> QED BY <1>1, <3>1, <3>2 DEF ResyncData, Says, Watched
  <2>5. Covered'
    <3> SUFFICES ASSUME NEW s \in subscriptions \ late, NEW k \in Watched(s)
                 PROVE  (view[s][k] = told[k] \/ Coming(s, k))'
      BY <1>1 DEF Covered, Watched
    <3>1. s \in Subs /\ k \in Keys /\ (view[s][k] = told[k] \/ Coming(s, k))
      BY <2>0, WatchedKeys DEF Apart, Covered
    <3>2. CASE s = t /\ k = e.key
      <4>1. e.val = told[k]
        BY <1>2, <1>3, <2>0, <3>2 DEF Apart, ChangesTold
      <4> QED BY <1>1, <1>5, <3>2, <4>1
    <3>3. CASE s # t \/ k # e.key
      <4>1. view'[s][k] = view[s][k]
        BY <1>5, <3>1, <3>3
      <4>2. Has(chan[s], k) => Has(chan'[s], k)
        <5>1. ASSUME NEW n \in DOMAIN chan[s], OfCall(chan[s][n], k)
              PROVE  \E m \in DOMAIN chan'[s] : chan'[s][m] = chan[s][n]
          BY <1>2, <1>3, <3>1, <3>3, <5>1 DEF OfCall
        <5> QED BY <5>1 DEF Has
      <4>3. Coming(s, k) => Coming(s, k)'
        BY <1>1, <4>2 DEF Coming, ToSend
      <4> QED BY <1>1, <3>1, <4>1, <4>3
    <3> QED BY <3>2, <3>3
  <2>6. Prevs'
    <3> SUFFICES ASSUME NEW s \in subscriptions \ late, NEW k \in Keys, Only(s, k) PROVE PrevAs(s, k)'
      BY <1>1 DEF Prevs, Only
    <3>1. s \in Subs /\ PrevAs(s, k)
      BY <2>0, WatchedKeys DEF Apart, Prevs
    <3>2. ToSend(s, k)' <=> ToSend(s, k)
      BY <1>1 DEF ToSend
    <3>3. CASE s = t /\ k = e.key
      <4>1. OfCall(chan[s][1], k) /\ Has(chan[s], k) /\ ~ToSend(s, k)
        BY <1>2, <1>3, <3>1, <3>3 DEF PrevAs, OfCall, Has
      <4>2. \A n \in DOMAIN chan'[s] : ~OfCall(chan'[s][n], k)
        <5> SUFFICES ASSUME NEW n \in DOMAIN chan'[s], OfCall(chan'[s][n], k) PROVE FALSE
          OBVIOUS
        <5>1. n \in Nat /\ n >= 1 /\ n + 1 \in DOMAIN chan[s] /\ OfCall(chan[s][n + 1], k)
          BY <1>2, <3>3
        <5>2. n + 1 = 1
          BY <1>2, <3>1, <3>3, <4>1, <5>1 DEF PrevAs, OnceIn
        <5> QED BY <5>1, <5>2
      <4> QED BY <3>2, <4>1, <4>2 DEF PrevAs, OnceIn, ToSend
    <3>4. CASE s # t \/ k # e.key
      <4>1. view'[s][k] = view[s][k]
        BY <1>5, <3>1, <3>4
      <4>2. OnceIn(chan'[s], k)
        <5>1. CASE s # t
          BY <1>2, <3>1, <5>1 DEF PrevAs
        <5>2. CASE s = t
          <6> SUFFICES ASSUME NEW n \in DOMAIN chan'[s], NEW m \in DOMAIN chan'[s],
                              OfCall(chan'[s][n], k), OfCall(chan'[s][m], k)
                       PROVE  n = m
            BY DEF OnceIn
          <6>1. n + 1 \in DOMAIN chan[s] /\ m + 1 \in DOMAIN chan[s] /\ n \in Nat /\ m \in Nat
                /\ OfCall(chan[s][n + 1], k) /\ OfCall(chan[s][m + 1], k)
            BY <1>2, <5>2
          <6>2. n + 1 = m + 1
            BY <3>1, <6>1 DEF PrevAs, OnceIn
          <6> QED BY <6>1, <6>2
        <5> QED BY <5>1, <5>2
      <4>3. Has(chan'[s], k) => Has(chan[s], k)
        BY <1>8, <3>1 DEF Has
      <4> QED BY <1>1, <1>8, <3>1, <3>2, <4>1, <4>2, <4>3 DEF PrevAs
    <3> QED BY <3>3, <3>4
  <2> QED BY <2>1, <2>2, <2>3, <2>4, <2>5, <2>6 DEF Apart
<1> QED BY <1>7, <1>9 DEF FollowInv

\* While a resync is the only call under way there are no change events.
LEMMA OnlyResyncs ==
    ASSUME RegistryInv, Alone, NEW c \in Calls, UnderWay(c), left[c] = 0
    PROVE  /\ \A d \in Calls : fire[d] = <<>>
           /\ \A s \in Subs : \A n \in DOMAIN chan[s] : chan[s][n].call \notin Calls
           /\ \A d \in Calls \ {c} : resync[d].todo = {} /\ resync[d].ev = <<>>
           /\ \A s \in Subs, k \in Keys : ~ToSend(s, k) /\ ~Has(chan[s], k)
           /\ \A s \in Subs, k \in Keys : PrevAs(s, k)
<1>1. \A d \in Calls \ {c} : ~UnderWay(d)
  BY DEF Alone
<1>2. fire[c] = <<>> /\ \A s \in Subs : \A n \in DOMAIN chan[s] : chan[s][n].call # c
  BY NothingLeft
<1>3. \A d \in Calls : fire[d] = <<>>
  BY <1>1, <1>2 DEF UnderWay
<1>4. \A s \in Subs : \A n \in DOMAIN chan[s] : chan[s][n].call \notin Calls
  BY <1>1, <1>2 DEF UnderWay, ToSet
<1>5. \A d \in Calls \ {c} : resync[d].todo = {} /\ resync[d].ev = <<>>
  BY <1>1 DEF UnderWay
<1>6. \A s \in Subs, k \in Keys : ~ToSend(s, k) /\ ~Has(chan[s], k)
  BY <1>3, <1>4 DEF ToSend, Has, OfCall
<1>7. \A s \in Subs, k \in Keys : PrevAs(s, k)
  BY <1>3, <1>4, <1>6 DEF PrevAs, OnceIn, OfCall
<1> QED BY <1>3, <1>4, <1>5, <1>6, <1>7

\* The next subscription of a resync.
LEMMA ResyncNextFollows ==
    ASSUME RegistryInv, FollowInv, NEW c \in Calls, NEW s \in Subs, ResyncNext(c, s)
    PROVE  FollowInv'
<1> USE DEF RegistryInv
<1> DEFINE tx == resync[c].tx
           mine == IF s \in subscriptions THEN Watched(s) ELSE {}
           D == Data(c)
<1>1. /\ place[c] = "resync" /\ s \in resync[c].todo /\ resync[c].ev = <<>> /\ resync[c].todo # {}
      /\ UNCHANGED <<place, fire, rchan, chan, view, overlap, late, subscriptions, prefixes>>
      /\ resync' = [resync EXCEPT ![c] = [tx |-> tx, todo |-> resync[c].todo \ {s},
                                  ev |-> IF s \notin subscriptions THEN <<>> ELSE <<resyncEvent(c, s, tx)>>]]
  BY DEF ResyncNext, subsVars
<1>2. /\ resync'[c].tx = tx /\ resync'[c].todo = resync[c].todo \ {s}
      /\ resync'[c].ev = IF s \notin subscriptions THEN <<>> ELSE <<resyncEvent(c, s, tx)>>
      /\ \A d \in Calls \ {c} : resync'[d] = resync[d]
  BY <1>1 DEF Types
<1>3. mine \subseteq Keys
  BY WatchedKeys
<1>4. /\ \A k \in Keys : D[k] = resyncValue(tx, k)
      /\ Data(c)' = D
  BY <1>2 DEF Data, resyncValue
<1>5. /\ \A k \in Keys : told'[k] = IF k \in mine THEN D[k] ELSE told[k]
      /\ \A k \in Keys : lastRev'[k] = IF k \in mine \cap DOMAIN tx THEN D[k] ELSE lastRev[k]
      /\ dropped' = dropped \cup {k \in mine \ DOMAIN tx : lastRev[k] # 0}
  BY <1>4 DEF ResyncNext
<1>6. \A n \in DOMAIN resync'[c].ev : /\ n = 1 /\ s \in subscriptions /\ resync'[c].ev[n].sub = s
                                     /\ DOMAIN resync'[c].ev[n].vals = mine
                                     /\ \A k \in mine : resync'[c].ev[n].vals[k] = D[k]
  <2>1. CASE s \notin subscriptions
    BY <1>2, <2>1
  <2>2. CASE s \in subscriptions
    <3>1. resync'[c].ev = <<resyncEvent(c, s, tx)>>
      BY <1>2, <2>2
    <3>2. /\ resyncEvent(c, s, tx).sub = s /\ DOMAIN resyncEvent(c, s, tx).vals = Watched(s)
          /\ \A k \in Watched(s) : resyncEvent(c, s, tx).vals[k] = resyncValue(tx, k)
      BY DEF resyncEvent
    <3>3. DOMAIN <<resyncEvent(c, s, tx)>> = {1} /\ <<resyncEvent(c, s, tx)>>[1] = resyncEvent(c, s, tx)
      OBVIOUS
    <3> QED BY <1>3, <1>4, <2>2, <3>1, <3>2, <3>3
  <2> QED BY <2>1, <2>2
<1>7. \A k \in Keys \ DOMAIN tx : D[k] = 0
  BY <1>4 DEF resyncValue
<1> HIDE DEF tx, mine, D
<1>8. Known'
  <2>1. \A k \in Keys \ dropped' : lastRev'[k] = told'[k]
    <3> SUFFICES ASSUME NEW k \in Keys \ dropped' PROVE lastRev'[k] = told'[k]
      OBVIOUS
    <3>1. lastRev[k] = told[k]
      BY <1>5 DEF FollowInv, Known
    <3>2. k \in mine /\ k \notin DOMAIN tx => lastRev[k] = 0
      BY <1>5
    <3> QED BY <1>5, <1>7, <3>1, <3>2
  <2>2. \A d \in Calls : \A n \in DOMAIN resync'[d].ev : n = 1
    BY <1>2, <1>6 DEF FollowInv, Known
  <2>3. ~\A d \in Calls : place'[d] = "idle"
    BY <1>1
  <2> QED BY <1>1, <2>1, <2>2, <2>3 DEF FollowInv, Known
<1>9. ASSUME ~overlap' PROVE Apart'
  <2>0. Apart /\ Alone /\ ResyncData(c)
    BY <1>1, <1>9 DEF FollowInv, Apart
  <2>1. UnderWay(c) /\ left[c] = 0
    BY <1>1 DEF UnderWay, Counted
  <2>2. /\ \A d \in Calls : fire[d] = <<>>
        /\ \A t \in Subs : \A n \in DOMAIN chan[t] : chan[t][n].call \notin Calls
        /\ \A d \in Calls \ {c} : resync[d].todo = {} /\ resync[d].ev = <<>>
        /\ \A t \in Subs, k \in Keys : ~ToSend(t, k) /\ ~Has(chan[t], k)
        /\ \A t \in Subs, k \in Keys : PrevAs(t, k)
    BY <2>0, <2>1, OnlyResyncs
  <2>3. Alone'
    <3>1. \A d \in Calls : UnderWay(d)' => UnderWay(d)
      BY <1>1, <1>2, <2>1 DEF UnderWay
    <3> QED BY <2>0, <3>1 DEF Alone
  <2>4. ChangesTold'
    BY <1>1, <2>2 DEF ChangesTold
  <2>5. \A t \in Subs : \A n \in DOMAIN rchan[t] : Says(rchan[t][n], D) /\ Says(rchan[t][n], told')
    <3> SUFFICES ASSUME NEW t \in Subs, NEW n \in DOMAIN rchan[t], NEW k \in DOMAIN rchan[t][n].vals
                 PROVE  rchan[t][n].vals[k] = D[k] /\ rchan[t][n].vals[k] = told'[k]
      BY DEF Says
    <3>1. k \in Keys
      <4>1. rchan[t][n] \in ResyncEvents
        BY Elements
      <4> QED BY <4>1 DEF ResyncEvents, Txs
    <3>2. rchan[t][n].vals[k] = D[k] /\ rchan[t][n].vals[k] = told[k]
      BY <1>1, <2>0 DEF Apart, ResyncsTold, ResyncData, Says, D
    <3> QED BY <1>5, <3>1, <3>2
  <2>6. \A d \in Calls : \A n \in DOMAIN resync'[d].ev : Says(resync'[d].ev[n], D) /\ Says(resync'[d].ev[n], told')
    <3>1. \A n \in DOMAIN resync'[c].ev : Says(resync'[c].ev[n], D) /\ Says(resync'[c].ev[n], told')
      BY <1>3, <1>5, <1>6 DEF Says
    <3>2. \A d \in Calls \ {c} : DOMAIN resync'[d].ev = {}
      BY <1>2, <2>2
    <3> QED BY <3>1, <3>2
  <2>7. ResyncsTold'
    BY <1>1, <2>5, <2>6 DEF ResyncsTold
  <2>8. \A t \in (subscriptions \ late) \ (resync[c].todo \ {s}) : \A k \in Watched(t) : told'[k] = D[k]
    <3> SUFFICES ASSUME NEW t \in (subscriptions \ late) \ (resync[c].todo \ {s}), NEW k \in Watched(t)
                 PROVE  told'[k] = D[k]
      OBVIOUS
    <3>1. k \in Keys
      BY WatchedKeys
    <3>2. CASE t = s
      BY <1>5, <3>1, <3>2 DEF mine
    <3>3. CASE t # s
      <4>1. told[k] = D[k]
        BY <1>1, <2>0, <3>3 DEF ResyncData, D
      <4> QED BY <1>5, <3>1, <4>1
    <3> QED BY <3>2, <3>3
  <2>9. ASSUME NEW d \in Calls PROVE ResyncData(d)'
    <3>1. CASE d = c
      BY <1>1, <1>2, <1>4, <2>5, <2>6, <2>8, <3>1 DEF ResyncData, Watched
    <3>2. CASE d # c
      BY <1>2, <2>2, <3>2 DEF ResyncData
    <3> QED BY <3>1, <3>2
  <2>10. Covered'
    <3> SUFFICES ASSUME NEW t \in subscriptions \ late, NEW k \in Watched(t)
                 PROVE  (view[t][k] = told[k] \/ Coming(t, k))'
      BY <1>1 DEF Covered, Watched
    <3>1. t \in Subs /\ k \in Keys /\ (view[t][k] = told[k] \/ Coming(t, k))
      BY <2>0, WatchedKeys DEF Apart, Covered
    <3>2. CASE t = s
      <4>1. 1 \in DOMAIN resync'[c].ev /\ k \in mine
        BY <1>2, <3>2 DEF mine
      <4>2. resync'[c].ev[1].sub = t /\ k \in DOMAIN resync'[c].ev[1].vals
        BY <1>6, <3>2, <4>1
      <4> QED BY <4>1, <4>2 DEF Coming
    <3>3. CASE t # s /\ t \in resync[c].todo
      <4>1. t \in resync'[c].todo
        BY <1>2, <3>3
      <4> QED BY <4>1 DEF Coming
    <3>4. CASE t # s /\ t \notin resync[c].todo
      <4>1. told[k] = D[k] /\ told'[k] = D[k]
        <5>1. told[k] = D[k]
          BY <1>1, <2>0, <3>4 DEF ResyncData, D
        <5> QED BY <1>5, <3>1, <5>1
      <4>2. Coming(t, k) => \E n \in DOMAIN rchan[t] : k \in DOMAIN rchan[t][n].vals
        BY <1>1, <2>2, <3>1, <3>4 DEF Coming
      <4> QED BY <1>1, <3>1, <4>1, <4>2 DEF Coming
    <3> QED BY <3>2, <3>3, <3>4
  <2>11. Prevs'
    <3> SUFFICES ASSUME NEW t \in subscriptions \ late, NEW k \in Keys, Only(t, k) PROVE PrevAs(t, k)'
      BY <1>1 DEF Prevs, Only
    <3>1. t \in Subs /\ PrevAs(t, k) /\ dropped \subseteq dropped'
      BY <1>5, <2>2, WatchedKeys
    <3> QED BY <1>1, <3>1 DEF PrevAs, ToSend
  <2> QED BY <2>3, <2>4, <2>7, <2>9, <2>10, <2>11 DEF Apart
<1> QED BY <1>8, <1>9 DEF FollowInv

\* The event of a resync moves to the end of a channel.
LEMMA ResyncSendFollows ==
    ASSUME RegistryInv, FollowInv, NEW c \in Calls, ResyncSend(c)
    PROVE  FollowInv'
<1> USE DEF RegistryInv
<1>1. /\ resync[c] \in [tx : Txs, todo : SUBSET Subs, ev : Seq(ResyncEvents)] /\ resync[c].ev # <<>>
      /\ rchan \in [Subs -> Seq(ResyncEvents)]
      /\ UNCHANGED <<place, fire, chan, view, told, lastRev, dropped, overlap, prefixes, subscriptions, late>>
  BY DEF Types, ResyncSend, subsVars, callVars
<1>2. PICK e \in ResyncEvents : /\ e = resync[c].ev[1] /\ e = Head(resync[c].ev) /\ 1 \in DOMAIN resync[c].ev
                                /\ e.sub \in Subs /\ e.call = c
  <2>1. /\ Head(resync[c].ev) \in ResyncEvents /\ Head(resync[c].ev) = resync[c].ev[1] /\ 1 \in DOMAIN resync[c].ev
    BY <1>1, HeadAndTail
  <2>2. Head(resync[c].ev).call = c
    BY <2>1 DEF Resyncs
  <2> QED BY <2>1, <2>2 DEF ResyncEvents
<1>3. /\ resync'[c].tx = resync[c].tx /\ resync'[c].todo = resync[c].todo /\ resync'[c].ev = <<>>
      /\ \A d \in Calls \ {c} : resync'[d] = resync[d]
  <2>1. resync' = [resync EXCEPT ![c] = [resync[c] EXCEPT !.ev = <<>>]]
    BY DEF ResyncSend, Types
  <2> QED BY <1>1, <2>1 DEF Types
<1>4. rchan' = [rchan EXCEPT ![e.sub] = Append(@, e)]
  BY <1>2 DEF ResyncSend
<1>5. /\ \A s \in Subs \ {e.sub} : rchan'[s] = rchan[s]
      /\ \A n \in DOMAIN rchan[e.sub] : n \in DOMAIN rchan'[e.sub] /\ rchan'[e.sub][n] = rchan[e.sub][n]
      /\ \A n \in DOMAIN rchan'[e.sub] : n \in DOMAIN rchan[e.sub] \/ (n = Len(rchan[e.sub]) + 1 /\ rchan'[e.sub][n] = e)
      /\ Len(rchan[e.sub]) + 1 \in DOMAIN rchan'[e.sub] /\ rchan'[e.sub][Len(rchan[e.sub]) + 1] = e
  BY <1>1, <1>2, <1>4, Entered
<1>6. PICK N \in DOMAIN rchan'[e.sub] : rchan'[e.sub][N] = e
  BY <1>5
<1>7. \A s \in Subs : \A n \in DOMAIN rchan'[s] : rchan'[s][n] = e \/ (n \in DOMAIN rchan[s] /\ rchan'[s][n] = rchan[s][n])
  BY <1>5
<1>8. \A s \in Subs : \A n \in DOMAIN rchan[s] : n \in DOMAIN rchan'[s] /\ rchan'[s][n] = rchan[s][n]
  BY <1>2, <1>5
<1>9. Known'
  BY <1>1, <1>3 DEF FollowInv, Known
<1>10. ASSUME ~overlap' PROVE Apart'
  <2>0. Apart /\ Alone
    BY <1>1, <1>10 DEF FollowInv, Apart
  <2>1. Alone'
    <3>1. \A d \in Calls : UnderWay(d)' => UnderWay(d)
      <4>1. UnderWay(c)
        BY <1>1 DEF UnderWay
      <4>2. ASSUME NEW d \in Calls, d # c, UnderWay(d)' PROVE UnderWay(d)
        <5>1. resync'[d] = resync[d] /\ e.call # d
          BY <1>2, <1>3, <4>2
        <5>2. \A s \in Subs : \A x \in ToSet(rchan'[s]) : x.call = d => x \in ToSet(rchan[s])
          BY <1>7, <5>1 DEF ToSet
        <5> QED BY <1>1, <4>2, <5>1, <5>2 DEF UnderWay
      <4> QED BY <4>1, <4>2
    <3> QED BY <2>0, <3>1 DEF Alone
  <2>2. ChangesTold'
    BY <1>1, <2>0 DEF Apart, ChangesTold
  <2>3. ResyncsTold'
    <3>1. Says(e, told)
      BY <1>2, <2>0 DEF Apart, ResyncsTold
    <3>2. \A d \in Calls : \A n \in DOMAIN resync'[d].ev : Says(resync'[d].ev[n], told)
      BY <1>3, <2>0 DEF Apart, ResyncsTold
    <3>3. \A s \in Subs : \A n \in DOMAIN rchan'[s] : Says(rchan'[s][n], told)
      BY <1>7, <2>0, <3>1 DEF Apart, ResyncsTold
    <3> QED BY <1>1, <3>2, <3>3 DEF ResyncsTold
  <2>4. ASSUME NEW d \in Calls PROVE ResyncData(d)'
    <3> SUFFICES ASSUME resync'[d].todo # {} PROVE ResyncData(d)'
      BY DEF ResyncData
    <3>0. resync'[d].tx = resync[d].tx /\ resync'[d].todo = resync[d].todo
      BY <1>3
    <3>1. Data(d)' = Data(d)
      BY <3>0 DEF Data, resyncValue
    <3>2. ResyncData(d)
      BY <2>0 DEF Apart
    <3>3. Says(e, Data(d))
      BY <1>2, <3>0, <3>2 DEF ResyncData
    <3>4. \A b \in Calls : \A n \in DOMAIN resync'[b].ev : Says(resync'[b].ev[n], Data(d))
      BY <1>3, <3>0, <3>2 DEF ResyncData
    <3>5. \A s \in Subs : \A n \in DOMAIN rchan'[s] : Says(rchan'[s][n], Data(d))
      BY <1>7, <3>0, <3>2, <3>3 DEF ResyncData
    <3>6. \A s \in (subscriptions \ late) \ resync'[d].todo : \A k \in Watched(s) : told[k] = Data(d)[k]
      BY <3>0, <3>2 DEF ResyncData
    <3> QED BY <1>1, <3>1, <3>4, <3>5, <3>6 DEF ResyncData, Watched
  <2>5. Covered'
    <3> SUFFICES ASSUME NEW s \in subscriptions \ late, NEW k \in Watched(s)
                 PROVE  (view[s][k] = told[k] \/ Coming(s, k))'
      BY <1>1 DEF Covered, Watched
    <3>1. s \in Subs /\ k \in Keys /\ (view[s][k] = told[k] \/ Coming(s, k))
      BY <2>0, WatchedKeys DEF Apart, Covered
    <3>2. ASSUME NEW d \in Calls, NEW n \in DOMAIN resync[d].ev, resync[d].ev[n].sub = s, k \in DOMAIN resync[d].ev[n].vals
          PROVE  Coming(s, k)'
      <4>1. CASE d = c
        <5>1. n = 1
          BY <4>1 DEF FollowInv, Known
        <5>2. e.sub = s /\ k \in DOMAIN e.vals
          BY <1>2, <3>2, <4>1, <5>1
        <5> QED BY <1>6, <5>2 DEF Coming
      <4>2. CASE d # c
        <5>1. resync'[d] = resync[d]
          BY <1>3, <4>2
        <5> QED BY <3>2, <5>1 DEF Coming
      <4> QED BY <4>1, <4>2
    <3>3. (\E d \in Calls : s \in resync[d].todo) => \E d \in Calls : s \in resync'[d].todo
      BY <1>3
    <3>4. (\E n \in DOMAIN rchan[s] : k \in DOMAIN rchan[s][n].vals) =>
            \E n \in DOMAIN rchan'[s] : k \in DOMAIN rchan'[s][n].vals
      BY <1>8, <3>1
    <3>5. Coming(s, k) => Coming(s, k)'
      BY <1>1, <3>2, <3>3, <3>4 DEF Coming, ToSend
    <3> QED BY <1>1, <3>1, <3>5
  <2>6. Prevs'
    <3> SUFFICES ASSUME NEW t \in subscriptions \ late, NEW k \in Keys, Only(t, k) PROVE PrevAs(t, k)'
      BY <1>1 DEF Prevs, Only
    <3>1. PrevAs(t, k)
      BY <2>0 DEF Apart, Prevs
    <3> QED BY <1>1, <3>1 DEF PrevAs, ToSend
  <2> QED BY <2>1, <2>2, <2>3, <2>4, <2>5, <2>6 DEF Apart
<1> QED BY <1>9, <1>10 DEF FollowInv

\* An application takes over the values of a resync event.
LEMMA AppResyncsFollows ==
    ASSUME RegistryInv, FollowInv, NEW t \in Subs, AppResyncs(t)
    PROVE  FollowInv'
<1> USE DEF RegistryInv
<1>1. /\ rchan \in [Subs -> Seq(ResyncEvents)] /\ rchan[t] # <<>> /\ rchan' = [rchan EXCEPT ![t] = Tail(@)]
      /\ UNCHANGED <<place, fire, chan, told, lastRev, dropped, resync, overlap, prefixes, subscriptions, late>>
  BY DEF Types, AppResyncs, subsVars, callVars
<1>2. /\ \A s \in Subs \ {t} : rchan'[s] = rchan[s]
      /\ \A n \in DOMAIN rchan'[t] : n \in Nat /\ n >= 1 /\ n + 1 \in DOMAIN rchan[t] /\ rchan'[t][n] = rchan[t][n + 1]
      /\ \A n \in DOMAIN rchan[t] : n # 1 => n - 1 \in DOMAIN rchan'[t] /\ rchan'[t][n - 1] = rchan[t][n]
      /\ 1 \in DOMAIN rchan[t] /\ Head(rchan[t]) = rchan[t][1] /\ rchan[t][1] \in ResyncEvents
  BY <1>1, Taken
<1>3. PICK e \in ResyncEvents : e = rchan[t][1] /\ e.call \in Calls /\ e.vals \in Txs
  BY <1>2 DEF ResyncEvents
<1>4. /\ view' \in [Subs -> [Keys -> Nat]]
      /\ \A k \in Keys : view'[t][k] = IF k \in DOMAIN e.vals THEN e.vals[k] ELSE view[t][k]
      /\ \A s \in Subs \ {t} : view'[s] = view[s]
  <2>1. /\ view \in [Subs -> [Keys -> Nat]]
        /\ view' = [view EXCEPT ![t] = [k \in Keys |-> IF k \in DOMAIN e.vals THEN e.vals[k] ELSE @[k]]]
    BY <1>2, <1>3 DEF AppResyncs, FollowInv, Known
  <2>2. \A k \in DOMAIN e.vals : e.vals[k] \in Nat
    BY <1>3 DEF Txs
  <2> QED BY <2>1, <2>2
<1>5. /\ left[e.call] = 0 /\ UnderWay(e.call) /\ place[e.call] # "idle"
  <2>1. place[e.call] = "resync" \/ (place[e.call] = "returned" /\ result[e.call] = "sent")
    BY <1>2, <1>3 DEF Resyncs
  <2>2. left[e.call] = 0
    BY <1>3, <2>1 DEF Counted
  <2>3. UnderWay(e.call)
    BY <1>2, <1>3 DEF UnderWay, ToSet
  <2> QED BY <2>1, <2>2, <2>3
<1>6. Known'
  BY <1>1, <1>3, <1>4, <1>5 DEF FollowInv, Known
<1>7. \A s \in Subs : \A n \in DOMAIN rchan'[s] : \E m \in DOMAIN rchan[s] : rchan[s][m] = rchan'[s][n]
  BY <1>2
<1>8. ASSUME ~overlap' PROVE Apart'
  <2>0. Apart /\ Alone
    BY <1>1, <1>8 DEF FollowInv, Apart
  <2>1. Alone'
    <3>1. \A d \in Calls : UnderWay(d)' => UnderWay(d)
      <4>1. \A s \in Subs : \A x \in ToSet(rchan'[s]) : x \in ToSet(rchan[s])
        BY <1>7 DEF ToSet
      <4> QED BY <1>1, <4>1 DEF UnderWay
    <3> QED BY <2>0, <3>1 DEF Alone
  <2>2. ChangesTold'
    BY <1>1, <2>0 DEF Apart, ChangesTold
  <2>3. ResyncsTold'
    <3>1. \A d \in Calls : \A n \in DOMAIN resync[d].ev : Says(resync[d].ev[n], told)
      BY <2>0 DEF Apart, ResyncsTold
    <3>2. \A s \in Subs : \A n \in DOMAIN rchan'[s] : Says(rchan'[s][n], told)
      BY <1>7, <2>0 DEF Apart, ResyncsTold
    <3> QED BY <1>1, <3>1, <3>2 DEF ResyncsTold
  <2>4. ASSUME NEW d \in Calls PROVE ResyncData(d)'
    <3>1. Data(d)' = Data(d)
      BY <1>1 DEF Data, resyncValue
    <3>2. ResyncData(d)
      BY <2>0 DEF Apart
    <3>3. resync[d].todo # {} => \A s \in Subs : \A n \in DOMAIN rchan'[s] : Says(rchan'[s][n], Data(d))
      BY <1>7, <3>2 DEF ResyncData
    <3> QED BY <1>1, <3>1, <3>2, <3>3 DEF ResyncData, Watched
  <2>5. Covered'
    <3> SUFFICES ASSUME NEW s \in subscriptions \ late, NEW k \in Watched(s)
                 PROVE  (view[s][k] = told[k] \/ Coming(s, k))'
      BY <1>1 DEF Covered, Watched
    <3>1. s \in Subs /\ k \in Keys /\ (view[s][k] = told[k] \/ Coming(s, k))
      BY <2>0, WatchedKeys DEF Apart, Covered
    <3>2. CASE s = t /\ k \in DOMAIN e.vals
      <4>1. e.vals[k] = told[k]
        BY <1>2, <1>3, <2>0, <3>2 DEF Apart, ResyncsTold, Says
      <4> QED BY <1>1, <1>4, <3>1, <3>2, <4>1
    <3>3. CASE s # t \/ k \notin DOMAIN e.vals
      <4>1. view'[s][k] = view[s][k]
        BY <1>4, <3>1, <3>3
      <4>2. ASSUME NEW n \in DOMAIN rchan[s], k \in DOMAIN rchan[s][n].vals
            PROVE  \E m \in DOMAIN rchan'[s] : rchan'[s][m] = rchan[s][n]
        BY <1>2, <1>3, <3>1, <3>3, <4>2
      <4>3. Coming(s, k) => Coming(s, k)'
        BY <1>1, <4>2 DEF Coming, ToSend
      <4> QED BY <1>1, <3>1, <4>1, <4>3
    <3> QED BY <3>2, <3>3
  <2>6. Prevs'
    <3> SUFFICES ASSUME NEW s \in subscriptions \ late, NEW k \in Keys, Only(s, k) PROVE PrevAs(s, k)'
      BY <1>1 DEF Prevs, Only
    <3>1. s \in Subs
      BY WatchedKeys
    <3>2. /\ \A d \in Calls : fire[d] = <<>> /\ ~ToSend(s, k) /\ ~Has(chan[s], k)
      BY <1>3, <1>5, <2>0, <3>1, OnlyResyncs
    <3>3. ~ToSend(s, k) /\ ~Has(chan[s], k)
      BY <1>3, <3>2
    <3>4. \A n \in DOMAIN chan[s] : ~OfCall(chan[s][n], k)
      BY <3>3 DEF Has
    <3> QED BY <1>1, <3>2, <3>3, <3>4 DEF PrevAs, ToSend, OnceIn, Has
  <2> QED BY <2>1, <2>2, <2>3, <2>4, <2>5, <2>6 DEF Apart
<1> QED BY <1>6, <1>8 DEF FollowInv

\* An event of the stream enters or leaves a channel.
LEMMA StreamEventMoves ==
    ASSUME Types, NEW t \in Subs,
           \/ \E e \in Events : e.call = Stream /\ chan' = [chan EXCEPT ![t] = Append(@, e)]
           \/ chan[t] # <<>> /\ Head(chan[t]).call = Stream /\ chan' = [chan EXCEPT ![t] = Tail(@)]
    PROVE  SameCalls
<1>1. chan \in [Subs -> Seq(Events)]
  BY DEF Types
<1>2. ASSUME NEW e \in Events, e.call = Stream, chan' = [chan EXCEPT ![t] = Append(@, e)] PROVE SameCalls
  <2>1. /\ \A s \in Subs \ {t} : chan'[s] = chan[s]
        /\ \A n \in DOMAIN chan[t] : n \in DOMAIN chan'[t] /\ chan'[t][n] = chan[t][n]
        /\ \A n \in DOMAIN chan'[t] : n \in DOMAIN chan[t] \/ (n = Len(chan[t]) + 1 /\ chan'[t][n] = e)
    BY <1>1, <1>2, Entered
  <2>2. e.call \notin Calls
    BY <1>2, TransportsAssumption
  <2>3. /\ \A s \in Subs : \A n \in DOMAIN chan[s] : n \in DOMAIN chan'[s] /\ chan'[s][n] = chan[s][n]
        /\ \A s \in Subs : \A n \in DOMAIN chan'[s] :
             chan'[s][n].call \in Calls => n \in DOMAIN chan[s] /\ chan'[s][n] = chan[s][n]
    BY <2>1, <2>2
  <2> QED BY <2>3 DEF SameCalls, Has, OnceIn, OfCall
<1>3. ASSUME chan[t] # <<>>, Head(chan[t]).call = Stream, chan' = [chan EXCEPT ![t] = Tail(@)] PROVE SameCalls
  <2>1. /\ \A s \in Subs \ {t} : chan'[s] = chan[s]
        /\ \A n \in DOMAIN chan'[t] : n \in Nat /\ n + 1 \in DOMAIN chan[t] /\ chan'[t][n] = chan[t][n + 1]
        /\ \A n \in DOMAIN chan[t] : n # 1 => n - 1 \in DOMAIN chan'[t] /\ chan'[t][n - 1] = chan[t][n]
        /\ 1 \in DOMAIN chan[t] /\ Head(chan[t]) = chan[t][1]
    BY <1>1, <1>3, Taken
  <2>2. chan[t][1].call \notin Calls
    BY <1>3, <2>1, TransportsAssumption
  <2>3. ASSUME NEW k \in Keys, Has(chan[t], k) PROVE Has(chan'[t], k)
    BY <2>1, <2>2, <2>3 DEF Has, OfCall
  <2>4. ASSUME NEW k \in Keys, OnceIn(chan[t], k) PROVE OnceIn(chan'[t], k)
    <3> SUFFICES ASSUME NEW n \in DOMAIN chan'[t], NEW m \in DOMAIN chan'[t],
                        OfCall(chan'[t][n], k), OfCall(chan'[t][m], k)
                 PROVE  n = m
      BY DEF OnceIn
    <3>1. n + 1 \in DOMAIN chan[t] /\ m + 1 \in DOMAIN chan[t] /\ n \in Nat /\ m \in Nat
          /\ OfCall(chan[t][n + 1], k) /\ OfCall(chan[t][m + 1], k)
      BY <2>1
    <3>2. n + 1 = m + 1
      BY <2>4, <3>1 DEF OnceIn
    <3> QED BY <3>1, <3>2
  <2>5. \A s \in Subs : \A n \in DOMAIN chan'[s] : \E m \in DOMAIN chan[s] : chan[s][m] = chan'[s][n]
    BY <2>1
  <2> QED BY <2>1, <2>3, <2>4, <2>5 DEF SameCalls
<1> QED BY <1>2, <1>3

\* A step that leaves the channels and the loops as they are.
LEMMA IdleFollows ==
    ASSUME Types, FollowInv, UNCHANGED <<fire, view, told, lastRev, dropped, rchan, overlap, prefixes>>,
           UNCHANGED <<subscriptions, late, chan>>, \A c \in Calls : place'[c] = "idle" => place[c] = "idle",
           \A c \in Calls : \/ resync'[c] = resync[c]
                            \/ resync[c].todo = {} /\ resync[c].ev = <<>> /\ resync'[c] = Quiet
    PROVE  FollowInv'
<1>1. SameCalls
  BY DEF SameCalls
<1>2. Quiet.todo = {} /\ Quiet.ev = <<>>
  BY DEF Quiet
<1>3. QuietStep
  BY <1>1, <1>2 DEF QuietStep
<1> QED BY <1>3, QuietFollows

\* Every step keeps what applications know and what is coming.
LEMMA FollowNext == Inv /\ FollowInv /\ [TNext]_tvars => FollowInv'
<1> SUFFICES ASSUME Inv, FollowInv, [TNext]_tvars PROVE FollowInv'
  OBVIOUS
<1>a. RegistryInv /\ Types
  BY DEF Inv, RegistryInv
<1>b. ASSUME UNCHANGED vars PROVE FollowInv'
  BY <1>a, <1>b, IdleFollows DEF vars
<1>c. ASSUME SameCalls,
             UNCHANGED <<lastRev, view, overlap, late>> /\ UNCHANGED <<callVars, subsVars, resyncVars>>
      PROVE  FollowInv'
  <2>1. QuietStep
    BY <1>c DEF QuietStep, callVars, subsVars, resyncVars
  <2> QED BY <1>a, <2>1, QuietFollows
<1>1. CASE UNCHANGED tvars
  BY <1>1, <1>b DEF tvars
<1>2. ASSUME NEW s \in Subs,
             \/ WatchRest(s) \/ WatchGrpc(s) \/ AggregatedClose(s) \/ CloseOne(s) \/ LocalWatch(s)
             \/ \E p \in KeyPrefixes : AggregatedUnregister(s, p)
      PROVE  FollowInv'
  <2>1. UNCHANGED vars \/ Watch(s) \/ Close(s) \/ \E p \in KeyPrefixes : Unregister(s, p)
    BY <1>2 DEF WatchRest, WatchGrpc, AggregatedClose, CloseOne, LocalWatch, AggregatedUnregister
  <2> QED BY <1>a, <1>b, <2>1, RegisterFollows
<1>3. ASSUME NEW s \in Subs, AppWorks(s) PROVE FollowInv'
  BY <1>3, <1>a, HandleFollows, AppResyncsFollows DEF AppWorks, AppStep
<1>4. ASSUME NEW c \in Calls, CallWorks(c) PROVE FollowInv'
  <2>1. CASE Collect(c)
    BY <1>a, <2>1, IdleFollows DEF Collect, subsVars, resyncVars
  <2> QED BY <1>4, <1>a, <2>1, FireFollows, ResyncSendFollows, ResyncNextFollows DEF CallWorks, CallStep
<1>5. ASSUME NEW c \in Calls, Return(c) PROVE FollowInv'
  <2>1. CASE CallDone(c) \/ CallTimeout(c)
    <3>1. /\ UNCHANGED <<fire, view, lastRev, overlap, late, chan>> /\ UNCHANGED subsVars /\ UNCHANGED resyncVars
          /\ place' = [place EXCEPT ![c] = "returned"]
      BY <2>1 DEF CallDone, CallTimeout
    <3>2. \A d \in Calls : place'[d] = "idle" => place[d] = "idle"
      BY <1>a, <3>1 DEF Types
    <3> QED BY <1>a, <3>1, <3>2, IdleFollows DEF subsVars, resyncVars
  <2>2. CASE ResyncDone(c)
    <3>1. /\ UNCHANGED <<fire, view, told, dropped, rchan, lastRev, overlap, late, chan>> /\ UNCHANGED subsVars
          /\ place' = [place EXCEPT ![c] = "returned"] /\ resync' = [resync EXCEPT ![c] = Quiet]
          /\ resync[c].todo = {} /\ resync[c].ev = <<>>
      BY <2>2 DEF ResyncDone
    <3>2. \A d \in Calls : place'[d] = "idle" => place[d] = "idle"
      BY <1>a, <3>1 DEF Types
    <3>3. \A d \in Calls : resync'[d] = resync[d] \/ (d = c /\ resync'[d] = Quiet)
      BY <1>a, <3>1 DEF Types
    <3> QED BY <1>a, <3>1, <3>2, <3>3, IdleFollows DEF subsVars
  <2> QED BY <1>5, <2>1, <2>2 DEF Return, CallReturns
<1>6. ASSUME NEW c \in Calls, Commit(c) PROVE FollowInv'
  <2>1. items \in Txs
    BY DEF Inv, TransportTypes
  <2> QED BY <1>6, <1>a, <2>1, ChangesFollows, ResyncBeginsFollows DEF Commit
<1>7. ASSUME NEW c \in Calls, NEW k \in Keys, RestDelete(c, k) PROVE FollowInv'
  <2>1. [j \in {k} |-> 0] \in Txs
    <3>1. [j \in {k} |-> 0] \in [{k} -> Nat] /\ {k} \in SUBSET Keys
      OBVIOUS
    <3> QED BY <3>1 DEF Txs
  <2> QED BY <1>7, <1>a, <2>1, ChangesFollows DEF RestDelete
<1>8. ASSUME NEW c \in Calls, NEW k \in Keys, RestPut(c, k) PROVE FollowInv'
  <2>1. /\ UNCHANGED <<fire, view, lastRev, overlap, late, chan>> /\ UNCHANGED subsVars /\ UNCHANGED resyncVars
        /\ place' = [place EXCEPT ![c] = "returned"]
    BY <1>8 DEF RestPut
  <2>2. \A d \in Calls : place'[d] = "idle" => place[d] = "idle"
    BY <1>a, <2>1 DEF Types
  <2> QED BY <1>a, <2>1, <2>2, IdleFollows DEF subsVars, resyncVars
<1>9. CASE Receive \/ StreamEnds \/ PutBegins \/ PutNext \/ (\E o \in Ops : TxnOp(o))
           \/ \E w \in ToSet(Writers) : AfterInit(w)
  <2>1. UNCHANGED vars
    BY <1>9 DEF Receive, StreamEnds, PutBegins, PutNext, TxnOp, AfterInit
  <2> QED BY <1>b, <2>1
<1>10. CASE Send
  <2>1. gloop \in Seq(Events) /\ gloop # <<>> /\ \A n \in DOMAIN gloop : gloop[n].call = Stream
    BY <1>10 DEF Send, Inv, TransportTypes
  <2>2. PICK e \in Events : e = Head(gloop) /\ e.call = Stream
    BY <2>1, HeadAndTail
  <2>3. e.sub \in Subs /\ chan' = [chan EXCEPT ![e.sub] = Append(@, e)]
    BY <1>10, <2>2 DEF Send, Events
  <2>4. SameCalls
    BY <1>a, <2>2, <2>3, StreamEventMoves
  <2> QED BY <1>10, <1>c, <2>3, <2>4 DEF Send
<1>11. ASSUME NEW s \in Subs, AppHandlesStream(s) PROVE FollowInv'
  <2>1. SameCalls
    BY <1>11, <1>a, StreamEventMoves DEF AppHandlesStream
  <2> QED BY <1>11, <1>c, <2>1 DEF AppHandlesStream
<1> QED BY <1>1, <1>2, <1>3, <1>4, <1>5, <1>6, <1>7, <1>8, <1>9, <1>10, <1>11 DEF TNext

\* Nobody has watched or called yet.
LEMMA FollowInit == TInit => FollowInv
<1> SUFFICES ASSUME TInit PROVE FollowInv
  OBVIOUS
<1> USE DEF TInit, Init
<1>1. Known
  BY RegistryAssumption DEF Known, Quiet
<1>2. /\ \A c \in Calls : ~UnderWay(c) /\ DOMAIN fire[c] = {} /\ resync[c].todo = {} /\ DOMAIN resync[c].ev = {}
      /\ \A s \in Subs : DOMAIN chan[s] = {} /\ DOMAIN rchan[s] = {}
  BY DEF UnderWay, Quiet, ToSet
<1>3. Alone /\ ChangesTold /\ ResyncsTold /\ \A c \in Calls : ResyncData(c)
  BY <1>2 DEF Alone, ChangesTold, ResyncsTold, ResyncData
<1>4. Covered /\ Prevs
  BY DEF Covered, Prevs
<1> QED BY <1>1, <1>3, <1>4 DEF FollowInv, Apart

\* Once nothing is under way, applications know what the callers last said.
LEMMA ViewsAreFollowed ==
    ASSUME Inv, FollowInv
    PROVE  ViewsFollow
<1> SUFFICES ASSUME ~overlap, \A c \in Calls : ~UnderWay(c), NEW s \in subscriptions \ late, NEW k \in Watched(s)
             PROVE  view[s][k] = told[k]
  BY DEF ViewsFollow
<1>1. Types /\ Covered
  BY DEF Inv, RegistryInv, FollowInv, Apart
<1>2. s \in Subs /\ k \in Keys
  BY <1>1, WatchedKeys
<1>3. ~Coming(s, k)
  BY <1>1, <1>2, NothingComes
<1> QED BY <1>1, <1>3 DEF Covered

\* The next change event has the previous value of its application.
LEMMA PrevsAreKnown ==
    ASSUME Inv, FollowInv
    PROVE  PrevIsKnown
<1> SUFFICES ASSUME ~overlap, NEW s \in subscriptions \ late, chan[s] # <<>>, Head(chan[s]).call \in Calls,
                    Head(chan[s]).key \notin dropped,
                    Cardinality({p \in KeyPrefixes : Head(chan[s]).key \in Matches[p]}) = 1,
                    \A t \in Subs \ {s} : \A p \in Wanted[t] : Head(chan[s]).key \notin Matches[p]
             PROVE  Head(chan[s]).prev = view[s][Head(chan[s]).key]
  BY DEF PrevIsKnown
<1>1. Types /\ Prevs
  BY DEF Inv, RegistryInv, FollowInv, Apart
<1>2. s \in Subs /\ chan[s] \in Seq(Events)
  BY <1>1, WatchedKeys DEF Types
<1>3. 1 \in DOMAIN chan[s] /\ Head(chan[s]) = chan[s][1] /\ chan[s][1] \in Events
  BY <1>2, HeadAndTail
<1>4. PICK k \in Keys : k = chan[s][1].key
  BY <1>3 DEF Events
<1>5. Only(s, k)
  BY <1>3, <1>4 DEF Only
<1>6. PrevAs(s, k) /\ k \notin dropped
  BY <1>1, <1>3, <1>4, <1>5 DEF Prevs
<1>7. OfCall(chan[s][1], k)
  BY <1>3, <1>4 DEF OfCall
<1> QED BY <1>3, <1>4, <1>6, <1>7 DEF PrevAs

\* What applications know and what is coming, of every behaviour of the transports.
LEMMA FollowHolds == TSpec => []FollowInv
BY FollowInit, FollowNext, TransportsInvHolds, PTL DEF TSpec

\* An event under way is true.  The values the sending goroutine of PropagateChanges
\* pushes are those of the transaction Commit still holds, however long the goroutine
\* outlives the loop that made them; and the previous value PrevRevisions gave an
\* event is, when the application reads it, still the value the application has.
THEOREM EventsAreTrue == TSpec => []EventsTrue
<1>1. Inv /\ FollowInv => PrevIsKnown
  BY PrevsAreKnown
<1>2. CommitIsFrozen /\ PrevIsKnown => EventsTrue
  BY DEF EventsTrue
<1> QED BY <1>1, <1>2, CommitsFrozen, FollowHolds, TransportsInvHolds, PTL

\* Applications end up with what their callers and their stream have last said, for
\* any number of applications, keys, prefixes and calls and any channel capacity:
\* neither PropagateChanges nor PropagateResync, whose loops the applications
\* interrupt by reading, registering, unregistering and closing, leaves one behind,
\* and DataChanges of gRPC loses and reorders no change.
THEOREM ApplicationsCatchUp == TSpec => []ApplicationsFollow
<1>1. Inv /\ FollowInv => ViewsFollow
  BY ViewsAreFollowed
<1>2. ViewsFollow /\ StreamFollowed => ApplicationsFollow
  BY DEF ApplicationsFollow
<1> QED BY <1>1, <1>2, StreamIsFollowed, FollowHolds, TransportsInvHolds, PTL
=============================================================================
