-------------------------- MODULE KeyvalBrokerProofs --------------------------
(***************************************************************************)
(* Watching, listing and deleting by prefix in etcd and Redis, for any     *)
(* keys, prefixes (overlapping or not) and values, and any number of       *)
(* writes between two steps.                                               *)
(***************************************************************************)
EXTENDS KeyvalBroker, FiniteSetTheorems, SequenceTheorems, TLAPS

Stored == Vals \cup {None}
Events == [key : Keys, val : Stored]
Iters == [op : {"none", "list", "delete"}, prefix : KeyPrefixes \cup {None}, rest : SUBSET Keys, batch : SUBSET Keys,
          items : SUBSET (Keys \X Stored \X Stored), since : [Keys -> SUBSET Stored] \cup {<<>>}, failed : BOOLEAN]

\* The state of the connection and its watchers, in more detail than TypeOK.
Types ==
    /\ kind \in {"etcd", "redis"} /\ store \in [Keys -> Stored] /\ leased \subseteq Keys /\ conn \in {"open", "closed"}
    /\ watch \in [Gs -> {"none", "running", "deaf", "ended"}]
    /\ queue \in [Gs -> Seq(Events)] /\ view \in [Gs -> [Keys -> Stored]]
    /\ \A g \in Gs : watch[g] # "none" => (g = KeyPrefixes <=> kind = "redis")
    /\ iter \in Iters

\* The last event of key k among the events q has value v.
LastIs(q, k, v) == \A n \in DOMAIN q : (q[n].key = k /\ \A m \in DOMAIN q : m > n => q[m].key # k) => q[n].val = v

\* What the watcher has been told of a key is right, but for etcd's values of no bytes.
Knows(g, k) == view[g][k] = store[k] \/ (kind = "etcd" /\ store[k] = Empty)

\* The last event of a key that is on its way is the last write of that key.
Fed(g, k) == LastIs(queue[g], k, store[k]) /\ (~Pending(queue[g], k) => Knows(g, k))

WatchInv(g) ==
    /\ watch[g] = "none" => queue[g] = <<>>
    /\ watch[g] = "running" /\ conn = "open" => \A k \in Watched(g) \ missed : Fed(g, k)

\* A listing or deletion under way: it notes the values keys have, the pairs it has got
\* are among them, and a key that was there all the time is before the cursor, in the
\* batch, or collected; a deletion has no batches to read.
IterInv ==
    /\ iter.op = "none" => iter.rest = {} /\ iter.batch = {}
    /\ iter.op # "none" => /\ iter.prefix \in KeyPrefixes /\ iter.since \in [Keys -> SUBSET Stored]
                           /\ \A k \in Keys : store[k] \in iter.since[k]
                           /\ iter.failed \/ \A k \in KeysOf[iter.prefix] :
                                 None \notin iter.since[k] => k \in iter.rest \cup iter.batch \cup Collected
    /\ iter.op = "delete" => iter.batch = {}
    /\ ListedTruly

\* The inductive invariant.
Inv == Types /\ IterInv /\ \A g \in Gs : WatchInv(g)

----------------------------------------------------------------------------
(* Sequences and sets. *)

\* Events that follow others.
LEMMA LastAppended ==
    ASSUME NEW S, NEW q \in Seq(S), NEW r \in Seq(S), NEW k, NEW v,
           LastIs(r, k, v), Pending(r, k) \/ LastIs(q, k, v)
    PROVE  LastIs(q \o r, k, v) /\ (Pending(q \o r, k) <=> Pending(q, k) \/ Pending(r, k))
<1> DEFINE s == q \o r
<1>1. PICK M \in Nat : M = Len(q)
  BY LenProperties
<1>2. PICK N \in Nat : N = Len(r)
  BY LenProperties
<1>3. /\ DOMAIN q = 1..M /\ DOMAIN r = 1..N /\ DOMAIN s = 1..(M + N)
      /\ \A n \in 1..M : s[n] = q[n]
      /\ \A n \in 1..(M + N) : n > M => s[n] = r[n - M]
  <2>1. s \in Seq(S) /\ Len(s) = M + N
    BY <1>1, <1>2, ConcatProperties
  <2>2. DOMAIN q = 1..M /\ DOMAIN r = 1..N /\ DOMAIN s = 1..(M + N)
    BY <1>1, <1>2, <2>1, LenProperties
  <2>3. \A n \in 1..(M + N) : s[n] = IF n <= M THEN q[n] ELSE r[n - M]
    BY <1>1, <1>2, ConcatProperties
  <2> QED BY <2>2, <2>3
<1> HIDE DEF s
<1>4. \A n \in 1..N : n + M \in DOMAIN s /\ s[n + M] = r[n]
  <2> SUFFICES ASSUME NEW n \in 1..N PROVE n + M \in DOMAIN s /\ s[n + M] = r[n]
    OBVIOUS
  <2>1. n + M \in 1..(M + N) /\ n + M > M /\ (n + M) - M = n
    OBVIOUS
  <2> QED BY <1>3, <2>1
<1>5. \A n \in 1..M : n \in DOMAIN s /\ s[n] = q[n]
  BY <1>3
<1>6. \A n \in DOMAIN s : n \in 1..M \/ (n > M /\ n - M \in 1..N /\ s[n] = r[n - M])
  BY <1>3
<1>7. Pending(s, k) <=> Pending(q, k) \/ Pending(r, k)
  <2>1. ASSUME Pending(s, k) PROVE Pending(q, k) \/ Pending(r, k)
    <3>1. PICK n \in DOMAIN s : s[n].key = k
      BY <2>1 DEF Pending
    <3>2. CASE n \in 1..M
      BY <1>3, <1>5, <3>1, <3>2 DEF Pending
    <3>3. CASE n - M \in 1..N /\ s[n] = r[n - M]
      BY <1>3, <3>1, <3>3 DEF Pending
    <3> QED BY <1>6, <3>2, <3>3
  <2>2. ASSUME Pending(q, k) PROVE Pending(s, k)
    BY <1>3, <1>5, <2>2 DEF Pending
  <2>3. ASSUME Pending(r, k) PROVE Pending(s, k)
    BY <1>3, <1>4, <2>3 DEF Pending
  <2> QED BY <2>1, <2>2, <2>3
<1>8. LastIs(s, k, v)
  <2> SUFFICES ASSUME NEW n \in DOMAIN s, s[n].key = k, \A m \in DOMAIN s : m > n => s[m].key # k
               PROVE  s[n].val = v
    BY DEF LastIs
  <2>1. CASE n \in 1..M
    <3>1. ASSUME NEW m \in 1..N PROVE r[m].key # k
      <4>1. m + M > n
        BY <2>1
      <4> QED BY <1>4, <4>1
    <3>2. LastIs(q, k, v)
      BY <1>3, <3>1 DEF Pending
    <3>3. \A m \in 1..M : m > n => q[m].key # k
      BY <1>5
    <3> QED BY <1>3, <1>5, <2>1, <3>2, <3>3 DEF LastIs
  <2>2. CASE n > M
    <3>1. PICK j \in 1..N : j = n - M
      BY <1>6, <2>2
    <3>2. s[n] = r[j]
      BY <1>3, <1>6, <2>2, <3>1
    <3>3. ASSUME NEW m \in 1..N, m > j PROVE r[m].key # k
      <4>1. m + M > n
        BY <1>3, <2>2, <3>1, <3>3
      <4> QED BY <1>4, <4>1
    <3> QED BY <1>3, <3>2, <3>3 DEF LastIs
  <2> QED BY <1>6, <2>1, <2>2
<1> QED BY <1>7, <1>8 DEF s

\* The first event is taken.
LEMMA LastTaken ==
    ASSUME NEW S, NEW q \in Seq(S), q # <<>>, NEW k, NEW v, LastIs(q, k, v)
    PROVE  /\ LastIs(Tail(q), k, v) /\ Head(q) \in S
           /\ Pending(q, k) /\ ~Pending(Tail(q), k) => Head(q).key = k
           /\ ~Pending(Tail(q), k) /\ Head(q).key = k => Head(q).val = v
<1> DEFINE r == Tail(q)
<1>1. Len(q) \in Nat \ {0} /\ DOMAIN q = 1..Len(q)
  BY EmptySeq, LenProperties
<1>2. PICK N \in Nat : N + 1 = Len(q) /\ N = Len(q) - 1
  <2>1. Len(q) - 1 \in Nat /\ (Len(q) - 1) + 1 = Len(q)
    BY <1>1
  <2> QED BY <2>1
<1>3. /\ DOMAIN q = 1..(N + 1) /\ DOMAIN r = 1..N /\ \A n \in 1..N : r[n] = q[n + 1]
      /\ Head(q) \in S
  <2>1. Head(q) \in S /\ r \in Seq(S) /\ Len(r) = N /\ \A n \in 1..Len(r) : r[n] = q[n + 1]
    BY <1>2, HeadTailProperties
  <2> QED BY <1>1, <1>2, <2>1, LenProperties
<1>4. Head(q) = q[1]
  OBVIOUS
<1> HIDE DEF r
<1>5. \A m \in DOMAIN q : m = 1 \/ (m - 1 \in DOMAIN r /\ r[m - 1] = q[m])
  BY <1>3
<1>6. \A n \in DOMAIN r : n + 1 \in DOMAIN q /\ r[n] = q[n + 1]
  BY <1>3
<1>7. LastIs(r, k, v)
  <2> SUFFICES ASSUME NEW n \in DOMAIN r, r[n].key = k, \A m \in DOMAIN r : m > n => r[m].key # k
               PROVE  r[n].val = v
    BY DEF LastIs
  <2>1. ASSUME NEW m \in DOMAIN q, m > n + 1 PROVE q[m].key # k
    <3>1. m - 1 \in DOMAIN r /\ m - 1 > n /\ r[m - 1] = q[m]
      BY <1>3, <1>5, <2>1
    <3> QED BY <3>1
  <2> QED BY <1>6, <2>1 DEF LastIs
<1>8. Pending(q, k) /\ ~Pending(r, k) => Head(q).key = k
  BY <1>4, <1>5 DEF Pending
<1>9. ASSUME ~Pending(r, k), Head(q).key = k PROVE Head(q).val = v
  <2>1. 1 \in DOMAIN q
    BY <1>3
  <2>2. ASSUME NEW m \in DOMAIN q, m > 1 PROVE q[m].key # k
    <3>1. m - 1 \in DOMAIN r /\ r[m - 1] = q[m]
      BY <1>3, <1>5, <2>2
    <3> QED BY <1>9, <3>1 DEF Pending
  <2> QED BY <1>4, <1>9, <2>1, <2>2 DEF LastIs
<1> QED BY <1>3, <1>7, <1>8, <1>9 DEF r

\* SetToSeq of a finite set has all its elements.
LEMMA AllListed ==
    ASSUME NEW S, IsFiniteSet(S)
    PROVE  /\ Cardinality(S) \in Nat /\ SetToSeq(S) \in [1..Cardinality(S) -> S]
           /\ \A x \in S : \E i \in 1..Cardinality(S) : SetToSeq(S)[i] = x
<1> DEFINE n == Cardinality(S)
<1>1. n \in Nat /\ ExistsBijection(1..n, S)
  BY FS_CardinalityType
<1>2. \E f \in [1..n -> S] : IsInjective(f)
  BY <1>1 DEF ExistsBijection, Bijection, Injection
<1>3. SetToSeq(S) \in [1..n -> S] /\ IsInjective(SetToSeq(S))
  BY <1>2 DEF SetToSeq
<1>4. SetToSeq(S) \in Injection(1..n, S)
  BY <1>3 DEF Injection
<1>5. IsFiniteSet(1..n) /\ Cardinality(1..n) = n
  BY <1>1, FS_Interval
<1>6. SetToSeq(S) \in Surjection(1..n, S)
  BY <1>4, <1>5, FS_Injection
<1> QED BY <1>1, <1>3, <1>6 DEF Surjection
----------------------------------------------------------------------------
(* Watching. *)

\* A step of the watchers, or none of theirs: nothing new for goroutine g.
Kept(g) == UNCHANGED <<kind, store, conn>> /\ watch'[g] = watch[g] /\ queue'[g] = queue[g] /\ view'[g] = view[g]
           /\ missed \subseteq missed'

\* ... so that what is true of it stays true.
LEMMA KeptInv ==
    ASSUME NEW g \in Gs, WatchInv(g), Kept(g)
    PROVE  WatchInv(g)'
<1>1. \A k \in Watched(g) \ missed' : k \in Watched(g) \ missed
  BY DEF Kept
<1> QED BY <1>1 DEF Kept, WatchInv, Fed, Knows, Watched

\* A store writes the keys of ks, all of its announcements are right, and none is missing.
LEMMA AnnouncedRight ==
    ASSUME Types, NEW s \in [Keys -> Stored], NEW ks \in SUBSET Keys, NEW g \in Gs,
           \A k \in Keys \ ks : s[k] = store[k]
    PROVE  /\ Announced(s, ks, g) \in Seq(Events)
           /\ \A k \in Keys : LastIs(Announced(s, ks, g), k, s[k])
           /\ \A k \in Watched(g) : Pending(Announced(s, ks, g), k) \/ s[k] = store[k]
           /\ \A k \in Watched(g) : k \in ks /\ Noted(s, k) => Pending(Announced(s, ks, g), k)
<1> DEFINE seen == {x \in ks \X g : x[1] \in KeysOf[x[2]] /\ Noted(s, x[1])}
           n == Cardinality(seen)
           order == SetToSeq(seen)
           r == [i \in 1..n |-> [key |-> order[i][1], val |-> s[order[i][1]]]]
<1>1. Announced(s, ks, g) = r
  BY DEF Announced
<1>2. g \in SUBSET KeyPrefixes
  BY DEF Gs
<1>3. IsFiniteSet(ks) /\ IsFiniteSet(g)
  BY <1>2, FS_Subset, BrokerAssumption
<1>4. IsFiniteSet(ks \X g)
  BY <1>3, FS_Product
<1>5. IsFiniteSet(seen)
  <2>1. seen \in SUBSET (ks \X g)
    OBVIOUS
  <2> QED BY <1>4, <2>1, FS_Subset
<1> HIDE DEF seen
<1>6. /\ n \in Nat /\ order \in [1..n -> seen]
      /\ \A x \in seen : \E i \in 1..n : order[i] = x
  BY <1>5, AllListed
<1>7. \A x \in seen : x[1] \in Keys
  BY DEF seen
<1> HIDE DEF order, n
<1>8. \A i \in 1..n : order[i][1] \in Keys
  BY <1>6, <1>7
<1>9. r \in Seq(Events)
  <2>1. \A i \in 1..n : r[i] \in Events
    BY <1>8 DEF Events
  <2>2. r \in [1..n -> Events]
    BY <2>1
  <2> HIDE DEF r
  <2> QED BY <1>6, <2>2
<1>10. \A i \in DOMAIN r : r[i].val = s[r[i].key]
  OBVIOUS
<1>11. ASSUME NEW k \in Watched(g), s[k] # store[k] \/ (k \in ks /\ Noted(s, k)) PROVE Pending(r, k)
  <2>1. PICK p \in g : k \in KeysOf[p]
    BY <1>11 DEF Watched
  <2>2. k \in Keys
    BY <1>2, <2>1, BrokerAssumption
  <2>3. k \in ks
    BY <1>11, <2>2
  <2>4. <<k, p>> \in seen
    BY <1>11, <2>1, <2>3 DEF seen, Noted
  <2>5. PICK i \in 1..n : order[i] = <<k, p>>
    BY <1>6, <2>4
  <2>6. i \in DOMAIN r /\ r[i].key = k
    BY <2>5
  <2> QED BY <2>6 DEF Pending
<1> HIDE DEF r
<1>12. \A k \in Keys : LastIs(r, k, s[k])
  BY <1>10 DEF LastIs
<1> QED BY <1>1, <1>9, <1>11, <1>12

\* A change of the store, whoever makes it, reaches the watchers.
LEMMA ChangeFeeds ==
    ASSUME Types, \A g \in Gs : WatchInv(g), NEW s \in [Keys -> Stored], NEW ks \in SUBSET Keys,
           \A k \in Keys \ ks : s[k] = store[k], Change(s, ks), UNCHANGED <<kind, conn, watch, view>>
    PROVE  store' = s /\ queue' \in [Gs -> Seq(Events)] /\ (\A g \in Gs : WatchInv(g))'
<1>1. store' = s
  BY DEF Change
<1>2. \A g \in Gs : queue[g] \in Seq(Events) /\ Announced(s, ks, g) \in Seq(Events)
  BY AnnouncedRight DEF Types
<1>3. queue' = [g \in Gs |-> IF watch[g] = "running" /\ conn = "open" THEN queue[g] \o Announced(s, ks, g) ELSE queue[g]]
  BY DEF Change
<1>4. queue' \in [Gs -> Seq(Events)] /\ missed' = {k \in missed : ~(k \in ks /\ Noted(s, k))}
  BY <1>2, <1>3, ConcatProperties DEF Change
<1>5. ASSUME NEW g \in Gs PROVE WatchInv(g)'
  <2>1. WatchInv(g)
    OBVIOUS
  <2>2. CASE ~(watch[g] = "running" /\ conn = "open")
    <3>1. queue'[g] = queue[g]
      BY <1>3, <2>2
    <3> QED BY <2>1, <2>2, <3>1 DEF WatchInv
  <2>3. CASE watch[g] = "running" /\ conn = "open"
    <3> DEFINE r == Announced(s, ks, g)
    <3>1. queue'[g] = queue[g] \o r
      BY <1>3, <2>3
    <3>2. /\ \A k \in Keys : LastIs(r, k, s[k])
          /\ \A k \in Watched(g) : Pending(r, k) \/ s[k] = store[k]
          /\ \A k \in Watched(g) : k \in ks /\ Noted(s, k) => Pending(r, k)
      BY AnnouncedRight
    <3>3. queue[g] \in Seq(Events) /\ r \in Seq(Events)
      BY <1>2
    <3> HIDE DEF r
    <3>4. ASSUME NEW k \in Watched(g) \ missed' PROVE Fed(g, k)'
      <4>1. k \in Keys
        BY BrokerAssumption DEF Watched, Gs
      <4>2. (LastIs(queue[g], k, store[k]) /\ (~Pending(queue[g], k) => Knows(g, k))) \/ Pending(r, k)
        <5>1. CASE k \in missed
          BY <1>4, <3>2, <5>1
        <5>2. CASE k \notin missed
          BY <2>1, <2>3, <5>2 DEF WatchInv, Fed
        <5> QED BY <5>1, <5>2
      <4>3. /\ LastIs(queue[g] \o r, k, s[k])
            /\ Pending(queue[g] \o r, k) <=> Pending(queue[g], k) \/ Pending(r, k)
        <5>1. LastIs(r, k, s[k])
          BY <3>2, <4>1
        <5>2. Pending(r, k) \/ LastIs(queue[g], k, s[k])
          BY <3>2, <4>2
        <5> QED BY <3>3, <5>1, <5>2, LastAppended
      <4>4. ~Pending(queue[g] \o r, k) => Knows(g, k) /\ store'[k] = store[k]
        BY <1>1, <3>2, <4>2, <4>3
      <4> QED BY <1>1, <3>1, <4>3, <4>4 DEF Fed, Knows
    <3>5. Watched(g)' = Watched(g)
      BY DEF Watched
    <3> QED BY <2>3, <3>4, <3>5 DEF WatchInv
  <2> QED BY <2>2, <2>3
<1> QED BY <1>1, <1>4, <1>5

\* A step of goroutine g alone: the others and the store stay as they are.
OwnStep(g) ==
    /\ UNCHANGED <<kind, store, leased, conn, iter>>
    /\ \E w \in {"none", "running", "deaf", "ended"} : watch' = [watch EXCEPT ![g] = w] /\ (w = "none" <=> watch[g] = "none")
    /\ \E q \in Seq(Events) : queue' = [queue EXCEPT ![g] = q]
    /\ \E v \in [Keys -> Stored] : view' = [view EXCEPT ![g] = v]
    /\ missed \subseteq missed'

\* ... keeps the invariant when it keeps the goroutine's part.
LEMMA OwnStepInv ==
    ASSUME Inv, NEW g \in Gs, OwnStep(g), WatchInv(g)'
    PROVE  Inv'
<1>1. /\ watch' \in [Gs -> {"none", "running", "deaf", "ended"}] /\ queue' \in [Gs -> Seq(Events)]
      /\ view' \in [Gs -> [Keys -> Stored]]
  BY DEF OwnStep, Inv, Types
<1>2. \A h \in Gs : watch'[h] # "none" => watch[h] # "none"
  BY DEF OwnStep, Inv, Types
<1>3. Types'
  BY <1>1, <1>2 DEF OwnStep, Inv, Types
<1>4. ASSUME NEW h \in Gs, h # g PROVE WatchInv(h)'
  <2>1. Kept(h)
    BY <1>4 DEF Kept, OwnStep, Inv, Types
  <2> QED BY <2>1, KeptInv DEF Inv
<1>5. IterInv'
  BY DEF OwnStep, Inv, IterInv, Collected, ListedTruly
<1> QED BY <1>3, <1>4, <1>5 DEF Inv

\* An event is delivered.
LEMMA DeliverInv ==
    ASSUME Inv, NEW g \in Gs, NEW ok \in BOOLEAN, Deliver(g, ok)
    PROVE  Inv'
<1> DEFINE q == queue[g]
           v == IF kind = "etcd" THEN EtcdEvent(Head(q), view[g]) ELSE RedisEvent(Head(q), view[g], ok)
<1>1. Types /\ WatchInv(g)
  BY DEF Inv
<1>2. q \in Seq(Events) /\ q # <<>> /\ watch[g] = "running"
  BY <1>1 DEF Types, Deliver
<1>3. Tail(q) \in Seq(Events) /\ Head(q) \in Events
  BY <1>2, HeadTailProperties
<1>4. Head(q).key \in Keys /\ Head(q).val \in Stored
  BY <1>3 DEF Events
<1>5. view[g] \in [Keys -> Stored] /\ store \in [Keys -> Stored] /\ kind \in {"etcd", "redis"}
  BY <1>1 DEF Types
<1>6. v \in [Keys -> Stored]
  BY <1>4, <1>5 DEF EtcdEvent, RedisEvent, Stored
<1>7. view' = [view EXCEPT ![g] = v] /\ queue' = [queue EXCEPT ![g] = Tail(q)]
      /\ watch' = watch /\ UNCHANGED <<kind, store, leased, conn, iter>> /\ (kind = "etcd" => ok)
      /\ missed' = Misread(Head(q), Tail(q), ok)
  BY DEF Deliver, storeVars
<1>8. view'[g] = v /\ queue'[g] = Tail(q)
  BY <1>1, <1>7 DEF Types
<1>9. ASSUME NEW k \in Watched(g) \ missed', conn = "open" PROVE Fed(g, k)'
  <2>1. k \in Keys
    BY BrokerAssumption DEF Watched, Gs
  <2>2. LastIs(q, k, store[k]) /\ (~Pending(q, k) => Knows(g, k))
    <3>1. k \notin missed
      BY <1>7, <1>9 DEF Misread
    <3> QED BY <1>1, <1>2, <1>9, <3>1 DEF WatchInv, Fed
  <2>3. /\ LastIs(Tail(q), k, store[k])
        /\ Pending(q, k) /\ ~Pending(Tail(q), k) => Head(q).key = k
        /\ ~Pending(Tail(q), k) /\ Head(q).key = k => Head(q).val = store[k]
    BY <1>2, <2>2, LastTaken
  <2>4. ASSUME ~Pending(Tail(q), k), Head(q).key = k PROVE v[k] = store[k] \/ (kind = "etcd" /\ store[k] = Empty)
    <3>1. Head(q).val = store[k]
      BY <2>3, <2>4
    <3>2. ok \/ Head(q).val = None
      BY <1>7, <1>9, <2>4 DEF Misread
    <3> QED BY <1>5, <1>7, <2>1, <2>4, <3>1, <3>2 DEF EtcdEvent, RedisEvent
  <2>5. ASSUME ~Pending(Tail(q), k), Head(q).key # k PROVE v[k] = store[k] \/ (kind = "etcd" /\ store[k] = Empty)
    <3>1. v[k] = view[g][k]
      BY <1>4, <1>5, <2>1, <2>5 DEF EtcdEvent, RedisEvent
    <3>2. ~Pending(q, k)
      BY <2>3, <2>5
    <3> QED BY <2>2, <3>1, <3>2 DEF Knows
  <2> HIDE DEF v, q
  <2> QED BY <1>7, <1>8, <2>3, <2>4, <2>5 DEF Fed, Knows
<1>10. WatchInv(g)'
  BY <1>2, <1>7, <1>9 DEF WatchInv, Watched
<1>11. OwnStep(g)
  <2> HIDE DEF v, q
  <2>1. watch' = [watch EXCEPT ![g] = "running"]
    BY <1>1, <1>2, <1>7 DEF Types
  <2>2. missed \subseteq missed'
    BY <1>7 DEF Misread
  <2> QED BY <1>2, <1>3, <1>6, <1>7, <2>1, <2>2 DEF OwnStep
<1> QED BY <1>10, <1>11, OwnStepInv

\* A goroutine that ends or goes deaf is not owed anything.
LEMMA StopsInv ==
    ASSUME Inv, NEW g \in Gs, NEW w \in {"deaf", "ended"}, NEW q \in Seq(Events), watch[g] # "none",
           watch' = [watch EXCEPT ![g] = w], queue' = [queue EXCEPT ![g] = q],
           UNCHANGED <<kind, store, leased, conn, iter, view, missed>>
    PROVE  Inv'
<1>1. view' = [view EXCEPT ![g] = view[g]] /\ view[g] \in [Keys -> Stored] /\ watch'[g] = w
  BY DEF Inv, Types
<1>2. WatchInv(g)'
  BY <1>1 DEF WatchInv
<1>3. OwnStep(g)
  BY <1>1 DEF OwnStep
<1> QED BY <1>2, <1>3, OwnStepInv

\* Nothing of what the invariant is about changes.
LEMMA SameInv ==
    ASSUME Inv, UNCHANGED <<kind, store, leased, conn, watch, queue, view, missed, iter>>
    PROVE  Inv'
BY DEF Inv, Types, IterInv, Collected, ListedTruly, WatchInv, Fed, Knows

\* A step of a watching goroutine other than a delivery.
LEMMA WatchStepInv ==
    ASSUME Inv, NEW g \in Gs, WatchStep(g)
    PROVE  Inv'
<1>0. <<>> \in Seq(Events)
  OBVIOUS
<1>1. CASE \E ok \in BOOLEAN : Deliver(g, ok)
  BY <1>1, DeliverInv
<1>2. CASE EtcdStops(g)
  <2>1. watch' = [watch EXCEPT ![g] = "ended"] /\ queue' = [queue EXCEPT ![g] = <<>>] /\ watch[g] # "none"
        /\ UNCHANGED <<kind, store, leased, conn, iter, view, missed>>
    BY <1>2 DEF EtcdStops, storeVars
  <2> QED BY <1>0, <2>1, StopsInv
<1>3. CASE RedisStops(g) /\ conn = "open"
  <2>1. watch' = [watch EXCEPT ![g] = "deaf"] /\ queue' = [queue EXCEPT ![g] = <<>>] /\ watch[g] # "none"
        /\ UNCHANGED <<kind, store, leased, conn, iter, view, missed>>
    BY <1>3 DEF RedisStops, storeVars
  <2> QED BY <1>0, <2>1, StopsInv
<1>4. CASE RedisStops(g) /\ conn # "open"
  BY <1>4, SameInv DEF RedisStops, storeVars
<1>5. CASE RedisEnds(g)
  <2>1. watch' = [watch EXCEPT ![g] = "ended"] /\ queue' = [queue EXCEPT ![g] = <<>>] /\ watch[g] # "none"
        /\ UNCHANGED <<kind, store, leased, conn, iter, view, missed>>
    BY <1>5 DEF RedisEnds, storeVars
  <2> QED BY <1>0, <2>1, StopsInv
<1> QED BY <1>1, <1>2, <1>3, <1>4, <1>5 DEF WatchStep

\* A value on the close channel.
LEMMA CloseValueInv ==
    ASSUME Inv, NEW p \in KeyPrefixes, NEW g \in Gs, CloseValue(p, g)
    PROVE  Inv'
<1>1. UNCHANGED <<kind, store, leased, conn, iter, queue, view, missed>> /\ watch[g] = "running"
  BY DEF CloseValue, storeVars
<1>2. watch \in [Gs -> {"none", "running", "deaf", "ended"}] /\ queue \in [Gs -> Seq(Events)]
  BY DEF Inv, Types
<1>3. CASE kind = "etcd" /\ g = {p}
  <2>1. watch' = [watch EXCEPT ![g] = "ended"] /\ queue' = [queue EXCEPT ![g] = queue[g]]
    BY <1>1, <1>2, <1>3 DEF CloseValue
  <2> QED BY <1>1, <1>2, <2>1, StopsInv
<1>4. CASE ~(kind = "etcd" /\ g = {p})
  <2>1. watch' = watch
    BY <1>2, <1>4 DEF CloseValue
  <2> QED BY <1>1, <2>1, SameInv
<1> QED BY <1>3, <1>4

\* The Watch call: its goroutines begin with the store as it is.
LEMMA WatchBeginsInv ==
    ASSUME Inv, Watch
    PROVE  Inv'
<1>1. Types /\ IterInv /\ \A g \in Gs : WatchInv(g)
  BY DEF Inv
<1>2. /\ watch' = [g \in Gs |-> IF g \in Goroutines THEN "running" ELSE "none"]
      /\ view' = [g \in Gs |-> IF g \in Goroutines THEN store ELSE view[g]]
      /\ UNCHANGED <<kind, store, leased, conn, queue, iter>> /\ \A g \in Gs : watch[g] = "none"
  BY DEF Watch
<1>3. \A g \in Gs : queue'[g] = <<>>
  BY <1>1, <1>2 DEF WatchInv
<1>4. \A g \in Gs : watch'[g] # "none" => (g = KeyPrefixes <=> kind = "redis")
  <2>1. ASSUME NEW p \in KeyPrefixes PROVE {p} # KeyPrefixes
    <3>1. Cardinality({p}) = 1
      BY FS_Singleton
    <3> QED BY <3>1, BrokerAssumption
  <2> QED BY <1>1, <1>2, <2>1 DEF Goroutines, Types
<1>5. Types'
  BY <1>1, <1>2, <1>4 DEF Types
<1>6. ASSUME NEW g \in Gs PROVE WatchInv(g)'
  <2>1. ASSUME watch'[g] = "running", NEW k \in Watched(g) PROVE Fed(g, k)'
    <3>1. view'[g] = store
      BY <1>2, <2>1
    <3>2. LastIs(<<>>, k, store[k])
      BY DEF LastIs
    <3> QED BY <1>2, <1>3, <3>1, <3>2 DEF Fed, Knows
  <2> QED BY <1>3, <2>1 DEF WatchInv, Watched
<1>7. IterInv'
  BY <1>1, <1>2 DEF IterInv, Collected, ListedTruly
<1> QED BY <1>5, <1>6, <1>7 DEF Inv

\* Close: what is on its way is lost, and nothing is promised any more.
LEMMA CloseInv ==
    ASSUME Inv, Close
    PROVE  Inv'
<1>1. /\ conn' = "closed" /\ queue' = [g \in Gs |-> <<>>]
      /\ UNCHANGED <<kind, store, leased, watch, view, missed, iter>>
  BY DEF Close
<1>2. queue' \in [Gs -> Seq(Events)]
  BY <1>1
<1>3. Types'
  BY <1>1, <1>2 DEF Inv, Types
<1>4. IterInv'
  BY <1>1 DEF Inv, IterInv, Collected, ListedTruly
<1>5. \A g \in Gs : WatchInv(g)'
  BY <1>1 DEF WatchInv
<1> QED BY <1>3, <1>4, <1>5 DEF Inv

----------------------------------------------------------------------------
(* Listing and deletion by prefix. *)

\* A write while keys are listed or collected: the values the keys have are noted.
LEMMA NotingInv ==
    ASSUME Types, IterInv, NEW s \in [Keys -> Stored], store' = s, Noting(store')
    PROVE  iter' \in Iters /\ IterInv'
<1>1. iter \in Iters /\ iter' = [iter EXCEPT !.since = Since(s)]
  BY DEF Types, Noting
<1>2. CASE iter.op = "none"
  <2>1. Since(s) = iter.since
    BY <1>2 DEF Since
  <2>2. iter' = iter
    BY <1>1, <2>1 DEF Iters
  <2> QED BY <1>1, <1>2, <2>2 DEF IterInv, Collected, ListedTruly
<1>3. CASE iter.op # "none"
  <2> DEFINE f == [k \in Keys |-> iter.since[k] \cup {s[k]}]
  <2>1. Since(s) = f
    BY <1>3 DEF Since
  <2>2. iter.since \in [Keys -> SUBSET Stored]
    BY <1>3 DEF IterInv
  <2>3. f \in [Keys -> SUBSET Stored] /\ \A k \in Keys : s[k] \in f[k] /\ iter.since[k] \subseteq f[k]
    BY <2>2
  <2> HIDE DEF f
  <2>4. iter' = [iter EXCEPT !.since = f]
    BY <1>1, <2>1
  <2>5. iter' \in Iters /\ iter'.since = f
    BY <1>1, <2>3, <2>4 DEF Iters
  <2>6. /\ iter'.op = iter.op /\ iter'.prefix = iter.prefix /\ iter'.rest = iter.rest /\ iter'.batch = iter.batch
        /\ iter'.items = iter.items /\ iter'.failed = iter.failed
    BY <1>1, <2>4 DEF Iters
  <2>7. iter.items \subseteq Keys \X Stored \X Stored
    BY <1>1 DEF Iters
  <2>8. ListedTruly'
    BY <2>3, <2>5, <2>6, <2>7 DEF IterInv, ListedTruly
  <2>9. iter'.failed \/ \A k \in KeysOf[iter'.prefix] :
            None \notin iter'.since[k] => k \in iter'.rest \cup iter'.batch \cup Collected'
    <3>1. Collected' = Collected
      BY <2>6 DEF Collected
    <3>2. iter.prefix \in KeyPrefixes /\ KeysOf[iter.prefix] \subseteq Keys
      BY <1>3, BrokerAssumption DEF IterInv
    <3> QED BY <1>3, <2>3, <2>5, <2>6, <3>1, <3>2 DEF IterInv
  <2> QED BY <1>3, <2>3, <2>5, <2>6, <2>8, <2>9 DEF IterInv
<1> QED BY <1>2, <1>3

\* A write of the keys in ks, by the connection or by another client.
Writes(s, ks) ==
    /\ s \in [Keys -> Stored] /\ ks \in SUBSET Keys /\ \A k \in Keys \ ks : s[k] = store[k]
    /\ Change(s, ks) /\ leased' \subseteq Keys /\ UNCHANGED <<kind, conn, watch, view>>

\* ... keeps the invariant when the iteration under way, if any, keeps its part.
LEMMA WritesInv ==
    ASSUME Inv, NEW s, NEW ks, Writes(s, ks), iter' \in Iters /\ IterInv'
    PROVE  Inv'
<1>1. store' = s /\ queue' \in [Gs -> Seq(Events)] /\ (\A g \in Gs : WatchInv(g))'
  BY ChangeFeeds DEF Writes, Inv
<1>2. Types'
  BY <1>1 DEF Writes, Inv, Types
<1> QED BY <1>1, <1>2 DEF Inv

\* The writes that leave an iteration only its notes to make.
LEMMA NotedWriteInv ==
    ASSUME Inv, NEW s, NEW ks, Writes(s, ks), Noting(store')
    PROVE  Inv'
<1>1. store' = s /\ s \in [Keys -> Stored]
  BY DEF Writes, Change
<1>2. iter' \in Iters /\ IterInv'
  BY <1>1, NotingInv DEF Inv
<1> QED BY <1>2, WritesInv

\* A put, typed or not, of the connection or of another client.
LEMMA PutInv ==
    ASSUME Inv, NEW k \in Keys, NEW v \in Stored, Change([store EXCEPT ![k] = v], {k}), leased' \subseteq Keys,
           Noting(store'), UNCHANGED <<kind, conn, watch, view>>
    PROVE  Inv'
<1> DEFINE s == [store EXCEPT ![k] = v]
<1>1. s \in [Keys -> Stored] /\ {k} \in SUBSET Keys /\ \A j \in Keys \ {k} : s[j] = store[j]
  BY DEF Inv, Types
<1> HIDE DEF s
<1>2. Writes(s, {k})
  BY <1>1 DEF Writes, s
<1> QED BY <1>2, NotedWriteInv

\* What deletes keys writes them.
LEMMA EraseWrites ==
    ASSUME Inv, NEW ks \in SUBSET Keys, Erase(ks)
    PROVE  Writes([k \in Keys |-> IF k \in ks THEN None ELSE store[k]], ks)
<1> DEFINE s == [k \in Keys |-> IF k \in ks THEN None ELSE store[k]]
<1>1. s \in [Keys -> Stored] /\ \A j \in Keys \ ks : s[j] = store[j]
  BY DEF Inv, Types, Stored
<1>2. leased' \subseteq Keys
  BY DEF Erase, Inv, Types
<1> QED BY <1>1, <1>2 DEF Writes, Erase

\* A transaction.
LEMMA CommitInv ==
    ASSUME Inv, NEW t \in Txns, NEW v \in Vals, Commit(t, v)
    PROVE  Inv'
<1> DEFINE ks == t.puts \cup t.dels
           s == [k \in Keys |-> IF k \in t.puts THEN v ELSE IF k \in t.dels THEN None ELSE store[k]]
<1>1. t.puts \subseteq Keys /\ t.dels \subseteq Keys
  BY DEF Txns
<1>2. s \in [Keys -> Stored] /\ ks \in SUBSET Keys /\ \A j \in Keys \ ks : s[j] = store[j]
  BY <1>1 DEF Inv, Types, Stored
<1>3. Change(s, ks) /\ leased' \subseteq Keys /\ UNCHANGED <<kind, conn, watch, view>> /\ Noting(store')
  BY DEF Commit, Inv, Types
<1> HIDE DEF s, ks
<1> QED BY <1>2, <1>3, NotedWriteInv DEF Writes

\* An iteration goes on: the store and the watchers stay as they are.
LEMMA IterStepInv ==
    ASSUME Inv, UNCHANGED iterOnly, iter' \in Iters, IterInv'
    PROVE  Inv'
<1>1. \A g \in Gs : Kept(g)
  BY DEF Kept, iterOnly
<1>2. Types'
  BY DEF Inv, Types, iterOnly
<1> QED BY <1>1, <1>2, KeptInv DEF Inv

\* An answer has all its keys, with their values.
LEMMA PairsRight ==
    ASSUME NEW ks \in SUBSET Keys, store \in [Keys -> Stored]
    PROVE  /\ Pairs(ks) \subseteq Keys \X Stored \X Stored
           /\ \A x \in Pairs(ks) : x[1] \in ks /\ x[2] = store[x[1]]
           /\ \A k \in ks : k \in {x[1] : x \in Pairs(ks)}
<1> DEFINE n == Cardinality(ks)
           o == SetToSeq(ks)
           P(i) == <<o[i], store[o[i]], IF i = 1 THEN None ELSE store[o[i - 1]]>>
<1>1. n \in Nat /\ o \in [1..n -> ks] /\ \A k \in ks : \E i \in 1..n : o[i] = k
  BY FS_Subset, BrokerAssumption, AllListed
<1>2. Pairs(ks) = {P(i) : i \in 1..n}
  BY DEF Pairs
<1> HIDE DEF n, o
<1>3. ASSUME NEW i \in 1..n
      PROVE  o[i] \in ks /\ P(i) \in Keys \X Stored \X Stored /\ P(i)[1] = o[i] /\ P(i)[2] = store[o[i]]
  <2>1. i # 1 => i - 1 \in 1..n
    BY <1>1
  <2>2. (IF i = 1 THEN None ELSE store[o[i - 1]]) \in Stored
    BY <1>1, <2>1 DEF Stored
  <2> QED BY <1>1, <2>2
<1>4. ASSUME NEW k \in ks PROVE k \in {x[1] : x \in Pairs(ks)}
  <2>1. PICK i \in 1..n : o[i] = k
    BY <1>1
  <2>2. P(i) \in Pairs(ks) /\ P(i)[1] = k
    BY <1>2, <1>3, <2>1
  <2> HIDE DEF P
  <2> QED BY <2>2
<1> HIDE DEF P
<1> QED BY <1>2, <1>3, <1>4

\* It begins.
LEMMA ListInv ==
    ASSUME Inv, NEW p \in KeyPrefixes, List(p)
    PROVE  Inv'
<1> DEFINE since == [k \in Keys |-> {store[k]}]
           there == {k \in KeysOf[p] : store[k] # None}
           items == Pairs(there)
<1>1. store \in [Keys -> Stored] /\ KeysOf[p] \subseteq Keys /\ UNCHANGED iterOnly /\ store' = store
  BY BrokerAssumption DEF Inv, Types, List, iterOnly
<1>2. /\ since \in [Keys -> SUBSET Stored] /\ items \subseteq Keys \X Stored \X Stored
      /\ \A i \in items : i[1] \in there /\ i[2] = store[i[1]]
      /\ \A k \in there : k \in {i[1] : i \in items}
  BY <1>1, PairsRight
<1>3. \A k \in Keys : store[k] \in since[k]
  OBVIOUS
<1>4. \A i \in items : i[2] \in since[i[1]]
  <2> HIDE DEF items
  <2> QED BY <1>1, <1>2
<1>5. \A k \in KeysOf[p] : None \notin since[k] => k \in {i[1] : i \in items}
  <2> HIDE DEF items
  <2> QED BY <1>1, <1>2
<1> HIDE DEF since, items, there
<1>6. ASSUME NEW op \in {"list", "delete"}, iter' = Begin(op, p) PROVE iter' \in Iters /\ IterInv'
  <2>1. iter' = [op |-> op, prefix |-> p, rest |-> Keys, batch |-> {}, items |-> {}, since |-> since, failed |-> FALSE]
    BY <1>6 DEF Begin, NoIter, since
  <2>2. iter' \in Iters
    BY <1>2, <2>1 DEF Iters
  <2> QED BY <1>1, <1>2, <1>3, <2>1, <2>2 DEF IterInv, Collected, ListedTruly
<1>7. ASSUME iter' = Snapshot(p) PROVE iter' \in Iters /\ IterInv'
  <2>1. iter' = [op |-> "list", prefix |-> p, rest |-> {}, batch |-> {}, items |-> items, since |-> since, failed |-> FALSE]
    BY <1>7 DEF Snapshot, Begin, NoIter, since, items, there
  <2>2. iter' \in Iters
    BY <1>2, <2>1 DEF Iters
  <2> QED BY <1>1, <1>2, <1>3, <1>4, <1>5, <2>1, <2>2 DEF IterInv, Collected, ListedTruly
<1>8. iter' \in Iters /\ IterInv'
  BY <1>6, <1>7 DEF List
<1> QED BY <1>1, <1>8, IterStepInv

\* It ends, or there is none.
LEMMA NoIterInv ==
    \A e \in BOOLEAN : /\ [NoIter EXCEPT !.failed = e] \in Iters /\ NoIter \in Iters
                       /\ iter' = NoIter \/ iter' = [NoIter EXCEPT !.failed = e] => IterInv'
BY DEF NoIter, Iters, IterInv, ListedTruly

\* The parts of an iteration that goes on with others to scan, to read and to return.
GoesOn(r, b, i, f) ==
    iter' = [op |-> iter.op, prefix |-> iter.prefix, rest |-> r, batch |-> b, items |-> i, since |-> iter.since, failed |-> f]

\* The next batch of keys.
LEMMA ScanInv ==
    ASSUME Inv, NEW b \in SUBSET Keys, Scan(b)
    PROVE  Inv'
<1> DEFINE rest == iter.rest \ b
           batch == IF iter.op = "list" THEN Found(b) ELSE {}
           items == IF iter.op = "list" THEN iter.items ELSE iter.items \cup {<<k, None, None>> : k \in Found(b)}
<1>1. Types /\ IterInv /\ iter \in Iters /\ UNCHANGED iterOnly /\ store' = store /\ iter.batch = {}
  BY DEF Inv, Types, Scan, iterOnly
<1>2. iter.op \in {"list", "delete"} /\ b \subseteq iter.rest
  BY <1>1 DEF Scan, IterInv, Iters
<1>3. GoesOn(rest, batch, items, iter.failed)
  BY <1>1 DEF Scan, Iters, GoesOn
<1>4. /\ iter.prefix \in KeyPrefixes /\ KeysOf[iter.prefix] \subseteq Keys /\ iter.since \in [Keys -> SUBSET Stored]
      /\ \A k \in Keys : store[k] \in iter.since[k]
      /\ iter.failed \/ \A k \in KeysOf[iter.prefix] : None \notin iter.since[k] => k \in iter.rest \cup iter.batch \cup Collected
  BY <1>1, <1>2, BrokerAssumption DEF IterInv
<1>5. Found(b) \subseteq Keys /\ iter.items \subseteq Keys \X Stored \X Stored
  BY <1>1, <1>4 DEF Found, Iters
<1>6. rest \subseteq Keys /\ batch \subseteq Keys /\ items \subseteq Keys \X Stored \X Stored
  <2>1. iter.rest \subseteq Keys
    BY <1>1 DEF Iters
  <2>2. {<<k, None, None>> : k \in Found(b)} \subseteq Keys \X Stored \X Stored
    BY <1>5 DEF Stored
  <2> QED BY <1>5, <2>1, <2>2
<1>7. iter.failed \/ \A k \in KeysOf[iter.prefix] : None \notin iter.since[k] => k \in rest \cup batch \cup {i[1] : i \in items}
  <2> SUFFICES ASSUME ~iter.failed, NEW k \in KeysOf[iter.prefix], None \notin iter.since[k]
               PROVE  k \in rest \cup batch \cup {i[1] : i \in items}
    OBVIOUS
  <2>1. k \in iter.rest \/ k \in Collected
    BY <1>1, <1>4
  <2>2. CASE k \in Collected
    <3>1. iter.items \subseteq items
      OBVIOUS
    <3> HIDE DEF items
    <3> QED BY <2>2, <3>1 DEF Collected
  <2>3. CASE k \in iter.rest /\ k \notin b
    BY <2>3
  <2>4. CASE k \in b
    <3>1. store[k] # None
      BY <1>4
    <3>2. k \in Found(b)
      BY <2>4, <3>1 DEF Found
    <3>3. CASE iter.op = "list"
      BY <3>2, <3>3
    <3>4. CASE iter.op # "list"
      <4>1. <<k, None, None>> \in items /\ <<k, None, None>>[1] = k
        BY <3>2, <3>4
      <4> HIDE DEF items
      <4> QED BY <4>1
    <3> QED BY <3>3, <3>4
  <2> QED BY <2>1, <2>2, <2>3, <2>4
<1>8. iter.op = "delete" => batch = {}
  OBVIOUS
<1>9. iter.op = "list" => \A i \in items : i[2] \in iter.since[i[1]]
  BY <1>1 DEF IterInv, ListedTruly
<1> HIDE DEF rest, batch, items
<1>10. iter' \in Iters
  BY <1>1, <1>3, <1>6 DEF GoesOn, Iters
<1>11. IterInv'
  BY <1>1, <1>2, <1>3, <1>4, <1>7, <1>8, <1>9 DEF GoesOn, IterInv, Collected, ListedTruly
<1> QED BY <1>1, <1>10, <1>11, IterStepInv

\* The values of a batch.
LEMMA getValuesInv ==
    ASSUME Inv, getValues
    PROVE  Inv'
<1> DEFINE new == Pairs(iter.batch)
           items == iter.items \cup new
<1>1. Types /\ IterInv /\ iter \in Iters /\ UNCHANGED iterOnly /\ store' = store /\ iter.batch # {}
  BY DEF Inv, Types, getValues, iterOnly
<1>2. iter.op = "list"
  BY <1>1 DEF IterInv, Iters
<1>3. GoesOn(iter.rest, {}, items, iter.failed)
  BY <1>1 DEF getValues, Iters, GoesOn
<1>4. /\ iter.prefix \in KeyPrefixes /\ iter.since \in [Keys -> SUBSET Stored]
      /\ \A k \in Keys : store[k] \in iter.since[k]
      /\ iter.failed \/ \A k \in KeysOf[iter.prefix] : None \notin iter.since[k] => k \in iter.rest \cup iter.batch \cup Collected
      /\ \A i \in iter.items : i[2] \in iter.since[i[1]]
  BY <1>1, <1>2 DEF IterInv, ListedTruly
<1>5. iter.batch \subseteq Keys /\ iter.rest \subseteq Keys /\ iter.items \subseteq Keys \X Stored \X Stored /\ store \in [Keys -> Stored]
  BY <1>1 DEF Types, Iters
<1>6. /\ new \subseteq Keys \X Stored \X Stored /\ \A i \in new : i[2] \in iter.since[i[1]]
      /\ \A k \in iter.batch : k \in {i[1] : i \in new}
  <2>1. /\ new \subseteq Keys \X Stored \X Stored /\ \A i \in new : i[1] \in iter.batch /\ i[2] = store[i[1]]
        /\ \A k \in iter.batch : k \in {i[1] : i \in new}
    BY <1>5, PairsRight
  <2> HIDE DEF new
  <2> QED BY <1>4, <1>5, <2>1
<1> HIDE DEF new
<1>7. \A k \in iter.batch : k \in {i[1] : i \in items}
  BY <1>6
<1>8. \A k \in Collected : k \in {i[1] : i \in items}
  BY DEF Collected
<1>9. items \subseteq Keys \X Stored \X Stored /\ \A i \in items : i[2] \in iter.since[i[1]]
  BY <1>4, <1>5, <1>6
<1> HIDE DEF items
<1>10. iter' \in Iters
  BY <1>1, <1>3, <1>5, <1>9 DEF GoesOn, Iters
<1>11. iter.failed \/ \A k \in KeysOf[iter.prefix] : None \notin iter.since[k] => k \in iter.rest \cup {} \cup {i[1] : i \in items}
  BY <1>4, <1>7, <1>8
<1>12. IterInv'
  BY <1>1, <1>2, <1>3, <1>4, <1>9, <1>11 DEF GoesOn, IterInv, Collected, ListedTruly
<1> QED BY <1>1, <1>10, <1>12, IterStepInv

\* A batch that cannot be had.
LEMMA ScanFailsInv ==
    ASSUME Inv, ScanFails
    PROVE  Inv'
<1>1. Types /\ IterInv /\ iter \in Iters /\ UNCHANGED iterOnly /\ store' = store /\ iter.op # "none"
  BY DEF Inv, Types, ScanFails, iterOnly
<1>2. GoesOn({}, {}, iter.items, TRUE)
  BY <1>1 DEF ScanFails, Iters, GoesOn
<1>3. iter' \in Iters
  BY <1>1, <1>2 DEF GoesOn, Iters
<1>4. IterInv'
  BY <1>1, <1>2 DEF GoesOn, IterInv, Collected, ListedTruly
<1> QED BY <1>1, <1>3, <1>4, IterStepInv

\* A deletion ends: the collected keys go.
LEMMA DeleteEndsInv ==
    ASSUME Inv, DeleteEnds
    PROVE  Inv'
<1>1. PICK e \in BOOLEAN : iter' = [NoIter EXCEPT !.failed = e]
  BY DEF DeleteEnds
<1>2. iter' \in Iters /\ IterInv'
  BY <1>1, NoIterInv
<1>3. Collected \in SUBSET Keys
  BY DEF Collected, Inv, Types, Iters
<1>4. CASE Erase(Collected)
  <2>1. Writes([k \in Keys |-> IF k \in Collected THEN None ELSE store[k]], Collected)
    BY <1>3, <1>4, EraseWrites
  <2> QED BY <1>2, <2>1, WritesInv
<1>5. CASE UNCHANGED iterOnly
  BY <1>2, <1>5, IterStepInv
<1> QED BY <1>4, <1>5 DEF DeleteEnds

----------------------------------------------------------------------------
(* The whole connection. *)

\* A fresh connection to a store that may hold anything.
LEMMA InitInv == Init => Inv
<1> SUFFICES ASSUME Init PROVE Inv
  OBVIOUS
<1>1. queue \in [Gs -> Seq(Events)] /\ view \in [Gs -> [Keys -> Stored]] /\ store \in [Keys -> Stored]
  BY DEF Init, Stored
<1>2. Types
  BY <1>1, NoIterInv DEF Init, Types
<1>3. IterInv
  BY DEF Init, NoIter, IterInv, ListedTruly
<1>4. \A g \in Gs : WatchInv(g)
  BY DEF Init, WatchInv
<1> QED BY <1>2, <1>3, <1>4 DEF Inv

\* Every write keeps the invariant.
LEMMA AnyPutInv ==
    ASSUME Inv, NEW k \in Keys, NEW v \in Vals, NEW b \in BOOLEAN, Put(k, v, b) \/ PutProto(k, v, b) \/ PutIfNotExists(k, v)
    PROVE  Inv'
<1>0. v \in Stored /\ leased \subseteq Keys /\ Leased(k, TRUE) \subseteq Keys /\ Leased(k, FALSE) \subseteq Keys
  BY DEF Stored, Leased, Inv, Types
<1>1. CASE Put(k, v, b)
  <2>1. leased' \subseteq Keys
    BY <1>0, <1>1 DEF Put
  <2> QED BY <1>0, <1>1, <2>1, PutInv DEF Put
<1>2. CASE PutProto(k, v, b) /\ b
  BY <1>0, <1>2, PutInv DEF PutProto
<1>3. CASE PutProto(k, v, b) /\ ~b
  <2>1. UNCHANGED <<kind, store, leased, conn, watch, queue, view, missed>> /\ Noting(store')
    BY <1>3 DEF PutProto
  <2>2. iter' \in Iters /\ IterInv'
    BY <2>1, NotingInv DEF Inv, Types
  <2>3. Types'
    BY <2>1, <2>2 DEF Inv, Types
  <2>4. \A g \in Gs : WatchInv(g)'
    BY <2>1, KeptInv DEF Kept, Inv
  <2> QED BY <2>2, <2>3, <2>4 DEF Inv
<1>4. CASE PutIfNotExists(k, v)
  BY <1>0, <1>4, PutInv DEF PutIfNotExists
<1> QED BY <1>1, <1>2, <1>3, <1>4

\* A change that the watcher of Redis does not learn of: the key is among those missed.
LEMMA OtherCommandInv ==
    ASSUME Inv, NEW k \in Keys, NEW v \in Stored, OtherCommand(k, v)
    PROVE  Inv'
<1>1. /\ store' = [store EXCEPT ![k] = v] /\ leased' \subseteq Keys /\ missed' = missed \cup {k}
      /\ UNCHANGED <<kind, conn, watch, queue, view>> /\ Noting(store')
  BY DEF OtherCommand, Inv, Types
<1>2. store' \in [Keys -> Stored] /\ \A j \in Keys \ {k} : store'[j] = store[j]
  BY <1>1 DEF Inv, Types
<1>3. iter' \in Iters /\ IterInv'
  BY <1>1, <1>2, NotingInv DEF Inv
<1>4. Types'
  BY <1>1, <1>2, <1>3 DEF Inv, Types
<1>5. ASSUME NEW g \in Gs PROVE WatchInv(g)'
  <2>1. WatchInv(g)
    BY DEF Inv
  <2>2. ASSUME watch[g] = "running", conn = "open", NEW j \in Watched(g) \ missed' PROVE Fed(g, j)'
    <3>1. j \in Keys \ {k} /\ j \notin missed
      BY <1>1, BrokerAssumption DEF Watched, Gs
    <3>2. store'[j] = store[j]
      BY <1>2, <3>1
    <3> QED BY <1>1, <2>1, <2>2, <3>1, <3>2 DEF WatchInv, Fed, Knows
  <2> QED BY <1>1, <2>1, <2>2 DEF WatchInv, Watched
<1> QED BY <1>3, <1>4, <1>5 DEF Inv

\* Every deletion that is one request keeps the invariant.
LEMMA ErasedInv ==
    ASSUME Inv, NEW ks \in SUBSET Keys, Erase(ks), Noting(store')
    PROVE  Inv'
BY EraseWrites, NotedWriteInv

\* Every step keeps the invariant.
LEMMA NextInv == Inv /\ [Next]_vars => Inv'
<1> SUFFICES ASSUME Inv, [Next]_vars PROVE Inv'
  OBVIOUS
<1>1. ASSUME NEW k \in Keys, NEW v \in Vals,
             (\E b \in BOOLEAN : Put(k, v, b) \/ PutProto(k, v, b)) \/ PutIfNotExists(k, v)
      PROVE  Inv'
  BY <1>1, AnyPutInv
<1>2. ASSUME NEW k \in Keys, Delete(k) \/ Expire(k) PROVE Inv'
  BY <1>2, ErasedInv DEF Delete, Expire
<1>3. ASSUME NEW k \in Keys, NEW v \in Vals \cup {None}, OtherWrites(k, v) \/ OtherCommand(k, v) PROVE Inv'
  <2>1. v \in Stored
    BY DEF Stored
  <2>2. CASE OtherWrites(k, v)
    <3>1. leased' \subseteq Keys
      BY <2>2 DEF OtherWrites, Inv, Types
    <3> QED BY <2>1, <2>2, <3>1, PutInv DEF OtherWrites
  <2> QED BY <1>3, <2>1, <2>2, OtherCommandInv
<1>4. ASSUME NEW t \in Txns, NEW v \in Vals, Commit(t, v) PROVE Inv'
  BY <1>4, CommitInv
<1>5. ASSUME NEW p \in KeyPrefixes, DeletePrefix(p) PROVE Inv'
  BY <1>5, ErasedInv, BrokerAssumption DEF DeletePrefix
<1>6. ASSUME NEW p \in KeyPrefixes, List(p) \/ \E g \in Gs : CloseValue(p, g) PROVE Inv'
  BY <1>6, ListInv, CloseValueInv
<1>7. CASE (\E b \in SUBSET Keys : Scan(b)) \/ getValues \/ ScanFails \/ DeleteEnds
  BY <1>7, ScanInv, getValuesInv, ScanFailsInv, DeleteEndsInv
<1>8. CASE ListEnds
  <2>1. UNCHANGED iterOnly /\ iter' \in Iters /\ IterInv'
    BY <1>8, NoIterInv DEF ListEnds
  <2> QED BY <2>1, IterStepInv
<1>9. CASE Watch \/ Close \/ \E g \in Gs : WatchStep(g)
  BY <1>9, WatchBeginsInv, CloseInv, WatchStepInv
<1>10. CASE CloseChannel
  BY <1>10, SameInv DEF CloseChannel, storeVars
<1>11. CASE UNCHANGED vars
  BY <1>11, SameInv DEF vars
<1> QED BY <1>1, <1>2, <1>3, <1>4, <1>5, <1>6, <1>7, <1>8, <1>9, <1>10, <1>11 DEF Next

\* The invariant holds in every reachable state.
THEOREM BrokerInvHolds == Spec => []Inv
BY InitInv, NextInv, PTL DEF Spec

\* The state keeps its shape; only goroutines of the store's own kind run.
THEOREM BrokerTypes == Spec => []TypeOK
<1>1. Inv => TypeOK
  BY DEF Inv, Types, TypeOK, Stored, Iters
<1> QED BY <1>1, BrokerInvHolds, PTL

\* A watcher of etcd or Redis that has had all its events knows what is in the store,
\* however its reads of the values mix with later writes; but for the keys whose last
\* change Redis announced under another command, or whose value could not be read.
THEOREM WatchersConverge == Spec => []ViewsConverge
<1>1. Inv => ViewsConverge
  <2> SUFFICES ASSUME Inv, NEW g \in Gs, watch[g] = "running", queue[g] = <<>>, conn = "open",
                      NEW k \in Watched(g) \ missed
               PROVE  view[g][k] = store[k] \/ (kind = "etcd" /\ store[k] = Empty)
    BY DEF ViewsConverge
  <2>1. ~Pending(queue[g], k)
    BY DEF Pending
  <2> QED BY <2>1 DEF Inv, WatchInv, Fed, Knows
<1> QED BY <1>1, BrokerInvHolds, PTL

\* The end of a deletion by prefix takes away every key that was there all the time.
LEMMA DeletionComplete ==
    ASSUME Inv, [Next]_vars, iter.op = "delete", iter'.op = "none", ~iter.failed, ~iter'.failed,
           NEW k \in KeysOf[iter.prefix], None \notin iter.since[k]
    PROVE  store'[k] = None
<1>1. iter \in Iters /\ IterInv
  BY DEF Inv, Types
<1>2. DeleteEnds
  <2>1. \A s : (iter' = [iter EXCEPT !.since = s]) => iter'.op = "delete"
    BY <1>1 DEF Iters
  <2>2. ~Noting(store')
    BY <2>1 DEF Noting
  <2>3. UNCHANGED iter => iter'.op = "delete"
    OBVIOUS
  <2>4. ~UNCHANGED iter
    BY <2>3
  <2>5. ASSUME NEW b \in SUBSET Keys, Scan(b) PROVE FALSE
    BY <1>1, <2>5 DEF Scan, Iters
  <2>6. ~getValues
    BY <1>1 DEF getValues, Iters
  <2>7. ~ScanFails
    BY <1>1 DEF ScanFails, Iters
  <2>8. \A p \in KeyPrefixes : ~List(p) /\ ~DeletePrefix(p)
    BY <2>2 DEF List, DeletePrefix
  <2>9. ~ListEnds
    BY DEF ListEnds
  <2>10. \A j \in Keys, v \in Vals : ~PutIfNotExists(j, v) /\ \A b \in BOOLEAN : ~Put(j, v, b) /\ ~PutProto(j, v, b)
    BY <2>2 DEF PutIfNotExists, Put, PutProto
  <2>11. \A j \in Keys : ~Delete(j) /\ ~Expire(j) /\ \A v \in Vals \cup {None} : ~OtherWrites(j, v) /\ ~OtherCommand(j, v)
    BY <2>2 DEF Delete, Expire, OtherWrites, OtherCommand
  <2>12. \A t \in Txns, v \in Vals : ~Commit(t, v)
    BY <2>2 DEF Commit
  <2>13. ~Watch /\ ~CloseChannel /\ ~Close /\ ~UNCHANGED vars
    BY <2>4 DEF Watch, CloseChannel, Close, storeVars, vars
  <2>14. \A g \in Gs : ~WatchStep(g) /\ \A p \in KeyPrefixes : ~CloseValue(p, g)
    BY <2>4 DEF WatchStep, Deliver, EtcdStops, RedisStops, RedisEnds, CloseValue, storeVars
  <2> QED BY <2>5, <2>6, <2>7, <2>8, <2>9, <2>10, <2>11, <2>12, <2>13, <2>14 DEF Next
<1>3. iter.rest = {} /\ iter.batch = {}
  BY <1>1, <1>2 DEF DeleteEnds, IterInv
<1>4. k \in Collected /\ k \in Keys
  BY <1>1, <1>3, BrokerAssumption DEF IterInv
<1>5. Erase(Collected)
  BY <1>2, <1>4 DEF DeleteEnds
<1> QED BY <1>4, <1>5 DEF Erase, Change

\* Listing and deletion by prefix are right about the keys that do not change meanwhile:
\* the values are their own, none of them is missed, and a deletion that returns no
\* error, after a scan without one, leaves none.
THEOREM PrefixOperationsSound == Spec => PrefixesSound
<1>1. Inv => ListedTruly /\ StableKeysListed
  <2> SUFFICES ASSUME Inv PROVE StableKeysListed
    BY DEF Inv, IterInv
  <2> QED BY DEF Inv, IterInv, StableKeysListed
<1>2. Inv /\ [Next]_vars =>
        [(iter.op = "delete" /\ iter'.op = "none" /\ ~iter.failed /\ ~iter'.failed) =>
             \A k \in KeysOf[iter.prefix] : None \notin iter.since[k] => store'[k] = None]_vars
  BY DeletionComplete
<1> QED BY <1>1, <1>2, BrokerInvHolds, PTL DEF Spec, PrefixesSound, DeletesStable
=============================================================================
