-------------------------- MODULE NamedMappingProofs --------------------------
(***************************************************************************)
(* Lookups by secondary indexes are exact, and subscribers catch up with   *)
(* the mapping, for any names, objects, index function, writers and        *)
(* subscribers.                                                            *)
(***************************************************************************)
EXTENDS NamedMapping, SequenceTheorems, TLAPS

\* The inductive invariant: the indexes agree with the items, the items with
\* the objects that have not changed.
Inv == TypeOK /\ IndexesAgree /\ ItemsIndexed

\* The initial mapping is empty.
LEMMA InitInv == Init => Inv
<1> SUFFICES ASSUME Init PROVE Inv
  OBVIOUS
<1>1. NoNote \in Notes
  BY NoneAssumption DEF NoNote, Note, Notes
<1>2. queue \in [Subs -> Seq(Events)] /\ \A s \in Subs : Len(queue[s]) = 0
  BY DEF Init
<1>3. TypeOK
  BY <1>1, <1>2, BoundAssumption DEF Init, TypeOK
<1>4. IndexesAgree /\ ItemsIndexed
  BY DEF Init, IndexesAgree, ItemsIndexed, Stored
<1> QED
  BY <1>3, <1>4 DEF Inv

\* What removing the terms of a name leaves: the others as they were.
LEMMA RemoveExact ==
    ASSUME TypeOK, IndexesAgree, NEW n \in Names
    PROVE  /\ removeIndexes(n) \in [Terms -> SUBSET Names]
           /\ \A t \in Terms, m \in Names : m \in removeIndexes(n)[t] <=> m # n /\ t \in indexed[m]
BY DEF TypeOK, IndexesAgree, removeIndexes

\* What putting a name under new terms gives.
LEMMA UpdateExact ==
    ASSUME TypeOK, IndexesAgree, NEW n \in Names, NEW ts \in SUBSET Terms
    PROVE  /\ updateIndexes(n, ts) \in [Terms -> SUBSET Names]
           /\ \A t \in Terms, m \in Names :
                 m \in updateIndexes(n, ts)[t] <=> (IF m = n THEN t \in ts ELSE t \in indexed[m])
BY RemoveExact DEF updateIndexes

\* A Put keeps the invariant.
LEMMA PutInv ==
    ASSUME Inv, NEW w \in Writers, NEW n \in Names, NEW o \in Objs, Put(w, n, o)
    PROVE  Inv'
<1> DEFINE ts == CreateIndexes[content[o]]
<1>1. TypeOK /\ IndexesAgree /\ ItemsIndexed
  BY DEF Inv
<1>2. ts \in SUBSET Terms
  BY <1>1, IndexAssumption DEF TypeOK
<1>3. /\ indexes' \in [Terms -> SUBSET Names]
      /\ \A t \in Terms, m \in Names :
            m \in indexes'[t] <=> (IF m = n THEN t \in ts ELSE t \in indexed[m])
  <2> HIDE DEF ts
  <2>1. indexes' = updateIndexes(n, ts)
    BY DEF Put, ts
  <2> QED
    BY <1>1, <1>2, <2>1, UpdateExact
<1>4. Note(n, o, subscribers) \in Notes
  BY <1>1 DEF TypeOK, Note, Notes
<1>5. pub' \in [Writers -> Notes]
  BY <1>1, <1>4 DEF TypeOK, Put, publish
<1>6. writes' \in [Writers -> Nat]
  BY <1>1, BoundAssumption DEF TypeOK, Put
<1>7. TypeOK'
  BY <1>1, <1>2, <1>3, <1>5, <1>6 DEF TypeOK, Put
<1>8. IndexesAgree'
  BY <1>1, <1>2, <1>3 DEF TypeOK, IndexesAgree, Put
<1>9. ItemsIndexed'
  BY <1>1, NoneAssumption DEF TypeOK, ItemsIndexed, Put, Stored
<1> QED
  BY <1>7, <1>8, <1>9 DEF Inv

\* A Delete keeps the invariant.
LEMMA DeleteInv ==
    ASSUME Inv, NEW w \in Writers, NEW n \in Names, Delete(w, n)
    PROVE  Inv'
<1>1. TypeOK /\ IndexesAgree /\ ItemsIndexed
  BY DEF Inv
<1>2. /\ indexes' \in [Terms -> SUBSET Names]
      /\ \A t \in Terms, m \in Names : m \in indexes'[t] <=> m # n /\ t \in indexed[m]
  BY <1>1, RemoveExact DEF Delete
<1>3. Note(n, None, subscribers) \in Notes
  BY <1>1 DEF TypeOK, Note, Notes
<1>4. pub' \in [Writers -> Notes]
  BY <1>1, <1>3 DEF TypeOK, Delete, publish
<1>5. writes' \in [Writers -> Nat]
  BY <1>1, BoundAssumption DEF TypeOK, Delete
<1>6. TypeOK'
  BY <1>1, <1>2, <1>4, <1>5 DEF TypeOK, Delete
<1>7. IndexesAgree'
  BY <1>1, <1>2 DEF TypeOK, IndexesAgree, Delete
<1>8. ItemsIndexed'
  BY <1>1, NoneAssumption DEF TypeOK, ItemsIndexed, Delete, Stored
<1> QED
  BY <1>6, <1>7, <1>8 DEF Inv

\* An object that changes in place makes its names dirty and nothing else.
LEMMA ChangeInv ==
    ASSUME Inv, NEW o \in Objs, NEW c \in Contents, ChangeContent(o, c)
    PROVE  Inv'
<1>1. TypeOK'
  <2>1. changes' \in 0..MaxChanges
    BY BoundAssumption DEF Inv, TypeOK, ChangeContent
  <2>2. dirty' \subseteq Names /\ content' \in [Objs -> Contents]
    BY DEF Inv, TypeOK, ChangeContent
  <2> QED
    BY <2>1, <2>2 DEF Inv, TypeOK, ChangeContent
<1>2. IndexesAgree'
  BY DEF Inv, IndexesAgree, ChangeContent
<1>3. ItemsIndexed'
  BY DEF Inv, TypeOK, ItemsIndexed, ChangeContent, Stored
<1> QED
  BY <1>1, <1>2, <1>3 DEF Inv

\* Steps that leave the mapping alone only have to keep the types.
LEMMA DataUnchanged ==
    ASSUME Inv, UNCHANGED data, TypeOK'
    PROVE  Inv'
BY DEF Inv, data, IndexesAgree, ItemsIndexed, Stored

\* A new subscriber.
LEMMA WatchInv ==
    ASSUME Inv, NEW s \in Subs, NEW met \in SUBSET Writers, Watch(s, met)
    PROVE  Inv'
<1>1. TypeOK
  BY DEF Inv
<1>2. pub' \in [Writers -> Notes]
  BY <1>1 DEF TypeOK, Watch, Notes
<1> QED
  BY <1>1, <1>2, DataUnchanged DEF TypeOK, Watch, data

\* A notification that is delivered.
LEMMA DeliverInv ==
    ASSUME Inv, NEW s \in Subs, NEW w \in Writers, Deliver(w, s)
    PROVE  Inv'
<1>1. TypeOK
  BY DEF Inv
<1>2. pub' \in [Writers -> Notes]
  BY <1>1 DEF TypeOK, Deliver, Called, Notes
<1>3. [name |-> pub[w].name, obj |-> pub[w].obj] \in Events
  BY <1>1 DEF TypeOK, Notes, Events
<1>4. queue' \in [Subs -> Seq(Events)] /\ \A x \in Subs : Len(queue'[x]) <= Cap
  BY <1>1, <1>3, BoundAssumption DEF TypeOK, Deliver
<1>5. TypeOK'
  BY <1>1, <1>2, <1>4 DEF TypeOK, Deliver, data
<1>6. UNCHANGED data
  BY DEF Deliver
<1> QED
  BY <1>5, <1>6, DataUnchanged

\* A notification that is dropped.
LEMMA DropInv ==
    ASSUME Inv, NEW s \in Subs, NEW w \in Writers, Drop(w, s)
    PROVE  Inv'
<1>1. TypeOK
  BY DEF Inv
<1>2. pub' \in [Writers -> Notes]
  BY <1>1 DEF TypeOK, Drop, Called, Notes
<1> QED
  BY <1>1, <1>2, DataUnchanged DEF TypeOK, Drop, data

\* A notification that is read.
LEMMA ReceiveInv ==
    ASSUME Inv, NEW s \in Subs, Receive(s)
    PROVE  Inv'
<1>1. TypeOK
  BY DEF Inv
<1>2. Tail(queue[s]) \in Seq(Events) /\ Len(Tail(queue[s])) <= Cap
  BY <1>1, BoundAssumption DEF TypeOK, Receive
<1>3. queue' \in [Subs -> Seq(Events)] /\ \A x \in Subs : Len(queue'[x]) <= Cap
  BY <1>1, <1>2 DEF TypeOK, Receive
<1>4. TypeOK'
  BY <1>1, <1>3 DEF TypeOK, Receive, data
<1>5. UNCHANGED data
  BY DEF Receive
<1> QED
  BY <1>4, <1>5, DataUnchanged

\* Every step keeps the invariant.
LEMMA NextInv == Inv /\ [Next]_vars => Inv'
<1> SUFFICES ASSUME Inv, [Next]_vars PROVE Inv'
  OBVIOUS
<1>1. ASSUME NEW w \in Writers, NEW n \in Names, NEW o \in Objs, Put(w, n, o) PROVE Inv'
  BY <1>1, PutInv
<1>2. ASSUME NEW w \in Writers, NEW n \in Names, Delete(w, n) PROVE Inv'
  BY <1>2, DeleteInv
<1>3. ASSUME NEW w \in Writers, WriterStep(w) PROVE Inv'
  BY <1>3, DeliverInv, DropInv DEF WriterStep
<1>4. CASE Environment
  BY <1>4, ReceiveInv, WatchInv, ChangeInv DEF Environment
<1>5. CASE UNCHANGED vars
  BY <1>5 DEF vars, Inv, TypeOK, IndexesAgree, ItemsIndexed, Stored
<1> QED
  BY <1>1, <1>2, <1>3, <1>4, <1>5 DEF Next

\* The invariant holds in every reachable state.
THEOREM InvHolds == Spec => []Inv
BY InitInv, NextInv, PTL DEF Spec

\* The state keeps its shape: no channel beyond its capacity, no name or object from nowhere.
THEOREM TypeCorrect == Spec => []TypeOK
<1>1. Inv => TypeOK
  BY DEF Inv
<1> QED
  BY <1>1, InvHolds, PTL

\* removeIndexes always finds all there is to remove.
THEOREM IndexesAlwaysAgree == Spec => []IndexesAgree
<1>1. Inv => IndexesAgree
  BY DEF Inv
<1> QED
  BY <1>1, InvHolds, PTL

\* ListNames returns exactly the stored names with the term, and never a name that is gone.
THEOREM LookupsExact == Spec => []ListNamesExact
<1>1. Inv => ListNamesExact
  <2> SUFFICES ASSUME Inv, NEW t \in Terms
               PROVE  /\ ListNames(t) \subseteq Stored
                      /\ \A n \in Stored \ dirty :
                            n \in ListNames(t) <=> t \in CreateIndexes[content[nameToIdx[n]]]
    BY DEF ListNamesExact
  <2> QED
    BY DEF Inv, TypeOK, IndexesAgree, ItemsIndexed, ListNames, Stored
<1> QED
  BY <1>1, InvHolds, PTL

----------------------------------------------------------------------------
(* Notifications. *)

\* Name n is in the channel q; its last notification there has object o.
Occurs(q, n) == \E i \in DOMAIN q : q[i].name = n
LastIs(q, n, o) == \A i \in DOMAIN q : (q[i].name = n /\ \A j \in DOMAIN q : j > i => q[j].name # n) => q[i].obj = o

\* A callback of s with name n is still to be made.
Owed(s, n) == \E w \in Writers : s \in pub[w].todo /\ pub[w].name = n

\* The last notification of n that s has not read, wherever it is, tells what the
\* mapping holds; if s has read all, it holds that itself.
UpToDate(s, n) ==
    /\ \A w \in Writers : s \in pub[w].todo /\ pub[w].name = n => pub[w].obj = nameToIdx[n]
    /\ ~Owed(s, n) => /\ LastIs(queue[s], n, nameToIdx[n])
                      /\ ~Occurs(queue[s], n) => mirror[s][n] = nameToIdx[n]

\* A writer notifies the subscribers of names of its own.
WritersOwn == \A w \in Writers : pub[w].todo \subseteq subscribers /\ (pub[w].todo # {} => w \in WriterOf[pub[w].name])

\* Who has not subscribed has heard nothing.
NotYet == \A s \in Subs \ subscribers : queue[s] = <<>> /\ mirror[s] = [n \in Names |-> None]

MirrorInv ==
    /\ mirror \in [Subs -> [Names -> Objs \cup {None}]] /\ WritersOwn /\ NotYet
    /\ \A s \in complete, n \in OneWriter : UpToDate(s, n)

\* A notification is put at the end of a channel.
LEMMA LastSent ==
    ASSUME NEW S, NEW q \in Seq(S), NEW e \in S, NEW n, NEW o
    PROVE  /\ Occurs(Append(q, e), n) <=> Occurs(q, n) \/ e.name = n
           /\ e.name = n /\ e.obj = o => LastIs(Append(q, e), n, o)
           /\ e.name # n /\ LastIs(q, n, o) => LastIs(Append(q, e), n, o)
<1> DEFINE r == Append(q, e)
<1>1. PICK N \in Nat : N = Len(q)
  BY LenProperties
<1>2. DOMAIN q = 1..N /\ DOMAIN r = 1..(N + 1) /\ r[N + 1] = e /\ \A i \in 1..N : r[i] = q[i]
  BY <1>1, AppendProperties, LenProperties
<1> HIDE DEF r
<1>3. Occurs(r, n) <=> Occurs(q, n) \/ e.name = n
  BY <1>2 DEF Occurs
<1>4. ASSUME e.name = n, e.obj = o PROVE LastIs(r, n, o)
  <2> SUFFICES ASSUME NEW i \in DOMAIN r, r[i].name = n, \A j \in DOMAIN r : j > i => r[j].name # n
               PROVE  r[i].obj = o
    BY DEF LastIs
  <2>1. N + 1 \in DOMAIN r /\ ~(N + 1 > i)
    BY <1>2, <1>4
  <2>2. i = N + 1
    BY <1>2, <2>1
  <2> QED BY <1>2, <1>4, <2>2
<1>5. ASSUME e.name # n, LastIs(q, n, o) PROVE LastIs(r, n, o)
  <2> SUFFICES ASSUME NEW i \in DOMAIN r, r[i].name = n, \A j \in DOMAIN r : j > i => r[j].name # n
               PROVE  r[i].obj = o
    BY DEF LastIs
  <2>1. i # N + 1
    BY <1>2, <1>5
  <2>2. i \in DOMAIN q /\ r[i] = q[i] /\ \A j \in DOMAIN q : j \in DOMAIN r /\ r[j] = q[j]
    BY <1>2, <2>1
  <2> QED BY <1>5, <2>2 DEF LastIs
<1> QED BY <1>3, <1>4, <1>5 DEF r

\* The first notification is read.
LEMMA LastRead ==
    ASSUME NEW S, NEW q \in Seq(S), q # <<>>, NEW n, NEW o, LastIs(q, n, o)
    PROVE  /\ LastIs(Tail(q), n, o) /\ Head(q) \in S
           /\ Occurs(q, n) /\ ~Occurs(Tail(q), n) => Head(q).name = n
           /\ ~Occurs(Tail(q), n) /\ Head(q).name = n => Head(q).obj = o
<1> DEFINE r == Tail(q)
<1>1. Len(q) \in Nat \ {0} /\ DOMAIN q = 1..Len(q)
  BY EmptySeq, LenProperties
<1>2. PICK N \in Nat : N + 1 = Len(q) /\ N = Len(q) - 1
  <2>1. Len(q) - 1 \in Nat /\ (Len(q) - 1) + 1 = Len(q)
    BY <1>1
  <2> QED BY <2>1
<1>3. DOMAIN q = 1..(N + 1) /\ DOMAIN r = 1..N /\ (\A i \in 1..N : r[i] = q[i + 1]) /\ Head(q) \in S
  <2>1. Head(q) \in S /\ r \in Seq(S) /\ Len(r) = N /\ \A i \in 1..Len(r) : r[i] = q[i + 1]
    BY <1>2, HeadTailProperties
  <2> QED BY <1>1, <1>2, <2>1, LenProperties
<1>4. Head(q) = q[1]
  OBVIOUS
<1> HIDE DEF r
<1>5. \A j \in DOMAIN q : j = 1 \/ (j - 1 \in DOMAIN r /\ r[j - 1] = q[j])
  BY <1>3
<1>6. \A i \in DOMAIN r : i + 1 \in DOMAIN q /\ r[i] = q[i + 1]
  BY <1>3
<1>7. LastIs(r, n, o)
  <2> SUFFICES ASSUME NEW i \in DOMAIN r, r[i].name = n, \A j \in DOMAIN r : j > i => r[j].name # n
               PROVE  r[i].obj = o
    BY DEF LastIs
  <2>1. ASSUME NEW j \in DOMAIN q, j > i + 1 PROVE q[j].name # n
    <3>1. j - 1 \in DOMAIN r /\ j - 1 > i /\ r[j - 1] = q[j]
      BY <1>3, <1>5, <2>1
    <3> QED BY <3>1
  <2> QED BY <1>6, <2>1 DEF LastIs
<1>8. Occurs(q, n) /\ ~Occurs(r, n) => Head(q).name = n
  BY <1>4, <1>5 DEF Occurs
<1>9. ASSUME ~Occurs(r, n), Head(q).name = n PROVE Head(q).obj = o
  <2>1. 1 \in DOMAIN q
    BY <1>3
  <2>2. ASSUME NEW j \in DOMAIN q, j > 1 PROVE q[j].name # n
    <3>1. j - 1 \in DOMAIN r /\ r[j - 1] = q[j]
      BY <1>3, <1>5, <2>2
    <3> QED BY <1>9, <3>1 DEF Occurs
  <2> QED BY <1>4, <1>9, <2>1, <2>2 DEF LastIs
<1> QED BY <1>3, <1>7, <1>8, <1>9 DEF r

\* A free writer w writes name n and begins its round of callbacks.
Writes(w, n, o) ==
    /\ Free(w) /\ w \in WriterOf[n] /\ nameToIdx' = [nameToIdx EXCEPT ![n] = o]
    /\ pub' = [pub EXCEPT ![w] = Note(n, o, subscribers)]
    /\ UNCHANGED <<subscribers, queue, mirror, complete>>

\* Everybody who has missed nothing is owed the new object.
LEMMA WritesMirror ==
    ASSUME Inv, MirrorInv, NEW w \in Writers, NEW n \in Names, NEW o \in Objs \cup {None}, Writes(w, n, o)
    PROVE  MirrorInv'
<1>1. /\ pub \in [Writers -> Notes] /\ nameToIdx \in [Names -> Objs \cup {None}]
      /\ complete \subseteq subscribers /\ subscribers \subseteq Subs
  BY DEF Inv, TypeOK
<1>2. /\ pub'[w].name = n /\ pub'[w].obj = o /\ pub'[w].todo = subscribers /\ pub[w].todo = {} /\ w \in WriterOf[n]
      /\ \A x \in Writers : x # w => pub'[x] = pub[x]
  BY <1>1 DEF Writes, Note, Free
<1>3. nameToIdx'[n] = o /\ \A m \in Names : m # n => nameToIdx'[m] = nameToIdx[m]
  BY <1>1 DEF Writes
<1>4. UNCHANGED <<subscribers, queue, mirror, complete>>
  BY DEF Writes
<1>5. WritersOwn'
  BY <1>2, <1>4 DEF MirrorInv, WritersOwn
<1>6. ASSUME NEW s \in complete, NEW m \in OneWriter PROVE UpToDate(s, m)'
  <2>1. UpToDate(s, m) /\ m \in Names
    BY DEF MirrorInv, OneWriter
  <2>2. CASE m = n
    <3>1. ASSUME NEW x \in Writers, s \in pub'[x].todo, pub'[x].name = n PROVE x = w
      BY <1>2, <1>5, <2>2, <3>1 DEF WritersOwn, OneWriter
    <3>2. Owed(s, m)'
      BY <1>1, <1>2, <2>2 DEF Owed
    <3> QED BY <1>2, <1>3, <2>2, <3>1, <3>2 DEF UpToDate
  <2>3. CASE m # n
    <3>1. \A x \in Writers : s \in pub'[x].todo /\ pub'[x].name = m <=> s \in pub[x].todo /\ pub[x].name = m
      BY <1>2, <2>3
    <3>2. \A x \in Writers : s \in pub'[x].todo /\ pub'[x].name = m => pub'[x].obj = pub[x].obj
      BY <1>2, <2>3
    <3>3. Owed(s, m)' <=> Owed(s, m)
      BY <3>1 DEF Owed
    <3>4. nameToIdx'[m] = nameToIdx[m]
      BY <1>3, <2>1, <2>3
    <3> QED BY <1>4, <2>1, <3>1, <3>2, <3>3, <3>4 DEF UpToDate
  <2> QED BY <2>2, <2>3
<1>7. NotYet' /\ mirror' \in [Subs -> [Names -> Objs \cup {None}]]
  BY <1>4 DEF MirrorInv, NotYet
<1> QED BY <1>4, <1>5, <1>6, <1>7 DEF MirrorInv, OneWriter

\* A callback of writer w to s has been made, or timed out.
LEMMA CalledPub ==
    ASSUME Inv, NEW w \in Writers, NEW s \in Subs, Called(w, s)
    PROVE  /\ \A x \in Writers : /\ pub'[x].name = pub[x].name /\ pub'[x].obj = pub[x].obj
                                 /\ pub'[x].todo = IF x = w THEN pub[x].todo \ {s} ELSE pub[x].todo
BY DEF Inv, TypeOK, Called, Notes

\* Nothing changes for s and n.
LEMMA SameMirror ==
    ASSUME NEW s, NEW n, UpToDate(s, n), queue'[s] = queue[s], mirror'[s] = mirror[s], nameToIdx'[n] = nameToIdx[n],
           \A x \in Writers : /\ s \in pub'[x].todo /\ pub'[x].name = n <=> s \in pub[x].todo /\ pub[x].name = n
                              /\ pub'[x].obj = pub[x].obj
    PROVE  UpToDate(s, n)'
<1>1. Owed(s, n)' <=> Owed(s, n)
  BY DEF Owed
<1> QED BY <1>1 DEF UpToDate

\* A notification reaches its channel.
LEMMA DeliverMirror ==
    ASSUME Inv, MirrorInv, NEW w \in Writers, NEW s \in Subs, Deliver(w, s)
    PROVE  MirrorInv'
<1> DEFINE e == [name |-> pub[w].name, obj |-> pub[w].obj]
<1>1. pub \in [Writers -> Notes] /\ queue \in [Subs -> Seq(Events)] /\ complete \subseteq subscribers /\ subscribers \subseteq Subs
  BY DEF Inv, TypeOK
<1>2. \A x \in Writers : /\ pub'[x].name = pub[x].name /\ pub'[x].obj = pub[x].obj
                         /\ pub'[x].todo = IF x = w THEN pub[x].todo \ {s} ELSE pub[x].todo
  BY CalledPub DEF Deliver
<1>3. /\ s \in pub[w].todo /\ queue' = [queue EXCEPT ![s] = Append(@, e)]
      /\ UNCHANGED <<subscribers, mirror, complete, nameToIdx>>
  BY DEF Deliver, data
<1>4. queue'[s] = Append(queue[s], e) /\ \A t \in Subs : t # s => queue'[t] = queue[t]
  BY <1>1, <1>3
<1>5. e \in Events /\ e.name = pub[w].name /\ e.obj = pub[w].obj
  BY <1>1 DEF Notes, Events
<1> HIDE DEF e
<1>6. WritersOwn' /\ s \in subscribers
  BY <1>2, <1>3 DEF MirrorInv, WritersOwn
<1>7. NotYet' /\ mirror' \in [Subs -> [Names -> Objs \cup {None}]]
  BY <1>3, <1>4, <1>6 DEF MirrorInv, NotYet
<1>8. ASSUME NEW t \in complete, NEW n \in OneWriter PROVE UpToDate(t, n)'
  <2>1. UpToDate(t, n) /\ t \in Subs
    BY <1>1 DEF MirrorInv
  <2>2. CASE t # s
    <3>1. \A x \in Writers : /\ t \in pub'[x].todo /\ pub'[x].name = n <=> t \in pub[x].todo /\ pub[x].name = n
                             /\ pub'[x].obj = pub[x].obj
      BY <1>2, <2>2
    <3>2. queue'[t] = queue[t] /\ mirror'[t] = mirror[t] /\ nameToIdx'[n] = nameToIdx[n]
      BY <1>3, <1>4, <2>1, <2>2
    <3> QED BY <2>1, <3>1, <3>2, SameMirror
  <2>3. CASE t = s /\ n = pub[w].name
    <3>1. e.obj = nameToIdx[n]
      BY <1>3, <1>5, <2>1, <2>3 DEF UpToDate
    <3>2. ASSUME NEW x \in Writers, s \in pub'[x].todo, pub'[x].name = n PROVE FALSE
      <4>1. x # w /\ s \in pub[x].todo /\ pub[x].name = n
        BY <1>2, <3>2
      <4>2. x \in WriterOf[n] /\ w \in WriterOf[n]
        BY <1>3, <2>3, <4>1 DEF MirrorInv, WritersOwn
      <4> QED BY <4>1, <4>2 DEF OneWriter
    <3>3. Occurs(queue'[s], n) /\ LastIs(queue'[s], n, nameToIdx[n])
      BY <1>1, <1>4, <1>5, <2>3, <3>1, LastSent
    <3> QED BY <1>3, <2>3, <3>2, <3>3 DEF UpToDate
  <2>4. CASE t = s /\ n # pub[w].name
    <3>1. \A x \in Writers : s \in pub'[x].todo /\ pub'[x].name = n <=> s \in pub[x].todo /\ pub[x].name = n
      BY <1>2, <2>4
    <3>2. Owed(s, n)' <=> Owed(s, n)
      BY <3>1 DEF Owed
    <3>3. /\ Occurs(Append(queue[s], e), n) <=> Occurs(queue[s], n) \/ e.name = n
          /\ e.name # n /\ LastIs(queue[s], n, nameToIdx[n]) => LastIs(Append(queue[s], e), n, nameToIdx[n])
      <4>1. queue[s] \in Seq(Events)
        BY <1>1
      <4> QED BY <1>5, <4>1, LastSent
    <3>4. LastIs(queue[s], n, nameToIdx[n]) => LastIs(queue'[s], n, nameToIdx[n])
      BY <1>4, <1>5, <2>4, <3>3
    <3>5. Occurs(queue'[s], n) <=> Occurs(queue[s], n)
      BY <1>4, <1>5, <2>4, <3>3
    <3> QED BY <1>2, <1>3, <2>1, <2>4, <3>1, <3>2, <3>4, <3>5 DEF UpToDate
  <2> QED BY <2>2, <2>3, <2>4
<1> QED BY <1>3, <1>6, <1>7, <1>8 DEF MirrorInv, OneWriter

\* A notification is dropped: s has missed something.
LEMMA DropMirror ==
    ASSUME Inv, MirrorInv, NEW w \in Writers, NEW s \in Subs, Drop(w, s)
    PROVE  MirrorInv'
<1>1. \A x \in Writers : /\ pub'[x].name = pub[x].name /\ pub'[x].obj = pub[x].obj
                         /\ pub'[x].todo = IF x = w THEN pub[x].todo \ {s} ELSE pub[x].todo
  BY CalledPub DEF Drop
<1>2. complete' = complete \ {s} /\ UNCHANGED <<subscribers, queue, mirror, nameToIdx>>
  BY DEF Drop, data
<1>3. WritersOwn' /\ NotYet' /\ mirror' \in [Subs -> [Names -> Objs \cup {None}]]
  BY <1>1, <1>2 DEF MirrorInv, WritersOwn, NotYet
<1>4. ASSUME NEW t \in complete', NEW n \in OneWriter PROVE UpToDate(t, n)'
  <2>1. t \in complete /\ t # s /\ UpToDate(t, n)
    BY <1>2 DEF MirrorInv
  <2> QED BY <1>1, <1>2, <2>1, SameMirror
<1> QED BY <1>3, <1>4 DEF MirrorInv, OneWriter

\* A notification is read.
LEMMA ReceiveMirror ==
    ASSUME Inv, MirrorInv, NEW s \in Subs, Receive(s)
    PROVE  MirrorInv'
<1> DEFINE q == queue[s]
<1>1. /\ pub \in [Writers -> Notes] /\ queue \in [Subs -> Seq(Events)] /\ complete \subseteq subscribers /\ subscribers \subseteq Subs
      /\ mirror \in [Subs -> [Names -> Objs \cup {None}]]
  BY DEF Inv, TypeOK, MirrorInv
<1>2. q \in Seq(Events) /\ q # <<>> /\ UNCHANGED <<pub, subscribers, complete, nameToIdx>>
  BY <1>1 DEF Receive, data
<1>3. Head(q) \in Events /\ Head(q).name \in Names /\ Head(q).obj \in Objs \cup {None}
  <2>1. Head(q) \in Events
    BY <1>2, HeadTailProperties
  <2> QED BY <2>1 DEF Events
<1>4. /\ queue'[s] = Tail(q) /\ mirror'[s] = [mirror[s] EXCEPT ![Head(q).name] = Head(q).obj]
      /\ \A t \in Subs : t # s => queue'[t] = queue[t] /\ mirror'[t] = mirror[t]
  BY <1>1 DEF Receive
<1>5. mirror' \in [Subs -> [Names -> Objs \cup {None}]]
  <2>1. mirror' = [mirror EXCEPT ![s] = [mirror[s] EXCEPT ![Head(q).name] = Head(q).obj]]
    BY <1>1 DEF Receive
  <2>2. [mirror[s] EXCEPT ![Head(q).name] = Head(q).obj] \in [Names -> Objs \cup {None}]
    BY <1>1, <1>3
  <2> QED BY <1>1, <2>1, <2>2
<1>6. s \in subscribers
  BY <1>2 DEF MirrorInv, NotYet
<1>7. WritersOwn' /\ NotYet'
  BY <1>2, <1>4, <1>6 DEF MirrorInv, WritersOwn, NotYet
<1>8. ASSUME NEW t \in complete, NEW n \in OneWriter PROVE UpToDate(t, n)'
  <2>1. UpToDate(t, n) /\ t \in Subs /\ n \in Names
    BY <1>1 DEF MirrorInv, OneWriter
  <2>2. CASE t # s
    BY <1>2, <1>4, <2>1, <2>2, SameMirror
  <2>3. CASE t = s /\ Owed(s, n)
    BY <1>2, <2>1, <2>3 DEF UpToDate, Owed
  <2>4. CASE t = s /\ ~Owed(s, n)
    <3>1. LastIs(q, n, nameToIdx[n]) /\ (~Occurs(q, n) => mirror[s][n] = nameToIdx[n])
      BY <2>1, <2>4 DEF UpToDate
    <3>2. /\ LastIs(Tail(q), n, nameToIdx[n])
          /\ Occurs(q, n) /\ ~Occurs(Tail(q), n) => Head(q).name = n
          /\ ~Occurs(Tail(q), n) /\ Head(q).name = n => Head(q).obj = nameToIdx[n]
      BY <1>2, <3>1, LastRead
    <3>3. ~Occurs(Tail(q), n) => mirror'[s][n] = nameToIdx[n]
      <4>1. CASE Head(q).name = n
        BY <1>1, <1>4, <2>1, <3>2, <4>1
      <4>2. CASE Head(q).name # n
        BY <1>1, <1>4, <2>1, <3>1, <3>2, <4>2
      <4> QED BY <4>1, <4>2
    <3> HIDE DEF q
    <3> QED BY <1>2, <1>4, <2>1, <2>4, <3>2, <3>3 DEF UpToDate, Owed
  <2> QED BY <2>2, <2>3, <2>4
<1> QED BY <1>2, <1>5, <1>7, <1>8 DEF MirrorInv, OneWriter

\* A new subscriber has missed nothing only when there was nothing to miss.
LEMMA WatchMirror ==
    ASSUME Inv, MirrorInv, NEW s \in Subs, NEW met \in SUBSET Writers, Watch(s, met)
    PROVE  MirrorInv'
<1>1. pub \in [Writers -> Notes] /\ complete \subseteq subscribers /\ subscribers \subseteq Subs /\ nameToIdx \in [Names -> Objs \cup {None}]
  BY DEF Inv, TypeOK
<1>2. /\ s \notin subscribers /\ subscribers' = subscribers \cup {s} /\ UNCHANGED <<queue, mirror, nameToIdx>>
      /\ \A w \in met : w \in Writers /\ pub[w].todo # {}
  BY DEF Watch, data, Free
<1>3. \A w \in Writers : /\ pub'[w].name = pub[w].name /\ pub'[w].obj = pub[w].obj
                         /\ pub'[w].todo = IF w \in met THEN pub[w].todo \cup {s} ELSE pub[w].todo
  BY <1>1 DEF Watch, Notes
<1>4. WritersOwn'
  BY <1>2, <1>3 DEF MirrorInv, WritersOwn
<1>5. NotYet' /\ mirror' \in [Subs -> [Names -> Objs \cup {None}]]
  BY <1>2 DEF MirrorInv, NotYet
<1>6. ASSUME NEW t \in complete', NEW n \in OneWriter PROVE UpToDate(t, n)'
  <2>1. CASE t \in complete
    <3>1. UpToDate(t, n) /\ t # s
      BY <1>1, <1>2, <2>1 DEF MirrorInv
    <3>2. \A x \in Writers : /\ t \in pub'[x].todo /\ pub'[x].name = n <=> t \in pub[x].todo /\ pub[x].name = n
                             /\ pub'[x].obj = pub[x].obj
      BY <1>3, <3>1
    <3> QED BY <1>2, <3>1, <3>2, SameMirror
  <2>2. CASE t \notin complete
    <3>1. t = s /\ Stored = {} /\ \A w \in Writers : pub[w].todo = {}
      BY <2>2 DEF Watch, Free
    <3>2. n \in Names /\ nameToIdx[n] = None
      BY <3>1 DEF Stored, OneWriter
    <3>3. met = {}
      BY <1>2, <3>1
    <3>4. \A w \in Writers : s \notin pub'[w].todo
      BY <1>3, <3>1, <3>3
    <3>5. queue[s] = <<>> /\ mirror[s][n] = None
      BY <1>2, <3>2 DEF MirrorInv, NotYet
    <3>6. LastIs(<<>>, n, None)
      BY DEF LastIs
    <3> QED BY <1>2, <3>1, <3>2, <3>4, <3>5, <3>6 DEF UpToDate, Owed
  <2> QED BY <2>1, <2>2
<1> QED BY <1>4, <1>5, <1>6 DEF MirrorInv, OneWriter

\* Nothing that matters to the subscribers changes.
LEMMA UnchangedMirror ==
    ASSUME MirrorInv, UNCHANGED <<nameToIdx, pub, subscribers, queue, mirror, complete>>
    PROVE  MirrorInv'
BY DEF MirrorInv, WritersOwn, NotYet, UpToDate, Owed, OneWriter

\* Every step keeps the subscribers up to date.
LEMMA NextMirror == Inv /\ MirrorInv /\ [Next]_vars => MirrorInv'
<1> SUFFICES ASSUME Inv, MirrorInv, [Next]_vars PROVE MirrorInv'
  OBVIOUS
<1>1. ASSUME NEW w \in Writers, NEW n \in Names, NEW o \in Objs, Put(w, n, o) PROVE MirrorInv'
  <2>1. Writes(w, n, o)
    BY <1>1 DEF Put, publish, Writes
  <2> QED BY <2>1, WritesMirror
<1>2. ASSUME NEW w \in Writers, NEW n \in Names, Delete(w, n) PROVE MirrorInv'
  <2>1. Writes(w, n, None)
    BY <1>2 DEF Delete, publish, Writes
  <2> QED BY <2>1, WritesMirror
<1>3. ASSUME NEW w \in Writers, WriterStep(w) PROVE MirrorInv'
  BY <1>3, DeliverMirror, DropMirror DEF WriterStep
<1>4. ASSUME NEW o \in Objs, NEW c \in Contents, ChangeContent(o, c) PROVE MirrorInv'
  BY <1>4, UnchangedMirror DEF ChangeContent
<1>5. CASE Environment
  BY <1>4, <1>5, ReceiveMirror, WatchMirror DEF Environment
<1>6. CASE UNCHANGED vars
  BY <1>6, UnchangedMirror DEF vars
<1> QED BY <1>1, <1>2, <1>3, <1>5, <1>6 DEF Next

\* In the beginning nobody has subscribed.
LEMMA InitMirror == Init => MirrorInv
<1> SUFFICES ASSUME Init PROVE MirrorInv
  OBVIOUS
<1>1. \A w \in Writers : pub[w].todo = {}
  BY DEF Init, NoNote, Note
<1> QED BY <1>1 DEF Init, MirrorInv, WritersOwn, NotYet

\* A subscriber that missed nothing has the mapping's content once it has read its
\* notifications, whatever the order in which writers, callbacks and readers run.
THEOREM SubscribersCatchUp == Spec => []MirrorCatchesUp
<1>1. Spec => []MirrorInv
  BY InitMirror, NextMirror, InvHolds, PTL DEF Spec
<1>2. MirrorInv => MirrorCatchesUp
  <2> SUFFICES ASSUME MirrorInv, NEW s \in complete, NEW n \in OneWriter, queue[s] = <<>>,
                      \A w \in Writers : s \in pub[w].todo => pub[w].name # n
               PROVE  mirror[s][n] = nameToIdx[n]
    BY DEF MirrorCatchesUp
  <2>1. ~Owed(s, n) /\ ~Occurs(queue[s], n)
    BY DEF Owed, Occurs
  <2> QED BY <2>1 DEF MirrorInv, UpToDate
<1> QED BY <1>1, <1>2, PTL
=============================================================================
