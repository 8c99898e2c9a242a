----------------------------- MODULE NamedMapping -----------------------------
(***************************************************************************)
(* The in-memory named mapping with secondary indexes (idxmap/mem) and the *)
(* delivery of its notifications (idxmap/chan.go and the typed wrapper     *)
(* pluginstatusmap).                                                       *)
(*                                                                         *)
(* The mapping holds pointers: an object whose content its owner changes   *)
(* later stays indexed by what it contained when it was put.  A Put or     *)
(* Delete changes the mapping under the lock and then, outside of it, the  *)
(* same goroutine calls every subscriber's callback, which sends to a      *)
(* channel.                                                                *)
(***************************************************************************)
EXTENDS Naturals, Sequences, FiniteSets

CONSTANTS Names, Objs, Contents,
          Terms,          \* pairs of an index name and an index value
          CreateIndexes,  \* createIndexes: the terms of a content
          Writers,        \* goroutines that write
          WriterOf,       \* WriterOf[n]: the writers of name n
          Subs,           \* subscribers
          Blocking,       \* those whose callback has no timeout (WatchNameToIdx)
          Cap,            \* capacity of the subscribers' channels
          MaxWrites,      \* MaxWrites[w]: bound on the writes of w
          MaxChanges,     \* bound: changes of an object's content
          None            \* no object

ASSUME IndexAssumption == CreateIndexes \in [Contents -> SUBSET Terms]
ASSUME WriterAssumption == WriterOf \in [Names -> SUBSET Writers] /\ Blocking \subseteq Subs
ASSUME NoneAssumption == None \notin Objs /\ Names # {}
ASSUME BoundAssumption == Cap \in Nat \ {0} /\ MaxWrites \in [Writers -> Nat] /\ MaxChanges \in Nat

VARIABLES
    content,      \* content[o]: what object o contains
    changes,      \* number of changes of contents so far
    nameToIdx,    \* nameToIdx[n]: the object stored under n
    indexed,      \* indexed[n]: the terms its item was indexed by
    indexes,      \* indexes[t]: the name set of term t
    dirty,        \* names whose object has changed since it was put
    writes,       \* writes[w]: number of writes so far
    pub,          \* pub[w]: the notification w is delivering and to whom
    subscribers,
    queue,        \* queue[s]: the channel of s
    mirror,       \* mirror[s]: the mapping as s knows it
    complete      \* subscribers that have been offered and not missed anything

data == <<content, changes, nameToIdx, indexed, indexes, dirty, writes>>
vars == <<content, changes, nameToIdx, indexed, indexes, dirty, writes,
          pub, subscribers, queue, mirror, complete>>

Note(n, o, subs) == [name |-> n, obj |-> o, todo |-> subs]
NoNote == Note(CHOOSE n \in Names : TRUE, None, {})
Free(w) == pub[w].todo = {}
Stored == {n \in Names : nameToIdx[n] # None}

Init ==
    /\ content \in [Objs -> Contents] /\ changes = 0
    /\ nameToIdx = [n \in Names |-> None]
    /\ indexed = [n \in Names |-> {}]
    /\ indexes = [t \in Terms |-> {}]
    /\ dirty = {} /\ writes = [w \in Writers |-> 0]
    /\ pub = [w \in Writers |-> NoNote]
    /\ subscribers = {} /\ complete = {}
    /\ queue = [s \in Subs |-> <<>>]
    /\ mirror = [s \in Subs |-> [n \in Names |-> None]]

----------------------------------------------------------------------------
(* Lookups. *)

GetValue(n) == nameToIdx[n]
ListAllNames == Stored
ListNames(t) == indexes[t]

----------------------------------------------------------------------------
(* Writes. *)

\* The indexes without name n, by the terms its item was indexed by.
removeIndexes(n) == [t \in Terms |-> IF t \in indexed[n] THEN indexes[t] \ {n} ELSE indexes[t]]

\* Mutant: the old terms stay.
updateKeepingOld(n, ts) == [t \in Terms |-> IF t \in ts THEN indexes[t] \cup {n} ELSE indexes[t]]

\* The indexes with name n under the terms ts, its old terms removed.
updateIndexes(n, ts) ==
    [t \in Terms |-> IF t \in ts THEN removeIndexes(n)[t] \cup {n} ELSE removeIndexes(n)[t]]

\* Mutant: the notification goes out for the value that was overwritten.
publishOld(w, n, o) == pub' = [pub EXCEPT ![w] = Note(n, nameToIdx[n], subscribers)]

\* publishToChannel and publishDelToChannel: the callbacks still to be called.
publish(w, n, o) == pub' = [pub EXCEPT ![w] = Note(n, o, subscribers)]

Put(w, n, o) ==
    /\ Free(w) /\ w \in WriterOf[n] /\ writes[w] < MaxWrites[w]
    /\ nameToIdx' = [nameToIdx EXCEPT ![n] = o]
    /\ indexed' = [indexed EXCEPT ![n] = CreateIndexes[content[o]]]
    /\ indexes' = updateIndexes(n, CreateIndexes[content[o]])
    /\ dirty' = dirty \ {n} /\ writes' = [writes EXCEPT ![w] = @ + 1]
    /\ publish(w, n, o)
    /\ UNCHANGED <<content, changes, subscribers, queue, mirror, complete>>

\* Delete of a stored name; of another one it does nothing.
Delete(w, n) ==
    /\ Free(w) /\ w \in WriterOf[n] /\ writes[w] < MaxWrites[w]
    /\ nameToIdx[n] # None
    /\ nameToIdx' = [nameToIdx EXCEPT ![n] = None]
    /\ indexed' = [indexed EXCEPT ![n] = {}]
    /\ indexes' = removeIndexes(n)
    /\ dirty' = dirty \ {n} /\ writes' = [writes EXCEPT ![w] = @ + 1]
    /\ publish(w, n, None)
    /\ UNCHANGED <<content, changes, subscribers, queue, mirror, complete>>

\* The owner of an object changes it in place.
ChangeContent(o, c) ==
    /\ changes < MaxChanges /\ content[o] # c
    /\ content' = [content EXCEPT ![o] = c]
    /\ changes' = changes + 1
    /\ dirty' = dirty \cup {n \in Names : nameToIdx[n] = o}
    /\ UNCHANGED <<nameToIdx, indexed, indexes, writes, pub, subscribers, queue, mirror, complete>>

----------------------------------------------------------------------------
(* Notifications. *)

\* LoadOrStore in the sync.Map: a Range in progress may or may not meet it.
Watch(s, met) ==
    /\ s \notin subscribers
    /\ subscribers' = subscribers \cup {s}
    /\ met \subseteq {w \in Writers : ~Free(w)}
    /\ pub' = [w \in Writers |-> IF w \in met THEN [pub[w] EXCEPT !.todo = @ \cup {s}] ELSE pub[w]]
    /\ complete' = IF Stored = {} /\ \A w \in Writers : Free(w) THEN complete \cup {s} ELSE complete
    /\ UNCHANGED data /\ UNCHANGED <<queue, mirror>>

Called(w, s) == pub' = [pub EXCEPT ![w].todo = @ \ {s}]

\* The callback of s: ch <- dto.
Deliver(w, s) ==
    /\ s \in pub[w].todo /\ Len(queue[s]) < Cap
    /\ queue' = [queue EXCEPT ![s] = Append(@, [name |-> pub[w].name, obj |-> pub[w].obj])]
    /\ Called(w, s)
    /\ UNCHANGED data /\ UNCHANGED <<subscribers, mirror, complete>>

\* The timer of ToChan: the notification is dropped.
Drop(w, s) ==
    /\ s \in pub[w].todo /\ s \notin Blocking /\ Len(queue[s]) = Cap
    /\ Called(w, s)
    /\ complete' = complete \ {s}
    /\ UNCHANGED data /\ UNCHANGED <<subscribers, queue, mirror>>

\* A subscriber reads its channel.
Receive(s) ==
    /\ queue[s] # <<>>
    /\ mirror' = [mirror EXCEPT ![s][Head(queue[s]).name] = Head(queue[s]).obj]
    /\ queue' = [queue EXCEPT ![s] = Tail(@)]
    /\ UNCHANGED data /\ UNCHANGED <<pub, subscribers, complete>>

----------------------------------------------------------------------------
WriterStep(w) == \E s \in Subs : Deliver(w, s) \/ Drop(w, s)
Environment ==
    \/ \E s \in Subs : Receive(s) \/ \E met \in SUBSET Writers : Watch(s, met)
    \/ \E o \in Objs, c \in Contents : ChangeContent(o, c)
Next ==
    \/ \E w \in Writers, n \in Names : Delete(w, n) \/ \E o \in Objs : Put(w, n, o)
    \/ \E w \in Writers : WriterStep(w)
    \/ Environment

Spec == Init /\ [][Next]_vars

----------------------------------------------------------------------------
(* Properties. *)

Notes == [name : Names, obj : Objs \cup {None}, todo : SUBSET Subs]
Events == [name : Names, obj : Objs \cup {None}]

\* The shapes of the state; every channel within its capacity.
TypeOK ==
    /\ content \in [Objs -> Contents]
    /\ nameToIdx \in [Names -> Objs \cup {None}]
    /\ indexed \in [Names -> SUBSET Terms]
    /\ indexes \in [Terms -> SUBSET Names]
    /\ dirty \subseteq Names /\ writes \in [Writers -> Nat] /\ changes \in 0..MaxChanges
    /\ pub \in [Writers -> Notes] /\ queue \in [Subs -> Seq(Events)]
    /\ subscribers \subseteq Subs /\ complete \subseteq subscribers
    /\ \A s \in Subs : Len(queue[s]) <= Cap

\* A lookup by a secondary index finds the stored names whose object has that
\* term, also after objects were overwritten, deleted, shared between names or
\* changed in place; an object changed since it was put may be found by its
\* old terms, but a name that is gone never is.
ListNamesExact ==
    \A t \in Terms :
        /\ ListNames(t) \subseteq Stored
        /\ \A n \in Stored \ dirty : n \in ListNames(t) <=> t \in CreateIndexes[content[nameToIdx[n]]]

\* The item's own record of its terms and the indexes agree: what a later Put
\* or Delete removes is all there is.
IndexesAgree == \A t \in Terms, n \in Names : n \in indexes[t] <=> t \in indexed[n]

\* What an item is indexed by: nothing when it is gone, and the terms its
\* object has now unless the object has changed (inductive with IndexesAgree).
ItemsIndexed ==
    \A n \in Names :
        /\ nameToIdx[n] = None => indexed[n] = {}
        /\ n \in Stored \ dirty => indexed[n] = CreateIndexes[content[nameToIdx[n]]]

\* The names that one goroutine writes.
OneWriter == {n \in Names : \A w, x \in WriterOf[n] : w = x}

\* A subscriber that watched from the start and missed nothing holds, for every
\* name with one writer, what the mapping holds, once the name's notification
\* has been read.
MirrorCatchesUp ==
    \A s \in complete, n \in OneWriter :
        (/\ queue[s] = <<>>
         /\ \A w \in Writers : s \in pub[w].todo => pub[w].name # n)
            => mirror[s][n] = nameToIdx[n]
=============================================================================
