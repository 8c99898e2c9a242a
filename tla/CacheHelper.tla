----------------------------- MODULE CacheHelper -----------------------------
(***************************************************************************)
(* The cache helper (idxmap/mem/cache_helper.go): a goroutine that reads   *)
(* the change and the resync channel of a datasync watcher and reflects    *)
(* the events into a named mapping, of whose names it is the only writer;  *)
(* other goroutines may keep names of their own in the same mapping.       *)
(* An event can be any: which ones come, and in which order, is KvdbSync's *)
(* part.                                                                   *)
(***************************************************************************)
EXTENDS NamedMapping

CONSTANTS Keys, ParseName, NoName,  \* ParseName[k]: the name in key k, NoName on error
          Garbled,                  \* a value that does not unmarshal into the prototype
          Helper,                   \* the goroutine of DoWatching
          MaxEvents                 \* bound: events

\* The names the helper writes, and nobody else does.
Cached == {n \in Names : WriterOf[n] = {Helper}}
ASSUME ParseAssumption == ParseName \in [Keys -> Cached \cup {NoName}] /\ NoName \notin Names
ASSUME GarbledAssumption == Garbled \notin Objs \cup {None}

VARIABLES
    job,    \* the event being handled
    given,  \* given[k]: the value of key k in it (None: the key is not in it)
    todo,   \* keys of the resync event not read from its iterator yet
    err,    \* wasError
    events, \* number of events so far
    done    \* what Done() was called with last

hvars == <<job, given, todo, err, events, done>>
allvars == <<vars, hvars>>

NoEvent == [k \in Keys |-> None]
Listed == {k \in Keys : given[k] # None}
Parsable(ks) == {k \in ks : ParseName[k] # NoName}

\* GetValue into a clone of the prototype.  Its error is ignored: of a value that does
\* not unmarshal the prototype is left, filled in part or not at all.
Clones(v) == IF v = Garbled THEN Objs ELSE {v}

HInit ==
    /\ Init
    /\ job = "none" /\ given = NoEvent /\ todo = {} /\ err = FALSE
    /\ events = 0 /\ done = "none"

\* case dataChng := <-changeChan: a Put, or a Delete (v = None), if the key parses.
DoChange(k, v) ==
    /\ job = "none" /\ events < MaxEvents
    /\ job' = "change" /\ given' = [NoEvent EXCEPT ![k] = v]
    /\ todo' = {k} /\ err' = FALSE /\ done' = "none" /\ events' = events + 1
    /\ LET n == ParseName[k] IN
         \/ n # NoName /\ v # None /\ \E o \in Clones(v) : Put(Helper, n, o)
         \/ n # NoName /\ v = None /\ Delete(Helper, n)
         \/ n = NoName /\ UNCHANGED vars
         \/ n # NoName /\ v = None /\ GetValue(n) = None /\ UNCHANGED vars

\* DoChange has returned: its err is another variable than the one ParseName
\* assigned, hence nil.
ChangeDone ==
    /\ job = "change" /\ Free(Helper)
    /\ job' = "none" /\ done' = "nil"
    /\ UNCHANGED <<given, todo, err, events>> /\ UNCHANGED vars

\* case resyncEv := <-resyncChan, with the prefix among its values.
DoResync(m) ==
    /\ job = "none" /\ events < MaxEvents
    /\ job' = "resync" /\ given' = m
    /\ todo' = {k \in Keys : m[k] # None} /\ err' = FALSE /\ done' = "none" /\ events' = events + 1
    /\ UNCHANGED vars

\* Mutant: the loop ends at the first key that does not parse.
ResyncStops(k) ==
    /\ job = "resync" /\ Free(Helper) /\ k \in todo
    /\ LET n == ParseName[k] IN
         \/ /\ n # NoName /\ todo' = todo \ {k}
            /\ \E o \in Clones(given[k]) : Put(Helper, n, o)
            /\ UNCHANGED err
         \/ n = NoName /\ err' = TRUE /\ todo' = {} /\ UNCHANGED vars
    /\ UNCHANGED <<job, given, events, done>>

\* One round of the loop over the iterator.
ResyncItem(k) ==
    /\ job = "resync" /\ Free(Helper) /\ k \in todo
    /\ todo' = todo \ {k}
    /\ LET n == ParseName[k] IN
         \/ n # NoName /\ (\E o \in Clones(given[k]) : Put(Helper, n, o)) /\ UNCHANGED err
         \/ n = NoName /\ err' = TRUE /\ UNCHANGED vars
    /\ UNCHANGED <<job, given, events, done>>

\* Step 2 deletes nothing (existingNames is empty); then Done(wasError).
ResyncDone ==
    /\ job = "resync" /\ Free(Helper) /\ todo = {}
    /\ job' = "none" /\ done' = IF err THEN "error" ELSE "nil"
    /\ UNCHANGED <<given, todo, err, events>> /\ UNCHANGED vars

EventValues == Objs \cup {None, Garbled}
Resyncs == [Keys -> EventValues]
HelperStep ==
    \/ ChangeDone \/ ResyncDone
    \/ \E k \in Keys : ResyncItem(k) \/ \E v \in EventValues : DoChange(k, v)
    \/ \E m \in Resyncs : DoResync(m)
\* The owners of the other names, and all goroutines' notifications.
MappingStep ==
    /\ UNCHANGED hvars
    /\ \/ \E w \in Writers \ {Helper}, n \in Names \ Cached : Delete(w, n) \/ \E o \in Objs : Put(w, n, o)
       \/ \E w \in Writers : WriterStep(w)
       \/ Environment
HNext == HelperStep \/ MappingStep
HSpec == HInit /\ [][HNext]_allvars

\* The helper's goroutine runs and its timers fire; new events, reading
\* subscribers and changing objects are not assumed.
HFairSpec ==
    /\ HSpec
    /\ WF_allvars(ChangeDone \/ ResyncDone \/ \E k \in Keys : ResyncItem(k))
    /\ WF_allvars(UNCHANGED hvars /\ WriterStep(Helper))

----------------------------------------------------------------------------
(* Properties. *)

\* The shapes of the helper's state.
HTypeOK == /\ TypeOK /\ job \in {"none", "change", "resync"} /\ todo \subseteq Keys
           /\ done \in {"none", "nil", "error"} /\ err \in BOOLEAN
           /\ given \in Resyncs

\* When a resync is confirmed, every key of the event that parses is in the cache,
\* with the event's value if that could be read, and the confirmation is an error
\* exactly if some key did not parse.  (A value that could not be read is not reported.)
ResyncConfirmed ==
    [][(job = "resync" /\ job' = "none") =>
          /\ \A k \in Parsable(Listed) : nameToIdx[ParseName[k]] \in Clones(given[k])
          /\ done' = "error" <=> Listed # Parsable(Listed)]_allvars

\* A subscriber that missed nothing holds what the cache holds when the event
\* is confirmed and its channel is empty.
WatchersFollow ==
    job = "none" => \A s \in complete : queue[s] = <<>> => \A n \in Cached : mirror[s][n] = nameToIdx[n]

\* Every event is confirmed although a subscriber of the cache may stop reading its
\* channel: ToChan gives up after two seconds.  (No subscriber's callback blocks.)
EventConfirmed == job # "none" ~> job = "none"

\* Every event is confirmed; what parses and can be read is in the cache by then, the
\* watchers have been notified, and a resync reports the keys that did not parse.
EventsHandled == EventConfirmed /\ ResyncConfirmed /\ []WatchersFollow

\* The keys of the event that could not be reflected into the cache.
Failed ==
    LET ks == IF job = "change" THEN todo ELSE Listed IN
    (ks \ Parsable(ks)) \cup {k \in ks : given[k] = Garbled}

\* events.go, CallbackResult: "whether an operation was successful (error is
\* nil) or unsuccessful (error is not nil)".
ErrorsReported ==
    [][(job # "none" /\ job' = "none") => (done' = "error" <=> Failed # {})]_allvars
=============================================================================
