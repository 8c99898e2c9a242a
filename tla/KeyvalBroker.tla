---------------------------- MODULE KeyvalBroker ----------------------------
(***************************************************************************)
(* The key-value data brokers (db/keyval): a connection to etcd or to      *)
(* Redis, through its bytes API or the typed one of kvproto, next to other *)
(* clients of the same store.  One Watch call watches all prefixes: etcd   *)
(* has a goroutine per prefix, Redis one for all of them, that reads the   *)
(* values behind the notifications, and one that waits for the close       *)
(* channel.  etcd lists and deletes by prefix in one request; Redis scans  *)
(* the keys in batches, and then reads or deletes what it has collected.   *)
(*                                                                         *)
(* The prefix of a broker is part of the keys.  An iterator is the batches *)
(* it gets: GetNext within a batch returns its items in order.  Listing    *)
(* and watching share nothing but the store, so that a behaviour does one  *)
(* at a time: List before Watch.  The previous values that watchers are    *)
(* told are left out (Redis tells the value of the put before, of whatever *)
(* key).                                                                   *)
(***************************************************************************)
EXTENDS Naturals, Sequences, FiniteSets, SequencesExt

CONSTANTS Keys, KeyPrefixes,
          KeysOf,     \* KeysOf[p]: the keys under prefix p
          Vals,       \* values, one of which may be Empty
          Empty, None, \* the value of no bytes; no value
          MaxWrites   \* bound on the changes of the store

ASSUME BrokerAssumption ==
    /\ KeysOf \in [KeyPrefixes -> SUBSET Keys] /\ Cardinality(KeyPrefixes) > 1 /\ None \notin Vals /\ MaxWrites \in Nat
    /\ IsFiniteSet(Keys) /\ IsFiniteSet(KeyPrefixes)

VARIABLES
    kind,     \* "etcd" or "redis"
    store, leased, \* the values in the store, and the keys that have a time to live
    conn,     \* the connection: "open" or "closed"
    watch,    \* watch[g]: goroutine g of the Watch call: "none", "running", "deaf" or "ended"
    queue,    \* queue[g]: events on their way to it
    view,     \* view[g]: what its callback was told of each key, from the store at Watch on
    missed,   \* keys of whose last change the watcher of Redis learns nothing, or not the value
    closeCh, closer, \* the close channel; the goroutine of Redis that waits for it
    iter,     \* the listing or deletion by prefix that is under way
    lost,     \* a Put of the typed API has returned nil and written nothing
    writes

vars == <<kind, store, leased, conn, watch, queue, view, missed, closeCh, closer, iter, lost, writes>>

\* A goroutine is known by the prefixes it watches.
Gs == {{p} : p \in KeyPrefixes} \cup {KeyPrefixes}
Watched(g) == UNION {KeysOf[p] : p \in g}

\* op: what it is for; rest: keys the scan has not passed; batch: keys it has returned;
\* items: key, value and previous value of what the caller has got; since: values a key has
\* had meanwhile; failed: a scan, or with op = "none" the last deletion, had an error.
NoIter == [op |-> "none", prefix |-> None, rest |-> {}, batch |-> {}, items |-> {}, since |-> <<>>, failed |-> FALSE]

Init ==
    /\ kind \in {"etcd", "redis"} /\ store \in [Keys -> Vals \cup {None}] /\ leased = {} /\ conn = "open"
    /\ watch = [g \in Gs |-> "none"] /\ queue = [g \in Gs |-> <<>>] /\ view = [g \in Gs |-> [k \in Keys |-> None]]
    /\ missed = {} /\ closeCh = "open" /\ closer = "none" /\ iter = NoIter /\ lost = FALSE /\ writes = 0

\* The store announces the writes in ks that give it the values of s: puts always,
\* deletions of what was there.  Redis announces once per matching pattern; etcd's
\* goroutines have one prefix each.  No order among them is told apart.
Noted(s, k) == s[k] # None \/ store[k] # None
Announced(s, ks, g) ==
    LET seen == {x \in ks \X g : x[1] \in KeysOf[x[2]] /\ Noted(s, x[1])}
        order == SetToSeq(seen)
    IN [i \in 1..Cardinality(seen) |-> [key |-> order[i][1], val |-> s[order[i][1]]]]

Change(s, ks) ==
    /\ writes < MaxWrites /\ writes' = writes + 1 /\ store' = s
    /\ queue' = [g \in Gs |-> IF watch[g] = "running" /\ conn = "open" THEN queue[g] \o Announced(s, ks, g) ELSE queue[g]]
    /\ missed' = {k \in missed : ~(k \in ks /\ Noted(s, k))}

\* The values an iteration that goes on has seen the keys have.
Since(s) == IF iter.op = "none" THEN iter.since ELSE [k \in Keys |-> iter.since[k] \cup {s[k]}]

Noting(s) == iter' = [iter EXCEPT !.since = Since(s)]

----------------------------------------------------------------------------
(* Writing. *)

\* TTL above zero: etcd needs a lease first, Redis sets it with the value.  A put
\* without it takes the key's former one away.
Leased(k, ttl) == IF ttl THEN leased \cup {k} ELSE leased \ {k}

\* Put of the bytes API; an error is returned, and leaves the store as it is.
Put(k, v, ttl) ==
    /\ conn = "open" /\ Change([store EXCEPT ![k] = v], {k})
    /\ leased' = Leased(k, ttl) /\ Noting(store')
    /\ UNCHANGED <<kind, conn, watch, view, closeCh, closer, lost>>

\* Put of the typed API: whatever Put returns, the answer is nil.
PutProto(k, v, ok) ==
    /\ conn = "open"
    /\ IF ok THEN Change([store EXCEPT ![k] = v], {k}) /\ leased' = Leased(k, FALSE)
             ELSE UNCHANGED <<store, leased, queue, missed, writes>>
    /\ lost' = (lost \/ ~ok) /\ Noting(store')
    /\ UNCHANGED <<kind, conn, watch, view, closeCh, closer>>

\* PutIfNotExists: one transaction of etcd.
PutIfNotExists(k, v) ==
    /\ kind = "etcd" /\ store[k] = None /\ conn = "open" /\ Change([store EXCEPT ![k] = v], {k})
    /\ Noting(store')
    /\ UNCHANGED <<kind, leased, conn, watch, view, closeCh, closer, lost>>

\* The store without the keys of ks.
Erase(ks) ==
    /\ Change([k \in Keys |-> IF k \in ks THEN None ELSE store[k]], ks)
    /\ leased' = leased \ ks
    /\ UNCHANGED <<kind, conn, watch, view, closeCh, closer, lost>>

Delete(k) == conn = "open" /\ store[k] # None /\ Erase({k}) /\ Noting(store')

\* Delete of etcd with the prefix option.
DeletePrefix(p) == kind = "etcd" /\ conn = "open" /\ Erase(KeysOf[p]) /\ Noting(store')

\* The operations of a transaction: the keys it puts, and those it deletes.
Txns == {t \in [puts : SUBSET Keys, dels : SUBSET Keys] : t.puts \cap t.dels = {}}

\* Commit: one transaction of etcd, or MULTI and EXEC.  The typed API gives up
\* before that when a value could not be marshalled.
Commit(t, v) ==
    /\ conn = "open" /\ t.puts \cup t.dels # {}
    /\ Change([k \in Keys |-> IF k \in t.puts THEN v ELSE IF k \in t.dels THEN None ELSE store[k]], t.puts \cup t.dels)
    /\ leased' = leased \ (t.puts \cup t.dels) /\ Noting(store')
    /\ UNCHANGED <<kind, conn, watch, view, closeCh, closer, lost>>

\* Another client writes, and time takes away what has a time to live.
OtherWrites(k, v) ==
    /\ Change([store EXCEPT ![k] = v], {k}) /\ leased' = leased \ {k} /\ Noting(store')
    /\ UNCHANGED <<kind, conn, watch, view, closeCh, closer, lost>>

\* A client of Redis uses another command than SET and DEL, or memory runs out: the
\* payload ("append", "rename_to", "evicted", ...) is not handled by the watcher.
OtherCommand(k, v) ==
    /\ kind = "redis" /\ v # store[k] /\ writes < MaxWrites /\ writes' = writes + 1
    /\ store' = [store EXCEPT ![k] = v] /\ leased' = IF v = None THEN leased \ {k} ELSE leased
    /\ missed' = missed \cup {k} /\ Noting(store')
    /\ UNCHANGED <<kind, conn, watch, queue, view, closeCh, closer, lost>>

Expire(k) == k \in leased /\ Erase({k}) /\ Noting(store')

----------------------------------------------------------------------------
(* Listing, and deletion by prefix in Redis. *)

Begin(op, p) == [NoIter EXCEPT !.op = op, !.prefix = p, !.rest = Keys, !.since = [k \in Keys |-> {store[k]}]]
iterOnly == <<kind, store, leased, conn, watch, queue, view, missed, closeCh, closer, lost, writes>>

\* GetNext on an answer with the keys of ks, in some order: a key, its value and, as the
\* previous value, the value of the key before it.
Pairs(ks) ==
    LET o == SetToSeq(ks)
    IN {<<o[i], store[o[i]], IF i = 1 THEN None ELSE store[o[i - 1]]>> : i \in 1..Cardinality(ks)}

\* ListValues, ListKeys and ListValuesRange of etcd: the items of one answer.
Snapshot(p) == [Begin("list", p) EXCEPT !.rest = {}, !.items = Pairs({k \in KeysOf[p] : store[k] # None})]

\* ListValues and Delete with the prefix option, up to the first request of Redis.
List(p) ==
    /\ conn = "open" /\ iter.op = "none" /\ \A g \in Gs : watch[g] = "none"
    /\ \/ kind = "etcd" /\ iter' = Snapshot(p)
       \/ kind = "redis" /\ \E op \in {"list", "delete"} : iter' = Begin(op, p)
    /\ UNCHANGED iterOnly

Found(b) == {k \in b \cap KeysOf[iter.prefix] : store[k] # None}

\* Mutant: a batch without keys ends the scan.
ScanToEmpty(b) ==
    /\ iter.batch = {} /\ b # {} /\ b \subseteq iter.rest /\ kind = "redis" /\ conn = "open"
    /\ iter' = [iter EXCEPT !.rest = IF Found(b) = {} THEN {} ELSE @ \ b, !.batch = IF iter.op = "list" THEN Found(b) ELSE {},
                            !.items = IF iter.op = "list" THEN @ ELSE @ \cup {<<k, None, None>> : k \in Found(b)}]
    /\ UNCHANGED iterOnly

\* scanKeys: SCAN goes on behind the cursor until it returns keys or is at its end.
\* A deletion collects the keys.
Scan(b) ==
    /\ iter.batch = {} /\ b # {} /\ b \subseteq iter.rest /\ kind = "redis" /\ conn = "open"
    /\ iter' = [iter EXCEPT !.rest = @ \ b, !.batch = IF iter.op = "list" THEN Found(b) ELSE {},
                            !.items = IF iter.op = "list" THEN @ ELSE @ \cup {<<k, None, None>> : k \in Found(b)}]
    /\ UNCHANGED iterOnly

\* getValues: the values of a batch of keys, nil for a key that is gone by now.
getValues ==
    /\ iter.batch # {} /\ conn = "open"
    /\ iter' = [iter EXCEPT !.batch = {}, !.items = @ \cup Pairs(iter.batch)]
    /\ UNCHANGED iterOnly

\* GetNext: an error of a later batch ends the iteration; Delete does not ask for it.
ScanFails ==
    /\ iter.op # "none" /\ (iter.rest # {} \/ iter.batch # {}) /\ kind = "redis"
    /\ iter' = [iter EXCEPT !.rest = {}, !.batch = {}, !.failed = TRUE]
    /\ UNCHANGED iterOnly

\* The caller is through with its listing.
ListEnds == iter.op = "list" /\ iter.rest = {} /\ iter.batch = {} /\ iter' = NoIter /\ UNCHANGED iterOnly

Collected == {i[1] : i \in iter.items}

\* Delete: DEL of all collected keys at once; its error is returned, whether or not the
\* keys have been deleted.
DeleteEnds ==
    /\ iter.op = "delete" /\ iter.rest = {} /\ \E e \in BOOLEAN : iter' = [NoIter EXCEPT !.failed = e]
    /\ \/ Collected # {} /\ conn = "open" /\ Erase(Collected)
       \/ (Collected = {} <=> ~iter'.failed) /\ UNCHANGED iterOnly

----------------------------------------------------------------------------
(* Watching. *)

\* Those one Watch call starts.
Goroutines == IF kind = "etcd" THEN {{p} : p \in KeyPrefixes} ELSE {KeyPrefixes}

Watch ==
    /\ conn = "open" /\ closeCh = "open" /\ iter.op = "none" /\ \A g \in Gs : watch[g] = "none"
    /\ watch' = [g \in Gs |-> IF g \in Goroutines THEN "running" ELSE "none"]
    /\ view' = [g \in Gs |-> IF g \in Goroutines THEN store ELSE view[g]]
    /\ missed' = {} /\ closer' = IF kind = "redis" THEN "waiting" ELSE "none"
    /\ UNCHANGED <<kind, store, leased, conn, queue, closeCh, iter, lost, writes>>

storeVars == <<kind, store, leased, conn, iter, lost, writes>>

\* handleWatchEvent of etcd: a put of no bytes has no value and is passed over.
EtcdEvent(e, v) == IF e.val = Empty THEN v ELSE [v EXCEPT ![e.key] = e.val]

\* Mutant: "expired" is not a payload the watcher knows.
RedisPutEvent(e, v, ok) == IF e.val = None THEN v ELSE [v EXCEPT ![e.key] = IF ok THEN store[e.key] ELSE None]
\* startWatch of Redis: a "set" carries no value, GetValue reads the present one, if
\* any; when that fails nil is told all the same.  "del" and "expired" stand for themselves.
RedisEvent(e, v, ok) == [v EXCEPT ![e.key] = IF e.val = None \/ ~ok THEN None ELSE store[e.key]]

\* Events of key k are under way.
Pending(q, k) == \E n \in DOMAIN q : q[n].key = k

\* What a failing read costs, if no other event of the key comes after it.
Misread(e, q, ok) == IF ok \/ e.val = None \/ Pending(q, e.key) THEN missed ELSE missed \cup {e.key}

\* A goroutine takes an event and calls back.
Deliver(g, ok) ==
    /\ watch[g] = "running" /\ queue[g] # <<>> /\ (kind = "etcd" => ok)
    /\ view' = [view EXCEPT ![g] = IF kind = "etcd" THEN EtcdEvent(Head(queue[g]), @) ELSE RedisEvent(Head(queue[g]), @, ok)]
    /\ queue' = [queue EXCEPT ![g] = Tail(@)] /\ missed' = Misread(Head(queue[g]), Tail(queue[g]), ok)
    /\ UNCHANGED <<watch, closeCh, closer>> /\ UNCHANGED storeVars

\* Whoever unregisters prefix p sends it on the close channel: some goroutine that
\* listens takes it.  In etcd it ends if it is its own prefix; in Redis the one that
\* waits for the channel ends, and the watch goes on.
CloseValue(p, g) ==
    /\ closeCh = "open" /\ watch[g] = "running"
    /\ IF kind = "etcd"
       THEN watch' = [watch EXCEPT ![g] = IF g = {p} THEN "ended" ELSE @] /\ UNCHANGED closer
       ELSE closer = "waiting" /\ closer' = "gone" /\ UNCHANGED watch
    /\ UNCHANGED <<queue, view, missed, closeCh>> /\ UNCHANGED storeVars

\* The application closes the channel.
CloseChannel ==
    /\ closeCh = "open" /\ closeCh' = "closed" /\ \E g \in Gs : watch[g] # "none"
    /\ UNCHANGED <<watch, queue, view, missed, closer>> /\ UNCHANGED storeVars

\* watchInternal of etcd: every goroutine sees the closed channel.
EtcdStops(g) ==
    /\ kind = "etcd" /\ closeCh = "closed" /\ watch[g] = "running"
    /\ watch' = [watch EXCEPT ![g] = "ended"] /\ queue' = [queue EXCEPT ![g] = <<>>]
    /\ UNCHANGED <<view, missed, closeCh, closer>> /\ UNCHANGED storeVars

\* Mutant: the pub/sub connection stays subscribed.
RedisKeepsOn(g) ==
    /\ closer = "waiting" /\ closeCh = "closed" /\ watch[g] = "running" /\ closer' = "gone"
    /\ UNCHANGED <<watch, queue, view, missed, closeCh>> /\ UNCHANGED storeVars

\* watch of Redis: unsubscribe and close the pub/sub connection, unless everything
\* is closed already.  The reading goroutine gets errors from then on.
RedisStops(g) ==
    /\ closer = "waiting" /\ closeCh = "closed" /\ watch[g] = "running" /\ closer' = "gone"
    /\ IF conn = "open" THEN watch' = [watch EXCEPT ![g] = "deaf"] /\ queue' = [queue EXCEPT ![g] = <<>>]
                        ELSE UNCHANGED <<watch, queue>>
    /\ UNCHANGED <<view, missed, closeCh>> /\ UNCHANGED storeVars

\* startWatch: after an error or a message the closed flag ends the goroutine.
RedisEnds(g) ==
    /\ kind = "redis" /\ conn = "closed" /\ watch[g] \in {"running", "deaf"}
    /\ watch' = [watch EXCEPT ![g] = "ended"] /\ queue' = [queue EXCEPT ![g] = <<>>]
    /\ UNCHANGED <<view, missed, closeCh, closer>> /\ UNCHANGED storeVars

\* Close of the connection.  Events that have not been taken are lost.  A goroutine of
\* etcd is not told: its channel of events is closed and it reads nothing from it, over
\* and over.
Close ==
    /\ conn = "open" /\ conn' = "closed" /\ queue' = [g \in Gs |-> <<>>]
    /\ UNCHANGED <<kind, store, leased, watch, view, missed, closeCh, closer, iter, lost, writes>>

----------------------------------------------------------------------------
WatchStep(g) == (\E ok \in BOOLEAN : Deliver(g, ok)) \/ EtcdStops(g) \/ RedisStops(g) \/ RedisEnds(g)

Next ==
    \/ \E k \in Keys, v \in Vals : (\E b \in BOOLEAN : Put(k, v, b) \/ PutProto(k, v, b)) \/ PutIfNotExists(k, v)
    \/ \E k \in Keys : Delete(k) \/ Expire(k) \/ \E v \in Vals \cup {None} : OtherWrites(k, v) \/ OtherCommand(k, v)
    \/ \E t \in Txns, v \in Vals : Commit(t, v)
    \/ \E p \in KeyPrefixes : DeletePrefix(p) \/ List(p) \/ \E g \in Gs : CloseValue(p, g)
    \/ (\E b \in SUBSET Keys : Scan(b)) \/ getValues \/ ScanFails \/ ListEnds \/ DeleteEnds
    \/ Watch \/ CloseChannel \/ Close
    \/ \E g \in Gs : WatchStep(g)

Spec == Init /\ [][Next]_vars

\* Fairness: the watching goroutines run.
FairSpec == Spec /\ \A g \in Gs : WF_vars(WatchStep(g))

----------------------------------------------------------------------------
(* Properties. *)

\* The shapes of the state; only the goroutines of this kind of store run.
TypeOK ==
    /\ store \in [Keys -> Vals \cup {None}] /\ leased \subseteq Keys /\ conn \in {"open", "closed"}
    /\ watch \in [Gs -> {"none", "running", "deaf", "ended"}] /\ \A g \in Gs : watch[g] # "none" => (g = KeyPrefixes <=> kind = "redis")
    /\ iter.batch \subseteq Keys /\ iter.rest \subseteq Keys

\* A watcher that has had all its events knows what is in the store, although the values
\* of Redis are read late and belong to later writes.  Not covered: etcd does not tell
\* of values without bytes, Redis neither of changes by other commands than SET and DEL
\* nor, when GetValue fails, of the value; both until the key is next set or deleted.
ViewsConverge ==
    \A g \in Gs : (watch[g] = "running" /\ queue[g] = <<>> /\ conn = "open") =>
        \A k \in Watched(g) \ missed : view[g][k] = store[k] \/ (kind = "etcd" /\ store[k] = Empty)

\* A listing returns for a key a value it has had since ListValues was called, however
\* its batches mix with writes.  (Its previous value is another matter: PrevOfPair.)
ListedTruly == iter.op = "list" => \A i \in iter.items : i[2] \in iter.since[i[1]]

\* A listing that ends without an error has every key that was there all the time.
StableKeysListed ==
    (iter.op = "list" /\ iter.rest = {} /\ iter.batch = {} /\ ~iter.failed) =>
        \A k \in KeysOf[iter.prefix] : None \notin iter.since[k] => k \in Collected

\* A deletion by prefix that returns no error, and whose scan met none, leaves no key
\* that was there all the time.  (An error of the scan is not returned.)
DeletesStable ==
    [][(iter.op = "delete" /\ iter'.op = "none" /\ ~iter.failed /\ ~iter'.failed) =>
          \A k \in KeysOf[iter.prefix] : None \notin iter.since[k] => store'[k] = None]_vars

\* Listing and deletion by prefix are right about every key that does not change
\* meanwhile, and give no value to another key, in etcd's one step and in Redis' batches.
PrefixesSound == [](ListedTruly /\ StableKeysListed) /\ DeletesStable

\* Closing the channel ends the flow of events: etcd's goroutines return; that of Redis,
\* unless a prefix was sent on the channel before, gets errors only, until Close.
ChannelStopsWatch ==
    (closeCh = "closed" /\ (kind = "redis" => closer = "waiting")) ~> \A g \in Gs : watch[g] # "running"

\* After Close the goroutine of Redis returns, whatever its channel got before or gets
\* afterwards: also when the one that waits for the channel has gone.
CloseEndsWatch == (kind = "redis" /\ conn = "closed") ~> \A g \in Gs : watch[g] \in {"none", "ended"}

\* What ends a watch: the closed channel in etcd, Close in Redis, and the closed channel
\* its events there.  (What does not: KeyClosed and CloseStopsEtcd.)
WatchEnds == ChannelStopsWatch /\ CloseEndsWatch

\* bytes_watcher_api.go:29: "Channel <closeChan> can be used to close watching on
\* respective key".  Fails: another goroutine of etcd may take the prefix, and in Redis
\* the one that does ends alone.
KeyClosed ==
    [][\A p \in KeyPrefixes, g \in Gs : CloseValue(p, g) => \A h \in Gs : p \in h => watch'[h] # "running"]_vars

\* etcdv3/bytes_broker_impl.go:209: "closeCh is a channel closed when Close method is
\* called.It is leveraged to stop go routines from specific subscription".  Fails: Close
\* closes the client only.
CloseStopsEtcd == (kind = "etcd" /\ conn = "closed") ~> \A g \in Gs : watch[g] # "running"

\* etcdv3/bytes_broker_impl.go:464, redis/bytes_broker_impl.go:294: "GetPrevValue returns
\* the previous value of the pair."  Fails for keys that were written once.
PrevOfPair == (iter.op = "list" /\ writes = 0) => \A i \in iter.items : i[3] = None

\* kvproto/proto_broker_impl.go: "It returns an error if the item could not be written, nil otherwise."
PutIsTold == ~lost
=============================================================================
