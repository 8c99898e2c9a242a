------------------------------ MODULE Transports ------------------------------
(***************************************************************************)
(* The transports on top of the registry of SyncRegistry: transactions of  *)
(* a local client (kvdbsync/local), requests of the REST adapter, the      *)
(* gRPC adapter's stream of changes, the adapter that watches several      *)
(* transports at once (CompositeKVProtoWatcher) and the one that writes to *)
(* several (CompositeKVProtoWriter), with the publisher of msgsync.        *)
(*                                                                         *)
(* The REST adapter and the local client share the registry of             *)
(* SyncRegistry, the gRPC adapter has one of its own; an application that  *)
(* watches both gets all events on one channel.  `traffic' says which kind *)
(* of client is active in a behaviour.                                     *)
(***************************************************************************)
EXTENDS SyncRegistry

CONSTANTS Traffic,    \* the kinds of clients to look at
          Stream,     \* marks the events of the gRPC stream
          Script,     \* the changes a gRPC client sends: [key, val] records; val 0 deletes
          Ops,        \* the operations of a local transaction: [key, val] records; val 0 deletes
          Writers     \* the transports of CompositeKVProtoWriter, in order

ASSUME TransportsAssumption ==
    /\ Traffic \subseteq {"txn", "rest", "stream", "put"}
    /\ Stream \notin Calls /\ Nobody \notin Calls
    /\ \A o \in Ops : o.key \in Keys /\ o.val \in Nat
    /\ Script \in Seq([key : Keys, val : Nat]) /\ Writers \in Seq(ToSet(Writers))

VARIABLES
    traffic,
    items,     \* the items of the transaction: from some keys to values; 0 deletes
    holder,    \* the call whose Commit holds the transaction's lock
    answer,    \* answer[c]: the answer of HTTP request c
    routes,    \* the prefixes with HTTP handlers
    reg,       \* reg[s]: the application's watch over all transports
    gsubs,     \* the subscriptions of the gRPC adapter
    stream,    \* the changes DataChanges has still to receive
    gloop,     \* the events of the change it has received that it has still to send
    got,       \* got[k]: the last change of k received
    gview,     \* gview[s]: what the application has learnt from gRPC events
    glate,     \* subscriptions made after the first change
    pub,       \* pub[w]: "disabled", "early" (no adapter yet) or "ready"
    put        \* the Put under way: [at, wasError, told]

txnVars == <<items, holder>>
restVars == <<answer, routes>>
grpcVars == <<gsubs, stream, gloop, got, gview, glate>>
putVars == <<pub, put>>
tvars == <<vars, traffic, items, holder, answer, routes, reg, gsubs, stream, gloop, got, gview, glate, pub, put>>

\* told: the writers' answers so far; "skipped" for a disabled one.
NoPut == [at |-> 0, wasError |-> FALSE, told |-> <<>>]

TInit ==
    /\ Init
    /\ traffic \in Traffic
    /\ items = <<>> /\ holder = Nobody
    /\ answer = [c \in Calls |-> "none"] /\ routes = {}
    /\ reg = [s \in Subs |-> "none"]
    /\ gsubs = {} /\ stream = Script /\ gloop = <<>>
    /\ got = [k \in Keys |-> 0] /\ gview = [s \in Subs |-> [k \in Keys |-> 0]] /\ glate = {}
    /\ pub \in [ToSet(Writers) -> {"disabled", "early"}] /\ put = NoPut
    /\ traffic # "put" => \A w \in ToSet(Writers) : pub[w] = "disabled"

----------------------------------------------------------------------------
(* CompositeKVProtoWatcher over the REST adapter and the gRPC plugin. *)

\* The REST adapter comes first: its handlers are added whatever the registry says,
\* and a name it has already ends the call.
WatchRest(s) ==
    /\ traffic \in {"rest", "stream"} /\ reg[s] \in {"none", "closed", "refused"}
    /\ routes' = routes \cup Wanted[s]
    /\ \/ Watch(s) /\ reg' = [reg EXCEPT ![s] = "joining"]
       \/ lock = Nobody /\ s \in subscriptions /\ UNCHANGED vars /\ reg' = [reg EXCEPT ![s] = "refused"]
    /\ UNCHANGED <<traffic, answer>> /\ UNCHANGED <<txnVars, grpcVars, putVars>>

\* Adapter.Watch of gRPC, on a registry of its own.
GrpcWatch(s) ==
    /\ s \notin gsubs
    /\ gsubs' = gsubs \cup {s}
    /\ glate' = IF stream = Script THEN glate ELSE glate \cup {s}

\* Then gRPC: a name it has already ends the call with an error; the registration
\* with REST stays.
WatchGrpc(s) ==
    /\ reg[s] = "joining"
    /\ \/ GrpcWatch(s) /\ reg' = [reg EXCEPT ![s] = "open"]
       \/ s \in gsubs /\ reg' = [reg EXCEPT ![s] = "refused"] /\ UNCHANGED <<gsubs, glate>>
    /\ UNCHANGED <<vars, traffic, stream, gloop, got, gview>> /\ UNCHANGED <<txnVars, restVars, putVars>>

\* AggregatedRegistration.Close: CloseAll gets the slice as one object, which is
\* nothing it can close.
AggregatedClose(s) ==
    /\ reg[s] = "open"
    /\ reg' = [reg EXCEPT ![s] = "closed"]
    /\ UNCHANGED <<vars, traffic>> /\ UNCHANGED <<txnVars, restVars, grpcVars, putVars>>

\* One of the registrations closed by itself.
CloseOne(s) ==
    /\ reg[s] = "open"
    /\ \/ Close(s) /\ UNCHANGED gsubs
       \/ s \in gsubs /\ gsubs' = gsubs \ {s} /\ UNCHANGED vars
    /\ UNCHANGED <<traffic, reg, stream, gloop, got, gview, glate>> /\ UNCHANGED <<txnVars, restVars, putVars>>

\* AggregatedRegistration.Unregister asks the first registration first, which
\* never answers: the others are not reached.
AggregatedUnregister(s, p) ==
    /\ reg[s] = "open" /\ Unregister(s, p)
    /\ UNCHANGED <<traffic, reg>> /\ UNCHANGED <<txnVars, restVars, grpcVars, putVars>>

----------------------------------------------------------------------------
(* Local transactions: BytesTxn and ProtoTxn, on the registry local.Get(). *)

\* An application that watches the registry alone.
LocalWatch(s) ==
    /\ traffic = "txn" /\ (Watch(s) \/ Close(s) \/ \E p \in KeyPrefixes : Unregister(s, p))
    /\ UNCHANGED <<traffic, reg>> /\ UNCHANGED <<txnVars, restVars, grpcVars, putVars>>

\* The clients make their calls one after the other, and put no item into a
\* transaction that will not be committed again.
CallLeft == \E c \in Calls : place[c] = "idle"
NextCall == CHOOSE c \in Calls : place[c] = "idle"

\* An item is replaced by a later one for its key, under the transaction's lock.
setItem(k, v) == holder = Nobody /\ items' = [j \in DOMAIN items \cup {k} |-> IF j = k THEN v ELSE items[j]]

\* Put and Delete.
TxnOp(o) ==
    /\ traffic = "txn" /\ CallLeft /\ setItem(o.key, o.val)
    /\ UNCHANGED <<vars, traffic, holder, reg>> /\ UNCHANGED <<restVars, grpcVars, putVars>>

\* Commit calls the function the client gave, PropagateChanges or PropagateResync,
\* with all items, holding the lock; the items stay for the next Commit.
Commit(c) ==
    /\ traffic = "txn" /\ CallLeft /\ c = NextCall /\ holder = Nobody
    /\ PropagateChanges(c, items) \/ PropagateResync(c, items)
    /\ holder' = c
    /\ UNCHANGED <<traffic, items, reg>> /\ UNCHANGED <<restVars, grpcVars, putVars>>

----------------------------------------------------------------------------
(* REST. *)

Routed(k) == \E p \in routes : k \in Matches[p]

\* delMessage: a transaction of one deletion.
RestDelete(c, k) ==
    /\ traffic = "rest" /\ CallLeft /\ c = NextCall /\ Routed(k)
    /\ PropagateChanges(c, [j \in {k} |-> 0])
    /\ answer' = [answer EXCEPT ![c] = "pending"]
    /\ UNCHANGED <<traffic, routes, reg>> /\ UNCHANGED <<txnVars, grpcVars, putVars>>

\* putMessage: its tests of err are the wrong way round.  A body that can be had is
\* not read and the answer is OK; otherwise (requests of an HTTP server have no
\* GetBody) the handler panics and the server drops the connection.
RestPut(c, k) ==
    /\ traffic = "rest" /\ CallLeft /\ c = NextCall /\ Routed(k)
    /\ place' = [place EXCEPT ![c] = "returned"]
    /\ result' = [result EXCEPT ![c] = "sent"]
    /\ \E a \in {"OK", "dropped"} : answer' = [answer EXCEPT ![c] = a]
    /\ UNCHANGED <<fire, partial, left, lastError, lastRev, chan, view, failures, overlap, late>>
    /\ UNCHANGED <<subsVars, resyncVars>>
    /\ UNCHANGED <<traffic, routes, reg>> /\ UNCHANGED <<txnVars, grpcVars, putVars>>

\* The answer of the handler to what Commit returned.
restAnswer(res) == IF res = "error" THEN "error" ELSE "OK"

\* PropagateChanges or PropagateResync returns: Commit unlocks the transaction, the
\* handler answers.
Return(c) ==
    /\ CallReturns(c)
    /\ holder' = IF holder = c THEN Nobody ELSE holder
    /\ answer' = [answer EXCEPT ![c] = IF @ = "pending" THEN restAnswer(result'[c]) ELSE @]
    /\ UNCHANGED <<traffic, items, routes, reg>> /\ UNCHANGED <<grpcVars, putVars>>

\* The goroutines of the calls, and the applications.
CallWorks(c) ==
    /\ CallStep(c)
    /\ UNCHANGED <<traffic, reg>> /\ UNCHANGED <<txnVars, restVars, grpcVars, putVars>>
AppWorks(s) ==
    /\ AppStep(s)
    /\ UNCHANGED <<traffic, reg>> /\ UNCHANGED <<txnVars, restVars, grpcVars, putVars>>

----------------------------------------------------------------------------
(* gRPC: DataChanges, one goroutine for the stream. *)

\* ChangeWatchResp: the event knows no previous value.
streamEvent(s, m) == [sub |-> s, key |-> m.key, val |-> m.val, call |-> Stream, prev |-> 0]

\* The loop receives a change once it has sent the events of the last one, and
\* ranges over the subscriptions and their prefixes without the registry's lock.
Receive ==
    /\ traffic = "stream" /\ stream # <<>> /\ gloop = <<>>
    /\ LET m == Head(stream) IN
         /\ \E q \in SetToSeqs({h \in gsubs \X KeyPrefixes : h[2] \in Wanted[h[1]] /\ m.key \in Matches[h[2]]}) :
              gloop' = [i \in DOMAIN q |-> streamEvent(q[i][1], m)]
         /\ got' = [got EXCEPT ![m.key] = m.val]
    /\ stream' = Tail(stream)
    /\ UNCHANGED <<vars, traffic, reg, gsubs, gview, glate>> /\ UNCHANGED <<txnVars, restVars, putVars>>

\* The client ends the stream or loses it: Recv fails, DataChanges returns.
StreamEnds ==
    /\ traffic = "stream" /\ stream # <<>> /\ gloop = <<>>
    /\ stream' = <<>>
    /\ UNCHANGED <<vars, traffic, reg, gsubs, gloop, got, gview, glate>>
    /\ UNCHANGED <<txnVars, restVars, putVars>>

\* Mutant: an event that finds the channel full is skipped.
SendOrSkip ==
    /\ gloop # <<>>
    /\ LET e == Head(gloop) IN
         chan' = [chan EXCEPT ![e.sub] = IF Len(@) < Cap THEN Append(@, e) ELSE @]
    /\ gloop' = Tail(gloop)
    /\ UNCHANGED <<lastRev, view, failures, overlap, late>> /\ UNCHANGED <<callVars, subsVars, resyncVars>>
    /\ UNCHANGED <<traffic, reg, gsubs, stream, got, gview, glate>> /\ UNCHANGED <<txnVars, restVars, putVars>>

\* sub.ChangeChan <- event: blocks while the channel is full.
Send ==
    /\ gloop # <<>>
    /\ LET e == Head(gloop) IN
         /\ Len(chan[e.sub]) < Cap
         /\ chan' = [chan EXCEPT ![e.sub] = Append(@, e)]
    /\ gloop' = Tail(gloop)
    /\ UNCHANGED <<lastRev, view, failures, overlap, late>> /\ UNCHANGED <<callVars, subsVars, resyncVars>>
    /\ UNCHANGED <<traffic, reg, gsubs, stream, got, gview, glate>> /\ UNCHANGED <<txnVars, restVars, putVars>>

\* An application handles a gRPC event; its Done does nothing, the client gets no reply.
AppHandlesStream(s) ==
    /\ chan[s] # <<>> /\ Head(chan[s]).call = Stream
    /\ gview' = [gview EXCEPT ![s][Head(chan[s]).key] = Head(chan[s]).val]
    /\ chan' = [chan EXCEPT ![s] = Tail(@)]
    /\ UNCHANGED <<lastRev, view, failures, overlap, late>> /\ UNCHANGED <<callVars, subsVars, resyncVars>>
    /\ UNCHANGED <<traffic, reg, gsubs, stream, gloop, got, glate>> /\ UNCHANGED <<txnVars, restVars, putVars>>

----------------------------------------------------------------------------
(* CompositeKVProtoWriter. *)

\* PubPlugin.AfterInit: the publisher is made if there is a topic and the mux gives one;
\* otherwise the adapter stays nil.
AfterInit(w) ==
    /\ traffic = "put" /\ pub[w] = "early"
    /\ pub' = [pub EXCEPT ![w] = "ready"]
    /\ UNCHANGED <<vars, traffic, reg, put>> /\ UNCHANGED <<txnVars, restVars, grpcVars>>

\* The answers PubPlugin.Put may give: nil without writing when the mux is disabled,
\* an error without an adapter, else what the publisher says.
PubAnswers(w) ==
    CASE pub[w] = "disabled" -> {"skipped"} [] pub[w] = "early" -> {"error"} [] OTHER -> {"written", "error"}

PutBegins ==
    /\ traffic = "put" /\ put.at = 0
    /\ put' = [at |-> 1, wasError |-> (Writers = <<>>), told |-> <<>>]
    /\ UNCHANGED <<vars, traffic, reg, pub>> /\ UNCHANGED <<txnVars, restVars, grpcVars>>

\* wasError after one more answer.
wasError(was, a) == was \/ a = "error"

\* The next transport, whatever the ones before it answered.
PutNext ==
    /\ put.at \in DOMAIN Writers
    /\ \E a \in PubAnswers(Writers[put.at]) :
         put' = [at |-> put.at + 1, wasError |-> wasError(put.wasError, a), told |-> Append(put.told, a)]
    /\ UNCHANGED <<vars, traffic, reg, pub>> /\ UNCHANGED <<txnVars, restVars, grpcVars>>

----------------------------------------------------------------------------
TNext ==
    \/ \E s \in Subs : \/ WatchRest(s) \/ WatchGrpc(s) \/ AggregatedClose(s) \/ CloseOne(s)
                       \/ LocalWatch(s) \/ AppWorks(s) \/ AppHandlesStream(s)
                       \/ \E p \in KeyPrefixes : AggregatedUnregister(s, p)
    \/ \E c \in Calls : Return(c) \/ CallWorks(c) \/ Commit(c) \/ \E k \in Keys : RestDelete(c, k) \/ RestPut(c, k)
    \/ \E o \in Ops : TxnOp(o)
    \/ Receive \/ StreamEnds \/ Send
    \/ PutBegins \/ PutNext \/ \E w \in ToSet(Writers) : AfterInit(w)

TSpec == TInit /\ [][TNext]_tvars

(***************************************************************************)
(* Fairness: the goroutines run, the callers' timers fire and the gRPC     *)
(* server serves its stream.  AppsRead: applications handle their events.  *)
(***************************************************************************)
TFairSpec ==
    /\ TSpec
    /\ \A c \in Calls : WF_tvars(CallWorks(c)) /\ WF_tvars(Return(c))
    /\ WF_tvars(Send) /\ WF_tvars(Receive \/ StreamEnds) /\ WF_tvars(PutNext)
AppsRead == \A s \in Subs : WF_tvars(AppWorks(s) \/ AppHandlesStream(s))

----------------------------------------------------------------------------
(* Properties. *)

\* The shapes of the state, SyncRegistry's included; a stream's events wait in a
\* channel only behind its buffer.
TransportsTypeOK ==
    /\ TypeOK /\ traffic \in Traffic
    /\ DOMAIN items \subseteq Keys /\ holder \in Calls \cup {Nobody}
    /\ answer \in [Calls -> {"none", "pending", "OK", "error", "dropped"}] /\ routes \subseteq KeyPrefixes
    /\ reg \in [Subs -> {"none", "joining", "open", "closed", "refused"}] /\ gsubs \subseteq Subs
    /\ \A i \in DOMAIN gloop : gloop[i].sub \in Subs /\ gloop[i].call = Stream

\* A transaction that is being committed does not change under the call: the events
\* under way for a caller that waits carry the items as they are.
CommitIsFrozen ==
    \A c \in Calls : (holder = c /\ place[c] = "wait") =>
        \A e \in ToSet(fire[c]) \cup UNION {ToSet(chan[s]) : s \in Subs} :
            e.call = c => e.key \in DOMAIN items /\ e.val = items[e.key]

\* A REST request is answered with an error only if an application has reported one,
\* and a deletion that is answered OK before the timer has been handled without one.
RequestsAnsweredTruly ==
    \A c \in Calls :
        /\ answer[c] = "error" => c \in failures
        /\ (answer[c] = "OK" /\ result[c] \notin {"timeout", "sent"}) => c \notin failures /\ ~UnderWay(c)

\* Once the events of a gRPC change are handled, an application that has watched from
\* the start of the stream knows the last change of every key it watches: changes
\* are not lost or overtaken, however slow the application is.
StreamFollowed ==
    gloop = <<>> =>
        \A s \in gsubs \ glate : (\A e \in ToSet(chan[s]) : e.call # Stream) =>
            \A k \in UNION {Matches[p] : p \in Wanted[s]} : gview[s][k] = got[k]

\* Applications end up with what their callers and their stream have last said.
ApplicationsFollow == ViewsFollow /\ StreamFollowed

\* An event under way is true: its value is the one being committed, its previous
\* value the one the application has.
EventsTrue == CommitIsFrozen /\ PrevIsKnown

\* The composite Put asks every transport, and returns an error exactly if one of
\* them failed, wherever it is in the list; nil may mean that all were disabled.
PutAnswersTruly ==
    put.at = Len(Writers) + 1 =>
        /\ Len(put.told) = Len(Writers)
        /\ put.wasError <=> Writers = <<>> \/ \E i \in DOMAIN put.told : put.told[i] = "error"

\* The answers that confirmations decide are true: a transaction or a deletion that
\* its collector answers has been handled by everybody, without an error if it
\* returns nil and with one if it returns an error, and the composite Put fails
\* exactly if a transport did.  Two answers are no confirmation and are not covered:
\* the nil after five seconds (FeedbackGiven) and the OK of the REST PUT, a stub.
ConfirmedAnswersTrue == AnswerIsTrue /\ RequestsAnsweredTruly /\ PutAnswersTruly

\* datasync/doc.go:22-25: "Successfully finalized event processing is signaled by
\* sending nil value (meaning no error) via the associated callback."  Its converse,
\* that nil is a confirmation, fails: PropagateChanges returns nil after five seconds.
FeedbackGiven ==
    \A c \in Calls :
        place[c] = "returned" /\ result[c] \in {"nil", "timeout"} => c \notin failures /\ ~UnderWay(c)

\* Applications that read get every event, also those of a call that has returned
\* with a timeout, and those of a stream that has ended.
EventsArrive ==
    AppsRead => /\ \A c \in Calls : UnderWay(c) ~> ~UnderWay(c)
                /\ gloop # <<>> ~> gloop = <<>>

\* A call returns, its transaction is unlocked and its request answered, although
\* applications may never read their channels and an Unregister may hold the
\* registry's lock for good.  (A resync has no timer and may block for good.)
CallsReturn ==
    \A c \in Calls : place[c] = "wait" ~> place[c] = "returned" /\ holder # c /\ answer[c] # "pending"

\* aggregator.go, AggregatedRegistration.Close: "Close every registration under the
\* aggregator."
CloseClosesAll == \A s \in Subs : reg[s] = "closed" => s \notin subscriptions \cup gsubs
=============================================================================
