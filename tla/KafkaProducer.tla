---------------------------- MODULE KafkaProducer ----------------------------
(***************************************************************************)
(* The producing half of the Kafka plugin: Init makes two clients and four *)
(* producers over ONE configuration object, connections send messages      *)
(* through them, and the answers to asynchronous messages come back        *)
(* through the producers' handlers and the multiplexer's two watch loops,  *)
(* which share the channels of that configuration.  Close closes the       *)
(* clients and the synchronous producers; AsyncProducer.Close is variadic, *)
(* so safeclose does not know it and the asynchronous producers, their     *)
(* handlers and the watch loops outlive Close.                             *)
(*                                                                         *)
(* The bytes and the proto connections are one: the proto ones marshal     *)
(* first, and an error of that is returned before anything is sent.  Their *)
(* callbacks are wrapped, so they must not be nil.                         *)
(***************************************************************************)
EXTENDS Naturals, Sequences, FiniteSets

CONSTANTS Msgs,      \* messages the applications send, each once
          Partitions,
          HashOf,    \* HashOf[m]: partition the hash partitioner gives the key of m
          None

ASSUME ProducerAssumption == HashOf \in [Msgs -> Partitions] /\ 0 \in Partitions /\ None \notin Partitions

\* The kinds of connections, each with a client and two producers.
Kinds == {"hash", "manual"}
Loops == {"hashLoop", "manualLoop"}

VARIABLES
    done,      \* how many steps of Init have been taken
    init,      \* "running", "ok" or "failed"
    conf,      \* the shared configuration: partitioner and required acks
    client,    \* client[k]: "nil", "open" or "closed"
    acks,      \* acks[p]: the acks producer p was made with
    sync,      \* sync[k]: the synchronous producer: "nil", "open" or "closed"
    at,        \* at[m]: where message m is
    via,       \* via[m]: kind of the connection
    asked,     \* asked[m]: the partition in the message
    stored,    \* stored[m]: the partition it is stored in, or None
    answer,    \* answer[m]: what sarama has answered, or "none"
    calls      \* calls[m]: the callbacks called for m, or the results returned

initVars == <<done, init, conf, client, acks, sync>>
msgVars == <<at, via, asked, stored, answer, calls>>
vars == <<done, init, conf, client, acks, sync, at, via, asked, stored, answer, calls>>

Producers == {"hashSync", "hashAsync", "manSync", "manAsync"}

Init ==
    /\ done = 0 /\ init = "running" /\ conf = [partitioner |-> "hash", acks |-> "unset"]
    /\ client = [k \in Kinds |-> "nil"] /\ acks = [p \in Producers |-> "unset"] /\ sync = [k \in Kinds |-> "nil"]
    /\ at = [m \in Msgs |-> <<"idle">>] /\ via = [m \in Msgs |-> "hash"] /\ asked = [m \in Msgs |-> 0]
    /\ stored = [m \in Msgs |-> None] /\ calls = [m \in Msgs |-> <<>>]
    /\ answer = [m \in Msgs |-> "none"]

----------------------------------------------------------------------------
(* Plugin.Init, InitMultiplexerWithConfig. *)

\* Mutant: the manual client first.
ClientsSwapped(n) == IF n = 1 THEN "manual" ELSE "hash"
\* Plugin.Init makes the hash client, then the manual one.
ClientOf(n) == IF n = 1 THEN "hash" ELSE "manual"

\* client.NewClient: the configuration gets fresh channels, no acks, and the
\* partitioner of this client, for the other client as well: both keep the pointer.
NewClient(n) ==
    /\ init = "running" /\ done = n - 1 /\ n \in 1..2 /\ done' = n
    /\ conf' = [partitioner |-> ClientOf(n), acks |-> "unset"]
    /\ client' = [client EXCEPT ![ClientOf(n)] = "open"]
    /\ UNCHANGED <<init, acks, sync>> /\ UNCHANGED msgVars

ProducerOf(n) == <<"hashSync", "hashAsync", "manSync", "manAsync">>[n - 2]
DefaultAcks(p) == IF p \in {"hashSync", "manSync"} THEN "all" ELSE "local"

\* Acks that are not set get the producer's default, in the configuration all of
\* them share.  (SetPartitioner sets a field the sarama configuration does not see.)
Acks(p) == IF conf.acks = "unset" THEN DefaultAcks(p) ELSE conf.acks
MakeProducer(n) ==
    /\ init = "running" /\ done = n - 1 /\ done' = n
    /\ LET p == ProducerOf(n) IN conf' = [conf EXCEPT !.acks = Acks(p)] /\ acks' = [acks EXCEPT ![p] = Acks(p)]

NewSyncProducer(n) ==
    /\ n \in {3, 5} /\ MakeProducer(n)
    /\ sync' = [sync EXCEPT ![IF n = 3 THEN "hash" ELSE "manual"] = "open"]
    /\ UNCHANGED <<init, client>> /\ UNCHANGED msgVars

\* After the last of them NewMultiplexer starts the watch loops.
NewAsyncProducer(n) ==
    /\ n \in {4, 6} /\ MakeProducer(n)
    /\ init' = IF n = 6 THEN "ok" ELSE "running"
    /\ UNCHANGED <<client, sync>> /\ UNCHANGED msgVars

\* Any of them may fail: Init returns the error.
InitFails ==
    /\ init = "running" /\ init' = "failed"
    /\ UNCHANGED <<done, conf, client, acks, sync>> /\ UNCHANGED msgVars

\* SyncProducer.Close, for the producers of a multiplexer.
SyncClosed == IF init = "ok" THEN [k \in Kinds |-> "closed"] ELSE sync

\* Plugin.Close: the clients, then the multiplexer, if there is one.
Close ==
    /\ init \in {"ok", "failed"} /\ init' = "closed"
    /\ client' = [k \in Kinds |-> IF client[k] = "open" THEN "closed" ELSE client[k]]
    /\ sync' = SyncClosed
    /\ UNCHANGED <<done, conf, acks>> /\ UNCHANGED msgVars

----------------------------------------------------------------------------
(* Sending. *)

\* sarama's partitioner, from the shared configuration.
PartitionOf(m, p) == IF conf.partitioner = "manual" THEN p ELSE HashOf[m]

\* The connection with the hash partitioner sends to DefPartition.
Asks(k) == IF k = "hash" THEN {0} ELSE Partitions

\* SendMsgToPartition: the message names the partition the connection asks for.
Enters(m, k, p) ==
    at[m] = <<"idle">> /\ p \in Asks(k) /\ via' = [via EXCEPT ![m] = k] /\ asked' = [asked EXCEPT ![m] = p]

Told(ok) == IF ok THEN "success" ELSE "error"

\* SendSyncMessage, SendSyncMessageToPartition, sendSyncMessage and the publishers'
\* Put: the call returns when the broker has acknowledged the message, or an error.
SendSync(m, k, p, ok) ==
    /\ init = "ok" /\ Enters(m, k, p)
    /\ at' = [at EXCEPT ![m] = <<"done">>]
    /\ stored' = [stored EXCEPT ![m] = IF ok THEN PartitionOf(m, p) ELSE None]
    /\ answer' = [answer EXCEPT ![m] = Told(ok)]
    /\ calls' = [calls EXCEPT ![m] = <<Told(ok)>>]
    /\ UNCHANGED initVars

\* SendAsyncMessage, SendAsyncMessageToPartition, sendAsyncMessage, Put: the message
\* goes to the producer's input; applications may still send after Close.
SendAsync(m, k, p) ==
    /\ init = "ok" \/ (init = "closed" /\ done = 6)
    /\ Enters(m, k, p) /\ at' = [at EXCEPT ![m] = <<"input">>]
    /\ UNCHANGED <<stored, answer, calls>> /\ UNCHANGED initVars

\* The broker stores a message that has been sent.  Its acknowledgement may be late or
\* lost: the sender may have been told an error by then.  (sarama's retries may store
\* it again, in the same partition.)
BrokerStores(m) ==
    /\ at[m] # <<"idle">> /\ stored[m] = None
    /\ stored' = [stored EXCEPT ![m] = PartitionOf(m, asked[m])]
    /\ UNCHANGED <<at, via, asked, answer, calls>> /\ UNCHANGED initVars

\* The broker acknowledges a message it has stored, or the producer gives an error, with
\* or without a client and whether or not the message is stored.
Answer(m, ok) ==
    /\ at[m] = <<"input">> /\ (ok => client[via[m]] = "open" /\ stored[m] # None)
    /\ at' = [at EXCEPT ![m] = <<Told(ok)>>]
    /\ answer' = [answer EXCEPT ![m] = Told(ok)]
    /\ UNCHANGED <<via, asked, stored, calls>> /\ UNCHANGED initVars

\* Messages that the handler of producer k for answers r holds.
Holding(k, r) == {m \in Msgs : via[m] = k /\ at[m] = <<"held", r>>}

\* successHandler and errorHandler: one message at a time, until a loop takes it.
HandlerTakes(m, r) ==
    /\ at[m] = <<r>> /\ Holding(via[m], r) = {}
    /\ at' = [at EXCEPT ![m] = <<"held", r>>]
    /\ UNCHANGED <<via, asked, stored, answer, calls>> /\ UNCHANGED initVars

\* Mutant: each loop serves its own producer only, and that of the manual one is missing.
WatchHash(m, r, l) ==
    /\ via[m] = "hash" /\ at[m] = <<"held", r>> /\ \A o \in Msgs : at[o] # <<l>>
    /\ at' = [at EXCEPT ![m] = <<l>>]
    /\ calls' = [calls EXCEPT ![m] = Append(@, r)]
    /\ UNCHANGED <<via, asked, stored, answer>> /\ UNCHANGED initVars

\* watchAsyncProducerChannels, watchManualAsyncProducerChannels: either loop gets
\* the answer, whichever producer it is from, and calls the callback of its kind.
Watch(m, r, l) ==
    /\ at[m] = <<"held", r>> /\ \A o \in Msgs : at[o] # <<l>>
    /\ at' = [at EXCEPT ![m] = <<l>>]
    /\ calls' = [calls EXCEPT ![m] = Append(@, r)]
    /\ UNCHANGED <<via, asked, stored, answer>> /\ UNCHANGED initVars

\* The callback returns: the answer is in the application's channel, or two seconds
\* have passed.
CallbackReturns(m) ==
    /\ \E l \in Loops : at[m] = <<l>>
    /\ at' = [at EXCEPT ![m] = <<"done">>]
    /\ UNCHANGED <<via, asked, stored, answer, calls>> /\ UNCHANGED initVars

----------------------------------------------------------------------------
Answers == {"success", "error"}
MsgStep(m) ==
    \/ BrokerStores(m) \/ \E ok \in BOOLEAN : Answer(m, ok)
    \/ \E r \in Answers : HandlerTakes(m, r) \/ \E l \in Loops : Watch(m, r, l)
    \/ CallbackReturns(m)

Next ==
    \/ \E n \in 1..6 : NewClient(n) \/ NewSyncProducer(n) \/ NewAsyncProducer(n)
    \/ InitFails \/ Close
    \/ \E m \in Msgs, k \in Kinds, p \in Partitions : SendAsync(m, k, p) \/ \E ok \in BOOLEAN : SendSync(m, k, p, ok)
    \/ \E m \in Msgs : MsgStep(m)

Spec == Init /\ [][Next]_vars

(***************************************************************************)
(* Fairness: the broker answers (or the producer's own timeout does), the  *)
(* handlers and loops run, and callbacks return.  Each message passes once, *)
(* so that weak fairness keeps none waiting for good.                      *)
(***************************************************************************)
FairSpec ==
    /\ Spec
    /\ \A m \in Msgs : /\ WF_vars(\E ok \in BOOLEAN : Answer(m, ok)) /\ WF_vars(CallbackReturns(m))
                       /\ WF_vars(\E r \in Answers : HandlerTakes(m, r))
                       /\ WF_vars(\E r \in Answers, l \in Loops : Watch(m, r, l))

----------------------------------------------------------------------------
(* Properties. *)

\* The shapes of the state; a loop calls one callback at a time.
TypeOK ==
    /\ done \in 0..6 /\ init \in {"running", "ok", "failed", "closed"}
    /\ client \in [Kinds -> {"nil", "open", "closed"}] /\ sync \in [Kinds -> {"nil", "open", "closed"}]
    /\ stored \in [Msgs -> Partitions \cup {None}] /\ answer \in [Msgs -> Answers \cup {"none"}]
    /\ \A l \in Loops : Cardinality({m \in Msgs : at[m] = <<l>>}) <= 1

\* The sender of a message hears of it at most once, whichever loop tells it, and what
\* it hears is what sarama answered: success only when the message is stored.  (After
\* an error it may be stored too: nobody can tell.)
HeardOnce ==
    \A m \in Msgs : calls[m] # <<>> =>
        calls[m] = <<answer[m]>> /\ (answer[m] = "success" => stored[m] # None)

\* A message sent to a partition is stored there: the connections with the manual
\* partitioner rely on their client being made last.
StoredWhereAsked ==
    \A m \in Msgs : (via[m] = "manual" /\ stored[m] # None) => stored[m] = asked[m]

\* A sender hears of its message once, never of a success that has not happened, and
\* the message is where it was asked to be.
SentAsTold == HeardOnce /\ StoredWhereAsked

\* The sender of an asynchronous message gets its answer, also when the plugin is
\* closed meanwhile.
AnswersArrive == \A m \in Msgs : at[m] = <<"input">> ~> calls[m] # <<>>

\* multiplexer.go: "hashSyncProducer with hash partitioner used by the Multiplexer".
HashIsUsed == \A m \in Msgs : (via[m] = "hash" /\ stored[m] # None) => stored[m] = HashOf[m]
=============================================================================
