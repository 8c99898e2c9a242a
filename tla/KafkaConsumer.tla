---------------------------- MODULE KafkaConsumer ----------------------------
(***************************************************************************)
(* The consuming half of the Kafka multiplexer (messaging/kafka/mux) over  *)
(* the client's Consumer (messaging/kafka/client).  Connections subscribe  *)
(* to topics before Start and to partitions at any time; message handlers, *)
(* one for the consumer group and one per partition consumer, hand each    *)
(* message to one of two loops over a channel without a buffer; a loop     *)
(* calls the callbacks of all matching subscriptions with the multiplexer's*)
(* lock held for reading.  The lock is Go's RWMutex: a call that waits to  *)
(* write shuts out new readers.  A handler gives up after one second, a    *)
(* callback made by ToBytesMsgChan or ToProtoMsgChan after two.            *)
(*                                                                         *)
(* A message is known by its topic, partition and offset.  The plugin      *)
(* leaves RecvError and RecvNotification off, so the handlers of errors    *)
(* and notifications never run.  safeclose does not close the partition    *)
(* consumers (it is given a pointer to an interface): they are left out of *)
(* the subscriptions.                                                      *)
(***************************************************************************)
EXTENDS Naturals, Sequences, FiniteSets, SequencesExt, FiniteSetsExt

CONSTANTS Conns,        \* connections; each has one callback, into a channel of its own
          Topics, Parts,
          Requests,     \* the subscriptions the applications ask for, and stop again
          Cap,          \* capacity of the applications' channels
          MaxMessages, MaxRestarts  \* bounds: messages published, restarts

\* A subscription: of a topic, or of a partition from an offset on.  name is the
\* connection that made it, clb the one whose callback it calls.
TopicSub(c, t) == [manual |-> FALSE, topic |-> t, part |-> 0, offset |-> 0, name |-> c, clb |-> c]
PartitionSub(c, t, p, o) == [manual |-> TRUE, topic |-> t, part |-> p, offset |-> o, name |-> c, clb |-> c]

ASSUME ConsumerAssumption ==
    /\ Cap \in Nat \ {0} /\ MaxMessages \in Nat /\ MaxRestarts \in Nat
    /\ \A s \in Requests : \E c \in Conns, t \in Topics, p \in Parts, o \in 0..MaxMessages :
          s \in {TopicSub(c, t), PartitionSub(c, t, p, o)}

TPs == Topics \X Parts
Cluster == <<"cluster">>             \* the handler of the consumer group
Handlers == {Cluster} \cup TPs       \* and those of the partition consumers
Loops == {"generic", "manual"}
Idle == <<>>                         \* no message in hand

VARIABLES
    mapping,   \* the sequence of subscriptions
    started, consumer, \* the multiplexer: started flag, and its consumer "nil", "open" or "closed"
    waiting,   \* some call waits to have the lock for writing
    topics,    \* the topics the consumer group consumes
    children,  \* partitions that have a partition consumer (sarama allows one)
    running,   \* handlers that run
    pos,       \* pos[h][tp]: offset handler h takes next
    held,      \* held[h]: the message the handler tries to hand over
    loop,      \* loop[l]: "none", "idle", "got" (a message, not yet the lock), "busy" or "ended"
    job,       \* job[l]: message a busy loop propagates, how far, whom it has called
    room,      \* room[c]: free places in the application's channel
    end,       \* end[tp]: messages published
    committed, \* committed[tp]: the offset of the consumer group
    read,      \* messages that some application has got into its channel
    restarts

muxVars == <<mapping, started, consumer, topics, children, waiting>>
brokerVars == <<end, committed, restarts>>
vars == <<mapping, started, consumer, topics, children, waiting, running, pos, held, loop, job, room,
          end, committed, read, restarts>>

NoJob == [msg |-> Idle, i |-> 1, called |-> <<>>, want |-> <<>>]

\* NewMultiplexer, in a process that has just begun.
Init ==
    /\ mapping = <<>> /\ started = FALSE /\ consumer = "nil" /\ topics = {} /\ children = {} /\ waiting = FALSE
    /\ running = {} /\ pos = [h \in Handlers |-> [tp \in TPs |-> 0]] /\ held = [h \in Handlers |-> Idle]
    /\ loop = [l \in Loops |-> "none"] /\ job = [l \in Loops |-> NoJob] /\ room = [c \in Conns |-> Cap]
    /\ end = [tp \in TPs |-> 0] /\ committed = [tp \in TPs |-> 0] /\ read = {} /\ restarts = 0

\* Some loop holds the lock for reading: who wants it for writing has to wait.
Locked == \E l \in Loops : loop[l] = "busy"

\* A call waits for the lock while a loop is busy.
WriterWaits ==
    /\ Locked /\ ~waiting /\ waiting' = TRUE
    /\ UNCHANGED <<mapping, started, consumer, topics, children, running, pos, held, loop, job, room, read>>
    /\ UNCHANGED brokerVars

\* A call has the lock for writing.
Writes == ~Locked /\ waiting' = FALSE

\* A call that changes nothing: Start or ConsumeTopic after Start, or a stop that finds
\* no subscription.
WriterRefused ==
    /\ waiting /\ Writes
    /\ UNCHANGED <<mapping, started, consumer, topics, children, running, pos, held, loop, job, room, read>>
    /\ UNCHANGED brokerVars

----------------------------------------------------------------------------
(* Subscriptions. *)

TP(s) == <<s.topic, s.part>>
SameSource(s, u) == /\ s.manual = u.manual /\ s.topic = u.topic
                    /\ s.manual => s.part = u.part /\ s.offset = u.offset

\* The mapping with subscription s: one that exists already gets the new callback
\* and keeps its connection's name.
subscribe(s) ==
    LET same(u) == SameSource(s, u) IN
    IF \E i \in DOMAIN mapping : same(mapping[i])
    THEN [mapping EXCEPT ![SelectInSeq(mapping, same)].clb = s.clb]
    ELSE Append(mapping, s)

\* ConsumeTopic (Watch), bytes and proto: refused once the multiplexer is started.
\* A call with several topics does this for each of them.
ConsumeTopic(s) ==
    /\ Writes /\ ~s.manual /\ ~started
    /\ mapping' = subscribe(s)
    /\ UNCHANGED <<started, consumer, topics, children, running, pos, held, loop, job, room, read>>
    /\ UNCHANGED brokerVars

\* sarama.Consumer.ConsumePartition can succeed: one consumer per partition, and
\* no offset in the future.  (It may also fail for reasons of the broker.)
Consumable(tp, o, open) == tp \notin open /\ o <= end[tp]

\* ConsumePartition (WatchPartition), bytes and proto.  After Start it starts a
\* partition consumer (StartPostInitConsumer); the subscription stays when that fails.
ConsumePartition(s) ==
    /\ Writes /\ s.manual /\ consumer # "closed"
    /\ mapping' = subscribe(s)
    /\ \/ UNCHANGED <<children, running, pos>>
       \/ /\ started /\ consumer = "open" /\ Consumable(TP(s), s.offset, children)
          /\ children' = children \cup {TP(s)} /\ running' = running \cup {TP(s)}
          /\ pos' = [pos EXCEPT ![TP(s)][TP(s)] = s.offset]
    /\ UNCHANGED <<started, consumer, topics, held, loop, job, room, read>>
    /\ UNCHANGED brokerVars

Stops(s, u) == SameSource(s, u) /\ u.name = s.name

\* Mutant: the append begins one cell too late.
StopSkipping(st, i, s) ==
    IF Stops(s, st.arr[i])
    THEN [arr |-> [j \in DOMAIN st.arr |-> IF i <= j /\ j + 1 < st.len THEN st.arr[j + 2] ELSE st.arr[j]],
          len |-> IF i < st.len THEN st.len - 2 ELSE st.len - 1]
    ELSE st

\* One turn of the removal in place: the loop ranges over the array it began with
\* (arr, whose cells append moves) while the mapping is its first len cells.
StopAt(st, i, s) ==
    IF Stops(s, st.arr[i])
    THEN [arr |-> [j \in DOMAIN st.arr |-> IF i <= j /\ j < st.len THEN st.arr[j + 1] ELSE st.arr[j]],
          len |-> st.len - 1]
    ELSE st

\* The mapping after the loop.
removed(s) ==
    LET last == FoldLeft(LAMBDA st, i : StopAt(st, i, s), [arr |-> mapping, len |-> Len(mapping)], [i \in DOMAIN mapping |-> i])
    IN SubSeq(last.arr, 1, last.len)

\* Mutant: without the lock.
StopUnlocked(s) ==
    /\ consumer # "closed" /\ UNCHANGED waiting
    /\ \E i \in DOMAIN mapping : Stops(s, mapping[i])
    /\ mapping' = removed(s)
    /\ UNCHANGED <<started, consumer, topics, children, running, pos, held, loop, job, room, read>>
    /\ UNCHANGED brokerVars

\* stopConsuming and stopConsumingPartition; an error when nothing matches.  The
\* partition consumer goes on: safeclose.Close has no case for it.
StopConsuming(s) ==
    /\ Writes /\ consumer # "closed"
    /\ \E i \in DOMAIN mapping : Stops(s, mapping[i])
    /\ mapping' = removed(s)
    /\ UNCHANGED <<started, consumer, topics, children, running, pos, held, loop, job, room, read>>
    /\ UNCHANGED brokerVars

----------------------------------------------------------------------------
(* Start and Close. *)

ManualSubs == SelectSeq(mapping, LAMBDA s : s.manual)
\* The first n manual subscriptions get their partition consumers.
FirstConsumable(n) ==
    \A i \in 1..n : Consumable(TP(ManualSubs[i]), ManualSubs[i].offset, {TP(ManualSubs[j]) : j \in 1..(i-1)})

\* NewConsumer fails: the multiplexer counts as started, without a consumer.
StartNoConsumer ==
    /\ Writes /\ ~started /\ started' = TRUE
    /\ UNCHANGED <<mapping, consumer, topics, children, running, pos, held, loop, job, room, read>>
    /\ UNCHANGED brokerVars

\* Start: the group's handler runs if some topic is consumed through the group,
\* yet the group gets the manual topics too.  A partition that cannot be consumed
\* ends Start with an error: the handlers run, the loops do not.
Start(n) ==
    /\ Writes /\ ~started /\ started' = TRUE
    /\ n <= Len(ManualSubs) /\ FirstConsumable(n)
    /\ consumer' = "open" /\ topics' = {s.topic : s \in ToSet(mapping)}
    /\ children' = {TP(ManualSubs[i]) : i \in 1..n}
    /\ running' = children' \cup IF \E s \in ToSet(mapping) : ~s.manual THEN {Cluster} ELSE {}
    /\ pos' = [h \in Handlers |-> IF h = Cluster THEN committed ELSE
                 [tp \in TPs |-> IF \E i \in 1..n : h = tp /\ TP(ManualSubs[i]) = tp
                    THEN ManualSubs[CHOOSE i \in 1..n : TP(ManualSubs[i]) = tp].offset ELSE 0]]
    /\ loop' = IF n = Len(ManualSubs) THEN [l \in Loops |-> "idle"] ELSE loop
    /\ UNCHANGED <<mapping, held, job, room, read>>
    /\ UNCHANGED brokerVars

\* Multiplexer.Close, Consumer.Close: an error of the group does not keep the
\* deferred function from closing closeChannel.
Close ==
    /\ consumer = "open" /\ consumer' = "closed"
    /\ UNCHANGED <<mapping, started, waiting, topics, children, running, pos, held, loop, job, room, read>>
    /\ UNCHANGED brokerVars

----------------------------------------------------------------------------
(* Handlers and loops. *)

Takes(h, tp) == IF h = Cluster THEN tp[1] \in topics ELSE h = tp

\* messageHandler: the next message of its channel.
HandlerTakes(h, tp) ==
    /\ h \in running /\ held[h] = Idle /\ Takes(h, tp) /\ pos[h][tp] < end[tp]
    /\ held' = [held EXCEPT ![h] = <<tp[1], tp[2], pos[h][tp]>>]
    /\ pos' = [pos EXCEPT ![h][tp] = @ + 1]
    /\ UNCHANGED <<running, loop, job, room, read>> /\ UNCHANGED muxVars /\ UNCHANGED brokerVars

\* propagateMessage: subscription s gets message m.
Matches(s, m) == s.topic = m[1] /\ (s.manual => s.part = m[2] /\ m[3] >= s.offset)

\* The callbacks a message is for, in the order of the mapping.
Receivers(m) == LET subs == SelectSeq(mapping, LAMBDA s : Matches(s, m)) IN [i \in DOMAIN subs |-> subs[i].clb]

\* RecvMessageChan <- consumerMsg, received by genericConsumer or manualConsumer.
HandOver(h, l) ==
    /\ held[h] # Idle /\ loop[l] = "idle"
    /\ loop' = [loop EXCEPT ![l] = "got"] /\ job' = [job EXCEPT ![l].msg = held[h]]
    /\ held' = [held EXCEPT ![h] = Idle]
    /\ UNCHANGED <<running, pos, room, read>> /\ UNCHANGED muxVars /\ UNCHANGED brokerVars

\* propagateMessage gets the lock for reading, unless a writer waits for it.
propagateMessage(l) ==
    /\ loop[l] = "got" /\ ~waiting
    /\ loop' = [loop EXCEPT ![l] = "busy"] /\ job' = [job EXCEPT ![l].want = Receivers(job[l].msg)]
    /\ UNCHANGED <<running, pos, held, room, read>> /\ UNCHANGED muxVars /\ UNCHANGED brokerVars

\* "Failed to deliver a message": no loop was there to take it for one second.
HandlerGivesUp(h) ==
    /\ held[h] # Idle /\ \A l \in Loops : loop[l] # "idle"
    /\ held' = [held EXCEPT ![h] = Idle]
    /\ UNCHANGED <<running, pos, loop, job, room, read>> /\ UNCHANGED muxVars /\ UNCHANGED brokerVars

HandlerEnds(h) ==
    /\ h \in running /\ held[h] = Idle /\ consumer = "closed"
    /\ running' = running \ {h}
    /\ UNCHANGED <<pos, held, loop, job, room, read>> /\ UNCHANGED muxVars /\ UNCHANGED brokerVars

\* The subscriptions still to be visited that match.
ToVisit(l) == {i \in job[l].i..Len(mapping) : Matches(mapping[i], job[l].msg)}

\* byteConsMsg of the next one: the message goes to its channel ...
Deliver(l) ==
    /\ loop[l] = "busy" /\ ToVisit(l) # {}
    /\ LET i == Min(ToVisit(l)) c == mapping[i].clb IN
         /\ room[c] > 0 /\ room' = [room EXCEPT ![c] = @ - 1]
         /\ job' = [job EXCEPT ![l].i = i + 1, ![l].called = Append(@, c)]
    /\ read' = read \cup {job[l].msg}
    /\ UNCHANGED <<running, pos, held, loop>> /\ UNCHANGED muxVars /\ UNCHANGED brokerVars

\* Mutant: the callback waits for room.
DeliverNeverTimesOut(l) == FALSE

\* ... or is dropped after two seconds without room ("Unable to deliver message").
DeliverTimesOut(l) ==
    /\ loop[l] = "busy" /\ ToVisit(l) # {}
    /\ LET i == Min(ToVisit(l)) IN
         /\ room[mapping[i].clb] = 0
         /\ job' = [job EXCEPT ![l].i = i + 1, ![l].called = Append(@, mapping[i].clb)]
    /\ UNCHANGED <<running, pos, held, loop, room, read>> /\ UNCHANGED muxVars /\ UNCHANGED brokerVars

\* The end of propagateMessage.
Propagated(l) ==
    /\ loop[l] = "busy" /\ ToVisit(l) = {}
    /\ loop' = [loop EXCEPT ![l] = "idle"] /\ job' = [job EXCEPT ![l] = NoJob]
    /\ UNCHANGED <<running, pos, held, room, read>> /\ UNCHANGED muxVars /\ UNCHANGED brokerVars

LoopEnds(l) ==
    /\ loop[l] = "idle" /\ consumer = "closed" /\ loop' = [loop EXCEPT ![l] = "ended"]
    /\ UNCHANGED <<running, pos, held, job, room, read>> /\ UNCHANGED muxVars /\ UNCHANGED brokerVars

----------------------------------------------------------------------------
(* Applications, the broker, and the death of the process. *)

AppReads(c) ==
    /\ room[c] < Cap /\ room' = [room EXCEPT ![c] = @ + 1]
    /\ UNCHANGED <<running, pos, held, loop, job, read>> /\ UNCHANGED muxVars /\ UNCHANGED brokerVars

\* MarkOffset of a message that was read, then CommitOffsets or the periodic commit
\* of the group's client; the group's offset only moves forward.  A mark that is not
\* committed before the process ends leaves no trace: the step is taken at the commit.
CommitOffsets(m) ==
    /\ consumer = "open" /\ m \in read /\ m[1] \in topics /\ m[3] >= committed[<<m[1], m[2]>>]
    /\ committed' = [committed EXCEPT ![<<m[1], m[2]>>] = m[3] + 1]
    /\ UNCHANGED <<end, restarts>>
    /\ UNCHANGED <<running, pos, held, loop, job, room, read>> /\ UNCHANGED muxVars

Publish(tp) ==
    /\ FoldFunction(+, 0, end) < MaxMessages
    /\ end' = [end EXCEPT ![tp] = @ + 1]
    /\ UNCHANGED <<committed, restarts>>
    /\ UNCHANGED <<running, pos, held, loop, job, room, read>> /\ UNCHANGED muxVars

\* The process ends, closed or not, and comes up again.
Restart ==
    /\ restarts < MaxRestarts /\ started /\ restarts' = restarts + 1
    /\ mapping' = <<>> /\ started' = FALSE /\ consumer' = "nil" /\ topics' = {} /\ children' = {} /\ waiting' = FALSE
    /\ running' = {} /\ pos' = [h \in Handlers |-> [tp \in TPs |-> 0]] /\ held' = [h \in Handlers |-> Idle]
    /\ loop' = [l \in Loops |-> "none"] /\ job' = [l \in Loops |-> NoJob] /\ room' = [c \in Conns |-> Cap]
    /\ UNCHANGED <<end, committed, read>>

----------------------------------------------------------------------------
HandlerStep(h) == HandlerGivesUp(h) \/ HandlerEnds(h) \/ (\E tp \in TPs : HandlerTakes(h, tp)) \/ \E l \in Loops : HandOver(h, l)
LoopStep(l) == propagateMessage(l) \/ Deliver(l) \/ DeliverTimesOut(l) \/ Propagated(l) \/ LoopEnds(l)

Next ==
    \/ \E s \in Requests : ConsumeTopic(s) \/ ConsumePartition(s) \/ StopConsuming(s)
    \/ WriterWaits \/ WriterRefused \/ StartNoConsumer \/ (\E n \in 0..Len(mapping) : Start(n)) \/ Close
    \/ \E h \in Handlers : HandlerStep(h)
    \/ \E l \in Loops : LoopStep(l)
    \/ \E c \in Conns : AppReads(c)
    \/ \E m \in read : CommitOffsets(m)
    \/ (\E tp \in TPs : Publish(tp)) \/ Restart

Spec == Init /\ [][Next]_vars

(***************************************************************************)
(* Fairness: goroutines run, timers fire, and a call that waits for the    *)
(* lock gets it when the readers have left it (and then returns).  For the *)
(* readers that wait meanwhile Go promises more: they get in before the    *)
(* next writer.  Nothing is assumed of the applications.                   *)
(***************************************************************************)
FairSpec ==
    /\ Spec /\ WF_vars(WriterRefused)
    /\ \A h \in Handlers : WF_vars(HandlerStep(h))
    /\ \A l \in Loops : WF_vars(LoopStep(l))

----------------------------------------------------------------------------
(* Properties. *)

\* The shapes of the state; no channel exceeds its capacity.
TypeOK ==
    /\ started \in BOOLEAN /\ consumer \in {"nil", "open", "closed"}
    /\ children \subseteq TPs /\ running \subseteq Handlers /\ topics \subseteq Topics
    /\ waiting \in BOOLEAN /\ loop \in [Loops -> {"none", "idle", "got", "busy", "ended"}]
    /\ room \in [Conns -> 0..Cap]
    /\ \A h \in Handlers, tp \in TPs : pos[h][tp] <= end[tp]

\* There is one subscription per topic, and one per partition and offset: without
\* it the removal in place would skip subscriptions or cut the mapping short.
UniqueSubs == \A i, j \in DOMAIN mapping : i # j => ~SameSource(mapping[i], mapping[j])

\* A stop that succeeds takes away the caller's subscription, and nothing else,
\* although the loop moves the array it ranges over.
StopRemovesOne ==
    [][\A s \in Requests :
          StopConsuming(s) => /\ mapping' = SelectSeq(mapping, LAMBDA u : ~Stops(s, u))
                              /\ Len(mapping') = Len(mapping) - 1]_vars

\* Subscribing and stopping, by several connections and callbacks, keep one
\* subscription per source and take away exactly the caller's.
SubscriptionsKept == []UniqueSubs /\ StopRemovesOne

\* A loop has called, when it is through with a message, exactly the callbacks that
\* were subscribed when it got the lock, in order: nobody is added, removed or skipped
\* while callbacks block.
CallsAllReceivers == \A l \in Loops : (loop[l] = "busy" /\ ToVisit(l) = {}) => job[l].called = job[l].want

\* A loop gets through with a message although no application reads, and although
\* calls that wait to write shut it out; and these get the lock too.
LockIsReleased ==
    /\ \A l \in Loops : loop[l] \in {"got", "busy"} ~> loop[l] \notin {"got", "busy"}
    /\ waiting ~> ~waiting

\* A handler never keeps a message for good, also after a Start that failed half way
\* and left handlers without a loop to take their messages.
HandlersGoOn == \A h \in Handlers : held[h] # Idle ~> held[h] = Idle

\* Close ends all handlers and loops, whatever the group answers when it is left.
CloseEndsAll == (consumer = "closed") ~> (running = {} /\ \A l \in Loops : loop[l] \in {"none", "ended"})

\* No message, full channel, failed Start or waiting writer stops the consumer: loops
\* and handlers get through with what they hold, and Close ends them.
DeliveryGoesOn == LockIsReleased /\ HandlersGoOn /\ CloseEndsAll

\* mux/config.go, InitMultiplexer: "Kafka allows to store last read offset for a groupId. This
\* is leveraged to deliver unread messages after restart": what no application has
\* received is not behind the committed offset when the process restarts.
UnreadIsKept ==
    [][Restart => \A tp \in TPs : \A o \in 0..MaxMessages : o < committed[tp] => <<tp[1], tp[2], o>> \in read]_vars
=============================================================================
