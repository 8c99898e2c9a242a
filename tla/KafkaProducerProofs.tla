------------------------- MODULE KafkaProducerProofs -------------------------
(***************************************************************************)
(* A sender hears what sarama answered, for any number of messages and     *)
(* partitions.  TypeOK and SentAsTold are not inductive: they do not know  *)
(* that a message on its way back was answered already, that nobody has    *)
(* been told of it yet, and that messages enter only when the manual       *)
(* client has been made.  ProducerInv says where every message is and what *)
(* that place means.                                                       *)
(***************************************************************************)
EXTENDS KafkaProducer, FiniteSetTheorems, TLAPS

\* Where a message can be: with its sender, in a producer, answered, in a handler,
\* with a watch loop, or through.
Places ==
    {<<"idle">>, <<"input">>, <<"success">>, <<"error">>, <<"held", "success">>, <<"held", "error">>,
     <<"hashLoop">>, <<"manualLoop">>, <<"done">>}

Types ==
    /\ done \in 0..6 /\ init \in {"running", "ok", "failed", "closed"}
    /\ client \in [Kinds -> {"nil", "open", "closed"}] /\ sync \in [Kinds -> {"nil", "open", "closed"}]
    /\ conf \in [partitioner : Kinds, acks : {"unset", "all", "local"}]
    /\ at \in [Msgs -> Places] /\ via \in [Msgs -> Kinds] /\ asked \in [Msgs -> Partitions]
    /\ stored \in [Msgs -> Partitions \cup {None}] /\ answer \in [Msgs -> Answers \cup {"none"}]
    /\ calls \in [Msgs -> Seq(Answers)]

\* Messages enter after Init only, and from its second step on the partitioner of the
\* shared configuration is the manual one.
ManualByThen ==
    /\ init = "ok" => done = 6
    /\ done >= 2 => conf.partitioner = "manual"
    /\ \A m \in Msgs : at[m] # <<"idle">> => done = 6

\* A message that is not sent is not stored; an answered one is carried back as what it
\* was answered, and success means stored.
AnswerTrue(m) ==
    /\ at[m] = <<"idle">> => stored[m] = None
    /\ at[m] \in {<<"success">>, <<"held", "success">>} => answer[m] = "success"
    /\ at[m] \in {<<"error">>, <<"held", "error">>} => answer[m] = "error"
    /\ answer[m] = "success" => stored[m] # None

\* Nobody is told before a loop has the message, and then once.
ToldOnce(m) ==
    IF at[m] \in {<<"hashLoop">>, <<"manualLoop">>, <<"done">>}
    THEN calls[m] = <<answer[m]>>
    ELSE calls[m] = <<>>

\* A loop has one message at a time.
OneEach == \A l \in Loops, m, o \in Msgs : at[m] = <<l>> /\ at[o] = <<l>> => m = o

\* The inductive invariant.
ProducerInv ==
    /\ Types /\ ManualByThen /\ OneEach /\ StoredWhereAsked
    /\ \A m \in Msgs : AnswerTrue(m) /\ ToldOnce(m)

----------------------------------------------------------------------------
\* The places of two parts are not those of one.
LEMMA HeldIsApart == \A x, y, z : <<x, y>> # <<z>>
<1> SUFFICES ASSUME NEW x, NEW y, NEW z, <<x, y>> = <<z>> PROVE FALSE
  OBVIOUS
<1>1. Len(<<x, y>>) = 2 /\ Len(<<z>>) = 1
  OBVIOUS
<1> QED BY <1>1

\* A step that takes one message to a place that is no loop, and leaves the others
\* where they are, leaves the loops with one message each.
LEMMA LoopsKept ==
    ASSUME OneEach, NEW m \in Msgs, NEW q, at \in [Msgs -> Places], at' = [at EXCEPT ![m] = q],
           \A l \in Loops : q # <<l>>
    PROVE  OneEach'
<1> SUFFICES ASSUME NEW l \in Loops, NEW a \in Msgs, NEW b \in Msgs, at'[a] = <<l>>, at'[b] = <<l>>
             PROVE  a = b
  BY DEF OneEach
<1>1. a # m /\ b # m
  OBVIOUS
<1>2. at[a] = <<l>> /\ at[b] = <<l>>
  BY <1>1
<1> QED BY <1>2 DEF OneEach

\* Before the first step of Init every message is with its sender, untold.
LEMMA InitInv == Init => ProducerInv
BY ProducerAssumption
   DEF Init, ProducerInv, Types, ManualByThen, OneEach, StoredWhereAsked, AnswerTrue, ToldOnce,
       Places, Kinds, Loops, Answers

\* The steps of Init and Close leave the messages alone, and there is none on its way
\* while Init runs.
LEMMA SetupInv ==
    ASSUME ProducerInv,
           \/ \E n \in 1..6 : NewClient(n) \/ NewSyncProducer(n) \/ NewAsyncProducer(n)
           \/ InitFails \/ Close
    PROVE  ProducerInv'
<1> USE DEF ProducerInv
<1>1. UNCHANGED msgVars
  BY DEF NewClient, NewSyncProducer, NewAsyncProducer, InitFails, Close
<1>2. \A m \in Msgs : AnswerTrue(m)' /\ ToldOnce(m)'
  BY <1>1 DEF msgVars, AnswerTrue, ToldOnce
<1>3. OneEach' /\ StoredWhereAsked'
  BY <1>1 DEF msgVars, OneEach, StoredWhereAsked
<1>4. ASSUME NEW n \in 1..6, NewClient(n) PROVE Types' /\ ManualByThen'
  BY <1>1, <1>4 DEF NewClient, ClientOf, Types, ManualByThen, msgVars, Kinds
<1>5. ASSUME NEW n \in 3..6, MakeProducer(n)
      PROVE  /\ conf' \in [partitioner : Kinds, acks : {"unset", "all", "local"}]
             /\ conf'.partitioner = conf.partitioner /\ done = n - 1 /\ done' = n
  BY <1>5 DEF MakeProducer, Acks, DefaultAcks, Types
<1>6. ASSUME NEW n \in 1..6, NewSyncProducer(n) PROVE Types' /\ ManualByThen'
  <2>1. n \in 3..6 /\ MakeProducer(n)
    BY <1>6 DEF NewSyncProducer
  <2> QED BY <1>1, <1>5, <1>6, <2>1 DEF NewSyncProducer, Types, ManualByThen, msgVars, Kinds
<1>7. ASSUME NEW n \in 1..6, NewAsyncProducer(n) PROVE Types' /\ ManualByThen'
  <2>1. n \in 3..6 /\ MakeProducer(n)
    BY <1>7 DEF NewAsyncProducer
  <2> QED BY <1>1, <1>5, <1>7, <2>1 DEF NewAsyncProducer, Types, ManualByThen, msgVars
<1>8. CASE InitFails
  <2>1. Types' /\ ManualByThen'
    BY <1>1, <1>8 DEF InitFails, Types, ManualByThen, msgVars
  <2> QED BY <1>2, <1>3, <2>1
<1>9. CASE Close
  <2>1. Types' /\ ManualByThen'
    BY <1>1, <1>9 DEF Close, SyncClosed, Types, ManualByThen, msgVars
  <2> QED BY <1>2, <1>3, <2>1
<1> QED BY <1>2, <1>3, <1>4, <1>6, <1>7, <1>8, <1>9

\* A message enters after Init, so that the manual partitioner puts it where it asks.
LEMMA SendInv ==
    ASSUME ProducerInv, NEW m \in Msgs, NEW k \in Kinds, NEW p \in Partitions,
           SendAsync(m, k, p) \/ \E ok \in BOOLEAN : SendSync(m, k, p, ok)
    PROVE  ProducerInv'
<1> USE DEF ProducerInv
<1>1. done = 6 /\ conf.partitioner = "manual" /\ stored[m] = None /\ calls[m] = <<>> /\ at[m] = <<"idle">>
  <2>1. at[m] = <<"idle">> /\ done = 6
    BY DEF SendAsync, SendSync, Enters, ManualByThen
  <2>2. stored[m] = None
    BY <2>1 DEF AnswerTrue
  <2>3. calls[m] = <<>>
    BY <2>1 DEF ToldOnce
  <2> QED BY <2>1, <2>2, <2>3 DEF ManualByThen
<1>2. ManualByThen'
  BY <1>1 DEF SendAsync, SendSync, initVars, ManualByThen
<1>3. CASE SendAsync(m, k, p)
  <2>1. Types'
    BY <1>3 DEF SendAsync, Enters, Types, initVars, Places
  <2>2. OneEach'
    BY <1>3, LoopsKept DEF SendAsync, Types, Loops
  <2>3. StoredWhereAsked'
    BY <1>1, <1>3 DEF SendAsync, Enters, StoredWhereAsked, Types
  <2>4. \A o \in Msgs : AnswerTrue(o)' /\ ToldOnce(o)'
    BY <1>1, <1>3 DEF SendAsync, AnswerTrue, ToldOnce, Types
  <2> QED BY <1>2, <2>1, <2>2, <2>3, <2>4
<1>4. ASSUME NEW ok \in BOOLEAN, SendSync(m, k, p, ok) PROVE ProducerInv'
  <2>1. Types'
    BY <1>1, <1>4 DEF SendSync, Told, Enters, Types, initVars, Places, PartitionOf, Answers
  <2>2. OneEach'
    BY <1>4, LoopsKept DEF SendSync, Types, Loops
  <2>3. StoredWhereAsked'
    BY <1>1, <1>4 DEF SendSync, Enters, StoredWhereAsked, Types, PartitionOf
  <2>4. \A o \in Msgs : AnswerTrue(o)' /\ ToldOnce(o)'
    BY <1>1, <1>4, ProducerAssumption DEF SendSync, Told, AnswerTrue, ToldOnce, Types, PartitionOf
  <2> QED BY <1>2, <2>1, <2>2, <2>3, <2>4
<1> QED BY <1>3, <1>4

\* A message that has been sent is stored where the manual partitioner puts it.
LEMMA StoreInv ==
    ASSUME ProducerInv, NEW m \in Msgs, BrokerStores(m)
    PROVE  ProducerInv'
<1> USE DEF ProducerInv
<1>1. conf.partitioner = "manual" /\ asked[m] \in Partitions /\ asked[m] # None
  BY ProducerAssumption DEF BrokerStores, ManualByThen, Types
<1>2. stored' = [stored EXCEPT ![m] = asked[m]]
  BY <1>1 DEF BrokerStores, PartitionOf
<1>3. Types' /\ ManualByThen' /\ OneEach'
  <2>1. Types'
    BY <1>1, <1>2 DEF BrokerStores, Types, initVars
  <2> QED BY <2>1 DEF BrokerStores, initVars, ManualByThen, OneEach
<1>4. StoredWhereAsked'
  BY <1>1, <1>2 DEF BrokerStores, StoredWhereAsked, Types
<1>5. \A o \in Msgs : AnswerTrue(o)' /\ ToldOnce(o)'
  BY <1>1, <1>2 DEF BrokerStores, AnswerTrue, ToldOnce, Types
<1> QED BY <1>3, <1>4, <1>5

\* An acknowledgement finds the message stored; an error may find it so.
LEMMA AnswerInv ==
    ASSUME ProducerInv, NEW m \in Msgs, NEW ok \in BOOLEAN, Answer(m, ok)
    PROVE  ProducerInv'
<1> USE DEF ProducerInv
<1>1. calls[m] = <<>> /\ at[m] = <<"input">>
  BY DEF Answer, ToldOnce
<1>2. ManualByThen' /\ StoredWhereAsked'
  BY <1>1 DEF Answer, initVars, ManualByThen, StoredWhereAsked
<1>3. PICK r \in Answers : /\ at' = [at EXCEPT ![m] = <<r>>] /\ answer' = [answer EXCEPT ![m] = r]
                           /\ (r = "success" => stored[m] # None)
  BY DEF Answer, Told, Answers
<1>4. Types'
  BY <1>1, <1>3 DEF Answer, Types, initVars, Places, Answers
<1>5. OneEach'
  <2>1. \A l \in Loops : <<r>> # <<l>>
    BY DEF Loops, Answers
  <2> QED BY <1>3, <2>1, LoopsKept DEF Types
<1>6. \A o \in Msgs : AnswerTrue(o)' /\ ToldOnce(o)'
  <2>1. /\ at'[m] = <<r>> /\ answer'[m] = r /\ UNCHANGED <<stored, calls>>
        /\ \A o \in Msgs \ {m} : at'[o] = at[o] /\ answer'[o] = answer[o]
    BY <1>3 DEF Answer, Types
  <2>2. AnswerTrue(m)'
    BY <1>1, <1>3, <2>1, HeldIsApart DEF AnswerTrue, Answers
  <2>3. ToldOnce(m)'
    BY <1>1, <2>1 DEF ToldOnce, Answers
  <2>4. \A o \in Msgs \ {m} : AnswerTrue(o)' /\ ToldOnce(o)'
    BY <2>1 DEF AnswerTrue, ToldOnce
  <2> QED BY <2>2, <2>3, <2>4
<1> QED BY <1>2, <1>4, <1>5, <1>6

\* A handler carries the answer on unchanged.
LEMMA HandlerInv ==
    ASSUME ProducerInv, NEW m \in Msgs, NEW r \in Answers, HandlerTakes(m, r)
    PROVE  ProducerInv'
<1> USE DEF ProducerInv
<1>1. ManualByThen'
  BY DEF HandlerTakes, initVars, ManualByThen, Answers
<1>2. Types'
  BY DEF HandlerTakes, Types, initVars, Places, Answers
<1>3. OneEach' /\ StoredWhereAsked'
  BY HeldIsApart, LoopsKept DEF HandlerTakes, StoredWhereAsked, Types
<1>4. \A o \in Msgs : AnswerTrue(o)' /\ ToldOnce(o)'
  <2>1. at'[m] = <<"held", r>> /\ \A o \in Msgs \ {m} : at'[o] = at[o]
    BY DEF HandlerTakes, Types
  <2>2. calls[m] = <<>> /\ answer[m] = r
    <3>1. CASE r = "error"
      <4>1. at[m] = <<"error">>
        BY <3>1 DEF HandlerTakes
      <4>2. calls[m] = <<>>
        BY <4>1 DEF ToldOnce
      <4> QED BY <3>1, <4>1, <4>2 DEF AnswerTrue
    <3>2. CASE r = "success"
      <4>1. at[m] = <<"success">>
        BY <3>2 DEF HandlerTakes
      <4>2. calls[m] = <<>>
        BY <4>1 DEF ToldOnce
      <4> QED BY <3>2, <4>1, <4>2 DEF AnswerTrue
    <3> QED BY <3>1, <3>2 DEF Answers
  <2>3. AnswerTrue(m)' /\ ToldOnce(m)'
    BY <2>1, <2>2, HeldIsApart DEF HandlerTakes, AnswerTrue, ToldOnce, Answers
  <2>4. \A o \in Msgs \ {m} : AnswerTrue(o)' /\ ToldOnce(o)'
    BY <2>1 DEF HandlerTakes, AnswerTrue, ToldOnce
  <2> QED BY <2>3, <2>4
<1> QED BY <1>1, <1>2, <1>3, <1>4

\* A loop that is free takes an answer and tells it, the first and only time.
LEMMA WatchInv ==
    ASSUME ProducerInv, NEW m \in Msgs, NEW r \in Answers, NEW l \in Loops, Watch(m, r, l)
    PROVE  ProducerInv'
<1> USE DEF ProducerInv
<1>1. calls[m] = <<>> /\ at[m] = <<"held", r>> /\ answer[m] = r
  <2>1. at[m] = <<"held", r>> /\ calls[m] = <<>>
    BY HeldIsApart DEF Watch, ToldOnce
  <2>2. CASE r = "error"
    BY <2>1, <2>2 DEF AnswerTrue
  <2>3. CASE r = "success"
    BY <2>1, <2>3 DEF AnswerTrue
  <2> QED BY <2>1, <2>2, <2>3 DEF Answers
<1>2. calls' = [calls EXCEPT ![m] = <<r>>]
  BY <1>1 DEF Watch
<1>3. ManualByThen'
  BY <1>1 DEF Watch, initVars, ManualByThen, Answers
<1>4. Types'
  BY <1>2 DEF Watch, Types, initVars, Places, Answers, Loops
<1>5. OneEach' /\ StoredWhereAsked'
  <2>1. ASSUME NEW k \in Loops, NEW a \in Msgs, NEW b \in Msgs, at'[a] = <<k>>, at'[b] = <<k>>
        PROVE  a = b
    <3>1. CASE k = l
      BY <2>1, <3>1 DEF Watch, Types
    <3>2. CASE k # l
      <4>1. at'[m] # <<k>>
        BY <3>2 DEF Watch, Types
      <4>2. at[a] = <<k>> /\ at[b] = <<k>>
        BY <2>1, <4>1 DEF Watch, Types
      <4> QED BY <4>2 DEF OneEach
    <3> QED BY <3>1, <3>2
  <2> QED BY <2>1 DEF OneEach, Watch, StoredWhereAsked
<1>6. \A o \in Msgs : AnswerTrue(o)' /\ ToldOnce(o)'
  BY <1>1, <1>2 DEF Watch, AnswerTrue, ToldOnce, Types, Answers, Loops
<1> QED BY <1>3, <1>4, <1>5, <1>6

\* The callback returns: the loop is free again.
LEMMA CallbackInv ==
    ASSUME ProducerInv, NEW m \in Msgs, CallbackReturns(m)
    PROVE  ProducerInv'
<1> USE DEF ProducerInv
<1>1. ManualByThen'
  BY DEF CallbackReturns, initVars, ManualByThen, Loops
<1>2. Types'
  BY DEF CallbackReturns, Types, initVars, Places
<1>3. OneEach' /\ StoredWhereAsked'
  BY LoopsKept DEF CallbackReturns, StoredWhereAsked, Types, Loops
<1>4. \A o \in Msgs : AnswerTrue(o)' /\ ToldOnce(o)'
  BY DEF CallbackReturns, AnswerTrue, ToldOnce, Types, Loops
<1> QED BY <1>1, <1>2, <1>3, <1>4

\* Every step keeps the invariant.
LEMMA NextInv == ProducerInv /\ [Next]_vars => ProducerInv'
<1> SUFFICES ASSUME ProducerInv, [Next]_vars PROVE ProducerInv'
  OBVIOUS
<1>1. CASE UNCHANGED vars
  <2>1. Types' /\ ManualByThen' /\ OneEach' /\ StoredWhereAsked'
    BY <1>1 DEF vars, ProducerInv, Types, ManualByThen, OneEach, StoredWhereAsked
  <2>2. \A m \in Msgs : AnswerTrue(m)' /\ ToldOnce(m)'
    BY <1>1 DEF vars, ProducerInv, AnswerTrue, ToldOnce
  <2> QED BY <2>1, <2>2 DEF ProducerInv
<1>2. CASE Next
  BY <1>2, SetupInv, SendInv, StoreInv, AnswerInv, HandlerInv, WatchInv, CallbackInv DEF Next, MsgStep
<1> QED BY <1>1, <1>2

\* Where every message is, and what that says of it.
THEOREM ProducerInvHolds == Spec => []ProducerInv
<1>1. QED BY InitInv, NextInv, PTL DEF Spec

\* The types of the producing half; a watch loop has at most one message.
THEOREM ProducerTypes == Spec => []TypeOK
<1>1. ASSUME ProducerInv PROVE TypeOK
  <2>1. ASSUME NEW l \in Loops PROVE Cardinality({m \in Msgs : at[m] = <<l>>}) <= 1
    <3>1. CASE {m \in Msgs : at[m] = <<l>>} = {}
      BY <3>1, FS_EmptySet
    <3>2. CASE \E o \in Msgs : at[o] = <<l>>
      <4>1. PICK o \in Msgs : at[o] = <<l>>
        BY <3>2
      <4>2. {m \in Msgs : at[m] = <<l>>} = {o}
        BY <1>1, <4>1 DEF ProducerInv, OneEach
      <4>3. Cardinality({o}) = 1
        BY FS_Singleton
      <4> QED BY <4>2, <4>3
    <3> QED BY <3>1, <3>2
  <2> QED BY <1>1, <2>1 DEF ProducerInv, Types, TypeOK
<1> QED BY <1>1, ProducerInvHolds, PTL

\* A sender hears of its message at most once and what sarama answered, success only
\* of a message that is stored, and what is sent to a partition is stored there:
\* sendSyncMessage, sendAsyncMessage, the handlers and the watch loops of the
\* multiplexer, in every interleaving, with acknowledgements that come late or never.
THEOREM SendersHearTheAnswer == Spec => []SentAsTold
<1>1. ProducerInv => SentAsTold
  BY DEF ProducerInv, AnswerTrue, ToldOnce, SentAsTold, HeardOnce
<1> QED BY <1>1, ProducerInvHolds, PTL
=============================================================================
