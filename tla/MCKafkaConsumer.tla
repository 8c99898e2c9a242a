--------------------------- MODULE MCKafkaConsumer ---------------------------
\* Two connections that share a topic, and a partition at two offsets.
EXTENDS KafkaConsumer
CONSTANTS c1, c2
MCRequests == {TopicSub(c1, "t"), TopicSub(c2, "t"), PartitionSub(c1, "t", 0, 0), PartitionSub(c2, "t", 0, 1)}
\* Topics only.
MCTopicRequests == {TopicSub(c1, "t")}
=============================================================================
