--------------------------- MODULE MCKafkaProducer ---------------------------
\* Three messages; the hash partitioner would spread them over both partitions.
EXTENDS KafkaProducer, TLC
CONSTANTS m1, m2, m3
MCHashOf == (m1 :> 1 @@ m2 :> 0 @@ m3 :> 1)
=============================================================================
