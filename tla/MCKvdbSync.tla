----------------------------- MODULE MCKvdbSync -----------------------------
EXTENDS KvdbSync

\* Two subscriptions, each with a key of its own.
TwoSubs == {"s1", "s2"}
TwoKeys == {"k1", "k2"}
OwnKeys == [s \in TwoSubs |-> IF s = "s1" THEN {"k1"} ELSE {"k2"}]

\* Two subscriptions, nothing stored under the prefix of the second.
OneKey == {"k1"}
EmptyPrefix == [s \in TwoSubs |-> IF s = "s1" THEN OneKey ELSE {}]
=============================================================================
