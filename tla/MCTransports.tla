----------------------------- MODULE MCTransports -----------------------------
EXTENDS Transports

\* One application that watches two prefixes with a key each, over all transports.
OneSub == {"s1"}
TwoKeys == {"k1", "k2"}
TwoPrefixes == {"p1", "p2"}
OneKeyEach == [p \in TwoPrefixes |-> IF p = "p1" THEN {"k1"} ELSE {"k2"}]
Watches == [s \in OneSub |-> TwoPrefixes]

AllTraffic == {"txn", "rest", "stream", "put"}

\* A gRPC client writes a key, then another one, and deletes the first again.
Changes == <<[key |-> "k1", val |-> 1], [key |-> "k2", val |-> 1], [key |-> "k1", val |-> 0]>>

\* A local client writes both keys and may delete the second.
PutsAndDelete == {[key |-> "k1", val |-> 1], [key |-> "k2", val |-> 1], [key |-> "k2", val |-> 0]}

TwoWriters == <<"pub1", "pub2">>
=============================================================================
