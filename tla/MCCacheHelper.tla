---------------------------- MODULE MCCacheHelper ----------------------------
EXTENDS CacheHelper

\* The index function of pluginstatusmap: a plugin in INIT (0) has no term.
States == {"INIT", "OK"}
StateTerms == {<<"stateKey", "OK">>}
IndexPluginStatus == [st \in States |-> IF st = "INIT" THEN {} ELSE {<<"stateKey", st>>}]

\* A name the helper caches and one that another goroutine keeps.
TwoNames == {"n1", "n2"}
TwoWriters == {"helper", "w"}
OneWriterEach == [n \in TwoNames |-> IF n = "n1" THEN {"helper"} ELSE {"w"}]
Bounds == [w \in TwoWriters |-> IF w = "w" THEN 1 ELSE 3]

\* A key that parses and one that does not.
TwoKeys == {"k1", "bad"}
Parse == [k \in TwoKeys |-> IF k = "k1" THEN "n1" ELSE "?"]
=============================================================================
