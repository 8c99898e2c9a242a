------------------------------ MODULE MCSetup ------------------------------
(***************************************************************************)
(* Three independent parts of setting up an agent and its clients, one of  *)
(* which a behaviour is about: NewAgent for up to three flavors with       *)
(* shared, separate or missing local flavors and up to two options; the    *)
(* clients made of configuration files; the statements of the SQL broker   *)
(* on a table with two keys.                                               *)
(***************************************************************************)
EXTENDS Flavors, SqlBroker, ClientConfigs

L == <<"local", 1>>
L2 == <<"local", 2>>
R == <<"rpc", 1>>
R2 == <<"rpc", 2>>
C == <<"conn", 1>>
C2 == <<"conn", 2>>
U == <<"user", 1>>
V == <<"user", 2>>

Custom(n) == <<<<"user", 0>>, n>>
F(name, what, val) == [name |-> name, what |-> what, val |-> val]

\* U embeds the RPC and the connector flavor next to its own plugins; it points to the HTTP plugin
\* once more, and has a nil plugin, a nil flavor and a field that is neither.
MCUserFields == (U :> <<F("FlavorRPC", "flavor", R), F("AllConnectorsFlavor", "flavor", C), F("Server", "plugin", <<R, "HTTP">>),
                        F("Mine", "plugin", Custom("mine")), F("Unset", "plugin", Nil), F("NoFlavor", "flavor", Nil),
                        F("Name", "other", Nil)>>)
             @@ (V :> <<F("FlavorLocal", "flavor", L), F("Kafka", "plugin", Custom("kafka")), F("Mine", "plugin", Custom("mine"))>>)

FlavorLists == {<<f>> : f \in {L, R, C, U, V}} \cup {<<f, g>> : f, g \in {L, R, C, U, V, R2, C2}}
                  \cup {<<L, R, C>>, <<C, R, L>>, <<R, C, V>>, <<V, C, R>>}
\* Local flavors given to R and C; R2 and C2 are given L.
LocalsOf(r, c) == [f \in {L, L2, R, C, R2, C2, U, V} |->
    IF f \in {R2, C2} THEN L ELSE IF f = R THEN r ELSE IF f = C THEN c ELSE Nil]

Opts == {[opt |-> "timeout", value |-> v] : v \in {0, 2}} \cup {[opt |-> "logger"],
         [opt |-> "plugin", name |-> "my-plugin", plugin |-> Custom("my")],
         [opt |-> "plugins", name |-> "my-plugins", plugin |-> Custom("mys"), kind |-> "rpc", need |-> "GRPC"],
         [opt |-> "plugins", name |-> "my-plugins", plugin |-> Custom("mys"), kind |-> "conn", need |-> "ETCD"]}
OptLists == {<<>>} \cup {<<o>> : o \in Opts} \cup
            {<<[opt |-> "timeout", value |-> 2], [opt |-> "plugins", name |-> "my-plugins", plugin |-> Custom("mys"), kind |-> "rpc", need |-> "GRPC"]>>}

MCSetups == {[flavors |-> fs, local |-> LocalsOf(r, c), opts |-> <<>>] :
                fs \in {x \in FlavorLists : Len(x) = 1 \/ x[1] # x[2]}, r \in {L, Nil}, c \in {L, L2, Nil}}
            \cup {[flavors |-> fs, local |-> LocalsOf(L, L), opts |-> os] :
                fs \in {<<R>>, <<C>>, <<U>>, <<C, R>>}, os \in OptLists}
----------------------------------------------------------------------------
\* The name of the second structure has an index.
Fd(name, upper, cql, pk, kind) == [name |-> name, upper |-> upper, cql |-> cql, pk |-> pk, kind |-> kind, index |-> FALSE]
MCStructs == { <<Fd("ID", TRUE, "", TRUE, "value"), Fd("Secret", TRUE, "-", FALSE, "value"), Fd("Name", TRUE, "last_name", FALSE, "value"),
                 Fd("own", FALSE, "", FALSE, "value"), Fd("Tags", TRUE, "", FALSE, "slice")>>,
               <<Fd("Opt", TRUE, "", FALSE, "ptr"), Fd("ID", TRUE, "", TRUE, "value"),
                 [Fd("Name", TRUE, "", FALSE, "value") EXCEPT !.index = TRUE]>> }

----------------------------------------------------------------------------
Files == [cert : {"", "good", "bad"}, key : {"", "good"}, ca : {"", "good", "bad"}, skip : BOOLEAN]
MCEtcdConfs == [kind : {"etcd"}, endpoints : {<<>>, <<"a", "b">>}, env : {<<>>, <<"c">>}, insecure : BOOLEAN, tls : Files,
                dial : {0, 2}, op : {0}]
MCRedisConfs == [kind : {"redis"}, parses : BOOLEAN, master : {"", "m"}, endpoint : {"", "a"}, endpoints : {<<>>, <<"a", "b">>},
                 enabled : BOOLEAN, tls : Files]
Hosts == [host : {"a", "b"}, colon : {TRUE}, number : {TRUE}, port : {9042, 9043}]
          \cup [host : {"a"}, colon : BOOLEAN, number : {FALSE}, port : {0}]
One(h) == <<[host |-> h, colon |-> TRUE, number |-> TRUE, port |-> 9042]>>
MCCassandraConfs == [kind : {"cassandra"}, port : {0, 9044}, endpoints : {<<>>, <<<<>>>>, <<One("a"), One("b")>>}
                         \cup {<<<<h>>>> : h \in Hosts} \cup {<<<<h, i>>>> : h, i \in Hosts},
                     op : {ns(0, 0), ns(7, 2)}, dial : {ns(0, 0), ns(3, 9)}, redial : {ns(0, 0), ns(3, 1)}, proto : {0, 3}]

----------------------------------------------------------------------------
VARIABLE part

AnySetup == CHOOSE s \in Setups : TRUE
AnyStruct == CHOOSE s \in Structs : TRUE
AnyConf == CHOOSE c \in CassandraConfs : TRUE

MCInit ==
    /\ part \in {"flavors", "sql", "configs"} /\ Init /\ SqlInit /\ ConfInit
    /\ part # "flavors" => setup = AnySetup
    /\ part # "sql" => struct = AnyStruct
    /\ part # "configs" => conf = AnyConf

MCNext ==
    \/ part = "flavors" /\ Next /\ UNCHANGED <<part, sqlVars, clientVars>>
    \/ part = "sql" /\ SqlNext /\ UNCHANGED <<part, vars, clientVars>>
    \/ part = "configs" /\ ConfNext /\ UNCHANGED <<part, vars, sqlVars>>

MCSpec == MCInit /\ [][MCNext]_<<part, vars, sqlVars, clientVars>>
=============================================================================
