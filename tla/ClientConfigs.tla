---------------------------- MODULE ClientConfigs ----------------------------
(***************************************************************************)
(* From the configuration file of a connector to the client that is made   *)
(* of it: etcd, Redis (one node, sentinel or cluster) and Cassandra.  A    *)
(* file of a certificate is "", "good" or "bad".  A duration is m * 10^e   *)
(* nanoseconds, kept as [m, e]: the products leave the range of int64.     *)
(***************************************************************************)
EXTENDS Naturals, FiniteSets, Sequences, SequencesExt

CONSTANTS EtcdConfs, RedisConfs, CassandraConfs   \* configuration files, see the records below

VARIABLES
    conf,     \* the configuration, with the kind of the connector
    client    \* the client, NoClient before it is made

clientVars == <<conf, client>>

NoClient == [made |-> FALSE, err |-> FALSE]
Failed == [made |-> TRUE, err |-> TRUE]
Panicked == [made |-> TRUE, err |-> TRUE, panic |-> TRUE]

\* The records a file is parsed into; a number of a duration has one digit.
TLSFiles == [cert : {"", "good", "bad"}, key : {"", "good", "bad"}, ca : {"", "good", "bad"}, skip : BOOLEAN]
Durations == [m : 0..9, e : Nat]
\* A part of Cassandra's endpoints: a colon, and behind it the number of a port.
HostPorts == [host : STRING, colon : BOOLEAN, number : BOOLEAN, port : Nat]

ASSUME ConfsAssumption ==
    /\ EtcdConfs \subseteq [kind : {"etcd"}, endpoints : Seq(STRING), env : Seq(STRING), insecure : BOOLEAN,
                            tls : TLSFiles, dial : Nat, op : Nat]
    /\ RedisConfs \subseteq [kind : {"redis"}, parses : BOOLEAN, master : STRING, endpoint : STRING,
                             endpoints : Seq(STRING), enabled : BOOLEAN, tls : TLSFiles]
    /\ CassandraConfs \subseteq [kind : {"cassandra"}, endpoints : Seq(Seq(HostPorts)), port : Nat,
                                 op : Durations, dial : Durations, redial : Durations, proto : Nat]

----------------------------------------------------------------------------
(* TLS, the same for etcd and for a Redis node. *)

\* Certificate and key count only together; a file that cannot be loaded is an error.
createTLSConfig(t) ==
    LET pair == t.cert # "" /\ t.key # ""
    IN  [err |-> (pair /\ "bad" \in {t.cert, t.key}) \/ t.ca = "bad",
         certificate |-> pair, roots |-> t.ca # "", skipVerify |-> t.skip]
NoTLS == [err |-> FALSE, certificate |-> FALSE, roots |-> FALSE, skipVerify |-> FALSE]

----------------------------------------------------------------------------
(* etcd: [endpoints, env, insecure, tls, dial, op]. *)

Default(v, d) == IF v # 0 THEN v ELSE d
DefaultDialTimeout == 1
DefaultOpTimeout == 3

EtcdEndpoints(c) == IF c.endpoints # <<>> THEN c.endpoints
                    ELSE IF c.env # <<>> THEN c.env ELSE <<"127.0.0.1:2379">>

\* Mutant: TLS only for a complete pair of certificate and key.
EtcdTLSPair(c) == [on |-> ~c.insecure /\ c.tls.cert # "" /\ c.tls.key # "", conf |-> createTLSConfig(c.tls)]

\* An insecure transport ends the function early; TLS is used only when some file is named.
EtcdTLS(c) ==
    IF c.insecure THEN [on |-> FALSE, conf |-> NoTLS]
    ELSE [on |-> c.tls.cert # "" \/ c.tls.key # "" \/ c.tls.ca # "", conf |-> createTLSConfig(c.tls)]

ConfigToClientv3(c) ==
    IF EtcdTLS(c).conf.err THEN Failed
    ELSE [made |-> TRUE, err |-> FALSE, addrs |-> EtcdEndpoints(c), tls |-> EtcdTLS(c),
          dial |-> Default(c.dial, DefaultDialTimeout), op |-> Default(c.op, DefaultOpTimeout)]

----------------------------------------------------------------------------
(* Redis: [parses, master, endpoint, endpoints, enabled, tls]. *)

\* LoadConfig: a name of a master makes it a sentinel, then an endpoint a node, else it is a cluster.
LoadConfig(c) ==
    CASE ~c.parses -> "err"
      [] c.parses /\ c.master # "" -> "sentinel"
      [] c.parses /\ c.master = "" /\ c.endpoint # "" -> "node"
      [] c.parses /\ c.master = "" /\ c.endpoint = "" -> "cluster"

CreateNodeClient(c) ==
    LET t == IF c.enabled THEN createTLSConfig(c.tls) ELSE NoTLS
    IN  IF t.err THEN Failed
        ELSE [made |-> TRUE, err |-> FALSE, addrs |-> <<c.endpoint>>, tls |-> [on |-> c.enabled, conf |-> t]]
\* Cluster and sentinel clients have no TLS.
CreateClusterClient(c) == [made |-> TRUE, err |-> FALSE, addrs |-> c.endpoints, tls |-> [on |-> FALSE, conf |-> NoTLS]]
CreateSentinelClient(c) == [made |-> TRUE, err |-> FALSE, addrs |-> c.endpoints, tls |-> [on |-> FALSE, conf |-> NoTLS]]

CreateClient(c) == CASE LoadConfig(c) = "err" -> Failed
                     [] LoadConfig(c) = "node" -> CreateNodeClient(c)
                     [] LoadConfig(c) = "cluster" -> CreateClusterClient(c)
                     [] LoadConfig(c) = "sentinel" -> CreateSentinelClient(c)

----------------------------------------------------------------------------
(* Cassandra: [endpoints: strings, each the sequence of the parts that its     *)
(* commas separate, port, op, dial, redial, proto].                            *)

ns(m, e) == [m |-> m, e |-> e]
Millisecond == ns(1, 6)
Second == ns(1, 9)
\* A product beyond int64 wraps to a number that has nothing to do with it.
Wrapped == ns(0, 0)
Times(d, unit) == IF d.e + unit.e >= 19 THEN Wrapped ELSE ns(d.m * unit.m, d.e + unit.e)

\* The defaults are durations already, and are multiplied by the unit like a plain number.
DefaultTimeout == ns(6, 8)
DefaultRedial == ns(6, 10)
TimeoutOf(v) == Times(IF v.m > 0 THEN v ELSE DefaultTimeout, Millisecond)
RedialOf(v) == Times(IF v.m > 0 THEN v ELSE DefaultRedial, Second)

\* A string without any colon is refused.  Then the parts are read in turn: one with no
\* colon is an index out of range, a panic of Init, one with no number an error.  The
\* port of the last one is that of all.
SplitEndpoints(ps) ==
    LET Wrong(i) == ~ps[i].colon \/ ~ps[i].number
        First(i) == Wrong(i) /\ \A j \in DOMAIN ps : j < i => ~Wrong(j)
    IN  [result |-> IF \A i \in DOMAIN ps : ~ps[i].colon THEN "err"
                    ELSE IF \E i \in DOMAIN ps : First(i) /\ ~ps[i].colon THEN "panic"
                    ELSE IF \E i \in DOMAIN ps : Wrong(i) THEN "err" ELSE "ok",
         hosts |-> [i \in DOMAIN ps |-> ps[i].host], port |-> Last(ps).port]

\* More than one string and an empty one are refused; no string at all is a panic again.
getEndpointsAndPort(es) ==
    IF Len(es) = 0 THEN [result |-> "panic", hosts |-> <<>>, port |-> 0]
    ELSE IF Len(es) > 1 \/ es[1] = <<>> THEN [result |-> "err", hosts |-> <<>>, port |-> 0]
    ELSE SplitEndpoints(es[1])

DefaultProtocol == 4

\* The port of the file is not read.
ConfigToClientConfig(c) ==
    LET e == getEndpointsAndPort(c.endpoints)
    IN  CASE e.result = "panic" -> Panicked
          [] e.result = "err" -> Failed
          [] e.result = "ok" -> [made |-> TRUE, err |-> FALSE, hosts |-> e.hosts, port |-> e.port,
                timeout |-> TimeoutOf(c.op), connect |-> TimeoutOf(c.dial), redial |-> RedialOf(c.redial),
                proto |-> Default(c.proto, DefaultProtocol)]

\* One string of all hosts, given to gocql as the address of one.  No name has a comma:
\* gocql cannot resolve the address of several.
HostsAsString(hs) == [joined |-> hs]
Resolves(addr) == Len(addr.joined) = 1

CreateSessionFromConfig(cl) ==
    IF cl.err THEN cl ELSE IF ~Resolves(HostsAsString(cl.hosts)) THEN Failed
    ELSE [made |-> TRUE, err |-> FALSE, addrs |-> <<HostsAsString(cl.hosts)>>, port |-> cl.port,
          timeout |-> cl.timeout, connect |-> cl.connect, redial |-> cl.redial, proto |-> cl.proto]

----------------------------------------------------------------------------

ConfInit == conf \in EtcdConfs \cup RedisConfs \cup CassandraConfs /\ client = NoClient

MakeEtcd == conf.kind = "etcd" /\ ~client.made /\ client' = ConfigToClientv3(conf) /\ UNCHANGED conf
MakeRedis == conf.kind = "redis" /\ ~client.made /\ client' = CreateClient(conf) /\ UNCHANGED conf
MakeCassandra == conf.kind = "cassandra" /\ ~client.made /\ client' = CreateSessionFromConfig(ConfigToClientConfig(conf)) /\ UNCHANGED conf

ConfNext == MakeEtcd \/ MakeRedis \/ MakeCassandra

ConfSpec == ConfInit /\ [][ConfNext]_clientVars

Made(kind) == conf.kind = kind /\ client.made /\ ~client.err

----------------------------------------------------------------------------
(* Properties. *)

\* The endpoints of a Cassandra file are one host and its port.
OneHost(c) == /\ Len(c.endpoints) = 1 /\ Len(c.endpoints[1]) = 1
              /\ c.endpoints[1][1].colon /\ c.endpoints[1][1].number

\* A client knows every host that its file names: a list for etcd, a Redis cluster or sentinel, one
\* endpoint for a Redis node.  A Cassandra session is made of a file that names one host with its port,
\* and is a session of that host and port; no session is made of any other file, several hosts
\* separated by commas included.
KnowsAllHosts ==
    /\ Made("etcd") => client.addrs # <<>> /\ (conf.endpoints # <<>> => client.addrs = conf.endpoints)
    /\ Made("redis") => \/ conf.master # "" /\ client.addrs = conf.endpoints
                        \/ conf.master = "" /\ conf.endpoint # "" /\ client.addrs = <<conf.endpoint>>
                        \/ conf.master = "" /\ conf.endpoint = "" /\ client.addrs = conf.endpoints
    /\ conf.kind = "cassandra" /\ client.made /\ OneHost(conf) => ~client.err
    /\ Made("cassandra") => LET p == conf.endpoints[1][1]
                            IN  OneHost(conf) /\ client.addrs = <<[joined |-> <<p.host>>]>> /\ client.port = p.port

\* An etcd client whose file names a certificate, a key or an authority, and does not ask for an
\* insecure transport, and a Redis node with TLS enabled, never talk in the clear; what the files name
\* is used, and the only error is a file that cannot be loaded.
EncryptedAsAsked ==
    LET asks == \/ conf.kind = "etcd" /\ ~conf.insecure /\ (conf.tls.cert # "" \/ conf.tls.key # "" \/ conf.tls.ca # "")
                \/ conf.kind = "redis" /\ LoadConfig(conf) = "node" /\ conf.enabled
    IN  client.made /\ asks =>
            \/ client.err /\ "bad" \in {conf.tls.cert, conf.tls.key, conf.tls.ca}
            \/ ~client.err /\ client.tls.on /\ (conf.tls.ca # "" => client.tls.conf.roots)
               /\ (conf.tls.cert # "" /\ conf.tls.key # "" => client.tls.conf.certificate)

\* A client has the hosts and the encryption of its file, and a Cassandra file that names one host
\* has a session.
ClientsAsConfigured == KnowsAllHosts /\ EncryptedAsAsked

----------------------------------------------------------------------------
(* What the documentation says of the Cassandra configuration, and the code does not do. *)

\* config.go: "session timeout (default: 600ms)".
DocumentedDefault == Made("cassandra") /\ conf.op.m = 0 => client.timeout = ns(6, 8)

\* The numbers are nanoseconds.  examples/cassandra-lib/client-config.yaml: "op_timeout: 5000000000 #
\* 5 seconds", "dial_timeout: 3000000000 # 3 seconds"; README.md: "OpTimeout: 600 * time.Millisecond".
ConfiguredTimeouts == Made("cassandra") => /\ conf.op.m > 0 => client.timeout = conf.op
                                           /\ conf.dial.m > 0 => client.connect = conf.dial
                                           /\ conf.redial.m > 0 => client.redial = conf.redial

\* config.go: "port for Cassandra (default: 9042)".
DocumentedPort == Made("cassandra") /\ conf.port > 0 => client.port = conf.port

\* config.go, of ConfigToClientConfig: "If the configuration of endpoints is invalid, error
\* ErrInvalidEndpointConfig is returned."
InvalidIsError == client # Panicked

\* config.go, of getEndpointsAndPort: "eg: "127.0.0.1:9042" or "127.0.0.1:9042,127.0.0.2:9042"".
SeveralHosts ==
    /\ conf.kind = "cassandra" /\ client.made /\ Len(conf.endpoints) = 1 /\ conf.endpoints[1] # <<>>
    /\ \A i \in DOMAIN conf.endpoints[1] : conf.endpoints[1][i].colon /\ conf.endpoints[1][i].number
    => ~client.err
=============================================================================
