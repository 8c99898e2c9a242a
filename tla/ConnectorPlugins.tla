--------------------------- MODULE ConnectorPlugins ---------------------------
(***************************************************************************)
(* The plugins that connect an agent to the outside: the HTTP server, its  *)
(* fork for the probes, Prometheus health, the gRPC server, and the etcd,  *)
(* Redis, Cassandra and Kafka clients.  The agent core calls Init of each  *)
(* in order, then AfterInit of each; an error of Init closes all plugins,  *)
(* those that were never initialised too, and an error of AfterInit stops  *)
(* the agent.  Configurations are absent, broken or good; connecting may   *)
(* fail; a port may be taken.  safeclose recovers the panic of a Close.    *)
(***************************************************************************)
EXTENDS Naturals, Sequences, FiniteSets

CONSTANTS Order,        \* the plugins in the order of the flavor
          Ports,        \* ports a configuration may ask for
          DefaultPort   \* of HTTP servers, 9191

Clients == {"etcd", "redis", "cassandra", "kafka"}
Servers == {"http", "probe", "grpc"}
Plugins == Clients \cup Servers \cup {"prometheus"}

\* Every plugin once; the default HTTP server comes before its fork (rpc.FlavorRPC).
ASSUME OrderAssumption ==
    /\ Order \in Seq(Plugins) /\ \A p \in Plugins : \E n \in DOMAIN Order : Order[n] = p
    /\ Len(Order) = Cardinality(Plugins) /\ DefaultPort \in Ports /\ 0 \notin Ports
    /\ \A m, n \in DOMAIN Order : Order[m] = "http" /\ Order[n] = "probe" => m < n

VARIABLES
    cfg,       \* cfg[p]: the configuration file of p: "absent", "broken" or "good"
    cfgPort,   \* cfgPort[p]: the port in it
    phase, i,  \* "init", "after", "up", "closing" or "down", and the plugin that is next
    disabled,  \* plugins that have no configuration and stay out
    port,      \* port[p]: the port of the server's configuration, 0 without one
    own,       \* the fork has a server of its own
    router,    \* servers that have a router, or a gRPC server object
    open,      \* <<p, n>>: connections, clients and servers of p that are open
    bound,     \* servers whose port was free when they began to listen
    handlers,  \* <<server, handler>>: handlers registered with the router of a server
    probes,    \* plugins whose status probe is registered
    gauges,    \* plugins whose health Prometheus shows
    failed     \* the plugin whose Init or AfterInit failed, or "none"

confVars == <<cfg, cfgPort>>
vars == <<cfg, cfgPort, phase, i, disabled, port, own, router, open, bound, handlers, probes, gauges, failed>>

Init ==
    /\ cfg \in [Clients \cup Servers -> {"absent", "broken", "good"}] /\ cfgPort \in [Servers -> Ports]
    /\ \A s \in Servers : cfg[s] # "good" => cfgPort[s] = DefaultPort
    /\ phase = "init" /\ i = 1 /\ disabled = {} /\ port = [s \in Servers |-> 0] /\ own = FALSE /\ router = {}
    /\ open = {} /\ bound = {} /\ handlers = {} /\ probes = {} /\ gauges = {} /\ failed = "none"

\* PluginConfig.GetValue: no file that the flag leads to, here or in the directory of
\* configurations, is not an error; a file that does not parse counts as not found.
GetValue(p) == [found |-> cfg[p] = "good", err |-> cfg[p] = "broken"]

----------------------------------------------------------------------------
(* The agent core around a call of plugin p. *)

Calling(ph, p) == phase = ph /\ i <= Len(Order) /\ Order[i] = p

\* The call returns nil: the next plugin, and after the last one the next phase.
Succeeds ==
    /\ i' = IF i = Len(Order) THEN 1 ELSE i + 1
    /\ phase' = IF i < Len(Order) THEN phase ELSE IF phase = "init" THEN "after" ELSE "up"
    /\ UNCHANGED failed

\* It returns an error: the others are skipped, and all are closed from the last on.
Fails(p) == phase' = "closing" /\ i' = Len(Order) /\ failed' = p

Returns(ok, p) == IF ok THEN Succeeds ELSE Fails(p)

----------------------------------------------------------------------------
(* Init *)

\* rest.PluginConfig, grpc.PluginConfig and FixConfig.
ServerPort(s) == IF cfg[s] = "good" THEN cfgPort[s] ELSE IF s = "grpc" THEN 0 ELSE DefaultPort

InitHTTP ==
    /\ Calling("init", "http") /\ Returns(~GetValue("http").err, "http")
    /\ IF GetValue("http").err THEN UNCHANGED <<port, router>>
       ELSE port' = [port EXCEPT !["http"] = ServerPort("http")] /\ router' = router \cup {"http"}
    /\ UNCHANGED <<disabled, own, open, bound, handlers, probes, gauges>> /\ UNCHANGED confVars

\* The fork listens itself if its port is not that of the default server.
Differs(p) == p > 0 /\ p # port["http"]

InitFork ==
    /\ Calling("init", "probe") /\ Returns(~GetValue("probe").err, "probe")
    /\ IF GetValue("probe").err THEN UNCHANGED <<port, own, router>>
       ELSE /\ port' = [port EXCEPT !["probe"] = ServerPort("probe")]
            /\ own' = Differs(ServerPort("probe"))
            /\ router' = IF own' THEN router \cup {"probe"} ELSE router
    /\ UNCHANGED <<disabled, open, bound, handlers, probes, gauges>> /\ UNCHANGED confVars

\* Prometheus: the gauges of the service itself are left out.
InitPrometheus ==
    /\ Calling("init", "prometheus") /\ Succeeds
    /\ UNCHANGED <<disabled, port, own, router, open, bound, handlers, probes, gauges>> /\ UNCHANGED confVars

InitGRPC ==
    /\ Calling("init", "grpc") /\ Returns(~GetValue("grpc").err, "grpc")
    /\ IF GetValue("grpc").err THEN UNCHANGED <<port, router>>
       ELSE port' = [port EXCEPT !["grpc"] = ServerPort("grpc")] /\ router' = router \cup {"grpc"}
    /\ UNCHANGED <<disabled, own, open, bound, handlers, probes, gauges>> /\ UNCHANGED confVars

serverVars == <<port, own, router, bound, handlers, gauges>>

\* "config not found - skip loading this plugin".
Skip(p) ==
    /\ Succeeds /\ disabled' = disabled \cup {p}
    /\ UNCHANGED <<open, probes>>

\* The connection is made, or not, and then the status probe is registered.
Connect(p, ok) ==
    /\ Returns(ok, p) /\ UNCHANGED disabled
    /\ open' = IF ok THEN open \cup {<<p, 1>>} ELSE open
    /\ probes' = IF ok THEN probes \cup {p} ELSE probes

\* Mutant: the probe is registered whether or not there is a configuration.
InitEtcdProbing(ok) ==
    /\ Calling("init", "etcd")
    /\ IF GetValue("etcd").found THEN Connect("etcd", ok)
       ELSE Succeeds /\ disabled' = disabled \cup {"etcd"} /\ probes' = probes \cup {"etcd"} /\ UNCHANGED open
    /\ UNCHANGED serverVars /\ UNCHANGED confVars

InitEtcd(ok) ==
    /\ Calling("init", "etcd")
    /\ IF GetValue("etcd").found THEN Connect("etcd", ok) ELSE Skip("etcd")
    /\ UNCHANGED serverVars /\ UNCHANGED confVars

\* Redis loads the file a second time, by its own parser.
InitRedis(ok) ==
    /\ Calling("init", "redis")
    /\ IF GetValue("redis").found THEN Connect("redis", ok) ELSE Skip("redis")
    /\ UNCHANGED serverVars /\ UNCHANGED confVars

\* Cassandra has no flag for being disabled.
InitCassandra(ok) ==
    /\ Calling("init", "cassandra")
    /\ IF GetValue("cassandra").found THEN Connect("cassandra", ok)
       ELSE Succeeds /\ UNCHANGED <<disabled, open, probes>>
    /\ UNCHANGED serverVars /\ UNCHANGED confVars

\* Kafka makes the first n of: the hash client, the manual client, the asynchronous
\* producers and the multiplexer, with what else it holds.
Parts(n) == {<<"kafka", k>> : k \in 1..n}
InitKafka(n) ==
    /\ Calling("init", "kafka")
    /\ IF GetValue("kafka").found
       THEN Returns(n = 4, "kafka") /\ open' = open \cup Parts(n) /\ UNCHANGED <<disabled, probes>>
       ELSE Skip("kafka")
    /\ UNCHANGED serverVars /\ UNCHANGED confVars

----------------------------------------------------------------------------
(* AfterInit *)

\* ListenAndServeHTTP: an error of the server goes to a nil channel, and nobody hears.
Listen(s, free) ==
    /\ Succeeds /\ open' = open \cup {<<s, 1>>}
    /\ bound' = IF free /\ \A o \in bound : port[o] # port[s] THEN bound \cup {s} ELSE bound

AfterInitHTTP(free) ==
    /\ Calling("after", "http") /\ Listen("http", free)
    /\ UNCHANGED <<disabled, port, own, router, handlers, probes, gauges>> /\ UNCHANGED confVars

AfterInitFork(free) ==
    /\ Calling("after", "probe")
    /\ IF own THEN Listen("probe", free) ELSE Succeeds /\ UNCHANGED <<open, bound>>
    /\ UNCHANGED <<disabled, port, own, router, handlers, probes, gauges>> /\ UNCHANGED confVars

\* The router that the fork delegates to.
Delegate == IF own THEN "probe" ELSE "http"

\* Handlers through the fork; a gauge for every plugin that has a status by now.
AfterInitPrometheus ==
    /\ Calling("after", "prometheus") /\ Succeeds
    /\ handlers' = handlers \cup {<<Delegate, h>> : h \in {"metrics", "health"}}
    /\ gauges' = probes
    /\ UNCHANGED <<disabled, port, own, router, open, bound, probes>> /\ UNCHANGED confVars

\* ListenAndServeGRPC: the listener is made before the goroutine, its error returned.
\* An endpoint without a port gets any free one.
AfterInitGRPC(free) ==
    /\ Calling("after", "grpc")
    /\ LET ok == free /\ (port["grpc"] = 0 \/ \A o \in bound : port[o] # port["grpc"]) IN
         /\ Returns(ok, "grpc")
         /\ open' = IF ok THEN open \cup {<<"grpc", 1>>} ELSE open
         /\ bound' = IF ok THEN bound \cup {"grpc"} ELSE bound
    /\ UNCHANGED <<disabled, port, own, router, handlers, probes, gauges>> /\ UNCHANGED confVars

\* etcd, Redis and Cassandra have nothing left to do.
AfterInitClient(p) ==
    /\ p \in Clients \ {"kafka"} /\ Calling("after", p) /\ Succeeds
    /\ UNCHANGED <<disabled, open, probes>> /\ UNCHANGED serverVars /\ UNCHANGED confVars

\* Kafka starts the multiplexer and registers its probe only now.
AfterInitKafka(ok) ==
    /\ Calling("after", "kafka")
    /\ LET started == <<"kafka", 4>> \in open => ok IN
         /\ Returns(started, "kafka")
         /\ probes' = IF started /\ "kafka" \notin disabled THEN probes \cup {"kafka"} ELSE probes
    /\ UNCHANGED <<disabled, open>> /\ UNCHANGED serverVars /\ UNCHANGED confVars

----------------------------------------------------------------------------
(* Close *)

\* Agent.Stop, from the event loop.
Stop ==
    /\ phase = "up" /\ phase' = "closing" /\ i' = Len(Order)
    /\ UNCHANGED <<disabled, port, own, router, open, bound, handlers, probes, gauges, failed>> /\ UNCHANGED confVars

\* What safeclose does not close.  The session that gockle wraps is a structure and no
\* pointer: IsNil panics and is recovered.  Close of an asynchronous producer takes
\* arguments, so that the producer is none of the closers safeclose knows.
OutOfReach == {<<"cassandra", 1>>, <<"kafka", 3>>}

\* Mutant: Close of Kafka needs the multiplexer.
ClosesWhole(p) ==
    IF p = "kafka" THEN (IF Parts(4) \subseteq open THEN Parts(4) \ OutOfReach ELSE {}) ELSE {<<p, 1>>} \ OutOfReach
\* What Close of p closes: safeclose passes over what is nil.
Closes(p) == (IF p = "kafka" THEN Parts(4) ELSE {<<p, 1>>}) \ OutOfReach

\* Close of plugin p, whatever has been done before: that of gRPC panics when there is
\* no server object, behind the listener.
Close(p) ==
    /\ Calling("closing", p)
    /\ open' = open \ Closes(p) /\ bound' = bound \ {p}
    /\ i' = i - 1 /\ phase' = IF i = 1 THEN "down" ELSE phase
    /\ UNCHANGED <<disabled, port, own, router, handlers, probes, gauges, failed>> /\ UNCHANGED confVars

Down == phase = "down" /\ UNCHANGED vars

----------------------------------------------------------------------------
InitStep == InitHTTP \/ InitFork \/ InitPrometheus \/ InitGRPC
AfterInitStep == AfterInitPrometheus \/ \E p \in Clients : AfterInitClient(p)
Next ==
    \/ InitStep \/ (\E ok \in BOOLEAN : InitEtcd(ok) \/ InitRedis(ok) \/ InitCassandra(ok)) \/ \E n \in 0..4 : InitKafka(n)
    \/ AfterInitStep
    \/ \E ok \in BOOLEAN : AfterInitHTTP(ok) \/ AfterInitFork(ok) \/ AfterInitGRPC(ok) \/ AfterInitKafka(ok)
    \/ Stop \/ (\E p \in Plugins : Close(p)) \/ Down

Spec == Init /\ [][Next]_vars /\ WF_vars(Next)

----------------------------------------------------------------------------
(* Properties. *)

\* The shapes of the state.
TypeOK ==
    /\ phase \in {"init", "after", "up", "closing", "down"} /\ i \in 0..Len(Order)
    /\ disabled \subseteq Clients /\ port \in [Servers -> Ports \cup {0}] /\ router \subseteq Servers
    /\ open \subseteq (Clients \cup Servers) \X (1..4) /\ \A s \in bound : <<s, 1>> \in open
    /\ probes \subseteq Clients /\ gauges \subseteq Clients

\* A probe that the status check may call has something to ask until the agent closes:
\* it never meets a connection that was not made.
ProbesHaveConnections ==
    phase # "closing" /\ phase # "down" => \A p \in probes : <<p, 1>> \in open

\* The servers of the default and of the forked HTTP plugin never want the same port.
PortsDiffer == own => port["probe"] # port["http"]

\* When the agent is up, every handler is at a server that was started.
HandlersServed == phase = "up" => \A h \in handlers : <<h[1], 1>> \in open /\ h[1] \in router

\* What the plugins have handed out can be used: a probe has a connection, a handler
\* a server, and the two servers ports of their own.
UsableWhenCalled == ProbesHaveConnections /\ HandlersServed /\ PortsDiffer

\* When the agent is down, every connection, server and listener that safeclose can
\* close is released.  Cassandra's session and Kafka's asynchronous producers are not.
Released == phase = "down" => open \subseteq OutOfReach /\ bound = {}

\* A start or a stop ends with the agent up, or down and Released, wherever and however
\* often it failed half way.
EndsUpOrReleased == phase # "up" ~> (phase = "up" \/ (phase = "down" /\ Released))

\* cassandra/plugin_impl_cassa.go, Close: "Close resources"; mux/multiplexer.go, Close:
\* "Close cleans up the resources used by the Multiplexer".
AllReleased == phase = "down" => open = {}

\* rest/plugin_impl_fork.go, ForkDeps: "DefaultHTTP is used if there is no different configuration".
DefaultIsUsed == (phase = "up" /\ cfg["probe"] = "absent") => Delegate = "http"
=============================================================================
