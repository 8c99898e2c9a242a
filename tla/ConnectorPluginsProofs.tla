----------------------- MODULE ConnectorPluginsProofs -----------------------
(***************************************************************************)
(* What the connector plugins hand out can be used, and what they opened   *)
(* and can close is closed when the agent is down, for every order in      *)
(* which the default HTTP server precedes its fork, and for all ports and  *)
(* configurations.  The inductive invariant says how far the agent core    *)
(* has come through the plugins and what each of them has by then.  The    *)
(* last section is about the clients that Init makes of the configuration  *)
(* files, for every content of a file.                                     *)
(***************************************************************************)
EXTENDS ConnectorPlugins, ClientConfigs, TLAPS

\* The plugins before the one that is next.
Called(p) == \E j \in 1..(i - 1) : Order[j] = p
\* Init, AfterInit of p has been called and has returned nil, in a start that goes on.
Inited(p) == phase \in {"after", "up"} \/ (phase = "init" /\ Called(p))
Started(p) == phase = "up" \/ (phase = "after" /\ Called(p))

\* What plugins can have open.
Openable == {<<p, 1>> : p \in Clients \cup Servers} \cup Parts(4)

Types ==
    /\ phase \in {"init", "after", "up", "closing", "down"} /\ i \in 0..Len(Order)
    /\ phase \in {"init", "after", "closing"} => i >= 1
    /\ cfg \in [Clients \cup Servers -> {"absent", "broken", "good"}] /\ cfgPort \in [Servers -> Ports]
    /\ disabled \subseteq Clients /\ port \in [Servers -> Ports \cup {0}] /\ own \in BOOLEAN
    /\ router \subseteq Servers /\ open \subseteq Openable /\ bound \subseteq Servers
    /\ probes \subseteq Clients /\ gauges \subseteq Clients

BoundOpen == \A s \in bound : <<s, 1>> \in open

\* Kafka, once initialised, is disabled or has its clients and the multiplexer.
KafkaMade == Inited("kafka") => "kafka" \in disabled \/ Parts(4) \subseteq open

\* An initialised HTTP server has a router, and so has a fork of its own.
Routers == (Inited("http") => "http" \in router) /\ (own => "probe" \in router)

\* Handlers are registered after the fork knows which router it delegates to.
Delegated == (handlers # {} => phase # "init") /\ \A h \in handlers : h[1] = Delegate

\* Servers that have been started are open until they are closed.
Listening ==
    /\ Started("http") => <<"http", 1>> \in open
    /\ Started("probe") /\ own => <<"probe", 1>> \in open

\* A fork with a server of its own has been initialised, so its port was compared with
\* that of the default server.
ForkLater == own /\ phase = "init" => Called("probe")

\* Close passes every plugin that has something open.
StillToClose ==
    /\ phase = "closing" => \A x \in open \ OutOfReach : \E j \in 1..i : Order[j] = x[1]
    /\ phase = "down" => open \subseteq OutOfReach

\* The inductive invariant.
Inv ==
    /\ Types /\ BoundOpen /\ ProbesHaveConnections /\ KafkaMade /\ Routers /\ Delegated
    /\ Listening /\ PortsDiffer /\ ForkLater /\ StillToClose

----------------------------------------------------------------------------
\* The order of the plugins is a sequence, and not empty.
LEMMA OrderFacts == Order \in Seq(Plugins) /\ Len(Order) \in Nat /\ Len(Order) >= 1
<1>1. PICK n \in DOMAIN Order : Order[n] = "http"
  BY OrderAssumption DEF Plugins, Servers
<1> QED BY <1>1, OrderAssumption

\* Nothing is open before the first plugin is initialised.
LEMMA InitInv == Init => Inv
<1> SUFFICES ASSUME Init PROVE Inv
  OBVIOUS
<1>1. Len(Order) \in Nat /\ Len(Order) >= 1
  BY OrderFacts
<1>2. Types
  <2>1. port \in [Servers -> Ports \cup {0}]
    BY DEF Init
  <2>2. phase = "init" /\ i \in 0..Len(Order) /\ i >= 1
    BY <1>1 DEF Init
  <2>3. /\ disabled \subseteq Clients /\ own \in BOOLEAN /\ router \subseteq Servers /\ open \subseteq Openable
        /\ bound \subseteq Servers /\ probes \subseteq Clients /\ gauges \subseteq Clients
    BY DEF Init
  <2> QED BY <2>1, <2>2, <2>3 DEF Init, Types
<1>3. ~Called("http") /\ ~Called("kafka")
  BY DEF Init, Called
<1> QED
  BY <1>2, <1>3 DEF Init, Inv, BoundOpen, ProbesHaveConnections, KafkaMade, Routers, Delegated,
     Listening, PortsDiffer, ForkLater, StillToClose, Inited, Started

\* What the agent core makes of a call of Init or AfterInit of plugin q: it goes on to
\* the next one, after the last to the next phase, or closes.
LEMMA Moves ==
    ASSUME Types, NEW q \in Plugins, NEW ph \in {"init", "after"}, Calling(ph, q),
           NEW ok \in BOOLEAN, Returns(ok, q)
    PROVE  /\ phase = ph /\ Order[i] = q /\ i \in 1..Len(Order)
           /\ phase' \in {"init", "after", "up", "closing"} /\ i' \in 0..Len(Order)
           /\ phase' \in {"init", "after", "closing"} => i' >= 1
           /\ phase' = "closing" => i' = Len(Order)
           /\ ph = "after" => phase' # "init"
           /\ \A p \in Plugins : /\ Inited(p)' => ok /\ (Inited(p) \/ p = q)
                                 /\ Started(p)' => ok /\ (Started(p) \/ (ph = "after" /\ p = q))
           /\ phase' = "init" => \A p \in Plugins : Called(p) \/ p = q => Called(p)'
<1>1. Order \in Seq(Plugins) /\ Len(Order) \in Nat
  BY OrderAssumption
<1>2. phase = ph /\ Order[i] = q /\ i \in 1..Len(Order)
  BY <1>1 DEF Calling, Types
<1>3. CASE ~ok
  BY <1>1, <1>2, <1>3 DEF Returns, Fails, Inited, Started
<1>4. CASE ok /\ i < Len(Order)
  <2>1. i' = i + 1 /\ phase' = ph
    BY <1>1, <1>2, <1>4 DEF Returns, Succeeds
  <2>2. \A p \in Plugins : Called(p)' <=> Called(p) \/ p = q
    BY <1>2, <2>1 DEF Called
  <2> QED BY <1>1, <1>2, <1>4, <2>1, <2>2 DEF Inited, Started
<1>5. CASE ok /\ i = Len(Order)
  <2>1. i' = 1 /\ phase' = (IF ph = "init" THEN "after" ELSE "up")
    BY <1>1, <1>2, <1>5 DEF Returns, Succeeds
  <2>2. \A p \in Plugins : Called(p) \/ p = q
    BY <1>1, <1>2, <1>5, OrderAssumption DEF Called
  <2>3. \A p \in Plugins : ~Called(p)'
    BY <2>1 DEF Called
  <2> QED BY <1>1, <1>2, <1>5, <2>1, <2>2, <2>3 DEF Inited, Started
<1> QED BY <1>2, <1>3, <1>4, <1>5

\* When everything open belongs to some plugin, closing from the last one passes it.
LEMMA ClosingPasses ==
    ASSUME open' \subseteq Openable, phase' # "down", phase' = "closing" => i' = Len(Order)
    PROVE  StillToClose'
<1>1. Order \in Seq(Plugins) /\ Len(Order) \in Nat
  BY OrderAssumption
<1>2. ASSUME NEW x \in open' PROVE \E j \in 1..Len(Order) : Order[j] = x[1]
  <2>1. x[1] \in Plugins
    BY <1>2 DEF Openable, Parts, Plugins, Clients
  <2> QED BY <1>1, <2>1, OrderAssumption
<1> QED BY <1>2 DEF StillToClose

\* What a call of Init (ph = "init") or AfterInit of plugin q adds, ok telling how it
\* ends: nothing that is open is lost, a new probe has a connection, and a call that
\* succeeds leaves what the others rely on.
Adds(q, ph, ok) ==
    /\ UNCHANGED confVars
    /\ disabled \subseteq disabled' /\ disabled' \subseteq Clients
    /\ port' \in [Servers -> Ports \cup {0}] /\ own' \in BOOLEAN /\ (own' => own \/ (ph = "init" /\ q = "probe"))
    /\ router \subseteq router' /\ router' \subseteq Servers /\ (own' => "probe" \in router') /\ PortsDiffer'
    /\ open \subseteq open' /\ open' \subseteq Openable
    /\ bound' \subseteq Servers /\ \A s \in bound' \ bound : <<s, 1>> \in open'
    /\ probes' \subseteq Clients /\ gauges' \subseteq Clients /\ \A p \in probes' \ probes : <<p, 1>> \in open'
    /\ ph = "init" => handlers' = handlers
    /\ ph = "after" => own' = own /\ \A h \in handlers' \ handlers : h[1] = Delegate
    /\ ph = "init" /\ ok => /\ q = "http" => "http" \in router'
                            /\ q = "kafka" => "kafka" \in disabled' \/ Parts(4) \subseteq open'
    /\ ph = "after" /\ ok => /\ q = "http" => <<"http", 1>> \in open'
                             /\ q = "probe" /\ own => <<"probe", 1>> \in open'

\* Such a call keeps the invariant.
LEMMA CallInv ==
    ASSUME Inv, NEW q \in Plugins, NEW ph \in {"init", "after"}, Calling(ph, q),
           NEW ok \in BOOLEAN, Returns(ok, q), Adds(q, ph, ok)
    PROVE  Inv'
<1> DEFINE Moved ==
           /\ phase = ph /\ Order[i] = q /\ i \in 1..Len(Order)
           /\ phase' \in {"init", "after", "up", "closing"} /\ i' \in 0..Len(Order)
           /\ phase' \in {"init", "after", "closing"} => i' >= 1
           /\ phase' = "closing" => i' = Len(Order)
           /\ ph = "after" => phase' # "init"
           /\ \A p \in Plugins : /\ Inited(p)' => ok /\ (Inited(p) \/ p = q)
                                 /\ Started(p)' => ok /\ (Started(p) \/ (ph = "after" /\ p = q))
           /\ phase' = "init" => \A p \in Plugins : Called(p) \/ p = q => Called(p)'
<1>1. Moved
  BY Moves DEF Inv
<1>2. {"http", "probe", "kafka"} \subseteq Plugins
  BY DEF Plugins, Clients, Servers
<1> HIDE DEF Moved
<1>3. Types'
  BY <1>1 DEF Inv, Types, Adds, Moved, confVars
<1>4. BoundOpen' /\ ProbesHaveConnections'
  BY <1>1 DEF Inv, Adds, Moved, BoundOpen, ProbesHaveConnections
<1>5. KafkaMade' /\ Routers'
  <2>1. ASSUME Inited("kafka")' PROVE "kafka" \in disabled' \/ Parts(4) \subseteq open'
    <3>1. ok /\ (Inited("kafka") \/ q = "kafka")
      BY <1>1, <1>2, <2>1 DEF Moved
    <3>2. CASE Inited("kafka")
      BY <3>2 DEF Inv, KafkaMade, Adds
    <3>3. CASE ~Inited("kafka") /\ q = "kafka"
      <4>1. ph = "init"
        BY <1>1, <3>3 DEF Moved, Inited
      <4> QED BY <3>1, <3>3, <4>1 DEF Adds
    <3> QED BY <3>1, <3>2, <3>3
  <2>2. ASSUME Inited("http")' PROVE "http" \in router'
    <3>1. ok /\ (Inited("http") \/ q = "http")
      BY <1>1, <1>2, <2>2 DEF Moved
    <3>2. CASE Inited("http")
      BY <3>2 DEF Inv, Routers, Adds
    <3>3. CASE ~Inited("http") /\ q = "http"
      <4>1. ph = "init"
        BY <1>1, <3>3 DEF Moved, Inited
      <4>2. ph = "init" /\ ok => (q = "http" => "http" \in router')
        BY DEF Adds
      <4> QED BY <3>1, <3>3, <4>1, <4>2
    <3> QED BY <3>1, <3>2, <3>3
  <2> QED BY <2>1, <2>2 DEF KafkaMade, Routers, Adds
<1>6. Delegated'
  <2>1. CASE ph = "init"
    <3>1. handlers = {}
      BY <1>1, <2>1 DEF Inv, Delegated, Moved
    <3> QED BY <2>1, <3>1 DEF Adds, Delegated
  <2>2. CASE ph = "after"
    BY <1>1, <2>2 DEF Inv, Delegated, Adds, Moved, Delegate
  <2> QED BY <2>1, <2>2
<1>7. Listening'
  <2>1. ASSUME Started("http")' PROVE <<"http", 1>> \in open'
    <3>1. ok /\ (Started("http") \/ (ph = "after" /\ q = "http"))
      BY <1>1, <1>2, <2>1 DEF Moved
    <3>2. open \subseteq open' /\ (ph = "after" /\ ok => (q = "http" => <<"http", 1>> \in open'))
      BY DEF Adds
    <3> QED BY <3>1, <3>2 DEF Inv, Listening
  <2>2. ASSUME Started("probe")', own' PROVE <<"probe", 1>> \in open'
    <3>1. ok /\ (Started("probe") \/ (ph = "after" /\ q = "probe"))
      BY <1>1, <1>2, <2>2 DEF Moved
    <3>2. ph = "after"
      BY <1>1, <3>1 DEF Moved, Started
    <3> QED BY <2>2, <3>1, <3>2 DEF Inv, Listening, Adds
  <2> QED BY <2>1, <2>2 DEF Listening
<1>8. PortsDiffer' /\ ForkLater'
  <2>1. ASSUME own', phase' = "init" PROVE Called("probe")'
    BY <1>1, <1>2, <2>1 DEF Moved, Inv, ForkLater, Adds
  <2> QED BY <2>1 DEF ForkLater, Adds
<1>9. StillToClose'
  BY <1>1, ClosingPasses DEF Adds, Moved
<1> QED BY <1>3, <1>4, <1>5, <1>6, <1>7, <1>8, <1>9 DEF Inv

\* The port of a server's configuration.
LEMMA ServerPortType == Types => \A s \in Servers : ServerPort(s) \in Ports \cup {0}
BY OrderAssumption DEF Types, ServerPort

\* Init of the HTTP server comes before that of the fork, which compares its port.
LEMMA InitHTTPInv == Inv /\ InitHTTP => Inv'
<1> SUFFICES ASSUME Inv, InitHTTP PROVE Inv'
  OBVIOUS
<1> DEFINE ok == ~GetValue("http").err
<1>1. ok \in BOOLEAN /\ Calling("init", "http") /\ Returns(ok, "http") /\ "http" \in Plugins
  BY DEF InitHTTP, Plugins, Servers, GetValue
<1>2. ~own
  <2>1. Order[i] = "http" /\ phase = "init" /\ i \in 1..Len(Order)
    BY OrderAssumption DEF Calling, InitHTTP, Inv, Types
  <2>2. ASSUME own PROVE FALSE
    <3>1. PICK j \in 1..(i - 1) : Order[j] = "probe"
      BY <2>1, <2>2 DEF Inv, ForkLater, Called
    <3>2. j \in DOMAIN Order /\ i \in DOMAIN Order /\ j < i
      BY <2>1, <3>1, OrderAssumption
    <3> QED BY <2>1, <3>1, <3>2, OrderAssumption
  <2> QED BY <2>2
<1>3. port' \in [Servers -> Ports \cup {0}] /\ router \subseteq router' /\ router' \subseteq Servers
      /\ (ok => "http" \in router')
  <2>1. CASE ok
    <3>1. port' = [port EXCEPT !["http"] = ServerPort("http")] /\ router' = router \cup {"http"}
      BY <2>1 DEF InitHTTP
    <3>2. ServerPort("http") \in Ports \cup {0} /\ "http" \in Servers
      BY ServerPortType DEF Inv, Servers
    <3> QED BY <3>1, <3>2 DEF Inv, Types
  <2>2. CASE ~ok
    BY <2>2 DEF InitHTTP, Inv, Types
  <2> QED BY <2>1, <2>2
<1>4. Adds("http", "init", ok)
  BY <1>2, <1>3 DEF InitHTTP, Adds, Inv, Types, PortsDiffer
<1> QED BY <1>1, <1>4, CallInv

\* Init of the fork: its own server only for a port of its own.
LEMMA InitForkInv == Inv /\ InitFork => Inv'
<1> SUFFICES ASSUME Inv, InitFork PROVE Inv'
  OBVIOUS
<1> DEFINE ok == ~GetValue("probe").err
<1>1. ok \in BOOLEAN /\ Calling("init", "probe") /\ Returns(ok, "probe") /\ "probe" \in Plugins
  BY DEF InitFork, Plugins, Servers, GetValue
<1>2. port' \in [Servers -> Ports \cup {0}] /\ router \subseteq router' /\ router' \subseteq Servers
  <2>1. ServerPort("probe") \in Ports \cup {0} /\ "probe" \in Servers
    BY ServerPortType DEF Inv, Servers
  <2>2. /\ port' = [port EXCEPT !["probe"] = ServerPort("probe")] \/ port' = port
        /\ router' = router \/ router' = router \cup {"probe"}
    BY DEF InitFork
  <2> QED BY <2>1, <2>2 DEF Inv, Types
<1>3. own' \in BOOLEAN /\ (own' => "probe" \in router')
  BY DEF InitFork, Inv, Types, Routers, Differs
<1>4. PortsDiffer'
  BY DEF InitFork, Inv, Types, PortsDiffer, Differs, Servers
<1>5. Adds("probe", "init", ok)
  BY <1>2, <1>3, <1>4 DEF InitFork, Adds, Inv, Types
<1> QED BY <1>1, <1>5, CallInv

\* Init of Prometheus does nothing that matters here.
LEMMA InitPrometheusInv == Inv /\ InitPrometheus => Inv'
<1> SUFFICES ASSUME Inv, InitPrometheus PROVE Inv'
  OBVIOUS
<1>1. Calling("init", "prometheus") /\ Returns(TRUE, "prometheus") /\ "prometheus" \in Plugins
  BY DEF InitPrometheus, Plugins, Returns
<1>2. Adds("prometheus", "init", TRUE)
  BY DEF InitPrometheus, Adds, Inv, Types, Routers, PortsDiffer
<1> QED BY <1>1, <1>2, CallInv

\* Init of the gRPC server makes the server object.
LEMMA InitGRPCInv == Inv /\ InitGRPC => Inv'
<1> SUFFICES ASSUME Inv, InitGRPC PROVE Inv'
  OBVIOUS
<1> DEFINE ok == ~GetValue("grpc").err
<1>1. ok \in BOOLEAN /\ Calling("init", "grpc") /\ Returns(ok, "grpc") /\ "grpc" \in Plugins
  BY DEF InitGRPC, Plugins, Servers, GetValue
<1>2. port' \in [Servers -> Ports \cup {0}] /\ router \subseteq router' /\ router' \subseteq Servers
  <2>1. ServerPort("grpc") \in Ports \cup {0} /\ "grpc" \in Servers
    BY ServerPortType DEF Inv, Servers
  <2>2. /\ port' = [port EXCEPT !["grpc"] = ServerPort("grpc")] \/ port' = port
        /\ router' = router \/ router' = router \cup {"grpc"}
    BY DEF InitGRPC
  <2> QED BY <2>1, <2>2 DEF Inv, Types
<1>3. PortsDiffer'
  BY DEF InitGRPC, Inv, Types, PortsDiffer, Servers
<1>4. Adds("grpc", "init", ok)
  BY <1>2, <1>3 DEF InitGRPC, Adds, Inv, Types, Routers
<1> QED BY <1>1, <1>4, CallInv

\* Init of a client that connects, registers its probe, or stays out.
LEMMA InitClientInv ==
    ASSUME Inv, NEW q \in Clients, NEW ok \in BOOLEAN, Calling("init", q),
           Connect(q, ok) \/ Skip(q) \/ (Succeeds /\ UNCHANGED <<disabled, open, probes>>),
           q = "kafka" => Skip(q),
           UNCHANGED serverVars, UNCHANGED confVars
    PROVE  Inv'
<1>1. q \in Plugins /\ <<q, 1>> \in Openable
  BY DEF Plugins, Openable
<1>2. PICK r \in BOOLEAN : Returns(r, q)
  BY DEF Connect, Skip, Returns
<1>3. /\ disabled \subseteq disabled' /\ disabled' \subseteq Clients /\ probes' \subseteq Clients
      /\ open \subseteq open' /\ open' \subseteq Openable /\ \A p \in probes' \ probes : <<p, 1>> \in open'
      /\ q = "kafka" => "kafka" \in disabled'
  BY <1>1 DEF Connect, Skip, Inv, Types
<1>4. Adds(q, "init", r)
  <2>1. q \notin {"http", "probe"}
    BY DEF Clients
  <2> QED BY <1>3, <2>1 DEF Adds, Inv, Types, Routers, PortsDiffer, serverVars
<1> QED BY <1>1, <1>2, <1>4, CallInv

\* Init of Kafka makes its clients and the multiplexer, or some of them and an error.
LEMMA InitKafkaInv ==
    ASSUME Inv, NEW n \in 0..4, InitKafka(n)
    PROVE  Inv'
<1>1. CASE GetValue("kafka").found
  <2> DEFINE ok == n = 4
  <2>1. Calling("init", "kafka") /\ Returns(ok, "kafka") /\ ok \in BOOLEAN /\ "kafka" \in Plugins
    BY <1>1 DEF InitKafka, Plugins, Clients
  <2>2. open \subseteq open' /\ open' \subseteq Openable /\ (ok => Parts(4) \subseteq open')
    BY <1>1 DEF InitKafka, Inv, Types, Openable, Parts
  <2>3. Adds("kafka", "init", ok)
    BY <1>1, <2>2 DEF InitKafka, Adds, Inv, Types, Routers, PortsDiffer, serverVars
  <2> QED BY <2>1, <2>3, CallInv
<1>2. CASE ~GetValue("kafka").found
  <2>1. "kafka" \in Clients /\ Calling("init", "kafka") /\ Skip("kafka")
    BY <1>2 DEF InitKafka, Clients
  <2> QED BY <2>1, InitClientInv DEF InitKafka
<1> QED BY <1>1, <1>2

----------------------------------------------------------------------------
\* AfterInit leaves what Init made and only starts, registers and listens.
LEMMA AfterInv ==
    ASSUME Inv, NEW q \in Plugins, NEW ok \in BOOLEAN, Calling("after", q), Returns(ok, q),
           UNCHANGED <<disabled, port, own, router>>, UNCHANGED confVars,
           open' = open \/ (q \in Servers /\ open' = open \cup {<<q, 1>>}),
           bound' = bound \/ (bound' = bound \cup {q} /\ <<q, 1>> \in open'),
           bound' # bound => q \in Servers,
           probes' \subseteq Clients, gauges' \subseteq Clients,
           \A p \in probes' \ probes : <<p, 1>> \in open',
           \A h \in handlers' \ handlers : h[1] = Delegate,
           ok /\ (q = "http" \/ (q = "probe" /\ own)) => <<q, 1>> \in open'
    PROVE  Inv'
<1>1. open \subseteq open' /\ open' \subseteq Openable
  BY DEF Inv, Types, Openable
<1>2. bound' \subseteq Servers /\ \A s \in bound' \ bound : <<s, 1>> \in open'
  BY DEF Inv, Types
<1>3. Adds(q, "after", ok)
  BY <1>1, <1>2 DEF Adds, Inv, Types, Routers, PortsDiffer
<1> QED BY <1>3, CallInv

\* A server that begins to listen, whether or not its port is free.
LEMMA ListenInv ==
    ASSUME Inv, NEW free \in BOOLEAN, AfterInitHTTP(free) \/ AfterInitFork(free)
    PROVE  Inv'
<1> DEFINE q == IF AfterInitHTTP(free) THEN "http" ELSE "probe"
<1>1. q \in Plugins /\ q \in Servers /\ Calling("after", q) /\ Returns(TRUE, q)
  BY DEF AfterInitHTTP, AfterInitFork, Listen, Returns, Plugins, Servers
<1>2. /\ UNCHANGED <<disabled, port, own, router, handlers, probes, gauges>> /\ UNCHANGED confVars
      /\ Listen(q, free) \/ (~own /\ q = "probe" /\ UNCHANGED <<open, bound>>)
  BY DEF AfterInitHTTP, AfterInitFork
<1> HIDE DEF q
<1>3. CASE Listen(q, free)
  BY <1>1, <1>2, <1>3, AfterInv DEF Listen, Inv, Types
<1>4. CASE ~own /\ q = "probe" /\ UNCHANGED <<open, bound>>
  BY <1>1, <1>2, <1>4, AfterInv DEF Inv, Types
<1> QED BY <1>2, <1>3, <1>4

\* Prometheus registers its handlers where the fork delegates to.
LEMMA PrometheusInv == Inv /\ AfterInitPrometheus => Inv'
<1> SUFFICES ASSUME Inv, AfterInitPrometheus PROVE Inv'
  OBVIOUS
<1>1. "prometheus" \in Plugins /\ Calling("after", "prometheus") /\ Returns(TRUE, "prometheus")
  BY DEF AfterInitPrometheus, Plugins, Returns
<1>2. \A h \in handlers' \ handlers : h[1] = Delegate
  BY DEF AfterInitPrometheus
<1> QED BY <1>1, <1>2, AfterInv DEF AfterInitPrometheus, Inv, Types

\* The gRPC server listens, or AfterInit fails.
LEMMA AfterGRPCInv ==
    ASSUME Inv, NEW free \in BOOLEAN, AfterInitGRPC(free)
    PROVE  Inv'
<1>1. PICK ok \in BOOLEAN : /\ Returns(ok, "grpc")
                            /\ open' = IF ok THEN open \cup {<<"grpc", 1>>} ELSE open
                            /\ bound' = IF ok THEN bound \cup {"grpc"} ELSE bound
  BY DEF AfterInitGRPC
<1>2. "grpc" \in Plugins /\ "grpc" \in Servers /\ Calling("after", "grpc")
  BY DEF AfterInitGRPC, Plugins, Servers
<1> QED BY <1>1, <1>2, AfterInv DEF AfterInitGRPC, Inv, Types

\* The other clients have nothing left to do.
LEMMA AfterClientInv ==
    ASSUME Inv, NEW q \in Clients, AfterInitClient(q)
    PROVE  Inv'
<1>1. q \in Plugins /\ Calling("after", q) /\ Returns(TRUE, q) /\ q \notin {"http", "probe"}
  BY DEF AfterInitClient, Plugins, Returns, Clients
<1> QED BY <1>1, AfterInv DEF AfterInitClient, serverVars, Inv, Types

\* Kafka's probe is registered only when its clients were made.
LEMMA AfterKafkaInv ==
    ASSUME Inv, NEW ok \in BOOLEAN, AfterInitKafka(ok)
    PROVE  Inv'
<1> DEFINE started == <<"kafka", 4>> \in open => ok
<1>1. "kafka" \in Plugins /\ "kafka" \in Clients /\ Calling("after", "kafka") /\ Returns(started, "kafka")
      /\ started \in BOOLEAN
  BY DEF AfterInitKafka, Plugins, Clients
<1>2. \A p \in probes' \ probes : <<p, 1>> \in open'
  <2>1. ASSUME "kafka" \notin disabled PROVE <<"kafka", 1>> \in open
    <3>1. Inited("kafka")
      BY <1>1 DEF Calling, Inited
    <3> QED BY <2>1, <3>1 DEF Inv, KafkaMade, Parts
  <2> QED BY <2>1 DEF AfterInitKafka
<1>3. probes' \subseteq Clients
  BY <1>1 DEF AfterInitKafka, Inv, Types
<1> HIDE DEF started
<1> QED BY <1>1, <1>2, <1>3, AfterInv DEF AfterInitKafka, serverVars, Inv, Types

----------------------------------------------------------------------------
\* Stop begins with the last plugin.
LEMMA StopInv == Inv /\ Stop => Inv'
<1> SUFFICES ASSUME Inv, Stop PROVE Inv'
  OBVIOUS
<1>1. Types'
  BY OrderFacts DEF Inv, Types, Stop, confVars
<1>2. StillToClose'
  BY ClosingPasses DEF Stop, Inv, Types
<1> QED
  BY <1>1, <1>2 DEF Inv, Stop, BoundOpen, ProbesHaveConnections, KafkaMade, Routers, Delegated,
     Delegate, Listening, PortsDiffer, ForkLater, Inited, Started

\* Close of a plugin releases all that it can reach, however far its start came.
LEMMA CloseInv ==
    ASSUME Inv, NEW p \in Plugins, Close(p)
    PROVE  Inv'
<1>1. phase = "closing" /\ Order[i] = p /\ i \in 0..Len(Order) /\ Len(Order) \in Nat
  BY OrderFacts DEF Close, Calling, Inv, Types
<1>2. i >= 1
  BY <1>1 DEF Inv, Types
<1>3. phase' \in {"closing", "down"} /\ i' = i - 1 /\ (phase' = "down" <=> i = 1)
  BY <1>1 DEF Close
<1>4. open' \subseteq open /\ \A x \in open' \ OutOfReach : x[1] # p
  <2>1. \A x \in Openable \ OutOfReach : x[1] = p => x \in Closes(p)
    BY DEF Openable, Closes, Parts, Clients, Servers
  <2> QED BY <2>1 DEF Close, Inv, Types
<1>5. Types'
  BY <1>1, <1>2, <1>3, <1>4 DEF Close, Inv, Types, confVars
<1>6. BoundOpen'
  <2>1. ASSUME NEW s \in Servers, s # p PROVE <<s, 1>> \notin Closes(p)
    BY <2>1 DEF Closes, Parts, Servers
  <2> QED BY <2>1 DEF Close, Inv, Types, BoundOpen
<1>7. StillToClose'
  <2>1. ASSUME NEW x \in open' \ OutOfReach PROVE \E j \in 1..(i - 1) : Order[j] = x[1]
    <3>1. PICK j \in 1..i : Order[j] = x[1]
      BY <1>1, <1>4, <2>1 DEF Inv, StillToClose
    <3>2. j # i
      BY <1>1, <1>4, <2>1, <3>1
    <3> QED BY <1>1, <3>1, <3>2
  <2>2. phase' = "down" => open' \subseteq OutOfReach
    BY <1>3, <2>1
  <2> QED BY <1>3, <2>1, <2>2 DEF StillToClose
<1> QED
  BY <1>3, <1>5, <1>6, <1>7 DEF Inv, Close, ProbesHaveConnections, KafkaMade, Routers, Delegated,
     Delegate, Listening, PortsDiffer, ForkLater, Inited, Started

\* Every step keeps the invariant.
LEMMA NextInv == Inv /\ [Next]_vars => Inv'
<1> SUFFICES ASSUME Inv, [Next]_vars PROVE Inv'
  OBVIOUS
<1>1. CASE UNCHANGED vars
  BY <1>1 DEF vars, Inv, Types, BoundOpen, ProbesHaveConnections, KafkaMade, Routers, Delegated, Delegate,
     Listening, PortsDiffer, ForkLater, StillToClose, Inited, Started, Called
<1>2. ASSUME NEW ok \in BOOLEAN, InitEtcd(ok) \/ InitRedis(ok) \/ InitCassandra(ok) PROVE Inv'
  <2>1. PICK q \in Clients \ {"kafka"} :
          /\ Calling("init", q) /\ UNCHANGED serverVars /\ UNCHANGED confVars
          /\ Connect(q, ok) \/ Skip(q) \/ (Succeeds /\ UNCHANGED <<disabled, open, probes>>)
    <3>1. CASE InitEtcd(ok)
      BY <3>1 DEF InitEtcd, Clients
    <3>2. CASE InitRedis(ok)
      BY <3>2 DEF InitRedis, Clients
    <3>3. CASE InitCassandra(ok)
      BY <3>3 DEF InitCassandra, Clients
    <3> QED BY <1>2, <3>1, <3>2, <3>3
  <2> QED BY <2>1, InitClientInv
<1>3. CASE Down
  BY <1>1, <1>3 DEF Down
<1> QED
  BY <1>1, <1>2, <1>3, InitHTTPInv, InitForkInv, InitPrometheusInv, InitGRPCInv, InitKafkaInv, ListenInv,
     PrometheusInv, AfterGRPCInv, AfterClientInv, AfterKafkaInv, StopInv, CloseInv
  DEF Next, InitStep, AfterInitStep

\* How far the agent core has come, and what the plugins have by then.
THEOREM InvHolds == Spec => []Inv
<1>1. QED BY InitInv, NextInv, PTL DEF Spec

\* The shapes of the state of the connector plugins.
THEOREM ConnectorTypes == Spec => []TypeOK
<1>1. Inv => TypeOK
  <2>1. Openable \subseteq (Clients \cup Servers) \X (1..4)
    BY DEF Openable, Parts, Clients
  <2> QED BY <2>1 DEF Inv, Types, BoundOpen, TypeOK
<1> QED BY <1>1, InvHolds, PTL

\* A registered status probe meets a connection, a registered handler a started server
\* with its router, and the fork a port of its own, whichever configurations are there
\* and whichever steps of Init and AfterInit fail.
THEOREM HandedOutIsUsable == Spec => []UsableWhenCalled
<1>1. Inv => UsableWhenCalled
  BY DEF Inv, Types, Routers, Delegated, Delegate, Listening, Inited, Started, UsableWhenCalled, HandlersServed
<1> QED BY <1>1, InvHolds, PTL

\* When the agent is down, nothing is open but Cassandra's session and Kafka's
\* asynchronous producers, which safeclose does not close, also when Init of a plugin
\* failed half way: the safety half of EndsUpOrReleased.
THEOREM DownIsReleased == Spec => []Released
<1>1. Inv => Released
  <2>1. \A s \in Servers : <<s, 1>> \notin OutOfReach
    BY DEF OutOfReach, Servers
  <2> QED BY <2>1 DEF Inv, Types, StillToClose, BoundOpen, Released
<1> QED BY <1>1, InvHolds, PTL

----------------------------------------------------------------------------
(* The clients made of configuration files. *)

\* What the code makes of a file, by the kind of the connector.
ClientOf(c) == CASE c.kind = "etcd" -> ConfigToClientv3(c)
                 [] c.kind = "redis" -> CreateClient(c)
                 [] c.kind = "cassandra" -> CreateSessionFromConfig(ConfigToClientConfig(c))

ConfInv ==
    /\ conf \in EtcdConfs \cup RedisConfs \cup CassandraConfs
    /\ client = NoClient \/ client = ClientOf(conf)

\* A client is made of its file, once.
LEMMA ConfHolds == ConfSpec => []ConfInv
<1>1. ConfInit => ConfInv
  BY DEF ConfInit, ConfInv
<1>2. ConfInv /\ [ConfNext]_clientVars => ConfInv'
  BY DEF ConfInv, ConfNext, MakeEtcd, MakeRedis, MakeCassandra, ClientOf, clientVars
<1> QED BY <1>1, <1>2, PTL DEF ConfSpec

\* createTLSConfig() fails only for a file that cannot be loaded, and uses the files it is given.
LEMMA TLSLoads ==
    ASSUME NEW t \in TLSFiles
    PROVE  /\ createTLSConfig(t).err \in BOOLEAN
           /\ createTLSConfig(t).err => "bad" \in {t.cert, t.key, t.ca}
           /\ createTLSConfig(t).roots = (t.ca # "")
           /\ createTLSConfig(t).certificate = (t.cert # "" /\ t.key # "")
  BY DEF createTLSConfig, TLSFiles

\* An etcd client.
LEMMA EtcdAsConfigured ==
    ASSUME conf \in EtcdConfs, client = ClientOf(conf)
    PROVE  ClientsAsConfigured
<1>1. conf.kind = "etcd" /\ conf.tls \in TLSFiles /\ conf.insecure \in BOOLEAN /\ conf.endpoints \in Seq(STRING)
  BY ConfsAssumption
<1>2. client = ConfigToClientv3(conf)
  BY <1>1 DEF ClientOf
<1>3. EtcdTLS(conf).conf = IF conf.insecure THEN NoTLS ELSE createTLSConfig(conf.tls)
  BY DEF EtcdTLS
<1>4. CASE EtcdTLS(conf).conf.err
  <2>1. client = Failed
    BY <1>2, <1>4 DEF ConfigToClientv3
  <2>2. ~NoTLS.err
    BY DEF NoTLS
  <2>3. "bad" \in {conf.tls.cert, conf.tls.key, conf.tls.ca}
    BY <1>1, <1>3, <1>4, <2>2, TLSLoads
  <2>4. client.err = TRUE
    BY <2>1 DEF Failed
  <2>5. KnowsAllHosts
    BY <1>1, <2>4 DEF KnowsAllHosts, Made
  <2>6. EncryptedAsAsked
    BY <2>3, <2>4 DEF EncryptedAsAsked
  <2> QED
    BY <2>5, <2>6 DEF ClientsAsConfigured
<1>5. CASE ~EtcdTLS(conf).conf.err
  <2>1. /\ client.made = TRUE /\ client.err = FALSE
        /\ client.addrs = EtcdEndpoints(conf) /\ client.tls = EtcdTLS(conf)
    BY <1>2, <1>5 DEF ConfigToClientv3
  <2>2. KnowsAllHosts
    BY <1>1, <2>1 DEF KnowsAllHosts, Made, EtcdEndpoints
  <2>3. ASSUME ~conf.insecure, conf.tls.cert # "" \/ conf.tls.key # "" \/ conf.tls.ca # ""
        PROVE  /\ client.tls.on /\ (conf.tls.ca # "" => client.tls.conf.roots)
               /\ (conf.tls.cert # "" /\ conf.tls.key # "" => client.tls.conf.certificate)
    <3>1. EtcdTLS(conf).on
      BY <2>3 DEF EtcdTLS
    <3> QED
      BY <1>1, <1>3, <2>1, <2>3, <3>1, TLSLoads
  <2>4. EncryptedAsAsked
    BY <1>1, <2>1, <2>3 DEF EncryptedAsAsked
  <2> QED
    BY <1>1, <2>2, <2>4 DEF ClientsAsConfigured
<1> QED
  BY <1>4, <1>5

\* A Redis client: a node, a cluster or a sentinel.
LEMMA RedisAsConfigured ==
    ASSUME conf \in RedisConfs, client = ClientOf(conf)
    PROVE  ClientsAsConfigured
<1>1. /\ conf.kind = "redis" /\ conf.tls \in TLSFiles /\ conf.parses \in BOOLEAN /\ conf.enabled \in BOOLEAN
      /\ conf.endpoints \in Seq(STRING)
  BY ConfsAssumption
<1>2. client = CreateClient(conf)
  BY <1>1 DEF ClientOf
<1>3. CASE LoadConfig(conf) = "err"
  <2>1. client = Failed
    BY <1>2, <1>3 DEF CreateClient
  <2> QED
    BY <1>1, <1>3, <2>1 DEF Failed, ClientsAsConfigured, KnowsAllHosts, EncryptedAsAsked, Made
<1>4. CASE LoadConfig(conf) \in {"cluster", "sentinel"}
  <2>1. client.made = TRUE /\ client.err = FALSE /\ client.addrs = conf.endpoints
    BY <1>2, <1>4 DEF CreateClient, CreateClusterClient, CreateSentinelClient
  <2>2. conf.master # "" \/ conf.endpoint = ""
    BY <1>1, <1>4 DEF LoadConfig
  <2> QED
    BY <1>1, <1>4, <2>1, <2>2 DEF ClientsAsConfigured, KnowsAllHosts, EncryptedAsAsked, Made
<1>5. CASE LoadConfig(conf) = "node"
  <2> DEFINE t == IF conf.enabled THEN createTLSConfig(conf.tls) ELSE NoTLS
  <2>1. client = CreateNodeClient(conf)
    BY <1>2, <1>5 DEF CreateClient
  <2>2. conf.master = "" /\ conf.endpoint # ""
    BY <1>1, <1>5 DEF LoadConfig
  <2>3. ~NoTLS.err
    BY DEF NoTLS
  <2>4. CASE t.err
    <3>1. client = Failed
      BY <2>1, <2>4 DEF CreateNodeClient
    <3>2. "bad" \in {conf.tls.cert, conf.tls.key, conf.tls.ca}
      BY <1>1, <2>3, <2>4, TLSLoads
    <3> QED
      BY <1>1, <3>1, <3>2 DEF Failed, ClientsAsConfigured, KnowsAllHosts, EncryptedAsAsked, Made
  <2>5. CASE ~t.err
    <3>1. /\ client.made = TRUE /\ client.err = FALSE /\ client.addrs = <<conf.endpoint>>
          /\ client.tls = [on |-> conf.enabled, conf |-> t]
      BY <2>1, <2>5 DEF CreateNodeClient
    <3>2. KnowsAllHosts
      BY <1>1, <2>2, <3>1 DEF KnowsAllHosts, Made
    <3>3. ASSUME conf.enabled
          PROVE  /\ client.tls.on /\ (conf.tls.ca # "" => client.tls.conf.roots)
                 /\ (conf.tls.cert # "" /\ conf.tls.key # "" => client.tls.conf.certificate)
      <4>1. t = createTLSConfig(conf.tls)
        BY <3>3
      <4>2. client.tls.on = conf.enabled /\ client.tls.conf = createTLSConfig(conf.tls)
        BY <3>1, <4>1
      <4> QED
        BY <1>1, <3>3, <4>2, TLSLoads
    <3>4. EncryptedAsAsked
      BY <1>1, <3>1, <3>3 DEF EncryptedAsAsked
    <3> QED
      BY <1>1, <3>2, <3>4 DEF ClientsAsConfigured
  <2> QED
    BY <2>4, <2>5
<1>6. LoadConfig(conf) \in {"err", "cluster", "sentinel", "node"}
  BY <1>1 DEF LoadConfig
<1> QED
  BY <1>3, <1>4, <1>5, <1>6

\* A Cassandra session.
LEMMA CassandraAsConfigured ==
    ASSUME conf \in CassandraConfs, client = ClientOf(conf)
    PROVE  ClientsAsConfigured
<1> DEFINE es == conf.endpoints
           cl == ConfigToClientConfig(conf)
           result == getEndpointsAndPort(es).result
<1>1. conf.kind = "cassandra" /\ es \in Seq(Seq(HostPorts))
  BY ConfsAssumption
<1>2. client = CreateSessionFromConfig(cl)
  BY <1>1 DEF ClientOf
<1>3. EncryptedAsAsked
  BY <1>1 DEF EncryptedAsAsked
<1>4. CASE Len(es) = 1 /\ es[1] # <<>>
  <2> DEFINE ps == es[1]
  <2>1. ps \in Seq(HostPorts) /\ Len(ps) \in Nat \ {0} /\ DOMAIN ps = 1..Len(ps)
    BY <1>1, <1>4
  <2>2. getEndpointsAndPort(es) = SplitEndpoints(ps)
    BY <1>1, <1>4 DEF getEndpointsAndPort
  <2>3. /\ result \in {"err", "panic", "ok"}
        /\ result = "ok" <=> \A j \in DOMAIN ps : ps[j].colon /\ ps[j].number
    <3>1. ASSUME NEW j \in DOMAIN ps PROVE ps[j].colon \in BOOLEAN /\ ps[j].number \in BOOLEAN
      <4>1. ps[j] \in HostPorts
        BY <2>1
      <4> QED BY <4>1 DEF HostPorts
    <3>2. result \in {"err", "panic", "ok"}
      BY <2>2 DEF SplitEndpoints
    <3>3. ASSUME \A j \in DOMAIN ps : ps[j].colon /\ ps[j].number PROVE result = "ok"
      <4>1. 1 \in DOMAIN ps
        BY <2>1
      <4> QED BY <2>2, <3>3, <4>1 DEF SplitEndpoints
    <3>4. ASSUME result = "ok" PROVE \A j \in DOMAIN ps : ps[j].colon /\ ps[j].number
      BY <2>2, <3>4 DEF SplitEndpoints
    <3> QED BY <3>2, <3>3, <3>4
  <2>4. CASE result # "ok"
    <3>1. cl \in {Failed, Panicked} /\ ~OneHost(conf)
      BY <1>4, <2>1, <2>3, <2>4 DEF ConfigToClientConfig, OneHost
    <3>2. client.err /\ ~OneHost(conf)
      BY <1>2, <3>1 DEF CreateSessionFromConfig, Failed, Panicked
    <3> QED BY <1>1, <1>3, <3>2 DEF ClientsAsConfigured, KnowsAllHosts, Made
  <2>5. CASE result = "ok"
    <3>1. /\ cl.made = TRUE /\ cl.err = FALSE /\ cl.hosts = SplitEndpoints(ps).hosts
          /\ cl.port = SplitEndpoints(ps).port
      BY <2>2, <2>5 DEF ConfigToClientConfig
    <3>2. cl.hosts = [j \in DOMAIN ps |-> ps[j].host] /\ cl.port = ps[Len(ps)].port
      BY <3>1 DEF SplitEndpoints, Last
    <3>3. cl.hosts \in Seq(STRING) /\ Len(cl.hosts) = Len(ps)
      <4>1. ASSUME NEW j \in 1..Len(ps) PROVE ps[j].host \in STRING
        <5>1. ps[j] \in HostPorts
          BY <2>1
        <5> QED BY <5>1 DEF HostPorts
      <4> HIDE DEF ps
      <4>2. cl.hosts \in [1..Len(ps) -> STRING]
        BY <2>1, <3>2, <4>1
      <4> QED BY <2>1, <4>2
    <3>4. CASE Len(ps) = 1
      <4>1. cl.hosts = <<ps[1].host>> /\ cl.port = ps[1].port
        BY <2>1, <3>2, <3>3, <3>4
      <4>2. client.err = FALSE /\ client.addrs = <<[joined |-> <<ps[1].host>>]>> /\ client.port = ps[1].port
        BY <1>2, <3>1, <4>1 DEF CreateSessionFromConfig, Resolves, HostsAsString
      <4>3. OneHost(conf)
        BY <1>4, <2>1, <2>3, <2>5, <3>4 DEF OneHost
      <4> QED BY <1>1, <1>3, <4>2, <4>3 DEF ClientsAsConfigured, KnowsAllHosts, Made
    <3>5. CASE Len(ps) # 1
      <4>1. client = Failed
        BY <1>2, <3>1, <3>3, <3>5 DEF CreateSessionFromConfig, Resolves, HostsAsString
      <4> QED BY <1>1, <1>3, <3>5, <4>1 DEF Failed, OneHost, ClientsAsConfigured, KnowsAllHosts, Made
    <3> QED BY <3>4, <3>5
  <2> QED BY <2>4, <2>5
<1>5. CASE Len(es) # 1 \/ es[1] = <<>>
  <2>1. result \in {"err", "panic"}
    <3>1. CASE es[1] = <<>>
      BY <3>1 DEF getEndpointsAndPort
    <3>2. CASE Len(es) # 1
      <4>1. \A n \in Nat : n # 1 => n = 0 \/ n > 1
        OBVIOUS
      <4>2. Len(es) \in Nat
        BY <1>1
      <4>3. Len(es) = 0 \/ Len(es) > 1
        BY <3>2, <4>1, <4>2
      <4> QED BY <4>3 DEF getEndpointsAndPort
    <3> QED BY <1>5, <3>1, <3>2
  <2>2. ~OneHost(conf)
    BY <1>5 DEF OneHost
  <2>3. cl \in {Failed, Panicked}
    BY <2>1 DEF ConfigToClientConfig
  <2>4. client.err
    BY <1>2, <2>3 DEF CreateSessionFromConfig, Failed, Panicked
  <2> QED BY <1>1, <1>3, <2>2, <2>4 DEF ClientsAsConfigured, KnowsAllHosts, Made
<1> QED BY <1>4, <1>5

\* Whatever its file holds, a client has the hosts and the encryption that the file asks
\* for, or making it fails; a Cassandra session is made exactly of a file with one host.
THEOREM ClientsFollowTheirFiles == ConfSpec => []ClientsAsConfigured
<1>1. ConfInv => ClientsAsConfigured
  <2>1. ASSUME client = NoClient PROVE ClientsAsConfigured
    BY <2>1 DEF NoClient, ClientsAsConfigured, KnowsAllHosts, EncryptedAsAsked, Made
  <2> QED
    BY <2>1, EtcdAsConfigured, RedisAsConfigured, CassandraAsConfigured DEF ConfInv
<1> QED BY <1>1, ConfHolds, PTL
=============================================================================
