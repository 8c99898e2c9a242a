------------------------------- MODULE Flavors -------------------------------
(***************************************************************************)
(* How an agent is put together.  A flavor is a structure of plugins and   *)
(* of other flavors; its Inject gives the plugins their dependencies and   *)
(* its Plugins lists them.  core.Inject combines flavors into one, and     *)
(* NewAgent lists the plugins, injects once more, applies the options and  *)
(* chooses the logger of the agent.  Loggers of a registry and flags of    *)
(* the process have unique names: making one a second time panics.         *)
(***************************************************************************)
EXTENDS Naturals, FiniteSets, Sequences, SequencesExt

CONSTANTS Setups,      \* calls of NewAgent: [flavors, local, opts], see SetupsAssumption
          UserFields,  \* UserFields[f]: exported fields of the user's flavor f: [name, what, val]
          Nil,         \* the nil pointer
          MaxStartup   \* the default time limit of the start-up, 15 s

(* A flavor is <<kind, number>>, a plugin <<flavor, name of the field>>; "rpc" and *)
(* "conn" embed a local flavor, a "user" flavor embeds one or both of them.        *)
Kind(f) == f[1]

ASSUME SetupsAssumption ==
    \A s \in Setups : /\ Len(s.flavors) > 0 /\ \A i \in DOMAIN s.flavors : s.flavors[i] \in DOMAIN s.local
                      /\ \A f \in DOMAIN s.local : Kind(f) \in {"local", "rpc", "conn", "user"}

VARIABLES
    setup,       \* the call of NewAgent
    pc, k,       \* "combine", "plugins", "inject", "options", "logger", "done" or "panic"; loop index
    world,       \* what Inject leaves behind, see World
    plugins,     \* the list of [name, plugin] of the agent
    fromFlavors, \* its length when the options are next
    maxStartup,  \* time limit of the start-up
    logger       \* registry that the logger of the agent is from, Nil for the standard logger

vars == <<setup, pc, k, world, plugins, fromFlavors, maxStartup, logger>>

----------------------------------------------------------------------------
(* Inject.  A world has the flavors that are injected, the embedded local    *)
(* flavor of each, <<registry, name>> of loggers, flags of the process,      *)
(* <<plugin, dependency, late>>, the transport of a local flavor's status    *)
(* check, and whether the process panicked.                                  *)

World(local) == [injected |-> {}, local |-> local, loggers |-> {}, flags |-> {}, deps |-> {},
                 transport |-> [l \in {} |-> Nil], panic |-> FALSE]

\* Registry.NewLogger through logging.ForPlugin: a name that exists panics.
LoggerFor(w, l, name) ==
    [w EXCEPT !.panic = @ \/ <<l, name>> \in w.loggers, !.loggers = @ \cup {<<l, name>>}]

\* flag.String panics for a flag that is declared; ForPlugin and declareFlags look it up before.
DeclarePortFlag(w, name) ==
    [w EXCEPT !.panic = @ \/ <<"port", name>> \in w.flags, !.flags = @ \cup {<<"port", name>>}]
ForPlugin(w, name) == [w EXCEPT !.flags = @ \cup {<<"config", name>>}]

LocalFields == {"Logs", "ServiceLabel", "StatusCheck"}
PluginOf(l, f, n) == IF n \in LocalFields THEN <<l, n>> ELSE <<f, n>>

\* One paragraph of an Inject: InfraDeps or LogDeps for a field, its flags, what the plugin
\* needs from the start and what it uses only once every plugin is initialised.
Wire(w, l, f, p) ==
    LET logged == LoggerFor(IF p.port THEN DeclarePortFlag(w, p.name) ELSE w, l, p.name)
        conf   == IF p.conf THEN ForPlugin(logged, p.name) ELSE logged
        Need(ns, late) == {<<PluginOf(l, f, p.of), PluginOf(l, f, n), late>> : n \in ns}
    IN  [conf EXCEPT !.deps = @ \cup Need(p.needs, FALSE) \cup Need(p.late, TRUE)]

Item(of, name, port, conf, needs, late) ==
    [of |-> of, name |-> name, port |-> port, conf |-> conf, needs |-> needs, late |-> late]
InfraDeps == {"StatusCheck", "ServiceLabel"}

RPCWiring == <<
    Item("HTTP", "http", TRUE, TRUE, {}, {}),
    Item("GRPC", "grpc", TRUE, TRUE, {}, {}),
    Item("HTTPProbe", "http-probe", TRUE, TRUE, {"HTTP"}, {}),
    Item("HealthRPC", "health-rpc", FALSE, FALSE, InfraDeps \cup {"HTTPProbe"}, {}),
    Item("PrometheusRPC", "health-prometheus-rpc", FALSE, FALSE, InfraDeps \cup {"HTTPProbe"}, {}) >>

KVDBSync(of, name, db) == Item(of, name, FALSE, FALSE, {db, "ServiceLabel"}, {"ResyncOrch"})
ConnectorWiring == <<
    Item("ETCD", "etcdv3", FALSE, TRUE, InfraDeps, {}), KVDBSync("ETCDDataSync", "etcdv3-datasync", "ETCD"),
    Item("Redis", "redis", FALSE, TRUE, InfraDeps, {}), KVDBSync("RedisDataSync", "redis-datasync", "Redis"),
    Item("Kafka", "kafka", FALSE, TRUE, InfraDeps, {}), Item("Cassandra", "cassandra", FALSE, TRUE, InfraDeps, {}),
    Item("ResyncOrch", "resync-orch", FALSE, FALSE, {}, {}) >>

\* FlavorLocal.Inject: a second call does nothing.
InjectLocal(w, l) ==
    IF l \in w.injected THEN w
    ELSE LET marked == [w EXCEPT !.injected = @ \cup {l}]
         IN  LoggerFor(ForPlugin(LoggerFor(marked, l, "logs"), "logs"), l, "status-check")

\* The local flavor that an Inject makes when none was given.
FreshLocal(f) == <<"local", IF Kind(f) = "rpc" THEN 10 + f[2] ELSE 20 + f[2]>>
WithLocal(w, f) ==
    LET l == IF w.local[f] = Nil THEN FreshLocal(f) ELSE w.local[f]
    IN  InjectLocal([w EXCEPT !.local[f] = l, !.injected = @ \cup {f}], l)

InjectRPC(w, f) ==
    IF f \in w.injected THEN w
    ELSE LET v == WithLocal(w, f) l == v.local[f]
         IN  FoldLeft(LAMBDA a, p : Wire(a, l, f, p), [v EXCEPT !.deps = @ \cup {<<<<l, "Logs">>, <<f, "HTTP">>, TRUE>>}],
                      RPCWiring)

\* InjectKVDBSync gives the status check its transport unless it has one.
SetTransport(w, l, p) ==
    IF l \in DOMAIN w.transport THEN w
    ELSE [w EXCEPT !.transport = [x \in DOMAIN @ \cup {l} |-> IF x = l THEN p ELSE @[x]],
                   !.deps = @ \cup {<<<<l, "StatusCheck">>, p, TRUE>>}]

InjectConnectors(w, f) ==
    IF f \in w.injected THEN w
    ELSE LET v == WithLocal(w, f) l == v.local[f]
             WireSync(a, p) == IF "ResyncOrch" \in p.late THEN SetTransport(Wire(a, l, f, p), l, <<f, p.of>>)
                               ELSE Wire(a, l, f, p)
         IN  FoldLeft(WireSync, v, ConnectorWiring)

\* A user's flavor calls Inject of the flavors it embeds, in any case only once.
InjectUser(w, f) ==
    LET Embedded(a, x) == CASE x.what # "flavor" \/ x.val = Nil -> a
                            [] Kind(x.val) = "rpc"   -> InjectRPC(a, x.val)
                            [] Kind(x.val) = "conn"  -> InjectConnectors(a, x.val)
                            [] Kind(x.val) = "local" -> InjectLocal(a, x.val)
    IN  IF f \in w.injected THEN w
        ELSE FoldLeft(Embedded, [w EXCEPT !.injected = @ \cup {f}], UserFields[f])

Inject(w, f) == CASE Kind(f) = "local" -> InjectLocal(w, f)
                  [] Kind(f) = "rpc"   -> InjectRPC(w, f)
                  [] Kind(f) = "conn"  -> InjectConnectors(w, f)
                  [] Kind(f) = "user"  -> InjectUser(w, f)

\* flavorAggregator.Inject: "ret || f.Inject()" calls no Inject after one that did something.
InjectAll(w, fs) ==
    FoldLeft(LAMBDA a, f : IF a.injected # w.injected THEN a ELSE Inject(a, f), w, fs)

----------------------------------------------------------------------------
(* ListPluginsInFlavor. *)

PluginField(f, n) == [name |-> n, what |-> "plugin", val |-> <<f, n>>]
LocalField(w, f) == [name |-> "FlavorLocal", what |-> "flavor", val |-> w.local[f]]
PluginFields(f, ns) == [i \in DOMAIN ns |-> PluginField(f, ns[i])]

\* The exported fields of a flavor, in the order of the structure.
LocalStruct(f) == PluginFields(f, <<"Logs", "ServiceLabel", "StatusCheck">>)
RPCStruct(w, f) ==
    <<LocalField(w, f)>> \o PluginFields(f, <<"HTTP", "HTTPProbe", "HealthRPC", "PrometheusRPC", "GRPC">>)
\* Mutant: the synchronisation before its database.
SyncBeforeDB(w, f) ==
    <<LocalField(w, f)>> \o PluginFields(f, <<"ETCDDataSync", "ETCD", "Kafka", "Redis", "RedisDataSync",
                                               "Cassandra", "ResyncOrch">>)
ConnectorStruct(w, f) ==
    <<LocalField(w, f)>> \o PluginFields(f, <<"ETCD", "ETCDDataSync", "Kafka", "Redis", "RedisDataSync",
                                               "Cassandra", "ResyncOrch">>)
Fields(w, f) == CASE Kind(f) = "local" -> LocalStruct(f)
                  [] Kind(f) = "rpc"   -> RPCStruct(w, f)
                  [] Kind(f) = "conn"  -> ConnectorStruct(w, f)
                  [] Kind(f) = "user"  -> UserFields[f]

\* fieldPlugin: the plugin of a field, which may be nil, and whether it is one at all.
fieldPlugin(x) == [plug |-> IF x.what = "plugin" THEN x.val ELSE Nil, implementsPlugin |-> x.what = "plugin"]

\* A plugin that was met before, under whatever name, is left out; a nil plugin, a nil flavor
\* and a field that is neither are passed over.
RECURSIVE listPluginsInFlavor(_, _, _)
listPluginsInFlavor(w, f, uniqueness) ==
    LET Visit(acc, x) ==
            LET fp == fieldPlugin(x)
                l  == listPluginsInFlavor(w, x.val, acc.uniqueness)
            IN  CASE fp.implementsPlugin /\ (fp.plug = Nil \/ fp.plug \in acc.uniqueness) -> acc
                  [] fp.implementsPlugin /\ fp.plug # Nil /\ fp.plug \notin acc.uniqueness ->
                        [res |-> Append(acc.res, [name |-> x.name, plugin |-> fp.plug]),
                         uniqueness |-> acc.uniqueness \cup {fp.plug}]
                  [] x.what = "flavor" -> [res |-> acc.res \o l.res, uniqueness |-> l.uniqueness]
                  [] x.what = "other" -> acc
        none == [res |-> <<>>, uniqueness |-> uniqueness]
    IN  IF f = Nil THEN none ELSE FoldLeft(Visit, none, Fields(w, f))

ListPluginsInFlavor(w, f) == listPluginsInFlavor(w, f, {}).res

\* appendDiff: a plugin whose name is taken by an earlier flavor is dropped.
appendDiff(existing, new) ==
    FoldLeft(LAMBDA a, p : IF \E i \in DOMAIN a : a[i].name = p.name THEN a ELSE Append(a, p), existing, new)

----------------------------------------------------------------------------
(* core.Inject and NewAgent. *)

flavors == setup.flavors
Combined == Len(flavors) > 1

Init ==
    /\ setup \in Setups
    /\ pc = (IF Len(setup.flavors) > 1 THEN "combine" ELSE "plugins") /\ k = 1
    /\ world = World(setup.local) /\ plugins = <<>> /\ fromFlavors = 0
    /\ maxStartup = MaxStartup /\ logger = Nil

Goes(w, next) == world' = w /\ pc' = IF w.panic THEN "panic" ELSE next

\* core.Inject(fs...), called for the argument of NewAgent.
Combine ==
    /\ pc = "combine" /\ Goes(InjectAll(world, flavors), "plugins")
    /\ UNCHANGED <<setup, k, plugins, fromFlavors, maxStartup, logger>>

\* Plugins of the next flavor: it injects itself and lists its plugins.
Plugins ==
    LET w == Inject(world, flavors[k]) l == ListPluginsInFlavor(w, flavors[k])
    IN  /\ pc = "plugins"
        /\ plugins' = IF Combined THEN appendDiff(plugins, l) ELSE l
        /\ IF k < Len(flavors) THEN Goes(w, "plugins") /\ k' = k + 1 ELSE Goes(w, "inject") /\ k' = 1
        /\ UNCHANGED <<setup, fromFlavors, maxStartup, logger>>

InjectAgain ==
    /\ pc = "inject"
    /\ Goes(IF Combined THEN InjectAll(world, flavors) ELSE Inject(world, flavors[1]), "options")
    /\ fromFlavors' = Len(plugins)
    /\ UNCHANGED <<setup, k, plugins, maxStartup, logger>>

Option(kind) == pc = "options" /\ k <= Len(setup.opts) /\ setup.opts[k].opt = kind

\* WithTimeout: only a positive limit counts.
WithTimeout ==
    /\ Option("timeout") /\ k' = k + 1
    /\ maxStartup' = IF setup.opts[k].value > 0 THEN setup.opts[k].value ELSE maxStartup
    /\ UNCHANGED <<setup, pc, world, plugins, fromFlavors, logger>>

\* WithLogger: the choice made after the loop replaces it in any case.
WithLogger ==
    /\ Option("logger") /\ k' = k + 1
    /\ UNCHANGED <<setup, pc, world, plugins, fromFlavors, maxStartup, logger>>

\* WithPlugin appends the plugin, whatever is in the list.
WithPlugin ==
    /\ Option("plugin") /\ k' = k + 1
    /\ plugins' = Append(plugins, [name |-> setup.opts[k].name, plugin |-> setup.opts[k].plugin])
    /\ UNCHANGED <<setup, pc, world, fromFlavors, maxStartup, logger>>

\* WithPlugins of a package, the same for the three of them: its callback gets the first flavor of
\* the package's kind and makes a plugin that uses a plugin of that flavor; without one it panics.
FlavorsOf(kind, fs) == SelectSeq(fs, LAMBDA f : Kind(f) = kind)
Callback(opt, fs) ==
    IF FlavorsOf(opt.kind, fs) = <<>> THEN [panic |-> TRUE, deps |-> {}]
    ELSE [panic |-> FALSE, deps |-> {<<opt.plugin, <<FlavorsOf(opt.kind, fs)[1], opt.need>>, FALSE>>}]

WithPlugins ==
    LET c == Callback(setup.opts[k], flavors)
    IN  /\ Option("plugins") /\ k' = k + 1
        /\ Goes([world EXCEPT !.panic = c.panic, !.deps = @ \cup c.deps], "options")
        /\ plugins' = Append(plugins, [name |-> setup.opts[k].name, plugin |-> setup.opts[k].plugin])
        /\ UNCHANGED <<setup, fromFlavors, maxStartup, logger>>

\* LogRegistry of a flavor; that of combined flavors forgets to return the first one's.
RegistryOf(w, f) == CASE Kind(f) = "local" -> f
                      [] Kind(f) \in {"rpc", "conn"} -> w.local[f]
                      [] Kind(f) = "user" -> Nil
LogRegistry == IF Combined THEN Nil ELSE RegistryOf(world, flavors[1])

\* The end of NewAgent: a logger "agentcore" of the flavor's registry.
NewAgent ==
    /\ pc = "options" /\ k > Len(setup.opts) /\ logger' = LogRegistry
    /\ Goes(IF LogRegistry = Nil THEN world ELSE LoggerFor(world, LogRegistry, "agentcore"), "done")
    /\ UNCHANGED <<setup, k, plugins, fromFlavors, maxStartup>>

Next == Combine \/ Plugins \/ InjectAgain \/ WithTimeout \/ WithLogger \/ WithPlugin \/ WithPlugins \/ NewAgent

Spec == Init /\ [][Next]_vars

----------------------------------------------------------------------------
(* Properties. *)

\* The variables have their types.
TypeOK ==
    /\ setup \in Setups /\ pc \in {"combine", "plugins", "inject", "options", "done", "panic"}
    /\ k \in 1..(Len(setup.flavors) + Len(setup.opts) + 1) /\ fromFlavors \in 0..Len(plugins)
    /\ maxStartup \in Nat \ {0} /\ world.panic \in BOOLEAN
    /\ \A i \in DOMAIN plugins : DOMAIN plugins[i] = {"name", "plugin"}

\* All flavors that the call reaches, directly or embedded.
RECURSIVE Reaches(_, _)
Reaches(w, f) ==
    {f} \cup UNION {Reaches(w, x.val) : x \in {y \in Range(Fields(w, f)) : y.what = "flavor" /\ y.val # Nil}}
Reached == UNION {Reaches(world, flavors[i]) : i \in DOMAIN flavors}
FieldsReached == UNION {{x \in Range(Fields(world, f)) : x.what = "plugin" /\ x.val # Nil} : f \in Reached}
OneLocal == Cardinality({f \in Reached : Kind(f) = "local"}) = 1
NamesDiffer == \A x, y \in FieldsReached : x.name = y.name => x.val = y.val

\* The agent starts every plugin of its flavors exactly once: no plugin that a field of a flavor,
\* direct or embedded, leads to is missing or listed twice, however the flavors share a local
\* flavor or a plugin, unless combined flavors use one name for two plugins.
ListedOnce ==
    pc = "done" => LET listed == SubSeq(plugins, 1, fromFlavors)
                   IN  /\ \A i, j \in DOMAIN listed : listed[i].plugin = listed[j].plugin => i = j
                       /\ \A x \in FieldsReached : \E i \in DOMAIN listed :
                              listed[i].plugin = x.val \/ (Combined /\ listed[i].name = x.name)
                       /\ Combined /\ NamesDiffer => \A i, j \in DOMAIN listed : listed[i].name = listed[j].name => i = j

\* When the flavors share one local flavor, whatever was injected into a plugin of the agent is a
\* plugin of the agent as well, and one that its Init may use comes before it in the list.
DependenciesFirst ==
    pc = "done" /\ OneLocal /\ NamesDiffer =>
        \A d \in world.deps, i \in DOMAIN plugins :
            plugins[i].plugin = d[1] => \E j \in DOMAIN plugins : plugins[j].plugin = d[2] /\ (d[3] \/ j < i)

\* The resync orchestrator comes after every plugin that registers with it: the resync that its
\* AfterInit starts finds their registrations.
ResyncComesLast ==
    pc = "done" => \A i, j \in DOMAIN plugins :
        plugins[i].plugin[2] = "ResyncOrch" /\ <<plugins[j].plugin, plugins[i].plugin, TRUE>> \in world.deps => j < i

\* Injecting each flavor again and again never makes a logger or a flag twice.  The process panics
\* only for an option without its flavor, two RPC flavors (the flags of their ports), or two
\* connector flavors with one local flavor (the loggers of its registry).
PanicsOnlyOnClash ==
    pc = "panic" =>
        \/ \E i \in DOMAIN setup.opts : setup.opts[i].opt = "plugins" /\ \A f \in Range(flavors) : Kind(f) # setup.opts[i].kind
        \/ \E f, g \in Reached : f # g /\ Kind(f) = "rpc" /\ Kind(g) = "rpc"
        \/ \E f, g \in Reached : f # g /\ Kind(f) = "conn" /\ Kind(g) = "conn" /\ world.local[f] = world.local[g]

\* NewAgent hands the agent each plugin once, after those it needs and before the
\* orchestrator, or panics for one of three reasons.
ListedInOrder == ListedOnce /\ DependenciesFirst /\ ResyncComesLast /\ PanicsOnlyOnClash

\* Documentation of LogRegistry of combined flavors: the registry of the first flavor.
FirstFlavorLogs == pc = "done" => logger = RegistryOf(world, flavors[1])
=============================================================================
