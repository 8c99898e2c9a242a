------------------------------- MODULE Logging -------------------------------
(***************************************************************************)
(* The loggers (logging/logrus), their registry, the manager of their      *)
(* levels (logging/logmanager) and the stopwatch that prints through one   *)
(* of them (logging/measure).  Goroutines make loggers, set levels, tags   *)
(* and static fields, and log, all without a lock: the registry, the tags  *)
(* and the fields are sync.Maps, whose single operations are atomic, and   *)
(* the level is a plain word.  NewLogger looks a name up before it stores  *)
(* it; a log call looks at the level in Logger and again in Entry; a time  *)
(* is appended to a slice by reading and writing it; PrintLog, which any   *)
(* number of goroutines may run at once, ranges over the times and then    *)
(* replaces the table.                                                     *)
(*                                                                         *)
(* Levels are logrus': 0 panic, 1 fatal, 2 error, 3 warning, 4 info,       *)
(* 5 debug.  Timing shares nothing with the rest but the level of the      *)
(* logger it prints through, and fields and tags nothing with the manager, *)
(* so that a behaviour is about one of: levels, fields, times.             *)
(* The plain, ...f and ...ln methods of a level are one, but for Print.    *)
(* The field "loc" and the formatting of lines are left out, and so is     *)
(* what becomes of a sync.Map that is overwritten within one of its own    *)
(* operations (its mutex is overwritten too): they are atomic here.        *)
(***************************************************************************)
EXTENDS Naturals, Sequences, FiniteSets, SequencesExt

CONSTANTS Goroutines,
          Names, DefaultName, \* names of loggers, that of the default one among them
          Ids, Default, \* loggers that can be made; the default one
          Conf,       \* configuration of the manager: a sequence of <<name, level>>
          NewLevels,  \* levels that applications and HTTP requests set
          Calls,      \* levels of the log calls
          Timed, Entries, TimeLogs, \* names that are timed, times logged, TimeLog objects
          MaxFields, MaxCalls, \* bounds: static fields of all loggers, log calls at a time
          None

Levels == 0..5
Info == 4
Keys == {"user", "tag", "logger"}

ASSUME LoggingAssumption ==
    /\ DefaultName \in Names /\ NewLevels \subseteq Levels /\ Calls \subseteq Levels
    /\ \A i \in DOMAIN Conf : Conf[i][1] \in Names /\ Conf[i][2] \in Levels \cup {None}
    /\ \A S \in {Ids, Names, Goroutines, TimeLogs, Keys} : None \notin S
    /\ Default \in Ids /\ MaxFields \in Nat /\ MaxCalls \in Nat

VARIABLES
    about,    \* "levels", "fields" or "times"
    reg,      \* reg[n]: the logger registered under name n, or None
    name,     \* name[d]: the name logger d was made with, or None
    level,    \* level[d]
    static,   \* static[d]: keys of its static fields
    tag,      \* goroutines that have set a tag with every logger
    busy,     \* busy[g]: what goroutine g is about
    phase, at, \* the manager: "init", "after" or "up", and the next line of Conf
    table, times, \* the stopwatch: name to TimeLog, and the entries of a TimeLog
    printed,  \* the times printed by a PrintLog that has ended
    ghost     \* what has happened, for the properties

logVars == <<about, reg, name, level, static, tag>>
manVars == <<phase, at>>
swVars == <<table, times, printed>>
vars == <<about, reg, name, level, static, tag, busy, phase, at, table, times, printed, ghost>>

Idle == [op |-> "idle"]

\* The default logger is the one every registry starts with; the stopwatch prints
\* through it.
Init ==
    /\ about \in {"levels", "fields", "times"}
    /\ reg = [n \in Names |-> IF n = DefaultName THEN Default ELSE None]
    /\ name = [d \in Ids |-> IF d = Default THEN DefaultName ELSE None]
    /\ level = [d \in Ids |-> Info] /\ static = [d \in Ids |-> {}] /\ tag = {}
    /\ busy = [g \in Goroutines |-> Idle] /\ phase = (IF about = "levels" THEN "init" ELSE "up") /\ at = 1
    /\ table = [n \in Timed |-> None] /\ times = [t \in TimeLogs |-> {}] /\ printed = {}
    /\ ghost = [raced |-> {}, set |-> {}, early |-> {}, hurt |-> {}, mute |-> {}]

Is(g, op) == busy[g].op = op
Becomes(g, b) == busy' = [busy EXCEPT ![g] = b]

----------------------------------------------------------------------------
(* The registry. *)

\* Mutant: the name is not looked up.
NewLoggerAlways(g, n) ==
    /\ about # "times" /\ Is(g, "idle") /\ Becomes(g, [op |-> "make", n |-> n])
    /\ ghost' = [ghost EXCEPT !.raced = IF \E h \in Goroutines : Is(h, "make") /\ busy[h].n = n THEN @ \cup {n} ELSE @]
    /\ UNCHANGED logVars /\ UNCHANGED manVars /\ UNCHANGED swVars

\* logRegistry.NewLogger: a name that is taken panics.
NewLogger(g, n) ==
    /\ about # "times" /\ Is(g, "idle") /\ reg[n] = None /\ Becomes(g, [op |-> "make", n |-> n])
    /\ ghost' = [ghost EXCEPT !.raced = IF \E h \in Goroutines : Is(h, "make") /\ busy[h].n = n THEN @ \cup {n} ELSE @]
    /\ UNCHANGED logVars /\ UNCHANGED manVars /\ UNCHANGED swVars

\* The logger is made, at level info and with the tag of the main thread, and stored.
putLogger(g, d) ==
    /\ Is(g, "make") /\ name[d] = None /\ Becomes(g, Idle)
    /\ name' = [name EXCEPT ![d] = busy[g].n] /\ reg' = [reg EXCEPT ![busy[g].n] = d]
    /\ UNCHANGED <<about, level, static, tag, ghost>> /\ UNCHANGED manVars /\ UNCHANGED swVars

\* ClearRegistry: the loggers live on with those who hold them.
ClearRegistry(n) ==
    /\ n # DefaultName /\ reg[n] # None /\ reg' = [reg EXCEPT ![n] = None]
    /\ UNCHANGED <<about, name, level, static, tag, busy, ghost>> /\ UNCHANGED manVars /\ UNCHANGED swVars

\* Running calls with logger d see level l.
Seeing(d, l) ==
    [g \in Goroutines |-> IF Is(g, "call") /\ busy[g].d = d
        THEN [busy[g] EXCEPT !.ever = @ \/ l >= busy[g].l, !.always = @ /\ l >= busy[g].l] ELSE busy[g]]

\* The order of LogLevel is the other way round: logRegistry.SetLevel converts to it,
\* Logger.SetLevel back.
ToLogLevel(l) == 5 - l
ToLogrus(l) == 5 - l

\* Logger.SetLevel with level l of LogLevel.
SetLevelOf(d, l) == level' = [level EXCEPT ![d] = ToLogrus(l)] /\ busy' = Seeing(d, ToLogrus(l))

\* SetLevel by an application that holds the logger, or by an HTTP request.
SetLevel(d, l) ==
    /\ name[d] # None /\ SetLevelOf(d, ToLogLevel(l)) /\ ghost' = [ghost EXCEPT !.set = IF phase = "init" \/ about # "levels" THEN @ ELSE @ \cup {d}]
    /\ UNCHANGED <<about, reg, name, static, tag>> /\ UNCHANGED manVars /\ UNCHANGED swVars

logLevelHandler(n, l) == phase = "up" /\ reg[n] # None /\ SetLevel(reg[n], l)

----------------------------------------------------------------------------
(* The manager. *)

\* logRegistry.SetLevel of the present line of Conf: no change for a level that does
\* not parse, nor for a name that is not registered.
Configure ==
    LET d == reg[Conf[at][1]] l == Conf[at][2] IN
    IF d # None /\ l # None THEN SetLevelOf(d, ToLogLevel(l)) ELSE UNCHANGED <<level, busy>>

\* Plugin.Init of the manager, one line of Conf per step.
ManagerInit ==
    /\ phase = "init" /\ at <= Len(Conf) /\ Configure /\ at' = at + 1
    /\ UNCHANGED <<about, reg, name, static, tag, phase, ghost>> /\ UNCHANGED swVars

\* The other plugins are initialised; then AfterInit goes through Conf once more.
AfterInitBegins ==
    /\ phase = "init" /\ at > Len(Conf) /\ phase' = "after" /\ at' = 1
    /\ ghost' = [ghost EXCEPT !.early = {d \in Ids : name[d] # None}]
    /\ UNCHANGED logVars /\ UNCHANGED busy /\ UNCHANGED swVars

ManagerAfterInit ==
    /\ phase = "after" /\ at <= Len(Conf) /\ Configure /\ at' = at + 1
    /\ UNCHANGED <<about, reg, name, static, tag, phase, ghost>> /\ UNCHANGED swVars

\* The HTTP handlers are registered at its end.
AfterInitEnds ==
    /\ phase = "after" /\ at > Len(Conf) /\ phase' = "up" /\ UNCHANGED at
    /\ UNCHANGED logVars /\ UNCHANGED <<busy, ghost>> /\ UNCHANGED swVars

----------------------------------------------------------------------------
(* Logging. *)

SetTag(g) == Is(g, "idle") /\ tag' = tag \cup {g} /\ UNCHANGED <<about, reg, name, level, static, busy, ghost>>
ClearTag(g) == Is(g, "idle") /\ tag' = tag \ {g} /\ UNCHANGED <<about, reg, name, level, static, busy, ghost>>
SetStaticFields(d, k) ==
    /\ name[d] # None /\ Cardinality({s \in Ids \X Keys : s[2] \in static[s[1]]}) < MaxFields
    /\ static' = [static EXCEPT ![d] = @ \cup {k}]
    /\ UNCHANGED <<about, reg, name, level, tag, busy, ghost>>

\* SetTag, ClearTag and SetStaticFields concern nothing else.
Settings ==
    /\ about = "fields"
    /\ \/ \E g \in Goroutines : SetTag(g) \/ ClearTag(g)
       \/ \E d \in Ids, k \in Keys : SetStaticFields(d, k)
    /\ UNCHANGED manVars /\ UNCHANGED swVars

\* GetTag: that of the goroutine, else that of the main thread.
GetTag(g) == IF g \in tag THEN g ELSE "main"

\* Mutant: the static fields are put over the given ones.
StaticLast(d, given, g) ==
    [k \in Keys |-> IF k = "logger" THEN name[d]
                    ELSE IF k \in static[d] THEN "static"
                    ELSE IF k \in DOMAIN given THEN given[k]
                    ELSE IF k = "tag" THEN GetTag(g) ELSE None]

\* withFields: the static fields, over them the given ones, the tag if there is none,
\* and the name of the logger in any case.
withFields(d, given, g) ==
    [k \in Keys |-> IF k = "logger" THEN name[d]
                    ELSE IF k \in DOMAIN given THEN given[k]
                    ELSE IF k \in static[d] THEN "static"
                    ELSE IF k = "tag" THEN GetTag(g) ELSE None]

\* header: the tag is a given field.
header(g) == [k \in {"tag"} |-> GetTag(g)]

\* How a line is asked for: by a method of Logger, of an Entry with fields, or by Print.
Call(g, d, l, by, fields) ==
    Becomes(g, [op |-> "call", d |-> d, l |-> l, by |-> by, ever |-> level[d] >= l, always |-> level[d] >= l,
                tag |-> GetTag(g), static |-> static[d], fields |-> fields])

MayCall(g, d) ==
    about # "times" /\ Is(g, "idle") /\ name[d] # None /\ Cardinality({h \in Goroutines : Is(h, "call")}) < MaxCalls

\* A log call of Logger with level l: nothing happens below the level.  Printf and
\* Println, of level info, leave the question to Entry.
Log(g, d, l, checked) ==
    /\ MayCall(g, d)
    /\ ~checked => l = Info
    /\ IF checked /\ level[d] < l THEN UNCHANGED busy ELSE Call(g, d, l, "logger", withFields(d, header(g), g))
    /\ UNCHANGED logVars /\ UNCHANGED manVars /\ UNCHANGED ghost /\ UNCHANGED swVars

\* Logger.Print goes to the logger of logrus itself, past header and withFields: its line
\* has no name, no tag and no static field, and the level is looked at once, by logrus.
PrintLine(g, d) ==
    /\ MayCall(g, d) /\ Call(g, d, Info, "print", [k \in Keys |-> None])
    /\ UNCHANGED logVars /\ UNCHANGED manVars /\ UNCHANGED ghost /\ UNCHANGED swVars

\* WithField or WithFields, and a log call of the Entry it returns.
LogWithFields(g, d, l) ==
    /\ MayCall(g, d)
    /\ Call(g, d, l, "entry", withFields(d, [k \in {"user"} |-> "given"], g))
    /\ UNCHANGED logVars /\ UNCHANGED manVars /\ UNCHANGED ghost /\ UNCHANGED swVars

\* Entry looks at the level again.
Allows(b) == level[b.d] >= b.l

\* The method of Entry: the line is written, or not.  (Fatal then ends the process, and
\* Panic the goroutine, which has nothing else to do here.)
EntryWrites(g, written) ==
    /\ Is(g, "call") /\ written = Allows(busy[g]) /\ Becomes(g, Idle)
    /\ UNCHANGED logVars /\ UNCHANGED manVars /\ UNCHANGED ghost /\ UNCHANGED swVars

----------------------------------------------------------------------------
(* The stopwatch. *)

Timing == {g \in Goroutines : Is(g, "timelog") \/ Is(g, "append")}
InHand(S) == {busy[g].e : g \in S}
Running == \E g \in Goroutines : Is(g, "print")

\* Where TimeLogs are taken from: one that is not in use.
Unused(t) == times[t] = {} /\ (\A n \in Timed : table[n] # t) /\ \A g \in Timing : busy[g].t # t

Logged == UNION {times[t] : t \in TimeLogs} \cup ghost.hurt

\* GetTimeLog: LoadOrStore.
GetTimeLog(g, n, e, t) ==
    /\ about = "times" /\ Is(g, "idle") /\ e \notin Logged \cup InHand(Timing)
    /\ IF table[n] = None THEN Unused(t) ELSE t = table[n]
    /\ table' = [table EXCEPT ![n] = t]
    /\ Becomes(g, [op |-> "timelog", t |-> t, e |-> e])
    /\ ghost' = IF Running THEN [ghost EXCEPT !.hurt = @ \cup {e}] ELSE ghost
    /\ UNCHANGED logVars /\ UNCHANGED manVars /\ UNCHANGED <<times, printed>>

\* LogTimeEntry reads the slice ...
LogTimeEntry(g) ==
    /\ Is(g, "timelog")
    /\ LET others == {h \in Timing : Is(h, "append") /\ busy[h].t = busy[g].t} IN
         ghost' = IF others = {} THEN ghost ELSE [ghost EXCEPT !.hurt = @ \cup InHand(others) \cup {busy[g].e}]
    /\ Becomes(g, [op |-> "append", t |-> busy[g].t, e |-> busy[g].e, base |-> times[busy[g].t]])
    /\ UNCHANGED logVars /\ UNCHANGED manVars /\ UNCHANGED swVars

\* ... and stores it with the entry behind what it has read.
Appended(b) == b.base \cup {b.e}

TimeStored(g) ==
    /\ Is(g, "append") /\ Becomes(g, Idle)
    /\ times' = [times EXCEPT ![busy[g].t] = Appended(busy[g])]
    /\ UNCHANGED logVars /\ UNCHANGED manVars /\ UNCHANGED <<table, printed, ghost>>

\* Goroutine g begins a PrintLog: Range goes over the names the table has now, with their
\* TimeLogs, also when another PrintLog replaces the table meanwhile.  (sofar and due are
\* for the properties: what was printed when it began, and what it has to print.)
PrintLog(g) ==
    /\ about = "times" /\ Is(g, "idle")
    /\ Becomes(g, [op |-> "print", todo |-> {table[n] : n \in Timed} \ {None}, out |-> {}, sofar |-> printed,
                   due |-> (UNION Range(times)) \ (ghost.hurt \cup InHand(Timing) \cup printed \cup ghost.mute)])
    /\ ghost' = [ghost EXCEPT !.hurt = @ \cup InHand(Timing)]
    /\ UNCHANGED logVars /\ UNCHANGED swVars /\ UNCHANGED manVars

\* The line of a name, in any order: what has been appended by now, at level info.
PrintTo(t, d) == IF level[d] >= Info THEN times[t] ELSE {}

PrintNext(g, t) ==
    /\ Is(g, "print") /\ t \in busy[g].todo
    /\ Becomes(g, [busy[g] EXCEPT !.todo = @ \ {t}, !.out = @ \cup PrintTo(t, Default)])
    /\ ghost' = [ghost EXCEPT !.mute = @ \cup (times[t] \ PrintTo(t, Default)), !.hurt = @ \cup InHand(Timing)]
    /\ UNCHANGED logVars /\ UNCHANGED swVars /\ UNCHANGED manVars

\* Mutant: the table stays.
KeepTable == table
\* The new table.
ClearTable == [n \in Timed |-> None]

\* When the total is printed too, the table of that moment is replaced.
PrintLogEnds(g) ==
    /\ Is(g, "print") /\ busy[g].todo = {} /\ Becomes(g, Idle)
    /\ table' = ClearTable /\ printed' = printed \cup busy[g].out
    /\ ghost' = [ghost EXCEPT !.hurt = @ \cup InHand(Timing)]
    /\ UNCHANGED logVars /\ UNCHANGED times /\ UNCHANGED manVars

----------------------------------------------------------------------------
Next ==
    \/ \E g \in Goroutines, n \in Names : NewLogger(g, n)
    \/ \E g \in Goroutines, d \in Ids : putLogger(g, d) \/ PrintLine(g, d) \/ \E l \in Calls : LogWithFields(g, d, l) \/ \E c \in BOOLEAN : Log(g, d, l, c)
    \/ \E n \in Names : ClearRegistry(n) \/ \E l \in NewLevels : logLevelHandler(n, l)
    \/ \E d \in Ids, l \in NewLevels : SetLevel(d, l)
    \/ ManagerInit \/ AfterInitBegins \/ ManagerAfterInit \/ AfterInitEnds
    \/ Settings
    \/ \E g \in Goroutines : (\E w \in BOOLEAN : EntryWrites(g, w)) \/ LogTimeEntry(g) \/ TimeStored(g)
    \/ \E g \in Goroutines, n \in Timed, e \in Entries, t \in TimeLogs : GetTimeLog(g, n, e, t)
    \/ \E g \in Goroutines : PrintLog(g) \/ PrintLogEnds(g) \/ \E t \in TimeLogs : PrintNext(g, t)

Spec == Init /\ [][Next]_vars

----------------------------------------------------------------------------
(* Properties. *)

\* The shapes of the state.
TypeOK ==
    /\ reg \in [Names -> Ids \cup {None}] /\ name \in [Ids -> Names \cup {None}] /\ level \in [Ids -> Levels]
    /\ phase \in {"init", "after", "up"} /\ at \in 1..(Len(Conf) + 1)
    /\ \A n \in Names : reg[n] # None => name[reg[n]] = n

\* The lines of Conf that count for a name.
LinesFor(n) == {i \in DOMAIN Conf : Conf[i][1] = n /\ Conf[i][2] # None}

\* When the manager is up, the loggers that were registered before its AfterInit have the
\* level of the last line for them that parses, also those made after its Init, unless the
\* application has set another.
ConfiguredLevels ==
    phase = "up" => \A n \in Names : (reg[n] \in ghost.early /\ reg[n] \notin ghost.set) =>
        \A i \in LinesFor(n) : (\A j \in LinesFor(n) : j <= i) => level[reg[n]] = Conf[i][2]

\* A logger leaves the registry only by ClearRegistry, or because two NewLogger calls for
\* its name overlapped: otherwise its level can be set by name.
StaysRegistered ==
    [][\A n \in Names : (reg[n] # None /\ reg'[n] # reg[n]) => (reg'[n] = None \/ n \in ghost.raced)]_vars

\* A logger can be found by its name and has the level configured for it, whatever
\* the order of creation, configuration and changes.
LoggersKnown == []ConfiguredLevels /\ StaysRegistered

\* A line carries the name of its logger, the tag of the goroutine that called and the fields
\* it gave: static fields with these names do not hide them.  The line of Print has none
\* of them.
LineTrue(g) ==
    busy[g].by # "print" =>
        /\ busy[g].fields["logger"] = name[busy[g].d]
        /\ (busy[g].by = "logger" => busy[g].fields["tag"] = busy[g].tag)
        /\ (busy[g].by = "entry" => busy[g].fields["user"] = "given")

\* A line is written if its level was enabled during the whole call, and not if it never
\* was, whoever sets the level meanwhile, Print's lines too; and what is written, but by
\* Print, is the caller's.
LinesRight ==
    [][\A g \in Goroutines, w \in BOOLEAN :
          EntryWrites(g, w) => (busy[g].always => w) /\ (w => busy[g].ever /\ LineTrue(g))]_vars

\* What a PrintLog prints has not been printed by one that had ended when it began (two
\* that overlap may both print a time); and a time that was logged without overlapping a
\* PrintLog or another time of the same name is printed by the next PrintLog, also when
\* another one replaces the table under it, or hidden by the level of its logger.
TimesPrinted ==
    [][\A g \in Goroutines :
         /\ (Is(g, "print") => busy[g].out \cap busy[g].sofar = {})
         /\ (PrintLogEnds(g) => busy[g].due \subseteq busy[g].out \cup ghost.mute)]_vars

----------------------------------------------------------------------------
(* What the comments say and the code does not do; see the README. *)

\* logging/logrus/logger.go:55: "allows to define static log fields that are added to all
\* subsequent log entries".  Print's lines have none.
StaticOnAll ==
    [][\A g \in Goroutines :
          EntryWrites(g, TRUE) => \A k \in busy[g].static : busy[g].fields[k] # None]_vars

\* logging/measure/stopwatch.go:100: "PrintLog all entries from TimeLog and reset it".  Two
\* that overlap both print a time.
PrintedOnce ==
    [][\A g \in Goroutines : PrintLogEnds(g) => busy[g].out \cap printed = {}]_vars

\* The same comment: what is in the table when it is reset has been printed.  A time logged
\* while PrintLog runs is dropped.
NoneDropped ==
    [][\A g \in Goroutines, n \in Timed :
          (PrintLogEnds(g) /\ table[n] # None) => times[table[n]] \subseteq printed' \cup ghost.mute]_vars
=============================================================================
