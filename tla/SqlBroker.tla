------------------------------ MODULE SqlBroker ------------------------------
(***************************************************************************)
(* The SQL expressions, their translation to statements and bindings from  *)
(* the fields of a Go structure, and the Cassandra broker that runs them.  *)
(* A statement is the sequence of its words; a binding is a pointer to a   *)
(* field.  The session, which parses a statement and has the table, is     *)
(* external.  Broker and readers work on one table of one structure.       *)
(***************************************************************************)
EXTENDS Naturals, FiniteSets, Sequences, SequencesExt

CONSTANTS Structs,  \* structures: sequences of fields [name, upper, cql, pk, kind, index]
          Keys,     \* values of the primary key "ID"
          Values,   \* values of the other fields; 0 is the zero value
          Null      \* a nil pointer or slice, and the null of a column

ASSUME StructsAssumption ==
    /\ 0 \in Values /\ Null \notin Values
    /\ \A s \in Structs : \E i \in DOMAIN s : s[i].name = "ID" /\ s[i].pk /\ s[i].upper /\ s[i].cql # "-"

VARIABLES
    struct,   \* the structure of the table
    table,    \* table[k]: the row with key k, a function on its columns
    truth,    \* history: what the caller put last under each key
    cursor,   \* the iterator: [open, rows, err, into, out]: what a row is read into
    read,     \* history: the query and the rows asked for, row and structure of the last GetNext, how many
              \* there were and whether it has stopped, the slice of SliceIt
    told      \* the answer of the last operation: "ok", "err"

sqlVars == <<struct, table, truth, cursor, read, told>>

----------------------------------------------------------------------------
(* Fields of a structure.  An entity is [id, val]; "-" hides a column.      *)

FieldNames(s) == {s[i].name : i \in DOMAIN s}
FieldOf(s, n) == s[CHOOSE i \in DOMAIN s : s[i].name = n]

cqlExported(f) == f.cql # "-"
isFieldPK(f) == f.pk
filterOutPK(f) == ~isFieldPK(f)

\* The predicates on fields that are passed around are the sets of fields they hold for.
CqlFields(s) == {f \in Range(s) : cqlExported(f)}
NoKeyFields(s) == {f \in Range(s) : filterOutPK(f)}
FieldExported(f, pred) == f.upper /\ f \in pred
ListExportedFields(s, pred) == SelectSeq(s, LAMBDA f : FieldExported(f, pred))

\* fieldName: the name of the column and whether there is one.
cqlExportedWithFieldName(f) == [name |-> IF f.cql = "" THEN f.name ELSE f.cql, exported |-> cqlExported(f)]
fieldName(f) == IF FieldExported(f, {f}) THEN cqlExportedWithFieldName(f)
                ELSE [name |-> f.name, exported |-> FALSE]
Named(fs) == LET kept == SelectSeq(fs, LAMBDA f : fieldName(f).exported)
             IN  [i \in DOMAIN kept |-> fieldName(kept[i]).name]

\* Mutant: the columns of the key are selected last.
selectKeyLast(s) == Named(ListExportedFields(s, CqlFields(s) \cap NoKeyFields(s)))
                       \o Named(ListExportedFields(s, CqlFields(s) \ NoKeyFields(s)))
selectFields(s) == Named(ListExportedFields(s, CqlFields(s)))
sliceOfFieldNames(s) == Named(ListExportedFields(s, NoKeyFields(s)))

\* ListExportedFieldsPtrs: pointers to the fields of e; a slice that is not nil is passed by value.
ListExportedFieldsPtrs(s, e, pred) ==
    LET fs == ListExportedFields(s, pred)
    IN  [i \in DOMAIN fs |-> [of |-> e.id, field |-> fs[i].name,
                              addr |-> fs[i].kind # "slice" \/ e.val[fs[i].name] = Null]]
\* It makes the nil pointers of those fields point to zero values.
Allocated(s, e, pred) ==
    [e EXCEPT !.val = [n \in DOMAIN @ |->
        IF @[n] = Null /\ FieldOf(s, n).kind = "ptr" /\ FieldExported(FieldOf(s, n), pred) THEN 0 ELSE @[n]]]

\* FindField compares addresses; a field that is a pointer itself never equals one.
FindField(s, p, entity) == entity.id = p.of /\ p.field \in FieldNames(s) /\ FieldOf(s, p.field).kind # "ptr"

----------------------------------------------------------------------------
(* Expressions: "pre" is a PrefixedExp, "field" a FieldExpression.          *)

Exp(words, binding) == [node |-> "pre", prefix |-> words, after |-> <<>>, suffix |-> <<>>, binding |-> binding]
Prefixed(words, after, suffix) == [Exp(words, <<>>) EXCEPT !.after = after, !.suffix = suffix]

FROM(entity, after) == [Prefixed(<<"FROM">>, after, <<>>) EXCEPT !.binding = <<entity>>]
WHERE(after) == Prefixed(<<"WHERE">>, after, <<>>)
Parenthesis(inside) == Prefixed(<<"(">>, inside, <<")">>)
\* The operators that compare; "=>" and "=<" are what the code writes, and no words of CQL.
Compare(op, p) == Prefixed(<<op>>, <<Exp(<<"?">>, <<p>>)>>, <<>>)
EQ(p) == Compare("=", p)
GT(p) == Compare(">", p)
GTE(p) == Compare("=>", p)
LT(p) == Compare("<", p)
LTE(p) == Compare("=<", p)
Field(p, right) == [node |-> "field", ptr |-> p, after |-> right]
FieldEQ(p) == Field(p, <<EQ(p)>>)
PK(p) == FieldEQ(p)
IN_(ps) == [Prefixed(<<"IN", "(">>, <<>>, [i \in DOMAIN ps |-> "?"] \o <<")">>) EXCEPT !.binding = ps]

\* No operand: the bare operator; one: after the operator; more: between them, in parentheses.
intelligentOperator(op, inside) ==
    LET empty == Prefixed(<<op>>, <<>>, <<>>)
    IN  CASE Len(inside) = 0 -> empty
          [] Len(inside) = 1 -> [empty EXCEPT !.after = inside]
          [] Len(inside) > 1 -> Parenthesis([i \in 1..(2 * Len(inside) - 1) |->
                                    IF i % 2 = 1 THEN inside[(i + 1) \div 2] ELSE empty])
AND(inside) == intelligentOperator("AND", inside)
OR(inside) == intelligentOperator("OR", inside)

(* toStringVisitor: v has the entity, the words, the bindings and the last error. *)
Visitor(e) == [entity |-> e, words |-> <<>>, binding |-> <<>>, lastError |-> FALSE]

RECURSIVE Accept(_, _, _)
Accept(s, v, exp) ==
    IF exp.node = "pre"
    THEN LET inner == FoldLeft(LAMBDA a, x : Accept(s, a, x), [v EXCEPT !.words = @ \o exp.prefix], exp.after)
         IN  [inner EXCEPT !.words = @ \o exp.suffix,
                           !.binding = IF exp.prefix = <<"FROM">> THEN @ ELSE @ \o exp.binding]
    ELSE IF v.entity = Null \/ ~FindField(s, exp.ptr, v.entity) \/ ~fieldName(FieldOf(s, exp.ptr.field)).exported
    THEN [v EXCEPT !.lastError = TRUE]
    ELSE FoldLeft(LAMBDA a, x : Accept(s, a, x),
                  [v EXCEPT !.words = Append(@, fieldName(FieldOf(s, exp.ptr.field)).name)], exp.after)

\* findEntityVisitor: the structure of the FROM expression.
RECURSIVE FindEntity(_)
FindEntity(exp) ==
    IF exp.node = "pre" /\ exp.prefix = <<"FROM">> THEN exp.binding[1]
    ELSE LET found == SelectSeq([i \in DOMAIN exp.after |-> FindEntity(exp.after[i])], LAMBDA e : e # Null)
         IN  IF found = <<>> THEN Null ELSE Last(found)

(* Statements: [verb, cols, words, binding, filtering, err].                 *)

\* The columns that UPDATE sets, each to a "?".
updateSetExpToString(s) == sliceOfFieldNames(s)

\* PutExpToString does not look at the error of the visitor.
PutExpToString(s, where, e) ==
    LET v == Accept(s, Visitor(e), where)
    IN  [verb |-> "UPDATE", cols |-> updateSetExpToString(s), words |-> <<"WHERE">> \o v.words, filtering |-> FALSE, err |-> FALSE,
         binding |-> ListExportedFieldsPtrs(s, e, CqlFields(s) \cap NoKeyFields(s)) \o v.binding]

\* SelectExpToString does not either; it asks for filtering when the condition has an AND.
SelectExpToString(s, query) ==
    LET v == Accept(s, Visitor(FindEntity(query)), query)
    IN  [verb |-> "SELECT", cols |-> selectFields(s), words |-> v.words, binding |-> v.binding, err |-> FALSE,
         filtering |-> "AND" \in Range(v.words)]

\* ExpToString, for Delete, returns the error.
ExpToString(s, exp) ==
    LET v == Accept(s, Visitor(FindEntity(exp)), exp)
    IN  [verb |-> "DELETE", cols |-> <<>>, words |-> v.words, binding |-> v.binding, filtering |-> FALSE, err |-> v.lastError]

----------------------------------------------------------------------------
(* The session, as the broker and its tests use it.  It takes conditions    *)
(* "WHERE c = ? AND c = ? ...", with or without parentheses, and needs      *)
(* filtering for other columns than the key and those with an index.        *)

Conditions(st) ==
    LET bare == SelectSeq(st.words, LAMBDA w : w \notin {"(", ")", "FROM"})
        n == Len(bare) \div 4
    IN  [ok |-> /\ Len(bare) > 0 /\ Len(bare) % 4 = 0 /\ bare[1] = "WHERE"
                /\ \A i \in 0..(n - 1) : /\ bare[4*i + 1] = (IF i = 0 THEN "WHERE" ELSE "AND")
                                         /\ bare[4*i + 2] \notin {"AND", "=", "?"}
                                         /\ bare[4*i + 3] = "=" /\ bare[4*i + 4] = "?",
         cols |-> [i \in 1..n |-> bare[4*i - 2]]]

\* The value that binding p points to; mem has the fields of each entity.
Val(mem, p) == mem[p.of][p.field]

\* Rows of the table that a statement is about.
Matches(st, mem, row) ==
    LET c == Conditions(st) skip == Len(st.binding) - Len(c.cols)
    IN  \A i \in DOMAIN c.cols : row[c.cols[i]] = Val(mem, st.binding[skip + i])
KeyOf(st, mem) == Val(mem, st.binding[Len(st.binding)])

Indexed(s) == {fieldName(f).name : f \in {x \in Range(s) : x.index}}
Good(st) == ~st.err /\ Conditions(st).ok
Allowed(st) == \/ st.words = <<"FROM">>
               \/ Good(st) /\ (st.filtering \/ Range(Conditions(st).cols) \subseteq {"ID"} \cup Indexed(struct))

EmptyTable == [k \in {} |-> <<>>]

\* The rows that a query returns, in the order of their keys.
ResultOf(st, mem) ==
    LET keys == {k \in DOMAIN table : Matches(st, mem, table[k])}
        order == SetToSortSeq(keys, LAMBDA a, b : a < b)
    IN  IF Allowed(st) THEN [i \in DOMAIN order |-> table[order[i]]] ELSE <<>>

----------------------------------------------------------------------------
(* The broker.  "e" is an entity of the caller, "other" one that the        *)
(* statement is not about.                                                  *)

Hidden(f) == ~f.upper \/ ~cqlExported(f)
ValuesOf(f) == CASE f.pk -> Keys
                 [] Hidden(f) -> {1}
                 [] ~f.pk /\ ~Hidden(f) /\ f.kind = "value" -> Values
                 [] ~f.pk /\ ~Hidden(f) /\ f.kind # "value" -> {Null, 1}
Entities == [s \in Structs |-> {[id |-> "e", val |-> v] :
    v \in {w \in [FieldNames(s) -> Keys \cup Values \cup {Null}] : \A n \in FieldNames(s) : w[n] \in ValuesOf(FieldOf(s, n))}}]
\* Conditions are about the key and the name only.
Examples == [s \in Structs |-> {e \in Entities[s] : \A n \in FieldNames(s) : FieldOf(s, n).kind # "value" => e.val[n] = Null}]
Fresh(s) == [id |-> "e", val |-> [n \in FieldNames(s) |-> IF FieldOf(s, n).kind = "value" THEN 0 ELSE Null]]
PtrTo(of, n) == [of |-> of, field |-> n, addr |-> TRUE]

Closed == [open |-> FALSE, rows |-> <<>>, err |-> FALSE, into |-> "struct", out |-> Null]
NothingRead == [query |-> "none", asked |-> <<>>, row |-> Null, out |-> Null, got |-> 0, stopped |-> FALSE,
                slice |-> <<>>, done |-> FALSE]

SqlInit ==
    /\ struct \in Structs /\ table = EmptyTable /\ truth = EmptyTable
    /\ cursor = Closed /\ read = NothingRead /\ told = "ok"

\* What is left of a row by an update of its columns.
Columns(s) == {fieldName(s[i]).name : i \in {j \in DOMAIN s : fieldName(s[j]).exported}}
Update(st, mem) ==
    LET k == KeyOf(st, mem)
        old == IF k \in DOMAIN table THEN table[k] ELSE [c \in Columns(struct) |-> Null]
        new == [c \in DOMAIN old |->
                   IF c = "ID" THEN k
                   ELSE IF c \in Range(st.cols) THEN Val(mem, st.binding[CHOOSE i \in DOMAIN st.cols : st.cols[i] = c])
                   ELSE old[c]]
    IN  [x \in DOMAIN table \cup {k} |-> IF x = k THEN new ELSE table[x]]

\* What the caller means: every column of the structure has the value of its field.  For a nil
\* pointer no column can: ListExportedFieldsPtrs has put a zero value in its place.
FieldWith(c) == CHOOSE x \in Range(struct) : fieldName(x).exported /\ fieldName(x).name = c
Meant(e) == [c \in Columns(struct) |->
    LET f == FieldWith(c) IN IF e.val[f.name] = Null /\ f.kind = "ptr" THEN 0 ELSE e.val[f.name]]

\* BrokerCassa.Put with a condition on the key of e or of another entity.
Put(e, of) ==
    LET st == PutExpToString(struct, PK(PtrTo(of, "ID")), e)
        a  == Allocated(struct, e, CqlFields(struct) \cap NoKeyFields(struct))
        mem == [e |-> a.val, other |-> [ID |-> CHOOSE k \in Keys : k # e.val["ID"]]]
    IN  /\ told' = IF Good(st) THEN "ok" ELSE "err"
        /\ table' = IF Good(st) THEN Update(st, mem) ELSE table
        /\ truth' = IF of = "e" THEN [k \in DOMAIN truth \cup {e.val["ID"]} |-> IF k = e.val["ID"] THEN Meant(e) ELSE truth[k]]
                    ELSE truth
        /\ read' = (IF cursor.open THEN read ELSE NothingRead) /\ UNCHANGED <<struct, cursor>>

\* BrokerCassa.Delete of the rows with the key of e.
Delete(e, of) ==
    LET st == ExpToString(struct, FROM(e, <<WHERE(<<PK(PtrTo(of, "ID"))>>)>>))
    IN  /\ told' = IF Good(st) THEN "ok" ELSE "err"
        /\ table' = IF Good(st) THEN [k \in {x \in DOMAIN table : ~Matches(st, [e |-> e.val], table[x])} |-> table[k]] ELSE table
        /\ truth' = IF of = "e" THEN [k \in DOMAIN truth \ {e.val["ID"]} |-> truth[k]] ELSE truth
        /\ read' = (IF cursor.open THEN read ELSE NothingRead) /\ UNCHANGED <<struct, cursor>>

\* Queries of an example entity: by its key, by its key and another field, by that field alone,
\* by the field of another entity.
Query(e, q) ==
    LET id == FieldEQ(PtrTo("e", "ID")) name == FieldEQ(PtrTo("e", "Name"))
    IN  FROM(e, <<CASE q = "all"   -> Exp(<<>>, <<>>)
                    [] q = "key"   -> WHERE(<<id>>)
                    [] q = "both"  -> WHERE(<<AND(<<id, name>>)>>)
                    [] q = "spare" -> WHERE(<<id, AND(<<>>), name>>)
                    [] q = "name"  -> WHERE(<<name>>)
                    [] q = "wrong" -> WHERE(<<FieldEQ(PtrTo("other", "ID"))>>)>>)
Queries == {"all", "key", "both", "spare", "name", "wrong"}

\* The rows that the caller asks for, in the order of their keys.
Wanted(e, q) ==
    LET name == fieldName(FieldOf(struct, "Name")).name
        keys == {k \in DOMAIN truth : CASE q = "all" -> TRUE
                                         [] q = "key" -> k = e.val["ID"]
                                         [] q \in {"both", "spare"} -> k = e.val["ID"] /\ truth[k][name] = e.val["Name"]
                                         [] q = "name" -> truth[k][name] = e.val["Name"]
                                         [] q = "wrong" -> FALSE}
        order == SetToSortSeq(keys, LAMBDA a, b : a < b)
    IN  [i \in DOMAIN order |-> truth[order[i]]]

\* BrokerCassa.ListValues, to be read by GetNext into one structure or one map, or by SliceIt.
NoMap == [id |-> "map", val |-> [c \in {} |-> Null]]
ListValues(e, q, into) ==
    LET st == SelectExpToString(struct, Query(e, q))
    IN  /\ ~cursor.open
        /\ cursor' = [open |-> TRUE, rows |-> ResultOf(st, [e |-> e.val]), err |-> ~Allowed(st), into |-> into,
                      out |-> IF into = "map" THEN NoMap ELSE Fresh(struct)]
        /\ read' = [NothingRead EXCEPT !.query = q, !.asked = Wanted(e, q)]
        /\ UNCHANGED <<struct, table, truth, told>>

\* The null of a column is read as the zero value, or as a nil slice.
Unmarshalled(f, v) == IF v = Null /\ f.kind # "slice" THEN 0 ELSE v

\* Iterator.Scan of the session: the i-th column into the i-th pointer, until one is none.
Scan(out, row) ==
    LET ptrs == ListExportedFieldsPtrs(struct, out, CqlFields(struct)) cols == selectFields(struct)
        Stored(n) == \E i \in DOMAIN ptrs : ptrs[i].field = n /\ \A j \in 1..i : ptrs[j].addr
    IN  [ok |-> Len(ptrs) = Len(cols) /\ \A i \in DOMAIN ptrs : ptrs[i].addr,
         out |-> [Allocated(struct, out, CqlFields(struct)) EXCEPT !.val = [n \in DOMAIN @ |->
                     IF Stored(n)
                     THEN Unmarshalled(FieldOf(struct, n), row[cols[CHOOSE i \in DOMAIN ptrs : ptrs[i].field = n]]) ELSE @[n]]]]

\* Iterator.ScanMap: what the map has under a column already is taken for the pointer.
ScanMap(m, row) ==
    [ok |-> m = NoMap,
     out |-> IF m = NoMap THEN [m EXCEPT !.val = [c \in DOMAIN row |-> Unmarshalled(FieldWith(c), row[c])]] ELSE m]

\* ValIterator.GetNext into out; a scan that fails stops the iterator for good.
Next_(out) ==
    LET map == cursor.into = "map"
        r == IF map THEN ScanMap(out, Head(cursor.rows)) ELSE Scan(out, Head(cursor.rows))
    IN  IF cursor.rows = <<>> \/ cursor.err
        THEN [stop |-> TRUE, out |-> IF map THEN out ELSE Allocated(struct, out, CqlFields(struct)), rows |-> <<>>, err |-> cursor.err]
        ELSE [stop |-> ~r.ok, out |-> r.out, rows |-> IF r.ok THEN Tail(cursor.rows) ELSE <<>>, err |-> ~r.ok]

\* A reader that uses one structure, or one map, for all rows.
GetNext ==
    LET n == Next_(cursor.out)
    IN  /\ cursor.open /\ cursor.into # "slice"
        /\ cursor' = [cursor EXCEPT !.out = n.out, !.rows = n.rows, !.err = n.err]
        /\ read' = IF n.stop THEN [read EXCEPT !.stopped = TRUE]
                   ELSE [read EXCEPT !.row = Head(cursor.rows), !.out = n.out, !.got = @ + 1]
        /\ UNCHANGED <<struct, table, truth, told>>

\* ValIterator.Close returns the error of the iterator.
Close ==
    /\ cursor.open /\ cursor.into # "slice" /\ cursor' = Closed
    /\ told' = (IF cursor.err THEN "err" ELSE "ok") /\ read' = NothingRead
    /\ UNCHANGED <<struct, table, truth>>

\* SliceIt makes a new structure for every row, and closes the iterator after the last one.
NewRow == Fresh(struct)
SliceNext ==
    LET n == Next_(NewRow)
    IN  /\ cursor.open /\ cursor.into = "slice"
        /\ IF n.stop THEN cursor' = Closed /\ told' = IF n.err THEN "err" ELSE "ok"
           ELSE cursor' = [cursor EXCEPT !.rows = n.rows, !.out = n.out] /\ UNCHANGED told
        /\ read' = IF n.stop THEN [read EXCEPT !.done = TRUE] ELSE [read EXCEPT !.slice = Append(@, n.out)]
        /\ UNCHANGED <<struct, table, truth>>

\* BrokerCassa.GetValue: one GetNext and Close.
GetValue(e, q) ==
    LET st == SelectExpToString(struct, Query(e, q))
        rows == ResultOf(st, [e |-> e.val])
    IN  /\ ~cursor.open /\ told' = IF Allowed(st) THEN "ok" ELSE "err"
        /\ read' = IF rows = <<>> THEN [NothingRead EXCEPT !.query = q, !.asked = Wanted(e, q)]
                   ELSE [NothingRead EXCEPT !.query = q, !.asked = Wanted(e, q), !.row = rows[1],
                                            !.out = Scan(Fresh(struct), rows[1]).out]
        /\ UNCHANGED <<struct, table, truth, cursor>>

SqlNext ==
    \/ \E e \in Entities[struct], of \in {"e", "other"} : Put(e, of)
    \/ \E e \in Examples[struct], of \in {"e", "other"} : Delete(e, of)
    \/ \E e \in Examples[struct], q \in Queries : GetValue(e, q) \/ \E into \in {"struct", "map", "slice"} : ListValues(e, q, into)
    \/ GetNext \/ Close \/ SliceNext

SqlSpec == SqlInit /\ [][SqlNext]_sqlVars

----------------------------------------------------------------------------
(* Properties. *)

\* The variables have their types; a closed iterator holds nothing.
SqlTypeOK ==
    /\ struct \in Structs /\ DOMAIN table \subseteq Keys /\ DOMAIN truth \subseteq Keys
    /\ cursor.open \in BOOLEAN /\ cursor.err \in BOOLEAN /\ (cursor.open \/ cursor = Closed) /\ told \in {"ok", "err"}

\* The table always has what the callers of Put and Delete meant: each column of the UPDATE gets the
\* value of its own field, a nil pointer that of the zero value put in its place, hidden fields stay out, and a condition on a field that the entity does not
\* have, whose error Put ignores, changes no row.
StoredAsMeant == table = truth

\* A row that was asked for is read into the fields that its columns were written from, although the
\* columns of the SELECT and the pointers of the scan are computed apart, hidden fields are left alone,
\* or into a map under its columns.
ReadAsStored ==
    read.out # Null =>
        /\ read.row \in Range(read.asked)
        /\ \A f \in Range(struct) :
               LET c == fieldName(f) IN
               IF read.out.id = "map" THEN c.exported => read.out.val[c.name] = Unmarshalled(f, read.row[c.name])
               ELSE read.out.val[f.name] = IF c.exported THEN Unmarshalled(f, read.row[c.name]) ELSE Fresh(struct).val[f.name]

\* The session refuses a query on a field of another structure, which has no condition, and one
\* on a single column that is neither the key nor indexed, which has no ALLOW FILTERING.
Refused(q) == q = "wrong" \/ (q = "name" /\ ~FieldOf(struct, "Name").index)

\* SliceIt returns all rows that were asked for, in order, or an error if the query was refused, also
\* for structures with slices, which can be scanned into only once: no scan fails because of a row
\* before it.
SliceComplete ==
    read.done =>
        /\ told = IF Refused(read.query) THEN "err" ELSE "ok"
        /\ told = "ok" =>
               /\ Len(read.slice) = Len(read.asked)
               /\ \A i \in DOMAIN read.slice, f \in Range(struct) : f.kind = "slice" /\ fieldName(f).exported =>
                      read.slice[i].val[f.name] = read.asked[i][fieldName(f).name]

\* A reader that uses one structure or map again may be stopped before the last row, when the structure
\* has a slice, or it is a map; then Close returns the error.
LossIsTold ==
    [][cursor.open /\ ~cursor'.open /\ read.stopped /\ told' = "ok" => read.got = Len(read.asked)]_sqlVars

\* A query that is not refused is answered by exactly the rows it asks for: the conditions reach the
\* session with their own values, and with ALLOW FILTERING for a key and another column together.
QueriesAnswered ==
    [][~cursor.open /\ cursor'.open => IF Refused(read'.query) THEN cursor'.err /\ cursor'.rows = <<>>
                                       ELSE ~cursor'.err /\ cursor'.rows = read'.asked]_sqlVars

\* sql/sql_broker_api.go, of ListValues: "query := sql.FROM(UserTable, sql.WHERE(sql.Field(
\* &UserTable.LastName, sql.EQ("Bond")))"; for a table without an index the session refuses it.
NameAnswered == [][~cursor.open /\ cursor'.open /\ read'.query = "name" => ~cursor'.err]_sqlVars

\* sql/sql_broker_api.go, of GetNext: "When the stop=true is returned, the outBinding was not updated."
StopLeavesOut == [][cursor.open /\ cursor'.open /\ read'.stopped /\ read'.got = read.got => cursor'.out = cursor.out]_sqlVars

\* Every "?" of a statement has a binding, and the one at its place: the field whose column it is
\* compared with, for nested, spare and parenthesised operators and for IN.
BindingsFit ==
    LET e == Fresh(struct) id == PtrTo("e", "ID") name == PtrTo("e", "Name")
        exps == {WHERE(<<OR(<<FieldEQ(id), FieldEQ(name), FieldEQ(id)>>)>>), WHERE(<<FieldEQ(name), OR(<<FieldEQ(id)>>)>>),
                 WHERE(<<Field(id, <<GT(id)>>), AND(<<>>), Field(id, <<LTE(id)>>), AND(<<Field(name, <<GTE(name)>>)>>)>>),
                 WHERE(<<AND(<<Field(name, <<LT(name)>>), OR(<<FieldEQ(id)>>)>>)>>),
                 WHERE(<<AND(<<OR(<<FieldEQ(name), FieldEQ(id)>>), Field(id, <<IN_(<<id, id>>)>>), FieldEQ(name)>>)>>)}
                   \cup {Query(e, q).after[1] : q \in Queries}
        At(st) == LET w == st.words
                         qs == SelectSeq([j \in DOMAIN w |-> j], LAMBDA j : w[j] = "?")
                     IN  /\ Len(qs) = Len(st.binding)
                         /\ \A j \in DOMAIN qs : w[qs[j] - 1] \in {"=", ">", "=>", "<", "=<"} => w[qs[j] - 2] = fieldName(FieldOf(struct, st.binding[j].field)).name
    IN  table = EmptyTable /\ ~cursor.open =>
            /\ \A x \in exps : At(ExpToString(struct, FROM(e, <<x>>))) /\ At(SelectExpToString(struct, FROM(e, <<x>>)))
            /\ LET st == PutExpToString(struct, PK(id), e)
               IN  Len(st.binding) = Len(st.cols) + 1
                   /\ \A i \in DOMAIN st.cols : st.cols[i] = fieldName(FieldOf(struct, st.binding[i].field)).name

\* Statements, bindings and rows fit: what is put is stored in its columns, what a
\* query asks for is found unless the session refuses it, and comes back in the fields it
\* was put from, or the reader is told an error.
StatementsFit == [](StoredAsMeant /\ ReadAsStored /\ SliceComplete /\ BindingsFit) /\ QueriesAnswered /\ LossIsTold
=============================================================================
