------------------------------ MODULE SqlSelect ------------------------------
(***************************************************************************)
(* A query by columns: MidgardSqlQuerySelectData, its columns, constraint  *)
(* and results (sql/midgard_sql_query_*.c).                                *)
(*                                                                         *)
(* The query, the results it gives and the rows of a result are objects    *)
(* that hold references to each other, and the application may drop them,  *)
(* and execute the query again, in any order.                              *)
(***************************************************************************)
EXTENDS Integers, Sequences, FiniteSets, SequencesExt, FiniteSetsExt

CONSTANTS
    Column,       \* MidgardSqlQueryColumn objects: a record with the table of
                  \* its class ("none" without one) and its qualifier
    Joinable,     \* the pairs of columns that may be joined
    Filtering,    \* the columns that constraints and orders may be of
    MaxParts,     \* bound: calls that build the query
    MaxDataCalls  \* bound: other calls

VARIABLES
    sought,     \* the query's columns, joins, constraint, orders and limit
    queryRefs,  \* the references to the query; it is gone at 0
    columnRefs, \* the references to each column
    own,        \* the columns the application has a reference of its own to
    kept,       \* the query is the application's still
    model,      \* the data models of the executions that succeeded: the
                \* columns, targets and rows of each, and the references to it
    resultset,  \* the model the query holds, or 0
    result,     \* the results that were given, each with its model and columns
    stored,     \* the number of rows the database has for the query
    error,      \* what the last execution reported
    parts,      \* calls made so far that build the query
    dataCalls   \* other calls made so far

dataVars == <<sought, queryRefs, columnRefs, own, kept, model, resultset, result,
              stored, error, parts, dataCalls>>

\* Nothing is called in a process that has died.
Built == /\ kept /\ error # "died" /\ parts < MaxParts
         /\ parts' = parts + 1 /\ UNCHANGED dataCalls
DataCalled == /\ error # "died" /\ dataCalls < MaxDataCalls
              /\ dataCalls' = dataCalls + 1 /\ UNCHANGED parts

Places(c, cs) == {i \in DOMAIN cs : cs[i] = c}
Count(c, cs) == Cardinality(Places(c, cs))
Ref(refs, cs) == [c \in DOMAIN refs |-> refs[c] + Count(c, cs)]
Unref(refs, cs) == [c \in DOMAIN refs |-> refs[c] - Count(c, cs)]
RefAt(refs, at) ==
    [c \in DOMAIN refs |-> refs[c] + Cardinality(at \cap Places(c, sought.columns))]
UnrefAt(refs, at) ==
    [c \in DOMAIN refs |-> refs[c] - Cardinality(at \cap Places(c, sought.columns))]
UnrefModel(ms, m) == IF m = 0 THEN ms ELSE [ms EXCEPT ![m].refs = @ - 1]

-----------------------------------------------------------------------------
(* Building                                                                *)

Unjoined == [columns |-> <<>>, joins |-> <<>>, constraint |-> <<>>, kind |-> "none",
             orders |-> <<>>, limit |-> -1]

AddColumn(c) ==
    /\ c \in own /\ Built
    /\ sought' = [sought EXCEPT !.columns = Append(@, c)]
    /\ columnRefs' = Ref(columnRefs, <<c>>)
    /\ UNCHANGED <<queryRefs, own, kept, model, resultset, result, stored, error>>

\* The references a join takes are never given back.
AddDataJoin(left, right) ==
    /\ {left, right} \subseteq own /\ Built
    /\ sought' = [sought EXCEPT !.joins = Append(@, <<left, right>>)]
    /\ columnRefs' = Ref(columnRefs, <<left, right>>)
    /\ UNCHANGED <<queryRefs, own, kept, model, resultset, result, stored, error>>

\* _midgard_sql_query_select_data_set_constraint: a constraint or a group of
\* them, which the application leaves to the query.  "empty" is a group without
\* constraints, "bad" a constraint made with an operator that is none.
SetDataConstraint(kind, c) ==
    /\ c \in own /\ Built
    /\ sought' = [sought EXCEPT !.kind = kind,
                              !.constraint = IF kind = "empty" THEN <<>> ELSE <<c>>]
    /\ columnRefs' = Ref(Unref(columnRefs, sought.constraint), sought'.constraint)
    /\ UNCHANGED <<queryRefs, own, kept, model, resultset, result, stored, error>>

\* It answers FALSE, and has added the order.
AddOrderOf(c, type) ==
    /\ c \in own /\ Built
    /\ sought' = [sought EXCEPT !.orders = Append(@, <<c, type>>)]
    /\ columnRefs' = Ref(columnRefs, <<c>>)
    /\ UNCHANGED <<queryRefs, own, kept, model, resultset, result, stored, error>>

SetDataLimit(n) ==
    /\ Built
    /\ sought' = [sought EXCEPT !.limit = n]
    /\ UNCHANGED <<queryRefs, columnRefs, own, kept, model, resultset, result, stored, error>>

-----------------------------------------------------------------------------
(* Executing                                                               *)

\* Validation stops at the first of these.
Unusable == {i \in DOMAIN sought.columns : sought.columns[i].table = "none"}
InvalidQuery ==
    \/ sought.columns = <<>> \/ Unusable # {}
    \/ sought.limit = 0
    \/ \E i \in DOMAIN sought.orders : sought.orders[i][2] \notin {"asc", "desc"}
    \/ sought.kind = "empty"

\* What a validation leaves of the references get_columns took: those of the
\* columns after the one it stops at.
LeftByValidation == {i \in DOMAIN sought.columns : \E k \in Unusable : k < i}

\* Mutant of ColumnTargets: a target for each column.
ColumnTargets_Each(cs) == [i \in DOMAIN cs |-> [table |-> cs[i].table, as |-> cs[i].as]]

\* FROM, before the joins: a table once, under the qualifier of its first
\* column.
Target(c) == [table |-> c.table, as |-> c.as]
OfColumn(ts, c) ==
    IF \E i \in DOMAIN ts : ts[i].table = c.table THEN ts ELSE Append(ts, Target(c))
ColumnTargets(cs) ==
    LET made[n \in 0 .. Len(cs)] == IF n = 0 THEN <<>> ELSE OfColumn(made[n - 1], cs[n])
    IN  made[Len(cs)]

\* __query_select_data_add_joins: a qualifier that is a target's already is
\* not added again.
OfJoin(ts, j) ==
    IF \E i \in DOMAIN ts : ts[i].as = j[2].as THEN ts ELSE Append(ts, Target(j[2]))
Targets(cs, js) ==
    LET made[n \in 0 .. Len(js)] ==
            IF n = 0 THEN ColumnTargets(cs) ELSE OfJoin(made[n - 1], js[n])
    IN  made[Len(js)]

\* What the database, and the check of the statement's structure, refuse.
AcceptedStatement(ts) ==
    LET named == ToSet(sought.columns) \cup ToSet(sought.constraint)
                     \cup {sought.orders[i][1] : i \in DOMAIN sought.orders}
                     \cup UNION {ToSet(sought.joins[i]) : i \in DOMAIN sought.joins}
    IN /\ {c.as : c \in named} \ {"none"} \subseteq {ts[i].as : i \in DOMAIN ts}
       /\ \A i \in DOMAIN ts : ts[i].table # "none" /\ ts[i].as # "none"
       /\ sought.joins = <<>> \/ Len(sought.joins) < Len(ts)

\* The references get_columns took that the loop over the columns gives back:
\* those of the columns that made a target, up to one without a qualifier.
Unqualified == {i \in DOMAIN sought.columns : sought.columns[i].as = "none"}
GivenBack ==
    LET cs == sought.columns
    IN  {i \in DOMAIN cs : /\ \A k \in Unqualified : i < k
                          /\ \A k \in 1 .. i - 1 : cs[k].table # cs[i].table}

\* It reports what is wrong, and the query keeps the model, and the number of
\* rows, of the execution before.
Fails(what) ==
    /\ error' = what
    /\ UNCHANGED <<model, resultset>>

\* A constraint without an operator: validation reads through NULL.
ExecuteDies ==
    /\ kept /\ sought.kind = "bad" /\ DataCalled
    /\ sought.columns # <<>> /\ Unusable = {} /\ sought.limit # 0
    /\ \A i \in DOMAIN sought.orders : sought.orders[i][2] \in {"asc", "desc"}
    /\ error' = "died"
    /\ UNCHANGED <<sought, queryRefs, columnRefs, own, kept, model, resultset, result, stored>>

ExecuteInvalid ==
    /\ kept /\ InvalidQuery /\ DataCalled
    /\ columnRefs' = RefAt(columnRefs, LeftByValidation)
    /\ Fails("invalid")
    /\ UNCHANGED <<sought, queryRefs, own, kept, result, stored>>

\* The reference the execution has to its query stays as well.
ExecuteUnqualified ==
    /\ kept /\ ~InvalidQuery /\ sought.kind # "bad" /\ Unqualified # {} /\ DataCalled
    /\ columnRefs' = UnrefAt(Ref(columnRefs, sought.columns), GivenBack)
    /\ queryRefs' = queryRefs + 1
    /\ Fails("unqualified")
    /\ UNCHANGED <<sought, own, kept, result, stored>>

ExecuteData(fails) ==
    /\ kept /\ ~InvalidQuery /\ sought.kind # "bad" /\ Unqualified = {} /\ DataCalled
    /\ columnRefs' = UnrefAt(Ref(columnRefs, sought.columns), GivenBack)
    /\ IF fails \/ ~AcceptedStatement(Targets(sought.columns, sought.joins))
       THEN Fails("refused")
       ELSE /\ error' = "none"
            /\ model' = Append(UnrefModel(model, resultset),
                          [columns |-> sought.columns,
                           targets |-> Targets(sought.columns, sought.joins),
                           rows |-> IF sought.limit = 1 THEN Min({1, stored}) ELSE stored,
                           joined |-> ToSet(sought.joins), refs |-> 1])
            /\ resultset' = Len(model) + 1
    /\ UNCHANGED <<sought, queryRefs, own, kept, result, stored>>

-----------------------------------------------------------------------------
(* Results                                                                 *)

\* get_query_result: nothing before the first execution that succeeds.  The
\* references get_columns takes stay.
GetQueryResult ==
    /\ kept /\ DataCalled
    /\ IF resultset = 0
       THEN /\ columnRefs' = Ref(columnRefs, sought.columns)
            /\ UNCHANGED <<model, result, queryRefs>>
       ELSE /\ result' = Append(result,
                   [model |-> resultset, columns |-> sought.columns, live |-> TRUE,
                    n_rows |-> model[resultset].rows, rowRefs |-> 0, taken |-> FALSE])
            /\ model' = [model EXCEPT ![resultset].refs = @ + 1]
            /\ queryRefs' = queryRefs + 1
            /\ columnRefs' = Ref(Ref(columnRefs, sought.columns), sought.columns)
    /\ UNCHANGED <<sought, own, kept, resultset, stored, error>>

\* get_rows: the first call makes the rows, each with a reference to the
\* model, and every later one leaves a reference too many to each.
GetRows(k) ==
    /\ result[k].live /\ ~result[k].taken /\ result[k].n_rows > 0 /\ DataCalled
    /\ result' = [result EXCEPT ![k].taken = TRUE,
                                ![k].rowRefs = @ + 2]
    /\ model' = IF result[k].rowRefs = 0
                THEN [model EXCEPT ![result[k].model].refs = @ + result[k].n_rows]
                ELSE model
    /\ UNCHANGED <<sought, queryRefs, columnRefs, own, kept, resultset, stored, error>>

\* The rows of a result after references to them are dropped.
UnrefRows(ms, r) ==
    IF r.rowRefs = 1 THEN [ms EXCEPT ![r.model].refs = @ - r.n_rows] ELSE ms

DropRows(k) ==
    /\ result[k].taken /\ DataCalled
    /\ result' = [result EXCEPT ![k].taken = FALSE, ![k].rowRefs = @ - 1]
    /\ model' = UnrefRows(model, result[k])
    /\ UNCHANGED <<sought, queryRefs, columnRefs, own, kept, resultset, stored, error>>

\* The last reference to the query is dropped: dispose takes another reference
\* to each column, where it should give its own back.
QueryGone ==
    /\ sought' = Unjoined
    /\ columnRefs' = Unref(Unref(Ref(columnRefs, sought.columns), sought.constraint),
                           [i \in DOMAIN sought.orders |-> sought.orders[i][1]])
    /\ resultset' = 0

DropQuery ==
    /\ kept /\ DataCalled
    /\ kept' = FALSE /\ queryRefs' = queryRefs - 1
    /\ IF queryRefs = 1 THEN QueryGone /\ model' = UnrefModel(model, resultset)
       ELSE UNCHANGED <<sought, columnRefs, resultset, model>>
    /\ UNCHANGED <<own, result, stored, error>>

\* _midgard_sql_query_result_dispose
DropResult(k) ==
    /\ result[k].live /\ DataCalled
    /\ queryRefs' = queryRefs - 1
    /\ result' = [result EXCEPT ![k].live = FALSE, ![k].rowRefs = IF @ = 0 THEN 0 ELSE @ - 1]
    /\ LET left == UnrefModel(UnrefRows(model, result[k]), result[k].model)
       IN IF queryRefs = 1
          THEN /\ sought' = Unjoined /\ resultset' = 0
               /\ columnRefs' = Unref(Unref(Unref(Ref(columnRefs, sought.columns),
                                      sought.constraint),
                                      [i \in DOMAIN sought.orders |-> sought.orders[i][1]]),
                                      result[k].columns)
               /\ model' = UnrefModel(left, resultset)
          ELSE /\ columnRefs' = Unref(columnRefs, result[k].columns)
               /\ model' = left
               /\ UNCHANGED <<sought, resultset>>
    /\ UNCHANGED <<own, kept, stored, error>>

\* The application drops the columns it made.
DropColumns ==
    /\ own # {} /\ DataCalled
    /\ own' = {}
    /\ columnRefs' = [c \in Column |-> columnRefs[c] - (IF c \in own THEN 1 ELSE 0)]
    /\ UNCHANGED <<sought, queryRefs, kept, model, resultset, result, stored, error>>

\* Somebody stores or removes a record.
DataChanges ==
    /\ DataCalled
    /\ stored' \in {0, 2} \ {stored}
    /\ UNCHANGED <<sought, queryRefs, columnRefs, own, kept, model, resultset, result, error>>

-----------------------------------------------------------------------------
DataInit ==
    /\ sought = Unjoined /\ queryRefs = 1 /\ kept = TRUE
    /\ columnRefs = [c \in Column |-> 1] /\ own = Column
    /\ model = <<>> /\ resultset = 0 /\ result = <<>>
    /\ stored = 2 /\ error = "none" /\ parts = 0 /\ dataCalls = 0

DataNext ==
    \/ DropColumns \/ \E c \in Column : AddColumn(c)
    \/ \E j \in Joinable : AddDataJoin(j[1], j[2])
    \/ \E c \in Filtering :
        \/ \E kind \in {"one", "empty", "bad"} : SetDataConstraint(kind, c)
        \/ \E type \in {"asc", "odd"} : AddOrderOf(c, type)
    \/ \E n \in {0, 1} : SetDataLimit(n)
    \/ ExecuteDies \/ ExecuteInvalid \/ ExecuteUnqualified
    \/ \E fails \in BOOLEAN : ExecuteData(fails)
    \/ GetQueryResult \/ DropQuery \/ DataChanges
    \/ \E k \in DOMAIN result : GetRows(k) \/ DropRows(k) \/ DropResult(k)

DataSpec == DataInit /\ [][DataNext]_dataVars

-----------------------------------------------------------------------------
\* A statement that is executed joins a table once, under one qualifier, unless
\* a join names it under another, and each of its columns with a qualifier is of
\* the one target of this qualifier and of its own table, if no qualifier is
\* given to two tables.
ColumnsNamed ==
    \A m \in DOMAIN model :
        LET cs == ToSet(model[m].columns) \cup UNION {ToSet(j) : j \in model[m].joined}
            ts == model[m].targets
        IN (\A c, d \in cs : c.as = d.as => c.table = d.table) =>
             /\ \A c \in cs : c.as # "none" => \E i \in DOMAIN ts :
                   /\ ts[i] = [table |-> c.table, as |-> c.as]
                   /\ {k \in DOMAIN ts : ts[k].as = c.as} = {i}
             /\ \A i, k \in DOMAIN ts : i < k /\ ts[i].table = ts[k].table =>
                   \E j \in model[m].joined : j[2].as = ts[k].as

\* The members of sets that are of results ks, each with its result.
OfEach(ks, sets) == UNION {{k} \X sets[k] : k \in ks}

\* A result has the rows its execution found, and at least the columns, whatever
\* is executed, added, stored and dropped after; and each model lives just as long as
\* the query, a result or a row of one holds it.
ResultsStand ==
    /\ \A k \in DOMAIN result :
         /\ result[k].live => IsPrefix(model[result[k].model].columns, result[k].columns)
         /\ result[k].n_rows = model[result[k].model].rows
    /\ \A m \in DOMAIN model :
         model[m].refs = (IF resultset = m THEN 1 ELSE 0)
             + Cardinality({k \in DOMAIN result : result[k].live /\ result[k].model = m})
             + Cardinality(OfEach(
                   {k \in DOMAIN result : result[k].model = m /\ result[k].rowRefs > 0},
                   [k \in DOMAIN result |-> 1 .. result[k].n_rows]))

\* A column is not freed while the application, the query, its constraint or its
\* orders, or a result has it, whichever goes first.
ColumnsLive ==
    \A c \in Column :
        columnRefs[c] >= (IF c \in own THEN 1 ELSE 0) + Count(c, sought.columns)
            + Count(c, sought.constraint)
            + Cardinality({i \in DOMAIN sought.orders : sought.orders[i][1] = c})
            + Cardinality(OfEach({k \in DOMAIN result : result[k].live},
                                 [k \in DOMAIN result |-> Places(c, result[k].columns)]))

\* What a query by columns selects, gives and holds (sql/midgard_sql_query_*.c).
SelectsColumns == ColumnsNamed /\ ResultsStand /\ ColumnsLive
=============================================================================
