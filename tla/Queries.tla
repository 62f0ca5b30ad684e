------------------------------ MODULE Queries ------------------------------
(***************************************************************************)
(* The two kinds of query an application makes side by side: one query     *)
(* builder and one executor of selects.                                    *)
(***************************************************************************)
EXTENDS QueryBuilder, QuerySelect

queriesVars == <<builderVars, selectVars>>

QueriesInit == BuilderInit /\ SelectInit
BuilderStep == BuilderNext /\ UNCHANGED selectVars
SelectStep == SelectNext /\ UNCHANGED builderVars
QueriesNext == BuilderStep \/ SelectStep
QueriesSpec == QueriesInit /\ [][QueriesNext]_queriesVars

-----------------------------------------------------------------------------
\* Both kinds of query answer what was asked: a query builder hands out its own
\* things, once each and as many as it counts, and a select names only columns
\* of the tables it joins.
QueriesAnswer == AnswersRight /\ ColumnsResolve
=============================================================================
