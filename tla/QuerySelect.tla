----------------------------- MODULE QuerySelect -----------------------------
(***************************************************************************)
(* MidgardQuerySelect: a SELECT made of joins, constraints and orders that *)
(* refer to storages (midgard_query_select.c, midgard_query_constraint.c,  *)
(* and midgard_core_query.c from 2207 on).  What can go wrong is which     *)
(* table a column is taken from: every table of the statement has an alias *)
(* "t<n>" out of a counter of the executor, a storage keeps the alias that *)
(* it once got, and the executor's own storage gets the counter's value of *)
(* the moment.  The model is of one executor through its executions.       *)
(*                                                                         *)
(* Left out: values, operators, kinds of joins and of groups (conditions   *)
(* are met in their order in whatever groups), limit and offset, the       *)
(* workspace join (its alias is a word), validation (a refused query makes *)
(* no statement), names of three tokens.                                   *)
(***************************************************************************)
EXTENDS Integers, Sequences, SequencesExt

CONSTANTS
    Storage,        \* MidgardQueryStorage objects but for the executor's own
    Borrowed,       \* aliases another executor may have given to a storage
    MaxSelectCalls  \* bound: calls made on the executor

ASSUME SelectAssumption ==
    /\ MaxSelectCalls \in Nat /\ Borrowed \subseteq Nat \ {0}
    /\ {"own", "main", "related", "misnamed"} \cap Storage = {}

\* Where a property is looked up: in no storage in particular, which is the
\* main table, in the executor's own storage, or in another one.
Place == Storage \cup {"main", "own"}

\* A property: its storage, and what its name leads to: to no other table, to
\* a row that hangs on the object ("parameter.value", "attachment.name"), or to
\* the object that a link is to ("friend.name").
Property == [at : Place, via : {"no", "row", "link"}]
Plain(p) == [at |-> p, via |-> "no"]

VARIABLES
    alias,       \* table_alias of every storage; 0 is NULL
    tableid,     \* priv->tableid of the executor
    storageJoins,\* priv->joins
    filter,      \* the properties in priv->constraint, in order
    sorts,       \* priv->orders
    statement,   \* of the last execution: its targets and its columns
    borrowed,    \* history: storages that came with an alias
    selectCalls

selectVars == <<alias, tableid, storageJoins, filter, sorts, statement, borrowed, selectCalls>>

\* A target is a table in FROM with its alias; a column has the alias written
\* before it.  "of" tells whose table it is, or is to be: that of a storage,
\* or the related one that is the target at "nth".  A column that is "misnamed"
\* has the alias of the related one, but the name of the link's own column.
Target == [as : Nat, of : Storage \cup {"own", "related", "misnamed"}, nth : Nat]

SelectTypeOK ==
    /\ alias \in [Storage \cup {"own"} -> Nat]
    /\ tableid \in Nat
    /\ storageJoins \in Seq(Property \X Property)
    /\ filter \in Seq(Property) /\ sorts \in Seq(Property)
    /\ statement.targets \in Seq(Target)
    /\ statement.columns \subseteq Target
    /\ selectCalls \in 0 .. MaxSelectCalls

-----------------------------------------------------------------------------
(* The statement, built step by step.  A build is a record of the counter,  *)
(* the aliases, the targets, and the columns; its first target is the main. *)

\* ++tableid, for a new target.
Fresh(b) == [b EXCEPT !.tableid = @ + 1]

Targeted(b, whose, number) ==
    [b EXCEPT !.targets = Append(@, [as |-> number, of |-> whose, nth |-> Len(@) + 1])]

Columned(b, number, whose, nth) ==
    [b EXCEPT !.columns = @ \cup {[as |-> number, of |-> whose, nth |-> nth]}]

\* MQE_SET_TABLE_ALIAS.
Aliased(b, place) ==
    IF place = "own" THEN [b EXCEPT !.alias["own"] = b.tableid]
    ELSE IF place = "main" \/ b.alias[place] # 0 THEN b
    ELSE [Fresh(b) EXCEPT !.alias[place] = b.tableid + 1]

AliasIn(b, place) == IF place = "main" THEN b.targets[1].as ELSE b.alias[place]
Whose(place) == IF place = "main" THEN "own" ELSE place

\* The column of a property, with a LEFT JOIN of its own if its name leads on.
\* Parameter and attachment put the second token's column in the place of the
\* first's; a link leaves its own there, and changes the alias alone.
Computed(b, p) ==
    LET named == Aliased(b, p.at)
        joined == Targeted(Fresh(named), "related", named.tableid + 1)
    IN  IF p.via = "no" THEN Columned(named, AliasIn(named, p.at), Whose(p.at), 0)
        ELSE Columned(Columned(joined, AliasIn(named, p.at), Whose(p.at), 0),
                      named.tableid + 1, IF p.via = "row" THEN "related" ELSE "misnamed",
                      Len(joined.targets))

\* A join: the columns of its two sides, then the right storage as a target.
JoinedTo(b, j) ==
    LET sides == Aliased(Computed(Computed(b, j[1]), j[2]), j[2].at)
    IN  Targeted(sides, j[2].at, AliasIn(sides, j[2].at))

\* The joins in their order, and the columns of constraints and of orders.
JoinedAll(main, js) ==
    LET joined[n \in 0 .. Len(js)] ==
            IF n = 0 THEN main ELSE JoinedTo(joined[n - 1], js[n])
    IN  joined[Len(js)]

ComputedAll(b, used) ==
    LET built[n \in 0 .. Len(used)] ==
            IF n = 0 THEN b ELSE Computed(built[n - 1], used[n])
    IN  built[Len(used)]

\* The main table, joins, constraints, orders.
Build ==
    LET main == [tableid |-> tableid + 1, alias |-> alias, columns |-> {},
                 targets |-> <<[as |-> tableid + 1, of |-> "own", nth |-> 1]>>]
    IN  ComputedAll(JoinedAll(main, storageJoins), filter \o sorts)

-----------------------------------------------------------------------------
SelectCalled ==
    /\ selectCalls < MaxSelectCalls
    /\ selectCalls' = selectCalls + 1

\* The right property needs a storage.
AddJoin(left, right) ==
    /\ right.at # "main"
    /\ SelectCalled
    /\ storageJoins' = Append(storageJoins, <<left, right>>)
    /\ UNCHANGED <<alias, tableid, filter, sorts, statement, borrowed>>

SetConstraint(properties) ==
    /\ SelectCalled
    /\ filter' = properties
    /\ UNCHANGED <<alias, tableid, storageJoins, sorts, statement, borrowed>>

AddSort(p) ==
    /\ SelectCalled
    /\ sorts' = Append(sorts, p)
    /\ UNCHANGED <<alias, tableid, storageJoins, filter, statement, borrowed>>

\* The counter goes on and storages keep their aliases.
ExecuteSelect ==
    /\ SelectCalled
    /\ tableid' = Build.tableid
    /\ alias' = Build.alias
    /\ statement' = [targets |-> Build.targets, columns |-> Build.columns,
                     of |-> <<storageJoins, filter, sorts>>]
    /\ UNCHANGED <<storageJoins, filter, sorts, borrowed>>

SelectInit ==
    /\ borrowed \in SUBSET Storage
    /\ alias \in [Storage \cup {"own"} -> {0} \cup Borrowed]
    /\ \A s \in Storage \cup {"own"} : (alias[s] # 0) = (s \in borrowed)
    /\ tableid = 0 /\ storageJoins = <<>> /\ filter = <<>> /\ sorts = <<>>
    /\ statement = [targets |-> <<>>, columns |-> {}, of |-> <<>>]
    /\ selectCalls = 0

SelectNext ==
    \/ \E l, r \in Place : AddJoin(Plain(l), Plain(r))
    \/ \E p \in Property : SetConstraint(<<p>>)
    \/ \E p \in Property : AddSort(p)
    \/ ExecuteSelect

-----------------------------------------------------------------------------
Uses(q) == {j[1].at : j \in ToSet(q[1])} \cup {j[2].at : j \in ToSet(q[1])}
               \cup {p.at : p \in ToSet(q[2] \o q[3])}

JoinsOf(q, s) == {k \in DOMAIN q[1] : q[1][k][2].at = s}

\* The query names the executor's own storage once another table has an alias.
NamesItself(q) ==
    \/ \E k \in DOMAIN q[1] : q[1][k][2].at = "own" \/ (k > 1 /\ q[1][k][1].at = "own")
    \/ q[1] # <<>> /\ \E p \in ToSet(q[2] \o q[3]) : p.at = "own"
    \/ \E m, k \in DOMAIN (q[2] \o q[3]) :
           m < k /\ (q[2] \o q[3])[m].via # "no" /\ (q[2] \o q[3])[k].at = "own"

\* In every execution, the first and the later ones, a column's alias is that
\* of one target and of the right one, if each storage in the query is joined
\* once, none has an alias from another executor, and the executor's own is
\* not named once there are other tables (midgard_core_query.h, 116-123).  The
\* column of a link's property has the alias of the linked table, but is not one
\* of that table (midgard_core_query.c, 2298-2313): no more is claimed of it.
ColumnsResolve ==
    LET q == statement.of
    IN  (/\ statement.targets # <<>>
         /\ Uses(q) \cap borrowed = {}
         /\ \A s \in Uses(q) \cap Storage : \E k \in DOMAIN q[1] : JoinsOf(q, s) = {k}
         /\ ~NamesItself(q)) =>
             \A c \in statement.columns : \E t \in ToSet(statement.targets) :
                 /\ {u \in ToSet(statement.targets) : u.as = c.as} = {t}
                 /\ t.of = IF c.of = "misnamed" THEN "related" ELSE c.of
                 /\ c.of \in {"related", "misnamed"} => t.nth = c.nth
=============================================================================
