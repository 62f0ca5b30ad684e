---------------------------- MODULE QueryBuilder ----------------------------
(***************************************************************************)
(* MidgardQueryBuilder: an application names properties to compare or to   *)
(* sort by, the builder collects tables, conditions and joins, and one     *)
(* SELECT is made of them (query_builder.c, midgard_core_query_builder.c,  *)
(* query_constraint.c, group_constraint.c, query_order.c).                 *)
(*                                                                         *)
(* A property's name is a sequence of tokens.  All but the last lead to a  *)
(* related object: "friend" is a link to a person, "parameter" and         *)
(* "attachment" lead to rows with parent_guid.  The database does not      *)
(* change: Rows is an instance with the cases of interest.  Left out: the  *)
(* conversion of values, operators other than "=" (no condition is a       *)
(* negation of another), the order of the result, links to the own table   *)
(* and from a person, and the parameters of attachments.                   *)
(***************************************************************************)
EXTENDS Integers, Sequences, FiniteSets, SequencesExt, FiniteSetsExt

CONSTANTS
    Rows,      \* the rows of every table, each a record of its fields
    Name,      \* the names of properties an application uses
    Pair,      \* the pairs of names it compares with each other
    Limits,    \* the limits it sets
    MaxCalls   \* bound: calls made on the builder

Table == {"thing", "person", "record_extension", "blobs"}

\* What the tokens before the last may be.
Prefix == {<<>>, <<"friend">>, <<"parameter">>, <<"attachment">>,
           <<"friend", "parameter">>, <<"friend", "attachment">>}

ASSUME DataAssumption ==
    /\ DOMAIN Rows = Table
    /\ \A T \in Table : /\ IsFiniteSet(Rows[T]) /\ Rows[T] # {}
                        /\ \A r \in Rows[T] : r.guid # "none"
    /\ \A p, q \in Rows["person"] : p.id = q.id => p = q   \* the primary key
ASSUME NameAssumption ==
    /\ \A n \in Name : n \in Seq(STRING) /\ n # <<>> /\ Front(n) \in Prefix
    /\ Pair \subseteq Name \X Name /\ Limits \subseteq Nat /\ MaxCalls \in Nat

\* A row where a table is not in the statement; the limit G_MAXUINT.
NoRow == [guid |-> "none"]
NoLimit == 1000

\* The reserved tokens and their tables.
ReservedTable == [parameter |-> "record_extension", attachment |-> "blobs"]

\* The table whose columns the last of the tokens is looked up in.
TableOf(tokens) ==
    IF tokens = <<>> THEN "thing"
    ELSE IF Last(tokens) \in DOMAIN ReservedTable THEN ReservedTable[Last(tokens)]
    ELSE "person"

TableOfName(name) == TableOf(Front(name))

\* g_object_class_find_property on the class reached.
Registered(name) ==
    \A r \in Rows[TableOfName(name)] : Last(name) \in DOMAIN r

\* A condition: a property compared with a value, or with another property
\* (with = <<>> when it is a value).
Condition == [name : Seq(STRING), op : {"=", "invalid"}, with : Seq(STRING), val : STRING]

VARIABLES
    class,       \* priv->type: a class of objects, or midgard_user
    user,        \* guid of the plain user who is logged in, or "none"
    tables,      \* priv->tables
    constraints, \* priv->constraints without the next two, joined by AND
    reference,   \* whose guid a table's parent_guid is compared with, if
                 \* param_join_exists or blob_join_exists, or "none"
    joins,       \* priv->joins: the links that were followed
    groups,      \* all groups in the order in which they were begun
    open,        \* priv->group_constraint: its number, or 0
    nesting,     \* priv->grouping_ref
    orders,      \* priv->orders
    distinct,    \* priv->select_distinct
    deletedToo,  \* priv->include_deleted
    limit,
    offset,
    asked,       \* history: conditions, begins and ends of groups as called
    answer,      \* of the execute or count just made
    calls

query == <<tables, constraints, reference, joins, groups, open, nesting, orders,
           distinct, deletedToo, limit, offset, asked>>
builderVars == <<class, user, query, answer, calls>>

NoAnswer == [of |-> "nothing", by |-> "none", things |-> {}, number |-> 0]

Group == [type : {"AND", "OR"}, parent : Nat, conds : SUBSET Condition]

BuilderTypeOK ==
    /\ class \in {"object", "midgard_user"}
    /\ user \in {"none"} \cup {r.guid : r \in Rows["thing"]}
    /\ tables \subseteq Table
    /\ \A c \in constraints : c \in Condition
    /\ DOMAIN reference = {"record_extension", "blobs"}
    /\ \A T \in DOMAIN reference : reference[T] \in Table \cup {"none"}
    /\ joins \subseteq {"friend"}
    /\ \A i \in DOMAIN groups : groups[i].parent < i
    /\ open \in 0 .. Len(groups) /\ nesting \in Nat
    /\ distinct \in BOOLEAN /\ deletedToo \in BOOLEAN
    /\ limit \in Nat /\ offset \in Nat
    /\ calls \in 0 .. MaxCalls

-----------------------------------------------------------------------------
(* The statement: its FROM, its WHERE, and what the database makes of them. *)

\* The conditions that occur in the statement, in groups or not.
Conditions(cs) == cs \cup UNION {groups[i].conds : i \in DOMAIN groups}

Named(c) == {c.name} \cup (IF c.with = <<>> THEN {} ELSE {c.with})

\* The groups inside a group; those in 0 are outermost.
Nested(gs, i) == {j \in DOMAIN gs : gs[j].parent = i}

\* The groups that hold when the conditions in "met" do; an empty group is
\* "1=1".
Holding(gs, met) ==
    LET inGroup[i \in DOMAIN gs] ==
            CASE gs[i].conds = {} /\ Nested(gs, i) = {} -> TRUE
              [] gs[i].type = "AND" ->
                     gs[i].conds \subseteq met /\ \A j \in Nested(gs, i) : inGroup[j]
              [] OTHER -> gs[i].conds \cap met # {} \/ \E j \in Nested(gs, i) : inGroup[j]
    IN  {i \in DOMAIN gs : inGroup[i]}

\* WHERE: AND of the constraints and of the outermost groups.
Where(cs, met) == cs \subseteq met /\ Nested(groups, 0) \subseteq Holding(groups, met)

\* Whether a row of the class is wanted, deleted or not; users have no metadata.
Alive(t) == class = "midgard_user" \/ deletedToo \/ t.deleted = "no"

From(T) == IF T \in tables THEN Rows[T] ELSE {NoRow}

\* The joins, and that the referring row is not deleted.
JoinsHold(r) ==
    /\ "friend" \in joins => r.thing.friend = r.person.id
    /\ \A T \in DOMAIN reference :
           reference[T] # "none" =>
               r[T].parent_guid = r[reference[T]].guid /\ r[T].deleted = "no"

\* Rows of FROM that satisfy everything the statement has in WHERE.
Selected(cs) ==
    LET Combined ==
            UNION {UNION {{[thing |-> t, person |-> p, record_extension |-> x, blobs |-> b] :
                               x \in From("record_extension"), b \in From("blobs")} :
                              p \in From("person")} :
                       t \in {s \in Rows["thing"] : Alive(s)}}
        Cell(r, name) == r[TableOfName(name)][Last(name)]
        CondHolds(r, c) ==
            Cell(r, c.name) = IF c.with = <<>> THEN c.val ELSE Cell(r, c.with)
    IN  {r \in Combined :
            JoinsHold(r) /\ Where(cs, {c \in Conditions(cs) : CondHolds(r, c)})}

\* The database refuses the statement: a condition names a table that is not
\* in FROM or has no operator, an order has no direction, or there is an
\* OFFSET without a LIMIT (PostgreSQL alone takes that).
Invalid(cs) ==
    \/ \E c \in Conditions(cs) :
           c.op = "invalid" \/ \E n \in Named(c) : TableOfName(n) \notin tables
    \/ \E T \in DOMAIN reference : reference[T] # "none" /\ T \notin tables
    \/ \E o \in orders : o.dir = "null" \/ TableOfName(o.name) \notin tables
    \/ limit = NoLimit /\ offset # 0

Things(rows) == {r.thing : r \in rows}

-----------------------------------------------------------------------------
(* Calls that add to the query. *)

\* What looking up the tokens of a name leaves in the builder, whether or not
\* its last token is registered: a link adds its tables and its join,
\* "parameter" and "attachment" compare parent_guid once and for all.
Follows(name, n) ==
    [tables |-> IF "friend" \in ToSet(Front(name)) THEN n.tables \cup {"thing", "person"}
                ELSE n.tables,
     joins |-> IF "friend" \in ToSet(Front(name)) THEN n.joins \cup {"friend"} ELSE n.joins,
     reference |->
         [T \in DOMAIN n.reference |->
             IF n.reference[T] # "none" THEN n.reference[T]
             ELSE LET at == {k \in 1 .. Len(name) - 1 :
                                name[k] \in DOMAIN ReservedTable /\ ReservedTable[name[k]] = T}
                  IN  IF at = {} THEN "none" ELSE TableOf(SubSeq(name, 1, Min(at) - 1))],
     distinct |-> n.distinct \/ "parameter" \in ToSet(Front(name))]

Now == [tables |-> tables, joins |-> joins, reference |-> reference, distinct |-> distinct]

\* The builder after names were looked up, and added to FROM if accepted.
Becomes(n, names) ==
    /\ tables' = n.tables \cup {TableOfName(name) : name \in names}
    /\ joins' = n.joins
    /\ reference' = n.reference
    /\ distinct' = n.distinct

Called ==
    /\ calls < MaxCalls
    /\ calls' = calls + 1
    /\ answer' = NoAnswer

\* Mutant of Placed: the group that is open is not looked at.
Placed_Outside(c) ==
    /\ constraints' = constraints \cup {c}
    /\ asked' = Append(asked, [type |-> "is", conds |-> {c}])
    /\ UNCHANGED groups

\* A condition goes to the group that is open, or else to the constraints.
Placed(c) ==
    /\ asked' = Append(asked, [type |-> "is", conds |-> {c}])
    /\ IF nesting > 0
       THEN /\ groups' = [groups EXCEPT ![open].conds = @ \cup {c}]
            /\ UNCHANGED constraints
       ELSE /\ constraints' = constraints \cup {c}
            /\ UNCHANGED groups

\* An invalid operator is refused first of all.
RefuseOperator ==
    /\ Called
    /\ UNCHANGED <<class, user, query>>

\* "fits": the value can be compared, it is not an empty array with IN.
AddConstraint(name, fits) ==
    /\ Called
    /\ IF Registered(name) /\ fits
       THEN /\ Becomes(Follows(name, Now), {name})
            /\ Placed([name |-> name, op |-> "=", with |-> <<>>, val |-> "yes"])
       ELSE /\ Becomes(Follows(name, Now), {})
            /\ UNCHANGED <<constraints, groups, asked>>
    /\ UNCHANGED <<class, user, open, nesting, orders, deletedToo, limit, offset>>

\* This call does not look at its operator.
AddConstraintWithProperty(a, b, op) ==
    LET first == Follows(a, Now)
        both == Follows(b, first)
    IN  /\ Called
        /\ IF Registered(a) /\ Registered(b)
           THEN /\ Becomes(both, {a, b})
                /\ Placed([name |-> a, op |-> op, with |-> b, val |-> "none"])
           ELSE /\ Becomes(IF Registered(a) THEN both ELSE first, {})
                /\ UNCHANGED <<constraints, groups, asked>>
        /\ UNCHANGED <<class, user, open, nesting, orders, deletedToo, limit, offset>>

\* A direction that is not given is taken for ASC and yet copied as NULL.
AddOrder(name, dir) ==
    /\ Called
    /\ IF Registered(name)
       THEN /\ Becomes(Follows(name, Now), {name})
            /\ orders' = orders \cup {[name |-> name, dir |-> dir]}
       ELSE /\ Becomes(Follows(name, Now), {})
            /\ UNCHANGED orders
    /\ UNCHANGED <<class, user, constraints, groups, open, nesting, deletedToo, limit, offset,
                   asked>>

BeginGroup(type) ==
    /\ Called
    /\ groups' = Append(groups, [type |-> type, conds |-> {},
                                 parent |-> IF nesting > 0 THEN open ELSE 0])
    /\ open' = Len(groups')
    /\ nesting' = nesting + 1
    /\ asked' = Append(asked, [type |-> type, conds |-> {}])
    /\ UNCHANGED <<class, user, tables, constraints, reference, joins, orders, distinct,
                   deletedToo, limit, offset>>

EndGroup ==
    /\ nesting > 0
    /\ Called
    /\ open' = groups[open].parent
    /\ nesting' = nesting - 1
    /\ asked' = Append(asked, [type |-> "end", conds |-> {}])
    /\ UNCHANGED <<class, user, tables, constraints, reference, joins, groups, orders,
                   distinct, deletedToo, limit, offset>>

SetBounds(l, o) ==
    /\ Called
    /\ limit' = l /\ offset' = o
    /\ UNCHANGED <<class, user, tables, constraints, reference, joins, groups, open, nesting,
                   orders, distinct, deletedToo, asked>>

IncludeDeleted ==
    /\ Called
    /\ deletedToo' = TRUE
    /\ UNCHANGED <<class, user, tables, constraints, reference, joins, groups, open, nesting,
                   orders, distinct, limit, offset, asked>>

-----------------------------------------------------------------------------
(* Calls that execute it. *)

\* Mutant of Restricted: the constraint is forgotten.
Restricted_None == constraints

\* A plain user may find himself only: the constraint stays in the builder.
Restricted ==
    IF class = "midgard_user" /\ user # "none"
    THEN constraints \cup {[name |-> <<"guid">>, op |-> "=", with |-> <<>>, val |-> user]}
    ELSE constraints

KeepRestricted ==
    /\ constraints' = Restricted
    /\ asked' = IF Restricted = constraints THEN asked
                ELSE Append(asked, [type |-> "is", conds |-> Restricted \ constraints])

\* No execution while a group is open.
Refuse ==
    /\ nesting > 0
    /\ Called
    /\ UNCHANGED <<class, user, query>>

\* How many rows things make in the result, and how many are left of n rows.
RowsOf(things, rows) ==
    IF distinct THEN Cardinality(things) ELSE Cardinality({r \in rows : r.thing \in things})
Bounded(n) == LET rest == IF n > offset THEN n - offset ELSE 0
              IN  IF rest > limit THEN limit ELSE rest

Answered(what, things, number) ==
    answer' = [of |-> what, by |-> IF class = "midgard_user" THEN user ELSE "none",
               things |-> things, number |-> number]

\* As many rows as the bounds leave, of whatever things come first.
Execute ==
    LET rows == IF Invalid(Restricted) THEN {} ELSE Selected(Restricted)
        found == Bounded(RowsOf(Things(rows), rows))
    IN  /\ nesting = 0 /\ calls < MaxCalls
        /\ calls' = calls + 1
        /\ KeepRestricted
        /\ \E S \in SUBSET Things(rows) :
               /\ Cardinality(S) =< found /\ found =< RowsOf(S, rows)
               /\ Answered("objects", S, found)
        /\ UNCHANGED <<class, user, tables, reference, joins, groups, open, nesting, orders,
                       distinct, deletedToo, limit, offset>>

\* The bounds are those of the one row that COUNT(*) makes of all others.
Count ==
    LET rows == IF Invalid(Restricted) THEN {} ELSE Selected(Restricted)
    IN  /\ nesting = 0 /\ calls < MaxCalls
        /\ calls' = calls + 1
        /\ KeepRestricted
        /\ Answered("count", {}, IF Bounded(1) = 1 THEN Cardinality(rows) ELSE 0)
        /\ UNCHANGED <<class, user, tables, reference, joins, groups, open, nesting, orders,
                       distinct, deletedToo, limit, offset>>

\* Somebody else logs in: not a call on the builder.
LogIn(u) ==
    /\ class = "midgard_user" /\ u # user
    /\ Called
    /\ user' = u
    /\ UNCHANGED <<class, query>>

-----------------------------------------------------------------------------
BuilderInit ==
    /\ class \in {"object", "midgard_user"}
    /\ user = "none"
    /\ tables = {"thing"} /\ constraints = {} /\ joins = {}
    /\ reference = [T \in {"record_extension", "blobs"} |-> "none"]
    /\ asked = <<>> /\ groups = <<>> /\ open = 0 /\ nesting = 0
    /\ orders = {} /\ distinct = FALSE /\ deletedToo = FALSE
    /\ limit = NoLimit /\ offset = 0
    /\ answer = NoAnswer /\ calls = 0

BuilderNext ==
    \/ RefuseOperator
    \/ \E n \in Name, fits \in BOOLEAN : AddConstraint(n, fits)
    \/ \E p \in Pair, op \in {"=", "invalid"} : AddConstraintWithProperty(p[1], p[2], op)
    \/ \E n \in Name, dir \in {"ASC", "null"} : AddOrder(n, dir)
    \/ \E type \in {"AND", "OR"} : BeginGroup(type)
    \/ EndGroup
    \/ \E l \in Limits \cup {NoLimit}, o \in {0, 1} : SetBounds(l, o)
    \/ IncludeDeleted
    \/ Refuse
    \/ Execute
    \/ Count
    \/ \E r \in Rows["thing"] : LogIn(r.guid)

-----------------------------------------------------------------------------
(* What the application asked for, without regard to tables and joins. *)

\* The rows that the tokens before a property's own lead to from a thing.
Owners(prefix, t) ==
    IF prefix = <<>> THEN {t} ELSE {p \in Rows["person"] : p.id = t.friend}
Related(prefix, t) ==
    IF prefix = <<>> \/ Last(prefix) = "friend" THEN Owners(prefix, t)
    ELSE {x \in Rows[TableOf(prefix)] :
            x.deleted = "no" /\ \E o \in Owners(Front(prefix), t) : x.parent_guid = o.guid}

\* The group that was open when the k-th thing was asked: the last one begun
\* that had not ended.
Within(k) ==
    LET Many(from, to, types) ==
            Cardinality({m \in from .. to : asked[m].type \in types})
        around == {b \in 1 .. k - 1 :
                      /\ asked[b].type \in {"AND", "OR"}
                      /\ \A m \in b + 1 .. k - 1 :
                             Many(b + 1, m, {"end"}) =< Many(b + 1, m, {"AND", "OR"})}
    IN  IF around = {} THEN 0 ELSE Max(around)

\* What was asked is true, when the conditions in "met" are those that hold.
Asked(met) ==
    LET parts(i) == {k \in DOMAIN asked : asked[k].type # "end" /\ Within(k) = i}
        true[i \in DOMAIN asked] ==
            CASE asked[i].type = "is" -> asked[i].conds \subseteq met
              [] asked[i].type = "OR" /\ parts(i) # {} -> \E k \in parts(i) : true[k]
              [] OTHER -> \A k \in parts(i) : true[k]
    IN  \A i \in parts(0) : true[i]

\* One related row, or none, for every prefix makes the conditions true.
Meant(t) ==
    LET prefixes == {Front(n) : n \in UNION {Named(c) : c \in Conditions(constraints)}}
        candidates == {NoRow} \cup UNION {Related(p, t) : p \in prefixes}
        Met(f, c) ==
            /\ \A n \in Named(c) : f[Front(n)] # NoRow
            /\ f[Front(c.name)][Last(c.name)] =
                 (IF c.with = <<>> THEN c.val ELSE f[Front(c.with)][Last(c.with)])
    IN  \E f \in [prefixes -> candidates] :
            /\ \A p \in prefixes : f[p] \in Related(p, t) \cup {NoRow}
            /\ Asked({c \in Conditions(constraints) : Met(f, c)})

Tokens == [record_extension |-> "parameter", blobs |-> "attachment"]

\* The prefixes that the statement joins.
Joined ==
    {<<x>> : x \in joins}
        \cup {(IF reference[T] = "person" THEN <<"friend">> ELSE <<>>) \o <<Tokens[T]>> :
                 T \in {U \in DOMAIN reference : reference[U] # "none"}}

\* "parameter" was first used of another table than in some condition.
Mixed ==
    \E c \in Conditions(constraints) : \E n \in Named(c) :
        LET prefix == Front(n)
        IN  /\ prefix # <<>> /\ Last(prefix) \in DOMAIN ReservedTable
            /\ reference[TableOf(prefix)] # TableOf(Front(prefix))

\* The statement selects exactly the things that are meant and have a row in
\* every table that some name led to (a name in an OR group, in an order or a
\* refused one too: midgard_core_query_builder.c, 322-353 and 466-496), unless
\* "parameter" or "attachment" were used both of the thing and of its friend
\* (412-432).
StatementMeans ==
    ~Invalid(constraints) /\ ~Mixed =>
        Things(Selected(constraints)) =
            {t \in Rows["thing"] :
                Alive(t) /\ Meant(t) /\ \A p \in Joined : Related(p, t) # {}}

\* A plain user is answered with himself only (query_builder.c, 560-575).
OwnOnly == answer.by # "none" => \A t \in answer.things : t.guid = answer.by

\* No object is returned twice but for its attachments.
TwinsAttached ==
    answer.of = "objects" /\ answer.number # Cardinality(answer.things) =>
        reference["blobs"] # "none"

\* The count is that of the objects of an unbounded query, unless there is an
\* offset, which skips the one row of the count, or a limit of 0, or some
\* object is joined with several rows.
CountAgrees ==
    answer.of = "count" =>
        LET rows == IF Invalid(constraints) THEN {} ELSE Selected(constraints)
        IN  \/ answer.number = Cardinality(Things(rows))
            \/ offset # 0 \/ limit = 0
            \/ \E t \in Things(rows), T \in DOMAIN reference :
                   Cardinality({r[T] : r \in {s \in rows : s.thing = t}}) > 1

\* What execute and count answer (query_builder.c, 549-680).
AnswersRight == OwnOnly /\ TwinsAttached /\ CountAgrees
=============================================================================
