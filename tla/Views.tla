-------------------------------- MODULE Views --------------------------------
(***************************************************************************)
(* A view: the class midgard_core_views_read_file makes of a <view>        *)
(* element, and the view of the database it stands for                     *)
(* (midgard_core_views.c, midgard_view.c).                                 *)
(*                                                                         *)
(* What the class knows of its columns is kept in MgdSchemaPropertyAttr    *)
(* records which the statements that are built of them change.  The        *)
(* database's view outlives the process; the class does not.               *)
(***************************************************************************)
EXTENDS Integers, Sequences, FiniteSets, SequencesExt, FiniteSetsExt

CONSTANTS
    Class,        \* the registered classes: a name to the table, the
                  \* properties and whether it has metadata
    View,         \* the <view> elements that may be read
    MaxViewCalls  \* bound: calls made

\* "view" is the view itself, and no table has its name.
ASSUME ViewAssumption ==
    /\ \A c \in DOMAIN Class : Class[c].table # "view"
    /\ \A d \in View : /\ d.class \in DOMAIN Class
                        /\ Len(d.props) \in Nat /\ DOMAIN d.props = 1 .. Len(d.props)

VARIABLES
    decl,      \* the <view> that is read
    state,     \* "new", "registered", "dropped" by a call of update_storage,
               \* or what became of a <view> that is refused
    prophash,  \* type->prophash: a name to the property whose record is there
    attr,      \* the records, by property: their table
    command,   \* type->sql_create_view, or <<>>
    shown,     \* the database's view, or <<>>
    told,      \* what the last call answered, and what failed in it
    viewCalls  \* calls made so far

viewVars == <<decl, state, prophash, attr, command, shown, told, viewCalls>>

Columns == DOMAIN decl.props
Use(j) == decl.props[j]
OfMetadata(j) == Use(j).prop \notin DOMAIN Class[Use(j).class].props

\* prop_attr->derived: the table and the column of the property that is used.
\* Those of metadata have no table of their own.
Derived(j) ==
    IF OfMetadata(j) THEN <<"none", Use(j).prop>>
    ELSE <<Class[Use(j).class].table, Class[Use(j).class].props[Use(j).prop].field>>

-----------------------------------------------------------------------------
(* Reading                                                                 *)

\* __allowed_joins, and those of them that are a join to a database.
SqlJoins == {"left", "right", "inner"}
AllowedJoins == SqlJoins \cup {"inner left", "inner right", "outer"}

\* The errors __get_property_attribute, __get_view_joins and
\* __get_view_constraints stop the program for.
PropertyFails(j) ==
    \/ Use(j).class \notin DOMAIN Class
    \/ Class[Use(j).class].table = "none"
    \/ IF OfMetadata(j) THEN ~Class[Use(j).class].metadata
       ELSE Class[Use(j).class].props[Use(j).prop].private
JoinFails(j) ==
    \/ decl.joins[j].type \notin AllowedJoins
    \/ \E c \in {decl.joins[j].class, decl.joins[j].left[1], decl.joins[j].right[1]} :
        c \notin DOMAIN Class

\* __get_view_properties: the copy is put under the name of the property that
\* is used, renamed, and put under its new name as well; what is put there
\* later takes its place.
Hashed ==
    [n \in UNION {{Use(j).prop, Use(j).name} : j \in Columns} |->
        Max({j \in Columns : n \in {Use(j).prop, Use(j).name}})]

\* midgard_core_schema_type_validate_fields, of the records that are left.
SameColumn ==
    \E j, k \in {Hashed[n] : n \in DOMAIN Hashed} :
        j # k /\ ~OfMetadata(j) /\ Derived(j) = Derived(k)

ReadView ==
    /\ state = "new"
    /\ IF \/ Class[decl.class].table = "none" \/ ~(decl.constraints \subseteq DOMAIN Class)
          \/ \E j \in Columns : PropertyFails(j)
          \/ \E j \in DOMAIN decl.joins : JoinFails(j)
          \/ SameColumn
       THEN /\ state' = "dead" /\ UNCHANGED <<prophash, attr>>
       ELSE /\ state' = IF Columns = {} THEN "unregistered" ELSE "registered"
            /\ prophash' = Hashed
            /\ attr' = [j \in Columns |-> Class[Use(j).class].table]
    /\ UNCHANGED <<decl, command, shown, told, viewCalls>>

-----------------------------------------------------------------------------
(* The statements                                                          *)

\* A record that a name of the class leads to.
Found(j, names) == \E n \in names : prophash[n] = j
ColumnNames == {Use(j).name : j \in Columns}

\* _midgard_view_derived_set_static_sql_select, and the list below as well: the
\* records the names lead to are the view's own from now on.
Viewed == [j \in Columns |-> IF Found(j, ColumnNames) THEN "view" ELSE attr[j]]

\* The table a record names when a list of the columns comes to it: the view's
\* own if a column before led to it.
TableThen(n) ==
    LET before == {Use(i).name : i \in 1 .. Min({k \in Columns : Use(k).name = n}) - 1}
    IN IF Found(prophash[n], before) THEN "view" ELSE attr[prophash[n]]

\* Mutant of ListedAs: the table is taken from the record.
ListedAs_Record(n) == <<TableThen(n), Derived(prophash[n])[2]>>

\* __build_create_view_cmd, of one name.
ListedAs(n) ==
    LET own == Derived(prophash[n])
    IN <<IF own[1] # "none" THEN own[1] ELSE TableThen(n), own[2]>>

\* midgard_core_view_build_create_view_command: of joins, only those rows
\* whose objects are not deleted; of a view without, all of them.
JoinedClasses ==
    UNION {{decl.joins[i].left[1], decl.joins[i].right[1]} : i \in DOMAIN decl.joins}
JoinedTables == {Class[c].table : c \in {c \in JoinedClasses : Class[c].metadata}}
BuiltCommand ==
    [shows |-> [n \in ColumnNames |-> ListedAs(n)],
     from |-> {Class[decl.class].table}
                  \cup {Class[decl.joins[i].class].table : i \in DOMAIN decl.joins},
     joins |-> {decl.joins[i].type : i \in DOMAIN decl.joins},
     where |-> JoinedTables,
     names |-> {Class[k].table : k \in JoinedClasses \cup decl.constraints},
     constraints |-> decl.constraints]

\* What the database refuses: a table that is not selected from, in a column,
\* in ON or in WHERE; a join of no kind; a WHERE with nothing after it.
OverTables(c) == c.names \subseteq c.from /\ c.joins \subseteq SqlJoins
Accepted(c) ==
    /\ \A n \in DOMAIN c.shows : c.shows[n][1] \in c.from
    /\ OverTables(c)
    /\ c.where # {} \/ c.constraints # {}

-----------------------------------------------------------------------------
ViewCalled == viewCalls < MaxViewCalls /\ viewCalls' = viewCalls + 1
Told(call, answer, fails) == told' = [call |-> call, answer |-> answer, fails |-> fails]

SelectFromView ==
    /\ state = "registered" /\ ViewCalled
    /\ attr' = Viewed
    /\ Told("select", shown # <<>>, {})
    /\ UNCHANGED <<decl, state, prophash, command, shown>>

\* _midgard_view_derived_create_storage: nothing to do if the view is there,
\* or seems to be as the meta store cannot be read; the command is built once.
Create(call, fails) ==
    IF "meta" \in fails \/ shown # <<>>
    THEN /\ Told(call, TRUE, fails) /\ UNCHANGED <<attr, command, shown>>
    ELSE LET c == IF command = <<>> THEN BuiltCommand ELSE command
             done == Accepted(c) /\ "create" \notin fails
         IN /\ command' = c
            /\ attr' = IF command = <<>> THEN Viewed ELSE attr
            /\ shown' = IF done THEN c ELSE <<>>
            /\ Told(call, done, fails)

CreateStorage(fails) ==
    /\ state = "registered" /\ ViewCalled
    /\ Create("create", fails)
    /\ UNCHANGED <<decl, state, prophash>>

DeleteStorage(fails) ==
    /\ state = "registered" /\ ViewCalled
    /\ shown' = IF fails = {} THEN <<>> ELSE shown
    /\ Told("delete", fails = {} /\ shown # <<>>, fails)
    /\ UNCHANGED <<decl, state, prophash, attr, command>>

\* _midgard_view_derived_update_storage: DROP VIEW, whatever it answers, ...
UpdateDrops(fails) ==
    /\ state = "registered" /\ ViewCalled
    /\ shown' = IF fails = {} THEN <<>> ELSE shown
    /\ state' = "dropped"
    /\ Told("drop", TRUE, fails)
    /\ UNCHANGED <<decl, prophash, attr, command>>

\* ... then a view like any other.
UpdateCreates(fails) ==
    /\ state = "dropped"
    /\ state' = "registered"
    /\ Create("update", fails \cup told.fails)
    /\ UNCHANGED <<decl, prophash, viewCalls>>

\* The process ends, in the middle of a call perhaps; the next reads the
\* same file.
Restart ==
    /\ state \in {"registered", "dropped"} /\ ViewCalled
    /\ state' = "new" /\ prophash' = <<>> /\ attr' = <<>> /\ command' = <<>>
    /\ Told("restart", TRUE, {})
    /\ UNCHANGED <<decl, shown>>

ViewInit ==
    /\ decl \in View /\ state = "new"
    /\ prophash = <<>> /\ attr = <<>> /\ command = <<>> /\ shown = <<>>
    /\ told = [call |-> "none", answer |-> TRUE, fails |-> {}]
    /\ viewCalls = 0

ViewNext ==
    \/ ReadView \/ SelectFromView \/ Restart
    \/ \E fails \in SUBSET {"meta", "create"} : CreateStorage(fails) \/ UpdateCreates(fails)
    \/ \E fails \in SUBSET {"drop"} : DeleteStorage(fails) \/ UpdateDrops(fails)

ViewSpec == ViewInit /\ [][ViewNext]_viewVars

-----------------------------------------------------------------------------
\* A column a later property does not take over: the name of a column and that
\* of a property used after it are one name in the table of properties.
Kept(j) == ~\E k \in Columns : k > j /\ Use(j).name \in {Use(k).prop, Use(k).name}

\* A view that is there has a column for each of its properties that shows the
\* property the file names, unless a property used later has the column's
\* name; and of the classes it joins no deleted object.
ColumnsShow ==
    shown # <<>> =>
        /\ DOMAIN shown.shows = ColumnNames
        /\ \A j \in Columns : Kept(j) =>
              shown.shows[Use(j).name] = <<Class[Use(j).class].table, Derived(j)[2]>>
        /\ \A i \in DOMAIN decl.joins :
              \A c \in {decl.joins[i].left[1], decl.joins[i].right[1]} :
                  Class[c].metadata => Class[c].table \in shown.where

\* TRUE for an answer means that the view is there unless the meta store could
\* not be read, and an update none of whose statements fails takes no view away
\* that is of joined classes only, in joins that the database has, if its
\* columns are all of properties and it asks for anything: a column of metadata
\* names the view itself once the view was queried in the same process.
StorageTells ==
    /\ told.call \in {"create", "update"} /\ told.answer /\ "meta" \notin told.fails
           => shown # <<>>
    /\ told.call = "update" /\ told.fails = {} /\ ~told.answer =>
           \/ \E j \in Columns : OfMetadata(j) \/ Class[Use(j).class].table \notin command.from
           \/ ~OverTables(command)
           \/ command.where = {} /\ command.constraints = {}

\* What the file of a view says is what its columns show, and what its calls
\* answer is so (midgard_core_views.c and midgard_view.c).
ViewsShow == ColumnsShow /\ StorageTells
=============================================================================
