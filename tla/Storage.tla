------------------------------ MODULE Storage ------------------------------
(***************************************************************************)
(* Tables for classes: midgard_storage_create, _update and _exists, as the *)
(* installers of several processes call them for classes that share one    *)
(* table, and midgard_storage_create_base_storage.                         *)
(*                                                                         *)
(* The columns of a class are added one statement at a time, and only when *)
(* libgda's meta store, which each connection has of its own, knows no     *)
(* such column.  The store is refreshed when the table is looked up, never *)
(* by an ADD COLUMN; adding a column that is there is an error.  A table   *)
(* that exists is never made again, however few columns it has, and no     *)
(* table is ever dropped (delete is not implemented for objects).          *)
(***************************************************************************)
EXTENDS Naturals, Sequences, FiniteSets

CONSTANTS
    Installer,      \* connections, each of a process of its own
    Kind,           \* classes that share the table
    Field,          \* columns of properties
    FieldsOf,       \* the columns each class has
    MaxInstalls     \* bound: calls made

\* The metadata columns, in the order they are added, and the workspace's.
META == <<"metadata_creator", "metadata_score">>
WORKSPACE == "midgard_ws_id"

\* A property that has the name of one of these columns is left out.
ASSUME StorageAssumption ==
    /\ FieldsOf \in [Kind -> SUBSET Field] /\ MaxInstalls \in Nat
    /\ Field \cap {META[1], META[2], WORKSPACE} = {}

Column == Field \cup {META[i] : i \in DOMAIN META} \cup {WORKSPACE}

ColumnsOf(k) == FieldsOf[k] \cup (Column \ Field)

VARIABLES
    table,       \* whether the table exists
    columns,     \* its columns
    store,       \* each connection's meta store: {} or a set of columns in {}
    task,        \* the call an installer is in: {} or one record
    promised,    \* history: classes a call that found work to do said TRUE of
    admins,      \* rows of midgard_user that have the administrator's guid
    userTable,   \* whether midgard_user exists
    based,       \* history: base storages that were answered TRUE
    faults,      \* history: a statement failed, or an installer died in a call
    raced,       \* history: two base storages were under way at once
    installs

storageVars == <<table, columns, store, task, promised, admins, userTable,
                 based, faults, raced, installs>>

InstallTask ==
    [op : {"create", "found", "update"}, kind : Kind, fields : SUBSET Field,
     step : {"look", "make", "meta1", "meta2", "fields", "workspace"}]
BaseTask == [op : {"base"}, step : {"repligard", "user", "ask", "insert", "rest"}]
Task == InstallTask \cup BaseTask

StorageTypeOK ==
    /\ table \in BOOLEAN /\ columns \subseteq Column
    /\ ~table => columns = {}
    /\ store \in [Installer -> SUBSET SUBSET columns]
    /\ task \in [Installer -> SUBSET Task]
    /\ \A i \in Installer : /\ \A s, t \in store[i] : s = t
                            /\ \A d, e \in task[i] : d = e
    /\ promised \subseteq Kind /\ admins \in Nat /\ userTable \in BOOLEAN
    /\ based \in Nat /\ faults \in BOOLEAN /\ raced \in BOOLEAN
    /\ installs \in 0 .. MaxInstalls

-----------------------------------------------------------------------------
Resting(i) == task[i] = {}

Take(i, d) ==
    /\ Resting(i) /\ installs < MaxInstalls
    /\ installs' = installs + 1 /\ task' = [task EXCEPT ![i] = {d}]

GoOn(i, d, step) == task' = [task EXCEPT ![i] = {[d EXCEPT !.step = step]}]
Leave(i) == task' = [task EXCEPT ![i] = {}]

\* _update_gda_meta_store_table.  The columns of a table that is new to the
\* store are read; libgda may or may not read again those of one it knew.
Refresh(i) ==
    \/ table /\ store' = [store EXCEPT ![i] = {columns}]
    \/ table /\ store[i] # {} /\ UNCHANGED store
    \/ ~table /\ store' = [store EXCEPT ![i] = {}]

\* Mutant of InStore: no answer is taken for a column that exists.
InStore_Doubtful(i, c) == store[i] \in {{}, {{}}} \/ \E s \in store[i] : c \in s

\* __mcq_column_exists asks the meta store, not the database.
InStore(i, c) == \E s \in store[i] : c \in s

\* midgard_core_query_add_column: TRUE when the column was known or is added.
\* Adding does not tell the store.
Added(i, c) ==
    \/ InStore(i, c) /\ UNCHANGED <<columns, faults>>
    \/ ~InStore(i, c) /\ c \notin columns /\ columns' = columns \cup {c} /\ UNCHANGED faults

NotAdded(i, c) ==
    /\ ~InStore(i, c) /\ UNCHANGED columns
    /\ \/ c \in columns /\ UNCHANGED faults
       \/ faults' = TRUE

-----------------------------------------------------------------------------
(* midgard_storage_create and midgard_storage_update *)

StartInstall(i, k, op) ==
    /\ Take(i, [op |-> op, kind |-> k, fields |-> FieldsOf[k], step |-> "look"])
    /\ UNCHANGED <<table, columns, store, promised, admins, userTable, based, faults, raced>>

\* A create ends here when there is a table, but for the workspace column; an
\* update ends here when there is none.
LookForTable(i) == \E d \in task[i] :
    /\ d.step = "look" /\ Refresh(i)
    /\ IF d.op = "create"
       THEN IF table THEN GoOn(i, [d EXCEPT !.op = "found"], "workspace")
                     ELSE GoOn(i, d, "make")
       ELSE IF table THEN GoOn(i, d, "fields") ELSE Leave(i)
    /\ UNCHANGED <<table, columns, promised, admins, userTable, based, faults, raced, installs>>

\* midgard_core_query_create_table looks once more, and goes on with a table
\* another installer has made meanwhile; one made after that look may fail it.
MakeTable(i) == \E d \in task[i] :
    /\ d.step = "make" /\ table' = TRUE
    /\ \/ table /\ store' = [store EXCEPT ![i] = {columns}]
       \/ ~table /\ store' = [store EXCEPT ![i] = {{}}]
    /\ GoOn(i, d, "meta1")
    /\ UNCHANGED <<columns, promised, admins, userTable, based, faults, raced, installs>>

MakeTableFails(i) == \E d \in task[i] :
    /\ d.step = "make" /\ Leave(i)
    /\ \/ faults' = TRUE
       \/ table /\ UNCHANGED faults
    /\ UNCHANGED <<table, columns, store, promised, admins, userTable, based, raced, installs>>

\* A metadata column that can not be added ends the call with FALSE.
AddMeta(i) == \E d \in task[i], n \in DOMAIN META :
    /\ d.step = (IF n = 1 THEN "meta1" ELSE "meta2")
    /\ \/ /\ Added(i, META[n])
          /\ GoOn(i, d, IF n = 1 THEN "meta2" ELSE
                        IF d.op = "create" THEN "fields" ELSE "workspace")
       \/ NotAdded(i, META[n]) /\ Leave(i)
    /\ UNCHANGED <<table, store, promised, admins, userTable, based, raced, installs>>

\* Whether the column of a property was added is not looked at.
AddField(i) == \E d \in task[i], f \in Field :
    /\ d.step = "fields" /\ f \in d.fields
    /\ Added(i, f) \/ NotAdded(i, f)
    /\ task' = [task EXCEPT ![i] = {[d EXCEPT !.fields = @ \ {f}]}]
    /\ UNCHANGED <<table, store, promised, admins, userTable, based, raced, installs>>

\* A create refreshes its store; an update goes on to the metadata columns.
FieldsDone(i) == \E d \in task[i] :
    /\ d.step = "fields" /\ d.fields = {}
    /\ IF d.op = "create" THEN Refresh(i) /\ GoOn(i, d, "workspace")
                          ELSE GoOn(i, d, "meta1") /\ UNCHANGED store
    /\ UNCHANGED <<table, columns, promised, admins, userTable, based, faults, raced, installs>>

\* __add_workspace_columns, whose answer is the call's.
AddWorkspaceColumn(i) == \E d \in task[i] :
    /\ d.step = "workspace" /\ Leave(i)
    /\ \/ /\ Added(i, WORKSPACE)
          /\ promised' = (IF d.op = "found" THEN promised ELSE promised \cup {d.kind})
       \/ NotAdded(i, WORKSPACE) /\ UNCHANGED promised
    /\ UNCHANGED <<table, store, admins, userTable, based, raced, installs>>

StorageExists(i) ==
    /\ Resting(i) /\ Refresh(i) /\ store' # store
    /\ UNCHANGED <<table, columns, task, promised, admins, userTable, based, faults, raced, installs>>

-----------------------------------------------------------------------------
(* midgard_storage_create_base_storage.  The tables it makes are its own;  *)
(* each is one step here, and the person it imports is left out.           *)

StartBase(i) ==
    /\ Take(i, [op |-> "base", step |-> "repligard"])
    /\ raced' = (raced \/ \E j \in Installer : \E d \in task[j] : d.op = "base")
    /\ UNCHANGED <<table, columns, store, promised, admins, userTable, based, faults>>

\* Only repligard has to be made.
BaseRepligard(i) == \E d \in task[i] :
    /\ d.step = "repligard"
    /\ \/ GoOn(i, d, "user") /\ UNCHANGED faults
       \/ Leave(i) /\ faults' = TRUE
    /\ UNCHANGED <<table, columns, store, promised, admins, userTable, based, raced, installs>>

BaseUser(i) == \E d \in task[i] :
    /\ d.step = "user" /\ GoOn(i, d, "ask")
    /\ \/ userTable' = TRUE /\ UNCHANGED faults
       \/ UNCHANGED userTable /\ faults' = TRUE
    /\ UNCHANGED <<table, columns, store, promised, admins, based, raced, installs>>

\* A SELECT that fails is taken for one that found nobody.
AskForAdmin(i) == \E d \in task[i] :
    /\ d.step = "ask"
    /\ \/ GoOn(i, d, IF admins = 0 THEN "insert" ELSE "rest") /\ UNCHANGED faults
       \/ GoOn(i, d, "insert") /\ faults' = TRUE
    /\ UNCHANGED <<table, columns, store, promised, admins, userTable, based, raced, installs>>

InsertAdmin(i) == \E d \in task[i] :
    /\ d.step = "insert" /\ GoOn(i, d, "rest")
    /\ \/ userTable /\ admins' = admins + 1 /\ UNCHANGED faults
       \/ UNCHANGED admins /\ faults' = TRUE
    /\ UNCHANGED <<table, columns, store, promised, userTable, based, raced, installs>>

\* The other tables; what their making answers is not looked at.
BaseRest(i) == \E d \in task[i] :
    /\ d.step = "rest" /\ Leave(i) /\ based' = based + 1
    /\ UNCHANGED <<table, columns, store, promised, admins, userTable, faults, raced, installs>>

InstallerDies(i) ==
    /\ ~Resting(i) /\ Leave(i) /\ faults' = TRUE
    /\ store' = [store EXCEPT ![i] = {}]
    /\ UNCHANGED <<table, columns, promised, admins, userTable, based, raced, installs>>

StorageInit ==
    /\ table = FALSE /\ columns = {} /\ store = [i \in Installer |-> {}]
    /\ task = [i \in Installer |-> {}] /\ promised = {}
    /\ admins = 0 /\ userTable = FALSE /\ based = 0
    /\ faults = FALSE /\ raced = FALSE /\ installs = 0

StorageNext == \E i \in Installer :
    \/ \E k \in Kind, op \in {"create", "update"} : StartInstall(i, k, op)
    \/ LookForTable(i) \/ MakeTable(i) \/ MakeTableFails(i)
    \/ AddMeta(i) \/ AddField(i) \/ FieldsDone(i) \/ AddWorkspaceColumn(i)
    \/ StorageExists(i)
    \/ StartBase(i) \/ BaseRepligard(i) \/ BaseUser(i) \/ AskForAdmin(i)
    \/ InsertAdmin(i) \/ BaseRest(i)
    \/ InstallerDies(i)

StorageSpec == StorageInit /\ [][StorageNext]_storageVars

-----------------------------------------------------------------------------
\* When all is quiet the table, if there is one, is whole for some class, and
\* for every class a call that did not just find the table said TRUE of:
\* installers that trip over each other's columns are never all refused half
\* way.  Unless a statement failed or an installer died in a call, after which
\* every later create says TRUE of half a table (midgard_core_query.c, 1938).
TableWhole ==
    (table /\ ~faults /\ \A i \in Installer : Resting(i)) =>
        /\ \E k \in Kind : ColumnsOf(k) \subseteq columns
        /\ \A k \in promised : ColumnsOf(k) \subseteq columns

\* A database that was given its base storage has one administrator.  There are
\* two only after two base storages at once, for nothing but the SELECT before
\* the INSERT keeps the second one out (midgard_storage.c, 75-96).
AdminOnce ==
    (based > 0 /\ ~faults /\ \A i \in Installer : Resting(i)) =>
        admins = 1 \/ (raced /\ admins > 1)

\* Installers, however many at once, leave whole tables and one administrator.
TablesSettle == TableWhole /\ AdminOnce
=============================================================================
