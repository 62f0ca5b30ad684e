--------------------------- MODULE WorkspaceTree ---------------------------
(***************************************************************************)
(* Workspaces and contexts: the tree kept in table midgard_workspace, and  *)
(* midgard_workspace_manager_create_workspace, _get_workspace_by_path and  *)
(* _update_workspace as several connections call them.                     *)
(*                                                                         *)
(* A connection reads the whole table into a data model when it opens and  *)
(* after it has written to it.  Every lookup and every check is made in    *)
(* that copy, so it sees what other connections write only later.  One     *)
(* step here is one SQL statement with the lookups made since the one      *)
(* before it.  No workspace is ever removed: the purge of a workspace      *)
(* always returns FALSE, a context can be neither updated nor purged.      *)
(***************************************************************************)
EXTENDS Integers, Sequences

CONSTANTS
    Connection,  \* connections to the database, one caller on each
    Name,        \* names of workspaces
    Empty,       \* the empty name
    Path,        \* paths callers ask for, as sequences of names
    NoPath,      \* the context of a workspace instance that has none
    MayFail,     \* whether an SQL statement may fail
    MaxCalls     \* bound: creates and updates, on all the connections together

ASSUME PathAssumption == Path \subseteq Seq(Name) /\ Empty \in Name /\ NoPath \notin Seq(Name)
ASSUME BoundAssumption == MayFail \in BOOLEAN /\ MaxCalls \in Nat

Root == 0      \* the parent of a workspace at the top; no row has this id
Missing == -1  \* what a lookup returns when it finds nothing

\* A record of midgard_workspace.  Its id is its place in the table.
Row == [up : Nat, name : Name]

\* A MidgardWorkspace in memory.  "row" is the record its guid names, "context"
\* the path of the MidgardWorkspaceContext it keeps a reference to.
Workspace == [id : Nat, row : Nat, up : Nat, name : Name, context : Seq(Name) \cup {NoPath}]

\* One workspace a create has to make: its name, and the path to make it at.
Element == [name : Name, at : Seq(Name)]

\* A call to create_workspace, and what it returned once the caller is idle.
Create == [kind : {"workspace", "context"}, path : Seq(Name), slash : BOOLEAN,
           left : Seq(Element), rv : BOOLEAN, id : Nat, up : Nat]

Step == {"idle", "insert", "read_id", "list", "list_context", "list_updated", "crashed"}

VARIABLES
    table,    \* midgard_workspace, in the order of ids
    model,    \* the copy of the table each connection keeps
    ws,       \* the workspace instance the caller of each connection works on
    job,      \* the last call of each connection to create_workspace
    pc,       \* the step a connection takes next
    calls,    \* bound: creates and updates so far
    renamed   \* history: whether an UPDATE has ever renamed a workspace

vars == <<table, model, ws, job, pc, calls, renamed>>

(***************************************************************************)
(* Lookups in a data model                                                 *)
(***************************************************************************)
Matches(m, up, name) == {i \in DOMAIN m : m[i].up = up /\ m[i].name = name}

\* midgard_core_workspace_get_col_id_by_name: the first row that matches.
IdOf_LastMatch(m, up, name) ==
    LET last == {i \in Matches(m, up, name) : \A j \in Matches(m, up, name) : j <= i}
    IN  IF last = {} THEN Missing ELSE CHOOSE i \in last : TRUE

IdOf(m, up, name) ==
    LET first == {i \in Matches(m, up, name) : \A j \in Matches(m, up, name) : i <= j}
    IN  IF first = {} THEN Missing ELSE CHOOSE i \in first : TRUE

\* No path is valid that is empty or has an empty element.
ValidPath(path) == path # <<>> /\ path \in Seq(Name \ {Empty})

\* midgard_core_workspace_get_id_by_path: the walk from the top, name by name.
Resolve(m, path) ==
    LET walk[k \in 0 .. Len(path)] ==
            IF k = 0 THEN Root ELSE IdOf(m, walk[k - 1], path[k])
        found == walk[Len(path)]
    IN  IF ValidPath(path) /\ found \in DOMAIN m THEN found ELSE Missing

\* midgard_core_workspace_get_parent_names: the names from the top down to id.
NamesTo_Upwards(m, id) ==
    LET names[i \in 0 .. Len(m)] ==
            IF i = Root THEN <<>> ELSE <<m[i].name>> \o names[m[i].up]
    IN  names[id]

NamesTo(m, id) ==
    LET names[i \in 0 .. Len(m)] ==
            IF i = Root THEN <<>> ELSE Append(names[m[i].up], m[i].name)
    IN  names[id]

\* The workspace that gives its name to a context or to one it stands in:
\* the first element of the path so named, as the path leads to it.
NamedIn(m, path, name) ==
    LET places == {k \in DOMAIN path : path[k] = name}
        first == CHOOSE k \in places : \A j \in places : k <= j
    IN  IF places = {} THEN Missing ELSE Resolve(m, SubSeq(path, 1, first))

\* midgard_workspace_get_context: kept from the first time it is found.
ContextOf(m, w) ==
    LET path == Append(NamesTo(m, w.up), w.name)
    IN  IF w.context # NoPath THEN w.context
        ELSE IF Resolve(m, path) # Missing THEN path ELSE NoPath

(***************************************************************************)
(* Initial state and common steps                                          *)
(***************************************************************************)
NewWorkspace(name) == [id |-> 0, row |-> 0, up |-> Root, name |-> name, context |-> NoPath]

NewCreate(kind, path, slash, left) ==
    [kind |-> kind, path |-> path, slash |-> slash, left |-> left,
     rv |-> TRUE, id |-> 0, up |-> Root]

Init ==
    /\ table = <<>>
    /\ model = [c \in Connection |-> <<>>]
    /\ ws = [c \in Connection |-> NewWorkspace(Empty)]
    /\ job = [c \in Connection |-> NewCreate("workspace", <<>>, TRUE, <<>>)]
    /\ pc = [c \in Connection |-> "idle"]
    /\ calls = 0
    /\ renamed = FALSE

Goto(c, step) == pc' = [pc EXCEPT ![c] = step]

Call(c) ==
    /\ pc[c] = "idle"
    /\ calls < MaxCalls
    /\ calls' = calls + 1

\* midgard_core_workspace_list_all: a query that fails leaves the old model.
ListAll(c) ==
    \/ model' = [model EXCEPT ![c] = table]
    \/ MayFail /\ UNCHANGED model

\* create_workspace returns FALSE, with nothing more to make.
Failed == [NewCreate("workspace", <<>>, TRUE, <<>>) EXCEPT !.rv = FALSE]

Fail(c) ==
    /\ job' = [job EXCEPT ![c] = Failed]
    /\ Goto(c, "idle")

\* midgard_connection_open, at the start and after the caller has crashed.
Open(c) ==
    /\ pc[c] \in {"idle", "crashed"}
    /\ model' = [model EXCEPT ![c] = table]
    /\ ws' = [ws EXCEPT ![c] = NewWorkspace(Empty)]
    /\ Goto(c, "idle")
    /\ UNCHANGED <<table, job, calls, renamed>>

(***************************************************************************)
(* midgard_workspace_manager_create_workspace                              *)
(***************************************************************************)
CreateWorkspace(c, name, at) ==
    /\ Call(c)
    /\ ws' = [ws EXCEPT ![c] = NewWorkspace(name)]
    /\ job' = [job EXCEPT ![c] =
                 NewCreate("workspace", Append(at, name), TRUE, <<[name |-> name, at |-> at]>>)]
    /\ Goto(c, "insert")
    /\ UNCHANGED <<table, model, renamed>>

\* The path of each element is put together from the elements before it; of a
\* path that does not begin with a slash the first element is left out.
Elements(path, slash) ==
    [k \in DOMAIN path |->
        [name |-> path[k], at |-> SubSeq(path, IF slash THEN 1 ELSE 2, k - 1)]]

CreateContext(c, path, slash) ==
    /\ Call(c)
    /\ LET create == NewCreate("context", path, slash, Elements(path, slash))
       IN  IF ValidPath(path) /\ Resolve(model[c], path) = Missing
           THEN /\ job' = [job EXCEPT ![c] = create]
                /\ Goto(c, "insert")
           ELSE Fail(c)
    /\ UNCHANGED <<table, model, ws, renamed>>

Exists(c) ==
    LET e == Head(job[c].left) IN Resolve(model[c], Append(e.at, e.name)) # Missing

\* The rest of a context is made when one of its elements exists already.
SkipElement(c) ==
    /\ pc[c] = "insert" /\ job[c].kind = "context" /\ Exists(c)
    /\ job' = [job EXCEPT ![c].rv = FALSE, ![c].id = 0, ![c].left = Tail(@)]
    /\ Goto(c, IF Len(job[c].left) = 1 THEN "idle" ELSE "insert")
    /\ UNCHANGED <<table, model, ws, calls, renamed>>

RefuseElement(c) ==
    /\ pc[c] = "insert"
    /\ LET e == Head(job[c].left)
       IN  \/ e.name = Empty
           \/ job[c].kind = "workspace" /\ Exists(c)
           \/ e.at # <<>> /\ ~ValidPath(e.at)
    /\ Fail(c)
    /\ UNCHANGED <<table, model, ws, calls, renamed>>

\* A path that leads nowhere is taken as the top.
UpOf(m, at) == IF Resolve(m, at) = Missing THEN Root ELSE Resolve(m, at)

\* _midgard_workspace_create up to its INSERT.
InsertElement(c) ==
    LET e == Head(job[c].left)
        up == UpOf(model[c], e.at)
        id == Len(table) + 1
        owner == job[c].kind = "workspace"
    IN  /\ pc[c] = "insert"
        /\ e.name # Empty /\ ~Exists(c) /\ (e.at = <<>> \/ ValidPath(e.at))
        /\ \/ /\ table' = Append(table, [up |-> up, name |-> e.name])
              /\ job' = [job EXCEPT ![c].up = up]
              /\ ws' = IF owner THEN [ws EXCEPT ![c].row = id, ![c].up = up] ELSE ws
              /\ Goto(c, "read_id")
           \/ /\ MayFail
              /\ Fail(c)
              /\ UNCHANGED <<table, ws>>
        /\ UNCHANGED <<model, calls, renamed>>

\* _midgard_workspace_create after its INSERT: the id is looked up by name.
ReadId(c) ==
    LET e == Head(job[c].left) IN
    /\ pc[c] = "read_id"
    /\ ListAll(c)
    /\ LET id == IdOf(model'[c], job[c].up, e.name)
       IN  IF id = Missing
           THEN Fail(c) /\ UNCHANGED ws
           ELSE /\ job' = [job EXCEPT ![c].id = id]
                /\ ws' = IF job[c].kind = "workspace" THEN [ws EXCEPT ![c].id = id] ELSE ws
                /\ Goto(c, "list")
    /\ UNCHANGED <<table, calls, renamed>>

\* The manager lists the workspaces again, for each element ...
List(c) ==
    /\ pc[c] = "list"
    /\ ListAll(c)
    /\ job' = [job EXCEPT ![c].left = Tail(@), ![c].up = Root]
    /\ Goto(c, IF Len(job[c].left) > 1 THEN "insert"
               ELSE IF job[c].kind = "context" /\ job[c].rv THEN "list_context"
               ELSE "idle")
    /\ UNCHANGED <<table, ws, calls, renamed>>

\* ... and for a context once more when all of it is made.
ListContext(c) ==
    /\ pc[c] = "list_context"
    /\ ListAll(c)
    /\ Goto(c, "idle")
    /\ UNCHANGED <<table, ws, job, calls, renamed>>

(***************************************************************************)
(* The other calls of a workspace's life                                   *)
(***************************************************************************)
\* Reads the wrong column of the model.
GetByPath_IdAsUp(c, path) ==
    LET id == Resolve(model[c], path) IN
    /\ pc[c] = "idle"
    /\ id # Missing
    /\ ws' = [ws EXCEPT ![c] = [id |-> id, row |-> id, up |-> id,
                                name |-> model[c][id].name, context |-> NoPath]]
    /\ UNCHANGED <<table, model, job, pc, calls, renamed>>

\* _midgard_workspace_get_by_path on a new instance; nothing changes when the
\* path leads nowhere.
GetByPath(c, path) ==
    LET id == Resolve(model[c], path) IN
    /\ pc[c] = "idle"
    /\ id # Missing
    /\ ws' = [ws EXCEPT ![c] = [id |-> id, row |-> id, up |-> model[c][id].up,
                                name |-> model[c][id].name, context |-> NoPath]]
    /\ UNCHANGED <<table, model, job, pc, calls, renamed>>

\* midgard_workspace_get_context; an instance that was never stored nor
\* fetched has no manager, and so no path.
GetContext(c) ==
    /\ pc[c] = "idle"
    /\ ws[c].id # 0
    /\ ws' = [ws EXCEPT ![c].context = ContextOf(model[c], ws[c])]
    /\ UNCHANGED <<table, model, job, pc, calls, renamed>>

\* The caller sets property "name" and calls _midgard_workspace_update.  Only
\* an instance without a context is written; the workspace of that name in its
\* context is read without a test for NULL.
Update(c, name) ==
    LET w == [ws[c] EXCEPT !.name = name]
        context == ContextOf(model[c], w)
        named == NamedIn(model[c], context, name)
    IN  /\ Call(c)
        /\ w.id # 0 /\ name # Empty
        /\ ws' = [ws EXCEPT ![c].name = name, ![c].context = context]
        /\ IF context # NoPath
           THEN /\ Goto(c, IF named = Missing THEN "crashed" ELSE "idle")
                /\ UNCHANGED <<table, renamed>>
           ELSE /\ Goto(c, "list_updated")
                /\ \/ /\ table' = [table EXCEPT ![w.row] = [up |-> w.up, name |-> w.name]]
                      /\ renamed' = (renamed \/ table'[w.row].name # table[w.row].name)
                   \/ MayFail /\ UNCHANGED <<table, renamed>>
        /\ UNCHANGED <<model, job>>

ListUpdated(c) ==
    /\ pc[c] = "list_updated"
    /\ ListAll(c)
    /\ Goto(c, "idle")
    /\ UNCHANGED <<table, ws, job, calls, renamed>>

Next ==
    \E c \in Connection :
        \/ Open(c)
        \/ \E name \in Name, at \in Path \cup {<<>>} : CreateWorkspace(c, name, at)
        \/ \E path \in Path, slash \in BOOLEAN : CreateContext(c, path, slash)
        \/ SkipElement(c) \/ RefuseElement(c) \/ InsertElement(c)
        \/ ReadId(c) \/ List(c) \/ ListContext(c)
        \/ \E path \in Path : GetByPath(c, path)
        \/ GetContext(c)
        \/ \E name \in Name : Update(c, name)
        \/ ListUpdated(c)

Spec == Init /\ [][Next]_vars

(***************************************************************************)
(* Properties                                                              *)
(***************************************************************************)
\* The state has the types of midgard_workspace.c and its data model.
TypeOK ==
    /\ table \in Seq(Row)
    /\ model \in [Connection -> Seq(Row)]
    /\ ws \in [Connection -> Workspace]
    /\ job \in [Connection -> Create]
    /\ pc \in [Connection -> Step]
    /\ calls \in 0 .. MaxCalls
    /\ renamed \in BOOLEAN

\* A workspace is stored after its parent, in the table and in every copy of
\* it, and a copy never tells another parent than the table: the walks up the
\* tree in midgard_core_workspace.c end, and the largest id of a context is
\* its deepest workspace, as the query of midgard_query_select.c takes it.
ParentsFirst ==
    /\ \A i \in DOMAIN table : table[i].up < i
    /\ \A c \in Connection :
           /\ Len(model[c]) <= Len(table)
           /\ \A i \in DOMAIN model[c] : model[c][i].up = table[i].up

\* The two walks of midgard_core_workspace.c agree, whatever duplicates or
\* renamed workspaces a copy holds: the workspace found at a path is one whose
\* own path is that path.
PathsAgree ==
    \A c \in Connection, path \in Path :
        Resolve(model[c], path) # Missing =>
            NamesTo(model[c], Resolve(model[c], path)) = path

\* A context made with TRUE from a path that begins with a slash is found at
\* that path by every connection that lists the workspaces from then on,
\* whoever created workspaces at the same time, as long as nobody renames one.
ContextStands ==
    ~renamed =>
        \A c \in Connection :
            LET create == job[c] IN
            pc[c] = "idle" /\ create.kind = "context" /\ create.slash /\ create.rv =>
                Resolve(table, create.path) = create.id

\* What is created with TRUE is at the path that was asked for.  ("If it's
\* MidgardWorkspace, it's created at given path with its name",
\* midgard_workspace_manager.c:60.)
CreatedAtPath ==
    ~renamed =>
        \A c \in Connection :
            LET create == job[c] IN
            pc[c] = "idle" /\ create.rv /\ create.id # 0 =>
                NamesTo(table, create.id) = create.path

\* An update answers its caller.  ("Returns: TRUE on success, FALSE
\* otherwise", midgard_workspace_manager.c:119.)
UpdateAnswers == \A c \in Connection : pc[c] # "crashed"
=============================================================================
