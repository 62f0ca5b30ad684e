-------------------------- MODULE WorkspaceContent --------------------------
(***************************************************************************)
(* Objects in workspaces: the copies of an object that the workspaces of a *)
(* tree hold, what a query in a workspace finds among them, and create,    *)
(* update, delete and purge of a class that uses workspaces, with the      *)
(* manager's purge_content and move_content.                               *)
(*                                                                         *)
(* A step is one SQL statement.  Callers are processes of one thread, each *)
(* with a connection whose workspaces are enabled, so the mutexes of       *)
(* ObjectStore tell nothing here.  The tree does not change: Up is what    *)
(* WorkspaceTree proves of it, a parent has a smaller id.                  *)
(*                                                                         *)
(* Not here: names (the class has no parent), dependents, quota, undelete  *)
(* and set_guid, which ObjectStore has, and calls that end before their    *)
(* first statement (no guid, created already, an empty workspace).         *)
(***************************************************************************)
EXTENDS Naturals, Sequences, FiniteSets

CONSTANTS
    Caller,      \* processes that use the database
    Guid,        \* guids midgard_guid_new can return
    NoGuid,      \* the guid of an instance that has none (NULL)
    Data,        \* what the properties of an object can hold
    Workspace,   \* ids of the table midgard_workspace, with 0 for none
    Up,          \* the column "up" of each workspace
    MayFail,     \* whether an SQL statement may fail, and a process die
    MaxCalls     \* bound: calls made by all callers together

ASSUME TreeAssumption ==
    /\ Workspace \subseteq Nat /\ 0 \in Workspace
    /\ Up \in [Workspace \ {0} -> Workspace]
    /\ \A w \in Workspace \ {0} : Up[w] < w
ASSUME NullAssumption == NoGuid \notin Guid
ASSUME BoundAssumption == MayFail \in BOOLEAN /\ MaxCalls \in Nat

(***************************************************************************)
(* Types                                                                   *)
(***************************************************************************)
Action == {"create", "update", "delete", "purge"}

Step == {"idle", "update_row", "insert", "read_id", "delete_row", "purge_row",
         "record_create", "record_update", "record_delete", "record_purge"}

\* A record of the class's table; its guid and its workspace index "copies".
Copy == [data : Data, deleted : BOOLEAN]

\* A MidgardObject in the memory of a caller.
Instance == [guid : Guid \cup {NoGuid}, data : Data, deleted : BOOLEAN, stored : BOOLEAN]

\* The workspace of a connection: none, a MidgardWorkspace, or a context.
NoScope == [kind |-> "none", id |-> 0]
Scopes == {NoScope} \cup [kind : {"workspace", "context"}, id : Workspace \ {0}]

VARIABLES
    copies,      \* the class's table: records of each guid in each workspace
    repl,        \* repligard: the actions logged for each guid and workspace
    scope,       \* the workspace each connection has set
    obj,         \* the instance each caller works on
    pc,          \* the statement a caller runs next
    calls,       \* bound: calls made so far
    sure,        \* history: what a caller may still say of its last call
    loose        \* history: (guid, workspace) pairs no property speaks of

vars == <<copies, repl, scope, obj, pc, calls, sure, loose>>

db == <<copies, repl>>

\* "alone": in a call, and nobody else has written its pair since it began.
\* "updated", "deleted": the call returned TRUE, and nobody has since.
Claim == {"no", "alone", "updated", "deleted"}

TypeOK ==
    /\ copies \in [Guid -> [Workspace -> Seq(Copy)]]
    /\ repl \in [Guid -> [Workspace -> Seq(Action)]]
    /\ scope \in [Caller -> Scopes]
    /\ obj \in [Caller -> Instance]
    /\ pc \in [Caller -> Step]
    /\ calls \in 0 .. MaxCalls
    /\ sure \in [Caller -> Claim]
    /\ loose \in SUBSET (Guid \X Workspace)
    /\ \A c \in Caller : pc[c] # "idle" => obj[c].guid # NoGuid

(***************************************************************************)
(* What a query finds                                                      *)
(***************************************************************************)
\* midgard_core_workspace_get_context_ids: w and the ids met on the way up.
ContextIds(w) ==
    {v \in Workspace \ {0} :
        \A S \in SUBSET Workspace :
            w \in S /\ (\A u \in S \ {0} : Up[u] \in S) => v \in S}

\* The list after "IN": 0, then list_ids of the workspace storage.
Ids(s) == {0} \cup IF s.kind = "context" THEN ContextIds(s.id) ELSE {s.id}

LiveCopies(g, w) == {i \in DOMAIN copies[g][w] : ~copies[g][w][i].deleted}

\* What the live records of g in w hold.
Layer(g, w) == {copies[g][w][i].data : i \in LiveCopies(g, w)}

\* Mutant of Largest: the order of a query that wants the outermost copy.
Largest_Least(g, R) ==
    {w \in R : LiveCopies(g, w) # {} /\ \A v \in R : LiveCopies(g, v) # {} => w <= v}

\* SELECT MAX(midgard_ws_id) ... GROUP BY guid: the one such id, if any.
Largest(g, R) ==
    {w \in R : LiveCopies(g, w) # {} /\ \A v \in R : LiveCopies(g, v) # {} => v <= w}

\* The workspaces whose copies a query under s returns.  With no workspace
\* set there is no join, and it returns all copies.
FoundIn(s, g) == IF s.kind = "none" THEN Workspace ELSE Largest(g, Ids(s))

Found(s, g) == UNION {Layer(g, w) : w \in FoundIn(s, g)}

(***************************************************************************)
(* Helpers                                                                 *)
(***************************************************************************)
Fresh(d) == [guid |-> NoGuid, data |-> d, deleted |-> FALSE, stored |-> FALSE]

\* What INSERT and UPDATE write: every column, from the instance.
CopyOf(o) == [data |-> o.data, deleted |-> o.deleted]

\* The records a statement of c is about: WHERE guid AND midgard_ws_id.
CopiesAt(c) == copies[obj[c].guid][scope[c].id]
LogAt(c) == repl[obj[c].guid][scope[c].id]

SetCopies(c, s) == copies' = [copies EXCEPT ![obj[c].guid][scope[c].id] = s]
SetLog(c, s) == repl' = [repl EXCEPT ![obj[c].guid][scope[c].id] = s]

\* No table and no instance knows g: midgard_guid_new returns it.
Unused(g) == /\ \A w \in Workspace : copies[g][w] = <<>> /\ repl[g][w] = <<>>
             /\ \A c \in Caller : obj[c].guid # g

Goto(c, s) == pc' = [pc EXCEPT ![c] = s]

\* History: the pair a call of c writes, and the others that work on it.
PairOf(c) == <<obj[c].guid, scope[c].id>>
Beside(c) == {d \in Caller \ {c} : PairOf(d) = PairOf(c)}

Wrote(c) ==
    /\ sure' = [d \in Caller |-> IF d \in Beside(c) THEN "no" ELSE sure[d]]
    /\ loose' = IF \E d \in Beside(c) : pc[d] # "idle" THEN loose \cup {PairOf(c)} ELSE loose

GiveUp(c) == Goto(c, "idle") /\ sure' = [sure EXCEPT ![c] = "no"]

\* A call ends between the class's table and repligard.
StopHalfWay(c) == GiveUp(c) /\ loose' = loose \cup {PairOf(c)}

Succeed(c, claim) ==
    /\ Goto(c, "idle")
    /\ sure' = [sure EXCEPT ![c] = IF @ = "alone" THEN claim ELSE "no"]

(***************************************************************************)
(* Initial state: an empty table.                                          *)
(***************************************************************************)
Init ==
    /\ copies = [g \in Guid |-> [w \in Workspace |-> <<>>]]
    /\ repl = [g \in Guid |-> [w \in Workspace |-> <<>>]]
    /\ scope = [c \in Caller |-> NoScope]
    /\ obj \in [Caller -> {Fresh(d) : d \in Data}]
    /\ pc = [c \in Caller |-> "idle"]
    /\ calls = 0
    /\ sure = [c \in Caller |-> "no"]
    /\ loose = {}

(***************************************************************************)
(* Between two calls                                                       *)
(***************************************************************************)
Idle(c) ==
    /\ pc[c] = "idle" /\ calls < MaxCalls
    /\ sure' = [sure EXCEPT ![c] = "no"]
    /\ UNCHANGED <<db, pc, calls, loose>>

\* midgard_connection_set_workspace.  There is no way back to none.
SetWorkspace(c, s) ==
    /\ Idle(c) /\ s # NoScope
    /\ scope' = [scope EXCEPT ![c] = s]
    /\ UNCHANGED obj

New(c, d) ==
    /\ Idle(c)
    /\ obj' = [obj EXCEPT ![c] = Fresh(d)]
    /\ UNCHANGED scope

SetData(c, d) ==
    /\ Idle(c)
    /\ obj' = [obj EXCEPT ![c].data = d]
    /\ UNCHANGED scope

\* midgard_object_new with a guid, or a query: one of the copies found.
Fetch(c, g) ==
    /\ Idle(c)
    /\ \E d \in Found(scope[c], g) :
           obj' = [obj EXCEPT ![c] = [guid |-> g, data |-> d, deleted |-> FALSE, stored |-> TRUE]]
    /\ UNCHANGED scope

(***************************************************************************)
(* Calls                                                                   *)
(***************************************************************************)
Start(c, step, claim) ==
    /\ pc[c] = "idle" /\ calls < MaxCalls
    /\ calls' = calls + 1
    /\ sure' = [sure EXCEPT ![c] = claim]
    /\ Goto(c, step)
    /\ UNCHANGED <<db, scope>>

CreateCall(c) ==
    /\ obj[c].guid = NoGuid
    /\ \E g \in Guid : Unused(g) /\ obj' = [obj EXCEPT ![c].guid = g]
    /\ Start(c, "insert", "alone")
    /\ UNCHANGED loose

\* An instance with a guid that is not known to be stored: an earlier create
\* of it failed, and may have run its INSERT.
CreateAgain(c) ==
    /\ obj[c].guid # NoGuid /\ ~obj[c].stored
    /\ Start(c, "insert", "no")
    /\ loose' = loose \cup {PairOf(c)}
    /\ UNCHANGED obj

\* Update, delete and purge return FALSE if the guid is NULL.
Call(c) ==
    /\ obj[c].guid # NoGuid
    /\ \/ Start(c, "update_row", "alone")
       \/ Start(c, "delete_row", "alone")
       \/ Start(c, "purge_row", "alone")
    /\ UNCHANGED <<obj, loose>>

(***************************************************************************)
(* Update: UPDATE ... WHERE guid AND midgard_ws_id.  If it finds no record *)
(* the object gets a copy in the workspace, by an INSERT.                  *)
(***************************************************************************)
UpdateRow(c) ==
    /\ pc[c] = "update_row" /\ CopiesAt(c) # <<>>
    /\ SetCopies(c, [i \in DOMAIN CopiesAt(c) |-> CopyOf(obj[c])])
    /\ Wrote(c)
    /\ Goto(c, "record_update")
    /\ UNCHANGED <<repl, scope, obj, calls>>

\* Mutant of UpdateNothing: a record marked as deleted is not seen.
UpdateNothing_Deleted(c) ==
    /\ pc[c] = "update_row" /\ LiveCopies(obj[c].guid, scope[c].id) = {}
    /\ Goto(c, "insert")
    /\ UNCHANGED <<db, scope, obj, calls, sure, loose>>

UpdateNothing(c) ==
    /\ pc[c] = "update_row" /\ CopiesAt(c) = <<>>
    /\ Goto(c, "insert")
    /\ UNCHANGED <<db, scope, obj, calls, sure, loose>>

\* The statement of an update, a delete or an unfinished create fails.
StatementFails(c) ==
    /\ MayFail /\ pc[c] \in {"update_row", "delete_row"}
    /\ GiveUp(c)
    /\ UNCHANGED <<db, scope, obj, calls, loose>>

Insert(c) ==
    /\ pc[c] = "insert"
    /\ SetCopies(c, Append(CopiesAt(c), CopyOf(obj[c])))
    /\ Wrote(c)
    /\ Goto(c, "read_id")
    /\ UNCHANGED <<repl, scope, obj, calls>>

\* The result is compared with a value it never has.
InsertFails(c) ==
    /\ MayFail /\ pc[c] = "insert"
    /\ Goto(c, "read_id")
    /\ UNCHANGED <<db, scope, obj, calls, sure, loose>>

\* SELECT id ... WHERE guid AND midgard_ws_id.
ReadId(c) ==
    /\ pc[c] = "read_id"
    /\ IF CopiesAt(c) # <<>>
       THEN Goto(c, "record_create") /\ UNCHANGED sure
       ELSE GiveUp(c)
    /\ UNCHANGED <<db, scope, obj, calls, loose>>

RecordCreate(c) ==
    /\ pc[c] = "record_create"
    /\ SetLog(c, Append(LogAt(c), "create"))
    /\ obj' = [obj EXCEPT ![c].stored = TRUE]
    /\ Succeed(c, "updated")
    /\ UNCHANGED <<copies, scope, calls, loose>>

(***************************************************************************)
(* Delete and purge                                                        *)
(***************************************************************************)
\* Mutant of DeleteRow: the statement of a class without workspaces.
DeleteRow_Everywhere(c) ==
    /\ pc[c] = "delete_row"
    /\ copies' = [copies EXCEPT ![obj[c].guid] =
                      [w \in Workspace |-> [i \in DOMAIN @[w] |-> [@[w][i] EXCEPT !.deleted = TRUE]]]]
    /\ Wrote(c)
    /\ Goto(c, "record_delete")
    /\ UNCHANGED <<repl, scope, obj, calls>>

\* No record in the workspace is as good as one.
DeleteRow(c) ==
    /\ pc[c] = "delete_row"
    /\ SetCopies(c, [i \in DOMAIN CopiesAt(c) |-> [CopiesAt(c)[i] EXCEPT !.deleted = TRUE]])
    /\ Wrote(c)
    /\ Goto(c, "record_delete")
    /\ UNCHANGED <<repl, scope, obj, calls>>

PurgeRow(c) ==
    /\ pc[c] = "purge_row" /\ CopiesAt(c) # <<>>
    /\ SetCopies(c, <<>>)
    /\ Wrote(c)
    /\ Goto(c, "record_purge")
    /\ UNCHANGED <<repl, scope, obj, calls>>

PurgeNothing(c) ==
    /\ pc[c] = "purge_row" /\ CopiesAt(c) = <<>>
    /\ GiveUp(c)
    /\ UNCHANGED <<db, scope, obj, calls, loose>>

\* A failed DELETE reports -1 rows, which is not the 0 that ends the call.
PurgeFails(c) ==
    /\ MayFail /\ pc[c] = "purge_row"
    /\ loose' = loose \cup {PairOf(c)}
    /\ sure' = [sure EXCEPT ![c] = "no"]
    /\ Goto(c, "record_purge")
    /\ UNCHANGED <<db, scope, obj, calls>>

(***************************************************************************)
(* midgard_repligard_update_object_info                                    *)
(***************************************************************************)
Logs == [record_update |-> "update", record_delete |-> "delete", record_purge |-> "purge"]

Answer(step) ==
    CASE step = "record_update" -> "updated"
      [] step = "record_delete" -> "deleted"
      [] OTHER -> "no"

\* Mutant of Record: the statement is not told the workspace.
Record_Everywhere(c) ==
    /\ pc[c] \in DOMAIN Logs
    /\ repl' = [repl EXCEPT ![obj[c].guid] =
                    [w \in Workspace |-> [i \in DOMAIN @[w] |-> Logs[pc[c]]]]]
    /\ obj' = [obj EXCEPT ![c].deleted = @ \/ pc[c] = "record_delete"]
    /\ Succeed(c, Answer(pc[c]))
    /\ UNCHANGED <<copies, scope, calls, loose>>

Record(c) ==
    /\ pc[c] \in DOMAIN Logs
    /\ SetLog(c, [i \in DOMAIN LogAt(c) |-> Logs[pc[c]]])
    /\ obj' = [obj EXCEPT ![c].deleted = @ \/ pc[c] = "record_delete"]
    /\ Succeed(c, Answer(pc[c]))
    /\ UNCHANGED <<copies, scope, calls, loose>>

RecordFails(c) ==
    /\ MayFail /\ pc[c] \in DOMAIN Logs \cup {"record_create"}
    /\ StopHalfWay(c)
    /\ UNCHANGED <<db, scope, obj, calls>>

(***************************************************************************)
(* The process dies: what its statements have done stays.                  *)
(***************************************************************************)
Crash(c) ==
    /\ MayFail /\ pc[c] # "idle"
    /\ StopHalfWay(c)
    /\ \E d \in Data : obj' = [obj EXCEPT ![c] = Fresh(d)]
    /\ scope' = [scope EXCEPT ![c] = NoScope]
    /\ UNCHANGED <<db, calls>>

(***************************************************************************)
(* The manager writes the class's table only.                              *)
(***************************************************************************)
Managed(c, ws) ==
    /\ pc[c] = "idle" /\ calls < MaxCalls
    /\ calls' = calls + 1
    /\ sure' = [d \in Caller |-> IF scope[d].id \in ws THEN "no" ELSE sure[d]]
    /\ UNCHANGED <<repl, scope, obj, pc>>

Stocked(w) == {g \in Guid : copies[g][w] # <<>>}

PurgeContent(c, w) ==
    /\ Stocked(w) # {}
    /\ copies' = [g \in Guid |-> [copies[g] EXCEPT ![w] = <<>>]]
    /\ loose' = loose \cup (Stocked(w) \X {w})
    /\ Managed(c, {w})

MoveContent(c, src, dest) ==
    /\ Stocked(src) # {}
    /\ copies' = [g \in Guid |-> [copies[g] EXCEPT ![dest] = @ \o copies[g][src], ![src] = <<>>]]
    /\ loose' = loose \cup (Stocked(src) \X {src, dest})
    /\ Managed(c, {src, dest})

(***************************************************************************)
(* Specification                                                           *)
(***************************************************************************)
Between(c) ==
    \/ \E s \in Scopes : SetWorkspace(c, s)
    \/ \E d \in Data : New(c, d) \/ SetData(c, d)
    \/ \E g \in Guid : Fetch(c, g)

Calls(c) ==
    \/ CreateCall(c) \/ CreateAgain(c) \/ Call(c)
    \/ \E w \in Workspace \ {0} : PurgeContent(c, w)
    \/ \E src, dest \in Workspace \ {0} : src # dest /\ MoveContent(c, src, dest)

Writing(c) ==
    \/ UpdateRow(c) \/ UpdateNothing(c) \/ StatementFails(c)
    \/ Insert(c) \/ InsertFails(c) \/ ReadId(c) \/ RecordCreate(c)
    \/ DeleteRow(c) \/ PurgeRow(c) \/ PurgeNothing(c) \/ PurgeFails(c)
    \/ Record(c) \/ RecordFails(c)

Next == \E c \in Caller : Between(c) \/ Calls(c) \/ Writing(c) \/ Crash(c)

Spec == Init /\ [][Next]_vars

(***************************************************************************)
(* Properties                                                              *)
(***************************************************************************)
\* The promise: the live records of a workspace are its own content, and an
\* instance is a guid and data.
Layers == [g \in Guid |-> [w \in Workspace |-> Layer(g, w)]]
Mine == [c \in Caller |-> [guid |-> obj[c].guid, data |-> obj[c].data]]

Overlay == INSTANCE WorkspaceOverlay WITH own <- Layers, mine <- Mine

\* Every statement keeps the promise of workspaces: a query finds the nearest
\* copy up the tree (the code takes the largest id), and a call changes only
\* the copies of its own workspace, which is all that others can see of it.
ImplementsOverlay == Overlay!Spec

\* A workspace has one record of an object, unless two callers wrote there at
\* the same time, a call broke off, or the manager moved content: UPDATE then
\* INSERT makes no second one, of a deleted object neither.
OneCopy ==
    \A g \in Guid, w \in Workspace : <<g, w>> \notin loose => Len(copies[g][w]) <= 1

\* Repligard has a record of its own for each workspace: what is live in one
\* is logged there as created or updated, whatever is done to it in others.
LoggedWhereLive ==
    \A g \in Guid, w \in Workspace :
        /\ <<g, w>> \notin loose
        /\ \A c \in Caller : pc[c] # "idle" => PairOf(c) # <<g, w>>
        /\ LiveCopies(g, w) # {}
        => /\ repl[g][w] # <<>>
           /\ repl[g][w][Len(repl[g][w])] \in {"create", "update"}

\* A caller whose create or update returned TRUE finds what it wrote, and in a
\* workspace nothing else, whatever copies there are in others, as long as
\* nobody else has written its object there.
UpdateShows ==
    \A c \in Caller : sure[c] = "updated" /\ ~obj[c].deleted =>
        /\ obj[c].data \in Found(scope[c], obj[c].guid)
        /\ scope[c] # NoScope => Found(scope[c], obj[c].guid) = {obj[c].data}

\* "TRUE if object is successfully marked as deleted": after delete returned
\* TRUE there is a record marked as deleted.
DeleteMarks ==
    \A c \in Caller : sure[c] = "deleted" =>
        \E w \in Workspace : LiveCopies(obj[c].guid, w) # DOMAIN copies[obj[c].guid][w]

=============================================================================
