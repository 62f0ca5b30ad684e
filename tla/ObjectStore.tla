---------------------------- MODULE ObjectStore ----------------------------
(***************************************************************************)
(* The life of a Midgard object in the database: midgard_object_create,    *)
(* _update, _save, _delete, _purge, _set_guid and the queries that fetch   *)
(* an object, as the threads of several processes run them against one     *)
(* database.                                                               *)
(*                                                                         *)
(* A call works on two tables: the class's own table and "repligard", the  *)
(* replication log, which keeps the last action done to a guid.  The two   *)
(* statements are not in a transaction, and each of create, update and     *)
(* delete takes a mutex of its own (a static of the process); purge takes  *)
(* none.  One step here is one SQL statement, or the taking of a mutex.    *)
(*                                                                         *)
(* Not here: workspaces (the connection uses none), quota, class           *)
(* validation, the parent chain, dependents (check_dependents is FALSE),   *)
(* the metadata columns other than "deleted", and user signal handlers.    *)
(***************************************************************************)
EXTENDS Naturals, Sequences, FiniteSets

CONSTANTS
    Thread,      \* threads that call the library
    Process,     \* processes; mutexes and prepared statements are per process
    ProcessOf,   \* the process of each thread
    NoThread,    \* holder of a free mutex
    Guid,        \* guids midgard_guid_new can return
    NoGuid,      \* the guid of an instance that has none (NULL)
    Place,       \* (parent, name) pairs an object can be stored under
    NoName,      \* any pair whose name is empty: never a duplicate
    MayFail,     \* whether an SQL statement may fail
    MaxCalls     \* bound: public calls made, by all the threads together

ASSUME ProcessAssumption == ProcessOf \in [Thread -> Process]
ASSUME NullAssumption == NoThread \notin Thread /\ NoGuid \notin Guid /\ NoName \in Place
ASSUME BoundAssumption == MayFail \in BOOLEAN /\ MaxCalls \in Nat

(***************************************************************************)
(* Types                                                                   *)
(***************************************************************************)
\* MgdObjectAction values the calls of this module store in repligard.
Action == {"create", "update", "delete", "purge"}

Mutex == {"create", "update", "delete"}

Call == {"none", "create", "update", "save", "delete", "purge"}

Step == {"idle",
         "create_lock", "create_check", "create_row", "create_record",
         "update_lock", "update_check", "update_row",
         "delete_lock", "delete_row", "purge_row",
         "record_guid", "record_action", "record_write"}

\* One record of the class's table.  Its guid is the index of "rows".
Row == [place : Place, deleted : BOOLEAN]

\* A MidgardObject in the memory of a thread.
Instance == [guid : Guid \cup {NoGuid}, place : Place,
             deleted : BOOLEAN, stored : BOOLEAN]

VARIABLES
    rows,      \* the class's table: the records of each guid, oldest first
    repl,      \* repligard: the actions recorded for each guid, oldest first
    obj,       \* the instance each thread works on
    pc,        \* the step a thread takes next
    call,      \* the public function a thread is in
    holder,    \* the thread that holds each mutex of each process
    params,    \* the parameters of a process's UPDATE repligard statement
    calls,     \* bound: calls made so far
    unvouched, \* history: guids whose name no check of create vouches for
    torn,      \* history: guids a call has left between its two tables
    tangled    \* history: guids two calls wrote at the same time

vars == <<rows, repl, obj, pc, call, holder, params, calls,
          unvouched, torn, tangled>>

db == <<rows, repl>>
history == <<unvouched, torn, tangled>>

RECORD_STEPS == {"record_guid", "record_action", "record_write"}

\* t is between the statement on its class's table and the one on repligard.
Pending(t) == pc[t] \in RECORD_STEPS \cup {"create_record"}

TypeOK ==
    /\ rows \in [Guid -> Seq(Row)]
    /\ repl \in [Guid -> Seq(Action)]
    /\ obj \in [Thread -> Instance]
    /\ pc \in [Thread -> Step]
    /\ call \in [Thread -> Call]
    /\ holder \in [Mutex -> [Process -> Thread \cup {NoThread}]]
    /\ params \in [Process -> [guid : Guid \cup {NoGuid}, action : Action]]
    /\ calls \in 0 .. MaxCalls
    /\ unvouched \in SUBSET Guid
    /\ torn \in SUBSET Guid
    /\ tangled \in SUBSET Guid

(***************************************************************************)
(* Helpers                                                                 *)
(***************************************************************************)
\* midgard_object_new with no guid: an instance no record backs.
Fresh(p) == [guid |-> NoGuid, place |-> p, deleted |-> FALSE, stored |-> FALSE]

\* The shared parameters before anybody sets them.
Unset == [guid |-> NoGuid, action |-> "create"]

\* What INSERT and UPDATE write: every column, from the instance.
RowOf(o) == [place |-> o.place, deleted |-> o.deleted]

Live(g, p) == \E i \in DOMAIN rows[g] :
                  rows[g][i].place = p /\ ~rows[g][i].deleted

IsLive(g) == \E p \in Place : Live(g, p)

\* Guids _object_in_tree's query can return: live, same parent, same name.
Namesakes(o) == {g \in Guid : o.place # NoName /\ Live(g, o.place)}

\* The query has LIMIT 1, so one of the namesakes decides the answer.
MayBeUnique(o) == Namesakes(o) = {} \/ o.guid \in Namesakes(o)
MayBeDuplicate(o) == Namesakes(o) \ {o.guid} # {}

\* The query fails, which is taken for one that found nothing.  The check of
\* an instance whose name is empty asks nothing.
CheckUnheard(o) == MayFail /\ o.place # NoName

\* A guid no table and no instance knows: midgard_guid_new returns it.
Unused(g) == /\ rows[g] = <<>> /\ repl[g] = <<>> /\ g \notin torn
             /\ \A u \in Thread : obj[u].guid # g

\* Bound: a guid is left for t besides those that calls under way will take.
GuidLeft(t) ==
    Cardinality({u \in Thread \ {t} : pc[u] = "create_lock" /\ obj[u].guid = NoGuid})
        < Cardinality({g \in Guid : Unused(g)})

Free(m, t) == holder[m][ProcessOf[t]] = NoThread

Lock(m, t) == holder' = [holder EXCEPT ![m][ProcessOf[t]] = t]

Unlock(t) == holder' = [m \in Mutex |-> [p \in Process |->
                 IF holder[m][p] = t THEN NoThread ELSE holder[m][p]]]

Goto(t, s) == pc' = [pc EXCEPT ![t] = s]

Start(t, c, s) ==
    /\ pc[t] = "idle" /\ calls < MaxCalls
    /\ calls' = calls + 1
    /\ call' = [call EXCEPT ![t] = c]
    /\ Goto(t, s)

Return(t) == Goto(t, "idle") /\ call' = [call EXCEPT ![t] = "none"]

\* History: t writes g's records while another call has yet to log its own.
Tangle(t, g) ==
    tangled' = IF \E u \in Thread \ {t} : Pending(u) /\ obj[u].guid = g
               THEN tangled \cup {g} ELSE tangled

(***************************************************************************)
(* Initial state: an empty database.                                       *)
(***************************************************************************)
Init ==
    /\ rows = [g \in Guid |-> <<>>]
    /\ repl = [g \in Guid |-> <<>>]
    /\ obj = [t \in Thread |-> Fresh(NoName)]
    /\ pc = [t \in Thread |-> "idle"]
    /\ call = [t \in Thread |-> "none"]
    /\ holder = [m \in Mutex |-> [p \in Process |-> NoThread]]
    /\ params = [p \in Process |-> Unset]
    /\ calls = 0
    /\ unvouched = {} /\ torn = {} /\ tangled = {}

(***************************************************************************)
(* What an application does with an instance between two calls.            *)
(***************************************************************************)
New(t, p) ==
    /\ pc[t] = "idle" /\ calls < MaxCalls
    /\ obj' = [obj EXCEPT ![t] = Fresh(p)]
    /\ UNCHANGED <<db, pc, call, holder, params, calls, history>>

SetPlace(t, p) ==
    /\ pc[t] = "idle" /\ calls < MaxCalls
    /\ obj' = [obj EXCEPT ![t].place = p]
    /\ UNCHANGED <<db, pc, call, holder, params, calls, history>>

\* A query that found one of g's records.  Queries leave deleted records out
\* unless the application asks for them (include_deleted).
Load(t, g) ==
    /\ pc[t] = "idle" /\ calls < MaxCalls
    /\ \E i \in DOMAIN rows[g] :
           obj' = [obj EXCEPT ![t] = [guid |-> g, place |-> rows[g][i].place,
                                      deleted |-> rows[g][i].deleted, stored |-> TRUE]]
    /\ UNCHANGED <<db, pc, call, holder, params, calls, history>>

\* midgard_schema_object_factory_get_object_by_guid(g) found nothing, and did
\* not say that g is deleted or purged.  With two records in repligard it
\* fails, whatever they say.
FactoryMisses(g) ==
    Len(repl[g]) = 1 => repl[g][1] \in {"create", "update"} /\ ~IsLive(g)

SetGuid(t, g) ==
    /\ pc[t] = "idle" /\ calls < MaxCalls
    /\ obj[t].guid = NoGuid
    /\ FactoryMisses(g)
    /\ Unused(g) => GuidLeft(t)
    /\ obj' = [obj EXCEPT ![t].guid = g]
    /\ UNCHANGED <<db, pc, call, holder, params, calls, history>>

(***************************************************************************)
(* Create                                                                  *)
(***************************************************************************)
CreateCall(t) ==
    /\ Start(t, "create", "create_lock")
    /\ obj[t].guid = NoGuid => GuidLeft(t)
    /\ UNCHANGED <<db, obj, holder, params, history>>

AlreadyCreated(t) ==
    call[t] = "create" /\ obj[t].guid # NoGuid /\ obj[t].stored

CreateDuplicate(t) ==
    /\ pc[t] = "create_lock" /\ Free("create", t)
    /\ AlreadyCreated(t)
    /\ Return(t)
    /\ UNCHANGED <<db, obj, holder, params, calls, history>>

\* Mutant of CreateEnter: the mutex of create is never taken.
CreateEnter_NoMutex(t) ==
    /\ pc[t] = "create_lock" /\ Free("create", t)
    /\ ~AlreadyCreated(t)
    /\ IF obj[t].guid = NoGuid
       THEN \E g \in Guid : Unused(g) /\ obj' = [obj EXCEPT ![t].guid = g]
       ELSE UNCHANGED obj
    /\ Goto(t, "create_check")
    /\ UNCHANGED <<db, call, holder, params, calls, history>>

CreateEnter(t) ==
    /\ pc[t] = "create_lock" /\ Free("create", t)
    /\ ~AlreadyCreated(t)
    /\ IF obj[t].guid = NoGuid
       THEN \E g \in Guid : Unused(g) /\ obj' = [obj EXCEPT ![t].guid = g]
       ELSE UNCHANGED obj
    /\ Lock("create", t)
    /\ Goto(t, "create_check")
    /\ UNCHANGED <<db, call, params, calls, history>>

CreateUnique(t) ==
    /\ pc[t] = "create_check"
    /\ \/ MayBeUnique(obj[t]) /\ UNCHANGED unvouched
       \/ CheckUnheard(obj[t]) /\ unvouched' = unvouched \cup {obj[t].guid}
    /\ Goto(t, "create_row")
    /\ UNCHANGED <<db, obj, call, holder, params, calls, torn, tangled>>

\* Another object has the name: the instance loses its guid.
CreateNameTaken(t) ==
    /\ pc[t] = "create_check" /\ MayBeDuplicate(obj[t])
    /\ obj' = [obj EXCEPT ![t].guid = NoGuid]
    /\ Unlock(t) /\ Return(t)
    /\ UNCHANGED <<db, params, calls, history>>

CreateInsert(t) ==
    LET g == obj[t].guid IN
    /\ pc[t] = "create_row"
    /\ rows' = [rows EXCEPT ![g] = Append(@, RowOf(obj[t]))]
    /\ Tangle(t, g)
    /\ Goto(t, "create_record")
    /\ UNCHANGED <<repl, obj, call, holder, params, calls, unvouched, torn>>

\* The result of INSERT is compared with a value it never has; what ends the
\* call is that no record of the guid can be read back.
CreateInsertFails(t) ==
    /\ MayFail /\ pc[t] = "create_row"
    /\ IF rows[obj[t].guid] = <<>>
       THEN Unlock(t) /\ Return(t)
       ELSE Goto(t, "create_record") /\ UNCHANGED <<call, holder>>
    /\ UNCHANGED <<db, obj, params, calls, history>>

\* Mutant of CreateRecord: an UPDATE of the record that is not there yet.
CreateRecord_Updates(t) ==
    /\ pc[t] = "create_record"
    /\ repl' = [repl EXCEPT ![obj[t].guid] = [i \in DOMAIN @ |-> "create"]]
    /\ obj' = [obj EXCEPT ![t].stored = TRUE]
    /\ Unlock(t) /\ Return(t)
    /\ UNCHANGED <<rows, params, calls, history>>

CreateRecord(t) ==
    /\ pc[t] = "create_record"
    /\ repl' = [repl EXCEPT ![obj[t].guid] = Append(@, "create")]
    /\ obj' = [obj EXCEPT ![t].stored = TRUE]
    /\ Unlock(t) /\ Return(t)
    /\ UNCHANGED <<rows, params, calls, history>>

CreateRecordFails(t) ==
    /\ MayFail /\ pc[t] = "create_record"
    /\ torn' = torn \cup {obj[t].guid}
    /\ Unlock(t) /\ Return(t)
    /\ UNCHANGED <<db, obj, params, calls, unvouched, tangled>>

(***************************************************************************)
(* Update, and save, which is an update that may turn into a create        *)
(***************************************************************************)
UpdateCall(t) ==
    /\ Start(t, "update", "update_lock")
    /\ UNCHANGED <<db, obj, holder, params, history>>

SaveCall(t) ==
    /\ Start(t, "save", "update_lock")
    /\ IF obj[t].guid = NoGuid
       THEN /\ GuidLeft(t)
            /\ \E g \in Guid : Unused(g) /\ obj' = [obj EXCEPT ![t].guid = g]
       ELSE UNCHANGED obj
    /\ UNCHANGED <<db, holder, params, history>>

UpdateNoGuid(t) ==
    /\ pc[t] = "update_lock" /\ Free("update", t)
    /\ obj[t].guid = NoGuid
    /\ Return(t)
    /\ UNCHANGED <<db, obj, holder, params, calls, history>>

UpdateEnter(t) ==
    /\ pc[t] = "update_lock" /\ Free("update", t)
    /\ obj[t].guid # NoGuid
    /\ Lock("update", t)
    /\ Goto(t, "update_check")
    /\ UNCHANGED <<db, obj, call, params, calls, history>>

UpdateUnique(t) ==
    /\ pc[t] = "update_check" /\ (MayBeUnique(obj[t]) \/ CheckUnheard(obj[t]))
    /\ Goto(t, "update_row")
    /\ UNCHANGED <<db, obj, call, holder, params, calls, history>>

\* Mutant of UpdateNameTaken: an early return that keeps the mutex.
UpdateNameTaken_KeepsMutex(t) ==
    /\ pc[t] = "update_check" /\ MayBeDuplicate(obj[t])
    /\ Return(t)
    /\ UNCHANGED <<db, obj, holder, params, calls, history>>

UpdateNameTaken(t) ==
    /\ pc[t] = "update_check" /\ MayBeDuplicate(obj[t])
    /\ Unlock(t) /\ Return(t)
    /\ UNCHANGED <<db, obj, params, calls, history>>

UpdateRow(t) ==
    LET g == obj[t].guid IN
    /\ pc[t] = "update_row" /\ rows[g] # <<>>
    /\ rows' = [rows EXCEPT ![g] = [i \in DOMAIN @ |-> RowOf(obj[t])]]
    /\ unvouched' = unvouched \cup {g}
    /\ Tangle(t, g)
    /\ Goto(t, "record_guid")
    /\ UNCHANGED <<repl, obj, call, holder, params, calls, torn>>

\* Mutant of UpdateNothing: no row updated is as good as one.
UpdateNothing_Ignored(t) ==
    /\ pc[t] = "update_row" /\ rows[obj[t].guid] = <<>>
    /\ Goto(t, "record_guid")
    /\ UNCHANGED <<db, obj, call, holder, params, calls, history>>

\* No record to update: update returns FALSE, save goes on to create.
UpdateNothing(t) ==
    /\ pc[t] = "update_row" /\ rows[obj[t].guid] = <<>>
    /\ Unlock(t)
    /\ IF call[t] = "save"
       THEN Goto(t, "create_lock") /\ UNCHANGED call
       ELSE Return(t)
    /\ UNCHANGED <<db, obj, params, calls, history>>

\* Mutant of UpdateFails: an early return that keeps the mutex.
UpdateFails_KeepsMutex(t) ==
    /\ MayFail /\ pc[t] = "update_row"
    /\ Return(t)
    /\ UNCHANGED <<db, obj, holder, params, calls, history>>

UpdateFails(t) ==
    /\ MayFail /\ pc[t] = "update_row"
    /\ Unlock(t) /\ Return(t)
    /\ UNCHANGED <<db, obj, params, calls, history>>

(***************************************************************************)
(* Delete and purge                                                        *)
(***************************************************************************)
DeleteCall(t) ==
    /\ Start(t, "delete", "delete_lock")
    /\ UNCHANGED <<db, obj, holder, params, history>>

DeleteNoGuid(t) ==
    /\ pc[t] = "delete_lock" /\ Free("delete", t)
    /\ obj[t].guid = NoGuid
    /\ Return(t)
    /\ UNCHANGED <<db, obj, holder, params, calls, history>>

DeleteEnter(t) ==
    /\ pc[t] = "delete_lock" /\ Free("delete", t)
    /\ obj[t].guid # NoGuid
    /\ Lock("delete", t)
    /\ Goto(t, "delete_row")
    /\ UNCHANGED <<db, obj, call, params, calls, history>>

\* Only the metadata columns of a delete are written.  No record to mark is
\* as good as a marked one.
DeleteRow(t) ==
    LET g == obj[t].guid IN
    /\ pc[t] = "delete_row"
    /\ rows' = [rows EXCEPT ![g] = [i \in DOMAIN @ |-> [@[i] EXCEPT !.deleted = TRUE]]]
    /\ Tangle(t, g)
    /\ Goto(t, "record_guid")
    /\ UNCHANGED <<repl, obj, call, holder, params, calls, unvouched, torn>>

DeleteFails(t) ==
    /\ MayFail /\ pc[t] = "delete_row"
    /\ Unlock(t) /\ Return(t)
    /\ UNCHANGED <<db, obj, params, calls, history>>

PurgeCall(t) ==
    /\ Start(t, "purge", "purge_row")
    /\ UNCHANGED <<db, obj, holder, params, history>>

PurgeNoGuid(t) ==
    /\ pc[t] = "purge_row" /\ obj[t].guid = NoGuid
    /\ Return(t)
    /\ UNCHANGED <<db, obj, holder, params, calls, history>>

PurgeRow(t) ==
    LET g == obj[t].guid IN
    /\ pc[t] = "purge_row" /\ g # NoGuid /\ rows[g] # <<>>
    /\ rows' = [rows EXCEPT ![g] = <<>>]
    /\ Tangle(t, g)
    /\ Goto(t, "record_guid")
    /\ UNCHANGED <<repl, obj, call, holder, params, calls, unvouched, torn>>

PurgeNothing(t) ==
    /\ pc[t] = "purge_row" /\ obj[t].guid # NoGuid /\ rows[obj[t].guid] = <<>>
    /\ Return(t)
    /\ UNCHANGED <<db, obj, holder, params, calls, history>>

\* A failed DELETE reports -1 rows, which is not the 0 that ends the call.
PurgeFails(t) ==
    /\ MayFail /\ pc[t] = "purge_row" /\ obj[t].guid # NoGuid
    /\ torn' = torn \cup {obj[t].guid}
    /\ Goto(t, "record_guid")
    /\ UNCHANGED <<db, obj, call, holder, params, calls, unvouched, tangled>>

(***************************************************************************)
(* Undelete.  It looks the guid up in repligard under the property "guid", *)
(* which MidgardRepligard does not have (its name there is "reference"),   *)
(* so the query is refused and the call ends before its two UPDATEs.       *)
(***************************************************************************)
RepligardProperty == {"reference", "type", "action", "workspace"}

UndeleteCall(t, g) ==
    /\ pc[t] = "idle" /\ calls < MaxCalls
    /\ calls' = calls + 1
    /\ IF "guid" \in RepligardProperty /\ repl[g] = <<"delete">>
       THEN /\ rows' = [rows EXCEPT ![g] = [i \in DOMAIN @ |-> [@[i] EXCEPT !.deleted = FALSE]]]
            /\ repl' = [repl EXCEPT ![g] = <<"update">>]
       ELSE UNCHANGED db
    /\ UNCHANGED <<obj, pc, call, holder, params, history>>

(***************************************************************************)
(* midgard_repligard_update_object_info, the second half of update, delete *)
(* and purge: the two parameters of the statement are set one by one, in a *)
(* set that every thread of the process shares, then it is executed.       *)
(***************************************************************************)
RecordGuid(t) ==
    /\ pc[t] = "record_guid"
    /\ params' = [params EXCEPT ![ProcessOf[t]].guid = obj[t].guid]
    /\ Goto(t, "record_action")
    /\ UNCHANGED <<db, obj, call, holder, calls, history>>

ActionOf(c) == IF c = "save" THEN "update" ELSE c

RecordAction(t) ==
    /\ pc[t] = "record_action"
    /\ params' = [params EXCEPT ![ProcessOf[t]].action = ActionOf(call[t])]
    /\ Goto(t, "record_write")
    /\ UNCHANGED <<db, obj, call, holder, calls, history>>

RecordWrite(t) ==
    LET p == params[ProcessOf[t]] IN
    /\ pc[t] = "record_write"
    /\ repl' = [repl EXCEPT ![p.guid] = [i \in DOMAIN @ |-> p.action]]
    /\ obj' = [obj EXCEPT ![t].deleted = @ \/ call[t] = "delete"]
    /\ Unlock(t) /\ Return(t)
    /\ UNCHANGED <<rows, params, calls, history>>

RecordFails(t) ==
    /\ MayFail /\ pc[t] = "record_write"
    /\ torn' = torn \cup {obj[t].guid}
    /\ Unlock(t) /\ Return(t)
    /\ UNCHANGED <<db, obj, params, calls, unvouched, tangled>>

(***************************************************************************)
(* A process dies in the middle of a call.  Every statement that has run   *)
(* stays: there is no transaction around a call.                           *)
(***************************************************************************)
Crash(p) ==
    LET dead == {t \in Thread : ProcessOf[t] = p} IN
    /\ MayFail /\ \E t \in dead : pc[t] # "idle"
    /\ pc' = [t \in Thread |-> IF t \in dead THEN "idle" ELSE pc[t]]
    /\ call' = [t \in Thread |-> IF t \in dead THEN "none" ELSE call[t]]
    /\ obj' = [t \in Thread |-> IF t \in dead THEN Fresh(NoName) ELSE obj[t]]
    /\ holder' = [m \in Mutex |-> [holder[m] EXCEPT ![p] = NoThread]]
    /\ torn' = torn \cup {g \in Guid : \E t \in dead : Pending(t) /\ obj[t].guid = g}
    /\ params' = [params EXCEPT ![p] = Unset]
    /\ UNCHANGED <<db, calls, unvouched, tangled>>

(***************************************************************************)
(* Specification                                                           *)
(***************************************************************************)
Instances(t) ==
    \/ \E p \in Place : New(t, p) \/ SetPlace(t, p)
    \/ \E g \in Guid : Load(t, g) \/ SetGuid(t, g)

Calls(t) ==
    \/ CreateCall(t) \/ UpdateCall(t) \/ SaveCall(t) \/ DeleteCall(t) \/ PurgeCall(t)
    \/ \E g \in Guid : UndeleteCall(t, g)

Creating(t) ==
    \/ CreateDuplicate(t) \/ CreateEnter(t) \/ CreateUnique(t) \/ CreateNameTaken(t)
    \/ CreateInsert(t) \/ CreateInsertFails(t) \/ CreateRecord(t) \/ CreateRecordFails(t)

Updating(t) ==
    \/ UpdateNoGuid(t) \/ UpdateEnter(t) \/ UpdateUnique(t) \/ UpdateNameTaken(t)
    \/ UpdateRow(t) \/ UpdateNothing(t) \/ UpdateFails(t)

Deleting(t) ==
    \/ DeleteNoGuid(t) \/ DeleteEnter(t) \/ DeleteRow(t) \/ DeleteFails(t)
    \/ PurgeNoGuid(t) \/ PurgeRow(t) \/ PurgeNothing(t) \/ PurgeFails(t)

Recording(t) ==
    RecordGuid(t) \/ RecordAction(t) \/ RecordWrite(t) \/ RecordFails(t)

\* A thread inside a call goes on with it.
Proceed(t) == Creating(t) \/ Updating(t) \/ Deleting(t) \/ Recording(t)

Next ==
    \/ \E t \in Thread : Instances(t) \/ Calls(t) \/ Proceed(t)
    \/ \E p \in Process : Crash(p)

Spec == Init /\ [][Next]_vars

\* The scheduler runs every thread that is inside a call.
FairSpec == Spec /\ \A t \in Thread : WF_vars(Proceed(t))
(***************************************************************************)
(* Properties                                                              *)
(***************************************************************************)
\* t runs code that midgard_object.c puts between taking and leaving m.
Inside(t, m) ==
    \/ m = "create" /\ pc[t] \in {"create_check", "create_row", "create_record"}
    \/ m = "update" /\ pc[t] \in {"update_check", "update_row"}
    \/ m = "update" /\ pc[t] \in RECORD_STEPS /\ call[t] \in {"update", "save"}
    \/ m = "delete" /\ pc[t] = "delete_row"
    \/ m = "delete" /\ pc[t] \in RECORD_STEPS /\ call[t] = "delete"

\* A mutex is held exactly by the thread that is inside the code it guards:
\* no early return of create, update or delete keeps it, none is entered twice.
MutexDiscipline ==
    \A t \in Thread, m \in Mutex : Inside(t, m) <=> holder[m][ProcessOf[t]] = t

\* Two objects that create (or save) stored never share parent and name while
\* both are live, unless an UPDATE has rewritten one of them or the query of
\* its own check failed: the check and the INSERT of create are two statements,
\* and only the mutex of create keeps another create from coming between.  True
\* of threads of one process.
CreatedNamesUnique ==
    \A g, h \in Guid \ unvouched : \A p \in Place \ {NoName} :
        Live(g, p) /\ Live(h, p) => g = h

\* An object in the class's table is in the replication log, unless its create
\* is still to write there, or stopped between the two tables.
EveryRowRecorded ==
    \A g \in Guid \ torn :
        rows[g] # <<>> => \/ repl[g] # <<>>
                         \/ \E t \in Thread : pc[t] = "create_record" /\ obj[t].guid = g

Settled(g) == g \notin torn \cup tangled /\ \A t \in Thread : ~(Pending(t) /\ obj[t].guid = g)

\* What the log says last of a guid is what the table holds, for every guid
\* whose calls did not overlap and did not fail between the tables: a live
\* object is never logged as deleted or purged (get_object_by_guid would
\* refuse it), a purged one never as created or updated (it would never be
\* replicated as purged).  True when no two threads share a process.
RecordAgrees ==
    \A g \in Guid : Settled(g) /\ repl[g] # <<>> =>
        LET last == repl[g][Len(repl[g])] IN
        /\ IsLive(g) => last \in {"create", "update"}
        /\ rows[g] = <<>> => last \in {"purge", "delete"}

\* Every call returns: nobody waits for a mutex for ever.
CallsReturn == \A t \in Thread : pc[t] # "idle" ~> pc[t] = "idle"

\* "For given @object, updates replication record info": the statement that
\* ends an update, a delete or a purge changes no record but its object's.
RecordsOwnGuid ==
    [][\A t \in Thread, g \in Guid :
          RecordWrite(t) /\ repl'[g] # repl[g] => g = obj[t].guid]_vars

\* "It is possible to undelete object later": undelete brings back an object
\* that is marked as deleted and logged as such.
UndeleteRestores ==
    [][\A t \in Thread, g \in Guid :
          UndeleteCall(t, g) /\ repl[g] = <<"delete">> /\ rows[g] # <<>> => IsLive(g)']_vars

\* "After successfull call, only repligard table holds information about
\* object's state": an object that is gone from its table, by calls none of
\* which overlapped or failed, is logged as purged.
PurgedIsLogged ==
    \A g \in Guid : Settled(g) /\ rows[g] = <<>> /\ repl[g] # <<>> =>
        repl[g][Len(repl[g])] = "purge"

=============================================================================
