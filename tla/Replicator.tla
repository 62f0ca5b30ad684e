----------------------------- MODULE Replicator -----------------------------
(***************************************************************************)
(* Replication of objects between Midgard databases (midgard_replicator.c, *)
(* midgard_core_object.c): a site serializes an object to XML, the XML is  *)
(* carried somehow to another site, and that site imports it.              *)
(*                                                                         *)
(* There is no protocol: whoever carries the packages may lose, repeat or  *)
(* reorder them.  What keeps the sites together is one comparison, of the  *)
(* "revised" dates of the stored object and of the imported one, which are *)
(* strings with a resolution of one second.                                *)
(*                                                                         *)
(* One step is one call of the library or, in import_from_xml, one node of *)
(* the XML: a call's statements are interleaved in module ObjectStore.     *)
(* Left out: blobs, the parent chain and its duplicate names, workspaces,  *)
(* links of other kinds than one parent, and failing statements.           *)
(***************************************************************************)
EXTENDS Naturals, Sequences, FiniteSets

CONSTANTS
    Site,        \* databases, each with one program working on it
    Guid,        \* guids of the objects replicated
    NoGuid,      \* no object
    Parent,      \* the object a link property of each object refers to
    Absent,      \* no row in the class's table
    MayPurge,    \* whether objects are purged
    Forces,      \* what callers pass as "force": a set of BOOLEANs
    MaxTime,     \* bound: seconds that pass
    MaxEdits,    \* bound: changes made by users
    MaxXmls,     \* bound: packages sent
    MaxRecords   \* bound: repligard records of one guid

ASSUME ParentAssumption ==
    Parent \in [Guid -> Guid \cup {NoGuid}] /\ NoGuid \notin Guid
ASSUME GuidAssumption == IsFiniteSet(Guid)   \* what databases hold is finite
ASSUME BoundAssumption ==
    /\ MaxTime \in Nat /\ MaxEdits \in Nat /\ MaxXmls \in Nat /\ MaxRecords \in Nat
    /\ MayPurge \in BOOLEAN /\ Forces \subseteq BOOLEAN

Edit == 1 .. MaxEdits
Time == 0 .. MaxTime

(***************************************************************************)
(* Types                                                                   *)
(***************************************************************************)
\* MgdObjectAction values repligard holds.
Action == {"create", "update", "delete", "purge"}

\* An object's columns.  "edit" stands for the content: it is the number of
\* the change made by a user that the row follows.  "linked" is whether the
\* link property has a value, the id of the parent's row.
State == [edit : Edit, revised : Time, deleted : BOOLEAN, linked : BOOLEAN]

ASSUME AbsentAssumption == Absent \notin State

\* An instance in a program's memory, and the node an XML holds for it.
Instance == [guid : Guid, state : State]

\* <midgard_article purge="yes|no" guid="...">
Node == [guid : Guid, purge : {FALSE}, state : State]
            \cup [guid : Guid, purge : {TRUE}]

VARIABLES
    now,      \* the time, in seconds; the sites' clocks agree
    rows,     \* the class's table of each site
    repl,     \* repligard of each site: the actions of each guid's records
    inst,     \* the instance each site's program works on: {} or {it}
    xmls,     \* packages sent, each a sequence of nodes, never forgotten
    queue,    \* nodes a site's import_from_xml has still to import
    forced,   \* whether that import is forced
    editTime  \* history: when each user's change was made

vars == <<now, rows, repl, inst, xmls, queue, forced, editTime>>

TypeOK ==
    /\ now \in Time
    /\ rows \in [Site -> [Guid -> State \cup {Absent}]]
    /\ repl \in [Site -> [Guid -> Seq(Action)]]
    /\ inst \in [Site -> SUBSET Instance]
    /\ xmls \in SUBSET Seq(Node)
    /\ queue \in [Site -> Seq(Node)]
    /\ forced \in [Site -> BOOLEAN]
    /\ editTime \in Seq(Time) /\ Len(editTime) <= MaxEdits

(***************************************************************************)
(* Reading and writing one site                                            *)
(***************************************************************************)
Stored(s, g) == rows[s][g] # Absent
Live(s, g) == Stored(s, g) /\ ~rows[s][g].deleted

\* midgard_schema_object_factory_get_object_by_guid: one record in repligard
\* ("Too many objects to get" is an error), whose action decides, and then
\* midgard_object_new, which reads no deleted row.
Lookup(s, g) ==
    IF Len(repl[s][g]) # 1 THEN "error"
    ELSE IF repl[s][g][1] \in {"delete", "purge"} THEN repl[s][g][1]
    ELSE IF Live(s, g) THEN "found"
    ELSE "not_exists"

\* Mutant of Recorded: only one record of the guid is rewritten.
RecordedOnce(log, a) == [i \in DOMAIN log |-> IF i = 1 THEN a ELSE log[i]]

\* midgard_repligard_update_object_info: UPDATE repligard ... WHERE guid.
Recorded(log, a) == [i \in DOMAIN log |-> a]

\* A create INSERTs a record, the other actions rewrite the records there are.
Record(s, g, a) ==
    repl' = [repl EXCEPT ![s][g] =
                IF a = "create" THEN Append(@, a) ELSE Recorded(@, a)]

\* A row of site s and the record of its change.
Write(s, g, state, a) ==
    /\ rows' = [rows EXCEPT ![s][g] = state]
    /\ Record(s, g, a)

\* A user's change, made now.
NextEdit == Len(editTime) + 1
NewEdit == NextEdit <= MaxEdits /\ editTime' = Append(editTime, now)

(***************************************************************************)
(* Users at work on one site                                               *)
(***************************************************************************)
Tick ==
    /\ now < MaxTime
    /\ now' = now + 1
    /\ UNCHANGED <<rows, repl, inst, xmls, queue, forced, editTime>>

\* The program fetches an object with a query that includes deleted ones.
Load(s, g) ==
    /\ Stored(s, g)
    /\ inst' = [inst EXCEPT ![s] = {[guid |-> g, state |-> rows[s][g]]}]
    /\ UNCHANGED <<now, rows, repl, xmls, queue, forced, editTime>>

\* midgard_object_create: the guid is new to the world.
Create(s, g) ==
    LET state == [edit |-> NextEdit, revised |-> now, deleted |-> FALSE,
                  linked |-> Parent[g] # NoGuid]
    IN  /\ \A u \in Site : repl[u][g] = <<>>
        /\ Parent[g] # NoGuid => Live(s, Parent[g])
        /\ NewEdit
        /\ Write(s, g, state, "create")
        /\ inst' = [inst EXCEPT ![s] = {[guid |-> g, state |-> state]}]
        /\ UNCHANGED <<now, xmls, queue, forced>>

\* midgard_object_update writes every column from the instance, "deleted"
\* too, with a new revised date; it finds no row to update if none is left.
Update(s) == \E o \in inst[s] :
    LET state == [o.state EXCEPT !.edit = NextEdit, !.revised = now] IN
    /\ Stored(s, o.guid)
    /\ NewEdit
    /\ Write(s, o.guid, state, "update")
    /\ inst' = [inst EXCEPT ![s] = {[o EXCEPT !.state = state]}]
    /\ UNCHANGED <<now, xmls, queue, forced>>

\* Mutant of Deleted: the date is left alone.
DeletedUndated(state, edit) ==
    [state EXCEPT !.edit = edit, !.deleted = TRUE]

\* _midgard_object_delete sets "deleted" and the revised date, in the row and
\* in the instance, and no other column.
Deleted(state, edit) ==
    [state EXCEPT !.edit = edit, !.revised = now, !.deleted = TRUE]

Delete(s) == \E o \in inst[s] :
    /\ Stored(s, o.guid)
    /\ NewEdit
    /\ Write(s, o.guid, Deleted(rows[s][o.guid], NextEdit), "delete")
    /\ inst' = [inst EXCEPT ![s] = {[o EXCEPT !.state = Deleted(@, NextEdit)]}]
    /\ UNCHANGED <<now, xmls, queue, forced>>

\* With the object purged meanwhile the UPDATE finds no row, which is taken
\* for a success: the delete is recorded all the same.
DeletePurged(s) == \E o \in inst[s] :
    /\ ~Stored(s, o.guid)
    /\ Record(s, o.guid, "delete")
    /\ inst' = [inst EXCEPT ![s] = {}]
    /\ UNCHANGED <<now, rows, xmls, queue, forced, editTime>>

Purge(s) == \E o \in inst[s] :
    /\ MayPurge /\ Stored(s, o.guid)
    /\ NewEdit
    /\ Write(s, o.guid, Absent, "purge")
    /\ inst' = [inst EXCEPT ![s] = {}]
    /\ UNCHANGED <<now, xmls, queue, forced>>

(***************************************************************************)
(* Export                                                                  *)
(***************************************************************************)
Send(xml) == /\ Cardinality(xmls) < MaxXmls
             /\ xmls' = xmls \cup {xml}

\* midgard_core_object_to_xml of an instance as it is.  _write_nodes queries
\* the parent's guid: no live row, no link in the node.
NodeOf(s, o) ==
    [guid |-> o.guid, purge |-> FALSE,
     state |-> [o.state EXCEPT !.linked = @ /\ Live(s, Parent[o.guid])]]

Serialize(s) == \E o \in inst[s] :
    /\ Send(<<NodeOf(s, o)>>)
    /\ UNCHANGED <<now, rows, repl, inst, queue, forced, editTime>>

\* midgard_replicator_export marks the row as exported by an update of every
\* column, which emits no action-update: revised stays what the instance has.
Export(s) == \E o \in inst[s] :
    /\ Stored(s, o.guid)
    /\ Write(s, o.guid, o.state, "update")
    /\ UNCHANGED <<now, inst, xmls, queue, forced, editTime>>

\* The records with object_action = MGD_OBJECT_ACTION_PURGE.
Purges(s) == {r \in Guid \X (1 .. MaxRecords) :
                 r[2] \in DOMAIN repl[s][r[1]] /\ repl[s][r[1]][r[2]] = "purge"}

\* midgard_replicator_export_purged: a node for each such record, in the
\* order the database returns them.
ExportPurged(s) ==
    LET n == Cardinality(Purges(s)) IN
    \E order \in [1 .. n -> Purges(s)] :
        /\ n > 0 /\ \A r \in Purges(s) : \E i \in 1 .. n : order[i] = r
        /\ Send([i \in 1 .. n |-> [guid |-> order[i][1], purge |-> TRUE]])
        /\ UNCHANGED <<now, rows, repl, inst, queue, forced, editTime>>

(***************************************************************************)
(* Import                                                                  *)
(***************************************************************************)
\* midgard_replicator_import_from_xml is given an XML: any XML ever sent, so
\* also one that was imported before, or one older than it.
Receive(s, xml, force) ==
    /\ queue[s] = <<>> /\ xml \in xmls
    /\ queue' = [queue EXCEPT ![s] = xml]
    /\ forced' = [forced EXCEPT ![s] = force]
    /\ UNCHANGED <<now, rows, repl, inst, xmls, editTime>>

Node1(s) == Head(queue[s])

\* The nodes left after a step; with the last one the call returns.
Imported(s, nodes) ==
    /\ queue' = [queue EXCEPT ![s] = nodes]
    /\ forced' = [forced EXCEPT ![s] = @ /\ nodes # <<>>]

\* The guid of the parent gives its id.
Resolved(s, node) == Lookup(s, Parent[node.guid]) = "found"

\* Mutant of Outcome: an object of the same second replaces the stored one.
OutcomeSameSecond(s, node) ==
    IF node.state.linked /\ ~Resolved(s, node) /\ ~forced[s] THEN "missed_dependence"
    ELSE IF ~Stored(s, node.guid) THEN "create"
    ELSE IF ~forced[s] /\ rows[s][node.guid].revised > node.state.revised
        THEN "imported"
    ELSE IF node.state.deleted THEN "delete"
    ELSE "update"

\* What a node that is an object comes to at site s, by the statements of
\* _nodes2object and midgard_replicator_import_object in their order.  (The
\* query builder never reports a purge, so that the branch for it is dead
\* and a purged object is created again.)
Outcome(s, node) ==
    IF node.state.linked /\ ~Resolved(s, node) /\ ~forced[s] THEN "missed_dependence"
    ELSE IF ~Stored(s, node.guid) THEN "create"
    ELSE IF ~forced[s] /\ rows[s][node.guid].revised >= node.state.revised
        THEN "imported"
    ELSE IF node.state.deleted THEN "delete"
    ELSE "update"

\* Mutant of RowAfter: a forced import keeps the link it could not translate.
RowAfterUnresolved(s, node, outcome) ==
    IF outcome = "delete" THEN Deleted(rows[s][node.guid], node.state.edit)
    ELSE node.state

\* The row an outcome leaves.  A create and an update store the package's
\* columns, with no link when the parent is not there (the import is forced);
\* a delete is midgard_object_delete of the row found, which sets the revised
\* date to this site's time.
RowAfter(s, node, outcome) ==
    IF outcome = "delete" THEN Deleted(rows[s][node.guid], node.state.edit)
    ELSE [node.state EXCEPT !.linked = @ /\ Resolved(s, node)]

ImportObject(s) ==
    LET node == Node1(s)
        outcome == Outcome(s, node)
    IN  /\ queue[s] # <<>> /\ ~node.purge
        /\ outcome = "create" => Len(repl[s][node.guid]) < MaxRecords
        /\ IF outcome \in {"create", "update", "delete"}
           THEN Write(s, node.guid, RowAfter(s, node, outcome), outcome)
           ELSE UNCHANGED <<rows, repl>>
        /\ Imported(s, Tail(queue[s]))
        /\ UNCHANGED <<now, inst, xmls, editTime>>

\* A node with purge="yes", of an object that can be fetched.
ImportPurge(s) ==
    LET g == Node1(s).guid IN
    /\ queue[s] # <<>> /\ Node1(s).purge /\ Lookup(s, g) = "found"
    /\ Write(s, g, Absent, "purge")
    /\ Imported(s, Tail(queue[s]))
    /\ UNCHANGED <<now, inst, xmls, editTime>>

\* ... of a deleted object: midgard_object_purge is called with no object.
SkipPurge(s) ==
    /\ queue[s] # <<>> /\ Node1(s).purge /\ Lookup(s, Node1(s).guid) = "delete"
    /\ Imported(s, Tail(queue[s]))
    /\ UNCHANGED <<now, rows, repl, inst, xmls, editTime>>

\* ... of any other: the node is unserialized as an object, and having no
\* children it fails the assertion of _nodes2object.  The program aborts,
\* the nodes left are lost, and it is started again.
AbortPurge(s) ==
    /\ queue[s] # <<>> /\ Node1(s).purge
    /\ Lookup(s, Node1(s).guid) \notin {"found", "delete"}
    /\ Imported(s, <<>>)
    /\ inst' = [inst EXCEPT ![s] = {}]
    /\ UNCHANGED <<now, rows, repl, xmls, editTime>>

Next ==
    \/ Tick
    \/ \E s \in Site :
        \/ \E g \in Guid : Load(s, g) \/ Create(s, g)
        \/ Update(s) \/ Delete(s) \/ DeletePurged(s) \/ Purge(s)
        \/ Serialize(s) \/ Export(s) \/ ExportPurged(s)
        \/ \E xml \in xmls, force \in Forces : Receive(s, xml, force)
        \/ ImportObject(s)
        \/ ImportPurge(s) \/ SkipPurge(s) \/ AbortPurge(s)

Init ==
    /\ now = 0
    /\ rows = [s \in Site |-> [g \in Guid |-> Absent]]
    /\ repl = [s \in Site |-> [g \in Guid |-> <<>>]]
    /\ inst = [s \in Site |-> {}]
    /\ xmls = {}
    /\ queue = [s \in Site |-> <<>>]
    /\ forced = [s \in Site |-> FALSE]
    /\ editTime = <<>>

Spec == Init /\ [][Next]_vars

(***************************************************************************)
(* Properties                                                              *)
(***************************************************************************)
\* The revised date of a live row is the time of the very change its columns
\* come from: imports and exports carry the date along and never renew it,
\* and no step pairs the date of one change with the columns of another.
\* A deleted row may be dated later, by the site that imported the deletion.
LiveDated == \A s \in Site, g \in Guid : Stored(s, g) =>
    LET r == rows[s][g] IN
    /\ r.edit \in DOMAIN editTime
    /\ IF r.deleted THEN r.revised \in editTime[r.edit] .. now
       ELSE r.revised = editTime[r.edit]

\* A step of import_from_xml that takes the node of an object.
Importing(s) == /\ queue[s] # <<>> /\ ~Node1(s).purge
                /\ queue'[s] = Tail(queue[s])

\* Packages come again and come late.  An import that changed the database is
\* refused when its package is repeated: its row is dated no earlier than the
\* package, also where midgard_object_delete dated it anew.
AppliedOnce == [][\A s \in Site :
    (Importing(s) /\ rows'[s] # rows[s]) =>
        /\ rows'[s][Node1(s).guid] # Absent
        /\ rows'[s][Node1(s).guid].revised >= Node1(s).state.revised]_vars

\* Whatever the order packages come in, an import that is not forced never
\* replaces a live object by an earlier state of it.
ImportsGoForward == [][\A s \in Site : \A g \in Guid :
    (Importing(s) /\ ~forced[s] /\ Live(s, g) /\ Live(s, g)' /\ rows'[s][g] # rows[s][g])
        => rows'[s][g].edit > rows[s][g].edit]_vars

\* A link names a row that the site has, or has purged since: no package
\* leaves a link to an object the site was never sent, in whatever order a
\* parent and its child arrive.
LinksResolve == \A s \in Site, g \in Guid :
    (Stored(s, g) /\ rows[s][g].linked) => repl[s][Parent[g]] # <<>>

\* repligard never calls a stored object purged, nor one that is gone created
\* or updated: the newest record of a guid tells whether it has a row, but for
\* a delete, which may be of either.
GoneRecorded == \A s \in Site, g \in Guid :
    repl[s][g] # <<>> =>
        LET newest == repl[s][g][Len(repl[s][g])] IN
        /\ newest = "purge" => ~Stored(s, g)
        /\ newest \in {"create", "update"} => Stored(s, g)

\* "Object's record(s) are purged from database without any possibility to
\* recover" (midgard_object.c:3048): a row once purged at a site does not
\* come back there unless an import is forced.
PurgeIsFinal == [][\A s \in Site : \A g \in Guid :
    (~forced[s] /\ ~Stored(s, g) /\ \E r \in Purges(s) : r[1] = g) => ~Stored(s, g)']_vars


=============================================================================
