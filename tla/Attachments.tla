----------------------------- MODULE Attachments -----------------------------
(***************************************************************************)
(* Attachments of one object (midgard_object_attachment.c), rows of        *)
(* midgard_attachment, and their files (midgard_blob.c).  A row names its  *)
(* file by a location, which the first blob made for an instance invents   *)
(* and only an update of that instance stores.  Statements and calls of    *)
(* the file system are steps; a program may die between two of them.       *)
(*                                                                         *)
(* Left out: attachments without a name, for which no name is looked for;  *)
(* what a file contains, its encoding and handler; titles and types; the   *)
(* log and the mutexes of create, update and purge (ObjectStore).          *)
(***************************************************************************)
EXTENDS Naturals, Sequences, FiniteSets

CONSTANTS
    Keeper,         \* programs
    AttName,        \* names of attachments
    MaxAtts,        \* bound: rows ever stored
    MaxLocations,   \* bound: locations ever invented
    MaxAttCalls     \* bound: calls made

ASSUME AttachmentsAssumption ==
    MaxAtts \in Nat /\ MaxLocations \in Nat /\ MaxAttCalls \in Nat

VARIABLES
    atts,        \* rows, in the order of their ids
    files,       \* locations under which the blob directory has a file
    blobdir,     \* whether the blob directory exists
    invented,    \* locations invented so far: 1 .. invented
    held,        \* the attachment each program has: {} or one instance
    work,        \* the call a program is in: {} or one record
    doubled,     \* history: names stored by a create or update that raced
    givenUp,    \* history: locations whose file somebody knew he left alone
    attCalls

attVars == <<atts, files, blobdir, invented, held, work, doubled, givenUp, attCalls>>

\* Location 0 is the empty one.
Location == 0 .. invented

Att == [name : AttName, loc : Location, state : {"live", "deleted", "purged"}]

\* What a program has of a row: where it is, and the location it read.
Copy == [row : DOMAIN atts, loc : Location]

\* What is to be done for each attachment that a call removes.
Halves(how) == IF how = "blob" THEN {"file", "row"} ELSE {"row"}

AttTask ==
    [does : {"insert"}, name : AttName, seen : 0 .. Len(atts)]
        \cup [does : {"delete", "purge"}, todo : {{"row"}}, list : (SUBSET Copy) \ {{}}]
        \cup [does : {"blob"}, todo : {{"file", "row"}, {"row"}}, list : (SUBSET Copy) \ {{}}]

AttsTypeOK ==
    /\ atts \in Seq(Att) /\ Len(atts) =< MaxAtts
    /\ files \subseteq 1 .. invented /\ givenUp \subseteq 1 .. invented
    /\ blobdir \in BOOLEAN /\ invented \in 0 .. MaxLocations
    /\ held \in [Keeper -> SUBSET Copy]
    /\ work \in [Keeper -> SUBSET AttTask]
    /\ \A k \in Keeper : /\ \A g, h \in held[k] : g = h
                         /\ \A v, w \in work[k] : v = w
    /\ doubled \subseteq AttName
    /\ attCalls \in 0 .. MaxAttCalls

-----------------------------------------------------------------------------
LiveAtts(names) == {i \in DOMAIN atts : atts[i].name \in names /\ atts[i].state = "live"}
Named(l) == \E i \in DOMAIN atts : atts[i].loc = l /\ atts[i].state # "purged"

\* What is given up when the instance of k is replaced by hs.
LeftBy(k, hs) == {h.loc : h \in {g \in held[k] \ hs : g.loc # 0 /\ ~Named(g.loc)}}

\* The next attachment of a list.
NextOf(w) == CHOOSE h \in w.list : \A g \in w.list : h.row =< g.row

AttIdle(k) == work[k] = {}
AttCalled == attCalls < MaxAttCalls /\ attCalls' = attCalls + 1
Works(k, w) == work' = [work EXCEPT ![k] = {w}]
AttReturns(k) == work' = [work EXCEPT ![k] = {}]

-----------------------------------------------------------------------------
(* Attachments *)

\* The COUNT of midgard_object_create_attachment is 0.
NameFree(n) == LiveAtts({n}) = {}

\* midgard_object_create_attachment looks for the name; a COUNT that fails is
\* 0 too.
CreateAttachment(k, n) ==
    /\ AttIdle(k) /\ AttCalled
    /\ \/ NameFree(n) /\ Works(k, [does |-> "insert", name |-> n, seen |-> Len(atts)])
       \/ Works(k, [does |-> "insert", name |-> n, seen |-> 0])
    /\ UNCHANGED <<atts, files, blobdir, invented, held, doubled, givenUp>>

\* The row is stored without a location, and the program gets the instance.
InsertAttachment(k) == \E w \in work[k] :
    /\ w.does = "insert" /\ Len(atts) < MaxAtts
    /\ atts' = Append(atts, [name |-> w.name, loc |-> 0, state |-> "live"])
    /\ held' = [held EXCEPT ![k] = {[row |-> Len(atts) + 1, loc |-> 0]}]
    /\ givenUp' = givenUp \cup LeftBy(k, {})
    /\ doubled' = IF \E i \in LiveAtts({w.name}) : i > w.seen
                  THEN doubled \cup {w.name} ELSE doubled
    /\ AttReturns(k)
    /\ UNCHANGED <<files, blobdir, invented, attCalls>>

\* midgard_object_list_attachments and midgard_object_find_attachments.
FetchAttachment(k) ==
    /\ AttIdle(k)
    /\ \E i \in LiveAtts(AttName) :
           /\ held[k] # {[row |-> i, loc |-> atts[i].loc]}
           /\ held' = [held EXCEPT ![k] = {[row |-> i, loc |-> atts[i].loc]}]
           /\ givenUp' = givenUp \cup LeftBy(k, held'[k])
    /\ UNCHANGED <<atts, files, blobdir, invented, work, doubled, attCalls>>

\* midgard_object_update of the instance writes all its columns; it is refused
\* when the row is purged.  The location the row had is nobody's now.
UpdateAttachment(k) == \E h \in held[k] :
    /\ AttIdle(k) /\ atts[h.row].state # "purged"
    /\ atts[h.row] # [atts[h.row] EXCEPT !.loc = h.loc, !.state = "live"]
    /\ atts' = [atts EXCEPT ![h.row].loc = h.loc, ![h.row].state = "live"]
    /\ doubled' = IF atts[h.row].state = "live" THEN doubled
                  ELSE doubled \cup {atts[h.row].name}
    /\ givenUp' = IF atts[h.row].loc \in {0, h.loc} THEN givenUp
                   ELSE givenUp \cup {atts[h.row].loc}
    /\ UNCHANGED <<files, blobdir, invented, held, work, attCalls>>

-----------------------------------------------------------------------------
(* Blobs *)

\* midgard_blob_new: an instance without a location gets one; without a blob
\* directory there is no blob.
NewBlob(k) == \E h \in held[k] :
    /\ AttIdle(k) /\ blobdir /\ h.loc = 0 /\ invented < MaxLocations
    /\ invented' = invented + 1
    /\ held' = [held EXCEPT ![k] = {[h EXCEPT !.loc = invented']}]
    /\ UNCHANGED <<atts, files, blobdir, work, doubled, givenUp, attCalls>>

\* midgard_blob_write_content.  It may come between the two halves of a purge.
WriteContent(k) == \E h \in held[k] :
    /\ AttIdle(k) /\ blobdir /\ h.loc \notin files \cup {0}
    /\ files' = files \cup {h.loc}
    /\ givenUp' = IF \E j \in Keeper : \E w \in work[j] :
                          w.does = "blob" /\ "file" \notin w.todo /\ NextOf(w).loc = h.loc
                   THEN givenUp \cup {h.loc} ELSE givenUp
    /\ UNCHANGED <<atts, blobdir, invented, held, work, doubled, attCalls>>

\* midgard_blob_remove_file of the instance's blob.
RemoveFile(k) == \E h \in held[k] :
    /\ AttIdle(k) /\ blobdir /\ h.loc \in files
    /\ files' = files \ {h.loc}
    /\ UNCHANGED <<atts, blobdir, invented, held, work, doubled, givenUp, attCalls>>

\* The administrator moves the blob directory away and back.
MoveBlobdir ==
    /\ AttCalled /\ blobdir' = ~blobdir
    /\ UNCHANGED <<atts, files, invented, held, work, doubled, givenUp>>

-----------------------------------------------------------------------------
(* Removing *)

\* Mutant of First: the record is purged before its file is looked for.
First_Row(w) == IF "row" \in w.todo THEN "row" ELSE "file"

\* "Blob on filesystem must be deleted first."
First(w) == IF "file" \in w.todo THEN "file" ELSE "row"

\* midgard_object_delete_attachments and midgard_object_purge_attachments list
\* the rows that are live now.
RemoveAttachments(k, how, names) ==
    /\ AttIdle(k) /\ AttCalled
    /\ LiveAtts(names) # {}
    /\ Works(k, [does |-> how, todo |-> Halves(how),
                 list |-> {[row |-> i, loc |-> atts[i].loc] : i \in LiveAtts(names)}])
    /\ UNCHANGED <<atts, files, blobdir, invented, held, doubled, givenUp>>

\* Mutant of Remaining: the index is not moved.
Remaining_All(w) == {[w EXCEPT !.todo = Halves(w.does)]}

\* The index is moved, or the list ends.
Remaining(w) ==
    IF w.list = {NextOf(w)} THEN {}
    ELSE {[w EXCEPT !.todo = Halves(w.does), !.list = @ \ {NextOf(w)}]}

\* One half is done, or has failed: the other one, or the next attachment.
Goes(k, w, half) ==
    work' = [work EXCEPT ![k] =
                IF w.todo = {half} THEN Remaining(w) ELSE {[w EXCEPT !.todo = @ \ {half}]}]

\* The row goes, or its statement fails; either way the next one is taken.
DeleteNext(k) == \E w \in work[k] :
    /\ w.does = "delete"
    /\ \/ atts' = [atts EXCEPT ![NextOf(w).row].state = IF @ = "live" THEN "deleted" ELSE @]
       \/ UNCHANGED atts
    /\ Goes(k, w, "row")
    /\ UNCHANGED <<files, blobdir, invented, held, doubled, givenUp, attCalls>>

\* Without a blob the file is left where it is; so is the one of a location
\* that the row got after it was listed.
PurgeNext(k) == \E w \in work[k] :
    /\ w.does \in {"purge", "blob"} /\ First(w) = "row"
    /\ LET row == atts[NextOf(w).row] IN
       \/ /\ row.state # "purged"
          /\ atts' = [atts EXCEPT ![NextOf(w).row].state = "purged"]
          /\ givenUp' = IF row.loc # 0 /\ (w.does = "purge" \/ row.loc # NextOf(w).loc)
                         THEN givenUp \cup {row.loc} ELSE givenUp
       \/ UNCHANGED <<atts, givenUp>>
    /\ Goes(k, w, "row")
    /\ UNCHANGED <<files, blobdir, invented, held, doubled, attCalls>>

\* midgard_core_object_parameters_purge_with_blob makes a blob for the next
\* attachment and removes its file; what remove_file answers is not looked at.
\* Without a blob directory it tries the same attachment again, for ever.
RemoveBlob(k) == \E w \in work[k] :
    /\ w.does = "blob" /\ First(w) = "file" /\ blobdir
    /\ \/ files' = files \ {NextOf(w).loc} /\ UNCHANGED givenUp
       \/ /\ NextOf(w).loc \in files
          /\ givenUp' = givenUp \cup {NextOf(w).loc} /\ UNCHANGED files
    /\ Goes(k, w, "file")
    /\ UNCHANGED <<atts, blobdir, invented, held, doubled, attCalls>>

\* The program dies in a call; its instance is gone.
DieWorking(k) ==
    /\ ~AttIdle(k) /\ AttReturns(k)
    /\ held' = [held EXCEPT ![k] = {}]
    /\ givenUp' = givenUp \cup LeftBy(k, {})
    /\ UNCHANGED <<atts, files, blobdir, invented, doubled, attCalls>>

AttsInit ==
    /\ atts = <<>> /\ files = {} /\ blobdir = TRUE /\ invented = 0
    /\ held = [k \in Keeper |-> {}] /\ work = [k \in Keeper |-> {}]
    /\ doubled = {} /\ givenUp = {} /\ attCalls = 0

AttStep(k) == InsertAttachment(k) \/ DeleteNext(k) \/ PurgeNext(k) \/ RemoveBlob(k)

AttsNext ==
    \/ MoveBlobdir
    \/ \E k \in Keeper :
        \/ \E n \in AttName : CreateAttachment(k, n)
        \/ FetchAttachment(k) \/ UpdateAttachment(k)
        \/ NewBlob(k) \/ WriteContent(k) \/ RemoveFile(k)
        \/ \E how \in {"delete", "purge", "blob"}, names \in (SUBSET AttName) \ {{}} :
               RemoveAttachments(k, how, names)
        \/ AttStep(k) \/ DieWorking(k)

AttsSpec == AttsInit /\ [][AttsNext]_attVars

-----------------------------------------------------------------------------
\* Two live attachments of an object have one name only if the second create
\* looked before the first had stored its row, or could not look, or if an
\* update brought a deleted one back (midgard_object_attachment.c, 92-116).
NamesRaced == \A n \in AttName : Cardinality(LiveAtts({n})) > 1 => n \in doubled

\* A file that no row names is one that somebody holds and has not yet stored,
\* or that was given up: by an update, a purge that was to leave it, a
\* remove_file that failed.  Dying in purge_with_blob gives up none
\* (midgard_object_parameter.c, 650-656: the file must be deleted first).
OrphansKnown ==
    \A l \in files \ givenUp :
        Named(l) \/ \E k \in Keeper : \E h \in held[k] : h.loc = l

\* What is stored of attachments, rows and files.
AttachmentsKept == NamesRaced /\ OrphansKnown

\* A call that removes attachments ends, unless the blob directory is missing.
RemovingEnds ==
    \A k \in Keeper : (\E w \in work[k] : w.does # "insert") ~> (~blobdir \/ AttIdle(k))
=============================================================================
