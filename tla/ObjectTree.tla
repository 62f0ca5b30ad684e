----------------------------- MODULE ObjectTree -----------------------------
(***************************************************************************)
(* The tree of objects (midgard_schema_object_tree.c, the tree parts of    *)
(* midgard_object.c and midgard_core_object_class.c).  Folders are objects *)
(* of a class whose "up" property points to its own class; leaves are what *)
(* belongs to a folder: objects of a child class, parameters, attachments. *)
(* Tables have no foreign keys: the library itself asks, in a statement of *)
(* its own, whether a move closes a circle and whether an object that is   *)
(* to go has dependents.                                                   *)
(*                                                                         *)
(* Writers and readers are processes, each with a connection of its own,   *)
(* so that the mutexes of midgard_object.c do not order them.  A step is   *)
(* one SQL statement with the code before and after it.  Left out: names,  *)
(* the replication log, quota, workspaces, and the other columns.          *)
(***************************************************************************)
EXTENDS Naturals, Sequences, FiniteSets

CONSTANTS
    Writer,     \* processes that create, move, delete and purge
    Reader,     \* processes that ask about the tree
    MaxFolder,  \* bound: folders ever created
    MaxLeaf,    \* bound: leaves ever created
    MaxTreeCalls, \* bound: calls made by all processes
    Unmade,     \* no row has had this id yet
    Purged      \* the row is gone

ASSUME NumberAssumption ==
    MaxFolder \in Nat \ {0} /\ MaxLeaf \in Nat /\ MaxTreeCalls \in Nat

\* Ids are handed out in order and never again; 0 is above the top.
Folder == 1 .. MaxFolder
Leaf == 1 .. MaxLeaf
Id == 0 .. MaxFolder

\* The columns up (of a folder) or parent (of a leaf), and metadata_deleted.
TreeRow == [up : Id, live : BOOLEAN]
ASSUME NoRowAssumption == Unmade \notin TreeRow /\ Purged \notin TreeRow /\ Unmade # Purged

\* An update of folder "at" that was checked and will put it below "to".
\* "heard": the check was answered.  "late" is history: the folders, and in a
\* Removal the leaves, written since the check, its first SELECT.
Move == [at : Folder, to : Id, heard : BOOLEAN, late : SUBSET Folder]

\* A delete or purge of folder "at" that has asked for folders and will ask
\* for leaves next ("leaves"), or has asked for both ("row").
Removal == [at : Folder, purge : BOOLEAN, next : {"leaves", "row"}, heard : BOOLEAN,
            late : SUBSET Folder, lateLeaf : SUBSET Leaf]

\* _midgard_tree_exists that began at "from" and is at "at", looking for root.
\* What became of its last SELECT is history; two words for a failure make one
\* more failing SELECT a step like another.
Outcome == {"answered", "failed", "failed_again"}
Walk == [from : Id, at : Id, root : Id, last : Outcome, late : BOOLEAN]

\* __midgard_tree_get_id_list: what it has listed, and what its loops on the
\* stack have still to list.  "heard" is history: every SELECT was answered.
Listing == [from : Id, list : Seq(Id), todo : Seq(Id), heard : BOOLEAN, late : BOOLEAN]

Maybe(S) == {{}} \cup {{x} : x \in S}

VARIABLES
    folder,   \* the table of folders
    leaf,     \* the table of leaves
    move,     \* the move each writer is in
    removal,  \* the removal each writer is in
    walk,     \* the walk each reader is in
    listing,  \* the listing each reader is in
    answer,   \* what each reader's last walk or listing returned
    treeCalls \* how many calls were made

tables == <<folder, leaf>>
writing == <<move, removal>>
reading == <<walk, listing, answer>>
treeVars == <<folder, leaf, move, removal, walk, listing, answer, treeCalls>>

WritersTypeOK ==
    /\ folder \in [Folder -> TreeRow \cup {Unmade, Purged}]
    /\ leaf \in [Leaf -> TreeRow \cup {Unmade, Purged}]
    /\ move \in [Writer -> Maybe(Move)]
    /\ removal \in [Writer -> Maybe(Removal)]
    /\ \A w \in Writer : move[w] = {} \/ removal[w] = {}

TreeTypeOK ==
    /\ WritersTypeOK
    /\ walk \in [Reader -> Maybe(Walk)]
    /\ \A r \in Reader : \A l \in listing[r] :
          /\ l.from \in Id /\ l.heard \in BOOLEAN /\ l.late \in BOOLEAN
          /\ \A i \in DOMAIN l.list : l.list[i] \in Id
          /\ \A i \in DOMAIN l.todo : l.todo[i] \in Folder
    /\ answer \in [Reader -> {"none", "yes", "no", "list"}]
    /\ treeCalls \in 0 .. MaxTreeCalls

Made(f) == folder[f] # Unmade
Stored(f) == folder[f] \notin {Unmade, Purged}
Live(f) == Stored(f) /\ folder[f].live
LeafLive(l) == leaf[l] \notin {Unmade, Purged} /\ leaf[l].live

\* Live folders and leaves that point to folder f.
ChildFolders(f) == {g \in Folder : Live(g) /\ folder[g].up = f}
ChildLeaves(f) == {l \in Leaf : LeafLive(l) /\ leaf[l].up = f}

Calling == treeCalls < MaxTreeCalls /\ treeCalls' = treeCalls + 1

Idle(w) == move[w] = {} /\ removal[w] = {}

\* Everybody in a call learns that folder f, or leaf l, was written: history.
MovesLate(f, ms) == [w \in Writer |-> {[m EXCEPT !.late = @ \cup {f}] : m \in ms[w]}]
RemovalsLate(f, rs) == [w \in Writer |-> {[m EXCEPT !.late = @ \cup {f}] : m \in rs[w]}]
RemovalsLateLeaf(l) == [w \in Writer |-> {[m EXCEPT !.lateLeaf = @ \cup {l}] : m \in removal[w]}]
ReadersLate ==
    /\ walk' = [r \in Reader |-> {[x EXCEPT !.late = TRUE] : x \in walk[r]}]
    /\ listing' = [r \in Reader |-> {[x EXCEPT !.late = TRUE] : x \in listing[r]}]
    /\ UNCHANGED answer

(***************************************************************************)
(* create                                                                  *)
(***************************************************************************)
\* A new folder below any id: an object without an id is taken for one that
\* cannot close a circle, and nobody asks whether there is a folder "up".
CreateFolder(w) == \E f \in Folder, up \in Id :
    /\ Idle(w) /\ Calling
    /\ ~Made(f) /\ \A g \in 1 .. f - 1 : Made(g)
    /\ folder' = [folder EXCEPT ![f] = [up |-> up, live |-> TRUE]]
    /\ move' = MovesLate(f, move) /\ removal' = RemovalsLate(f, removal)
    /\ ReadersLate
    /\ UNCHANGED leaf

\* A leaf is created or updated below any folder, but not at the top
\* (midgard_core_object_is_valid).
WriteLeaf(w) == \E l \in Leaf, up \in Folder :
    /\ Idle(w) /\ Calling
    /\ \/ leaf[l] = Unmade /\ \A k \in 1 .. l - 1 : leaf[k] # Unmade
       \/ leaf[l] \notin {Unmade, Purged}
    /\ leaf' = [leaf EXCEPT ![l] = [up |-> up, live |-> TRUE]]
    /\ removal' = RemovalsLateLeaf(l)
    /\ UNCHANGED <<folder, move, reading>>

\* Leaves go without a check of their own dependents.
RemoveLeaf(w) == \E l \in Leaf, purge \in BOOLEAN :
    /\ Idle(w) /\ Calling /\ leaf[l] \notin {Unmade, Purged}
    /\ leaf' = [leaf EXCEPT ![l] = IF purge THEN Purged ELSE [@ EXCEPT !.live = FALSE]]
    /\ UNCHANGED <<folder, writing, reading>>

(***************************************************************************)
(* update of a folder                                                      *)
(***************************************************************************)
\* _is_circular: the new parent is among the children; further down nobody
\* looks, and a folder may go below itself.
Circular(f, to) == to \in ChildFolders(f)

\* The check of an update: refused, or passed, or passed because the SELECT
\* failed.  The instance is of a folder that was there when it was fetched.
StartMove(w) == \E f \in Folder, to \in Id, heard \in BOOLEAN :
    /\ Idle(w) /\ Calling /\ Made(f)
    /\ move' = [move EXCEPT ![w] = IF heard /\ Circular(f, to) THEN {}
            ELSE {[at |-> f, to |-> to, heard |-> heard, late |-> {}]}]
    /\ UNCHANGED <<tables, removal, reading>>

\* The UPDATE: every column of the instance, which was not deleted when it
\* was fetched.  A purged folder stays so: 0 rows, MGD_ERR_NOT_EXISTS.
EndMove(w) == \E m \in move[w] :
    LET rest == [move EXCEPT ![w] = {}] IN
    /\ IF Stored(m.at)
       THEN /\ folder' = [folder EXCEPT ![m.at] = [up |-> m.to, live |-> TRUE]]
            /\ move' = MovesLate(m.at, rest) /\ removal' = RemovalsLate(m.at, removal)
            /\ ReadersLate
       ELSE /\ move' = rest
            /\ UNCHANGED <<folder, removal, reading>>
    /\ UNCHANGED <<leaf, treeCalls>>

(***************************************************************************)
(* delete and purge of a folder                                            *)
(***************************************************************************)
\* The row goes, or is marked.  For delete, marking nothing is a success.
Removes(f, purge) ==
    folder' = IF ~Stored(f) THEN folder
              ELSE [folder EXCEPT ![f] = IF purge THEN Purged ELSE [@ EXCEPT !.live = FALSE]]

\* check_dependents is FALSE.
RemoveUnchecked(w) == \E f \in Folder, purge \in BOOLEAN :
    /\ Idle(w) /\ Calling /\ Made(f)
    /\ Removes(f, purge)
    /\ move' = MovesLate(f, move) /\ removal' = RemovalsLate(f, removal)
    /\ ReadersLate
    /\ UNCHANGED leaf

\* midgard_core_object_has_dependents of the folder's own class; a SELECT
\* that fails counts none.
StartRemoval(w) == \E f \in Folder, purge, heard \in BOOLEAN :
    /\ Idle(w) /\ Calling /\ Made(f)
    /\ removal' = [removal EXCEPT ![w] = IF heard /\ ChildFolders(f) # {} THEN {}
            ELSE {[at |-> f, purge |-> purge, next |-> "leaves", heard |-> heard,
                   late |-> {}, lateLeaf |-> {}]}]
    /\ UNCHANGED <<tables, move, reading>>

\* Mutant of LeavesKeep: the child classes are not asked for.
LeavesKeep_Never(m) == FALSE

\* Child classes, parameters and attachments are asked for.
LeavesKeep(m) == ChildLeaves(m.at) # {}

AskLeaves(w) == \E m \in removal[w], heard \in BOOLEAN :
    /\ m.next = "leaves"
    /\ removal' = [removal EXCEPT ![w] = IF heard /\ LeavesKeep(m) THEN {}
            ELSE {[m EXCEPT !.next = "row", !.heard = @ /\ heard]}]
    /\ UNCHANGED <<tables, move, reading, treeCalls>>

EndRemoval(w) == \E m \in removal[w] :
    /\ m.next = "row"
    /\ Removes(m.at, m.purge)
    /\ removal' = RemovalsLate(m.at, [removal EXCEPT ![w] = {}])
    /\ move' = MovesLate(m.at, move)
    /\ ReadersLate
    /\ UNCHANGED <<leaf, treeCalls>>

(***************************************************************************)
(* midgard_schema_object_tree_is_in_tree                                   *)
(***************************************************************************)
Reads(r) == walk[r] = {} /\ listing[r] = {} /\ Calling

\* Is folder f below the folder "root"?
StartWalk(r) == \E f \in Folder, root \in Id :
    /\ Reads(r) /\ Made(f) /\ (root # 0 => Made(root))
    /\ walk' = [walk EXCEPT ![r] = {[from |-> f, at |-> f, root |-> root,
                                     last |-> "answered", late |-> FALSE]}]
    /\ answer' = [answer EXCEPT ![r] = "none"]
    /\ UNCHANGED <<tables, writing, listing>>

\* midgard_object_is_in_parent_tree: of a leaf, its parent is read first.
StartWalkOfLeaf(r) == \E l \in Leaf, root \in Id, heard \in BOOLEAN :
    LET p == IF heard /\ leaf[l] \notin {Unmade, Purged} THEN leaf[l].up ELSE 0 IN
    /\ Reads(r) /\ leaf[l] # Unmade /\ (root # 0 => Made(root))
    /\ walk' = [walk EXCEPT ![r] = IF p \in {0, root} THEN {}
            ELSE {[from |-> p, at |-> p, root |-> root, last |-> "answered", late |-> FALSE]}]
    /\ answer' = [answer EXCEPT ![r] =
            IF p = 0 THEN "no" ELSE IF p = root THEN "yes" ELSE "none"]
    /\ UNCHANGED <<tables, writing, listing>>

\* Mutant of Above: the SELECT leaves out deleted folders.
Above_Live(f, heard) == IF heard /\ Live(f) THEN folder[f].up ELSE f

\* What the SELECT of a folder's up leaves in _id: of one that is not there,
\* or when it fails, what was there.
Above(f, heard) == IF heard /\ Stored(f) THEN folder[f].up ELSE f

After(k, heard) ==
    IF heard THEN "answered" ELSE IF k.last = "failed" THEN "failed_again" ELSE "failed"

\* Mutant of StepUp: the top is tested before the folder it was asked for.
StepUp_TopFirst(r, heard) == \E k \in walk[r] :
    LET up == Above(k.at, heard) IN
    /\ walk' = [walk EXCEPT ![r] =
            IF up \in {0, k.root} THEN {} ELSE {[k EXCEPT !.at = up, !.last = After(k, heard)]}]
    /\ answer' = [answer EXCEPT ![r] =
            IF up = 0 THEN "no" ELSE IF up = k.root THEN "yes" ELSE @]
    /\ UNCHANGED <<tables, writing, listing, treeCalls>>

\* The root is compared before the top: everything is below "root" 0.
StepUp(r, heard) == \E k \in walk[r] :
    LET up == Above(k.at, heard) IN
    /\ walk' = [walk EXCEPT ![r] =
            IF up \in {0, k.root} THEN {} ELSE {[k EXCEPT !.at = up, !.last = After(k, heard)]}]
    /\ answer' = [answer EXCEPT ![r] =
            IF up = k.root THEN "yes" ELSE IF up = 0 THEN "no" ELSE @]
    /\ UNCHANGED <<tables, writing, listing, treeCalls>>

(***************************************************************************)
(* The INTREE operator of queries                                          *)
(***************************************************************************)
\* Folders below f, deleted ones too, in the order of their ids.
Below(f) ==
    LET upto[g \in 0 .. MaxFolder] ==
            IF g = 0 THEN <<>>
            ELSE IF Stored(g) /\ folder[g].up = f THEN Append(upto[g - 1], g) ELSE upto[g - 1]
    IN  upto[MaxFolder]

\* The query is given any id.  A SELECT that fails lists nothing.
Found(f, heard) == IF heard THEN Below(f) ELSE <<>>

StartList(r) == \E f \in Id, heard \in BOOLEAN :
    /\ Reads(r)
    /\ listing' = [listing EXCEPT ![r] =
            {[from |-> f, list |-> <<f>>, todo |-> Found(f, heard), heard |-> heard, late |-> FALSE]}]
    /\ answer' = [answer EXCEPT ![r] = "none"]
    /\ UNCHANGED <<tables, writing, walk>>

\* Mutant of Deeper: one level is listed.
Deeper_Skip(t, heard) == Tail(t)

\* The next folder is listed, and those below it are listed before the rest.
Deeper(t, heard) == Found(Head(t), heard) \o Tail(t)

\* With a circle the recursion ends when the stack does; the model goes a
\* folder further than there are.
ListNext(r) == \E k \in listing[r], heard \in BOOLEAN :
    /\ k.todo # <<>> /\ Len(k.list) <= MaxFolder + 1
    /\ listing' = [listing EXCEPT ![r] =
            {[k EXCEPT !.list = Append(@, Head(k.todo)), !.todo = Deeper(k.todo, heard),
                       !.heard = @ /\ heard]}]
    /\ UNCHANGED <<tables, writing, walk, answer, treeCalls>>

ListEnds(r) == \E k \in listing[r] :
    /\ k.todo = <<>>
    /\ listing' = [listing EXCEPT ![r] = {}]
    /\ answer' = [answer EXCEPT ![r] = "list"]
    /\ UNCHANGED <<tables, writing, walk, treeCalls>>

TreeNext ==
    \/ \E w \in Writer :
          \/ CreateFolder(w) \/ WriteLeaf(w) \/ RemoveLeaf(w)
          \/ StartMove(w) \/ EndMove(w)
          \/ RemoveUnchecked(w) \/ StartRemoval(w) \/ AskLeaves(w) \/ EndRemoval(w)
    \/ \E r \in Reader :
          \/ StartWalk(r) \/ StartWalkOfLeaf(r) \/ \E heard \in BOOLEAN : StepUp(r, heard)
          \/ StartList(r) \/ ListNext(r) \/ ListEnds(r)

TreeInit ==
    /\ folder = [f \in Folder |-> Unmade]
    /\ leaf = [l \in Leaf |-> Unmade]
    /\ move = [w \in Writer |-> {}]
    /\ removal = [w \in Writer |-> {}]
    /\ walk = [r \in Reader |-> {}]
    /\ listing = [r \in Reader |-> {}]
    /\ answer = [r \in Reader |-> "none"]
    /\ treeCalls = 0

\* A reader that asks goes on asking, whether or not it is answered.
TreeSpec ==
    /\ TreeInit /\ [][TreeNext]_treeVars
    /\ \A r \in Reader : WF_treeVars(\E heard \in BOOLEAN : StepUp(r, heard))

(***************************************************************************)
(* Properties                                                              *)
(***************************************************************************)
Pair(f, g) == f # g /\ Live(f) /\ Live(g) /\ folder[f].up = g /\ folder[g].up = f

\* "Circular reference found in object's tree" (midgard_error.h 57), as far as
\* _is_circular goes: two live folders come to be below each other only if
\* one of them was written after the check of the other's move, or the check
\* got no answer, or one is made now and the other was put below its id
\* before: create checks nothing, and nobody asks whether a parent is there.
PairsRaced == [][\A f, g \in Folder :
    (Pair(f, g)' /\ ~Pair(f, g)) =>
        \/ ~Made(f) \/ ~Made(g)
        \/ \E w \in Writer : \E m \in move[w] :
              /\ move'[w] = {} /\ {m.at, m.to} = {f, g}
              /\ m.to \in m.late \/ ~m.heard]_treeVars

\* "There are still dependent objects in database (MGD_ERR_HAS_DEPENDANTS)"
\* (midgard_object.c 3061): a folder that was checked and goes leaves nothing
\* live below it but what was stored there since its check began.
LeftBehind == [][\A w \in Writer : \A m \in removal[w] :
    (removal'[w] = {} /\ m.next = "row" /\ m.heard /\ Live(m.at) /\ ~Live(m.at)') =>
        ChildFolders(m.at) \subseteq m.late /\ ChildLeaves(m.at) \subseteq m.lateLeaf]_treeVars

\* What the checks of a move and of a removal promise, together.
ChecksHold == PairsRaced /\ LeftBehind

\* Where one gets from folder f in n steps up, over rows that are there.
Ups(f) ==
    LET up[n \in 0 .. MaxFolder + 1] ==
            IF n = 0 THEN {f}
            ELSE {folder[g].up : g \in {h \in up[n - 1] \ {0} : Stored(h)}}
    IN  up

Ancestors(f) == UNION {Ups(f)[n] : n \in 1 .. MaxFolder + 1}

\* If nobody wrote a folder meanwhile, is_in_tree says whether the folder is
\* below the other one, however many of its SELECTs fail on the way; only the
\* first one of a folder that is asked about itself says "yes" by failing.
AnswersRight == [][\A r \in Reader : \A k \in walk[r] :
    (walk'[r] = {} /\ ~k.late /\ Stored(k.from)) =>
        /\ answer'[r] = "yes" => k.root \in Ancestors(k.from) \/ k.at = k.root
        /\ k.root \in Ancestors(k.from) => answer'[r] = "yes"]_treeVars

\* If nobody wrote a folder meanwhile, what INTREE lists is the folder and all
\* that are below it, each once; folders are missing, and none is too many,
\* only if a SELECT failed.
ListsRight == \A r \in Reader : \A k \in listing[r] :
    (k.todo = <<>> /\ ~k.late) =>
        LET listed == {k.list[i] : i \in DOMAIN k.list}
            below == {k.from} \cup {g \in Folder : Stored(g) /\ k.from \in Ancestors(g)}
        IN  /\ listed \subseteq below
            /\ k.heard => /\ listed = below
                          /\ \A i, j \in DOMAIN k.list : k.list[i] = k.list[j] => i = j

\* A walk ends, however folders are moved meanwhile, unless it comes to
\* folders that do not lead to the top (a circle, or one that is not there),
\* or from some time on every SELECT fails: the loop has no other end.
Adrift(f) == 0 \notin Ancestors(f)
Unanswered(r) == \E k \in walk[r] : k.last # "answered"

WalksEnd == \A r \in Reader :
    (walk[r] # {}) ~> (walk[r] = {} \/ (\E k \in walk[r] : Adrift(k.at)) \/ []Unanswered(r))

\* "Circular reference found in object's tree", said of the tree.
NoCircle == \A f \in Folder : Live(f) => f \notin Ancestors(f)

=============================================================================
