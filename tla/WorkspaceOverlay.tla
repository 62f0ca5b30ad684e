-------------------------- MODULE WorkspaceOverlay --------------------------
(***************************************************************************)
(* What workspaces promise to those who use them, with no word of how.     *)
(*                                                                         *)
(* Workspaces are a tree over 0, the content that is in no workspace.      *)
(* Each has its own layer of an object, or none.  Reading in a context     *)
(* gives the layer of the nearest workspace, up the tree, that has one; a  *)
(* call in a workspace changes the layer of that workspace and no other.   *)
(***************************************************************************)
EXTENDS Naturals

CONSTANTS
    Caller,      \* connections, each of a program of its own
    Guid,        \* objects
    NoGuid,      \* the guid of an instance that has none
    Data,        \* what an object can hold
    Workspace,   \* ids of workspaces, with 0
    Up           \* the parent of each workspace

VARIABLES
    own,         \* the live content each workspace has of its own, for an object
    scope,       \* where each caller works
    mine         \* the instance each caller has: an object and its data

vars == <<own, scope, mine>>

\* A caller works in no workspace, in one workspace, or in the context of one.
Scopes == {[kind |-> "none", id |-> 0]}
              \cup [kind : {"workspace", "context"}, id : Workspace \ {0}]

(***************************************************************************)
(* Reading                                                                 *)
(***************************************************************************)
UpClosed(S) == 0 \in S /\ \A v \in S \ {0} : Up[v] \in S

\* The workspaces from w up to the top, and 0.
Chain(w) == {v \in Workspace : \A S \in SUBSET Workspace : w \in S /\ UpClosed(S) => v \in S}

Reach(s) == IF s.kind = "context" THEN Chain(s.id) ELSE {0, s.id}

\* v has a layer of g, and each workspace of R that has one is v or above v.
Nearest(g, R, v) ==
    /\ v \in R /\ own[g][v] # {}
    /\ \A u \in R : own[g][u] # {} => u \in Chain(v)

\* Without a workspace nothing is hidden: any layer may be the answer.
Shows(s, g) ==
    IF s.kind = "none"
    THEN UNION {own[g][v] : v \in Workspace}
    ELSE UNION {own[g][v] : v \in {u \in Workspace : Nearest(g, Reach(s), u)}}

(***************************************************************************)
(* Actions                                                                 *)
(***************************************************************************)
Init ==
    /\ own = [g \in Guid |-> [w \in Workspace |-> {}]]
    /\ scope = [c \in Caller |-> [kind |-> "none", id |-> 0]]
    /\ mine \in [Caller -> [guid : {NoGuid}, data : Data]]

Enter(c) ==
    /\ \E s \in Scopes : scope' = [scope EXCEPT ![c] = s]
    /\ UNCHANGED <<own, mine>>

Edit(c) ==
    /\ \E d \in Data : mine' = [mine EXCEPT ![c].data = d]
    /\ UNCHANGED <<own, scope>>

Read(c) ==
    /\ \E g \in Guid : \E d \in Shows(scope[c], g) :
           mine' = [mine EXCEPT ![c] = [guid |-> g, data |-> d]]
    /\ UNCHANGED <<own, scope>>

\* A caller begins a new object: its guid has content nowhere.
Begin(c) ==
    /\ mine[c].guid = NoGuid
    /\ \E g \in Guid :
           /\ \A w \in Workspace : own[g][w] = {}
           /\ mine' = [mine EXCEPT ![c].guid = g]
    /\ UNCHANGED <<own, scope>>

\* A caller has nothing any more: a new instance, or the end of its program.
Forget(c) ==
    /\ \E d \in Data : mine' = [mine EXCEPT ![c] = [guid |-> NoGuid, data |-> d]]
    /\ \/ UNCHANGED scope
       \/ scope' = [scope EXCEPT ![c] = [kind |-> "none", id |-> 0]]
    /\ UNCHANGED own

\* A caller writes its data to its workspace, for what was there; if two
\* write at the same time both may stay.
Put(c) ==
    /\ mine[c].guid # NoGuid
    /\ \E old \in {{}, own[mine[c].guid][scope[c].id]} :
           own' = [own EXCEPT ![mine[c].guid][scope[c].id] = old \cup {mine[c].data}]
    /\ UNCHANGED <<scope, mine>>

\* A caller takes the object out of its workspace.
Remove(c) ==
    /\ mine[c].guid # NoGuid
    /\ own' = [own EXCEPT ![mine[c].guid][scope[c].id] = {}]
    /\ UNCHANGED <<scope, mine>>

\* The manager empties a workspace.
Clear(w) ==
    /\ own' = [g \in Guid |-> [own[g] EXCEPT ![w] = {}]]
    /\ UNCHANGED <<scope, mine>>

\* The manager moves the content of a workspace into another one.
Move(src, dest) ==
    /\ own' = [g \in Guid |-> [own[g] EXCEPT ![dest] = @ \cup own[g][src], ![src] = {}]]
    /\ UNCHANGED <<scope, mine>>

Next ==
    \/ \E c \in Caller : \/ Enter(c) \/ Edit(c) \/ Read(c) \/ Begin(c)
                         \/ Forget(c) \/ Put(c) \/ Remove(c)
    \/ \E w \in Workspace \ {0} : Clear(w)
    \/ \E src, dest \in Workspace \ {0} : src # dest /\ Move(src, dest)

Spec == Init /\ [][Next]_vars

=============================================================================
