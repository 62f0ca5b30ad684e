----------------------- MODULE WorkspaceContentProofs -----------------------
(***************************************************************************)
(* Proofs about WorkspaceContent, for every tree of workspaces in which a  *)
(* parent has a smaller id, and any number of callers, objects and calls.  *)
(***************************************************************************)
EXTENDS WorkspaceContent, TLAPS

(***************************************************************************)
(* The largest id is the nearest workspace.                                *)
(***************************************************************************)
\* w is in its own chain, and so is 0.
LEMMA ChainEnds ==
    ASSUME NEW w \in Workspace
    PROVE  w \in Overlay!Chain(w) /\ 0 \in Overlay!Chain(w)
BY TreeAssumption DEF Overlay!Chain, Overlay!UpClosed

\* With a workspace, its parent is in the chain.
LEMMA ChainClosed ==
    ASSUME NEW w \in Workspace, NEW v \in Overlay!Chain(w), v # 0
    PROVE  Up[v] \in Overlay!Chain(w)
BY TreeAssumption DEF Overlay!Chain, Overlay!UpClosed

\* A chain is the least closed set: it is in every other one with w.
LEMMA ChainLeast ==
    ASSUME NEW w \in Workspace, NEW S \in SUBSET Workspace, w \in S, Overlay!UpClosed(S)
    PROVE  Overlay!Chain(w) \subseteq S
BY DEF Overlay!Chain

\* Nothing in the chain of w is larger than w.
LEMMA ChainBelow ==
    ASSUME NEW w \in Workspace, NEW v \in Overlay!Chain(w)
    PROVE  v \in Workspace /\ v \in Nat /\ w \in Nat /\ v <= w
<1> DEFINE S == {u \in Workspace : u <= w}
<1>1. w \in S /\ S \in SUBSET Workspace
  BY TreeAssumption
<1>2. 0 \in S
  BY TreeAssumption
<1>3. ASSUME NEW u \in S \ {0} PROVE Up[u] \in S
  <2>1. Up[u] \in Workspace /\ Up[u] < u /\ u <= w
    BY <1>3, TreeAssumption
  <2>2. Up[u] \in Nat /\ u \in Nat /\ w \in Nat
    BY <1>3, <2>1, TreeAssumption
  <2> QED BY <2>1, <2>2
<1>4. Overlay!UpClosed(S)
  BY <1>2, <1>3 DEF Overlay!UpClosed
<1>5. v \in S
  BY <1>1, <1>4, ChainLeast
<1> QED BY <1>5, TreeAssumption

\* The chain of v is v and the chain of its parent.
LEMMA ChainStep ==
    ASSUME NEW v \in Workspace \ {0}
    PROVE  Overlay!Chain(v) \subseteq {v} \cup Overlay!Chain(Up[v])
<1> DEFINE S == {v} \cup Overlay!Chain(Up[v])
<1>1. Up[v] \in Workspace
  BY TreeAssumption
<1>2. S \in SUBSET Workspace
  BY DEF Overlay!Chain
<1>3. 0 \in S /\ Up[v] \in S
  BY <1>1, ChainEnds
<1>4. ASSUME NEW u \in S \ {0} PROVE Up[u] \in S
  BY <1>1, <1>3, <1>4, ChainClosed
<1> HIDE DEF S
<1>5. Overlay!UpClosed(S)
  BY <1>3, <1>4 DEF Overlay!UpClosed
<1>6. v \in S
  BY DEF S
<1>7. Overlay!Chain(v) \subseteq S
  BY <1>2, <1>5, <1>6, ChainLeast
<1> QED BY <1>7 DEF S

\* Of two workspaces on one chain, the smaller is on the chain of the larger.
LEMMA ChainOrder ==
    ASSUME NEW w \in Workspace, NEW u \in Overlay!Chain(w), NEW v \in Overlay!Chain(w),
           u <= v
    PROVE  u \in Overlay!Chain(v)
<1> DEFINE T == {x \in Overlay!Chain(w) : \A y \in Overlay!Chain(w) : y <= x => y \in Overlay!Chain(x)}
<1>1. T \in SUBSET Workspace
  BY DEF Overlay!Chain
<1>2. w \in T
  BY ChainEnds
<1>3. 0 \in T
  <2>1. ASSUME NEW y \in Overlay!Chain(w), y <= 0 PROVE y \in Overlay!Chain(0)
    <3>1. y = 0
      BY <2>1, ChainBelow
    <3> QED BY <3>1, ChainEnds, TreeAssumption
  <2> QED BY <2>1, ChainEnds
<1>4. ASSUME NEW x \in T \ {0} PROVE Up[x] \in T
  <2>1. x \in Overlay!Chain(w) /\ x \in Workspace \ {0} /\ x \in Nat
    BY <1>4, ChainBelow
  <2>2. Up[x] \in Overlay!Chain(w)
    BY <1>4, <2>1, ChainClosed
  <2>3. Up[x] < x /\ Up[x] \in Nat
    BY <2>1, TreeAssumption
  <2>4. ASSUME NEW y \in Overlay!Chain(w), y <= Up[x] PROVE y \in Overlay!Chain(Up[x])
    <3>1. y \in Nat
      BY ChainBelow
    <3>2. y <= x /\ y # x
      BY <2>1, <2>3, <2>4, <3>1
    <3>3. y \in Overlay!Chain(x)
      BY <1>4, <3>2
    <3> QED BY <2>1, <3>2, <3>3, ChainStep
  <2> QED BY <2>2, <2>4
<1> HIDE DEF T
<1>5. Overlay!UpClosed(T)
  BY <1>3, <1>4 DEF Overlay!UpClosed
<1>6. v \in T
  BY <1>1, <1>2, <1>5, ChainLeast
<1> QED BY <1>6 DEF T

\* The ids of a query are the reach of its scope: the walk up the tree meets
\* the chain, without 0.
LEMMA IdsAreReach ==
    ASSUME NEW s \in Scopes
    PROVE  Ids(s) = Overlay!Reach(s) /\ Ids(s) \subseteq Workspace
<1>1. s.id \in Workspace
  BY TreeAssumption DEF Scopes, NoScope
<1>2. CASE s.kind # "context"
  BY <1>1, <1>2, TreeAssumption DEF Ids, Overlay!Reach
<1>3. CASE s.kind = "context"
  <2> DEFINE w == s.id
  <2>1. ASSUME NEW v \in ContextIds(w) PROVE v \in Overlay!Chain(w)
    BY <2>1 DEF ContextIds, Overlay!Chain, Overlay!UpClosed
  <2>2. ASSUME NEW v \in Overlay!Chain(w), v # 0 PROVE v \in ContextIds(w)
    <3>1. v \in Workspace \ {0}
      BY <2>2 DEF Overlay!Chain
    <3>2. ASSUME NEW S \in SUBSET Workspace, w \in S, \A u \in S \ {0} : Up[u] \in S
          PROVE  v \in S
      <4>1. Overlay!UpClosed(S \cup {0})
        BY <3>2 DEF Overlay!UpClosed
      <4>2. S \cup {0} \in SUBSET Workspace /\ w \in S \cup {0}
        BY <3>2, TreeAssumption
      <4> QED BY <1>1, <2>2, <4>1, <4>2, ChainLeast
    <3> QED BY <3>1, <3>2 DEF ContextIds
  <2>3. 0 \in Overlay!Chain(w)
    BY <1>1, ChainEnds
  <2>4. Ids(s) = {0} \cup ContextIds(w) /\ Overlay!Reach(s) = Overlay!Chain(w)
    BY <1>3 DEF Ids, Overlay!Reach
  <2>5. ContextIds(w) \subseteq Workspace
    BY DEF ContextIds
  <2> QED BY <2>1, <2>2, <2>3, <2>4, <2>5, TreeAssumption
<1> QED BY <1>2, <1>3

\* The ids of a scope lie on one chain, and its own id is the largest.
LEMMA ReachOrder ==
    ASSUME NEW s \in Scopes
    PROVE  /\ s.id \in Overlay!Reach(s)
           /\ \A u \in Overlay!Reach(s) : u \in Nat /\ s.id \in Nat /\ u <= s.id
           /\ \A u, v \in Overlay!Reach(s) : u \in Overlay!Chain(v) <=> u <= v
<1>1. s.id \in Workspace /\ s.id \in Nat
  <2>1. s.id \in Workspace
    BY TreeAssumption DEF Scopes, NoScope
  <2> QED BY <2>1, TreeAssumption
<1>2. Overlay!Reach(s) \subseteq Overlay!Chain(s.id) /\ s.id \in Overlay!Reach(s)
  BY <1>1, ChainEnds DEF Overlay!Reach
<1>3. ASSUME NEW u \in Overlay!Reach(s) PROVE u \in Workspace /\ u \in Nat /\ u <= s.id
  BY <1>1, <1>2, ChainBelow
<1>4. ASSUME NEW u \in Overlay!Reach(s), NEW v \in Overlay!Reach(s)
      PROVE  u \in Overlay!Chain(v) <=> u <= v
  BY <1>1, <1>2, <1>3, ChainBelow, ChainOrder
<1> QED BY <1>1, <1>2, <1>3, <1>4

\* A workspace has content of its own exactly if it has live records.
LEMMA LayerOfLive ==
    ASSUME NEW g \in Guid, NEW w \in Workspace
    PROVE  Layers[g][w] = Layer(g, w) /\ (Layer(g, w) = {} <=> LiveCopies(g, w) = {})
BY DEF Layers, Layer

\* The workspace with the largest id among those of a scope that have live
\* records of an object is the nearest one: MAX(midgard_ws_id) is right because
\* a parent has a smaller id than its children.
LEMMA LargestIsNearest ==
    ASSUME NEW s \in Scopes, NEW g \in Guid
    PROVE  Largest(g, Ids(s)) = {w \in Workspace : Overlay!Nearest(g, Overlay!Reach(s), w)}
<1> DEFINE R == Overlay!Reach(s)
<1>1. Ids(s) = R /\ R \subseteq Workspace
  BY IdsAreReach
<1>2. \A u, v \in R : u \in Overlay!Chain(v) <=> u <= v
  BY ReachOrder
<1>3. \A w \in R : Layers[g][w] = {} <=> LiveCopies(g, w) = {}
  BY <1>1, LayerOfLive
<1> HIDE DEF R
<1>4. Largest(g, R) = {w \in Workspace : Overlay!Nearest(g, R, w)}
  BY <1>1, <1>2, <1>3 DEF Largest, Overlay!Nearest
<1> QED BY <1>1, <1>4 DEF R

\* What a query returns is what the scope shows of an object: the content of
\* the nearest workspace that has some (all content when no workspace is set).
THEOREM NearestFound == \A s \in Scopes, g \in Guid : Found(s, g) = Overlay!Shows(s, g)
<1> SUFFICES ASSUME NEW s \in Scopes, NEW g \in Guid
             PROVE  Found(s, g) = Overlay!Shows(s, g)
  OBVIOUS
<1>1. CASE s.kind = "none"
  BY <1>1, LayerOfLive DEF Found, FoundIn, Overlay!Shows
<1>2. CASE s.kind # "none"
  <2> DEFINE L == Largest(g, Ids(s))
  <2>1. L = {u \in Workspace : Overlay!Nearest(g, Overlay!Reach(s), u)}
    BY LargestIsNearest
  <2>2. L \subseteq Workspace
    BY <2>1
  <2>3. Found(s, g) = UNION {Layer(g, w) : w \in L}
    BY <1>2 DEF Found, FoundIn
  <2>4. Overlay!Shows(s, g) = UNION {Layers[g][v] : v \in L}
    BY <1>2, <2>1 DEF Overlay!Shows
  <2> HIDE DEF L
  <2>5. {Layer(g, w) : w \in L} = {Layers[g][v] : v \in L}
    BY <2>2, LayerOfLive
  <2> QED BY <2>3, <2>4, <2>5
<1> QED BY <1>1, <1>2

(***************************************************************************)
(* Types                                                                   *)
(***************************************************************************)
\* A function on the indices of a sequence is a sequence of the same length.
LEMMA SameDomain ==
    ASSUME NEW S, NEW T, NEW s \in Seq(S), NEW f \in [DOMAIN s -> T]
    PROVE  f \in Seq(T) /\ Len(f) = Len(s) /\ DOMAIN f = DOMAIN s
<1>1. DOMAIN s = 1 .. Len(s) /\ Len(s) \in Nat
  OBVIOUS
<1> QED BY <1>1

\* In a call, the pair a caller works on is a guid and a workspace.
LEMMA PairTypes ==
    ASSUME TypeOK, NEW c \in Caller
    PROVE  /\ scope[c] \in Scopes /\ scope[c].id \in Workspace
           /\ pc[c] # "idle" => /\ obj[c].guid \in Guid
                                /\ PairOf(c) \in Guid \X Workspace
                                /\ CopiesAt(c) \in Seq(Copy)
                                /\ LogAt(c) \in Seq(Action)
<1>1. scope[c] \in Scopes
  BY DEF TypeOK
<1>2. scope[c].id \in Workspace
  BY <1>1, TreeAssumption DEF Scopes, NoScope
<1>3. ASSUME pc[c] # "idle" PROVE obj[c].guid \in Guid
  BY <1>3 DEF TypeOK, Instance
<1> QED BY <1>1, <1>2, <1>3 DEF TypeOK, PairOf, CopiesAt, LogAt

\* A statement on the class's table writes the records of one pair.
LEMMA CopiesWritten ==
    ASSUME TypeOK, NEW c \in Caller, pc[c] # "idle", NEW s \in Seq(Copy), SetCopies(c, s)
    PROVE  /\ copies' \in [Guid -> [Workspace -> Seq(Copy)]]
           /\ \A g \in Guid, w \in Workspace :
                  copies'[g][w] = IF <<g, w>> = PairOf(c) THEN s ELSE copies[g][w]
<1>1. obj[c].guid \in Guid /\ scope[c].id \in Workspace
  BY PairTypes
<1>2. copies \in [Guid -> [Workspace -> Seq(Copy)]]
  BY DEF TypeOK
<1> QED BY <1>1, <1>2 DEF SetCopies, PairOf

\* A statement on repligard writes the log of one pair.
LEMMA LogWritten ==
    ASSUME TypeOK, NEW c \in Caller, pc[c] # "idle", NEW s \in Seq(Action), SetLog(c, s)
    PROVE  /\ repl' \in [Guid -> [Workspace -> Seq(Action)]]
           /\ \A g \in Guid, w \in Workspace :
                  repl'[g][w] = IF <<g, w>> = PairOf(c) THEN s ELSE repl[g][w]
<1>1. obj[c].guid \in Guid /\ scope[c].id \in Workspace
  BY PairTypes
<1>2. repl \in [Guid -> [Workspace -> Seq(Action)]]
  BY DEF TypeOK
<1> QED BY <1>1, <1>2 DEF SetLog, PairOf

\* The records an update or a delete leaves: as many as there were.
LEMMA RewrittenCopies ==
    ASSUME TypeOK, NEW c \in Caller, pc[c] # "idle"
    PROVE  /\ CopyOf(obj[c]) \in Copy
           /\ LET s == [i \in DOMAIN CopiesAt(c) |-> CopyOf(obj[c])]
              IN  s \in Seq(Copy) /\ Len(s) = Len(CopiesAt(c)) /\ DOMAIN s = DOMAIN CopiesAt(c)
           /\ LET s == [i \in DOMAIN CopiesAt(c) |-> [CopiesAt(c)[i] EXCEPT !.deleted = TRUE]]
              IN  s \in Seq(Copy) /\ Len(s) = Len(CopiesAt(c)) /\ DOMAIN s = DOMAIN CopiesAt(c)
<1>1. CopyOf(obj[c]) \in Copy
  BY DEF TypeOK, CopyOf, Copy, Instance
<1>2. CopiesAt(c) \in Seq(Copy)
  BY PairTypes
<1>3. [i \in DOMAIN CopiesAt(c) |-> CopyOf(obj[c])] \in [DOMAIN CopiesAt(c) -> Copy]
  BY <1>1
<1>4. ASSUME NEW i \in DOMAIN CopiesAt(c)
      PROVE  [CopiesAt(c)[i] EXCEPT !.deleted = TRUE] \in Copy
  <2>1. CopiesAt(c)[i] \in Copy
    BY <1>2
  <2> QED BY <2>1 DEF Copy
<1>5. [i \in DOMAIN CopiesAt(c) |-> [CopiesAt(c)[i] EXCEPT !.deleted = TRUE]]
          \in [DOMAIN CopiesAt(c) -> Copy]
  BY <1>4
<1> QED BY <1>1, <1>2, <1>3, <1>5, SameDomain

\* The history of a write has its type.
LEMMA WroteTypes ==
    ASSUME TypeOK, NEW c \in Caller, pc[c] # "idle", Wrote(c)
    PROVE  sure' \in [Caller -> Claim] /\ loose' \in SUBSET (Guid \X Workspace)
BY PairTypes DEF TypeOK, Wrote, Claim

\* A new instance is one.
LEMMA FreshTypes ==
    ASSUME NEW d \in Data
    PROVE  Fresh(d) \in Instance
BY DEF Fresh, Instance

\* A call that starts keeps the types of what it changes.
LEMMA StartTypes ==
    ASSUME TypeOK, NEW c \in Caller, NEW step \in Step, NEW claim \in Claim,
           Start(c, step, claim)
    PROVE  /\ pc' = [pc EXCEPT ![c] = step] /\ pc' \in [Caller -> Step]
           /\ sure' \in [Caller -> Claim]
           /\ calls' \in 0 .. MaxCalls
           /\ UNCHANGED <<copies, repl, scope>>
BY BoundAssumption DEF TypeOK, Start, Goto, db

\* Every step keeps the types.
LEMMA TypeStep == TypeOK /\ [Next]_vars => TypeOK'
<1> SUFFICES ASSUME TypeOK, [Next]_vars PROVE TypeOK'
  OBVIOUS
<1> USE BoundAssumption DEF TypeOK, db
<1>1. CASE UNCHANGED vars
  BY <1>1 DEF vars
<1>2. ASSUME NEW c \in Caller, Between(c) PROVE TypeOK'
  <2>1. ASSUME NEW s \in Scopes, SetWorkspace(c, s) PROVE TypeOK'
    BY <2>1 DEF SetWorkspace, Idle, Claim
  <2>2. ASSUME NEW d \in Data, New(c, d) \/ SetData(c, d) PROVE TypeOK'
    <3>1. PICK o \in Instance : obj' = [obj EXCEPT ![c] = o]
      <4>1. CASE New(c, d)
        BY <4>1, FreshTypes DEF New
      <4>2. CASE SetData(c, d)
        <5>1. [obj[c] EXCEPT !.data = d] \in Instance
          BY DEF Instance
        <5>2. obj' = [obj EXCEPT ![c] = [obj[c] EXCEPT !.data = d]]
          BY <4>2 DEF SetData
        <5> QED BY <5>1, <5>2
      <4> QED BY <2>2, <4>1, <4>2
    <3>2. Idle(c) /\ UNCHANGED scope
      BY <2>2 DEF New, SetData
    <3> QED BY <3>1, <3>2 DEF Idle, Claim
  <2>3. ASSUME NEW g \in Guid, Fetch(c, g) PROVE TypeOK'
    <3>1. PICK d \in Found(scope[c], g) :
              obj' = [obj EXCEPT ![c] = [guid |-> g, data |-> d, deleted |-> FALSE, stored |-> TRUE]]
      BY <2>3 DEF Fetch
    <3>2. d \in Data
      <4>1. FoundIn(scope[c], g) \subseteq Workspace
        BY IdsAreReach DEF FoundIn, Largest
      <4>2. ASSUME NEW w \in Workspace PROVE Layer(g, w) \subseteq Data
        <5>1. \A i \in DOMAIN copies[g][w] : copies[g][w][i] \in Copy
          OBVIOUS
        <5> QED BY <5>1 DEF Layer, LiveCopies, Copy
      <4> QED BY <3>1, <4>1, <4>2 DEF Found
    <3> QED BY <2>3, <3>1, <3>2 DEF Fetch, Idle, Claim, Instance
  <2> QED BY <1>2, <2>1, <2>2, <2>3 DEF Between
<1>3. ASSUME NEW c \in Caller, Calls(c) PROVE TypeOK'
  <2>1. CASE CreateCall(c)
    <3>1. PICK g \in Guid : obj' = [obj EXCEPT ![c].guid = g]
      BY <2>1 DEF CreateCall
    <3>2. obj' \in [Caller -> Instance] /\ obj'[c].guid = g
      BY <3>1 DEF Instance
    <3>3. /\ pc' = [pc EXCEPT ![c] = "insert"] /\ pc' \in [Caller -> Step]
          /\ sure' \in [Caller -> Claim]
          /\ calls' \in 0 .. MaxCalls
          /\ UNCHANGED <<copies, repl, scope>>
      BY <2>1, StartTypes DEF CreateCall, Step, Claim
    <3> QED BY <2>1, <3>1, <3>2, <3>3, NullAssumption DEF CreateCall
  <2>2. CASE CreateAgain(c)
    <3>1. PairOf(c) \in Guid \X Workspace
      BY <2>2, PairTypes DEF CreateAgain, PairOf, Instance
    <3> QED BY <2>2, <3>1 DEF CreateAgain, Start, Goto, Step, Claim
  <2>3. CASE Call(c)
    <3>1. PICK step \in Step : Start(c, step, "alone")
      BY <2>3 DEF Call, Step
    <3>2. /\ pc' = [pc EXCEPT ![c] = step] /\ pc' \in [Caller -> Step]
          /\ sure' \in [Caller -> Claim]
          /\ calls' \in 0 .. MaxCalls
          /\ UNCHANGED <<copies, repl, scope>>
      BY <3>1, StartTypes DEF Claim
    <3> QED BY <2>3, <3>2 DEF Call
  <2>4. ASSUME NEW w \in Workspace, PurgeContent(c, w) PROVE TypeOK'
    <3>1. copies' \in [Guid -> [Workspace -> Seq(Copy)]]
      BY <2>4 DEF PurgeContent
    <3>2. loose' \in SUBSET (Guid \X Workspace)
      BY <2>4 DEF PurgeContent, Stocked
    <3> QED BY <2>4, <3>1, <3>2 DEF PurgeContent, Managed, Claim
  <2>5. ASSUME NEW src \in Workspace, NEW dest \in Workspace, MoveContent(c, src, dest)
        PROVE  TypeOK'
    <3>1. copies' \in [Guid -> [Workspace -> Seq(Copy)]]
      <4>1. ASSUME NEW g \in Guid
            PROVE  [copies[g] EXCEPT ![dest] = @ \o copies[g][src], ![src] = <<>>]
                       \in [Workspace -> Seq(Copy)]
        <5>1. copies[g] \in [Workspace -> Seq(Copy)]
          OBVIOUS
        <5>2. copies[g][dest] \o copies[g][src] \in Seq(Copy) /\ <<>> \in Seq(Copy)
          BY <5>1
        <5> QED BY <5>1, <5>2
      <4> QED BY <2>5, <4>1 DEF MoveContent
    <3>2. loose' \in SUBSET (Guid \X Workspace)
      BY <2>5 DEF MoveContent, Stocked
    <3>3. Managed(c, {src, dest})
      BY <2>5 DEF MoveContent
    <3> QED BY <3>1, <3>2, <3>3 DEF Managed, Claim
  <2> QED BY <1>3, <2>1, <2>2, <2>3, <2>4, <2>5 DEF Calls
<1>4. ASSUME NEW c \in Caller, Writing(c) PROVE TypeOK'
  <2>0. pc[c] # "idle"
    BY <1>4 DEF Writing, UpdateRow, UpdateNothing, StatementFails, Insert, InsertFails, ReadId,
                RecordCreate, DeleteRow, PurgeRow, PurgeNothing, PurgeFails, Record, RecordFails, Logs
  <2>1. CASE UpdateRow(c)
    BY <2>0, <2>1, RewrittenCopies, CopiesWritten, WroteTypes DEF UpdateRow, Goto, Step
  <2>2. CASE UpdateNothing(c)
    BY <2>2 DEF UpdateNothing, Goto, Step
  <2>3. CASE StatementFails(c)
    BY <2>3 DEF StatementFails, GiveUp, Goto, Step, Claim
  <2>4. CASE Insert(c)
    <3>1. Append(CopiesAt(c), CopyOf(obj[c])) \in Seq(Copy)
      <4>1. CopyOf(obj[c]) \in Copy
        BY <2>0, RewrittenCopies
      <4>2. CopiesAt(c) \in Seq(Copy)
        BY <2>0, PairTypes
      <4> QED BY <4>1, <4>2
    <3> QED BY <2>0, <2>4, <3>1, CopiesWritten, WroteTypes DEF Insert, Goto, Step
  <2>5. CASE InsertFails(c)
    BY <2>5 DEF InsertFails, Goto, Step
  <2>6. CASE ReadId(c)
    BY <2>6 DEF ReadId, GiveUp, Goto, Step, Claim
  <2>7. CASE RecordCreate(c)
    <3>1. Append(LogAt(c), "create") \in Seq(Action)
      BY <2>0, PairTypes DEF Action
    <3>2. repl' \in [Guid -> [Workspace -> Seq(Action)]]
      BY <2>0, <2>7, <3>1, LogWritten DEF RecordCreate
    <3> QED BY <2>7, <3>2 DEF RecordCreate, Succeed, Goto, Step, Claim, Instance
  <2>8. CASE DeleteRow(c)
    BY <2>0, <2>8, RewrittenCopies, CopiesWritten, WroteTypes DEF DeleteRow, Goto, Step
  <2>9. CASE PurgeRow(c)
    <3>1. <<>> \in Seq(Copy)
      OBVIOUS
    <3> QED BY <2>0, <2>9, <3>1, CopiesWritten, WroteTypes DEF PurgeRow, Goto, Step
  <2>10. CASE PurgeNothing(c)
    BY <2>10 DEF PurgeNothing, GiveUp, Goto, Step, Claim
  <2>11. CASE PurgeFails(c)
    BY <2>0, <2>11, PairTypes DEF PurgeFails, Goto, Step, Claim
  <2>12. CASE Record(c)
    <3>1. Logs[pc[c]] \in Action
      BY <2>12 DEF Record, Logs, Action
    <3>2. [i \in DOMAIN LogAt(c) |-> Logs[pc[c]]] \in Seq(Action)
      BY <2>0, <3>1, PairTypes, SameDomain
    <3>3. repl' \in [Guid -> [Workspace -> Seq(Action)]]
      BY <2>0, <2>12, <3>2, LogWritten DEF Record
    <3>4. obj' \in [Caller -> Instance] /\ \A d \in Caller : obj'[d].guid = obj[d].guid
      <4>1. obj[c] \in Instance /\ obj[c].deleted \in BOOLEAN
        BY DEF Instance
      <4>2. PICK b \in BOOLEAN : b = (obj[c].deleted \/ pc[c] = "record_delete")
        OBVIOUS
      <4>3. obj' = [obj EXCEPT ![c].deleted = b]
        BY <2>12, <4>2 DEF Record
      <4> QED BY <4>1, <4>3 DEF Instance
    <3>5. Answer(pc[c]) \in Claim
      BY DEF Answer, Claim
    <3> QED BY <2>12, <3>3, <3>4, <3>5 DEF Record, Succeed, Goto, Step, Claim
  <2>13. CASE RecordFails(c)
    BY <2>0, <2>13, PairTypes DEF RecordFails, StopHalfWay, GiveUp, Goto, Step, Claim
  <2> QED BY <1>4, <2>1, <2>2, <2>3, <2>4, <2>5, <2>6, <2>7, <2>8, <2>9, <2>10, <2>11,
             <2>12, <2>13 DEF Writing
<1>5. ASSUME NEW c \in Caller, Crash(c) PROVE TypeOK'
  <2>1. PICK d \in Data : obj' = [obj EXCEPT ![c] = Fresh(d)]
    BY <1>5 DEF Crash
  <2>2. NoScope \in Scopes
    BY DEF Scopes
  <2>3. PairOf(c) \in Guid \X Workspace
    BY <1>5, PairTypes DEF Crash
  <2> QED BY <1>5, <2>1, <2>2, <2>3
          DEF Crash, StopHalfWay, GiveUp, Goto, Step, Claim, Fresh, Instance
<1> QED BY <1>1, <1>2, <1>3, <1>4, <1>5 DEF Next

\* The initial state has the types.
LEMMA TypeInit == Init => TypeOK
<1> SUFFICES ASSUME Init PROVE TypeOK
  OBVIOUS
<1>1. NoScope \in Scopes
  BY DEF Scopes
<1>2. obj \in [Caller -> Instance]
  BY FreshTypes DEF Init
<1>3. /\ copies \in [Guid -> [Workspace -> Seq(Copy)]]
      /\ repl \in [Guid -> [Workspace -> Seq(Action)]]
  BY DEF Init
<1> QED BY <1>1, <1>2, <1>3, BoundAssumption DEF Init, TypeOK, Step, Claim

\* Every variable keeps its type, and a caller in a call works on a guid.
THEOREM TypeInvariant == Spec => []TypeOK
<1>1. Init => TypeOK
  BY TypeInit
<1>2. TypeOK /\ [Next]_vars => TypeOK'
  BY TypeStep
<1> QED BY <1>1, <1>2, PTL DEF Spec

(***************************************************************************)
(* One record of an object in a workspace, and what an update shows.       *)
(*                                                                         *)
(* Neither is inductive: between the UPDATE that found nothing and the     *)
(* INSERT, there must still be nothing; between a write and the answer,    *)
(* what was written must still be there.  CallOK says that it is, unless   *)
(* the history has noted somebody else on the same pair.                   *)
(***************************************************************************)
\* The records of c's pair are what c wrote.
Written(c) ==
    /\ CopiesAt(c) # <<>>
    /\ \A i \in DOMAIN CopiesAt(c) : CopiesAt(c)[i] = CopyOf(obj[c])

CallOK(c) ==
    /\ pc[c] = "insert" /\ PairOf(c) \notin loose => CopiesAt(c) = <<>>
    /\ sure[c] = "alone" => pc[c] # "idle"
    /\ sure[c] = "updated" => pc[c] = "idle" /\ obj[c].guid # NoGuid
    /\ sure[c] = "alone" /\ pc[c] = "insert" => CopiesAt(c) = <<>>
    /\ sure[c] = "alone" /\ pc[c] = "read_id" /\ CopiesAt(c) # <<>> => Written(c)
    /\ sure[c] = "alone" /\ pc[c] \in {"record_create", "record_update"} => Written(c)
    /\ sure[c] = "updated" => Written(c)

\* A caller that does not move stays as it should be if nobody changes its
\* pair, or if the history notes that somebody did.
LEMMA OthersOK ==
    ASSUME NEW d \in Caller, CallOK(d),
           obj'[d] = obj[d], scope'[d] = scope[d], pc'[d] = pc[d], loose \subseteq loose',
           sure'[d] \in {sure[d], "no"},
           \/ CopiesAt(d)' = CopiesAt(d)
           \/ sure'[d] = "no" /\ (pc[d] = "insert" => PairOf(d) \in loose' \/ CopiesAt(d)' = <<>>)
    PROVE  CallOK(d)'
<1>1. PairOf(d)' = PairOf(d) /\ CopyOf(obj[d])' = CopyOf(obj[d])
  BY DEF PairOf, CopyOf
<1>2. CASE CopiesAt(d)' = CopiesAt(d)
  <2>1. Written(d) => Written(d)'
    BY <1>1, <1>2 DEF Written
  <2> QED BY <1>1, <1>2, <2>1 DEF CallOK
<1>3. CASE sure'[d] = "no" /\ (pc[d] = "insert" => PairOf(d) \in loose' \/ CopiesAt(d)' = <<>>)
  BY <1>1, <1>3 DEF CallOK
<1> QED BY <1>2, <1>3

\* So they do when a caller writes the class's table.
LEMMA WriteKeepsOthers ==
    ASSUME TypeOK, NEW c \in Caller, NEW d \in Caller \ {c}, CallOK(d), pc[c] # "idle",
           NEW s \in Seq(Copy), SetCopies(c, s), Wrote(c),
           UNCHANGED <<scope, obj>>, pc'[d] = pc[d]
    PROVE  CallOK(d)'
<1>1. loose \subseteq loose' /\ sure'[d] \in {sure[d], "no"}
  BY DEF Wrote, TypeOK
<1>2. CASE PairOf(d) = PairOf(c)
  <2>1. d \in Beside(c)
    BY <1>2 DEF Beside
  <2>2. sure'[d] = "no" /\ (pc[d] # "idle" => PairOf(c) \in loose')
    BY <2>1 DEF Wrote
  <2> QED BY <1>1, <1>2, <2>2, OthersOK
<1>3. CASE PairOf(d) # PairOf(c)
  <2>1. CASE obj[d].guid \in Guid
    <3>1. scope[d].id \in Workspace /\ <<obj[d].guid, scope[d].id>> # PairOf(c)
      BY <1>3, PairTypes DEF PairOf
    <3>2. copies'[obj[d].guid][scope[d].id] = copies[obj[d].guid][scope[d].id]
      BY <2>1, <3>1, CopiesWritten
    <3>3. CopiesAt(d)' = CopiesAt(d)
      BY <3>2 DEF CopiesAt
    <3> QED BY <1>1, <3>3, OthersOK
  <2>2. CASE obj[d].guid \notin Guid
    <3>1. obj[d].guid = NoGuid /\ pc[d] = "idle"
      BY <2>2 DEF TypeOK, Instance
    <3>2. pc'[d] = "idle" /\ obj'[d].guid = NoGuid
      BY <3>1
    <3>3. sure[d] # "updated" /\ sure[d] # "alone"
      BY <3>1 DEF CallOK
    <3>4. sure'[d] # "updated" /\ sure'[d] # "alone"
      BY <1>1, <3>3
    <3> QED BY <3>2, <3>4 DEF CallOK
  <2> QED BY <2>1, <2>2
<1> QED BY <1>2, <1>3

\* Pairs the history does not note have no more records than before.
LEMMA OneCopyKept ==
    ASSUME OneCopy, TypeOK, TypeOK', loose \subseteq loose',
           \A g \in Guid, w \in Workspace :
               <<g, w>> \notin loose' => Len(copies'[g][w]) <= Len(copies[g][w])
    PROVE  OneCopy'
<1> SUFFICES ASSUME NEW g \in Guid, NEW w \in Workspace, <<g, w>> \notin loose'
             PROVE  Len(copies'[g][w]) <= 1
  BY DEF OneCopy
<1>1. Len(copies[g][w]) <= 1
  BY DEF OneCopy
<1>2. Len(copies'[g][w]) <= Len(copies[g][w])
  OBVIOUS
<1>3. Len(copies'[g][w]) \in Nat /\ Len(copies[g][w]) \in Nat
  <2>1. copies'[g][w] \in Seq(Copy) /\ copies[g][w] \in Seq(Copy)
    BY DEF TypeOK
  <2> QED BY <2>1
<1> QED BY <1>1, <1>2, <1>3

\* An invariant of the class's table: every step keeps it.
ContentOK == OneCopy /\ \A c \in Caller : CallOK(c)

LEMMA ContentStep == TypeOK /\ TypeOK' /\ ContentOK /\ [Next]_vars => ContentOK'
<1> SUFFICES ASSUME TypeOK, TypeOK', ContentOK, [Next]_vars PROVE ContentOK'
  OBVIOUS
<1> USE DEF db
<1>0. OneCopy /\ \A c \in Caller : CallOK(c)
  BY DEF ContentOK
<1>1. CASE UNCHANGED vars
  BY <1>1 DEF vars, ContentOK, OneCopy, CallOK, PairOf, CopiesAt, Written, CopyOf
\* Steps that leave the table and the history of pairs alone: only the
\* caller that moves is to be looked at.
<1>2. ASSUME NEW c \in Caller, UNCHANGED copies, loose \subseteq loose', CallOK(c)',
             \A d \in Caller \ {c} : /\ obj'[d] = obj[d] /\ scope'[d] = scope[d]
                                     /\ pc'[d] = pc[d] /\ sure'[d] = sure[d]
      PROVE  ContentOK'
  <2>1. ASSUME NEW d \in Caller \ {c} PROVE CallOK(d)'
    <3>1. CopiesAt(d)' = CopiesAt(d)
      BY <1>2 DEF CopiesAt
    <3> QED BY <1>0, <1>2, <3>1, OthersOK
  <2>2. OneCopy'
    <3>1. \A g \in Guid, w \in Workspace : Len(copies'[g][w]) <= Len(copies[g][w])
      <4>1. \A g \in Guid, w \in Workspace : Len(copies[g][w]) \in Nat
        BY DEF TypeOK
      <4> QED BY <1>2, <4>1
    <3> QED BY <1>0, <1>2, <3>1, OneCopyKept
  <2> QED BY <1>2, <2>1, <2>2 DEF ContentOK
\* Steps that write the records of the caller's pair.
<1>3. ASSUME NEW c \in Caller, NEW s \in Seq(Copy), pc[c] # "idle",
             SetCopies(c, s), Wrote(c), UNCHANGED <<scope, obj>>, NEW step \in Step, Goto(c, step),
             CallOK(c)', PairOf(c) \notin loose' => Len(s) <= 1
      PROVE  ContentOK'
  <2>1. ASSUME NEW d \in Caller \ {c} PROVE CallOK(d)'
    <3>1. pc'[d] = pc[d]
      BY <1>3 DEF Goto, TypeOK
    <3> QED BY <1>0, <1>3, <3>1, WriteKeepsOthers
  <2>2. OneCopy'
    <3>1. loose \subseteq loose'
      BY <1>3 DEF Wrote
    <3>2. \A g \in Guid, w \in Workspace :
              copies'[g][w] = IF <<g, w>> = PairOf(c) THEN s ELSE copies[g][w]
      BY <1>3, CopiesWritten
    <3>3. ASSUME NEW g \in Guid, NEW w \in Workspace, <<g, w>> \notin loose'
          PROVE  Len(copies'[g][w]) <= 1
      <4>1. CASE <<g, w>> = PairOf(c)
        BY <1>3, <3>2, <3>3, <4>1
      <4>2. CASE <<g, w>> # PairOf(c)
        BY <1>0, <3>1, <3>2, <3>3, <4>2 DEF OneCopy
      <4> QED BY <4>1, <4>2
    <3> QED BY <3>3 DEF OneCopy
  <2> QED BY <1>3, <2>1, <2>2 DEF ContentOK
<1>4. ASSUME NEW c \in Caller, Between(c) PROVE ContentOK'
  <2>1. pc[c] = "idle" /\ sure' = [sure EXCEPT ![c] = "no"] /\ UNCHANGED <<copies, repl, pc, calls, loose>>
    BY <1>4 DEF Between, SetWorkspace, New, SetData, Fetch, Idle
  <2>2. \A d \in Caller \ {c} : obj'[d] = obj[d] /\ scope'[d] = scope[d]
    BY <1>4 DEF Between, SetWorkspace, New, SetData, Fetch, Idle, TypeOK
  <2>3. CallOK(c)'
    BY <2>1 DEF CallOK, TypeOK
  <2> QED BY <1>2, <2>1, <2>2, <2>3 DEF TypeOK
<1>5. ASSUME NEW c \in Caller, Calls(c) PROVE ContentOK'
  <2>1. CASE CreateCall(c)
    <3>1. PICK g \in Guid : Unused(g) /\ obj' = [obj EXCEPT ![c].guid = g]
      BY <2>1 DEF CreateCall
    <3>2. /\ pc' = [pc EXCEPT ![c] = "insert"] /\ sure' = [sure EXCEPT ![c] = "alone"]
          /\ UNCHANGED <<copies, scope, loose>>
      BY <2>1 DEF CreateCall, Start, Goto
    <3>3. obj'[c].guid = g /\ scope'[c].id \in Workspace
      BY <3>1, <3>2, PairTypes DEF TypeOK, Instance
    <3>4. CopiesAt(c)' = <<>>
      BY <3>1, <3>2, <3>3 DEF CopiesAt, Unused
    <3>5. pc'[c] = "insert" /\ sure'[c] = "alone"
      BY <3>2 DEF TypeOK
    <3>6. CallOK(c)'
      BY <3>4, <3>5 DEF CallOK
    <3> QED BY <1>2, <3>1, <3>2, <3>6 DEF TypeOK
  <2>2. CASE CreateAgain(c)
    <3>1. /\ pc' = [pc EXCEPT ![c] = "insert"] /\ sure' = [sure EXCEPT ![c] = "no"]
          /\ UNCHANGED <<copies, scope, obj>> /\ loose' = loose \cup {PairOf(c)}
      BY <2>2 DEF CreateAgain, Start, Goto
    <3>2. pc'[c] = "insert" /\ sure'[c] = "no" /\ PairOf(c)' \in loose'
      BY <3>1 DEF TypeOK, PairOf
    <3>3. CallOK(c)'
      BY <3>2 DEF CallOK
    <3> QED BY <1>2, <3>1, <3>3 DEF TypeOK
  <2>3. CASE Call(c)
    <3>1. PICK step \in {"update_row", "delete_row", "purge_row"} :
              pc' = [pc EXCEPT ![c] = step] /\ sure' = [sure EXCEPT ![c] = "alone"]
      BY <2>3 DEF Call, Start, Goto
    <3>2. UNCHANGED <<copies, scope, obj, loose>>
      BY <2>3 DEF Call, Start
    <3>3. CallOK(c)'
      BY <3>1 DEF CallOK, TypeOK
    <3> QED BY <1>2, <3>1, <3>2, <3>3 DEF TypeOK
  <2>4. ASSUME NEW ws \in SUBSET Workspace, Managed(c, ws), loose \subseteq loose',
               \A g \in Guid, w \in Workspace :
                   /\ w \notin ws => copies'[g][w] = copies[g][w]
                   /\ <<g, w>> \in loose' \/ copies'[g][w] = <<>>
                          \/ Len(copies'[g][w]) <= Len(copies[g][w]),
               \A g \in Guid, w \in ws :
                   <<g, w>> \in loose' \/ copies[g][w] # <<>> \/ copies'[g][w] = <<>>
        PROVE  ContentOK'
    <3>1. UNCHANGED <<scope, obj, pc>>
      BY <2>4 DEF Managed
    <3>2. ASSUME NEW d \in Caller PROVE CallOK(d)'
      <4>1. sure'[d] = IF scope[d].id \in ws THEN "no" ELSE sure[d]
        BY <2>4 DEF Managed
      <4>2. CASE obj[d].guid \in Guid /\ scope[d].id \notin ws
        <5>1. CopiesAt(d)' = CopiesAt(d)
          BY <2>4, <3>1, <4>2, PairTypes DEF CopiesAt
        <5> QED BY <1>0, <2>4, <3>1, <4>1, <5>1, OthersOK
      <4>3. CASE obj[d].guid \in Guid /\ scope[d].id \in ws
        <5>1. pc[d] = "insert" => PairOf(d) \in loose' \/ CopiesAt(d)' = <<>>
          BY <1>0, <2>4, <3>1, <4>3 DEF CallOK, CopiesAt, PairOf
        <5> QED BY <1>0, <2>4, <3>1, <4>1, <4>3, <5>1, OthersOK
      <4>4. CASE obj[d].guid \notin Guid
        <5>1. obj[d].guid = NoGuid /\ pc[d] = "idle"
          BY <4>4 DEF TypeOK, Instance
        <5>2. sure[d] # "updated" /\ sure[d] # "alone"
          BY <1>0, <5>1 DEF CallOK
        <5> QED BY <3>1, <4>1, <5>1, <5>2 DEF CallOK
      <4> QED BY <4>2, <4>3, <4>4
    <3>3. OneCopy'
      <4>1. \A g \in Guid, w \in Workspace :
                <<g, w>> \notin loose' => Len(copies'[g][w]) <= Len(copies[g][w])
        <5>1. \A g \in Guid, w \in Workspace : Len(copies[g][w]) \in Nat /\ Len(<<>>) = 0
          BY DEF TypeOK
        <5> QED BY <2>4, <5>1
      <4> QED BY <1>0, <2>4, <4>1, OneCopyKept
    <3> QED BY <3>2, <3>3 DEF ContentOK
  <2>5. ASSUME NEW w \in Workspace, PurgeContent(c, w) PROVE ContentOK'
    <3>1. Managed(c, {w}) /\ loose \subseteq loose'
      BY <2>5 DEF PurgeContent
    <3>2. \A g \in Guid, v \in Workspace :
              copies'[g][v] = IF v = w THEN <<>> ELSE copies[g][v]
      BY <2>5 DEF PurgeContent, TypeOK
    <3>3. \A g \in Guid, v \in Workspace : Len(copies[g][v]) \in Nat
      BY DEF TypeOK
    <3> QED BY <2>4, <3>1, <3>2, <3>3
  <2>6. ASSUME NEW src \in Workspace \ {0}, NEW dest \in Workspace \ {0}, src # dest,
               MoveContent(c, src, dest)
        PROVE  ContentOK'
    <3>1. Managed(c, {src, dest}) /\ loose \subseteq loose'
      BY <2>6 DEF MoveContent
    <3>2. \A g \in Guid, v \in Workspace :
              copies'[g][v] = CASE v = src -> <<>>
                                [] v = dest -> copies[g][dest] \o copies[g][src]
                                [] OTHER -> copies[g][v]
      BY <2>6 DEF MoveContent, TypeOK
    <3>3. \A g \in Guid : copies[g][src] # <<>> => <<g, dest>> \in loose'
      BY <2>6 DEF MoveContent, Stocked
    <3>4. \A g \in Guid, v \in Workspace : Len(copies[g][v]) \in Nat
      BY DEF TypeOK
    <3>5. \A g \in Guid : copies[g][src] = <<>> => copies'[g][dest] = copies[g][dest]
      <4>1. \A g \in Guid : copies[g][dest] \in Seq(Copy)
        BY DEF TypeOK
      <4>2. \A t \in Seq(Copy) : t \o <<>> = t
        OBVIOUS
      <4>3. \A g \in Guid : copies'[g][dest] = copies[g][dest] \o copies[g][src]
        BY <2>6, <3>2
      <4> QED BY <4>1, <4>2, <4>3
    <3> QED BY <2>4, <2>6, <3>1, <3>2, <3>3, <3>4, <3>5
  <2> QED BY <1>5, <2>1, <2>2, <2>3, <2>5, <2>6 DEF Calls
<1>6. ASSUME NEW c \in Caller, Writing(c) PROVE ContentOK'
  <2>0. pc[c] # "idle" /\ pc[c] \in Step
    BY <1>6 DEF Writing, UpdateRow, UpdateNothing, StatementFails, Insert, InsertFails, ReadId,
                RecordCreate, DeleteRow, PurgeRow, PurgeNothing, PurgeFails, Record, RecordFails,
                Logs, TypeOK
  \* A caller that gives up claims nothing.
  <2>1. ASSUME GiveUp(c), UNCHANGED <<copies, scope, obj>>, loose \subseteq loose'
        PROVE  ContentOK'
    <3>1. pc'[c] = "idle" /\ sure'[c] = "no"
      BY <2>1 DEF GiveUp, Goto, TypeOK
    <3>2. CallOK(c)'
      BY <3>1 DEF CallOK
    <3> QED BY <1>2, <2>1, <3>2 DEF GiveUp, Goto, TypeOK
  <2>2. CASE UpdateRow(c)
    <3> DEFINE s == [i \in DOMAIN CopiesAt(c) |-> CopyOf(obj[c])]
    <3>1. s \in Seq(Copy) /\ Len(s) = Len(CopiesAt(c)) /\ DOMAIN s = DOMAIN CopiesAt(c)
      BY <2>0, RewrittenCopies
    <3>2. CopiesAt(c) # <<>> /\ SetCopies(c, s) /\ Wrote(c) /\ UNCHANGED <<scope, obj>>
          /\ Goto(c, "record_update") /\ pc[c] = "update_row"
      BY <2>2 DEF UpdateRow
    <3>3. \A i \in DOMAIN s : s[i] = CopyOf(obj[c])
      OBVIOUS
    <3>4. s # <<>>
      BY <2>0, <3>1, <3>2, PairTypes
    <3> HIDE DEF s
    <3>5. CopiesAt(c)' = s
      BY <2>0, <3>1, <3>2, PairTypes, CopiesWritten DEF CopiesAt, PairOf
    <3>6. Written(c)' /\ pc'[c] = "record_update" /\ sure'[c] = sure[c]
      BY <3>2, <3>3, <3>4, <3>5 DEF Written, Goto, TypeOK, Wrote, Beside, CopyOf
    <3>7. CallOK(c)'
      BY <1>0, <3>2, <3>6 DEF CallOK
    <3>8. PairOf(c) \notin loose' => Len(s) <= 1
      BY <1>0, <2>0, <3>1, <3>2, PairTypes DEF OneCopy, Wrote, PairOf, CopiesAt
    <3> QED BY <1>3, <2>0, <3>1, <3>2, <3>7, <3>8 DEF Step
  <2>3. CASE UpdateNothing(c)
    <3>1. CopiesAt(c) = <<>> /\ UNCHANGED <<copies, scope, obj, sure, loose>>
          /\ pc' = [pc EXCEPT ![c] = "insert"]
      BY <2>3 DEF UpdateNothing, Goto
    <3>2. CopiesAt(c)' = <<>> /\ pc'[c] = "insert"
      BY <3>1 DEF CopiesAt, TypeOK
    <3>3. CallOK(c)'
      BY <1>0, <2>0, <3>1, <3>2 DEF CallOK
    <3> QED BY <1>2, <3>1, <3>3 DEF TypeOK
  <2>4. CASE Insert(c)
    <3> DEFINE s == Append(CopiesAt(c), CopyOf(obj[c]))
    <3>1. CopyOf(obj[c]) \in Copy /\ CopiesAt(c) \in Seq(Copy)
      BY <2>0, RewrittenCopies, PairTypes
    <3>2. s \in Seq(Copy) /\ s # <<>> /\ Len(s) = Len(CopiesAt(c)) + 1
      BY <3>1
    <3>3. SetCopies(c, s) /\ Wrote(c) /\ UNCHANGED <<scope, obj>>
          /\ Goto(c, "read_id") /\ pc[c] = "insert"
      BY <2>4 DEF Insert
    <3>4. CopiesAt(c) = <<>> => Len(s) <= 1 /\ \A i \in DOMAIN s : s[i] = CopyOf(obj[c])
      BY <3>1
    <3> HIDE DEF s
    <3>5. CopiesAt(c)' = s
      BY <2>0, <3>2, <3>3, PairTypes, CopiesWritten DEF CopiesAt, PairOf
    <3>6. pc'[c] = "read_id" /\ sure'[c] = sure[c] /\ CopyOf(obj[c])' = CopyOf(obj[c])
      BY <3>3 DEF Goto, TypeOK, Wrote, Beside, CopyOf
    <3>7. sure[c] = "alone" => Written(c)'
      BY <1>0, <3>2, <3>3, <3>4, <3>5, <3>6 DEF Written, CallOK
    <3>8. CallOK(c)'
      BY <1>0, <3>3, <3>6, <3>7 DEF CallOK
    <3>9. PairOf(c) \notin loose' => Len(s) <= 1
      <4>1. loose \subseteq loose'
        BY <3>3 DEF Wrote
      <4>2. PairOf(c) \notin loose => CopiesAt(c) = <<>>
        BY <1>0, <3>3 DEF CallOK
      <4> QED BY <3>4, <4>1, <4>2
    <3> QED BY <1>3, <2>0, <3>2, <3>3, <3>8, <3>9 DEF Step
  <2>5. CASE InsertFails(c)
    <3>1. UNCHANGED <<copies, scope, obj, sure, loose>> /\ pc' = [pc EXCEPT ![c] = "read_id"]
          /\ pc[c] = "insert"
      BY <2>5 DEF InsertFails, Goto
    <3>2. pc'[c] = "read_id" /\ CopiesAt(c)' = CopiesAt(c) /\ Written(c)' = Written(c)
      BY <3>1 DEF TypeOK, CopiesAt, Written, CopyOf
    <3>3. CallOK(c)'
      BY <1>0, <3>1, <3>2 DEF CallOK
    <3> QED BY <1>2, <3>1, <3>3 DEF TypeOK
  <2>6. CASE ReadId(c)
    <3>1. CASE CopiesAt(c) # <<>>
      <4>1. UNCHANGED <<copies, scope, obj, sure, loose>> /\ pc' = [pc EXCEPT ![c] = "record_create"]
            /\ pc[c] = "read_id"
        BY <2>6, <3>1 DEF ReadId, Goto
      <4>2. pc'[c] = "record_create" /\ Written(c)' = Written(c)
        BY <4>1 DEF TypeOK, CopiesAt, Written, CopyOf
      <4>3. CallOK(c)'
        BY <1>0, <3>1, <4>1, <4>2 DEF CallOK
      <4> QED BY <1>2, <4>1, <4>3 DEF TypeOK
    <3>2. CASE CopiesAt(c) = <<>>
      BY <2>1, <2>6, <3>2 DEF ReadId
    <3> QED BY <3>1, <3>2
  <2>7. CASE RecordCreate(c)
    <3>1. pc[c] = "record_create" /\ UNCHANGED <<copies, scope, loose>>
          /\ obj' = [obj EXCEPT ![c].stored = TRUE] /\ Succeed(c, "updated")
      BY <2>7 DEF RecordCreate
    <3>2. obj'[c].guid = obj[c].guid /\ CopyOf(obj[c])' = CopyOf(obj[c])
      BY <3>1 DEF TypeOK, Instance, CopyOf
    <3>3. CopiesAt(c)' = CopiesAt(c)
      BY <3>1, <3>2 DEF CopiesAt
    <3>4. pc'[c] = "idle" /\ sure'[c] = IF sure[c] = "alone" THEN "updated" ELSE "no"
      BY <3>1 DEF Succeed, Goto, TypeOK
    <3>5. Written(c)' = Written(c) /\ obj[c].guid # NoGuid
      BY <2>0, <3>2, <3>3 DEF Written, TypeOK
    <3>6. CallOK(c)'
      BY <1>0, <3>1, <3>2, <3>4, <3>5 DEF CallOK
    <3> QED BY <1>2, <3>1, <3>6 DEF Succeed, Goto, TypeOK
  <2>8. CASE DeleteRow(c)
    <3> DEFINE s == [i \in DOMAIN CopiesAt(c) |-> [CopiesAt(c)[i] EXCEPT !.deleted = TRUE]]
    <3>1. s \in Seq(Copy) /\ Len(s) = Len(CopiesAt(c))
      BY <2>0, RewrittenCopies
    <3>2. SetCopies(c, s) /\ Wrote(c) /\ UNCHANGED <<scope, obj>>
          /\ Goto(c, "record_delete") /\ pc[c] = "delete_row"
      BY <2>8 DEF DeleteRow
    <3> HIDE DEF s
    <3>3. pc'[c] = "record_delete" /\ sure'[c] = sure[c]
      BY <3>2 DEF Goto, TypeOK, Wrote, Beside
    <3>4. CallOK(c)'
      BY <1>0, <3>2, <3>3 DEF CallOK
    <3>5. PairOf(c) \notin loose' => Len(s) <= 1
      BY <1>0, <2>0, <3>1, <3>2, PairTypes DEF OneCopy, Wrote, PairOf, CopiesAt
    <3> QED BY <1>3, <2>0, <3>1, <3>2, <3>4, <3>5 DEF Step
  <2>9. CASE PurgeRow(c)
    <3>1. <<>> \in Seq(Copy) /\ Len(<<>>) <= 1
      OBVIOUS
    <3>2. SetCopies(c, <<>>) /\ Wrote(c) /\ UNCHANGED <<scope, obj>>
          /\ Goto(c, "record_purge") /\ pc[c] = "purge_row"
      BY <2>9 DEF PurgeRow
    <3>3. pc'[c] = "record_purge" /\ sure'[c] = sure[c]
      BY <3>2 DEF Goto, TypeOK, Wrote, Beside
    <3>4. CallOK(c)'
      BY <1>0, <3>2, <3>3 DEF CallOK
    <3> QED BY <1>3, <2>0, <3>1, <3>2, <3>4 DEF Step
  <2>10. CASE PurgeFails(c)
    <3>1. UNCHANGED <<copies, scope, obj>> /\ loose \subseteq loose'
          /\ pc' = [pc EXCEPT ![c] = "record_purge"] /\ sure' = [sure EXCEPT ![c] = "no"]
      BY <2>10 DEF PurgeFails, Goto
    <3>2. CallOK(c)'
      BY <3>1 DEF CallOK, TypeOK
    <3> QED BY <1>2, <3>1, <3>2 DEF TypeOK
  <2>11. CASE Record(c)
    <3>1. pc[c] \in {"record_update", "record_delete", "record_purge"}
          /\ UNCHANGED <<copies, scope, loose>> /\ Succeed(c, Answer(pc[c]))
          /\ obj' = [obj EXCEPT ![c].deleted = @ \/ pc[c] = "record_delete"]
      BY <2>11 DEF Record, Logs
    <3>2. obj'[c].guid = obj[c].guid /\ obj[c].guid # NoGuid
      BY <2>0, <3>1 DEF TypeOK, Instance
    <3>3. pc'[c] = "idle" /\ sure'[c] = IF sure[c] = "alone" THEN Answer(pc[c]) ELSE "no"
      BY <3>1 DEF Succeed, Goto, TypeOK
    <3>4. CASE sure'[c] = "updated"
      <4>1. pc[c] = "record_update" /\ sure[c] = "alone"
        BY <3>1, <3>3, <3>4 DEF Answer
      <4>2. CopyOf(obj[c])' = CopyOf(obj[c])
        <5>1. obj[c] \in Instance /\ obj[c].deleted \in BOOLEAN
          BY DEF TypeOK, Instance
        <5>2. obj'[c].deleted = obj[c].deleted /\ obj'[c].data = obj[c].data
          BY <3>1, <4>1, <5>1 DEF TypeOK, Instance
        <5> QED BY <5>2 DEF CopyOf
      <4>3. CopiesAt(c)' = CopiesAt(c)
        BY <3>1, <3>2 DEF CopiesAt
      <4>4. Written(c)'
        BY <1>0, <4>1, <4>2, <4>3 DEF Written, CallOK
      <4> QED
        <5>1. CallOK(c)'
          BY <3>2, <3>3, <3>4, <4>4 DEF CallOK
        <5> QED BY <1>2, <3>1, <5>1 DEF Succeed, Goto, TypeOK
    <3>5. CASE sure'[c] # "updated"
      <4>1. sure'[c] # "alone"
        BY <3>3 DEF Answer
      <4>2. CallOK(c)'
        BY <3>3, <3>5, <4>1 DEF CallOK
      <4> QED BY <1>2, <3>1, <4>2 DEF Succeed, Goto, TypeOK
    <3> QED BY <3>4, <3>5
  <2>12. CASE StatementFails(c) \/ PurgeNothing(c) \/ RecordFails(c)
    BY <2>1, <2>12 DEF StatementFails, PurgeNothing, RecordFails, StopHalfWay
  <2> QED BY <1>6, <2>2, <2>3, <2>4, <2>5, <2>6, <2>7, <2>8, <2>9, <2>10, <2>11, <2>12
          DEF Writing
<1>7. ASSUME NEW c \in Caller, Crash(c) PROVE ContentOK'
  <2>1. UNCHANGED copies /\ loose \subseteq loose' /\ pc' = [pc EXCEPT ![c] = "idle"]
        /\ sure' = [sure EXCEPT ![c] = "no"]
    BY <1>7 DEF Crash, StopHalfWay, GiveUp, Goto
  <2>2. \A d \in Caller \ {c} : obj'[d] = obj[d] /\ scope'[d] = scope[d]
    BY <1>7 DEF Crash, TypeOK
  <2>3. CallOK(c)'
    BY <2>1 DEF CallOK, TypeOK
  <2> QED BY <1>2, <2>1, <2>2, <2>3 DEF TypeOK
<1> QED BY <1>1, <1>4, <1>5, <1>6, <1>7 DEF Next

\* An invariant of the initial state too.
LEMMA ContentInvariant == Spec => [](TypeOK /\ ContentOK)
<1>1. Init => TypeOK /\ ContentOK
  <2> SUFFICES ASSUME Init PROVE ContentOK
    BY TypeInit
  <2>1. OneCopy
    BY DEF Init, OneCopy
  <2>2. \A c \in Caller : CallOK(c)
    BY DEF Init, CallOK
  <2> QED BY <2>1, <2>2 DEF ContentOK
<1>2. TypeOK /\ ContentOK /\ [Next]_vars => (TypeOK /\ ContentOK)'
  BY TypeStep, ContentStep
<1> QED BY <1>1, <1>2, PTL DEF Spec

\* In every run a workspace has at most one record of an object, unless the
\* history has noted a race, a broken call or the manager on that pair.
THEOREM OneCopyInWorkspace == Spec => []OneCopy
<1>1. ContentOK => OneCopy
  BY DEF ContentOK
<1> QED BY <1>1, ContentInvariant, PTL

\* The layer of what a caller has written is its data.
LEMMA WrittenLayer ==
    ASSUME TypeOK, NEW c \in Caller, obj[c].guid \in Guid, Written(c), ~obj[c].deleted
    PROVE  /\ LiveCopies(obj[c].guid, scope[c].id) # {}
           /\ Layer(obj[c].guid, scope[c].id) = {obj[c].data}
<1> DEFINE s == CopiesAt(c)
<1>1. s \in Seq(Copy) /\ s # <<>>
  BY PairTypes DEF TypeOK, CopiesAt, Written
<1>2. DOMAIN s # {}
  BY <1>1
<1>3. \A i \in DOMAIN s : ~s[i].deleted /\ s[i].data = obj[c].data
  BY DEF Written, CopyOf
<1>4. LiveCopies(obj[c].guid, scope[c].id) = DOMAIN s
  BY <1>3 DEF LiveCopies, CopiesAt
<1>5. Layer(obj[c].guid, scope[c].id) = {s[i].data : i \in DOMAIN s}
  BY <1>4 DEF Layer, CopiesAt
<1> HIDE DEF s
<1> QED BY <1>2, <1>3, <1>4, <1>5

\* A workspace with live records, with none deeper in reach, is found alone.
LEMMA OwnFound ==
    ASSUME NEW s \in Scopes, NEW g \in Guid, LiveCopies(g, s.id) # {}
    PROVE  /\ Layer(g, s.id) \subseteq Found(s, g)
           /\ s # NoScope => Found(s, g) = Layer(g, s.id)
<1>1. CASE s.kind = "none"
  <2>1. s.id \in Workspace /\ s = NoScope
    BY <1>1, TreeAssumption DEF Scopes, NoScope
  <2> QED BY <1>1, <2>1 DEF Found, FoundIn
<1>2. CASE s.kind # "none"
  <2>1. s.id \in Ids(s) /\ \A u \in Ids(s) : u \in Nat /\ s.id \in Nat /\ u <= s.id
    BY IdsAreReach, ReachOrder
  <2>2. s.id \in Largest(g, Ids(s))
    BY <2>1 DEF Largest
  <2>3. ASSUME NEW u \in Largest(g, Ids(s)) PROVE u = s.id
    <3>1. u \in Ids(s) /\ s.id <= u
      BY <2>1 DEF Largest
    <3> QED BY <2>1, <3>1
  <2>4. FoundIn(s, g) = {s.id}
    BY <1>2, <2>2, <2>3 DEF FoundIn
  <2> QED BY <2>4 DEF Found
<1> QED BY <1>1, <1>2

\* In every run, whatever copies the other workspaces have, an update that
\* returned TRUE is what its caller then finds.
THEOREM UpdatesShow == Spec => []UpdateShows
<1>1. TypeOK /\ ContentOK => UpdateShows
  <2> SUFFICES ASSUME TypeOK, ContentOK, NEW c \in Caller, sure[c] = "updated", ~obj[c].deleted
               PROVE  /\ obj[c].data \in Found(scope[c], obj[c].guid)
                      /\ scope[c] # NoScope => Found(scope[c], obj[c].guid) = {obj[c].data}
    BY DEF UpdateShows
  <2>1. Written(c) /\ obj[c].guid # NoGuid
    BY DEF ContentOK, CallOK
  <2>2. obj[c].guid \in Guid /\ scope[c] \in Scopes
    BY <2>1 DEF TypeOK, Instance
  <2> QED BY <2>1, <2>2, WrittenLayer, OwnFound
<1> QED BY <1>1, ContentInvariant, PTL

(***************************************************************************)
(* The log of what is live.                                                *)
(*                                                                         *)
(* LoggedWhereLive is about pairs nobody works on.  Between a statement on *)
(* the class's table and the one on repligard, WillLog says why the second *)
(* will make it true; and where no caller is between the two, PairLogged   *)
(* says that the log already tells what is live, and that a record in the  *)
(* table has one in repligard, so that an UPDATE of the log finds it.      *)
(***************************************************************************)
\* A caller between its statement on the class's table and repligard's.
Logging(c) ==
    pc[c] \in {"read_id", "record_create", "record_update", "record_delete", "record_purge"}

\* The last record of a log tells that the object is there.
TellsLive(log) == log # <<>> /\ log[Len(log)] \in {"create", "update"}

PairLogged(g, w) ==
    <<g, w>> \notin loose /\ (\A c \in Caller : Logging(c) => PairOf(c) # <<g, w>>) =>
        /\ copies[g][w] # <<>> => repl[g][w] # <<>>
        /\ LiveCopies(g, w) # {} => TellsLive(repl[g][w])

WillLog(c) ==
    PairOf(c) \notin loose =>
        /\ pc[c] = "record_update" => LogAt(c) # <<>>
        /\ pc[c] = "record_delete" => /\ LiveCopies(obj[c].guid, scope[c].id) = {}
                                      /\ CopiesAt(c) # <<>> => LogAt(c) # <<>>
        /\ pc[c] = "record_purge" => CopiesAt(c) = <<>>

LogOK ==
    /\ \A g \in Guid, w \in Workspace : PairLogged(g, w)
    /\ \A c \in Caller : WillLog(c)

\* Only a pair with records has live ones.
LEMMA LiveHasCopies ==
    ASSUME NEW g, NEW w, copies[g][w] = <<>>
    PROVE  LiveCopies(g, w) = {}
BY DEF LiveCopies

\* A pair is logged as before if its records are as before and nobody has left
\* it between the two statements.
LEMMA PairKept ==
    ASSUME NEW g \in Guid, NEW w \in Workspace, PairLogged(g, w), loose \subseteq loose',
           copies'[g][w] = copies[g][w], repl'[g][w] = repl[g][w],
           \A c \in Caller : Logging(c) /\ PairOf(c) = <<g, w>> => (Logging(c) /\ PairOf(c) = <<g, w>>)'
    PROVE  PairLogged(g, w)'
<1>1. LiveCopies(g, w)' = LiveCopies(g, w)
  BY DEF LiveCopies
<1>2. TellsLive(repl[g][w])' = TellsLive(repl[g][w])
  BY DEF TellsLive
<1> QED BY <1>1, <1>2 DEF PairLogged

\* A caller that does not move will log as before, if nobody changes the
\* records of its pair unnoticed, and nobody empties its log.
LEMMA OthersLog ==
    ASSUME NEW d \in Caller, WillLog(d),
           obj'[d].guid = obj[d].guid, scope'[d] = scope[d], pc'[d] = pc[d],
           loose \subseteq loose',
           PairOf(d) \in loose' \/ pc[d] = "idle"
              \/ (CopiesAt(d)' = CopiesAt(d) /\ (LogAt(d) # <<>> => LogAt(d)' # <<>>))
    PROVE  WillLog(d)'
<1>1. PairOf(d)' = PairOf(d)
  BY DEF PairOf
<1>2. CASE PairOf(d) \in loose'
  BY <1>1, <1>2 DEF WillLog
<1>3. CASE pc[d] = "idle"
  BY <1>3 DEF WillLog
<1>4. CASE CopiesAt(d)' = CopiesAt(d) /\ (LogAt(d) # <<>> => LogAt(d)' # <<>>)
  <2>1. LiveCopies(obj[d].guid, scope[d].id)' = LiveCopies(obj[d].guid, scope[d].id)
    BY <1>4 DEF LiveCopies, CopiesAt
  <2> QED BY <1>1, <1>4, <2>1 DEF WillLog
<1> QED BY <1>2, <1>3, <1>4

\* Statements that write neither table: whoever leaves a pair between its two
\* statements leaves no record there, or the history notes it.
LEMMA QuietKeepsLog ==
    ASSUME TypeOK, LogOK, NEW c \in Caller, UNCHANGED <<copies, repl>>, loose \subseteq loose',
           \A d \in Caller \ {c} : obj'[d] = obj[d] /\ scope'[d] = scope[d] /\ pc'[d] = pc[d],
           \/ ~Logging(c)
           \/ PairOf(c) \in loose' \/ CopiesAt(c) = <<>>
           \/ Logging(c)' /\ PairOf(c)' = PairOf(c),
           PairOf(c)' \in loose' \/ pc'[c] \notin {"record_update", "record_delete", "record_purge"}
    PROVE  LogOK'
<1>1. ASSUME NEW d \in Caller PROVE WillLog(d)'
  <2>1. CASE d = c
    BY <2>1 DEF WillLog
  <2>2. CASE d # c
    <3>1. CopiesAt(d)' = CopiesAt(d) /\ LogAt(d)' = LogAt(d)
      BY <2>2 DEF CopiesAt, LogAt
    <3> QED BY <2>2, <3>1, OthersLog DEF LogOK
  <2> QED BY <2>1, <2>2
<1>2. ASSUME NEW g \in Guid, NEW w \in Workspace PROVE PairLogged(g, w)'
  <2>1. \A d \in Caller \ {c} : Logging(d)' = Logging(d) /\ PairOf(d)' = PairOf(d)
    BY DEF Logging, PairOf
  <2>2. CASE Logging(c) /\ PairOf(c) = <<g, w>> => (Logging(c) /\ PairOf(c) = <<g, w>>)'
    BY <2>1, <2>2, PairKept DEF LogOK
  <2>3. CASE PairOf(c) = <<g, w>> /\ PairOf(c) \in loose'
    BY <2>3 DEF PairLogged
  <2>4. CASE PairOf(c) = <<g, w>> /\ CopiesAt(c) = <<>>
    <3>1. copies'[g][w] = <<>>
      BY <2>4 DEF PairOf, CopiesAt
    <3>2. LiveCopies(g, w)' = {}
      BY <3>1 DEF LiveCopies
    <3> QED BY <3>1, <3>2 DEF PairLogged
  <2> QED BY <2>2, <2>3, <2>4
<1> QED BY <1>1, <1>2 DEF LogOK

\* A caller that is first on its pair finds it logged.
LEMMA FirstFindsLogged ==
    ASSUME TypeOK, LogOK, NEW c \in Caller, pc[c] # "idle", ~Logging(c), Wrote(c),
           PairOf(c) \notin loose'
    PROVE  /\ CopiesAt(c) # <<>> => LogAt(c) # <<>>
           /\ LiveCopies(obj[c].guid, scope[c].id) # {} => TellsLive(LogAt(c))
<1>1. PairOf(c) \notin loose /\ \A d \in Beside(c) : pc[d] = "idle"
  BY DEF Wrote
<1>2. \A d \in Caller : Logging(d) => PairOf(d) # PairOf(c)
  BY <1>1 DEF Beside, Logging
<1>3. obj[c].guid \in Guid /\ scope[c].id \in Workspace
  BY PairTypes
<1>4. PairLogged(obj[c].guid, scope[c].id)
  BY <1>3 DEF LogOK
<1> QED BY <1>1, <1>2, <1>4 DEF PairLogged, PairOf, CopiesAt, LogAt

\* Statements that write the class's table.
LEMMA WriteKeepsLog ==
    ASSUME TypeOK, LogOK, NEW c \in Caller, pc[c] # "idle", ~Logging(c),
           NEW s \in Seq(Copy), SetCopies(c, s), Wrote(c), UNCHANGED <<repl, scope, obj>>,
           NEW step \in Step, Goto(c, step),
           step \in {"read_id", "record_update", "record_delete", "record_purge"},
           WillLog(c)'
    PROVE  LogOK'
<1>0. loose \subseteq loose'
  BY DEF Wrote
<1>1. pc'[c] = step /\ \A d \in Caller \ {c} : pc'[d] = pc[d]
  BY DEF Goto, TypeOK
<1>2. \A g \in Guid, w \in Workspace :
          copies'[g][w] = IF <<g, w>> = PairOf(c) THEN s ELSE copies[g][w]
  BY CopiesWritten
<1>3. \A d \in Caller : PairOf(d)' = PairOf(d)
  BY DEF PairOf
<1>4. \A d \in Caller : Logging(d) => Logging(d)'
  BY <1>1 DEF Logging
<1>5. Logging(c)'
  BY <1>1 DEF Logging
<1>6. ASSUME NEW d \in Caller PROVE WillLog(d)'
  <2>1. CASE d = c
    BY <2>1
  <2>2. CASE d # c /\ pc[d] = "idle"
    BY <1>1, <2>2 DEF WillLog
  <2>3. CASE d # c /\ pc[d] # "idle" /\ PairOf(d) = PairOf(c)
    <3>1. d \in Beside(c)
      BY <2>3 DEF Beside
    <3>2. PairOf(d)' \in loose'
      BY <1>3, <2>3, <3>1 DEF Wrote
    <3> QED BY <3>2 DEF WillLog
  <2>4. CASE d # c /\ pc[d] # "idle" /\ PairOf(d) # PairOf(c)
    <3>1. obj[d].guid \in Guid /\ scope[d].id \in Workspace
      BY <2>4, PairTypes
    <3>2. CopiesAt(d)' = CopiesAt(d) /\ LogAt(d)' = LogAt(d)
      BY <1>2, <2>4, <3>1 DEF CopiesAt, LogAt, PairOf
    <3> QED BY <1>0, <1>1, <2>4, <3>2, OthersLog DEF LogOK
  <2> QED BY <2>1, <2>2, <2>3, <2>4
<1>7. ASSUME NEW g \in Guid, NEW w \in Workspace PROVE PairLogged(g, w)'
  <2>1. CASE <<g, w>> = PairOf(c)
    BY <1>3, <1>5, <2>1 DEF PairLogged
  <2>2. CASE <<g, w>> # PairOf(c)
    BY <1>0, <1>2, <1>3, <1>4, <2>2, PairKept DEF LogOK
  <2> QED BY <2>1, <2>2
<1> QED BY <1>6, <1>7 DEF LogOK

\* Statements that write repligard: the last of a call.
LEMMA RecordKeepsLog ==
    ASSUME TypeOK, LogOK, NEW c \in Caller, pc[c] # "idle",
           NEW s \in Seq(Action), SetLog(c, s), Goto(c, "idle"),
           UNCHANGED <<copies, scope, loose>>,
           \A d \in Caller : obj'[d].guid = obj[d].guid,
           LogAt(c) # <<>> => s # <<>>,
           PairOf(c) \notin loose =>
               /\ CopiesAt(c) # <<>> => s # <<>>
               /\ LiveCopies(obj[c].guid, scope[c].id) # {} => TellsLive(s)
    PROVE  LogOK'
<1>1. pc'[c] = "idle" /\ \A d \in Caller \ {c} : pc'[d] = pc[d]
  BY DEF Goto, TypeOK
<1>2. \A g \in Guid, w \in Workspace :
          repl'[g][w] = IF <<g, w>> = PairOf(c) THEN s ELSE repl[g][w]
  BY LogWritten
<1>3. \A d \in Caller : PairOf(d)' = PairOf(d)
  BY DEF PairOf
<1>4. obj[c].guid \in Guid /\ scope[c].id \in Workspace
  BY PairTypes
<1>5. ASSUME NEW d \in Caller PROVE WillLog(d)'
  <2>1. CASE d = c
    BY <1>1, <2>1 DEF WillLog
  <2>2. CASE d # c /\ pc[d] = "idle"
    BY <1>1, <2>2 DEF WillLog
  <2>3. CASE d # c /\ pc[d] # "idle"
    <3>1. obj[d].guid \in Guid /\ scope[d].id \in Workspace
      BY <2>3, PairTypes
    <3>2. CopiesAt(d)' = CopiesAt(d)
      BY DEF CopiesAt
    <3>3. LogAt(d) # <<>> => LogAt(d)' # <<>>
      BY <1>2, <3>1 DEF LogAt, PairOf
    <3> QED BY <1>1, <2>3, <3>2, <3>3, OthersLog DEF LogOK
  <2> QED BY <2>1, <2>2, <2>3
<1>6. ASSUME NEW g \in Guid, NEW w \in Workspace PROVE PairLogged(g, w)'
  <2>1. CASE <<g, w>> = PairOf(c)
    <3>1. g = obj[c].guid /\ w = scope[c].id
      BY <2>1 DEF PairOf
    <3>2. LiveCopies(g, w)' = LiveCopies(g, w)
      BY DEF LiveCopies
    <3>3. repl'[g][w] = s /\ copies'[g][w] = CopiesAt(c)
      BY <1>2, <2>1, <3>1 DEF CopiesAt
    <3>4. <<g, w>> \notin loose' => /\ copies'[g][w] # <<>> => repl'[g][w] # <<>>
                                    /\ LiveCopies(g, w)' # {} => TellsLive(repl'[g][w])
      BY <2>1, <3>1, <3>2, <3>3
    <3> QED BY <3>4 DEF PairLogged, TellsLive
  <2>2. CASE <<g, w>> # PairOf(c)
    <3>1. \A d \in Caller : Logging(d) /\ PairOf(d) = <<g, w>> => (Logging(d) /\ PairOf(d) = <<g, w>>)'
      BY <1>1, <1>3, <2>2 DEF Logging
    <3> QED BY <1>2, <2>2, <3>1, PairKept DEF LogOK
  <2> QED BY <2>1, <2>2
<1> QED BY <1>5, <1>6 DEF LogOK

\* The manager changes only the records of pairs the history notes.
LEMMA ManagerKeepsLog ==
    ASSUME TypeOK, LogOK, UNCHANGED <<repl, scope, obj, pc>>, loose \subseteq loose',
           \A g \in Guid, w \in Workspace : <<g, w>> \in loose' \/ copies'[g][w] = copies[g][w]
    PROVE  LogOK'
<1>1. \A d \in Caller : PairOf(d)' = PairOf(d) /\ Logging(d)' = Logging(d)
  BY DEF PairOf, Logging
<1>2. ASSUME NEW d \in Caller PROVE WillLog(d)'
  <2>1. CASE pc[d] = "idle"
    BY <2>1 DEF WillLog
  <2>2. CASE pc[d] # "idle"
    <3>1. obj[d].guid \in Guid /\ scope[d].id \in Workspace
      BY <2>2, PairTypes
    <3>2. PairOf(d) \in loose' \/ CopiesAt(d)' = CopiesAt(d)
      BY <3>1 DEF PairOf, CopiesAt
    <3>3. LogAt(d)' = LogAt(d)
      BY DEF LogAt
    <3> QED BY <3>2, <3>3, OthersLog DEF LogOK
  <2> QED BY <2>1, <2>2
<1>3. ASSUME NEW g \in Guid, NEW w \in Workspace PROVE PairLogged(g, w)'
  <2>1. CASE <<g, w>> \in loose'
    BY <2>1 DEF PairLogged
  <2>2. CASE copies'[g][w] = copies[g][w]
    BY <1>1, <2>2, PairKept DEF LogOK
  <2> QED BY <2>1, <2>2
<1> QED BY <1>2, <1>3 DEF LogOK

\* An UPDATE of the log writes the action into every record there is.
LEMMA RewrittenLog ==
    ASSUME NEW log \in Seq(Action), NEW a \in Action
    PROVE  LET s == [i \in DOMAIN log |-> a]
           IN  /\ s \in Seq(Action)
               /\ log # <<>> => s # <<>>
               /\ log # <<>> /\ a \in {"create", "update"} => TellsLive(s)
<1> DEFINE s == [i \in DOMAIN log |-> a]
<1>1. s \in [DOMAIN log -> Action]
  OBVIOUS
<1>2. s \in Seq(Action) /\ Len(s) = Len(log) /\ DOMAIN s = DOMAIN log
  BY <1>1, SameDomain
<1>3. ASSUME log # <<>> PROVE s # <<>> /\ Len(s) \in DOMAIN log
  BY <1>2, <1>3
<1>4. ASSUME log # <<>>, a \in {"create", "update"} PROVE TellsLive(s)
  <2>1. s[Len(s)] = a
    BY <1>3, <1>4
  <2> HIDE DEF s
  <2> QED BY <1>3, <1>4, <2>1 DEF TellsLive
<1> QED BY <1>2, <1>3, <1>4

LEMMA LogStep == TypeOK /\ LogOK /\ [Next]_vars => LogOK'
<1> SUFFICES ASSUME TypeOK, LogOK, [Next]_vars PROVE LogOK'
  OBVIOUS
<1> USE DEF db
<1>1. CASE UNCHANGED vars
  BY <1>1, ManagerKeepsLog DEF vars
<1>2. ASSUME NEW c \in Caller, Between(c) PROVE LogOK'
  <2>1. pc[c] = "idle" /\ UNCHANGED <<copies, repl, pc, loose>>
    BY <1>2 DEF Between, SetWorkspace, New, SetData, Fetch, Idle
  <2>2. \A d \in Caller \ {c} : obj'[d] = obj[d] /\ scope'[d] = scope[d]
    BY <1>2 DEF Between, SetWorkspace, New, SetData, Fetch, TypeOK
  <2> QED BY <2>1, <2>2, QuietKeepsLog DEF Logging
<1>3. ASSUME NEW c \in Caller, Calls(c) PROVE LogOK'
  <2>1. ASSUME pc[c] = "idle", UNCHANGED <<copies, repl, scope>>, loose \subseteq loose',
               NEW step \in {"insert", "update_row", "delete_row", "purge_row"}, Goto(c, step),
               \A d \in Caller \ {c} : obj'[d] = obj[d]
        PROVE  LogOK'
    <3>1. pc'[c] = step /\ \A d \in Caller \ {c} : pc'[d] = pc[d]
      BY <2>1 DEF Goto, TypeOK
    <3>2. ~Logging(c) /\ pc'[c] \notin {"record_update", "record_delete", "record_purge"}
      BY <2>1, <3>1 DEF Logging
    <3> QED BY <2>1, <3>1, <3>2, QuietKeepsLog
  <2>2. CASE CreateCall(c)
    BY <2>1, <2>2 DEF CreateCall, Start, TypeOK
  <2>3. CASE CreateAgain(c)
    BY <2>1, <2>3 DEF CreateAgain, Start
  <2>4. CASE Call(c)
    BY <2>1, <2>4 DEF Call, Start
  <2>5. ASSUME NEW w \in Workspace, PurgeContent(c, w) PROVE LogOK'
    <3>1. UNCHANGED <<repl, scope, obj, pc>> /\ loose \subseteq loose'
      BY <2>5 DEF PurgeContent, Managed
    <3>2. \A g \in Guid, v \in Workspace : <<g, v>> \in loose' \/ copies'[g][v] = copies[g][v]
      BY <2>5 DEF PurgeContent, Stocked, TypeOK
    <3> QED BY <3>1, <3>2, ManagerKeepsLog
  <2>6. ASSUME NEW src \in Workspace \ {0}, NEW dest \in Workspace \ {0}, src # dest,
               MoveContent(c, src, dest)
        PROVE  LogOK'
    <3>1. UNCHANGED <<repl, scope, obj, pc>> /\ loose \subseteq loose'
      BY <2>6 DEF MoveContent, Managed
    <3>2. \A g \in Guid, v \in Workspace :
              copies'[g][v] = CASE v = src -> <<>>
                                [] v = dest -> copies[g][dest] \o copies[g][src]
                                [] OTHER -> copies[g][v]
      BY <2>6 DEF MoveContent, TypeOK
    <3>3. \A g \in Guid : copies[g][src] # <<>> => <<g, dest>> \in loose' /\ <<g, src>> \in loose'
      BY <2>6 DEF MoveContent, Stocked
    <3>4. \A g \in Guid : copies[g][src] = <<>> => copies[g][dest] \o copies[g][src] = copies[g][dest]
      <4>1. \A t \in Seq(Copy) : t \o <<>> = t
        OBVIOUS
      <4> QED BY <4>1 DEF TypeOK
    <3>5. \A g \in Guid, v \in Workspace : <<g, v>> \in loose' \/ copies'[g][v] = copies[g][v]
      BY <2>6, <3>2, <3>3, <3>4
    <3> QED BY <3>1, <3>5, ManagerKeepsLog
  <2> QED BY <1>3, <2>2, <2>3, <2>4, <2>5, <2>6 DEF Calls
<1>4. ASSUME NEW c \in Caller, Writing(c) PROVE LogOK'
  <2>0. pc[c] # "idle" /\ pc[c] \in Step
    BY <1>4 DEF Writing, UpdateRow, UpdateNothing, StatementFails, Insert, InsertFails, ReadId,
                RecordCreate, DeleteRow, PurgeRow, PurgeNothing, PurgeFails, Record, RecordFails,
                Logs, TypeOK
  <2>01. WillLog(c) /\ obj[c].guid \in Guid /\ scope[c].id \in Workspace
    BY <2>0, PairTypes DEF LogOK
  <2>1. CASE UpdateRow(c)
    <3> DEFINE s == [i \in DOMAIN CopiesAt(c) |-> CopyOf(obj[c])]
    <3>1. s \in Seq(Copy)
      BY <2>0, RewrittenCopies
    <3>2. CopiesAt(c) # <<>> /\ SetCopies(c, s) /\ Wrote(c) /\ UNCHANGED <<repl, scope, obj>>
          /\ Goto(c, "record_update") /\ pc[c] = "update_row"
      BY <2>1 DEF UpdateRow
    <3> HIDE DEF s
    <3>3. ~Logging(c) /\ pc'[c] = "record_update" /\ PairOf(c)' = PairOf(c)
      BY <3>2 DEF Logging, Goto, TypeOK, PairOf
    <3>4. PairOf(c) \notin loose' => LogAt(c)' # <<>>
      <4>1. LogAt(c)' = LogAt(c)
        BY <3>2 DEF LogAt
      <4> QED BY <2>0, <3>2, <3>3, <4>1, FirstFindsLogged
    <3>5. WillLog(c)'
      BY <3>3, <3>4 DEF WillLog
    <3> QED BY <2>0, <3>1, <3>2, <3>3, <3>5, WriteKeepsLog DEF Step
  <2>2. CASE UpdateNothing(c)
    BY <2>2, QuietKeepsLog DEF UpdateNothing, Goto, Logging, TypeOK
  <2>3. CASE StatementFails(c)
    BY <2>3, QuietKeepsLog DEF StatementFails, GiveUp, Goto, Logging, TypeOK
  <2>4. CASE Insert(c)
    <3> DEFINE s == Append(CopiesAt(c), CopyOf(obj[c]))
    <3>1. s \in Seq(Copy)
      <4>1. CopyOf(obj[c]) \in Copy /\ CopiesAt(c) \in Seq(Copy)
        BY <2>0, RewrittenCopies, PairTypes
      <4> QED BY <4>1
    <3>2. SetCopies(c, s) /\ Wrote(c) /\ UNCHANGED <<repl, scope, obj>>
          /\ Goto(c, "read_id") /\ pc[c] = "insert"
      BY <2>4 DEF Insert
    <3> HIDE DEF s
    <3>3. ~Logging(c) /\ pc'[c] = "read_id"
      BY <3>2 DEF Logging, Goto, TypeOK
    <3>4. WillLog(c)'
      BY <3>3 DEF WillLog
    <3> QED BY <2>0, <3>1, <3>2, <3>3, <3>4, WriteKeepsLog DEF Step
  <2>5. CASE InsertFails(c)
    BY <2>5, QuietKeepsLog DEF InsertFails, Goto, Logging, TypeOK
  <2>6. CASE ReadId(c)
    <3>1. UNCHANGED <<copies, repl, scope, obj, loose>> /\ PairOf(c)' = PairOf(c)
      BY <2>6 DEF ReadId, PairOf
    <3>2. CASE CopiesAt(c) # <<>>
      <4>1. pc' = [pc EXCEPT ![c] = "record_create"]
        BY <2>6, <3>2 DEF ReadId, Goto
      <4> QED BY <3>1, <4>1, QuietKeepsLog DEF Logging, TypeOK
    <3>3. CASE CopiesAt(c) = <<>>
      <4>1. pc' = [pc EXCEPT ![c] = "idle"]
        BY <2>6, <3>3 DEF ReadId, GiveUp, Goto
      <4> QED BY <3>1, <3>3, <4>1, QuietKeepsLog DEF TypeOK
    <3> QED BY <3>2, <3>3
  <2>7. CASE RecordCreate(c)
    <3> DEFINE s == Append(LogAt(c), "create")
    <3>1. LogAt(c) \in Seq(Action)
      BY <2>0, PairTypes
    <3>2. s \in Seq(Action) /\ s # <<>> /\ s[Len(s)] = "create"
      BY <3>1 DEF Action
    <3>3. SetLog(c, s) /\ Goto(c, "idle") /\ UNCHANGED <<copies, scope, loose>>
          /\ obj' = [obj EXCEPT ![c].stored = TRUE]
      BY <2>7 DEF RecordCreate, Succeed
    <3>4. \A d \in Caller : obj'[d].guid = obj[d].guid
      BY <3>3 DEF TypeOK, Instance
    <3> HIDE DEF s
    <3>5. TellsLive(s)
      BY <3>2 DEF TellsLive
    <3> QED BY <2>0, <3>2, <3>3, <3>4, <3>5, RecordKeepsLog
  <2>8. CASE DeleteRow(c)
    <3> DEFINE s == [i \in DOMAIN CopiesAt(c) |-> [CopiesAt(c)[i] EXCEPT !.deleted = TRUE]]
    <3>1. s \in Seq(Copy) /\ Len(s) = Len(CopiesAt(c)) /\ DOMAIN s = DOMAIN CopiesAt(c)
      BY <2>0, RewrittenCopies
    <3>2. SetCopies(c, s) /\ Wrote(c) /\ UNCHANGED <<repl, scope, obj>>
          /\ Goto(c, "record_delete") /\ pc[c] = "delete_row"
      BY <2>8 DEF DeleteRow
    <3>3. \A i \in DOMAIN s : s[i].deleted
      <4>1. \A i \in DOMAIN CopiesAt(c) : CopiesAt(c)[i] \in Copy
        BY <2>0, PairTypes
      <4> QED BY <4>1 DEF Copy
    <3>4. s # <<>> => CopiesAt(c) # <<>>
      OBVIOUS
    <3> HIDE DEF s
    <3>5. ~Logging(c) /\ pc'[c] = "record_delete" /\ PairOf(c)' = PairOf(c)
      BY <3>2 DEF Logging, Goto, TypeOK, PairOf
    <3>6. CopiesAt(c)' = s /\ copies'[obj[c].guid][scope[c].id] = s
      BY <2>0, <2>01, <3>1, <3>2, CopiesWritten DEF CopiesAt, PairOf
    <3>7. LiveCopies(obj[c].guid, scope[c].id)' = {}
      BY <3>2, <3>3, <3>6 DEF LiveCopies
    <3>8. LogAt(c)' = LogAt(c)
      BY <3>2 DEF LogAt
    <3>9. PairOf(c) \notin loose' => (CopiesAt(c)' # <<>> => LogAt(c)' # <<>>)
      BY <2>0, <3>2, <3>4, <3>5, <3>6, <3>8, FirstFindsLogged
    <3>10. WillLog(c)'
      BY <3>5, <3>7, <3>9 DEF WillLog
    <3> QED BY <2>0, <3>1, <3>2, <3>5, <3>10, WriteKeepsLog DEF Step
  <2>9. CASE PurgeRow(c)
    <3>1. <<>> \in Seq(Copy)
      OBVIOUS
    <3>2. SetCopies(c, <<>>) /\ Wrote(c) /\ UNCHANGED <<repl, scope, obj>>
          /\ Goto(c, "record_purge") /\ pc[c] = "purge_row"
      BY <2>9 DEF PurgeRow
    <3>3. ~Logging(c) /\ pc'[c] = "record_purge"
      BY <3>2 DEF Logging, Goto, TypeOK
    <3>4. CopiesAt(c)' = <<>>
      BY <2>0, <2>01, <3>1, <3>2, CopiesWritten DEF CopiesAt, PairOf
    <3>5. WillLog(c)'
      BY <3>3, <3>4 DEF WillLog
    <3> QED BY <2>0, <3>1, <3>2, <3>3, <3>5, WriteKeepsLog DEF Step
  <2>10. CASE PurgeNothing(c)
    BY <2>10, QuietKeepsLog DEF PurgeNothing, GiveUp, Goto, Logging, TypeOK
  <2>11. CASE PurgeFails(c)
    <3>1. UNCHANGED <<copies, repl, scope, obj>> /\ PairOf(c) \in loose' /\ loose \subseteq loose'
          /\ pc' = [pc EXCEPT ![c] = "record_purge"]
      BY <2>11 DEF PurgeFails, Goto
    <3>2. PairOf(c)' \in loose'
      BY <3>1 DEF PairOf
    <3> QED BY <3>1, <3>2, QuietKeepsLog DEF TypeOK
  <2>12. CASE Record(c)
    <3> DEFINE s == [i \in DOMAIN LogAt(c) |-> Logs[pc[c]]]
    <3>1. LogAt(c) \in Seq(Action) /\ Logs[pc[c]] \in Action
      BY <2>0, <2>12, PairTypes DEF Record, Logs, Action
    <3>2. /\ s \in Seq(Action)
          /\ LogAt(c) # <<>> => s # <<>>
          /\ LogAt(c) # <<>> /\ Logs[pc[c]] \in {"create", "update"} => TellsLive(s)
      BY <3>1, RewrittenLog
    <3>3. SetLog(c, s) /\ Goto(c, "idle") /\ UNCHANGED <<copies, scope, loose>>
          /\ pc[c] \in {"record_update", "record_delete", "record_purge"}
          /\ obj' = [obj EXCEPT ![c].deleted = @ \/ pc[c] = "record_delete"]
      BY <2>12 DEF Record, Succeed, Logs
    <3>4. \A d \in Caller : obj'[d].guid = obj[d].guid
      BY <3>3 DEF TypeOK, Instance
    <3> HIDE DEF s
    <3>5. ASSUME PairOf(c) \notin loose
          PROVE  /\ CopiesAt(c) # <<>> => s # <<>>
                 /\ LiveCopies(obj[c].guid, scope[c].id) # {} => TellsLive(s)
      <4>1. CASE pc[c] = "record_update"
        <5>1. Logs[pc[c]] = "update" /\ LogAt(c) # <<>>
          BY <2>01, <3>5, <4>1 DEF Logs, WillLog
        <5> QED BY <3>2, <5>1
      <4>2. CASE pc[c] = "record_delete"
        BY <2>01, <3>2, <3>5, <4>2 DEF WillLog
      <4>3. CASE pc[c] = "record_purge"
        <5>1. CopiesAt(c) = <<>>
          BY <2>01, <3>5, <4>3 DEF WillLog
        <5>2. LiveCopies(obj[c].guid, scope[c].id) = {}
          BY <5>1, LiveHasCopies DEF CopiesAt
        <5> QED BY <5>1, <5>2
      <4> QED BY <3>3, <4>1, <4>2, <4>3
    <3> QED BY <2>0, <3>2, <3>3, <3>4, <3>5, RecordKeepsLog
  <2>13. CASE RecordFails(c)
    <3>1. UNCHANGED <<copies, repl, scope, obj>> /\ PairOf(c) \in loose' /\ loose \subseteq loose'
          /\ pc' = [pc EXCEPT ![c] = "idle"]
      BY <2>13 DEF RecordFails, StopHalfWay, GiveUp, Goto
    <3> QED BY <3>1, QuietKeepsLog DEF TypeOK
  <2> QED BY <1>4, <2>1, <2>2, <2>3, <2>4, <2>5, <2>6, <2>7, <2>8, <2>9, <2>10, <2>11, <2>12,
             <2>13 DEF Writing
<1>5. ASSUME NEW c \in Caller, Crash(c) PROVE LogOK'
  <2>1. UNCHANGED <<copies, repl>> /\ PairOf(c) \in loose' /\ loose \subseteq loose'
        /\ pc' = [pc EXCEPT ![c] = "idle"]
    BY <1>5 DEF Crash, StopHalfWay, GiveUp, Goto
  <2>2. \A d \in Caller \ {c} : obj'[d] = obj[d] /\ scope'[d] = scope[d]
    BY <1>5 DEF Crash, TypeOK
  <2> QED BY <2>1, <2>2, QuietKeepsLog DEF TypeOK
<1> QED BY <1>1, <1>2, <1>3, <1>4, <1>5 DEF Next

\* In every run, of every tree and any number of callers: where nobody works,
\* what is live in a workspace is logged there as created or updated, whatever
\* is done to the object in other workspaces.
THEOREM LiveIsLogged == Spec => []LoggedWhereLive
<1>1. Init => TypeOK /\ LogOK
  <2> SUFFICES ASSUME Init PROVE LogOK
    BY TypeInit
  <2>1. \A g \in Guid, w \in Workspace : PairLogged(g, w)
    BY LiveHasCopies DEF Init, PairLogged
  <2>2. \A c \in Caller : WillLog(c)
    BY DEF Init, WillLog
  <2> QED BY <2>1, <2>2 DEF LogOK
<1>2. TypeOK /\ LogOK /\ [Next]_vars => (TypeOK /\ LogOK)'
  BY TypeStep, LogStep
<1>3. TypeOK /\ LogOK => LoggedWhereLive
  <2> SUFFICES ASSUME LogOK, NEW g \in Guid, NEW w \in Workspace, <<g, w>> \notin loose,
                      \A c \in Caller : pc[c] # "idle" => PairOf(c) # <<g, w>>,
                      LiveCopies(g, w) # {}
               PROVE  repl[g][w] # <<>> /\ repl[g][w][Len(repl[g][w])] \in {"create", "update"}
    BY DEF LoggedWhereLive
  <2>1. \A c \in Caller : Logging(c) => PairOf(c) # <<g, w>>
    BY DEF Logging
  <2> QED BY <2>1 DEF LogOK, PairLogged, TellsLive
<1> QED BY <1>1, <1>2, <1>3, PTL DEF Spec

-----------------------------------------------------------------------------
(***************************************************************************)
(* WorkspaceContent implements WorkspaceOverlay: its statements, in        *)
(* whatever order the callers run them, are steps of the promise or change *)
(* nothing that the promise speaks of.                                     *)
(***************************************************************************)
(***************************************************************************)
(* The layer that a sequence of records is.                                *)
(***************************************************************************)
LayerOf(s) == {s[i].data : i \in {j \in DOMAIN s : ~s[j].deleted}}

\* A layer is that of the records.
LEMMA LayerIsOf ==
    /\ \A g \in Guid, w \in Workspace : Layers[g][w] = LayerOf(copies[g][w])
    /\ \A g \in Guid, w \in Workspace : Layers'[g][w] = LayerOf(copies'[g][w])
BY DEF Layers, Layer, LiveCopies, LayerOf

\* No records, no layer.
LEMMA LayerOfNone == LayerOf(<<>>) = {}
BY DEF LayerOf

\* The layer of records put after others is the union of both.
LEMMA LayerOfBoth ==
    ASSUME NEW s \in Seq(Copy), NEW t \in Seq(Copy)
    PROVE  LayerOf(s \o t) = LayerOf(s) \cup LayerOf(t)
<1> DEFINE st == s \o t
<1>1. /\ DOMAIN s = 1 .. Len(s) /\ DOMAIN t = 1 .. Len(t)
      /\ DOMAIN st = 1 .. (Len(s) + Len(t)) /\ Len(s) \in Nat /\ Len(t) \in Nat
  OBVIOUS
<1>2. /\ \A i \in DOMAIN s : st[i] = s[i]
      /\ \A i \in DOMAIN t : st[Len(s) + i] = t[i]
  OBVIOUS
<1> HIDE DEF st
<1>3. \A i \in DOMAIN s : i \in DOMAIN st
  BY <1>1
<1>4. \A i \in DOMAIN t : Len(s) + i \in DOMAIN st
  BY <1>1
<1>5. \A i \in DOMAIN st : i \in DOMAIN s \/ (i - Len(s) \in DOMAIN t /\ i = Len(s) + (i - Len(s)))
  BY <1>1
<1>6. LayerOf(s) \subseteq LayerOf(st)
  BY <1>2, <1>3 DEF LayerOf
<1>7. LayerOf(t) \subseteq LayerOf(st)
  BY <1>2, <1>4 DEF LayerOf
<1>8. LayerOf(st) \subseteq LayerOf(s) \cup LayerOf(t)
  <2> SUFFICES ASSUME NEW i \in DOMAIN st, ~st[i].deleted
               PROVE  st[i].data \in LayerOf(s) \cup LayerOf(t)
    BY DEF LayerOf
  <2>1. CASE i \in DOMAIN s
    BY <1>2, <2>1 DEF LayerOf
  <2>2. CASE i - Len(s) \in DOMAIN t /\ i = Len(s) + (i - Len(s))
    <3>1. PICK k \in DOMAIN t : i = Len(s) + k
      BY <2>2
    <3>2. st[i] = t[k]
      BY <1>2, <3>1
    <3> QED BY <3>2 DEF LayerOf
  <2> QED BY <1>5, <2>1, <2>2
<1>9. LayerOf(st) = LayerOf(s) \cup LayerOf(t)
  BY <1>6, <1>7, <1>8
<1> QED BY <1>9 DEF st

\* One record more.
LEMMA LayerOfOneMore ==
    ASSUME NEW s \in Seq(Copy), NEW e \in Copy
    PROVE  LayerOf(Append(s, e)) = LayerOf(s) \cup (IF e.deleted THEN {} ELSE {e.data})
<1>1. Append(s, e) = s \o <<e>> /\ <<e>> \in Seq(Copy)
  OBVIOUS
<1>2. LayerOf(<<e>>) = IF e.deleted THEN {} ELSE {e.data}
  <2>1. DOMAIN <<e>> = {1} /\ <<e>>[1] = e
    OBVIOUS
  <2> QED BY <2>1 DEF LayerOf
<1> QED BY <1>1, <1>2, LayerOfBoth

(***************************************************************************)
(* What the promise sees of a step.                                        *)
(***************************************************************************)
\* It sees nothing if neither the table, nor a workspace, nor what an instance
\* is of and holds has changed.
LEMMA Unseen ==
    ASSUME UNCHANGED <<copies, scope>>,
           \A c \in Caller : obj'[c].guid = obj[c].guid /\ obj'[c].data = obj[c].data
    PROVE  UNCHANGED Overlay!vars
<1>1. Layers' = Layers
  BY DEF Layers, Layer, LiveCopies
<1>2. Mine' = Mine
  BY DEF Mine
<1> QED BY <1>1, <1>2 DEF Overlay!vars

\* A statement writes one layer.
LEMMA LayerWritten ==
    ASSUME TypeOK, NEW c \in Caller, pc[c] # "idle", NEW s \in Seq(Copy),
           SetCopies(c, s), UNCHANGED <<scope, obj>>
    PROVE  /\ Layers' = [Layers EXCEPT ![Mine[c].guid][scope[c].id] = LayerOf(s)]
           /\ Mine' = Mine /\ Mine[c].guid # NoGuid /\ Mine[c].data = obj[c].data
           /\ Layers[Mine[c].guid][scope[c].id] = LayerOf(CopiesAt(c))
<1>1. obj[c].guid \in Guid /\ scope[c].id \in Workspace /\ obj[c].guid # NoGuid
  BY PairTypes, NullAssumption
<1>2. Mine' = Mine /\ Mine[c].guid = obj[c].guid /\ Mine[c].data = obj[c].data
  BY DEF Mine
<1>3. \A g \in Guid, w \in Workspace :
          Layers'[g][w] = IF <<g, w>> = PairOf(c) THEN LayerOf(s) ELSE Layers[g][w]
  BY CopiesWritten, LayerIsOf
<1>4. /\ Layers' = [g \in Guid |-> [w \in Workspace |-> Layers'[g][w]]]
      /\ Layers = [g \in Guid |-> [w \in Workspace |-> Layers[g][w]]]
  BY DEF Layers
<1>5. Layers' = [Layers EXCEPT ![obj[c].guid][scope[c].id] = LayerOf(s)]
  <2> DEFINE L == [Layers EXCEPT ![obj[c].guid][scope[c].id] = LayerOf(s)]
  <2>1. L = [g \in Guid |-> [w \in Workspace |->
                 IF <<g, w>> = PairOf(c) THEN LayerOf(s) ELSE Layers[g][w]]]
    BY <1>1, <1>4 DEF PairOf
  <2> HIDE DEF L
  <2>2. L = Layers'
    BY <1>3, <1>4, <2>1
  <2> QED BY <2>2 DEF L
<1>6. Layers[obj[c].guid][scope[c].id] = LayerOf(CopiesAt(c))
  BY <1>1, LayerIsOf DEF CopiesAt
<1> QED BY <1>1, <1>2, <1>5, <1>6

\* The initial state is one of the promise.
LEMMA OverlayInit == Init => Overlay!Init
<1> SUFFICES ASSUME Init PROVE Overlay!Init
  OBVIOUS
<1>1. Layers = [g \in Guid |-> [w \in Workspace |-> {}]]
  <2>1. \A g \in Guid, w \in Workspace : Layer(g, w) = {}
    BY DEF Init, Layer, LiveCopies
  <2> QED BY <2>1 DEF Layers
<1>2. scope = [c \in Caller |-> [kind |-> "none", id |-> 0]]
  BY DEF Init, NoScope
<1>3. Mine \in [Caller -> [guid : {NoGuid}, data : Data]]
  <2>1. ASSUME NEW c \in Caller PROVE obj[c].guid = NoGuid /\ obj[c].data \in Data
    <3>1. PICK d \in Data : obj[c] = Fresh(d)
      BY DEF Init
    <3> QED BY <3>1 DEF Fresh
  <2> QED BY <2>1 DEF Mine
<1> QED BY <1>1, <1>2, <1>3 DEF Overlay!Init

\* Between calls, a caller enters a workspace, edits, forgets or reads: what it
\* reads is what its workspace shows.
LEMMA BetweenSeen ==
    ASSUME TypeOK, TypeOK', NEW c \in Caller, Between(c)
    PROVE  Overlay!Next
<1>0. UNCHANGED copies /\ Layers' = Layers
  <2>1. UNCHANGED copies
    BY DEF Between, SetWorkspace, New, SetData, Fetch, Idle, db
  <2> QED BY <2>1 DEF Layers, Layer, LiveCopies
<1>1. ASSUME NEW s \in Scopes, SetWorkspace(c, s) PROVE Overlay!Next
  <2>1. scope' = [scope EXCEPT ![c] = s] /\ Mine' = Mine
    BY <1>1 DEF SetWorkspace, Mine
  <2>2. s \in Overlay!Scopes
    BY DEF Scopes, NoScope, Overlay!Scopes
  <2> QED BY <1>0, <2>1, <2>2 DEF Overlay!Next, Overlay!Enter
<1>2. ASSUME NEW d \in Data, New(c, d) PROVE Overlay!Next
  <2>1. obj' = [obj EXCEPT ![c] = Fresh(d)] /\ UNCHANGED scope
    BY <1>2 DEF New
  <2>2. Mine' = [Mine EXCEPT ![c] = [guid |-> NoGuid, data |-> d]]
    BY <2>1 DEF Mine, Fresh, TypeOK
  <2> QED BY <1>0, <2>1, <2>2 DEF Overlay!Next, Overlay!Forget
<1>3. ASSUME NEW d \in Data, SetData(c, d) PROVE Overlay!Next
  <2>1. obj' = [obj EXCEPT ![c].data = d] /\ UNCHANGED scope
    BY <1>3 DEF SetData
  <2>2. \A e \in Caller : /\ obj'[e].guid = obj[e].guid
                          /\ obj'[e].data = IF e = c THEN d ELSE obj[e].data
    BY <2>1 DEF TypeOK, Instance
  <2>3. Mine' = [e \in Caller |->
                     [guid |-> obj[e].guid, data |-> IF e = c THEN d ELSE obj[e].data]]
    BY <2>2 DEF Mine
  <2>4. Mine' = [Mine EXCEPT ![c].data = d]
    BY <2>3 DEF Mine
  <2> QED BY <1>0, <2>1, <2>4 DEF Overlay!Next, Overlay!Edit
<1>4. ASSUME NEW g \in Guid, Fetch(c, g) PROVE Overlay!Next
  <2>1. PICK d \in Found(scope[c], g) :
            obj' = [obj EXCEPT ![c] = [guid |-> g, data |-> d, deleted |-> FALSE, stored |-> TRUE]]
    BY <1>4 DEF Fetch
  <2>2. d \in Overlay!Shows(scope[c], g)
    BY <2>1, PairTypes, NearestFound
  <2>3. Mine' = [Mine EXCEPT ![c] = [guid |-> g, data |-> d]]
    BY <2>1 DEF Mine, TypeOK
  <2>4. UNCHANGED scope
    BY <1>4 DEF Fetch
  <2> QED BY <1>0, <2>2, <2>3, <2>4 DEF Overlay!Next, Overlay!Read
<1> QED BY <1>1, <1>2, <1>3, <1>4 DEF Between

\* A create begins an object; other calls begin unseen; the manager clears a
\* workspace or moves its content.
LEMMA CallsSeen ==
    ASSUME TypeOK, TypeOK', NEW c \in Caller, Calls(c)
    PROVE  [Overlay!Next]_(Overlay!vars)
<1>1. CASE CreateCall(c)
  <2>1. PICK g \in Guid : Unused(g) /\ obj' = [obj EXCEPT ![c].guid = g]
    BY <1>1 DEF CreateCall
  <2>2. UNCHANGED <<copies, scope>> /\ obj[c].guid = NoGuid
    BY <1>1 DEF CreateCall, Start, db
  <2>3. Layers' = Layers
    BY <2>2 DEF Layers, Layer, LiveCopies
  <2>4. Mine' = [Mine EXCEPT ![c].guid = g] /\ Mine[c].guid = NoGuid
    BY <2>1, <2>2 DEF Mine, TypeOK, Instance
  <2>5. \A w \in Workspace : Layers[g][w] = {}
    BY <2>1, LayerIsOf, LayerOfNone DEF Unused
  <2> QED BY <2>2, <2>3, <2>4, <2>5 DEF Overlay!Next, Overlay!Begin
<1>2. CASE CreateAgain(c) \/ Call(c)
  <2>1. UNCHANGED <<copies, scope, obj>>
    BY <1>2 DEF CreateAgain, Call, Start, db
  <2> QED BY <2>1, Unseen
<1>3. ASSUME NEW w \in Workspace \ {0}, PurgeContent(c, w) PROVE Overlay!Next
  <2>1. UNCHANGED <<scope, Mine>>
    BY <1>3 DEF PurgeContent, Managed, Mine
  <2>2. \A g \in Guid, v \in Workspace :
            copies'[g][v] = IF v = w THEN <<>> ELSE copies[g][v]
    BY <1>3 DEF PurgeContent, TypeOK
  <2>3. ASSUME NEW g \in Guid, NEW v \in Workspace
        PROVE  Layers'[g][v] = IF v = w THEN {} ELSE Layers[g][v]
    <3>1. Layers'[g][v] = LayerOf(copies'[g][v]) /\ Layers[g][v] = LayerOf(copies[g][v])
      BY LayerIsOf
    <3>2. copies'[g][v] = IF v = w THEN <<>> ELSE copies[g][v]
      BY <2>2
    <3> QED BY <3>1, <3>2, LayerOfNone
  <2>4. Layers' = [g \in Guid |-> [Layers[g] EXCEPT ![w] = {}]]
    <3>1. Layers' = [g \in Guid |-> [v \in Workspace |-> Layers'[g][v]]]
      BY DEF Layers
    <3>2. \A g \in Guid : Layers[g] = [v \in Workspace |-> Layers[g][v]]
      BY DEF Layers
    <3>3. \A g \in Guid : [Layers[g] EXCEPT ![w] = {}]
                              = [v \in Workspace |-> IF v = w THEN {} ELSE Layers[g][v]]
      BY <3>2
    <3>4. Layers' = [g \in Guid |-> [v \in Workspace |-> IF v = w THEN {} ELSE Layers[g][v]]]
      BY <2>3, <3>1
    <3> QED BY <3>3, <3>4
  <2> QED BY <2>1, <2>4 DEF Overlay!Next, Overlay!Clear
<1>4. ASSUME NEW src \in Workspace \ {0}, NEW dest \in Workspace \ {0}, src # dest,
             MoveContent(c, src, dest)
      PROVE  Overlay!Next
  <2>1. UNCHANGED <<scope, Mine>>
    BY <1>4 DEF MoveContent, Managed, Mine
  <2>2. \A g \in Guid, v \in Workspace :
            copies'[g][v] = IF v = src THEN <<>>
                            ELSE IF v = dest THEN copies[g][dest] \o copies[g][src]
                            ELSE copies[g][v]
    BY <1>4 DEF MoveContent, TypeOK
  <2>3. \A g \in Guid : LayerOf(copies[g][dest] \o copies[g][src]) = Layers[g][dest] \cup Layers[g][src]
    <3>1. \A g \in Guid : copies[g][dest] \in Seq(Copy) /\ copies[g][src] \in Seq(Copy)
      BY DEF TypeOK
    <3> QED BY <3>1, LayerOfBoth, LayerIsOf
  <2>4. ASSUME NEW g \in Guid, NEW v \in Workspace
        PROVE  Layers'[g][v] = IF v = src THEN {}
                               ELSE IF v = dest THEN Layers[g][dest] \cup Layers[g][src]
                               ELSE Layers[g][v]
    <3>1. Layers'[g][v] = LayerOf(copies'[g][v]) /\ Layers[g][v] = LayerOf(copies[g][v])
      BY LayerIsOf
    <3>2. CASE v = src
      <4>1. copies'[g][v] = <<>>
        BY <2>2, <3>2
      <4> QED BY <3>1, <3>2, <4>1, LayerOfNone
    <3>3. CASE v = dest
      <4>1. copies'[g][v] = copies[g][dest] \o copies[g][src]
        BY <1>4, <2>2, <3>3
      <4> QED BY <1>4, <2>3, <3>1, <3>3, <4>1
    <3>4. CASE v # src /\ v # dest
      <4>1. copies'[g][v] = copies[g][v]
        BY <2>2, <3>4
      <4> QED BY <3>1, <3>4, <4>1
    <3> QED BY <3>2, <3>3, <3>4
  <2>5. Layers' = [g \in Guid |-> [Layers[g] EXCEPT ![dest] = @ \cup Layers[g][src], ![src] = {}]]
    <3>1. Layers' = [g \in Guid |-> [v \in Workspace |-> Layers'[g][v]]]
      BY DEF Layers
    <3>2. \A g \in Guid : Layers[g] = [v \in Workspace |-> Layers[g][v]]
      BY DEF Layers
    <3>3. \A g \in Guid : [Layers[g] EXCEPT ![dest] = @ \cup Layers[g][src], ![src] = {}]
                 = [v \in Workspace |-> IF v = src THEN {}
                                        ELSE IF v = dest THEN Layers[g][dest] \cup Layers[g][src]
                                        ELSE Layers[g][v]]
      BY <1>4, <3>2
    <3>4. Layers' = [g \in Guid |-> [v \in Workspace |->
                         IF v = src THEN {}
                         ELSE IF v = dest THEN Layers[g][dest] \cup Layers[g][src]
                         ELSE Layers[g][v]]]
      BY <2>4, <3>1
    <3> QED BY <3>3, <3>4
  <2> QED BY <1>4, <2>1, <2>5 DEF Overlay!Next, Overlay!Move
<1> QED BY <1>1, <1>2, <1>3, <1>4 DEF Calls

\* To put a layer that is there changes nothing.
LEMMA SameLayer ==
    ASSUME NEW g, NEW w
    PROVE  [Layers EXCEPT ![g][w] = Layers[g][w]] = Layers
<1> DEFINE E == [Layers EXCEPT ![g][w] = Layers[g][w]]
<1>1. Layers = [a \in Guid |-> [b \in Workspace |-> Layers[a][b]]]
  BY DEF Layers
<1>2. E = [a \in Guid |-> [b \in Workspace |-> Layers[a][b]]]
  BY <1>1, Zenon
<1> HIDE DEF E
<1>3. E = Layers
  BY <1>1, <1>2, Zenon
<1> QED BY <1>3 DEF E

\* A statement puts or removes the layer of its caller's workspace.
LEMMA WritingSeen ==
    ASSUME TypeOK, TypeOK', NEW c \in Caller, Writing(c)
    PROVE  [Overlay!Next]_(Overlay!vars)
<1>0. pc[c] # "idle"
  BY DEF Writing, UpdateRow, UpdateNothing, StatementFails, Insert, InsertFails, ReadId,
         RecordCreate, DeleteRow, PurgeRow, PurgeNothing, PurgeFails, Record, RecordFails, Logs
<1>1. ASSUME NEW s \in Seq(Copy), SetCopies(c, s), UNCHANGED <<scope, obj>>, LayerOf(s) = {}
      PROVE  Overlay!Next
  BY <1>0, <1>1, LayerWritten DEF Overlay!Next, Overlay!Remove
<1>2. ASSUME NEW s \in Seq(Copy), SetCopies(c, s), UNCHANGED <<scope, obj>>,
             LayerOf(s) \in {{obj[c].data}, LayerOf(CopiesAt(c)) \cup {obj[c].data}}
      PROVE  Overlay!Next
  <2>1. PICK old \in {{}, Layers[Mine[c].guid][scope[c].id]} :
            LayerOf(s) = old \cup {Mine[c].data}
    BY <1>0, <1>2, LayerWritten
  <2>2. Layers' = [Layers EXCEPT ![Mine[c].guid][scope[c].id] = old \cup {Mine[c].data}]
    BY <1>0, <1>2, <2>1, LayerWritten
  <2> QED BY <1>0, <1>2, <2>2, LayerWritten DEF Overlay!Next, Overlay!Put
<1>3. CASE UpdateRow(c)
  <2> DEFINE s == [i \in DOMAIN CopiesAt(c) |-> CopyOf(obj[c])]
  <2>1. s \in Seq(Copy)
    BY <1>0, RewrittenCopies
  <2>2. SetCopies(c, s) /\ UNCHANGED <<scope, obj>>
    BY <1>3 DEF UpdateRow
  <2>3. DOMAIN s # {}
    BY <1>0, <1>3, PairTypes DEF UpdateRow
  <2>4. LayerOf(s) = IF obj[c].deleted THEN {} ELSE {obj[c].data}
    BY <2>3 DEF LayerOf, CopyOf
  <2> HIDE DEF s
  <2> QED BY <1>1, <1>2, <2>1, <2>2, <2>4
<1>4. CASE Insert(c)
  <2> DEFINE s == Append(CopiesAt(c), CopyOf(obj[c]))
  <2>1. CopyOf(obj[c]) \in Copy /\ CopiesAt(c) \in Seq(Copy)
    BY <1>0, RewrittenCopies, PairTypes
  <2>2. s \in Seq(Copy)
    BY <2>1
  <2>3. SetCopies(c, s) /\ UNCHANGED <<scope, obj>>
    BY <1>4 DEF Insert
  <2>4. LayerOf(s) = LayerOf(CopiesAt(c)) \cup (IF obj[c].deleted THEN {} ELSE {obj[c].data})
    BY <2>1, LayerOfOneMore DEF CopyOf
  <2> HIDE DEF s
  <2>5. CASE ~obj[c].deleted
    BY <1>2, <2>2, <2>3, <2>4, <2>5
  <2>6. CASE obj[c].deleted
    <3>1. LayerOf(s) = LayerOf(CopiesAt(c))
      BY <2>4, <2>6
    <3>2. /\ Layers' = [Layers EXCEPT ![Mine[c].guid][scope[c].id] = LayerOf(s)]
          /\ Layers[Mine[c].guid][scope[c].id] = LayerOf(CopiesAt(c)) /\ Mine' = Mine
      BY <1>0, <2>2, <2>3, LayerWritten
    <3>3. Layers' = [Layers EXCEPT ![Mine[c].guid][scope[c].id] = Layers[Mine[c].guid][scope[c].id]]
      BY <3>1, <3>2
    <3>4. Layers' = Layers
      BY <3>3, SameLayer, Zenon
    <3> QED BY <2>3, <3>2, <3>4 DEF Overlay!vars
  <2> QED BY <2>5, <2>6
<1>5. CASE DeleteRow(c)
  <2> DEFINE s == [i \in DOMAIN CopiesAt(c) |-> [CopiesAt(c)[i] EXCEPT !.deleted = TRUE]]
  <2>1. s \in Seq(Copy)
    BY <1>0, RewrittenCopies
  <2>2. SetCopies(c, s) /\ UNCHANGED <<scope, obj>>
    BY <1>5 DEF DeleteRow
  <2>3. ASSUME NEW i \in DOMAIN s PROVE s[i].deleted
    <3>1. CopiesAt(c)[i] \in Copy
      BY <1>0, PairTypes
    <3> QED BY <3>1 DEF Copy
  <2> HIDE DEF s
  <2>4. LayerOf(s) = {}
    BY <2>3 DEF LayerOf
  <2> QED BY <1>1, <2>1, <2>2, <2>4
<1>6. CASE PurgeRow(c)
  <2>1. <<>> \in Seq(Copy)
    OBVIOUS
  <2>2. SetCopies(c, <<>>) /\ UNCHANGED <<scope, obj>>
    BY <1>6 DEF PurgeRow
  <2> QED BY <1>1, <2>1, <2>2, LayerOfNone
<1>7. CASE \/ UpdateNothing(c) \/ StatementFails(c) \/ InsertFails(c) \/ ReadId(c)
           \/ PurgeNothing(c) \/ PurgeFails(c) \/ RecordFails(c)
  <2>1. UNCHANGED <<copies, scope, obj>>
    BY <1>7 DEF UpdateNothing, StatementFails, InsertFails, ReadId, PurgeNothing, PurgeFails,
                RecordFails, db
  <2> QED BY <2>1, Unseen
<1>8. CASE RecordCreate(c) \/ Record(c)
  <2>1. UNCHANGED <<copies, scope>>
    BY <1>8 DEF RecordCreate, Record
  <2>2. \A d \in Caller : obj'[d].guid = obj[d].guid /\ obj'[d].data = obj[d].data
    <3>1. CASE RecordCreate(c)
      BY <3>1 DEF RecordCreate, TypeOK, Instance
    <3>2. CASE Record(c)
      BY <3>2 DEF Record, TypeOK, Instance
    <3> QED BY <1>8, <3>1, <3>2
  <2> QED BY <2>1, <2>2, Unseen
<1> QED BY <1>3, <1>4, <1>5, <1>6, <1>7, <1>8 DEF Writing

\* Every step of the callers is a step of the promise, or is not seen.
LEMMA OverlayStep == TypeOK /\ TypeOK' /\ [Next]_vars => [Overlay!Next]_(Overlay!vars)
<1> SUFFICES ASSUME TypeOK, TypeOK', [Next]_vars PROVE [Overlay!Next]_(Overlay!vars)
  OBVIOUS
<1>1. CASE UNCHANGED vars
  BY <1>1, Unseen DEF vars
<1>2. ASSUME NEW c \in Caller, Crash(c) PROVE Overlay!Next
  <2>1. PICK d \in Data : obj' = [obj EXCEPT ![c] = Fresh(d)]
    BY <1>2 DEF Crash
  <2>2. UNCHANGED copies /\ scope' = [scope EXCEPT ![c] = [kind |-> "none", id |-> 0]]
    BY <1>2 DEF Crash, db, NoScope
  <2>3. Layers' = Layers
    BY <2>2 DEF Layers, Layer, LiveCopies
  <2>4. Mine' = [Mine EXCEPT ![c] = [guid |-> NoGuid, data |-> d]]
    BY <2>1 DEF Mine, Fresh, TypeOK
  <2> QED BY <2>2, <2>3, <2>4 DEF Overlay!Next, Overlay!Forget
<1> QED BY <1>1, <1>2, BetweenSeen, CallsSeen, WritingSeen DEF Next

\* Callers that run their statements in any order, fail and die anywhere, see
\* of each other what workspaces promise and nothing else: WorkspaceContent
\* implements WorkspaceOverlay.
THEOREM ContentImplementsOverlay == Spec => ImplementsOverlay
<1>1. Init => Overlay!Init
  BY OverlayInit
<1>2. TypeOK /\ TypeOK' /\ [Next]_vars => [Overlay!Next]_(Overlay!vars)
  BY OverlayStep
<1> QED BY <1>1, <1>2, TypeInvariant, PTL DEF Spec, Overlay!Spec, ImplementsOverlay

=============================================================================
