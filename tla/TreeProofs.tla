----------------------------- MODULE TreeProofs -----------------------------
(***************************************************************************)
(* The tree of workspaces keeps its types, and stores every workspace      *)
(* after its parent, for any connections, names, paths and failures.  The  *)
(* invariant needs what a connection holds between two steps: the instance *)
(* it will write still has the parent of the record its guid names.        *)
(* The walks of its paths need induction over a path's length: AllNumbers. *)
(*                                                                         *)
(* A context that was made stays found: until a workspace is renamed every *)
(* copy is a beginning of the table, and what is made of a path is found   *)
(* at that part of it in the copy of the connection that makes it.         *)
(*                                                                         *)
(* The tree of objects gets circles of two and orphans only from races.    *)
(* The invariant needs what a writer may still rely on of its check: what  *)
(* has become a child since is among what others wrote since.              *)
(*                                                                         *)
(* What a walk or a listing of the tree says is right, if no folder was    *)
(* written meanwhile.  Ways up are sequences of folders; there is one from *)
(* each, and by the pigeonhole principle none needs more steps than there  *)
(* are folders.  A listing that met a circle always has something to list. *)
(***************************************************************************)
EXTENDS WorkspaceTree, ObjectTree, WellFoundedInduction, FiniteSetTheorems, TLAPS

\* What a connection relies on at its next step.
Pending ==
    \A c \in Connection :
        /\ pc[c] \in {"insert", "read_id", "list"} => job[c].left # <<>>
        /\ pc[c] = "read_id" /\ job[c].kind = "workspace" => ws[c].row # 0
        /\ ws[c].id # 0 => ws[c].row # 0
        /\ ws[c].row # 0 => /\ ws[c].row \in DOMAIN table
                            /\ ws[c].up = table[ws[c].row].up

WorkspacesOK == TypeOK /\ ParentsFirst /\ Pending

\* A lookup by name returns a row of the model, or nothing.
LEMMA IdOfTypes ==
    ASSUME NEW m \in Seq(Row), NEW up, NEW name
    PROVE  IdOf(m, up, name) \in DOMAIN m \cup {Missing}
BY DEF IdOf, Matches

\* So does a lookup by path, and what it finds is at a valid path.
LEMMA ResolveTypes ==
    ASSUME NEW m \in Seq(Row), NEW path
    PROVE  /\ Resolve(m, path) \in DOMAIN m \cup {Missing}
           /\ Resolve(m, path) # Missing => path \in Seq(Name)
<1> DEFINE upto[k \in 0 .. Len(path)] ==
               IF k = 0 THEN Root ELSE IdOf(m, upto[k - 1], path[k])
<1> DEFINE found == upto[Len(path)]
<1>1. Resolve(m, path) =
          IF ValidPath(path) /\ found \in DOMAIN m THEN found ELSE Missing
  BY DEF Resolve
<1>2. DOMAIN m \subseteq Nat
  OBVIOUS
<1>3. ValidPath(path) => path \in Seq(Name)
  <2> HAVE ValidPath(path)
  <2>1. path \in Seq(Name \ {Empty})
    BY DEF ValidPath
  <2> QED BY <2>1
<1> HIDE DEF found
<1> QED
  BY <1>1, <1>2, <1>3 DEF Missing

\* The parent of a new workspace is a row of the model, or the top.
LEMMA UpOfTypes ==
    ASSUME NEW m \in Seq(Row), NEW at
    PROVE  UpOf(m, at) \in 0 .. Len(m)
BY ResolveTypes DEF UpOf, Root, Missing

\* What a call that starts has to make.
LEMMA CreateTypes ==
    ASSUME NEW kind \in {"workspace", "context"}, NEW path \in Seq(Name),
           NEW slash \in BOOLEAN, NEW left \in Seq(Element)
    PROVE  NewCreate(kind, path, slash, left) \in Create
BY DEF NewCreate, Create, Root

\* A create that fails leaves a record of its type.
LEMMA FailedTypes == Failed \in Create
<1>1. <<>> \in Seq(Name) /\ <<>> \in Seq(Element)
  OBVIOUS
<1>2. NewCreate("workspace", <<>>, TRUE, <<>>) \in Create
  BY <1>1, CreateTypes
<1> QED
  BY <1>2 DEF Failed, Create

\* Fetching the table leaves a sequence of rows in every copy.
LEMMA ListTypes ==
    ASSUME TypeOK, NEW c \in Connection, ListAll(c)
    PROVE  /\ model' \in [Connection -> Seq(Row)]
           /\ model'[c] \in {model[c], table}
           /\ \A d \in Connection \ {c} : model'[d] = model[d]
BY DEF TypeOK, ListAll

\* The elements of a context have a name of its path and a part of it.
LEMMA ElementsTypes ==
    ASSUME NEW path \in Seq(Name), NEW slash \in BOOLEAN
    PROVE  Elements(path, slash) \in Seq(Element)
<1>1. ASSUME NEW k \in DOMAIN path
      PROVE  [name |-> path[k],
              at |-> SubSeq(path, IF slash THEN 1 ELSE 2, k - 1)] \in Element
  <2>1. path[k] \in Name /\ k \in 1 .. Len(path)
    OBVIOUS
  <2>2. SubSeq(path, 1, k - 1) \in Seq(Name) /\ SubSeq(path, 2, k - 1) \in Seq(Name)
    BY <2>1
  <2> QED
    BY <2>1, <2>2 DEF Element
<1>2. Elements(path, slash) \in [1 .. Len(path) -> Element]
  BY <1>1 DEF Elements
<1>3. Len(path) \in Nat
  OBVIOUS
<1> QED
  BY <1>2, <1>3

\* A create that goes on to the next element keeps its type.
LEMMA JobTypes ==
    ASSUME NEW j \in Create, j.left # <<>>
    PROVE  /\ [j EXCEPT !.rv = FALSE, !.id = 0, !.left = Tail(@)] \in Create
           /\ [j EXCEPT !.left = Tail(@), !.up = Root] \in Create
<1>1. Tail(j.left) \in Seq(Element)
  BY DEF Create
<1> QED
  BY <1>1 DEF Create, Root

\* An instance's context is a path.
LEMMA ContextTypes ==
    ASSUME NEW m \in Seq(Row), NEW w, w.context \in Seq(Name) \cup {NoPath}
    PROVE  ContextOf(m, w) \in Seq(Name) \cup {NoPath}
BY ResolveTypes DEF ContextOf

\* Every step keeps the types.
LEMMA TypeStep == WorkspacesOK /\ [Next]_vars => TypeOK'
<1> SUFFICES ASSUME WorkspacesOK, [Next]_vars PROVE TypeOK'
  OBVIOUS
<1> USE DEF WorkspacesOK
<1>1. ASSUME NEW c \in Connection, Open(c) PROVE TypeOK'
  BY <1>1, PathAssumption DEF Open, Goto, TypeOK, Step, NewWorkspace, Workspace, Root
<1>2. ASSUME NEW c \in Connection, NEW name \in Name, NEW at \in Path \cup {<<>>},
             CreateWorkspace(c, name, at)
      PROVE  TypeOK'
  <2>1. at \in Seq(Name)
    <3>1. <<>> \in Seq(Name)
      OBVIOUS
    <3> QED BY <3>1, PathAssumption
  <2>2. Append(at, name) \in Seq(Name) /\ <<[name |-> name, at |-> at]>> \in Seq(Element)
    BY <2>1 DEF Element
  <2>3. NewCreate("workspace", Append(at, name), TRUE, <<[name |-> name, at |-> at]>>) \in Create
    BY <2>2, CreateTypes
  <2>4. NewWorkspace(name) \in Workspace
    BY DEF NewWorkspace, Workspace, Root
  <2>5. job' \in [Connection -> Create] /\ ws' \in [Connection -> Workspace]
    BY <1>2, <2>3, <2>4 DEF CreateWorkspace, TypeOK
  <2>6. pc' \in [Connection -> Step] /\ calls' \in 0 .. MaxCalls
    BY <1>2, BoundAssumption DEF CreateWorkspace, Call, Goto, TypeOK, Step
  <2> QED
    BY <1>2, <2>5, <2>6 DEF CreateWorkspace, TypeOK
<1>3. ASSUME NEW c \in Connection, NEW path \in Path, NEW slash \in BOOLEAN,
             CreateContext(c, path, slash)
      PROVE  TypeOK'
  <2>1. path \in Seq(Name)
    BY PathAssumption
  <2>2. Elements(path, slash) \in Seq(Element)
    BY <2>1, ElementsTypes
  <2>3. NewCreate("context", path, slash, Elements(path, slash)) \in Create
    BY <2>1, <2>2, CreateTypes
  <2>4. job' \in [Connection -> Create] /\ pc' \in [Connection -> Step]
    BY <1>3, <2>3, FailedTypes DEF CreateContext, Fail, Goto, TypeOK, Step
  <2> QED
    BY <1>3, <2>4, BoundAssumption DEF CreateContext, Call, TypeOK
<1>4. ASSUME NEW c \in Connection, SkipElement(c) PROVE TypeOK'
  BY <1>4, JobTypes DEF SkipElement, Goto, TypeOK, Step, Pending
<1>5. ASSUME NEW c \in Connection, RefuseElement(c) PROVE TypeOK'
  BY <1>5, FailedTypes DEF RefuseElement, Fail, Goto, TypeOK, Step
<1>6. ASSUME NEW c \in Connection, InsertElement(c) PROVE TypeOK'
  <2> DEFINE e == Head(job[c].left)
             up == UpOf(model[c], e.at)
  <2>1. e \in Element
    BY <1>6 DEF InsertElement, Pending, TypeOK, Create
  <2>2. up \in Nat
    BY UpOfTypes DEF TypeOK
  <2>3. CASE /\ table' = Append(table, [up |-> up, name |-> e.name])
             /\ job' = [job EXCEPT ![c].up = up]
             /\ \/ ws' = [ws EXCEPT ![c].row = Len(table) + 1, ![c].up = up]
                \/ ws' = ws
             /\ Goto(c, "read_id")
    <3>1. table' \in Seq(Row)
      BY <2>1, <2>2, <2>3 DEF TypeOK, Row, Element
    <3>2. ws' \in [Connection -> Workspace]
      <4>1. ws[c] \in Workspace /\ Len(table) + 1 \in Nat
        BY DEF TypeOK
      <4> HIDE DEF up
      <4>2. [ws[c] EXCEPT !.row = Len(table) + 1, !.up = up] \in Workspace
        BY <4>1, <2>2 DEF Workspace
      <4> QED BY <2>3, <4>2 DEF TypeOK
    <3>3. job' \in [Connection -> Create]
      BY <2>2, <2>3 DEF TypeOK, Create
    <3> QED
      BY <1>6, <2>3, <3>1, <3>2, <3>3 DEF InsertElement, Goto, TypeOK, Step
  <2>4. CASE Fail(c) /\ UNCHANGED <<table, ws>>
    BY <1>6, <2>4, FailedTypes DEF InsertElement, Fail, Goto, TypeOK, Step
  <2> QED
    BY <1>6, <2>3, <2>4 DEF InsertElement
<1>7. ASSUME NEW c \in Connection, ReadId(c) PROVE TypeOK'
  <2> DEFINE e == Head(job[c].left)
             id == IdOf(model'[c], job[c].up, e.name)
  <2>1. model' \in [Connection -> Seq(Row)]
    BY <1>7, ListTypes DEF ReadId
  <2>2. id # Missing => id \in Nat
    BY <2>1, IdOfTypes
  <2>3. CASE id = Missing
    BY <1>7, <2>1, <2>3, FailedTypes DEF ReadId, Fail, Goto, TypeOK, Step
  <2>4. CASE id # Missing
    <3>1. job' = [job EXCEPT ![c].id = id]
      BY <1>7, <2>4 DEF ReadId
    <3>2. job' \in [Connection -> Create]
      BY <2>2, <2>4, <3>1 DEF TypeOK, Create
    <3>3. ws' = [ws EXCEPT ![c].id = id] \/ ws' = ws
      BY <1>7, <2>4 DEF ReadId
    <3>4. ws' \in [Connection -> Workspace]
      BY <2>2, <2>4, <3>3 DEF TypeOK, Workspace
    <3> QED
      BY <1>7, <2>1, <2>4, <3>2, <3>4 DEF ReadId, Goto, TypeOK, Step
  <2> QED BY <2>3, <2>4
<1>8. ASSUME NEW c \in Connection, List(c) PROVE TypeOK'
  <2>1. job' \in [Connection -> Create]
    BY <1>8, JobTypes DEF List, TypeOK, Pending
  <2> QED
    BY <1>8, <2>1, ListTypes DEF List, Goto, TypeOK, Step
<1>9. ASSUME NEW c \in Connection, ListContext(c) PROVE TypeOK'
  BY <1>9, ListTypes DEF ListContext, Goto, TypeOK, Step
<1>10. ASSUME NEW c \in Connection, NEW path \in Path, GetByPath(c, path) PROVE TypeOK'
  <2> DEFINE id == Resolve(model[c], path)
  <2>1. id \in DOMAIN model[c]
    BY <1>10, ResolveTypes DEF GetByPath, TypeOK
  <2>2. model[c][id] \in Row /\ id \in Nat
    BY <2>1 DEF TypeOK
  <2>3. [id |-> id, row |-> id, up |-> model[c][id].up,
         name |-> model[c][id].name, context |-> NoPath] \in Workspace
    BY <2>2 DEF Workspace, Row
  <2> QED
    BY <1>10, <2>3 DEF GetByPath, TypeOK
<1>11. ASSUME NEW c \in Connection, GetContext(c) PROVE TypeOK'
  <2>1. ws[c] \in Workspace
    BY DEF TypeOK
  <2>2. ContextOf(model[c], ws[c]) \in Seq(Name) \cup {NoPath}
    BY <2>1, ContextTypes DEF TypeOK, Workspace
  <2> QED
    BY <1>11, <2>2 DEF GetContext, TypeOK, Workspace
<1>12. ASSUME NEW c \in Connection, NEW name \in Name, Update(c, name) PROVE TypeOK'
  <2> DEFINE w == [ws[c] EXCEPT !.name = name]
             context == ContextOf(model[c], w)
  <2>1. w \in Workspace
    BY DEF TypeOK, Workspace
  <2>2. context \in Seq(Name) \cup {NoPath}
    BY <2>1, ContextTypes DEF TypeOK, Workspace
  <2>3. ws' \in [Connection -> Workspace]
    <3>1. ws' = [ws EXCEPT ![c].name = name, ![c].context = context]
      BY <1>12 DEF Update
    <3> QED BY <2>2, <3>1 DEF TypeOK, Workspace
  <2>4. table' \in Seq(Row) /\ renamed' \in BOOLEAN
    <3>1. \/ UNCHANGED <<table, renamed>>
          \/ /\ table' = [table EXCEPT ![w.row] = [up |-> w.up, name |-> w.name]]
             /\ renamed' = (renamed \/ table'[w.row].name # table[w.row].name)
      BY <1>12 DEF Update
    <3>2. [up |-> w.up, name |-> w.name] \in Row
      BY <2>1 DEF Workspace, Row
    <3>3. w.row \in DOMAIN table
      BY <1>12 DEF Update, Pending, TypeOK, Workspace
    <3>4. table' \in Seq(Row)
      <4>1. table \in Seq(Row)
        BY DEF TypeOK
      <4> HIDE DEF w
      <4> QED BY <3>1, <3>2, <3>3, <4>1
    <3>5. renamed' \in BOOLEAN
      <4>1. renamed \in BOOLEAN
        BY DEF TypeOK
      <4> QED BY <3>1, <4>1, Zenon
    <3> QED BY <3>4, <3>5
  <2>5. pc' \in [Connection -> Step]
    BY <1>12 DEF Update, Goto, TypeOK, Step
  <2> QED
    BY <1>12, <2>3, <2>4, <2>5, BoundAssumption DEF Update, Call, TypeOK
<1>13. ASSUME NEW c \in Connection, ListUpdated(c) PROVE TypeOK'
  BY <1>13, ListTypes DEF ListUpdated, Goto, TypeOK, Step
<1>14. CASE UNCHANGED vars
  BY <1>14 DEF vars, TypeOK
<1> QED
  BY <1>1, <1>2, <1>3, <1>4, <1>5, <1>6, <1>7, <1>8, <1>9, <1>10, <1>11, <1>12,
     <1>13, <1>14 DEF Next

\* No step takes a workspace out of the table or gives it another parent.
LEMMA ParentsKept ==
    WorkspacesOK /\ [Next]_vars => /\ Len(table) <= Len(table')
                             /\ \A i \in DOMAIN table : table'[i].up = table[i].up
<1> SUFFICES ASSUME WorkspacesOK, [Next]_vars
             PROVE  /\ Len(table) <= Len(table')
                    /\ \A i \in DOMAIN table : table'[i].up = table[i].up
  OBVIOUS
<1>0. table \in Seq(Row) /\ Len(table) \in Nat
  BY DEF WorkspacesOK, TypeOK
<1>1. CASE table' = table
  BY <1>0, <1>1
<1>2. ASSUME NEW c \in Connection, InsertElement(c), table' # table
      PROVE  /\ Len(table) <= Len(table')
             /\ \A i \in DOMAIN table : table'[i].up = table[i].up
  <2>1. PICK row : table' = Append(table, row)
    BY <1>2 DEF InsertElement
  <2> QED BY <1>0, <2>1
<1>3. ASSUME NEW c \in Connection, NEW name \in Name, Update(c, name), table' # table
      PROVE  /\ Len(table) <= Len(table')
             /\ \A i \in DOMAIN table : table'[i].up = table[i].up
  <2> DEFINE w == [ws[c] EXCEPT !.name = name]
  <2>1. table' = [table EXCEPT ![w.row] = [up |-> w.up, name |-> w.name]]
    BY <1>3 DEF Update
  <2>2. ws[c] \in Workspace
    BY DEF WorkspacesOK, TypeOK
  <2>3. w.id = ws[c].id /\ w.row = ws[c].row /\ w.up = ws[c].up
    BY <2>2 DEF Workspace
  <2>4. w.id # 0
    BY <1>3 DEF Update
  <2>5. w.row \in DOMAIN table /\ w.up = table[w.row].up
    BY <2>3, <2>4 DEF WorkspacesOK, Pending
  <2> HIDE DEF w
  <2> QED BY <1>0, <2>1, <2>5
<1> QED
  BY <1>1, <1>2, <1>3
  DEF Next, vars, Open, CreateWorkspace, CreateContext, SkipElement, RefuseElement,
      ReadId, List, ListContext, GetByPath, GetContext, ListUpdated

\* A copy changes only to what the table is.
LEMMA ModelsCopied ==
    WorkspacesOK /\ [Next]_vars =>
        \A d \in Connection : model'[d] = model[d] \/ model'[d] = table
<1> SUFFICES ASSUME WorkspacesOK, [Next]_vars, NEW d \in Connection
             PROVE  model'[d] = model[d] \/ model'[d] = table
  OBVIOUS
<1>1. CASE model' = model
  BY <1>1
<1>2. ASSUME NEW c \in Connection, \/ ListAll(c)
                                   \/ model' = [model EXCEPT ![c] = table]
      PROVE  model'[d] = model[d] \/ model'[d] = table
  BY <1>2 DEF ListAll, WorkspacesOK, TypeOK
<1> QED
  BY <1>1, <1>2
  DEF Next, vars, Open, CreateWorkspace, CreateContext, SkipElement, RefuseElement,
      InsertElement, ReadId, List, ListContext, GetByPath, GetContext, Update, ListUpdated

\* A row is stored after its parent: the parent was found in a copy, no longer
\* than the table.
LEMMA ParentsStep == WorkspacesOK /\ [Next]_vars => ParentsFirst'
<1> SUFFICES ASSUME WorkspacesOK, [Next]_vars PROVE ParentsFirst'
  OBVIOUS
<1>0. /\ table \in Seq(Row) /\ table' \in Seq(Row)
      /\ Len(table) \in Nat /\ Len(table') \in Nat
      /\ \A c \in Connection : model[c] \in Seq(Row) /\ model'[c] \in Seq(Row)
  BY TypeStep DEF WorkspacesOK, TypeOK
<1>1. /\ Len(table) <= Len(table')
      /\ \A i \in DOMAIN table : table'[i].up = table[i].up
  BY ParentsKept
<1>2. \A i \in DOMAIN table' : table'[i].up < i
  <2>1. CASE Len(table') = Len(table)
    <3>1. DOMAIN table' = DOMAIN table
      BY <1>0, <2>1
    <3> QED BY <1>1, <3>1 DEF WorkspacesOK, ParentsFirst
  <2>2. ASSUME NEW c \in Connection, InsertElement(c), Len(table') # Len(table)
        PROVE  \A i \in DOMAIN table' : table'[i].up < i
    <3> DEFINE e == Head(job[c].left)
               up == UpOf(model[c], e.at)
    <3>1. table' = Append(table, [up |-> up, name |-> e.name])
      BY <2>2 DEF InsertElement
    <3>2. up \in 0 .. Len(model[c]) /\ Len(model[c]) <= Len(table) /\ Len(model[c]) \in Nat
      BY <1>0, UpOfTypes DEF WorkspacesOK, ParentsFirst
    <3> HIDE DEF up, e
    <3>3. table'[Len(table) + 1].up < Len(table) + 1
      BY <1>0, <3>1, <3>2
    <3>4. DOMAIN table' = DOMAIN table \cup {Len(table) + 1}
      BY <1>0, <3>1
    <3> QED BY <1>1, <3>3, <3>4 DEF WorkspacesOK, ParentsFirst
  <2>3. ASSUME NEW c \in Connection, NEW name \in Name, Update(c, name)
        PROVE  Len(table') = Len(table)
    <3>1. \/ table' = table
          \/ \E i, row : table' = [table EXCEPT ![i] = row]
      BY <2>3 DEF Update
    <3> QED BY <1>0, <3>1
  <2> QED
    BY <2>1, <2>2, <2>3
    DEF Next, vars, Open, CreateWorkspace, CreateContext, SkipElement, RefuseElement,
        ReadId, List, ListContext, GetByPath, GetContext, ListUpdated
<1>3. ASSUME NEW c \in Connection
      PROVE  /\ Len(model'[c]) <= Len(table')
             /\ \A i \in DOMAIN model'[c] : model'[c][i].up = table'[i].up
  <2>1. CASE model'[c] = model[c]
    BY <1>0, <1>1, <2>1 DEF WorkspacesOK, ParentsFirst
  <2>2. CASE model'[c] = table
    BY <1>0, <1>1, <2>2
  <2> QED BY <2>1, <2>2, ModelsCopied
<1> QED
  BY <1>2, <1>3 DEF ParentsFirst

\* What the connection d relies on, after a step.
Held(d) ==
    /\ pc'[d] \in {"insert", "read_id", "list"} => job'[d].left # <<>>
    /\ pc'[d] = "read_id" /\ job'[d].kind = "workspace" => ws'[d].row # 0
    /\ ws'[d].id # 0 => ws'[d].row # 0
    /\ ws'[d].row # 0 => /\ ws'[d].row \in DOMAIN table'
                         /\ ws'[d].up = table'[ws'[d].row].up

\* A sequence of several elements has one after its first.
LEMMA TailNotEmpty ==
    ASSUME NEW s \in Seq(Element), s # <<>>, Len(s) # 1
    PROVE  Tail(s) # <<>> /\ Len(s) > 1
<1> DEFINE n == Len(s)
<1>1. n \in Nat /\ n # 0 /\ n # 1
  OBVIOUS
<1>2. Tail(s) \in Seq(Element) /\ Len(Tail(s)) = n - 1
  BY <1>1
<1> HIDE DEF n
<1>3. n > 1 /\ n - 1 # 0
  BY <1>1
<1>4. Tail(s) # <<>>
  BY <1>2, <1>3
<1> QED BY <1>3, <1>4 DEF n

\* What a connection holds stays true of the table, whoever writes to it.
LEMMA PendingStep == WorkspacesOK /\ [Next]_vars => Pending'
<1> SUFFICES ASSUME WorkspacesOK, [Next]_vars, NEW d \in Connection
             PROVE  Held(d)
  BY DEF Pending, Held
<1>0. /\ table \in Seq(Row) /\ table' \in Seq(Row)
      /\ Len(table) \in Nat /\ Len(table') \in Nat
      /\ ws \in [Connection -> Workspace] /\ job \in [Connection -> Create]
      /\ pc \in [Connection -> Step] /\ model \in [Connection -> Seq(Row)]
  BY TypeStep DEF WorkspacesOK, TypeOK
<1>1. /\ pc[d] \in {"insert", "read_id", "list"} => job[d].left # <<>>
      /\ pc[d] = "read_id" /\ job[d].kind = "workspace" => ws[d].row # 0
      /\ ws[d].id # 0 => ws[d].row # 0
      /\ ws[d].row # 0 => /\ ws[d].row \in DOMAIN table
                          /\ ws[d].up = table[ws[d].row].up
  BY DEF WorkspacesOK, Pending
<1>2. \A i \in DOMAIN table : i \in DOMAIN table' /\ table'[i].up = table[i].up
  <2>1. Len(table) <= Len(table') /\ \A i \in DOMAIN table : table'[i].up = table[i].up
    BY ParentsKept
  <2> QED BY <1>0, <2>1
<1>3. ws[d] \in Workspace /\ job[d] \in Create /\ job[d].left \in Seq(Element)
  BY <1>0 DEF Create
<1>4. CASE pc'[d] = pc[d] /\ job'[d] = job[d] /\ ws'[d] = ws[d]
  BY <1>1, <1>2, <1>4 DEF Held
<1>5. CASE Open(d)
  BY <1>0, <1>5 DEF Open, Goto, Held, NewWorkspace
<1>6. ASSUME NEW name \in Name, NEW at, CreateWorkspace(d, name, at) PROVE Held(d)
  <2>1. /\ ws'[d] = NewWorkspace(name) /\ pc'[d] = "insert"
        /\ job'[d].left = <<[name |-> name, at |-> at]>>
    BY <1>0, <1>6 DEF CreateWorkspace, Goto, NewCreate
  <2> QED BY <2>1 DEF Held, NewWorkspace
<1>7. ASSUME NEW path \in Path, NEW slash \in BOOLEAN, CreateContext(d, path, slash)
      PROVE  Held(d)
  <2>1. CASE ValidPath(path) /\ job'[d] = NewCreate("context", path, slash, Elements(path, slash))
    <3>1. path \in Seq(Name) /\ path # <<>>
      BY <2>1, PathAssumption DEF ValidPath
    <3>2. DOMAIN Elements(path, slash) = 1 .. Len(path) /\ Len(path) \in Nat /\ Len(path) # 0
      BY <3>1 DEF Elements
    <3>3. Elements(path, slash) \in Seq(Element)
      BY <3>1, ElementsTypes
    <3>4. Elements(path, slash) # <<>>
      BY <3>2, <3>3
    <3>5. job'[d].left # <<>> /\ job'[d].kind = "context"
      BY <2>1, <3>4 DEF NewCreate
    <3>6. ws'[d] = ws[d] /\ table' = table
      BY <1>7 DEF CreateContext
    <3> QED BY <1>1, <3>5, <3>6 DEF Held
  <2>2. CASE Fail(d)
    BY <1>0, <1>1, <1>7, <2>2 DEF CreateContext, Fail, Goto, Held
  <2> QED
    BY <1>0, <1>7, <2>1, <2>2 DEF CreateContext
<1>8. CASE SkipElement(d)
  <2>1. job[d].left # <<>> /\ job[d].kind = "context"
    BY <1>1, <1>8 DEF SkipElement
  <2>2. job'[d].left = Tail(job[d].left) /\ job'[d].kind = "context"
    BY <1>0, <1>3, <1>8, <2>1 DEF SkipElement, Create
  <2>3. pc'[d] = (IF Len(job[d].left) = 1 THEN "idle" ELSE "insert")
    BY <1>0, <1>8 DEF SkipElement, Goto
  <2>4. Len(job[d].left) # 1 => Tail(job[d].left) # <<>>
    BY <1>3, <2>1, TailNotEmpty
  <2> QED BY <1>1, <1>8, <2>2, <2>3, <2>4 DEF SkipElement, Held
<1>9. CASE RefuseElement(d)
  BY <1>0, <1>1, <1>9 DEF RefuseElement, Fail, Goto, Held
<1>10. CASE InsertElement(d)
  <2> DEFINE e == Head(job[d].left)
             up == UpOf(model[d], e.at)
  <2>1. job[d].left # <<>>
    BY <1>1, <1>10 DEF InsertElement
  <2>2. CASE /\ table' = Append(table, [up |-> up, name |-> e.name])
             /\ job' = [job EXCEPT ![d].up = up]
             /\ ws' = IF job[d].kind = "workspace"
                      THEN [ws EXCEPT ![d].row = Len(table) + 1, ![d].up = up] ELSE ws
             /\ Goto(d, "read_id")
    <3> HIDE DEF up, e
    <3>1. job'[d].left # <<>> /\ job'[d].kind = job[d].kind /\ pc'[d] = "read_id"
      BY <1>0, <1>3, <2>1, <2>2 DEF Create, Goto
    <3>2. CASE job[d].kind = "workspace"
      <4>1. ws'[d].row = Len(table) + 1 /\ ws'[d].up = up
        BY <1>0, <1>3, <2>2, <3>2 DEF Workspace
      <4>2. Len(table) + 1 \in DOMAIN table' /\ table'[Len(table) + 1].up = up
        BY <1>0, <2>2
      <4> QED BY <1>0, <3>1, <4>1, <4>2 DEF Held
    <3>3. CASE job[d].kind # "workspace"
      BY <1>1, <1>2, <2>2, <3>1, <3>3 DEF Held
    <3> QED BY <3>2, <3>3
  <2>3. CASE Fail(d) /\ UNCHANGED <<table, ws>>
    BY <1>0, <1>1, <2>3 DEF Fail, Goto, Held
  <2> QED BY <1>10, <2>2, <2>3 DEF InsertElement
<1>11. CASE ReadId(d)
  <2>1. CASE Fail(d) /\ UNCHANGED ws
    BY <1>0, <1>1, <1>11, <2>1 DEF ReadId, Fail, Goto, Held
  <2>2. ASSUME NEW id, job' = [job EXCEPT ![d].id = id],
               ws' = IF job[d].kind = "workspace" THEN [ws EXCEPT ![d].id = id] ELSE ws,
               Goto(d, "list")
        PROVE  Held(d)
    <3>1. job[d].left # <<>> /\ (job[d].kind = "workspace" => ws[d].row # 0)
      BY <1>1, <1>11 DEF ReadId
    <3>2. job'[d].left # <<>> /\ pc'[d] = "list"
      BY <1>0, <1>3, <2>2, <3>1 DEF Create, Goto
    <3>3. ws'[d].row = ws[d].row /\ ws'[d].up = ws[d].up /\ table' = table
      BY <1>0, <1>3, <1>11, <2>2 DEF Workspace, ReadId
    <3>4. ws'[d].id # 0 => ws'[d].row # 0
      BY <1>1, <2>2, <3>1, <3>3
    <3> QED BY <1>1, <3>2, <3>3, <3>4 DEF Held
  <2> QED BY <1>11, <2>1, <2>2 DEF ReadId
<1>12. CASE List(d)
  <2>1. job[d].left # <<>>
    BY <1>1, <1>12 DEF List
  <2>2. job'[d].left = Tail(job[d].left)
    BY <1>0, <1>3, <1>12 DEF List, Create
  <2>3. /\ pc'[d] \in {"insert", "list_context", "idle"}
        /\ pc'[d] = "insert" => Len(job[d].left) > 1
    BY <1>0, <1>12 DEF List, Goto
  <2>4. Len(job[d].left) > 1 => Tail(job[d].left) # <<>>
    <3> DEFINE n == Len(job[d].left)
    <3>1. n > 1 => n # 1
      <4>1. n \in Nat
        BY <1>3
      <4> HIDE DEF n
      <4> QED BY <4>1
    <3> QED BY <1>3, <2>1, <3>1, TailNotEmpty
  <2> QED BY <1>1, <1>12, <2>2, <2>3, <2>4 DEF List, Held
<1>13. CASE ListContext(d) \/ ListUpdated(d)
  BY <1>0, <1>1, <1>13 DEF ListContext, ListUpdated, Goto, Held
<1>14. ASSUME NEW path \in Path, GetByPath(d, path) PROVE Held(d)
  <2> DEFINE id == Resolve(model[d], path)
  <2>1. id \in DOMAIN model[d]
    BY <1>0, <1>14, ResolveTypes DEF GetByPath
  <2>2. id \in DOMAIN table /\ model[d][id].up = table[id].up /\ id # 0
    <3>1. /\ Len(model[d]) <= Len(table)
          /\ \A i \in DOMAIN model[d] : model[d][i].up = table[i].up
      BY DEF WorkspacesOK, ParentsFirst
    <3> QED BY <1>0, <2>1, <3>1
  <2>3. ws'[d].id = id /\ ws'[d].row = id /\ ws'[d].up = model[d][id].up
    BY <1>0, <1>14 DEF GetByPath
  <2>4. pc' = pc /\ table' = table /\ job' = job /\ pc[d] = "idle"
    BY <1>14 DEF GetByPath
  <2> HIDE DEF id
  <2> QED BY <2>2, <2>3, <2>4 DEF Held
<1>15. CASE GetContext(d)
  <2>1. ws'[d].id = ws[d].id /\ ws'[d].row = ws[d].row /\ ws'[d].up = ws[d].up
    BY <1>0, <1>3, <1>15 DEF GetContext, Workspace
  <2> QED BY <1>1, <1>15, <2>1 DEF GetContext, Held
<1>16. ASSUME NEW name \in Name, Update(d, name) PROVE Held(d)
  <2>1. ws'[d].id = ws[d].id /\ ws'[d].row = ws[d].row /\ ws'[d].up = ws[d].up
    BY <1>0, <1>3, <1>16 DEF Update, Workspace
  <2>2. pc'[d] \in {"crashed", "idle", "list_updated"}
    BY <1>0, <1>16 DEF Update, Goto
  <2> QED BY <1>1, <1>2, <2>1, <2>2 DEF Held
<1>17. ASSUME NEW c \in Connection \ {d},
              pc'[d] # pc[d] \/ job'[d] # job[d] \/ ws'[d] # ws[d]
       PROVE  /\ ~Open(c)
              /\ \A name \in Name, at \in Path \cup {<<>>} : ~CreateWorkspace(c, name, at)
              /\ \A path \in Path, slash \in BOOLEAN : ~CreateContext(c, path, slash)
              /\ ~SkipElement(c) /\ ~RefuseElement(c) /\ ~InsertElement(c)
              /\ ~ReadId(c) /\ ~List(c) /\ ~ListContext(c)
              /\ \A path \in Path : ~GetByPath(c, path)
              /\ ~GetContext(c)
              /\ \A name \in Name : ~Update(c, name)
              /\ ~ListUpdated(c)
  <2>1. c \in Connection /\ c # d
    BY <1>17
  <2> QED
    BY <1>0, <1>17, <2>1
    DEF Open, CreateWorkspace, CreateContext, SkipElement, RefuseElement, InsertElement,
        ReadId, List, ListContext, GetByPath, GetContext, Update, ListUpdated, Goto, Fail
<1>18. CASE UNCHANGED vars
  BY <1>4, <1>18 DEF vars
<1> QED
  BY <1>4, <1>5, <1>6, <1>7, <1>8, <1>9, <1>10, <1>11, <1>12, <1>13, <1>14, <1>15,
     <1>16, <1>17, <1>18 DEF Next

\* At the start there is no workspace and no call.
LEMMA WorkspacesInit == Init => WorkspacesOK
<1> SUFFICES ASSUME Init PROVE WorkspacesOK
  OBVIOUS
<1>1. <<>> \in Seq(Row) /\ <<>> \in Seq(Name) /\ <<>> \in Seq(Element)
  OBVIOUS
<1>2. NewCreate("workspace", <<>>, TRUE, <<>>) \in Create
  BY <1>1, CreateTypes
<1>3. NewWorkspace(Empty) \in Workspace
  BY PathAssumption DEF NewWorkspace, Workspace, Root
<1>4. TypeOK
  <2>1. table \in Seq(Row) /\ model \in [Connection -> Seq(Row)]
    BY <1>1 DEF Init
  <2>2. ws \in [Connection -> Workspace] /\ job \in [Connection -> Create]
    BY <1>2, <1>3 DEF Init
  <2>3. pc \in [Connection -> Step] /\ calls \in 0 .. MaxCalls /\ renamed \in BOOLEAN
    <3>1. 0 \in 0 .. MaxCalls
      BY BoundAssumption
    <3> QED BY <3>1 DEF Init, Step
  <2> QED BY <2>1, <2>2, <2>3 DEF TypeOK
<1>5. ParentsFirst /\ Pending
  BY <1>1 DEF Init, ParentsFirst, Pending, NewWorkspace
<1> QED BY <1>4, <1>5 DEF WorkspacesOK

\* The invariant, of every behaviour.
LEMMA WorkspacesInvariant == Spec => []WorkspacesOK
<1>1. WorkspacesOK /\ [Next]_vars => WorkspacesOK'
  BY TypeStep, ParentsStep, PendingStep DEF WorkspacesOK
<1> QED BY WorkspacesInit, <1>1, PTL DEF Spec

\* The state of the workspaces has its types: the manager, an instance and the
\* copies of the table, for any paths and names.
THEOREM WorkspacesType == Spec => []TypeOK
<1>1. WorkspacesOK => TypeOK
  BY DEF WorkspacesOK
<1> QED BY WorkspacesInvariant, <1>1, PTL

\* Whatever connections create, fetch and rename at the same time, a workspace
\* is stored after its parent and keeps it, in the table and in every copy: the
\* walks up the tree of midgard_core_workspace.c end.
THEOREM ParentsAreFirst == Spec => []ParentsFirst
<1>1. WorkspacesOK => ParentsFirst
  BY DEF WorkspacesOK
<1> QED BY WorkspacesInvariant, <1>1, PTL

-----------------------------------------------------------------------------
(* The walks of the tree of workspaces                                     *)

\* Induction, over a set of numbers.
LEMMA AllNumbers ==
    ASSUME NEW S \in SUBSET Nat, 0 \in S, \A n \in S : n + 1 \in S
    PROVE  S = Nat
<1> SUFFICES ASSUME Nat \ S # {} PROVE FALSE
  OBVIOUS
<1>1. PICK T : T = Nat \ S
  OBVIOUS
<1>2. PICK n \in T : \A k \in T : ~(<<k, n>> \in OpToRel(<, Nat))
  BY <1>1, NatLessThanWellFounded, WFMin
<1>3. n \in Nat /\ n \notin S /\ \A k \in Nat : k \notin S => ~(k < n)
  BY <1>1, <1>2 DEF OpToRel
<1>4. n # 0
  BY <1>3
<1>5. n - 1 \in S
  BY <1>3, <1>4
<1>6. (n - 1) + 1 \in S
  BY <1>5
<1>7. (n - 1) + 1 = n
  BY <1>3
<1> QED BY <1>3, <1>6, <1>7

\* The walk from the top, as far as it gets: what Resolve ends with.
Steps(m, path) ==
    LET walk_[k \in 0 .. Len(path)] ==
            IF k = 0 THEN Root ELSE IdOf(m, walk_[k - 1], path[k])
    IN  walk_

LEMMA ResolveSteps ==
    ASSUME NEW m, NEW path
    PROVE  Resolve(m, path) = IF ValidPath(path) /\ Steps(m, path)[Len(path)] \in DOMAIN m
                              THEN Steps(m, path)[Len(path)] ELSE Missing
BY DEF Resolve, Steps

\* The walk is defined: each step from the one before.
LEMMA StepsAre ==
    ASSUME NEW m, NEW path \in Seq(Name)
    PROVE  Steps(m, path) =
             [k \in 0 .. Len(path) |->
                IF k = 0 THEN Root ELSE IdOf(m, Steps(m, path)[k - 1], path[k])]
<1> DEFINE Walks(n) ==
             \E f : f = [k \in 0 .. n |-> IF k = 0 THEN Root ELSE IdOf(m, f[k - 1], path[k])]
<1>1. Walks(0)
  <2>1. PICK f : f = [k \in 0 .. 0 |-> Root]
    OBVIOUS
  <2>2. f = [k \in 0 .. 0 |-> IF k = 0 THEN Root ELSE IdOf(m, f[k - 1], path[k])]
    BY <2>1
  <2> QED BY <2>2
<1>2. ASSUME NEW n \in Nat, Walks(n)
      PROVE  Walks(n + 1)
  <2>1. PICK f : f = [k \in 0 .. n |-> IF k = 0 THEN Root ELSE IdOf(m, f[k - 1], path[k])]
    BY <1>2
  <2>2. PICK g : g = [k \in 0 .. n + 1 |-> IF k \in 0 .. n THEN f[k]
                                           ELSE IdOf(m, f[n], path[n + 1])]
    OBVIOUS
  <2>3. \A k \in 0 .. n + 1 :
           g[k] = IF k = 0 THEN Root ELSE IdOf(m, g[k - 1], path[k])
    <3> SUFFICES ASSUME NEW k \in 0 .. n + 1
                 PROVE  g[k] = IF k = 0 THEN Root ELSE IdOf(m, g[k - 1], path[k])
      OBVIOUS
    <3>1. CASE k = 0
      BY <2>1, <2>2, <3>1
    <3>2. CASE k \in 1 .. n
      <4>1. k \in 0 .. n /\ k # 0 /\ k - 1 \in 0 .. n /\ k - 1 \in 0 .. n + 1 /\ k \in 0 .. n + 1
        BY <3>2
      <4>2. g[k] = f[k] /\ g[k - 1] = f[k - 1]
        BY <2>2, <4>1
      <4>3. f[k] = IdOf(m, f[k - 1], path[k])
        BY <2>1, <4>1
      <4> QED BY <4>1, <4>2, <4>3
    <3>3. CASE k = n + 1
      <4>1. n \in 0 .. n /\ n \in 0 .. n + 1 /\ n + 1 \notin 0 .. n /\ k - 1 = n /\ k # 0
        BY <3>3
      <4>2. g[n] = f[n] /\ g[k] = IdOf(m, f[n], path[n + 1])
        BY <2>2, <3>3, <4>1
      <4> QED BY <3>3, <4>1, <4>2
    <3> QED BY <3>1, <3>2, <3>3
  <2>4. g = [k \in 0 .. n + 1 |-> g[k]]
    BY <2>2
  <2>5. g = [k \in 0 .. n + 1 |-> IF k = 0 THEN Root ELSE IdOf(m, g[k - 1], path[k])]
    BY <2>3, <2>4
  <2> QED BY <2>5
<1>3. PICK S : S = {n \in Nat : Walks(n)}
  OBVIOUS
<1>4. \A n \in Nat : Walks(n)
  <2> HIDE DEF Walks
  <2>1. 0 \in S /\ \A n \in S : n + 1 \in S
    BY <1>1, <1>2, <1>3
  <2>2. S = Nat
    BY <1>3, <2>1, AllNumbers
  <2> QED BY <1>3, <2>2
<1>5. Walks(Len(path))
  <2> HIDE DEF Walks
  <2> QED BY <1>4
<1> QED BY <1>5, Zenon DEF Steps

LEMMA RowsAre ==
    ASSUME NEW m \in Seq(Row), NEW i \in DOMAIN m
    PROVE  i \in Nat \ {0} /\ i <= Len(m) /\ m[i].up \in Nat /\ m[i].name \in Name
<1>1. m[i] \in Row /\ i \in 1 .. Len(m)
  OBVIOUS
<1> QED BY <1>1 DEF Row

\* A lookup by name finds the first row of that name and parent.
LEMMA IdOfFirst ==
    ASSUME NEW m \in Seq(Row), NEW up, NEW name, IdOf(m, up, name) # Missing
    PROVE  /\ IdOf(m, up, name) \in DOMAIN m
           /\ m[IdOf(m, up, name)].up = up /\ m[IdOf(m, up, name)].name = name
           /\ \A j \in DOMAIN m : m[j].up = up /\ m[j].name = name => IdOf(m, up, name) <= j
<1> DEFINE first == {i \in Matches(m, up, name) : \A j \in Matches(m, up, name) : i <= j}
<1>1. first # {} /\ IdOf(m, up, name) = CHOOSE i \in first : TRUE
  BY DEF IdOf
<1>2. IdOf(m, up, name) \in first
  <2> HIDE DEF first
  <2> QED BY <1>1
<1> QED BY <1>2 DEF Matches

LEMMA IdOfIs ==
    ASSUME NEW m \in Seq(Row), NEW up, NEW name, NEW i \in DOMAIN m,
           m[i].up = up, m[i].name = name,
           \A j \in DOMAIN m : m[j].up = up /\ m[j].name = name => i <= j
    PROVE  IdOf(m, up, name) = i
<1> DEFINE first == {k \in Matches(m, up, name) : \A j \in Matches(m, up, name) : k <= j}
<1>1. \A k \in DOMAIN m : k \in Int
  OBVIOUS
<1>2. first = {i}
  <2>1. i \in first
    BY DEF Matches
  <2>2. ASSUME NEW k \in first
        PROVE  k = i
    <3>1. k <= i /\ i <= k /\ k \in Int /\ i \in Int
      BY <1>1, <2>1, <2>2 DEF Matches
    <3> QED BY <3>1
  <2> HIDE DEF first
  <2> QED BY <2>1, <2>2
<1>3. IdOf(m, up, name) = IF first = {} THEN Missing ELSE CHOOSE k \in first : TRUE
  BY DEF IdOf
<1> HIDE DEF first
<1> QED BY <1>2, <1>3

\* The places a walk comes to.
LEMMA StepsFrom ==
    ASSUME NEW m, NEW path \in Seq(Name)
    PROVE  /\ Steps(m, path)[0] = Root
           /\ \A k \in 0 .. Len(path) : k < Len(path) =>
                 Steps(m, path)[k + 1] = IdOf(m, Steps(m, path)[k], path[k + 1])
<1>1. 0 \in 0 .. Len(path)
  OBVIOUS
<1>2. Steps(m, path)[0] = Root
  BY <1>1, StepsAre
<1>3. ASSUME NEW k \in 0 .. Len(path), k < Len(path)
      PROVE  Steps(m, path)[k + 1] = IdOf(m, Steps(m, path)[k], path[k + 1])
  <2>1. k + 1 \in 0 .. Len(path) /\ k + 1 # 0 /\ (k + 1) - 1 = k
    BY <1>3
  <2> QED BY <2>1, StepsAre
<1> QED BY <1>2, <1>3

\* A walk that has lost its way does not find it again: nothing is below what
\* is missing.
LEMMA StepsStand ==
    ASSUME NEW m \in Seq(Row), NEW path \in Seq(Name), Steps(m, path)[Len(path)] # Missing
    PROVE  \A k \in 0 .. Len(path) : Steps(m, path)[k] \in DOMAIN m \cup {Root}
<1>1. Len(path) \in Nat
  OBVIOUS
<1>2. ASSUME NEW up \in {Missing}, NEW name
      PROVE  IdOf(m, up, name) = Missing
  <2> SUFFICES ASSUME IdOf(m, up, name) # Missing PROVE FALSE
    OBVIOUS
  <2>1. \E i \in DOMAIN m : m[i].up = Missing
    BY <1>2, IdOfFirst
  <2>2. \A i \in DOMAIN m : m[i].up \in Nat
    BY RowsAre
  <2> QED BY <2>1, <2>2 DEF Missing
<1>3. ASSUME NEW k \in 0 .. Len(path), Steps(m, path)[k] = Missing
      PROVE  FALSE
  <2>1. PICK S : S = {j \in Nat : k + j <= Len(path) => Steps(m, path)[k + j] = Missing}
    OBVIOUS
  <2>2. 0 \in S
    BY <1>3, <2>1
  <2>3. ASSUME NEW j \in S
        PROVE  j + 1 \in S
    <3> SUFFICES ASSUME k + (j + 1) <= Len(path)
                 PROVE  Steps(m, path)[k + (j + 1)] = Missing
      BY <2>1
    <3>1. j \in Nat /\ k + j \in 0 .. Len(path) /\ k + j < Len(path)
          /\ k + (j + 1) = (k + j) + 1
      BY <2>1, <1>1
    <3>2. Steps(m, path)[k + j] = Missing
      BY <2>1, <3>1
    <3>3. Steps(m, path)[(k + j) + 1] = IdOf(m, Steps(m, path)[k + j], path[(k + j) + 1])
      BY <3>1, StepsFrom
    <3> QED BY <1>2, <3>1, <3>2, <3>3
  <2>4. S = Nat
    BY <2>1, <2>2, <2>3, AllNumbers
  <2>5. Len(path) - k \in S /\ k + (Len(path) - k) = Len(path)
    BY <1>1, <2>4
  <2> QED BY <2>1, <2>5
<1>4. ASSUME NEW k \in 0 .. Len(path)
      PROVE  Steps(m, path)[k] \in DOMAIN m \cup {Root, Missing}
  <2>1. CASE k = 0
    BY <2>1, StepsFrom
  <2>2. CASE k # 0
    <3>1. Steps(m, path)[k] = IdOf(m, Steps(m, path)[k - 1], path[k])
      BY <2>2, StepsAre
    <3> QED BY <3>1, IdOfTypes
  <2> QED BY <2>1, <2>2
<1> QED BY <1>3, <1>4

\* The names from the top down to each workspace.
Names(m) ==
    LET names_[i \in 0 .. Len(m)] ==
            IF i = Root THEN <<>> ELSE Append(names_[m[i].up], m[i].name)
    IN  names_

LEMMA NamesToIs ==
    ASSUME NEW m, NEW id
    PROVE  NamesTo(m, id) = Names(m)[id]
BY DEF NamesTo, Names

LEMMA NamesAre ==
    ASSUME NEW m \in Seq(Row), \A i \in DOMAIN m : m[i].up < i
    PROVE  Names(m) = [i \in 0 .. Len(m) |->
              IF i = Root THEN <<>> ELSE Append(Names(m)[m[i].up], m[i].name)]
<1> DEFINE Named(n) ==
             n <= Len(m) => \E f : f = [i \in 0 .. n |-> IF i = Root THEN <<>>
                                                         ELSE Append(f[m[i].up], m[i].name)]
<1>0. \A i \in DOMAIN m : m[i].up \in 0 .. i - 1
  BY RowsAre
<1>1. Named(0)
  <2>1. PICK f : f = [i \in 0 .. 0 |-> <<>>]
    OBVIOUS
  <2>2. f = [i \in 0 .. 0 |-> IF i = Root THEN <<>> ELSE Append(f[m[i].up], m[i].name)]
    BY <2>1 DEF Root
  <2> QED BY <2>2
<1>2. ASSUME NEW n \in Nat, Named(n), n + 1 <= Len(m)
      PROVE  \E f : f = [i \in 0 .. n + 1 |-> IF i = Root THEN <<>>
                                              ELSE Append(f[m[i].up], m[i].name)]
  <2>0. n <= Len(m) /\ Len(m) \in Nat
    BY <1>2
  <2>1. PICK f : f = [i \in 0 .. n |-> IF i = Root THEN <<>>
                                       ELSE Append(f[m[i].up], m[i].name)]
    BY <1>2, <2>0
  <2>2. PICK g : g = [i \in 0 .. n + 1 |-> IF i \in 0 .. n THEN f[i]
                                           ELSE Append(f[m[n + 1].up], m[n + 1].name)]
    OBVIOUS
  <2>3. \A i \in 0 .. n + 1 :
           g[i] = IF i = Root THEN <<>> ELSE Append(g[m[i].up], m[i].name)
    <3> SUFFICES ASSUME NEW i \in 0 .. n + 1
                 PROVE  g[i] = IF i = Root THEN <<>> ELSE Append(g[m[i].up], m[i].name)
      OBVIOUS
    <3>1. CASE i = Root
      BY <2>1, <2>2, <3>1 DEF Root
    <3>2. CASE i \in 1 .. n
      <4>1. i \in DOMAIN m /\ i \in 0 .. n /\ i # Root
        BY <2>0, <3>2 DEF Root
      <4>2. m[i].up \in 0 .. n /\ m[i].up \in 0 .. n + 1
        BY <1>0, <4>1
      <4>3. g[i] = f[i] /\ g[m[i].up] = f[m[i].up]
        BY <2>2, <4>1, <4>2
      <4>4. f[i] = Append(f[m[i].up], m[i].name)
        BY <2>1, <4>1
      <4> QED BY <4>1, <4>3, <4>4
    <3>3. CASE i = n + 1
      <4>1. i \in DOMAIN m /\ i \notin 0 .. n /\ i # Root
        BY <1>2, <3>3 DEF Root
      <4>2. m[i].up \in 0 .. n /\ m[i].up \in 0 .. n + 1
        BY <1>0, <3>3, <4>1
      <4>3. g[m[i].up] = f[m[i].up]
        BY <2>2, <4>2
      <4>4. g[i] = Append(f[m[i].up], m[i].name)
        BY <2>2, <3>3, <4>1
      <4> QED BY <4>1, <4>3, <4>4
    <3> QED BY <3>1, <3>2, <3>3 DEF Root
  <2>4. g = [i \in 0 .. n + 1 |-> g[i]]
    BY <2>2
  <2>5. g = [i \in 0 .. n + 1 |-> IF i = Root THEN <<>> ELSE Append(g[m[i].up], m[i].name)]
    BY <2>3, <2>4
  <2> QED BY <2>5
<1>3. PICK S : S = {n \in Nat : Named(n)}
  OBVIOUS
<1>4. \A n \in Nat : Named(n)
  <2>1. \A n \in Nat : Named(n) => Named(n + 1)
    BY <1>2
  <2> HIDE DEF Named
  <2>2. 0 \in S /\ \A n \in S : n + 1 \in S
    BY <1>1, <1>3, <2>1
  <2>3. S = Nat
    BY <1>3, <2>2, AllNumbers
  <2> QED BY <1>3, <2>3
<1>5. \E f : f = [i \in 0 .. Len(m) |-> IF i = Root THEN <<>>
                                        ELSE Append(f[m[i].up], m[i].name)]
  BY <1>4
<1> QED BY <1>5, Zenon DEF Names

\* Where a walk has come to has for its names those it was led by.
LEMMA NamesOfSteps ==
    ASSUME NEW m \in Seq(Row), \A i \in DOMAIN m : m[i].up < i,
           NEW path \in Seq(Name), Steps(m, path)[Len(path)] # Missing,
           NEW k \in 0 .. Len(path)
    PROVE  Names(m)[Steps(m, path)[k]] = SubSeq(path, 1, k)
<1> DEFINE Agrees(n) ==
             n <= Len(path) => Names(m)[Steps(m, path)[n]] = SubSeq(path, 1, n)
<1>1. Agrees(0)
  <2>1. Names(m)[0] = <<>>
    <3>1. 0 \in 0 .. Len(m) /\ 0 = Root
      BY DEF Root
    <3> QED BY <3>1, NamesAre
  <2>2. SubSeq(path, 1, 0) = <<>>
    OBVIOUS
  <2> QED BY <2>1, <2>2, StepsFrom DEF Root
<1>2. ASSUME NEW n \in Nat, Agrees(n), n + 1 <= Len(path)
      PROVE  Names(m)[Steps(m, path)[n + 1]] = SubSeq(path, 1, n + 1)
  <2>1. n \in 0 .. Len(path) /\ n < Len(path) /\ n + 1 \in 0 .. Len(path) /\ n + 1 # 0
    BY <1>2
  <2>2. PICK up, i : up = Steps(m, path)[n] /\ i = Steps(m, path)[n + 1]
    OBVIOUS
  <2>3. i = IdOf(m, up, path[n + 1])
    BY <2>1, <2>2, StepsFrom
  <2>4. i # Missing
    <3>1. i \in DOMAIN m \cup {Root}
      BY <2>1, <2>2, StepsStand
    <3> QED BY <3>1 DEF Root, Missing
  <2>5. i \in DOMAIN m /\ m[i].up = up /\ m[i].name = path[n + 1]
    BY <2>3, <2>4, IdOfFirst
  <2>6. Names(m)[i] = Append(Names(m)[up], path[n + 1])
    <3>1. i \in 0 .. Len(m) /\ i # Root
      BY <2>5 DEF Root
    <3> QED BY <2>5, <3>1, NamesAre
  <2>7. Names(m)[up] = SubSeq(path, 1, n)
    BY <1>2, <2>1, <2>2
  <2>8. Append(SubSeq(path, 1, n), path[n + 1]) = SubSeq(path, 1, n + 1)
    BY <2>1
  <2> QED BY <2>2, <2>6, <2>7, <2>8
<1>3. PICK S : S = {n \in Nat : Agrees(n)}
  OBVIOUS
<1>4. \A n \in Nat : Agrees(n)
  <2>1. \A n \in Nat : Agrees(n) => Agrees(n + 1)
    BY <1>2
  <2> HIDE DEF Agrees
  <2>2. 0 \in S /\ \A n \in S : n + 1 \in S
    BY <1>1, <1>3, <2>1
  <2>3. S = Nat
    BY <1>3, <2>2, AllNumbers
  <2> QED BY <1>3, <2>3
<1> QED BY <1>4

\* A valid path is a sequence of names that are not empty.
LEMMA ValidPathIs ==
    ASSUME NEW path, ValidPath(path)
    PROVE  path # <<>> /\ path \in Seq(Name) /\ path \in Seq(Name \ {Empty})
<1>1. path # <<>> /\ path \in Seq(Name \ {Empty})
  BY DEF ValidPath
<1> QED BY <1>1

\* The two walks of midgard_core_workspace.c, down by names and up by ids, agree
\* in every copy of the table any connection has, whatever duplicates and
\* renamed workspaces it holds.
THEOREM PathsDoAgree == Spec => []PathsAgree
<1>1. WorkspacesOK => PathsAgree
  <2> SUFFICES ASSUME WorkspacesOK, NEW c \in Connection, NEW path \in Path,
                      Resolve(model[c], path) # Missing
               PROVE  NamesTo(model[c], Resolve(model[c], path)) = path
    BY DEF PathsAgree
  <2>1. PICK m : m = model[c]
    OBVIOUS
  <2>2. m \in Seq(Row)
    BY <2>1 DEF WorkspacesOK, TypeOK
  <2>3. \A i \in DOMAIN m : m[i].up < i
    <3> SUFFICES ASSUME NEW i \in DOMAIN m PROVE m[i].up < i
      OBVIOUS
    <3>1. /\ \A j \in DOMAIN table : table[j].up < j
          /\ Len(m) <= Len(table) /\ m[i].up = table[i].up
      BY <2>1 DEF WorkspacesOK, ParentsFirst
    <3>2. table \in Seq(Row)
      BY DEF WorkspacesOK, TypeOK
    <3>3. i \in DOMAIN table
      BY <2>2, <3>1, <3>2
    <3> QED BY <3>1, <3>3
  <2>4. /\ ValidPath(path) /\ Steps(m, path)[Len(path)] \in DOMAIN m
        /\ Resolve(m, path) = Steps(m, path)[Len(path)]
    BY <2>1, ResolveSteps
  <2>5. path \in Seq(Name) /\ Steps(m, path)[Len(path)] # Missing
    BY <2>2, <2>4, ValidPathIs DEF Missing
  <2>6. Len(path) \in 0 .. Len(path) /\ SubSeq(path, 1, Len(path)) = path
    BY <2>5
  <2>7. Names(m)[Steps(m, path)[Len(path)]] = path
    BY <2>2, <2>3, <2>5, <2>6, NamesOfSteps
  <2> QED BY <2>1, <2>4, <2>7, NamesToIs
<1> QED BY WorkspacesInvariant, <1>1, PTL

\* What a walk finds in a copy, it finds in a longer one: the first row wins.
LEMMA StepsOfMore ==
    ASSUME NEW m \in Seq(Row), NEW t \in Seq(Row),
           \A i \in DOMAIN m : i \in DOMAIN t /\ m[i] = t[i],
           NEW path \in Seq(Name), Steps(m, path)[Len(path)] # Missing,
           NEW k \in 0 .. Len(path)
    PROVE  Steps(t, path)[k] = Steps(m, path)[k]
<1> DEFINE Agrees(n) == n <= Len(path) => Steps(t, path)[n] = Steps(m, path)[n]
<1>1. Agrees(0)
  BY StepsFrom
<1>2. ASSUME NEW n \in Nat, Agrees(n), n + 1 <= Len(path)
      PROVE  Steps(t, path)[n + 1] = Steps(m, path)[n + 1]
  <2>1. n \in 0 .. Len(path) /\ n < Len(path) /\ n + 1 \in 0 .. Len(path) /\ n + 1 # 0
    BY <1>2
  <2>2. PICK up, i, name : up = Steps(m, path)[n] /\ i = Steps(m, path)[n + 1]
                           /\ name = path[n + 1]
    OBVIOUS
  <2>3. i = IdOf(m, up, name)
    BY <2>1, <2>2, StepsFrom
  <2>4. i # Missing
    <3>1. i \in DOMAIN m \cup {Root}
      BY <2>1, <2>2, StepsStand
    <3> QED BY <3>1 DEF Root, Missing
  <2>5. /\ i \in DOMAIN m /\ m[i].up = up /\ m[i].name = name
        /\ \A j \in DOMAIN m : m[j].up = up /\ m[j].name = name => i <= j
    BY <2>3, <2>4, IdOfFirst
  <2>6. i \in DOMAIN t /\ t[i].up = up /\ t[i].name = name
    BY <2>5
  <2>7. ASSUME NEW j \in DOMAIN t, t[j].up = up, t[j].name = name
        PROVE  i <= j
    <3>1. CASE j \in DOMAIN m
      BY <2>5, <2>7, <3>1
    <3>2. CASE j \notin DOMAIN m
      <4>1. j \in Nat \ {0} /\ i <= Len(m) /\ i \in Nat
        BY <2>5, RowsAre
      <4>2. Len(m) < j
        BY <3>2, <4>1
      <4> QED BY <4>1, <4>2
    <3> QED BY <3>1, <3>2
  <2>8. IdOf(t, up, name) = i
    BY <2>6, <2>7, IdOfIs
  <2>9. Steps(t, path)[n + 1] = IdOf(t, Steps(t, path)[n], path[n + 1])
    BY <2>1, StepsFrom
  <2> QED BY <1>2, <2>1, <2>2, <2>8, <2>9
<1>3. PICK S : S = {n \in Nat : Agrees(n)}
  OBVIOUS
<1>4. \A n \in Nat : Agrees(n)
  <2>1. \A n \in Nat : Agrees(n) => Agrees(n + 1)
    BY <1>2
  <2> HIDE DEF Agrees
  <2>2. 0 \in S /\ \A n \in S : n + 1 \in S
    BY <1>1, <1>3, <2>1
  <2>3. S = Nat
    BY <1>3, <2>2, AllNumbers
  <2> QED BY <1>3, <2>3
<1> QED BY <1>4

LEMMA ResolveOfMore ==
    ASSUME NEW m \in Seq(Row), NEW t \in Seq(Row),
           \A i \in DOMAIN m : i \in DOMAIN t /\ m[i] = t[i],
           NEW path, Resolve(m, path) # Missing
    PROVE  Resolve(t, path) = Resolve(m, path)
<1>1. /\ ValidPath(path) /\ Steps(m, path)[Len(path)] \in DOMAIN m
      /\ Resolve(m, path) = Steps(m, path)[Len(path)]
  BY ResolveSteps
<1>2. path \in Seq(Name) /\ Steps(m, path)[Len(path)] # Missing
  BY <1>1, ValidPathIs DEF Missing
<1>3. Len(path) \in 0 .. Len(path)
  BY <1>2
<1>4. Steps(t, path)[Len(path)] = Steps(m, path)[Len(path)]
  BY <1>2, <1>3, StepsOfMore
<1> QED BY <1>1, <1>4, ResolveSteps

\* A path with one more element is found below what the path leads to.
LEMMA StepsOfAppend ==
    ASSUME NEW m, NEW path \in Seq(Name), NEW name \in Name, NEW k \in 0 .. Len(path)
    PROVE  Steps(m, Append(path, name))[k] = Steps(m, path)[k]
<1> DEFINE Agrees(n) == n <= Len(path) => Steps(m, Append(path, name))[n] = Steps(m, path)[n]
<1>0. PICK longer : longer = Append(path, name)
  OBVIOUS
<1>1. /\ longer \in Seq(Name) /\ Len(longer) = Len(path) + 1
      /\ \A i \in 1 .. Len(path) : longer[i] = path[i]
  BY <1>0
<1>2. Agrees(0)
  BY <1>0, <1>1, StepsFrom
<1>3. ASSUME NEW n \in Nat, Agrees(n), n + 1 <= Len(path)
      PROVE  Steps(m, longer)[n + 1] = Steps(m, path)[n + 1]
  <2>1. /\ n \in 0 .. Len(path) /\ n < Len(path)
        /\ n \in 0 .. Len(longer) /\ n < Len(longer) /\ n + 1 \in 1 .. Len(path)
    BY <1>1, <1>3
  <2>2. Steps(m, path)[n + 1] = IdOf(m, Steps(m, path)[n], path[n + 1])
    BY <2>1, StepsFrom
  <2>3. Steps(m, longer)[n + 1] = IdOf(m, Steps(m, longer)[n], longer[n + 1])
    BY <1>1, <2>1, StepsFrom
  <2>4. Steps(m, longer)[n] = Steps(m, path)[n]
    BY <1>0, <1>3, <2>1
  <2> QED BY <1>1, <2>1, <2>2, <2>3, <2>4
<1>4. PICK S : S = {n \in Nat : Agrees(n)}
  OBVIOUS
<1>5. \A n \in Nat : Agrees(n)
  <2>1. \A n \in Nat : Agrees(n) => Agrees(n + 1)
    BY <1>0, <1>3
  <2> HIDE DEF Agrees
  <2>2. 0 \in S /\ \A n \in S : n + 1 \in S
    BY <1>2, <1>4, <2>1
  <2>3. S = Nat
    BY <1>4, <2>2, AllNumbers
  <2> QED BY <1>4, <2>3
<1> QED BY <1>5

LEMMA ResolveOfAppend ==
    ASSUME NEW m \in Seq(Row), NEW path \in Seq(Name), NEW name \in Name,
           ValidPath(Append(path, name)),
           path = <<>> \/ Resolve(m, path) # Missing
    PROVE  Resolve(m, Append(path, name)) = IdOf(m, UpOf(m, path), name)
<1>0. PICK longer : longer = Append(path, name)
  OBVIOUS
<1>1. /\ longer \in Seq(Name) /\ Len(longer) = Len(path) + 1 /\ Len(path) \in Nat
      /\ longer[Len(path) + 1] = name
  BY <1>0
<1>2. Len(path) \in 0 .. Len(path) /\ Len(path) \in 0 .. Len(longer) /\ Len(path) < Len(longer)
  BY <1>1
<1>3. Steps(m, longer)[Len(longer)] = IdOf(m, Steps(m, longer)[Len(path)], name)
  BY <1>1, <1>2, StepsFrom
<1>4. Steps(m, longer)[Len(path)] = Steps(m, path)[Len(path)]
  BY <1>0, <1>2, StepsOfAppend
<1>5. Steps(m, path)[Len(path)] = UpOf(m, path)
  <2>1. CASE path = <<>>
    <3>1. Resolve(m, path) = Missing
      BY <2>1, ResolveSteps, ValidPathIs
    <3>2. Len(path) = 0
      BY <2>1
    <3> QED BY <3>1, <3>2, StepsFrom DEF UpOf
  <2>2. CASE path # <<>>
    BY <2>2, ResolveSteps DEF UpOf
  <2> QED BY <2>1, <2>2
<1>6. Steps(m, longer)[Len(longer)] = IdOf(m, UpOf(m, path), name)
  BY <1>3, <1>4, <1>5
<1>7. IdOf(m, UpOf(m, path), name) \in DOMAIN m \cup {Missing}
  BY IdOfTypes
<1> QED BY <1>0, <1>6, <1>7, ResolveSteps

-----------------------------------------------------------------------------
(* Contexts that stand                                                     *)

\* How many elements of a context's path are made.
MadeOf(create, step) ==
    Len(create.path) - Len(create.left) + (IF step = "list" THEN 1 ELSE 0)

\* How many elements of it are left out of what is still to make.
GoneOf(create) == Len(create.path) - Len(create.left)

\* What is left to make is the rest of the path, and what is made is found at its
\* path in a copy of the table.
MakingParts(create, step, m, path, gone, made) ==
    /\ ValidPath(path) /\ made \in 0 .. Len(path) /\ gone \in Nat
    /\ \A i \in DOMAIN create.left :
          /\ create.left[i].name = path[gone + i]
          /\ create.left[i].at = SubSeq(path, 1, (gone + i) - 1)
    /\ made # 0 => Resolve(m, SubSeq(path, 1, made)) = create.id
    /\ step = "read_id" => create.up = UpOf(m, SubSeq(path, 1, made))
    /\ step \notin {"insert", "read_id", "list"} => create.left = <<>>

\* A context that is being made from a path with a slash, and nothing was refused
\* yet, is made as far as that in the connection's own copy.
MakingOf(create, step, m) ==
    create.kind = "context" /\ create.slash /\ create.rv =>
        MakingParts(create, step, m, create.path, GoneOf(create), MadeOf(create, step))

\* Until somebody renames a workspace, the copies are beginnings of the table.
Begins(m, t) == \A i \in DOMAIN m : i \in DOMAIN t /\ m[i] = t[i]

ContextsOK == ~renamed =>
    \A c \in Connection :
        Begins(model[c], table) /\ MakingOf(job[c], pc[c], model[c])

\* Who is in no call finds in a newer copy what it found.
LEMMA MakingAtRest ==
    ASSUME NEW create \in Create, NEW m \in Seq(Row), NEW t \in Seq(Row),
           NEW step, NEW next, step \notin {"insert", "read_id", "list"},
           next \notin {"insert", "read_id", "list"},
           MakingOf(create, step, m), Begins(m, t)
    PROVE  MakingOf(create, next, t)
<1> SUFFICES ASSUME create.kind = "context", create.slash, create.rv
             PROVE  MakingOf(create, next, t)
  BY DEF MakingOf, MakingParts, GoneOf
<1>1. PICK path : path = create.path
  OBVIOUS
<1>2. create.left = <<>> /\ Len(create.left) = 0
  BY DEF MakingOf, MakingParts, GoneOf
<1>3. ValidPath(path) /\ path \in Seq(Name) /\ path # <<>>
  BY <1>1, ValidPathIs DEF MakingOf, MakingParts, GoneOf
<1>4. MadeOf(create, step) = Len(path) /\ MadeOf(create, next) = Len(path)
      /\ Len(path) \in Nat \ {0}
  <2>1. Len(path) \in Nat \ {0}
    BY <1>3
  <2>2. step # "list" /\ next # "list"
    OBVIOUS
  <2> QED BY <1>1, <1>2, <2>1, <2>2 DEF MadeOf
<1>5. Resolve(m, SubSeq(path, 1, Len(path))) = create.id
  BY <1>1, <1>4 DEF MakingOf, MakingParts, GoneOf
<1>6. create.id # Missing
  BY DEF Create, Missing
<1>7. Resolve(t, SubSeq(path, 1, Len(path))) = create.id
  BY <1>5, <1>6, ResolveOfMore DEF Begins
<1> QED BY <1>1, <1>2, <1>3, <1>4, <1>7 DEF MakingOf, MakingParts, GoneOf

\* Only a create of a context with a slash that refused nothing says anything.
LEMMA MakingOther ==
    ASSUME NEW create, NEW step, NEW m,
           ~(create.kind = "context" /\ create.slash /\ create.rv)
    PROVE  MakingOf(create, step, m)
BY DEF MakingOf

\* What is made in terms of what is gone from the rest.
LEMMA MadeIs ==
    ASSUME NEW create, NEW step, Len(create.path) \in Nat, Len(create.left) \in Nat
    PROVE  /\ step # "list" => MadeOf(create, step) = GoneOf(create)
           /\ step = "list" => MadeOf(create, step) = GoneOf(create) + 1
           /\ GoneOf(create) = Len(create.path) - Len(create.left)
<1>1. GoneOf(create) = Len(create.path) - Len(create.left)
  BY DEF GoneOf
<1>2. step # "list" => MadeOf(create, step) = GoneOf(create)
  BY <1>1 DEF MadeOf
<1>3. step = "list" => MadeOf(create, step) = GoneOf(create) + 1
  BY <1>1 DEF MadeOf
<1> QED BY <1>1, <1>2, <1>3

\* What is left of a create, while something is.
LEMMA LeftIs ==
    ASSUME NEW create \in Create, create.left # <<>>
    PROVE  /\ Len(create.left) \in Nat \ {0} /\ Len(create.path) \in Nat
           /\ DOMAIN create.left = 1 .. Len(create.left)
           /\ Head(create.left) = create.left[1]
           /\ Len(Tail(create.left)) = Len(create.left) - 1
           /\ DOMAIN Tail(create.left) = 1 .. Len(create.left) - 1
           /\ \A i \in 1 .. Len(create.left) - 1 : Tail(create.left)[i] = create.left[i + 1]
           /\ Len(create.left) = 1 => Tail(create.left) = <<>>
<1>1. PICK s \in Seq(Element), path \in Seq(Name) : s = create.left /\ path = create.path
  BY DEF Create
<1>2. Len(s) \in Nat \ {0} /\ Len(path) \in Nat
  BY <1>1
<1>3. DOMAIN s = 1 .. Len(s) /\ Head(s) = s[1] /\ Tail(s) \in Seq(Element)
  BY <1>1
<1>4. Len(Tail(s)) = Len(s) - 1 /\ DOMAIN Tail(s) = 1 .. Len(s) - 1
  BY <1>1, <1>2
<1>5. \A i \in 1 .. Len(s) - 1 : Tail(s)[i] = s[i + 1]
  BY <1>1, <1>2
<1>6. Len(s) = 1 => Tail(s) = <<>>
  BY <1>3, <1>4
<1> QED BY <1>1, <1>2, <1>3, <1>4, <1>5, <1>6

\* The beginnings of a valid path are valid; the next is one name longer.
LEMMA PrefixIs ==
    ASSUME NEW path, ValidPath(path), NEW k \in Nat, k + 1 <= Len(path)
    PROVE  /\ SubSeq(path, 1, k) \in Seq(Name) /\ path[k + 1] \in Name
           /\ k = 0 => SubSeq(path, 1, k) = <<>>
           /\ SubSeq(path, 1, k + 1) = Append(SubSeq(path, 1, k), path[k + 1])
           /\ ValidPath(SubSeq(path, 1, k + 1))
<1>1. path \in Seq(Name) /\ path \in Seq(Name \ {Empty})
  BY ValidPathIs
<1>2. PICK low, high : low = SubSeq(path, 1, k) /\ high = SubSeq(path, 1, k + 1)
  OBVIOUS
<1>3. low \in Seq(Name) /\ Len(low) = k /\ (\A i \in 1 .. k : low[i] = path[i])
  BY <1>1, <1>2
<1>4. /\ high \in Seq(Name) /\ Len(high) = k + 1
      /\ (\A i \in 1 .. k + 1 : high[i] = path[i])
  BY <1>1, <1>2
<1>5. path[k + 1] \in Name
  BY <1>1
<1>6. high = Append(low, path[k + 1])
  <2>1. PICK other, name : name = path[k + 1] /\ other = Append(low, name)
    OBVIOUS
  <2>2. /\ other \in Seq(Name) /\ Len(other) = k + 1
        /\ (\A i \in 1 .. k : other[i] = low[i]) /\ other[k + 1] = name
    BY <1>3, <1>5, <2>1
  <2>3. \A i \in 1 .. k + 1 : other[i] = high[i]
    BY <1>3, <1>4, <2>1, <2>2
  <2>4. other = high
    BY <1>4, <2>2, <2>3
  <2> QED BY <2>1, <2>4
<1>7. ValidPath(high)
  <2>1. high \in Seq(Name \ {Empty})
    BY <1>1, <1>2
  <2>2. high # <<>>
    BY <1>4
  <2> QED BY <2>1, <2>2 DEF ValidPath
<1>8. k = 0 => low = <<>>
  BY <1>3
<1> QED BY <1>2, <1>3, <1>5, <1>6, <1>7, <1>8

\* All of the path is still to make when the call begins.
LEMMA MakingStarts ==
    ASSUME NEW path, NEW slash \in BOOLEAN, NEW m, ValidPath(path)
    PROVE  MakingOf(NewCreate("context", path, slash, Elements(path, slash)), "insert", m)
<1>1. PICK create : create = NewCreate("context", path, slash, Elements(path, slash))
  OBVIOUS
<1> SUFFICES ASSUME slash PROVE MakingOf(create, "insert", m)
  BY <1>1, MakingOther DEF NewCreate
<1>2. path \in Seq(Name)
  BY ValidPathIs
<1>3. create.path = path /\ create.left = Elements(path, slash)
  BY <1>1 DEF NewCreate
<1>4. /\ DOMAIN Elements(path, slash) = DOMAIN path
      /\ \A i \in DOMAIN path : Elements(path, slash)[i] =
                                   [name |-> path[i], at |-> SubSeq(path, 1, i - 1)]
  BY DEF Elements
<1>5. Len(Elements(path, slash)) = Len(path) /\ Len(path) \in Nat
  <2>1. PICK n \in Nat : n = Len(path) /\ DOMAIN path = 1 .. n
    BY <1>2
  <2>2. PICK s : s = Elements(path, slash)
    OBVIOUS
  <2>3. s = [i \in 1 .. n |-> [name |-> path[i], at |-> SubSeq(path, 1, i - 1)]]
    BY <2>1, <2>2 DEF Elements
  <2>4. Len(s) = n
    BY <2>1, <2>3
  <2> QED BY <2>1, <2>2, <2>4
<1>6. Len(create.path) - Len(create.left) = 0 /\ MadeOf(create, "insert") = 0
      /\ 0 \in 0 .. Len(path)
  <2>1. PICK n \in Nat : Len(create.path) = n /\ Len(create.left) = n
    BY <1>3, <1>5
  <2>2. PICK step : step = "insert"
    OBVIOUS
  <2>3. step # "list"
    BY <2>2
  <2>4. MadeOf(create, step) = n - n
    BY <2>1, <2>3, MadeIs
  <2>5. n - n = 0 /\ Len(path) = n
    BY <1>3, <2>1
  <2> QED BY <2>1, <2>2, <2>4, <2>5
<1>7. \A i \in DOMAIN create.left :
         /\ create.left[i].name = path[0 + i]
         /\ create.left[i].at = SubSeq(path, 1, (0 + i) - 1)
  <2> SUFFICES ASSUME NEW i \in DOMAIN path
               PROVE  /\ create.left[i].name = path[0 + i]
                      /\ create.left[i].at = SubSeq(path, 1, (0 + i) - 1)
    BY <1>3, <1>4
  <2>1. create.left[i] = [name |-> path[i], at |-> SubSeq(path, 1, i - 1)]
    BY <1>3, <1>4
  <2>2. i \in Nat /\ 0 + i = i
    BY <1>2
  <2> QED BY <2>1, <2>2
<1>8. PICK gone : gone = Len(create.path) - Len(create.left)
  OBVIOUS
<1>9. \A i \in DOMAIN create.left :
         /\ create.left[i].name = path[gone + i]
         /\ create.left[i].at = SubSeq(path, 1, (gone + i) - 1)
  BY <1>6, <1>7, <1>8
<1>10. PICK made, step : made = MadeOf(create, step) /\ step = "insert"
  OBVIOUS
<1>11. gone = 0 /\ made = 0 /\ made \in 0 .. Len(path)
  BY <1>6, <1>8, <1>10
<1>12. create.kind = "context" /\ create.slash = slash /\ create.rv = TRUE
  BY <1>1 DEF NewCreate
<1>13. gone = GoneOf(create) /\ gone \in Nat
  <2>1. gone = GoneOf(create)
    BY <1>8, Zenon DEF GoneOf
  <2>2. gone \in Nat
    BY <1>11
  <2> QED BY <2>1, <2>2
<1>14. step # "read_id" /\ step \in {"insert", "read_id", "list"}
  BY <1>10
<1>15. MakingOf(create, step, m)
  <2>1. path = create.path /\ made = MadeOf(create, step)
    BY <1>3, <1>10
  <2>2. made # 0 => Resolve(m, SubSeq(path, 1, made)) = create.id
    BY <1>11
  <2>3. /\ step = "read_id" => create.up = UpOf(m, SubSeq(path, 1, made))
        /\ step \notin {"insert", "read_id", "list"} => create.left = <<>>
    BY <1>14
  <2>4. create.kind = "context" /\ create.slash /\ create.rv
    BY <1>12
  <2>5. ValidPath(path)
    OBVIOUS
  <2>6. made \in 0 .. Len(path) /\ gone \in Nat
    BY <1>11, <1>13
  <2>7. gone = GoneOf(create)
    BY <1>13
  <2>8. /\ ValidPath(path) /\ made \in 0 .. Len(path) /\ gone \in Nat
        /\ \A i \in DOMAIN create.left :
              /\ create.left[i].name = path[gone + i]
              /\ create.left[i].at = SubSeq(path, 1, (gone + i) - 1)
        /\ made # 0 => Resolve(m, SubSeq(path, 1, made)) = create.id
        /\ step = "read_id" => create.up = UpOf(m, SubSeq(path, 1, made))
        /\ step \notin {"insert", "read_id", "list"} => create.left = <<>>
    BY <1>9, <2>2, <2>3, <2>5, <2>6, Zenon
  <2>9. MakingParts(create, step, m, path, gone, made)
    BY <2>8, Zenon DEF MakingParts
  <2> QED BY <2>1, <2>4, <2>7, <2>9 DEF MakingOf
<1> QED BY <1>1, <1>10, <1>15

\* An element is inserted below what was made before it.
LEMMA MakingInserted ==
    ASSUME NEW create \in Create, NEW m, NEW e, NEW from, NEW to, NEW next,
           from = "insert", to = "read_id", create.left # <<>>, e = Head(create.left),
           MakingOf(create, from, m), next = [create EXCEPT !.up = UpOf(m, e.at)]
    PROVE  MakingOf(next, to, m)
<1>1. create.kind = next.kind /\ create.slash = next.slash /\ create.rv = next.rv
  BY DEF Create
<1> SUFFICES ASSUME create.kind = "context", create.slash, create.rv
             PROVE  MakingOf(next, to, m)
  BY <1>1, MakingOther
<1>2. PICK path, gone, made : /\ path = create.path /\ made = MadeOf(create, from)
                              /\ gone = GoneOf(create)
  OBVIOUS
<1>3. /\ ValidPath(path) /\ made \in 0 .. Len(path) /\ gone \in Nat
      /\ \A i \in DOMAIN create.left :
            /\ create.left[i].name = path[gone + i]
            /\ create.left[i].at = SubSeq(path, 1, (gone + i) - 1)
      /\ made # 0 => Resolve(m, SubSeq(path, 1, made)) = create.id
  <2>1. MakingParts(create, from, m, path, gone, made)
    BY <1>2 DEF MakingOf
  <2> QED BY <2>1 DEF MakingParts
<1>4. PICK n \in Nat, l \in Nat : n = Len(path) /\ l = Len(create.left) /\ l # 0
                                  /\ DOMAIN create.left = 1 .. l
                                  /\ n = Len(create.path)
  BY <1>2, LeftIs
<1>5. /\ next.path = path /\ next.left = create.left /\ next.id = create.id
      /\ next.up = UpOf(m, e.at)
  BY <1>2 DEF Create
<1>6. made = n - l /\ MadeOf(next, to) = made /\ gone = made
  <2>1. from # "list" /\ to # "list"
    OBVIOUS
  <2>2. made = n - l
    BY <1>2, <1>4, <2>1, MadeIs
  <2>3. MadeOf(next, to) = n - l
    BY <1>4, <1>5, <2>1, MadeIs
  <2>4. gone = n - l
    BY <1>2, <1>4, MadeIs
  <2> QED BY <2>2, <2>3, <2>4
<1>7. next.up = UpOf(m, SubSeq(path, 1, made))
  <2>1. e = create.left[1] /\ 1 \in DOMAIN create.left
    BY <1>4 DEF Create
  <2>2. e.at = SubSeq(path, 1, (gone + 1) - 1)
    BY <1>3, <2>1
  <2>3. (gone + 1) - 1 = made
    BY <1>4, <1>6
  <2> QED BY <1>5, <2>2, <2>3
<1>8. /\ ValidPath(path) /\ made \in 0 .. Len(path) /\ gone \in Nat
      /\ \A i \in DOMAIN next.left :
            /\ next.left[i].name = path[gone + i]
            /\ next.left[i].at = SubSeq(path, 1, (gone + i) - 1)
      /\ made # 0 => Resolve(m, SubSeq(path, 1, made)) = next.id
      /\ to = "read_id" => next.up = UpOf(m, SubSeq(path, 1, made))
      /\ to \notin {"insert", "read_id", "list"} => next.left = <<>>
  <2>1. to \in {"insert", "read_id", "list"}
    OBVIOUS
  <2> QED BY <1>3, <1>5, <1>7, <2>1, Zenon
<1>9. next.kind = "context" /\ next.slash /\ next.rv
  BY <1>1
<1>10. path = next.path /\ gone = GoneOf(next) /\ made = MadeOf(next, to)
  BY <1>2, <1>5, <1>6 DEF GoneOf
<1>11. MakingParts(next, to, m, path, gone, made)
  BY <1>8, Zenon DEF MakingParts
<1> QED BY <1>9, <1>10, <1>11 DEF MakingOf

\* The id of an element is looked up by its name and what it was inserted below.
LEMMA MakingRead ==
    ASSUME NEW create \in Create, NEW m \in Seq(Row), NEW t \in Seq(Row), NEW id,
           NEW from, NEW to, NEW next,
           from = "read_id", to = "list", create.left # <<>>,
           id = IdOf(t, create.up, Head(create.left).name), id # Missing,
           MakingOf(create, from, m), Begins(m, t), next = [create EXCEPT !.id = id]
    PROVE  MakingOf(next, to, t)
<1>1. create.kind = next.kind /\ create.slash = next.slash /\ create.rv = next.rv
  BY DEF Create
<1> SUFFICES ASSUME create.kind = "context", create.slash, create.rv
             PROVE  MakingOf(next, to, t)
  BY <1>1, MakingOther
<1>2. PICK path, gone, made : /\ path = create.path /\ made = MadeOf(create, from)
                              /\ gone = GoneOf(create)
  OBVIOUS
<1>3. /\ ValidPath(path) /\ made \in 0 .. Len(path) /\ gone \in Nat
      /\ \A i \in DOMAIN create.left :
            /\ create.left[i].name = path[gone + i]
            /\ create.left[i].at = SubSeq(path, 1, (gone + i) - 1)
      /\ made # 0 => Resolve(m, SubSeq(path, 1, made)) = create.id
      /\ from = "read_id" => create.up = UpOf(m, SubSeq(path, 1, made))
  <2>1. MakingParts(create, from, m, path, gone, made)
    BY <1>2 DEF MakingOf
  <2> QED BY <2>1 DEF MakingParts
<1>4. PICK n \in Nat, l \in Nat : n = Len(path) /\ l = Len(create.left) /\ l # 0
                                  /\ DOMAIN create.left = 1 .. l
                                  /\ n = Len(create.path)
  BY <1>2, LeftIs
<1>5. next.path = path /\ next.left = create.left /\ next.id = id
  BY <1>2 DEF Create
<1>6. made = n - l /\ MadeOf(next, to) = made + 1 /\ gone = made /\ made + 1 \in 0 .. n
  <2>1. from # "list"
    OBVIOUS
  <2>2. made = n - l
    BY <1>2, <1>4, <2>1, MadeIs
  <2>3. MadeOf(next, to) = (n - l) + 1
    BY <1>4, <1>5, MadeIs
  <2>4. gone = n - l
    BY <1>2, <1>4, MadeIs
  <2>5. n - l \in Nat /\ (n - l) + 1 \in 0 .. n
    <3>1. gone \in Nat /\ l # 0
      BY <1>3, <1>4
    <3> QED BY <2>4, <3>1
  <2> QED BY <2>2, <2>3, <2>4, <2>5
<1>7. made \in Nat /\ made + 1 <= Len(path)
  <2>1. made \in Nat /\ made + 1 <= n /\ n = Len(path)
    <3>1. made \in 0 .. Len(path) /\ made + 1 \in 0 .. n /\ n = Len(path)
      BY <1>3, <1>4, <1>6
    <3> QED BY <3>1
  <2> QED BY <2>1
<1>8. PICK below : below = SubSeq(path, 1, made)
  OBVIOUS
<1>9. PICK longer, name : longer = SubSeq(path, 1, made + 1) /\ name = path[made + 1]
  OBVIOUS
<1>10. /\ below \in Seq(Name) /\ name \in Name /\ longer = Append(below, name)
       /\ ValidPath(longer) /\ (made = 0 => below = <<>>)
  BY <1>3, <1>7, <1>8, <1>9, PrefixIs
<1>13. UpOf(t, below) = UpOf(m, below) /\ (below = <<>> \/ Resolve(t, below) # Missing)
  <2>1. CASE made = 0
    <3>1. below = <<>>
      BY <1>10, <2>1
    <3>2. ~ValidPath(below)
      BY <3>1 DEF ValidPath
    <3>3. Resolve(t, below) = Missing /\ Resolve(m, below) = Missing
      BY <3>2, ResolveSteps
    <3> QED BY <3>1, <3>3 DEF UpOf
  <2>2. CASE made # 0
    <3>1. Resolve(m, below) = create.id /\ create.id # Missing
      BY <1>3, <1>8, <2>2 DEF Create, Missing
    <3>2. Resolve(t, below) = Resolve(m, below)
      BY <3>1, ResolveOfMore DEF Begins
    <3> QED BY <3>1, <3>2 DEF UpOf
  <2> QED BY <2>1, <2>2
<1>14. Head(create.left).name = name
  <2>1. Head(create.left) = create.left[1] /\ 1 \in DOMAIN create.left
    BY <1>4, LeftIs
  <2> QED BY <1>3, <1>6, <1>9, <2>1
<1>15. create.up = UpOf(m, below)
  BY <1>3, <1>8
<1>16. Resolve(t, longer) = id
  BY <1>10, <1>13, <1>14, <1>15, ResolveOfAppend
<1>17. PICK more : more = made + 1
  OBVIOUS
<1>18. /\ ValidPath(path) /\ more \in 0 .. Len(path) /\ gone \in Nat
       /\ \A i \in DOMAIN next.left :
             /\ next.left[i].name = path[gone + i]
             /\ next.left[i].at = SubSeq(path, 1, (gone + i) - 1)
       /\ more # 0 => Resolve(t, SubSeq(path, 1, more)) = next.id
       /\ to = "read_id" => next.up = UpOf(t, SubSeq(path, 1, more))
       /\ to \notin {"insert", "read_id", "list"} => next.left = <<>>
  <2>1. to \in {"insert", "read_id", "list"} /\ to # "read_id"
    OBVIOUS
  <2>2. more \in 0 .. Len(path)
    BY <1>4, <1>6, <1>17
  <2>3. Resolve(t, SubSeq(path, 1, more)) = next.id
    BY <1>5, <1>9, <1>16, <1>17
  <2> QED BY <1>3, <1>5, <2>1, <2>2, <2>3, Zenon
<1>19. next.kind = "context" /\ next.slash /\ next.rv
  BY <1>1
<1>20. path = next.path /\ gone = GoneOf(next) /\ more = MadeOf(next, to)
  BY <1>2, <1>5, <1>6, <1>17 DEF GoneOf
<1>21. MakingParts(next, to, t, path, gone, more)
  BY <1>18, Zenon DEF MakingParts
<1> QED BY <1>19, <1>20, <1>21 DEF MakingOf

\* The manager goes on to the next element, or is done.
LEMMA MakingListed ==
    ASSUME NEW create \in Create, NEW m \in Seq(Row), NEW t \in Seq(Row),
           NEW from, NEW to, NEW next, NEW up,
           from = "list", to = "insert" \/ (Len(create.left) = 1 /\ to # "read_id" /\ to # "list"),
           create.left # <<>>, MakingOf(create, from, m), Begins(m, t),
           next = [create EXCEPT !.left = Tail(@), !.up = up]
    PROVE  MakingOf(next, to, t)
<1>1. create.kind = next.kind /\ create.slash = next.slash /\ create.rv = next.rv
  BY DEF Create
<1> SUFFICES ASSUME create.kind = "context", create.slash, create.rv
             PROVE  MakingOf(next, to, t)
  BY <1>1, MakingOther
<1>2. PICK path, gone, made : /\ path = create.path /\ made = MadeOf(create, from)
                              /\ gone = GoneOf(create)
  OBVIOUS
<1>3. /\ ValidPath(path) /\ made \in 0 .. Len(path) /\ gone \in Nat
      /\ \A i \in DOMAIN create.left :
            /\ create.left[i].name = path[gone + i]
            /\ create.left[i].at = SubSeq(path, 1, (gone + i) - 1)
      /\ made # 0 => Resolve(m, SubSeq(path, 1, made)) = create.id
  <2>1. MakingParts(create, from, m, path, gone, made)
    BY <1>2 DEF MakingOf
  <2> QED BY <2>1 DEF MakingParts
<1>4. PICK n \in Nat, l \in Nat : n = Len(path) /\ l = Len(create.left) /\ l # 0
                                  /\ DOMAIN create.left = 1 .. l
                                  /\ n = Len(create.path)
  BY <1>2, LeftIs
<1>5. /\ next.path = path /\ next.left = Tail(create.left) /\ next.id = create.id
      /\ Len(next.left) = l - 1 /\ DOMAIN next.left = 1 .. l - 1
      /\ \A i \in 1 .. l - 1 : next.left[i] = create.left[i + 1]
  <2>1. next.path = path /\ next.left = Tail(create.left) /\ next.id = create.id
    BY <1>2 DEF Create
  <2> QED BY <1>4, <2>1, LeftIs
<1>6. PICK more : more = gone + 1
  OBVIOUS
<1>7. made = (n - l) + 1 /\ MadeOf(next, to) = made /\ more = n - (l - 1) /\ more \in Nat
  <2>1. to # "list"
    OBVIOUS
  <2>2. made = (n - l) + 1
    BY <1>2, <1>4, MadeIs
  <2>3. PICK k \in Nat : k = l - 1
    BY <1>4
  <2>4. MadeOf(next, to) = n - k
    <3>1. Len(next.path) = n /\ Len(next.left) = k
      BY <1>4, <1>5, <2>3
    <3> QED BY <2>1, <2>3, <3>1, MadeIs
  <2>5. gone = n - l
    BY <1>2, <1>4, MadeIs
  <2> QED BY <1>3, <1>4, <1>6, <2>2, <2>3, <2>4, <2>5
<1>8. \A i \in DOMAIN next.left :
         /\ next.left[i].name = path[more + i]
         /\ next.left[i].at = SubSeq(path, 1, (more + i) - 1)
  <2> SUFFICES ASSUME NEW i \in 1 .. l - 1
               PROVE  /\ next.left[i].name = path[more + i]
                      /\ next.left[i].at = SubSeq(path, 1, (more + i) - 1)
    BY <1>5
  <2>1. PICK j : j = i + 1
    OBVIOUS
  <2>2. j \in DOMAIN create.left /\ next.left[i] = create.left[j]
    BY <1>4, <1>5, <2>1
  <2>3. gone + j = more + i
    BY <1>3, <1>4, <1>6, <2>1
  <2> QED BY <1>3, <2>2, <2>3
<1>9. made # 0 => Resolve(t, SubSeq(path, 1, made)) = next.id
  <2>1. create.id # Missing
    BY DEF Create, Missing
  <2> QED BY <1>3, <1>5, <2>1, ResolveOfMore DEF Begins
<1>10. to \notin {"insert", "read_id", "list"} => next.left = <<>>
  <2> SUFFICES ASSUME to # "insert" PROVE next.left = <<>>
    OBVIOUS
  <2> QED BY <1>5, LeftIs
<1>11. /\ ValidPath(path) /\ made \in 0 .. Len(path) /\ more \in Nat
       /\ \A i \in DOMAIN next.left :
             /\ next.left[i].name = path[more + i]
             /\ next.left[i].at = SubSeq(path, 1, (more + i) - 1)
       /\ made # 0 => Resolve(t, SubSeq(path, 1, made)) = next.id
       /\ to = "read_id" => next.up = UpOf(t, SubSeq(path, 1, made))
       /\ to \notin {"insert", "read_id", "list"} => next.left = <<>>
  <2>1. to # "read_id"
    OBVIOUS
  <2> QED BY <1>3, <1>7, <1>8, <1>9, <1>10, <2>1, Zenon
<1>12. next.kind = "context" /\ next.slash /\ next.rv
  BY <1>1
<1>13. path = next.path /\ more = GoneOf(next) /\ made = MadeOf(next, to)
  <2>1. GoneOf(next) = n - (l - 1)
    BY <1>2, <1>4, <1>5 DEF GoneOf
  <2> QED BY <1>5, <1>7, <2>1
<1>14. MakingParts(next, to, t, path, more, made)
  BY <1>11, Zenon DEF MakingParts
<1> QED BY <1>12, <1>13, <1>14 DEF MakingOf

\* Until somebody renames a workspace, the table only grows at its end.
LEMMA TableGrows ==
    WorkspacesOK /\ [Next]_vars /\ ~renamed' => ~renamed /\ Begins(table, table')
<1> SUFFICES ASSUME WorkspacesOK, [Next]_vars, ~renamed'
             PROVE  ~renamed /\ Begins(table, table')
  OBVIOUS
<1>0. table \in Seq(Row) /\ ws \in [Connection -> Workspace]
  BY DEF WorkspacesOK, TypeOK
<1>1. CASE table' = table /\ renamed' = renamed
  BY <1>1 DEF Begins
<1>2. ASSUME NEW c \in Connection, InsertElement(c), table' # table
      PROVE  ~renamed /\ Begins(table, table')
  <2>1. PICK row : table' = Append(table, row)
    BY <1>2 DEF InsertElement
  <2>2. ~renamed
    BY <1>2 DEF InsertElement
  <2> QED BY <1>0, <2>1, <2>2 DEF Begins
<1>3. ASSUME NEW c \in Connection, NEW name \in Name, Update(c, name),
             ~(table' = table /\ renamed' = renamed)
      PROVE  ~renamed /\ Begins(table, table')
  <2>1. PICK w : w = [ws[c] EXCEPT !.name = name]
    OBVIOUS
  <2>2. w.id = ws[c].id /\ w.row = ws[c].row /\ w.up = ws[c].up
    BY <1>0, <2>1 DEF Workspace
  <2>3. /\ table' = [table EXCEPT ![w.row] = [up |-> w.up, name |-> w.name]]
        /\ renamed' = (renamed \/ table'[w.row].name # table[w.row].name)
        /\ w.id # 0
    BY <1>3, <2>1 DEF Update
  <2>4. w.row \in DOMAIN table /\ w.up = table[w.row].up
    BY <2>2, <2>3 DEF WorkspacesOK, Pending
  <2>5. ~renamed /\ table'[w.row].name = table[w.row].name
    BY <2>3
  <2>6. PICK new : new = [up |-> w.up, name |-> w.name]
    OBVIOUS
  <2>7. table[w.row] \in Row /\ table'[w.row] = new
    BY <1>0, <2>3, <2>4, <2>6
  <2>8. table[w.row] = new
    BY <2>4, <2>5, <2>6, <2>7 DEF Row
  <2>9. table' = table
    <3>1. table' = [table EXCEPT ![w.row] = table[w.row]]
      BY <2>3, <2>6, <2>8
    <3> QED BY <1>0, <3>1
  <2> QED BY <2>5, <2>9 DEF Begins
<1> QED
  BY <1>1, <1>2, <1>3
  DEF Next, vars, Open, CreateWorkspace, CreateContext, SkipElement, RefuseElement,
      InsertElement, ReadId, List, ListContext, GetByPath, GetContext, ListUpdated

\* What is said of a context that is made stays true, whoever creates workspaces
\* at the same time.
LEMMA ContextsStep == WorkspacesOK /\ ContextsOK /\ [Next]_vars => ContextsOK'
<1> SUFFICES ASSUME WorkspacesOK, ContextsOK, [Next]_vars, ~renamed', NEW d \in Connection
             PROVE  Begins(model'[d], table') /\ MakingOf(job'[d], pc'[d], model'[d])
  BY DEF ContextsOK, Begins, MakingOf
<1>0. /\ table \in Seq(Row) /\ model \in [Connection -> Seq(Row)]
      /\ model' \in [Connection -> Seq(Row)]
      /\ job \in [Connection -> Create] /\ pc \in [Connection -> Step]
  BY TypeStep DEF WorkspacesOK, TypeOK
<1>1. ~renamed /\ Begins(table, table')
  BY TableGrows
<1>2. Begins(model[d], table) /\ MakingOf(job[d], pc[d], model[d])
  BY <1>1 DEF ContextsOK
<1>3. /\ pc[d] \in {"insert", "read_id", "list"} => job[d].left # <<>>
      /\ job[d] \in Create /\ model[d] \in Seq(Row) /\ model'[d] \in Seq(Row)
  BY <1>0 DEF WorkspacesOK, Pending
<1>4. Begins(model[d], model'[d]) /\ Begins(model'[d], table')
  <2>1. model'[d] = model[d] \/ model'[d] = table
    BY ModelsCopied
  <2> QED BY <1>1, <1>2, <2>1 DEF Begins
<1> SUFFICES MakingOf(job'[d], pc'[d], model'[d])
  BY <1>4
<1>5. CASE pc'[d] = pc[d] /\ job'[d] = job[d] /\ model'[d] = model[d]
  BY <1>2, <1>5
<1>6. ASSUME job'[d] = job[d], pc[d] \notin {"insert", "read_id", "list"},
             pc'[d] \notin {"insert", "read_id", "list"}
      PROVE  MakingOf(job'[d], pc'[d], model'[d])
  BY <1>2, <1>3, <1>4, <1>6, MakingAtRest
<1>7. CASE Fail(d)
  <2>1. job'[d] = Failed
    BY <1>0, <1>7 DEF Fail
  <2>2. job'[d].rv = FALSE
    BY <2>1 DEF Failed, NewCreate
  <2> QED BY <2>2, MakingOther
<1>8. CASE Open(d)
  <2>1. pc[d] \in {"idle", "crashed"} /\ pc'[d] = "idle" /\ job' = job
    BY <1>0, <1>8 DEF Open, Goto
  <2> QED BY <1>6, <2>1
<1>9. ASSUME NEW name \in Name, NEW at, CreateWorkspace(d, name, at)
      PROVE  MakingOf(job'[d], pc'[d], model'[d])
  <2>1. job'[d].kind = "workspace"
    BY <1>0, <1>9 DEF CreateWorkspace, NewCreate
  <2> QED BY <2>1, MakingOther
<1>10. ASSUME NEW path \in Path, NEW slash \in BOOLEAN, CreateContext(d, path, slash)
       PROVE  MakingOf(job'[d], pc'[d], model'[d])
  <2>1. CASE ValidPath(path) /\ pc'[d] = "insert"
             /\ job'[d] = NewCreate("context", path, slash, Elements(path, slash))
    BY <2>1, MakingStarts
  <2> QED BY <1>0, <1>7, <1>10, <2>1 DEF CreateContext, Goto
<1>11. CASE SkipElement(d)
  <2>1. job'[d] = [job[d] EXCEPT !.rv = FALSE, !.id = 0, !.left = Tail(@)]
    BY <1>0, <1>11 DEF SkipElement
  <2>2. job'[d].rv = FALSE
    BY <1>3, <2>1 DEF Create
  <2> QED BY <2>2, MakingOther
<1>12. CASE RefuseElement(d)
  BY <1>7, <1>12 DEF RefuseElement
<1>13. CASE InsertElement(d)
  <2>1. PICK e : e = Head(job[d].left)
    OBVIOUS
  <2>2. CASE job'[d] = [job[d] EXCEPT !.up = UpOf(model[d], e.at)] /\ pc'[d] = "read_id"
    <3>1. pc[d] = "insert" /\ model' = model
      BY <1>13 DEF InsertElement
    <3> QED BY <1>2, <1>3, <2>1, <2>2, <3>1, MakingInserted
  <2> QED BY <1>0, <1>7, <1>13, <2>1, <2>2 DEF InsertElement, Goto
<1>14. CASE ReadId(d)
  <2>1. PICK id : id = IdOf(model'[d], job[d].up, Head(job[d].left).name)
    OBVIOUS
  <2>2. pc[d] = "read_id"
    BY <1>14 DEF ReadId
  <2>3. CASE id # Missing /\ job'[d] = [job[d] EXCEPT !.id = id] /\ pc'[d] = "list"
    BY <1>2, <1>3, <1>4, <2>1, <2>2, <2>3, MakingRead
  <2> QED BY <1>0, <1>7, <1>14, <2>1, <2>3 DEF ReadId, Goto
<1>15. CASE List(d)
  <2>1. PICK left, l : left = job[d].left /\ l = Len(left)
    OBVIOUS
  <2>2. pc[d] = "list" /\ left # <<>>
    BY <1>3, <1>15, <2>1 DEF List
  <2>3. job'[d] = [job[d] EXCEPT !.left = Tail(@), !.up = Root]
    BY <1>0, <1>15 DEF List
  <2>4. pc'[d] = (IF l > 1 THEN "insert"
                  ELSE IF job[d].kind = "context" /\ job[d].rv THEN "list_context"
                  ELSE "idle")
    BY <1>0, <1>15, <2>1 DEF List, Goto
  <2>5. l \in Nat /\ l # 0
    BY <1>3, <2>1, <2>2 DEF Create
  <2>6. pc'[d] = "insert" \/ (l = 1 /\ pc'[d] # "read_id" /\ pc'[d] # "list")
    BY <2>4, <2>5
  <2> QED BY <1>2, <1>3, <1>4, <2>1, <2>2, <2>3, <2>6, MakingListed
<1>16. CASE ListContext(d)
  BY <1>0, <1>6, <1>16 DEF ListContext, Goto
<1>17. CASE ListUpdated(d)
  BY <1>0, <1>6, <1>17 DEF ListUpdated, Goto
<1>18. ASSUME NEW name \in Name, Update(d, name)
       PROVE  MakingOf(job'[d], pc'[d], model'[d])
  <2>1. pc[d] = "idle" /\ job' = job /\ pc'[d] \in {"crashed", "idle", "list_updated"}
    BY <1>0, <1>18 DEF Update, Goto, Call
  <2> QED BY <1>6, <2>1
<1>19. CASE UNCHANGED <<job, pc, model>>
  BY <1>5, <1>19
<1>20. ASSUME NEW c \in Connection \ {d},
              pc'[d] # pc[d] \/ job'[d] # job[d] \/ model'[d] # model[d]
       PROVE  /\ ~Open(c)
              /\ \A name \in Name, at \in Path \cup {<<>>} : ~CreateWorkspace(c, name, at)
              /\ \A path \in Path, slash \in BOOLEAN : ~CreateContext(c, path, slash)
              /\ ~SkipElement(c) /\ ~RefuseElement(c) /\ ~InsertElement(c)
              /\ ~ReadId(c) /\ ~List(c) /\ ~ListContext(c)
              /\ \A name \in Name : ~Update(c, name)
              /\ ~ListUpdated(c)
  <2>1. c \in Connection /\ c # d
    BY <1>20
  <2> QED
    BY <1>0, <1>20, <2>1
    DEF Open, CreateWorkspace, CreateContext, SkipElement, RefuseElement, InsertElement,
        ReadId, List, ListContext, ListAll, Update, ListUpdated, Goto, Fail
<1> QED
  BY <1>5, <1>8, <1>9, <1>10, <1>11, <1>12, <1>13, <1>14, <1>15, <1>16, <1>17, <1>18, <1>19, <1>20
  DEF Next, GetByPath, GetContext, vars

\* A context made with TRUE from a path that begins with a slash is found at that
\* path by every connection that lists the workspaces from then on, as long as
\* nobody renames one: whatever several connections create at the same time, each
\* element was looked up below the one before it in a copy that only grew since.
THEOREM ContextsStand == Spec => []ContextStands
<1>1. WorkspacesOK /\ ContextsOK => ContextStands
  <2> SUFFICES ASSUME WorkspacesOK, ContextsOK, ~renamed, NEW d \in Connection,
                      pc[d] = "idle", job[d].kind = "context", job[d].slash, job[d].rv
               PROVE  Resolve(table, job[d].path) = job[d].id
    BY DEF ContextStands
  <2>1. /\ job[d] \in Create /\ model[d] \in Seq(Row) /\ table \in Seq(Row)
        /\ Begins(model[d], table) /\ MakingOf(job[d], pc[d], model[d])
    BY DEF WorkspacesOK, TypeOK, ContextsOK
  <2>2. PICK create, m, step : create = job[d] /\ m = model[d] /\ step = pc[d]
    OBVIOUS
  <2>3. PICK path, gone, made : /\ path = create.path /\ made = MadeOf(create, step)
                                /\ gone = GoneOf(create)
    OBVIOUS
  <2>4. /\ ValidPath(path)
        /\ made # 0 => Resolve(m, SubSeq(path, 1, made)) = create.id
        /\ step \notin {"insert", "read_id", "list"} => create.left = <<>>
    <3>1. MakingParts(create, step, m, path, gone, made)
      BY <2>1, <2>2, <2>3 DEF MakingOf
    <3> QED BY <3>1 DEF MakingParts
  <2>5. create.left = <<>> /\ step # "list"
    BY <2>2, <2>4
  <2>6. path \in Seq(Name) /\ path # <<>>
    BY <2>4, ValidPathIs
  <2>7. PICK n \in Nat : n = Len(path) /\ n # 0
    BY <2>6
  <2>8. made = n
    <3>1. Len(create.left) = 0
      BY <2>5
    <3>2. made = n - 0
      BY <2>3, <2>5, <2>7, <3>1, MadeIs
    <3> QED BY <2>7, <3>2
  <2>9. SubSeq(path, 1, n) = path
    BY <2>6, <2>7
  <2>10. Resolve(m, path) = create.id /\ create.id # Missing
    <3>1. create.id # Missing
      BY <2>1, <2>2 DEF Create, Missing
    <3>2. made # 0
      BY <2>7, <2>8
    <3> QED BY <2>4, <2>8, <2>9, <3>1, <3>2
  <2>11. Resolve(table, path) = create.id
    BY <2>1, <2>2, <2>10, ResolveOfMore DEF Begins
  <2> QED BY <2>2, <2>3, <2>11
<1>2. Init => ContextsOK
  <2> SUFFICES ASSUME Init, NEW d \in Connection
               PROVE  Begins(model[d], table) /\ MakingOf(job[d], pc[d], model[d])
    BY DEF ContextsOK
  <2>1. model[d] = <<>> /\ job[d].kind = "workspace"
    BY DEF Init, NewCreate
  <2>2. Begins(model[d], table)
    BY <2>1 DEF Begins
  <2> QED BY <2>1, <2>2, MakingOther
<1> QED BY WorkspacesInvariant, ContextsStep, <1>1, <1>2, PTL DEF Spec

-----------------------------------------------------------------------------
(* The tree of objects                                                     *)

\* What a move's check has answered holds but for what was written since.
MovesChecked == \A w \in Writer : \A m \in move[w] :
    m.heard /\ m.to \in ChildFolders(m.at) => m.to \in m.late

\* So do the answers of a removal's checks.
RemovalsChecked == \A w \in Writer : \A m \in removal[w] :
    /\ Made(m.at)
    /\ m.heard => /\ ChildFolders(m.at) \subseteq m.late
                  /\ m.next = "row" => ChildLeaves(m.at) \subseteq m.lateLeaf

ObjectsOK == WritersTypeOK /\ MovesChecked /\ RemovalsChecked

\* A call is in a set of at most one.
LEMMA OneOfMaybe ==
    ASSUME NEW S, NEW x \in Maybe(S), NEW e \in x
    PROVE  e \in S
BY DEF Maybe

LEMMA FewerOfMaybe ==
    ASSUME NEW S, NEW x \in Maybe(S), NEW y \in SUBSET x
    PROVE  y \in Maybe(S)
BY DEF Maybe

\* Who is in a call and learns of a folder is in the same call.
LEMMA LateMoves ==
    ASSUME NEW ms \in Maybe(Move), NEW f \in Folder
    PROVE  {[m EXCEPT !.late = @ \cup {f}] : m \in ms} \in Maybe(Move)
<1>1. CASE ms = {}
  BY <1>1 DEF Maybe
<1>2. CASE \E m \in Move : ms = {m}
  <2>1. PICK m \in Move : ms = {m}
    BY <1>2
  <2>2. [m EXCEPT !.late = @ \cup {f}] \in Move
    BY DEF Move
  <2>3. {[k EXCEPT !.late = @ \cup {f}] : k \in ms} = {[m EXCEPT !.late = @ \cup {f}]}
    BY <2>1
  <2> QED BY <2>2, <2>3 DEF Maybe
<1> QED BY <1>1, <1>2 DEF Maybe

LEMMA LateRemovals ==
    ASSUME NEW ms \in Maybe(Removal), NEW f \in Folder
    PROVE  {[m EXCEPT !.late = @ \cup {f}] : m \in ms} \in Maybe(Removal)
<1>1. CASE ms = {}
  BY <1>1 DEF Maybe
<1>2. CASE \E m \in Removal : ms = {m}
  <2>1. PICK m \in Removal : ms = {m}
    BY <1>2
  <2>2. [m EXCEPT !.late = @ \cup {f}] \in Removal
    BY DEF Removal
  <2>3. {[k EXCEPT !.late = @ \cup {f}] : k \in ms} = {[m EXCEPT !.late = @ \cup {f}]}
    BY <2>1
  <2> QED BY <2>2, <2>3 DEF Maybe
<1> QED BY <1>1, <1>2 DEF Maybe

LEMMA LateLeafRemovals ==
    ASSUME NEW ms \in Maybe(Removal), NEW l \in Leaf
    PROVE  {[m EXCEPT !.lateLeaf = @ \cup {l}] : m \in ms} \in Maybe(Removal)
<1>1. CASE ms = {}
  BY <1>1 DEF Maybe
<1>2. CASE \E m \in Removal : ms = {m}
  <2>1. PICK m \in Removal : ms = {m}
    BY <1>2
  <2>2. [m EXCEPT !.lateLeaf = @ \cup {l}] \in Removal
    BY DEF Removal
  <2>3. {[k EXCEPT !.lateLeaf = @ \cup {l}] : k \in ms} = {[m EXCEPT !.lateLeaf = @ \cup {l}]}
    BY <2>1
  <2> QED BY <2>2, <2>3 DEF Maybe
<1> QED BY <1>1, <1>2 DEF Maybe

\* A statement that writes one folder, and is told to everybody in a call, keeps
\* the invariant, whoever leaves a call by it.
LEMMA FolderWritten ==
    ASSUME ObjectsOK, NEW f \in Folder, NEW row \in TreeRow \cup {Purged},
           folder' = [folder EXCEPT ![f] = row], leaf' = leaf,
           NEW ms, NEW rs,
           \A w \in Writer : ms[w] \subseteq move[w] /\ rs[w] \subseteq removal[w],
           move' = MovesLate(f, ms), removal' = RemovalsLate(f, rs)
    PROVE  ObjectsOK'
<1>1. /\ folder \in [Folder -> TreeRow \cup {Unmade, Purged}]
      /\ leaf \in [Leaf -> TreeRow \cup {Unmade, Purged}]
      /\ move \in [Writer -> Maybe(Move)] /\ removal \in [Writer -> Maybe(Removal)]
      /\ \A w \in Writer : move[w] = {} \/ removal[w] = {}
  BY DEF ObjectsOK, WritersTypeOK
<1>2. /\ folder' \in [Folder -> TreeRow \cup {Unmade, Purged}]
      /\ folder'[f] = row
      /\ \A g \in Folder : g # f => folder'[g] = folder[g]
  BY <1>1
<1>3. row # Unmade
  BY NoRowAssumption
<1>4. \A g \in Folder : Made(g) => Made(g)'
  BY <1>2, <1>3 DEF Made
<1>5. \A g \in Folder : Stored(g)' => (g # f /\ Stored(g)) \/ (g = f /\ row \in TreeRow)
  BY <1>2 DEF Stored
<1>9. \A up : ChildFolders(up)' \subseteq ChildFolders(up) \cup {f}
  BY <1>2, <1>5 DEF ChildFolders, Live
<1>10. \A up : ChildLeaves(up)' = ChildLeaves(up)
  BY DEF ChildLeaves, LeafLive
<1>11. \A w \in Writer : \A m \in move'[w] :
          \E k \in move[w] : k \in Move /\ m = [k EXCEPT !.late = @ \cup {f}]
  <2> SUFFICES ASSUME NEW w \in Writer, NEW m \in move'[w]
               PROVE  \E k \in move[w] : k \in Move /\ m = [k EXCEPT !.late = @ \cup {f}]
    OBVIOUS
  <2>1. PICK k \in ms[w] : m = [k EXCEPT !.late = @ \cup {f}]
    BY DEF MovesLate
  <2>2. k \in move[w] /\ move[w] \in Maybe(Move)
    BY <1>1
  <2> QED BY <2>1, <2>2, OneOfMaybe
<1>12. \A w \in Writer : \A m \in removal'[w] :
          \E k \in removal[w] : k \in Removal /\ m = [k EXCEPT !.late = @ \cup {f}]
  <2> SUFFICES ASSUME NEW w \in Writer, NEW m \in removal'[w]
               PROVE  \E k \in removal[w] : k \in Removal /\ m = [k EXCEPT !.late = @ \cup {f}]
    OBVIOUS
  <2>1. PICK k \in rs[w] : m = [k EXCEPT !.late = @ \cup {f}]
    BY DEF RemovalsLate
  <2>2. k \in removal[w] /\ removal[w] \in Maybe(Removal)
    BY <1>1
  <2> QED BY <2>1, <2>2, OneOfMaybe
<1>13. MovesChecked'
  <2> SUFFICES ASSUME NEW w \in Writer, NEW m \in move'[w]
               PROVE  m.heard /\ m.to \in ChildFolders(m.at)' => m.to \in m.late
    BY DEF MovesChecked
  <2>1. PICK k \in move[w] : k \in Move /\ m = [k EXCEPT !.late = @ \cup {f}]
    BY <1>11
  <2>2. m.to = k.to /\ m.at = k.at /\ m.heard = k.heard /\ m.late = k.late \cup {f}
    BY <2>1 DEF Move
  <2>3. k.heard /\ k.to \in ChildFolders(k.at) => k.to \in k.late
    BY <2>1 DEF ObjectsOK, MovesChecked
  <2>4. ChildFolders(m.at)' \subseteq ChildFolders(m.at) \cup {f}
    BY <1>9
  <2> QED BY <2>2, <2>3, <2>4
<1>14. RemovalsChecked'
  <2> SUFFICES ASSUME NEW w \in Writer, NEW m \in removal'[w]
               PROVE  /\ Made(m.at)'
                      /\ m.heard =>
                           /\ ChildFolders(m.at)' \subseteq m.late
                           /\ m.next = "row" => ChildLeaves(m.at)' \subseteq m.lateLeaf
    BY DEF RemovalsChecked
  <2>1. PICK k \in removal[w] : k \in Removal /\ m = [k EXCEPT !.late = @ \cup {f}]
    BY <1>12
  <2>2. m.at = k.at /\ m.heard = k.heard /\ m.late = k.late \cup {f} /\ m.next = k.next
        /\ m.lateLeaf = k.lateLeaf /\ k.at \in Folder
    BY <2>1 DEF Removal
  <2>3. /\ Made(k.at)
        /\ k.heard => /\ ChildFolders(k.at) \subseteq k.late
                      /\ k.next = "row" => ChildLeaves(k.at) \subseteq k.lateLeaf
    BY <2>1, <2>2 DEF ObjectsOK, RemovalsChecked
  <2>4. ChildFolders(k.at)' \subseteq ChildFolders(k.at) \cup {f}
    BY <1>9
  <2>5. ChildLeaves(k.at)' = ChildLeaves(k.at)
    BY <1>10
  <2>6. Made(m.at)'
    BY <1>4, <2>2, <2>3
  <2> QED BY <2>2, <2>3, <2>4, <2>5, <2>6
<1>15. WritersTypeOK'
  <2>1. \A w \in Writer : ms[w] \in Maybe(Move) /\ rs[w] \in Maybe(Removal)
    BY <1>1, FewerOfMaybe
  <2>2. move' \in [Writer -> Maybe(Move)]
    BY <2>1, LateMoves DEF MovesLate
  <2>3. removal' \in [Writer -> Maybe(Removal)]
    BY <2>1, LateRemovals DEF RemovalsLate
  <2>4. \A w \in Writer : move'[w] = {} \/ removal'[w] = {}
    BY <1>1, <1>11, <1>12
  <2> QED BY <1>1, <1>2, <2>2, <2>3, <2>4 DEF WritersTypeOK
<1> QED BY <1>13, <1>14, <1>15 DEF ObjectsOK

\* Everybody's calls and the folders as they were: what a leaf's statement, a
\* reader's and a stutter leave.
LEMMA FoldersStay ==
    ASSUME ObjectsOK, folder' = folder, move' = move, removal' = removal, leaf' = leaf
    PROVE  ObjectsOK'
BY DEF ObjectsOK, WritersTypeOK, MovesChecked, RemovalsChecked, ChildFolders,
       ChildLeaves, Made, Stored, Live, LeafLive

\* A folder that leaves its table or is marked there.
LEMMA FolderRemoved ==
    ASSUME ObjectsOK, NEW f \in Folder, NEW purge \in BOOLEAN, Made(f), Removes(f, purge),
           leaf' = leaf, NEW rs,
           \A w \in Writer : rs[w] \subseteq removal[w],
           move' = MovesLate(f, move), removal' = RemovalsLate(f, rs)
    PROVE  ObjectsOK'
<1>1. folder \in [Folder -> TreeRow \cup {Unmade, Purged}]
  BY DEF ObjectsOK, WritersTypeOK
<1>2. \E row \in TreeRow \cup {Purged} : folder' = [folder EXCEPT ![f] = row]
  <2>1. CASE ~Stored(f)
    <3>1. folder[f] = Purged
      BY <2>1 DEF Stored, Made
    <3>2. folder' = [folder EXCEPT ![f] = Purged]
      BY <1>1, <2>1, <3>1 DEF Removes
    <3> QED BY <3>2
  <2>2. CASE Stored(f)
    <3>1. folder[f] \in TreeRow
      BY <1>1, <2>2 DEF Stored
    <3>2. PICK row : row = IF purge THEN Purged ELSE [folder[f] EXCEPT !.live = FALSE]
      OBVIOUS
    <3>3. folder' = [folder EXCEPT ![f] = row]
      BY <2>2, <3>2 DEF Removes
    <3>4. row \in TreeRow \cup {Purged}
      BY <3>1, <3>2 DEF TreeRow
    <3> QED BY <3>3, <3>4
  <2> QED BY <2>1, <2>2
<1>3. PICK row \in TreeRow \cup {Purged} : folder' = [folder EXCEPT ![f] = row]
  BY <1>2
<1>4. \A w \in Writer : move[w] \subseteq move[w] /\ rs[w] \subseteq removal[w]
  OBVIOUS
<1> QED BY <1>3, <1>4, FolderWritten

LEMMA CreateFolderStep ==
    ASSUME ObjectsOK, NEW w \in Writer, CreateFolder(w)
    PROVE  ObjectsOK'
<1>1. PICK f \in Folder, up \in Id :
          /\ folder' = [folder EXCEPT ![f] = [up |-> up, live |-> TRUE]]
          /\ move' = MovesLate(f, move) /\ removal' = RemovalsLate(f, removal)
          /\ leaf' = leaf
  BY DEF CreateFolder
<1>2. PICK row : row = [up |-> up, live |-> TRUE]
  OBVIOUS
<1>3. row \in TreeRow /\ row.up = up
  BY <1>2 DEF TreeRow
<1>4. \A v \in Writer : move[v] \subseteq move[v] /\ removal[v] \subseteq removal[v]
  OBVIOUS
<1>5. folder' = [folder EXCEPT ![f] = row]
  BY <1>1, <1>2
<1> QED BY <1>1, <1>3, <1>4, <1>5, FolderWritten

LEMMA EndMoveStep ==
    ASSUME ObjectsOK, NEW w \in Writer, EndMove(w)
    PROVE  ObjectsOK'
<1>1. PICK m \in move[w] :
          /\ IF Stored(m.at)
             THEN /\ folder' = [folder EXCEPT ![m.at] = [up |-> m.to, live |-> TRUE]]
                  /\ move' = MovesLate(m.at, [move EXCEPT ![w] = {}])
                  /\ removal' = RemovalsLate(m.at, removal)
             ELSE /\ move' = [move EXCEPT ![w] = {}]
                  /\ folder' = folder /\ removal' = removal
          /\ leaf' = leaf
  BY DEF EndMove
<1>2. move \in [Writer -> Maybe(Move)]
  BY DEF ObjectsOK, WritersTypeOK
<1>3. m \in Move
  <2>1. move[w] \in Maybe(Move)
    BY <1>2
  <2> QED BY <2>1, OneOfMaybe
<1>4. PICK ms : ms = [move EXCEPT ![w] = {}]
  OBVIOUS
<1>5. \A v \in Writer : ms[v] \subseteq move[v] /\ removal[v] \subseteq removal[v]
  BY <1>2, <1>4
<1>6. CASE Stored(m.at)
  <2>1. PICK row : row = [up |-> m.to, live |-> TRUE]
    OBVIOUS
  <2>2. row \in TreeRow
    BY <1>3, <2>1 DEF TreeRow, Move
  <2>4. PICK f \in Folder : f = m.at
    BY <1>3 DEF Move
  <2>5. /\ folder' = [folder EXCEPT ![f] = row]
        /\ move' = MovesLate(f, ms) /\ removal' = RemovalsLate(f, removal)
    BY <1>1, <1>4, <1>6, <2>1, <2>4
  <2> QED BY <1>1, <1>5, <2>2, <2>5, FolderWritten
<1>7. CASE ~Stored(m.at)
  <2>1. folder' = folder /\ leaf' = leaf /\ removal' = removal /\ move' = ms
    BY <1>1, <1>4, <1>7
  <2>2. ms \in [Writer -> Maybe(Move)]
    BY <1>2, <1>4 DEF Maybe
  <2>3. \A v \in Writer : ms[v] = {} \/ removal[v] = {}
    BY <1>5 DEF ObjectsOK, WritersTypeOK
  <2> QED
    BY <1>5, <2>1, <2>2, <2>3
    DEF ObjectsOK, WritersTypeOK, MovesChecked, RemovalsChecked, ChildFolders,
        ChildLeaves, Made, Stored, Live, LeafLive
<1> QED BY <1>6, <1>7

LEMMA EndRemovalStep ==
    ASSUME ObjectsOK, NEW w \in Writer, EndRemoval(w)
    PROVE  ObjectsOK'
<1>0. EndRemoval(w)
  OBVIOUS
<1>1. PICK m \in removal[w] :
          /\ Removes(m.at, m.purge)
          /\ removal' = RemovalsLate(m.at, [removal EXCEPT ![w] = {}])
          /\ move' = MovesLate(m.at, move)
          /\ leaf' = leaf
  BY <1>0 DEF EndRemoval
<1>2. removal \in [Writer -> Maybe(Removal)]
  BY DEF ObjectsOK, WritersTypeOK
<1>3. m \in Removal
  <2>1. removal[w] \in Maybe(Removal)
    BY <1>2
  <2> QED BY <2>1, OneOfMaybe
<1>4. PICK rs : rs = [removal EXCEPT ![w] = {}]
  OBVIOUS
<1>5. \A v \in Writer : rs[v] \subseteq removal[v]
  BY <1>2, <1>4
<1>6. PICK f \in Folder, purge \in BOOLEAN : f = m.at /\ purge = m.purge
  BY <1>3 DEF Removal
<1>7. /\ Removes(f, purge)
      /\ move' = MovesLate(f, move) /\ removal' = RemovalsLate(f, rs)
  BY <1>1, <1>4, <1>6
<1>8. Made(f)
  BY <1>6 DEF ObjectsOK, RemovalsChecked
<1> QED BY <1>1, <1>5, <1>7, <1>8, FolderRemoved

LEMMA RemoveUncheckedStep ==
    ASSUME ObjectsOK, NEW w \in Writer, RemoveUnchecked(w)
    PROVE  ObjectsOK'
<1>1. PICK f \in Folder, purge \in BOOLEAN :
          /\ Made(f) /\ Removes(f, purge)
          /\ move' = MovesLate(f, move) /\ removal' = RemovalsLate(f, removal)
          /\ leaf' = leaf
  BY DEF RemoveUnchecked
<1>2. \A v \in Writer : removal[v] \subseteq removal[v]
  OBVIOUS
<1> QED BY <1>1, <1>2, FolderRemoved

LEMMA WriteLeafStep ==
    ASSUME ObjectsOK, NEW w \in Writer, WriteLeaf(w)
    PROVE  ObjectsOK'
<1>1. PICK l \in Leaf, up \in Folder :
          /\ leaf' = [leaf EXCEPT ![l] = [up |-> up, live |-> TRUE]]
          /\ removal' = RemovalsLateLeaf(l)
          /\ folder' = folder /\ move' = move
  BY DEF WriteLeaf
<1>2. /\ folder \in [Folder -> TreeRow \cup {Unmade, Purged}]
      /\ leaf \in [Leaf -> TreeRow \cup {Unmade, Purged}]
      /\ move \in [Writer -> Maybe(Move)] /\ removal \in [Writer -> Maybe(Removal)]
      /\ \A v \in Writer : move[v] = {} \/ removal[v] = {}
  BY DEF ObjectsOK, WritersTypeOK
<1>3. PICK row : row = [up |-> up, live |-> TRUE]
  OBVIOUS
<1>4. row \in TreeRow
  BY <1>3, NumberAssumption DEF TreeRow, Folder, Id
<1>5. leaf' = [leaf EXCEPT ![l] = row]
  BY <1>1, <1>3
<1>6. leaf' \in [Leaf -> TreeRow \cup {Unmade, Purged}]
  BY <1>2, <1>4, <1>5
<1>7. \A up_ : ChildLeaves(up_)' \subseteq ChildLeaves(up_) \cup {l}
  BY <1>2, <1>5 DEF ChildLeaves, LeafLive
<1>8. \A up_ : ChildFolders(up_)' = ChildFolders(up_)
  BY <1>1 DEF ChildFolders, Live, Stored
<1>9. \A v \in Writer : \A m \in removal'[v] :
          \E k \in removal[v] : k \in Removal /\ m = [k EXCEPT !.lateLeaf = @ \cup {l}]
  <2> SUFFICES ASSUME NEW v \in Writer, NEW m \in removal'[v]
               PROVE  \E k \in removal[v] : k \in Removal /\ m = [k EXCEPT !.lateLeaf = @ \cup {l}]
    OBVIOUS
  <2>1. PICK k \in removal[v] : m = [k EXCEPT !.lateLeaf = @ \cup {l}]
    BY <1>1 DEF RemovalsLateLeaf
  <2>2. removal[v] \in Maybe(Removal)
    BY <1>2
  <2> QED BY <2>1, <2>2, OneOfMaybe
<1>10. RemovalsChecked'
  <2> SUFFICES ASSUME NEW v \in Writer, NEW m \in removal'[v]
               PROVE  /\ Made(m.at)'
                      /\ m.heard =>
                           /\ ChildFolders(m.at)' \subseteq m.late
                           /\ m.next = "row" => ChildLeaves(m.at)' \subseteq m.lateLeaf
    BY DEF RemovalsChecked
  <2>1. PICK k \in removal[v] : k \in Removal /\ m = [k EXCEPT !.lateLeaf = @ \cup {l}]
    BY <1>9
  <2>2. m.at = k.at /\ m.heard = k.heard /\ m.late = k.late /\ m.next = k.next
        /\ m.lateLeaf = k.lateLeaf \cup {l}
    BY <2>1 DEF Removal
  <2>3. /\ Made(k.at)
        /\ k.heard => /\ ChildFolders(k.at) \subseteq k.late
                      /\ k.next = "row" => ChildLeaves(k.at) \subseteq k.lateLeaf
    BY <2>1 DEF ObjectsOK, RemovalsChecked
  <2>4. ChildLeaves(k.at)' \subseteq ChildLeaves(k.at) \cup {l}
    BY <1>7
  <2>5. ChildFolders(k.at)' = ChildFolders(k.at)
    BY <1>8
  <2>6. Made(k.at)'
    BY <1>1, <2>3 DEF Made
  <2> QED BY <2>2, <2>3, <2>4, <2>5, <2>6
<1>11. WritersTypeOK'
  <2>1. removal' \in [Writer -> Maybe(Removal)]
    BY <1>1, <1>2, LateLeafRemovals DEF RemovalsLateLeaf
  <2>2. \A v \in Writer : move'[v] = {} \/ removal'[v] = {}
    BY <1>1, <1>2, <1>9
  <2> QED BY <1>1, <1>2, <1>6, <2>1, <2>2 DEF WritersTypeOK
<1>12. MovesChecked'
  BY <1>1, <1>8 DEF ObjectsOK, MovesChecked, Made, Stored
<1> QED BY <1>10, <1>11, <1>12 DEF ObjectsOK

LEMMA RemoveLeafStep ==
    ASSUME ObjectsOK, NEW w \in Writer, RemoveLeaf(w)
    PROVE  ObjectsOK'
<1>1. PICK l \in Leaf, purge \in BOOLEAN :
          /\ leaf[l] \notin {Unmade, Purged}
          /\ leaf' = [leaf EXCEPT ![l] = IF purge THEN Purged ELSE [@ EXCEPT !.live = FALSE]]
          /\ folder' = folder /\ move' = move /\ removal' = removal
  BY DEF RemoveLeaf, writing
<1>2. leaf \in [Leaf -> TreeRow \cup {Unmade, Purged}]
  BY DEF ObjectsOK, WritersTypeOK
<1>3. PICK row : row = IF purge THEN Purged ELSE [leaf[l] EXCEPT !.live = FALSE]
  OBVIOUS
<1>4. leaf' = [leaf EXCEPT ![l] = row]
  BY <1>1, <1>3
<1>5. leaf[l] \in TreeRow
  BY <1>1, <1>2
<1>6. row \in TreeRow \cup {Purged} /\ (row \in TreeRow => ~row.live)
  BY <1>3, <1>5, NoRowAssumption DEF TreeRow
<1>7. leaf' \in [Leaf -> TreeRow \cup {Unmade, Purged}]
  BY <1>2, <1>4, <1>6
<1>8. \A up : ChildLeaves(up)' \subseteq ChildLeaves(up)
  BY <1>2, <1>4, <1>6 DEF ChildLeaves, LeafLive
<1>9. \A up : ChildFolders(up)' = ChildFolders(up)
  BY <1>1 DEF ChildFolders, Live, Stored
<1>10. MovesChecked'
  BY <1>1, <1>9 DEF ObjectsOK, MovesChecked, Made, Stored
<1>11. RemovalsChecked'
  <2> SUFFICES ASSUME NEW v \in Writer, NEW m \in removal'[v]
               PROVE  /\ Made(m.at)'
                      /\ m.heard =>
                           /\ ChildFolders(m.at)' \subseteq m.late
                           /\ m.next = "row" => ChildLeaves(m.at)' \subseteq m.lateLeaf
    BY DEF RemovalsChecked
  <2>1. /\ Made(m.at)
        /\ m.heard => /\ ChildFolders(m.at) \subseteq m.late
                      /\ m.next = "row" => ChildLeaves(m.at) \subseteq m.lateLeaf
    BY <1>1 DEF ObjectsOK, RemovalsChecked
  <2>2. ChildLeaves(m.at)' \subseteq ChildLeaves(m.at)
    BY <1>8
  <2>3. ChildFolders(m.at)' = ChildFolders(m.at)
    BY <1>9
  <2>4. Made(m.at)'
    BY <1>1, <2>1 DEF Made
  <2> QED BY <2>1, <2>2, <2>3, <2>4
<1>12. WritersTypeOK'
  BY <1>1, <1>7 DEF ObjectsOK, WritersTypeOK
<1> QED BY <1>10, <1>11, <1>12 DEF ObjectsOK

LEMMA StartMoveStep ==
    ASSUME ObjectsOK, NEW w \in Writer, StartMove(w)
    PROVE  ObjectsOK'
<1>1. PICK f \in Folder, to \in Id, heard \in BOOLEAN :
          /\ Idle(w)
          /\ move' = [move EXCEPT ![w] = IF heard /\ Circular(f, to) THEN {}
                  ELSE {[at |-> f, to |-> to, heard |-> heard, late |-> {}]}]
          /\ folder' = folder /\ leaf' = leaf /\ removal' = removal
  BY DEF StartMove, tables
<1>2. PICK m : m = [at |-> f, to |-> to, heard |-> heard, late |-> {}]
  OBVIOUS
<1>3. m \in Move /\ m.at = f /\ m.to = to /\ m.heard = heard
  BY <1>2 DEF Move
<1>4. PICK new : new = IF heard /\ Circular(f, to) THEN {} ELSE {m}
  OBVIOUS
<1>5. move' = [move EXCEPT ![w] = new]
  BY <1>1, <1>2, <1>4
<1>6. new \in Maybe(Move)
  BY <1>3, <1>4 DEF Maybe
<1>7. /\ move \in [Writer -> Maybe(Move)]
      /\ \A v \in Writer : move[v] = {} \/ removal[v] = {}
  BY DEF ObjectsOK, WritersTypeOK
<1>8. \A v \in Writer : \A k \in move'[v] : k \in move[v] \/ (k = m /\ k \in new)
  BY <1>4, <1>5, <1>7
<1>9. \A up : ChildFolders(up)' = ChildFolders(up) /\ ChildLeaves(up)' = ChildLeaves(up)
  BY <1>1 DEF ChildFolders, ChildLeaves, Live, LeafLive, Stored
<1>10. MovesChecked'
  <2> SUFFICES ASSUME NEW v \in Writer, NEW k \in move'[v]
               PROVE  k.heard /\ k.to \in ChildFolders(k.at)' => k.to \in k.late
    BY DEF MovesChecked
  <2>1. CASE k \in move[v]
    BY <1>1, <1>9, <2>1 DEF ObjectsOK, MovesChecked, Made
  <2>2. CASE k = m /\ k \in new
    <3>1. ~(heard /\ Circular(f, to))
      BY <1>4, <2>2
    <3>2. heard => to \notin ChildFolders(f)'
      BY <1>9, <3>1 DEF Circular
    <3> QED BY <1>3, <2>2, <3>2
  <2> QED BY <1>8, <2>1, <2>2
<1>11. WritersTypeOK'
  <2>1. move' \in [Writer -> Maybe(Move)]
    BY <1>5, <1>6, <1>7
  <2>2. \A v \in Writer : move'[v] = {} \/ removal'[v] = {}
    BY <1>1, <1>5, <1>7 DEF Idle
  <2> QED BY <1>1, <2>1, <2>2 DEF ObjectsOK, WritersTypeOK
<1>12. RemovalsChecked'
  BY <1>1, <1>9 DEF ObjectsOK, RemovalsChecked, Made, Stored
<1> QED BY <1>10, <1>11, <1>12 DEF ObjectsOK

\* A removal that begins, or goes on, with what its check was answered.
LEMMA RemovalChecked ==
    ASSUME ObjectsOK, NEW w \in Writer, move[w] = {}, NEW new \in Maybe(Removal),
           removal' = [removal EXCEPT ![w] = new],
           folder' = folder, leaf' = leaf, move' = move,
           \A m \in new : /\ Made(m.at)
                          /\ m.heard =>
                               /\ ChildFolders(m.at) \subseteq m.late
                               /\ m.next = "row" => ChildLeaves(m.at) \subseteq m.lateLeaf
    PROVE  ObjectsOK'
<1>1. /\ removal \in [Writer -> Maybe(Removal)]
      /\ \A v \in Writer : move[v] = {} \/ removal[v] = {}
  BY DEF ObjectsOK, WritersTypeOK
<1>2. \A v \in Writer : removal'[v] = IF v = w THEN new ELSE removal[v]
  BY <1>1
<1>3. \A up : ChildFolders(up)' = ChildFolders(up) /\ ChildLeaves(up)' = ChildLeaves(up)
  BY DEF ChildFolders, ChildLeaves, Live, LeafLive, Stored
<1>4. RemovalsChecked'
  BY <1>2, <1>3 DEF ObjectsOK, RemovalsChecked, Made
<1>5. WritersTypeOK'
  <2>1. removal' \in [Writer -> Maybe(Removal)]
    BY <1>1
  <2>2. \A v \in Writer : move'[v] = {} \/ removal'[v] = {}
    BY <1>1, <1>2
  <2> QED BY <2>1, <2>2 DEF ObjectsOK, WritersTypeOK
<1>6. MovesChecked'
  BY <1>3 DEF ObjectsOK, MovesChecked, Made, Stored
<1> QED BY <1>4, <1>5, <1>6 DEF ObjectsOK

LEMMA StartRemovalStep ==
    ASSUME ObjectsOK, NEW w \in Writer, StartRemoval(w)
    PROVE  ObjectsOK'
<1>1. PICK f \in Folder, purge \in BOOLEAN, heard \in BOOLEAN :
          /\ Idle(w) /\ Made(f)
          /\ removal' = [removal EXCEPT ![w] = IF heard /\ ChildFolders(f) # {} THEN {}
                  ELSE {[at |-> f, purge |-> purge, next |-> "leaves", heard |-> heard,
                         late |-> {}, lateLeaf |-> {}]}]
          /\ folder' = folder /\ leaf' = leaf /\ move' = move
  BY DEF StartRemoval, tables
<1>2. PICK m : m = [at |-> f, purge |-> purge, next |-> "leaves", heard |-> heard,
                    late |-> {}, lateLeaf |-> {}]
  OBVIOUS
<1>3. m \in Removal /\ m.at = f /\ m.next = "leaves" /\ m.heard = heard
  BY <1>2 DEF Removal
<1>4. PICK new : new = IF heard /\ ChildFolders(f) # {} THEN {} ELSE {m}
  OBVIOUS
<1>5. new \in Maybe(Removal)
  BY <1>3, <1>4 DEF Maybe
<1>6. removal' = [removal EXCEPT ![w] = new]
  BY <1>1, <1>2, <1>4
<1>7. \A k \in new : /\ Made(k.at)
                     /\ k.heard =>
                          /\ ChildFolders(k.at) \subseteq k.late
                          /\ k.next = "row" => ChildLeaves(k.at) \subseteq k.lateLeaf
  BY <1>1, <1>3, <1>4
<1>8. move[w] = {}
  BY <1>1 DEF Idle
<1> QED BY <1>1, <1>5, <1>6, <1>7, <1>8, RemovalChecked

LEMMA AskLeavesStep ==
    ASSUME ObjectsOK, NEW w \in Writer, AskLeaves(w)
    PROVE  ObjectsOK'
<1>1. PICK m \in removal[w], heard \in BOOLEAN :
          /\ removal' = [removal EXCEPT ![w] = IF heard /\ LeavesKeep(m) THEN {}
                  ELSE {[m EXCEPT !.next = "row", !.heard = @ /\ heard]}]
          /\ folder' = folder /\ leaf' = leaf /\ move' = move
  BY DEF AskLeaves, tables
<1>2. removal[w] \in Maybe(Removal) /\ (move[w] = {} \/ removal[w] = {})
  BY DEF ObjectsOK, WritersTypeOK
<1>3. m \in Removal
  BY <1>2, OneOfMaybe
<1>4. PICK b \in BOOLEAN : b = (m.heard /\ heard)
  OBVIOUS
<1>5. PICK k : k = [m EXCEPT !.next = "row", !.heard = b]
  OBVIOUS
<1>6. k \in Removal /\ k.at = m.at /\ k.late = m.late /\ k.lateLeaf = m.lateLeaf /\ k.heard = b
  BY <1>3, <1>5 DEF Removal
<1>7. PICK new : new = IF heard /\ LeavesKeep(m) THEN {} ELSE {k}
  OBVIOUS
<1>8. new \in Maybe(Removal)
  BY <1>6, <1>7 DEF Maybe
<1>9. removal' = [removal EXCEPT ![w] = new]
  BY <1>1, <1>4, <1>5, <1>7
<1>10. /\ Made(m.at)
       /\ m.heard => ChildFolders(m.at) \subseteq m.late
  BY DEF ObjectsOK, RemovalsChecked
<1>11. \A x \in new : /\ Made(x.at)
                      /\ x.heard =>
                           /\ ChildFolders(x.at) \subseteq x.late
                           /\ x.next = "row" => ChildLeaves(x.at) \subseteq x.lateLeaf
  <2> SUFFICES ASSUME k \in new
               PROVE  /\ Made(k.at)
                      /\ k.heard => /\ ChildFolders(k.at) \subseteq k.late
                                    /\ ChildLeaves(k.at) \subseteq k.lateLeaf
    BY <1>7
  <2>1. ~(heard /\ LeavesKeep(m))
    BY <1>7
  <2>2. heard => ChildLeaves(m.at) = {}
    BY <2>1 DEF LeavesKeep
  <2> QED BY <1>4, <1>6, <1>10, <2>2
<1> QED BY <1>1, <1>2, <1>8, <1>9, <1>11, RemovalChecked

\* Who asks writes nothing, and tells nobody.
LEMMA ReaderStep ==
    ASSUME NEW r \in Reader,
           \/ StartWalk(r) \/ StartWalkOfLeaf(r) \/ (\E heard \in BOOLEAN : StepUp(r, heard))
           \/ StartList(r) \/ ListNext(r) \/ ListEnds(r)
    PROVE  folder' = folder /\ leaf' = leaf /\ move' = move /\ removal' = removal
BY DEF StartWalk, StartWalkOfLeaf, StepUp, StartList, ListNext, ListEnds, tables, writing

LEMMA ObjectsStep ==
    ASSUME ObjectsOK, [TreeNext]_treeVars
    PROVE  ObjectsOK'
<1>1. CASE UNCHANGED treeVars
  <2>1. folder' = folder /\ leaf' = leaf /\ move' = move /\ removal' = removal
    BY <1>1 DEF treeVars
  <2> QED BY <2>1, FoldersStay
<1>2. ASSUME NEW w \in Writer,
             \/ CreateFolder(w) \/ WriteLeaf(w) \/ RemoveLeaf(w)
             \/ StartMove(w) \/ EndMove(w)
             \/ RemoveUnchecked(w) \/ StartRemoval(w) \/ AskLeaves(w) \/ EndRemoval(w)
      PROVE  ObjectsOK'
  BY <1>2, CreateFolderStep, WriteLeafStep, RemoveLeafStep, StartMoveStep, EndMoveStep,
     RemoveUncheckedStep, StartRemovalStep, AskLeavesStep, EndRemovalStep
<1>3. ASSUME NEW r \in Reader,
             \/ StartWalk(r) \/ StartWalkOfLeaf(r) \/ (\E heard \in BOOLEAN : StepUp(r, heard))
             \/ StartList(r) \/ ListNext(r) \/ ListEnds(r)
      PROVE  ObjectsOK'
  BY <1>3, ReaderStep, FoldersStay
<1> QED BY <1>1, <1>2, <1>3 DEF TreeNext

LEMMA ObjectsStart == TreeInit => ObjectsOK
<1> SUFFICES ASSUME TreeInit PROVE ObjectsOK
  OBVIOUS
<1>1. \A f \in Folder : ~Stored(f)
  BY DEF TreeInit, Stored
<1>2. WritersTypeOK
  BY DEF TreeInit, WritersTypeOK, Maybe
<1>3. MovesChecked /\ RemovalsChecked
  BY <1>1 DEF TreeInit, MovesChecked, RemovalsChecked
<1> QED BY <1>2, <1>3 DEF ObjectsOK

LEMMA ObjectsInvariant == TreeSpec => []ObjectsOK
<1>1. ObjectsOK /\ [TreeNext]_treeVars => ObjectsOK'
  BY ObjectsStep
<1> QED BY ObjectsStart, <1>1, PTL DEF TreeSpec

\* A folder that was not written is live below another as before.
LEMMA PairOfOthers ==
    ASSUME NEW f \in Folder, NEW g \in Folder, folder'[f] = folder[f], folder'[g] = folder[g]
    PROVE  Pair(f, g)' <=> Pair(f, g)
BY DEF Pair, Live, Stored

\* A removal makes nothing live and moves nothing.
LEMMA PairOfRemoved ==
    ASSUME ObjectsOK, NEW h \in Folder, NEW purge \in BOOLEAN, Removes(h, purge),
           NEW f \in Folder, NEW g \in Folder, Pair(f, g)'
    PROVE  Pair(f, g)
<1>1. folder \in [Folder -> TreeRow \cup {Unmade, Purged}]
  BY DEF ObjectsOK, WritersTypeOK
<1>2. ASSUME NEW x \in Folder, Live(x)'
      PROVE  folder'[x] = folder[x]
  <2>1. CASE Stored(h)
    <3>1. PICK row : row = IF purge THEN Purged ELSE [folder[h] EXCEPT !.live = FALSE]
      OBVIOUS
    <3>2. folder' = [folder EXCEPT ![h] = row]
      BY <2>1, <3>1 DEF Removes
    <3>3. folder[h] \in TreeRow
      BY <1>1, <2>1 DEF Stored
    <3>4. row = Purged \/ ~row.live
      BY <3>1, <3>3 DEF TreeRow
    <3> QED BY <1>1, <1>2, <3>2, <3>4 DEF Live, Stored
  <2>2. CASE ~Stored(h)
    BY <2>2 DEF Removes
  <2> QED BY <2>1, <2>2
<1>3. folder'[f] = folder[f] /\ folder'[g] = folder[g]
  BY <1>2 DEF Pair
<1> QED BY <1>3, PairOfOthers

\* What a creation makes a pair of is the new folder and one that was put below
\* its id before.
LEMMA PairOfCreated ==
    ASSUME ObjectsOK, NEW w \in Writer, CreateFolder(w),
           NEW f \in Folder, NEW g \in Folder, Pair(f, g)', ~Pair(f, g)
    PROVE  ~Made(f) \/ ~Made(g)
<1>1. PICK h \in Folder, up \in Id :
          ~Made(h) /\ folder' = [folder EXCEPT ![h] = [up |-> up, live |-> TRUE]]
  BY DEF CreateFolder
<1>2. folder \in [Folder -> TreeRow \cup {Unmade, Purged}]
  BY DEF ObjectsOK, WritersTypeOK
<1>3. \A x \in Folder : x # h => folder'[x] = folder[x]
  BY <1>1, <1>2
<1> QED BY <1>1, <1>3, PairOfOthers

\* What a move makes a pair of is its folder and the one it was put below; which
\* was not below it when the move was checked.
LEMMA PairOfMoved ==
    ASSUME ObjectsOK, NEW w \in Writer, EndMove(w),
           NEW f \in Folder, NEW g \in Folder, Pair(f, g)', ~Pair(f, g)
    PROVE  \E m \in move[w] :
              /\ move'[w] = {} /\ {m.at, m.to} = {f, g}
              /\ m.to \in m.late \/ ~m.heard
<1>1. PICK m \in move[w] :
          IF Stored(m.at)
          THEN /\ folder' = [folder EXCEPT ![m.at] = [up |-> m.to, live |-> TRUE]]
               /\ move' = MovesLate(m.at, [move EXCEPT ![w] = {}])
          ELSE folder' = folder
  BY DEF EndMove
<1>2. /\ folder \in [Folder -> TreeRow \cup {Unmade, Purged}]
      /\ move \in [Writer -> Maybe(Move)]
  BY DEF ObjectsOK, WritersTypeOK
<1>3. m \in Move
  <2>1. move[w] \in Maybe(Move)
    BY <1>2
  <2> QED BY <2>1, OneOfMaybe
<1>4. Stored(m.at)
  <2>1. folder' = folder => FALSE
    BY PairOfOthers
  <2> QED BY <1>1, <2>1
<1>5. PICK row : row = [up |-> m.to, live |-> TRUE]
  OBVIOUS
<1>6. m.at \in Folder /\ folder' = [folder EXCEPT ![m.at] = row] /\ row.up = m.to
  BY <1>1, <1>3, <1>4, <1>5 DEF Move
<1>7. /\ folder'[m.at].up = m.to
      /\ \A x \in Folder : x # m.at => folder'[x] = folder[x]
  BY <1>2, <1>6
<1>8. m.at = f \/ m.at = g
  BY <1>7, PairOfOthers
<1>9. f # g /\ Live(f)' /\ Live(g)' /\ folder'[f].up = g /\ folder'[g].up = f
  BY DEF Pair
<1>10. move'[w] = {}
  BY <1>1, <1>2, <1>4 DEF MovesLate
<1>11. m.to \in ChildFolders(m.at) /\ {m.at, m.to} = {f, g}
  <2>1. CASE m.at = f
    <3>1. m.to = g /\ folder'[g] = folder[g]
      BY <1>7, <1>9, <2>1
    <3>2. Live(g) /\ folder[g].up = f
      BY <1>9, <3>1 DEF Live, Stored
    <3> QED BY <2>1, <3>1, <3>2 DEF ChildFolders
  <2>2. CASE m.at = g
    <3>1. m.to = f /\ folder'[f] = folder[f]
      BY <1>7, <1>9, <2>2
    <3>2. Live(f) /\ folder[f].up = g
      BY <1>9, <3>1 DEF Live, Stored
    <3> QED BY <2>2, <3>1, <3>2 DEF ChildFolders
  <2> QED BY <1>8, <2>1, <2>2
<1>12. m.to \in m.late \/ ~m.heard
  BY <1>11 DEF ObjectsOK, MovesChecked
<1> QED BY <1>10, <1>11, <1>12

\* A leaf's statement, a check and a reader leave the folders.
LEMMA FoldersLeft ==
    ASSUME NEW w \in Writer,
           \/ WriteLeaf(w) \/ RemoveLeaf(w) \/ StartMove(w) \/ StartRemoval(w) \/ AskLeaves(w)
    PROVE  folder' = folder
BY DEF WriteLeaf, RemoveLeaf, StartMove, StartRemoval, AskLeaves, tables

LEMMA PairsStep ==
    ASSUME ObjectsOK, [TreeNext]_treeVars, NEW f \in Folder, NEW g \in Folder,
           Pair(f, g)', ~Pair(f, g)
    PROVE  \/ ~Made(f) \/ ~Made(g)
           \/ \E w \in Writer : \E m \in move[w] :
                 /\ move'[w] = {} /\ {m.at, m.to} = {f, g}
                 /\ m.to \in m.late \/ ~m.heard
<1>1. folder' # folder
  BY PairOfOthers
<1>2. CASE UNCHANGED treeVars
  BY <1>1, <1>2 DEF treeVars
<1>3. ASSUME NEW r \in Reader,
             \/ StartWalk(r) \/ StartWalkOfLeaf(r) \/ (\E heard \in BOOLEAN : StepUp(r, heard))
             \/ StartList(r) \/ ListNext(r) \/ ListEnds(r)
      PROVE  FALSE
  BY <1>1, <1>3, ReaderStep
<1>4. ASSUME NEW w \in Writer, RemoveUnchecked(w)
      PROVE  FALSE
  <2>1. PICK h \in Folder, purge \in BOOLEAN : Removes(h, purge)
    BY <1>4 DEF RemoveUnchecked
  <2> QED BY <2>1, PairOfRemoved
<1>5. ASSUME NEW w \in Writer, EndRemoval(w)
      PROVE  FALSE
  <2>1. PICK m \in removal[w] : Removes(m.at, m.purge)
    BY <1>5 DEF EndRemoval
  <2>2. removal[w] \in Maybe(Removal)
    BY DEF ObjectsOK, WritersTypeOK
  <2>3. m \in Removal
    BY <2>2, OneOfMaybe
  <2>4. PICK h \in Folder, purge \in BOOLEAN : h = m.at /\ purge = m.purge
    BY <2>3 DEF Removal
  <2> QED BY <2>1, <2>4, PairOfRemoved
<1>6. ASSUME NEW w \in Writer, CreateFolder(w)
      PROVE  ~Made(f) \/ ~Made(g)
  BY <1>6, PairOfCreated
<1>7. ASSUME NEW w \in Writer,
             \/ WriteLeaf(w) \/ RemoveLeaf(w) \/ StartMove(w) \/ StartRemoval(w) \/ AskLeaves(w)
      PROVE  FALSE
  BY <1>1, <1>7, FoldersLeft
<1>8. ASSUME NEW w \in Writer, EndMove(w)
      PROVE  \E m \in move[w] : /\ move'[w] = {} /\ {m.at, m.to} = {f, g}
                                /\ m.to \in m.late \/ ~m.heard
  BY <1>8, PairOfMoved
<1> QED BY <1>2, <1>3, <1>4, <1>5, <1>6, <1>7, <1>8 DEF TreeNext

\* However moves, deletes, purges and creates of any number of processes
\* interleave, two folders come to lie below each other, and something live is
\* left below a folder that was removed, only by what was written after the
\* check that should have seen it (_is_circular, has_dependents), or if that
\* check got no answer, or, of the two folders, when one is made after the other
\* was put below its id: create has no check that could see it.
THEOREM ChecksAreKept == TreeSpec => ChecksHold
<1>1. ObjectsOK /\ [TreeNext]_treeVars =>
         [\A f, g \in Folder :
             (Pair(f, g)' /\ ~Pair(f, g)) =>
                 \/ ~Made(f) \/ ~Made(g)
                 \/ \E w \in Writer : \E m \in move[w] :
                       /\ move'[w] = {} /\ {m.at, m.to} = {f, g}
                       /\ m.to \in m.late \/ ~m.heard]_treeVars
  BY PairsStep
<1>2. ObjectsOK =>
         [\A w \in Writer : \A m \in removal[w] :
             (removal'[w] = {} /\ m.next = "row" /\ m.heard /\ Live(m.at) /\ ~Live(m.at)') =>
                 ChildFolders(m.at) \subseteq m.late /\ ChildLeaves(m.at) \subseteq m.lateLeaf]_treeVars
  BY DEF ObjectsOK, RemovalsChecked
<1>3. TreeSpec => PairsRaced
  BY ObjectsInvariant, <1>1, PTL DEF TreeSpec, PairsRaced
<1>4. TreeSpec => LeftBehind
  BY ObjectsInvariant, <1>2, PTL DEF TreeSpec, LeftBehind
<1> QED BY <1>3, <1>4 DEF ChecksHold

-----------------------------------------------------------------------------
(* Readers of the tree of objects                                          *)

\* A way up from f to t, of n steps over rows that are there.
Way(f, t, n, s) ==
    /\ s[0] = f /\ s[n] = t
    /\ \A i \in 0 .. n - 1 :
          s[i] \in Folder /\ Stored(s[i]) /\ s[i + 1] = folder[s[i]].up

Leads(f, t, n) == \E s \in [0 .. n -> Id] : Way(f, t, n, s)

LEMMA IdsAre == Id = Folder \cup {0} /\ 0 \notin Folder /\ Folder \subseteq Nat
BY NumberAssumption DEF Id, Folder

LEMMA UpsAreIds ==
    ASSUME WritersTypeOK, NEW g \in Folder, Stored(g)
    PROVE  folder[g] \in TreeRow /\ folder[g].up \in Id
BY DEF WritersTypeOK, Stored, TreeRow

\* No step leads to where one is.
LEMMA LeadsNowhere ==
    ASSUME NEW f \in Id, NEW t
    PROVE  Leads(f, t, 0) <=> t = f
<1>1. ASSUME Leads(f, t, 0) PROVE t = f
  BY <1>1 DEF Leads, Way
<1>2. ASSUME t = f PROVE Leads(f, t, 0)
  <2>1. PICK s : s = [i \in 0 .. 0 |-> f]
    OBVIOUS
  <2>2. s \in [0 .. 0 -> Id] /\ s[0] = f
    BY <2>1
  <2> QED BY <1>2, <2>2 DEF Leads, Way
<1> QED BY <1>1, <1>2

\* The last step of a way.
LEMMA LeadsOn ==
    ASSUME WritersTypeOK, NEW f \in Id, NEW t, NEW n \in Nat
    PROVE  Leads(f, t, n + 1) <=>
             \E h \in Folder : Leads(f, h, n) /\ Stored(h) /\ t = folder[h].up
<1>1. ASSUME Leads(f, t, n + 1)
      PROVE  \E h \in Folder : Leads(f, h, n) /\ Stored(h) /\ t = folder[h].up
  <2>1. PICK s \in [0 .. n + 1 -> Id] : Way(f, t, n + 1, s)
    BY <1>1 DEF Leads
  <2>2. PICK z : z = [i \in 0 .. n |-> s[i]]
    OBVIOUS
  <2>3. z \in [0 .. n -> Id] /\ \A i \in 0 .. n : z[i] = s[i]
    BY <2>2
  <2>4. s[n] \in Folder /\ Stored(s[n]) /\ t = folder[s[n]].up
    BY <2>1 DEF Way
  <2>5. Way(f, s[n], n, z)
    BY <2>1, <2>3 DEF Way
  <2> QED BY <2>3, <2>4, <2>5 DEF Leads
<1>2. ASSUME NEW h \in Folder, Leads(f, h, n), Stored(h), t = folder[h].up
      PROVE  Leads(f, t, n + 1)
  <2>1. PICK s \in [0 .. n -> Id] : Way(f, h, n, s)
    BY <1>2 DEF Leads
  <2>2. PICK z : z = [i \in 0 .. n + 1 |-> IF i = n + 1 THEN t ELSE s[i]]
    OBVIOUS
  <2>3. t \in Id
    BY <1>2, UpsAreIds
  <2>4. z \in [0 .. n + 1 -> Id] /\ z[n + 1] = t /\ \A i \in 0 .. n : z[i] = s[i]
    BY <2>2, <2>3
  <2>5. Way(f, t, n + 1, z)
    <3>1. z[0] = f /\ z[n] = h
      BY <2>1, <2>4 DEF Way
    <3>2. ASSUME NEW i \in 0 .. n
          PROVE  z[i] \in Folder /\ Stored(z[i]) /\ z[i + 1] = folder[z[i]].up
      <4>1. CASE i = n
        BY <1>2, <2>4, <3>1, <4>1
      <4>2. CASE i # n
        <5>1. i \in 0 .. n - 1 /\ i + 1 \in 0 .. n
          BY <4>2
        <5> QED BY <2>1, <2>4, <5>1 DEF Way
      <4> QED BY <4>1, <4>2
    <3> QED BY <2>4, <3>1, <3>2 DEF Way
  <2> QED BY <2>4, <2>5 DEF Leads
<1> QED BY <1>1, <1>2

\* The first step of a way.
LEMMA LeadsFirst ==
    ASSUME WritersTypeOK, NEW f \in Id, NEW t, NEW n \in Nat
    PROVE  Leads(f, t, n + 1) <=> f \in Folder /\ Stored(f) /\ Leads(folder[f].up, t, n)
<1>1. ASSUME Leads(f, t, n + 1)
      PROVE  f \in Folder /\ Stored(f) /\ Leads(folder[f].up, t, n)
  <2>1. PICK s \in [0 .. n + 1 -> Id] : Way(f, t, n + 1, s)
    BY <1>1 DEF Leads
  <2>2. PICK z : z = [i \in 0 .. n |-> s[i + 1]]
    OBVIOUS
  <2>3. z \in [0 .. n -> Id] /\ \A i \in 0 .. n : z[i] = s[i + 1]
    BY <2>2
  <2>4. f \in Folder /\ Stored(f) /\ s[1] = folder[f].up
    BY <2>1 DEF Way
  <2>5. Way(folder[f].up, t, n, z)
    BY <2>1, <2>3, <2>4 DEF Way
  <2> QED BY <2>3, <2>4, <2>5 DEF Leads
<1>2. ASSUME f \in Folder, Stored(f), Leads(folder[f].up, t, n)
      PROVE  Leads(f, t, n + 1)
  <2>1. PICK s \in [0 .. n -> Id] : Way(folder[f].up, t, n, s)
    BY <1>2 DEF Leads
  <2>2. PICK z : z = [i \in 0 .. n + 1 |-> IF i = 0 THEN f ELSE s[i - 1]]
    OBVIOUS
  <2>3. z \in [0 .. n + 1 -> Id] /\ z[0] = f /\ \A i \in 1 .. n + 1 : z[i] = s[i - 1]
    BY <2>2
  <2>4. Way(f, t, n + 1, z)
    <3>1. z[1] = folder[f].up /\ z[n + 1] = t
      BY <2>1, <2>3 DEF Way
    <3>2. ASSUME NEW i \in 0 .. n
          PROVE  z[i] \in Folder /\ Stored(z[i]) /\ z[i + 1] = folder[z[i]].up
      <4>1. CASE i = 0
        BY <1>2, <2>3, <3>1, <4>1
      <4>2. CASE i # 0
        <5>1. i - 1 \in 0 .. n - 1 /\ i \in 1 .. n + 1 /\ i + 1 \in 1 .. n + 1
              /\ (i - 1) + 1 = i /\ (i + 1) - 1 = i
          BY <4>2
        <5> QED BY <2>1, <2>3, <5>1 DEF Way
      <4> QED BY <4>1, <4>2
    <3> QED BY <2>3, <3>1, <3>2 DEF Way
  <2> QED BY <2>3, <2>4 DEF Leads
<1> QED BY <1>1, <1>2

LEMMA LeadsToIds ==
    ASSUME NEW f, NEW t, NEW n \in Nat, Leads(f, t, n)
    PROVE  f \in Id /\ t \in Id
BY DEF Leads, Way

\* There is one way up: who goes further comes by.
LEMMA LeadsBy ==
    ASSUME WritersTypeOK, NEW f \in Id, NEW t, NEW u, NEW m \in Nat, NEW n \in Nat,
           Leads(f, t, m), Leads(f, u, m + n)
    PROVE  Leads(t, u, n)
<1>1. PICK S : S = {k \in Nat : \A g \in Id :
                       Leads(g, t, k) /\ Leads(g, u, k + n) => Leads(t, u, n)}
  OBVIOUS
<1>2. 0 \in S
  BY <1>1, LeadsNowhere
<1>3. ASSUME NEW k \in S
      PROVE  k + 1 \in S
  <2>1. k \in Nat /\ k + n \in Nat /\ (k + 1) + n = (k + n) + 1
    BY <1>1
  <2> SUFFICES ASSUME NEW g \in Id, Leads(g, t, k + 1), Leads(g, u, (k + n) + 1)
               PROVE  Leads(t, u, n)
    BY <1>1, <2>1
  <2>2. g \in Folder /\ Stored(g) /\ Leads(folder[g].up, t, k) /\ Leads(folder[g].up, u, k + n)
    BY <2>1, LeadsFirst
  <2>3. folder[g].up \in Id
    BY <2>2, UpsAreIds
  <2> QED BY <1>1, <2>2, <2>3
<1>4. m \in S
  BY <1>1, <1>2, <1>3, AllNumbers
<1> QED BY <1>1, <1>4

\* Where one way leads in some steps, no other leads in as many.
LEMMA LeadsToOne ==
    ASSUME WritersTypeOK, NEW f \in Id, NEW t, NEW u, NEW n \in Nat,
           Leads(f, t, n), Leads(f, u, n)
    PROVE  t = u
<1>1. n + 0 = n
  OBVIOUS
<1>2. Leads(t, u, 0)
  BY <1>1, LeadsBy
<1>3. t \in Id
  BY LeadsToIds
<1> QED BY <1>2, <1>3, LeadsNowhere

\* Two ways after each other.
LEMMA LeadsOver ==
    ASSUME WritersTypeOK, NEW f \in Id, NEW t, NEW u, NEW m \in Nat, NEW n \in Nat,
           Leads(f, t, m), Leads(t, u, n)
    PROVE  Leads(f, u, m + n)
<1>1. PICK S : S = {k \in Nat : \A g \in Id : Leads(g, t, k) => Leads(g, u, k + n)}
  OBVIOUS
<1>2. 0 \in S
  BY <1>1, LeadsNowhere
<1>3. ASSUME NEW k \in S
      PROVE  k + 1 \in S
  <2>1. k \in Nat /\ k + n \in Nat /\ (k + 1) + n = (k + n) + 1
    BY <1>1
  <2> SUFFICES ASSUME NEW g \in Id, Leads(g, t, k + 1)
               PROVE  Leads(g, u, (k + n) + 1)
    BY <1>1, <2>1
  <2>2. g \in Folder /\ Stored(g) /\ Leads(folder[g].up, t, k)
    BY <2>1, LeadsFirst
  <2>3. folder[g].up \in Id
    BY <2>2, UpsAreIds
  <2>4. Leads(folder[g].up, u, k + n)
    BY <1>1, <2>2, <2>3
  <2> QED BY <2>1, <2>2, <2>4, LeadsFirst
<1>4. m \in S
  BY <1>1, <1>2, <1>3, AllNumbers
<1> QED BY <1>1, <1>4

\* Whom one gets to at all, one gets to in no more steps than there are folders:
\* a way that comes to a folder twice can leave out what is between.
LEMMA LeadsShort ==
    ASSUME WritersTypeOK, NEW f \in Id, NEW t, NEW n \in Nat \ {0}, Leads(f, t, n)
    PROVE  \E m \in 1 .. MaxFolder : Leads(f, t, m)
<1>1. PICK T : T = {k \in Nat \ {0} : Leads(f, t, k)}
  OBVIOUS
<1>2. T \in SUBSET Nat /\ T # {}
  BY <1>1
<1>3. PICK m \in T : \A k \in T : ~(<<k, m>> \in OpToRel(<, Nat))
  BY <1>2, NatLessThanWellFounded, WFMin
<1>4. m \in Nat \ {0} /\ Leads(f, t, m) /\ \A k \in Nat \ {0} : Leads(f, t, k) => ~(k < m)
  BY <1>1, <1>2, <1>3 DEF OpToRel
<1> SUFFICES ASSUME ~(m <= MaxFolder) PROVE FALSE
  BY <1>4, NumberAssumption
<1>5. PICK s \in [0 .. m -> Id] : Way(f, t, m, s)
  BY <1>4 DEF Leads
<1>6. PICK z : z = [i \in 0 .. m - 1 |-> s[i]]
  OBVIOUS
<1>7. z \in [0 .. m - 1 -> Folder] /\ \A i \in 0 .. m - 1 : z[i] = s[i]
  BY <1>4, <1>5, <1>6 DEF Way
<1>8. PICK i, j \in 0 .. m - 1 : i # j /\ z[i] = z[j]
  <2>1. m - 1 \in Int /\ 0 \in Int /\ 1 \in Int /\ MaxFolder \in Int /\ ~(0 > m - 1)
        /\ ~(1 > MaxFolder)
    BY <1>4, NumberAssumption
  <2>2. IsFiniteSet(0 .. m - 1) /\ Cardinality(0 .. m - 1) = m
    <3>1. IsFiniteSet(0 .. m - 1) /\ Cardinality(0 .. m - 1) = (m - 1) - 0 + 1
      BY <2>1, FS_Interval
    <3> QED BY <1>4, <3>1
  <2>3. IsFiniteSet(Folder) /\ Cardinality(Folder) = MaxFolder
    <3>1. IsFiniteSet(1 .. MaxFolder) /\ Cardinality(1 .. MaxFolder) = MaxFolder - 1 + 1
      BY <2>1, FS_Interval
    <3> QED BY <3>1, NumberAssumption DEF Folder
  <2>4. Cardinality(Folder) < Cardinality(0 .. m - 1)
    BY <1>4, <2>2, <2>3, NumberAssumption
  <2>5. PICK D : D = 0 .. m - 1
    OBVIOUS
  <2>6. IsFiniteSet(D) /\ Cardinality(Folder) < Cardinality(D) /\ z \in [D -> Folder]
    BY <1>7, <2>2, <2>4, <2>5
  <2>7. \E i, j \in D : i # j /\ z[i] = z[j]
    BY <2>3, <2>6, FS_PigeonHole
  <2> QED BY <2>5, <2>7
<1>9. PICK a, b \in 0 .. m - 1 : a < b /\ s[a] = s[b]
  <2>1. i < j \/ j < i
    BY <1>4, <1>8
  <2> QED BY <1>7, <1>8, <2>1
<1>10. PICK y : y = [k \in 0 .. m - (b - a) |-> IF k <= a THEN s[k] ELSE s[k + (b - a)]]
  OBVIOUS
<1>11. PICK d \in Nat \ {0} : d = b - a /\ b = a + d
  BY <1>4, <1>9
<1>12. m - d \in Nat \ {0} /\ m - d < m /\ a < m - d
  BY <1>4, <1>9, <1>11
<1>13. /\ \A k \in 0 .. m - d : y[k] = IF k <= a THEN s[k] ELSE s[k + d]
       /\ y \in [0 .. m - d -> Id]
  BY <1>4, <1>5, <1>9, <1>10, <1>11, <1>12
<1>14. Way(f, t, m - d, y)
  <2>0. m \in Nat /\ a \in Nat /\ b \in Nat /\ b < m
    BY <1>4, <1>9
  <2>1. y[0] = f /\ y[m - d] = t
    <3>1. 0 \in 0 .. m - d /\ m - d \in 0 .. m - d /\ 0 <= a /\ ~(m - d <= a)
          /\ (m - d) + d = m
      BY <1>12, <2>0
    <3>2. y[0] = s[0] /\ y[m - d] = s[m]
      BY <1>13, <3>1
    <3> QED BY <1>5, <3>2 DEF Way
  <2>2. ASSUME NEW k \in 0 .. (m - d) - 1
        PROVE  y[k] \in Folder /\ Stored(y[k]) /\ y[k + 1] = folder[y[k]].up
    <3>1. k \in 0 .. m - d /\ k + 1 \in 0 .. m - d
      BY <1>12
    <3>2. CASE k + 1 <= a
      <4>1. k <= a /\ k \in 0 .. m - 1
        BY <1>12, <2>0, <3>1, <3>2
      <4>2. y[k] = s[k] /\ y[k + 1] = s[k + 1]
        BY <1>13, <3>1, <3>2, <4>1
      <4> QED BY <1>5, <4>1, <4>2 DEF Way
    <3>3. CASE k = a
      <4>1. y[k] = s[b] /\ y[k + 1] = s[b + 1]
        BY <1>9, <1>11, <1>13, <3>1, <3>3
      <4> QED BY <1>5, <1>9, <4>1 DEF Way
    <3>4. CASE k > a
      <4>1. ~(k <= a) /\ ~(k + 1 <= a) /\ (k + 1) + d = (k + d) + 1 /\ k + d \in 0 .. m - 1
        BY <1>11, <1>12, <2>0, <3>1, <3>4
      <4>2. y[k] = s[k + d] /\ y[k + 1] = s[(k + 1) + d]
        BY <1>13, <3>1, <4>1
      <4> QED BY <1>5, <4>1, <4>2 DEF Way
    <3> QED BY <1>9, <3>2, <3>3, <3>4
  <2> QED BY <2>1, <2>2 DEF Way
<1>15. Leads(f, t, m - d)
  BY <1>13, <1>14 DEF Leads
<1> QED BY <1>4, <1>12, <1>15

\* Ups, as far as it goes, is where ways lead.
LEMMA UpsAre ==
    ASSUME WritersTypeOK, NEW f \in Id
    PROVE  \A n \in 0 .. MaxFolder + 1 : Ups(f)[n] = {t \in Id : Leads(f, t, n)}
<1> DEFINE N == 0 .. MaxFolder + 1
<1>1. PICK u : u = [n \in N |-> {t \in Id : Leads(f, t, n)}]
  OBVIOUS
<1>2. u[0] = {f}
  <2>1. u[0] = {t \in Id : Leads(f, t, 0)}
    BY <1>1, NumberAssumption
  <2> QED BY <2>1, LeadsNowhere
<1>3. ASSUME NEW n \in N, n # 0
      PROVE  u[n] = {folder[g].up : g \in {h \in u[n - 1] \ {0} : Stored(h)}}
  <2>1. n - 1 \in N /\ n - 1 \in Nat /\ (n - 1) + 1 = n
    BY <1>3, NumberAssumption
  <2>2. u[n - 1] = {t \in Id : Leads(f, t, n - 1)} /\ u[n] = {t \in Id : Leads(f, t, n)}
    BY <1>1, <2>1
  <2>3. \A t : Leads(f, t, n) <=>
           \E h \in Folder : Leads(f, h, n - 1) /\ Stored(h) /\ t = folder[h].up
    BY <2>1, LeadsOn
  <2>4. \A h \in Folder : Stored(h) => folder[h].up \in Id
    BY UpsAreIds
  <2>5. \A h : h \in Folder <=> h \in Id /\ h # 0
    BY IdsAre
  <2> QED BY <2>2, <2>3, <2>4, <2>5
<1>4. u = [n \in N |-> IF n = 0 THEN {f}
                       ELSE {folder[g].up : g \in {h \in u[n - 1] \ {0} : Stored(h)}}]
  <2>1. u = [n \in N |-> u[n]]
    BY <1>1
  <2> QED BY <1>2, <1>3, <2>1
<1>5. Ups(f) = [n \in N |-> IF n = 0 THEN {f}
                  ELSE {folder[g].up : g \in {h \in Ups(f)[n - 1] \ {0} : Stored(h)}}]
  BY <1>4, Zenon DEF Ups
<1>6. PICK S : S = {k \in Nat : k \in N => Ups(f)[k] = u[k]}
  OBVIOUS
<1>7. 0 \in S
  BY <1>2, <1>5, <1>6
<1>8. ASSUME NEW k \in S
      PROVE  k + 1 \in S
  <2> SUFFICES ASSUME k + 1 \in N PROVE Ups(f)[k + 1] = u[k + 1]
    BY <1>6
  <2>1. k \in N /\ k + 1 # 0 /\ (k + 1) - 1 = k
    BY <1>6, NumberAssumption
  <2>2. Ups(f)[k] = u[k]
    BY <1>6, <2>1
  <2>3. Ups(f)[k + 1] = {folder[g].up : g \in {h \in Ups(f)[k] \ {0} : Stored(h)}}
    BY <1>5, <2>1
  <2>4. u[k + 1] = {folder[g].up : g \in {h \in u[k] \ {0} : Stored(h)}}
    BY <1>3, <2>1
  <2> QED BY <2>2, <2>3, <2>4
<1>9. \A k \in N : Ups(f)[k] = u[k]
  <2>1. S = Nat
    BY <1>6, <1>7, <1>8, AllNumbers
  <2>2. \A k \in N : k \in Nat
    OBVIOUS
  <2> QED BY <1>6, <2>1, <2>2
<1> QED BY <1>1, <1>9

\* The ancestors of a folder are all that one gets to.
LEMMA AncestorsAre ==
    ASSUME WritersTypeOK, NEW f \in Id
    PROVE  Ancestors(f) = {t \in Id : \E n \in Nat \ {0} : Leads(f, t, n)}
<1>1. ASSUME NEW t \in Ancestors(f)
      PROVE  t \in Id /\ \E n \in Nat \ {0} : Leads(f, t, n)
  <2>1. PICK n \in 1 .. MaxFolder + 1 : t \in Ups(f)[n]
    BY DEF Ancestors
  <2>2. n \in 0 .. MaxFolder + 1 /\ n \in Nat \ {0}
    BY NumberAssumption
  <2> QED BY <2>1, <2>2, UpsAre
<1>2. ASSUME NEW t \in Id, NEW n \in Nat \ {0}, Leads(f, t, n)
      PROVE  t \in Ancestors(f)
  <2>1. PICK m \in 1 .. MaxFolder : Leads(f, t, m)
    BY <1>2, LeadsShort
  <2>2. m \in 0 .. MaxFolder + 1 /\ m \in 1 .. MaxFolder + 1
    BY NumberAssumption
  <2>3. t \in Ups(f)[m]
    BY <2>1, <2>2, UpsAre
  <2> QED BY <2>2, <2>3 DEF Ancestors
<1> QED BY <1>1, <1>2

\* A walk that nobody disturbed has met neither the top nor the folder it was
\* asked for, in any step so far.
WalkTold(k) ==
    ~k.late /\ Stored(k.from) =>
        \E n \in Nat : /\ Leads(k.from, k.at, n)
                       /\ \A m \in 1 .. n : ~Leads(k.from, 0, m) /\ ~Leads(k.from, k.root, m)

WalksOK ==
    /\ walk \in [Reader -> Maybe(Walk)]
    /\ answer \in [Reader -> {"none", "yes", "no", "list"}]
    /\ \A r \in Reader : \A k \in walk[r] : k.from \in Folder /\ k.at \in Folder /\ WalkTold(k)

\* Writers either disturb all readers or none.
LEMMA WriterTells ==
    ASSUME NEW w \in Writer,
           \/ CreateFolder(w) \/ WriteLeaf(w) \/ RemoveLeaf(w)
           \/ StartMove(w) \/ EndMove(w)
           \/ RemoveUnchecked(w) \/ StartRemoval(w) \/ AskLeaves(w) \/ EndRemoval(w)
    PROVE  \/ ReadersLate
           \/ folder' = folder /\ walk' = walk /\ listing' = listing /\ answer' = answer
<1>1. CreateFolder(w) \/ RemoveUnchecked(w) \/ EndRemoval(w) => ReadersLate
  BY DEF CreateFolder, RemoveUnchecked, EndRemoval
<1>2. EndMove(w) => \/ ReadersLate
                    \/ folder' = folder /\ walk' = walk /\ listing' = listing /\ answer' = answer
  BY DEF EndMove, reading
<1>3. WriteLeaf(w) \/ RemoveLeaf(w) \/ StartMove(w) \/ StartRemoval(w) \/ AskLeaves(w) =>
          folder' = folder /\ walk' = walk /\ listing' = listing /\ answer' = answer
  BY DEF WriteLeaf, RemoveLeaf, StartMove, StartRemoval, AskLeaves, reading, tables
<1> QED BY <1>1, <1>2, <1>3

LEMMA LeadsStays ==
    ASSUME folder' = folder, NEW f, NEW t, NEW n
    PROVE  Leads(f, t, n)' <=> Leads(f, t, n)
BY DEF Leads, Way, Stored

LEMMA WalkToldStays ==
    ASSUME folder' = folder, NEW k, WalkTold(k)
    PROVE  WalkTold(k)'
<1>1. Stored(k.from)' <=> Stored(k.from)
  BY DEF Stored
<1> QED BY <1>1, LeadsStays DEF WalkTold

LEMMA LateWalks ==
    ASSUME NEW ks \in Maybe(Walk)
    PROVE  {[k EXCEPT !.late = TRUE] : k \in ks} \in Maybe(Walk)
<1>1. CASE ks = {}
  BY <1>1 DEF Maybe
<1>2. CASE \E k \in Walk : ks = {k}
  <2>1. PICK k \in Walk : ks = {k}
    BY <1>2
  <2>2. [k EXCEPT !.late = TRUE] \in Walk
    BY DEF Walk
  <2>3. {[x EXCEPT !.late = TRUE] : x \in ks} = {[k EXCEPT !.late = TRUE]}
    BY <2>1
  <2> QED BY <2>2, <2>3 DEF Maybe
<1> QED BY <1>1, <1>2 DEF Maybe

LEMMA WalksDisturbed ==
    ASSUME WalksOK, ReadersLate
    PROVE  WalksOK'
<1>1. walk' = [r \in Reader |-> {[x EXCEPT !.late = TRUE] : x \in walk[r]}] /\ answer' = answer
  BY DEF ReadersLate
<1>2. walk \in [Reader -> Maybe(Walk)]
  BY DEF WalksOK
<1>3. walk' \in [Reader -> Maybe(Walk)]
  BY <1>1, <1>2, LateWalks
<1>4. ASSUME NEW r \in Reader, NEW k \in walk'[r]
      PROVE  k.from \in Folder /\ k.at \in Folder /\ WalkTold(k)'
  <2>1. PICK x \in walk[r] : k = [x EXCEPT !.late = TRUE]
    BY <1>1
  <2>2. x \in Walk
    BY <1>2, OneOfMaybe
  <2>3. k.late /\ k.from = x.from /\ k.at = x.at
    BY <2>1, <2>2 DEF Walk
  <2> QED BY <2>3 DEF WalksOK, WalkTold
<1> QED BY <1>1, <1>3, <1>4 DEF WalksOK

\* A walk that begins has made no step.
LEMMA WalkBegins ==
    ASSUME NEW f \in Folder, NEW root
    PROVE  WalkTold([from |-> f, at |-> f, root |-> root, last |-> "answered", late |-> FALSE])
<1>1. PICK k : k = [from |-> f, at |-> f, root |-> root, last |-> "answered", late |-> FALSE]
  OBVIOUS
<1>2. k.from = f /\ k.at = f
  BY <1>1
<1>3. Leads(f, f, 0) /\ 0 \in Nat /\ 1 .. 0 = {}
  BY IdsAre, LeadsNowhere
<1>4. WalkTold(k)
  BY <1>2, <1>3 DEF WalkTold
<1> QED BY <1>1, <1>4

\* A reader's own walk changes, and the others do not.
LEMMA WalkSet ==
    ASSUME WalksOK, folder' = folder, NEW r \in Reader,
           NEW ks \in Maybe(Walk), walk' = [walk EXCEPT ![r] = ks],
           \A k \in ks : k.from \in Folder /\ k.at \in Folder /\ WalkTold(k),
           NEW a \in {"none", "yes", "no", "list"}, answer' = [answer EXCEPT ![r] = a]
    PROVE  WalksOK'
<1>1. walk' \in [Reader -> Maybe(Walk)] /\ answer' \in [Reader -> {"none", "yes", "no", "list"}]
  BY DEF WalksOK
<1>2. ASSUME NEW q \in Reader, NEW k \in walk'[q]
      PROVE  k.from \in Folder /\ k.at \in Folder /\ WalkTold(k)'
  <2>1. k \in walk[q] \/ k \in ks
    BY DEF WalksOK
  <2>2. k.from \in Folder /\ k.at \in Folder /\ WalkTold(k)
    BY <2>1 DEF WalksOK
  <2> QED BY <2>2, WalkToldStays
<1> QED BY <1>1, <1>2 DEF WalksOK

LEMMA StartWalkStep ==
    ASSUME ObjectsOK, WalksOK, NEW r \in Reader, StartWalk(r)
    PROVE  WalksOK'
<1>1. PICK f \in Folder, root \in Id :
          /\ walk' = [walk EXCEPT ![r] = {[from |-> f, at |-> f, root |-> root,
                                           last |-> "answered", late |-> FALSE]}]
          /\ answer' = [answer EXCEPT ![r] = "none"]
          /\ folder' = folder
  BY DEF StartWalk, tables
<1>2. PICK k : k = [from |-> f, at |-> f, root |-> root, last |-> "answered", late |-> FALSE]
  OBVIOUS
<1>3. k \in Walk /\ k.from = f /\ k.at = f
  BY <1>2, IdsAre DEF Walk, Outcome
<1>4. {k} \in Maybe(Walk)
  BY <1>3 DEF Maybe
<1>5. WalkTold(k)
  BY <1>2, WalkBegins
<1>6. walk' = [walk EXCEPT ![r] = {k}]
  BY <1>1, <1>2
<1>7. PICK a \in {"none", "yes", "no", "list"} : answer' = [answer EXCEPT ![r] = a]
  BY <1>1
<1>8. \A x \in {k} : x.from \in Folder /\ x.at \in Folder /\ WalkTold(x)
  BY <1>3, <1>5
<1> QED BY <1>1, <1>4, <1>6, <1>7, <1>8, WalkSet

\* What a leaf's parent is read to be, and the walk that begins there.
LeafUp(l, heard) == IF heard /\ leaf[l] \notin {Unmade, Purged} THEN leaf[l].up ELSE 0

WalksFrom(r, p, root) ==
    /\ walk' = [walk EXCEPT ![r] = IF p \in {0, root} THEN {}
          ELSE {[from |-> p, at |-> p, root |-> root, last |-> "answered", late |-> FALSE]}]
    /\ answer' = [answer EXCEPT ![r] =
          IF p = 0 THEN "no" ELSE IF p = root THEN "yes" ELSE "none"]
    /\ folder' = folder

LEMMA StartWalkOfLeafStep ==
    ASSUME ObjectsOK, WalksOK, NEW r \in Reader, StartWalkOfLeaf(r)
    PROVE  WalksOK'
<1>0. PICK l \in Leaf, root \in Id, heard \in BOOLEAN : WalksFrom(r, LeafUp(l, heard), root)
  BY DEF StartWalkOfLeaf, tables, WalksFrom, LeafUp
<1>1. PICK p :
          /\ p = IF heard /\ leaf[l] \notin {Unmade, Purged} THEN leaf[l].up ELSE 0
          /\ walk' = [walk EXCEPT ![r] = IF p \in {0, root} THEN {}
                ELSE {[from |-> p, at |-> p, root |-> root, last |-> "answered", late |-> FALSE]}]
          /\ answer' = [answer EXCEPT ![r] =
                IF p = 0 THEN "no" ELSE IF p = root THEN "yes" ELSE "none"]
          /\ folder' = folder
  BY <1>0 DEF WalksFrom, LeafUp
<1>2. p \in Id
  BY <1>1, IdsAre DEF ObjectsOK, WritersTypeOK, TreeRow
<1>3. PICK a \in {"none", "yes", "no", "list"} :
          a = IF p = 0 THEN "no" ELSE IF p = root THEN "yes" ELSE "none"
  OBVIOUS
<1>4. PICK k : k = [from |-> p, at |-> p, root |-> root, last |-> "answered", late |-> FALSE]
  OBVIOUS
<1>5. PICK ks : ks = IF p \in {0, root} THEN {} ELSE {k}
  OBVIOUS
<1>6. k \in Walk /\ k.from = p /\ k.at = p
  BY <1>2, <1>4 DEF Walk, Outcome
<1>7. ks \in Maybe(Walk)
  BY <1>5, <1>6 DEF Maybe
<1>8. \A x \in ks : x = k /\ p \in Folder
  BY <1>2, <1>5, IdsAre
<1>9. \A x \in ks : x.from \in Folder /\ x.at \in Folder /\ WalkTold(x)
  BY <1>4, <1>6, <1>8, WalkBegins
<1>10. walk' = [walk EXCEPT ![r] = ks] /\ answer' = [answer EXCEPT ![r] = a]
  BY <1>1, <1>3, <1>4, <1>5
<1> QED BY <1>1, <1>7, <1>9, <1>10, WalkSet

\* Where a walk is: at a folder, and if it made a step, neither at the top nor
\* at the folder it was asked for.
LEMMA WalkIs ==
    ASSUME ObjectsOK, WalksOK, NEW r \in Reader, NEW k \in walk[r], ~k.late, Stored(k.from)
    PROVE  /\ k \in Walk /\ k.from \in Folder /\ k.at \in Folder
           /\ \A heard : Above(k.at, heard) \in Id
           /\ \E n \in Nat : /\ Leads(k.from, k.at, n)
                             /\ \A m \in 1 .. n : /\ ~Leads(k.from, 0, m)
                                                  /\ ~Leads(k.from, k.root, m)
           /\ k.at = k.root => Stored(k.at)
<1>1. k \in Walk /\ k.from \in Folder
  BY OneOfMaybe DEF WalksOK
<1>2. PICK n \in Nat : /\ Leads(k.from, k.at, n)
                       /\ \A m \in 1 .. n : ~Leads(k.from, 0, m) /\ ~Leads(k.from, k.root, m)
  BY DEF WalksOK, WalkTold
<1>3. n = 0 => k.at = k.from
  BY <1>1, <1>2, LeadsNowhere, IdsAre
<1>4. n # 0 => k.at # 0 /\ k.at # k.root
  <2>1. n # 0 => n \in 1 .. n
    BY <1>2
  <2> QED BY <1>2, <2>1
<1>5. k.at \in Folder /\ (k.at = k.root => Stored(k.at))
  BY <1>1, <1>3, <1>4, IdsAre DEF Walk
<1>6. \A heard : Above(k.at, heard) \in Id
  BY <1>5, UpsAreIds, IdsAre DEF Above, ObjectsOK
<1> QED BY <1>1, <1>2, <1>5, <1>6

\* A walk's step, with the folder it comes to.
WalksTo(r, k, up, heard) ==
    /\ up = Above(k.at, heard)
    /\ walk' = [walk EXCEPT ![r] =
          IF up \in {0, k.root} THEN {} ELSE {[k EXCEPT !.at = up, !.last = After(k, heard)]}]
    /\ answer' = [answer EXCEPT ![r] =
          IF up = k.root THEN "yes" ELSE IF up = 0 THEN "no" ELSE @]
    /\ folder' = folder

LEMMA StepUpIs ==
    ASSUME NEW r \in Reader, NEW heard, StepUp(r, heard)
    PROVE  \E k \in walk[r] : \E up : WalksTo(r, k, up, heard)
<1>1. PICK k \in walk[r] :
        /\ walk' = [walk EXCEPT ![r] =
              IF Above(k.at, heard) \in {0, k.root} THEN {}
              ELSE {[k EXCEPT !.at = Above(k.at, heard), !.last = After(k, heard)]}]
        /\ answer' = [answer EXCEPT ![r] =
              IF Above(k.at, heard) = k.root THEN "yes"
              ELSE IF Above(k.at, heard) = 0 THEN "no" ELSE @]
        /\ folder' = folder
  BY DEF StepUp, tables
<1>2. WalksTo(r, k, Above(k.at, heard), heard)
  BY <1>1 DEF WalksTo
<1> QED BY <1>2

LEMMA StepUpStep ==
    ASSUME ObjectsOK, WalksOK, NEW r \in Reader, NEW heard \in BOOLEAN, StepUp(r, heard)
    PROVE  WalksOK'
<1>0. PICK k \in walk[r] : \E up : WalksTo(r, k, up, heard)
  BY StepUpIs
<1>1. PICK up :
          /\ up = Above(k.at, heard)
          /\ walk' = [walk EXCEPT ![r] =
                IF up \in {0, k.root} THEN {}
                ELSE {[k EXCEPT !.at = up, !.last = After(k, heard)]}]
          /\ answer' = [answer EXCEPT ![r] =
                IF up = k.root THEN "yes" ELSE IF up = 0 THEN "no" ELSE @]
          /\ folder' = folder
  BY <1>0 DEF WalksTo
<1>2. k \in Walk /\ k.from \in Folder /\ k.at \in Folder
  BY OneOfMaybe DEF WalksOK
<1>3. up \in Id
  BY <1>1, <1>2, UpsAreIds, IdsAre DEF Above, ObjectsOK
<1>4. PICK x : x = [k EXCEPT !.at = up, !.last = After(k, heard)]
  OBVIOUS
<1>5. /\ x \in Walk /\ x.from = k.from /\ x.at = up /\ x.root = k.root /\ x.late = k.late
  BY <1>2, <1>3, <1>4 DEF Walk, After, Outcome
<1>6. ASSUME up \notin {0, k.root}
      PROVE  WalkTold(x)
  <2> SUFFICES ASSUME ~k.late, Stored(k.from)
               PROVE  \E n \in Nat : /\ Leads(k.from, up, n)
                                     /\ \A m \in 1 .. n : /\ ~Leads(k.from, 0, m)
                                                          /\ ~Leads(k.from, k.root, m)
    BY <1>5 DEF WalkTold
  <2>1. PICK n \in Nat : /\ Leads(k.from, k.at, n)
                         /\ \A m \in 1 .. n : ~Leads(k.from, 0, m) /\ ~Leads(k.from, k.root, m)
    BY WalkIs
  <2>2. k.at \in Folder
    BY WalkIs
  <2>3. CASE ~(heard /\ Stored(k.at))
    BY <1>1, <2>1, <2>3 DEF Above
  <2>4. CASE heard /\ Stored(k.at)
    <3>1. up = folder[k.at].up
      BY <1>1, <2>4 DEF Above
    <3>2. WritersTypeOK /\ k.from \in Id
      BY <1>2, IdsAre DEF ObjectsOK
    <3>3. Leads(k.from, up, n + 1)
      BY <2>1, <2>2, <2>4, <3>1, <3>2, LeadsOn
    <3>4. ~Leads(k.from, 0, n + 1) /\ ~Leads(k.from, k.root, n + 1)
      BY <1>6, <2>1, <3>2, <3>3, LeadsToOne
    <3>5. \A m \in 1 .. n + 1 : m \in 1 .. n \/ m = n + 1
      BY <2>1
    <3> QED BY <2>1, <3>3, <3>4, <3>5
  <2> QED BY <2>3, <2>4
<1>7. PICK ks : ks = IF up \in {0, k.root} THEN {} ELSE {x}
  OBVIOUS
<1>8. ks \in Maybe(Walk)
  BY <1>5, <1>7 DEF Maybe
<1>9. \A y \in ks : y.from \in Folder /\ y.at \in Folder /\ WalkTold(y)
  BY <1>2, <1>3, <1>5, <1>6, <1>7, IdsAre
<1>10. PICK a : a = IF up = k.root THEN "yes" ELSE IF up = 0 THEN "no" ELSE answer[r]
  OBVIOUS
<1>11. a \in {"none", "yes", "no", "list"}
  BY <1>10 DEF WalksOK
<1>12. walk' = [walk EXCEPT ![r] = ks] /\ answer' = [answer EXCEPT ![r] = a]
  BY <1>1, <1>4, <1>7, <1>10
<1> QED BY <1>1, <1>8, <1>9, <1>11, <1>12, WalkSet

LEMMA WalksStep ==
    ASSUME ObjectsOK, WalksOK, [TreeNext]_treeVars
    PROVE  WalksOK'
<1>1. ASSUME folder' = folder, walk' = walk, answer' = answer
      PROVE  WalksOK'
  BY <1>1, WalkToldStays DEF WalksOK
<1>2. ASSUME NEW w \in Writer,
             \/ CreateFolder(w) \/ WriteLeaf(w) \/ RemoveLeaf(w)
             \/ StartMove(w) \/ EndMove(w)
             \/ RemoveUnchecked(w) \/ StartRemoval(w) \/ AskLeaves(w) \/ EndRemoval(w)
      PROVE  WalksOK'
  BY <1>1, <1>2, WriterTells, WalksDisturbed
<1>3. ASSUME NEW r \in Reader,
             StartWalk(r) \/ StartWalkOfLeaf(r) \/ \E heard \in BOOLEAN : StepUp(r, heard)
      PROVE  WalksOK'
  BY <1>3, StartWalkStep, StartWalkOfLeafStep, StepUpStep
<1>4. ASSUME NEW r \in Reader, StartList(r) \/ ListNext(r) \/ ListEnds(r)
      PROVE  WalksOK'
  <2>1. folder' = folder /\ walk' = walk
    BY <1>4 DEF StartList, ListNext, ListEnds, tables
  <2>2. answer' \in [Reader -> {"none", "yes", "no", "list"}]
    BY <1>4 DEF StartList, ListNext, ListEnds, WalksOK
  <2> QED BY <2>1, <2>2, WalkToldStays DEF WalksOK
<1>5. CASE UNCHANGED treeVars
  BY <1>1, <1>5 DEF treeVars
<1> QED BY <1>2, <1>3, <1>4, <1>5 DEF TreeNext

LEMMA WalksStart == TreeInit => WalksOK
BY DEF TreeInit, WalksOK, Maybe

LEMMA WalksInvariant == TreeSpec => [](ObjectsOK /\ WalksOK)
<1>1. ObjectsOK /\ WalksOK /\ [TreeNext]_treeVars => (ObjectsOK /\ WalksOK)'
  BY ObjectsStep, WalksStep
<1> QED BY ObjectsStart, WalksStart, <1>1, PTL DEF TreeSpec

\* A walk ends with an answer only by a step of its own, and it is right, but
\* for a folder that is asked about itself and whose SELECT failed.
LEMMA AnswerRight ==
    ASSUME ObjectsOK, WalksOK, NEW r \in Reader, NEW heard \in BOOLEAN, StepUp(r, heard),
           NEW k \in walk[r], walk'[r] = {}, ~k.late, Stored(k.from)
    PROVE  /\ answer'[r] = "yes" => k.root \in Ancestors(k.from) \/ k.at = k.root
           /\ k.root \in Ancestors(k.from) => answer'[r] = "yes"
<1>0. PICK j \in walk[r] : \E up : WalksTo(r, j, up, heard)
  BY StepUpIs
<1>1. PICK up :
          /\ up = Above(j.at, heard)
          /\ walk' = [walk EXCEPT ![r] =
                IF up \in {0, j.root} THEN {}
                ELSE {[j EXCEPT !.at = up, !.last = After(j, heard)]}]
          /\ answer' = [answer EXCEPT ![r] =
                IF up = j.root THEN "yes" ELSE IF up = 0 THEN "no" ELSE @]
  BY <1>0 DEF WalksTo
<1>2. j = k
  BY DEF WalksOK, Maybe
<1>3. up \in {0, k.root} /\ (answer'[r] = "yes" <=> up = k.root)
  BY <1>1, <1>2 DEF WalksOK
<1>4. PICK n \in Nat : /\ Leads(k.from, k.at, n)
                       /\ \A m \in 1 .. n : ~Leads(k.from, 0, m) /\ ~Leads(k.from, k.root, m)
  BY WalkIs
<1>5. k.from \in Folder /\ k.from \in Id /\ k.at \in Folder /\ k.root \in Id /\ 0 \in Id
      /\ (k.at = k.root => Stored(k.at)) /\ WritersTypeOK
  BY WalkIs, IdsAre DEF Walk, ObjectsOK
<1>6. CASE ~(heard /\ Stored(k.at))
  BY <1>1, <1>2, <1>3, <1>5, <1>6, IdsAre DEF Above
<1>7. ASSUME heard, Stored(k.at) PROVE Leads(k.from, up, n + 1)
  BY <1>1, <1>2, <1>4, <1>5, <1>7, LeadsOn DEF Above
<1>8. CASE heard /\ Stored(k.at) /\ up = k.root
  BY <1>3, <1>4, <1>5, <1>7, <1>8, AncestorsAre
<1>9. CASE heard /\ Stored(k.at) /\ up # k.root
  <2> SUFFICES ASSUME k.root \in Ancestors(k.from) PROVE FALSE
    BY <1>3, <1>9
  <2>1. PICK m \in Nat \ {0} : Leads(k.from, k.root, m)
    BY <1>5, AncestorsAre
  <2>2. up = 0
    BY <1>3, <1>9
  <2>3. m \notin 1 .. n
    BY <1>4, <2>1
  <2>4. m # n + 1
    BY <1>4, <1>5, <1>7, <1>9, <2>1, LeadsToOne
  <2>5. PICK d \in Nat : m = (n + 1) + (d + 1)
    <3>1. m - (n + 2) \in Nat /\ m = (n + 1) + ((m - (n + 2)) + 1)
      BY <1>4, <2>1, <2>3, <2>4
    <3> QED BY <3>1
  <2>6. Leads(0, k.root, d + 1)
    BY <1>4, <1>5, <1>7, <1>9, <2>1, <2>2, <2>5, LeadsBy
  <2> QED BY <1>5, <2>6, LeadsFirst, IdsAre
<1> QED BY <1>6, <1>8, <1>9

\* What is_in_tree answers when no folder was written meanwhile is so, however
\* many folders there are and SELECTs fail: it compares every folder above with
\* the root.  Only of a folder and itself a first SELECT that fails says "yes".
THEOREM AnswersAreRight == TreeSpec => AnswersRight
<1>1. ASSUME ObjectsOK, WalksOK, [TreeNext]_treeVars, NEW r \in Reader, NEW k \in walk[r],
             walk'[r] = {}, ~k.late, Stored(k.from)
      PROVE  /\ answer'[r] = "yes" => k.root \in Ancestors(k.from) \/ k.at = k.root
             /\ k.root \in Ancestors(k.from) => answer'[r] = "yes"
  <2>1. walk'[r] # walk[r]
    BY <1>1
  <2>2. ~ReadersLate
    <3> SUFFICES ASSUME ReadersLate PROVE FALSE
      OBVIOUS
    <3>1. walk'[r] = {[x EXCEPT !.late = TRUE] : x \in walk[r]}
      BY DEF ReadersLate
    <3>2. [k EXCEPT !.late = TRUE] \in walk'[r]
      BY <1>1, <3>1
    <3> QED BY <1>1, <3>2
  <2>3. \E q \in Reader :
            StartWalk(q) \/ StartWalkOfLeaf(q) \/ \E heard \in BOOLEAN : StepUp(q, heard)
    BY <1>1, <2>1, <2>2, WriterTells
    DEF TreeNext, treeVars, StartList, ListNext, ListEnds
  <2>4. PICK q \in Reader :
            StartWalk(q) \/ StartWalkOfLeaf(q) \/ \E heard \in BOOLEAN : StepUp(q, heard)
    BY <2>3
  <2>5. walk \in [Reader -> Maybe(Walk)] /\ \E ks : walk' = [walk EXCEPT ![q] = ks]
    BY <1>1, <2>4 DEF WalksOK, StartWalk, StartWalkOfLeaf, StepUp
  <2>6. q = r
    BY <2>1, <2>5
  <2>7. ~StartWalk(r) /\ ~StartWalkOfLeaf(r)
    BY <1>1 DEF StartWalk, StartWalkOfLeaf, Reads
  <2> QED BY <1>1, <2>4, <2>6, <2>7, AnswerRight
<1>2. ObjectsOK /\ WalksOK /\ [TreeNext]_treeVars =>
        [\A r \in Reader : \A k \in walk[r] :
          (walk'[r] = {} /\ ~k.late /\ Stored(k.from)) =>
             /\ answer'[r] = "yes" => k.root \in Ancestors(k.from) \/ k.at = k.root
             /\ k.root \in Ancestors(k.from) => answer'[r] = "yes"]_treeVars
  BY <1>1
<1> QED BY WalksInvariant, <1>2, PTL DEF TreeSpec, AnswersRight

\* The folders below f, among the first ones.
Belows(f) ==
    LET upto_[g \in 0 .. MaxFolder] ==
            IF g = 0 THEN <<>>
            ELSE IF Stored(g) /\ folder[g].up = f THEN Append(upto_[g - 1], g) ELSE upto_[g - 1]
    IN  upto_

LEMMA BelowLast ==
    ASSUME NEW f
    PROVE  Below(f) = Belows(f)[MaxFolder]
BY DEF Below, Belows

LEMMA BelowsAre ==
    ASSUME NEW f
    PROVE  Belows(f) = [g \in 0 .. MaxFolder |->
              IF g = 0 THEN <<>>
              ELSE IF Stored(g) /\ folder[g].up = f THEN Append(Belows(f)[g - 1], g)
                   ELSE Belows(f)[g - 1]]
<1> DEFINE Lists(n) == \E u : u = [g \in 0 .. n |->
                         IF g = 0 THEN <<>>
                         ELSE IF Stored(g) /\ folder[g].up = f THEN Append(u[g - 1], g)
                              ELSE u[g - 1]]
<1>1. Lists(0)
  <2>1. PICK u : u = [g \in 0 .. 0 |-> <<>>]
    OBVIOUS
  <2>2. u = [g \in 0 .. 0 |->
               IF g = 0 THEN <<>>
               ELSE IF Stored(g) /\ folder[g].up = f THEN Append(u[g - 1], g) ELSE u[g - 1]]
    BY <2>1
  <2> QED BY <2>2
<1>2. ASSUME NEW n \in Nat, Lists(n)
      PROVE  Lists(n + 1)
  <2>1. PICK u : u = [g \in 0 .. n |->
                   IF g = 0 THEN <<>>
                   ELSE IF Stored(g) /\ folder[g].up = f THEN Append(u[g - 1], g) ELSE u[g - 1]]
    BY <1>2
  <2>2. PICK v : v = [g \in 0 .. n + 1 |->
                   IF g \in 0 .. n THEN u[g]
                   ELSE IF Stored(n + 1) /\ folder[n + 1].up = f THEN Append(u[n], n + 1)
                        ELSE u[n]]
    OBVIOUS
  <2>3. ASSUME NEW g \in 0 .. n + 1
        PROVE  v[g] = IF g = 0 THEN <<>>
                      ELSE IF Stored(g) /\ folder[g].up = f THEN Append(v[g - 1], g)
                           ELSE v[g - 1]
    <3>1. CASE g = 0
      BY <2>1, <2>2, <3>1
    <3>2. CASE g \in 1 .. n
      <4>1. g \in 0 .. n /\ g # 0 /\ g - 1 \in 0 .. n /\ g - 1 \in 0 .. n + 1
        BY <3>2
      <4>2. v[g] = u[g] /\ v[g - 1] = u[g - 1]
        BY <2>2, <4>1
      <4>3. u[g] = IF Stored(g) /\ folder[g].up = f THEN Append(u[g - 1], g) ELSE u[g - 1]
        BY <2>1, <4>1
      <4> QED BY <4>1, <4>2, <4>3
    <3>3. CASE g = n + 1
      <4>1. n \in 0 .. n /\ n \in 0 .. n + 1 /\ n + 1 \notin 0 .. n /\ g - 1 = n /\ g # 0
        BY <3>3
      <4>2. v[n] = u[n]
        BY <2>2, <4>1
      <4>3. v[g] = IF Stored(g) /\ folder[g].up = f THEN Append(u[n], g) ELSE u[n]
        BY <2>2, <3>3, <4>1
      <4> QED BY <4>1, <4>2, <4>3
    <3> QED BY <3>1, <3>2, <3>3
  <2>4. v = [g \in 0 .. n + 1 |-> v[g]]
    BY <2>2
  <2>5. v = [g \in 0 .. n + 1 |->
               IF g = 0 THEN <<>>
               ELSE IF Stored(g) /\ folder[g].up = f THEN Append(v[g - 1], g) ELSE v[g - 1]]
    BY <2>3, <2>4
  <2> QED BY <2>5
<1>3. PICK S : S = {n \in Nat : Lists(n)}
  OBVIOUS
<1>4. Lists(MaxFolder)
  <2> HIDE DEF Lists
  <2>1. 0 \in S /\ \A n \in S : n + 1 \in S
    BY <1>1, <1>2, <1>3
  <2>2. MaxFolder \in S
    BY <1>3, <2>1, AllNumbers, NumberAssumption
  <2> QED BY <1>3, <2>2
<1> QED BY <1>4, Zenon DEF Belows

In(s, x) == \E i \in DOMAIN s : s[i] = x
Once(s) == \A i, j \in DOMAIN s : s[i] = s[j] => i = j

LEMMA InAppend ==
    ASSUME NEW S, NEW s \in Seq(S), NEW e \in S
    PROVE  /\ \A x : In(Append(s, e), x) <=> In(s, x) \/ x = e
           /\ Once(s) /\ ~In(s, e) => Once(Append(s, e))
<1>1. PICK z : z = Append(s, e)
  OBVIOUS
<1>2. Len(s) \in Nat /\ DOMAIN s = 1 .. Len(s)
  OBVIOUS
<1>3. /\ DOMAIN z = 1 .. Len(s) + 1 /\ z[Len(s) + 1] = e
      /\ \A i \in DOMAIN s : z[i] = s[i]
  BY <1>1
<1>4. \A i \in DOMAIN z : i \in DOMAIN s \/ i = Len(s) + 1
  BY <1>2, <1>3
<1>5. Len(s) + 1 \in DOMAIN z /\ \A i \in DOMAIN s : i \in DOMAIN z
  BY <1>2, <1>3
<1>6. ASSUME NEW x
      PROVE  In(z, x) <=> In(s, x) \/ x = e
  BY <1>3, <1>4, <1>5 DEF In
<1>7. Once(s) /\ ~In(s, e) => Once(z)
  BY <1>3, <1>4, <1>5 DEF In, Once
<1> QED BY <1>1, <1>6, <1>7

LEMMA InConcat ==
    ASSUME NEW S, NEW s \in Seq(S), NEW t \in Seq(S)
    PROVE  /\ \A x : In(s \o t, x) <=> In(s, x) \/ In(t, x)
           /\ Once(s) /\ Once(t) /\ (\A x : ~(In(s, x) /\ In(t, x))) => Once(s \o t)
<1>1. PICK z : z = s \o t
  OBVIOUS
<1>2. PICK n \in Nat, m \in Nat : /\ n = Len(s) /\ DOMAIN s = 1 .. n
                                  /\ m = Len(t) /\ DOMAIN t = 1 .. m
  OBVIOUS
<1>3. /\ DOMAIN z = 1 .. n + m
      /\ \A i \in 1 .. n + m : z[i] = IF i <= n THEN s[i] ELSE t[i - n]
  BY <1>1, <1>2
<1>4. \A i \in DOMAIN s : i \in DOMAIN z /\ z[i] = s[i]
  BY <1>2, <1>3
<1>5. \A i \in DOMAIN t : i + n \in DOMAIN z /\ z[i + n] = t[i]
  <2> SUFFICES ASSUME NEW i \in DOMAIN t
               PROVE  i + n \in DOMAIN z /\ z[i + n] = t[i]
    OBVIOUS
  <2>1. i + n \in 1 .. n + m /\ ~(i + n <= n) /\ (i + n) - n = i
    BY <1>2
  <2> QED BY <1>3, <2>1
<1>6. \A i \in DOMAIN z : \/ i \in DOMAIN s /\ z[i] = s[i]
                          \/ i - n \in DOMAIN t /\ z[i] = t[i - n] /\ i \in Nat
  BY <1>2, <1>3
<1>7. ASSUME NEW x
      PROVE  In(z, x) <=> In(s, x) \/ In(t, x)
  <2>1. In(z, x) => In(s, x) \/ In(t, x)
    BY <1>6 DEF In
  <2>2. In(s, x) \/ In(t, x) => In(z, x)
    BY <1>4, <1>5 DEF In
  <2> QED BY <2>1, <2>2
<1>8. ASSUME Once(s), Once(t), \A x : ~(In(s, x) /\ In(t, x))
      PROVE  Once(z)
  <2> SUFFICES ASSUME NEW i \in DOMAIN z, NEW j \in DOMAIN z, z[i] = z[j]
               PROVE  i = j
    BY DEF Once
  <2>1. CASE i \in DOMAIN s /\ z[i] = s[i]
    <3>1. In(s, z[i])
      BY <2>1 DEF In
    <3>2. ~(j - n \in DOMAIN t /\ z[j] = t[j - n])
      BY <1>8, <3>1 DEF In
    <3> QED BY <1>6, <1>8, <2>1, <3>2 DEF Once
  <2>2. CASE i - n \in DOMAIN t /\ z[i] = t[i - n] /\ i \in Nat
    <3>1. In(t, z[i])
      BY <2>2 DEF In
    <3>2. ~(j \in DOMAIN s /\ z[j] = s[j])
      BY <1>8, <3>1 DEF In
    <3>3. j - n \in DOMAIN t /\ z[j] = t[j - n] /\ j \in Nat
      BY <1>6, <3>2
    <3>4. i - n = j - n
      BY <1>8, <2>2, <3>3 DEF Once
    <3> QED BY <2>2, <3>3, <3>4
  <2> QED BY <1>6, <2>1, <2>2
<1> QED BY <1>1, <1>7, <1>8

LEMMA InTail ==
    ASSUME NEW S, NEW s \in Seq(S), s # <<>>
    PROVE  /\ Head(s) \in S /\ Tail(s) \in Seq(S)
           /\ \A x : In(s, x) <=> x = Head(s) \/ In(Tail(s), x)
           /\ Once(s) => Once(Tail(s)) /\ ~In(Tail(s), Head(s))
<1>1. PICK z : z = Tail(s)
  OBVIOUS
<1>2. PICK n \in Nat : n = Len(s) /\ DOMAIN s = 1 .. n
  OBVIOUS
<1>3. n # 0
  BY <1>2
<1>4. /\ z \in Seq(S) /\ DOMAIN z = 1 .. n - 1 /\ Head(s) = s[1] /\ Head(s) \in S
      /\ \A i \in 1 .. n - 1 : z[i] = s[i + 1]
  BY <1>1, <1>2, <1>3
<1>5. \A i \in DOMAIN z : i \in Nat /\ i + 1 \in DOMAIN s /\ i + 1 # 1 /\ z[i] = s[i + 1]
  BY <1>2, <1>4
<1>6. 1 \in DOMAIN s /\ \A i \in DOMAIN s : i # 1 => i - 1 \in DOMAIN z /\ z[i - 1] = s[i]
  BY <1>2, <1>3, <1>4
<1>7. ASSUME NEW x
      PROVE  In(s, x) <=> x = Head(s) \/ In(z, x)
  <2>1. In(s, x) => x = Head(s) \/ In(z, x)
    BY <1>4, <1>6 DEF In
  <2>2. x = Head(s) \/ In(z, x) => In(s, x)
    BY <1>4, <1>5, <1>6 DEF In
  <2> QED BY <2>1, <2>2
<1>8. ASSUME Once(s)
      PROVE  Once(z) /\ ~In(z, Head(s))
  <2>1. Once(z)
    <3> SUFFICES ASSUME NEW i \in DOMAIN z, NEW j \in DOMAIN z, z[i] = z[j]
                 PROVE  i = j
      BY DEF Once
    <3>1. i + 1 = j + 1 /\ i \in Nat /\ j \in Nat
      BY <1>5, <1>8 DEF Once
    <3> QED BY <3>1
  <2>2. ~In(z, Head(s))
    BY <1>4, <1>5, <1>6, <1>8 DEF In, Once
  <2> QED BY <2>1, <2>2
<1> QED BY <1>1, <1>4, <1>7, <1>8

\* The SELECT of INTREE lists the folders below one, each once.
LEMMA BelowIs ==
    ASSUME NEW f
    PROVE  /\ Below(f) \in Seq(Folder) /\ Once(Below(f))
           /\ \A x : In(Below(f), x) <=> x \in Folder /\ Stored(x) /\ folder[x].up = f
<1> DEFINE Listed(s, n) ==
        /\ s \in Seq(Folder) /\ Once(s)
        /\ \A x : In(s, x) <=> x \in 1 .. n /\ Stored(x) /\ folder[x].up = f
<1>1. Belows(f)[0] = <<>>
  BY BelowsAre, NumberAssumption
<1>2. ASSUME NEW n \in 1 .. MaxFolder
      PROVE  Belows(f)[n] = IF Stored(n) /\ folder[n].up = f
                            THEN Append(Belows(f)[n - 1], n) ELSE Belows(f)[n - 1]
  <2>1. n \in 0 .. MaxFolder /\ n # 0
    BY NumberAssumption
  <2>2. PICK u : u = Belows(f)
    OBVIOUS
  <2>3. u = [g \in 0 .. MaxFolder |->
              IF g = 0 THEN <<>>
              ELSE IF Stored(g) /\ folder[g].up = f THEN Append(u[g - 1], g) ELSE u[g - 1]]
    BY <2>2, BelowsAre
  <2>4. u[n] = IF Stored(n) /\ folder[n].up = f THEN Append(u[n - 1], n) ELSE u[n - 1]
    BY <2>1, <2>3
  <2> QED BY <2>2, <2>4
<1>3. PICK S : S = {n \in Nat : n <= MaxFolder => Listed(Belows(f)[n], n)}
  OBVIOUS
<1>4. 0 \in S
  <2>1. Listed(<<>>, 0)
    BY DEF Once, In
  <2> QED BY <1>1, <1>3, <2>1
<1>5. ASSUME NEW m \in S
      PROVE  m + 1 \in S
  <2> SUFFICES ASSUME m + 1 <= MaxFolder
               PROVE  Listed(Belows(f)[m + 1], m + 1)
    BY <1>3
  <2>1. m \in Nat /\ m <= MaxFolder /\ m + 1 \in 1 .. MaxFolder /\ (m + 1) - 1 = m
        /\ m + 1 \in Folder
    BY <1>3, NumberAssumption DEF Folder
  <2>2. PICK s : s = Belows(f)[m]
    OBVIOUS
  <2>3. Listed(s, m)
    BY <1>3, <2>1, <2>2
  <2>4. \A x : x \in 1 .. m + 1 <=> x \in 1 .. m \/ x = m + 1
    BY <2>1
  <2>5. CASE Stored(m + 1) /\ folder[m + 1].up = f
    <3>1. Belows(f)[m + 1] = Append(s, m + 1)
      BY <1>2, <2>1, <2>2, <2>5
    <3>2. ~In(s, m + 1)
      BY <2>1, <2>3
    <3>3. /\ \A x : In(Append(s, m + 1), x) <=> In(s, x) \/ x = m + 1
          /\ Once(Append(s, m + 1)) /\ Append(s, m + 1) \in Seq(Folder)
      BY <2>1, <2>3, <3>2, InAppend
    <3> QED BY <2>3, <2>4, <2>5, <3>1, <3>3
  <2>6. CASE ~(Stored(m + 1) /\ folder[m + 1].up = f)
    <3>1. Belows(f)[m + 1] = s
      BY <1>2, <2>1, <2>2, <2>6
    <3> QED BY <2>3, <2>4, <2>6, <3>1
  <2> QED BY <2>5, <2>6
<1>6. MaxFolder \in S
  BY <1>3, <1>4, <1>5, AllNumbers, NumberAssumption
<1>7. Listed(Below(f), MaxFolder)
  BY <1>3, <1>6, BelowLast, NumberAssumption
<1> QED BY <1>7 DEF Folder

\* So does one that fails, but for what it does not list.
LEMMA FoundIs ==
    ASSUME NEW f, NEW heard \in BOOLEAN
    PROVE  /\ Found(f, heard) \in Seq(Folder) /\ Once(Found(f, heard))
           /\ \A x : In(Found(f, heard), x) =>
                  x \in Folder /\ Stored(x) /\ folder[x].up = f
           /\ heard => \A x \in Folder :
                  Stored(x) /\ folder[x].up = f => In(Found(f, heard), x)
<1>1. CASE heard
  BY <1>1, BelowIs DEF Found
<1>2. CASE ~heard
  <2>1. Found(f, heard) = <<>>
    BY <1>2 DEF Found
  <2> QED BY <1>2, <2>1 DEF Once, In
<1> QED BY <1>1, <1>2

\* Folder f is above itself.
Circled(f) == \E n \in Nat \ {0} : Leads(f, f, n)

\* What is listed, or still to list, is below something listed before ...
ParentsListed(k) ==
    /\ \A i \in DOMAIN k.list : i # 1 =>
          /\ k.list[i] \in Folder /\ Stored(k.list[i])
          /\ \E j \in DOMAIN k.list : j < i /\ k.list[j] = folder[k.list[i]].up
    /\ \A x : In(k.todo, x) => x \in Folder /\ Stored(x) /\ In(k.list, folder[x].up)

\* ... and what is below something listed comes after it, or is still to list,
\* as long as every SELECT is answered.
ChildrenFollow(k) ==
    \A i \in DOMAIN k.list : \A g \in Folder : Stored(g) /\ folder[g].up = k.list[i] =>
        \/ \E j \in DOMAIN k.list : i < j /\ k.list[j] = g
        \/ In(k.todo, g)

\* Nothing comes twice, but in a circle.
EachOnce(k) ==
    \/ Circled(k.from)
    \/ Once(k.list) /\ Once(k.todo) /\ \A x : ~(In(k.list, x) /\ In(k.todo, x))

ListTold(k) ==
    ~k.late => /\ 1 \in DOMAIN k.list /\ k.list[1] = k.from
               /\ ParentsListed(k) /\ (k.heard => ChildrenFollow(k)) /\ EachOnce(k)

ListsOK ==
    /\ listing \in [Reader -> Maybe(Listing)]
    /\ \A r \in Reader : \A k \in listing[r] : k.todo \in Seq(Folder) /\ ListTold(k)

LEMMA LateListings ==
    ASSUME NEW ks \in Maybe(Listing)
    PROVE  {[k EXCEPT !.late = TRUE] : k \in ks} \in Maybe(Listing)
<1>1. CASE ks = {}
  BY <1>1 DEF Maybe
<1>2. CASE \E k \in Listing : ks = {k}
  <2>1. PICK k \in Listing : ks = {k}
    BY <1>2
  <2>2. [k EXCEPT !.late = TRUE] \in Listing
    BY DEF Listing
  <2>3. {[x EXCEPT !.late = TRUE] : x \in ks} = {[k EXCEPT !.late = TRUE]}
    BY <2>1
  <2> QED BY <2>2, <2>3 DEF Maybe
<1> QED BY <1>1, <1>2 DEF Maybe

LEMMA ListsDisturbed ==
    ASSUME ListsOK, ReadersLate
    PROVE  ListsOK'
<1>1. listing' = [r \in Reader |-> {[x EXCEPT !.late = TRUE] : x \in listing[r]}]
  BY DEF ReadersLate
<1>2. listing \in [Reader -> Maybe(Listing)]
  BY DEF ListsOK
<1>3. listing' \in [Reader -> Maybe(Listing)]
  BY <1>1, <1>2, LateListings
<1>4. ASSUME NEW r \in Reader, NEW k \in listing'[r]
      PROVE  k.todo \in Seq(Folder) /\ ListTold(k)'
  <2>1. PICK x \in listing[r] : k = [x EXCEPT !.late = TRUE]
    BY <1>1
  <2>2. x \in Listing
    BY <1>2, OneOfMaybe
  <2>3. k.late /\ k.todo = x.todo
    BY <2>1, <2>2 DEF Listing
  <2> QED BY <2>3 DEF ListsOK, ListTold
<1> QED BY <1>3, <1>4 DEF ListsOK

LEMMA ListToldStays ==
    ASSUME folder' = folder, NEW k, ListTold(k)
    PROVE  ListTold(k)'
<1>1. \A x : Stored(x)' <=> Stored(x)
  BY DEF Stored
<1>2. \A f : Circled(f)' <=> Circled(f)
  BY LeadsStays DEF Circled
<1>3. ParentsListed(k)' <=> ParentsListed(k)
  BY <1>1 DEF ParentsListed
<1>4. ChildrenFollow(k)' <=> ChildrenFollow(k)
  BY <1>1 DEF ChildrenFollow
<1>5. EachOnce(k)' <=> EachOnce(k)
  BY <1>2 DEF EachOnce
<1> QED BY <1>3, <1>4, <1>5 DEF ListTold

LEMMA ListSet ==
    ASSUME ListsOK, folder' = folder, NEW r \in Reader,
           NEW ks \in Maybe(Listing), listing' = [listing EXCEPT ![r] = ks],
           \A k \in ks : k.todo \in Seq(Folder) /\ ListTold(k)
    PROVE  ListsOK'
<1>1. listing' \in [Reader -> Maybe(Listing)]
  BY DEF ListsOK
<1>2. ASSUME NEW q \in Reader, NEW k \in listing'[q]
      PROVE  k.todo \in Seq(Folder) /\ ListTold(k)'
  <2>1. k \in listing[q] \/ k \in ks
    BY DEF ListsOK
  <2>2. k.todo \in Seq(Folder) /\ ListTold(k)
    BY <2>1 DEF ListsOK
  <2> QED BY <2>2, ListToldStays
<1> QED BY <1>1, <1>2 DEF ListsOK

LEMMA StartListStep ==
    ASSUME ObjectsOK, ListsOK, NEW r \in Reader, StartList(r)
    PROVE  ListsOK'
<1>1. PICK f \in Id, heard \in BOOLEAN :
          /\ listing' = [listing EXCEPT ![r] =
                {[from |-> f, list |-> <<f>>, todo |-> Found(f, heard), heard |-> heard,
                  late |-> FALSE]}]
          /\ folder' = folder
  BY DEF StartList, tables
<1>2. PICK s : s = <<f>>
  OBVIOUS
<1>3. s \in Seq(Id) /\ DOMAIN s = {1} /\ s[1] = f
  BY <1>2
<1>4. PICK t \in Seq(Folder) : t = Found(f, heard)
  BY FoundIs
<1>5. /\ Once(t) /\ \A x : In(t, x) => x \in Folder /\ Stored(x) /\ folder[x].up = f
      /\ heard => \A x \in Folder : Stored(x) /\ folder[x].up = f => In(t, x)
  BY <1>4, FoundIs
<1>6. PICK k : k = [from |-> f, list |-> s, todo |-> t, heard |-> heard, late |-> FALSE]
  OBVIOUS
<1>7. k.from = f /\ k.list = s /\ k.todo = t /\ k.heard = heard
  BY <1>6
<1>8. t \in Seq(Id)
  <2>1. Folder \subseteq Id
    BY IdsAre
  <2> QED BY <1>4, <2>1
<1>9. k \in Listing
  BY <1>3, <1>6, <1>8 DEF Listing
<1>10. ParentsListed(k)
  BY <1>3, <1>5, <1>7 DEF ParentsListed, In
<1>11. k.heard => ChildrenFollow(k)
  BY <1>3, <1>5, <1>7 DEF ChildrenFollow
<1>12. EachOnce(k)
  <2> SUFFICES ASSUME ~Circled(f)
               PROVE  Once(s) /\ Once(t) /\ \A x : ~(In(s, x) /\ In(t, x))
    BY <1>7 DEF EachOnce
  <2>1. Once(s)
    BY <1>3 DEF Once
  <2>2. ASSUME NEW x, In(s, x), In(t, x)
        PROVE  FALSE
    <3>1. x = f /\ f \in Folder /\ Stored(f) /\ folder[f].up = f
      BY <1>3, <1>5, <2>2 DEF In
    <3>2. Leads(f, f, 0) /\ WritersTypeOK /\ 0 \in Nat
      BY LeadsNowhere DEF ObjectsOK
    <3>3. Leads(f, f, 0 + 1)
      BY <3>1, <3>2, LeadsOn
    <3>4. 0 + 1 \in Nat \ {0}
      OBVIOUS
    <3> QED BY <3>3, <3>4 DEF Circled
  <2> QED BY <1>5, <2>1, <2>2
<1>13. ListTold(k)
  BY <1>3, <1>7, <1>10, <1>11, <1>12 DEF ListTold
<1>14. {k} \in Maybe(Listing)
  BY <1>9 DEF Maybe
<1>15. listing' = [listing EXCEPT ![r] = {k}]
  BY <1>1, <1>2, <1>4, <1>6
<1>16. \A x \in {k} : x.todo \in Seq(Folder) /\ ListTold(x)
  BY <1>4, <1>7, <1>13
<1> QED BY <1>1, <1>14, <1>15, <1>16, ListSet

\* From everything listed one gets to where the listing began.
LEMMA ListLeads ==
    ASSUME WritersTypeOK, NEW k \in Listing, 1 \in DOMAIN k.list, k.list[1] = k.from,
           ParentsListed(k)
    PROVE  \A i \in DOMAIN k.list : \E n \in Nat :
              Leads(k.list[i], k.from, n) /\ (i # 1 => n # 0)
<1>1. k.list \in Seq(Id) /\ k.from \in Id
  BY DEF Listing
<1>2. DOMAIN k.list \subseteq Nat \ {0}
  BY <1>1
<1>3. PICK S : S = {m \in Nat : \A i \in DOMAIN k.list : i <= m + 1 =>
                       \E n \in Nat : Leads(k.list[i], k.from, n) /\ (i # 1 => n # 0)}
  OBVIOUS
<1>4. 0 \in S
  <2>1. Leads(k.from, k.from, 0) /\ 0 \in Nat
    BY <1>1, LeadsNowhere
  <2>2. \A i \in DOMAIN k.list : i <= 0 + 1 => i = 1
    BY <1>2
  <2> QED BY <1>3, <2>1, <2>2
<1>5. ASSUME NEW m \in S
      PROVE  m + 1 \in S
  <2>1. m \in Nat
    BY <1>3
  <2> SUFFICES ASSUME NEW i \in DOMAIN k.list, i <= (m + 1) + 1
               PROVE  \E n \in Nat : Leads(k.list[i], k.from, n) /\ (i # 1 => n # 0)
    BY <1>3, <2>1
  <2>2. CASE i = 1
    BY <1>3, <2>1, <2>2
  <2>3. CASE i # 1
    <3>1. PICK j \in DOMAIN k.list :
             /\ j < i /\ k.list[j] = folder[k.list[i]].up
             /\ k.list[i] \in Folder /\ Stored(k.list[i])
      BY <2>3 DEF ParentsListed
    <3>2. j <= m + 1
      BY <1>2, <2>1, <3>1
    <3>3. PICK n \in Nat : Leads(k.list[j], k.from, n)
      BY <1>3, <3>2
    <3>4. Leads(k.list[i], k.from, n + 1)
      BY <3>1, <3>3, LeadsFirst, IdsAre
    <3>5. n + 1 \in Nat /\ n + 1 # 0
      OBVIOUS
    <3> QED BY <3>4, <3>5
  <2> QED BY <2>2, <2>3
<1>6. S = Nat
  BY <1>3, <1>4, <1>5, AllNumbers
<1> SUFFICES ASSUME NEW i \in DOMAIN k.list
             PROVE  \E n \in Nat : Leads(k.list[i], k.from, n) /\ (i # 1 => n # 0)
  OBVIOUS
<1>7. i \in S /\ i <= i + 1
  BY <1>2, <1>6
<1> QED BY <1>3, <1>7

LEMMA ListNextStep ==
    ASSUME ObjectsOK, ListsOK, NEW r \in Reader, ListNext(r)
    PROVE  ListsOK'
<1>1. PICK k \in listing[r], heard \in BOOLEAN :
          /\ k.todo # <<>>
          /\ listing' = [listing EXCEPT ![r] =
                {[k EXCEPT !.list = Append(@, Head(k.todo)), !.todo = Deeper(k.todo, heard),
                           !.heard = @ /\ heard]}]
          /\ folder' = folder
  BY DEF ListNext, tables
<1>2. k \in Listing /\ k.todo \in Seq(Folder) /\ ListTold(k)
  BY OneOfMaybe DEF ListsOK
<1>3. PICK h : h = Head(k.todo)
  OBVIOUS
<1>4. PICK rest : rest = Tail(k.todo)
  OBVIOUS
<1>5. /\ h \in Folder /\ rest \in Seq(Folder)
      /\ \A x : In(k.todo, x) <=> x = h \/ In(rest, x)
      /\ Once(k.todo) => Once(rest) /\ ~In(rest, h)
  BY <1>1, <1>2, <1>3, <1>4, InTail
<1>6. PICK below \in Seq(Folder) : below = Found(h, heard)
  BY FoundIs
<1>7. /\ Once(below) /\ \A x : In(below, x) => x \in Folder /\ Stored(x) /\ folder[x].up = h
      /\ heard => \A x \in Folder : Stored(x) /\ folder[x].up = h => In(below, x)
  BY <1>6, FoundIs
<1>8. PICK list : list = Append(k.list, h)
  OBVIOUS
<1>9. k.list \in Seq(Id) /\ h \in Id
  BY <1>2, <1>5, IdsAre DEF Listing
<1>10. PICK n \in Nat : n = Len(k.list) /\ DOMAIN k.list = 1 .. n
  BY <1>9
<1>11. /\ list \in Seq(Id) /\ DOMAIN list = 1 .. n + 1 /\ list[n + 1] = h
       /\ \A i \in 1 .. n : list[i] = k.list[i]
  BY <1>8, <1>9, <1>10
<1>12. /\ \A x : In(list, x) <=> In(k.list, x) \/ x = h
       /\ Once(k.list) /\ ~In(k.list, h) => Once(list)
  BY <1>8, <1>9, InAppend
<1>13. PICK todo : todo = below \o rest
  OBVIOUS
<1>14. /\ todo \in Seq(Folder)
       /\ \A x : In(todo, x) <=> In(below, x) \/ In(rest, x)
       /\ Once(below) /\ Once(rest) /\ (\A x : ~(In(below, x) /\ In(rest, x))) => Once(todo)
  BY <1>5, <1>13, InConcat
<1>15. PICK e : e = [k EXCEPT !.list = list, !.todo = todo, !.heard = @ /\ heard]
  OBVIOUS
<1>16. listing' = [listing EXCEPT ![r] = {e}]
  BY <1>1, <1>3, <1>4, <1>6, <1>8, <1>13, <1>15 DEF Deeper
<1>17. /\ e.from = k.from /\ e.late = k.late /\ e.list = list /\ e.todo = todo
       /\ e.heard => heard /\ k.heard
  BY <1>2, <1>15 DEF Listing
<1>18. e \in Listing
  <2>1. Folder \subseteq Id
    BY IdsAre
  <2>2. todo \in Seq(Id)
    BY <1>14, <2>1
  <2> QED BY <1>2, <1>11, <1>15, <2>2 DEF Listing
<1>19. ASSUME ~k.late
       PROVE  /\ 1 \in DOMAIN list /\ list[1] = k.from
              /\ ParentsListed(e) /\ (e.heard => ChildrenFollow(e)) /\ EachOnce(e)
  <2>1. /\ 1 \in DOMAIN k.list /\ k.list[1] = k.from
        /\ ParentsListed(k) /\ (k.heard => ChildrenFollow(k)) /\ EachOnce(k)
    BY <1>2, <1>19 DEF ListTold
  <2>2. n >= 1 /\ 1 \in DOMAIN list /\ list[1] = k.from
    BY <1>10, <1>11, <2>1
  <2>3. h \in Folder /\ Stored(h) /\ In(k.list, folder[h].up)
    BY <1>5, <2>1 DEF ParentsListed
  <2>4. \A i \in DOMAIN list : \/ i \in DOMAIN k.list /\ list[i] = k.list[i]
                               \/ i = n + 1 /\ list[i] = h
    BY <1>10, <1>11
  <2>5. \A i \in DOMAIN k.list : i \in DOMAIN list /\ list[i] = k.list[i] /\ i < n + 1
    BY <1>10, <1>11
  <2>6. ParentsListed(e)
    <3>1. ASSUME NEW i \in DOMAIN list, i # 1
          PROVE  /\ list[i] \in Folder /\ Stored(list[i])
                 /\ \E j \in DOMAIN list : j < i /\ list[j] = folder[list[i]].up
      <4>1. CASE i \in DOMAIN k.list /\ list[i] = k.list[i]
        BY <2>1, <2>5, <3>1, <4>1 DEF ParentsListed
      <4>2. CASE i = n + 1 /\ list[i] = h
        BY <2>3, <2>5, <4>2 DEF In
      <4> QED BY <2>4, <4>1, <4>2
    <3>2. ASSUME NEW x, In(todo, x)
          PROVE  x \in Folder /\ Stored(x) /\ In(list, folder[x].up)
      <4>1. CASE In(below, x)
        BY <1>7, <1>12, <4>1
      <4>2. CASE In(rest, x)
        BY <1>5, <1>12, <2>1, <4>2 DEF ParentsListed
      <4> QED BY <1>14, <3>2, <4>1, <4>2
    <3> QED BY <1>17, <3>1, <3>2 DEF ParentsListed
  <2>7. e.heard => ChildrenFollow(e)
    <3> SUFFICES ASSUME heard, k.heard, NEW i \in DOMAIN list, NEW g \in Folder,
                        Stored(g), folder[g].up = list[i]
                 PROVE  \/ \E j \in DOMAIN list : i < j /\ list[j] = g
                        \/ In(todo, g)
      BY <1>17 DEF ChildrenFollow
    <3>1. CASE i \in DOMAIN k.list /\ list[i] = k.list[i]
      <4>1. \/ \E j \in DOMAIN k.list : i < j /\ k.list[j] = g
            \/ In(k.todo, g)
        BY <2>1, <3>1 DEF ChildrenFollow
      <4>2. CASE \E j \in DOMAIN k.list : i < j /\ k.list[j] = g
        BY <2>5, <4>2
      <4>3. CASE g = h
        <5>1. n + 1 \in DOMAIN list /\ i < n + 1 /\ list[n + 1] = h
          BY <1>10, <1>11, <3>1
        <5> QED BY <4>3, <5>1
      <4>4. CASE In(rest, g)
        BY <1>14, <4>4
      <4> QED BY <1>5, <4>1, <4>2, <4>3, <4>4
    <3>2. CASE i = n + 1 /\ list[i] = h
      BY <1>7, <1>14, <3>2
    <3> QED BY <2>4, <3>1, <3>2
  <2>8. EachOnce(e)
    <3> SUFFICES ASSUME ~Circled(k.from)
                 PROVE  Once(list) /\ Once(todo) /\ \A x : ~(In(list, x) /\ In(todo, x))
      BY <1>17 DEF EachOnce
    <3>1. Once(k.list) /\ Once(k.todo) /\ \A x : ~(In(k.list, x) /\ In(k.todo, x))
      BY <2>1 DEF EachOnce
    <3>2. In(k.todo, h) /\ ~In(k.list, h) /\ Once(rest) /\ ~In(rest, h)
      BY <1>5, <3>1
    <3>3. ~In(below, h)
      BY <1>7, <2>3, <3>2
    <3>4. ASSUME NEW x, In(below, x), In(rest, x)
          PROVE  FALSE
      BY <1>5, <1>7, <2>1, <3>2, <3>4 DEF ParentsListed
    <3>5. ASSUME NEW x, In(below, x), In(k.list, x)
          PROVE  FALSE
      <4>1. Stored(x) /\ folder[x].up = h /\ x \in Folder
        BY <1>7, <3>5
      <4>2. PICK i \in DOMAIN k.list : k.list[i] = x
        BY <3>5 DEF In
      <4>3. i = 1
        <5> SUFFICES ASSUME i # 1 PROVE FALSE
          OBVIOUS
        <5>1. In(k.list, h)
          BY <2>1, <4>1, <4>2 DEF ParentsListed, In
        <5> QED BY <3>2, <5>1
      <4>4. x = k.from
        BY <2>1, <4>2, <4>3
      <4>5. WritersTypeOK /\ k.from \in Id
        BY <1>2 DEF ObjectsOK, Listing
      <4>6. PICK j \in DOMAIN k.list : k.list[j] = folder[h].up
        BY <2>3 DEF In
      <4>7. PICK m \in Nat : Leads(folder[h].up, k.from, m)
        BY <1>2, <2>1, <4>5, <4>6, ListLeads
      <4>8. Leads(h, k.from, m + 1)
        BY <1>9, <2>3, <4>5, <4>7, LeadsFirst
      <4>9. Leads(k.from, k.from, (m + 1) + 1)
        BY <4>1, <4>4, <4>5, <4>8, LeadsFirst
      <4>10. (m + 1) + 1 \in Nat \ {0}
        OBVIOUS
      <4> QED BY <4>9, <4>10 DEF Circled
    <3>6. Once(list) /\ Once(todo)
      BY <1>7, <1>12, <1>14, <3>1, <3>2, <3>4
    <3> QED BY <1>5, <1>12, <1>14, <3>1, <3>2, <3>3, <3>5, <3>6
  <2> QED BY <2>2, <2>6, <2>7, <2>8
<1>20. ListTold(e)
  BY <1>17, <1>19 DEF ListTold
<1>21. {e} \in Maybe(Listing)
  BY <1>18 DEF Maybe
<1>22. \A x \in {e} : x.todo \in Seq(Folder) /\ ListTold(x)
  BY <1>14, <1>17, <1>20
<1> QED BY <1>1, <1>16, <1>21, <1>22, ListSet

LEMMA ListsStep ==
    ASSUME ObjectsOK, ListsOK, [TreeNext]_treeVars
    PROVE  ListsOK'
<1>1. ASSUME folder' = folder, listing' = listing
      PROVE  ListsOK'
  BY <1>1, ListToldStays DEF ListsOK
<1>2. ASSUME NEW w \in Writer,
             \/ CreateFolder(w) \/ WriteLeaf(w) \/ RemoveLeaf(w)
             \/ StartMove(w) \/ EndMove(w)
             \/ RemoveUnchecked(w) \/ StartRemoval(w) \/ AskLeaves(w) \/ EndRemoval(w)
      PROVE  ListsOK'
  BY <1>1, <1>2, WriterTells, ListsDisturbed
<1>3. ASSUME NEW r \in Reader,
             StartWalk(r) \/ StartWalkOfLeaf(r) \/ \E heard \in BOOLEAN : StepUp(r, heard)
      PROVE  ListsOK'
  <2>1. folder' = folder /\ listing' = listing
    BY <1>3 DEF StartWalk, StartWalkOfLeaf, StepUp, tables
  <2> QED BY <1>1, <2>1
<1>4. ASSUME NEW r \in Reader, ListEnds(r)
      PROVE  ListsOK'
  <2>1. folder' = folder /\ listing' = [listing EXCEPT ![r] = {}]
    BY <1>4 DEF ListEnds, tables
  <2>2. {} \in Maybe(Listing)
    BY DEF Maybe
  <2> QED BY <2>1, <2>2, ListSet
<1>5. CASE UNCHANGED treeVars
  BY <1>1, <1>5 DEF treeVars
<1> QED BY <1>2, <1>3, <1>4, <1>5, StartListStep, ListNextStep DEF TreeNext

LEMMA ListsStart == TreeInit => ListsOK
BY DEF TreeInit, ListsOK, Maybe

\* Who is above itself has all of a circle listed again and again: something
\* stays to list.
LEMMA CircleGoesOn ==
    ASSUME WritersTypeOK, NEW k \in Listing, k.todo = <<>>, 1 \in DOMAIN k.list,
           k.list[1] = k.from, ChildrenFollow(k), Circled(k.from)
    PROVE  FALSE
<1>1. k.list \in Seq(Id) /\ k.from \in Id
  BY DEF Listing
<1>2. PICK n \in Nat \ {0} : Leads(k.from, k.from, n)
  BY DEF Circled
<1>3. PICK C : C = {x \in Id : \E m \in Nat : Leads(k.from, x, m)}
  OBVIOUS
<1>4. ASSUME NEW x \in C
      PROVE  \E g \in C : g \in Folder /\ Stored(g) /\ folder[g].up = x
  <2>1. PICK m \in Nat \ {0} : Leads(k.from, x, m)
    <3>1. PICK m \in Nat : Leads(k.from, x, m)
      BY <1>3
    <3>2. CASE m # 0
      BY <3>1, <3>2
    <3>3. CASE m = 0
      BY <1>1, <1>2, <3>1, <3>3, LeadsNowhere
    <3> QED BY <3>2, <3>3
  <2>2. PICK d \in Nat : m = d + 1
    <3>1. m - 1 \in Nat /\ m = (m - 1) + 1
      BY <2>1
    <3> QED BY <3>1
  <2>3. PICK g \in Folder : Leads(k.from, g, d) /\ Stored(g) /\ x = folder[g].up
    BY <1>1, <2>1, <2>2, LeadsOn
  <2>4. g \in C
    BY <1>3, <2>3, IdsAre
  <2> QED BY <2>3, <2>4
<1>5. k.from \in C
  BY <1>1, <1>2, <1>3
<1>6. \A x : ~In(k.todo, x)
  BY DEF In
<1>7. PICK S : S = {p \in Nat : \E i \in DOMAIN k.list : p < i /\ k.list[i] \in C}
  OBVIOUS
<1>8. DOMAIN k.list = 1 .. Len(k.list) /\ Len(k.list) \in Nat
  BY <1>1
<1>9. 0 \in S
  BY <1>5, <1>7
<1>10. ASSUME NEW p \in S
       PROVE  p + 1 \in S
  <2>1. PICK i \in DOMAIN k.list : p < i /\ k.list[i] \in C
    BY <1>7
  <2>2. PICK g \in C : g \in Folder /\ Stored(g) /\ folder[g].up = k.list[i]
    BY <1>4, <2>1
  <2>3. PICK j \in DOMAIN k.list : i < j /\ k.list[j] = g
    BY <1>6, <2>2 DEF ChildrenFollow
  <2>4. p + 1 \in Nat /\ p + 1 < j
    BY <1>7, <1>8, <2>1, <2>3
  <2> QED BY <1>7, <2>2, <2>3, <2>4
<1>11. Len(k.list) \in S
  BY <1>7, <1>8, <1>9, <1>10, AllNumbers
<1> QED BY <1>7, <1>8, <1>11

\* Everything below where a listing began is listed when it ends.
LEMMA AllListed ==
    ASSUME WritersTypeOK, NEW k \in Listing, k.todo = <<>>, 1 \in DOMAIN k.list,
           k.list[1] = k.from, ChildrenFollow(k),
           NEW g \in Folder, NEW n \in Nat \ {0}, Leads(g, k.from, n)
    PROVE  In(k.list, g)
<1>1. \A x : ~In(k.todo, x)
  BY DEF In
<1>2. \A x \in Folder : Stored(x) /\ In(k.list, folder[x].up) => In(k.list, x)
  BY <1>1 DEF ChildrenFollow, In
<1>3. PICK S : S = {m \in Nat : \A x \in Id : Leads(x, k.from, m) => In(k.list, x)}
  OBVIOUS
<1>4. 0 \in S
  BY <1>3, LeadsNowhere DEF In
<1>5. ASSUME NEW m \in S
      PROVE  m + 1 \in S
  <2> SUFFICES ASSUME NEW x \in Id, Leads(x, k.from, m + 1)
               PROVE  In(k.list, x)
    BY <1>3
  <2>1. x \in Folder /\ Stored(x) /\ Leads(folder[x].up, k.from, m)
    BY <1>3, LeadsFirst
  <2>2. In(k.list, folder[x].up)
    BY <1>3, <2>1, UpsAreIds
  <2> QED BY <1>2, <2>1, <2>2
<1>6. n \in S
  BY <1>3, <1>4, <1>5, AllNumbers
<1> QED BY <1>3, <1>6, IdsAre

LEMMA ListRight ==
    ASSUME ObjectsOK, ListsOK
    PROVE  ListsRight
<1> SUFFICES ASSUME NEW r \in Reader, NEW k \in listing[r], k.todo = <<>>, ~k.late,
                    NEW listed, listed = {k.list[i] : i \in DOMAIN k.list},
                    NEW below,
                    below = {k.from} \cup {g \in Folder : Stored(g) /\ k.from \in Ancestors(g)}
             PROVE  /\ listed \subseteq below
                    /\ k.heard =>
                         /\ listed = below
                         /\ \A i, j \in DOMAIN k.list : k.list[i] = k.list[j] => i = j
  BY DEF ListsRight
<1>1. k \in Listing /\ ListTold(k) /\ WritersTypeOK
  BY OneOfMaybe DEF ListsOK, ObjectsOK
<1>2. /\ 1 \in DOMAIN k.list /\ k.list[1] = k.from
      /\ ParentsListed(k) /\ (k.heard => ChildrenFollow(k)) /\ EachOnce(k)
  BY <1>1 DEF ListTold
<1>3. k.heard => ~Circled(k.from)
  BY <1>1, <1>2, CircleGoesOn
<1>4. k.heard => \A i, j \in DOMAIN k.list : k.list[i] = k.list[j] => i = j
  BY <1>2, <1>3 DEF EachOnce, Once
<1>5. k.from \in Id
  BY <1>1 DEF Listing
<1>6. ASSUME NEW i \in DOMAIN k.list
      PROVE  \/ k.list[i] = k.from
             \/ /\ k.list[i] \in Folder /\ Stored(k.list[i])
                /\ k.from \in Ancestors(k.list[i])
  <2>1. CASE i = 1
    BY <1>2, <2>1
  <2>2. CASE i # 1
    <3>1. k.list[i] \in Folder /\ Stored(k.list[i])
      BY <1>2, <2>2 DEF ParentsListed
    <3>2. PICK n \in Nat \ {0} : Leads(k.list[i], k.from, n)
      BY <1>1, <1>2, <2>2, ListLeads
    <3>3. PICK g \in Id : g = k.list[i]
      BY <3>1, IdsAre
    <3>4. k.from \in Ancestors(g)
      BY <1>1, <1>5, <3>2, <3>3, AncestorsAre
    <3> QED BY <3>1, <3>3, <3>4
  <2> QED BY <2>1, <2>2
<1>7. ASSUME k.heard, NEW g \in Folder, k.from \in Ancestors(g)
      PROVE  In(k.list, g)
  <2>1. PICK n \in Nat \ {0} : Leads(g, k.from, n)
    BY <1>1, <1>7, AncestorsAre, IdsAre
  <2> QED BY <1>1, <1>2, <1>7, <2>1, AllListed
<1>8. In(k.list, k.from)
  BY <1>2 DEF In
<1> QED BY <1>4, <1>6, <1>7, <1>8 DEF In

LEMMA ListsInvariant == TreeSpec => [](ObjectsOK /\ ListsOK)
<1>1. ObjectsOK /\ ListsOK /\ [TreeNext]_treeVars => (ObjectsOK /\ ListsOK)'
  BY ObjectsStep, ListsStep
<1> QED BY ObjectsStart, ListsStart, <1>1, PTL DEF TreeSpec

\* What INTREE lists when no folder was written meanwhile is the folder and all
\* below it, each once, however many folders there are and however they are
\* nested: a listing that meets a circle does not end.  When a SELECT of it
\* failed, folders may be missing, and none is listed that is not below.
THEOREM ListsAreRight == TreeSpec => []ListsRight
<1>1. ObjectsOK /\ ListsOK => ListsRight
  BY ListRight
<1> QED BY ListsInvariant, <1>1, PTL

CallsCounted == treeCalls \in 0 .. MaxTreeCalls

LEMMA CallsBounded ==
    ASSUME CallsCounted, [TreeNext]_treeVars
    PROVE  CallsCounted'
<1>1. treeCalls' = treeCalls \/ Calling
  BY DEF TreeNext, treeVars, CreateFolder, WriteLeaf, RemoveLeaf, StartMove, EndMove,
         RemoveUnchecked, StartRemoval, AskLeaves, EndRemoval, StartWalk, StartWalkOfLeaf,
         StepUp, StartList, ListNext, ListEnds, Reads
<1> QED BY <1>1, NumberAssumption DEF Calling, CallsCounted

LEMMA CallsInvariant == TreeSpec => []CallsCounted
<1>1. TreeInit => CallsCounted
  BY NumberAssumption DEF TreeInit, CallsCounted
<1>2. CallsCounted /\ [TreeNext]_treeVars => CallsCounted'
  BY CallsBounded
<1> QED BY <1>1, <1>2, PTL DEF TreeSpec

\* The tables of objects, the calls of writers and those of readers have their
\* types: a row's up link is a folder or the top, nobody is in two calls at
\* once, and what is still to list are folders.
THEOREM TreeType == TreeSpec => []TreeTypeOK
<1>1. ObjectsOK /\ WalksOK /\ ListsOK /\ CallsCounted => TreeTypeOK
  <2> SUFFICES ASSUME ObjectsOK, WalksOK, ListsOK, CallsCounted
               PROVE  TreeTypeOK
    OBVIOUS
  <2>1. ASSUME NEW r \in Reader, NEW l \in listing[r]
        PROVE  /\ l.from \in Id /\ l.heard \in BOOLEAN /\ l.late \in BOOLEAN
               /\ \A i \in DOMAIN l.list : l.list[i] \in Id
               /\ \A i \in DOMAIN l.todo : l.todo[i] \in Folder
    <3>1. l \in Listing /\ l.todo \in Seq(Folder)
      BY OneOfMaybe DEF ListsOK
    <3> QED BY <3>1 DEF Listing
  <2> QED BY <2>1 DEF TreeTypeOK, ObjectsOK, WalksOK, CallsCounted
<1> QED BY WalksInvariant, ListsInvariant, CallsInvariant, <1>1, PTL
=============================================================================
