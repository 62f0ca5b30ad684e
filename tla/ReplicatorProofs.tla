-------------------------- MODULE ReplicatorProofs --------------------------
(***************************************************************************)
(* Replication, for any sites, guids and packages, however these are       *)
(* lost, repeated and reordered.  What an import must not do follows from  *)
(* what every state of an object carries with it, in a table, an instance, *)
(* a package or the rest of one: the date of the change it comes from, and *)
(* a link only if the object has a parent.                                 *)
(***************************************************************************)
EXTENDS Replicator, FiniteSetTheorems, TLAPS

-----------------------------------------------------------------------------
(* The inductive invariant                                                 *)

\* The users' changes are dated in their order, none of them in the future.
Clock ==
    /\ \A i \in DOMAIN editTime : editTime[i] <= now
    /\ \A i, j \in DOMAIN editTime : i <= j => editTime[i] <= editTime[j]

\* A state is dated by the change it comes from, a deleted one perhaps later.
DatedIn(state, dates, time) ==
    /\ state.edit \in DOMAIN dates
    /\ IF state.deleted THEN state.revised \in dates[state.edit] .. time
       ELSE state.revised = dates[state.edit]

\* A state of guid g that site s holds: a link it has is to an object that the
\* site has a record of.
Sound(s, g, state) ==
    /\ DatedIn(state, editTime, now)
    /\ state.linked => Parent[g] # NoGuid /\ repl[s][Parent[g]] # <<>>

RowsOK == \A s \in Site : \A g \in Guid :
    Stored(s, g) => repl[s][g] # <<>> /\ Sound(s, g, rows[s][g])

InstancesOK == \A s \in Site : \A o \in inst[s] : Sound(s, o.guid, o.state)

\* The nodes of a package that are objects, and what is sure of one.
Objects(nodes) == {nodes[i] : i \in {k \in DOMAIN nodes : ~nodes[k].purge}}
Carried(o) ==
    /\ DatedIn(o.state, editTime, now)
    /\ o.state.linked => Parent[o.guid] # NoGuid

PackagesOK ==
    /\ \A xml \in xmls : \A o \in Objects(xml) : Carried(o)
    /\ \A s \in Site : \A o \in Objects(queue[s]) : Carried(o)

ReplicaOK == TypeOK /\ Clock /\ RowsOK /\ InstancesOK /\ PackagesOK /\ GoneRecorded

-----------------------------------------------------------------------------
(* Types                                                                   *)

\* An UPDATE of repligard keeps the number of records and gives each the action.
LEMMA RecordedFacts ==
    ASSUME NEW log \in Seq(Action), NEW a \in Action
    PROVE  /\ Recorded(log, a) \in Seq(Action)
           /\ Len(Recorded(log, a)) = Len(log)
           /\ \A i \in 1 .. Len(log) : Recorded(log, a)[i] = a
<1>1. Recorded(log, a) = [i \in 1 .. Len(log) |-> a] /\ Len(log) \in Nat
  BY DEF Recorded
<1> QED BY <1>1

\* What a change of an object writes: its row and its records, and no others;
\* the newest record, if there is one, has the action.
LEMMA WriteFacts ==
    ASSUME TypeOK, NEW s \in Site, NEW g \in Guid, NEW state \in State \cup {Absent},
           NEW a \in Action, Write(s, g, state, a)
    PROVE  /\ rows' \in [Site -> [Guid -> State \cup {Absent}]]
           /\ repl' \in [Site -> [Guid -> Seq(Action)]]
           /\ rows'[s][g] = state
           /\ \A u \in Site : \A h \in Guid :
                <<u, h>> # <<s, g>> => rows'[u][h] = rows[u][h] /\ repl'[u][h] = repl[u][h]
           /\ \A u \in Site : \A h \in Guid : repl[u][h] # <<>> => repl'[u][h] # <<>>
           /\ a = "create" => repl'[s][g] # <<>>
           /\ repl'[s][g] # <<>> => repl'[s][g][Len(repl'[s][g])] = a
<1> DEFINE log == repl[s][g]
           log2 == IF a = "create" THEN Append(log, a) ELSE Recorded(log, a)
<1>1. log \in Seq(Action)
  BY DEF TypeOK
<1>2. /\ log2 \in Seq(Action)
      /\ log # <<>> => log2 # <<>>
      /\ a = "create" => log2 # <<>>
      /\ log2 # <<>> => log2[Len(log2)] = a
  <2>1. CASE a = "create"
    BY <1>1, <2>1
  <2>2. CASE a # "create"
    <3>1. Recorded(log, a) \in Seq(Action) /\ Len(Recorded(log, a)) = Len(log)
      BY <1>1, RecordedFacts
    <3>2. \A i \in 1 .. Len(log) : Recorded(log, a)[i] = a
      BY <1>1, RecordedFacts
    <3> HIDE DEF log
    <3> QED BY <1>1, <2>2, <3>1, <3>2
  <2> QED BY <2>1, <2>2
<1>3. repl' = [repl EXCEPT ![s][g] = log2] /\ rows' = [rows EXCEPT ![s][g] = state]
  BY DEF Write, Record
<1>4. rows \in [Site -> [Guid -> State \cup {Absent}]] /\ repl \in [Site -> [Guid -> Seq(Action)]]
  BY DEF TypeOK
<1> HIDE DEF log2
<1>5. repl'[s][g] = log2
  BY <1>3, <1>4
<1>6. repl' \in [Site -> [Guid -> Seq(Action)]]
  BY <1>2, <1>3, <1>4
<1>7. rows' \in [Site -> [Guid -> State \cup {Absent}]] /\ rows'[s][g] = state
  BY <1>3, <1>4
<1>8. \A u \in Site : \A h \in Guid :
          <<u, h>> # <<s, g>> => rows'[u][h] = rows[u][h] /\ repl'[u][h] = repl[u][h]
  BY <1>3, <1>4
<1>9. \A u \in Site : \A h \in Guid : repl[u][h] # <<>> => repl'[u][h] # <<>>
  BY <1>2, <1>5, <1>8 DEF log
<1> QED BY <1>2, <1>5, <1>6, <1>7, <1>8, <1>9

\* A change made now is the next one.
LEMMA EditFacts ==
    ASSUME TypeOK, NewEdit
    PROVE  /\ NextEdit \in Edit /\ NextEdit = Len(editTime) + 1
           /\ editTime' \in Seq(Time) /\ Len(editTime') = NextEdit /\ NextEdit <= MaxEdits
           /\ editTime'[NextEdit] = now
           /\ \A i \in DOMAIN editTime : editTime'[i] = editTime[i]
BY BoundAssumption DEF TypeOK, NewEdit, NextEdit, Edit

\* The states the actions make.
LEMMA StateFacts ==
    ASSUME now \in Time, NEW state \in State, NEW edit \in Edit
    PROVE  /\ Deleted(state, edit) \in State
           /\ [state EXCEPT !.edit = edit, !.revised = now] \in State
           /\ \A b \in BOOLEAN : [state EXCEPT !.linked = b] \in State
BY DEF Deleted, State

\* The node at the head of a queue, and what is behind it.
LEMMA QueueFacts ==
    ASSUME TypeOK, NEW s \in Site, queue[s] # <<>>
    PROVE  /\ Node1(s) \in Node /\ Tail(queue[s]) \in Seq(Node)
           /\ Objects(Tail(queue[s])) \subseteq Objects(queue[s])
           /\ ~Node1(s).purge => Node1(s) \in Objects(queue[s])
<1> DEFINE q == queue[s]
<1>1. q \in Seq(Node) /\ q # <<>>
  BY DEF TypeOK
<1>2. /\ Len(q) \in Nat \ {0} /\ q[1] \in Node /\ DOMAIN q = 1 .. Len(q) /\ Head(q) = q[1]
      /\ Tail(q) \in Seq(Node) /\ DOMAIN Tail(q) = 1 .. (Len(q) - 1)
      /\ \A i \in 1 .. (Len(q) - 1) : Tail(q)[i] = q[i + 1] /\ i + 1 \in 1 .. Len(q)
  <2> HIDE DEF q
  <2> QED BY <1>1
<1> HIDE DEF q
<1>3. Objects(Tail(q)) \subseteq Objects(q)
  BY <1>2 DEF Objects
<1>4. ~Head(q).purge => Head(q) \in Objects(q)
  BY <1>2 DEF Objects
<1> QED BY <1>2, <1>3, <1>4 DEF q, Node1

\* The rest of a package that is being imported.
LEMMA ImportedFacts ==
    ASSUME TypeOK, NEW s \in Site, NEW nodes \in Seq(Node), Imported(s, nodes)
    PROVE  /\ queue' \in [Site -> Seq(Node)] /\ forced' \in [Site -> BOOLEAN]
           /\ queue'[s] = nodes
           /\ \A u \in Site \ {s} : queue'[u] = queue[u]
BY DEF TypeOK, Imported

\* A node of an object has a guid and a state.
LEMMA ObjectNode ==
    ASSUME NEW o \in Node, ~o.purge
    PROVE  o.guid \in Guid /\ o.state \in State
BY DEF Node

\* What is put into a package: nodes.
LEMMA SentFacts ==
    ASSUME TypeOK, NEW xml \in Seq(Node), Send(xml)
    PROVE  xmls' \in SUBSET Seq(Node) /\ xmls' = xmls \cup {xml}
BY DEF TypeOK, Send

\* The node an instance is exported as.
LEMMA NodeOfFacts ==
    ASSUME TypeOK, NEW s \in Site, NEW o \in inst[s]
    PROVE  /\ o.guid \in Guid /\ o.state \in State
           /\ NodeOf(s, o) \in Node /\ ~NodeOf(s, o).purge
           /\ NodeOf(s, o).guid = o.guid
           /\ \E b \in BOOLEAN : /\ NodeOf(s, o).state = [o.state EXCEPT !.linked = b]
                                 /\ b => o.state.linked
<1>1. o \in Instance
  BY DEF TypeOK
<1>2. o.guid \in Guid /\ o.state \in State
  BY <1>1 DEF Instance
<1> DEFINE b == o.state.linked /\ Live(s, Parent[o.guid])
<1>3. b \in BOOLEAN /\ (b => o.state.linked)
  BY <1>2 DEF State
<1>4. NodeOf(s, o) = [guid |-> o.guid, purge |-> FALSE,
                      state |-> [o.state EXCEPT !.linked = b]]
  BY DEF NodeOf
<1> DEFINE state == [o.state EXCEPT !.linked = b]
<1> HIDE DEF b
<1>5. state \in State
  BY <1>2, <1>3 DEF State
<1> HIDE DEF state
<1>6. NodeOf(s, o) \in [guid : Guid, purge : {FALSE}, state : State]
  BY <1>2, <1>4, <1>5 DEF state
<1>7. ~NodeOf(s, o).purge /\ NodeOf(s, o).guid = o.guid /\ NodeOf(s, o).state = state
  BY <1>4 DEF state
<1>8. NodeOf(s, o) \in Node
  BY <1>6 DEF Node
<1> QED BY <1>2, <1>3, <1>7, <1>8 DEF state

\* An import that stores something stores a state, and says how.
LEMMA OutcomeFacts ==
    ASSUME TypeOK, NEW s \in Site, NEW node \in Node, ~node.purge
    PROVE  LET outcome == Outcome(s, node) IN
           /\ outcome \in {"missed_dependence", "create", "imported", "delete", "update"}
           /\ outcome = "create" => ~Stored(s, node.guid)
           /\ outcome \in {"update", "delete"} => Stored(s, node.guid)
           /\ outcome \in {"create", "update", "delete"} =>
                  /\ RowAfter(s, node, outcome) \in State
                  /\ outcome = "delete" => RowAfter(s, node, outcome) =
                         Deleted(rows[s][node.guid], node.state.edit)
                  /\ outcome # "delete" => \E b \in BOOLEAN :
                         /\ RowAfter(s, node, outcome) = [node.state EXCEPT !.linked = b]
                         /\ b => node.state.linked /\ Resolved(s, node)
<1> DEFINE outcome == Outcome(s, node)
<1>1. node.guid \in Guid /\ node.state \in State
  BY ObjectNode
<1>2. /\ outcome \in {"missed_dependence", "create", "imported", "delete", "update"}
      /\ outcome = "create" => ~Stored(s, node.guid)
      /\ outcome \in {"update", "delete"} => Stored(s, node.guid)
  BY DEF Outcome
<1> HIDE DEF outcome
<1>3. CASE outcome = "delete"
  <2>1. rows[s][node.guid] \in State
    BY <1>1, <1>2, <1>3 DEF TypeOK, Stored
  <2>2. node.state.edit \in Edit /\ now \in Time
    BY <1>1 DEF State, TypeOK
  <2> QED BY <1>2, <1>3, <2>1, <2>2, StateFacts DEF RowAfter, outcome
<1>4. CASE outcome # "delete"
  <2> DEFINE b == node.state.linked /\ Resolved(s, node)
  <2>1. b \in BOOLEAN
    BY <1>1 DEF State
  <2>2. RowAfter(s, node, outcome) = [node.state EXCEPT !.linked = b]
    BY <1>4 DEF RowAfter
  <2>3. [node.state EXCEPT !.linked = b] \in State
    BY <1>1, <2>1 DEF State
  <2> QED BY <1>2, <1>4, <2>1, <2>2, <2>3 DEF outcome
<1> QED BY <1>3, <1>4

\* The nodes a purge is exported as.
LEMMA PurgeNodes ==
    ASSUME NEW s \in Site, NEW n, n = Cardinality(Purges(s)),
           NEW order \in [1 .. n -> Purges(s)]
    PROVE  LET xml == [i \in 1 .. n |-> [guid |-> order[i][1], purge |-> TRUE]] IN
           xml \in Seq(Node) /\ Objects(xml) = {}
<1> DEFINE xml == [i \in 1 .. n |-> [guid |-> order[i][1], purge |-> TRUE]]
<1>0. n \in Nat
  <2>1. IsFiniteSet(1 .. MaxRecords)
    BY FS_Interval, BoundAssumption
  <2>2. IsFiniteSet(Guid \X (1 .. MaxRecords))
    BY <2>1, FS_Product, GuidAssumption
  <2>3. Purges(s) \subseteq Guid \X (1 .. MaxRecords)
    BY DEF Purges
  <2> QED BY <2>2, <2>3, FS_Subset, FS_CardinalityType
<1>1. \A i \in 1 .. n : order[i][1] \in Guid
  BY DEF Purges
<1>2. \A i \in 1 .. n : xml[i] \in Node /\ xml[i].purge
  BY <1>1 DEF Node
<1>3. xml \in [1 .. n -> Node]
  BY <1>2
<1>4. Objects(xml) = {}
  BY <1>2, DOMAIN xml = 1 .. n DEF Objects
<1>5. xml \in Seq(Node)
  BY <1>0, <1>3
<1> QED BY <1>4, <1>5

\* The initial state has its types.
LEMMA InitTypes == Init => TypeOK
<1> SUFFICES ASSUME Init PROVE TypeOK
  OBVIOUS
<1>1. <<>> \in Seq(Action) /\ <<>> \in Seq(Node) /\ <<>> \in Seq(Time) /\ Len(<<>>) = 0
  OBVIOUS
<1> QED BY <1>1, BoundAssumption DEF Init, TypeOK, Time

\* So has every state that follows.
LEMMA NextTypes == TypeOK /\ [Next]_vars => TypeOK'
<1> SUFFICES ASSUME TypeOK, [Next]_vars PROVE TypeOK'
  OBVIOUS
<1>0. now \in Time
  BY DEF TypeOK
<1>1. CASE Tick
  BY <1>1, BoundAssumption DEF Tick, TypeOK, Time
<1>2. ASSUME NEW s \in Site, NEW g \in Guid, Load(s, g) PROVE TypeOK'
  <2>1. rows[s][g] \in State
    BY <1>2 DEF Load, Stored, TypeOK
  <2>2. [guid |-> g, state |-> rows[s][g]] \in Instance
    BY <2>1 DEF Instance
  <2> QED BY <1>2, <2>2 DEF Load, TypeOK
<1>3. ASSUME NEW s \in Site, NEW g \in Guid, Create(s, g) PROVE TypeOK'
  <2> DEFINE state == [edit |-> NextEdit, revised |-> now, deleted |-> FALSE,
                       linked |-> Parent[g] # NoGuid]
  <2>1. NewEdit /\ Write(s, g, state, "create")
    BY <1>3 DEF Create
  <2>2. NextEdit \in Edit /\ editTime' \in Seq(Time) /\ Len(editTime') <= MaxEdits
    BY <2>1, EditFacts
  <2>3. state \in State
    BY <1>0, <2>2 DEF State
  <2> HIDE DEF state
  <2>4. /\ rows' \in [Site -> [Guid -> State \cup {Absent}]]
        /\ repl' \in [Site -> [Guid -> Seq(Action)]]
    BY <2>1, <2>3, WriteFacts DEF Action
  <2>5. [guid |-> g, state |-> state] \in Instance
    BY <2>3 DEF Instance
  <2>6. inst' = [inst EXCEPT ![s] = {[guid |-> g, state |-> state]}]
        /\ UNCHANGED <<now, xmls, queue, forced>>
    BY <1>3 DEF Create, state
  <2> QED BY <2>2, <2>4, <2>5, <2>6 DEF TypeOK
<1>4. ASSUME NEW s \in Site, Update(s) PROVE TypeOK'
  <2>1. PICK o \in inst[s] :
            LET state == [o.state EXCEPT !.edit = NextEdit, !.revised = now] IN
            /\ NewEdit /\ Write(s, o.guid, state, "update")
            /\ inst' = [inst EXCEPT ![s] = {[o EXCEPT !.state = state]}]
            /\ UNCHANGED <<now, xmls, queue, forced>>
    BY <1>4 DEF Update
  <2> DEFINE state == [o.state EXCEPT !.edit = NextEdit, !.revised = now]
  <2>2. NextEdit \in Edit /\ editTime' \in Seq(Time) /\ Len(editTime') <= MaxEdits
    BY <2>1, EditFacts
  <2>3. o.guid \in Guid /\ o.state \in State /\ o \in Instance
    BY NodeOfFacts DEF TypeOK
  <2>4. state \in State
    BY <1>0, <2>2, <2>3, StateFacts
  <2> HIDE DEF state
  <2>5. /\ rows' \in [Site -> [Guid -> State \cup {Absent}]]
        /\ repl' \in [Site -> [Guid -> Seq(Action)]]
    BY <2>1, <2>3, <2>4, WriteFacts DEF Action, state
  <2>6. [o EXCEPT !.state = state] \in Instance
    BY <2>3, <2>4 DEF Instance
  <2> QED BY <2>1, <2>2, <2>5, <2>6 DEF TypeOK, state
<1>5. ASSUME NEW s \in Site, Delete(s) PROVE TypeOK'
  <2>1. PICK o \in inst[s] :
            /\ NewEdit /\ Stored(s, o.guid)
            /\ Write(s, o.guid, Deleted(rows[s][o.guid], NextEdit), "delete")
            /\ inst' = [inst EXCEPT ![s] = {[o EXCEPT !.state = Deleted(o.state, NextEdit)]}]
            /\ UNCHANGED <<now, xmls, queue, forced>>
    <3>1. \A o : [o EXCEPT !.state = Deleted(@, NextEdit)] =
                     [o EXCEPT !.state = Deleted(o.state, NextEdit)]
      OBVIOUS
    <3> QED BY <1>5, <3>1 DEF Delete
  <2>2. NextEdit \in Edit /\ editTime' \in Seq(Time) /\ Len(editTime') <= MaxEdits
    BY <2>1, EditFacts
  <2>3. o.guid \in Guid /\ o.state \in State /\ o \in Instance
    BY NodeOfFacts DEF TypeOK
  <2>4. rows[s][o.guid] \in State
    BY <2>1, <2>3 DEF TypeOK, Stored
  <2>5. Deleted(rows[s][o.guid], NextEdit) \in State /\ Deleted(o.state, NextEdit) \in State
    BY <1>0, <2>2, <2>3, <2>4, StateFacts
  <2>6. /\ rows' \in [Site -> [Guid -> State \cup {Absent}]]
        /\ repl' \in [Site -> [Guid -> Seq(Action)]]
    BY <2>1, <2>3, <2>5, WriteFacts DEF Action
  <2>7. [o EXCEPT !.state = Deleted(o.state, NextEdit)] \in Instance
    BY <2>3, <2>5 DEF Instance
  <2> QED BY <2>1, <2>2, <2>6, <2>7 DEF TypeOK
<1>6. ASSUME NEW s \in Site, DeletePurged(s) PROVE TypeOK'
  <2>1. PICK o \in inst[s] : /\ ~Stored(s, o.guid) /\ Record(s, o.guid, "delete")
                             /\ inst' = [inst EXCEPT ![s] = {}]
                             /\ UNCHANGED <<now, rows, xmls, queue, forced, editTime>>
    BY <1>6 DEF DeletePurged
  <2>2. Write(s, o.guid, rows[s][o.guid], "delete") /\ o.guid \in Guid
    BY <2>1, NodeOfFacts DEF Write, TypeOK
  <2>3. repl' \in [Site -> [Guid -> Seq(Action)]]
    <3>1. rows[s][o.guid] \in State \cup {Absent}
      BY <2>2 DEF TypeOK
    <3> QED BY <2>2, <3>1, WriteFacts DEF Action
  <2> QED BY <2>1, <2>3 DEF TypeOK
<1>7. ASSUME NEW s \in Site, Purge(s) PROVE TypeOK'
  <2>1. PICK o \in inst[s] : /\ NewEdit /\ Write(s, o.guid, Absent, "purge")
                             /\ inst' = [inst EXCEPT ![s] = {}]
                             /\ UNCHANGED <<now, xmls, queue, forced>>
    BY <1>7 DEF Purge
  <2>2. editTime' \in Seq(Time) /\ Len(editTime') <= MaxEdits /\ o.guid \in Guid
    BY <2>1, EditFacts, NodeOfFacts
  <2>3. /\ rows' \in [Site -> [Guid -> State \cup {Absent}]]
        /\ repl' \in [Site -> [Guid -> Seq(Action)]]
    BY <2>1, <2>2, WriteFacts DEF Action
  <2> QED BY <2>1, <2>2, <2>3 DEF TypeOK
<1>8. ASSUME NEW s \in Site, Serialize(s) PROVE TypeOK'
  <2>1. PICK o \in inst[s] : /\ Send(<<NodeOf(s, o)>>)
                             /\ UNCHANGED <<now, rows, repl, inst, queue, forced, editTime>>
    BY <1>8 DEF Serialize
  <2>2. <<NodeOf(s, o)>> \in Seq(Node)
    BY NodeOfFacts
  <2> QED BY <2>1, <2>2, SentFacts DEF TypeOK
<1>9. ASSUME NEW s \in Site, Export(s) PROVE TypeOK'
  <2>1. PICK o \in inst[s] : /\ Write(s, o.guid, o.state, "update")
                             /\ UNCHANGED <<now, inst, xmls, queue, forced, editTime>>
    BY <1>9 DEF Export
  <2>2. /\ rows' \in [Site -> [Guid -> State \cup {Absent}]]
        /\ repl' \in [Site -> [Guid -> Seq(Action)]]
    BY <2>1, NodeOfFacts, WriteFacts DEF Action
  <2> QED BY <2>1, <2>2 DEF TypeOK
<1>10. ASSUME NEW s \in Site, ExportPurged(s) PROVE TypeOK'
  <2> DEFINE n == Cardinality(Purges(s))
  <2>1. PICK order \in [1 .. n -> Purges(s)] :
            /\ n > 0 /\ \A r \in Purges(s) : \E i \in 1 .. n : order[i] = r
            /\ Send([i \in 1 .. n |-> [guid |-> order[i][1], purge |-> TRUE]])
            /\ UNCHANGED <<now, rows, repl, inst, queue, forced, editTime>>
    BY <1>10 DEF ExportPurged
  <2>2. [i \in 1 .. n |-> [guid |-> order[i][1], purge |-> TRUE]] \in Seq(Node)
    BY <2>1, PurgeNodes
  <2> QED BY <2>1, <2>2, SentFacts DEF TypeOK
<1>11. ASSUME NEW s \in Site, NEW xml \in xmls, NEW force \in Forces, Receive(s, xml, force)
       PROVE  TypeOK'
  <2>1. xml \in Seq(Node) /\ force \in BOOLEAN
    <3>1. xmls \subseteq Seq(Node)
      BY DEF TypeOK
    <3>2. Forces \subseteq BOOLEAN
      BY BoundAssumption
    <3> QED BY <3>1, <3>2
  <2> QED BY <1>11, <2>1 DEF Receive, TypeOK
<1>12. ASSUME NEW s \in Site, ImportObject(s) PROVE TypeOK'
  <2> DEFINE node == Node1(s)
             outcome == Outcome(s, node)
  <2>1. /\ queue[s] # <<>> /\ ~node.purge
        /\ IF outcome \in {"create", "update", "delete"}
           THEN Write(s, node.guid, RowAfter(s, node, outcome), outcome)
           ELSE UNCHANGED <<rows, repl>>
        /\ Imported(s, Tail(queue[s])) /\ UNCHANGED <<now, inst, xmls, editTime>>
    BY <1>12 DEF ImportObject
  <2>2. node \in Node /\ Tail(queue[s]) \in Seq(Node)
    BY <2>1, QueueFacts
  <2>3. queue' \in [Site -> Seq(Node)] /\ forced' \in [Site -> BOOLEAN]
    BY <2>1, <2>2, ImportedFacts
  <2>4. /\ rows' \in [Site -> [Guid -> State \cup {Absent}]]
        /\ repl' \in [Site -> [Guid -> Seq(Action)]]
    <3>1. CASE outcome \in {"create", "update", "delete"}
      <4>1. RowAfter(s, node, outcome) \in State /\ node.guid \in Guid
        BY <2>1, <2>2, <3>1, OutcomeFacts, ObjectNode
      <4>2. outcome \in Action /\ Write(s, node.guid, RowAfter(s, node, outcome), outcome)
        BY <2>1, <3>1 DEF Action
      <4> HIDE DEF outcome, node
      <4> QED BY <4>1, <4>2, WriteFacts
    <3>2. CASE outcome \notin {"create", "update", "delete"}
      BY <2>1, <3>2 DEF TypeOK
    <3> QED BY <3>1, <3>2
  <2> HIDE DEF outcome, node
  <2> QED BY <2>1, <2>3, <2>4 DEF TypeOK
<1>13. ASSUME NEW s \in Site, ImportPurge(s) PROVE TypeOK'
  <2>1. /\ queue[s] # <<>> /\ Write(s, Node1(s).guid, Absent, "purge")
        /\ Imported(s, Tail(queue[s])) /\ UNCHANGED <<now, inst, xmls, editTime>>
    BY <1>13 DEF ImportPurge
  <2>2. Node1(s).guid \in Guid /\ Tail(queue[s]) \in Seq(Node)
    BY <2>1, QueueFacts DEF Node
  <2>3. queue' \in [Site -> Seq(Node)] /\ forced' \in [Site -> BOOLEAN]
    BY <2>1, <2>2, ImportedFacts
  <2>4. /\ rows' \in [Site -> [Guid -> State \cup {Absent}]]
        /\ repl' \in [Site -> [Guid -> Seq(Action)]]
    BY <2>1, <2>2, WriteFacts DEF Action
  <2> QED BY <2>1, <2>3, <2>4 DEF TypeOK
<1>14. ASSUME NEW s \in Site, SkipPurge(s) PROVE TypeOK'
  <2>1. queue' \in [Site -> Seq(Node)] /\ forced' \in [Site -> BOOLEAN]
    BY <1>14, QueueFacts, ImportedFacts DEF SkipPurge
  <2> QED BY <1>14, <2>1 DEF SkipPurge, TypeOK
<1>15. ASSUME NEW s \in Site, AbortPurge(s) PROVE TypeOK'
  <2>1. queue' \in [Site -> Seq(Node)] /\ forced' \in [Site -> BOOLEAN]
    <3>1. <<>> \in Seq(Node)
      OBVIOUS
    <3> QED BY <1>15, <3>1, ImportedFacts DEF AbortPurge
  <2> QED BY <1>15, <2>1 DEF AbortPurge, TypeOK
<1>16. CASE UNCHANGED vars
  BY <1>16 DEF vars, TypeOK
<1>17. CASE \E s \in Site :
           \/ \E g \in Guid : Load(s, g) \/ Create(s, g)
           \/ Update(s) \/ Delete(s) \/ DeletePurged(s) \/ Purge(s)
           \/ Serialize(s) \/ Export(s) \/ ExportPurged(s)
           \/ \E xml \in xmls, force \in Forces : Receive(s, xml, force)
           \/ ImportObject(s)
           \/ ImportPurge(s) \/ SkipPurge(s) \/ AbortPurge(s)
  BY <1>2, <1>3, <1>4, <1>5, <1>6, <1>7, <1>8, <1>9, <1>10, <1>11, <1>12,
     <1>13, <1>14, <1>15, <1>17
<1> QED BY <1>1, <1>16, <1>17 DEF Next

-----------------------------------------------------------------------------
(* Dates                                                                   *)

\* Time goes on, and changes are only added.
LEMMA TimeGoesOn ==
    ASSUME TypeOK, [Next]_vars
    PROVE  /\ now' >= now
           /\ editTime' = editTime \/ (NewEdit /\ now' = now)
<1>1. now \in Nat
  BY BoundAssumption DEF TypeOK, Time
<1>2. CASE Tick
  BY <1>1, <1>2 DEF Tick
<1>3. ASSUME NEW s \in Site, NEW g \in Guid, Load(s, g) \/ Create(s, g)
      PROVE  now' = now /\ (editTime' = editTime \/ NewEdit)
  BY <1>3 DEF Load, Create
<1>4. ASSUME NEW s \in Site,
             \/ Update(s) \/ Delete(s) \/ DeletePurged(s) \/ Purge(s)
             \/ Serialize(s) \/ Export(s) \/ ExportPurged(s)
      PROVE  now' = now /\ (editTime' = editTime \/ NewEdit)
  BY <1>4 DEF Update, Delete, DeletePurged, Purge, Serialize, Export, ExportPurged
<1>5. ASSUME NEW s \in Site, NEW xml \in xmls, NEW force \in Forces, Receive(s, xml, force)
      PROVE  now' = now /\ editTime' = editTime
  BY <1>5 DEF Receive
<1>6. ASSUME NEW s \in Site,
             ImportObject(s) \/ ImportPurge(s) \/ SkipPurge(s) \/ AbortPurge(s)
      PROVE  now' = now /\ editTime' = editTime
  BY <1>6 DEF ImportObject, ImportPurge, SkipPurge, AbortPurge
<1>7. CASE UNCHANGED vars
  BY <1>1, <1>7 DEF vars
<1>8. ASSUME now' = now PROVE now' >= now
  BY <1>1, <1>8
<1> QED BY <1>2, <1>3, <1>4, <1>5, <1>6, <1>7, <1>8 DEF Next

LEMMA InitClock == Init => Clock
BY DEF Init, Clock

LEMMA NextClock == TypeOK /\ Clock /\ [Next]_vars => Clock'
<1> SUFFICES ASSUME TypeOK, Clock, [Next]_vars PROVE Clock'
  OBVIOUS
<1>1. /\ now' >= now /\ (editTime' = editTime \/ (NewEdit /\ now' = now))
      /\ now \in Nat /\ now' \in Nat /\ editTime \in Seq(Nat)
  <2>1. TypeOK'
    BY NextTypes
  <2> QED BY <2>1, TimeGoesOn, BoundAssumption DEF TypeOK, Time
<1>2. CASE editTime' = editTime
  BY <1>1, <1>2 DEF Clock
<1>3. CASE NewEdit /\ now' = now
  <2>1. editTime' = Append(editTime, now)
    BY <1>3 DEF NewEdit
  <2> QED BY <1>1, <1>3, <2>1 DEF Clock
<1> QED BY <1>1, <1>2, <1>3

\* A state stays dated.
LEMMA StaysDated ==
    ASSUME TypeOK, [Next]_vars, NEW state \in State, DatedIn(state, editTime, now)
    PROVE  DatedIn(state, editTime', now')
<1>1. now \in Nat /\ now' \in Nat /\ editTime \in Seq(Nat) /\ state.revised \in Nat
  <2>1. TypeOK'
    BY NextTypes
  <2> QED BY <2>1, BoundAssumption DEF TypeOK, Time, State
<1>2. now' >= now /\ (editTime' = editTime \/ editTime' = Append(editTime, now))
  BY TimeGoesOn DEF NewEdit
<1>3. /\ state.edit \in DOMAIN editTime' /\ editTime'[state.edit] = editTime[state.edit]
      /\ editTime[state.edit] \in Nat
  <2>1. state.edit \in DOMAIN editTime
    BY DEF DatedIn
  <2> QED BY <1>1, <1>2, <2>1
<1>4. CASE state.deleted
  <2>1. state.revised \in editTime[state.edit] .. now
    BY <1>4 DEF DatedIn
  <2>2. state.revised \in editTime'[state.edit] .. now'
    BY <1>1, <1>2, <1>3, <2>1
  <2> QED BY <1>3, <1>4, <2>2 DEF DatedIn
<1>5. CASE ~state.deleted
  BY <1>3, <1>5 DEF DatedIn
<1> QED BY <1>4, <1>5

\* What is dated now by the change made now is dated.
LEMMA NewlyDated ==
    ASSUME TypeOK, NewEdit, now' = now, NEW state \in State,
           state.edit = NextEdit, state.revised = now
    PROVE  DatedIn(state, editTime', now')
<1>1. now \in Nat
  BY BoundAssumption DEF TypeOK, Time
<1>2. NextEdit \in DOMAIN editTime' /\ editTime'[NextEdit] = now
  BY EditFacts DEF TypeOK, Edit
<1> QED BY <1>1, <1>2 DEF DatedIn

\* So is what is deleted now after a change of the past.
LEMMA DeletedDated ==
    ASSUME TypeOK, Clock, NEW state \in State, NEW old \in State, DatedIn(old, editTime, now)
    PROVE  DatedIn(Deleted(state, old.edit), editTime, now)
<1>1. now \in Nat /\ editTime \in Seq(Nat) /\ old.edit \in DOMAIN editTime
  BY BoundAssumption DEF TypeOK, Time, DatedIn
<1>2. editTime[old.edit] <= now /\ editTime[old.edit] \in Nat
  BY <1>1 DEF Clock
<1>3. /\ Deleted(state, old.edit).edit = old.edit /\ Deleted(state, old.edit).deleted
      /\ Deleted(state, old.edit).revised = now
  BY DEF Deleted, State
<1> QED BY <1>1, <1>2, <1>3 DEF DatedIn

\* A link makes no difference to a date.
LEMMA LinkUndated ==
    ASSUME NEW state \in State, NEW b, NEW dates, NEW time
    PROVE  DatedIn([state EXCEPT !.linked = b], dates, time) = DatedIn(state, dates, time)
BY DEF DatedIn, State

-----------------------------------------------------------------------------
(* Rows and records                                                        *)

\* A change of object g at site s that the code makes: a row of the object was
\* there, or is inserted with a record; the row it leaves is sound; and the
\* action recorded tells whether it leaves one.
Change(s, g, state, a) ==
    /\ Write(s, g, state, a)
    /\ Stored(s, g) \/ a = "create" \/ state = Absent
    /\ a = "purge" => state = Absent
    /\ a \in {"create", "update"} => state # Absent
    /\ state # Absent => /\ DatedIn(state, editTime', now')
                         /\ state.linked => Parent[g] # NoGuid /\ repl[s][Parent[g]] # <<>>

\* A record of an object is never taken away.
LEMMA ChangeKeepsRecords ==
    ASSUME TypeOK, NEW s \in Site, NEW g \in Guid, NEW state \in State \cup {Absent},
           NEW a \in Action, Change(s, g, state, a)
    PROVE  \A u \in Site : \A h \in Guid : repl[u][h] # <<>> => repl'[u][h] # <<>>
BY WriteFacts DEF Change

\* A link is to a guid.
LEMMA ParentFacts ==
    ASSUME NEW g \in Guid, Parent[g] # NoGuid
    PROVE  Parent[g] \in Guid
BY ParentAssumption

\* A sound state stays sound while records are only added.
LEMMA StaysSound ==
    ASSUME TypeOK, [Next]_vars, NEW s \in Site, NEW g \in Guid, NEW state \in State,
           Sound(s, g, state),
           \A u \in Site : \A h \in Guid : repl[u][h] # <<>> => repl'[u][h] # <<>>
    PROVE  /\ DatedIn(state, editTime', now')
           /\ state.linked => Parent[g] # NoGuid /\ repl'[s][Parent[g]] # <<>>
<1>1. DatedIn(state, editTime', now')
  BY StaysDated DEF Sound
<1>2. state.linked => Parent[g] # NoGuid /\ repl'[s][Parent[g]] # <<>>
  BY ParentFacts DEF Sound
<1> QED BY <1>1, <1>2

LEMMA ChangeRows ==
    ASSUME TypeOK, RowsOK, [Next]_vars, NEW s \in Site, NEW g \in Guid,
           NEW state \in State \cup {Absent}, NEW a \in Action, Change(s, g, state, a)
    PROVE  RowsOK'
<1> SUFFICES ASSUME NEW u \in Site, NEW h \in Guid, rows'[u][h] # Absent
             PROVE  repl'[u][h] # <<>> /\ Sound(u, h, rows[u][h])'
  BY DEF RowsOK, Stored
<1>1. \A v \in Site : \A k \in Guid : repl[v][k] # <<>> => repl'[v][k] # <<>>
  BY ChangeKeepsRecords
<1>2. CASE u = s /\ h = g
  <2>1. rows'[u][h] = state /\ (a = "create" => repl'[s][g] # <<>>)
    BY <1>2, WriteFacts DEF Change
  <2>2. DatedIn(state, editTime', now')
    BY <2>1 DEF Change
  <2>3. state.linked => Parent[g] # NoGuid /\ repl'[s][Parent[g]] # <<>>
    BY <1>1, <2>1, ParentFacts DEF Change
  <2>4. repl'[s][g] # <<>>
    BY <1>1, <2>1 DEF Change, RowsOK
  <2> QED BY <1>2, <2>1, <2>2, <2>3, <2>4 DEF Sound
<1>3. CASE <<u, h>> # <<s, g>>
  <2>1. rows'[u][h] = rows[u][h]
    <3>1. Write(s, g, state, a)
      BY DEF Change
    <3>2. \A v \in Site : \A k \in Guid : <<v, k>> # <<s, g>> => rows'[v][k] = rows[v][k]
      BY <3>1, WriteFacts
    <3> QED BY <1>3, <3>2
  <2>2. repl[u][h] # <<>> /\ Sound(u, h, rows[u][h]) /\ rows[u][h] \in State
    BY <2>1 DEF RowsOK, Stored, TypeOK
  <2>3. /\ DatedIn(rows[u][h], editTime', now')
        /\ rows[u][h].linked => Parent[h] # NoGuid /\ repl'[u][Parent[h]] # <<>>
    BY <1>1, <2>2, StaysSound
  <2> QED BY <1>1, <2>1, <2>2, <2>3 DEF Sound
<1> QED BY <1>2, <1>3

LEMMA ChangeRecorded ==
    ASSUME TypeOK, GoneRecorded, NEW s \in Site, NEW g \in Guid,
           NEW state \in State \cup {Absent}, NEW a \in Action, Change(s, g, state, a)
    PROVE  GoneRecorded'
<1> SUFFICES ASSUME NEW u \in Site, NEW h \in Guid, repl'[u][h] # <<>>
             PROVE  LET newest == repl'[u][h][Len(repl'[u][h])] IN
                    /\ newest = "purge" => rows'[u][h] = Absent
                    /\ newest \in {"create", "update"} => rows'[u][h] # Absent
  BY DEF GoneRecorded, Stored
<1>1. CASE u = s /\ h = g
  <2>1. rows'[u][h] = state /\ repl'[u][h][Len(repl'[u][h])] = a
    BY <1>1, WriteFacts DEF Change
  <2> QED BY <2>1 DEF Change
<1>2. CASE <<u, h>> # <<s, g>>
  <2>1. rows'[u][h] = rows[u][h] /\ repl'[u][h] = repl[u][h]
    BY <1>2, WriteFacts DEF Change
  <2> QED BY <2>1 DEF GoneRecorded, Stored
<1> QED BY <1>1, <1>2

\* Whether a guid has a row and what its records say is left as it is.
LEMMA NoChange ==
    ASSUME TypeOK, RowsOK, GoneRecorded, [Next]_vars, UNCHANGED <<rows, repl>>
    PROVE  RowsOK' /\ GoneRecorded'
<1>1. GoneRecorded'
  BY DEF GoneRecorded, Stored
<1>2. RowsOK'
  <2> SUFFICES ASSUME NEW u \in Site, NEW h \in Guid, rows[u][h] # Absent
               PROVE  repl[u][h] # <<>> /\ Sound(u, h, rows[u][h])'
    BY DEF RowsOK, Stored
  <2>1. repl[u][h] # <<>> /\ Sound(u, h, rows[u][h]) /\ rows[u][h] \in State
    BY DEF RowsOK, Stored, TypeOK
  <2>2. /\ DatedIn(rows[u][h], editTime', now')
        /\ rows[u][h].linked => Parent[h] # NoGuid /\ repl[u][Parent[h]] # <<>>
    BY <2>1, StaysDated DEF Sound
  <2> QED BY <2>1, <2>2 DEF Sound
<1> QED BY <1>1, <1>2

\* An object that is found has a record.
LEMMA ResolvedKnown ==
    ASSUME TypeOK, NEW s \in Site, NEW node \in Node, ~node.purge, Resolved(s, node),
           Parent[node.guid] # NoGuid
    PROVE  repl[s][Parent[node.guid]] # <<>>
<1>1. Parent[node.guid] \in Guid
  BY ObjectNode, ParentFacts
<1>2. Len(repl[s][Parent[node.guid]]) # 0
  BY DEF Resolved, Lookup
<1>3. Len(<<>>) = 0
  OBVIOUS
<1> QED BY <1>2, <1>3, Zenon

\* What each step does to the rows and the records: nothing, or one change.
LEMMA StepsChange ==
    ASSUME ReplicaOK, [Next]_vars
    PROVE  \/ UNCHANGED <<rows, repl>>
           \/ \E s \in Site, g \in Guid, state \in State \cup {Absent}, a \in Action :
                  Change(s, g, state, a)
<1> DEFINE Goal == \/ UNCHANGED <<rows, repl>>
                   \/ \E s \in Site, g \in Guid, state \in State \cup {Absent}, a \in Action :
                          Change(s, g, state, a)
<1> USE DEF ReplicaOK
<1>0. now \in Time /\ Action = {"create", "update", "delete", "purge"}
  BY DEF TypeOK, Action
<1>1. Tick => Goal
  BY DEF Tick
<1>2. ASSUME NEW s \in Site, NEW g \in Guid, Load(s, g) PROVE Goal
  BY <1>2 DEF Load
<1>3. ASSUME NEW s \in Site, NEW g \in Guid, Create(s, g) PROVE Goal
  <2> DEFINE state == [edit |-> NextEdit, revised |-> now, deleted |-> FALSE,
                       linked |-> Parent[g] # NoGuid]
  <2>1. NewEdit /\ Write(s, g, state, "create") /\ now' = now
        /\ (Parent[g] # NoGuid => Live(s, Parent[g]))
    BY <1>3 DEF Create
  <2>2. NextEdit \in Edit
    BY <2>1, EditFacts
  <2>3. state \in State
    BY <1>0, <2>2 DEF State
  <2>4. DatedIn(state, editTime', now')
    <3>1. state.edit = NextEdit /\ state.revised = now
      OBVIOUS
    <3> HIDE DEF state
    <3> QED BY <2>1, <2>3, <3>1, NewlyDated
  <2>5. state.linked => Parent[g] # NoGuid /\ repl[s][Parent[g]] # <<>>
    BY <2>1, ParentFacts DEF Live, RowsOK
  <2>6. state # Absent
    BY <2>3, AbsentAssumption
  <2> HIDE DEF state
  <2>7. Change(s, g, state, "create")
    BY <2>1, <2>4, <2>5, <2>6 DEF Change
  <2> QED BY <1>0, <2>3, <2>7
<1>4. ASSUME NEW s \in Site, Update(s) PROVE Goal
  <2>1. PICK o \in inst[s] :
            LET state == [o.state EXCEPT !.edit = NextEdit, !.revised = now] IN
            /\ NewEdit /\ Stored(s, o.guid) /\ Write(s, o.guid, state, "update") /\ now' = now
    BY <1>4 DEF Update
  <2> DEFINE state == [o.state EXCEPT !.edit = NextEdit, !.revised = now]
  <2>2. NextEdit \in Edit
    BY <2>1, EditFacts
  <2>3. o.guid \in Guid /\ o.state \in State
    BY NodeOfFacts
  <2>4. state \in State /\ state.edit = NextEdit /\ state.revised = now
        /\ state.linked = o.state.linked
    BY <1>0, <2>2, <2>3, StateFacts DEF State
  <2>5. Write(s, o.guid, state, "update")
    BY <2>1
  <2> HIDE DEF state
  <2>6. DatedIn(state, editTime', now')
    BY <2>1, <2>4, NewlyDated
  <2>7. state.linked => Parent[o.guid] # NoGuid /\ repl[s][Parent[o.guid]] # <<>>
    BY <2>4 DEF InstancesOK, Sound
  <2>8. Change(s, o.guid, state, "update")
    BY <2>1, <2>4, <2>5, <2>6, <2>7, AbsentAssumption DEF Change
  <2> QED BY <1>0, <2>3, <2>4, <2>8
<1>5. ASSUME NEW s \in Site, Delete(s) PROVE Goal
  <2>1. PICK o \in inst[s] :
            /\ NewEdit /\ Stored(s, o.guid) /\ now' = now
            /\ Write(s, o.guid, Deleted(rows[s][o.guid], NextEdit), "delete")
    BY <1>5 DEF Delete
  <2> DEFINE row == rows[s][o.guid]
             state == Deleted(row, NextEdit)
  <2>2. NextEdit \in Edit
    BY <2>1, EditFacts
  <2>3. o.guid \in Guid /\ row \in State
    BY <2>1, NodeOfFacts DEF TypeOK, Stored
  <2>4. state \in State /\ state.edit = NextEdit /\ state.revised = now
        /\ state.linked = row.linked
    BY <1>0, <2>2, <2>3, StateFacts DEF State, Deleted
  <2>5. row.linked => Parent[o.guid] # NoGuid /\ repl[s][Parent[o.guid]] # <<>>
    BY <2>1, <2>3 DEF RowsOK, Sound
  <2>6. Write(s, o.guid, state, "delete")
    BY <2>1
  <2> HIDE DEF state
  <2>7. DatedIn(state, editTime', now')
    BY <2>1, <2>4, NewlyDated
  <2>8. Change(s, o.guid, state, "delete")
    BY <2>1, <2>4, <2>5, <2>6, <2>7 DEF Change
  <2> QED BY <1>0, <2>3, <2>4, <2>8
<1>6. ASSUME NEW s \in Site, DeletePurged(s) PROVE Goal
  <2>1. PICK o \in inst[s] : /\ ~Stored(s, o.guid) /\ Record(s, o.guid, "delete")
                             /\ rows' = rows
    BY <1>6 DEF DeletePurged
  <2>2. o.guid \in Guid /\ rows[s][o.guid] = Absent
    BY <2>1, NodeOfFacts DEF Stored
  <2>3. rows' = [rows EXCEPT ![s][o.guid] = Absent]
    BY <2>1, <2>2 DEF TypeOK
  <2>4. Change(s, o.guid, Absent, "delete")
    BY <2>1, <2>3 DEF Change, Write
  <2> QED BY <1>0, <2>2, <2>4
<1>7. ASSUME NEW s \in Site, Purge(s) PROVE Goal
  <2>1. PICK o \in inst[s] : Write(s, o.guid, Absent, "purge")
    BY <1>7 DEF Purge
  <2>2. Change(s, o.guid, Absent, "purge") /\ o.guid \in Guid
    BY <2>1, NodeOfFacts DEF Change
  <2> QED BY <1>0, <2>2
<1>8. ASSUME NEW s \in Site, Serialize(s) \/ ExportPurged(s) PROVE Goal
  BY <1>8 DEF Serialize, ExportPurged
<1>9. ASSUME NEW s \in Site, Export(s) PROVE Goal
  <2>1. PICK o \in inst[s] : /\ Stored(s, o.guid) /\ Write(s, o.guid, o.state, "update")
                             /\ UNCHANGED <<now, editTime>>
    BY <1>9 DEF Export
  <2>2. o.guid \in Guid /\ o.state \in State /\ Sound(s, o.guid, o.state)
    BY NodeOfFacts DEF InstancesOK
  <2>3. DatedIn(o.state, editTime', now')
    BY <2>1, <2>2 DEF Sound
  <2>4. Change(s, o.guid, o.state, "update")
    BY <2>1, <2>2, <2>3, AbsentAssumption DEF Change, Sound
  <2> QED BY <1>0, <2>2, <2>4
<1>10. ASSUME NEW s \in Site, NEW xml \in xmls, NEW force \in Forces, Receive(s, xml, force)
       PROVE  Goal
  BY <1>10 DEF Receive
<1>11. ASSUME NEW s \in Site, ImportObject(s) PROVE Goal
  <2> DEFINE node == Node1(s)
             outcome == Outcome(s, node)
             state == RowAfter(s, node, outcome)
  <2>1. /\ queue[s] # <<>> /\ ~node.purge /\ UNCHANGED <<now, editTime>>
        /\ IF outcome \in {"create", "update", "delete"}
           THEN Write(s, node.guid, state, outcome)
           ELSE UNCHANGED <<rows, repl>>
    BY <1>11 DEF ImportObject
  <2> SUFFICES ASSUME outcome \in {"create", "update", "delete"} PROVE Goal
    BY <2>1
  <2>2. node \in Node /\ node \in Objects(queue[s])
    BY <2>1, QueueFacts
  <2>3. node.guid \in Guid /\ node.state \in State
    BY <2>1, <2>2, ObjectNode
  <2>4. /\ DatedIn(node.state, editTime, now)
        /\ node.state.linked => Parent[node.guid] # NoGuid
    BY <2>2 DEF PackagesOK, Carried
  <2>5. state \in State /\ (outcome # "create" => Stored(s, node.guid))
    BY <2>1, <2>2, OutcomeFacts
  <2>6. /\ DatedIn(state, editTime, now)
        /\ state.linked => Parent[node.guid] # NoGuid /\ repl[s][Parent[node.guid]] # <<>>
    <3>1. CASE outcome = "delete"
      <4>1. state = Deleted(rows[s][node.guid], node.state.edit)
        BY <2>1, <2>2, <3>1, OutcomeFacts
      <4>2. rows[s][node.guid] \in State /\ Sound(s, node.guid, rows[s][node.guid])
        BY <2>3, <2>5, <3>1 DEF RowsOK, Stored, TypeOK
      <4>3. state.linked = rows[s][node.guid].linked
        BY <4>1, <4>2 DEF Deleted, State
      <4> HIDE DEF state, outcome, node
      <4> QED BY <2>3, <2>4, <4>1, <4>2, <4>3, DeletedDated DEF Sound
    <3>2. CASE outcome # "delete"
      <4>1. PICK b \in BOOLEAN : /\ state = [node.state EXCEPT !.linked = b]
                                 /\ b => node.state.linked /\ Resolved(s, node)
        BY <2>1, <2>2, <3>2, OutcomeFacts
      <4>2. state.linked = b
        BY <2>3, <4>1 DEF State
      <4> HIDE DEF state, outcome, node
      <4> QED BY <2>1, <2>2, <2>3, <2>4, <4>1, <4>2, LinkUndated, ResolvedKnown
    <3> QED BY <3>1, <3>2
  <2>7. Write(s, node.guid, state, outcome)
    BY <2>1
  <2> HIDE DEF state, outcome, node
  <2>8. DatedIn(state, editTime', now')
    BY <2>1, <2>6
  <2>9. Change(s, node.guid, state, outcome)
    BY <2>5, <2>6, <2>7, <2>8, AbsentAssumption DEF Change
  <2> QED BY <1>0, <2>3, <2>5, <2>9
<1>12. ASSUME NEW s \in Site, ImportPurge(s) PROVE Goal
  <2>1. queue[s] # <<>> /\ Write(s, Node1(s).guid, Absent, "purge")
    BY <1>12 DEF ImportPurge
  <2>2. Change(s, Node1(s).guid, Absent, "purge") /\ Node1(s).guid \in Guid
    BY <2>1, QueueFacts DEF Change, Node
  <2> QED BY <1>0, <2>2
<1>13. ASSUME NEW s \in Site, SkipPurge(s) \/ AbortPurge(s) PROVE Goal
  BY <1>13 DEF SkipPurge, AbortPurge
<1>14. UNCHANGED vars => Goal
  BY DEF vars
<1> HIDE DEF Goal
<1>15. ASSUME NEW s \in Site,
              \/ \E g \in Guid : Load(s, g) \/ Create(s, g)
              \/ Update(s) \/ Delete(s) \/ DeletePurged(s) \/ Purge(s)
              \/ Serialize(s) \/ Export(s) \/ ExportPurged(s)
              \/ \E xml \in xmls, force \in Forces : Receive(s, xml, force)
              \/ ImportObject(s)
              \/ ImportPurge(s) \/ SkipPurge(s) \/ AbortPurge(s)
       PROVE  Goal
  BY ONLY <1>2, <1>3, <1>4, <1>5, <1>6, <1>7, <1>8, <1>9, <1>10, <1>11, <1>12, <1>13, <1>15
<1>16. Goal
  BY <1>1, <1>14, <1>15 DEF Next
<1> QED BY <1>16 DEF Goal

\* So no object loses its records.
LEMMA RecordsKept ==
    ASSUME ReplicaOK, [Next]_vars
    PROVE  \A u \in Site : \A h \in Guid : repl[u][h] # <<>> => repl'[u][h] # <<>>
BY StepsChange, ChangeKeepsRecords DEF ReplicaOK

LEMMA NextRows ==
    ASSUME ReplicaOK, [Next]_vars
    PROVE  RowsOK' /\ GoneRecorded'
BY StepsChange, ChangeRows, ChangeRecorded, NoChange DEF ReplicaOK

-----------------------------------------------------------------------------
(* Instances                                                               *)

\* Sound in the state that follows.
SoundNext(s, g, state) ==
    /\ DatedIn(state, editTime', now')
    /\ state.linked => Parent[g] # NoGuid /\ repl'[s][Parent[g]] # <<>>

\* What a row holds then is sound then.
LEMMA RowSoundNext ==
    ASSUME RowsOK', NEW s \in Site, NEW g \in Guid, rows'[s][g] # Absent
    PROVE  SoundNext(s, g, rows'[s][g])
BY DEF RowsOK, Stored, Sound, SoundNext

\* An instance is loaded from a row, or is what a row was written from; a
\* deleted one keeps its own link.
LEMMA NextInstances ==
    ASSUME ReplicaOK, [Next]_vars
    PROVE  InstancesOK'
<1>0. TypeOK /\ TypeOK' /\ InstancesOK /\ RowsOK /\ RowsOK'
  BY NextTypes, NextRows DEF ReplicaOK
<1>1. \A s \in Site : \A o \in inst[s] : SoundNext(s, o.guid, o.state)
  <2> SUFFICES ASSUME NEW s \in Site, NEW o \in inst[s] PROVE SoundNext(s, o.guid, o.state)
    OBVIOUS
  <2>1. o.guid \in Guid /\ o.state \in State /\ Sound(s, o.guid, o.state)
    BY <1>0, NodeOfFacts DEF InstancesOK
  <2> QED BY <1>0, <2>1, StaysSound, RecordsKept DEF SoundNext
<1>2. ASSUME NEW s \in Site, \A u \in Site \ {s} : inst'[u] = inst[u],
             \A o \in inst'[s] : SoundNext(s, o.guid, o.state)
      PROVE  InstancesOK'
  BY <1>1, <1>2 DEF InstancesOK, Sound, SoundNext
<1>3. ASSUME UNCHANGED inst PROVE InstancesOK'
  BY <1>1, <1>3 DEF InstancesOK, Sound, SoundNext
<1>4. ASSUME NEW s \in Site, NEW g \in Guid, Load(s, g) PROVE InstancesOK'
  <2> DEFINE o == [guid |-> g, state |-> rows[s][g]]
  <2>1. inst' = [inst EXCEPT ![s] = {o}] /\ rows' = rows /\ Stored(s, g)
    BY <1>4 DEF Load
  <2>2. SoundNext(s, g, rows'[s][g])
    BY <1>0, <2>1, RowSoundNext DEF Stored
  <2>3. o.guid = g /\ o.state = rows'[s][g]
    BY <2>1
  <2> HIDE DEF o
  <2>4. SoundNext(s, o.guid, o.state)
    BY <2>2, <2>3
  <2>5. inst'[s] = {o} /\ \A u \in Site \ {s} : inst'[u] = inst[u]
    BY <1>0, <2>1 DEF TypeOK
  <2> QED BY <1>2, <2>4, <2>5
<1>5. ASSUME NEW s \in Site, NEW g \in Guid, Create(s, g) PROVE InstancesOK'
  <2> DEFINE state == [edit |-> NextEdit, revised |-> now, deleted |-> FALSE,
                       linked |-> Parent[g] # NoGuid]
             o == [guid |-> g, state |-> state]
  <2>1. inst' = [inst EXCEPT ![s] = {o}] /\ rows' = [rows EXCEPT ![s][g] = state]
    BY <1>5 DEF Create, Write
  <2>2. o.guid = g /\ o.state = rows'[s][g]
    BY <1>0, <2>1 DEF TypeOK
  <2>3. NextEdit \in Edit /\ now \in Time
    BY <1>0, <1>5, EditFacts DEF Create, TypeOK
  <2>4. state \in State /\ o.state = state
    BY <2>3 DEF State
  <2> HIDE DEF o, state
  <2>5. SoundNext(s, o.guid, o.state)
    BY <1>0, <2>2, <2>4, AbsentAssumption, RowSoundNext
  <2>6. inst'[s] = {o} /\ \A u \in Site \ {s} : inst'[u] = inst[u]
    BY <1>0, <2>1 DEF TypeOK
  <2> QED BY <1>2, <2>5, <2>6
<1>6. ASSUME NEW s \in Site, Update(s) PROVE InstancesOK'
  <2>1. PICK old \in inst[s] :
            LET state == [old.state EXCEPT !.edit = NextEdit, !.revised = now] IN
            /\ NewEdit /\ rows' = [rows EXCEPT ![s][old.guid] = state]
            /\ inst' = [inst EXCEPT ![s] = {[old EXCEPT !.state = state]}]
    BY <1>6 DEF Update, Write
  <2> DEFINE state == [old.state EXCEPT !.edit = NextEdit, !.revised = now]
             o == [old EXCEPT !.state = state]
  <2>2. old \in Instance /\ old.guid \in Guid /\ old.state \in State
    BY <1>0, NodeOfFacts DEF TypeOK
  <2>3. NextEdit \in Edit /\ now \in Time
    BY <1>0, <2>1, EditFacts DEF TypeOK
  <2>4. state \in State
    BY <2>2, <2>3, StateFacts
  <2>5. rows' = [rows EXCEPT ![s][old.guid] = state] /\ inst' = [inst EXCEPT ![s] = {o}]
    BY <2>1
  <2> HIDE DEF state
  <2>6. o.guid = old.guid /\ o.state = rows'[s][o.guid] /\ o.state = state
    BY <1>0, <2>2, <2>5 DEF TypeOK, Instance
  <2> HIDE DEF o
  <2>7. SoundNext(s, o.guid, o.state)
    BY <1>0, <2>2, <2>4, <2>6, AbsentAssumption, RowSoundNext
  <2>8. inst'[s] = {o} /\ \A u \in Site \ {s} : inst'[u] = inst[u]
    BY <1>0, <2>5 DEF TypeOK
  <2> QED BY <1>2, <2>7, <2>8
<1>7. ASSUME NEW s \in Site, Delete(s) PROVE InstancesOK'
  <2>1. PICK old \in inst[s] :
            /\ NewEdit /\ now' = now
            /\ inst' = [inst EXCEPT ![s] = {[old EXCEPT !.state = Deleted(old.state, NextEdit)]}]
    <3>1. \A o : [o EXCEPT !.state = Deleted(@, NextEdit)] =
                     [o EXCEPT !.state = Deleted(o.state, NextEdit)]
      OBVIOUS
    <3> QED BY <1>7, <3>1 DEF Delete
  <2> DEFINE state == Deleted(old.state, NextEdit)
             o == [old EXCEPT !.state = state]
  <2>2. old \in Instance /\ old.guid \in Guid /\ old.state \in State
    BY <1>0, NodeOfFacts DEF TypeOK
  <2>3. NextEdit \in Edit /\ now \in Time
    BY <1>0, <2>1, EditFacts DEF TypeOK
  <2>4. state \in State /\ state.edit = NextEdit /\ state.revised = now
        /\ state.linked = old.state.linked
    BY <2>2, <2>3, StateFacts DEF State, Deleted
  <2>5. inst' = [inst EXCEPT ![s] = {o}]
    BY <2>1
  <2> HIDE DEF state
  <2>6. o.guid = old.guid /\ o.state = state
    BY <2>2 DEF Instance
  <2> HIDE DEF o
  <2>7. DatedIn(state, editTime', now')
    BY <1>0, <2>1, <2>4, NewlyDated
  <2>8. state.linked => Parent[old.guid] # NoGuid /\ repl'[s][Parent[old.guid]] # <<>>
    BY <1>1, <2>4 DEF SoundNext
  <2>9. SoundNext(s, o.guid, o.state)
    BY <2>6, <2>7, <2>8 DEF SoundNext
  <2>10. inst'[s] = {o} /\ \A u \in Site \ {s} : inst'[u] = inst[u]
    BY <1>0, <2>5 DEF TypeOK
  <2> QED BY <1>2, <2>9, <2>10
<1>8. ASSUME NEW s \in Site, DeletePurged(s) \/ Purge(s) \/ AbortPurge(s)
      PROVE  InstancesOK'
  <2>1. inst' = [inst EXCEPT ![s] = {}]
    BY <1>8 DEF DeletePurged, Purge, AbortPurge
  <2>2. inst'[s] = {} /\ \A u \in Site \ {s} : inst'[u] = inst[u]
    BY <1>0, <2>1 DEF TypeOK
  <2> QED BY <1>2, <2>2
<1>9. ASSUME NEW s \in Site, Serialize(s) \/ Export(s) \/ ExportPurged(s)
      PROVE  InstancesOK'
  BY <1>3, <1>9 DEF Serialize, Export, ExportPurged
<1>10. ASSUME NEW s \in Site, NEW xml \in xmls, NEW force \in Forces, Receive(s, xml, force)
       PROVE  InstancesOK'
  BY <1>3, <1>10 DEF Receive
<1>11. ASSUME NEW s \in Site, ImportObject(s) \/ ImportPurge(s) \/ SkipPurge(s)
       PROVE  InstancesOK'
  BY <1>3, <1>11 DEF ImportObject, ImportPurge, SkipPurge
<1>12. CASE Tick
  BY <1>3, <1>12 DEF Tick
<1>13. CASE UNCHANGED vars
  BY <1>3, <1>13 DEF vars
<1>14. ASSUME NEW s \in Site,
              \/ \E g \in Guid : Load(s, g) \/ Create(s, g)
              \/ Update(s) \/ Delete(s) \/ DeletePurged(s) \/ Purge(s)
              \/ Serialize(s) \/ Export(s) \/ ExportPurged(s)
              \/ \E xml \in xmls, force \in Forces : Receive(s, xml, force)
              \/ ImportObject(s)
              \/ ImportPurge(s) \/ SkipPurge(s) \/ AbortPurge(s)
       PROVE  InstancesOK'
  BY ONLY <1>4, <1>5, <1>6, <1>7, <1>8, <1>9, <1>10, <1>11, <1>14
<1> QED BY <1>12, <1>13, <1>14 DEF Next

-----------------------------------------------------------------------------
(* Packages                                                                *)

\* What a package holds of objects, as nodes.
LEMMA ObjectsFacts ==
    ASSUME NEW nodes \in Seq(Node), NEW o \in Objects(nodes)
    PROVE  o \in Node /\ ~o.purge /\ o.guid \in Guid /\ o.state \in State
<1>1. PICK i \in DOMAIN nodes : ~nodes[i].purge /\ o = nodes[i]
  BY DEF Objects
<1>2. o \in Node
  BY <1>1
<1> QED BY <1>1, <1>2, ObjectNode

\* Packages are only added, each of an instance or of purges; and a site has
\* a package to import, or what it had, or the rest of it.
LEMMA StepsPackages ==
    ASSUME ReplicaOK, [Next]_vars
    PROVE  /\ \/ xmls' = xmls
              \/ \E xml : xmls' = xmls \cup {xml} /\ \A o \in Objects(xml) : Carried(o)
           /\ \A u \in Site : \/ queue'[u] \in xmls
                              \/ Objects(queue'[u]) \subseteq Objects(queue[u])
<1> DEFINE Sent == \/ xmls' = xmls
                   \/ \E xml : xmls' = xmls \cup {xml} /\ \A o \in Objects(xml) : Carried(o)
           Queued == \A u \in Site : \/ queue'[u] \in xmls
                                     \/ Objects(queue'[u]) \subseteq Objects(queue[u])
<1>0. TypeOK /\ InstancesOK
  BY DEF ReplicaOK
<1>1. UNCHANGED <<xmls, queue>> => Sent /\ Queued
  OBVIOUS
<1>2. ASSUME NEW s \in Site, Serialize(s) PROVE Sent /\ Queued
  <2>1. PICK o \in inst[s] : Send(<<NodeOf(s, o)>>) /\ UNCHANGED queue
    BY <1>2 DEF Serialize
  <2> DEFINE node == NodeOf(s, o)
  <2>2. /\ o.state \in State /\ node.guid = o.guid
        /\ \E b \in BOOLEAN : node.state = [o.state EXCEPT !.linked = b] /\ (b => o.state.linked)
    BY <1>0, NodeOfFacts
  <2>3. Sound(s, o.guid, o.state)
    BY <1>0 DEF InstancesOK
  <2> HIDE DEF node
  <2>4. PICK b \in BOOLEAN : node.state = [o.state EXCEPT !.linked = b] /\ (b => o.state.linked)
    BY <2>2
  <2>5. node.state.linked = b
    BY <2>2, <2>4 DEF State
  <2>6. Carried(node)
    <3>1. DatedIn(node.state, editTime, now)
      <4>1. DatedIn(o.state, editTime, now)
        BY <2>3 DEF Sound
      <4> QED BY <2>2, <2>4, <4>1, LinkUndated
    <3>2. node.state.linked => Parent[node.guid] # NoGuid
      BY <2>2, <2>3, <2>4, <2>5 DEF Sound
    <3> QED BY <3>1, <3>2 DEF Carried
  <2>7. \A x \in Objects(<<node>>) : x = node
    BY DEF Objects
  <2>8. xmls' = xmls \cup {<<node>>}
    BY <2>1 DEF Send, node
  <2> QED BY <2>1, <2>6, <2>7, <2>8
<1>3. ASSUME NEW s \in Site, ExportPurged(s) PROVE Sent /\ Queued
  <2> DEFINE n == Cardinality(Purges(s))
  <2>1. PICK order \in [1 .. n -> Purges(s)] :
            /\ Send([i \in 1 .. n |-> [guid |-> order[i][1], purge |-> TRUE]])
            /\ UNCHANGED queue
    BY <1>3 DEF ExportPurged
  <2> DEFINE xml == [i \in 1 .. n |-> [guid |-> order[i][1], purge |-> TRUE]]
  <2>2. Objects(xml) = {}
    BY PurgeNodes
  <2>3. xmls' = xmls \cup {xml}
    BY <2>1 DEF Send
  <2> HIDE DEF xml
  <2> QED BY <2>1, <2>2, <2>3
<1>4. ASSUME NEW s \in Site, NEW xml \in xmls, NEW force \in Forces, Receive(s, xml, force)
      PROVE  Sent /\ Queued
  <2>1. xmls' = xmls /\ queue' = [queue EXCEPT ![s] = xml]
    BY <1>4 DEF Receive
  <2>2. \A u \in Site : queue'[u] = xml \/ queue'[u] = queue[u]
    BY <1>0, <2>1 DEF TypeOK
  <2> QED BY <2>1, <2>2
<1>5. ASSUME NEW s \in Site, ImportObject(s) \/ ImportPurge(s) \/ SkipPurge(s)
      PROVE  Sent /\ Queued
  <2>1. queue[s] # <<>> /\ xmls' = xmls /\ Imported(s, Tail(queue[s]))
    BY <1>5 DEF ImportObject, ImportPurge, SkipPurge
  <2>2. Tail(queue[s]) \in Seq(Node) /\ Objects(Tail(queue[s])) \subseteq Objects(queue[s])
    BY <1>0, <2>1, QueueFacts
  <2>3. queue'[s] = Tail(queue[s]) /\ \A u \in Site \ {s} : queue'[u] = queue[u]
    BY <1>0, <2>1, <2>2, ImportedFacts
  <2> QED BY <2>1, <2>2, <2>3
<1>6. ASSUME NEW s \in Site, AbortPurge(s) PROVE Sent /\ Queued
  <2>1. <<>> \in Seq(Node) /\ Objects(<<>>) = {}
    BY DEF Objects
  <2>2. Imported(s, <<>>) /\ xmls' = xmls
    BY <1>6 DEF AbortPurge
  <2>3. queue'[s] = <<>> /\ \A u \in Site \ {s} : queue'[u] = queue[u]
    BY <1>0, <2>1, <2>2, ImportedFacts
  <2> QED BY <2>1, <2>2, <2>3
<1>7. ASSUME NEW s \in Site,
             \/ \E g \in Guid : Load(s, g) \/ Create(s, g)
             \/ Update(s) \/ Delete(s) \/ DeletePurged(s) \/ Purge(s) \/ Export(s)
      PROVE  UNCHANGED <<xmls, queue>>
  BY <1>7 DEF Load, Create, Update, Delete, DeletePurged, Purge, Export
<1>8. Tick \/ UNCHANGED vars => UNCHANGED <<xmls, queue>>
  BY DEF Tick, vars
<1> HIDE DEF Sent, Queued
<1>9. ASSUME NEW s \in Site,
             \/ \E g \in Guid : Load(s, g) \/ Create(s, g)
             \/ Update(s) \/ Delete(s) \/ DeletePurged(s) \/ Purge(s)
             \/ Serialize(s) \/ Export(s) \/ ExportPurged(s)
             \/ \E xml \in xmls, force \in Forces : Receive(s, xml, force)
             \/ ImportObject(s)
             \/ ImportPurge(s) \/ SkipPurge(s) \/ AbortPurge(s)
      PROVE  Sent /\ Queued
  BY ONLY <1>1, <1>2, <1>3, <1>4, <1>5, <1>6, <1>7, <1>9
<1>10. Sent /\ Queued
  BY <1>1, <1>8, <1>9 DEF Next
<1> QED BY <1>10 DEF Sent, Queued

LEMMA NextPackages ==
    ASSUME ReplicaOK, [Next]_vars
    PROVE  PackagesOK'
<1>0. TypeOK /\ PackagesOK
  BY DEF ReplicaOK
<1>1. ASSUME NEW nodes \in Seq(Node), NEW o \in Objects(nodes), Carried(o)
      PROVE  Carried(o)'
  <2>1. o.state \in State
    BY ObjectsFacts
  <2>2. DatedIn(o.state, editTime', now')
    BY <1>0, <1>1, <2>1, StaysDated DEF Carried
  <2> QED BY <1>1, <2>2 DEF Carried
<1>2. \A xml \in xmls : \A o \in Objects(xml) : Carried(o)'
  BY <1>0, <1>1 DEF PackagesOK, TypeOK
<1>3. \A u \in Site : \A o \in Objects(queue[u]) : Carried(o)'
  BY <1>0, <1>1 DEF PackagesOK, TypeOK
<1>4. ASSUME NEW xml \in xmls' PROVE \A o \in Objects(xml) : Carried(o)'
  <2>1. TypeOK'
    BY <1>0, NextTypes
  <2>2. xml \in Seq(Node)
    BY <2>1 DEF TypeOK
  <2> QED BY <1>1, <1>2, <2>2, StepsPackages
<1>5. ASSUME NEW u \in Site PROVE \A o \in Objects(queue'[u]) : Carried(o)'
  BY <1>2, <1>3, StepsPackages
<1> QED BY <1>4, <1>5 DEF PackagesOK

-----------------------------------------------------------------------------
(* The invariant                                                           *)

LEMMA InitOK == Init => ReplicaOK
<1> SUFFICES ASSUME Init PROVE ReplicaOK
  OBVIOUS
<1>1. TypeOK /\ Clock
  BY InitTypes, InitClock
<1>2. RowsOK /\ InstancesOK /\ GoneRecorded
  BY DEF Init, RowsOK, InstancesOK, GoneRecorded, Stored
<1>3. PackagesOK
  <2>1. Objects(<<>>) = {}
    BY DEF Objects
  <2> QED BY <2>1 DEF Init, PackagesOK
<1> QED BY <1>1, <1>2, <1>3 DEF ReplicaOK

LEMMA NextOK == ReplicaOK /\ [Next]_vars => ReplicaOK'
<1> SUFFICES ASSUME ReplicaOK, [Next]_vars PROVE ReplicaOK'
  OBVIOUS
<1>1. TypeOK' /\ Clock'
  BY NextTypes, NextClock DEF ReplicaOK
<1> QED BY <1>1, NextRows, NextInstances, NextPackages DEF ReplicaOK

LEMMA InvariantOK == Spec => []ReplicaOK
BY InitOK, NextOK, PTL DEF Spec

-----------------------------------------------------------------------------
(* What it gives                                                           *)

\* Every variable has its type: so an import never stores, and an export never
\* sends, what is not a state of an object.
THEOREM TypeInvariant == Spec => []TypeOK
<1>1. ReplicaOK => TypeOK
  BY DEF ReplicaOK
<1> QED BY <1>1, InvariantOK, PTL

\* Whatever is imported, forced or not, and in whatever order: repligard never
\* calls a stored object purged, nor one that is gone created or updated.
THEOREM GoneAreRecorded == Spec => []GoneRecorded
<1>1. ReplicaOK => GoneRecorded
  BY DEF ReplicaOK
<1> QED BY <1>1, InvariantOK, PTL

\* No package leaves a row with a link to an object that the site has no
\* record of, in whatever order parents and children come.
THEOREM LinksAreResolved == Spec => []LinksResolve
<1>1. ReplicaOK => LinksResolve
  BY DEF ReplicaOK, RowsOK, Sound, LinksResolve
<1> QED BY <1>1, InvariantOK, PTL

\* The step of import_from_xml that takes an object's node is the import of it.
LEMMA ImportingObject ==
    ASSUME TypeOK, [Next]_vars, NEW s \in Site, Importing(s)
    PROVE  ImportObject(s)
<1>1. queue[s] # <<>> /\ ~Node1(s).purge /\ queue'[s] # queue[s]
  <2>1. \A q \in Seq(Node) : q # <<>> => Len(Tail(q)) # Len(q)
    OBVIOUS
  <2>2. queue[s] \in Seq(Node)
    BY DEF TypeOK
  <2> QED BY <2>1, <2>2 DEF Importing
<1>2. ASSUME NEW u \in Site, u # s, NEW nodes, Imported(u, nodes) PROVE FALSE
  BY <1>1, <1>2 DEF Imported, TypeOK
<1>3. ASSUME NEW u \in Site,
             \/ \E g \in Guid : Load(u, g) \/ Create(u, g)
             \/ Update(u) \/ Delete(u) \/ DeletePurged(u) \/ Purge(u)
             \/ Serialize(u) \/ Export(u) \/ ExportPurged(u)
      PROVE  FALSE
  BY <1>1, <1>3 DEF Load, Create, Update, Delete, DeletePurged, Purge, Serialize, Export,
                    ExportPurged
<1>4. ASSUME NEW u \in Site, NEW xml \in xmls, NEW force \in Forces, Receive(u, xml, force)
      PROVE  FALSE
  <2>1. u # s
    BY <1>1, <1>4 DEF Receive
  <2> QED BY <1>1, <1>4, <2>1 DEF Receive, TypeOK
<1>5. ASSUME NEW u \in Site, ImportPurge(u) \/ SkipPurge(u) \/ AbortPurge(u) PROVE FALSE
  <2>1. u # s
    BY <1>1, <1>5 DEF ImportPurge, SkipPurge, AbortPurge
  <2> QED BY <1>2, <1>5, <2>1 DEF ImportPurge, SkipPurge, AbortPurge
<1>6. ASSUME NEW u \in Site, ImportObject(u) PROVE u = s
  BY <1>2, <1>6 DEF ImportObject
<1>7. ~Tick /\ ~UNCHANGED vars
  BY <1>1 DEF Tick, vars
<1>8. PICK u \in Site :
             \/ \E g \in Guid : Load(u, g) \/ Create(u, g)
             \/ Update(u) \/ Delete(u) \/ DeletePurged(u) \/ Purge(u)
             \/ Serialize(u) \/ Export(u) \/ ExportPurged(u)
             \/ \E xml \in xmls, force \in Forces : Receive(u, xml, force)
             \/ ImportObject(u)
             \/ ImportPurge(u) \/ SkipPurge(u) \/ AbortPurge(u)
  BY <1>7 DEF Next
<1> QED BY ONLY <1>3, <1>4, <1>5, <1>6, <1>8

\* What it stores if it stores anything: one row, that of the node.
LEMMA ImportStores ==
    ASSUME ReplicaOK, NEW s \in Site, ImportObject(s), rows'[s] # rows[s]
    PROVE  LET node == Node1(s)
               outcome == Outcome(s, node) IN
           /\ node \in Node /\ ~node.purge /\ node.guid \in Guid /\ node.state \in State
           /\ Carried(node)
           /\ outcome \in {"create", "update", "delete"}
           /\ rows'[s][node.guid] = RowAfter(s, node, outcome)
           /\ RowAfter(s, node, outcome) \in State
           /\ \A g \in Guid \ {node.guid} : rows'[s][g] = rows[s][g]
<1> DEFINE node == Node1(s)
           outcome == Outcome(s, node)
<1>1. /\ queue[s] # <<>> /\ ~node.purge
      /\ IF outcome \in {"create", "update", "delete"}
         THEN Write(s, node.guid, RowAfter(s, node, outcome), outcome)
         ELSE UNCHANGED <<rows, repl>>
  BY DEF ImportObject
<1>2. outcome \in {"create", "update", "delete"}
      /\ Write(s, node.guid, RowAfter(s, node, outcome), outcome)
  BY <1>1
<1>3. node \in Node /\ node \in Objects(queue[s])
  BY <1>1, QueueFacts DEF ReplicaOK
<1>4. node.guid \in Guid /\ node.state \in State
  BY <1>1, <1>3, ObjectNode
<1>5. Carried(node)
  BY <1>3 DEF ReplicaOK, PackagesOK
<1>6. RowAfter(s, node, outcome) \in State
  BY <1>1, <1>2, <1>3, OutcomeFacts DEF ReplicaOK
<1>7. TypeOK /\ outcome \in Action
  BY <1>2 DEF ReplicaOK, Action
<1> DEFINE state == RowAfter(s, node, outcome)
<1> HIDE DEF node, outcome, state
<1>8. /\ rows'[s][node.guid] = state
      /\ \A u \in Site : \A h \in Guid : <<u, h>> # <<s, node.guid>> => rows'[u][h] = rows[u][h]
  BY <1>2, <1>4, <1>6, <1>7, WriteFacts DEF state
<1>9. \A g \in Guid \ {node.guid} : rows'[s][g] = rows[s][g]
  BY <1>8
<1> QED BY <1>1, <1>2, <1>3, <1>4, <1>5, <1>6, <1>8, <1>9 DEF node, outcome, state

\* A package that comes again is refused: what its import stored is dated no
\* earlier than it, also where the deletion is dated anew by this site.
THEOREM ImportsApplyOnce == Spec => AppliedOnce
<1>1. ASSUME ReplicaOK, [Next]_vars
      PROVE  \A s \in Site : (Importing(s) /\ rows'[s] # rows[s]) =>
                 /\ rows'[s][Node1(s).guid] # Absent
                 /\ rows'[s][Node1(s).guid].revised >= Node1(s).state.revised
  <2> SUFFICES ASSUME NEW s \in Site, Importing(s), rows'[s] # rows[s]
               PROVE  /\ rows'[s][Node1(s).guid] # Absent
                      /\ rows'[s][Node1(s).guid].revised >= Node1(s).state.revised
    OBVIOUS
  <2> DEFINE node == Node1(s)
             outcome == Outcome(s, node)
             row == RowAfter(s, node, outcome)
  <2>1. ImportObject(s)
    BY <1>1, ImportingObject DEF ReplicaOK
  <2>2. /\ node \in Node /\ ~node.purge /\ node.guid \in Guid /\ node.state \in State
        /\ Carried(node) /\ outcome \in {"create", "update", "delete"}
        /\ rows'[s][node.guid] = row /\ row \in State
    BY <1>1, <2>1, ImportStores
  <2>3. rows'[s][node.guid] # Absent
    BY <2>2, AbsentAssumption
  <2>4. now \in Nat /\ editTime \in Seq(Nat) /\ node.state.revised \in Nat
    BY <1>1, <2>2, BoundAssumption DEF ReplicaOK, TypeOK, Time, State
  <2>5. node.state.revised <= now
    <3>1. DatedIn(node.state, editTime, now)
      BY <2>2 DEF Carried
    <3>2. editTime[node.state.edit] <= now /\ editTime[node.state.edit] \in Nat
      BY <1>1, <2>4, <3>1 DEF ReplicaOK, Clock, DatedIn
    <3>3. node.state.deleted \in BOOLEAN
      BY <2>2 DEF State
    <3> HIDE DEF node
    <3> QED BY <2>4, <3>1, <3>2, <3>3 DEF DatedIn
  <2>6. row.revised >= node.state.revised
    <3>1. CASE outcome = "delete"
      <4>1. row = Deleted(rows[s][node.guid], node.state.edit) /\ Stored(s, node.guid)
        BY <1>1, <2>2, <3>1, OutcomeFacts DEF ReplicaOK
      <4>2. rows[s][node.guid] \in State
        BY <1>1, <2>2, <4>1 DEF ReplicaOK, TypeOK, Stored
      <4>3. row.revised = now
        BY <4>1, <4>2 DEF Deleted, State
      <4> HIDE DEF row, outcome, node
      <4> QED BY <2>4, <2>5, <4>3
    <3>2. CASE outcome # "delete"
      <4>1. \E b \in BOOLEAN : row = [node.state EXCEPT !.linked = b]
        BY <1>1, <2>2, <3>2, OutcomeFacts DEF ReplicaOK
      <4> HIDE DEF row, outcome, node
      <4>2. row.revised = node.state.revised
        BY <2>2, <4>1 DEF State
      <4> QED BY <2>4, <4>2
    <3> QED BY <3>1, <3>2
  <2> QED BY <2>2, <2>3, <2>6
<1> QED BY <1>1, InvariantOK, PTL DEF Spec, AppliedOnce

\* An import that is not forced never replaces a live object by an earlier
\* state of it, whatever order packages come in.
THEOREM ImportsNeverGoBack == Spec => ImportsGoForward
<1>1. ASSUME ReplicaOK, [Next]_vars
      PROVE  \A s \in Site : \A g \in Guid :
                 (Importing(s) /\ ~forced[s] /\ Live(s, g) /\ Live(s, g)' /\ rows'[s][g] # rows[s][g])
                     => rows'[s][g].edit > rows[s][g].edit
  <2> SUFFICES ASSUME NEW s \in Site, NEW g \in Guid, Importing(s), ~forced[s], Live(s, g),
                      Live(s, g)', rows'[s][g] # rows[s][g]
               PROVE  rows'[s][g].edit > rows[s][g].edit
    OBVIOUS
  <2> DEFINE node == Node1(s)
             outcome == Outcome(s, node)
             row == RowAfter(s, node, outcome)
             old == rows[s][g]
  <2>0. TypeOK /\ Clock /\ RowsOK
    BY <1>1 DEF ReplicaOK
  <2>1. ImportObject(s) /\ rows'[s] # rows[s]
    BY <1>1, <2>0, ImportingObject
  <2>2. /\ node \in Node /\ ~node.purge /\ node.guid \in Guid /\ node.state \in State
        /\ Carried(node) /\ outcome \in {"create", "update", "delete"}
        /\ rows'[s][node.guid] = row /\ row \in State
        /\ \A h \in Guid \ {node.guid} : rows'[s][h] = rows[s][h]
    BY <1>1, <2>1, ImportStores
  <2>3. node.guid = g
    BY <2>2
  <2>4. old \in State /\ ~old.deleted /\ DatedIn(old, editTime, now)
    BY <2>0 DEF TypeOK, Live, Stored, RowsOK, Sound
  <2>5. ~row.deleted
    BY <2>2, <2>3 DEF Live
  <2>6. outcome = "update"
    <3>1. outcome # "create"
      BY <2>0, <2>2, <2>3, OutcomeFacts DEF Live
    <3>2. ASSUME outcome = "delete" PROVE FALSE
      <4>1. row = Deleted(old, node.state.edit)
        BY <2>0, <2>2, <2>3, <3>2, OutcomeFacts
      <4>2. row.deleted
        BY <2>4, <4>1 DEF Deleted, State
      <4> QED BY <2>5, <4>2
    <3> QED BY <2>2, <3>1, <3>2
  <2>7. ~node.state.deleted /\ ~(old.revised >= node.state.revised)
    BY <2>3, <2>6 DEF Outcome
  <2>8. row.edit = node.state.edit
    <3>1. PICK b \in BOOLEAN : row = [node.state EXCEPT !.linked = b]
      BY <2>0, <2>2, <2>6, OutcomeFacts
    <3> HIDE DEF row, outcome, node
    <3> QED BY <2>2, <3>1 DEF State
  <2>9. /\ old.edit \in DOMAIN editTime /\ old.revised = editTime[old.edit]
        /\ node.state.edit \in DOMAIN editTime
        /\ node.state.revised = editTime[node.state.edit]
    BY <2>2, <2>4, <2>7 DEF DatedIn, Carried
  <2>10. editTime \in Seq(Nat)
    BY <2>0, BoundAssumption DEF TypeOK, Time
  <2> HIDE DEF row, outcome, node, old
  <2>11. node.state.edit > old.edit
    <3>1. ~(node.state.edit <= old.edit)
      BY <2>0, <2>7, <2>9, <2>10 DEF Clock
    <3> QED BY <2>9, <2>10, <3>1
  <2> QED BY <2>2, <2>3, <2>8, <2>11 DEF old
<1> QED BY <1>1, InvariantOK, PTL DEF Spec, ImportsGoForward
=============================================================================
