---------------------------- MODULE ServerProofs ----------------------------
(***************************************************************************)
(* Proofs about what the threads and the processes of a prefork server     *)
(* keep in common: objects, their replication log and the mutexes around   *)
(* them (ObjectStore), the quota record of a class (Quota), the tables     *)
(* (Storage), and the files of configurations (Configuration), for any     *)
(* number of threads, processes, objects, classes and columns.             *)
(***************************************************************************)
EXTENDS ObjectStore, Quota, Storage, Configuration, FiniteSetTheorems, TLAPS

-----------------------------------------------------------------------------
(* The object store *)

(***************************************************************************)
(* Where a thread is tells which public function it is in, and that its    *)
(* instance has a guid once the call has passed the check for it.          *)
(***************************************************************************)
CREATE_STEPS == {"create_check", "create_row", "create_record"}
UPDATE_STEPS == {"update_check", "update_row"}

StepOK ==
    \A t \in Thread :
        /\ pc[t] \in CREATE_STEPS \cup {"create_lock"} => call[t] \in {"create", "save"}
        /\ pc[t] \in UPDATE_STEPS \cup {"update_lock"} => call[t] \in {"update", "save"}
        /\ pc[t] \in {"delete_lock", "delete_row"} => call[t] = "delete"
        /\ pc[t] = "purge_row" => call[t] = "purge"
        /\ pc[t] \in RECORD_STEPS => call[t] \in {"update", "save", "delete", "purge"}
        /\ pc[t] \in CREATE_STEPS \cup UPDATE_STEPS \cup RECORD_STEPS \cup {"delete_row"}
               => obj[t].guid # NoGuid

\* A function on the indices of a sequence is a sequence of the same length.
LEMMA SameDomain ==
    ASSUME NEW S, NEW T, NEW s \in Seq(S), NEW f \in [DOMAIN s -> T]
    PROVE  f \in Seq(T) /\ Len(f) = Len(s)
<1>1. DOMAIN s = 1 .. Len(s) /\ Len(s) \in Nat
  OBVIOUS
<1> QED BY <1>1

\* A thread past the check for it works on an instance with a guid.
LEMMA HasGuid ==
    ASSUME TypeOK, StepOK, NEW t \in Thread,
           pc[t] \in CREATE_STEPS \cup UPDATE_STEPS \cup RECORD_STEPS \cup {"delete_row"}
    PROVE  obj[t].guid \in Guid
BY DEF TypeOK, StepOK, Instance

\* Leaving a mutex keeps the type of holder.
LEMMA UnlockTypes ==
    ASSUME TypeOK, NEW t \in Thread, Unlock(t)
    PROVE  holder' \in [Mutex -> [Process -> Thread \cup {NoThread}]]
BY DEF TypeOK, Unlock

\* The history of overlapping calls keeps its type.
LEMMA TangleTypes ==
    ASSUME TypeOK, NEW t \in Thread, NEW g \in Guid, Tangle(t, g)
    PROVE  tangled' \in SUBSET Guid
BY DEF TypeOK, Tangle

\* An instance is still one when it is given a guid, or loses its own.
LEMMA NewGuidTypes ==
    ASSUME TypeOK, NEW t \in Thread, NEW g \in Guid \cup {NoGuid}
    PROVE  [obj EXCEPT ![t].guid = g] \in [Thread -> Instance]
BY DEF TypeOK, Instance

\* A record is still one when it is marked as deleted, or no longer is.
LEMMA RowFields ==
    ASSUME NEW r \in Row, NEW b \in BOOLEAN
    PROVE  [r EXCEPT !.deleted = b] \in Row
BY DEF Row

\* Marking every record of a guid as deleted keeps their type.
LEMMA MarkedRows ==
    ASSUME NEW s \in Seq(Row), NEW b \in BOOLEAN
    PROVE  [i \in DOMAIN s |-> [s[i] EXCEPT !.deleted = b]] \in Seq(Row)
<1>1. ASSUME NEW i \in DOMAIN s PROVE [s[i] EXCEPT !.deleted = b] \in Row
  <2>1. s[i] \in Row
    OBVIOUS
  <2> QED BY <2>1, RowFields
<1>2. [i \in DOMAIN s |-> [s[i] EXCEPT !.deleted = b]] \in [DOMAIN s -> Row]
  BY <1>1
<1> QED BY <1>2, SameDomain

\* INSERT and UPDATE write a record.
LEMMA RowOfTypes ==
    ASSUME NEW o \in Instance
    PROVE  RowOf(o) \in Row
BY DEF RowOf, Row, Instance

\* An instance is still one when a call sets one of its flags.
LEMMA InstanceFields ==
    ASSUME NEW o \in Instance, NEW b \in BOOLEAN
    PROVE  /\ [o EXCEPT !.deleted = b] \in Instance
           /\ [o EXCEPT !.stored = b] \in Instance
BY DEF Instance

\* Every step keeps the types.
LEMMA TypeStep == TypeOK /\ StepOK /\ [Next]_vars => TypeOK'
<1> SUFFICES ASSUME TypeOK, StepOK, [Next]_vars PROVE TypeOK'
  OBVIOUS
<1> USE ProcessAssumption, NullAssumption, BoundAssumption DEF TypeOK, db, history
<1>1. ASSUME NEW t \in Thread, NEW p \in Place, New(t, p) PROVE TypeOK'
  BY <1>1 DEF New, Fresh, Instance
<1>2. ASSUME NEW t \in Thread, NEW p \in Place, SetPlace(t, p) PROVE TypeOK'
  BY <1>2 DEF SetPlace, Instance
<1>3. ASSUME NEW t \in Thread, NEW g \in Guid, Load(t, g) PROVE TypeOK'
  <2> PICK i \in DOMAIN rows[g] :
           obj' = [obj EXCEPT ![t] = [guid |-> g, place |-> rows[g][i].place,
                                      deleted |-> rows[g][i].deleted, stored |-> TRUE]]
    BY <1>3 DEF Load
  <2>1. rows[g][i] \in Row
    OBVIOUS
  <2>2. obj' \in [Thread -> Instance]
    BY <2>1 DEF Instance, Row
  <2> QED
    BY <1>3, <2>2 DEF Load
<1>4. ASSUME NEW t \in Thread, NEW g \in Guid, SetGuid(t, g) PROVE TypeOK'
  BY <1>4, NewGuidTypes DEF SetGuid
<1>5. ASSUME NEW t \in Thread, NEW g \in Guid, UndeleteCall(t, g) PROVE TypeOK'
  BY <1>5  DEF UndeleteCall, RepligardProperty
<1>6. ASSUME NEW t \in Thread, CreateCall(t) PROVE TypeOK'
  BY <1>6 DEF CreateCall, Start, Goto, Step, Call
<1>7. ASSUME NEW t \in Thread, UpdateCall(t) PROVE TypeOK'
  BY <1>7 DEF UpdateCall, Start, Goto, Step, Call
<1>8. ASSUME NEW t \in Thread, SaveCall(t) PROVE TypeOK'
  <2>1. obj' \in [Thread -> Instance]
    <3>1. CASE obj[t].guid = NoGuid
      <4> PICK g \in Guid : obj' = [obj EXCEPT ![t].guid = g]
        BY <1>8, <3>1 DEF SaveCall
      <4> QED BY NewGuidTypes
    <3>2. CASE obj[t].guid # NoGuid
      BY <1>8, <3>2 DEF SaveCall
    <3> QED BY <3>1, <3>2
  <2> QED
    <3>1. Start(t, "save", "update_lock") /\ UNCHANGED <<db, holder, params, history>>
      BY <1>8 DEF SaveCall
    <3> QED
      BY <2>1, <3>1 DEF Start, Goto, Step, Call
<1>9. ASSUME NEW t \in Thread, DeleteCall(t) PROVE TypeOK'
  BY <1>9 DEF DeleteCall, Start, Goto, Step, Call
<1>10. ASSUME NEW t \in Thread, PurgeCall(t) PROVE TypeOK'
  BY <1>10 DEF PurgeCall, Start, Goto, Step, Call
<1>11. ASSUME NEW t \in Thread, CreateDuplicate(t) PROVE TypeOK'
  BY <1>11 DEF CreateDuplicate, Return, Goto, Step, Call
<1>12. ASSUME NEW t \in Thread, CreateEnter(t) PROVE TypeOK'
  <2>1. obj' \in [Thread -> Instance]
    <3>1. CASE obj[t].guid = NoGuid
      <4> PICK g \in Guid : obj' = [obj EXCEPT ![t].guid = g]
        BY <1>12, <3>1 DEF CreateEnter
      <4> QED BY NewGuidTypes
    <3>2. CASE obj[t].guid # NoGuid
      BY <1>12, <3>2 DEF CreateEnter
    <3> QED BY <3>1, <3>2
  <2> QED
    BY <1>12, <2>1 DEF CreateEnter, Lock, Goto, Step
<1>13. ASSUME NEW t \in Thread, CreateUnique(t) PROVE TypeOK'
  <2>1. obj[t].guid \in Guid
    BY <1>13, HasGuid DEF CreateUnique, CREATE_STEPS
  <2> QED BY <1>13, <2>1 DEF CreateUnique, Goto, Step
<1>14. ASSUME NEW t \in Thread, CreateNameTaken(t) PROVE TypeOK'
  BY <1>14, NewGuidTypes, UnlockTypes DEF CreateNameTaken, Return, Goto, Step, Call
<1>15. ASSUME NEW t \in Thread, CreateInsert(t) PROVE TypeOK'
  <2>1. obj[t].guid \in Guid
    BY <1>15, HasGuid DEF CreateInsert, CREATE_STEPS
  <2>2. rows' \in [Guid -> Seq(Row)]
    <3>1. Append(rows[obj[t].guid], RowOf(obj[t])) \in Seq(Row)
      BY <2>1, RowOfTypes
    <3> QED
      BY <1>15, <2>1, <3>1 DEF CreateInsert
  <2> QED
    BY <1>15, <2>1, <2>2, TangleTypes DEF CreateInsert, Goto, Step
<1>16. ASSUME NEW t \in Thread, CreateInsertFails(t) PROVE TypeOK'
  BY <1>16, UnlockTypes DEF CreateInsertFails, Return, Goto, Step, Call
<1>17. ASSUME NEW t \in Thread, CreateRecord(t) PROVE TypeOK'
  <2>1. repl' \in [Guid -> Seq(Action)]
    <3>1. obj[t].guid \in Guid
      BY <1>17, HasGuid DEF CreateRecord, CREATE_STEPS
    <3>2. Append(repl[obj[t].guid], "create") \in Seq(Action)
      BY <3>1 DEF Action
    <3> QED
      BY <1>17, <3>1, <3>2 DEF CreateRecord
  <2>2. obj' \in [Thread -> Instance]
    BY <1>17, InstanceFields DEF CreateRecord
  <2> QED
    BY <1>17, <2>1, <2>2, UnlockTypes DEF CreateRecord, Return, Goto, Step, Call
<1>18. ASSUME NEW t \in Thread, CreateRecordFails(t) PROVE TypeOK'
  BY <1>18, UnlockTypes, HasGuid DEF CreateRecordFails, Return, Goto, Step, Call, CREATE_STEPS
<1>19. ASSUME NEW t \in Thread, UpdateNoGuid(t) PROVE TypeOK'
  BY <1>19 DEF UpdateNoGuid, Return, Goto, Step, Call
<1>20. ASSUME NEW t \in Thread, UpdateEnter(t) PROVE TypeOK'
  BY <1>20 DEF UpdateEnter, Lock, Goto, Step
<1>21. ASSUME NEW t \in Thread, UpdateUnique(t) PROVE TypeOK'
  BY <1>21 DEF UpdateUnique, Goto, Step
<1>22. ASSUME NEW t \in Thread, UpdateNameTaken(t) PROVE TypeOK'
  BY <1>22 DEF UpdateNameTaken, Unlock, Return, Goto, Step, Call
<1>23. ASSUME NEW t \in Thread, UpdateRow(t) PROVE TypeOK'
  <2>1. obj[t].guid \in Guid
    BY <1>23, HasGuid DEF UpdateRow, UPDATE_STEPS
  <2>2. rows' \in [Guid -> Seq(Row)]
    <3>1. RowOf(obj[t]) \in Row
      BY RowOfTypes
    <3>2. [i \in DOMAIN rows[obj[t].guid] |-> RowOf(obj[t])] \in Seq(Row)
      BY <2>1, <3>1, SameDomain
    <3> QED
      BY <1>23, <2>1, <3>2 DEF UpdateRow
  <2> QED
    BY <1>23, <2>1, <2>2, TangleTypes DEF UpdateRow, Goto, Step
<1>24. ASSUME NEW t \in Thread, UpdateNothing(t) PROVE TypeOK'
  BY <1>24, UnlockTypes DEF UpdateNothing, Return, Goto, Step, Call
<1>25. ASSUME NEW t \in Thread, UpdateFails(t) PROVE TypeOK'
  BY <1>25 DEF UpdateFails, Unlock, Return, Goto, Step, Call
<1>26. ASSUME NEW t \in Thread, DeleteNoGuid(t) PROVE TypeOK'
  BY <1>26 DEF DeleteNoGuid, Return, Goto, Step, Call
<1>27. ASSUME NEW t \in Thread, DeleteEnter(t) PROVE TypeOK'
  BY <1>27 DEF DeleteEnter, Lock, Goto, Step
<1>28. ASSUME NEW t \in Thread, DeleteRow(t) PROVE TypeOK'
  <2>1. obj[t].guid \in Guid
    BY <1>28, HasGuid DEF DeleteRow
  <2>2. rows' \in [Guid -> Seq(Row)]
    <3>1. [i \in DOMAIN rows[obj[t].guid] |->
              [rows[obj[t].guid][i] EXCEPT !.deleted = TRUE]] \in Seq(Row)
      BY <2>1, MarkedRows
    <3> QED
      BY <1>28, <2>1, <3>1 DEF DeleteRow
  <2> QED
    BY <1>28, <2>1, <2>2, TangleTypes DEF DeleteRow, Goto, Step
<1>29. ASSUME NEW t \in Thread, DeleteFails(t) PROVE TypeOK'
  BY <1>29 DEF DeleteFails, Unlock, Return, Goto, Step, Call
<1>30. ASSUME NEW t \in Thread, PurgeNoGuid(t) PROVE TypeOK'
  BY <1>30 DEF PurgeNoGuid, Return, Goto, Step, Call
<1>31. ASSUME NEW t \in Thread, PurgeRow(t) PROVE TypeOK'
  <2>1. obj[t].guid \in Guid
    BY <1>31 DEF PurgeRow, Instance
  <2>2. rows' \in [Guid -> Seq(Row)]
    BY <1>31, <2>1 DEF PurgeRow
  <2> QED
    BY <1>31, <2>1, <2>2, TangleTypes DEF PurgeRow, Goto, Step
<1>32. ASSUME NEW t \in Thread, PurgeNothing(t) PROVE TypeOK'
  BY <1>32 DEF PurgeNothing, Return, Goto, Step, Call
<1>33. ASSUME NEW t \in Thread, PurgeFails(t) PROVE TypeOK'
  BY <1>33 DEF PurgeFails, Goto, Step, Instance
<1>34. ASSUME NEW t \in Thread, RecordGuid(t) PROVE TypeOK'
  BY <1>34, HasGuid DEF RecordGuid, Goto, Step, RECORD_STEPS
<1>35. ASSUME NEW t \in Thread, RecordAction(t) PROVE TypeOK'
  <2>1. ActionOf(call[t]) \in Action
    BY <1>35 DEF RecordAction, ActionOf, Action, StepOK, RECORD_STEPS
  <2>2. params' \in [Process -> [guid : Guid \cup {NoGuid}, action : Action]]
    BY <1>35, <2>1 DEF RecordAction
  <2> QED
    BY <1>35, <2>2 DEF RecordAction, Goto, Step
<1>36. ASSUME NEW t \in Thread, RecordWrite(t) PROVE TypeOK'
  <2> DEFINE p == params[ProcessOf[t]]
  <2>1. p \in [guid : Guid \cup {NoGuid}, action : Action]
    OBVIOUS
  <2>2. \A g \in Guid : [i \in DOMAIN repl[g] |-> p.action] \in Seq(Action)
    BY <2>1, SameDomain
  <2>3. repl' \in [Guid -> Seq(Action)]
    BY <1>36, <2>1, <2>2 DEF RecordWrite
  <2>4. obj' \in [Thread -> Instance]
    <3>1. (obj[t].deleted \/ call[t] = "delete") \in BOOLEAN
      OBVIOUS
    <3> QED
      BY <1>36, <3>1, InstanceFields DEF RecordWrite
  <2> QED
    BY <1>36, <2>3, <2>4, UnlockTypes DEF RecordWrite, Return, Goto, Step, Call
<1>37. ASSUME NEW t \in Thread, RecordFails(t) PROVE TypeOK'
  BY <1>37, UnlockTypes, HasGuid DEF RecordFails, Return, Goto, Step, Call, RECORD_STEPS
<1>38. ASSUME NEW p \in Process, Crash(p) PROVE TypeOK'
  BY <1>38 DEF Crash, Fresh, Unset, Step, Call, Instance, Action
<1>39. CASE UNCHANGED vars
  BY <1>39 DEF vars
<1> QED
  BY <1>1, <1>2, <1>3, <1>4, <1>5, <1>6, <1>7, <1>8, <1>9, <1>10, <1>11,
     <1>12, <1>13, <1>14, <1>15, <1>16, <1>17, <1>18, <1>19, <1>20, <1>21,
     <1>22, <1>23, <1>24, <1>25, <1>26, <1>27, <1>28, <1>29, <1>30, <1>31,
     <1>32, <1>33, <1>34, <1>35, <1>36, <1>37, <1>38, <1>39 DEF Next,
     Instances, Calls, Proceed, Creating, Updating, Deleting, Recording

\* Every step keeps StepOK.
LEMMA StepStep == TypeOK /\ StepOK /\ [Next]_vars => StepOK'
<1> SUFFICES ASSUME TypeOK, StepOK, [Next]_vars PROVE StepOK'
  OBVIOUS
<1>0. pc \in [Thread -> Step] /\ call \in [Thread -> Call] /\ obj \in [Thread -> Instance]
  BY DEF TypeOK
<1> USE <1>0, NullAssumption DEF StepOK, CREATE_STEPS, UPDATE_STEPS, RECORD_STEPS, history
<1>1. ASSUME NEW t \in Thread, NEW p \in Place, New(t, p) PROVE StepOK'
  BY <1>1 DEF New, Instance
<1>2. ASSUME NEW t \in Thread, NEW p \in Place, SetPlace(t, p) PROVE StepOK'
  BY <1>2 DEF SetPlace, Instance
<1>3. ASSUME NEW t \in Thread, NEW g \in Guid, Load(t, g) PROVE StepOK'
  BY <1>3 DEF Load, Instance
<1>4. ASSUME NEW t \in Thread, NEW g \in Guid, SetGuid(t, g) PROVE StepOK'
  BY <1>4 DEF SetGuid, Instance
<1>5. ASSUME NEW t \in Thread, NEW g \in Guid, UndeleteCall(t, g) PROVE StepOK'
  BY <1>5 DEF UndeleteCall
<1>6. ASSUME NEW t \in Thread, CreateCall(t) PROVE StepOK'
  BY <1>6 DEF CreateCall, Start, Goto
<1>7. ASSUME NEW t \in Thread, UpdateCall(t) PROVE StepOK'
  BY <1>7 DEF UpdateCall, Start, Goto
<1>8. ASSUME NEW t \in Thread, SaveCall(t) PROVE StepOK'
  BY <1>8 DEF SaveCall, Start, Goto, Instance
<1>9. ASSUME NEW t \in Thread, DeleteCall(t) PROVE StepOK'
  BY <1>9 DEF DeleteCall, Start, Goto
<1>10. ASSUME NEW t \in Thread, PurgeCall(t) PROVE StepOK'
  BY <1>10 DEF PurgeCall, Start, Goto
<1>11. ASSUME NEW t \in Thread, CreateDuplicate(t) PROVE StepOK'
  BY <1>11 DEF CreateDuplicate, Return, Goto
<1>12. ASSUME NEW t \in Thread, CreateEnter(t) PROVE StepOK'
  BY <1>12 DEF CreateEnter, Lock, Goto, Instance
<1>13. ASSUME NEW t \in Thread, CreateUnique(t) PROVE StepOK'
  BY <1>13 DEF CreateUnique, Goto
<1>14. ASSUME NEW t \in Thread, CreateNameTaken(t) PROVE StepOK'
  BY <1>14 DEF CreateNameTaken, Unlock, Return, Goto, Instance
<1>15. ASSUME NEW t \in Thread, CreateInsert(t) PROVE StepOK'
  BY <1>15 DEF CreateInsert, RowOf, Goto, Tangle
<1>16. ASSUME NEW t \in Thread, CreateInsertFails(t) PROVE StepOK'
  BY <1>16 DEF CreateInsertFails, Unlock, Goto, Return
<1>17. ASSUME NEW t \in Thread, CreateRecord(t) PROVE StepOK'
  BY <1>17 DEF CreateRecord, Unlock, Return, Goto, Instance
<1>18. ASSUME NEW t \in Thread, CreateRecordFails(t) PROVE StepOK'
  BY <1>18 DEF CreateRecordFails, Unlock, Return, Goto
<1>19. ASSUME NEW t \in Thread, UpdateNoGuid(t) PROVE StepOK'
  BY <1>19 DEF UpdateNoGuid, Return, Goto
<1>20. ASSUME NEW t \in Thread, UpdateEnter(t) PROVE StepOK'
  BY <1>20 DEF UpdateEnter, Lock, Goto
<1>21. ASSUME NEW t \in Thread, UpdateUnique(t) PROVE StepOK'
  BY <1>21 DEF UpdateUnique, Goto
<1>22. ASSUME NEW t \in Thread, UpdateNameTaken(t) PROVE StepOK'
  BY <1>22 DEF UpdateNameTaken, Unlock, Return, Goto
<1>23. ASSUME NEW t \in Thread, UpdateRow(t) PROVE StepOK'
  BY <1>23 DEF UpdateRow, RowOf, Goto, Tangle
<1>24. ASSUME NEW t \in Thread, UpdateNothing(t) PROVE StepOK'
  BY <1>24 DEF UpdateNothing, Unlock, Goto, Return
<1>25. ASSUME NEW t \in Thread, UpdateFails(t) PROVE StepOK'
  BY <1>25 DEF UpdateFails, Unlock, Return, Goto
<1>26. ASSUME NEW t \in Thread, DeleteNoGuid(t) PROVE StepOK'
  BY <1>26 DEF DeleteNoGuid, Return, Goto
<1>27. ASSUME NEW t \in Thread, DeleteEnter(t) PROVE StepOK'
  BY <1>27 DEF DeleteEnter, Lock, Goto
<1>28. ASSUME NEW t \in Thread, DeleteRow(t) PROVE StepOK'
  BY <1>28 DEF DeleteRow, Goto, Tangle
<1>29. ASSUME NEW t \in Thread, DeleteFails(t) PROVE StepOK'
  BY <1>29 DEF DeleteFails, Unlock, Return, Goto
<1>30. ASSUME NEW t \in Thread, PurgeNoGuid(t) PROVE StepOK'
  BY <1>30 DEF PurgeNoGuid, Return, Goto
<1>31. ASSUME NEW t \in Thread, PurgeRow(t) PROVE StepOK'
  BY <1>31 DEF PurgeRow, Goto, Tangle
<1>32. ASSUME NEW t \in Thread, PurgeNothing(t) PROVE StepOK'
  BY <1>32 DEF PurgeNothing, Return, Goto
<1>33. ASSUME NEW t \in Thread, PurgeFails(t) PROVE StepOK'
  BY <1>33 DEF PurgeFails, Goto, StepOK
<1>34. ASSUME NEW t \in Thread, RecordGuid(t) PROVE StepOK'
  BY <1>34 DEF RecordGuid, Goto
<1>35. ASSUME NEW t \in Thread, RecordAction(t) PROVE StepOK'
  BY <1>35 DEF RecordAction, Goto, ActionOf
<1>36. ASSUME NEW t \in Thread, RecordWrite(t) PROVE StepOK'
  BY <1>36 DEF RecordWrite, Unlock, Return, Goto, Instance
<1>37. ASSUME NEW t \in Thread, RecordFails(t) PROVE StepOK'
  BY <1>37 DEF RecordFails, Unlock, Return, Goto
<1>38. ASSUME NEW p \in Process, Crash(p) PROVE StepOK'
  BY <1>38 DEF Crash, Fresh, Unset, Instance
<1>39. CASE UNCHANGED vars
  BY <1>39 DEF vars
<1> QED
  BY <1>1, <1>2, <1>3, <1>4, <1>5, <1>6, <1>7, <1>8, <1>9, <1>10, <1>11,
     <1>12, <1>13, <1>14, <1>15, <1>16, <1>17, <1>18, <1>19, <1>20, <1>21,
     <1>22, <1>23, <1>24, <1>25, <1>26, <1>27, <1>28, <1>29, <1>30, <1>31,
     <1>32, <1>33, <1>34, <1>35, <1>36, <1>37, <1>38, <1>39 DEF Next,
     Instances, Calls, Proceed, Creating, Updating, Deleting, Recording

\* The types hold in an empty database with no thread in a call.
LEMMA InitTypes == Init => TypeOK /\ StepOK
<1> SUFFICES ASSUME Init PROVE TypeOK /\ StepOK
  OBVIOUS
<1>1. TypeOK
  BY NullAssumption, BoundAssumption DEF Init, TypeOK, Instance, Fresh, Unset, Action, Call, Step
<1>2. StepOK
  BY DEF Init, StepOK, CREATE_STEPS, UPDATE_STEPS, RECORD_STEPS
<1> QED BY <1>1, <1>2

\* Every variable keeps its type, and a thread's step agrees with its call.
THEOREM TypeInvariant == Spec => [](TypeOK /\ StepOK)
<1>1. Init => TypeOK /\ StepOK
  BY InitTypes
<1>2. TypeOK /\ StepOK /\ [Next]_vars => (TypeOK /\ StepOK)'
  BY TypeStep, StepStep
<1> QED BY <1>1, <1>2, PTL DEF Spec

\* Unlock takes from t every mutex it holds, and no mutex from anybody else.
LEMMA UnlockOnly ==
    ASSUME TypeOK, NEW t \in Thread, Unlock(t), NEW u \in Thread, NEW m \in Mutex
    PROVE  holder'[m][ProcessOf[u]] = u <=> holder[m][ProcessOf[u]] = u /\ u # t
BY ProcessAssumption, NullAssumption DEF TypeOK, Unlock

\* Every step keeps the discipline of the mutexes.
LEMMA MutexStep == TypeOK /\ StepOK /\ MutexDiscipline /\ [Next]_vars => MutexDiscipline'
<1> SUFFICES ASSUME TypeOK, StepOK, MutexDiscipline, [Next]_vars,
                    NEW u \in Thread, NEW m \in Mutex
             PROVE  (Inside(u, m) <=> holder[m][ProcessOf[u]] = u)'
  BY DEF MutexDiscipline
<1> DEFINE Goal == (Inside(u, m) <=> holder[m][ProcessOf[u]] = u)'
<1>0. /\ pc \in [Thread -> Step] /\ call \in [Thread -> Call]
      /\ holder \in [Mutex -> [Process -> Thread \cup {NoThread}]]
  BY DEF TypeOK
<1>m. \A v \in Thread, n \in Mutex : Inside(v, n) <=> holder[n][ProcessOf[v]] = v
  BY DEF MutexDiscipline
<1> USE <1>0, <1>m, ProcessAssumption, NullAssumption DEF Inside, RECORD_STEPS, CREATE_STEPS, UPDATE_STEPS, Mutex
<1>1. ASSUME NEW t \in Thread, NEW p \in Place, New(t, p) PROVE Goal
  BY <1>1 DEF New
<1>2. ASSUME NEW t \in Thread, NEW p \in Place, SetPlace(t, p) PROVE Goal
  BY <1>2 DEF SetPlace
<1>3. ASSUME NEW t \in Thread, NEW g \in Guid, Load(t, g) PROVE Goal
  BY <1>3 DEF Load
<1>4. ASSUME NEW t \in Thread, NEW g \in Guid, SetGuid(t, g) PROVE Goal
  BY <1>4 DEF SetGuid
<1>5. ASSUME NEW t \in Thread, NEW g \in Guid, UndeleteCall(t, g) PROVE Goal
  BY <1>5 DEF UndeleteCall
<1>6. ASSUME NEW t \in Thread, CreateCall(t) PROVE Goal
  BY <1>6 DEF CreateCall, Start, Goto
<1>7. ASSUME NEW t \in Thread, UpdateCall(t) PROVE Goal
  BY <1>7 DEF UpdateCall, Start, Goto
<1>8. ASSUME NEW t \in Thread, SaveCall(t) PROVE Goal
  BY <1>8 DEF SaveCall, Start, Goto
<1>9. ASSUME NEW t \in Thread, DeleteCall(t) PROVE Goal
  BY <1>9 DEF DeleteCall, Start, Goto
<1>10. ASSUME NEW t \in Thread, PurgeCall(t) PROVE Goal
  BY <1>10 DEF PurgeCall, Start, Goto
<1>11. ASSUME NEW t \in Thread, CreateDuplicate(t) PROVE Goal
  BY <1>11 DEF CreateDuplicate, Return, Goto, AlreadyCreated
<1>12. ASSUME NEW t \in Thread, CreateEnter(t) PROVE Goal
  BY <1>12 DEF CreateEnter, Lock, Free, Goto
<1>13. ASSUME NEW t \in Thread, CreateUnique(t) PROVE Goal
  BY <1>13 DEF CreateUnique, Goto
<1>14. ASSUME NEW t \in Thread, CreateNameTaken(t) PROVE Goal
  BY <1>14, UnlockOnly DEF CreateNameTaken, Return, Goto
<1>15. ASSUME NEW t \in Thread, CreateInsert(t) PROVE Goal
  BY <1>15 DEF CreateInsert, Goto
<1>16. ASSUME NEW t \in Thread, CreateInsertFails(t) PROVE Goal
  BY <1>16, UnlockOnly DEF CreateInsertFails, Return, Goto
<1>17. ASSUME NEW t \in Thread, CreateRecord(t) PROVE Goal
  BY <1>17, UnlockOnly DEF CreateRecord, Return, Goto
<1>18. ASSUME NEW t \in Thread, CreateRecordFails(t) PROVE Goal
  BY <1>18, UnlockOnly DEF CreateRecordFails, Return, Goto
<1>19. ASSUME NEW t \in Thread, UpdateNoGuid(t) PROVE Goal
  BY <1>19 DEF UpdateNoGuid, Return, Goto
<1>20. ASSUME NEW t \in Thread, UpdateEnter(t) PROVE Goal
  BY <1>20 DEF UpdateEnter, Lock, Free, Goto
<1>21. ASSUME NEW t \in Thread, UpdateUnique(t) PROVE Goal
  BY <1>21 DEF UpdateUnique, Goto
<1>22. ASSUME NEW t \in Thread, UpdateNameTaken(t) PROVE Goal
  BY <1>22, UnlockOnly DEF UpdateNameTaken, Return, Goto
<1>23. ASSUME NEW t \in Thread, UpdateRow(t) PROVE Goal
  BY <1>23 DEF UpdateRow, Goto, StepOK
<1>24. ASSUME NEW t \in Thread, UpdateNothing(t) PROVE Goal
  BY <1>24, UnlockOnly DEF UpdateNothing, Return, Goto
<1>25. ASSUME NEW t \in Thread, UpdateFails(t) PROVE Goal
  BY <1>25, UnlockOnly DEF UpdateFails, Return, Goto
<1>26. ASSUME NEW t \in Thread, DeleteNoGuid(t) PROVE Goal
  BY <1>26 DEF DeleteNoGuid, Return, Goto
<1>27. ASSUME NEW t \in Thread, DeleteEnter(t) PROVE Goal
  BY <1>27 DEF DeleteEnter, Lock, Free, Goto
<1>28. ASSUME NEW t \in Thread, DeleteRow(t) PROVE Goal
  BY <1>28 DEF DeleteRow, Goto, StepOK
<1>29. ASSUME NEW t \in Thread, DeleteFails(t) PROVE Goal
  BY <1>29, UnlockOnly DEF DeleteFails, Return, Goto
<1>30. ASSUME NEW t \in Thread, PurgeNoGuid(t) PROVE Goal
  BY <1>30 DEF PurgeNoGuid, Return, Goto
<1>31. ASSUME NEW t \in Thread, PurgeRow(t) PROVE Goal
  BY <1>31 DEF PurgeRow, Goto, StepOK
<1>32. ASSUME NEW t \in Thread, PurgeNothing(t) PROVE Goal
  BY <1>32 DEF PurgeNothing, Return, Goto
<1>33. ASSUME NEW t \in Thread, PurgeFails(t) PROVE Goal
  BY <1>33 DEF PurgeFails, Goto, StepOK
<1>34. ASSUME NEW t \in Thread, RecordGuid(t) PROVE Goal
  BY <1>34 DEF RecordGuid, Goto, StepOK
<1>35. ASSUME NEW t \in Thread, RecordAction(t) PROVE Goal
  BY <1>35 DEF RecordAction, Goto, StepOK
<1>36. ASSUME NEW t \in Thread, RecordWrite(t) PROVE Goal
  BY <1>36, UnlockOnly DEF RecordWrite, Return, Goto, StepOK
<1>37. ASSUME NEW t \in Thread, RecordFails(t) PROVE Goal
  BY <1>37, UnlockOnly DEF RecordFails, Return, Goto, StepOK
<1>38. ASSUME NEW p \in Process, Crash(p) PROVE Goal
  BY <1>38 DEF Crash
<1>39. CASE UNCHANGED vars
  BY <1>39 DEF vars
<1> QED
  BY <1>1, <1>2, <1>3, <1>4, <1>5, <1>6, <1>7, <1>8, <1>9, <1>10, <1>11,
     <1>12, <1>13, <1>14, <1>15, <1>16, <1>17, <1>18, <1>19, <1>20, <1>21,
     <1>22, <1>23, <1>24, <1>25, <1>26, <1>27, <1>28, <1>29, <1>30, <1>31,
     <1>32, <1>33, <1>34, <1>35, <1>36, <1>37, <1>38, <1>39 DEF Next,
     Instances, Calls, Proceed, Creating, Updating, Deleting, Recording

\* A mutex is held exactly by the thread that is inside the code it guards,
\* whatever the threads, their processes and the order of their steps.
THEOREM MutexesDisciplined == Spec => []MutexDiscipline
<1>1. Init => MutexDiscipline
  BY ProcessAssumption, NullAssumption DEF Init, MutexDiscipline, Inside, RECORD_STEPS
<1>2. TypeOK /\ StepOK /\ MutexDiscipline /\ [Next]_vars => MutexDiscipline'
  BY MutexStep
<1> QED BY <1>1, <1>2, TypeInvariant, PTL DEF Spec

\* Append never returns the empty sequence.
LEMMA AppendNotEmpty ==
    ASSUME NEW S, NEW s \in Seq(S), NEW e \in S
    PROVE  Append(s, e) # <<>>
<1>1. Len(Append(s, e)) = Len(s) + 1 /\ Len(s) \in Nat
  OBVIOUS
<1>2. Len(<<>>) = 0
  OBVIOUS
<1> QED BY <1>1, <1>2

\* Every step keeps an object of the class's table in the replication log.
LEMMA RecordedStep ==
    TypeOK /\ StepOK /\ EveryRowRecorded /\ [Next]_vars => EveryRowRecorded'
<1> SUFFICES ASSUME TypeOK, StepOK, EveryRowRecorded, [Next]_vars,
                    NEW h \in Guid, h \notin torn', rows'[h] # <<>>
             PROVE  \/ repl'[h] # <<>>
                    \/ \E v \in Thread : pc'[v] = "create_record" /\ obj'[v].guid = h
  BY DEF EveryRowRecorded
<1> DEFINE Goal == \/ repl'[h] # <<>>
                   \/ \E v \in Thread : pc'[v] = "create_record" /\ obj'[v].guid = h
<1>0. /\ rows \in [Guid -> Seq(Row)] /\ repl \in [Guid -> Seq(Action)]
      /\ pc \in [Thread -> Step] /\ call \in [Thread -> Call]
      /\ obj \in [Thread -> Instance]
  BY DEF TypeOK
<1>r. ASSUME h \notin torn, rows[h] # <<>>
      PROVE  \/ repl[h] # <<>>
             \/ \E v \in Thread : pc[v] = "create_record" /\ obj[v].guid = h
  BY <1>r DEF EveryRowRecorded
<1> USE <1>0, <1>r, NullAssumption DEF db, history, Instance
<1>1. ASSUME NEW t \in Thread, NEW p \in Place, New(t, p) PROVE Goal
  BY <1>1 DEF New
<1>2. ASSUME NEW t \in Thread, NEW p \in Place, SetPlace(t, p) PROVE Goal
  BY <1>2 DEF SetPlace
<1>3. ASSUME NEW t \in Thread, NEW g \in Guid, Load(t, g) PROVE Goal
  BY <1>3 DEF Load
<1>4. ASSUME NEW t \in Thread, NEW g \in Guid, SetGuid(t, g) PROVE Goal
  BY <1>4 DEF SetGuid
<1>5. ASSUME NEW t \in Thread, NEW g \in Guid, UndeleteCall(t, g) PROVE Goal
  BY <1>5 DEF UndeleteCall, RepligardProperty
<1>6. ASSUME NEW t \in Thread, CreateCall(t) PROVE Goal
  BY <1>6 DEF CreateCall, Goto, Start
<1>7. ASSUME NEW t \in Thread, UpdateCall(t) PROVE Goal
  BY <1>7 DEF UpdateCall, Goto, Start
<1>8. ASSUME NEW t \in Thread, SaveCall(t) PROVE Goal
  BY <1>8 DEF SaveCall, Goto, Start
<1>9. ASSUME NEW t \in Thread, DeleteCall(t) PROVE Goal
  BY <1>9 DEF DeleteCall, Goto, Start
<1>10. ASSUME NEW t \in Thread, PurgeCall(t) PROVE Goal
  BY <1>10 DEF PurgeCall, Goto, Start
<1>11. ASSUME NEW t \in Thread, CreateDuplicate(t) PROVE Goal
  BY <1>11 DEF CreateDuplicate, Goto, Return
<1>12. ASSUME NEW t \in Thread, CreateEnter(t) PROVE Goal
  BY <1>12 DEF CreateEnter, Goto, Return
<1>13. ASSUME NEW t \in Thread, CreateUnique(t) PROVE Goal
  BY <1>13 DEF CreateUnique, Goto, Return
<1>14. ASSUME NEW t \in Thread, CreateNameTaken(t) PROVE Goal
  BY <1>14 DEF CreateNameTaken, Goto, Return
<1>15. ASSUME NEW t \in Thread, CreateInsert(t) PROVE Goal
  BY <1>15 DEF CreateInsert, Goto, Return
<1>16. ASSUME NEW t \in Thread, CreateInsertFails(t) PROVE Goal
  BY <1>16 DEF CreateInsertFails, Goto, Return
<1>17. ASSUME NEW t \in Thread, CreateRecord(t) PROVE Goal
  <2>1. CASE h = obj[t].guid
    <3>1. repl'[h] = Append(repl[h], "create")
      BY <1>17, <2>1 DEF CreateRecord
    <3>2. Append(repl[h], "create") # <<>>
      <4>1. repl[h] \in Seq(Action) /\ "create" \in Action
        BY DEF Action
      <4> QED BY <4>1, AppendNotEmpty
    <3> QED BY <3>1, <3>2
  <2>2. CASE h # obj[t].guid
    BY <1>17, <2>2 DEF CreateRecord, Goto, Return
  <2> QED BY <2>1, <2>2
<1>18. ASSUME NEW t \in Thread, CreateRecordFails(t) PROVE Goal
  BY <1>18 DEF CreateRecordFails, Goto, Return
<1>19. ASSUME NEW t \in Thread, UpdateNoGuid(t) PROVE Goal
  BY <1>19 DEF UpdateNoGuid, Goto, Return
<1>20. ASSUME NEW t \in Thread, UpdateEnter(t) PROVE Goal
  BY <1>20 DEF UpdateEnter, Goto, Return
<1>21. ASSUME NEW t \in Thread, UpdateUnique(t) PROVE Goal
  BY <1>21 DEF UpdateUnique, Goto, Return
<1>22. ASSUME NEW t \in Thread, UpdateNameTaken(t) PROVE Goal
  BY <1>22 DEF UpdateNameTaken, Goto, Return
<1>23. ASSUME NEW t \in Thread, UpdateRow(t) PROVE Goal
  BY <1>23 DEF UpdateRow, Goto, Return
<1>24. ASSUME NEW t \in Thread, UpdateNothing(t) PROVE Goal
  BY <1>24 DEF UpdateNothing, Goto, Return
<1>25. ASSUME NEW t \in Thread, UpdateFails(t) PROVE Goal
  BY <1>25 DEF UpdateFails, Goto, Return
<1>26. ASSUME NEW t \in Thread, DeleteNoGuid(t) PROVE Goal
  BY <1>26 DEF DeleteNoGuid, Goto, Return
<1>27. ASSUME NEW t \in Thread, DeleteEnter(t) PROVE Goal
  BY <1>27 DEF DeleteEnter, Goto, Return
<1>28. ASSUME NEW t \in Thread, DeleteRow(t) PROVE Goal
  BY <1>28 DEF DeleteRow, Goto, Return
<1>29. ASSUME NEW t \in Thread, DeleteFails(t) PROVE Goal
  BY <1>29 DEF DeleteFails, Goto, Return
<1>30. ASSUME NEW t \in Thread, PurgeNoGuid(t) PROVE Goal
  BY <1>30 DEF PurgeNoGuid, Goto, Return
<1>31. ASSUME NEW t \in Thread, PurgeRow(t) PROVE Goal
  BY <1>31 DEF PurgeRow, Goto, Return
<1>32. ASSUME NEW t \in Thread, PurgeNothing(t) PROVE Goal
  BY <1>32 DEF PurgeNothing, Goto, Return
<1>33. ASSUME NEW t \in Thread, PurgeFails(t) PROVE Goal
  BY <1>33 DEF PurgeFails, Goto, Return
<1>34. ASSUME NEW t \in Thread, RecordGuid(t) PROVE Goal
  BY <1>34 DEF RecordGuid, Goto, Return
<1>35. ASSUME NEW t \in Thread, RecordAction(t) PROVE Goal
  BY <1>35 DEF RecordAction, Goto, Return
<1>36. ASSUME NEW t \in Thread, RecordWrite(t) PROVE Goal
  BY <1>36 DEF RecordWrite, Goto, Return
<1>37. ASSUME NEW t \in Thread, RecordFails(t) PROVE Goal
  BY <1>37 DEF RecordFails, Goto, Return
<1>38. ASSUME NEW p \in Process, Crash(p) PROVE Goal
  BY <1>38 DEF Crash, Pending
<1>39. CASE UNCHANGED vars
  BY <1>39 DEF vars
<1> QED
  BY <1>1, <1>2, <1>3, <1>4, <1>5, <1>6, <1>7, <1>8, <1>9, <1>10, <1>11,
     <1>12, <1>13, <1>14, <1>15, <1>16, <1>17, <1>18, <1>19, <1>20, <1>21,
     <1>22, <1>23, <1>24, <1>25, <1>26, <1>27, <1>28, <1>29, <1>30, <1>31,
     <1>32, <1>33, <1>34, <1>35, <1>36, <1>37, <1>38, <1>39 DEF Next,
     Instances, Calls, Proceed, Creating, Updating, Deleting, Recording

\* An object of the class's table is in the replication log, unless its create
\* is still to write there or stopped between the two tables.
THEOREM RowsRecorded == Spec => []EveryRowRecorded
<1>1. Init => EveryRowRecorded
  BY DEF Init, EveryRowRecorded
<1>2. TypeOK /\ StepOK /\ EveryRowRecorded /\ [Next]_vars => EveryRowRecorded'
  BY RecordedStep
<1> QED BY <1>1, <1>2, TypeInvariant, PTL DEF Spec

(***************************************************************************)
(* The mutex of create makes its check and its INSERT one: between the two *)
(* no other create of the process stores a record, and an update that does *)
(* puts its guid in "unvouched", as a check does whose query failed.       *)
(***************************************************************************)
OneProcess == \A t, u \in Thread : ProcessOf[t] = ProcessOf[u]

\* What the check of create found still holds when its INSERT runs.
NameStillFree ==
    \A t \in Thread : pc[t] = "create_row" /\ obj[t].place # NoName =>
        \A h \in Guid \ unvouched :
            h # obj[t].guid /\ Live(h, obj[t].place) => obj[t].guid \in unvouched

NamesOK == CreatedNamesUnique /\ NameStillFree

\* A step that stores nothing new under a name, and moves no thread to its
\* INSERT, keeps the names unique.
LEMMA NoNewName ==
    ASSUME NamesOK, unvouched \subseteq unvouched',
           \A g \in Guid \ unvouched', p \in Place : Live(g, p)' => Live(g, p),
           \A t \in Thread : pc'[t] = "create_row" =>
               pc[t] = "create_row" /\ obj'[t] = obj[t],
           TypeOK
    PROVE  NamesOK'
<1>1. CreatedNamesUnique'
  BY DEF NamesOK, CreatedNamesUnique
<1>2. NameStillFree'
  <2> SUFFICES ASSUME NEW t \in Thread, pc'[t] = "create_row", obj'[t].place # NoName,
                      NEW h \in Guid \ unvouched',
                      h # obj'[t].guid, Live(h, obj[t].place)'
               PROVE  obj'[t].guid \in unvouched'
    BY DEF NameStillFree
  <2>1. obj[t].place \in Place /\ obj'[t] = obj[t] /\ pc[t] = "create_row"
    BY DEF TypeOK, Instance
  <2>2. Live(h, obj[t].place)
    BY <2>1 DEF Live
  <2> QED BY <2>1, <2>2 DEF NamesOK, NameStillFree
<1> QED BY <1>1, <1>2 DEF NamesOK

\* No step of the threads of one process gives two created objects a name.
LEMMA NamesStep ==
    ASSUME OneProcess, TypeOK, StepOK, MutexDiscipline, NamesOK, [Next]_vars
    PROVE  NamesOK'
<1>0. /\ rows \in [Guid -> Seq(Row)]
      /\ pc \in [Thread -> Step] /\ call \in [Thread -> Call]
      /\ obj \in [Thread -> Instance]
  BY DEF TypeOK
<1> USE <1>0, NullAssumption DEF db, history
<1>1. ASSUME NEW t \in Thread, NEW p \in Place, New(t, p) PROVE NamesOK'
  BY <1>1, NoNewName DEF New, Live
<1>2. ASSUME NEW t \in Thread, NEW p \in Place, SetPlace(t, p) PROVE NamesOK'
  BY <1>2, NoNewName DEF SetPlace, Live
<1>3. ASSUME NEW t \in Thread, NEW g \in Guid, Load(t, g) PROVE NamesOK'
  BY <1>3, NoNewName DEF Load, Live
<1>4. ASSUME NEW t \in Thread, NEW g \in Guid, SetGuid(t, g) PROVE NamesOK'
  BY <1>4, NoNewName DEF SetGuid, Live
<1>5. ASSUME NEW t \in Thread, NEW g \in Guid, UndeleteCall(t, g) PROVE NamesOK'
  BY <1>5, NoNewName DEF UndeleteCall, Live, RepligardProperty
<1>6. ASSUME NEW t \in Thread, CreateCall(t) PROVE NamesOK'
  BY <1>6, NoNewName DEF CreateCall, Live, Goto, Start
<1>7. ASSUME NEW t \in Thread, UpdateCall(t) PROVE NamesOK'
  BY <1>7, NoNewName DEF UpdateCall, Live, Goto, Start
<1>8. ASSUME NEW t \in Thread, SaveCall(t) PROVE NamesOK'
  BY <1>8, NoNewName DEF SaveCall, Live, Goto, Start
<1>9. ASSUME NEW t \in Thread, DeleteCall(t) PROVE NamesOK'
  BY <1>9, NoNewName DEF DeleteCall, Live, Goto, Start
<1>10. ASSUME NEW t \in Thread, PurgeCall(t) PROVE NamesOK'
  BY <1>10, NoNewName DEF PurgeCall, Live, Goto, Start
<1>11. ASSUME NEW t \in Thread, CreateDuplicate(t) PROVE NamesOK'
  BY <1>11, NoNewName DEF CreateDuplicate, Live, Goto, Return
<1>12. ASSUME NEW t \in Thread, CreateEnter(t) PROVE NamesOK'
  BY <1>12, NoNewName DEF CreateEnter, Live, Goto, Return
<1>13. ASSUME NEW t \in Thread, CreateUnique(t) PROVE NamesOK'
  <2>0. unvouched \subseteq unvouched' /\ UNCHANGED <<rows, obj>>
    BY <1>13 DEF CreateUnique
  <2>1. CreatedNamesUnique'
    BY <2>0 DEF NamesOK, CreatedNamesUnique, Live
  <2>2. NameStillFree'
    <3> SUFFICES ASSUME NEW u \in Thread, pc'[u] = "create_row", obj[u].place # NoName,
                        NEW h \in Guid \ unvouched',
                        h # obj[u].guid, Live(h, obj[u].place)
                 PROVE  obj[u].guid \in unvouched'
      BY <2>0 DEF NameStillFree, Live
    <3>1. CASE u = t /\ MayBeUnique(obj[t])
      <4>2. obj[t].guid \in Namesakes(obj[t])
        BY <2>0, <3>1 DEF MayBeUnique, Namesakes
      <4>3. obj[t].guid \in Guid /\ Live(obj[t].guid, obj[t].place)
        BY <4>2 DEF Namesakes
      <4>4. obj[t].place \in Place \ {NoName}
        BY <3>1 DEF Instance
      <4> QED BY <2>0, <3>1, <4>3, <4>4 DEF NamesOK, CreatedNamesUnique
    <3>2. CASE u = t /\ ~MayBeUnique(obj[t])
      BY <1>13, <3>2 DEF CreateUnique
    <3>3. CASE u # t
      BY <1>13, <2>0, <3>3 DEF CreateUnique, Goto, NamesOK, NameStillFree
    <3> QED BY <3>1, <3>2, <3>3
  <2> QED BY <2>1, <2>2 DEF NamesOK
<1>14. ASSUME NEW t \in Thread, CreateNameTaken(t) PROVE NamesOK'
  BY <1>14, NoNewName DEF CreateNameTaken, Live, Goto, Return
<1>15. ASSUME NEW t \in Thread, CreateInsert(t) PROVE NamesOK'
  <2> DEFINE g == obj[t].guid
  <2>1. /\ g \in Guid /\ pc[t] = "create_row"
        /\ rows' = [rows EXCEPT ![g] = Append(@, RowOf(obj[t]))]
        /\ pc' = [pc EXCEPT ![t] = "create_record"]
        /\ UNCHANGED <<obj, unvouched>>
    BY <1>15, HasGuid DEF CreateInsert, CREATE_STEPS, Goto
  <2>2. \A u \in Thread : u # t => pc[u] # "create_row"
    <3> SUFFICES ASSUME NEW u \in Thread, pc[u] = "create_row" PROVE u = t
      OBVIOUS
    <3>1. Inside(t, "create") /\ Inside(u, "create")
      BY <2>1 DEF Inside
    <3> QED BY <3>1 DEF MutexDiscipline, OneProcess, Mutex
  <2>3. \A h \in Guid, p \in Place :
            Live(h, p)' => Live(h, p) \/ (h = g /\ p = obj[t].place)
    <3> SUFFICES ASSUME NEW h \in Guid, NEW p \in Place, Live(h, p)', h = g
                 PROVE  Live(h, p) \/ p = obj[t].place
      BY <2>1 DEF Live
    <3>1. PICK i \in DOMAIN rows'[g] : rows'[g][i].place = p /\ ~rows'[g][i].deleted
      BY DEF Live
    <3>2. rows'[g] = Append(rows[g], RowOf(obj[t])) /\ rows[g] \in Seq(Row)
      BY <2>1
    <3>3. CASE i \in DOMAIN rows[g]
      <4>1. rows'[g][i] = rows[g][i]
        BY <3>2, <3>3
      <4> QED BY <3>1, <3>3, <4>1 DEF Live
    <3>4. CASE i \notin DOMAIN rows[g]
      <4>1. rows'[g][i] = RowOf(obj[t])
        BY <3>1, <3>2, <3>4, RowOfTypes
      <4> QED BY <3>1, <4>1 DEF RowOf
    <3> QED BY <3>3, <3>4
  <2>4. NameStillFree'
    BY <2>1, <2>2 DEF NameStillFree
  <2>5. CreatedNamesUnique'
    <3> SUFFICES ASSUME NEW h \in Guid \ unvouched, NEW k \in Guid \ unvouched,
                        NEW p \in Place \ {NoName}, Live(h, p)', Live(k, p)'
                 PROVE  h = k
      BY <2>1 DEF CreatedNamesUnique
    <3>1. Live(h, p) \/ (h = g /\ p = obj[t].place)
      BY <2>3
    <3>2. Live(k, p) \/ (k = g /\ p = obj[t].place)
      BY <2>3
    <3>3. ASSUME NEW j \in Guid \ unvouched, Live(j, p), p = obj[t].place, g \notin unvouched
          PROVE  j = g
      BY <2>1, <3>3 DEF NamesOK, NameStillFree
    <3> HIDE DEF g
    <3> QED BY <3>1, <3>2, <3>3 DEF NamesOK, CreatedNamesUnique
  <2> QED BY <2>4, <2>5 DEF NamesOK
<1>16. ASSUME NEW t \in Thread, CreateInsertFails(t) PROVE NamesOK'
  BY <1>16, NoNewName DEF CreateInsertFails, Live, Goto, Return
<1>17. ASSUME NEW t \in Thread, CreateRecord(t) PROVE NamesOK'
  BY <1>17, NoNewName DEF CreateRecord, Live, Goto, Return
<1>18. ASSUME NEW t \in Thread, CreateRecordFails(t) PROVE NamesOK'
  BY <1>18, NoNewName DEF CreateRecordFails, Live, Goto, Return
<1>19. ASSUME NEW t \in Thread, UpdateNoGuid(t) PROVE NamesOK'
  BY <1>19, NoNewName DEF UpdateNoGuid, Live, Goto, Return
<1>20. ASSUME NEW t \in Thread, UpdateEnter(t) PROVE NamesOK'
  BY <1>20, NoNewName DEF UpdateEnter, Live, Goto, Return
<1>21. ASSUME NEW t \in Thread, UpdateUnique(t) PROVE NamesOK'
  BY <1>21, NoNewName DEF UpdateUnique, Live, Goto, Return
<1>22. ASSUME NEW t \in Thread, UpdateNameTaken(t) PROVE NamesOK'
  BY <1>22, NoNewName DEF UpdateNameTaken, Live, Goto, Return
<1>23. ASSUME NEW t \in Thread, UpdateRow(t) PROVE NamesOK'
  BY <1>23, NoNewName DEF UpdateRow, Live, Goto, Return
<1>24. ASSUME NEW t \in Thread, UpdateNothing(t) PROVE NamesOK'
  BY <1>24, NoNewName DEF UpdateNothing, Live, Goto, Return
<1>25. ASSUME NEW t \in Thread, UpdateFails(t) PROVE NamesOK'
  BY <1>25, NoNewName DEF UpdateFails, Live, Goto, Return
<1>26. ASSUME NEW t \in Thread, DeleteNoGuid(t) PROVE NamesOK'
  BY <1>26, NoNewName DEF DeleteNoGuid, Live, Goto, Return
<1>27. ASSUME NEW t \in Thread, DeleteEnter(t) PROVE NamesOK'
  BY <1>27, NoNewName DEF DeleteEnter, Live, Goto, Return
<1>28. ASSUME NEW t \in Thread, DeleteRow(t) PROVE NamesOK'
  BY <1>28, NoNewName DEF DeleteRow, Live, Goto, Return
<1>29. ASSUME NEW t \in Thread, DeleteFails(t) PROVE NamesOK'
  BY <1>29, NoNewName DEF DeleteFails, Live, Goto, Return
<1>30. ASSUME NEW t \in Thread, PurgeNoGuid(t) PROVE NamesOK'
  BY <1>30, NoNewName DEF PurgeNoGuid, Live, Goto, Return
<1>31. ASSUME NEW t \in Thread, PurgeRow(t) PROVE NamesOK'
  BY <1>31, NoNewName DEF PurgeRow, Live, Goto, Return
<1>32. ASSUME NEW t \in Thread, PurgeNothing(t) PROVE NamesOK'
  BY <1>32, NoNewName DEF PurgeNothing, Live, Goto, Return
<1>33. ASSUME NEW t \in Thread, PurgeFails(t) PROVE NamesOK'
  BY <1>33, NoNewName DEF PurgeFails, Live, Goto, Return
<1>34. ASSUME NEW t \in Thread, RecordGuid(t) PROVE NamesOK'
  BY <1>34, NoNewName DEF RecordGuid, Live, Goto, Return
<1>35. ASSUME NEW t \in Thread, RecordAction(t) PROVE NamesOK'
  BY <1>35, NoNewName DEF RecordAction, Live, Goto, Return
<1>36. ASSUME NEW t \in Thread, RecordWrite(t) PROVE NamesOK'
  BY <1>36, NoNewName DEF RecordWrite, Live, Goto, Return
<1>37. ASSUME NEW t \in Thread, RecordFails(t) PROVE NamesOK'
  BY <1>37, NoNewName DEF RecordFails, Live, Goto, Return
<1>38. ASSUME NEW p \in Process, Crash(p) PROVE NamesOK'
  BY <1>38, NoNewName DEF Crash, Live
<1>39. CASE UNCHANGED vars
  BY <1>39, NoNewName DEF vars, Live
<1> QED
  BY <1>1, <1>2, <1>3, <1>4, <1>5, <1>6, <1>7, <1>8, <1>9, <1>10, <1>11,
     <1>12, <1>13, <1>14, <1>15, <1>16, <1>17, <1>18, <1>19, <1>20, <1>21,
     <1>22, <1>23, <1>24, <1>25, <1>26, <1>27, <1>28, <1>29, <1>30, <1>31,
     <1>32, <1>33, <1>34, <1>35, <1>36, <1>37, <1>38, <1>39 DEF Next,
     Instances, Calls, Proceed, Creating, Updating, Deleting, Recording

\* The threads of one process never create two live objects with one parent
\* and name; only an update can bring such a pair about.
THEOREM NamesUnique ==
    ASSUME OneProcess
    PROVE  Spec => []CreatedNamesUnique
<1>1. Init => NamesOK
  BY DEF Init, NamesOK, CreatedNamesUnique, NameStillFree, Live
<1>2. TypeOK /\ StepOK /\ MutexDiscipline /\ NamesOK /\ [Next]_vars => NamesOK'
  BY OneProcess, NamesStep
<1>3. NamesOK => CreatedNamesUnique
  BY DEF NamesOK
<1> QED BY <1>1, <1>2, <1>3, TypeInvariant, MutexesDisciplined, PTL DEF Spec

(***************************************************************************)
(* The log agrees with the table, when no two threads share a process.     *)
(*                                                                         *)
(* RecordAgrees is about guids nobody is writing.  Between its two         *)
(* statements a call has left in the table what its action will tell of    *)
(* it (WillAgree), because whoever else writes there makes the guid        *)
(* "tangled"; and the shared parameters are its own (ParamsOwn), because   *)
(* nobody else of its process sets them.                                   *)
(***************************************************************************)
OneThreadEach == \A t, u \in Thread : ProcessOf[t] = ProcessOf[u] => t = u

\* The action is one that may be said last of g, as the table has it.
Tells(action, g) ==
    /\ IsLive(g) => action \in {"create", "update"}
    /\ rows[g] = <<>> => action \in {"purge", "delete"}

LogAgrees(g) ==
    repl[g] # <<>> => Tells(repl[g][Len(repl[g])], g)

ParamsOwn(t) ==
    /\ pc[t] \in {"record_action", "record_write"} => params[ProcessOf[t]].guid = obj[t].guid
    /\ pc[t] = "record_write" => params[ProcessOf[t]].action = ActionOf(call[t])

\* What a call that has yet to log itself has made of the records of g.
Left(t, g) ==
    /\ pc[t] = "create_record" \/ call[t] \in {"update", "save"} => rows[g] # <<>>
    /\ pc[t] # "create_record" /\ call[t] = "delete" => ~IsLive(g)
    /\ pc[t] # "create_record" /\ call[t] = "purge" => rows[g] = <<>>

WillAgree(t) ==
    Pending(t) /\ obj[t].guid \notin torn \cup tangled => Left(t, obj[t].guid)

AgreeOK ==
    /\ \A g \in Guid : Settled(g) => LogAgrees(g)
    /\ \A t \in Thread : ParamsOwn(t) /\ WillAgree(t)

\* A guid with the records and the log it had agrees as it did.
LEMMA SameAgrees ==
    ASSUME NEW g \in Guid, rows'[g] = rows[g], repl'[g] = repl[g], LogAgrees(g)
    PROVE  LogAgrees(g)'
<1>1. IsLive(g)' = IsLive(g)
  BY DEF IsLive, Live
<1> QED BY <1>1 DEF LogAgrees, Tells

\* A thread that does not move will agree as before, unless somebody writes
\* the records of its guid, which the history then notes.
LEMMA OthersAgree ==
    ASSUME NEW u \in Thread, ParamsOwn(u), WillAgree(u),
           obj'[u].guid = obj[u].guid, pc'[u] = pc[u], call'[u] = call[u],
           params'[ProcessOf[u]] = params[ProcessOf[u]],
           torn \subseteq torn', tangled \subseteq tangled',
           Pending(u) => obj[u].guid \in tangled' \/ rows'[obj[u].guid] = rows[obj[u].guid]
    PROVE  ParamsOwn(u)' /\ WillAgree(u)'
<1>1. ParamsOwn(u)'
  BY DEF ParamsOwn, ActionOf
<1>2. WillAgree(u)'
  <2>1. CASE ~Pending(u) \/ obj[u].guid \in tangled'
    BY <2>1 DEF WillAgree, Pending
  <2>2. CASE Pending(u) /\ rows'[obj[u].guid] = rows[obj[u].guid]
    <3>1. IsLive(obj[u].guid)' = IsLive(obj[u].guid)
      BY <2>2 DEF IsLive, Live
    <3>2. Left(u, obj[u].guid)' = Left(u, obj[u].guid)
      BY <2>2, <3>1 DEF Left
    <3> QED BY <3>2 DEF WillAgree, Pending
  <2> QED BY <2>1, <2>2
<1> QED BY <1>1, <1>2

\* Threads that are not between two statements move and stay out of it.
LEMMA QuietAgree ==
    ASSUME AgreeOK, NEW t \in Thread, UNCHANGED <<rows, repl, params, torn, tangled>>,
           \A u \in Thread \ {t} : obj'[u].guid = obj[u].guid /\ pc'[u] = pc[u] /\ call'[u] = call[u],
           ~Pending(t), ~Pending(t)'
    PROVE  AgreeOK'
<1>1. ASSUME NEW u \in Thread \ {t} PROVE ParamsOwn(u)' /\ WillAgree(u)'
  BY OthersAgree DEF AgreeOK
<1>2. ParamsOwn(t)' /\ WillAgree(t)'
  BY DEF ParamsOwn, WillAgree, Pending, RECORD_STEPS
<1>3. ASSUME NEW g \in Guid, Settled(g)' PROVE LogAgrees(g)'
  <2>1. Settled(g)
    BY <1>3 DEF Settled, Pending
  <2> QED BY <2>1, SameAgrees DEF AgreeOK
<1> QED BY <1>1, <1>2, <1>3 DEF AgreeOK

\* Threads that leave the tables torn, or go on to log what they have done.
LEMMA OnTheWayAgree ==
    ASSUME OneThreadEach, AgreeOK, NEW t \in Thread, UNCHANGED <<rows, repl, tangled>>,
           torn \subseteq torn',
           \A u \in Thread \ {t} : /\ obj'[u].guid = obj[u].guid /\ pc'[u] = pc[u]
                                   /\ call'[u] = call[u]
                                   /\ params'[ProcessOf[u]] = params[ProcessOf[u]],
           obj'[t].guid = obj[t].guid,
           ~Pending(t) \/ Pending(t)' \/ obj[t].guid \in torn',
           ParamsOwn(t)', WillAgree(t)'
    PROVE  AgreeOK'
<1>1. ASSUME NEW u \in Thread \ {t} PROVE ParamsOwn(u)' /\ WillAgree(u)'
  BY OthersAgree DEF AgreeOK
<1>2. ASSUME NEW g \in Guid, Settled(g)' PROVE LogAgrees(g)'
  <2>1. Settled(g)
    BY <1>2 DEF Settled, Pending
  <2> QED BY <2>1, SameAgrees DEF AgreeOK
<1> QED BY <1>1, <1>2 DEF AgreeOK

\* A statement on the class's table.
LEMMA WriteAgree ==
    ASSUME TypeOK, AgreeOK, NEW t \in Thread, obj[t].guid \in Guid,
           NEW s, rows' = [rows EXCEPT ![obj[t].guid] = s],
           Tangle(t, obj[t].guid), UNCHANGED <<repl, obj, call, params, torn>>,
           \A u \in Thread \ {t} : pc'[u] = pc[u],
           Pending(t)', ParamsOwn(t)', WillAgree(t)'
    PROVE  AgreeOK'
<1>1. tangled \subseteq tangled'
  BY DEF Tangle
<1>2. \A g \in Guid \ {obj[t].guid} : rows'[g] = rows[g]
  BY DEF TypeOK
<1>3. ASSUME NEW u \in Thread \ {t} PROVE ParamsOwn(u)' /\ WillAgree(u)'
  <2>1. CASE Pending(u) /\ obj[u].guid = obj[t].guid
    <3>1. obj[u].guid \in tangled'
      BY <2>1 DEF Tangle
    <3> QED BY <1>1, <3>1, OthersAgree DEF AgreeOK
  <2>2. CASE ~Pending(u)
    BY <1>1, <2>2, OthersAgree DEF AgreeOK
  <2>3. CASE obj[u].guid # obj[t].guid
    <3>1. rows'[obj[u].guid] = rows[obj[u].guid]
      BY <1>2, <2>3 DEF TypeOK
    <3> QED BY <1>1, <3>1, OthersAgree DEF AgreeOK
  <2> QED BY <2>1, <2>2, <2>3
<1>4. ASSUME NEW g \in Guid, Settled(g)' PROVE LogAgrees(g)'
  <2>1. g # obj[t].guid
    BY <1>4 DEF Settled
  <2>2. Settled(g)
    <3>1. ASSUME NEW u \in Thread \ {t} PROVE ~(Pending(u) /\ obj[u].guid = g)
      BY <1>4 DEF Settled, Pending
    <3> QED BY <1>1, <1>4, <2>1, <3>1 DEF Settled
  <2> QED BY <1>2, <2>1, <2>2, SameAgrees DEF AgreeOK
<1> QED BY <1>3, <1>4 DEF AgreeOK

\* A statement on repligard, which ends a call.
LEMMA RecordAgree ==
    ASSUME TypeOK, AgreeOK, NEW t \in Thread, Pending(t), obj[t].guid \in Guid,
           NEW s, repl' = [repl EXCEPT ![obj[t].guid] = s],
           UNCHANGED <<rows, params, torn, tangled>>,
           \A u \in Thread : obj'[u].guid = obj[u].guid,
           \A u \in Thread \ {t} : pc'[u] = pc[u] /\ call'[u] = call[u],
           pc'[t] = "idle",
           Left(t, obj[t].guid) /\ s # <<>> => Tells(s[Len(s)], obj[t].guid)
    PROVE  AgreeOK'
<1>1. \A g \in Guid \ {obj[t].guid} : repl'[g] = repl[g]
  BY DEF TypeOK
<1>2. repl'[obj[t].guid] = s
  BY DEF TypeOK
<1>3. ASSUME NEW u \in Thread \ {t} PROVE ParamsOwn(u)' /\ WillAgree(u)'
  BY OthersAgree DEF AgreeOK
<1>4. ParamsOwn(t)' /\ WillAgree(t)'
  BY DEF ParamsOwn, WillAgree, Pending, RECORD_STEPS
<1>5. ASSUME NEW g \in Guid, Settled(g)' PROVE LogAgrees(g)'
  <2>1. g \notin torn \cup tangled
    BY <1>5 DEF Settled
  <2>2. CASE g = obj[t].guid
    <3>1. Left(t, g)
      BY <2>1, <2>2 DEF AgreeOK, WillAgree
    <3>2. s # <<>> => Tells(s[Len(s)], g)
      BY <2>2, <3>1
    <3>3. IsLive(g)' = IsLive(g)
      BY DEF IsLive, Live
    <3> QED BY <1>2, <2>2, <3>2, <3>3 DEF LogAgrees, Tells
  <2>3. CASE g # obj[t].guid
    <3>1. ASSUME NEW u \in Thread \ {t} PROVE ~(Pending(u) /\ obj[u].guid = g)
      BY <1>5 DEF Settled, Pending
    <3>2. Settled(g)
      BY <2>1, <2>3, <3>1 DEF Settled
    <3> QED BY <1>1, <2>3, <3>2, SameAgrees DEF AgreeOK
  <2> QED BY <2>2, <2>3
<1> QED BY <1>3, <1>4, <1>5 DEF AgreeOK

LEMMA AgreeStep ==
    ASSUME OneThreadEach
    PROVE  TypeOK /\ StepOK /\ AgreeOK /\ [Next]_vars => AgreeOK'
<1> SUFFICES ASSUME TypeOK, StepOK, AgreeOK, [Next]_vars PROVE AgreeOK'
  OBVIOUS
<1> USE ProcessAssumption, NullAssumption DEF TypeOK, db, history
<1>1. ASSUME NEW t \in Thread, NEW p \in Place, New(t, p) PROVE AgreeOK'
  BY <1>1, QuietAgree DEF New, Pending, RECORD_STEPS
<1>2. ASSUME NEW t \in Thread, NEW p \in Place, SetPlace(t, p) PROVE AgreeOK'
  BY <1>2, QuietAgree DEF SetPlace, Pending, RECORD_STEPS
<1>3. ASSUME NEW t \in Thread, NEW g \in Guid, Load(t, g) PROVE AgreeOK'
  BY <1>3, QuietAgree DEF Load, Pending, RECORD_STEPS
<1>4. ASSUME NEW t \in Thread, NEW g \in Guid, SetGuid(t, g) PROVE AgreeOK'
  BY <1>4, QuietAgree DEF SetGuid, Pending, RECORD_STEPS
<1>5. ASSUME NEW t \in Thread, NEW g \in Guid, UndeleteCall(t, g) PROVE AgreeOK'
  BY <1>5, QuietAgree DEF UndeleteCall, RepligardProperty, Pending, RECORD_STEPS
<1>6. ASSUME NEW t \in Thread, CreateCall(t) PROVE AgreeOK'
  BY <1>6, QuietAgree DEF CreateCall, Start, Goto, Pending, RECORD_STEPS
<1>7. ASSUME NEW t \in Thread, UpdateCall(t) PROVE AgreeOK'
  BY <1>7, QuietAgree DEF UpdateCall, Start, Goto, Pending, RECORD_STEPS
<1>8. ASSUME NEW t \in Thread, SaveCall(t) PROVE AgreeOK'
  BY <1>8, QuietAgree DEF SaveCall, Start, Goto, Pending, RECORD_STEPS
<1>9. ASSUME NEW t \in Thread, DeleteCall(t) PROVE AgreeOK'
  BY <1>9, QuietAgree DEF DeleteCall, Start, Goto, Pending, RECORD_STEPS
<1>10. ASSUME NEW t \in Thread, PurgeCall(t) PROVE AgreeOK'
  BY <1>10, QuietAgree DEF PurgeCall, Start, Goto, Pending, RECORD_STEPS
<1>11. ASSUME NEW t \in Thread, CreateDuplicate(t) PROVE AgreeOK'
  BY <1>11, QuietAgree DEF CreateDuplicate, Return, Goto, Pending, RECORD_STEPS
<1>12. ASSUME NEW t \in Thread, CreateEnter(t) PROVE AgreeOK'
  BY <1>12, QuietAgree DEF CreateEnter, Goto, Pending, RECORD_STEPS
<1>13. ASSUME NEW t \in Thread, CreateUnique(t) PROVE AgreeOK'
  BY <1>13, QuietAgree DEF CreateUnique, Goto, Pending, RECORD_STEPS
<1>14. ASSUME NEW t \in Thread, CreateNameTaken(t) PROVE AgreeOK'
  BY <1>14, QuietAgree DEF CreateNameTaken, Return, Goto, Pending, RECORD_STEPS
<1>15. ASSUME NEW t \in Thread, CreateInsert(t) PROVE AgreeOK'
  <2> DEFINE s == Append(rows[obj[t].guid], RowOf(obj[t]))
  <2>1. obj[t].guid \in Guid
    BY <1>15, HasGuid DEF CreateInsert, CREATE_STEPS
  <2>2. rows[obj[t].guid] \in Seq(Row) /\ RowOf(obj[t]) \in Row
    BY <2>1, RowOfTypes
  <2>3. s # <<>>
    <3>1. Len(s) = Len(rows[obj[t].guid]) + 1 /\ Len(rows[obj[t].guid]) \in Nat /\ Len(<<>>) = 0
      BY <2>2
    <3> HIDE DEF s
    <3> QED BY <3>1
  <2>4. rows' = [rows EXCEPT ![obj[t].guid] = s] /\ Tangle(t, obj[t].guid)
        /\ pc' = [pc EXCEPT ![t] = "create_record"] /\ UNCHANGED <<repl, obj, call, params, torn>>
        /\ pc[t] = "create_row"
    BY <1>15 DEF CreateInsert, Goto
  <2> HIDE DEF s
  <2>5. call[t] \in {"create", "save"}
    BY <2>4 DEF StepOK, CREATE_STEPS
  <2>6. rows'[obj[t].guid] # <<>> /\ pc'[t] = "create_record"
    BY <2>1, <2>3, <2>4
  <2>7. ParamsOwn(t)' /\ WillAgree(t)' /\ Pending(t)'
    BY <2>4, <2>5, <2>6 DEF ParamsOwn, WillAgree, Pending, RECORD_STEPS, Left
  <2> QED BY <2>1, <2>4, <2>7, WriteAgree
<1>16. ASSUME NEW t \in Thread, CreateInsertFails(t) PROVE AgreeOK'
  <2>1. CASE rows[obj[t].guid] = <<>>
    BY <1>16, <2>1, QuietAgree DEF CreateInsertFails, Return, Goto, Pending, RECORD_STEPS
  <2>2. CASE rows[obj[t].guid] # <<>>
    <3>1. pc' = [pc EXCEPT ![t] = "create_record"] /\ pc[t] = "create_row"
          /\ UNCHANGED <<rows, repl, obj, call, params, torn, tangled>>
      BY <1>16, <2>2 DEF CreateInsertFails, Goto
    <3>2. call[t] \in {"create", "save"}
      BY <3>1 DEF StepOK, CREATE_STEPS
    <3>3. ParamsOwn(t)' /\ WillAgree(t)' /\ Pending(t)'
      BY <2>2, <3>1, <3>2 DEF ParamsOwn, WillAgree, Pending, RECORD_STEPS, Left
    <3> QED BY <3>1, <3>3, OnTheWayAgree
  <2> QED BY <2>1, <2>2
<1>17. ASSUME NEW t \in Thread, CreateRecord(t) PROVE AgreeOK'
  <2> DEFINE s == Append(repl[obj[t].guid], "create")
  <2>1. obj[t].guid \in Guid
    BY <1>17, HasGuid DEF CreateRecord, CREATE_STEPS
  <2>2. repl[obj[t].guid] \in Seq(Action)
    BY <2>1
  <2>3. s # <<>> => s[Len(s)] = "create"
    BY <2>2 DEF Action
  <2>4. repl' = [repl EXCEPT ![obj[t].guid] = s] /\ UNCHANGED <<rows, params, torn, tangled>>
        /\ pc[t] = "create_record" /\ pc' = [pc EXCEPT ![t] = "idle"]
        /\ call' = [call EXCEPT ![t] = "none"] /\ obj' = [obj EXCEPT ![t].stored = TRUE]
    BY <1>17 DEF CreateRecord, Return, Goto
  <2> HIDE DEF s
  <2>5. \A u \in Thread : obj'[u].guid = obj[u].guid
    BY <2>4 DEF Instance
  <2>6. Left(t, obj[t].guid) => Tells("create", obj[t].guid)
    BY <2>4 DEF Left, Tells
  <2>7. /\ Pending(t) /\ pc'[t] = "idle"
        /\ \A u \in Thread \ {t} : pc'[u] = pc[u] /\ call'[u] = call[u]
    BY <2>4 DEF Pending
  <2>8. Left(t, obj[t].guid) /\ s # <<>> => Tells(s[Len(s)], obj[t].guid)
    BY <2>3, <2>6
  <2> QED BY <2>1, <2>4, <2>5, <2>7, <2>8, RecordAgree
<1>18. ASSUME NEW t \in Thread, CreateRecordFails(t) PROVE AgreeOK'
  <2>1. UNCHANGED <<rows, repl, obj, params, tangled>> /\ torn' = torn \cup {obj[t].guid}
        /\ pc' = [pc EXCEPT ![t] = "idle"] /\ call' = [call EXCEPT ![t] = "none"]
    BY <1>18 DEF CreateRecordFails, Return, Goto
  <2>2. ParamsOwn(t)' /\ WillAgree(t)'
    BY <2>1 DEF ParamsOwn, WillAgree
  <2> QED BY <2>1, <2>2, OnTheWayAgree
<1>19. ASSUME NEW t \in Thread, UpdateNoGuid(t) PROVE AgreeOK'
  BY <1>19, QuietAgree DEF UpdateNoGuid, Return, Goto, Pending, RECORD_STEPS
<1>20. ASSUME NEW t \in Thread, UpdateEnter(t) PROVE AgreeOK'
  BY <1>20, QuietAgree DEF UpdateEnter, Goto, Pending, RECORD_STEPS
<1>21. ASSUME NEW t \in Thread, UpdateUnique(t) PROVE AgreeOK'
  BY <1>21, QuietAgree DEF UpdateUnique, Goto, Pending, RECORD_STEPS
<1>22. ASSUME NEW t \in Thread, UpdateNameTaken(t) PROVE AgreeOK'
  BY <1>22, QuietAgree DEF UpdateNameTaken, Return, Goto, Pending, RECORD_STEPS
<1>23. ASSUME NEW t \in Thread, UpdateRow(t) PROVE AgreeOK'
  <2> DEFINE s == [i \in DOMAIN rows[obj[t].guid] |-> RowOf(obj[t])]
  <2>1. obj[t].guid \in Guid
    BY <1>23, HasGuid DEF UpdateRow, UPDATE_STEPS
  <2>2. rows[obj[t].guid] \in Seq(Row) /\ rows[obj[t].guid] # <<>>
    BY <1>23, <2>1 DEF UpdateRow
  <2>3. s # <<>>
    <3>1. RowOf(obj[t]) \in Row
      BY RowOfTypes
    <3>2. s \in Seq(Row) /\ Len(s) = Len(rows[obj[t].guid])
      BY <2>2, <3>1, SameDomain
    <3>3. Len(rows[obj[t].guid]) # 0 /\ Len(<<>>) = 0
      BY <2>2
    <3> QED BY <3>2, <3>3
  <2>4. rows' = [rows EXCEPT ![obj[t].guid] = s] /\ Tangle(t, obj[t].guid)
        /\ pc' = [pc EXCEPT ![t] = "record_guid"] /\ UNCHANGED <<repl, obj, call, params, torn>>
        /\ pc[t] = "update_row"
    BY <1>23 DEF UpdateRow, Goto
  <2> HIDE DEF s
  <2>5. call[t] \in {"update", "save"}
    BY <2>4 DEF StepOK, UPDATE_STEPS
  <2>6. rows'[obj[t].guid] # <<>> /\ pc'[t] = "record_guid"
    BY <2>1, <2>3, <2>4
  <2>7. ParamsOwn(t)' /\ WillAgree(t)' /\ Pending(t)'
    BY <2>4, <2>5, <2>6 DEF ParamsOwn, WillAgree, Pending, RECORD_STEPS, Left
  <2> QED BY <2>1, <2>4, <2>7, WriteAgree
<1>24. ASSUME NEW t \in Thread, UpdateNothing(t) PROVE AgreeOK'
  BY <1>24, QuietAgree DEF UpdateNothing, Return, Goto, Pending, RECORD_STEPS
<1>25. ASSUME NEW t \in Thread, UpdateFails(t) PROVE AgreeOK'
  BY <1>25, QuietAgree DEF UpdateFails, Return, Goto, Pending, RECORD_STEPS
<1>26. ASSUME NEW t \in Thread, DeleteNoGuid(t) PROVE AgreeOK'
  BY <1>26, QuietAgree DEF DeleteNoGuid, Return, Goto, Pending, RECORD_STEPS
<1>27. ASSUME NEW t \in Thread, DeleteEnter(t) PROVE AgreeOK'
  BY <1>27, QuietAgree DEF DeleteEnter, Goto, Pending, RECORD_STEPS
<1>28. ASSUME NEW t \in Thread, DeleteRow(t) PROVE AgreeOK'
  <2> DEFINE s == [i \in DOMAIN rows[obj[t].guid] |->
                      [rows[obj[t].guid][i] EXCEPT !.deleted = TRUE]]
  <2>1. obj[t].guid \in Guid
    BY <1>28, HasGuid DEF DeleteRow
  <2>2. \A i \in DOMAIN s : s[i].deleted
    <3>1. \A i \in DOMAIN rows[obj[t].guid] : rows[obj[t].guid][i] \in Row
      BY <2>1
    <3> QED BY <3>1 DEF Row
  <2>3. rows' = [rows EXCEPT ![obj[t].guid] = s] /\ Tangle(t, obj[t].guid)
        /\ pc' = [pc EXCEPT ![t] = "record_guid"] /\ UNCHANGED <<repl, obj, call, params, torn>>
        /\ pc[t] = "delete_row"
    BY <1>28 DEF DeleteRow, Goto
  <2> HIDE DEF s
  <2>4. call[t] = "delete"
    BY <2>3 DEF StepOK
  <2>5. rows'[obj[t].guid] = s /\ pc'[t] = "record_guid"
    BY <2>1, <2>3
  <2>6. ~IsLive(obj[t].guid)'
    BY <2>2, <2>3, <2>5 DEF IsLive, Live
  <2>7. ParamsOwn(t)' /\ WillAgree(t)' /\ Pending(t)'
    BY <2>3, <2>4, <2>5, <2>6 DEF ParamsOwn, WillAgree, Pending, RECORD_STEPS, Left
  <2> QED BY <2>1, <2>3, <2>7, WriteAgree
<1>29. ASSUME NEW t \in Thread, DeleteFails(t) PROVE AgreeOK'
  BY <1>29, QuietAgree DEF DeleteFails, Return, Goto, Pending, RECORD_STEPS
<1>30. ASSUME NEW t \in Thread, PurgeNoGuid(t) PROVE AgreeOK'
  BY <1>30, QuietAgree DEF PurgeNoGuid, Return, Goto, Pending, RECORD_STEPS
<1>31. ASSUME NEW t \in Thread, PurgeRow(t) PROVE AgreeOK'
  <2>1. obj[t].guid \in Guid
    BY <1>31 DEF PurgeRow, Instance
  <2>2. rows' = [rows EXCEPT ![obj[t].guid] = <<>>] /\ Tangle(t, obj[t].guid)
        /\ pc' = [pc EXCEPT ![t] = "record_guid"] /\ UNCHANGED <<repl, obj, call, params, torn>>
        /\ pc[t] = "purge_row"
    BY <1>31 DEF PurgeRow, Goto
  <2>3. call[t] = "purge"
    BY <2>2 DEF StepOK
  <2>4. rows'[obj[t].guid] = <<>> /\ pc'[t] = "record_guid"
    BY <2>1, <2>2
  <2>5. ParamsOwn(t)' /\ WillAgree(t)' /\ Pending(t)'
    BY <2>2, <2>3, <2>4 DEF ParamsOwn, WillAgree, Pending, RECORD_STEPS, Left
  <2> QED BY <2>1, <2>2, <2>5, WriteAgree
<1>32. ASSUME NEW t \in Thread, PurgeNothing(t) PROVE AgreeOK'
  BY <1>32, QuietAgree DEF PurgeNothing, Return, Goto, Pending, RECORD_STEPS
<1>33. ASSUME NEW t \in Thread, PurgeFails(t) PROVE AgreeOK'
  <2>1. UNCHANGED <<rows, repl, obj, call, params, tangled>> /\ torn' = torn \cup {obj[t].guid}
        /\ pc' = [pc EXCEPT ![t] = "record_guid"] /\ pc[t] = "purge_row"
    BY <1>33 DEF PurgeFails, Goto
  <2>2. ParamsOwn(t)' /\ WillAgree(t)'
    BY <2>1 DEF ParamsOwn, WillAgree
  <2>3. ~Pending(t)
    BY <2>1 DEF Pending, RECORD_STEPS
  <2> QED BY <2>1, <2>2, <2>3, OnTheWayAgree
<1>34. ASSUME NEW t \in Thread, RecordGuid(t) PROVE AgreeOK'
  <2>1. UNCHANGED <<rows, repl, obj, call, torn, tangled>>
        /\ params' = [params EXCEPT ![ProcessOf[t]].guid = obj[t].guid]
        /\ pc' = [pc EXCEPT ![t] = "record_action"] /\ pc[t] = "record_guid"
    BY <1>34 DEF RecordGuid, Goto
  <2>2. params'[ProcessOf[t]].guid = obj[t].guid
    BY <2>1
  <2>3. \A u \in Thread \ {t} : params'[ProcessOf[u]] = params[ProcessOf[u]]
    BY <2>1, OneThreadEach DEF OneThreadEach
  <2>4. IsLive(obj[t].guid)' = IsLive(obj[t].guid)
    BY <2>1 DEF IsLive, Live
  <2>5. ParamsOwn(t)' /\ WillAgree(t)' /\ Pending(t)'
    BY <2>1, <2>2, <2>4 DEF AgreeOK, ParamsOwn, WillAgree, Pending, RECORD_STEPS, Left
  <2> QED BY <2>1, <2>3, <2>5, OnTheWayAgree
<1>35. ASSUME NEW t \in Thread, RecordAction(t) PROVE AgreeOK'
  <2>1. UNCHANGED <<rows, repl, obj, call, torn, tangled>>
        /\ params' = [params EXCEPT ![ProcessOf[t]].action = ActionOf(call[t])]
        /\ pc' = [pc EXCEPT ![t] = "record_write"] /\ pc[t] = "record_action"
    BY <1>35 DEF RecordAction, Goto
  <2>2. params'[ProcessOf[t]].guid = obj[t].guid /\ params'[ProcessOf[t]].action = ActionOf(call[t])
    BY <2>1 DEF AgreeOK, ParamsOwn
  <2>3. \A u \in Thread \ {t} : params'[ProcessOf[u]] = params[ProcessOf[u]]
    BY <2>1, OneThreadEach DEF OneThreadEach
  <2>4. IsLive(obj[t].guid)' = IsLive(obj[t].guid)
    BY <2>1 DEF IsLive, Live
  <2>5. ParamsOwn(t)' /\ WillAgree(t)' /\ Pending(t)'
    BY <2>1, <2>2, <2>4 DEF AgreeOK, ParamsOwn, WillAgree, Pending, RECORD_STEPS, Left, ActionOf
  <2> QED BY <2>1, <2>3, <2>5, OnTheWayAgree
<1>36. ASSUME NEW t \in Thread, RecordWrite(t) PROVE AgreeOK'
  <2> DEFINE last == ActionOf(call[t])
             s == [i \in DOMAIN repl[obj[t].guid] |-> last]
  <2>1. obj[t].guid \in Guid /\ pc[t] = "record_write" /\ Pending(t)
    BY <1>36, HasGuid DEF RecordWrite, RECORD_STEPS, Pending
  <2>2. params[ProcessOf[t]].guid = obj[t].guid /\ params[ProcessOf[t]].action = last
    BY <2>1 DEF AgreeOK, ParamsOwn
  <2>3. repl' = [repl EXCEPT ![obj[t].guid] = s] /\ UNCHANGED <<rows, params, torn, tangled>>
        /\ pc' = [pc EXCEPT ![t] = "idle"] /\ call' = [call EXCEPT ![t] = "none"]
    BY <1>36, <2>2 DEF RecordWrite, Return, Goto
  <2>4. s # <<>> => s[Len(s)] = last
    <3>1. repl[obj[t].guid] \in Seq(Action)
      BY <2>1
    <3>2. s \in Seq({last}) /\ Len(s) = Len(repl[obj[t].guid])
      BY <3>1, SameDomain
    <3> QED BY <3>1, <3>2
  <2>5. call[t] \in {"update", "save", "delete", "purge"}
    BY <2>1 DEF StepOK, RECORD_STEPS
  <2>6. Left(t, obj[t].guid) => Tells(last, obj[t].guid)
    <3>1. CASE call[t] \in {"update", "save"}
      BY <3>1 DEF Left, Tells, ActionOf
    <3>2. CASE call[t] = "delete"
      BY <2>1, <3>2 DEF Left, Tells, ActionOf
    <3>3. CASE call[t] = "purge"
      BY <2>1, <3>3 DEF Left, Tells, ActionOf, IsLive, Live
    <3> QED BY <2>5, <3>1, <3>2, <3>3
  <2>7. \A u \in Thread : obj'[u].guid = obj[u].guid
    BY <1>36 DEF RecordWrite, Instance
  <2>8. /\ pc'[t] = "idle"
        /\ \A u \in Thread \ {t} : pc'[u] = pc[u] /\ call'[u] = call[u]
    BY <2>3
  <2> HIDE DEF s, last
  <2>9. Left(t, obj[t].guid) /\ s # <<>> => Tells(s[Len(s)], obj[t].guid)
    BY <2>4, <2>6
  <2> QED BY <2>1, <2>3, <2>7, <2>8, <2>9, RecordAgree
<1>37. ASSUME NEW t \in Thread, RecordFails(t) PROVE AgreeOK'
  <2>1. UNCHANGED <<rows, repl, obj, params, tangled>> /\ torn' = torn \cup {obj[t].guid}
        /\ pc' = [pc EXCEPT ![t] = "idle"] /\ call' = [call EXCEPT ![t] = "none"]
    BY <1>37 DEF RecordFails, Return, Goto
  <2>2. ParamsOwn(t)' /\ WillAgree(t)'
    BY <2>1 DEF ParamsOwn, WillAgree
  <2> QED BY <2>1, <2>2, OnTheWayAgree
<1>38. ASSUME NEW p \in Process, Crash(p) PROVE AgreeOK'
  <2> DEFINE dead == {t \in Thread : ProcessOf[t] = p}
  <2>1. \A t \in dead : pc'[t] = "idle"
    BY <1>38 DEF Crash
  <2>2. \A u \in Thread \ dead : /\ obj'[u] = obj[u] /\ pc'[u] = pc[u] /\ call'[u] = call[u]
                                 /\ params'[ProcessOf[u]] = params[ProcessOf[u]]
    BY <1>38 DEF Crash
  <2>3. UNCHANGED <<rows, repl, tangled>> /\ torn \subseteq torn'
        /\ \A t \in dead, g \in Guid : Pending(t) /\ obj[t].guid = g => g \in torn'
    BY <1>38 DEF Crash
  <2> HIDE DEF dead
  <2>4. ASSUME NEW u \in Thread PROVE ParamsOwn(u)' /\ WillAgree(u)'
    <3>1. CASE u \in dead
      BY <2>1, <3>1 DEF ParamsOwn, WillAgree, Pending, RECORD_STEPS
    <3>2. CASE u \notin dead
      BY <2>2, <2>3, <3>2, OthersAgree DEF AgreeOK
    <3> QED BY <3>1, <3>2
  <2>5. ASSUME NEW g \in Guid, Settled(g)' PROVE LogAgrees(g)'
    <3>1. ASSUME NEW u \in Thread PROVE ~(Pending(u) /\ obj[u].guid = g)
      <4>1. CASE u \in dead
        BY <2>3, <2>5, <4>1 DEF Settled
      <4>2. CASE u \notin dead
        BY <2>2, <2>5, <4>2 DEF Settled, Pending
      <4> QED BY <4>1, <4>2
    <3>2. Settled(g)
      BY <2>3, <2>5, <3>1 DEF Settled
    <3> QED BY <2>3, <3>2, SameAgrees DEF AgreeOK
  <2> QED BY <2>4, <2>5 DEF AgreeOK
<1>39. CASE UNCHANGED vars
  <2>1. \A t \in Thread : ParamsOwn(t)' /\ WillAgree(t)'
    BY <1>39, OthersAgree DEF vars, AgreeOK
  <2>2. ASSUME NEW g \in Guid, Settled(g)' PROVE LogAgrees(g)'
    <3>1. Settled(g)
      BY <1>39, <2>2 DEF vars, Settled, Pending
    <3> QED BY <1>39, <3>1, SameAgrees DEF vars, AgreeOK
  <2> QED BY <2>1, <2>2 DEF AgreeOK
<1> QED
  BY <1>1, <1>2, <1>3, <1>4, <1>5, <1>6, <1>7, <1>8, <1>9, <1>10, <1>11,
     <1>12, <1>13, <1>14, <1>15, <1>16, <1>17, <1>18, <1>19, <1>20, <1>21,
     <1>22, <1>23, <1>24, <1>25, <1>26, <1>27, <1>28, <1>29, <1>30, <1>31,
     <1>32, <1>33, <1>34, <1>35, <1>36, <1>37, <1>38, <1>39 DEF Next,
     Instances, Calls, Proceed, Creating, Updating, Deleting, Recording

\* Processes of one thread each: over all interleavings, failures and crashes,
\* what the log says last of a guid is what the table holds, if no two calls
\* wrote it at the same time and none broke off between the tables.
THEOREM LogTellsTable ==
    ASSUME OneThreadEach
    PROVE  Spec => []RecordAgrees
<1>1. Init => AgreeOK
  BY DEF Init, AgreeOK, LogAgrees, ParamsOwn, WillAgree, Pending, RECORD_STEPS
<1>2. TypeOK /\ StepOK /\ AgreeOK /\ [Next]_vars => AgreeOK'
  BY OneThreadEach, AgreeStep
<1>3. AgreeOK => RecordAgrees
  <2> SUFFICES ASSUME AgreeOK, NEW g \in Guid, Settled(g), repl[g] # <<>>
               PROVE  Tells(repl[g][Len(repl[g])], g)
    BY Zenon DEF RecordAgrees, Tells
  <2> QED BY DEF AgreeOK, LogAgrees
<1> QED BY <1>1, <1>2, <1>3, TypeInvariant, PTL DEF Spec

-----------------------------------------------------------------------------
(* The quota record *)

Stored == {t \in Thing : sizes[t] # 0}

\* The writers that have counted an object and not stored it, or have removed
\* one and not counted it off.
Owing == {w \in Writer : \E d \in duty[w] : d.step \in {"insert", "uncount"}}

\* An object is made by one writer, and is not stored before.
Making(w, t) == \E d \in duty[w] : d.step \in {"count", "insert"} /\ d.thing = t

MadeOnce ==
    /\ \A t \in Thing \ made : sizes[t] = 0
    /\ \A w \in Writer, t \in Thing : Making(w, t) => t \in made /\ sizes[t] = 0
    /\ \A v, w \in Writer, t \in Thing : Making(v, t) /\ Making(w, t) => v = w
    /\ \A w \in Writer : \A d \in duty[w] : d.step \in {"count", "insert", "write"} => d.size # 0

Balance ==
    /\ IsFiniteSet(Stored) /\ IsFiniteSet(Owing)
    /\ ~slipped => records = Cardinality(Stored) + Cardinality(Owing)

QuotaOK == QuotaTypeOK /\ MadeOnce /\ Balance

LEMMA QuotaTypes ==
    ASSUME QuotaTypeOK
    PROVE  /\ \A w \in Writer : \A d \in duty[w] : d \in Duty /\ duty[w] = {d}
           /\ \A w \in Writer : \A c \in copies[w] : c \in ThingCopy /\ copies[w] = {c}
BY DEF QuotaTypeOK, OneOf

\* Counting one more, or one fewer.
LEMMA OneMore ==
    ASSUME NEW S, IsFiniteSet(S), NEW x, x \notin S
    PROVE  IsFiniteSet(S \cup {x}) /\ Cardinality(S \cup {x}) = Cardinality(S) + 1
           /\ Cardinality(S) \in Nat
BY FS_AddElement, FS_CardinalityType

LEMMA OneFewer ==
    ASSUME NEW S, IsFiniteSet(S), NEW x \in S
    PROVE  IsFiniteSet(S \ {x}) /\ Cardinality(S) = Cardinality(S \ {x}) + 1
           /\ Cardinality(S \ {x}) \in Nat
<1>1. IsFiniteSet(S \ {x}) /\ x \notin S \ {x} /\ S = (S \ {x}) \cup {x}
  BY FS_RemoveElement
<1> QED
  BY <1>1, OneMore

\* What a call goes on with.
LEMMA DutyGoesOn ==
    ASSUME NEW d \in Duty, NEW e, NEW s, e = [d EXCEPT !.step = s],
           s \in {"count", "insert", "write", "resize", "delete", "uncount", "shrink"}
    PROVE  e \in Duty /\ e.step = s /\ e.thing = d.thing /\ e.size = d.size
BY DEF Duty

\* A writer's call goes on, or ends.
LEMMA DutyStep ==
    ASSUME QuotaTypeOK, NEW w \in Writer, NEW S, duty' = [duty EXCEPT ![w] = S]
    PROVE  /\ duty'[w] = S /\ \A v \in Writer \ {w} : duty'[v] = duty[v]
           /\ S \in OneOf(Duty) =>
                  duty' \in [Writer -> OneOf(Duty)]
           /\ \A v \in Writer \ {w} : \A t : Making(v, t)' <=> Making(v, t)
           /\ (\E d \in S : d.step \in {"insert", "uncount"}) => Owing' = Owing \cup {w}
           /\ (\A d \in S : d.step \notin {"insert", "uncount"}) => Owing' = Owing \ {w}
<1>1. duty'[w] = S /\ \A v \in Writer \ {w} : duty'[v] = duty[v]
  BY DEF QuotaTypeOK
<1>2. S \in OneOf(Duty) => duty' \in [Writer -> OneOf(Duty)]
  BY DEF QuotaTypeOK
<1>3. \A v \in Writer \ {w} : \A t : Making(v, t)' <=> Making(v, t)
  BY <1>1 DEF Making
<1>4. Owing' = {v \in Writer : \E d \in duty'[v] : d.step \in {"insert", "uncount"}}
  BY DEF Owing
<1>5. (\E d \in S : d.step \in {"insert", "uncount"}) => Owing' = Owing \cup {w}
  BY <1>1, <1>4 DEF Owing
<1>6. (\A d \in S : d.step \notin {"insert", "uncount"}) => Owing' = Owing \ {w}
  BY <1>1, <1>4 DEF Owing
<1> QED
  BY <1>1, <1>2, <1>3, <1>5, <1>6

\* Who makes what does not change, but that one call goes on, or ends.
LEMMA MadeKept ==
    ASSUME QuotaTypeOK, MadeOnce, NEW w \in Writer, NEW S, duty' = [duty EXCEPT ![w] = S],
           made' = made,
           \A d \in S : d.step \in {"count", "insert"} => Making(w, d.thing),
           \A d \in S : d.step \in {"count", "insert", "write"} => d.size # 0,
           \A t \in Thing : sizes'[t] # 0 =>
               sizes[t] # 0 \/ (Making(w, t) /\ \A d \in S : d.step \notin {"count", "insert"})
    PROVE  MadeOnce'
<1>1. duty'[w] = S /\ \A v \in Writer \ {w} : duty'[v] = duty[v]
  BY DutyStep
<1>2. \A v \in Writer, t \in Thing : Making(v, t)' => Making(v, t)
  <2>1. \A t \in Thing : Making(w, t)' => Making(w, t)
    BY <1>1 DEF Making
  <2> QED
    BY <2>1, DutyStep
<1>3. \A t \in Thing \ made' : sizes'[t] = 0
  BY DEF MadeOnce
<1>4. \A v \in Writer, t \in Thing : Making(v, t)' => t \in made' /\ sizes'[t] = 0
  <2> SUFFICES ASSUME NEW v \in Writer, NEW t \in Thing, Making(v, t)'
               PROVE  t \in made' /\ sizes'[t] = 0
    OBVIOUS
  <2>1. Making(v, t) /\ t \in made /\ sizes[t] = 0
    BY <1>2 DEF MadeOnce
  <2>2. Making(w, t) => v = w
    BY <2>1 DEF MadeOnce
  <2>3. v = w => \E d \in S : d.step \in {"count", "insert"}
    BY <1>1 DEF Making
  <2> QED
    BY <2>1, <2>2, <2>3
<1>5. \A u, v \in Writer, t \in Thing : Making(u, t)' /\ Making(v, t)' => u = v
  BY <1>2 DEF MadeOnce
<1>6. \A v \in Writer : \A d \in duty'[v] : d.step \in {"count", "insert", "write"} => d.size # 0
  BY <1>1 DEF MadeOnce
<1> QED
  BY <1>3, <1>4, <1>5, <1>6 DEF MadeOnce

LEMMA CreateThingStep ==
    ASSUME QuotaOK, NEW w \in Writer, NEW t \in Thing, NEW s \in 1 .. MaxSize,
           CreateThing(w, t, s)
    PROVE  QuotaOK'
<1>1. PICK S : /\ duty' = [duty EXCEPT ![w] = S]
               /\ S \in {{}, {[step |-> "count", thing |-> t, size |-> s, old |-> 0]}}
  <2>1. CASE UNCHANGED duty
    <3>1. duty' = [duty EXCEPT ![w] = {}]
      BY <2>1 DEF CreateThing, AtRest, QuotaOK, QuotaTypeOK
    <3> QED
      BY <3>1
  <2>2. CASE Begins(w, [step |-> "count", thing |-> t, size |-> s, old |-> 0])
    BY <2>2 DEF Begins
  <2> QED
    BY <2>1, <2>2 DEF CreateThing
<1>2. /\ duty[w] = {} /\ t \notin made /\ made' = made \cup {t} /\ sizes' = sizes
      /\ records' = records /\ typeSize' = typeSize /\ copies' = copies /\ slipped' = slipped
      /\ quotaCalls < MaxQuotaCalls /\ quotaCalls' = quotaCalls + 1
  BY DEF CreateThing, AtRest, QuotaCalled
<1>3. \A d \in S : d \in Duty /\ d.step = "count" /\ d.thing = t /\ d.size # 0
  BY <1>1, QuotaAssumption DEF Duty
<1>4. /\ duty'[w] = S /\ \A v \in Writer \ {w} : duty'[v] = duty[v]
      /\ \A v \in Writer \ {w} : \A x : Making(v, x)' <=> Making(v, x)
      /\ Owing' = Owing \ {w}
  BY <1>1, <1>3, DutyStep DEF QuotaOK
<1>5. QuotaTypeOK'
  <2>1. S \in OneOf(Duty)
    <3>1. CASE S = {}
      BY <3>1 DEF OneOf
    <3>2. CASE S # {}
      <4>1. PICK d : S = {d}
        BY <1>1, <3>2
      <4> QED
        BY <1>3, <4>1 DEF OneOf
    <3> QED
      BY <3>1, <3>2
  <2>3. duty' \in [Writer -> OneOf(Duty)]
    BY <1>1, <2>1, DutyStep DEF QuotaOK
  <2> QED
    BY <1>2, <2>3, QuotaAssumption DEF QuotaOK, QuotaTypeOK
<1>6. MadeOnce'
  <2>1. \A x \in Thing : Making(w, x)' => x = t
    BY <1>3, <1>4 DEF Making
  <2>2. sizes[t] = 0
    BY <1>2 DEF QuotaOK, MadeOnce
  <2>3. \A v \in Writer \ {w} : ~Making(v, t)
    BY <1>2 DEF QuotaOK, MadeOnce
  <2>4. \A v \in Writer : \A d \in duty'[v] : d.step \in {"count", "insert", "write"} => d.size # 0
    BY <1>3, <1>4 DEF QuotaOK, MadeOnce
  <2> QED
    BY <1>2, <1>4, <2>1, <2>2, <2>3, <2>4 DEF QuotaOK, MadeOnce
<1>7. Balance'
  <2>1. Stored' = Stored
    BY <1>2 DEF Stored
  <2>2. Owing' = Owing
    BY <1>2, <1>4 DEF Owing
  <2> QED
    BY <1>2, <2>1, <2>2 DEF QuotaOK, Balance
<1> QED
  BY <1>5, <1>6, <1>7 DEF QuotaOK

LEMMA CountRecordStep ==
    ASSUME QuotaOK, NEW w \in Writer, CountRecord(w)
    PROVE  QuotaOK'
<1>1. PICK d \in duty[w] :
        /\ d.step = "count" /\ duty' = [duty EXCEPT ![w] = {[d EXCEPT !.step = "insert"]}]
        /\ \/ records' = records + 1 /\ slipped' = slipped
           \/ records' = records /\ slipped' = TRUE
        /\ sizes' = sizes /\ made' = made /\ typeSize' = typeSize /\ copies' = copies
        /\ quotaCalls' = quotaCalls
  BY DEF CountRecord, Continues
<1>2. d \in Duty /\ duty[w] = {d}
  BY QuotaTypes DEF QuotaOK
<1>3. PICK e : e = [d EXCEPT !.step = "insert"]
  OBVIOUS
<1>4. e \in Duty /\ e.step = "insert" /\ e.thing = d.thing /\ e.size = d.size
  BY <1>2, <1>3, DutyGoesOn
<1>9. PICK S : S = {e} /\ duty' = [duty EXCEPT ![w] = S]
  BY <1>1, <1>3
<1>10. Making(w, e.thing) /\ e.size # 0
  BY <1>1, <1>4 DEF Making, QuotaOK, MadeOnce
<1>11. /\ sizes' = sizes /\ made' = made /\ typeSize' = typeSize /\ copies' = copies
       /\ quotaCalls' = quotaCalls /\ records' \in {records, records + 1}
       /\ slipped' = slipped \/ slipped' = TRUE
  BY <1>1
<1>5. MadeOnce'
  <2>1. \A x \in S : x = e
    BY <1>9
  <2> QED
    BY <1>4, <1>9, <1>10, <1>11, <2>1, MadeKept DEF QuotaOK
<1>6. duty' \in [Writer -> OneOf(Duty)] /\ Owing' = Owing \cup {w}
  BY <1>4, <1>9, DutyStep DEF QuotaOK, OneOf
<1>7. QuotaTypeOK'
  <2>1. records' \in Nat
    BY <1>11 DEF QuotaOK, QuotaTypeOK
  <2>2. slipped' \in BOOLEAN
    BY <1>11 DEF QuotaOK, QuotaTypeOK
  <2>3. /\ sizes' \in [Thing -> 0 .. MaxSize] /\ made' \subseteq Thing /\ typeSize' \in Int
        /\ copies' \in [Writer -> OneOf(ThingCopy)] /\ quotaCalls' \in 0 .. MaxQuotaCalls
    BY <1>11 DEF QuotaOK, QuotaTypeOK
  <2> QED
    BY <1>6, <2>1, <2>2, <2>3 DEF QuotaTypeOK
<1>8. Balance'
  <2>1. Stored' = Stored /\ w \notin Owing
    BY <1>1, <1>2 DEF Stored, Owing
  <2>2. /\ IsFiniteSet(Owing') /\ Cardinality(Owing') = Cardinality(Owing) + 1
        /\ Cardinality(Owing) \in Nat
    BY <1>6, <2>1, OneMore DEF QuotaOK, Balance
  <2>3. Cardinality(Stored) \in Nat
    BY FS_CardinalityType DEF QuotaOK, Balance
  <2> QED
    BY <1>1, <2>1, <2>2, <2>3 DEF QuotaOK, Balance, QuotaTypeOK
<1> QED
  BY <1>5, <1>7, <1>8 DEF QuotaOK

\* A step of a writer that makes nothing new.
LEMMA WriterStep ==
    ASSUME QuotaOK, NEW w \in Writer, NEW S \in OneOf(Duty), duty' = [duty EXCEPT ![w] = S],
           sizes' \in [Thing -> 0 .. MaxSize], made' = made, records' \in Nat, typeSize' \in Int,
           copies' \in [Writer -> OneOf(ThingCopy)], slipped' \in BOOLEAN,
           quotaCalls' \in 0 .. MaxQuotaCalls,
           \A d \in S : d.step \in {"count", "insert"} => Making(w, d.thing),
           \A d \in S : d.step \in {"count", "insert", "write"} => d.size # 0,
           \A t \in Thing : sizes'[t] # 0 =>
               sizes[t] # 0 \/ (Making(w, t) /\ \A d \in S : d.step \notin {"count", "insert"}),
           Balance'
    PROVE  QuotaOK'
<1>1. MadeOnce'
  BY MadeKept DEF QuotaOK
<1>2. duty' \in [Writer -> OneOf(Duty)]
  BY DutyStep DEF QuotaOK
<1>3. made' \subseteq Thing
  BY DEF QuotaOK, QuotaTypeOK
<1>4. QuotaTypeOK'
  BY <1>2, <1>3 DEF QuotaTypeOK
<1> QED
  BY <1>1, <1>4 DEF QuotaOK

\* A step that neither stores nor removes an object, and whose writer owes the
\* record nothing before and after.
LEMMA SameBalance ==
    ASSUME QuotaOK, NEW w \in Writer, NEW S, duty' = [duty EXCEPT ![w] = S],
           \A t \in Thing : sizes'[t] = 0 <=> sizes[t] = 0, records' = records,
           slipped' = slipped,
           \A d \in duty[w] : d.step \notin {"insert", "uncount"},
           \A d \in S : d.step \notin {"insert", "uncount"}
    PROVE  Balance'
<1>1. Stored' = Stored
  BY DEF Stored
<1>2. Owing' = Owing \ {w}
  BY DutyStep DEF QuotaOK
<1>3. w \notin Owing
  BY DEF Owing
<1>4. Owing' = Owing
  BY <1>2, <1>3
<1> QED
  BY <1>1, <1>4 DEF QuotaOK, Balance

\* After a statement that failed, or a death, the balance is given up.
LEMMA SlippedBalance ==
    ASSUME QuotaOK, NEW w \in Writer, NEW S \in OneOf(Duty), duty' = [duty EXCEPT ![w] = S],
           \A t \in Thing : sizes'[t] = 0 <=> sizes[t] = 0, slipped' = TRUE
    PROVE  Balance'
<1>1. Stored' = Stored
  BY DEF Stored
<1>2. Owing' \subseteq Owing \cup {w}
  BY DutyStep DEF QuotaOK, Owing
<1>3. IsFiniteSet(Owing \cup {w})
  BY FS_AddElement DEF QuotaOK, Balance
<1>4. IsFiniteSet(Owing')
  BY <1>2, <1>3, FS_Subset
<1> QED
  BY <1>1, <1>4 DEF QuotaOK, Balance

\* A step that ends a call.
LEMMA EndStep ==
    ASSUME QuotaOK, NEW w \in Writer, duty' = [duty EXCEPT ![w] = {}],
           sizes' \in [Thing -> 0 .. MaxSize], made' = made, records' \in Nat, typeSize' \in Int,
           copies' \in [Writer -> OneOf(ThingCopy)], slipped' \in BOOLEAN,
           quotaCalls' \in 0 .. MaxQuotaCalls,
           \A t \in Thing : sizes'[t] # 0 => sizes[t] # 0 \/ Making(w, t), Balance'
    PROVE  QuotaOK'
<1>1. PICK S : S = {}
  OBVIOUS
<1>2. S \in OneOf(Duty) /\ \A d \in S : FALSE
  BY <1>1 DEF OneOf
<1>3. duty' = [duty EXCEPT ![w] = S]
  BY <1>1
<1> QED
  BY <1>2, <1>3, WriterStep

LEMMA InsertThingStep ==
    ASSUME QuotaOK, NEW w \in Writer, InsertThing(w)
    PROVE  QuotaOK'
<1>1. PICK d \in duty[w] :
        /\ d.step = "insert" /\ duty' = [duty EXCEPT ![w] = {}]
        /\ \/ /\ sizes' = [sizes EXCEPT ![d.thing] = d.size]
              /\ copies' = [copies EXCEPT ![w] = {[thing |-> d.thing, size |-> d.size]}]
              /\ slipped' = slipped
           \/ slipped' = TRUE /\ sizes' = sizes /\ copies' = copies
        /\ made' = made /\ records' = records /\ typeSize' = typeSize /\ quotaCalls' = quotaCalls
  BY DEF InsertThing, Ends
<1>2. d \in Duty /\ duty[w] = {d} /\ d.thing \in Thing /\ d.size \in 0 .. MaxSize
  BY QuotaTypes DEF QuotaOK, Duty
<1>3. /\ Making(w, d.thing) /\ d.size # 0 /\ sizes[d.thing] = 0
      /\ sizes \in [Thing -> 0 .. MaxSize]
  <2>1. Making(w, d.thing)
    BY <1>1 DEF Making
  <2> QED
    BY <1>1, <1>2, <2>1 DEF QuotaOK, MadeOnce, QuotaTypeOK
<1>4. /\ records' \in Nat /\ typeSize' \in Int /\ quotaCalls' \in 0 .. MaxQuotaCalls
      /\ {} \in OneOf(Duty)
  BY <1>1 DEF QuotaOK, QuotaTypeOK, OneOf
<1>5. Owing' = Owing \ {w} /\ w \in Owing
  BY <1>1, DutyStep DEF QuotaOK, Owing
<1>6. CASE slipped' = TRUE /\ sizes' = sizes /\ copies' = copies
  <2>1. Balance'
    BY <1>1, <1>4, <1>6, SlippedBalance
  <2> QED
    BY <1>1, <1>3, <1>4, <1>6, <2>1, EndStep DEF QuotaOK, QuotaTypeOK
<1>7. CASE /\ sizes' = [sizes EXCEPT ![d.thing] = d.size]
           /\ copies' = [copies EXCEPT ![w] = {[thing |-> d.thing, size |-> d.size]}]
           /\ slipped' = slipped
  <2>1. sizes' \in [Thing -> 0 .. MaxSize] /\ sizes'[d.thing] = d.size
        /\ \A t \in Thing \ {d.thing} : sizes'[t] = sizes[t]
    BY <1>2, <1>3, <1>7
  <2>2. copies' \in [Writer -> OneOf(ThingCopy)]
    <3>1. PICK c : c = [thing |-> d.thing, size |-> d.size]
      OBVIOUS
    <3>2. c \in ThingCopy
      BY <1>2, <1>3, <3>1, QuotaAssumption DEF ThingCopy
    <3>3. copies' = [copies EXCEPT ![w] = {c}] /\ {c} \in OneOf(ThingCopy)
      BY <1>7, <3>1, <3>2 DEF OneOf
    <3> QED
      BY <3>3 DEF QuotaOK, QuotaTypeOK
  <2>3. Stored' = Stored \cup {d.thing} /\ d.thing \notin Stored
    BY <1>2, <1>3, <2>1 DEF Stored
  <2>4. /\ IsFiniteSet(Stored') /\ Cardinality(Stored') = Cardinality(Stored) + 1
        /\ Cardinality(Stored) \in Nat
    BY <2>3, OneMore DEF QuotaOK, Balance
  <2>5. /\ IsFiniteSet(Owing') /\ Cardinality(Owing) = Cardinality(Owing') + 1
        /\ Cardinality(Owing') \in Nat
    BY <1>5, OneFewer DEF QuotaOK, Balance
  <2>6. Balance'
    BY <1>1, <1>7, <2>4, <2>5 DEF QuotaOK, Balance
  <2>7. slipped' \in BOOLEAN
    BY <1>7 DEF QuotaOK, QuotaTypeOK
  <2> QED
    <3>1. \A t \in Thing : sizes'[t] # 0 => sizes[t] # 0 \/ Making(w, t)
      BY <1>3, <2>1
    <3>2. duty' = [duty EXCEPT ![w] = {}] /\ made' = made
      BY <1>1
    <3> QED
      BY <1>4, <2>1, <2>2, <2>6, <2>7, <3>1, <3>2, EndStep
<1> QED
  BY <1>1, <1>6, <1>7

LEMMA DeleteThingStep ==
    ASSUME QuotaOK, NEW w \in Writer, DeleteThing(w)
    PROVE  QuotaOK'
<1>1. PICK d \in duty[w] :
        /\ d.step = "delete"
        /\ \/ /\ sizes' = [sizes EXCEPT ![d.thing] = 0] /\ slipped' = slipped
              /\ IF sizes[d.thing] = 0 THEN duty' = [duty EXCEPT ![w] = {}]
                 ELSE duty' = [duty EXCEPT ![w] = {[d EXCEPT !.step = "uncount"]}]
           \/ /\ slipped' = TRUE /\ sizes' = sizes
              /\ duty' = [duty EXCEPT ![w] = {[d EXCEPT !.step = "uncount"]}]
        /\ made' = made /\ records' = records /\ typeSize' = typeSize /\ copies' = copies
        /\ quotaCalls' = quotaCalls
  BY DEF DeleteThing, Ends, Continues, NoneDeleted
<1>2. d \in Duty /\ duty[w] = {d} /\ d.thing \in Thing
  BY QuotaTypes DEF QuotaOK, Duty
<1>3. PICK e : e = [d EXCEPT !.step = "uncount"]
  OBVIOUS
<1>4. e \in Duty /\ e.step = "uncount"
  BY <1>2, <1>3, DutyGoesOn
<1>5. /\ records' \in Nat /\ typeSize' \in Int /\ quotaCalls' \in 0 .. MaxQuotaCalls
      /\ copies' \in [Writer -> OneOf(ThingCopy)] /\ sizes \in [Thing -> 0 .. MaxSize]
      /\ slipped \in BOOLEAN /\ w \notin Owing
      /\ {} \in OneOf(Duty) /\ {e} \in OneOf(Duty)
  BY <1>1, <1>2, <1>4 DEF QuotaOK, QuotaTypeOK, OneOf, Owing
<1>6. CASE slipped' = TRUE /\ sizes' = sizes /\ duty' = [duty EXCEPT ![w] = {e}]
  <2>1. Balance'
    BY <1>5, <1>6, SlippedBalance
  <2> QED
    BY <1>1, <1>4, <1>5, <1>6, <2>1, WriterStep
<1>7. CASE /\ sizes' = [sizes EXCEPT ![d.thing] = 0] /\ slipped' = slipped
           /\ sizes[d.thing] = 0 /\ duty' = [duty EXCEPT ![w] = {}]
  <2>1. sizes' = sizes
    BY <1>2, <1>5, <1>7
  <2>2. Balance'
    <3>1. PICK S : S = {}
      OBVIOUS
    <3>2. records' = records /\ \A x \in duty[w] : x.step \notin {"insert", "uncount"}
      BY <1>1, <1>2
    <3>3. duty' = [duty EXCEPT ![w] = S] /\ \A x \in S : FALSE
      BY <1>7, <3>1
    <3> QED
      BY <1>7, <2>1, <3>2, <3>3, SameBalance
  <2> QED
    BY <1>1, <1>5, <1>7, <2>1, <2>2, EndStep
<1>8. CASE /\ sizes' = [sizes EXCEPT ![d.thing] = 0] /\ slipped' = slipped
           /\ sizes[d.thing] # 0 /\ duty' = [duty EXCEPT ![w] = {e}]
  <2>1. /\ sizes' \in [Thing -> 0 .. MaxSize] /\ sizes'[d.thing] = 0
        /\ \A t \in Thing \ {d.thing} : sizes'[t] = sizes[t]
    BY <1>2, <1>5, <1>8, QuotaAssumption
  <2>2. Stored' = Stored \ {d.thing} /\ d.thing \in Stored
    BY <1>2, <1>8, <2>1 DEF Stored
  <2>3. /\ IsFiniteSet(Stored') /\ Cardinality(Stored) = Cardinality(Stored') + 1
        /\ Cardinality(Stored') \in Nat
    BY <2>2, OneFewer DEF QuotaOK, Balance
  <2>4. Owing' = Owing \cup {w}
    BY <1>4, <1>8, DutyStep DEF QuotaOK
  <2>5. /\ IsFiniteSet(Owing') /\ Cardinality(Owing') = Cardinality(Owing) + 1
        /\ Cardinality(Owing) \in Nat
    BY <1>5, <2>4, OneMore DEF QuotaOK, Balance
  <2>6. Balance'
    BY <1>1, <1>8, <2>3, <2>5 DEF QuotaOK, Balance
  <2> QED
    BY <1>1, <1>4, <1>5, <1>8, <2>1, <2>6, WriterStep
<1> QED
  BY <1>1, <1>3, <1>6, <1>7, <1>8

LEMMA UncountRecordStep ==
    ASSUME QuotaOK, NEW w \in Writer, UncountRecord(w)
    PROVE  QuotaOK'
<1>1. PICK d \in duty[w] :
        /\ d.step = "uncount" /\ duty' = [duty EXCEPT ![w] = {[d EXCEPT !.step = "shrink"]}]
        /\ \/ records' = (IF records > 0 THEN records - 1 ELSE records) /\ slipped' = slipped
           \/ records' = records /\ slipped' = TRUE
        /\ sizes' = sizes /\ made' = made /\ typeSize' = typeSize /\ copies' = copies
        /\ quotaCalls' = quotaCalls
  BY DEF UncountRecord, Continues
<1>2. d \in Duty /\ duty[w] = {d} /\ w \in Owing
  BY <1>1, QuotaTypes DEF QuotaOK, Owing
<1>3. PICK e : e = [d EXCEPT !.step = "shrink"]
  OBVIOUS
<1>4. e \in Duty /\ e.step = "shrink"
  BY <1>2, <1>3, DutyGoesOn
<1>5. PICK S : S = {e} /\ duty' = [duty EXCEPT ![w] = S]
  BY <1>1, <1>3
<1>6. S \in OneOf(Duty) /\ \A x \in S : x = e
  BY <1>4, <1>5 DEF OneOf
<1>7. /\ sizes' = sizes /\ sizes' \in [Thing -> 0 .. MaxSize] /\ made' = made /\ typeSize' \in Int
      /\ copies' \in [Writer -> OneOf(ThingCopy)] /\ quotaCalls' \in 0 .. MaxQuotaCalls
      /\ records \in Nat /\ slipped \in BOOLEAN
  BY <1>1 DEF QuotaOK, QuotaTypeOK
<1>8. /\ IsFiniteSet(Owing \ {w}) /\ Cardinality(Owing) = Cardinality(Owing \ {w}) + 1
      /\ Cardinality(Owing \ {w}) \in Nat
  BY <1>2, OneFewer DEF QuotaOK, Balance
<1>9. Cardinality(Stored) \in Nat /\ Stored' = Stored
  BY <1>7, FS_CardinalityType DEF QuotaOK, Balance, Stored
<1>10. Owing' = Owing \ {w}
  BY <1>4, <1>5, <1>6, DutyStep DEF QuotaOK
<1>11. Balance' /\ records' \in Nat /\ slipped' \in BOOLEAN
  <2>1. CASE records' = records /\ slipped' = TRUE
    BY <1>5, <1>6, <1>7, <2>1, SlippedBalance
  <2>2. CASE records' = (IF records > 0 THEN records - 1 ELSE records) /\ slipped' = slipped
    <3>1. ~slipped => records = Cardinality(Stored) + Cardinality(Owing) /\ records > 0
      BY <1>8, <1>9 DEF QuotaOK, Balance
    <3>2. ~slipped' => records' = Cardinality(Stored') + Cardinality(Owing')
      BY <1>7, <1>8, <1>9, <1>10, <2>2, <3>1
    <3>3. IsFiniteSet(Stored') /\ IsFiniteSet(Owing')
      BY <1>8, <1>9, <1>10 DEF QuotaOK, Balance
    <3>4. records' \in Nat
      BY <1>7, <2>2
    <3>5. slipped' \in BOOLEAN
      BY <1>7, <2>2
    <3> QED
      BY <3>2, <3>3, <3>4, <3>5 DEF Balance
  <2> QED
    BY <1>1, <2>1, <2>2
<1>12. /\ \A x \in S : x.step \in {"count", "insert"} => Making(w, x.thing)
       /\ \A x \in S : x.step \in {"count", "insert", "write"} => x.size # 0
       /\ \A t \in Thing : sizes'[t] # 0 => sizes[t] # 0
  BY <1>4, <1>6, <1>7
<1> QED
  BY <1>5, <1>6, <1>7, <1>11, <1>12, WriterStep

LEMMA WriteThingStep ==
    ASSUME QuotaOK, NEW w \in Writer, WriteThing(w)
    PROVE  QuotaOK'
<1>1. PICK d \in duty[w] :
        /\ d.step = "write"
        /\ \/ /\ sizes[d.thing] # 0 /\ sizes' = [sizes EXCEPT ![d.thing] = d.size]
              /\ duty' = [duty EXCEPT ![w] = {[d EXCEPT !.step = "resize"]}]
           \/ duty' = [duty EXCEPT ![w] = {}] /\ sizes' = sizes
        /\ made' = made /\ records' = records /\ typeSize' = typeSize /\ copies' = copies
        /\ slipped' = slipped /\ quotaCalls' = quotaCalls
  BY DEF WriteThing, Continues, Ends
<1>2. d \in Duty /\ duty[w] = {d} /\ d.thing \in Thing /\ d.size \in 0 .. MaxSize /\ d.size # 0
  BY <1>1, QuotaTypes DEF QuotaOK, MadeOnce, Duty
<1>3. PICK e : e = [d EXCEPT !.step = "resize"]
  OBVIOUS
<1>4. e \in Duty /\ e.step = "resize"
  BY <1>2, <1>3, DutyGoesOn
<1>5. PICK S : S \in {{}, {e}} /\ duty' = [duty EXCEPT ![w] = S]
  BY <1>1, <1>3
<1>6. S \in OneOf(Duty) /\ \A x \in S : x = e
  BY <1>4, <1>5 DEF OneOf
<1>7. /\ made' = made /\ records' = records /\ records' \in Nat /\ typeSize' \in Int
      /\ copies' \in [Writer -> OneOf(ThingCopy)] /\ quotaCalls' \in 0 .. MaxQuotaCalls
      /\ slipped' = slipped /\ slipped' \in BOOLEAN /\ sizes \in [Thing -> 0 .. MaxSize]
  BY <1>1 DEF QuotaOK, QuotaTypeOK
<1>8. sizes' \in [Thing -> 0 .. MaxSize] /\ \A t \in Thing : sizes'[t] = 0 <=> sizes[t] = 0
  BY <1>1, <1>2, <1>7
<1>9. \A x \in duty[w] \cup S : x.step \in {"write", "resize"}
  BY <1>1, <1>2, <1>4, <1>6
<1>10. Balance'
  BY <1>5, <1>7, <1>8, <1>9, SameBalance
<1>11. /\ \A x \in S : x.step \in {"count", "insert"} => Making(w, x.thing)
       /\ \A x \in S : x.step \in {"count", "insert", "write"} => x.size # 0
       /\ \A t \in Thing : sizes'[t] # 0 => sizes[t] # 0
  BY <1>4, <1>6, <1>8
<1> QED
  BY <1>5, <1>6, <1>7, <1>8, <1>10, <1>11, WriterStep

\* The steps that end a call with the size of the class.
LEMMA SizeStep ==
    ASSUME QuotaOK, NEW w \in Writer, ResizeType(w) \/ ShrinkType(w)
    PROVE  QuotaOK'
<1>1. PICK d \in duty[w] :
        /\ d.step \in {"resize", "shrink"} /\ duty' = [duty EXCEPT ![w] = {}]
        /\ typeSize' \in {typeSize, typeSize + d.size - d.old, typeSize - d.size}
        /\ sizes' = sizes /\ made' = made /\ records' = records /\ copies' = copies
        /\ slipped' = slipped /\ quotaCalls' = quotaCalls
  BY DEF ResizeType, ShrinkType, Ends
<1>2. d \in Duty /\ duty[w] = {d} /\ d.size \in 0 .. MaxSize /\ d.old \in 0 .. MaxSize
  BY QuotaTypes DEF QuotaOK, Duty
<1>3. PICK S : S = {}
  OBVIOUS
<1>4. Balance'
  <2>2. duty' = [duty EXCEPT ![w] = S] /\ \A x \in S : FALSE
    BY <1>1, <1>3
  <2>1. \A x \in duty[w] : x.step \notin {"insert", "uncount"}
    BY <1>1, <1>2
  <2> QED
    BY <1>1, <2>1, <2>2, SameBalance
<1>5. typeSize' \in Int
  BY <1>1, <1>2, QuotaAssumption DEF QuotaOK, QuotaTypeOK
<1> QED
  BY <1>1, <1>4, <1>5, EndStep DEF QuotaOK, QuotaTypeOK

\* A call begins, or is refused, with an instance the writer has.
LEMMA BegunStep ==
    ASSUME QuotaOK, NEW w \in Writer, NEW S \in OneOf(Duty), duty' = [duty EXCEPT ![w] = S],
           \A d \in S : d.step \in {"write", "delete"} /\ (d.step = "write" => d.size # 0),
           copies' \in [Writer -> OneOf(ThingCopy)], duty[w] = {}, QuotaCalled,
           sizes' = sizes, made' = made, records' = records, typeSize' = typeSize,
           slipped' = slipped
    PROVE  QuotaOK'
<1>3. Balance'
  <2>1. \A d \in duty[w] : d.step \notin {"insert", "uncount"}
    OBVIOUS
  <2> QED
    BY <2>1, SameBalance
<1>4. /\ sizes' \in [Thing -> 0 .. MaxSize] /\ records' \in Nat /\ typeSize' \in Int
      /\ slipped' \in BOOLEAN /\ quotaCalls' \in 0 .. MaxQuotaCalls
  BY QuotaAssumption DEF QuotaOK, QuotaTypeOK, QuotaCalled
<1>5. /\ \A d \in S : d.step \in {"count", "insert"} => Making(w, d.thing)
      /\ \A d \in S : d.step \in {"count", "insert", "write"} => d.size # 0
      /\ \A t \in Thing : sizes'[t] # 0 => sizes[t] # 0
  OBVIOUS
<1> QED
  BY <1>3, <1>4, <1>5, WriterStep

LEMMA UpdateThingStep ==
    ASSUME QuotaOK, NEW w \in Writer, NEW s \in 1 .. MaxSize, UpdateThing(w, s)
    PROVE  QuotaOK'
<1>1. PICK c \in copies[w] :
        /\ copies' = [copies EXCEPT ![w] = {[c EXCEPT !.size = s]}]
        /\ \/ duty' = duty
           \/ duty' = [duty EXCEPT ![w] =
                         {[step |-> "write", thing |-> c.thing, size |-> s, old |-> c.size]}]
  BY DEF UpdateThing, Begins
<1>2. /\ duty[w] = {} /\ QuotaCalled
      /\ sizes' = sizes /\ made' = made /\ records' = records /\ typeSize' = typeSize
      /\ slipped' = slipped
  BY DEF UpdateThing, AtRest
<1>3. c \in ThingCopy
  BY QuotaTypes DEF QuotaOK
<1>4. PICK e : e = [c EXCEPT !.size = s]
  OBVIOUS
<1>5. e \in ThingCopy
  BY <1>3, <1>4 DEF ThingCopy
<1>6. copies' \in [Writer -> OneOf(ThingCopy)]
  <2>1. {e} \in OneOf(ThingCopy) /\ copies' = [copies EXCEPT ![w] = {e}]
    BY <1>1, <1>4, <1>5 DEF OneOf
  <2> QED
    BY <2>1 DEF QuotaOK, QuotaTypeOK
<1>7. PICK d : d = [step |-> "write", thing |-> c.thing, size |-> s, old |-> c.size]
  OBVIOUS
<1>8. d \in Duty /\ d.step = "write" /\ d.size # 0
  BY <1>3, <1>7, QuotaAssumption DEF ThingCopy, Duty
<1>9. CASE duty' = duty
  <2>1. PICK S : S = {}
    OBVIOUS
  <2>2. duty' = [duty EXCEPT ![w] = S]
    BY <1>2, <1>9, <2>1 DEF QuotaOK, QuotaTypeOK
  <2>3. S \in OneOf(Duty) /\ \A x \in S : FALSE
    BY <2>1 DEF OneOf
  <2> QED
    BY <1>2, <1>6, <2>2, <2>3, BegunStep
<1>10. CASE duty' = [duty EXCEPT ![w] =
                       {[step |-> "write", thing |-> c.thing, size |-> s, old |-> c.size]}]
  <2>1. PICK S : S = {d}
    OBVIOUS
  <2>2. duty' = [duty EXCEPT ![w] = S]
    BY <1>7, <1>10, <2>1
  <2>3. S \in OneOf(Duty) /\ \A x \in S : x = d
    BY <1>8, <2>1 DEF OneOf
  <2> QED
    BY <1>2, <1>6, <1>8, <2>2, <2>3, BegunStep
<1> QED
  BY <1>1, <1>9, <1>10

LEMMA PurgeThingStep ==
    ASSUME QuotaOK, NEW w \in Writer, PurgeThing(w)
    PROVE  QuotaOK'
<1>1. PICK c \in copies[w] :
        /\ copies' = copies
        /\ duty' = [duty EXCEPT ![w] = {[step |-> "delete", thing |-> c.thing,
                                         size |-> sizes[c.thing], old |-> 0]}]
  BY DEF PurgeThing, Begins
<1>2. /\ duty[w] = {} /\ QuotaCalled
      /\ sizes' = sizes /\ made' = made /\ records' = records /\ typeSize' = typeSize
      /\ slipped' = slipped
  BY DEF PurgeThing, AtRest
<1>3. c \in ThingCopy /\ c.thing \in Thing
  BY QuotaTypes DEF QuotaOK, ThingCopy
<1>4. PICK d : d = [step |-> "delete", thing |-> c.thing, size |-> sizes[c.thing], old |-> 0]
  OBVIOUS
<1>5. d \in Duty /\ d.step = "delete"
  BY <1>3, <1>4, QuotaAssumption DEF Duty, QuotaOK, QuotaTypeOK
<1>6. PICK S : S = {d}
  OBVIOUS
<1>7. S \in OneOf(Duty) /\ (\A x \in S : x = d) /\ duty' = [duty EXCEPT ![w] = S]
  BY <1>1, <1>4, <1>5, <1>6 DEF OneOf
<1>8. copies' \in [Writer -> OneOf(ThingCopy)]
  BY <1>1 DEF QuotaOK, QuotaTypeOK
<1> QED
  BY <1>2, <1>5, <1>7, <1>8, BegunStep

LEMMA FetchThingStep ==
    ASSUME QuotaOK, NEW w \in Writer, NEW t \in Thing, FetchThing(w, t)
    PROVE  QuotaOK'
<1>1. /\ sizes[t] # 0 /\ copies' = [copies EXCEPT ![w] = {[thing |-> t, size |-> sizes[t]]}]
      /\ UNCHANGED <<sizes, made, records, typeSize, duty, slipped, quotaCalls>>
  BY DEF FetchThing
<1>2. PICK c : c = [thing |-> t, size |-> sizes[t]]
  OBVIOUS
<1>3. c \in ThingCopy
  BY <1>1, <1>2, QuotaAssumption DEF ThingCopy, QuotaOK, QuotaTypeOK
<1>4. copies' \in [Writer -> OneOf(ThingCopy)]
  <2>1. copies' = [copies EXCEPT ![w] = {c}] /\ {c} \in OneOf(ThingCopy)
    BY <1>1, <1>2, <1>3 DEF OneOf
  <2> QED
    BY <2>1 DEF QuotaOK, QuotaTypeOK
<1> QED
  BY <1>1, <1>4 DEF QuotaOK, QuotaTypeOK, MadeOnce, Making, Balance, Stored, Owing

LEMMA QuotaDiesStep ==
    ASSUME QuotaOK, NEW w \in Writer, QuotaDies(w)
    PROVE  QuotaOK'
<1>1. /\ duty' = [duty EXCEPT ![w] = {}] /\ slipped' = TRUE
      /\ copies' = [copies EXCEPT ![w] = {}]
      /\ UNCHANGED <<sizes, made, records, typeSize, quotaCalls>>
  BY DEF QuotaDies, Ends
<1>2. {} \in OneOf(Duty) /\ {} \in OneOf(ThingCopy)
  BY DEF OneOf
<1>3. Balance'
  BY <1>1, <1>2, SlippedBalance
<1>4. copies' \in [Writer -> OneOf(ThingCopy)]
  BY <1>1, <1>2 DEF QuotaOK, QuotaTypeOK
<1> QED
  BY <1>1, <1>3, <1>4, EndStep DEF QuotaOK, QuotaTypeOK

LEMMA QuotaInitOK == QuotaInit => QuotaOK
<1> SUFFICES ASSUME QuotaInit PROVE QuotaOK
  OBVIOUS
<1>1. /\ sizes = [t \in Thing |-> 0] /\ made = {} /\ records = 0 /\ typeSize = 0
      /\ copies = [w \in Writer |-> {}] /\ duty = [w \in Writer |-> {}]
      /\ slipped = FALSE /\ quotaCalls = 0
  BY DEF QuotaInit
<1>2. QuotaTypeOK
  <2>1. {} \in OneOf(Duty) /\ {} \in OneOf(ThingCopy)
    BY DEF OneOf
  <2>2. copies \in [Writer -> OneOf(ThingCopy)] /\ duty \in [Writer -> OneOf(Duty)]
    BY <1>1, <2>1
  <2>3. slipped \in BOOLEAN
    BY <1>1
  <2> QED
    BY <1>1, <2>2, <2>3, QuotaAssumption DEF QuotaTypeOK
<1>3. MadeOnce
  BY <1>1 DEF MadeOnce, Making
<1>4. Stored = {} /\ Owing = {}
  BY <1>1 DEF Stored, Owing
<1>5. Balance
  BY <1>1, <1>4, FS_EmptySet DEF Balance
<1> QED
  BY <1>2, <1>3, <1>5 DEF QuotaOK

LEMMA QuotaStep == QuotaOK /\ [QuotaNext]_quotaVars => QuotaOK'
<1> SUFFICES ASSUME QuotaOK, [QuotaNext]_quotaVars PROVE QuotaOK'
  OBVIOUS
<1>1. CASE UNCHANGED quotaVars
  BY <1>1 DEF quotaVars, QuotaOK, QuotaTypeOK, MadeOnce, Making, Balance, Stored, Owing
<1>2. CASE QuotaNext
  BY <1>2, CreateThingStep, CountRecordStep, InsertThingStep, FetchThingStep, WriteThingStep,
     SizeStep, UpdateThingStep, PurgeThingStep, DeleteThingStep, UncountRecordStep, QuotaDiesStep DEF QuotaNext
<1> QED
  BY <1>1, <1>2

\* The values the quota's record, the objects and the writers take.
THEOREM QuotaType == QuotaSpec => []QuotaTypeOK
<1>1. QuotaOK => QuotaTypeOK
  BY DEF QuotaOK
<1> QED
  BY <1>1, QuotaInitOK, QuotaStep, PTL DEF QuotaSpec

\* Whoever makes, updates and purges objects of a class at the same time, the
\* record counts what is stored when they have finished: midgard_quota_create,
\* _remove and the DELETE's number of rows keep it, unless a statement fails.
THEOREM RecordsAreCounted == QuotaSpec => []RecordsCount
<1>1. QuotaOK => RecordsCount
  <2> SUFFICES ASSUME QuotaOK, ~slipped, \A w \in Writer : AtRest(w)
               PROVE  records = Cardinality(Stored)
    BY DEF RecordsCount, Stored
  <2>1. Owing = {}
    BY DEF Owing, AtRest
  <2>2. Cardinality(Stored) \in Nat
    BY FS_CardinalityType DEF QuotaOK, Balance
  <2> QED
    BY <2>1, <2>2, FS_EmptySet DEF QuotaOK, Balance
<1> QED
  BY <1>1, QuotaInitOK, QuotaStep, PTL DEF QuotaSpec

-----------------------------------------------------------------------------
(* The tables *)

Meta1 == META[1]
Meta2 == META[2]

\* A call that has added the metadata columns and is not done.
Past(d) == \/ d.op = "create" /\ d.step \in {"fields", "workspace"}
           \/ d.op = "update" /\ d.step = "workspace"

\* Where a call of midgard_storage_create or _update may be, and with what.
Placed(d) ==
    /\ d.step \notin {"look", "make"} => table
    /\ d.op = "found" => d.step = "workspace"
    /\ d.step = "make" => d.op = "create"
    /\ d.step = "meta2" => Meta1 \in columns
    /\ Past(d) => Meta1 \in columns /\ Meta2 \in columns
    /\ d.op = "update" /\ d.step \in {"meta1", "meta2", "workspace"} => d.fields = {}
    /\ d.op = "create" /\ d.step = "workspace" => d.fields = {}

\* What it has yet to add is what the table may lack.
Tracked(d) == FieldsOf[d.kind] \subseteq columns \cup d.fields

CallsOK == \A i \in Installer : \A d \in task[i] : d \in InstallTask => Placed(d)
CallsTracked == \A i \in Installer : \A d \in task[i] : d \in InstallTask => Tracked(d)

Somewhere(s) == \E i \in Installer : \E d \in task[i] : d.step = s
SomePast == \E i \in Installer : \E d \in task[i] : Past(d)
SomeWhole == \E k \in Kind : ColumnsOf(k) \subseteq columns

\* A table that is not whole is in somebody's hands.
Carried == table =>
    /\ Meta1 \notin columns => Meta2 \notin columns /\ Somewhere("meta1")
    /\ Meta1 \in columns /\ Meta2 \notin columns => Somewhere("meta2")
    /\ Meta1 \in columns /\ Meta2 \in columns => SomeWhole \/ SomePast

Promises == \A k \in promised : ColumnsOf(k) \subseteq columns

Basing(i) == \E d \in task[i] : d.op = "base"

BaseOK ==
    /\ \A i \in Installer : \A d \in task[i] :
          /\ d.step \in {"ask", "insert", "rest"} => userTable
          /\ d.step = "rest" => admins >= 1
    /\ based > 0 => admins >= 1
    /\ ~raced => /\ admins <= 1
                 /\ \A i \in Installer : \A d \in task[i] : d.step = "insert" => admins = 0
                 /\ \A i, j \in Installer : Basing(i) /\ Basing(j) => i = j

StorageOK ==
    /\ StorageTypeOK /\ CallsOK
    /\ ~faults => CallsTracked /\ Carried /\ Promises /\ BaseOK

LEMMA Columns ==
    /\ Meta1 # Meta2 /\ Meta1 # WORKSPACE /\ Meta2 # WORKSPACE
    /\ Meta1 \notin Field /\ Meta2 \notin Field /\ WORKSPACE \notin Field
    /\ Column = Field \cup {Meta1, Meta2, WORKSPACE}
    /\ \A k \in Kind : ColumnsOf(k) = FieldsOf[k] \cup {Meta1, Meta2, WORKSPACE}
    /\ \A k \in Kind : FieldsOf[k] \subseteq Field
<1>1. META[1] = "metadata_creator" /\ META[2] = "metadata_score" /\ WORKSPACE = "midgard_ws_id"
  BY DEF META, WORKSPACE
<1>2. DOMAIN META = {1, 2}
  BY DEF META
<1>3. Column = Field \cup {Meta1, Meta2, WORKSPACE}
  BY <1>2 DEF Column, Meta1, Meta2
<1>4. Meta1 \notin Field /\ Meta2 \notin Field /\ WORKSPACE \notin Field
  BY StorageAssumption DEF Meta1, Meta2
<1>5. \A k \in Kind : ColumnsOf(k) = FieldsOf[k] \cup {Meta1, Meta2, WORKSPACE}
  BY <1>3, <1>4 DEF ColumnsOf
<1> QED
  BY <1>1, <1>3, <1>4, <1>5, StorageAssumption DEF Meta1, Meta2

\* What a call goes on with.
LEMMA InstallGoesOn ==
    ASSUME NEW d \in InstallTask, NEW e, NEW s, e = [d EXCEPT !.step = s],
           s \in {"look", "make", "meta1", "meta2", "fields", "workspace"}
    PROVE  /\ e \in InstallTask /\ e.step = s
           /\ e.op = d.op /\ e.kind = d.kind /\ e.fields = d.fields
BY DEF InstallTask

LEMMA BaseGoesOn ==
    ASSUME NEW d \in BaseTask, NEW e, NEW s, e = [d EXCEPT !.step = s],
           s \in {"repligard", "user", "ask", "insert", "rest"}
    PROVE  e \in BaseTask /\ e.step = s /\ e.op = "base"
BY DEF BaseTask

LEMMA TaskKinds ==
    /\ \A d \in InstallTask : d.op # "base" /\ d.step \notin {"repligard", "user", "ask", "insert", "rest"}
    /\ \A d \in BaseTask : /\ d.op = "base" /\ d \notin InstallTask /\ ~Past(d)
                           /\ d.step \in {"repligard", "user", "ask", "insert", "rest"}
    /\ \A d \in InstallTask : d.kind \in Kind /\ d.fields \subseteq Field /\ d.op \in {"create", "found", "update"}
<1>1. \A d \in InstallTask : d.op # "base" /\ d.step \notin {"repligard", "user", "ask", "insert", "rest"}
  BY DEF InstallTask
<1>2. \A d \in BaseTask : d.op = "base" /\ d.step \in {"repligard", "user", "ask", "insert", "rest"}
  BY DEF BaseTask
<1>3. \A d \in InstallTask : d.kind \in Kind /\ d.fields \subseteq Field /\ d.op \in {"create", "found", "update"}
  BY DEF InstallTask
<1> QED
  BY <1>1, <1>2, <1>3 DEF Past

\* The hands of one installer.
LEMMA OneTask ==
    ASSUME task \in [Installer -> SUBSET Task],
           \A j \in Installer : \A d, e \in task[j] : d = e,
           NEW i \in Installer, NEW S \in SUBSET Task, \A d, e \in S : d = e,
           task' = [task EXCEPT ![i] = S]
    PROVE  /\ task' \in [Installer -> SUBSET Task]
           /\ \A j \in Installer : \A d, e \in task'[j] : d = e
           /\ task'[i] = S /\ \A j \in Installer : j # i => task'[j] = task[j]
OBVIOUS

\* A call that is not in the step, or is in it still, takes nobody's hands off.
LEMMA HandsStay ==
    ASSUME NEW i \in Installer, \A j \in Installer : j # i => task'[j] = task[j]
    PROVE  /\ \A s : Somewhere(s) /\ (\A d \in task[i] : d.step # s) => Somewhere(s)'
           /\ \A s : (\E d \in task'[i] : d.step = s) => Somewhere(s)'
           /\ SomePast /\ (\A d \in task[i] : ~Past(d)) => SomePast'
           /\ (\E d \in task'[i] : Past(d)) => SomePast'
BY DEF Somewhere, SomePast, Past

LEMMA WholeStays ==
    ASSUME columns \subseteq columns'
    PROVE  /\ SomeWhole => SomeWhole'
           /\ Promises /\ promised' = promised => Promises'
BY DEF SomeWhole, Promises, ColumnsOf, Column

\* An installer goes on with one call or with none; the meta stores know what
\* is there; the base storage is not touched.
Holds(i, S) == S \in SUBSET InstallTask /\ (\A d, e \in S : d = e) /\ task' = [task EXCEPT ![i] = S]
StoresOK ==
    /\ store \in [Installer -> SUBSET SUBSET columns]
    /\ \A i \in Installer : \A s, t \in store[i] : s = t
Grown ==
    /\ table' \in BOOLEAN /\ (table => table')
    /\ columns' \subseteq Column /\ columns \subseteq columns' /\ (~table' => columns' = {})
    /\ promised' \subseteq Kind /\ faults' \in BOOLEAN /\ (faults => faults')
Aside == UNCHANGED <<admins, userTable, based, raced, installs>>
AllPlaced(S) == \A d \in S : Placed(d)
AllTracked(S) == \A d \in S : Tracked(d)

LEMMA HoldsOne ==
    ASSUME NEW i \in Installer, NEW d \in InstallTask, task' = [task EXCEPT ![i] = {d}],
           Placed(d)', ~faults' => Tracked(d)'
    PROVE  Holds(i, {d}) /\ AllPlaced({d})' /\ (~faults' => AllTracked({d})')
BY DEF Holds, AllPlaced, AllTracked

LEMMA HoldsNone ==
    ASSUME NEW i \in Installer, Leave(i)
    PROVE  Holds(i, {}) /\ AllPlaced({})' /\ AllTracked({})'
BY DEF Holds, Leave, AllPlaced, AllTracked

\* What is in a table stays there, for calls that are under way.
LEMMA CallsStay ==
    ASSUME CallsOK, NEW i \in Installer, NEW S, task'[i] = S,
           \A j \in Installer : j # i => task'[j] = task[j],
           columns \subseteq columns', table => table',
           \A d \in S : d \in InstallTask => Placed(d)'
    PROVE  CallsOK'
<1>1. ASSUME NEW j \in Installer, NEW d \in task[j], d \in InstallTask PROVE Placed(d)'
  <2>1. Placed(d)
    BY <1>1 DEF CallsOK
  <2> QED
    BY <2>1 DEF Placed, Past, Meta1, Meta2
<1>2. ASSUME NEW j \in Installer, NEW d \in task'[j], d \in InstallTask PROVE Placed(d)'
  BY <1>1, <1>2
<1> QED
  BY <1>2 DEF CallsOK

LEMMA TrackedStays ==
    ASSUME CallsTracked, NEW i \in Installer, NEW S, task'[i] = S,
           \A j \in Installer : j # i => task'[j] = task[j],
           columns \subseteq columns',
           \A d \in S : d \in InstallTask => Tracked(d)'
    PROVE  CallsTracked'
<1>1. ASSUME NEW j \in Installer, NEW d \in task[j], d \in InstallTask PROVE Tracked(d)'
  <2>1. Tracked(d)
    BY <1>1 DEF CallsTracked
  <2> QED
    BY <2>1 DEF Tracked
<1>2. ASSUME NEW j \in Installer, NEW d \in task'[j], d \in InstallTask PROVE Tracked(d)'
  BY <1>1, <1>2
<1> QED
  BY <1>2 DEF CallsTracked

\* A call of _create or _update leaves the base storage as it is.
LEMMA BaseStays ==
    ASSUME BaseOK, NEW i \in Installer, NEW S \in SUBSET InstallTask, task'[i] = S,
           \A j \in Installer : j # i => task'[j] = task[j],
           admins' = admins, userTable' = userTable, based' = based, raced' = raced
    PROVE  BaseOK'
<1>1. \A d \in S : d.op # "base" /\ d.step \notin {"ask", "insert", "rest"}
  BY TaskKinds
<1>2. \A j \in Installer : Basing(j)' => j # i /\ Basing(j)
  BY <1>1 DEF Basing
<1>3. \A j \in Installer : \A d \in task'[j] :
          d.step \in {"ask", "insert", "rest"} => j # i /\ d \in task[j]
  BY <1>1
<1>4. \A j \in Installer : \A d \in task'[j] :
          /\ d.step \in {"ask", "insert", "rest"} => userTable'
          /\ d.step = "rest" => admins' >= 1
  BY <1>3 DEF BaseOK
<1>5. based' > 0 => admins' >= 1
  BY DEF BaseOK
<1>6. ~raced' => /\ admins' <= 1
                 /\ \A j \in Installer : \A d \in task'[j] : d.step = "insert" => admins' = 0
  BY <1>3 DEF BaseOK
<1>7. ~raced' => \A j, k \in Installer : Basing(j)' /\ Basing(k)' => j = k
  BY <1>2 DEF BaseOK
<1> QED
  BY <1>4, <1>5, <1>6, <1>7 DEF BaseOK

\* The table's type, where a call of _create or _update goes on.
LEMMA InstallTypes ==
    ASSUME StorageTypeOK, NEW i \in Installer, NEW S, Holds(i, S), Grown, StoresOK', Aside
    PROVE  StorageTypeOK'
<1>1. S \in SUBSET Task /\ (\A d, e \in S : d = e) /\ task' = [task EXCEPT ![i] = S]
  BY DEF Task, Holds
<1>2. /\ task' \in [Installer -> SUBSET Task]
      /\ \A j \in Installer : \A d, e \in task'[j] : d = e
  BY <1>1, OneTask DEF StorageTypeOK
<1>3. admins' \in Nat /\ userTable' \in BOOLEAN /\ based' \in Nat /\ raced' \in BOOLEAN
      /\ installs' \in 0 .. MaxInstalls
  BY DEF StorageTypeOK, Aside
<1>4. /\ table' \in BOOLEAN /\ columns' \subseteq Column
      /\ ~table' => columns' = {}
      /\ promised' \subseteq Kind /\ faults' \in BOOLEAN
  BY DEF Grown
<1>5. store' \in [Installer -> SUBSET SUBSET columns']
  BY DEF StoresOK
<1>6. \A j \in Installer : /\ \A s, t \in store'[j] : s = t
                           /\ \A d, e \in task'[j] : d = e
  BY <1>2 DEF StoresOK
<1> QED
  BY <1>2, <1>3, <1>4, <1>5, <1>6 DEF StorageTypeOK

\* A meta store knows no column that is not there.
LEMMA StoresStay ==
    ASSUME StorageTypeOK, store' = store, columns \subseteq columns'
    PROVE  StoresOK'
BY DEF StorageTypeOK, StoresOK

LEMMA StoreSet ==
    ASSUME StorageTypeOK, NEW i \in Installer, NEW S \in SUBSET SUBSET columns,
           \A s, t \in S : s = t,
           store' = [store EXCEPT ![i] = S], columns' = columns
    PROVE  StoresOK'
<1>1. store' \in [Installer -> SUBSET SUBSET columns']
  BY DEF StorageTypeOK
<1>2. \A j \in Installer : store'[j] = IF j = i THEN S ELSE store[j]
  BY DEF StorageTypeOK
<1> QED
  BY <1>1, <1>2 DEF StorageTypeOK, StoresOK

LEMMA Refreshed ==
    ASSUME StorageTypeOK, NEW i \in Installer, Refresh(i), columns' = columns
    PROVE  StoresOK'
<1>1. CASE store' = [store EXCEPT ![i] = {columns}]
  <2>1. PICK S : S = {columns}
    OBVIOUS
  <2>2. S \in SUBSET SUBSET columns /\ \A s, t \in S : s = t
    BY <2>1
  <2> QED
    BY <1>1, <2>1, <2>2, StoreSet
<1>2. CASE store' = [store EXCEPT ![i] = {}]
  <2>1. PICK S : S = {}
    OBVIOUS
  <2>2. S \in SUBSET SUBSET columns /\ \A s, t \in S : s = t
    BY <2>1
  <2> QED
    BY <1>2, <2>1, <2>2, StoreSet
<1>3. CASE UNCHANGED store
  BY <1>3, StoresStay
<1> QED
  BY <1>1, <1>2, <1>3 DEF Refresh

\* A column that a call asks for.
LEMMA Known ==
    ASSUME StorageTypeOK, NEW i \in Installer, NEW c, InStore(i, c)
    PROVE  c \in columns
BY DEF StorageTypeOK, InStore

LEMMA AddedOK ==
    ASSUME StorageTypeOK, NEW i \in Installer, NEW c \in Column, Added(i, c), table
    PROVE  /\ c \in columns' /\ columns' = columns \cup {c} /\ columns' \subseteq Column
           /\ faults' = faults
<1>1. columns \subseteq Column
  BY DEF StorageTypeOK
<1>2. CASE InStore(i, c) /\ UNCHANGED <<columns, faults>>
  BY <1>1, <1>2, Known
<1>3. CASE columns' = columns \cup {c} /\ UNCHANGED faults
  BY <1>1, <1>3
<1> QED
  BY <1>2, <1>3 DEF Added

LEMMA NotAddedOK ==
    ASSUME StorageTypeOK, NEW i \in Installer, NEW c, NotAdded(i, c)
    PROVE  /\ columns' = columns /\ columns' \subseteq Column
           /\ faults' \in BOOLEAN /\ (~faults' => ~faults /\ c \in columns)
<1>1. columns' = columns /\ columns' \subseteq Column /\ faults \in BOOLEAN
  BY DEF StorageTypeOK, NotAdded
<1>2. CASE c \in columns /\ faults' = faults
  BY <1>1, <1>2
<1>3. CASE faults' = TRUE
  BY <1>1, <1>3
<1> QED
  BY <1>2, <1>3 DEF NotAdded

LEMMA InstallOK ==
    ASSUME StorageOK, NEW i \in Installer, NEW S, Holds(i, S), Grown, StoresOK', Aside,
           AllPlaced(S)', ~faults' => AllTracked(S)', ~faults' => Carried' /\ Promises'
    PROVE  StorageOK'
<1>1. StorageTypeOK'
  BY InstallTypes DEF StorageOK
<1>2. /\ task'[i] = S /\ \A j \in Installer : j # i => task'[j] = task[j]
      /\ S \in SUBSET InstallTask
  BY DEF StorageOK, StorageTypeOK, Holds
<1>3. (\A d \in S : Placed(d)') /\ (~faults' => \A d \in S : Tracked(d)')
  BY DEF AllPlaced, AllTracked
<1>4. columns \subseteq columns' /\ (table => table') /\ (~faults' => ~faults)
  BY DEF Grown
<1>5. CallsOK'
  BY <1>2, <1>3, <1>4, CallsStay DEF StorageOK
<1>6. ~faults' => CallsTracked'
  BY <1>2, <1>3, <1>4, TrackedStays DEF StorageOK
<1>7. ~faults' => BaseOK'
  BY <1>2, <1>4, BaseStays DEF StorageOK, Aside
<1> QED
  BY <1>1, <1>5, <1>6, <1>7 DEF StorageOK

\* What is in one's hands.
LEMMA InHands ==
    ASSUME StorageOK, NEW i \in Installer, NEW d \in task[i],
           d.step \in {"look", "make", "meta1", "meta2", "fields", "workspace"}
    PROVE  /\ d \in InstallTask /\ Placed(d) /\ task[i] = {d}
           /\ ~faults => Tracked(d) /\ Carried /\ Promises
           /\ table \in BOOLEAN /\ columns \subseteq Column /\ (~table => columns = {})
           /\ promised \subseteq Kind /\ faults \in BOOLEAN /\ StorageTypeOK
<1>1. d \in Task /\ task[i] = {d}
  BY DEF StorageOK, StorageTypeOK
<1>2. d \in InstallTask
  BY <1>1, TaskKinds DEF Task
<1> QED
  BY <1>1, <1>2 DEF StorageOK, StorageTypeOK, CallsOK, CallsTracked

\* Where no metadata column is added, who had the table in its hands has it
\* still, or it is whole.
LEMMA CarriedStays ==
    ASSUME Carried, NEW i \in Installer, table' = table, columns \subseteq columns',
           Meta1 \in columns' => Meta1 \in columns, Meta2 \in columns' => Meta2 \in columns,
           \A j \in Installer : j # i => task'[j] = task[j],
           \A d \in task[i] :
              /\ d.step = "meta1" => Meta1 \in columns
              /\ d.step = "meta2" => Meta2 \in columns
              /\ Past(d) => SomeWhole' \/ \E e \in task'[i] : Past(e)
    PROVE  Carried'
<1>1. Meta1' = Meta1 /\ Meta2' = Meta2
  BY DEF Meta1, Meta2
<1>2. SomeWhole => SomeWhole'
  BY WholeStays
<1>3. ASSUME table, Meta1 \notin columns PROVE Meta2 \notin columns /\ Somewhere("meta1")'
  BY <1>3, HandsStay DEF Carried
<1>4. ASSUME table, Meta1 \in columns, Meta2 \notin columns PROVE Somewhere("meta2")'
  BY <1>4, HandsStay DEF Carried
<1>5. ASSUME table, Meta1 \in columns, Meta2 \in columns PROVE SomeWhole' \/ SomePast'
  <2>1. CASE SomeWhole
    BY <1>2, <2>1
  <2>2. CASE SomePast /\ ~SomeWhole
    BY <2>2, HandsStay
  <2> QED
    BY <1>5, <2>1, <2>2 DEF Carried
<1> QED
  BY <1>1, <1>3, <1>4, <1>5 DEF Carried

LEMMA StartInstallStep ==
    StorageOK /\ (\E i \in Installer, k \in Kind, op \in {"create", "update"} : StartInstall(i, k, op))
        => StorageOK'
<1> SUFFICES ASSUME StorageOK, NEW i \in Installer, NEW k \in Kind,
                    NEW op \in {"create", "update"}, StartInstall(i, k, op)
             PROVE  StorageOK'
  OBVIOUS
<1>1. PICK d : d = [op |-> op, kind |-> k, fields |-> FieldsOf[k], step |-> "look"]
  OBVIOUS
<1>2. /\ task[i] = {} /\ task' = [task EXCEPT ![i] = {d}]
      /\ installs < MaxInstalls /\ installs' = installs + 1
      /\ UNCHANGED <<table, columns, store, promised, admins, userTable, based, faults, raced>>
  BY <1>1 DEF StartInstall, Take, Resting
<1>3. /\ d \in InstallTask /\ d.step = "look" /\ d.op \in {"create", "update"}
      /\ d.fields = FieldsOf[d.kind]
  BY <1>1, Columns DEF InstallTask
<1>4. Placed(d)' /\ Tracked(d)'
  BY <1>3 DEF Placed, Tracked, Past
<1>5. PICK S : S = {d}
  OBVIOUS
<1>6. S \in SUBSET InstallTask /\ \A x, y \in S : x = y
  BY <1>3, <1>5
<1>7. S \in SUBSET Task /\ task' = [task EXCEPT ![i] = S]
  BY <1>2, <1>5, <1>6 DEF Task
<1>8. StorageTypeOK
  BY DEF StorageOK
<1>9. /\ task' \in [Installer -> SUBSET Task]
      /\ \A j \in Installer : \A x, y \in task'[j] : x = y
      /\ task'[i] = S /\ \A j \in Installer : j # i => task'[j] = task[j]
  BY <1>6, <1>7, <1>8, OneTask DEF StorageTypeOK
<1>10. StorageTypeOK'
  <2>1. installs' \in 0 .. MaxInstalls
    BY <1>2, <1>8, StorageAssumption DEF StorageTypeOK
  <2> QED
    BY <1>2, <1>8, <1>9, <2>1 DEF StorageTypeOK
<1>11. CallsOK'
  BY <1>2, <1>4, <1>5, <1>9, CallsStay DEF StorageOK
<1>12. ASSUME ~faults' PROVE CallsTracked' /\ Carried' /\ Promises' /\ BaseOK'
  <2>1. CallsTracked /\ Carried /\ Promises /\ BaseOK
    BY <1>2, <1>12 DEF StorageOK
  <2>2. CallsTracked'
    BY <1>2, <1>4, <1>5, <1>9, <2>1, TrackedStays
  <2>3. Carried'
    BY <1>2, <1>9, <2>1, CarriedStays
  <2>4. Promises'
    BY <1>2, <2>1, WholeStays
  <2>5. BaseOK'
    BY <1>2, <1>6, <1>9, <2>1, BaseStays
  <2> QED
    BY <2>2, <2>3, <2>4, <2>5
<1> QED
  BY <1>10, <1>11, <1>12 DEF StorageOK

\* A step that leaves the table, where a call goes on or ends; one that had the
\* table in its hands has it still, or the table is whole.
Still == UNCHANGED <<table, columns, promised>> /\ faults' \in BOOLEAN /\ (faults => faults')
Freed(i, S) == \A d \in task[i] :
    /\ d.step = "meta1" => Meta1 \in columns
    /\ d.step = "meta2" => Meta2 \in columns
    /\ Past(d) => SomeWhole' \/ \E e \in S : Past(e)

LEMMA StillTable ==
    ASSUME StorageOK, NEW i \in Installer, NEW S, Holds(i, S), Still, StoresOK', Aside,
           AllPlaced(S)', ~faults' => AllTracked(S)', ~faults' => Freed(i, S)
    PROVE  StorageOK'
<1>1. task'[i] = S /\ \A j \in Installer : j # i => task'[j] = task[j]
  BY DEF StorageOK, StorageTypeOK, Holds
<1>2. ASSUME ~faults' PROVE Carried' /\ Promises'
  <2>1. Carried /\ Promises /\ table' = table /\ columns' = columns /\ promised' = promised
    BY <1>2 DEF StorageOK, Still
  <2>2. \A d \in task[i] :
           /\ d.step = "meta1" => Meta1 \in columns
           /\ d.step = "meta2" => Meta2 \in columns
           /\ Past(d) => SomeWhole' \/ \E e \in task'[i] : Past(e)
    BY <1>1, <1>2 DEF Freed
  <2>3. Carried'
    BY <1>1, <2>1, <2>2, CarriedStays
  <2>4. Promises'
    BY <2>1, WholeStays
  <2> QED
    BY <2>3, <2>4
<1>3. Grown
  BY DEF StorageOK, StorageTypeOK, Still, Grown
<1> QED
  BY <1>2, <1>3, InstallOK

LEMMA LookForTableStep == StorageOK /\ (\E i \in Installer : LookForTable(i)) => StorageOK'
<1> SUFFICES ASSUME StorageOK, NEW i \in Installer, LookForTable(i) PROVE StorageOK'
  OBVIOUS
<1>1. PICK d \in task[i] :
        /\ d.step = "look" /\ Refresh(i)
        /\ IF d.op = "create"
           THEN IF table THEN GoOn(i, [d EXCEPT !.op = "found"], "workspace")
                         ELSE GoOn(i, d, "make")
           ELSE IF table THEN GoOn(i, d, "fields") ELSE Leave(i)
        /\ UNCHANGED <<table, columns, promised, admins, userTable, based, faults, raced, installs>>
  BY DEF LookForTable
<1>2. /\ d \in InstallTask /\ Placed(d) /\ task[i] = {d} /\ (~faults => Tracked(d))
      /\ StorageTypeOK /\ faults' \in BOOLEAN
  BY <1>1, InHands
<1>3. StoresOK' /\ Still /\ Aside
  BY <1>1, <1>2, Refreshed DEF Still, Aside
<1>4. d.step = "look" /\ d.op \in {"create", "update"} /\ ~Past(d)
  BY <1>1, <1>2, TaskKinds DEF Placed, Past
<1>5. PICK f : f = [d EXCEPT !.op = "found"]
  OBVIOUS
<1>6. f \in InstallTask /\ f.op = "found" /\ f.kind = d.kind /\ f.fields = d.fields
  BY <1>2, <1>5 DEF InstallTask
<1>7. ASSUME NEW e \in InstallTask, task' = [task EXCEPT ![i] = {e}],
             e.kind = d.kind, e.fields = d.fields,
             \/ e.step = "workspace" /\ e.op = "found" /\ table
             \/ e.step = "make" /\ e.op = "create"
             \/ e.step = "fields" /\ e.op = "update" /\ table
      PROVE  StorageOK'
  <2>1. Placed(e)'
    BY <1>1, <1>7 DEF Placed, Past
  <2>2. ~faults' => Tracked(e)'
    BY <1>1, <1>2, <1>7 DEF Tracked
  <2>3. Holds(i, {e}) /\ AllPlaced({e})' /\ (~faults' => AllTracked({e})')
    BY <1>7, <2>1, <2>2, HoldsOne
  <2>4. Freed(i, {e})
    BY <1>2, <1>4 DEF Freed
  <2> QED
    BY <1>3, <2>3, <2>4, StillTable
<1>8. CASE d.op = "create" /\ table
  <2>1. PICK e : e = [f EXCEPT !.step = "workspace"]
    OBVIOUS
  <2>2. e \in InstallTask /\ e.step = "workspace" /\ e.op = "found" /\ e.kind = d.kind /\ e.fields = d.fields
    BY <2>1, <1>6, InstallGoesOn
  <2>3. task' = [task EXCEPT ![i] = {e}]
    BY <1>1, <1>5, <1>8, <2>1 DEF GoOn
  <2> QED
    BY <1>7, <1>8, <2>2, <2>3
<1>9. CASE d.op = "create" /\ ~table
  <2>1. PICK e : e = [d EXCEPT !.step = "make"]
    OBVIOUS
  <2>2. e \in InstallTask /\ e.step = "make" /\ e.op = "create" /\ e.kind = d.kind /\ e.fields = d.fields
    BY <2>1, <1>2, <1>9, InstallGoesOn
  <2>3. task' = [task EXCEPT ![i] = {e}]
    BY <1>1, <1>9, <2>1 DEF GoOn
  <2> QED
    BY <1>7, <2>2, <2>3
<1>10. CASE d.op = "update" /\ table
  <2>1. PICK e : e = [d EXCEPT !.step = "fields"]
    OBVIOUS
  <2>2. e \in InstallTask /\ e.step = "fields" /\ e.op = "update" /\ e.kind = d.kind /\ e.fields = d.fields
    BY <2>1, <1>2, <1>10, InstallGoesOn
  <2>3. task' = [task EXCEPT ![i] = {e}]
    BY <1>1, <1>10, <2>1 DEF GoOn
  <2> QED
    BY <1>7, <1>10, <2>2, <2>3
<1>11. CASE d.op = "update" /\ ~table
  <2>1. Holds(i, {}) /\ AllPlaced({})' /\ AllTracked({})'
    BY <1>1, <1>11, HoldsNone
  <2>2. Freed(i, {})
    BY <1>2, <1>4 DEF Freed
  <2> QED
    BY <1>3, <2>1, <2>2, StillTable
<1> QED
  BY <1>4, <1>8, <1>9, <1>10, <1>11

LEMMA MakeTableStep == StorageOK /\ (\E i \in Installer : MakeTable(i)) => StorageOK'
<1> SUFFICES ASSUME StorageOK, NEW i \in Installer, MakeTable(i) PROVE StorageOK'
  OBVIOUS
<1>1. PICK d \in task[i] :
        /\ d.step = "make" /\ table' = TRUE
        /\ \/ table /\ store' = [store EXCEPT ![i] = {columns}]
           \/ ~table /\ store' = [store EXCEPT ![i] = {{}}]
        /\ GoOn(i, d, "meta1")
        /\ UNCHANGED <<columns, promised, admins, userTable, based, faults, raced, installs>>
  BY DEF MakeTable
<1>2. /\ d \in InstallTask /\ Placed(d) /\ task[i] = {d} /\ (~faults => Tracked(d) /\ Carried /\ Promises)
      /\ StorageTypeOK /\ faults' \in BOOLEAN
      /\ columns \subseteq Column /\ (~table => columns = {}) /\ promised \subseteq Kind
  BY <1>1, InHands
<1>3. StoresOK'
  <2>1. PICK S : S = {columns}
    OBVIOUS
  <2>2. S \in SUBSET SUBSET columns /\ (\A s, t \in S : s = t) /\ store' = [store EXCEPT ![i] = S]
    BY <1>1, <1>2, <2>1
  <2> QED
    BY <1>1, <1>2, <2>2, StoreSet
<1>4. PICK e : e = [d EXCEPT !.step = "meta1"]
  OBVIOUS
<1>5. e \in InstallTask /\ e.step = "meta1" /\ e.op = "create" /\ e.kind = d.kind /\ e.fields = d.fields
  BY <1>1, <1>2, <1>4, InstallGoesOn DEF Placed
<1>6. task' = [task EXCEPT ![i] = {e}]
  BY <1>1, <1>4 DEF GoOn
<1>7. Placed(e)' /\ (~faults' => Tracked(e)')
  BY <1>1, <1>2, <1>5 DEF Placed, Past, Tracked
<1>8. Holds(i, {e}) /\ AllPlaced({e})' /\ (~faults' => AllTracked({e})')
  BY <1>5, <1>6, <1>7, HoldsOne
<1>9. Grown /\ Aside
  BY <1>1, <1>2 DEF Grown, Aside
<1>10. ASSUME ~faults' PROVE Carried' /\ Promises'
  <2>1. task'[i] = {e} /\ \A j \in Installer : j # i => task'[j] = task[j]
    BY <1>2, <1>6 DEF StorageTypeOK
  <2>2. Promises'
    BY <1>1, <1>2, <1>10, WholeStays
  <2>3. ASSUME ~table PROVE Carried'
    <3>1. Meta1' \notin columns' /\ Meta2' \notin columns'
      BY <1>1, <1>2, <2>3 DEF Meta1, Meta2
    <3>2. Somewhere("meta1")'
      BY <1>5, <2>1 DEF Somewhere
    <3> QED
      BY <3>1, <3>2 DEF Carried
  <2>4. ASSUME table PROVE Carried'
    <3>1. ~Past(d) /\ d.step # "meta1" /\ d.step # "meta2"
      BY <1>1 DEF Past
    <3> QED
      BY <1>1, <1>2, <1>10, <2>1, <2>4, <3>1, CarriedStays
  <2> QED
    BY <2>2, <2>3, <2>4
<1> QED
  BY <1>3, <1>8, <1>9, <1>10, InstallOK

LEMMA MakeTableFailsStep == StorageOK /\ (\E i \in Installer : MakeTableFails(i)) => StorageOK'
<1> SUFFICES ASSUME StorageOK, NEW i \in Installer, MakeTableFails(i) PROVE StorageOK'
  OBVIOUS
<1>1. PICK d \in task[i] :
        /\ d.step = "make" /\ Leave(i)
        /\ \/ faults' = TRUE
           \/ table /\ UNCHANGED faults
        /\ UNCHANGED <<table, columns, store, promised, admins, userTable, based, raced, installs>>
  BY DEF MakeTableFails
<1>2. d \in InstallTask /\ task[i] = {d} /\ StorageTypeOK /\ faults \in BOOLEAN
  BY <1>1, InHands
<1>3. faults' \in BOOLEAN /\ (faults => faults')
  <2>1. CASE faults' = TRUE
    BY <2>1
  <2>2. CASE UNCHANGED faults
    BY <1>2, <2>2
  <2> QED
    BY <1>1, <2>1, <2>2
<1>4. StoresOK' /\ Still /\ Aside
  BY <1>1, <1>2, <1>3, StoresStay DEF Still, Aside
<1>5. Holds(i, {}) /\ AllPlaced({})' /\ AllTracked({})'
  BY <1>1, HoldsNone
<1>6. Freed(i, {})
  BY <1>1, <1>2 DEF Freed, Past
<1> QED
  BY <1>4, <1>5, <1>6, StillTable

\* A metadata column is there once it was asked for, or the call ends.
LEMMA AddMetaStep == StorageOK /\ (\E i \in Installer : AddMeta(i)) => StorageOK'
<1> SUFFICES ASSUME StorageOK, NEW i \in Installer, AddMeta(i) PROVE StorageOK'
  OBVIOUS
<1>1. PICK d \in task[i], n \in DOMAIN META :
        /\ d.step = (IF n = 1 THEN "meta1" ELSE "meta2")
        /\ \/ /\ Added(i, META[n])
              /\ GoOn(i, d, IF n = 1 THEN "meta2" ELSE
                            IF d.op = "create" THEN "fields" ELSE "workspace")
           \/ NotAdded(i, META[n]) /\ Leave(i)
        /\ UNCHANGED <<table, store, promised, admins, userTable, based, raced, installs>>
  BY DEF AddMeta
<1>2. n \in {1, 2}
  BY DEF META
<1>3. d.step \in {"meta1", "meta2"} /\ (d.step = "meta1" <=> n = 1)
  BY <1>1, <1>2
<1>4. /\ d \in InstallTask /\ Placed(d) /\ task[i] = {d} /\ (~faults => Tracked(d) /\ Carried /\ Promises)
      /\ StorageTypeOK /\ table \in BOOLEAN /\ columns \subseteq Column /\ (~table => columns = {})
      /\ promised \subseteq Kind /\ faults \in BOOLEAN
  BY <1>3, InHands
<1>5. table /\ d.op \in {"create", "update"} /\ ~Past(d)
  BY <1>3, <1>4, TaskKinds DEF Placed, Past
<1>6. META[n] \in Column /\ (n = 1 => META[n] = Meta1) /\ (n = 2 => META[n] = Meta2)
  BY <1>2, Columns DEF Meta1, Meta2
<1>7. Aside
  BY <1>1 DEF Aside
<1>8. Meta1' = Meta1 /\ Meta2' = Meta2
  BY DEF Meta1, Meta2
<1>9. ASSUME NotAdded(i, META[n]), Leave(i) PROVE StorageOK'
  <2>1. columns' = columns /\ faults' \in BOOLEAN /\ (~faults' => ~faults /\ META[n] \in columns)
    BY <1>4, <1>9, NotAddedOK
  <2>2. StoresOK' /\ Still
    BY <1>1, <1>4, <2>1, StoresStay DEF Still
  <2>3. Holds(i, {}) /\ AllPlaced({})' /\ AllTracked({})'
    BY <1>9, HoldsNone
  <2>4. ~faults' => Freed(i, {})
    BY <1>2, <1>3, <1>4, <1>5, <1>6, <2>1 DEF Freed
  <2> QED
    BY <1>7, <2>2, <2>3, <2>4, StillTable
<1>10. ASSUME Added(i, META[n]),
              NEW e \in InstallTask, task' = [task EXCEPT ![i] = {e}],
              e.op = d.op, e.kind = d.kind, e.fields = d.fields,
              \/ n = 1 /\ e.step = "meta2"
              \/ n = 2 /\ d.op = "create" /\ e.step = "fields"
              \/ n = 2 /\ d.op = "update" /\ e.step = "workspace"
       PROVE  StorageOK'
  <2>1. /\ META[n] \in columns' /\ columns' = columns \cup {META[n]}
        /\ columns' \subseteq Column /\ faults' = faults /\ columns \subseteq columns'
    BY <1>4, <1>5, <1>6, <1>10, AddedOK
  <2>2. StoresOK'
    BY <1>1, <1>4, <2>1, StoresStay
  <2>3. Placed(e)'
    BY <1>1, <1>2, <1>3, <1>4, <1>5, <1>6, <1>8, <1>10, <2>1 DEF Placed, Past
  <2>4. ~faults' => Tracked(e)'
    BY <1>4, <1>10, <2>1 DEF Tracked
  <2>5. Holds(i, {e}) /\ AllPlaced({e})' /\ (~faults' => AllTracked({e})')
    BY <1>10, <2>3, <2>4, HoldsOne
  <2>6. Grown
    BY <1>1, <1>4, <1>5, <2>1 DEF Grown
  <2>7. task'[i] = {e} /\ \A j \in Installer : j # i => task'[j] = task[j]
    BY <1>4, <1>10 DEF StorageTypeOK
  <2>8. ASSUME ~faults' PROVE Carried' /\ Promises'
    <3>1. Carried /\ Promises
      BY <1>4, <2>1, <2>8
    <3>2. Promises'
      BY <1>1, <2>1, <3>1, WholeStays
    <3>3. CASE n = 2
      <4>1. Past(e) /\ Meta1 \in columns'
        BY <1>3, <1>4, <1>10, <2>1, <3>3 DEF Past, Placed
      <4>2. SomePast'
        BY <2>7, <4>1, HandsStay
      <4>3. Meta2 \in columns'
        BY <1>6, <2>1, <3>3
      <4> QED
        BY <1>8, <3>2, <4>1, <4>2, <4>3 DEF Carried
    <3>4. CASE n = 1
      <4>1. Meta1 \in columns' /\ (Meta2 \in columns' => Meta2 \in columns)
        BY <1>6, <2>1, <3>4, Columns
      <4>2. Somewhere("meta2")'
        BY <1>10, <2>7, <3>4, HandsStay
      <4>3. ASSUME Meta2 \in columns PROVE SomeWhole' \/ SomePast'
        <5>1. SomeWhole \/ SomePast
          BY <1>5, <3>1, <4>3 DEF Carried
        <5>2. SomePast => SomePast'
          BY <1>4, <1>5, <2>7, HandsStay
        <5> QED
          BY <2>1, <5>1, <5>2, WholeStays
      <4> QED
        BY <1>8, <3>2, <4>1, <4>2, <4>3 DEF Carried
    <3> QED
      BY <1>2, <3>3, <3>4
  <2> QED
    BY <1>7, <2>2, <2>5, <2>6, <2>8, InstallOK
<1>11. ASSUME Added(i, META[n]),
              GoOn(i, d, IF n = 1 THEN "meta2" ELSE
                         IF d.op = "create" THEN "fields" ELSE "workspace")
       PROVE  StorageOK'
  <2>1. PICK s : s = (IF n = 1 THEN "meta2" ELSE IF d.op = "create" THEN "fields" ELSE "workspace")
    OBVIOUS
  <2>2. PICK e : e = [d EXCEPT !.step = s]
    OBVIOUS
  <2>3. s \in {"meta2", "fields", "workspace"}
    BY <2>1
  <2>4. e \in InstallTask /\ e.step = s /\ e.op = d.op /\ e.kind = d.kind /\ e.fields = d.fields
    BY <1>4, <2>2, <2>3, InstallGoesOn
  <2>5. task' = [task EXCEPT ![i] = {e}]
    BY <1>11, <2>1, <2>2 DEF GoOn
  <2>6. \/ n = 1 /\ e.step = "meta2"
        \/ n = 2 /\ d.op = "create" /\ e.step = "fields"
        \/ n = 2 /\ d.op = "update" /\ e.step = "workspace"
    BY <1>2, <1>5, <2>1, <2>4
  <2> QED
    BY <1>10, <1>11, <2>4, <2>5, <2>6
<1> QED
  BY <1>1, <1>9, <1>11

\* A column of a property is there once it was asked for, or a statement failed.
LEMMA AddFieldStep == StorageOK /\ (\E i \in Installer : AddField(i)) => StorageOK'
<1> SUFFICES ASSUME StorageOK, NEW i \in Installer, AddField(i) PROVE StorageOK'
  OBVIOUS
<1>1. PICK d \in task[i], f \in Field :
        /\ d.step = "fields" /\ f \in d.fields
        /\ Added(i, f) \/ NotAdded(i, f)
        /\ task' = [task EXCEPT ![i] = {[d EXCEPT !.fields = @ \ {f}]}]
        /\ UNCHANGED <<table, store, promised, admins, userTable, based, raced, installs>>
  BY DEF AddField
<1>2. /\ d \in InstallTask /\ Placed(d) /\ task[i] = {d} /\ (~faults => Tracked(d) /\ Carried /\ Promises)
      /\ StorageTypeOK /\ table \in BOOLEAN /\ columns \subseteq Column /\ (~table => columns = {})
      /\ promised \subseteq Kind /\ faults \in BOOLEAN
  BY <1>1, InHands
<1>3. table
  BY <1>1, <1>2 DEF Placed
<1>4. PICK e : e = [d EXCEPT !.fields = @ \ {f}]
  OBVIOUS
<1>5. /\ e \in InstallTask /\ e.step = "fields" /\ e.op = d.op /\ e.kind = d.kind
      /\ e.fields = d.fields \ {f}
  BY <1>1, <1>2, <1>4 DEF InstallTask
<1>6. task' = [task EXCEPT ![i] = {e}]
  BY <1>1, <1>4
<1>7. f \in Column /\ f # Meta1 /\ f # Meta2
  BY Columns
<1>8. /\ columns' \in {columns, columns \cup {f}} /\ columns' \subseteq Column
      /\ faults' \in BOOLEAN /\ (faults => faults') /\ (~faults' => f \in columns')
  <2>1. CASE Added(i, f)
    <3>1. f \in columns' /\ columns' = columns \cup {f} /\ columns' \subseteq Column /\ faults' = faults
      BY <1>2, <1>3, <1>7, <2>1, AddedOK
    <3> QED
      BY <1>2, <3>1
  <2>2. CASE NotAdded(i, f)
    <3>1. /\ columns' = columns /\ columns' \subseteq Column
          /\ faults' \in BOOLEAN /\ (~faults' => ~faults /\ f \in columns)
      BY <1>2, <2>2, NotAddedOK
    <3> QED
      BY <3>1
  <2> QED
    BY <1>1, <2>1, <2>2
<1>9. columns \subseteq columns' /\ (Meta1 \in columns' => Meta1 \in columns)
      /\ (Meta2 \in columns' => Meta2 \in columns)
  BY <1>7, <1>8
<1>10. StoresOK'
  BY <1>1, <1>2, <1>9, StoresStay
<1>11. Placed(e)'
  <2>1. Meta1' = Meta1 /\ Meta2' = Meta2
    BY DEF Meta1, Meta2
  <2> QED
    BY <1>1, <1>2, <1>3, <1>5, <1>9, <2>1 DEF Placed, Past
<1>12. ~faults' => Tracked(e)'
  BY <1>2, <1>5, <1>8, <1>9 DEF Tracked
<1>13. Holds(i, {e}) /\ AllPlaced({e})' /\ (~faults' => AllTracked({e})')
  BY <1>5, <1>6, <1>11, <1>12, HoldsOne
<1>14. Grown /\ Aside
  BY <1>1, <1>2, <1>3, <1>8, <1>9 DEF Grown, Aside
<1>15. ASSUME ~faults' PROVE Carried' /\ Promises'
  <2>1. task'[i] = {e} /\ \A j \in Installer : j # i => task'[j] = task[j]
    BY <1>2, <1>6 DEF StorageTypeOK
  <2>2. Carried /\ Promises /\ table' = table /\ promised' = promised
    BY <1>1, <1>2, <1>8, <1>15
  <2>3. \A x \in task[i] :
           /\ x.step = "meta1" => Meta1 \in columns
           /\ x.step = "meta2" => Meta2 \in columns
           /\ Past(x) => SomeWhole' \/ \E y \in task'[i] : Past(y)
    BY <1>1, <1>2, <1>5, <2>1 DEF Past
  <2>4. Carried'
    BY <1>9, <2>1, <2>2, <2>3, CarriedStays
  <2> QED
    BY <1>9, <2>2, <2>4, WholeStays
<1> QED
  BY <1>10, <1>13, <1>14, <1>15, InstallOK

LEMMA FieldsDoneStep == StorageOK /\ (\E i \in Installer : FieldsDone(i)) => StorageOK'
<1> SUFFICES ASSUME StorageOK, NEW i \in Installer, FieldsDone(i) PROVE StorageOK'
  OBVIOUS
<1>1. PICK d \in task[i] :
        /\ d.step = "fields" /\ d.fields = {}
        /\ IF d.op = "create" THEN Refresh(i) /\ GoOn(i, d, "workspace")
                              ELSE GoOn(i, d, "meta1") /\ UNCHANGED store
        /\ UNCHANGED <<table, columns, promised, admins, userTable, based, faults, raced, installs>>
  BY DEF FieldsDone
<1>2. /\ d \in InstallTask /\ Placed(d) /\ task[i] = {d} /\ (~faults => Tracked(d))
      /\ StorageTypeOK /\ faults \in BOOLEAN
  BY <1>1, InHands
<1>3. table /\ d.op \in {"create", "update"}
  BY <1>1, <1>2, TaskKinds DEF Placed
<1>4. StoresOK'
  <2>1. CASE Refresh(i)
    BY <1>1, <1>2, <2>1, Refreshed
  <2>2. CASE UNCHANGED store
    BY <1>1, <1>2, <2>2, StoresStay
  <2> QED
    BY <1>1, <2>1, <2>2
<1>5. PICK s : s = IF d.op = "create" THEN "workspace" ELSE "meta1"
  OBVIOUS
<1>6. PICK e : e = [d EXCEPT !.step = s]
  OBVIOUS
<1>7. e \in InstallTask /\ e.step = s /\ e.op = d.op /\ e.kind = d.kind /\ e.fields = d.fields
  BY <1>2, <1>5, <1>6, InstallGoesOn
<1>8. task' = [task EXCEPT ![i] = {e}]
  BY <1>1, <1>5, <1>6 DEF GoOn
<1>9. Placed(e)'
  <2>1. Meta1' = Meta1 /\ Meta2' = Meta2
    BY DEF Meta1, Meta2
  <2> QED
    BY <1>1, <1>2, <1>3, <1>5, <1>7, <2>1 DEF Placed, Past
<1>10. ~faults' => Tracked(e)'
  BY <1>1, <1>2, <1>7 DEF Tracked
<1>11. Holds(i, {e}) /\ AllPlaced({e})' /\ (~faults' => AllTracked({e})')
  BY <1>7, <1>8, <1>9, <1>10, HoldsOne
<1>12. Still /\ Aside
  BY <1>1, <1>2 DEF Still, Aside
<1>13. Freed(i, {e})
  BY <1>1, <1>2, <1>5, <1>7 DEF Freed, Past
<1> QED
  BY <1>4, <1>11, <1>12, <1>13, StillTable

\* The last column of a class, and the answer.
LEMMA AddWorkspaceColumnStep ==
    StorageOK /\ (\E i \in Installer : AddWorkspaceColumn(i)) => StorageOK'
<1> SUFFICES ASSUME StorageOK, NEW i \in Installer, AddWorkspaceColumn(i) PROVE StorageOK'
  OBVIOUS
<1>1. PICK d \in task[i] :
        /\ d.step = "workspace" /\ Leave(i)
        /\ \/ /\ Added(i, WORKSPACE)
              /\ promised' = (IF d.op = "found" THEN promised ELSE promised \cup {d.kind})
           \/ NotAdded(i, WORKSPACE) /\ UNCHANGED promised
        /\ UNCHANGED <<table, store, admins, userTable, based, raced, installs>>
  BY DEF AddWorkspaceColumn
<1>2. /\ d \in InstallTask /\ Placed(d) /\ task[i] = {d} /\ (~faults => Tracked(d) /\ Carried /\ Promises)
      /\ StorageTypeOK /\ table \in BOOLEAN /\ columns \subseteq Column /\ (~table => columns = {})
      /\ promised \subseteq Kind /\ faults \in BOOLEAN
  BY <1>1, InHands
<1>3. table /\ d.kind \in Kind
  BY <1>1, <1>2, TaskKinds DEF Placed
<1>4. WORKSPACE \in Column /\ WORKSPACE # Meta1 /\ WORKSPACE # Meta2
  BY Columns
<1>5. /\ columns' \in {columns, columns \cup {WORKSPACE}} /\ columns' \subseteq Column
      /\ faults' \in BOOLEAN /\ (faults => faults') /\ (~faults' => WORKSPACE \in columns')
  <2>1. CASE Added(i, WORKSPACE)
    <3>1. /\ WORKSPACE \in columns' /\ columns' = columns \cup {WORKSPACE}
          /\ columns' \subseteq Column /\ faults' = faults
      BY <1>2, <1>3, <1>4, <2>1, AddedOK
    <3> QED
      BY <1>2, <3>1
  <2>2. CASE NotAdded(i, WORKSPACE)
    <3>1. /\ columns' = columns /\ columns' \subseteq Column
          /\ faults' \in BOOLEAN /\ (~faults' => ~faults /\ WORKSPACE \in columns)
      BY <1>2, <2>2, NotAddedOK
    <3> QED
      BY <3>1
  <2> QED
    BY <1>1, <2>1, <2>2
<1>6. columns \subseteq columns' /\ (Meta1 \in columns' => Meta1 \in columns)
      /\ (Meta2 \in columns' => Meta2 \in columns)
  BY <1>4, <1>5
<1>7. StoresOK'
  BY <1>1, <1>2, <1>6, StoresStay
<1>8. Holds(i, {}) /\ AllPlaced({})' /\ AllTracked({})'
  BY <1>1, HoldsNone
<1>9. promised' \in {promised, promised \cup {d.kind}} /\ (d.op = "found" => promised' = promised)
  BY <1>1
<1>10. Grown /\ Aside
  BY <1>1, <1>2, <1>3, <1>5, <1>6, <1>9 DEF Grown, Aside
<1>11. ASSUME ~faults' PROVE Carried' /\ Promises'
  <2>1. task'[i] = {} /\ \A j \in Installer : j # i => task'[j] = task[j]
    BY <1>1, <1>2 DEF StorageTypeOK, Leave
  <2>2. Carried /\ Promises /\ Tracked(d) /\ table' = table /\ WORKSPACE \in columns'
    BY <1>1, <1>2, <1>5, <1>11
  <2>3. Past(d) => ColumnsOf(d.kind) \subseteq columns'
    <3>1. Past(d) => Meta1 \in columns /\ Meta2 \in columns /\ d.fields = {}
      BY <1>1, <1>2 DEF Past, Placed
    <3>2. Past(d) => FieldsOf[d.kind] \subseteq columns
      BY <2>2, <3>1 DEF Tracked
    <3> QED
      BY <1>3, <1>6, <2>2, <3>1, <3>2, Columns
  <2>4. Past(d) => SomeWhole'
    BY <1>3, <2>3 DEF SomeWhole, ColumnsOf, Column
  <2>5. \A x \in task[i] :
           /\ x.step = "meta1" => Meta1 \in columns
           /\ x.step = "meta2" => Meta2 \in columns
           /\ Past(x) => SomeWhole' \/ \E y \in task'[i] : Past(y)
    BY <1>1, <1>2, <2>4
  <2>6. Carried'
    BY <1>6, <2>1, <2>2, <2>5, CarriedStays
  <2>7. ASSUME NEW k \in promised' PROVE ColumnsOf(k) \subseteq columns'
    <3>1. CASE k \in promised
      BY <1>6, <2>2, <3>1 DEF Promises
    <3>2. CASE k \notin promised
      <4>1. k = d.kind /\ d.op # "found"
        BY <1>9, <2>7, <3>2
      <4>2. Past(d)
        BY <1>1, <1>2, <4>1, TaskKinds DEF Past
      <4> QED
        BY <2>3, <4>1, <4>2
    <3> QED
      BY <3>1, <3>2
  <2>8. Promises'
    BY <2>7 DEF Promises, ColumnsOf, Column
  <2> QED
    BY <2>6, <2>8
<1> QED
  BY <1>7, <1>8, <1>10, <1>11, InstallOK

LEMMA StorageExistsStep == StorageOK /\ (\E i \in Installer : StorageExists(i)) => StorageOK'
<1> SUFFICES ASSUME StorageOK, NEW i \in Installer, StorageExists(i) PROVE StorageOK'
  OBVIOUS
<1>1. /\ Refresh(i)
      /\ UNCHANGED <<table, columns, task, promised, admins, userTable, based, faults, raced, installs>>
  BY DEF StorageExists
<1>2. StorageTypeOK
  BY DEF StorageOK
<1>3. StoresOK'
  BY <1>1, <1>2, Refreshed
<1>4. StorageTypeOK'
  BY <1>1, <1>2, <1>3 DEF StorageTypeOK, StoresOK
<1>5. CallsOK'
  BY <1>1 DEF StorageOK, CallsOK, Placed, Past, Meta1, Meta2
<1>6. ~faults' => CallsTracked' /\ Promises'
  BY <1>1 DEF StorageOK, CallsTracked, Tracked, Promises, ColumnsOf, Column
<1>7. ~faults' => Carried'
  BY <1>1 DEF StorageOK, Carried, Somewhere, SomePast, SomeWhole, Past, ColumnsOf, Column, Meta1, Meta2
<1>8. ~faults' => BaseOK'
  BY <1>1 DEF StorageOK, BaseOK, Basing
<1> QED
  BY <1>4, <1>5, <1>6, <1>7, <1>8 DEF StorageOK

LEMMA InstallerDiesStep == StorageOK /\ (\E i \in Installer : InstallerDies(i)) => StorageOK'
<1> SUFFICES ASSUME StorageOK, NEW i \in Installer, InstallerDies(i) PROVE StorageOK'
  OBVIOUS
<1>1. /\ Leave(i) /\ faults' = TRUE
      /\ store' = [store EXCEPT ![i] = {}]
      /\ UNCHANGED <<table, columns, promised, admins, userTable, based, raced, installs>>
  BY DEF InstallerDies
<1>2. StorageTypeOK
  BY DEF StorageOK
<1>3. StoresOK'
  <2>1. PICK S : S = {}
    OBVIOUS
  <2>2. S \in SUBSET SUBSET columns /\ (\A s, t \in S : s = t) /\ store' = [store EXCEPT ![i] = S]
    BY <1>1, <2>1
  <2> QED
    BY <1>1, <1>2, <2>2, StoreSet
<1>4. Holds(i, {}) /\ AllPlaced({})' /\ AllTracked({})'
  BY <1>1, HoldsNone
<1>5. Still /\ Aside
  BY <1>1 DEF Still, Aside
<1> QED
  BY <1>1, <1>3, <1>4, <1>5, StillTable

-----------------------------------------------------------------------------
(* The base storage *)

BaseHolds(i, S) == S \in SUBSET BaseTask /\ (\A d, e \in S : d = e) /\ task' = [task EXCEPT ![i] = S]
TablesKept == UNCHANGED <<table, columns, store, promised>> /\ faults' \in BOOLEAN /\ (faults => faults')
BaseTypes ==
    /\ admins' \in Nat /\ userTable' \in BOOLEAN /\ based' \in Nat /\ raced' \in BOOLEAN
    /\ installs' \in 0 .. MaxInstalls

\* A base storage leaves the calls of _create and _update as they are.
LEMMA BaseKeeps ==
    ASSUME StorageOK, NEW i \in Installer, task[i] \subseteq BaseTask, NEW S, BaseHolds(i, S),
           TablesKept, BaseTypes, ~faults' => BaseOK'
    PROVE  StorageOK'
<1>1. S \in SUBSET Task /\ (\A d, e \in S : d = e) /\ task' = [task EXCEPT ![i] = S]
  BY DEF Task, BaseHolds
<1>2. /\ task' \in [Installer -> SUBSET Task]
      /\ \A j \in Installer : \A d, e \in task'[j] : d = e
      /\ task'[i] = S /\ \A j \in Installer : j # i => task'[j] = task[j]
  BY <1>1, OneTask DEF StorageOK, StorageTypeOK
<1>3. /\ table' = table /\ columns' = columns /\ store' = store /\ promised' = promised
      /\ faults' \in BOOLEAN /\ (~faults' => ~faults)
  BY DEF TablesKept
<1>4. S \subseteq BaseTask
  BY DEF BaseHolds
<1>5. /\ \A d \in S : d \notin InstallTask
      /\ \A d \in task[i] : /\ ~Past(d) /\ d.step # "meta1" /\ d.step # "meta2"
  BY <1>4, TaskKinds
<1>6. StorageTypeOK'
  BY <1>2, <1>3 DEF StorageOK, StorageTypeOK, BaseTypes
<1>7. CallsOK'
  BY <1>2, <1>3, <1>5, CallsStay DEF StorageOK
<1>8. ~faults' => CallsTracked'
  BY <1>2, <1>3, <1>5, TrackedStays DEF StorageOK
<1>9. ~faults' => Carried'
  BY <1>2, <1>3, <1>5, CarriedStays DEF StorageOK
<1>10. ~faults' => Promises'
  BY <1>3, WholeStays DEF StorageOK
<1> QED
  BY <1>6, <1>7, <1>8, <1>9, <1>10 DEF StorageOK

LEMMA InBase ==
    ASSUME StorageOK, NEW i \in Installer, NEW d \in task[i],
           d.step \in {"repligard", "user", "ask", "insert", "rest"}
    PROVE  /\ d \in BaseTask /\ task[i] = {d} /\ task[i] \subseteq BaseTask
           /\ admins \in Nat /\ userTable \in BOOLEAN /\ based \in Nat /\ raced \in BOOLEAN
           /\ installs \in 0 .. MaxInstalls /\ faults \in BOOLEAN
           /\ ~faults => BaseOK
<1>1. d \in Task /\ task[i] = {d}
  BY DEF StorageOK, StorageTypeOK
<1>2. d \in BaseTask
  BY <1>1, TaskKinds DEF Task
<1> QED
  BY <1>1, <1>2 DEF StorageOK, StorageTypeOK

LEMMA BaseHoldsOne ==
    ASSUME StorageOK, NEW i \in Installer, NEW e \in BaseTask, task' = [task EXCEPT ![i] = {e}]
    PROVE  /\ BaseHolds(i, {e}) /\ task'[i] = {e}
           /\ \A j \in Installer : j # i => task'[j] = task[j]
BY DEF BaseHolds, StorageOK, StorageTypeOK

\* The administrator's row, when a base storage goes on.
LEMMA BaseGoes ==
    ASSUME StorageOK, BaseOK, NEW i \in Installer, Basing(i), NEW e \in BaseTask,
           task'[i] = {e}, \A j \in Installer : j # i => task'[j] = task[j],
           userTable => userTable', admins' \in {admins, admins + 1},
           based' = based, raced' = raced,
           e.step \in {"ask", "insert", "rest"} => userTable',
           e.step = "rest" => admins' >= 1,
           ~raced => admins' <= 1 /\ (e.step = "insert" => admins' = 0)
    PROVE  BaseOK'
<1>1. admins \in Nat
  BY DEF StorageOK, StorageTypeOK
<1>2. \A j \in Installer : \A d \in task[j] :
         d.step = "insert" => d.op = "base"
  BY TaskKinds DEF StorageOK, StorageTypeOK, Task
<1>3. \A j \in Installer : \A d \in task'[j] : d = e \/ (j # i /\ d \in task[j])
  OBVIOUS
<1>4. \A j \in Installer : \A d \in task'[j] :
         /\ d.step \in {"ask", "insert", "rest"} => userTable'
         /\ d.step = "rest" => admins' >= 1
  BY <1>1, <1>3 DEF BaseOK
<1>5. based' > 0 => admins' >= 1
  BY <1>1 DEF BaseOK
<1>6. \A j \in Installer : Basing(j)' => Basing(j)
  BY <1>3 DEF Basing
<1>7. ~raced' => \A j, k \in Installer : Basing(j)' /\ Basing(k)' => j = k
  BY <1>6 DEF BaseOK
<1>8. ASSUME ~raced', NEW j \in Installer, NEW d \in task'[j], d.step = "insert" PROVE admins' = 0
  <2>1. CASE d = e
    BY <1>8, <2>1
  <2>2. CASE j # i /\ d \in task[j]
    <3>1. Basing(j)
      BY <1>2, <1>8, <2>2 DEF Basing
    <3> QED
      BY <1>8, <2>2, <3>1 DEF BaseOK
  <2> QED
    BY <1>3, <1>8, <2>1, <2>2
<1> QED
  BY <1>4, <1>5, <1>7, <1>8 DEF BaseOK

LEMMA StartBaseStep == StorageOK /\ (\E i \in Installer : StartBase(i)) => StorageOK'
<1> SUFFICES ASSUME StorageOK, NEW i \in Installer, StartBase(i) PROVE StorageOK'
  OBVIOUS
<1>1. PICK e : e = [op |-> "base", step |-> "repligard"]
  OBVIOUS
<1>2. /\ task[i] = {} /\ task' = [task EXCEPT ![i] = {e}]
      /\ installs < MaxInstalls /\ installs' = installs + 1
      /\ raced' = (raced \/ \E j \in Installer : \E d \in task[j] : d.op = "base")
      /\ UNCHANGED <<table, columns, store, promised, admins, userTable, based, faults>>
  BY <1>1 DEF StartBase, Take, Resting
<1>3. e \in BaseTask /\ e.step = "repligard"
  BY <1>1 DEF BaseTask
<1>4. /\ BaseHolds(i, {e}) /\ task'[i] = {e}
      /\ \A j \in Installer : j # i => task'[j] = task[j]
  BY <1>2, <1>3, BaseHoldsOne
<1>5. TablesKept
  BY <1>2 DEF TablesKept, StorageOK, StorageTypeOK
<1>6. raced' \in BOOLEAN /\ (raced => raced') /\ (~raced' => \A j \in Installer : ~Basing(j))
  BY <1>2 DEF StorageOK, StorageTypeOK, Basing
<1>7. BaseTypes
  <2>1. installs' \in 0 .. MaxInstalls
    BY <1>2, StorageAssumption DEF StorageOK, StorageTypeOK
  <2> QED
    BY <1>2, <1>6, <2>1 DEF BaseTypes, StorageOK, StorageTypeOK
<1>8. ASSUME ~faults' PROVE BaseOK'
  <2>1. BaseOK
    BY <1>2, <1>8 DEF StorageOK
  <2>2. \A j \in Installer : \A d \in task'[j] : d = e \/ (j # i /\ d \in task[j])
    BY <1>4
  <2>3. \A j \in Installer : \A d \in task'[j] :
           /\ d.step \in {"ask", "insert", "rest"} => userTable'
           /\ d.step = "rest" => admins' >= 1
           /\ ~raced' /\ d.step = "insert" => admins' = 0
    BY <1>2, <1>3, <1>6, <2>1, <2>2 DEF BaseOK
  <2>4. /\ based' > 0 => admins' >= 1
        /\ ~raced' => admins' <= 1
    BY <1>2, <1>6, <2>1 DEF BaseOK
  <2>5. ~raced' => \A j, k \in Installer : Basing(j)' /\ Basing(k)' => j = k
    BY <1>4, <1>6 DEF Basing
  <2> QED
    BY <2>3, <2>4, <2>5 DEF BaseOK
<1> QED
  BY <1>2, <1>4, <1>5, <1>7, <1>8, BaseKeeps

LEMMA BaseRepligardStep == StorageOK /\ (\E i \in Installer : BaseRepligard(i)) => StorageOK'
<1> SUFFICES ASSUME StorageOK, NEW i \in Installer, BaseRepligard(i) PROVE StorageOK'
  OBVIOUS
<1>1. PICK d \in task[i] :
        /\ d.step = "repligard"
        /\ \/ GoOn(i, d, "user") /\ UNCHANGED faults
           \/ Leave(i) /\ faults' = TRUE
        /\ UNCHANGED <<table, columns, store, promised, admins, userTable, based, raced, installs>>
  BY DEF BaseRepligard
<1>2. /\ d \in BaseTask /\ task[i] = {d} /\ task[i] \subseteq BaseTask
      /\ admins \in Nat /\ userTable \in BOOLEAN /\ based \in Nat /\ raced \in BOOLEAN
      /\ installs \in 0 .. MaxInstalls /\ faults \in BOOLEAN /\ (~faults => BaseOK)
  BY <1>1, InBase
<1>3. BaseTypes
  BY <1>1, <1>2 DEF BaseTypes
<1>4. ASSUME Leave(i), faults' = TRUE PROVE StorageOK'
  <2>1. BaseHolds(i, {})
    BY <1>4 DEF Leave, BaseHolds
  <2>2. TablesKept
    BY <1>1, <1>4 DEF TablesKept
  <2> QED
    BY <1>2, <1>3, <1>4, <2>1, <2>2, BaseKeeps
<1>5. ASSUME GoOn(i, d, "user"), UNCHANGED faults PROVE StorageOK'
  <2>1. PICK e : e = [d EXCEPT !.step = "user"]
    OBVIOUS
  <2>2. e \in BaseTask /\ e.step = "user"
    BY <1>2, <2>1, BaseGoesOn
  <2>3. task' = [task EXCEPT ![i] = {e}]
    BY <1>5, <2>1 DEF GoOn
  <2>4. /\ BaseHolds(i, {e}) /\ task'[i] = {e}
        /\ \A j \in Installer : j # i => task'[j] = task[j]
    BY <2>2, <2>3, BaseHoldsOne
  <2>5. TablesKept
    BY <1>1, <1>2, <1>5 DEF TablesKept
  <2>6. Basing(i)
    BY <1>2, TaskKinds DEF Basing
  <2>7. ASSUME ~faults' PROVE BaseOK'
    <3>1. BaseOK /\ (~raced => admins' <= 1)
      BY <1>1, <1>2, <1>5, <2>7 DEF BaseOK
    <3> QED
      BY <1>1, <2>2, <2>4, <2>6, <3>1, BaseGoes
  <2> QED
    BY <1>2, <1>3, <2>4, <2>5, <2>7, BaseKeeps
<1> QED
  BY <1>1, <1>4, <1>5

LEMMA BaseUserStep == StorageOK /\ (\E i \in Installer : BaseUser(i)) => StorageOK'
<1> SUFFICES ASSUME StorageOK, NEW i \in Installer, BaseUser(i) PROVE StorageOK'
  OBVIOUS
<1>1. PICK d \in task[i] :
        /\ d.step = "user" /\ GoOn(i, d, "ask")
        /\ \/ userTable' = TRUE /\ UNCHANGED faults
           \/ UNCHANGED userTable /\ faults' = TRUE
        /\ UNCHANGED <<table, columns, store, promised, admins, based, raced, installs>>
  BY DEF BaseUser
<1>2. /\ d \in BaseTask /\ task[i] = {d} /\ task[i] \subseteq BaseTask
      /\ admins \in Nat /\ userTable \in BOOLEAN /\ based \in Nat /\ raced \in BOOLEAN
      /\ installs \in 0 .. MaxInstalls /\ faults \in BOOLEAN /\ (~faults => BaseOK)
  BY <1>1, InBase
<1>3. /\ userTable' \in BOOLEAN /\ (userTable => userTable')
      /\ faults' \in BOOLEAN /\ (faults => faults') /\ (~faults' => userTable')
  BY <1>1, <1>2
<1>4. BaseTypes
  BY <1>1, <1>2, <1>3 DEF BaseTypes
<1>5. PICK e : e = [d EXCEPT !.step = "ask"]
  OBVIOUS
<1>6. e \in BaseTask /\ e.step = "ask"
  BY <1>2, <1>5, BaseGoesOn
<1>7. task' = [task EXCEPT ![i] = {e}]
  BY <1>1, <1>5 DEF GoOn
<1>8. /\ BaseHolds(i, {e}) /\ task'[i] = {e}
      /\ \A j \in Installer : j # i => task'[j] = task[j]
  BY <1>6, <1>7, BaseHoldsOne
<1>9. TablesKept
  BY <1>1, <1>3 DEF TablesKept
<1>10. Basing(i)
  BY <1>2, TaskKinds DEF Basing
<1>11. ASSUME ~faults' PROVE BaseOK'
  <2>1. BaseOK /\ (~raced => admins' <= 1) /\ userTable'
    BY <1>1, <1>2, <1>3, <1>11 DEF BaseOK
  <2> QED
    BY <1>1, <1>3, <1>6, <1>8, <1>10, <2>1, BaseGoes
<1> QED
  BY <1>2, <1>4, <1>8, <1>9, <1>11, BaseKeeps

LEMMA AskForAdminStep == StorageOK /\ (\E i \in Installer : AskForAdmin(i)) => StorageOK'
<1> SUFFICES ASSUME StorageOK, NEW i \in Installer, AskForAdmin(i) PROVE StorageOK'
  OBVIOUS
<1>1. PICK d \in task[i] :
        /\ d.step = "ask"
        /\ \/ GoOn(i, d, IF admins = 0 THEN "insert" ELSE "rest") /\ UNCHANGED faults
           \/ GoOn(i, d, "insert") /\ faults' = TRUE
        /\ UNCHANGED <<table, columns, store, promised, admins, userTable, based, raced, installs>>
  BY DEF AskForAdmin
<1>2. /\ d \in BaseTask /\ task[i] = {d} /\ task[i] \subseteq BaseTask
      /\ admins \in Nat /\ userTable \in BOOLEAN /\ based \in Nat /\ raced \in BOOLEAN
      /\ installs \in 0 .. MaxInstalls /\ faults \in BOOLEAN /\ (~faults => BaseOK)
  BY <1>1, InBase
<1>3. BaseTypes
  BY <1>1, <1>2 DEF BaseTypes
<1>4. ASSUME NEW s \in {"insert", "rest"}, GoOn(i, d, s),
             faults' \in BOOLEAN, faults => faults',
             ~faults' => (s = "insert" <=> admins = 0)
      PROVE  StorageOK'
  <2>1. PICK e : e = [d EXCEPT !.step = s]
    OBVIOUS
  <2>2. e \in BaseTask /\ e.step = s
    BY <1>2, <2>1, BaseGoesOn
  <2>3. task' = [task EXCEPT ![i] = {e}]
    BY <1>4, <2>1 DEF GoOn
  <2>4. /\ BaseHolds(i, {e}) /\ task'[i] = {e}
        /\ \A j \in Installer : j # i => task'[j] = task[j]
    BY <2>2, <2>3, BaseHoldsOne
  <2>5. TablesKept
    BY <1>1, <1>4 DEF TablesKept
  <2>6. Basing(i)
    BY <1>2, TaskKinds DEF Basing
  <2>7. ASSUME ~faults' PROVE BaseOK'
    <3>1. BaseOK /\ userTable' /\ userTable
      BY <1>1, <1>2, <1>4, <2>7 DEF BaseOK
    <3>2. ~raced => admins' <= 1
      BY <1>1, <3>1 DEF BaseOK
    <3>3. /\ e.step = "rest" => admins' >= 1
          /\ e.step = "insert" => admins' = 0
      BY <1>1, <1>2, <1>4, <2>2, <2>7
    <3> QED
      BY <1>1, <2>2, <2>4, <2>6, <3>1, <3>2, <3>3, BaseGoes
  <2> QED
    BY <1>2, <1>3, <2>4, <2>5, <2>7, BaseKeeps
<1>5. CASE GoOn(i, d, "insert") /\ faults' = TRUE
  BY <1>4, <1>5
<1>6. CASE GoOn(i, d, IF admins = 0 THEN "insert" ELSE "rest") /\ UNCHANGED faults
  <2>1. CASE admins = 0
    BY <1>2, <1>4, <1>6, <2>1
  <2>2. CASE admins # 0
    BY <1>2, <1>4, <1>6, <2>2
  <2> QED
    BY <2>1, <2>2
<1> QED
  BY <1>1, <1>5, <1>6

\* There is one administrator, but for two base storages at once.
LEMMA InsertAdminStep == StorageOK /\ (\E i \in Installer : InsertAdmin(i)) => StorageOK'
<1> SUFFICES ASSUME StorageOK, NEW i \in Installer, InsertAdmin(i) PROVE StorageOK'
  OBVIOUS
<1>1. PICK d \in task[i] :
        /\ d.step = "insert" /\ GoOn(i, d, "rest")
        /\ \/ userTable /\ admins' = admins + 1 /\ UNCHANGED faults
           \/ UNCHANGED admins /\ faults' = TRUE
        /\ UNCHANGED <<table, columns, store, promised, userTable, based, raced, installs>>
  BY DEF InsertAdmin
<1>2. /\ d \in BaseTask /\ task[i] = {d} /\ task[i] \subseteq BaseTask
      /\ admins \in Nat /\ userTable \in BOOLEAN /\ based \in Nat /\ raced \in BOOLEAN
      /\ installs \in 0 .. MaxInstalls /\ faults \in BOOLEAN /\ (~faults => BaseOK)
  BY <1>1, InBase
<1>3. /\ admins' \in {admins, admins + 1} /\ admins' \in Nat
      /\ faults' \in BOOLEAN /\ (faults => faults') /\ (~faults' => admins' = admins + 1)
  <2>1. CASE admins' = admins + 1 /\ UNCHANGED faults
    BY <1>2, <2>1
  <2>2. CASE UNCHANGED admins /\ faults' = TRUE
    BY <1>2, <2>2
  <2> QED
    BY <1>1, <2>1, <2>2
<1>4. BaseTypes
  BY <1>1, <1>2, <1>3 DEF BaseTypes
<1>5. PICK e : e = [d EXCEPT !.step = "rest"]
  OBVIOUS
<1>6. e \in BaseTask /\ e.step = "rest"
  BY <1>2, <1>5, BaseGoesOn
<1>7. task' = [task EXCEPT ![i] = {e}]
  BY <1>1, <1>5 DEF GoOn
<1>8. /\ BaseHolds(i, {e}) /\ task'[i] = {e}
      /\ \A j \in Installer : j # i => task'[j] = task[j]
  BY <1>6, <1>7, BaseHoldsOne
<1>9. TablesKept
  BY <1>1, <1>3 DEF TablesKept
<1>10. Basing(i)
  BY <1>2, TaskKinds DEF Basing
<1>11. ASSUME ~faults' PROVE BaseOK'
  <2>1. BaseOK /\ userTable /\ userTable'
    BY <1>1, <1>2, <1>3, <1>11 DEF BaseOK
  <2>2. ~raced => admins = 0
    BY <1>1, <2>1 DEF BaseOK
  <2>3. (~raced => admins' <= 1) /\ admins' >= 1
    BY <1>2, <1>3, <1>11, <2>2
  <2> QED
    BY <1>1, <1>3, <1>6, <1>8, <1>10, <2>1, <2>3, BaseGoes
<1> QED
  BY <1>2, <1>4, <1>8, <1>9, <1>11, BaseKeeps

LEMMA BaseRestStep == StorageOK /\ (\E i \in Installer : BaseRest(i)) => StorageOK'
<1> SUFFICES ASSUME StorageOK, NEW i \in Installer, BaseRest(i) PROVE StorageOK'
  OBVIOUS
<1>1. PICK d \in task[i] :
        /\ d.step = "rest" /\ Leave(i) /\ based' = based + 1
        /\ UNCHANGED <<table, columns, store, promised, admins, userTable, faults, raced, installs>>
  BY DEF BaseRest
<1>2. /\ d \in BaseTask /\ task[i] = {d} /\ task[i] \subseteq BaseTask
      /\ admins \in Nat /\ userTable \in BOOLEAN /\ based \in Nat /\ raced \in BOOLEAN
      /\ installs \in 0 .. MaxInstalls /\ faults \in BOOLEAN /\ (~faults => BaseOK)
  BY <1>1, InBase
<1>3. BaseTypes
  BY <1>1, <1>2 DEF BaseTypes
<1>4. TablesKept
  BY <1>1, <1>2 DEF TablesKept
<1>5. BaseHolds(i, {})
  BY <1>1 DEF Leave, BaseHolds
<1>6. ASSUME ~faults' PROVE BaseOK'
  <2>1. BaseOK /\ admins >= 1
    BY <1>1, <1>2, <1>6 DEF BaseOK
  <2>2. task'[i] = {} /\ \A j \in Installer : j # i => task'[j] = task[j]
    BY <1>1 DEF Leave, StorageOK, StorageTypeOK
  <2>3. \A j \in Installer : task'[j] \subseteq task[j]
    BY <2>2
  <2> QED
    BY <1>1, <2>1, <2>3 DEF BaseOK, Basing
<1> QED
  BY <1>2, <1>3, <1>4, <1>5, <1>6, BaseKeeps

LEMMA StorageInitOK == StorageInit => StorageOK
<1> SUFFICES ASSUME StorageInit PROVE StorageOK
  OBVIOUS
<1>1. /\ table = FALSE /\ columns = {} /\ store = [i \in Installer |-> {}]
      /\ task = [i \in Installer |-> {}] /\ promised = {}
      /\ admins = 0 /\ userTable = FALSE /\ based = 0
      /\ faults = FALSE /\ raced = FALSE /\ installs = 0
  BY DEF StorageInit
<1>2. StorageTypeOK
  <2>1. \A i \in Installer : store[i] = {} /\ task[i] = {}
    BY <1>1
  <2>2. store \in [Installer -> SUBSET SUBSET columns]
    BY <1>1
  <2>3. task \in [Installer -> SUBSET Task]
    BY <1>1
  <2>4. installs \in 0 .. MaxInstalls /\ admins \in Nat /\ based \in Nat
    BY <1>1, StorageAssumption
  <2> QED
    BY <1>1, <2>1, <2>2, <2>3, <2>4 DEF StorageTypeOK
<1> QED
  BY <1>1, <1>2 DEF StorageOK, CallsOK, CallsTracked, Carried, Promises, BaseOK, Basing

LEMMA StorageStep == StorageOK /\ [StorageNext]_storageVars => StorageOK'
<1> SUFFICES ASSUME StorageOK, [StorageNext]_storageVars PROVE StorageOK'
  OBVIOUS
<1>1. CASE UNCHANGED storageVars
  <2>1. /\ table' = table /\ columns' = columns /\ store' = store /\ task' = task
        /\ promised' = promised /\ admins' = admins /\ userTable' = userTable
        /\ based' = based /\ faults' = faults /\ raced' = raced /\ installs' = installs
    BY <1>1 DEF storageVars
  <2>2. StorageTypeOK' /\ CallsOK'
    BY <2>1 DEF StorageOK, StorageTypeOK, CallsOK, Placed, Past, Meta1, Meta2
  <2>3. ~faults' => CallsTracked' /\ Promises' /\ BaseOK'
    BY <2>1 DEF StorageOK, CallsTracked, Tracked, Promises, ColumnsOf, Column, BaseOK, Basing
  <2>4. ~faults' => Carried'
    BY <2>1 DEF StorageOK, Carried, Somewhere, SomePast, SomeWhole, Past, ColumnsOf, Column, Meta1, Meta2
  <2> QED
    BY <2>2, <2>3, <2>4 DEF StorageOK
<1>2. CASE StorageNext
  BY <1>2, StartInstallStep, LookForTableStep, MakeTableStep, MakeTableFailsStep, AddMetaStep,
     AddFieldStep, FieldsDoneStep, AddWorkspaceColumnStep, StorageExistsStep, StartBaseStep,
     BaseRepligardStep, BaseUserStep, AskForAdminStep, InsertAdminStep, BaseRestStep,
     InstallerDiesStep DEF StorageNext
<1> QED
  BY <1>1, <1>2

\* The values the table, the meta stores and the installers' calls take: no meta
\* store ever knows a column that is not in the table.
THEOREM StorageType == StorageSpec => []StorageTypeOK
<1>1. StorageOK => StorageTypeOK
  BY DEF StorageOK
<1> QED
  BY <1>1, StorageInitOK, StorageStep, PTL DEF StorageSpec

\* However many installers create and update classes of one table at once, and
\* make the base storage, they leave a table that is whole, every class they
\* said TRUE of with its columns, and one administrator, unless a statement
\* fails or one of them dies (two, for two base storages at once).
THEOREM TablesAreLeftWhole == StorageSpec => []TablesSettle
<1>1. StorageOK => TablesSettle
  <2> SUFFICES ASSUME StorageOK, ~faults, \A i \in Installer : task[i] = {}
               PROVE  /\ table => SomeWhole /\ Promises
                      /\ based > 0 => admins = 1 \/ (raced /\ admins > 1)
    BY DEF TablesSettle, TableWhole, AdminOnce, Resting, SomeWhole, Promises
  <2>1. ~SomePast /\ ~Somewhere("meta1") /\ ~Somewhere("meta2")
    BY DEF SomePast, Somewhere
  <2>2. table => SomeWhole /\ Promises
    BY <2>1 DEF StorageOK, Carried
  <2>3. BaseOK /\ admins \in Nat
    BY DEF StorageOK, StorageTypeOK
  <2> QED
    BY <2>2, <2>3 DEF BaseOK
<1> QED
  BY <1>1, StorageInitOK, StorageStep, PTL DEF StorageSpec

-----------------------------------------------------------------------------
(* Configurations *)

\* What an object holds whose field has a default, or is one of a few values.
FieldOK(o) ==
    /\ kind # "ignored" => o.field # Absent
    /\ kind = "chosen" => ~Blank(o.field)

FieldsOK ==
    /\ \A c \in Cfg : \A o \in config[c] : FieldOK(o)
    /\ \A f \in KeyFile : \A s \in saved[f] : FieldOK(s)

\* A file says one thing, what was saved if it was; only an object that is there
\* was read from one.
FilesOK ==
    /\ \A f \in KeyFile : \A g, h \in file[f] : g = h
    /\ \A f \in KeyFile : \A s \in saved[f], g \in file[f] : g = ToFile(s)
    /\ \A c \in Cfg : config[c] = {} => source[c] = {}

CfgOK == ConfigurationTypeOK /\ FieldsOK /\ FilesOK /\ ReadsBack

LEMMA Texts ==
    /\ Empty # Absent /\ Empty # Default /\ Absent # Default /\ ~Blank(Default)
    /\ \A v \in Text : ~Blank(v)
    /\ Settable \subseteq Value /\ Absent \in Value /\ Default \in Value
    /\ \A v \in Settable : v # Absent
BY ConfigurationAssumption DEF Empty, Absent, Default, Blank, Settable, Value

\* Reading a file again changes no field, and what was saved is what is read.
LEMMA ReadTwice ==
    ASSUME kind \in FieldKind, NEW old, NEW given
    PROVE  ReadField(ReadField(old, given), given) = ReadField(old, given)
<1>1. CASE kind = "kept"
  BY <1>1 DEF ReadField
<1>2. CASE kind = "defaulted"
  BY <1>2 DEF ReadField
<1>3. CASE kind = "chosen"
  BY <1>3 DEF ReadField
<1>4. CASE kind = "given"
  BY <1>4 DEF ReadField
<1>5. CASE kind = "ignored"
  BY <1>5 DEF ReadField
<1> QED
  BY <1>1, <1>2, <1>3, <1>4, <1>5 DEF FieldKind

LEMMA SavedIsRead ==
    ASSUME NEW old, NEW v, kind # "ignored" => v # Absent, kind = "chosen" => ~Blank(v),
           \/ kind \in {"defaulted", "chosen", "given"}
           \/ kind = "kept" /\ ~Blank(v)
    PROVE  ReadField(old, Written(v)) = v
<1>1. kind # "ignored" /\ Written(v) = v
  BY DEF Written
<1>2. CASE kind = "kept"
  BY <1>1, <1>2 DEF ReadField
<1>3. CASE kind = "defaulted"
  BY <1>1, <1>3 DEF ReadField
<1>4. CASE kind = "chosen"
  BY <1>1, <1>4 DEF ReadField
<1>5. CASE kind = "given"
  BY <1>1, <1>5 DEF ReadField
<1> QED
  BY <1>2, <1>3, <1>4, <1>5

LEMMA FieldRead ==
    ASSUME kind \in FieldKind, NEW old, NEW given,
           kind # "ignored" => old # Absent, kind = "chosen" => ~Blank(old)
    PROVE  /\ kind # "ignored" => ReadField(old, given) # Absent
           /\ kind = "chosen" => ~Blank(ReadField(old, given))
           /\ ReadField(old, given) \in {old, given, Default, Absent}
<1>1. CASE kind = "kept"
  BY <1>1 DEF ReadField, Blank
<1>2. CASE kind = "defaulted"
  BY <1>2, Texts DEF ReadField
<1>3. CASE kind = "chosen"
  BY <1>3, Texts DEF ReadField, Blank
<1>4. CASE kind = "given"
  BY <1>4 DEF ReadField
<1>5. CASE kind = "ignored"
  BY <1>5 DEF ReadField
<1> QED
  BY <1>1, <1>2, <1>3, <1>4, <1>5 DEF FieldKind

LEMMA ContentOf ==
    ASSUME NEW o \in Content
    PROVE  /\ o.name \in Value /\ o.field \in Value /\ o.blobdir \in Blobdir
           /\ o = [name |-> o.name, field |-> o.field, blobdir |-> o.blobdir]
           /\ \A v : [o EXCEPT !.name = v] = [name |-> v, field |-> o.field, blobdir |-> o.blobdir]
           /\ \A v : [o EXCEPT !.field = v] = [name |-> o.name, field |-> v, blobdir |-> o.blobdir]
           /\ \A v : [o EXCEPT !.blobdir = v] = [name |-> o.name, field |-> o.field, blobdir |-> v]
BY DEF Content

LEMMA ContentIs ==
    ASSUME NEW n \in Value, NEW v \in Value, NEW b \in Blobdir, NEW o,
           o = [name |-> n, field |-> v, blobdir |-> b]
    PROVE  o \in Content /\ o.name = n /\ o.field = v /\ o.blobdir = b
BY DEF Content

LEMMA OneName ==
    /\ <<>> \in Blobdir
    /\ \A t \in Text \cup {Default} : <<t>> \in Blobdir /\ <<t>> # <<>>
BY ConfigurationAssumption DEF Blobdir

LEMMA Deeper ==
    ASSUME NEW b \in Blobdir, Len(b) < MaxDepth, NEW v \in Value, ~Blank(v)
    PROVE  Append(b, v) \in Blobdir
<1>1. v \in Text \cup {Default}
  BY DEF Value, Blank
<1>2. b \in Seq(Text \cup {Default}) /\ Len(b) \in Nat /\ MaxDepth \in Nat
  BY ConfigurationAssumption DEF Blobdir
<1>3. Append(b, v) \in Seq(Text \cup {Default}) /\ Len(Append(b, v)) = Len(b) + 1
  BY <1>1, <1>2
<1> QED
  BY <1>2, <1>3 DEF Blobdir

LEMMA ConfigSet ==
    ASSUME CfgOK, NEW c \in Cfg, NEW o \in Content, config' = [config EXCEPT ![c] = {o}]
    PROVE  /\ config' \in [Cfg -> SUBSET Content] /\ config'[c] = {o}
           /\ \A d \in Cfg : d # c => config'[d] = config[d]
BY DEF CfgOK, ConfigurationTypeOK

LEMMA CfgCallsBound == CfgOK /\ CfgCall => cfgCalls' \in 0 .. MaxCfgCalls
BY ConfigurationAssumption DEF CfgOK, ConfigurationTypeOK, CfgCall

\* Objects that are read, changed or copied, where the files stay.
LEMMA FilesStay ==
    ASSUME CfgOK, UNCHANGED <<kind, file, saved>>, cfgCalls' \in 0 .. MaxCfgCalls,
           NEW c \in Cfg, NEW o \in Content, FieldOK(o),
           config' = [config EXCEPT ![c] = {o}],
           source' \in [Cfg -> SUBSET KeyFile],
           \A d \in Cfg : d # c => source'[d] = source[d],
           \A f \in source'[c] :
               /\ \A s \in saved[f] :
                      /\ ~Blank(s.name) => o.name = s.name
                      /\ s.blobdir # <<>> => o.blobdir = s.blobdir
                      /\ kind \notin {"kept", "ignored"} \/ (kind = "kept" /\ ~Blank(s.field)) =>
                             o.field = s.field
               /\ \A g \in file[f] : g.blobdir # <<>> => ReadInto(o, g) = o
    PROVE  CfgOK'
<1>1. /\ config' \in [Cfg -> SUBSET Content] /\ config'[c] = {o}
      /\ \A d \in Cfg : d # c => config'[d] = config[d]
  BY ConfigSet
<1>2. kind' = kind /\ file' = file /\ saved' = saved
  OBVIOUS
<1>3. ConfigurationTypeOK'
  BY <1>1, <1>2 DEF CfgOK, ConfigurationTypeOK
<1>4. FieldsOK'
  <2>1. \A d \in Cfg : \A x \in config'[d] : FieldOK(x)
    BY <1>1 DEF CfgOK, FieldsOK
  <2> QED
    BY <1>2, <2>1 DEF CfgOK, FieldsOK, FieldOK
<1>5. FilesOK'
  <2>1. \A f \in KeyFile : /\ \A g, h \in file'[f] : g = h
                           /\ \A s \in saved'[f], g \in file'[f] : g = ToFile(s)
    BY <1>2 DEF CfgOK, FilesOK
  <2>2. \A d \in Cfg : config'[d] = {} => source'[d] = {}
    BY <1>1 DEF CfgOK, FilesOK
  <2> QED
    BY <2>1, <2>2 DEF FilesOK, ToFile, Written
<1>6. ReadsBack'
  <2>1. \A x, g : ReadInto(x, g)' = ReadInto(x, g)
    BY <1>2 DEF ReadInto, ReadName, ReadField, ReadBlobdir
  <2> SUFFICES ASSUME NEW d \in Cfg, NEW x \in config'[d], NEW f \in source'[d]
               PROVE  /\ \A s \in saved[f] :
                             /\ ~Blank(s.name) => x.name = s.name
                             /\ s.blobdir # <<>> => x.blobdir = s.blobdir
                             /\ kind \notin {"kept", "ignored"} \/ (kind = "kept" /\ ~Blank(s.field)) =>
                                    x.field = s.field
                      /\ \A g \in file[f] : g.blobdir # <<>> => ReadInto(x, g) = x
    BY <1>2, <2>1 DEF ReadsBack
  <2>2. CASE d = c
    BY <1>1, <2>2
  <2>3. CASE d # c
    <3>1. x \in config[d] /\ f \in source[d]
      BY <1>1, <2>3
    <3> QED
      BY <3>1 DEF CfgOK, ReadsBack
  <2> QED
    BY <2>2, <2>3
<1> QED
  BY <1>3, <1>4, <1>5, <1>6 DEF CfgOK

LEMMA ChangedOK ==
    ASSUME CfgOK, CfgCall, NEW c \in Cfg, NEW o \in Content, FieldOK(o), Changed(c, o)
    PROVE  CfgOK'
<1>1. /\ UNCHANGED <<kind, file, saved>> /\ config' = [config EXCEPT ![c] = {o}]
      /\ source' = [source EXCEPT ![c] = {}]
  BY DEF Changed
<1>2. /\ source' \in [Cfg -> SUBSET KeyFile] /\ source'[c] = {}
      /\ \A d \in Cfg : d # c => source'[d] = source[d]
  BY <1>1 DEF CfgOK, ConfigurationTypeOK
<1> QED
  BY <1>1, <1>2, CfgCallsBound, FilesStay

\* A configuration that is new holds the defaults.
LEMMA CfgNewStep == CfgOK /\ (\E c \in Cfg : CfgNew(c)) => CfgOK'
<1> SUFFICES ASSUME CfgOK, NEW c \in Cfg, CfgNew(c) PROVE CfgOK'
  OBVIOUS
<1>1. /\ CfgCall /\ config[c] = {} /\ config' = [config EXCEPT ![c] = {FreshConfig}]
      /\ UNCHANGED <<kind, file, source, saved>>
  BY DEF CfgNew
<1>2. PICK o : o = FreshConfig
  OBVIOUS
<1>3. PICK v : v = (IF kind = "ignored" THEN Absent ELSE Default)
  OBVIOUS
<1>4. o = [name |-> Default, field |-> v, blobdir |-> <<Default>>]
  BY <1>2, <1>3 DEF FreshConfig
<1>5. v \in Value /\ Default \in Value /\ <<Default>> \in Blobdir
  BY <1>3, Texts, OneName
<1>6. o \in Content /\ o.field = v
  BY <1>4, <1>5, ContentIs
<1>7. FieldOK(o)
  BY <1>3, <1>6, Texts DEF FieldOK
<1>8. source'[c] = {} /\ source' \in [Cfg -> SUBSET KeyFile]
  BY <1>1 DEF CfgOK, FilesOK, ConfigurationTypeOK
<1> QED
  BY <1>1, <1>2, <1>6, <1>7, <1>8, CfgCallsBound, FilesStay

\* A property that is set, by g_object_set or by a setter.
LEMMA SetStep ==
    ASSUME CfgOK, CfgCall, NEW c \in Cfg, NEW o \in config[c],
           \/ \E v \in Settable : Changed(c, [o EXCEPT !.name = v])
           \/ \E v \in Value : /\ kind # "ignored" => v # Absent
                               /\ kind = "chosen" => ~Blank(v)
                               /\ Changed(c, [o EXCEPT !.field = v])
           \/ \E t \in Text : Changed(c, [o EXCEPT !.blobdir = <<t>>])
    PROVE  CfgOK'
<1>1. o \in Content /\ FieldOK(o)
  BY DEF CfgOK, ConfigurationTypeOK, FieldsOK
<1>2. ASSUME NEW v \in Settable, Changed(c, [o EXCEPT !.name = v]) PROVE CfgOK'
  <2>1. PICK p : p = [o EXCEPT !.name = v]
    OBVIOUS
  <2>2. p = [name |-> v, field |-> o.field, blobdir |-> o.blobdir] /\ v \in Value
        /\ o.field \in Value /\ o.blobdir \in Blobdir
    BY <1>1, <2>1, ContentOf, Texts
  <2>3. p \in Content /\ p.field = o.field
    BY <2>2, ContentIs
  <2>4. FieldOK(p)
    BY <1>1, <2>3 DEF FieldOK
  <2> QED
    BY <1>2, <2>1, <2>3, <2>4, ChangedOK
<1>3. ASSUME NEW v \in Value, kind # "ignored" => v # Absent, kind = "chosen" => ~Blank(v),
             Changed(c, [o EXCEPT !.field = v])
      PROVE  CfgOK'
  <2>1. PICK p : p = [o EXCEPT !.field = v]
    OBVIOUS
  <2>2. p = [name |-> o.name, field |-> v, blobdir |-> o.blobdir]
        /\ o.name \in Value /\ o.blobdir \in Blobdir
    BY <1>1, <2>1, ContentOf
  <2>3. p \in Content /\ p.field = v
    BY <2>2, ContentIs
  <2>4. FieldOK(p)
    BY <1>3, <2>3 DEF FieldOK
  <2> QED
    BY <1>3, <2>1, <2>3, <2>4, ChangedOK
<1>4. ASSUME NEW t \in Text, Changed(c, [o EXCEPT !.blobdir = <<t>>]) PROVE CfgOK'
  <2>1. PICK p : p = [o EXCEPT !.blobdir = <<t>>]
    OBVIOUS
  <2>2. p = [name |-> o.name, field |-> o.field, blobdir |-> <<t>>]
        /\ o.name \in Value /\ o.field \in Value /\ <<t>> \in Blobdir
    BY <1>1, <2>1, ContentOf, OneName
  <2>3. p \in Content /\ p.field = o.field
    BY <2>2, ContentIs
  <2>4. FieldOK(p)
    BY <1>1, <2>3 DEF FieldOK
  <2> QED
    BY <1>4, <2>1, <2>3, <2>4, ChangedOK
<1> QED
  BY <1>2, <1>3, <1>4

LEMMA ChosenOK ==
    ASSUME NEW v \in Settable
    PROVE  /\ Chosen(v) \in Value /\ Chosen(v) # Absent
           /\ kind = "chosen" => ~Blank(Chosen(v))
BY Texts DEF Chosen

LEMMA SetPropertyStep == CfgOK /\ (\E c \in Cfg : SetProperty(c)) => CfgOK'
<1> SUFFICES ASSUME CfgOK, NEW c \in Cfg, SetProperty(c) PROVE CfgOK'
  OBVIOUS
<1>1. PICK o \in config[c] :
        /\ CfgCall
        /\ \/ \E v \in Settable : Changed(c, [o EXCEPT !.name = v])
           \/ \E v \in Settable : Changed(c, [o EXCEPT !.field = Chosen(v)])
           \/ \E t \in Text : Changed(c, [o EXCEPT !.blobdir = <<t>>])
  BY DEF SetProperty
<1>2. ASSUME NEW v \in Settable, Changed(c, [o EXCEPT !.field = Chosen(v)]) PROVE CfgOK'
  <2>1. PICK w : w = Chosen(v)
    OBVIOUS
  <2>2. w \in Value /\ w # Absent /\ (kind = "chosen" => ~Blank(w))
    BY <2>1, ChosenOK
  <2> QED
    BY <1>1, <1>2, <2>1, <2>2, SetStep
<1>3. ASSUME NEW v \in Settable, Changed(c, [o EXCEPT !.name = v]) PROVE CfgOK'
  BY <1>1, <1>3, SetStep
<1>4. ASSUME NEW t \in Text, Changed(c, [o EXCEPT !.blobdir = <<t>>]) PROVE CfgOK'
  BY <1>1, <1>4, SetStep
<1> QED
  BY <1>1, <1>2, <1>3, <1>4

LEMMA CallSetterStep == CfgOK /\ (\E c \in Cfg : CallSetter(c)) => CfgOK'
<1> SUFFICES ASSUME CfgOK, NEW c \in Cfg, CallSetter(c) PROVE CfgOK'
  OBVIOUS
<1>1. PICK o \in config[c] :
        /\ CfgCall
        /\ \/ \E v \in Settable : Changed(c, [o EXCEPT !.name = v])
           \/ kind # "ignored" /\ \E v \in Settable : Changed(c, [o EXCEPT !.field = Chosen(v)])
           \/ kind = "ignored" /\ \E v \in Settable \cup {Absent} :
                  Changed(c, [o EXCEPT !.field = IF v = Absent THEN Absent ELSE @])
           \/ \E t \in Text : Changed(c, [o EXCEPT !.blobdir = <<t>>])
  BY DEF CallSetter
<1>2. ASSUME NEW v \in Settable, Changed(c, [o EXCEPT !.field = Chosen(v)]) PROVE CfgOK'
  <2>1. PICK w : w = Chosen(v)
    OBVIOUS
  <2>2. w \in Value /\ w # Absent /\ (kind = "chosen" => ~Blank(w))
    BY <2>1, ChosenOK
  <2> QED
    BY <1>1, <1>2, <2>1, <2>2, SetStep
<1>3. ASSUME kind = "ignored", NEW v \in Settable \cup {Absent},
             Changed(c, [o EXCEPT !.field = IF v = Absent THEN Absent ELSE @])
      PROVE  CfgOK'
  <2>1. PICK w : w = IF v = Absent THEN Absent ELSE o.field
    OBVIOUS
  <2>2. w \in Value
    BY <1>1, <2>1, ContentOf, Texts DEF CfgOK, ConfigurationTypeOK
  <2>3. Changed(c, [o EXCEPT !.field = w])
    BY <1>3, <2>1
  <2>4. kind # "chosen"
    BY <1>3
  <2> QED
    BY <1>1, <1>3, <2>2, <2>3, <2>4, SetStep
<1>4. ASSUME NEW v \in Settable, Changed(c, [o EXCEPT !.name = v]) PROVE CfgOK'
  BY <1>1, <1>4, SetStep
<1>5. ASSUME NEW t \in Text, Changed(c, [o EXCEPT !.blobdir = <<t>>]) PROVE CfgOK'
  BY <1>1, <1>5, SetStep
<1> QED
  BY <1>1, <1>2, <1>3, <1>4, <1>5

\* What an object holds that has read a file.
LEMMA ReadContent ==
    ASSUME CfgOK, NEW o \in Content, FieldOK(o), Len(o.blobdir) < MaxDepth, NEW g \in Content, NEW p,
           p = ReadInto(o, g)
    PROVE  /\ p \in Content /\ FieldOK(p)
           /\ p.name = ReadName(o.name, g.name)
           /\ p.field = ReadField(o.field, g.field)
           /\ p.blobdir = ReadBlobdir(o.blobdir, g.blobdir, p.name)
<1>1. kind \in FieldKind
  BY DEF CfgOK, ConfigurationTypeOK
<1>2. PICK n : n = ReadName(o.name, g.name)
  OBVIOUS
<1>3. PICK v : v = ReadField(o.field, g.field)
  OBVIOUS
<1>4. PICK b : b = ReadBlobdir(o.blobdir, g.blobdir, n)
  OBVIOUS
<1>5. o.name \in Value /\ o.field \in Value /\ o.blobdir \in Blobdir
  BY ContentOf
<1>6. g.name \in Value /\ g.field \in Value /\ g.blobdir \in Blobdir
  BY ContentOf
<1>7. n \in Value
  BY <1>2, <1>5, <1>6 DEF ReadName
<1>8. v \in Value /\ (kind # "ignored" => v # Absent) /\ (kind = "chosen" => ~Blank(v))
  BY <1>1, <1>3, <1>5, <1>6, FieldRead, Texts DEF FieldOK
<1>9. b \in Blobdir
  <2>1. CASE ~Blank(n)
    BY <1>4, <1>5, <1>6, <1>7, <2>1, Deeper DEF ReadBlobdir
  <2>2. CASE Blank(n)
    BY <1>4, <1>5, <1>6, <2>2 DEF ReadBlobdir
  <2> QED
    BY <2>1, <2>2
<1>10. p = [name |-> n, field |-> v, blobdir |-> b]
  BY <1>2, <1>3, <1>4 DEF ReadInto
<1>11. p \in Content /\ p.name = n /\ p.field = v /\ p.blobdir = b
  BY <1>7, <1>8, <1>9, <1>10, ContentIs
<1> QED
  BY <1>2, <1>3, <1>4, <1>8, <1>11 DEF FieldOK

\* A file that is read again says the same, if it gives the blob directory.
LEMMA ReadAgain ==
    ASSUME CfgOK, NEW o \in Content, NEW g \in Content, NEW p \in Content,
           p.name = ReadName(o.name, g.name),
           p.field = ReadField(o.field, g.field),
           p.blobdir = ReadBlobdir(o.blobdir, g.blobdir, p.name),
           g.blobdir # <<>>
    PROVE  ReadInto(p, g) = p
<1>1. ReadName(p.name, g.name) = p.name
  BY DEF ReadName
<1>2. ReadField(p.field, g.field) = p.field
  BY ReadTwice DEF CfgOK, ConfigurationTypeOK
<1>3. ReadBlobdir(p.blobdir, g.blobdir, p.name) = p.blobdir
  BY DEF ReadBlobdir
<1>4. ReadInto(p, g) = [name |-> p.name, field |-> p.field, blobdir |-> p.blobdir]
  BY <1>1, <1>2, <1>3 DEF ReadInto
<1> QED
  BY <1>4, ContentOf

LEMMA ReadFileStep == CfgOK /\ (\E c \in Cfg, f \in KeyFile : ReadFile(c, f)) => CfgOK'
<1> SUFFICES ASSUME CfgOK, NEW c \in Cfg, NEW f \in KeyFile, ReadFile(c, f) PROVE CfgOK'
  OBVIOUS
<1>1. PICK o \in config[c], g \in file[f] :
        /\ CfgCall /\ Len(o.blobdir) < MaxDepth
        /\ config' = [config EXCEPT ![c] = {ReadInto(o, g)}]
        /\ source' = [source EXCEPT ![c] = {f}]
        /\ UNCHANGED <<kind, file, saved>>
  BY DEF ReadFile
<1>2. o \in Content /\ g \in Content /\ FieldOK(o)
  BY DEF CfgOK, ConfigurationTypeOK, FieldsOK
<1>3. PICK p : p = ReadInto(o, g)
  OBVIOUS
<1>4. /\ p \in Content /\ FieldOK(p)
      /\ p.name = ReadName(o.name, g.name)
      /\ p.field = ReadField(o.field, g.field)
      /\ p.blobdir = ReadBlobdir(o.blobdir, g.blobdir, p.name)
  BY <1>1, <1>2, <1>3, ReadContent
<1>5. /\ source' \in [Cfg -> SUBSET KeyFile] /\ source'[c] = {f}
      /\ \A d \in Cfg : d # c => source'[d] = source[d]
  BY <1>1 DEF CfgOK, ConfigurationTypeOK
<1>6. config' = [config EXCEPT ![c] = {p}]
  BY <1>1, <1>3
<1>7. ASSUME NEW s \in saved[f]
      PROVE  /\ ~Blank(s.name) => p.name = s.name
             /\ s.blobdir # <<>> => p.blobdir = s.blobdir
             /\ kind \notin {"kept", "ignored"} \/ (kind = "kept" /\ ~Blank(s.field)) =>
                    p.field = s.field
  <2>1. s \in Content /\ FieldOK(s) /\ g = ToFile(s) /\ kind \in FieldKind
    BY <1>7 DEF CfgOK, ConfigurationTypeOK, FieldsOK, FilesOK
  <2>2. g.name = Written(s.name) /\ g.field = Written(s.field) /\ g.blobdir = s.blobdir
    BY <2>1 DEF ToFile, Content
  <2>3. ~Blank(s.name) => p.name = s.name
    BY <1>4, <2>2 DEF ReadName, Written, Blank
  <2>4. s.blobdir # <<>> => p.blobdir = s.blobdir
    BY <1>4, <2>2 DEF ReadBlobdir
  <2>5. ASSUME kind \notin {"kept", "ignored"} \/ (kind = "kept" /\ ~Blank(s.field))
        PROVE  p.field = s.field
    <3>1. \/ kind \in {"defaulted", "chosen", "given"}
          \/ kind = "kept" /\ ~Blank(s.field)
      BY <2>1, <2>5 DEF FieldKind
    <3>2. (kind # "ignored" => s.field # Absent) /\ (kind = "chosen" => ~Blank(s.field))
      BY <2>1 DEF FieldOK
    <3> QED
      BY <1>4, <2>2, <3>1, <3>2, SavedIsRead
  <2> QED
    BY <2>3, <2>4, <2>5
<1>8. \A h \in file[f] : h.blobdir # <<>> => ReadInto(p, h) = p
  <2> SUFFICES ASSUME NEW h \in file[f], h.blobdir # <<>> PROVE ReadInto(p, h) = p
    OBVIOUS
  <2>1. h = g
    BY DEF CfgOK, FilesOK
  <2> QED
    BY <1>2, <1>4, <2>1, ReadAgain
<1> QED
  BY <1>1, <1>4, <1>5, <1>6, <1>7, <1>8, CfgCallsBound, FilesStay

\* A file that is written: nobody has read it as it is now.
LEMMA WrittenOK ==
    ASSUME CfgOK, UNCHANGED <<kind, config>>, cfgCalls' \in 0 .. MaxCfgCalls,
           NEW f \in KeyFile, NEW g \in Content, file' = [file EXCEPT ![f] = {g}],
           NEW S \in SUBSET Content, saved' = [saved EXCEPT ![f] = S],
           \A s \in S : FieldOK(s) /\ g = ToFile(s),
           source' = [d \in Cfg |-> source[d] \ {f}]
    PROVE  CfgOK'
<1>1. /\ file' \in [KeyFile -> SUBSET Content] /\ file'[f] = {g}
      /\ \A e \in KeyFile : e # f => file'[e] = file[e]
  BY DEF CfgOK, ConfigurationTypeOK
<1>2. /\ saved' \in [KeyFile -> SUBSET Content] /\ saved'[f] = S
      /\ \A e \in KeyFile : e # f => saved'[e] = saved[e]
  BY DEF CfgOK, ConfigurationTypeOK
<1>3. /\ source' \in [Cfg -> SUBSET KeyFile]
      /\ \A d \in Cfg : source'[d] \subseteq source[d] /\ f \notin source'[d]
  BY DEF CfgOK, ConfigurationTypeOK
<1>4. kind' = kind /\ config' = config
  OBVIOUS
<1>5. ConfigurationTypeOK'
  BY <1>1, <1>2, <1>3, <1>4 DEF CfgOK, ConfigurationTypeOK
<1>6. FieldsOK'
  <2>1. \A e \in KeyFile : \A s \in saved'[e] : FieldOK(s)
    BY <1>2 DEF CfgOK, FieldsOK
  <2> QED
    BY <1>4, <2>1 DEF CfgOK, FieldsOK, FieldOK
<1>7. FilesOK'
  <2>1. \A e \in KeyFile : \A x, y \in file'[e] : x = y
    BY <1>1 DEF CfgOK, FilesOK
  <2>2. \A e \in KeyFile : \A s \in saved'[e], x \in file'[e] : x = ToFile(s)
    BY <1>1, <1>2 DEF CfgOK, FilesOK
  <2>3. \A d \in Cfg : config'[d] = {} => source'[d] = {}
    BY <1>3, <1>4 DEF CfgOK, FilesOK
  <2> QED
    BY <2>1, <2>2, <2>3 DEF FilesOK, ToFile, Written
<1>8. ReadsBack'
  <2>1. \A x, y : ReadInto(x, y)' = ReadInto(x, y)
    BY <1>4 DEF ReadInto, ReadName, ReadField, ReadBlobdir
  <2> SUFFICES ASSUME NEW d \in Cfg, NEW x \in config[d], NEW e \in source'[d]
               PROVE  /\ \A s \in saved'[e] :
                             /\ ~Blank(s.name) => x.name = s.name
                             /\ s.blobdir # <<>> => x.blobdir = s.blobdir
                             /\ kind \notin {"kept", "ignored"} \/ (kind = "kept" /\ ~Blank(s.field)) =>
                                    x.field = s.field
                      /\ \A y \in file'[e] : y.blobdir # <<>> => ReadInto(x, y) = x
    BY <1>4, <2>1 DEF ReadsBack
  <2>2. e \in source[d] /\ e # f /\ e \in KeyFile
    BY <1>3
  <2>3. saved'[e] = saved[e] /\ file'[e] = file[e]
    BY <1>1, <1>2, <2>2
  <2> QED
    BY <2>2, <2>3 DEF CfgOK, ReadsBack
<1> QED
  BY <1>5, <1>6, <1>7, <1>8 DEF CfgOK

LEMMA SaveFileStep == CfgOK /\ (\E c \in Cfg, f \in KeyFile : SaveFile(c, f)) => CfgOK'
<1> SUFFICES ASSUME CfgOK, NEW c \in Cfg, NEW f \in KeyFile, SaveFile(c, f) PROVE CfgOK'
  OBVIOUS
<1>1. PICK o \in config[c] :
        /\ CfgCall
        /\ file' = [file EXCEPT ![f] = {ToFile(o)}]
        /\ saved' = [saved EXCEPT ![f] = {o}]
        /\ source' = [d \in Cfg |-> source[d] \ {f}]
        /\ UNCHANGED <<kind, config>>
  BY DEF SaveFile
<1>2. o \in Content /\ FieldOK(o)
  BY DEF CfgOK, ConfigurationTypeOK, FieldsOK
<1>3. PICK g : g = ToFile(o)
  OBVIOUS
<1>4. g = [name |-> Written(o.name), field |-> Written(o.field), blobdir |-> o.blobdir]
  BY <1>2, <1>3 DEF ToFile, Content
<1>5. /\ Written(o.name) \in Value /\ Written(o.field) \in Value /\ o.blobdir \in Blobdir
  BY <1>2, ContentOf DEF Written, Value
<1>6. g \in Content
  BY <1>4, <1>5, ContentIs
<1>7. PICK S : S = {o}
  OBVIOUS
<1>8. S \in SUBSET Content /\ \A s \in S : FieldOK(s) /\ g = ToFile(s)
  BY <1>2, <1>3, <1>7
<1> QED
  BY <1>1, <1>3, <1>6, <1>7, <1>8, CfgCallsBound, WrittenOK

LEMMA EditFileStep == CfgOK /\ (\E f \in KeyFile : EditFile(f)) => CfgOK'
<1> SUFFICES ASSUME CfgOK, NEW f \in KeyFile, EditFile(f) PROVE CfgOK'
  OBVIOUS
<1>1. /\ CfgCall
      /\ \E n, v \in Settable \cup {Absent}, b \in {<<>>} \cup {<<t>> : t \in Text} :
             file' = [file EXCEPT ![f] = {[name |-> n, field |-> v, blobdir |-> b]}]
      /\ saved' = [saved EXCEPT ![f] = {}]
      /\ source' = [d \in Cfg |-> source[d] \ {f}]
      /\ UNCHANGED <<kind, config>>
  BY DEF EditFile
<1>2. PICK n \in Settable \cup {Absent}, v \in Settable \cup {Absent},
           b \in {<<>>} \cup {<<t>> : t \in Text} :
        file' = [file EXCEPT ![f] = {[name |-> n, field |-> v, blobdir |-> b]}]
  BY <1>1
<1>3. PICK g : g = [name |-> n, field |-> v, blobdir |-> b]
  OBVIOUS
<1>4. n \in Value /\ v \in Value /\ b \in Blobdir
  BY Texts, OneName
<1>5. g \in Content
  BY <1>3, <1>4, ContentIs
<1>6. PICK S : S = {}
  OBVIOUS
<1>7. S \in SUBSET Content /\ \A s \in S : FieldOK(s) /\ g = ToFile(s)
  BY <1>6
<1>8. file' = [file EXCEPT ![f] = {g}] /\ saved' = [saved EXCEPT ![f] = S]
  BY <1>1, <1>2, <1>3, <1>6
<1> QED
  BY <1>1, <1>5, <1>7, <1>8, CfgCallsBound, WrittenOK

LEMMA CopyConfigStep == CfgOK /\ (\E c, d \in Cfg : CopyConfig(c, d)) => CfgOK'
<1> SUFFICES ASSUME CfgOK, NEW c \in Cfg, NEW d \in Cfg, CopyConfig(c, d) PROVE CfgOK'
  OBVIOUS
<1>1. PICK o \in config[c] :
        /\ CfgCall /\ config[d] = {}
        /\ config' = [config EXCEPT ![d] = {Copied(o)}]
        /\ UNCHANGED <<kind, file, source, saved>>
  BY DEF CopyConfig
<1>2. o \in Content /\ FieldOK(o)
  BY DEF CfgOK, ConfigurationTypeOK, FieldsOK
<1>3. PICK p : p = Copied(o)
  OBVIOUS
<1>4. PICK v : v = IF kind = "ignored" THEN Absent ELSE o.field
  OBVIOUS
<1>5. p = [name |-> o.name, field |-> v, blobdir |-> o.blobdir]
  BY <1>2, <1>3, <1>4 DEF Copied, Content
<1>6. o.name \in Value /\ v \in Value /\ o.blobdir \in Blobdir
  BY <1>2, <1>4, ContentOf, Texts
<1>7. p \in Content /\ p.field = v
  BY <1>5, <1>6, ContentIs
<1>8. FieldOK(p)
  BY <1>2, <1>4, <1>7 DEF FieldOK
<1>9. source'[d] = {} /\ source' \in [Cfg -> SUBSET KeyFile]
  BY <1>1 DEF CfgOK, FilesOK, ConfigurationTypeOK
<1> QED
  BY <1>1, <1>3, <1>7, <1>8, <1>9, CfgCallsBound, FilesStay

LEMMA CfgInitOK == CfgInit => CfgOK
<1> SUFFICES ASSUME CfgInit PROVE CfgOK
  OBVIOUS
<1>1. /\ kind \in FieldKind /\ config = [c \in Cfg |-> {}]
      /\ file = [f \in KeyFile |-> {}] /\ source = [c \in Cfg |-> {}]
      /\ saved = [f \in KeyFile |-> {}] /\ cfgCalls = 0
  BY DEF CfgInit
<1>2. ConfigurationTypeOK
  <2>1. config \in [Cfg -> SUBSET Content] /\ source \in [Cfg -> SUBSET KeyFile]
    BY <1>1
  <2>2. file \in [KeyFile -> SUBSET Content] /\ saved \in [KeyFile -> SUBSET Content]
    BY <1>1
  <2>3. cfgCalls \in 0 .. MaxCfgCalls
    BY <1>1, ConfigurationAssumption
  <2> QED
    BY <1>1, <2>1, <2>2, <2>3 DEF ConfigurationTypeOK
<1> QED
  BY <1>1, <1>2 DEF CfgOK, FieldsOK, FilesOK, ReadsBack

LEMMA CfgStep == CfgOK /\ [CfgNext]_cfgVars => CfgOK'
<1> SUFFICES ASSUME CfgOK, [CfgNext]_cfgVars PROVE CfgOK'
  OBVIOUS
<1>1. CASE UNCHANGED cfgVars
  <2>1. /\ kind' = kind /\ config' = config /\ file' = file /\ source' = source
        /\ saved' = saved /\ cfgCalls' = cfgCalls
    BY <1>1 DEF cfgVars
  <2>2. ConfigurationTypeOK'
    BY <2>1 DEF CfgOK, ConfigurationTypeOK
  <2>3. FieldsOK'
    BY <2>1 DEF CfgOK, FieldsOK, FieldOK
  <2>4. FilesOK'
    BY <2>1 DEF CfgOK, FilesOK, ToFile, Written
  <2>5. ReadsBack'
    <3>1. \A x, y : ReadInto(x, y)' = ReadInto(x, y)
      BY <2>1 DEF ReadInto, ReadName, ReadField, ReadBlobdir
    <3> QED
      BY <2>1, <3>1 DEF CfgOK, ReadsBack
  <2> QED
    BY <2>2, <2>3, <2>4, <2>5 DEF CfgOK
<1>2. CASE CfgNext
  BY <1>2, CfgNewStep, SetPropertyStep, CallSetterStep, ReadFileStep, SaveFileStep,
     CopyConfigStep, EditFileStep DEF CfgNext
<1> QED
  BY <1>1, <1>2

\* The values configurations and files take: a blob directory never gets deeper
\* than the bound.
THEOREM ConfigurationType == CfgSpec => []ConfigurationTypeOK
<1>1. CfgOK => ConfigurationTypeOK
  BY DEF CfgOK
<1> QED
  BY <1>1, CfgInitOK, CfgStep, PTL DEF CfgSpec

\* What was saved is what is read, and reading a file again says the same, in
\* whatever order configurations are set, saved, copied and read by
\* __set_config_from_keyfile, with the exceptions ReadsBack names.
THEOREM SavedReadsBack == CfgSpec => []ReadsBack
<1>1. CfgOK => ReadsBack
  BY DEF CfgOK
<1> QED
  BY <1>1, CfgInitOK, CfgStep, PTL DEF CfgSpec
====
