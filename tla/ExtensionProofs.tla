--------------------------- MODULE ExtensionProofs ---------------------------
(***************************************************************************)
(* Proofs about what programs do to an object they share: its locks and    *)
(* approvals (ObjectLock), its parameters (Parameters) and its attachments *)
(* (Attachments), for any number of programs, names, rows and calls.       *)
(***************************************************************************)
EXTENDS ObjectLock, Parameters, Attachments, FiniteSetTheorems, SequenceTheorems, WellFoundedInduction, TLAPS

\* No instance has seen a change of a mark that was not made yet.
SeenBefore == \A c \in Caller, m \in Mark : inst[c].seen[m] <= changed[m]

\* A call whose check was answered still remembers the answer.
AnswerKept == \A c \in Caller : \A k \in call[c] :
    k.heard => inst[c].is[k.mark] = ~k.on

\* Whoever an instance names has signed.
InstancesName == \A c \in Caller, m \in Mark :
    inst[c].by[m] # NoPerson => \E on \in BOOLEAN : <<m, inst[c].by[m], on>> \in signed

LockOK == /\ TypeOK
          /\ SeenBefore /\ FreshAgrees
          /\ AnswerKept
          /\ NamesSigner /\ InstancesName

-----------------------------------------------------------------------------
(***************************************************************************)
(* Types                                                                   *)
(***************************************************************************)
\* The instances calls leave are instances.
LEMMA InstanceTypes ==
    ASSUME NEW o \in Instance, NEW m \in Mark, NEW on \in BOOLEAN, NEW who \in Name, NEW n \in Nat
    PROVE  /\ Stamped(o) \in Instance
           /\ Marked(o, m, on, who, n) \in Instance
BY DEF Instance, Stamped, Marked, NoNames, Mark, Name

\* The types are kept by every step.
LEMMA TypeStep == TypeOK /\ [Next]_vars => TypeOK'
<1> SUFFICES ASSUME TypeOK, [Next]_vars PROVE TypeOK'
  OBVIOUS
<1> USE BoundAssumption
<1>1. AllChanged \in [Mark -> Nat]
  BY DEF TypeOK, AllChanged
<1>2. Calling => calls' \in 0 .. MaxCalls
  BY DEF TypeOK, Calling
<1>3. ASSUME NEW c \in Caller, NEW u \in Name \cup {Nobody}, LogIn(c, u) PROVE TypeOK'
  BY <1>2, <1>3 DEF TypeOK, LogIn, Idle
<1>4. ASSUME NEW c \in Caller, Create(c) PROVE TypeOK'
  <2>1. Stamped(inst[c]) \in Instance
    BY InstanceTypes DEF TypeOK, Instance, Stamped, NoNames, Mark, Name
  <2> DEFINE o == Stamped(inst[c])
  <2>2. [o EXCEPT !.new = FALSE, !.seen = AllChanged] \in Instance
    BY <1>1, <2>1 DEF Instance
  <2>3. [is |-> o.is, by |-> o.by] \in Columns
    BY <2>1 DEF Instance, Columns
  <2> QED BY <1>1, <1>2, <1>4, <2>2, <2>3 DEF TypeOK, Create
<1>5. ASSUME NEW c \in Caller, CreateRefused(c) PROVE TypeOK'
  <2>1. Stamped(inst[c]) \in Instance
    BY DEF TypeOK, Instance, Stamped, NoNames, Mark, Name
  <2> QED BY <1>2, <1>5, <2>1 DEF TypeOK, CreateRefused
<1>6. ASSUME NEW c \in Caller, Fetch(c) \/ Refetch(c) PROVE TypeOK'
  <2>1. row \in Columns
    BY <1>6 DEF TypeOK, Fetch, Refetch, Stored
  <2>2. \A o \in Instance :
          [o EXCEPT !.is = row.is, !.by = row.by, !.new = FALSE, !.seen = changed] \in Instance
    BY <2>1 DEF TypeOK, Instance, Columns
  <2>3. New \in Instance
    BY DEF New, Instance, NoMarks, NoNames, Name
  <2>4. inst' \in [Caller -> Instance]
    <3>1. CASE Fetch(c)
      <4> DEFINE n == [New EXCEPT !.is = row.is, !.by = row.by, !.new = FALSE, !.seen = changed]
      <4>1. n \in Instance /\ inst' = [inst EXCEPT ![c] = n]
        BY <2>2, <2>3, <3>1 DEF Fetch
      <4> HIDE DEF n
      <4> QED BY <4>1 DEF TypeOK
    <3>2. CASE Refetch(c)
      <4> DEFINE n == [inst[c] EXCEPT !.is = row.is, !.by = row.by, !.new = FALSE, !.seen = changed]
      <4>1. n \in Instance /\ inst' = [inst EXCEPT ![c] = n]
        BY <2>2, <3>2 DEF Refetch, TypeOK
      <4> HIDE DEF n
      <4> QED BY <4>1 DEF TypeOK
    <3> QED BY <1>6, <3>1, <3>2
  <2> QED BY <1>2, <1>6, <2>4 DEF TypeOK, Fetch, Refetch
<1>7. ASSUME NEW c \in Caller, Update(c) PROVE TypeOK'
  <2>1. inst[c] \in Instance
    BY DEF TypeOK
  <2>2. /\ [inst[c] EXCEPT !.seen = AllChanged] \in Instance
        /\ [is |-> inst[c].is, by |-> inst[c].by] \in Columns
    BY <1>1, <2>1 DEF Instance, Columns
  <2> QED BY <1>1, <1>2, <1>7, <2>2 DEF TypeOK, Update
<1>8. ASSUME NEW c \in Caller, Purge(c) PROVE TypeOK'
  BY <1>1, <1>2, <1>8 DEF TypeOK, Purge
<1>9. ASSUME NEW c \in Caller, NEW m \in Mark, NEW yes \in BOOLEAN, NEW heard \in BOOLEAN,
             Asked(c, m, yes, heard)
      PROVE  inst' \in [Caller -> Instance]
  <2>1. ASSUME Found(c) PROVE Learnt(inst[c], m) \in Instance
    <3>1. row.is[m] \in BOOLEAN /\ changed[m] \in Nat /\ inst[c] \in Instance
      BY <2>1 DEF TypeOK, Found, Stored, Columns
    <3> QED BY <3>1 DEF Learnt, Instance
  <2> QED BY <1>9, <2>1 DEF TypeOK, Asked
<1>10. ASSUME NEW c \in Caller, NEW m \in Mark, Check(c, m) PROVE TypeOK'
  BY <1>2, <1>9, <1>10 DEF TypeOK, Check
<1>11. ASSUME NEW c \in Caller, NEW m \in Mark, NEW on \in BOOLEAN, Start(c, m, on) PROVE TypeOK'
  <2>1. inst' \in [Caller -> Instance]
    BY <1>9, <1>11 DEF Start
  <2>2. call' \in [Caller -> {{}} \cup {{k} : k \in Call}]
    BY <1>11 DEF TypeOK, Start, Call
  <2>3. user[c] \in Name
    BY <1>11 DEF TypeOK, Start, Allowed
  <2> QED BY <1>2, <1>11, <2>1, <2>2, <2>3 DEF TypeOK, Start
<1>12. ASSUME NEW c \in Caller, Write(c) PROVE TypeOK'
  <2>1. PICK k \in call[c] : Write(c)!(k)
    BY <1>12 DEF Write
  <2>2. k \in Call /\ k.mark \in Mark /\ k.on \in BOOLEAN
    BY DEF TypeOK, Call
  <2>3. inst[c] \in Instance /\ user[c] \in Name /\ changed[k.mark] \in Nat
    BY <2>2 DEF TypeOK
  <2>4. inst[c].seen[k.mark] \in Nat
    BY <2>2, <2>3 DEF Instance
  <2> DEFINE now == IF Found(c) THEN changed[k.mark] + 1 ELSE inst[c].seen[k.mark]
             o == Marked(inst[c], k.mark, k.on, user[c], now)
  <2>5. now \in Nat
    BY <2>3, <2>4
  <2>6. o \in Instance
    BY <2>2, <2>3, <2>5, InstanceTypes
  <2>7. inst' = [inst EXCEPT ![c] = o]
    BY <2>1
  <2>8. row' \in Columns \cup {Absent}
    <3>1. CASE Found(c)
      <4>1. row \in Columns
        BY <3>1 DEF TypeOK, Found, Stored
      <4>2. row' = [row EXCEPT !.is[k.mark] = k.on, !.by[k.mark] = user[c]]
        BY <2>1, <3>1
      <4> QED BY <2>2, <2>3, <4>1, <4>2 DEF Columns
    <3> QED BY <2>1, <3>1 DEF TypeOK
  <2>9. changed' \in [Mark -> Nat]
    BY <2>1, <2>2, <2>5 DEF TypeOK
  <2>10. signed' \subseteq Mark \X Name \X BOOLEAN
    <3>1. <<k.mark, user[c], k.on>> \in Mark \X Name \X BOOLEAN
      BY <2>2, <2>3
    <3> QED BY <2>1, <3>1 DEF TypeOK
  <2> HIDE DEF o, now
  <2> QED BY <2>1, <2>6, <2>7, <2>8, <2>9, <2>10 DEF TypeOK
<1>13. ASSUME NEW c \in Caller, WriteFails(c) PROVE TypeOK'
  BY <1>13 DEF TypeOK, WriteFails
<1>14. CASE UNCHANGED vars
  BY <1>14 DEF TypeOK, vars
<1> QED
  BY <1>3, <1>4, <1>5, <1>6, <1>7, <1>8, <1>10, <1>11, <1>12, <1>13, <1>14 DEF Next

-----------------------------------------------------------------------------
(***************************************************************************)
(* What instances remember, and who has signed                             *)
(***************************************************************************)
\* A call that asks leaves the other columns, and what it learns is so.
LEMMA AskedKeeps ==
    ASSUME LockOK, NEW c \in Caller, NEW m \in Mark, NEW yes \in BOOLEAN, NEW heard \in BOOLEAN,
           Asked(c, m, yes, heard)
    PROVE  /\ \A b \in Caller : b # c => inst'[b] = inst[b]
           /\ inst'[c].by = inst[c].by /\ inst'[c].new = inst[c].new
           /\ heard => inst'[c].is[m] = yes
           /\ \A x \in Mark : \/ /\ inst'[c].is[x] = inst[c].is[x]
                                 /\ inst'[c].seen[x] = inst[c].seen[x]
                              \/ /\ inst'[c].is[x] = row.is[x]
                                 /\ inst'[c].seen[x] = changed[x]
<1>1. inst[c] \in Instance /\ inst \in [Caller -> Instance]
  BY DEF LockOK, TypeOK
<1>2. CASE UNCHANGED inst /\ (heard => inst[c].is[m] = yes)
  BY <1>2
<1>3. CASE inst' = [inst EXCEPT ![c] = Learnt(@, m)] /\ row.is[m] = yes
  <2>1. inst'[c] = Learnt(inst[c], m)
    BY <1>1, <1>3
  <2>2. /\ \A x \in Mark : x # m => /\ Learnt(inst[c], m).is[x] = inst[c].is[x]
                                    /\ Learnt(inst[c], m).seen[x] = inst[c].seen[x]
        /\ Learnt(inst[c], m).is[m] = row.is[m]
        /\ Learnt(inst[c], m).seen[m] = changed[m]
        /\ Learnt(inst[c], m).by = inst[c].by
        /\ Learnt(inst[c], m).new = inst[c].new
    BY <1>1 DEF Learnt, Instance
  <2> QED BY <1>1, <1>3, <2>1, <2>2
<1> QED BY <1>2, <1>3 DEF Asked

\* What a caller that fetches the object holds then.
LEMMA FetchedRow ==
    ASSUME LockOK, NEW c \in Caller, Fetch(c) \/ Refetch(c)
    PROVE  /\ \A b \in Caller : b # c => inst'[b] = inst[b]
           /\ inst'[c].is = row.is /\ inst'[c].by = row.by /\ inst'[c].seen = changed
<1>1. inst[c] \in Instance /\ inst \in [Caller -> Instance] /\ New \in Instance
  BY DEF LockOK, TypeOK, New, Instance, NoMarks, NoNames, Name
<1>2. \A o \in Instance :
        LET n == [o EXCEPT !.is = row.is, !.by = row.by, !.new = FALSE, !.seen = changed]
        IN  n.is = row.is /\ n.by = row.by /\ n.seen = changed
  BY DEF Instance
<1>3. PICK o \in Instance : inst' = [inst EXCEPT ![c] =
        [o EXCEPT !.is = row.is, !.by = row.by, !.new = FALSE, !.seen = changed]]
  BY <1>1 DEF Fetch, Refetch
<1> DEFINE n == [o EXCEPT !.is = row.is, !.by = row.by, !.new = FALSE, !.seen = changed]
<1>4. n.is = row.is /\ n.by = row.by /\ n.seen = changed
  BY <1>2
<1> HIDE DEF n
<1> QED BY <1>1, <1>3, <1>4

\* What was signed stays signed.
LEMMA SignedGrows == [Next]_vars => signed \subseteq signed'
BY DEF Next, vars, LogIn, Create, CreateRefused, Fetch, Refetch, Update, Purge, Check, Start,
       Write, WriteFails

-----------------------------------------------------------------------------
\* Nobody but the caller of a step sees its instance or its call change.
LEMMA MarksKept ==
    ASSUME LockOK, NEW c \in Caller,
           SeenBefore', \A m \in Mark : changed'[m] \in Nat /\ changed[m] <= changed'[m],
           \A b \in Caller : b # c => inst'[b] = inst[b] /\ call'[b] = call[b],
           \A m \in Mark : changed'[m] = changed[m] /\ Stored' => Stored /\ row'.is[m] = row.is[m],
           \A m \in Mark : (Found(c)' /\ inst'[c].seen[m] = changed'[m]) => inst'[c].is[m] = row'.is[m],
           \A k \in call'[c] : k.heard => inst'[c].is[k.mark] = ~k.on
    PROVE  FreshAgrees' /\ AnswerKept'
<1>1. AnswerKept'
  BY DEF LockOK, AnswerKept
<1>2. ASSUME NEW b \in Caller, NEW m \in Mark, Found(b)', inst'[b].seen[m] = changed'[m]
      PROVE  inst'[b].is[m] = row'.is[m]
  <2>1. CASE b = c
    BY <1>2, <2>1
  <2>2. CASE b # c
    <3>1. inst'[b] = inst[b] /\ inst[b].seen[m] <= changed[m]
      BY <2>2 DEF LockOK, SeenBefore
    <3>2. inst[b].seen[m] \in Nat /\ changed[m] \in Nat
      BY DEF LockOK, TypeOK, Instance
    <3>3. changed'[m] = changed[m]
      BY <1>2, <3>1, <3>2
    <3>4. Found(b) /\ row'.is[m] = row.is[m]
      BY <1>2, <3>1, <3>3 DEF Found
    <3> QED BY <1>2, <3>1, <3>3, <3>4 DEF LockOK, FreshAgrees
  <2> QED BY <2>1, <2>2
<1> QED BY <1>1, <1>2 DEF FreshAgrees

\* No instance sees a change before it is made, whoever takes the step.
LEMMA SeenStep == LockOK /\ [Next]_vars => SeenBefore' /\ \A m \in Mark : changed[m] <= changed'[m]
<1> SUFFICES ASSUME LockOK, [Next]_vars PROVE SeenBefore' /\ \A m \in Mark : changed[m] <= changed'[m]
  OBVIOUS
<1>1. /\ \A m \in Mark : changed[m] \in Nat
      /\ \A c \in Caller : inst[c] \in Instance /\ \A m \in Mark : inst[c].seen[m] \in Nat
      /\ \A c \in Caller, m \in Mark : inst[c].seen[m] <= changed[m]
      /\ inst \in [Caller -> Instance] /\ changed \in [Mark -> Nat]
  BY DEF LockOK, TypeOK, Instance, SeenBefore
<1> DEFINE Goal(c) ==
      /\ \A m \in Mark : changed[m] <= changed'[m] /\ inst'[c].seen[m] <= changed'[m]
      /\ \A b \in Caller : b # c => inst'[b] = inst[b]
<1>2. ASSUME NEW c \in Caller, Goal(c)
      PROVE  SeenBefore' /\ \A m \in Mark : changed[m] <= changed'[m]
  <2>1. TypeOK'
    BY TypeStep DEF LockOK
  <2>2. ASSUME NEW b \in Caller, NEW m \in Mark PROVE inst'[b].seen[m] <= changed'[m]
    <3>1. CASE b = c
      BY <1>2, <3>1
    <3>2. CASE b # c
      <4>1. inst'[b] = inst[b] /\ changed[m] <= changed'[m] /\ changed'[m] \in Nat
        BY <1>2, <2>1, <3>2 DEF TypeOK
      <4> QED BY <1>1, <4>1
    <3> QED BY <3>1, <3>2
  <2> QED BY <1>2, <2>2 DEF SeenBefore
<1> HIDE DEF Goal
<1>3. CASE UNCHANGED vars
  BY <1>1, <1>3 DEF vars, SeenBefore
<1>4. ASSUME NEW c \in Caller, NEW u \in Name \cup {Nobody}, LogIn(c, u) PROVE Goal(c)
  BY <1>1, <1>4 DEF Goal, LogIn
<1>5. ASSUME NEW c \in Caller, Create(c) PROVE Goal(c)
  <2>1. inst'[c].seen = AllChanged /\ \A b \in Caller : b # c => inst'[b] = inst[b]
    BY <1>1, <1>5 DEF Create, Stamped
  <2> QED BY <1>1, <1>5, <2>1 DEF Goal, Create, AllChanged
<1>6. ASSUME NEW c \in Caller, CreateRefused(c) PROVE Goal(c)
  <2>1. inst'[c].seen = inst[c].seen /\ \A b \in Caller : b # c => inst'[b] = inst[b]
    BY <1>1, <1>6 DEF CreateRefused, Stamped, Instance
  <2> QED BY <1>1, <1>6, <2>1 DEF Goal, CreateRefused
<1>7. ASSUME NEW c \in Caller, Fetch(c) \/ Refetch(c) PROVE Goal(c)
  <2>1. inst'[c].seen = changed /\ \A b \in Caller : b # c => inst'[b] = inst[b]
    BY <1>1, <1>7, FetchedRow
  <2> QED BY <1>1, <1>7, <2>1 DEF Goal, Fetch, Refetch
<1>8. ASSUME NEW c \in Caller, Update(c) PROVE Goal(c)
  <2>1. inst'[c].seen = AllChanged /\ \A b \in Caller : b # c => inst'[b] = inst[b]
    BY <1>1, <1>8 DEF Update, Instance
  <2> QED BY <1>1, <1>8, <2>1 DEF Goal, Update, AllChanged
<1>9. ASSUME NEW c \in Caller, Purge(c) PROVE Goal(c)
  <2>1. \A m \in Mark : inst[c].seen[m] <= changed[m] + 1 /\ changed[m] <= changed[m] + 1
    BY <1>1
  <2> QED BY <1>1, <1>9, <2>1 DEF Goal, Purge, AllChanged
<1>10. ASSUME NEW c \in Caller, NEW m \in Mark, NEW yes \in BOOLEAN, NEW heard \in BOOLEAN,
              Asked(c, m, yes, heard), UNCHANGED changed
       PROVE  Goal(c)
  BY <1>1, <1>10, AskedKeeps DEF Goal
<1>11. ASSUME NEW c \in Caller, NEW m \in Mark, Check(c, m) PROVE Goal(c)
  BY <1>10, <1>11 DEF Check
<1>12. ASSUME NEW c \in Caller, NEW m \in Mark, NEW on \in BOOLEAN, Start(c, m, on) PROVE Goal(c)
  <2>1. (~on) \in BOOLEAN
    OBVIOUS
  <2> QED BY <1>10, <1>12, <2>1 DEF Start
<1>13. ASSUME NEW c \in Caller, Write(c) PROVE Goal(c)
  <2>1. PICK k \in call[c] : Write(c)!(k)
    BY <1>13 DEF Write
  <2>2. k.mark \in Mark
    BY DEF LockOK, TypeOK, Call
  <2> DEFINE now == IF Found(c) THEN changed[k.mark] + 1 ELSE inst[c].seen[k.mark]
  <2>3. inst' = [inst EXCEPT ![c] = Marked(inst[c], k.mark, k.on, user[c], now)]
    BY <2>1
  <2>4. /\ inst'[c].seen = [inst[c].seen EXCEPT ![k.mark] = now]
        /\ \A b \in Caller : b # c => inst'[b] = inst[b]
    BY <1>1, <2>3 DEF Marked, Instance
  <2>5. /\ \A m \in Mark \ {k.mark} : changed'[m] = changed[m] /\ inst'[c].seen[m] = inst[c].seen[m]
        /\ inst'[c].seen[k.mark] = now
        /\ changed'[k.mark] = IF Found(c) THEN now ELSE changed[k.mark]
    BY <1>1, <2>1, <2>2, <2>4 DEF Instance
  <2>6. changed[k.mark] <= changed'[k.mark] /\ now <= changed'[k.mark]
    BY <1>1, <2>2, <2>5
  <2> QED BY <1>1, <2>4, <2>5, <2>6 DEF Goal
<1>14. ASSUME NEW c \in Caller, WriteFails(c) PROVE Goal(c)
  BY <1>1, <1>14 DEF Goal, WriteFails
<1> QED
  BY <1>2, <1>3, <1>4, <1>5, <1>6, <1>7, <1>8, <1>9, <1>11, <1>12, <1>13, <1>14 DEF Next

\* Names: a row and instances name who has signed, whatever moves names.
LEMMA NamesStep == LockOK /\ [Next]_vars => NamesSigner' /\ InstancesName'
<1> SUFFICES ASSUME LockOK, [Next]_vars PROVE NamesSigner' /\ InstancesName'
  OBVIOUS
<1> DEFINE Signer(m, who) == who # NoPerson => \E on \in BOOLEAN : <<m, who, on>> \in signed'
<1>1. /\ \A c \in Caller : inst[c] \in Instance
      /\ inst \in [Caller -> Instance]
      /\ Stored => row \in Columns
  BY DEF LockOK, TypeOK, Stored
<1>2. /\ \A m \in Mark : Stored => Signer(m, row.by[m])
      /\ \A c \in Caller, m \in Mark : Signer(m, inst[c].by[m])
      /\ \A m \in Mark : Signer(m, NoPerson)
  BY SignedGrows DEF LockOK, NamesSigner, InstancesName
<1> HIDE DEF Signer
<1> DEFINE Goal(c) ==
      /\ \A m \in Mark : (Stored' => Signer(m, row'.by[m])) /\ Signer(m, inst'[c].by[m])
      /\ \A b \in Caller : b # c => inst'[b] = inst[b]
<1>3. ASSUME NEW c \in Caller, Goal(c) PROVE NamesSigner' /\ InstancesName'
  <2>1. \A b \in Caller, m \in Mark : Signer(m, inst'[b].by[m])
    BY <1>2, <1>3
  <2> QED BY <1>3, <2>1 DEF NamesSigner, InstancesName, Signer
<1> HIDE DEF Goal
<1>4. CASE UNCHANGED vars
  BY <1>2, <1>4 DEF vars, NamesSigner, InstancesName, Signer, Stored
<1>5. ASSUME NEW c \in Caller, NEW u \in Name \cup {Nobody}, LogIn(c, u) PROVE Goal(c)
  BY <1>2, <1>5 DEF Goal, LogIn, Stored
<1>6. \A c \in Caller : Stamped(inst[c]).by = NoNames
  BY <1>1 DEF Stamped, Instance
<1>7. ASSUME NEW c \in Caller, Create(c) PROVE Goal(c)
  <2>1. inst'[c].by = NoNames /\ \A b \in Caller : b # c => inst'[b] = inst[b]
    BY <1>1, <1>6, <1>7 DEF Create, Stamped
  <2>2. row'.by = NoNames
    BY <1>6, <1>7 DEF Create
  <2> QED BY <1>2, <2>1, <2>2 DEF Goal, NoNames
<1>8. ASSUME NEW c \in Caller, CreateRefused(c) PROVE Goal(c)
  <2>1. inst'[c].by = NoNames /\ \A b \in Caller : b # c => inst'[b] = inst[b]
    BY <1>1, <1>6, <1>8 DEF CreateRefused
  <2> QED BY <1>2, <1>8, <2>1 DEF Goal, NoNames, CreateRefused, Stored
<1>9. ASSUME NEW c \in Caller, Fetch(c) \/ Refetch(c) PROVE Goal(c)
  BY <1>2, <1>9, FetchedRow DEF Goal, Fetch, Refetch, Stored
<1>10. ASSUME NEW c \in Caller, Update(c) PROVE Goal(c)
  <2>1. inst'[c].by = inst[c].by /\ \A b \in Caller : b # c => inst'[b] = inst[b]
    BY <1>1, <1>10 DEF Update, Instance
  <2>2. row'.by = inst[c].by
    BY <1>10 DEF Update
  <2> QED BY <1>2, <2>1, <2>2 DEF Goal
<1>11. ASSUME NEW c \in Caller, Purge(c) PROVE Goal(c)
  BY <1>2, <1>11 DEF Goal, Purge, Stored
<1>12. ASSUME NEW c \in Caller, NEW m \in Mark, NEW yes \in BOOLEAN, NEW heard \in BOOLEAN,
              Asked(c, m, yes, heard), UNCHANGED row
       PROVE  Goal(c)
  BY <1>2, <1>12, AskedKeeps DEF Goal, Stored
<1>13. ASSUME NEW c \in Caller, NEW m \in Mark, Check(c, m) PROVE Goal(c)
  BY <1>12, <1>13 DEF Check
<1>14. ASSUME NEW c \in Caller, NEW m \in Mark, NEW on \in BOOLEAN, Start(c, m, on) PROVE Goal(c)
  <2>1. (~on) \in BOOLEAN
    OBVIOUS
  <2> QED BY <1>12, <1>14, <2>1 DEF Start
<1>15. ASSUME NEW c \in Caller, Write(c) PROVE Goal(c)
  <2>1. PICK k \in call[c] : Write(c)!(k)
    BY <1>15 DEF Write
  <2>2. k.mark \in Mark /\ k.on \in BOOLEAN /\ user[c] \in Name
    BY DEF LockOK, TypeOK, Call
  <2>3. Signer(k.mark, user[c])
    <3>1. <<k.mark, user[c], k.on>> \in signed'
      BY <2>1
    <3> QED BY <2>2, <3>1 DEF Signer
  <2> DEFINE now == IF Found(c) THEN changed[k.mark] + 1 ELSE inst[c].seen[k.mark]
  <2>4. inst' = [inst EXCEPT ![c] = Marked(inst[c], k.mark, k.on, user[c], now)]
    BY <2>1
  <2>5. /\ inst'[c].by = [inst[c].by EXCEPT ![k.mark] = user[c]]
        /\ \A b \in Caller : b # c => inst'[b] = inst[b]
    BY <1>1, <2>4 DEF Marked, Instance
  <2>6. \A m \in Mark : Signer(m, inst'[c].by[m])
    BY <1>1, <1>2, <2>2, <2>3, <2>5 DEF Instance
  <2>7. \A m \in Mark : Stored' => Signer(m, row'.by[m])
    <3>1. CASE Found(c)
      <4>1. row' = [row EXCEPT !.is[k.mark] = k.on, !.by[k.mark] = user[c]]
        BY <2>1, <3>1
      <4>2. Stored
        BY <3>1 DEF Found
      <4>3. row'.by = [row.by EXCEPT ![k.mark] = user[c]]
        BY <1>1, <4>1, <4>2 DEF Columns
      <4> QED BY <1>1, <1>2, <2>2, <2>3, <4>2, <4>3 DEF Columns
    <3>2. CASE ~Found(c)
      BY <1>2, <2>1, <3>2 DEF Stored
    <3> QED BY <3>1, <3>2
  <2> QED BY <2>5, <2>6, <2>7 DEF Goal
<1>16. ASSUME NEW c \in Caller, WriteFails(c) PROVE Goal(c)
  BY <1>2, <1>16 DEF Goal, WriteFails, Stored
<1> QED
  BY <1>3, <1>4, <1>5, <1>7, <1>8, <1>9, <1>10, <1>11, <1>13, <1>14, <1>15, <1>16 DEF Next

\* Every step keeps what instances remember of marks nobody wrote since.
LEMMA FreshStep == LockOK /\ [Next]_vars => FreshAgrees' /\ AnswerKept'
<1> SUFFICES ASSUME LockOK, [Next]_vars PROVE FreshAgrees' /\ AnswerKept'
  OBVIOUS
<1>1. /\ \A c \in Caller : inst[c] \in Instance
      /\ inst \in [Caller -> Instance] /\ call \in [Caller -> {{}} \cup {{k} : k \in Call}]
      /\ \A m \in Mark : changed[m] \in Nat /\ changed'[m] \in Nat /\ changed[m] <= changed'[m]
      /\ SeenBefore'
      /\ \A c \in Caller : Found(c) => row \in Columns
  BY TypeStep, SeenStep DEF LockOK, TypeOK, Found, Stored
<1> DEFINE Goal(c) ==
      /\ \A b \in Caller : b # c => inst'[b] = inst[b] /\ call'[b] = call[b]
      /\ \A m \in Mark : changed'[m] = changed[m] /\ Stored' => Stored /\ row'.is[m] = row.is[m]
      /\ \A m \in Mark : (Found(c)' /\ inst'[c].seen[m] = changed'[m]) => inst'[c].is[m] = row'.is[m]
      /\ \A k \in call'[c] : k.heard => inst'[c].is[k.mark] = ~k.on
<1>2. ASSUME NEW c \in Caller, Goal(c) PROVE FreshAgrees' /\ AnswerKept'
  BY <1>1, <1>2, MarksKept DEF Goal
<1>3. \A c \in Caller, m \in Mark :
        (Found(c) /\ inst[c].seen[m] = changed[m]) => inst[c].is[m] = row.is[m]
  BY DEF LockOK, FreshAgrees
<1>4. \A c \in Caller : \A k \in call[c] : k.heard => inst[c].is[k.mark] = ~k.on
  BY DEF LockOK, AnswerKept
<1> HIDE DEF Goal
<1>5. CASE UNCHANGED vars
  BY <1>3, <1>4, <1>5 DEF vars, FreshAgrees, AnswerKept, Found, Stored
<1>6. ASSUME NEW c \in Caller, NEW u \in Name \cup {Nobody}, LogIn(c, u) PROVE Goal(c)
  BY <1>3, <1>4, <1>6 DEF Goal, LogIn, Found, Stored
<1>7. ASSUME NEW c \in Caller, Create(c) PROVE Goal(c)
  <2>1. Stamped(inst[c]).is = inst[c].is /\ Stamped(inst[c]) \in Instance
    BY <1>1 DEF Stamped, Instance, NoNames, Mark, Name
  <2>2. /\ inst'[c].is = inst[c].is
        /\ \A b \in Caller : b # c => inst'[b] = inst[b] /\ call'[b] = call[b]
    BY <1>1, <1>7, <2>1 DEF Create, Instance
  <2>3. call'[c] = {} /\ row'.is = inst[c].is
    BY <1>7, <2>1 DEF Create, Idle
  <2>4. \A m \in Mark : changed'[m] # changed[m]
    BY <1>1, <1>7 DEF Create, AllChanged
  <2> QED BY <2>2, <2>3, <2>4 DEF Goal
<1>8. ASSUME NEW c \in Caller, CreateRefused(c) PROVE Goal(c)
  <2>1. /\ inst'[c].is = inst[c].is /\ inst'[c].seen = inst[c].seen /\ inst'[c].new = inst[c].new
        /\ \A b \in Caller : b # c => inst'[b] = inst[b]
    BY <1>1, <1>8 DEF CreateRefused, Stamped, Instance
  <2> QED BY <1>3, <1>4, <1>8, <2>1 DEF Goal, CreateRefused, Found, Stored
<1>9. ASSUME NEW c \in Caller, Fetch(c) \/ Refetch(c) PROVE Goal(c)
  <2>1. row' = row /\ changed' = changed /\ call' = call /\ call[c] = {}
    BY <1>9 DEF Fetch, Refetch, Idle
  <2> QED BY <1>9, <2>1, FetchedRow DEF Goal, Stored
<1>10. ASSUME NEW c \in Caller, Update(c) PROVE Goal(c)
  <2>1. /\ inst'[c].is = inst[c].is
        /\ \A b \in Caller : b # c => inst'[b] = inst[b]
    BY <1>1, <1>10 DEF Update, Instance
  <2>2. row'.is = inst[c].is /\ call' = call /\ call[c] = {}
    BY <1>10 DEF Update, Idle
  <2>3. \A m \in Mark : changed'[m] # changed[m]
    BY <1>1, <1>10 DEF Update, AllChanged
  <2> QED BY <2>1, <2>2, <2>3 DEF Goal
<1>11. ASSUME NEW c \in Caller, Purge(c) PROVE Goal(c)
  BY <1>11 DEF Goal, Purge, Found, Stored, Idle
<1>12. ASSUME NEW c \in Caller, NEW m \in Mark, NEW yes \in BOOLEAN, NEW heard \in BOOLEAN,
              Asked(c, m, yes, heard), UNCHANGED <<row, changed>>, call[c] = {},
              \A b \in Caller : b # c => call'[b] = call[b],
              \A k \in call'[c] : k.mark = m /\ k.heard = heard /\ yes = ~k.on
       PROVE  Goal(c)
  <2>1. ASSUME NEW x \in Mark, Found(c)', inst'[c].seen[x] = changed'[x]
        PROVE  inst'[c].is[x] = row'.is[x]
    <3>1. inst'[c].new = inst[c].new
      BY <1>12, AskedKeeps
    <3>2. Found(c)
      BY <1>12, <2>1, <3>1 DEF Found, Stored
    <3> QED BY <1>3, <1>12, <2>1, <3>2, AskedKeeps
  <2>2. ASSUME NEW k \in call'[c], k.heard PROVE inst'[c].is[k.mark] = ~k.on
    <3>1. k.mark = m /\ heard /\ yes = ~k.on
      BY <1>12, <2>2
    <3>2. heard => inst'[c].is[m] = yes
      BY ONLY <1>12, AskedKeeps, LockOK, Zenon
    <3> QED BY <3>1, <3>2
  <2>3. \A b \in Caller : b # c => inst'[b] = inst[b]
    BY <1>12, AskedKeeps
  <2> QED BY <1>12, <2>1, <2>2, <2>3 DEF Goal, Stored
<1>13. ASSUME NEW c \in Caller, NEW m \in Mark, Check(c, m) PROVE Goal(c)
  <2>1. PICK yes \in BOOLEAN, heard \in BOOLEAN : Asked(c, m, yes, heard)
    BY <1>13 DEF Check
  <2> QED BY <1>12, <1>13, <2>1 DEF Check, Idle
<1>14. ASSUME NEW c \in Caller, NEW m \in Mark, NEW on \in BOOLEAN, Start(c, m, on) PROVE Goal(c)
  <2>1. PICK heard \in BOOLEAN : Start(c, m, on)!(heard)
    BY <1>14 DEF Start
  <2>2. (~on) \in BOOLEAN
    OBVIOUS
  <2>3. /\ call'[c] = {[mark |-> m, on |-> on, heard |-> heard]}
        /\ \A b \in Caller : b # c => call'[b] = call[b]
    BY <1>1, <2>1
  <2>4. \A k \in call'[c] : k.mark = m /\ k.heard = heard /\ (~on) = ~k.on
    BY <2>3
  <2>5. Asked(c, m, ~on, heard) /\ UNCHANGED <<row, changed>> /\ call[c] = {}
    BY <2>1 DEF Idle
  <2>6. PICK yes \in BOOLEAN :
          /\ Asked(c, m, yes, heard)
          /\ \A k \in call'[c] : k.mark = m /\ k.heard = heard /\ yes = ~k.on
    BY <2>2, <2>4, <2>5
  <2>7. UNCHANGED <<row, changed>> /\ call[c] = {}
    BY <2>5
  <2>8. \A b \in Caller : b # c => call'[b] = call[b]
    BY <2>3
  <2> QED BY <1>12, <2>6, <2>7, <2>8
<1>15. ASSUME NEW c \in Caller, Write(c) PROVE Goal(c)
  <2>1. PICK k \in call[c] : Write(c)!(k)
    BY <1>15 DEF Write
  <2>2. k.mark \in Mark /\ k.on \in BOOLEAN
    BY DEF LockOK, TypeOK, Call
  <2> DEFINE now == IF Found(c) THEN changed[k.mark] + 1 ELSE inst[c].seen[k.mark]
             o == Marked(inst[c], k.mark, k.on, user[c], now)
  <2>3. inst' = [inst EXCEPT ![c] = o] /\ call' = [call EXCEPT ![c] = {}]
    BY <2>1
  <2>4. /\ o.new = inst[c].new /\ o.is[k.mark] = k.on
        /\ \A m \in Mark : m # k.mark => o.is[m] = inst[c].is[m] /\ o.seen[m] = inst[c].seen[m]
    BY <1>1, <2>2 DEF Marked, Instance
  <2>5. inst'[c] = o /\ call'[c] = {}
        /\ \A b \in Caller : b # c => inst'[b] = inst[b] /\ call'[b] = call[b]
    BY <1>1, <2>3
  <2> HIDE DEF o
  <2>6. CASE Found(c)
    <3>1. /\ row' = [row EXCEPT !.is[k.mark] = k.on, !.by[k.mark] = user[c]]
          /\ changed' = [changed EXCEPT ![k.mark] = changed[k.mark] + 1]
      BY <2>1, <2>6
    <3>2. /\ row'.is[k.mark] = k.on
          /\ \A m \in Mark : m # k.mark => row'.is[m] = row.is[m]
      BY <1>1, <2>2, <2>6, <3>1 DEF Columns
    <3>3. /\ changed'[k.mark] # changed[k.mark]
          /\ \A m \in Mark : m # k.mark => changed'[m] = changed[m]
      BY <1>1, <2>2, <3>1 DEF LockOK, TypeOK
    <3> QED BY <1>3, <2>4, <2>5, <2>6, <3>2, <3>3 DEF Goal, Found
  <2>7. CASE ~Found(c)
    <3>1. row' = row /\ changed' = changed
      BY <2>1, <2>7
    <3> QED BY <2>4, <2>5, <2>7, <3>1 DEF Goal, Found, Stored
  <2> QED BY <2>6, <2>7
<1>16. ASSUME NEW c \in Caller, WriteFails(c) PROVE Goal(c)
  BY <1>1, <1>3, <1>16 DEF Goal, WriteFails, Found, Stored
<1> QED
  BY <1>2, <1>5, <1>6, <1>7, <1>8, <1>9, <1>10, <1>11, <1>13, <1>14, <1>15, <1>16 DEF Next

-----------------------------------------------------------------------------
(***************************************************************************)
(* The theorems                                                            *)
(***************************************************************************)
\* In the first states nobody has written, seen or signed anything.
LEMMA InitOK == Init => LockOK
<1> SUFFICES ASSUME Init PROVE LockOK
  OBVIOUS
<1>1. TypeOK
  <2>1. New \in Instance
    BY DEF New, Instance, NoMarks, NoNames, Name
  <2> QED BY <2>1, BoundAssumption DEF Init, TypeOK, Name
<1>2. \A c \in Caller : inst[c] = New /\ call[c] = {}
  BY DEF Init
<1>3. ~Stored
  BY DEF Init, Stored
<1>4. SeenBefore /\ InstancesName
  BY <1>2 DEF Init, SeenBefore, InstancesName, New, NoNames
<1> QED BY <1>1, <1>2, <1>3, <1>4 DEF LockOK, FreshAgrees, AnswerKept, NamesSigner, Found

\* The inductive invariant.
LEMMA Inductive == Spec => []LockOK
<1>1. LockOK /\ [Next]_vars => LockOK'
  BY TypeStep, SeenStep, FreshStep, NamesStep DEF LockOK
<1> QED BY InitOK, <1>1, PTL DEF Spec

\* Rows, instances, users and calls have their types, and whoever is in a
\* call that passed its check is logged in as a person or as nobody in
\* particular (midgard_object.c 3339-3918).
THEOREM TypeInvariant == Spec => []TypeOK
<1>1. LockOK => TypeOK
  BY DEF LockOK
<1> QED BY Inductive, <1>1, PTL

\* lock, unlock, approve and unapprove, broken off at any point, leave an
\* instance that holds what the row says of each mark nobody has written
\* since (midgard_object.c 3339-3918).
THEOREM FreshInstances == Spec => []FreshAgrees
<1>1. LockOK => FreshAgrees
  BY DEF LockOK
<1> QED BY Inductive, <1>1, PTL

\* The person a row names as its locker or approver has made or taken away
\* the mark, whatever old instances were written back (midgard_metadata.c 33,
\* midgard_core_query.c 698).
THEOREM SignersNamed == Spec => []NamesSigner
<1>1. LockOK => NamesSigner
  BY DEF LockOK
<1> QED BY Inductive, <1>1, PTL

\* An object that is locked or approved is locked or approved again only by
\* a caller whose instance is older than the mark (midgard_object.c 3663).
THEOREM MarkTakenOnce == Spec => TakenOnce
<1> DEFINE Once == \A c \in Caller, m \in Mark :
      (Grants(c, m) /\ Found(c) /\ row.is[m]) => inst[c].seen[m] < changed[m]
<1>1. ASSUME LockOK PROVE Once
  <2> SUFFICES ASSUME NEW c \in Caller, NEW m \in Mark, Grants(c, m), Found(c), row.is[m]
               PROVE  inst[c].seen[m] < changed[m]
    OBVIOUS
  <2>1. PICK k \in call[c] : k.mark = m /\ k.on /\ k.heard
    BY DEF Grants
  <2>2. ~inst[c].is[m]
    BY <1>1, <2>1 DEF LockOK, AnswerKept
  <2>3. inst[c].seen[m] # changed[m]
    BY <1>1, <2>2 DEF LockOK, FreshAgrees
  <2>4. inst[c].seen[m] <= changed[m] /\ inst[c].seen[m] \in Nat /\ changed[m] \in Nat
    BY <1>1 DEF LockOK, TypeOK, SeenBefore, Instance
  <2> QED BY <2>3, <2>4
<1>2. LockOK => [Once]_vars
  BY <1>1
<1> QED BY Inductive, <1>2, PTL DEF TakenOnce

\* A row that is stored has been written.
MarksWritten == Stored => \A m \in Mark : changed[m] # 0

\* A row comes about by create alone, which writes every column.
LEMMA MarksWrittenStep == LockOK /\ MarksWritten /\ [Next]_vars => MarksWritten'
<1> SUFFICES ASSUME LockOK, MarksWritten, [Next]_vars PROVE MarksWritten'
  OBVIOUS
<1>1. \A m \in Mark : changed[m] \in Nat /\ changed'[m] \in Nat /\ changed[m] <= changed'[m]
  BY TypeStep, SeenStep DEF LockOK, TypeOK
<1>2. CASE Stored
  BY <1>1, <1>2 DEF MarksWritten
<1>3. CASE ~Stored /\ Stored'
  <2>1. PICK c \in Caller : Create(c)
    BY <1>3 DEF Next, vars, LogIn, CreateRefused, Fetch, Refetch, Update, Purge, Check, Start,
                Write, WriteFails, Stored, Found
  <2> QED BY <1>1, <2>1 DEF Create, AllChanged, MarksWritten
<1> QED BY <1>2, <1>3 DEF MarksWritten

\* A mark is lost only to a call that takes it away or to an update from an
\* instance older than the mark (midgard_core_query.c 801).
THEOREM MarksLostUnseen == Spec => LostUnseen
<1> DEFINE Lost == \A m \in Mark :
      (Stored /\ Stored' /\ row.is[m] /\ ~row'.is[m]) => \E c \in Caller :
          /\ inst'[c] # inst[c]
          /\ \/ \E k \in call[c] : k.mark = m /\ ~k.on
             \/ inst[c].seen[m] < changed[m]
<1>1. ASSUME LockOK, MarksWritten, [Next]_vars PROVE Lost
  <2> SUFFICES ASSUME NEW m \in Mark, Stored, Stored', row.is[m], ~row'.is[m]
               PROVE  \E c \in Caller :
                        /\ inst'[c] # inst[c]
                        /\ \/ \E k \in call[c] : k.mark = m /\ ~k.on
                           \/ inst[c].seen[m] < changed[m]
    OBVIOUS
  <2>1. /\ inst \in [Caller -> Instance] /\ \A c \in Caller : inst[c] \in Instance
        /\ \A c \in Caller : /\ inst[c].seen[m] \in Nat /\ changed[m] \in Nat
                             /\ inst[c].seen[m] <= changed[m]
    BY <1>1 DEF LockOK, TypeOK, SeenBefore, Instance
  <2>2. PICK c \in Caller : Create(c) \/ Update(c) \/ Write(c)
    BY <1>1 DEF Next, vars, LogIn, CreateRefused, Fetch, Refetch, Purge, Check, Start,
                WriteFails, Stored
  <2>3. ~Create(c)
    BY <1>1 DEF Create, MarksWritten
  <2>4. CASE Update(c)
    <3>1. Found(c) /\ row'.is = inst[c].is
      BY <2>4 DEF Update
    <3>2. inst[c].seen[m] < changed[m]
      BY <1>1, <2>1, <3>1 DEF LockOK, FreshAgrees
    <3>3. inst'[c].seen = AllChanged
      BY <2>1, <2>4 DEF Update, Instance
    <3>4. inst'[c].seen[m] # inst[c].seen[m]
      BY <2>1, <3>3 DEF AllChanged
    <3> QED BY <3>2, <3>4
  <2>5. CASE Write(c)
    <3>1. PICK k \in call[c] : Write(c)!(k)
      BY <2>5 DEF Write
    <3>2. k.mark \in Mark /\ k.on \in BOOLEAN /\ row \in Columns
      BY <1>1 DEF LockOK, TypeOK, Call, Stored
    <3>3. /\ Found(c)
          /\ row' = [row EXCEPT !.is[k.mark] = k.on, !.by[k.mark] = user[c]]
      BY <3>1
    <3>4. row'.is = [row.is EXCEPT ![k.mark] = k.on]
      BY <3>2, <3>3 DEF Columns
    <3>5. k.mark = m /\ ~k.on
      BY <3>2, <3>4 DEF Columns
    <3> DEFINE o == Marked(inst[c], k.mark, k.on, user[c], changed[m] + 1)
    <3>6. inst' = [inst EXCEPT ![c] = o]
      BY <3>1, <3>3, <3>5
    <3>7. o.seen[m] = changed[m] + 1
      BY <2>1, <3>2, <3>5 DEF Marked, Instance
    <3> HIDE DEF o
    <3>8. inst'[c].seen[m] # inst[c].seen[m]
      BY <2>1, <3>6, <3>7
    <3> QED BY <3>5, <3>8
  <2> QED BY <2>2, <2>3, <2>4, <2>5
<1>2. LockOK /\ MarksWritten /\ [Next]_vars => [Lost]_vars
  BY <1>1
<1>3. Init => MarksWritten
  BY DEF Init, MarksWritten, Stored
<1>4. LockOK /\ MarksWritten /\ [Next]_vars => MarksWritten'
  BY MarksWrittenStep
<1> QED BY Inductive, <1>2, <1>3, <1>4, PTL DEF Spec, LostUnseen

-----------------------------------------------------------------------------
(***************************************************************************)
(* Parameters                                                              *)
(***************************************************************************)
Alike(S) == \A i, j \in S : i = j

\* A name that was not raced is stored once at most, as the last set said.
Shows(n) ==
    /\ Alike(Live(n))
    /\ told[n] \in ParamValue => \E i \in Live(n) : params[i].value = told[n]
    /\ told[n] = "gone" => Live(n) = {}

\* What an instance remembers of a name it has not missed a write of.
Tells(c, n) ==
    /\ (n \in DOMAIN c) = (Live(n) # {})
    /\ n \in DOMAIN c => \E i \in Live(n) : c[n] = params[i].value

\* A call inserts what its collector does not know, and writes a row of the name.
TasksOK == \A h \in Holder : \A t \in task[h] :
    /\ t.does \in {"insert", "select", "write"} => known[h] # {}
    /\ t.does = "insert" => t.value # "" /\ \A c \in known[h] : t.name \notin DOMAIN c
    /\ t.does = "write" => params[t.row].name = t.name

AllTell == \A h \in Holder : \A c \in known[h] : \A n \in ParamName \ (unseen[h] \cup raced) : Tells(c, n)
AllShow == \A n \in ParamName \ raced : Shows(n)

ParamsOK == ParamsTypeOK /\ TasksOK /\ AllTell /\ AllShow

\* The task of a call, by what it does.
LEMMA TaskOf ==
    ASSUME ParamsTypeOK, NEW h \in Holder, NEW t \in task[h]
    PROVE  /\ task[h] = {t}
           /\ t.does \in {"insert", "select", "write"} =>
                  /\ t \in SetTask /\ t.name \in ParamName /\ t.value \in ParamValue \cup {""}
                  /\ t.does = "write" => t.row \in DOMAIN params
           /\ t.does \in {"delete", "purge"} => t \in RemoveTask /\ t.list \subseteq DOMAIN params
<1>1. t \in SetTask \cup RemoveTask /\ task[h] = {t}
  BY DEF ParamsTypeOK
<1>2. ASSUME t \in SetTask
      PROVE  /\ t.does \in {"insert", "select", "write"}
             /\ t.name \in ParamName /\ t.value \in ParamValue \cup {""}
             /\ t.does = "write" => t.row \in DOMAIN params
  BY <1>2 DEF SetTask
<1>3. ASSUME t \in RemoveTask
      PROVE  t.does \in {"delete", "purge"} /\ t.list \subseteq DOMAIN params
  BY <1>3 DEF RemoveTask
<1> QED
  BY <1>1, <1>2, <1>3

LEMMA RowOf ==
    ASSUME ParamsTypeOK, NEW i \in DOMAIN params
    PROVE  /\ i \in Nat /\ i <= Len(params) /\ params[i] \in Row
           /\ params[i].name \in ParamName /\ params[i].value \in ParamValue
           /\ params[i].state \in {"live", "deleted", "purged"}
<1>1. params \in Seq(Row) /\ i \in 1 .. Len(params)
  BY DEF ParamsTypeOK
<1>2. params[i] \in Row
  BY <1>1, ElementOfSeq
<1> QED
  BY <1>1, <1>2 DEF Row

\* A row that is added, and one that is written.
LEMMA RowAdded ==
    ASSUME ParamsTypeOK, NEW n \in ParamName, NEW v \in ParamValue, NEW r,
           r = [name |-> n, value |-> v, state |-> "live"], Len(params) < MaxParams,
           params' = Append(params, r), NEW k, k = Len(params) + 1
    PROVE  /\ params' \in Seq(Row) /\ Len(params') =< MaxParams
           /\ DOMAIN params' = DOMAIN params \cup {k} /\ k \notin DOMAIN params
           /\ \A i \in DOMAIN params : params'[i] = params[i]
           /\ params'[k].name = n /\ params'[k].value = v
           /\ \A m \in ParamName : m # n => Live(m)' = Live(m)
           /\ Live(n)' = Live(n) \cup {k}
<1>1. r \in Row
  BY DEF Row
<1>2. params \in Seq(Row) /\ Len(params) \in Nat /\ DOMAIN params = 1 .. Len(params)
  BY DEF ParamsTypeOK
<1>3. /\ params' \in Seq(Row) /\ Len(params') = Len(params) + 1
      /\ \A i \in 1 .. Len(params) : params'[i] = params[i]
      /\ params'[k] = r
  BY <1>1, <1>2, AppendProperties
<1>4. DOMAIN params' = 1 .. (Len(params) + 1)
  BY <1>3
<1>5. DOMAIN params' = DOMAIN params \cup {k} /\ k \notin DOMAIN params
  BY <1>2, <1>4
<1>6. Len(params') =< MaxParams
  <2>1. MaxParams \in Nat
    BY ParametersAssumption
  <2>2. Len(params) \in Nat /\ Len(params') = Len(params) + 1
    BY <1>2, <1>3
  <2> QED
    BY <2>1, <2>2
<1>7. r.name = n /\ r.value = v /\ r.state = "live"
  OBVIOUS
<1>8. \A i \in DOMAIN params : params'[i] = params[i]
  BY <1>2, <1>3
<1>9. \A m \in ParamName : m # n => Live(m)' = Live(m)
  BY <1>3, <1>5, <1>7, <1>8 DEF Live
<1>10. Live(n)' = Live(n) \cup {k}
  BY <1>3, <1>5, <1>7, <1>8 DEF Live
<1> QED
  BY <1>3, <1>5, <1>6, <1>7, <1>8, <1>9, <1>10

Rewrites(k, v, s) ==
    params' = [params EXCEPT ![k] = [name |-> params[k].name, value |-> v, state |-> s]]

LEMMA RowWritten ==
    ASSUME ParamsTypeOK, NEW k \in DOMAIN params, NEW v \in ParamValue,
           NEW s, s \in {"live", "deleted", "purged"}, Rewrites(k, v, s)
    PROVE  /\ params' \in Seq(Row) /\ Len(params') = Len(params)
           /\ DOMAIN params' = DOMAIN params
           /\ \A i \in DOMAIN params : i # k => params'[i] = params[i]
           /\ \A i \in DOMAIN params : params'[i].name = params[i].name
           /\ params'[k].value = v /\ params'[k].state = s
           /\ \A m \in ParamName : m # params[k].name => Live(m)' = Live(m)
           /\ s = "live" => Live(params[k].name)' = Live(params[k].name) \cup {k}
           /\ s # "live" => Live(params[k].name)' = Live(params[k].name) \ {k}
<1>0. PICK r : r = [name |-> params[k].name, value |-> v, state |-> s]
  OBVIOUS
<1>1. r \in Row /\ r.name = params[k].name /\ r.value = v /\ r.state = s
  BY <1>0, RowOf DEF Row
<1>2. params \in Seq(Row) /\ DOMAIN params = 1 .. Len(params) /\ Len(params) \in Nat
  BY DEF ParamsTypeOK
<1>3. /\ params' \in Seq(Row) /\ Len(params') = Len(params)
      /\ \A i \in 1 .. Len(params) : params'[i] = IF i = k THEN r ELSE params[i]
  BY <1>0, <1>1, <1>2, ExceptSeq DEF Rewrites
<1>4. DOMAIN params' = DOMAIN params
  BY <1>2, <1>3
<1>5. /\ \A i \in DOMAIN params : i # k => params'[i] = params[i]
      /\ params'[k] = r
  BY <1>2, <1>3
<1>6. \A m \in ParamName : m # params[k].name => Live(m)' = Live(m)
  BY <1>1, <1>4, <1>5 DEF Live
<1>7. /\ s = "live" => Live(params[k].name)' = Live(params[k].name) \cup {k}
      /\ s # "live" => Live(params[k].name)' = Live(params[k].name) \ {k}
  BY <1>1, <1>4, <1>5 DEF Live
<1> QED
  BY <1>1, <1>3, <1>4, <1>5, <1>6, <1>7

\* Collectors.
LEMMA CollectorOf ==
    ASSUME NEW c \in Collector
    PROVE  /\ DOMAIN c \subseteq ParamName /\ \A n \in DOMAIN c : c[n] \in ParamValue
           /\ c \in [DOMAIN c -> ParamValue]
BY DEF Collector

LEMMA CollectorIs ==
    ASSUME NEW names \in SUBSET ParamName, NEW c \in [names -> ParamValue]
    PROVE  c \in Collector
BY DEF Collector

\* Two collectors agree about the other names.
ButFor(n, c, d) == \A m \in ParamName : m # n =>
    (m \in DOMAIN d) = (m \in DOMAIN c) /\ (m \in DOMAIN c => d[m] = c[m])

LEMMA KeptOK ==
    ASSUME NEW c \in Collector, NEW n \in ParamName, NEW v \in ParamValue, NEW d, d = Kept(c, n, v)
    PROVE  /\ d \in Collector /\ n \in DOMAIN d /\ d[n] = v
           /\ ButFor(n, c, d)
<1>1. d = [m \in DOMAIN c \cup {n} |-> IF m = n THEN v ELSE c[m]]
  BY DEF Kept
<1>2. DOMAIN d = DOMAIN c \cup {n} /\ DOMAIN d \in SUBSET ParamName
  BY <1>1, CollectorOf
<1>3. d \in [DOMAIN d -> ParamValue]
  BY <1>1, <1>2, CollectorOf
<1>4. d \in Collector
  BY <1>2, <1>3, CollectorIs
<1> QED
  BY <1>1, <1>2, <1>4 DEF ButFor

LEMMA ForgottenOK ==
    ASSUME NEW c \in Collector, NEW n \in ParamName, NEW d, d = Forgotten(c, n)
    PROVE  /\ d \in Collector /\ n \notin DOMAIN d
           /\ ButFor(n, c, d)
<1>1. d = [m \in DOMAIN c \ {n} |-> c[m]]
  BY DEF Forgotten
<1>2. DOMAIN d = DOMAIN c \ {n} /\ DOMAIN d \in SUBSET ParamName
  BY <1>1, CollectorOf
<1>3. d \in [DOMAIN d -> ParamValue]
  BY <1>1, <1>2, CollectorOf
<1>4. d \in Collector
  BY <1>2, <1>3, CollectorIs
<1> QED
  BY <1>1, <1>2, <1>4 DEF ButFor

\* A name whose rows are let alone.
Same(m) == Live(m)' = Live(m) /\ \A i \in Live(m) : params'[i].value = params[i].value

LEMMA TellsSame ==
    ASSUME NEW c, NEW d, NEW m, Same(m), Tells(c, m),
           (m \in DOMAIN d) = (m \in DOMAIN c), m \in DOMAIN c => d[m] = c[m]
    PROVE  Tells(d, m)'
<1>1. (m \in DOMAIN d) = (Live(m)' # {})
  BY DEF Same, Tells
<1>2. m \in DOMAIN d => \E i \in Live(m)' : d[m] = params'[i].value
  BY DEF Same, Tells
<1> QED
  BY <1>1, <1>2 DEF Tells

LEMMA ShowsSame ==
    ASSUME NEW m, Same(m), Shows(m), told'[m] = told[m]
    PROVE  Shows(m)'
<1>1. Alike(Live(m)')
  BY DEF Same, Shows
<1>2. told'[m] \in ParamValue => \E i \in Live(m)' : params'[i].value = told'[m]
  BY DEF Same, Shows
<1>3. told'[m] = "gone" => Live(m)' = {}
  BY DEF Same, Shows
<1> QED
  BY <1>1, <1>2, <1>3 DEF Shows, Alike

\* Nothing is stored of the other names; what an instance remembers then.
OnlyOf(n) == \A m \in ParamName : m # n => Same(m) /\ told'[m] = told[m]
Learns(h, d) == known' = [known EXCEPT ![h] = {d}]

\* What a statement of set_parameter writes: the name is told by the collector
\* of the instance and is not seen by any other.
LEMMA WriterOK ==
    ASSUME ParamsOK, NEW h \in Holder, NEW n \in ParamName, NEW c, known[h] = {c},
           NEW d, Learns(h, d), Written(n, {h}), raced \subseteq raced',
           OnlyOf(n), ButFor(n, c, d),
           n \notin raced' => Shows(n)',
           n \notin raced' /\ n \notin unseen[h] => Tells(d, n)'
    PROVE  AllTell' /\ AllShow'
<1>1. known'[h] = {d} /\ \A g \in Holder : g # h => known'[g] = known[g]
  BY DEF ParamsOK, ParamsTypeOK, Learns
<1>2. /\ unseen'[h] = unseen[h]
      /\ \A g \in Holder : g # h /\ known[g] # {} => unseen'[g] = unseen[g] \cup {n}
  BY DEF Written
<1>3. AllShow'
  <2>1. ASSUME NEW m \in ParamName, m \notin raced' PROVE Shows(m)'
    <3>1. CASE m = n
      BY <2>1, <3>1
    <3>2. CASE m # n
      <4>1. Shows(m)
        BY <2>1 DEF ParamsOK, AllShow
      <4> QED
        BY <3>2, <4>1, ShowsSame DEF OnlyOf
    <3> QED
      BY <3>1, <3>2
  <2> QED
    BY <2>1 DEF AllShow
<1>4. AllTell'
  <2>1. ASSUME NEW g \in Holder, NEW x \in known'[g], NEW m \in ParamName,
               m \notin unseen'[g], m \notin raced'
        PROVE  Tells(x, m)'
    <3>1. CASE g = h /\ m = n
      BY <1>1, <1>2, <2>1, <3>1
    <3>2. CASE g = h /\ m # n
      <4>1. x = d /\ Tells(c, m)
        BY <1>1, <1>2, <2>1, <3>2 DEF ParamsOK, AllTell
      <4>2. Same(m) /\ (m \in DOMAIN d) = (m \in DOMAIN c) /\ (m \in DOMAIN c => d[m] = c[m])
        BY <3>2 DEF OnlyOf, ButFor
      <4> QED
        BY <4>1, <4>2, TellsSame
    <3>3. CASE g # h
      <4>1. x \in known[g] /\ m # n /\ m \notin unseen[g]
        BY <1>1, <1>2, <2>1, <3>3
      <4>2. Tells(x, m) /\ Same(m)
        BY <2>1, <4>1 DEF ParamsOK, AllTell, OnlyOf
      <4> QED
        BY <4>2, TellsSame
    <3> QED
      BY <3>1, <3>2, <3>3
  <2> QED
    BY <2>1 DEF AllTell
<1> QED
  BY <1>3, <1>4

\* The rows there are stay rows, of the names they have.
RowsStay ==
    /\ params' \in Seq(Row) /\ Len(params') =< MaxParams
    /\ DOMAIN params \subseteq DOMAIN params'
    /\ \A i \in DOMAIN params : params'[i].name = params[i].name

LEMMA TasksGrow ==
    ASSUME DOMAIN params \subseteq DOMAIN params'
    PROVE  SetTask \cup RemoveTask \subseteq (SetTask \cup RemoveTask)'
<1>1. ASSUME NEW t \in SetTask PROVE t \in SetTask'
  BY <1>1 DEF SetTask
<1>2. ASSUME NEW t \in RemoveTask PROVE t \in RemoveTask'
  BY <1>2 DEF RemoveTask
<1> QED
  BY <1>1, <1>2

Turns(h, S) ==
    /\ S \subseteq (SetTask \cup RemoveTask)' /\ \A s, t \in S : s = t
    /\ task' = [task EXCEPT ![h] = S]
Knows(h) ==
    /\ known' \in [Holder -> SUBSET Collector] /\ \A c, d \in known'[h] : c = d
    /\ \A g \in Holder : g # h => known'[g] = known[g]
Able(h, S) == \A t \in S :
    /\ t.does \in {"insert", "select", "write"} => known'[h] # {}
    /\ t.does = "insert" => t.value # "" /\ \A c \in known'[h] : t.name \notin DOMAIN c
    /\ t.does = "write" => params'[t.row].name = t.name

\* One program's call goes on or ends, and its collector is what it is then.
LEMMA CallTypes ==
    ASSUME ParamsOK, RowsStay, NEW h \in Holder, NEW S, Turns(h, S), Knows(h), Able(h, S)
    PROVE  /\ task' \in [Holder -> SUBSET (SetTask \cup RemoveTask)']
           /\ \A g \in Holder : (\A c, d \in known'[g] : c = d) /\ (\A s, t \in task'[g] : s = t)
           /\ TasksOK'
<1>1. /\ task'[h] = S /\ \A g \in Holder : g # h => task'[g] = task[g]
      /\ DOMAIN task' = Holder /\ task' = [g \in Holder |-> task'[g]]
  BY DEF ParamsOK, ParamsTypeOK, Turns
<1>2. \A g \in Holder : task'[g] \subseteq (SetTask \cup RemoveTask)'
  BY <1>1, TasksGrow DEF ParamsOK, ParamsTypeOK, RowsStay, Turns
<1>3. task' \in [Holder -> SUBSET (SetTask \cup RemoveTask)']
  BY <1>1, <1>2
<1>4. ASSUME NEW g \in Holder
      PROVE  (\A c, d \in known'[g] : c = d) /\ (\A s, t \in task'[g] : s = t)
  <2>1. (\A c, d \in known[g] : c = d) /\ (\A s, t \in task[g] : s = t)
    BY DEF ParamsOK, ParamsTypeOK
  <2>2. CASE g = h
    <3>1. task'[g] = S
      BY <1>1, <2>2
    <3> QED
      BY <2>2, <3>1 DEF Turns, Knows
  <2>3. CASE g # h
    <3>1. task'[g] = task[g] /\ known'[g] = known[g]
      BY <1>1, <2>3 DEF Knows
    <3> QED
      BY <2>1, <3>1
  <2> QED
    BY <2>2, <2>3
<1>5. ASSUME NEW g \in Holder, NEW t \in task'[g]
      PROVE  /\ t.does \in {"insert", "select", "write"} => known'[g] # {}
             /\ t.does = "insert" => t.value # "" /\ \A c \in known'[g] : t.name \notin DOMAIN c
             /\ t.does = "write" => params'[t.row].name = t.name
  <2>1. CASE g = h
    BY <1>1, <1>5, <2>1 DEF Able
  <2>2. CASE g # h
    <3>1. t \in task[g] /\ known'[g] = known[g]
      BY <1>1, <1>5, <2>2 DEF Knows
    <3>2. t.does = "write" => t.row \in DOMAIN params
      BY <3>1, TaskOf DEF ParamsOK
    <3> QED
      BY <3>1, <3>2 DEF ParamsOK, TasksOK, RowsStay
  <2> QED
    BY <2>1, <2>2
<1> QED
  BY <1>3, <1>4, <1>5 DEF TasksOK

\* A statement that writes a name and ends the call.
LEMMA WriterTypes ==
    ASSUME ParamsOK, RowsStay, NEW h \in Holder, NEW n \in ParamName, NEW d \in Collector,
           Learns(h, d), Returns(h), Written(n, {h}),
           raced' \in {raced, raced \cup {n}}, NEW x \in {"nothing", "gone"} \cup ParamValue,
           told' = [told EXCEPT ![n] = x], UNCHANGED paramCalls
    PROVE  ParamsTypeOK' /\ TasksOK'
<1>1. /\ known' \in [Holder -> SUBSET Collector] /\ known'[h] = {d}
      /\ \A g \in Holder : g # h => known'[g] = known[g]
  BY DEF ParamsOK, ParamsTypeOK, Learns
<1>2. task' = [task EXCEPT ![h] = {}]
  BY DEF Returns
<1>3. Turns(h, {}) /\ Able(h, {})
  BY <1>2 DEF Turns, Able
<1>4. Knows(h)
  BY <1>1 DEF Knows
<1>5. /\ task' \in [Holder -> SUBSET (SetTask \cup RemoveTask)']
      /\ \A g \in Holder : (\A c, e \in known'[g] : c = e) /\ (\A s, t \in task'[g] : s = t)
      /\ TasksOK'
  BY <1>3, <1>4, CallTypes
<1>6. known' \in [Holder -> SUBSET Collector]
  BY <1>1
<1>7. unseen' \in [Holder -> SUBSET ParamName]
  <2>1. unseen \in [Holder -> SUBSET ParamName]
    BY DEF ParamsOK, ParamsTypeOK
  <2>2. unseen' = [g \in Holder |->
                      IF known[g] # {} /\ g \notin {h} THEN unseen[g] \cup {n} ELSE unseen[g]]
    BY DEF Written
  <2> QED
    BY <2>1, <2>2
<1>8. /\ raced' \subseteq ParamName
      /\ told' \in [ParamName -> {"nothing", "gone"} \cup ParamValue]
      /\ paramCalls' \in 0 .. MaxParamCalls
  BY DEF ParamsOK, ParamsTypeOK
<1> QED
  BY <1>5, <1>6, <1>7, <1>8 DEF ParamsTypeOK, RowsStay

\* What a call of set_parameter has, and what is in its instance's collector.
LEMMA InSet ==
    ASSUME ParamsOK, NEW h \in Holder, NEW t \in task[h], t.does \in {"insert", "select", "write"}
    PROVE  /\ task[h] = {t} /\ t.name \in ParamName /\ t.value \in ParamValue \cup {""}
           /\ t.does = "insert" => t.value \in ParamValue /\ \A c \in known[h] : t.name \notin DOMAIN c
           /\ t.does = "write" => t.row \in DOMAIN params /\ params[t.row].name = t.name
           /\ \E c \in Collector : known[h] = {c}
<1>1. /\ task[h] = {t} /\ t.name \in ParamName /\ t.value \in ParamValue \cup {""}
      /\ t.does = "write" => t.row \in DOMAIN params
  BY TaskOf DEF ParamsOK
<1>2. /\ known[h] # {} /\ known[h] \subseteq Collector /\ \A c, d \in known[h] : c = d
  BY DEF ParamsOK, ParamsTypeOK, TasksOK
<1>3. \E c \in Collector : known[h] = {c}
  BY <1>2
<1>4. /\ t.does = "insert" => t.value # "" /\ \A c \in known[h] : t.name \notin DOMAIN c
      /\ t.does = "write" => params[t.row].name = t.name
  BY DEF ParamsOK, TasksOK
<1> QED
  BY <1>1, <1>3, <1>4

LEMMA InsertParameterStep == ParamsOK /\ (\E h \in Holder : InsertParameter(h)) => ParamsOK'
<1> SUFFICES ASSUME ParamsOK, NEW h \in Holder, InsertParameter(h) PROVE ParamsOK'
  OBVIOUS
<1>1. PICK t \in task[h] :
        /\ t.does = "insert" /\ Len(params) < MaxParams
        /\ params' = Append(params, [name |-> t.name, value |-> t.value, state |-> "live"])
        /\ known' = [known EXCEPT ![h] = {Kept(c, t.name, t.value) : c \in @}]
        /\ Written(t.name, {h})
        /\ raced' = IF Unaware(h, t.name) THEN raced \cup {t.name} ELSE raced
        /\ told' = [told EXCEPT ![t.name] = t.value]
        /\ Returns(h)
        /\ UNCHANGED paramCalls
  BY DEF InsertParameter
<1>2. /\ t.name \in ParamName /\ t.value \in ParamValue
      /\ \A c \in known[h] : t.name \notin DOMAIN c
      /\ \E c \in Collector : known[h] = {c}
  BY <1>1, InSet
<1>3. PICK c \in Collector : known[h] = {c}
  BY <1>2
<1>4. PICK d : d = Kept(c, t.name, t.value)
  OBVIOUS
<1>5. /\ d \in Collector /\ t.name \in DOMAIN d /\ d[t.name] = t.value
      /\ ButFor(t.name, c, d)
  BY <1>2, <1>4, KeptOK
<1>6. Learns(h, d)
  <2>1. {Kept(x, t.name, t.value) : x \in known[h]} = {d}
    BY <1>3, <1>4
  <2> QED
    BY <1>1, <2>1 DEF ParamsOK, ParamsTypeOK, Learns
<1>7. PICK r : r = [name |-> t.name, value |-> t.value, state |-> "live"]
  OBVIOUS
<1>8. PICK k : k = Len(params) + 1
  OBVIOUS
<1>9. params' = Append(params, r) /\ Len(params) < MaxParams /\ ParamsTypeOK
  BY <1>1, <1>7 DEF ParamsOK
<1>10. /\ params' \in Seq(Row) /\ Len(params') =< MaxParams
       /\ DOMAIN params' = DOMAIN params \cup {k} /\ k \notin DOMAIN params
       /\ \A i \in DOMAIN params : params'[i] = params[i]
       /\ params'[k].name = t.name /\ params'[k].value = t.value
       /\ \A m \in ParamName : m # t.name => Live(m)' = Live(m)
       /\ Live(t.name)' = Live(t.name) \cup {k}
  BY <1>2, <1>7, <1>8, <1>9, RowAdded
<1>11. RowsStay
  BY <1>10 DEF RowsStay
<1>12. raced' \in {raced, raced \cup {t.name}} /\ (t.name \notin raced' => t.name \notin unseen[h])
  BY <1>1 DEF Unaware
<1>13. ParamsTypeOK' /\ TasksOK'
  BY <1>1, <1>2, <1>5, <1>6, <1>11, <1>12, WriterTypes
<1>14. OnlyOf(t.name)
  <2>1. \A m \in ParamName : m # t.name => told'[m] = told[m]
    BY <1>1 DEF ParamsOK, ParamsTypeOK
  <2>2. \A m \in ParamName : m # t.name => Same(m)
    BY <1>10 DEF Same, Live
  <2> QED
    BY <2>1, <2>2 DEF OnlyOf
<1>15. ASSUME t.name \notin raced' PROVE Shows(t.name)' /\ Tells(d, t.name)'
  <2>1. t.name \notin raced /\ t.name \notin unseen[h]
    BY <1>12, <1>15
  <2>2. Tells(c, t.name)
    BY <1>2, <1>3, <2>1 DEF ParamsOK, AllTell
  <2>3. Live(t.name) = {}
    BY <1>2, <1>3, <2>2 DEF Tells
  <2>4. Live(t.name)' = {k} /\ params'[k].value = t.value
    BY <1>10, <2>3
  <2>5. told'[t.name] = t.value /\ t.value # "gone"
    BY <1>1, <1>2, ParametersAssumption DEF ParamsOK, ParamsTypeOK
  <2>6. Shows(t.name)'
    BY <2>4, <2>5 DEF Shows, Alike
  <2>7. Tells(d, t.name)'
    BY <1>5, <2>4 DEF Tells
  <2> QED
    BY <2>6, <2>7
<1>16. Written(t.name, {h}) /\ raced \subseteq raced' /\ t.name \in ParamName
  BY <1>1, <1>2, <1>12
<1>17. /\ t.name \notin raced' => Shows(t.name)'
       /\ t.name \notin raced' /\ t.name \notin unseen[h] => Tells(d, t.name)'
  BY <1>15
<1>18. AllTell' /\ AllShow'
  BY <1>3, <1>5, <1>6, <1>14, <1>16, <1>17, WriterOK
<1> QED
  BY <1>13, <1>18 DEF ParamsOK

\* A row that an update or a delete has written.
LEMMA RowUpdated ==
    ASSUME ParamsTypeOK, NEW k \in DOMAIN params, NEW v \in ParamValue,
           params' = [params EXCEPT ![k].value = v, ![k].state = "live"]
    PROVE  Rewrites(k, v, "live")
<1>1. params \in Seq(Row) /\ k \in 1 .. Len(params) /\ params[k] \in Row
  BY RowOf DEF ParamsTypeOK
<1>2. PICK r : r = params[k]
  OBVIOUS
<1>3. PICK e : e = [r EXCEPT !.value = v]
  OBVIOUS
<1>4. e = [name |-> r.name, value |-> v, state |-> r.state]
  BY <1>1, <1>2, <1>3 DEF Row
<1>5. PICK f : f = [e EXCEPT !.state = "live"]
  OBVIOUS
<1>6. f = [name |-> r.name, value |-> v, state |-> "live"]
  BY <1>4, <1>5
<1>7. PICK p : p = [params EXCEPT ![k] = e]
  OBVIOUS
<1>8. [p EXCEPT ![k] = f] = [params EXCEPT ![k] = f] /\ p[k] = e
  BY <1>1, <1>7
<1>9. params' = [p EXCEPT ![k].state = "live"]
  BY <1>2, <1>3, <1>7
<1>10. params' = [p EXCEPT ![k] = f]
  BY <1>5, <1>8, <1>9
<1> QED
  BY <1>2, <1>6, <1>8, <1>10 DEF Rewrites

LEMMA RowDeleted ==
    ASSUME ParamsTypeOK, NEW k \in DOMAIN params, NEW s,
           params' = [params EXCEPT ![k].state = s]
    PROVE  Rewrites(k, params[k].value, s)
<1>1. params \in Seq(Row) /\ k \in 1 .. Len(params) /\ params[k] \in Row
  BY RowOf DEF ParamsTypeOK
<1>2. PICK r : r = params[k]
  OBVIOUS
<1>3. [r EXCEPT !.state = s] = [name |-> r.name, value |-> r.value, state |-> s]
  BY <1>1, <1>2 DEF Row
<1> QED
  BY <1>1, <1>2, <1>3 DEF Rewrites

LEMMA ToldOne ==
    ASSUME ParamsTypeOK, NEW n \in ParamName, NEW x, told' = [told EXCEPT ![n] = x]
    PROVE  told'[n] = x /\ \A m \in ParamName : m # n => told'[m] = told[m]
BY DEF ParamsTypeOK

LEMMA UpdateParameterStep == ParamsOK /\ (\E h \in Holder : UpdateParameter(h)) => ParamsOK'
<1> SUFFICES ASSUME ParamsOK, NEW h \in Holder, UpdateParameter(h) PROVE ParamsOK'
  OBVIOUS
<1>1. PICK t \in task[h] :
        /\ t.does = "write" /\ t.value # "" /\ params[t.row].state # "purged"
        /\ params' = [params EXCEPT ![t.row].value = t.value, ![t.row].state = "live"]
        /\ known' = [known EXCEPT ![h] = {Kept(c, t.name, t.value) : c \in @}]
        /\ Written(t.name, {h})
        /\ raced' = IF params[t.row].state = "deleted" THEN raced \cup {t.name} ELSE raced
        /\ told' = [told EXCEPT ![t.name] = t.value]
        /\ Returns(h)
        /\ UNCHANGED paramCalls
  BY DEF UpdateParameter
<1>2. /\ t.name \in ParamName /\ t.value \in ParamValue
      /\ t.row \in DOMAIN params /\ params[t.row].name = t.name
      /\ \E c \in Collector : known[h] = {c}
  BY <1>1, InSet
<1>3. PICK c \in Collector : known[h] = {c}
  BY <1>2
<1>4. PICK d : d = Kept(c, t.name, t.value)
  OBVIOUS
<1>5. d \in Collector /\ t.name \in DOMAIN d /\ d[t.name] = t.value /\ ButFor(t.name, c, d)
  BY <1>2, <1>4, KeptOK
<1>6. Learns(h, d)
  <2>1. {Kept(x, t.name, t.value) : x \in known[h]} = {d}
    BY <1>3, <1>4
  <2> QED
    BY <1>1, <2>1 DEF ParamsOK, ParamsTypeOK, Learns
<1>7. PICK s : s = "live"
  OBVIOUS
<1>8. ParamsTypeOK /\ Len(params) =< MaxParams
  BY DEF ParamsOK, ParamsTypeOK
<1>9. Rewrites(t.row, t.value, s) /\ s \in {"live", "deleted", "purged"}
  BY <1>1, <1>2, <1>7, <1>8, RowUpdated
<1>10. /\ params' \in Seq(Row) /\ Len(params') = Len(params)
       /\ DOMAIN params' = DOMAIN params
       /\ \A i \in DOMAIN params : i # t.row => params'[i] = params[i]
       /\ \A i \in DOMAIN params : params'[i].name = params[i].name
       /\ params'[t.row].value = t.value
       /\ \A m \in ParamName : m # t.name => Live(m)' = Live(m)
       /\ Live(t.name)' = Live(t.name) \cup {t.row}
  BY <1>2, <1>7, <1>8, <1>9, RowWritten
<1>11. RowsStay
  BY <1>8, <1>10 DEF RowsStay
<1>12. raced' \in {raced, raced \cup {t.name}} /\ (t.name \notin raced' => t.row \in Live(t.name))
  BY <1>1, <1>2, <1>8, RowOf DEF Live
<1>13. ParamsTypeOK' /\ TasksOK'
  BY <1>1, <1>2, <1>5, <1>6, <1>11, <1>12, WriterTypes
<1>14. told'[t.name] = t.value /\ \A m \in ParamName : m # t.name => told'[m] = told[m]
  BY <1>1, <1>2, <1>8, ToldOne
<1>15. OnlyOf(t.name)
  <2>1. \A m \in ParamName : m # t.name => Same(m)
    BY <1>2, <1>10 DEF Same, Live
  <2> QED
    BY <1>14, <2>1 DEF OnlyOf
<1>16. Tells(d, t.name)'
  BY <1>5, <1>10 DEF Tells
<1>17. ASSUME t.name \notin raced' PROVE Shows(t.name)'
  <2>1. t.name \notin raced /\ t.row \in Live(t.name)
    BY <1>12, <1>17
  <2>2. Alike(Live(t.name))
    BY <1>2, <2>1 DEF ParamsOK, AllShow, Shows
  <2>3. Live(t.name)' = {t.row}
    BY <1>10, <2>1, <2>2 DEF Alike
  <2>4. t.value # "gone"
    BY <1>2, ParametersAssumption
  <2> QED
    BY <1>10, <1>14, <2>3, <2>4 DEF Shows, Alike
<1>18. Written(t.name, {h}) /\ raced \subseteq raced' /\ t.name \in ParamName
  BY <1>1, <1>2, <1>12
<1>19. AllTell' /\ AllShow'
  BY <1>3, <1>6, <1>5, <1>15, <1>16, <1>17, <1>18, WriterOK
<1> QED
  BY <1>13, <1>19 DEF ParamsOK

LEMMA DeleteParameterStep == ParamsOK /\ (\E h \in Holder : DeleteParameter(h)) => ParamsOK'
<1> SUFFICES ASSUME ParamsOK, NEW h \in Holder, DeleteParameter(h) PROVE ParamsOK'
  OBVIOUS
<1>1. PICK t \in task[h] :
        /\ t.does = "write" /\ t.value = ""
        /\ params' = [params EXCEPT ![t.row].state = IF @ = "live" THEN "deleted" ELSE @]
        /\ known' = [known EXCEPT ![h] = {Forgotten(c, t.name) : c \in @}]
        /\ Written(t.name, {h})
        /\ raced' = IF params[t.row].state # "live" THEN raced \cup {t.name} ELSE raced
        /\ told' = [told EXCEPT ![t.name] = "gone"]
        /\ Returns(h)
        /\ UNCHANGED paramCalls
  BY DEF DeleteParameter
<1>2. /\ t.name \in ParamName
      /\ t.row \in DOMAIN params /\ params[t.row].name = t.name
      /\ \E c \in Collector : known[h] = {c}
  BY <1>1, InSet
<1>3. PICK c \in Collector : known[h] = {c}
  BY <1>2
<1>4. PICK d : d = Forgotten(c, t.name)
  OBVIOUS
<1>5. d \in Collector /\ t.name \notin DOMAIN d /\ ButFor(t.name, c, d)
  BY <1>2, <1>4, ForgottenOK
<1>6. Learns(h, d)
  <2>1. {Forgotten(x, t.name) : x \in known[h]} = {d}
    BY <1>3, <1>4
  <2> QED
    BY <1>1, <2>1 DEF ParamsOK, ParamsTypeOK, Learns
<1>7. ParamsTypeOK /\ Len(params) =< MaxParams
  BY DEF ParamsOK, ParamsTypeOK
<1>8. PICK s : s = IF params[t.row].state = "live" THEN "deleted" ELSE params[t.row].state
  OBVIOUS
<1>9. s \in {"deleted", "purged"} /\ params[t.row].value \in ParamValue
  BY <1>2, <1>7, <1>8, RowOf
<1>10. PICK v : v = params[t.row].value
  OBVIOUS
<1>11. Rewrites(t.row, v, s) /\ v \in ParamValue /\ s # "live" /\ s \in {"live", "deleted", "purged"}
  <2>1. params' = [params EXCEPT ![t.row].state = s]
    BY <1>1, <1>8
  <2> QED
    BY <1>2, <1>7, <1>9, <1>10, <2>1, RowDeleted
<1>12. /\ params' \in Seq(Row) /\ Len(params') = Len(params)
       /\ DOMAIN params' = DOMAIN params
       /\ \A i \in DOMAIN params : i # t.row => params'[i] = params[i]
       /\ \A i \in DOMAIN params : params'[i].name = params[i].name
       /\ \A m \in ParamName : m # t.name => Live(m)' = Live(m)
       /\ Live(t.name)' = Live(t.name) \ {t.row}
  BY <1>2, <1>7, <1>11, RowWritten
<1>13. RowsStay
  BY <1>7, <1>12 DEF RowsStay
<1>14. raced' \in {raced, raced \cup {t.name}} /\ (t.name \notin raced' => t.row \in Live(t.name))
  BY <1>1, <1>2, <1>7, RowOf DEF Live
<1>15. PICK x : x = "gone"
  OBVIOUS
<1>16. ParamsTypeOK' /\ TasksOK'
  BY <1>1, <1>2, <1>5, <1>6, <1>13, <1>14, <1>15, WriterTypes
<1>17. told'[t.name] = "gone" /\ \A m \in ParamName : m # t.name => told'[m] = told[m]
  BY <1>1, <1>2, <1>7, ToldOne
<1>18. OnlyOf(t.name)
  <2>1. \A m \in ParamName : m # t.name => Same(m)
    BY <1>2, <1>12 DEF Same, Live
  <2> QED
    BY <1>17, <2>1 DEF OnlyOf
<1>19. ASSUME t.name \notin raced' PROVE Shows(t.name)' /\ Tells(d, t.name)'
  <2>1. t.name \notin raced /\ t.row \in Live(t.name)
    BY <1>14, <1>19
  <2>2. Alike(Live(t.name))
    BY <1>2, <2>1 DEF ParamsOK, AllShow, Shows
  <2>3. Live(t.name)' = {}
    BY <1>12, <2>1, <2>2 DEF Alike
  <2>4. "gone" \notin ParamValue
    BY ParametersAssumption
  <2>5. Shows(t.name)'
    BY <1>17, <2>3, <2>4 DEF Shows, Alike
  <2>6. Tells(d, t.name)'
    BY <1>5, <2>3 DEF Tells
  <2> QED
    BY <2>5, <2>6
<1>20. Written(t.name, {h}) /\ raced \subseteq raced' /\ t.name \in ParamName
  BY <1>1, <1>2, <1>14
<1>21. AllTell' /\ AllShow'
  BY <1>3, <1>5, <1>6, <1>18, <1>19, <1>20, WriterOK
<1> QED
  BY <1>16, <1>21 DEF ParamsOK

\* A statement that stores nothing: the call goes on, the collector may be filled.
LEMMA NothingStored ==
    ASSUME ParamsOK, UNCHANGED <<params, raced, told>>
    PROVE  /\ RowsStay /\ AllShow' /\ LiveNames' = LiveNames
           /\ \A m \in ParamName : Same(m)
<1>1. \A m \in ParamName : Same(m)
  BY DEF Same, Live
<1>2. RowsStay
  BY DEF RowsStay, ParamsOK, ParamsTypeOK
<1>3. AllShow'
  <2>1. ASSUME NEW m \in ParamName, m \notin raced' PROVE Shows(m)'
    <3>1. Shows(m) /\ Same(m) /\ told'[m] = told[m]
      BY <1>1, <2>1 DEF ParamsOK, AllShow
    <3> QED
      BY <3>1, ShowsSame
  <2> QED
    BY <2>1 DEF AllShow
<1>4. LiveNames' = LiveNames
  BY <1>1 DEF LiveNames, Same
<1> QED
  BY <1>1, <1>2, <1>3, <1>4

LEMMA QuietStep ==
    ASSUME ParamsOK, UNCHANGED <<params, raced, told>>, NEW h \in Holder, NEW S,
           Turns(h, S), Knows(h), Able(h, S), AllTell',
           unseen' \in [Holder -> SUBSET ParamName], paramCalls' \in 0 .. MaxParamCalls
    PROVE  ParamsOK'
<1>1. RowsStay /\ AllShow'
  BY NothingStored
<1>2. /\ task' \in [Holder -> SUBSET (SetTask \cup RemoveTask)']
      /\ \A g \in Holder : (\A c, d \in known'[g] : c = d) /\ (\A s, t \in task'[g] : s = t)
      /\ TasksOK'
  BY <1>1, CallTypes
<1>3. known' \in [Holder -> SUBSET Collector]
  BY DEF Knows
<1>4. /\ raced' \subseteq ParamName
      /\ told' \in [ParamName -> {"nothing", "gone"} \cup ParamValue]
  BY DEF ParamsOK, ParamsTypeOK
<1>5. ParamsTypeOK'
  BY <1>1, <1>2, <1>3, <1>4 DEF ParamsTypeOK, RowsStay
<1> QED
  BY <1>1, <1>2, <1>5 DEF ParamsOK

\* Whoever has not missed a write before, and is told of none, still tells well.
LEMMA TellsOn ==
    ASSUME ParamsOK, UNCHANGED <<params, raced, told>>,
           NEW g \in Holder, NEW x \in known[g], NEW m \in ParamName \ (unseen[g] \cup raced)
    PROVE  Tells(x, m)'
<1>1. Tells(x, m) /\ Same(m)
  BY NothingStored DEF ParamsOK, AllTell
<1> QED
  BY <1>1, TellsSame

LEMMA EmptyCollector == <<>> \in Collector /\ DOMAIN <<>> = {}
<1>1. DOMAIN <<>> = {}
  OBVIOUS
<1>2. PICK c : c = [n \in {} |-> ""]
  OBVIOUS
<1>3. DOMAIN c = {} /\ c \in [{} -> ParamValue]
  BY <1>2
<1>4. <<>> \in [{} -> ParamValue]
  BY <1>1
<1> QED
  BY <1>1, <1>4, CollectorIs

LEMMA FilledTells ==
    ASSUME ParamsTypeOK, NEW c \in Filled
    PROVE  c \in Collector /\ \A n \in ParamName : Tells(c, n)
<1>1. PICK pick \in [LiveNames -> DOMAIN params] :
        /\ \A n \in LiveNames : pick[n] \in Live(n)
        /\ c = [n \in LiveNames |-> params[pick[n]].value]
  BY DEF Filled
<1>2. LiveNames \in SUBSET ParamName
  BY DEF LiveNames
<1>3. \A n \in LiveNames : params[pick[n]].value \in ParamValue
  BY <1>1, RowOf
<1>4. c \in [LiveNames -> ParamValue]
  BY <1>1, <1>3
<1>5. c \in Collector
  BY <1>2, <1>4, CollectorIs
<1>6. DOMAIN c = LiveNames /\ \A n \in LiveNames : c[n] = params[pick[n]].value
  BY <1>1
<1>7. ASSUME NEW n \in ParamName PROVE Tells(c, n)
  <2>1. (n \in DOMAIN c) = (Live(n) # {})
    BY <1>6 DEF LiveNames
  <2>2. n \in DOMAIN c => \E i \in Live(n) : c[n] = params[i].value
    BY <1>1, <1>6
  <2> QED
    BY <2>1, <2>2 DEF Tells
<1> QED
  BY <1>5, <1>7

LEMMA FirstUseOK ==
    ASSUME ParamsOK, UNCHANGED <<params, raced, told>>, NEW h \in Holder, NEW c, FirstUse(h, c)
    PROVE  /\ Knows(h) /\ known'[h] = {c} /\ AllTell'
           /\ unseen' \in [Holder -> SUBSET ParamName]
<1>1. /\ known \in [Holder -> SUBSET Collector] /\ \A x, y \in known[h] : x = y
      /\ unseen \in [Holder -> SUBSET ParamName]
  BY DEF ParamsOK, ParamsTypeOK
<1>2. CASE known[h] # {} /\ c \in known[h] /\ UNCHANGED <<known, unseen>>
  <2>1. known[h] = {c}
    BY <1>1, <1>2
  <2>2. AllTell'
    <3>1. ASSUME NEW g \in Holder, NEW x \in known'[g], NEW m \in ParamName \ (unseen'[g] \cup raced')
          PROVE  Tells(x, m)'
      <4>1. x \in known[g] /\ m \in ParamName \ (unseen[g] \cup raced)
        BY <1>2, <3>1
      <4> QED
        BY <4>1, TellsOn
    <3> QED
      BY <3>1 DEF AllTell
  <2> QED
    BY <1>1, <1>2, <2>1, <2>2 DEF Knows
<1>3. ASSUME NEW U \in SUBSET ParamName, c \in Collector,
             known' = [known EXCEPT ![h] = {c}], unseen' = [unseen EXCEPT ![h] = U],
             \A m \in ParamName : m \notin U => Tells(c, m)
      PROVE  /\ Knows(h) /\ known'[h] = {c} /\ AllTell'
             /\ unseen' \in [Holder -> SUBSET ParamName]
  <2>1. /\ known' \in [Holder -> SUBSET Collector] /\ known'[h] = {c}
        /\ \A g \in Holder : g # h => known'[g] = known[g]
    BY <1>1, <1>3
  <2>2. Knows(h)
    BY <2>1 DEF Knows
  <2>3. /\ unseen' \in [Holder -> SUBSET ParamName] /\ unseen'[h] = U
        /\ \A g \in Holder : g # h => unseen'[g] = unseen[g]
    BY <1>1, <1>3
  <2>4. ASSUME NEW g \in Holder, NEW x \in known'[g], NEW m \in ParamName \ (unseen'[g] \cup raced')
        PROVE  Tells(x, m)'
    <3>1. CASE g = h
      <4>1. x = c /\ Tells(c, m) /\ Same(m)
        BY <1>3, <2>1, <2>3, <2>4, <3>1, NothingStored
      <4> QED
        BY <4>1, TellsSame
    <3>2. CASE g # h
      <4>1. x \in known[g] /\ m \in ParamName \ (unseen[g] \cup raced)
        BY <2>1, <2>3, <2>4, <3>2
      <4> QED
        BY <4>1, TellsOn
    <3> QED
      BY <3>1, <3>2
  <2>5. AllTell'
    BY <2>4 DEF AllTell
  <2> QED
    BY <2>1, <2>2, <2>3, <2>5
<1>4. CASE c \in Filled /\ known' = [known EXCEPT ![h] = {c}] /\ unseen' = [unseen EXCEPT ![h] = {}]
  <2>1. c \in Collector /\ \A m \in ParamName : Tells(c, m)
    BY <1>4, FilledTells DEF ParamsOK
  <2>2. PICK U \in SUBSET ParamName : U = {}
    OBVIOUS
  <2>3. unseen' = [unseen EXCEPT ![h] = U] /\ \A m \in ParamName : m \notin U => Tells(c, m)
    BY <1>4, <2>1, <2>2
  <2> QED
    BY <1>3, <1>4, <2>1, <2>3
<1>5. CASE c = <<>> /\ known' = [known EXCEPT ![h] = {c}] /\ unseen' = [unseen EXCEPT ![h] = LiveNames]
  <2>1. c \in Collector /\ DOMAIN c = {} /\ LiveNames \in SUBSET ParamName
    BY <1>5, EmptyCollector DEF LiveNames
  <2>2. \A m \in ParamName : m \notin LiveNames => Tells(c, m)
    BY <2>1 DEF LiveNames, Tells
  <2> QED
    BY <1>3, <1>5, <2>1, <2>2
<1> QED
  BY <1>2, <1>4, <1>5 DEF FirstUse

LEMMA CallsCount == ParamsOK /\ (ParamCalled \/ UNCHANGED paramCalls) => paramCalls' \in 0 .. MaxParamCalls
<1>1. ParamsOK => paramCalls \in 0 .. MaxParamCalls
  BY DEF ParamsOK, ParamsTypeOK
<1>2. MaxParamCalls \in Nat
  BY ParametersAssumption
<1>3. ASSUME ParamsOK, paramCalls < MaxParamCalls, paramCalls' = paramCalls + 1
      PROVE  paramCalls' \in 0 .. MaxParamCalls
  BY <1>1, <1>2, <1>3
<1> QED
  BY <1>1, <1>3 DEF ParamCalled

\* Calls whose instance keeps the collector it has.
LEMMA StillKnown ==
    ASSUME ParamsOK, UNCHANGED <<params, known, unseen, raced, told>>, NEW h \in Holder, NEW S,
           Turns(h, S), Able(h, S), paramCalls' \in 0 .. MaxParamCalls
    PROVE  ParamsOK'
<1>1. Knows(h)
  BY DEF ParamsOK, ParamsTypeOK, Knows
<1>2. AllTell'
  <2>1. ASSUME NEW g \in Holder, NEW x \in known'[g], NEW m \in ParamName \ (unseen'[g] \cup raced')
        PROVE  Tells(x, m)'
    <3>1. x \in known[g] /\ m \in ParamName \ (unseen[g] \cup raced)
      BY <2>1
    <3> QED
      BY <3>1, TellsOn
  <2> QED
    BY <2>1 DEF AllTell
<1>3. unseen' \in [Holder -> SUBSET ParamName]
  BY DEF ParamsOK, ParamsTypeOK
<1> QED
  BY <1>1, <1>2, <1>3, QuietStep

LEMMA GetParameterStep == ParamsOK /\ (\E h \in Holder : GetParameter(h)) => ParamsOK'
<1> SUFFICES ASSUME ParamsOK, NEW h \in Holder, GetParameter(h) PROVE ParamsOK'
  OBVIOUS
<1>1. PICK c : FirstUse(h, c)
  BY DEF GetParameter
<1>2. UNCHANGED <<params, raced, told>>
  BY DEF GetParameter
<1>3. Knows(h) /\ AllTell' /\ unseen' \in [Holder -> SUBSET ParamName]
  BY <1>1, <1>2, FirstUseOK
<1>4. PICK S : S = {}
  OBVIOUS
<1>5. task' = [task EXCEPT ![h] = S]
  BY <1>4 DEF GetParameter, ParamsOK, ParamsTypeOK
<1>6. Turns(h, S) /\ Able(h, S)
  BY <1>4, <1>5 DEF Turns, Able
<1>7. paramCalls' \in 0 .. MaxParamCalls
  BY CallsCount DEF GetParameter
<1> QED
  BY <1>2, <1>3, <1>6, <1>7, QuietStep

LEMMA FetchAgainStep == ParamsOK /\ (\E h \in Holder : FetchAgain(h)) => ParamsOK'
<1> SUFFICES ASSUME ParamsOK, NEW h \in Holder, FetchAgain(h) PROVE ParamsOK'
  OBVIOUS
<1>1. /\ UNCHANGED <<params, raced, told>> /\ task[h] = {} /\ task' = task
      /\ known' = [known EXCEPT ![h] = {}] /\ unseen' = [unseen EXCEPT ![h] = {}]
  BY DEF FetchAgain
<1>2. /\ known' \in [Holder -> SUBSET Collector] /\ known'[h] = {}
      /\ \A g \in Holder : g # h => known'[g] = known[g]
  BY <1>1 DEF ParamsOK, ParamsTypeOK
<1>3. /\ unseen' \in [Holder -> SUBSET ParamName]
      /\ \A g \in Holder : g # h => unseen'[g] = unseen[g]
  BY <1>1 DEF ParamsOK, ParamsTypeOK
<1>4. Knows(h)
  BY <1>2 DEF Knows
<1>5. AllTell'
  <2>1. ASSUME NEW g \in Holder, NEW x \in known'[g], NEW m \in ParamName \ (unseen'[g] \cup raced')
        PROVE  Tells(x, m)'
    <3>1. x \in known[g] /\ m \in ParamName \ (unseen[g] \cup raced)
      BY <1>1, <1>2, <1>3, <2>1
    <3> QED
      BY <1>1, <3>1, TellsOn
  <2> QED
    BY <2>1 DEF AllTell
<1>6. PICK S : S = {}
  OBVIOUS
<1>7. task' = [task EXCEPT ![h] = S]
  BY <1>1, <1>6 DEF ParamsOK, ParamsTypeOK
<1>8. Turns(h, S) /\ Able(h, S)
  BY <1>6, <1>7 DEF Turns, Able
<1>9. paramCalls' \in 0 .. MaxParamCalls
  BY CallsCount DEF FetchAgain
<1> QED
  BY <1>1, <1>3, <1>4, <1>5, <1>8, <1>9, QuietStep

LEMMA SetFailsStep == ParamsOK /\ (\E h \in Holder : SetFails(h)) => ParamsOK'
<1> SUFFICES ASSUME ParamsOK, NEW h \in Holder, SetFails(h) PROVE ParamsOK'
  OBVIOUS
<1>1. PICK S : S = {}
  OBVIOUS
<1>2. Turns(h, S) /\ Able(h, S)
  BY <1>1 DEF Turns, Able, SetFails, Returns
<1>3. paramCalls' \in 0 .. MaxParamCalls
  BY CallsCount DEF SetFails
<1>4. UNCHANGED <<params, known, unseen, raced, told>>
  BY DEF SetFails
<1> QED
  BY <1>2, <1>3, <1>4, StillKnown

\* The next part of a call.
LEMMA GoesOn ==
    ASSUME NEW n \in ParamName, NEW v \in ParamValue \cup {""}
    PROVE  /\ [does |-> "select", name |-> n, value |-> v] \in SetTask
           /\ [does |-> "insert", name |-> n, value |-> v] \in SetTask
           /\ \A i \in DOMAIN params : [does |-> "write", name |-> n, value |-> v, row |-> i] \in SetTask
BY DEF SetTask

LEMMA TasksStand == RowsStay => SetTask \cup RemoveTask \subseteq (SetTask \cup RemoveTask)'
BY TasksGrow DEF RowsStay

LEMMA SetParameterStep ==
    ParamsOK /\ (\E h \in Holder, n \in ParamName, v \in ParamValue \cup {""} : SetParameter(h, n, v))
        => ParamsOK'
<1> SUFFICES ASSUME ParamsOK, NEW h \in Holder, NEW n \in ParamName, NEW v \in ParamValue \cup {""},
                    SetParameter(h, n, v)
             PROVE  ParamsOK'
  OBVIOUS
<1>1. PICK c : FirstUse(h, c) /\ task' = [task EXCEPT ![h] =
                 IF n \in DOMAIN c
                 THEN {[does |-> "select", name |-> n, value |-> v]}
                 ELSE IF v # ""
                 THEN {[does |-> "insert", name |-> n, value |-> v]}
                 ELSE {}]
  BY DEF SetParameter
<1>2. UNCHANGED <<params, raced, told>>
  BY DEF SetParameter
<1>3. Knows(h) /\ known'[h] = {c} /\ AllTell' /\ unseen' \in [Holder -> SUBSET ParamName]
  BY <1>1, <1>2, FirstUseOK
<1>4. paramCalls' \in 0 .. MaxParamCalls
  BY CallsCount DEF SetParameter
<1>5. SetTask \cup RemoveTask \subseteq (SetTask \cup RemoveTask)'
  BY <1>2, NothingStored, TasksStand
<1>6. CASE n \in DOMAIN c
  <2>1. PICK t : t = [does |-> "select", name |-> n, value |-> v]
    OBVIOUS
  <2>2. t \in (SetTask \cup RemoveTask)' /\ t.does = "select"
    BY <1>5, <2>1, GoesOn
  <2>3. task' = [task EXCEPT ![h] = {t}]
    BY <1>1, <1>6, <2>1
  <2>4. Turns(h, {t}) /\ Able(h, {t})
    BY <1>3, <2>2, <2>3 DEF Turns, Able
  <2> QED
    BY <1>2, <1>3, <1>4, <2>4, QuietStep
<1>7. CASE n \notin DOMAIN c /\ v # ""
  <2>1. PICK t : t = [does |-> "insert", name |-> n, value |-> v]
    OBVIOUS
  <2>2. t \in (SetTask \cup RemoveTask)' /\ t.does = "insert" /\ t.name = n /\ t.value = v
    BY <1>5, <2>1, GoesOn
  <2>3. task' = [task EXCEPT ![h] = {t}]
    BY <1>1, <1>7, <2>1
  <2>4. Turns(h, {t}) /\ Able(h, {t})
    BY <1>3, <1>7, <2>2, <2>3 DEF Turns, Able
  <2> QED
    BY <1>2, <1>3, <1>4, <2>4, QuietStep
<1>8. CASE n \notin DOMAIN c /\ v = ""
  <2>1. PICK S : S = {}
    OBVIOUS
  <2>2. task' = [task EXCEPT ![h] = S]
    BY <1>1, <1>8, <2>1
  <2>3. Turns(h, S) /\ Able(h, S)
    BY <2>1, <2>2 DEF Turns, Able
  <2> QED
    BY <1>2, <1>3, <1>4, <2>3, QuietStep
<1> QED
  BY <1>6, <1>7, <1>8

LEMMA SelectParameterStep == ParamsOK /\ (\E h \in Holder : SelectParameter(h)) => ParamsOK'
<1> SUFFICES ASSUME ParamsOK, NEW h \in Holder, SelectParameter(h) PROVE ParamsOK'
  OBVIOUS
<1>1. UNCHANGED <<params, known, unseen, raced, told>>
  BY DEF SelectParameter
<1>2. PICK t \in task[h] :
        /\ t.does = "select"
        /\ \E i \in Live(t.name) : task' = [task EXCEPT ![h] =
              {[does |-> "write", name |-> t.name, value |-> t.value, row |-> i]}]
  BY DEF SelectParameter
<1>3. PICK i \in Live(t.name) : task' = [task EXCEPT ![h] =
              {[does |-> "write", name |-> t.name, value |-> t.value, row |-> i]}]
  BY <1>2
<1>4. t.name \in ParamName /\ t.value \in ParamValue \cup {""}
  BY <1>2, InSet
<1>5. known[h] # {}
  BY <1>2 DEF ParamsOK, TasksOK
<1>6. i \in DOMAIN params /\ params[i].name = t.name
  BY DEF Live
<1>7. PICK w : w = [does |-> "write", name |-> t.name, value |-> t.value, row |-> i]
  OBVIOUS
<1>8. w \in SetTask /\ w.does = "write" /\ w.name = t.name /\ w.row = i
  BY <1>4, <1>6, <1>7, GoesOn
<1>9. w \in (SetTask \cup RemoveTask)'
  BY <1>1, <1>8, NothingStored, TasksStand
<1>10. task' = [task EXCEPT ![h] = {w}]
  BY <1>3, <1>7
<1>11. Turns(h, {w}) /\ Able(h, {w})
  BY <1>1, <1>5, <1>6, <1>8, <1>9, <1>10 DEF Turns, Able
<1>12. paramCalls' \in 0 .. MaxParamCalls
  BY CallsCount DEF SelectParameter
<1> QED
  BY <1>1, <1>11, <1>12, StillKnown

LEMMA RemoveParametersStep ==
    ASSUME ParamsOK, NEW h \in Holder, NEW how \in {"delete", "purge"}, NEW names \in SUBSET ParamName,
           RemoveParameters(h, how, names)
    PROVE  ParamsOK'
<1>1. UNCHANGED <<params, known, unseen, raced, told>>
  BY DEF RemoveParameters
<1>2. PICK L : L = UNION {Live(n) : n \in names}
  OBVIOUS
<1>3. L \subseteq DOMAIN params
  BY <1>2 DEF Live
<1>4. PICK w : w = [does |-> how, list |-> L]
  OBVIOUS
<1>5. w \in RemoveTask /\ w.does \in {"delete", "purge"}
  BY <1>3, <1>4 DEF RemoveTask
<1>6. w \in (SetTask \cup RemoveTask)'
  BY <1>1, <1>5, NothingStored, TasksStand
<1>7. task' = [task EXCEPT ![h] = {w}]
  BY <1>2, <1>4 DEF RemoveParameters
<1>8. Turns(h, {w}) /\ Able(h, {w})
  BY <1>5, <1>6, <1>7 DEF Turns, Able
<1>9. paramCalls' \in 0 .. MaxParamCalls
  BY CallsCount DEF RemoveParameters
<1> QED
  BY <1>1, <1>8, <1>9, StillKnown

\* What is left of a list.
LEMMA ListShrinks ==
    ASSUME ParamsOK, RowsStay, NEW h \in Holder, NEW t \in task[h], t.does \in {"delete", "purge"},
           NEW i \in t.list,
           task' = [task EXCEPT ![h] = IF t.list = {i} THEN {} ELSE {[t EXCEPT !.list = @ \ {i}]}]
    PROVE  \E S : Turns(h, S) /\ Able(h, S)
<1>1. t \in RemoveTask /\ t.list \subseteq DOMAIN params
  BY TaskOf DEF ParamsOK
<1>2. PICK w : w = [t EXCEPT !.list = @ \ {i}]
  OBVIOUS
<1>3. w \in RemoveTask /\ w.does \in {"delete", "purge"}
  BY <1>1, <1>2 DEF RemoveTask
<1>4. w \in (SetTask \cup RemoveTask)'
  BY <1>3, TasksStand
<1>5. PICK S : S = IF t.list = {i} THEN {} ELSE {w}
  OBVIOUS
<1>6. S = {} \/ S = {w}
  BY <1>5
<1>7. task' = [task EXCEPT ![h] = S]
  BY <1>2, <1>5
<1>8. Turns(h, S) /\ Able(h, S)
  BY <1>3, <1>4, <1>6, <1>7 DEF Turns, Able
<1> QED
  BY <1>8

LEMMA RemoveNextStep == ParamsOK /\ (\E h \in Holder : RemoveNext(h)) => ParamsOK'
<1> SUFFICES ASSUME ParamsOK, NEW h \in Holder, RemoveNext(h) PROVE ParamsOK'
  OBVIOUS
<1>1. PICK t \in task[h] :
        /\ t.does \in {"delete", "purge"}
        /\ \E i \in t.list :
               /\ task' = [task EXCEPT ![h] =
                     IF t.list = {i} THEN {} ELSE {[t EXCEPT !.list = @ \ {i}]}]
               /\ \/ /\ params' = [params EXCEPT ![i].state =
                                      IF t.does = "purge" THEN "purged" ELSE "deleted"]
                     /\ Written(params[i].name, {})
                     /\ told' = [told EXCEPT ![params[i].name] = "nothing"]
                  \/ UNCHANGED <<params, unseen, told>>
  BY DEF RemoveNext
<1>2. PICK i \in t.list :
        /\ task' = [task EXCEPT ![h] =
              IF t.list = {i} THEN {} ELSE {[t EXCEPT !.list = @ \ {i}]}]
        /\ \/ /\ params' = [params EXCEPT ![i].state =
                               IF t.does = "purge" THEN "purged" ELSE "deleted"]
              /\ Written(params[i].name, {})
              /\ told' = [told EXCEPT ![params[i].name] = "nothing"]
           \/ UNCHANGED <<params, unseen, told>>
  BY <1>1
<1>3. UNCHANGED <<known, raced>> /\ paramCalls' \in 0 .. MaxParamCalls
  BY CallsCount DEF RemoveNext
<1>4. /\ known \in [Holder -> SUBSET Collector] /\ unseen \in [Holder -> SUBSET ParamName]
      /\ \A g \in Holder : \A c, d \in known[g] : c = d
      /\ raced \subseteq ParamName /\ Len(params) =< MaxParams /\ ParamsTypeOK
      /\ told \in [ParamName -> {"nothing", "gone"} \cup ParamValue]
  BY DEF ParamsOK, ParamsTypeOK
<1>5. i \in DOMAIN params
  BY <1>1, <1>4, TaskOf
<1>6. CASE UNCHANGED <<params, unseen, told>>
  <2>1. RowsStay
    BY <1>3, <1>6, NothingStored
  <2>2. PICK S : Turns(h, S) /\ Able(h, S)
    BY <1>1, <1>2, <2>1, ListShrinks
  <2> QED
    BY <1>3, <1>6, <2>2, StillKnown
<1>7. CASE /\ params' = [params EXCEPT ![i].state = IF t.does = "purge" THEN "purged" ELSE "deleted"]
           /\ Written(params[i].name, {})
           /\ told' = [told EXCEPT ![params[i].name] = "nothing"]
  <2>1. PICK s : s = IF t.does = "purge" THEN "purged" ELSE "deleted"
    OBVIOUS
  <2>2. PICK v : v = params[i].value
    OBVIOUS
  <2>3. PICK n : n = params[i].name
    OBVIOUS
  <2>4. v \in ParamValue /\ n \in ParamName /\ s # "live" /\ s \in {"live", "deleted", "purged"}
    BY <1>4, <1>5, <2>1, <2>2, <2>3, RowOf
  <2>5. params' = [params EXCEPT ![i].state = s]
    BY <1>7, <2>1
  <2>6. Rewrites(i, v, s)
    BY <1>4, <1>5, <2>2, <2>5, RowDeleted
  <2>7. /\ params' \in Seq(Row) /\ Len(params') = Len(params)
        /\ DOMAIN params' = DOMAIN params
        /\ \A k \in DOMAIN params : k # i => params'[k] = params[k]
        /\ \A k \in DOMAIN params : params'[k].name = params[k].name
        /\ \A m \in ParamName : m # n => Live(m)' = Live(m)
        /\ Live(n)' = Live(n) \ {i}
    BY <1>4, <1>5, <2>3, <2>4, <2>6, RowWritten
  <2>8. RowsStay
    BY <1>4, <2>7 DEF RowsStay
  <2>9. PICK S : Turns(h, S) /\ Able(h, S)
    BY <1>1, <1>2, <2>8, ListShrinks
  <2>10. Knows(h)
    BY <1>3, <1>4 DEF Knows
  <2>11. /\ task' \in [Holder -> SUBSET (SetTask \cup RemoveTask)']
         /\ \A g \in Holder : (\A c, d \in known'[g] : c = d) /\ (\A x, y \in task'[g] : x = y)
         /\ TasksOK'
    BY <2>8, <2>9, <2>10, CallTypes
  <2>12. \A m \in ParamName : m # n => Same(m)
    BY <2>3, <2>7 DEF Same, Live
  <2>13. /\ told'[n] = "nothing" /\ \A m \in ParamName : m # n => told'[m] = told[m]
         /\ told' \in [ParamName -> {"nothing", "gone"} \cup ParamValue]
    BY <1>4, <1>7, <2>3, <2>4
  <2>14. /\ unseen' \in [Holder -> SUBSET ParamName]
         /\ \A g \in Holder : known[g] # {} => unseen'[g] = unseen[g] \cup {n}
    <3>1. unseen' = [g \in Holder |->
                        IF known[g] # {} /\ g \notin {} THEN unseen[g] \cup {n} ELSE unseen[g]]
      BY <1>7, <2>3 DEF Written
    <3> QED
      BY <1>4, <2>4, <3>1
  <2>15. AllTell'
    <3>1. ASSUME NEW g \in Holder, NEW x \in known'[g], NEW m \in ParamName \ (unseen'[g] \cup raced')
          PROVE  Tells(x, m)'
      <4>1. x \in known[g] /\ m # n /\ m \in ParamName \ (unseen[g] \cup raced)
        BY <1>3, <2>14, <3>1
      <4>2. Tells(x, m) /\ Same(m)
        BY <2>12, <4>1 DEF ParamsOK, AllTell
      <4> QED
        BY <4>2, TellsSame
    <3> QED
      BY <3>1 DEF AllTell
  <2>16. AllShow'
    <3>1. ASSUME NEW m \in ParamName, m \notin raced' PROVE Shows(m)'
      <4>1. Shows(m)
        BY <1>3, <3>1 DEF ParamsOK, AllShow
      <4>2. CASE m # n
        BY <2>12, <2>13, <4>1, <4>2, ShowsSame
      <4>3. CASE m = n
        <5>1. Alike(Live(m)')
          BY <2>7, <4>1, <4>3 DEF Shows, Alike
        <5>2. told'[m] = "nothing" /\ "nothing" \notin ParamValue
          BY <2>13, <4>3, ParametersAssumption
        <5> QED
          BY <5>1, <5>2 DEF Shows, Alike
      <4> QED
        BY <4>2, <4>3
    <3> QED
      BY <3>1 DEF AllShow
  <2>17. ParamsTypeOK'
    BY <1>3, <1>4, <2>7, <2>11, <2>13, <2>14 DEF ParamsTypeOK
  <2> QED
    BY <2>11, <2>15, <2>16, <2>17 DEF ParamsOK
<1> QED
  BY <1>2, <1>6, <1>7

LEMMA ParamsInitOK == ParamsInit => ParamsOK
<1> SUFFICES ASSUME ParamsInit PROVE ParamsOK
  OBVIOUS
<1>1. params = <<>> /\ DOMAIN params = {}
  BY DEF ParamsInit
<1>2. /\ known = [h \in Holder |-> {}] /\ task = [h \in Holder |-> {}]
      /\ unseen = [h \in Holder |-> {}] /\ raced = {}
      /\ told = [n \in ParamName |-> "nothing"] /\ paramCalls = 0
  BY DEF ParamsInit
<1>3. params \in Seq(Row) /\ Len(params) =< MaxParams /\ paramCalls \in 0 .. MaxParamCalls
  <2>1. MaxParams \in Nat /\ MaxParamCalls \in Nat
    BY ParametersAssumption
  <2>2. Len(params) = 0 /\ params \in Seq(Row)
    BY <1>1
  <2> QED
    BY <1>2, <2>1, <2>2
<1>4. ParamsTypeOK
  BY <1>2, <1>3 DEF ParamsTypeOK
<1>5. TasksOK /\ AllTell
  BY <1>2 DEF TasksOK, AllTell
<1>6. AllShow
  <2>1. ASSUME NEW n \in ParamName PROVE Shows(n)
    <3>1. Live(n) = {} /\ told[n] = "nothing"
      BY <1>1, <1>2 DEF Live
    <3> QED
      BY <3>1, ParametersAssumption DEF Shows, Alike
  <2> QED
    BY <2>1 DEF AllShow
<1> QED
  BY <1>4, <1>5, <1>6 DEF ParamsOK

LEMMA ParamsStep == ParamsOK /\ [ParamsNext]_paramVars => ParamsOK'
<1> SUFFICES ASSUME ParamsOK, [ParamsNext]_paramVars PROVE ParamsOK'
  OBVIOUS
<1>1. CASE ParamsNext
  <2>1. ASSUME NEW h \in Holder, NEW how \in {"delete", "purge"}, NEW names \in SUBSET ParamName,
               RemoveParameters(h, how, names)
        PROVE  ParamsOK'
    BY <2>1, RemoveParametersStep
  <2>2. \/ \E h \in Holder : GetParameter(h)
        \/ \E h \in Holder : FetchAgain(h)
        \/ \E h \in Holder, n \in ParamName, v \in ParamValue \cup {""} : SetParameter(h, n, v)
        \/ \E h \in Holder : InsertParameter(h)
        \/ \E h \in Holder : SelectParameter(h)
        \/ \E h \in Holder : UpdateParameter(h)
        \/ \E h \in Holder : DeleteParameter(h)
        \/ \E h \in Holder : SetFails(h)
        \/ \E h \in Holder, how \in {"delete", "purge"}, names \in (SUBSET ParamName) \ {{}} :
               RemoveParameters(h, how, names)
        \/ \E h \in Holder : RemoveNext(h)
    BY <1>1 DEF ParamsNext
  <2> QED
    BY <2>1, <2>2, GetParameterStep, FetchAgainStep, SetParameterStep, InsertParameterStep,
       SelectParameterStep, UpdateParameterStep, DeleteParameterStep, SetFailsStep, RemoveNextStep
<1>2. CASE UNCHANGED paramVars
  <2>1. /\ params' = params /\ known' = known /\ task' = task /\ unseen' = unseen
        /\ raced' = raced /\ told' = told /\ paramCalls' = paramCalls
    BY <1>2 DEF paramVars
  <2>2. Row' = Row /\ Collector' = Collector /\ SetTask' = SetTask /\ RemoveTask' = RemoveTask
    BY <2>1 DEF Row, Collector, SetTask, RemoveTask
  <2>3. \A n : Live(n)' = Live(n)
    BY <2>1 DEF Live
  <2>4. \A n : Shows(n)' = Shows(n)
    BY <2>1, <2>3 DEF Shows, Alike
  <2>5. \A c, n : Tells(c, n)' = Tells(c, n)
    BY <2>1, <2>3 DEF Tells
  <2>6. ParamsTypeOK' = ParamsTypeOK
    BY <2>1, <2>2 DEF ParamsTypeOK
  <2>7. TasksOK' = TasksOK
    BY <2>1 DEF TasksOK
  <2>8. AllTell' = AllTell /\ AllShow' = AllShow
    BY <2>1, <2>4, <2>5 DEF AllTell, AllShow
  <2> QED
    BY <2>6, <2>7, <2>8 DEF ParamsOK
<1> QED
  BY <1>1, <1>2

LEMMA ParamsInductive == ParamsSpec => []ParamsOK
BY ParamsInitOK, ParamsStep, PTL DEF ParamsSpec

\* The values of Parameters' variables: a program has at most one collector and
\* at most one call, which writes a row that is there.
THEOREM ParametersType == ParamsSpec => []ParamsTypeOK
<1>1. ParamsOK => ParamsTypeOK
  BY DEF ParamsOK
<1> QED
  BY <1>1, ParamsInductive, PTL

LEMMA AlikeIsOne == ASSUME NEW S, Alike(S) PROVE Cardinality(S) =< 1
<1>1. CASE S = {}
  BY <1>1, FS_EmptySet
<1>2. CASE S # {}
  <2>1. PICK x : S = {x}
    BY <1>2 DEF Alike
  <2>2. Cardinality(S) = 1
    BY <2>1, FS_Singleton
  <2> QED
    BY <2>2
<1> QED
  BY <1>1, <1>2

\* What instances remember of the parameters of an object is what is stored, and
\* what set_parameter has answered TRUE for is what all who read find, but for
\* names that somebody wrote whose collector was older than the row
\* (midgard_object_parameter.c, midgard_collector.c).
THEOREM ParametersAreTold == ParamsSpec => []ParametersTell
<1>1. ParamsOK => CollectorTells
  BY DEF ParamsOK, AllTell, Tells, CollectorTells
<1>2. ParamsOK => SetShows
  BY AlikeIsOne DEF ParamsOK, AllShow, Shows, SetShows
<1>3. ParamsOK => ParametersTell
  BY <1>1, <1>2 DEF ParametersTell
<1> QED
  BY <1>3, ParamsInductive, PTL

-----------------------------------------------------------------------------
(***************************************************************************)
(* Attachments                                                             *)
(***************************************************************************)
\* Who has looked for a name, and found none, knows all the rows that are older.
SeesRight == \A k \in Keeper : \A w \in work[k] :
    w.does = "insert" /\ w.name \notin doubled => \A i \in LiveAtts({w.name}) : i > w.seen

OneLive == \A n \in AttName : n \notin doubled => Alike(LiveAtts({n}))

\* When a purge has done its file the file is not there, or was given up.
BlobsGone == \A k \in Keeper : \A w \in work[k] :
    w.does = "blob" /\ "file" \notin w.todo => NextOf(w).loc \notin files \ givenUp

AttsOK == AttsTypeOK /\ SeesRight /\ OneLive /\ BlobsGone /\ OrphansKnown

LEMMA AttOf ==
    ASSUME AttsTypeOK, NEW i \in DOMAIN atts
    PROVE  /\ i \in Nat /\ i <= Len(atts) /\ atts[i] \in Att
           /\ atts[i].name \in AttName /\ atts[i].loc \in Location
           /\ atts[i].state \in {"live", "deleted", "purged"}
<1>1. atts \in Seq(Att) /\ i \in 1 .. Len(atts)
  BY DEF AttsTypeOK
<1>2. atts[i] \in Att
  BY <1>1, ElementOfSeq
<1> QED
  BY <1>1, <1>2 DEF Att

LEMMA HeldOf ==
    ASSUME AttsTypeOK, NEW k \in Keeper, NEW h \in held[k]
    PROVE  /\ held[k] = {h} /\ h \in Copy /\ h.row \in DOMAIN atts /\ h.loc \in Location
           /\ h = [row |-> h.row, loc |-> h.loc]
<1>1. held[k] = {h} /\ h \in Copy
  BY DEF AttsTypeOK
<1> QED
  BY <1>1 DEF Copy

\* The call a program is in, by what it does.
LEMMA TaskIs ==
    ASSUME AttsTypeOK, NEW k \in Keeper, NEW w \in work[k]
    PROVE  /\ work[k] = {w} /\ w \in AttTask
           /\ w.does \in {"insert", "delete", "purge", "blob"}
           /\ w.does = "insert" => w.name \in AttName /\ w.seen \in 0 .. Len(atts)
           /\ w.does # "insert" => w.list # {} /\ w.list \in SUBSET Copy
           /\ w.does \in {"delete", "purge"} =>
                  w.todo = {"row"} /\ w = [does |-> w.does, todo |-> w.todo, list |-> w.list]
           /\ w.does = "blob" =>
                  /\ w.todo \in {{"file", "row"}, {"row"}}
                  /\ w = [does |-> w.does, todo |-> w.todo, list |-> w.list]
<1>1. work[k] = {w} /\ w \in AttTask
  BY DEF AttsTypeOK
<1>2. CASE w \in [does : {"insert"}, name : AttName, seen : 0 .. Len(atts)]
  BY <1>1, <1>2
<1>3. CASE w \in [does : {"delete", "purge"}, todo : {{"row"}}, list : (SUBSET Copy) \ {{}}]
  <2>1. PICK L : L = (SUBSET Copy) \ {{}}
    OBVIOUS
  <2>2. PICK T : T = {{"row"}}
    OBVIOUS
  <2>3. w \in [does : {"delete", "purge"}, todo : T, list : L]
    BY <1>3, <2>1, <2>2
  <2>4. /\ w.does \in {"delete", "purge"} /\ w.todo \in T /\ w.list \in L
        /\ w = [does |-> w.does, todo |-> w.todo, list |-> w.list]
    BY <2>3
  <2>5. w.todo = {"row"} /\ w.list # {} /\ w.list \in SUBSET Copy
    BY <2>1, <2>2, <2>4
  <2> QED
    BY <1>1, <2>4, <2>5
<1>4. CASE w \in [does : {"blob"}, todo : {{"file", "row"}, {"row"}}, list : (SUBSET Copy) \ {{}}]
  <2>1. PICK L : L = (SUBSET Copy) \ {{}}
    OBVIOUS
  <2>2. PICK T : T = {{"file", "row"}, {"row"}}
    OBVIOUS
  <2>3. w \in [does : {"blob"}, todo : T, list : L]
    BY <1>4, <2>1, <2>2
  <2>4. /\ w.does = "blob" /\ w.todo \in T /\ w.list \in L
        /\ w = [does |-> w.does, todo |-> w.todo, list |-> w.list]
    BY <2>3
  <2>5. w.list # {} /\ w.list \in SUBSET Copy
    BY <2>1, <2>4
  <2> QED
    BY <1>1, <2>2, <2>4, <2>5
<1> QED
  BY <1>1, <1>2, <1>3, <1>4 DEF AttTask

\* The list of a call that removes has a first attachment.
LEMMA NextIn ==
    ASSUME AttsTypeOK, NEW k \in Keeper, NEW w \in work[k], w.does # "insert"
    PROVE  NextOf(w) \in w.list /\ NextOf(w).row \in DOMAIN atts /\ NextOf(w).loc \in Location
<1> DEFINE R == {h.row : h \in w.list}
<1>1. w.list # {} /\ w.list \in SUBSET Copy
  BY TaskIs
<1>2. \A h \in w.list : h.row \in DOMAIN atts /\ h.loc \in Location
  BY <1>1 DEF Copy
<1>3. \A h \in w.list : h.row \in Nat
  BY <1>2, AttOf
<1>4. R # {} /\ R \subseteq Nat
  BY <1>1, <1>3
<1>5. PICK r \in R : \A q \in R : ~(<<q, r>> \in OpToRel(<, Nat))
  <2> HIDE DEF R
  <2> QED
    BY <1>4, NatLessThanWellFounded, WFMin
<1>6. r \in Nat /\ \A q \in R : q \in Nat /\ ~(q < r)
  BY <1>4, <1>5 DEF OpToRel
<1>7. PICK h \in w.list : h.row = r
  OBVIOUS
<1>8. \A g \in w.list : h.row =< g.row
  BY <1>3, <1>6, <1>7
<1>9. NextOf(w) \in w.list
  BY <1>8 DEF NextOf
<1> QED
  BY <1>2, <1>9

\* What was a row, a copy or a call is one still.
AttsStay ==
    /\ DOMAIN atts \subseteq DOMAIN atts' /\ 0 .. Len(atts) \subseteq 0 .. Len(atts')
    /\ Location \subseteq Location'

LEMMA TypesGrow ==
    ASSUME AttsStay
    PROVE  Copy \subseteq Copy' /\ AttTask \subseteq AttTask' /\ Att \subseteq Att'
<1>1. Copy \subseteq Copy'
  BY DEF Copy, AttsStay
<1>2. Att \subseteq Att'
  BY DEF Att, AttsStay
<1>3. ASSUME NEW w \in AttTask PROVE w \in AttTask'
  <2>1. CASE w \in [does : {"insert"}, name : AttName, seen : 0 .. Len(atts)]
    BY <2>1 DEF AttTask, AttsStay
  <2>2. CASE w \in [does : {"delete", "purge"}, todo : {{"row"}}, list : (SUBSET Copy) \ {{}}]
    BY <1>1, <2>2 DEF AttTask
  <2>3. CASE w \in [does : {"blob"}, todo : {{"file", "row"}, {"row"}}, list : (SUBSET Copy) \ {{}}]
    BY <1>1, <2>3 DEF AttTask
  <2> QED
    BY <1>3, <2>1, <2>2, <2>3 DEF AttTask
<1> QED
  BY <1>1, <1>2, <1>3

\* A program's call and its instance are what they are then.
Turned(k, S) ==
    /\ S \subseteq AttTask' /\ Alike(S) /\ work' = [work EXCEPT ![k] = S]
Given(k, H) ==
    /\ H \subseteq Copy' /\ Alike(H) /\ held' = [held EXCEPT ![k] = H]
RowsFit == atts' \in Seq(Att)' /\ Len(atts') =< MaxAtts /\ invented' \in 0 .. MaxLocations
FilesFit ==
    /\ files' \subseteq 1 .. invented' /\ givenUp' \subseteq 1 .. invented'
    /\ blobdir' \in BOOLEAN /\ doubled' \subseteq AttName /\ attCalls' \in 0 .. MaxAttCalls

LEMMA AttTypes ==
    ASSUME AttsTypeOK, AttsStay, RowsFit, FilesFit,
           NEW k \in Keeper, NEW S, Turned(k, S), NEW H, Given(k, H)
    PROVE  AttsTypeOK'
<1>1. Copy \subseteq Copy' /\ AttTask \subseteq AttTask'
  BY TypesGrow
<1>2. /\ work \in [Keeper -> SUBSET AttTask] /\ held \in [Keeper -> SUBSET Copy]
      /\ \A j \in Keeper : /\ \A g, h \in held[j] : g = h
                           /\ \A v, w \in work[j] : v = w
  BY DEF AttsTypeOK
<1>3. /\ work' = [work EXCEPT ![k] = S] /\ S \subseteq AttTask' /\ \A v, w \in S : v = w
      /\ held' = [held EXCEPT ![k] = H] /\ H \subseteq Copy' /\ \A g, h \in H : g = h
  BY DEF Turned, Given, Alike
<1>4. work' \in [Keeper -> SUBSET AttTask'] /\ \A j \in Keeper : \A v, w \in work'[j] : v = w
  BY <1>1, <1>2, <1>3
<1>5. held' \in [Keeper -> SUBSET Copy'] /\ \A j \in Keeper : \A g, h \in held'[j] : g = h
  BY <1>1, <1>2, <1>3
<1> QED
  BY <1>4, <1>5 DEF AttsTypeOK, RowsFit, FilesFit

\* Calls and instances that go on.
LEMMA CallStays ==
    ASSUME AttsTypeOK, AttsStay, NEW k \in Keeper, work' = work
    PROVE  \E S : S = work[k] /\ Turned(k, S)
<1>1. work[k] \subseteq AttTask' /\ Alike(work[k])
  BY TypesGrow DEF AttsTypeOK, Alike
<1>2. work' = [work EXCEPT ![k] = work[k]]
  BY DEF AttsTypeOK
<1> QED
  BY <1>1, <1>2 DEF Turned

LEMMA HeldStays ==
    ASSUME AttsTypeOK, AttsStay, NEW k \in Keeper, held' = held
    PROVE  \E H : H = held[k] /\ Given(k, H)
<1>1. held[k] \subseteq Copy' /\ Alike(held[k])
  BY TypesGrow DEF AttsTypeOK, Alike
<1>2. held' = [held EXCEPT ![k] = held[k]]
  BY DEF AttsTypeOK
<1> QED
  BY <1>1, <1>2 DEF Given

LEMMA CallReturns == ASSUME NEW k \in Keeper, AttReturns(k) PROVE \E S : S = {} /\ Turned(k, S)
BY DEF AttReturns, Turned, Alike

\* The next part of a call that removes.
LEMMA RemovalIs ==
    ASSUME NEW d \in {"delete", "purge", "blob"}, NEW T, NEW L \in SUBSET Copy, L # {},
           NEW w, w = [does |-> d, todo |-> T, list |-> L],
           T = Halves(d) \/ (d = "blob" /\ T = {"row"})
    PROVE  w \in AttTask /\ w.does = d /\ w.todo = T /\ w.list = L
<1>1. w.does = d /\ w.todo = T /\ w.list = L
  OBVIOUS
<1>2. PICK X : X = (SUBSET Copy) \ {{}}
  OBVIOUS
<1>3. L \in X
  BY <1>2
<1>4. CASE d = "blob"
  <2>1. T \in {{"file", "row"}, {"row"}}
    BY <1>4 DEF Halves
  <2>2. w \in [does : {"blob"}, todo : {{"file", "row"}, {"row"}}, list : X]
    BY <1>3, <1>4, <2>1
  <2> QED
    BY <1>1, <1>2, <2>2 DEF AttTask
<1>5. CASE d # "blob"
  <2>1. T = {"row"}
    BY <1>5 DEF Halves
  <2>2. w \in [does : {"delete", "purge"}, todo : {{"row"}}, list : X]
    BY <1>3, <1>5, <2>1
  <2> QED
    BY <1>1, <1>2, <2>2 DEF AttTask
<1> QED
  BY <1>4, <1>5

LEMMA GoesTurns ==
    ASSUME AttsTypeOK, AttsStay, NEW k \in Keeper, NEW w \in work[k], w.does # "insert",
           NEW half, half = First(w), Goes(k, w, half)
    PROVE  \E S : /\ Turned(k, S)
                  /\ \A v \in S : /\ v.does = w.does
                                  /\ v.does = "blob" /\ "file" \notin v.todo =>
                                         half = "file" /\ NextOf(v).loc = NextOf(w).loc
<1>1. PICK d, T, L : d = w.does /\ T = w.todo /\ L = w.list
  OBVIOUS
<1>2. /\ d \in {"delete", "purge", "blob"} /\ L # {} /\ L \in SUBSET Copy
      /\ w = [does |-> d, todo |-> T, list |-> L]
      /\ T = Halves(d) \/ (d = "blob" /\ T = {"row"})
  BY <1>1, TaskIs DEF Halves
<1>3. AttTask \subseteq AttTask'
  BY TypesGrow
<1>4. PICK n : n = NextOf(w)
  OBVIOUS
<1>5. n \in L
  BY <1>1, <1>4, NextIn
<1>6. CASE T = {half} /\ L = {n}
  <2>1. PICK S : S = {}
    OBVIOUS
  <2>2. work' = [work EXCEPT ![k] = S]
    BY <1>1, <1>4, <1>6, <2>1 DEF Goes, Remaining
  <2>3. Turned(k, S)
    BY <2>1, <2>2 DEF Turned, Alike
  <2> QED
    BY <2>1, <2>3
<1>7. CASE T = {half} /\ L # {n}
  <2>1. PICK U, M : U = Halves(d) /\ M = L \ {n}
    OBVIOUS
  <2>2. M \in SUBSET Copy /\ M # {}
    BY <1>2, <1>5, <1>7, <2>1
  <2>3. PICK v : v = [does |-> d, todo |-> U, list |-> M]
    OBVIOUS
  <2>4. v \in AttTask /\ v.does = d /\ v.todo = U
    BY <1>2, <2>1, <2>2, <2>3, RemovalIs
  <2>5. [w EXCEPT !.todo = U, !.list = M] = v
    <3>1. PICK e : e = [w EXCEPT !.todo = U]
      OBVIOUS
    <3>2. e = [does |-> d, todo |-> U, list |-> L]
      BY <1>2, <3>1
    <3>3. [e EXCEPT !.list = M] = v
      BY <2>3, <3>2
    <3> QED
      BY <3>1, <3>3
  <2>6. work' = [work EXCEPT ![k] = {[w EXCEPT !.todo = U, !.list = M]}]
    BY <1>1, <1>4, <1>7, <2>1 DEF Goes, Remaining
  <2>7. work' = [work EXCEPT ![k] = {v}]
    BY <2>5, <2>6
  <2>8. Turned(k, {v})
    BY <1>3, <2>4, <2>7 DEF Turned, Alike
  <2>9. v.does = "blob" => "file" \in v.todo
    BY <2>1, <2>4 DEF Halves
  <2> QED
    BY <1>1, <2>4, <2>8, <2>9
<1>8. CASE T # {half}
  <2>1. half = "file" /\ d = "blob" /\ T \ {half} = {"row"}
    BY <1>1, <1>2, <1>8 DEF Halves, First
  <2>2. PICK U : U = {"row"}
    OBVIOUS
  <2>3. PICK v : v = [does |-> d, todo |-> U, list |-> L]
    OBVIOUS
  <2>4. v \in AttTask /\ v.does = d /\ v.todo = U /\ v.list = L
    BY <1>2, <2>1, <2>2, <2>3, RemovalIs
  <2>5. [w EXCEPT !.todo = U] = v
    BY <1>2, <2>3
  <2>6. work' = [work EXCEPT ![k] = {[w EXCEPT !.todo = U]}]
    BY <1>1, <1>8, <2>1, <2>2 DEF Goes
  <2>7. work' = [work EXCEPT ![k] = {v}]
    BY <2>5, <2>6
  <2>8. Turned(k, {v})
    BY <1>3, <2>4, <2>7 DEF Turned, Alike
  <2>9. NextOf(v) = NextOf(w)
    BY <1>1, <2>4 DEF NextOf
  <2> QED
    BY <1>1, <2>1, <2>4, <2>8, <2>9
<1> QED
  BY <1>6, <1>7, <1>8

\* Files that nobody names or holds stay known as such.
LEMMA OrphansHeld ==
    ASSUME OrphansKnown, AttsTypeOK, NEW k \in Keeper, NEW H, Given(k, H),
           givenUp \cup LeftBy(k, H) \subseteq givenUp', files' = files,
           \A l : Named(l) => Named(l)'
    PROVE  OrphansKnown'
<1>1. held'[k] = H /\ \A j \in Keeper : j # k => held'[j] = held[j]
  BY DEF AttsTypeOK, Given
<1>2. 0 \notin files
  BY DEF AttsTypeOK
<1>3. ASSUME NEW l \in files' \ givenUp'
      PROVE  Named(l)' \/ \E j \in Keeper : \E h \in held'[j] : h.loc = l
  <2>1. l \in files \ givenUp /\ l # 0 /\ l \notin LeftBy(k, H)
    BY <1>2, <1>3
  <2>2. CASE Named(l)
    BY <2>2
  <2>3. CASE ~Named(l)
    <3>1. PICK j \in Keeper : \E h \in held[j] : h.loc = l
      BY <2>1, <2>3 DEF OrphansKnown
    <3>2. PICK h \in held[j] : h.loc = l
      BY <3>1
    <3>3. CASE j # k
      BY <1>1, <3>2, <3>3
    <3>4. CASE j = k
      <4>1. h \in H
        BY <2>1, <2>3, <3>2, <3>4 DEF LeftBy
      <4> QED
        BY <1>1, <3>2, <4>1
    <3> QED
      BY <3>3, <3>4
  <2> QED
    BY <2>2, <2>3
<1> QED
  BY <1>3 DEF OrphansKnown

LEMMA OrphansStay ==
    ASSUME OrphansKnown, held' = held, files' \ givenUp' \subseteq files \ givenUp,
           \A l \in files' \ givenUp' : Named(l) => Named(l)'
    PROVE  OrphansKnown'
<1>1. ASSUME NEW l \in files' \ givenUp'
      PROVE  Named(l)' \/ \E j \in Keeper : \E h \in held'[j] : h.loc = l
  BY <1>1 DEF OrphansKnown
<1> QED
  BY <1>1 DEF OrphansKnown

LEMMA BlobsStay ==
    ASSUME BlobsGone, AttsTypeOK, NEW k \in Keeper, NEW S, Turned(k, S),
           files' \ givenUp' \subseteq files \ givenUp,
           \A w \in S : w.does = "blob" /\ "file" \notin w.todo => NextOf(w).loc \notin files' \ givenUp'
    PROVE  BlobsGone'
<1>1. work'[k] = S /\ \A j \in Keeper : j # k => work'[j] = work[j]
  BY DEF AttsTypeOK, Turned
<1>2. ASSUME NEW j \in Keeper, NEW w \in work'[j], w.does = "blob", "file" \notin w.todo
      PROVE  NextOf(w).loc \notin files' \ givenUp'
  <2>1. CASE j = k
    BY <1>1, <1>2, <2>1
  <2>2. CASE j # k
    BY <1>1, <1>2, <2>2 DEF BlobsGone
  <2> QED
    BY <2>1, <2>2
<1>3. \A w : NextOf(w)' = NextOf(w)
  BY DEF NextOf
<1> QED
  BY <1>2, <1>3 DEF BlobsGone

\* Nobody becomes live whose name is not known to have been raced.
LEMMA NamesStay ==
    ASSUME SeesRight, OneLive, AttsTypeOK, NEW k \in Keeper, NEW S, Turned(k, S),
           doubled \subseteq doubled',
           \A n \in AttName : n \notin doubled' => LiveAtts({n})' \subseteq LiveAtts({n}),
           \A w \in S : w.does = "insert" =>
               /\ w.name \in AttName
               /\ w.name \notin doubled' => \A i \in LiveAtts({w.name}) : i > w.seen
    PROVE  SeesRight' /\ OneLive'
<1>1. work'[k] = S /\ \A j \in Keeper : j # k => work'[j] = work[j]
  BY DEF AttsTypeOK, Turned
<1>2. OneLive'
  BY DEF OneLive, Alike
<1>3. ASSUME NEW j \in Keeper, NEW w \in work'[j], w.does = "insert", w.name \notin doubled'
      PROVE  \A i \in LiveAtts({w.name})' : i > w.seen
  <2>1. w.name \in AttName
    BY <1>1, <1>3, TaskIs
  <2>2. \A i \in LiveAtts({w.name}) : i > w.seen
    BY <1>1, <1>3 DEF SeesRight
  <2> QED
    BY <1>3, <2>1, <2>2
<1> QED
  BY <1>2, <1>3 DEF SeesRight

LEMMA SeqGrows == ASSUME NEW A, NEW B, A \subseteq B, NEW s \in Seq(A) PROVE s \in Seq(B)
<1>1. \A i \in 1 .. Len(s) : s[i] \in B
  BY ElementOfSeq
<1> QED
  BY <1>1

\* Statements that write no row.
LEMMA SameRows ==
    ASSUME AttsTypeOK, atts' = atts, invented' \in invented .. MaxLocations
    PROVE  /\ AttsStay /\ RowsFit
           /\ \A names : LiveAtts(names)' = LiveAtts(names)
           /\ \A l : Named(l)' = Named(l)
<1>1. /\ atts \in Seq(Att) /\ Len(atts) =< MaxAtts /\ invented \in 0 .. MaxLocations
      /\ MaxLocations \in Nat
  BY AttachmentsAssumption DEF AttsTypeOK
<1>2. invented' \in 0 .. MaxLocations /\ invented =< invented'
  BY <1>1
<1>3. AttsStay
  BY <1>1, <1>2 DEF AttsStay, Location
<1>4. Att \subseteq Att'
  BY <1>3, TypesGrow
<1>5. atts' \in Seq(Att')
  BY <1>1, <1>4, SeqGrows
<1>6. RowsFit
  BY <1>1, <1>2, <1>5 DEF RowsFit
<1>7. (\A names : LiveAtts(names)' = LiveAtts(names)) /\ (\A l : Named(l)' = Named(l))
  BY DEF LiveAtts, Named
<1> QED
  BY <1>3, <1>6, <1>7

LEMMA StillInvented == AttsTypeOK /\ invented' = invented => invented' \in invented .. MaxLocations
BY AttachmentsAssumption DEF AttsTypeOK

LEMMA AttCallsCount == AttsTypeOK /\ (AttCalled \/ UNCHANGED attCalls) => attCalls' \in 0 .. MaxAttCalls
<1>1. AttsTypeOK => attCalls \in 0 .. MaxAttCalls
  BY DEF AttsTypeOK
<1>2. MaxAttCalls \in Nat
  BY AttachmentsAssumption
<1>3. ASSUME AttsTypeOK, attCalls < MaxAttCalls, attCalls' = attCalls + 1
      PROVE  attCalls' \in 0 .. MaxAttCalls
  BY <1>1, <1>2, <1>3
<1> QED
  BY <1>1, <1>3 DEF AttCalled

\* What is given up when an instance goes is a location that was invented.
LEMMA LeftIn == ASSUME AttsTypeOK, NEW k \in Keeper, NEW H PROVE LeftBy(k, H) \subseteq 1 .. invented
<1>1. ASSUME NEW h \in held[k], h.loc # 0 PROVE h.loc \in 1 .. invented
  <2>1. h.loc \in 0 .. invented /\ invented \in 0 .. MaxLocations
    BY HeldOf DEF Location, AttsTypeOK
  <2> QED
    BY <1>1, <2>1
<1> QED
  BY <1>1 DEF LeftBy

LEMMA CreateAttachmentStep ==
    AttsOK /\ (\E k \in Keeper, n \in AttName : CreateAttachment(k, n)) => AttsOK'
<1> SUFFICES ASSUME AttsOK, NEW k \in Keeper, NEW n \in AttName, CreateAttachment(k, n)
             PROVE  AttsOK'
  OBVIOUS
<1>1. AttsTypeOK /\ UNCHANGED <<atts, files, blobdir, invented, held, doubled, givenUp>>
  BY DEF CreateAttachment, AttsOK
<1>2. /\ AttsStay /\ RowsFit /\ \A names : LiveAtts(names)' = LiveAtts(names)
      /\ \A l : Named(l)' = Named(l)
  BY <1>1, StillInvented, SameRows
<1>3. PICK s \in {0, Len(atts)} :
        /\ s # 0 => NameFree(n)
        /\ Works(k, [does |-> "insert", name |-> n, seen |-> s])
  BY DEF CreateAttachment
<1>4. PICK w : w = [does |-> "insert", name |-> n, seen |-> s]
  OBVIOUS
<1>5. Len(atts) \in Nat
  BY <1>1 DEF AttsTypeOK
<1>6. w \in AttTask /\ w.does = "insert" /\ w.name = n /\ w.seen = s
  BY <1>3, <1>4, <1>5 DEF AttTask
<1>7. Turned(k, {w})
  BY <1>2, <1>3, <1>4, <1>6, TypesGrow DEF Turned, Works, Alike
<1>8. PICK H : H = held[k] /\ Given(k, H)
  BY <1>1, <1>2, HeldStays
<1>9. FilesFit
  BY <1>1, AttCallsCount DEF FilesFit, AttsTypeOK, CreateAttachment
<1>10. AttsTypeOK'
  BY <1>1, <1>2, <1>7, <1>8, <1>9, AttTypes
<1>11. \A i \in LiveAtts({n}) : i > w.seen
  <2>1. CASE s = 0
    <3>1. \A i \in LiveAtts({n}) : i \in 1 .. Len(atts)
      BY <1>1 DEF LiveAtts, AttsTypeOK
    <3> QED
      BY <1>5, <1>6, <2>1, <3>1
  <2>2. CASE s # 0
    BY <1>3, <2>2 DEF NameFree
  <2> QED
    BY <2>1, <2>2
<1>12. SeesRight' /\ OneLive'
  BY <1>1, <1>2, <1>6, <1>7, <1>11, NamesStay DEF AttsOK
<1>13. BlobsGone'
  BY <1>1, <1>6, <1>7, BlobsStay DEF AttsOK
<1>14. OrphansKnown'
  BY <1>1, <1>2, OrphansStay DEF AttsOK
<1> QED
  BY <1>10, <1>12, <1>13, <1>14 DEF AttsOK

LEMMA AttAdded ==
    ASSUME AttsTypeOK, Len(atts) < MaxAtts, NEW n \in AttName, invented' = invented,
           NEW r, r = [name |-> n, loc |-> 0, state |-> "live"], atts' = Append(atts, r),
           NEW i, i = Len(atts) + 1
    PROVE  /\ AttsStay /\ RowsFit /\ i \in DOMAIN atts'
           /\ \A m \in AttName : m # n => LiveAtts({m})' = LiveAtts({m})
           /\ LiveAtts({n})' = LiveAtts({n}) \cup {i}
           /\ \A l : Named(l) => Named(l)'
<1>1. /\ atts \in Seq(Att) /\ Len(atts) \in Nat /\ DOMAIN atts = 1 .. Len(atts)
      /\ invented \in 0 .. MaxLocations /\ MaxLocations \in Nat /\ MaxAtts \in Nat
  BY AttachmentsAssumption DEF AttsTypeOK
<1>2. r \in Att /\ r.name = n /\ r.loc = 0 /\ r.state = "live"
  BY <1>1 DEF Att, Location
<1>3. /\ atts' \in Seq(Att) /\ Len(atts') = Len(atts) + 1
      /\ \A j \in 1 .. Len(atts) : atts'[j] = atts[j]
      /\ atts'[i] = r
  BY <1>1, <1>2, AppendProperties
<1>4. DOMAIN atts' = DOMAIN atts \cup {i} /\ i \notin DOMAIN atts
  BY <1>1, <1>3
<1>5. AttsStay
  BY <1>1, <1>3, <1>4 DEF AttsStay, Location
<1>6. Att' = Att
  BY DEF Att, Location
<1>7. RowsFit
  BY <1>1, <1>3, <1>6 DEF RowsFit
<1>8. \A j \in DOMAIN atts : atts'[j] = atts[j]
  BY <1>1, <1>3
<1>9. \A m \in AttName : m # n => LiveAtts({m})' = LiveAtts({m})
  BY <1>2, <1>3, <1>4, <1>8 DEF LiveAtts
<1>10. LiveAtts({n})' = LiveAtts({n}) \cup {i}
  BY <1>2, <1>3, <1>4, <1>8 DEF LiveAtts
<1>11. \A l : Named(l) => Named(l)'
  BY <1>4, <1>8 DEF Named
<1> QED
  BY <1>4, <1>5, <1>7, <1>9, <1>10, <1>11

LEMMA InsertAttachmentStep == AttsOK /\ (\E k \in Keeper : InsertAttachment(k)) => AttsOK'
<1> SUFFICES ASSUME AttsOK, NEW k \in Keeper, InsertAttachment(k) PROVE AttsOK'
  OBVIOUS
<1>1. AttsTypeOK /\ UNCHANGED <<files, blobdir, invented, attCalls>>
  BY DEF InsertAttachment, AttsOK
<1>2. PICK w \in work[k] :
        /\ w.does = "insert" /\ Len(atts) < MaxAtts
        /\ atts' = Append(atts, [name |-> w.name, loc |-> 0, state |-> "live"])
        /\ held' = [held EXCEPT ![k] = {[row |-> Len(atts) + 1, loc |-> 0]}]
        /\ givenUp' = givenUp \cup LeftBy(k, {})
        /\ doubled' = IF \E i \in LiveAtts({w.name}) : i > w.seen
                      THEN doubled \cup {w.name} ELSE doubled
        /\ AttReturns(k)
  BY DEF InsertAttachment
<1>3. PICK n : n = w.name
  OBVIOUS
<1>4. n \in AttName
  BY <1>1, <1>2, <1>3, TaskIs
<1>5. PICK i : i = Len(atts) + 1
  OBVIOUS
<1>6. PICK r : r = [name |-> n, loc |-> 0, state |-> "live"]
  OBVIOUS
<1>7. /\ AttsStay /\ RowsFit /\ i \in DOMAIN atts'
      /\ \A m \in AttName : m # n => LiveAtts({m})' = LiveAtts({m})
      /\ LiveAtts({n})' = LiveAtts({n}) \cup {i}
      /\ \A l : Named(l) => Named(l)'
  BY <1>1, <1>2, <1>3, <1>4, <1>5, <1>6, AttAdded
<1>8. PICK S : S = {} /\ Turned(k, S)
  BY <1>2, CallReturns
<1>9. PICK c : c = [row |-> i, loc |-> 0]
  OBVIOUS
<1>10. c \in Copy' /\ c.loc = 0
  <2>1. 0 \in Location'
    BY <1>1 DEF Location, AttsTypeOK
  <2> QED
    BY <1>7, <1>9, <2>1 DEF Copy
<1>11. Given(k, {c})
  BY <1>2, <1>5, <1>9, <1>10 DEF Given, Alike
<1>12. FilesFit
  <2>1. givenUp' \subseteq 1 .. invented' /\ doubled' \subseteq AttName
    BY <1>1, <1>2, <1>3, <1>4, LeftIn DEF AttsTypeOK
  <2> QED
    BY <1>1, <2>1 DEF FilesFit, AttsTypeOK
<1>13. AttsTypeOK'
  BY <1>1, <1>7, <1>8, <1>11, <1>12, AttTypes
<1>14. doubled \subseteq doubled'
  BY <1>2
<1>15. n \notin doubled' => LiveAtts({n}) = {}
  BY <1>2, <1>3 DEF AttsOK, SeesRight
<1>16. OneLive'
  <2>1. ASSUME NEW m \in AttName, m \notin doubled' PROVE Alike(LiveAtts({m})')
    <3>1. CASE m = n
      BY <1>7, <1>15, <2>1, <3>1 DEF Alike
    <3>2. CASE m # n
      BY <1>7, <1>14, <2>1, <3>2 DEF AttsOK, OneLive
    <3> QED
      BY <3>1, <3>2
  <2> QED
    BY <2>1 DEF OneLive, Alike
<1>17. SeesRight'
  <2>1. work'[k] = {} /\ \A j \in Keeper : j # k => work'[j] = work[j]
    BY <1>1, <1>8 DEF Turned, AttsTypeOK
  <2>2. ASSUME NEW j \in Keeper, NEW v \in work'[j], v.does = "insert", v.name \notin doubled'
        PROVE  \A q \in LiveAtts({v.name})' : q > v.seen
    <3>1. v \in work[j] /\ v.name \notin doubled
      BY <1>14, <2>1, <2>2
    <3>2. v.name \in AttName /\ v.seen \in 0 .. Len(atts) /\ Len(atts) \in Nat
      BY <1>1, <2>2, <3>1, TaskIs DEF AttsTypeOK
    <3>3. \A q \in LiveAtts({v.name}) : q > v.seen
      BY <2>2, <3>1 DEF AttsOK, SeesRight
    <3>4. i > v.seen
      BY <1>5, <3>2
    <3>5. LiveAtts({v.name})' \subseteq LiveAtts({v.name}) \cup {i}
      BY <1>7, <3>2
    <3> QED
      BY <3>3, <3>4, <3>5
  <2> QED
    BY <2>2 DEF SeesRight
<1>18. BlobsGone'
  BY <1>1, <1>2, <1>8, BlobsStay DEF AttsOK
<1>19. LeftBy(k, {c}) \subseteq LeftBy(k, {})
  BY DEF LeftBy
<1>20. OrphansKnown'
  BY <1>1, <1>2, <1>7, <1>11, <1>19, OrphansHeld DEF AttsOK
<1> QED
  BY <1>13, <1>16, <1>17, <1>18, <1>20 DEF AttsOK

\* Only the instance of a program is another one.
LEMMA InstanceStep ==
    ASSUME AttsOK, NEW k \in Keeper, NEW H, H \subseteq Copy', Alike(H),
           held' = [held EXCEPT ![k] = H], givenUp' = givenUp \cup LeftBy(k, H),
           NEW S, S = work[k] \/ S = {}, work' = [work EXCEPT ![k] = S],
           invented' \in invented .. MaxLocations,
           UNCHANGED <<atts, files, blobdir, doubled, attCalls>>
    PROVE  AttsOK'
<1>1. AttsTypeOK
  BY DEF AttsOK
<1>2. /\ AttsStay /\ RowsFit /\ \A names : LiveAtts(names)' = LiveAtts(names)
      /\ \A l : Named(l)' = Named(l)
  BY <1>1, SameRows
<1>3. Given(k, H)
  BY DEF Given
<1>4. Turned(k, S)
  <2>1. S \subseteq AttTask /\ Alike(S)
    BY <1>1 DEF AttsTypeOK, Alike
  <2> QED
    BY <1>2, <2>1, TypesGrow DEF Turned
<1>5. FilesFit
  <2>1. 1 .. invented \subseteq 1 .. invented'
    BY <1>1, AttachmentsAssumption DEF AttsTypeOK
  <2>2. LeftBy(k, H) \subseteq 1 .. invented
    BY <1>1, LeftIn
  <2> QED
    BY <1>1, <2>1, <2>2 DEF FilesFit, AttsTypeOK
<1>6. AttsTypeOK'
  BY <1>1, <1>2, <1>3, <1>4, <1>5, AttTypes
<1>7. \A w \in S : w \in work[k]
  OBVIOUS
<1>8. SeesRight' /\ OneLive'
  <2>1. \A w \in S : w.does = "insert" =>
            /\ w.name \in AttName
            /\ w.name \notin doubled' => \A i \in LiveAtts({w.name}) : i > w.seen
    BY <1>1, <1>7, TaskIs DEF AttsOK, SeesRight
  <2> QED
    BY <1>1, <1>2, <1>4, <2>1, NamesStay DEF AttsOK
<1>9. files' \ givenUp' \subseteq files \ givenUp
  OBVIOUS
<1>10. BlobsGone'
  <2>1. \A w \in S : w.does = "blob" /\ "file" \notin w.todo => NextOf(w).loc \notin files' \ givenUp'
    BY <1>7, <1>9 DEF AttsOK, BlobsGone
  <2> QED
    BY <1>1, <1>4, <1>9, <2>1, BlobsStay DEF AttsOK
<1>11. OrphansKnown'
  BY <1>1, <1>2, <1>3, OrphansHeld DEF AttsOK
<1> QED
  BY <1>6, <1>8, <1>10, <1>11 DEF AttsOK

LEMMA FetchAttachmentStep == AttsOK /\ (\E k \in Keeper : FetchAttachment(k)) => AttsOK'
<1> SUFFICES ASSUME AttsOK, NEW k \in Keeper, FetchAttachment(k) PROVE AttsOK'
  OBVIOUS
<1>1. AttsTypeOK /\ UNCHANGED <<atts, files, blobdir, invented, work, doubled, attCalls>>
  BY DEF FetchAttachment, AttsOK
<1>2. PICK i \in LiveAtts(AttName) :
        /\ held' = [held EXCEPT ![k] = {[row |-> i, loc |-> atts[i].loc]}]
        /\ givenUp' = givenUp \cup LeftBy(k, held'[k])
  BY DEF FetchAttachment
<1>3. PICK c : c = [row |-> i, loc |-> atts[i].loc]
  OBVIOUS
<1>4. i \in DOMAIN atts /\ atts[i].loc \in Location
  BY <1>1, AttOf DEF LiveAtts
<1>5. PICK H : H = {c}
  OBVIOUS
<1>6. H \subseteq Copy' /\ Alike(H)
  BY <1>1, <1>3, <1>4, <1>5 DEF Copy, Location, Alike
<1>7. held' = [held EXCEPT ![k] = H]
  BY <1>2, <1>3, <1>5
<1>8. held'[k] = H
  BY <1>1, <1>7 DEF AttsTypeOK
<1>9. work' = [work EXCEPT ![k] = work[k]]
  BY <1>1 DEF AttsTypeOK
<1>10. invented' \in invented .. MaxLocations
  BY <1>1, StillInvented
<1>11. PICK S : S = work[k]
  OBVIOUS
<1> QED
  BY <1>1, <1>2, <1>6, <1>7, <1>8, <1>9, <1>10, <1>11, InstanceStep

LEMMA NewBlobStep == AttsOK /\ (\E k \in Keeper : NewBlob(k)) => AttsOK'
<1> SUFFICES ASSUME AttsOK, NEW k \in Keeper, NewBlob(k) PROVE AttsOK'
  OBVIOUS
<1>1. AttsTypeOK /\ UNCHANGED <<atts, files, blobdir, work, doubled, givenUp, attCalls>>
  BY DEF NewBlob, AttsOK
<1>2. PICK h \in held[k] :
        /\ h.loc = 0 /\ invented < MaxLocations /\ invented' = invented + 1
        /\ held' = [held EXCEPT ![k] = {[h EXCEPT !.loc = invented']}]
  BY DEF NewBlob
<1>3. held[k] = {h} /\ h.row \in DOMAIN atts /\ h = [row |-> h.row, loc |-> h.loc]
  BY <1>1, HeldOf
<1>4. invented \in Nat /\ MaxLocations \in Nat
  BY <1>1, AttachmentsAssumption DEF AttsTypeOK
<1>5. invented' \in invented .. MaxLocations /\ invented' \in Location'
  BY <1>2, <1>4 DEF Location
<1>6. PICK c : c = [h EXCEPT !.loc = invented']
  OBVIOUS
<1>7. c = [row |-> h.row, loc |-> invented']
  BY <1>3, <1>6
<1>8. PICK H : H = {c}
  OBVIOUS
<1>9. H \subseteq Copy' /\ Alike(H)
  BY <1>1, <1>3, <1>5, <1>7, <1>8 DEF Copy, Alike
<1>10. held' = [held EXCEPT ![k] = H]
  BY <1>2, <1>6, <1>8
<1>11. LeftBy(k, H) = {}
  BY <1>2, <1>3 DEF LeftBy
<1>12. PICK S : S = work[k]
  OBVIOUS
<1>13. work' = [work EXCEPT ![k] = S]
  BY <1>1, <1>12 DEF AttsTypeOK
<1> QED
  BY <1>1, <1>5, <1>9, <1>10, <1>11, <1>12, <1>13, InstanceStep

LEMMA DieWorkingStep == AttsOK /\ (\E k \in Keeper : DieWorking(k)) => AttsOK'
<1> SUFFICES ASSUME AttsOK, NEW k \in Keeper, DieWorking(k) PROVE AttsOK'
  OBVIOUS
<1>1. AttsTypeOK /\ UNCHANGED <<atts, files, blobdir, invented, doubled, attCalls>>
  BY DEF DieWorking, AttsOK
<1>2. PICK H : H = {}
  OBVIOUS
<1>3. /\ held' = [held EXCEPT ![k] = H] /\ givenUp' = givenUp \cup LeftBy(k, H)
      /\ work' = [work EXCEPT ![k] = H]
  BY <1>2 DEF DieWorking, AttReturns
<1>4. H \subseteq Copy' /\ Alike(H)
  BY <1>2 DEF Alike
<1>5. invented' \in invented .. MaxLocations
  BY <1>1, StillInvented
<1> QED
  BY <1>1, <1>2, <1>3, <1>4, <1>5, InstanceStep

\* A call goes on, rows are written and files removed; no instance changes.
Doubles == \A n \in AttName : n \notin doubled' => LiveAtts({n})' \subseteq LiveAtts({n})
GivesUp ==
    /\ doubled \subseteq doubled' /\ doubled' \subseteq AttName
    /\ files' \subseteq files /\ givenUp \subseteq givenUp' /\ givenUp' \subseteq 1 .. invented
    /\ \A l \in files' \ givenUp' : Named(l) => Named(l)'
FilesDone(k, S) == \A w \in S :
    /\ w.does = "insert" => w \in work[k]
    /\ w.does = "blob" /\ "file" \notin w.todo => NextOf(w).loc \notin files' \ givenUp'

LEMMA CallStep ==
    ASSUME AttsOK, AttsStay, RowsFit, UNCHANGED <<blobdir, invented, held>>,
           attCalls' \in 0 .. MaxAttCalls, Doubles, GivesUp,
           NEW k \in Keeper, NEW S, Turned(k, S), FilesDone(k, S)
    PROVE  AttsOK'
<1>1. AttsTypeOK
  BY DEF AttsOK
<1>2. PICK H : H = held[k] /\ Given(k, H)
  BY <1>1, HeldStays
<1>3. FilesFit
  BY <1>1 DEF FilesFit, AttsTypeOK, GivesUp
<1>4. AttsTypeOK'
  BY <1>1, <1>2, <1>3, AttTypes
<1>5. SeesRight' /\ OneLive'
  <2>1. \A w \in S : w.does = "insert" =>
            /\ w.name \in AttName
            /\ w.name \notin doubled' => \A i \in LiveAtts({w.name}) : i > w.seen
    BY <1>1, TaskIs DEF AttsOK, SeesRight, GivesUp, FilesDone
  <2> QED
    BY <1>1, <2>1, NamesStay DEF AttsOK, Doubles, GivesUp
<1>6. files' \ givenUp' \subseteq files \ givenUp
  BY DEF GivesUp
<1>7. BlobsGone'
  BY <1>1, <1>6, BlobsStay DEF AttsOK, FilesDone
<1>8. OrphansKnown'
  BY <1>6, OrphansStay DEF AttsOK, GivesUp
<1> QED
  BY <1>4, <1>5, <1>7, <1>8 DEF AttsOK

\* A call that is where it was.
LEMMA FilesStay ==
    ASSUME AttsOK, GivesUp, NEW k \in Keeper, NEW S, S = work[k]
    PROVE  FilesDone(k, S)
<1>1. files' \ givenUp' \subseteq files \ givenUp
  BY DEF GivesUp
<1> QED
  BY <1>1 DEF AttsOK, BlobsGone, FilesDone

LEMMA RemoveFileStep == AttsOK /\ (\E k \in Keeper : RemoveFile(k)) => AttsOK'
<1> SUFFICES ASSUME AttsOK, NEW k \in Keeper, RemoveFile(k) PROVE AttsOK'
  OBVIOUS
<1>1. AttsTypeOK /\ UNCHANGED <<atts, blobdir, invented, held, work, doubled, givenUp, attCalls>>
  BY DEF RemoveFile, AttsOK
<1>2. files' \subseteq files
  BY DEF RemoveFile
<1>3. /\ AttsStay /\ RowsFit /\ \A names : LiveAtts(names)' = LiveAtts(names)
      /\ \A l : Named(l)' = Named(l)
  BY <1>1, StillInvented, SameRows
<1>4. GivesUp /\ Doubles
  BY <1>1, <1>2, <1>3 DEF GivesUp, Doubles, AttsTypeOK
<1>5. PICK S : S = work[k] /\ Turned(k, S)
  BY <1>1, <1>3, CallStays
<1>6. attCalls' \in 0 .. MaxAttCalls
  BY <1>1, AttCallsCount
<1> QED
  BY <1>1, <1>3, <1>4, <1>5, <1>6, FilesStay, CallStep

LEMMA WriteContentStep == AttsOK /\ (\E k \in Keeper : WriteContent(k)) => AttsOK'
<1> SUFFICES ASSUME AttsOK, NEW k \in Keeper, WriteContent(k) PROVE AttsOK'
  OBVIOUS
<1>1. AttsTypeOK /\ UNCHANGED <<atts, blobdir, invented, held, work, doubled, attCalls>>
  BY DEF WriteContent, AttsOK
<1>2. PICK h \in held[k] :
        /\ h.loc \notin files \cup {0} /\ files' = files \cup {h.loc}
        /\ givenUp' = IF \E j \in Keeper : \E w \in work[j] :
                              w.does = "blob" /\ "file" \notin w.todo /\ NextOf(w).loc = h.loc
                      THEN givenUp \cup {h.loc} ELSE givenUp
  BY DEF WriteContent
<1>3. /\ AttsStay /\ RowsFit /\ \A names : LiveAtts(names)' = LiveAtts(names)
      /\ \A l : Named(l)' = Named(l)
  BY <1>1, StillInvented, SameRows
<1>4. PICK S : S = work[k] /\ Turned(k, S)
  BY <1>1, <1>3, CallStays
<1>5. PICK H : H = held[k] /\ Given(k, H)
  BY <1>1, <1>3, HeldStays
<1>6. h.loc \in 1 .. invented
  <2>1. h.loc \in 0 .. invented /\ invented \in 0 .. MaxLocations
    BY <1>1, HeldOf DEF Location, AttsTypeOK
  <2> QED
    BY <1>2, <2>1
<1>7. attCalls' \in 0 .. MaxAttCalls
  BY <1>1, AttCallsCount
<1>8. FilesFit
  <2>1. files' \subseteq files \cup {h.loc} /\ givenUp' \subseteq givenUp \cup {h.loc}
    BY <1>2
  <2>2. files \subseteq 1 .. invented /\ givenUp \subseteq 1 .. invented
    BY <1>1 DEF AttsTypeOK
  <2>3. files' \subseteq 1 .. invented' /\ givenUp' \subseteq 1 .. invented'
    BY <1>1, <1>6, <2>1, <2>2
  <2> QED
    BY <1>1, <1>7, <2>3 DEF FilesFit, AttsTypeOK
<1>9. AttsTypeOK'
  BY <1>1, <1>3, <1>4, <1>5, <1>8, AttTypes
<1>10. SeesRight' /\ OneLive'
  BY <1>1, <1>3 DEF AttsOK, SeesRight, OneLive, Alike
<1>11. BlobsGone'
  <2>1. ASSUME NEW j \in Keeper, NEW w \in work'[j], w.does = "blob", "file" \notin w.todo
        PROVE  NextOf(w).loc \notin files' \ givenUp'
    <3>1. w \in work[j] /\ NextOf(w).loc \notin files \ givenUp
      BY <1>1, <2>1 DEF AttsOK, BlobsGone
    <3>2. NextOf(w).loc = h.loc => h.loc \in givenUp'
      BY <1>2, <2>1, <3>1
    <3>3. givenUp \subseteq givenUp'
      BY <1>2
    <3> QED
      BY <1>2, <3>1, <3>2, <3>3
  <2>2. \A w : NextOf(w)' = NextOf(w)
    BY DEF NextOf
  <2> QED
    BY <2>1, <2>2 DEF BlobsGone
<1>12. OrphansKnown'
  <2>1. ASSUME NEW l \in files' \ givenUp'
        PROVE  Named(l)' \/ \E j \in Keeper : \E g \in held'[j] : g.loc = l
    <3>1. CASE l = h.loc
      BY <1>1, <3>1
    <3>2. CASE l # h.loc
      BY <1>1, <1>2, <1>3, <2>1, <3>2 DEF AttsOK, OrphansKnown
    <3> QED
      BY <3>1, <3>2
  <2> QED
    BY <2>1 DEF OrphansKnown
<1> QED
  BY <1>9, <1>10, <1>11, <1>12 DEF AttsOK

LEMMA RemoveAttachmentsStep ==
    ASSUME AttsOK, NEW k \in Keeper, NEW how \in {"delete", "purge", "blob"},
           NEW names \in SUBSET AttName, RemoveAttachments(k, how, names)
    PROVE  AttsOK'
<1>1. AttsTypeOK /\ UNCHANGED <<atts, files, blobdir, invented, held, doubled, givenUp>>
  BY DEF RemoveAttachments, AttsOK
<1>2. /\ AttsStay /\ RowsFit /\ \A ns : LiveAtts(ns)' = LiveAtts(ns)
      /\ \A l : Named(l)' = Named(l)
  BY <1>1, StillInvented, SameRows
<1>3. PICK L, T : L = {[row |-> i, loc |-> atts[i].loc] : i \in LiveAtts(names)} /\ T = Halves(how)
  OBVIOUS
<1>4. \A i \in LiveAtts(names) : [row |-> i, loc |-> atts[i].loc] \in Copy
  BY <1>1, AttOf DEF Copy, LiveAtts
<1>5. L \in SUBSET Copy
  BY <1>3, <1>4
<1>6. L # {}
  BY <1>3 DEF RemoveAttachments
<1>7. PICK w : w = [does |-> how, todo |-> T, list |-> L]
  OBVIOUS
<1>8. w \in AttTask /\ w.does = how /\ w.todo = T
  BY <1>3, <1>5, <1>6, <1>7, RemovalIs
<1>9. work' = [work EXCEPT ![k] = {w}]
  BY <1>3, <1>7 DEF RemoveAttachments, Works
<1>10. Turned(k, {w})
  BY <1>2, <1>8, <1>9, TypesGrow DEF Turned, Alike
<1>11. GivesUp /\ Doubles
  BY <1>1, <1>2 DEF GivesUp, Doubles, AttsTypeOK
<1>12. FilesDone(k, {w})
  BY <1>3, <1>8 DEF FilesDone, Halves
<1>13. attCalls' \in 0 .. MaxAttCalls
  BY <1>1, AttCallsCount DEF RemoveAttachments
<1> QED
  BY <1>1, <1>2, <1>10, <1>11, <1>12, <1>13, CallStep

LEMMA RemoveBlobStep == AttsOK /\ (\E k \in Keeper : RemoveBlob(k)) => AttsOK'
<1> SUFFICES ASSUME AttsOK, NEW k \in Keeper, RemoveBlob(k) PROVE AttsOK'
  OBVIOUS
<1>1. AttsTypeOK /\ UNCHANGED <<atts, blobdir, invented, held, doubled, attCalls>>
  BY DEF RemoveBlob, AttsOK
<1>2. PICK w \in work[k] :
        /\ w.does = "blob" /\ First(w) = "file"
        /\ \/ files' = files \ {NextOf(w).loc} /\ UNCHANGED givenUp
           \/ /\ NextOf(w).loc \in files
              /\ givenUp' = givenUp \cup {NextOf(w).loc} /\ UNCHANGED files
        /\ Goes(k, w, "file")
  BY DEF RemoveBlob
<1>3. /\ AttsStay /\ RowsFit /\ \A names : LiveAtts(names)' = LiveAtts(names)
      /\ \A l : Named(l)' = Named(l)
  BY <1>1, StillInvented, SameRows
<1>4. PICK half : half = "file"
  OBVIOUS
<1>5. w.does # "insert" /\ half = First(w) /\ Goes(k, w, half)
  BY <1>2, <1>4
<1>6. PICK S : /\ Turned(k, S)
               /\ \A v \in S : /\ v.does = w.does
                               /\ v.does = "blob" /\ "file" \notin v.todo =>
                                      half = "file" /\ NextOf(v).loc = NextOf(w).loc
  BY <1>1, <1>3, <1>5, GoesTurns
<1>7. /\ files' \subseteq files /\ givenUp \subseteq givenUp' /\ givenUp' \subseteq 1 .. invented
      /\ NextOf(w).loc \notin files' \ givenUp'
  <2>1. PICK l : l = NextOf(w).loc
    OBVIOUS
  <2>2. files \subseteq 1 .. invented /\ givenUp \subseteq 1 .. invented
    BY <1>1 DEF AttsTypeOK
  <2>3. \/ files' = files \ {l} /\ givenUp' = givenUp
        \/ l \in files /\ givenUp' = givenUp \cup {l} /\ files' = files
    BY <1>2, <2>1
  <2>4. files' \subseteq files /\ givenUp \subseteq givenUp' /\ givenUp' \subseteq 1 .. invented
    BY <2>2, <2>3
  <2>5. l \notin files' \ givenUp'
    BY <2>3
  <2> QED
    BY <2>1, <2>4, <2>5
<1>8. GivesUp /\ Doubles
  BY <1>1, <1>3, <1>7 DEF GivesUp, Doubles, AttsTypeOK
<1>9. FilesDone(k, S)
  BY <1>2, <1>6, <1>7 DEF FilesDone
<1>10. attCalls' \in 0 .. MaxAttCalls
  BY <1>1, AttCallsCount
<1> QED
  BY <1>1, <1>3, <1>6, <1>8, <1>9, <1>10, CallStep

\* A row of an attachment that is written.
Restates(k, l, s) ==
    atts' = [atts EXCEPT ![k] = [name |-> atts[k].name, loc |-> l, state |-> s]]

LEMMA AttWritten ==
    ASSUME AttsTypeOK, invented' = invented, NEW k \in DOMAIN atts, NEW l \in Location,
           NEW s, s \in {"live", "deleted", "purged"}, Restates(k, l, s)
    PROVE  /\ AttsStay /\ RowsFit /\ DOMAIN atts' = DOMAIN atts
           /\ \A i \in DOMAIN atts : i # k => atts'[i] = atts[i]
           /\ atts'[k].name = atts[k].name /\ atts'[k].loc = l /\ atts'[k].state = s
           /\ \A i \in DOMAIN atts : i # k => \A m : i \in LiveAtts({m})' <=> i \in LiveAtts({m})
<1>1. PICK r : r = [name |-> atts[k].name, loc |-> l, state |-> s]
  OBVIOUS
<1>2. r \in Att /\ r.name = atts[k].name /\ r.loc = l /\ r.state = s
  BY <1>1, AttOf DEF Att
<1>3. /\ atts \in Seq(Att) /\ DOMAIN atts = 1 .. Len(atts) /\ Len(atts) \in Nat
      /\ Len(atts) =< MaxAtts /\ invented \in 0 .. MaxLocations
  BY DEF AttsTypeOK
<1>4. /\ atts' \in Seq(Att) /\ Len(atts') = Len(atts)
      /\ \A i \in 1 .. Len(atts) : atts'[i] = IF i = k THEN r ELSE atts[i]
  BY <1>1, <1>2, <1>3, ExceptSeq DEF Restates
<1>5. DOMAIN atts' = DOMAIN atts
  BY <1>3, <1>4
<1>6. atts'[k] = r /\ \A i \in DOMAIN atts : i # k => atts'[i] = atts[i]
  BY <1>3, <1>4
<1>7. AttsStay
  BY <1>4, <1>5 DEF AttsStay, Location
<1>8. Att' = Att
  BY DEF Att, Location
<1>9. RowsFit
  BY <1>3, <1>4, <1>8 DEF RowsFit
<1>10. \A i \in DOMAIN atts : i # k => \A m : i \in LiveAtts({m})' <=> i \in LiveAtts({m})
  BY <1>5, <1>6 DEF LiveAtts
<1> QED
  BY <1>2, <1>5, <1>6, <1>7, <1>9, <1>10

\* What an update writes, and what a delete or a purge writes.
LEMMA AttUpdated ==
    ASSUME AttsTypeOK, NEW k \in DOMAIN atts, NEW l,
           atts' = [atts EXCEPT ![k].loc = l, ![k].state = "live"]
    PROVE  Restates(k, l, "live")
<1>1. atts \in Seq(Att) /\ k \in 1 .. Len(atts) /\ atts[k] \in Att
  BY AttOf DEF AttsTypeOK
<1>2. PICK r : r = atts[k]
  OBVIOUS
<1>3. PICK e : e = [r EXCEPT !.loc = l]
  OBVIOUS
<1>4. e = [name |-> r.name, loc |-> l, state |-> r.state]
  BY <1>1, <1>2, <1>3 DEF Att
<1>5. PICK f : f = [e EXCEPT !.state = "live"]
  OBVIOUS
<1>6. f = [name |-> r.name, loc |-> l, state |-> "live"]
  BY <1>4, <1>5
<1>7. PICK p : p = [atts EXCEPT ![k] = e]
  OBVIOUS
<1>8. [p EXCEPT ![k] = f] = [atts EXCEPT ![k] = f] /\ p[k] = e
  BY <1>1, <1>7
<1>9. atts' = [p EXCEPT ![k].state = "live"]
  BY <1>2, <1>3, <1>7
<1>10. atts' = [p EXCEPT ![k] = f]
  BY <1>5, <1>8, <1>9
<1> QED
  BY <1>2, <1>6, <1>8, <1>10 DEF Restates

LEMMA AttStated ==
    ASSUME AttsTypeOK, NEW k \in DOMAIN atts, NEW s, atts' = [atts EXCEPT ![k].state = s]
    PROVE  Restates(k, atts[k].loc, s)
<1>1. atts \in Seq(Att) /\ k \in 1 .. Len(atts) /\ atts[k] \in Att
  BY AttOf DEF AttsTypeOK
<1>2. PICK r : r = atts[k]
  OBVIOUS
<1>3. [r EXCEPT !.state = s] = [name |-> r.name, loc |-> r.loc, state |-> s]
  BY <1>1, <1>2 DEF Att
<1> QED
  BY <1>1, <1>2, <1>3 DEF Restates

LEMMA UpdateAttachmentStep == AttsOK /\ (\E k \in Keeper : UpdateAttachment(k)) => AttsOK'
<1> SUFFICES ASSUME AttsOK, NEW k \in Keeper, UpdateAttachment(k) PROVE AttsOK'
  OBVIOUS
<1>1. AttsTypeOK /\ UNCHANGED <<files, blobdir, invented, held, work, attCalls>>
  BY DEF UpdateAttachment, AttsOK
<1>2. PICK h \in held[k] :
        /\ atts[h.row].state # "purged"
        /\ atts' = [atts EXCEPT ![h.row].loc = h.loc, ![h.row].state = "live"]
        /\ doubled' = IF atts[h.row].state = "live" THEN doubled
                      ELSE doubled \cup {atts[h.row].name}
        /\ givenUp' = IF atts[h.row].loc \in {0, h.loc} THEN givenUp
                       ELSE givenUp \cup {atts[h.row].loc}
  BY DEF UpdateAttachment
<1>3. PICK r, l : r = h.row /\ l = h.loc
  OBVIOUS
<1>4. r \in DOMAIN atts /\ l \in Location
  BY <1>1, <1>3, HeldOf
<1>5. atts[r].name \in AttName /\ atts[r].loc \in 0 .. invented /\ invented \in 0 .. MaxLocations
  BY <1>1, <1>4, AttOf DEF Location, AttsTypeOK
<1>6. PICK s : s = "live"
  OBVIOUS
<1>7. Restates(r, l, s) /\ s \in {"live", "deleted", "purged"}
  BY <1>1, <1>2, <1>3, <1>4, <1>6, AttUpdated
<1>8. /\ AttsStay /\ RowsFit /\ DOMAIN atts' = DOMAIN atts
      /\ \A i \in DOMAIN atts : i # r => atts'[i] = atts[i]
      /\ atts'[r].name = atts[r].name /\ atts'[r].loc = l /\ atts'[r].state = s
      /\ \A i \in DOMAIN atts : i # r => \A m : i \in LiveAtts({m})' <=> i \in LiveAtts({m})
  BY <1>1, <1>4, <1>7, AttWritten
<1>9. Doubles
  <2>1. ASSUME NEW n \in AttName, n \notin doubled', NEW i \in LiveAtts({n})'
        PROVE  i \in LiveAtts({n})
    <3>1. i \in DOMAIN atts
      BY <1>8, <2>1 DEF LiveAtts
    <3>2. CASE i # r
      BY <1>8, <2>1, <3>1, <3>2
    <3>3. CASE i = r
      <4>1. atts[r].name = n
        BY <1>8, <2>1, <3>3 DEF LiveAtts
      <4>2. atts[r].state = "live"
        BY <1>2, <1>3, <2>1, <4>1
      <4> QED
        BY <3>1, <3>3, <4>1, <4>2 DEF LiveAtts
    <3> QED
      BY <3>2, <3>3
  <2> QED
    BY <2>1 DEF Doubles
<1>10. GivesUp
  <2>1. givenUp \subseteq 1 .. invented /\ doubled \subseteq AttName /\ 0 \notin files
    BY <1>1 DEF AttsTypeOK
  <2>2. doubled \subseteq doubled' /\ doubled' \subseteq AttName
    BY <1>2, <1>3, <1>5, <2>1
  <2>3. givenUp' = IF atts[r].loc \in {0, l} THEN givenUp ELSE givenUp \cup {atts[r].loc}
    BY <1>2, <1>3
  <2>4. givenUp \subseteq givenUp' /\ givenUp' \subseteq 1 .. invented
    <3>1. PICK q : q = atts[r].loc
      OBVIOUS
    <3>2. q # 0 => q \in 1 .. invented
      BY <1>5, <3>1
    <3>3. givenUp' = givenUp \/ (q # 0 /\ givenUp' = givenUp \cup {q})
      BY <2>3, <3>1
    <3> QED
      BY <2>1, <3>2, <3>3
  <2>5. ASSUME NEW q \in files' \ givenUp', Named(q) PROVE Named(q)'
    <3>1. PICK i \in DOMAIN atts : atts[i].loc = q /\ atts[i].state # "purged"
      BY <2>5 DEF Named
    <3>2. CASE i # r
      BY <1>8, <3>1, <3>2 DEF Named
    <3>3. CASE i = r
      <4>1. q = l
        BY <1>1, <2>1, <2>3, <2>5, <3>1, <3>3
      <4> QED
        BY <1>4, <1>6, <1>8, <4>1 DEF Named
    <3> QED
      BY <3>2, <3>3
  <2> QED
    BY <1>1, <2>2, <2>4, <2>5 DEF GivesUp
<1>11. PICK S : S = work[k] /\ Turned(k, S)
  BY <1>1, <1>8, CallStays
<1>12. attCalls' \in 0 .. MaxAttCalls
  BY <1>1, AttCallsCount
<1> QED
  BY <1>1, <1>8, <1>9, <1>10, <1>11, <1>12, FilesStay, CallStep

\* A row that a call deletes or purges, or cannot: nothing becomes live.
LEMMA RowGone ==
    ASSUME AttsTypeOK, UNCHANGED <<invented, doubled>>, NEW r \in DOMAIN atts,
           NEW s, s \in {"deleted", "purged"} \/ s = atts[r].state,
           atts' = [atts EXCEPT ![r].state = s]
    PROVE  /\ AttsStay /\ RowsFit /\ Doubles
           /\ \A l : Named(l) /\ (s = "purged" => l # atts[r].loc) => Named(l)'
<1>1. PICK l : l = atts[r].loc
  OBVIOUS
<1>2. l \in Location /\ s \in {"live", "deleted", "purged"}
  BY <1>1, AttOf
<1>3. Restates(r, l, s)
  BY <1>1, AttStated
<1>4. /\ AttsStay /\ RowsFit /\ DOMAIN atts' = DOMAIN atts
      /\ \A i \in DOMAIN atts : i # r => atts'[i] = atts[i]
      /\ atts'[r].name = atts[r].name /\ atts'[r].loc = l /\ atts'[r].state = s
      /\ \A i \in DOMAIN atts : i # r => \A m : i \in LiveAtts({m})' <=> i \in LiveAtts({m})
  BY <1>2, <1>3, AttWritten
<1>5. ASSUME NEW n \in AttName, NEW i \in LiveAtts({n})' PROVE i \in LiveAtts({n})
  <2>1. i \in DOMAIN atts
    BY <1>4, <1>5 DEF LiveAtts
  <2>2. CASE i # r
    BY <1>4, <1>5, <2>1, <2>2
  <2>3. CASE i = r
    <3>1. atts[r].name = n /\ s = "live"
      BY <1>4, <1>5, <2>3 DEF LiveAtts
    <3> QED
      BY <2>1, <2>3, <3>1 DEF LiveAtts
  <2> QED
    BY <2>2, <2>3
<1>6. Doubles
  BY <1>5 DEF Doubles
<1>7. ASSUME NEW q, Named(q), s = "purged" => q # atts[r].loc PROVE Named(q)'
  <2>1. PICK i \in DOMAIN atts : atts[i].loc = q /\ atts[i].state # "purged"
    BY <1>7 DEF Named
  <2>2. CASE i # r
    BY <1>4, <2>1, <2>2 DEF Named
  <2>3. CASE i = r
    BY <1>1, <1>4, <1>7, <2>1, <2>3 DEF Named
  <2> QED
    BY <2>2, <2>3
<1> QED
  BY <1>4, <1>6, <1>7

LEMMA DeleteNextStep == AttsOK /\ (\E k \in Keeper : DeleteNext(k)) => AttsOK'
<1> SUFFICES ASSUME AttsOK, NEW k \in Keeper, DeleteNext(k) PROVE AttsOK'
  OBVIOUS
<1>1. AttsTypeOK /\ UNCHANGED <<files, blobdir, invented, held, doubled, givenUp, attCalls>>
  BY DEF DeleteNext, AttsOK
<1>2. PICK w \in work[k] :
        /\ w.does = "delete"
        /\ \/ atts' = [atts EXCEPT ![NextOf(w).row].state = IF @ = "live" THEN "deleted" ELSE @]
           \/ UNCHANGED atts
        /\ Goes(k, w, "row")
  BY DEF DeleteNext
<1>3. PICK r, half : r = NextOf(w).row /\ half = "row"
  OBVIOUS
<1>4. r \in DOMAIN atts
  BY <1>1, <1>2, <1>3, NextIn
<1>5. AttsStay /\ RowsFit /\ Doubles /\ \A l : Named(l) => Named(l)'
  <2>1. CASE UNCHANGED atts
    BY <1>1, <2>1, StillInvented, SameRows DEF Doubles
  <2>2. CASE atts' = [atts EXCEPT ![r].state = IF @ = "live" THEN "deleted" ELSE @]
    <3>1. PICK s : s = IF atts[r].state = "live" THEN "deleted" ELSE atts[r].state
      OBVIOUS
    <3>2. atts' = [atts EXCEPT ![r].state = s]
      BY <2>2, <3>1
    <3>3. s \in {"deleted", "purged"} \/ s = atts[r].state
      BY <3>1
    <3>4. /\ AttsStay /\ RowsFit /\ Doubles
          /\ \A l : Named(l) /\ (s = "purged" => l # atts[r].loc) => Named(l)'
      BY <1>1, <1>4, <3>2, <3>3, RowGone
    <3>5. CASE s = "purged"
      <4>1. s = atts[r].state
        BY <3>1, <3>5
      <4>2. atts' = atts
        <5>1. [atts[r] EXCEPT !.state = s] = atts[r]
          <6>1. atts[r] \in Att
            BY <1>1, <1>4, AttOf
          <6>2. PICK x : x = atts[r]
            OBVIOUS
          <6>3. [x EXCEPT !.state = s] = x
            BY <4>1, <6>1, <6>2 DEF Att
          <6> QED
            BY <6>2, <6>3
        <5>2. atts' = [atts EXCEPT ![r] = atts[r]]
          BY <3>2, <5>1
        <5> QED
          BY <1>1, <5>2 DEF AttsTypeOK
      <4> QED
        BY <3>4, <4>2 DEF Named
    <3>6. CASE s # "purged"
      BY <3>4, <3>6
    <3> QED
      BY <3>5, <3>6
  <2> QED
    BY <1>2, <1>3, <2>1, <2>2
<1>6. half = First(w) /\ w.does # "insert" /\ Goes(k, w, half)
  BY <1>1, <1>2, <1>3, TaskIs DEF First
<1>7. PICK S : /\ Turned(k, S)
               /\ \A v \in S : /\ v.does = w.does
                               /\ v.does = "blob" /\ "file" \notin v.todo =>
                                      half = "file" /\ NextOf(v).loc = NextOf(w).loc
  BY <1>1, <1>5, <1>6, GoesTurns
<1>8. FilesDone(k, S)
  BY <1>2, <1>7 DEF FilesDone
<1>9. GivesUp
  BY <1>1, <1>5 DEF GivesUp, AttsTypeOK
<1>10. attCalls' \in 0 .. MaxAttCalls
  BY <1>1, AttCallsCount
<1> QED
  BY <1>1, <1>5, <1>7, <1>8, <1>9, <1>10, CallStep

LEMMA PurgeNextStep == AttsOK /\ (\E k \in Keeper : PurgeNext(k)) => AttsOK'
<1> SUFFICES ASSUME AttsOK, NEW k \in Keeper, PurgeNext(k) PROVE AttsOK'
  OBVIOUS
<1>1. AttsTypeOK /\ UNCHANGED <<files, blobdir, invented, held, doubled, attCalls>>
  BY DEF PurgeNext, AttsOK
<1>2. PICK w \in work[k] :
        /\ w.does \in {"purge", "blob"} /\ First(w) = "row"
        /\ \/ /\ atts' = [atts EXCEPT ![NextOf(w).row].state = "purged"]
              /\ givenUp' = IF atts[NextOf(w).row].loc # 0
                               /\ (w.does = "purge" \/ atts[NextOf(w).row].loc # NextOf(w).loc)
                            THEN givenUp \cup {atts[NextOf(w).row].loc} ELSE givenUp
           \/ UNCHANGED <<atts, givenUp>>
        /\ Goes(k, w, "row")
  BY DEF PurgeNext
<1>3. PICK r, half : r = NextOf(w).row /\ half = "row"
  OBVIOUS
<1>4. PICK q : q = atts[r].loc
  OBVIOUS
<1>5. /\ r \in DOMAIN atts /\ (q # 0 => q \in 1 .. invented)
      /\ files \subseteq 1 .. invented /\ givenUp \subseteq 1 .. invented /\ doubled \subseteq AttName
  <2>1. r \in DOMAIN atts
    BY <1>1, <1>2, <1>3, NextIn
  <2>2. q \in 0 .. invented /\ invented \in 0 .. MaxLocations
    BY <1>1, <1>4, <2>1, AttOf DEF Location, AttsTypeOK
  <2> QED
    BY <1>1, <2>1, <2>2 DEF AttsTypeOK
<1>6. AttsStay /\ RowsFit /\ Doubles /\ GivesUp
  <2>1. CASE UNCHANGED <<atts, givenUp>>
    BY <1>1, <1>5, <2>1, StillInvented, SameRows DEF Doubles, GivesUp
  <2>2. CASE /\ atts' = [atts EXCEPT ![r].state = "purged"]
             /\ givenUp' = IF q # 0 /\ (w.does = "purge" \/ q # NextOf(w).loc)
                           THEN givenUp \cup {q} ELSE givenUp
    <3>1. PICK s : s = "purged"
      OBVIOUS
    <3>2. atts' = [atts EXCEPT ![r].state = s] /\ s \in {"deleted", "purged"}
      BY <2>2, <3>1
    <3>3. /\ AttsStay /\ RowsFit /\ Doubles
          /\ \A l : Named(l) /\ (s = "purged" => l # atts[r].loc) => Named(l)'
      BY <1>1, <1>5, <3>2, RowGone
    <3>4. givenUp \subseteq givenUp' /\ givenUp' \subseteq 1 .. invented
      BY <1>5, <2>2
    <3>5. q \notin files \ givenUp'
      <4>1. CASE q = 0
        BY <1>5, <4>1
      <4>2. CASE q # 0 /\ (w.does = "purge" \/ q # NextOf(w).loc)
        BY <2>2, <4>2
      <4>3. CASE w.does = "blob" /\ q = NextOf(w).loc
        <5>1. "file" \notin w.todo
          BY <1>2 DEF First
        <5>2. q \notin files \ givenUp
          BY <4>3, <5>1 DEF AttsOK, BlobsGone
        <5> QED
          BY <3>4, <5>2
      <4> QED
        BY <1>2, <4>1, <4>2, <4>3
    <3>6. \A l \in files' \ givenUp' : Named(l) => Named(l)'
      BY <1>1, <1>4, <3>3, <3>5
    <3> QED
      BY <1>1, <1>5, <3>3, <3>4, <3>6 DEF GivesUp
  <2> QED
    BY <1>2, <1>3, <1>4, <2>1, <2>2
<1>7. half = First(w) /\ w.does # "insert" /\ Goes(k, w, half)
  BY <1>2, <1>3
<1>8. PICK S : /\ Turned(k, S)
               /\ \A v \in S : /\ v.does = w.does
                               /\ v.does = "blob" /\ "file" \notin v.todo =>
                                      half = "file" /\ NextOf(v).loc = NextOf(w).loc
  BY <1>1, <1>6, <1>7, GoesTurns
<1>9. FilesDone(k, S)
  BY <1>2, <1>3, <1>8 DEF FilesDone
<1>10. attCalls' \in 0 .. MaxAttCalls
  BY <1>1, AttCallsCount
<1> QED
  BY <1>1, <1>6, <1>8, <1>9, <1>10, CallStep

\* Only the blob directory is moved, or nothing at all.
LEMMA NothingDone ==
    ASSUME AttsOK, UNCHANGED <<atts, files, invented, held, work, doubled, givenUp>>,
           blobdir' \in BOOLEAN, attCalls' \in 0 .. MaxAttCalls
    PROVE  AttsOK'
<1>1. AttsTypeOK /\ Att' = Att /\ Copy' = Copy /\ AttTask' = AttTask
  BY DEF AttsOK, Att, Copy, AttTask, Location
<1>2. AttsTypeOK'
  BY <1>1 DEF AttsTypeOK
<1>3. /\ \A names : LiveAtts(names)' = LiveAtts(names)
      /\ \A l : Named(l)' = Named(l) /\ \A w : NextOf(w)' = NextOf(w)
  BY DEF LiveAtts, Named, NextOf
<1>4. SeesRight' /\ OneLive' /\ BlobsGone' /\ OrphansKnown'
  BY <1>3 DEF AttsOK, SeesRight, OneLive, Alike, BlobsGone, OrphansKnown
<1> QED
  BY <1>2, <1>4 DEF AttsOK

LEMMA AttsInitOK == AttsInit => AttsOK
<1> SUFFICES ASSUME AttsInit PROVE AttsOK
  OBVIOUS
<1>1. /\ atts = <<>> /\ files = {} /\ blobdir = TRUE /\ invented = 0
      /\ held = [k \in Keeper |-> {}] /\ work = [k \in Keeper |-> {}]
      /\ doubled = {} /\ givenUp = {} /\ attCalls = 0
  BY DEF AttsInit
<1>2. MaxAtts \in Nat /\ MaxLocations \in Nat /\ MaxAttCalls \in Nat
  BY AttachmentsAssumption
<1>3. atts \in Seq(Att) /\ Len(atts) = 0 /\ DOMAIN atts = {}
  BY <1>1
<1>4. Len(atts) =< MaxAtts /\ invented \in 0 .. MaxLocations /\ attCalls \in 0 .. MaxAttCalls
  BY <1>1, <1>2, <1>3
<1>5. AttsTypeOK
  BY <1>1, <1>3, <1>4 DEF AttsTypeOK
<1>6. SeesRight /\ BlobsGone /\ OrphansKnown
  BY <1>1 DEF SeesRight, BlobsGone, OrphansKnown
<1>7. OneLive
  BY <1>3 DEF OneLive, Alike, LiveAtts
<1> QED
  BY <1>5, <1>6, <1>7 DEF AttsOK

LEMMA AttsStep == AttsOK /\ [AttsNext]_attVars => AttsOK'
<1> SUFFICES ASSUME AttsOK, [AttsNext]_attVars PROVE AttsOK'
  OBVIOUS
<1>1. CASE MoveBlobdir
  <2>1. attCalls' \in 0 .. MaxAttCalls /\ blobdir' \in BOOLEAN
    BY <1>1, AttCallsCount DEF MoveBlobdir, AttsOK
  <2> QED
    BY <1>1, <2>1, NothingDone DEF MoveBlobdir
<1>2. CASE UNCHANGED attVars
  <2>1. attCalls' \in 0 .. MaxAttCalls /\ blobdir' \in BOOLEAN
    BY <1>2 DEF attVars, AttsOK, AttsTypeOK
  <2> QED
    BY <1>2, <2>1, NothingDone DEF attVars
<1>3. ASSUME NEW k \in Keeper, NEW how \in {"delete", "purge", "blob"},
             NEW names \in SUBSET AttName, RemoveAttachments(k, how, names)
      PROVE  AttsOK'
  BY <1>3, RemoveAttachmentsStep
<1>4. CASE AttsNext /\ ~MoveBlobdir
  <2>1. \/ \E k \in Keeper, n \in AttName : CreateAttachment(k, n)
        \/ \E k \in Keeper : FetchAttachment(k)
        \/ \E k \in Keeper : UpdateAttachment(k)
        \/ \E k \in Keeper : NewBlob(k)
        \/ \E k \in Keeper : WriteContent(k)
        \/ \E k \in Keeper : RemoveFile(k)
        \/ \E k \in Keeper, how \in {"delete", "purge", "blob"}, names \in (SUBSET AttName) \ {{}} :
               RemoveAttachments(k, how, names)
        \/ \E k \in Keeper : InsertAttachment(k)
        \/ \E k \in Keeper : DeleteNext(k)
        \/ \E k \in Keeper : PurgeNext(k)
        \/ \E k \in Keeper : RemoveBlob(k)
        \/ \E k \in Keeper : DieWorking(k)
    BY <1>4 DEF AttsNext, AttStep
  <2> QED
    BY <1>3, <2>1, CreateAttachmentStep, FetchAttachmentStep, UpdateAttachmentStep, NewBlobStep,
       WriteContentStep, RemoveFileStep, InsertAttachmentStep, DeleteNextStep, PurgeNextStep,
       RemoveBlobStep, DieWorkingStep
<1> QED
  BY <1>1, <1>2, <1>4

LEMMA AttsInductive == AttsSpec => []AttsOK
BY AttsInitOK, AttsStep, PTL DEF AttsSpec

\* The values of Attachments' variables: the rows that instances and lists have
\* are rows that are stored, and no location is used that was not invented.
THEOREM AttachmentsType == AttsSpec => []AttsTypeOK
<1>1. AttsOK => AttsTypeOK
  BY DEF AttsOK
<1> QED
  BY <1>1, AttsInductive, PTL

\* Two live attachments have one name only after a race for it, and a file that
\* nobody names or holds was given up by somebody who knew: a program that dies
\* in purge_with_blob leaves none (midgard_object_attachment.c, 92-116;
\* midgard_object_parameter.c, 650-656).
THEOREM AttachmentsStay == AttsSpec => []AttachmentsKept
<1>1. AttsOK => NamesRaced
  <2> SUFFICES ASSUME AttsOK, NEW n \in AttName, n \notin doubled
               PROVE  ~(Cardinality(LiveAtts({n})) > 1)
    BY DEF NamesRaced
  <2>1. Alike(LiveAtts({n}))
    BY DEF AttsOK, OneLive
  <2>2. PICK S : S = LiveAtts({n})
    OBVIOUS
  <2>3. S = {} \/ \E x : S = {x}
    BY <2>1, <2>2 DEF Alike
  <2>4. Cardinality(S) \in {0, 1}
    BY <2>3, FS_EmptySet, FS_Singleton
  <2> QED
    BY <2>2, <2>4
<1>2. AttsOK => AttachmentsKept
  BY <1>1 DEF AttsOK, AttachmentsKept
<1> QED
  BY <1>2, AttsInductive, PTL
====
