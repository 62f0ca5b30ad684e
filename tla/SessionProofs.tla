--------------------------- MODULE SessionProofs ---------------------------
(***************************************************************************)
(* What holds of sessions, for every number of connections, accounts and   *)
(* instances: who is logged in is there and can log out, whatever is       *)
(* dropped, deleted and disposed of in between; and two accounts come to   *)
(* have one name only in a race.  And of connection objects: callbacks and *)
(* pointers lead to what is alive, and an opening that says it succeeded   *)
(* has.                                                                    *)
(***************************************************************************)
EXTENDS Users, Connections, FiniteSetTheorems, SequenceTheorems,
        WellFoundedInduction, TLAPS

-----------------------------------------------------------------------------
(* Sequences of instances *)

Places(i, s) == {k \in DOMAIN s : s[k] = i}

\* How often an instance occurs in an authstack is a number, and more than 0
\* just when it is in one place.
LEMMA OccursType ==
    ASSUME NEW X, NEW s \in Seq(X), NEW i
    PROVE  /\ IsFiniteSet(Places(i, s))
           /\ Occurs(i, s) = Cardinality(Places(i, s))
           /\ Occurs(i, s) \in Nat
           /\ Occurs(i, s) > 0 <=> \E k \in DOMAIN s : s[k] = i
<1>1. IsFiniteSet(DOMAIN s)
  BY FS_Interval
<1>2. IsFiniteSet(Places(i, s))
  BY <1>1, FS_Subset DEF Places
<1>3. Occurs(i, s) = Cardinality(Places(i, s))
  BY DEF Occurs, Places
<1>4. Cardinality(Places(i, s)) \in Nat
  BY <1>2, FS_CardinalityType
<1>5. Cardinality(Places(i, s)) = 0 <=> Places(i, s) = {}
  BY <1>2, FS_EmptySet
<1>6. Places(i, s) # {} <=> \E k \in DOMAIN s : s[k] = i
  BY DEF Places
<1> QED
  BY <1>2, <1>3, <1>4, <1>5, <1>6

\* log_in appends an instance to the authstack.
LEMMA OccursAppend ==
    ASSUME NEW X, NEW s \in Seq(X), NEW i \in X, NEW j
    PROVE  Occurs(j, Append(s, i)) = Occurs(j, s) + (IF j = i THEN 1 ELSE 0)
<1> DEFINE l == Len(s) + 1
<1>1. Append(s, i) \in Seq(X) /\ Len(Append(s, i)) = l /\ Append(s, i)[l] = i
      /\ \A k \in 1 .. Len(s) : Append(s, i)[k] = s[k]
  OBVIOUS
<1>2. l \notin Places(j, s)
  BY DEF Places
<1>5. IsFiniteSet(Places(j, s)) /\ Occurs(j, s) = Cardinality(Places(j, s)) /\ Occurs(j, s) \in Nat
  BY OccursType
<1>6. Occurs(j, Append(s, i)) = Cardinality(Places(j, Append(s, i)))
  BY <1>1, OccursType
<1>3. CASE j = i
  <2>1. Places(j, Append(s, i)) = Places(j, s) \cup {l}
    BY <1>1, <1>3 DEF Places
  <2> QED
    BY <1>2, <1>3, <1>5, <1>6, <2>1, FS_AddElement
<1>4. CASE j # i
  <2>1. Places(j, Append(s, i)) = Places(j, s)
    BY <1>1, <1>4 DEF Places
  <2> QED
    BY <1>4, <1>5, <1>6, <2>1
<1> QED
  BY <1>3, <1>4

LEMMA AppendPlaces ==
    ASSUME NEW X, NEW s \in Seq(X), NEW i \in X, NEW k \in DOMAIN Append(s, i)
    PROVE  Append(s, i)[k] = i \/ (k \in DOMAIN s /\ Append(s, i)[k] = s[k])
<1> DEFINE t == Append(s, i)
<1>1. k \in 1 .. Len(s) + 1 /\ Len(s) \in Nat /\ DOMAIN s = 1 .. Len(s)
  OBVIOUS
<1>2. t[Len(s) + 1] = i /\ \A j \in 1 .. Len(s) : t[j] = s[j]
  BY AppendProperties
<1> HIDE DEF t
<1>3. k = Len(s) + 1 \/ k \in 1 .. Len(s)
  BY <1>1
<1>4. t[k] = i \/ (k \in DOMAIN s /\ t[k] = s[k])
  BY <1>1, <1>2, <1>3
<1> QED
  BY <1>4 DEF t

\* Where an instance occurs there is a first place.
LEMMA FirstPlace ==
    ASSUME NEW X, NEW s \in Seq(X), NEW i, \E k \in DOMAIN s : s[k] = i
    PROVE  \E k \in DOMAIN s : s[k] = i /\ \A j \in 1 .. k - 1 : s[j] # i
<1>1. Places(i, s) # {} /\ Places(i, s) \subseteq Nat
  BY DEF Places
<1>2. PICK k \in Places(i, s) :
          \A j \in Places(i, s) : ~(<<j, k>> \in OpToRel(<, Nat))
  BY <1>1, NatLessThanWellFounded, WFMin
<1>3. \A j \in Places(i, s) : ~(j < k)
  BY <1>1, <1>2 DEF OpToRel
<1>6. k \in 1 .. Len(s) /\ Len(s) \in Nat
  BY DEF Places
<1>4. \A j \in 1 .. k - 1 : j \in DOMAIN s /\ j < k
  BY <1>6
<1>5. \A j \in 1 .. k - 1 : s[j] # i
  BY <1>3, <1>4 DEF Places
<1> QED
  BY <1>2, <1>5 DEF Places

\* log_out takes one occurrence out, and leaves the others.
LEMMA OccursWithout ==
    ASSUME NEW X, NEW s \in Seq(X), NEW i, \E k \in DOMAIN s : s[k] = i
    PROVE  /\ Without(s, i) \in Seq(X)
           /\ \A j : Occurs(j, Without(s, i)) = Occurs(j, s) - (IF j = i THEN 1 ELSE 0)
<1> DEFINE first == CHOOSE k \in DOMAIN s : s[k] = i /\ \A j \in 1 .. k - 1 : s[j] # i
           r == Without(s, i)
<1>1. first \in DOMAIN s /\ s[first] = i
  BY FirstPlace
<1>2. r = [j \in 1 .. Len(s) - 1 |-> IF j < first THEN s[j] ELSE s[j + 1]]
  BY DEF Without
<1>3. Len(s) - 1 \in Nat
  BY <1>1
<1> HIDE DEF first
<1>4. r \in [1 .. Len(s) - 1 -> X]
  BY <1>1, <1>2, <1>3
<1>5. r \in Seq(X) /\ DOMAIN r = 1 .. Len(s) - 1
  BY <1>3, <1>4
<1>6. ASSUME NEW j
      PROVE  Occurs(j, r) = Occurs(j, s) - (IF j = i THEN 1 ELSE 0)
  <2> DEFINE P == Places(j, s) \ {first}
             f == [k \in P |-> IF k < first THEN k ELSE k - 1]
  <2>1. f \in [P -> Places(j, r)]
    BY <1>1, <1>2, <1>3, <1>5 DEF Places
  <2>2. \A k, l \in P : f[k] = f[l] => k = l
    BY <1>1 DEF Places
  <2>3. ASSUME NEW p \in Places(j, r) PROVE \E k \in P : f[k] = p
    <3>1. CASE p < first
      <4>1. p \in P /\ f[p] = p
        BY <3>1, <1>1, <1>2, <1>3, <1>5 DEF Places
      <4> QED BY <4>1
    <3>2. CASE ~(p < first)
      <4>1. p + 1 \in P /\ f[p + 1] = p
        BY <3>2, <1>1, <1>2, <1>3, <1>5 DEF Places
      <4> QED BY <4>1
    <3> QED BY <3>1, <3>2
  <2> DEFINE Q == Places(j, r)
  <2> HIDE DEF f, P, Q
  <2>10. f \in [P -> Q] /\ \A q \in Q : \E k \in P : f[k] = q
    BY <2>1, <2>3 DEF Q
  <2>8. f \in Injection(P, Q)
    BY <2>2, <2>10 DEF Injection, IsInjective
  <2>9. f \in Surjection(P, Q)
    BY <2>10, Zenon DEF Surjection
  <2>4. f \in Bijection(P, Q)
    BY <2>8, <2>9 DEF Bijection
  <2> USE DEF P, Q
  <2>5. IsFiniteSet(P) /\ Cardinality(P) =
            IF first \in Places(j, s) THEN Cardinality(Places(j, s)) - 1
            ELSE Cardinality(Places(j, s))
    BY OccursType, FS_RemoveElement
  <2>6. Cardinality(Places(j, r)) = Cardinality(P)
    BY <2>4, <2>5, FS_Bijection DEF ExistsBijection
  <2>7. first \in Places(j, s) <=> j = i
    BY <1>1 DEF Places
  <2> QED
    BY <1>5, <2>5, <2>6, <2>7, OccursType
<1> QED
  BY <1>5, <1>6

-----------------------------------------------------------------------------
(* Types *)

LEMMA UserConstants ==
    /\ Guid \subseteq Nat /\ NoGuid \notin Guid
    /\ Instance \subseteq Nat /\ NoUser \notin Instance
    /\ Nobody \notin Connection
    /\ Unused \notin Name /\ Gone \notin Name
BY NumberAssumption, NothingAssumption DEF Guid, NoGuid, Instance, NoUser

\* A call is told of a row without more.
LEMMA LateCall ==
    ASSUME NEW g, NEW cs, NEW c \in Connection
    PROVE  /\ cs[c] = {} => Late(g, cs)[c] = {}
           /\ \A m : cs[c] = {m} => Late(g, cs)[c] = {[m EXCEPT !.late = @ \cup {g}]}
           /\ Late(g, cs) = [d \in Connection |-> Late(g, cs)[d]]
BY DEF Late

\* What a connection is calling is one call or none.
LEMMA OneCall ==
    ASSUME TypeOK, NEW c \in Connection
    PROVE  /\ call[c] = {} \/ \E m \in Call : call[c] = {m}
           /\ \A m \in call[c] : call[c] = {m} /\ m \in Call
                                 /\ phase[c] = "open" /\ user[m.at].of = c
                                 /\ (user[m.at].guid = NoGuid) = (m.op = "create")
<1>1. call[c] \in {{}} \cup {{m} : m \in Call}
  BY DEF TypeOK
<1>2. call[c] = {} \/ \E m \in Call : call[c] = {m}
  BY <1>1
<1>3. \A m \in call[c] : call[c] = {m} /\ m \in Call
  BY <1>2
<1>4. \A m \in call[c] : /\ phase[c] = "open" /\ user[m.at].of = c
                        /\ (user[m.at].guid = NoGuid) = (m.op = "create")
  BY DEF TypeOK
<1> QED
  BY <1>2, <1>3, <1>4

LEMMA InitType == Init => TypeOK
<1> SUFFICES ASSUME Init PROVE TypeOK
  OBVIOUS
<1>1. (CHOOSE n \in Name : TRUE) \in Name
  BY NothingAssumption
<1>2. user \in [Instance -> User]
  BY <1>1 DEF Init, User
<1>3. \A c \in Connection : call[c] = {}
  BY DEF Init
<1> QED
  BY <1>2, <1>3, NumberAssumption DEF Init, TypeOK, Phase

\* Calls keep their type when none is begun: each is as it was, or is told of a
\* row, or is over.
LEMMA CallsKept ==
    ASSUME TypeOK, call' = [d \in Connection |-> call'[d]],
           \A d \in Connection :
               \/ call'[d] = {} \/ call'[d] = call[d]
               \/ \E g \in Guid : call'[d] = {[m EXCEPT !.late = @ \cup {g}] : m \in call[d]}
    PROVE  /\ call' \in [Connection -> {{}} \cup {{m} : m \in Call}]
           /\ \A d \in Connection : \A m \in call'[d] :
                  \E n \in call[d] : m.op = n.op /\ m.at = n.at
<1> SUFFICES ASSUME NEW d \in Connection
             PROVE  /\ call'[d] \in {{}} \cup {{m} : m \in Call}
                    /\ \A m \in call'[d] : \E n \in call[d] : m.op = n.op /\ m.at = n.at
  OBVIOUS
<1>1. CASE call'[d] = {}
  BY <1>1
<1>2. CASE call'[d] = call[d]
  BY <1>2, OneCall
<1>3. CASE \E g \in Guid : call'[d] = {[m EXCEPT !.late = @ \cup {g}] : m \in call[d]}
  <2>1. PICK g \in Guid : call'[d] = {[m EXCEPT !.late = @ \cup {g}] : m \in call[d]}
    BY <1>3
  <2>2. CASE call[d] = {}
    BY <2>1, <2>2
  <2>3. CASE call[d] # {}
    <3>1. PICK n \in Call : call[d] = {n}
      BY <2>3, OneCall
    <3> DEFINE m == [n EXCEPT !.late = @ \cup {g}]
    <3>2. call'[d] = {m}
      BY <2>1, <3>1
    <3>3. m \in Call /\ m.op = n.op /\ m.at = n.at
      BY <2>1 DEF Call
    <3> HIDE DEF m
    <3> QED
      BY <3>1, <3>2, <3>3
  <2> QED
    BY <2>2, <2>3
<1> QED
  BY <1>1, <1>2, <1>3

\* TypeOK, but for the last clause, of a step that begins no call.
LEMMA TypeKept ==
    ASSUME TypeOK, call' = [d \in Connection |-> call'[d]],
           \A d \in Connection :
               \/ call'[d] = {} \/ call'[d] = call[d]
               \/ \E g \in Guid : call'[d] = {[m EXCEPT !.late = @ \cup {g}] : m \in call[d]},
           table' \in [Guid -> Name \cup {Unused, Gone}],
           user' \in [Instance -> User], refs' \in [Instance -> Nat],
           current' \in [Connection -> Instance \cup {NoUser}],
           stack' \in [Connection -> Seq(Instance)],
           phase' \in [Connection -> Phase],
           answer' \in [Connection -> {"none", "stored", "failed"}],
           calls' \in 0 .. MaxCalls,
           \A d \in Connection : call'[d] # {} =>
               /\ phase'[d] = phase[d]
               /\ \A m \in call[d] : user'[m.at].of = user[m.at].of
                                     /\ user'[m.at].guid = user[m.at].guid
    PROVE  TypeOK'
<1>1. \A d \in Connection : \A m \in call'[d] : \E n \in call[d] : m.op = n.op /\ m.at = n.at
  BY CallsKept
<1>2. \A d \in Connection : \A m \in call'[d] :
          /\ phase'[d] = "open" /\ user'[m.at].of = d
          /\ (user'[m.at].guid = NoGuid) = (m.op = "create")
  <2>1. SUFFICES ASSUME NEW d \in Connection, NEW m \in call'[d]
                 PROVE  /\ phase'[d] = "open" /\ user'[m.at].of = d
                        /\ (user'[m.at].guid = NoGuid) = (m.op = "create")
    OBVIOUS
  <2>2. PICK n \in call[d] : m.op = n.op /\ m.at = n.at
    BY <1>1
  <2>3. /\ phase[d] = "open" /\ user[n.at].of = d
        /\ (user[n.at].guid = NoGuid) = (n.op = "create")
    BY OneCall
  <2>4. /\ phase'[d] = phase[d]
        /\ user'[n.at].of = user[n.at].of /\ user'[n.at].guid = user[n.at].guid
    OBVIOUS
  <2> QED
    BY <2>2, <2>3, <2>4
<1>3. call' \in [Connection -> {{}} \cup {{m} : m \in Call}]
  BY CallsKept
<1> QED
  BY <1>2, <1>3 DEF TypeOK

\* What the type invariant says of the variables but for the calls.
LEMMA TypeFacts ==
    ASSUME TypeOK
    PROVE  /\ table \in [Guid -> Name \cup {Unused, Gone}]
           /\ user \in [Instance -> User] /\ refs \in [Instance -> Nat]
           /\ current \in [Connection -> Instance \cup {NoUser}]
           /\ stack \in [Connection -> Seq(Instance)]
           /\ phase \in [Connection -> Phase]
           /\ answer \in [Connection -> {"none", "stored", "failed"}]
           /\ calls \in 0 .. MaxCalls
           /\ call = [d \in Connection |-> call[d]]
BY DEF TypeOK

LEMMA CallingType ==
    ASSUME TypeOK, NEW c \in Connection, Calling(c)
    PROVE  /\ calls' \in 0 .. MaxCalls
           /\ answer' \in [Connection -> {"none", "stored", "failed"}]
           /\ phase[c] = "open" /\ call[c] = {}
BY TypeFacts, NumberAssumption DEF Calling

\* Leaving takes an occurrence of the current user out of its authstack.
LEMMA LeaveType ==
    ASSUME TypeOK, StackSound, NEW c \in Connection, Leave(c)
    PROVE  /\ current[c] \in Instance
           /\ Without(stack[c], current[c]) \in Seq(Instance)
           /\ \A j : Occurs(j, Without(stack[c], current[c])) =
                        Occurs(j, stack[c]) - (IF j = current[c] THEN 1 ELSE 0)
<1>1. current[c] \in Instance /\ stack[c] \in Seq(Instance)
  BY TypeFacts DEF Leave
<1>2. \E k \in DOMAIN stack[c] : stack[c][k] = current[c]
  BY <1>1, OccursType DEF Leave, StackSound
<1> QED
  BY <1>1, <1>2, OccursWithout

-----------------------------------------------------------------------------
(* Sessions *)

\* Whom a connection has as current user or in its authstack is an instance of
\* its own.
Belong == \A c \in Connection :
    /\ current[c] # NoUser => user[current[c]].of = c
    /\ \A k \in DOMAIN stack[c] : user[stack[c][k]].of = c

\* An instance that is not made has no flag.
Unmade == \A i \in Instance : ~Used(i) => ~user[i].logged

\* The invariant of sessions.
SessionOK == TypeOK /\ Belong /\ Unmade /\ StackHolds

\* References of an instance that some connection has.
LEMMA NeededUsed ==
    ASSUME NEW i \in Instance, NEW c, user[i].of = c, c # Nobody
    PROVE  Needed(i) = (IF user[i].held THEN 1 ELSE 0) + Occurs(i, stack[c])
                           + (IF current[c] = i THEN 1 ELSE 0)
BY DEF Needed, Used

LEMMA NeededOthers ==
    ASSUME NEW i \in Instance, user[i].of = Nobody
    PROVE  Needed(i) = 0
BY DEF Needed, Used

\* Who belongs to one connection is in no other's authstack.
LEMMA NotElsewhere ==
    ASSUME SessionOK, NEW i \in Instance, NEW c \in Connection, user[i].of # c
    PROVE  Occurs(i, stack[c]) = 0 /\ current[c] # i
<1>1. stack[c] \in Seq(Instance)
  BY TypeFacts DEF SessionOK
<1>2. ~\E k \in DOMAIN stack[c] : stack[c][k] = i
  BY DEF SessionOK, Belong
<1>3. Occurs(i, stack[c]) \in Nat /\ ~(Occurs(i, stack[c]) > 0)
  BY <1>1, <1>2, OccursType
<1>4. current[c] # i
  BY UserConstants DEF SessionOK, Belong
<1> QED
  BY <1>3, <1>4

\* A step that leaves the sessions, the references and who holds what alone.
LEMMA QuietSession ==
    ASSUME SessionOK, UNCHANGED <<current, stack, refs>>,
           \A i \in Instance : /\ user'[i].of = user[i].of /\ user'[i].held = user[i].held
                               /\ user'[i].logged = user[i].logged
    PROVE  Belong' /\ Unmade' /\ StackHolds'
<1>1. \A c \in Connection : /\ current[c] # NoUser => current[c] \in Instance
                            /\ \A k \in DOMAIN stack[c] : stack[c][k] \in Instance
  BY TypeFacts DEF SessionOK
<1>2. Belong'
  BY <1>1 DEF SessionOK, Belong
<1>3. Unmade'
  BY DEF SessionOK, Unmade, Used
<1>4. \A i \in Instance : Needed(i)' = Needed(i)
  BY DEF Needed, Used, Occurs
<1>5. ReferencesCover'
  BY <1>4 DEF SessionOK, StackHolds, ReferencesCover
<1>6. StackSound'
  BY DEF SessionOK, StackHolds, StackSound, Occurs
<1> QED
  BY <1>2, <1>3, <1>5, <1>6 DEF StackHolds

\* The authstacks stay as they are, and nobody gets the flag.
LEMMA SoundKept ==
    ASSUME StackSound, UNCHANGED <<current, stack>>,
           \A i \in Instance : user'[i].logged => user[i].logged /\ user'[i].of = user[i].of
    PROVE  StackSound'
<1>1. \A c \in Connection : /\ current'[c] = NoUser <=> stack'[c] = <<>>
                            /\ current'[c] # NoUser => Occurs(current'[c], stack'[c]) > 0
  BY DEF StackSound
<1>2. ASSUME NEW i \in Instance, user'[i].logged
      PROVE  Occurs(i, stack'[user'[i].of]) > 0
  <2>1. user[i].logged /\ user'[i].of = user[i].of
    BY <1>2
  <2>2. Occurs(i, stack[user[i].of]) > 0
    BY <2>1 DEF StackSound
  <2> QED
    BY <2>1, <2>2
<1> QED
  BY <1>1, <1>2 DEF StackSound, Occurs

\* New and Get: an instance no session knows, with the caller's reference.
LEMMA MadeSession ==
    ASSUME SessionOK, NEW c \in Connection, NEW i \in Instance, NEW g, NEW n,
           Made(c, i, g, n), UNCHANGED <<current, stack>>
    PROVE  Belong' /\ Unmade' /\ StackHolds'
<1> DEFINE new == [of |-> c, guid |-> g, name |-> n, held |-> TRUE, logged |-> FALSE]
<1>1. /\ user[i].of = Nobody
      /\ user' = [user EXCEPT ![i] = new] /\ refs' = [refs EXCEPT ![i] = 1]
  BY DEF Made, Used
<1>2. /\ user'[i] = new /\ \A j \in Instance \ {i} : user'[j] = user[j]
      /\ refs'[i] = 1 /\ \A j \in Instance \ {i} : refs'[j] = refs[j]
  BY <1>1, TypeFacts DEF SessionOK
<1>3. \A d \in Connection : Occurs(i, stack[d]) = 0 /\ current[d] # i
  BY <1>1, NotElsewhere, UserConstants
<1>4. \A d \in Connection : \A k \in DOMAIN stack[d] : stack[d][k] \in Instance \ {i}
  BY <1>1, TypeFacts, UserConstants DEF SessionOK, Belong
<1>5. \A d \in Connection : current[d] # NoUser => current[d] \in Instance \ {i}
  BY <1>3, TypeFacts DEF SessionOK
<1>6. Belong'
  BY <1>2, <1>4, <1>5 DEF SessionOK, Belong
<1>7. Unmade'
  BY <1>2 DEF SessionOK, Unmade, Used
<1>8. \A j \in Instance \ {i} : Needed(j)' = Needed(j)
  BY <1>2 DEF Needed, Used, Occurs
<1>9. Needed(i)' = 1
  <2>1. user'[i].of = c /\ user'[i].held
    BY <1>2
  <2>2. Occurs(i, stack[c])' = 0 /\ current'[c] # i
    BY <1>3 DEF Occurs
  <2> QED
    BY <2>1, <2>2, UserConstants DEF Needed, Used
<1>10. ReferencesCover'
  BY <1>2, <1>8, <1>9 DEF SessionOK, StackHolds, ReferencesCover
<1>11. \A j \in Instance : user'[j].logged => user[j].logged /\ user'[j].of = user[j].of
  BY <1>2
<1>12. StackSound'
  BY <1>11, SoundKept DEF SessionOK, StackHolds
<1> QED
  BY <1>6, <1>7, <1>10, <1>12 DEF StackHolds

LEMMA DropSession ==
    ASSUME SessionOK, NEW c \in Connection, Drop(c)
    PROVE  Belong' /\ Unmade' /\ StackHolds' /\ refs' \in [Instance -> Nat]
<1>1. PICK i \in Instance :
          /\ user[i].of = c /\ user[i].held
          /\ user' = [user EXCEPT ![i].held = FALSE]
          /\ refs' = [refs EXCEPT ![i] = @ - 1]
          /\ UNCHANGED <<current, stack>>
  BY DEF Drop, session
<1>13. /\ user \in [Instance -> User] /\ refs \in [Instance -> Nat]
       /\ \A j \in Instance : DOMAIN user[j] = {"of", "guid", "name", "held", "logged"}
  BY TypeFacts DEF SessionOK, User
<1>14. /\ user'[i] = [user[i] EXCEPT !.held = FALSE]
       /\ \A j \in Instance \ {i} : user'[j] = user[j]
  BY <1>1, <1>13
<1>15. user'[i].of = user[i].of /\ user'[i].logged = user[i].logged /\ ~user'[i].held
  BY <1>14, <1>13
<1>2. /\ ~user'[i].held
      /\ \A j \in Instance : /\ user'[j].of = user[j].of /\ user'[j].logged = user[j].logged
                             /\ j # i => user'[j].held = user[j].held
      /\ refs'[i] = refs[i] - 1 /\ \A j \in Instance \ {i} : refs'[j] = refs[j]
  BY <1>1, <1>13, <1>14, <1>15
<1>3. \A d \in Connection : /\ current[d] # NoUser => current[d] \in Instance
                            /\ \A k \in DOMAIN stack[d] : stack[d][k] \in Instance
  BY TypeFacts DEF SessionOK
<1>4. Belong' /\ Unmade'
  BY <1>1, <1>2, <1>3 DEF SessionOK, Belong, Unmade, Used
<1>5. \A j \in Instance \ {i} : Needed(j)' = Needed(j)
  BY <1>1, <1>2 DEF Needed, Used, Occurs
<1>6. Occurs(i, stack[c]) \in Nat
  BY OccursType, TypeFacts DEF SessionOK
<1>16. Needed(i) = 1 + Occurs(i, stack[c]) + (IF current[c] = i THEN 1 ELSE 0)
  BY <1>1, NeededUsed, UserConstants
<1>17. Needed(i)' = 0 + Occurs(i, stack[c]) + (IF current[c] = i THEN 1 ELSE 0)
  BY <1>1, <1>2, UserConstants DEF Needed, Used, Occurs
<1>7. Needed(i) = 1 + Needed(i)' /\ Needed(i)' \in Nat
  BY <1>6, <1>16, <1>17
<1>8. refs[i] \in Nat /\ refs[i] >= Needed(i)
  BY TypeFacts DEF SessionOK, StackHolds, ReferencesCover
<1>9. refs'[i] \in Nat /\ refs'[i] >= Needed(i)'
  BY <1>2, <1>7, <1>8
<1>10. ReferencesCover'
  BY <1>2, <1>5, <1>9 DEF SessionOK, StackHolds, ReferencesCover
<1>11. StackSound'
  BY <1>1, <1>2, SoundKept DEF SessionOK, StackHolds
<1>12. refs' \in [Instance -> Nat]
  BY <1>1, <1>9, TypeFacts DEF SessionOK
<1> QED
  BY <1>4, <1>10, <1>11, <1>12 DEF StackHolds

\* The members of an instance that log_in and log_out leave alone.
LEMMA FlagSet ==
    ASSUME TypeOK, NEW i \in Instance, NEW b \in BOOLEAN,
           user' = [user EXCEPT ![i].logged = b]
    PROVE  /\ user' \in [Instance -> User]
           /\ user'[i].logged = b
           /\ \A j \in Instance : /\ user'[j].of = user[j].of /\ user'[j].held = user[j].held
                                  /\ user'[j].guid = user[j].guid
                                  /\ user'[j].name = user[j].name
                                  /\ j # i => user'[j].logged = user[j].logged
<1>1. user \in [Instance -> User]
  BY TypeFacts
<1>2. user'[i] = [user[i] EXCEPT !.logged = b] /\ \A j \in Instance \ {i} : user'[j] = user[j]
  BY <1>1
<1>3. user[i] \in User
  BY <1>1
<1>4. /\ user'[i] \in User /\ user'[i].logged = b
      /\ user'[i].of = user[i].of /\ user'[i].held = user[i].held
      /\ user'[i].guid = user[i].guid /\ user'[i].name = user[i].name
  BY <1>2, <1>3 DEF User
<1> QED
  BY <1>1, <1>2, <1>4

\* log_in: one reference more for the authstack, and one for being current.
LEMMA LogInSession ==
    ASSUME SessionOK, NEW c \in Connection, LogIn(c)
    PROVE  /\ Belong' /\ Unmade' /\ StackHolds' /\ refs' \in [Instance -> Nat]
           /\ stack' \in [Connection -> Seq(Instance)]
           /\ current' \in [Connection -> Instance \cup {NoUser}]
           /\ user' \in [Instance -> User]
           /\ \A j \in Instance : user'[j].of = user[j].of /\ user'[j].guid = user[j].guid
<1>1. PICK i \in Instance :
          /\ user[i].of = c /\ current[c] # i
          /\ current' = [current EXCEPT ![c] = i]
          /\ stack' = [stack EXCEPT ![c] = Append(@, i)]
          /\ user' = [user EXCEPT ![i].logged = TRUE]
          /\ refs' = [refs EXCEPT ![i] = @ + 2]
  BY DEF LogIn, Has, Entered
<1>2. /\ refs \in [Instance -> Nat] /\ current \in [Connection -> Instance \cup {NoUser}]
      /\ stack \in [Connection -> Seq(Instance)] /\ TypeOK
  BY TypeFacts DEF SessionOK
<1>3. /\ user' \in [Instance -> User] /\ user'[i].logged
      /\ \A j \in Instance : /\ user'[j].of = user[j].of /\ user'[j].held = user[j].held
                             /\ user'[j].guid = user[j].guid
                             /\ j # i => user'[j].logged = user[j].logged
  BY <1>1, <1>2, FlagSet
<1> DEFINE s == stack[c]
<1>4. /\ current'[c] = i /\ \A d \in Connection \ {c} : current'[d] = current[d]
      /\ stack'[c] = Append(s, i) /\ \A d \in Connection \ {c} : stack'[d] = stack[d]
      /\ refs'[i] = refs[i] + 2 /\ \A j \in Instance \ {i} : refs'[j] = refs[j]
  BY <1>1, <1>2
<1>5. /\ s \in Seq(Instance) /\ Append(s, i) \in Seq(Instance) /\ Append(s, i) # <<>>
      /\ \A k \in DOMAIN Append(s, i) : Append(s, i)[k] = i \/ (k \in DOMAIN s /\ Append(s, i)[k] = s[k])
  <2>1. s \in Seq(Instance)
    BY <1>2
  <2>2. Append(s, i) \in Seq(Instance) /\ Append(s, i) # <<>>
    BY <2>1
  <2>3. ASSUME NEW k \in DOMAIN Append(s, i)
        PROVE  Append(s, i)[k] = i \/ (k \in DOMAIN s /\ Append(s, i)[k] = s[k])
    BY <2>1, AppendPlaces
  <2> QED
    BY <2>1, <2>2, <2>3
<1>6. \A j : Occurs(j, Append(s, i)) = Occurs(j, s) + (IF j = i THEN 1 ELSE 0)
  BY <1>5, OccursAppend
<1>7. \A d \in Connection : /\ current[d] # NoUser => current[d] \in Instance
                            /\ \A k \in DOMAIN stack[d] : stack[d][k] \in Instance
  BY <1>2
<1>8. Belong'
  <2> SUFFICES ASSUME NEW d \in Connection
               PROVE  /\ current'[d] # NoUser => user'[current'[d]].of = d
                      /\ \A k \in DOMAIN stack'[d] : user'[stack'[d][k]].of = d
    BY DEF Belong
  <2>1. CASE d = c
    BY <2>1, <1>1, <1>3, <1>4, <1>5, <1>7 DEF SessionOK, Belong
  <2>2. CASE d # c
    BY <2>2, <1>3, <1>4, <1>7 DEF SessionOK, Belong
  <2> QED BY <2>1, <2>2
<1>9. Unmade'
  <2>1. c # Nobody
    BY UserConstants
  <2> QED
    BY <2>1, <1>1, <1>3 DEF SessionOK, Unmade, Used
<1>10. \A j : Occurs(j, s) \in Nat
  BY <1>5, OccursType
<1>11. StackSound'
  <2>1. ASSUME NEW d \in Connection
        PROVE  /\ current'[d] = NoUser <=> stack'[d] = <<>>
               /\ current'[d] # NoUser => Occurs(current'[d], stack'[d]) > 0
    <3>1. CASE d = c
      BY <3>1, <1>1, <1>4, <1>5, <1>6, <1>10, UserConstants
    <3>2. CASE d # c
      BY <3>2, <1>4 DEF SessionOK, StackHolds, StackSound
    <3> QED BY <3>1, <3>2
  <2>2. ASSUME NEW j \in Instance, user'[j].logged
        PROVE  Occurs(j, stack'[user'[j].of]) > 0
    <3>1. CASE j = i
      BY <3>1, <1>1, <1>3, <1>4, <1>6, <1>10
    <3>2. CASE j # i
      <4>1. user[j].logged /\ user'[j].of = user[j].of /\ user[j].of # Nobody
        BY <3>2, <2>2, <1>3 DEF SessionOK, Unmade, Used
      <4>2. user[j].of \in Connection
        BY <4>1, TypeFacts, <1>2 DEF User
      <4>3. Occurs(j, stack[user[j].of]) > 0
        BY <4>1 DEF SessionOK, StackHolds, StackSound
      <4>4. CASE user[j].of = c
        <5>1. Occurs(j, stack'[c]) = Occurs(j, s)
          BY <3>2, <1>4, <1>6, <1>10
        <5> QED
          BY <4>1, <4>3, <4>4, <5>1
      <4>5. CASE user[j].of # c
        BY <4>1, <4>2, <4>3, <4>5, <1>4
      <4> QED
        BY <4>4, <4>5
    <3> QED BY <3>1, <3>2
  <2> QED
    BY <2>1, <2>2 DEF StackSound, Occurs
<1>12. refs'[i] \in Nat /\ refs'[i] >= Needed(i)'
  <2>1. Needed(i) = (IF user[i].held THEN 1 ELSE 0) + Occurs(i, s) + 0
    BY <1>1, NeededUsed, UserConstants
  <2>2. Needed(i)' = (IF user[i].held THEN 1 ELSE 0) + Occurs(i, Append(s, i)) + 1
    <3>1. user'[i].of = c /\ user'[i].held = user[i].held /\ c # Nobody
      BY <1>1, <1>3, UserConstants
    <3>2. Occurs(i, stack[c])' = Occurs(i, Append(s, i)) /\ current'[c] = i
      BY <1>4 DEF Occurs
    <3> QED
      BY <3>1, <3>2 DEF Needed, Used
  <2>3. Occurs(i, s) \in Nat /\ Occurs(i, Append(s, i)) = Occurs(i, s) + 1
    BY <1>6, <1>10
  <2>4. refs[i] \in Nat /\ refs[i] >= Needed(i)
    BY <1>2 DEF SessionOK, StackHolds, ReferencesCover
  <2> QED
    BY <2>1, <2>2, <2>3, <2>4, <1>4
<1>13. ASSUME NEW j \in Instance \ {i}
       PROVE  refs'[j] >= Needed(j)'
  <2>1. refs'[j] = refs[j] /\ refs[j] \in Nat /\ refs[j] >= Needed(j)
    BY <1>2, <1>4 DEF SessionOK, StackHolds, ReferencesCover
  <2>2. CASE user[j].of = Nobody
    <3>1. Needed(j)' = 0
      BY <2>2, <1>3 DEF Needed, Used
    <3> QED BY <2>1, <3>1
  <2>3. CASE user[j].of # Nobody
    <3> DEFINE d == user[j].of
    <3>1. d \in Connection
      BY <2>3, <1>2, TypeFacts DEF User
    <3>2. Needed(j) = (IF user[j].held THEN 1 ELSE 0) + Occurs(j, stack[d])
                          + (IF current[d] = j THEN 1 ELSE 0)
      BY <2>3, NeededUsed
    <3>3. Needed(j)' = (IF user[j].held THEN 1 ELSE 0) + Occurs(j, stack'[d])
                          + (IF current'[d] = j THEN 1 ELSE 0)
      BY <2>3, <1>3 DEF Needed, Used, Occurs
    <3>4. Occurs(j, stack'[d]) = Occurs(j, stack[d]) /\ Occurs(j, stack[d]) \in Nat
      <4>1. CASE d = c
        BY <4>1, <1>4, <1>6, <1>10
      <4>2. CASE d # c
        BY <4>2, <3>1, <1>2, <1>4, OccursType
      <4> QED BY <4>1, <4>2
    <3>5. current'[d] = j => current[d] = j
      BY <3>1, <1>4
    <3> HIDE DEF d
    <3> QED
      BY <2>1, <3>2, <3>3, <3>4, <3>5
  <2> QED
    BY <2>2, <2>3
<1>14. ReferencesCover'
  BY <1>12, <1>13 DEF ReferencesCover
<1>15. refs' \in [Instance -> Nat]
  BY <1>1, <1>2, <1>12
<1>16. /\ stack' \in [Connection -> Seq(Instance)]
       /\ current' \in [Connection -> Instance \cup {NoUser}]
  BY <1>1, <1>2, <1>5
<1> QED
  BY <1>3, <1>8, <1>9, <1>11, <1>14, <1>15, <1>16 DEF StackHolds

\* log_out, and the logging out of dispose: the authstack loses its reference,
\* and so does being current, and who is current next gets one.
LEMMA LeaveSession ==
    ASSUME SessionOK, NEW c \in Connection, Leave(c)
    PROVE  /\ Belong' /\ Unmade' /\ StackHolds' /\ refs' \in [Instance -> Nat]
           /\ stack' \in [Connection -> Seq(Instance)]
           /\ current' \in [Connection -> Instance \cup {NoUser}]
           /\ user' \in [Instance -> User]
           /\ \A j \in Instance : user'[j].of = user[j].of /\ user'[j].guid = user[j].guid
<1> DEFINE i == current[c]
           s == stack[c]
           r == Without(s, i)
           n == NextUser(r, i)
<1>1. /\ i # NoUser /\ stack' = [stack EXCEPT ![c] = r]
      /\ current' = [current EXCEPT ![c] = n]
      /\ user' = [user EXCEPT ![i].logged = FALSE] /\ refs' = Left(i, n)
  BY DEF Leave
<1>2. /\ refs \in [Instance -> Nat] /\ current \in [Connection -> Instance \cup {NoUser}]
      /\ stack \in [Connection -> Seq(Instance)] /\ TypeOK
  BY TypeFacts DEF SessionOK
<1>3. /\ i \in Instance /\ r \in Seq(Instance) /\ s \in Seq(Instance)
      /\ \A j : Occurs(j, r) = Occurs(j, s) - (IF j = i THEN 1 ELSE 0)
  BY <1>2, LeaveType DEF SessionOK, StackHolds
<1>4. /\ user' \in [Instance -> User] /\ ~user'[i].logged
      /\ \A j \in Instance : /\ user'[j].of = user[j].of /\ user'[j].held = user[j].held
                             /\ user'[j].guid = user[j].guid
                             /\ j # i => user'[j].logged = user[j].logged
  BY <1>1, <1>2, <1>3, FlagSet
<1>5. /\ r = <<>> => n = NoUser
      /\ r # <<>> => n = r[1] /\ 1 \in DOMAIN r /\ n \in Instance
  BY <1>3 DEF NextUser
<1>6. \A j : /\ Occurs(j, s) \in Nat /\ Occurs(j, r) \in Nat
             /\ Occurs(j, r) > 0 <=> \E k \in DOMAIN r : r[k] = j
             /\ Occurs(j, s) > 0 <=> \E k \in DOMAIN s : s[k] = j
  BY <1>3, OccursType
<1> HIDE DEF i, s, r, n
<1>7. /\ current'[c] = n /\ \A d \in Connection \ {c} : current'[d] = current[d]
      /\ stack'[c] = r /\ \A d \in Connection \ {c} : stack'[d] = stack[d]
      /\ current[c] = i /\ stack[c] = s
  BY <1>1, <1>2 DEF i, s
<1>8. /\ user[i].of = c /\ i # NoUser
      /\ \A k \in DOMAIN s : s[k] \in Instance /\ user[s[k]].of = c
      /\ Occurs(i, s) > 0
  BY <1>1, <1>2, <1>3, <1>7 DEF SessionOK, Belong, StackHolds, StackSound
<1>9. \A k \in DOMAIN r : r[k] \in Instance /\ user[r[k]].of = c
  <2>1. ASSUME NEW k \in DOMAIN r
        PROVE  \E l \in DOMAIN s : s[l] = r[k]
    <3> DEFINE j == r[k]
    <3>1. Occurs(j, r) > 0
      BY <1>6
    <3> HIDE DEF j
    <3>2. Occurs(j, s) > 0
      BY <3>1, <1>3, <1>6
    <3>3. \E l \in DOMAIN s : s[l] = j
      BY <3>2, <1>6
    <3> QED
      BY <3>3 DEF j
  <2> QED
    BY <2>1, <1>8
<1>10. Belong'
  <2> SUFFICES ASSUME NEW d \in Connection
               PROVE  /\ current'[d] # NoUser => user'[current'[d]].of = d
                      /\ \A k \in DOMAIN stack'[d] : user'[stack'[d][k]].of = d
    BY DEF Belong
  <2>1. CASE d = c
    BY <2>1, <1>4, <1>5, <1>7, <1>9
  <2>2. CASE d # c
    <3>1. /\ current[d] # NoUser => current[d] \in Instance
          /\ \A k \in DOMAIN stack[d] : stack[d][k] \in Instance
      BY <1>2
    <3> QED
      BY <2>2, <3>1, <1>4, <1>7 DEF SessionOK, Belong
  <2> QED BY <2>1, <2>2
<1>11. Unmade'
  BY <1>3, <1>4 DEF SessionOK, Unmade, Used
<1>12. StackSound'
  <2>1. ASSUME NEW d \in Connection
        PROVE  /\ current'[d] = NoUser <=> stack'[d] = <<>>
               /\ current'[d] # NoUser => Occurs(current'[d], stack'[d]) > 0
    <3>1. CASE d = c
      BY <3>1, <1>5, <1>6, <1>7, UserConstants
    <3>2. CASE d # c
      BY <3>2, <1>7 DEF SessionOK, StackHolds, StackSound
    <3> QED BY <3>1, <3>2
  <2>2. ASSUME NEW j \in Instance, user'[j].logged
        PROVE  Occurs(j, stack'[user'[j].of]) > 0
    <3>1. j # i /\ user[j].logged /\ user'[j].of = user[j].of /\ user[j].of # Nobody
      BY <2>2, <1>4 DEF SessionOK, Unmade, Used
    <3>2. user[j].of \in Connection
      BY <3>1, TypeFacts, <1>2 DEF User
    <3>3. Occurs(j, stack[user[j].of]) > 0
      BY <3>1 DEF SessionOK, StackHolds, StackSound
    <3>4. CASE user[j].of = c
      <4>1. Occurs(j, r) = Occurs(j, s)
        BY <3>1, <1>3, <1>6
      <4> QED
        BY <3>1, <3>3, <3>4, <4>1, <1>7
    <3>5. CASE user[j].of # c
      BY <3>1, <3>2, <3>3, <3>5, <1>7
    <3> QED
      BY <3>4, <3>5
  <2> QED
    BY <2>1, <2>2 DEF StackSound, Occurs
<1>13. ASSUME NEW j \in Instance
       PROVE  refs'[j] \in Nat /\ refs'[j] >= Needed(j)'
  <2> DEFINE more == IF j = n THEN 1 ELSE 0
             less == IF j = i THEN 2 ELSE 0
             held == IF user[j].held THEN 1 ELSE 0
  <2>1. refs'[j] = refs[j] + more - less /\ refs[j] \in Nat /\ refs[j] >= Needed(j)
    BY <1>1, <1>2 DEF Left, SessionOK, StackHolds, ReferencesCover
  <2>2. CASE user[j].of # c
    <3>1. j # i /\ j # n
      BY <2>2, <1>5, <1>8, <1>9, UserConstants
    <3>2. refs'[j] = refs[j]
      BY <2>1, <3>1
    <3>3. CASE user[j].of = Nobody
      <4>1. Needed(j)' = 0
        BY <3>3, <1>4 DEF Needed, Used
      <4> QED BY <2>1, <3>2, <4>1
    <3>4. CASE user[j].of # Nobody
      <4>1. user[j].of \in Connection \ {c}
        BY <2>2, <3>4, <1>2, TypeFacts DEF User
      <4>2. stack'[user[j].of] = stack[user[j].of] /\ current'[user[j].of] = current[user[j].of]
        BY <4>1, <1>7
      <4>3. user'[j].of = user[j].of /\ user'[j].held = user[j].held
        BY <1>4
      <4>4. Needed(j)' = Needed(j)
        BY <4>2, <4>3 DEF Needed, Used, Occurs
      <4> QED BY <2>1, <3>2, <4>4
    <3> QED BY <3>3, <3>4
  <2>3. CASE user[j].of = c
    <3>1. Needed(j) = held + Occurs(j, s) + (IF i = j THEN 1 ELSE 0)
      BY <2>3, <1>7, NeededUsed, UserConstants
    <3>2. Needed(j)' = held + Occurs(j, r) + (IF n = j THEN 1 ELSE 0)
      <4>1. user'[j].of = c /\ user'[j].held = user[j].held /\ c # Nobody
        BY <2>3, <1>4, UserConstants
      <4>2. Occurs(j, stack[c])' = Occurs(j, r) /\ current'[c] = n
        BY <1>7 DEF Occurs
      <4> QED
        BY <4>1, <4>2 DEF Needed, Used
    <3>3. /\ Occurs(j, r) = Occurs(j, s) - (IF j = i THEN 1 ELSE 0)
          /\ Occurs(j, s) \in Nat /\ Occurs(j, r) \in Nat /\ held \in {0, 1}
      BY <1>3, <1>6
    <3>4. CASE j = i
      BY <2>1, <3>1, <3>2, <3>3, <3>4
    <3>5. CASE j # i
      BY <2>1, <3>1, <3>2, <3>3, <3>5
    <3> QED BY <3>4, <3>5
  <2> QED
    BY <2>2, <2>3
<1>14. ReferencesCover'
  BY <1>13 DEF ReferencesCover
<1>15. refs' \in [Instance -> Nat]
  <2>1. refs' = [j \in Instance |-> refs'[j]]
    BY <1>1 DEF Left
  <2> QED
    BY <2>1, <1>13
<1>16. /\ stack' \in [Connection -> Seq(Instance)]
       /\ current' \in [Connection -> Instance \cup {NoUser}]
  BY <1>1, <1>2, <1>3, <1>5
<1> QED
  BY <1>4, <1>10, <1>11, <1>12, <1>14, <1>15, <1>16 DEF StackHolds

-----------------------------------------------------------------------------
(* Every step keeps the types and the sessions *)

\* What a step of a connection that leaves the table and the calls alone keeps
\* of the types.
LEMMA PlainType ==
    ASSUME TypeOK, NEW c \in Connection, UNCHANGED <<table, call>>,
           user' \in [Instance -> User], refs' \in [Instance -> Nat],
           current' \in [Connection -> Instance \cup {NoUser}],
           stack' \in [Connection -> Seq(Instance)],
           phase' \in [Connection -> Phase],
           answer' \in [Connection -> {"none", "stored", "failed"}],
           calls' \in 0 .. MaxCalls,
           \A d \in Connection : call[d] # {} =>
               /\ phase'[d] = phase[d]
               /\ \A m \in call[d] : user'[m.at].of = user[m.at].of
                                     /\ user'[m.at].guid = user[m.at].guid
    PROVE  TypeOK'
<1>1. table' \in [Guid -> Name \cup {Unused, Gone}]
  BY TypeFacts
<1>2. call' = [d \in Connection |-> call'[d]] /\ \A d \in Connection : call'[d] = call[d]
  BY TypeFacts
<1> QED
  BY <1>1, <1>2, TypeKept

LEMMA MadeStep ==
    ASSUME SessionOK, NEW c \in Connection, NEW i \in Instance, NEW n \in Name,
           NEW g \in Guid \cup {NoGuid}, Calling(c), Made(c, i, g, n),
           UNCHANGED <<table, session, call>>
    PROVE  SessionOK'
<1>1. TypeOK /\ user[i].of = Nobody
  BY DEF SessionOK, Made, Used
<1>2. Belong' /\ Unmade' /\ StackHolds'
  BY MadeSession DEF session
<1>3. [of |-> c, guid |-> g, name |-> n, held |-> TRUE, logged |-> FALSE] \in User
  BY DEF User
<1>4. /\ user' \in [Instance -> User] /\ \A j \in Instance \ {i} : user'[j] = user[j]
      /\ refs' \in [Instance -> Nat]
  BY <1>1, <1>3, TypeFacts DEF Made
<1>5. \A d \in Connection : \A m \in call[d] : m.at \in Instance \ {i}
  BY <1>1, OneCall, UserConstants DEF Call
<1>6. /\ calls' \in 0 .. MaxCalls
      /\ answer' \in [Connection -> {"none", "stored", "failed"}]
      /\ current' = current /\ stack' = stack /\ phase' = phase
  BY <1>1, CallingType DEF session
<1>7. TypeOK'
  BY <1>1, <1>4, <1>5, <1>6, TypeFacts, PlainType
<1> QED
  BY <1>2, <1>7 DEF SessionOK

LEMMA DropStep ==
    ASSUME SessionOK, NEW c \in Connection, Drop(c)
    PROVE  SessionOK'
<1>1. Belong' /\ Unmade' /\ StackHolds' /\ refs' \in [Instance -> Nat]
  BY DropSession
<1>2. TypeOK
  BY DEF SessionOK
<1>3. PICK i \in Instance : /\ user' = [user EXCEPT ![i].held = FALSE]
                            /\ Calling(c) /\ UNCHANGED <<table, session, call>>
  BY DEF Drop
<1>4. user[i] \in User /\ user \in [Instance -> User]
  BY <1>2, TypeFacts
<1>5. /\ user'[i] = [user[i] EXCEPT !.held = FALSE] /\ \A j \in Instance \ {i} : user'[j] = user[j]
      /\ user' \in [Instance -> User]
  BY <1>3, <1>4 DEF User
<1>6. \A j \in Instance : user'[j].of = user[j].of /\ user'[j].guid = user[j].guid
  BY <1>4, <1>5 DEF User
<1>7. \A d \in Connection : \A m \in call[d] : m.at \in Instance
  BY <1>2, OneCall DEF Call
<1>8. TypeOK'
  BY <1>1, <1>2, <1>3, <1>5, <1>6, <1>7, TypeFacts, CallingType, PlainType DEF session
<1> QED
  BY <1>1, <1>8 DEF SessionOK

LEMMA LogInStep ==
    ASSUME SessionOK, NEW c \in Connection, LogIn(c)
    PROVE  SessionOK'
<1>1. TypeOK /\ Calling(c) /\ UNCHANGED <<table, phase, call>>
  BY DEF SessionOK, LogIn
<1>2. \A d \in Connection : \A m \in call[d] : m.at \in Instance
  BY <1>1, OneCall DEF Call
<1>3. TypeOK'
  BY <1>1, <1>2, LogInSession, TypeFacts, CallingType, PlainType
<1> QED
  BY <1>3, LogInSession DEF SessionOK

LEMMA LeaveStep ==
    ASSUME SessionOK, NEW c \in Connection, Leave(c),
           UNCHANGED <<table, phase, call>>,
           calls' \in 0 .. MaxCalls,
           answer' \in [Connection -> {"none", "stored", "failed"}]
    PROVE  SessionOK'
<1>1. TypeOK
  BY DEF SessionOK
<1>2. \A d \in Connection : \A m \in call[d] : m.at \in Instance
  BY <1>1, OneCall DEF Call
<1>3. TypeOK'
  BY <1>1, <1>2, LeaveSession, TypeFacts, PlainType
<1> QED
  BY <1>3, LeaveSession DEF SessionOK

\* Dispose begins to close, and finalize closes with nobody logged in.
LEMMA ClosingStep ==
    ASSUME SessionOK, NEW c \in Connection, Dispose(c) \/ Finalize(c)
    PROVE  SessionOK'
<1>1. TypeOK
  BY DEF SessionOK
<1>2. /\ UNCHANGED <<table, user, refs, current, call>>
      /\ calls' \in 0 .. MaxCalls
      /\ answer' \in [Connection -> {"none", "stored", "failed"}]
  BY <1>1, CallingType, TypeFacts DEF Dispose, Finalize
<1>3. stack' = stack
  <2>1. CASE Finalize(c)
    <3>1. stack[c] = <<>>
      BY <2>1 DEF SessionOK, StackHolds, StackSound, Finalize
    <3>2. stack' = [stack EXCEPT ![c] = stack[c]]
      BY <2>1, <3>1 DEF Finalize
    <3> QED
      BY <3>2, <1>1, TypeFacts
  <2> QED
    BY <2>1 DEF Dispose
<1>4. /\ phase' \in [Connection -> Phase] /\ call[c] = {}
      /\ \A d \in Connection \ {c} : phase'[d] = phase[d]
  BY <1>1, OneCall, TypeFacts DEF Dispose, Finalize, Phase, Calling
<1>5. Belong' /\ Unmade' /\ StackHolds'
  BY <1>2, <1>3, QuietSession
<1>6. TypeOK'
  BY <1>1, <1>2, <1>3, <1>4, TypeFacts, PlainType
<1> QED
  BY <1>5, <1>6 DEF SessionOK

\* The name or the guid of an instance is set; sessions do not look at them.
LEMMA NameOrGuidSet ==
    ASSUME SessionOK, NEW i \in Instance, NEW g \in Guid \cup {NoGuid}, NEW n \in Name,
           user' = [user EXCEPT ![i] = [@ EXCEPT !.guid = g, !.name = n]],
           UNCHANGED <<current, stack, refs>>
    PROVE  /\ user' \in [Instance -> User]
           /\ user'[i].guid = g /\ user'[i].name = n
           /\ \A j \in Instance \ {i} : user'[j] = user[j]
           /\ \A j \in Instance : /\ user'[j].of = user[j].of /\ user'[j].held = user[j].held
                                  /\ user'[j].logged = user[j].logged
           /\ Belong' /\ Unmade' /\ StackHolds'
<1>1. user \in [Instance -> User] /\ user[i] \in User
  BY TypeFacts DEF SessionOK
<1>2. user'[i] = [user[i] EXCEPT !.guid = g, !.name = n]
      /\ \A j \in Instance \ {i} : user'[j] = user[j]
  BY <1>1
<1>3. /\ user'[i] \in User /\ user'[i].guid = g /\ user'[i].name = n
      /\ user'[i].of = user[i].of /\ user'[i].held = user[i].held
      /\ user'[i].logged = user[i].logged
  BY <1>1, <1>2 DEF User
<1>4. user' \in [Instance -> User]
  BY <1>1, <1>2, <1>3
<1>5. \A j \in Instance : /\ user'[j].of = user[j].of /\ user'[j].held = user[j].held
                          /\ user'[j].logged = user[j].logged
  BY <1>2, <1>3
<1> QED
  BY <1>2, <1>3, <1>4, <1>5, QuietSession

\* A call begins: it is about an instance of its connection.
LEMMA BeginType ==
    ASSUME TypeOK, NEW c \in Connection, NEW m \in Call,
           call' = [call EXCEPT ![c] = {m}], phase[c] = "open",
           user'[m.at].of = c, (user'[m.at].guid = NoGuid) = (m.op = "create"),
           \A d \in Connection \ {c} : \A k \in call[d] : user'[k.at].of = user[k.at].of
                                         /\ user'[k.at].guid = user[k.at].guid,
           user' \in [Instance -> User], calls' \in 0 .. MaxCalls,
           answer' \in [Connection -> {"none", "stored", "failed"}],
           UNCHANGED <<table, refs, session>>
    PROVE  TypeOK'
<1>1. /\ call'[c] = {m} /\ \A d \in Connection \ {c} : call'[d] = call[d]
      /\ call' = [d \in Connection |-> call'[d]]
  BY TypeFacts
<1>2. call' \in [Connection -> {{}} \cup {{k} : k \in Call}]
  <2>1. \A d \in Connection : call'[d] \in {{}} \cup {{k} : k \in Call}
    BY <1>1 DEF TypeOK
  <2> QED
    BY <1>1, <2>1
<1>3. UNCHANGED <<current, stack, phase>>
  BY DEF session
<1>4. ASSUME NEW d \in Connection, NEW k \in call'[d]
      PROVE  /\ phase'[d] = "open" /\ user'[k.at].of = d
             /\ (user'[k.at].guid = NoGuid) = (k.op = "create")
  <2>1. CASE d = c
    <3>1. k = m
      BY <2>1, <1>1
    <3> QED
      BY <2>1, <3>1, <1>3
  <2>2. CASE d # c
    <3>1. k \in call[d]
      BY <2>2, <1>1
    <3>2. /\ phase[d] = "open" /\ user[k.at].of = d
          /\ (user[k.at].guid = NoGuid) = (k.op = "create")
      BY <3>1, OneCall
    <3>3. user'[k.at].of = user[k.at].of /\ user'[k.at].guid = user[k.at].guid
      BY <2>2, <3>1
    <3> QED
      BY <3>2, <3>3, <1>3
  <2> QED
    BY <2>1, <2>2
<1> QED
  BY <1>2, <1>3, <1>4, TypeFacts DEF TypeOK

LEMMA StartCreateStep ==
    ASSUME SessionOK, NEW c \in Connection, StartCreate(c)
    PROVE  SessionOK'
<1>1. TypeOK /\ Calling(c) /\ UNCHANGED <<table, user, refs, session>>
  BY DEF SessionOK, StartCreate
<1>2. Belong' /\ Unmade' /\ StackHolds'
  BY <1>1, QuietSession DEF session
<1>6. /\ calls' \in 0 .. MaxCalls /\ phase[c] = "open"
      /\ answer' \in [Connection -> {"none", "stored", "failed"}]
      /\ UNCHANGED <<current, stack, phase>>
  BY <1>1, CallingType DEF session
<1>7. /\ user' \in [Instance -> User] /\ refs' \in [Instance -> Nat]
      /\ current' \in [Connection -> Instance \cup {NoUser}]
      /\ stack' \in [Connection -> Seq(Instance)] /\ phase' \in [Connection -> Phase]
  BY <1>1, <1>6, TypeFacts
<1>3. ASSUME UNCHANGED call PROVE TypeOK'
  BY <1>1, <1>3, <1>6, <1>7, PlainType
<1>4. ASSUME \E i \in Instance, heard \in BOOLEAN :
                 /\ Has(c, i) /\ user[i].guid = NoGuid
                 /\ call' = [call EXCEPT ![c] =
                        {[op |-> "create", at |-> i, heard |-> heard, late |-> {}]}]
      PROVE  TypeOK'
  <2>1. PICK i \in Instance, heard \in BOOLEAN :
             /\ Has(c, i) /\ user[i].guid = NoGuid
             /\ call' = [call EXCEPT ![c] =
                    {[op |-> "create", at |-> i, heard |-> heard, late |-> {}]}]
    BY <1>4
  <2> DEFINE m == [op |-> "create", at |-> i, heard |-> heard, late |-> {}]
  <2>2. m \in Call /\ m.at = i /\ m.op = "create"
    BY DEF Call
  <2>3. user'[m.at].of = c /\ (user'[m.at].guid = NoGuid) = (m.op = "create")
    BY <1>1, <2>1, <2>2 DEF Has
  <2>4. call' = [call EXCEPT ![c] = {m}]
    BY <2>1
  <2> HIDE DEF m
  <2> QED
    BY <1>1, <1>6, <1>7, <2>2, <2>3, <2>4, BeginType
<1>8. \/ UNCHANGED call
      \/ \E i \in Instance, heard \in BOOLEAN :
             /\ Has(c, i) /\ user[i].guid = NoGuid
             /\ call' = [call EXCEPT ![c] =
                    {[op |-> "create", at |-> i, heard |-> heard, late |-> {}]}]
  BY DEF StartCreate
<1>5. TypeOK'
  BY <1>3, <1>4, <1>8
<1> QED
  BY <1>2, <1>5 DEF SessionOK

LEMMA StartUpdateStep ==
    ASSUME SessionOK, NEW c \in Connection, StartUpdate(c)
    PROVE  SessionOK'
<1>1. TypeOK /\ Calling(c) /\ UNCHANGED <<table, refs, session>>
  BY DEF SessionOK, StartUpdate
<1>2. PICK i \in Instance, n \in Name, heard \in BOOLEAN :
        /\ Has(c, i) /\ user[i].guid # NoGuid
        /\ user' = [user EXCEPT ![i].name = n]
        /\ \/ UNCHANGED call
           \/ call' = [call EXCEPT ![c] =
                  {[op |-> "update", at |-> i, heard |-> heard, late |-> {}]}]
  BY DEF StartUpdate
<1>3. user[i] \in User /\ user \in [Instance -> User]
  BY <1>1, TypeFacts
<1>4. user' = [user EXCEPT ![i] = [@ EXCEPT !.guid = user[i].guid, !.name = n]]
  <2>1. [user[i] EXCEPT !.name = n] = [user[i] EXCEPT !.guid = user[i].guid, !.name = n]
    BY <1>3 DEF User
  <2> QED
    BY <1>2, <2>1
<1>5. user[i].guid \in Guid \cup {NoGuid}
  BY <1>3 DEF User
<1>6. /\ user' \in [Instance -> User] /\ user'[i].guid = user[i].guid
      /\ \A j \in Instance \ {i} : user'[j] = user[j]
      /\ user'[i].of = user[i].of
      /\ Belong' /\ Unmade' /\ StackHolds'
  BY <1>1, <1>4, <1>5, NameOrGuidSet DEF session
<1>7. \A d \in Connection : \A k \in call[d] : k.at \in Instance
  BY <1>1, OneCall DEF Call
<1>8. \A j \in Instance : user'[j].of = user[j].of /\ user'[j].guid = user[j].guid
  BY <1>6
<1>12. /\ calls' \in 0 .. MaxCalls /\ phase[c] = "open"
       /\ answer' \in [Connection -> {"none", "stored", "failed"}]
       /\ UNCHANGED <<current, stack, phase>>
  BY <1>1, CallingType DEF session
<1>13. /\ refs' \in [Instance -> Nat]
       /\ current' \in [Connection -> Instance \cup {NoUser}]
       /\ stack' \in [Connection -> Seq(Instance)] /\ phase' \in [Connection -> Phase]
  BY <1>1, <1>12, TypeFacts
<1>9. ASSUME UNCHANGED call PROVE TypeOK'
  BY <1>1, <1>6, <1>7, <1>8, <1>9, <1>12, <1>13, PlainType
<1>10. ASSUME call' = [call EXCEPT ![c] =
                  {[op |-> "update", at |-> i, heard |-> heard, late |-> {}]}]
       PROVE  TypeOK'
  <2> DEFINE m == [op |-> "update", at |-> i, heard |-> heard, late |-> {}]
  <2>1. m \in Call /\ m.at = i /\ m.op = "update"
    BY DEF Call
  <2>2. user'[m.at].of = c /\ (user'[m.at].guid = NoGuid) = (m.op = "create")
    BY <1>2, <1>6, <2>1 DEF Has
  <2>3. call' = [call EXCEPT ![c] = {m}]
    BY <1>10
  <2> HIDE DEF m
  <2> QED
    BY <1>1, <1>6, <1>7, <1>8, <1>12, <1>13, <2>1, <2>2, <2>3, BeginType
<1>11. TypeOK'
  BY <1>2, <1>9, <1>10
<1> QED
  BY <1>6, <1>11 DEF SessionOK

\* The calls after a row was written by a connection: its own is over.
LEMMA LateCalls ==
    ASSUME TypeOK, NEW c \in Connection, NEW g \in Guid,
           call' = Late(g, [call EXCEPT ![c] = {}])
    PROVE  /\ call' = [d \in Connection |-> call'[d]]
           /\ call'[c] = {}
           /\ \A d \in Connection \ {c} :
                  call'[d] = {[m EXCEPT !.late = @ \cup {g}] : m \in call[d]}
BY TypeFacts DEF Late

\* A statement of a call that writes row g, or none.
LEMMA StatementStep ==
    ASSUME SessionOK, NEW c \in Connection, Belong' /\ Unmade' /\ StackHolds',
           \/ call' = [call EXCEPT ![c] = {}]
           \/ \E g \in Guid : call' = Late(g, [call EXCEPT ![c] = {}]),
           table' \in [Guid -> Name \cup {Unused, Gone}], user' \in [Instance -> User],
           answer' \in [Connection -> {"none", "stored", "failed"}],
           calls' \in 0 .. MaxCalls, UNCHANGED <<refs, session>>,
           \A d \in Connection \ {c} : \A m \in call[d] :
               user'[m.at].of = user[m.at].of /\ user'[m.at].guid = user[m.at].guid
    PROVE  SessionOK'
<1>1. TypeOK
  BY DEF SessionOK
<1>2. /\ call' = [d \in Connection |-> call'[d]] /\ call'[c] = {}
      /\ \A d \in Connection :
             \/ call'[d] = {} \/ call'[d] = call[d]
             \/ \E g \in Guid : call'[d] = {[m EXCEPT !.late = @ \cup {g}] : m \in call[d]}
  <2>1. CASE call' = [call EXCEPT ![c] = {}]
    BY <1>1, <2>1, TypeFacts
  <2>2. CASE \E g \in Guid : call' = Late(g, [call EXCEPT ![c] = {}])
    <3>1. PICK g \in Guid : call' = Late(g, [call EXCEPT ![c] = {}])
      BY <2>2
    <3>2. /\ call' = [d \in Connection |-> call'[d]] /\ call'[c] = {}
          /\ \A d \in Connection \ {c} :
                 call'[d] = {[m EXCEPT !.late = @ \cup {g}] : m \in call[d]}
      BY <1>1, <3>1, LateCalls
    <3> QED
      BY <3>2
  <2> QED
    BY <2>1, <2>2
<1>3. UNCHANGED <<refs, current, stack, phase>>
  BY DEF session
<1>4. /\ refs' \in [Instance -> Nat] /\ current' \in [Connection -> Instance \cup {NoUser}]
      /\ stack' \in [Connection -> Seq(Instance)] /\ phase' \in [Connection -> Phase]
  BY <1>1, <1>3, TypeFacts
<1>5. \A d \in Connection : call'[d] # {} =>
               /\ phase'[d] = phase[d]
               /\ \A m \in call[d] : user'[m.at].of = user[m.at].of
                                     /\ user'[m.at].guid = user[m.at].guid
  BY <1>2, <1>3
<1>6. TypeOK'
  BY <1>1, <1>2, <1>4, <1>5, TypeKept
<1> QED
  BY <1>6 DEF SessionOK

\* The instances two connections' calls are about are not the same.
LEMMA CallsApart ==
    ASSUME TypeOK, NEW c \in Connection, NEW d \in Connection \ {c},
           NEW k \in call[d], NEW i, user[i].of = c
    PROVE  k.at \in Instance \ {i}
BY OneCall DEF Call

LEMMA CreateStep ==
    ASSUME SessionOK, NEW c \in Connection, Create(c)
    PROVE  SessionOK'
<1>1. TypeOK /\ UNCHANGED <<refs, session, calls>> /\ UNCHANGED <<current, stack>>
  BY DEF SessionOK, Create, session
<1>2. PICK m \in call[c], g \in Guid :
        /\ table' = [table EXCEPT ![g] = user[m.at].name]
        /\ user' = [user EXCEPT ![m.at].guid = g]
        /\ call' = Late(g, [call EXCEPT ![c] = {}])
        /\ answer' = [answer EXCEPT ![c] = "stored"]
  BY DEF Create
<1> DEFINE i == m.at
<1>3. i \in Instance /\ user[i].of = c
  BY <1>1, OneCall DEF Call
<1>4. user[i] \in User /\ user \in [Instance -> User] /\ user[i].name \in Name
  BY <1>1, <1>3, TypeFacts DEF User
<1>5. user' = [user EXCEPT ![i] = [@ EXCEPT !.guid = g, !.name = user[i].name]]
  <2>1. [user[i] EXCEPT !.guid = g] = [user[i] EXCEPT !.guid = g, !.name = user[i].name]
    BY <1>4 DEF User
  <2> QED
    BY <1>2, <2>1
<1> HIDE DEF i
<1>6. /\ user' \in [Instance -> User] /\ \A j \in Instance \ {i} : user'[j] = user[j]
      /\ Belong' /\ Unmade' /\ StackHolds'
  BY <1>1, <1>3, <1>4, <1>5, NameOrGuidSet
<1>7. \A d \in Connection \ {c} : \A k \in call[d] : k.at \in Instance \ {i}
  BY <1>1, <1>3, CallsApart
<1>8. /\ table' \in [Guid -> Name \cup {Unused, Gone}]
      /\ answer' \in [Connection -> {"none", "stored", "failed"}]
      /\ calls' \in 0 .. MaxCalls
  BY <1>1, <1>2, <1>4, TypeFacts DEF i
<1> QED
  BY <1>1, <1>2, <1>6, <1>7, <1>8, StatementStep

LEMMA UpdateStep ==
    ASSUME SessionOK, NEW c \in Connection, Update(c)
    PROVE  SessionOK'
<1>1. TypeOK /\ UNCHANGED <<user, refs, session, calls>> /\ UNCHANGED <<current, stack>>
  BY DEF SessionOK, Update, session
<1>2. PICK m \in call[c] :
        /\ m.op = "update"
        /\ \/ /\ table' = [table EXCEPT ![user[m.at].guid] = user[m.at].name]
              /\ call' = Late(user[m.at].guid, [call EXCEPT ![c] = {}])
              /\ answer' = [answer EXCEPT ![c] = "stored"]
           \/ /\ call' = [call EXCEPT ![c] = {}]
              /\ answer' = [answer EXCEPT ![c] = "failed"]
              /\ UNCHANGED table
  BY DEF Update
<1>3. m.at \in Instance /\ user[m.at].guid # NoGuid
  BY <1>1, <1>2, OneCall DEF Call
<1>4. user[m.at].name \in Name /\ user[m.at].guid \in Guid
  BY <1>1, <1>3, TypeFacts DEF User
<1>5. Belong' /\ Unmade' /\ StackHolds'
  BY <1>1, QuietSession
<1>6. /\ table' \in [Guid -> Name \cup {Unused, Gone}]
      /\ answer' \in [Connection -> {"none", "stored", "failed"}]
      /\ calls' \in 0 .. MaxCalls /\ user' \in [Instance -> User]
  BY <1>1, <1>2, <1>4, TypeFacts
<1>7. \/ call' = [call EXCEPT ![c] = {}]
      \/ \E g \in Guid : call' = Late(g, [call EXCEPT ![c] = {}])
  BY <1>2, <1>4
<1> QED
  BY <1>1, <1>5, <1>6, <1>7, StatementStep

LEMMA FailsStep ==
    ASSUME SessionOK, NEW c \in Connection, CreateFails(c) \/ UpdateFails(c)
    PROVE  SessionOK'
<1>1. /\ TypeOK /\ UNCHANGED <<table, user, refs, session, calls>>
      /\ call' = [call EXCEPT ![c] = {}]
      /\ answer' = [answer EXCEPT ![c] = "stored"] \/ answer' = [answer EXCEPT ![c] = "failed"]
  BY DEF SessionOK, CreateFails, UpdateFails
<1>2. Belong' /\ Unmade' /\ StackHolds'
  BY <1>1, QuietSession DEF session
<1>3. /\ table' \in [Guid -> Name \cup {Unused, Gone}]
      /\ answer' \in [Connection -> {"none", "stored", "failed"}]
      /\ calls' \in 0 .. MaxCalls /\ user' \in [Instance -> User]
  BY <1>1, TypeFacts
<1> QED
  BY <1>1, <1>2, <1>3, StatementStep

LEMMA DeleteStep ==
    ASSUME SessionOK, NEW c \in Connection, Delete(c)
    PROVE  SessionOK'
<1>1. TypeOK /\ Calling(c) /\ UNCHANGED <<refs, session>> /\ UNCHANGED <<current, stack>>
  BY DEF SessionOK, Delete, session
<1>2. PICK i \in Instance :
        /\ user[i].of = c /\ user[i].guid # NoGuid
        /\ table' = [table EXCEPT ![user[i].guid] = Gone]
        /\ user' = [user EXCEPT ![i].guid = NoGuid]
        /\ call' = Late(user[i].guid, call)
  BY DEF Delete, Has
<1>3. user[i] \in User /\ user \in [Instance -> User]
      /\ user[i].name \in Name /\ user[i].guid \in Guid
  BY <1>1, <1>2, TypeFacts DEF User
<1>4. user' = [user EXCEPT ![i] = [@ EXCEPT !.guid = NoGuid, !.name = user[i].name]]
  <2>1. [user[i] EXCEPT !.guid = NoGuid] = [user[i] EXCEPT !.guid = NoGuid, !.name = user[i].name]
    BY <1>3 DEF User
  <2> QED
    BY <1>2, <2>1
<1>5. /\ user' \in [Instance -> User] /\ \A j \in Instance \ {i} : user'[j] = user[j]
      /\ Belong' /\ Unmade' /\ StackHolds'
  BY <1>1, <1>3, <1>4, NameOrGuidSet
<1>6. \A d \in Connection \ {c} : \A k \in call[d] : k.at \in Instance \ {i}
  BY <1>1, <1>2, CallsApart
<1>7. /\ table' \in [Guid -> Name \cup {Unused, Gone}]
      /\ answer' \in [Connection -> {"none", "stored", "failed"}]
      /\ calls' \in 0 .. MaxCalls /\ call[c] = {}
  BY <1>1, <1>2, <1>3, TypeFacts, CallingType
<1>8. call = [call EXCEPT ![c] = {}]
  BY <1>1, <1>7, TypeFacts
<1> QED
  BY <1>1, <1>2, <1>3, <1>5, <1>6, <1>7, <1>8, StatementStep

LEMMA SessionInit == Init => SessionOK
<1> SUFFICES ASSUME Init PROVE SessionOK
  OBVIOUS
<1>1. TypeOK
  BY InitType
<1>2. /\ \A i \in Instance : user[i].of = Nobody /\ ~user[i].logged /\ refs[i] = 0
      /\ \A c \in Connection : current[c] = NoUser /\ stack[c] = <<>>
  BY DEF Init
<1>3. Belong /\ Unmade
  BY <1>2 DEF Belong, Unmade
<1>4. StackSound
  BY <1>2 DEF StackSound
<1>5. ReferencesCover
  BY <1>2 DEF ReferencesCover, Needed, Used
<1> QED
  BY <1>1, <1>3, <1>4, <1>5 DEF SessionOK, StackHolds

LEMMA SessionStep == SessionOK /\ [Next]_vars => SessionOK'
<1> SUFFICES ASSUME SessionOK, [Next]_vars PROVE SessionOK'
  OBVIOUS
<1>1. CASE UNCHANGED vars
  <2>1. /\ UNCHANGED <<table, user, refs, current, stack, phase, call, answer, calls>>
        /\ UNCHANGED <<current, stack, refs>>
    BY <1>1 DEF vars, session
  <2>2. TypeOK'
    BY <2>1 DEF SessionOK, TypeOK
  <2>3. Belong' /\ Unmade' /\ StackHolds'
    BY <2>1, QuietSession
  <2> QED
    BY <2>2, <2>3 DEF SessionOK
<1>2. ASSUME NEW c \in Connection, New(c) PROVE SessionOK'
  <2>1. PICK i \in Instance, n \in Name :
          Calling(c) /\ Made(c, i, NoGuid, n) /\ UNCHANGED <<table, session, call>>
    BY <1>2 DEF New
  <2> QED
    BY <2>1, MadeStep
<1>3. ASSUME NEW c \in Connection, Get(c) PROVE SessionOK'
  <2>1. PICK i \in Instance, n \in Name, g \in Guid :
          Calling(c) /\ Made(c, i, g, n) /\ UNCHANGED <<table, session, call>>
    BY <1>3 DEF Get, Rows
  <2> QED
    BY <2>1, MadeStep
<1>4. ASSUME NEW c \in Connection, LogOut(c) \/ DisposeUser(c) PROVE SessionOK'
  <2>1. /\ Leave(c) /\ UNCHANGED <<table, phase, call>>
        /\ calls' \in 0 .. MaxCalls
        /\ answer' \in [Connection -> {"none", "stored", "failed"}]
    BY <1>4, CallingType, TypeFacts DEF LogOut, DisposeUser, SessionOK
  <2> QED
    BY <2>1, LeaveStep
<1>5. ASSUME NEW c \in Connection,
             \/ Drop(c) \/ StartCreate(c) \/ Create(c) \/ CreateFails(c)
             \/ StartUpdate(c) \/ Update(c) \/ UpdateFails(c) \/ Delete(c)
             \/ LogIn(c) \/ Dispose(c) \/ Finalize(c)
      PROVE  SessionOK'
  BY <1>5, DropStep, StartCreateStep, CreateStep, FailsStep, StartUpdateStep, UpdateStep,
     DeleteStep, LogInStep, ClosingStep
<1> QED
  BY <1>1, <1>2, <1>3, <1>4, <1>5 DEF Next

\* Accounts, instances, references, authstacks and calls keep their types, for
\* any connections, accounts and bounds (midgard_user.c, midgard_connection.c).
THEOREM TypeInvariant == Spec => []TypeOK
<1>1. Init /\ [][Next]_vars => []SessionOK
  BY SessionInit, SessionStep, PTL
<1>2. SessionOK => TypeOK
  BY DEF SessionOK
<1> QED
  BY <1>1, <1>2, PTL DEF Spec

\* log_in, log_out and dispose keep the current user, the authstack, the flag
\* is_logged and the references together in every order (midgard_user.c,
\* 763-849): who is logged in is in the authstack and not freed, and log_out
\* finds who it takes out.
THEOREM StacksHold == Spec => []StackHolds
<1>1. Init /\ [][Next]_vars => []SessionOK
  BY SessionInit, SessionStep, PTL
<1>2. SessionOK => StackHolds
  BY DEF SessionOK
<1> QED
  BY <1>1, <1>2, PTL DEF Spec

-----------------------------------------------------------------------------
(* Accounts of one name *)

\* What a call that was answered knows: another row of the name it writes was
\* written since, or the row it writes was, or has the name already.
HeardOf(m) == LET u == user[m.at] IN
    m.heard => \A h \in Rows(u.name) \ {u.guid} :
        \/ h \in m.late
        \/ m.op = "update" /\ (u.guid \in m.late \/ table[u.guid] = u.name)

NamesOK == SessionOK /\ \A c \in Connection : \A m \in call[c] : HeardOf(m)

\* A call goes on while a row is written, or none: it is told of the row.
LEMMA HeardKept ==
    ASSUME TypeOK, NEW c \in Connection, NEW m \in call[c], HeardOf(m), NEW k,
           k.heard = m.heard, k.op = m.op, k.at = m.at,
           user'[m.at].name = user[m.at].name, user'[m.at].guid = user[m.at].guid,
           \/ table' = table /\ k.late = m.late
           \/ \E g \in Guid : /\ \A h \in Guid \ {g} : table'[h] = table[h]
                              /\ k.late = m.late \cup {g}
    PROVE  HeardOf(k)'
<1> DEFINE u == user[m.at] new == user'[m.at]
<1>1. SUFFICES ASSUME m.heard, NEW h \in Guid, table'[h] = u.name, h # u.guid
               PROVE  \/ h \in k.late
                      \/ m.op = "update" /\ (u.guid \in k.late \/ table'[u.guid] = u.name)
  BY DEF HeardOf, Rows
<1>2. m.op = "update" => u.guid \in Guid
  <2>1. m.at \in Instance /\ (u.guid = NoGuid) = (m.op = "create")
    BY OneCall DEF Call
  <2>2. user[m.at] \in User
    BY <2>1, TypeFacts
  <2> QED
    BY <2>1, <2>2 DEF User
<1>3. table[h] = u.name =>
          h \in m.late \/ (m.op = "update" /\ (u.guid \in m.late \/ table[u.guid] = u.name))
  BY <1>1 DEF HeardOf, Rows
<1> HIDE DEF u, new
<1>4. CASE table' = table /\ k.late = m.late
  BY <1>1, <1>3, <1>4
<1>5. CASE \E g \in Guid : /\ \A j \in Guid \ {g} : table'[j] = table[j]
                           /\ k.late = m.late \cup {g}
  <2>1. PICK g \in Guid : /\ \A j \in Guid \ {g} : table'[j] = table[j]
                          /\ k.late = m.late \cup {g}
    BY <1>5
  <2>2. CASE h = g
    BY <2>1, <2>2
  <2>3. CASE h # g
    <3>1. h \in m.late \/ (m.op = "update" /\ (u.guid \in m.late \/ table[u.guid] = u.name))
      BY <2>1, <2>3, <1>1, <1>3
    <3> QED
      BY <3>1, <2>1, <1>2
  <2> QED
    BY <2>2, <2>3
<1> QED
  BY <1>4, <1>5

\* A step that writes no row: the calls that go on know what they knew.
LEMMA QuietNames ==
    ASSUME NamesOK, table' = table, NEW d \in Connection,
           call'[d] = call[d] \/ call'[d] = {},
           \A m \in call[d] : user'[m.at].name = user[m.at].name
                              /\ user'[m.at].guid = user[m.at].guid
    PROVE  \A k \in call'[d] : HeardOf(k)'
<1> SUFFICES ASSUME NEW k \in call'[d] PROVE HeardOf(k)'
  OBVIOUS
<1>1. TypeOK /\ k \in call[d] /\ HeardOf(k)
  BY DEF NamesOK, SessionOK
<1> QED
  BY <1>1, HeardKept

\* A row is written by connection c: the others are told.
LEMMA WrittenNames ==
    ASSUME NamesOK, NEW c \in Connection, NEW g \in Guid,
           call' = Late(g, [call EXCEPT ![c] = {}]),
           \A h \in Guid \ {g} : table'[h] = table[h],
           \A d \in Connection \ {c} : \A m \in call[d] :
               user'[m.at].name = user[m.at].name /\ user'[m.at].guid = user[m.at].guid
    PROVE  \A d \in Connection : \A k \in call'[d] : HeardOf(k)'
<1>1. TypeOK /\ call'[c] = {} /\ \A d \in Connection \ {c} :
                  call'[d] = {[m EXCEPT !.late = @ \cup {g}] : m \in call[d]}
  BY LateCalls DEF NamesOK, SessionOK
<1> SUFFICES ASSUME NEW d \in Connection \ {c}, NEW k \in call'[d] PROVE HeardOf(k)'
  BY <1>1
<1>6. k \in {[m EXCEPT !.late = @ \cup {g}] : m \in call[d]}
  BY <1>1
<1>2. PICK m \in call[d] : k = [m EXCEPT !.late = @ \cup {g}]
  BY <1>6
<1>3. m \in Call /\ HeardOf(m)
  BY <1>1, OneCall DEF NamesOK
<1>4. k.heard = m.heard /\ k.op = m.op /\ k.at = m.at /\ k.late = m.late \cup {g}
  BY <1>2, <1>3 DEF Call
<1>5. user'[m.at].name = user[m.at].name /\ user'[m.at].guid = user[m.at].guid
  OBVIOUS
<1> QED
  BY <1>1, <1>3, <1>4, <1>5, HeardKept

\* The instances of calls in progress are not made and have their flags set.
LEMMA CallsInMemory ==
    ASSUME TypeOK
    PROVE  \A d \in Connection : \A m \in call[d] :
               m.at \in Instance /\ user[m.at].of = d /\ d # Nobody
BY OneCall, UserConstants DEF Call

LEMMA MadeNames ==
    ASSUME NamesOK, NEW c \in Connection, New(c) \/ Get(c)
    PROVE  \A d \in Connection : \A k \in call'[d] : HeardOf(k)'
<1>1. PICK i \in Instance : /\ user[i].of = Nobody
                            /\ \E new : user' = [user EXCEPT ![i] = new]
                            /\ UNCHANGED <<table, call>>
  BY DEF New, Get, Made, Used
<1>2. TypeOK
  BY DEF NamesOK, SessionOK
<1>3. \A d \in Connection : \A m \in call[d] : user'[m.at] = user[m.at]
  BY <1>1, <1>2, CallsInMemory, TypeFacts
<1> QED
  BY <1>1, <1>3, QuietNames

LEMMA SessionNames ==
    ASSUME NamesOK, NEW c \in Connection,
           Drop(c) \/ LogIn(c) \/ LogOut(c) \/ DisposeUser(c) \/ Dispose(c) \/ Finalize(c)
    PROVE  \A d \in Connection : \A k \in call'[d] : HeardOf(k)'
<1>1. TypeOK /\ UNCHANGED <<table, call>>
  BY DEF NamesOK, SessionOK, Drop, LogIn, LogOut, DisposeUser, Dispose, Finalize
<1>2. user \in [Instance -> User]
  BY <1>1, TypeFacts
<1>3. \/ UNCHANGED user
      \/ \E i \in Instance : user' = [user EXCEPT ![i].held = FALSE]
      \/ \E i \in Instance, b \in BOOLEAN : user' = [user EXCEPT ![i].logged = b]
  <2>1. CASE Drop(c) \/ Dispose(c) \/ Finalize(c)
    BY <2>1 DEF Drop, Dispose, Finalize
  <2>2. CASE LogIn(c)
    BY <2>2 DEF LogIn
  <2>3. CASE LogOut(c) \/ DisposeUser(c)
    <3>1. Leave(c)
      BY <2>3 DEF LogOut, DisposeUser
    <3>2. current[c] \in Instance
      BY <3>1, <1>1, TypeFacts DEF Leave
    <3>3. user' = [user EXCEPT ![current[c]].logged = FALSE]
      BY <3>1 DEF Leave
    <3> QED
      BY <3>2, <3>3
  <2> QED
    BY <2>1, <2>2, <2>3
<1>4. \A j \in Instance : user'[j].name = user[j].name /\ user'[j].guid = user[j].guid
  <2>1. CASE \E i \in Instance : user' = [user EXCEPT ![i].held = FALSE]
    BY <2>1, <1>2 DEF User
  <2>2. CASE \E i \in Instance, b \in BOOLEAN : user' = [user EXCEPT ![i].logged = b]
    BY <2>2, <1>1, FlagSet
  <2> QED
    BY <1>3, <2>1, <2>2
<1> QED
  BY <1>1, <1>4, CallsInMemory, QuietNames

LEMMA StartCreateNames ==
    ASSUME NamesOK, NEW c \in Connection, StartCreate(c)
    PROVE  \A d \in Connection : \A k \in call'[d] : HeardOf(k)'
<1>1. TypeOK /\ UNCHANGED <<table, user>>
  BY DEF NamesOK, SessionOK, StartCreate
<1>2. CASE UNCHANGED call
  BY <1>1, <1>2, QuietNames
<1>3. CASE call' # call
  <2>1. PICK i \in Instance, heard \in BOOLEAN :
          /\ ~(heard /\ Rows(user[i].name) # {})
          /\ call' = [call EXCEPT ![c] =
                 {[op |-> "create", at |-> i, heard |-> heard, late |-> {}]}]
    BY <1>3 DEF StartCreate
  <2> DEFINE m == [op |-> "create", at |-> i, heard |-> heard, late |-> {}]
  <2>2. call'[c] = {m} /\ \A d \in Connection \ {c} : call'[d] = call[d]
    BY <1>1, <2>1, TypeFacts
  <2>3. HeardOf(m)'
    BY <1>1, <2>1 DEF HeardOf, Rows
  <2>4. \A d \in Connection \ {c} : \A k \in call'[d] : HeardOf(k)'
    BY <1>1, <2>2, QuietNames
  <2> HIDE DEF m
  <2> QED
    BY <2>2, <2>3, <2>4
<1> QED
  BY <1>2, <1>3

LEMMA StartUpdateNames ==
    ASSUME NamesOK, NEW c \in Connection, StartUpdate(c)
    PROVE  \A d \in Connection : \A k \in call'[d] : HeardOf(k)'
<1>1. TypeOK /\ UNCHANGED table /\ call[c] = {}
  BY DEF NamesOK, SessionOK, StartUpdate, Calling
<1>2. PICK i \in Instance, n \in Name, heard \in BOOLEAN :
        /\ user[i].of = c /\ user' = [user EXCEPT ![i].name = n]
        /\ \/ UNCHANGED call
           \/ /\ heard /\ Rows(n) # {} => \E g \in Rows(n) : g = user[i].guid
              /\ call' = [call EXCEPT ![c] =
                     {[op |-> "update", at |-> i, heard |-> heard, late |-> {}]}]
  BY DEF StartUpdate, Has, Refuses
<1>3. user \in [Instance -> User]
  BY <1>1, TypeFacts
<1>4. /\ user'[i].name = n /\ user'[i].guid = user[i].guid
      /\ \A j \in Instance \ {i} : user'[j] = user[j]
  BY <1>2, <1>3 DEF User
<1>5. \A d \in Connection \ {c} : \A k \in call[d] : k.at \in Instance \ {i}
  BY <1>1, <1>2, CallsApart
<1>6. CASE UNCHANGED call
  BY <1>1, <1>4, <1>5, <1>6, QuietNames
<1>7. CASE /\ heard /\ Rows(n) # {} => \E g \in Rows(n) : g = user[i].guid
           /\ call' = [call EXCEPT ![c] =
                  {[op |-> "update", at |-> i, heard |-> heard, late |-> {}]}]
  <2> DEFINE m == [op |-> "update", at |-> i, heard |-> heard, late |-> {}]
  <2>1. call'[c] = {m} /\ \A d \in Connection \ {c} : call'[d] = call[d]
    BY <1>1, <1>7, TypeFacts
  <2>2. m.heard = heard /\ m.op = "update" /\ m.at = i
    OBVIOUS
  <2>3. heard /\ Rows(n) # {} => table[user[i].guid] = n
    BY <1>7 DEF Rows
  <2>4. HeardOf(m)'
    BY <1>1, <1>4, <2>2, <2>3 DEF HeardOf, Rows
  <2>5. \A d \in Connection \ {c} : \A k \in call'[d] : HeardOf(k)'
    BY <1>1, <1>4, <1>5, <2>1, QuietNames
  <2> HIDE DEF m
  <2> QED
    BY <2>1, <2>4, <2>5
<1> QED
  BY <1>2, <1>6, <1>7

LEMMA WriteNames ==
    ASSUME NamesOK, NEW c \in Connection, Create(c) \/ Update(c) \/ Delete(c)
    PROVE  \A d \in Connection : \A k \in call'[d] : HeardOf(k)'
<1>1. TypeOK
  BY DEF NamesOK, SessionOK
<1>2. user \in [Instance -> User] /\ table \in [Guid -> Name \cup {Unused, Gone}]
  BY <1>1, TypeFacts
<1>3. CASE Create(c)
  <2>1. PICK m \in call[c], g \in Guid :
          /\ table' = [table EXCEPT ![g] = user[m.at].name]
          /\ user' = [user EXCEPT ![m.at].guid = g]
          /\ call' = Late(g, [call EXCEPT ![c] = {}])
    BY <1>3 DEF Create
  <2>2. m.at \in Instance /\ user[m.at].of = c
    BY <1>1, CallsInMemory
  <2>3. \A d \in Connection \ {c} : \A k \in call[d] : k.at \in Instance \ {m.at}
    BY <1>1, <2>2, CallsApart
  <2>4. \A j \in Instance \ {m.at} : user'[j] = user[j]
    BY <1>2, <2>1, <2>2
  <2>5. \A h \in Guid \ {g} : table'[h] = table[h]
    BY <1>2, <2>1
  <2> QED
    BY <2>1, <2>3, <2>4, <2>5, WrittenNames
<1>4. CASE Update(c)
  <2>1. PICK m \in call[c] :
          /\ m.op = "update" /\ UNCHANGED user
          /\ \/ /\ table' = [table EXCEPT ![user[m.at].guid] = user[m.at].name]
                /\ call' = Late(user[m.at].guid, [call EXCEPT ![c] = {}])
             \/ call' = [call EXCEPT ![c] = {}] /\ UNCHANGED table
    BY <1>4 DEF Update
  <2>2. CASE call' = [call EXCEPT ![c] = {}] /\ UNCHANGED table
    <3>1. \A d \in Connection : call'[d] = call[d] \/ call'[d] = {}
      BY <1>1, <2>2, TypeFacts
    <3> QED
      BY <2>1, <2>2, <3>1, QuietNames
  <2>3. CASE /\ table' = [table EXCEPT ![user[m.at].guid] = user[m.at].name]
             /\ call' = Late(user[m.at].guid, [call EXCEPT ![c] = {}])
    <3> DEFINE g == user[m.at].guid
    <3>1. g \in Guid
      BY <1>1, <1>2, <2>1, OneCall DEF Call, User
    <3>2. \A h \in Guid \ {g} : table'[h] = table[h]
      BY <1>2, <2>3
    <3> HIDE DEF g
    <3>3. call' = Late(g, [call EXCEPT ![c] = {}])
      BY <2>3 DEF g
    <3> QED
      BY <2>1, <3>1, <3>2, <3>3, WrittenNames
  <2> QED
    BY <2>1, <2>2, <2>3
<1>5. CASE Delete(c)
  <2>1. PICK i \in Instance :
          /\ user[i].of = c /\ user[i].guid # NoGuid /\ call[c] = {}
          /\ table' = [table EXCEPT ![user[i].guid] = Gone]
          /\ user' = [user EXCEPT ![i].guid = NoGuid]
          /\ call' = Late(user[i].guid, call)
    BY <1>5 DEF Delete, Has, Calling
  <2> DEFINE g == user[i].guid
  <2>2. g \in Guid
    BY <1>2, <2>1 DEF User
  <2>3. \A d \in Connection \ {c} : \A k \in call[d] : k.at \in Instance \ {i}
    BY <1>1, <2>1, CallsApart
  <2>4. \A j \in Instance \ {i} : user'[j] = user[j]
    BY <1>2, <2>1
  <2>5. \A h \in Guid \ {g} : table'[h] = table[h]
    BY <1>2, <2>1
  <2>6. call = [call EXCEPT ![c] = {}]
    BY <1>1, <2>1, TypeFacts
  <2>7. call' = Late(g, [call EXCEPT ![c] = {}])
    BY <2>1, <2>6
  <2> HIDE DEF g
  <2> QED
    BY <2>2, <2>3, <2>4, <2>5, <2>7, WrittenNames
<1> QED
  BY <1>3, <1>4, <1>5

LEMMA NamesStep == NamesOK /\ [Next]_vars => NamesOK'
<1> SUFFICES ASSUME NamesOK, [Next]_vars PROVE NamesOK'
  OBVIOUS
<1>1. SessionOK'
  BY SessionStep DEF NamesOK
<1>2. CASE UNCHANGED vars
  <2>1. UNCHANGED <<table, user, call>>
    BY <1>2 DEF vars
  <2> QED
    BY <1>1, <2>1, QuietNames DEF NamesOK
<1>3. ASSUME NEW c \in Connection, CreateFails(c) \/ UpdateFails(c)
      PROVE  \A d \in Connection : \A k \in call'[d] : HeardOf(k)'
  <2>1. UNCHANGED <<table, user>> /\ call' = [call EXCEPT ![c] = {}]
    BY <1>3 DEF CreateFails, UpdateFails
  <2>2. \A d \in Connection : call'[d] = call[d] \/ call'[d] = {}
    BY <2>1, TypeFacts DEF NamesOK, SessionOK
  <2> QED
    BY <2>1, <2>2, QuietNames
<1>4. ASSUME NEW c \in Connection,
             \/ New(c) \/ Get(c) \/ Drop(c)
             \/ StartCreate(c) \/ Create(c)
             \/ StartUpdate(c) \/ Update(c)
             \/ Delete(c)
             \/ LogIn(c) \/ LogOut(c)
             \/ Dispose(c) \/ DisposeUser(c) \/ Finalize(c)
      PROVE  \A d \in Connection : \A k \in call'[d] : HeardOf(k)'
  BY <1>4, MadeNames, SessionNames, StartCreateNames, StartUpdateNames, WriteNames
<1>5. CASE Next
  <2>1. \A d \in Connection : \A k \in call'[d] : HeardOf(k)'
    BY <1>3, <1>4, <1>5 DEF Next
  <2> QED
    BY <1>1, <2>1 DEF NamesOK
<1> QED
  BY <1>2, <1>5

\* A row comes to have another's name by a statement of a call whose check was
\* not answered, or after whose check one of the two was written.
LEMMA TwinsStep ==
    ASSUME NamesOK, [Next]_vars, NEW g \in Guid, NEW h \in Guid, Same(g, h)', ~Same(g, h)
    PROVE  \E c \in Connection : \E m \in call[c] :
               call'[c] = {} /\ (~m.heard \/ {g, h} \cap m.late # {})
<1>1. TypeOK
  BY DEF NamesOK, SessionOK
<1>2. user \in [Instance -> User] /\ table \in [Guid -> Name \cup {Unused, Gone}]
  BY <1>1, TypeFacts
<1>3. g # h /\ table'[g] = table'[h] /\ table'[g] \in Name
  BY DEF Same
<1>4. PICK c \in Connection : Create(c) \/ Update(c) \/ Delete(c)
  <2>1. table' # table
    BY <1>3 DEF Same
  <2> QED
    BY <2>1 DEF Next, vars, New, Get, Drop, StartCreate, CreateFails, StartUpdate,
       UpdateFails, LogIn, LogOut, Dispose, DisposeUser, Finalize
<1>5. CASE Delete(c)
  <2>1. PICK i \in Instance : /\ user[i].guid # NoGuid
                              /\ table' = [table EXCEPT ![user[i].guid] = Gone]
    BY <1>5 DEF Delete
  <2>2. table'[g] = table[g] /\ table'[h] = table[h]
    BY <1>2, <1>3, <2>1, UserConstants
  <2> QED
    BY <1>3, <2>2 DEF Same
<1>6. CASE Create(c) \/ Update(c)
  <2>1. PICK m \in call[c], r \in Guid :
          /\ table' = [table EXCEPT ![r] = user[m.at].name] /\ call'[c] = {}
          /\ m.op = "create" \/ r = user[m.at].guid
    <3>1. CASE Create(c)
      <4>1. PICK m \in call[c], r \in Guid :
              /\ m.op = "create" /\ table' = [table EXCEPT ![r] = user[m.at].name]
              /\ call' = Late(r, [call EXCEPT ![c] = {}])
        BY <3>1 DEF Create
      <4> QED
        BY <1>1, <4>1, LateCalls
    <3>2. CASE Update(c)
      <4>1. PICK m \in call[c] :
              /\ m.op = "update"
              /\ table' = [table EXCEPT ![user[m.at].guid] = user[m.at].name]
              /\ call' = Late(user[m.at].guid, [call EXCEPT ![c] = {}])
        BY <3>2, <1>3 DEF Update, Same
      <4>2. user[m.at].guid \in Guid
        BY <1>1, <1>2, <4>1, OneCall DEF Call, User
      <4> QED
        BY <1>1, <4>1, <4>2, LateCalls
    <3> QED
      BY <1>6, <3>1, <3>2
  <2> DEFINE u == user[m.at]
  <2>2. HeardOf(m) /\ (u.guid = NoGuid) = (m.op = "create")
    BY <1>1, OneCall DEF NamesOK
  <2>3. ASSUME NEW x \in Guid, NEW y \in Guid, {x, y} = {g, h}, x = r
        PROVE  ~m.heard \/ {g, h} \cap m.late # {}
    <3>1. x # y /\ table'[x] = u.name /\ table'[y] = table[y] /\ table[y] = u.name
      BY <1>2, <1>3, <2>1, <2>3
    <3>2. y # u.guid
      BY <2>1, <2>2, <2>3, <3>1, UserConstants
    <3>3. u.name \in Name /\ (table[x] = u.name => Same(g, h))
      BY <1>3, <2>3, <3>1 DEF Same
    <3>4. m.op = "update" => u.guid = x
      BY <2>1, <2>3
    <3>5. m.heard => y \in m.late \/ (m.op = "update" /\ (x \in m.late \/ table[x] = u.name))
      BY <2>2, <3>1, <3>2, <3>4 DEF HeardOf, Rows
    <3> QED
      BY <2>3, <3>3, <3>5
  <2>4. r = g \/ r = h
    BY <1>2, <1>3, <2>1 DEF Same
  <2>5. ~m.heard \/ {g, h} \cap m.late # {}
    BY <2>3, <2>4
  <2> QED
    BY <2>1, <2>5
<1> QED
  BY <1>4, <1>5, <1>6

\* Two rows come to have one name only in a race of two checks and two
\* statements, or when a check could not be read (midgard_user.c, 387 and
\* 466-532): never by calls that are made one after the other.
THEOREM TwinsComeInRaces == Spec => TwinsRaced
<1>1. Init => NamesOK
  BY SessionInit DEF NamesOK, Init
<1>2. Init /\ [][Next]_vars => []NamesOK
  BY <1>1, NamesStep, PTL
<1>3. NamesOK /\ [Next]_vars =>
          [\A g, h \in Guid : (Same(g, h)' /\ ~Same(g, h)) =>
              \E c \in Connection : \E m \in call[c] :
                  call'[c] = {} /\ (~m.heard \/ {g, h} \cap m.late # {})]_vars
  BY TwinsStep
<1> QED
  BY <1>2, <1>3, PTL DEF Spec, TwinsRaced

-----------------------------------------------------------------------------
(* Connection objects *)

\* What connection object m, which is o, points to is there, and its own but for
\* a copy's.
PointsOf(m, o) ==
    /\ o.connection =< Len(handle)
    /\ o.connected => o.connection # NoHandle
    /\ o.inherited => o.connection # NoHandle
    /\ o.error_clbk_connected => o.connection # NoHandle
    /\ ~o.inherited /\ o.connection # NoHandle => handle[o.connection].owner = m
    /\ o.connected /\ handle[o.connection].state = "closed" =>
           handle[o.connection].closedBy # {m}

Points == \A m \in Cnc : \A o \in cnc[m] : PointsOf(m, o)

Buried == \A m \in dead : cnc[m] = {}

\* A log handler is there only while its connection knows that it is.
Logged == \A m \in logs : \E o \in cnc[m] : o.loghandler

\* A libgda connection that is not freed is pointed to by k who opened it, or it
\* was opened over or by a copy.
OwnedBy(h, k) ==
    /\ k \in dead \/ cnc[k] # {}
    /\ handle[h].state = "freed" => k \in dead
    /\ handle[h].state = "closed" => handle[h].closedBy # {}
    /\ handle[h].state # "freed" =>
           \/ Strayed(k, h) \/ handle[h].kept
           \/ \E o \in cnc[k] : o.connection = h /\ ~o.inherited

Owned == \A h \in DOMAIN handle : OwnedBy(h, handle[h].owner)

\* A callback of k that can be called is one that k will take off.
HeardOn(h, k) ==
    /\ k \in dead \/ cnc[k] # {}
    /\ handle[h].state # "freed" =>
           \/ Strayed(k, h)
           \/ \E o \in cnc[k] : o.connection = h /\ o.error_clbk_connected

Heard == \A h \in DOMAIN handle : \A k \in handle[h].heardBy : HeardOn(h, k)

\* The last answer is so.
Told == \A a \in said : a.ok =>
    \E o \in cnc[a.cnc] :
        \/ o.connection # NoHandle /\ handle[o.connection].state = "open"
        \/ /\ a.known
           /\ \/ o.connection = NoHandle
              \/ handle[o.connection].closedBy \notin {{}, {a.cnc}}

\* The invariant of connection objects; what was said is apart, every step says
\* something else.
ObjectsOK == ConnectionsTypeOK /\ Points /\ Buried /\ Logged /\ Owned /\ Heard

LEMMA ObjectsOKTells ==
    ASSUME ObjectsOK
    PROVE  PointersHold /\ (Told => OpenTells)
<1>1. /\ handle \in Seq(Handle) /\ cnc \in [Cnc -> SUBSET Object]
      /\ logs \subseteq Cnc
  BY DEF ObjectsOK, ConnectionsTypeOK
<1>2. CallbacksLive
  <2>1. \A m \in logs : Live(m)
    BY DEF ObjectsOK, Logged, Live
  <2>2. \A h \in DOMAIN handle : handle[h].state # "freed" =>
            \A m \in handle[h].heardBy : Live(m) \/ Strayed(m, h)
    BY DEF ObjectsOK, Heard, HeardOn, Live
  <2> QED
    BY <2>1, <2>2 DEF CallbacksLive
<1>3. ASSUME NEW m \in Cnc, NEW o \in cnc[m], o.connection # NoHandle
      PROVE  /\ o.connection \in DOMAIN handle
             /\ handle[o.connection].state = "freed" => o.inherited
             /\ handle[o.connection].state \in {"open", "closed", "freed"}
  <2>1. o \in Object
    BY <1>1
  <2>2. o.connection \in DOMAIN handle
    BY <1>1, <1>3, <2>1, ConnectionsAssumption DEF ObjectsOK, Points, PointsOf, Object, NoHandle
  <2>3. handle[o.connection].state = "freed" => handle[o.connection].owner \in dead
    BY <2>2 DEF ObjectsOK, Owned, OwnedBy
  <2>4. cnc[m] # {}
    BY <1>3
  <2>5. m \notin dead
    BY <2>4 DEF ObjectsOK, Buried
  <2>6. ~o.inherited => handle[o.connection].owner = m
    BY <1>3 DEF ObjectsOK, Points, PointsOf
  <2>7. handle[o.connection].state \in {"open", "closed", "freed"}
    <3>1. handle[o.connection] \in Handle
      BY <1>1, <2>2
    <3> QED
      BY <3>1 DEF Handle
  <2> QED
    BY <2>2, <2>3, <2>5, <2>6, <2>7
<1>4. HandlesOwned
  <2> SUFFICES ASSUME NEW h \in DOMAIN handle
      PROVE  /\ handle[h].state = "freed" => handle[h].owner \in dead
             /\ (handle[h].state # "freed" /\ handle[h].owner \in dead) =>
                    Strayed(handle[h].owner, h) \/ handle[h].kept
             /\ \A m \in Cnc : \A o \in cnc[m] :
                    o.connection = h /\ handle[h].state = "freed" => o.inherited
    BY DEF HandlesOwned
  <2>1. handle[h].state = "freed" => handle[h].owner \in dead
    BY DEF ObjectsOK, Owned, OwnedBy
  <2>2. (handle[h].state # "freed" /\ handle[h].owner \in dead) =>
            Strayed(handle[h].owner, h) \/ handle[h].kept
    <3>1. handle[h].owner \in dead => cnc[handle[h].owner] = {}
      BY DEF ObjectsOK, Buried
    <3>2. handle[h].state # "freed" =>
             \/ Strayed(handle[h].owner, h) \/ handle[h].kept
             \/ \E o \in cnc[handle[h].owner] : o.connection = h /\ ~o.inherited
      BY DEF ObjectsOK, Owned, OwnedBy
    <3> QED
      BY <3>1, <3>2
  <2>3. h # NoHandle
    BY <1>1 DEF NoHandle
  <2> QED
    BY <1>3, <2>1, <2>2, <2>3
<1>5. ConnectedIsOpen
  <2> SUFFICES ASSUME NEW m \in Cnc, NEW o \in cnc[m], o.connected
      PROVE  \/ handle[o.connection].state = "open"
             \/ handle[o.connection].state = "closed" /\ handle[o.connection].closedBy # {m}
             \/ Dangles(m) /\ o.inherited
    BY DEF ConnectedIsOpen
  <2>1. o.connection # NoHandle
    BY DEF ObjectsOK, Points, PointsOf
  <2>2. handle[o.connection].state = "closed" => handle[o.connection].closedBy # {m}
    BY DEF ObjectsOK, Points, PointsOf
  <2>3. handle[o.connection].state = "freed" => Dangles(m)
    BY <2>1 DEF Dangles
  <2> QED
    BY <1>3, <2>1, <2>2, <2>3
<1>6. Told => OpenTells
  BY <1>5 DEF Told, OpenTells
<1> QED
  BY <1>2, <1>4, <1>6 DEF PointersHold

\* The types, as the steps use them.
LEMMA ObjectTypes ==
    ASSUME ConnectionsTypeOK
    PROVE  /\ cnc \in [Cnc -> SUBSET Object] /\ handle \in Seq(Handle)
           /\ Len(handle) =< MaxHandles /\ logs \subseteq Cnc /\ dead \subseteq Cnc
           /\ \A m \in Cnc : \A o \in cnc[m] : o \in Object /\ cnc[m] = {o}
           /\ \A h \in DOMAIN handle : handle[h] \in Handle
           /\ tx \in [Transaction -> SUBSET Cnc]
           /\ \A t \in Transaction : \A m \in tx[t] : m \in Cnc /\ tx[t] = {m}
           /\ cncCalls \in 0 .. MaxCncCalls
<1>1. /\ cnc \in [Cnc -> SUBSET Object] /\ handle \in Seq(Handle)
      /\ Len(handle) =< MaxHandles /\ logs \subseteq Cnc /\ dead \subseteq Cnc
      /\ tx \in [Transaction -> SUBSET Cnc] /\ cncCalls \in 0 .. MaxCncCalls
  BY DEF ConnectionsTypeOK
<1>2. \A m \in Cnc : \A o \in cnc[m] : o \in Object /\ cnc[m] = {o}
  BY <1>1 DEF ConnectionsTypeOK, AtMostOne
<1>3. \A t \in Transaction : \A m \in tx[t] : m \in Cnc /\ tx[t] = {m}
  BY <1>1 DEF ConnectionsTypeOK, AtMostOne
<1> QED
  BY <1>1, <1>2, <1>3

\* A connection object becomes another, the others stay.
LEMMA Became ==
    ASSUME ConnectionsTypeOK, NEW m \in Cnc, NEW o \in Object, Become(m, o)
    PROVE  /\ cnc' \in [Cnc -> SUBSET Object] /\ \A k \in Cnc : AtMostOne(cnc'[k])
           /\ cnc'[m] = {o} /\ \A k \in Cnc \ {m} : cnc'[k] = cnc[k]
<1>1. cnc' = [cnc EXCEPT ![m] = {o}] /\ cnc \in [Cnc -> SUBSET Object]
  BY ObjectTypes DEF Become
<1>2. cnc'[m] = {o} /\ \A k \in Cnc \ {m} : cnc'[k] = cnc[k]
  BY <1>1
<1>3. \A k \in Cnc : AtMostOne(cnc[k])
  BY DEF ConnectionsTypeOK
<1> QED
  BY <1>1, <1>2, <1>3 DEF AtMostOne

\* One libgda connection is changed.
LEMMA OneHandle ==
    ASSUME ConnectionsTypeOK, NEW h \in DOMAIN handle, NEW r \in Handle,
           handle' = [handle EXCEPT ![h] = r]
    PROVE  /\ handle' \in Seq(Handle) /\ Len(handle') = Len(handle)
           /\ DOMAIN handle' = DOMAIN handle
           /\ handle'[h] = r /\ \A k \in DOMAIN handle \ {h} : handle'[k] = handle[k]
BY ObjectTypes

\* Who opened a libgda connection, and later another, did so for good.
LEMMA StrayedStays ==
    ASSUME handle \in Seq(Handle), handle' \in Seq(Handle), Len(handle') >= Len(handle),
           \A k \in DOMAIN handle : handle'[k].owner = handle[k].owner
    PROVE  \A m : \A h \in DOMAIN handle : Strayed(m, h) => Strayed(m, h)'
<1> SUFFICES ASSUME NEW h \in DOMAIN handle, NEW m, Strayed(m, h)
             PROVE  Strayed(m, h)'
  OBVIOUS
<1>1. PICK k \in (h + 1) .. Len(handle) : handle[k].owner = m
  BY DEF Strayed
<1>2. /\ h \in 1 .. Len(handle) /\ Len(handle) \in Nat /\ Len(handle') \in Nat
      /\ DOMAIN handle = 1 .. Len(handle)
  OBVIOUS
<1>3. k \in DOMAIN handle /\ k \in (h + 1) .. Len(handle')
  BY <1>1, <1>2
<1> QED
  BY <1>1, <1>3 DEF Strayed

\* What a step on a connection that opens, closes or reopens what it has, or
\* only notes something, does to libgda connections.
Steady(m, o, p) ==
    /\ handle' \in Seq(Handle) /\ Len(handle') = Len(handle)
    /\ \A h \in DOMAIN handle :
           /\ handle'[h].owner = handle[h].owner /\ handle'[h].kept = handle[h].kept
           /\ handle'[h].heardBy = handle[h].heardBy
           /\ handle'[h].state = "freed" <=> handle[h].state = "freed"
           /\ \/ /\ handle'[h].state = handle[h].state
                 /\ handle'[h].closedBy = handle[h].closedBy
                 /\ h = o.connection => (p.connected => o.connected)
              \/ h = o.connection /\ handle'[h].state = "open"
              \/ /\ h = o.connection /\ ~p.connected
                 /\ handle'[h].state = "closed" /\ handle'[h].closedBy = {m}

\* What it does to the connection object.
Like(o, p) ==
    /\ p \in Object /\ p.connection = o.connection /\ p.inherited = o.inherited
    /\ p.error_clbk_connected = o.error_clbk_connected
    /\ o.loghandler => p.loghandler
    /\ p.connected => p.connection # NoHandle

LEMMA SteadyStep ==
    ASSUME ObjectsOK, NEW m \in Cnc, NEW o \in cnc[m], NEW p, Become(m, p),
           Like(o, p), Steady(m, o, p), dead' = dead,
           logs' = logs \/ (logs' = Handled(m) /\ p.loghandler)
    PROVE  Points' /\ Buried' /\ Logged' /\ Owned' /\ Heard'
<1>1. ConnectionsTypeOK
  BY DEF ObjectsOK
<1>2. /\ cnc[m] = {o} /\ o \in Object /\ p \in Object
      /\ handle \in Seq(Handle) /\ dead \subseteq Cnc /\ logs \subseteq Cnc
      /\ \A k \in Cnc : \A q \in cnc[k] : q \in Object
      /\ \A h \in DOMAIN handle : handle[h] \in Handle
  BY <1>1, ObjectTypes DEF Like
<1>3. cnc'[m] = {p} /\ \A k \in Cnc \ {m} : cnc'[k] = cnc[k]
  BY <1>1, <1>2, Became
<1>4. /\ handle' \in Seq(Handle) /\ Len(handle') = Len(handle) /\ Len(handle) \in Nat
      /\ DOMAIN handle = 1 .. Len(handle) /\ DOMAIN handle' = DOMAIN handle
  BY <1>2 DEF Steady
<1>5. \A n : \A h \in DOMAIN handle : Strayed(n, h) => Strayed(n, h)'
  BY <1>2, <1>4, StrayedStays DEF Steady
<1>6. \A k \in Cnc : \A q \in cnc[k] : q.connection \in Nat /\ q.connection =< Len(handle)
  BY <1>2 DEF ObjectsOK, Points, PointsOf, Object
<1>7. Points'
  <2> SUFFICES ASSUME NEW k \in Cnc, NEW q \in cnc'[k]
      PROVE  /\ q.connection =< Len(handle')
             /\ q.connected \/ q.inherited \/ q.error_clbk_connected => q.connection # NoHandle
             /\ ~q.inherited /\ q.connection # NoHandle => handle'[q.connection].owner = k
             /\ q.connected /\ handle'[q.connection].state = "closed" =>
                    handle'[q.connection].closedBy # {k}
    BY DEF Points, PointsOf
  <2>1. CASE k = m
    <3>1. q = p /\ o.connection = p.connection
      BY <2>1, <1>3 DEF Like
    <3>2. p.connection # NoHandle => p.connection \in DOMAIN handle
      BY <1>2, <1>4, <1>6, <3>1 DEF NoHandle
    <3>3. /\ o.connected => o.connection # NoHandle
          /\ o.inherited => o.connection # NoHandle
          /\ o.error_clbk_connected => o.connection # NoHandle
          /\ ~o.inherited /\ o.connection # NoHandle => handle[o.connection].owner = m
          /\ o.connected /\ handle[o.connection].state = "closed" =>
                    handle[o.connection].closedBy # {m}
      BY DEF ObjectsOK, Points, PointsOf
    <3>4. p.connected => p.connection # NoHandle
      BY DEF Like
    <3>5. p.connected /\ handle'[p.connection].state = "closed" =>
              handle'[p.connection].closedBy # {m}
      BY <3>1, <3>2, <3>3, <3>4 DEF Steady
    <3>6. ~p.inherited /\ p.connection # NoHandle => handle'[p.connection].owner = m
      BY <3>1, <3>2, <3>3 DEF Steady, Like
    <3>7. q.connection =< Len(handle')
      BY <3>1, <1>4, <1>6
    <3>8. p.inherited \/ p.error_clbk_connected => p.connection # NoHandle
      BY <3>3 DEF Like
    <3> QED
      BY <2>1, <3>1, <3>4, <3>5, <3>6, <3>7, <3>8
  <2>2. CASE k # m
    <3>1. q \in cnc[k]
      BY <2>2, <1>3
    <3>2. q.connection # NoHandle => q.connection \in DOMAIN handle
      BY <3>1, <1>4, <1>6 DEF NoHandle
    <3>3. /\ q.connected \/ q.inherited \/ q.error_clbk_connected => q.connection # NoHandle
          /\ ~q.inherited /\ q.connection # NoHandle => handle[q.connection].owner = k
          /\ q.connected /\ handle[q.connection].state = "closed" =>
                    handle[q.connection].closedBy # {k}
      BY <3>1 DEF ObjectsOK, Points, PointsOf
    <3>4. q.connected /\ handle'[q.connection].state = "closed" =>
              handle'[q.connection].closedBy # {k}
      BY <2>2, <3>2, <3>3 DEF Steady
    <3>5. ~q.inherited /\ q.connection # NoHandle => handle'[q.connection].owner = k
      BY <3>2, <3>3 DEF Steady
    <3>6. q.connection =< Len(handle')
      BY <3>1, <1>4, <1>6
    <3> QED
      BY <3>3, <3>4, <3>5, <3>6
  <2> QED
    BY <2>1, <2>2
<1>8. Buried'
  BY <1>2, <1>3 DEF ObjectsOK, Buried
<1>9. Logged'
  BY <1>2, <1>3 DEF ObjectsOK, Logged, Handled, Like
<1>10. \A k : k \in dead \/ cnc[k] # {} => (k \in Cnc => k \in dead' \/ cnc'[k] # {})
  BY <1>3
<1>11. Owned'
  <2> SUFFICES ASSUME NEW h \in DOMAIN handle, NEW k \in Cnc, handle[h].owner = k
      PROVE  /\ handle'[h].owner = k /\ (k \in dead \/ cnc'[k] # {})
             /\ handle'[h].state = "freed" => k \in dead
             /\ handle'[h].state = "closed" => handle'[h].closedBy # {}
             /\ handle'[h].state # "freed" =>
                    \/ Strayed(k, h)' \/ handle'[h].kept
                    \/ \E q \in cnc'[k] : q.connection = h /\ ~q.inherited
    <3>1. \A h \in DOMAIN handle : handle[h].owner \in Cnc
      BY <1>2 DEF Handle
    <3> QED
      BY <3>1, <1>4 DEF Owned, OwnedBy
  <2>1. /\ handle'[h].owner = k /\ handle'[h].kept = handle[h].kept
        /\ handle'[h].state = "freed" <=> handle[h].state = "freed"
        /\ handle'[h].state = "closed" =>
               \/ handle[h].state = "closed" /\ handle'[h].closedBy = handle[h].closedBy
               \/ handle'[h].closedBy = {m}
    BY DEF Steady
  <2>2. /\ k \in dead \/ cnc[k] # {}
        /\ handle[h].state = "freed" => k \in dead
        /\ handle[h].state = "closed" => handle[h].closedBy # {}
        /\ handle[h].state # "freed" =>
               \/ Strayed(k, h) \/ handle[h].kept
               \/ \E q \in cnc[k] : q.connection = h /\ ~q.inherited
    BY DEF ObjectsOK, Owned, OwnedBy
  <2>3. (\E q \in cnc[k] : q.connection = h /\ ~q.inherited) =>
            \E q \in cnc'[k] : q.connection = h /\ ~q.inherited
    BY <2>1, <1>2, <1>3 DEF Like
  <2>4. Strayed(k, h) => Strayed(k, h)'
    BY <1>5
  <2> QED
    BY <2>1, <2>2, <2>3, <2>4, <1>10
<1>12. Heard'
  <2> SUFFICES ASSUME NEW h \in DOMAIN handle, NEW k \in handle'[h].heardBy
      PROVE  /\ k \in dead \/ cnc'[k] # {}
             /\ handle'[h].state # "freed" =>
                    \/ Strayed(k, h)'
                    \/ \E q \in cnc'[k] : q.connection = h /\ q.error_clbk_connected
    BY <1>4 DEF Heard, HeardOn
  <2>1. /\ k \in Cnc /\ k \in handle[h].heardBy
        /\ handle'[h].state = "freed" <=> handle[h].state = "freed"
    BY <1>2 DEF Handle, Steady
  <2>2. /\ k \in dead \/ cnc[k] # {}
        /\ handle[h].state # "freed" =>
                    \/ Strayed(k, h)
                    \/ \E q \in cnc[k] : q.connection = h /\ q.error_clbk_connected
    BY <2>1 DEF ObjectsOK, Heard, HeardOn
  <2>3. (\E q \in cnc[k] : q.connection = h /\ q.error_clbk_connected) =>
            \E q \in cnc'[k] : q.connection = h /\ q.error_clbk_connected
    BY <2>1, <1>2, <1>3 DEF Like
  <2>4. Strayed(k, h) => Strayed(k, h)'
    BY <1>5
  <2> QED
    BY <2>1, <2>2, <2>3, <2>4, <1>10
<1> QED
  BY <1>7, <1>8, <1>9, <1>11, <1>12

\* Who is neither made nor freed opened nothing, and is called back by nobody.
LEMMA Unknown ==
    ASSUME ObjectsOK, NEW m \in Cnc, cnc[m] = {}, m \notin dead
    PROVE  /\ \A h \in DOMAIN handle : handle[h].owner # m /\ m \notin handle[h].heardBy
           /\ m \notin logs
BY DEF ObjectsOK, Owned, OwnedBy, Heard, HeardOn, Logged

LEMMA HandleClauses ==
    ASSUME ObjectsOK
    PROVE  \A h \in DOMAIN handle : /\ handle[h].owner \in Cnc
                                    /\ OwnedBy(h, handle[h].owner)
                                    /\ handle[h].heardBy \subseteq Cnc
                                    /\ \A k \in handle[h].heardBy : HeardOn(h, k)
<1>1. \A h \in DOMAIN handle : handle[h] \in Handle
  BY ObjectTypes DEF ObjectsOK
<1>2. \A h \in DOMAIN handle : handle[h].owner \in Cnc /\ handle[h].heardBy \subseteq Cnc
  BY <1>1 DEF Handle
<1>3. \A h \in DOMAIN handle : OwnedBy(h, handle[h].owner)
  BY DEF ObjectsOK, Owned, OwnedBy
<1>4. \A h \in DOMAIN handle : \A k \in handle[h].heardBy : HeardOn(h, k)
  BY DEF ObjectsOK, Heard, HeardOn
<1> QED
  BY <1>2, <1>3, <1>4

LEMMA PointClauses ==
    ASSUME ObjectsOK
    PROVE  \A m \in Cnc : \A o \in cnc[m] :
               /\ PointsOf(m, o) /\ o \in Object
               /\ o.connection \in Nat /\ o.connection \in {NoHandle} \cup DOMAIN handle
<1>1. \A m \in Cnc : \A o \in cnc[m] : PointsOf(m, o)
  BY DEF ObjectsOK, Points, PointsOf
<1>2. \A m \in Cnc : \A o \in cnc[m] : o \in Object
  BY ObjectTypes DEF ObjectsOK
<1>3. \A o \in Object : o.connection \in Nat
  BY ConnectionsAssumption DEF Object
<1>4. Len(handle) \in Nat /\ DOMAIN handle = 1 .. Len(handle)
  BY ObjectTypes DEF ObjectsOK
<1> QED
  BY <1>1, <1>2, <1>3, <1>4 DEF PointsOf, NoHandle

\* A new object.
LEMMA NewStep ==
    ASSUME ObjectsOK, NEW m \in Cnc, cnc[m] = {}, m \notin dead, NEW p \in Object,
           Become(m, p), p.connection = NoHandle, ~p.connected, ~p.inherited,
           ~p.error_clbk_connected, UNCHANGED <<handle, logs, dead>>
    PROVE  Points' /\ Buried' /\ Logged' /\ Owned' /\ Heard'
<1>1. /\ cnc'[m] = {p} /\ \A k \in Cnc \ {m} : cnc'[k] = cnc[k]
      /\ dead \subseteq Cnc /\ logs \subseteq Cnc /\ Len(handle) \in Nat
  BY Became, ObjectTypes DEF ObjectsOK
<1>2. Points'
  <2>1. PointsOf(m, p)'
    BY <1>1 DEF PointsOf, NoHandle
  <2>2. \A k \in Cnc \ {m} : \A q \in cnc'[k] : PointsOf(k, q)'
    BY <1>1, PointClauses DEF PointsOf
  <2> QED
    BY <1>1, <2>1, <2>2 DEF Points, PointsOf
<1>3. Buried' /\ Logged'
  BY <1>1, Unknown DEF ObjectsOK, Buried, Logged
<1>4. Owned'
  <2>1. ASSUME NEW h \in DOMAIN handle, NEW k \in Cnc \ {m}, handle[h].owner = k
        PROVE  OwnedBy(h, k)'
    BY <1>1, <2>1, HandleClauses DEF OwnedBy, Strayed
  <2> QED
    BY <2>1, Unknown, HandleClauses DEF Owned, OwnedBy
<1>5. Heard'
  <2>1. ASSUME NEW h \in DOMAIN handle, NEW k \in Cnc \ {m}, k \in handle[h].heardBy
        PROVE  HeardOn(h, k)'
    BY <1>1, <2>1, HandleClauses DEF HeardOn, Strayed
  <2> QED
    BY <2>1, Unknown, HandleClauses DEF Heard, HeardOn
<1> QED
  BY <1>2, <1>3, <1>4, <1>5

\* A libgda connection is opened: what the object had open before is strayed.
LEMMA OpenedStep ==
    ASSUME ObjectsOK, NEW m \in Cnc, NEW o \in cnc[m], NEW p \in Object, NEW r \in Handle,
           Become(m, p), p.connection = Len(handle) + 1, p.error_clbk_connected, p.loghandler,
           r.state = "open", r.owner = m, r.kept = p.inherited, r.heardBy \subseteq {m},
           handle' = Append(handle, r), logs' = Handled(m), dead' = dead
    PROVE  Points' /\ Buried' /\ Logged' /\ Owned' /\ Heard' /\ handle' \in Seq(Handle)
<1>1. /\ cnc'[m] = {p} /\ \A k \in Cnc \ {m} : cnc'[k] = cnc[k]
      /\ dead \subseteq Cnc /\ logs \subseteq Cnc /\ Len(handle) \in Nat
      /\ handle \in Seq(Handle) /\ cnc[m] = {o}
  BY Became, ObjectTypes DEF ObjectsOK
<1>11. PICK H \in Nat : H = Len(handle) + 1
  BY <1>1
<1>2. /\ handle' \in Seq(Handle) /\ Len(handle') = H /\ handle'[H] = r
      /\ \A h \in DOMAIN handle : handle'[h] = handle[h]
  BY <1>1, <1>11, AppendProperties
<1>3. /\ DOMAIN handle = 1 .. Len(handle) /\ DOMAIN handle' = 1 .. H
      /\ H \in Nat /\ H > Len(handle) /\ H \notin DOMAIN handle
      /\ \A h \in DOMAIN handle' : h = H \/ h \in DOMAIN handle
  BY <1>1, <1>2, <1>11
<1>4. \A n : \A h \in DOMAIN handle : Strayed(n, h) => Strayed(n, h)'
  BY <1>1, <1>2, <1>3, StrayedStays
<1>5. \A h \in DOMAIN handle : Strayed(m, h)'
  <2> SUFFICES ASSUME NEW h \in DOMAIN handle PROVE Strayed(m, h)'
    OBVIOUS
  <2>1. H \in (h + 1) .. Len(handle')
    BY <1>2, <1>3
  <2> QED
    BY <2>1, <1>2 DEF Strayed
<1>6. m \notin dead
  BY <1>1 DEF ObjectsOK, Buried
<1>7. Points'
  <2>1. PointsOf(m, p)'
    BY <1>1, <1>2, <1>3, <1>11 DEF PointsOf, NoHandle
  <2>2. ASSUME NEW k \in Cnc \ {m}, NEW q \in cnc'[k] PROVE PointsOf(k, q)'
    <3>1. /\ q \in cnc[k] /\ PointsOf(k, q) /\ q.connection \in Nat
          /\ q.connection \in {NoHandle} \cup DOMAIN handle
      BY <1>1, PointClauses
    <3>2. q.connection # NoHandle => handle'[q.connection] = handle[q.connection]
      BY <3>1, <1>2
    <3>3. q.connection =< Len(handle')
      BY <3>1, <1>2, <1>3, <1>1 DEF PointsOf
    <3> QED
      BY <3>1, <3>2, <3>3 DEF PointsOf
  <2> QED
    BY <1>1, <2>1, <2>2 DEF Points
<1>8. Buried' /\ Logged'
  BY <1>1, <1>6 DEF ObjectsOK, Buried, Logged, Handled
<1>9. Owned'
  <2>1. OwnedBy(H, m)'
    BY <1>1, <1>2, <1>11 DEF OwnedBy
  <2>2. ASSUME NEW h \in DOMAIN handle, NEW k \in Cnc, handle[h].owner = k
        PROVE  OwnedBy(h, k)'
    <3>1. OwnedBy(h, k) /\ handle'[h] = handle[h]
      BY <2>2, <1>2, HandleClauses
    <3>2. CASE k = m
      BY <3>1, <3>2, <1>1, <1>5, <1>6 DEF OwnedBy
    <3>3. CASE k # m
      BY <3>1, <3>3, <1>1, <1>4 DEF OwnedBy
    <3> QED BY <3>2, <3>3
  <2>3. \A h \in DOMAIN handle : handle[h].owner \in Cnc
    BY HandleClauses
  <2>4. \A h \in DOMAIN handle' : h = H \/ h \in DOMAIN handle
    BY <1>3
  <2>5. handle'[H].owner = m /\ \A h \in DOMAIN handle : handle'[h].owner = handle[h].owner
    BY <1>2
  <2>6. ASSUME NEW h \in DOMAIN handle' PROVE OwnedBy(h, handle[h].owner)'
    <3>1. CASE h = H
      BY <3>1, <2>1, <2>5 DEF OwnedBy, Strayed
    <3>2. CASE h \in DOMAIN handle
      <4>1. PICK k \in Cnc : handle[h].owner = k
        BY <3>2, <2>3
      <4>2. OwnedBy(h, k)' /\ handle'[h].owner = k
        BY <3>2, <4>1, <2>2, <2>5
      <4> QED
        BY <4>2 DEF OwnedBy, Strayed
    <3> QED
      BY <2>4, <3>1, <3>2
  <2> QED
    BY <2>6 DEF Owned
<1>10. Heard'
  <2>1. HeardOn(H, m)'
    BY <1>1, <1>2, <1>11 DEF HeardOn
  <2>2. ASSUME NEW h \in DOMAIN handle, NEW k \in handle[h].heardBy
        PROVE  HeardOn(h, k)'
    <3>1. HeardOn(h, k) /\ handle'[h] = handle[h] /\ k \in Cnc
      BY <2>2, <1>2, HandleClauses
    <3>2. CASE k = m
      BY <3>1, <3>2, <1>1, <1>5 DEF HeardOn
    <3>3. CASE k # m
      BY <3>1, <3>3, <1>1, <1>4 DEF HeardOn
    <3> QED BY <3>2, <3>3
  <2>3. ASSUME NEW h \in DOMAIN handle', NEW k \in handle'[h].heardBy
        PROVE  HeardOn(h, k)'
    <3>1. CASE h = H
      <4>1. k = m
        BY <3>1, <1>2
      <4> QED
        BY <3>1, <4>1, <2>1
    <3>2. CASE h \in DOMAIN handle
      BY <3>2, <2>2, <1>2
    <3> QED
      BY <1>3, <3>1, <3>2
  <2> QED
    BY <2>3 DEF Heard
<1> QED
  BY <1>2, <1>7, <1>8, <1>9, <1>10

\* A copy takes the callback over on the libgda connection they share.
LEMMA CopiedStep ==
    ASSUME ObjectsOK, NEW m \in Cnc, NEW o \in cnc[m], NEW n \in Cnc, cnc[n] = {}, n \notin dead,
           NEW p \in Object, NEW q \in Object, NEW g \in DOMAIN handle, NEW r \in Handle,
           cnc' = [cnc EXCEPT ![n] = {q}, ![m] = {p}],
           p = [o EXCEPT !.error_clbk_connected = FALSE],
           o.connection = g, q.connection = g, q.inherited, ~q.connected,
           q.error_clbk_connected,
           handle[g].state # "freed", handle' = [handle EXCEPT ![g] = r],
           r.state = handle[g].state, r.owner = handle[g].owner, r.kept = handle[g].kept,
           r.closedBy = handle[g].closedBy,
           r.heardBy \subseteq handle[g].heardBy \cup {n},
           o.error_clbk_connected => m \notin r.heardBy,
           UNCHANGED <<logs, dead>>
    PROVE  Points' /\ Buried' /\ Logged' /\ Owned' /\ Heard'
           /\ cnc' \in [Cnc -> SUBSET Object] /\ (\A k \in Cnc : AtMostOne(cnc'[k]))
           /\ handle' \in Seq(Handle) /\ Len(handle') = Len(handle)
<1>1. /\ cnc \in [Cnc -> SUBSET Object] /\ dead \subseteq Cnc /\ logs \subseteq Cnc
      /\ handle \in Seq(Handle) /\ cnc[m] = {o} /\ o \in Object /\ m # n
      /\ Len(handle) \in Nat /\ DOMAIN handle = 1 .. Len(handle)
  BY ObjectTypes DEF ObjectsOK
<1>2. /\ cnc'[m] = {p} /\ cnc'[n] = {q} /\ \A k \in Cnc \ {m, n} : cnc'[k] = cnc[k]
  BY <1>1
<1>3. /\ p.connection = g /\ p.inherited = o.inherited /\ p.connected = o.connected
      /\ p.loghandler = o.loghandler /\ ~p.error_clbk_connected
  BY <1>1 DEF Object
<1>4. /\ handle' \in Seq(Handle) /\ Len(handle') = Len(handle) /\ DOMAIN handle' = DOMAIN handle
      /\ \A h \in DOMAIN handle : /\ handle'[h].state = handle[h].state
                                  /\ handle'[h].owner = handle[h].owner
                                  /\ handle'[h].kept = handle[h].kept
                                  /\ handle'[h].closedBy = handle[h].closedBy
      /\ handle'[g] = r /\ \A h \in DOMAIN handle \ {g} : handle'[h] = handle[h]
  BY OneHandle DEF ObjectsOK
<1>5. \A k : \A h \in DOMAIN handle : Strayed(k, h) => Strayed(k, h)'
  BY <1>1, <1>4, StrayedStays
<1>6. \A k \in Cnc : k \in dead \/ cnc[k] # {} => k \in dead' \/ cnc'[k] # {}
  BY <1>2
<1>7. g # NoHandle
  BY <1>1 DEF NoHandle
<1>8. Points'
  <2>1. PointsOf(m, p)'
    <3>1. PointsOf(m, o)
      BY PointClauses
    <3> QED
      BY <3>1, <1>3, <1>4, <1>7 DEF PointsOf
  <2>2. PointsOf(n, q)'
    BY <1>1, <1>4, <1>7 DEF PointsOf
  <2>3. ASSUME NEW k \in Cnc \ {m, n}, NEW x \in cnc'[k] PROVE PointsOf(k, x)'
    <3>1. x \in cnc[k] /\ PointsOf(k, x) /\ x.connection \in {NoHandle} \cup DOMAIN handle
      BY <1>2, PointClauses
    <3> QED
      BY <3>1, <1>4 DEF PointsOf
  <2>4. ASSUME NEW k \in Cnc, NEW x \in cnc'[k] PROVE PointsOf(k, x)'
    <3>1. CASE k = m
      BY <3>1, <2>4, <2>1, <1>2
    <3>2. CASE k = n
      BY <3>2, <2>4, <2>2, <1>2
    <3>3. CASE k \notin {m, n}
      BY <3>3, <2>4, <2>3
    <3> QED BY <3>1, <3>2, <3>3
  <2> QED
    BY <2>4 DEF Points
<1>13. Buried'
  <2>1. ASSUME NEW k \in dead PROVE cnc'[k] = {}
    <3>1. cnc[k] = {} /\ k \in Cnc
      BY <1>1 DEF ObjectsOK, Buried
    <3>2. k \notin {m, n}
      BY <3>1, <1>1
    <3> QED
      BY <3>1, <3>2, <1>2
  <2> QED
    BY <2>1 DEF Buried
<1>9. Logged'
  <2>1. ASSUME NEW k \in logs PROVE \E x \in cnc'[k] : x.loghandler
    <3>1. k \in Cnc /\ k # n /\ \E x \in cnc[k] : x.loghandler
      BY <1>1, Unknown DEF ObjectsOK, Logged
    <3>2. CASE k = m
      BY <3>1, <3>2, <1>1, <1>2, <1>3
    <3>3. CASE k # m
      <4>1. cnc'[k] = cnc[k]
        BY <3>1, <3>3, <1>2
      <4> QED
        BY <3>1, <4>1
    <3> QED BY <3>2, <3>3
  <2> QED
    BY <2>1 DEF Logged
<1>10. Owned'
  <2>1. ASSUME NEW h \in DOMAIN handle, NEW k \in Cnc, handle[h].owner = k
        PROVE  OwnedBy(h, k)'
    <3>1. OwnedBy(h, k) /\ k # n
      BY <2>1, HandleClauses, Unknown
    <3>2. (\E x \in cnc[k] : x.connection = h /\ ~x.inherited) =>
              \E x \in cnc'[k] : x.connection = h /\ ~x.inherited
      <4>1. CASE k = m
        <5>1. cnc[k] = {o} /\ cnc'[k] = {p}
          BY <4>1, <1>1, <1>2
        <5>2. ASSUME o.connection = h, ~o.inherited
              PROVE  p.connection = h /\ ~p.inherited
          BY <5>2, <1>3
        <5> QED
          BY <5>1, <5>2
      <4>2. CASE k # m
        <5>1. cnc'[k] = cnc[k]
          BY <3>1, <4>2, <1>2
        <5> QED
          BY <5>1
      <4> QED BY <4>1, <4>2
    <3> QED
      BY <3>1, <3>2, <1>4, <1>5, <1>6 DEF OwnedBy
  <2>2. ASSUME NEW h \in DOMAIN handle' PROVE OwnedBy(h, handle[h].owner)'
    <3>1. PICK k \in Cnc : handle[h].owner = k
      BY <1>4, HandleClauses
    <3>2. OwnedBy(h, k)' /\ handle'[h].owner = k
      BY <3>1, <2>1, <1>4
    <3> QED
      BY <3>2 DEF OwnedBy, Strayed
  <2> QED
    BY <2>2 DEF Owned
<1>11. Heard'
  <2>1. ASSUME NEW h \in DOMAIN handle', NEW k \in handle'[h].heardBy
        PROVE  HeardOn(h, k)'
    <3>1. CASE k = n /\ h = g
      BY <3>1, <1>2 DEF HeardOn
    <3>2. CASE ~(k = n /\ h = g)
      <4>1. h \in DOMAIN handle /\ k \in handle[h].heardBy
        BY <2>1, <3>2, <1>4
      <4>2. HeardOn(h, k) /\ k # n /\ k \in Cnc
        BY <4>1, HandleClauses, Unknown
      <4>3. CASE k = m
        <5>1. o.connection = h /\ o.error_clbk_connected => FALSE
          BY <2>1, <4>3, <1>4
        <5> QED
          BY <4>1, <4>2, <4>3, <5>1, <1>1, <1>2, <1>4, <1>5 DEF HeardOn
      <4>4. CASE k # m
        <5>1. cnc'[k] = cnc[k]
          BY <4>2, <4>4, <1>2
        <5> QED
          BY <4>1, <4>2, <5>1, <1>4, <1>5, <1>6 DEF HeardOn
      <4> QED
        BY <4>3, <4>4
    <3> QED
      BY <3>1, <3>2
  <2> QED
    BY <2>1 DEF Heard
<1>12. cnc' \in [Cnc -> SUBSET Object] /\ \A k \in Cnc : AtMostOne(cnc'[k])
  <2>1. \A k \in Cnc : AtMostOne(cnc[k])
    BY DEF ObjectsOK, ConnectionsTypeOK
  <2>2. \A k \in Cnc : AtMostOne(cnc'[k])
    <3> SUFFICES ASSUME NEW k \in Cnc PROVE AtMostOne(cnc'[k])
      OBVIOUS
    <3>1. CASE k = m
      <4>1. cnc'[k] = {p}
        BY <3>1, <1>2
      <4> QED
        BY <4>1 DEF AtMostOne
    <3>3. CASE k = n
      <4>1. cnc'[k] = {q}
        BY <3>3, <1>2
      <4> QED
        BY <4>1 DEF AtMostOne
    <3>2. CASE k \notin {m, n}
      <4>1. cnc'[k] = cnc[k]
        BY <3>2, <1>2
      <4> QED
        BY <4>1, <2>1
    <3> QED BY <3>1, <3>2, <3>3
  <2>3. {p} \in SUBSET Object /\ {q} \in SUBSET Object
    OBVIOUS
  <2>4. [cnc EXCEPT ![n] = {q}, ![m] = {p}] \in [Cnc -> SUBSET Object]
    BY <1>1, <2>3
  <2> QED
    BY <2>2, <2>4
<1> QED
  BY <1>4, <1>8, <1>13, <1>9, <1>10, <1>11, <1>12

\* dispose and finalize: the callback is taken off, unless the libgda connection
\* is freed already, and what is the object's own is freed.
LEMMA FreedStep ==
    ASSUME ObjectsOK, NEW m \in Cnc, NEW o \in cnc[m],
           cnc' = [cnc EXCEPT ![m] = {}], dead' = dead \cup {m},
           logs' = (IF o.loghandler THEN logs \ {m} ELSE logs),
           handle' \in Seq(Handle), Len(handle') = Len(handle),
           \A h \in DOMAIN handle :
               /\ handle'[h].owner = handle[h].owner /\ handle'[h].kept = handle[h].kept
               /\ handle'[h].closedBy = handle[h].closedBy
               /\ \/ handle'[h].state = handle[h].state
                     /\ (h = o.connection => o.inherited)
                  \/ handle'[h].state = handle[h].state /\ h # o.connection
                  \/ handle'[h].state = "freed" /\ h = o.connection /\ ~o.inherited
               /\ handle'[h].heardBy \subseteq handle[h].heardBy
               /\ (h = o.connection /\ o.error_clbk_connected /\ handle[h].state # "freed") =>
                      m \notin handle'[h].heardBy
    PROVE  Points' /\ Buried' /\ Logged' /\ Owned' /\ Heard'
           /\ cnc' \in [Cnc -> SUBSET Object] /\ (\A k \in Cnc : AtMostOne(cnc'[k]))
<1>1. /\ cnc \in [Cnc -> SUBSET Object] /\ dead \subseteq Cnc /\ logs \subseteq Cnc
      /\ handle \in Seq(Handle) /\ cnc[m] = {o} /\ o \in Object
      /\ Len(handle) \in Nat /\ DOMAIN handle = 1 .. Len(handle)
      /\ DOMAIN handle' = DOMAIN handle
  BY ObjectTypes DEF ObjectsOK
<1>2. cnc'[m] = {} /\ \A k \in Cnc \ {m} : cnc'[k] = cnc[k]
  BY <1>1
<1>3. \A k : \A h \in DOMAIN handle : Strayed(k, h) => Strayed(k, h)'
  BY <1>1, StrayedStays
<1>4. \A k \in Cnc : k \in dead \/ cnc[k] # {} => k \in dead' \/ cnc'[k] # {}
  BY <1>2
<1>5. Points'
  <2>1. ASSUME NEW k \in Cnc \ {m}, NEW x \in cnc'[k] PROVE PointsOf(k, x)'
    <3>1. x \in cnc[k] /\ PointsOf(k, x) /\ x.connection \in {NoHandle} \cup DOMAIN handle
      BY <1>2, PointClauses
    <3>2. x.connection # NoHandle =>
              /\ handle'[x.connection].owner = handle[x.connection].owner
              /\ handle'[x.connection].closedBy = handle[x.connection].closedBy
              /\ handle'[x.connection].state = "closed" => handle[x.connection].state = "closed"
      BY <3>1
    <3> QED
      BY <3>1, <3>2 DEF PointsOf
  <2> QED
    BY <1>2, <2>1 DEF Points
<1>6. Buried'
  BY <1>1, <1>2 DEF ObjectsOK, Buried
<1>7. Logged'
  BY <1>1, <1>2 DEF ObjectsOK, Logged
<1>8. Owned'
  <2>1. ASSUME NEW h \in DOMAIN handle, NEW k \in Cnc, handle[h].owner = k
        PROVE  OwnedBy(h, k)'
    <3>1. OwnedBy(h, k)
      BY <2>1, HandleClauses
    <3>2. CASE handle'[h].state = handle[h].state
      <4>1. CASE k = m
        BY <3>1, <3>2, <4>1, <1>1, <1>3 DEF OwnedBy
      <4>2. CASE k # m
        BY <3>1, <3>2, <4>2, <1>2, <1>3 DEF OwnedBy
      <4> QED BY <4>1, <4>2
    <3>3. CASE handle'[h].state = "freed" /\ h = o.connection /\ ~o.inherited
      <4>1. h # NoHandle /\ PointsOf(m, o)
        BY <1>1, PointClauses DEF NoHandle
      <4>2. k = m
        BY <2>1, <3>3, <4>1 DEF PointsOf
      <4> QED
        BY <3>3, <4>2 DEF OwnedBy
    <3> QED
      BY <3>2, <3>3
  <2>2. ASSUME NEW h \in DOMAIN handle' PROVE OwnedBy(h, handle[h].owner)'
    <3>1. PICK k \in Cnc : handle[h].owner = k
      BY <1>1, HandleClauses
    <3>2. OwnedBy(h, k)' /\ handle'[h].owner = k
      BY <3>1, <2>1, <1>1
    <3> QED
      BY <3>2 DEF OwnedBy, Strayed
  <2> QED
    BY <2>2 DEF Owned
<1>9. Heard'
  <2>1. ASSUME NEW h \in DOMAIN handle', NEW k \in handle'[h].heardBy
        PROVE  HeardOn(h, k)'
    <3>1. h \in DOMAIN handle /\ k \in handle[h].heardBy
      BY <2>1, <1>1
    <3>2. HeardOn(h, k) /\ k \in Cnc
      BY <3>1, HandleClauses
    <3>3. handle'[h].state # "freed" => handle[h].state # "freed"
      BY <3>1
    <3>4. CASE k = m
      BY <2>1, <3>1, <3>2, <3>3, <3>4, <1>1, <1>3 DEF HeardOn
    <3>5. CASE k # m
      <4>1. cnc'[k] = cnc[k]
        BY <3>2, <3>5, <1>2
      <4> QED
        BY <3>1, <3>2, <3>3, <4>1, <1>3, <1>4 DEF HeardOn
    <3> QED
      BY <3>4, <3>5
  <2> QED
    BY <2>1 DEF Heard
<1>10. cnc' \in [Cnc -> SUBSET Object] /\ \A k \in Cnc : AtMostOne(cnc'[k])
  <2>1. \A k \in Cnc : AtMostOne(cnc[k])
    BY DEF ObjectsOK, ConnectionsTypeOK
  <2> QED
    BY <1>1, <1>2, <2>1 DEF AtMostOne
<1> QED
  BY <1>5, <1>6, <1>7, <1>8, <1>9, <1>10

\* Types and the last answer, after a step that is counted.
LEMMA StepTypes ==
    ASSUME ConnectionsTypeOK, Counted,
           cnc' \in [Cnc -> SUBSET Object], \A k \in Cnc : AtMostOne(cnc'[k]),
           handle' \in Seq(Handle), Len(handle') =< MaxHandles, logs' \subseteq Cnc,
           dead' \subseteq Cnc, tx' \in [Transaction -> SUBSET Cnc],
           \A t \in Transaction : AtMostOne(tx'[t]),
           said' \subseteq [cnc : Cnc, ok : BOOLEAN, known : BOOLEAN], AtMostOne(said')
    PROVE  ConnectionsTypeOK'
<1>1. cncCalls' \in 0 .. MaxCncCalls
  BY ConnectionsAssumption DEF ConnectionsTypeOK, Counted
<1> QED
  BY <1>1 DEF ConnectionsTypeOK, AtMostOne

LEMMA Silent ==
    ASSUME said' = {}
    PROVE  /\ Told' /\ said' \subseteq [cnc : Cnc, ok : BOOLEAN, known : BOOLEAN]
           /\ AtMostOne(said')
BY DEF Told, AtMostOne

LEMMA Answered ==
    ASSUME NEW m \in Cnc, NEW ok \in BOOLEAN, Answer(m, ok)
    PROVE  /\ said' \subseteq [cnc : Cnc, ok : BOOLEAN, known : BOOLEAN] /\ AtMostOne(said')
           /\ ok = FALSE => Told'
           /\ (ok = TRUE /\ \E o \in cnc'[m] :
                  o.connection # NoHandle /\ handle'[o.connection].state = "open") => Told'
<1>1. said' = {[cnc |-> m, ok |-> ok, known |-> FALSE]}
  BY DEF Answer
<1>2. \A a \in said' : a.cnc = m /\ a.ok = ok
  BY <1>1
<1> QED
  BY <1>1, <1>2 DEF Told, AtMostOne

\* A step that leaves the objects as they are in what they point to.
LEMMA SteadyAction ==
    ASSUME ObjectsOK, Counted, NEW m \in Cnc, NEW o \in cnc[m], NEW p, Become(m, p),
           Like(o, p), Steady(m, o, p), dead' = dead,
           logs' = logs \/ (logs' = Handled(m) /\ p.loghandler),
           tx' \in [Transaction -> SUBSET Cnc], \A t \in Transaction : AtMostOne(tx'[t]),
           said' \subseteq [cnc : Cnc, ok : BOOLEAN, known : BOOLEAN], AtMostOne(said')
    PROVE  ObjectsOK'
<1>1. Points' /\ Buried' /\ Logged' /\ Owned' /\ Heard'
  BY SteadyStep
<1>2. p \in Object
  BY DEF Like
<1>3. cnc' \in [Cnc -> SUBSET Object] /\ \A k \in Cnc : AtMostOne(cnc'[k])
  BY <1>2, Became DEF ObjectsOK
<1>4. handle' \in Seq(Handle) /\ Len(handle') =< MaxHandles
  BY ObjectTypes DEF Steady, ObjectsOK
<1>5. logs' \subseteq Cnc /\ dead' \subseteq Cnc
  BY ObjectTypes DEF ObjectsOK, Handled
<1>6. ConnectionsTypeOK'
  BY <1>3, <1>4, <1>5, StepTypes DEF ObjectsOK
<1> QED
  BY <1>1, <1>6 DEF ObjectsOK

\* The transactions stay.
LEMMA SameTx ==
    ASSUME ObjectsOK, tx' = tx
    PROVE  tx' \in [Transaction -> SUBSET Cnc] /\ \A t \in Transaction : AtMostOne(tx'[t])
BY DEF ObjectsOK, ConnectionsTypeOK

\* A transaction object gets a connection, or none.
LEMMA OtherTx ==
    ASSUME ObjectsOK, NEW t \in Transaction, NEW S \in SUBSET Cnc, AtMostOne(S),
           tx' = [tx EXCEPT ![t] = S]
    PROVE  tx' \in [Transaction -> SUBSET Cnc] /\ \A u \in Transaction : AtMostOne(tx'[u])
BY DEF ObjectsOK, ConnectionsTypeOK

-----------------------------------------------------------------------------
(* What the steps do to libgda connections *)

LEMMA SameHandle ==
    ASSUME ObjectsOK, NEW m \in Cnc, NEW o \in cnc[m], NEW p, handle' = handle,
           p.connected => o.connected
    PROVE  Steady(m, o, p)
BY ObjectTypes DEF ObjectsOK, Steady

LEMMA PointedTo ==
    ASSUME ObjectsOK, NEW m \in Cnc, NEW o \in cnc[m], o.connection # NoHandle
    PROVE  /\ o.connection \in DOMAIN handle /\ handle[o.connection] \in Handle
           /\ cnc[m] = {o} /\ o \in Object
           /\ ~Dangles(m) => handle[o.connection].state # "freed"
<1>1. o.connection \in DOMAIN handle
  BY PointClauses
<1> QED
  BY <1>1, ObjectTypes DEF ObjectsOK, Dangles

LEMMA ClosedHandle ==
    ASSUME ObjectsOK, NEW m \in Cnc, NEW o \in cnc[m], NEW p, o.connection # NoHandle,
           ~Dangles(m), ~p.connected, handle' = Closed(o.connection, m)
    PROVE  Steady(m, o, p)
<1>1. PICK g \in DOMAIN handle : g = o.connection
  BY PointedTo
<1>2. handle[g] \in Handle /\ handle[g].state # "freed" /\ handle \in Seq(Handle)
  BY <1>1, PointedTo, ObjectTypes DEF ObjectsOK
<1>3. PICK r \in Handle : r = [handle[g] EXCEPT !.state = "closed", !.closedBy = {m}, !.begun = {}]
  BY <1>2 DEF Handle
<1>4. handle' = [handle EXCEPT ![g] = r]
  BY <1>1, <1>2, <1>3 DEF Closed
<1>5. /\ handle' \in Seq(Handle) /\ Len(handle') = Len(handle) /\ handle'[g] = r
      /\ \A h \in DOMAIN handle \ {g} : handle'[h] = handle[h]
  BY <1>4, OneHandle DEF ObjectsOK
<1>6. /\ r.state = "closed" /\ r.closedBy = {m} /\ r.owner = handle[g].owner
      /\ r.kept = handle[g].kept /\ r.heardBy = handle[g].heardBy
  BY <1>2, <1>3 DEF Handle
<1> QED
  BY <1>1, <1>2, <1>5, <1>6 DEF Steady

LEMMA OpenedHandle ==
    ASSUME ObjectsOK, NEW m \in Cnc, NEW o \in cnc[m], NEW p, o.connection # NoHandle,
           ~Dangles(m),
           \/ handle' = Opened(o.connection)
           \/ handle' = [Opened(o.connection) EXCEPT ![o.connection].begun = {}]
    PROVE  Steady(m, o, p)
<1>1. PICK g \in DOMAIN handle : g = o.connection
  BY PointedTo
<1>2. handle[g] \in Handle /\ handle[g].state # "freed" /\ handle \in Seq(Handle)
  BY <1>1, PointedTo, ObjectTypes DEF ObjectsOK
<1>3. PICK r \in Handle : /\ handle' = [handle EXCEPT ![g] = r]
                         /\ r.state = "open" /\ r.owner = handle[g].owner
                         /\ r.kept = handle[g].kept /\ r.heardBy = handle[g].heardBy
  <2>1. CASE handle' = Opened(o.connection)
    <3>1. PICK r \in Handle : r = [handle[g] EXCEPT !.state = "open", !.closedBy = {}]
      BY <1>2 DEF Handle
    <3>2. handle' = [handle EXCEPT ![g] = r]
      BY <1>1, <1>2, <2>1, <3>1 DEF Opened
    <3> QED
      BY <1>2, <3>1, <3>2 DEF Handle
  <2>2. CASE handle' = [Opened(o.connection) EXCEPT ![o.connection].begun = {}]
    <3>1. PICK r \in Handle :
              r = [handle[g] EXCEPT !.state = "open", !.closedBy = {}, !.begun = {}]
      BY <1>2 DEF Handle
    <3>2. handle' = [handle EXCEPT ![g] = r]
      BY <1>1, <1>2, <2>2, <3>1 DEF Opened
    <3> QED
      BY <1>2, <3>1, <3>2 DEF Handle
  <2> QED
    BY <2>1, <2>2
<1>5. /\ handle' \in Seq(Handle) /\ Len(handle') = Len(handle) /\ handle'[g] = r
      /\ \A h \in DOMAIN handle \ {g} : handle'[h] = handle[h]
  BY <1>3, OneHandle DEF ObjectsOK
<1> QED
  BY <1>1, <1>2, <1>3, <1>5 DEF Steady

LEMMA BegunHandle ==
    ASSUME ObjectsOK, NEW m \in Cnc, NEW o \in cnc[m], o.connection # NoHandle,
           NEW B \in SUBSET Transaction, handle' = [handle EXCEPT ![o.connection].begun = B]
    PROVE  Steady(m, o, o)
<1>1. PICK g \in DOMAIN handle : g = o.connection
  BY PointedTo
<1>2. handle[g] \in Handle /\ handle \in Seq(Handle)
  BY <1>1, PointedTo, ObjectTypes DEF ObjectsOK
<1>3. PICK r \in Handle : r = [handle[g] EXCEPT !.begun = B]
  BY <1>2 DEF Handle
<1>4. handle' = [handle EXCEPT ![g] = r]
  BY <1>1, <1>2, <1>3
<1>5. /\ handle' \in Seq(Handle) /\ Len(handle') = Len(handle) /\ handle'[g] = r
      /\ \A h \in DOMAIN handle \ {g} : handle'[h] = handle[h]
  BY <1>4, OneHandle DEF ObjectsOK
<1>6. /\ r.state = handle[g].state /\ r.owner = handle[g].owner /\ r.closedBy = handle[g].closedBy
      /\ r.kept = handle[g].kept /\ r.heardBy = handle[g].heardBy
  BY <1>2, <1>3 DEF Handle
<1> QED
  BY <1>1, <1>2, <1>5, <1>6 DEF Steady

-----------------------------------------------------------------------------
(* The calls *)

LEMMA CncNewStep ==
    ASSUME ObjectsOK, NEW m \in Cnc, CncNew(m) \/ CncOpenAllUnread(m)
    PROVE  ObjectsOK' /\ Told'
<1>1. PICK p \in Object : /\ Become(m, p) /\ p.connection = NoHandle /\ ~p.connected
                          /\ ~p.inherited /\ ~p.error_clbk_connected
  <2>1. \A b \in BOOLEAN : [held |-> b, managers |-> FALSE, config |-> {},
               connection |-> NoHandle, connected |-> FALSE, inherited |-> FALSE,
               pattern |-> {}, error_clbk_connected |-> FALSE, loghandler |-> FALSE] \in Object
    BY ConnectionsAssumption DEF Object, NoHandle
  <2>2. CASE CncNew(m)
    BY <2>1, <2>2 DEF CncNew
  <2>3. CASE CncOpenAllUnread(m)
    BY <2>1, <2>3 DEF CncOpenAllUnread
  <2> QED
    BY <2>2, <2>3
<1>2. /\ cnc[m] = {} /\ m \notin dead /\ UNCHANGED <<handle, logs, tx, dead>> /\ said' = {}
      /\ Counted
  BY DEF CncNew, CncOpenAllUnread, Live
<1>3. Points' /\ Buried' /\ Logged' /\ Owned' /\ Heard'
  BY <1>1, <1>2, NewStep
<1>4. cnc' \in [Cnc -> SUBSET Object] /\ \A k \in Cnc : AtMostOne(cnc'[k])
  BY <1>1, Became DEF ObjectsOK
<1>5. ConnectionsTypeOK'
  BY <1>2, <1>4, StepTypes, ObjectTypes, SameTx, Silent DEF ObjectsOK
<1> QED
  BY <1>2, <1>3, <1>5, Silent DEF ObjectsOK

LEMMA CncCloseStep ==
    ASSUME ObjectsOK, NEW m \in Cnc, CncClose(m)
    PROVE  ObjectsOK' /\ Told'
<1>1. PICK o \in cnc[m] : /\ Counted /\ ~Dangles(m) /\ o.connection # NoHandle
                          /\ handle' = Closed(o.connection, m)
                          /\ Become(m, [o EXCEPT !.connected = FALSE])
                          /\ said' = {} /\ UNCHANGED <<logs, tx, dead>>
  BY DEF CncClose
<1>2. PICK p : p = [o EXCEPT !.connected = FALSE]
  OBVIOUS
<1>3. Like(o, p) /\ ~p.connected
  BY <1>2, PointClauses DEF Like, Object, PointsOf
<1>4. Steady(m, o, p)
  BY <1>1, <1>3, ClosedHandle
<1> QED
  BY <1>1, <1>2, <1>3, <1>4, SteadyAction, SameTx, Silent

LEMMA CncReopenStep ==
    ASSUME ObjectsOK, NEW m \in Cnc, CncReopen(m)
    PROVE  ObjectsOK' /\ Told'
<1>1. PICK o \in cnc[m] :
        /\ Counted /\ ~Dangles(m) /\ o.connection # NoHandle
        /\ \/ UNCHANGED <<cnc, handle>>
           \/ handle' = Closed(o.connection, m) /\ Become(m, [o EXCEPT !.connected = FALSE])
           \/ /\ handle' = [Opened(o.connection) EXCEPT ![o.connection].begun = {}]
              /\ Become(m, [o EXCEPT !.connected = TRUE])
        /\ said' = {} /\ UNCHANGED <<logs, tx, dead>>
  BY DEF CncReopen
<1>2. o \in Object /\ cnc[m] = {o} /\ PointsOf(m, o) /\ cnc \in [Cnc -> SUBSET Object]
  BY PointClauses, ObjectTypes DEF ObjectsOK
<1>3. \E p : Become(m, p) /\ Like(o, p) /\ Steady(m, o, p)
  <2>1. CASE UNCHANGED <<cnc, handle>>
    <3>1. Become(m, o)
      BY <1>2, <2>1 DEF Become
    <3>2. Like(o, o)
      BY <1>2 DEF Like, PointsOf
    <3> QED
      BY <2>1, <3>1, <3>2, SameHandle
  <2>2. CASE handle' = Closed(o.connection, m) /\ Become(m, [o EXCEPT !.connected = FALSE])
    <3>1. PICK p : p = [o EXCEPT !.connected = FALSE]
      OBVIOUS
    <3>2. Like(o, p) /\ ~p.connected
      BY <1>2, <3>1 DEF Like, Object
    <3> QED
      BY <1>1, <2>2, <3>1, <3>2, ClosedHandle
  <2>3. CASE /\ handle' = [Opened(o.connection) EXCEPT ![o.connection].begun = {}]
             /\ Become(m, [o EXCEPT !.connected = TRUE])
    <3>1. PICK p : p = [o EXCEPT !.connected = TRUE]
      OBVIOUS
    <3>2. Like(o, p)
      BY <1>1, <1>2, <3>1 DEF Like, Object
    <3> QED
      BY <1>1, <2>3, <3>1, <3>2, OpenedHandle
  <2> QED
    BY <1>1, <2>1, <2>2, <2>3
<1> QED
  BY <1>1, <1>3, SteadyAction, SameTx, Silent

LEMMA CncGetManagerStep ==
    ASSUME ObjectsOK, NEW m \in Cnc, CncGetManager(m)
    PROVE  ObjectsOK' /\ Told'
<1>1. PICK o \in cnc[m] : /\ Counted /\ Become(m, [o EXCEPT !.managers = TRUE])
                          /\ said' = {} /\ UNCHANGED <<handle, logs, tx, dead>>
  BY DEF CncGetManager
<1>2. PICK p : p = [o EXCEPT !.managers = TRUE]
  OBVIOUS
<1>3. Like(o, p) /\ p.connected = o.connected
  BY <1>2, PointClauses DEF Like, Object, PointsOf
<1> QED
  BY <1>1, <1>2, <1>3, SameHandle, SteadyAction, SameTx, Silent

LEMMA CncSetLoglevelStep ==
    ASSUME ObjectsOK, NEW m \in Cnc, CncSetLoglevel(m)
    PROVE  ObjectsOK' /\ Told'
<1>1. PICK o \in cnc[m] : /\ Counted /\ Become(m, [o EXCEPT !.loghandler = TRUE])
                          /\ said' = {} /\ UNCHANGED <<handle, tx, dead>> /\ logs' = Handled(m)
  BY DEF CncSetLoglevel
<1>2. PICK p : p = [o EXCEPT !.loghandler = TRUE]
  OBVIOUS
<1>3. Like(o, p) /\ p.connected = o.connected /\ p.loghandler
  BY <1>2, PointClauses DEF Like, Object, PointsOf
<1> QED
  BY <1>1, <1>2, <1>3, SameHandle, SteadyAction, SameTx, Silent

LEMMA TxNewStep ==
    ASSUME ObjectsOK, NEW t \in Transaction, NEW m \in Cnc, TxNew(t, m)
    PROVE  ObjectsOK' /\ Told'
<1>1. PICK o \in cnc[m] : /\ Counted /\ tx' = [tx EXCEPT ![t] = {m}]
                          /\ said' = {} /\ UNCHANGED <<cnc, handle, logs, dead>>
  BY DEF TxNew
<1>2. o \in Object /\ cnc[m] = {o} /\ PointsOf(m, o) /\ cnc \in [Cnc -> SUBSET Object]
  BY PointClauses, ObjectTypes DEF ObjectsOK
<1>3. Become(m, o) /\ Like(o, o)
  BY <1>1, <1>2 DEF Become, Like, PointsOf
<1>4. tx' \in [Transaction -> SUBSET Cnc] /\ \A u \in Transaction : AtMostOne(tx'[u])
  BY <1>1, OtherTx DEF AtMostOne
<1> QED
  BY <1>1, <1>3, <1>4, SameHandle, SteadyAction, Silent

LEMMA TxBegunStep ==
    ASSUME ObjectsOK, NEW t \in Transaction, TxBegin(t) \/ TxEnd(t)
    PROVE  ObjectsOK' /\ Told'
<1>1. PICK m \in tx[t] : \E o \in cnc[m] :
        /\ Counted /\ o.connection # NoHandle
        /\ \E B \in SUBSET Transaction : handle' = [handle EXCEPT ![o.connection].begun = B]
        /\ said' = {} /\ UNCHANGED <<cnc, logs, tx, dead>>
  <2>1. {t} \in SUBSET Transaction /\ {} \in SUBSET Transaction
    OBVIOUS
  <2> QED
    BY <2>1 DEF TxBegin, TxEnd
<1>2. m \in Cnc
  BY ObjectTypes DEF ObjectsOK
<1>3. PICK o \in cnc[m] :
        /\ Counted /\ o.connection # NoHandle
        /\ \E B \in SUBSET Transaction : handle' = [handle EXCEPT ![o.connection].begun = B]
        /\ said' = {} /\ UNCHANGED <<cnc, logs, tx, dead>>
  BY <1>1
<1>4. o \in Object /\ cnc[m] = {o} /\ PointsOf(m, o) /\ cnc \in [Cnc -> SUBSET Object]
  BY <1>2, PointClauses, ObjectTypes DEF ObjectsOK
<1>5. Become(m, o) /\ Like(o, o)
  BY <1>2, <1>3, <1>4 DEF Become, Like, PointsOf
<1>6. Steady(m, o, o)
  BY <1>2, <1>3, BegunHandle
<1> QED
  BY <1>2, <1>3, <1>5, <1>6, SteadyAction, SameTx, Silent

\* A connection is opened of a configuration that is the object's, or is not.
LEMMA ConfiguredStep ==
    ASSUME ObjectsOK, Counted, NEW m \in Cnc, NEW o \in cnc[m], NEW c \in Config,
           OpenConfigured(m, [o EXCEPT !.config = {c}]), UNCHANGED <<tx, dead>>
    PROVE  ObjectsOK' /\ Told'
<1>1. o \in Object /\ cnc[m] = {o} /\ handle \in Seq(Handle) /\ Len(handle) \in Nat
  BY PointClauses, ObjectTypes DEF ObjectsOK
<1>2. PICK q \in Object : q = [o EXCEPT !.config = {c}]
  BY <1>1 DEF Object
<1>3. /\ q.connection = o.connection /\ q.connected = o.connected /\ q.inherited = o.inherited
      /\ q.error_clbk_connected = o.error_clbk_connected /\ q.loghandler = o.loghandler
  BY <1>1, <1>2 DEF Object
<1>4. logs' = Handled(m) /\ OpenConfigured(m, q)
  BY <1>2 DEF OpenConfigured
<1>5. CASE Become(m, [q EXCEPT !.loghandler = TRUE]) /\ Answer(m, FALSE) /\ UNCHANGED handle
  <2>1. PICK p : p = [q EXCEPT !.loghandler = TRUE]
    OBVIOUS
  <2>2. Like(o, p) /\ p.connected = o.connected /\ p.loghandler
    BY <1>2, <1>3, <2>1, PointClauses DEF Like, Object, PointsOf
  <2>3. Steady(m, o, p)
    BY <1>5, <2>2, SameHandle
  <2> QED
    BY <1>4, <1>5, <2>1, <2>2, <2>3, SteadyAction, SameTx, Answered
<1>6. ASSUME NEW H, H = Len(handle) + 1, NEW new,
             new = [state |-> "open", owner |-> m, kept |-> q.inherited,
                    closedBy |-> {}, heardBy |-> {}, begun |-> {}],
             Len(handle) < MaxHandles, handle' = Connect(Append(handle, new), H, q, m),
             Become(m, [q EXCEPT !.connection = H, !.connected = TRUE,
                                 !.error_clbk_connected = TRUE, !.loghandler = TRUE]),
             Answer(m, TRUE)
      PROVE  ObjectsOK' /\ Told'
  <2>1. PICK p : p = [q EXCEPT !.connection = H, !.connected = TRUE,
                               !.error_clbk_connected = TRUE, !.loghandler = TRUE]
    OBVIOUS
  <2>2. /\ p \in Object /\ p.connection = H /\ p.error_clbk_connected /\ p.loghandler
        /\ p.inherited = q.inherited /\ p.connected
    <3>1. H \in 0 .. MaxHandles
      BY <1>1, <1>6, ConnectionsAssumption
    <3> QED
      BY <1>2, <2>1, <3>1 DEF Object
  <2>3. PICK r \in Handle : /\ handle' = Append(handle, r) /\ r.state = "open" /\ r.owner = m
                            /\ r.kept = q.inherited /\ r.heardBy \subseteq {m}
    <3>1. new \in Handle
      BY <1>2, <1>6 DEF Handle, Object
    <3>2. CASE q.error_clbk_connected
      BY <1>6, <3>1, <3>2 DEF Connect
    <3>3. CASE ~q.error_clbk_connected
      <4>1. PICK r \in Handle : r = [new EXCEPT !.heardBy = @ \cup {m}]
        BY <3>1 DEF Handle
      <4>2. PICK A : A = Append(handle, new)
        OBVIOUS
      <4>3. /\ A \in Seq(Handle) /\ Len(A) = H /\ A[H] = new
            /\ \A h \in 1 .. Len(handle) : A[h] = handle[h]
        BY <1>1, <1>6, <3>1, <4>2, AppendProperties
      <4>4. handle' = [A EXCEPT ![H].heardBy = @ \cup {m}]
        BY <1>6, <3>3, <4>2 DEF Connect
      <4>5. handle' = [A EXCEPT ![H] = r]
        BY <4>1, <4>3, <4>4
      <4>6. handle' = Append(handle, r)
        <5>1. PICK C : C = Append(handle, r)
          OBVIOUS
        <5>2. /\ C \in Seq(Handle) /\ Len(C) = H /\ C[H] = r
              /\ \A h \in 1 .. Len(handle) : C[h] = handle[h]
          BY <1>1, <1>6, <5>1, AppendProperties
        <5>3. /\ handle' \in Seq(Handle) /\ Len(handle') = H /\ handle'[H] = r
              /\ \A h \in 1 .. Len(handle) : handle'[h] = handle[h]
          <6>1. H \in 1 .. Len(A) /\ \A h \in 1 .. Len(handle) : h \in 1 .. Len(A) /\ h # H
            BY <1>1, <1>6, <4>3
          <6>2. PICK D : D = [A EXCEPT ![H] = r]
            OBVIOUS
          <6>3. D \in Seq(Handle) /\ Len(D) = Len(A)
            BY <4>3, <6>1, <6>2, ExceptSeq
          <6>4. D[H] = r /\ \A h \in 1 .. Len(handle) : D[h] = A[h]
            BY <4>3, <6>1, <6>2
          <6> QED
            BY <4>3, <4>5, <6>2, <6>3, <6>4
        <5>4. \A h \in 1 .. H : h = H \/ h \in 1 .. Len(handle)
          BY <1>1, <1>6
        <5>5. handle' = C
          BY <5>2, <5>3, <5>4, SeqEqual
        <5> QED
          BY <5>1, <5>5
      <4> QED
        BY <1>6, <4>1, <4>6
    <3> QED
      BY <3>2, <3>3
  <2>4. Points' /\ Buried' /\ Logged' /\ Owned' /\ Heard' /\ handle' \in Seq(Handle)
    BY <1>4, <1>6, <2>1, <2>2, <2>3, OpenedStep
  <2>5. cnc'[m] = {p} /\ cnc' \in [Cnc -> SUBSET Object] /\ \A k \in Cnc : AtMostOne(cnc'[k])
    BY <1>6, <2>1, <2>2, Became DEF ObjectsOK
  <2>6. Len(handle') =< MaxHandles /\ Len(handle') = H /\ handle'[H] = r
    BY <1>1, <1>6, <2>3, ConnectionsAssumption, AppendProperties
  <2>7. logs' \subseteq Cnc /\ dead' \subseteq Cnc
    BY <1>4, ObjectTypes DEF ObjectsOK, Handled
  <2>8. said' \subseteq [cnc : Cnc, ok : BOOLEAN, known : BOOLEAN] /\ AtMostOne(said')
    BY <1>6, Answered
  <2>9. ConnectionsTypeOK'
    BY <2>4, <2>5, <2>6, <2>7, <2>8, SameTx, StepTypes DEF ObjectsOK
  <2>10. H # NoHandle
    BY <1>1, <1>6 DEF NoHandle
  <2>11. Told'
    BY <1>6, <2>2, <2>3, <2>5, <2>6, <2>10, Answered
  <2> QED
    BY <2>4, <2>9, <2>11 DEF ObjectsOK
<1> QED
  BY <1>4, <1>5, <1>6 DEF OpenConfigured

LEMMA CncOpenStep ==
    ASSUME ObjectsOK, NEW m \in Cnc, NEW c \in Config, NEW same \in BOOLEAN, CncOpen(m, c, same)
    PROVE  ObjectsOK' /\ Told'
<1>1. PICK o \in cnc[m] :
        /\ Counted /\ ~Dangles(m)
        /\ \/ ReopenFails(m, o)
           \/ MustReopen(o) /\ Reopened(m, o) /\ HasConfig(m, o, c, same)
           \/ ~MustReopen(o) /\ HasConfig(m, o, c, same) /\ UNCHANGED <<cnc, handle>>
           \/ o.config = {} /\ OpenConfigured(m, [o EXCEPT !.config = {c}])
           \/ o.config = {} /\ ~same /\ Answer(m, FALSE) /\ UNCHANGED <<cnc, handle, logs>>
        /\ UNCHANGED <<tx, dead>>
  BY DEF CncOpen
<1>2. o \in Object /\ cnc[m] = {o} /\ PointsOf(m, o) /\ cnc \in [Cnc -> SUBSET Object]
  BY PointClauses, ObjectTypes DEF ObjectsOK
<1>3. ASSUME UNCHANGED cnc PROVE Become(m, o) /\ Like(o, o)
  BY <1>2, <1>3 DEF Become, Like, PointsOf
<1>4. ASSUME Answer(m, FALSE), UNCHANGED <<cnc, handle, logs>> PROVE ObjectsOK' /\ Told'
  BY <1>1, <1>3, <1>4, SameHandle, SteadyAction, SameTx, Answered
<1>5. ASSUME HasConfig(m, o, c, same)
      PROVE  /\ logs' = logs /\ said' \subseteq [cnc : Cnc, ok : BOOLEAN, known : BOOLEAN]
             /\ AtMostOne(said')
             /\ \A a \in said' : a.cnc = m /\ (a.ok => a.known)
  <2>1. CASE AnswerKnown(m)
    <3>1. said' = {[cnc |-> m, ok |-> TRUE, known |-> TRUE]}
      BY <2>1 DEF AnswerKnown
    <3> QED
      BY <1>5, <3>1 DEF HasConfig, AtMostOne
  <2>2. CASE Answer(m, FALSE)
    <3>1. said' = {[cnc |-> m, ok |-> FALSE, known |-> FALSE]}
      BY <2>2 DEF Answer
    <3> QED
      BY <1>5, <3>1 DEF HasConfig, AtMostOne
  <2> QED
    BY <1>5, <2>1, <2>2 DEF HasConfig
<1>6. CASE MustReopen(o) /\ Reopened(m, o) /\ HasConfig(m, o, c, same)
  <2>1. PICK p : p = [o EXCEPT !.connected = TRUE]
    OBVIOUS
  <2>2. o.connection # NoHandle /\ Become(m, p) /\ handle' = Opened(o.connection)
    BY <1>6, <2>1 DEF MustReopen, Reopened
  <2>3. Like(o, p) /\ p \in Object /\ p.connection = o.connection
    BY <1>2, <2>1, <2>2 DEF Like, Object
  <2>4. Steady(m, o, p)
    BY <1>1, <2>2, OpenedHandle
  <2>5. ObjectsOK'
    BY <1>1, <1>5, <1>6, <2>2, <2>3, <2>4, SteadyAction, SameTx
  <2>6. handle'[o.connection].state = "open"
    <3>1. /\ o.connection \in DOMAIN handle /\ handle[o.connection] \in Handle
          /\ handle \in Seq(Handle)
      BY <2>2, PointedTo, ObjectTypes DEF ObjectsOK
    <3> QED
      BY <2>2, <3>1 DEF Opened, Handle
  <2>7. cnc'[m] = {p}
    BY <2>2, <2>3, Became DEF ObjectsOK
  <2>8. Told'
    BY <1>5, <1>6, <2>2, <2>3, <2>6, <2>7 DEF Told
  <2> QED
    BY <2>5, <2>8
<1>7. CASE ~MustReopen(o) /\ HasConfig(m, o, c, same) /\ UNCHANGED <<cnc, handle>>
  <2>1. ObjectsOK'
    BY <1>1, <1>3, <1>5, <1>7, SameHandle, SteadyAction, SameTx
  <2>2. \/ o.connection = NoHandle
        \/ /\ o.connection # NoHandle
           /\ \/ handle[o.connection].state = "open"
              \/ handle[o.connection].closedBy \notin {{}, {m}}
    <3>1. ASSUME o.connection # NoHandle
          PROVE  \/ handle[o.connection].state = "open"
                 \/ handle[o.connection].closedBy \notin {{}, {m}}
      <4>1. o.connected
        BY <1>7, <3>1 DEF MustReopen
      <4>2. /\ o.connection \in DOMAIN handle /\ handle[o.connection] \in Handle
            /\ handle[o.connection].state # "freed"
        BY <1>1, <3>1, PointedTo
      <4>3. handle[o.connection].state \in {"open", "closed"}
        BY <4>2 DEF Handle
      <4>4. handle[o.connection].state = "closed" => handle[o.connection].closedBy # {m}
        BY <1>2, <4>1 DEF PointsOf
      <4>5. handle[o.connection].state = "closed" => handle[o.connection].closedBy # {}
        BY <4>2, HandleClauses DEF OwnedBy
      <4> QED
        BY <4>3, <4>4, <4>5
    <3> QED
      BY <3>1
  <2>3. cnc' = cnc /\ handle' = handle
    BY <1>7
  <2>4. Told'
    BY <1>2, <1>5, <1>7, <2>2, <2>3 DEF Told
  <2> QED
    BY <2>1, <2>4
<1>8. CASE o.config = {} /\ OpenConfigured(m, [o EXCEPT !.config = {c}])
  BY <1>1, <1>8, ConfiguredStep
<1> QED
  BY <1>1, <1>4, <1>6, <1>7, <1>8 DEF ReopenFails

LEMMA CncStructOpenStep ==
    ASSUME ObjectsOK, NEW m \in Cnc, NEW c \in Config, CncStructOpen(m, c)
    PROVE  ObjectsOK' /\ Told'
BY ConfiguredStep DEF CncStructOpen

LEMMA CncCopyStep ==
    ASSUME ObjectsOK, NEW m \in Cnc, NEW n \in Cnc, CncCopy(m, n)
    PROVE  ObjectsOK' /\ Told'
<1>1. PICK o \in cnc[m] :
        /\ Counted /\ ~Dangles(m) /\ o.connection # NoHandle
        /\ ~Live(n) /\ n \notin dead
        /\ cnc' = [cnc EXCEPT ![n] = {[CopyOf(o, m) EXCEPT !.error_clbk_connected = TRUE]},
                              ![m] = {[o EXCEPT !.error_clbk_connected = FALSE]}]
        /\ handle' = [Disconnect(handle, o, m) EXCEPT ![o.connection].heardBy = @ \cup {n}]
        /\ said' = {} /\ UNCHANGED <<logs, tx, dead>>
  BY DEF CncCopy
<1>2. PICK g \in DOMAIN handle : g = o.connection
  BY <1>1, PointedTo
<1>3. /\ o \in Object /\ handle[g] \in Handle /\ handle[g].state # "freed"
      /\ handle \in Seq(Handle) /\ cnc[n] = {}
  BY <1>1, <1>2, PointedTo, ObjectTypes DEF ObjectsOK, Live
<1>4. PICK p \in Object : p = [o EXCEPT !.error_clbk_connected = FALSE]
  BY <1>3 DEF Object
<1>5. PICK q \in Object : q = [CopyOf(o, m) EXCEPT !.error_clbk_connected = TRUE]
  BY <1>3 DEF Object, CopyOf
<1>6. /\ q.connection = g /\ q.inherited /\ ~q.connected /\ q.error_clbk_connected
  BY <1>2, <1>3, <1>5 DEF Object, CopyOf
<1>7. PICK r \in Handle :
        /\ handle' = [handle EXCEPT ![g] = r]
        /\ r.state = handle[g].state /\ r.owner = handle[g].owner /\ r.kept = handle[g].kept
        /\ r.closedBy = handle[g].closedBy /\ r.heardBy \subseteq handle[g].heardBy \cup {n}
        /\ o.error_clbk_connected => m \notin r.heardBy
  <2>1. m # n
    BY <1>3, PointClauses
  <2>2. CASE o.error_clbk_connected
    <3>1. PICK r \in Handle : r = [handle[g] EXCEPT !.heardBy = (@ \ {m}) \cup {n}]
      BY <1>3 DEF Handle
    <3>2. handle' = [handle EXCEPT ![g] = r]
      BY <1>1, <1>2, <1>3, <2>2, <3>1 DEF Disconnect
    <3> QED
      BY <1>3, <2>1, <3>1, <3>2 DEF Handle
  <2>3. CASE ~o.error_clbk_connected
    <3>1. PICK r \in Handle : r = [handle[g] EXCEPT !.heardBy = @ \cup {n}]
      BY <1>3 DEF Handle
    <3>2. handle' = [handle EXCEPT ![g] = r]
      BY <1>1, <1>2, <1>3, <2>3, <3>1 DEF Disconnect
    <3> QED
      BY <1>3, <2>3, <3>1, <3>2 DEF Handle
  <2> QED
    BY <2>2, <2>3
<1>8. /\ Points' /\ Buried' /\ Logged' /\ Owned' /\ Heard'
      /\ cnc' \in [Cnc -> SUBSET Object] /\ (\A k \in Cnc : AtMostOne(cnc'[k]))
      /\ handle' \in Seq(Handle) /\ Len(handle') = Len(handle)
  <2>1. cnc' = [cnc EXCEPT ![n] = {q}, ![m] = {p}]
    BY <1>1, <1>4, <1>5
  <2> QED
    <3>1. n \notin dead /\ UNCHANGED <<logs, dead>>
      BY <1>1
    <3>2. o.connection = g /\ g \in DOMAIN handle /\ r \in Handle /\ p \in Object /\ q \in Object
      BY <1>2
    <3> QED
      BY <1>3, <1>4, <1>6, <1>7, <2>1, <3>1, <3>2, CopiedStep
<1>9. ConnectionsTypeOK'
  BY <1>1, <1>8, StepTypes, ObjectTypes, SameTx, Silent DEF ObjectsOK
<1> QED
  BY <1>1, <1>8, <1>9, Silent DEF ObjectsOK

LEMMA ReleasedStep ==
    ASSUME ObjectsOK, Counted, NEW m \in Cnc, NEW o \in cnc[m], NEW p \in Object, NEW T,
           p = o \/ p = [o EXCEPT !.held = FALSE], Released(m, p, T), said' = {},
           tx' \in [Transaction -> SUBSET Cnc], \A t \in Transaction : AtMostOne(tx'[t])
    PROVE  ObjectsOK' /\ Told'
<1>1. /\ o \in Object /\ PointsOf(m, o) /\ handle \in Seq(Handle) /\ logs \subseteq Cnc
      /\ dead \subseteq Cnc
  BY PointClauses, ObjectTypes DEF ObjectsOK
<1>2. /\ p.connection = o.connection /\ p.inherited = o.inherited /\ p.connected = o.connected
      /\ p.error_clbk_connected = o.error_clbk_connected /\ p.loghandler = o.loghandler
  BY <1>1 DEF Object
<1>3. CASE Become(m, p) /\ UNCHANGED <<handle, logs, dead>>
  <2>1. Like(o, p)
    BY <1>1, <1>2 DEF Like, PointsOf
  <2>2. Steady(m, o, p)
    BY <1>2, <1>3, SameHandle
  <2> QED
    BY <1>3, <2>1, <2>2, SteadyAction, Silent
<1>4. CASE Finalized(m, p)
  <2>1. /\ cnc' = [cnc EXCEPT ![m] = {}] /\ dead' = dead \cup {m}
        /\ logs' = (IF o.loghandler THEN logs \ {m} ELSE logs)
    BY <1>2, <1>4 DEF Finalized
  <2>2. PICK hs : /\ hs = IF Dangles(m) THEN handle ELSE Disconnect(handle, p, m)
                  /\ handle' = IF o.inherited \/ o.connection = NoHandle THEN hs
                               ELSE [hs EXCEPT ![o.connection].state = "freed"]
    BY <1>2, <1>4 DEF Finalized
  <2>3. /\ hs \in Seq(Handle) /\ Len(hs) = Len(handle)
        /\ \A h \in DOMAIN handle :
               /\ hs[h].owner = handle[h].owner /\ hs[h].kept = handle[h].kept
               /\ hs[h].closedBy = handle[h].closedBy /\ hs[h].state = handle[h].state
               /\ hs[h].heardBy \subseteq handle[h].heardBy
               /\ (h = o.connection /\ o.error_clbk_connected /\ handle[h].state # "freed") =>
                      m \notin hs[h].heardBy
    <3>1. ASSUME o.error_clbk_connected, ~Dangles(m), NEW g \in DOMAIN handle, g = o.connection
          PROVE  <2>3!:
      <4>1. handle[g] \in Handle
        BY ObjectTypes DEF ObjectsOK
      <4>2. PICK r \in Handle : r = [handle[g] EXCEPT !.heardBy = @ \ {m}]
        BY <4>1 DEF Handle
      <4>3. hs = [handle EXCEPT ![g] = r]
        BY <1>1, <1>2, <2>2, <3>1, <4>2 DEF Disconnect
      <4>4. /\ r.owner = handle[g].owner /\ r.kept = handle[g].kept
            /\ r.closedBy = handle[g].closedBy /\ r.state = handle[g].state
            /\ r.heardBy = handle[g].heardBy \ {m}
        BY <4>1, <4>2 DEF Handle
      <4>5. /\ hs \in Seq(Handle) /\ Len(hs) = Len(handle) /\ hs[g] = r
            /\ \A h \in DOMAIN handle \ {g} : hs[h] = handle[h]
        BY <1>1, <4>3
      <4> QED
        BY <3>1, <4>4, <4>5
    <3>2. ASSUME o.error_clbk_connected
          PROVE  o.connection \in DOMAIN handle /\ o.connection # NoHandle
      BY <1>1, <3>2, PointedTo DEF PointsOf
    <3>3. CASE Dangles(m)
      <4>1. hs = handle
        BY <2>2, <3>3
      <4>2. handle[o.connection].state = "freed"
        BY <3>3, ObjectTypes DEF Dangles, ObjectsOK
      <4> QED
        BY <1>1, <4>1, <4>2
    <3>4. CASE ~Dangles(m) /\ ~o.error_clbk_connected
      <4>1. hs = handle
        BY <1>2, <2>2, <3>4 DEF Disconnect
      <4> QED
        BY <1>1, <3>4, <4>1
    <3> QED
      BY <3>1, <3>2, <3>3, <3>4
  <2>4. DOMAIN hs = DOMAIN handle
    BY <1>1, <2>3
  <2>5. /\ handle' \in Seq(Handle) /\ Len(handle') = Len(handle)
        /\ \A h \in DOMAIN handle :
               /\ handle'[h].owner = hs[h].owner /\ handle'[h].kept = hs[h].kept
               /\ handle'[h].closedBy = hs[h].closedBy
               /\ \/ handle'[h].state = hs[h].state /\ (h = o.connection => o.inherited)
                  \/ handle'[h].state = hs[h].state /\ h # o.connection
                  \/ handle'[h].state = "freed" /\ h = o.connection /\ ~o.inherited
               /\ handle'[h].heardBy = hs[h].heardBy
    <3>1. CASE o.inherited \/ o.connection = NoHandle
      <4>1. \A h \in DOMAIN handle : h # NoHandle
        BY <1>1 DEF NoHandle
      <4> QED
        BY <2>2, <2>3, <3>1, <4>1
    <3>2. CASE ~o.inherited /\ o.connection # NoHandle
      <4>1. PICK g \in DOMAIN handle : g = o.connection
        BY <3>2, PointedTo
      <4>2. hs[g] \in Handle
        BY <2>3, <2>4
      <4>3. PICK r \in Handle : r = [hs[g] EXCEPT !.state = "freed"]
        BY <4>2 DEF Handle
      <4>4. handle' = [hs EXCEPT ![g] = r]
        BY <2>2, <3>2, <4>1, <4>3
      <4>5. /\ r.owner = hs[g].owner /\ r.kept = hs[g].kept
            /\ r.closedBy = hs[g].closedBy /\ r.state = "freed"
            /\ r.heardBy = hs[g].heardBy
        BY <4>2, <4>3 DEF Handle
      <4>6. /\ handle' \in Seq(Handle) /\ Len(handle') = Len(handle) /\ handle'[g] = r
            /\ \A h \in DOMAIN handle \ {g} : handle'[h] = hs[h]
        BY <2>3, <2>4, <4>4
      <4> QED
        BY <3>2, <4>1, <4>5, <4>6
    <3> QED
      BY <3>1, <3>2
  <2>6. /\ Points' /\ Buried' /\ Logged' /\ Owned' /\ Heard'
        /\ cnc' \in [Cnc -> SUBSET Object] /\ (\A k \in Cnc : AtMostOne(cnc'[k]))
    <3>1. \A h \in DOMAIN handle :
               /\ handle'[h].owner = handle[h].owner /\ handle'[h].kept = handle[h].kept
               /\ handle'[h].closedBy = handle[h].closedBy
               /\ \/ handle'[h].state = handle[h].state
                     /\ (h = o.connection => o.inherited)
                  \/ handle'[h].state = handle[h].state /\ h # o.connection
                  \/ handle'[h].state = "freed" /\ h = o.connection /\ ~o.inherited
               /\ handle'[h].heardBy \subseteq handle[h].heardBy
               /\ (h = o.connection /\ o.error_clbk_connected /\ handle[h].state # "freed") =>
                      m \notin handle'[h].heardBy
      BY <2>3, <2>5
    <3> QED
      BY <2>1, <2>5, <3>1, FreedStep
  <2>7. Len(handle') =< MaxHandles /\ logs' \subseteq Cnc /\ dead' \subseteq Cnc
    BY <1>1, <2>1, <2>5, ObjectTypes DEF ObjectsOK
  <2>8. ConnectionsTypeOK'
    BY <2>5, <2>6, <2>7, StepTypes, Silent DEF ObjectsOK
  <2> QED
    BY <2>6, <2>8, Silent DEF ObjectsOK
<1> QED
  BY <1>3, <1>4 DEF Released

LEMMA CncUnrefStep ==
    ASSUME ObjectsOK, NEW m \in Cnc, CncUnref(m)
    PROVE  ObjectsOK' /\ Told'
<1>1. PICK o \in cnc[m] : /\ Counted /\ Released(m, [o EXCEPT !.held = FALSE], tx)
                          /\ said' = {} /\ UNCHANGED tx
  BY DEF CncUnref
<1>2. PICK p \in Object : p = [o EXCEPT !.held = FALSE]
  <2>1. o \in Object
    BY PointClauses
  <2> QED
    BY <2>1 DEF Object
<1> QED
  BY <1>1, <1>2, ReleasedStep, SameTx

LEMMA TxFreeStep ==
    ASSUME ObjectsOK, NEW t \in Transaction, TxFree(t)
    PROVE  ObjectsOK' /\ Told'
<1>1. PICK m \in tx[t] : \E o \in cnc[m] :
          Counted /\ tx' = [tx EXCEPT ![t] = {}] /\ Released(m, o, tx') /\ said' = {}
  BY DEF TxFree
<1>2. m \in Cnc
  BY ObjectTypes DEF ObjectsOK
<1>3. PICK o \in cnc[m] :
          Counted /\ tx' = [tx EXCEPT ![t] = {}] /\ Released(m, o, tx') /\ said' = {}
  BY <1>1
<1>4. o \in Object
  BY <1>2, PointClauses
<1>5. tx' \in [Transaction -> SUBSET Cnc] /\ \A u \in Transaction : AtMostOne(tx'[u])
  BY <1>3, OtherTx DEF AtMostOne
<1> QED
  BY <1>2, <1>3, <1>4, <1>5, ReleasedStep

LEMMA ObjectsInit == CncInit => ObjectsOK /\ Told
<1> SUFFICES ASSUME CncInit PROVE ObjectsOK /\ Told
  OBVIOUS
<1>1. /\ cnc = [m \in Cnc |-> {}] /\ handle = <<>> /\ logs = {}
      /\ tx = [t \in Transaction |-> {}] /\ said = {} /\ dead = {} /\ cncCalls = 0
  BY DEF CncInit
<1>2. ConnectionsTypeOK
  BY <1>1, ConnectionsAssumption DEF ConnectionsTypeOK, AtMostOne
<1>3. Points /\ Buried /\ Logged /\ Told
  BY <1>1 DEF Points, Buried, Logged, Told
<1>4. DOMAIN handle = {}
  BY <1>1
<1>5. Owned /\ Heard
  BY <1>4 DEF Owned, Heard
<1> QED
  BY <1>2, <1>3, <1>5 DEF ObjectsOK

LEMMA ObjectsStep == ObjectsOK /\ Told /\ [CncNext]_cncVars => ObjectsOK' /\ Told'
<1> SUFFICES ASSUME ObjectsOK, Told, [CncNext]_cncVars PROVE ObjectsOK' /\ Told'
  OBVIOUS
<1>1. CASE \E m \in Cnc : \/ CncNew(m) \/ CncOpenAllUnread(m)
                         \/ CncClose(m) \/ CncReopen(m) \/ CncGetManager(m)
                         \/ CncSetLoglevel(m) \/ CncUnref(m)
  BY <1>1, CncNewStep, CncCloseStep, CncReopenStep, CncGetManagerStep, CncSetLoglevelStep,
     CncUnrefStep
<1>2. CASE \E m \in Cnc, c \in Config, same \in BOOLEAN : CncOpen(m, c, same)
  BY <1>2, CncOpenStep
<1>3. CASE \E m \in Cnc, c \in Config : CncStructOpen(m, c)
  BY <1>3, CncStructOpenStep
<1>4. CASE \E m, n \in Cnc : CncCopy(m, n)
  BY <1>4, CncCopyStep
<1>5. CASE \E t \in Transaction : \/ \E m \in Cnc : TxNew(t, m)
                                 \/ TxBegin(t) \/ TxEnd(t) \/ TxFree(t)
  BY <1>5, TxNewStep, TxBegunStep, TxFreeStep
<1>6. CASE UNCHANGED cncVars
  <2>1. /\ cnc' = cnc /\ handle' = handle /\ logs' = logs /\ tx' = tx /\ said' = said
        /\ dead' = dead /\ cncCalls' = cncCalls
    BY <1>6 DEF cncVars
  <2>2. ConnectionsTypeOK'
    BY <2>1 DEF ObjectsOK, ConnectionsTypeOK, AtMostOne
  <2>3. Points' /\ Buried' /\ Logged'
    BY <2>1 DEF ObjectsOK, Points, PointsOf, Buried, Logged
  <2>4. Owned'
    BY <2>1 DEF ObjectsOK, Owned, OwnedBy, Strayed
  <2>5. Heard'
    BY <2>1 DEF ObjectsOK, Heard, HeardOn, Strayed
  <2>6. Told'
    BY <2>1 DEF Told
  <2> QED
    BY <2>2, <2>3, <2>4, <2>5, <2>6 DEF ObjectsOK
<1> QED
  BY <1>1, <1>2, <1>3, <1>4, <1>5, <1>6 DEF CncNext

\* The values connection objects, libgda connections and transactions take.
THEOREM ConnectionsType == CncSpec => []ConnectionsTypeOK
<1>1. CncInit => ObjectsOK /\ Told
  BY ObjectsInit
<1>2. ObjectsOK /\ Told /\ [CncNext]_cncVars => ObjectsOK' /\ Told'
  BY ObjectsStep
<1>3. ObjectsOK => ConnectionsTypeOK
  BY DEF ObjectsOK
<1> QED
  BY <1>1, <1>2, <1>3, PTL DEF CncSpec

\* However connections are copied, closed, opened over and freed, log handlers
\* and callbacks that can be called point to connections that are there, and a
\* libgda connection is freed with who opened it (_midgard_connection_finalize and
\* midgard_connection_copy).
THEOREM PointersStay == CncSpec => []PointersHold
<1>1. CncInit => ObjectsOK /\ Told
  BY ObjectsInit
<1>2. ObjectsOK /\ Told /\ [CncNext]_cncVars => ObjectsOK' /\ Told'
  BY ObjectsStep
<1>3. ObjectsOK => PointersHold
  BY ObjectsOKTells
<1> QED
  BY <1>1, <1>2, <1>3, PTL DEF CncSpec

\* What open, open_from_file and open_config answer is so when they answer it, but
\* for the two cases OpenTells names, and who says it is connected is, or shares a
\* libgda connection somebody else has closed or freed.
THEOREM OpeningsTell == CncSpec => []OpenTells
<1>1. CncInit => ObjectsOK /\ Told
  BY ObjectsInit
<1>2. ObjectsOK /\ Told /\ [CncNext]_cncVars => ObjectsOK' /\ Told'
  BY ObjectsStep
<1>3. ObjectsOK /\ Told => OpenTells
  BY ObjectsOKTells
<1> QED
  BY <1>1, <1>2, <1>3, PTL DEF CncSpec
=============================================================================
