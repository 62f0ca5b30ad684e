----------------------------- MODULE ObjectLock -----------------------------
(***************************************************************************)
(* Locks and approvals of an object (midgard_object.c 3324-3925,           *)
(* midgard_metadata.c).  Both are marks: a flag in the object's row and    *)
(* the guid of the person who set or took it away.  Callers share the row, *)
(* and each has an instance of its own that remembers both columns.        *)
(*                                                                         *)
(* lock and unlock, approve and unapprove ask for the mark in one SQL      *)
(* statement, or in none when the instance remembers an answer, and write  *)
(* it in another; no mutex and no transaction holds the two together.      *)
(* update writes every column from the instance, the marks too.            *)
(*                                                                         *)
(* A step is one SQL statement with the code before and after it.  Left    *)
(* out: dates, revisor and revision, signals, the log, workspaces, and     *)
(* classes without metadata, for which lock and unlock are refused.        *)
(***************************************************************************)
EXTENDS Naturals, FiniteSets

CONSTANTS
    Caller,     \* programs, each with a connection and an instance
    Person,     \* guids of persons
    NoPerson,   \* the empty string: a user of no person, or a mark never made
    Nobody,     \* no user is logged in
    Absent,     \* the object has no row
    MaxCalls    \* bound: calls made by all callers

ASSUME PersonAssumption == NoPerson \notin Person /\ Nobody \notin Person \cup {NoPerson}
ASSUME BoundAssumption == MaxCalls \in Nat

\* "lock" is islocked and locker, "approve" is isapproved and approver.
Mark == {"lock", "approve"}
Name == Person \cup {NoPerson}

\* The columns, by mark.
Columns == [is : [Mark -> BOOLEAN], by : [Mark -> Name]]
ASSUME AbsentAssumption == Absent \notin Columns

\* "set" is lock_is_set and approve_is_set; "new": it has no guid.
\* "seen" is history: which of the mark's changes "is" was read or written at.
Instance == [is : [Mark -> BOOLEAN], by : [Mark -> Name],
             set : [Mark -> BOOLEAN], new : BOOLEAN, seen : [Mark -> Nat]]

\* A call past its check: it will write mark "mark" as "on".  History:
\* whether its check was answered.
Call == [mark : Mark, on : BOOLEAN, heard : BOOLEAN]

VARIABLES
    row,       \* the object's row
    changed,   \* history: how often each mark was written
    inst,      \* the instance of each caller
    user,      \* who is logged in: a person's guid, NoPerson, or Nobody
    call,      \* {} or the {call} each caller is in
    signed,    \* history: who made or took away which mark
    calls      \* how many calls were made

vars == <<row, changed, inst, user, call, signed, calls>>

TypeOK ==
    /\ row \in Columns \cup {Absent}
    /\ changed \in [Mark -> Nat]
    /\ inst \in [Caller -> Instance]
    /\ user \in [Caller -> Name \cup {Nobody}]
    /\ call \in [Caller -> {{}} \cup {{k} : k \in Call}]
    /\ \A c \in Caller : call[c] # {} => user[c] \in Name
    /\ signed \subseteq Mark \X Name \X BOOLEAN
    /\ calls \in 0 .. MaxCalls

NoMarks == [m \in Mark |-> FALSE]
NoNames == [m \in Mark |-> NoPerson]

\* midgard_object_new without a guid.
New == [is |-> NoMarks, by |-> NoNames, set |-> NoMarks, new |-> TRUE,
        seen |-> [m \in Mark |-> 0]]

Stored == row # Absent
Found(c) == Stored /\ ~inst[c].new

Idle(c) == call[c] = {}
Calling == calls < MaxCalls /\ calls' = calls + 1

\* Every mark is written.
AllChanged == [m \in Mark |-> changed[m] + 1]

(***************************************************************************)
(* Users, and the calls that read or write whole rows                      *)
(***************************************************************************)
LogIn(c, u) ==
    /\ Idle(c) /\ u # user[c] /\ Calling
    /\ user' = [user EXCEPT ![c] = u]
    /\ UNCHANGED <<row, changed, inst, call, signed>>

\* Mutant of Stamped: the callback forgets the marks too.
Stamped_All(o) == [o EXCEPT !.by = NoNames, !.is = NoMarks]

\* _action_create_callback forgets who made the marks, not the marks.
Stamped(o) == [o EXCEPT !.by = NoNames]

\* A guid is used once: the row is created when nothing was ever written.
Create(c) ==
    LET o == Stamped(inst[c]) IN
    /\ Idle(c) /\ Calling /\ inst[c].new /\ \A m \in Mark : changed[m] = 0
    /\ row' = [is |-> o.is, by |-> o.by]
    /\ changed' = AllChanged
    /\ inst' = [inst EXCEPT ![c] = [o EXCEPT !.new = FALSE, !.seen = AllChanged]]
    /\ UNCHANGED <<user, call, signed>>

\* create of an instance that is in storage: MGD_ERR_DUPLICATE, after
\* action-create has been emitted.
CreateRefused(c) ==
    /\ Idle(c) /\ Calling /\ ~inst[c].new
    /\ inst' = [inst EXCEPT ![c] = Stamped(@)]
    /\ UNCHANGED <<row, changed, user, call, signed>>

\* midgard_object_new with a guid.
Fetch(c) ==
    /\ Idle(c) /\ Calling /\ Stored
    /\ inst' = [inst EXCEPT ![c] =
            [New EXCEPT !.is = row.is, !.by = row.by, !.new = FALSE, !.seen = changed]]
    /\ UNCHANGED <<row, changed, user, call, signed>>

\* get_by_guid and get_by_id read the row into the instance that is given:
\* it goes on to trust its flags.
Refetch(c) ==
    /\ Idle(c) /\ Calling /\ Stored
    /\ inst' = [inst EXCEPT ![c] =
            [@ EXCEPT !.is = row.is, !.by = row.by, !.new = FALSE, !.seen = changed]]
    /\ UNCHANGED <<row, changed, user, call, signed>>

\* midgard_object_update; of a purged object it finds nothing to update.
Update(c) ==
    /\ Idle(c) /\ Calling /\ Found(c)
    /\ row' = [is |-> inst[c].is, by |-> inst[c].by]
    /\ changed' = AllChanged
    /\ inst' = [inst EXCEPT ![c].seen = AllChanged]
    /\ UNCHANGED <<user, call, signed>>

Purge(c) ==
    /\ Idle(c) /\ Calling /\ Found(c)
    /\ row' = Absent
    /\ changed' = AllChanged
    /\ UNCHANGED <<inst, user, call, signed>>

(***************************************************************************)
(* is_locked and is_approved                                               *)
(***************************************************************************)
\* Mutant of Learnt: lock_is_set is set, is_locked is not.
Learnt_FlagOnly(o, m) == [o EXCEPT !.set[m] = TRUE, !.seen[m] = changed[m]]

\* The flag the SELECT read is kept, and never read again.
Learnt(o, m) ==
    [o EXCEPT !.is[m] = row.is[m], !.set[m] = TRUE, !.seen[m] = changed[m]]

\* What the caller is told: what the instance remembers or what the row
\* says ("heard"), or FALSE, not remembered, if the SELECT fails or finds no
\* row.
Asked(c, m, yes, heard) ==
    \/ /\ heard /\ inst[c].set[m] /\ inst[c].is[m] = yes
       /\ UNCHANGED inst
    \/ /\ heard /\ ~inst[c].set[m] /\ Found(c) /\ row.is[m] = yes
       /\ inst' = [inst EXCEPT ![c] = Learnt(@, m)]
    \/ /\ ~heard /\ ~inst[c].set[m] /\ ~yes
       /\ UNCHANGED inst

\* midgard_object_is_locked and midgard_object_is_approved, and a call to
\* change a mark that is refused for their answer.
Check(c, m) ==
    /\ Idle(c) /\ Calling
    /\ \E yes, heard \in BOOLEAN : Asked(c, m, yes, heard)
    /\ UNCHANGED <<row, changed, user, call, signed>>

(***************************************************************************)
(* lock and unlock, approve and unapprove                                  *)
(***************************************************************************)
\* MGD_ERR_ACCESS_DENIED, and MGD_ERR_INTERNAL for who is not a person.
Allowed(c, m) ==
    /\ user[c] # Nobody
    /\ m = "approve" => user[c] # NoPerson

\* Mutant of Start: nothing is asked.
Start_Blind(c, m, on) ==
    /\ Idle(c) /\ Calling /\ Allowed(c, m)
    /\ call' = [call EXCEPT ![c] = {[mark |-> m, on |-> on, heard |-> TRUE]}]
    /\ UNCHANGED <<row, changed, inst, user, signed>>

\* The mark is not yet what the call will make it, as the caller is told.
Start(c, m, on) == \E heard \in BOOLEAN :
    /\ Idle(c) /\ Calling /\ Allowed(c, m)
    /\ Asked(c, m, ~on, heard)
    /\ call' = [call EXCEPT ![c] = {[mark |-> m, on |-> on, heard |-> heard]}]
    /\ UNCHANGED <<row, changed, user, signed>>

\* The instance after a call that answers TRUE.
Marked(o, m, on, who, now) ==
    [o EXCEPT !.is[m] = on, !.by[m] = who, !.set[m] = TRUE, !.seen[m] = now]

\* midgard_core_query_update_object_fields: the mark's two columns, of
\* whatever row has the guid.  That there is none is a success.
Write(c) == \E k \in call[c] :
    LET m == k.mark
        now == IF Found(c) THEN changed[m] + 1 ELSE inst[c].seen[m]
    IN  /\ row' = IF Found(c)
                  THEN [row EXCEPT !.is[m] = k.on, !.by[m] = user[c]]
                  ELSE row
        /\ changed' = IF Found(c) THEN [changed EXCEPT ![m] = now] ELSE changed
        /\ inst' = [inst EXCEPT ![c] = Marked(@, m, k.on, user[c], now)]
        /\ signed' = signed \cup {<<m, user[c], k.on>>}
        /\ call' = [call EXCEPT ![c] = {}]
        /\ UNCHANGED <<user, calls>>

\* The UPDATE fails: FALSE, and the instance is left alone.
WriteFails(c) ==
    /\ ~Idle(c)
    /\ call' = [call EXCEPT ![c] = {}]
    /\ UNCHANGED <<row, changed, inst, user, signed, calls>>

Next == \E c \in Caller :
    \/ \E u \in Name \cup {Nobody} : LogIn(c, u)
    \/ Create(c) \/ CreateRefused(c) \/ Fetch(c) \/ Refetch(c)
    \/ Update(c) \/ Purge(c)
    \/ \E m \in Mark : Check(c, m) \/ \E on \in BOOLEAN : Start(c, m, on)
    \/ Write(c) \/ WriteFails(c)

Init ==
    /\ row = Absent
    /\ changed = [m \in Mark |-> 0]
    /\ inst = [c \in Caller |-> New]
    /\ user \in [Caller -> Name]
    /\ call = [c \in Caller |-> {}]
    /\ signed = {}
    /\ calls = 0

Spec == Init /\ [][Next]_vars

(***************************************************************************)
(* Properties                                                              *)
(***************************************************************************)
\* What an instance holds of a mark that nobody has written since it read or
\* wrote the mark itself is what the row says: no call, answered TRUE, FALSE
\* or broken off, leaves a flag behind that was never in the row.
FreshAgrees == \A c \in Caller, m \in Mark :
    (Found(c) /\ inst[c].seen[m] = changed[m]) => inst[c].is[m] = row.is[m]

\* Caller c answers TRUE to a call that sets mark m.
Grants(c, m) ==
    \E k \in call[c] : k.mark = m /\ k.on /\ k.heard /\ call'[c] = {} /\ inst'[c] # inst[c]

\* "Object is already locked (MGD_ERR_OBJECT_IS_LOCKED)" (midgard_object.c
\* 3629).  An object that is locked is locked once more only by a caller who has not
\* seen the lock: one whose flag is older, or who asked before the other
\* wrote.  (Or whose SELECT failed: that reads as not locked.)
TakenOnce == [][\A c \in Caller, m \in Mark :
    (Grants(c, m) /\ Found(c) /\ row.is[m]) => inst[c].seen[m] < changed[m]]_vars

\* A lock or an approval goes away only by a call that takes it away, or by
\* an update from an instance that has not seen it.
LostUnseen == [][\A m \in Mark :
    (Stored /\ Stored' /\ row.is[m] /\ ~row'.is[m]) => \E c \in Caller :
        /\ inst'[c] # inst[c]
        /\ \/ \E k \in call[c] : k.mark = m /\ ~k.on
           \/ inst[c].seen[m] < changed[m]]_vars

\* "Guid of the person who (un)locked object's record" (midgard_metadata.c
\* 710), whatever old columns updates bring back: who is named has locked or
\* unlocked the object some day.
NamesSigner == \A m \in Mark :
    (Stored /\ row.by[m] # NoPerson) =>
        \E on \in BOOLEAN : <<m, row.by[m], on>> \in signed

\* ... and of an object that is locked it is somebody who has locked it.
NamesLocker == \A m \in Mark :
    (Stored /\ row.is[m]) => <<m, row.by[m], TRUE>> \in signed

=============================================================================
