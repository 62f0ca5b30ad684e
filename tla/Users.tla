------------------------------- MODULE Users -------------------------------
(***************************************************************************)
(* Users (midgard_user.c) and who is logged in (midgard_connection.c).     *)
(* A row of the table midgard_user has a guid, a login and a type of       *)
(* authentication; nothing but the library keeps the pair of the last two  *)
(* unique.  A connection has a current user and an "authstack" of those    *)
(* who logged in, and both keep references to the instances in them.       *)
(*                                                                         *)
(* Every connection is used by a process of its own.  A step is one SQL    *)
(* statement with the code before and after it.  Left out: passwords, the  *)
(* user's type and person, which no call below reads, set_active, and      *)
(* lookups of authentication types in what was read at the start.          *)
(***************************************************************************)
EXTENDS Naturals, Sequences, FiniteSets

CONSTANTS
    Connection,
    Name,       \* pairs of a login and an authentication type
    Accounts,   \* how many accounts there are at the start
    MaxGuid,    \* bound: accounts ever created
    MaxUser,    \* bound: MidgardUser objects made by all processes
    MaxCalls,   \* bound: calls made on all connections
    Nobody,     \* NULL, where a connection could be
    Unused,     \* no row has had this guid yet
    Gone        \* the row was deleted

ASSUME NumberAssumption ==
    Accounts \in Nat /\ MaxGuid \in Nat /\ MaxUser \in Nat /\ MaxCalls \in Nat
ASSUME NothingAssumption ==
    /\ Nobody \notin Connection /\ Name # {}
    /\ Unused \notin Name /\ Gone \notin Name /\ Unused # Gone

\* Guids in the order in which they are generated; 0 is none.
Guid == 1 .. MaxGuid
NoGuid == 0

\* MidgardUser objects in memory, in the order in which they are made; the
\* pointer NULL is 0.
Instance == 1 .. MaxUser
NoUser == 0

\* An instance: its connection, or Nobody before it is made; its guid and its
\* login; whether the program holds a reference; the flag is_logged.
User == [of : Connection \cup {Nobody}, guid : Guid \cup {NoGuid}, name : Name,
         held : BOOLEAN, logged : BOOLEAN]

\* midgard_connection_new, dispose, finalize.
Phase == {"open", "closing", "closed"}

\* A create or an update between its check and its statement.  "heard": the
\* check's SELECT was answered.  "late" is history: the rows written since.
Call == [op : {"create", "update"}, at : Instance, heard : BOOLEAN, late : SUBSET Guid]

VARIABLES
    table,   \* midgard_user: the name in each row
    user,    \* the instances
    refs,    \* the reference count of each instance
    current, \* priv->user of each connection
    stack,   \* priv->authstack of each connection
    phase,   \* of each connection
    call,    \* the calls in progress
    answer,  \* what the last create or update of a connection returned
    calls    \* how many calls were made

session == <<current, stack, phase>>
vars == <<table, user, refs, current, stack, phase, call, answer, calls>>

Used(i) == user[i].of # Nobody
Occurs(i, s) == Cardinality({k \in DOMAIN s : s[k] = i})

TypeOK ==
    /\ table \in [Guid -> Name \cup {Unused, Gone}]
    /\ user \in [Instance -> User]
    /\ refs \in [Instance -> Nat]
    /\ current \in [Connection -> Instance \cup {NoUser}]
    /\ stack \in [Connection -> Seq(Instance)]
    /\ phase \in [Connection -> Phase]
    /\ call \in [Connection -> {{}} \cup {{m} : m \in Call}]
    /\ answer \in [Connection -> {"none", "stored", "failed"}]
    /\ calls \in 0 .. MaxCalls
    /\ \A c \in Connection : \A m \in call[c] :
          /\ phase[c] = "open" /\ user[m.at].of = c
          /\ (user[m.at].guid = NoGuid) = (m.op = "create")

Rows(n) == {g \in Guid : table[g] = n}

\* One call at a time on a connection.
Calling(c) ==
    /\ phase[c] = "open" /\ call[c] = {}
    /\ calls < MaxCalls /\ calls' = calls + 1
    /\ answer' = [answer EXCEPT ![c] = "none"]

\* The program calls with an instance it has a reference to, or with the one
\* that midgard_connection_get_user returns.
Has(c, i) == user[i].of = c /\ (user[i].held \/ current[c] = i)

\* Everybody between a check and a statement learns that row g was written.
Late(g, cs) == [c \in Connection |-> {[m EXCEPT !.late = @ \cup {g}] : m \in cs[c]}]

(***************************************************************************)
(* Instances                                                               *)
(***************************************************************************)
Made(c, i, g, n) ==
    /\ ~Used(i) /\ \A j \in 1 .. i - 1 : Used(j)
    /\ user' = [user EXCEPT ![i] =
            [of |-> c, guid |-> g, name |-> n, held |-> TRUE, logged |-> FALSE]]
    /\ refs' = [refs EXCEPT ![i] = 1]

\* midgard_user_new without parameters, and the login and authtype set.
New(c) == \E i \in Instance, n \in Name :
    /\ Calling(c) /\ Made(c, i, NoGuid, n)
    /\ UNCHANGED <<table, session, call>>

\* midgard_user_get: of several rows it warns, and takes the first; which one
\* that is, is up to the database.
Get(c) == \E i \in Instance, n \in Name : \E g \in Rows(n) :
    /\ Calling(c) /\ Made(c, i, g, n)
    /\ UNCHANGED <<table, session, call>>

\* The last reference of the program goes.  An instance with the flag logs
\* out when it is finalized.
Drop(c) == \E i \in Instance :
    /\ Calling(c) /\ user[i].of = c /\ user[i].held
    /\ user' = [user EXCEPT ![i].held = FALSE]
    /\ refs' = [refs EXCEPT ![i] = @ - 1]
    /\ UNCHANGED <<table, session, call>>

(***************************************************************************)
(* create, update and delete                                               *)
(***************************************************************************)
\* A check that fails to read finds nobody, like one that found nobody.
StartCreate(c) == \E i \in Instance, heard \in BOOLEAN :
    /\ Calling(c) /\ Has(c, i) /\ user[i].guid = NoGuid
    /\ IF heard /\ Rows(user[i].name) # {}
       THEN UNCHANGED call
       ELSE call' = [call EXCEPT ![c] =
                    {[op |-> "create", at |-> i, heard |-> heard, late |-> {}]}]
    /\ UNCHANGED <<table, user, refs, session>>

\* The INSERT.
Create(c) == \E m \in call[c], g \in Guid :
    /\ m.op = "create"
    /\ table[g] = Unused /\ \A h \in 1 .. g - 1 : table[h] # Unused
    /\ table' = [table EXCEPT ![g] = user[m.at].name]
    /\ user' = [user EXCEPT ![m.at].guid = g]
    /\ call' = Late(g, [call EXCEPT ![c] = {}])
    /\ answer' = [answer EXCEPT ![c] = "stored"]
    /\ UNCHANGED <<refs, session, calls>>

\* The INSERT fails: the instance has no guid again.
CreateFails(c) == \E m \in call[c] :
    /\ m.op = "create"
    /\ call' = [call EXCEPT ![c] = {}]
    /\ answer' = [answer EXCEPT ![c] = "failed"]
    /\ UNCHANGED <<table, user, refs, session, calls>>

\* midgard_user_update goes on when the user found is the one it updates.
Refuses(i, g) == g # user[i].guid

\* The name is set, and the check of an update made.
StartUpdate(c) == \E i \in Instance, n \in Name, heard \in BOOLEAN :
    /\ Calling(c) /\ Has(c, i) /\ user[i].guid # NoGuid
    /\ user' = [user EXCEPT ![i].name = n]
    /\ \/ /\ heard /\ \E g \in Rows(n) : Refuses(i, g)
          /\ UNCHANGED call
       \/ /\ heard /\ Rows(n) # {} => \E g \in Rows(n) : ~Refuses(i, g)
          /\ call' = [call EXCEPT ![c] =
                  {[op |-> "update", at |-> i, heard |-> heard, late |-> {}]}]
    /\ UNCHANGED <<table, refs, session>>

\* The UPDATE; of a row that is gone it changes nothing.
Update(c) == \E m \in call[c] :
    LET u == user[m.at] rest == [call EXCEPT ![c] = {}] IN
    /\ m.op = "update"
    /\ IF table[u.guid] \in Name
       THEN /\ table' = [table EXCEPT ![u.guid] = u.name]
            /\ call' = Late(u.guid, rest)
            /\ answer' = [answer EXCEPT ![c] = "stored"]
       ELSE /\ call' = rest
            /\ answer' = [answer EXCEPT ![c] = "failed"]
            /\ UNCHANGED table
    /\ UNCHANGED <<user, refs, session, calls>>

\* The UPDATE fails: update_dbobject_record returns -1, which is TRUE.
UpdateFails(c) == \E m \in call[c] :
    /\ m.op = "update"
    /\ call' = [call EXCEPT ![c] = {}]
    /\ answer' = [answer EXCEPT ![c] = "stored"]
    /\ UNCHANGED <<table, user, refs, session, calls>>

\* midgard_user_delete: the row goes, if it is there, and the instance's guid;
\* whoever is logged in stays so.
Delete(c) == \E i \in Instance :
    LET g == user[i].guid IN
    /\ Calling(c) /\ Has(c, i) /\ g # NoGuid
    /\ table' = [table EXCEPT ![g] = Gone]
    /\ user' = [user EXCEPT ![i].guid = NoGuid]
    /\ call' = Late(g, call)
    /\ UNCHANGED <<refs, session>>

(***************************************************************************)
(* log_in and log_out                                                      *)
(***************************************************************************)
\* Mutant of Entered: the authstack takes no reference of its own.
Entered_One(i) == [refs EXCEPT ![i] = @ + 1]

\* A reference for priv->user and one for the authstack; the one priv->user
\* had to somebody else is kept by nobody from now on.
Entered(i) == [refs EXCEPT ![i] = @ + 2]

\* Who is current already is not entered again.
LogIn(c) == \E i \in Instance :
    /\ Calling(c) /\ Has(c, i)
    /\ current[c] # i /\ user[i].guid # NoGuid
    /\ current' = [current EXCEPT ![c] = i]
    /\ stack' = [stack EXCEPT ![c] = Append(@, i)]
    /\ user' = [user EXCEPT ![i].logged = TRUE]
    /\ refs' = Entered(i)
    /\ UNCHANGED <<table, phase, call>>

\* g_slist_remove: the first occurrence.
Without(s, i) ==
    LET k == CHOOSE k \in DOMAIN s : s[k] = i /\ \A j \in 1 .. k - 1 : s[j] # i IN
    [j \in 1 .. Len(s) - 1 |-> IF j < k THEN s[j] ELSE s[j + 1]]

\* Mutant of NextUser: an empty stack leaves the user who logged out.
NextUser_Stays(s, i) == IF s = <<>> THEN i ELSE Head(s)

\* The one who logged in first is current again.
NextUser(s, i) == IF s = <<>> THEN NoUser ELSE Head(s)

\* Two references go, and the new priv->user gets one.
Left(i, n) ==
    [j \in Instance |-> refs[j] + (IF j = n THEN 1 ELSE 0) - (IF j = i THEN 2 ELSE 0)]

\* log_out of the current user; of another one, or without a stack, it fails.
Leave(c) ==
    LET i == current[c] rest == Without(stack[c], i) IN
    /\ i # NoUser /\ stack[c] # <<>>
    /\ stack' = [stack EXCEPT ![c] = rest]
    /\ current' = [current EXCEPT ![c] = NextUser(rest, i)]
    /\ user' = [user EXCEPT ![i].logged = FALSE]
    /\ refs' = Left(i, NextUser(rest, i))

LogOut(c) ==
    /\ Calling(c) /\ Leave(c)
    /\ UNCHANGED <<table, phase, call>>

\* The connection is disposed: users log out until there is none; when log_out
\* fails, an assertion does.
Dispose(c) ==
    /\ Calling(c)
    /\ phase' = [phase EXCEPT ![c] = "closing"]
    /\ UNCHANGED <<table, user, refs, current, stack, call>>

DisposeUser(c) ==
    /\ phase[c] = "closing" /\ Leave(c)
    /\ UNCHANGED <<table, phase, call, answer, calls>>

\* finalize frees the authstack.
Finalize(c) ==
    /\ phase[c] = "closing" /\ current[c] = NoUser
    /\ phase' = [phase EXCEPT ![c] = "closed"]
    /\ stack' = [stack EXCEPT ![c] = <<>>]
    /\ UNCHANGED <<table, user, refs, current, call, answer, calls>>

Next == \E c \in Connection :
    \/ New(c) \/ Get(c) \/ Drop(c)
    \/ StartCreate(c) \/ Create(c) \/ CreateFails(c)
    \/ StartUpdate(c) \/ Update(c) \/ UpdateFails(c)
    \/ Delete(c)
    \/ LogIn(c) \/ LogOut(c)
    \/ Dispose(c) \/ DisposeUser(c) \/ Finalize(c)

\* The accounts that are there have different names.
Init ==
    /\ table \in [Guid -> Name \cup {Unused}] /\ \A g, h \in Guid :
          /\ table[g] = Unused <=> g > Accounts
          /\ g # h /\ table[g] = table[h] => table[g] = Unused
    /\ user = [i \in Instance |-> [of |-> Nobody, guid |-> NoGuid,
            name |-> CHOOSE n \in Name : TRUE, held |-> FALSE, logged |-> FALSE]]
    /\ refs = [i \in Instance |-> 0]
    /\ current = [c \in Connection |-> NoUser]
    /\ stack = [c \in Connection |-> <<>>]
    /\ phase = [c \in Connection |-> "open"]
    /\ call = [c \in Connection |-> {}]
    /\ answer = [c \in Connection |-> "none"]
    /\ calls = 0

\* dispose is a loop of one thread.
Spec ==
    /\ Init /\ [][Next]_vars
    /\ \A c \in Connection : WF_vars(DisposeUser(c)) /\ WF_vars(Finalize(c))

(***************************************************************************)
(* Properties                                                              *)
(***************************************************************************)
\* log_out and dispose rest on it: there is a current user exactly when the
\* authstack is not empty, and it is one of the stack; somebody whose flag
\* is_logged is set is in the stack of the instance's own connection.
StackSound ==
    /\ \A c \in Connection :
          /\ current[c] = NoUser <=> stack[c] = <<>>
          /\ current[c] # NoUser => Occurs(current[c], stack[c]) > 0
    /\ \A i \in Instance : user[i].logged => Occurs(i, stack[user[i].of]) > 0

\* No use of freed memory: an instance has a reference for the program, one
\* for every place in an authstack and one for being current.
Needed(i) ==
    IF ~Used(i) THEN 0
    ELSE (IF user[i].held THEN 1 ELSE 0) + Occurs(i, stack[user[i].of])
            + (IF current[user[i].of] = i THEN 1 ELSE 0)

ReferencesCover == \A i \in Instance : refs[i] >= Needed(i)

\* Both, after any sequence of log_in, log_out, dropping and disposing: nobody is
\* logged in whose instance is freed, and log_out takes out who is there
\* (midgard_user.c, 763-849).
StackHolds == StackSound /\ ReferencesCover

\* "User with such login and authentication type already exists" (midgard_user.c
\* 387): two rows come to have one name only by a call whose check was not
\* answered, or after whose check one of the rows was written.
Same(g, h) == g # h /\ table[g] = table[h] /\ table[g] \in Name

TwinsRaced == [][\A g, h \in Guid :
    (Same(g, h)' /\ ~Same(g, h)) => \E c \in Connection : \E m \in call[c] :
        call'[c] = {} /\ (~m.heard \/ {g, h} \cap m.late # {})]_vars

\* A connection that is disposed of logs everybody out and is freed.
DisposeEnds == \A c \in Connection :
    phase[c] = "closing" ~> (phase[c] = "closed" /\ \A i \in Instance :
        user[i].of = c => ~user[i].logged)

\* "Failed to update storage record ( MGD_ERR_INTERNAL )" is a case to return
\* FALSE (midgard_user.c 524).
UpdateAnswers == [][\A c \in Connection : \A m \in call[c] :
    (call'[c] = {} /\ answer'[c] = "stored") =>
        table'[user'[m.at].guid] = user'[m.at].name]_vars

=============================================================================
