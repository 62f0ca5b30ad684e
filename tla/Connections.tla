---------------------------- MODULE Connections ----------------------------
(***************************************************************************)
(* MidgardConnection and MidgardTransaction: objects that open, close,     *)
(* reopen and copy libgda connections, and what refers to what when they   *)
(* are freed.                                                              *)
(*                                                                         *)
(* A copy takes the original's libgda connection and configuration without *)
(* a reference to either, and takes its error callback over.  Only an      *)
(* object that is not a copy frees the libgda connection it opened.  The   *)
(* managers a connection makes hold references to it, and it to them, so a *)
(* connection that was asked for one is never freed.  Log handlers and     *)
(* error callbacks hold bare pointers to connections.                      *)
(*                                                                         *)
(* The users of a connection, its workspace and the schema it registers    *)
(* are other modules'; a copy of a connection that has not been opened is  *)
(* left out (libgda is called with NULL then).                             *)
(***************************************************************************)
EXTENDS Naturals, Sequences, FiniteSets

CONSTANTS
    Cnc,            \* connection objects; a name is used once
    Config,         \* configurations, told apart by database, type and host
    Transaction,    \* transaction objects
    Reconnects,     \* whether the databases are MySQL's, which reopen tries again
    MaxHandles,     \* bound: libgda connections opened
    MaxCncCalls     \* bound: calls made

ASSUME ConnectionsAssumption ==
    Reconnects \in BOOLEAN /\ MaxHandles \in Nat /\ MaxCncCalls \in Nat

VARIABLES
    cnc,        \* {} before an object is made and after it is freed, or one record
    handle,     \* the libgda connections, in the order they were opened
    logs,       \* the connections log handlers point to, one for each
    tx,         \* {} or one record of a transaction object
    said,       \* the last answer: {} or one record
    dead,       \* objects that were freed
    cncCalls

cncVars == <<cnc, handle, logs, tx, said, dead, cncCalls>>

NoHandle == 0

Object == [held : BOOLEAN, managers : BOOLEAN, config : SUBSET Config,
           connection : 0 .. MaxHandles, connected : BOOLEAN,
           inherited : BOOLEAN, pattern : SUBSET Cnc,
           error_clbk_connected : BOOLEAN, loghandler : BOOLEAN]

Handle == [state : {"open", "closed", "freed"}, owner : Cnc, kept : BOOLEAN,
           closedBy : SUBSET Cnc, heardBy : SUBSET Cnc, begun : SUBSET Transaction]

AtMostOne(S) == \A x, y \in S : x = y

ConnectionsTypeOK ==
    /\ cnc \in [Cnc -> SUBSET Object] /\ \A m \in Cnc : AtMostOne(cnc[m])
    /\ handle \in Seq(Handle) /\ Len(handle) =< MaxHandles
    /\ logs \subseteq Cnc
    /\ tx \in [Transaction -> SUBSET Cnc] /\ \A t \in Transaction : AtMostOne(tx[t])
    /\ said \subseteq [cnc : Cnc, ok : BOOLEAN, known : BOOLEAN] /\ AtMostOne(said)
    /\ dead \subseteq Cnc /\ cncCalls \in 0 .. MaxCncCalls

-----------------------------------------------------------------------------
Live(m) == cnc[m] # {}

\* Whether the libgda connection an object points to was freed under it.
Dangles(m) == \E o \in cnc[m] :
    o.connection # NoHandle /\ handle[o.connection].state = "freed"

Counted == cncCalls < MaxCncCalls /\ cncCalls' = cncCalls + 1

Become(m, o) == cnc' = [cnc EXCEPT ![m] = {o}]
Answer(m, ok) == said' = {[cnc |-> m, ok |-> ok, known |-> FALSE]}
AnswerKnown(m) == said' = {[cnc |-> m, ok |-> TRUE, known |-> TRUE]}

Opened(h) == [handle EXCEPT ![h].state = "open", ![h].closedBy = {}]
Closed(h, m) == [handle EXCEPT ![h].state = "closed", ![h].closedBy = {m}, ![h].begun = {}]

\* midgard_core_connection_connect_error_callback does nothing when the flag is
\* set, whichever libgda connection the callback is on.
Connect(hs, h, o, m) == IF o.error_clbk_connected THEN hs
                        ELSE [hs EXCEPT ![h].heardBy = @ \cup {m}]
Disconnect(hs, o, m) == IF o.error_clbk_connected
                        THEN [hs EXCEPT ![o.connection].heardBy = @ \ {m}] ELSE hs

\* midgard_connection_set_loglevel: the handler the connection has is replaced.
Handled(m) == logs \cup {m}

-----------------------------------------------------------------------------
CncNew(m) ==
    /\ Counted /\ ~Live(m) /\ m \notin dead
    /\ Become(m, [held |-> TRUE, managers |-> FALSE, config |-> {},
               connection |-> NoHandle, connected |-> FALSE, inherited |-> FALSE,
               pattern |-> {}, error_clbk_connected |-> FALSE, loghandler |-> FALSE])
    /\ said' = {} /\ UNCHANGED <<handle, logs, tx, dead>>

\* Mutant of MustReopen: a connection that is there is taken for open.
MustReopen_Never(o) == FALSE

\* __SELF_REOPEN, when it has something to do: libgda opens a connection that
\* is open already without another word.
MustReopen(o) == ~o.connected /\ o.connection # NoHandle

ReopenFails(m, o) ==
    /\ MustReopen(o) /\ handle[o.connection].state = "closed"
    /\ Answer(m, FALSE) /\ UNCHANGED <<cnc, handle, logs>>

\* __midgard_connection_open, of a configuration that is already the object's.
OpenConfigured(m, o) ==
    /\ logs' = Handled(m)
    /\ \/ /\ Len(handle) < MaxHandles
          /\ LET h == Len(handle) + 1
                 new == [state |-> "open", owner |-> m, kept |-> o.inherited,
                         closedBy |-> {}, heardBy |-> {}, begun |-> {}]
             IN  /\ handle' = Connect(Append(handle, new), h, o, m)
                 /\ Become(m, [o EXCEPT !.connection = h, !.connected = TRUE,
                                     !.error_clbk_connected = TRUE, !.loghandler = TRUE])
          /\ Answer(m, TRUE)
       \/ /\ Become(m, [o EXCEPT !.loghandler = TRUE])
          /\ Answer(m, FALSE) /\ UNCHANGED handle

\* What open, open_from_file and open_config answer an object that has a
\* configuration, whether or not the opening that set it succeeded.
HasConfig(m, o, c, same) ==
    /\ o.config # {} /\ UNCHANGED logs
    /\ IF same /\ c \in o.config THEN AnswerKnown(m) ELSE Answer(m, FALSE)

Reopened(m, o) ==
    Become(m, [o EXCEPT !.connected = TRUE]) /\ handle' = Opened(o.connection)

\* midgard_connection_open and _open_from_file (same = FALSE), where the file may
\* not be read, and midgard_connection_open_config (same = TRUE), which takes a
\* configuration of the same database for the object's own.
CncOpen(m, c, same) == \E o \in cnc[m] :
    /\ Counted /\ o.held /\ ~Dangles(m)
    /\ \/ ReopenFails(m, o)
       \/ MustReopen(o) /\ Reopened(m, o) /\ HasConfig(m, o, c, same)
       \/ ~MustReopen(o) /\ HasConfig(m, o, c, same) /\ UNCHANGED <<cnc, handle>>
       \/ o.config = {} /\ OpenConfigured(m, [o EXCEPT !.config = {c}])
       \/ o.config = {} /\ ~same /\ Answer(m, FALSE) /\ UNCHANGED <<cnc, handle, logs>>
    /\ UNCHANGED <<tx, dead>>

\* midgard_connection_struct_open_config asks nothing: what the object had open
\* stays open, and nobody's.
CncStructOpen(m, c) == \E o \in cnc[m] :
    /\ Counted /\ o.held /\ OpenConfigured(m, [o EXCEPT !.config = {c}])
    /\ UNCHANGED <<tx, dead>>

\* midgard_connection_open_all, for one of its files: an object whose file can
\* not be read is left behind with no reference of anyone's but its own.
CncOpenAllUnread(m) ==
    /\ Counted /\ ~Live(m) /\ m \notin dead
    /\ Become(m, [held |-> FALSE, managers |-> FALSE, config |-> {},
               connection |-> NoHandle, connected |-> FALSE, inherited |-> FALSE,
               pattern |-> {}, error_clbk_connected |-> FALSE, loghandler |-> FALSE])
    /\ said' = {} /\ UNCHANGED <<handle, logs, tx, dead>>

CncClose(m) == \E o \in cnc[m] :
    /\ Counted /\ o.held /\ ~Dangles(m) /\ o.connection # NoHandle
    /\ handle' = Closed(o.connection, m)
    /\ Become(m, [o EXCEPT !.connected = FALSE])
    /\ said' = {} /\ UNCHANGED <<logs, tx, dead>>

\* midgard_connection_reopen, when its SELECT fails: only MySQL's connections
\* are closed and opened again, ten times at most.
CncReopen(m) == \E o \in cnc[m] :
    /\ Counted /\ o.held /\ ~Dangles(m) /\ o.connection # NoHandle
    /\ \/ UNCHANGED <<cnc, handle>>
       \/ /\ Reconnects
          /\ \/ handle' = Closed(o.connection, m) /\ Become(m, [o EXCEPT !.connected = FALSE])
             \/ /\ handle' = [Opened(o.connection) EXCEPT ![o.connection].begun = {}]
                /\ Become(m, [o EXCEPT !.connected = TRUE])
    /\ said' = {} /\ UNCHANGED <<logs, tx, dead>>

\* Mutant of CopyOf: a copy frees what it was given.
CopyOf_Owns(o, m) == [o EXCEPT !.held = TRUE, !.managers = FALSE, !.connected = FALSE,
                          !.pattern = {m}, !.loghandler = FALSE]

\* The members midgard_connection_copy sets, and those a new object has.
CopyOf(o, m) == [o EXCEPT !.held = TRUE, !.managers = FALSE, !.connected = FALSE,
                          !.inherited = TRUE, !.pattern = {m}, !.loghandler = FALSE]

CncCopy(m, n) == \E o \in cnc[m] :
    /\ Counted /\ o.held /\ ~Dangles(m) /\ o.connection # NoHandle
    /\ ~Live(n) /\ n \notin dead
    /\ cnc' = [cnc EXCEPT ![n] = {[CopyOf(o, m) EXCEPT !.error_clbk_connected = TRUE]},
                          ![m] = {[o EXCEPT !.error_clbk_connected = FALSE]}]
    /\ handle' = [Disconnect(handle, o, m) EXCEPT ![o.connection].heardBy = @ \cup {n}]
    /\ said' = {} /\ UNCHANGED <<logs, tx, dead>>

\* midgard_connection_get_content_manager and _get_workspace_manager.
CncGetManager(m) == \E o \in cnc[m] :
    /\ Counted /\ o.held /\ ~o.managers
    /\ Become(m, [o EXCEPT !.managers = TRUE])
    /\ said' = {} /\ UNCHANGED <<handle, logs, tx, dead>>

CncSetLoglevel(m) == \E o \in cnc[m] :
    /\ Counted /\ o.held /\ logs' = Handled(m)
    /\ Become(m, [o EXCEPT !.loghandler = TRUE])
    /\ said' = {} /\ UNCHANGED <<handle, tx, dead>>

-----------------------------------------------------------------------------
(* References *)

\* _midgard_connection_dispose and _finalize.  A copy takes its callback off
\* even when the original has freed the libgda connection it is on.
Finalized(m, o) ==
    /\ cnc' = [cnc EXCEPT ![m] = {}] /\ dead' = dead \cup {m}
    /\ logs' = (IF o.loghandler THEN logs \ {m} ELSE logs)
    /\ LET hs == IF Dangles(m) THEN handle ELSE Disconnect(handle, o, m)
       IN  handle' = IF o.inherited \/ o.connection = NoHandle THEN hs
                     ELSE [hs EXCEPT ![o.connection].state = "freed"]

\* The last reference gone; the managers' never go.
Released(m, o, txs) ==
    IF o.held \/ o.managers \/ \E t \in Transaction : m \in txs[t]
    THEN Become(m, o) /\ UNCHANGED <<handle, logs, dead>>
    ELSE Finalized(m, o)

CncUnref(m) == \E o \in cnc[m] :
    /\ Counted /\ o.held /\ Released(m, [o EXCEPT !.held = FALSE], tx)
    /\ said' = {} /\ UNCHANGED tx

TxNew(t, m) == \E o \in cnc[m] :
    /\ Counted /\ o.held /\ tx[t] = {} /\ tx' = [tx EXCEPT ![t] = {m}]
    /\ said' = {} /\ UNCHANGED <<cnc, handle, logs, dead>>

\* midgard_transaction_begin, _commit and _rollback, on a libgda connection
\* that takes one transaction at a time; they answer FALSE else.
TxBegin(t) == \E m \in tx[t] : \E o \in cnc[m] :
    /\ Counted /\ o.connection # NoHandle /\ ~Dangles(m)
    /\ handle[o.connection].state = "open" /\ handle[o.connection].begun = {}
    /\ handle' = [handle EXCEPT ![o.connection].begun = {t}]
    /\ said' = {} /\ UNCHANGED <<cnc, logs, tx, dead>>

TxEnd(t) == \E m \in tx[t] : \E o \in cnc[m] :
    /\ Counted /\ o.connection # NoHandle /\ ~Dangles(m)
    /\ t \in handle[o.connection].begun
    /\ handle' = [handle EXCEPT ![o.connection].begun = {}]
    /\ said' = {} /\ UNCHANGED <<cnc, logs, tx, dead>>

\* Freeing a transaction does not end it: it only lets its connection go.
TxFree(t) == \E m \in tx[t] : \E o \in cnc[m] :
    /\ Counted /\ tx' = [tx EXCEPT ![t] = {}] /\ Released(m, o, tx')
    /\ said' = {}

CncInit ==
    /\ cnc = [m \in Cnc |-> {}] /\ handle = <<>> /\ logs = {}
    /\ tx = [t \in Transaction |-> {}] /\ said = {} /\ dead = {} /\ cncCalls = 0

CncNext ==
    \/ \E m \in Cnc : \/ CncNew(m) \/ CncOpenAllUnread(m)
                      \/ CncClose(m) \/ CncReopen(m) \/ CncGetManager(m)
                      \/ CncSetLoglevel(m) \/ CncUnref(m)
    \/ \E m \in Cnc, c \in Config, same \in BOOLEAN : CncOpen(m, c, same)
    \/ \E m \in Cnc, c \in Config : CncStructOpen(m, c)
    \/ \E m, n \in Cnc : CncCopy(m, n)
    \/ \E t \in Transaction : \/ \E m \in Cnc : TxNew(t, m)
                              \/ TxBegin(t) \/ TxEnd(t) \/ TxFree(t)

CncSpec == CncInit /\ [][CncNext]_cncVars

-----------------------------------------------------------------------------
\* An object that opened another libgda connection after h (struct_open_config).
Strayed(m, h) == \E k \in (h + 1) .. Len(handle) : handle[k].owner = m

\* Who is called back is there: log handlers and error callbacks carry bare
\* pointers to connections, and every one that can still be called points to a
\* connection that is not freed; but for the callback of a connection that has
\* opened another libgda connection since, which nothing takes off again (midgard_connection.c,
\* 897 and midgard_core_connection.c, 262).
CallbacksLive ==
    /\ \A m \in logs : Live(m)
    /\ \A h \in DOMAIN handle : handle[h].state # "freed" =>
           \A m \in handle[h].heardBy : Live(m) \/ Strayed(m, h)

\* A libgda connection is freed with the object that opened it and not before:
\* only copies are left pointing to a freed one, and what outlives its object
\* was opened over, or opened by a copy.
HandlesOwned ==
    \A h \in DOMAIN handle :
        /\ handle[h].state = "freed" => handle[h].owner \in dead
        /\ (handle[h].state # "freed" /\ handle[h].owner \in dead) =>
               Strayed(handle[h].owner, h) \/ handle[h].kept
        /\ \A m \in Cnc : \A o \in cnc[m] :
               o.connection = h /\ handle[h].state = "freed" => o.inherited

\* However copies, their originals and what they share are closed and freed, no
\* pointer that is used again is left to what is gone, but for those to
\* freed originals and strayed handles above.
PointersHold == CallbacksLive /\ HandlesOwned

\* An object that says it is connected has an open libgda connection, unless
\* another object that shares it has closed it: no signal tells the others.
ConnectedIsOpen ==
    \A m \in Cnc : \A o \in cnc[m] :
        o.connected =>
            \/ handle[o.connection].state = "open"
            \/ handle[o.connection].state = "closed" /\ handle[o.connection].closedBy # {m}
            \/ Dangles(m) /\ o.inherited

\* What a call of open says is so when it says it: TRUE only of an open libgda
\* connection, and the object says no other after.  Except to who gives the
\* configuration a second time: open_config answers TRUE though the first opening
\* failed, and though another object that shares the libgda connection has closed
\* it (midgard_connection.c, 842-849).
OpenTells ==
    /\ ConnectedIsOpen
    /\ \A a \in said : a.ok =>
           \E o \in cnc[a.cnc] :
               \/ o.connection # NoHandle /\ handle[o.connection].state = "open"
               \/ /\ a.known
                  /\ \/ o.connection = NoHandle
                     \/ handle[o.connection].closedBy \notin {{}, {a.cnc}}
=============================================================================
