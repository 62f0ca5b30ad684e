------------------------------ MODULE MCUsers ------------------------------
(* Small instances of Users and Connections for TLC: accounts and who is    *)
(* logged in where, or the connection objects themselves.                   *)
EXTENDS Users, Connections

VARIABLE side   \* which of the two

usersVars == <<side, vars, cncVars>>

UsersInit ==
    /\ side \in {"users", "connections"}
    /\ Init /\ CncInit
UsersNext ==
    /\ UNCHANGED side
    /\ \/ side = "users" /\ Next /\ UNCHANGED cncVars
       \/ side = "connections" /\ CncNext /\ UNCHANGED vars
UsersSpec ==
    /\ UsersInit /\ [][UsersNext]_usersVars
    /\ \A c \in Connection :
           /\ WF_usersVars(DisposeUser(c) /\ UNCHANGED <<side, cncVars>>)
           /\ WF_usersVars(Finalize(c) /\ UNCHANGED <<side, cncVars>>)
=============================================================================
