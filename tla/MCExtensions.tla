---------------------------- MODULE MCExtensions ----------------------------
(* Small instances of ObjectLock, Parameters and Attachments for TLC: the   *)
(* programs sign an object, or set its parameters, or attach files to it.   *)
EXTENDS ObjectLock, Parameters, Attachments

VARIABLE side   \* which of the three

extVars == <<side, vars, paramVars, attVars>>

ExtInit ==
    /\ side \in {"lock", "parameters", "attachments"}
    /\ Init /\ ParamsInit /\ AttsInit
    /\ side # "lock" => user = [c \in Caller |-> CHOOSE n \in Name : TRUE]
ExtNext ==
    /\ UNCHANGED side
    /\ \/ side = "lock" /\ Next /\ UNCHANGED <<paramVars, attVars>>
       \/ side = "parameters" /\ ParamsNext /\ UNCHANGED <<vars, attVars>>
       \/ side = "attachments" /\ AttsNext /\ UNCHANGED <<vars, paramVars>>
ExtSpec ==
    /\ ExtInit /\ [][ExtNext]_extVars
    /\ \A k \in Keeper : WF_attVars(AttStep(k) /\ UNCHANGED <<side, vars, paramVars>>)
=============================================================================
