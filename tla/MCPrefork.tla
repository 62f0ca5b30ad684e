----------------------------- MODULE MCPrefork -----------------------------
(* A prefork server for TLC: the processes write an object of one class, or *)
(* keep the quota of a class, or make the tables, with no mutex in common;  *)
(* or one of them reads and saves its configuration.                        *)
EXTENDS MCObjectStore, Quota, Storage, Configuration

VARIABLE work   \* which of the four

preforkVars == <<work, vars, quotaVars, storageVars, cfgVars>>

\* Two classes of one table, one with a column of its own.
SharedTable == "basic" :> {"f1"} @@ "rich" :> {"f1", "f2"}

PreforkInit ==
    /\ work \in {"objects", "quota", "tables", "configuration"}
    /\ Init /\ QuotaInit /\ StorageInit /\ CfgInit
    /\ work # "configuration" => kind = "kept"
PreforkNext ==
    /\ UNCHANGED work
    /\ \/ work = "objects" /\ Next /\ UNCHANGED <<quotaVars, storageVars, cfgVars>>
       \/ work = "quota" /\ QuotaNext /\ UNCHANGED <<vars, storageVars, cfgVars>>
       \/ work = "tables" /\ StorageNext /\ UNCHANGED <<vars, quotaVars, cfgVars>>
       \/ work = "configuration" /\ CfgNext /\ UNCHANGED <<vars, quotaVars, storageVars>>
PreforkSpec == PreforkInit /\ [][PreforkNext]_preforkVars
=============================================================================
