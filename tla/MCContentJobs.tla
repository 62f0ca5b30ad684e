--------------------------- MODULE MCContentJobs ---------------------------
(* Small instances of ContentJobs and SqlSelect for TLC: what is behind a   *)
(* MidgardSqlContentManager, its jobs and the queries by columns.           *)
EXTENDS ContentJobs, SqlSelect

VARIABLE side   \* which of the two

\* Columns of two tables under three qualifiers, one of a class without a table
\* and one without a qualifier.
SqlColumn(table, as) == [table |-> table, as |-> as]
SqlColumns == {SqlColumn("a", "u"), SqlColumn("a", "w"), SqlColumn("b", "v"),
               SqlColumn("none", "x"), SqlColumn("b", "none")}
SqlJoins == {<<SqlColumn("a", "u"), SqlColumn("a", "w")>>,
             <<SqlColumn("a", "u"), SqlColumn("b", "v")>>}
SqlFilters == {SqlColumn("b", "v")}

OneJob == [kind |-> "load", content |-> TRUE, refers |-> TRUE]

SqlInit ==
    /\ side \in {"jobs", "query"}
    /\ Init /\ DataInit
    /\ side = "query" => job = [j \in Job |-> OneJob]
SqlNext ==
    /\ UNCHANGED side
    /\ \/ side = "jobs" /\ Next /\ UNCHANGED dataVars
       \/ side = "query" /\ DataNext /\ UNCHANGED vars

\* A step of the jobs, on its side.
OfJobs(A) == side = "jobs" /\ A /\ UNCHANGED <<side, dataVars>>
SqlSpec ==
    /\ SqlInit /\ [][SqlNext]_<<side, vars, dataVars>>
    /\ \A w \in Worker : WF_vars(OfJobs(WorkerStep(w)))
    /\ WF_vars(OfJobs(Inner(Main) \/ Return)) /\ WF_vars(OfJobs(Dispatch))
    /\ WF_vars(OfJobs(Drained)) /\ WF_vars(OfJobs(Waited))
=============================================================================
