--------------------------- MODULE MCObjectStore ---------------------------
(***************************************************************************)
(* Instances of ObjectStore for TLC: a threaded server (all the threads in *)
(* one process) and a prefork server (a process for each thread).          *)
(***************************************************************************)
EXTENDS ObjectStore, TLC

CONSTANTS t1, t2, p1, p2

Threaded == [t \in {t1, t2} |-> p1]
Prefork == t1 :> p1 @@ t2 :> p2

ThreadedSymmetry == Permutations({t1, t2}) \cup Permutations(Guid)

\* A thread can only change places with its process.
Swap == t1 :> t2 @@ t2 :> t1 @@ p1 :> p2 @@ p2 :> p1
PreforkSymmetry == {Swap} \cup Permutations(Guid)
=============================================================================
