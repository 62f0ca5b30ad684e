---------------------------- MODULE ContentJobs ----------------------------
(***************************************************************************)
(* Jobs on content (sql/midgard_sql_content_manager_job*.c) and the pool   *)
(* of threads that runs them (midgard_execution_pool.c).                   *)
(*                                                                         *)
(* The thread of the application runs a job itself (execute) or pushes it  *)
(* to the pool, whose threads run it (execute_async) and leave the signal  *)
(* "execution-end" to the main loop, as an idle source that the            *)
(* application's thread dispatches.  The flags of a job are plain memory   *)
(* that every thread inside the job writes, one store at a time.           *)
(*                                                                         *)
(* The object call inside a job is one step that succeeds or fails: what   *)
(* it does is in ObjectStore.  Handlers of signals change nothing here, so *)
(* "execution-start", and the end that execute emits, have no step.        *)
(***************************************************************************)
EXTENDS Integers, Sequences, FiniteSets

CONSTANTS
    Job,
    Worker,    \* the threads of the pool: max_n_threads of them
    Kinds,     \* the kinds of jobs there are in the instance
    Main,      \* the thread of the application and of its main loop
    NoJob,     \* what an idle thread works on
    MaxCalls   \* bound: jobs executed or pushed

Kind == {"load", "create", "update", "delete", "purge"}
Thread == Worker \cup {Main}

ASSUME ThreadAssumption ==
    Main \notin Worker /\ NoJob \notin Job /\ IsFiniteSet(Worker)
ASSUME KindAssumption == Kinds \subseteq Kind /\ MaxCalls \in Nat

\* A job as create_job makes it: its class; whether it has a content object,
\* which is all that validate asks for; and whether its reference names a
\* property of the content's class, which only load asks for.
JobType == [kind : Kinds, content : BOOLEAN, refers : BOOLEAN]

Flag == {"running", "failed", "executed", "valid"}
Write == [flag : Flag, to : BOOLEAN]

\* Where a thread is: the job, its place, the stores it has yet to make, and
\* what the object call returned.
Place == {"idle", "check", "work", "end", "return", "release"}
At == [job : Job \cup {NoJob}, pc : Place, stores : Seq(Write), ok : BOOLEAN]

VARIABLES
    job,     \* the jobs there are; they do not change
    flags,   \* is_running, is_failed, is_executed and is_valid of each
    at,      \* each thread
    queue,   \* the tasks of the pool that no thread has taken yet
    idles,   \* the idle sources of the main context that emit an end
    refs,    \* the reference count of each job
    held,    \* jobs the application has a reference to
    pool,    \* the pool: it is in use; its finalizer drains the main
             \* context, or waits for the threads; it is gone
    calls,   \* how many jobs were executed or pushed
    pushes,  \* history: how often each job was pushed
    ends,    \* history: how often the main loop emitted its end
    last,    \* history: what the last run of a job came to
    mixed    \* history: jobs that two threads were inside at once

history == <<calls, pushes, ends, last, mixed>>
vars == <<job, flags, at, queue, idles, refs, held, pool, history>>

Free == [job |-> NoJob, pc |-> "idle", stores |-> <<>>, ok |-> FALSE]

Inside(j) == {t \in Thread : at[t].job = j /\ at[t].pc # "release"}
Times(j, s) == Cardinality({i \in DOMAIN s : s[i] = j})
Runs == {"never", "good", "bad", "hidden"}

TypeOK ==
    /\ job \in [Job -> JobType]
    /\ flags \in [Job -> [Flag -> BOOLEAN]]
    /\ at \in [Thread -> At]
    /\ queue \in Seq(Job) /\ idles \in Seq(Job)
    /\ refs \in [Job -> Int] /\ held \subseteq Job
    /\ pool \in {"open", "draining", "waiting", "gone"}
    /\ calls \in 0 .. MaxCalls
    /\ pushes \in [Job -> Nat] /\ ends \in [Job -> Nat]
    /\ last \in [Job -> Runs] /\ mixed \subseteq Job

(***************************************************************************)
(* The stores of midgard_core_sql_helper.c                                 *)
(***************************************************************************)
Stores(running, failed, executed) ==
    << [flag |-> "running", to |-> running],
       [flag |-> "failed", to |-> failed],
       [flag |-> "executed", to |-> executed] >>

Running == Stores(TRUE, FALSE, FALSE)
Failed == Stores(FALSE, TRUE, TRUE)
Succeed == Stores(FALSE, FALSE, TRUE)

\* A thread enters a job.
Enters(t, j) ==
    /\ at' = [at EXCEPT ![t] =
                [job |-> j, pc |-> "check", stores |-> Running, ok |-> FALSE]]
    /\ mixed' = IF Inside(j) # {} THEN mixed \cup {j} ELSE mixed

\* The stores are done, and the thread is at place p.
Reached(t, p) == at[t].pc = p /\ at[t].stores = <<>>

Store(t) ==
    /\ at[t].stores # <<>>
    /\ LET w == Head(at[t].stores) IN
         flags' = [flags EXCEPT ![at[t].job][w.flag] = w.to]
    /\ at' = [at EXCEPT ![t].stores = Tail(@)]
    /\ UNCHANGED <<job, queue, idles, refs, held, pool, history>>

(***************************************************************************)
(* The application's thread                                                *)
(***************************************************************************)
\* It is in no call of the library.
AtRest == at[Main].pc = "idle" /\ pool \in {"open", "gone"}

Counted == calls < MaxCalls /\ calls' = calls + 1

\* midgard_executable_execute.
Execute(j) ==
    /\ AtRest /\ j \in held /\ Counted
    /\ Enters(Main, j)
    /\ UNCHANGED <<job, flags, queue, idles, refs, held, pool, pushes, ends, last>>

\* midgard_pool_push: the pool has a reference of its own.
Push(j) ==
    /\ AtRest /\ pool = "open" /\ j \in held /\ Counted
    /\ queue' = Append(queue, j)
    /\ refs' = [refs EXCEPT ![j] = @ + 1]
    /\ pushes' = [pushes EXCEPT ![j] = @ + 1]
    /\ UNCHANGED <<job, flags, at, idles, held, pool, ends, last, mixed>>

\* The application drops its reference to a job.
Drop(j) ==
    /\ AtRest /\ j \in held
    /\ held' = held \ {j}
    /\ refs' = [refs EXCEPT ![j] = @ - 1]
    /\ UNCHANGED <<job, flags, at, queue, idles, pool, history>>

\* execution_end_func: the main loop, or the finalizer of the pool, emits the
\* end of the job at the head and takes its source away.
Dispatch ==
    /\ AtRest \/ pool = "draining"
    /\ idles # <<>>
    /\ idles' = Tail(idles)
    /\ ends' = [ends EXCEPT ![Head(idles)] = @ + 1]
    /\ refs' = [refs EXCEPT ![Head(idles)] = @ - 1]
    /\ UNCHANGED <<job, flags, at, queue, held, pool, calls, pushes, last, mixed>>

\* The last reference to the pool is dropped: the finalizer first dispatches
\* what is pending in the main context,
Finalize ==
    /\ AtRest /\ pool = "open"
    /\ pool' = "draining"
    /\ UNCHANGED <<job, flags, at, queue, idles, refs, held, history>>

\* and when nothing is, lets the threads finish every task of the queue.
Drained ==
    /\ pool = "draining" /\ idles = <<>>
    /\ pool' = "waiting"
    /\ UNCHANGED <<job, flags, at, queue, idles, refs, held, history>>

\* Mutant of Waited: the pool goes with the tasks that no thread has taken.
Waited_Immediate ==
    /\ pool = "waiting"
    /\ \A w \in Worker : at[w] = Free
    /\ pool' = "gone"
    /\ queue' = <<>>
    /\ UNCHANGED <<job, flags, at, idles, refs, held, history>>

Waited ==
    /\ pool = "waiting" /\ queue = <<>>
    /\ \A w \in Worker : at[w] = Free
    /\ pool' = "gone"
    /\ UNCHANGED <<job, flags, at, queue, idles, refs, held, history>>

(***************************************************************************)
(* A job, run by the application's thread or by one of the pool            *)
(***************************************************************************)
Async(t) == t # Main
KindAt(t) == job[at[t].job].kind

\* A thread of the pool takes a task; which of those that wait does is no
\* matter, for they are alike.
Take(w) ==
    /\ queue # <<>> /\ at[w] = Free
    /\ w = CHOOSE v \in Worker : at[v] = Free
    /\ Enters(w, Head(queue))
    /\ queue' = Tail(queue)
    /\ UNCHANGED <<job, flags, idles, refs, held, pool, calls, pushes, ends, last>>

\* Mutant of Refusal: create forgets it too.
Refusal_Create(t) ==
    IF KindAt(t) \in {"update", "create"} /\ Async(t) THEN <<>> ELSE Failed

\* What is stored of a job that is not valid.  The update of a thread of the
\* pool returns without a word.
Refusal(t) == IF KindAt(t) = "update" /\ Async(t) THEN <<>> ELSE Failed

\* is_valid and validate; load goes on to its reference.
Check(t) ==
    /\ Reached(t, "check")
    /\ LET j == at[t].job
           passes == job[j].content /\ (job[j].kind = "load" => job[j].refers)
       IN
         /\ flags' = [flags EXCEPT ![j]["valid"] = job[j].content]
         /\ IF passes
            THEN /\ at' = [at EXCEPT ![t].pc = "work"]
                 /\ UNCHANGED last
            ELSE /\ at' = [at EXCEPT ![t].pc = "return", ![t].stores = Refusal(t)]
                 /\ last' = [last EXCEPT ![j] = "bad"]
    /\ UNCHANGED <<job, queue, idles, refs, held, pool, calls, pushes, ends, mixed>>

\* The call on the content object, or the query of load.
Work(t) ==
    /\ Reached(t, "work")
    /\ \E ok \in BOOLEAN : at' = [at EXCEPT ![t].pc = "end", ![t].ok = ok]
    /\ UNCHANGED <<job, flags, queue, idles, refs, held, pool, history>>

\* The delete that the application executes itself takes every answer for a
\* success.
Verdict(t) == IF at[t].ok \/ (KindAt(t) = "delete" /\ ~Async(t)) THEN Succeed ELSE Failed

\* A thread of the pool leaves an end to the main loop, but not after a load
\* that failed.
Leaves(t) == Async(t) /\ (KindAt(t) = "load" => at[t].ok)

\* The end is left with a reference, and before the flags are stored.
End(t) ==
    /\ Reached(t, "end")
    /\ LET j == at[t].job IN
         /\ idles' = IF Leaves(t) THEN Append(idles, j) ELSE idles
         /\ refs' = IF Leaves(t) THEN [refs EXCEPT ![j] = @ + 1] ELSE refs
         /\ last' = [last EXCEPT ![j] =
                IF at[t].ok THEN "good"
                ELSE IF KindAt(t) = "delete" /\ ~Async(t) THEN "hidden" ELSE "bad"]
    /\ at' = [at EXCEPT ![t].pc = "return", ![t].stores = Verdict(t), ![t].ok = FALSE]
    /\ UNCHANGED <<job, flags, queue, held, pool, calls, pushes, ends, mixed>>

\* The application's thread is back.
Return ==
    /\ Reached(Main, "return")
    /\ at' = [at EXCEPT ![Main] = Free]
    /\ UNCHANGED <<job, flags, queue, idles, refs, held, pool, history>>

\* thread_pool_execute: whatever the job did, the pool leaves an end to the
\* main loop too, and drops the error.
Announce(w) ==
    /\ Reached(w, "return")
    /\ idles' = Append(idles, at[w].job)
    /\ refs' = [refs EXCEPT ![at[w].job] = @ + 1]
    /\ at' = [at EXCEPT ![w].pc = "release"]
    /\ UNCHANGED <<job, flags, queue, held, pool, history>>

\* The reference of the task is dropped, and the thread waits for another.
Release(w) ==
    /\ at[w].pc = "release"
    /\ refs' = [refs EXCEPT ![at[w].job] = @ - 1]
    /\ at' = [at EXCEPT ![w] = Free]
    /\ UNCHANGED <<job, flags, queue, idles, held, pool, history>>

-----------------------------------------------------------------------------
Init ==
    /\ job \in [Job -> {k \in JobType : k.kind # "load" \/ ~k.content => k.refers}]
    /\ flags = [j \in Job |-> [f \in Flag |-> FALSE]]
    /\ at = [t \in Thread |-> Free]
    /\ queue = <<>> /\ idles = <<>>
    /\ refs = [j \in Job |-> 1] /\ held = Job
    /\ pool = "open" /\ calls = 0
    /\ pushes = [j \in Job |-> 0] /\ ends = [j \in Job |-> 0]
    /\ last = [j \in Job |-> "never"] /\ mixed = {}

Inner(t) == Store(t) \/ Check(t) \/ Work(t) \/ End(t)
WorkerStep(w) == Take(w) \/ Inner(w) \/ Announce(w) \/ Release(w)
Application == \E j \in Job : Execute(j) \/ Push(j) \/ Drop(j)

Next ==
    \/ Application \/ Finalize
    \/ Inner(Main) \/ Return \/ Dispatch \/ Drained \/ Waited
    \/ \E w \in Worker : WorkerStep(w)

Spec == Init /\ [][Next]_vars

\* The system runs the threads of the pool; the application's thread finishes
\* its calls and goes on iterating the main loop.
FairSpec ==
    /\ Spec
    /\ \A w \in Worker : WF_vars(WorkerStep(w))
    /\ WF_vars(Inner(Main) \/ Return) /\ WF_vars(Dispatch)
    /\ WF_vars(Drained) /\ WF_vars(Waited)

-----------------------------------------------------------------------------
\* Whatever the application drops, and however often it pushes one job, a job
\* has a reference for each task, thread and idle source that will use it, and
\* no other: none is freed under a thread or a source, and none is leaked.
ReferencesFit ==
    \A j \in Job : refs[j] =
        (IF j \in held THEN 1 ELSE 0) + Times(j, queue) + Times(j, idles)
        + Cardinality({w \in Worker : at[w].job = j})

\* When every thread has left a job its flags tell how it went: it is executed
\* and not running, even if several threads stored them at once, and, if
\* they did not, failed says what the last run came to.  Two things the code
\* gets wrong are left out: an update that a thread of the pool found invalid
\* (it is running for ever), and a delete that failed in execute.
FlagsTell ==
    \A j \in Job :
        Inside(j) = {} /\ last[j] # "never"
        /\ (job[j].kind = "update" => job[j].content)
        => /\ ~flags[j]["running"] /\ flags[j]["executed"]
           /\ j \notin mixed /\ last[j] # "hidden" =>
                flags[j]["failed"] = (last[j] = "bad")

\* is_failed: "TRUE if job failed, FALSE otherwise" (midgard_job.c).
FailureTold ==
    \A j \in Job :
        Inside(j) = {} /\ j \notin mixed /\ last[j] \in {"bad", "hidden"}
        => flags[j]["failed"]

\* Every push is answered: the end of the job is emitted at least as often as
\* it was pushed, valid or not, failed or not, and also when the pool is
\* dropped meanwhile.
PushesAnswered == []<>(\A j \in Job : ends[j] >= pushes[j])

\* When the finalizer of the pool is through, nobody waits for an end.
AnsweredWhenGone == pool = "gone" => idles = <<>>

\* A job is kept while anybody will use it and no longer, its flags tell how it
\* went.
JobsHold == ReferencesFit /\ FlagsTell
=============================================================================
