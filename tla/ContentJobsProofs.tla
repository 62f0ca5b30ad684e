------------------------- MODULE ContentJobsProofs -------------------------
(***************************************************************************)
(* Jobs on content, for any jobs, any pool of finitely many threads and    *)
(* any number of calls.  The references of a job are counted exactly.      *)
(* Its flags are written by every thread inside it without a lock; what    *)
(* saves them is that a thread that stores "running" has still to store    *)
(* that it is not, and "executed" with it.                                 *)
(*                                                                         *)
(* Queries by columns, for any columns, any joins and any number of calls: *)
(* what statements select, and what the query, its models, its results and *)
(* their rows hold of each other.                                          *)
(***************************************************************************)
EXTENDS ContentJobs, SqlSelect, FiniteSetTheorems, FunctionTheorems, SequenceTheorems,
        WellFoundedInduction, TLAPS

-----------------------------------------------------------------------------
(* The inductive invariant                                                 *)

\* The stores a thread has yet to make, in any order.
Pending(stores) == {stores[i] : i \in DOMAIN stores}

\* Where a thread is and what it has yet to store there.
PlaceOK(x) ==
    /\ x.pc = "idle" => x = Free
    /\ x.pc # "idle" => x.job \in Job
    /\ x.pc \in {"work", "end", "release"} => x.stores = <<>>
    /\ x.pc = "return" => \A w \in Pending(x.stores) :
           (w.flag = "running" => ~w.to) /\ (w.flag = "executed" => w.to)

ThreadsOK == TypeOK /\ \A t \in Thread : PlaceOK(at[t])

\* A thread there will yet store what flag f is after the run.
Owes(x, f) ==
    \/ x.pc \in {"check", "work", "end"}
    \/ x.pc = "return" /\ \E w \in Pending(x.stores) : w.flag = f

\* An update that is not valid is forgotten by the thread of the pool.
Told(j) == job[j].kind = "update" => job[j].content

\* A job is running, or not yet executed, for the sake of a thread inside it.
RunTells(j) == Told(j) =>
    /\ flags[j]["running"] => \E t \in Inside(j) : Owes(at[t], "running")
    /\ ~flags[j]["executed"] /\ last[j] # "never" =>
           \E t \in Inside(j) : Owes(at[t], "executed")

\* Two threads that are inside a job are remembered.
MixedTold(j) == j \notin mixed => \A t, u \in Inside(j) : t = u

\* With one thread at a time, failed is or will be what the last run came to.
FailureTells(j) == j \notin mixed /\ Told(j) /\ last[j] # "hidden" =>
    /\ \A t \in Inside(j) : at[t].pc = "return" =>
           \A w \in Pending(at[t].stores) : w.flag = "failed" => w.to = (last[j] = "bad")
    /\ (\A t \in Inside(j) : ~Owes(at[t], "failed")) => flags[j]["failed"] = (last[j] = "bad")

JobOK(j) == RunTells(j) /\ MixedTold(j) /\ FailureTells(j)

FlagsOK == ThreadsOK /\ \A j \in Job : JobOK(j)
CountOK == ThreadsOK /\ ReferencesFit

-----------------------------------------------------------------------------
(* Sequences                                                               *)

\* Making the first store leaves the others.
LEMMA PendingFacts ==
    ASSUME NEW s \in Seq(Write), s # <<>>
    PROVE  /\ Head(s) \in Write /\ Tail(s) \in Seq(Write)
           /\ Pending(s) = {Head(s)} \cup Pending(Tail(s))
<1>1. /\ Len(s) \in Nat \ {0} /\ Head(s) = s[1] /\ DOMAIN s = 1 .. Len(s)
      /\ Tail(s) \in Seq(Write) /\ DOMAIN Tail(s) = 1 .. (Len(s) - 1)
      /\ \A i \in 1 .. (Len(s) - 1) : Tail(s)[i] = s[i + 1]
      /\ s[1] \in Write
  OBVIOUS
<1>2. Pending(s) \subseteq {Head(s)} \cup Pending(Tail(s))
  <2> SUFFICES ASSUME NEW i \in 1 .. Len(s), i # 1
               PROVE  s[i] \in Pending(Tail(s))
    BY <1>1 DEF Pending
  <2>1. i - 1 \in 1 .. (Len(s) - 1) /\ Tail(s)[i - 1] = s[i]
    BY <1>1
  <2> QED BY <1>1, <2>1 DEF Pending
<1>3. Head(s) \in Pending(s)
  BY <1>1 DEF Pending
<1>4. Pending(Tail(s)) \subseteq Pending(s)
  <2> SUFFICES ASSUME NEW i \in 1 .. (Len(s) - 1)
               PROVE  Tail(s)[i] \in Pending(s)
    BY <1>1 DEF Pending
  <2>1. i + 1 \in 1 .. Len(s) /\ Tail(s)[i] = s[i + 1]
    BY <1>1
  <2> QED BY <1>1, <2>1 DEF Pending
<1> QED BY <1>1, <1>2, <1>3, <1>4

\* The stores of a run's beginning and end.
LEMMA StoresFacts ==
    ASSUME NEW running \in BOOLEAN, NEW failed \in BOOLEAN, NEW executed \in BOOLEAN
    PROVE  /\ Stores(running, failed, executed) \in Seq(Write)
           /\ Pending(Stores(running, failed, executed)) =
                {[flag |-> "running", to |-> running], [flag |-> "failed", to |-> failed],
                 [flag |-> "executed", to |-> executed]}
           /\ <<>> \in Seq(Write) /\ Pending(<<>>) = {}
<1> DEFINE s == Stores(running, failed, executed)
<1>1. \A w \in {[flag |-> "running", to |-> running], [flag |-> "failed", to |-> failed],
                [flag |-> "executed", to |-> executed]} : w \in Write
  BY DEF Write, Flag
<1>2. /\ DOMAIN s = 1 .. 3
      /\ s[1] = [flag |-> "running", to |-> running]
      /\ s[2] = [flag |-> "failed", to |-> failed]
      /\ s[3] = [flag |-> "executed", to |-> executed]
  BY DEF Stores
<1>3. s \in Seq(Write)
  BY <1>1 DEF Stores
<1> HIDE DEF s
<1>4. Pending(s) = {s[1], s[2], s[3]}
  BY <1>2 DEF Pending
<1>5. Pending(<<>>) = {} /\ <<>> \in Seq(Write)
  BY DEF Pending
<1> QED BY <1>2, <1>3, <1>4, <1>5 DEF s

\* The stores of an end: not running, executed, and failed as it may be.
Ending(s, failed) ==
    /\ s \in Seq(Write)
    /\ \A w \in Pending(s) :
           /\ w.flag = "running" => ~w.to
           /\ w.flag = "executed" => w.to
           /\ w.flag = "failed" => w.to = failed
    /\ \A f \in {"running", "failed", "executed"} : \E w \in Pending(s) : w.flag = f

LEMMA EndStores ==
    ASSUME NEW failed \in BOOLEAN
    PROVE  Ending(Stores(FALSE, failed, TRUE), failed)
<1> DEFINE s == Stores(FALSE, failed, TRUE)
<1> DEFINE P == Pending(s)
<1>1. s \in Seq(Write)
  BY StoresFacts
<1>2. P = {[flag |-> "running", to |-> FALSE], [flag |-> "failed", to |-> failed],
           [flag |-> "executed", to |-> TRUE]}
  BY StoresFacts
<1> HIDE DEF P
<1>3. \A w \in P :
           /\ w.flag = "running" => ~w.to
           /\ w.flag = "executed" => w.to
           /\ w.flag = "failed" => w.to = failed
  BY <1>2
<1>4. \A f \in {"running", "failed", "executed"} : \E w \in P : w.flag = f
  BY <1>2
<1> QED BY <1>1, <1>3, <1>4, Zenon DEF P, Ending

\* How often a job is in a queue.
LEMMA TimesType ==
    ASSUME NEW j, NEW s \in Seq(Job)
    PROVE  /\ IsFiniteSet({i \in DOMAIN s : s[i] = j})
           /\ Times(j, s) \in Nat
<1>1. DOMAIN s = 1 .. Len(s) /\ Len(s) \in Nat
  OBVIOUS
<1>2. IsFiniteSet(1 .. Len(s))
  BY <1>1, FS_Interval
<1>3. IsFiniteSet({i \in DOMAIN s : s[i] = j})
  BY <1>1, <1>2, FS_Subset
<1> QED BY <1>3, FS_CardinalityType DEF Times

LEMMA TimesAppend ==
    ASSUME NEW j \in Job, NEW s \in Seq(Job), NEW k \in Job
    PROVE  /\ Append(s, k) \in Seq(Job)
           /\ Times(j, Append(s, k)) = Times(j, s) + (IF k = j THEN 1 ELSE 0)
<1> DEFINE At0 == {i \in DOMAIN s : s[i] = j}
           At1 == {i \in DOMAIN Append(s, k) : Append(s, k)[i] = j}
<1>1. /\ Append(s, k) \in Seq(Job) /\ Len(s) \in Nat
      /\ DOMAIN s = 1 .. Len(s) /\ DOMAIN Append(s, k) = 1 .. (Len(s) + 1)
      /\ \A i \in 1 .. Len(s) : Append(s, k)[i] = s[i]
      /\ Append(s, k)[Len(s) + 1] = k
  OBVIOUS
<1>2. At1 = IF k = j THEN At0 \cup {Len(s) + 1} ELSE At0
  BY <1>1
<1>3. Len(s) + 1 \notin At0
  BY <1>1
<1>4. IsFiniteSet(At0) /\ Cardinality(At0) = Times(j, s) /\ Times(j, s) \in Nat
  BY TimesType DEF Times
<1>5. Cardinality(At1) = Times(j, Append(s, k))
  BY DEF Times
<1> HIDE DEF At0, At1
<1>6. CASE k = j
  <2>1. At1 = At0 \cup {Len(s) + 1}
    BY <1>2, <1>6
  <2>2. Cardinality(At0 \cup {Len(s) + 1}) = Cardinality(At0) + 1
    BY <1>3, <1>4, FS_AddElement
  <2> QED BY <1>1, <1>4, <1>5, <1>6, <2>1, <2>2
<1>7. CASE k # j
  BY <1>1, <1>2, <1>4, <1>5, <1>7
<1> QED BY <1>1, <1>6, <1>7

LEMMA TimesTail ==
    ASSUME NEW j \in Job, NEW s \in Seq(Job), s # <<>>
    PROVE  /\ Head(s) \in Job /\ Tail(s) \in Seq(Job)
           /\ Times(j, s) = Times(j, Tail(s)) + (IF Head(s) = j THEN 1 ELSE 0)
<1> DEFINE At0 == {i \in DOMAIN s : s[i] = j}
           At1 == {i \in DOMAIN Tail(s) : Tail(s)[i] = j}
           next == [i \in At1 |-> i + 1]
<1>1. /\ Head(s) \in Job /\ Tail(s) \in Seq(Job) /\ Len(s) \in Nat \ {0} /\ Head(s) = s[1]
      /\ DOMAIN s = 1 .. Len(s) /\ DOMAIN Tail(s) = 1 .. (Len(s) - 1)
      /\ \A i \in 1 .. (Len(s) - 1) : Tail(s)[i] = s[i + 1]
  OBVIOUS
<1>2. /\ IsFiniteSet(At0) /\ Cardinality(At0) = Times(j, s) /\ Times(j, s) \in Nat
      /\ IsFiniteSet(At1) /\ Cardinality(At1) = Times(j, Tail(s)) /\ Times(j, Tail(s)) \in Nat
  BY <1>1, TimesType DEF Times
<1>3. next \in Bijection(At1, At0 \ {1})
  <2>1. \A i \in At1 : i + 1 \in At0 \ {1} /\ i \in Nat
    BY <1>1
  <2>2. \A i \in At0 \ {1} : i - 1 \in At1 /\ (i - 1) + 1 = i
    BY <1>1
  <2> HIDE DEF At0, At1
  <2>3. next \in [At1 -> At0 \ {1}] /\ \A i \in At1 : next[i] = i + 1
    BY <2>1
  <2>4. \A a, b \in At1 : next[a] = next[b] => a = b
    BY <2>1, <2>3
  <2>5. \A i \in At0 \ {1} : \E a \in At1 : next[a] = i
    BY <2>2, <2>3
  <2> HIDE DEF next
  <2> QED BY <2>3, <2>4, <2>5, Fun_IsBij
<1> HIDE DEF next
<1>4. Cardinality(At0 \ {1}) = Cardinality(At1)
  BY <1>2, <1>3, FS_Bijection DEF ExistsBijection
<1>5. 1 \in At0 <=> Head(s) = j
  BY <1>1
<1> HIDE DEF At0, At1
<1>6. Cardinality(At0 \ {1}) = IF 1 \in At0 THEN Cardinality(At0) - 1 ELSE Cardinality(At0)
  BY <1>2, FS_RemoveElement
<1> QED BY <1>1, <1>2, <1>4, <1>5, <1>6

-----------------------------------------------------------------------------
(* What a step does to the thread that makes it                            *)

\* Thread t goes to x, and no other thread moves.
Moves(t, x) ==
    /\ at'[t] = x
    /\ \A u \in Thread \ {t} : at'[u] = at[u]

LEMMA MoveFacts ==
    ASSUME TypeOK, NEW t \in Thread, NEW x \in At, at' = [at EXCEPT ![t] = x]
    PROVE  at' \in [Thread -> At] /\ Moves(t, x)
BY DEF TypeOK, Moves

LEMMA MovedOK ==
    ASSUME ThreadsOK, TypeOK', NEW t \in Thread, NEW x, PlaceOK(x), Moves(t, x)
    PROVE  ThreadsOK'
BY DEF ThreadsOK, Moves

\* An idle thread, which has its place.
LEMMA FreeFacts == Free \in At /\ PlaceOK(Free) /\ Free.job \notin Job /\ Free.pc = "idle"
<1>1. <<>> \in Seq(Write)
  OBVIOUS
<1> QED BY <1>1, ThreadAssumption DEF Free, At, Place, PlaceOK

\* A thread that enters a job is there, with the stores of its beginning.
LEMMA EnterFacts ==
    ASSUME ThreadsOK, NEW t \in Thread, NEW j \in Job, Enters(t, j)
    PROVE  \E x \in At : /\ at' = [at EXCEPT ![t] = x] /\ PlaceOK(x)
                         /\ x.job = j /\ x.pc = "check"
<1> DEFINE x == [job |-> j, pc |-> "check", stores |-> Running, ok |-> FALSE]
<1>1. Running \in Seq(Write)
  BY StoresFacts DEF Running
<1>2. x \in At /\ PlaceOK(x) /\ x.job = j /\ x.pc = "check"
  BY <1>1 DEF At, Place, PlaceOK
<1> QED BY <1>2 DEF Enters

\* A store: one flag of the thread's job gets its value.
LEMMA StoreFacts ==
    ASSUME ThreadsOK, NEW t \in Thread, Store(t)
    PROVE  LET w == Head(at[t].stores)
               rest == Tail(at[t].stores)
               x == [at[t] EXCEPT !.stores = rest] IN
           /\ w \in Write /\ rest \in Seq(Write)
           /\ Pending(at[t].stores) = {w} \cup Pending(rest)
           /\ x \in At /\ PlaceOK(x) /\ at' = [at EXCEPT ![t] = x]
           /\ x.job = at[t].job /\ x.pc = at[t].pc /\ x.stores = rest
           /\ at[t].job \in Job /\ at[t].pc \in {"check", "return"}
           /\ flags' = [flags EXCEPT ![at[t].job][w.flag] = w.to]
<1> DEFINE w == Head(at[t].stores)
           rest == Tail(at[t].stores)
           x == [at[t] EXCEPT !.stores = rest]
<1>1. at \in [Thread -> At] /\ at[t] \in At /\ PlaceOK(at[t]) /\ at[t].stores # <<>>
  BY DEF ThreadsOK, TypeOK, Store
<1>2. at[t].stores \in Seq(Write) /\ at[t].pc \in Place
  BY <1>1 DEF At
<1>3. w \in Write /\ rest \in Seq(Write) /\ Pending(at[t].stores) = {w} \cup Pending(rest)
  BY <1>1, <1>2, PendingFacts
<1>4. at[t].pc # "idle"
  BY <1>1 DEF PlaceOK, Free
<1>5. at[t].job \in Job /\ at[t].pc \in {"check", "return"}
  BY <1>1, <1>2, <1>4 DEF PlaceOK, Place
<1>6. at' = [at EXCEPT ![t] = x] /\ flags' = [flags EXCEPT ![at[t].job][w.flag] = w.to]
  BY <1>1 DEF Store
<1> HIDE DEF w, rest
<1>7. x \in At /\ x.job = at[t].job /\ x.pc = at[t].pc /\ x.stores = rest
  BY <1>1, <1>3 DEF At
<1>8. PlaceOK(x)
  BY <1>1, <1>3, <1>5, <1>7 DEF PlaceOK
<1> QED BY <1>3, <1>5, <1>6, <1>7, <1>8 DEF w, rest

\* The content of a job is checked: the run goes on, or it is over and the
\* stores of a failure are left to make.
LEMMA CheckFacts ==
    ASSUME ThreadsOK, NEW t \in Thread, Check(t)
    PROVE  LET j == at[t].job IN
           /\ j \in Job /\ at[t].pc = "check"
           /\ \E b \in BOOLEAN : flags' = [flags EXCEPT ![j]["valid"] = b]
           /\ \E x \in At :
                /\ at' = [at EXCEPT ![t] = x] /\ PlaceOK(x) /\ x.job = j
                /\ \/ x.pc = "work" /\ last' = last
                   \/ /\ x.pc = "return" /\ last' = [last EXCEPT ![j] = "bad"]
                      /\ Told(j) => x.stores = Failed
<1> DEFINE j == at[t].job
           passes == job[j].content /\ (job[j].kind = "load" => job[j].refers)
<1>1. /\ at[t] \in At /\ PlaceOK(at[t]) /\ at[t].pc = "check" /\ at[t].stores = <<>>
      /\ at \in [Thread -> At] /\ job \in [Job -> JobType]
  BY DEF ThreadsOK, TypeOK, Check, Reached
<1>2. j \in Job
  BY <1>1 DEF PlaceOK
<1>3. job[j].content \in BOOLEAN /\ flags' = [flags EXCEPT ![j]["valid"] = job[j].content]
  BY <1>1, <1>2 DEF JobType, Check
<1>4. ASSUME passes
      PROVE  LET x == [at[t] EXCEPT !.pc = "work"] IN
             /\ at' = [at EXCEPT ![t] = x] /\ last' = last
             /\ x \in At /\ PlaceOK(x) /\ x.job = j /\ x.pc = "work"
  <2> DEFINE x == [at[t] EXCEPT !.pc = "work"]
  <2>1. at' = [at EXCEPT ![t] = x] /\ last' = last
    BY <1>1, <1>4 DEF Check
  <2>2. x \in At /\ x.job = j /\ x.pc = "work" /\ x.stores = <<>>
    BY <1>1 DEF At, Place
  <2> HIDE DEF x
  <2>3. PlaceOK(x)
    BY <1>2, <2>2 DEF PlaceOK
  <2> QED BY <2>1, <2>2, <2>3 DEF x
<1>5. ASSUME ~passes
      PROVE  LET x == [at[t] EXCEPT !.pc = "return", !.stores = Refusal(t)] IN
             /\ at' = [at EXCEPT ![t] = x] /\ last' = [last EXCEPT ![j] = "bad"]
             /\ x \in At /\ PlaceOK(x) /\ x.job = j /\ x.pc = "return"
             /\ Told(j) => x.stores = Failed
  <2> DEFINE x == [at[t] EXCEPT !.pc = "return", !.stores = Refusal(t)]
  <2>1. at' = [at EXCEPT ![t] = x] /\ last' = [last EXCEPT ![j] = "bad"]
    BY <1>1, <1>5 DEF Check
  <2>2. /\ Refusal(t) \in Seq(Write)
        /\ \A w \in Pending(Refusal(t)) :
               (w.flag = "running" => ~w.to) /\ (w.flag = "executed" => w.to)
    <3>1. CASE Refusal(t) = <<>>
      BY <3>1, StoresFacts
    <3>2. CASE Refusal(t) = Stores(FALSE, TRUE, TRUE)
      <4>1. Ending(Refusal(t), TRUE)
        BY <3>2, EndStores, Zenon
      <4> QED BY <4>1 DEF Ending
    <3> QED BY <3>1, <3>2 DEF Refusal, Failed
  <2>3. Told(j) => Refusal(t) = Failed
    BY <1>5 DEF Told, Refusal, KindAt
  <2>4. x \in At /\ x.job = j /\ x.pc = "return" /\ x.stores = Refusal(t)
    BY <1>1, <2>2 DEF At, Place
  <2> HIDE DEF x
  <2>5. PlaceOK(x)
    BY <1>2, <2>2, <2>4 DEF PlaceOK
  <2> QED BY <2>1, <2>3, <2>4, <2>5 DEF x
<1> QED BY <1>1, <1>2, <1>3, <1>4, <1>5

\* The object call.
LEMMA WorkFacts ==
    ASSUME ThreadsOK, NEW t \in Thread, Work(t)
    PROVE  /\ at[t].job \in Job /\ at[t].pc = "work"
           /\ \E x \in At : /\ at' = [at EXCEPT ![t] = x] /\ PlaceOK(x)
                            /\ x.job = at[t].job /\ x.pc = "end"
<1>1. /\ at[t] \in At /\ PlaceOK(at[t]) /\ at[t].pc = "work" /\ at[t].stores = <<>>
      /\ at \in [Thread -> At]
  BY DEF ThreadsOK, TypeOK, Work, Reached
<1>2. PICK ok \in BOOLEAN : at' = [at EXCEPT ![t].pc = "end", ![t].ok = ok]
  BY DEF Work
<1> DEFINE x == [at[t] EXCEPT !.pc = "end", !.ok = ok]
<1>3. at' = [at EXCEPT ![t] = x]
  BY <1>1, <1>2
<1>4. x \in At /\ x.job = at[t].job /\ x.pc = "end" /\ x.stores = <<>>
  BY <1>1 DEF At, Place
<1>5. at[t].job \in Job
  BY <1>1 DEF PlaceOK
<1> HIDE DEF x
<1>6. PlaceOK(x)
  BY <1>4, <1>5 DEF PlaceOK
<1> QED BY <1>1, <1>3, <1>4, <1>5, <1>6

\* The end of a run: what failed will be stored as is what the run came to, but
\* for a delete of the application's thread.
LEMMA EndFacts ==
    ASSUME ThreadsOK, NEW t \in Thread, End(t)
    PROVE  LET j == at[t].job IN
           /\ j \in Job /\ at[t].pc = "end"
           /\ \E x \in At, failed \in BOOLEAN, run \in Runs \ {"never"} :
                /\ at' = [at EXCEPT ![t] = x] /\ PlaceOK(x)
                /\ x.job = j /\ x.pc = "return" /\ x.stores = Stores(FALSE, failed, TRUE)
                /\ last' = [last EXCEPT ![j] = run]
                /\ run # "hidden" => failed = (run = "bad")
<1> DEFINE j == at[t].job
           x == [at[t] EXCEPT !.pc = "return", !.stores = Verdict(t), !.ok = FALSE]
           failed == ~(at[t].ok \/ (KindAt(t) = "delete" /\ ~Async(t)))
           run == IF at[t].ok THEN "good"
                  ELSE IF KindAt(t) = "delete" /\ ~Async(t) THEN "hidden" ELSE "bad"
<1>1. /\ at[t] \in At /\ PlaceOK(at[t]) /\ at[t].pc = "end"
      /\ at \in [Thread -> At]
  BY DEF ThreadsOK, TypeOK, End, Reached
<1>2. j \in Job
  BY <1>1 DEF PlaceOK
<1>3. failed \in BOOLEAN /\ Verdict(t) = Stores(FALSE, failed, TRUE)
  BY DEF Verdict, Succeed, Failed
<1>4. run \in Runs \ {"never"} /\ (run # "hidden" => failed = (run = "bad"))
  BY <1>1 DEF Runs, At
<1>5. at' = [at EXCEPT ![t] = x] /\ last' = [last EXCEPT ![j] = run]
  BY <1>1 DEF End
<1> HIDE DEF failed, run
<1>6. /\ Verdict(t) \in Seq(Write)
      /\ \A w \in Pending(Verdict(t)) :
             (w.flag = "running" => ~w.to) /\ (w.flag = "executed" => w.to)
  <2>1. Ending(Verdict(t), failed)
    BY <1>3, EndStores, Zenon
  <2> QED BY <2>1 DEF Ending
<1>7. x \in At /\ x.job = j /\ x.pc = "return" /\ x.stores = Stores(FALSE, failed, TRUE)
  BY <1>1, <1>3, <1>6 DEF At, Place
<1> HIDE DEF x
<1>8. PlaceOK(x)
  BY <1>2, <1>3, <1>6, <1>7 DEF PlaceOK
<1> QED BY <1>1, <1>2, <1>3, <1>4, <1>5, <1>7, <1>8

\* A thread leaves a job with no store left to make.
Leave(t) == Announce(t) \/ (t = Main /\ Return)

LEMMA LeaveFacts ==
    ASSUME ThreadsOK, NEW t \in Thread, Leave(t)
    PROVE  /\ at[t].job \in Job /\ at[t].pc = "return" /\ ~Owes(at[t], "running")
           /\ ~Owes(at[t], "executed") /\ ~Owes(at[t], "failed")
           /\ \E x \in At : /\ at' = [at EXCEPT ![t] = x] /\ PlaceOK(x)
                            /\ Announce(t) => x.job = at[t].job
                            /\ x.job \notin Job \/ x.pc = "release"
<1>1. /\ at[t] \in At /\ PlaceOK(at[t]) /\ at[t].pc = "return" /\ at[t].stores = <<>>
      /\ at \in [Thread -> At]
  BY DEF ThreadsOK, TypeOK, Leave, Announce, Return, Reached
<1>2. at[t].job \in Job
  BY <1>1 DEF PlaceOK
<1>3. \A f : ~Owes(at[t], f)
  BY <1>1, StoresFacts DEF Owes
<1>4. CASE Announce(t)
  <2> DEFINE x == [at[t] EXCEPT !.pc = "release"]
  <2>1. at' = [at EXCEPT ![t] = x]
    BY <1>1, <1>4 DEF Announce
  <2>2. x \in At /\ x.job = at[t].job /\ x.pc = "release" /\ x.stores = <<>>
    BY <1>1 DEF At, Place
  <2> HIDE DEF x
  <2>3. PlaceOK(x)
    BY <1>2, <2>2 DEF PlaceOK
  <2> QED BY <1>1, <1>2, <1>3, <2>1, <2>2, <2>3
<1>5. CASE t = Main /\ Return /\ ~Announce(t)
  BY <1>1, <1>2, <1>3, <1>5, FreeFacts DEF Return
<1> QED BY <1>4, <1>5 DEF Leave

\* A thread of the pool gives up the job it has left.
LEMMA ReleaseFacts ==
    ASSUME ThreadsOK, NEW w \in Worker, Release(w)
    PROVE  /\ at[w].job \in Job /\ at[w].pc = "release"
           /\ at' = [at EXCEPT ![w] = Free]
BY DEF ThreadsOK, TypeOK, Release, PlaceOK, Thread

-----------------------------------------------------------------------------
(* Types and places                                                        *)

LEMMA InitThreads == Init => ThreadsOK
<1> SUFFICES ASSUME Init PROVE ThreadsOK
  OBVIOUS
<1>1. \A t \in Thread : at[t] = Free
  BY DEF Init
<1>2. <<>> \in Seq(Job) /\ job \in [Job -> JobType]
  BY DEF Init
<1>3. TypeOK
  BY <1>2, FreeFacts, KindAssumption DEF Init, TypeOK, Flag, Runs
<1> QED BY <1>1, <1>3, FreeFacts DEF ThreadsOK

LEMMA NextThreads == ThreadsOK /\ [Next]_vars => ThreadsOK'
<1> SUFFICES ASSUME ThreadsOK, [Next]_vars PROVE ThreadsOK'
  OBVIOUS
<1>0. /\ TypeOK /\ Main \in Thread /\ \A w \in Worker : w \in Thread
      /\ calls \in 0 .. MaxCalls /\ MaxCalls \in Nat
  BY KindAssumption DEF ThreadsOK, Thread, TypeOK
<1>1. ASSUME NEW j \in Job, Execute(j) PROVE ThreadsOK'
  <2>1. PICK x \in At : at' = [at EXCEPT ![Main] = x] /\ PlaceOK(x)
    BY <1>0, <1>1, EnterFacts DEF Execute
  <2>2. at' \in [Thread -> At] /\ Moves(Main, x)
    BY <1>0, <2>1, MoveFacts
  <2>3. calls' \in 0 .. MaxCalls /\ mixed' \subseteq Job
    BY <1>0, <1>1 DEF Execute, Counted, Enters, TypeOK
  <2>4. TypeOK'
    BY <1>0, <1>1, <2>2, <2>3 DEF Execute, TypeOK
  <2> QED BY <1>0, <2>1, <2>2, <2>4, MovedOK
<1>2. ASSUME NEW j \in Job, Push(j) PROVE ThreadsOK'
  <2>1. calls' \in 0 .. MaxCalls /\ Append(queue, j) \in Seq(Job)
    BY <1>0, <1>2 DEF Push, Counted, TypeOK
  <2>2. TypeOK'
    BY <1>0, <1>2, <2>1, SMTT(30) DEF Push, TypeOK
  <2> QED BY <1>2, <2>2 DEF ThreadsOK, Push
<1>3. ASSUME NEW j \in Job, Drop(j) PROVE ThreadsOK'
  <2>1. TypeOK'
    BY <1>0, <1>3 DEF Drop, history, TypeOK
  <2> QED BY <1>3, <2>1 DEF ThreadsOK, Drop
<1>4. CASE Dispatch
  <2>1. Head(idles) \in Job /\ Tail(idles) \in Seq(Job)
    BY <1>0, <1>4 DEF Dispatch, TypeOK
  <2>2. refs' \in [Job -> Int] /\ ends' \in [Job -> Nat]
    BY <1>0, <1>4, <2>1, SMTT(30) DEF Dispatch, TypeOK
  <2>3. TypeOK'
    BY <1>0, <1>4, <2>1, <2>2 DEF Dispatch, TypeOK
  <2> QED BY <1>4, <2>3 DEF ThreadsOK, Dispatch
<1>5. CASE Finalize \/ Drained \/ Waited
  <2>1. TypeOK' /\ at' = at
    BY <1>0, <1>5 DEF Finalize, Drained, Waited, history, TypeOK
  <2> QED BY <2>1 DEF ThreadsOK
<1>6. ASSUME NEW w \in Worker, Take(w) PROVE ThreadsOK'
  <2>1. Head(queue) \in Job /\ Tail(queue) \in Seq(Job)
    BY <1>0, <1>6 DEF Take, TypeOK
  <2>2. PICK x \in At : at' = [at EXCEPT ![w] = x] /\ PlaceOK(x)
    BY <1>0, <1>6, <2>1, EnterFacts DEF Take
  <2>3. at' \in [Thread -> At] /\ Moves(w, x)
    BY <1>0, <2>2, MoveFacts
  <2>4. mixed' \subseteq Job
    BY <1>0, <1>6, <2>1 DEF Take, Enters, TypeOK
  <2>5. TypeOK'
    BY <1>0, <1>6, <2>1, <2>3, <2>4 DEF Take, TypeOK
  <2> QED BY <1>0, <2>2, <2>3, <2>5, MovedOK
<1>7. ASSUME NEW t \in Thread, Store(t) PROVE ThreadsOK'
  <2> DEFINE w == Head(at[t].stores)
  <2>1. PICK x \in At : at' = [at EXCEPT ![t] = x] /\ PlaceOK(x)
    BY <1>7, StoreFacts
  <2>2. w \in Write /\ at[t].job \in Job /\ flags' = [flags EXCEPT ![at[t].job][w.flag] = w.to]
    BY <1>7, StoreFacts
  <2> HIDE DEF w
  <2>3. flags' \in [Job -> [Flag -> BOOLEAN]]
    BY <1>0, <2>2 DEF TypeOK, Write
  <2>4. at' \in [Thread -> At] /\ Moves(t, x)
    BY <1>0, <2>1, MoveFacts
  <2>5. TypeOK'
    BY <1>0, <1>7, <2>3, <2>4 DEF Store, history, TypeOK
  <2> QED BY <2>1, <2>4, <2>5, MovedOK
<1>8. ASSUME NEW t \in Thread, Check(t) PROVE ThreadsOK'
  <2> DEFINE j == at[t].job
  <2>1. PICK x \in At : /\ at' = [at EXCEPT ![t] = x] /\ PlaceOK(x)
                        /\ last' = last \/ last' = [last EXCEPT ![j] = "bad"]
    BY <1>8, CheckFacts
  <2>2. j \in Job /\ \E b \in BOOLEAN : flags' = [flags EXCEPT ![j]["valid"] = b]
    BY <1>8, CheckFacts
  <2> HIDE DEF j
  <2>3. flags' \in [Job -> [Flag -> BOOLEAN]] /\ last' \in [Job -> Runs]
    <3>1. "valid" \in Flag /\ "bad" \in Runs
      BY DEF Flag, Runs
    <3>2. flags \in [Job -> [Flag -> BOOLEAN]] /\ last \in [Job -> Runs]
      BY <1>0 DEF TypeOK
    <3>3. flags' \in [Job -> [Flag -> BOOLEAN]]
      BY <2>2, <3>1, <3>2
    <3> QED BY <2>1, <2>2, <3>1, <3>2, <3>3
  <2>4. at' \in [Thread -> At] /\ Moves(t, x)
    BY <1>0, <2>1, MoveFacts
  <2>5. TypeOK'
    BY <1>0, <1>8, <2>3, <2>4 DEF Check, TypeOK
  <2> QED BY <2>1, <2>4, <2>5, MovedOK
<1>9. ASSUME NEW t \in Thread, Work(t) PROVE ThreadsOK'
  <2>1. PICK x \in At : at' = [at EXCEPT ![t] = x] /\ PlaceOK(x)
    BY <1>9, WorkFacts
  <2>2. at' \in [Thread -> At] /\ Moves(t, x)
    BY <1>0, <2>1, MoveFacts
  <2>3. TypeOK'
    BY <1>0, <1>9, <2>2 DEF Work, history, TypeOK
  <2> QED BY <2>1, <2>2, <2>3, MovedOK
<1>10. ASSUME NEW t \in Thread, End(t) PROVE ThreadsOK'
  <2> DEFINE j == at[t].job
  <2>1. PICK x \in At, run \in Runs : /\ at' = [at EXCEPT ![t] = x] /\ PlaceOK(x)
                                      /\ last' = [last EXCEPT ![j] = run]
    BY <1>10, EndFacts
  <2>2. j \in Job
    BY <1>10, EndFacts
  <2>3. /\ idles' = IF Leaves(t) THEN Append(idles, j) ELSE idles
        /\ refs' = IF Leaves(t) THEN [refs EXCEPT ![j] = @ + 1] ELSE refs
    BY <1>10 DEF End
  <2> HIDE DEF j
  <2>4. idles' \in Seq(Job) /\ refs' \in [Job -> Int] /\ last' \in [Job -> Runs]
    BY <1>0, <2>1, <2>2, <2>3 DEF TypeOK
  <2>5. at' \in [Thread -> At] /\ Moves(t, x)
    BY <1>0, <2>1, MoveFacts
  <2>6. TypeOK'
    BY <1>0, <1>10, <2>4, <2>5 DEF End, TypeOK
  <2> QED BY <2>1, <2>5, <2>6, MovedOK
<1>11. ASSUME NEW t \in Thread, Leave(t) PROVE ThreadsOK'
  <2>1. PICK x \in At : at' = [at EXCEPT ![t] = x] /\ PlaceOK(x)
    BY <1>11, LeaveFacts
  <2>2. at[t].job \in Job
    BY <1>11, LeaveFacts
  <2>3. at' \in [Thread -> At] /\ Moves(t, x)
    BY <1>0, <2>1, MoveFacts
  <2>4. idles' \in Seq(Job) /\ refs' \in [Job -> Int]
    <3>1. CASE Announce(t)
      BY <1>0, <2>2, <3>1 DEF Announce, TypeOK
    <3>2. CASE Return
      BY <1>0, <3>2 DEF Return, TypeOK
    <3> QED BY <1>11, <3>1, <3>2 DEF Leave
  <2>5. TypeOK'
    BY <1>0, <1>11, <2>3, <2>4 DEF Leave, Announce, Return, history, TypeOK
  <2> QED BY <2>1, <2>3, <2>5, MovedOK
<1>12. ASSUME NEW w \in Worker, Release(w) PROVE ThreadsOK'
  <2>1. at' = [at EXCEPT ![w] = Free] /\ at[w].job \in Job
    BY <1>12, ReleaseFacts
  <2>2. at' \in [Thread -> At] /\ Moves(w, Free)
    BY <1>0, <2>1, MoveFacts, FreeFacts
  <2>3. TypeOK'
    BY <1>0, <1>12, <2>1, <2>2 DEF Release, history, TypeOK
  <2> QED BY <1>0, <2>2, <2>3, MovedOK, FreeFacts
<1>13. CASE UNCHANGED vars
  <2>1. TypeOK' /\ at' = at
    BY <1>0, <1>13 DEF vars, history, TypeOK
  <2> QED BY <2>1 DEF ThreadsOK
<1> QED BY <1>0, <1>1, <1>2, <1>3, <1>4, <1>5, <1>6, <1>7, <1>8, <1>9, <1>10, <1>11, <1>12, <1>13
        DEF Next, Application, WorkerStep, Inner, Leave

-----------------------------------------------------------------------------
(* Flags                                                                   *)

\* Who is inside a job after a thread has moved.
LEMMA InsideFacts ==
    ASSUME NEW j, NEW t \in Thread, NEW x, Moves(t, x)
    PROVE  \A u \in Thread : u \in Inside(j)' <=>
               IF u = t THEN x.job = j /\ x.pc # "release" ELSE u \in Inside(j)
BY DEF Moves, Inside

\* A job that nobody touched.
LEMMA Untouched ==
    ASSUME NEW j, JobOK(j), job' = job, last'[j] = last[j],
           \A f \in {"running", "failed", "executed"} : flags'[j][f] = flags[j][f],
           j \in mixed => j \in mixed',
           Inside(j)' = Inside(j), \A u \in Inside(j) : at'[u] = at[u]
    PROVE  JobOK(j)'
<1>1. /\ flags'[j]["running"] = flags[j]["running"] /\ flags'[j]["failed"] = flags[j]["failed"]
      /\ flags'[j]["executed"] = flags[j]["executed"]
  OBVIOUS
<1>2. Told(j)' = Told(j)
  BY DEF Told
<1>3. RunTells(j)'
  BY <1>1, <1>2 DEF JobOK, RunTells
<1>4. MixedTold(j)'
  BY DEF JobOK, MixedTold
<1>5. FailureTells(j)'
  BY <1>1, <1>2 DEF JobOK, FailureTells
<1> QED BY <1>3, <1>4, <1>5 DEF JobOK

\* A job that only a thread outside it moved.
LEMMA MovedElsewhere ==
    ASSUME NEW j, JobOK(j), job' = job, last'[j] = last[j],
           \A f \in {"running", "failed", "executed"} : flags'[j][f] = flags[j][f],
           j \in mixed => j \in mixed',
           NEW t \in Thread, NEW x, Moves(t, x),
           x.job # j \/ x.pc = "release", at[t].job # j \/ at[t].pc = "release"
    PROVE  JobOK(j)'
<1>1. t \notin Inside(j)
  BY DEF Inside
<1>2. Inside(j)' = Inside(j)
  <2>1. Inside(j) \subseteq Thread /\ Inside(j)' \subseteq Thread
    BY DEF Inside
  <2>2. t \notin Inside(j)'
    BY InsideFacts
  <2>3. \A u \in Thread \ {t} : u \in Inside(j)' <=> u \in Inside(j)
    BY InsideFacts
  <2> QED BY <1>1, <2>1, <2>2, <2>3
<1>3. \A u \in Inside(j) : at'[u] = at[u]
  BY <1>1 DEF Inside, Moves
<1> QED BY <1>2, <1>3, Untouched

\* A thread enters the job: it will make every store of the run.
LEMMA EnteredJob ==
    ASSUME NEW j, JobOK(j), job' = job, last' = last, flags' = flags,
           mixed' = IF Inside(j) # {} THEN mixed \cup {j} ELSE mixed,
           NEW t \in Thread, NEW x, Moves(t, x), at[t].job # j, x.job = j, x.pc = "check"
    PROVE  JobOK(j)'
<1>1. t \notin Inside(j) /\ Inside(j)' = Inside(j) \cup {t}
  <2>1. Inside(j) \subseteq Thread /\ Inside(j)' \subseteq Thread /\ t \notin Inside(j)
    BY DEF Inside
  <2> QED BY <2>1, InsideFacts
<1>2. at'[t] = x /\ \A u \in Inside(j) : at'[u] = at[u]
  BY <1>1 DEF Inside, Moves
<1>3. Told(j)' = Told(j)
  BY DEF Told
<1>4. RunTells(j)'
  BY <1>1, <1>2, <1>3 DEF JobOK, RunTells
<1>5. j \notin mixed' => Inside(j)' = {t}
  BY <1>1
<1>6. MixedTold(j)'
  BY <1>5 DEF MixedTold
<1>7. FailureTells(j)'
  BY <1>2, <1>5 DEF FailureTells, Owes
<1> QED BY <1>4, <1>6, <1>7 DEF JobOK

\* A thread inside the job stays inside it.
LEMMA StaysInside ==
    ASSUME NEW j, NEW t \in Thread, NEW x, Moves(t, x),
           at[t].job = j, at[t].pc # "release", x.job = j, x.pc # "release"
    PROVE  t \in Inside(j) /\ Inside(j)' = Inside(j)
<1>1. Inside(j) \subseteq Thread /\ Inside(j)' \subseteq Thread /\ t \in Inside(j)
  BY DEF Inside
<1> QED BY <1>1, InsideFacts

\* A thread makes a store of its run.
LEMMA StoredInJob ==
    ASSUME ThreadsOK, NEW t \in Thread, Store(t), NEW j \in Job, at[t].job = j, JobOK(j)
    PROVE  JobOK(j)'
<1> DEFINE w == Head(at[t].stores)
           rest == Tail(at[t].stores)
           x == [at[t] EXCEPT !.stores = rest]
<1>1. /\ w \in Write /\ rest \in Seq(Write)
      /\ Pending(at[t].stores) = {w} \cup Pending(rest)
      /\ x \in At /\ PlaceOK(x) /\ at' = [at EXCEPT ![t] = x]
      /\ x.job = j /\ x.pc = at[t].pc /\ x.stores = rest
      /\ at[t].pc \in {"check", "return"}
      /\ flags' = [flags EXCEPT ![j][w.flag] = w.to]
  BY StoreFacts
<1>2. /\ job' = job /\ last' = last /\ mixed' = mixed
      /\ flags \in [Job -> [Flag -> BOOLEAN]] /\ PlaceOK(at[t])
  BY DEF Store, history, ThreadsOK, TypeOK
<1>3. Moves(t, x)
  BY <1>1, MoveFacts DEF ThreadsOK
<1> HIDE DEF w, rest, x
<1>4. t \in Inside(j) /\ Inside(j)' = Inside(j)
  BY <1>1, <1>3, StaysInside
<1>5. at'[t] = x /\ \A u \in Inside(j) \ {t} : at'[u] = at[u]
  BY <1>3 DEF Moves, Inside
<1>6. Told(j)' = Told(j)
  BY <1>2 DEF Told
<1>7. /\ flags'[j][w.flag] = w.to
      /\ \A f \in Flag \ {w.flag} : flags'[j][f] = flags[j][f]
      /\ "running" \in Flag /\ "failed" \in Flag /\ "executed" \in Flag
  BY <1>1, <1>2 DEF Write, Flag
<1>8. w \in Pending(at[t].stores) /\ Pending(rest) \subseteq Pending(at[t].stores)
  BY <1>1
\* With the store made the thread owes what it owed, but for this flag.
<1>9. \A f : Owes(at[t], f) /\ f # w.flag => Owes(x, f)
  BY <1>1 DEF Owes
<1>10. at[t].pc = "check" => \A f : Owes(x, f)
  BY <1>1 DEF Owes
<1>11. /\ w.flag = "running" /\ w.to => at[t].pc = "check"
       /\ w.flag = "executed" /\ ~w.to => at[t].pc = "check"
  BY <1>1, <1>2, <1>8 DEF PlaceOK
<1>12. RunTells(j)'
  <2> SUFFICES ASSUME Told(j)
               PROVE  /\ flags'[j]["running"] => \E u \in Inside(j) : Owes(at'[u], "running")
                      /\ ~flags'[j]["executed"] /\ last[j] # "never" =>
                             \E u \in Inside(j) : Owes(at'[u], "executed")
    BY <1>2, <1>4, <1>6 DEF RunTells
  <2>1. ASSUME flags'[j]["running"] PROVE \E u \in Inside(j) : Owes(at'[u], "running")
    <3>1. CASE w.flag = "running"
      BY <1>4, <1>5, <1>7, <1>10, <1>11, <2>1, <3>1
    <3>2. CASE w.flag # "running"
      <4>1. flags[j]["running"]
        BY <1>7, <2>1, <3>2
      <4>2. PICK u \in Inside(j) : Owes(at[u], "running")
        BY <4>1 DEF JobOK, RunTells
      <4> QED BY <1>5, <1>9, <3>2, <4>2
    <3> QED BY <3>1, <3>2
  <2>2. ASSUME ~flags'[j]["executed"], last[j] # "never"
        PROVE  \E u \in Inside(j) : Owes(at'[u], "executed")
    <3>1. CASE w.flag = "executed"
      BY <1>4, <1>5, <1>7, <1>10, <1>11, <2>2, <3>1
    <3>2. CASE w.flag # "executed"
      <4>1. ~flags[j]["executed"]
        BY <1>7, <2>2, <3>2
      <4>2. PICK u \in Inside(j) : Owes(at[u], "executed")
        BY <2>2, <4>1 DEF JobOK, RunTells
      <4> QED BY <1>5, <1>9, <3>2, <4>2
    <3> QED BY <3>1, <3>2
  <2> QED BY <2>1, <2>2
<1>13. MixedTold(j)'
  BY <1>2, <1>4 DEF JobOK, MixedTold
<1>14. FailureTells(j)'
  <2> SUFFICES ASSUME j \notin mixed, Told(j), last[j] # "hidden"
               PROVE  /\ \A u \in Inside(j) : at'[u].pc = "return" =>
                             \A v \in Pending(at'[u].stores) :
                                 v.flag = "failed" => v.to = (last[j] = "bad")
                      /\ (\A u \in Inside(j) : ~Owes(at'[u], "failed")) =>
                             flags'[j]["failed"] = (last[j] = "bad")
    BY <1>2, <1>4, <1>6 DEF FailureTells
  <2>1. Inside(j) = {t}
    BY <1>4 DEF JobOK, MixedTold
  <2>2. at[t].pc = "return" =>
            \A v \in Pending(at[t].stores) : v.flag = "failed" => v.to = (last[j] = "bad")
    BY <1>4 DEF JobOK, FailureTells
  <2>3. x.pc = "return" =>
            \A v \in Pending(x.stores) : v.flag = "failed" => v.to = (last[j] = "bad")
    BY <1>1, <1>8, <2>2
  <2>4. ASSUME ~Owes(x, "failed") PROVE flags'[j]["failed"] = (last[j] = "bad")
    <3>1. CASE w.flag = "failed"
      <4>1. at[t].pc = "return"
        BY <1>1, <1>10, <2>4
      <4> QED BY <1>7, <1>8, <2>2, <3>1, <4>1
    <3>2. CASE w.flag # "failed"
      <4>1. ~Owes(at[t], "failed")
        BY <1>9, <2>4, <3>2
      <4>2. flags[j]["failed"] = (last[j] = "bad")
        BY <2>1, <4>1 DEF JobOK, FailureTells
      <4> QED BY <1>7, <3>2, <4>2
    <3> QED BY <3>1, <3>2
  <2> QED BY <1>5, <2>1, <2>3, <2>4
<1> QED BY <1>12, <1>13, <1>14 DEF JobOK

\* The run goes on, with its stores still to come: no flag is promised less.
LEMMA RunGoesOn ==
    ASSUME ThreadsOK, NEW j, JobOK(j), job' = job, last' = last, mixed' = mixed,
           \A f \in {"running", "failed", "executed"} : flags'[j][f] = flags[j][f],
           NEW t \in Thread, NEW x, Moves(t, x), at[t].job = j, x.job = j,
           at[t].pc # "release", x.pc \in {"work", "end"}
    PROVE  JobOK(j)'
<1>1. t \in Inside(j) /\ Inside(j)' = Inside(j)
  BY StaysInside
<1>2. at'[t] = x /\ \A u \in Inside(j) \ {t} : at'[u] = at[u]
  BY DEF Moves, Inside
<1>3. Told(j)' = Told(j)
  BY DEF Told
<1>4. \A f : Owes(at'[t], f)
  BY <1>2 DEF Owes
<1>5. /\ flags'[j]["running"] = flags[j]["running"]
      /\ flags'[j]["executed"] = flags[j]["executed"]
  OBVIOUS
<1>6. RunTells(j)'
  BY <1>1, <1>3, <1>4, <1>5 DEF JobOK, RunTells
<1>7. MixedTold(j)'
  BY <1>1 DEF JobOK, MixedTold
<1>8. FailureTells(j)'
  <2>1. j \notin mixed => Inside(j) = {t}
    BY <1>1 DEF JobOK, MixedTold
  <2> QED BY <1>1, <1>2, <1>4, <2>1 DEF FailureTells
<1> QED BY <1>6, <1>7, <1>8 DEF JobOK

\* The run is over, and what it came to is still to be stored.
LEMMA RunEnds ==
    ASSUME ThreadsOK, NEW j \in Job, JobOK(j), job' = job, mixed' = mixed,
           \A f \in {"running", "failed", "executed"} : flags'[j][f] = flags[j][f],
           NEW run, last' = [last EXCEPT ![j] = run],
           NEW t \in Thread, NEW x, Moves(t, x), at[t].job = j, x.job = j,
           at[t].pc # "release", x.pc = "return",
           Told(j) => \E failed \in BOOLEAN : /\ Ending(x.stores, failed)
                                              /\ run # "hidden" => failed = (run = "bad")
    PROVE  JobOK(j)'
<1>1. t \in Inside(j) /\ Inside(j)' = Inside(j)
  BY StaysInside
<1>2. at'[t] = x /\ \A u \in Inside(j) \ {t} : at'[u] = at[u]
  BY DEF Moves, Inside
<1>3. Told(j)' = Told(j) /\ last'[j] = run
  BY DEF Told, ThreadsOK, TypeOK
<1>4. Told(j) => \A f \in {"running", "failed", "executed"} : Owes(x, f)
  BY DEF Owes, Ending
<1>5. RunTells(j)'
  BY <1>1, <1>2, <1>3, <1>4 DEF RunTells
<1>6. MixedTold(j)'
  BY <1>1 DEF JobOK, MixedTold
<1>7. FailureTells(j)'
  <2> SUFFICES ASSUME j \notin mixed, Told(j), run # "hidden"
               PROVE  /\ \A u \in Inside(j) : at'[u].pc = "return" =>
                             \A v \in Pending(at'[u].stores) :
                                 v.flag = "failed" => v.to = (run = "bad")
                      /\ (\A u \in Inside(j) : ~Owes(at'[u], "failed")) =>
                             flags'[j]["failed"] = (run = "bad")
    BY <1>1, <1>3 DEF FailureTells
  <2>1. Inside(j) = {t}
    BY <1>1 DEF JobOK, MixedTold
  <2>2. \A v \in Pending(x.stores) : v.flag = "failed" => v.to = (run = "bad")
    BY DEF Ending
  <2> QED BY <1>2, <1>4, <2>1, <2>2
<1> QED BY <1>5, <1>6, <1>7 DEF JobOK

\* A thread that has made its stores leaves the job: it owed nothing.
LEMMA LeftJob ==
    ASSUME ThreadsOK, NEW t \in Thread, Leave(t), NEW j \in Job, at[t].job = j, JobOK(j)
    PROVE  JobOK(j)'
<1>1. PICK x \in At : /\ at' = [at EXCEPT ![t] = x]
                      /\ x.job \notin Job \/ x.pc = "release"
  BY LeaveFacts
<1>2. /\ ~Owes(at[t], "running") /\ ~Owes(at[t], "executed") /\ ~Owes(at[t], "failed")
      /\ at[t].pc = "return"
  BY LeaveFacts
<1>3. job' = job /\ last' = last /\ mixed' = mixed /\ flags' = flags
  BY DEF Leave, Announce, Return, history
<1>4. Moves(t, x)
  BY <1>1, MoveFacts DEF ThreadsOK
<1>5. t \in Inside(j) /\ Inside(j)' = Inside(j) \ {t}
  <2>1. Inside(j) \subseteq Thread /\ Inside(j)' \subseteq Thread /\ t \in Inside(j)
    BY <1>2 DEF Inside
  <2> QED BY <1>1, <1>4, <2>1, InsideFacts
<1>6. \A u \in Inside(j) \ {t} : at'[u] = at[u]
  BY <1>4 DEF Moves, Inside
<1>7. Told(j)' = Told(j)
  BY <1>3 DEF Told
<1>8. RunTells(j)'
  BY <1>2, <1>3, <1>5, <1>6, <1>7 DEF JobOK, RunTells
<1>9. MixedTold(j)'
  BY <1>3, <1>5 DEF JobOK, MixedTold
<1>10. FailureTells(j)'
  <2>1. j \notin mixed => Inside(j) = {t} /\ Inside(j)' = {}
    BY <1>5 DEF JobOK, MixedTold
  <2> QED BY <1>2, <1>3, <1>7, <2>1 DEF JobOK, FailureTells
<1> QED BY <1>8, <1>9, <1>10 DEF JobOK

LEMMA InitJobs == Init => \A j \in Job : JobOK(j)
<1> SUFFICES ASSUME Init, NEW j \in Job PROVE JobOK(j)
  OBVIOUS
<1>1. \A t \in Thread : at[t] = Free
  BY DEF Init
<1>2. Inside(j) = {}
  BY <1>1, FreeFacts DEF Inside
<1>3. ~flags[j]["running"] /\ flags[j]["failed"] = FALSE /\ last[j] = "never"
  BY DEF Init, Flag
<1>4. FailureTells(j)
  <2>1. flags[j]["failed"] = (last[j] = "bad")
    BY <1>3
  <2> QED BY <1>2, <2>1 DEF FailureTells
<1> QED BY <1>2, <1>3, <1>4 DEF JobOK, RunTells, MixedTold

\* Whatever a thread does, each job's flags tell what they told.
LEMMA NextJobs == FlagsOK /\ [Next]_vars => \A j \in Job : JobOK(j)'
<1> SUFFICES ASSUME FlagsOK, [Next]_vars, NEW j \in Job PROVE JobOK(j)'
  OBVIOUS
<1>0. /\ ThreadsOK /\ TypeOK /\ JobOK(j) /\ Main \in Thread
      /\ \A w \in Worker : w \in Thread
      /\ \A t \in Thread : PlaceOK(at[t])
  BY DEF FlagsOK, ThreadsOK, Thread
<1>1. ASSUME NEW t \in Thread, NEW k \in Job, Enters(t, k), at[t] = Free,
             UNCHANGED <<job, flags, last>>
      PROVE  JobOK(j)'
  <2>1. PICK x \in At : at' = [at EXCEPT ![t] = x] /\ x.job = k /\ x.pc = "check"
    BY <1>0, <1>1, EnterFacts
  <2>2. Moves(t, x)
    BY <1>0, <2>1, MoveFacts
  <2>3. at[t].job # j
    BY <1>1, FreeFacts
  <2>4. mixed' = IF Inside(k) # {} THEN mixed \cup {k} ELSE mixed
    BY <1>1 DEF Enters
  <2>5. CASE k = j
    BY <1>0, <1>1, <2>1, <2>2, <2>3, <2>4, <2>5, EnteredJob
  <2>6. CASE k # j
    <3>1. j \in mixed => j \in mixed'
      BY <2>4
    <3> QED BY <1>0, <1>1, <2>1, <2>2, <2>3, <2>6, <3>1, MovedElsewhere
  <2> QED BY <2>5, <2>6
<1>2. ASSUME NEW k \in Job, Execute(k) PROVE JobOK(j)'
  <2>1. at[Main] = Free
    BY <1>0, <1>2 DEF Execute, AtRest, PlaceOK
  <2> QED BY <1>0, <1>1, <1>2, <2>1 DEF Execute
<1>3. ASSUME NEW w \in Worker, Take(w) PROVE JobOK(j)'
  <2>1. Head(queue) \in Job
    BY <1>0, <1>3 DEF Take, TypeOK
  <2> QED BY <1>0, <1>1, <1>3, <2>1 DEF Take
<1>4. ASSUME UNCHANGED <<job, flags, at, last, mixed>> PROVE JobOK(j)'
  <2>1. Inside(j)' = Inside(j)
    BY <1>4 DEF Inside
  <2> QED BY <1>0, <1>4, <2>1, Untouched
<1>5. ASSUME NEW t \in Thread, Store(t) PROVE JobOK(j)'
  <2>1. CASE at[t].job = j
    BY <1>0, <1>5, <2>1, StoredInJob
  <2>2. CASE at[t].job # j
    <3>1. PICK x \in At : at' = [at EXCEPT ![t] = x] /\ x.job = at[t].job
      BY <1>0, <1>5, StoreFacts
    <3>2. Moves(t, x)
      BY <1>0, <3>1, MoveFacts
    <3>3. \A f : flags'[j][f] = flags[j][f]
      BY <1>0, <1>5, <2>2 DEF Store, TypeOK
    <3>4. UNCHANGED <<job, last, mixed>>
      BY <1>5 DEF Store, history
    <3> QED BY <1>0, <2>2, <3>1, <3>2, <3>3, <3>4, MovedElsewhere
  <2> QED BY <2>1, <2>2
<1>6. ASSUME NEW t \in Thread, Check(t) PROVE JobOK(j)'
  <2> DEFINE k == at[t].job
  <2>1. k \in Job /\ at[t].pc = "check"
        /\ \E b \in BOOLEAN : flags' = [flags EXCEPT ![k]["valid"] = b]
    BY <1>0, <1>6, CheckFacts
  <2>2. PICK x \in At :
            /\ at' = [at EXCEPT ![t] = x] /\ x.job = k
            /\ \/ x.pc = "work" /\ last' = last
               \/ /\ x.pc = "return" /\ last' = [last EXCEPT ![k] = "bad"]
                  /\ Told(k) => x.stores = Failed
    BY <1>0, <1>6, CheckFacts
  <2>3. Moves(t, x)
    BY <1>0, <2>2, MoveFacts
  <2>4. UNCHANGED <<job, mixed>>
    BY <1>6 DEF Check
  <2>5. \A f \in {"running", "failed", "executed"} : flags'[j][f] = flags[j][f]
    <3>1. flags \in [Job -> [Flag -> BOOLEAN]]
      BY <1>0 DEF TypeOK
    <3> HIDE DEF k
    <3> QED BY <2>1, <3>1 DEF Flag
  <2>6. CASE k # j
    <3>1. last'[j] = last[j]
      BY <1>0, <2>2, <2>6 DEF TypeOK
    <3> QED BY <1>0, <2>2, <2>3, <2>4, <2>5, <2>6, <3>1, MovedElsewhere
  <2>7. CASE k = j /\ x.pc = "work"
    <3>1. last' = last
      BY <2>2, <2>7
    <3> QED BY <1>0, <2>1, <2>2, <2>3, <2>4, <2>5, <2>7, <3>1, RunGoesOn
  <2>8. CASE k = j /\ x.pc = "return"
    <3>1. last' = [last EXCEPT ![j] = "bad"] /\ (Told(j) => x.stores = Failed)
      BY <2>2, <2>8
    <3>2. Told(j) => Ending(x.stores, TRUE)
      BY <3>1, EndStores, Zenon DEF Failed
    <3> QED BY <1>0, <2>1, <2>2, <2>3, <2>4, <2>5, <2>8, <3>1, <3>2, RunEnds
  <2> QED BY <2>2, <2>6, <2>7, <2>8
<1>7. ASSUME NEW t \in Thread, Work(t) PROVE JobOK(j)'
  <2>1. PICK x \in At : at' = [at EXCEPT ![t] = x] /\ x.job = at[t].job /\ x.pc = "end"
    BY <1>0, <1>7, WorkFacts
  <2>2. at[t].pc = "work"
    BY <1>0, <1>7, WorkFacts
  <2>3. Moves(t, x)
    BY <1>0, <2>1, MoveFacts
  <2>4. UNCHANGED <<job, flags, last, mixed>>
    BY <1>7 DEF Work, history
  <2>5. CASE at[t].job = j
    BY <1>0, <2>1, <2>2, <2>3, <2>4, <2>5, RunGoesOn
  <2>6. CASE at[t].job # j
    BY <1>0, <2>1, <2>3, <2>4, <2>6, MovedElsewhere
  <2> QED BY <2>5, <2>6
<1>8. ASSUME NEW t \in Thread, End(t) PROVE JobOK(j)'
  <2> DEFINE k == at[t].job
  <2>1. k \in Job /\ at[t].pc = "end"
    BY <1>0, <1>8, EndFacts
  <2>2. PICK x \in At, failed \in BOOLEAN, run \in Runs \ {"never"} :
            /\ at' = [at EXCEPT ![t] = x] /\ PlaceOK(x)
            /\ x.job = k /\ x.pc = "return" /\ x.stores = Stores(FALSE, failed, TRUE)
            /\ last' = [last EXCEPT ![k] = run]
            /\ run # "hidden" => failed = (run = "bad")
    BY <1>0, <1>8, EndFacts
  <2>3. Moves(t, x)
    BY <1>0, <2>2, MoveFacts
  <2>4. UNCHANGED <<job, mixed, flags>>
    BY <1>8 DEF End
  <2>5. CASE k # j
    <3>1. last'[j] = last[j]
      BY <1>0, <2>2, <2>5 DEF TypeOK
    <3> QED BY <1>0, <2>2, <2>3, <2>4, <2>5, <3>1, MovedElsewhere
  <2>6. CASE k = j
    <3>1. Ending(x.stores, failed)
      BY <2>2, EndStores, Zenon
    <3>2. last' = [last EXCEPT ![j] = run]
      BY <2>2, <2>6
    <3>3. x.job = j /\ x.pc = "return" /\ (run # "hidden" => failed = (run = "bad"))
      BY <2>2, <2>6
    <3>4. at[t].job = j /\ at[t].pc # "release"
      BY <2>1, <2>6
    <3>5. \A f \in {"running", "failed", "executed"} : flags'[j][f] = flags[j][f]
      BY <2>4
    <3> HIDE DEF k
    <3>6. \E g \in BOOLEAN : Ending(x.stores, g) /\ (run # "hidden" => g = (run = "bad"))
      BY <3>1, <3>3, Zenon
    <3> QED BY <1>0, <2>3, <2>4, <3>2, <3>3, <3>4, <3>5, <3>6, RunEnds
  <2> QED BY <2>5, <2>6
<1>9. ASSUME NEW t \in Thread, Leave(t) PROVE JobOK(j)'
  <2>1. CASE at[t].job = j
    BY <1>0, <1>9, <2>1, LeftJob
  <2>2. CASE at[t].job # j
    <3>1. PICK x \in At : /\ at' = [at EXCEPT ![t] = x]
                          /\ x.job \notin Job \/ x.pc = "release"
      BY <1>0, <1>9, LeaveFacts
    <3>2. Moves(t, x)
      BY <1>0, <3>1, MoveFacts
    <3>3. UNCHANGED <<job, flags, last, mixed>>
      BY <1>9 DEF Leave, Announce, Return, history
    <3> QED BY <1>0, <2>2, <3>1, <3>2, <3>3, MovedElsewhere
  <2> QED BY <2>1, <2>2
<1>10. ASSUME NEW w \in Worker, Release(w) PROVE JobOK(j)'
  <2>1. at' = [at EXCEPT ![w] = Free] /\ at[w].pc = "release"
    BY <1>0, <1>10, ReleaseFacts
  <2>2. Moves(w, Free)
    BY <1>0, <2>1, FreeFacts, MoveFacts
  <2>3. UNCHANGED <<job, flags, last, mixed>>
    BY <1>10 DEF Release, history
  <2> QED BY <1>0, <2>1, <2>2, <2>3, FreeFacts, MovedElsewhere
<1>11. ASSUME \/ \E k \in Job : Push(k) \/ Drop(k)
              \/ Finalize \/ Dispatch \/ Drained \/ Waited \/ UNCHANGED vars
       PROVE  UNCHANGED <<job, flags, at, last, mixed>>
  BY <1>11 DEF Push, Drop, Finalize, Dispatch, Drained, Waited, vars, history
<1> QED BY <1>0, <1>2, <1>3, <1>4, <1>5, <1>6, <1>7, <1>8, <1>9, <1>10, <1>11
        DEF Next, Application, WorkerStep, Inner, Leave

LEMMA FlagsInvariant == Spec => []FlagsOK
<1>1. Init => FlagsOK
  BY InitThreads, InitJobs DEF FlagsOK
<1>2. FlagsOK /\ [Next]_vars => FlagsOK'
  BY NextThreads, NextJobs DEF FlagsOK
<1> QED BY <1>1, <1>2, PTL DEF Spec

\* The variables keep their types, whatever threads a pool has.
THEOREM TypeInvariant == Spec => []TypeOK
<1>1. FlagsOK => TypeOK
  BY DEF FlagsOK, ThreadsOK
<1> QED BY <1>1, FlagsInvariant, PTL

\* However many threads run one job at once and in whatever order their stores
\* come, its flags tell how it went when they have left it.
THEOREM FlagsToldWell == Spec => []FlagsTell
<1>1. FlagsOK => FlagsTell
  <2> SUFFICES ASSUME FlagsOK, NEW j \in Job, Inside(j) = {}, last[j] # "never", Told(j)
               PROVE  /\ ~flags[j]["running"] /\ flags[j]["executed"]
                      /\ j \notin mixed /\ last[j] # "hidden" =>
                             flags[j]["failed"] = (last[j] = "bad")
    BY DEF FlagsTell, Told
  <2> QED BY DEF FlagsOK, JobOK, RunTells, FailureTells
<1> QED BY <1>1, FlagsInvariant, PTL

-----------------------------------------------------------------------------
(* References                                                              *)

\* The threads of the pool that have a job.
Busy(j) == {w \in Worker : at[w].job = j}

LEMMA BusyType ==
    ASSUME NEW j
    PROVE  IsFiniteSet(Busy(j)) /\ Cardinality(Busy(j)) \in Nat
<1>1. Busy(j) \in SUBSET Worker
  BY DEF Busy
<1>2. IsFiniteSet(Busy(j))
  BY <1>1, ThreadAssumption, FS_Subset
<1> QED BY <1>2, FS_CardinalityType

\* A thread that keeps its job, or is not of the pool, makes no difference.
LEMMA BusyKept ==
    ASSUME NEW j, NEW t \in Thread, NEW x, Moves(t, x), t \in Worker => x.job = at[t].job
    PROVE  Busy(j)' = Busy(j)
<1>1. \A w \in Worker : at'[w].job = at[w].job
  BY DEF Moves, Thread
<1> QED BY <1>1 DEF Busy

\* One that takes a job.
LEMMA BusyTaken ==
    ASSUME NEW j, NEW w \in Worker, NEW x, Moves(w, x), at[w].job # j
    PROVE  Cardinality(Busy(j)') = Cardinality(Busy(j)) + (IF x.job = j THEN 1 ELSE 0)
<1>1. at'[w] = x /\ \A v \in Worker \ {w} : at'[v] = at[v]
  BY DEF Moves, Thread
<1>2. w \notin Busy(j)
  BY DEF Busy
<1>3. CASE x.job = j
  <2>1. Busy(j)' = Busy(j) \cup {w}
    BY <1>1, <1>3 DEF Busy
  <2> QED BY <1>2, <1>3, <2>1, BusyType, FS_AddElement
<1>4. CASE x.job # j
  <2>1. Busy(j)' = Busy(j)
    BY <1>1, <1>2, <1>4 DEF Busy
  <2> QED BY <1>4, <2>1, BusyType
<1> QED BY <1>3, <1>4

\* One that gives its job up.
LEMMA BusyFreed ==
    ASSUME NEW j, NEW w \in Worker, NEW x, Moves(w, x), x.job # j
    PROVE  Cardinality(Busy(j)) = Cardinality(Busy(j)') + (IF at[w].job = j THEN 1 ELSE 0)
<1>1. at'[w] = x /\ \A v \in Worker \ {w} : at'[v] = at[v]
  BY DEF Moves, Thread
<1>2. CASE at[w].job = j
  <2>1. Busy(j)' = Busy(j) \ {w} /\ w \in Busy(j)
    BY <1>1, <1>2 DEF Busy
  <2>2. Cardinality(Busy(j) \ {w}) = Cardinality(Busy(j)) - 1
    BY <2>1, BusyType, FS_RemoveElement
  <2>3. Cardinality(Busy(j)) \in Nat
    BY BusyType
  <2> QED BY <1>2, <2>1, <2>2, <2>3
<1>3. CASE at[w].job # j
  <2>1. Busy(j)' = Busy(j)
    BY <1>1, <1>3 DEF Busy
  <2> QED BY <1>3, <2>1, BusyType
<1> QED BY <1>2, <1>3

\* The references of one job.
Holds(j) == IF j \in held THEN 1 ELSE 0
Fit(j) == refs[j] = Holds(j) + Times(j, queue) + Times(j, idles) + Cardinality(Busy(j))

LEMMA FitIsFit == ReferencesFit <=> \A j \in Job : Fit(j)
BY DEF ReferencesFit, Fit, Holds, Busy

LEMMA InitFit == Init => \A j \in Job : Fit(j)
<1> SUFFICES ASSUME Init, NEW j \in Job PROVE Fit(j)
  OBVIOUS
<1>1. Busy(j) = {}
  <2>1. \A w \in Worker : at[w] = Free
    BY DEF Init, Thread
  <2> QED BY <2>1, FreeFacts DEF Busy
<1>2. Times(j, queue) = 0 /\ Times(j, idles) = 0
  <2>1. {i \in DOMAIN <<>> : <<>>[i] = j} = {}
    OBVIOUS
  <2> QED BY <2>1, FS_EmptySet DEF Init, Times
<1>3. Cardinality(Busy(j)) = 0
  BY <1>1, FS_EmptySet
<1> QED BY <1>2, <1>3 DEF Init, Fit, Holds

\* Every step that uses a job, or ceases to, takes or gives up one reference.
LEMMA NextFit == CountOK /\ [Next]_vars => \A j \in Job : Fit(j)'
<1> SUFFICES ASSUME CountOK, [Next]_vars, NEW j \in Job PROVE Fit(j)'
  OBVIOUS
<1>0. /\ ThreadsOK /\ TypeOK /\ Fit(j) /\ Main \in Thread
      /\ \A w \in Worker : w \in Thread
      /\ queue \in Seq(Job) /\ idles \in Seq(Job) /\ refs \in [Job -> Int] /\ refs[j] \in Int
      /\ Times(j, queue) \in Nat /\ Times(j, idles) \in Nat
      /\ Cardinality(Busy(j)) \in Nat /\ Holds(j) \in Nat
  BY FitIsFit, TimesType, BusyType DEF CountOK, ThreadsOK, TypeOK, Thread, Holds
<1>1. ASSUME NEW t \in Thread, NEW x \in At, at' = [at EXCEPT ![t] = x],
             t \in Worker => x.job = at[t].job
      PROVE  Cardinality(Busy(j)') = Cardinality(Busy(j))
  <2>1. Moves(t, x)
    BY <1>0, <1>1, MoveFacts
  <2> QED BY <1>1, <2>1, BusyKept
<1>2. ASSUME NEW k \in Job, Execute(k) PROVE Fit(j)'
  <2>1. PICK x \in At : at' = [at EXCEPT ![Main] = x]
    BY <1>0, <1>2, EnterFacts DEF Execute
  <2>2. Cardinality(Busy(j)') = Cardinality(Busy(j))
    BY <1>0, <1>1, <2>1, ThreadAssumption
  <2> QED BY <1>0, <1>2, <2>2 DEF Execute, Fit, Holds
<1>3. ASSUME NEW k \in Job, Push(k) PROVE Fit(j)'
  <2>1. Times(j, queue') = Times(j, queue) + (IF k = j THEN 1 ELSE 0)
    BY <1>0, <1>3, TimesAppend DEF Push
  <2>2. Busy(j)' = Busy(j) /\ Holds(j)' = Holds(j) /\ idles' = idles
    BY <1>3 DEF Push, Busy, Holds
  <2>3. refs'[j] = refs[j] + (IF k = j THEN 1 ELSE 0)
    BY <1>0, <1>3 DEF Push
  <2> QED BY <1>0, <2>1, <2>2, <2>3 DEF Fit
<1>4. ASSUME NEW k \in Job, Drop(k) PROVE Fit(j)'
  <2> DEFINE one == IF k = j THEN 1 ELSE 0
  <2>1. Holds(j) = Holds(j)' + one
    BY <1>4 DEF Drop, Holds
  <2>2. Busy(j)' = Busy(j) /\ queue' = queue /\ idles' = idles
    BY <1>4 DEF Drop, Busy
  <2>3. refs'[j] = refs[j] - one
    BY <1>0, <1>4 DEF Drop
  <2>4. Holds(j)' \in Nat /\ one \in Nat
    BY DEF Holds
  <2> HIDE DEF one
  <2>5. refs[j] = Holds(j)' + one + Times(j, queue) + Times(j, idles) + Cardinality(Busy(j))
    BY <1>0, <2>1 DEF Fit
  <2>6. refs'[j] = Holds(j)' + Times(j, queue) + Times(j, idles) + Cardinality(Busy(j))
    BY <1>0, <2>3, <2>4, <2>5, SMTT(30)
  <2> QED BY <2>2, <2>6 DEF Fit
<1>5. CASE Dispatch
  <2> DEFINE one == IF Head(idles) = j THEN 1 ELSE 0
  <2>1. /\ Head(idles) \in Job /\ Tail(idles) \in Seq(Job)
        /\ Times(j, idles) = Times(j, Tail(idles)) + one
    BY <1>0, <1>5, TimesTail DEF Dispatch
  <2>2. Busy(j)' = Busy(j) /\ Holds(j)' = Holds(j) /\ queue' = queue /\ idles' = Tail(idles)
    BY <1>5 DEF Dispatch, Busy, Holds
  <2>3. refs'[j] = refs[j] - one
    BY <1>0, <1>5, <2>1 DEF Dispatch
  <2>4. Times(j, Tail(idles)) \in Nat /\ one \in Nat
    BY <2>1, TimesType
  <2> HIDE DEF one
  <2> QED BY <1>0, <2>1, <2>2, <2>3, <2>4, SMTT(30) DEF Fit
<1>6. ASSUME UNCHANGED <<at, queue, idles, refs, held>> PROVE Fit(j)'
  <2>1. Busy(j)' = Busy(j) /\ Holds(j)' = Holds(j)
    BY <1>6 DEF Busy, Holds
  <2> QED BY <1>0, <1>6, <2>1 DEF Fit
<1>7. ASSUME NEW w \in Worker, Take(w) PROVE Fit(j)'
  <2>1. /\ Head(queue) \in Job /\ Tail(queue) \in Seq(Job)
        /\ Times(j, queue) = Times(j, Tail(queue)) + (IF Head(queue) = j THEN 1 ELSE 0)
    BY <1>0, <1>7, TimesTail DEF Take
  <2>2. PICK x \in At : at' = [at EXCEPT ![w] = x] /\ x.job = Head(queue)
    <3>1. Enters(w, Head(queue))
      BY <1>7 DEF Take
    <3> QED BY <1>0, <2>1, <3>1, EnterFacts
  <2>3. at[w].job # j
    BY <1>7, FreeFacts DEF Take
  <2>4. Cardinality(Busy(j)') = Cardinality(Busy(j)) + (IF Head(queue) = j THEN 1 ELSE 0)
    BY <1>0, <2>2, <2>3, MoveFacts, BusyTaken
  <2>5. Holds(j)' = Holds(j) /\ UNCHANGED <<refs, idles>> /\ queue' = Tail(queue)
    BY <1>7 DEF Take, Holds
  <2>6. Times(j, Tail(queue)) \in Nat
    BY <2>1, TimesType
  <2> QED BY <1>0, <2>1, <2>4, <2>5, <2>6, SMTT(30) DEF Fit
<1>8. ASSUME NEW t \in Thread, Store(t) PROVE Fit(j)'
  <2>1. PICK x \in At : at' = [at EXCEPT ![t] = x] /\ x.job = at[t].job
    BY <1>0, <1>8, StoreFacts
  <2> QED BY <1>0, <1>1, <1>8, <2>1 DEF Store, Fit, Holds
<1>9. ASSUME NEW t \in Thread, Check(t) PROVE Fit(j)'
  <2>1. PICK x \in At : at' = [at EXCEPT ![t] = x] /\ x.job = at[t].job
    BY <1>0, <1>9, CheckFacts
  <2> QED BY <1>0, <1>1, <1>9, <2>1 DEF Check, Fit, Holds
<1>10. ASSUME NEW t \in Thread, Work(t) PROVE Fit(j)'
  <2>1. PICK x \in At : at' = [at EXCEPT ![t] = x] /\ x.job = at[t].job
    BY <1>0, <1>10, WorkFacts
  <2> QED BY <1>0, <1>1, <1>10, <2>1 DEF Work, Fit, Holds
\* A source of the main context is left with a reference of its own.
<1>11. ASSUME NEW k \in Job, idles' = Append(idles, k), refs' = [refs EXCEPT ![k] = @ + 1],
              UNCHANGED <<queue, held>>, Cardinality(Busy(j)') = Cardinality(Busy(j))
       PROVE  Fit(j)'
  <2>1. Times(j, idles') = Times(j, idles) + (IF k = j THEN 1 ELSE 0)
    BY <1>0, <1>11, TimesAppend
  <2>2. refs'[j] = refs[j] + (IF k = j THEN 1 ELSE 0)
    BY <1>0, <1>11
  <2>3. Holds(j)' = Holds(j) /\ queue' = queue
    BY <1>11 DEF Holds
  <2> QED BY <1>0, <1>11, <2>1, <2>2, <2>3, SMTT(30) DEF Fit
<1>12. ASSUME NEW t \in Thread, End(t) PROVE Fit(j)'
  <2>1. PICK x \in At : at' = [at EXCEPT ![t] = x] /\ x.job = at[t].job
    BY <1>0, <1>12, EndFacts
  <2>2. Cardinality(Busy(j)') = Cardinality(Busy(j)) /\ UNCHANGED <<queue, held>>
    BY <1>1, <1>12, <2>1 DEF End
  <2>3. CASE Leaves(t)
    <3>1. at[t].job \in Job
      BY <1>0, <1>12, EndFacts
    <3>2. idles' = Append(idles, at[t].job) /\ refs' = [refs EXCEPT ![at[t].job] = @ + 1]
      BY <1>12, <2>3 DEF End
    <3> QED BY <1>11, <2>2, <3>1, <3>2
  <2>4. CASE ~Leaves(t)
    <3>1. idles' = idles /\ refs' = refs
      BY <1>12, <2>4 DEF End
    <3> QED BY <1>0, <2>2, <3>1 DEF Fit, Holds
  <2> QED BY <2>3, <2>4
<1>13. ASSUME NEW w \in Worker, Announce(w) PROVE Fit(j)'
  <2>1. PICK x \in At : at' = [at EXCEPT ![w] = x] /\ x.job = at[w].job
    BY <1>0, <1>13, LeaveFacts DEF Leave
  <2>2. at[w].job \in Job
    BY <1>0, <1>13, LeaveFacts DEF Leave
  <2>3. Cardinality(Busy(j)') = Cardinality(Busy(j))
    BY <1>0, <1>1, <2>1
  <2> QED BY <1>11, <1>13, <2>2, <2>3 DEF Announce
<1>14. CASE Return
  <2>1. Cardinality(Busy(j)') = Cardinality(Busy(j))
    BY <1>0, <1>1, <1>14, FreeFacts, ThreadAssumption DEF Return
  <2> QED BY <1>0, <1>14, <2>1 DEF Return, Fit, Holds
<1>15. ASSUME NEW w \in Worker, Release(w) PROVE Fit(j)'
  <2>1. at' = [at EXCEPT ![w] = Free] /\ at[w].job \in Job
    BY <1>0, <1>15, ReleaseFacts
  <2>2. Moves(w, Free) /\ Free.job # j
    BY <1>0, <2>1, FreeFacts, MoveFacts
  <2>3. Cardinality(Busy(j)) = Cardinality(Busy(j)') + (IF at[w].job = j THEN 1 ELSE 0)
    BY <2>2, BusyFreed
  <2>4. refs'[j] = refs[j] - (IF at[w].job = j THEN 1 ELSE 0)
    BY <1>0, <1>15, <2>1 DEF Release
  <2>5. Holds(j)' = Holds(j) /\ UNCHANGED <<queue, idles>>
    BY <1>15 DEF Release, Holds
  <2>6. Cardinality(Busy(j)') \in Nat
    <3>1. Busy(j)' \in SUBSET Worker
      BY DEF Busy
    <3> QED BY <3>1, ThreadAssumption, FS_Subset, FS_CardinalityType
  <2> QED BY <1>0, <2>3, <2>4, <2>5, <2>6 DEF Fit
<1>16. ASSUME Finalize \/ Drained \/ Waited \/ UNCHANGED vars
       PROVE  UNCHANGED <<at, queue, idles, refs, held>>
  BY <1>16 DEF Finalize, Drained, Waited, vars, history
<1> QED BY <1>0, <1>2, <1>3, <1>4, <1>5, <1>6, <1>7, <1>8, <1>9, <1>10, <1>12, <1>13, <1>14,
           <1>15, <1>16 DEF Next, Application, WorkerStep, Inner

LEMMA CountInvariant == Spec => []CountOK
<1>1. Init => CountOK
  BY InitThreads, InitFit, FitIsFit DEF CountOK
<1>2. CountOK /\ [Next]_vars => CountOK'
  <2> SUFFICES ASSUME CountOK, [Next]_vars PROVE CountOK'
    OBVIOUS
  <2>1. ThreadsOK'
    BY NextThreads DEF CountOK
  <2>2. \A j \in Job : Fit(j)'
    BY NextFit
  <2>3. ReferencesFit'
    BY <2>2 DEF ReferencesFit, Fit, Holds, Busy
  <2> QED BY <2>1, <2>3 DEF CountOK
<1> QED BY <1>1, <1>2, PTL DEF Spec

\* A job has a reference for each task, thread and source that will use it, and
\* no other, whatever the application drops and however often it pushes.
THEOREM ReferencesCounted == Spec => []ReferencesFit
<1>1. CountOK => ReferencesFit
  BY DEF CountOK
<1> QED BY <1>1, CountInvariant, PTL

\* A job is kept while anybody will use it and no longer, and its flags tell how
\* it went, for any pool of threads.
THEOREM JobsAreHeld == Spec => []JobsHold
<1>1. ReferencesFit /\ FlagsTell => JobsHold
  BY DEF JobsHold
<1> QED BY <1>1, ReferencesCounted, FlagsToldWell, PTL

-----------------------------------------------------------------------------
(* Queries by columns: sets of the results' members                        *)

\* Induction over the numbers, without an operator as a parameter.
LEMMA NumbersAll ==
    ASSUME NEW S \in SUBSET Nat, 0 \in S, \A n \in S : n + 1 \in S
    PROVE  S = Nat
<1> SUFFICES ASSUME Nat \ S # {} PROVE FALSE
  OBVIOUS
<1>1. PICK T : T = Nat \ S
  OBVIOUS
<1>2. PICK n \in T : \A k \in T : ~(<<k, n>> \in OpToRel(<, Nat))
  BY <1>1, NatLessThanWellFounded, WFMin
<1>3. n \in Nat /\ n \notin S /\ \A k \in Nat : k \notin S => ~(k < n)
  BY <1>1, <1>2 DEF OpToRel
<1>4. n # 0 /\ n - 1 \in S
  BY <1>3
<1> QED BY <1>3, <1>4

LEMMA OfEachIs ==
    ASSUME NEW ks, NEW sets
    PROVE  \A x : x \in OfEach(ks, sets) <=> \E k \in ks : \E y \in sets[k] : x = <<k, y>>
BY DEF OfEach

LEMMA OfEachFinite ==
    ASSUME NEW ks, IsFiniteSet(ks), NEW sets, \A k \in ks : IsFiniteSet(sets[k])
    PROVE  /\ IsFiniteSet(OfEach(ks, sets))
           /\ Cardinality(OfEach(ks, sets)) \in Nat
<1>1. PICK T : T = {{k} \X sets[k] : k \in ks}
  OBVIOUS
<1>2. PICK f : f = [k \in ks |-> {k} \X sets[k]]
  OBVIOUS
<1>3. f \in Surjection(ks, T)
  BY <1>1, <1>2 DEF Surjection
<1>4. IsFiniteSet(T)
  BY <1>3, FS_Surjection
<1>5. \A x \in T : IsFiniteSet(x)
  <2>1. SUFFICES ASSUME NEW k \in ks PROVE IsFiniteSet({k} \X sets[k])
    BY <1>1
  <2>2. IsFiniteSet({k}) /\ IsFiniteSet(sets[k])
    BY FS_Singleton
  <2> QED BY <2>2, FS_Product
<1>6. IsFiniteSet(UNION T)
  BY <1>4, <1>5, FS_UNION
<1>7. OfEach(ks, sets) = UNION T
  BY <1>1 DEF OfEach
<1> QED BY <1>6, <1>7, FS_CardinalityType

\* One more of them.
LEMMA OfEachMore ==
    ASSUME NEW ks, IsFiniteSet(ks), NEW sets, \A k \in ks : IsFiniteSet(sets[k]),
           NEW k, k \notin ks, IsFiniteSet(sets[k])
    PROVE  Cardinality(OfEach(ks \cup {k}, sets)) =
               Cardinality(OfEach(ks, sets)) + Cardinality(sets[k])
<1>1. PICK A, B : A = OfEach(ks, sets) /\ B = {k} \X sets[k]
  OBVIOUS
<1>2. IsFiniteSet(A) /\ Cardinality(A) \in Nat
  BY <1>1, OfEachFinite
<1>3. IsFiniteSet({k}) /\ Cardinality({k}) = 1
  BY FS_Singleton
<1>4. IsFiniteSet(B) /\ Cardinality(B) = 1 * Cardinality(sets[k]) /\ Cardinality(sets[k]) \in Nat
  BY <1>1, <1>3, FS_Product, FS_CardinalityType
<1>5. OfEach(ks \cup {k}, sets) = A \cup B
  BY <1>1 DEF OfEach
<1>6. A \cap B = {}
  <2>1. \A x \in A : \E j \in ks : \E y \in sets[j] : x = <<j, y>>
    BY <1>1, OfEachIs
  <2>2. \A x \in B : \E y \in sets[k] : x = <<k, y>>
    BY <1>1
  <2> QED BY <2>1, <2>2
<1>7. Cardinality(A \cup B) = Cardinality(A) + Cardinality(B) - 0
  BY <1>2, <1>4, <1>6, FS_Union, FS_EmptySet
<1>8. PICK a \in Nat, b \in Nat : a = Cardinality(A) /\ b = Cardinality(sets[k])
  BY <1>2, <1>4
<1>9. Cardinality(B) = b
  BY <1>4, <1>8
<1>10. Cardinality(A \cup B) = a + b
  BY <1>7, <1>8, <1>9
<1> QED BY <1>1, <1>5, <1>8, <1>10

LEMMA OfEachSame ==
    ASSUME NEW ks, NEW s, NEW t, \A k \in ks : s[k] = t[k]
    PROVE  OfEach(ks, s) = OfEach(ks, t)
<1>1. \A x : x \in OfEach(ks, s) <=> x \in OfEach(ks, t)
  BY OfEachIs
<1> QED BY <1>1

LEMMA PlacesFinite ==
    ASSUME NEW c, NEW cs, Len(cs) \in Nat, DOMAIN cs = 1 .. Len(cs)
    PROVE  /\ IsFiniteSet(Places(c, cs)) /\ Count(c, cs) \in Nat
           /\ \A ps : /\ IsFiniteSet(ps \cap Places(c, cs))
                      /\ Cardinality(ps \cap Places(c, cs)) \in Nat
                      /\ Cardinality(ps \cap Places(c, cs)) =< Count(c, cs)
<1>1. IsFiniteSet(1 .. Len(cs))
  BY FS_Interval
<1>2. Places(c, cs) \in SUBSET (1 .. Len(cs))
  BY DEF Places
<1>3. IsFiniteSet(Places(c, cs))
  BY <1>1, <1>2, FS_Subset
<1>4. ASSUME NEW ps
      PROVE  /\ IsFiniteSet(ps \cap Places(c, cs))
             /\ Cardinality(ps \cap Places(c, cs)) =< Cardinality(Places(c, cs))
  <2>1. ps \cap Places(c, cs) \in SUBSET Places(c, cs)
    OBVIOUS
  <2> QED BY <1>3, <2>1, FS_Subset
<1> QED BY <1>3, <1>4, FS_CardinalityType DEF Count

\* One more at the end.
LEMMA CountMore ==
    ASSUME NEW C, NEW cs \in Seq(C), NEW d \in C, NEW c
    PROVE  Count(c, Append(cs, d)) = Count(c, cs) + (IF c = d THEN 1 ELSE 0)
<1>1. PICK n \in Nat : n = Len(cs)
  OBVIOUS
<1>2. PICK ds : ds = Append(cs, d)
  OBVIOUS
<1>3. DOMAIN ds = 1 .. n + 1 /\ (\A i \in 1 .. n : ds[i] = cs[i]) /\ ds[n + 1] = d
      /\ DOMAIN cs = 1 .. n
  BY <1>1, <1>2
<1>4. Places(c, ds) = IF c = d THEN Places(c, cs) \cup {n + 1} ELSE Places(c, cs)
  BY <1>3 DEF Places
<1>5. n + 1 \notin Places(c, cs)
  BY <1>3 DEF Places
<1>6. IsFiniteSet(Places(c, cs)) /\ Count(c, cs) \in Nat
  BY <1>1, <1>3, PlacesFinite
<1>7. Cardinality(Places(c, cs) \cup {n + 1}) = Count(c, cs) + 1
  BY <1>5, <1>6, FS_AddElement DEF Count
<1> QED BY <1>2, <1>4, <1>6, <1>7 DEF Count

-----------------------------------------------------------------------------
(* Queries by columns: the targets of a statement                          *)

TargetsOf == [table : {c.table : c \in Column}, as : {c.as : c \in Column}]

\* Of the first n columns: each table once.
FromColumns(ts, cs, n) ==
    /\ ts \in Seq(TargetsOf)
    /\ \A i \in 1 .. Len(ts) : \E k \in 1 .. n : ts[i] = Target(cs[k])
    /\ \A i, k \in 1 .. Len(ts) : i < k => ts[i].table # ts[k].table

LEMMA OfColumnFrom ==
    ASSUME NEW cs \in Seq(Column), NEW n \in Nat, n + 1 =< Len(cs), NEW ts, FromColumns(ts, cs, n)
    PROVE  FromColumns(OfColumn(ts, cs[n + 1]), cs, n + 1)
<1>1. PICK l \in Nat : l = Len(ts)
  BY DEF FromColumns
<1>2. /\ ts \in Seq(TargetsOf) /\ DOMAIN ts = 1 .. l
      /\ \A i \in 1 .. l : \E k \in 1 .. n : ts[i] = Target(cs[k])
      /\ \A i, k \in 1 .. l : i < k => ts[i].table # ts[k].table
  BY <1>1 DEF FromColumns
<1>3. PICK c \in Column : c = cs[n + 1]
  OBVIOUS
<1>4. /\ \A k \in 1 .. n : k \in 1 .. n + 1
      /\ n + 1 \in 1 .. n + 1
  OBVIOUS
<1>5. CASE \E i \in DOMAIN ts : ts[i].table = c.table
  <2>1. OfColumn(ts, c) = ts
    BY <1>5 DEF OfColumn
  <2> QED BY <1>1, <1>2, <1>3, <1>4, <2>1 DEF FromColumns
<1>6. CASE ~\E i \in DOMAIN ts : ts[i].table = c.table
  <2>1. PICK d \in TargetsOf : d = Target(c)
    BY DEF TargetsOf, Target
  <2>2. PICK us : us = Append(ts, d)
    OBVIOUS
  <2>3. OfColumn(ts, c) = us
    BY <1>6, <2>1, <2>2 DEF OfColumn
  <2>4. us \in Seq(TargetsOf) /\ Len(us) = l + 1 /\ (\A i \in 1 .. l : us[i] = ts[i])
        /\ us[l + 1] = d
    BY <1>1, <1>2, <2>2, AppendProperties
  <2>5. \A i \in 1 .. l + 1 : i \in 1 .. l \/ i = l + 1
    OBVIOUS
  <2>6. \A i \in 1 .. l + 1 : \E k \in 1 .. n + 1 : us[i] = Target(cs[k])
    BY <1>2, <1>3, <1>4, <2>1, <2>4, <2>5
  <2>7. d.table = c.table
    BY <2>1 DEF Target
  <2>8. ASSUME NEW i \in 1 .. l + 1, NEW k \in 1 .. l + 1, i < k PROVE us[i].table # us[k].table
    <3>1. i \in 1 .. l
      BY <2>8
    <3>2. CASE k \in 1 .. l
      BY <1>2, <2>4, <2>8, <3>1, <3>2
    <3>3. CASE k = l + 1
      BY <1>2, <1>6, <2>4, <2>7, <3>1, <3>3
    <3> QED BY <2>5, <3>2, <3>3
  <2> QED BY <1>3, <2>3, <2>4, <2>6, <2>8 DEF FromColumns
<1> QED BY <1>5, <1>6

LEMMA ColumnTargetsFrom ==
    ASSUME NEW cs \in Seq(Column)
    PROVE  FromColumns(ColumnTargets(cs), cs, Len(cs))
<1>1. PICK N \in Nat : N = Len(cs)
  OBVIOUS
<1>2. PICK S : S = {n \in Nat : \E f : f = [i \in 0 .. n |->
                        IF i = 0 THEN <<>> ELSE OfColumn(f[i - 1], cs[i])]}
  OBVIOUS
<1>3. 0 \in S
  <2>1. PICK f : f = [i \in 0 .. 0 |-> <<>>]
    OBVIOUS
  <2>2. f = [i \in 0 .. 0 |-> IF i = 0 THEN <<>> ELSE OfColumn(f[i - 1], cs[i])]
    BY <2>1
  <2> QED BY <1>2, <2>2
<1>4. ASSUME NEW n \in S PROVE n + 1 \in S
  <2>1. n \in Nat
    BY <1>2
  <2>2. PICK f : f = [i \in 0 .. n |-> IF i = 0 THEN <<>> ELSE OfColumn(f[i - 1], cs[i])]
    BY <1>2
  <2>3. PICK g : g = [i \in 0 .. n + 1 |-> IF i = 0 THEN <<>> ELSE OfColumn(f[i - 1], cs[i])]
    OBVIOUS
  <2>4. \A i \in 0 .. n : g[i] = f[i]
    BY <2>1, <2>2, <2>3
  <2>5. \A i \in 0 .. n + 1 : i # 0 => i - 1 \in 0 .. n
    BY <2>1
  <2>6. g = [i \in 0 .. n + 1 |-> IF i = 0 THEN <<>> ELSE OfColumn(g[i - 1], cs[i])]
    BY <2>3, <2>4, <2>5
  <2> QED BY <1>2, <2>1, <2>6
<1>5. S = Nat
  BY <1>2, <1>3, <1>4, NumbersAll
<1>6. \E f : f = [i \in 0 .. N |-> IF i = 0 THEN <<>> ELSE OfColumn(f[i - 1], cs[i])]
  BY <1>2, <1>5
<1>7. PICK f : f = CHOOSE h : h = [i \in 0 .. N |->
                        IF i = 0 THEN <<>> ELSE OfColumn(h[i - 1], cs[i])]
  OBVIOUS
<1>8. f = [i \in 0 .. N |-> IF i = 0 THEN <<>> ELSE OfColumn(f[i - 1], cs[i])]
  BY <1>6, <1>7
<1>9. ColumnTargets(cs) = f[N]
  BY <1>1, <1>7 DEF ColumnTargets
<1>10. PICK R : R = {n \in Nat : n =< N => FromColumns(f[n], cs, n)}
  OBVIOUS
<1>11. 0 \in R
  <2>1. f[0] = <<>>
    BY <1>8
  <2>2. <<>> \in Seq(TargetsOf) /\ Len(<<>>) = 0 /\ \A i \in 1 .. 0 : FALSE
    OBVIOUS
  <2>3. FromColumns(<<>>, cs, 0)
    BY <2>2 DEF FromColumns
  <2> QED BY <1>10, <2>1, <2>3
<1>12. ASSUME NEW n \in R PROVE n + 1 \in R
  <2>1. n \in Nat
    BY <1>10
  <2>2. CASE n + 1 =< N
    <3>1. FromColumns(f[n], cs, n)
      BY <1>10, <2>1, <2>2
    <3>2. f[n + 1] = OfColumn(f[n], cs[n + 1])
      BY <1>8, <2>1, <2>2
    <3> QED BY <1>1, <1>10, <2>1, <2>2, <3>1, <3>2, OfColumnFrom
  <2>3. CASE ~(n + 1 =< N)
    BY <1>10, <2>1, <2>3
  <2> QED BY <2>2, <2>3
<1>13. R = Nat
  BY <1>10, <1>11, <1>12, NumbersAll
<1> QED BY <1>1, <1>9, <1>10, <1>13

\* With n joins more: no qualifier comes twice by them.
FromJoins(ts, base, js, n) ==
    /\ ts \in Seq(TargetsOf) /\ Len(base) =< Len(ts)
    /\ \A i \in 1 .. Len(base) : ts[i] = base[i]
    /\ \A i \in 1 .. Len(ts) : i > Len(base) => \E k \in 1 .. n : ts[i] = Target(js[k][2])
    /\ \A i, k \in 1 .. Len(ts) : i < k /\ k > Len(base) => ts[i].as # ts[k].as

LEMMA OfJoinFrom ==
    ASSUME NEW js \in Seq(Column \X Column), NEW n \in Nat, n + 1 =< Len(js), NEW ts, NEW base,
           Len(base) \in Nat, FromJoins(ts, base, js, n)
    PROVE  FromJoins(OfJoin(ts, js[n + 1]), base, js, n + 1)
<1>1. PICK l \in Nat : l = Len(ts)
  BY DEF FromJoins
<1>2. PICK b \in Nat : b = Len(base)
  OBVIOUS
<1>3. /\ ts \in Seq(TargetsOf) /\ DOMAIN ts = 1 .. l /\ b =< l
      /\ \A i \in 1 .. b : ts[i] = base[i]
      /\ \A i \in 1 .. l : i > b => \E k \in 1 .. n : ts[i] = Target(js[k][2])
      /\ \A i, k \in 1 .. l : i < k /\ k > b => ts[i].as # ts[k].as
  BY <1>1, <1>2 DEF FromJoins
<1>4. PICK c \in Column : c = js[n + 1][2]
  <2>1. js[n + 1] \in Column \X Column
    OBVIOUS
  <2> QED BY <2>1
<1>5. /\ \A k \in 1 .. n : k \in 1 .. n + 1
      /\ n + 1 \in 1 .. n + 1
  OBVIOUS
<1>6. CASE \E i \in DOMAIN ts : ts[i].as = c.as
  <2>1. OfJoin(ts, js[n + 1]) = ts
    BY <1>4, <1>6 DEF OfJoin
  <2>2. \A i \in 1 .. l : i > b => \E k \in 1 .. n + 1 : ts[i] = Target(js[k][2])
    BY <1>3, <1>5
  <2> QED BY <1>1, <1>2, <1>3, <2>1, <2>2 DEF FromJoins
<1>7. CASE ~\E i \in DOMAIN ts : ts[i].as = c.as
  <2>1. PICK d \in TargetsOf : d = Target(c)
    BY DEF TargetsOf, Target
  <2>2. PICK us : us = Append(ts, d)
    OBVIOUS
  <2>3. OfJoin(ts, js[n + 1]) = us
    BY <1>4, <1>7, <2>1, <2>2 DEF OfJoin
  <2>4. us \in Seq(TargetsOf) /\ Len(us) = l + 1 /\ (\A i \in 1 .. l : us[i] = ts[i])
        /\ us[l + 1] = d
    BY <1>1, <1>3, <2>2, AppendProperties
  <2>5. /\ \A i \in 1 .. l + 1 : i \in 1 .. l \/ i = l + 1
        /\ \A i \in 1 .. b : i \in 1 .. l
        /\ b =< l + 1
    BY <1>3
  <2>6. \A i \in 1 .. l + 1 : i > b => \E k \in 1 .. n + 1 : us[i] = Target(js[k][2])
    BY <1>3, <1>4, <1>5, <2>1, <2>4, <2>5
  <2>7. d.as = c.as
    BY <2>1 DEF Target
  <2>8. ASSUME NEW i \in 1 .. l + 1, NEW k \in 1 .. l + 1, i < k, k > b PROVE us[i].as # us[k].as
    <3>1. i \in 1 .. l
      BY <2>8
    <3>2. CASE k \in 1 .. l
      BY <1>3, <2>4, <2>8, <3>1, <3>2
    <3>3. CASE k = l + 1
      BY <1>3, <1>7, <2>4, <2>7, <3>1, <3>3
    <3> QED BY <2>5, <3>2, <3>3
  <2>9. \A i \in 1 .. b : us[i] = base[i]
    BY <1>3, <2>4, <2>5
  <2> QED BY <1>2, <2>3, <2>4, <2>5, <2>6, <2>8, <2>9 DEF FromJoins
<1> QED BY <1>6, <1>7

LEMMA TargetsFrom ==
    ASSUME NEW cs \in Seq(Column), NEW js \in Seq(Column \X Column)
    PROVE  FromJoins(Targets(cs, js), ColumnTargets(cs), js, Len(js))
<1>1. PICK N \in Nat : N = Len(js)
  OBVIOUS
<1>a. PICK base : base = ColumnTargets(cs)
  OBVIOUS
<1>b. base \in Seq(TargetsOf)
  BY <1>a, ColumnTargetsFrom DEF FromColumns
<1>2. PICK S : S = {n \in Nat : \E f : f = [i \in 0 .. n |->
                        IF i = 0 THEN base ELSE OfJoin(f[i - 1], js[i])]}
  OBVIOUS
<1>3. 0 \in S
  <2>1. PICK f : f = [i \in 0 .. 0 |-> base]
    OBVIOUS
  <2>2. f = [i \in 0 .. 0 |-> IF i = 0 THEN base ELSE OfJoin(f[i - 1], js[i])]
    BY <2>1
  <2> QED BY <1>2, <2>2
<1>4. ASSUME NEW n \in S PROVE n + 1 \in S
  <2>1. n \in Nat
    BY <1>2
  <2>2. PICK f : f = [i \in 0 .. n |-> IF i = 0 THEN base ELSE OfJoin(f[i - 1], js[i])]
    BY <1>2
  <2>3. PICK g : g = [i \in 0 .. n + 1 |-> IF i = 0 THEN base ELSE OfJoin(f[i - 1], js[i])]
    OBVIOUS
  <2>4. \A i \in 0 .. n : g[i] = f[i]
    BY <2>1, <2>2, <2>3
  <2>5. \A i \in 0 .. n + 1 : i # 0 => i - 1 \in 0 .. n
    BY <2>1
  <2>6. g = [i \in 0 .. n + 1 |-> IF i = 0 THEN base ELSE OfJoin(g[i - 1], js[i])]
    BY <2>3, <2>4, <2>5
  <2> QED BY <1>2, <2>1, <2>6
<1>5. S = Nat
  BY <1>2, <1>3, <1>4, NumbersAll
<1>6. \E f : f = [i \in 0 .. N |-> IF i = 0 THEN base ELSE OfJoin(f[i - 1], js[i])]
  BY <1>2, <1>5
<1>7. PICK f : f = CHOOSE h : h = [i \in 0 .. N |->
                        IF i = 0 THEN base ELSE OfJoin(h[i - 1], js[i])]
  OBVIOUS
<1>8. f = [i \in 0 .. N |-> IF i = 0 THEN base ELSE OfJoin(f[i - 1], js[i])]
  BY <1>6, <1>7
<1>9. Targets(cs, js) = f[N]
  BY <1>1, <1>a, <1>7 DEF Targets
<1>10. PICK R : R = {n \in Nat : n =< N => FromJoins(f[n], base, js, n)}
  OBVIOUS
<1>11. 0 \in R
  <2>1. f[0] = base
    BY <1>8
  <2>2. PICK b \in Nat : b = Len(base)
    BY <1>b
  <2>3. \A i \in 1 .. b : ~(i > b)
    OBVIOUS
  <2>4. FromJoins(base, base, js, 0)
    BY <1>b, <2>2, <2>3 DEF FromJoins
  <2> QED BY <1>10, <2>1, <2>4
<1>12. ASSUME NEW n \in R PROVE n + 1 \in R
  <2>1. n \in Nat
    BY <1>10
  <2>2. CASE n + 1 =< N
    <3>1. FromJoins(f[n], base, js, n)
      BY <1>10, <2>1, <2>2
    <3>2. f[n + 1] = OfJoin(f[n], js[n + 1])
      BY <1>8, <2>1, <2>2
    <3>3. Len(base) \in Nat
      BY <1>b
    <3>4. n + 1 =< Len(js)
      BY <1>1, <2>2
    <3>5. FromJoins(OfJoin(f[n], js[n + 1]), base, js, n + 1)
      BY <2>1, <3>1, <3>3, <3>4, OfJoinFrom
    <3> QED BY <1>10, <2>1, <3>2, <3>5
  <2>3. CASE ~(n + 1 =< N)
    BY <1>10, <2>1, <2>3
  <2> QED BY <2>2, <2>3
<1>13. R = Nat
  BY <1>10, <1>11, <1>12, NumbersAll
<1> QED BY <1>1, <1>a, <1>9, <1>10, <1>13

\* What FROM and its joins name.
NamedBy(cs, joined, ts) ==
    LET named == ToSet(cs) \cup UNION {ToSet(j) : j \in joined}
    IN (\A c, d \in named : c.as = d.as => c.table = d.table) =>
         /\ \A c \in named : c.as # "none" => \E i \in DOMAIN ts :
               /\ ts[i] = [table |-> c.table, as |-> c.as]
               /\ {k \in DOMAIN ts : ts[k].as = c.as} = {i}
         /\ \A i, k \in DOMAIN ts : i < k /\ ts[i].table = ts[k].table =>
               \E j \in joined : j[2].as = ts[k].as

LEMMA TargetsNamed ==
    ASSUME NEW cs \in Seq(Column), NEW js \in Seq(Column \X Column), NEW ts, ts = Targets(cs, js),
           {c.as : c \in ToSet(cs) \cup UNION {ToSet(js[i]) : i \in DOMAIN js}} \ {"none"}
               \subseteq {ts[i].as : i \in DOMAIN ts}
    PROVE  NamedBy(cs, ToSet(js), ts)
<1>1. PICK base : base = ColumnTargets(cs)
  OBVIOUS
<1>2. PICK n \in Nat, m \in Nat : n = Len(cs) /\ m = Len(js)
  OBVIOUS
<1>3. FromColumns(base, cs, n) /\ FromJoins(ts, base, js, m)
  BY <1>1, <1>2, ColumnTargetsFrom, TargetsFrom
<1>4. PICK b \in Nat, l \in Nat : b = Len(base) /\ l = Len(ts)
  BY <1>3 DEF FromColumns, FromJoins
<1>5. /\ \A i \in 1 .. b : \E k \in 1 .. n : base[i] = Target(cs[k])
      /\ \A i, k \in 1 .. b : i < k => base[i].table # base[k].table
  BY <1>3, <1>4 DEF FromColumns
<1>6. /\ DOMAIN ts = 1 .. l /\ b =< l
      /\ \A i \in 1 .. b : ts[i] = base[i]
      /\ \A i \in 1 .. l : i > b => \E k \in 1 .. m : ts[i] = Target(js[k][2])
      /\ \A i, k \in 1 .. l : i < k /\ k > b => ts[i].as # ts[k].as
  BY <1>3, <1>4 DEF FromJoins
<1>7. PICK named : named = ToSet(cs) \cup UNION {ToSet(j) : j \in ToSet(js)}
  OBVIOUS
<1>8. /\ \A k \in 1 .. n : cs[k] \in named
      /\ \A k \in 1 .. m : js[k][2] \in named /\ js[k] \in ToSet(js)
  <2>1. \A k \in 1 .. n : cs[k] \in ToSet(cs)
    BY <1>2 DEF ToSet
  <2>2. ASSUME NEW k \in 1 .. m PROVE js[k][2] \in ToSet(js[k]) /\ js[k] \in ToSet(js)
    <3>1. js[k] \in Column \X Column
      BY <1>2
    <3>2. PICK x \in Column, y \in Column : js[k] = <<x, y>>
      BY <3>1
    <3>3. 2 \in DOMAIN <<x, y>> /\ <<x, y>>[2] = y
      OBVIOUS
    <3> QED BY <1>2, <3>2, <3>3 DEF ToSet
  <2> QED BY <1>7, <2>1, <2>2
<1>9. \A c \in named : c.as # "none" => \E i \in 1 .. l : ts[i].as = c.as
  <2>1. ToSet(js) = {js[i] : i \in DOMAIN js}
    BY DEF ToSet
  <2>2. UNION {ToSet(j) : j \in ToSet(js)} = UNION {ToSet(js[i]) : i \in DOMAIN js}
    BY <2>1
  <2>3. SUFFICES ASSUME NEW c \in named, c.as # "none" PROVE \E i \in 1 .. l : ts[i].as = c.as
    OBVIOUS
  <2>4. PICK all : all = ToSet(cs) \cup UNION {ToSet(js[i]) : i \in DOMAIN js}
    OBVIOUS
  <2>5. c \in all
    BY <1>7, <2>2, <2>4
  <2>6. {d.as : d \in all} \ {"none"} \subseteq {ts[i].as : i \in DOMAIN ts}
    BY <2>4
  <2>7. c.as \in {ts[i].as : i \in DOMAIN ts}
    BY <2>3, <2>5, <2>6
  <2> QED BY <1>6, <2>7
<1>10. \A i \in 1 .. l : i \in 1 .. b \/ i > b
  OBVIOUS
<1>11. \A i \in 1 .. l : \E d \in named : ts[i] = Target(d)
  BY <1>5, <1>6, <1>8, <1>10
<1>12. SUFFICES ASSUME \A c, d \in named : c.as = d.as => c.table = d.table
                PROVE  /\ \A c \in named : c.as # "none" => \E i \in DOMAIN ts :
                             /\ ts[i] = [table |-> c.table, as |-> c.as]
                             /\ {k \in DOMAIN ts : ts[k].as = c.as} = {i}
                       /\ \A i, k \in DOMAIN ts : i < k /\ ts[i].table = ts[k].table =>
                             \E j \in ToSet(js) : j[2].as = ts[k].as
  BY <1>7 DEF NamedBy
<1>13. ASSUME NEW i \in 1 .. l, NEW k \in 1 .. l, i < k, ts[i].as = ts[k].as PROVE FALSE
  <2>1. k \in 1 .. b /\ i \in 1 .. b
    BY <1>6, <1>10, <1>13
  <2>2. PICK c \in named, d \in named : ts[i] = Target(c) /\ ts[k] = Target(d)
    BY <1>11
  <2>3. c.as = d.as /\ ts[i].table = c.table /\ ts[k].table = d.table
    BY <1>13, <2>2 DEF Target
  <2>4. ts[i].table = ts[k].table
    BY <1>12, <2>3
  <2> QED BY <1>5, <1>6, <1>13, <2>1, <2>4
<1>14. ASSUME NEW c \in named, c.as # "none"
       PROVE  \E i \in DOMAIN ts : /\ ts[i] = [table |-> c.table, as |-> c.as]
                                   /\ {k \in DOMAIN ts : ts[k].as = c.as} = {i}
  <2>1. PICK i \in 1 .. l : ts[i].as = c.as
    BY <1>9, <1>14
  <2>2. PICK d \in named : ts[i] = Target(d)
    BY <1>11
  <2>3. d.as = c.as /\ d.table = c.table
    BY <1>12, <2>1, <2>2 DEF Target
  <2>4. ts[i] = [table |-> c.table, as |-> c.as]
    BY <2>2, <2>3 DEF Target
  <2>5. \A k \in 1 .. l : ts[k].as = c.as => k = i
    <3>1. SUFFICES ASSUME NEW k \in 1 .. l, ts[k].as = c.as PROVE k = i
      OBVIOUS
    <3>2. ts[k].as = ts[i].as
      BY <2>1, <3>1
    <3>3. ~(i < k) /\ ~(k < i)
      BY <1>13, <3>2
    <3> QED BY <3>3
  <2>6. {k \in DOMAIN ts : ts[k].as = c.as} = {i}
    BY <1>6, <2>1, <2>5
  <2> QED BY <1>6, <2>4, <2>6
<1>15. ASSUME NEW i \in 1 .. l, NEW k \in 1 .. l, i < k, ts[i].table = ts[k].table
       PROVE  \E j \in ToSet(js) : j[2].as = ts[k].as
  <2>1. ~(k \in 1 .. b)
    <3>1. k \in 1 .. b => i \in 1 .. b
      BY <1>15
    <3> QED BY <1>5, <1>6, <1>15, <3>1
  <2>2. PICK h \in 1 .. m : ts[k] = Target(js[h][2])
    BY <1>6, <1>10, <2>1
  <2>3. js[h][2].as = ts[k].as
    BY <2>2 DEF Target
  <2> QED BY <1>8, <2>3
<1> QED BY <1>6, <1>14, <1>15

-----------------------------------------------------------------------------
(* Queries by columns: what results hold                                   *)

SqlResult == [model : Nat, columns : Seq(Column), live : BOOLEAN, n_rows : 0 .. 2,
              rowRefs : Nat, taken : BOOLEAN]

LiveIn(res) == {k \in DOMAIN res : res[k].live}
LiveOn(res, m) == {k \in DOMAIN res : res[k].live /\ res[k].model = m}
RowedOn(res, m) == {k \in DOMAIN res : res[k].model = m /\ res[k].rowRefs > 0}
RowsEach(res) == [k \in DOMAIN res |-> 1 .. res[k].n_rows]
PlacesEach(res, c) == [k \in DOMAIN res |-> Places(c, res[k].columns)]

\* How many results of a model live, how many rows refer to it, and how often
\* live results have a column.
Lives(res, m) == Cardinality(LiveOn(res, m))
Rows(res, m) == Cardinality(OfEach(RowedOn(res, m), RowsEach(res)))
Having(res, c) == Cardinality(OfEach(LiveIn(res), PlacesEach(res, c)))

LEMMA SetsOfResults ==
    ASSUME NEW res \in Seq(SqlResult)
    PROVE  /\ \A S \in SUBSET (DOMAIN res) : IsFiniteSet(S)
           /\ \A k \in DOMAIN res : /\ res[k].n_rows \in Nat
                                    /\ IsFiniteSet(RowsEach(res)[k])
                                    /\ Cardinality(RowsEach(res)[k]) = res[k].n_rows
           /\ \A c : \A k \in DOMAIN res : /\ IsFiniteSet(PlacesEach(res, c)[k])
                                           /\ Cardinality(PlacesEach(res, c)[k]) =
                                                  Count(c, res[k].columns)
                                           /\ Count(c, res[k].columns) \in Nat
<1>1. PICK n \in Nat : n = Len(res) /\ DOMAIN res = 1 .. n
  OBVIOUS
<1>2. \A S \in SUBSET (DOMAIN res) : IsFiniteSet(S)
  <2>1. IsFiniteSet(1 .. n)
    BY FS_Interval
  <2> QED BY <1>1, <2>1, FS_Subset
<1>3. ASSUME NEW k \in DOMAIN res
      PROVE  res[k].n_rows \in 0 .. 2 /\ res[k].columns \in Seq(Column)
  <2>1. res[k] \in SqlResult
    OBVIOUS
  <2> QED BY <2>1 DEF SqlResult
<1>4. ASSUME NEW k \in DOMAIN res
      PROVE  /\ res[k].n_rows \in Nat /\ IsFiniteSet(RowsEach(res)[k])
             /\ Cardinality(RowsEach(res)[k]) = res[k].n_rows
  <2>1. PICK r \in Nat : r = res[k].n_rows
    BY <1>3
  <2>2. IsFiniteSet(1 .. r) /\ Cardinality(1 .. r) = IF 1 > r THEN 0 ELSE r - 1 + 1
    BY FS_Interval
  <2>3. Cardinality(1 .. r) = r
    BY <2>2
  <2> QED BY <2>1, <2>2, <2>3 DEF RowsEach
<1>5. ASSUME NEW c, NEW k \in DOMAIN res
      PROVE  /\ IsFiniteSet(PlacesEach(res, c)[k])
             /\ Cardinality(PlacesEach(res, c)[k]) = Count(c, res[k].columns)
             /\ Count(c, res[k].columns) \in Nat
  <2>1. PICK cs \in Seq(Column) : cs = res[k].columns
    BY <1>3
  <2>2. IsFiniteSet(Places(c, cs)) /\ Count(c, cs) \in Nat
    BY PlacesFinite
  <2> QED BY <2>1, <2>2 DEF PlacesEach, Count
<1> QED BY <1>2, <1>4, <1>5

LEMMA HoldingTyped ==
    ASSUME NEW res \in Seq(SqlResult)
    PROVE  /\ \A m : Lives(res, m) \in Nat /\ Rows(res, m) \in Nat
           /\ \A c : Having(res, c) \in Nat
<1>1. ASSUME NEW m PROVE Lives(res, m) \in Nat
  <2>1. LiveOn(res, m) \in SUBSET (DOMAIN res)
    BY DEF LiveOn
  <2>2. IsFiniteSet(LiveOn(res, m))
    BY <2>1, SetsOfResults
  <2> QED BY <2>2, FS_CardinalityType DEF Lives
<1>2. ASSUME NEW m PROVE Rows(res, m) \in Nat
  <2>1. RowedOn(res, m) \in SUBSET (DOMAIN res)
    BY DEF RowedOn
  <2>2. IsFiniteSet(RowedOn(res, m)) /\ \A k \in RowedOn(res, m) : IsFiniteSet(RowsEach(res)[k])
    BY <2>1, SetsOfResults
  <2> QED BY <2>2, OfEachFinite DEF Rows
<1>3. ASSUME NEW c PROVE Having(res, c) \in Nat
  <2>1. LiveIn(res) \in SUBSET (DOMAIN res)
    BY DEF LiveIn
  <2>2. IsFiniteSet(LiveIn(res)) /\ \A k \in LiveIn(res) : IsFiniteSet(PlacesEach(res, c)[k])
    BY <2>1, SetsOfResults
  <2> QED BY <2>2, OfEachFinite DEF Having
<1> QED BY <1>1, <1>2, <1>3

\* A result is given: it lives, and has no rows yet.
Giving(res, new, r) ==
    /\ \A m : Lives(new, m) = Lives(res, m) + (IF r.model = m THEN 1 ELSE 0)
    /\ \A m : Rows(new, m) = Rows(res, m)
    /\ \A c : Having(new, c) = Having(res, c) + Count(c, r.columns)

LEMMA ResultGiven ==
    ASSUME NEW res \in Seq(SqlResult), NEW r \in SqlResult, r.live, r.rowRefs = 0,
           NEW new, new = Append(res, r)
    PROVE  Giving(res, new, r)
<1>1. PICK n \in Nat : n = Len(res)
  OBVIOUS
<1>2. /\ new \in Seq(SqlResult) /\ DOMAIN new = 1 .. n + 1 /\ DOMAIN res = 1 .. n
      /\ (\A k \in 1 .. n : new[k] = res[k]) /\ new[n + 1] = r
  BY <1>1, AppendProperties
<1>3. /\ \A k \in 1 .. n + 1 : k \in 1 .. n \/ k = n + 1
      /\ \A k \in 1 .. n : k \in 1 .. n + 1
      /\ n + 1 \in 1 .. n + 1 /\ n + 1 \notin 1 .. n
  OBVIOUS
<1>4. ASSUME NEW m PROVE Lives(new, m) = Lives(res, m) + (IF r.model = m THEN 1 ELSE 0)
  <2>1. LiveOn(new, m) = LiveOn(res, m) \cup (IF r.model = m THEN {n + 1} ELSE {})
    BY <1>2, <1>3 DEF LiveOn
  <2>2. n + 1 \notin LiveOn(res, m) /\ LiveOn(res, m) \in SUBSET (DOMAIN res)
    BY <1>2, <1>3 DEF LiveOn
  <2>3. IsFiniteSet(LiveOn(res, m)) /\ Lives(res, m) \in Nat
    BY <2>2, SetsOfResults, HoldingTyped
  <2>4. CASE r.model = m
    <3>1. LiveOn(new, m) = LiveOn(res, m) \cup {n + 1}
      BY <2>1, <2>4
    <3>2. Cardinality(LiveOn(res, m) \cup {n + 1}) = Cardinality(LiveOn(res, m)) + 1
      BY <2>2, <2>3, FS_AddElement
    <3> QED BY <2>4, <3>1, <3>2 DEF Lives
  <2>5. CASE r.model # m
    <3>1. LiveOn(new, m) = LiveOn(res, m)
      BY <2>1, <2>5
    <3> QED BY <2>3, <2>5, <3>1 DEF Lives
  <2> QED BY <2>4, <2>5
<1>5. ASSUME NEW m PROVE Rows(new, m) = Rows(res, m)
  <2>1. RowedOn(new, m) = RowedOn(res, m)
    BY <1>2, <1>3 DEF RowedOn
  <2>2. \A k \in RowedOn(res, m) : RowsEach(new)[k] = RowsEach(res)[k]
    BY <1>2, <1>3 DEF RowedOn, RowsEach
  <2>3. OfEach(RowedOn(res, m), RowsEach(new)) = OfEach(RowedOn(res, m), RowsEach(res))
    BY <2>2, OfEachSame
  <2> QED BY <2>1, <2>3 DEF Rows
<1>6. ASSUME NEW c PROVE Having(new, c) = Having(res, c) + Count(c, r.columns)
  <2>1. LiveIn(new) = LiveIn(res) \cup {n + 1} /\ n + 1 \notin LiveIn(res)
        /\ LiveIn(res) \in SUBSET (DOMAIN new)
    BY <1>2, <1>3 DEF LiveIn
  <2>2. IsFiniteSet(LiveIn(res)) /\ (\A k \in LiveIn(res) : IsFiniteSet(PlacesEach(new, c)[k]))
        /\ IsFiniteSet(PlacesEach(new, c)[n + 1])
        /\ Cardinality(PlacesEach(new, c)[n + 1]) = Count(c, r.columns)
    <3>1. \A S \in SUBSET (DOMAIN new) : IsFiniteSet(S)
      BY <1>2, SetsOfResults
    <3>2. \A k \in DOMAIN new : /\ IsFiniteSet(PlacesEach(new, c)[k])
                                /\ Cardinality(PlacesEach(new, c)[k]) = Count(c, new[k].columns)
      <4>1. new \in Seq(SqlResult)
        BY <1>2
      <4> QED BY <4>1, SetsOfResults
    <3>3. n + 1 \in DOMAIN new /\ LiveIn(res) \subseteq DOMAIN new
      BY <1>2, <1>3, <2>1
    <3> QED BY <1>2, <3>1, <3>2, <3>3
  <2>3. \A k \in LiveIn(res) : PlacesEach(new, c)[k] = PlacesEach(res, c)[k]
    BY <1>2, <1>3 DEF LiveIn, PlacesEach
  <2>4. OfEach(LiveIn(res), PlacesEach(new, c)) = OfEach(LiveIn(res), PlacesEach(res, c))
    BY <2>3, OfEachSame
  <2>5. Cardinality(OfEach(LiveIn(res) \cup {n + 1}, PlacesEach(new, c))) =
            Cardinality(OfEach(LiveIn(res), PlacesEach(new, c))) + Count(c, r.columns)
    BY <2>1, <2>2, OfEachMore
  <2> QED BY <2>1, <2>4, <2>5 DEF Having
<1> QED BY <1>4, <1>5, <1>6 DEF Giving

\* A set loses one of its members, or the results one of theirs.
LEMMA OneLess ==
    ASSUME NEW K, IsFiniteSet(K), NEW sets, \A j \in K : IsFiniteSet(sets[j]), NEW k \in K
    PROVE  /\ Cardinality(K \ {k}) = Cardinality(K) - 1
           /\ Cardinality(OfEach(K \ {k}, sets)) =
                  Cardinality(OfEach(K, sets)) - Cardinality(sets[k])
<1>1. PICK L : L = K \ {k}
  OBVIOUS
<1>2. IsFiniteSet(L) /\ k \notin L /\ K = L \cup {k} /\ Cardinality(L) = Cardinality(K) - 1
  BY <1>1, FS_RemoveElement
<1>3. \A j \in L : IsFiniteSet(sets[j])
  BY <1>1
<1>4. Cardinality(OfEach(L \cup {k}, sets)) =
          Cardinality(OfEach(L, sets)) + Cardinality(sets[k])
  BY <1>2, <1>3, OfEachMore
<1>5. /\ Cardinality(OfEach(L, sets)) \in Nat /\ Cardinality(sets[k]) \in Nat
  BY <1>2, <1>3, OfEachFinite, FS_CardinalityType
<1>6. Cardinality(OfEach(L, sets)) = Cardinality(OfEach(K, sets)) - Cardinality(sets[k])
  BY <1>2, <1>4, <1>5
<1> QED BY <1>1, <1>2, <1>6

\* The k-th result is another one, of the same model, rows and columns, and
\* does not come to life again.
Becoming(res, new, k) ==
    /\ new \in Seq(SqlResult) /\ Len(new) = Len(res)
    /\ \A i \in 1 .. Len(res) :
           /\ new[i].model = res[i].model /\ new[i].n_rows = res[i].n_rows
           /\ new[i].columns = res[i].columns
           /\ new[i].live => res[i].live
           /\ i # k => new[i] = res[i]

LEMMA SameSets ==
    ASSUME NEW res \in Seq(SqlResult), NEW k \in 1 .. Len(res), NEW new, Becoming(res, new, k)
    PROVE  /\ DOMAIN new = DOMAIN res
           /\ RowsEach(new) = RowsEach(res) /\ \A c : PlacesEach(new, c) = PlacesEach(res, c)
<1>1. PICK n \in Nat : n = Len(res)
  OBVIOUS
<1>2. DOMAIN new = 1 .. n /\ DOMAIN res = 1 .. n
      /\ \A i \in 1 .. n : new[i].n_rows = res[i].n_rows /\ new[i].columns = res[i].columns
  BY <1>1 DEF Becoming
<1>3. RowsEach(new) = RowsEach(res)
  BY <1>2 DEF RowsEach
<1>4. \A c : PlacesEach(new, c) = PlacesEach(res, c)
  BY <1>2 DEF PlacesEach
<1> QED BY <1>2, <1>3, <1>4

\* A result dies.
Dying(res, new, k) ==
    /\ \A m : Lives(new, m) = Lives(res, m) - (IF res[k].model = m THEN 1 ELSE 0)
    /\ \A c : Having(new, c) = Having(res, c) - Count(c, res[k].columns)

LEMMA LivesBecome ==
    ASSUME NEW res \in Seq(SqlResult), NEW k \in 1 .. Len(res), NEW new, Becoming(res, new, k)
    PROVE  /\ new[k].live = res[k].live =>
                 /\ \A m : Lives(new, m) = Lives(res, m)
                 /\ \A c : Having(new, c) = Having(res, c)
           /\ ~new[k].live /\ res[k].live => Dying(res, new, k)
<1>1. DOMAIN new = DOMAIN res /\ \A c : PlacesEach(new, c) = PlacesEach(res, c)
  BY SameSets
<1>2. /\ \A i \in DOMAIN res : /\ new[i].model = res[i].model
                               /\ i # k => new[i].live = res[i].live
      /\ k \in DOMAIN res
  BY DEF Becoming
<1>3. CASE new[k].live = res[k].live
  <2>1. LiveIn(new) = LiveIn(res)
    BY <1>1, <1>2, <1>3 DEF LiveIn
  <2>2. \A m : LiveOn(new, m) = LiveOn(res, m)
    BY <1>1, <1>2, <1>3 DEF LiveOn
  <2>3. (\A m : Lives(new, m) = Lives(res, m)) /\ \A c : Having(new, c) = Having(res, c)
    BY <1>1, <2>1, <2>2 DEF Lives, Having
  <2> QED BY <1>3, <2>3
<1>4. CASE ~new[k].live /\ res[k].live
  <2>1. LiveIn(new) = LiveIn(res) \ {k} /\ k \in LiveIn(res)
    BY <1>1, <1>2, <1>4 DEF LiveIn
  <2>2. ASSUME NEW c PROVE Having(new, c) = Having(res, c) - Count(c, res[k].columns)
    <3>1. LiveIn(res) \in SUBSET (DOMAIN res)
      BY DEF LiveIn
    <3>2. IsFiniteSet(LiveIn(res)) /\ \A j \in LiveIn(res) : IsFiniteSet(PlacesEach(res, c)[j])
      BY <3>1, SetsOfResults
    <3>3. Cardinality(PlacesEach(res, c)[k]) = Count(c, res[k].columns)
      BY <1>2, SetsOfResults
    <3>4. Cardinality(OfEach(LiveIn(res) \ {k}, PlacesEach(res, c))) =
              Cardinality(OfEach(LiveIn(res), PlacesEach(res, c)))
                  - Cardinality(PlacesEach(res, c)[k])
      <4>1. ASSUME NEW K, IsFiniteSet(K), NEW s, \A j \in K : IsFiniteSet(s[j]), k \in K
            PROVE  Cardinality(OfEach(K \ {k}, s)) = Cardinality(OfEach(K, s)) - Cardinality(s[k])
        BY <4>1, OneLess
      <4> QED BY <2>1, <3>2, <4>1
    <3> QED BY <1>1, <2>1, <3>3, <3>4 DEF Having
  <2>3. ASSUME NEW m
        PROVE  Lives(new, m) = Lives(res, m) - (IF res[k].model = m THEN 1 ELSE 0)
    <3>1. CASE res[k].model = m
      <4>1. LiveOn(new, m) = LiveOn(res, m) \ {k} /\ k \in LiveOn(res, m)
        BY <1>1, <1>2, <1>4, <3>1 DEF LiveOn
      <4>2. LiveOn(res, m) \in SUBSET (DOMAIN res)
        BY DEF LiveOn
      <4>3. IsFiniteSet(LiveOn(res, m))
        BY <4>2, SetsOfResults
      <4>4. Cardinality(LiveOn(res, m) \ {k}) = Cardinality(LiveOn(res, m)) - 1
        BY <4>1, <4>3, FS_RemoveElement
      <4> QED BY <3>1, <4>1, <4>4 DEF Lives
    <3>2. CASE res[k].model # m
      <4>1. LiveOn(new, m) = LiveOn(res, m)
        BY <1>1, <1>2, <1>4, <3>2 DEF LiveOn
      <4>2. Lives(res, m) \in Nat
        BY HoldingTyped
      <4> QED BY <3>2, <4>1, <4>2 DEF Lives
    <3> QED BY <3>1, <3>2
  <2> QED BY <1>4, <2>2, <2>3 DEF Dying
<1> QED BY <1>3, <1>4

\* Its rows are made, or dropped.
LEMMA RowsBecome ==
    ASSUME NEW res \in Seq(SqlResult), NEW k \in 1 .. Len(res), NEW new, Becoming(res, new, k)
    PROVE  /\ (new[k].rowRefs > 0) = (res[k].rowRefs > 0) =>
                 \A m : Rows(new, m) = Rows(res, m)
           /\ new[k].rowRefs > 0 /\ ~(res[k].rowRefs > 0) =>
                 \A m : Rows(new, m) = Rows(res, m)
                                           + (IF res[k].model = m THEN res[k].n_rows ELSE 0)
           /\ ~(new[k].rowRefs > 0) /\ res[k].rowRefs > 0 =>
                 \A m : Rows(new, m) = Rows(res, m)
                                           - (IF res[k].model = m THEN res[k].n_rows ELSE 0)
<1>1. DOMAIN new = DOMAIN res /\ RowsEach(new) = RowsEach(res)
  BY SameSets
<1>2. /\ \A i \in DOMAIN res : /\ new[i].model = res[i].model
                               /\ i # k => new[i].rowRefs = res[i].rowRefs
      /\ k \in DOMAIN res
  BY DEF Becoming
<1>3. ASSUME NEW m, RowedOn(new, m) = RowedOn(res, m) PROVE Rows(new, m) = Rows(res, m)
  BY <1>1, <1>3 DEF Rows
<1>4. \A m : Rows(res, m) \in Nat
  BY HoldingTyped
<1>5. Cardinality(RowsEach(res)[k]) = res[k].n_rows /\ res[k].n_rows \in Nat
  BY <1>2, SetsOfResults
<1>6. ASSUME NEW m, NEW S, S \in SUBSET (DOMAIN res), k \in S
      PROVE  Cardinality(OfEach(S \ {k}, RowsEach(res))) =
                 Cardinality(OfEach(S, RowsEach(res))) - res[k].n_rows
  <2>1. IsFiniteSet(S) /\ \A j \in S : IsFiniteSet(RowsEach(res)[j])
    BY <1>6, SetsOfResults
  <2> QED BY <1>5, <1>6, <2>1, OneLess
<1>7. ASSUME NEW m, res[k].model # m PROVE Rows(new, m) = Rows(res, m)
  <2>1. RowedOn(new, m) = RowedOn(res, m)
    BY <1>1, <1>2, <1>7 DEF RowedOn
  <2> QED BY <1>3, <2>1
<1>8. CASE (new[k].rowRefs > 0) = (res[k].rowRefs > 0)
  <2>1. \A m : RowedOn(new, m) = RowedOn(res, m)
    BY <1>1, <1>2, <1>8 DEF RowedOn
  <2>2. \A m : Rows(new, m) = Rows(res, m)
    BY <1>3, <2>1
  <2> QED BY <1>8, <2>2
<1>9. CASE new[k].rowRefs > 0 /\ ~(res[k].rowRefs > 0)
  <2>1. ASSUME NEW m, res[k].model = m PROVE Rows(new, m) = Rows(res, m) + res[k].n_rows
    <3>1. /\ RowedOn(res, m) = RowedOn(new, m) \ {k} /\ k \in RowedOn(new, m)
          /\ RowedOn(new, m) \in SUBSET (DOMAIN res)
      BY <1>1, <1>2, <1>9, <2>1 DEF RowedOn
    <3>2. Rows(res, m) = Rows(new, m) - res[k].n_rows
      BY <1>1, <1>6, <3>1 DEF Rows
    <3>3. new \in Seq(SqlResult)
      BY DEF Becoming
    <3>4. Rows(new, m) \in Nat
      BY <3>3, HoldingTyped
    <3> QED BY <1>5, <3>2, <3>4
  <2>2. \A m : Rows(new, m) = Rows(res, m) + (IF res[k].model = m THEN res[k].n_rows ELSE 0)
    BY <1>4, <1>7, <2>1
  <2> QED BY <1>9, <2>2
<1>10. CASE ~(new[k].rowRefs > 0) /\ res[k].rowRefs > 0
  <2>1. ASSUME NEW m, res[k].model = m PROVE Rows(new, m) = Rows(res, m) - res[k].n_rows
    <3>1. /\ RowedOn(new, m) = RowedOn(res, m) \ {k} /\ k \in RowedOn(res, m)
          /\ RowedOn(res, m) \in SUBSET (DOMAIN res)
      BY <1>1, <1>2, <1>10, <2>1 DEF RowedOn
    <3> QED BY <1>1, <1>6, <3>1 DEF Rows
  <2>2. \A m : Rows(new, m) = Rows(res, m) - (IF res[k].model = m THEN res[k].n_rows ELSE 0)
    BY <1>4, <1>7, <2>1
  <2> QED BY <1>10, <2>2
<1> QED BY <1>8, <1>9, <1>10

-----------------------------------------------------------------------------
(* Queries by columns: the inductive invariant                             *)

SqlQuery == [columns : Seq(Column), joins : Seq(Column \X Column), constraint : Seq(Column),
             kind : {"none", "one", "empty", "bad"}, orders : Seq(Column \X {"asc", "odd"}),
             limit : {-1, 0, 1}]
SqlModel == [columns : Seq(Column), targets : Seq(TargetsOf), rows : 0 .. 2,
             joined : SUBSET (Column \X Column), refs : Int]

SqlTypeOK ==
    /\ sought \in SqlQuery /\ columnRefs \in [Column -> Int] /\ own \in SUBSET Column
    /\ model \in Seq(SqlModel) /\ result \in Seq(SqlResult)
    /\ resultset \in 0 .. Len(model)
    /\ \A k \in 1 .. Len(result) : result[k].model \in 1 .. Len(model)
    /\ stored \in {0, 2}

\* What a result shows is of its model.
ResultsShow ==
    \A k \in 1 .. Len(result) :
        /\ IsPrefix(model[result[k].model].columns, result[k].columns)
        /\ result[k].n_rows = model[result[k].model].rows

RefsFit ==
    \A m \in 1 .. Len(model) :
        model[m].refs = (IF resultset = m THEN 1 ELSE 0) + Lives(result, m) + Rows(result, m)

\* The query has gone on from the columns of its last execution.
GoneOn == resultset # 0 => IsPrefix(model[resultset].columns, sought.columns)

\* The rows a result has made are the application's or its own.
RowsOwned ==
    \A k \in 1 .. Len(result) :
        result[k].rowRefs >= (IF result[k].taken THEN 1 ELSE 0)
                                 + (IF result[k].live /\ result[k].rowRefs > 0 THEN 1 ELSE 0)

OrderedBy(q, c) == Cardinality({i \in DOMAIN q.orders : q.orders[i][1] = c})
QueryHas(q, c) == Count(c, q.columns) + Count(c, q.constraint) + OrderedBy(q, c)

ColumnsHeld ==
    \A c \in Column : columnRefs[c] >= (IF c \in own THEN 1 ELSE 0) + QueryHas(sought, c)
                                           + Having(result, c)

SqlInvariant ==
    /\ SqlTypeOK /\ ColumnsNamed /\ ResultsShow /\ RefsFit /\ GoneOn /\ RowsOwned
    /\ ColumnsHeld

LEMMA InvariantSays ==
    SqlInvariant => SelectsColumns
<1> SUFFICES ASSUME SqlInvariant PROVE SelectsColumns
  OBVIOUS
<1>1. DOMAIN result = 1 .. Len(result) /\ DOMAIN model = 1 .. Len(model)
  BY DEF SqlInvariant, SqlTypeOK
<1>2. ResultsStand
  <2>1. \A m : Lives(result, m) = Cardinality({k \in DOMAIN result : result[k].live
                                                    /\ result[k].model = m})
    BY DEF Lives, LiveOn
  <2>2. \A m : Rows(result, m) = Cardinality(OfEach(
                   {k \in DOMAIN result : result[k].model = m /\ result[k].rowRefs > 0},
                   [k \in DOMAIN result |-> 1 .. result[k].n_rows]))
    BY DEF Rows, RowedOn, RowsEach
  <2>3. ResultsShow /\ RefsFit
    BY DEF SqlInvariant
  <2> QED BY <1>1, <2>1, <2>2, <2>3 DEF ResultsShow, RefsFit, ResultsStand
<1>3. ColumnsLive
  <2>1. \A c : Having(result, c) = Cardinality(OfEach(
                   {k \in DOMAIN result : result[k].live},
                   [k \in DOMAIN result |-> Places(c, result[k].columns)]))
    BY DEF Having, LiveIn, PlacesEach
  <2>2. ASSUME NEW c \in Column
        PROVE  columnRefs[c] >= (IF c \in own THEN 1 ELSE 0) + Count(c, sought.columns)
                   + Count(c, sought.constraint)
                   + Cardinality({i \in DOMAIN sought.orders : sought.orders[i][1] = c})
                   + Having(result, c)
    <3>1. columnRefs[c] >= (IF c \in own THEN 1 ELSE 0) + (Count(c, sought.columns)
                   + Count(c, sought.constraint) + OrderedBy(sought, c)) + Having(result, c)
      BY DEF SqlInvariant, ColumnsHeld, QueryHas
    <3>2. Count(c, sought.columns) \in Nat /\ Count(c, sought.constraint) \in Nat
      <4>1. sought.columns \in Seq(Column) /\ sought.constraint \in Seq(Column)
        BY DEF SqlInvariant, SqlTypeOK, SqlQuery
      <4> QED BY <4>1, PlacesFinite
    <3>3. OrderedBy(sought, c) \in Nat
      <4>1. PICK o \in Seq(Column \X {"asc", "odd"}) : o = sought.orders
        BY DEF SqlInvariant, SqlTypeOK, SqlQuery
      <4>2. IsFiniteSet(1 .. Len(o)) /\ {i \in DOMAIN o : o[i][1] = c} \in SUBSET (1 .. Len(o))
        BY FS_Interval
      <4>3. IsFiniteSet({i \in DOMAIN o : o[i][1] = c})
        BY <4>2, FS_Subset
      <4> QED BY <4>1, <4>3, FS_CardinalityType DEF OrderedBy
    <3>4. Having(result, c) \in Nat
      BY HoldingTyped DEF SqlInvariant, SqlTypeOK
    <3> QED BY <3>1, <3>2, <3>3, <3>4 DEF OrderedBy
  <2> QED BY <2>1, <2>2 DEF ColumnsLive
<1> QED BY <1>2, <1>3 DEF SelectsColumns, SqlInvariant

LEMMA SqlStarts == DataInit => SqlInvariant
<1> SUFFICES ASSUME DataInit PROVE SqlInvariant
  OBVIOUS
<1>1. /\ sought = [columns |-> <<>>, joins |-> <<>>, constraint |-> <<>>, kind |-> "none",
                   orders |-> <<>>, limit |-> -1]
      /\ model = <<>> /\ resultset = 0 /\ result = <<>> /\ own = Column /\ stored = 2
      /\ columnRefs = [c \in Column |-> 1]
  BY DEF DataInit, Unjoined
<1>2. /\ Len(<<>>) = 0 /\ DOMAIN <<>> = {}
      /\ \A C : <<>> \in Seq(C)
      /\ \A i \in 1 .. 0 : FALSE
  OBVIOUS
<1>3. sought \in SqlQuery
  BY <1>1, <1>2 DEF SqlQuery
<1>4. SqlTypeOK
  BY <1>1, <1>2, <1>3 DEF SqlTypeOK
<1>5. /\ ColumnsNamed /\ ResultsShow /\ RefsFit /\ GoneOn /\ RowsOwned
  BY <1>1, <1>2 DEF ColumnsNamed, ResultsShow, RefsFit, GoneOn, RowsOwned
<1>6. \A c : Count(c, <<>>) = 0
  BY <1>2, FS_EmptySet DEF Count, Places
<1>7. \A c : OrderedBy(sought, c) = 0
  BY <1>1, <1>2, FS_EmptySet DEF OrderedBy
<1>8. \A c : Having(result, c) = 0
  <2>1. LiveIn(<<>>) = {}
    BY <1>2 DEF LiveIn
  <2>2. \A s : OfEach({}, s) = {}
    BY DEF OfEach
  <2> QED BY <1>1, <2>1, <2>2, FS_EmptySet DEF Having
<1>9. ColumnsHeld
  BY <1>1, <1>6, <1>7, <1>8 DEF ColumnsHeld, QueryHas
<1> QED BY <1>4, <1>5, <1>9 DEF SqlInvariant

-----------------------------------------------------------------------------
(* Queries by columns: what an action counts                               *)

LEMMA PrefixIs ==
    ASSUME NEW C, NEW s \in Seq(C), NEW t \in Seq(C)
    PROVE  IsPrefix(s, t) <=> /\ Len(s) =< Len(t)
                              /\ \A i \in 1 .. Len(s) : s[i] = t[i]
<1>1. PICK n \in Nat, m \in Nat : n = Len(s) /\ m = Len(t)
  OBVIOUS
<1>2. CASE n =< m
  <2>1. /\ SubSeq(s, 1, n) \in Seq(C) /\ Len(SubSeq(s, 1, n)) = n
        /\ \A i \in 1 .. n : SubSeq(s, 1, n)[i] = s[i]
    BY <1>1
  <2>2. /\ SubSeq(t, 1, n) \in Seq(C) /\ Len(SubSeq(t, 1, n)) = n
        /\ \A i \in 1 .. n : SubSeq(t, 1, n)[i] = t[i]
    BY <1>1, <1>2
  <2>3. (SubSeq(s, 1, n) = SubSeq(t, 1, n)) <=> \A i \in 1 .. n : s[i] = t[i]
    <3>1. ASSUME \A i \in 1 .. n : s[i] = t[i]
          PROVE  SubSeq(s, 1, n) = SubSeq(t, 1, n)
      <4>1. \A i \in 1 .. n : SubSeq(s, 1, n)[i] = SubSeq(t, 1, n)[i]
        BY <2>1, <2>2, <3>1
      <4> QED BY <2>1, <2>2, <4>1, SeqEqual
    <3>2. ASSUME SubSeq(s, 1, n) = SubSeq(t, 1, n)
          PROVE  \A i \in 1 .. n : s[i] = t[i]
      BY <2>1, <2>2, <3>2
    <3> QED BY <3>1, <3>2
  <2> QED BY <1>1, <1>2, <2>3 DEF IsPrefix
<1>3. CASE ~(n =< m)
  BY <1>1, <1>3 DEF IsPrefix
<1> QED BY <1>2, <1>3

LEMMA PrefixGrows ==
    ASSUME NEW C, NEW s \in Seq(C), NEW t \in Seq(C), IsPrefix(s, t), NEW c \in C
    PROVE  IsPrefix(s, Append(t, c))
<1>1. PICK n \in Nat, m \in Nat : n = Len(s) /\ m = Len(t)
  OBVIOUS
<1>2. n =< m /\ \A i \in 1 .. n : s[i] = t[i]
  BY <1>1, PrefixIs
<1>3. PICK u \in Seq(C) : u = Append(t, c)
  BY AppendProperties
<1>4. Len(u) = m + 1 /\ \A i \in 1 .. m : u[i] = t[i]
  BY <1>1, <1>3, AppendProperties
<1>5. n =< m + 1 /\ \A i \in 1 .. n : i \in 1 .. m
  BY <1>2
<1>6. IsPrefix(s, u) <=> Len(s) =< Len(u) /\ \A i \in 1 .. Len(s) : s[i] = u[i]
  BY PrefixIs
<1> QED BY <1>1, <1>2, <1>3, <1>4, <1>5, <1>6

LEMMA PrefixSame ==
    ASSUME NEW C, NEW s \in Seq(C)
    PROVE  IsPrefix(s, s)
BY PrefixIs

\* The orders of a query are of columns.
LEMMA OrderedIs ==
    ASSUME NEW q \in SqlQuery, NEW c
    PROVE  /\ OrderedBy(q, c) \in Nat
           /\ Count(c, [i \in DOMAIN q.orders |-> q.orders[i][1]]) = OrderedBy(q, c)
<1>1. PICK o \in Seq(Column \X {"asc", "odd"}) : o = q.orders
  BY DEF SqlQuery
<1>2. PICK n \in Nat : n = Len(o) /\ DOMAIN o = 1 .. n
  OBVIOUS
<1>5. IsFiniteSet(1 .. n)
  BY FS_Interval
<1>3. IsFiniteSet({i \in DOMAIN o : o[i][1] = c})
  BY <1>2, <1>5, FS_Subset
<1>4. Places(c, [i \in DOMAIN o |-> o[i][1]]) = {i \in DOMAIN o : o[i][1] = c}
  BY DEF Places
<1> QED BY <1>1, <1>3, <1>4, FS_CardinalityType DEF OrderedBy, Count

LEMMA OrderedMore ==
    ASSUME NEW q \in SqlQuery, NEW p \in SqlQuery, NEW d \in Column, NEW type \in {"asc", "odd"},
           p.orders = Append(q.orders, <<d, type>>), NEW c
    PROVE  OrderedBy(p, c) = OrderedBy(q, c) + (IF c = d THEN 1 ELSE 0)
<1>1. PICK o \in Seq(Column \X {"asc", "odd"}) : o = q.orders
  BY DEF SqlQuery
<1>0. ASSUME NEW x \in Seq(Column \X {"asc", "odd"})
      PROVE  /\ [i \in DOMAIN x |-> x[i][1]] \in Seq(Column)
             /\ Len([i \in DOMAIN x |-> x[i][1]]) = Len(x)
  <2>1. PICK n \in Nat : n = Len(x) /\ DOMAIN x = 1 .. n
    OBVIOUS
  <2>2. \A i \in 1 .. n : x[i] \in Column \X {"asc", "odd"}
    BY <2>1
  <2>3. \A i \in 1 .. n : x[i][1] \in Column
    BY <2>2
  <2>4. [i \in 1 .. n |-> x[i][1]] \in Seq(Column) /\ Len([i \in 1 .. n |-> x[i][1]]) = n
    BY <2>3
  <2> QED BY <2>1, <2>4
<1>2. PICK u \in Seq(Column) : u = [i \in DOMAIN o |-> o[i][1]]
  BY <1>0
<1>3. [i \in DOMAIN p.orders |-> p.orders[i][1]] = Append(u, d)
  <2>1. PICK n \in Nat : n = Len(o) /\ DOMAIN o = 1 .. n /\ Len(u) = n
    BY <1>2
  <2>2. /\ p.orders \in Seq(Column \X {"asc", "odd"}) /\ Len(p.orders) = n + 1
        /\ DOMAIN p.orders = 1 .. n + 1
        /\ (\A i \in 1 .. n : p.orders[i] = o[i]) /\ p.orders[n + 1] = <<d, type>>
    BY <1>1, <2>1, AppendProperties
  <2>3. /\ Append(u, d) \in Seq(Column) /\ Len(Append(u, d)) = n + 1
        /\ DOMAIN Append(u, d) = 1 .. n + 1
        /\ (\A i \in 1 .. n : Append(u, d)[i] = u[i]) /\ Append(u, d)[n + 1] = d
    BY <2>1, AppendProperties
  <2>4. \A i \in 1 .. n + 1 : i \in 1 .. n \/ i = n + 1
    OBVIOUS
  <2>5. \A i \in 1 .. n + 1 : p.orders[i][1] = Append(u, d)[i]
    BY <1>2, <2>1, <2>2, <2>3, <2>4
  <2>6. PICK v \in Seq(Column) : v = [i \in DOMAIN p.orders |-> p.orders[i][1]]
    BY <1>0, <2>2
  <2>7. Len(v) = n + 1 /\ \A i \in 1 .. n + 1 : v[i] = p.orders[i][1]
    BY <1>0, <2>2, <2>6
  <2>8. v = Append(u, d)
    <3>1. PICK w \in Seq(Column) : w = Append(u, d)
      BY <2>3
    <3>2. Len(v) = Len(w) /\ \A i \in 1 .. Len(v) : v[i] = w[i]
      BY <2>3, <2>5, <2>7, <3>1
    <3> QED BY <3>1, <3>2, SeqEqual
  <2> QED BY <2>6, <2>8
<1>4. Count(c, Append(u, d)) = Count(c, u) + (IF c = d THEN 1 ELSE 0)
  BY CountMore
<1> QED BY <1>1, <1>2, <1>3, <1>4, OrderedIs

LEMMA QueryHasTyped ==
    ASSUME NEW q \in SqlQuery, NEW c
    PROVE  /\ Count(c, q.columns) \in Nat /\ Count(c, q.constraint) \in Nat
           /\ OrderedBy(q, c) \in Nat /\ QueryHas(q, c) \in Nat
<1>1. q.columns \in Seq(Column) /\ q.constraint \in Seq(Column)
  BY DEF SqlQuery
<1>2. Count(c, q.columns) \in Nat /\ Count(c, q.constraint) \in Nat
  BY <1>1, PlacesFinite
<1>3. OrderedBy(q, c) \in Nat
  BY OrderedIs
<1> QED BY <1>2, <1>3 DEF QueryHas

\* A model's references change by d, if m is one.
Recounted(ms, ns, m, d) ==
    /\ ns \in Seq(SqlModel) /\ Len(ns) = Len(ms)
    /\ \A i \in 1 .. Len(ms) :
           /\ ns[i].columns = ms[i].columns /\ ns[i].targets = ms[i].targets
           /\ ns[i].rows = ms[i].rows /\ ns[i].joined = ms[i].joined
           /\ ns[i].refs = ms[i].refs + (IF i = m THEN d ELSE 0)

LEMMA RecountedBy ==
    ASSUME NEW ms \in Seq(SqlModel), NEW m \in 1 .. Len(ms), NEW d \in Int,
           NEW r \in Int, r = ms[m].refs + d
    PROVE  Recounted(ms, [ms EXCEPT ![m].refs = r], m, d)
<1>0. ms[m] \in SqlModel /\ \A i \in 1 .. Len(ms) : ms[i] \in SqlModel
  OBVIOUS
<1>1. [ms[m] EXCEPT !.refs = r] \in SqlModel
  BY <1>0 DEF SqlModel
<1>2. PICK x \in SqlModel : x = [ms[m] EXCEPT !.refs = r]
  BY <1>1
<1>3. /\ x.columns = ms[m].columns /\ x.targets = ms[m].targets /\ x.rows = ms[m].rows
      /\ x.joined = ms[m].joined /\ x.refs = r
  BY <1>0, <1>2 DEF SqlModel
<1>4. PICK ns : ns = [ms EXCEPT ![m] = x]
  OBVIOUS
<1>5. ns \in Seq(SqlModel) /\ Len(ns) = Len(ms)
      /\ \A i \in 1 .. Len(ms) : ns[i] = IF i = m THEN x ELSE ms[i]
  BY <1>4, ExceptSeq
<1>6. \A i \in 1 .. Len(ms) : ms[i].refs \in Int
  BY <1>0 DEF SqlModel
<1>7. Recounted(ms, ns, m, d)
  BY <1>3, <1>5, <1>6 DEF Recounted
<1>8. [ms EXCEPT ![m].refs = r] = ns
  BY <1>2, <1>4
<1> QED BY <1>7, <1>8

LEMMA RecountedNot ==
    ASSUME NEW ms \in Seq(SqlModel), NEW m, NEW d, m \in 1 .. Len(ms) => d = 0
    PROVE  Recounted(ms, ms, m, d)
<1>1. \A i \in 1 .. Len(ms) : ms[i].refs \in Int
  <2>1. \A i \in 1 .. Len(ms) : ms[i] \in SqlModel
    OBVIOUS
  <2> QED BY <2>1 DEF SqlModel
<1> QED BY <1>1 DEF Recounted

LEMMA ModelUnref ==
    ASSUME NEW ms \in Seq(SqlModel), NEW m \in 0 .. Len(ms)
    PROVE  Recounted(ms, UnrefModel(ms, m), m, -1)
<1>1. CASE m = 0
  BY <1>1, RecountedNot DEF UnrefModel
<1>2. CASE m # 0
  <2>1. m \in 1 .. Len(ms)
    BY <1>2
  <2>5. ms[m] \in SqlModel
    BY <2>1
  <2>2. ms[m].refs \in Int
    BY <2>5 DEF SqlModel
  <2>3. PICK r \in Int : r = ms[m].refs - 1 /\ r = ms[m].refs + (-1)
    BY <2>2
  <2>4. Recounted(ms, [ms EXCEPT ![m].refs = r], m, -1)
    BY <2>1, <2>3, RecountedBy
  <2> QED BY <1>2, <2>3, <2>4 DEF UnrefModel
<1> QED BY <1>1, <1>2

LEMMA RowsUnref ==
    ASSUME NEW ms \in Seq(SqlModel), NEW r \in SqlResult, r.model \in 1 .. Len(ms)
    PROVE  Recounted(ms, UnrefRows(ms, r), r.model, IF r.rowRefs = 1 THEN -r.n_rows ELSE 0)
<1>1. CASE r.rowRefs # 1
  BY <1>1, RecountedNot DEF UnrefRows
<1>2. CASE r.rowRefs = 1
  <2>0. ms[r.model] \in SqlModel
    OBVIOUS
  <2>1. ms[r.model].refs \in Int /\ r.n_rows \in Int
    BY <2>0 DEF SqlModel, SqlResult
  <2>4. PICK x \in Int, y \in Int : x = ms[r.model].refs /\ y = r.n_rows
    BY <2>1
  <2>5. x - y \in Int /\ -y \in Int /\ x - y = x + (-y)
    OBVIOUS
  <2>2. PICK n \in Int : n = ms[r.model].refs - r.n_rows /\ n = ms[r.model].refs + (-r.n_rows)
        /\ -r.n_rows \in Int
    BY <2>4, <2>5
  <2>3. Recounted(ms, [ms EXCEPT ![r.model].refs = n], r.model, -r.n_rows)
    BY <2>2, RecountedBy
  <2> QED BY <1>2, <2>2, <2>3 DEF UnrefRows
<1> QED BY <1>1, <1>2

\* What results show does not depend on references.
LEMMA ShownStill ==
    ASSUME NEW ms, NEW ns, NEW m, NEW d, Recounted(ms, ns, m, d), ms \in Seq(SqlModel)
    PROVE  /\ DOMAIN ns = DOMAIN ms
           /\ \A i \in DOMAIN ms : NamedBy(ms[i].columns, ms[i].joined, ms[i].targets) =>
                  NamedBy(ns[i].columns, ns[i].joined, ns[i].targets)
<1>1. DOMAIN ns = 1 .. Len(ms) /\ DOMAIN ms = 1 .. Len(ms)
  BY DEF Recounted
<1>2. \A i \in 1 .. Len(ms) : ns[i].columns = ms[i].columns
          /\ ns[i].joined = ms[i].joined /\ ns[i].targets = ms[i].targets
  BY DEF Recounted
<1> QED BY <1>1, <1>2

LEMMA NamedIs ==
    ColumnsNamed <=> \A m \in DOMAIN model :
                         NamedBy(model[m].columns, model[m].joined, model[m].targets)
BY DEF ColumnsNamed, NamedBy

\* References to columns.
LEMMA ColumnsCounted ==
    ASSUME NEW rs \in [Column -> Int]
    PROVE  /\ \A cs \in Seq(Column) :
                /\ Ref(rs, cs) \in [Column -> Int] /\ Unref(rs, cs) \in [Column -> Int]
                /\ \A c \in Column : /\ Count(c, cs) \in Nat
                                     /\ Ref(rs, cs)[c] = rs[c] + Count(c, cs)
                                     /\ Unref(rs, cs)[c] = rs[c] - Count(c, cs)
<1> SUFFICES ASSUME NEW cs \in Seq(Column)
             PROVE  /\ Ref(rs, cs) \in [Column -> Int] /\ Unref(rs, cs) \in [Column -> Int]
                    /\ \A c \in Column : /\ Count(c, cs) \in Nat
                                         /\ Ref(rs, cs)[c] = rs[c] + Count(c, cs)
                                         /\ Unref(rs, cs)[c] = rs[c] - Count(c, cs)
  OBVIOUS
<1>1. \A c : Count(c, cs) \in Nat
  BY PlacesFinite
<1> QED BY <1>1 DEF Ref, Unref

LEMMA ColumnsAt ==
    ASSUME NEW rs \in [Column -> Int], sought.columns \in Seq(Column), NEW ps
    PROVE  /\ RefAt(rs, ps) \in [Column -> Int] /\ UnrefAt(rs, ps) \in [Column -> Int]
           /\ \A c \in Column : /\ RefAt(rs, ps)[c] >= rs[c]
                                /\ UnrefAt(rs, ps)[c] >= rs[c] - Count(c, sought.columns)
<1>1. ASSUME NEW c
      PROVE  /\ Cardinality(ps \cap Places(c, sought.columns)) \in Nat
             /\ Cardinality(ps \cap Places(c, sought.columns)) =< Count(c, sought.columns)
             /\ Count(c, sought.columns) \in Nat
  <2>1. PICK cs \in Seq(Column) : cs = sought.columns
    OBVIOUS
  <2>3. Len(cs) \in Nat /\ DOMAIN cs = 1 .. Len(cs)
    OBVIOUS
  <2>4. /\ Count(c, cs) \in Nat
        /\ \A a : /\ Cardinality(a \cap Places(c, cs)) \in Nat
                 /\ Cardinality(a \cap Places(c, cs)) =< Count(c, cs)
    BY <2>3, PlacesFinite
  <2>2. /\ Cardinality(ps \cap Places(c, cs)) \in Nat
        /\ Cardinality(ps \cap Places(c, cs)) =< Count(c, cs)
        /\ Count(c, cs) \in Nat
    BY <2>4
  <2> QED BY <2>1, <2>2
<1>2. ASSUME NEW c \in Column
      PROVE  /\ RefAt(rs, ps)[c] >= rs[c]
             /\ UnrefAt(rs, ps)[c] >= rs[c] - Count(c, sought.columns)
  <2>1. PICK n \in Nat, k \in Nat, x \in Int :
            /\ n = Cardinality(ps \cap Places(c, sought.columns))
            /\ k = Count(c, sought.columns) /\ n =< k /\ x = rs[c]
    BY <1>1
  <2>2. RefAt(rs, ps)[c] = x + n /\ UnrefAt(rs, ps)[c] = x - n
    BY <2>1 DEF RefAt, UnrefAt
  <2> QED BY <2>1, <2>2
<1>3. RefAt(rs, ps) \in [Column -> Int] /\ UnrefAt(rs, ps) \in [Column -> Int]
  <2>1. ASSUME NEW c \in Column
        PROVE  /\ rs[c] + Cardinality(ps \cap Places(c, sought.columns)) \in Int
               /\ rs[c] - Cardinality(ps \cap Places(c, sought.columns)) \in Int
    <3>1. PICK n \in Nat : n = Cardinality(ps \cap Places(c, sought.columns))
      BY <1>1
    <3>2. PICK x \in Int : x = rs[c]
      OBVIOUS
    <3> QED BY <3>1, <3>2
  <2>2. DOMAIN rs = Column
    OBVIOUS
  <2> QED BY <2>1, <2>2 DEF RefAt, UnrefAt
<1> QED BY <1>2, <1>3

-----------------------------------------------------------------------------
(* Queries by columns: what a step leaves                                  *)

\* The models are the same but for their references.
SameModels(ms, ns) ==
    /\ ns \in Seq(SqlModel) /\ Len(ns) = Len(ms)
    /\ \A i \in 1 .. Len(ms) : /\ ns[i].columns = ms[i].columns
                               /\ ns[i].targets = ms[i].targets
                               /\ ns[i].rows = ms[i].rows /\ ns[i].joined = ms[i].joined

LEMMA RecountedSame ==
    ASSUME NEW ms, NEW ns, NEW m, NEW d, Recounted(ms, ns, m, d)
    PROVE  SameModels(ms, ns)
BY DEF Recounted, SameModels

LEMMA KeepsNames ==
    ASSUME SqlInvariant, SameModels(model, model')
    PROVE  ColumnsNamed'
<1>1. DOMAIN model' = DOMAIN model /\ DOMAIN model = 1 .. Len(model)
  BY DEF SameModels, SqlInvariant, SqlTypeOK
<1>2. ColumnsNamed' <=> \A m \in DOMAIN model' :
                            NamedBy(model'[m].columns, model'[m].joined, model'[m].targets)
  BY DEF ColumnsNamed, NamedBy
<1>3. \A m \in DOMAIN model : NamedBy(model[m].columns, model[m].joined, model[m].targets)
  BY NamedIs DEF SqlInvariant
<1>4. \A m \in DOMAIN model : /\ model'[m].columns = model[m].columns
                              /\ model'[m].joined = model[m].joined
                              /\ model'[m].targets = model[m].targets
  BY <1>1 DEF SameModels
<1> QED BY <1>1, <1>2, <1>3, <1>4

LEMMA KeepsGoneOn ==
    ASSUME SqlInvariant, SameModels(model, model'), resultset' \in {0, resultset},
           resultset' # 0 => \/ sought'.columns = sought.columns
                             \/ \E c \in Column : sought'.columns = Append(sought.columns, c)
    PROVE  GoneOn'
<1> SUFFICES ASSUME resultset' # 0 PROVE IsPrefix(model'[resultset'].columns, sought'.columns)
  BY DEF GoneOn
<1>1. resultset' = resultset /\ resultset \in 1 .. Len(model)
  BY DEF SqlInvariant, SqlTypeOK
<1>2. model[resultset] \in SqlModel /\ sought \in SqlQuery
  BY <1>1 DEF SqlInvariant, SqlTypeOK
<1>3. PICK s \in Seq(Column), t \in Seq(Column) : s = model[resultset].columns /\ t = sought.columns
  BY <1>2 DEF SqlModel, SqlQuery
<1>4. IsPrefix(s, t)
  BY <1>1, <1>3 DEF SqlInvariant, GoneOn
<1>5. model'[resultset'].columns = s
  BY <1>1, <1>3 DEF SameModels
<1>6. CASE sought'.columns = t
  BY <1>4, <1>5, <1>6
<1>7. ASSUME NEW c \in Column, sought'.columns = Append(t, c)
      PROVE  IsPrefix(model'[resultset'].columns, sought'.columns)
  BY <1>4, <1>5, <1>7, PrefixGrows
<1> QED BY <1>3, <1>6, <1>7

LEMMA KeepsShown ==
    ASSUME SqlInvariant, SameModels(model, model'),
           \/ result' = result
           \/ \E k \in 1 .. Len(result) : Becoming(result, result', k)
    PROVE  ResultsShow' /\ \A k \in 1 .. Len(result') : result'[k].model \in 1 .. Len(model')
<1>1. /\ Len(result') = Len(result)
      /\ \A k \in 1 .. Len(result) : /\ result'[k].model = result[k].model
                                     /\ result'[k].n_rows = result[k].n_rows
                                     /\ result'[k].columns = result[k].columns
  BY DEF Becoming
<1>2. \A k \in 1 .. Len(result) :
          /\ result[k].model \in 1 .. Len(model)
          /\ IsPrefix(model[result[k].model].columns, result[k].columns)
          /\ result[k].n_rows = model[result[k].model].rows
  BY DEF SqlInvariant, SqlTypeOK, ResultsShow
<1>3. /\ Len(model') = Len(model)
      /\ \A m \in 1 .. Len(model) : /\ model'[m].columns = model[m].columns
                                    /\ model'[m].rows = model[m].rows
  BY DEF SameModels
<1>4. \A k \in 1 .. Len(result) :
          /\ result'[k].model \in 1 .. Len(model)
          /\ IsPrefix(model'[result'[k].model].columns, result'[k].columns)
          /\ result'[k].n_rows = model'[result'[k].model].rows
  BY <1>1, <1>2, <1>3
<1> QED BY <1>1, <1>3, <1>4 DEF ResultsShow

\* No result is given, and no model changes: the query goes on, or what is
\* held of its columns changes.
LEMMA QueryGoesOn ==
    ASSUME SqlInvariant, UNCHANGED <<model, resultset, result>>,
           sought' \in SqlQuery, columnRefs' \in [Column -> Int], own' \in SUBSET Column,
           stored' \in {0, 2},
           \/ sought'.columns = sought.columns
           \/ \E c \in Column : sought'.columns = Append(sought.columns, c),
           \A c \in Column :
               columnRefs'[c] - (IF c \in own' THEN 1 ELSE 0) - QueryHas(sought', c) >=
                   columnRefs[c] - (IF c \in own THEN 1 ELSE 0) - QueryHas(sought, c)
    PROVE  SqlInvariant'
<1>1. SqlTypeOK'
  BY DEF SqlInvariant, SqlTypeOK
<1>2. SameModels(model, model')
  BY DEF SameModels, SqlInvariant, SqlTypeOK
<1>3. ColumnsNamed'
  BY <1>2, KeepsNames
<1>4. ResultsShow'
  BY <1>2, KeepsShown
<1>5. RefsFit' /\ RowsOwned'
  BY DEF RefsFit, RowsOwned, SqlInvariant
<1>6. GoneOn'
  BY <1>2, KeepsGoneOn
<1>7. ASSUME NEW c \in Column
      PROVE  columnRefs'[c] >= (IF c \in own' THEN 1 ELSE 0) + QueryHas(sought', c)
                                   + Having(result', c)
  <2>1. /\ columnRefs[c] >= (IF c \in own THEN 1 ELSE 0) + QueryHas(sought, c) + Having(result, c)
        /\ columnRefs[c] \in Int /\ columnRefs'[c] \in Int
    BY DEF SqlInvariant, SqlTypeOK, ColumnsHeld
  <2>2. QueryHas(sought, c) \in Nat /\ QueryHas(sought', c) \in Nat
    BY QueryHasTyped DEF SqlInvariant, SqlTypeOK
  <2>3. PICK h \in Nat : h = Having(result, c) /\ h = Having(result', c)
    BY HoldingTyped DEF SqlInvariant, SqlTypeOK
  <2>4. columnRefs'[c] - (IF c \in own' THEN 1 ELSE 0) - QueryHas(sought', c) >=
            columnRefs[c] - (IF c \in own THEN 1 ELSE 0) - QueryHas(sought, c)
    OBVIOUS
  <2>5. PICK x \in Int, y \in Int, p \in Nat, q \in Nat :
            /\ x = columnRefs[c] /\ y = columnRefs'[c]
            /\ p = QueryHas(sought, c) /\ q = QueryHas(sought', c)
    BY <2>1, <2>2
  <2>6. PICK e \in Nat, d \in Nat :
            e = (IF c \in own THEN 1 ELSE 0) /\ d = (IF c \in own' THEN 1 ELSE 0)
    OBVIOUS
  <2>7. x >= e + p + h /\ y - d - q >= x - e - p
    BY <2>1, <2>3, <2>4, <2>5, <2>6
  <2>8. y >= d + q + h
    BY <2>7
  <2> QED BY <2>3, <2>5, <2>6, <2>8
<1>8. ColumnsHeld'
  BY <1>7 DEF ColumnsHeld
<1> QED BY <1>1, <1>3, <1>4, <1>5, <1>6, <1>8 DEF SqlInvariant

-----------------------------------------------------------------------------
(* Queries by columns: building, and executions that fail                  *)

LEMMA CountFew ==
    ASSUME NEW c
    PROVE  /\ Count(c, <<>>) = 0
           /\ \A d \in Column : /\ <<d>> \in Seq(Column)
                                /\ Count(c, <<d>>) = IF c = d THEN 1 ELSE 0
<1>1. Places(c, <<>>) = {}
  BY DEF Places
<1>2. Count(c, <<>>) = 0
  BY <1>1, FS_EmptySet DEF Count
<1>3. ASSUME NEW d \in Column PROVE Count(c, <<d>>) = IF c = d THEN 1 ELSE 0
  <2>1. <<>> \in Seq(Column) /\ Append(<<>>, d) = <<d>>
    OBVIOUS
  <2>2. Count(c, Append(<<>>, d)) = Count(c, <<>>) + (IF c = d THEN 1 ELSE 0)
    BY <2>1, CountMore
  <2> QED BY <1>2, <2>1, <2>2
<1> QED BY <1>2, <1>3

\* The query, once typed.
LEMMA QueryTyped ==
    ASSUME SqlInvariant
    PROVE  /\ sought \in SqlQuery /\ columnRefs \in [Column -> Int] /\ own \in SUBSET Column
           /\ stored \in {0, 2}
           /\ sought.columns \in Seq(Column) /\ sought.constraint \in Seq(Column)
           /\ \A c : /\ Count(c, sought.columns) \in Nat
                     /\ Count(c, sought.constraint) \in Nat
                     /\ OrderedBy(sought, c) \in Nat /\ QueryHas(sought, c) \in Nat
<1>1. /\ sought \in SqlQuery /\ columnRefs \in [Column -> Int] /\ own \in SUBSET Column
      /\ stored \in {0, 2}
  BY DEF SqlInvariant, SqlTypeOK
<1>2. sought.columns \in Seq(Column) /\ sought.constraint \in Seq(Column)
  BY <1>1 DEF SqlQuery
<1>3. \A c : /\ Count(c, sought.columns) \in Nat /\ Count(c, sought.constraint) \in Nat
             /\ OrderedBy(sought, c) \in Nat /\ QueryHas(sought, c) \in Nat
  BY <1>1, QueryHasTyped
<1> QED BY <1>1, <1>2, <1>3

LEMMA ColumnAdded ==
    ASSUME SqlInvariant, NEW c \in Column, AddColumn(c)
    PROVE  SqlInvariant'
<1>1. /\ sought' = [sought EXCEPT !.columns = Append(@, c)]
      /\ columnRefs' = Ref(columnRefs, <<c>>)
      /\ UNCHANGED <<own, model, resultset, result, stored>>
  BY DEF AddColumn
<1>2. PICK q \in SqlQuery, cs \in Seq(Column) : q = sought /\ cs = q.columns
  BY QueryTyped
<1>3. Append(cs, c) \in Seq(Column)
  OBVIOUS
<1>4. sought' \in SqlQuery /\ sought'.columns = Append(cs, c)
      /\ sought'.constraint = q.constraint /\ sought'.orders = q.orders
  BY <1>1, <1>2, <1>3 DEF SqlQuery
<1>5. columnRefs' \in [Column -> Int]
      /\ \A x \in Column : columnRefs'[x] = columnRefs[x] + Count(x, <<c>>)
  BY <1>1, QueryTyped, CountFew, ColumnsCounted
<1>6. ASSUME NEW x \in Column
      PROVE  columnRefs'[x] - (IF x \in own' THEN 1 ELSE 0) - QueryHas(sought', x) >=
                 columnRefs[x] - (IF x \in own THEN 1 ELSE 0) - QueryHas(sought, x)
  <2>1. Count(x, Append(cs, c)) = Count(x, cs) + (IF x = c THEN 1 ELSE 0)
    BY CountMore
  <2>2. Count(x, <<c>>) = IF x = c THEN 1 ELSE 0
    BY CountFew
  <2>3. OrderedBy(sought', x) = OrderedBy(sought, x)
    BY <1>2, <1>4 DEF OrderedBy
  <2>4. PICK k \in Nat, o \in Nat, n \in Nat, r \in Int :
            /\ k = Count(x, cs) /\ o = OrderedBy(sought, x)
            /\ n = Count(x, q.constraint) /\ r = columnRefs[x]
    BY <1>2, QueryTyped
  <2>5. QueryHas(sought', x) = (k + (IF x = c THEN 1 ELSE 0)) + n + o
        /\ QueryHas(sought, x) = k + n + o
    BY <1>2, <1>4, <2>1, <2>3, <2>4 DEF QueryHas
  <2>6. columnRefs'[x] = r + (IF x = c THEN 1 ELSE 0) /\ columnRefs[x] = r /\ own' = own
    BY <1>1, <1>5, <2>2, <2>4
  <2> QED BY <2>5, <2>6
<1> QED BY <1>1, <1>2, <1>4, <1>5, <1>6, QueryTyped, QueryGoesOn

LEMMA JoinAdded ==
    ASSUME SqlInvariant, NEW left, NEW right, AddDataJoin(left, right)
    PROVE  SqlInvariant'
<1>1. /\ sought' = [sought EXCEPT !.joins = Append(@, <<left, right>>)]
      /\ columnRefs' = Ref(columnRefs, <<left, right>>)
      /\ left \in own /\ right \in own
      /\ UNCHANGED <<own, model, resultset, result, stored>>
  BY DEF AddDataJoin
<1>2. PICK q \in SqlQuery, js \in Seq(Column \X Column) : q = sought /\ js = q.joins
  BY QueryTyped DEF SqlQuery
<1>3. left \in Column /\ right \in Column
  BY <1>1, QueryTyped
<1>4. Append(js, <<left, right>>) \in Seq(Column \X Column) /\ <<left, right>> \in Seq(Column)
  BY <1>3
<1>5. sought' \in SqlQuery /\ sought'.columns = q.columns
      /\ sought'.constraint = q.constraint /\ sought'.orders = q.orders
  BY <1>1, <1>2, <1>4 DEF SqlQuery
<1>6. columnRefs' \in [Column -> Int]
      /\ \A x \in Column : /\ columnRefs'[x] = columnRefs[x] + Count(x, <<left, right>>)
                           /\ Count(x, <<left, right>>) \in Nat
  BY <1>1, <1>4, QueryTyped, ColumnsCounted
<1>7. ASSUME NEW x \in Column
      PROVE  columnRefs'[x] - (IF x \in own' THEN 1 ELSE 0) - QueryHas(sought', x) >=
                 columnRefs[x] - (IF x \in own THEN 1 ELSE 0) - QueryHas(sought, x)
  <2>1. QueryHas(sought', x) = QueryHas(sought, x)
    BY <1>2, <1>5 DEF QueryHas, OrderedBy
  <2>2. PICK h \in Nat, r \in Int, k \in Nat :
            /\ h = QueryHas(sought, x) /\ r = columnRefs[x]
            /\ k = Count(x, <<left, right>>)
    BY <1>6, QueryTyped
  <2>3. columnRefs'[x] = r + k /\ own' = own
    BY <1>1, <1>6, <2>2
  <2> QED BY <2>1, <2>2, <2>3
<1> QED BY <1>1, <1>2, <1>5, <1>6, <1>7, QueryTyped, QueryGoesOn

LEMMA ConstraintSet ==
    ASSUME SqlInvariant, NEW c, NEW kind \in {"one", "empty", "bad"}, SetDataConstraint(kind, c)
    PROVE  SqlInvariant'
<1>1. PICK new : new = IF kind = "empty" THEN <<>> ELSE <<c>>
  OBVIOUS
<1>2. /\ sought' = [sought EXCEPT !.kind = kind, !.constraint = new]
      /\ columnRefs' = Ref(Unref(columnRefs, sought.constraint), sought'.constraint)
      /\ c \in own
      /\ UNCHANGED <<own, model, resultset, result, stored>>
  BY <1>1 DEF SetDataConstraint
<1>3. PICK q \in SqlQuery : q = sought
  BY QueryTyped
<1>4. new \in Seq(Column)
  BY <1>1, <1>2, QueryTyped
<1>5. sought' \in SqlQuery /\ sought'.columns = q.columns
      /\ sought'.constraint = new /\ sought'.orders = q.orders
  BY <1>2, <1>3, <1>4 DEF SqlQuery
<1>6. PICK rs \in [Column -> Int] : rs = Unref(columnRefs, sought.constraint)
  BY QueryTyped, ColumnsCounted
<1>7. \A x \in Column : rs[x] = columnRefs[x] - Count(x, sought.constraint)
  BY <1>6, QueryTyped, ColumnsCounted
<1>8. columnRefs' \in [Column -> Int]
      /\ \A x \in Column : columnRefs'[x] = rs[x] + Count(x, new) /\ Count(x, new) \in Nat
  BY <1>2, <1>4, <1>5, <1>6, ColumnsCounted
<1>9. ASSUME NEW x \in Column
      PROVE  columnRefs'[x] - (IF x \in own' THEN 1 ELSE 0) - QueryHas(sought', x) >=
                 columnRefs[x] - (IF x \in own THEN 1 ELSE 0) - QueryHas(sought, x)
  <2>1. OrderedBy(sought', x) = OrderedBy(sought, x)
    BY <1>3, <1>5 DEF OrderedBy
  <2>2. PICK k \in Nat, o \in Nat, n \in Nat, m \in Nat, r \in Int :
            /\ k = Count(x, sought.columns) /\ o = OrderedBy(sought, x)
            /\ n = Count(x, sought.constraint) /\ m = Count(x, new) /\ r = columnRefs[x]
    BY <1>8, QueryTyped
  <2>3. QueryHas(sought', x) = k + m + o /\ QueryHas(sought, x) = k + n + o
    BY <1>3, <1>5, <2>1, <2>2 DEF QueryHas
  <2>4. columnRefs'[x] = r - n + m
    BY <1>7, <1>8, <2>2
  <2> QED BY <1>2, <2>2, <2>3, <2>4
<1> QED BY <1>2, <1>3, <1>5, <1>8, <1>9, QueryTyped, QueryGoesOn

LEMMA OrderAdded ==
    ASSUME SqlInvariant, NEW c, NEW type \in {"asc", "odd"}, AddOrderOf(c, type)
    PROVE  SqlInvariant'
<1>1. /\ sought' = [sought EXCEPT !.orders = Append(@, <<c, type>>)]
      /\ columnRefs' = Ref(columnRefs, <<c>>) /\ c \in own
      /\ UNCHANGED <<own, model, resultset, result, stored>>
  BY DEF AddOrderOf
<1>2. PICK q \in SqlQuery, os \in Seq(Column \X {"asc", "odd"}) : q = sought /\ os = q.orders
  BY QueryTyped DEF SqlQuery
<1>3. c \in Column
  BY <1>1, QueryTyped
<1>4. Append(os, <<c, type>>) \in Seq(Column \X {"asc", "odd"})
  BY <1>3
<1>5. sought' \in SqlQuery /\ sought'.columns = q.columns
      /\ sought'.constraint = q.constraint /\ sought'.orders = Append(q.orders, <<c, type>>)
  BY <1>1, <1>2, <1>4 DEF SqlQuery
<1>6. columnRefs' \in [Column -> Int]
      /\ \A x \in Column : columnRefs'[x] = columnRefs[x] + Count(x, <<c>>)
  BY <1>1, <1>3, QueryTyped, CountFew, ColumnsCounted
<1>7. ASSUME NEW x \in Column
      PROVE  columnRefs'[x] - (IF x \in own' THEN 1 ELSE 0) - QueryHas(sought', x) >=
                 columnRefs[x] - (IF x \in own THEN 1 ELSE 0) - QueryHas(sought, x)
  <2>1. OrderedBy(sought', x) = OrderedBy(sought, x) + (IF x = c THEN 1 ELSE 0)
    BY <1>2, <1>3, <1>5, OrderedMore
  <2>2. Count(x, <<c>>) = IF x = c THEN 1 ELSE 0
    BY <1>3, CountFew
  <2>3. PICK k \in Nat, o \in Nat, n \in Nat, r \in Int :
            /\ k = Count(x, sought.columns) /\ o = OrderedBy(sought, x)
            /\ n = Count(x, sought.constraint) /\ r = columnRefs[x]
    BY QueryTyped
  <2>4. QueryHas(sought', x) = k + n + (o + (IF x = c THEN 1 ELSE 0))
        /\ QueryHas(sought, x) = k + n + o
    BY <1>2, <1>5, <2>1, <2>3 DEF QueryHas
  <2>5. columnRefs'[x] = r + (IF x = c THEN 1 ELSE 0) /\ columnRefs[x] = r /\ own' = own
    BY <1>1, <1>6, <2>2, <2>3
  <2>6. PICK e \in Nat : e = IF x = c THEN 1 ELSE 0
    OBVIOUS
  <2>7. /\ QueryHas(sought', x) = k + n + (o + e) /\ QueryHas(sought, x) = k + n + o
        /\ columnRefs'[x] = r + e /\ columnRefs[x] = r /\ own' = own
    BY <2>4, <2>5, <2>6
  <2> QED BY <2>7
<1> QED BY <1>1, <1>2, <1>5, <1>6, <1>7, QueryTyped, QueryGoesOn

LEMMA LimitSet ==
    ASSUME SqlInvariant, NEW n \in {0, 1}, SetDataLimit(n)
    PROVE  SqlInvariant'
<1>1. /\ sought' = [sought EXCEPT !.limit = n]
      /\ UNCHANGED <<columnRefs, own, model, resultset, result, stored>>
  BY DEF SetDataLimit
<1>2. PICK q \in SqlQuery : q = sought
  BY QueryTyped
<1>3. sought' \in SqlQuery /\ sought'.columns = q.columns
      /\ sought'.constraint = q.constraint /\ sought'.orders = q.orders
  BY <1>1, <1>2 DEF SqlQuery
<1>4. ASSUME NEW x \in Column
      PROVE  columnRefs'[x] - (IF x \in own' THEN 1 ELSE 0) - QueryHas(sought', x) >=
                 columnRefs[x] - (IF x \in own THEN 1 ELSE 0) - QueryHas(sought, x)
  <2>1. QueryHas(sought', x) = QueryHas(sought, x)
    BY <1>2, <1>3 DEF QueryHas, OrderedBy
  <2>2. QueryHas(sought, x) \in Nat /\ columnRefs[x] \in Int
    BY QueryTyped
  <2> QED BY <1>1, <2>1, <2>2
<1> QED BY <1>1, <1>2, <1>3, <1>4, QueryTyped, QueryGoesOn

\* The query is what it was, and no column loses a reference it had.
LEMMA QueryStays ==
    ASSUME SqlInvariant, UNCHANGED <<sought, own, model, resultset, result>>,
           stored' \in {0, 2}, columnRefs' \in [Column -> Int],
           \A c \in Column : columnRefs'[c] >= columnRefs[c]
    PROVE  SqlInvariant'
<1>1. ASSUME NEW x \in Column
      PROVE  columnRefs'[x] - (IF x \in own' THEN 1 ELSE 0) - QueryHas(sought', x) >=
                 columnRefs[x] - (IF x \in own THEN 1 ELSE 0) - QueryHas(sought, x)
  <2>1. PICK h \in Nat, r \in Int, s \in Int :
            h = QueryHas(sought, x) /\ r = columnRefs[x] /\ s = columnRefs'[x]
    BY QueryTyped
  <2>2. s >= r
    BY <2>1
  <2> QED BY <2>1, <2>2
<1> QED BY <1>1, QueryTyped, QueryGoesOn

LEMMA ExecutionFails ==
    ASSUME SqlInvariant,
           \/ ExecuteDies \/ ExecuteInvalid \/ ExecuteUnqualified
           \/ DataChanges \/ UNCHANGED dataVars
    PROVE  SqlInvariant'
<1>1. CASE ExecuteDies \/ DataChanges \/ UNCHANGED dataVars
  <2>1. UNCHANGED <<sought, own, model, resultset, result, columnRefs>> /\ stored' \in {0, 2}
    BY <1>1, QueryTyped DEF ExecuteDies, DataChanges, dataVars
  <2>2. \A c \in Column : columnRefs'[c] >= columnRefs[c]
    BY <2>1, QueryTyped
  <2> QED BY <2>1, <2>2, QueryTyped, QueryStays
<1>2. CASE ExecuteInvalid
  <2>1. /\ columnRefs' = RefAt(columnRefs, LeftByValidation)
        /\ UNCHANGED <<sought, own, model, resultset, result, stored>>
    BY <1>2 DEF ExecuteInvalid, Fails
  <2>2. columnRefs' \in [Column -> Int] /\ \A c \in Column : columnRefs'[c] >= columnRefs[c]
    BY <2>1, QueryTyped, ColumnsAt
  <2> QED BY <2>1, <2>2, QueryTyped, QueryStays
<1>3. CASE ExecuteUnqualified
  <2>1. /\ columnRefs' = UnrefAt(Ref(columnRefs, sought.columns), GivenBack)
        /\ UNCHANGED <<sought, own, model, resultset, result, stored>>
    BY <1>3 DEF ExecuteUnqualified, Fails
  <2>2. columnRefs' \in [Column -> Int] /\ \A c \in Column : columnRefs'[c] >= columnRefs[c]
    <3>1. PICK rs \in [Column -> Int] : rs = Ref(columnRefs, sought.columns)
      BY QueryTyped, ColumnsCounted
    <3>2. \A c \in Column : rs[c] = columnRefs[c] + Count(c, sought.columns)
      BY <3>1, QueryTyped, ColumnsCounted
    <3>3. columnRefs' \in [Column -> Int]
          /\ \A c \in Column : columnRefs'[c] >= rs[c] - Count(c, sought.columns)
      BY <2>1, <3>1, QueryTyped, ColumnsAt
    <3>4. ASSUME NEW c \in Column PROVE columnRefs'[c] >= columnRefs[c]
      BY <3>2, <3>3, QueryTyped
    <3> QED BY <3>3, <3>4
  <2> QED BY <2>1, <2>2, QueryTyped, QueryStays
<1> QED BY <1>1, <1>2, <1>3

LEMMA OwnDropped ==
    ASSUME SqlInvariant, DropColumns
    PROVE  SqlInvariant'
<1>1. /\ own' = {} /\ UNCHANGED <<sought, model, resultset, result, stored>>
      /\ columnRefs' = [c \in Column |-> columnRefs[c] - (IF c \in own THEN 1 ELSE 0)]
  BY DEF DropColumns
<1>2. columnRefs' \in [Column -> Int]
  BY <1>1, QueryTyped
<1>3. ASSUME NEW x \in Column
      PROVE  columnRefs'[x] - (IF x \in own' THEN 1 ELSE 0) - QueryHas(sought', x) >=
                 columnRefs[x] - (IF x \in own THEN 1 ELSE 0) - QueryHas(sought, x)
  <2>1. PICK h \in Nat, r \in Int : h = QueryHas(sought, x) /\ r = columnRefs[x]
    BY QueryTyped
  <2>2. columnRefs'[x] = r - (IF x \in own THEN 1 ELSE 0)
    BY <1>1, <2>1
  <2> QED BY <1>1, <2>1, <2>2
<1> QED BY <1>1, <1>2, <1>3, QueryTyped, QueryGoesOn

-----------------------------------------------------------------------------
(* Queries by columns: executions that succeed, and their results          *)

NewModel == [columns |-> sought.columns, targets |-> Targets(sought.columns, sought.joins),
             rows |-> IF sought.limit = 1 THEN Min({1, stored}) ELSE stored,
             joined |-> ToSet(sought.joins), refs |-> 1]

LEMMA NewModelTyped ==
    ASSUME SqlInvariant, AcceptedStatement(Targets(sought.columns, sought.joins))
    PROVE  /\ NewModel \in SqlModel
           /\ NamedBy(NewModel.columns, NewModel.joined, NewModel.targets)
<1>1. PICK cs \in Seq(Column), js \in Seq(Column \X Column) :
          cs = sought.columns /\ js = sought.joins
  BY QueryTyped DEF SqlQuery
<1>2. PICK ts : ts = Targets(cs, js)
  OBVIOUS
<1>3. ts \in Seq(TargetsOf)
  BY <1>2, TargetsFrom DEF FromJoins
<1>4. ToSet(js) \in SUBSET (Column \X Column)
  BY DEF ToSet
<1>5. (IF sought.limit = 1 THEN Min({1, stored}) ELSE stored) \in 0 .. 2
  <2>1. stored \in {0, 2}
    BY QueryTyped
  <2>2. Min({1, 0}) = 0
    <3>1. \E x \in {1, 0} : \A y \in {1, 0} : x =< y
      OBVIOUS
    <3>2. Min({1, 0}) \in {1, 0} /\ \A y \in {1, 0} : Min({1, 0}) =< y
      BY <3>1 DEF Min
    <3> QED BY <3>2
  <2>3. Min({1, 2}) = 1
    <3>1. \E x \in {1, 2} : \A y \in {1, 2} : x =< y
      OBVIOUS
    <3>2. Min({1, 2}) \in {1, 2} /\ \A y \in {1, 2} : Min({1, 2}) =< y
      BY <3>1 DEF Min
    <3> QED BY <3>2
  <2>4. CASE stored = 0
    BY <2>2, <2>4
  <2>5. CASE stored = 2
    BY <2>3, <2>5
  <2> QED BY <2>1, <2>4, <2>5
<1>6. NewModel \in SqlModel
  BY <1>1, <1>2, <1>3, <1>4, <1>5 DEF NewModel, SqlModel
<1>7. {c.as : c \in ToSet(cs) \cup UNION {ToSet(js[i]) : i \in DOMAIN js}} \ {"none"}
          \subseteq {ts[i].as : i \in DOMAIN ts}
  <2>1. {c.as : c \in ToSet(sought.columns) \cup ToSet(sought.constraint)
                         \cup {sought.orders[i][1] : i \in DOMAIN sought.orders}
                         \cup UNION {ToSet(sought.joins[i]) : i \in DOMAIN sought.joins}}
             \ {"none"} \subseteq {ts[i].as : i \in DOMAIN ts}
    <3>1. AcceptedStatement(ts)
      BY <1>1, <1>2
    <3> QED BY <3>1 DEF AcceptedStatement
  <2>2. PICK k, o : k = ToSet(sought.constraint)
                    /\ o = {sought.orders[i][1] : i \in DOMAIN sought.orders}
    OBVIOUS
  <2>3. PICK u, e : u = UNION {ToSet(sought.joins[i]) : i \in DOMAIN sought.joins}
                    /\ e = {ts[i].as : i \in DOMAIN ts}
    OBVIOUS
  <2>4. {c.as : c \in ToSet(cs) \cup k \cup o \cup u} \ {"none"} \subseteq e
    BY <1>1, <2>1, <2>2, <2>3
  <2>5. {c.as : c \in ToSet(cs) \cup u} \ {"none"} \subseteq e
    BY <2>4
  <2>6. u = UNION {ToSet(js[i]) : i \in DOMAIN js}
    BY <1>1, <2>3
  <2> QED BY <2>3, <2>5, <2>6
<1>8. NamedBy(cs, ToSet(js), ts)
  BY <1>2, <1>7, TargetsNamed
<1>9. NewModel.columns = cs /\ NewModel.joined = ToSet(js) /\ NewModel.targets = ts
  BY <1>1, <1>2 DEF NewModel
<1> QED BY <1>6, <1>8, <1>9

\* Nothing is held of a model no result is of.
LEMMA NothingHeld ==
    ASSUME NEW res \in Seq(SqlResult), NEW m, \A k \in 1 .. Len(res) : res[k].model # m
    PROVE  Lives(res, m) = 0 /\ Rows(res, m) = 0
<1>1. LiveOn(res, m) = {} /\ RowedOn(res, m) = {}
  BY DEF LiveOn, RowedOn
<1>2. \A s : OfEach({}, s) = {}
  BY DEF OfEach
<1> QED BY <1>1, <1>2, FS_EmptySet DEF Lives, Rows

\* What the loop over the columns leaves of the references get_columns took.
LEMMA ColumnsKept ==
    ASSUME SqlInvariant, columnRefs' = UnrefAt(Ref(columnRefs, sought.columns), GivenBack)
    PROVE  columnRefs' \in [Column -> Int] /\ \A c \in Column : columnRefs'[c] >= columnRefs[c]
<1>1. PICK rs \in [Column -> Int] : rs = Ref(columnRefs, sought.columns)
  BY QueryTyped, ColumnsCounted
<1>2. \A c \in Column : rs[c] = columnRefs[c] + Count(c, sought.columns)
  BY <1>1, QueryTyped, ColumnsCounted
<1>3. columnRefs' \in [Column -> Int]
      /\ \A c \in Column : columnRefs'[c] >= rs[c] - Count(c, sought.columns)
  BY <1>1, QueryTyped, ColumnsAt
<1>4. ASSUME NEW c \in Column PROVE columnRefs'[c] >= columnRefs[c]
  BY <1>2, <1>3, QueryTyped
<1> QED BY <1>3, <1>4

\* The columns a step leaves are held as they were.
LEMMA ColumnsHeldStill ==
    ASSUME SqlInvariant, UNCHANGED <<sought, own, result>>, columnRefs' \in [Column -> Int],
           \A c \in Column : columnRefs'[c] >= columnRefs[c]
    PROVE  ColumnsHeld'
<1>1. ASSUME NEW c \in Column
      PROVE  columnRefs'[c] >= (IF c \in own' THEN 1 ELSE 0) + QueryHas(sought', c)
                                   + Having(result', c)
  <2>1. PICK h \in Nat, q \in Nat, r \in Int, s \in Int, e \in Nat :
            /\ h = Having(result, c) /\ q = QueryHas(sought, c)
            /\ r = columnRefs[c] /\ s = columnRefs'[c] /\ e = IF c \in own THEN 1 ELSE 0
    BY QueryTyped, HoldingTyped DEF SqlInvariant, SqlTypeOK
  <2>2. s >= r /\ r >= e + q + h
    BY <2>1 DEF SqlInvariant, ColumnsHeld
  <2> QED BY <2>1, <2>2
<1> QED BY <1>1 DEF ColumnsHeld

LEMMA Executed ==
    ASSUME SqlInvariant, AcceptedStatement(Targets(sought.columns, sought.joins)),
           model' = Append(UnrefModel(model, resultset), NewModel),
           resultset' = Len(model) + 1, UNCHANGED <<sought, own, result, stored>>,
           columnRefs' \in [Column -> Int], \A c \in Column : columnRefs'[c] >= columnRefs[c]
    PROVE  SqlInvariant'
<1>1. PICK n \in Nat : n = Len(model)
  BY DEF SqlInvariant, SqlTypeOK
<1>2. PICK ms \in Seq(SqlModel) :
          ms = UnrefModel(model, resultset) /\ Recounted(model, ms, resultset, -1)
  BY ModelUnref DEF SqlInvariant, SqlTypeOK, Recounted
<1>3. PICK new \in SqlModel : new = NewModel /\ NamedBy(new.columns, new.joined, new.targets)
  BY NewModelTyped
<1>4. Len(ms) = n /\ \A i \in 1 .. n :
          /\ ms[i].columns = model[i].columns /\ ms[i].targets = model[i].targets
          /\ ms[i].rows = model[i].rows /\ ms[i].joined = model[i].joined
          /\ ms[i].refs = model[i].refs + (IF i = resultset THEN -1 ELSE 0)
  BY <1>1, <1>2 DEF Recounted
<1>5. /\ model' \in Seq(SqlModel) /\ Len(model') = n + 1 /\ DOMAIN model' = 1 .. n + 1
      /\ (\A i \in 1 .. n : model'[i] = ms[i]) /\ model'[n + 1] = new
  BY <1>2, <1>3, <1>4, AppendProperties
<1>6. \A i \in 1 .. n + 1 : i \in 1 .. n \/ i = n + 1
  OBVIOUS
<1>7. /\ \A k \in 1 .. Len(result) : result[k].model \in 1 .. n
      /\ result \in Seq(SqlResult)
  BY <1>1 DEF SqlInvariant, SqlTypeOK
<1>8. SqlTypeOK'
  <2>1. \A k \in 1 .. Len(result) : result[k].model \in 1 .. n + 1
    BY <1>7
  <2>2. n + 1 \in 0 .. n + 1
    OBVIOUS
  <2> QED BY <1>1, <1>5, <1>7, <2>1, <2>2, QueryTyped DEF SqlTypeOK
<1>9. ColumnsNamed'
  <2>1. ColumnsNamed' <=> \A m \in DOMAIN model' :
                              NamedBy(model'[m].columns, model'[m].joined, model'[m].targets)
    BY DEF ColumnsNamed, NamedBy
  <2>2. DOMAIN model = 1 .. n
    BY <1>1 DEF SqlInvariant, SqlTypeOK
  <2>3. \A m \in 1 .. n : NamedBy(model[m].columns, model[m].joined, model[m].targets)
    BY <2>2, NamedIs DEF SqlInvariant
  <2>4. \A m \in 1 .. n : NamedBy(model'[m].columns, model'[m].joined, model'[m].targets)
    BY <1>4, <1>5, <2>3
  <2> QED BY <1>3, <1>5, <1>6, <2>1, <2>4
<1>10. ResultsShow'
  <2>1. \A k \in 1 .. Len(result) :
            /\ model'[result[k].model].columns = model[result[k].model].columns
            /\ model'[result[k].model].rows = model[result[k].model].rows
    BY <1>4, <1>5, <1>7
  <2>2. ResultsShow
    BY DEF SqlInvariant
  <2> QED BY <2>1, <2>2 DEF ResultsShow
<1>11. RefsFit'
  <2>1. ASSUME NEW m \in 1 .. n
        PROVE  model'[m].refs = 0 + Lives(result, m) + Rows(result, m)
    <3>1. model[m].refs = (IF resultset = m THEN 1 ELSE 0) + Lives(result, m) + Rows(result, m)
      BY <1>1 DEF SqlInvariant, RefsFit
    <3>2. model'[m].refs = model[m].refs + (IF m = resultset THEN -1 ELSE 0)
      BY <1>4, <1>5
    <3>3. PICK l \in Nat, r \in Nat : l = Lives(result, m) /\ r = Rows(result, m)
      BY <1>7, HoldingTyped
    <3> QED BY <3>1, <3>2, <3>3
  <2>2. Lives(result, n + 1) = 0 /\ Rows(result, n + 1) = 0
    <3>1. \A k \in 1 .. Len(result) : result[k].model # n + 1
      BY <1>7
    <3> QED BY <1>7, <3>1, NothingHeld
  <2>3. model'[n + 1].refs = 1
    BY <1>3, <1>5 DEF NewModel
  <2>4. ASSUME NEW m \in 1 .. n + 1
        PROVE  model'[m].refs = (IF resultset' = m THEN 1 ELSE 0) + Lives(result', m)
                                    + Rows(result', m)
    <3>1. CASE m \in 1 .. n
      <4>1. resultset' # m
        BY <1>1, <3>1
      <4> QED BY <2>1, <3>1, <4>1
    <3>2. CASE m = n + 1
      <4>1. resultset' = m
        BY <1>1, <3>2
      <4>2. Lives(result', m) = 0 /\ Rows(result', m) = 0 /\ model'[m].refs = 1
        BY <2>2, <2>3, <3>2
      <4> QED BY <4>1, <4>2
    <3> QED BY <1>6, <3>1, <3>2
  <2> QED BY <1>5, <2>4 DEF RefsFit
<1>12. GoneOn'
  <2>1. model'[resultset'].columns = sought.columns
    BY <1>1, <1>3, <1>5 DEF NewModel
  <2>2. IsPrefix(sought.columns, sought.columns)
    BY QueryTyped, PrefixSame
  <2> QED BY <2>1, <2>2 DEF GoneOn
<1>13. RowsOwned'
  BY DEF RowsOwned, SqlInvariant
<1>14. ColumnsHeld'
  BY ColumnsHeldStill
<1> QED BY <1>8, <1>9, <1>10, <1>11, <1>12, <1>13, <1>14 DEF SqlInvariant

LEMMA ExecutionKeeps ==
    ASSUME SqlInvariant, NEW fails \in BOOLEAN, ExecuteData(fails)
    PROVE  SqlInvariant'
<1>1. /\ columnRefs' = UnrefAt(Ref(columnRefs, sought.columns), GivenBack)
      /\ UNCHANGED <<sought, own, result, stored>>
  BY DEF ExecuteData
<1>2. columnRefs' \in [Column -> Int] /\ \A c \in Column : columnRefs'[c] >= columnRefs[c]
  BY <1>1, ColumnsKept
<1>3. CASE fails \/ ~AcceptedStatement(Targets(sought.columns, sought.joins))
  <2>1. UNCHANGED <<model, resultset>>
    BY <1>3 DEF ExecuteData, Fails
  <2> QED BY <1>1, <1>2, <2>1, QueryTyped, QueryStays
<1>4. CASE ~fails /\ AcceptedStatement(Targets(sought.columns, sought.joins))
  <2>1. model' = Append(UnrefModel(model, resultset), NewModel) /\ resultset' = Len(model) + 1
    BY <1>4 DEF ExecuteData, NewModel
  <2> QED BY <1>1, <1>2, <1>4, <2>1, Executed
<1> QED BY <1>3, <1>4

\* A result that is not in the results of the query yet.
LEMMA ResultAdded ==
    ASSUME SqlInvariant, NEW r \in SqlResult, result' = Append(result, r),
           resultset # 0, r.model = resultset, r.columns = sought.columns, r.live,
           r.n_rows = model[resultset].rows, r.rowRefs = 0, ~r.taken,
           model' = [model EXCEPT ![resultset].refs = @ + 1],
           columnRefs' = Ref(Ref(columnRefs, sought.columns), sought.columns),
           UNCHANGED <<sought, own, resultset, stored>>
    PROVE  SqlInvariant'
<1>0. result \in Seq(SqlResult)
  BY DEF SqlInvariant, SqlTypeOK
<1>1. PICK n \in Nat : n = Len(result)
  BY <1>0
<1>2. /\ result \in Seq(SqlResult) /\ resultset \in 1 .. Len(model) /\ model \in Seq(SqlModel)
      /\ \A k \in 1 .. n : result[k].model \in 1 .. Len(model)
  BY <1>1 DEF SqlInvariant, SqlTypeOK
<1>3. /\ result' \in Seq(SqlResult) /\ Len(result') = n + 1
      /\ (\A k \in 1 .. n : result'[k] = result[k]) /\ result'[n + 1] = r
  BY <1>1, <1>2, AppendProperties
<1>4. \A k \in 1 .. n + 1 : k \in 1 .. n \/ k = n + 1
  OBVIOUS
<1>5. Recounted(model, model', resultset, 1)
  <2>1. model[resultset] \in SqlModel
    BY <1>2
  <2>2. model[resultset].refs \in Int
    BY <2>1 DEF SqlModel
  <2>3. PICK x \in Int : x = model[resultset].refs + 1
    BY <2>2
  <2>4. Recounted(model, [model EXCEPT ![resultset].refs = x], resultset, 1)
    <3>1. 1 \in Int
      OBVIOUS
    <3> QED BY <1>2, <2>3, <3>1, RecountedBy
  <2> QED BY <2>3, <2>4
<1>6. SameModels(model, model')
  BY <1>5, RecountedSame
<1>7. /\ \A m : Lives(result', m) = Lives(result, m) + (IF r.model = m THEN 1 ELSE 0)
      /\ \A m : Rows(result', m) = Rows(result, m)
      /\ \A c : Having(result', c) = Having(result, c) + Count(c, r.columns)
  <2>1. Giving(result, Append(result, r), r)
    BY <1>2, ResultGiven
  <2> QED BY <2>1 DEF Giving
<1>8. PICK rs \in [Column -> Int] : rs = Ref(columnRefs, sought.columns)
  BY QueryTyped, ColumnsCounted
<1>9. \A c \in Column : rs[c] = columnRefs[c] + Count(c, sought.columns)
  BY <1>8, QueryTyped, ColumnsCounted
<1>10. /\ columnRefs' \in [Column -> Int]
       /\ \A c \in Column : columnRefs'[c] = rs[c] + Count(c, sought.columns)
  BY <1>8, QueryTyped, ColumnsCounted
<1>11. SqlTypeOK'
  <2>1. model' \in Seq(SqlModel) /\ Len(model') = Len(model)
    BY <1>5 DEF Recounted
  <2>2. \A k \in 1 .. n + 1 : result'[k].model \in 1 .. Len(model)
    BY <1>2, <1>3, <1>4
  <2> QED BY <1>2, <1>3, <1>10, <2>1, <2>2, QueryTyped DEF SqlTypeOK
<1>12. ColumnsNamed'
  BY <1>6, KeepsNames
<1>13. ResultsShow'
  <2>1. /\ Len(model') = Len(model)
        /\ \A m \in 1 .. Len(model) : /\ model'[m].columns = model[m].columns
                                      /\ model'[m].rows = model[m].rows
    BY <1>6 DEF SameModels
  <2>2. ResultsShow
    BY DEF SqlInvariant
  <2>3. IsPrefix(model[resultset].columns, sought.columns)
    BY DEF SqlInvariant, GoneOn
  <2>4. \A k \in 1 .. n : /\ IsPrefix(model'[result'[k].model].columns, result'[k].columns)
                          /\ result'[k].n_rows = model'[result'[k].model].rows
    BY <1>1, <1>2, <1>3, <2>1, <2>2 DEF ResultsShow
  <2>5. /\ IsPrefix(model'[r.model].columns, r.columns)
        /\ r.n_rows = model'[r.model].rows
    BY <1>2, <2>1, <2>3
  <2> QED BY <1>3, <1>4, <2>4, <2>5 DEF ResultsShow
<1>14. RefsFit'
  <2>1. ASSUME NEW m \in 1 .. Len(model)
        PROVE  model'[m].refs = (IF resultset' = m THEN 1 ELSE 0) + Lives(result', m)
                                    + Rows(result', m)
    <3>1. model[m].refs = (IF resultset = m THEN 1 ELSE 0) + Lives(result, m) + Rows(result, m)
      BY DEF SqlInvariant, RefsFit
    <3>2. PICK l \in Nat, k \in Nat, e \in Nat :
              l = Lives(result, m) /\ k = Rows(result, m) /\ e = IF resultset = m THEN 1 ELSE 0
      BY <1>2, HoldingTyped
    <3>3. model'[m].refs = (e + l + k) + e
      BY <1>5, <3>1, <3>2 DEF Recounted
    <3>4. Lives(result', m) = l + e /\ Rows(result', m) = k
      BY <1>7, <3>2
    <3> QED BY <3>2, <3>3, <3>4
  <2> QED BY <1>6, <2>1 DEF RefsFit, SameModels
<1>15. GoneOn'
  BY <1>6, KeepsGoneOn
<1>16. RowsOwned'
  <2>1. RowsOwned
    BY DEF SqlInvariant
  <2>2. \A k \in 1 .. n : result'[k].rowRefs >=
            (IF result'[k].taken THEN 1 ELSE 0)
                + (IF result'[k].live /\ result'[k].rowRefs > 0 THEN 1 ELSE 0)
    BY <1>1, <1>3, <2>1 DEF RowsOwned
  <2>3. 0 >= 0 + 0 /\ ~(0 > 0)
    OBVIOUS
  <2>4. r.rowRefs >= (IF r.taken THEN 1 ELSE 0) + (IF r.live /\ r.rowRefs > 0 THEN 1 ELSE 0)
    BY <2>3
  <2> QED BY <1>3, <1>4, <2>2, <2>4 DEF RowsOwned
<1>17. ColumnsHeld'
  <2>1. ASSUME NEW c \in Column
        PROVE  columnRefs'[c] >= (IF c \in own' THEN 1 ELSE 0) + QueryHas(sought', c)
                                     + Having(result', c)
    <3>1. PICK h \in Nat, q \in Nat, x \in Int, e \in Nat, k \in Nat :
              /\ h = Having(result, c) /\ q = QueryHas(sought, c) /\ k = Count(c, sought.columns)
              /\ x = columnRefs[c] /\ e = IF c \in own THEN 1 ELSE 0
      BY <1>2, QueryTyped, HoldingTyped
    <3>2. x >= e + q + h
      BY <3>1 DEF SqlInvariant, ColumnsHeld
    <3>3. columnRefs'[c] = x + k + k /\ Having(result', c) = h + k
      BY <1>7, <1>9, <1>10, <3>1
    <3> QED BY <3>1, <3>2, <3>3
  <2> QED BY <2>1 DEF ColumnsHeld
<1> QED BY <1>11, <1>12, <1>13, <1>14, <1>15, <1>16, <1>17 DEF SqlInvariant

LEMMA ResultGot ==
    ASSUME SqlInvariant, GetQueryResult
    PROVE  SqlInvariant'
<1>1. UNCHANGED <<sought, own, resultset, stored>>
  BY DEF GetQueryResult
<1>2. CASE resultset = 0
  <2>1. columnRefs' = Ref(columnRefs, sought.columns) /\ UNCHANGED <<model, result>>
    BY <1>2 DEF GetQueryResult
  <2>2. columnRefs' \in [Column -> Int]
        /\ \A c \in Column : columnRefs'[c] = columnRefs[c] + Count(c, sought.columns)
    BY <2>1, QueryTyped, ColumnsCounted
  <2>3. ASSUME NEW c \in Column PROVE columnRefs'[c] >= columnRefs[c]
    <3>1. PICK x \in Int, n \in Nat : x = columnRefs[c] /\ n = Count(c, sought.columns)
      BY QueryTyped
    <3> QED BY <2>2, <3>1
  <2> QED BY <1>1, <2>1, <2>2, <2>3, QueryTyped, QueryStays
<1>3. CASE resultset # 0
  <2>1. PICK r : r = [model |-> resultset, columns |-> sought.columns, live |-> TRUE,
                      n_rows |-> model[resultset].rows, rowRefs |-> 0, taken |-> FALSE]
    OBVIOUS
  <2>2. /\ result' = Append(result, r)
        /\ model' = [model EXCEPT ![resultset].refs = @ + 1]
        /\ columnRefs' = Ref(Ref(columnRefs, sought.columns), sought.columns)
    BY <1>3, <2>1 DEF GetQueryResult
  <2>3. resultset \in Nat /\ model[resultset] \in SqlModel
    <3>1. model \in Seq(SqlModel) /\ resultset \in 1 .. Len(model)
      BY <1>3 DEF SqlInvariant, SqlTypeOK
    <3> QED BY <3>1
  <2>4. model[resultset].rows \in 0 .. 2
    BY <2>3 DEF SqlModel
  <2>5. r \in SqlResult
    BY <2>1, <2>3, <2>4, QueryTyped DEF SqlResult
  <2>6. /\ r.model = resultset /\ r.columns = sought.columns /\ r.live
        /\ r.n_rows = model[resultset].rows /\ r.rowRefs = 0 /\ ~r.taken
    BY <2>1
  <2> QED BY <1>1, <1>3, <2>2, <2>5, <2>6, ResultAdded
<1> QED BY <1>2, <1>3

-----------------------------------------------------------------------------
(* Queries by columns: rows and results that are taken and dropped         *)

\* One result changes, and the references to the models as it holds them.
LEMMA ResultChanges ==
    ASSUME SqlInvariant, NEW k \in 1 .. Len(result), Becoming(result, result', k),
           SameModels(model, model'), resultset' \in {0, resultset},
           sought' \in SqlQuery, resultset' # 0 => sought'.columns = sought.columns,
           columnRefs' \in [Column -> Int], UNCHANGED <<own, stored>>,
           \A m \in 1 .. Len(model) :
               model'[m].refs - (IF resultset' = m THEN 1 ELSE 0) - Lives(result', m)
                       - Rows(result', m) =
                   model[m].refs - (IF resultset = m THEN 1 ELSE 0) - Lives(result, m)
                       - Rows(result, m),
           result'[k].rowRefs >= (IF result'[k].taken THEN 1 ELSE 0)
               + (IF result'[k].live /\ result'[k].rowRefs > 0 THEN 1 ELSE 0),
           \A c \in Column :
               columnRefs'[c] - QueryHas(sought', c) - Having(result', c) >=
                   columnRefs[c] - QueryHas(sought, c) - Having(result, c)
    PROVE  SqlInvariant'
<1>1. /\ result \in Seq(SqlResult) /\ result' \in Seq(SqlResult) /\ Len(result') = Len(result)
      /\ model \in Seq(SqlModel) /\ model' \in Seq(SqlModel) /\ Len(model') = Len(model)
      /\ resultset \in 0 .. Len(model)
  BY DEF SqlInvariant, SqlTypeOK, Becoming, SameModels
<1>2. ResultsShow' /\ \A i \in 1 .. Len(result') : result'[i].model \in 1 .. Len(model')
  BY KeepsShown
<1>3. SqlTypeOK'
  <2>1. resultset' \in 0 .. Len(model')
    BY <1>1
  <2> QED BY <1>1, <1>2, <2>1, QueryTyped DEF SqlTypeOK
<1>4. ColumnsNamed'
  BY KeepsNames
<1>5. GoneOn'
  BY KeepsGoneOn
<1>6. RefsFit'
  <2>1. ASSUME NEW m \in 1 .. Len(model)
        PROVE  model'[m].refs = (IF resultset' = m THEN 1 ELSE 0) + Lives(result', m)
                                    + Rows(result', m)
    <3>1. model[m].refs = (IF resultset = m THEN 1 ELSE 0) + Lives(result, m) + Rows(result, m)
      BY DEF SqlInvariant, RefsFit
    <3>2. PICK l \in Nat, r \in Nat, e \in Nat : l = Lives(result, m) /\ r = Rows(result, m)
              /\ e = IF resultset = m THEN 1 ELSE 0
      BY <1>1, HoldingTyped
    <3>3. PICK j \in Nat, s \in Nat, d \in Nat : j = Lives(result', m) /\ s = Rows(result', m)
              /\ d = IF resultset' = m THEN 1 ELSE 0
      BY <1>1, HoldingTyped
    <3>4. PICK x \in Int : x = model'[m].refs
      <4>1. model'[m] \in SqlModel
        BY <1>1
      <4> QED BY <4>1 DEF SqlModel
    <3>5. x - d - j - s = (e + l + r) - e - l - r
      BY <3>1, <3>2, <3>3, <3>4
    <3>6. x = d + j + s
      BY <3>5
    <3> QED BY <3>3, <3>4, <3>6
  <2> QED BY <1>1, <2>1 DEF RefsFit
<1>7. RowsOwned'
  <2>1. RowsOwned /\ \A i \in 1 .. Len(result) : i # k => result'[i] = result[i]
    BY DEF SqlInvariant, Becoming
  <2>2. ASSUME NEW i \in 1 .. Len(result)
        PROVE  result'[i].rowRefs >= (IF result'[i].taken THEN 1 ELSE 0)
                   + (IF result'[i].live /\ result'[i].rowRefs > 0 THEN 1 ELSE 0)
    <3>1. CASE i = k
      BY <3>1
    <3>2. CASE i # k
      BY <2>1, <3>2 DEF RowsOwned
    <3> QED BY <3>1, <3>2
  <2> QED BY <1>1, <2>2 DEF RowsOwned
<1>8. ColumnsHeld'
  <2>1. ASSUME NEW c \in Column
        PROVE  columnRefs'[c] >= (IF c \in own' THEN 1 ELSE 0) + QueryHas(sought', c)
                                     + Having(result', c)
    <3>1. PICK h \in Nat, q \in Nat, x \in Int, e \in Nat :
              /\ h = Having(result, c) /\ q = QueryHas(sought, c)
              /\ x = columnRefs[c] /\ e = IF c \in own THEN 1 ELSE 0
      BY <1>1, QueryTyped, HoldingTyped
    <3>2. PICK i \in Nat, p \in Nat, y \in Int :
              /\ i = Having(result', c) /\ p = QueryHas(sought', c) /\ y = columnRefs'[c]
      BY <1>1, QueryHasTyped, HoldingTyped
    <3>3. x >= e + q + h
      BY <3>1 DEF SqlInvariant, ColumnsHeld
    <3>4. y - p - i >= x - q - h
      BY <3>1, <3>2
    <3>5. y >= e + p + i
      BY <3>3, <3>4
    <3> QED BY <3>1, <3>2, <3>5
  <2> QED BY <2>1 DEF ColumnsHeld
<1> QED BY <1>2, <1>3, <1>4, <1>5, <1>6, <1>7, <1>8 DEF SqlInvariant

\* The k-th result after a call on its rows, or on itself.
LEMMA ResultSet ==
    ASSUME NEW res \in Seq(SqlResult), NEW k \in 1 .. Len(res), NEW x \in SqlResult,
           x.model = res[k].model, x.n_rows = res[k].n_rows, x.columns = res[k].columns,
           x.live => res[k].live, NEW new, new = [res EXCEPT ![k] = x]
    PROVE  Becoming(res, new, k) /\ new[k] = x
<1>1. PICK n \in Nat : n = Len(res)
  OBVIOUS
<1>2. ASSUME NEW s, s = [res EXCEPT ![k] = x]
      PROVE  /\ s \in Seq(SqlResult) /\ Len(s) = Len(res)
             /\ \A i \in 1 .. Len(res) : s[i] = IF i = k THEN x ELSE res[i]
  BY <1>2, ExceptSeq
<1>3. /\ new \in Seq(SqlResult) /\ Len(new) = n
      /\ \A i \in 1 .. n : new[i] = IF i = k THEN x ELSE res[i]
  BY <1>1, <1>2
<1>4. k \in 1 .. n
  BY <1>1
<1> QED BY <1>1, <1>3, <1>4 DEF Becoming

LEMMA RowsTaken ==
    ASSUME SqlInvariant, NEW k \in DOMAIN result, GetRows(k)
    PROVE  SqlInvariant'
<1>1. /\ result \in Seq(SqlResult) /\ model \in Seq(SqlModel) /\ k \in 1 .. Len(result)
      /\ result[k].model \in 1 .. Len(model)
  BY DEF SqlInvariant, SqlTypeOK
<1>2. PICK r \in SqlResult : r = result[k]
  BY <1>1
<1>3. r.rowRefs \in Nat /\ r.n_rows \in Nat /\ r.model \in 1 .. Len(model)
  BY <1>1, <1>2 DEF SqlResult
<1>4. PICK x : x = [r EXCEPT !.taken = TRUE, !.rowRefs = r.rowRefs + 2]
  OBVIOUS
<1>5. /\ x \in SqlResult /\ x.model = r.model /\ x.n_rows = r.n_rows /\ x.columns = r.columns
      /\ x.live = r.live /\ x.taken /\ x.rowRefs = r.rowRefs + 2
  <2>1. PICK n \in Nat : n = r.rowRefs + 2
    BY <1>3
  <2>2. x = [r EXCEPT !.taken = TRUE, !.rowRefs = n]
    BY <1>4, <2>1
  <2>3. x \in SqlResult
    BY <2>2 DEF SqlResult
  <2>4. /\ x.model = r.model /\ x.n_rows = r.n_rows /\ x.columns = r.columns
        /\ x.live = r.live /\ x.taken = TRUE /\ x.rowRefs = n
    BY <2>2 DEF SqlResult
  <2> QED BY <2>1, <2>3, <2>4
<1>6. result' = [result EXCEPT ![k] = x]
  BY <1>1, <1>2, <1>4 DEF GetRows
<1>7. Becoming(result, result', k) /\ result'[k] = x
  BY <1>1, <1>2, <1>5, <1>6, ResultSet
<1>8. /\ UNCHANGED <<sought, columnRefs, own, resultset, stored>>
      /\ model' = IF r.rowRefs = 0
                  THEN [model EXCEPT ![r.model].refs = @ + r.n_rows] ELSE model
  BY <1>2 DEF GetRows
<1>9. Recounted(model, model', r.model, IF r.rowRefs = 0 THEN r.n_rows ELSE 0)
  <2>1. CASE r.rowRefs # 0
    BY <1>1, <1>8, <2>1, RecountedNot
  <2>2. CASE r.rowRefs = 0
    <3>1. model[r.model] \in SqlModel
      BY <1>1, <1>3
    <3>2. PICK n \in Int : n = model[r.model].refs + r.n_rows
      BY <1>3, <3>1 DEF SqlModel
    <3>3. Recounted(model, [model EXCEPT ![r.model].refs = n], r.model, r.n_rows)
      <4>1. r.n_rows \in Int
        BY <1>3
      <4> QED BY <1>1, <1>3, <3>2, <4>1, RecountedBy
    <3> QED BY <1>8, <2>2, <3>2, <3>3
  <2> QED BY <2>1, <2>2
<1>10. SameModels(model, model')
  BY <1>9, RecountedSame
<1>11. /\ \A m : Lives(result', m) = Lives(result, m)
       /\ \A c : Having(result', c) = Having(result, c)
  BY <1>1, <1>2, <1>5, <1>7, LivesBecome
<1>12. ASSUME NEW m
       PROVE  Rows(result', m) = Rows(result, m)
                  + (IF r.rowRefs = 0 /\ r.model = m THEN r.n_rows ELSE 0)
  <2>1. x.rowRefs > 0 /\ Rows(result, m) \in Nat
    BY <1>1, <1>3, <1>5, HoldingTyped
  <2>2. CASE r.rowRefs = 0
    <3>1. ~(r.rowRefs > 0)
      BY <2>2
    <3>2. \A i : Rows(result', i) = Rows(result, i)
                                       + (IF r.model = i THEN r.n_rows ELSE 0)
      BY <1>1, <1>2, <1>7, <2>1, <3>1, RowsBecome
    <3> QED BY <2>2, <3>2
  <2>3. CASE r.rowRefs # 0
    <3>1. (x.rowRefs > 0) = (r.rowRefs > 0)
      BY <1>3, <2>1, <2>3
    <3>2. \A i : Rows(result', i) = Rows(result, i)
      BY <1>1, <1>2, <1>7, <3>1, RowsBecome
    <3> QED BY <2>1, <2>3, <3>2
  <2> QED BY <2>2, <2>3
<1>13. ASSUME NEW m \in 1 .. Len(model)
       PROVE  model'[m].refs - (IF resultset' = m THEN 1 ELSE 0) - Lives(result', m)
                      - Rows(result', m) =
                  model[m].refs - (IF resultset = m THEN 1 ELSE 0) - Lives(result, m)
                      - Rows(result, m)
  <2>1. PICK l \in Nat, w \in Nat, e \in Nat, d \in Nat :
            /\ l = Lives(result, m) /\ w = Rows(result, m)
            /\ e = IF resultset = m THEN 1 ELSE 0
            /\ d = IF r.rowRefs = 0 /\ r.model = m THEN r.n_rows ELSE 0
    BY <1>1, <1>3, HoldingTyped
  <2>2. model[m] \in SqlModel
    BY <1>1
  <2>3. PICK y \in Int : y = model[m].refs
    BY <2>2 DEF SqlModel
  <2>4. model'[m].refs = y + d
    <3>1. model'[m].refs = y + (IF m = r.model THEN (IF r.rowRefs = 0 THEN r.n_rows ELSE 0) ELSE 0)
      BY <1>9, <2>3 DEF Recounted
    <3>2. (IF m = r.model THEN (IF r.rowRefs = 0 THEN r.n_rows ELSE 0) ELSE 0) = d
      BY <2>1
    <3> QED BY <3>1, <3>2
  <2>5. Lives(result', m) = l /\ Rows(result', m) = w + d /\ resultset' = resultset
    BY <1>8, <1>11, <1>12, <2>1
  <2>6. y \in Int /\ d \in Int /\ e \in Int /\ l \in Int /\ w \in Int
    BY <2>1, <2>3
  <2>7. (y + d) - e - l - (w + d) = y - e - l - w
    BY <2>6
  <2> QED BY <2>1, <2>3, <2>4, <2>5, <2>7
<1>14. result'[k].rowRefs >= (IF result'[k].taken THEN 1 ELSE 0)
           + (IF result'[k].live /\ result'[k].rowRefs > 0 THEN 1 ELSE 0)
  <2>1. x.rowRefs >= 2
    BY <1>3, <1>5
  <2> QED BY <1>3, <1>5, <1>7, <2>1
<1>15. ASSUME NEW c \in Column
       PROVE  columnRefs'[c] - QueryHas(sought', c) - Having(result', c) >=
                  columnRefs[c] - QueryHas(sought, c) - Having(result, c)
  <2>1. PICK h \in Nat, q \in Nat, y \in Int :
            h = Having(result, c) /\ q = QueryHas(sought, c) /\ y = columnRefs[c]
    BY <1>1, QueryTyped, HoldingTyped
  <2>2. Having(result', c) = h /\ QueryHas(sought', c) = q /\ columnRefs'[c] = y
    BY <1>8, <1>11, <2>1
  <2> QED BY <2>1, <2>2
<1> QED BY <1>1, <1>7, <1>8, <1>10, <1>13, <1>14, <1>15, QueryTyped, ResultChanges

LEMMA RowsNumbers ==
    ASSUME NEW x \in SqlResult
    PROVE  x.rowRefs \in Nat /\ x.n_rows \in Nat
BY DEF SqlResult

\* What a result holds when a reference to its rows is dropped, and with it the
\* result or not.
LEMMA RowsLeft ==
    ASSUME NEW res \in Seq(SqlResult), NEW k \in 1 .. Len(res), NEW new,
           Becoming(res, new, k), NEW m,
           \/ new[k].rowRefs = res[k].rowRefs - 1
           \/ res[k].rowRefs = 0 /\ new[k].rowRefs = 0
    PROVE  Rows(new, m) = Rows(res, m)
               + (IF m = res[k].model THEN IF res[k].rowRefs = 1 THEN -res[k].n_rows ELSE 0
                  ELSE 0)
<1>1. PICK a \in Nat, b \in Nat, n \in Nat :
          a = res[k].rowRefs /\ b = new[k].rowRefs /\ n = res[k].n_rows
  <2>1. k \in 1 .. Len(new) /\ new \in Seq(SqlResult)
    BY DEF Becoming
  <2>2. new[k] \in SqlResult /\ res[k] \in SqlResult
    BY <2>1
  <2>3. /\ res[k].rowRefs \in Nat /\ new[k].rowRefs \in Nat
        /\ res[k].n_rows \in Nat
    BY <2>2, RowsNumbers
  <2> QED BY <2>3
<1>2. PICK w \in Nat : w = Rows(res, m)
  BY HoldingTyped
<1>3. CASE a = 1
  <2>1. ~(b > 0) /\ a > 0
    BY <1>1, <1>3
  <2>2. \A i : Rows(new, i) = Rows(res, i) - (IF res[k].model = i THEN n ELSE 0)
    BY <1>1, <2>1, RowsBecome
  <2>3. CASE m = res[k].model
    <3>1. Rows(new, m) = w - n
      BY <1>2, <2>2, <2>3
    <3> QED BY <1>1, <1>2, <1>3, <2>3, <3>1
  <2>4. CASE m # res[k].model
    <3>1. Rows(new, m) = w - 0
      BY <1>2, <2>2, <2>4
    <3> QED BY <1>2, <2>4, <3>1
  <2> QED BY <2>3, <2>4
<1>4. CASE a # 1
  <2>1. (b > 0) = (a > 0)
    BY <1>1, <1>4
  <2>2. \A i : Rows(new, i) = Rows(res, i)
    BY <1>1, <2>1, RowsBecome
  <2> QED BY <1>1, <1>2, <1>4, <2>2
<1> QED BY <1>3, <1>4

\* The k-th result, typed.
LEMMA ResultTyped ==
    ASSUME SqlInvariant, NEW k \in DOMAIN result
    PROVE  /\ result \in Seq(SqlResult) /\ model \in Seq(SqlModel) /\ k \in 1 .. Len(result)
           /\ result[k] \in SqlResult /\ result[k].model \in 1 .. Len(model)
           /\ resultset \in 0 .. Len(model)
           /\ result[k].rowRefs \in Nat /\ result[k].n_rows \in Nat
           /\ result[k].columns \in Seq(Column)
           /\ result[k].rowRefs >= (IF result[k].taken THEN 1 ELSE 0)
                  + (IF result[k].live /\ result[k].rowRefs > 0 THEN 1 ELSE 0)
<1>1. /\ result \in Seq(SqlResult) /\ model \in Seq(SqlModel) /\ k \in 1 .. Len(result)
      /\ resultset \in 0 .. Len(model)
  BY DEF SqlInvariant, SqlTypeOK
<1>2. result[k] \in SqlResult
  BY <1>1
<1>3. result[k].model \in 1 .. Len(model)
  BY <1>1 DEF SqlInvariant, SqlTypeOK
<1>4. /\ result[k].rowRefs \in Nat /\ result[k].n_rows \in Nat
      /\ result[k].columns \in Seq(Column)
  BY <1>2 DEF SqlResult
<1>5. result[k].rowRefs >= (IF result[k].taken THEN 1 ELSE 0)
          + (IF result[k].live /\ result[k].rowRefs > 0 THEN 1 ELSE 0)
  BY <1>1 DEF SqlInvariant, RowsOwned
<1> QED BY <1>1, <1>2, <1>3, <1>4, <1>5

LEMMA RowsDropped ==
    ASSUME SqlInvariant, NEW k \in DOMAIN result, DropRows(k)
    PROVE  SqlInvariant'
<1>1. PICK r \in SqlResult : r = result[k]
  BY ResultTyped
<1>2. r.taken /\ r.rowRefs \in Nat
      /\ r.rowRefs >= (IF r.taken THEN 1 ELSE 0) + (IF r.live /\ r.rowRefs > 0 THEN 1 ELSE 0)
  BY <1>1, ResultTyped DEF DropRows
<1>3. PICK n \in Nat : n = r.rowRefs - 1 /\ n >= IF r.live THEN 1 ELSE 0
  BY <1>2
<1>4. PICK x : x = [r EXCEPT !.taken = FALSE, !.rowRefs = n]
  OBVIOUS
<1>5. x \in SqlResult
  BY <1>4 DEF SqlResult
<1>6. /\ x.model = r.model /\ x.n_rows = r.n_rows /\ x.columns = r.columns
      /\ x.live = r.live /\ x.taken = FALSE /\ x.rowRefs = n
  BY <1>4 DEF SqlResult
<1>7. /\ result' = [result EXCEPT ![k].taken = FALSE, ![k].rowRefs = @ - 1]
      /\ model' = UnrefRows(model, r)
      /\ UNCHANGED <<sought, columnRefs, own, resultset, stored>>
  BY <1>1 DEF DropRows
<1>8. result' = [result EXCEPT ![k] = x]
  BY <1>1, <1>3, <1>4, <1>7, ResultTyped
<1>9. Becoming(result, result', k) /\ result'[k] = x
  BY <1>1, <1>5, <1>6, <1>8, ResultTyped, ResultSet
<1>10. PICK d \in Int : d = IF r.rowRefs = 1 THEN -r.n_rows ELSE 0
  BY <1>1, ResultTyped
<1>11. Recounted(model, model', r.model, d)
  BY <1>1, <1>7, <1>10, ResultTyped, RowsUnref
<1>12. SameModels(model, model')
  BY <1>11, RecountedSame
<1>13. /\ \A m : Lives(result', m) = Lives(result, m)
       /\ \A c : Having(result', c) = Having(result, c)
  BY <1>1, <1>6, <1>9, ResultTyped, LivesBecome
<1>14. ASSUME NEW m
       PROVE  Rows(result', m) = Rows(result, m) + (IF m = r.model THEN d ELSE 0)
  <2>1. result'[k].rowRefs = result[k].rowRefs - 1
    BY <1>1, <1>3, <1>6, <1>9
  <2>2. Rows(result', m) = Rows(result, m)
            + (IF m = result[k].model THEN IF result[k].rowRefs = 1 THEN -result[k].n_rows ELSE 0
               ELSE 0)
    BY <1>9, <2>1, ResultTyped, RowsLeft
  <2> QED BY <1>1, <1>10, <2>2
<1>15. ASSUME NEW m \in 1 .. Len(model)
       PROVE  model'[m].refs - (IF resultset' = m THEN 1 ELSE 0) - Lives(result', m)
                      - Rows(result', m) =
                  model[m].refs - (IF resultset = m THEN 1 ELSE 0) - Lives(result, m)
                      - Rows(result, m)
  <2>1. PICK l \in Nat, w \in Nat, e \in Nat, f \in Int :
            /\ l = Lives(result, m) /\ w = Rows(result, m)
            /\ e = IF resultset = m THEN 1 ELSE 0
            /\ f = IF m = r.model THEN d ELSE 0
    <3>1. result \in Seq(SqlResult)
      BY ResultTyped
    <3>2. Lives(result, m) \in Nat /\ Rows(result, m) \in Nat
      BY <3>1, HoldingTyped
    <3>3. (IF m = r.model THEN d ELSE 0) \in Int
      BY <1>10
    <3>4. (IF resultset = m THEN 1 ELSE 0) \in Nat
      OBVIOUS
    <3> QED BY <3>2, <3>3, <3>4
  <2>2. model[m] \in SqlModel
    BY ResultTyped
  <2>3. PICK y \in Int : y = model[m].refs
    BY <2>2 DEF SqlModel
  <2>4. model'[m].refs = y + f
    BY <1>11, <2>1, <2>3 DEF Recounted
  <2>5. Lives(result', m) = l /\ Rows(result', m) = w + f /\ resultset' = resultset
    BY <1>7, <1>13, <1>14, <2>1
  <2>6. y \in Int /\ f \in Int /\ e \in Int /\ l \in Int /\ w \in Int
    BY <2>1, <2>3
  <2>7. (y + f) - e - l - (w + f) = y - e - l - w
    BY <2>6
  <2> QED BY <2>1, <2>3, <2>4, <2>5, <2>7
<1>16. result'[k].rowRefs >= (IF result'[k].taken THEN 1 ELSE 0)
           + (IF result'[k].live /\ result'[k].rowRefs > 0 THEN 1 ELSE 0)
  BY <1>3, <1>6, <1>9
<1>17. ASSUME NEW c \in Column
       PROVE  columnRefs'[c] - QueryHas(sought', c) - Having(result', c) >=
                  columnRefs[c] - QueryHas(sought, c) - Having(result, c)
  <2>1. PICK h \in Nat, q \in Nat, y \in Int :
            h = Having(result, c) /\ q = QueryHas(sought, c) /\ y = columnRefs[c]
    BY ResultTyped, QueryTyped, HoldingTyped
  <2>2. Having(result', c) = h /\ QueryHas(sought', c) = q /\ columnRefs'[c] = y
    BY <1>7, <1>13, <2>1
  <2> QED BY <2>1, <2>2
<1>18. k \in 1 .. Len(result)
  BY ResultTyped
<1> QED BY <1>7, <1>9, <1>12, <1>15, <1>16, <1>17, <1>18, QueryTyped, ResultChanges

\* The columns of a query that is gone.
LEMMA Unheld ==
    ASSUME SqlInvariant,
           NEW rs, rs = Unref(Unref(Ref(columnRefs, sought.columns), sought.constraint),
                              [i \in DOMAIN sought.orders |-> sought.orders[i][1]])
    PROVE  /\ rs \in [Column -> Int]
           /\ \A c \in Column : rs[c] >= columnRefs[c] - QueryHas(sought, c)
           /\ Unjoined \in SqlQuery /\ \A c : QueryHas(Unjoined, c) = 0
<1>1. PICK os \in Seq(Column) : os = [i \in DOMAIN sought.orders |-> sought.orders[i][1]]
  <2>1. PICK o \in Seq(Column \X {"asc", "odd"}) : o = sought.orders
    BY QueryTyped DEF SqlQuery
  <2>2. PICK n \in Nat : n = Len(o) /\ DOMAIN o = 1 .. n
    OBVIOUS
  <2>3. \A i \in 1 .. n : o[i] \in Column \X {"asc", "odd"}
    BY <2>2
  <2>4. \A i \in 1 .. n : o[i][1] \in Column
    BY <2>3
  <2>5. [i \in 1 .. n |-> o[i][1]] \in Seq(Column)
    BY <2>4
  <2> QED BY <2>1, <2>2, <2>5
<1>2. \A c : Count(c, os) = OrderedBy(sought, c)
  BY <1>1, QueryTyped, OrderedIs
<1>3. PICK a \in [Column -> Int] : a = Ref(columnRefs, sought.columns)
  BY QueryTyped, ColumnsCounted
<1>4. \A c \in Column : a[c] = columnRefs[c] + Count(c, sought.columns)
  BY <1>3, QueryTyped, ColumnsCounted
<1>5. PICK b \in [Column -> Int] : b = Unref(a, sought.constraint)
  BY QueryTyped, ColumnsCounted
<1>6. \A c \in Column : b[c] = a[c] - Count(c, sought.constraint)
  BY <1>5, QueryTyped, ColumnsCounted
<1>7. rs = Unref(b, os)
  BY <1>1, <1>3, <1>5
<1>8. rs \in [Column -> Int] /\ \A c \in Column : rs[c] = b[c] - Count(c, os)
  <2>1. /\ Unref(b, os) \in [Column -> Int]
        /\ \A c \in Column : Unref(b, os)[c] = b[c] - Count(c, os)
    BY ColumnsCounted
  <2> QED BY <1>7, <2>1
<1>9. ASSUME NEW c \in Column PROVE rs[c] >= columnRefs[c] - QueryHas(sought, c)
  <2>1. PICK x \in Int, k \in Nat, n \in Nat, o \in Nat :
            /\ x = columnRefs[c] /\ k = Count(c, sought.columns)
            /\ n = Count(c, sought.constraint) /\ o = OrderedBy(sought, c)
    BY QueryTyped
  <2>2. rs[c] = ((x + k) - n) - o
    BY <1>2, <1>4, <1>6, <1>8, <2>1
  <2>3. QueryHas(sought, c) = k + n + o
    BY <2>1 DEF QueryHas
  <2>4. x \in Int /\ k \in Nat /\ n \in Nat /\ o \in Nat
    BY <2>1
  <2>5. ((x + k) - n) - o >= x - (k + n + o)
    BY <2>4
  <2> QED BY <2>2, <2>3, <2>5, <2>1
<1>10. Unjoined \in SqlQuery
  <2>1. \A C : <<>> \in Seq(C)
    OBVIOUS
  <2> QED BY <2>1 DEF Unjoined, SqlQuery
<1>11. ASSUME NEW c PROVE QueryHas(Unjoined, c) = 0
  <2>1. Unjoined.columns = <<>> /\ Unjoined.constraint = <<>> /\ Unjoined.orders = <<>>
    BY DEF Unjoined
  <2>2. OrderedBy(Unjoined, c) = 0
    <3>1. {i \in DOMAIN <<>> : <<>>[i][1] = c} = {}
      OBVIOUS
    <3> QED BY <2>1, <3>1, FS_EmptySet DEF OrderedBy
  <2>3. Count(c, <<>>) = 0
    BY CountFew
  <2> QED BY <2>1, <2>2, <2>3 DEF QueryHas
<1> QED BY <1>8, <1>9, <1>10, <1>11

LEMMA SameDifference ==
    ASSUME NEW z \in Int, NEW y \in Int, NEW e \in Int, NEW p \in Int, NEW q \in Int,
           NEW l \in Int, NEW w \in Int, z - p - q = y - l - w
    PROVE  z - e - p - q = y - e - l - w
OBVIOUS

\* A reference to the query is dropped: it is gone, or not.
LEMMA QueryDropped ==
    ASSUME SqlInvariant, DropQuery
    PROVE  SqlInvariant'
<1>1. UNCHANGED <<own, result, stored>>
  BY DEF DropQuery
<1>2. CASE queryRefs # 1
  <2>1. UNCHANGED <<sought, columnRefs, resultset, model>>
    BY <1>2 DEF DropQuery
  <2>2. ASSUME NEW c \in Column PROVE columnRefs'[c] >= columnRefs[c]
    <3>1. columnRefs' = columnRefs /\ columnRefs[c] \in Int
      BY <2>1, QueryTyped
    <3> QED BY <3>1
  <2> QED BY <1>1, <2>1, <2>2, QueryTyped, QueryStays
<1>3. CASE queryRefs = 1
  <2>1. /\ sought' = Unjoined /\ resultset' = 0 /\ model' = UnrefModel(model, resultset)
        /\ columnRefs' = Unref(Unref(Ref(columnRefs, sought.columns), sought.constraint),
                               [i \in DOMAIN sought.orders |-> sought.orders[i][1]])
    BY <1>3 DEF DropQuery, QueryGone
  <2>2. /\ columnRefs' \in [Column -> Int]
        /\ \A c \in Column : columnRefs'[c] >= columnRefs[c] - QueryHas(sought, c)
        /\ Unjoined \in SqlQuery /\ \A c : QueryHas(Unjoined, c) = 0
    <3>1. PICK rs : rs = Unref(Unref(Ref(columnRefs, sought.columns), sought.constraint),
                               [i \in DOMAIN sought.orders |-> sought.orders[i][1]])
      OBVIOUS
    <3>2. /\ rs \in [Column -> Int]
          /\ \A c \in Column : rs[c] >= columnRefs[c] - QueryHas(sought, c)
          /\ Unjoined \in SqlQuery /\ \A c : QueryHas(Unjoined, c) = 0
      BY <3>1, Unheld
    <3> QED BY <2>1, <3>1, <3>2
  <2>3. /\ result \in Seq(SqlResult) /\ model \in Seq(SqlModel) /\ resultset \in 0 .. Len(model)
        /\ \A i \in 1 .. Len(result) : result[i].model \in 1 .. Len(model)
    BY DEF SqlInvariant, SqlTypeOK
  <2>4. Recounted(model, model', resultset, -1)
    BY <2>1, <2>3, ModelUnref
  <2>5. SameModels(model, model')
    BY <2>4, RecountedSame
  <2>6. ResultsShow' /\ \A i \in 1 .. Len(result') : result'[i].model \in 1 .. Len(model')
    BY <1>1, <2>5, KeepsShown
  <2>7. SqlTypeOK'
    <3>1. model' \in Seq(SqlModel) /\ Len(model') = Len(model)
      BY <2>5 DEF SameModels
    <3>2. 0 \in 0 .. Len(model)
      BY <2>3
    <3> QED BY <1>1, <2>1, <2>2, <2>3, <2>6, <3>1, <3>2, QueryTyped DEF SqlTypeOK
  <2>8. ColumnsNamed' /\ GoneOn'
    BY <2>1, <2>5, KeepsNames DEF GoneOn
  <2>9. RefsFit'
    <3>1. ASSUME NEW m \in 1 .. Len(model)
          PROVE  model'[m].refs = 0 + Lives(result, m) + Rows(result, m)
      <4>1. PICK l \in Nat, w \in Nat, e \in Nat :
                /\ l = Lives(result, m) /\ w = Rows(result, m)
                /\ e = IF resultset = m THEN 1 ELSE 0
        BY <2>3, HoldingTyped
      <4>2. model[m].refs = e + l + w
        BY <4>1 DEF SqlInvariant, RefsFit
      <4>3. model'[m].refs = model[m].refs + (IF m = resultset THEN -1 ELSE 0)
        BY <2>4 DEF Recounted
      <4> QED BY <4>1, <4>2, <4>3
    <3>2. Len(model') = Len(model) /\ \A m \in 1 .. Len(model) : 0 # m
      BY <2>3, <2>5 DEF SameModels
    <3> QED BY <1>1, <2>1, <3>1, <3>2 DEF RefsFit
  <2>10. RowsOwned'
    BY <1>1 DEF RowsOwned, SqlInvariant
  <2>11. ColumnsHeld'
    <3>1. ASSUME NEW c \in Column
          PROVE  columnRefs'[c] >= (IF c \in own' THEN 1 ELSE 0) + QueryHas(sought', c)
                                       + Having(result', c)
      <4>1. PICK h \in Nat, q \in Nat, x \in Int, y \in Int, e \in Nat :
                /\ h = Having(result, c) /\ q = QueryHas(sought, c)
                /\ x = columnRefs[c] /\ y = columnRefs'[c]
                /\ e = IF c \in own THEN 1 ELSE 0
        BY <2>2, <2>3, QueryTyped, HoldingTyped
      <4>2. x >= e + q + h
        BY <4>1 DEF SqlInvariant, ColumnsHeld
      <4>3. y >= x - q
        BY <2>2, <4>1
      <4>4. y >= e + 0 + h
        BY <4>2, <4>3
      <4>5. QueryHas(sought', c) = 0 /\ own' = own /\ result' = result
        BY <1>1, <2>1, <2>2
      <4> QED BY <4>1, <4>4, <4>5
    <3> QED BY <3>1 DEF ColumnsHeld
  <2> QED BY <2>6, <2>7, <2>8, <2>9, <2>10, <2>11 DEF SqlInvariant
<1> QED BY <1>2, <1>3

\* The result dies, and its reference to its model, its columns and its rows.
LEMMA ResultDropped ==
    ASSUME SqlInvariant, NEW k \in DOMAIN result, DropResult(k)
    PROVE  SqlInvariant'
<1>1. PICK r \in SqlResult : r = result[k]
  BY ResultTyped
<1>2. r.live /\ r.rowRefs \in Nat /\ r.n_rows \in Nat /\ r.columns \in Seq(Column)
      /\ r.rowRefs >= (IF r.taken THEN 1 ELSE 0) + (IF r.live /\ r.rowRefs > 0 THEN 1 ELSE 0)
  BY <1>1, ResultTyped DEF DropResult
<1>3. PICK n \in Nat : n = (IF r.rowRefs = 0 THEN 0 ELSE r.rowRefs - 1)
                       /\ n >= IF r.taken THEN 1 ELSE 0
  BY <1>2
<1>4. PICK x : x = [r EXCEPT !.live = FALSE, !.rowRefs = n]
  OBVIOUS
<1>5. x \in SqlResult
  BY <1>4 DEF SqlResult
<1>6. /\ x.model = r.model /\ x.n_rows = r.n_rows /\ x.columns = r.columns
      /\ x.live = FALSE /\ x.taken = r.taken /\ x.rowRefs = n
  BY <1>4 DEF SqlResult
<1>7. /\ result' = [result EXCEPT ![k].live = FALSE, ![k].rowRefs = IF @ = 0 THEN 0 ELSE @ - 1]
      /\ UNCHANGED <<own, stored>>
  BY DEF DropResult
<1>8. result' = [result EXCEPT ![k] = x]
  BY <1>1, <1>3, <1>4, <1>7, ResultTyped
<1>9. Becoming(result, result', k) /\ result'[k] = x
  BY <1>1, <1>5, <1>6, <1>8, ResultTyped, ResultSet
<1>10. PICK d \in Int : d = IF r.rowRefs = 1 THEN -r.n_rows ELSE 0
  BY <1>2
<1>11. PICK a \in Seq(SqlModel) : a = UnrefRows(model, r) /\ Recounted(model, a, r.model, d)
  <2>1. Recounted(model, UnrefRows(model, r), r.model, d)
    BY <1>1, <1>10, ResultTyped, RowsUnref
  <2> QED BY <2>1 DEF Recounted
<1>12. PICK b \in Seq(SqlModel) : b = UnrefModel(a, r.model) /\ Recounted(a, b, r.model, -1)
  <2>1. r.model \in 0 .. Len(a)
    BY <1>1, <1>11, ResultTyped DEF Recounted
  <2>2. Recounted(a, UnrefModel(a, r.model), r.model, -1)
    BY <2>1, ModelUnref
  <2> QED BY <2>2 DEF Recounted
<1>13. Len(b) = Len(model) /\ SameModels(model, b)
  BY <1>11, <1>12 DEF Recounted, SameModels
<1>14. \A m : Rows(result', m) = Rows(result, m) + (IF m = r.model THEN d ELSE 0)
  <2>1. \/ result'[k].rowRefs = result[k].rowRefs - 1
        \/ result[k].rowRefs = 0 /\ result'[k].rowRefs = 0
    BY <1>1, <1>3, <1>6, <1>9
  <2>2. ASSUME NEW m
        PROVE  Rows(result', m) = Rows(result, m)
                   + (IF m = result[k].model
                      THEN IF result[k].rowRefs = 1 THEN -result[k].n_rows ELSE 0 ELSE 0)
    <3>1. result \in Seq(SqlResult) /\ k \in 1 .. Len(result)
      BY ResultTyped
    <3> QED BY <1>9, <2>1, <3>1, RowsLeft
  <2> QED BY <1>1, <1>10, <2>2
<1>15. /\ \A m : Lives(result', m) = Lives(result, m) - (IF r.model = m THEN 1 ELSE 0)
       /\ \A c : Having(result', c) = Having(result, c) - Count(c, r.columns)
  <2>1. ~result'[k].live /\ result[k].live
    BY <1>1, <1>2, <1>6, <1>9
  <2>2. Dying(result, result', k)
    BY <1>9, <2>1, ResultTyped, LivesBecome
  <2> QED BY <1>1, <2>2 DEF Dying
<1>16. result'[k].rowRefs >= (IF result'[k].taken THEN 1 ELSE 0)
           + (IF result'[k].live /\ result'[k].rowRefs > 0 THEN 1 ELSE 0)
  BY <1>3, <1>6, <1>9
<1>17. ASSUME NEW m \in 1 .. Len(model)
       PROVE  /\ b[m].refs \in Int
              /\ b[m].refs - Lives(result', m) - Rows(result', m) =
                     model[m].refs - Lives(result, m) - Rows(result, m)
              /\ Lives(result', m) \in Nat /\ Rows(result', m) \in Nat
              /\ Lives(result, m) \in Nat /\ Rows(result, m) \in Nat
              /\ model[m].refs \in Int
  <2>1. result \in Seq(SqlResult) /\ result' \in Seq(SqlResult) /\ model[m] \in SqlModel
    BY <1>9, ResultTyped DEF Becoming
  <2>2. PICK l \in Nat, w \in Nat, f \in Int, e \in Nat, y \in Int :
            /\ l = Lives(result, m) /\ w = Rows(result, m)
            /\ e = IF r.model = m THEN 1 ELSE 0
            /\ f = IF m = r.model THEN d ELSE 0
            /\ y = model[m].refs
    <3>1. Lives(result, m) \in Nat /\ Rows(result, m) \in Nat
      BY <2>1, HoldingTyped
    <3>2. model[m].refs \in Int
      BY <2>1 DEF SqlModel
    <3>3. (IF m = r.model THEN d ELSE 0) \in Int
      BY <1>10
    <3>4. (IF r.model = m THEN 1 ELSE 0) \in Nat
      OBVIOUS
    <3> QED BY <3>1, <3>2, <3>3, <3>4
  <2>3. a[m].refs = y + f
    BY <1>11, <2>2 DEF Recounted
  <2>4. b[m].refs = (y + f) - e
    <3>1. b[m].refs = a[m].refs + (IF m = r.model THEN -1 ELSE 0)
      BY <1>11, <1>12 DEF Recounted
    <3>2. (y + f) + (IF m = r.model THEN -1 ELSE 0) = (y + f) - e
      BY <2>2
    <3> QED BY <2>3, <3>1, <3>2
  <2>5. Lives(result', m) = l - e /\ Rows(result', m) = w + f
    BY <1>14, <1>15, <2>2
  <2>10. y \in Int /\ f \in Int /\ e \in Int /\ l \in Int /\ w \in Int
    BY <2>2
  <2>6. ((y + f) - e) - (l - e) - (w + f) = y - l - w
    BY <2>10
  <2>7. Lives(result', m) \in Nat /\ Rows(result', m) \in Nat
    BY <2>1, HoldingTyped
  <2>8. b[m].refs - Lives(result', m) - Rows(result', m) = y - l - w
    BY <2>4, <2>5, <2>6
  <2>9. b[m].refs \in Int
    BY <2>2, <2>4
  <2> QED BY <2>2, <2>7, <2>8, <2>9
<1>18. k \in 1 .. Len(result)
  BY ResultTyped
<1>19. CASE queryRefs = 1
  <2>1. PICK rs : rs = Unref(Unref(Ref(columnRefs, sought.columns), sought.constraint),
                             [i \in DOMAIN sought.orders |-> sought.orders[i][1]])
    OBVIOUS
  <2>2. /\ rs \in [Column -> Int]
        /\ \A c \in Column : rs[c] >= columnRefs[c] - QueryHas(sought, c)
        /\ Unjoined \in SqlQuery /\ \A c : QueryHas(Unjoined, c) = 0
    BY <2>1, Unheld
  <2>3. /\ sought' = Unjoined /\ resultset' = 0
        /\ columnRefs' = Unref(rs, r.columns) /\ model' = UnrefModel(b, resultset)
    BY <1>1, <1>11, <1>12, <1>19, <2>1 DEF DropResult
  <2>4. Recounted(b, model', resultset, -1)
    BY <1>13, <2>3, ResultTyped, ModelUnref
  <2>5. SameModels(model, model')
    BY <1>13, <2>4 DEF SameModels, Recounted
  <2>6. columnRefs' \in [Column -> Int]
        /\ \A c \in Column : /\ columnRefs'[c] = rs[c] - Count(c, r.columns)
                             /\ Count(c, r.columns) \in Nat
    BY <1>2, <2>2, <2>3, ColumnsCounted
  <2>7. ASSUME NEW m \in 1 .. Len(model)
        PROVE  model'[m].refs - (IF resultset' = m THEN 1 ELSE 0) - Lives(result', m)
                       - Rows(result', m) =
                   model[m].refs - (IF resultset = m THEN 1 ELSE 0) - Lives(result, m)
                       - Rows(result, m)
    <3>1. PICK l \in Nat, w \in Nat, p \in Nat, q \in Nat, y \in Int, z \in Int, e \in Nat :
              /\ l = Lives(result, m) /\ w = Rows(result, m)
              /\ p = Lives(result', m) /\ q = Rows(result', m)
              /\ y = model[m].refs /\ z = b[m].refs
              /\ e = IF resultset = m THEN 1 ELSE 0
      BY <1>17
    <3>2. z - p - q = y - l - w
      BY <1>17, <3>1
    <3>3. model'[m].refs = z + (IF m = resultset THEN -1 ELSE 0)
      BY <1>13, <2>4, <3>1 DEF Recounted
    <3>7. z + (IF m = resultset THEN -1 ELSE 0) = z - e
      BY <3>1
    <3>4. model'[m].refs = z - e /\ resultset' # m
      BY <2>3, <3>3, <3>7
    <3>5. z \in Int /\ y \in Int /\ e \in Int /\ p \in Int /\ q \in Int /\ l \in Int /\ w \in Int
      BY <3>1
    <3>6. (z - e) - 0 = z - e /\ z - e - p - q = y - e - l - w
      BY <3>2, <3>5, SameDifference
    <3> QED BY <3>1, <3>4, <3>6
  <2>8. ASSUME NEW c \in Column
        PROVE  columnRefs'[c] - QueryHas(sought', c) - Having(result', c) >=
                   columnRefs[c] - QueryHas(sought, c) - Having(result, c)
    <3>1. PICK h \in Nat, q \in Nat, y \in Int, z \in Int, n1 \in Nat :
              /\ h = Having(result, c) /\ q = QueryHas(sought, c) /\ y = columnRefs[c]
              /\ z = rs[c] /\ n1 = Count(c, r.columns)
      BY <2>2, <2>6, ResultTyped, QueryTyped, HoldingTyped
    <3>2. /\ Having(result', c) = h - n1 /\ QueryHas(sought', c) = 0
          /\ columnRefs'[c] = z - n1 /\ z >= y - q
      BY <1>15, <2>2, <2>3, <2>6, <3>1
    <3>3. (z - n1) - 0 - (h - n1) >= y - q - h
      BY <3>1, <3>2
    <3> QED BY <3>1, <3>2, <3>3
  <2>9. sought' \in SqlQuery /\ resultset' \in {0, resultset}
    BY <2>2, <2>3
  <2> QED BY <1>7, <1>9, <1>16, <1>18, <2>3, <2>5, <2>6, <2>7, <2>8, <2>9, ResultChanges
<1>20. CASE queryRefs # 1
  <2>1. /\ columnRefs' = Unref(columnRefs, r.columns) /\ model' = b
        /\ UNCHANGED <<sought, resultset>>
    BY <1>1, <1>11, <1>12, <1>20 DEF DropResult
  <2>2. columnRefs' \in [Column -> Int]
        /\ \A c \in Column : /\ columnRefs'[c] = columnRefs[c] - Count(c, r.columns)
                             /\ Count(c, r.columns) \in Nat
    <3>1. columnRefs \in [Column -> Int]
      BY QueryTyped
    <3> QED BY <1>2, <2>1, <3>1, ColumnsCounted
  <2>3. ASSUME NEW m \in 1 .. Len(model)
        PROVE  model'[m].refs - (IF resultset' = m THEN 1 ELSE 0) - Lives(result', m)
                       - Rows(result', m) =
                   model[m].refs - (IF resultset = m THEN 1 ELSE 0) - Lives(result, m)
                       - Rows(result, m)
    <3>1. PICK l \in Nat, w \in Nat, p \in Nat, q \in Nat, y \in Int, z \in Int, e \in Nat :
              /\ l = Lives(result, m) /\ w = Rows(result, m)
              /\ p = Lives(result', m) /\ q = Rows(result', m)
              /\ y = model[m].refs /\ z = b[m].refs
              /\ e = IF resultset = m THEN 1 ELSE 0
      BY <1>17
    <3>2. z - p - q = y - l - w
      BY <1>17, <3>1
    <3>3. model'[m].refs = z /\ resultset' = resultset
      BY <2>1, <3>1
    <3>5. z \in Int /\ y \in Int /\ e \in Int /\ p \in Int /\ q \in Int /\ l \in Int /\ w \in Int
      BY <3>1
    <3>4. z - e - p - q = y - e - l - w
      BY <3>2, <3>5, SameDifference
    <3> QED BY <3>1, <3>3, <3>4
  <2>4. ASSUME NEW c \in Column
        PROVE  columnRefs'[c] - QueryHas(sought', c) - Having(result', c) >=
                   columnRefs[c] - QueryHas(sought, c) - Having(result, c)
    <3>1. PICK h \in Nat, q \in Nat, y \in Int, n1 \in Nat :
              /\ h = Having(result, c) /\ q = QueryHas(sought, c) /\ y = columnRefs[c]
              /\ n1 = Count(c, r.columns)
      BY <2>2, ResultTyped, QueryTyped, HoldingTyped
    <3>2. /\ Having(result', c) = h - n1 /\ QueryHas(sought', c) = q
          /\ columnRefs'[c] = y - n1
      BY <1>15, <2>1, <2>2, <3>1
    <3>4. h \in Int /\ q \in Int /\ y \in Int /\ n1 \in Int
      BY <3>1
    <3>3. (y - n1) - q - (h - n1) >= y - q - h
      BY <3>4
    <3> QED BY <3>1, <3>2, <3>3
  <2>5. SameModels(model, model') /\ sought' \in SqlQuery /\ resultset' \in {0, resultset}
    BY <1>13, <2>1, QueryTyped
  <2> QED BY <1>7, <1>9, <1>16, <1>18, <2>1, <2>2, <2>3, <2>4, <2>5, ResultChanges
<1> QED BY <1>19, <1>20

LEMMA SqlKeeps ==
    SqlInvariant /\ [DataNext]_dataVars => SqlInvariant'
<1> SUFFICES ASSUME SqlInvariant, [DataNext]_dataVars PROVE SqlInvariant'
  OBVIOUS
<1>1. CASE DropColumns
  BY <1>1, OwnDropped
<1>2. ASSUME NEW c \in Column, AddColumn(c) PROVE SqlInvariant'
  BY <1>2, ColumnAdded
<1>3. ASSUME NEW j \in Joinable, AddDataJoin(j[1], j[2]) PROVE SqlInvariant'
  BY <1>3, JoinAdded
<1>4. ASSUME NEW c \in Filtering, NEW kind \in {"one", "empty", "bad"}, SetDataConstraint(kind, c)
      PROVE  SqlInvariant'
  BY <1>4, ConstraintSet
<1>5. ASSUME NEW c \in Filtering, NEW type \in {"asc", "odd"}, AddOrderOf(c, type)
      PROVE  SqlInvariant'
  BY <1>5, OrderAdded
<1>6. ASSUME NEW n \in {0, 1}, SetDataLimit(n) PROVE SqlInvariant'
  BY <1>6, LimitSet
<1>7. CASE \/ ExecuteDies \/ ExecuteInvalid \/ ExecuteUnqualified
           \/ DataChanges \/ UNCHANGED dataVars
  BY <1>7, ExecutionFails
<1>8. ASSUME NEW fails \in BOOLEAN, ExecuteData(fails) PROVE SqlInvariant'
  BY <1>8, ExecutionKeeps
<1>9. CASE GetQueryResult
  BY <1>9, ResultGot
<1>10. CASE DropQuery
  BY <1>10, QueryDropped
<1>11. ASSUME NEW k \in DOMAIN result, GetRows(k) \/ DropRows(k) \/ DropResult(k)
       PROVE  SqlInvariant'
  BY <1>11, RowsTaken, RowsDropped, ResultDropped
<1> QED BY <1>1, <1>2, <1>3, <1>4, <1>5, <1>6, <1>7, <1>8, <1>9, <1>10, <1>11 DEF DataNext

\* For any columns, joins and number of calls: a statement that ran names each
\* table and qualifier as its columns do, results keep the rows and columns of
\* their execution, each model lives as long as the query, a result or a row holds
\* it, and no column is freed while it is held (sql/midgard_sql_query_select_data.c,
\* midgard_sql_query_result.c, midgard_sql_query_row.c).
THEOREM SelectsColumnsRight ==
    DataSpec => []SelectsColumns
<1>1. SqlInvariant /\ [DataNext]_dataVars => SqlInvariant'
  BY SqlKeeps
<1>2. DataInit => SqlInvariant
  BY SqlStarts
<1>3. SqlInvariant => SelectsColumns
  BY InvariantSays
<1> QED BY <1>1, <1>2, <1>3, PTL DEF DataSpec
=============================================================================
