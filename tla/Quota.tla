------------------------------- MODULE Quota -------------------------------
(***************************************************************************)
(* The quota record of one class (midgard_quota.c) and the steps of        *)
(* _midgard_object_create, _midgard_object_update and midgard_object_purge *)
(* that keep it.  The record is written by statements of their own, before *)
(* the object is inserted, after it is updated, after it is deleted; what  *)
(* they answer is not looked at.  Writers are processes: the mutexes of    *)
(* create and update do not order them.                                    *)
(*                                                                         *)
(* The check reads the used size from the second row of an answer that has *)
(* one row, so it is taken for 0: a limit is only a limit for one object.  *)
(***************************************************************************)
EXTENDS Integers, FiniteSets

CONSTANTS
    Writer,         \* processes
    Thing,          \* objects of the class, each made once
    Limit,          \* the lower of limit_sg_size and limit_type_size, 0: without a
                    \* row that has limit_sg_size the other is not asked for
    MaxSize,        \* bound: sizes of objects
    UInt,           \* the sizes a guint holds: 2^32, less in an instance
    MaxQuotaCalls   \* bound: calls made

ASSUME QuotaAssumption ==
    /\ Limit \in Nat /\ MaxSize \in Nat \ {0} /\ MaxQuotaCalls \in Nat
    /\ UInt \in Nat /\ MaxSize + MaxSize < UInt

VARIABLES
    sizes,       \* metadata_size of the rows; 0: no row
    made,        \* things that were given a guid
    records,     \* type_records
    typeSize,    \* type_size
    copies,      \* the instance a writer has: {} or [thing, size]
    duty,        \* the call a writer is in: {} or one record
    slipped,     \* history: a statement failed, or a writer died in a call
    quotaCalls

quotaVars == <<sizes, made, records, typeSize, copies, duty, slipped, quotaCalls>>

Duty == [step : {"count", "insert", "write", "resize", "delete", "uncount", "shrink"},
         thing : Thing, size : 0 .. MaxSize, old : 0 .. MaxSize]

\* {} or {x}.
OneOf(S) == {{}} \cup {{x} : x \in S}

ThingCopy == [thing : Thing, size : 1 .. MaxSize]

QuotaTypeOK ==
    /\ sizes \in [Thing -> 0 .. MaxSize] /\ made \subseteq Thing
    /\ records \in Nat /\ typeSize \in Int
    /\ copies \in [Writer -> OneOf(ThingCopy)]
    /\ duty \in [Writer -> OneOf(Duty)]
    /\ slipped \in BOOLEAN /\ quotaCalls \in 0 .. MaxQuotaCalls

-----------------------------------------------------------------------------
AtRest(w) == duty[w] = {}
QuotaCalled == quotaCalls < MaxQuotaCalls /\ quotaCalls' = quotaCalls + 1
Begins(w, d) == duty' = [duty EXCEPT ![w] = {d}]
Continues(w, d, step) == duty' = [duty EXCEPT ![w] = {[d EXCEPT !.step = step]}]
Ends(w) == duty' = [duty EXCEPT ![w] = {}]

\* midgard_quota_size_is_reached: the sum is unsigned.  A query of the limit
\* that fails is one that finds no limit, so the check lets anything pass.
Reached(n) == Limit # 0 /\ n % UInt > Limit

-----------------------------------------------------------------------------
(* Create: check, count, insert *)

CreateThing(w, t, s) ==
    /\ AtRest(w) /\ t \notin made /\ QuotaCalled
    /\ made' = made \cup {t}
    /\ \/ Reached(s) /\ UNCHANGED duty
       \/ Begins(w, [step |-> "count", thing |-> t, size |-> s, old |-> 0])
    /\ UNCHANGED <<sizes, records, typeSize, copies, slipped>>

CountRecord(w) == \E d \in duty[w] :
    /\ d.step = "count"
    /\ \/ records' = records + 1 /\ UNCHANGED slipped
       \/ UNCHANGED records /\ slipped' = TRUE
    /\ Continues(w, d, "insert")
    /\ UNCHANGED <<sizes, made, typeSize, copies, quotaCalls>>

\* When the INSERT fails the record stays counted.
InsertThing(w) == \E d \in duty[w] :
    /\ d.step = "insert"
    /\ \/ /\ sizes' = [sizes EXCEPT ![d.thing] = d.size]
          /\ copies' = [copies EXCEPT ![w] = {[thing |-> d.thing, size |-> d.size]}]
          /\ UNCHANGED slipped
       \/ slipped' = TRUE /\ UNCHANGED <<sizes, copies>>
    /\ Ends(w)
    /\ UNCHANGED <<made, records, typeSize, quotaCalls>>

FetchThing(w, t) ==
    /\ AtRest(w) /\ sizes[t] # 0
    /\ copies[w] # {[thing |-> t, size |-> sizes[t]]}
    /\ copies' = [copies EXCEPT ![w] = {[thing |-> t, size |-> sizes[t]]}]
    /\ UNCHANGED <<sizes, made, records, typeSize, duty, slipped, quotaCalls>>

-----------------------------------------------------------------------------
(* Update: check, update, check and add the difference *)

\* The instance has its new size also when the update is refused.
UpdateThing(w, s) == \E c \in copies[w] :
    /\ AtRest(w) /\ QuotaCalled
    /\ copies' = [copies EXCEPT ![w] = {[c EXCEPT !.size = s]}]
    /\ \/ Reached(s) /\ UNCHANGED duty
       \/ Begins(w, [step |-> "write", thing |-> c.thing, size |-> s, old |-> c.size])
    /\ UNCHANGED <<sizes, made, records, typeSize, slipped>>

\* An UPDATE that fails or finds no row ends the call.
WriteThing(w) == \E d \in duty[w] :
    /\ d.step = "write"
    /\ \/ /\ sizes[d.thing] # 0
          /\ sizes' = [sizes EXCEPT ![d.thing] = d.size]
          /\ Continues(w, d, "resize")
       \/ Ends(w) /\ UNCHANGED sizes
    /\ UNCHANGED <<made, records, typeSize, copies, slipped, quotaCalls>>

\* The check refuses the difference (that of an object that got smaller is
\* taken for a huge one) or the UPDATE fails; else the difference is added.
ResizeType(w) == \E d \in duty[w] :
    /\ d.step = "resize"
    /\ typeSize' \in {typeSize, typeSize + d.size - d.old}
    /\ Ends(w)
    /\ UNCHANGED <<sizes, made, records, copies, slipped, quotaCalls>>

-----------------------------------------------------------------------------
(* Purge: read the size, delete, uncount, subtract *)

PurgeThing(w) == \E c \in copies[w] :
    /\ AtRest(w) /\ QuotaCalled
    /\ Begins(w, [step |-> "delete", thing |-> c.thing, size |-> sizes[c.thing], old |-> 0])
    /\ UNCHANGED <<sizes, made, records, typeSize, copies, slipped>>

\* Mutant of NoneDeleted: the number of rows is not looked at.
NoneDeleted_Never(t) == FALSE

\* The DELETE answers 0 rows.
NoneDeleted(t) == sizes[t] = 0

\* A DELETE that fails answers -1, and the purge goes on.
DeleteThing(w) == \E d \in duty[w] :
    /\ d.step = "delete"
    /\ \/ /\ sizes' = [sizes EXCEPT ![d.thing] = 0]
          /\ IF NoneDeleted(d.thing) THEN Ends(w) ELSE Continues(w, d, "uncount")
          /\ UNCHANGED slipped
       \/ /\ slipped' = TRUE /\ Continues(w, d, "uncount") /\ UNCHANGED sizes
    /\ UNCHANGED <<made, records, typeSize, copies, quotaCalls>>

UncountRecord(w) == \E d \in duty[w] :
    /\ d.step = "uncount"
    /\ \/ records' = (IF records > 0 THEN records - 1 ELSE records)
          /\ UNCHANGED slipped
       \/ UNCHANGED records /\ slipped' = TRUE
    /\ Continues(w, d, "shrink")
    /\ UNCHANGED <<sizes, made, typeSize, copies, quotaCalls>>

ShrinkType(w) == \E d \in duty[w] :
    /\ d.step = "shrink"
    /\ \/ typeSize > 0 /\ typeSize' = typeSize - d.size
       \/ UNCHANGED typeSize
    /\ Ends(w)
    /\ UNCHANGED <<sizes, made, records, copies, slipped, quotaCalls>>

QuotaDies(w) ==
    /\ ~AtRest(w) /\ Ends(w) /\ slipped' = TRUE
    /\ copies' = [copies EXCEPT ![w] = {}]
    /\ UNCHANGED <<sizes, made, records, typeSize, quotaCalls>>

QuotaInit ==
    /\ sizes = [t \in Thing |-> 0] /\ made = {}
    /\ records = 0 /\ typeSize = 0
    /\ copies = [w \in Writer |-> {}] /\ duty = [w \in Writer |-> {}]
    /\ slipped = FALSE /\ quotaCalls = 0

QuotaNext == \E w \in Writer :
    \/ \E t \in Thing, s \in 1 .. MaxSize : CreateThing(w, t, s)
    \/ CountRecord(w) \/ InsertThing(w)
    \/ \E t \in Thing : FetchThing(w, t)
    \/ \E s \in 1 .. MaxSize : UpdateThing(w, s)
    \/ WriteThing(w) \/ ResizeType(w)
    \/ PurgeThing(w) \/ DeleteThing(w) \/ UncountRecord(w) \/ ShrinkType(w)
    \/ QuotaDies(w)

QuotaSpec == QuotaInit /\ [][QuotaNext]_quotaVars

-----------------------------------------------------------------------------
\* Between calls the record counts the objects that are stored, whoever made
\* and purged them at the same time, unless a statement failed or a writer
\* died; an object purged twice is counted off once (midgard_object.c, 3145).
RecordsCount ==
    (~slipped /\ \A w \in Writer : AtRest(w)) =>
        records = Cardinality({t \in Thing : sizes[t] # 0})
=============================================================================
