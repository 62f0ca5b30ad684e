----------------------------- MODULE Parameters -----------------------------
(***************************************************************************)
(* Parameters of one object in one domain: rows of midgard_parameter, and  *)
(* what each instance of the object remembers of them in a                 *)
(* MidgardCollector (midgard_object_parameter.c, midgard_collector.c).     *)
(* An instance reads the domain once, at its first get or set, and from    *)
(* then on decides by what it remembers.  Every statement is a step.       *)
(*                                                                         *)
(* Left out: other domains (each has a collector of its own), the log and  *)
(* the mutexes of create, update and delete (ObjectStore), collectors that *)
(* programs make for other classes, midgard_collector_merge, and what a    *)
(* collector answers when the program uses again the GValue it has given.  *)
(***************************************************************************)
EXTENDS Naturals, Sequences, FiniteSets

CONSTANTS
    Holder,         \* programs, each with its instance of the object
    ParamName,      \* names of parameters
    ParamValue,     \* values but for "", which means: delete
    MaxParams,      \* bound: rows ever stored
    MaxParamCalls   \* bound: calls made

ASSUME ParametersAssumption ==
    /\ MaxParams \in Nat /\ MaxParamCalls \in Nat
    /\ ParamValue \cap {"", "nothing", "gone"} = {}

VARIABLES
    params,      \* rows, in the order of their ids
    known,       \* object->priv->_params: {} or one collector
    task,        \* the call a program is in: {} or one record
    unseen,      \* history: names written since the collector was filled
    raced,       \* history: names written by who had not seen the row, or its end
    told,        \* history: by name, what the last answered set wrote
    paramCalls

paramVars == <<params, known, task, unseen, raced, told, paramCalls>>

Row == [name : ParamName, value : ParamValue, state : {"live", "deleted", "purged"}]

\* A collector: a value for some of the names.
Collector == UNION {[names -> ParamValue] : names \in SUBSET ParamName}

\* A call of set_parameter, and one that removes the rows it has listed.
SetTask ==
    [does : {"insert", "select"}, name : ParamName, value : ParamValue \cup {""}]
        \cup [does : {"write"}, name : ParamName, value : ParamValue \cup {""}, row : DOMAIN params]
RemoveTask == [does : {"delete", "purge"}, list : SUBSET DOMAIN params]

ParamsTypeOK ==
    /\ params \in Seq(Row) /\ Len(params) =< MaxParams
    /\ known \in [Holder -> SUBSET Collector]
    /\ task \in [Holder -> SUBSET (SetTask \cup RemoveTask)]
    /\ \A h \in Holder : /\ \A c, d \in known[h] : c = d
                         /\ \A s, t \in task[h] : s = t
    /\ unseen \in [Holder -> SUBSET ParamName]
    /\ raced \subseteq ParamName
    /\ told \in [ParamName -> {"nothing", "gone"} \cup ParamValue]
    /\ paramCalls \in 0 .. MaxParamCalls

-----------------------------------------------------------------------------
Live(n) == {i \in DOMAIN params : params[i].name = n /\ params[i].state = "live"}
LiveNames == {n \in ParamName : Live(n) # {}}

\* Everybody with a collector has not seen what is written to name n now; the
\* program that writes has, when it puts the value in its collector.
Written(n, knows) ==
    unseen' = [h \in Holder |->
                  IF known[h] # {} /\ h \notin knows THEN unseen[h] \cup {n} ELSE unseen[h]]

ParamCalled == paramCalls < MaxParamCalls /\ paramCalls' = paramCalls + 1
Returns(h) == task' = [task EXCEPT ![h] = {}]

-----------------------------------------------------------------------------
(* The collector *)

\* midgard_collector_execute: one row of each name, the last that is read.
Filled ==
    {[n \in LiveNames |-> params[pick[n]].value] :
        pick \in {f \in [LiveNames -> DOMAIN params] : \A n \in LiveNames : f[n] \in Live(n)}}

\* midgard_collector_set.
Kept(c, n, v) == [m \in DOMAIN c \cup {n} |-> IF m = n THEN v ELSE c[m]]

\* midgard_collector_remove_key.
Forgotten(c, n) == [m \in DOMAIN c \ {n} |-> c[m]]

\* The first get or set of an instance makes its collector.  When the SELECT
\* fails it is empty and stays so; every name in the table is unseen.
FirstUse(h, c) ==
    \/ known[h] # {} /\ c \in known[h] /\ UNCHANGED <<known, unseen>>
    \/ /\ known[h] = {} /\ c \in Filled
       /\ known' = [known EXCEPT ![h] = {c}]
       /\ unseen' = [unseen EXCEPT ![h] = {}]
    \/ /\ known[h] = {} /\ c = <<>>
       /\ known' = [known EXCEPT ![h] = {c}]
       /\ unseen' = [unseen EXCEPT ![h] = LiveNames]

-----------------------------------------------------------------------------
\* midgard_object_get_parameter: nothing but the collector changes.
GetParameter(h) ==
    /\ task[h] = {} /\ known[h] = {}
    /\ ParamCalled
    /\ \E c \in Filled \cup {<<>>} : FirstUse(h, c)
    /\ UNCHANGED <<params, task, raced, told>>

\* The instance is destroyed and the object fetched again.
FetchAgain(h) ==
    /\ task[h] = {} /\ known[h] # {}
    /\ known' = [known EXCEPT ![h] = {}]
    /\ unseen' = [unseen EXCEPT ![h] = {}]
    /\ UNCHANGED <<params, task, raced, told, paramCalls>>

\* midgard_object_set_parameter: "" for a name it does not know is refused; a
\* name it does not know is created, one that it knows is looked for.
SetParameter(h, n, v) ==
    /\ task[h] = {} /\ ParamCalled
    /\ \E c \in Filled \cup {<<>>} \cup known[h] :
           /\ FirstUse(h, c)
           /\ task' = [task EXCEPT ![h] =
                 IF n \in DOMAIN c
                 THEN {[does |-> "select", name |-> n, value |-> v]}
                 ELSE IF v # ""
                 THEN {[does |-> "insert", name |-> n, value |-> v]}
                 ELSE {}]
    /\ UNCHANGED <<params, raced, told>>

\* The row that is there already was written after the collector was filled.
Unaware(h, n) == n \in unseen[h]

InsertParameter(h) == \E t \in task[h] :
    /\ t.does = "insert" /\ Len(params) < MaxParams
    /\ params' = Append(params, [name |-> t.name, value |-> t.value, state |-> "live"])
    /\ known' = [known EXCEPT ![h] = {Kept(c, t.name, t.value) : c \in @}]
    /\ Written(t.name, {h})
    /\ raced' = IF Unaware(h, t.name) THEN raced \cup {t.name} ELSE raced
    /\ told' = [told EXCEPT ![t.name] = t.value]
    /\ Returns(h)
    /\ UNCHANGED paramCalls

\* Mutant of SelectParameter: the builder has no constraint on the name.
SelectParameter_AnyName(h) == \E t \in task[h] :
    /\ t.does = "select"
    /\ \E i \in UNION {Live(n) : n \in ParamName} :
           task' = [task EXCEPT ![h] =
                 {[does |-> "write", name |-> t.name, value |-> t.value, row |-> i]}]
    /\ UNCHANGED <<params, known, unseen, raced, told, paramCalls>>

\* The row is one of those that are live now, or there is none.
SelectParameter(h) == \E t \in task[h] :
    /\ t.does = "select"
    /\ \E i \in Live(t.name) :
           task' = [task EXCEPT ![h] =
                 {[does |-> "write", name |-> t.name, value |-> t.value, row |-> i]}]
    /\ UNCHANGED <<params, known, unseen, raced, told, paramCalls>>

\* An UPDATE writes every column, "deleted" too; of a purged row it is refused.
UpdateParameter(h) == \E t \in task[h] :
    /\ t.does = "write" /\ t.value # "" /\ params[t.row].state # "purged"
    /\ params' = [params EXCEPT ![t.row].value = t.value, ![t.row].state = "live"]
    /\ known' = [known EXCEPT ![h] = {Kept(c, t.name, t.value) : c \in @}]
    /\ Written(t.name, {h})
    /\ raced' = IF params[t.row].state = "deleted" THEN raced \cup {t.name} ELSE raced
    /\ told' = [told EXCEPT ![t.name] = t.value]
    /\ Returns(h)
    /\ UNCHANGED paramCalls

\* A delete of a row that is gone is a success.
DeleteParameter(h) == \E t \in task[h] :
    /\ t.does = "write" /\ t.value = ""
    /\ params' = [params EXCEPT ![t.row].state = IF @ = "live" THEN "deleted" ELSE @]
    /\ known' = [known EXCEPT ![h] = {Forgotten(c, t.name) : c \in @}]
    /\ Written(t.name, {h})
    /\ raced' = IF params[t.row].state # "live" THEN raced \cup {t.name} ELSE raced
    /\ told' = [told EXCEPT ![t.name] = "gone"]
    /\ Returns(h)
    /\ UNCHANGED paramCalls

\* Any statement of set_parameter fails, or finds no row: FALSE.
SetFails(h) ==
    /\ task[h] # {} /\ \A t \in task[h] : t.does \in {"insert", "select", "write"}
    /\ Returns(h)
    /\ UNCHANGED <<params, known, unseen, raced, told, paramCalls>>

\* midgard_object_delete_parameters and midgard_object_purge_parameters list
\* the rows of some names, of all if the program gives none.
RemoveParameters(h, how, names) ==
    /\ task[h] = {} /\ ParamCalled
    /\ UNION {Live(n) : n \in names} # {}
    /\ task' = [task EXCEPT ![h] = {[does |-> how, list |-> UNION {Live(n) : n \in names}]}]
    /\ UNCHANGED <<params, known, unseen, raced, told>>

\* The next row of the list goes, or its statement fails and it stays.  The
\* collector of the instance is not told.
RemoveNext(h) == \E t \in task[h] :
    /\ t.does \in {"delete", "purge"}
    /\ \E i \in t.list :
           /\ \A j \in t.list : i =< j
           /\ task' = [task EXCEPT ![h] =
                 IF t.list = {i} THEN {} ELSE {[t EXCEPT !.list = @ \ {i}]}]
           /\ \/ /\ params[i].state # "purged"
                 /\ params' = [params EXCEPT ![i].state =
                                  IF t.does = "purge" THEN "purged" ELSE "deleted"]
                 /\ Written(params[i].name, {})
                 /\ told' = [told EXCEPT ![params[i].name] = "nothing"]
              \/ UNCHANGED <<params, unseen, told>>
    /\ UNCHANGED <<known, raced, paramCalls>>

ParamsInit ==
    /\ params = <<>>
    /\ known = [h \in Holder |-> {}]
    /\ task = [h \in Holder |-> {}]
    /\ unseen = [h \in Holder |-> {}]
    /\ raced = {}
    /\ told = [n \in ParamName |-> "nothing"]
    /\ paramCalls = 0

ParamsNext == \E h \in Holder :
    \/ GetParameter(h) \/ FetchAgain(h)
    \/ \E n \in ParamName, v \in ParamValue \cup {""} : SetParameter(h, n, v)
    \/ InsertParameter(h) \/ SelectParameter(h) \/ UpdateParameter(h)
    \/ DeleteParameter(h) \/ SetFails(h)
    \/ \E how \in {"delete", "purge"}, names \in (SUBSET ParamName) \ {{}} :
           RemoveParameters(h, how, names)
    \/ RemoveNext(h)

ParamsSpec == ParamsInit /\ [][ParamsNext]_paramVars

-----------------------------------------------------------------------------
\* What an instance remembers of a name is what is stored, unless somebody
\* wrote that name since, delete_parameters of the same instance included.
CollectorTells ==
    \A h \in Holder : \A c \in known[h] : \A n \in ParamName \ (unseen[h] \cup raced) :
        /\ (n \in DOMAIN c) = (Live(n) # {})
        /\ n \in DOMAIN c => \E i \in Live(n) : c[n] = params[i].value

\* When set_parameter has answered TRUE, everybody who reads the object anew
\* finds the one value, or no value if it was "".  An object has a parameter
\* twice, or not as it was set, only when somebody wrote it whose collector was
\* older than the row, or whose update brought a row back that was deleted
\* meanwhile (midgard_object_parameter.c, 182-219).
SetShows ==
    \A n \in ParamName \ raced :
        /\ Cardinality(Live(n)) =< 1
        /\ told[n] \in ParamValue => \E i \in Live(n) : params[i].value = told[n]
        /\ told[n] = "gone" => Live(n) = {}

\* What instances remember and what is stored agree, but for what was raced.
ParametersTell == CollectorTells /\ SetShows
=============================================================================
