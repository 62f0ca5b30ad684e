---------------------------- MODULE QueriesProofs ----------------------------
(***************************************************************************)
(* Proofs about what an application reads with: the views of the database  *)
(* (Views), the query builder (QueryBuilder) and the selects of an         *)
(* executor (QuerySelect), for any rows, names, classes and calls.         *)
(***************************************************************************)
EXTENDS Queries, Views, FiniteSetTheorems, SequenceTheorems, WellFoundedInduction, TLAPS

-----------------------------------------------------------------------------
(* Numbers                                                                 *)

\* Induction over the numbers, without an operator as a parameter.
LEMMA NumbersAll ==
    ASSUME NEW S \in SUBSET Nat, 0 \in S, \A n \in S : n + 1 \in S
    PROVE  S = Nat
<1> SUFFICES ASSUME Nat \ S # {} PROVE FALSE
  OBVIOUS
<1>1. PICK T : T = Nat \ S
  OBVIOUS
<1>2. PICK n \in T : \A k \in T : ~(<<k, n>> \in OpToRel(<, Nat))
  BY <1>1, NatLessThanWellFounded, WFMin
<1>3. n \in Nat /\ n \notin S /\ \A k \in Nat : k \notin S => ~(k < n)
  BY <1>1, <1>2 DEF OpToRel
<1>4. n # 0 /\ n - 1 \in S
  BY <1>3
<1> QED BY <1>3, <1>4

\* A set of numbers up to another one has a largest.
LEMMA LargestThere ==
    ASSUME NEW N \in Nat, NEW S \in SUBSET (1 .. N), S # {}
    PROVE  Max(S) \in S /\ \A y \in S : Max(S) >= y
<1>1. PICK B : B = {n \in Nat : \A R \in SUBSET (1 .. n) : R # {} =>
                                    \E x \in R : \A y \in R : x >= y}
  OBVIOUS
<1>2. 0 \in B
  <2>1. \A R \in SUBSET (1 .. 0) : R = {}
    OBVIOUS
  <2> QED BY <1>1, <2>1
<1>3. ASSUME NEW n \in B PROVE n + 1 \in B
  <2>1. n \in Nat /\ \A R \in SUBSET (1 .. n) : R # {} => \E x \in R : \A y \in R : x >= y
    BY <1>1, <1>3
  <2>2. ASSUME NEW R \in SUBSET (1 .. n + 1), R # {} PROVE \E x \in R : \A y \in R : x >= y
    <3>1. CASE n + 1 \in R
      BY <2>1, <2>2, <3>1
    <3>2. CASE n + 1 \notin R
      <4>1. R \in SUBSET (1 .. n)
        BY <2>1, <2>2, <3>2
      <4> QED BY <2>1, <2>2, <4>1
    <3> QED BY <3>1, <3>2
  <2> QED BY <1>1, <2>1, <2>2
<1>4. B = Nat
  BY <1>1, <1>2, <1>3, NumbersAll
<1>5. \E x \in S : \A y \in S : x >= y
  BY <1>1, <1>4
<1> QED BY <1>5 DEF Max

-----------------------------------------------------------------------------
(* Views                                                                   *)

\* A <view> that was read.
ViewRead ==
    /\ \A j \in Columns : ~PropertyFails(j)
    /\ \A i \in DOMAIN decl.joins : ~JoinFails(i)

\* The table a record of the class names.
RecordsFit == \A j \in Columns : attr[j] \in {"view", Class[Use(j).class].table}

\* A statement for the view, but for the tables of properties of the metadata.
CommandFits(c) ==
    /\ c # <<>>
    /\ DOMAIN c.shows = ColumnNames
    /\ "view" \notin c.from
    /\ \A j \in Columns : Kept(j) =>
          /\ c.shows[Use(j).name][1] \in {"view", Class[Use(j).class].table}
          /\ c.shows[Use(j).name] = <<c.shows[Use(j).name][1], Derived(j)[2]>>
    /\ \A n \in ColumnNames : \E j \in Columns :
          OfMetadata(j) \/ c.shows[n][1] = Class[Use(j).class].table
    /\ \A i \in DOMAIN decl.joins :
          \A x \in {decl.joins[i].left[1], decl.joins[i].right[1]} :
              Class[x].metadata => Class[x].table \in c.where

ViewInvariant ==
    /\ decl \in View
    /\ state \in {"registered", "dropped"} => prophash = Hashed /\ ViewRead /\ RecordsFit
    /\ command # <<>> => CommandFits(command)
    /\ shown # <<>> => CommandFits(shown) /\ Accepted(shown)
    /\ state = "dropped" => told.call = "drop"
    /\ StorageTells

LEMMA ColumnsNumbered ==
    ASSUME ViewInvariant
    PROVE  Len(decl.props) \in Nat /\ Columns = 1 .. Len(decl.props)
BY ViewAssumption DEF ViewInvariant, Columns

\* A name leads to the record of a column.
LEMMA NamesLead ==
    ASSUME ViewInvariant, NEW n \in ColumnNames
    PROVE  Hashed[n] \in Columns
<1>1. PICK N \in Nat : Columns = 1 .. N
  BY ColumnsNumbered
<1>2. PICK S : S = {j \in Columns : n \in {Use(j).prop, Use(j).name}}
  OBVIOUS
<1>3. S \in SUBSET (1 .. N) /\ S # {}
  BY <1>1, <1>2 DEF ColumnNames
<1>4. Max(S) \in Columns
  BY <1>2, <1>3, LargestThere
<1>5. n \in UNION {{Use(j).prop, Use(j).name} : j \in Columns}
  BY DEF ColumnNames
<1>6. Hashed[n] = Max(S)
  BY <1>2, <1>5 DEF Hashed
<1> QED BY <1>4, <1>6

\* The name of a column that is kept leads to its own record.
LEMMA KeptLeads ==
    ASSUME ViewInvariant, NEW j \in Columns, Kept(j)
    PROVE  Hashed[Use(j).name] = j
<1>1. PICK N \in Nat : Columns = 1 .. N
  BY ColumnsNumbered
<1>2. PICK S : S = {k \in Columns : Use(j).name \in {Use(k).prop, Use(k).name}}
  OBVIOUS
<1>3. j \in S /\ S \in SUBSET (1 .. N)
  BY <1>1, <1>2
<1>4. Max(S) \in S /\ Max(S) >= j
  BY <1>3, LargestThere
<1>5. Max(S) = j
  <2>1. PICK m \in 1 .. N : m = Max(S) /\ m >= j /\ Use(j).name \in {Use(m).prop, Use(m).name}
    BY <1>1, <1>2, <1>4
  <2>2. ~(m > j)
    BY <1>1, <2>1 DEF Kept
  <2> QED BY <1>1, <2>1, <2>2
<1>6. Use(j).name \in UNION {{Use(k).prop, Use(k).name} : k \in Columns}
  OBVIOUS
<1> QED BY <1>2, <1>5, <1>6 DEF Hashed

\* What is listed under a name is of the record the name leads to.
LEMMA ListedFits ==
    ASSUME ViewInvariant, state \in {"registered", "dropped"}, NEW n \in ColumnNames
    PROVE  LET j == Hashed[n]
           IN /\ ListedAs(n)[1] \in {"view", Class[Use(j).class].table}
              /\ ListedAs(n) = <<ListedAs(n)[1], Derived(j)[2]>>
              /\ OfMetadata(j) \/ ListedAs(n)[1] = Class[Use(j).class].table
<1>1. PICK j \in Columns : j = Hashed[n] /\ j = prophash[n]
  BY NamesLead DEF ViewInvariant
<1>2. TableThen(n) \in {"view", Class[Use(j).class].table}
  BY <1>1 DEF TableThen, ViewInvariant, RecordsFit
<1>3. Derived(j)[1] = "none" \/ Derived(j)[1] = Class[Use(j).class].table
  BY DEF Derived
<1>4. OfMetadata(j) \/ (Derived(j)[1] = Class[Use(j).class].table /\ Derived(j)[1] # "none")
  BY <1>1 DEF Derived, ViewInvariant, ViewRead, PropertyFails
<1>5. ListedAs(n)[1] = (IF Derived(j)[1] # "none" THEN Derived(j)[1] ELSE TableThen(n))
      /\ ListedAs(n)[2] = Derived(j)[2]
      /\ ListedAs(n) = <<ListedAs(n)[1], ListedAs(n)[2]>>
  BY <1>1 DEF ListedAs
<1> QED BY <1>1, <1>2, <1>3, <1>4, <1>5

LEMMA BuiltFits ==
    ASSUME ViewInvariant, state \in {"registered", "dropped"}
    PROVE  CommandFits(BuiltCommand)
<1>1. BuiltCommand.shows = [n \in ColumnNames |-> ListedAs(n)]
      /\ BuiltCommand.where = JoinedTables
      /\ BuiltCommand.from = {Class[decl.class].table}
             \cup {Class[decl.joins[i].class].table : i \in DOMAIN decl.joins}
  BY DEF BuiltCommand
<1>2. BuiltCommand # <<>>
  BY DEF BuiltCommand
<1>3. "view" \notin BuiltCommand.from
  BY <1>1, ViewAssumption DEF ViewInvariant, ViewRead, JoinFails
<1>4. ASSUME NEW j \in Columns, Kept(j)
      PROVE  /\ BuiltCommand.shows[Use(j).name][1] \in {"view", Class[Use(j).class].table}
             /\ BuiltCommand.shows[Use(j).name]
                    = <<BuiltCommand.shows[Use(j).name][1], Derived(j)[2]>>
  <2>1. PICK n \in ColumnNames : n = Use(j).name
    BY DEF ColumnNames
  <2>2. Hashed[n] = j
    BY <1>4, <2>1, KeptLeads
  <2>3. BuiltCommand.shows[n] = ListedAs(n)
    BY <1>1
  <2> QED BY <2>1, <2>2, <2>3, ListedFits
<1>5. ASSUME NEW n \in ColumnNames
      PROVE  \E j \in Columns : OfMetadata(j)
                 \/ BuiltCommand.shows[n][1] = Class[Use(j).class].table
  <2>1. PICK j \in Columns : j = Hashed[n]
    BY NamesLead
  <2>2. BuiltCommand.shows[n] = ListedAs(n)
    BY <1>1
  <2> QED BY <2>1, <2>2, ListedFits
<1>6. DOMAIN BuiltCommand.shows = ColumnNames
  BY <1>1
<1>7. \A i \in DOMAIN decl.joins :
          \A x \in {decl.joins[i].left[1], decl.joins[i].right[1]} :
              Class[x].metadata => Class[x].table \in BuiltCommand.where
  BY <1>1 DEF JoinedTables, JoinedClasses
<1> QED BY <1>2, <1>3, <1>4, <1>5, <1>6, <1>7 DEF CommandFits

\* A statement that fits and is accepted shows what the file says.
LEMMA AcceptedShows ==
    ASSUME NEW c, CommandFits(c), Accepted(c)
    PROVE  /\ DOMAIN c.shows = ColumnNames
           /\ \A j \in Columns : Kept(j) =>
                 c.shows[Use(j).name] = <<Class[Use(j).class].table, Derived(j)[2]>>
<1>1. ASSUME NEW j \in Columns, Kept(j)
      PROVE  c.shows[Use(j).name] = <<Class[Use(j).class].table, Derived(j)[2]>>
  <2>1. Use(j).name \in DOMAIN c.shows
    BY DEF CommandFits, ColumnNames
  <2>2. c.shows[Use(j).name][1] # "view"
    BY <2>1 DEF CommandFits, Accepted
  <2> QED BY <1>1, <2>2 DEF CommandFits
<1> QED BY <1>1 DEF CommandFits

LEMMA ViewsShowThen ==
    ASSUME ViewInvariant
    PROVE  ViewsShow
<1>1. ColumnsShow
  BY AcceptedShows DEF ViewInvariant, ColumnsShow, CommandFits
<1> QED BY <1>1 DEF ViewInvariant, ViewsShow

\* A refused statement names a table it does not select from, or has nothing
\* after WHERE.
LEMMA RefusedFor ==
    ASSUME NEW c, CommandFits(c), ~Accepted(c)
    PROVE  \/ \E j \in Columns : OfMetadata(j) \/ Class[Use(j).class].table \notin c.from
           \/ ~OverTables(c)
           \/ c.where = {} /\ c.constraints = {}
BY DEF CommandFits, Accepted

\* What is said of a <view> stays.
LEMMA DeclSays ==
    ASSUME UNCHANGED decl
    PROVE  /\ Columns' = Columns /\ ColumnNames' = ColumnNames
           /\ \A j : Use(j)' = Use(j)
           /\ \A j : OfMetadata(j)' = OfMetadata(j)
           /\ \A j : Derived(j)' = Derived(j)
           /\ \A j : Kept(j)' = Kept(j)
           /\ Hashed' = Hashed /\ ViewRead' = ViewRead
<1>1. Columns' = Columns /\ \A j : Use(j)' = Use(j)
  BY DEF Columns, Use
<1>2. ColumnNames' = ColumnNames /\ Hashed' = Hashed
  BY <1>1 DEF ColumnNames, Hashed
<1>3. \A j : OfMetadata(j)' = OfMetadata(j)
  BY <1>1 DEF OfMetadata
<1>4. \A j : Derived(j)' = Derived(j)
  BY <1>1, <1>3 DEF Derived
<1>5. \A j : Kept(j)' = Kept(j)
  BY <1>1 DEF Kept
<1>6. \A j : PropertyFails(j)' = PropertyFails(j)
  BY <1>1, <1>3 DEF PropertyFails
<1>7. ViewRead' = ViewRead
  BY <1>1, <1>6 DEF ViewRead, JoinFails
<1> QED BY <1>1, <1>2, <1>3, <1>4, <1>5, <1>7

LEMMA FitsStill ==
    ASSUME UNCHANGED decl, NEW c, CommandFits(c)
    PROVE  CommandFits(c)'
<1>1. c # <<>> /\ DOMAIN c.shows = ColumnNames' /\ "view" \notin c.from
  BY DeclSays DEF CommandFits
<1>2. ASSUME NEW j \in Columns', Kept(j)'
      PROVE  /\ c.shows[Use(j)'.name][1] \in {"view", Class[Use(j)'.class].table}
             /\ c.shows[Use(j)'.name] = <<c.shows[Use(j)'.name][1], Derived(j)'[2]>>
  <2>1. j \in Columns /\ Kept(j) /\ Use(j)' = Use(j) /\ Derived(j)' = Derived(j)
    BY <1>2, DeclSays
  <2>2. /\ c.shows[Use(j).name][1] \in {"view", Class[Use(j).class].table}
        /\ c.shows[Use(j).name] = <<c.shows[Use(j).name][1], Derived(j)[2]>>
    BY <2>1 DEF CommandFits
  <2> QED BY <2>1, <2>2
<1>3. ASSUME NEW n \in ColumnNames'
      PROVE  \E j \in Columns' :
                 OfMetadata(j)' \/ c.shows[n][1] = Class[Use(j)'.class].table
  BY <1>3, DeclSays DEF CommandFits
<1>4. \A i \in DOMAIN decl'.joins :
          \A x \in {decl'.joins[i].left[1], decl'.joins[i].right[1]} :
              Class[x].metadata => Class[x].table \in c.where
  BY DEF CommandFits
<1> QED BY <1>1, <1>2, <1>3, <1>4 DEF CommandFits

LEMMA RecordsStill ==
    ASSUME UNCHANGED <<decl, attr>>, RecordsFit
    PROVE  RecordsFit'
BY DeclSays DEF RecordsFit

LEMMA CreateKeeps ==
    ASSUME ViewInvariant, state \in {"registered", "dropped"}, state' \in {"registered", "dropped"},
           NEW call, NEW fails, Create(call, fails), state' # "dropped" \/ call = "drop",
           UNCHANGED <<decl, prophash>>
    PROVE  ViewInvariant'
<1>1. CASE "meta" \in fails \/ shown # <<>>
  <2>1. told' = [call |-> call, answer |-> TRUE, fails |-> fails]
        /\ UNCHANGED <<attr, command, shown>>
    BY <1>1 DEF Create, Told
  <2>2. StorageTells'
    BY <1>1, <2>1 DEF StorageTells
  <2>3. prophash' = Hashed' /\ ViewRead' /\ RecordsFit'
    BY <2>1, DeclSays, RecordsStill DEF ViewInvariant
  <2>4. PICK c, s : c = command /\ s = shown
    OBVIOUS
  <2>5. command # <<>> => CommandFits(c)'
    BY <2>4, FitsStill DEF ViewInvariant
  <2>6. shown # <<>> => CommandFits(s)' /\ Accepted(s)
    BY <2>4, FitsStill DEF ViewInvariant
  <2>7. command' = c /\ shown' = s
    BY <2>1, <2>4
  <2> QED
    BY <2>1, <2>2, <2>3, <2>4, <2>5, <2>6, <2>7 DEF ViewInvariant
<1>2. CASE ~("meta" \in fails \/ shown # <<>>)
  <2>1. PICK c : c = IF command = <<>> THEN BuiltCommand ELSE command
    OBVIOUS
  <2>2. CommandFits(c)
    BY <2>1, BuiltFits DEF ViewInvariant
  <2>3. PICK done \in BOOLEAN : done = (Accepted(c) /\ "create" \notin fails)
    OBVIOUS
  <2>4. /\ command' = c /\ shown' = IF done THEN c ELSE <<>>
        /\ told' = [call |-> call, answer |-> done, fails |-> fails]
        /\ attr' = IF command = <<>> THEN Viewed ELSE attr
    BY <1>2, <2>1, <2>3 DEF Create, Told
  <2>5. RecordsFit'
    BY <2>4 DEF RecordsFit, ViewInvariant, Viewed, Columns, Use
  <2>6. CommandFits(c)'
    BY <2>2, FitsStill
  <2>7. StorageTells'
    BY <2>2, <2>3, <2>4, RefusedFor DEF StorageTells, CommandFits, Columns, Use, OfMetadata
  <2>8. prophash' = Hashed' /\ ViewRead'
    BY DeclSays DEF ViewInvariant
  <2> QED
    BY <2>3, <2>4, <2>5, <2>6, <2>7, <2>8 DEF ViewInvariant
<1> QED BY <1>1, <1>2

LEMMA ViewStepKeeps ==
    ASSUME ViewInvariant, [ViewNext]_viewVars
    PROVE  ViewInvariant'
<1> USE DEF Told
<1>1. PICK c, s : c = command /\ s = shown
  OBVIOUS
<1>2. CASE UNCHANGED decl /\ (c # <<>> => CommandFits(c)') /\ (s # <<>> => CommandFits(s)' /\ Accepted(s))
  <2>1. CASE ReadView
    <3>1. CASE state' = "registered"
      <4>1. prophash' = Hashed /\ ViewRead /\ attr' = [j \in Columns |-> Class[Use(j).class].table]
        BY <2>1, <3>1 DEF ReadView, ViewRead
      <4>2. prophash' = Hashed' /\ ViewRead'
        BY <1>2, <4>1, DeclSays
      <4>3. RecordsFit'
        BY <1>2, <4>1, DeclSays DEF RecordsFit
      <4>4. StorageTells'
        BY <1>2, <2>1, DeclSays DEF StorageTells, ViewInvariant, ReadView
      <4> QED BY <1>1, <1>2, <2>1, <3>1, <4>2, <4>3, <4>4 DEF ViewInvariant, ReadView
    <3>2. CASE state' # "registered"
      <4>1. state' \notin {"registered", "dropped"}
        BY <2>1, <3>2 DEF ReadView
      <4>2. StorageTells'
        BY <1>2, <2>1, DeclSays DEF StorageTells, ViewInvariant, ReadView
      <4> QED BY <1>1, <1>2, <2>1, <4>1, <4>2 DEF ViewInvariant, ReadView
    <3> QED BY <3>1, <3>2
  <2>2. CASE SelectFromView
    <3>1. RecordsFit'
      BY <1>2, <2>2, DeclSays DEF RecordsFit, SelectFromView, Viewed, ViewInvariant
    <3>2. StorageTells'
      BY <2>2 DEF StorageTells, SelectFromView
    <3>3. prophash' = Hashed' /\ ViewRead'
      BY <1>2, <2>2, DeclSays DEF ViewInvariant, SelectFromView
    <3> QED BY <1>1, <1>2, <2>2, <3>1, <3>2, <3>3 DEF ViewInvariant, SelectFromView
  <2>3. CASE Restart
    <3>1. StorageTells'
      BY <2>3 DEF StorageTells, Restart
    <3> QED BY <1>1, <1>2, <2>3, <3>1 DEF ViewInvariant, Restart
  <2>4. ASSUME NEW fails, CreateStorage(fails) PROVE ViewInvariant'
    BY <2>4, CreateKeeps DEF CreateStorage
  <2>5. ASSUME NEW fails, UpdateCreates(fails) PROVE ViewInvariant'
    <3>1. PICK all : all = fails \cup told.fails /\ Create("update", all)
      BY <2>5 DEF UpdateCreates
    <3> QED BY <2>5, <3>1, CreateKeeps DEF UpdateCreates
  <2>6. ASSUME NEW fails, DeleteStorage(fails) \/ UpdateDrops(fails) PROVE ViewInvariant'
    <3>1. StorageTells'
      BY <2>6 DEF StorageTells, DeleteStorage, UpdateDrops
    <3>2. /\ state = "registered" /\ state' \in {"registered", "dropped"}
          /\ shown' = s \/ shown' = <<>>
          /\ UNCHANGED <<prophash, attr, command>>
          /\ state' = "dropped" => told'.call = "drop"
      BY <1>1, <2>6 DEF DeleteStorage, UpdateDrops
    <3>3. prophash' = Hashed' /\ ViewRead' /\ RecordsFit'
      BY <1>2, <3>2, DeclSays, RecordsStill DEF ViewInvariant
    <3> QED BY <1>1, <1>2, <3>1, <3>2, <3>3 DEF ViewInvariant
  <2>7. CASE UNCHANGED viewVars
    <3>1. StorageTells'
      BY <1>2, <2>7, DeclSays DEF StorageTells, ViewInvariant, viewVars
    <3>2. state \in {"registered", "dropped"} => prophash' = Hashed' /\ ViewRead' /\ RecordsFit'
      BY <1>2, <2>7, DeclSays, RecordsStill DEF ViewInvariant, viewVars
    <3> QED BY <1>1, <1>2, <2>7, <3>1, <3>2 DEF ViewInvariant, viewVars
  <2> QED BY <2>1, <2>2, <2>3, <2>4, <2>5, <2>6, <2>7 DEF ViewNext
<1>3. UNCHANGED decl
  BY DEF ViewNext, viewVars, ReadView, SelectFromView, Restart, CreateStorage, UpdateCreates,
     DeleteStorage, UpdateDrops
<1>4. /\ c # <<>> => CommandFits(c)'
      /\ s # <<>> => CommandFits(s)' /\ Accepted(s)
  BY <1>1, <1>3, FitsStill DEF ViewInvariant
<1> QED BY <1>2, <1>3, <1>4

LEMMA ViewsStart == ViewInit => ViewInvariant
BY DEF ViewInit, ViewInvariant, StorageTells

\* Whatever a <view> says, whichever calls are made, fail or are broken off, and
\* however often the process ends: the view of the database has a column for
\* each property with the property the file names, but for those that are taken
\* over, it hides what is deleted of the classes it joins, and what create and
\* update answer is so.
THEOREM ViewsRight == ViewSpec => []ViewsShow
<1>1. ViewInit => ViewInvariant
  BY ViewsStart
<1>2. ViewInvariant /\ [ViewNext]_viewVars => ViewInvariant'
  BY ViewStepKeeps
<1>3. ViewInvariant => ViewsShow
  BY ViewsShowThen
<1> QED BY <1>1, <1>2, <1>3, PTL DEF ViewSpec
-----------------------------------------------------------------------------
(* The query builder: what looking up a name leaves                        *)

Referring == {"record_extension", "blobs"}

\* Whose guid a prefix compares the parent_guid of a table with.
Compares(p, T) ==
    CASE T = "record_extension" /\ p = <<"parameter">> -> "thing"
      [] T = "record_extension" /\ p = <<"friend", "parameter">> -> "person"
      [] T = "blobs" /\ p = <<"attachment">> -> "thing"
      [] T = "blobs" /\ p = <<"friend", "attachment">> -> "person"
      [] OTHER -> "none"

LEMMA TablesOfPrefixes ==
    /\ TableOf(<<>>) = "thing"
    /\ TableOf(<<"friend">>) = "person"
    /\ TableOf(<<"parameter">>) = "record_extension"
    /\ TableOf(<<"attachment">>) = "blobs"
    /\ TableOf(<<"friend", "parameter">>) = "record_extension"
    /\ TableOf(<<"friend", "attachment">>) = "blobs"
BY DEF TableOf, Last, ReservedTable

LEMMA FriendsOfPrefixes ==
    /\ "friend" \notin ToSet(<<>>) /\ "friend" \in ToSet(<<"friend">>)
    /\ "friend" \notin ToSet(<<"parameter">>) /\ "friend" \notin ToSet(<<"attachment">>)
    /\ "friend" \in ToSet(<<"friend", "parameter">>)
    /\ "friend" \in ToSet(<<"friend", "attachment">>)
    /\ "parameter" \notin ToSet(<<>>) /\ "parameter" \notin ToSet(<<"friend">>)
    /\ "parameter" \in ToSet(<<"parameter">>) /\ "parameter" \notin ToSet(<<"attachment">>)
    /\ "parameter" \in ToSet(<<"friend", "parameter">>)
    /\ "parameter" \notin ToSet(<<"friend", "attachment">>)
BY DEF ToSet

LEMMA ComparesOfPrefixes ==
    \A T \in Referring :
        /\ Compares(<<>>, T) = "none" /\ Compares(<<"friend">>, T) = "none"
        /\ Compares(<<"parameter">>, T) = IF T = "record_extension" THEN "thing" ELSE "none"
        /\ Compares(<<"attachment">>, T) = IF T = "blobs" THEN "thing" ELSE "none"
        /\ Compares(<<"friend", "parameter">>, T) =
               IF T = "record_extension" THEN "person" ELSE "none"
        /\ Compares(<<"friend", "attachment">>, T) = IF T = "blobs" THEN "person" ELSE "none"
BY DEF Compares, Referring

LEMMA PrefixOfName ==
    ASSUME NEW n \in Name
    PROVE  /\ Len(n) \in Nat /\ Len(n) >= 1 /\ Len(Front(n)) = Len(n) - 1
           /\ Front(n) \in Prefix
           /\ \A k \in 1 .. Len(n) - 1 : n[k] = Front(n)[k]
<1>1. n \in Seq(STRING) /\ n # <<>> /\ Front(n) \in Prefix
  BY NameAssumption
<1>2. Len(n) \in Nat /\ Len(n) >= 1 /\ \A i \in 1 .. Len(n) - 1 : n[i] \in STRING
  BY <1>1, EmptySeq
<1>3. /\ Len(Front(n)) = IF 1 <= Len(n) - 1 THEN Len(n) - 1 - 1 + 1 ELSE 0
      /\ \A i \in 1 .. Len(n) - 1 - 1 + 1 : Front(n)[i] = n[1 + i - 1]
  BY <1>2, SubSeqProperties DEF Front
<1>4. Len(Front(n)) = Len(n) - 1
  <2>1. CASE 1 <= Len(n) - 1
    BY <1>2, <1>3, <2>1
  <2>2. CASE ~(1 <= Len(n) - 1)
    <3>1. Len(n) - 1 = 0
      <4>1. PICK m \in Nat : m = Len(n)
        BY <1>2
      <4>2. m >= 1 /\ ~(1 <= m - 1)
        BY <1>2, <2>2, <4>1
      <4>3. m - 1 = 0
        BY <4>2
      <4> QED BY <4>1, <4>3
    <3>2. Len(Front(n)) = 0
      BY <1>3, <2>2
    <3> QED BY <3>1, <3>2
  <2> QED BY <2>1, <2>2
<1>5. ASSUME NEW k \in 1 .. Len(n) - 1 PROVE n[k] = Front(n)[k]
  <2>1. k \in 1 .. Len(n) - 1 - 1 + 1 /\ 1 + k - 1 = k
    BY <1>2, <1>5
  <2>2. Front(n)[k] = n[1 + k - 1]
    BY <1>3, <2>1
  <2> QED BY <2>1, <2>2
<1> QED BY <1>1, <1>2, <1>4, <1>5

\* The tokens before the first and before the second.
LEMMA BeforeInName ==
    ASSUME NEW n \in Name
    PROVE  SubSeq(n, 1, 1 - 1) = <<>> /\ (Len(n) >= 2 => SubSeq(n, 1, 2 - 1) = << n[1] >>)
<1>1. SubSeq(n, 1, 1 - 1) = <<>>
  BY SubSeqEmpty
<1>2. ASSUME Len(n) >= 2 PROVE SubSeq(n, 1, 2 - 1) = << n[1] >>
  <2>1. n[1] \in STRING
    BY <1>2, NameAssumption
  <2>2. SubSeq(n, 1, 1) \in Seq(STRING) /\ Len(SubSeq(n, 1, 1)) = 1 /\ SubSeq(n, 1, 1)[1] = n[1]
    BY <2>1, SubSeqProperties
  <2>3. << n[1] >> \in Seq(STRING) /\ Len(<< n[1] >>) = 1 /\ << n[1] >>[1] = n[1]
    BY <2>1
  <2>4. SubSeq(n, 1, 1) = << n[1] >>
    <3>1. PICK s \in Seq(STRING) : s = SubSeq(n, 1, 1)
      BY <2>2
    <3>2. PICK t \in Seq(STRING) : t = << n[1] >>
      BY <2>3
    <3>3. Len(s) = Len(t) /\ \A i \in 1 .. Len(s) : s[i] = t[i]
      BY <2>2, <2>3, <3>1, <3>2
    <3>4. s = t
      BY <3>3, SeqEqual
    <3> QED BY <3>1, <3>2, <3>4
  <2> QED BY <2>4
<1> QED BY <1>1, <1>2

\* The table a name compares, if no name before it did.
LEMMA LookedUpIn ==
    ASSUME NEW n \in Name, NEW T \in Referring
    PROVE  LET at == {k \in 1 .. Len(n) - 1 :
                          n[k] \in DOMAIN ReservedTable /\ ReservedTable[n[k]] = T}
           IN Compares(Front(n), T) =
                 IF at = {} THEN "none" ELSE TableOf(SubSeq(n, 1, Min(at) - 1))
<1>1. PICK p \in Prefix : p = Front(n)
  BY PrefixOfName
<1>2. PICK at : at = {k \in 1 .. Len(n) - 1 :
                          n[k] \in DOMAIN ReservedTable /\ ReservedTable[n[k]] = T}
  OBVIOUS
<1>3. Len(p) = Len(n) - 1 /\ \A k \in 1 .. Len(p) : n[k] = p[k]
  BY <1>1, PrefixOfName
<1>4. at = {k \in 1 .. Len(p) : p[k] \in DOMAIN ReservedTable /\ ReservedTable[p[k]] = T}
  BY <1>2, <1>3
<1>5. \A m \in 1 .. Len(p) : at = {m} => Min(at) = m
  BY <1>3, PrefixOfName DEF Min
<1>6. T = "record_extension" \/ T = "blobs"
  BY DEF Referring
<1>7. DOMAIN ReservedTable = {"parameter", "attachment"}
      /\ ReservedTable["parameter"] = "record_extension" /\ ReservedTable["attachment"] = "blobs"
  BY DEF ReservedTable
<1>d. SUFFICES Compares(p, T) =
                   IF at = {} THEN "none" ELSE TableOf(SubSeq(n, 1, Min(at) - 1))
  BY <1>1, <1>2
<1>8. CASE p = <<>> \/ p = <<"friend">>
  <2>1. at = {}
    <3>1. Len(p) \in 0 .. 1 /\ (Len(p) = 1 => p[1] = "friend")
      BY <1>8
    <3>2. ASSUME NEW k \in at PROVE FALSE
      <4>1. k \in 1 .. Len(p) /\ p[k] \in {"parameter", "attachment"}
        BY <1>4, <1>7, <3>2
      <4>2. k = 1 /\ Len(p) = 1
        BY <3>1, <4>1
      <4> QED BY <3>1, <4>1, <4>2
    <3> QED BY <3>2
  <2> QED BY <1>8, <2>1, ComparesOfPrefixes
<1>9. CASE p = <<"parameter">> \/ p = <<"attachment">>
  <2>1. CASE T = ReservedTable[p[1]]
    <3>1. at = {1}
      BY <1>4, <1>7, <1>9, <2>1
    <3>2. SubSeq(n, 1, Min(at) - 1) = <<>>
      <4>1. Len(p) = 1
        BY <1>9
      <4>2. Min(at) = 1
        BY <1>5, <3>1, <4>1
      <4>3. SubSeq(n, 1, 1 - 1) = <<>>
        BY BeforeInName
      <4> QED BY <4>2, <4>3
    <3>3. TableOf(SubSeq(n, 1, Min(at) - 1)) = "thing"
      BY <3>2, TablesOfPrefixes
    <3>4. at # {}
      BY <3>1
    <3>5. Compares(p, T) = "thing"
      BY <1>6, <1>7, <1>9, <2>1, ComparesOfPrefixes
    <3> QED BY <3>3, <3>4, <3>5
  <2>2. CASE T # ReservedTable[p[1]]
    <3>1. at = {}
      BY <1>4, <1>7, <1>9, <2>2
    <3> QED BY <1>6, <1>7, <1>9, <2>2, <3>1, ComparesOfPrefixes
  <2> QED BY <2>1, <2>2
<1>10. CASE p = <<"friend", "parameter">> \/ p = <<"friend", "attachment">>
  <2>1. CASE T = ReservedTable[p[2]]
    <3>1. at = {2}
      BY <1>4, <1>7, <1>10, <2>1
    <3>2. SubSeq(n, 1, Min(at) - 1) = <<"friend">>
      <4>1. Len(p) = 2 /\ p[1] = "friend"
        BY <1>10
      <4>2. Len(n) >= 2 /\ n[1] = "friend"
        <5>1. Len(n) \in Nat /\ 1 \in 1 .. Len(p)
          BY <4>1, PrefixOfName
        <5> QED BY <1>3, <4>1, <5>1
      <4>3. Min(at) = 2
        BY <1>5, <3>1, <4>1
      <4>4. SubSeq(n, 1, 2 - 1) = << n[1] >>
        BY <4>2, BeforeInName
      <4>5. << n[1] >> = <<"friend">>
        BY <4>2
      <4> QED BY <4>3, <4>4, <4>5
    <3>3. TableOf(SubSeq(n, 1, Min(at) - 1)) = "person"
      BY <3>2, TablesOfPrefixes
    <3>4. at # {}
      BY <3>1
    <3>5. Compares(p, T) = "person"
      BY <1>6, <1>7, <1>10, <2>1, ComparesOfPrefixes
    <3> QED BY <3>3, <3>4, <3>5
  <2>2. CASE T # ReservedTable[p[2]]
    <3>1. at = {}
      BY <1>4, <1>7, <1>10, <2>2
    <3> QED BY <1>6, <1>7, <1>10, <2>2, <3>1, ComparesOfPrefixes
  <2> QED BY <2>1, <2>2
<1> QED BY <1>8, <1>9, <1>10 DEF Prefix
-----------------------------------------------------------------------------
(* The query builder: every table is joined                                *)

\* What joins a table to the statement is there.
Reaches(b, T) ==
    /\ T = "person" => "friend" \in b.joins
    /\ T \in Referring => b.reference[T] # "none"

\* All tables of a builder are joined, and parameters make it select once.
Fits(b) ==
    /\ \A T \in b.tables : Reaches(b, T)
    /\ b.reference["record_extension"] # "none" => b.distinct
    /\ DOMAIN b.reference = Referring

\* What a name adds to a builder.
Adds(b, c, p) ==
    /\ c.tables = IF "friend" \in ToSet(p) THEN b.tables \cup {"thing", "person"} ELSE b.tables
    /\ c.joins = IF "friend" \in ToSet(p) THEN b.joins \cup {"friend"} ELSE b.joins
    /\ c.distinct = (b.distinct \/ "parameter" \in ToSet(p))
    /\ DOMAIN c.reference = DOMAIN b.reference
    /\ \A T \in Referring :
           c.reference[T] = IF b.reference[T] # "none" THEN b.reference[T] ELSE Compares(p, T)

LEMMA FollowedIs ==
    ASSUME NEW b, Fits(b), NEW n \in Name
    PROVE  Adds(b, Follows(n, b), Front(n))
<1>1. PICK c : c = Follows(n, b)
  OBVIOUS
<1>2. PICK p : p = Front(n)
  OBVIOUS
<1>3. /\ c.tables = IF "friend" \in ToSet(p) THEN b.tables \cup {"thing", "person"}
                    ELSE b.tables
      /\ c.joins = IF "friend" \in ToSet(p) THEN b.joins \cup {"friend"} ELSE b.joins
      /\ c.distinct = (b.distinct \/ "parameter" \in ToSet(p))
      /\ DOMAIN c.reference = DOMAIN b.reference
  BY <1>1, <1>2 DEF Follows
<1>4. ASSUME NEW T \in Referring
      PROVE  c.reference[T] = IF b.reference[T] # "none" THEN b.reference[T]
                              ELSE Compares(p, T)
  <2>1. PICK at : at = {k \in 1 .. Len(n) - 1 :
                          n[k] \in DOMAIN ReservedTable /\ ReservedTable[n[k]] = T}
    OBVIOUS
  <2>2. T \in DOMAIN b.reference
    BY DEF Fits
  <2>3. c.reference[T] = IF b.reference[T] # "none" THEN b.reference[T]
                         ELSE IF at = {} THEN "none" ELSE TableOf(SubSeq(n, 1, Min(at) - 1))
    BY <1>1, <2>1, <2>2 DEF Follows
  <2>4. Compares(p, T) = IF at = {} THEN "none" ELSE TableOf(SubSeq(n, 1, Min(at) - 1))
    BY <1>2, <2>1, LookedUpIn
  <2> QED BY <2>3, <2>4
<1> QED BY <1>1, <1>2, <1>3, <1>4 DEF Adds

\* What a name follows is reached from then on.
LEMMA FollowsFits ==
    ASSUME NEW b, Fits(b), NEW n \in Name
    PROVE  /\ Fits(Follows(n, b))
           /\ Reaches(Follows(n, b), TableOfName(n))
           /\ \A T : Reaches(b, T) => Reaches(Follows(n, b), T)
<1>1. PICK p \in Prefix : p = Front(n)
  BY PrefixOfName
<1>2. PICK c : c = Follows(n, b)
  OBVIOUS
<1>0. Adds(b, c, p)
  BY <1>1, <1>2, FollowedIs
<1>3. /\ c.tables = IF "friend" \in ToSet(p) THEN b.tables \cup {"thing", "person"}
                    ELSE b.tables
      /\ c.joins = IF "friend" \in ToSet(p) THEN b.joins \cup {"friend"} ELSE b.joins
      /\ c.distinct = (b.distinct \/ "parameter" \in ToSet(p))
      /\ DOMAIN c.reference = DOMAIN b.reference
  BY <1>0 DEF Adds
<1>4. \A T \in Referring :
          c.reference[T] = IF b.reference[T] # "none" THEN b.reference[T] ELSE Compares(p, T)
  BY <1>0 DEF Adds
<1>5. \A T : Reaches(b, T) => Reaches(c, T)
  BY <1>3, <1>4 DEF Reaches
<1>6. Reaches(c, "thing")
  BY DEF Reaches, Referring
<1>7. "friend" \in ToSet(p) => Reaches(c, "person")
  BY <1>3 DEF Reaches, Referring
<1>8. \A T \in c.tables : Reaches(c, T)
  BY <1>3, <1>5, <1>6, <1>7 DEF Fits
<1>9. c.reference["record_extension"] # "none" => c.distinct
  <2>1. Compares(p, "record_extension") # "none" => "parameter" \in ToSet(p)
    BY FriendsOfPrefixes DEF Compares
  <2> QED BY <1>3, <1>4, <2>1 DEF Fits, Referring
<1>10. Reaches(c, TableOf(p))
  <2>1. TableOf(p) = "person" => "friend" \in ToSet(p)
    BY TablesOfPrefixes, FriendsOfPrefixes DEF Prefix
  <2>2. TableOf(p) \in Referring => Compares(p, TableOf(p)) # "none"
    BY TablesOfPrefixes, ComparesOfPrefixes DEF Prefix, Referring
  <2> QED BY <1>3, <1>4, <2>1, <2>2 DEF Reaches
<1> QED BY <1>1, <1>2, <1>3, <1>5, <1>8, <1>9, <1>10 DEF Fits, TableOfName

\* The builder that has looked up names, with their tables or without.
LEMMA BecomesFits ==
    ASSUME NEW b, Fits(b), NEW names, \A n \in names : Reaches(b, TableOfName(n)),
           Becomes(b, names)
    PROVE  Fits(Now)'
<1>1. tables' = b.tables \cup {TableOfName(name) : name \in names} /\ joins' = b.joins
      /\ reference' = b.reference /\ distinct' = b.distinct
  BY DEF Becomes
<1>2. PICK c : c = Now'
  OBVIOUS
<1>3. c.tables = b.tables \cup {TableOfName(name) : name \in names} /\ c.joins = b.joins
      /\ c.reference = b.reference /\ c.distinct = b.distinct
  BY <1>1, <1>2 DEF Now
<1>4. \A T \in c.tables : Reaches(b, T)
  BY <1>3 DEF Fits
<1>5. Fits(c)
  BY <1>3, <1>4 DEF Fits, Reaches
<1> QED BY <1>2, <1>5
-----------------------------------------------------------------------------
(* The query builder: its answers                                          *)

\* What the statement selects.
FoundNow == IF Invalid(constraints) THEN {} ELSE Selected(constraints)
FoundWith(cs) == IF Invalid(cs) THEN {} ELSE Selected(cs)

\* The same, with the variables it depends on as parameters.
FoundIn(cs, tbs, ref, jns, gs, cls, del, ors, lim, off) ==
    LET Conds == cs \cup UNION {gs[i].conds : i \in DOMAIN gs}
        FromIn(T) == IF T \in tbs THEN Rows[T] ELSE {NoRow}
        Wanted(t) == cls = "midgard_user" \/ del \/ t.deleted = "no"
        Combined ==
            UNION {UNION {{[thing |-> t, person |-> p, record_extension |-> x, blobs |-> b] :
                               x \in FromIn("record_extension"), b \in FromIn("blobs")} :
                              p \in FromIn("person")} :
                       t \in {s \in Rows["thing"] : Wanted(s)}}
        Cell(r, name) == r[TableOfName(name)][Last(name)]
        CondHolds(r, c) ==
            Cell(r, c.name) = IF c.with = <<>> THEN c.val ELSE Cell(r, c.with)
        Join(r) ==
            /\ "friend" \in jns => r.thing.friend = r.person.id
            /\ \A T \in DOMAIN ref :
                   ref[T] # "none" =>
                       r[T].parent_guid = r[ref[T]].guid /\ r[T].deleted = "no"
        WhereIn(met) == cs \subseteq met /\ Nested(gs, 0) \subseteq Holding(gs, met)
        Bad == \/ \E c \in Conds :
                    c.op = "invalid" \/ \E n \in Named(c) : TableOfName(n) \notin tbs
               \/ \E T \in DOMAIN ref : ref[T] # "none" /\ T \notin tbs
               \/ \E o \in ors : o.dir = "null" \/ TableOfName(o.name) \notin tbs
               \/ lim = NoLimit /\ off # 0
    IN  IF Bad THEN {}
        ELSE {r \in Combined : Join(r) /\ WhereIn({c \in Conds : CondHolds(r, c)})}

LEMMA FoundWithIn ==
    ASSUME NEW cs
    PROVE  FoundWith(cs) = FoundIn(cs, tables, reference, joins, groups, class, deletedToo,
                                   orders, limit, offset)
BY DEF FoundWith, FoundIn, Invalid, Selected, Conditions, From, Alive, JoinsHold, Where

LEMMA FoundLater ==
    FoundNow' = FoundIn(constraints', tables', reference', joins', groups', class', deletedToo',
                     orders', limit', offset')
BY DEF FoundNow, FoundIn, Invalid, Selected, Conditions, From, Alive, JoinsHold, Where

LEMMA FoundStays ==
    ASSUME UNCHANGED <<class, tables, reference, joins, groups, deletedToo, orders, limit,
                       offset>>,
           constraints' = Restricted
    PROVE  FoundNow' = FoundWith(Restricted)
BY FoundWithIn, FoundLater
-----------------------------------------------------------------------------
\* A row of the result: one row of every table of the statement, joined.
LEMMA FoundRow ==
    ASSUME NEW cs, NEW r \in FoundWith(cs)
    PROVE  /\ r = [thing |-> r.thing, person |-> r.person,
                   record_extension |-> r.record_extension, blobs |-> r.blobs]
           /\ r.thing \in Rows["thing"] /\ r.person \in From("person")
           /\ r.record_extension \in From("record_extension") /\ r.blobs \in From("blobs")
           /\ JoinsHold(r)
<1>1. r \in Selected(cs)
  BY DEF FoundWith
<1>2. PICK t \in Rows["thing"], p \in From("person"), x \in From("record_extension"),
           b \in From("blobs") :
              r = [thing |-> t, person |-> p, record_extension |-> x, blobs |-> b]
  BY <1>1 DEF Selected
<1>3. JoinsHold(r)
  BY <1>1 DEF Selected
<1> QED BY <1>2, <1>3

LEMMA GuidOfThing == TableOfName(<<"guid">>) = "thing" /\ Last(<<"guid">>) = "guid"
<1>1. Front(<<"guid">>) = <<>>
  BY SubSeqEmpty DEF Front
<1> QED BY <1>1, TablesOfPrefixes DEF TableOfName, Last

\* Every condition outside groups is true of a row.
LEMMA FoundMeets ==
    ASSUME NEW cs, NEW r \in FoundWith(cs), NEW c \in cs, c.with = <<>>
    PROVE  r[TableOfName(c.name)][Last(c.name)] = c.val
<1>1. r \in Selected(cs)
  BY DEF FoundWith
<1>2. PICK met : /\ met = {d \in Conditions(cs) :
                              r[TableOfName(d.name)][Last(d.name)] =
                                IF d.with = <<>> THEN d.val
                                ELSE r[TableOfName(d.with)][Last(d.with)]}
                 /\ Where(cs, met)
  BY <1>1 DEF Selected
<1>3. c \in met
  BY <1>2 DEF Where
<1> QED BY <1>2, <1>3

\* A plain user finds only himself.
LEMMA FoundSelf ==
    ASSUME class = "midgard_user", user # "none", NEW r \in FoundWith(Restricted)
    PROVE  r.thing.guid = user
<1>1. PICK c : c = [name |-> <<"guid">>, op |-> "=", with |-> <<>>, val |-> user]
  OBVIOUS
<1>2. c \in Restricted
  BY <1>1 DEF Restricted
<1>3. c.with = <<>> /\ c.name = <<"guid">> /\ c.val = user
  BY <1>1
<1>4. r[TableOfName(c.name)][Last(c.name)] = user
  BY <1>2, <1>3, FoundMeets
<1> QED BY <1>3, <1>4, GuidOfThing

\* Two rows of one thing differ in a parameter or an attachment.
LEMMA FoundDiffer ==
    ASSUME Fits(Now), NEW cs, NEW r \in FoundWith(cs), NEW s \in FoundWith(cs),
           r.thing = s.thing, r # s
    PROVE  \E T \in Referring : T \in tables /\ r[T] # s[T]
<1>1. r.person = s.person
  <2>1. CASE "person" \in tables
    <3>1. "friend" \in joins
      BY <2>1 DEF Fits, Now, Reaches
    <3>2. r.thing.friend = r.person.id /\ s.thing.friend = s.person.id
      BY <3>1, FoundRow DEF JoinsHold
    <3>3. r.person \in Rows["person"] /\ s.person \in Rows["person"]
      BY <2>1, FoundRow DEF From
    <3> QED BY <3>2, <3>3, DataAssumption
  <2>2. CASE "person" \notin tables
    BY <2>2, FoundRow DEF From
  <2> QED BY <2>1, <2>2
<1>2. r.record_extension # s.record_extension \/ r.blobs # s.blobs
  <2>1. r = [thing |-> r.thing, person |-> r.person,
             record_extension |-> r.record_extension, blobs |-> r.blobs]
    BY FoundRow
  <2>2. s = [thing |-> s.thing, person |-> s.person,
             record_extension |-> s.record_extension, blobs |-> s.blobs]
    BY FoundRow
  <2> QED BY <1>1, <2>1, <2>2
<1>3. r.record_extension # s.record_extension => "record_extension" \in tables
  BY FoundRow DEF From
<1>4. r.blobs # s.blobs => "blobs" \in tables
  BY FoundRow DEF From
<1> QED BY <1>2, <1>3, <1>4 DEF Referring

\* Things whose rows are each the only ones are as many as their rows.
LEMMA AsManyRows ==
    ASSUME NEW rows, NEW S \in SUBSET Things(rows), IsFiniteSet(S),
           \A r, s \in rows : r.thing = s.thing => r = s
    PROVE  Cardinality({r \in rows : r.thing \in S}) = Cardinality(S)
<1>1. PICK R : R = {r \in rows : r.thing \in S}
  OBVIOUS
<1>2. PICK f : f = [t \in S |-> CHOOSE r \in R : r.thing = t]
  OBVIOUS
<1>3. \A t \in S : f[t] \in R /\ f[t].thing = t
  BY <1>1, <1>2 DEF Things
<1>4. f \in [S -> R]
  BY <1>2, <1>3
<1>5. \A r \in R : r.thing \in S /\ f[r.thing] = r
  BY <1>1, <1>3
<1>6. f \in Bijection(S, R)
  <2>1. \A a, b \in S : f[a] = f[b] => a = b
    BY <1>3
  <2>2. f \in Injection(S, R)
    BY <1>4, <2>1 DEF Injection, IsInjective
  <2>3. f \in Surjection(S, R)
    BY <1>4, <1>5 DEF Surjection
  <2> QED BY <2>2, <2>3 DEF Bijection
<1>7. Cardinality(R) = Cardinality(S)
  BY <1>6, FS_Bijection DEF ExistsBijection
<1> QED BY <1>1, <1>7
LEMMA ThingsFinite ==
    ASSUME NEW cs
    PROVE  /\ Things(FoundWith(cs)) \subseteq Rows["thing"]
           /\ IsFiniteSet(Things(FoundWith(cs)))
<1>1. Things(FoundWith(cs)) \subseteq Rows["thing"]
  BY FoundRow DEF Things
<1>2. IsFiniteSet(Rows["thing"])
  BY DataAssumption DEF Table
<1> QED BY <1>1, <1>2, FS_Subset

BuilderInvariant == Fits(Now) /\ limit \in Nat /\ offset \in Nat /\ AnswersRight

LEMMA BuilderStarts == BuilderInit => BuilderInvariant
<1> SUFFICES ASSUME BuilderInit PROVE BuilderInvariant
  OBVIOUS
<1>1. limit \in Nat /\ offset \in Nat
  BY DEF BuilderInit, NoLimit
<1>2. AnswersRight
  BY DEF BuilderInit, NoAnswer, AnswersRight, OwnOnly, TwinsAttached, CountAgrees
<1>3. Fits(Now)
  <2>1. reference = [T \in Referring |-> "none"] /\ tables = {"thing"}
    BY DEF BuilderInit, Referring
  <2>2. Reaches(Now, "thing")
    BY DEF Reaches, Referring
  <2> QED BY <2>1, <2>2 DEF Fits, Now, Referring
<1> QED BY <1>1, <1>2, <1>3 DEF BuilderInvariant

\* A call that executes nothing forgets the answer.
LEMMA NothingAnswered ==
    ASSUME Called PROVE AnswersRight'
<1>1. answer'.of = "nothing" /\ answer'.by = "none"
  BY DEF Called, NoAnswer
<1>2. OwnOnly'
  BY <1>1 DEF OwnOnly
<1>3. TwinsAttached'
  BY <1>1 DEF TwinsAttached
<1>4. CountAgrees'
  BY <1>1 DEF CountAgrees
<1> QED BY <1>2, <1>3, <1>4 DEF AnswersRight

LEMMA FitsStay ==
    ASSUME Fits(Now), UNCHANGED <<tables, joins, reference, distinct>> PROVE Fits(Now)'
<1>1. PICK c : c = Now
  OBVIOUS
<1>2. Now' = c
  BY <1>1 DEF Now
<1> QED BY <1>1, <1>2

\* A call that looks up names keeps every table joined.
LEMMA LookingUpFits ==
    ASSUME Fits(Now)
    PROVE  /\ \A n \in Name, fits \in BOOLEAN : AddConstraint(n, fits) => Fits(Now)'
           /\ \A n \in Name, dir \in {"ASC", "null"} : AddOrder(n, dir) => Fits(Now)'
           /\ \A p \in Pair, op \in {"=", "invalid"} :
                 AddConstraintWithProperty(p[1], p[2], op) => Fits(Now)'
<1>1. \A n \in Name : /\ Fits(Follows(n, Now))
                      /\ Reaches(Follows(n, Now), TableOfName(n))
  BY FollowsFits
<1>2. ASSUME NEW n \in Name, Becomes(Follows(n, Now), {n}) \/ Becomes(Follows(n, Now), {})
      PROVE  Fits(Now)'
  <2>1. PICK b : b = Follows(n, Now)
    OBVIOUS
  <2>2. Fits(b) /\ Reaches(b, TableOfName(n)) /\ (Becomes(b, {n}) \/ Becomes(b, {}))
    BY <1>1, <1>2, <2>1
  <2> QED BY <2>2, BecomesFits
<1>3. ASSUME NEW a \in Name, NEW b \in Name,
             Becomes(Follows(b, Follows(a, Now)), {a, b})
                \/ Becomes(Follows(b, Follows(a, Now)), {})
                \/ Becomes(Follows(a, Now), {})
      PROVE  Fits(Now)'
  <2>1. PICK f : f = Follows(a, Now)
    OBVIOUS
  <2>2. Fits(f) /\ Reaches(f, TableOfName(a))
    BY <1>1, <2>1
  <2>3. PICK g : g = Follows(b, f)
    OBVIOUS
  <2>4. Fits(g) /\ Reaches(g, TableOfName(b)) /\ Reaches(g, TableOfName(a))
    BY <2>2, <2>3, FollowsFits
  <2>5. Becomes(g, {a, b}) \/ Becomes(g, {}) \/ Becomes(f, {})
    BY <1>3, <2>1, <2>3
  <2> QED BY <2>2, <2>4, <2>5, BecomesFits
<1>4. ASSUME NEW n \in Name, NEW fits \in BOOLEAN, AddConstraint(n, fits) PROVE Fits(Now)'
  <2>1. Becomes(Follows(n, Now), {n}) \/ Becomes(Follows(n, Now), {})
    BY <1>4 DEF AddConstraint
  <2> QED BY <1>2, <2>1
<1>5. ASSUME NEW n \in Name, NEW dir \in {"ASC", "null"}, AddOrder(n, dir) PROVE Fits(Now)'
  <2>1. Becomes(Follows(n, Now), {n}) \/ Becomes(Follows(n, Now), {})
    BY <1>5 DEF AddOrder
  <2> QED BY <1>2, <2>1
<1>6. ASSUME NEW p \in Pair, NEW op \in {"=", "invalid"},
             AddConstraintWithProperty(p[1], p[2], op)
      PROVE  Fits(Now)'
  <2>1. PICK a \in Name, b \in Name : a = p[1] /\ b = p[2]
    BY NameAssumption
  <2>2. AddConstraintWithProperty(a, b, op)
    BY <1>6, <2>1
  <2>3. \/ Becomes(Follows(b, Follows(a, Now)), {a, b})
        \/ Becomes(Follows(b, Follows(a, Now)), {})
        \/ Becomes(Follows(a, Now), {})
    BY <2>2 DEF AddConstraintWithProperty
  <2> QED BY <1>3, <2>3
<1> QED BY <1>4, <1>5, <1>6
-----------------------------------------------------------------------------
\* A plain user is answered with himself.
LEMMA AnswerOwn ==
    ASSUME NEW what, NEW things \in SUBSET Things(FoundWith(Restricted)), NEW number,
           Answered(what, things, number)
    PROVE  OwnOnly'
<1>1. answer' = [of |-> what, by |-> IF class = "midgard_user" THEN user ELSE "none",
                 things |-> things, number |-> number]
  BY DEF Answered
<1>2. PICK by : by = IF class = "midgard_user" THEN user ELSE "none"
  OBVIOUS
<1>3. answer'.by = by /\ answer'.things = things
  BY <1>1, <1>2
<1>4. ASSUME by # "none", NEW t \in things PROVE t.guid = by
  <2>1. class = "midgard_user" /\ user # "none" /\ by = user
    BY <1>2, <1>4
  <2>2. PICK r \in FoundWith(Restricted) : t = r.thing
    BY DEF Things
  <2> QED BY <2>1, <2>2, FoundSelf
<1> QED BY <1>3, <1>4 DEF OwnOnly

\* What execute hands out comes once each, if no attachment is joined.
LEMMA ExecuteAnswers ==
    ASSUME BuilderInvariant, Execute PROVE AnswersRight'
<1>0. PICK found : found = Bounded(RowsOf(Things(FoundWith(Restricted)), FoundWith(Restricted)))
  OBVIOUS
<1>1. PICK S \in SUBSET Things(FoundWith(Restricted)) :
         /\ Cardinality(S) =< found /\ found =< RowsOf(S, FoundWith(Restricted))
         /\ Answered("objects", S, found)
  BY <1>0 DEF Execute, FoundWith
<1>2. answer'.of = "objects" /\ answer'.things = S /\ answer'.number = found
  BY <1>1 DEF Answered
<1>3. OwnOnly'
  BY <1>1, AnswerOwn
<1>4. TwinsAttached'
  <2>1. SUFFICES ASSUME reference["blobs"] = "none" PROVE found = Cardinality(S)
    <3>1. reference' = reference
      BY DEF Execute
    <3>2. ASSUME found = Cardinality(S) \/ reference["blobs"] # "none" PROVE TwinsAttached'
      BY <1>2, <3>1, <3>2 DEF TwinsAttached
    <3> QED BY <3>2
  <2>2. ASSUME NEW Q \in SUBSET Things(FoundWith(Restricted))
        PROVE  RowsOf(Q, FoundWith(Restricted)) = Cardinality(Q) /\ Cardinality(Q) \in Nat
    <3>0. IsFiniteSet(Q) /\ Cardinality(Q) \in Nat
      BY ThingsFinite, FS_Subset, FS_CardinalityType
    <3>1. CASE distinct
      BY <3>0, <3>1 DEF RowsOf
    <3>2. CASE ~distinct
      <4>1. Fits(Now)
        BY DEF BuilderInvariant
      <4>2. reference["record_extension"] = "none"
        BY <3>2, <4>1 DEF Fits, Now
      <4>3. \A T \in Referring : T \notin tables
        <5>1. \A T \in tables : T \in Referring => reference[T] # "none"
          BY <4>1 DEF Fits, Now, Reaches
        <5> QED BY <2>1, <4>2, <5>1 DEF Referring
      <4>4. \A r, s \in FoundWith(Restricted) : r.thing = s.thing => r = s
        BY <4>1, <4>3, FoundDiffer
      <4>5. Cardinality({r \in FoundWith(Restricted) : r.thing \in Q}) = Cardinality(Q)
        BY <3>0, <4>4, AsManyRows
      <4> QED BY <3>0, <3>2, <4>5 DEF RowsOf
    <3> QED BY <3>1, <3>2
  <2>3. found \in Nat
    <3>1. PICK n \in Nat : n = RowsOf(Things(FoundWith(Restricted)), FoundWith(Restricted))
      BY <2>2
    <3>2. limit \in Nat /\ offset \in Nat /\ found = Bounded(n)
      BY <1>0, <3>1 DEF BuilderInvariant
    <3> QED BY <3>1, <3>2 DEF Bounded
  <2>4. Cardinality(S) \in Nat /\ RowsOf(S, FoundWith(Restricted)) = Cardinality(S)
    BY <2>2
  <2> QED BY <1>1, <2>3, <2>4
<1>5. CountAgrees'
  BY <1>2 DEF CountAgrees
<1> QED BY <1>3, <1>4, <1>5 DEF AnswersRight

\* A set has two members if two of its members differ.
LEMMA TwoMembers ==
    ASSUME NEW S, IsFiniteSet(S), NEW a \in S, NEW b \in S, a # b
    PROVE  Cardinality(S) > 1
<1>1. Cardinality(S) \in Nat
  BY FS_CardinalityType
<1>2. Cardinality(S) # 0
  BY FS_EmptySet
<1>3. Cardinality(S) # 1
  <2>1. ASSUME NEW x, S = {x} PROVE FALSE
    BY <2>1
  <2> QED BY <2>1, FS_Singleton
<1> QED BY <1>1, <1>2, <1>3

\* What count answers is the number of objects, but for offsets, a limit of 0
\* and objects with several rows.
LEMMA CountAnswers ==
    ASSUME BuilderInvariant, Count PROVE AnswersRight'
<1>1. PICK R : R = FoundWith(Restricted)
  OBVIOUS
<1>2. /\ Answered("count", {}, IF Bounded(1) = 1 THEN Cardinality(R) ELSE 0)
      /\ constraints' = Restricted
      /\ UNCHANGED <<class, tables, reference, joins, groups, deletedToo, orders, limit, offset>>
  BY <1>1 DEF Count, FoundWith, KeepRestricted
<1>3. answer'.of = "count" /\ answer'.number = IF Bounded(1) = 1 THEN Cardinality(R) ELSE 0
  BY <1>2 DEF Answered
<1>4. OwnOnly'
  BY <1>2, AnswerOwn
<1>5. TwinsAttached'
  BY <1>3 DEF TwinsAttached
<1>6. FoundNow' = R
  BY <1>1, <1>2, FoundStays
<1>7. \/ answer'.number = Cardinality(Things(R))
      \/ offset # 0 \/ limit = 0
      \/ \E t \in Things(R), T \in Referring :
             Cardinality({r[T] : r \in {s \in R : s.thing = t}}) > 1
  <2>1. SUFFICES ASSUME offset = 0, limit # 0,
                        \A t \in Things(R), T \in Referring :
                           ~(Cardinality({r[T] : r \in {s \in R : s.thing = t}}) > 1)
                 PROVE  answer'.number = Cardinality(Things(R))
    OBVIOUS
  <2>2. Bounded(1) = 1
    <3>1. limit \in Nat
      BY DEF BuilderInvariant
    <3> QED BY <2>1, <3>1 DEF Bounded
  <2>3. ASSUME NEW r \in R, NEW s \in R, r.thing = s.thing, r # s PROVE FALSE
    <3>1. PICK T \in Referring : T \in tables /\ r[T] # s[T]
      BY <1>1, <2>3, FoundDiffer DEF BuilderInvariant
    <3>2. PICK C : C = {q[T] : q \in {p \in R : p.thing = r.thing}}
      OBVIOUS
    <3>3. r[T] \in C /\ s[T] \in C
      BY <2>3, <3>2
    <3>4. IsFiniteSet(C)
      <4>1. C \subseteq Rows[T]
        <5>1. From(T) = Rows[T]
          BY <3>1 DEF From
        <5>2. \A q \in R : q[T] \in From(T)
          BY <1>1, FoundRow DEF Referring
        <5> QED BY <3>2, <5>1, <5>2
      <4>2. IsFiniteSet(Rows[T])
        BY DataAssumption DEF Table, Referring
      <4> QED BY <4>1, <4>2, FS_Subset
    <3>5. Cardinality(C) > 1
      BY <3>1, <3>3, <3>4, TwoMembers
    <3>6. r.thing \in Things(R)
      BY DEF Things
    <3> QED BY <2>1, <3>2, <3>5, <3>6
  <2>4. Cardinality({r \in R : r.thing \in Things(R)}) = Cardinality(Things(R))
    BY <1>1, <2>3, ThingsFinite, AsManyRows
  <2>5. {r \in R : r.thing \in Things(R)} = R
    BY DEF Things
  <2> QED BY <1>3, <2>2, <2>4, <2>5
<1>8. DOMAIN reference' = Referring
  BY <1>2 DEF BuilderInvariant, Fits, Now
<1>9. CountAgrees'
  <2>1. CountAgrees' <=>
           (answer'.of = "count" =>
               \/ answer'.number = Cardinality(Things(FoundNow'))
               \/ offset' # 0 \/ limit' = 0
               \/ \E t \in Things(FoundNow'), T \in DOMAIN reference' :
                      Cardinality({r[T] : r \in {s \in FoundNow' : s.thing = t}}) > 1)
    BY DEF CountAgrees, FoundNow
  <2> QED BY <1>2, <1>6, <1>7, <1>8, <2>1
<1> QED BY <1>4, <1>5, <1>9 DEF AnswersRight
LEMMA BuilderStepKeeps ==
    BuilderInvariant /\ BuilderNext => BuilderInvariant'
<1> SUFFICES ASSUME BuilderInvariant, BuilderNext PROVE BuilderInvariant'
  OBVIOUS
<1> USE DEF BuilderInvariant
<1>1. Fits(Now) /\ limit \in Nat /\ offset \in Nat
  OBVIOUS
<1>2. CASE RefuseOperator
  BY <1>1, <1>2, NothingAnswered, FitsStay DEF RefuseOperator, query
<1>3. CASE \E n \in Name, fits \in BOOLEAN : AddConstraint(n, fits)
  BY <1>1, <1>3, NothingAnswered, LookingUpFits DEF AddConstraint
<1>4. CASE \E p \in Pair, op \in {"=", "invalid"} : AddConstraintWithProperty(p[1], p[2], op)
  BY <1>1, <1>4, NothingAnswered, LookingUpFits DEF AddConstraintWithProperty
<1>5. CASE \E n \in Name, dir \in {"ASC", "null"} : AddOrder(n, dir)
  BY <1>1, <1>5, NothingAnswered, LookingUpFits DEF AddOrder
<1>6. CASE \E type \in {"AND", "OR"} : BeginGroup(type)
  BY <1>1, <1>6, NothingAnswered, FitsStay DEF BeginGroup
<1>7. CASE EndGroup
  BY <1>1, <1>7, NothingAnswered, FitsStay DEF EndGroup
<1>8. CASE \E l \in Limits \cup {NoLimit}, o \in {0, 1} : SetBounds(l, o)
  <2>1. PICK l \in Limits \cup {NoLimit}, o \in {0, 1} : SetBounds(l, o)
    BY <1>8
  <2>2. l \in Nat /\ o \in Nat
    BY NameAssumption DEF NoLimit
  <2> QED BY <1>1, <2>1, <2>2, NothingAnswered, FitsStay DEF SetBounds
<1>9. CASE IncludeDeleted
  BY <1>1, <1>9, NothingAnswered, FitsStay DEF IncludeDeleted
<1>10. CASE Refuse
  BY <1>1, <1>10, NothingAnswered, FitsStay DEF Refuse, query
<1>11. CASE Execute
  <2>1. UNCHANGED <<tables, joins, reference, distinct, limit, offset>>
    BY <1>11 DEF Execute
  <2> QED BY <1>1, <1>11, <2>1, ExecuteAnswers, FitsStay
<1>12. CASE Count
  <2>1. UNCHANGED <<tables, joins, reference, distinct, limit, offset>>
    BY <1>12 DEF Count
  <2> QED BY <1>1, <1>12, <2>1, CountAnswers, FitsStay
<1>13. CASE \E r \in Rows["thing"] : LogIn(r.guid)
  BY <1>1, <1>13, NothingAnswered, FitsStay DEF LogIn, query
<1> QED BY <1>2, <1>3, <1>4, <1>5, <1>6, <1>7, <1>8, <1>9, <1>10, <1>11, <1>12, <1>13
        DEF BuilderNext

\* Nothing changes while the executor is used.
LEMMA BuilderRests ==
    ASSUME BuilderInvariant, UNCHANGED builderVars PROVE BuilderInvariant'
<1>1. /\ UNCHANGED <<tables, joins, reference, distinct, limit, offset, answer, constraints>>
      /\ UNCHANGED <<class, groups, deletedToo, orders>>
  BY DEF builderVars, query
<1>2. Fits(Now)'
  BY <1>1, FitsStay DEF BuilderInvariant
<1>3. OwnOnly'
  BY <1>1 DEF OwnOnly, BuilderInvariant, AnswersRight
<1>4. TwinsAttached'
  BY <1>1 DEF TwinsAttached, BuilderInvariant, AnswersRight
<1>5. FoundNow' = FoundNow
  <2>1. FoundNow = FoundIn(constraints, tables, reference, joins, groups, class, deletedToo,
                        orders, limit, offset)
    BY FoundWithIn DEF FoundNow, FoundWith
  <2> QED BY <1>1, <2>1, FoundLater
<1>6. CountAgrees'
  <2>1. CountAgrees' <=>
           (answer'.of = "count" =>
               \/ answer'.number = Cardinality(Things(FoundNow'))
               \/ offset' # 0 \/ limit' = 0
               \/ \E t \in Things(FoundNow'), T \in DOMAIN reference' :
                      Cardinality({r[T] : r \in {s \in FoundNow' : s.thing = t}}) > 1)
    BY DEF CountAgrees, FoundNow
  <2>2. CountAgrees <=>
           (answer.of = "count" =>
               \/ answer.number = Cardinality(Things(FoundNow))
               \/ offset # 0 \/ limit = 0
               \/ \E t \in Things(FoundNow), T \in DOMAIN reference :
                      Cardinality({r[T] : r \in {s \in FoundNow : s.thing = t}}) > 1)
    BY DEF CountAgrees, FoundNow
  <2>3. CountAgrees
    BY DEF BuilderInvariant, AnswersRight
  <2> QED BY <1>1, <1>5, <2>1, <2>2, <2>3
<1> QED BY <1>1, <1>2, <1>3, <1>4, <1>6 DEF BuilderInvariant, AnswersRight
-----------------------------------------------------------------------------
(* The select of an executor: the steps that build it                      *)

Draft ==
    [tableid : Nat, alias : [Storage \cup {"own"} -> Nat], columns : SUBSET Target,
     targets : Seq(Target)]

LEMMA FreshIs ==
    ASSUME NEW b \in Draft
    PROVE  /\ Fresh(b) \in Draft /\ Fresh(b).tableid = b.tableid + 1
           /\ Fresh(b).alias = b.alias /\ Fresh(b).columns = b.columns
           /\ Fresh(b).targets = b.targets
BY DEF Fresh, Draft

LEMMA TargetedIs ==
    ASSUME NEW b \in Draft, NEW whose \in Storage \cup {"own", "related", "misnamed"}, NEW number \in Nat
    PROVE  LET t == [as |-> number, of |-> whose, nth |-> Len(b.targets) + 1]
           IN  /\ t \in Target
               /\ Targeted(b, whose, number) \in Draft
               /\ Targeted(b, whose, number).tableid = b.tableid
               /\ Targeted(b, whose, number).alias = b.alias
               /\ Targeted(b, whose, number).columns = b.columns
               /\ Targeted(b, whose, number).targets = Append(b.targets, t)
<1>1. PICK t : t = [as |-> number, of |-> whose, nth |-> Len(b.targets) + 1]
  OBVIOUS
<1>2. b.targets \in Seq(Target) /\ Len(b.targets) \in Nat
  BY DEF Draft
<1>3. t \in Target
  BY <1>1, <1>2 DEF Target
<1>4. Append(b.targets, t) \in Seq(Target)
  BY <1>2, <1>3, AppendProperties
<1>5. Targeted(b, whose, number) = [b EXCEPT !.targets = Append(b.targets, t)]
  BY <1>1 DEF Targeted
<1>6. PICK ts \in Seq(Target) : ts = Append(b.targets, t)
  BY <1>4
<1>7. Targeted(b, whose, number) = [b EXCEPT !.targets = ts]
  BY <1>5, <1>6
<1>8. /\ [b EXCEPT !.targets = ts] \in Draft
      /\ [b EXCEPT !.targets = ts].tableid = b.tableid
      /\ [b EXCEPT !.targets = ts].alias = b.alias
      /\ [b EXCEPT !.targets = ts].columns = b.columns
      /\ [b EXCEPT !.targets = ts].targets = ts
  BY DEF Draft
<1> QED BY <1>1, <1>3, <1>6, <1>7, <1>8

LEMMA ColumnedIs ==
    ASSUME NEW b \in Draft, NEW whose \in Storage \cup {"own", "related", "misnamed"}, NEW number \in Nat,
           NEW nth \in Nat
    PROVE  /\ Columned(b, number, whose, nth) \in Draft
           /\ Columned(b, number, whose, nth).tableid = b.tableid
           /\ Columned(b, number, whose, nth).alias = b.alias
           /\ Columned(b, number, whose, nth).targets = b.targets
<1>1. PICK c : c = [as |-> number, of |-> whose, nth |-> nth]
  OBVIOUS
<1>2. c \in Target
  BY <1>1 DEF Target
<1>3. Columned(b, number, whose, nth) = [b EXCEPT !.columns = b.columns \cup {c}]
  BY <1>1 DEF Columned
<1>4. PICK cs \in SUBSET Target : cs = b.columns \cup {c}
  BY <1>2 DEF Draft
<1>5. Columned(b, number, whose, nth) = [b EXCEPT !.columns = cs]
  BY <1>3, <1>4
<1>6. /\ [b EXCEPT !.columns = cs] \in Draft
      /\ [b EXCEPT !.columns = cs].tableid = b.tableid
      /\ [b EXCEPT !.columns = cs].alias = b.alias
      /\ [b EXCEPT !.columns = cs].columns = cs
      /\ [b EXCEPT !.columns = cs].targets = b.targets
  BY DEF Draft
<1> QED BY <1>1, <1>4, <1>5, <1>6

LEMMA ColumnedAdds ==
    ASSUME NEW b \in Draft, NEW whose \in Storage \cup {"own", "related", "misnamed"}, NEW number \in Nat,
           NEW nth \in Nat
    PROVE  Columned(b, number, whose, nth).columns =
               b.columns \cup {[as |-> number, of |-> whose, nth |-> nth]}
<1>1. PICK c : c = [as |-> number, of |-> whose, nth |-> nth]
  OBVIOUS
<1>2. c \in Target
  BY <1>1 DEF Target
<1>3. Columned(b, number, whose, nth) = [b EXCEPT !.columns = b.columns \cup {c}]
  BY <1>1 DEF Columned
<1>4. PICK cs \in SUBSET Target : cs = b.columns \cup {c}
  BY <1>2 DEF Draft
<1>5. Columned(b, number, whose, nth) = [b EXCEPT !.columns = cs]
  BY <1>3, <1>4
<1>6. /\ [b EXCEPT !.columns = cs] \in Draft
      /\ [b EXCEPT !.columns = cs].tableid = b.tableid
      /\ [b EXCEPT !.columns = cs].alias = b.alias
      /\ [b EXCEPT !.columns = cs].columns = cs
      /\ [b EXCEPT !.columns = cs].targets = b.targets
  BY DEF Draft
<1> QED BY <1>1, <1>4, <1>5, <1>6

LEMMA AliasedIs ==
    ASSUME NEW b \in Draft, NEW place \in Place
    PROVE  /\ Aliased(b, place) \in Draft
           /\ Aliased(b, place).columns = b.columns
           /\ Aliased(b, place).targets = b.targets
           /\ place = "main" => Aliased(b, place) = b
           /\ place = "own" =>
                 /\ Aliased(b, place).tableid = b.tableid
                 /\ Aliased(b, place).alias = [b.alias EXCEPT !["own"] = b.tableid]
           /\ place \in Storage =>
                 IF b.alias[place] # 0 THEN Aliased(b, place) = b
                 ELSE /\ Aliased(b, place).tableid = b.tableid + 1
                      /\ Aliased(b, place).alias =
                            [b.alias EXCEPT ![place] = b.tableid + 1]
<1>1. "own" \notin Storage /\ "main" \notin Storage
  BY SelectAssumption
<1>2. ASSUME NEW d \in Draft, NEW p \in Storage \cup {"own"}, NEW n \in Nat
      PROVE  /\ [d EXCEPT !.alias[p] = n] \in Draft
             /\ [d EXCEPT !.alias[p] = n].tableid = d.tableid
             /\ [d EXCEPT !.alias[p] = n].columns = d.columns
             /\ [d EXCEPT !.alias[p] = n].targets = d.targets
             /\ [d EXCEPT !.alias[p] = n].alias = [d.alias EXCEPT ![p] = n]
  <2>1. PICK al \in [Storage \cup {"own"} -> Nat] : al = [d.alias EXCEPT ![p] = n]
    BY <1>2 DEF Draft
  <2>2. [d EXCEPT !.alias[p] = n] = [d EXCEPT !.alias = al]
    BY <2>1 DEF Draft
  <2>3. /\ [d EXCEPT !.alias = al] \in Draft
        /\ [d EXCEPT !.alias = al].tableid = d.tableid
        /\ [d EXCEPT !.alias = al].columns = d.columns
        /\ [d EXCEPT !.alias = al].targets = d.targets
        /\ [d EXCEPT !.alias = al].alias = al
    BY DEF Draft
  <2> QED BY <2>1, <2>2, <2>3
<1>3. CASE place = "main"
  BY <1>1, <1>3 DEF Aliased
<1>4. CASE place = "own"
  <2>1. Aliased(b, place) = [b EXCEPT !.alias["own"] = b.tableid] /\ b.tableid \in Nat
    BY <1>4 DEF Aliased, Draft
  <2>2. PICK n \in Nat : n = b.tableid
    BY <2>1
  <2>3. PICK c : c = [b EXCEPT !.alias["own"] = n]
    OBVIOUS
  <2>4. /\ c \in Draft /\ c.tableid = n /\ c.columns = b.columns
        /\ c.targets = b.targets /\ c.alias = [b.alias EXCEPT !["own"] = n]
    BY <1>2, <2>2, <2>3
  <2>5. Aliased(b, place) = c
    BY <2>1, <2>2, <2>3
  <2> QED BY <1>1, <1>4, <2>2, <2>4, <2>5
<1>5. CASE place \in Storage
  <2>1. CASE b.alias[place] # 0
    BY <1>1, <1>5, <2>1 DEF Aliased
  <2>2. CASE b.alias[place] = 0
    <3>1. PICK d : d = Fresh(b)
      OBVIOUS
    <3>2. d \in Draft /\ d.tableid = b.tableid + 1 /\ d.alias = b.alias
          /\ d.columns = b.columns /\ d.targets = b.targets
      BY <3>1, FreshIs
    <3>3. b.tableid + 1 \in Nat
      BY DEF Draft
    <3>4. PICK n \in Nat : n = b.tableid + 1
      BY <3>3
    <3>5. Aliased(b, place) = [d EXCEPT !.alias[place] = n]
      BY <1>1, <1>5, <2>2, <3>1, <3>4 DEF Aliased
    <3>6. /\ [d EXCEPT !.alias[place] = n] \in Draft
          /\ [d EXCEPT !.alias[place] = n].tableid = d.tableid
          /\ [d EXCEPT !.alias[place] = n].columns = d.columns
          /\ [d EXCEPT !.alias[place] = n].targets = d.targets
          /\ [d EXCEPT !.alias[place] = n].alias = [d.alias EXCEPT ![place] = n]
      BY <1>2, <1>5, <3>2
    <3> QED BY <1>1, <1>5, <2>2, <3>2, <3>4, <3>5, <3>6
  <2> QED BY <2>1, <2>2
<1> QED BY <1>3, <1>4, <1>5 DEF Place
-----------------------------------------------------------------------------
\* The aliases that storages have got from this executor, now.
OwnAliases(al, most) ==
    /\ al \in [Storage \cup {"own"} -> Nat] /\ most \in Nat
    /\ \A s \in Storage \ borrowed : al[s] =< most
    /\ \A s, u \in Storage \ borrowed : al[s] = al[u] /\ al[s] # 0 => s = u

\* The same of a draft; the number of its main table is taken.
Apart(b) ==
    /\ b \in Draft /\ b.tableid >= tableid + 1 /\ Len(b.targets) >= 1
    /\ OwnAliases(b.alias, b.tableid)
    /\ \A s \in Storage \ borrowed : b.alias[s] # tableid + 1

LEMMA AliasedKept ==
    ASSUME tableid \in Nat, NEW b, Apart(b), NEW place \in Place
    PROVE  Apart(Aliased(b, place))
<1>1. PICK c : c = Aliased(b, place)
  OBVIOUS
<1>2. b \in Draft /\ c \in Draft /\ b.tableid \in Nat /\ Len(c.targets) >= 1
  BY <1>1, AliasedIs DEF Apart, Draft
<1>3. "own" \notin Storage
  BY SelectAssumption
<1>4. CASE place = "main" \/ (place \in Storage /\ b.alias[place] # 0)
  BY <1>1, <1>2, <1>4, AliasedIs
<1>5. CASE place = "own"
  <2>1. c.tableid = b.tableid /\ \A s \in Storage : c.alias[s] = b.alias[s]
    <3>1. c.tableid = b.tableid /\ c.alias = [b.alias EXCEPT !["own"] = b.tableid]
      BY <1>1, <1>2, <1>5, AliasedIs
    <3>2. b.alias \in [Storage \cup {"own"} -> Nat]
      BY <1>2 DEF Draft
    <3> QED BY <1>3, <3>1, <3>2
  <2> QED BY <1>1, <1>2, <2>1 DEF Apart, OwnAliases, Draft
<1>6. CASE place \in Storage /\ b.alias[place] = 0
  <2>1. /\ c.tableid = b.tableid + 1 /\ c.alias[place] = b.tableid + 1
        /\ \A s \in Storage \ {place} : c.alias[s] = b.alias[s]
    <3>1. /\ c.tableid = b.tableid + 1
          /\ c.alias = [b.alias EXCEPT ![place] = b.tableid + 1]
      BY <1>1, <1>2, <1>6, AliasedIs
    <3>2. b.alias \in [Storage \cup {"own"} -> Nat]
      BY <1>2 DEF Draft
    <3> QED BY <1>6, <3>1, <3>2
  <2>2. b.tableid >= tableid + 1 /\ OwnAliases(b.alias, b.tableid)
        /\ \A s \in Storage \ borrowed : b.alias[s] # tableid + 1
    BY DEF Apart
  <2>3. c.alias \in [Storage \cup {"own"} -> Nat] /\ c.tableid \in Nat
    BY <1>2 DEF Draft
  <2>4. \A s \in Storage \ borrowed : s # place => c.alias[s] =< b.tableid
    BY <2>1, <2>2 DEF OwnAliases
  <2>5. \A s \in Storage \ borrowed : c.alias[s] =< c.tableid
    BY <1>2, <2>1, <2>3, <2>4
  <2>6. ASSUME NEW s \in Storage \ borrowed, NEW u \in Storage \ borrowed,
               c.alias[s] = c.alias[u], c.alias[s] # 0
        PROVE  s = u
    <3>1. CASE s # place /\ u # place
      BY <2>1, <2>2, <2>6, <3>1 DEF OwnAliases
    <3>2. CASE s = place \/ u = place
      <4>1. c.alias[s] = b.tableid + 1 /\ c.alias[u] = b.tableid + 1
        BY <2>1, <2>6, <3>2
      <4>2. ~(b.tableid + 1 =< b.tableid)
        BY <1>2
      <4> QED BY <2>4, <4>1, <4>2
    <3> QED BY <3>1, <3>2
  <2>7. \A s \in Storage \ borrowed : c.alias[s] # tableid + 1
    BY <1>2, <2>1, <2>2
  <2>8. c.tableid >= tableid + 1
    BY <1>2, <2>1, <2>2
  <2> QED BY <1>1, <1>2, <2>3, <2>5, <2>6, <2>7, <2>8 DEF Apart, OwnAliases
<1> QED BY <1>4, <1>5, <1>6 DEF Place

\* Only the counter and aliases matter.
LEMMA KeptStays ==
    ASSUME tableid \in Nat, NEW b, Apart(b), NEW c \in Draft, c.alias = b.alias,
           c.tableid = b.tableid \/ c.tableid = b.tableid + 1, Len(c.targets) >= 1
    PROVE  Apart(c)
<1>1. b.tableid \in Nat /\ c.tableid \in Nat /\ c.tableid >= b.tableid
  BY DEF Apart, Draft
<1>2. c.tableid >= tableid + 1
  BY <1>1 DEF Apart
<1>3. \A s \in Storage \ borrowed : b.alias[s] \in Nat /\ b.alias[s] =< b.tableid
  BY DEF Apart, OwnAliases
<1>4. \A s \in Storage \ borrowed : c.alias[s] =< c.tableid
  BY <1>1, <1>3
<1> QED BY <1>1, <1>2, <1>4 DEF Apart, OwnAliases
-----------------------------------------------------------------------------
TargetRight(b, t, ours) ==
    /\ t.as # 0 /\ t.as =< b.tableid
    /\ t.of = "own" => t.as = tableid + 1
    /\ t.of \in Storage => t.of \in ours /\ t.as = b.alias[t.of]
    /\ t.of = "related" => \A s \in ours : b.alias[s] # t.as
    /\ t.of # "misnamed"

\* The target that a column is to lead to.
LeadsTo(t, c) == t.as = c.as /\ t.nth = c.nth /\ t.of = "related"

ColumnRight(b, c, ours) ==
    \/ c.of = "own" /\ c.as = tableid + 1
    \/ c.of \in ours /\ c.as = b.alias[c.of] /\ c.as # 0
    \/ /\ c.of \in {"related", "misnamed"}
       /\ \E i \in 1 .. Len(b.targets) : LeadsTo(b.targets[i], c)

TargetsRight(b, ours) ==
    /\ Len(b.targets) >= 1 /\ b.targets[1].as = tableid + 1 /\ b.targets[1].of = "own"
    /\ \A i \in 1 .. Len(b.targets) : /\ b.targets[i].nth = i
                                      /\ TargetRight(b, b.targets[i], ours)
    /\ \A i, j \in 1 .. Len(b.targets) : b.targets[i].as = b.targets[j].as => i = j

\* All targets have aliases of their own, all columns those of their targets.
\* "ours" are the storages of the query.
Sound(b, ours) ==
    /\ Apart(b)
    /\ TargetsRight(b, ours)
    /\ \A c \in b.columns : ColumnRight(b, c, ours)

LEMMA AliasedSound ==
    ASSUME tableid \in Nat, NEW ours \in SUBSET (Storage \ borrowed),
           NEW b, Sound(b, ours), NEW place \in ours \cup {"main", "own"}
    PROVE  /\ Sound(Aliased(b, place), ours)
           /\ place \in ours => Aliased(b, place).alias[place] # 0
<1>1. PICK c : c = Aliased(b, place)
  OBVIOUS
<1>2. place \in Place /\ "own" \notin Storage /\ "main" \notin Storage
  BY SelectAssumption DEF Place
<1>3. Apart(b) /\ b \in Draft /\ b.tableid \in Nat /\ Apart(c)
  BY <1>1, <1>2, AliasedKept DEF Sound, Apart, Draft
<1>4. c.targets = b.targets /\ c.columns = b.columns
  BY <1>1, <1>2, <1>3, AliasedIs
<1>5. CASE c = b /\ (place \in ours => b.alias[place] # 0)
  BY <1>1, <1>5
<1>6. CASE place = "own"
  <2>1. c.tableid = b.tableid
    BY <1>1, <1>2, <1>3, <1>6, AliasedIs
  <2>2. \A s \in ours : c.alias[s] = b.alias[s]
    <3>1. c.alias = [b.alias EXCEPT !["own"] = b.tableid]
      BY <1>1, <1>2, <1>3, <1>6, AliasedIs
    <3>2. b.alias \in [Storage \cup {"own"} -> Nat]
      BY <1>3 DEF Draft
    <3> QED BY <1>2, <3>1, <3>2
  <2>3. TargetsRight(c, ours)
    BY <1>4, <2>1, <2>2 DEF Sound, TargetsRight, TargetRight
  <2>4. \A d \in c.columns : ColumnRight(c, d, ours)
    BY <1>4, <2>2 DEF Sound, ColumnRight
  <2> QED BY <1>1, <1>2, <1>3, <1>6, <2>3, <2>4 DEF Sound
<1>7. CASE place \in ours /\ b.alias[place] = 0
  <2>1. c.tableid = b.tableid + 1 /\ c.alias[place] = b.tableid + 1
        /\ \A s \in ours \ {place} : c.alias[s] = b.alias[s]
    <3>1. /\ c.tableid = b.tableid + 1
          /\ c.alias = [b.alias EXCEPT ![place] = b.tableid + 1]
      BY <1>1, <1>2, <1>3, <1>7, AliasedIs
    <3>2. b.alias \in [Storage \cup {"own"} -> Nat]
      BY <1>3 DEF Draft
    <3> QED BY <1>7, <3>1, <3>2
  <2>2. b.targets \in Seq(Target) /\ TargetsRight(b, ours)
    BY <1>3 DEF Draft, Sound
  <2>3. ASSUME NEW i \in 1 .. Len(b.targets) PROVE TargetRight(c, b.targets[i], ours)
    <3>1. PICK t \in Target : t = b.targets[i]
      BY <2>2, <2>3
    <3>2. TargetRight(b, t, ours) /\ t.as \in Nat
      BY <2>2, <3>1 DEF TargetsRight, Target
    <3>3. t.as =< c.tableid /\ t.as # c.alias[place]
      BY <1>3, <2>1, <3>2 DEF TargetRight
    <3>4. t.of \in Storage => t.of \in ours \ {place}
      BY <1>7, <3>2 DEF TargetRight
    <3>5. t.of = "related" => \A s \in ours : c.alias[s] # t.as
      BY <2>1, <3>2, <3>3 DEF TargetRight
    <3> QED BY <2>1, <3>1, <3>2, <3>3, <3>4, <3>5 DEF TargetRight
  <2>4. TargetsRight(c, ours)
    BY <1>4, <2>2, <2>3 DEF TargetsRight
  <2>5. ASSUME NEW d \in c.columns PROVE ColumnRight(c, d, ours)
    <3>1. ColumnRight(b, d, ours)
      BY <1>4, <2>5 DEF Sound
    <3> QED BY <1>4, <1>7, <2>1, <3>1 DEF ColumnRight
  <2>6. c.alias[place] # 0
    BY <1>3, <2>1
  <2> QED BY <1>1, <1>3, <2>4, <2>5, <2>6 DEF Sound
<1>8. place = "main" => c = b
  BY <1>1, <1>2, <1>3, AliasedIs
<1>9. place \in ours /\ b.alias[place] # 0 => c = b
  BY <1>1, <1>2, <1>3, AliasedIs
<1> QED BY <1>2, <1>5, <1>6, <1>7, <1>8, <1>9

LEMMA ColumnSound ==
    ASSUME tableid \in Nat, NEW ours \in SUBSET (Storage \ borrowed),
           NEW b, Sound(b, ours), NEW number \in Nat, NEW nth \in Nat,
           NEW whose \in Storage \cup {"own", "related", "misnamed"},
           ColumnRight(b, [as |-> number, of |-> whose, nth |-> nth], ours)
    PROVE  Sound(Columned(b, number, whose, nth), ours)
<1>1. PICK c : c = Columned(b, number, whose, nth)
  OBVIOUS
<1>2. PICK col : col = [as |-> number, of |-> whose, nth |-> nth]
  OBVIOUS
<1>3. Apart(b) /\ b \in Draft /\ TargetsRight(b, ours)
  BY DEF Sound, Apart
<1>4. /\ c \in Draft /\ c.tableid = b.tableid /\ c.alias = b.alias
      /\ c.columns = b.columns \cup {col} /\ c.targets = b.targets
  <2>1. /\ Columned(b, number, whose, nth) \in Draft
        /\ Columned(b, number, whose, nth).tableid = b.tableid
        /\ Columned(b, number, whose, nth).alias = b.alias
        /\ Columned(b, number, whose, nth).columns =
              b.columns \cup {[as |-> number, of |-> whose, nth |-> nth]}
        /\ Columned(b, number, whose, nth).targets = b.targets
    BY <1>3, ColumnedIs, ColumnedAdds
  <2> QED BY <1>1, <1>2, <2>1
<1>5. Apart(c)
  <2>1. Len(c.targets) >= 1
    BY <1>3, <1>4 DEF Apart
  <2> QED BY <1>3, <1>4, <2>1, KeptStays
<1>6. TargetsRight(c, ours)
  BY <1>3, <1>4 DEF TargetsRight, TargetRight
<1>7. ASSUME NEW d \in c.columns PROVE ColumnRight(c, d, ours)
  <2>1. ColumnRight(b, col, ours)
    BY <1>2
  <2>2. ColumnRight(b, d, ours)
    BY <1>4, <1>7, <2>1 DEF Sound
  <2> QED BY <1>4, <2>2 DEF ColumnRight
<1> QED BY <1>1, <1>5, <1>6, <1>7 DEF Sound

\* A target is added that has an alias of its own.
LEMMA TargetSound ==
    ASSUME tableid \in Nat, NEW ours \in SUBSET (Storage \ borrowed),
           NEW b, Sound(b, ours), NEW c \in Draft, c.alias = b.alias, c.columns = b.columns,
           c.tableid = b.tableid \/ c.tableid = b.tableid + 1,
           NEW t \in Target, c.targets = Append(b.targets, t), t.nth = Len(b.targets) + 1,
           TargetRight(c, t, ours),
           \A i \in 1 .. Len(b.targets) : b.targets[i].as # t.as
    PROVE  Sound(c, ours)
<1>1. Apart(b) /\ b \in Draft /\ b.tableid \in Nat /\ b.targets \in Seq(Target)
      /\ TargetsRight(b, ours)
  BY DEF Sound, Apart, Draft
<1>3. PICK n \in Nat : n = Len(b.targets)
  BY <1>1
<1>4. /\ Len(c.targets) = n + 1 /\ c.targets[n + 1] = t
      /\ \A i \in 1 .. n : c.targets[i] = b.targets[i]
  BY <1>1, <1>3, AppendProperties
<1>2. Apart(c)
  <2>1. Len(c.targets) >= 1
    BY <1>3, <1>4
  <2> QED BY <1>1, <2>1, KeptStays
<1>5. ASSUME NEW i \in 1 .. n PROVE b.targets[i].nth = i /\ TargetRight(c, b.targets[i], ours)
  <2>1. PICK u \in Target : u = b.targets[i]
    BY <1>1, <1>3
  <2>2. u.nth = i /\ TargetRight(b, u, ours) /\ u.as \in Nat
    BY <1>1, <1>3, <2>1 DEF TargetsRight, Target
  <2>3. u.as =< c.tableid
    BY <1>1, <2>2 DEF TargetRight
  <2> QED BY <2>1, <2>2, <2>3 DEF TargetRight
<1>6. \A i \in 1 .. n + 1 : i \in 1 .. n \/ i = n + 1
  BY <1>3
<1>7. \A i \in 1 .. n + 1 : c.targets[i].nth = i /\ TargetRight(c, c.targets[i], ours)
  BY <1>3, <1>4, <1>5, <1>6
<1>8. \A i, j \in 1 .. n + 1 : c.targets[i].as = c.targets[j].as => i = j
  BY <1>1, <1>3, <1>4, <1>6 DEF TargetsRight
<1>9. n >= 1 /\ b.targets[1].as = tableid + 1 /\ b.targets[1].of = "own"
  BY <1>1, <1>3 DEF TargetsRight
<1>10. TargetsRight(c, ours)
  <2>1. n + 1 >= 1 /\ c.targets[1] = b.targets[1]
    BY <1>3, <1>4, <1>9
  <2> QED BY <1>4, <1>7, <1>8, <1>9, <2>1 DEF TargetsRight
<1>11. ASSUME NEW d \in c.columns PROVE ColumnRight(c, d, ours)
  <2>1. ColumnRight(b, d, ours)
    BY <1>11 DEF Sound
  <2>2. (\E i \in 1 .. n : LeadsTo(b.targets[i], d)) => \E i \in 1 .. n + 1 : LeadsTo(c.targets[i], d)
    BY <1>3, <1>4
  <2> QED BY <1>3, <1>4, <2>1, <2>2 DEF ColumnRight
<1> QED BY <1>2, <1>10, <1>11 DEF Sound
-----------------------------------------------------------------------------
\* The storages that are targets.
Whom(b) == {s \in Storage : \E i \in 1 .. Len(b.targets) : b.targets[i].of = s}

LEMMA AliasInIs ==
    ASSUME NEW b \in Draft, Len(b.targets) >= 1, NEW place \in Place
    PROVE  AliasIn(b, place) \in Nat /\ Whose(place) \in Storage \cup {"own", "related", "misnamed"}
<1>1. "main" \notin Storage
  BY SelectAssumption
<1>2. b.targets \in Seq(Target) /\ Len(b.targets) \in Nat
  BY DEF Draft
<1>3. b.targets[1] \in Target
  BY <1>2
<1>4. b.targets[1].as \in Nat
  BY <1>3 DEF Target
<1>5. place # "main" => b.alias[place] \in Nat
  BY DEF Draft, Place
<1> QED BY <1>1, <1>4, <1>5 DEF AliasIn, Whose, Place

\* The draft with the target that a related row is.
LEMMA RelatedIs ==
    ASSUME NEW b \in Draft
    PROVE  LET d == Targeted(Fresh(b), "related", b.tableid + 1)
               t == [as |-> b.tableid + 1, of |-> "related", nth |-> Len(b.targets) + 1]
           IN  /\ d \in Draft /\ d.tableid = b.tableid + 1 /\ d.alias = b.alias
               /\ d.columns = b.columns /\ t \in Target /\ d.targets = Append(b.targets, t)
               /\ Len(d.targets) = Len(b.targets) + 1
<1>1. PICK f : f = Fresh(b)
  OBVIOUS
<1>2. f \in Draft /\ f.tableid = b.tableid + 1 /\ f.alias = b.alias /\ f.columns = b.columns
      /\ f.targets = b.targets
  BY <1>1, FreshIs
<1>3. PICK n \in Nat : n = b.tableid + 1
  BY DEF Draft
<1>4. PICK t : t = [as |-> n, of |-> "related", nth |-> Len(b.targets) + 1]
  OBVIOUS
<1>5. PICK d : d = Targeted(f, "related", n)
  OBVIOUS
<1>6. /\ [as |-> n, of |-> "related", nth |-> Len(f.targets) + 1] \in Target
      /\ Targeted(f, "related", n) \in Draft
      /\ Targeted(f, "related", n).tableid = f.tableid
      /\ Targeted(f, "related", n).alias = f.alias
      /\ Targeted(f, "related", n).columns = f.columns
      /\ Targeted(f, "related", n).targets =
            Append(f.targets, [as |-> n, of |-> "related", nth |-> Len(f.targets) + 1])
  BY <1>2, TargetedIs
<1>7. /\ d \in Draft /\ d.tableid = n /\ d.alias = b.alias /\ d.columns = b.columns
      /\ t \in Target /\ d.targets = Append(b.targets, t)
  BY <1>2, <1>3, <1>4, <1>5, <1>6
<1>8. b.targets \in Seq(Target)
  BY DEF Draft
<1>9. Len(d.targets) = Len(b.targets) + 1
  BY <1>7, <1>8, AppendProperties
<1> QED BY <1>1, <1>3, <1>4, <1>5, <1>7, <1>9

LEMMA ColumnedKept ==
    ASSUME tableid \in Nat, NEW b, Apart(b), NEW number \in Nat, NEW nth \in Nat,
           NEW whose \in Storage \cup {"own", "related", "misnamed"}
    PROVE  LET c == Columned(b, number, whose, nth)
           IN  Apart(c) /\ c.tableid = b.tableid /\ c.alias = b.alias /\ c.targets = b.targets
<1>1. PICK c : c = Columned(b, number, whose, nth)
  OBVIOUS
<1>2. b \in Draft /\ Len(b.targets) >= 1
  BY DEF Apart
<1>3. c \in Draft /\ c.tableid = b.tableid /\ c.alias = b.alias /\ c.targets = b.targets
  <2>1. /\ Columned(b, number, whose, nth) \in Draft
        /\ Columned(b, number, whose, nth).tableid = b.tableid
        /\ Columned(b, number, whose, nth).alias = b.alias
        /\ Columned(b, number, whose, nth).targets = b.targets
    BY <1>2, ColumnedIs
  <2> QED BY <1>1, <2>1
<1>4. Apart(c)
  BY <1>2, <1>3, KeptStays
<1> QED BY <1>1, <1>3, <1>4

LEMMA RelatedKept ==
    ASSUME tableid \in Nat, NEW b, Apart(b)
    PROVE  Apart(Targeted(Fresh(b), "related", b.tableid + 1))
<1>1. PICK d : d = Targeted(Fresh(b), "related", b.tableid + 1)
  OBVIOUS
<1>2. b \in Draft /\ Len(b.targets) >= 1 /\ Len(b.targets) \in Nat
  BY DEF Apart, Draft
<1>3. d \in Draft /\ d.tableid = b.tableid + 1 /\ d.alias = b.alias
      /\ Len(d.targets) = Len(b.targets) + 1
  BY <1>1, <1>2, RelatedIs
<1>4. Apart(d)
  BY <1>2, <1>3, KeptStays
<1> QED BY <1>1, <1>4

LEMMA ComputedKept ==
    ASSUME tableid \in Nat, NEW b, Apart(b), NEW p \in Property
    PROVE  Apart(Computed(b, p))
<1>1. PICK n : n = Aliased(b, p.at)
  OBVIOUS
<1>2. p.at \in Place /\ p.via \in {"no", "row", "link"}
  BY DEF Property
<1>3. Apart(n)
  BY <1>1, <1>2, AliasedKept
<1>4. PICK as \in Nat, whose \in Storage \cup {"own", "related", "misnamed"} :
         as = AliasIn(n, p.at) /\ whose = Whose(p.at)
  BY <1>2, <1>3, AliasInIs DEF Apart
<1>5. CASE p.via = "no"
  <2>1. Computed(b, p) = Columned(n, as, whose, 0)
    BY <1>1, <1>4, <1>5 DEF Computed
  <2> QED BY <1>3, <2>1, ColumnedKept
<1>6. CASE p.via # "no"
  <2>1. PICK d : d = Targeted(Fresh(n), "related", n.tableid + 1)
    OBVIOUS
  <2>2. Apart(d)
    BY <1>3, <2>1, RelatedKept
  <2>3. PICK e : e = Columned(d, as, whose, 0)
    OBVIOUS
  <2>4. Apart(e)
    BY <2>2, <2>3, ColumnedKept
  <2>5. PICK m \in Nat, k \in Nat : m = n.tableid + 1 /\ k = Len(d.targets)
    BY <1>3, <2>2 DEF Apart, Draft
  <2>6. PICK w \in {"related", "misnamed"} : w = IF p.via = "row" THEN "related" ELSE "misnamed"
    OBVIOUS
  <2>7. Computed(b, p) = Columned(e, m, w, k)
    BY <1>1, <1>4, <1>6, <2>1, <2>3, <2>5, <2>6 DEF Computed
  <2> QED BY <2>4, <2>5, <2>6, <2>7, ColumnedKept
<1> QED BY <1>2, <1>5, <1>6

\* What a query may name: its storages, and its own while there is no other table.
Nameable(b, p, ours) ==
    /\ p \in Property
    /\ p.at \in ours \cup {"main", "own"}
    /\ p.at = "own" => b.tableid = tableid + 1

LEMMA ComputedSound ==
    ASSUME tableid \in Nat, NEW ours \in SUBSET (Storage \ borrowed),
           NEW b, Sound(b, ours), NEW p, Nameable(b, p, ours)
    PROVE  /\ Sound(Computed(b, p), ours)
           /\ Whom(Computed(b, p)) = Whom(b)
           /\ p.at \in {"main", "own"} /\ p.via = "no" => Computed(b, p).tableid = b.tableid
<1>1. PICK n : n = Aliased(b, p.at)
  OBVIOUS
<1>2. /\ p.at \in Place /\ p.via \in {"no", "row", "link"}
      /\ p.at \in ours \cup {"main", "own"}
      /\ p.at = "own" => b.tableid = tableid + 1
      /\ {"own", "main", "related", "misnamed"} \cap Storage = {}
  BY SelectAssumption DEF Property, Nameable
<1>3. b \in Draft /\ Sound(n, ours) /\ Apart(n) /\ n \in Draft
  <2>1. Sound(n, ours)
    BY <1>1, <1>2, AliasedSound
  <2>2. Apart(b) /\ Apart(n)
    BY <2>1 DEF Sound
  <2> QED BY <2>1, <2>2 DEF Apart
<1>4. n.targets = b.targets
  BY <1>1, <1>2, <1>3, AliasedIs
<1>5. PICK as \in Nat, whose \in Storage \cup {"own", "related", "misnamed"} :
         as = AliasIn(n, p.at) /\ whose = Whose(p.at)
  BY <1>2, <1>3, AliasInIs DEF Apart
<1>6. ColumnRight(n, [as |-> as, of |-> whose, nth |-> 0], ours)
  <2>1. p.at = "main" => whose = "own" /\ as = tableid + 1
    BY <1>3, <1>5 DEF AliasIn, Whose, Sound, TargetsRight
  <2>2. p.at = "own" => whose = "own" /\ as = tableid + 1
    <3>1. SUFFICES ASSUME p.at = "own" PROVE whose = "own" /\ as = tableid + 1
      OBVIOUS
    <3>2. n.alias = [b.alias EXCEPT !["own"] = b.tableid]
      BY <1>1, <1>2, <1>3, <3>1, AliasedIs
    <3>3. b.alias \in [Storage \cup {"own"} -> Nat]
      BY <1>3 DEF Draft
    <3> QED BY <1>2, <1>5, <3>1, <3>2, <3>3 DEF AliasIn, Whose
  <2>3. p.at \in ours => whose \in ours /\ as = n.alias[whose] /\ as # 0
    BY <1>1, <1>2, <1>5, AliasedSound DEF AliasIn, Whose
  <2>4. PICK c : c = [as |-> as, of |-> whose, nth |-> 0]
    OBVIOUS
  <2>5. c.as = as /\ c.of = whose
    BY <2>4
  <2>6. ColumnRight(n, c, ours)
    BY <1>2, <2>1, <2>2, <2>3, <2>5 DEF ColumnRight
  <2> QED BY <2>4, <2>6
<1>7. CASE p.via = "no"
  <2>1. Computed(b, p) = Columned(n, as, whose, 0)
    BY <1>1, <1>5, <1>7 DEF Computed
  <2>2. Sound(Computed(b, p), ours)
    BY <1>3, <1>6, <2>1, ColumnSound
  <2>3. Computed(b, p).targets = b.targets /\ Computed(b, p).tableid = n.tableid
    <3>1. Columned(n, as, whose, 0).targets = n.targets
          /\ Columned(n, as, whose, 0).tableid = n.tableid
      BY <1>3, <1>5, ColumnedKept
    <3> QED BY <1>4, <2>1, <3>1
  <2>4. p.at \in {"main", "own"} => n.tableid = b.tableid
    BY <1>1, <1>2, <1>3, AliasedIs
  <2> QED BY <2>2, <2>3, <2>4 DEF Whom
<1>8. CASE p.via # "no"
  <2>1. PICK d : d = Targeted(Fresh(n), "related", n.tableid + 1)
    OBVIOUS
  <2>2. PICK t : t = [as |-> n.tableid + 1, of |-> "related", nth |-> Len(n.targets) + 1]
    OBVIOUS
  <2>3. /\ d \in Draft /\ d.tableid = n.tableid + 1 /\ d.alias = n.alias
        /\ d.columns = n.columns /\ t \in Target /\ d.targets = Append(n.targets, t)
        /\ Len(d.targets) = Len(n.targets) + 1
    BY <1>3, <2>1, <2>2, RelatedIs
  <2>4. n.tableid \in Nat /\ n.targets \in Seq(Target) /\ Len(n.targets) \in Nat
    BY <1>3 DEF Draft
  <2>5. TargetRight(d, t, ours)
    <3>1. \A s \in ours : n.alias[s] \in Nat /\ n.alias[s] =< n.tableid
      BY <1>3 DEF Apart, OwnAliases
    <3>2. \A s \in ours : d.alias[s] # t.as
      BY <2>2, <2>3, <2>4, <3>1
    <3>3. t.as = n.tableid + 1 /\ t.of = "related"
      BY <2>2
    <3> QED BY <1>2, <2>3, <2>4, <3>2, <3>3 DEF TargetRight
  <2>6. \A i \in 1 .. Len(n.targets) : n.targets[i].as # t.as
    <3>1. ASSUME NEW i \in 1 .. Len(n.targets) PROVE n.targets[i].as # t.as
      <4>1. PICK u \in Target : u = n.targets[i]
        BY <2>4
      <4>2. u.as \in Nat /\ u.as =< n.tableid
        BY <1>3, <4>1 DEF Sound, TargetsRight, TargetRight, Target
      <4> QED BY <2>2, <2>4, <4>1, <4>2
    <3> QED BY <3>1
  <2>7. Sound(d, ours)
    BY <1>3, <2>2, <2>3, <2>5, <2>6, TargetSound
  <2>8. ColumnRight(d, [as |-> as, of |-> whose, nth |-> 0], ours)
    <3>1. PICK c : c = [as |-> as, of |-> whose, nth |-> 0]
      OBVIOUS
    <3>2. c.of \notin {"related", "misnamed"}
      BY <1>2, <1>5, <3>1 DEF Whose, Place
    <3>3. ColumnRight(n, c, ours)
      BY <1>6, <3>1
    <3>4. ColumnRight(d, c, ours)
      BY <2>3, <3>2, <3>3 DEF ColumnRight
    <3> QED BY <3>1, <3>4
  <2>9. PICK e : e = Columned(d, as, whose, 0)
    OBVIOUS
  <2>10. Sound(e, ours) /\ e.targets = d.targets
    <3>1. Sound(e, ours)
      BY <2>7, <2>8, <2>9, ColumnSound
    <3>2. Apart(d)
      BY <2>7 DEF Sound
    <3>3. Columned(d, as, whose, 0).targets = d.targets
      BY <1>5, <3>2, ColumnedKept
    <3> QED BY <2>9, <3>1, <3>3
  <2>11. PICK m \in Nat, k \in Nat : m = n.tableid + 1 /\ k = Len(d.targets)
    BY <2>3, <2>4
  <2>18. PICK r \in {"related", "misnamed"} : r = IF p.via = "row" THEN "related" ELSE "misnamed"
    OBVIOUS
  <2>12. ColumnRight(e, [as |-> m, of |-> r, nth |-> k], ours)
    <3>1. PICK c : c = [as |-> m, of |-> r, nth |-> k]
      OBVIOUS
    <3>2. d.targets[k] = t /\ k \in 1 .. Len(d.targets)
      BY <2>3, <2>4, <2>11, AppendProperties
    <3>3. t.as = c.as /\ t.nth = c.nth /\ t.of = "related" /\ c.of = r
      BY <2>2, <2>3, <2>11, <3>1
    <3>4. LeadsTo(e.targets[k], c) /\ k \in 1 .. Len(e.targets)
      BY <2>10, <3>2, <3>3 DEF LeadsTo
    <3>5. ColumnRight(e, c, ours)
      BY <3>3, <3>4 DEF ColumnRight
    <3> QED BY <3>1, <3>5
  <2>13. PICK g : g = Columned(e, m, r, k)
    OBVIOUS
  <2>14. Sound(g, ours) /\ g.targets = d.targets
    <3>1. Sound(g, ours)
      BY <2>10, <2>11, <2>12, <2>13, ColumnSound
    <3>2. Apart(e)
      BY <2>10 DEF Sound
    <3>3. ASSUME NEW w \in Storage \cup {"own", "related", "misnamed"}
          PROVE  Columned(e, m, w, k).targets = e.targets
      BY <3>2, ColumnedKept
    <3> QED BY <2>10, <2>13, <3>1, <3>3
  <2>15. Computed(b, p) = g
    BY <1>1, <1>5, <1>8, <2>1, <2>9, <2>11, <2>13, <2>18 DEF Computed
  <2>16. Whom(g) = Whom(b)
    <3>1. PICK l \in Nat : l = Len(b.targets)
      BY <1>4, <2>4
    <3>2. /\ Len(g.targets) = l + 1 /\ g.targets[l + 1].of = "related"
          /\ \A i \in 1 .. l : g.targets[i] = b.targets[i]
      BY <1>4, <2>2, <2>3, <2>4, <2>14, <3>1, AppendProperties
    <3>3. \A i \in 1 .. l + 1 : i \in 1 .. l \/ i = l + 1
      BY <3>1
    <3>4. \A i \in 1 .. l : i \in 1 .. l + 1
      BY <3>1
    <3> QED BY <1>2, <3>1, <3>2, <3>3, <3>4 DEF Whom
  <2> QED BY <1>8, <2>14, <2>15, <2>16
<1> QED BY <1>2, <1>7, <1>8
-----------------------------------------------------------------------------
\* The draft after each join.
JoinsOneByOne(main, js, f) ==
    /\ f[0] = main
    /\ \A n \in 1 .. Len(js) : f[n] = JoinedTo(f[n - 1], js[n])
    /\ JoinedAll(main, js) = f[Len(js)]

LEMMA JoinedAllIs ==
    ASSUME NEW main, NEW js, Len(js) \in Nat
    PROVE  \E f : JoinsOneByOne(main, js, f)
<1>1. PICK S : S = {N \in Nat : \E f : f = [n \in 0 .. N |-> IF n = 0 THEN main
                                                ELSE JoinedTo(f[n - 1], js[n])]}
  OBVIOUS
<1>2. 0 \in S
  <2>1. PICK f : f = [n \in 0 .. 0 |-> main]
    OBVIOUS
  <2>2. f = [n \in 0 .. 0 |-> IF n = 0 THEN main ELSE JoinedTo(f[n - 1], js[n])]
    BY <2>1
  <2> QED BY <1>1, <2>2
<1>3. ASSUME NEW N \in S PROVE N + 1 \in S
  <2>1. N \in Nat
    BY <1>1
  <2>2. PICK f : f = [n \in 0 .. N |-> IF n = 0 THEN main ELSE JoinedTo(f[n - 1], js[n])]
    BY <1>1
  <2>3. PICK g : g = [n \in 0 .. N + 1 |-> IF n = 0 THEN main
                                           ELSE JoinedTo(f[n - 1], js[n])]
    OBVIOUS
  <2>4. \A n \in 0 .. N : g[n] = f[n]
    BY <2>1, <2>2, <2>3
  <2>5. \A n \in 0 .. N + 1 : n # 0 => n - 1 \in 0 .. N
    BY <2>1
  <2>6. g = [n \in 0 .. N + 1 |-> IF n = 0 THEN main ELSE JoinedTo(g[n - 1], js[n])]
    BY <2>3, <2>4, <2>5
  <2> QED BY <1>1, <2>1, <2>6
<1>4. S = Nat
  BY <1>1, <1>2, <1>3, NumbersAll
<1>5. PICK N \in Nat : N = Len(js)
  OBVIOUS
<1>6. \E f : f = [n \in 0 .. N |-> IF n = 0 THEN main ELSE JoinedTo(f[n - 1], js[n])]
  BY <1>1, <1>4
<1>7. PICK f : f = CHOOSE h : h = [n \in 0 .. N |-> IF n = 0 THEN main
                                       ELSE JoinedTo(h[n - 1], js[n])]
  OBVIOUS
<1>8. f = [n \in 0 .. N |-> IF n = 0 THEN main ELSE JoinedTo(f[n - 1], js[n])]
  BY <1>6, <1>7
<1>9. JoinedAll(main, js) = f[N]
  BY <1>5, <1>7 DEF JoinedAll
<1>10. f[0] = main /\ \A n \in 1 .. N : f[n] = JoinedTo(f[n - 1], js[n])
  <2>1. 0 \in 0 .. N /\ \A n \in 1 .. N : n \in 0 .. N /\ n # 0
    OBVIOUS
  <2> QED BY <1>8, <2>1
<1> QED BY <1>5, <1>9, <1>10 DEF JoinsOneByOne
\* The draft after each column.
ComputedOneByOne(b, used, f) ==
    /\ f[0] = b
    /\ \A n \in 1 .. Len(used) : f[n] = Computed(f[n - 1], used[n])
    /\ ComputedAll(b, used) = f[Len(used)]

LEMMA ComputedAllIs ==
    ASSUME NEW b, NEW used, Len(used) \in Nat
    PROVE  \E f : ComputedOneByOne(b, used, f)
<1>1. PICK S : S = {N \in Nat : \E f : f = [n \in 0 .. N |-> IF n = 0 THEN b
                                                ELSE Computed(f[n - 1], used[n])]}
  OBVIOUS
<1>2. 0 \in S
  <2>1. PICK f : f = [n \in 0 .. 0 |-> b]
    OBVIOUS
  <2>2. f = [n \in 0 .. 0 |-> IF n = 0 THEN b ELSE Computed(f[n - 1], used[n])]
    BY <2>1
  <2> QED BY <1>1, <2>2
<1>3. ASSUME NEW N \in S PROVE N + 1 \in S
  <2>1. N \in Nat
    BY <1>1
  <2>2. PICK f : f = [n \in 0 .. N |-> IF n = 0 THEN b ELSE Computed(f[n - 1], used[n])]
    BY <1>1
  <2>3. PICK g : g = [n \in 0 .. N + 1 |-> IF n = 0 THEN b
                                           ELSE Computed(f[n - 1], used[n])]
    OBVIOUS
  <2>4. \A n \in 0 .. N : g[n] = f[n]
    BY <2>1, <2>2, <2>3
  <2>5. \A n \in 0 .. N + 1 : n # 0 => n - 1 \in 0 .. N
    BY <2>1
  <2>6. g = [n \in 0 .. N + 1 |-> IF n = 0 THEN b ELSE Computed(g[n - 1], used[n])]
    BY <2>3, <2>4, <2>5
  <2> QED BY <1>1, <2>1, <2>6
<1>4. S = Nat
  BY <1>1, <1>2, <1>3, NumbersAll
<1>5. PICK N \in Nat : N = Len(used)
  OBVIOUS
<1>6. \E f : f = [n \in 0 .. N |-> IF n = 0 THEN b ELSE Computed(f[n - 1], used[n])]
  BY <1>1, <1>4
<1>7. PICK f : f = CHOOSE h : h = [n \in 0 .. N |-> IF n = 0 THEN b
                                       ELSE Computed(h[n - 1], used[n])]
  OBVIOUS
<1>8. f = [n \in 0 .. N |-> IF n = 0 THEN b ELSE Computed(f[n - 1], used[n])]
  BY <1>6, <1>7
<1>9. ComputedAll(b, used) = f[N]
  BY <1>5, <1>7 DEF ComputedAll
<1>10. f[0] = b /\ \A n \in 1 .. N : f[n] = Computed(f[n - 1], used[n])
  <2>1. 0 \in 0 .. N /\ \A n \in 1 .. N : n \in 0 .. N /\ n # 0
    OBVIOUS
  <2> QED BY <1>8, <2>1
<1> QED BY <1>5, <1>9, <1>10 DEF ComputedOneByOne
Joinable(j) == j \in Property \X Property /\ j[2].at # "main"

LEMMA JoinedKept ==
    ASSUME tableid \in Nat, NEW b, Apart(b), NEW j, Joinable(j)
    PROVE  Apart(JoinedTo(b, j))
<1>1. PICK p \in Property, q \in Property : p = j[1] /\ q = j[2]
  BY DEF Joinable
<1>2. PICK c : c = Computed(Computed(b, p), q)
  OBVIOUS
<1>3. Apart(c)
  BY <1>2, ComputedKept
<1>4. PICK s \in Storage \cup {"own", "related", "misnamed"} : s = q.at /\ s \in Place
  BY <1>1 DEF Joinable, Property, Place
<1>5. PICK d : d = Aliased(c, s)
  OBVIOUS
<1>6. Apart(d)
  BY <1>3, <1>4, <1>5, AliasedKept
<1>7. PICK as \in Nat : as = AliasIn(d, s)
  BY <1>4, <1>6, AliasInIs DEF Apart
<1>8. d \in Draft /\ Len(d.targets) \in Nat /\ d.targets \in Seq(Target)
  BY <1>6 DEF Apart, Draft
<1>9. PICK e : e = Targeted(d, s, as)
  OBVIOUS
<1>10. PICK t : t = [as |-> as, of |-> s, nth |-> Len(d.targets) + 1]
  OBVIOUS
<1>11. /\ e \in Draft /\ e.alias = d.alias /\ e.tableid = d.tableid /\ t \in Target
       /\ e.targets = Append(d.targets, t)
  BY <1>8, <1>9, <1>10, TargetedIs
<1>12. Len(e.targets) >= 1
  BY <1>8, <1>11, AppendProperties
<1>13. Apart(e)
  BY <1>6, <1>11, <1>12, KeptStays
<1>14. JoinedTo(b, j) = e
  BY <1>1, <1>2, <1>4, <1>5, <1>7, <1>9 DEF JoinedTo
<1> QED BY <1>13, <1>14

LEMMA JoinedSound ==
    ASSUME tableid \in Nat, NEW ours \in SUBSET (Storage \ borrowed),
           NEW b, Sound(b, ours), NEW j, Joinable(j), Nameable(b, j[1], ours),
           j[2].at \in ours, j[2].at \notin Whom(b)
    PROVE  /\ Sound(JoinedTo(b, j), ours)
           /\ Whom(JoinedTo(b, j)) = Whom(b) \cup {j[2].at}
<1>1. PICK p \in Property, q \in Property : p = j[1] /\ q = j[2]
  BY DEF Joinable
<1>2. PICK s \in ours : s = q.at
  BY <1>1
<1>3. /\ s \in Storage /\ s \in Storage \ borrowed
      /\ {"own", "main", "related", "misnamed"} \cap Storage = {}
  BY SelectAssumption
<1>4. PICK b1 : b1 = Computed(b, p)
  OBVIOUS
<1>5. Sound(b1, ours) /\ Whom(b1) = Whom(b)
  BY <1>1, <1>4, ComputedSound
<1>6. PICK c : c = Computed(b1, q)
  OBVIOUS
<1>7. Nameable(b1, q, ours)
  BY <1>2, <1>3 DEF Nameable
<1>8. Sound(c, ours) /\ Whom(c) = Whom(b)
  BY <1>5, <1>6, <1>7, ComputedSound
<1>9. PICK d : d = Aliased(c, s)
  OBVIOUS
<1>10. Sound(d, ours) /\ d.alias[s] # 0
  BY <1>8, <1>9, AliasedSound
<1>11. Apart(d) /\ d \in Draft /\ Len(d.targets) \in Nat /\ d.targets \in Seq(Target)
       /\ d.alias \in [Storage \cup {"own"} -> Nat]
  BY <1>10 DEF Sound, Apart, Draft
<1>12. d.targets = c.targets
  <2>1. c \in Draft /\ s \in Place
    BY <1>3, <1>8 DEF Sound, Apart, Place
  <2> QED BY <1>9, <2>1, AliasedIs
<1>13. PICK as \in Nat : as = d.alias[s]
  BY <1>3, <1>11
<1>14. PICK e : e = Targeted(d, s, as)
  OBVIOUS
<1>15. PICK t : t = [as |-> as, of |-> s, nth |-> Len(d.targets) + 1]
  OBVIOUS
<1>16. /\ e \in Draft /\ e.alias = d.alias /\ e.tableid = d.tableid /\ e.columns = d.columns
       /\ t \in Target /\ e.targets = Append(d.targets, t)
  <2>1. s \in Storage \cup {"own", "related", "misnamed"}
    BY <1>3
  <2> QED BY <1>11, <1>14, <1>15, <2>1, TargetedIs
<1>17. TargetRight(e, t, ours)
  <2>1. t.as = as /\ t.of = s
    BY <1>15
  <2>2. as # 0 /\ as =< e.tableid
    BY <1>3, <1>10, <1>11, <1>13, <1>16 DEF Apart, OwnAliases
  <2>3. as = e.alias[s]
    BY <1>13, <1>16
  <2> QED BY <1>3, <2>1, <2>2, <2>3 DEF TargetRight
<1>18. \A i \in 1 .. Len(d.targets) : d.targets[i].as # t.as
  <2>1. ASSUME NEW i \in 1 .. Len(d.targets), d.targets[i].as = t.as PROVE FALSE
    <3>1. PICK u \in Target : u = d.targets[i]
      BY <1>11, <2>1
    <3>2. TargetRight(d, u, ours) /\ u.of \in Storage \cup {"own", "related", "misnamed"}
      BY <1>10, <3>1 DEF Sound, TargetsRight, Target
    <3>3. u.as = d.alias[s] /\ u.as # 0
      BY <1>10, <1>13, <1>15, <2>1, <3>1
    <3>4. u.of # "own"
      BY <1>3, <1>11, <3>2, <3>3 DEF TargetRight, Apart
    <3>5. u.of # "related"
      BY <1>2, <3>2, <3>3 DEF TargetRight
    <3>6. u.of \in ours /\ d.alias[u.of] = d.alias[s]
      BY <3>2, <3>3, <3>4, <3>5 DEF TargetRight
    <3>7. u.of = s
      BY <1>3, <1>10, <1>11, <3>6 DEF Apart, OwnAliases
    <3>8. s \in Whom(c)
      BY <1>3, <1>12, <2>1, <3>1, <3>7 DEF Whom
    <3> QED BY <1>1, <1>2, <1>8, <3>8
  <2> QED BY <2>1
<1>19. Sound(e, ours)
  <2>1. t.nth = Len(d.targets) + 1
    BY <1>15
  <2> QED BY <1>10, <1>16, <1>17, <1>18, <2>1, TargetSound
<1>20. JoinedTo(b, j) = e
  BY <1>1, <1>2, <1>3, <1>4, <1>6, <1>9, <1>13, <1>14 DEF JoinedTo, AliasIn
<1>21. Whom(e) = Whom(c) \cup {s}
  <2>1. PICK l \in Nat : l = Len(d.targets)
    BY <1>11
  <2>2. /\ Len(e.targets) = l + 1 /\ e.targets[l + 1] = t
        /\ \A i \in 1 .. l : e.targets[i] = c.targets[i]
    BY <1>11, <1>12, <1>16, <2>1, AppendProperties
  <2>3. \A i \in 1 .. l + 1 : i \in 1 .. l \/ i = l + 1
    BY <2>1
  <2>4. (\A i \in 1 .. l : i \in 1 .. l + 1) /\ l + 1 \in 1 .. l + 1
    BY <2>1
  <2>5. t.of = s
    BY <1>15
  <2> QED BY <1>3, <1>12, <2>1, <2>2, <2>3, <2>4, <2>5 DEF Whom
<1> QED BY <1>1, <1>2, <1>8, <1>19, <1>20, <1>21
-----------------------------------------------------------------------------
(* The select of an executor: its columns                                  *)

\* What the joins and properties of a query with these storages are.
Clear(js, used, ours) ==
    /\ \A k \in 1 .. Len(js) :
           /\ Joinable(js[k])
           /\ js[k][2].at \in ours /\ js[k][1].at \in ours \cup {"main", "own"}
           /\ js[k][1].at = "own" => k = 1
    /\ \A i, k \in 1 .. Len(js) : js[i][2].at = js[k][2].at => i = k
    /\ \A s \in ours : \E k \in 1 .. Len(js) : js[k][2].at = s
    /\ \A n \in 1 .. Len(used) :
           /\ used[n] \in Property
           /\ used[n].at \in ours \cup {"main", "own"}
           /\ used[n].at = "own" => Len(js) = 0 /\ \A m \in 1 .. n - 1 : used[m].via = "no"

\* The conditions under which columns are to resolve.
Fair(q) ==
    /\ Uses(q) \cap borrowed = {}
    /\ \A s \in Uses(q) \cap Storage : \E k \in DOMAIN q[1] : JoinsOf(q, s) = {k}
    /\ ~NamesItself(q)

SelectFits ==
    /\ OwnAliases(alias, tableid)
    /\ storageJoins \in Seq(Property \X Property)
    /\ \A k \in 1 .. Len(storageJoins) : storageJoins[k][2].at # "main"
    /\ filter \in Seq(Property) /\ sorts \in Seq(Property)

LEMMA FairClear ==
    ASSUME SelectFits, NEW q, q = <<storageJoins, filter, sorts>>, Fair(q)
    PROVE  /\ Uses(q) \cap Storage \subseteq Storage \ borrowed
           /\ Clear(storageJoins, filter \o sorts, Uses(q) \cap Storage)
<1>1. PICK js, used, ours : /\ js = storageJoins /\ used = filter \o sorts
                            /\ ours = Uses(q) \cap Storage
  OBVIOUS
<1>2. /\ js \in Seq(Property \X Property) /\ used \in Seq(Property)
      /\ \A k \in 1 .. Len(js) : js[k][2].at # "main"
      /\ Len(js) \in Nat /\ Len(used) \in Nat
  BY <1>1, ConcatProperties DEF SelectFits
<1>3. /\ q[1] = js /\ q[2] \o q[3] = used /\ DOMAIN js = 1 .. Len(js)
      /\ DOMAIN used = 1 .. Len(used)
  BY <1>1, <1>2
<1>4. /\ \A k \in 1 .. Len(js) : js[k][1].at \in Uses(q) /\ js[k][2].at \in Uses(q)
      /\ \A n \in 1 .. Len(used) : used[n].at \in Uses(q)
  <2>1. Uses(q) = {j[1].at : j \in ToSet(js)} \cup {j[2].at : j \in ToSet(js)}
                   \cup {p.at : p \in ToSet(used)}
    BY <1>3 DEF Uses
  <2>2. \A k \in 1 .. Len(js) : js[k] \in ToSet(js)
    BY <1>3 DEF ToSet
  <2>3. \A n \in 1 .. Len(used) : used[n] \in ToSet(used)
    BY <1>3 DEF ToSet
  <2> QED BY <2>1, <2>2, <2>3
<1>5. /\ \A k \in 1 .. Len(js) : js[k][2].at # "own" /\ (js[k][1].at = "own" => ~(k > 1))
      /\ \A n \in 1 .. Len(used) : used[n].at = "own" => js = <<>>
      /\ \A m, k \in 1 .. Len(used) : m < k /\ used[m].via # "no" => used[k].at # "own"
  <2>1. ~NamesItself(q)
    BY DEF Fair
  <2>2. /\ ~(\E k \in DOMAIN js : js[k][2].at = "own" \/ (k > 1 /\ js[k][1].at = "own"))
        /\ ~(js # <<>> /\ \E p \in ToSet(used) : p.at = "own")
        /\ ~(\E m, k \in DOMAIN used : m < k /\ used[m].via # "no" /\ used[k].at = "own")
    <3>1. PICK a, u : a = q[1] /\ u = q[2] \o q[3]
      OBVIOUS
    <3>2. /\ ~(\E k \in DOMAIN a : a[k][2].at = "own" \/ (k > 1 /\ a[k][1].at = "own"))
          /\ ~(a # <<>> /\ \E p \in ToSet(u) : p.at = "own")
          /\ ~(\E m, k \in DOMAIN u : m < k /\ u[m].via # "no" /\ u[k].at = "own")
      <4>1. ASSUME NEW k \in DOMAIN a, a[k][2].at = "own" \/ (k > 1 /\ a[k][1].at = "own")
            PROVE  NamesItself(q)
        BY <3>1, <4>1 DEF NamesItself
      <4>2. ASSUME a # <<>>, NEW p \in ToSet(u), p.at = "own" PROVE NamesItself(q)
        BY <3>1, <4>2, SMTT(20) DEF NamesItself
      <4>3. ASSUME NEW m \in DOMAIN u, NEW k \in DOMAIN u, m < k, u[m].via # "no", u[k].at = "own"
            PROVE  NamesItself(q)
        BY <3>1, <4>3 DEF NamesItself
      <4> QED BY <2>1, <4>1, <4>2, <4>3
    <3>3. a = js /\ u = used
      BY <1>3, <3>1
    <3> QED BY <3>2, <3>3
  <2>3. \A n \in 1 .. Len(used) : used[n] \in ToSet(used)
    BY <1>3 DEF ToSet
  <2>4. \A k \in 1 .. Len(js) : js[k][2].at # "own" /\ (js[k][1].at = "own" => ~(k > 1))
    BY <1>3, <2>2
  <2>5. \A n \in 1 .. Len(used) : used[n].at = "own" => js = <<>>
    BY <2>2, <2>3
  <2>6. \A m, k \in 1 .. Len(used) : m < k /\ used[m].via # "no" => used[k].at # "own"
    <3>1. ASSUME NEW m \in DOMAIN used, NEW k \in DOMAIN used, m < k, used[m].via # "no",
                 used[k].at = "own"
          PROVE  FALSE
      BY <2>2, <3>1
    <3> QED BY <1>3, <3>1
  <2> QED BY <2>4, <2>5, <2>6
<1>6. /\ \A k \in 1 .. Len(js) : js[k] \in Property \X Property
      /\ \A n \in 1 .. Len(used) : used[n] \in Property
  BY <1>2
<1>7. \A p \in Property : p.at \in Storage \cup {"main", "own"}
  BY DEF Property, Place
<1>8. ASSUME NEW k \in 1 .. Len(js)
      PROVE  /\ Joinable(js[k]) /\ js[k][2].at \in ours
             /\ js[k][1].at \in ours \cup {"main", "own"}
             /\ js[k][1].at = "own" => k = 1
  <2>1. PICK p \in Property, r \in Property : js[k][1] = p /\ js[k][2] = r
    BY <1>6
  <2>2. r.at \in Storage /\ p.at \in Storage \cup {"main", "own"}
    BY <1>2, <1>5, <1>7, <2>1
  <2>3. ~(k > 1) => k = 1
    BY <1>2
  <2> QED BY <1>1, <1>2, <1>4, <1>5, <1>6, <2>1, <2>2, <2>3 DEF Joinable
<1>9. \A s \in ours : \E k \in 1 .. Len(js) :
          js[k][2].at = s /\ \A i \in 1 .. Len(js) : js[i][2].at = s => i = k
  <2>1. ASSUME NEW s \in ours
        PROVE  \E k \in 1 .. Len(js) :
                  js[k][2].at = s /\ \A i \in 1 .. Len(js) : js[i][2].at = s => i = k
    <3>1. PICK k \in 1 .. Len(js) : JoinsOf(q, s) = {k}
      BY <1>1, <1>3 DEF Fair
    <3>2. {i \in 1 .. Len(js) : js[i][2].at = s} = {k}
      BY <1>3, <3>1 DEF JoinsOf
    <3> QED BY <3>2
  <2> QED BY <2>1
<1>10. \A i, k \in 1 .. Len(js) : js[i][2].at = js[k][2].at => i = k
  BY <1>8, <1>9
<1>11. ASSUME NEW n \in 1 .. Len(used)
       PROVE  /\ used[n] \in Property /\ used[n].at \in ours \cup {"main", "own"}
              /\ used[n].at = "own" => Len(js) = 0 /\ \A m \in 1 .. n - 1 : used[m].via = "no"
  <2>1. used[n] \in Property /\ used[n].at \in ours \cup {"main", "own"}
    BY <1>1, <1>4, <1>6, <1>7
  <2>2. used[n].at = "own" => Len(js) = 0
    BY <1>2, <1>5, EmptySeq
  <2>3. ASSUME used[n].at = "own", NEW m \in 1 .. n - 1 PROVE used[m].via = "no"
    <3>1. m \in 1 .. Len(used) /\ m < n
      BY <1>2, <2>3
    <3> QED BY <1>5, <2>3, <3>1
  <2> QED BY <2>1, <2>2, <2>3
<1>12. Clear(js, used, ours)
  BY <1>8, <1>9, <1>10, <1>11 DEF Clear
<1>13. Uses(q) \cap Storage \subseteq Storage \ borrowed
  BY DEF Fair
<1> QED BY <1>1, <1>12, <1>13

Main == [tableid |-> tableid + 1, alias |-> alias, columns |-> {},
         targets |-> <<[as |-> tableid + 1, of |-> "own", nth |-> 1]>>]

LEMMA MainKept == SelectFits => Apart(Main)
<1> SUFFICES ASSUME SelectFits PROVE Apart(Main)
  OBVIOUS
<1>1. PICK t : t = [as |-> tableid + 1, of |-> "own", nth |-> 1]
  OBVIOUS
<1>2. OwnAliases(alias, tableid) /\ tableid \in Nat /\ tableid + 1 \in Nat
  BY DEF SelectFits, OwnAliases
<1>3. t \in Target
  BY <1>1, <1>2 DEF Target
<1>4. PICK ts : ts = << t >>
  OBVIOUS
<1>5. ts \in Seq(Target) /\ Len(ts) = 1
  BY <1>3, <1>4
<1>6. Main = [tableid |-> tableid + 1, alias |-> alias, columns |-> {}, targets |-> ts]
  BY <1>1, <1>4 DEF Main
<1>7. alias \in [Storage \cup {"own"} -> Nat]
  BY <1>2 DEF OwnAliases
<1>8. Main \in Draft /\ Main.tableid = tableid + 1 /\ Main.alias = alias /\ Len(Main.targets) = 1
  BY <1>2, <1>5, <1>6, <1>7 DEF Draft
<1>9. \A s \in Storage \ borrowed : alias[s] \in Nat /\ alias[s] =< tableid
  BY <1>2 DEF OwnAliases
<1>10. \A s \in Storage \ borrowed : alias[s] =< tableid + 1 /\ alias[s] # tableid + 1
  BY <1>2, <1>9
<1> QED BY <1>2, <1>8, <1>10 DEF Apart, OwnAliases

LEMMA BuildIs ==
    Build = ComputedAll(JoinedAll(Main, storageJoins), filter \o sorts)
BY DEF Build, Main

\* A build keeps aliases apart, whatever the query is.
LEMMA BuildKept == SelectFits => Apart(Build)
<1> SUFFICES ASSUME SelectFits PROVE Apart(Build)
  OBVIOUS
<1>1. PICK js, used : js = storageJoins /\ used = filter \o sorts
  OBVIOUS
<1>2. /\ js \in Seq(Property \X Property) /\ used \in Seq(Property)
      /\ \A k \in 1 .. Len(js) : Joinable(js[k])
      /\ Len(js) \in Nat /\ Len(used) \in Nat
  BY <1>1, ConcatProperties DEF SelectFits, Joinable
<1>3. tableid \in Nat
  BY DEF SelectFits, OwnAliases
<1>4. PICK f : /\ f[0] = Main /\ \A n \in 1 .. Len(js) : f[n] = JoinedTo(f[n - 1], js[n])
               /\ JoinedAll(Main, js) = f[Len(js)]
  <2>1. \E f : JoinsOneByOne(Main, js, f)
    BY <1>2, JoinedAllIs
  <2> QED BY <2>1 DEF JoinsOneByOne
<1>5. PICK S : S = {n \in Nat : n =< Len(js) => Apart(f[n])}
  OBVIOUS
<1>6. 0 \in S
  BY <1>4, <1>5, MainKept
<1>7. ASSUME NEW n \in S PROVE n + 1 \in S
  <2>1. n \in Nat /\ (n =< Len(js) => Apart(f[n]))
    BY <1>5
  <2>2. ASSUME n + 1 =< Len(js) PROVE Apart(f[n + 1])
    <3>1. n + 1 \in 1 .. Len(js) /\ n =< Len(js) /\ n + 1 - 1 = n
      BY <1>2, <2>1, <2>2
    <3>2. f[n + 1] = JoinedTo(f[n], js[n + 1])
      <4>1. PICK m \in 1 .. Len(js) : m = n + 1 /\ m - 1 = n
        BY <2>1, <3>1
      <4> QED BY <1>4, <4>1
    <3> QED BY <1>2, <1>3, <2>1, <3>1, <3>2, JoinedKept
  <2> QED BY <1>5, <2>1, <2>2
<1>8. S = Nat
  BY <1>5, <1>6, <1>7, NumbersAll
<1>9. PICK b : b = f[Len(js)]
  OBVIOUS
<1>10. Apart(b)
  BY <1>2, <1>5, <1>8, <1>9
<1>11. PICK g : /\ g[0] = b /\ \A n \in 1 .. Len(used) : g[n] = Computed(g[n - 1], used[n])
                /\ ComputedAll(b, used) = g[Len(used)]
  <2>1. \E g : ComputedOneByOne(b, used, g)
    BY <1>2, ComputedAllIs
  <2> QED BY <2>1 DEF ComputedOneByOne
<1>12. PICK T : T = {n \in Nat : n =< Len(used) => Apart(g[n])}
  OBVIOUS
<1>13. 0 \in T
  BY <1>10, <1>11, <1>12
<1>14. ASSUME NEW n \in T PROVE n + 1 \in T
  <2>1. n \in Nat /\ (n =< Len(used) => Apart(g[n]))
    BY <1>12
  <2>2. ASSUME n + 1 =< Len(used) PROVE Apart(g[n + 1])
    <3>1. n + 1 \in 1 .. Len(used) /\ n =< Len(used) /\ n + 1 - 1 = n
      BY <1>2, <2>1, <2>2
    <3>2. g[n + 1] = Computed(g[n], used[n + 1])
      <4>1. PICK m \in 1 .. Len(used) : m = n + 1 /\ m - 1 = n
        BY <2>1, <3>1
      <4> QED BY <1>11, <4>1
    <3> QED BY <1>2, <1>3, <2>1, <3>1, <3>2, ComputedKept
  <2> QED BY <1>12, <2>1, <2>2
<1>15. T = Nat
  BY <1>12, <1>13, <1>14, NumbersAll
<1>16. Apart(g[Len(used)])
  BY <1>2, <1>12, <1>15
<1> QED BY <1>1, <1>4, <1>9, <1>11, <1>16, BuildIs
LEMMA MainSound ==
    ASSUME SelectFits, NEW ours \in SUBSET (Storage \ borrowed)
    PROVE  Sound(Main, ours) /\ Whom(Main) = {} /\ Main.tableid = tableid + 1
<1>1. PICK t : t = [as |-> tableid + 1, of |-> "own", nth |-> 1]
  OBVIOUS
<1>2. PICK ts : ts = << t >>
  OBVIOUS
<1>3. Main = [tableid |-> tableid + 1, alias |-> alias, columns |-> {}, targets |-> ts]
  BY <1>1, <1>2 DEF Main
<1>4. PICK b : b = Main
  OBVIOUS
<1>5. b.tableid = tableid + 1 /\ b.columns = {} /\ b.targets = ts
  BY <1>3, <1>4
<1>6. Len(ts) = 1 /\ ts[1] = t
  BY <1>2
<1>7. t.as = tableid + 1 /\ t.of = "own" /\ t.nth = 1
  BY <1>1
<1>8. tableid \in Nat /\ {"own", "main", "related", "misnamed"} \cap Storage = {}
  BY SelectAssumption DEF SelectFits, OwnAliases
<1>9. TargetRight(b, t, ours)
  BY <1>5, <1>7, <1>8 DEF TargetRight
<1>10. TargetsRight(b, ours)
  <2>1. \A i \in 1 .. Len(b.targets) : i = 1
    BY <1>5, <1>6
  <2>2. Len(b.targets) >= 1 /\ b.targets[1] = t
    BY <1>5, <1>6
  <2> QED BY <1>7, <1>9, <2>1, <2>2 DEF TargetsRight
<1>11. Apart(b)
  BY <1>4, MainKept
<1>12. Whom(b) = {}
  <2>1. \A i \in 1 .. Len(b.targets) : b.targets[i].of = "own"
    BY <1>5, <1>6, <1>7
  <2> QED BY <1>8, <2>1 DEF Whom
<1>13. Sound(b, ours)
  BY <1>5, <1>10, <1>11 DEF Sound
<1> QED BY <1>4, <1>5, <1>12, <1>13

\* A build of a clear query has a target of its own for every column.
LEMMA BuildSound ==
    ASSUME SelectFits, NEW ours \in SUBSET (Storage \ borrowed),
           Clear(storageJoins, filter \o sorts, ours)
    PROVE  Sound(Build, ours) /\ Whom(Build) = ours
<1>1. PICK js, used : js = storageJoins /\ used = filter \o sorts
  OBVIOUS
<1>2. Len(js) \in Nat /\ Len(used) \in Nat /\ tableid \in Nat
  BY <1>1, ConcatProperties DEF SelectFits, OwnAliases
<1>3. Clear(js, used, ours)
  BY <1>1
<1>4. PICK f : /\ f[0] = Main /\ \A n \in 1 .. Len(js) : f[n] = JoinedTo(f[n - 1], js[n])
               /\ JoinedAll(Main, js) = f[Len(js)]
  <2>1. \E f : JoinsOneByOne(Main, js, f)
    BY <1>2, JoinedAllIs
  <2> QED BY <2>1 DEF JoinsOneByOne
<1>5. PICK S : S = {n \in Nat : n =< Len(js) =>
                       Sound(f[n], ours) /\ Whom(f[n]) = {js[i][2].at : i \in 1 .. n}}
  OBVIOUS
<1>6. 0 \in S
  <2>1. {js[i][2].at : i \in 1 .. 0} = {}
    OBVIOUS
  <2> QED BY <1>4, <1>5, <2>1, MainSound
<1>7. ASSUME NEW n \in S PROVE n + 1 \in S
  <2>1. n \in Nat
        /\ (n =< Len(js) => Sound(f[n], ours) /\ Whom(f[n]) = {js[i][2].at : i \in 1 .. n})
    BY <1>5
  <2>2. SUFFICES ASSUME n + 1 =< Len(js)
                 PROVE  Sound(f[n + 1], ours)
                        /\ Whom(f[n + 1]) = {js[i][2].at : i \in 1 .. n + 1}
    BY <1>5, <2>1
  <2>3. PICK m \in 1 .. Len(js) : m = n + 1 /\ m - 1 = n
    BY <1>2, <2>1, <2>2
  <2>4. PICK b : b = f[n]
    OBVIOUS
  <2>5. Sound(b, ours) /\ Whom(b) = {js[i][2].at : i \in 1 .. n}
    BY <1>2, <2>1, <2>2, <2>4
  <2>6. f[m] = JoinedTo(b, js[m])
    BY <1>4, <2>3, <2>4
  <2>7. PICK j : j = js[m]
    OBVIOUS
  <2>8. /\ Joinable(j) /\ j[2].at \in ours /\ j[1].at \in ours \cup {"main", "own"}
        /\ j[1].at = "own" => m = 1
    BY <1>3, <2>7 DEF Clear
  <2>9. j[2].at \notin Whom(b)
    <3>1. ASSUME NEW i \in 1 .. n, js[i][2].at = j[2].at PROVE FALSE
      <4>1. i \in 1 .. Len(js) /\ i # m
        BY <1>2, <2>1, <2>3, <3>1
      <4> QED BY <1>3, <2>7, <3>1, <4>1 DEF Clear
    <3> QED BY <2>5, <3>1
  <2>10. Nameable(b, j[1], ours)
    <3>1. j[1].at = "own" => b.tableid = tableid + 1
      <4>1. m = 1 => b = Main
        BY <1>4, <2>1, <2>3, <2>4
      <4> QED BY <2>8, <4>1, MainSound
    <3>2. j[1] \in Property
      BY <2>8 DEF Joinable
    <3> QED BY <2>8, <3>1, <3>2 DEF Nameable
  <2>11. Sound(JoinedTo(b, j), ours) /\ Whom(JoinedTo(b, j)) = Whom(b) \cup {j[2].at}
    BY <1>2, <2>5, <2>8, <2>9, <2>10, JoinedSound
  <2>12. {js[i][2].at : i \in 1 .. n + 1} = {js[i][2].at : i \in 1 .. n} \cup {js[m][2].at}
    <3>1. 1 .. n + 1 = (1 .. n) \cup {m}
      BY <2>1, <2>3
    <3> QED BY <3>1
  <2> QED BY <2>3, <2>5, <2>6, <2>7, <2>11, <2>12
<1>8. S = Nat
  BY <1>5, <1>6, <1>7, NumbersAll
<1>9. PICK b : b = f[Len(js)]
  OBVIOUS
<1>10. Sound(b, ours) /\ Whom(b) = {js[i][2].at : i \in 1 .. Len(js)}
       /\ (Len(js) = 0 => b.tableid = tableid + 1)
  <2>1. PICK l \in Nat : l = Len(js)
    BY <1>2
  <2>2. l \in S /\ l =< Len(js) /\ b = f[l]
    BY <1>8, <1>9, <2>1
  <2>3. Sound(b, ours) /\ Whom(b) = {js[i][2].at : i \in 1 .. l}
    BY <1>5, <2>2
  <2>4. l = 0 => b = Main
    BY <1>4, <2>2
  <2> QED BY <2>1, <2>3, <2>4, MainSound
<1>11. Whom(b) = ours
  <2>1. /\ \A k \in 1 .. Len(js) : js[k][2].at \in ours
        /\ \A s \in ours : \E k \in 1 .. Len(js) : js[k][2].at = s
    BY <1>3 DEF Clear
  <2> QED BY <1>10, <2>1
<1>12. PICK g : /\ g[0] = b /\ \A n \in 1 .. Len(used) : g[n] = Computed(g[n - 1], used[n])
                /\ ComputedAll(b, used) = g[Len(used)]
  <2>1. Len(used) \in Nat
    BY <1>2
  <2>2. \E g : ComputedOneByOne(b, used, g)
    BY <2>1, ComputedAllIs
  <2> QED BY <2>2 DEF ComputedOneByOne
<1>13. PICK T : T = {n \in Nat : n =< Len(used) =>
                        /\ Sound(g[n], ours) /\ Whom(g[n]) = ours
                        /\ Len(js) = 0 /\ (\A m \in 1 .. n : used[m].via = "no") =>
                              g[n].tableid = tableid + 1}
  OBVIOUS
<1>14. 0 \in T
  BY <1>10, <1>11, <1>12, <1>13
<1>15. ASSUME NEW n \in T PROVE n + 1 \in T
  <2>1. n \in Nat
        /\ (n =< Len(used) => /\ Sound(g[n], ours) /\ Whom(g[n]) = ours
                              /\ Len(js) = 0 /\ (\A m \in 1 .. n : used[m].via = "no") =>
                                    g[n].tableid = tableid + 1)
    BY <1>13
  <2>2. SUFFICES ASSUME n + 1 =< Len(used)
                 PROVE  /\ Sound(g[n + 1], ours) /\ Whom(g[n + 1]) = ours
                        /\ Len(js) = 0 /\ (\A m \in 1 .. n + 1 : used[m].via = "no") =>
                              g[n + 1].tableid = tableid + 1
    BY <1>13, <2>1
  <2>3. PICK m \in 1 .. Len(used) : m = n + 1 /\ m - 1 = n
    BY <1>2, <2>1, <2>2
  <2>4. PICK c : c = g[n]
    OBVIOUS
  <2>5. /\ Sound(c, ours) /\ Whom(c) = ours
        /\ Len(js) = 0 /\ (\A k \in 1 .. n : used[k].via = "no") => c.tableid = tableid + 1
    BY <1>2, <2>1, <2>2, <2>4
  <2>6. PICK p : p = used[m]
    OBVIOUS
  <2>7. g[m] = Computed(c, p)
    BY <1>12, <2>3, <2>4, <2>6
  <2>8. /\ p \in Property /\ p.at \in ours \cup {"main", "own"}
        /\ p.at = "own" => Len(js) = 0 /\ \A k \in 1 .. n : used[k].via = "no"
    BY <1>3, <2>3, <2>6 DEF Clear
  <2>9. Nameable(c, p, ours)
    BY <2>5, <2>8 DEF Nameable
  <2>10. /\ Sound(Computed(c, p), ours) /\ Whom(Computed(c, p)) = Whom(c)
         /\ p.at \in {"main", "own"} /\ p.via = "no" => Computed(c, p).tableid = c.tableid
    BY <1>2, <2>5, <2>9, ComputedSound
  <2>11. Len(js) = 0 => p.at \in {"main", "own"}
    <3>1. ASSUME Len(js) = 0 PROVE ours = {}
      BY <1>3, <3>1 DEF Clear
    <3> QED BY <2>8, <3>1
  <2>12. \A k \in 1 .. n : k \in 1 .. m
    BY <2>1, <2>3
  <2>13. m \in 1 .. m
    BY <1>2, <2>3
  <2> QED BY <2>3, <2>5, <2>6, <2>7, <2>10, <2>11, <2>12, <2>13
<1>16. T = Nat
  BY <1>13, <1>14, <1>15, NumbersAll
<1>17. Sound(g[Len(used)], ours) /\ Whom(g[Len(used)]) = ours
  BY <1>2, <1>13, <1>16
<1> QED BY <1>1, <1>4, <1>9, <1>12, <1>17, BuildIs
-----------------------------------------------------------------------------
\* That columns resolve, with the statement as a parameter.
Resolves(c, targets) ==
    \E t \in ToSet(targets) :
        /\ {u \in ToSet(targets) : u.as = c.as} = {t}
        /\ t.of = IF c.of = "misnamed" THEN "related" ELSE c.of
        /\ c.of \in {"related", "misnamed"} => t.nth = c.nth

FairIn(q, strange) ==
    /\ Uses(q) \cap strange = {}
    /\ \A s \in Uses(q) \cap Storage : \E k \in DOMAIN q[1] : JoinsOf(q, s) = {k}
    /\ ~NamesItself(q)

ResolveIn(st, strange) ==
    st.targets # <<>> /\ FairIn(st.of, strange) => \A c \in st.columns : Resolves(c, st.targets)

LEMMA ResolveNow == ColumnsResolve <=> ResolveIn(statement, borrowed)
BY Zenon DEF ColumnsResolve, ResolveIn, FairIn, Resolves

LEMMA ResolveLater == ColumnsResolve' <=> ResolveIn(statement', borrowed')
BY Zenon DEF ColumnsResolve, ResolveIn, FairIn, Resolves

LEMMA SoundResolves ==
    ASSUME NEW ours \in SUBSET (Storage \ borrowed), NEW b, Sound(b, ours), Whom(b) = ours,
           NEW c \in b.columns
    PROVE  Resolves(c, b.targets)
<1>1. PICK ts \in Seq(Target) : ts = b.targets
  BY DEF Sound, Apart, Draft
<1>2. Len(ts) \in Nat /\ DOMAIN ts = 1 .. Len(ts)
  BY <1>1
<1>3. ColumnRight(b, c, ours) /\ TargetsRight(b, ours)
  BY DEF Sound
<1>4. \E i \in 1 .. Len(ts) :
         /\ ts[i].as = c.as /\ ts[i].of = IF c.of = "misnamed" THEN "related" ELSE c.of
         /\ c.of \in {"related", "misnamed"} => ts[i].nth = c.nth
  <2>1. CASE c.of = "own" /\ c.as = tableid + 1
    <3>1. 1 \in 1 .. Len(ts) /\ ts[1].as = tableid + 1 /\ ts[1].of = "own"
      BY <1>1, <1>2, <1>3 DEF TargetsRight
    <3> QED BY <2>1, <3>1
  <2>2. CASE c.of \in ours /\ c.as = b.alias[c.of]
    <3>1. PICK i \in 1 .. Len(ts) : ts[i].of = c.of
      BY <1>1, <2>2 DEF Whom
    <3>2. TargetRight(b, ts[i], ours)
      BY <1>1, <1>3, <3>1 DEF TargetsRight
    <3>3. ts[i].as = c.as
      BY <2>2, <3>1, <3>2 DEF TargetRight
    <3>4. c.of \notin {"related", "misnamed"}
      BY <2>2, SelectAssumption
    <3> QED BY <3>1, <3>3, <3>4
  <2>3. CASE /\ c.of \in {"related", "misnamed"}
             /\ \E i \in 1 .. Len(b.targets) : LeadsTo(b.targets[i], c)
    BY <1>1, <2>3 DEF LeadsTo
  <2> QED BY <1>3, <2>1, <2>2, <2>3 DEF ColumnRight
<1>5. PICK i \in 1 .. Len(ts) :
         /\ ts[i].as = c.as /\ ts[i].of = IF c.of = "misnamed" THEN "related" ELSE c.of
         /\ c.of \in {"related", "misnamed"} => ts[i].nth = c.nth
  BY <1>4
<1>6. \A j \in 1 .. Len(ts) : ts[j].as = c.as => j = i
  BY <1>1, <1>3, <1>5 DEF TargetsRight
<1>7. ToSet(ts) = {ts[j] : j \in 1 .. Len(ts)}
  BY <1>2 DEF ToSet
<1>8. {u \in ToSet(ts) : u.as = c.as} = {ts[i]} /\ ts[i] \in ToSet(ts)
  BY <1>5, <1>6, <1>7
<1> QED BY <1>1, <1>5, <1>8 DEF Resolves

LEMMA ExecuteResolves ==
    ASSUME SelectFits, ExecuteSelect
    PROVE  SelectFits' /\ ColumnsResolve'
<1>1. PICK b : b = Build
  OBVIOUS
<1>2. PICK q : q = <<storageJoins, filter, sorts>>
  OBVIOUS
<1>3. /\ tableid' = b.tableid /\ alias' = b.alias
      /\ statement' = [targets |-> b.targets, columns |-> b.columns, of |-> q]
      /\ UNCHANGED <<storageJoins, filter, sorts, borrowed>>
  BY <1>1, <1>2 DEF ExecuteSelect
<1>4. Apart(b)
  BY <1>1, BuildKept
<1>5. SelectFits'
  BY <1>3, <1>4 DEF SelectFits, Apart, OwnAliases
<1>6. ASSUME FairIn(q, borrowed), NEW c \in b.columns PROVE Resolves(c, b.targets)
  <2>1. Fair(q)
    BY <1>6 DEF Fair, FairIn
  <2>2. PICK ours : ours = Uses(q) \cap Storage
    OBVIOUS
  <2>3. ours \in SUBSET (Storage \ borrowed) /\ Clear(storageJoins, filter \o sorts, ours)
    BY <1>2, <2>1, <2>2, FairClear
  <2>4. Sound(b, ours) /\ Whom(b) = ours
    BY <1>1, <2>3, BuildSound
  <2> QED BY <1>6, <2>3, <2>4, SoundResolves
<1>7. ResolveIn(statement', borrowed')
  <2>1. statement'.of = q /\ statement'.targets = b.targets /\ statement'.columns = b.columns
    BY <1>3
  <2> QED BY <1>3, <1>6, <2>1 DEF ResolveIn
<1> QED BY <1>5, <1>7, ResolveLater

LEMMA SelectStarts == SelectInit => SelectFits /\ ColumnsResolve
<1> SUFFICES ASSUME SelectInit PROVE SelectFits /\ ColumnsResolve
  OBVIOUS
<1>1. statement.targets = <<>>
  BY DEF SelectInit
<1>2. ColumnsResolve
  BY <1>1, ResolveNow DEF ResolveIn
<1>3. OwnAliases(alias, tableid)
  <2>1. \A s \in Storage \ borrowed : alias[s] = 0
    BY DEF SelectInit
  <2>2. alias \in [Storage \cup {"own"} -> Nat]
    <3>1. alias \in [Storage \cup {"own"} -> {0} \cup Borrowed] /\ {0} \cup Borrowed \subseteq Nat
      BY SelectAssumption DEF SelectInit
    <3> QED BY <3>1
  <2> QED BY <2>1, <2>2 DEF OwnAliases, SelectInit
<1>4. storageJoins = <<>> /\ filter = <<>> /\ sorts = <<>>
  BY DEF SelectInit
<1>5. storageJoins \in Seq(Property \X Property) /\ Len(storageJoins) = 0
      /\ filter \in Seq(Property) /\ sorts \in Seq(Property)
  BY <1>4
<1>6. \A k \in 1 .. Len(storageJoins) : FALSE
  BY <1>5
<1> QED BY <1>2, <1>3, <1>5, <1>6 DEF SelectFits

LEMMA ResolveStays ==
    ASSUME ColumnsResolve, UNCHANGED <<statement, borrowed>> PROVE ColumnsResolve'
BY ResolveNow, ResolveLater

LEMMA SelectStepKeeps ==
    SelectFits /\ ColumnsResolve /\ (SelectNext \/ UNCHANGED selectVars)
        => SelectFits' /\ ColumnsResolve'
<1> SUFFICES ASSUME SelectFits, ColumnsResolve, SelectNext \/ UNCHANGED selectVars
             PROVE  SelectFits' /\ ColumnsResolve'
  OBVIOUS
<1>1. CASE \E l, r \in Place : AddJoin(Plain(l), Plain(r))
  <2>1. PICK l \in Place, r \in Place : AddJoin(Plain(l), Plain(r))
    BY <1>1
  <2>2. PICK p \in Property, s \in Property : p = Plain(l) /\ s = Plain(r)
    BY DEF Plain, Property
  <2>3. /\ s.at # "main" /\ storageJoins' = Append(storageJoins, <<p, s>>)
        /\ UNCHANGED <<alias, tableid, filter, sorts, statement, borrowed>>
    BY <2>1, <2>2 DEF AddJoin
  <2>4. PICK j : j = <<p, s>>
    OBVIOUS
  <2>5. j \in Property \X Property /\ j[2].at # "main"
    BY <2>3, <2>4
  <2>6. storageJoins \in Seq(Property \X Property)
        /\ \A k \in 1 .. Len(storageJoins) : storageJoins[k][2].at # "main"
    BY DEF SelectFits
  <2>7. PICK js : js = storageJoins'
    OBVIOUS
  <2>8. PICK n \in Nat : n = Len(storageJoins)
    BY <2>6
  <2>9. /\ js \in Seq(Property \X Property) /\ Len(js) = n + 1 /\ js[n + 1] = j
        /\ \A k \in 1 .. n : js[k] = storageJoins[k]
    BY <2>3, <2>4, <2>5, <2>6, <2>7, <2>8, AppendProperties
  <2>10. \A k \in 1 .. n + 1 : k \in 1 .. n \/ k = n + 1
    BY <2>8
  <2>11. \A k \in 1 .. Len(js) : js[k][2].at # "main"
    BY <2>5, <2>6, <2>8, <2>9, <2>10
  <2> QED BY <2>3, <2>7, <2>9, <2>11, ResolveStays DEF SelectFits, OwnAliases
<1>2. CASE \E p \in Property : SetConstraint(<<p>>)
  <2>1. PICK p \in Property : SetConstraint(<<p>>)
    BY <1>2
  <2>2. filter' = <<p>> /\ UNCHANGED <<alias, tableid, storageJoins, sorts, statement, borrowed>>
    BY <2>1 DEF SetConstraint
  <2>3. filter' \in Seq(Property)
    BY <2>2
  <2> QED BY <2>2, <2>3, ResolveStays DEF SelectFits, OwnAliases
<1>3. CASE \E p \in Property : AddSort(p)
  <2>1. PICK p \in Property : AddSort(p)
    BY <1>3
  <2>2. sorts' = Append(sorts, p)
        /\ UNCHANGED <<alias, tableid, storageJoins, filter, statement, borrowed>>
    BY <2>1 DEF AddSort
  <2>3. sorts' \in Seq(Property)
    BY <2>2, AppendProperties DEF SelectFits
  <2> QED BY <2>2, <2>3, ResolveStays DEF SelectFits, OwnAliases
<1>4. CASE ExecuteSelect
  BY <1>4, ExecuteResolves
<1>5. CASE UNCHANGED selectVars
  BY <1>5, ResolveStays DEF SelectFits, OwnAliases, selectVars
<1> QED BY <1>1, <1>2, <1>3, <1>4, <1>5 DEF SelectNext

-----------------------------------------------------------------------------
(* Both kinds of query                                                     *)

QueriesInvariant == BuilderInvariant /\ SelectFits /\ ColumnsResolve

\* Whatever names, rows, storages and calls: a plain user is answered with
\* himself, no object comes twice but for its attachments, a count is that of
\* the objects (query_builder.c, 549-680), and every column of a select is one
\* of the table meant (midgard_core_query.c, from 2207 on).
THEOREM QueriesAnswerRight == QueriesSpec => []QueriesAnswer
<1>1. QueriesInit => QueriesInvariant
  BY BuilderStarts, SelectStarts DEF QueriesInit, QueriesInvariant
<1>2. QueriesInvariant /\ [QueriesNext]_queriesVars => QueriesInvariant'
  <2>1. SUFFICES ASSUME QueriesInvariant, [QueriesNext]_queriesVars PROVE QueriesInvariant'
    OBVIOUS
  <2>2. /\ BuilderNext \/ UNCHANGED builderVars
        /\ SelectNext \/ UNCHANGED selectVars
    BY <2>1 DEF QueriesNext, BuilderStep, SelectStep, queriesVars
  <2>3. BuilderInvariant'
    BY <2>1, <2>2, BuilderStepKeeps, BuilderRests DEF QueriesInvariant
  <2>4. SelectFits' /\ ColumnsResolve'
    BY <2>1, <2>2, SelectStepKeeps DEF QueriesInvariant
  <2> QED BY <2>3, <2>4 DEF QueriesInvariant
<1>3. QueriesInvariant => QueriesAnswer
  BY DEF QueriesInvariant, BuilderInvariant, QueriesAnswer
<1> QED BY <1>1, <1>2, <1>3, PTL DEF QueriesSpec
-----------------------------------------------------------------------------
(* The query builder: its groups                                           *)

\* The history with the sequence as a parameter.
Kinds == {"AND", "OR"}
ManyIn(s, from, to, types) == Cardinality({m \in from .. to : s[m].type \in types})
AroundIn(s, k) ==
    {b \in 1 .. k - 1 :
        /\ s[b].type \in Kinds
        /\ \A m \in b + 1 .. k - 1 : ManyIn(s, b + 1, m, {"end"}) =< ManyIn(s, b + 1, m, Kinds)}
WithinIn(s, k) == IF AroundIn(s, k) = {} THEN 0 ELSE Max(AroundIn(s, k))

LEMMA WithinNow == \A k : Within(k) = WithinIn(asked, k)
BY DEF Within, WithinIn, AroundIn, ManyIn, Kinds

LEMMA ManyMore ==
    ASSUME NEW s, NEW types, NEW from \in Nat, NEW to \in Nat, from =< to + 1
    PROVE  /\ ManyIn(s, from, to, types) \in Nat
           /\ ManyIn(s, from, to + 1, types) =
                 IF s[to + 1].type \in types THEN ManyIn(s, from, to, types) + 1
                 ELSE ManyIn(s, from, to, types)
<1>1. PICK A : A = {m \in from .. to : s[m].type \in types}
  OBVIOUS
<1>2. PICK B : B = {m \in from .. to + 1 : s[m].type \in types}
  OBVIOUS
<1>3. IsFiniteSet(A)
  <2>1. IsFiniteSet(from .. to)
    BY FS_Interval
  <2>2. A \in SUBSET (from .. to)
    BY <1>1
  <2> QED BY <2>1, <2>2, FS_Subset
<1>4. Cardinality(A) \in Nat
  BY <1>3, FS_CardinalityType
<1>5. B = IF s[to + 1].type \in types THEN A \cup {to + 1} ELSE A
  BY <1>1, <1>2
<1>6. to + 1 \notin A
  BY <1>1
<1>7. Cardinality(A \cup {to + 1}) = Cardinality(A) + 1
  BY <1>3, <1>6, FS_AddElement
<1>8. Cardinality(B) = IF s[to + 1].type \in types THEN Cardinality(A) + 1 ELSE Cardinality(A)
  BY <1>5, <1>7
<1> QED BY <1>1, <1>2, <1>4, <1>8 DEF ManyIn

LEMMA ManyNone ==
    ASSUME NEW s, NEW types, NEW from \in Nat, NEW to \in Nat, to < from
    PROVE  ManyIn(s, from, to, types) = 0
<1>1. {m \in from .. to : s[m].type \in types} = {}
  OBVIOUS
<1> QED BY <1>1, FS_EmptySet DEF ManyIn

LEMMA ManySame ==
    ASSUME NEW s, NEW t, NEW types, NEW from \in Nat, NEW to \in Nat,
           \A m \in from .. to : s[m] = t[m]
    PROVE  ManyIn(s, from, to, types) = ManyIn(t, from, to, types)
<1>1. {m \in from .. to : s[m].type \in types} = {m \in from .. to : t[m].type \in types}
  OBVIOUS
<1> QED BY <1>1 DEF ManyIn

\* What was asked before says where one is.
LEMMA AroundSame ==
    ASSUME NEW s, NEW t, NEW k \in Nat, \A m \in 1 .. k - 1 : s[m] = t[m]
    PROVE  AroundIn(s, k) = AroundIn(t, k) /\ WithinIn(s, k) = WithinIn(t, k)
<1>1. \A types : \A b, m \in 1 .. k - 1 :
          ManyIn(s, b + 1, m, types) = ManyIn(t, b + 1, m, types)
  <2>1. SUFFICES ASSUME NEW b \in 1 .. k - 1, NEW m \in 1 .. k - 1, NEW types
                 PROVE  ManyIn(s, b + 1, m, types) = ManyIn(t, b + 1, m, types)
    OBVIOUS
  <2>2. \A i \in b + 1 .. m : s[i] = t[i]
    OBVIOUS
  <2> QED BY <2>2, ManySame
<1>2. \A b \in 1 .. k - 1 : \A m \in b + 1 .. k - 1 : m \in 1 .. k - 1
  OBVIOUS
<1>3. ASSUME NEW b \in 1 .. k - 1 PROVE b \in AroundIn(s, k) <=> b \in AroundIn(t, k)
  <2>1. s[b].type = t[b].type
    OBVIOUS
  <2>2. \A m \in b + 1 .. k - 1 :
            /\ ManyIn(s, b + 1, m, {"end"}) = ManyIn(t, b + 1, m, {"end"})
            /\ ManyIn(s, b + 1, m, Kinds) = ManyIn(t, b + 1, m, Kinds)
    BY <1>1, <1>2
  <2> QED BY <2>1, <2>2 DEF AroundIn
<1>4. AroundIn(s, k) \subseteq 1 .. k - 1 /\ AroundIn(t, k) \subseteq 1 .. k - 1
  BY DEF AroundIn
<1>5. AroundIn(s, k) = AroundIn(t, k)
  BY <1>3, <1>4
<1> QED BY <1>5 DEF WithinIn

\* One thing more.
LEMMA AroundMore ==
    ASSUME NEW s, NEW n \in Nat
    PROVE  \A b : b \in AroundIn(s, n + 1 + 1) <=>
               \/ b = n + 1 /\ s[n + 1].type \in Kinds
               \/ /\ b \in AroundIn(s, n + 1)
                  /\ ManyIn(s, b + 1, n + 1, {"end"}) =< ManyIn(s, b + 1, n + 1, Kinds)
<1>1. n + 1 - 1 = n /\ n + 1 + 1 - 1 = n + 1
  OBVIOUS
<1>2. \A b : b \in AroundIn(s, n + 1) <=>
          /\ b \in 1 .. n /\ s[b].type \in Kinds
          /\ \A m \in b + 1 .. n : ManyIn(s, b + 1, m, {"end"}) =< ManyIn(s, b + 1, m, Kinds)
  BY <1>1 DEF AroundIn
<1>3. \A b : b \in AroundIn(s, n + 1 + 1) <=>
          /\ b \in 1 .. n + 1 /\ s[b].type \in Kinds
          /\ \A m \in b + 1 .. n + 1 :
                 ManyIn(s, b + 1, m, {"end"}) =< ManyIn(s, b + 1, m, Kinds)
  BY <1>1 DEF AroundIn
<1>4. ASSUME NEW b \in 1 .. n
      PROVE  \A m : m \in b + 1 .. n + 1 <=> m \in b + 1 .. n \/ m = n + 1
  OBVIOUS
<1>5. \A m : m \notin n + 1 + 1 .. n + 1
  OBVIOUS
<1>6. \A b : b \in 1 .. n + 1 <=> b \in 1 .. n \/ b = n + 1
  OBVIOUS
<1>7. \A b \in 1 .. n : b # n + 1
  OBVIOUS
<1>8. ASSUME NEW b \in 1 .. n
      PROVE  b \in AroundIn(s, n + 1 + 1) <=>
                 /\ b \in AroundIn(s, n + 1)
                 /\ ManyIn(s, b + 1, n + 1, {"end"}) =< ManyIn(s, b + 1, n + 1, Kinds)
  BY <1>2, <1>3, <1>4, <1>6
<1>9. n + 1 \in AroundIn(s, n + 1 + 1) <=> s[n + 1].type \in Kinds
  BY <1>3, <1>5, <1>6
<1>10. n + 1 \notin AroundIn(s, n + 1)
  BY <1>2, <1>7
<1>11. \A b : b \notin 1 .. n + 1 => b \notin AroundIn(s, n + 1) /\ b \notin AroundIn(s, n + 1 + 1)
  BY <1>2, <1>3, <1>6
<1> QED BY <1>6, <1>7, <1>8, <1>9, <1>10, <1>11
-----------------------------------------------------------------------------
\* The conditions a builder can have.
Compared ==
    [name : Name \cup {<<"guid">>}, op : {"=", "invalid"}, with : Name \cup {<<>>},
     val : {"yes", "none"} \cup {r.guid : r \in Rows["thing"]}]

Entry == [type : {"AND", "OR", "is", "end"}, conds : SUBSET Compared]
Grouped == [type : {"AND", "OR"}, conds : SUBSET Compared, parent : Nat]

\* Where a group was begun.
BegunAt(pos, g) == IF g = 0 THEN 0 ELSE pos[g]

\* The groups gs are those of the history s: the g-th was begun at pos[g].
Drawn(s, gs, pos) ==
    /\ pos \in [1 .. Len(gs) -> 1 .. Len(s)]
    /\ \A g, h \in 1 .. Len(gs) : g < h => pos[g] < pos[h]
    /\ \A k \in 1 .. Len(s) : s[k].type \in Kinds => \E g \in 1 .. Len(gs) : k = pos[g]
    /\ \A g \in 1 .. Len(gs) :
           /\ s[pos[g]].type = gs[g].type
           /\ gs[g].parent \in 0 .. g - 1
           /\ WithinIn(s, pos[g]) = BegunAt(pos, gs[g].parent)

\* Each condition is where it was asked: outside all groups, or in one.
Sorted(s, gs, cs, pos) ==
    /\ \A k \in 1 .. Len(s) : s[k].type = "is" =>
           /\ \E c : s[k].conds = {c}
           /\ \E g \in 0 .. Len(gs) : WithinIn(s, k) = BegunAt(pos, g)
    /\ \A c : c \in cs <=>
           \E k \in 1 .. Len(s) : s[k].type = "is" /\ c \in s[k].conds /\ WithinIn(s, k) = 0
    /\ \A g \in 1 .. Len(gs) : \A c : c \in gs[g].conds <=>
           \E k \in 1 .. Len(s) :
               s[k].type = "is" /\ c \in s[k].conds /\ WithinIn(s, k) = pos[g]

\* The groups that are open, from the outermost to the innermost.
Stacked(s, gs, op, ne, pos, st) ==
    /\ st \in [1 .. ne -> 1 .. Len(gs)]
    /\ op = IF ne = 0 THEN 0 ELSE st[ne]
    /\ \A i \in 1 .. ne : gs[st[i]].parent = IF i = 1 THEN 0 ELSE st[i - 1]
    /\ \A i, j \in 1 .. ne : i < j => st[i] < st[j]
    /\ AroundIn(s, Len(s) + 1) = {pos[st[i]] : i \in 1 .. ne}
    /\ \A i \in 1 .. ne :
           ManyIn(s, pos[st[i]] + 1, Len(s), Kinds) =
               ManyIn(s, pos[st[i]] + 1, Len(s), {"end"}) + (ne - i)

Traced(s, gs, cs, op, ne, pos, st) ==
    /\ s \in Seq(Entry) /\ gs \in Seq(Grouped) /\ cs \in SUBSET Compared /\ ne \in Nat
    /\ Drawn(s, gs, pos)
    /\ Sorted(s, gs, cs, pos)
    /\ Stacked(s, gs, op, ne, pos, st)

\* Whatever is asked next is in the innermost group that is open.
LEMMA NextWithin ==
    ASSUME NEW s, NEW gs, NEW op, NEW ne \in Nat, NEW pos, NEW st,
           s \in Seq(Entry), gs \in Seq(Grouped), Drawn(s, gs, pos), Stacked(s, gs, op, ne, pos, st)
    PROVE  /\ op \in 0 .. Len(gs) /\ (op = 0 <=> ne = 0)
           /\ WithinIn(s, Len(s) + 1) = BegunAt(pos, op)
<1>1. PICK n \in Nat : n = Len(s)
  OBVIOUS
<1>2. PICK l \in Nat : l = Len(gs)
  OBVIOUS
<1>3. pos \in [1 .. l -> 1 .. n] /\ \A g, h \in 1 .. l : g < h => pos[g] < pos[h]
  BY <1>1, <1>2 DEF Drawn
<1>4. /\ st \in [1 .. ne -> 1 .. l]
      /\ op = IF ne = 0 THEN 0 ELSE st[ne]
      /\ \A i, j \in 1 .. ne : i < j => st[i] < st[j]
      /\ AroundIn(s, n + 1) = {pos[st[i]] : i \in 1 .. ne}
  BY <1>1, <1>2 DEF Stacked
<1>5. CASE ne = 0
  <2>1. AroundIn(s, n + 1) = {}
    BY <1>4, <1>5
  <2> QED BY <1>1, <1>2, <1>4, <1>5, <2>1 DEF WithinIn, BegunAt
<1>6. CASE ne # 0
  <2>1. ne \in 1 .. ne /\ op = st[ne] /\ op \in 1 .. l
    BY <1>4, <1>6
  <2>2. PICK A : A = AroundIn(s, n + 1)
    OBVIOUS
  <2>3. pos[op] \in A
    BY <1>4, <2>1, <2>2
  <2>4. \A y \in A : pos[op] >= y
    <3>1. SUFFICES ASSUME NEW i \in 1 .. ne PROVE pos[op] >= pos[st[i]]
      BY <1>4, <2>2
    <3>2. st[i] \in 1 .. l /\ pos[st[i]] \in 1 .. n /\ pos[op] \in 1 .. n
      BY <1>3, <1>4, <2>1
    <3>3. CASE i = ne
      BY <2>1, <3>2, <3>3
    <3>4. CASE i < ne
      <4>1. st[i] < op
        BY <1>4, <2>1, <3>4
      <4>2. pos[st[i]] < pos[op]
        BY <1>3, <2>1, <3>2, <4>1
      <4> QED BY <3>2, <4>2
    <3> QED BY <3>3, <3>4
  <2>5. A \subseteq 1 .. n
    BY <1>3, <1>4, <2>2
  <2>6. Max(A) \in A /\ \A y \in A : Max(A) >= y
    BY <2>3, <2>5, LargestThere
  <2>7. Max(A) = pos[op]
    <3>1. PICK m \in 1 .. n : m = Max(A)
      BY <2>5, <2>6
    <3>2. PICK p \in 1 .. n : p = pos[op]
      BY <2>3, <2>5
    <3>3. m >= p /\ p >= m
      BY <2>3, <2>4, <2>6, <3>1, <3>2
    <3> QED BY <3>1, <3>2, <3>3
  <2> QED BY <1>1, <1>2, <2>1, <2>2, <2>3, <2>7, <1>6 DEF WithinIn, BegunAt
<1> QED BY <1>5, <1>6

\* A history t that goes on with e is what it was.
Continues(s, e, t) ==
    /\ t \in Seq(Entry)
    /\ Len(t) = Len(s) + 1
    /\ \A k \in 1 .. Len(s) : t[k] = s[k]
    /\ t[Len(s) + 1] = e
    /\ \A k \in 1 .. Len(s) + 1 : /\ WithinIn(t, k) = WithinIn(s, k)
                                  /\ AroundIn(t, k) = AroundIn(s, k)
    /\ \A types : \A from \in Nat : from >= 1 =>
           ManyIn(t, from, Len(s), types) = ManyIn(s, from, Len(s), types)

LEMMA GoesOn ==
    ASSUME NEW s \in Seq(Entry), NEW e \in Entry
    PROVE  Continues(s, e, Append(s, e))
<1>1. PICK n \in Nat : n = Len(s)
  OBVIOUS
<1>2. PICK t : t = Append(s, e)
  OBVIOUS
<1>3. t \in Seq(Entry) /\ Len(t) = n + 1 /\ (\A k \in 1 .. n : t[k] = s[k]) /\ t[n + 1] = e
  BY <1>1, <1>2, AppendProperties
<1>4. ASSUME NEW k \in 1 .. n + 1
      PROVE  WithinIn(t, k) = WithinIn(s, k) /\ AroundIn(t, k) = AroundIn(s, k)
  <2>1. \A m \in 1 .. k - 1 : m \in 1 .. n
    OBVIOUS
  <2>2. k \in Nat /\ \A m \in 1 .. k - 1 : t[m] = s[m]
    BY <1>3, <2>1
  <2> QED BY <2>2, AroundSame
<1>5. ASSUME NEW from \in Nat, NEW types, from >= 1
      PROVE  ManyIn(t, from, n, types) = ManyIn(s, from, n, types)
  <2>1. \A m \in from .. n : t[m] = s[m]
    BY <1>3, <1>5
  <2> QED BY <2>1, ManySame
<1> QED BY <1>1, <1>2, <1>3, <1>4, <1>5 DEF Continues

\* How one more call changes what is open.
Grows(s, e, t, ne, pos, st) ==
    /\ \A b : b \in AroundIn(t, Len(s) + 1 + 1) <=>
           \/ b = Len(s) + 1 /\ e.type \in Kinds
           \/ \E i \in 1 .. ne : b = pos[st[i]] /\ (e.type = "end" => i < ne)
    /\ \A i \in 1 .. ne :
           ManyIn(t, pos[st[i]] + 1, Len(s) + 1, Kinds)
               + (IF e.type = "end" THEN 1 ELSE 0) =
           ManyIn(t, pos[st[i]] + 1, Len(s) + 1, {"end"})
               + (ne - i) + (IF e.type \in Kinds THEN 1 ELSE 0)

LEMMA OneMore ==
    ASSUME NEW s \in Seq(Entry), NEW gs, NEW op, NEW ne \in Nat, NEW pos, NEW st,
           Drawn(s, gs, pos), Stacked(s, gs, op, ne, pos, st), Len(gs) \in Nat,
           NEW e \in Entry, NEW t, Continues(s, e, t)
    PROVE  Grows(s, e, t, ne, pos, st)
<1>1. PICK n \in Nat : n = Len(s)
  OBVIOUS
<1>2. PICK l \in Nat : l = Len(gs)
  OBVIOUS
<1>3. pos \in [1 .. l -> 1 .. n] /\ st \in [1 .. ne -> 1 .. l]
  BY <1>1, <1>2 DEF Drawn, Stacked
<1>4. t[n + 1] = e /\ AroundIn(t, n + 1) = AroundIn(s, n + 1)
      /\ \A types : \A from \in Nat : from >= 1 => ManyIn(t, from, n, types) = ManyIn(s, from, n, types)
  <2>1. n + 1 \in 1 .. n + 1
    OBVIOUS
  <2> QED BY <1>1, <2>1 DEF Continues
<1>7. "end" \notin Kinds
  BY DEF Kinds
<1>5. ASSUME NEW i \in 1 .. ne
      PROVE  /\ ManyIn(t, pos[st[i]] + 1, n + 1, {"end"}) \in Nat
             /\ ManyIn(t, pos[st[i]] + 1, n + 1, Kinds) \in Nat
             /\ ManyIn(t, pos[st[i]] + 1, n + 1, Kinds) + (IF e.type = "end" THEN 1 ELSE 0) =
                ManyIn(t, pos[st[i]] + 1, n + 1, {"end"})
                      + (ne - i) + (IF e.type \in Kinds THEN 1 ELSE 0)
  <2>1. PICK b \in 1 .. n : b = pos[st[i]]
    BY <1>3
  <2>2. ManyIn(s, b + 1, n, Kinds) = ManyIn(s, b + 1, n, {"end"}) + (ne - i)
    BY <1>1, <2>1 DEF Stacked
  <2>3. b + 1 \in Nat /\ b + 1 >= 1 /\ b + 1 =< n + 1
    OBVIOUS
  <2>4. ManyIn(t, b + 1, n, Kinds) = ManyIn(t, b + 1, n, {"end"}) + (ne - i)
    BY <1>4, <2>2, <2>3
  <2>12. \A types : /\ ManyIn(t, b + 1, n, types) \in Nat
                    /\ ManyIn(t, b + 1, n + 1, types) =
                          IF t[n + 1].type \in types THEN ManyIn(t, b + 1, n, types) + 1
                          ELSE ManyIn(t, b + 1, n, types)
    BY <2>3, ManyMore
  <2>5. ManyIn(t, b + 1, n, Kinds) \in Nat
        /\ ManyIn(t, b + 1, n + 1, Kinds) = IF e.type \in Kinds THEN ManyIn(t, b + 1, n, Kinds) + 1
                                            ELSE ManyIn(t, b + 1, n, Kinds)
    BY <1>4, <2>12
  <2>6. ManyIn(t, b + 1, n, {"end"}) \in Nat
        /\ ManyIn(t, b + 1, n + 1, {"end"}) = IF e.type = "end" THEN ManyIn(t, b + 1, n, {"end"}) + 1
                                              ELSE ManyIn(t, b + 1, n, {"end"})
    BY <1>4, <2>12
  <2>7. PICK x \in Nat, y \in Nat : x = ManyIn(t, b + 1, n, Kinds) /\ y = ManyIn(t, b + 1, n, {"end"})
    BY <2>5, <2>6
  <2>8. x = y + (ne - i)
    BY <2>4, <2>7
  <2>9. PICK x1 \in Nat, y1 \in Nat : /\ x1 = ManyIn(t, b + 1, n + 1, Kinds)
                                      /\ y1 = ManyIn(t, b + 1, n + 1, {"end"})
                                      /\ x1 = IF e.type \in Kinds THEN x + 1 ELSE x
                                      /\ y1 = IF e.type = "end" THEN y + 1 ELSE y
    BY <2>5, <2>6, <2>7
  <2>10. x1 + (IF e.type = "end" THEN 1 ELSE 0) = y1 + (ne - i) + (IF e.type \in Kinds THEN 1 ELSE 0)
    <3>1. CASE e.type = "end"
      <4>1. x1 = x /\ y1 = y + 1
        BY <1>7, <2>9, <3>1
      <4>2. x1 + 1 = y1 + (ne - i) + 0
        BY <2>8, <4>1
      <4> QED BY <1>7, <3>1, <4>2
    <3>2. CASE e.type # "end" /\ e.type \in Kinds
      <4>1. x1 = x + 1 /\ y1 = y
        BY <2>9, <3>2
      <4>2. x1 + 0 = y1 + (ne - i) + 1
        BY <2>8, <4>1
      <4> QED BY <3>2, <4>2
    <3>3. CASE e.type # "end" /\ e.type \notin Kinds
      <4>1. x1 = x /\ y1 = y
        BY <2>9, <3>3
      <4>2. x1 + 0 = y1 + (ne - i) + 0
        BY <2>8, <4>1
      <4> QED BY <3>3, <4>2
    <3> QED BY <3>1, <3>2, <3>3
  <2> QED BY <2>1, <2>9, <2>10
<1>6. \A b : b \in AroundIn(t, n + 1) <=> \E i \in 1 .. ne : b = pos[st[i]]
  BY <1>1, <1>4 DEF Stacked
<1>8. ASSUME NEW i \in 1 .. ne
      PROVE  ManyIn(t, pos[st[i]] + 1, n + 1, {"end"}) =< ManyIn(t, pos[st[i]] + 1, n + 1, Kinds)
                <=> (e.type = "end" => i < ne)
  <2>1. PICK x1 \in Nat, y1 \in Nat : /\ x1 = ManyIn(t, pos[st[i]] + 1, n + 1, Kinds)
                                      /\ y1 = ManyIn(t, pos[st[i]] + 1, n + 1, {"end"})
    BY <1>5
  <2>2. x1 + (IF e.type = "end" THEN 1 ELSE 0) = y1 + (ne - i) + (IF e.type \in Kinds THEN 1 ELSE 0)
    BY <1>5, <2>1
  <2>3. y1 =< x1 <=> (e.type = "end" => i < ne)
    <3>1. CASE e.type = "end"
      BY <1>7, <2>2, <3>1
    <3>2. CASE e.type # "end"
      <4>1. x1 = y1 + (ne - i) + (IF e.type \in Kinds THEN 1 ELSE 0)
        BY <2>2, <3>2
      <4>2. (IF e.type \in Kinds THEN 1 ELSE 0) >= 0 /\ (IF e.type \in Kinds THEN 1 ELSE 0) \in Nat
        OBVIOUS
      <4> QED BY <3>2, <4>1, <4>2
    <3> QED BY <3>1, <3>2
  <2> QED BY <2>1, <2>3
<1>9. \A b : b \in AroundIn(t, n + 1 + 1) <=>
          \/ b = n + 1 /\ e.type \in Kinds
          \/ \E i \in 1 .. ne : b = pos[st[i]] /\ (e.type = "end" => i < ne)
  <2>1. \A b : b \in AroundIn(t, n + 1 + 1) <=>
               \/ b = n + 1 /\ e.type \in Kinds
               \/ /\ b \in AroundIn(t, n + 1)
                  /\ ManyIn(t, b + 1, n + 1, {"end"}) =< ManyIn(t, b + 1, n + 1, Kinds)
    BY <1>4, AroundMore
  <2> QED BY <1>6, <1>8, <2>1
<1> QED BY <1>1, <1>5, <1>9 DEF Grows

\* A call that begins no group leaves the groups where they were begun.
LEMMA DrawnStays ==
    ASSUME NEW s \in Seq(Entry), NEW gs, Len(gs) \in Nat, NEW pos, Drawn(s, gs, pos),
           NEW e \in Entry, e.type \notin Kinds, NEW t, Continues(s, e, t), NEW hs, Len(hs) = Len(gs),
           \A g \in 1 .. Len(gs) : hs[g].type = gs[g].type /\ hs[g].parent = gs[g].parent
    PROVE  Drawn(t, hs, pos)
<1>1. PICK n \in Nat : n = Len(s)
  OBVIOUS
<1>2. PICK l \in Nat : l = Len(gs)
  OBVIOUS
<1>4. /\ pos \in [1 .. l -> 1 .. n]
      /\ \A g, h \in 1 .. l : g < h => pos[g] < pos[h]
      /\ \A k \in 1 .. n : s[k].type \in Kinds => \E g \in 1 .. l : k = pos[g]
      /\ \A g \in 1 .. l :
           /\ s[pos[g]].type = gs[g].type
           /\ gs[g].parent \in 0 .. g - 1
           /\ WithinIn(s, pos[g]) = BegunAt(pos, gs[g].parent)
  BY <1>1, <1>2 DEF Drawn
<1>5. /\ Len(t) = n + 1 /\ t[n + 1] = e
      /\ \A k \in 1 .. n : t[k] = s[k]
      /\ \A k \in 1 .. n + 1 : WithinIn(t, k) = WithinIn(s, k)
  BY <1>1 DEF Continues
<1>6. \A k \in 1 .. n + 1 : k \in 1 .. n \/ k = n + 1
  OBVIOUS
<1>7. \A k \in 1 .. n : k \in 1 .. n + 1
  OBVIOUS
<1>8. pos \in [1 .. l -> 1 .. n + 1]
  BY <1>4, <1>7
<1>9. \A k \in 1 .. n + 1 : t[k].type \in Kinds => \E g \in 1 .. l : k = pos[g]
  BY <1>4, <1>5, <1>6
<1>10. \A g \in 1 .. l :
           /\ t[pos[g]].type = hs[g].type
           /\ hs[g].parent \in 0 .. g - 1
           /\ WithinIn(t, pos[g]) = BegunAt(pos, hs[g].parent)
  BY <1>2, <1>4, <1>5, <1>7
<1>11. Len(t) = n + 1 /\ Len(hs) = l
  BY <1>2, <1>5
<1>12. \A g, h \in 1 .. l : g < h => pos[g] < pos[h]
  BY <1>4
<1>13. Drawn(t, hs, pos)
  BY <1>8, <1>9, <1>10, <1>11, <1>12 DEF Drawn
<1> QED BY <1>13

\* A group is where it was begun.
LEMMA BegunOnce ==
    ASSUME NEW l \in Nat, NEW pos, \A g \in 1 .. l : pos[g] \in Nat \ {0},
           \A g, h \in 1 .. l : g < h => pos[g] < pos[h],
           NEW g \in 0 .. l, NEW h \in 0 .. l, BegunAt(pos, g) = BegunAt(pos, h)
    PROVE  g = h
<1>1. CASE g = 0 \/ h = 0
  BY <1>1 DEF BegunAt
<1>2. CASE g \in 1 .. l /\ h \in 1 .. l
  <2>1. pos[g] = pos[h] /\ pos[g] \in Nat
    BY <1>2 DEF BegunAt
  <2>2. ~(g < h) /\ ~(h < g)
    BY <1>2, <2>1
  <2> QED BY <1>2, <2>2
<1> QED BY <1>1, <1>2

\* A condition goes to the group that is open.
LEMMA TracedIs ==
    ASSUME NEW s, NEW gs, NEW cs, NEW op, NEW ne, NEW pos, NEW st,
           Traced(s, gs, cs, op, ne, pos, st), NEW c \in Compared, NEW e,
           e = [type |-> "is", conds |-> {c}], NEW hs, NEW ds,
           /\ hs \in Seq(Grouped) /\ Len(hs) = Len(gs)
           /\ \A g \in 1 .. Len(gs) :
                  /\ hs[g].type = gs[g].type /\ hs[g].parent = gs[g].parent
                  /\ hs[g].conds = IF g = op THEN gs[g].conds \cup {c} ELSE gs[g].conds
           /\ ds = IF op = 0 THEN cs \cup {c} ELSE cs
    PROVE  Traced(Append(s, e), hs, ds, op, ne, pos, st)
<1>0. s \in Seq(Entry) /\ gs \in Seq(Grouped) /\ cs \in SUBSET Compared /\ ne \in Nat
      /\ Drawn(s, gs, pos) /\ Sorted(s, gs, cs, pos) /\ Stacked(s, gs, op, ne, pos, st)
  BY DEF Traced
<1>1. PICK n \in Nat : n = Len(s)
  BY <1>0
<1>2. PICK l \in Nat : l = Len(gs) /\ l = Len(hs)
  BY <1>0
<1>3. PICK t : t = Append(s, e)
  OBVIOUS
<1>4. e \in Entry /\ e.type = "is" /\ e.conds = {c} /\ e.type \notin Kinds
  BY DEF Entry, Kinds
<1>5. Continues(s, e, t)
  BY <1>0, <1>3, <1>4, GoesOn
<1>6. Drawn(t, hs, pos)
  BY <1>0, <1>2, <1>4, <1>5, DrawnStays
<1>7. /\ op \in 0 .. l /\ (op = 0 <=> ne = 0)
      /\ WithinIn(s, n + 1) = BegunAt(pos, op)
  BY <1>0, <1>1, <1>2, NextWithin
<1>8. /\ Len(t) = n + 1 /\ t[n + 1] = e
      /\ \A k \in 1 .. n : t[k] = s[k]
      /\ \A k \in 1 .. n + 1 : WithinIn(t, k) = WithinIn(s, k)
      /\ t \in Seq(Entry)
  BY <1>1, <1>5 DEF Continues
<1>9. \A k \in 1 .. n + 1 : k \in 1 .. n \/ k = n + 1
  OBVIOUS
<1>10. /\ \A k \in 1 .. n : k \in 1 .. n + 1
       /\ n + 1 \in 1 .. n + 1
  OBVIOUS
<1>11. /\ pos \in [1 .. l -> 1 .. n]
       /\ \A g, h \in 1 .. l : g < h => pos[g] < pos[h]
  BY <1>0, <1>1, <1>2 DEF Drawn
<1>12. \A g, h \in 0 .. l : BegunAt(pos, g) = BegunAt(pos, h) => g = h
  <2>1. SUFFICES ASSUME NEW g \in 0 .. l, NEW h \in 0 .. l, BegunAt(pos, g) = BegunAt(pos, h)
                 PROVE  g = h
    OBVIOUS
  <2>2. \A i \in 1 .. l : pos[i] \in Nat \ {0}
    BY <1>11
  <2>3. \A i, j \in 1 .. l : i < j => pos[i] < pos[j]
    BY <1>11
  <2> QED BY <2>1, <2>2, <2>3, BegunOnce
<1>13. Sorted(t, hs, ds, pos)
  <2>1. /\ \A k \in 1 .. n : s[k].type = "is" =>
               /\ \E d : s[k].conds = {d}
               /\ \E g \in 0 .. l : WithinIn(s, k) = BegunAt(pos, g)
        /\ \A d : d \in cs <=>
              \E k \in 1 .. n : s[k].type = "is" /\ d \in s[k].conds /\ WithinIn(s, k) = 0
        /\ \A g \in 1 .. l : \A d : d \in gs[g].conds <=>
              \E k \in 1 .. n : s[k].type = "is" /\ d \in s[k].conds /\ WithinIn(s, k) = pos[g]
    BY <1>0, <1>1, <1>2 DEF Sorted
  <2>2. \A k \in 1 .. n + 1 : t[k].type = "is" =>
               /\ \E d : t[k].conds = {d}
               /\ \E g \in 0 .. l : WithinIn(t, k) = BegunAt(pos, g)
    <3>1. SUFFICES ASSUME NEW k \in 1 .. n + 1, t[k].type = "is"
                   PROVE  /\ \E d : t[k].conds = {d}
                          /\ \E g \in 0 .. l : WithinIn(t, k) = BegunAt(pos, g)
      OBVIOUS
    <3>2. CASE k \in 1 .. n
      <4>1. t[k] = s[k] /\ WithinIn(t, k) = WithinIn(s, k)
        BY <1>8, <1>10, <3>2
      <4>2. s[k].type = "is"
        BY <3>1, <4>1
      <4>3. /\ \E d : s[k].conds = {d}
            /\ \E g \in 0 .. l : WithinIn(s, k) = BegunAt(pos, g)
        BY <2>1, <3>2, <4>2
      <4> QED BY <4>1, <4>3
    <3>3. CASE k = n + 1
      <4>1. t[k].conds = {c} /\ WithinIn(t, k) = BegunAt(pos, op)
        BY <1>4, <1>7, <1>8, <1>10, <3>3
      <4> QED BY <1>7, <4>1
    <3> QED BY <1>9, <3>2, <3>3
  <2>3. \A d, w : (\E k \in 1 .. n + 1 : t[k].type = "is" /\ d \in t[k].conds /\ WithinIn(t, k) = w)
                  <=> \/ \E k \in 1 .. n : s[k].type = "is" /\ d \in s[k].conds /\ WithinIn(s, k) = w
                      \/ d = c /\ w = BegunAt(pos, op)
    BY <1>4, <1>7, <1>8, <1>9, <1>10
  <2>4. BegunAt(pos, op) = 0 <=> op = 0
    <3>1. 0 \in 0 .. l /\ BegunAt(pos, 0) = 0
      BY DEF BegunAt
    <3> QED BY <1>7, <1>12, <3>1
  <2>5. \A d : d \in ds <=>
              \E k \in 1 .. n + 1 : t[k].type = "is" /\ d \in t[k].conds /\ WithinIn(t, k) = 0
    <3>1. SUFFICES ASSUME NEW d
                   PROVE  d \in ds <=> \E k \in 1 .. n + 1 : t[k].type = "is" /\ d \in t[k].conds
                                                              /\ WithinIn(t, k) = 0
      OBVIOUS
    <3>2. d \in ds <=> d \in cs \/ (d = c /\ op = 0)
      OBVIOUS
    <3>3. d \in cs <=> \E k \in 1 .. n : s[k].type = "is" /\ d \in s[k].conds /\ WithinIn(s, k) = 0
      BY <2>1
    <3>4. (\E k \in 1 .. n + 1 : t[k].type = "is" /\ d \in t[k].conds /\ WithinIn(t, k) = 0)
          <=> \/ \E k \in 1 .. n : s[k].type = "is" /\ d \in s[k].conds /\ WithinIn(s, k) = 0
              \/ d = c /\ 0 = BegunAt(pos, op)
      BY <2>3
    <3> QED BY <2>4, <3>2, <3>3, <3>4
  <2>6. ASSUME NEW g \in 1 .. l, NEW d
        PROVE d \in hs[g].conds <=>
              \E k \in 1 .. n + 1 : t[k].type = "is" /\ d \in t[k].conds /\ WithinIn(t, k) = pos[g]
    <3>1. g \in 0 .. l /\ BegunAt(pos, g) = pos[g]
      BY DEF BegunAt
    <3>2. pos[g] = BegunAt(pos, op) <=> g = op
      BY <1>7, <1>12, <3>1
    <3>3. d \in hs[g].conds <=> d \in gs[g].conds \/ (d = c /\ g = op)
      BY <1>2
    <3>4. d \in gs[g].conds <=>
              \E k \in 1 .. n : s[k].type = "is" /\ d \in s[k].conds /\ WithinIn(s, k) = pos[g]
      BY <2>1
    <3>5. PICK w : w = pos[g]
      OBVIOUS
    <3>6. (\E k \in 1 .. n + 1 : t[k].type = "is" /\ d \in t[k].conds /\ WithinIn(t, k) = w)
          <=> \/ \E k \in 1 .. n : s[k].type = "is" /\ d \in s[k].conds /\ WithinIn(s, k) = w
              \/ d = c /\ w = BegunAt(pos, op)
      BY <2>3
    <3> QED BY <3>2, <3>3, <3>4, <3>5, <3>6
  <2>7. Len(t) = n + 1 /\ Len(hs) = l
    BY <1>2, <1>8
  <2> QED BY <2>2, <2>5, <2>6, <2>7, ZenonT(30) DEF Sorted
<1>14. Stacked(t, hs, op, ne, pos, st)
  <2>1. /\ st \in [1 .. ne -> 1 .. l]
        /\ op = IF ne = 0 THEN 0 ELSE st[ne]
        /\ \A i \in 1 .. ne : gs[st[i]].parent = IF i = 1 THEN 0 ELSE st[i - 1]
        /\ \A i, j \in 1 .. ne : i < j => st[i] < st[j]
    BY <1>0, <1>2 DEF Stacked
  <2>2. /\ \A b : b \in AroundIn(t, n + 1 + 1) <=>
               \/ b = n + 1 /\ e.type \in Kinds
               \/ \E i \in 1 .. ne : b = pos[st[i]] /\ (e.type = "end" => i < ne)
        /\ \A i \in 1 .. ne :
               ManyIn(t, pos[st[i]] + 1, n + 1, Kinds) + (IF e.type = "end" THEN 1 ELSE 0) =
               ManyIn(t, pos[st[i]] + 1, n + 1, {"end"})
                      + (ne - i) + (IF e.type \in Kinds THEN 1 ELSE 0)
    <3>1. Len(gs) \in Nat
      BY <1>2
    <3>2. Grows(s, e, t, ne, pos, st)
      BY <1>0, <1>4, <1>5, <3>1, OneMore
    <3> QED BY <1>1, <3>2 DEF Grows
  <2>3. AroundIn(t, n + 1 + 1) = {pos[st[i]] : i \in 1 .. ne}
    BY <1>4, <2>2
  <2>4. ASSUME NEW i \in 1 .. ne
        PROVE  ManyIn(t, pos[st[i]] + 1, n + 1, Kinds) =
                   ManyIn(t, pos[st[i]] + 1, n + 1, {"end"}) + (ne - i)
    <3>1. PICK b \in Nat : b = pos[st[i]] + 1 /\ b =< n + 1
      BY <1>11, <2>1
    <3>2. ManyIn(t, b, n + 1, Kinds) + 0 = ManyIn(t, b, n + 1, {"end"}) + (ne - i) + 0
      BY <1>4, <2>2, <3>1
    <3>3. ManyIn(t, b, n + 1, Kinds) \in Nat /\ ManyIn(t, b, n + 1, {"end"}) \in Nat
      <4>1. n + 1 \in Nat /\ b =< n + 1 + 1
        BY <3>1
      <4> QED BY <3>1, <4>1, ManyMore
    <3> QED BY <1>0, <3>1, <3>2, <3>3
  <2>5. \A i \in 1 .. ne : hs[st[i]].parent = gs[st[i]].parent
    BY <1>2, <2>1
  <2>6. Len(t) = n + 1 /\ Len(hs) = l
    BY <1>2, <1>8
  <2> QED BY <2>1, <2>3, <2>4, <2>5, <2>6 DEF Stacked
<1>15. ds \in SUBSET Compared
  BY <1>0
<1> QED BY <1>0, <1>3, <1>6, <1>8, <1>13, <1>14, <1>15 DEF Traced

\* A group ends: the one around it is open.
LEMMA TracedEnd ==
    ASSUME NEW s, NEW gs, NEW cs, NEW op, NEW ne, NEW pos, NEW st,
           Traced(s, gs, cs, op, ne, pos, st), ne > 0, NEW e, e = [type |-> "end", conds |-> {}]
    PROVE  Traced(Append(s, e), gs, cs, gs[op].parent, ne - 1, pos, [i \in 1 .. ne - 1 |-> st[i]])
<1>0. s \in Seq(Entry) /\ gs \in Seq(Grouped) /\ cs \in SUBSET Compared /\ ne \in Nat
      /\ Drawn(s, gs, pos) /\ Sorted(s, gs, cs, pos) /\ Stacked(s, gs, op, ne, pos, st)
  BY DEF Traced
<1>1. PICK n \in Nat : n = Len(s)
  BY <1>0
<1>2. PICK l \in Nat : l = Len(gs)
  BY <1>0
<1>3. PICK t : t = Append(s, e)
  OBVIOUS
<1>4. e \in Entry /\ e.type = "end" /\ e.type # "is" /\ e.type \notin Kinds
  BY DEF Entry, Kinds
<1>5. Continues(s, e, t)
  BY <1>0, <1>3, <1>4, GoesOn
<1>6. Drawn(t, gs, pos)
  BY <1>0, <1>2, <1>4, <1>5, DrawnStays
<1>7. /\ Len(t) = n + 1 /\ t[n + 1] = e
      /\ \A k \in 1 .. n : t[k] = s[k]
      /\ \A k \in 1 .. n + 1 : WithinIn(t, k) = WithinIn(s, k)
      /\ t \in Seq(Entry)
  BY <1>1, <1>5 DEF Continues
<1>8. /\ \A k \in 1 .. n + 1 : k \in 1 .. n \/ k = n + 1
      /\ \A k \in 1 .. n : k \in 1 .. n + 1
  OBVIOUS
<1>9. Sorted(t, gs, cs, pos)
  <2>1. /\ \A k \in 1 .. n : s[k].type = "is" =>
               /\ \E d : s[k].conds = {d}
               /\ \E g \in 0 .. l : WithinIn(s, k) = BegunAt(pos, g)
        /\ \A d : d \in cs <=>
              \E k \in 1 .. n : s[k].type = "is" /\ d \in s[k].conds /\ WithinIn(s, k) = 0
        /\ \A g \in 1 .. l : \A d : d \in gs[g].conds <=>
              \E k \in 1 .. n : s[k].type = "is" /\ d \in s[k].conds /\ WithinIn(s, k) = pos[g]
    BY <1>0, <1>1, <1>2 DEF Sorted
  <2>2. \A k \in 1 .. n + 1 : t[k].type = "is" => k \in 1 .. n
    BY <1>4, <1>7, <1>8
  <2>3. \A k \in 1 .. n + 1 : t[k].type = "is" =>
               /\ \E d : t[k].conds = {d}
               /\ \E g \in 0 .. l : WithinIn(t, k) = BegunAt(pos, g)
    <3>1. SUFFICES ASSUME NEW k \in 1 .. n, s[k].type = "is"
                   PROVE  /\ \E d : t[k].conds = {d}
                          /\ \E g \in 0 .. l : WithinIn(t, k) = BegunAt(pos, g)
      BY <1>7, <2>2
    <3>2. t[k] = s[k] /\ WithinIn(t, k) = WithinIn(s, k)
      BY <1>7, <1>8
    <3>3. /\ \E d : s[k].conds = {d}
          /\ \E g \in 0 .. l : WithinIn(s, k) = BegunAt(pos, g)
      BY <2>1, <3>1
    <3> QED BY <3>2, <3>3
  <2>4. \A d, w : (\E k \in 1 .. n + 1 : t[k].type = "is" /\ d \in t[k].conds /\ WithinIn(t, k) = w)
                  <=> \E k \in 1 .. n : s[k].type = "is" /\ d \in s[k].conds /\ WithinIn(s, k) = w
    BY <1>7, <1>8, <2>2
  <2>5. \A d : d \in cs <=>
              \E k \in 1 .. n + 1 : t[k].type = "is" /\ d \in t[k].conds /\ WithinIn(t, k) = 0
    BY <2>1, <2>4
  <2>6. \A g \in 1 .. l : \A d : d \in gs[g].conds <=>
              \E k \in 1 .. n + 1 : t[k].type = "is" /\ d \in t[k].conds /\ WithinIn(t, k) = pos[g]
    BY <2>1, <2>4
  <2>7. Len(t) = n + 1
    BY <1>7
  <2> QED BY <1>2, <2>3, <2>5, <2>6, <2>7 DEF Sorted
<1>10. PICK m \in Nat : m = ne - 1 /\ ne = m + 1
  BY <1>0
<1>11. PICK st2 : st2 = [i \in 1 .. m |-> st[i]]
  OBVIOUS
<1>12. Stacked(t, gs, gs[op].parent, m, pos, st2)
  <2>1. /\ st \in [1 .. ne -> 1 .. l]
        /\ op = IF ne = 0 THEN 0 ELSE st[ne]
        /\ \A i \in 1 .. ne : gs[st[i]].parent = IF i = 1 THEN 0 ELSE st[i - 1]
        /\ \A i, j \in 1 .. ne : i < j => st[i] < st[j]
    BY <1>0, <1>2 DEF Stacked
  <2>2. /\ \A i \in 1 .. m : i \in 1 .. ne /\ i < ne
        /\ \A i \in 1 .. ne : i < ne => i \in 1 .. m
        /\ ne \in 1 .. ne /\ ne # 0
    BY <1>10
  <2>3. st2 \in [1 .. m -> 1 .. l] /\ \A i \in 1 .. m : st2[i] = st[i]
    BY <1>11, <2>1, <2>2
  <2>4. gs[op].parent = IF m = 0 THEN 0 ELSE st2[m]
    <3>1. gs[op].parent = IF ne = 1 THEN 0 ELSE st[ne - 1]
      BY <2>1, <2>2
    <3>2. CASE m = 0
      BY <1>10, <3>1, <3>2
    <3>3. CASE m # 0
      <4>1. m \in 1 .. m /\ ne # 1 /\ ne - 1 = m
        BY <1>10, <3>3
      <4> QED BY <2>3, <3>1, <3>3, <4>1
    <3> QED BY <3>2, <3>3
  <2>5. \A i \in 1 .. m : gs[st2[i]].parent = IF i = 1 THEN 0 ELSE st2[i - 1]
    <3>1. SUFFICES ASSUME NEW i \in 1 .. m
                   PROVE  gs[st2[i]].parent = IF i = 1 THEN 0 ELSE st2[i - 1]
      OBVIOUS
    <3>2. gs[st2[i]].parent = IF i = 1 THEN 0 ELSE st[i - 1]
      BY <2>1, <2>2, <2>3
    <3>3. i # 1 => i - 1 \in 1 .. m
      BY <1>10
    <3> QED BY <2>3, <3>2, <3>3
  <2>6. \A i, j \in 1 .. m : i < j => st2[i] < st2[j]
    BY <2>1, <2>2, <2>3
  <2>7. Grows(s, e, t, ne, pos, st)
    <3>1. Len(gs) \in Nat
      BY <1>2
    <3> QED BY <1>0, <1>4, <1>5, <3>1, OneMore
  <2>8. AroundIn(t, n + 1 + 1) = {pos[st2[i]] : i \in 1 .. m}
    <3>1. \A b : b \in AroundIn(t, n + 1 + 1) <=> \E i \in 1 .. ne : b = pos[st[i]] /\ i < ne
      BY <1>1, <1>4, <2>7 DEF Grows
    <3> QED BY <2>2, <2>3, <3>1
  <2>9. ASSUME NEW i \in 1 .. m
        PROVE  ManyIn(t, pos[st2[i]] + 1, n + 1, Kinds) =
                   ManyIn(t, pos[st2[i]] + 1, n + 1, {"end"}) + (m - i)
    <3>0. pos \in [1 .. l -> 1 .. n]
      BY <1>0, <1>1, <1>2 DEF Drawn
    <3>1. PICK b \in Nat : b = pos[st2[i]] + 1 /\ b =< n + 1
      <4>1. PICK p \in 1 .. n : p = pos[st2[i]]
        BY <2>3, <3>0
      <4>2. p + 1 \in Nat /\ p + 1 =< n + 1
        OBVIOUS
      <4> QED BY <4>1, <4>2
    <3>2. i \in 1 .. ne /\ st2[i] = st[i]
      BY <2>2, <2>3
    <3>3. ManyIn(t, b, n + 1, Kinds) + 1 = ManyIn(t, b, n + 1, {"end"}) + (ne - i) + 0
      BY <1>1, <1>4, <2>7, <3>1, <3>2 DEF Grows
    <3>4. ManyIn(t, b, n + 1, Kinds) \in Nat /\ ManyIn(t, b, n + 1, {"end"}) \in Nat
      <4>1. n + 1 \in Nat /\ b =< n + 1 + 1
        BY <3>1
      <4> QED BY <3>1, <4>1, ManyMore
    <3>5. PICK x \in Nat, y \in Nat : /\ x = ManyIn(t, b, n + 1, Kinds)
                                      /\ y = ManyIn(t, b, n + 1, {"end"})
      BY <3>4
    <3>6. x = y + (m - i)
      BY <1>10, <3>3, <3>5
    <3> QED BY <3>1, <3>5, <3>6
  <2>10. Len(t) = n + 1
    BY <1>7
  <2> QED BY <1>2, <2>3, <2>4, <2>5, <2>6, <2>8, <2>9, <2>10 DEF Stacked
<1> QED BY <1>0, <1>3, <1>6, <1>7, <1>9, <1>10, <1>11, <1>12 DEF Traced

\* A group begins in the group that is open.
LEMMA TracedBegin ==
    ASSUME NEW s, NEW gs, NEW cs, NEW op, NEW ne, NEW pos, NEW st,
           Traced(s, gs, cs, op, ne, pos, st), NEW y \in Kinds, NEW e, e = [type |-> y, conds |-> {}],
           NEW a, a = [type |-> y, conds |-> {}, parent |-> IF ne > 0 THEN op ELSE 0]
    PROVE  \E pos2, st2 :
               Traced(Append(s, e), Append(gs, a), cs, Len(Append(gs, a)), ne + 1, pos2, st2)
<1>0. s \in Seq(Entry) /\ gs \in Seq(Grouped) /\ cs \in SUBSET Compared /\ ne \in Nat
      /\ Drawn(s, gs, pos) /\ Sorted(s, gs, cs, pos) /\ Stacked(s, gs, op, ne, pos, st)
  BY DEF Traced
<1>1. PICK n \in Nat : n = Len(s)
  BY <1>0
<1>2. PICK l \in Nat : l = Len(gs)
  BY <1>0
<1>3. PICK t : t = Append(s, e)
  OBVIOUS
<1>4. e \in Entry /\ e.type = y /\ e.type \in Kinds /\ e.type # "is" /\ e.type # "end"
  BY DEF Entry, Kinds
<1>5. Continues(s, e, t)
  BY <1>0, <1>3, <1>4, GoesOn
<1>6. /\ op \in 0 .. l /\ (op = 0 <=> ne = 0)
      /\ WithinIn(s, n + 1) = BegunAt(pos, op)
  BY <1>0, <1>1, <1>2, NextWithin
<1>7. /\ Len(t) = n + 1 /\ t[n + 1] = e
      /\ \A k \in 1 .. n : t[k] = s[k]
      /\ \A k \in 1 .. n + 1 : WithinIn(t, k) = WithinIn(s, k)
      /\ t \in Seq(Entry)
  BY <1>1, <1>5 DEF Continues
<1>8. a \in Grouped /\ a.type = y /\ a.conds = {} /\ a.parent = op
  <2>1. a.parent = op
    BY <1>0, <1>6
  <2>2. y \in {"AND", "OR"} /\ op \in Nat
    BY <1>6 DEF Kinds
  <2> QED BY <1>6, <2>1, <2>2 DEF Grouped
<1>9. PICK hs : hs = Append(gs, a)
  OBVIOUS
<1>10. hs \in Seq(Grouped) /\ Len(hs) = l + 1 /\ (\A h \in 1 .. l : hs[h] = gs[h]) /\ hs[l + 1] = a
  BY <1>0, <1>2, <1>8, <1>9, AppendProperties
<1>11. /\ pos \in [1 .. l -> 1 .. n]
       /\ \A g, h \in 1 .. l : g < h => pos[g] < pos[h]
       /\ \A k \in 1 .. n : s[k].type \in Kinds => \E g \in 1 .. l : k = pos[g]
       /\ \A g \in 1 .. l :
            /\ s[pos[g]].type = gs[g].type
            /\ gs[g].parent \in 0 .. g - 1
            /\ WithinIn(s, pos[g]) = BegunAt(pos, gs[g].parent)
  BY <1>0, <1>1, <1>2 DEF Drawn
<1>12. /\ \A k \in 1 .. n + 1 : k \in 1 .. n \/ k = n + 1
       /\ \A k \in 1 .. n : k \in 1 .. n + 1 /\ k # n + 1 /\ k < n + 1
       /\ \A k \in 1 .. l + 1 : k \in 1 .. l \/ k = l + 1
       /\ \A k \in 1 .. l : k \in 1 .. l + 1 /\ k # l + 1 /\ k < l + 1
       /\ \A k \in 0 .. l : k \in 0 .. l + 1 /\ k # l + 1 /\ (k = 0 \/ k \in 1 .. l)
       /\ n + 1 \in 1 .. n + 1 /\ l + 1 \in 1 .. l + 1
  OBVIOUS
<1>13. PICK pos2 : pos2 = [h \in 1 .. l + 1 |-> IF h = l + 1 THEN n + 1 ELSE pos[h]]
  OBVIOUS
<1>14. /\ pos2 \in [1 .. l + 1 -> 1 .. n + 1]
       /\ \A h \in 1 .. l : pos2[h] = pos[h]
       /\ pos2[l + 1] = n + 1
  BY <1>11, <1>12, <1>13
<1>15. \A h \in 0 .. l : BegunAt(pos2, h) = BegunAt(pos, h)
  BY <1>12, <1>14 DEF BegunAt
<1>16. Drawn(t, hs, pos2)
  <2>1. \A g, h \in 1 .. l + 1 : g < h => pos2[g] < pos2[h]
    <3>1. SUFFICES ASSUME NEW g \in 1 .. l + 1, NEW h \in 1 .. l + 1, g < h
                   PROVE  pos2[g] < pos2[h]
      OBVIOUS
    <3>2. g \in 1 .. l
      BY <3>1
    <3>3. CASE h \in 1 .. l
      BY <1>11, <1>14, <3>1, <3>2, <3>3
    <3>4. CASE h = l + 1
      <4>1. pos2[g] = pos[g] /\ pos[g] \in 1 .. n /\ pos2[h] = n + 1
        BY <1>11, <1>14, <3>2, <3>4
      <4> QED BY <1>12, <4>1
    <3> QED BY <1>12, <3>3, <3>4
  <2>2. \A k \in 1 .. n + 1 : t[k].type \in Kinds => \E g \in 1 .. l + 1 : k = pos2[g]
    <3>1. SUFFICES ASSUME NEW k \in 1 .. n + 1, t[k].type \in Kinds
                   PROVE  \E g \in 1 .. l + 1 : k = pos2[g]
      OBVIOUS
    <3>2. CASE k \in 1 .. n
      <4>1. s[k].type \in Kinds
        BY <1>7, <3>1, <3>2
      <4>2. PICK g \in 1 .. l : k = pos[g]
        BY <1>11, <3>2, <4>1
      <4> QED BY <1>12, <1>14, <4>2
    <3>3. CASE k = n + 1
      BY <1>12, <1>14, <3>3
    <3> QED BY <1>12, <3>2, <3>3
  <2>3. ASSUME NEW g \in 1 .. l + 1
        PROVE  /\ t[pos2[g]].type = hs[g].type
               /\ hs[g].parent \in 0 .. g - 1
               /\ WithinIn(t, pos2[g]) = BegunAt(pos2, hs[g].parent)
    <3>1. CASE g \in 1 .. l
      <4>1. hs[g] = gs[g] /\ pos2[g] = pos[g] /\ pos[g] \in 1 .. n
        BY <1>10, <1>11, <1>14, <3>1
      <4>2. t[pos[g]] = s[pos[g]] /\ WithinIn(t, pos[g]) = WithinIn(s, pos[g])
        BY <1>7, <1>12, <4>1
      <4>3. PICK p \in 0 .. g - 1 : p = gs[g].parent
        BY <1>11, <3>1
      <4>4. BegunAt(pos2, p) = BegunAt(pos, p)
        <5>1. p \in 0 .. l
          BY <3>1
        <5> QED BY <1>15, <5>1
      <4> QED BY <1>11, <3>1, <4>1, <4>2, <4>3, <4>4
    <3>2. CASE g = l + 1
      <4>1. hs[g] = a /\ pos2[g] = n + 1
        BY <1>10, <1>14, <3>2
      <4>2. op \in 0 .. g - 1
        BY <1>6, <3>2
      <4>3. WithinIn(t, n + 1) = BegunAt(pos2, op)
        BY <1>6, <1>7, <1>12, <1>15
      <4> QED BY <1>4, <1>7, <1>8, <4>1, <4>2, <4>3
    <3> QED BY <1>12, <3>1, <3>2
  <2> QED BY <1>7, <1>10, <1>14, <2>1, <2>2, <2>3 DEF Drawn
<1>17. Sorted(t, hs, cs, pos2)
  <2>1. /\ \A k \in 1 .. n : s[k].type = "is" =>
               /\ \E d : s[k].conds = {d}
               /\ \E g \in 0 .. l : WithinIn(s, k) = BegunAt(pos, g)
        /\ \A d : d \in cs <=>
              \E k \in 1 .. n : s[k].type = "is" /\ d \in s[k].conds /\ WithinIn(s, k) = 0
        /\ \A g \in 1 .. l : \A d : d \in gs[g].conds <=>
              \E k \in 1 .. n : s[k].type = "is" /\ d \in s[k].conds /\ WithinIn(s, k) = pos[g]
    BY <1>0, <1>1, <1>2 DEF Sorted
  <2>2. \A k \in 1 .. n + 1 : t[k].type = "is" => k \in 1 .. n
    BY <1>4, <1>7, <1>12
  <2>3. \A k \in 1 .. n + 1 : t[k].type = "is" =>
               /\ \E d : t[k].conds = {d}
               /\ \E g \in 0 .. l + 1 : WithinIn(t, k) = BegunAt(pos2, g)
    <3>1. SUFFICES ASSUME NEW k \in 1 .. n + 1, t[k].type = "is"
                   PROVE  /\ \E d : t[k].conds = {d}
                          /\ \E g \in 0 .. l + 1 : WithinIn(t, k) = BegunAt(pos2, g)
      OBVIOUS
    <3>0. k \in 1 .. n
      BY <2>2, <3>1
    <3>2. t[k] = s[k] /\ WithinIn(t, k) = WithinIn(s, k)
      BY <1>7, <1>12, <3>0
    <3>3. \E d : s[k].conds = {d}
      BY <2>1, <3>0, <3>1, <3>2
    <3>4. PICK g \in 0 .. l : WithinIn(s, k) = BegunAt(pos, g)
      BY <2>1, <3>0, <3>1, <3>2
    <3>5. WithinIn(t, k) = BegunAt(pos2, g) /\ g \in 0 .. l + 1
      BY <1>12, <1>15, <3>2, <3>4
    <3> QED BY <3>2, <3>3, <3>5
  <2>4. \A d, w : (\E k \in 1 .. n + 1 : t[k].type = "is" /\ d \in t[k].conds /\ WithinIn(t, k) = w)
                  <=> \E k \in 1 .. n : s[k].type = "is" /\ d \in s[k].conds /\ WithinIn(s, k) = w
    BY <1>7, <1>12, <2>2
  <2>5. \A d : d \in cs <=>
              \E k \in 1 .. n + 1 : t[k].type = "is" /\ d \in t[k].conds /\ WithinIn(t, k) = 0
    <3>1. PICK w : w = 0
      OBVIOUS
    <3>2. \A d : (\E k \in 1 .. n + 1 : t[k].type = "is" /\ d \in t[k].conds /\ WithinIn(t, k) = w)
                  <=> \E k \in 1 .. n : s[k].type = "is" /\ d \in s[k].conds /\ WithinIn(s, k) = w
      BY <2>4
    <3> QED BY <2>1, <3>1, <3>2
  <2>6. ASSUME NEW g \in 1 .. l + 1, NEW d
        PROVE  d \in hs[g].conds <=>
              \E k \in 1 .. n + 1 : t[k].type = "is" /\ d \in t[k].conds /\ WithinIn(t, k) = pos2[g]
    <3>0. PICK w : w = pos2[g]
      OBVIOUS
    <3>4. (\E k \in 1 .. n + 1 : t[k].type = "is" /\ d \in t[k].conds /\ WithinIn(t, k) = w)
          <=> \E k \in 1 .. n : s[k].type = "is" /\ d \in s[k].conds /\ WithinIn(s, k) = w
      BY <2>4
    <3>1. CASE g \in 1 .. l
      <4>1. hs[g] = gs[g] /\ w = pos[g]
        BY <1>10, <1>14, <3>0, <3>1
      <4>2. d \in gs[g].conds <=>
              \E k \in 1 .. n : s[k].type = "is" /\ d \in s[k].conds /\ WithinIn(s, k) = pos[g]
        BY <2>1, <3>1
      <4> QED BY <3>0, <3>4, <4>1, <4>2
    <3>2. CASE g = l + 1
      <4>1. hs[g].conds = {} /\ w = n + 1
        BY <1>8, <1>10, <1>14, <3>0, <3>2
      <4>2. ASSUME NEW k \in 1 .. n, s[k].type = "is" PROVE WithinIn(s, k) # n + 1
        <5>1. PICK h \in 0 .. l : WithinIn(s, k) = BegunAt(pos, h)
          BY <2>1, <4>2
        <5>2. CASE h = 0
          BY <5>1, <5>2 DEF BegunAt
        <5>3. CASE h \in 1 .. l
          <6>1. BegunAt(pos, h) = pos[h] /\ pos[h] \in 1 .. n
            BY <1>11, <5>3 DEF BegunAt
          <6> QED BY <1>12, <5>1, <6>1
        <5> QED BY <1>12, <5>2, <5>3
      <4> QED BY <3>0, <3>4, <4>1, <4>2
    <3> QED BY <1>12, <3>1, <3>2
  <2> QED BY <1>7, <1>10, <2>3, <2>5, <2>6 DEF Sorted
<1>18. PICK st2 : st2 = [i \in 1 .. ne + 1 |-> IF i = ne + 1 THEN l + 1 ELSE st[i]]
  OBVIOUS
<1>19. Stacked(t, hs, l + 1, ne + 1, pos2, st2)
  <2>1. /\ st \in [1 .. ne -> 1 .. l]
        /\ op = IF ne = 0 THEN 0 ELSE st[ne]
        /\ \A i \in 1 .. ne : gs[st[i]].parent = IF i = 1 THEN 0 ELSE st[i - 1]
        /\ \A i, j \in 1 .. ne : i < j => st[i] < st[j]
    BY <1>0, <1>2 DEF Stacked
  <2>2. /\ \A i \in 1 .. ne + 1 : i \in 1 .. ne \/ i = ne + 1
        /\ \A i \in 1 .. ne : i \in 1 .. ne + 1 /\ i # ne + 1
        /\ ne + 1 \in 1 .. ne + 1 /\ ne + 1 # 0
    BY <1>0
  <2>3. /\ st2 \in [1 .. ne + 1 -> 1 .. l + 1]
        /\ \A i \in 1 .. ne : st2[i] = st[i]
        /\ st2[ne + 1] = l + 1
    BY <1>12, <1>18, <2>1, <2>2
  <2>4. l + 1 = IF ne + 1 = 0 THEN 0 ELSE st2[ne + 1]
    BY <2>2, <2>3
  <2>5. ASSUME NEW i \in 1 .. ne + 1
        PROVE  hs[st2[i]].parent = IF i = 1 THEN 0 ELSE st2[i - 1]
    <3>1. CASE i \in 1 .. ne
      <4>1. hs[st2[i]] = gs[st[i]]
        BY <1>10, <2>1, <2>3, <3>1
      <4>2. i # 1 => i - 1 \in 1 .. ne
        BY <1>0, <3>1
      <4>3. gs[st[i]].parent = IF i = 1 THEN 0 ELSE st[i - 1]
        BY <2>1, <3>1
      <4> QED BY <2>3, <4>1, <4>2, <4>3
    <3>2. CASE i = ne + 1
      <4>1. hs[st2[i]].parent = op
        BY <1>8, <1>10, <2>3, <3>2
      <4>2. CASE ne = 0
        BY <2>1, <3>2, <4>1, <4>2
      <4>3. CASE ne # 0
        <5>1. ne \in 1 .. ne /\ i - 1 = ne /\ i # 1
          BY <1>0, <3>2, <4>3
        <5> QED BY <2>1, <2>3, <4>1, <4>3, <5>1
      <4> QED BY <4>2, <4>3
    <3> QED BY <2>2, <3>1, <3>2
  <2>6. ASSUME NEW i \in 1 .. ne + 1, NEW j \in 1 .. ne + 1, i < j PROVE st2[i] < st2[j]
    <3>1. i \in 1 .. ne
      BY <1>0, <2>6
    <3>2. CASE j \in 1 .. ne
      BY <2>1, <2>3, <2>6, <3>1, <3>2
    <3>3. CASE j = ne + 1
      <4>1. st2[i] \in 1 .. l /\ st2[j] = l + 1
        BY <2>1, <2>3, <3>1, <3>3
      <4> QED BY <1>12, <4>1
    <3> QED BY <2>2, <3>2, <3>3
  <2>7. Grows(s, e, t, ne, pos, st)
    <3>1. Len(gs) \in Nat
      BY <1>2
    <3> QED BY <1>0, <1>4, <1>5, <3>1, OneMore
  <2>8. AroundIn(t, n + 1 + 1) = {pos2[st2[i]] : i \in 1 .. ne + 1}
    <3>1. \A b : b \in AroundIn(t, n + 1 + 1) <=> b = n + 1 \/ \E i \in 1 .. ne : b = pos[st[i]]
      BY <1>1, <1>4, <2>7 DEF Grows
    <3>2. \A i \in 1 .. ne : pos2[st2[i]] = pos[st[i]]
      BY <1>14, <2>1, <2>3
    <3>3. pos2[st2[ne + 1]] = n + 1
      BY <1>14, <2>3
    <3>4. \A b : b \in AroundIn(t, n + 1 + 1) <=> \E i \in 1 .. ne + 1 : b = pos2[st2[i]]
      BY <2>2, <3>1, <3>2, <3>3
    <3> QED BY <3>4
  <2>9. ASSUME NEW i \in 1 .. ne + 1
        PROVE  ManyIn(t, pos2[st2[i]] + 1, n + 1, Kinds) =
                   ManyIn(t, pos2[st2[i]] + 1, n + 1, {"end"}) + (ne + 1 - i)
    <3>1. CASE i \in 1 .. ne
      <4>1. PICK b \in Nat : b = pos2[st2[i]] + 1 /\ b = pos[st[i]] + 1 /\ b =< n + 1
        <5>1. PICK p \in 1 .. n : p = pos[st[i]]
          BY <1>11, <2>1, <3>1
        <5>2. pos2[st2[i]] = p
          BY <1>14, <2>1, <2>3, <3>1, <5>1
        <5>3. p + 1 \in Nat /\ p + 1 =< n + 1
          OBVIOUS
        <5> QED BY <5>1, <5>2, <5>3
      <4>2. ManyIn(t, b, n + 1, Kinds) + 0 = ManyIn(t, b, n + 1, {"end"}) + (ne - i) + 1
        BY <1>1, <1>4, <2>7, <3>1, <4>1 DEF Grows
      <4>3. ManyIn(t, b, n + 1, Kinds) \in Nat /\ ManyIn(t, b, n + 1, {"end"}) \in Nat
        <5>1. n + 1 \in Nat /\ b =< n + 1 + 1
          BY <4>1
        <5> QED BY <4>1, <5>1, ManyMore
      <4>4. PICK v \in Nat, u \in Nat : /\ v = ManyIn(t, b, n + 1, Kinds)
                                        /\ u = ManyIn(t, b, n + 1, {"end"})
        BY <4>3
      <4>5. v = u + (ne + 1 - i)
        BY <1>0, <4>2, <4>4
      <4> QED BY <4>1, <4>4, <4>5
    <3>2. CASE i = ne + 1
      <4>1. pos2[st2[i]] + 1 = n + 1 + 1 /\ ne + 1 - i = 0
        BY <1>0, <1>14, <2>3, <3>2
      <4>2. n + 1 + 1 \in Nat /\ n + 1 \in Nat /\ n + 1 < n + 1 + 1
        OBVIOUS
      <4>3. ManyIn(t, n + 1 + 1, n + 1, Kinds) = 0 /\ ManyIn(t, n + 1 + 1, n + 1, {"end"}) = 0
        BY <4>2, ManyNone
      <4> QED BY <4>1, <4>3
    <3> QED BY <2>2, <3>1, <3>2
  <2>10. Len(t) = n + 1 /\ Len(hs) = l + 1
    BY <1>7, <1>10
  <2>11. /\ \A i \in 1 .. ne + 1 : hs[st2[i]].parent = IF i = 1 THEN 0 ELSE st2[i - 1]
         /\ \A i, j \in 1 .. ne + 1 : i < j => st2[i] < st2[j]
    BY <2>5, <2>6
  <2>14. \A i \in 1 .. ne + 1 : ManyIn(t, pos2[st2[i]] + 1, Len(t), Kinds) =
                   ManyIn(t, pos2[st2[i]] + 1, Len(t), {"end"}) + (ne + 1 - i)
    BY <2>9, <2>10
  <2>12. st2 \in [1 .. ne + 1 -> 1 .. Len(hs)]
    BY <2>3, <2>10
  <2>13. AroundIn(t, Len(t) + 1) = {pos2[st2[i]] : i \in 1 .. ne + 1}
    BY <2>8, <2>10
  <2>15. PICK m : m = ne + 1
    OBVIOUS
  <2>16. PICK q : q = l + 1
    OBVIOUS
  <2>17. q = IF m = 0 THEN 0 ELSE st2[m]
    BY <2>4, <2>15, <2>16
  <2>18. /\ \A i \in 1 .. m : hs[st2[i]].parent = IF i = 1 THEN 0 ELSE st2[i - 1]
         /\ \A i, j \in 1 .. m : i < j => st2[i] < st2[j]
    BY <2>11, <2>15
  <2>19. \A i \in 1 .. m : ManyIn(t, pos2[st2[i]] + 1, Len(t), Kinds) =
                   ManyIn(t, pos2[st2[i]] + 1, Len(t), {"end"}) + (m - i)
    <3>1. SUFFICES ASSUME NEW i \in 1 .. m
                   PROVE  ManyIn(t, pos2[st2[i]] + 1, Len(t), Kinds) =
                             ManyIn(t, pos2[st2[i]] + 1, Len(t), {"end"}) + (m - i)
      OBVIOUS
    <3>2. i \in 1 .. ne + 1 /\ m - i = ne + 1 - i
      BY <1>0, <2>15
    <3>3. ManyIn(t, pos2[st2[i]] + 1, Len(t), Kinds) =
                   ManyIn(t, pos2[st2[i]] + 1, Len(t), {"end"}) + (ne + 1 - i)
      BY <2>14, <3>2
    <3> QED BY <3>2, <3>3
  <2>20. st2 \in [1 .. m -> 1 .. Len(hs)] /\ AroundIn(t, Len(t) + 1) = {pos2[st2[i]] : i \in 1 .. m}
    BY <2>12, <2>13, <2>15
  <2>21. Stacked(t, hs, q, m, pos2, st2)
    BY <2>17, <2>18, <2>19, <2>20 DEF Stacked
  <2> QED BY <2>15, <2>16, <2>21
<1>20. ne + 1 \in Nat
  BY <1>0
<1>21. Traced(t, hs, cs, l + 1, ne + 1, pos2, st2)
  BY <1>0, <1>7, <1>10, <1>16, <1>17, <1>19, <1>20 DEF Traced
<1> QED BY <1>3, <1>9, <1>10, <1>21
-----------------------------------------------------------------------------
(* The query builder: what holds, from the last group to the first         *)

\* Induction from the largest number down.
LEMMA DownAll ==
    ASSUME NEW N \in Nat, NEW S,
           \A i \in 1 .. N : (\A k \in i + 1 .. N : k \in S) => i \in S
    PROVE  \A i \in 1 .. N : i \in S
<1> SUFFICES ASSUME NEW i \in 1 .. N, i \notin S PROVE FALSE
  OBVIOUS
<1>1. PICK T : T = {k \in 1 .. N : k \notin S}
  OBVIOUS
<1>2. T \in SUBSET (1 .. N) /\ T # {}
  BY <1>1
<1>3. PICK m \in T : \A y \in T : m >= y
  BY <1>2, LargestThere
<1>4. m \in 1 .. N /\ m \notin S
  BY <1>1
<1>5. \A k \in m + 1 .. N : k \in S
  <2>1. SUFFICES ASSUME NEW k \in m + 1 .. N, k \notin S PROVE FALSE
    OBVIOUS
  <2>2. k \in 1 .. N /\ ~(m >= k)
    BY <1>4
  <2> QED BY <1>1, <1>3, <2>1, <2>2
<1> QED BY <1>4, <1>5

\* If each number is in or out by the larger ones, there is such a set.
LEMMA DownThere ==
    ASSUME NEW N \in Nat, NEW R,
           \A i \in 1 .. N : \A X, Y \in SUBSET (1 .. N) :
               (\A k \in i + 1 .. N : k \in X <=> k \in Y) => (<<i, X>> \in R <=> <<i, Y>> \in R)
    PROVE  \E T \in SUBSET (1 .. N) : \A i \in 1 .. N : i \in T <=> <<i, T>> \in R
<1>1. PICK S : S = {n \in Nat : \E T \in SUBSET (1 .. N) : \A i \in 1 .. N :
                                    i > N - n => (i \in T <=> <<i, T>> \in R)}
  OBVIOUS
<1>2. 0 \in S
  <2>1. \A i \in 1 .. N : ~(i > N - 0)
    OBVIOUS
  <2>2. {} \in SUBSET (1 .. N)
    OBVIOUS
  <2> QED BY <1>1, <2>1, <2>2
<1>3. ASSUME NEW n \in S PROVE n + 1 \in S
  <2>1. n \in Nat /\ n + 1 \in Nat
    BY <1>1
  <2>2. PICK T \in SUBSET (1 .. N) : \A i \in 1 .. N : i > N - n => (i \in T <=> <<i, T>> \in R)
    BY <1>1
  <2>3. PICK m \in Int : m = N - n /\ m - 1 = N - (n + 1)
    BY <2>1
  <2>4. CASE m < 1
    <3>1. \A i \in 1 .. N : i > N - n
      BY <2>3, <2>4
    <3> QED BY <1>1, <2>1, <2>2, <3>1
  <2>5. CASE m >= 1
    <3>1. m \in 1 .. N
      BY <2>1, <2>3, <2>5
    <3>2. PICK U : U = {i \in 1 .. N : IF i = m THEN <<m, T>> \in R ELSE i \in T}
      OBVIOUS
    <3>3. U \in SUBSET (1 .. N)
      BY <3>2
    <3>4. ASSUME NEW i \in 1 .. N, i > m - 1 PROVE i \in U <=> <<i, U>> \in R
      <4>1. \A k \in i + 1 .. N : k \in 1 .. N /\ k # m
        BY <2>3, <3>1, <3>4
      <4>2. \A k \in i + 1 .. N : k \in T <=> k \in U
        BY <3>2, <4>1
      <4>3. <<i, T>> \in R <=> <<i, U>> \in R
        BY <2>2, <3>3, <4>2
      <4>4. CASE i = m
        BY <3>2, <4>3, <4>4
      <4>5. CASE i # m
        <5>1. i > N - n
          BY <2>3, <3>4, <4>5
        <5> QED BY <2>2, <3>2, <4>3, <4>5, <5>1
      <4> QED BY <4>4, <4>5
    <3> QED BY <1>1, <2>1, <2>3, <3>3, <3>4
  <2> QED BY <2>3, <2>4, <2>5
<1>6. S = Nat
  BY <1>1, <1>2, <1>3, NumbersAll
<1>4. N \in S
  BY <1>6
<1>5. \A i \in 1 .. N : i > N - N
  OBVIOUS
<1> QED BY <1>1, <1>4, <1>5

\* What a group says of the groups that hold.
GroupSays(gs, met, i, X) ==
    CASE gs[i].conds = {} /\ Nested(gs, i) = {} -> TRUE
      [] gs[i].type = "AND" ->
             gs[i].conds \subseteq met /\ \A j \in Nested(gs, i) : j \in X
      [] OTHER -> gs[i].conds \cap met # {} \/ \E j \in Nested(gs, i) : j \in X

GroupSaysOf(gs, met, i, f) ==
    CASE gs[i].conds = {} /\ Nested(gs, i) = {} -> TRUE
      [] gs[i].type = "AND" ->
             gs[i].conds \subseteq met /\ \A j \in Nested(gs, i) : f[j]
      [] OTHER -> gs[i].conds \cap met # {} \/ \E j \in Nested(gs, i) : f[j]

LEMMA GroupSaysBoth ==
    ASSUME NEW gs, NEW met, NEW i, NEW X, NEW f, \A j \in Nested(gs, i) : f[j] <=> j \in X
    PROVE  /\ GroupSaysOf(gs, met, i, f) <=> GroupSays(gs, met, i, X)
           /\ GroupSaysOf(gs, met, i, f) \in BOOLEAN
<1>1. CASE gs[i].conds = {} /\ Nested(gs, i) = {}
  BY <1>1 DEF GroupSays, GroupSaysOf
<1>2. CASE ~(gs[i].conds = {} /\ Nested(gs, i) = {}) /\ gs[i].type = "AND"
  BY <1>2 DEF GroupSays, GroupSaysOf
<1>3. CASE ~(gs[i].conds = {} /\ Nested(gs, i) = {}) /\ gs[i].type # "AND"
  BY <1>3 DEF GroupSays, GroupSaysOf
<1> QED BY <1>1, <1>2, <1>3

LEMMA HoldingSays ==
    ASSUME NEW gs, NEW l \in Nat, DOMAIN gs = 1 .. l, NEW met,
           \A g \in 1 .. l : gs[g].parent \in 0 .. g - 1
    PROVE  /\ Holding(gs, met) \subseteq 1 .. l
           /\ \A i \in 1 .. l : i \in Holding(gs, met) <=> GroupSays(gs, met, i, Holding(gs, met))
<1>1. ASSUME NEW i \in 1 .. l, NEW j \in Nested(gs, i) PROVE j \in i + 1 .. l
  <2>1. j \in 1 .. l /\ gs[j].parent = i
    BY DEF Nested
  <2>2. i \in 0 .. j - 1
    BY <2>1
  <2> QED BY <2>1, <2>2
<1>e. \A i \in 1 .. l : \A j \in i + 1 .. l : j \in 1 .. l
  OBVIOUS
<1>2. PICK R : R = {x \in (1 .. l) \X SUBSET (1 .. l) : GroupSays(gs, met, x[1], x[2])}
  OBVIOUS
<1>3. \A i \in 1 .. l : \A X \in SUBSET (1 .. l) : <<i, X>> \in R <=> GroupSays(gs, met, i, X)
  BY <1>2
<1>4. ASSUME NEW i \in 1 .. l, NEW X \in SUBSET (1 .. l), NEW Y \in SUBSET (1 .. l),
             \A k \in i + 1 .. l : k \in X <=> k \in Y
      PROVE  <<i, X>> \in R <=> <<i, Y>> \in R
  <2>1. \A j \in Nested(gs, i) : j \in X <=> j \in Y
    BY <1>1, <1>4
  <2>2. GroupSays(gs, met, i, X) <=> GroupSays(gs, met, i, Y)
    BY <2>1 DEF GroupSays
  <2> QED BY <1>3, <2>2
<1>5. PICK T \in SUBSET (1 .. l) : \A i \in 1 .. l : i \in T <=> <<i, T>> \in R
  BY <1>4, DownThere
<1>6. \A i \in 1 .. l : i \in T <=> GroupSays(gs, met, i, T)
  BY <1>3, <1>5
<1>7. PICK f : f = [i \in 1 .. l |-> i \in T]
  OBVIOUS
<1>8. f = [i \in 1 .. l |-> GroupSaysOf(gs, met, i, f)]
  <2>1. ASSUME NEW i \in 1 .. l PROVE (i \in T) = GroupSaysOf(gs, met, i, f)
    <3>1. \A j \in Nested(gs, i) : f[j] <=> j \in T
      BY <1>1, <1>e, <1>7
    <3>2. /\ GroupSaysOf(gs, met, i, f) <=> GroupSays(gs, met, i, T)
          /\ GroupSaysOf(gs, met, i, f) \in BOOLEAN
      BY <3>1, GroupSaysBoth
    <3> QED BY <1>6, <3>2
  <2> QED BY <1>7, <2>1
<1>9. PICK h : h = CHOOSE x : x = [i \in 1 .. l |-> GroupSaysOf(gs, met, i, x)]
  OBVIOUS
<1>10. h = [i \in 1 .. l |-> GroupSaysOf(gs, met, i, h)]
  BY <1>8, <1>9
<1>11. Holding(gs, met) = {i \in 1 .. l : h[i]}
  BY <1>9 DEF Holding, GroupSaysOf
<1>12. ASSUME NEW i \in 1 .. l
       PROVE  i \in Holding(gs, met) <=> GroupSays(gs, met, i, Holding(gs, met))
  <2>1. PICK H : H = Holding(gs, met)
    OBVIOUS
  <2>2. \A j \in 1 .. l : h[j] <=> j \in H
    BY <1>11, <2>1
  <2>3. \A j \in Nested(gs, i) : h[j] <=> j \in H
    BY <1>1, <1>e, <2>2
  <2>4. GroupSaysOf(gs, met, i, h) <=> GroupSays(gs, met, i, H)
    BY <2>3, GroupSaysBoth
  <2>5. h[i] = GroupSaysOf(gs, met, i, h)
    BY <1>10
  <2> QED BY <2>1, <2>2, <2>4, <2>5
<1> QED BY <1>11, <1>12

\* More groups hold when more conditions do.
LEMMA HoldingMore ==
    ASSUME NEW gs, NEW l \in Nat, DOMAIN gs = 1 .. l, NEW m1, NEW m2, m1 \subseteq m2,
           \A g \in 1 .. l : gs[g].parent \in 0 .. g - 1
    PROVE  Holding(gs, m1) \subseteq Holding(gs, m2)
<1>1. PICK H1 : H1 = Holding(gs, m1)
  OBVIOUS
<1>2. PICK H2 : H2 = Holding(gs, m2)
  OBVIOUS
<1>3. /\ H1 \subseteq 1 .. l
      /\ \A i \in 1 .. l : i \in H1 <=> GroupSays(gs, m1, i, H1)
      /\ \A i \in 1 .. l : i \in H2 <=> GroupSays(gs, m2, i, H2)
  BY <1>1, <1>2, HoldingSays
<1>4. PICK S : S = {g \in 1 .. l : g \in H1 => g \in H2}
  OBVIOUS
<1>5. ASSUME NEW g \in 1 .. l, \A k \in g + 1 .. l : k \in S PROVE g \in S
  <2>1. ASSUME NEW j \in Nested(gs, g), j \in H1 PROVE j \in H2
    <3>1. j \in 1 .. l /\ gs[j].parent = g
      BY DEF Nested
    <3>2. g \in 0 .. j - 1
      BY <3>1
    <3>3. j \in g + 1 .. l
      BY <3>1, <3>2
    <3> QED BY <1>4, <1>5, <2>1, <3>3
  <2>2. GroupSays(gs, m1, g, H1) => GroupSays(gs, m2, g, H2)
    <3>1. CASE gs[g].conds = {} /\ Nested(gs, g) = {}
      BY <3>1 DEF GroupSays
    <3>2. CASE ~(gs[g].conds = {} /\ Nested(gs, g) = {}) /\ gs[g].type = "AND"
      BY <2>1, <3>2 DEF GroupSays
    <3>3. CASE ~(gs[g].conds = {} /\ Nested(gs, g) = {}) /\ gs[g].type # "AND"
      BY <2>1, <3>3 DEF GroupSays
    <3> QED BY <3>1, <3>2, <3>3
  <2> QED BY <1>3, <1>4, <2>2
<1>6. \A g \in 1 .. l : g \in S
  BY <1>5, DownAll
<1> QED BY <1>1, <1>2, <1>3, <1>4, <1>6

\* What a call says of the calls that are true.
PartsIn(s, i) == {k \in DOMAIN s : s[k].type # "end" /\ WithinIn(s, k) = i}
CallSays(s, met, i, X) ==
    CASE s[i].type = "is" -> s[i].conds \subseteq met
      [] s[i].type = "OR" /\ PartsIn(s, i) # {} -> \E k \in PartsIn(s, i) : k \in X
      [] OTHER -> \A k \in PartsIn(s, i) : k \in X

CallSaysOf(s, met, i, f) ==
    CASE s[i].type = "is" -> s[i].conds \subseteq met
      [] s[i].type = "OR" /\ PartsIn(s, i) # {} -> \E k \in PartsIn(s, i) : f[k]
      [] OTHER -> \A k \in PartsIn(s, i) : f[k]

LEMMA CallSaysBoth ==
    ASSUME NEW s, NEW met, NEW i, NEW X, NEW f, \A k \in PartsIn(s, i) : f[k] <=> k \in X
    PROVE  /\ CallSaysOf(s, met, i, f) <=> CallSays(s, met, i, X)
           /\ CallSaysOf(s, met, i, f) \in BOOLEAN
<1>1. CASE s[i].type = "is"
  BY <1>1 DEF CallSays, CallSaysOf
<1>2. CASE s[i].type # "is" /\ s[i].type = "OR" /\ PartsIn(s, i) # {}
  BY <1>2 DEF CallSays, CallSaysOf
<1>3. CASE s[i].type # "is" /\ ~(s[i].type = "OR" /\ PartsIn(s, i) # {})
  BY <1>3 DEF CallSays, CallSaysOf
<1> QED BY <1>1, <1>2, <1>3

LEMMA PartsLater ==
    ASSUME NEW s, NEW n \in Nat, DOMAIN s = 1 .. n, NEW i \in 1 .. n, NEW k \in PartsIn(s, i)
    PROVE  k \in i + 1 .. n
<1>1. k \in 1 .. n /\ WithinIn(s, k) = i
  BY DEF PartsIn
<1>2. PICK A : A = AroundIn(s, k)
  OBVIOUS
<1>3. A # {} /\ i = Max(A)
  BY <1>1, <1>2 DEF WithinIn
<1>4. k - 1 \in Nat /\ A \in SUBSET (1 .. k - 1)
  BY <1>1, <1>2 DEF AroundIn
<1>5. i \in A
  BY <1>3, <1>4, LargestThere
<1> QED BY <1>1, <1>4, <1>5

LEMMA AskedSays ==
    ASSUME NEW n \in Nat, DOMAIN asked = 1 .. n, NEW met
    PROVE  \E T \in SUBSET (1 .. n) :
               /\ \A i \in 1 .. n : i \in T <=> CallSays(asked, met, i, T)
               /\ Asked(met) <=> \A k \in PartsIn(asked, 0) : k \in T
<1>1. PICK s : s = asked
  OBVIOUS
<1>2. \A i \in 1 .. n : \A k \in PartsIn(s, i) : k \in i + 1 .. n /\ k \in 1 .. n
  <2>1. SUFFICES ASSUME NEW i \in 1 .. n, NEW k \in PartsIn(s, i) PROVE k \in i + 1 .. n /\ k \in 1 .. n
    OBVIOUS
  <2>2. k \in i + 1 .. n
    BY <1>1, PartsLater
  <2> QED BY <2>2
<1>3. PICK R : R = {x \in (1 .. n) \X SUBSET (1 .. n) : CallSays(s, met, x[1], x[2])}
  OBVIOUS
<1>4. \A i \in 1 .. n : \A X \in SUBSET (1 .. n) : <<i, X>> \in R <=> CallSays(s, met, i, X)
  BY <1>3
<1>5. ASSUME NEW i \in 1 .. n, NEW X \in SUBSET (1 .. n), NEW Y \in SUBSET (1 .. n),
             \A k \in i + 1 .. n : k \in X <=> k \in Y
      PROVE  <<i, X>> \in R <=> <<i, Y>> \in R
  <2>1. \A k \in PartsIn(s, i) : k \in X <=> k \in Y
    BY <1>2, <1>5
  <2>2. CallSays(s, met, i, X) <=> CallSays(s, met, i, Y)
    BY <2>1 DEF CallSays
  <2> QED BY <1>4, <2>2
<1>6. PICK T \in SUBSET (1 .. n) : \A i \in 1 .. n : i \in T <=> <<i, T>> \in R
  BY <1>5, DownThere
<1>7. \A i \in 1 .. n : i \in T <=> CallSays(s, met, i, T)
  BY <1>4, <1>6
<1>9. PICK f : f = [i \in 1 .. n |-> i \in T]
  OBVIOUS
<1>10. f = [i \in 1 .. n |-> CallSaysOf(s, met, i, f)]
  <2>1. ASSUME NEW i \in 1 .. n PROVE (i \in T) = CallSaysOf(s, met, i, f)
    <3>1. \A k \in PartsIn(s, i) : f[k] <=> k \in T
      BY <1>2, <1>9
    <3>2. /\ CallSaysOf(s, met, i, f) <=> CallSays(s, met, i, T)
          /\ CallSaysOf(s, met, i, f) \in BOOLEAN
      BY <3>1, CallSaysBoth
    <3> QED BY <1>7, <3>2
  <2> QED BY <1>9, <2>1
<1>11. PICK h : h = CHOOSE x : x = [i \in 1 .. n |-> CallSaysOf(s, met, i, x)]
  OBVIOUS
<1>12. h = [i \in 1 .. n |-> CallSaysOf(s, met, i, h)]
  BY <1>10, <1>11
<1>13. Asked(met) <=> \A k \in PartsIn(s, 0) : h[k]
  <2>1. h = CHOOSE g : g = [i \in DOMAIN asked |-> CallSaysOf(asked, met, i, g)]
    BY <1>1, <1>11
  <2>2. Asked(met) <=> \A k \in PartsIn(asked, 0) : h[k]
    BY <2>1 DEF Asked, PartsIn, CallSaysOf, Within, WithinIn, AroundIn, ManyIn, Kinds
  <2> QED BY <1>1, <2>2
<1>14. PICK U : U = {i \in 1 .. n : h[i]}
  OBVIOUS
<1>15. ASSUME NEW i \in 1 .. n PROVE i \in U <=> CallSays(s, met, i, U)
  <2>1. \A k \in PartsIn(s, i) : h[k] <=> k \in U
    BY <1>2, <1>14
  <2>2. CallSaysOf(s, met, i, h) <=> CallSays(s, met, i, U)
    BY <2>1, CallSaysBoth
  <2>3. h[i] = CallSaysOf(s, met, i, h)
    BY <1>12
  <2> QED BY <1>14, <2>2, <2>3
<1>16. \A k \in PartsIn(s, 0) : k \in U <=> h[k]
  BY <1>1, <1>14 DEF PartsIn
<1>17. U \in SUBSET (1 .. n)
  BY <1>14
<1> QED BY <1>1, <1>13, <1>15, <1>16, <1>17

CondsOf(cs, gs, h) == IF h = 0 THEN cs ELSE gs[h].conds

\* The parts of a group are its conditions and the groups inside it.
Parted(s, gs, cs, pos, h) ==
    /\ \A k : k \in PartsIn(s, BegunAt(pos, h)) <=>
           \/ k \in 1 .. Len(s) /\ s[k].type = "is" /\ WithinIn(s, k) = BegunAt(pos, h)
           \/ \E g \in Nested(gs, h) : k = pos[g]
    /\ \A c : c \in CondsOf(cs, gs, h) <=>
           \E k \in 1 .. Len(s) :
               s[k].type = "is" /\ c \in s[k].conds /\ WithinIn(s, k) = BegunAt(pos, h)
    /\ \A k \in 1 .. Len(s) : s[k].type = "is" => \E c : s[k].conds = {c}

LEMMA PartsAre ==
    ASSUME NEW s \in Seq(Entry), NEW gs \in Seq(Grouped), NEW cs, NEW pos,
           Drawn(s, gs, pos), Sorted(s, gs, cs, pos), NEW h \in 0 .. Len(gs)
    PROVE  Parted(s, gs, cs, pos, h)
<1>1. PICK n \in Nat : n = Len(s)
  OBVIOUS
<1>2. PICK l \in Nat : l = Len(gs)
  OBVIOUS
<1>3. /\ pos \in [1 .. l -> 1 .. n]
      /\ \A g, f \in 1 .. l : g < f => pos[g] < pos[f]
      /\ \A k \in 1 .. n : s[k].type \in Kinds => \E g \in 1 .. l : k = pos[g]
      /\ \A g \in 1 .. l :
           /\ s[pos[g]].type = gs[g].type
           /\ gs[g].parent \in 0 .. g - 1
           /\ WithinIn(s, pos[g]) = BegunAt(pos, gs[g].parent)
  BY <1>1, <1>2 DEF Drawn
<1>4. DOMAIN s = 1 .. n /\ \A k \in 1 .. n : s[k].type \in {"AND", "OR", "is", "end"}
  <2>1. DOMAIN s = 1 .. n /\ \A k \in 1 .. n : s[k] \in Entry
    BY <1>1
  <2>2. \A e \in Entry : e.type \in {"AND", "OR", "is", "end"}
    BY DEF Entry
  <2> QED BY <2>1, <2>2
<1>5. DOMAIN gs = 1 .. l /\ \A g \in 1 .. l : gs[g].type \in Kinds
  <2>1. DOMAIN gs = 1 .. l /\ \A g \in 1 .. l : gs[g] \in Grouped
    BY <1>2
  <2>2. \A g \in Grouped : g.type \in Kinds
    BY DEF Grouped, Kinds
  <2> QED BY <2>1, <2>2
<1>6. \A g \in 1 .. l : gs[g].parent \in 0 .. l
  BY <1>3
<1>7. ASSUME NEW k
      PROVE  k \in PartsIn(s, BegunAt(pos, h)) <=>
                 \/ k \in 1 .. n /\ s[k].type = "is" /\ WithinIn(s, k) = BegunAt(pos, h)
                 \/ \E g \in Nested(gs, h) : k = pos[g]
  <2>1. ASSUME k \in PartsIn(s, BegunAt(pos, h)), s[k].type # "is"
        PROVE  \E g \in Nested(gs, h) : k = pos[g]
    <3>1. k \in 1 .. n /\ s[k].type \in Kinds /\ WithinIn(s, k) = BegunAt(pos, h)
      BY <1>4, <2>1 DEF PartsIn, Kinds
    <3>2. PICK g \in 1 .. l : k = pos[g]
      BY <1>3, <3>1
    <3>3. BegunAt(pos, gs[g].parent) = BegunAt(pos, h)
      BY <1>3, <3>1, <3>2
    <3>4. gs[g].parent = h
      <4>1. PICK f \in 0 .. l : f = gs[g].parent
        BY <1>6, <3>2
      <4>2. h \in 0 .. l /\ BegunAt(pos, f) = BegunAt(pos, h)
        BY <1>2, <3>3, <4>1
      <4>3. f = h
        <5>1. \A i \in 1 .. l : pos[i] \in Nat \ {0}
          BY <1>3
        <5>2. \A i, j \in 1 .. l : i < j => pos[i] < pos[j]
          BY <1>3
        <5> QED BY <4>2, <5>1, <5>2, BegunOnce
      <4> QED BY <4>1, <4>3
    <3> QED BY <1>5, <3>2, <3>4 DEF Nested
  <2>2. ASSUME NEW g \in Nested(gs, h), k = pos[g] PROVE k \in PartsIn(s, BegunAt(pos, h))
    <3>1. g \in 1 .. l /\ gs[g].parent = h
      BY <1>5 DEF Nested
    <3>2. k \in 1 .. n /\ WithinIn(s, k) = BegunAt(pos, h) /\ s[k].type \in Kinds
      BY <1>3, <1>5, <2>2, <3>1
    <3> QED BY <1>4, <3>2 DEF PartsIn, Kinds
  <2>3. ASSUME k \in 1 .. n, s[k].type = "is", WithinIn(s, k) = BegunAt(pos, h)
        PROVE  k \in PartsIn(s, BegunAt(pos, h))
    BY <1>4, <2>3 DEF PartsIn
  <2>4. k \in PartsIn(s, BegunAt(pos, h)) => k \in 1 .. n /\ WithinIn(s, k) = BegunAt(pos, h)
    BY <1>4 DEF PartsIn
  <2> QED BY <2>1, <2>2, <2>3, <2>4
<1>8. ASSUME NEW c
      PROVE  c \in CondsOf(cs, gs, h) <=>
                 \E k \in 1 .. n :
                     s[k].type = "is" /\ c \in s[k].conds /\ WithinIn(s, k) = BegunAt(pos, h)
  <2>1. CASE h = 0
    BY <1>1, <2>1 DEF Sorted, CondsOf, BegunAt
  <2>2. CASE h # 0
    <3>1. h \in 1 .. l
      BY <1>2, <2>2
    <3> QED BY <1>1, <1>2, <2>2, <3>1 DEF Sorted, CondsOf, BegunAt
  <2> QED BY <2>1, <2>2
<1>9. \A k \in 1 .. n : s[k].type = "is" => \E c : s[k].conds = {c}
  BY <1>1 DEF Sorted
<1> QED BY <1>1, <1>7, <1>8, <1>9 DEF Parted

\* So they are all true, some are, or there are none, in both.
PartsAgree(s, gs, cs, pos, h, met, H, T) ==
    /\ (\A k \in PartsIn(s, BegunAt(pos, h)) : k \in T) <=>
           CondsOf(cs, gs, h) \subseteq met /\ \A g \in Nested(gs, h) : g \in H
    /\ (\E k \in PartsIn(s, BegunAt(pos, h)) : k \in T) <=>
           CondsOf(cs, gs, h) \cap met # {} \/ \E g \in Nested(gs, h) : g \in H
    /\ PartsIn(s, BegunAt(pos, h)) = {} <=>
           CondsOf(cs, gs, h) = {} /\ Nested(gs, h) = {}

LEMMA PartsSay ==
    ASSUME NEW s, NEW gs, NEW cs, NEW pos, NEW h, Parted(s, gs, cs, pos, h), NEW met,
           NEW H, NEW T,
           \A k \in 1 .. Len(s) : s[k].type = "is" => (k \in T <=> s[k].conds \subseteq met),
           \A g \in Nested(gs, h) : g \in H <=> pos[g] \in T
    PROVE  PartsAgree(s, gs, cs, pos, h, met, H, T)
<1>1. PICK P : P = PartsIn(s, BegunAt(pos, h))
  OBVIOUS
<1>2. PICK C : C = CondsOf(cs, gs, h)
  OBVIOUS
<1>3. PICK G : G = Nested(gs, h)
  OBVIOUS
<1>4. PICK I : I = {k \in 1 .. Len(s) : s[k].type = "is" /\ WithinIn(s, k) = BegunAt(pos, h)}
  OBVIOUS
<1>5. /\ \A k : k \in P <=> k \in I \/ \E g \in G : k = pos[g]
      /\ \A c : c \in C <=> \E k \in I : c \in s[k].conds
      /\ \A k \in I : \E c : s[k].conds = {c}
  BY <1>1, <1>2, <1>3, <1>4 DEF Parted
<1>6. /\ \A k \in I : k \in T <=> s[k].conds \subseteq met
      /\ \A g \in G : g \in H <=> pos[g] \in T
  BY <1>3, <1>4
<1>7. (\A k \in I : k \in T) <=> C \subseteq met
  BY <1>5, <1>6
<1>8. (\E k \in I : k \in T) <=> C \cap met # {}
  <2>1. ASSUME NEW k \in I, k \in T PROVE C \cap met # {}
    <3>1. PICK c : s[k].conds = {c}
      BY <1>5
    <3>2. c \in C /\ c \in met
      BY <1>5, <1>6, <2>1, <3>1
    <3> QED BY <3>2
  <2>2. ASSUME NEW c \in C, c \in met PROVE \E k \in I : k \in T
    <3>1. PICK k \in I : c \in s[k].conds
      BY <1>5
    <3>2. s[k].conds = {c}
      BY <1>5, <3>1
    <3> QED BY <1>6, <2>2, <3>2
  <2> QED BY <2>1, <2>2
<1>9. I = {} <=> C = {}
  <2>1. ASSUME NEW k \in I PROVE C # {}
    <3>1. PICK c : s[k].conds = {c}
      BY <1>5
    <3> QED BY <1>5, <3>1
  <2>2. ASSUME NEW c \in C PROVE I # {}
    BY <1>5
  <2> QED BY <2>1, <2>2
<1>10. (\A k \in P : k \in T) <=> C \subseteq met /\ \A g \in G : g \in H
  BY <1>5, <1>6, <1>7
<1>11. (\E k \in P : k \in T) <=> C \cap met # {} \/ \E g \in G : g \in H
  BY <1>5, <1>6, <1>8
<1>12. P = {} <=> C = {} /\ G = {}
  <2>1. P = {} <=> I = {} /\ G = {}
    BY <1>5
  <2> QED BY <1>9, <2>1
<1> QED BY <1>1, <1>2, <1>3, <1>10, <1>11, <1>12 DEF PartsAgree

\* What was asked is true when WHERE is.
LEMMA AskedIsWhere ==
    ASSUME NEW cs, NEW op, NEW ne, NEW pos, NEW st,
           Traced(asked, groups, cs, op, ne, pos, st), NEW met
    PROVE  Asked(met) <=> Where(cs, met)
<1>0. /\ asked \in Seq(Entry) /\ groups \in Seq(Grouped)
      /\ Drawn(asked, groups, pos) /\ Sorted(asked, groups, cs, pos)
  BY DEF Traced
<1>1. PICK n \in Nat : n = Len(asked) /\ DOMAIN asked = 1 .. n
  BY <1>0
<1>2. PICK l \in Nat : l = Len(groups) /\ DOMAIN groups = 1 .. l
  BY <1>0
<1>3. /\ pos \in [1 .. l -> 1 .. n]
      /\ \A g \in 1 .. l : /\ asked[pos[g]].type = groups[g].type
                           /\ groups[g].parent \in 0 .. g - 1
                           /\ groups[g].type \in {"AND", "OR"}
  <2>1. \A g \in 1 .. l : groups[g].type \in {"AND", "OR"}
    <3>1. \A g \in 1 .. l : groups[g] \in Grouped
      BY <1>0, <1>2
    <3>2. \A g \in Grouped : g.type \in {"AND", "OR"}
      BY DEF Grouped
    <3> QED BY <3>1, <3>2
  <2> QED BY <1>0, <1>1, <1>2, <2>1 DEF Drawn
<1>4. PICK H : H = Holding(groups, met)
  OBVIOUS
<1>5. \A i \in 1 .. l : i \in H <=> GroupSays(groups, met, i, H)
  BY <1>2, <1>3, <1>4, HoldingSays
<1>6. PICK T \in SUBSET (1 .. n) :
          /\ \A i \in 1 .. n : i \in T <=> CallSays(asked, met, i, T)
          /\ Asked(met) <=> \A k \in PartsIn(asked, 0) : k \in T
  BY <1>1, AskedSays
<1>7. \A k \in 1 .. Len(asked) : asked[k].type = "is" => (k \in T <=> asked[k].conds \subseteq met)
  BY <1>1, <1>6 DEF CallSays
<1>8. \A h \in 0 .. l : Parted(asked, groups, cs, pos, h)
  BY <1>0, <1>2, PartsAre
<1>9. PICK S : S = {g \in 1 .. l : g \in H <=> pos[g] \in T}
  OBVIOUS
<1>10. ASSUME NEW h \in 0 .. l, NEW g \in Nested(groups, h) PROVE g \in h + 1 .. l
  <2>1. g \in 1 .. l /\ groups[g].parent = h
    BY <1>2 DEF Nested
  <2>2. h \in 0 .. g - 1
    BY <1>3, <2>1
  <2> QED BY <2>1, <2>2
<1>11. ASSUME NEW g \in 1 .. l, \A k \in g + 1 .. l : k \in S PROVE g \in S
  <2>1. g \in 0 .. l /\ BegunAt(pos, g) = pos[g] /\ CondsOf(cs, groups, g) = groups[g].conds
    BY DEF BegunAt, CondsOf
  <2>2. \A j \in Nested(groups, g) : j \in H <=> pos[j] \in T
    BY <1>9, <1>10, <1>11, <2>1
  <2>3. Parted(asked, groups, cs, pos, g)
    BY <1>8, <2>1
  <2>4. PartsAgree(asked, groups, cs, pos, g, met, H, T)
    BY <1>7, <2>2, <2>3, PartsSay
  <2>5. PICK P : P = PartsIn(asked, pos[g])
    OBVIOUS
  <2>6. /\ (\A k \in P : k \in T) <=>
               groups[g].conds \subseteq met /\ \A j \in Nested(groups, g) : j \in H
        /\ (\E k \in P : k \in T) <=>
               groups[g].conds \cap met # {} \/ \E j \in Nested(groups, g) : j \in H
        /\ P = {} <=> groups[g].conds = {} /\ Nested(groups, g) = {}
    BY <2>1, <2>4, <2>5 DEF PartsAgree
  <2>7. pos[g] \in 1 .. n /\ asked[pos[g]].type = groups[g].type
    BY <1>3
  <2>8. pos[g] \in T <=> CallSays(asked, met, pos[g], T)
    BY <1>6, <2>7
  <2>9. g \in H <=> GroupSays(groups, met, g, H)
    BY <1>5
  <2>10. CASE P = {}
    <3>1. GroupSays(groups, met, g, H)
      BY <2>6, <2>10 DEF GroupSays
    <3>2. CallSays(asked, met, pos[g], T)
      BY <1>3, <2>5, <2>7, <2>10 DEF CallSays
    <3> QED BY <1>9, <2>8, <2>9, <3>1, <3>2
  <2>11. CASE P # {} /\ groups[g].type = "AND"
    <3>1. GroupSays(groups, met, g, H) <=>
              groups[g].conds \subseteq met /\ \A j \in Nested(groups, g) : j \in H
      BY <2>6, <2>11 DEF GroupSays
    <3>2. CallSays(asked, met, pos[g], T) <=> \A k \in P : k \in T
      BY <2>5, <2>7, <2>11 DEF CallSays
    <3> QED BY <1>9, <2>6, <2>8, <2>9, <3>1, <3>2
  <2>12. CASE P # {} /\ groups[g].type = "OR"
    <3>1. GroupSays(groups, met, g, H) <=>
              groups[g].conds \cap met # {} \/ \E j \in Nested(groups, g) : j \in H
      BY <2>6, <2>12 DEF GroupSays
    <3>2. CallSays(asked, met, pos[g], T) <=> \E k \in P : k \in T
      BY <2>5, <2>7, <2>12 DEF CallSays
    <3> QED BY <1>9, <2>6, <2>8, <2>9, <3>1, <3>2
  <2> QED BY <1>3, <2>10, <2>11, <2>12
<1>12. \A g \in 1 .. l : g \in S
  BY <1>11, DownAll
<1>13. 0 \in 0 .. l /\ BegunAt(pos, 0) = 0 /\ CondsOf(cs, groups, 0) = cs
  BY DEF BegunAt, CondsOf
<1>14. \A g \in Nested(groups, 0) : g \in H <=> pos[g] \in T
  BY <1>2, <1>9, <1>12 DEF Nested
<1>15. Parted(asked, groups, cs, pos, 0)
  BY <1>8, <1>13
<1>16. PartsAgree(asked, groups, cs, pos, 0, met, H, T)
  BY <1>7, <1>14, <1>15, PartsSay
<1>17. (\A k \in PartsIn(asked, 0) : k \in T) <=>
            cs \subseteq met /\ \A g \in Nested(groups, 0) : g \in H
  BY <1>13, <1>16 DEF PartsAgree
<1>18. Where(cs, met) <=> cs \subseteq met /\ \A g \in Nested(groups, 0) : g \in H
  BY <1>4 DEF Where
<1> QED BY <1>6, <1>17, <1>18

\* WHERE stays true when more conditions hold.
LEMMA WhereMore ==
    ASSUME NEW cs, NEW op, NEW ne, NEW pos, NEW st,
           Traced(asked, groups, cs, op, ne, pos, st), NEW m1, NEW m2, m1 \subseteq m2, Where(cs, m1)
    PROVE  Where(cs, m2)
<1>1. groups \in Seq(Grouped) /\ Drawn(asked, groups, pos)
  BY DEF Traced
<1>2. PICK l \in Nat : l = Len(groups) /\ DOMAIN groups = 1 .. l
  BY <1>1
<1>3. \A g \in 1 .. l : groups[g].parent \in 0 .. g - 1
  BY <1>1, <1>2 DEF Drawn
<1>4. Holding(groups, m1) \subseteq Holding(groups, m2)
  BY <1>2, <1>3, HoldingMore
<1> QED BY <1>4 DEF Where
-----------------------------------------------------------------------------
(* The query builder: rows of the statement and related rows               *)

LEMMA FrontsOfPrefixes ==
    /\ Front(<<"friend">>) = <<>> /\ Last(<<"friend">>) = "friend"
    /\ Front(<<"parameter">>) = <<>> /\ Last(<<"parameter">>) = "parameter"
    /\ Front(<<"attachment">>) = <<>> /\ Last(<<"attachment">>) = "attachment"
    /\ Front(<<"friend", "parameter">>) = <<"friend">> /\ Last(<<"friend", "parameter">>) = "parameter"
    /\ Front(<<"friend", "attachment">>) = <<"friend">> /\ Last(<<"friend", "attachment">>) = "attachment"
<1>1. ASSUME NEW x PROVE Front(<<x>>) = <<>> /\ Last(<<x>>) = x
  <2>1. Len(<<x>>) = 1
    OBVIOUS
  <2> QED BY <2>1, SubSeqEmpty DEF Front, Last
<1>2. ASSUME NEW x, NEW y PROVE Front(<<x, y>>) = <<x>> /\ Last(<<x, y>>) = y
  <2>1. <<x, y>> \in Seq({x, y}) /\ Len(<<x, y>>) = 2 /\ <<x, y>>[1] = x /\ <<x, y>>[2] = y
    OBVIOUS
  <2>2. PICK s \in Seq({x, y}) : s = <<x, y>> /\ Len(s) = 2 /\ s[1] = x /\ s[2] = y
    BY <2>1
  <2>3. SubSeq(s, 1, 1) \in Seq({x, y}) /\ Len(SubSeq(s, 1, 1)) = 1 /\ SubSeq(s, 1, 1)[1] = s[1]
    <3>1. \A i \in 1 .. 1 : s[i] \in {x, y}
      BY <2>2
    <3> QED BY <3>1, SubSeqProperties
  <2>4. <<x>> \in Seq({x, y}) /\ Len(<<x>>) = 1 /\ <<x>>[1] = x
    OBVIOUS
  <2>5. PICK f \in Seq({x, y}) : f = SubSeq(s, 1, 1) /\ Len(f) = 1 /\ f[1] = x
    BY <2>2, <2>3
  <2>6. PICK u \in Seq({x, y}) : u = <<x>> /\ Len(u) = 1 /\ u[1] = x
    BY <2>4
  <2>7. Len(u) = Len(f) /\ \A i \in 1 .. Len(u) : u[i] = f[i]
    BY <2>5, <2>6
  <2>8. u = f
    BY <2>7, SeqEqual
  <2>9. Front(s) = f /\ Last(s) = y
    BY <2>2, <2>5 DEF Front, Last
  <2> QED BY <2>2, <2>6, <2>8, <2>9
<1> QED BY <1>1, <1>2

\* What the last token of a prefix belongs to.
LEMMA OwnersOfPrefixes ==
    /\ TableOf(Front(<<"parameter">>)) = "thing" /\ TableOf(Front(<<"attachment">>)) = "thing"
    /\ TableOf(Front(<<"friend", "parameter">>)) = "person"
    /\ TableOf(Front(<<"friend", "attachment">>)) = "person"
BY FrontsOfPrefixes, TablesOfPrefixes

\* Of which tokens a prefix is made.
Reserved(p) == p \in Prefix /\ p # <<>> /\ p # <<"friend">>

LEMMA PrefixIs ==
    ASSUME NEW p \in Prefix
    PROVE  /\ Reserved(p) <=> p # <<>> /\ Last(p) \in DOMAIN ReservedTable
           /\ Reserved(p) => /\ TableOf(p) \in Referring
                             /\ TableOf(Front(p)) \in {"thing", "person"}
                             /\ \A q \in Prefix :
                                    (/\ Reserved(q) /\ TableOf(q) = TableOf(p)
                                     /\ TableOf(Front(q)) = TableOf(Front(p))) => q = p
           /\ TableOf(p) \in Table
<1>1. DOMAIN ReservedTable = {"parameter", "attachment"}
  BY DEF ReservedTable
<1>2. CASE p = <<>>
  BY <1>2, TablesOfPrefixes DEF Reserved, Table
<1>3. CASE p = <<"friend">>
  BY <1>1, <1>3, FrontsOfPrefixes, TablesOfPrefixes DEF Reserved, Table
<1>4. CASE p = <<"parameter">> \/ p = <<"attachment">>
  <2>1. /\ Reserved(p) /\ p # <<>> /\ Last(p) \in DOMAIN ReservedTable
        /\ TableOf(p) \in Referring /\ TableOf(p) \in Table /\ TableOf(Front(p)) = "thing"
    BY <1>1, <1>4, FrontsOfPrefixes, TablesOfPrefixes DEF Reserved, Table, Referring
  <2>2. ASSUME NEW q \in Prefix, Reserved(q), TableOf(q) = TableOf(p), TableOf(Front(q)) = "thing"
        PROVE  q = p
    <3>1. \/ q = <<"parameter">> \/ q = <<"attachment">>
          \/ q = <<"friend", "parameter">> \/ q = <<"friend", "attachment">>
      BY <2>2 DEF Reserved, Prefix
    <3>2. q # <<"friend", "parameter">> /\ q # <<"friend", "attachment">>
      BY <2>2, OwnersOfPrefixes
    <3>3. TableOf(q) = TableOf(p)
      BY <2>2
    <3>4. /\ TableOf(<<"parameter">>) # TableOf(<<"attachment">>)
          /\ TableOf(<<"friend", "parameter">>) # TableOf(<<"friend", "attachment">>)
      BY TablesOfPrefixes
    <3> QED BY Zenon, <1>4, <3>1, <3>2, <3>3, <3>4
  <2> QED BY <2>1, <2>2
<1>5. CASE p = <<"friend", "parameter">> \/ p = <<"friend", "attachment">>
  <2>1. /\ Reserved(p) /\ p # <<>> /\ Last(p) \in DOMAIN ReservedTable
        /\ TableOf(p) \in Referring /\ TableOf(p) \in Table /\ TableOf(Front(p)) = "person"
    BY <1>1, <1>5, FrontsOfPrefixes, TablesOfPrefixes DEF Reserved, Table, Referring
  <2>2. ASSUME NEW q \in Prefix, Reserved(q), TableOf(q) = TableOf(p), TableOf(Front(q)) = "person"
        PROVE  q = p
    <3>1. \/ q = <<"parameter">> \/ q = <<"attachment">>
          \/ q = <<"friend", "parameter">> \/ q = <<"friend", "attachment">>
      BY <2>2 DEF Reserved, Prefix
    <3>2. q # <<"parameter">> /\ q # <<"attachment">>
      BY <2>2, OwnersOfPrefixes
    <3>3. TableOf(q) = TableOf(p)
      BY <2>2
    <3>4. /\ TableOf(<<"parameter">>) # TableOf(<<"attachment">>)
          /\ TableOf(<<"friend", "parameter">>) # TableOf(<<"friend", "attachment">>)
      BY TablesOfPrefixes
    <3> QED BY Zenon, <1>5, <3>1, <3>2, <3>3, <3>4
  <2> QED BY <2>1, <2>2
<1> QED BY <1>2, <1>3, <1>4, <1>5 DEF Prefix

\* The rows a prefix leads to, spelled out.
LEMMA RelatedRows ==
    ASSUME NEW p \in Prefix, NEW t
    PROVE  /\ p = <<>> => \A x : x \in Related(p, t) <=> x = t
           /\ p = <<"friend">> =>
                  \A x : x \in Related(p, t) <=> x \in Rows["person"] /\ x.id = t.friend
           /\ Reserved(p) /\ TableOf(Front(p)) = "thing" =>
                  \A x : x \in Related(p, t) <=>
                      x \in Rows[TableOf(p)] /\ x.deleted = "no" /\ x.parent_guid = t.guid
           /\ Reserved(p) /\ TableOf(Front(p)) = "person" =>
                  \A x : x \in Related(p, t) <=>
                      /\ x \in Rows[TableOf(p)] /\ x.deleted = "no"
                      /\ \E o \in Rows["person"] : o.id = t.friend /\ x.parent_guid = o.guid
<1>1. CASE p = <<>>
  BY <1>1 DEF Related, Owners, Reserved
<1>2. CASE p = <<"friend">>
  BY <1>2, FrontsOfPrefixes DEF Related, Owners, Reserved
<1>3. CASE p = <<"parameter">> \/ p = <<"attachment">>
  <2>1. p # <<>> /\ Last(p) # "friend" /\ Front(p) = <<>> /\ p # <<"friend">>
    BY <1>3, FrontsOfPrefixes
  <2>2. \A x : x \in Related(p, t) <=> x \in Rows[TableOf(p)] /\ x.deleted = "no"
                                      /\ \E o \in Owners(<<>>, t) : x.parent_guid = o.guid
    BY <2>1 DEF Related
  <2>3. Owners(<<>>, t) = {t} /\ TableOf(Front(p)) = "thing"
    BY <2>1, TablesOfPrefixes DEF Owners
  <2> QED BY <2>1, <2>2, <2>3
<1>4. CASE p = <<"friend", "parameter">> \/ p = <<"friend", "attachment">>
  <2>1. p # <<>> /\ Last(p) # "friend" /\ Front(p) = <<"friend">> /\ p # <<"friend">>
    BY <1>4, FrontsOfPrefixes
  <2>2. \A x : x \in Related(p, t) <=> x \in Rows[TableOf(p)] /\ x.deleted = "no"
                                      /\ \E o \in Owners(<<"friend">>, t) : x.parent_guid = o.guid
    BY <2>1 DEF Related
  <2>3. (\A o : o \in Owners(<<"friend">>, t) <=> o \in Rows["person"] /\ o.id = t.friend)
        /\ TableOf(Front(p)) = "person"
    BY <2>1, TablesOfPrefixes DEF Owners
  <2> QED BY <2>1, <2>2, <2>3
<1> QED BY <1>1, <1>2, <1>3, <1>4 DEF Prefix

\* What a builder joins is linked, and its references are of what it joins.
LinksFit(b) ==
    /\ b.joins \subseteq {"friend"}
    /\ "friend" \in b.joins => "person" \in b.tables
    /\ \A T \in Referring : /\ b.reference[T] \in {"none", "thing", "person"}
                            /\ b.reference[T] = "person" => "friend" \in b.joins

\* The statement joins the table of a prefix as the prefix says.
Leads(p) ==
    /\ TableOf(p) \in tables
    /\ Reserved(p) => reference[TableOf(p)] = TableOf(Front(p))

\* A row of the result holds related rows.
LEMMA RowRelated ==
    ASSUME Fits(Now), LinksFit(Now), NEW r, JoinsHold(r),
           r.thing \in Rows["thing"],
           \A T \in {"person", "record_extension", "blobs"} : r[T] \in From(T),
           NEW p \in Prefix, Leads(p)
    PROVE  r[TableOf(p)] \in Related(p, r.thing) /\ r[TableOf(p)] # NoRow
<1>1. /\ tables = Now.tables /\ joins = Now.joins /\ reference = Now.reference
      /\ DOMAIN reference = Referring
      /\ \A T \in tables : Reaches(Now, T)
  BY DEF Now, Fits
<1>2. \A T \in Table : \A s \in Rows[T] : s # NoRow
  BY DataAssumption DEF NoRow
<1>3. r[TableOf(p)] \in Rows[TableOf(p)]
  <2>1. TableOf(p) \in Table /\ TableOf(p) \in tables
    BY PrefixIs DEF Leads
  <2>2. TableOf(p) = "thing" \/ TableOf(p) \in {"person", "record_extension", "blobs"}
    BY <2>1 DEF Table
  <2> QED BY <2>1, <2>2 DEF From
<1>4. r[TableOf(p)] # NoRow
  BY <1>2, <1>3, PrefixIs
<1>5. "person" \in tables => r.thing.friend = r.person.id
  BY <1>1 DEF Reaches, JoinsHold
<1>6. CASE p = <<>>
  BY <1>4, <1>6, TablesOfPrefixes, RelatedRows
<1>7. CASE p = <<"friend">>
  <2>1. r.person \in Rows["person"] /\ r.person.id = r.thing.friend
    BY <1>3, <1>5, <1>7, TablesOfPrefixes DEF Leads
  <2> QED BY <1>4, <1>7, <2>1, TablesOfPrefixes, RelatedRows
<1>8. CASE Reserved(p)
  <2>1. PICK T \in Referring : T = TableOf(p) /\ reference[T] = TableOf(Front(p))
    BY <1>8, PrefixIs DEF Leads
  <2>2. reference[T] = "thing" \/ reference[T] = "person"
    BY <1>8, <2>1, PrefixIs
  <2>3. r[T].parent_guid = r[reference[T]].guid /\ r[T].deleted = "no"
    BY <1>1, <2>2 DEF JoinsHold
  <2>4. CASE reference[T] = "thing"
    <3>1. \A x : x \in Related(p, r.thing) <=>
              x \in Rows[TableOf(p)] /\ x.deleted = "no" /\ x.parent_guid = r.thing.guid
      <4>1. TableOf(Front(p)) = "thing"
        BY <2>1, <2>4
      <4>2. PICK t : t = r.thing
        OBVIOUS
      <4>3. \A x : x \in Related(p, t) <=>
                x \in Rows[TableOf(p)] /\ x.deleted = "no" /\ x.parent_guid = t.guid
        BY <1>8, <4>1, RelatedRows
      <4> QED BY <4>2, <4>3
    <3>2. r[T] \in Rows[T] /\ r[T].deleted = "no" /\ r[T].parent_guid = r.thing.guid
      BY <1>3, <2>1, <2>3, <2>4
    <3> QED BY <1>4, <2>1, <3>1, <3>2
  <2>5. CASE reference[T] = "person"
    <3>1. "person" \in tables
      BY <1>1, <2>5 DEF LinksFit
    <3>2. r.person \in Rows["person"] /\ r.person.id = r.thing.friend
      BY <1>5, <3>1 DEF From
    <3>3. r[T].parent_guid = r.person.guid
      BY <2>3, <2>5
    <3>4. \A x : x \in Related(p, r.thing) <=>
              /\ x \in Rows[TableOf(p)] /\ x.deleted = "no"
              /\ \E o \in Rows["person"] : o.id = r.thing.friend /\ x.parent_guid = o.guid
      <4>1. TableOf(Front(p)) = "person"
        BY <2>1, <2>5
      <4>2. PICK t : t = r.thing
        OBVIOUS
      <4>3. \A x : x \in Related(p, t) <=>
                /\ x \in Rows[TableOf(p)] /\ x.deleted = "no"
                /\ \E o \in Rows["person"] : o.id = t.friend /\ x.parent_guid = o.guid
        BY <1>8, <4>1, RelatedRows
      <4> QED BY <4>2, <4>3
    <3>5. r[T] \in Rows[T] /\ r[T].deleted = "no"
      BY <1>3, <2>1, <2>3
    <3> QED BY <1>4, <2>1, <3>2, <3>3, <3>4, <3>5
  <2> QED BY <2>2, <2>4, <2>5
<1> QED BY <1>6, <1>7, <1>8 DEF Reserved

\* One token and then another.
LEMMA TwoTokens ==
    ASSUME NEW x, NEW y PROVE <<x>> \o <<y>> = <<x, y>>
<1>a. /\ <<x>> \in Seq({x, y}) /\ Len(<<x>>) = 1 /\ <<x>>[1] = x
      /\ <<y>> \in Seq({x, y}) /\ Len(<<y>>) = 1 /\ <<y>>[1] = y
  OBVIOUS
<1>b. <<x, y>> \in Seq({x, y}) /\ Len(<<x, y>>) = 2 /\ <<x, y>>[1] = x /\ <<x, y>>[2] = y
  OBVIOUS
<1>1. PICK u \in Seq({x, y}) : u = <<x>> /\ Len(u) = 1 /\ u[1] = x
  BY <1>a
<1>2. PICK v \in Seq({x, y}) : v = <<y>> /\ Len(v) = 1 /\ v[1] = y
  BY <1>a
<1>3. PICK w \in Seq({x, y}) : w = <<x, y>> /\ Len(w) = 2 /\ w[1] = x /\ w[2] = y
  BY <1>b
<1>4. u \o v \in Seq({x, y}) /\ Len(u \o v) = 2 /\ (u \o v)[1] = x /\ (u \o v)[2] = y
  BY <1>1, <1>2, ConcatProperties
<1>5. PICK z \in Seq({x, y}) : z = u \o v /\ Len(z) = 2 /\ z[1] = x /\ z[2] = y
  BY <1>4
<1>6. Len(z) = Len(w) /\ \A i \in 1 .. Len(z) : z[i] = w[i]
  BY <1>3, <1>5
<1>7. z = w
  BY <1>6, SeqEqual
<1> QED BY <1>1, <1>2, <1>3, <1>5, <1>7

\* The prefixes that are joined lead to tables of the statement.
LEMMA JoinedAre ==
    ASSUME LinksFit(Now), DOMAIN reference = Referring, ~Invalid(constraints), NEW p \in Joined
    PROVE  p \in Prefix /\ Leads(p)
<1>1. /\ tables = Now.tables /\ joins = Now.joins /\ reference = Now.reference
  BY DEF Now
<1>2. \A T \in Referring : reference[T] # "none" => T \in tables
  BY DEF Invalid
<1>3. CASE p \in {<<x>> : x \in joins}
  <2>1. p = <<"friend">> /\ "friend" \in joins
    BY <1>1, <1>3 DEF LinksFit
  <2>2. "person" \in tables
    BY <1>1, <2>1 DEF LinksFit
  <2> QED BY <2>1, <2>2, TablesOfPrefixes DEF Leads, Reserved, Prefix
<1>4. CASE p \notin {<<x>> : x \in joins}
  <2>1. PICK T \in Referring :
            /\ reference[T] # "none"
            /\ p = (IF reference[T] = "person" THEN <<"friend">> ELSE <<>>) \o <<Tokens[T]>>
    BY <1>4 DEF Joined
  <2>2. T \in tables /\ reference[T] \in {"thing", "person"}
    BY <1>1, <1>2, <2>1 DEF LinksFit
  <2>3. T = "record_extension" \/ T = "blobs"
    BY DEF Referring
  <2>4. Tokens["record_extension"] = "parameter" /\ Tokens["blobs"] = "attachment"
    BY DEF Tokens
  <2>5. CASE reference[T] = "person"
    <3>1. p = <<"friend">> \o <<Tokens[T]>>
      BY <2>1, <2>5
    <3>2. CASE T = "record_extension"
      <4>1. p = <<"friend", "parameter">>
        BY <2>4, <3>1, <3>2, TwoTokens
      <4> QED BY <2>2, <2>5, <3>2, <4>1, TablesOfPrefixes, OwnersOfPrefixes DEF Leads, Prefix
    <3>3. CASE T = "blobs"
      <4>1. p = <<"friend", "attachment">>
        BY <2>4, <3>1, <3>3, TwoTokens
      <4> QED BY <2>2, <2>5, <3>3, <4>1, TablesOfPrefixes, OwnersOfPrefixes DEF Leads, Prefix
    <3> QED BY <2>3, <3>2, <3>3
  <2>6. CASE reference[T] = "thing"
    <3>1. p = <<>> \o <<Tokens[T]>>
      BY <2>1, <2>6
    <3>2. CASE T = "record_extension"
      <4>1. p = <<"parameter">>
        BY <2>4, <3>1, <3>2
      <4> QED BY <2>2, <2>6, <3>2, <4>1, TablesOfPrefixes, OwnersOfPrefixes DEF Leads, Prefix
    <3>3. CASE T = "blobs"
      <4>1. p = <<"attachment">>
        BY <2>4, <3>1, <3>3
      <4> QED BY <2>2, <2>6, <3>3, <4>1, TablesOfPrefixes, OwnersOfPrefixes DEF Leads, Prefix
    <3> QED BY <2>3, <3>2, <3>3
  <2> QED BY <2>2, <2>5, <2>6
<1> QED BY <1>3, <1>4

\* And whatever is followed or compared is joined.
LEMMA LedIsJoined ==
    ASSUME Fits(Now), LinksFit(Now)
    PROVE  /\ "friend" \in joins => <<"friend">> \in Joined
           /\ \A T \in Referring : reference[T] # "none" =>
                  \E p \in Joined : /\ p \in Prefix /\ Reserved(p) /\ TableOf(p) = T
                                    /\ TableOf(Front(p)) = reference[T]
<1>1. /\ tables = Now.tables /\ joins = Now.joins /\ reference = Now.reference
      /\ DOMAIN reference = Referring
  BY DEF Now, Fits
<1>2. "friend" \in joins => <<"friend">> \in Joined
  BY DEF Joined
<1>3. ASSUME NEW T \in Referring, reference[T] # "none"
      PROVE  \E p \in Joined : /\ p \in Prefix /\ Reserved(p) /\ TableOf(p) = T
                               /\ TableOf(Front(p)) = reference[T]
  <2>1. PICK p : p = (IF reference[T] = "person" THEN <<"friend">> ELSE <<>>) \o <<Tokens[T]>>
    OBVIOUS
  <2>2. p \in Joined
    BY <1>1, <1>3, <2>1 DEF Joined
  <2>3. T = "record_extension" \/ T = "blobs"
    BY DEF Referring
  <2>4. Tokens["record_extension"] = "parameter" /\ Tokens["blobs"] = "attachment"
    BY DEF Tokens
  <2>5. CASE reference[T] = "person"
    <3>1. p = <<"friend">> \o <<Tokens[T]>>
      BY <2>1, <2>5
    <3>2. (T = "record_extension" => p = <<"friend", "parameter">>)
          /\ (T = "blobs" => p = <<"friend", "attachment">>)
      BY <2>4, <3>1, TwoTokens
    <3> QED BY <2>2, <2>3, <2>5, <3>2, TablesOfPrefixes, OwnersOfPrefixes DEF Reserved, Prefix
  <2>6. CASE reference[T] = "thing"
    <3>1. p = <<>> \o <<Tokens[T]>>
      BY <2>1, <2>6
    <3>2. (T = "record_extension" => p = <<"parameter">>)
          /\ (T = "blobs" => p = <<"attachment">>)
      BY <2>4, <3>1
    <3> QED BY <2>2, <2>3, <2>6, <3>2, TablesOfPrefixes, OwnersOfPrefixes DEF Reserved, Prefix
  <2>7. reference[T] = "person" \/ reference[T] = "thing"
    BY <1>1, <1>3 DEF LinksFit
  <2> QED BY <2>5, <2>6, <2>7
<1> QED BY <1>2, <1>3

\* Where every joined prefix leads somewhere, related rows make a row.
LedTo(f, t, p) == f[p] # NoRow /\ f[p] \in Related(p, t)

RowFollows(r, t, P, f) ==
    /\ r.thing = t /\ JoinsHold(r)
    /\ r = [thing |-> t, person |-> r.person,
            record_extension |-> r.record_extension, blobs |-> r.blobs]
    /\ \A T \in {"person", "record_extension", "blobs"} : r[T] \in From(T)
    /\ \A p \in P : LedTo(f, t, p) => r[TableOf(p)] = f[p]

LEMMA RowThere ==
    ASSUME Fits(Now), LinksFit(Now), ~Invalid(constraints),
           NEW t \in Rows["thing"], \A p \in Joined : Related(p, t) # {},
           NEW P \in SUBSET Prefix, \A p \in P : Leads(p), NEW f
    PROVE  \E r : RowFollows(r, t, P, f)
<1>1. /\ tables = Now.tables /\ joins = Now.joins /\ reference = Now.reference
      /\ DOMAIN reference = Referring
      /\ \A T \in tables : Reaches(Now, T)
  BY DEF Now, Fits
<1>2. \A T \in Referring : reference[T] # "none" => T \in tables
  BY <1>1 DEF Invalid
<1>3. \A T \in Table : Rows[T] # {}
  BY DataAssumption
<1>4. \A T \in Table : \E x : x \in From(T)
  BY <1>3 DEF From
<1>5. \A p, q \in Rows["person"] : p.id = q.id => p = q
  BY DataAssumption
<1>6. PICK q : /\ q \in From("person")
               /\ "friend" \in joins => q \in Rows["person"] /\ q.id = t.friend
  <2>1. CASE "friend" \in joins
    <3>1. <<"friend">> \in Joined /\ <<"friend">> \in Prefix
      BY <2>1, LedIsJoined DEF Prefix
    <3>2. PICK o : o \in Related(<<"friend">>, t)
      BY <3>1
    <3>3. o \in Rows["person"] /\ o.id = t.friend
      BY <3>1, <3>2, RelatedRows
    <3>4. "person" \in tables
      BY <1>1, <2>1 DEF LinksFit
    <3> QED BY <3>3, <3>4 DEF From
  <2>2. CASE "friend" \notin joins
    BY <1>4, <2>2 DEF Table
  <2> QED BY <2>1, <2>2
<1>7. ASSUME NEW T \in Referring
      PROVE  \E x : /\ x \in From(T)
                    /\ reference[T] = "thing" => x.deleted = "no" /\ x.parent_guid = t.guid
                    /\ reference[T] = "person" => x.deleted = "no" /\ x.parent_guid = q.guid
                    /\ \A p \in P : Reserved(p) /\ TableOf(p) = T /\ LedTo(f, t, p) => x = f[p]
  <2>1. CASE reference[T] = "none"
    <3>1. PICK x : x \in From(T)
      BY <1>4 DEF Table, Referring
    <3>2. \A p \in P : ~(Reserved(p) /\ TableOf(p) = T)
      <4>1. SUFFICES ASSUME NEW p \in P, Reserved(p), TableOf(p) = T PROVE FALSE
        OBVIOUS
      <4>2. TableOf(Front(p)) \in {"thing", "person"} /\ reference[T] = TableOf(Front(p))
        BY <4>1, PrefixIs DEF Leads
      <4> QED BY <2>1, <4>2
    <3> QED BY <2>1, <3>1, <3>2
  <2>2. CASE reference[T] # "none"
    <3>1. PICK j \in Joined : /\ j \in Prefix /\ Reserved(j) /\ TableOf(j) = T
                              /\ TableOf(Front(j)) = reference[T]
      BY <2>2, LedIsJoined
    <3>2. PICK x : /\ x \in Related(j, t)
                   /\ LedTo(f, t, j) => x = f[j]
      BY <3>1 DEF LedTo
    <3>3. reference[T] \in {"thing", "person"} /\ T \in tables
      BY <1>1, <1>2, <2>2 DEF LinksFit
    <3>4. \A p \in P : Reserved(p) /\ TableOf(p) = T => p = j
      <4>1. SUFFICES ASSUME NEW p \in P, Reserved(p), TableOf(p) = T PROVE p = j
        OBVIOUS
      <4>2. p \in Prefix /\ reference[T] = TableOf(Front(p))
        BY <4>1 DEF Leads
      <4>3. TableOf(p) = TableOf(j) /\ TableOf(Front(p)) = TableOf(Front(j))
        BY <3>1, <4>1, <4>2
      <4> QED BY <3>1, <4>1, <4>2, <4>3, PrefixIs
    <3>5. CASE reference[T] = "thing"
      <4>1. x \in Rows[T] /\ x.deleted = "no" /\ x.parent_guid = t.guid
        BY <3>1, <3>2, <3>5, RelatedRows
      <4>2. x \in From(T)
        BY <3>3, <4>1 DEF From
      <4> QED BY <3>2, <3>4, <3>5, <4>1, <4>2
    <3>6. CASE reference[T] = "person"
      <4>1. x \in Rows[T] /\ x.deleted = "no"
            /\ \E o \in Rows["person"] : o.id = t.friend /\ x.parent_guid = o.guid
        BY <3>1, <3>2, <3>6, RelatedRows
      <4>2. x \in From(T)
        BY <3>3, <4>1 DEF From
      <4>3. "friend" \in joins
        BY <1>1, <3>6 DEF LinksFit
      <4>4. q \in Rows["person"] /\ q.id = t.friend
        BY <1>6, <4>3
      <4>5. x.parent_guid = q.guid
        BY <1>5, <4>1, <4>4
      <4> QED BY <3>2, <3>4, <3>6, <4>1, <4>2, <4>5
    <3> QED BY <3>3, <3>5, <3>6
  <2> QED BY <2>1, <2>2
<1>8. PICK x : /\ x \in From("record_extension")
               /\ reference["record_extension"] = "thing" => x.deleted = "no" /\ x.parent_guid = t.guid
               /\ reference["record_extension"] = "person" => x.deleted = "no" /\ x.parent_guid = q.guid
               /\ \A p \in P : Reserved(p) /\ TableOf(p) = "record_extension" /\ LedTo(f, t, p) => x = f[p]
  BY <1>7 DEF Referring
<1>9. PICK b : /\ b \in From("blobs")
               /\ reference["blobs"] = "thing" => b.deleted = "no" /\ b.parent_guid = t.guid
               /\ reference["blobs"] = "person" => b.deleted = "no" /\ b.parent_guid = q.guid
               /\ \A p \in P : Reserved(p) /\ TableOf(p) = "blobs" /\ LedTo(f, t, p) => b = f[p]
  BY <1>7 DEF Referring
<1>10. PICK r : r = [thing |-> t, person |-> q, record_extension |-> x, blobs |-> b]
  OBVIOUS
<1>11. r.thing = t /\ r.person = q /\ r.record_extension = x /\ r.blobs = b
  BY <1>10
<1>12. JoinsHold(r)
  <2>1. "friend" \in joins => r.thing.friend = r.person.id
    BY <1>6, <1>11
  <2>2. ASSUME NEW T \in Referring, reference[T] # "none"
        PROVE  r[T].parent_guid = r[reference[T]].guid /\ r[T].deleted = "no"
    <3>1. reference[T] = "thing" \/ reference[T] = "person"
      BY <1>1, <2>2 DEF LinksFit
    <3>2. T = "record_extension" \/ T = "blobs"
      BY DEF Referring
    <3> QED BY <1>8, <1>9, <1>11, <3>1, <3>2
  <2> QED BY <1>1, <2>1, <2>2 DEF JoinsHold
<1>13. ASSUME NEW p \in P, LedTo(f, t, p) PROVE r[TableOf(p)] = f[p]
  <2>1. p \in Prefix /\ f[p] \in Related(p, t) /\ Leads(p)
    BY <1>13 DEF LedTo
  <2>2. CASE p = <<>>
    BY <1>11, <2>1, <2>2, RelatedRows, TablesOfPrefixes
  <2>3. CASE p = <<"friend">>
    <3>1. f[p] \in Rows["person"] /\ f[p].id = t.friend /\ TableOf(p) = "person"
      BY <2>1, <2>3, RelatedRows, TablesOfPrefixes
    <3>2. "friend" \in joins
      BY <1>1, <2>1, <3>1 DEF Leads, Reaches
    <3> QED BY <1>5, <1>6, <1>11, <3>1, <3>2
  <2>4. CASE Reserved(p)
    <3>1. TableOf(p) = "record_extension" \/ TableOf(p) = "blobs"
      BY <2>1, <2>4, PrefixIs DEF Referring
    <3> QED BY <1>8, <1>9, <1>11, <1>13, <2>4, <3>1
  <2> QED BY <2>1, <2>2, <2>3, <2>4 DEF Reserved
<1>14. \A T \in {"person", "record_extension", "blobs"} : r[T] \in From(T)
  BY <1>6, <1>8, <1>9, <1>11
<1>15. r = [thing |-> t, person |-> r.person,
                          record_extension |-> r.record_extension, blobs |-> r.blobs]
  BY <1>10, <1>11
<1> QED BY <1>11, <1>12, <1>13, <1>14, <1>15 DEF RowFollows

\* A condition is true of a row; or of the rows the prefixes lead to.
HoldsOf(r, c) ==
    r[TableOfName(c.name)][Last(c.name)] =
        IF c.with = <<>> THEN c.val ELSE r[TableOfName(c.with)][Last(c.with)]
MetBy(f, c) ==
    /\ \A n \in Named(c) : f[Front(n)] # NoRow
    /\ f[Front(c.name)][Last(c.name)] =
           IF c.with = <<>> THEN c.val ELSE f[Front(c.with)][Last(c.with)]
FollowedPrefixes == {Front(n) : n \in UNION {Named(c) : c \in Conditions(constraints)}}

LEMMA SelectedIs ==
    ASSUME NEW r
    PROVE  r \in Selected(constraints) <=>
               /\ r = [thing |-> r.thing, person |-> r.person,
                       record_extension |-> r.record_extension, blobs |-> r.blobs]
               /\ r.thing \in Rows["thing"] /\ Alive(r.thing)
               /\ \A T \in {"person", "record_extension", "blobs"} : r[T] \in From(T)
               /\ JoinsHold(r)
               /\ Where(constraints, {c \in Conditions(constraints) : HoldsOf(r, c)})
<1>1. PICK Q : Q = {c \in Conditions(constraints) : HoldsOf(r, c)}
  OBVIOUS
<1>2. r \in Selected(constraints) <=>
          /\ \E t \in {s \in Rows["thing"] : Alive(s)} : \E p \in From("person") :
                \E x \in From("record_extension"), b \in From("blobs") :
                   r = [thing |-> t, person |-> p, record_extension |-> x, blobs |-> b]
          /\ JoinsHold(r) /\ Where(constraints, Q)
  BY <1>1 DEF Selected, HoldsOf
<1>3. ASSUME NEW t \in Rows["thing"], Alive(t), NEW p \in From("person"),
             NEW x \in From("record_extension"), NEW b \in From("blobs"),
             r = [thing |-> t, person |-> p, record_extension |-> x, blobs |-> b]
      PROVE  /\ r = [thing |-> r.thing, person |-> r.person,
                       record_extension |-> r.record_extension, blobs |-> r.blobs]
             /\ r.thing \in Rows["thing"] /\ Alive(r.thing)
             /\ \A T \in {"person", "record_extension", "blobs"} : r[T] \in From(T)
  BY <1>3
<1>4. ASSUME r = [thing |-> r.thing, person |-> r.person,
                       record_extension |-> r.record_extension, blobs |-> r.blobs],
             r.thing \in Rows["thing"], Alive(r.thing),
             \A T \in {"person", "record_extension", "blobs"} : r[T] \in From(T)
      PROVE  \E t \in {s \in Rows["thing"] : Alive(s)} : \E p \in From("person") :
                \E x \in From("record_extension"), b \in From("blobs") :
                   r = [thing |-> t, person |-> p, record_extension |-> x, blobs |-> b]
  BY <1>4
<1> QED BY <1>1, <1>2, <1>3, <1>4

LEMMA MeantIs ==
    ASSUME NEW t
    PROVE  Meant(t) <=>
               \E f \in [FollowedPrefixes ->
                           {NoRow} \cup UNION {Related(p, t) : p \in FollowedPrefixes}] :
                   /\ \A p \in FollowedPrefixes : f[p] \in Related(p, t) \cup {NoRow}
                   /\ Asked({c \in Conditions(constraints) : MetBy(f, c)})
BY DEF Meant, MetBy, FollowedPrefixes

\* What a condition names is led to by a prefix of the statement.
LEMMA PrefixesLead ==
    ASSUME \A c \in Conditions(constraints) : c \in Compared,
           ~Invalid(constraints), ~Mixed
    PROVE  /\ \A c \in Conditions(constraints) :
                  /\ c.name \in Named(c) /\ (c.with # <<>> => c.with \in Named(c))
                  /\ \A n \in Named(c) : Front(n) \in FollowedPrefixes
           /\ \A p \in FollowedPrefixes : p \in Prefix /\ Leads(p)
<1>1. ASSUME NEW c \in Conditions(constraints)
      PROVE  /\ c.name \in Named(c) /\ (c.with # <<>> => c.with \in Named(c))
             /\ \A n \in Named(c) : Front(n) \in FollowedPrefixes
  BY DEF Named, FollowedPrefixes
<1>2. ASSUME NEW p \in FollowedPrefixes PROVE p \in Prefix /\ Leads(p)
  <2>1. PICK c \in Conditions(constraints) : \E n \in Named(c) : p = Front(n)
    BY DEF FollowedPrefixes
  <2>6. PICK n \in Named(c) : p = Front(n)
    BY <2>1
  <2>2. n \in Name \/ n = <<"guid">>
    BY <2>6 DEF Named, Compared
  <2>3. p \in Prefix
    <3>1. CASE n \in Name
      BY <2>6, <3>1, PrefixOfName
    <3>2. CASE n = <<"guid">>
      <4>1. Front(<<"guid">>) = <<>>
        BY SubSeqEmpty DEF Front
      <4> QED BY <2>6, <3>2, <4>1 DEF Prefix
    <3> QED BY <2>2, <3>1, <3>2
  <2>4. TableOf(p) \in tables
    BY <2>6 DEF Invalid, TableOfName
  <2>5. p # <<>> /\ Last(p) \in DOMAIN ReservedTable => reference[TableOf(p)] = TableOf(Front(p))
    BY <2>6 DEF Mixed
  <2> QED BY <2>3, <2>4, <2>5, PrefixIs DEF Leads
<1> QED BY <1>1, <1>2

\* A row makes its thing meant.
LEMMA SelectedMeant ==
    ASSUME Fits(Now), LinksFit(Now), NEW pos, NEW st,
           Traced(asked, groups, constraints, open, nesting, pos, st),
           \A c \in Conditions(constraints) : c \in Compared,
           ~Invalid(constraints), ~Mixed, NEW r \in Selected(constraints)
    PROVE  /\ r.thing \in Rows["thing"] /\ Alive(r.thing) /\ Meant(r.thing)
           /\ \A p \in Joined : Related(p, r.thing) # {}
<1>1. PICK Q : Q = {c \in Conditions(constraints) : HoldsOf(r, c)}
  OBVIOUS
<1>2. /\ r.thing \in Rows["thing"] /\ Alive(r.thing)
      /\ \A T \in {"person", "record_extension", "blobs"} : r[T] \in From(T)
      /\ JoinsHold(r) /\ Where(constraints, Q)
  BY <1>1, SelectedIs
<1>3. PICK t : t = r.thing
  OBVIOUS
<1>4. ASSUME NEW p \in Prefix, Leads(p) PROVE r[TableOf(p)] \in Related(p, t) /\ r[TableOf(p)] # NoRow
  BY <1>2, <1>3, <1>4, RowRelated
<1>5. \A p \in FollowedPrefixes : p \in Prefix /\ Leads(p)
  BY PrefixesLead
<1>6. PICK f : f = [p \in FollowedPrefixes |-> r[TableOf(p)]]
  OBVIOUS
<1>7. \A p \in FollowedPrefixes : f[p] = r[TableOf(p)] /\ f[p] \in Related(p, t) /\ f[p] # NoRow
  BY <1>4, <1>5, <1>6
<1>8. f \in [FollowedPrefixes -> {NoRow} \cup UNION {Related(p, t) : p \in FollowedPrefixes}]
  <2>1. \A p \in FollowedPrefixes : f[p] \in {NoRow} \cup UNION {Related(q, t) : q \in FollowedPrefixes}
    BY <1>7
  <2> QED BY <1>6, <2>1
<1>9. ASSUME NEW c \in Conditions(constraints) PROVE MetBy(f, c) <=> HoldsOf(r, c)
  <2>1. /\ c.name \in Named(c) /\ (c.with # <<>> => c.with \in Named(c))
        /\ \A n \in Named(c) : Front(n) \in FollowedPrefixes
    BY PrefixesLead
  <2>2. \A n \in Named(c) : f[Front(n)] = r[TableOfName(n)] /\ f[Front(n)] # NoRow
    BY <1>7, <2>1 DEF TableOfName
  <2> QED BY <2>1, <2>2 DEF MetBy, HoldsOf
<1>10. {c \in Conditions(constraints) : MetBy(f, c)} = Q
  BY <1>1, <1>9
<1>11. Asked(Q)
  BY <1>2, AskedIsWhere
<1>12. Meant(t)
  <2>1. \A p \in FollowedPrefixes : f[p] \in Related(p, t) \cup {NoRow}
    BY <1>7
  <2>2. Asked({c \in Conditions(constraints) : MetBy(f, c)})
    BY <1>10, <1>11
  <2> QED BY <1>8, <2>1, <2>2, MeantIs
<1>13. ASSUME NEW p \in Joined PROVE Related(p, t) # {}
  <2>1. p \in Prefix /\ Leads(p)
    BY JoinedAre DEF Fits, Now
  <2> QED BY <1>4, <2>1
<1> QED BY <1>2, <1>3, <1>12, <1>13

\* A thing that is meant makes a row.
LEMMA MeantSelected ==
    ASSUME Fits(Now), LinksFit(Now), NEW pos, NEW st,
           Traced(asked, groups, constraints, open, nesting, pos, st),
           \A c \in Conditions(constraints) : c \in Compared,
           ~Invalid(constraints), ~Mixed,
           NEW t \in Rows["thing"], Alive(t), Meant(t), \A p \in Joined : Related(p, t) # {}
    PROVE  \E r \in Selected(constraints) : r.thing = t
<1>1. PICK f : /\ \A p \in FollowedPrefixes : f[p] \in Related(p, t) \cup {NoRow}
               /\ Asked({c \in Conditions(constraints) : MetBy(f, c)})
  BY MeantIs
<1>2. \A p \in FollowedPrefixes : p \in Prefix /\ Leads(p)
  BY PrefixesLead
<1>3. FollowedPrefixes \in SUBSET Prefix
  BY <1>2
<1>12. PICK r : RowFollows(r, t, FollowedPrefixes, f)
  BY <1>2, <1>3, RowThere
<1>4. /\ r.thing = t /\ JoinsHold(r)
      /\ r = [thing |-> t, person |-> r.person,
              record_extension |-> r.record_extension, blobs |-> r.blobs]
      /\ \A T \in {"person", "record_extension", "blobs"} : r[T] \in From(T)
      /\ \A p \in FollowedPrefixes : LedTo(f, t, p) => r[TableOf(p)] = f[p]
  BY <1>12 DEF RowFollows
<1>5. PICK M : M = {c \in Conditions(constraints) : MetBy(f, c)}
  OBVIOUS
<1>6. PICK Q : Q = {c \in Conditions(constraints) : HoldsOf(r, c)}
  OBVIOUS
<1>7. ASSUME NEW c \in Conditions(constraints), MetBy(f, c) PROVE HoldsOf(r, c)
  <2>1. /\ c.name \in Named(c) /\ (c.with # <<>> => c.with \in Named(c))
        /\ \A n \in Named(c) : Front(n) \in FollowedPrefixes
    BY PrefixesLead
  <2>2. ASSUME NEW n \in Named(c) PROVE f[Front(n)] = r[TableOfName(n)]
    <3>1. Front(n) \in FollowedPrefixes /\ f[Front(n)] # NoRow
      BY <1>7, <2>1 DEF MetBy
    <3>2. LedTo(f, t, Front(n))
      BY <1>1, <3>1 DEF LedTo
    <3> QED BY <1>4, <3>1, <3>2 DEF TableOfName
  <2> QED BY <1>7, <2>1, <2>2 DEF MetBy, HoldsOf
<1>8. M \subseteq Q
  BY <1>5, <1>6, <1>7
<1>9. Where(constraints, M)
  BY <1>1, <1>5, AskedIsWhere
<1>10. Where(constraints, Q)
  BY <1>8, <1>9, WhereMore
<1>11. r \in Selected(constraints)
  BY <1>4, <1>6, <1>10, SelectedIs
<1> QED BY <1>4, <1>11

LEMMA StatementMeansThen ==
    ASSUME Fits(Now), LinksFit(Now), NEW pos, NEW st,
           Traced(asked, groups, constraints, open, nesting, pos, st)
    PROVE  StatementMeans
<1>1. \A c \in Conditions(constraints) : c \in Compared
  <2>1. constraints \in SUBSET Compared /\ groups \in Seq(Grouped)
    BY DEF Traced
  <2>2. \A i \in DOMAIN groups : groups[i] \in Grouped
    BY <2>1
  <2>3. \A g \in Grouped : g.conds \in SUBSET Compared
    BY DEF Grouped
  <2> QED BY <2>1, <2>2, <2>3 DEF Conditions
<1>2. ASSUME ~Invalid(constraints), ~Mixed, NEW t
      PROVE  t \in Things(Selected(constraints)) <=>
                 /\ t \in Rows["thing"] /\ Alive(t) /\ Meant(t)
                 /\ \A p \in Joined : Related(p, t) # {}
  <2>1. t \in Things(Selected(constraints)) <=> \E r \in Selected(constraints) : r.thing = t
    BY DEF Things
  <2>2. ASSUME NEW r \in Selected(constraints)
        PROVE  /\ r.thing \in Rows["thing"] /\ Alive(r.thing) /\ Meant(r.thing)
               /\ \A p \in Joined : Related(p, r.thing) # {}
    BY <1>1, <1>2, SelectedMeant
  <2>3. ASSUME t \in Rows["thing"], Alive(t), Meant(t), \A p \in Joined : Related(p, t) # {}
        PROVE  \E r \in Selected(constraints) : r.thing = t
    BY <1>1, <1>2, <2>3, MeantSelected
  <2> QED BY <2>1, <2>2, <2>3
<1> QED BY <1>2 DEF StatementMeans
-----------------------------------------------------------------------------
(* The query builder: what it keeps of what was asked                      *)

\* What a name follows keeps the links.
LEMMA FollowsLinks ==
    ASSUME NEW b, Fits(b), LinksFit(b), NEW n \in Name
    PROVE  LinksFit(Follows(n, b))
<1>1. PICK p \in Prefix : p = Front(n)
  BY PrefixOfName
<1>2. PICK c : c = Follows(n, b)
  OBVIOUS
<1>8. Adds(b, c, p)
  BY <1>1, <1>2, FollowedIs
<1>3. /\ c.tables = IF "friend" \in ToSet(p) THEN b.tables \cup {"thing", "person"}
                    ELSE b.tables
      /\ c.joins = IF "friend" \in ToSet(p) THEN b.joins \cup {"friend"} ELSE b.joins
      /\ \A T \in Referring :
             c.reference[T] = IF b.reference[T] # "none" THEN b.reference[T]
                              ELSE Compares(p, T)
  BY <1>8 DEF Adds
<1>4. \A T \in Referring : /\ Compares(p, T) \in {"none", "thing", "person"}
                           /\ Compares(p, T) = "person" => "friend" \in ToSet(p)
  BY ComparesOfPrefixes, FriendsOfPrefixes DEF Prefix
<1>5. "friend" \in c.joins <=> "friend" \in b.joins \/ "friend" \in ToSet(p)
  <2>1. CASE "friend" \in ToSet(p)
    BY <1>3, <2>1
  <2>2. CASE "friend" \notin ToSet(p)
    BY <1>3, <2>2
  <2> QED BY <2>1, <2>2
<1>6. c.joins \subseteq {"friend"} /\ ("friend" \in c.joins => "person" \in c.tables)
  <2>1. CASE "friend" \in ToSet(p)
    BY <1>3, <2>1 DEF LinksFit
  <2>2. CASE "friend" \notin ToSet(p)
    BY <1>3, <2>2 DEF LinksFit
  <2> QED BY <2>1, <2>2
<1>7. ASSUME NEW T \in Referring
      PROVE  /\ c.reference[T] \in {"none", "thing", "person"}
             /\ c.reference[T] = "person" => "friend" \in c.joins
  <2>1. CASE b.reference[T] # "none"
    BY <1>3, <1>5, <2>1 DEF LinksFit
  <2>2. CASE b.reference[T] = "none"
    BY <1>3, <1>4, <1>5, <2>2
  <2> QED BY <2>1, <2>2
<1> QED BY <1>2, <1>6, <1>7 DEF LinksFit

LEMMA BecomesLinks ==
    ASSUME NEW b, LinksFit(b), NEW names, Becomes(b, names)
    PROVE  LinksFit(Now)'
<1>1. tables' = b.tables \cup {TableOfName(name) : name \in names} /\ joins' = b.joins
      /\ reference' = b.reference
  BY DEF Becomes
<1>2. PICK c : c = Now'
  OBVIOUS
<1>3. b.tables \subseteq c.tables /\ c.joins = b.joins /\ c.reference = b.reference
  BY <1>1, <1>2 DEF Now
<1>4. LinksFit(c)
  BY <1>3 DEF LinksFit
<1> QED BY <1>2, <1>4

\* A call that looks up names keeps the links.
LEMMA LookingUpLinks ==
    ASSUME Fits(Now), LinksFit(Now)
    PROVE  /\ \A n \in Name, fits \in BOOLEAN : AddConstraint(n, fits) => LinksFit(Now)'
           /\ \A n \in Name, dir \in {"ASC", "null"} : AddOrder(n, dir) => LinksFit(Now)'
           /\ \A a, b \in Name, op \in {"=", "invalid"} :
                 AddConstraintWithProperty(a, b, op) => LinksFit(Now)'
<1>1. ASSUME NEW n \in Name, NEW names, Becomes(Follows(n, Now), names) PROVE LinksFit(Now)'
  <2>1. PICK b : b = Follows(n, Now)
    OBVIOUS
  <2>2. LinksFit(b) /\ Becomes(b, names)
    BY <1>1, <2>1, FollowsLinks
  <2> QED BY <2>2, BecomesLinks
<1>2. ASSUME NEW a \in Name, NEW b \in Name, NEW names,
             Becomes(Follows(b, Follows(a, Now)), names)
      PROVE  LinksFit(Now)'
  <2>1. PICK f : f = Follows(a, Now)
    OBVIOUS
  <2>2. Fits(f) /\ LinksFit(f)
    BY <2>1, FollowsFits, FollowsLinks
  <2>3. PICK g : g = Follows(b, f)
    OBVIOUS
  <2>4. LinksFit(g)
    BY <2>2, <2>3, FollowsLinks
  <2>5. Becomes(g, names)
    BY <1>2, <2>1, <2>3
  <2> QED BY <2>4, <2>5, BecomesLinks
<1>3. ASSUME NEW n \in Name, NEW fits \in BOOLEAN, AddConstraint(n, fits) PROVE LinksFit(Now)'
  <2>1. Becomes(Follows(n, Now), {n}) \/ Becomes(Follows(n, Now), {})
    BY <1>3 DEF AddConstraint
  <2> QED BY <1>1, <2>1
<1>4. ASSUME NEW n \in Name, NEW dir \in {"ASC", "null"}, AddOrder(n, dir) PROVE LinksFit(Now)'
  <2>1. Becomes(Follows(n, Now), {n}) \/ Becomes(Follows(n, Now), {})
    BY <1>4 DEF AddOrder
  <2> QED BY <1>1, <2>1
<1>5. ASSUME NEW a \in Name, NEW b \in Name, NEW op \in {"=", "invalid"},
             AddConstraintWithProperty(a, b, op)
      PROVE  LinksFit(Now)'
  <2>1. \/ Becomes(Follows(b, Follows(a, Now)), {a, b})
        \/ Becomes(Follows(b, Follows(a, Now)), {})
        \/ Becomes(Follows(a, Now), {})
    BY <1>5 DEF AddConstraintWithProperty
  <2> QED BY <1>1, <1>2, <2>1
<1> QED BY <1>3, <1>4, <1>5

LEMMA LinksStay ==
    ASSUME LinksFit(Now), UNCHANGED <<tables, joins, reference, distinct>> PROVE LinksFit(Now)'
<1>1. PICK c : c = Now
  OBVIOUS
<1>2. Now' = c
  BY <1>1 DEF Now
<1> QED BY <1>1, <1>2
-----------------------------------------------------------------------------
\* The groups and constraints are those of the history.
Traces(s, gs, cs, op, ne) == \E pos, st : Traced(s, gs, cs, op, ne, pos, st)

LEMMA NothingTraced == Traces(<<>>, <<>>, {}, 0, 0)
<1>1. PICK e : e = [i \in 1 .. 0 |-> i]
  OBVIOUS
<1>2. /\ <<>> \in Seq(Entry) /\ <<>> \in Seq(Grouped) /\ {} \in SUBSET Compared /\ 0 \in Nat
      /\ Len(<<>>) = 0
  OBVIOUS
<1>3. \A i \in 1 .. 0 : FALSE
  OBVIOUS
<1>4. e \in [1 .. 0 -> 1 .. 0]
  BY <1>1
<1>5. Drawn(<<>>, <<>>, e)
  BY <1>2, <1>3, <1>4 DEF Drawn
<1>6. Sorted(<<>>, <<>>, {}, e)
  BY <1>2, <1>3 DEF Sorted
<1>7. Stacked(<<>>, <<>>, 0, 0, e, e)
  <2>1. AroundIn(<<>>, 0 + 1) = {}
    BY <1>3 DEF AroundIn
  <2>2. {e[e[i]] : i \in 1 .. 0} = {}
    BY <1>3
  <2> QED BY <1>2, <1>3, <1>4, <2>1, <2>2 DEF Stacked
<1>8. Traced(<<>>, <<>>, {}, 0, 0, e, e)
  BY <1>2, <1>5, <1>6, <1>7 DEF Traced
<1> QED BY <1>8 DEF Traces

TracesNow == Traces(asked, groups, constraints, open, nesting)

LEMMA PlacedTraces ==
    ASSUME TracesNow, NEW c \in Compared, Placed(c), UNCHANGED <<open, nesting>>
    PROVE  TracesNow'
<1>1. PICK pos, st : Traced(asked, groups, constraints, open, nesting, pos, st)
  BY DEF TracesNow, Traces
<1>2. /\ asked \in Seq(Entry) /\ groups \in Seq(Grouped) /\ nesting \in Nat
      /\ open \in 0 .. Len(groups) /\ (open = 0 <=> nesting = 0)
  <2>1. /\ asked \in Seq(Entry) /\ groups \in Seq(Grouped) /\ nesting \in Nat
        /\ Drawn(asked, groups, pos) /\ Stacked(asked, groups, open, nesting, pos, st)
    BY <1>1 DEF Traced
  <2> QED BY <2>1, NextWithin
<1>3. PICK e : e = [type |-> "is", conds |-> {c}]
  OBVIOUS
<1>4. asked' = Append(asked, e)
  BY <1>3 DEF Placed
<1>5. /\ groups' \in Seq(Grouped) /\ Len(groups') = Len(groups)
      /\ \A g \in 1 .. Len(groups) :
             /\ groups'[g].type = groups[g].type /\ groups'[g].parent = groups[g].parent
             /\ groups'[g].conds = IF g = open THEN groups[g].conds \cup {c} ELSE groups[g].conds
      /\ constraints' = IF open = 0 THEN constraints \cup {c} ELSE constraints
  <2>1. CASE nesting > 0
    <3>1. /\ groups' = [groups EXCEPT ![open] = [groups[open] EXCEPT !.conds = @ \cup {c}]]
          /\ constraints' = constraints /\ open # 0 /\ open \in 1 .. Len(groups)
      BY <1>2, <2>1 DEF Placed
    <3>2. PICK a \in Grouped : a = groups[open]
      BY <1>2, <3>1
    <3>3. PICK b : b = [a EXCEPT !.conds = @ \cup {c}]
      OBVIOUS
    <3>4. b \in Grouped /\ b.type = a.type /\ b.parent = a.parent /\ b.conds = a.conds \cup {c}
      BY <3>2, <3>3 DEF Grouped
    <3>5. groups' = [groups EXCEPT ![open] = b]
      BY <3>1, <3>2, <3>3
    <3>6. groups' \in Seq(Grouped) /\ Len(groups') = Len(groups)
          /\ \A g \in 1 .. Len(groups) : groups'[g] = IF g = open THEN b ELSE groups[g]
      <4>1. PICK gs \in Seq(Grouped) : gs = groups
        BY <1>2
      <4>2. PICK o \in 1 .. Len(gs) : o = open
        BY <3>1, <4>1
      <4>3. /\ [gs EXCEPT ![o] = b] \in Seq(Grouped)
            /\ Len([gs EXCEPT ![o] = b]) = Len(gs)
            /\ \A j \in 1 .. Len(gs) : [gs EXCEPT ![o] = b][j] = IF j = o THEN b ELSE gs[j]
        BY <3>4, ExceptSeq
      <4> QED BY <3>5, <4>1, <4>2, <4>3
    <3>7. ASSUME NEW g \in 1 .. Len(groups)
          PROVE  /\ groups'[g].type = groups[g].type /\ groups'[g].parent = groups[g].parent
                 /\ groups'[g].conds = IF g = open THEN groups[g].conds \cup {c} ELSE groups[g].conds
      <4>1. CASE g = open
        BY <3>2, <3>4, <3>6, <4>1
      <4>2. CASE g # open
        BY <3>6, <4>2
      <4> QED BY <4>1, <4>2
    <3> QED BY <3>1, <3>6, <3>7
  <2>2. CASE ~(nesting > 0)
    <3>1. /\ groups' = groups /\ constraints' = constraints \cup {c} /\ open = 0
      BY <1>2, <2>2 DEF Placed
    <3>2. \A g \in 1 .. Len(groups) : g # open
      BY <3>1
    <3> QED BY <1>2, <3>1, <3>2
  <2> QED BY <2>1, <2>2
<1>6. PICK hs, ds : hs = groups' /\ ds = constraints'
  OBVIOUS
<1>7. Traced(Append(asked, e), hs, ds, open, nesting, pos, st)
  BY <1>1, <1>3, <1>5, <1>6, TracedIs, ZenonT(30)
<1>8. Traces(asked', groups', constraints', open', nesting')
  BY <1>4, <1>6, <1>7 DEF Traces
<1> QED BY <1>8 DEF TracesNow

LEMMA BeginTraces ==
    ASSUME TracesNow, NEW type \in {"AND", "OR"}, BeginGroup(type) PROVE TracesNow'
<1>1. PICK pos, st : Traced(asked, groups, constraints, open, nesting, pos, st)
  BY DEF TracesNow, Traces
<1>2. PICK e : e = [type |-> type, conds |-> {}]
  OBVIOUS
<1>3. PICK a : a = [type |-> type, conds |-> {}, parent |-> IF nesting > 0 THEN open ELSE 0]
  OBVIOUS
<1>4. /\ asked' = Append(asked, e) /\ groups' = Append(groups, a) /\ open' = Len(Append(groups, a))
      /\ nesting' = nesting + 1 /\ constraints' = constraints
  BY <1>2, <1>3 DEF BeginGroup
<1>5. type \in Kinds
  BY DEF Kinds
<1>6. \E pos2, st2 : Traced(Append(asked, e), Append(groups, a), constraints,
                          Len(Append(groups, a)), nesting + 1, pos2, st2)
  BY <1>1, <1>2, <1>3, <1>5, TracedBegin
<1>7. Traces(asked', groups', constraints', open', nesting')
  BY <1>4, <1>6 DEF Traces
<1> QED BY <1>7 DEF TracesNow

LEMMA EndTraces ==
    ASSUME TracesNow, EndGroup PROVE TracesNow'
<1>1. PICK pos, st : Traced(asked, groups, constraints, open, nesting, pos, st)
  BY DEF TracesNow, Traces
<1>2. PICK e : e = [type |-> "end", conds |-> {}]
  OBVIOUS
<1>3. /\ asked' = Append(asked, e) /\ groups' = groups /\ open' = groups[open].parent
      /\ nesting' = nesting - 1 /\ constraints' = constraints /\ nesting > 0
  BY <1>2 DEF EndGroup
<1>4. PICK st2 : st2 = [i \in 1 .. nesting - 1 |-> st[i]]
  OBVIOUS
<1>5. Traced(Append(asked, e), groups, constraints, groups[open].parent, nesting - 1, pos, st2)
  BY <1>1, <1>2, <1>3, <1>4, TracedEnd
<1>6. Traces(asked', groups', constraints', open', nesting')
  BY <1>3, <1>5 DEF Traces
<1> QED BY <1>6 DEF TracesNow

LEMMA TracesRest ==
    ASSUME TracesNow, UNCHANGED <<asked, groups, constraints, open, nesting>> PROVE TracesNow'
BY DEF TracesNow

UserKnown == user \in {"none"} \cup {r.guid : r \in Rows["thing"]}

\* The constraint of a plain user is told, too.
LEMMA KeptTraces ==
    ASSUME TracesNow, UserKnown, nesting = 0, KeepRestricted, UNCHANGED <<groups, open, nesting>>
    PROVE  TracesNow'
<1>1. PICK c : c = [name |-> <<"guid">>, op |-> "=", with |-> <<>>, val |-> user]
  OBVIOUS
<1>2. c \in Compared
  BY <1>1 DEF Compared, UserKnown
<1>3. Restricted = constraints \/ Restricted = constraints \cup {c}
  BY <1>1 DEF Restricted
<1>4. CASE Restricted = constraints
  BY <1>4, TracesRest DEF KeepRestricted
<1>5. CASE Restricted # constraints
  <2>1. Restricted \ constraints = {c} /\ Restricted = constraints \cup {c}
    BY <1>3, <1>5
  <2>2. PICK e : e = [type |-> "is", conds |-> {c}]
    OBVIOUS
  <2>3. e = [type |-> "is", conds |-> Restricted \ constraints]
    BY <2>1, <2>2
  <2>4. asked' = Append(asked, e) /\ constraints' = constraints \cup {c}
    BY <1>5, <2>1, <2>3 DEF KeepRestricted
  <2>5. ~(nesting > 0) /\ groups' = groups
    OBVIOUS
  <2>6. Placed(c)
    BY <2>2, <2>4, <2>5 DEF Placed
  <2> QED BY <1>2, <2>6, PlacedTraces
<1> QED BY <1>4, <1>5

StatementInvariant == LinksFit(Now) /\ TracesNow /\ UserKnown

LEMMA StatementStarts == BuilderInit => StatementInvariant
<1> SUFFICES ASSUME BuilderInit PROVE StatementInvariant
  OBVIOUS
<1>1. TracesNow
  BY NothingTraced DEF BuilderInit, TracesNow
<1>2. LinksFit(Now)
  BY DEF BuilderInit, LinksFit, Now, Referring
<1>3. UserKnown
  BY DEF BuilderInit, UserKnown
<1> QED BY <1>1, <1>2, <1>3 DEF StatementInvariant

LEMMA StatementStepKeeps ==
    ASSUME Fits(Now), StatementInvariant, BuilderNext PROVE StatementInvariant'
<1>1. LinksFit(Now) /\ TracesNow /\ UserKnown
  BY DEF StatementInvariant
<1>a. UNCHANGED user => UserKnown'
  BY <1>1 DEF UserKnown
<1>b. UNCHANGED <<class, user, query>> => StatementInvariant'
  BY <1>1, <1>a, LinksStay, TracesRest DEF query, StatementInvariant
<1>2. CASE RefuseOperator
  BY <1>2, <1>b DEF RefuseOperator
<1>3. CASE \E n \in Name, fits \in BOOLEAN : AddConstraint(n, fits)
  <2>1. PICK n \in Name, fits \in BOOLEAN : AddConstraint(n, fits)
    BY <1>3
  <2>2. PICK c : c = [name |-> n, op |-> "=", with |-> <<>>, val |-> "yes"]
    OBVIOUS
  <2>3. c \in Compared
    BY <2>2 DEF Compared
  <2>4. UNCHANGED <<user, open, nesting>> /\ (Placed(c) \/ UNCHANGED <<constraints, groups, asked>>)
    BY <2>1, <2>2 DEF AddConstraint
  <2>5. TracesNow'
    BY <1>1, <2>3, <2>4, PlacedTraces, TracesRest
  <2>6. LinksFit(Now)'
    BY <1>1, <2>1, LookingUpLinks
  <2> QED BY <1>a, <2>4, <2>5, <2>6 DEF StatementInvariant
<1>4. CASE \E p \in Pair, op \in {"=", "invalid"} : AddConstraintWithProperty(p[1], p[2], op)
  <2>1. PICK p \in Pair, op \in {"=", "invalid"} : AddConstraintWithProperty(p[1], p[2], op)
    BY <1>4
  <2>2. PICK a \in Name, b \in Name : a = p[1] /\ b = p[2]
    BY NameAssumption
  <2>3. AddConstraintWithProperty(a, b, op)
    BY <2>1, <2>2
  <2>4. PICK c : c = [name |-> a, op |-> op, with |-> b, val |-> "none"]
    OBVIOUS
  <2>5. c \in Compared
    BY <2>4 DEF Compared
  <2>6. UNCHANGED <<user, open, nesting>> /\ (Placed(c) \/ UNCHANGED <<constraints, groups, asked>>)
    BY <2>3, <2>4 DEF AddConstraintWithProperty
  <2>7. TracesNow'
    BY <1>1, <2>5, <2>6, PlacedTraces, TracesRest
  <2>8. LinksFit(Now)'
    BY <1>1, <2>3, LookingUpLinks
  <2> QED BY <1>a, <2>6, <2>7, <2>8 DEF StatementInvariant
<1>5. CASE \E n \in Name, dir \in {"ASC", "null"} : AddOrder(n, dir)
  <2>1. PICK n \in Name, dir \in {"ASC", "null"} : AddOrder(n, dir)
    BY <1>5
  <2>2. UNCHANGED <<user, open, nesting, constraints, groups, asked>>
    BY <2>1 DEF AddOrder
  <2>3. LinksFit(Now)'
    BY <1>1, <2>1, LookingUpLinks
  <2>4. TracesNow'
    BY <1>1, <2>2, TracesRest
  <2> QED BY <1>a, <2>2, <2>3, <2>4 DEF StatementInvariant
<1>6. CASE \E type \in {"AND", "OR"} : BeginGroup(type)
  <2>1. PICK type \in {"AND", "OR"} : BeginGroup(type)
    BY <1>6
  <2>2. UNCHANGED <<user, tables, joins, reference, distinct>>
    BY <2>1 DEF BeginGroup
  <2>3. TracesNow' /\ LinksFit(Now)'
    BY <1>1, <2>1, <2>2, BeginTraces, LinksStay
  <2> QED BY <1>a, <2>2, <2>3 DEF StatementInvariant
<1>7. CASE EndGroup
  <2>2. UNCHANGED <<user, tables, joins, reference, distinct>>
    BY <1>7 DEF EndGroup
  <2>3. TracesNow' /\ LinksFit(Now)'
    BY <1>1, <1>7, <2>2, EndTraces, LinksStay
  <2> QED BY <1>a, <2>2, <2>3 DEF StatementInvariant
<1>8. CASE \E l \in Limits \cup {NoLimit}, o \in {0, 1} : SetBounds(l, o)
  <2>2. UNCHANGED <<user, tables, joins, reference, distinct>>
        /\ UNCHANGED <<asked, groups, constraints, open, nesting>>
    BY <1>8 DEF SetBounds
  <2> QED BY <1>1, <1>a, <2>2, TracesRest, LinksStay DEF StatementInvariant
<1>9. CASE IncludeDeleted
  <2>2. UNCHANGED <<user, tables, joins, reference, distinct>>
        /\ UNCHANGED <<asked, groups, constraints, open, nesting>>
    BY <1>9 DEF IncludeDeleted
  <2> QED BY <1>1, <1>a, <2>2, TracesRest, LinksStay DEF StatementInvariant
<1>10. CASE Refuse
  BY <1>10, <1>b DEF Refuse
<1>11. CASE Execute
  <2>1. /\ UNCHANGED <<user, tables, joins, reference, distinct>>
        /\ UNCHANGED <<groups, open, nesting>> /\ nesting = 0 /\ KeepRestricted
    BY <1>11 DEF Execute
  <2> QED BY <1>1, <1>a, <2>1, KeptTraces, LinksStay DEF StatementInvariant
<1>12. CASE Count
  <2>1. /\ UNCHANGED <<user, tables, joins, reference, distinct>>
        /\ UNCHANGED <<groups, open, nesting>> /\ nesting = 0 /\ KeepRestricted
    BY <1>12 DEF Count
  <2> QED BY <1>1, <1>a, <2>1, KeptTraces, LinksStay DEF StatementInvariant
<1>13. CASE \E r \in Rows["thing"] : LogIn(r.guid)
  <2>1. PICK r \in Rows["thing"] : LogIn(r.guid)
    BY <1>13
  <2>2. /\ UNCHANGED <<tables, joins, reference, distinct>> /\ user' = r.guid
        /\ UNCHANGED <<asked, groups, constraints, open, nesting>>
    BY <2>1 DEF LogIn, query
  <2>3. UserKnown'
    BY <2>2 DEF UserKnown
  <2> QED BY <1>1, <2>2, <2>3, TracesRest, LinksStay DEF StatementInvariant
<1> QED BY <1>2, <1>3, <1>4, <1>5, <1>6, <1>7, <1>8, <1>9, <1>10, <1>11, <1>12, <1>13
        DEF BuilderNext

LEMMA StatementRests ==
    ASSUME StatementInvariant, UNCHANGED builderVars PROVE StatementInvariant'
<1>1. /\ UNCHANGED <<tables, joins, reference, distinct>> /\ user' = user
      /\ UNCHANGED <<asked, groups, constraints, open, nesting>>
  BY DEF builderVars, query
<1>2. UserKnown'
  BY <1>1 DEF UserKnown, StatementInvariant
<1> QED BY <1>1, <1>2, TracesRest, LinksStay DEF StatementInvariant

\* Whatever names, rows, groups and calls: the statement selects the things
\* that are meant by what was asked and have a row in every table a name led
\* to (midgard_core_query_builder.c, 150-342; query_builder.c, 245-460).
THEOREM StatementsMean == QueriesSpec => []StatementMeans
<1>1. QueriesInit => QueriesInvariant /\ StatementInvariant
  BY BuilderStarts, SelectStarts, StatementStarts DEF QueriesInit, QueriesInvariant
<1>2. QueriesInvariant /\ StatementInvariant /\ [QueriesNext]_queriesVars
         => QueriesInvariant' /\ StatementInvariant'
  <2>1. SUFFICES ASSUME QueriesInvariant, StatementInvariant, [QueriesNext]_queriesVars
                 PROVE  QueriesInvariant' /\ StatementInvariant'
    OBVIOUS
  <2>2. /\ BuilderNext \/ UNCHANGED builderVars
        /\ SelectNext \/ UNCHANGED selectVars
    BY <2>1 DEF QueriesNext, BuilderStep, SelectStep, queriesVars
  <2>3. BuilderInvariant'
    BY <2>1, <2>2, BuilderStepKeeps, BuilderRests DEF QueriesInvariant
  <2>4. SelectFits' /\ ColumnsResolve'
    BY <2>1, <2>2, SelectStepKeeps DEF QueriesInvariant
  <2>5. StatementInvariant'
    BY <2>1, <2>2, StatementStepKeeps, StatementRests DEF QueriesInvariant, BuilderInvariant
  <2> QED BY <2>3, <2>4, <2>5 DEF QueriesInvariant
<1>3. QueriesInvariant /\ StatementInvariant => StatementMeans
  <2>1. SUFFICES ASSUME QueriesInvariant, StatementInvariant PROVE StatementMeans
    OBVIOUS
  <2>2. PICK pos, st : Traced(asked, groups, constraints, open, nesting, pos, st)
    BY <2>1 DEF StatementInvariant, TracesNow, Traces
  <2> QED BY <2>1, <2>2, StatementMeansThen DEF QueriesInvariant, BuilderInvariant, StatementInvariant
<1> QED BY <1>1, <1>2, <1>3, PTL DEF QueriesSpec
====
