----------------------------- MODULE MCQueries -----------------------------
(* Small instances of QueryBuilder and QuerySelect for TLC, and of Schema and *)
(* Views, which make the classes that queries name.                           *)
EXTENDS Queries, MCSchema

VARIABLE part   \* what a behaviour is of

\* Things with and without a friend, a parameter, an attachment, and one that
\* was deleted.
DataRows ==
    [thing |-> {[guid |-> "t1", flag |-> "yes", friend |-> "p1", deleted |-> "no"],
                [guid |-> "t2", flag |-> "no", friend |-> "p2", deleted |-> "no"],
                [guid |-> "t3", flag |-> "yes", friend |-> "none", deleted |-> "no"],
                [guid |-> "t4", flag |-> "yes", friend |-> "p1", deleted |-> "yes"]},
     person |-> {[guid |-> "g1", id |-> "p1", nick |-> "yes"],
                 [guid |-> "g2", id |-> "p2", nick |-> "no"]},
     record_extension |->
         {[guid |-> "x1", parent_guid |-> "t1", value |-> "yes", deleted |-> "no"],
          [guid |-> "x2", parent_guid |-> "t1", value |-> "no", deleted |-> "no"],
          [guid |-> "x3", parent_guid |-> "g2", value |-> "yes", deleted |-> "no"],
          [guid |-> "x4", parent_guid |-> "t3", value |-> "yes", deleted |-> "yes"]},
     blobs |-> {[guid |-> "b1", parent_guid |-> "t1", name |-> "yes", deleted |-> "no"],
                [guid |-> "b2", parent_guid |-> "t1", name |-> "yes", deleted |-> "no"],
                [guid |-> "b3", parent_guid |-> "t2", name |-> "no", deleted |-> "no"]}]

Names == {<<"flag">>, <<"friend", "nick">>, <<"parameter", "value">>,
          <<"friend", "parameter", "value">>, <<"attachment", "name">>,
          <<"friend", "nosuch">>, <<"parameter", "nosuch">>}

Pairs == {<< <<"flag">>, <<"friend", "nick">> >>,
          << <<"parameter", "value">>, <<"flag">> >>,
          << <<"parameter", "nosuch">>, <<"friend", "nick">> >>}

\* The files are read, or a view, or an application makes its query with the
\* one or with the other.
OneLibrary == CHOOSE l \in Libraries : TRUE
OneView == CHOOSE d \in ViewDecls : TRUE
Init ==
    /\ part \in {"schema", "view", "query"}
    /\ part # "schema" => lib \in {OneLibrary}
    /\ part # "view" => decl \in {OneView}
    /\ part # "query" => class \in {"object"} /\ borrowed \in {{}}
    /\ SchemaInit /\ ViewInit /\ QueriesInit
Next ==
    /\ UNCHANGED part
    /\ \/ /\ part = "query" /\ UNCHANGED <<schemaVars, viewVars>>
          /\ \/ selectCalls = 0 /\ borrowed = {} /\ BuilderStep
             \/ calls = 0 /\ SelectStep
       \/ part = "schema" /\ SchemaNext /\ UNCHANGED <<viewVars, queriesVars>>
       \/ part = "view" /\ ViewNext /\ UNCHANGED <<schemaVars, queriesVars>>
Spec == Init /\ [][Next]_<<part, schemaVars, viewVars, queriesVars>>
=============================================================================
