------------------------------ MODULE MCSchema ------------------------------
(* Directories of schema files and views, for TLC. *)
EXTENDS Schema, Views

Prop(n) ==
    [name |-> n, field |-> n, type |-> "string", default |-> "none", roles |-> {},
     link |-> "none", target |-> "none", private |-> FALSE]
Bare ==
    [kind |-> "class", extends |-> <<>>, parent |-> "none", table |-> "none",
     metadata |-> "MidgardMetadata", props |-> <<>>]
OneFile(types) == [dir |-> {"f"}, includes |-> "f" :> {}, holds |-> "f" :> types]

\* What extends what, and what each of three types says.
Said == {[Prop("p") EXCEPT !.roles = {"primary"}, !.type = "uint", !.default = "text"],
         [Prop("p") EXCEPT !.roles = {"unique"}, !.private = TRUE, !.field = "q"],
         [Prop("q") EXCEPT !.default = "text", !.type = "guid"]}
Families ==
    {OneFile([a |-> [Bare EXCEPT !.kind = ka, !.table = ta, !.props = <<pa>>, !.parent = "c"],
              b |-> [Bare EXCEPT !.kind = kb[1], !.extends = kb[2], !.metadata = mb, !.props = <<pb>>],
              c |-> [Bare EXCEPT !.extends = ec, !.table = tc, !.props = <<Prop("q")>>]]) :
        ka \in {"class", "abstract", "interface"}, kb \in {<<"class", <<>>>>, <<"class", <<"a">>>>},
        ta \in {"none", "x"}, pa \in Said, pb \in Said, mb \in {"none", "MidgardMetadata"},
        ec \in {<<>>, <<"b">>, <<"a", "b">>, <<"b", "a">>, <<"d">>}, tc \in {"none", "x"}}
    \cup
    {OneFile([a |-> [Bare EXCEPT !.kind = "interface", !.props = <<pa>>],
              b |-> [Bare EXCEPT !.kind = kb, !.extends = <<"a">>],
              c |-> [Bare EXCEPT !.extends = ec, !.table = "x"]]) :
        pa \in Said, kb \in {"abstract", "interface"},
        ec \in {<<"a">>, <<"b">>, <<"a", "b">>, <<"b", "a">>}}

\* Links, parents and the properties that lead to them.
Links ==
    {OneFile([a |-> [Bare EXCEPT !.table = "x", !.parent = pa, !.extends = ea,
                     !.props = <<[Prop("p") EXCEPT !.type = tp, !.roles = rp,
                                  !.link = lp, !.target = tg]>>],
              b |-> [Bare EXCEPT !.table = "y", !.parent = pb,
                     !.props = <<[Prop("q") EXCEPT !.type = "uint"]>>]]) :
        pa \in {"none", "b", "d"}, ea \in {<<>>, <<"b">>}, pb \in {"none", "a"},
        tp \in {"uint", "guid", "odd", "float"}, rp \in {{}, {"up"}, {"parent"}},
        lp \in {"none", "b", "d"}, tg \in {"q", "guid", "z"}}

\* Which file holds what, and what each includes.
Spread ==
    {[dir |-> dir, includes |-> [f |-> inf, g |-> ing, h |-> {}],
      holds |-> [f |-> [a |-> [Bare EXCEPT !.parent = "b"]],
                 g |-> [x \in gs |-> [Bare EXCEPT !.extends = ext]],
                 h |-> [x \in hs |-> Bare]]] :
        dir \in {{"f"}, {"f", "g"}, {"g", "f", "h"}}, inf \in {{}, {"g"}, {"h", "nofile"}},
        ing \in {{}, {"f"}, {"h"}}, gs \in {{"b"}, {"a"}}, hs \in {{}, {"b"}, {"c"}},
        ext \in {<<>>, <<"c">>}}

\* What a declaration may get wrong, and the defaults of each type.
Wrong ==
    {OneFile(n :> [Bare EXCEPT !.kind = k, !.table = t, !.props = <<Prop("p"), p>>]) :
        n \in {"a", "midgard_user"}, k \in {"class", "odd"}, t \in {"x", "none", "repligard"},
        p \in {[Prop("q") EXCEPT !.type = ty, !.default = d] :
                  ty \in allowed \cup {"odd"}, d \in {"none", "empty", "text"}}
              \cup {Prop("p"), [Prop("q") EXCEPT !.field = "group"],
                    [Prop("q") EXCEPT !.field = "p"],
                    [Prop("q") EXCEPT !.roles = {"up", "parent"}]}}
    \cup
    {OneFile("a" :> [Bare EXCEPT !.table = t, !.props =
                        <<[Prop("p") EXCEPT !.roles = rp, !.field = "u"],
                          [Prop("q") EXCEPT !.roles = rq, !.field = fq, !.type = tq]>>]) :
        t \in {"x", "none"}, rp \in {{"up"}, {"parent"}}, rq \in {{"up"}, {"parent"}},
        fq \in {"u", "v"}, tq \in {"guid", "float"}}

Libraries == Families \cup Links \cup Spread \cup Wrong

\* A thing and a person whom its friend property names.
ViewedClasses ==
    [thing |-> [table |-> "things", metadata |-> TRUE,
                props |-> [name |-> [field |-> "name", private |-> FALSE],
                           friend |-> [field |-> "person", private |-> FALSE]]],
     person |-> [table |-> "people", metadata |-> FALSE,
                 props |-> [name |-> [field |-> "nick", private |-> FALSE],
                            secret |-> [field |-> "secret", private |-> TRUE]]],
     idea |-> [table |-> "none", metadata |-> TRUE,
               props |-> [name |-> [field |-> "name", private |-> FALSE]]]]
Shown(n, c, p) == [name |-> n, class |-> c, prop |-> p]
Friend(c) == [type |-> "left", class |-> c, left |-> <<"thing", "friend">>, right |-> <<"person", "name">>]
ViewDecls ==
    {[class |-> "thing", props |-> ps, joins |-> js, constraints |-> cs] :
        ps \in {<<>>, <<Shown("p", "thing", "name")>>}
               \cup {<<Shown(n, "thing", "name"), Shown(m, c, p)>> :
                        n \in {"name", "friend", "p"}, m \in {"q", "revised"},
                        c \in {"thing", "person", "idea", "none"},
                        p \in {"name", "friend", "secret", "revised"}}
               \cup {<<Shown("friend", "thing", p), Shown("q", "thing", "friend"),
                       Shown("r", "person", "name")>> : p \in {"name", "revised"}},
        js \in {<<>>, <<Friend("person")>>, <<Friend("none")>>}, cs \in {{}, {"thing"}}}
    \cup
    {[class |-> c, props |-> <<Shown("p", "thing", "name")>>, joins |-> js, constraints |-> cs] :
        c \in {"thing", "idea"}, cs \in {{}, {"thing"}, {"person"}, {"none"}},
        js \in {<<>>, <<Friend("thing")>>}
                  \cup {<<[Friend("person") EXCEPT !.type = t]>> : t \in AllowedJoins \cup {"odd"}}}
=============================================================================
