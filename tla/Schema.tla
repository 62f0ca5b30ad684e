------------------------------- MODULE Schema -------------------------------
(***************************************************************************)
(* How midgard_schema_read_dir makes classes of a directory of schema      *)
(* files (mgdschema.c, midgard_core_schema.c, and the registration of the  *)
(* types in midgard_object.c, midgard_base_abstract.c and                  *)
(* midgard_base_interface.c).                                              *)
(*                                                                         *)
(* Four walks follow each other: the files are read, every type takes what *)
(* the types it extends declare, the types are registered, the classes are *)
(* validated.  The first goes in the order the directory is listed in, the *)
(* others in that of a hash table, so the order is nobody's choice, and    *)
(* any error ends the program (g_error): phase "dead".                     *)
(***************************************************************************)
EXTENDS Naturals, Sequences, FiniteSets, SequencesExt, FiniteSetsExt

CONSTANT Library    \* the directories that may be read

VARIABLES
    lib,     \* the directory that is read: its files, those they include,
             \* and the types each declares
    phase,   \* where midgard_schema_read_dir is
    todo,    \* what the walk it makes has not come to: files, then types
    known,   \* schema->types: a type's name to its MgdSchemaTypeAttr
    gtype,   \* the GType system: a name to its parent and its interfaces
    ready    \* the classes g_type_class_peek finds

schemaVars == <<lib, phase, todo, known, gtype, ready>>

none == "none"   \* NULL

Files == DOMAIN lib.holds
Declared(f) == lib.holds[f]

\* rtypes, rtables, rcolumns and schema_allowed_types
reserved == [types |-> {"midgard_view", "midgard_user"},
             tables |-> {"repligard", "midgard_user"},
             columns |-> {"metadata_", "group"}]
allowed == {"string", "uint", "guid", "float"}
linkable == {"string", "uint", "guid"}

-----------------------------------------------------------------------------
(* A file                                                                  *)

\* read_schema_files: the file and what it includes, once each; a file that
\* is not there is passed over.
RECURSIVE read_schema_file(_, _)
read_schema_file(seen, f) ==
    IF f \in seen \/ f \notin Files THEN seen
    ELSE FoldSet(LAMBDA g, s : read_schema_file(s, g), seen \cup {f},
                 lib.includes[f])

Typed(p) == IF p.type \in allowed THEN p.type ELSE "string"

\* midgard_core_schema_get_default_value: a GValue of the property's type, as
\* it was declared.  An empty text is a value for a string only, and a guid
\* must look like one.
Default(p) ==
    IF \/ p.default = none
       \/ p.default = "empty" /\ Typed(p) # "string"
       \/ p.default = "text" /\ Typed(p) = "guid"
    THEN <<>> ELSE <<Typed(p), p.default>>

\* The properties with a role, in the order they are declared in.
Having(role, d) == SelectSeq(d.props, LAMBDA p : role \in p.roles)
FirstName(ps) == IF ps = <<>> THEN none ELSE Head(ps).name
LastName(ps) == IF ps = <<>> THEN none ELSE Last(ps).name

\* The upfield and the parentfield of a type are one, which is looked for at
\* every property that names a parentfield: the upfield may be its own.
UpIsParent(d) ==
    LET up == Having("up", d)
        parent == Having("parent", d)
    IN /\ up # <<>> /\ parent # <<>> /\ up[1].field = parent[1].field
       /\ \E i, j \in DOMAIN d.props :
             i =< j /\ "up" \in d.props[i].roles /\ "parent" \in d.props[j].roles

\* The errors _get_element_names and what it calls end the program for.
Refused(t, d) ==
    \/ t \in reserved.types \/ d.table \in reserved.tables
    \/ d.kind \notin {"class", "abstract", "interface"}
    \/ \E i, j \in DOMAIN d.props : i # j /\ d.props[i].name = d.props[j].name
    \/ UpIsParent(d)
    \/ \E i \in DOMAIN d.props :
        LET p == d.props[i]
        IN \/ p.field \in reserved.columns /\ p.roles \cap {"up", "parent"} = {}
           \/ /\ Typed(p) \notin linkable
              /\ \/ p.link # none
                 \/ \E r \in p.roles \cap {"up", "parent"} : p = Having(r, d)[1]

\* One property, after __get_pdata_foreach: the primary one of a type with a
\* table is an unsigned integer whatever it said.
PropertyAttr(p, d) ==
    [field |-> p.field,
     type |-> IF "primary" \in p.roles /\ d.table # none THEN "uint" ELSE Typed(p),
     default |-> Default(p), link |-> p.link, target |-> p.target,
     private |-> p.private, column |-> <<>>, linked |-> FALSE]

\* A type as its element declares it, and as __get_tdata_foreach leaves it.
TypeAttr(d) ==
    [kind |-> d.kind, extends |-> d.extends, parent |-> d.parent,
     table |-> d.table, metadata |-> d.metadata,
     property_up |-> FirstName(Having("up", d)),
     property_parent |-> FirstName(Having("parent", d)),
     unique |-> LastName(Having("unique", d)),
     primary |-> IF Having("primary", d) = <<>> /\ d.table # none /\ d.props # <<>>
                 THEN "guid" ELSE LastName(Having("primary", d)),
     children |-> {},
     props |-> [n \in {d.props[i].name : i \in DOMAIN d.props} |->
                   PropertyAttr(SelectSeq(d.props, LAMBDA p : p.name = n)[1], d)]]

\* __postconfig_schema_foreach, after every file: a type is a child of the
\* type its own declaration names, once, whichever was read first.
Postconfig(ts) ==
    [t \in DOMAIN ts |->
        [ts[t] EXCEPT !.children = @ \cup {c \in DOMAIN ts : ts[c].parent = t}]]

\* g_error
Die == phase' = "dead" /\ UNCHANGED <<lib, todo, known, gtype, ready>>

\* midgard_schema_read_file, for the next file of the directory.  What was
\* included for another file is read again: its types are "already added".
ReadFile(f) ==
    /\ phase = "reading" /\ f \in todo
    /\ LET files == read_schema_file({}, f)
           found == {<<g, t>> : g \in files, t \in UNION {DOMAIN Declared(h) : h \in files}}
           types == {x \in found : x[2] \in DOMAIN Declared(x[1])}
           read == [t \in {x[2] : x \in types} |->
                       TypeAttr(Declared((CHOOSE x \in types : x[2] = t)[1])[t])]
       IN IF \/ \E x \in types : Refused(x[2], Declared(x[1])[x[2]])
             \/ Cardinality(types) # Cardinality(DOMAIN read)
             \/ DOMAIN read \cap DOMAIN known # {}
          THEN Die
          ELSE /\ known' = Postconfig(known @@ read)
               /\ todo' = todo \ {f}
               /\ UNCHANGED <<lib, phase, gtype, ready>>

ReadingEnds ==
    /\ phase = "reading" /\ todo = {}
    /\ phase' = "extending" /\ todo' = DOMAIN known
    /\ UNCHANGED <<lib, known, gtype, ready>>

-----------------------------------------------------------------------------
(* Extension                                                               *)

Or(a, b) == IF a # none THEN a ELSE b

\* midgard_core_schema_type_property_copy: neither is_private nor is_unique
\* is copied.
Copied(p) == [p EXCEPT !.private = FALSE]

\* Mutant of Extended: what a type declares itself stands.
Extended_Own(child, base) ==
    [child EXCEPT
        !.parent = Or(@, base.parent), !.primary = Or(@, base.primary),
        !.property_up = Or(@, base.property_up),
        !.property_parent = Or(@, base.property_parent),
        !.unique = Or(@, base.unique), !.metadata = Or(@, base.metadata),
        !.children = @ \cup base.children,
        !.table = Or(@, base.table),
        !.props = @ @@ [n \in DOMAIN base.props |-> Copied(base.props[n])]]

\* midgard_core_schema_type_attr_extend and the rest of __extend_type: what
\* the type it extends has replaces what it declares itself, but for its
\* table and its properties.
Extended(child, base) ==
    [child EXCEPT
        !.parent = Or(base.parent, @), !.primary = Or(base.primary, @),
        !.property_up = Or(base.property_up, @),
        !.property_parent = Or(base.property_parent, @),
        !.unique = Or(base.unique, @), !.metadata = Or(base.metadata, @),
        !.children = @ \cup base.children,
        !.table = Or(@, base.table),
        !.props = @ @@ [n \in DOMAIN base.props |-> Copied(base.props[n])]]

\* __extend_type: chains up first, for every type in the list.
RECURSIVE __extend_type(_, _)
__extend_type(ts, t) ==
    FoldLeft(LAMBDA s, u : LET up == __extend_type(s, u)
                           IN [up EXCEPT ![t] = Extended(@, up[u])],
             ts, ts[t].extends)

RECURSIVE Ancestors(_)
Ancestors(t) ==
    IF t \notin DOMAIN known THEN {}
    ELSE UNION {{u} \cup Ancestors(u) : u \in ToSet(known[t].extends)}

ExtendType(t) ==
    /\ phase = "extending" /\ t \in todo
    /\ IF Ancestors(t) \subseteq DOMAIN known
       THEN /\ known' = __extend_type(known, t)
            /\ todo' = todo \ {t}
            /\ UNCHANGED <<lib, phase, gtype, ready>>
       ELSE Die

\* midgard_core_schema_type_validate_fields
Collides(a) ==
    a.table # none /\ \E m, n \in DOMAIN a.props :
                          m # n /\ a.props[m].field = a.props[n].field

\* midgard_core_schema_type_build_static_sql: every property of a type with a
\* table gets its column there, those it inherits too.
WithColumns(a) ==
    IF a.table = none THEN a
    ELSE [a EXCEPT !.props =
             [n \in DOMAIN @ |-> [@[n] EXCEPT !.column = <<a.table, a.props[n].field>>]]]

\* The rest of __midgard_schema_postconfig before the types are registered.
Prepare ==
    /\ phase = "extending" /\ todo = {}
    /\ IF \E t \in DOMAIN known : Collides(known[t]) THEN Die
       ELSE /\ known' = [t \in DOMAIN known |-> WithColumns(known[t])]
            /\ phase' = "registering" /\ todo' = DOMAIN known
            /\ UNCHANGED <<lib, gtype, ready>>

-----------------------------------------------------------------------------
(* Registration                                                            *)

IsInterface(t) == t \in DOMAIN known /\ known[t].kind = "interface"

\* What a type derives from: the last type of its list that is no interface.
Base(a) ==
    LET above == SelectSeq(a.extends, LAMBDA u : ~IsInterface(u))
    IN IF a.kind = "interface" THEN "GInterface"
       ELSE IF above # <<>> THEN Last(above)
       ELSE IF a.kind = "abstract" THEN "MidgardBaseAbstract" ELSE "MidgardObject"

\* midgard_type_register, midgard_type_register_abstract and
\* midgard_core_type_register_interface: the types it extends first; then the
\* interfaces it names, with the prerequisites of each, and those of its base.
RECURSIVE midgard_type_register(_, _)
midgard_type_register(g, t) ==
    IF t \in DOMAIN g THEN g
    ELSE LET up == FoldLeft(midgard_type_register, g, known[t].extends)
             named == {u \in ToSet(known[t].extends) : IsInterface(u)}
             base == Base(known[t])
         IN up @@ t :> [base |-> base,
                        ifaces |-> named
                            \cup UNION {up[u].ifaces : u \in named}
                            \cup (IF base \in DOMAIN up THEN up[base].ifaces ELSE {})]

\* The registered types a type is of, itself first.
RECURSIVE Line(_, _)
Line(g, t) == IF t \in DOMAIN g THEN <<t>> \o Line(g, g[t].base) ELSE <<>>

Root(g, t) == g[Last(Line(g, t))].base

\* __add_core_properties, when a class is initialised; a declared "guid" is
\* lost.
WithGuid(a) ==
    [a EXCEPT !.props = "guid" :>
        [field |-> "guid", type |-> "guid", default |-> <<>>, link |-> none,
         target |-> none, private |-> FALSE, linked |-> FALSE,
         column |-> IF a.table = none THEN <<>> ELSE <<a.table, "guid">>] @@ @]

\* __register_schema_type, interfaces before the others.  The first instance
\* initialises the class and the classes it derives from; a class that
\* derives from an abstract type is registered and left at that.
RegisterType(t) ==
    /\ phase = "registering" /\ t \in todo
    /\ IsInterface(t) \/ ~\E u \in todo : IsInterface(u)
    /\ gtype' = midgard_type_register(gtype, t)
    /\ LET new == IF Root(gtype', t) = "MidgardObject"
                  THEN ToSet(Line(gtype', t)) \ ready ELSE {}
       IN /\ known' = [u \in DOMAIN known |->
                           IF u \in new THEN WithGuid(known[u]) ELSE known[u]]
          /\ ready' = ready \cup new \cup
                          (IF known[t].kind = "abstract" THEN {t} ELSE {})
    /\ todo' = todo \ {t}
    /\ UNCHANGED <<lib, phase>>

-----------------------------------------------------------------------------
(* Validation                                                              *)

\* g_type_children (MIDGARD_TYPE_OBJECT): the classes that derive from it
\* directly, and no other.
RegistrationEnds ==
    /\ phase = "registering" /\ todo = {}
    /\ phase' = "validating"
    /\ todo' = {t \in DOMAIN gtype : gtype[t].base = "MidgardObject"}
    /\ UNCHANGED <<lib, known, gtype, ready>>

\* midgard_reflection_property_is_link and its fellows, which read the
\* MgdSchemaPropertyAttr of a class
PropertyOf(t, n) == known[t].props[n]
IsLink(t, n) == n \in DOMAIN known[t].props /\ PropertyOf(t, n).link # none
GetLinkClass(t, n) ==
    IF IsLink(t, n) /\ PropertyOf(t, n).link \in ready
    THEN PropertyOf(t, n).link ELSE none
GetMidgardType(t, n) ==
    IF n \in DOMAIN known[t].props THEN PropertyOf(t, n).type ELSE none

\* __is_linked_valid, of a link
LinkValid(t, n) ==
    /\ GetLinkClass(t, n) # none
    /\ GetMidgardType(t, n) = GetMidgardType(PropertyOf(t, n).link, PropertyOf(t, n).target)

LinksOf(t) == {n \in DOMAIN known[t].props : IsLink(t, n)}

\* What __midgard_schema_validate ends the program for.
Unsound(t) ==
    \/ \E n \in LinksOf(t) : ~LinkValid(t, n)
    \/ /\ known[t].parent # none
       /\ \/ known[t].parent \notin ready
          \/ \E n \in {known[t].property_parent, known[t].property_up} \ {none} :
                ~IsLink(t, n)

ValidateType(t) ==
    /\ phase = "validating" /\ t \in todo
    /\ IF Unsound(t) THEN Die
       ELSE /\ known' = [u \in DOMAIN known |-> [known[u] EXCEPT !.props =
                   [n \in DOMAIN @ |-> IF \E m \in LinksOf(t) :
                                             PropertyOf(t, m).link = u /\ PropertyOf(t, m).target = n
                                        THEN [@[n] EXCEPT !.linked = TRUE] ELSE @[n]]]]
            /\ todo' = todo \ {t}
            /\ UNCHANGED <<lib, phase, gtype, ready>>

ValidationEnds ==
    /\ phase = "validating" /\ todo = {}
    /\ phase' = "done"
    /\ UNCHANGED <<lib, todo, known, gtype, ready>>

-----------------------------------------------------------------------------
SchemaInit ==
    /\ lib \in Library
    /\ phase = "reading" /\ todo = lib.dir
    /\ known = <<>> /\ gtype = <<>> /\ ready = {}

SchemaNext ==
    \/ \E f \in todo : ReadFile(f)
    \/ ReadingEnds
    \/ \E t \in todo : ExtendType(t) \/ RegisterType(t) \/ ValidateType(t)
    \/ Prepare \/ RegistrationEnds \/ ValidationEnds

\* __mgdschema_object_constructor: the default values a new object is given;
\* a text is no value for an unsigned integer.
FreshValue(t, n) ==
    LET p == PropertyOf(t, n)
    IN IF p.default = <<>> THEN none
       ELSE IF p.default[1] \in {"string", "guid"} /\ p.type = "uint" THEN none
       ELSE p.default[2]

-----------------------------------------------------------------------------
(* What the files mean, whatever order they are taken in                   *)

Read == UNION {read_schema_file({}, f) : f \in lib.dir}
Types == UNION {DOMAIN Declared(f) : f \in Read}
Decl(t) == Declared(CHOOSE f \in Read : t \in DOMAIN Declared(f))[t]

\* A type, then all the types it extends, each followed by those it extends.
RECURSIVE Lineage(_)
Lineage(t) ==
    IF t \notin Types THEN <<t>>
    ELSE <<t>> \o FlattenSeq([i \in DOMAIN Decl(t).extends |-> Lineage(Decl(t).extends[i])])

\* The types of a lineage that say something: the last has the say of a type's
\* attributes, the first of its table and of a property.
Saying(t, says(_)) == SelectSeq(Lineage(t), says)
Attribute(t, a) ==
    LET who == Saying(t, LAMBDA u : TypeAttr(Decl(u))[a] # none)
    IN IF who = <<>> THEN none ELSE TypeAttr(Decl(Last(who)))[a]
TableOfType(t) ==
    LET who == Saying(t, LAMBDA u : Decl(u).table # none)
    IN IF who = <<>> THEN none ELSE Decl(Head(who)).table
NamesOf(t) == UNION {DOMAIN TypeAttr(Decl(u)).props : u \in ToSet(Lineage(t))}
Source(t, n) == Head(Saying(t, LAMBDA u : n \in DOMAIN TypeAttr(Decl(u)).props))
Intended(t, n) == TypeAttr(Decl(Source(t, n))).props[n]

\* What g_type_is_a says of a type: of the types it extends, its interfaces
\* and one class.
RECURSIVE IsA(_)
IsA(t) ==
    LET extends == Decl(t).extends
        classes == SelectSeq(extends, LAMBDA u : Decl(u).kind # "interface")
    IN {t} \cup UNION {IsA(u) : u \in ToSet(extends) \ ToSet(classes)}
           \cup (IF classes = <<>> THEN {} ELSE IsA(Last(classes)))
Classes == {t \in Types : Decl(t).kind = "class"}
Kinds(t) == {Decl(u).kind : u \in IsA(t)}
Usable(t) ==
    /\ t \in Types
    /\ \/ Decl(t).kind = "abstract"
       \/ t \in Classes /\ Kinds(t) \subseteq {"class", "interface"}
\* The classes that extend no class, whose links are looked at.
First(t) == Kinds(t) \subseteq {"class", "interface"} /\ IsA(t) \cap Classes = {t}

TypeOf(t, n) ==
    IF n = "guid" /\ t \in Classes /\ Usable(t) THEN "guid"
    ELSE IF n \in NamesOf(t) THEN Intended(t, n).type ELSE none
LinkFails(t, n) ==
    LET p == Intended(t, n)
    IN ~Usable(p.link) \/ TypeOf(t, n) # TypeOf(p.link, p.target)
LinksIntended(t) == {n \in NamesOf(t) \ {"guid"} : Intended(t, n).link # none}

Faulty ==
    \/ \E f, g \in lib.dir : f # g /\ \E h \in read_schema_file({}, f)
                                               \cap read_schema_file({}, g) :
                                          DOMAIN Declared(h) # {}
    \/ \E f, g \in Read : f # g /\ DOMAIN Declared(f) \cap DOMAIN Declared(g) # {}
    \/ \E t \in Types : Refused(t, Decl(t))
    \/ \E t \in Types : ~(ToSet(Lineage(t)) \subseteq Types)
    \/ \E t \in Types : TableOfType(t) # none /\ \E m, n \in NamesOf(t) :
                            m # n /\ Intended(t, m).field = Intended(t, n).field
    \/ \E t \in {u \in Types : First(u)} :
          \/ \E n \in LinksIntended(t) : LinkFails(t, n)
          \/ /\ Attribute(t, "parent") # none
             /\ \/ ~Usable(Attribute(t, "parent"))
                \/ \E a \in {"property_parent", "property_up"} :
                      /\ Attribute(t, a) # none
                      /\ Attribute(t, a) \notin LinksIntended(t)

\* The directory stops the program only for a fault its files have, and
\* otherwise every type ends as the files say: the attributes of the type it
\* extends last replace its own, its own table and properties come before
\* those it extends, each with its column in the type's table; its children
\* are those of all it extends; a property is marked as linked when a class
\* that extends no class links to it; and a new object has the defaults.  Files,
\* types and classes are taken in any order, and a type may be met before
\* what it extends, its parent or what it links to.
SchemaMeans ==
    /\ phase = "dead" => Faulty
    /\ phase = "done" =>
        /\ ~Faulty /\ DOMAIN known = Types /\ DOMAIN gtype = Types
        /\ ready = {t \in Types : Usable(t)}
        /\ \A t \in Types :
            /\ \A a \in {"parent", "primary", "property_up", "property_parent",
                          "unique", "metadata"} : known[t][a] = Attribute(t, a)
            /\ known[t].table = TableOfType(t)
            /\ known[t].children =
                   {c \in Types : Decl(c).parent \in ToSet(Lineage(t))}
            /\ {t} \cup gtype[t].ifaces =
                   {t} \cup {u \in IsA(t) : Decl(u).kind = "interface"}
            /\ DOMAIN known[t].props \ {"guid"} = NamesOf(t) \ {"guid"}
            /\ \A n \in NamesOf(t) \ {"guid"} :
                LET p == Intended(t, n)
                IN /\ [known[t].props[n] EXCEPT !.column = <<>>, !.linked = FALSE]
                          = [p EXCEPT !.private = @ /\ Source(t, n) = t]
                   /\ PropertyOf(t, n).column =
                          (IF TableOfType(t) = none THEN <<>> ELSE <<TableOfType(t), p.field>>)
                   /\ PropertyOf(t, n).linked <=>
                          \E u \in Types : First(u) /\ \E m \in LinksIntended(u) :
                              Intended(u, m).link = t /\ Intended(u, m).target = n
                   /\ (FreshValue(t, n) # none) <=>
                          (p.default # <<>> /\ (p.type = "uint" => p.default[1] = "uint"))
=============================================================================
