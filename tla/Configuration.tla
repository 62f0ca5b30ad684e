--------------------------- MODULE Configuration ---------------------------
(***************************************************************************)
(* MidgardConfig: configurations that are set, read from key files, saved  *)
(* to them and copied.                                                     *)
(*                                                                         *)
(* What a file gives is laid over what the object has: some keys keep the  *)
(* object's value when the file has none or an empty one, some fall back   *)
(* to a default, one is never read, and a blob directory that is not given *)
(* is made from the one there was and the name of the database.            *)
(*                                                                         *)
(* No key depends on another, but the blob directory on the name of the    *)
(* database: a configuration here has these two and one other field, of a  *)
(* kind that is chosen at the start.  The log file that reading opens and  *)
(* the directories are left out.                                           *)
(***************************************************************************)
EXTENDS Naturals, Sequences

CONSTANTS
    Cfg,            \* configuration objects
    KeyFile,        \* files
    Text,           \* texts that are not empty
    MaxDepth,       \* bound: names below a blob directory
    MaxCfgCalls     \* bound: calls made

Empty == ""
Absent == "absent"      \* of a file: no such key; of an object: NULL
Default == "default"

ASSUME ConfigurationAssumption ==
    /\ MaxDepth \in Nat \ {0} /\ MaxCfgCalls \in Nat
    /\ Empty \notin Text /\ Absent \notin Text

\* How the keys differ in being read:
\*   kept        Username, Password, DatabaseDir, Logfile, MidgardUsername,
\*               MidgardPassword, ShareDir, and Port, whose 0 is empty
\*   defaulted   Host, Loglevel, PamFile
\*   chosen      Type, and the flags, whose FALSE is the default
\*   given       VarDir, CacheDir
\*   ignored     AuthType
FieldKind == {"kept", "defaulted", "chosen", "given", "ignored"}

VARIABLES
    kind,       \* the kind of the one field
    config,     \* {} or one record: what an object holds
    file,       \* {} or one record: what a file gives
    source,     \* {}, or the file an object was read from and not changed since
    saved,      \* {}, or what the object held that saved the file as it is
    cfgCalls

cfgVars == <<kind, config, file, source, saved, cfgCalls>>

Value == Text \cup {Empty, Absent, Default}
Blobdir == {b \in Seq(Text \cup {Default}) : Len(b) <= MaxDepth}

Content == [name : Value, field : Value, blobdir : Blobdir]

ConfigurationTypeOK ==
    /\ kind \in FieldKind
    /\ config \in [Cfg -> SUBSET Content] /\ source \in [Cfg -> SUBSET KeyFile]
    /\ file \in [KeyFile -> SUBSET Content] /\ saved \in [KeyFile -> SUBSET Content]
    /\ cfgCalls \in 0 .. MaxCfgCalls

-----------------------------------------------------------------------------
Blank(v) == v \in {Empty, Absent}

\* __set_config_from_keyfile, for one key.
ReadField(old, given) ==
    CASE kind = "kept"      -> IF Blank(given) THEN old ELSE given
      [] kind = "defaulted" -> IF given = Absent THEN Default ELSE given
      [] kind = "chosen"    -> IF Blank(given) THEN Default ELSE given
      [] kind = "given"     -> IF given = Absent THEN old ELSE given
      [] kind = "ignored"   -> IF given = Absent THEN Absent ELSE old

ReadName(old, given) == IF Blank(given) THEN old ELSE given

\* A file that gives no blob directory: the object's own, and the database's
\* name below it.  g_build_path leaves out what is empty.
ReadBlobdir(old, given, name) ==
    IF given # <<>> THEN given
    ELSE IF Blank(name) THEN old ELSE Append(old, name)

ReadInto(c, f) ==
    LET name == ReadName(c.name, f.name)
    IN  [name |-> name, field |-> ReadField(c.field, f.field),
         blobdir |-> ReadBlobdir(c.blobdir, f.blobdir, name)]

\* Mutant of Written: what is empty is not written.
Written_NotEmpty(v) == IF v = Empty THEN Absent ELSE v

\* __set_keyfile writes every property, NULL as an empty text.
Written(v) == IF v = Absent THEN Empty ELSE v
ToFile(c) == [c EXCEPT !.name = Written(@), !.field = Written(@)]

\* The defaults of __config_struct_new; AuthType has none.
FreshConfig == [name |-> Default, field |-> IF kind = "ignored" THEN Absent ELSE Default,
          blobdir |-> <<Default>>]

\* midgard_config_copy has the fields copied one by one, but not AuthType.
Copied(c) == [c EXCEPT !.field = IF kind = "ignored" THEN Absent ELSE @]

\* What the API can put into an object or a file.
Settable == Text \cup {Empty}
Chosen(v) == IF kind = "chosen" /\ Blank(v) THEN Default ELSE v

CfgCall == cfgCalls < MaxCfgCalls /\ cfgCalls' = cfgCalls + 1

-----------------------------------------------------------------------------
CfgNew(c) ==
    /\ CfgCall /\ config[c] = {} /\ config' = [config EXCEPT ![c] = {FreshConfig}]
    /\ UNCHANGED <<kind, file, source, saved>>

Changed(c, o) ==
    /\ config' = [config EXCEPT ![c] = {o}] /\ source' = [source EXCEPT ![c] = {}]
    /\ UNCHANGED <<kind, file, saved>>

\* g_object_set of a property.
SetProperty(c) == \E o \in config[c] :
    /\ CfgCall
    /\ \/ \E v \in Settable : Changed(c, [o EXCEPT !.name = v])
       \/ \E v \in Settable : Changed(c, [o EXCEPT !.field = Chosen(v)])
       \/ \E t \in Text : Changed(c, [o EXCEPT !.blobdir = <<t>>])

\* The setters; that of AuthType does nothing with a name.
CallSetter(c) == \E o \in config[c] :
    /\ CfgCall
    /\ \/ \E v \in Settable : Changed(c, [o EXCEPT !.name = v])
       \/ kind # "ignored" /\ \E v \in Settable : Changed(c, [o EXCEPT !.field = Chosen(v)])
       \/ kind = "ignored" /\ \E v \in Settable \cup {Absent} :
              Changed(c, [o EXCEPT !.field = IF v = Absent THEN Absent ELSE @])
       \/ \E t \in Text : Changed(c, [o EXCEPT !.blobdir = <<t>>])

\* midgard_config_read_file, _read_file_at_path and _read_data; nothing is
\* changed when the file can not be read.
ReadFile(c, f) == \E o \in config[c], g \in file[f] :
    /\ CfgCall /\ Len(o.blobdir) < MaxDepth
    /\ config' = [config EXCEPT ![c] = {ReadInto(o, g)}]
    /\ source' = [source EXCEPT ![c] = {f}]
    /\ UNCHANGED <<kind, file, saved>>

\* midgard_config_save_file and _save_file_at_path replace the whole file.
SaveFile(c, f) == \E o \in config[c] :
    /\ CfgCall
    /\ file' = [file EXCEPT ![f] = {ToFile(o)}]
    /\ saved' = [saved EXCEPT ![f] = {o}]
    /\ source' = [d \in Cfg |-> source[d] \ {f}]
    /\ UNCHANGED <<kind, config>>

CopyConfig(c, d) == \E o \in config[c] :
    /\ CfgCall /\ config[d] = {}
    /\ config' = [config EXCEPT ![d] = {Copied(o)}]
    /\ UNCHANGED <<kind, file, source, saved>>

\* Somebody writes a file with an editor.
EditFile(f) ==
    /\ CfgCall
    /\ \E n, v \in Settable \cup {Absent}, b \in {<<>>} \cup {<<t>> : t \in Text} :
           file' = [file EXCEPT ![f] = {[name |-> n, field |-> v, blobdir |-> b]}]
    /\ saved' = [saved EXCEPT ![f] = {}]
    /\ source' = [d \in Cfg |-> source[d] \ {f}]
    /\ UNCHANGED <<kind, config>>

CfgInit ==
    /\ kind \in FieldKind /\ config = [c \in Cfg |-> {}]
    /\ file = [f \in KeyFile |-> {}] /\ source = [c \in Cfg |-> {}]
    /\ saved = [f \in KeyFile |-> {}] /\ cfgCalls = 0

CfgNext ==
    \/ \E c \in Cfg : \/ CfgNew(c) \/ SetProperty(c) \/ CallSetter(c)
                      \/ \E f \in KeyFile : ReadFile(c, f) \/ SaveFile(c, f)
                      \/ \E d \in Cfg : CopyConfig(c, d)
    \/ \E f \in KeyFile : EditFile(f)

CfgSpec == CfgInit /\ [][CfgNext]_cfgVars

-----------------------------------------------------------------------------
\* What was saved is what is read: an object read from a file holds what the
\* object held that saved it, but for what was empty there, which may leave the
\* reader what it had, and AuthType, which is never read.  And a file says the
\* same when it is read again, unless it gives no blob directory: each time it
\* is read the database's name is put below the directory of the last time
\* (midgard_config.c, 299-312 and 1429-1435).
ReadsBack ==
    \A c \in Cfg : \A o \in config[c], f \in source[c] :
        /\ \A s \in saved[f] :
               /\ ~Blank(s.name) => o.name = s.name
               /\ s.blobdir # <<>> => o.blobdir = s.blobdir
               /\ kind \notin {"kept", "ignored"} \/ (kind = "kept" /\ ~Blank(s.field)) =>
                      o.field = s.field
        /\ \A g \in file[f] : g.blobdir # <<>> => ReadInto(o, g) = o
=============================================================================
