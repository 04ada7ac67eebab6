------------------------------ MODULE WsConfig ------------------------------
(***************************************************************************)
(* Config: the files of /etc/ws.d are read in order and merged; the ACLs   *)
(* of a filesystem decide who may do what there, and validFilesystems is   *)
(* the list, in order of preference, every tool searches.                  *)
(* A file is [global |-> keys it sets, fs |-> the filesystems it defines], *)
(* both functions whose domain is what is present in the YAML.  An ACL     *)
(* entry is [ok, sign, id, perms]: whether the syntax matches, the sign as *)
(* written (perhaps none), and the permission names as written.            *)
(***************************************************************************)
EXTENDS Integers, Sequences, FiniteSets, SequencesExt

CONSTANTS
    FsOrder   \* the names of the filesystems, in the order of std::map

Intents == {"list", "use", "create", "extend", "release", "restore"}

Fs == ToSet(FsOrder)

NoFs == ""

ASSUME ConfigAssumption == FsOrder \in Seq(STRING) /\ NoFs \notin Fs /\ IsInjective(FsOrder)

-----------------------------------------------------------------------------
(* Reading.                                                                *)

\* What the constructor sets before it reads a file.
GlobalDefaults ==
    [clustername |-> "", default |-> NoFs, dbuid |-> 0, dbgid |-> 0, admins |-> <<>>,
     maxextensions |-> 10, maxduration |-> 100, maxuserworkspaces |-> 0]

\* The keys that are present replace the value; `default' is read after its alias
\* default_workspace and maxduration after its alias duration.
Global(glob, given) ==
    LET Or(k, alias) == IF k \in DOMAIN given THEN given[k]
                        ELSE IF alias \in DOMAIN given THEN given[alias] ELSE glob[k]
    IN  [k \in DOMAIN glob |->
            CASE k = "default" -> Or(k, "default_workspace")
              [] k = "maxduration" -> Or(k, "duration")
              [] OTHER -> Or(k, k)]

\* A filesystem: what is not given has a default, that of maxextensions and
\* maxduration being the global value read so far.
FsConfig(glob, given) ==
    LET Or(k, dflt) == IF k \in DOMAIN given THEN given[k] ELSE dflt
        limit == Or("duration", Or("maxduration", 0))
    IN  [spaces |-> Or("spaces", <<>>), database |-> Or("database", ""),
         deletedPath |-> Or("deleted", ""),
         user_acl |-> Or("user_acl", <<>>), group_acl |-> Or("group_acl", <<>>),
         userdefault |-> Or("userdefault", <<>>), groupdefault |-> Or("groupdefault", <<>>),
         keeptime |-> Or("keeptime", 10),
         releasekeeptime |-> Or("releasekeeptime", Or("keeptime", 10)),
         maxduration |-> IF limit = 0 THEN glob.maxduration ELSE limit,
         maxextensions |-> Or("maxextensions", glob.maxextensions),
         allocatable |-> Or("allocatable", TRUE), extendable |-> Or("extendable", TRUE),
         restorable |-> Or("restorable", TRUE)]

\* As ReadYAML, but the filesystems are read before the global settings of the file.
ReadYAMLFsFirst(conf, file) ==
    [global |-> Global(conf.global, file.global),
     fs |-> [f \in DOMAIN conf.fs \cup DOMAIN file.fs |->
                IF f \in DOMAIN file.fs THEN FsConfig(conf.global, file.fs[f])
                ELSE conf.fs[f]]]

\* One file on top of what was read: a filesystem defined again is replaced.
ReadYAML(conf, file) ==
    LET glob == Global(conf.global, file.global)
    IN  [global |-> glob,
         fs |-> [f \in DOMAIN conf.fs \cup DOMAIN file.fs |->
                    IF f \in DOMAIN file.fs THEN FsConfig(glob, file.fs[f])
                    ELSE conf.fs[f]]]

\* All files of the directory, in the order of their names.
LoadConfig(files) ==
    LET read[k \in 0 .. Len(files)] ==
            IF k = 0 THEN [global |-> GlobalDefaults, fs |-> <<>>]
            ELSE ReadYAML(read[k - 1], files[k])
    IN  read[Len(files)]

Valid(conf) ==
    /\ conf.global.dbuid \notin {0, -1} /\ conf.global.dbgid \notin {0, -1}
    /\ conf.global.clustername # "" /\ conf.global.default # NoFs
    /\ DOMAIN conf.fs # {}
    /\ \A f \in DOMAIN conf.fs :
        /\ conf.fs[f].spaces # <<>>
        /\ conf.fs[f].database # "" /\ conf.fs[f].deletedPath # ""

-----------------------------------------------------------------------------
(* Access.                                                                 *)

IsAdmin(conf, u) == Contains(conf.global.admins, u)

\* An entry that does not parse, or names permissions none of which exists, is dropped.
Parsed(e) == e.ok /\ (e.perms # {} => e.perms \cap Intents # {})

EntryAllows(e, intent) ==
    LET plus == e.sign # "-"
    IN  IF e.perms \cap Intents = {} THEN plus ELSE plus = (intent \in e.perms \cap Intents)

\* As Verdict, but the last matching entry decides.
VerdictLast(before, allows) == IF allows THEN "yes" ELSE "no"

\* Whether the entry at k changes the verdict reached with those before it.
Verdict(before, allows) == IF before = "no" \/ ~allows THEN "no" ELSE "yes"

\* The entries of an ACL that concern the ids `who': "none" if there are none.
Evaluate(acl, who, intent) ==
    LET step[k \in 0 .. Len(acl)] ==
            IF k = 0 THEN "none"
            ELSE IF Parsed(acl[k]) /\ acl[k].id \in who
                 THEN Verdict(step[k - 1], EntryAllows(acl[k], intent))
                 ELSE step[k - 1]
    IN  step[Len(acl)]

\* Groups first, the user's own entries replace their verdict, admins may everything.
HasAccess(conf, u, groups, f, intent) ==
    /\ f \in DOMAIN conf.fs
    /\ LET user == Evaluate(conf.fs[f].user_acl, {u}, intent)
           group == Evaluate(conf.fs[f].group_acl, groups, intent)
       IN  \/ conf.fs[f].user_acl = <<>> /\ conf.fs[f].group_acl = <<>>
           \/ user = "yes"
           \/ user = "none" /\ group = "yes"
           \/ IsAdmin(conf, u)

\* The filesystems of S in the order of names, as a loop over the map meets them.
Among(S) ==
    LET met[k \in 0 .. Len(FsOrder)] ==
            IF k = 0 THEN <<>>
            ELSE IF FsOrder[k] \in S THEN Append(met[k - 1], FsOrder[k]) ELSE met[k - 1]
    IN  met[Len(FsOrder)]

\* The loop that ends with the first one: at most one filesystem.
FirstFs(S) == IF Among(S) = <<>> THEN <<>> ELSE <<Head(Among(S))>>

\* As ValidFilesystems, but the global default goes before the group default.
ValidFilesystemsGlobalFirst(conf, u, groups, intent) ==
    LET ok == {f \in DOMAIN conf.fs : HasAccess(conf, u, groups, f, intent)}
        user == FirstFs({f \in ok : Contains(conf.fs[f].userdefault, u)})
        global == FirstFs((ok \cap {conf.global.default}) \ ToSet(user))
        first == user \o global
    IN  first \o Among(ok \ ToSet(first))

\* The one user default, the one group default, the global default, the others.
ValidFilesystems(conf, u, groups, intent) ==
    LET ok == {f \in DOMAIN conf.fs : HasAccess(conf, u, groups, f, intent)}
        user == FirstFs({f \in ok : Contains(conf.fs[f].userdefault, u)})
        group == FirstFs({f \in ok \ ToSet(user) :
                            \E g \in groups : Contains(conf.fs[f].groupdefault, g)})
        global == FirstFs((ok \cap {conf.global.default}) \ ToSet(user \o group))
        first == user \o group \o global
    IN  first \o Among(ok \ ToSet(first))
=============================================================================
