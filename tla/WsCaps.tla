------------------------------- MODULE WsCaps -------------------------------
(***************************************************************************)
(* Cap: the identity and the capabilities a tool acts with.  Installed     *)
(* setuid root, it switches effective uid, gid and groups; installed with  *)
(* file capabilities, it raises and lowers them; in user mode it does      *)
(* neither.  A process is a record; a call maps it to the process after    *)
(* the call, which has exited (alive = FALSE) if the call failed.          *)
(***************************************************************************)
EXTENDS Integers, Sequences, FiniteSets

Modes == {"setuid", "caps", "user"}

\* The users that are nobody's login; a user is a string of characters.
Root == <<"root">>
Db == <<"db">>

\* The files are installed with what the three privileged tools use between them.
FileCaps == {"CHOWN", "DAC_OVERRIDE", "DAC_READ_SEARCH", "FOWNER"}

\* The process as the constructor of Cap finds it: the effective user is root, the
\* groups are the caller's; nothing is effective before the first raise.
Started(mode, caller, groups) ==
    [mode |-> mode, caller |-> caller, callerGroups |-> groups,
     euid |-> IF mode = "setuid" THEN Root ELSE caller, egid |-> caller,
     groups |-> groups, eff |-> {},
     perm |-> IF mode = "caps" THEN FileCaps ELSE {}, dbset |-> FALSE, alive |-> TRUE]

\* As SetIdentity, but the gid stays what it was.
SetIdentityUidOnly(p, who, groups) ==
    IF p.mode # "setuid" THEN p ELSE [p EXCEPT !.euid = who, !.groups = groups]

\* uid and gid change together, and with them the supplementary groups.
SetIdentity(p, who, groups) ==
    IF p.mode # "setuid" THEN p
    ELSE [p EXCEPT !.euid = who, !.egid = who, !.groups = groups]

SetDbIdentity(p) == [p EXCEPT !.dbset = TRUE]

BecomeRoot(p) == SetIdentity(p, Root, p.groups)

\* As BecomeDb, but the identity is not changed.
BecomeDbSkipped(p) == p

\* Without the database identity the process exits.
BecomeDb(p) ==
    IF p.mode = "setuid" /\ ~p.dbset THEN [p EXCEPT !.alive = FALSE]
    ELSE SetIdentity(p, Db, {})

BecomeCaller(p) == SetIdentity(p, p.caller, p.callerGroups)

\* The permitted set becomes exactly caps, and nothing is effective; the kernel
\* refuses to add to it.
DropCaps(p, caps) ==
    IF p.mode = "caps" /\ ~(caps \subseteq p.perm) THEN [p EXCEPT !.alive = FALSE]
    ELSE IF p.mode = "caps" THEN [p EXCEPT !.perm = caps, !.eff = {}]
    ELSE BecomeCaller(p)

\* Lowered, a setuid tool is the database user; before the configuration is read
\* only its uid is known.
LowerCap(p, caps) ==
    IF p.mode = "caps" THEN [p EXCEPT !.eff = @ \ caps]
    ELSE IF p.dbset THEN SetIdentity(p, Db, {})
    ELSE IF p.mode = "setuid" THEN [p EXCEPT !.euid = Db] ELSE p

RaiseCap(p, caps) ==
    IF p.mode = "caps" /\ ~(caps \subseteq p.perm) THEN [p EXCEPT !.alive = FALSE]
    ELSE IF p.mode = "caps" THEN [p EXCEPT !.eff = @ \cup caps]
    ELSE BecomeRoot(p)

\* What the kernel lets a process do that needs cap: root, the capability, or, in user
\* mode, a caller who owns what is acted on.
May(p, cap) == p.alive /\ (p.euid = Root \/ cap \in p.eff \/ p.mode = "user")
=============================================================================
