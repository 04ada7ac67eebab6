------------------------------- MODULE WsStore -------------------------------
(***************************************************************************)
(* The on-disk state that every tool of hpc-workspace shares, for one      *)
(* filesystem of the configuration: a database directory with one file per *)
(* workspace id, its "deleted" subdirectory with files <id>-<timestamp>,   *)
(* a space with one directory per workspace, and the space's "deleted"     *)
(* subdirectory.  No tool takes a lock: all coordination is the order of   *)
(* the file operations.                                                    *)
(***************************************************************************)
EXTENDS Integers, FiniteSets

CONSTANTS
    Procs,            \* sessions in which users run commands
    Ids,              \* workspace ids "<user>-<name>", also the directory names
    NoEntry,          \* "there is no such database file"
    NoDir,            \* "there is no such directory"
    MaxTime,          \* bound: the clock stops here
    MaxTries,         \* names tried by expire() (maxtries, 1000 in the code)
    MaxGen,           \* bound: number of directories ever created
    KeepTime,         \* keeptime, in seconds
    ReleaseKeepTime   \* releasekeeptime, in seconds

Stamps == 0 .. (MaxTime + MaxTries)

\* A deleted database file or directory is called <id>-<timestamp>.
Names == Ids \X Stamps

\* A database entry: the fields the tools decide on.  `released' and
\* `expired' are 0 as long as they are not set; every clock value is positive.
\* (The clock counts from the first second the code takes for a valid time of
\* release, so the test released > 1000000000 is released > 0 here.)
Entry == [dir : Ids, exp : Nat, ext : Nat, released : Nat, expired : Nat]

\* A directory: a token for the data in it (0: remnants of a removal that was
\* cut short) and its modification time.
Dir == [tok : 0 .. MaxGen, mtime : Nat]

ASSUME StoreAssumption ==
    /\ MaxTime \in Nat \ {0}
    /\ MaxTries \in Nat \ {0}
    /\ MaxGen \in Nat
    /\ KeepTime \in Nat
    /\ ReleaseKeepTime \in Nat
    /\ NoEntry \notin Entry
    /\ NoDir \notin Dir

VARIABLES
    now,     \* the clock, time(NULL)
    live,    \* [Ids -> entry]     database/<id>
    gone,    \* [Names -> entry]   database/deleted/<id>-<ts>
    dirs,    \* [Ids -> directory] space/<id>
    trash,   \* [Names -> directory] space/deleted/<id>-<ts>
    gen,     \* number of directories created so far
    fate     \* history: what the user was told about each directory's data

disk == <<live, gone, dirs, trash>>
storeVars == <<now, live, gone, dirs, trash, gen, fate>>

(***************************************************************************)
(* fate[g] follows the data with token g: "fresh" after the directory was  *)
(* made, "live" once its database entry is written, then "released" or     *)
(* "expired" (at that time) when the entry is moved to the deleted ones,   *)
(* or "purged" when the user asked for --delete-data.  `used' counts the   *)
(* extensions the user was granted.                                        *)
(***************************************************************************)
Fate == [st : {"none", "fresh", "live", "released", "expired", "purged"},
         at : Nat, used : Nat]

StoreTypeOK ==
    /\ now \in 1 .. MaxTime
    /\ live \in [Ids -> Entry \cup {NoEntry}]
    /\ gone \in [Names -> Entry \cup {NoEntry}]
    /\ dirs \in [Ids -> Dir \cup {NoDir}]
    /\ trash \in [Names -> Dir \cup {NoDir}]
    /\ gen \in 0 .. MaxGen
    /\ fate \in [0 .. MaxGen -> Fate]

StoreInit ==
    /\ now = 1
    /\ live = [i \in Ids |-> NoEntry]
    /\ gone = [n \in Names |-> NoEntry]
    /\ dirs = [i \in Ids |-> NoDir]
    /\ trash = [n \in Names |-> NoDir]
    /\ gen = 0
    /\ fate = [g \in 0 .. MaxGen |-> [st |-> "none", at |-> 0, used |-> 0]]

-----------------------------------------------------------------------------
(* File operations.                                                        *)

\* writeEntry(): O_CREAT | O_TRUNC, so it overwrites and, if the file was moved
\* away meanwhile, creates it again.
WriteEntry(i, e) == live' = [live EXCEPT ![i] = e]

\* rename(2) of a database file to its deleted name replaces what is there.
MoveEntry(i, n) ==
    /\ gone' = [gone EXCEPT ![n] = live[i]]
    /\ live' = [live EXCEPT ![i] = NoEntry]

\* rename(2) of a directory fails when the source is gone or when the target
\* exists (and is not empty: directories hold data here); every caller logs the
\* error and goes on.
TryMoveDir(d, n) ==
    IF dirs[d] # NoDir /\ trash[n] = NoDir
    THEN /\ trash' = [trash EXCEPT ![n] = dirs[d]]
         /\ dirs' = [dirs EXCEPT ![d] = NoDir]
    ELSE UNCHANGED <<trash, dirs>>

\* Mutant of Rmtree: a removal cut short leaves the same remnants every time.
RmtreeNoProgress(n, finished) ==
    trash' = [trash EXCEPT ![n] =
                IF trash[n] = NoDir \/ finished THEN NoDir
                ELSE [tok |-> 0, mtime |-> trash[n].mtime]]

\* rmtree() with a deadline.  When the deadline hits, part of the data is gone;
\* a later run that finds the remnants finishes them (assumption: deldirtimeout
\* is long enough for half of a tree).
Rmtree(n, finished) ==
    trash' = [trash EXCEPT ![n] =
                IF trash[n] = NoDir \/ trash[n].tok = 0 \/ finished
                THEN NoDir
                ELSE [tok |-> 0, mtime |-> trash[n].mtime]]

\* The history of the data in directory d changes to state st at time t.
SetFate(d, st, t) ==
    fate' = IF dirs[d] = NoDir THEN fate
            ELSE [fate EXCEPT ![dirs[d].tok] =
                    [st |-> st, at |-> t, used |-> fate[dirs[d].tok].used]]

-----------------------------------------------------------------------------
(* What a deleted entry promises: when may the expirer delete it?          *)

\* Mutant of Due: released workspaces are kept for keeptime.
DueWrongKeepTime(e, ts) ==
    IF e.released > 0
    THEN now >= e.released + KeepTime
    ELSE \A t \in {e.exp, e.expired} \cup (IF e.expired = 0 THEN {ts} ELSE {}) :
            now > t + KeepTime

\* Mutant of Due: keeptime counts from the expiration, not from the time the
\* expirer moved the workspace.
DueFromExpiration(e, ts) ==
    IF e.released > 0
    THEN now >= e.released + ReleaseKeepTime
    ELSE now > e.exp + KeepTime

\* should_delete of expire_workspaces(): a released workspace is kept for
\* releasekeeptime from its release, an expired one for keeptime from the later
\* of its expiration and the time the expirer moved it (for entries of the old
\* version, that is the timestamp of the name).
Due(e, ts) ==
    IF e.released > 0
    THEN now >= e.released + ReleaseKeepTime
    ELSE \A t \in {e.exp, e.expired} \cup (IF e.expired = 0 THEN {ts} ELSE {}) :
            now > t + KeepTime

\* The data with token g is somewhere on disk, complete.
OnDisk(g) ==
    \/ \E i \in Ids : dirs[i] # NoDir /\ dirs[i].tok = g
    \/ \E n \in Names : trash[n] # NoDir /\ trash[n].tok = g

\* The time for which released or expired data has to be kept is over.
KeptLongEnough(g) ==
    \/ fate[g].st = "released" /\ now >= fate[g].at + ReleaseKeepTime
    \/ fate[g].st = "expired" /\ now > fate[g].at + KeepTime
=============================================================================
