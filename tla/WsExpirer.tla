------------------------------ MODULE WsExpirer ------------------------------
(***************************************************************************)
(* ws_expirer -c on one filesystem.  A run first cleans stray directories  *)
(* (clean_stray_directories): it lists the space, takes the ids and paths  *)
(* of the database, moves old directories without an entry to the deleted  *)
(* ones, then removes deleted directories without a deleted entry.  After  *)
(* that it expires workspaces and deletes entries that were kept long      *)
(* enough (expire_workspaces).                                             *)
(***************************************************************************)
EXTENDS WsStore

CONSTANTS
    Grace,     \* STRAY_GRACETIME, 3600 s
    MaxScan    \* listing, snapshot and moves take at most this long (assumption)

ASSUME ExpirerAssumption == Grace \in Nat /\ MaxScan \in Nat

VARIABLES
    xpc,      \* where the run is
    xstart,   \* run_start, the time clean_stray_directories() began
    xids,     \* workspace directories or ids still to be looked at
    xnames,   \* deleted directories or entries still to be looked at
    xcur,     \* the name being worked on
    xent      \* the entry being expired

expVars == <<xpc, xstart, xids, xnames, xcur, xent>>

\* Before the database was read, and while strays are moved.
ScanPhase == {"snap", "check", "move"}
StrayPhase == ScanPhase \cup {"tsnap", "sweep", "explist"}
ExpirePhase == {"expire", "write", "dbmove", "dirmove", "delete", "rmtree"}

NoName == <<NoEntry, 0>>

ExpTypeOK ==
    /\ xpc \in {"idle"} \cup StrayPhase \cup ExpirePhase
    /\ xstart \in 0 .. MaxTime
    /\ xids \subseteq Ids
    /\ xnames \subseteq Names
    /\ xcur \in Names \cup {NoName}
    /\ xpc \in {"move", "write", "dbmove", "dirmove", "rmtree"} => xcur \in Names
    /\ xent \in Entry \cup {NoEntry}
    /\ xpc \in {"write", "dbmove", "dirmove"} => xent \in Entry

ExpInit ==
    /\ xpc = "idle"
    /\ xstart = 0
    /\ xids = {}
    /\ xnames = {}
    /\ xcur = NoName
    /\ xent = NoEntry

-----------------------------------------------------------------------------
(* clean_stray_directories()                                               *)

\* The directories are listed before the database is read.
StrayList ==
    /\ xpc = "idle"
    /\ xpc' = "snap"
    /\ xstart' = now
    /\ xids' = {i \in Ids : dirs[i] # NoDir}
    /\ UNCHANGED <<storeVars, xnames, xcur, xent>>

\* A directory belongs to an entry that has its path or its name.
HasEntry(d) == \E i \in Ids : live[i] # NoEntry /\ (live[i].dir = d \/ i = d)

\* The snapshot of the database; what has no entry in it is a stray.
StraySnapshot ==
    /\ xpc = "snap"
    /\ xpc' = "check"
    /\ xids' = {d \in xids : ~HasEntry(d)}
    /\ UNCHANGED <<storeVars, xstart, xnames, xcur, xent>>

\* Mutant of StrayNoDatabase: a missing database counts as an empty one.
StrayEmptyDatabase ==
    /\ xpc = "snap"
    /\ xpc' = "check"
    /\ UNCHANGED <<storeVars, xstart, xids, xnames, xcur, xent>>

\* openDB() throws (the magic file is missing): the filesystem is skipped.
StrayNoDatabase ==
    /\ xpc = "snap"
    /\ xpc' = "explist"
    /\ xids' = {}
    /\ UNCHANGED <<storeVars, xstart, xnames, xcur, xent>>

\* Mutant of TooYoung: no grace time.
TooYoungNoGrace(d) == dirs[d].mtime > now

\* First guard: a directory younger than the grace time may belong to an
\* allocation in flight.
TooYoung(d) == dirs[d].mtime > now - Grace

StrayStat(d) ==
    /\ xpc = "check"
    /\ d \in xids
    /\ IF dirs[d] = NoDir \/ TooYoung(d)
       THEN /\ xids' = xids \ {d}
            /\ UNCHANGED <<xpc, xcur>>
       ELSE /\ xpc' = "move"
            /\ xcur' = <<d, now>>
            /\ UNCHANGED xids
    /\ UNCHANGED <<storeVars, xstart, xnames, xent>>

StrayMove ==
    /\ xpc = "move"
    /\ TryMoveDir(xcur[1], xcur)
    /\ xpc' = "check"
    /\ xids' = xids \ {xcur[1]}
    /\ xcur' = NoName
    /\ UNCHANGED <<now, live, gone, gen, fate, xstart, xnames, xent>>

\* The deleted directories are listed before the deleted entries.
TrashList ==
    /\ xpc = "check"
    /\ xids = {}
    /\ xpc' = "tsnap"
    /\ xnames' = {n \in Names : trash[n] # NoDir}
    /\ UNCHANGED <<storeVars, xstart, xids, xcur, xent>>

\* Mutant of Removable: the deleted entries are not looked at.
RemovableByAge(n) == n[2] < xstart

\* Second guard: what was moved during this run is left for the next one.
Removable(n) == gone[n] = NoEntry /\ n[2] < xstart

TrashSnapshot ==
    /\ xpc = "tsnap"
    /\ xpc' = "sweep"
    /\ xnames' = {n \in xnames : Removable(n)}
    /\ UNCHANGED <<storeVars, xstart, xids, xcur, xent>>

TrashRemove(n, finished) ==
    /\ xpc = "sweep"
    /\ n \in xnames
    /\ Rmtree(n, finished)
    /\ xnames' = xnames \ {n}
    /\ UNCHANGED <<now, live, gone, dirs, gen, fate, xpc, xstart, xids, xcur, xent>>

StrayEnd ==
    /\ xpc = "sweep"
    /\ xnames = {}
    /\ xpc' = "explist"
    /\ UNCHANGED <<storeVars, xstart, xids, xnames, xcur, xent>>

-----------------------------------------------------------------------------
(* expire_workspaces()                                                     *)

\* Mutant of ExpireList: entries marked as released are left to ws_release.
ExpireListUnreleased ==
    /\ xpc = "explist"
    /\ xpc' = "expire"
    /\ xstart' = 0
    /\ xids' = {i \in Ids : live[i] # NoEntry /\ live[i].released = 0}
    /\ UNCHANGED <<storeVars, xnames, xcur, xent>>

ExpireList ==
    /\ xpc = "explist"
    /\ xpc' = "expire"
    /\ xstart' = 0
    /\ xids' = {i \in Ids : live[i] # NoEntry}
    /\ UNCHANGED <<storeVars, xnames, xcur, xent>>

ExpireNoDatabase ==
    /\ xpc = "explist"
    /\ xpc' = "idle"
    /\ xstart' = 0
    /\ UNCHANGED <<storeVars, xids, xnames, xcur, xent>>

\* expire() counts up from now to the first timestamp that is free among the
\* deleted entries and among the deleted directories.
FreeStamps(i) ==
    {t \in now .. (now + MaxTries - 1) :
        gone[<<i, t>>] = NoEntry /\ trash[<<i, t>>] = NoDir}

HasExpired(i) == live[i] # NoEntry /\ live[i].exp > 0 /\ now > live[i].exp

\* An entry that vanished, is kept (a reminder may be sent), or for which no
\* name is free, is passed over.
ExpireSkip(i) ==
    /\ xpc = "expire"
    /\ i \in xids
    /\ ~HasExpired(i) \/ FreeStamps(i) = {}
    /\ xids' = xids \ {i}
    /\ UNCHANGED <<storeVars, xpc, xstart, xnames, xcur, xent>>

ExpireChoose(i) ==
    /\ xpc = "expire"
    /\ i \in xids
    /\ HasExpired(i)
    /\ \E t \in FreeStamps(i) :
        /\ \A u \in FreeStamps(i) : t =< u
        /\ xcur' = <<i, t>>
    /\ xent' = live[i]
    /\ xpc' = "write"
    /\ xids' = xids \ {i}
    /\ UNCHANGED <<storeVars, xstart, xnames>>

\* expired = now, writeEntry().
ExpireWrite ==
    LET e == [xent EXCEPT !.expired = now] IN
    /\ xpc = "write"
    /\ WriteEntry(xcur[1], e)
    /\ xent' = e
    /\ xpc' = "dbmove"
    /\ UNCHANGED <<now, gone, dirs, trash, gen, fate, xstart, xids, xnames, xcur>>

\* The entry is renamed; if it is gone, expire() throws and the loop goes on.
ExpireDbMove ==
    LET i == xcur[1] IN
    /\ xpc = "dbmove"
    /\ IF live[i] = NoEntry
       THEN /\ xpc' = "expire"
            /\ xcur' = NoName
            /\ xent' = NoEntry
            /\ UNCHANGED <<live, gone, fate>>
       ELSE /\ MoveEntry(i, xcur)
            /\ SetFate(xent.dir, "expired", xent.expired)
            /\ xpc' = "dirmove"
            /\ UNCHANGED <<xcur, xent>>
    /\ UNCHANGED <<now, dirs, trash, gen, xstart, xids, xnames>>

\* The directory keeps its own name, with the timestamp of the entry.
ExpireDirMove ==
    /\ xpc = "dirmove"
    /\ TryMoveDir(xent.dir, <<xent.dir, xcur[2]>>)
    /\ xpc' = "expire"
    /\ xcur' = NoName
    /\ xent' = NoEntry
    /\ UNCHANGED <<now, live, gone, gen, fate, xstart, xids, xnames>>

\* Mutant of DeleteList: only entries whose directory is there.
DeleteListWithDir ==
    /\ xpc = "expire"
    /\ xids = {}
    /\ xpc' = "delete"
    /\ xnames' = {n \in Names : gone[n] # NoEntry /\ trash[n] # NoDir}
    /\ UNCHANGED <<storeVars, xstart, xids, xcur, xent>>

\* Second loop: the deleted entries.
DeleteList ==
    /\ xpc = "expire"
    /\ xids = {}
    /\ xpc' = "delete"
    /\ xnames' = {n \in Names : gone[n] # NoEntry}
    /\ UNCHANGED <<storeVars, xstart, xids, xcur, xent>>

ShouldDelete(n) == gone[n] # NoEntry /\ Due(gone[n], n[2])

DeleteKeep(n) ==
    /\ xpc = "delete"
    /\ n \in xnames
    /\ ~ShouldDelete(n)
    /\ xnames' = xnames \ {n}
    /\ UNCHANGED <<storeVars, xpc, xstart, xids, xcur, xent>>

\* The entry is deleted first, then the directory of the same name.
DeleteEntry(n) ==
    /\ xpc = "delete"
    /\ n \in xnames
    /\ ShouldDelete(n)
    /\ gone' = [gone EXCEPT ![n] = NoEntry]
    /\ xnames' = xnames \ {n}
    /\ xcur' = n
    /\ xpc' = "rmtree"
    /\ UNCHANGED <<now, live, dirs, trash, gen, fate, xstart, xids, xent>>

DeleteTree(finished) ==
    /\ xpc = "rmtree"
    /\ Rmtree(xcur, finished)
    /\ xpc' = "delete"
    /\ xcur' = NoName
    /\ UNCHANGED <<now, live, gone, dirs, gen, fate, xstart, xids, xnames, xent>>

ExpireEnd ==
    /\ xpc = "delete"
    /\ xnames = {}
    /\ xpc' = "idle"
    /\ UNCHANGED <<storeVars, xstart, xids, xnames, xcur, xent>>

\* The run is killed, or an error nobody catches ends it.
ExpirerCrash ==
    /\ xpc # "idle"
    /\ xpc' = "idle"
    /\ xstart' = 0
    /\ xids' = {}
    /\ xnames' = {}
    /\ xcur' = NoName
    /\ xent' = NoEntry
    /\ UNCHANGED storeVars
=============================================================================
