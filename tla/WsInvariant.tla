----------------------------- MODULE WsInvariant -----------------------------
(***************************************************************************)
(* Why the store is safe although nothing locks it: the conditions an      *)
(* installation has to meet (SafeConfig) and the invariant that, under     *)
(* them, every file operation of every tool preserves.  The safety         *)
(* properties of WsSystem follow from it.                                  *)
(***************************************************************************)
EXTENDS WsSystem

\* ws_release and the expirer's second phase run alone on a workspace, only
\* creations and extensions overlap, and only with the first phase; nothing is
\* killed; nobody allocates for somebody else; a creation and a scan together
\* take less than the grace time; released data is kept for two seconds.
SafeConfig ==
    /\ Overlap \subseteq {{"allocate", "stray"}, {"extend", "stray"}}
    /\ Faults = {}
    /\ OnBehalf = {}
    /\ MaxScan + MaxAlloc < Grace
    /\ ReleaseKeepTime >= 2

\* Commands run on different workspaces, ws_release never while the expirer
\* runs, and nothing while the expirer is in its second phase.
Exclusive ==
    /\ \A p, q \in Procs :
        /\ p # q /\ alloc[p].pc # "idle" /\ alloc[q].pc # "idle" =>
                alloc[p].id # alloc[q].id
        /\ p # q /\ rel[p].pc # "idle" /\ rel[q].pc # "idle" => rel[p].id # rel[q].id
        /\ alloc[p].pc # "idle" /\ rel[q].pc # "idle" => alloc[p].id # rel[q].id
    /\ \A p \in Procs : rel[p].pc # "idle" => xpc = "idle"
    /\ \A p \in Procs : alloc[p].pc # "idle" =>
            xpc \notin ExpirePhase /\ alloc[p].dir = alloc[p].id

\* Every directory holds data of its own.
Tokens ==
    /\ \A i \in Ids : dirs[i] # NoDir => dirs[i].tok \in 1 .. gen
    /\ \A n \in Names : trash[n] # NoDir => trash[n].tok \in 0 .. gen
    /\ \A i, j \in Ids : dirs[i] # NoDir /\ dirs[j] # NoDir /\ i # j =>
            dirs[i].tok # dirs[j].tok
    /\ \A i \in Ids, n \in Names : dirs[i] # NoDir /\ trash[n] # NoDir =>
            dirs[i].tok # trash[n].tok

\* A workspace in the database has its directory, is neither released nor
\* expired (unless that is what is being done to it), and its extensions add up.
LiveOK ==
    \A i \in Ids : live[i] # NoEntry =>
        /\ live[i].dir = i
        /\ dirs[i] # NoDir
        /\ fate[dirs[i].tok].st = "live"
        /\ fate[dirs[i].tok].used + live[i].ext =< MaxExtensions
        /\ live[i].released # 0 =>
            \E p \in Procs : rel[p].pc \in {"probe", "dbmove"} /\ rel[p].id = i
        /\ live[i].expired # 0 => xpc = "dbmove" /\ xcur[1] = i

Budget == \A g \in 0 .. MaxGen : fate[g].used =< MaxExtensions

\* What a ws_allocate in flight relies on.
AllocOK ==
    \A p \in Procs :
        /\ alloc[p].pc \in {"mkdir", "entry"} => live[alloc[p].id] = NoEntry
        /\ alloc[p].pc = "entry" =>
            /\ dirs[alloc[p].id] # NoDir
            /\ dirs[alloc[p].id].mtime = alloc[p].since
            /\ now =< alloc[p].since + MaxAlloc
        /\ alloc[p].pc = "extend" => live[alloc[p].id] = alloc[p].ent

\* What a ws_release in flight relies on; in particular, the name it moves to is
\* free among the entries and among the directories.
ReleaseOK(p) ==
    LET r == rel[p]
        n == <<r.id, r.ts>> IN
    /\ r.pc \in {"mark", "probe", "dbmove"} => live[r.id] = r.ent
    /\ r.pc \in {"mark", "probe"} =>
        /\ r.ts =< now
        /\ \A t \in Stamps : t > r.ts =>
                gone[<<r.id, t>>] = NoEntry /\ trash[<<r.id, t>>] = NoDir
        /\ trash[n] # NoDir => gone[n] # NoEntry
    /\ r.pc \in {"probe", "dbmove"} =>
        /\ 0 < r.ent.released
        /\ r.ent.released =< now
        /\ r.ts =< r.ent.released + 1
    /\ r.pc = "probe" => r.ts =< r.ent.released
    /\ r.pc = "dbmove" => r.ts =< r.until /\ gone[n] = NoEntry
    /\ r.pc \in {"dirmove", "purge", "forget"} =>
        /\ live[r.id] = NoEntry
        /\ r.ent.dir = r.id
        /\ gone[n] # NoEntry
    /\ r.pc \in {"dbmove", "dirmove", "purge", "forget"} => trash[n] = NoDir
    /\ r.pc = "dirmove" =>
        /\ dirs[r.id] # NoDir
        /\ r.ts =< now
        /\ gone[n].released = fate[dirs[r.id].tok].at
        /\ 0 < fate[dirs[r.id].tok].at
        /\ fate[dirs[r.id].tok].st = "released"
    /\ r.pc = "purge" /\ dirs[r.id] # NoDir =>
        fate[dirs[r.id].tok].st = "purged"

RelOK == \A p \in Procs : ReleaseOK(p)

\* What an expiration in progress relies on.
ExpOK ==
    /\ xpc \in {"write", "dbmove"} => live[xcur[1]] = xent /\ gone[xcur] = NoEntry
    /\ xpc \in {"write", "dbmove", "dirmove"} =>
        /\ xent.dir = xcur[1]
        /\ xent.released = 0
        /\ trash[xcur] = NoDir
        /\ xcur[2] =< now
    /\ xpc \in {"dbmove", "dirmove"} => 0 < xent.expired /\ xcur[2] =< xent.expired
    /\ xpc = "dirmove" =>
        /\ live[xcur[1]] = NoEntry
        /\ dirs[xcur[1]] # NoDir
        /\ gone[xcur] = xent
        /\ fate[dirs[xcur[1]].tok].st = "expired"
        /\ fate[dirs[xcur[1]].tok].at = xent.expired

\* Somebody is moving the directory of workspace i.
Moving(i) ==
    \/ \E p \in Procs : rel[p].pc = "dirmove" /\ rel[p].id = i
    \/ xpc = "dirmove" /\ xcur[1] = i

\* No directory is a stray: it has an entry, or will have one, or is being moved
\* or removed.
DirCover ==
    \A i \in Ids : dirs[i] # NoDir =>
        \/ live[i] # NoEntry
        \/ \E p \in Procs : alloc[p].pc = "entry" /\ alloc[p].id = i
        \/ \E p \in Procs : rel[p].pc = "purge" /\ rel[p].id = i
        \/ Moving(i)

\* The names in use: none lies in the future, those of a live workspace not
\* after its expiration, and a directory without an entry not even in the
\* present.  A deleted entry says when its time began.
NamesOK ==
    \A i \in Ids, t \in Stamps :
        /\ gone[<<i, t>>] # NoEntry =>
            /\ t =< now
            /\ live[i] # NoEntry => t =< live[i].exp
            /\ gone[<<i, t>>].released > 0 => t =< gone[<<i, t>>].released + 1
            /\ gone[<<i, t>>].released = 0 =>
                0 < gone[<<i, t>>].expired /\ t =< gone[<<i, t>>].expired
        /\ trash[<<i, t>>] # NoDir =>
            /\ t =< now
            /\ live[i] # NoEntry => t =< live[i].exp
            /\ gone[<<i, t>>] = NoEntry => t < now

\* The deleted entry called n is the one of the data with token g.
Matches(n, g) ==
    /\ gone[n] # NoEntry
    /\ \/ fate[g].st = "released" /\ fate[g].at > 0 /\ gone[n].released = fate[g].at
       \/ /\ fate[g].st = "expired" /\ fate[g].at > 0
          /\ gone[n].released = 0 /\ gone[n].expired = fate[g].at

\* A deleted directory has its entry, unless its time is over.
TrashKept ==
    \A n \in Names : trash[n] # NoDir /\ trash[n].tok # 0 =>
        Matches(n, trash[n].tok) \/ KeptLongEnough(trash[n].tok)

\* What the expirer is about to remove has no entry.
Swept ==
    /\ xpc = "sweep" => \A n \in xnames : gone[n] = NoEntry
    /\ xpc = "rmtree" => gone[xcur] = NoEntry

\* Released and expired data is in a deleted directory or on its way there.
Retained ==
    \A g \in 1 .. gen : fate[g].st \in {"released", "expired"} /\ ~KeptLongEnough(g) =>
        \/ \E n \in Names : trash[n] # NoDir /\ trash[n].tok = g
        \/ \E i \in Ids : dirs[i] # NoDir /\ dirs[i].tok = g /\ Moving(i)

\* A scan for strays is over within MaxScan, and the directories it found without
\* an entry are younger than that scan and a creation together.
ScanYoung ==
    /\ xpc \in ScanPhase => xstart =< now /\ now =< xstart + MaxScan
    /\ xpc = "check" => \A d \in xids : dirs[d] # NoDir =>
                            dirs[d].mtime + MaxAlloc >= xstart
    /\ xpc # "move"

\* The inductive invariant: nothing the tools rely on while they are in the
\* middle of an operation is taken away by another one.
Safe ==
    /\ SafeConfig
    /\ TypeOK
    /\ Exclusive
    /\ Tokens
    /\ LiveOK
    /\ Budget
    /\ AllocOK
    /\ RelOK
    /\ ExpOK
    /\ DirCover
    /\ NamesOK
    /\ TrashKept
    /\ Swept
    /\ Retained
    /\ ScanYoung
-----------------------------------------------------------------------------
(* What is left of this when processes may be killed.                      *)

\* Any two commands that create or extend may overlap, and extensions and
\* releases may overlap the stray scan; a creation may not (it may find the
\* old directory of one that was killed), and nothing overlaps a release or the
\* expirer's second phase.  Everything may be killed, and no time is bounded.
CrashConfig ==
    /\ Overlap \subseteq {{"allocate"}, {"extend"}, {"allocate", "extend"},
                          {"extend", "stray"}, {"release", "stray"}}
    /\ OnBehalf = {}

\* A ws_release is alone with its workspace, a creation never meets the expirer,
\* and the expirer's second phase never meets a command.
Separate ==
    /\ \A p, q \in Procs :
        /\ p # q /\ rel[p].pc # "idle" /\ rel[q].pc # "idle" => rel[p].id # rel[q].id
        /\ alloc[p].pc # "idle" /\ rel[q].pc # "idle" => alloc[p].id # rel[q].id
    /\ \A p \in Procs :
        /\ alloc[p].pc # "idle" => alloc[p].dir = alloc[p].id
        /\ alloc[p].pc \in {"mkdir", "entry"} => xpc = "idle"
        /\ xpc \in ExpirePhase => alloc[p].pc = "idle" /\ rel[p].pc = "idle"

\* A workspace in the database has its directory, and a name in use is neither of
\* the future nor later than the expiration of a workspace of the same name.
NamesPast(i, e) ==
    \A t \in Stamps : gone[<<i, t>>] # NoEntry \/ trash[<<i, t>>] # NoDir =>
        t =< now /\ (e # NoEntry => t =< e.exp)

Housed ==
    \A i \in Ids :
        /\ live[i] # NoEntry => live[i].dir = i /\ dirs[i] # NoDir
        /\ NamesPast(i, live[i])

\* What a creation or an extension in flight relies on.
AllocHas ==
    \A p \in Procs :
        /\ alloc[p].pc = "entry" => dirs[alloc[p].id] # NoDir
        /\ alloc[p].pc = "extend" =>
            /\ live[alloc[p].id] # NoEntry
            /\ alloc[p].ent.dir = alloc[p].id
            /\ NamesPast(alloc[p].id, alloc[p].ent)

\* What a release in flight relies on; its new name is free among the entries.
RelHas ==
    \A p \in Procs : LET r == rel[p] IN
        /\ r.pc \in {"mark", "probe", "dbmove"} => live[r.id] = r.ent
        /\ r.pc \in {"mark", "probe"} =>
            /\ r.ts =< now
            /\ \A t \in Stamps : t > r.ts => gone[<<r.id, t>>] = NoEntry
        /\ r.pc = "dbmove" => r.ts =< r.until /\ gone[<<r.id, r.ts>>] = NoEntry
        /\ r.pc \in {"dirmove", "purge"} => live[r.id] = NoEntry /\ r.ent.dir = r.id
        /\ r.pc = "dirmove" => r.ts =< now

\* What the expirer relies on: what it takes for a stray has no entry, and what
\* it expires is not touched by anybody else.
ExpHas ==
    /\ xpc \in {"check", "move"} => \A d \in xids : live[d] = NoEntry
    /\ xpc = "move" => live[xcur[1]] = NoEntry
    /\ xpc \in {"write", "dbmove"} => live[xcur[1]] = xent /\ gone[xcur] = NoEntry
    /\ xpc = "dirmove" => live[xcur[1]] = NoEntry /\ xent.dir = xcur[1]
    /\ xpc \in {"move", "write", "dbmove", "dirmove"} => xcur[2] =< now

\* The inductive invariant for installations that meet CrashConfig.
CrashSafe ==
    /\ CrashConfig
    /\ TypeOK
    /\ Separate
    /\ Housed
    /\ AllocHas
    /\ RelHas
    /\ ExpHas
=============================================================================
