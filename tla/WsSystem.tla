------------------------------ MODULE WsSystem ------------------------------
(***************************************************************************)
(* The tools running against one filesystem: ws_allocate and ws_release in *)
(* the users' sessions, ws_expirer from cron, and the clock.  There is no  *)
(* locking in the code, so every interleaving of their file operations can *)
(* happen.  Overlap says which tools an installation lets run at the same  *)
(* time (for users' commands: on the same workspace); the properties are   *)
(* about what that choice is worth.                                        *)
(***************************************************************************)
EXTENDS WsAllocate, WsRelease, WsExpirer

CONSTANTS
    Overlap,   \* set of pairs {tool, tool} that may overlap
    Faults     \* subset of {"crash", "purge"}: faults that may happen

Tools == {"allocate", "extend", "release", "stray", "expire"}

ASSUME SystemAssumption ==
    /\ Overlap \subseteq {{a, b} : a, b \in Tools}
    /\ Faults \subseteq {"crash", "purge"}

vars == <<storeVars, alloc, rel, expVars>>

TypeOK == StoreTypeOK /\ AllocTypeOK /\ RelTypeOK /\ ExpTypeOK

Init == StoreInit /\ AllocInit /\ RelInit /\ ExpInit

-----------------------------------------------------------------------------
(* Which tools are running.                                                *)

AllocTool(p) == IF alloc[p].pc = "extend" THEN "extend" ELSE "allocate"

ExpTool == IF xpc \in ExpirePhase THEN "expire" ELSE "stray"

\* Two processes may run t and u at the same time.
May(t, u) == {t, u} \in Overlap

\* A user's command t on workspace i may start.
MayStart(t, i) ==
    /\ \A p \in Procs : alloc[p].pc # "idle" /\ i \in {alloc[p].id, alloc[p].dir}
                            => May(t, AllocTool(p))
    /\ \A p \in Procs : rel[p].pc # "idle" /\ rel[p].id = i => May(t, "release")
    /\ xpc # "idle" => May(t, ExpTool)

\* A phase t of the expirer may start.
MayScan(t) ==
    /\ \A p \in Procs : alloc[p].pc # "idle" => May(t, AllocTool(p))
    /\ \A p \in Procs : rel[p].pc # "idle" => May(t, "release")

-----------------------------------------------------------------------------
(* The steps of the system.                                                *)

AllocateStep ==
    /\ \E p \in Procs :
        \/ \E w \in Targets : /\ MayStart("allocate", w[1])
                              /\ MayStart("allocate", w[2])
                              /\ AllocLookup(p, w[1], w[2])
        \/ AllocMkdir(p)
        \/ \E dur \in Durations : AllocEntry(p, dur)
    /\ UNCHANGED <<rel, expVars>>

ExtendStep ==
    /\ \E p \in Procs :
        \/ \E i \in Ids : MayStart("extend", i) /\ ExtendRead(p, i)
        \/ \E dur \in Durations \cup {0}, root \in BOOLEAN : ExtendWrite(p, dur, root)
    /\ UNCHANGED <<rel, expVars>>

ReleaseStep ==
    /\ \E p \in Procs :
        \/ \E i \in Ids, purge \in BOOLEAN :
            MayStart("release", i) /\ ReleaseRead(p, i, purge)
        \/ ReleaseMark(p)
        \/ ReleaseProbe(p)
        \/ ReleaseDbMove(p)
        \/ ReleaseDirMove(p)
        \/ \E finished \in BOOLEAN :
            (finished \/ "purge" \in Faults) /\ ReleasePurge(p, finished)
        \/ ReleaseForget(p)
    /\ UNCHANGED <<alloc, expVars>>

StrayStep ==
    /\ \/ MayScan("stray") /\ StrayList
       \/ StraySnapshot
       \/ StrayNoDatabase
       \/ \E d \in Ids : StrayStat(d)
       \/ StrayMove
       \/ TrashList
       \/ TrashSnapshot
       \/ \E n \in Names, finished \in BOOLEAN : TrashRemove(n, finished)
       \/ StrayEnd
    /\ UNCHANGED <<alloc, rel>>

ExpireStep ==
    /\ \/ MayScan("expire") /\ ExpireList
       \/ ExpireNoDatabase
       \/ \E i \in Ids : ExpireSkip(i) \/ ExpireChoose(i)
       \/ ExpireWrite
       \/ ExpireDbMove
       \/ ExpireDirMove
       \/ DeleteList
       \/ \E n \in Names : DeleteKeep(n) \/ DeleteEntry(n)
       \/ \E finished \in BOOLEAN : DeleteTree(finished)
       \/ ExpireEnd
    /\ UNCHANGED <<alloc, rel>>

CrashStep ==
    /\ "crash" \in Faults
    /\ \/ \E p \in Procs : AllocCrash(p) /\ UNCHANGED <<rel, expVars>>
       \/ \E p \in Procs : ReleaseCrash(p) /\ UNCHANGED <<alloc, expVars>>
       \/ ExpirerCrash /\ UNCHANGED <<alloc, rel>>

\* A second passes.  Timing assumptions: a creation, the two moves of a release
\* and a scan for strays do not take longer than MaxAlloc, MaxRelease, MaxScan.
Tick ==
    /\ now < MaxTime
    /\ \A p \in Procs : alloc[p].pc = "entry" => now < alloc[p].since + MaxAlloc
    /\ \A p \in Procs : rel[p].pc = "dirmove" => now < rel[p].until + MaxRelease
    /\ xpc \in ScanPhase => now < xstart + MaxScan
    /\ now' = now + 1
    /\ UNCHANGED <<disk, gen, fate, alloc, rel, expVars>>

Next == AllocateStep \/ ExtendStep \/ ReleaseStep \/ StrayStep \/ ExpireStep
            \/ CrashStep \/ Tick

Spec == Init /\ [][Next]_vars

\* cron starts the expirer again and again, a run goes on to its end and finds
\* the database again and again; the clock advances; a command that extends a
\* workspace ends.
Fairness ==
    /\ SF_vars(Tick)
    /\ WF_vars(StrayStep)
    /\ WF_vars(ExpireStep)
    /\ SF_vars(StraySnapshot /\ UNCHANGED <<alloc, rel>>)
    /\ SF_vars(MayScan("expire") /\ ExpireList /\ UNCHANGED <<alloc, rel>>)
    /\ \A p \in Procs : WF_vars(ExtendWrite(p, 0, FALSE) /\ UNCHANGED <<rel, expVars>>)

FairSpec == Spec /\ Fairness

-----------------------------------------------------------------------------
(* Properties                                                              *)

\* A workspace the database lists has its directory: nobody who was given a
\* workspace (ws_allocate printed its path) finds it moved away by ws_expirer's
\* stray cleaning or by another command, while its entry is still there.
LiveHasDir == \A i \in Ids : live[i] # NoEntry => dirs[live[i].dir] # NoDir

\* releasekeeptime: data the user released (without --delete-data) stays on
\* disk, complete, until releasekeeptime is over, whatever the expirer's two
\* phases do meanwhile.
ReleasedRetained ==
    \A g \in 1 .. gen :
        fate[g].st = "released" /\ ~KeptLongEnough(g) => OnDisk(g)

\* keeptime: data of an expired workspace stays on disk, complete, until
\* keeptime is over.
ExpiredRetained ==
    \A g \in 1 .. gen :
        fate[g].st = "expired" /\ ~KeptLongEnough(g) => OnDisk(g)

\* ws_restore finds data by the name of its deleted entry: once the command that
\* moved it has ended, data within its retention lies in a deleted directory
\* whose deleted entry has the same name.
Recoverable ==
    (xpc \notin {"dirmove"} /\ \A p \in Procs : rel[p].pc # "dirmove") =>
        \A g \in 1 .. gen :
            fate[g].st \in {"released", "expired"} /\ ~KeptLongEnough(g) =>
                \E n \in Names : /\ trash[n] # NoDir
                                 /\ trash[n].tok = g
                                 /\ gone[n] # NoEntry

\* The names of deleted entries are collision free: no rename of ws_release or
\* ws_expirer ever replaces the entry of another deleted workspace.
NoOverwrite ==
    [][\A n \in Names : gone[n] # NoEntry /\ gone'[n] # NoEntry
                            => gone'[n] = gone[n]]_vars

\* A user is granted at most maxextensions extensions of one workspace,
\* whatever he extends, shortens and extends again.
ExtensionBudget == \A g \in 1 .. gen : fate[g].used =< MaxExtensions

\* A workspace past its expiration does not stay allocated for ever: it is
\* expired, released or extended, unless expire() finds none of its maxtries
\* names free.
ExpiredLeaves ==
    \A i \in Ids : HasExpired(i) ~> (~HasExpired(i) \/ FreeStamps(i) = {})

\* A deleted entry whose keep time is over is eventually deleted.
DueDeleted ==
    \A n \in Names : ShouldDelete(n) ~> ~ShouldDelete(n)

\* Space is reclaimed: a deleted directory without a deleted entry (a stray, or
\* remnants of a removal cut short by deldirtimeout) does not stay for ever.  The
\* bounded clock never leaves names of its last second behind, so those do not
\* count.
TrashReclaimed ==
    \A n \in Ids \X (0 .. (MaxTime - 1)) :
        (trash[n] # NoDir /\ gone[n] = NoEntry)
            ~> (trash[n] = NoDir \/ gone[n] # NoEntry)
=============================================================================
