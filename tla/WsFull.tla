-------------------------------- MODULE WsFull --------------------------------
(***************************************************************************)
(* The system with all tools that write to the store: WsSystem together    *)
(* with ws_restore and ws_editdb.  As Overlap does for the tools of        *)
(* WsSystem, Joint says which of them ws_restore and ws_editdb may run     *)
(* beside.  The abstract specification WsRetention says what all of them   *)
(* together promise about data.                                            *)
(***************************************************************************)
EXTENDS WsSystem, WsRestore, WsEditDb

CONSTANT Joint   \* set of pairs {tool, tool} that may overlap

\* ws_restore into a subdirectory, onto the target, with --delete-data; ws_editdb
\* on live and on deleted entries.
NewTools == Restores \cup {"edit", "editDeleted"}

ASSUME FullAssumption == Joint \subseteq {{a, b} : a \in NewTools, b \in Tools \cup NewTools}

fullVars == <<vars, rst, inside, ed>>

FullTypeOK == TypeOK /\ RestoreTypeOK /\ EditTypeOK

FullInit == Init /\ RestoreInit /\ EditInit

-----------------------------------------------------------------------------

\* The tools of WsSystem that are running.
OldRunning ==
    {AllocTool(p) : p \in {q \in Procs : alloc[q].pc # "idle"}}
        \cup (IF \E p \in Procs : rel[p].pc # "idle" THEN {"release"} ELSE {})
        \cup (IF xpc # "idle" THEN {ExpTool} ELSE {})

EditTool == IF ed.expired THEN "editDeleted" ELSE "edit"

\* Every tool that runs beside ws_restore or ws_editdb is one that may.
Admitted ==
    /\ \A r \in Restorers : rst[r].pc # "idle" =>
        /\ \A t \in OldRunning : {rst[r].tool, t} \in Joint
        /\ \A s \in Restorers \ {r} : rst[s].pc # "idle" =>
                {rst[r].tool, rst[s].tool} \in Joint
        /\ ed.pc # "idle" => {rst[r].tool, EditTool} \in Joint
    /\ ed.pc # "idle" => \A t \in OldRunning : {EditTool, t} \in Joint

RestoreStep ==
    /\ \E r \in Restorers :
        \/ \E n \in Names, tool \in Restores : RestoreFind(r, n, tool)
        \/ \E i \in Ids \cup Elsewhere : RestoreTarget(r, i)
        \/ RestoreNoTarget(r)
        \/ \E ok \in BOOLEAN : MoveInto(r, ok) \/ MoveAway(r, ok)
        \/ \E empty, group \in BOOLEAN : Replace(r, empty, group)
        \/ CarryGroup(r)
        \/ \E finished \in BOOLEAN : Wipe(r, finished)
        \/ RestoreForget(r)
        \/ RestoreEnd(r)
        \/ RestoreCrash(r)
    /\ UNCHANGED <<alloc, rel, expVars, ed>>

\* ws_editdb is not between the renames of an entry and of its directory.
Settled == ed.pc \notin {"dirmove", "rollback"}

\* Killed between the two renames, ws_editdb leaves a directory without an entry
\* behind; that is a fault to be admitted.
EditStep ==
    /\ \/ \E edit \in Edits, deleted \in BOOLEAN, i \in Ids :
            EditCollect(edit, deleted, {n \in Names : n[1] = i})
       \/ \E x \in ed.todo : EditWrite(x) \/ EditPass(x)
       \/ EditChoose
       \/ EditProbe
       \/ EditDbMove
       \/ \E ok \in BOOLEAN : EditDirMove(ok)
       \/ EditRollback
       \/ EditEnd
       \/ (Settled \/ "crash" \in Faults) /\ EditCrash
    /\ UNCHANGED <<alloc, rel, expVars, rst, inside>>

FullNext ==
    /\ \/ /\ AllocateStep \/ ExtendStep \/ ReleaseStep \/ StrayStep \/ ExpireStep
                 \/ CrashStep \/ Tick
          /\ UNCHANGED <<rst, inside, ed>>
       \/ RestoreStep
       \/ EditStep
    /\ Admitted'

FullSpec == FullInit /\ [][FullNext]_fullVars

-----------------------------------------------------------------------------
(* What the tools promise together.                                        *)

\* The directory with token h is a workspace, or out of sight.
Held(h) == h = Away \/ \E i \in Ids : dirs[i] # NoDir /\ dirs[i].tok = h

\* The directory with token h is a deleted one.
Kept(h) == \E n \in Names : trash[n] # NoDir /\ trash[n].tok = h

\* Where the data with token g is: fresh data was not given to anybody yet.
Whereabouts(g) ==
    IF fate[g].st \in {"none", "fresh"} THEN "none"
    ELSE IF Held(Root(g)) THEN "held"
    ELSE IF Kept(Root(g)) THEN "kept"
    ELSE "dropped"

\* From when on the data with token g may be removed, 0 if it is in use: data
\* that was restored shares the fate of the workspace it was restored into.
DueDate(g) ==
    LET h == Root(g) IN
    IF h = Away THEN 0
    ELSE CASE fate[h].st = "released" -> fate[h].at + ReleaseKeepTime
           [] fate[h].st = "expired" -> fate[h].at + KeepTime + 1
           [] OTHER -> 0

Asked == {g \in 1 .. MaxGen : Root(g) # Away /\ fate[Root(g)].st = "purged"}

Retention == INSTANCE WsRetention WITH
    Data <- 1 .. MaxGen,
    clock <- now,
    state <- [g \in 1 .. MaxGen |-> Whereabouts(g)],
    due <- [g \in 1 .. MaxGen |-> DueDate(g)],
    asked <- Asked

\* Data is dropped only after its date, or when its user asked for it, whatever
\* the order in which ws_release, ws_expirer, ws_restore and ws_editdb move files.
KeepsData == Retention!Spec

\* ws_restore finds data by the name of its deleted entry: data within its
\* retention lies in a deleted directory whose deleted entry has the same name,
\* also after ws_editdb renamed both, or failed to.
Findable == Settled => Recoverable

\* No tool replaces a deleted entry by another one: only an edit changes it.
\* It needs names that lie in the past: once ws_editdb gave a deleted entry a name of
\* the future, a release that finds its own name taken may count up to that name, which
\* it does not look up.  This takes three directories and five seconds.
DeletedStay ==
    [][\A n \in Names : gone[n] # NoEntry /\ gone'[n] # NoEntry /\ gone'[n] # gone[n]
                            => ed.pc = "next"]_fullVars

\* ws_restore -l shows the timestamp of the name plus keeptime as "restorable
\* until": an expired workspace is not deleted before that date (names are counted
\* up when they are taken, at most MaxTries - 1 times), even if ws_editdb moved the
\* date, was killed, or could not rename.  This is for edits that give more time:
\* after one that takes time away the name is too late when the rename fails.
ListedUntil ==
    ed.pc = "idle" =>
        \A n \in Names :
            gone[n] # NoEntry /\ trash[n] # NoDir /\ gone[n].released = 0
                => n[2] =< Boundary(gone[n], n[2]) + MaxTries - 1

\* "restore successful, database entry removed." is what happened.
ToldRemoved ==
    \A r \in Restorers : rst[r].pc = "told" => gone[rst[r].name] = NoEntry
=============================================================================
