------------------------------ MODULE WsRestore ------------------------------
(***************************************************************************)
(* ws_restore: move the data of a deleted workspace into a live one, then  *)
(* remove the deleted entry; or, with --delete-data, remove the data and   *)
(* then the entry.  With restorenosub the deleted directory replaces the   *)
(* (empty) directory of the target instead of becoming a subdirectory.     *)
(***************************************************************************)
EXTENDS WsStore

CONSTANTS
    Restorers,   \* sessions in which ws_restore may run
    Elsewhere    \* live workspaces of another filesystem that may be targets

ASSUME RestoreAssumption == Elsewhere \cap Ids = {} /\ NoEntry \notin Elsewhere

VARIABLES
    rst,      \* [Restorers -> state of the ws_restore running there]
    inside    \* history: the token of the directory that data was restored into

\* Data restored into another filesystem: out of sight, but not lost.
Away == MaxGen + 1

Restores == {"restore", "replace", "wipe"}

\* pc: "read" (the source entry `name' was read), "move" (target `to' with path
\* `path' is known), "carry" (moved, the group is to be carried over to the target
\* entry `tent'), "forget" (the deleted entry is to be removed), "told" (success
\* was reported).
RstState == [pc : {"idle", "read", "move", "carry", "forget", "told"},
             tool : Restores, name : Names \cup {<<NoEntry, 0>>},
             to : Ids \cup Elsewhere \cup {NoEntry}, path : Ids \cup {NoEntry},
             tent : Entry \cup {NoEntry}]

RstIdle == [pc |-> "idle", tool |-> "restore", name |-> <<NoEntry, 0>>,
            to |-> NoEntry, path |-> NoEntry, tent |-> NoEntry]

RestoreTypeOK ==
    /\ rst \in [Restorers -> RstState]
    /\ inside \in [0 .. MaxGen -> 0 .. Away]

RestoreInit ==
    /\ rst = [r \in Restorers |-> RstIdle]
    /\ inside = [g \in 0 .. MaxGen |-> 0]

\* A restored tree is found at the directory it was moved into.
Root(g) == IF inside[g] = 0 THEN g ELSE inside[g]

\* The data of g, and what was restored into it before, is inside h now.
PutInside(g, h) ==
    inside' = [x \in 0 .. MaxGen |->
                IF g > 0 /\ x > 0 /\ (x = g \/ inside[x] = g) THEN h ELSE inside[x]]

\* The user has the data with token g back.
GiveBack(g) ==
    fate' = IF g = 0 THEN fate
            ELSE [fate EXCEPT ![g].st = "live", ![g].at = now]

-----------------------------------------------------------------------------

\* The deleted entry is searched in the databases that can be opened, and read.
\* The paths of the source (space/deleted/<name>) follow from it.
RestoreFind(r, n, tool) ==
    /\ rst[r].pc = "idle"
    /\ gone[n] # NoEntry
    /\ rst' = [rst EXCEPT ![r] = [RstIdle EXCEPT !.pc = "read", !.tool = tool,
                                                 !.name = n]]
    /\ UNCHANGED <<storeVars, inside>>

\* The target entry is read: its path is where the data goes.
RestoreTarget(r, i) ==
    /\ rst[r].pc = "read"
    /\ rst[r].tool # "wipe"
    /\ i \in Ids => live[i] # NoEntry
    /\ rst' = [rst EXCEPT
                ![r].pc = "move", ![r].to = i,
                ![r].path = IF i \in Ids THEN live[i].dir ELSE NoEntry,
                ![r].tent = IF i \in Ids /\ rst[r].tool = "replace" THEN live[i]
                            ELSE NoEntry]
    /\ UNCHANGED <<storeVars, inside>>

\* No target of that name: the command ends.
RestoreNoTarget(r) ==
    /\ rst[r].pc = "read"
    /\ rst[r].tool # "wipe"
    /\ rst' = [rst EXCEPT ![r] = RstIdle]
    /\ UNCHANGED <<storeVars, inside>>

\* Mutant of MoveInto: the result of the move is not looked at.
MoveIntoBlind(r, ok) ==
    LET n == rst[r].name
        d == rst[r].path IN
    /\ rst[r].pc = "move"
    /\ rst[r].tool = "restore"
    /\ rst[r].to \in Ids
    /\ IF trash[n] # NoDir /\ dirs[d] # NoDir /\ ok
       THEN /\ trash' = [trash EXCEPT ![n] = NoDir]
            /\ PutInside(trash[n].tok, Root(dirs[d].tok))
            /\ GiveBack(trash[n].tok)
       ELSE UNCHANGED <<trash, inside, fate>>
    /\ rst' = [rst EXCEPT ![r].pc = "forget"]
    /\ UNCHANGED <<now, live, gone, dirs, gen>>

\* The normal case: rename(2) to <target path>/<name>, or mv(1) where rename does
\* not work (`ok': it succeeded).  A failed move keeps the entry.
MoveInto(r, ok) ==
    LET n == rst[r].name
        d == rst[r].path IN
    /\ rst[r].pc = "move"
    /\ rst[r].tool = "restore"
    /\ rst[r].to \in Ids
    /\ IF trash[n] # NoDir /\ dirs[d] # NoDir /\ ok
       THEN /\ trash' = [trash EXCEPT ![n] = NoDir]
            /\ PutInside(trash[n].tok, Root(dirs[d].tok))
            /\ GiveBack(trash[n].tok)
            /\ rst' = [rst EXCEPT ![r].pc = "forget"]
       ELSE /\ rst' = [rst EXCEPT ![r] = RstIdle]
            /\ UNCHANGED <<trash, inside, fate>>
    /\ UNCHANGED <<now, live, gone, dirs, gen>>

\* The target is in another filesystem: mv(1) copies and deletes, renameat(2)
\* fails.
MoveAway(r, ok) ==
    LET n == rst[r].name IN
    /\ rst[r].pc = "move"
    /\ rst[r].to \in Elsewhere
    /\ IF trash[n] # NoDir /\ ok /\ rst[r].tool = "restore"
       THEN /\ trash' = [trash EXCEPT ![n] = NoDir]
            /\ PutInside(trash[n].tok, Away)
            /\ GiveBack(trash[n].tok)
            /\ rst' = [rst EXCEPT ![r].pc = "forget"]
       ELSE /\ rst' = [rst EXCEPT ![r] = RstIdle]
            /\ UNCHANGED <<trash, inside, fate>>
    /\ UNCHANGED <<now, live, gone, dirs, gen>>

\* Mutant of Replace: a target that is not empty is replaced, too.
ReplaceAny(r, empty, group) ==
    LET n == rst[r].name IN
    /\ rst[r].pc = "move"
    /\ rst[r].tool = "replace"
    /\ rst[r].to \in Ids
    /\ trash[n] # NoDir
    /\ trash' = [trash EXCEPT ![n] = NoDir]
    /\ dirs' = [dirs EXCEPT ![rst[r].path] = trash[n]]
    /\ GiveBack(trash[n].tok)
    /\ rst' = [rst EXCEPT ![r].pc = "forget"]
    /\ UNCHANGED <<now, live, gone, gen, inside>>

\* restorenosub: renameat(2) onto the target directory.  It replaces a target
\* that is empty, or missing by now, and fails on any other.  `group': the source
\* is a group workspace.  The extensions its user was granted stay with the target
\* workspace; remnants without data of anybody leave it what it was.
Replace(r, empty, group) ==
    LET n == rst[r].name
        d == rst[r].path
        old == IF dirs[d] = NoDir THEN 0 ELSE dirs[d].tok
        new == IF trash[n] = NoDir \/ trash[n].tok = 0 THEN old ELSE trash[n].tok IN
    /\ rst[r].pc = "move"
    /\ rst[r].tool = "replace"
    /\ rst[r].to \in Ids
    /\ empty => dirs[d] # NoDir /\ \A x \in 1 .. MaxGen : inside[x] # dirs[d].tok
    /\ IF trash[n] # NoDir /\ (dirs[d] = NoDir \/ empty)
       THEN /\ trash' = [trash EXCEPT ![n] = NoDir]
            /\ dirs' = [dirs EXCEPT ![d] = [trash[n] EXCEPT !.tok = new]]
            /\ fate' = IF new = old THEN fate
                       ELSE [fate EXCEPT ![old].st = IF old = 0 THEN @ ELSE "purged",
                                         ![new] = [st |-> "live", at |-> now,
                                                   used |-> fate[old].used]]
            /\ rst' = [rst EXCEPT ![r].pc = IF group THEN "carry" ELSE "forget"]
       ELSE /\ rst' = [rst EXCEPT ![r] = RstIdle]
            /\ UNCHANGED <<trash, dirs, fate>>
    /\ UNCHANGED <<now, live, gone, gen, inside>>

\* restorenosub and a group workspace: the target entry that was read is written
\* back with the group of the source.
CarryGroup(r) ==
    /\ rst[r].pc = "carry"
    /\ WriteEntry(rst[r].to, rst[r].tent)
    /\ rst' = [rst EXCEPT ![r].pc = "forget"]
    /\ UNCHANGED <<now, gone, dirs, trash, gen, fate, inside>>

\* --delete-data: rmtree_below() and remove() of the deleted directory.  Unless
\* all of it is gone the entry is kept for the next try.
Wipe(r, finished) ==
    LET n == rst[r].name IN
    /\ rst[r].pc = "read"
    /\ rst[r].tool = "wipe"
    /\ trash' = [trash EXCEPT ![n] = IF trash[n] = NoDir \/ finished THEN NoDir
                                     ELSE [tok |-> 0, mtime |-> now]]
    /\ fate' = IF trash[n] = NoDir \/ trash[n].tok = 0 THEN fate
               ELSE [fate EXCEPT ![trash[n].tok].st = "purged"]
    /\ rst' = [rst EXCEPT ![r] = IF finished THEN [rst[r] EXCEPT !.pc = "forget"]
                                 ELSE RstIdle]
    /\ UNCHANGED <<now, live, gone, dirs, gen, inside>>

\* deleteEntry() on the database of the target; a file that is not there is no
\* error.  Only within one filesystem that is the entry of the source.
RestoreForget(r) ==
    /\ rst[r].pc = "forget"
    /\ gone' = IF rst[r].to \in Elsewhere THEN gone
               ELSE [gone EXCEPT ![rst[r].name] = NoEntry]
    /\ rst' = [rst EXCEPT ![r] = [RstIdle EXCEPT !.pc = "told", !.tool = rst[r].tool,
                                                 !.name = rst[r].name]]
    /\ UNCHANGED <<now, live, dirs, trash, gen, fate, inside>>

\* "restore successful, database entry removed."
RestoreEnd(r) ==
    /\ rst[r].pc = "told"
    /\ rst' = [rst EXCEPT ![r] = RstIdle]
    /\ UNCHANGED <<storeVars, inside>>

\* The process dies between two of its file operations.
RestoreCrash(r) ==
    /\ rst[r].pc # "idle"
    /\ rst' = [rst EXCEPT ![r] = RstIdle]
    /\ UNCHANGED <<storeVars, inside>>
=============================================================================
