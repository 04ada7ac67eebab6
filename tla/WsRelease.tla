------------------------------ MODULE WsRelease ------------------------------
(***************************************************************************)
(* ws_release: mark the entry as released, move it to the deleted entries, *)
(* then move the directory to the deleted directories under the same       *)
(* timestamp; with --delete-data remove the directory and the entry.       *)
(***************************************************************************)
EXTENDS WsStore

CONSTANT
    MaxRelease   \* moving entry and directory takes at most this long (assumption)

ASSUME ReleaseAssumption == MaxRelease \in Nat

VARIABLE rel   \* [Procs -> state of the ws_release running there]

\* `ts' is the timestamp of the new name, `ent' the entry that was read,
\* `until' the end of the sleep after a name collision, then the time the entry
\* was moved.
RelState == [pc : {"idle", "mark", "probe", "dbmove", "dirmove", "purge", "forget"},
             id : Ids \cup {NoEntry}, ts : Stamps, until : Nat,
             ent : Entry \cup {NoEntry}, purge : BOOLEAN]

RelIdle == [pc |-> "idle", id |-> NoEntry, ts |-> 0, until |-> 0,
            ent |-> NoEntry, purge |-> FALSE]

RelTypeOK ==
    /\ rel \in [Procs -> RelState]
    /\ \A p \in Procs :
        /\ rel[p].pc # "idle" => rel[p].id \in Ids /\ rel[p].ent \in Entry
        /\ rel[p].pc \in {"mark", "probe"} => rel[p].ts =< MaxTime

RelInit == rel = [p \in Procs |-> RelIdle]

\* release(): the entry is read and the timestamp taken (before the five
\* seconds that --delete-data leaves the user to think again).
ReleaseRead(p, i, purge) ==
    /\ rel[p].pc = "idle"
    /\ live[i] # NoEntry
    /\ rel' = [rel EXCEPT ![p] = [pc |-> "mark", id |-> i, ts |-> now, until |-> 0,
                                  ent |-> live[i], purge |-> purge]]
    /\ UNCHANGED storeVars

\* DBEntryV1::release(): released = now, writeEntry().
ReleaseMark(p) ==
    LET e == [rel[p].ent EXCEPT !.released = now] IN
    /\ rel[p].pc = "mark"
    /\ WriteEntry(rel[p].id, e)
    /\ rel' = [rel EXCEPT ![p].pc = "probe", ![p].ent = e]
    /\ UNCHANGED <<now, gone, dirs, trash, gen, fate>>

\* Mutant of ReleaseProbe: no test for a name collision.
ReleaseProbeNone(p) ==
    /\ rel[p].pc = "probe"
    /\ rel' = [rel EXCEPT ![p].pc = "dbmove", ![p].until = now]
    /\ UNCHANGED storeVars

\* A name collision costs one second and moves the timestamp by one; the new
\* name is not looked up again.
ReleaseProbe(p) ==
    LET taken == gone[<<rel[p].id, rel[p].ts>>] # NoEntry IN
    /\ rel[p].pc = "probe"
    /\ rel' = [rel EXCEPT ![p].pc = "dbmove",
                          ![p].ts = IF taken THEN @ + 1 ELSE @,
                          ![p].until = IF taken THEN now + 1 ELSE now]
    /\ UNCHANGED storeVars

\* The entry is renamed; if it is gone the command fails.
ReleaseDbMove(p) ==
    LET i == rel[p].id IN
    /\ rel[p].pc = "dbmove"
    /\ now >= rel[p].until
    /\ IF live[i] = NoEntry
       THEN /\ rel' = [rel EXCEPT ![p] = RelIdle]
            /\ UNCHANGED <<live, gone, fate>>
       ELSE /\ MoveEntry(i, <<i, rel[p].ts>>)
            /\ SetFate(rel[p].ent.dir, IF rel[p].purge THEN "purged" ELSE "released",
                       rel[p].ent.released)
            /\ rel' = [rel EXCEPT ![p].pc = IF rel[p].purge THEN "purge"
                                            ELSE "dirmove",
                                  ![p].until = now]
    /\ UNCHANGED <<now, dirs, trash, gen>>

\* Mutant of ReleaseDirMove: the timestamp is taken anew for the directory.
ReleaseDirMoveNewStamp(p) ==
    /\ rel[p].pc = "dirmove"
    /\ TryMoveDir(rel[p].ent.dir, <<rel[p].id, now>>)
    /\ rel' = [rel EXCEPT ![p] = RelIdle]
    /\ UNCHANGED <<now, live, gone, gen, fate>>

\* The directory is renamed to the name of the entry.
ReleaseDirMove(p) ==
    /\ rel[p].pc = "dirmove"
    /\ TryMoveDir(rel[p].ent.dir, <<rel[p].id, rel[p].ts>>)
    /\ rel' = [rel EXCEPT ![p] = RelIdle]
    /\ UNCHANGED <<now, live, gone, gen, fate>>

\* --delete-data: rmtree_below() and remove() of the directory.  An error is
\* logged and leaves remnants.
ReleasePurge(p, finished) ==
    LET d == rel[p].ent.dir IN
    /\ rel[p].pc = "purge"
    /\ dirs' = [dirs EXCEPT ![d] = IF dirs[d] = NoDir \/ finished THEN NoDir
                                   ELSE [tok |-> 0, mtime |-> now]]
    /\ rel' = [rel EXCEPT ![p].pc = "forget"]
    /\ UNCHANGED <<now, live, gone, trash, gen, fate>>

\* --delete-data: the deleted entry is removed.
ReleaseForget(p) ==
    /\ rel[p].pc = "forget"
    /\ gone' = [gone EXCEPT ![<<rel[p].id, rel[p].ts>>] = NoEntry]
    /\ rel' = [rel EXCEPT ![p] = RelIdle]
    /\ UNCHANGED <<now, live, dirs, trash, gen, fate>>

\* The process dies (for instance by ctrl-c) between two file operations.
ReleaseCrash(p) ==
    /\ rel[p].pc # "idle"
    /\ rel' = [rel EXCEPT ![p] = RelIdle]
    /\ UNCHANGED storeVars
=============================================================================
