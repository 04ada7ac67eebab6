----------------------------- MODULE WsAllocate -----------------------------
(***************************************************************************)
(* ws_allocate: create a workspace (directory first, database entry        *)
(* second) or extend one (read the entry, write it back).  A command runs  *)
(* in one of the sessions Procs; between two of its file operations any    *)
(* other tool may run.                                                     *)
(***************************************************************************)
EXTENDS WsStore

CONSTANTS
    Owner,              \* [Ids -> users], the <user> part of an id
    OnBehalf,           \* pairs <<id, dir>> of "ws_allocate -u user" run by root
    Durations,          \* durations a caller may ask for (already validated)
    MaxExtensions,      \* maxextensions of the filesystem
    MaxUserWorkspaces,  \* maxuserworkspaces, 0: no limit
    MaxAlloc            \* a creation takes at most this long (assumption)

ASSUME AllocateAssumption ==
    /\ Owner \in [Ids -> {Owner[i] : i \in Ids}]
    /\ OnBehalf \subseteq Ids \X Ids
    /\ Durations \subseteq Nat
    /\ MaxExtensions \in Nat
    /\ MaxUserWorkspaces \in Nat
    /\ MaxAlloc \in Nat

VARIABLE alloc   \* [Procs -> state of the ws_allocate running there]

\* pc: "mkdir" (no entry was found), "entry" (directory made at time `since'),
\* "extend" (entry `ent' was read).
AllocState == [pc : {"idle", "mkdir", "entry", "extend"}, id : Ids \cup {NoEntry},
               dir : Ids \cup {NoEntry}, since : Nat, ent : Entry \cup {NoEntry}]

AllocIdle == [pc |-> "idle", id |-> NoEntry, dir |-> NoEntry, since |-> 0,
              ent |-> NoEntry]

AllocTypeOK ==
    /\ alloc \in [Procs -> AllocState]
    /\ \A p \in Procs :
        /\ alloc[p].pc # "idle" => alloc[p].id \in Ids /\ alloc[p].dir \in Ids
        /\ alloc[p].pc = "extend" => alloc[p].ent \in Entry

AllocInit == alloc = [p \in Procs |-> AllocIdle]

\* countWorkspaces(): the entries of the calling user.
CountWorkspaces(i) ==
    Cardinality({j \in Ids : live[j] # NoEntry /\ Owner[j] = Owner[i]})

\* The limit as the code tests it.
TooManyWorkspaces(i) ==
    MaxUserWorkspaces > 0 /\ CountWorkspaces(i) > MaxUserWorkspaces

\* The ids a creation may use: the caller's own, or, for root with -u, the
\* directory of the user and the entry of root.
Targets == {<<i, i>> : i \in Ids} \cup OnBehalf

\* Existence check of allocate(): the entry looked for is the one of the user
\* the workspace is for.  (An existing entry without -x is just reported.)
AllocLookup(p, i, d) ==
    /\ alloc[p].pc = "idle"
    /\ ~TooManyWorkspaces(i)
    /\ live[d] = NoEntry
    /\ alloc' = [alloc EXCEPT ![p] = [AllocIdle EXCEPT !.pc = "mkdir", !.id = i,
                                                       !.dir = d]]
    /\ UNCHANGED storeVars

\* createWorkspace(): create_directories() accepts a directory that is already
\* there, and chown and chmod leave its modification time alone.
AllocMkdir(p) ==
    LET d == alloc[p].dir IN
    /\ alloc[p].pc = "mkdir"
    /\ IF dirs[d] = NoDir
       THEN /\ gen < MaxGen
            /\ gen' = gen + 1
            /\ dirs' = [dirs EXCEPT ![d] = [tok |-> gen + 1, mtime |-> now]]
            /\ fate' = [fate EXCEPT ![gen + 1] = [st |-> "fresh", at |-> now,
                                                  used |-> 0]]
       ELSE UNCHANGED <<gen, dirs, fate>>
    /\ alloc' = [alloc EXCEPT ![p].pc = "entry", ![p].since = now]
    /\ UNCHANGED <<now, live, gone, trash>>

\* createEntry(): the new entry is written whatever is there by now.
AllocEntry(p, dur) ==
    LET i == alloc[p].id
        d == alloc[p].dir IN
    /\ alloc[p].pc = "entry"
    /\ WriteEntry(i, [dir |-> d, exp |-> now + dur, ext |-> MaxExtensions,
                      released |-> 0, expired |-> 0])
    /\ fate' = IF dirs[d] = NoDir THEN fate
               ELSE [fate EXCEPT ![dirs[d].tok] = [st |-> "live", at |-> now,
                                                   used |-> 0]]
    /\ alloc' = [alloc EXCEPT ![p] = AllocIdle]
    /\ UNCHANGED <<now, gone, dirs, trash, gen>>

\* ws_allocate -x: the entry is read ...
ExtendRead(p, i) ==
    /\ alloc[p].pc = "idle"
    /\ ~TooManyWorkspaces(i)
    /\ live[i] # NoEntry
    /\ alloc' = [alloc EXCEPT ![p] = [AllocIdle EXCEPT !.pc = "extend", !.id = i,
                                        !.dir = live[i].dir, !.ent = live[i]]]
    /\ UNCHANGED storeVars

\* useExtension() on the entry that was read.  A new expiration later than the
\* old one costs an extension; root pays nothing; an expiration of 0 here stands
\* for -1: only mail address, reminder or comment change.
NeedsExtension(e, exp) == exp > e.exp

\* Mutant of Extended: the test for root is inverted.
ExtendedRootPays(e, exp, root) ==
    [e EXCEPT !.exp = IF exp = 0 THEN @ ELSE exp,
              !.ext = IF NeedsExtension(e, exp) /\ root THEN @ - 1 ELSE @]

Extended(e, exp, root) ==
    [e EXCEPT !.exp = IF exp = 0 THEN @ ELSE exp,
              !.ext = IF NeedsExtension(e, exp) /\ ~root THEN @ - 1 ELSE @]

\* Mutant of ExtendWrite: no test whether an extension is left.
ExtendWriteUnlimited(p, dur, root) ==
    LET e == alloc[p].ent
        exp == IF dur = 0 THEN 0 ELSE now + dur IN
    /\ alloc[p].pc = "extend"
    /\ WriteEntry(alloc[p].id, Extended(e, exp, root))
    /\ alloc' = [alloc EXCEPT ![p] = AllocIdle]
    /\ UNCHANGED <<now, gone, dirs, trash, gen, fate>>

\* ... and written back, unless the user has no extension left.
ExtendWrite(p, dur, root) ==
    LET e == alloc[p].ent
        exp == IF dur = 0 THEN 0 ELSE now + dur
        tok == IF dirs[e.dir] = NoDir THEN 0 ELSE dirs[e.dir].tok
        paid == NeedsExtension(e, exp) /\ ~root IN
    /\ alloc[p].pc = "extend"
    /\ IF paid /\ e.ext = 0
       THEN UNCHANGED <<live, fate>>
       ELSE /\ WriteEntry(alloc[p].id, Extended(e, exp, root))
            /\ fate' = IF paid THEN [fate EXCEPT ![tok].used = @ + 1] ELSE fate
    /\ alloc' = [alloc EXCEPT ![p] = AllocIdle]
    /\ UNCHANGED <<now, gone, dirs, trash, gen>>

\* The process dies between two of its file operations.
AllocCrash(p) ==
    /\ alloc[p].pc # "idle"
    /\ alloc' = [alloc EXCEPT ![p] = AllocIdle]
    /\ UNCHANGED storeVars
=============================================================================
