---------------------------- MODULE WsFull_proofs ----------------------------
(***************************************************************************)
(* FullSafe of WsFullInvariant is inductive as long as nobody edits: for   *)
(* all sessions, ids, clock bounds and durations, ws_restore may run       *)
(* beside the other tools as FullConfig says.  The safety properties of    *)
(* WsFull follow from it.                                                  *)
(***************************************************************************)
EXTENDS WsFullInvariant, WsSystem_safety

-----------------------------------------------------------------------------
(* What the configuration excludes.                                        *)

\* While a ws_restore onto a target runs, nothing else does.
LEMMA ReplaceAlone ==
    ASSUME FullConfig, Admitted, NEW r \in Restorers, rst[r].pc # "idle",
           rst[r].tool = "replace"
    PROVE  /\ \A p \in Procs : alloc[p].pc = "idle" /\ rel[p].pc = "idle"
           /\ xpc = "idle"
           /\ \A s \in Restorers \ {r} : rst[s].pc = "idle"
  <1>1. \A t \in Tools \cup {"restore", "wipe", "replace"} : {"replace", t} \notin Joint
    BY DEF FullConfig, Tools
  <1>2. \A t \in OldRunning : t \in Tools
    BY ToolTypes DEF OldRunning, Tools
  <1>3. OldRunning = {}
    BY <1>1, <1>2 DEF Admitted
  <1>4. \A s \in Restorers \ {r} : rst[s].pc # "idle" => {"replace", rst[s].tool} \in Joint
    BY DEF Admitted
  <1>5. \A t : {"replace", t} \notin Joint
    BY DEF FullConfig, Tools
  <1> QED  BY <1>3, <1>4, <1>5 DEF OldRunning

\* While data is wiped, neither a ws_release nor the second phase of the expirer
\* runs, and no other ws_restore but one that wipes, too.
LEMMA WipeAlone ==
    ASSUME FullConfig, RestoreTypeOK, Admitted, NEW r \in Restorers, rst[r].pc # "idle",
           rst[r].tool = "wipe"
    PROVE  /\ \A p \in Procs : rel[p].pc = "idle"
           /\ xpc \notin ExpirePhase
           /\ \A s \in Restorers \ {r} : rst[s].pc # "idle" => rst[s].tool = "wipe"
  <1>1. \A t \in {"release", "expire", "restore", "replace"} : {"wipe", t} \notin Joint
    BY DEF FullConfig, Tools
  <1>2. "release" \notin OldRunning /\ "expire" \notin OldRunning
    <2>1. \A t \in OldRunning : {"wipe", t} \in Joint
      BY DEF Admitted
    <2> QED  BY <1>1, <2>1
  <1>3. \A p \in Procs : rel[p].pc = "idle"
    BY <1>2 DEF OldRunning
  <1>4. xpc \notin ExpirePhase
    BY <1>2 DEF OldRunning, ExpTool, ExpirePhase
  <1>5. \A s \in Restorers \ {r} : rst[s].pc # "idle" => {"wipe", rst[s].tool} \in Joint
    BY DEF Admitted
  <1>6. \A s \in Restorers : rst[s].tool \in {"restore", "replace", "wipe"}
    BY DEF RestoreTypeOK, RstState, Restores
  <1> QED  BY <1>1, <1>3, <1>4, <1>5, <1>6

\* What runs beside a ws_restore that is not one into a subdirectory.
Alone ==
    \A r \in Restorers : rst[r].pc # "idle" =>
        /\ rst[r].tool = "replace" =>
            /\ \A p \in Procs : alloc[p].pc = "idle" /\ rel[p].pc = "idle"
            /\ xpc = "idle"
            /\ \A s \in Restorers \ {r} : rst[s].pc = "idle"
        /\ rst[r].tool = "wipe" =>
            /\ \A p \in Procs : rel[p].pc = "idle"
            /\ xpc \notin ExpirePhase
            /\ \A s \in Restorers \ {r} : rst[s].pc # "idle" => rst[s].tool = "wipe"

\* The configuration and what is admitted say so.
LEMMA Excluded == FullConfig /\ RestoreTypeOK /\ Admitted => Alone
  BY ReplaceAlone, WipeAlone DEF Alone

-----------------------------------------------------------------------------
(* What the steps of the other tools do to data.                           *)

\* Nothing moves and nothing is promised.
Quiet ==
    /\ UNCHANGED <<dirs, trash, gen>>
    /\ \A g \in 0 .. MaxGen : fate'[g].st = fate[g].st /\ fate'[g].at = fate[g].at

\* The data of one directory, and of no other, has a new history.
FateOf(g) == \A h \in 0 .. MaxGen \ {g} : fate'[h] = fate[h]

\* ws_allocate makes directory i.
Made(i) ==
    /\ dirs[i] = NoDir /\ dirs'[i] # NoDir /\ dirs'[i].tok = gen + 1
    /\ \A j \in Ids \ {i} : dirs'[j] = dirs[j]
    /\ gen < MaxGen /\ gen' = gen + 1
    /\ fate'[gen + 1].st = "fresh" /\ FateOf(gen + 1)
    /\ UNCHANGED trash

\* ws_allocate tells the user about directory i.
Handed(i) ==
    /\ dirs[i] # NoDir
    /\ fate'[dirs[i].tok].st = "live" /\ FateOf(dirs[i].tok)
    /\ UNCHANGED <<dirs, trash, gen>>

\* The entry of workspace i is moved to the deleted ones.
Ended(i) ==
    /\ dirs[i] # NoDir
    /\ fate[dirs[i].tok].st = "live"
    /\ fate'[dirs[i].tok].st \in {"released", "expired", "purged"} /\ FateOf(dirs[i].tok)
    /\ UNCHANGED <<dirs, trash, gen>>

\* Directory i follows its entry, to name n.
Moved(i, n) ==
    /\ dirs[i] # NoDir /\ dirs'[i] = NoDir
    /\ \A j \in Ids \ {i} : dirs'[j] = dirs[j]
    /\ trash[n] = NoDir /\ trash'[n] = dirs[i]
    /\ \A m \in Names \ {n} : trash'[m] = trash[m]
    /\ fate[dirs[i].tok].st \in {"released", "expired"}
    /\ \/ \E p \in Procs : rel[p].pc = "dirmove" /\ n = <<rel[p].id, rel[p].ts>>
       \/ xpc = "dirmove" /\ n = xcur
    /\ UNCHANGED <<fate, gen>>

\* ws_expirer removes the deleted directory n, all of it or in part.
Removed(n) ==
    /\ trash'[n] = NoDir \/ (trash[n] # NoDir /\ trash'[n] # NoDir /\ trash'[n].tok = 0)
    /\ \A m \in Names \ {n} : trash'[m] = trash[m]
    /\ trash[n] # NoDir /\ trash[n].tok # 0 => KeptLongEnough(trash[n].tok)
    /\ UNCHANGED <<dirs, fate, gen>>

\* ws_release --delete-data removes directory i.
Purged(i) ==
    /\ dirs[i] # NoDir /\ dirs'[i] = NoDir
    /\ \A j \in Ids \ {i} : dirs'[j] = dirs[j]
    /\ fate[dirs[i].tok].st = "purged"
    /\ UNCHANGED <<trash, fate, gen>>

DataStep ==
    \/ Quiet
    \/ \E i \in Ids : Made(i) \/ Handed(i) \/ Ended(i) \/ Purged(i)
    \/ \E i \in Ids, n \in Names : Moved(i, n)
    \/ \E n \in Names : Removed(n)

\* Directories hold data that was made.
LEMMA TokenTypes ==
    ASSUME Safe
    PROVE  /\ gen \in Nat /\ gen \in 0 .. MaxGen /\ MaxGen \in Nat /\ now \in Nat
           /\ \A i \in Ids : dirs[i] # NoDir => dirs[i].tok \in 1 .. gen /\ dirs[i].tok \in 1 .. MaxGen
           /\ \A n \in Names : trash[n] # NoDir => trash[n].tok \in 0 .. gen /\ trash[n].tok \in 0 .. MaxGen
           /\ \A g \in 1 .. gen : g \in 1 .. MaxGen /\ g \in 0 .. MaxGen /\ g # 0
  BY StoreAssumption DEF Safe, TypeOK, StoreTypeOK, Tokens

\* What a creation does to data.
LEMMA AllocateData == ASSUME Safe, AllocateStep PROVE DataStep
  <1> USE DEF Safe
  <1>1. PICK p \in Procs :
            \/ \E w \in Targets : AllocLookup(p, w[1], w[2])
            \/ AllocMkdir(p)
            \/ \E dur \in Durations : AllocEntry(p, dur)
    BY DEF AllocateStep
  <1>2. CASE \E w \in Targets : AllocLookup(p, w[1], w[2])
    BY <1>2 DEF AllocLookup, storeVars, DataStep, Quiet
  <1>3. CASE AllocMkdir(p)
    <2> DEFINE d == alloc[p].dir
    <2>1. d \in Ids
      BY <1>3 DEF AllocMkdir, TypeOK, AllocTypeOK
    <2>2. CASE dirs[d] = NoDir
      <3>1. /\ gen < MaxGen /\ gen' = gen + 1 /\ trash' = trash
            /\ dirs' = [dirs EXCEPT ![d] = [tok |-> gen + 1, mtime |-> now]]
            /\ fate' = [fate EXCEPT ![gen + 1] = [st |-> "fresh", at |-> now, used |-> 0]]
        BY <1>3, <2>2 DEF AllocMkdir
      <3>2. gen + 1 \in 0 .. MaxGen /\ gen + 1 \in 1 .. MaxGen
        BY <3>1, TokenTypes
      <3>3. [tok |-> gen + 1, mtime |-> now] # NoDir
        BY <3>2, StoreAssumption DEF Dir, TypeOK, StoreTypeOK
      <3>4. Made(d)
        BY <2>1, <2>2, <3>1, <3>2, <3>3 DEF Made, FateOf, TypeOK, StoreTypeOK
      <3> QED  BY <2>1, <3>4 DEF DataStep
    <2>3. CASE dirs[d] # NoDir
      BY <1>3, <2>3 DEF AllocMkdir, DataStep, Quiet
    <2> QED  BY <2>2, <2>3
  <1>4. ASSUME NEW dur \in Durations, AllocEntry(p, dur)
        PROVE  DataStep
    <2> DEFINE d == alloc[p].dir
    <2>1. d \in Ids
      BY <1>4 DEF AllocEntry, TypeOK, AllocTypeOK
    <2>2. CASE dirs[d] # NoDir
      <3>1. /\ UNCHANGED <<dirs, trash, gen>>
            /\ fate' = [fate EXCEPT ![dirs[d].tok] = [st |-> "live", at |-> now, used |-> 0]]
        BY <1>4, <2>2 DEF AllocEntry
      <3>2. Handed(d)
        BY <2>1, <2>2, <3>1, TokenTypes DEF Handed, FateOf, TypeOK, StoreTypeOK
      <3> QED  BY <2>1, <3>2 DEF DataStep
    <2>3. CASE dirs[d] = NoDir
      BY <1>4, <2>3 DEF AllocEntry, DataStep, Quiet
    <2> QED  BY <2>2, <2>3
  <1> QED  BY <1>1, <1>2, <1>3, <1>4

\* An extension does nothing to data.
LEMMA ExtendData == ASSUME Safe, ExtendStep PROVE DataStep
  <1> USE DEF Safe
  <1>1. PICK p \in Procs :
            \/ \E i \in Ids : ExtendRead(p, i)
            \/ \E dur \in Durations \cup {0}, root \in BOOLEAN : ExtendWrite(p, dur, root)
    BY DEF ExtendStep
  <1>2. CASE \E i \in Ids : ExtendRead(p, i)
    BY <1>2 DEF ExtendRead, storeVars, DataStep, Quiet
  <1>3. ASSUME NEW dur \in Durations \cup {0}, NEW root \in BOOLEAN, ExtendWrite(p, dur, root)
        PROVE  DataStep
    <2> DEFINE e == alloc[p].ent
               tok == IF dirs[e.dir] = NoDir THEN 0 ELSE dirs[e.dir].tok
    <2>1. fate' = fate \/ fate' = [fate EXCEPT ![tok].used = @ + 1]
      BY <1>3 DEF ExtendWrite
    <2> HIDE DEF tok
    <2>2. \A g \in 0 .. MaxGen : fate'[g].st = fate[g].st /\ fate'[g].at = fate[g].at
      <3> SUFFICES ASSUME NEW g \in 0 .. MaxGen
                   PROVE  fate'[g].st = fate[g].st /\ fate'[g].at = fate[g].at
        OBVIOUS
      <3>1. fate'[g] = fate[g] \/ fate'[g] = [fate[g] EXCEPT !.used = @ + 1]
        BY <2>1 DEF TypeOK, StoreTypeOK
      <3>2. fate[g] \in Fate
        BY DEF TypeOK, StoreTypeOK
      <3> QED  BY <3>1, <3>2 DEF Fate
    <2> QED  BY <1>3, <2>2 DEF ExtendWrite, DataStep, Quiet
  <1> QED  BY <1>1, <1>2, <1>3

\* What a release does to data.
LEMMA ReleaseData == ASSUME Safe, ReleaseStep PROVE DataStep
  <1> USE DEF Safe
  <1>1. PICK p \in Procs :
            \/ \E i \in Ids, purge \in BOOLEAN : ReleaseRead(p, i, purge)
            \/ ReleaseMark(p)
            \/ ReleaseProbe(p)
            \/ ReleaseDbMove(p)
            \/ ReleaseDirMove(p)
            \/ ReleasePurge(p, TRUE)
            \/ ReleaseForget(p)
    BY DEF ReleaseStep, SafeConfig
  <1> DEFINE d == rel[p].ent.dir
             n == <<rel[p].id, rel[p].ts>>
  <1>2. rel[p].pc # "idle" => d \in Ids /\ n \in Names
    BY RelMine DEF Entry
  <1>3. CASE \/ \E i \in Ids, purge \in BOOLEAN : ReleaseRead(p, i, purge)
             \/ ReleaseMark(p)
             \/ ReleaseProbe(p)
             \/ ReleaseForget(p)
    BY <1>3 DEF ReleaseRead, ReleaseMark, ReleaseProbe, ReleaseForget, storeVars, DataStep, Quiet
  <1>4. CASE ReleaseDbMove(p)
    <2> DEFINE i == rel[p].id
               st == IF rel[p].purge THEN "purged" ELSE "released"
    <2>1. i \in Ids /\ live[i] = rel[p].ent /\ live[i] # NoEntry
      BY <1>4, RelMine DEF ReleaseDbMove, RelOK, ReleaseOK
    <2>2. d = i /\ dirs[i] # NoDir /\ fate[dirs[i].tok].st = "live"
      BY <2>1 DEF LiveOK
    <2>3. /\ UNCHANGED <<dirs, trash, gen>>
          /\ fate' = [fate EXCEPT ![dirs[i].tok] =
                [st |-> st, at |-> rel[p].ent.released, used |-> fate[dirs[i].tok].used]]
      BY <1>4, <2>1, <2>2 DEF ReleaseDbMove, SetFate
    <2>4. st \in {"released", "purged"}
      OBVIOUS
    <2> HIDE DEF st
    <2>5. Ended(i)
      BY <2>1, <2>2, <2>3, <2>4, TokenTypes DEF Ended, FateOf, TypeOK, StoreTypeOK
    <2> QED  BY <2>1, <2>5 DEF DataStep
  <1>5. CASE ReleaseDirMove(p)
    <2>1. rel[p].pc = "dirmove" /\ TryMoveDir(d, n) /\ UNCHANGED <<fate, gen>>
      BY <1>5 DEF ReleaseDirMove
    <2>2. d = rel[p].id /\ dirs[d] # NoDir /\ trash[n] = NoDir /\ fate[dirs[d].tok].st = "released"
      BY <2>1 DEF RelOK, ReleaseOK
    <2>3. Moved(d, n)
      BY <1>2, <2>1, <2>2 DEF Moved, TryMoveDir, TypeOK, StoreTypeOK
    <2> QED  BY <1>2, <2>1, <2>3 DEF DataStep
  <1>6. CASE ReleasePurge(p, TRUE)
    <2>1. rel[p].pc = "purge" /\ dirs' = [dirs EXCEPT ![d] = NoDir] /\ UNCHANGED <<trash, fate, gen>>
      BY <1>6 DEF ReleasePurge
    <2>2. d = rel[p].id /\ (dirs[d] # NoDir => fate[dirs[d].tok].st = "purged")
      BY <2>1 DEF RelOK, ReleaseOK
    <2>3. CASE dirs[d] = NoDir
      <3>1. dirs' = dirs
        BY <1>2, <2>1, <2>3 DEF TypeOK, StoreTypeOK
      <3> QED  BY <2>1, <3>1 DEF DataStep, Quiet
    <2>4. CASE dirs[d] # NoDir
      <3>1. Purged(d)
        BY <1>2, <2>1, <2>2, <2>4 DEF Purged, TypeOK, StoreTypeOK
      <3> QED  BY <1>2, <2>1, <3>1 DEF DataStep
    <2> QED  BY <2>3, <2>4
  <1> QED  BY <1>1, <1>3, <1>4, <1>5, <1>6

\* Removing a deleted directory without an entry.
LEMMA RemoveData ==
    ASSUME Safe, NEW n \in Names, NEW finished \in BOOLEAN, Rmtree(n, finished),
           gone[n] = NoEntry, UNCHANGED <<dirs, fate, gen>>
    PROVE  DataStep
  <1> USE DEF Safe
  <1>1. /\ \A m \in Names \ {n} : trash'[m] = trash[m]
        /\ trash'[n] # NoDir => trash[n] # NoDir /\ trash'[n].tok = 0
    BY DEF Rmtree, TypeOK, StoreTypeOK
  <1>2. trash[n] # NoDir /\ trash[n].tok # 0 => KeptLongEnough(trash[n].tok)
    BY DEF TrashKept, Matches
  <1>3. Removed(n)
    BY <1>1, <1>2 DEF Removed
  <1> QED  BY <1>3 DEF DataStep

\* What clean_stray_directories() does to data.
LEMMA StrayData == ASSUME Safe, StrayStep PROVE DataStep
  <1> USE DEF Safe
  <1>1. ASSUME NEW n \in Names, NEW finished \in BOOLEAN, TrashRemove(n, finished)
        PROVE  DataStep
    BY <1>1, RemoveData DEF TrashRemove, Swept
  <1>2. CASE \/ StrayList \/ StraySnapshot \/ StrayNoDatabase \/ TrashList
             \/ TrashSnapshot \/ StrayEnd \/ \E d \in Ids : StrayStat(d)
    BY <1>2 DEF StrayList, StraySnapshot, StrayNoDatabase, TrashList, TrashSnapshot, StrayEnd,
                StrayStat, storeVars, DataStep, Quiet
  <1>3. ~StrayMove
    BY DEF StrayMove, ScanYoung
  <1> QED  BY <1>1, <1>2, <1>3 DEF StrayStep

\* What expire_workspaces() does to data.
LEMMA ExpireData == ASSUME Safe, ExpireStep PROVE DataStep
  <1> USE DEF Safe
  <1>1. CASE \/ ExpireList \/ ExpireNoDatabase \/ ExpireWrite \/ DeleteList \/ ExpireEnd
             \/ \E i \in Ids : ExpireSkip(i) \/ ExpireChoose(i)
             \/ \E n \in Names : DeleteKeep(n) \/ DeleteEntry(n)
    BY <1>1 DEF ExpireList, ExpireNoDatabase, ExpireWrite, DeleteList, ExpireEnd, ExpireSkip,
                ExpireChoose, DeleteKeep, DeleteEntry, storeVars, DataStep, Quiet
  <1>2. CASE ExpireDbMove
    <2> DEFINE i == xcur[1]
    <2>1. i \in Ids /\ live[i] = xent /\ live[i] # NoEntry /\ xent.dir = i
      BY <1>2, NamePair, StoreAssumption DEF ExpireDbMove, ExpOK, TypeOK, ExpTypeOK
    <2>2. dirs[i] # NoDir /\ fate[dirs[i].tok].st = "live"
      BY <2>1 DEF LiveOK
    <2>3. /\ UNCHANGED <<dirs, trash, gen>>
          /\ fate' = [fate EXCEPT ![dirs[i].tok] =
                [st |-> "expired", at |-> xent.expired, used |-> fate[dirs[i].tok].used]]
      BY <1>2, <2>1, <2>2 DEF ExpireDbMove, SetFate
    <2>4. Ended(i)
      BY <2>1, <2>2, <2>3, TokenTypes DEF Ended, FateOf, TypeOK, StoreTypeOK
    <2> QED  BY <2>1, <2>4 DEF DataStep
  <1>3. CASE ExpireDirMove
    <2> DEFINE d == xent.dir
    <2>1. /\ xpc = "dirmove" /\ TryMoveDir(d, <<d, xcur[2]>>) /\ UNCHANGED <<fate, gen>>
      BY <1>3 DEF ExpireDirMove
    <2>2. /\ d = xcur[1] /\ dirs[d] # NoDir /\ trash[xcur] = NoDir
          /\ fate[dirs[d].tok].st = "expired"
      BY <2>1 DEF ExpOK
    <2>3. xcur \in Names /\ d \in Ids /\ <<d, xcur[2]>> = xcur
      BY <2>1, <2>2, NamePair DEF TypeOK, ExpTypeOK
    <2>4. Moved(d, xcur)
      BY <2>1, <2>2, <2>3 DEF Moved, TryMoveDir, TypeOK, StoreTypeOK
    <2> QED  BY <2>3, <2>4 DEF DataStep
  <1>4. ASSUME NEW finished \in BOOLEAN, DeleteTree(finished)
        PROVE  DataStep
    BY <1>4, RemoveData DEF DeleteTree, Swept, TypeOK, ExpTypeOK
  <1> QED  BY <1>1, <1>2, <1>3, <1>4 DEF ExpireStep

\* What any step of the tools of WsSystem does to data.
LEMMA DataSteps ==
    ASSUME Safe, [Next]_vars
    PROVE  DataStep /\ (now' = now \/ (UNCHANGED disk /\ gen' = gen /\ fate' = fate /\ now' = now + 1))
  <1>1. ~CrashStep
    BY DEF Safe, SafeConfig, CrashStep
  <1>2. CASE Tick
    BY <1>2 DEF Tick, disk, DataStep, Quiet
  <1>3. CASE UNCHANGED vars
    BY <1>3 DEF vars, storeVars, DataStep, Quiet
  <1>4. CASE AllocateStep \/ ExtendStep \/ ReleaseStep \/ StrayStep \/ ExpireStep
    <2>1. now' = now
      BY <1>4 DEF AllocateStep, ExtendStep, ReleaseStep, StrayStep, ExpireStep, storeVars,
           AllocLookup, AllocMkdir, AllocEntry, ExtendRead, ExtendWrite,
           ReleaseRead, ReleaseMark, ReleaseProbe, ReleaseDbMove, ReleaseDirMove, ReleasePurge,
           ReleaseForget, StrayList, StraySnapshot, StrayNoDatabase, StrayStat, StrayMove,
           TrashList, TrashSnapshot, TrashRemove, StrayEnd,
           ExpireList, ExpireNoDatabase, ExpireSkip, ExpireChoose, ExpireWrite, ExpireDbMove,
           ExpireDirMove, DeleteList, DeleteKeep, DeleteEntry, DeleteTree, ExpireEnd
    <2> QED  BY <1>4, <2>1, AllocateData, ExtendData, ReleaseData, StrayData, ExpireData
  <1> QED  BY <1>1, <1>2, <1>3, <1>4 DEF Next

-----------------------------------------------------------------------------
(* What the steps of the other tools do to names.                          *)

\* A ws_release takes a name that is free, in the present or later than it was
\* called, and keeps it to its end.
LEMMA RelNames ==
    ASSUME Safe, [Next]_vars, NEW p \in Procs
    PROVE  \/ rel'[p] = rel[p]
           \/ rel'[p].pc = "idle"
           \/ rel[p].pc = "idle" /\ rel'[p].pc = "mark" /\ rel'[p].ts = now /\ now' = now
           \/ /\ rel[p].pc = "mark" /\ rel'[p].pc = "probe" /\ now' = now
              /\ rel'[p].id = rel[p].id /\ rel'[p].ts = rel[p].ts
           \/ /\ rel[p].pc = "probe" /\ rel'[p].pc = "dbmove" /\ rel'[p].id = rel[p].id
              /\ rel'[p].ts = rel[p].ts
              /\ gone[<<rel[p].id, rel[p].ts>>] = NoEntry
           \/ /\ rel[p].pc = "probe" /\ rel'[p].pc = "dbmove" /\ rel'[p].id = rel[p].id
              /\ rel'[p].ts = rel[p].ts + 1
              /\ gone[<<rel[p].id, rel[p].ts + 1>>] = NoEntry
           \/ /\ rel[p].pc \in {"dbmove", "purge"} /\ rel'[p].pc \in {"dirmove", "purge", "forget"}
              /\ rel'[p].id = rel[p].id /\ rel'[p].ts = rel[p].ts
  <1> USE DEF Safe
  <1>1. CASE rel' = rel
    BY <1>1
  <1>2. CASE ReleaseStep
    <2>1. rel \in [Procs -> RelState]
      BY DEF TypeOK, RelTypeOK
    <2>2. PICK q \in Procs :
            \/ \E i \in Ids, purge \in BOOLEAN : ReleaseRead(q, i, purge)
            \/ ReleaseMark(q)
            \/ ReleaseProbe(q)
            \/ ReleaseDbMove(q)
            \/ ReleaseDirMove(q)
            \/ \E finished \in BOOLEAN : ReleasePurge(q, finished)
            \/ ReleaseForget(q)
      BY <1>2 DEF ReleaseStep
    <2>3. CASE q # p
      BY <2>1, <2>2, <2>3 DEF ReleaseRead, ReleaseMark, ReleaseProbe, ReleaseDbMove, ReleaseDirMove,
                              ReleasePurge, ReleaseForget
    <2>4. CASE q = p /\ \E i \in Ids, purge \in BOOLEAN : ReleaseRead(p, i, purge)
      BY <2>1, <2>4 DEF ReleaseRead, storeVars
    <2>5. CASE q = p /\ ReleaseMark(p)
      BY <2>1, <2>5 DEF ReleaseMark, RelState
    <2>6. CASE q = p /\ ReleaseProbe(p)
      <3>1. /\ rel[p].pc = "probe"
            /\ rel' = [rel EXCEPT ![p].pc = "dbmove", ![p].ts = rel'[p].ts, ![p].until = rel'[p].until]
            /\ gone[<<rel[p].id, rel[p].ts>>] = NoEntry => rel'[p].ts = rel[p].ts
            /\ gone[<<rel[p].id, rel[p].ts>>] # NoEntry => rel'[p].ts = rel[p].ts + 1
        BY <2>1, <2>6 DEF ReleaseProbe, RelState
      <3>2. rel[p].ts \in Stamps /\ rel[p].ts =< MaxTime
        BY <3>1 DEF TypeOK, RelTypeOK, RelState
      <3>3. rel[p].ts + 1 \in Stamps /\ rel[p].ts + 1 > rel[p].ts
        BY <3>2, StampFacts, StoreAssumption DEF Stamps
      <3>4. gone[<<rel[p].id, rel[p].ts + 1>>] = NoEntry
        BY <3>1, <3>3 DEF RelOK, ReleaseOK
      <3> QED  BY <2>1, <3>1, <3>4 DEF RelState
    <2>7. CASE q = p /\ (ReleaseDirMove(p) \/ ReleaseForget(p))
      BY <2>1, <2>7 DEF ReleaseDirMove, ReleaseForget, RelIdle
    <2>8. CASE q = p /\ (ReleaseDbMove(p) \/ \E finished \in BOOLEAN : ReleasePurge(p, finished))
      BY <2>1, <2>8 DEF ReleaseDbMove, ReleasePurge, RelIdle, RelState
    <2> QED  BY <2>2, <2>3, <2>4, <2>5, <2>6, <2>7, <2>8
  <1>3. ~CrashStep
    BY DEF SafeConfig, CrashStep
  <1> QED  BY <1>1, <1>2, <1>3 DEF Next, AllocateStep, ExtendStep, StrayStep, ExpireStep, Tick, vars

\* expire() takes a name that is free and does not lie in the past.
LEMMA ExpNames ==
    ASSUME Safe, [Next]_vars, xpc' \in {"write", "dbmove", "dirmove"}
    PROVE  \/ xpc \in {"write", "dbmove", "dirmove"} /\ xcur' = xcur
           \/ xpc = "expire" /\ gone[xcur'] = NoEntry /\ xcur'[2] >= now
  <1> USE DEF Safe
  <1>1. CASE StrayStep
    <2>1. ~StrayMove
      BY DEF StrayMove, ScanYoung
    <2> QED  BY <1>1, <2>1 DEF StrayStep, StrayList, StraySnapshot, StrayNoDatabase, StrayStat,
                TrashList, TrashSnapshot, TrashRemove, StrayEnd
  <1>2. CASE \E i \in Ids : ExpireChoose(i)
    <2>1. PICK i \in Ids : ExpireChoose(i)
      BY <1>2
    <2>2. PICK t \in FreeStamps(i) : xcur' = <<i, t>> /\ xpc = "expire"
      BY <2>1 DEF ExpireChoose
    <2> QED  BY <2>2, TokenTypes DEF FreeStamps
  <1>3. CASE ExpireStep /\ ~\E i \in Ids : ExpireChoose(i)
    BY <1>3 DEF ExpireStep, ExpireList, ExpireNoDatabase, ExpireSkip, ExpireWrite, ExpireDbMove,
          ExpireDirMove, DeleteList, DeleteKeep, DeleteEntry, DeleteTree, ExpireEnd
  <1>4. ~CrashStep
    BY DEF SafeConfig, CrashStep
  <1>5. CASE UNCHANGED expVars
    BY <1>5 DEF expVars
  <1> QED  BY <1>1, <1>2, <1>3, <1>4, <1>5
           DEF Next, AllocateStep, ExtendStep, ReleaseStep, Tick, vars

\* A deleted entry is removed by the ws_release --delete-data that made it, or by
\* the expirer after its time.
LEMMA GoneNames ==
    ASSUME Safe, [Next]_vars, NEW n \in Names, gone[n] # NoEntry, gone'[n] = NoEntry
    PROVE  \/ \E p \in Procs : rel[p].pc = "forget" /\ n = <<rel[p].id, rel[p].ts>>
           \/ /\ n[2] < now /\ now' = now
              /\ \A p \in Procs : rel[p].pc = "idle" /\ rel'[p].pc = "idle"
  <1> USE DEF Safe
  <1>0. gone \in [Names -> Entry \cup {NoEntry}] /\ live \in [Ids -> Entry \cup {NoEntry}]
    BY DEF TypeOK, StoreTypeOK
  <1>1. CASE UNCHANGED gone
    BY <1>1
  <1>2. CASE ReleaseStep
    <2>1. PICK p \in Procs :
            \/ \E i \in Ids, purge \in BOOLEAN : ReleaseRead(p, i, purge)
            \/ ReleaseMark(p)
            \/ ReleaseProbe(p)
            \/ ReleaseDbMove(p)
            \/ ReleaseDirMove(p)
            \/ \E finished \in BOOLEAN : ReleasePurge(p, finished)
            \/ ReleaseForget(p)
      BY <1>2 DEF ReleaseStep
    <2>2. CASE ReleaseDbMove(p)
      <3> DEFINE m == <<rel[p].id, rel[p].ts>>
      <3>1. gone' = gone \/ (gone' = [gone EXCEPT ![m] = live[rel[p].id]] /\ live[rel[p].id] # NoEntry)
        BY <2>2 DEF ReleaseDbMove, MoveEntry
      <3> QED  BY <1>0, <3>1
    <2>3. CASE ReleaseForget(p)
      <3>1. rel[p].pc = "forget" /\ gone' = [gone EXCEPT ![<<rel[p].id, rel[p].ts>>] = NoEntry]
        BY <2>3 DEF ReleaseForget
      <3> QED  BY <1>0, <3>1
    <2> QED  BY <1>1, <2>1, <2>2, <2>3
             DEF ReleaseRead, ReleaseMark, ReleaseProbe, ReleaseDirMove, ReleasePurge, storeVars
  <1>3. CASE ExpireStep
    <2>1. CASE ExpireDbMove
      <3>1. gone' = gone \/ (gone' = [gone EXCEPT ![xcur] = live[xcur[1]]] /\ live[xcur[1]] # NoEntry)
        BY <2>1 DEF ExpireDbMove, MoveEntry
      <3> QED  BY <1>0, <3>1
    <2>2. ASSUME NEW m \in Names, DeleteEntry(m)
          PROVE  /\ n[2] < now /\ now' = now
                 /\ \A p \in Procs : rel[p].pc = "idle" /\ rel'[p].pc = "idle"
      <3>1. gone' = [gone EXCEPT ![m] = NoEntry] /\ now' = now /\ xpc # "idle"
            /\ Due(gone[m], m[2])
        BY <2>2 DEF DeleteEntry, ShouldDelete
      <3>2. m = n
        BY <1>0, <3>1
      <3>3. n[2] < now
        BY <3>1, <3>2, DueFacts
      <3>4. \A p \in Procs : rel[p].pc = "idle"
        BY <3>1 DEF Exclusive
      <3> QED  BY <1>3, <3>1, <3>3, <3>4 DEF ExpireStep
    <2>3. CASE ~ExpireDbMove /\ ~\E m \in Names : DeleteEntry(m)
      BY <1>1, <1>3, <2>3
      DEF ExpireStep, ExpireList, ExpireNoDatabase, ExpireSkip, ExpireChoose, ExpireWrite,
          ExpireDirMove, DeleteList, DeleteKeep, DeleteTree, ExpireEnd, storeVars
    <2> QED  BY <2>1, <2>2, <2>3
  <1>4. ~CrashStep
    BY DEF SafeConfig, CrashStep
  <1>5. CASE AllocateStep \/ ExtendStep \/ StrayStep \/ Tick \/ UNCHANGED vars
    BY <1>1, <1>5
    DEF AllocateStep, AllocLookup, AllocMkdir, AllocEntry, ExtendStep, ExtendRead, ExtendWrite,
        StrayStep, StrayList, StraySnapshot, StrayNoDatabase, StrayStat, StrayMove,
        TrashList, TrashSnapshot, TrashRemove, StrayEnd, Tick, disk, vars, storeVars
  <1> QED  BY <1>2, <1>3, <1>4, <1>5 DEF Next

\* When no tool runs before and after a step, the step leaves the entries alone.
LEMMA LiveStays ==
    ASSUME Safe, [Next]_vars, xpc = "idle",
           \A p \in Procs : alloc[p].pc = "idle" /\ rel[p].pc = "idle"
    PROVE  live' = live
  <1> USE DEF Safe
  <1>1. ~CrashStep
    BY DEF SafeConfig, CrashStep
  <1>2. CASE AllocateStep \/ ExtendStep \/ ReleaseStep
    BY <1>2 DEF AllocateStep, AllocLookup, AllocMkdir, AllocEntry, ExtendStep, ExtendRead,
         ExtendWrite, ReleaseStep, ReleaseRead, ReleaseMark, ReleaseProbe, ReleaseDbMove,
         ReleaseDirMove, ReleasePurge, ReleaseForget, storeVars
  <1>3. CASE StrayStep \/ ExpireStep
    BY <1>3 DEF StrayStep, StrayList, StraySnapshot, StrayNoDatabase, StrayStat, StrayMove,
        TrashList, TrashSnapshot, TrashRemove, StrayEnd, ExpireStep, ExpireList,
        ExpireNoDatabase, ExpireSkip, ExpireChoose, ExpireWrite, ExpireDbMove,
        ExpireDirMove, DeleteList, DeleteKeep, DeleteEntry, DeleteTree, ExpireEnd, storeVars
  <1>4. CASE Tick \/ UNCHANGED vars
    BY <1>4 DEF Tick, disk, vars, storeVars
  <1> QED  BY <1>1, <1>2, <1>3, <1>4 DEF Next

-----------------------------------------------------------------------------
(* The other tools beside ws_restore.                                      *)

\* Deleted directories keep data of their own.
LEMMA TrashTokensStep ==
    ASSUME Safe, TrashTokens, DataStep
    PROVE  TrashTokens'
  <1> USE DEF TrashTokens
  <1>1. CASE UNCHANGED trash
    BY <1>1
  <1>2. ASSUME NEW i \in Ids, NEW n \in Names, Moved(i, n)
        PROVE  TrashTokens'
    <2>1. \A m \in Names \ {n} : trash[m] # NoDir => trash[m].tok # dirs[i].tok
      BY <1>2 DEF Moved, Safe, Tokens
    <2> QED  BY <1>2, <2>1 DEF Moved
  <1>3. ASSUME NEW n \in Names, Removed(n)
        PROVE  TrashTokens'
    BY <1>3 DEF Removed
  <1> QED  BY <1>1, <1>2, <1>3 DEF DataStep, Quiet, Made, Handed, Ended, Purged

\* Restored data stays where it is.
LEMMA NestedStep ==
    ASSUME Safe, RestoreTypeOK, Nested, DataStep, UNCHANGED inside
    PROVE  Nested'
  <1> USE DEF Nested
  <1>1. /\ gen \in Nat /\ MaxGen \in Nat /\ 0 \in 0 .. MaxGen /\ inside[0] = 0
        /\ \A g \in 1 .. MaxGen : g \in 0 .. MaxGen
    BY TokenTypes
  <1>2. CASE Quiet
    BY <1>1, <1>2 DEF Quiet
  <1>3. ASSUME NEW i \in Ids, Made(i)
        PROVE  Nested'
    <2>1. gen + 1 \in 0 .. MaxGen /\ inside[gen + 1] = 0
      BY <1>1, <1>3, TokenTypes DEF Made
    <2> QED  BY <1>1, <1>3, <2>1 DEF Made, FateOf
  <1>4. ASSUME NEW i \in Ids, Handed(i) \/ Ended(i)
        PROVE  Nested'
    <2>1. dirs[i] # NoDir /\ FateOf(dirs[i].tok) /\ UNCHANGED <<dirs, trash, gen>>
      BY <1>4 DEF Handed, Ended
    <2>2. dirs[i].tok \in 1 .. gen /\ inside[dirs[i].tok] = 0
      BY <2>1, TokenTypes
    <2> QED  BY <1>1, <2>1, <2>2 DEF FateOf
  <1>5. ASSUME NEW i \in Ids, Purged(i)
        PROVE  Nested'
    BY <1>5 DEF Purged
  <1>6. ASSUME NEW i \in Ids, NEW n \in Names, Moved(i, n)
        PROVE  Nested'
    BY <1>6 DEF Moved
  <1>7. ASSUME NEW n \in Names, Removed(n)
        PROVE  Nested'
    BY <1>1, <1>7 DEF Removed
  <1> QED  BY <1>2, <1>3, <1>4, <1>5, <1>6, <1>7 DEF DataStep

\* Nobody takes the name that a ws_restore is about to forget.
LEMMA ForgettingStep ==
    ASSUME FullSafe, [Next]_vars, UNCHANGED rst, Alone', NEW r \in Restorers,
           rst[r].pc \in {"carry", "forget"}
    PROVE  Forgetting(r)'
  <1> USE DEF FullSafe
  <1> DEFINE n == rst[r].name
  <1>1. n \in Names /\ n[2] \in Nat /\ now \in Nat /\ now' \in {now, now + 1}
    BY DataSteps, TokenTypes, NamePair, StampFacts DEF RstOK, Knows
  <1>2. /\ trash[n] = NoDir
        /\ \A p \in Procs : rel[p].pc \in {"dbmove", "dirmove", "purge", "forget"} =>
                <<rel[p].id, rel[p].ts>> # n
        /\ xpc \in {"write", "dbmove", "dirmove"} => xcur # n
        /\ rst[r].tool = "restore" /\ gone[n] = NoEntry =>
            /\ n[2] < now
            /\ \A p \in Procs : rel[p].pc \in {"mark", "probe"} /\ rel[p].id = n[1] =>
                    n[2] < rel[p].ts
    BY DEF RstOK, Forgetting
  <1>3. trash'[n] = NoDir
    <2>1. \A i \in Ids : ~Moved(i, n)
      BY <1>2 DEF Moved
    <2> QED  BY <1>1, <1>2, <2>1, DataSteps
             DEF DataStep, Quiet, Made, Handed, Ended, Purged, Moved, Removed
  <1>4. ASSUME NEW p \in Procs
        PROVE  rel[p].pc # "idle" => rel[p].ts \in Nat /\ <<rel[p].id, rel[p].ts>>[1] = rel[p].id
                                       /\ <<rel[p].id, rel[p].ts>>[2] = rel[p].ts
    BY RelMine, StampFacts
  <1>5. CASE rst[r].tool = "restore"
    <2>1. ASSUME NEW p \in Procs, rel'[p].pc \in {"dbmove", "dirmove", "purge", "forget"}
          PROVE  <<rel'[p].id, rel'[p].ts>> # n
      <3>1. CASE rel[p].pc = "probe"
        <4>1. rel'[p].id = rel[p].id /\ rel'[p].ts \in {rel[p].ts, rel[p].ts + 1}
              /\ gone[<<rel'[p].id, rel'[p].ts>>] = NoEntry
          BY <2>1, <3>1, RelNames
        <4>2. ASSUME <<rel'[p].id, rel'[p].ts>> = n  PROVE FALSE
          <5>1. n[1] = rel[p].id /\ n[2] = rel'[p].ts /\ gone[n] = NoEntry
            BY <4>1, <4>2
          <5>2. n[2] < rel[p].ts
            BY <1>2, <1>5, <3>1, <5>1
          <5> QED  BY <1>1, <1>4, <3>1, <4>1, <5>1, <5>2
        <4> QED  BY <4>2
      <3>2. CASE rel[p].pc # "probe"
        BY <1>2, <2>1, <3>2, RelNames
      <3> QED  BY <3>1, <3>2
    <2>2. ASSUME xpc' \in {"write", "dbmove", "dirmove"}
          PROVE  xcur' # n
      BY <1>1, <1>2, <1>5, <2>2, ExpNames
    <2>3. ASSUME gone'[n] = NoEntry
          PROVE  /\ n[2] < now'
                 /\ \A p \in Procs : rel'[p].pc \in {"mark", "probe"} /\ rel'[p].id = n[1] =>
                        n[2] < rel'[p].ts
      <3>1. CASE gone[n] # NoEntry
        BY <1>1, <1>2, <2>3, <3>1, GoneNames
      <3>2. CASE gone[n] = NoEntry
        <4>1. n[2] < now'
          BY <1>1, <1>2, <1>5, <3>2
        <4>2. ASSUME NEW p \in Procs, rel'[p].pc \in {"mark", "probe"}, rel'[p].id = n[1]
              PROVE  n[2] < rel'[p].ts
          <5>1. CASE rel[p].pc = "idle"
            <6>1. rel'[p] = rel[p] \/ rel'[p].ts = now
              BY <4>2, <5>1, RelNames
            <6> QED  BY <1>2, <1>5, <3>2, <4>2, <5>1, <6>1
          <5>2. CASE rel[p].pc # "idle"
            <6>1. rel[p].pc \in {"mark", "probe"} /\ rel'[p].id = rel[p].id /\ rel'[p].ts = rel[p].ts
              BY <4>2, <5>2, RelNames
            <6> QED  BY <1>2, <1>5, <3>2, <4>2, <6>1
          <5> QED  BY <5>1, <5>2
        <4> QED  BY <4>1, <4>2
      <3> QED  BY <3>1, <3>2
    <2> QED  BY <1>3, <2>1, <2>2, <2>3 DEF Forgetting
  <1>6. CASE rst[r].tool # "restore"
    <2>1. rst[r].tool \in {"wipe", "replace"}
      BY <1>6 DEF RestoreTypeOK, RstState, Restores
    <2>2. /\ \A p \in Procs : rel'[p].pc = "idle"
          /\ xpc' \notin ExpirePhase
      <3>1. rst'[r].pc # "idle" /\ rst'[r].tool = rst[r].tool
        OBVIOUS
      <3> QED  BY <2>1, <3>1 DEF Alone, ExpirePhase
    <2> QED  BY <1>3, <1>6, <2>2 DEF Forgetting, ExpirePhase
  <1> QED  BY <1>5, <1>6

\* The entry of the target of a ws_restore that runs alone stays as it was read.
LEMMA ReplacingStep ==
    ASSUME FullSafe, [Next]_vars, UNCHANGED rst, NEW r \in Restorers
    PROVE  Replacing(r)'
  <1> USE DEF FullSafe
  <1> SUFFICES ASSUME rst[r].tool = "replace", rst[r].pc \in {"move", "carry"},
                      rst[r].to \in Ids
               PROVE  Replacing(r)'
    BY DEF Replacing
  <1>1. Alone
    BY Excluded
  <1>2. live' = live
    BY <1>1, LiveStays DEF Alone
  <1> QED  BY <1>2 DEF RstOK, Replacing

\* Every step of the tools of WsSystem keeps what ws_restore relies on.
LEMMA OldStepSafe ==
    ASSUME FullSafe, [Next]_vars, UNCHANGED <<rst, inside>>, Admitted'
    PROVE  FullSafe'
  <1> USE DEF FullSafe
  <1>1. Safe'
    BY SafeStep
  <1>2. FullConfig' /\ RestoreTypeOK'
    BY DEF FullConfig, SafeConfig, RestoreTypeOK
  <1>3. Alone'
    <2>1. FullConfig' /\ RestoreTypeOK' /\ Admitted' => Alone'
      BY Excluded, PTL
    <2> QED  BY <1>2, <2>1
  <1>4. TrashTokens' /\ Nested'
    BY DataSteps, TrashTokensStep, NestedStep
  <1>5. \A r \in Restorers : Forgetting(r)'
    BY <1>3, ForgettingStep DEF Forgetting
  <1>6. RstOK'
    BY <1>5, ReplacingStep DEF RstOK, Knows
  <1>7. Apart'
    BY DEF Apart
  <1> QED  BY <1>1, <1>2, <1>4, <1>6, <1>7

-----------------------------------------------------------------------------
(* The file operations of ws_restore.                                      *)

\* Taking a deleted directory away, or what is in it, takes nothing away that
\* another tool relies on, if the data in it is given back or was to be purged.
LEMMA TakeSafe ==
    ASSUME Safe, TrashTokens, NEW n \in Names, trash[n] # NoDir,
           \A m \in Names \ {n} : trash'[m] = trash[m],
           trash'[n] # NoDir => trash'[n].tok = 0,
           trash[n].tok = 0 => fate' = fate,
           trash[n].tok # 0 => /\ FateOf(trash[n].tok)
                               /\ fate'[trash[n].tok].used = fate[trash[n].tok].used
                               /\ fate'[trash[n].tok].st \in {"live", "purged"},
           UNCHANGED <<now, live, gone, dirs, gen, alloc, rel, expVars>>, TypeOK'
    PROVE  Safe'
  <1> USE DEF Safe, expVars
  <1> DEFINE t == trash[n].tok
  <1>1. /\ gen \in Nat /\ t \in 0 .. MaxGen
        /\ \A i \in Ids : dirs[i] # NoDir => dirs[i].tok \in 1 .. MaxGen /\ dirs[i].tok \in 0 .. MaxGen
                                               /\ dirs[i].tok # t
        /\ \A m \in Names \ {n} : trash[m] # NoDir /\ trash[m].tok # 0 => trash[m].tok # t
        /\ \A m \in Names : trash[m] # NoDir => trash[m].tok \in 0 .. MaxGen
    BY TokenTypes DEF TrashTokens, Tokens
  <1>2. \A g \in 0 .. MaxGen : g # t => fate'[g] = fate[g]
    BY <1>1 DEF FateOf
  <1>3. \A i \in Ids : dirs[i] # NoDir => fate'[dirs[i].tok] = fate[dirs[i].tok]
    BY <1>1, <1>2
  <1>4. \A g \in 0 .. MaxGen : g # t => (KeptLongEnough(g)' <=> KeptLongEnough(g))
    BY <1>2 DEF KeptLongEnough
  <1>5. \A m \in Names : trash[m] = NoDir => trash'[m] = NoDir
    OBVIOUS
  <1>6. \A m \in Names : trash'[m] # NoDir => trash[m] # NoDir
    OBVIOUS
  <1>7. Exclusive' /\ AllocOK' /\ Swept' /\ ScanYoung'
    BY DEF Exclusive, AllocOK, Swept, ScanYoung
  <1>8. Tokens'
    BY <1>1 DEF Tokens
  <1>9. LiveOK' /\ DirCover'
    BY <1>3 DEF LiveOK, DirCover, Moving
  <1>10. Budget'
    BY <1>2 DEF Budget
  <1>11. RelOK'
    <2> SUFFICES ASSUME NEW p \in Procs, rel[p].pc # "idle"  PROVE ReleaseOK(p)'
      BY DEF RelOK, ReleaseOK
    <2>1. rel[p].id \in Ids /\ <<rel[p].id, rel[p].ts>> \in Names
          /\ \A u \in Stamps : <<rel[p].id, u>> \in Names
      BY RelMine, NamePair
    <2> QED  BY ZenonT(60), <1>3, <1>5, <1>6, <2>1 DEF RelOK, ReleaseOK
  <1>12. ExpOK'
    <2>1. xpc \in {"write", "dbmove", "dirmove"} => xcur \in Names /\ xcur[1] \in Ids
      BY NamePair DEF TypeOK, ExpTypeOK
    <2> QED  BY <1>3, <1>5, <2>1 DEF ExpOK
  <1>13. NamesOK'
    BY ZenonT(40), <1>6, NamePair DEF NamesOK
  <1>14. TrashKept'
    <2> SUFFICES ASSUME NEW m \in Names, trash'[m] # NoDir, trash'[m].tok # 0
                 PROVE  (Matches(m, trash[m].tok) \/ KeptLongEnough(trash[m].tok))' /\ m # n
                        /\ trash'[m] = trash[m]
      BY DEF TrashKept
    <2>1. m # n /\ trash[m] # NoDir /\ trash'[m] = trash[m] /\ trash[m].tok # t
          /\ trash[m].tok \in 0 .. MaxGen
      BY <1>1
    <2>2. fate'[trash[m].tok] = fate[trash[m].tok]
      BY <1>2, <2>1
    <2> QED  BY <2>1, <2>2 DEF TrashKept, Matches, KeptLongEnough
  <1>15. Retained'
    <2> SUFFICES ASSUME NEW g \in 1 .. gen, fate'[g].st \in {"released", "expired"},
                        ~KeptLongEnough(g)'
                 PROVE  \/ \E m \in Names : trash'[m] # NoDir /\ trash'[m].tok = g
                        \/ \E i \in Ids : dirs[i] # NoDir /\ dirs[i].tok = g /\ Moving(i)
      BY DEF Retained, Moving
    <2>1. g # 0 /\ g # t /\ g \in 0 .. MaxGen
      BY <1>1, TokenTypes
    <2>2. fate[g].st \in {"released", "expired"} /\ ~KeptLongEnough(g)
      BY <1>2, <1>4, <2>1
    <2> QED  BY <2>1, <2>2 DEF Retained
  <1>16. SafeConfig'
    BY DEF SafeConfig
  <1> QED  BY <1>7, <1>8, <1>9, <1>10, <1>11, <1>12, <1>13, <1>14, <1>15, <1>16

\* Removing a deleted entry whose directory is gone, and which no tool in the
\* middle of its work knows, takes nothing away that another tool relies on.
LEMMA ForgetSafe ==
    ASSUME Safe, NEW n \in Names, trash[n] = NoDir,
           \A p \in Procs : rel[p].pc \in {"dirmove", "purge", "forget"} =>
                <<rel[p].id, rel[p].ts>> # n,
           xpc = "dirmove" => xcur # n,
           gone' = [gone EXCEPT ![n] = NoEntry],
           UNCHANGED <<now, live, dirs, trash, gen, fate, alloc, rel, expVars>>
    PROVE  Safe'
  <1> USE DEF Safe, expVars
  <1>1. gone'[n] = NoEntry /\ \A m \in Names \ {n} : gone'[m] = gone[m]
    BY DEF TypeOK, StoreTypeOK
  <1>2. TypeOK'
    BY DEF TypeOK, StoreTypeOK, AllocTypeOK, RelTypeOK, ExpTypeOK
  <1>3. Exclusive' /\ AllocOK' /\ ScanYoung' /\ Tokens' /\ LiveOK' /\ Budget'
    BY DEF Exclusive, AllocOK, ScanYoung, Tokens, LiveOK, Budget
  <1>4. RelOK'
    <2> SUFFICES ASSUME NEW p \in Procs, rel[p].pc # "idle"  PROVE ReleaseOK(p)'
      BY DEF RelOK, ReleaseOK
    <2>1. <<rel[p].id, rel[p].ts>> \in Names /\ \A u \in Stamps : <<rel[p].id, u>> \in Names
      BY RelMine, NamePair
    <2>2. /\ ReleaseOK(p) /\ p \in Procs /\ rel[p].pc # "idle" /\ trash[n] = NoDir
          /\ UNCHANGED <<now, live, dirs, trash, fate, rel>>
          /\ rel[p].pc \in {"dirmove", "purge", "forget"} => <<rel[p].id, rel[p].ts>> # n
      BY DEF RelOK
    <2> QED  BY ONLY <1>1, <2>1, <2>2 DEF ReleaseOK
  <1>5. ExpOK'
    <2>1. xpc \in {"write", "dbmove", "dirmove"} => xcur \in Names
      BY DEF TypeOK, ExpTypeOK
    <2> QED  BY <1>1, <2>1 DEF ExpOK
  <1>6. DirCover' /\ Retained'
    BY DEF DirCover, Moving, Retained, KeptLongEnough
  <1>7. NamesOK'
    <2> SUFFICES ASSUME NEW i \in Ids, NEW t \in Stamps  PROVE NamesOK!(i, t)'
      BY DEF NamesOK
    <2>1. <<i, t>> \in Names
      BY NamePair
    <2> QED  BY <1>1, <2>1 DEF NamesOK
  <1>8. TrashKept'
    BY <1>1 DEF TrashKept, Matches, KeptLongEnough
  <1>9. Swept'
    <2>1. xnames \subseteq Names /\ (xpc = "rmtree" => xcur \in Names)
      BY DEF TypeOK, ExpTypeOK
    <2> QED  BY <1>1, <2>1 DEF Swept
  <1>10. SafeConfig'
    BY DEF SafeConfig
  <1> QED  BY <1>2, <1>3, <1>4, <1>5, <1>6, <1>7, <1>8, <1>9, <1>10

\* A deleted directory that replaces the directory of workspace i, while nothing
\* else runs: the workspace holds the data of the deleted directory then.
ReplacesData(i, n) ==
    LET old == dirs[i].tok
        new == IF trash[n].tok = 0 THEN old ELSE trash[n].tok IN
    /\ trash' = [trash EXCEPT ![n] = NoDir]
    /\ dirs' = [dirs EXCEPT ![i] = [trash[n] EXCEPT !.tok = new]]
    /\ fate' = IF new = old THEN fate
               ELSE [fate EXCEPT ![old].st = "purged",
                                 ![new] = [st |-> "live", at |-> now, used |-> fate[old].used]]

\* It keeps what the other tools rely on.
LEMMA ReplaceSafe ==
    ASSUME Safe, TrashTokens, NEW i \in Ids, NEW n \in Names, live[i] # NoEntry,
           trash[n] # NoDir, ReplacesData(i, n),
           xpc = "idle", \A p \in Procs : alloc[p].pc = "idle" /\ rel[p].pc = "idle",
           UNCHANGED <<now, live, gone, gen, alloc, rel, expVars>>, TypeOK'
    PROVE  Safe'
  <1> USE DEF Safe, expVars
  <1> DEFINE t == trash[n].tok
             old == dirs[i].tok
             new == dirs'[i].tok
  <1>1. dirs[i] # NoDir /\ fate[old].st = "live" /\ fate[old].used + live[i].ext =< MaxExtensions
    BY DEF LiveOK
  <1>2. /\ gen \in Nat /\ t \in 0 .. MaxGen /\ t \in 0 .. gen
        /\ old \in 1 .. gen /\ old \in 0 .. MaxGen /\ old # t
    BY <1>1, TokenTypes DEF Tokens
  <1>3. /\ trash'[n] = NoDir /\ \A m \in Names \ {n} : trash'[m] = trash[m]
        /\ dirs'[i] = [trash[n] EXCEPT !.tok = IF t = 0 THEN old ELSE t]
        /\ \A j \in Ids \ {i} : dirs'[j] = dirs[j]
    BY DEF ReplacesData, TypeOK, StoreTypeOK
  <1>4. dirs'[i] # NoDir /\ new = IF t = 0 THEN old ELSE t
    <2>1. trash[n] \in Dir
      BY DEF TypeOK, StoreTypeOK
    <2>2. dirs'[i] \in Dir
      BY <1>2, <1>3, <2>1 DEF Dir
    <2> QED  BY <1>3, <2>1, <2>2, StoreAssumption DEF Dir
  <1>5. /\ t = 0 => fate' = fate
        /\ t # 0 => /\ fate'[t] = [st |-> "live", at |-> now, used |-> fate[old].used]
                    /\ fate'[old].st = "purged" /\ fate'[old].used = fate[old].used
                    /\ \A g \in 0 .. MaxGen : g # t /\ g # old => fate'[g] = fate[g]
    BY <1>2 DEF ReplacesData, TypeOK, StoreTypeOK, Fate
  <1>6. \A g \in 0 .. MaxGen : g # t /\ g # old => fate'[g] = fate[g]
    BY <1>5
  <1>7. /\ \A j \in Ids \ {i} : dirs[j] # NoDir =>
                dirs[j].tok \in 0 .. MaxGen /\ dirs[j].tok # t /\ dirs[j].tok # old
        /\ \A m \in Names \ {n} : trash[m] # NoDir =>
                /\ trash[m].tok \in 0 .. MaxGen /\ trash[m].tok # old
                /\ trash[m].tok # 0 => trash[m].tok # t
    BY <1>1, TokenTypes DEF TrashTokens, Tokens
  <1>8. Exclusive' /\ AllocOK' /\ RelOK' /\ ExpOK' /\ Swept' /\ ScanYoung'
    BY DEF Exclusive, AllocOK, RelOK, ReleaseOK, ExpOK, Swept, ScanYoung, ScanPhase
  <1>9. Tokens'
    <2> HIDE DEF t, old, new
    <2>0. dirs'[i].tok = (IF t = 0 THEN old ELSE t) /\ dirs'[i].tok \in {t, old} /\ dirs'[i].tok \in 1 .. gen
      BY <1>2, <1>4 DEF new
    <2>1. \A j \in Ids : dirs'[j] # NoDir => dirs'[j].tok \in 1 .. gen
      BY <1>3, <2>0 DEF Tokens
    <2>2. \A j, k \in Ids : dirs'[j] # NoDir /\ dirs'[k] # NoDir /\ j # k => dirs'[j].tok # dirs'[k].tok
      <3>1. \A j \in Ids \ {i} : dirs'[j] # NoDir => dirs'[j].tok # dirs'[i].tok
        BY <1>3, <1>7, <2>0
      <3>2. \A j, k \in Ids \ {i} : dirs'[j] # NoDir /\ dirs'[k] # NoDir /\ j # k => dirs'[j].tok # dirs'[k].tok
        BY <1>3 DEF Tokens
      <3> QED  BY <3>1, <3>2
    <2>3. \A j \in Ids, m \in Names : dirs'[j] # NoDir /\ trash'[m] # NoDir => dirs'[j].tok # trash'[m].tok
      <3> SUFFICES ASSUME NEW j \in Ids, NEW m \in Names \ {n}, dirs'[j] # NoDir, trash[m] # NoDir
                   PROVE  dirs'[j].tok # trash[m].tok
        BY <1>3
      <3>1. CASE j = i
        <4>1. trash[m].tok \in 0 .. MaxGen /\ trash[m].tok # old /\ (trash[m].tok = t => t = 0)
          BY <1>7 DEF t, old
        <4>2. dirs'[i].tok # trash[m].tok
          BY <2>0, <4>1
        <4> QED  BY <3>1, <4>2
      <3>2. CASE j # i
        BY <1>3, <3>2 DEF Tokens
      <3> QED  BY <3>1, <3>2
    <2> QED  BY <1>3, <2>1, <2>2, <2>3 DEF Tokens
  <1>10. LiveOK'
    <2> SUFFICES ASSUME NEW j \in Ids, live[j] # NoEntry  PROVE LiveOK!(j)'
      BY DEF LiveOK
    <2>1. CASE j = i
      BY <1>1, <1>4, <1>5, <2>1 DEF LiveOK
    <2>2. CASE j # i
      BY <1>3, <1>6, <1>7, <2>2 DEF LiveOK
    <2> QED  BY <2>1, <2>2
  <1>11. Budget'
    <2> SUFFICES ASSUME NEW g \in 0 .. MaxGen  PROVE fate'[g].used =< MaxExtensions
      BY DEF Budget
    <2> QED  BY <1>2, <1>5 DEF Budget
  <1>12. DirCover' /\ NamesOK'
    <2>1. DirCover'
      BY <1>3 DEF DirCover, Moving
    <2>2. \A m \in Names : trash'[m] # NoDir => trash[m] # NoDir
      BY <1>3
    <2>3. NamesOK'
      BY <2>2, NamePair DEF NamesOK
    <2> QED  BY <2>1, <2>3
  <1>13. TrashKept'
    <2> SUFFICES ASSUME NEW m \in Names \ {n}, trash[m] # NoDir, trash[m].tok # 0
                 PROVE  (Matches(m, trash[m].tok) \/ KeptLongEnough(trash[m].tok))'
                        /\ trash'[m] = trash[m]
      BY <1>3 DEF TrashKept
    <2>1. fate'[trash[m].tok] = fate[trash[m].tok] /\ trash'[m] = trash[m]
      BY <1>3, <1>6, <1>7
    <2> QED  BY <2>1 DEF TrashKept, Matches, KeptLongEnough
  <1>14. Retained'
    <2> SUFFICES ASSUME NEW g \in 1 .. gen, fate'[g].st \in {"released", "expired"},
                        ~KeptLongEnough(g)'
                 PROVE  \E m \in Names : trash'[m] # NoDir /\ trash'[m].tok = g
      BY DEF Retained
    <2>1. g \in 0 .. MaxGen /\ g # 0 /\ g # t /\ g # old
      BY <1>1, <1>2, <1>5, TokenTypes
    <2>2. fate[g].st \in {"released", "expired"} /\ ~KeptLongEnough(g)
      BY <1>6, <2>1 DEF KeptLongEnough
    <2>3. PICK m \in Names : trash[m] # NoDir /\ trash[m].tok = g
      BY <2>2 DEF Retained, Moving
    <2> QED  BY <1>3, <2>1, <2>3
  <1>15. SafeConfig'
    BY DEF SafeConfig
  <1> QED  BY <1>8, <1>9, <1>10, <1>11, <1>12, <1>13, <1>14, <1>15
=============================================================================
