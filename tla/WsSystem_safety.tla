--------------------------- MODULE WsSystem_safety ---------------------------
(***************************************************************************)
(* The invariant Safe of WsInvariant is inductive, for all sessions, ids,  *)
(* clock bounds and durations, and the safety properties of WsSystem       *)
(* follow from it.                                                         *)
(***************************************************************************)
EXTENDS WsInvariant, WsSystem_proofs

-----------------------------------------------------------------------------
(* What the configuration excludes.                                        *)

\* What SafeConfig allows to overlap: nothing but ws_allocate with the stray scan.
LEMMA MayFacts ==
    ASSUME SafeConfig
    PROVE  /\ \A u \in Tools : ~May("release", u) /\ ~May("expire", u) /\ ~May(u, "release")
           /\ \A u \in Tools : May("allocate", u) \/ May("extend", u) => u = "stray"
  BY DEF SafeConfig, May, Tools

\* The names of the tools that may be running.
LEMMA ToolTypes ==
    /\ \A p \in Procs : AllocTool(p) \in {"extend", "allocate"}
    /\ ExpTool \in {"expire", "stray"}
    /\ ExpTool = "stray" => xpc \notin ExpirePhase
  BY DEF AllocTool, ExpTool

\* A creation or an extension starts on a workspace nobody works on, and not in
\* the expirer's second phase.
LEMMA CommandAlone ==
    ASSUME SafeConfig, NEW i, NEW t \in {"allocate", "extend"}, MayStart(t, i)
    PROVE  /\ \A q \in Procs : alloc[q].pc # "idle" => alloc[q].id # i
           /\ \A q \in Procs : rel[q].pc # "idle" => rel[q].id # i
           /\ xpc \notin ExpirePhase
  <1>1. ~May(t, "release") /\ ~May(t, "extend") /\ ~May(t, "allocate") /\ ~May(t, "expire")
    BY MayFacts DEF Tools
  <1>2. "idle" \notin ExpirePhase
    BY DEF ExpirePhase
  <1> QED  BY <1>1, <1>2, ToolTypes DEF MayStart

\* ws_release starts on a workspace nobody works on, while the expirer is idle.
LEMMA ReleaseAlone ==
    ASSUME SafeConfig, NEW i, MayStart("release", i)
    PROVE  /\ \A q \in Procs : alloc[q].pc # "idle" => alloc[q].id # i
           /\ \A q \in Procs : rel[q].pc # "idle" => rel[q].id # i
           /\ xpc = "idle"
  <1>1. \A u \in Tools : ~May("release", u)
    BY MayFacts
  <1> QED  BY <1>1, ToolTypes DEF MayStart, Tools

\* The expirer's phases start when no ws_release runs; the second one when no
\* command runs.
LEMMA ScanAlone ==
    ASSUME SafeConfig
    PROVE  /\ MayScan("stray") => \A p \in Procs : rel[p].pc = "idle"
           /\ MayScan("expire") =>
                \A p \in Procs : rel[p].pc = "idle" /\ alloc[p].pc = "idle"
  <1>1. ~May("stray", "release") /\ ~May("expire", "release")
        /\ ~May("expire", "allocate") /\ ~May("expire", "extend")
    BY MayFacts DEF Tools
  <1> QED  BY <1>1, ToolTypes DEF MayScan

-----------------------------------------------------------------------------
(* What the invariant says about the properties.                           *)

\* The inductive invariant implies the safety properties.
LEMMA SafeImplies ==
    ASSUME Safe
    PROVE  LiveHasDir /\ ReleasedRetained /\ ExpiredRetained /\ Recoverable /\ ExtensionBudget
  <1> USE DEF Safe
  <1>1. LiveHasDir
    BY DEF LiveHasDir, LiveOK
  <1>2. ReleasedRetained /\ ExpiredRetained
    BY DEF ReleasedRetained, ExpiredRetained, Retained, OnDisk
  <1>3. Recoverable
    <2> SUFFICES ASSUME xpc # "dirmove", \A p \in Procs : rel[p].pc # "dirmove",
                        NEW g \in 1 .. gen, fate[g].st \in {"released", "expired"},
                        ~KeptLongEnough(g)
                 PROVE  \E n \in Names : /\ trash[n] # NoDir
                                         /\ trash[n].tok = g
                                         /\ gone[n] # NoEntry
      BY DEF Recoverable
    <2>1. PICK n \in Names : trash[n] # NoDir /\ trash[n].tok = g
      BY DEF Retained, Moving
    <2>2. g # 0
      BY DEF TypeOK, StoreTypeOK
    <2> QED  BY <2>1, <2>2 DEF TrashKept, Matches
  <1>4. ExtensionBudget
    <2>1. 1 .. gen \subseteq 0 .. MaxGen
      BY StoreAssumption DEF TypeOK, StoreTypeOK
    <2> QED  BY <2>1 DEF ExtensionBudget, Budget
  <1> QED  BY <1>1, <1>2, <1>3, <1>4

\* The empty installation satisfies the inductive invariant.
LEMMA InitSafe == ASSUME SafeConfig, Init PROVE Safe
  <1>1. TypeOK
    BY InitType
  <1>2. /\ \A p \in Procs : alloc[p].pc = "idle" /\ rel[p].pc = "idle"
        /\ \A i \in Ids : live[i] = NoEntry /\ dirs[i] = NoDir
        /\ \A n \in Names : gone[n] = NoEntry /\ trash[n] = NoDir
        /\ \A g \in 0 .. MaxGen : fate[g].used = 0
        /\ gen = 0 /\ xpc = "idle"
    BY DEF Init, StoreInit, AllocInit, RelInit, ExpInit, AllocIdle, RelIdle
  <1>3. \A i \in Ids, t \in Stamps : <<i, t>> \in Names
    BY DEF Names
  <1>4. Budget
    BY <1>2, AllocateAssumption DEF Budget
  <1>5. Exclusive /\ Tokens /\ LiveOK /\ AllocOK /\ ExpOK /\ DirCover
    BY <1>2 DEF Exclusive, Tokens, LiveOK, AllocOK, ExpOK, DirCover
  <1>6. RelOK
    BY <1>2 DEF RelOK, ReleaseOK
  <1>7. NamesOK /\ TrashKept /\ Swept /\ ScanYoung
    BY <1>2, <1>3 DEF NamesOK, TrashKept, Swept, ScanYoung, ScanPhase
  <1>8. Retained
    BY <1>2 DEF Retained
  <1> QED  BY <1>1, <1>4, <1>5, <1>6, <1>7, <1>8 DEF Safe

-----------------------------------------------------------------------------
(* The expirer's first phase.                                              *)

\* The parts of the invariant the expirer's own position does not matter to.
\* A step that only moves the expirer on, between points where it is not in the
\* middle of moving or deleting a workspace, has the rest to show.
LEMMA MoveOn ==
    ASSUME Safe, UNCHANGED <<storeVars, alloc, rel>>,
           xpc \notin {"write", "dbmove", "dirmove"},
           xpc' \notin {"write", "dbmove", "dirmove"},
           TypeOK', Exclusive', Swept', ScanYoung'
    PROVE  Safe'
  <1> USE DEF Safe, storeVars
  <1>1. Tokens' /\ Budget' /\ AllocOK' /\ RelOK'
    BY ZenonT(60) DEF Tokens, Budget, AllocOK, RelOK, ReleaseOK
  <1>2. LiveOK' /\ ExpOK'
    BY DEF LiveOK, ExpOK
  <1>3. \A i \in Ids : Moving(i)' <=> Moving(i)
    BY DEF Moving
  <1>4. \A g : KeptLongEnough(g)' <=> KeptLongEnough(g)
    BY DEF KeptLongEnough
  <1>5. DirCover' /\ NamesOK'
    BY <1>3 DEF DirCover, NamesOK
  <1>6. TrashKept'
    BY <1>4 DEF TrashKept, Matches
  <1>7. Retained'
    BY <1>3, <1>4 DEF Retained
  <1>8. SafeConfig'
    BY DEF SafeConfig
  <1> QED  BY <1>1, <1>2, <1>5, <1>6, <1>7, <1>8

\* Listing the space changes nothing but the list.
LEMMA StrayListSafe ==
    ASSUME Safe, TypeOK', MayScan("stray"), StrayList, UNCHANGED <<alloc, rel>>
    PROVE  Safe'
  <1> USE DEF Safe, StrayList, storeVars
  <1>1. Exclusive'
    BY ScanAlone DEF Exclusive, ExpirePhase
  <1>2. Swept' /\ ScanYoung'
    BY ExpirerAssumption, StoreAssumption
    DEF Swept, ScanYoung, ScanPhase, TypeOK, StoreTypeOK
  <1> QED  BY <1>1, <1>2, MoveOn

\* A directory found without an entry belongs to a creation in flight.
LEMMA StraySnapshotSafe ==
    ASSUME Safe, TypeOK', StraySnapshot, UNCHANGED <<alloc, rel>>
    PROVE  Safe'
  <1> USE DEF Safe, StraySnapshot, storeVars
  <1>1. Exclusive' /\ Swept'
    BY DEF Exclusive, ExpirePhase, Swept
  <1>2. xids \subseteq Ids /\ now \in Nat /\ xstart \in Nat /\ MaxAlloc \in Nat
    BY StoreAssumption, AllocateAssumption DEF TypeOK, StoreTypeOK, ExpTypeOK
  <1>3. ASSUME NEW d \in xids, ~HasEntry(d), dirs[d] # NoDir
        PROVE  dirs[d].mtime + MaxAlloc >= xstart
    <2>1. live[d] = NoEntry
      BY <1>2, <1>3 DEF HasEntry
    <2>2. ~Moving(d) /\ \A p \in Procs : rel[p].pc = "idle"
      BY DEF Moving, Exclusive
    <2>3. PICK p \in Procs : alloc[p].pc = "entry" /\ alloc[p].id = d
      BY <1>2, <1>3, <2>1, <2>2 DEF DirCover
    <2>4. dirs[d].mtime = alloc[p].since /\ now =< alloc[p].since + MaxAlloc
      BY <2>3 DEF AllocOK
    <2>5. alloc[p].since \in Nat
      BY DEF TypeOK, AllocTypeOK, AllocState
    <2>6. xstart =< now
      BY DEF ScanYoung, ScanPhase
    <2> QED  BY <1>2, <2>4, <2>5, <2>6
  <1>4. ScanYoung'
    BY <1>3 DEF ScanYoung, ScanPhase
  <1> QED  BY <1>1, <1>4, MoveOn

\* No directory the scan looks at is old enough to be moved.
LEMMA StrayStatSafe ==
    ASSUME Safe, TypeOK', NEW d \in Ids, StrayStat(d), UNCHANGED <<alloc, rel>>
    PROVE  Safe'
  <1> USE DEF Safe, StrayStat, storeVars
  <1>1. ASSUME dirs[d] # NoDir  PROVE TooYoung(d)
    <2>1. dirs[d].mtime \in Nat
      BY <1>1 DEF TypeOK, StoreTypeOK, Dir
    <2>2. dirs[d].mtime + MaxAlloc >= xstart /\ now =< xstart + MaxScan
      BY <1>1 DEF ScanYoung, ScanPhase
    <2>3. now \in Nat /\ xstart \in Nat /\ MaxAlloc \in Nat /\ MaxScan \in Nat /\ Grace \in Nat
      BY StoreAssumption, AllocateAssumption, ExpirerAssumption
      DEF TypeOK, StoreTypeOK, ExpTypeOK
    <2> QED  BY <2>1, <2>2, <2>3 DEF TooYoung, SafeConfig
  <1>2. xpc' = xpc /\ xids' = xids \ {d}
    BY <1>1
  <1>3. Exclusive' /\ Swept' /\ ScanYoung'
    BY <1>2 DEF Exclusive, Swept, ScanYoung
  <1> QED  BY <1>2, <1>3, MoveOn

\* Steps of the stray scan that only move on to its next part.
LEMMA LightStraySafe ==
    ASSUME Safe, TypeOK', StrayNoDatabase \/ TrashList \/ StrayEnd,
           UNCHANGED <<alloc, rel>>
    PROVE  Safe'
  <1> USE DEF Safe, StrayNoDatabase, TrashList, StrayEnd, storeVars
  <1>1. Exclusive' /\ Swept' /\ ScanYoung'
    BY DEF Exclusive, ExpirePhase, Swept, ScanYoung, ScanPhase
  <1> QED  BY <1>1, MoveOn

\* What the sweep is going to remove has no deleted entry.
LEMMA TrashSnapshotSafe ==
    ASSUME Safe, TypeOK', TrashSnapshot, UNCHANGED <<alloc, rel>>
    PROVE  Safe'
  <1> USE DEF Safe, TrashSnapshot, storeVars
  <1>1. Exclusive' /\ Swept' /\ ScanYoung'
    BY DEF Exclusive, ExpirePhase, Swept, ScanYoung, ScanPhase, Removable
  <1> QED  BY <1>1, MoveOn

\* A name is a pair of an id and a stamp.
LEMMA NamePair ==
    /\ \A n \in Names : n[1] \in Ids /\ n[2] \in Stamps /\ n = <<n[1], n[2]>>
    /\ \A i \in Ids, t \in Stamps :
        <<i, t>> \in Names /\ <<i, t>>[1] = i /\ <<i, t>>[2] = t
  BY DEF Names

\* Removing a deleted directory that has no entry takes nothing away that has to
\* be kept.
LEMMA RemoveSafe ==
    ASSUME Safe, NEW n \in Names, NEW finished \in BOOLEAN, Rmtree(n, finished),
           gone[n] = NoEntry,
           UNCHANGED <<now, live, gone, dirs, gen, fate, alloc, rel>>,
           xpc \notin {"idle", "write", "dbmove", "dirmove"},
           xpc' \notin {"idle", "write", "dbmove", "dirmove"},
           TypeOK', Exclusive', Swept', ScanYoung'
    PROVE  Safe'
  <1> USE DEF Safe
  <1>1. /\ \A m \in Names \ {n} : trash'[m] = trash[m]
        /\ trash'[n] # NoDir => trash[n] # NoDir /\ trash'[n].tok = 0
    BY DEF Rmtree, TypeOK, StoreTypeOK
  <1>2. \A m \in Names : trash'[m] # NoDir => trash[m] # NoDir
    BY <1>1
  <1>3. \A p \in Procs : rel[p].pc = "idle"
    BY DEF Exclusive
  <1>4. \A i \in Ids : ~Moving(i) /\ ~Moving(i)'
    BY <1>3 DEF Moving
  <1>5. Tokens'
    <2>1. gen \in Nat
      BY StoreAssumption DEF TypeOK, StoreTypeOK
    <2>2. \A i \in Ids : dirs[i] # NoDir => dirs[i].tok # 0
      BY <2>1 DEF Tokens
    <2> QED  BY <1>1, <1>2, <2>1, <2>2 DEF Tokens
  <1>6. Budget' /\ AllocOK' /\ ExpOK' /\ LiveOK'
    BY DEF Budget, AllocOK, ExpOK, LiveOK
  <1>7. RelOK'
    BY <1>3 DEF RelOK, ReleaseOK
  <1>8. DirCover'
    BY <1>4 DEF DirCover
  <1>9. NamesOK'
    BY <1>2, NamePair DEF NamesOK
  <1>10. \A g : KeptLongEnough(g)' <=> KeptLongEnough(g)
    BY DEF KeptLongEnough
  <1>11. TrashKept'
    BY <1>1, <1>2, <1>10 DEF TrashKept, Matches
  <1>12. Retained'
    <2> SUFFICES ASSUME NEW g \in 1 .. gen, fate[g].st \in {"released", "expired"},
                        ~KeptLongEnough(g)
                 PROVE  \E m \in Names : trash'[m] # NoDir /\ trash'[m].tok = g
      BY <1>10 DEF Retained
    <2>1. PICK m \in Names : trash[m] # NoDir /\ trash[m].tok = g
      BY <1>4 DEF Retained
    <2>2. g # 0
      BY DEF TypeOK, StoreTypeOK
    <2>3. gone[m] # NoEntry
      BY <2>1, <2>2 DEF TrashKept, Matches
    <2> QED  BY <1>1, <2>1, <2>3
  <1>13. SafeConfig'
    BY DEF SafeConfig
  <1> QED  BY <1>5, <1>6, <1>7, <1>8, <1>9, <1>11, <1>12, <1>13

\* The sweep removes no data that has to be kept.
LEMMA TrashRemoveSafe ==
    ASSUME Safe, TypeOK', NEW n \in Names, NEW finished \in BOOLEAN,
           TrashRemove(n, finished), UNCHANGED <<alloc, rel>>
    PROVE  Safe'
  <1> USE DEF Safe, TrashRemove
  <1>1. gone[n] = NoEntry
    BY DEF Swept
  <1>2. Exclusive' /\ Swept' /\ ScanYoung'
    BY DEF Exclusive, Swept, ScanYoung, ScanPhase
  <1> QED  BY <1>1, <1>2, RemoveSafe

\* Every step of clean_stray_directories() keeps the invariant.
LEMMA StrayStepSafe == ASSUME Safe, StrayStep PROVE Safe'
  <1>1. TypeOK'
    BY StrayStepType DEF Safe
  <1>2. ~StrayMove
    BY DEF Safe, ScanYoung, StrayMove
  <1> QED  BY <1>1, <1>2, StrayListSafe, StraySnapshotSafe, StrayStatSafe, LightStraySafe,
              TrashSnapshotSafe, TrashRemoveSafe DEF StrayStep

-----------------------------------------------------------------------------
(* The expirer's second phase.                                             *)

\* Steps of the second phase that leave the store alone.
LEMMA LightExpireSafe ==
    ASSUME Safe, TypeOK', UNCHANGED <<alloc, rel>>,
           \/ ExpireNoDatabase
           \/ \E i \in Ids : ExpireSkip(i)
           \/ DeleteList
           \/ \E n \in Names : DeleteKeep(n)
           \/ ExpireEnd
    PROVE  Safe'
  <1> USE DEF Safe, ExpireNoDatabase, ExpireSkip, DeleteList, DeleteKeep, ExpireEnd, storeVars
  <1>1. Exclusive'
    BY DEF Exclusive, ExpirePhase
  <1>2. Swept' /\ ScanYoung'
    BY DEF Swept, ScanYoung, ScanPhase
  <1>3. /\ UNCHANGED <<storeVars, alloc, rel>>
        /\ xpc \notin {"write", "dbmove", "dirmove"}
        /\ xpc' \notin {"write", "dbmove", "dirmove"}
    OBVIOUS
  <1> QED  BY <1>1, <1>2, <1>3, MoveOn

\* The second phase begins when no command runs.
LEMMA ExpireListSafe ==
    ASSUME Safe, TypeOK', MayScan("expire"), ExpireList, UNCHANGED <<alloc, rel>>
    PROVE  Safe'
  <1> USE DEF Safe, ExpireList, storeVars
  <1>1. Exclusive'
    BY ScanAlone DEF Exclusive
  <1>2. Swept' /\ ScanYoung'
    BY DEF Swept, ScanYoung, ScanPhase
  <1> QED  BY <1>1, <1>2, MoveOn

\* The names in use of a workspace that expired all lie before its expiration,
\* so expire() takes the present second.
LEMMA ExpireChooseSafe ==
    ASSUME Safe, TypeOK', NEW i \in Ids, ExpireChoose(i), UNCHANGED <<alloc, rel>>
    PROVE  Safe'
  <1> USE DEF Safe, ExpireChoose, storeVars
  <1>1. \A p \in Procs : rel[p].pc = "idle" /\ alloc[p].pc = "idle"
    BY DEF Exclusive, ExpirePhase
  <1>2. live[i] # NoEntry /\ now > live[i].exp /\ live[i].exp \in Nat /\ now \in Nat
        /\ now \in Stamps
    BY StoreAssumption, StampFacts DEF HasExpired, TypeOK, StoreTypeOK, Entry
  <1>3. now \in FreeStamps(i)
    <2>1. gone[<<i, now>>] = NoEntry /\ trash[<<i, now>>] = NoDir
      BY <1>2 DEF NamesOK
    <2> QED  BY <1>2, <2>1, StoreAssumption DEF FreeStamps
  <1>4. PICK t \in FreeStamps(i) : t =< now /\ xcur' = <<i, t>>
    BY <1>3
  <1>5. gone[xcur'] = NoEntry /\ trash[xcur'] = NoDir
    BY <1>4 DEF FreeStamps
  <1>6. ExpOK'
    <2>1. xent' = live[i] /\ xcur'[1] = i /\ xcur'[2] =< now /\ xpc' = "write"
      BY <1>4
    <2>2. live[i].dir = i /\ live[i].released = 0
      BY <1>1, <1>2 DEF LiveOK
    <2> QED  BY <1>5, <2>1, <2>2 DEF ExpOK
  <1>7. Exclusive' /\ Swept' /\ ScanYoung'
    BY <1>1 DEF Exclusive, Swept, ScanYoung, ScanPhase
  <1>8. Tokens' /\ Budget' /\ AllocOK' /\ RelOK' /\ LiveOK'
    <2>1. Tokens' /\ Budget' /\ AllocOK'
      BY DEF Tokens, Budget, AllocOK
    <2>2. RelOK'
      BY DEF RelOK, ReleaseOK
    <2>3. LiveOK'
      <3>1. xpc' = "write" /\ \A j \in Ids : live[j].expired # 0 => live[j] = NoEntry
        BY <1>1 DEF LiveOK, ExpirePhase
      <3> QED  BY <3>1 DEF LiveOK
    <2> QED  BY <2>1, <2>2, <2>3
  <1>9. \A j \in Ids : Moving(j)' <=> Moving(j)
    BY DEF Moving
  <1>10. \A g : KeptLongEnough(g)' <=> KeptLongEnough(g)
    BY DEF KeptLongEnough
  <1>11. DirCover' /\ NamesOK'
    BY <1>9 DEF DirCover, NamesOK
  <1>12. TrashKept' /\ Retained'
    BY <1>9, <1>10 DEF TrashKept, Matches, Retained
  <1>13. SafeConfig'
    BY DEF SafeConfig
  <1> QED  BY <1>6, <1>7, <1>8, <1>11, <1>12, <1>13

\* expire() marks the entry it is about to move.
LEMMA ExpireWriteSafe ==
    ASSUME Safe, TypeOK', ExpireWrite, UNCHANGED <<alloc, rel>>
    PROVE  Safe'
  <1> USE DEF Safe
  <1> DEFINE i == xcur[1]
             e == [xent EXCEPT !.expired = now]
  <1>1. \A p \in Procs : rel[p].pc = "idle" /\ alloc[p].pc = "idle"
    BY DEF Exclusive, ExpirePhase, ExpireWrite
  <1>2. i \in Ids /\ xent \in Entry /\ xcur \in Names /\ live[i] = xent /\ xcur[2] =< now
        /\ now \in Nat /\ now > 0 /\ live[i] # NoEntry
    BY NamePair, StoreAssumption DEF ExpireWrite, ExpOK, TypeOK, StoreTypeOK, ExpTypeOK
  <1>3. /\ e.dir = xent.dir /\ e.exp = xent.exp /\ e.ext = xent.ext
        /\ e.released = xent.released /\ e.expired = now /\ e \in Entry /\ e # NoEntry
    BY <1>2, StoreAssumption DEF Entry
  <1>4. /\ live' = [live EXCEPT ![i] = e] /\ xent' = e
        /\ xpc = "write" /\ xpc' = "dbmove"
        /\ UNCHANGED <<now, gone, dirs, trash, gen, fate, xstart, xids, xnames, xcur>>
    BY DEF ExpireWrite, WriteEntry
  <1>5. live'[i] = e /\ \A j \in Ids \ {i} : live'[j] = live[j]
    BY <1>2, <1>4 DEF TypeOK, StoreTypeOK
  <1> HIDE DEF e
  <1>6. ExpOK'
    BY <1>2, <1>3, <1>4, <1>5 DEF ExpOK
  <1>7. Exclusive' /\ Swept' /\ ScanYoung' /\ Tokens' /\ Budget'
    BY <1>1, <1>4 DEF Exclusive, Swept, ScanYoung, ScanPhase, Tokens, Budget
  <1>8. AllocOK' /\ RelOK'
    BY <1>1 DEF AllocOK, RelOK, ReleaseOK
  <1>9. LiveOK'
    BY <1>2, <1>3, <1>4, <1>5 DEF LiveOK
  <1>10. \A j \in Ids : Moving(j)' <=> Moving(j)
    BY <1>1, <1>4 DEF Moving
  <1>11. \A g : KeptLongEnough(g)' <=> KeptLongEnough(g)
    BY <1>4 DEF KeptLongEnough
  <1>12. DirCover'
    BY <1>2, <1>3, <1>4, <1>5, <1>10 DEF DirCover
  <1>13. NamesOK'
    BY ZenonT(40), <1>2, <1>3, <1>4, <1>5 DEF NamesOK
  <1>14. TrashKept' /\ Retained'
    BY <1>4, <1>10, <1>11 DEF TrashKept, Matches, Retained
  <1>15. SafeConfig'
    BY DEF SafeConfig
  <1> QED  BY <1>6, <1>7, <1>8, <1>9, <1>12, <1>13, <1>14, <1>15

\* The entry and the history of the data change together; the directory follows.
LEMMA ExpireDbMoveSafe ==
    ASSUME Safe, TypeOK', ExpireDbMove, UNCHANGED <<alloc, rel>>
    PROVE  Safe'
  <1> USE DEF Safe
  <1> DEFINE i == xcur[1]
             g0 == dirs[i].tok
  <1>1. \A p \in Procs : rel[p].pc = "idle" /\ alloc[p].pc = "idle"
    BY DEF Exclusive, ExpirePhase, ExpireDbMove
  <1>2. /\ i \in Ids /\ xcur \in Names /\ xent \in Entry /\ now \in Nat
        /\ live[i] = xent /\ xent # NoEntry /\ gone[xcur] = NoEntry
        /\ xent.dir = i /\ xent.released = 0 /\ trash[xcur] = NoDir /\ xcur[2] =< now
        /\ 0 < xent.expired /\ xcur[2] =< xent.expired /\ xpc = "dbmove"
    BY NamePair, StoreAssumption
    DEF ExpireDbMove, ExpOK, TypeOK, StoreTypeOK, ExpTypeOK
  <1>3. dirs[i] # NoDir /\ g0 \in 1 .. gen /\ g0 \in 0 .. MaxGen
    BY <1>2, StoreAssumption DEF LiveOK, Tokens, TypeOK, StoreTypeOK
  <1>4. /\ gone' = [gone EXCEPT ![xcur] = live[i]]
        /\ live' = [live EXCEPT ![i] = NoEntry]
        /\ fate' = [fate EXCEPT ![g0] = [st |-> "expired", at |-> xent.expired,
                                         used |-> fate[g0].used]]
        /\ xpc' = "dirmove"
        /\ UNCHANGED <<now, dirs, trash, gen, xstart, xids, xnames, xcur, xent>>
    BY <1>2, <1>3 DEF ExpireDbMove, MoveEntry, SetFate
  <1>5. /\ live'[i] = NoEntry /\ \A j \in Ids \ {i} : live'[j] = live[j]
        /\ gone'[xcur] = xent /\ \A n \in Names \ {xcur} : gone'[n] = gone[n]
        /\ fate'[g0].st = "expired" /\ fate'[g0].at = xent.expired
        /\ fate'[g0].used = fate[g0].used
        /\ \A g \in (0 .. MaxGen) \ {g0} : fate'[g] = fate[g]
    BY <1>2, <1>3, <1>4 DEF TypeOK, StoreTypeOK
  <1>6. /\ \A j \in Ids \ {i} : dirs[j] # NoDir =>
                dirs[j].tok \in 0 .. MaxGen /\ dirs[j].tok # g0
        /\ \A n \in Names : trash[n] # NoDir => trash[n].tok \in 0 .. MaxGen /\ trash[n].tok # g0
    BY <1>2, <1>3, StoreAssumption DEF Tokens, TypeOK, StoreTypeOK, Dir
  <1>7. ExpOK'
    BY <1>2, <1>3, <1>4, <1>5 DEF ExpOK
  <1>8. Exclusive' /\ Swept' /\ ScanYoung' /\ Tokens'
    BY <1>1, <1>4 DEF Exclusive, Swept, ScanYoung, ScanPhase, Tokens
  <1>9. Budget'
    BY <1>3, <1>5 DEF Budget
  <1>10. AllocOK' /\ RelOK'
    BY <1>1 DEF AllocOK, RelOK, ReleaseOK
  <1>11. LiveOK'
    <2> SUFFICES ASSUME NEW j \in Ids, live'[j] # NoEntry
                 PROVE  /\ live'[j].dir = j
                        /\ dirs'[j] # NoDir
                        /\ fate'[dirs'[j].tok].st = "live"
                        /\ fate'[dirs'[j].tok].used + live'[j].ext =< MaxExtensions
                        /\ live'[j].released = 0
                        /\ live'[j].expired = 0
      BY DEF LiveOK
    <2>1. j # i /\ live'[j] = live[j] /\ dirs'[j] = dirs[j] /\ dirs[j] # NoDir
      BY <1>4, <1>5 DEF LiveOK
    <2>2. fate'[dirs[j].tok] = fate[dirs[j].tok]
      BY <1>5, <1>6, <2>1
    <2> QED  BY <1>1, <1>2, <2>1, <2>2 DEF LiveOK
  <1>12. \A j \in Ids : Moving(j)' <=> j = i
    BY <1>1, <1>4 DEF Moving
  <1>13. \A j \in Ids : ~Moving(j)
    BY <1>1, <1>2 DEF Moving
  <1>14. \A g \in (0 .. MaxGen) \ {g0} : KeptLongEnough(g)' <=> KeptLongEnough(g)
    BY <1>4, <1>5 DEF KeptLongEnough
  <1>15. DirCover'
    BY <1>1, <1>4, <1>5, <1>12, <1>13 DEF DirCover
  <1>16. NamesOK'
    <2> SUFFICES ASSUME NEW j \in Ids, NEW t \in Stamps
                 PROVE  NamesOK!(j, t)'
      BY DEF NamesOK
    <2>1. CASE <<j, t>> = xcur
      BY <1>2, <1>4, <1>5, <2>1, NamePair DEF NamesOK
    <2>2. CASE <<j, t>> # xcur
      BY <1>4, <1>5, <2>2, NamePair DEF NamesOK
    <2> QED  BY <2>1, <2>2
  <1>17. TrashKept'
    <2> SUFFICES ASSUME NEW n \in Names, trash[n] # NoDir, trash[n].tok # 0
                 PROVE  Matches(n, trash[n].tok)' \/ KeptLongEnough(trash[n].tok)'
      BY <1>4 DEF TrashKept
    <2>1. n # xcur /\ gone'[n] = gone[n] /\ fate'[trash[n].tok] = fate[trash[n].tok]
      BY <1>2, <1>5, <1>6
    <2> QED  BY <1>4, <2>1 DEF TrashKept, Matches, KeptLongEnough
  <1>18. Retained'
    <2> SUFFICES ASSUME NEW g \in 1 .. gen, fate'[g].st \in {"released", "expired"},
                        ~KeptLongEnough(g)'
                 PROVE  \/ \E n \in Names : trash[n] # NoDir /\ trash[n].tok = g
                        \/ \E j \in Ids : dirs[j] # NoDir /\ dirs[j].tok = g /\ Moving(j)'
      BY <1>4 DEF Retained
    <2>1. CASE g = g0
      BY <1>2, <1>3, <1>12, <2>1
    <2>2. CASE g # g0
      <3>1. g \in 0 .. MaxGen
        BY StoreAssumption DEF TypeOK, StoreTypeOK
      <3> QED  BY <1>5, <1>13, <1>14, <2>2, <3>1 DEF Retained
    <2> QED  BY <2>1, <2>2
  <1>19. SafeConfig'
    BY DEF SafeConfig
  <1> QED  BY <1>7, <1>8, <1>9, <1>10, <1>11, <1>15, <1>16, <1>17, <1>18, <1>19

\* The directory arrives under the name of its entry.
LEMMA ExpireDirMoveSafe ==
    ASSUME Safe, TypeOK', ExpireDirMove, UNCHANGED <<alloc, rel>>
    PROVE  Safe'
  <1> USE DEF Safe
  <1> DEFINE i == xcur[1]
             g0 == dirs[i].tok
  <1>1. \A p \in Procs : rel[p].pc = "idle" /\ alloc[p].pc = "idle"
    BY DEF Exclusive, ExpirePhase, ExpireDirMove
  <1>2. /\ i \in Ids /\ xcur \in Names /\ xcur = <<i, xcur[2]>> /\ xcur[2] =< now
        /\ xent.dir = i /\ xent.released = 0 /\ trash[xcur] = NoDir
        /\ 0 < xent.expired /\ live[i] = NoEntry /\ dirs[i] # NoDir
        /\ gone[xcur] = xent /\ xent # NoEntry
        /\ fate[g0].st = "expired" /\ fate[g0].at = xent.expired /\ xpc = "dirmove"
    BY NamePair, StoreAssumption DEF ExpireDirMove, ExpOK, TypeOK, ExpTypeOK
  <1>3. /\ trash' = [trash EXCEPT ![xcur] = dirs[i]]
        /\ dirs' = [dirs EXCEPT ![i] = NoDir]
        /\ xpc' = "expire"
        /\ UNCHANGED <<now, live, gone, gen, fate, xstart, xids, xnames>>
    BY <1>2 DEF ExpireDirMove, TryMoveDir
  <1>4. /\ trash'[xcur] = dirs[i] /\ \A n \in Names \ {xcur} : trash'[n] = trash[n]
        /\ dirs'[i] = NoDir /\ \A j \in Ids \ {i} : dirs'[j] = dirs[j]
    BY <1>2, <1>3 DEF TypeOK, StoreTypeOK
  <1>5. Exclusive' /\ Swept' /\ ScanYoung' /\ ExpOK' /\ Budget'
    BY <1>1, <1>3 DEF Exclusive, Swept, ScanYoung, ScanPhase, ExpOK, Budget
  <1>6. Tokens'
    <2>1. gen \in Nat /\ g0 \in 1 .. gen
      BY <1>2, StoreAssumption DEF Tokens, TypeOK, StoreTypeOK
    <2> QED  BY <1>2, <1>3, <1>4, <2>1 DEF Tokens
  <1>7. AllocOK' /\ RelOK'
    BY <1>1 DEF AllocOK, RelOK, ReleaseOK
  <1>8. LiveOK'
    BY <1>2, <1>3, <1>4 DEF LiveOK
  <1>9. \A j \in Ids : (Moving(j) <=> j = i) /\ ~Moving(j)'
    BY <1>1, <1>2, <1>3 DEF Moving
  <1>10. DirCover'
    BY <1>1, <1>3, <1>4, <1>9 DEF DirCover
  <1>11. NamesOK'
    <2> SUFFICES ASSUME NEW j \in Ids, NEW t \in Stamps
                 PROVE  NamesOK!(j, t)'
      BY DEF NamesOK
    <2>1. CASE <<j, t>> = xcur
      BY <1>2, <1>3, <1>4, <2>1, NamePair DEF NamesOK
    <2>2. CASE <<j, t>> # xcur
      BY <1>3, <1>4, <2>2, NamePair DEF NamesOK
    <2> QED  BY <2>1, <2>2
  <1>12. \A g : KeptLongEnough(g)' <=> KeptLongEnough(g)
    BY <1>3 DEF KeptLongEnough
  <1>13. TrashKept'
    <2> SUFFICES ASSUME NEW n \in Names, trash'[n] # NoDir, trash'[n].tok # 0
                 PROVE  Matches(n, trash[n].tok)' \/ KeptLongEnough(trash[n].tok)'
      BY DEF TrashKept
    <2>1. CASE n = xcur
      BY <1>2, <1>3, <1>4, <2>1 DEF Matches
    <2>2. CASE n # xcur
      BY <1>3, <1>4, <2>2 DEF TrashKept, Matches, KeptLongEnough
    <2> QED  BY <2>1, <2>2
  <1>14. Retained'
    <2> SUFFICES ASSUME NEW g \in 1 .. gen, fate[g].st \in {"released", "expired"},
                        ~KeptLongEnough(g)
                 PROVE  \E n \in Names : trash'[n] # NoDir /\ trash'[n].tok = g
      BY <1>3, <1>12 DEF Retained
    <2>1. CASE g = g0
      BY <1>2, <1>4, <2>1
    <2>2. CASE g # g0
      <3>1. PICK n \in Names : trash[n] # NoDir /\ trash[n].tok = g
        BY <1>9, <2>2 DEF Retained
      <3> QED  BY <1>2, <1>4, <3>1
    <2> QED  BY <2>1, <2>2
  <1>15. SafeConfig'
    BY DEF SafeConfig
  <1> QED  BY <1>5, <1>6, <1>7, <1>8, <1>10, <1>11, <1>13, <1>14, <1>15

\* An entry that is due lies in the past, and its data was kept long enough.
LEMMA DueFacts ==
    ASSUME Safe, NEW n \in Names, gone[n] # NoEntry, Due(gone[n], n[2])
    PROVE  /\ n[2] < now
           /\ trash[n] # NoDir /\ trash[n].tok # 0 => KeptLongEnough(trash[n].tok)
  <1> USE DEF Safe
  <1> DEFINE e == gone[n]
  <1>1. /\ n[2] \in Nat /\ now \in Nat /\ e.released \in Nat /\ e.expired \in Nat
        /\ e.exp \in Nat
    <2>1. e \in Entry /\ now \in Nat
      BY StoreAssumption DEF TypeOK, StoreTypeOK
    <2>2. n[2] \in Nat
      BY ONLY NamePair, StampFacts
    <2> QED  BY ONLY <2>1, <2>2, StampFacts DEF Entry
  <1>2. /\ e.released > 0 => n[2] =< e.released + 1
        /\ e.released = 0 => 0 < e.expired /\ n[2] =< e.expired
    BY NamePair DEF NamesOK
  <1>3. /\ e.released > 0 => now >= e.released + ReleaseKeepTime
        /\ e.released = 0 => now > e.expired + KeepTime
    BY <1>1 DEF Due
  <1>4. n[2] < now
    BY <1>1, <1>2, <1>3, StoreAssumption DEF SafeConfig
  <1>5. ASSUME trash[n] # NoDir, trash[n].tok # 0
        PROVE  KeptLongEnough(trash[n].tok)
    BY <1>1, <1>3, <1>5 DEF TrashKept, Matches, KeptLongEnough
  <1> QED  BY <1>4, <1>5

\* Only an entry that is due is deleted.
LEMMA DeleteEntrySafe ==
    ASSUME Safe, TypeOK', NEW n \in Names, DeleteEntry(n), UNCHANGED <<alloc, rel>>
    PROVE  Safe'
  <1> USE DEF Safe
  <1>1. \A p \in Procs : rel[p].pc = "idle" /\ alloc[p].pc = "idle"
    BY DEF Exclusive, ExpirePhase, DeleteEntry
  <1>2. /\ gone' = [gone EXCEPT ![n] = NoEntry] /\ xcur' = n /\ xpc = "delete"
        /\ xpc' = "rmtree" /\ gone[n] # NoEntry /\ Due(gone[n], n[2])
        /\ UNCHANGED <<now, live, dirs, trash, gen, fate, xstart, xids, xent>>
    BY DEF DeleteEntry, ShouldDelete
  <1>3. gone'[n] = NoEntry /\ \A m \in Names \ {n} : gone'[m] = gone[m]
    BY <1>2 DEF TypeOK, StoreTypeOK
  <1>4. /\ n[2] < now
        /\ trash[n] # NoDir /\ trash[n].tok # 0 => KeptLongEnough(trash[n].tok)
    BY <1>2, DueFacts
  <1>5. Exclusive' /\ Swept' /\ ScanYoung' /\ ExpOK' /\ Budget' /\ Tokens'
    BY <1>1, <1>2, <1>3 DEF Exclusive, Swept, ScanYoung, ScanPhase, ExpOK, Budget, Tokens
  <1>6. AllocOK' /\ RelOK'
    BY <1>1 DEF AllocOK, RelOK, ReleaseOK
  <1>7. LiveOK'
    BY <1>2 DEF LiveOK
  <1>8. \A j \in Ids : ~Moving(j) /\ ~Moving(j)'
    BY <1>1, <1>2 DEF Moving
  <1>9. DirCover'
    BY <1>1, <1>2, <1>8 DEF DirCover
  <1>10. NamesOK'
    <2> SUFFICES ASSUME NEW j \in Ids, NEW t \in Stamps
                 PROVE  NamesOK!(j, t)'
      BY DEF NamesOK
    <2>1. CASE <<j, t>> = n
      BY <1>2, <1>3, <1>4, <2>1, NamePair DEF NamesOK
    <2>2. CASE <<j, t>> # n
      BY <1>2, <1>3, <2>2, NamePair DEF NamesOK
    <2> QED  BY <2>1, <2>2
  <1>11. \A g : KeptLongEnough(g)' <=> KeptLongEnough(g)
    BY <1>2 DEF KeptLongEnough
  <1>12. TrashKept'
    <2>1. \A m \in Names \ {n} : \A g : Matches(m, g)' <=> Matches(m, g)
      BY <1>2, <1>3 DEF Matches
    <2> QED  BY <1>2, <1>4, <1>11, <2>1 DEF TrashKept
  <1>13. Retained'
    BY <1>2, <1>8, <1>11 DEF Retained
  <1>14. SafeConfig'
    BY DEF SafeConfig
  <1> QED  BY <1>5, <1>6, <1>7, <1>9, <1>10, <1>12, <1>13, <1>14

\* The directory of a deleted entry that was due is removed.
LEMMA DeleteTreeSafe ==
    ASSUME Safe, TypeOK', NEW finished \in BOOLEAN, DeleteTree(finished),
           UNCHANGED <<alloc, rel>>
    PROVE  Safe'
  <1> USE DEF Safe, DeleteTree
  <1>1. xcur \in Names /\ gone[xcur] = NoEntry
    BY DEF Swept, TypeOK, ExpTypeOK
  <1>2. Exclusive' /\ Swept' /\ ScanYoung'
    BY DEF Exclusive, ExpirePhase, Swept, ScanYoung, ScanPhase
  <1> QED  BY <1>1, <1>2, RemoveSafe

\* Every step of expire_workspaces() keeps the invariant.
LEMMA ExpireStepSafe == ASSUME Safe, ExpireStep PROVE Safe'
  <1>1. TypeOK'
    BY ExpireStepType DEF Safe
  <1> QED  BY <1>1, LightExpireSafe, ExpireListSafe, ExpireChooseSafe, ExpireWriteSafe,
              ExpireDbMoveSafe, ExpireDirMoveSafe, DeleteEntrySafe, DeleteTreeSafe
           DEF ExpireStep

-----------------------------------------------------------------------------
(* ws_allocate                                                             *)

\* A step of ws_allocate that leaves the store alone.
LEMMA AllocLight ==
    ASSUME Safe, UNCHANGED <<storeVars, rel, expVars>>, TypeOK', Exclusive', AllocOK', DirCover'
    PROVE  Safe'
  <1> USE DEF Safe, storeVars, expVars
  <1>1. Tokens' /\ LiveOK' /\ Budget' /\ RelOK' /\ ExpOK' /\ NamesOK' /\ Swept' /\ ScanYoung'
    BY SMT, ZenonT(90) DEF Tokens, LiveOK, Budget, RelOK, ReleaseOK, ExpOK, NamesOK, Swept, ScanYoung
  <1>2. TrashKept' /\ Retained'
    BY DEF TrashKept, Matches, KeptLongEnough, Retained, Moving
  <1>3. SafeConfig'
    BY DEF SafeConfig
  <1> QED  BY <1>1, <1>2, <1>3

\* ws_allocate begins on a workspace nobody works on.
LEMMA AllocLookupSafe ==
    ASSUME Safe, TypeOK', NEW p \in Procs, NEW i \in Ids, MayStart("allocate", i),
           AllocLookup(p, i, i), UNCHANGED <<rel, expVars>>
    PROVE  Safe'
  <1> USE DEF Safe
  <1>1. /\ \A q \in Procs : alloc[q].pc # "idle" => alloc[q].id # i
        /\ \A q \in Procs : rel[q].pc # "idle" => rel[q].id # i
        /\ xpc \notin ExpirePhase
    BY CommandAlone
  <1>2. alloc[p].pc = "idle" /\ live[i] = NoEntry
    BY DEF AllocLookup
  <1>3. /\ alloc'[p].pc = "mkdir" /\ alloc'[p].id = i /\ alloc'[p].dir = i
        /\ \A q \in Procs \ {p} : alloc'[q] = alloc[q]
    BY DEF AllocLookup, AllocIdle, TypeOK, AllocTypeOK
  <1>4. UNCHANGED <<storeVars, rel, expVars>>
    BY DEF AllocLookup
  <1>5. Exclusive'
    BY <1>1, <1>3, <1>4 DEF Exclusive, expVars
  <1>6. AllocOK'
    BY <1>2, <1>3, <1>4 DEF AllocOK, storeVars
  <1>7. DirCover'
    BY <1>2, <1>3, <1>4 DEF DirCover, Moving, storeVars, expVars
  <1> QED  BY <1>4, <1>5, <1>6, <1>7, AllocLight

\* An extension begins with the entry as it is in the database.
LEMMA ExtendReadSafe ==
    ASSUME Safe, TypeOK', NEW p \in Procs, NEW i \in Ids, MayStart("extend", i),
           ExtendRead(p, i), UNCHANGED <<rel, expVars>>
    PROVE  Safe'
  <1> USE DEF Safe
  <1>1. /\ \A q \in Procs : alloc[q].pc # "idle" => alloc[q].id # i
        /\ \A q \in Procs : rel[q].pc # "idle" => rel[q].id # i
        /\ xpc \notin ExpirePhase
    BY CommandAlone
  <1>2. alloc[p].pc = "idle" /\ live[i] # NoEntry /\ live[i].dir = i
    BY DEF ExtendRead, LiveOK
  <1>3. /\ alloc'[p].pc = "extend" /\ alloc'[p].id = i /\ alloc'[p].dir = i
        /\ alloc'[p].ent = live[i]
        /\ \A q \in Procs \ {p} : alloc'[q] = alloc[q]
    BY <1>2 DEF ExtendRead, AllocIdle, TypeOK, AllocTypeOK
  <1>4. UNCHANGED <<storeVars, rel, expVars>>
    BY DEF ExtendRead
  <1>5. Exclusive'
    BY <1>1, <1>3, <1>4 DEF Exclusive, expVars
  <1>6. AllocOK'
    BY <1>2, <1>3, <1>4 DEF AllocOK, storeVars
  <1>7. DirCover'
    BY <1>2, <1>3, <1>4 DEF DirCover, Moving, storeVars, expVars
  <1> QED  BY <1>4, <1>5, <1>6, <1>7, AllocLight

\* A creation that found no entry makes a new directory: it never takes over one
\* that is there.
LEMMA AllocMkdirSafe ==
    ASSUME Safe, TypeOK', NEW p \in Procs, AllocMkdir(p), UNCHANGED <<rel, expVars>>
    PROVE  Safe'
  <1> USE DEF Safe
  <1> DEFINE i == alloc[p].id
  <1>1. /\ i \in Ids /\ alloc[p].dir = i /\ live[i] = NoEntry /\ alloc[p].pc = "mkdir"
        /\ now \in Nat /\ gen \in Nat /\ MaxGen \in Nat /\ MaxAlloc \in Nat
        /\ xpc \notin ExpirePhase
    <2>1. alloc[p].pc = "mkdir"
      BY DEF AllocMkdir
    <2>2. i \in Ids /\ now \in Nat /\ gen \in Nat /\ MaxGen \in Nat /\ MaxAlloc \in Nat
      BY <2>1, StoreAssumption, AllocateAssumption DEF TypeOK, StoreTypeOK, AllocTypeOK
    <2>3. alloc[p].dir = i /\ live[i] = NoEntry /\ xpc \notin ExpirePhase
      BY <2>1 DEF Exclusive, AllocOK
    <2> QED  BY <2>1, <2>2, <2>3
  <1>2. dirs[i] = NoDir
    BY <1>1 DEF DirCover, Exclusive, Moving, ExpirePhase
  <1>3. /\ gen < MaxGen /\ gen' = gen + 1
        /\ dirs' = [dirs EXCEPT ![i] = [tok |-> gen + 1, mtime |-> now]]
        /\ fate' = [fate EXCEPT ![gen + 1] = [st |-> "fresh", at |-> now, used |-> 0]]
        /\ UNCHANGED <<now, live, gone, trash>>
    BY <1>1, <1>2 DEF AllocMkdir
  <1>4. /\ alloc'[p].pc = "entry" /\ alloc'[p].since = now /\ alloc'[p].id = i
        /\ alloc'[p].dir = i
        /\ \A q \in Procs \ {p} : alloc'[q] = alloc[q]
    BY <1>1 DEF AllocMkdir, TypeOK, AllocTypeOK, AllocState
  <1>5. /\ dirs'[i] = [tok |-> gen + 1, mtime |-> now]
        /\ dirs'[i] # NoDir
        /\ \A j \in Ids \ {i} : dirs'[j] = dirs[j]
        /\ fate'[gen + 1].st = "fresh" /\ fate'[gen + 1].used = 0
        /\ \A g \in (0 .. MaxGen) \ {gen + 1} : fate'[g] = fate[g]
    <2>1. [tok |-> gen + 1, mtime |-> now] \in Dir
      BY <1>1, <1>3 DEF Dir
    <2> QED  BY <1>1, <1>3, <2>1, StoreAssumption DEF TypeOK, StoreTypeOK
  <1>6. \A g \in 0 .. gen : fate'[g] = fate[g]
    BY <1>1, <1>3, <1>5
  <1>7. /\ \A j \in Ids : dirs[j] # NoDir => dirs[j].tok \in 0 .. gen
        /\ \A n \in Names : trash[n] # NoDir => trash[n].tok \in 0 .. gen
    BY <1>1 DEF Tokens
  <1>8. Exclusive'
    BY <1>1, <1>4 DEF Exclusive, expVars
  <1>9. Tokens'
    BY <1>1, <1>3, <1>5, <1>7 DEF Tokens
  <1>10. LiveOK'
    BY <1>1, <1>3, <1>5, <1>6, <1>7 DEF LiveOK, expVars
  <1>11. Budget'
    BY <1>5, AllocateAssumption DEF Budget
  <1>12. AllocOK'
    <2>1. \A q \in Procs \ {p} : alloc[q].pc # "idle" => alloc[q].id # i /\ alloc[q].id \in Ids
      BY <1>1 DEF Exclusive, TypeOK, AllocTypeOK
    <2> QED  BY <1>1, <1>3, <1>4, <1>5, <2>1 DEF AllocOK
  <1>13. RelOK'
    <2>1. \A q \in Procs : rel[q].pc # "idle" => rel[q].id # i /\ rel[q].id \in Ids
      BY <1>1 DEF Exclusive, TypeOK, RelTypeOK
    <2>2. RelOK /\ rel' = rel
      OBVIOUS
    <2> QED  BY ONLY <1>3, <1>5, <1>6, <1>7, <2>1, <2>2 DEF RelOK, ReleaseOK
  <1>14. ExpOK' /\ Swept'
    BY <1>1, <1>3 DEF ExpOK, Swept, ExpirePhase, expVars
  <1>15. \A j \in Ids : Moving(j)' <=> Moving(j)
    BY DEF Moving, expVars
  <1>16. DirCover'
    <2> SUFFICES ASSUME NEW j \in Ids, dirs'[j] # NoDir
                 PROVE  DirCover!(j)!2'
      BY DEF DirCover
    <2>1. CASE j = i
      BY <1>4, <2>1
    <2>2. CASE j # i
      BY <1>1, <1>3, <1>4, <1>5, <1>15, <2>2 DEF DirCover
    <2> QED  BY <2>1, <2>2
  <1>17. NamesOK'
    BY <1>3 DEF NamesOK
  <1>18. \A g \in 0 .. gen : KeptLongEnough(g)' <=> KeptLongEnough(g)
    BY <1>3, <1>6 DEF KeptLongEnough
  <1>19. TrashKept'
    BY <1>3, <1>6, <1>7 DEF TrashKept, Matches, KeptLongEnough
  <1>20. Retained'
    <2> SUFFICES ASSUME NEW g \in 1 .. gen', fate'[g].st \in {"released", "expired"},
                        ~KeptLongEnough(g)'
                 PROVE  \/ \E n \in Names : trash'[n] # NoDir /\ trash'[n].tok = g
                        \/ \E j \in Ids : dirs'[j] # NoDir /\ dirs'[j].tok = g /\ Moving(j)'
      BY DEF Retained
    <2>1. g \in 1 .. gen /\ fate'[g] = fate[g] /\ ~KeptLongEnough(g)
      BY <1>1, <1>3, <1>5, <1>6, <1>18
    <2>2. ~Moving(i)
      BY <1>1 DEF Moving, Exclusive, ExpirePhase
    <2> QED  BY <1>3, <1>5, <1>15, <2>1, <2>2 DEF Retained
  <1>21. ScanYoung'
    <2>1. xpc \in ScanPhase => xstart =< now
      BY DEF ScanYoung
    <2>2. xids \subseteq Ids /\ xstart \in Nat
      BY StoreAssumption DEF TypeOK, ExpTypeOK
    <2>3. dirs'[i].mtime = now
      BY <1>5
    <2> QED  BY <1>1, <1>3, <1>5, <2>1, <2>2, <2>3 DEF ScanYoung, ScanPhase, expVars
  <1>22. SafeConfig'
    BY DEF SafeConfig
  <1> QED  BY <1>8, <1>9, <1>10, <1>11, <1>12, <1>13, <1>14, <1>16, <1>17, <1>19, <1>20,
              <1>21, <1>22

\* What a ws_release relies on is not touched by a step on other workspaces.
LEMMA RelKept ==
    ASSUME RelOK, UNCHANGED <<now, rel, gone, trash, dirs>>,
           \A q \in Procs : rel[q].pc # "idle" =>
                /\ live'[rel[q].id] = live[rel[q].id]
                /\ dirs[rel[q].id] # NoDir =>
                        fate'[dirs[rel[q].id].tok] = fate[dirs[rel[q].id].tok]
    PROVE  RelOK'
  <1> SUFFICES ASSUME NEW q \in Procs, rel[q].pc # "idle" PROVE ReleaseOK(q)'
    BY DEF RelOK, ReleaseOK
  <1>1. /\ live'[rel[q].id] = live[rel[q].id]
        /\ dirs[rel[q].id] # NoDir =>
                fate'[dirs[rel[q].id].tok] = fate[dirs[rel[q].id].tok]
    OBVIOUS
  <1>2. ReleaseOK(q)
    BY DEF RelOK
  <1> QED  BY <1>1, <1>2 DEF ReleaseOK

\* A new entry may expire now or later: all the names in use lie before that.
LEMMA NamesKept ==
    ASSUME NamesOK, TypeOK, TypeOK', UNCHANGED <<now, gone, trash>>,
           \A j \in Ids : live'[j] # NoEntry => live'[j] = live[j] \/ live'[j].exp >= now
    PROVE  NamesOK'
  <1> SUFFICES ASSUME NEW j \in Ids, NEW t \in Stamps PROVE NamesOK!(j, t)'
    BY DEF NamesOK
  <1>1. NamesOK!(j, t)
    BY DEF NamesOK
  <1>2. t \in Nat /\ now \in Nat /\ (live'[j] # NoEntry => live'[j].exp \in Nat)
    BY StampFacts, StoreAssumption DEF TypeOK, StoreTypeOK, Entry
  <1> QED  BY <1>1, <1>2

\* A ws_allocate that ends frees its workspace.
LEMMA AllocEnds ==
    ASSUME Safe, NEW p \in Procs, alloc' = [alloc EXCEPT ![p] = AllocIdle],
           UNCHANGED <<rel, expVars>>
    PROVE  /\ alloc'[p].pc = "idle"
           /\ \A q \in Procs \ {p} : alloc'[q] = alloc[q]
           /\ Exclusive'
  <1>1. alloc'[p].pc = "idle" /\ \A q \in Procs \ {p} : alloc'[q] = alloc[q]
    BY DEF Safe, TypeOK, AllocTypeOK, AllocIdle
  <1> QED  BY <1>1 DEF Safe, Exclusive, expVars

\* The entry of a new workspace.
LEMMA AllocEntrySafe ==
    ASSUME Safe, TypeOK', NEW p \in Procs, NEW dur \in Durations, AllocEntry(p, dur),
           UNCHANGED <<rel, expVars>>
    PROVE  Safe'
  <1> USE DEF Safe
  <1> DEFINE i == alloc[p].id
             g0 == dirs[i].tok
             e == [dir |-> i, exp |-> now + dur, ext |-> MaxExtensions,
                   released |-> 0, expired |-> 0]
  <1>1. alloc[p].pc = "entry"
    BY DEF AllocEntry
  <1>2. /\ i \in Ids /\ now \in Nat /\ dur \in Nat /\ gen \in 0 .. MaxGen /\ MaxGen \in Nat
        /\ MaxExtensions \in Nat
    BY <1>1, StoreAssumption, AllocateAssumption DEF TypeOK, StoreTypeOK, AllocTypeOK
  <1>3. /\ alloc[p].dir = i /\ live[i] = NoEntry /\ dirs[i] # NoDir /\ g0 \in 1 .. gen
        /\ xpc \notin ExpirePhase
    BY <1>1, <1>2 DEF Exclusive, AllocOK, Tokens
  <1>4. /\ live' = [live EXCEPT ![i] = e]
        /\ fate' = [fate EXCEPT ![g0] = [st |-> "live", at |-> now, used |-> 0]]
        /\ alloc' = [alloc EXCEPT ![p] = AllocIdle]
        /\ UNCHANGED <<now, gone, dirs, trash, gen>>
    BY <1>3 DEF AllocEntry, WriteEntry
  <1>5. /\ alloc'[p].pc = "idle" /\ \A q \in Procs \ {p} : alloc'[q] = alloc[q]
        /\ Exclusive'
    BY <1>4, AllocEnds
  <1>6. /\ live'[i] = e /\ \A j \in Ids \ {i} : live'[j] = live[j]
        /\ fate'[g0].st = "live" /\ fate'[g0].used = 0
        /\ \A g \in (0 .. MaxGen) \ {g0} : fate'[g] = fate[g]
    BY <1>2, <1>3, <1>4 DEF TypeOK, StoreTypeOK
  <1>7. /\ e \in Entry /\ e # NoEntry /\ e.dir = i /\ e.exp >= now /\ e.ext = MaxExtensions
        /\ e.released = 0 /\ e.expired = 0 /\ e.exp \in Nat
    BY <1>2, StoreAssumption DEF Entry
  <1> HIDE DEF e
  <1>8. /\ \A j \in Ids \ {i} : dirs[j] # NoDir =>
                dirs[j].tok \in 0 .. MaxGen /\ dirs[j].tok # g0
        /\ \A n \in Names : trash[n] # NoDir => trash[n].tok \in 0 .. MaxGen /\ trash[n].tok # g0
    BY <1>2, <1>3 DEF Tokens, TypeOK, StoreTypeOK, Dir
  <1>9. Tokens' /\ Swept' /\ ScanYoung'
    BY <1>4 DEF Tokens, Swept, ScanYoung, expVars
  <1>10. LiveOK'
    <2> SUFFICES ASSUME NEW j \in Ids, live'[j] # NoEntry
                 PROVE  LiveOK!(j)!2'
      BY DEF LiveOK
    <2>1. CASE j = i
      BY <1>2, <1>3, <1>4, <1>6, <1>7, <2>1
    <2>2. CASE j # i
      <3>1. live'[j] = live[j] /\ dirs'[j] = dirs[j] /\ dirs[j] # NoDir
        BY <1>4, <1>6, <2>2 DEF LiveOK
      <3>2. fate'[dirs[j].tok] = fate[dirs[j].tok]
        BY <1>6, <1>8, <2>2, <3>1
      <3> QED  BY <3>1, <3>2 DEF LiveOK, expVars
    <2> QED  BY <2>1, <2>2
  <1>11. Budget'
    BY <1>2, <1>6 DEF Budget
  <1>12. AllocOK'
    <2>1. \A q \in Procs \ {p} : alloc[q].pc # "idle" => alloc[q].id # i /\ alloc[q].id \in Ids
      BY <1>1 DEF Exclusive, TypeOK, AllocTypeOK
    <2> QED  BY <1>4, <1>5, <1>6, <2>1 DEF AllocOK
  <1>13. RelOK'
    <2>1. \A q \in Procs : rel[q].pc # "idle" => rel[q].id # i /\ rel[q].id \in Ids
      BY <1>1 DEF Exclusive, TypeOK, RelTypeOK
    <2>2. \A q \in Procs : rel[q].pc # "idle" =>
            /\ live'[rel[q].id] = live[rel[q].id]
            /\ dirs[rel[q].id] # NoDir =>
                    fate'[dirs[rel[q].id].tok] = fate[dirs[rel[q].id].tok]
      BY <1>6, <1>8, <2>1
    <2>3. UNCHANGED <<now, rel, gone, trash, dirs>>
      BY <1>4
    <2> QED  BY <2>2, <2>3, RelKept
  <1>14. ExpOK'
    BY <1>3 DEF ExpOK, ExpirePhase, expVars
  <1>15. \A j \in Ids : Moving(j)' <=> Moving(j)
    BY DEF Moving, expVars
  <1>16. DirCover'
    <2> SUFFICES ASSUME NEW j \in Ids, dirs'[j] # NoDir
                 PROVE  DirCover!(j)!2'
      BY DEF DirCover
    <2>1. CASE j = i
      BY <1>6, <1>7, <2>1
    <2>2. CASE j # i
      BY <1>4, <1>5, <1>6, <1>15, <2>2 DEF DirCover
    <2> QED  BY <2>1, <2>2
  <1>17. NamesOK'
    <2>1. UNCHANGED <<now, gone, trash>>
      BY <1>4
    <2>2. \A j \in Ids : live'[j] # NoEntry => live'[j] = live[j] \/ live'[j].exp >= now
      BY <1>6, <1>7
    <2> QED  BY <1>2, <2>1, <2>2, NamesKept
  <1>18. TrashKept'
    BY <1>4, <1>6, <1>8 DEF TrashKept, Matches, KeptLongEnough
  <1>19. Retained'
    <2> SUFFICES ASSUME NEW g \in 1 .. gen, fate'[g].st \in {"released", "expired"},
                        ~KeptLongEnough(g)'
                 PROVE  \/ \E n \in Names : trash[n] # NoDir /\ trash[n].tok = g
                        \/ \E j \in Ids : dirs[j] # NoDir /\ dirs[j].tok = g /\ Moving(j)
      BY <1>4, <1>15 DEF Retained
    <2>1. g # g0 /\ g \in 0 .. MaxGen
      BY <1>2, <1>6
    <2>2. fate'[g] = fate[g]
      BY <1>6, <2>1
    <2> QED  BY <1>4, <2>2 DEF Retained, KeptLongEnough
  <1>20. SafeConfig'
    BY DEF SafeConfig
  <1> QED  BY <1>5, <1>9, <1>10, <1>11, <1>12, <1>13, <1>14, <1>16, <1>17, <1>18, <1>19,
              <1>20

\* What an extension changes in an entry.
LEMMA ExtendedFields ==
    ASSUME NEW e \in Entry, NEW exp \in Nat, NEW root \in BOOLEAN
    PROVE  LET f == Extended(e, exp, root) IN
           /\ f.dir = e.dir /\ f.released = e.released /\ f.expired = e.expired
           /\ f.exp = e.exp \/ f.exp = exp
           /\ f.ext = IF NeedsExtension(e, exp) /\ ~root THEN e.ext - 1 ELSE e.ext
           /\ exp = 0 => f.exp = e.exp
  BY DEF Extended, Entry

\* An extension writes back the entry that was read: nobody changed it meanwhile.
LEMMA ExtendWriteSafe ==
    ASSUME Safe, TypeOK', NEW p \in Procs, NEW dur \in Durations \cup {0}, NEW root \in BOOLEAN,
           ExtendWrite(p, dur, root), UNCHANGED <<rel, expVars>>
    PROVE  Safe'
  <1> USE DEF Safe
  <1> DEFINE i == alloc[p].id
             e == alloc[p].ent
             exp == IF dur = 0 THEN 0 ELSE now + dur
             paid == NeedsExtension(e, exp) /\ ~root
             f == Extended(e, exp, root)
             g0 == dirs[i].tok
  <1>1. alloc[p].pc = "extend" /\ alloc' = [alloc EXCEPT ![p] = AllocIdle]
        /\ UNCHANGED <<now, gone, dirs, trash, gen>>
    BY DEF ExtendWrite
  <1>2. /\ i \in Ids /\ e \in Entry /\ now \in Nat /\ gen \in 0 .. MaxGen /\ MaxGen \in Nat
        /\ dur \in Nat /\ exp \in Nat /\ (exp = 0 \/ exp >= now)
    BY <1>1, StoreAssumption, AllocateAssumption DEF TypeOK, StoreTypeOK, AllocTypeOK
  <1>3. live[i] = e /\ e # NoEntry /\ xpc \notin ExpirePhase
    BY <1>1, <1>2, StoreAssumption DEF AllocOK, Exclusive
  <1>4. e.dir = i /\ dirs[i] # NoDir /\ g0 \in 1 .. gen /\ g0 \in 0 .. MaxGen
    BY <1>2, <1>3 DEF LiveOK, Tokens
  <1>5. /\ alloc'[p].pc = "idle" /\ \A q \in Procs \ {p} : alloc'[q] = alloc[q]
        /\ Exclusive'
    BY <1>1, AllocEnds
  <1>6. \A j \in Ids : Moving(j)' <=> Moving(j)
    BY DEF Moving, expVars
  <1>7. CASE UNCHANGED <<live, fate>>
    <2>1. UNCHANGED <<storeVars, rel, expVars>>
      BY <1>1, <1>7 DEF storeVars
    <2>2. AllocOK'
      BY <1>1, <1>5, <1>7 DEF AllocOK
    <2>3. DirCover'
      BY <1>1, <1>3, <1>5, <1>6, <1>7 DEF DirCover
    <2> QED  BY <1>5, <2>1, <2>2, <2>3, AllocLight
  <1>8. CASE ~(paid /\ e.ext = 0)
    <2>1. /\ live' = [live EXCEPT ![i] = f]
          /\ fate' = IF paid THEN [fate EXCEPT ![g0].used = @ + 1] ELSE fate
      BY <1>4, <1>8 DEF ExtendWrite, WriteEntry
    <2>2. /\ f.dir = i /\ f.released = e.released /\ f.expired = e.expired
          /\ f.exp = e.exp \/ f.exp >= now
          /\ f.ext = IF paid THEN e.ext - 1 ELSE e.ext
          /\ e.ext \in Nat
      BY <1>2, <1>4, ExtendedFields DEF Entry
    <2>3. f \in Entry /\ f # NoEntry
      BY <1>2, <1>8, ExtendedType, StoreAssumption
    <2> HIDE DEF f, paid, exp
    <2>4. live'[i] = f /\ \A j \in Ids \ {i} : live'[j] = live[j]
      BY <1>2, <2>1 DEF TypeOK, StoreTypeOK
    <2>5. /\ fate'[g0].st = fate[g0].st /\ fate'[g0].at = fate[g0].at
          /\ fate'[g0].used = IF paid THEN fate[g0].used + 1 ELSE fate[g0].used
          /\ fate[g0].used \in Nat
          /\ \A g \in (0 .. MaxGen) \ {g0} : fate'[g] = fate[g]
      BY ZenonT(60), <1>4, <2>1 DEF TypeOK, StoreTypeOK, Fate
    <2>6. \A g \in 0 .. MaxGen : fate'[g].st = fate[g].st /\ fate'[g].at = fate[g].at
      BY <2>5
    <2>7. fate[g0].used + e.ext =< MaxExtensions /\ fate'[g0].used + f.ext =< MaxExtensions
          /\ f.ext \in Nat
      <3>1. fate[g0].used + e.ext =< MaxExtensions
        BY <1>2, <1>3 DEF LiveOK
      <3>2. f.ext \in Nat
        BY ONLY <2>3, StoreAssumption DEF Entry
      <3> QED  BY ONLY <2>2, <2>5, <3>1, <3>2, AllocateAssumption
    <2>8. /\ \A j \in Ids \ {i} : dirs[j] # NoDir =>
                  dirs[j].tok \in 0 .. MaxGen /\ dirs[j].tok # g0
          /\ \A n \in Names : trash[n] # NoDir => trash[n].tok \in 0 .. MaxGen /\ trash[n].tok # g0
      BY <1>2, <1>4 DEF Tokens, TypeOK, StoreTypeOK, Dir
    <2>9. Tokens' /\ Swept' /\ ScanYoung'
      BY <1>1 DEF Tokens, Swept, ScanYoung, expVars
    <2>10. LiveOK'
      <3> SUFFICES ASSUME NEW j \in Ids, live'[j] # NoEntry
                   PROVE  LiveOK!(j)!2'
        BY DEF LiveOK
      <3>1. CASE j = i
        <4>1. UNCHANGED <<rel, xpc, xcur>>
          BY DEF expVars
        <4>2. /\ fate[g0].st = "live"
              /\ e.released # 0 =>
                    \E q \in Procs : rel[q].pc \in {"probe", "dbmove"} /\ rel[q].id = i
              /\ e.expired # 0 => xpc = "dbmove" /\ xcur[1] = i
          BY <1>2, <1>3 DEF LiveOK
        <4> QED  BY ONLY <1>1, <1>4, <2>2, <2>4, <2>5, <2>7, <3>1, <4>1, <4>2
      <3>2. CASE j # i
        <4>1. live'[j] = live[j] /\ dirs'[j] = dirs[j] /\ dirs[j] # NoDir
          BY <1>1, <2>4, <3>2 DEF LiveOK
        <4>2. fate'[dirs[j].tok] = fate[dirs[j].tok]
          BY <2>5, <2>8, <3>2, <4>1
        <4> QED  BY <4>1, <4>2 DEF LiveOK, expVars
      <3> QED  BY <3>1, <3>2
    <2>11. Budget'
      <3> SUFFICES ASSUME NEW g \in 0 .. MaxGen PROVE fate'[g].used =< MaxExtensions
        BY DEF Budget
      <3>1. CASE g = g0
        <4>1. fate'[g0].used \in Nat
          BY <2>5
        <4> QED  BY ONLY <2>7, <3>1, <4>1, AllocateAssumption
      <3>2. CASE g # g0
        BY <2>5, <3>2 DEF Budget
      <3> QED  BY <3>1, <3>2
    <2>12. AllocOK'
      <3>1. \A q \in Procs \ {p} : alloc[q].pc # "idle" => alloc[q].id # i /\ alloc[q].id \in Ids
        BY <1>1 DEF Exclusive, TypeOK, AllocTypeOK
      <3> QED  BY <1>1, <1>5, <2>4, <3>1 DEF AllocOK
    <2>13. RelOK'
      <3>1. \A q \in Procs : rel[q].pc # "idle" => rel[q].id # i /\ rel[q].id \in Ids
        BY <1>1 DEF Exclusive, TypeOK, RelTypeOK
      <3>2. \A q \in Procs : rel[q].pc # "idle" =>
              /\ live'[rel[q].id] = live[rel[q].id]
              /\ dirs[rel[q].id] # NoDir =>
                      fate'[dirs[rel[q].id].tok] = fate[dirs[rel[q].id].tok]
        BY <2>4, <2>5, <2>8, <3>1
      <3>3. UNCHANGED <<now, rel, gone, trash, dirs>>
        BY <1>1
      <3> QED  BY <3>2, <3>3, RelKept
    <2>14. ExpOK'
      BY <1>3 DEF ExpOK, ExpirePhase, expVars
    <2>15. DirCover'
      <3> SUFFICES ASSUME NEW j \in Ids, dirs'[j] # NoDir
                   PROVE  DirCover!(j)!2'
        BY DEF DirCover
      <3>1. CASE j = i
        BY <2>3, <2>4, <3>1
      <3>2. CASE j # i
        BY <1>1, <1>5, <1>6, <2>4, <3>2 DEF DirCover
      <3> QED  BY <3>1, <3>2
    <2>16. NamesOK'
      <3> SUFFICES ASSUME NEW j \in Ids, NEW t \in Stamps PROVE NamesOK!(j, t)'
        BY DEF NamesOK
      <3>1. NamesOK!(j, t)
        BY DEF NamesOK
      <3>2. live'[j] # NoEntry => live[j] # NoEntry /\ (live'[j].exp = live[j].exp \/ live'[j].exp >= now)
        BY <1>3, <2>2, <2>4
      <3>3. t \in Nat /\ now \in Nat /\ (live'[j] # NoEntry => live'[j].exp \in Nat)
        BY StampFacts, StoreAssumption DEF TypeOK, StoreTypeOK, Entry
      <3> QED  BY <1>1, <3>1, <3>2, <3>3
    <2>17. \A g \in 0 .. MaxGen : KeptLongEnough(g)' <=> KeptLongEnough(g)
      BY <1>1, <2>6 DEF KeptLongEnough
    <2>18. TrashKept'
      BY ZenonT(60), <1>1, <2>5, <2>8 DEF TrashKept, Matches, KeptLongEnough
    <2>19. Retained'
      <3>1. 1 .. gen \subseteq 0 .. MaxGen
        BY <1>2
      <3> QED  BY <1>1, <1>6, <2>6, <2>17, <3>1 DEF Retained
    <2>20. SafeConfig'
      BY DEF SafeConfig
    <2> QED  BY <1>5, <2>9, <2>10, <2>11, <2>12, <2>13, <2>14, <2>15, <2>16, <2>18, <2>19,
                <2>20
  <1> QED  BY <1>4, <1>7, <1>8 DEF ExtendWrite

\* Every step of a creation keeps the invariant.
LEMMA AllocateStepSafe == ASSUME Safe, AllocateStep PROVE Safe'
  <1>1. TypeOK'
    BY AllocateStepType DEF Safe
  <1>2. \A w \in Targets : w[1] \in Ids /\ w[2] = w[1]
    BY DEF Safe, SafeConfig, Targets
  <1> QED  BY <1>1, <1>2, AllocLookupSafe, AllocMkdirSafe, AllocEntrySafe DEF AllocateStep

\* Every step of an extension keeps the invariant.
LEMMA ExtendStepSafe == ASSUME Safe, ExtendStep PROVE Safe'
  <1>1. TypeOK'
    BY ExtendStepType DEF Safe
  <1> QED  BY <1>1, ExtendReadSafe, ExtendWriteSafe DEF ExtendStep

-----------------------------------------------------------------------------
(* ws_release                                                              *)

\* Facts about the workspace a ws_release works on: nobody else does, and the
\* expirer is idle.
LEMMA RelMine ==
    ASSUME Safe, NEW p \in Procs, rel[p].pc # "idle"
    PROVE  /\ rel[p].id \in Ids /\ rel[p].ent \in Entry /\ rel[p].ent # NoEntry
           /\ rel[p].ts \in Stamps /\ <<rel[p].id, rel[p].ts>> \in Names
           /\ xpc = "idle"
           /\ \A q \in Procs \ {p} : rel[q].pc # "idle" => rel[q].id # rel[p].id
           /\ \A q \in Procs : alloc[q].pc # "idle" => alloc[q].id # rel[p].id
  <1>1. /\ rel[p].id \in Ids /\ rel[p].ent \in Entry /\ rel[p].ts \in Stamps
    BY DEF Safe, TypeOK, RelTypeOK, RelState
  <1>2. /\ xpc = "idle"
        /\ \A q \in Procs \ {p} : rel[q].pc # "idle" => rel[q].id # rel[p].id
        /\ \A q \in Procs : alloc[q].pc # "idle" => alloc[q].id # rel[p].id
    BY DEF Safe, Exclusive
  <1> QED  BY <1>1, <1>2, NamePair, StoreAssumption

\* A step of one ws_release leaves alone what another one relies on.
LEMMA RelOthers ==
    ASSUME RelOK, NEW p \in Procs, NEW i, now' = now,
           \A q \in Procs \ {p} : rel'[q] = rel[q],
           \A q \in Procs \ {p} : rel[q].pc # "idle" =>
                rel[q].id \in Ids /\ rel[q].id # i /\ rel[q].ts \in Stamps,
           \A j \in Ids : j # i =>
                /\ live'[j] = live[j] /\ dirs'[j] = dirs[j]
                /\ dirs[j] # NoDir => fate'[dirs[j].tok] = fate[dirs[j].tok]
                /\ \A t \in Stamps : gone'[<<j, t>>] = gone[<<j, t>>]
                                     /\ trash'[<<j, t>>] = trash[<<j, t>>]
    PROVE  \A q \in Procs \ {p} : ReleaseOK(q)'
  <1> SUFFICES ASSUME NEW q \in Procs \ {p}, rel[q].pc # "idle" PROVE ReleaseOK(q)'
    BY DEF ReleaseOK
  <1> DEFINE j == rel[q].id
  <1>1. /\ live'[j] = live[j] /\ dirs'[j] = dirs[j]
        /\ dirs[j] # NoDir => fate'[dirs[j].tok] = fate[dirs[j].tok]
        /\ \A t \in Stamps : gone'[<<j, t>>] = gone[<<j, t>>]
                             /\ trash'[<<j, t>>] = trash[<<j, t>>]
        /\ rel[q].ts \in Stamps /\ rel'[q] = rel[q]
    OBVIOUS
  <1>2. ReleaseOK(q)
    BY DEF RelOK
  <1> QED  BY SMT, ZenonT(90), <1>1, <1>2 DEF ReleaseOK

\* A ws_release that ends frees its workspace; one that goes on keeps it.
LEMMA RelExclusive ==
    ASSUME Safe, NEW p \in Procs, rel[p].pc # "idle", UNCHANGED <<alloc, expVars>>,
           \A q \in Procs \ {p} : rel'[q] = rel[q],
           rel'[p].pc # "idle" => rel'[p].id = rel[p].id
    PROVE  Exclusive'
  BY DEF Safe, Exclusive, expVars

\* A step of ws_release that leaves the store alone.
LEMMA RelLight ==
    ASSUME Safe, UNCHANGED <<storeVars, alloc, expVars>>, TypeOK', Exclusive', RelOK', LiveOK',
           \A j \in Ids : Moving(j)' <=> Moving(j), DirCover'
    PROVE  Safe'
  <1> USE DEF Safe, storeVars, expVars
  <1>1. Tokens' /\ Budget' /\ AllocOK' /\ ExpOK' /\ NamesOK' /\ Swept' /\ ScanYoung'
    BY DEF Tokens, Budget, AllocOK, ExpOK, NamesOK, Swept, ScanYoung
  <1>2. TrashKept'
    BY DEF TrashKept, Matches, KeptLongEnough
  <1>3. Retained'
    BY DEF Retained, KeptLongEnough
  <1>4. SafeConfig'
    BY DEF SafeConfig
  <1> QED  BY <1>1, <1>2, <1>3, <1>4

\* ws_release begins with the entry as it is in the database.
LEMMA ReleaseReadSafe ==
    ASSUME Safe, TypeOK', NEW p \in Procs, NEW i \in Ids, NEW purge \in BOOLEAN,
           MayStart("release", i), ReleaseRead(p, i, purge), UNCHANGED <<alloc, expVars>>
    PROVE  Safe'
  <1> USE DEF Safe
  <1>1. /\ \A q \in Procs : alloc[q].pc # "idle" => alloc[q].id # i
        /\ \A q \in Procs : rel[q].pc # "idle" => rel[q].id # i
        /\ xpc = "idle"
    BY ReleaseAlone
  <1>2. rel[p].pc = "idle" /\ live[i] # NoEntry /\ UNCHANGED <<storeVars, alloc, expVars>>
    BY DEF ReleaseRead
  <1>3. /\ rel'[p].pc = "mark" /\ rel'[p].id = i /\ rel'[p].ts = now /\ rel'[p].ent = live[i]
        /\ \A q \in Procs \ {p} : rel'[q] = rel[q]
    BY DEF ReleaseRead, TypeOK, RelTypeOK
  <1>4. Exclusive'
    BY <1>1, <1>2, <1>3 DEF Exclusive, expVars
  <1>5. RelOK'
    <2>1. \A q \in Procs \ {p} : ReleaseOK(q)'
      <3>1. \A q \in Procs \ {p} : rel[q].pc # "idle" =>
                rel[q].id \in Ids /\ rel[q].id # i /\ rel[q].ts \in Stamps
        BY <1>1 DEF TypeOK, RelTypeOK, RelState
      <3>2. /\ UNCHANGED <<now, live, gone, dirs, trash, fate>>
            /\ \A q \in Procs \ {p} : rel'[q] = rel[q]
        BY <1>2, <1>3 DEF storeVars
      <3> QED  BY <3>1, <3>2, RelOthers
    <2>2. ReleaseOK(p)'
      <3>1. now \in Stamps /\ now \in Nat /\ \A t \in Stamps : t \in Nat
        BY StampFacts, StoreAssumption DEF TypeOK, StoreTypeOK
      <3>2. \A t \in Stamps : t > now => gone[<<i, t>>] = NoEntry /\ trash[<<i, t>>] = NoDir
        BY <3>1 DEF NamesOK
      <3>3. trash[<<i, now>>] # NoDir => gone[<<i, now>>] # NoEntry
        BY <3>1 DEF NamesOK
      <3> QED  BY <1>2, <1>3, <3>1, <3>2, <3>3 DEF storeVars, ReleaseOK
    <2> QED  BY <2>1, <2>2 DEF RelOK
  <1>6. \A j \in Ids : Moving(j)' <=> Moving(j)
    BY <1>2, <1>3 DEF Moving, expVars
  <1>7. LiveOK'
    BY <1>2, <1>3 DEF LiveOK, storeVars, expVars
  <1>8. DirCover'
    BY <1>2, <1>3, <1>6 DEF DirCover, storeVars
  <1> QED  BY <1>2, <1>4, <1>5, <1>6, <1>7, <1>8, RelLight

\* The name is free, or, after a collision, the next one is.
LEMMA ReleaseProbeSafe ==
    ASSUME Safe, TypeOK', NEW p \in Procs, ReleaseProbe(p), UNCHANGED <<alloc, expVars>>
    PROVE  Safe'
  <1> USE DEF Safe
  <1> DEFINE i == rel[p].id
             n == <<i, rel[p].ts>>
             taken == gone[n] # NoEntry
  <1>1. rel[p].pc = "probe" /\ UNCHANGED <<storeVars, alloc, expVars>>
    BY DEF ReleaseProbe
  <1>2. /\ i \in Ids /\ rel[p].ts \in Stamps /\ rel[p].ent \in Entry /\ xpc = "idle"
        /\ \A q \in Procs \ {p} : rel[q].pc # "idle" => rel[q].id # i
    BY <1>1, RelMine
  <1>3. /\ rel'[p].pc = "dbmove" /\ rel'[p].id = i /\ rel'[p].ent = rel[p].ent
        /\ rel'[p].ts = IF taken THEN rel[p].ts + 1 ELSE rel[p].ts
        /\ rel'[p].until = IF taken THEN now + 1 ELSE now
        /\ \A q \in Procs \ {p} : rel'[q] = rel[q]
    BY ZenonT(40) DEF ReleaseProbe, TypeOK, RelTypeOK, RelState
  <1>4. Exclusive'
    BY <1>1, <1>3, RelExclusive
  <1>5. RelOK'
    <2>1. \A q \in Procs \ {p} : ReleaseOK(q)'
      <3>1. \A q \in Procs \ {p} : rel[q].pc # "idle" =>
                rel[q].id \in Ids /\ rel[q].id # i /\ rel[q].ts \in Stamps
        BY <1>2 DEF TypeOK, RelTypeOK, RelState
      <3>2. /\ UNCHANGED <<now, live, gone, dirs, trash, fate>>
            /\ \A q \in Procs \ {p} : rel'[q] = rel[q]
        BY <1>1, <1>3 DEF storeVars
      <3> QED  BY <3>1, <3>2, RelOthers
    <2>2. ReleaseOK(p)'
      <3>1. /\ now \in Nat /\ rel[p].ts \in Nat /\ rel'[p].ts \in Stamps
            /\ rel[p].ent.released \in Nat
        BY <1>2, StampFacts, StoreAssumption DEF TypeOK, StoreTypeOK, RelTypeOK, RelState, Entry
      <3>2. /\ live[i] = rel[p].ent /\ rel[p].ts =< now /\ 0 < rel[p].ent.released
            /\ rel[p].ent.released =< now /\ rel[p].ts =< rel[p].ent.released
            /\ \A t \in Stamps : t > rel[p].ts =>
                    gone[<<i, t>>] = NoEntry /\ trash[<<i, t>>] = NoDir
            /\ trash[n] # NoDir => gone[n] # NoEntry
        BY <1>1 DEF RelOK, ReleaseOK
      <3>3. gone[<<i, rel'[p].ts>>] = NoEntry /\ trash[<<i, rel'[p].ts>>] = NoDir
        <4>1. CASE taken
          BY <1>3, <3>1, <3>2, <4>1
        <4>2. CASE ~taken
          BY <1>3, <3>2, <4>2
        <4> QED  BY <4>1, <4>2
      <3>4. rel'[p].ts =< rel[p].ent.released + 1 /\ rel'[p].ts =< rel'[p].until
        BY <1>3, <3>1, <3>2
      <3> QED  BY <1>1, <1>3, <3>2, <3>3, <3>4 DEF storeVars, ReleaseOK
    <2> QED  BY <2>1, <2>2 DEF RelOK
  <1>6. \A j \in Ids : Moving(j)' <=> Moving(j)
    BY <1>1, <1>3 DEF Moving, expVars
  <1>7. LiveOK'
    <2>1. \A j \in Ids : (\E q \in Procs : rel[q].pc \in {"probe", "dbmove"} /\ rel[q].id = j)
            => (\E q \in Procs : rel'[q].pc \in {"probe", "dbmove"} /\ rel'[q].id = j)
      BY <1>3
    <2> QED  BY <1>1, <2>1 DEF LiveOK, storeVars, expVars
  <1>8. DirCover'
    BY <1>1, <1>3, <1>6 DEF DirCover, storeVars
  <1> QED  BY <1>1, <1>4, <1>5, <1>6, <1>7, <1>8, RelLight

\* release() marks the entry it is about to move.
LEMMA ReleaseMarkSafe ==
    ASSUME Safe, TypeOK', NEW p \in Procs, ReleaseMark(p), UNCHANGED <<alloc, expVars>>
    PROVE  Safe'
  <1> USE DEF Safe
  <1> DEFINE i == rel[p].id
             e == [rel[p].ent EXCEPT !.released = now]
  <1>1. /\ rel[p].pc = "mark" /\ live' = [live EXCEPT ![i] = e]
        /\ UNCHANGED <<now, gone, dirs, trash, gen, fate>>
    BY DEF ReleaseMark, WriteEntry
  <1>2. /\ i \in Ids /\ rel[p].ts \in Stamps /\ rel[p].ent \in Entry /\ xpc = "idle"
        /\ \A q \in Procs \ {p} : rel[q].pc # "idle" => rel[q].id # i
        /\ \A q \in Procs : alloc[q].pc # "idle" => alloc[q].id # i
        /\ now \in Nat /\ now > 0 /\ rel[p].ent # NoEntry
    <2>1. now \in Nat /\ now > 0
      BY StoreAssumption DEF TypeOK, StoreTypeOK
    <2> QED  BY <1>1, <2>1, RelMine
  <1>3. /\ e \in Entry /\ e # NoEntry /\ e.dir = rel[p].ent.dir /\ e.exp = rel[p].ent.exp
        /\ e.ext = rel[p].ent.ext /\ e.released = now /\ e.expired = rel[p].ent.expired
    BY <1>2, StoreAssumption DEF Entry
  <1>4. /\ rel'[p].pc = "probe" /\ rel'[p].id = i /\ rel'[p].ent = e /\ rel'[p].ts = rel[p].ts
        /\ \A q \in Procs \ {p} : rel'[q] = rel[q]
    BY DEF ReleaseMark, TypeOK, RelTypeOK, RelState
  <1> HIDE DEF e
  <1>5. live'[i] = e /\ \A j \in Ids \ {i} : live'[j] = live[j]
    BY <1>1, <1>2 DEF TypeOK, StoreTypeOK
  <1>6. /\ live[i] = rel[p].ent /\ rel[p].ts =< now
        /\ \A t \in Stamps : t > rel[p].ts =>
                gone[<<i, t>>] = NoEntry /\ trash[<<i, t>>] = NoDir
        /\ trash[<<i, rel[p].ts>>] # NoDir => gone[<<i, rel[p].ts>>] # NoEntry
    BY <1>1 DEF RelOK, ReleaseOK
  <1>7. Exclusive'
    BY <1>1, <1>4, RelExclusive
  <1>8. RelOK'
    <2>1. \A q \in Procs \ {p} : ReleaseOK(q)'
      <3>1. \A q \in Procs \ {p} : rel[q].pc # "idle" =>
                rel[q].id \in Ids /\ rel[q].id # i /\ rel[q].ts \in Stamps
        BY <1>2 DEF TypeOK, RelTypeOK, RelState
      <3>2. \A j \in Ids : j # i =>
                /\ live'[j] = live[j] /\ dirs'[j] = dirs[j]
                /\ dirs[j] # NoDir => fate'[dirs[j].tok] = fate[dirs[j].tok]
                /\ \A t \in Stamps : gone'[<<j, t>>] = gone[<<j, t>>]
                                     /\ trash'[<<j, t>>] = trash[<<j, t>>]
        BY <1>1, <1>5
      <3>3. now' = now
        BY <1>1
      <3>4. RelOK
        OBVIOUS
      <3> QED  BY ONLY <1>4, <3>1, <3>2, <3>3, <3>4, RelOthers
    <2>2. ReleaseOK(p)'
      <3>1. rel[p].ts \in Nat
        BY <1>2, StampFacts
      <3> QED  BY <1>1, <1>2, <1>3, <1>4, <1>5, <1>6, <3>1 DEF ReleaseOK
    <2> QED  BY <2>1, <2>2 DEF RelOK
  <1>9. \A j \in Ids : Moving(j)' <=> Moving(j)
    BY <1>1, <1>4 DEF Moving, expVars
  <1>10. Tokens' /\ Budget' /\ Swept' /\ ScanYoung'
    BY <1>1 DEF Tokens, Budget, Swept, ScanYoung, expVars
  <1>11. LiveOK'
    <2> SUFFICES ASSUME NEW j \in Ids, live'[j] # NoEntry
                 PROVE  LiveOK!(j)!2'
      BY DEF LiveOK
    <2>1. CASE j = i
      <3>1. rel'[p].pc \in {"probe", "dbmove"} /\ rel'[p].id = j
        BY <1>4, <2>1
      <3> QED  BY <1>1, <1>2, <1>3, <1>5, <1>6, <2>1, <3>1 DEF LiveOK, expVars
    <2>2. CASE j # i
      <3>1. (\E q \in Procs : rel[q].pc \in {"probe", "dbmove"} /\ rel[q].id = j)
            => (\E q \in Procs : rel'[q].pc \in {"probe", "dbmove"} /\ rel'[q].id = j)
        BY <1>4
      <3> QED  BY <1>1, <1>5, <2>2, <3>1 DEF LiveOK, expVars
    <2> QED  BY <2>1, <2>2
  <1>12. AllocOK'
    <2>1. \A q \in Procs : alloc[q].pc # "idle" => alloc[q].id \in Ids /\ alloc[q].id # i
      BY <1>2 DEF TypeOK, AllocTypeOK
    <2> QED  BY <1>1, <1>5, <2>1 DEF AllocOK
  <1>13. ExpOK'
    BY <1>2 DEF ExpOK, expVars
  <1>14. DirCover'
    BY <1>1, <1>3, <1>4, <1>5, <1>9 DEF DirCover
  <1>15. NamesOK'
    <2> SUFFICES ASSUME NEW j \in Ids, NEW t \in Stamps PROVE NamesOK!(j, t)'
      BY DEF NamesOK
    <2>1. NamesOK!(j, t)
      BY DEF NamesOK
    <2>2. live'[j] # NoEntry => live[j] # NoEntry /\ live'[j].exp = live[j].exp
      BY <1>2, <1>3, <1>5, <1>6
    <2> QED  BY <1>1, <2>1, <2>2
  <1>16. TrashKept' /\ Retained'
    BY <1>1, <1>9 DEF TrashKept, Matches, KeptLongEnough, Retained
  <1>17. SafeConfig'
    BY DEF SafeConfig
  <1> QED  BY <1>7, <1>8, <1>10, <1>11, <1>12, <1>13, <1>14, <1>15, <1>16, <1>17

\* The entry moves to a name that is free, and the promise to the user begins.
LEMMA ReleaseDbMoveSafe ==
    ASSUME Safe, TypeOK', NEW p \in Procs, ReleaseDbMove(p), UNCHANGED <<alloc, expVars>>
    PROVE  Safe'
  <1> USE DEF Safe
  <1> DEFINE r == rel[p]
             i == r.id
             n == <<i, r.ts>>
             g0 == dirs[i].tok
             st == IF r.purge THEN "purged" ELSE "released"
  <1>1. /\ r.pc = "dbmove" /\ now >= r.until
    BY DEF ReleaseDbMove
  <1>2. /\ i \in Ids /\ r.ts \in Stamps /\ r.ent \in Entry /\ xpc = "idle" /\ n \in Names
        /\ \A q \in Procs \ {p} : rel[q].pc # "idle" => rel[q].id # i
        /\ \A q \in Procs : alloc[q].pc # "idle" => alloc[q].id # i
        /\ r.ent # NoEntry
    BY <1>1, RelMine
  <1>3. /\ live[i] = r.ent /\ 0 < r.ent.released /\ r.ent.released =< now
        /\ r.ts =< r.ent.released + 1 /\ r.ts =< r.until /\ gone[n] = NoEntry
        /\ trash[n] = NoDir
    BY <1>1 DEF RelOK, ReleaseOK
  <1>4. /\ r.ent.dir = i /\ dirs[i] # NoDir /\ g0 \in 1 .. gen /\ g0 \in 0 .. MaxGen
    BY <1>2, <1>3, StoreAssumption DEF LiveOK, Tokens, TypeOK, StoreTypeOK
  <1>5. /\ gone' = [gone EXCEPT ![n] = live[i]]
        /\ live' = [live EXCEPT ![i] = NoEntry]
        /\ fate' = [fate EXCEPT ![g0] = [st |-> st, at |-> r.ent.released,
                                         used |-> fate[g0].used]]
        /\ UNCHANGED <<now, dirs, trash, gen>>
    BY <1>2, <1>3, <1>4 DEF ReleaseDbMove, MoveEntry, SetFate
  <1>6. /\ rel'[p].pc = IF r.purge THEN "purge" ELSE "dirmove"
        /\ rel'[p].id = i /\ rel'[p].ent = r.ent /\ rel'[p].ts = r.ts
        /\ \A q \in Procs \ {p} : rel'[q] = rel[q]
    BY <1>2, <1>3 DEF ReleaseDbMove, TypeOK, RelTypeOK, RelState
  <1>7. /\ live'[i] = NoEntry /\ \A j \in Ids \ {i} : live'[j] = live[j]
        /\ gone'[n] = r.ent /\ \A m \in Names \ {n} : gone'[m] = gone[m]
        /\ fate'[g0].st = st /\ fate'[g0].at = r.ent.released
        /\ fate'[g0].used = fate[g0].used
        /\ \A g \in (0 .. MaxGen) \ {g0} : fate'[g] = fate[g]
    BY <1>2, <1>3, <1>4, <1>5 DEF TypeOK, StoreTypeOK
  <1>8. /\ \A j \in Ids \ {i} : dirs[j] # NoDir =>
                dirs[j].tok \in 0 .. MaxGen /\ dirs[j].tok # g0
        /\ \A m \in Names : trash[m] # NoDir => trash[m].tok \in 0 .. MaxGen /\ trash[m].tok # g0
    BY <1>2, <1>4, StoreAssumption DEF Tokens, TypeOK, StoreTypeOK, Dir
  <1>9. /\ r.ts \in Nat /\ now \in Nat /\ r.until \in Nat /\ r.ts =< now
        /\ r.ent.released \in Nat
    <2>1. r.ts \in Nat /\ r.ent.released \in Nat
      BY <1>2, StampFacts DEF Entry
    <2>2. now \in Nat /\ r.until \in Nat
      BY StoreAssumption DEF TypeOK, StoreTypeOK, RelTypeOK, RelState
    <2> QED  BY <1>1, <1>3, <2>1, <2>2
  <1>10. Exclusive'
    BY <1>1, <1>6, RelExclusive
  <1>11. RelOK'
    <2>1. \A q \in Procs \ {p} : ReleaseOK(q)'
      <3>1. \A q \in Procs \ {p} : rel[q].pc # "idle" =>
                rel[q].id \in Ids /\ rel[q].id # i /\ rel[q].ts \in Stamps
        BY <1>2 DEF TypeOK, RelTypeOK, RelState
      <3>2. \A j \in Ids : j # i =>
                /\ live'[j] = live[j] /\ dirs'[j] = dirs[j]
                /\ dirs[j] # NoDir => fate'[dirs[j].tok] = fate[dirs[j].tok]
                /\ \A t \in Stamps : gone'[<<j, t>>] = gone[<<j, t>>]
                                     /\ trash'[<<j, t>>] = trash[<<j, t>>]
        <4>1. \A j \in Ids, t \in Stamps : j # i => <<j, t>> # n /\ <<j, t>> \in Names
          BY NamePair
        <4> QED  BY ZenonT(60), <1>5, <1>7, <1>8, <4>1
      <3>3. now' = now
        BY <1>5
      <3>4. RelOK
        OBVIOUS
      <3> QED  BY ONLY <1>6, <3>1, <3>2, <3>3, <3>4, RelOthers
    <2>2. ReleaseOK(p)'
      BY ZenonT(60), <1>2, <1>3, <1>4, <1>5, <1>6, <1>7, <1>9 DEF ReleaseOK
    <2> QED  BY <2>1, <2>2 DEF RelOK
  <1>12. Tokens' /\ Swept' /\ ScanYoung' /\ ExpOK'
    BY <1>2, <1>5 DEF Tokens, Swept, ScanYoung, ScanPhase, ExpOK, expVars
  <1>13. Budget'
    BY <1>4, <1>7 DEF Budget
  <1>14. LiveOK'
    <2> SUFFICES ASSUME NEW j \in Ids, live'[j] # NoEntry
                 PROVE  LiveOK!(j)!2'
      BY DEF LiveOK
    <2>1. j # i /\ live'[j] = live[j] /\ dirs'[j] = dirs[j] /\ dirs[j] # NoDir
      BY ZenonT(60), <1>5, <1>7 DEF LiveOK
    <2>2. fate'[dirs[j].tok] = fate[dirs[j].tok]
      BY <1>7, <1>8, <2>1
    <2>3. (\E q \in Procs : rel[q].pc \in {"probe", "dbmove"} /\ rel[q].id = j)
          => (\E q \in Procs : rel'[q].pc \in {"probe", "dbmove"} /\ rel'[q].id = j)
      BY <1>6, <2>1
    <2> QED  BY <2>1, <2>2, <2>3 DEF LiveOK, expVars
  <1>15. AllocOK'
    <2>1. \A q \in Procs : alloc[q].pc # "idle" => alloc[q].id \in Ids /\ alloc[q].id # i
      BY <1>2 DEF TypeOK, AllocTypeOK
    <2>2. AllocOK /\ UNCHANGED <<alloc, now>>
      BY <1>1, <1>5
    <2> QED  BY ONLY <1>5, <1>7, <2>1, <2>2 DEF AllocOK
  <1>16. \A j \in Ids : /\ j # i => (Moving(j)' <=> Moving(j))
                        /\ j = i => ~Moving(j) /\ (~r.purge => Moving(j)')
    BY <1>1, <1>2, <1>6 DEF Moving, expVars
  <1>17. DirCover'
    <2> SUFFICES ASSUME NEW j \in Ids, dirs'[j] # NoDir
                 PROVE  DirCover!(j)!2'
      BY DEF DirCover
    <2>1. CASE j = i
      BY <1>6, <1>16, <2>1
    <2>2. CASE j # i
      BY SMT, ZenonT(90), <1>1, <1>5, <1>6, <1>7, <1>16, <2>2 DEF DirCover
    <2> QED  BY <2>1, <2>2
  <1>18. NamesOK'
    <2> SUFFICES ASSUME NEW j \in Ids, NEW t \in Stamps PROVE NamesOK!(j, t)'
      BY DEF NamesOK
    <2>1. CASE <<j, t>> = n
      <3>1. NamesOK
        OBVIOUS
      <3> QED  BY ONLY <1>3, <1>5, <1>7, <1>9, <2>1, <3>1, NamePair DEF NamesOK
    <2>2. CASE <<j, t>> # n
      BY ZenonT(60), <1>5, <1>7, <2>2, NamePair DEF NamesOK
    <2> QED  BY <2>1, <2>2
  <1>19. TrashKept'
    <2> SUFFICES ASSUME NEW m \in Names, trash[m] # NoDir, trash[m].tok # 0
                 PROVE  Matches(m, trash[m].tok)' \/ KeptLongEnough(trash[m].tok)'
      BY <1>5 DEF TrashKept
    <2>1. m # n /\ gone'[m] = gone[m] /\ fate'[trash[m].tok] = fate[trash[m].tok]
      BY <1>3, <1>7, <1>8
    <2> QED  BY <1>5, <2>1 DEF TrashKept, Matches, KeptLongEnough
  <1>20. Retained'
    <2> SUFFICES ASSUME NEW g \in 1 .. gen, fate'[g].st \in {"released", "expired"},
                        ~KeptLongEnough(g)'
                 PROVE  \/ \E m \in Names : trash[m] # NoDir /\ trash[m].tok = g
                        \/ \E j \in Ids : dirs[j] # NoDir /\ dirs[j].tok = g /\ Moving(j)'
      BY <1>5 DEF Retained
    <2>1. CASE g = g0
      <3>1. ~r.purge
        BY <1>7, <2>1
      <3> QED  BY <1>2, <1>4, <1>16, <2>1, <3>1
    <2>2. CASE g # g0
      <3>1. fate'[g] = fate[g]
        BY <1>7, <2>2, StoreAssumption DEF TypeOK, StoreTypeOK
      <3>2. ~KeptLongEnough(g)
        BY <1>5, <3>1 DEF KeptLongEnough
      <3> QED  BY <1>16, <3>1, <3>2 DEF Retained
    <2> QED  BY <2>1, <2>2
  <1>21. SafeConfig'
    BY DEF SafeConfig
  <1> QED  BY <1>10, <1>11, <1>12, <1>13, <1>14, <1>15, <1>17, <1>18, <1>19, <1>20, <1>21

\* The directory arrives under the name of its released entry.
LEMMA ReleaseDirMoveSafe ==
    ASSUME Safe, TypeOK', NEW p \in Procs, ReleaseDirMove(p), UNCHANGED <<alloc, expVars>>
    PROVE  Safe'
  <1> USE DEF Safe
  <1> DEFINE r == rel[p]
             i == r.id
             n == <<i, r.ts>>
             g0 == dirs[i].tok
  <1>1. r.pc = "dirmove" /\ rel' = [rel EXCEPT ![p] = RelIdle]
    BY DEF ReleaseDirMove
  <1>2. /\ i \in Ids /\ r.ts \in Stamps /\ xpc = "idle" /\ n \in Names
        /\ \A q \in Procs \ {p} : rel[q].pc # "idle" => rel[q].id # i
        /\ \A q \in Procs : alloc[q].pc # "idle" => alloc[q].id # i
    BY <1>1, RelMine
  <1>3. /\ live[i] = NoEntry /\ r.ent.dir = i /\ gone[n] # NoEntry /\ trash[n] = NoDir
        /\ dirs[i] # NoDir /\ r.ts =< now /\ gone[n].released = fate[g0].at
        /\ 0 < fate[g0].at /\ fate[g0].st = "released"
    BY <1>1 DEF RelOK, ReleaseOK
  <1>4. /\ trash' = [trash EXCEPT ![n] = dirs[i]]
        /\ dirs' = [dirs EXCEPT ![i] = NoDir]
        /\ UNCHANGED <<now, live, gone, gen, fate>>
    BY <1>3 DEF ReleaseDirMove, TryMoveDir
  <1>5. /\ trash'[n] = dirs[i] /\ \A m \in Names \ {n} : trash'[m] = trash[m]
        /\ dirs'[i] = NoDir /\ \A j \in Ids \ {i} : dirs'[j] = dirs[j]
    BY <1>2, <1>4 DEF TypeOK, StoreTypeOK
  <1>6. rel'[p].pc = "idle" /\ \A q \in Procs \ {p} : rel'[q] = rel[q]
    BY <1>1 DEF TypeOK, RelTypeOK, RelIdle
  <1>7. Exclusive'
    BY <1>1, <1>6, RelExclusive
  <1>8. RelOK'
    <2>1. \A q \in Procs \ {p} : ReleaseOK(q)'
      <3>1. \A q \in Procs \ {p} : rel[q].pc # "idle" =>
                rel[q].id \in Ids /\ rel[q].id # i /\ rel[q].ts \in Stamps
        BY <1>2 DEF TypeOK, RelTypeOK, RelState
      <3>2. \A j \in Ids : j # i =>
                /\ live'[j] = live[j] /\ dirs'[j] = dirs[j]
                /\ dirs[j] # NoDir => fate'[dirs[j].tok] = fate[dirs[j].tok]
                /\ \A t \in Stamps : gone'[<<j, t>>] = gone[<<j, t>>]
                                     /\ trash'[<<j, t>>] = trash[<<j, t>>]
        <4>1. \A j \in Ids, t \in Stamps : j # i => <<j, t>> # n /\ <<j, t>> \in Names
          BY NamePair
        <4> QED  BY <1>4, <1>5, <4>1
      <3>3. now' = now
        BY <1>4
      <3>4. RelOK
        OBVIOUS
      <3>5. \A q \in Procs \ {p} : rel'[q] = rel[q]
        BY ONLY <1>6
      <3> HIDE DEF i
      <3> QED  BY ONLY <3>1, <3>2, <3>3, <3>4, <3>5, RelOthers
    <2>2. ReleaseOK(p)'
      BY <1>6 DEF ReleaseOK
    <2> QED  BY <2>1, <2>2 DEF RelOK
  <1>9. Swept' /\ ScanYoung' /\ ExpOK' /\ Budget'
    BY <1>2, <1>4 DEF Swept, ScanYoung, ScanPhase, ExpOK, expVars, Budget
  <1>10. Tokens'
    <2>1. gen \in Nat /\ g0 \in 1 .. gen
      BY <1>2, <1>3, StoreAssumption DEF Tokens, TypeOK, StoreTypeOK
    <2> QED  BY <1>2, <1>4, <1>5, <2>1 DEF Tokens
  <1>11. LiveOK'
    <2> SUFFICES ASSUME NEW j \in Ids, live'[j] # NoEntry
                 PROVE  LiveOK!(j)!2'
      BY DEF LiveOK
    <2>1. j # i /\ live'[j] = live[j] /\ dirs'[j] = dirs[j] /\ fate' = fate
      BY <1>3, <1>4, <1>5
    <2>2. (\E q \in Procs : rel[q].pc \in {"probe", "dbmove"} /\ rel[q].id = j)
          => (\E q \in Procs : rel'[q].pc \in {"probe", "dbmove"} /\ rel'[q].id = j)
      BY <1>1, <1>6
    <2> QED  BY <2>1, <2>2 DEF LiveOK, expVars
  <1>12. AllocOK'
    <2>1. \A q \in Procs : alloc[q].pc # "idle" => alloc[q].id \in Ids /\ alloc[q].id # i
      BY <1>2 DEF TypeOK, AllocTypeOK
    <2> QED  BY <1>4, <1>5, <2>1 DEF AllocOK
  <1>13. \A j \in Ids : j # i => (Moving(j)' <=> Moving(j))
    BY <1>1, <1>6 DEF Moving, expVars
  <1>14. DirCover'
    <2> SUFFICES ASSUME NEW j \in Ids, dirs'[j] # NoDir
                 PROVE  DirCover!(j)!2'
      BY DEF DirCover
    <2>1. j # i
      BY <1>5
    <2> QED  BY <1>1, <1>4, <1>5, <1>6, <1>13, <2>1 DEF DirCover
  <1>15. NamesOK'
    <2> SUFFICES ASSUME NEW j \in Ids, NEW t \in Stamps PROVE NamesOK!(j, t)'
      BY DEF NamesOK
    <2>1. CASE <<j, t>> = n
      BY <1>3, <1>4, <2>1, NamePair DEF NamesOK
    <2>2. CASE <<j, t>> # n
      BY <1>4, <1>5, <2>2, NamePair DEF NamesOK
    <2> QED  BY <2>1, <2>2
  <1>16. TrashKept'
    <2> SUFFICES ASSUME NEW m \in Names, trash'[m] # NoDir, trash'[m].tok # 0
                 PROVE  Matches(m, trash[m].tok)' \/ KeptLongEnough(trash[m].tok)'
      BY DEF TrashKept
    <2>1. CASE m = n
      BY <1>3, <1>4, <1>5, <2>1 DEF Matches
    <2>2. CASE m # n
      BY <1>4, <1>5, <2>2 DEF TrashKept, Matches, KeptLongEnough
    <2> QED  BY <2>1, <2>2
  <1>17. Retained'
    <2> SUFFICES ASSUME NEW g \in 1 .. gen, fate[g].st \in {"released", "expired"},
                        ~KeptLongEnough(g)
                 PROVE  \/ \E m \in Names : trash'[m] # NoDir /\ trash'[m].tok = g
                        \/ \E j \in Ids : dirs'[j] # NoDir /\ dirs'[j].tok = g /\ Moving(j)'
      BY <1>4 DEF Retained, KeptLongEnough
    <2>1. CASE g = g0
      BY <1>2, <1>3, <1>5, <2>1
    <2>2. CASE \E m \in Names : trash[m] # NoDir /\ trash[m].tok = g
      BY <1>3, <1>5, <2>2
    <2>3. CASE g # g0 /\ \E j \in Ids : dirs[j] # NoDir /\ dirs[j].tok = g /\ Moving(j)
      BY <1>5, <1>13, <2>3
    <2> QED  BY <2>1, <2>2, <2>3 DEF Retained
  <1>18. SafeConfig'
    BY DEF SafeConfig
  <1> QED  BY <1>7, <1>8, <1>9, <1>10, <1>11, <1>12, <1>14, <1>15, <1>16, <1>17, <1>18

\* --delete-data removes the data its user gave up, and no other.
LEMMA ReleasePurgeSafe ==
    ASSUME Safe, TypeOK', NEW p \in Procs, ReleasePurge(p, TRUE), UNCHANGED <<alloc, expVars>>
    PROVE  Safe'
  <1> USE DEF Safe
  <1> DEFINE r == rel[p]
             i == r.id
  <1>1. r.pc = "purge"
    BY DEF ReleasePurge
  <1>2. /\ i \in Ids /\ r.ts \in Stamps /\ xpc = "idle"
        /\ \A q \in Procs \ {p} : rel[q].pc # "idle" => rel[q].id # i
        /\ \A q \in Procs : alloc[q].pc # "idle" => alloc[q].id # i
    BY <1>1, RelMine
  <1>3. /\ live[i] = NoEntry /\ r.ent.dir = i /\ gone[<<i, r.ts>>] # NoEntry
        /\ trash[<<i, r.ts>>] = NoDir
        /\ dirs[i] # NoDir => fate[dirs[i].tok].st = "purged"
    BY <1>1 DEF RelOK, ReleaseOK
  <1>4. dirs' = [dirs EXCEPT ![i] = NoDir] /\ UNCHANGED <<now, live, gone, trash, gen, fate>>
    BY <1>3 DEF ReleasePurge
  <1>5. dirs'[i] = NoDir /\ \A j \in Ids \ {i} : dirs'[j] = dirs[j]
    BY <1>2, <1>4 DEF TypeOK, StoreTypeOK
  <1>6. /\ rel'[p].pc = "forget" /\ rel'[p].id = i /\ rel'[p].ts = r.ts /\ rel'[p].ent = r.ent
        /\ \A q \in Procs \ {p} : rel'[q] = rel[q]
    BY DEF ReleasePurge, TypeOK, RelTypeOK, RelState
  <1>7. Exclusive'
    BY <1>1, <1>6, RelExclusive
  <1>8. RelOK'
    <2>1. \A q \in Procs \ {p} : ReleaseOK(q)'
      <3>1. \A q \in Procs \ {p} : rel[q].pc # "idle" =>
                rel[q].id \in Ids /\ rel[q].id # i /\ rel[q].ts \in Stamps
        BY <1>2 DEF TypeOK, RelTypeOK, RelState
      <3>2. \A j \in Ids : j # i =>
                /\ live'[j] = live[j] /\ dirs'[j] = dirs[j]
                /\ dirs[j] # NoDir => fate'[dirs[j].tok] = fate[dirs[j].tok]
                /\ \A t \in Stamps : gone'[<<j, t>>] = gone[<<j, t>>]
                                     /\ trash'[<<j, t>>] = trash[<<j, t>>]
        BY <1>4, <1>5
      <3>3. now' = now
        BY <1>4
      <3>4. RelOK
        OBVIOUS
      <3> QED  BY ONLY <1>6, <3>1, <3>2, <3>3, <3>4, RelOthers
    <2>2. ReleaseOK(p)'
      BY <1>3, <1>4, <1>6 DEF ReleaseOK
    <2> QED  BY <2>1, <2>2 DEF RelOK
  <1>9. Swept' /\ ScanYoung' /\ ExpOK' /\ Budget' /\ NamesOK'
    BY <1>2, <1>4 DEF Swept, ScanYoung, ScanPhase, ExpOK, expVars, Budget, NamesOK
  <1>10. Tokens'
    BY <1>4, <1>5 DEF Tokens
  <1>11. LiveOK'
    <2> SUFFICES ASSUME NEW j \in Ids, live'[j] # NoEntry
                 PROVE  LiveOK!(j)!2'
      BY DEF LiveOK
    <2>1. j # i /\ live'[j] = live[j] /\ dirs'[j] = dirs[j] /\ fate' = fate
      BY <1>3, <1>4, <1>5
    <2>2. (\E q \in Procs : rel[q].pc \in {"probe", "dbmove"} /\ rel[q].id = j)
          => (\E q \in Procs : rel'[q].pc \in {"probe", "dbmove"} /\ rel'[q].id = j)
      BY <1>1, <1>6
    <2> QED  BY <2>1, <2>2 DEF LiveOK, expVars
  <1>12. AllocOK'
    <2>1. \A q \in Procs : alloc[q].pc # "idle" => alloc[q].id \in Ids /\ alloc[q].id # i
      BY <1>2 DEF TypeOK, AllocTypeOK
    <2> QED  BY <1>4, <1>5, <2>1 DEF AllocOK
  <1>13. \A j \in Ids : (Moving(j)' <=> Moving(j)) /\ (j = i => ~Moving(j))
    BY <1>1, <1>2, <1>6 DEF Moving, expVars
  <1>14. DirCover'
    <2> SUFFICES ASSUME NEW j \in Ids, dirs'[j] # NoDir
                 PROVE  DirCover!(j)!2'
      BY DEF DirCover
    <2>1. j # i
      BY <1>5
    <2> QED  BY <1>1, <1>4, <1>5, <1>6, <1>13, <2>1 DEF DirCover
  <1>15. TrashKept'
    BY <1>4 DEF TrashKept, Matches, KeptLongEnough
  <1>16. Retained'
    <2>1. \A j \in Ids : dirs[j] # NoDir /\ Moving(j) => dirs'[j] = dirs[j]
      BY <1>5, <1>13
    <2> QED  BY <1>4, <1>13, <2>1 DEF Retained, KeptLongEnough
  <1>17. SafeConfig'
    BY DEF SafeConfig
  <1> QED  BY <1>7, <1>8, <1>9, <1>10, <1>11, <1>12, <1>14, <1>15, <1>16, <1>17

\* --delete-data removes the entry of the data it removed, and no other.
LEMMA ReleaseForgetSafe ==
    ASSUME Safe, TypeOK', NEW p \in Procs, ReleaseForget(p), UNCHANGED <<alloc, expVars>>
    PROVE  Safe'
  <1> USE DEF Safe
  <1> DEFINE r == rel[p]
             i == r.id
             n == <<i, r.ts>>
  <1>1. /\ r.pc = "forget" /\ rel' = [rel EXCEPT ![p] = RelIdle]
        /\ gone' = [gone EXCEPT ![n] = NoEntry]
        /\ UNCHANGED <<now, live, dirs, trash, gen, fate>>
    BY DEF ReleaseForget
  <1>2. /\ i \in Ids /\ r.ts \in Stamps /\ xpc = "idle" /\ n \in Names
        /\ \A q \in Procs \ {p} : rel[q].pc # "idle" => rel[q].id # i
    BY <1>1, RelMine
  <1>3. trash[n] = NoDir
    BY <1>1 DEF RelOK, ReleaseOK
  <1>4. gone'[n] = NoEntry /\ \A m \in Names \ {n} : gone'[m] = gone[m]
    BY <1>1, <1>2 DEF TypeOK, StoreTypeOK
  <1>5. rel'[p].pc = "idle" /\ \A q \in Procs \ {p} : rel'[q] = rel[q]
    BY <1>1 DEF TypeOK, RelTypeOK, RelIdle
  <1>6. Exclusive'
    BY <1>1, <1>5, RelExclusive
  <1>7. RelOK'
    <2>1. \A q \in Procs \ {p} : ReleaseOK(q)'
      <3>1. \A q \in Procs \ {p} : rel[q].pc # "idle" =>
                rel[q].id \in Ids /\ rel[q].id # i /\ rel[q].ts \in Stamps
        BY <1>2 DEF TypeOK, RelTypeOK, RelState
      <3>2. \A j \in Ids : j # i =>
                /\ live'[j] = live[j] /\ dirs'[j] = dirs[j]
                /\ dirs[j] # NoDir => fate'[dirs[j].tok] = fate[dirs[j].tok]
                /\ \A t \in Stamps : gone'[<<j, t>>] = gone[<<j, t>>]
                                     /\ trash'[<<j, t>>] = trash[<<j, t>>]
        <4>1. \A j \in Ids, t \in Stamps : j # i => <<j, t>> # n /\ <<j, t>> \in Names
          BY NamePair
        <4> QED  BY <1>1, <1>4, <4>1
      <3>3. now' = now
        BY <1>1
      <3>4. RelOK
        OBVIOUS
      <3>5. \A q \in Procs \ {p} : rel'[q] = rel[q]
        BY ONLY <1>5
      <3> HIDE DEF i
      <3> QED  BY ONLY <3>1, <3>2, <3>3, <3>4, <3>5, RelOthers
    <2>2. ReleaseOK(p)'
      BY <1>5 DEF ReleaseOK
    <2> QED  BY <2>1, <2>2 DEF RelOK
  <1>8. Swept' /\ ScanYoung' /\ ExpOK' /\ Budget' /\ Tokens' /\ AllocOK'
    BY <1>1, <1>2 DEF Swept, ScanYoung, ScanPhase, ExpOK, expVars, Budget, Tokens, AllocOK
  <1>9. LiveOK'
    <2>1. \A j \in Ids : (\E q \in Procs : rel[q].pc \in {"probe", "dbmove"} /\ rel[q].id = j)
            => (\E q \in Procs : rel'[q].pc \in {"probe", "dbmove"} /\ rel'[q].id = j)
      BY <1>1, <1>5
    <2>2. UNCHANGED <<live, dirs, fate>>
      BY <1>1
    <2> QED  BY <2>1, <2>2 DEF LiveOK, expVars
  <1>10. \A j \in Ids : Moving(j)' <=> Moving(j)
    BY <1>1, <1>5 DEF Moving, expVars
  <1>11. DirCover'
    BY <1>1, <1>5, <1>10 DEF DirCover
  <1>12. NamesOK'
    <2> SUFFICES ASSUME NEW j \in Ids, NEW t \in Stamps PROVE NamesOK!(j, t)'
      BY DEF NamesOK
    <2>1. CASE <<j, t>> = n
      BY <1>1, <1>3, <1>4, <2>1
    <2>2. CASE <<j, t>> # n
      BY <1>1, <1>4, <2>2, NamePair DEF NamesOK
    <2> QED  BY <2>1, <2>2
  <1>13. TrashKept'
    BY <1>1, <1>3, <1>4 DEF TrashKept, Matches, KeptLongEnough
  <1>14. Retained'
    BY <1>1, <1>10 DEF Retained, KeptLongEnough
  <1>15. SafeConfig'
    BY DEF SafeConfig
  <1> QED  BY <1>6, <1>7, <1>8, <1>9, <1>11, <1>12, <1>13, <1>14, <1>15

\* Every step of ws_release keeps the invariant.
LEMMA ReleaseStepSafe == ASSUME Safe, ReleaseStep PROVE Safe'
  <1>1. TypeOK'
    BY ReleaseStepType DEF Safe
  <1>2. "purge" \notin Faults
    BY DEF Safe, SafeConfig
  <1> QED  BY <1>1, <1>2, ReleaseReadSafe, ReleaseMarkSafe, ReleaseProbeSafe,
              ReleaseDbMoveSafe, ReleaseDirMoveSafe, ReleasePurgeSafe, ReleaseForgetSafe
           DEF ReleaseStep

-----------------------------------------------------------------------------
(* The clock                                                               *)

\* Time passing keeps the invariant: no running tool is overtaken.
LEMMA TickSafe == ASSUME Safe, Tick PROVE Safe'
  <1> USE DEF Safe
  <1>1. TypeOK'
    BY TickType
  <1>2. /\ now \in Nat /\ now' = now + 1
        /\ UNCHANGED <<live, gone, dirs, trash, gen, fate, alloc, rel,
                       xpc, xstart, xids, xnames, xcur, xent>>
    BY StoreAssumption DEF Tick, disk, expVars, TypeOK, StoreTypeOK
  <1>3. Exclusive' /\ Tokens' /\ LiveOK' /\ Budget' /\ DirCover' /\ Swept'
    BY <1>2 DEF Exclusive, Tokens, LiveOK, Budget, DirCover, Moving, Swept
  <1>4. AllocOK'
    <2>1. \A p \in Procs : alloc[p].since \in Nat
      BY DEF TypeOK, AllocTypeOK, AllocState
    <2>2. \A p \in Procs : alloc[p].pc = "entry" => now < alloc[p].since + MaxAlloc
      BY DEF Tick
    <2> QED  BY <1>2, <2>1, <2>2, AllocateAssumption DEF AllocOK
  <1>5. RelOK'
    <2> SUFFICES ASSUME NEW p \in Procs PROVE ReleaseOK(p)'
      BY DEF RelOK
    <2>1. ReleaseOK(p)
      BY DEF RelOK
    <2>2. rel[p].ts \in Nat /\ (rel[p].pc # "idle" => rel[p].ent.released \in Nat)
      BY StampFacts DEF TypeOK, RelTypeOK, RelState, Entry
    <2> QED  BY ONLY <1>2, <2>1, <2>2 DEF ReleaseOK
  <1>6. ExpOK'
    <2>1. xcur \in Names => xcur[2] \in Nat
      BY NamePair, StampFacts
    <2> QED  BY <1>2, <2>1 DEF ExpOK, TypeOK, ExpTypeOK
  <1>7. NamesOK'
    <2> SUFFICES ASSUME NEW j \in Ids, NEW t \in Stamps PROVE NamesOK!(j, t)'
      BY DEF NamesOK
    <2>1. NamesOK!(j, t) /\ t \in Nat
      BY StampFacts DEF NamesOK
    <2> QED  BY <1>2, <2>1
  <1>8. \A g \in 0 .. MaxGen : KeptLongEnough(g) => KeptLongEnough(g)'
    <2>1. \A g \in 0 .. MaxGen : fate[g].at \in Nat
      BY DEF TypeOK, StoreTypeOK, Fate
    <2> QED  BY <1>2, <2>1, StoreAssumption DEF KeptLongEnough
  <1>9. TrashKept'
    <2> SUFFICES ASSUME NEW n \in Names, trash[n] # NoDir, trash[n].tok # 0
                 PROVE  Matches(n, trash[n].tok)' \/ KeptLongEnough(trash[n].tok)'
      BY <1>2 DEF TrashKept
    <2>1. trash[n].tok \in 0 .. MaxGen
      BY DEF TypeOK, StoreTypeOK, Dir
    <2>2. CASE Matches(n, trash[n].tok)
      BY <1>2, <2>2 DEF Matches
    <2>3. CASE KeptLongEnough(trash[n].tok)
      <3>1. \A g \in 0 .. MaxGen : g = trash[n].tok => KeptLongEnough(g)'
        BY <1>8, <2>3
      <3> QED  BY <1>2, <2>1, <3>1 DEF KeptLongEnough
    <2> QED  BY <2>2, <2>3 DEF TrashKept
  <1>10. Retained'
    <2>1. 1 .. gen \subseteq 0 .. MaxGen
      BY StoreAssumption DEF TypeOK, StoreTypeOK
    <2> QED  BY <1>2, <1>8, <2>1 DEF Retained, Moving
  <1>11. ScanYoung'
    <2>1. xpc \in ScanPhase => now < xstart + MaxScan
      BY DEF Tick
    <2>2. xstart \in Nat /\ MaxScan \in Nat
      BY StoreAssumption, ExpirerAssumption DEF TypeOK, ExpTypeOK
    <2> QED  BY <1>2, <2>1, <2>2 DEF ScanYoung
  <1>12. SafeConfig'
    BY DEF SafeConfig
  <1> QED  BY <1>1, <1>3, <1>4, <1>5, <1>6, <1>7, <1>9, <1>10, <1>11, <1>12

-----------------------------------------------------------------------------
(* The theorems                                                            *)

\* Every step of the system keeps the inductive invariant.
LEMMA SafeStep == ASSUME Safe, [Next]_vars PROVE Safe'
  <1>1. CASE UNCHANGED vars
    <2>1. UNCHANGED <<storeVars, alloc, rel, expVars>>
      BY <1>1 DEF vars
    <2>2. TypeOK'
      BY TypeStep DEF Safe
    <2>3. Exclusive' /\ AllocOK' /\ DirCover'
      BY <2>1 DEF Safe, Exclusive, AllocOK, DirCover, Moving, storeVars, expVars
    <2> QED  BY <2>1, <2>2, <2>3, AllocLight
  <1>2. ~CrashStep
    BY DEF Safe, SafeConfig, CrashStep
  <1> QED  BY <1>1, <1>2, AllocateStepSafe, ExtendStepSafe, ReleaseStepSafe, StrayStepSafe,
              ExpireStepSafe, TickSafe DEF Next

\* Under SafeConfig, Safe holds in every reachable state: whatever is interleaved,
\* what each tool relies on in the middle of its operation is still there.
THEOREM SafeInvariant == SafeConfig /\ Spec => []Safe
  <1>1. SafeConfig /\ Init => Safe
    BY InitSafe
  <1>2. Safe /\ [Next]_vars => Safe'
    BY SafeStep
  <1> QED  BY <1>1, <1>2, PTL DEF Spec

\* Under SafeConfig, nobody who was given a workspace finds its directory moved
\* away while its entry is there.
THEOREM LiveWorkspacesSafe == SafeConfig /\ Spec => []LiveHasDir
  <1>1. Safe => LiveHasDir
    BY SafeImplies
  <1> QED  BY <1>1, SafeInvariant, PTL

\* Under SafeConfig, released data stays on disk for releasekeeptime.
THEOREM ReleasedDataRetained == SafeConfig /\ Spec => []ReleasedRetained
  <1>1. Safe => ReleasedRetained
    BY SafeImplies
  <1> QED  BY <1>1, SafeInvariant, PTL

\* Under SafeConfig, expired data stays on disk for keeptime.
THEOREM ExpiredDataRetained == SafeConfig /\ Spec => []ExpiredRetained
  <1>1. Safe => ExpiredRetained
    BY SafeImplies
  <1> QED  BY <1>1, SafeInvariant, PTL

\* Under SafeConfig, ws_restore finds released and expired data by the name of its
\* entry.
THEOREM DataRecoverable == SafeConfig /\ Spec => []Recoverable
  <1>1. Safe => Recoverable
    BY SafeImplies
  <1> QED  BY <1>1, SafeInvariant, PTL

\* Under SafeConfig, no user gets more than maxextensions extensions of one
\* workspace.
THEOREM ExtensionsBounded == SafeConfig /\ Spec => []ExtensionBudget
  <1>1. Safe => ExtensionBudget
    BY SafeImplies
  <1> QED  BY <1>1, SafeInvariant, PTL

\* The names entries are about to be moved to are free.
LEMMA SafeTargets == ASSUME Safe PROVE TypeOK /\ FreeTargets
  BY DEF Safe, RelOK, ReleaseOK, ExpOK, FreeTargets

\* Under SafeConfig, no rename of ws_release or ws_expirer ever replaces the entry
\* of another deleted workspace.
THEOREM NamesCollisionFree == SafeConfig /\ Spec => NoOverwrite
  <1>1. Safe /\ [Next]_vars =>
            [\A n \in Names : gone[n] # NoEntry /\ gone'[n] # NoEntry
                                => gone'[n] = gone[n]]_vars
    BY SafeTargets, NoOverwriteStep
  <1> QED  BY <1>1, SafeInvariant, PTL DEF Spec, NoOverwrite
=============================================================================
