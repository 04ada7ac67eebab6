--------------------------- MODULE WsSystem_proofs ---------------------------
(***************************************************************************)
(* Theorems about WsSystem, for every set of sessions and ids, and every   *)
(* clock bound: type correctness, whatever may overlap or fail, and what   *)
(* holds under CrashConfig, where every process may be killed.             *)
(***************************************************************************)
EXTENDS WsInvariant, TLAPS

-----------------------------------------------------------------------------
(* Types                                                                   *)

\* The file operations of WsStore keep the types of what they assign.
LEMMA MoveEntryType ==
    ASSUME StoreTypeOK, NEW i \in Ids, NEW n \in Names, MoveEntry(i, n)
    PROVE  /\ live' \in [Ids -> Entry \cup {NoEntry}]
           /\ gone' \in [Names -> Entry \cup {NoEntry}]
  BY DEF StoreTypeOK, MoveEntry

\* writeEntry() keeps the types of the database.
LEMMA WriteEntryType ==
    ASSUME StoreTypeOK, NEW i \in Ids, NEW e \in Entry, WriteEntry(i, e)
    PROVE  live' \in [Ids -> Entry \cup {NoEntry}]
  BY DEF StoreTypeOK, WriteEntry

\* Moving a directory keeps the types of both directory areas.
LEMMA TryMoveDirType ==
    ASSUME StoreTypeOK, NEW d \in Ids, NEW n \in Names, TryMoveDir(d, n)
    PROVE  /\ dirs' \in [Ids -> Dir \cup {NoDir}]
           /\ trash' \in [Names -> Dir \cup {NoDir}]
  BY DEF StoreTypeOK, TryMoveDir

\* Removing a deleted directory, also in part, keeps the types.
LEMMA RmtreeType ==
    ASSUME StoreTypeOK, NEW n \in Names, NEW finished \in BOOLEAN, Rmtree(n, finished)
    PROVE  trash' \in [Names -> Dir \cup {NoDir}]
  BY StoreAssumption DEF StoreTypeOK, Rmtree, Dir

\* Recording what became of the data keeps the type of the history.
LEMMA SetFateType ==
    ASSUME StoreTypeOK, NEW d \in Ids, NEW t \in Nat,
           NEW st \in {"live", "released", "expired", "purged"}, SetFate(d, st, t)
    PROVE  fate' \in [0 .. MaxGen -> Fate]
  BY StoreAssumption DEF StoreTypeOK, SetFate, Dir, Fate

\* Every value of the clock, and every timestamp expire() may try, is a stamp.
LEMMA StampFacts ==
    /\ 1 .. MaxTime \subseteq Stamps
    /\ \A t \in 0 .. MaxTime : t + 1 \in Stamps
    /\ \A t \in 1 .. MaxTime : t .. (t + MaxTries - 1) \subseteq Stamps
    /\ 0 \in Stamps
    /\ Stamps \subseteq Nat
  BY StoreAssumption DEF Stamps

\* Steps of ws_allocate keep the types.
LEMMA AllocateStepType == ASSUME TypeOK, AllocateStep PROVE TypeOK'
  <1> USE DEF TypeOK
  <1>1. RelTypeOK' /\ ExpTypeOK'
    BY DEF AllocateStep, RelTypeOK, ExpTypeOK, expVars
  <1>2. PICK p \in Procs :
            \/ \E w \in Targets : AllocLookup(p, w[1], w[2])
            \/ AllocMkdir(p)
            \/ \E dur \in Durations : AllocEntry(p, dur)
    BY DEF AllocateStep
  <1>3. CASE \E w \in Targets : AllocLookup(p, w[1], w[2])
    <2>1. PICK w \in Targets : AllocLookup(p, w[1], w[2])
      BY <1>3
    <2>2. w[1] \in Ids /\ w[2] \in Ids
      BY AllocateAssumption DEF Targets
    <2>3. StoreTypeOK'
      BY <2>1 DEF AllocLookup, storeVars, StoreTypeOK
    <2>4. AllocTypeOK'
      BY <2>1, <2>2 DEF AllocLookup, AllocTypeOK, AllocState, AllocIdle
    <2> QED  BY <1>1, <2>3, <2>4
  <1>4. CASE AllocMkdir(p)
    <2> DEFINE d == alloc[p].dir
    <2>1. d \in Ids
      BY <1>4 DEF AllocMkdir, AllocTypeOK
    <2>2. now \in Nat
      BY StoreAssumption DEF StoreTypeOK
    <2>3. StoreTypeOK'
      <3>1. CASE dirs[d] = NoDir
        <4>1. gen + 1 \in 0 .. MaxGen
          BY <1>4, <3>1, StoreAssumption DEF AllocMkdir, StoreTypeOK
        <4>2. [tok |-> gen + 1, mtime |-> now] \in Dir
          BY <2>2, <4>1 DEF Dir
        <4>3. [st |-> "fresh", at |-> now, used |-> 0] \in Fate
          BY <2>2 DEF Fate
        <4> QED  BY <1>4, <2>1, <3>1, <4>1, <4>2, <4>3 DEF AllocMkdir, StoreTypeOK
      <3>2. CASE dirs[d] # NoDir
        BY <1>4, <3>2 DEF AllocMkdir, StoreTypeOK
      <3> QED  BY <3>1, <3>2
    <2>4. AllocTypeOK'
      <3> DEFINE a == [alloc[p] EXCEPT !.pc = "entry", !.since = now]
      <3>1. alloc' = [alloc EXCEPT ![p] = a]
        BY <1>4 DEF AllocMkdir, AllocTypeOK
      <3>2. a \in AllocState /\ a.pc = "entry" /\ a.id = alloc[p].id /\ a.dir = alloc[p].dir
        BY <2>2 DEF AllocTypeOK, AllocState
      <3>3. alloc[p].id \in Ids /\ alloc[p].dir \in Ids
        BY <1>4 DEF AllocMkdir, AllocTypeOK
      <3> HIDE DEF a
      <3> QED  BY <3>1, <3>2, <3>3 DEF AllocTypeOK
    <2> QED  BY <1>1, <2>3, <2>4
  <1>5. CASE \E dur \in Durations : AllocEntry(p, dur)
    <2>1. PICK dur \in Durations : AllocEntry(p, dur)
      BY <1>5
    <2> DEFINE i == alloc[p].id
               d == alloc[p].dir
               e == [dir |-> d, exp |-> now + dur, ext |-> MaxExtensions,
                     released |-> 0, expired |-> 0]
    <2>2. i \in Ids /\ d \in Ids
      BY <2>1 DEF AllocEntry, AllocTypeOK
    <2>3. e \in Entry
      BY <2>2, AllocateAssumption, StoreAssumption DEF Entry, StoreTypeOK
    <2>4. WriteEntry(i, e)
      BY <2>1 DEF AllocEntry
    <2>5. live' \in [Ids -> Entry \cup {NoEntry}]
      <3> HIDE DEF e, i
      <3> QED  BY <2>2, <2>3, <2>4, WriteEntryType
    <2>6. fate' \in [0 .. MaxGen -> Fate]
      BY <2>1, <2>2, StoreAssumption DEF AllocEntry, StoreTypeOK, Dir, Fate
    <2>7. StoreTypeOK'
      BY <2>1, <2>5, <2>6 DEF AllocEntry, StoreTypeOK
    <2>8. AllocTypeOK'
      BY <2>1 DEF AllocEntry, AllocTypeOK, AllocState, AllocIdle
    <2> QED  BY <1>1, <2>7, <2>8
  <1> QED  BY <1>2, <1>3, <1>4, <1>5

\* useExtension() never takes an extension from an entry that has none.
LEMMA ExtendedType ==
    ASSUME NEW e \in Entry, NEW exp \in Nat, NEW root \in BOOLEAN,
           ~(NeedsExtension(e, exp) /\ ~root /\ e.ext = 0)
    PROVE  Extended(e, exp, root) \in Entry
  <1> DEFINE x == IF exp = 0 THEN e.exp ELSE exp
             y == IF NeedsExtension(e, exp) /\ ~root THEN e.ext - 1 ELSE e.ext
  <1>1. x \in Nat /\ y \in Nat
    BY DEF Entry
  <1>2. Extended(e, exp, root) = [e EXCEPT !.exp = x, !.ext = y]
    BY DEF Extended
  <1> HIDE DEF x, y
  <1> QED  BY <1>1, <1>2 DEF Entry

\* Steps of ws_allocate -x keep the types; an extension is only taken from an
\* entry that has one left, so the counter never goes below zero.
LEMMA ExtendStepType == ASSUME TypeOK, ExtendStep PROVE TypeOK'
  <1> USE DEF TypeOK
  <1>1. RelTypeOK' /\ ExpTypeOK'
    BY DEF ExtendStep, RelTypeOK, ExpTypeOK, expVars
  <1>2. PICK p \in Procs :
            \/ \E i \in Ids : ExtendRead(p, i)
            \/ \E dur \in Durations \cup {0}, root \in BOOLEAN : ExtendWrite(p, dur, root)
    BY DEF ExtendStep
  <1>3. CASE \E i \in Ids : ExtendRead(p, i)
    <2>1. PICK i \in Ids : ExtendRead(p, i)
      BY <1>3
    <2>2. live[i] \in Entry /\ live[i].dir \in Ids
      BY <2>1 DEF ExtendRead, StoreTypeOK, Entry
    <2>3. StoreTypeOK'
      BY <2>1 DEF ExtendRead, storeVars, StoreTypeOK
    <2>4. AllocTypeOK'
      BY <2>1, <2>2 DEF ExtendRead, AllocTypeOK, AllocState, AllocIdle
    <2> QED  BY <1>1, <2>3, <2>4
  <1>4. CASE \E dur \in Durations \cup {0}, root \in BOOLEAN : ExtendWrite(p, dur, root)
    <2>1. PICK dur \in Durations \cup {0}, root \in BOOLEAN : ExtendWrite(p, dur, root)
      BY <1>4
    <2> DEFINE e == alloc[p].ent
               i == alloc[p].id
               exp == IF dur = 0 THEN 0 ELSE now + dur
               tok == IF dirs[e.dir] = NoDir THEN 0 ELSE dirs[e.dir].tok
               paid == NeedsExtension(e, exp) /\ ~root
               f == Extended(e, exp, root)
    <2>2. i \in Ids /\ e \in Entry
      BY <2>1 DEF ExtendWrite, AllocTypeOK
    <2>3. exp \in Nat
      BY AllocateAssumption DEF StoreTypeOK
    <2>4. tok \in 0 .. MaxGen
      BY <2>2, StoreAssumption DEF StoreTypeOK, Entry, Dir
    <2>7. AllocTypeOK'
      BY <2>1 DEF ExtendWrite, AllocTypeOK, AllocState, AllocIdle
    <2>5. CASE paid /\ e.ext = 0
      <3>1. StoreTypeOK'
        BY <2>1, <2>5 DEF ExtendWrite, StoreTypeOK
      <3> QED  BY <1>1, <2>7, <3>1
    <2>6. CASE ~(paid /\ e.ext = 0)
      <3>1. f \in Entry
        BY <2>2, <2>3, <2>6, ExtendedType
      <3>2. WriteEntry(i, f) /\ fate' = IF paid THEN [fate EXCEPT ![tok].used = @ + 1] ELSE fate
        BY <2>1, <2>6 DEF ExtendWrite
      <3>3. live' \in [Ids -> Entry \cup {NoEntry}]
        <4> HIDE DEF f, i
        <4> QED  BY <2>2, <3>1, <3>2, WriteEntryType
      <3>4. fate' \in [0 .. MaxGen -> Fate]
        <4> HIDE DEF tok, paid
        <4> QED  BY <2>4, <3>2 DEF StoreTypeOK, Fate
      <3>5. UNCHANGED <<now, gone, dirs, trash, gen>>
        BY <2>1 DEF ExtendWrite
      <3>6. StoreTypeOK'
        BY <3>3, <3>4, <3>5 DEF StoreTypeOK
      <3> QED  BY <1>1, <2>7, <3>6
    <2> QED  BY <2>5, <2>6
  <1> QED  BY <1>2, <1>3, <1>4

\* Steps of ws_release keep the types.  The timestamp grows by at most one, after
\* a collision, so it stays a stamp.
LEMMA ReleaseStepType == ASSUME TypeOK, ReleaseStep PROVE TypeOK'
  <1> USE DEF TypeOK
  <1>1. AllocTypeOK' /\ ExpTypeOK'
    BY DEF ReleaseStep, AllocTypeOK, ExpTypeOK, expVars
  <1>2. now \in Nat /\ now + 1 \in Nat /\ now \in Stamps /\ now =< MaxTime
    BY StampFacts, StoreAssumption DEF StoreTypeOK
  <1>3. PICK p \in Procs :
            \/ \E i \in Ids, purge \in BOOLEAN : ReleaseRead(p, i, purge)
            \/ ReleaseMark(p)
            \/ ReleaseProbe(p)
            \/ ReleaseDbMove(p)
            \/ ReleaseDirMove(p)
            \/ \E finished \in BOOLEAN : ReleasePurge(p, finished)
            \/ ReleaseForget(p)
    BY DEF ReleaseStep
  <1>4. rel[p] \in RelState /\ rel[p].ts \in Stamps
    BY DEF RelTypeOK, RelState
  <1>5. RelIdle \in RelState
    BY StampFacts DEF RelIdle, RelState
  <1>6. CASE \E i \in Ids, purge \in BOOLEAN : ReleaseRead(p, i, purge)
    <2>1. PICK i \in Ids, purge \in BOOLEAN : ReleaseRead(p, i, purge)
      BY <1>6
    <2>2. live[i] \in Entry
      BY <2>1 DEF ReleaseRead, StoreTypeOK
    <2>3. StoreTypeOK'
      BY <2>1 DEF ReleaseRead, storeVars, StoreTypeOK
    <2>4. RelTypeOK'
      BY <2>1, <2>2, <1>2 DEF ReleaseRead, RelTypeOK, RelState
    <2> QED  BY <1>1, <2>3, <2>4
  <1>7. CASE ReleaseMark(p)
    <2> DEFINE e == [rel[p].ent EXCEPT !.released = now]
               r == [rel[p] EXCEPT !.pc = "probe", !.ent = e]
    <2>1. rel[p].id \in Ids /\ rel[p].ent \in Entry /\ rel[p].ts =< MaxTime
      BY <1>7 DEF ReleaseMark, RelTypeOK
    <2>2. e \in Entry
      BY <2>1, <1>2 DEF Entry
    <2>3. WriteEntry(rel[p].id, e) /\ UNCHANGED <<now, gone, dirs, trash, gen, fate>>
      BY <1>7 DEF ReleaseMark
    <2>4. rel' = [rel EXCEPT ![p] = r]
      BY <1>7 DEF ReleaseMark, RelTypeOK
    <2> HIDE DEF e
    <2>5. StoreTypeOK'
      BY <2>1, <2>2, <2>3, WriteEntryType DEF StoreTypeOK
    <2>6. r \in RelState /\ r.id = rel[p].id /\ r.ent = e /\ r.ts = rel[p].ts
      BY <1>4, <2>2 DEF RelState
    <2> HIDE DEF r
    <2>7. RelTypeOK'
      BY <2>1, <2>2, <2>4, <2>6 DEF RelTypeOK
    <2> QED  BY <1>1, <2>5, <2>7
  <1>8. CASE ReleaseProbe(p)
    <2> DEFINE taken == gone[<<rel[p].id, rel[p].ts>>] # NoEntry
               t == IF taken THEN rel[p].ts + 1 ELSE rel[p].ts
               u == IF taken THEN now + 1 ELSE now
               r == [rel[p] EXCEPT !.pc = "dbmove", !.ts = t, !.until = u]
    <2>1. rel[p].id \in Ids /\ rel[p].ent \in Entry /\ rel[p].ts =< MaxTime
      BY <1>8 DEF ReleaseProbe, RelTypeOK
    <2>2. t \in Stamps /\ u \in Nat
      BY <2>1, <1>2, <1>4, StampFacts, StoreAssumption DEF Stamps
    <2>3. rel' = [rel EXCEPT ![p] = r]
      BY <1>8 DEF ReleaseProbe, RelTypeOK
    <2>4. StoreTypeOK'
      BY <1>8 DEF ReleaseProbe, storeVars, StoreTypeOK
    <2> HIDE DEF t, u
    <2>5. r \in RelState /\ r.pc = "dbmove" /\ r.id = rel[p].id /\ r.ent = rel[p].ent
      BY <1>4, <2>2 DEF RelState
    <2> HIDE DEF r
    <2>6. RelTypeOK'
      BY <2>1, <2>3, <2>5 DEF RelTypeOK
    <2> QED  BY <1>1, <2>4, <2>6
  <1>9. CASE ReleaseDbMove(p)
    <2> DEFINE i == rel[p].id
    <2>1. i \in Ids /\ rel[p].ent \in Entry /\ <<i, rel[p].ts>> \in Names
      BY <1>4, <1>9 DEF ReleaseDbMove, RelTypeOK, Names
    <2>2. CASE live[i] = NoEntry
      <3>1. StoreTypeOK'
        BY <1>9, <2>2 DEF ReleaseDbMove, StoreTypeOK
      <3>2. RelTypeOK'
        <4>1. rel' = [rel EXCEPT ![p] = RelIdle]
          BY <1>9, <2>2 DEF ReleaseDbMove
        <4> QED  BY <1>5, <4>1 DEF RelTypeOK, RelIdle
      <3> QED  BY <1>1, <3>1, <3>2
    <2>3. CASE live[i] # NoEntry
      <3> DEFINE st == IF rel[p].purge THEN "purged" ELSE "released"
                 pc == IF rel[p].purge THEN "purge" ELSE "dirmove"
                 r == [rel[p] EXCEPT !.pc = pc, !.until = now]
      <3>1. /\ MoveEntry(i, <<i, rel[p].ts>>)
            /\ SetFate(rel[p].ent.dir, st, rel[p].ent.released)
            /\ UNCHANGED <<now, dirs, trash, gen>>
        BY <1>9, <2>3 DEF ReleaseDbMove
      <3>2. rel[p].ent.dir \in Ids /\ rel[p].ent.released \in Nat
        BY <2>1 DEF Entry
      <3>3. StoreTypeOK'
        <4>1. fate' \in [0 .. MaxGen -> Fate]
          <5>1. st \in {"live", "released", "expired", "purged"}
            OBVIOUS
          <5> HIDE DEF st
          <5> QED  BY <3>1, <3>2, <5>1, SetFateType
        <4> QED  BY <2>1, <3>1, <4>1, MoveEntryType DEF StoreTypeOK
      <3>4. rel' = [rel EXCEPT ![p] = r]
        BY <1>9, <2>3 DEF ReleaseDbMove, RelTypeOK
      <3>5. pc \in {"purge", "dirmove"}
        OBVIOUS
      <3> HIDE DEF pc
      <3>6. r \in RelState /\ r.pc = pc /\ r.id = i /\ r.ent = rel[p].ent
        BY <1>2, <1>4, <3>5 DEF RelState
      <3> HIDE DEF r
      <3>7. RelTypeOK'
        BY <2>1, <3>4, <3>5, <3>6 DEF RelTypeOK
      <3> QED  BY <1>1, <3>3, <3>7
    <2> QED  BY <2>2, <2>3
  <1>10. CASE ReleaseDirMove(p)
    <2>1. /\ rel[p].id \in Ids /\ rel[p].ent \in Entry
          /\ <<rel[p].id, rel[p].ts>> \in Names /\ rel[p].ent.dir \in Ids
      BY <1>4, <1>10 DEF ReleaseDirMove, RelTypeOK, Names, Entry
    <2>2. StoreTypeOK'
      BY <1>10, <2>1, TryMoveDirType DEF ReleaseDirMove, StoreTypeOK
    <2>3. RelTypeOK'
      BY <1>5, <1>10 DEF ReleaseDirMove, RelTypeOK, RelIdle
    <2> QED  BY <1>1, <2>2, <2>3
  <1>11. CASE \E finished \in BOOLEAN : ReleasePurge(p, finished)
    <2>1. PICK finished \in BOOLEAN : ReleasePurge(p, finished)
      BY <1>11
    <2>2. rel[p].ent.dir \in Ids
      BY <2>1 DEF ReleasePurge, RelTypeOK, Entry
    <2>3. [tok |-> 0, mtime |-> now] \in Dir
      BY <1>2, StoreAssumption DEF Dir
    <2>4. StoreTypeOK'
      BY <2>1, <2>2, <2>3 DEF ReleasePurge, StoreTypeOK
    <2>5. RelTypeOK'
      BY <2>1, <1>4 DEF ReleasePurge, RelTypeOK, RelState
    <2> QED  BY <1>1, <2>4, <2>5
  <1>12. CASE ReleaseForget(p)
    <2>1. StoreTypeOK'
      BY <1>12 DEF ReleaseForget, StoreTypeOK
    <2>2. RelTypeOK'
      BY <1>5, <1>12 DEF ReleaseForget, RelTypeOK, RelIdle
    <2> QED  BY <1>1, <2>1, <2>2
  <1> QED  BY <1>3, <1>6, <1>7, <1>8, <1>9, <1>10, <1>11, <1>12

\* Steps of the expirer's first phase keep the types.
LEMMA StrayStepType == ASSUME TypeOK, StrayStep PROVE TypeOK'
  <1> USE DEF TypeOK
  <1>1. AllocTypeOK' /\ RelTypeOK'
    BY DEF StrayStep, AllocTypeOK, RelTypeOK
  <1>2. now \in Nat /\ now \in Stamps /\ now \in 0 .. MaxTime
    BY StampFacts, StoreAssumption DEF StoreTypeOK
  <1> USE DEF ScanPhase, StrayPhase, ExpirePhase
  <1>3. CASE StrayList \/ StraySnapshot \/ StrayNoDatabase
    <2>1. StoreTypeOK'
      BY <1>3 DEF StrayList, StraySnapshot, StrayNoDatabase, storeVars, StoreTypeOK
    <2>2. ExpTypeOK'
      BY <1>2, <1>3 DEF StrayList, StraySnapshot, StrayNoDatabase, ExpTypeOK
    <2> QED  BY <1>1, <2>1, <2>2
  <1>4. CASE \E d \in Ids : StrayStat(d)
    <2>1. PICK d \in Ids : StrayStat(d)
      BY <1>4
    <2>2. StoreTypeOK'
      BY <2>1 DEF StrayStat, storeVars, StoreTypeOK
    <2>3. <<d, now>> \in Names
      BY <1>2 DEF Names
    <2>4. ExpTypeOK'
      BY <2>1, <2>3 DEF StrayStat, ExpTypeOK
    <2> QED  BY <1>1, <2>2, <2>4
  <1>5. CASE StrayMove
    <2>1. xcur \in Names /\ xcur[1] \in Ids
      BY <1>5 DEF StrayMove, ExpTypeOK, Names
    <2>2. StoreTypeOK'
      BY <1>5, <2>1, TryMoveDirType DEF StrayMove, StoreTypeOK
    <2>3. ExpTypeOK'
      BY <1>5 DEF StrayMove, ExpTypeOK
    <2> QED  BY <1>1, <2>2, <2>3
  <1>6. CASE TrashList \/ TrashSnapshot \/ StrayEnd
    <2>1. StoreTypeOK'
      BY <1>6 DEF TrashList, TrashSnapshot, StrayEnd, storeVars, StoreTypeOK
    <2>2. ExpTypeOK'
      BY <1>6 DEF TrashList, TrashSnapshot, StrayEnd, ExpTypeOK
    <2> QED  BY <1>1, <2>1, <2>2
  <1>7. CASE \E n \in Names, finished \in BOOLEAN : TrashRemove(n, finished)
    <2>1. PICK n \in Names, finished \in BOOLEAN : TrashRemove(n, finished)
      BY <1>7
    <2>2. StoreTypeOK'
      BY <2>1, RmtreeType DEF TrashRemove, StoreTypeOK
    <2>3. ExpTypeOK'
      BY <2>1 DEF TrashRemove, ExpTypeOK
    <2> QED  BY <1>1, <2>2, <2>3
  <1> QED  BY <1>3, <1>4, <1>5, <1>6, <1>7 DEF StrayStep

\* Steps of the expirer's second phase keep the types: the name expire() chooses
\* is a name, and the entry it moves is an entry.
LEMMA ExpireStepType == ASSUME TypeOK, ExpireStep PROVE TypeOK'
  <1> USE DEF TypeOK
  <1>1. AllocTypeOK' /\ RelTypeOK'
    BY DEF ExpireStep, AllocTypeOK, RelTypeOK
  <1>2. now \in Nat
    BY StoreAssumption DEF StoreTypeOK
  <1> USE DEF ScanPhase, StrayPhase, ExpirePhase
  <1>3. CASE ExpireList \/ ExpireNoDatabase \/ DeleteList \/ ExpireEnd
    <2>1. StoreTypeOK'
      BY <1>3 DEF ExpireList, ExpireNoDatabase, DeleteList, ExpireEnd, storeVars,
                  StoreTypeOK
    <2>2. ExpTypeOK'
      BY <1>3, StoreAssumption
      DEF ExpireList, ExpireNoDatabase, DeleteList, ExpireEnd, ExpTypeOK
    <2> QED  BY <1>1, <2>1, <2>2
  <1>4. CASE \E i \in Ids : ExpireSkip(i)
    <2>1. StoreTypeOK'
      BY <1>4 DEF ExpireSkip, storeVars, StoreTypeOK
    <2>2. ExpTypeOK'
      BY <1>4 DEF ExpireSkip, ExpTypeOK
    <2> QED  BY <1>1, <2>1, <2>2
  <1>5. CASE \E i \in Ids : ExpireChoose(i)
    <2>1. PICK i \in Ids : ExpireChoose(i)
      BY <1>5
    <2>2. PICK t \in FreeStamps(i) : xcur' = <<i, t>>
      BY <2>1 DEF ExpireChoose
    <2>3. t \in Stamps
      BY StampFacts DEF FreeStamps, StoreTypeOK
    <2>4. xcur' \in Names
      BY <2>2, <2>3 DEF Names
    <2>5. xent' \in Entry
      BY <2>1 DEF ExpireChoose, HasExpired, StoreTypeOK
    <2>6. StoreTypeOK'
      BY <2>1 DEF ExpireChoose, storeVars, StoreTypeOK
    <2>7. ExpTypeOK'
      BY <2>1, <2>4, <2>5 DEF ExpireChoose, ExpTypeOK
    <2> QED  BY <1>1, <2>6, <2>7
  <1>6. CASE ExpireWrite
    <2> DEFINE e == [xent EXCEPT !.expired = now]
    <2>1. xcur \in Names /\ xcur[1] \in Ids /\ xent \in Entry
      BY <1>6 DEF ExpireWrite, ExpTypeOK, Names
    <2>2. e \in Entry
      BY <1>2, <2>1 DEF Entry
    <2>3. WriteEntry(xcur[1], e) /\ xent' = e
      BY <1>6 DEF ExpireWrite
    <2> HIDE DEF e
    <2>4. StoreTypeOK'
      BY <1>6, <2>1, <2>2, <2>3, WriteEntryType DEF ExpireWrite, StoreTypeOK
    <2>5. ExpTypeOK'
      BY <1>6, <2>1, <2>2, <2>3 DEF ExpireWrite, ExpTypeOK
    <2> QED  BY <1>1, <2>4, <2>5
  <1>7. CASE ExpireDbMove
    <2>1. /\ xcur \in Names /\ xcur[1] \in Ids /\ xent \in Entry
          /\ xent.dir \in Ids /\ xent.expired \in Nat
      BY <1>7 DEF ExpireDbMove, ExpTypeOK, Names, Entry
    <2>2. StoreTypeOK'
      <3>1. CASE live[xcur[1]] = NoEntry
        BY <1>7, <3>1 DEF ExpireDbMove, StoreTypeOK
      <3>2. CASE live[xcur[1]] # NoEntry
        <4>1. /\ MoveEntry(xcur[1], xcur) /\ SetFate(xent.dir, "expired", xent.expired)
              /\ UNCHANGED <<now, dirs, trash, gen>>
          BY <1>7, <3>2 DEF ExpireDbMove
        <4>2. fate' \in [0 .. MaxGen -> Fate]
          BY <2>1, <4>1, SetFateType
        <4> QED  BY <2>1, <4>1, <4>2, MoveEntryType DEF StoreTypeOK
      <3> QED  BY <3>1, <3>2
    <2>3. ExpTypeOK'
      BY <1>7, <2>1 DEF ExpireDbMove, ExpTypeOK
    <2> QED  BY <1>1, <2>2, <2>3
  <1>8. CASE ExpireDirMove
    <2>1. xent.dir \in Ids /\ <<xent.dir, xcur[2]>> \in Names
      BY <1>8 DEF ExpireDirMove, ExpTypeOK, Names, Entry
    <2>2. StoreTypeOK'
      BY <1>8, <2>1, TryMoveDirType DEF ExpireDirMove, StoreTypeOK
    <2>3. ExpTypeOK'
      BY <1>8 DEF ExpireDirMove, ExpTypeOK
    <2> QED  BY <1>1, <2>2, <2>3
  <1>9. CASE \E n \in Names : DeleteKeep(n) \/ DeleteEntry(n)
    <2>1. StoreTypeOK'
      BY <1>9 DEF DeleteKeep, DeleteEntry, storeVars, StoreTypeOK
    <2>2. ExpTypeOK'
      BY <1>9 DEF DeleteKeep, DeleteEntry, ExpTypeOK
    <2> QED  BY <1>1, <2>1, <2>2
  <1>10. CASE \E finished \in BOOLEAN : DeleteTree(finished)
    <2>1. PICK finished \in BOOLEAN : DeleteTree(finished)
      BY <1>10
    <2>2. xcur \in Names
      BY <2>1 DEF DeleteTree, ExpTypeOK
    <2>3. StoreTypeOK'
      BY <2>1, <2>2, RmtreeType DEF DeleteTree, StoreTypeOK
    <2>4. ExpTypeOK'
      BY <2>1 DEF DeleteTree, ExpTypeOK
    <2> QED  BY <1>1, <2>3, <2>4
  <1> QED  BY <1>3, <1>4, <1>5, <1>6, <1>7, <1>8, <1>9, <1>10 DEF ExpireStep

\* A process that dies leaves well-typed state behind.
LEMMA CrashStepType == ASSUME TypeOK, CrashStep PROVE TypeOK'
  <1> USE DEF TypeOK
  <1>1. StoreTypeOK'
    BY DEF CrashStep, AllocCrash, ReleaseCrash, ExpirerCrash, storeVars, StoreTypeOK
  <1>2. CASE \E p \in Procs : AllocCrash(p) /\ UNCHANGED <<rel, expVars>>
    <2>1. AllocTypeOK'
      BY <1>2 DEF AllocCrash, AllocTypeOK, AllocState, AllocIdle
    <2> QED  BY <1>1, <1>2, <2>1 DEF RelTypeOK, ExpTypeOK, expVars
  <1>3. CASE \E p \in Procs : ReleaseCrash(p) /\ UNCHANGED <<alloc, expVars>>
    <2>1. RelTypeOK'
      BY <1>3, StampFacts DEF ReleaseCrash, RelTypeOK, RelState, RelIdle
    <2> QED  BY <1>1, <1>3, <2>1 DEF AllocTypeOK, ExpTypeOK, expVars
  <1>4. CASE ExpirerCrash /\ UNCHANGED <<alloc, rel>>
    <2>1. ExpTypeOK'
      BY <1>4, StoreAssumption DEF ExpirerCrash, ExpTypeOK
    <2> QED  BY <1>1, <1>4, <2>1 DEF AllocTypeOK, RelTypeOK
  <1> QED  BY <1>2, <1>3, <1>4 DEF CrashStep

\* The clock stays within its bound.
LEMMA TickType == ASSUME TypeOK, Tick PROVE TypeOK'
  BY StoreAssumption
  DEF Tick, disk, expVars, TypeOK, StoreTypeOK, AllocTypeOK, RelTypeOK, ExpTypeOK

\* The initial state of every tool is well typed.
LEMMA InitType == ASSUME Init PROVE TypeOK
  <1>1. StoreTypeOK
    BY StoreAssumption DEF Init, StoreInit, StoreTypeOK, Fate
  <1>2. AllocTypeOK
    BY DEF Init, AllocInit, AllocTypeOK, AllocIdle, AllocState
  <1>3. RelTypeOK
    BY StampFacts DEF Init, RelInit, RelTypeOK, RelIdle, RelState
  <1>4. ExpTypeOK
    BY StoreAssumption DEF Init, ExpInit, ExpTypeOK
  <1> QED  BY <1>1, <1>2, <1>3, <1>4 DEF TypeOK

\* Every step of the system keeps the types.
LEMMA TypeStep == ASSUME TypeOK, [Next]_vars PROVE TypeOK'
  <1>1. CASE UNCHANGED vars
    BY <1>1 DEF vars, storeVars, expVars, TypeOK, StoreTypeOK, AllocTypeOK, RelTypeOK,
                ExpTypeOK
  <1> QED  BY <1>1, AllocateStepType, ExtendStepType, ReleaseStepType, StrayStepType,
              ExpireStepType, CrashStepType, TickType DEF Next

\* Type correctness, whatever may overlap and whatever may fail: the command that
\* goes on after any interleaving still works on an entry, a directory and a
\* name, the counter of extensions an entry has left stays a natural number, and
\* no timestamp ws_release or ws_expirer gives a deleted workspace runs past the
\* clock by more than the names expire() tries.
THEOREM TypeCorrect == Spec => []TypeOK
  <1>1. Init => TypeOK
    BY InitType
  <1>2. TypeOK /\ [Next]_vars => TypeOK'
    BY TypeStep
  <1> QED  BY <1>1, <1>2, PTL DEF Spec
-----------------------------------------------------------------------------
(* Names of deleted entries                                                *)

\* The names ws_release and ws_expirer are about to move an entry to are free.
FreeTargets ==
    /\ \A p \in Procs : rel[p].pc = "dbmove" => gone[<<rel[p].id, rel[p].ts>>] = NoEntry
    /\ xpc = "dbmove" => gone[xcur] = NoEntry

\* A step that changes the deleted entries keeps every entry it does not delete.
LEMMA NoOverwriteStep ==
    ASSUME TypeOK, FreeTargets, [Next]_vars,
           NEW n \in Names, gone[n] # NoEntry, gone'[n] # NoEntry
    PROVE  gone'[n] = gone[n]
  <1>1. CASE AllocateStep
    BY <1>1 DEF AllocateStep, AllocLookup, AllocMkdir, AllocEntry, storeVars
  <1>2. CASE ExtendStep
    BY <1>2 DEF ExtendStep, ExtendRead, ExtendWrite, storeVars
  <1>3. CASE ReleaseStep
    <2>1. PICK p \in Procs :
            \/ \E i \in Ids, purge \in BOOLEAN : ReleaseRead(p, i, purge)
            \/ ReleaseMark(p)
            \/ ReleaseProbe(p)
            \/ ReleaseDbMove(p)
            \/ ReleaseDirMove(p)
            \/ \E finished \in BOOLEAN : ReleasePurge(p, finished)
            \/ ReleaseForget(p)
      BY <1>3 DEF ReleaseStep
    <2>2. CASE ReleaseDbMove(p)
      <3> DEFINE m == <<rel[p].id, rel[p].ts>>
      <3>1. gone[m] = NoEntry
        BY <2>2 DEF ReleaseDbMove, FreeTargets
      <3>2. gone' = gone \/ gone' = [gone EXCEPT ![m] = live[rel[p].id]]
        BY <2>2 DEF ReleaseDbMove, MoveEntry
      <3> QED  BY <3>1, <3>2 DEF TypeOK, StoreTypeOK
    <2>3. CASE ReleaseForget(p)
      <3> DEFINE m == <<rel[p].id, rel[p].ts>>
      <3>1. gone' = [gone EXCEPT ![m] = NoEntry]
        BY <2>3 DEF ReleaseForget
      <3> QED  BY <3>1 DEF TypeOK, StoreTypeOK
    <2>4. CASE ~ReleaseDbMove(p) /\ ~ReleaseForget(p)
      BY <2>1, <2>4 DEF ReleaseRead, ReleaseMark, ReleaseProbe, ReleaseDirMove, ReleasePurge,
                        storeVars
    <2> QED  BY <2>2, <2>3, <2>4
  <1>4. CASE StrayStep
    BY <1>4 DEF StrayStep, StrayList, StraySnapshot, StrayNoDatabase, StrayStat, StrayMove,
                TrashList, TrashSnapshot, TrashRemove, StrayEnd, storeVars
  <1>5. CASE ExpireStep
    <2>1. CASE ExpireDbMove
      <3>1. gone[xcur] = NoEntry
        BY <2>1 DEF ExpireDbMove, FreeTargets
      <3>2. gone' = gone \/ gone' = [gone EXCEPT ![xcur] = live[xcur[1]]]
        BY <2>1 DEF ExpireDbMove, MoveEntry
      <3> QED  BY <3>1, <3>2 DEF TypeOK, StoreTypeOK
    <2>2. CASE \E m \in Names : DeleteEntry(m)
      BY <2>2 DEF DeleteEntry, TypeOK, StoreTypeOK
    <2>3. CASE ~ExpireDbMove /\ ~\E m \in Names : DeleteEntry(m)
      BY <1>5, <2>3
      DEF ExpireStep, ExpireList, ExpireNoDatabase, ExpireSkip, ExpireChoose, ExpireWrite,
          ExpireDirMove, DeleteList, DeleteKeep, DeleteTree, ExpireEnd, storeVars
    <2> QED  BY <2>1, <2>2, <2>3
  <1>6. CASE CrashStep
    BY <1>6 DEF CrashStep, AllocCrash, ReleaseCrash, ExpirerCrash, storeVars
  <1>7. CASE Tick \/ UNCHANGED vars
    BY <1>7 DEF Tick, disk, vars, storeVars
  <1> QED  BY <1>1, <1>2, <1>3, <1>4, <1>5, <1>6, <1>7 DEF Next

-----------------------------------------------------------------------------
(* Killed processes: what CrashConfig excludes.                            *)

\* The pairs of tools that never run at the same time under CrashConfig.
LEMMA CrashMay ==
    ASSUME CrashConfig
    PROVE  /\ \A u \in Tools : ~May("expire", u) /\ ~May(u, "expire")
           /\ \A u \in Tools \ {"stray"} : ~May("release", u) /\ ~May(u, "release")
           /\ ~May("allocate", "stray") /\ ~May("stray", "allocate")
  BY DEF CrashConfig, May, Tools

\* What a command, or a phase of the expirer, may find running when it starts.
LEMMA CrashStarts ==
    ASSUME CrashConfig
    PROVE  /\ \A i \in Ids, t \in {"allocate", "extend", "release"} : MayStart(t, i) =>
                /\ \A q \in Procs : rel[q].pc # "idle" => rel[q].id # i
                /\ xpc \notin ExpirePhase
           /\ \A i \in Ids : MayStart("allocate", i) => xpc = "idle"
           /\ \A i \in Ids : MayStart("release", i) =>
                \A q \in Procs : alloc[q].pc # "idle" => alloc[q].id # i
           /\ MayScan("stray") => \A q \in Procs : alloc[q].pc \notin {"mkdir", "entry"}
           /\ MayScan("expire") =>
                \A q \in Procs : alloc[q].pc = "idle" /\ rel[q].pc = "idle"
  <1>1. /\ \A q \in Procs : AllocTool(q) \in {"extend", "allocate"}
        /\ \A q \in Procs : alloc[q].pc \in {"mkdir", "entry"} => AllocTool(q) = "allocate"
        /\ "idle" \notin {"mkdir", "entry"}
        /\ ExpTool \in {"expire", "stray"}
        /\ xpc \in ExpirePhase => ExpTool = "expire"
        /\ "idle" \notin ExpirePhase
    BY DEF AllocTool, ExpTool, ExpirePhase
  <1>2. /\ \A i \in Ids, t \in {"allocate", "extend", "release"} : MayStart(t, i) =>
                \A q \in Procs : rel[q].pc # "idle" => rel[q].id # i
        /\ \A i \in Ids, t \in {"allocate", "extend", "release"} : MayStart(t, i) =>
                xpc \notin ExpirePhase
    BY <1>1, CrashMay DEF MayStart, Tools
  <1>3. \A i \in Ids : MayStart("allocate", i) => xpc = "idle"
    BY <1>1, CrashMay DEF MayStart, Tools
  <1>4. \A i \in Ids : MayStart("release", i) =>
            \A q \in Procs : alloc[q].pc # "idle" => alloc[q].id # i
    BY <1>1, CrashMay DEF MayStart, Tools
  <1>5. MayScan("stray") => \A q \in Procs : alloc[q].pc \notin {"mkdir", "entry"}
    BY <1>1, CrashMay DEF MayScan, Tools
  <1>6. MayScan("expire") => \A q \in Procs : alloc[q].pc = "idle" /\ rel[q].pc = "idle"
    BY <1>1, CrashMay DEF MayScan, Tools
  <1> QED  BY <1>2, <1>3, <1>4, <1>5, <1>6

-----------------------------------------------------------------------------
(* Killed processes: what a step leaves alone.                             *)

\* Names stay in the past while the clock goes on and no name is added.
LEMMA PastStays ==
    ASSUME TypeOK, TypeOK', now =< now',
           NEW i \in Ids, NEW e \in Entry \cup {NoEntry}, NamesPast(i, e),
           \A t \in Stamps : gone'[<<i, t>>] # NoEntry \/ trash'[<<i, t>>] # NoDir =>
                gone[<<i, t>>] # NoEntry \/ trash[<<i, t>>] # NoDir
    PROVE  NamesPast(i, e)'
  <1>1. now \in Nat /\ now' \in Nat /\ Stamps \subseteq Nat
    BY StoreAssumption, StampFacts DEF TypeOK, StoreTypeOK
  <1>2. ASSUME NEW t \in Stamps, gone'[<<i, t>>] # NoEntry \/ trash'[<<i, t>>] # NoDir
        PROVE  t =< now' /\ (e # NoEntry => t =< e.exp)
    <2>1. t =< now /\ (e # NoEntry => t =< e.exp)
      BY <1>2 DEF NamesPast
    <2> QED  BY <1>1, <2>1
  <1> QED  BY <1>2 DEF NamesPast

\* What has a program counter of its own is as good as the files it relies on.
LEMMA CrashFrame ==
    ASSUME CrashSafe
    PROVE  /\ CrashConfig'
           /\ UNCHANGED storeVars => Housed'
           /\ UNCHANGED <<storeVars, alloc>> => AllocHas'
           /\ UNCHANGED <<live, gone, now, rel>> => RelHas'
           /\ UNCHANGED <<live, gone, now, expVars>> => ExpHas'
           /\ UNCHANGED <<alloc, rel, xpc>> => Separate'
  <1> USE DEF CrashSafe, storeVars, expVars
  <1>1. CrashConfig'
    BY DEF CrashConfig
  <1>2. UNCHANGED storeVars => Housed'
    BY DEF Housed, NamesPast
  <1>3. UNCHANGED <<storeVars, alloc>> => AllocHas'
    BY DEF AllocHas, NamesPast
  <1>4. UNCHANGED <<live, gone, now, rel>> => RelHas'
    BY DEF RelHas
  <1>5. UNCHANGED <<live, gone, now, expVars>> => ExpHas'
    BY DEF ExpHas
  <1>6. UNCHANGED <<alloc, rel, xpc>> => Separate'
    BY DEF Separate
  <1> QED  BY <1>1, <1>2, <1>3, <1>4, <1>5, <1>6

\* A step of the expirer that changes no file has its own part to show.
LEMMA CrashMoveOn ==
    ASSUME CrashSafe, TypeOK', UNCHANGED <<storeVars, alloc, rel>>, Separate', ExpHas'
    PROVE  CrashSafe'
  BY CrashFrame DEF CrashSafe, storeVars

\* While the expirer does not enter its second phase it meets no new command.
LEMMA CrashSeparate ==
    ASSUME CrashSafe, UNCHANGED <<alloc, rel>>,
           xpc' \in ExpirePhase => xpc \in ExpirePhase,
           xpc = "idle" => xpc' = "idle"
    PROVE  Separate'
  BY DEF CrashSafe, Separate

-----------------------------------------------------------------------------
(* Killed processes: the expirer.                                          *)

\* Steps of the expirer that leave all files as they are.
LEMMA CrashStrayLight ==
    ASSUME CrashSafe, TypeOK', UNCHANGED <<alloc, rel>>,
           \/ MayScan("stray") /\ StrayList
           \/ StraySnapshot \/ StrayNoDatabase \/ TrashList \/ TrashSnapshot \/ StrayEnd
           \/ \E d \in Ids : StrayStat(d)
    PROVE  CrashSafe'
  <1> USE DEF CrashSafe
  <1>1. CASE MayScan("stray") /\ StrayList
    <2>1. Separate'
      BY <1>1, CrashStarts DEF StrayList, Separate, ExpirePhase
    <2>2. ExpHas'
      BY <1>1 DEF StrayList, ExpHas
    <2> QED  BY <1>1, <2>1, <2>2, CrashMoveOn DEF StrayList
  <1>2. CASE StraySnapshot
    <2>1. Separate'
      BY <1>2, CrashSeparate DEF StraySnapshot, ExpirePhase
    <2>2. xpc' = "check" /\ UNCHANGED live /\ \A d \in xids' : d \in Ids /\ live[d] = NoEntry
      BY <1>2 DEF StraySnapshot, HasEntry, TypeOK, ExpTypeOK, storeVars
    <2>3. ExpHas'
      BY <2>2 DEF ExpHas
    <2> QED  BY <1>2, <2>1, <2>3, CrashMoveOn DEF StraySnapshot
  <1>3. CASE StrayNoDatabase
    <2>1. Separate'
      BY <1>3, CrashSeparate DEF StrayNoDatabase, ExpirePhase
    <2>2. ExpHas'
      BY <1>3 DEF StrayNoDatabase, ExpHas
    <2> QED  BY <1>3, <2>1, <2>2, CrashMoveOn DEF StrayNoDatabase
  <1>4. CASE TrashList
    <2>1. Separate'
      BY <1>4, CrashSeparate DEF TrashList, ExpirePhase
    <2>2. ExpHas'
      BY <1>4 DEF TrashList, ExpHas
    <2> QED  BY <1>4, <2>1, <2>2, CrashMoveOn DEF TrashList
  <1>5. CASE TrashSnapshot
    <2>1. Separate'
      BY <1>5, CrashSeparate DEF TrashSnapshot, ExpirePhase
    <2>2. ExpHas'
      BY <1>5 DEF TrashSnapshot, ExpHas
    <2> QED  BY <1>5, <2>1, <2>2, CrashMoveOn DEF TrashSnapshot
  <1>6. CASE StrayEnd
    <2>1. Separate'
      BY <1>6, CrashSeparate DEF StrayEnd, ExpirePhase
    <2>2. ExpHas'
      BY <1>6 DEF StrayEnd, ExpHas
    <2> QED  BY <1>6, <2>1, <2>2, CrashMoveOn DEF StrayEnd
  <1>7. ASSUME NEW d \in Ids, StrayStat(d)
        PROVE  CrashSafe'
    <2>1. Separate'
      BY <1>7, CrashSeparate DEF StrayStat, ExpirePhase
    <2>2. live[d] = NoEntry /\ UNCHANGED live /\ UNCHANGED now /\ xids' \subseteq xids
      BY <1>7 DEF StrayStat, ExpHas, storeVars
    <2>3. xpc' = "check" \/ (xpc' = "move" /\ xcur' = <<d, now>>)
      BY <1>7 DEF StrayStat
    <2>4. now \in Nat
      BY DEF TypeOK, StoreTypeOK
    <2>5. \A c \in xids : live[c] = NoEntry
      BY <1>7 DEF StrayStat, ExpHas
    <2>6. ExpHas'
      BY <2>2, <2>3, <2>4, <2>5 DEF ExpHas
    <2> QED  BY <1>7, <2>1, <2>6, CrashMoveOn DEF StrayStat
  <1> HIDE DEF CrashSafe
  <1> QED  BY <1>1, <1>2, <1>3, <1>4, <1>5, <1>6, <1>7

\* Removing deleted directories adds no name.
LEMMA CrashRemove ==
    ASSUME CrashSafe, TypeOK', UNCHANGED <<alloc, rel, now, live, gone, dirs>>,
           NEW n \in Names, NEW finished \in BOOLEAN, Rmtree(n, finished), Separate', ExpHas'
    PROVE  CrashSafe'
  <1> USE DEF CrashSafe
  <1>1. \A i \in Ids, t \in Stamps : trash'[<<i, t>>] # NoDir => trash[<<i, t>>] # NoDir
    BY DEF Rmtree, Names, TypeOK, StoreTypeOK
  <1>2. now =< now'
    BY DEF TypeOK, StoreTypeOK
  <1>3. \A i \in Ids, e \in Entry \cup {NoEntry} : NamesPast(i, e) => NamesPast(i, e)'
    BY <1>1, <1>2, PastStays
  <1>4. Housed'
    BY <1>3 DEF Housed, TypeOK, StoreTypeOK
  <1>5. AllocHas'
    BY <1>3 DEF AllocHas, TypeOK, AllocTypeOK
  <1> QED  BY <1>4, <1>5, CrashFrame DEF storeVars

\* A directory without an entry of its own gets a name that is not of the future.
LEMMA CrashMoveDir ==
    ASSUME CrashSafe, TypeOK', UNCHANGED <<alloc, now, live, gone>>,
           NEW d \in Ids, NEW ts \in Stamps, TryMoveDir(d, <<d, ts>>),
           live[d] = NoEntry, ts =< now,
           \A q \in Procs : alloc[q].pc = "entry" => alloc[q].id # d
    PROVE  Housed' /\ AllocHas'
  <1> USE DEF CrashSafe
  <1>1. \A i \in Ids, t \in Stamps : <<i, t>> \in Names
    BY DEF Names
  <1>2. \A i \in Ids, t \in Stamps : trash'[<<i, t>>] # NoDir =>
            trash[<<i, t>>] # NoDir \/ (i = d /\ t = ts)
    BY <1>1 DEF TryMoveDir, TypeOK, StoreTypeOK
  <1>3. \A i \in Ids \ {d} : dirs'[i] = dirs[i]
    BY DEF TryMoveDir, TypeOK, StoreTypeOK
  <1>4. now =< now'
    BY DEF TypeOK, StoreTypeOK
  <1>5. \A i \in Ids \ {d}, e \in Entry \cup {NoEntry} : NamesPast(i, e) => NamesPast(i, e)'
    BY <1>2, <1>4, PastStays
  <1>6. NamesPast(d, NoEntry) => NamesPast(d, NoEntry)'
    BY <1>2 DEF NamesPast
  <1>7. Housed'
    <2>1. ASSUME NEW i \in Ids
          PROVE  /\ live'[i] # NoEntry => live'[i].dir = i /\ dirs'[i] # NoDir
                 /\ NamesPast(i, live[i])'
      <3>1. CASE i = d
        <4>1. NamesPast(d, NoEntry)'
          BY <1>6 DEF Housed
        <4> QED  BY <3>1, <4>1 DEF NamesPast
      <3>2. CASE i # d
        <4>1. NamesPast(i, live[i]) /\ live[i] \in Entry \cup {NoEntry}
          BY DEF Housed, TypeOK, StoreTypeOK
        <4>2. PICK e \in Entry \cup {NoEntry} : e = live[i]
          BY <4>1
        <4>3. NamesPast(i, e)'
          BY <1>5, <3>2, <4>1, <4>2
        <4>4. NamesPast(i, live[i])'
          BY <4>2, <4>3 DEF NamesPast
        <4> QED  BY <1>3, <3>2, <4>4 DEF Housed
      <3> QED  BY <3>1, <3>2
    <2> QED  BY <2>1 DEF Housed
  <1>8. AllocHas'
    <2>1. ASSUME NEW q \in Procs, alloc[q].pc = "extend"
          PROVE  NamesPast(alloc[q].id, alloc[q].ent)'
      <3>1. alloc[q].id \in Ids \ {d} /\ alloc[q].ent \in Entry
            /\ NamesPast(alloc[q].id, alloc[q].ent)
        BY <2>1 DEF AllocHas, TypeOK, AllocTypeOK
      <3>2. PICK i \in Ids \ {d}, e \in Entry : i = alloc[q].id /\ e = alloc[q].ent
        BY <3>1
      <3>3. NamesPast(i, e)'
        BY <1>5, <3>1, <3>2
      <3> QED  BY <3>2, <3>3 DEF NamesPast
    <2> QED  BY <1>3, <2>1 DEF AllocHas, TypeOK, AllocTypeOK
  <1> QED  BY <1>7, <1>8

\* A stray has no entry, so no workspace of the database is moved.
LEMMA CrashStrayMove ==
    ASSUME CrashSafe, TypeOK', StrayMove, UNCHANGED <<alloc, rel>>
    PROVE  CrashSafe'
  <1> USE DEF CrashSafe
  <1>1. /\ xcur \in Names /\ live[xcur[1]] = NoEntry /\ xcur[2] =< now
        /\ \A c \in xids : live[c] = NoEntry
        /\ \A q \in Procs : alloc[q].pc # "entry"
    BY DEF StrayMove, ExpHas, Separate, TypeOK, ExpTypeOK
  <1>2. PICK d \in Ids, ts \in Stamps : xcur = <<d, ts>>
    BY <1>1 DEF Names
  <1>3. Housed' /\ AllocHas'
    BY <1>1, <1>2, CrashMoveDir DEF StrayMove
  <1>4. Separate'
    BY CrashSeparate DEF StrayMove, ExpirePhase
  <1>5. RelHas'
    BY CrashFrame DEF StrayMove
  <1>6. ExpHas'
    BY <1>1 DEF StrayMove, ExpHas
  <1> QED  BY <1>3, <1>4, <1>5, <1>6, CrashFrame

\* The removal of deleted directories touches no workspace of the database.
LEMMA CrashTrashRemove ==
    ASSUME CrashSafe, TypeOK', UNCHANGED <<alloc, rel>>,
           NEW n \in Names, NEW finished \in BOOLEAN, TrashRemove(n, finished)
    PROVE  CrashSafe'
  <1>1. Separate'
    BY CrashSeparate DEF TrashRemove, ExpirePhase
  <1>2. ExpHas'
    BY CrashFrame DEF TrashRemove, expVars, ExpHas
  <1> QED  BY <1>1, <1>2, CrashRemove DEF TrashRemove

\* Steps of the expirer's first phase keep the invariant.
LEMMA CrashStrayStep == ASSUME CrashSafe, TypeOK', StrayStep PROVE CrashSafe'
  BY CrashStrayLight, CrashStrayMove, CrashTrashRemove DEF StrayStep

\* The name expire() takes is of the present: none of a later second is taken,
\* and none of this one.
LEMMA CrashChosen ==
    ASSUME CrashSafe, NEW i \in Ids, ExpireChoose(i)
    PROVE  xcur' \in Names /\ xcur'[1] = i /\ xcur'[2] = now /\ gone[xcur'] = NoEntry
  <1> USE DEF CrashSafe
  <1>1. now \in 1 .. MaxTime /\ live[i] \in Entry
    BY DEF ExpireChoose, HasExpired, TypeOK, StoreTypeOK
  <1>2. now \in Stamps /\ now .. (now + MaxTries - 1) \subseteq Stamps
    BY <1>1, StampFacts
  <1>3. live[i].exp < now /\ live[i].exp \in Nat
    BY <1>1 DEF ExpireChoose, HasExpired, Entry
  <1>4. gone[<<i, now>>] = NoEntry /\ trash[<<i, now>>] = NoDir
    <2>1. NamesPast(i, live[i]) /\ live[i] # NoEntry
      BY <1>1, StoreAssumption DEF Housed
    <2>2. ~(now =< live[i].exp)
      BY <1>1, <1>3
    <2> QED  BY <1>2, <2>1, <2>2 DEF NamesPast
  <1>5. now \in FreeStamps(i)
    BY <1>1, <1>4, StoreAssumption DEF FreeStamps
  <1>6. PICK t \in FreeStamps(i) : (\A u \in FreeStamps(i) : t =< u) /\ xcur' = <<i, t>>
    BY DEF ExpireChoose
  <1>7. t \in Stamps /\ now =< t /\ gone[<<i, t>>] = NoEntry /\ t \in Nat
    BY <1>1, <1>2, <1>6, StoreAssumption DEF FreeStamps
  <1>8. t = now
    BY <1>1, <1>5, <1>6, <1>7
  <1> QED  BY <1>6, <1>7, <1>8 DEF Names

\* Steps of the second phase that leave all files as they are.
LEMMA CrashExpireLight ==
    ASSUME CrashSafe, TypeOK', UNCHANGED <<alloc, rel>>,
           \/ MayScan("expire") /\ ExpireList
           \/ ExpireNoDatabase \/ DeleteList \/ ExpireEnd
           \/ \E i \in Ids : ExpireSkip(i) \/ ExpireChoose(i)
           \/ \E n \in Names : DeleteKeep(n)
    PROVE  CrashSafe'
  <1>1. CASE MayScan("expire") /\ ExpireList
    <2>1. Separate'
      BY <1>1, CrashStarts DEF CrashSafe, ExpireList, Separate
    <2>2. ExpHas'
      BY <1>1 DEF ExpireList, ExpHas
    <2> QED  BY <1>1, <2>1, <2>2, CrashMoveOn DEF ExpireList
  <1>2. CASE ExpireNoDatabase
    <2>1. Separate'
      BY <1>2, CrashSeparate DEF ExpireNoDatabase, ExpirePhase
    <2>2. ExpHas'
      BY <1>2 DEF ExpireNoDatabase, ExpHas
    <2> QED  BY <1>2, <2>1, <2>2, CrashMoveOn DEF ExpireNoDatabase
  <1>3. CASE DeleteList
    <2>1. Separate'
      BY <1>3, CrashSeparate DEF DeleteList, ExpirePhase
    <2>2. ExpHas'
      BY <1>3 DEF DeleteList, ExpHas
    <2> QED  BY <1>3, <2>1, <2>2, CrashMoveOn DEF DeleteList
  <1>4. CASE ExpireEnd
    <2>1. Separate'
      BY <1>4, CrashSeparate DEF ExpireEnd, ExpirePhase
    <2>2. ExpHas'
      BY <1>4 DEF ExpireEnd, ExpHas
    <2> QED  BY <1>4, <2>1, <2>2, CrashMoveOn DEF ExpireEnd
  <1>5. ASSUME NEW i \in Ids, ExpireSkip(i)
        PROVE  CrashSafe'
    <2>1. Separate'
      BY <1>5, CrashSeparate DEF ExpireSkip, ExpirePhase
    <2>2. ExpHas'
      BY <1>5 DEF ExpireSkip, ExpHas
    <2> QED  BY <1>5, <2>1, <2>2, CrashMoveOn DEF ExpireSkip
  <1>6. ASSUME NEW i \in Ids, ExpireChoose(i)
        PROVE  CrashSafe'
    <2>1. Separate'
      BY <1>6, CrashSeparate DEF ExpireChoose, ExpirePhase
    <2>2. xcur'[1] = i /\ xcur'[2] = now /\ gone[xcur'] = NoEntry
      BY <1>6, CrashChosen
    <2>3. now \in Nat /\ UNCHANGED <<now, live, gone>> /\ xpc' = "write" /\ xent' = live[i]
      BY <1>6 DEF ExpireChoose, storeVars, CrashSafe, TypeOK, StoreTypeOK
    <2>4. ExpHas'
      BY <2>2, <2>3 DEF ExpHas
    <2> QED  BY <1>6, <2>1, <2>4, CrashMoveOn DEF ExpireChoose
  <1>7. ASSUME NEW n \in Names, DeleteKeep(n)
        PROVE  CrashSafe'
    <2>1. Separate'
      BY <1>7, CrashSeparate DEF DeleteKeep, ExpirePhase
    <2>2. ExpHas'
      BY <1>7 DEF DeleteKeep, ExpHas
    <2> QED  BY <1>7, <2>1, <2>2, CrashMoveOn DEF DeleteKeep
  <1> QED  BY <1>1, <1>2, <1>3, <1>4, <1>5, <1>6, <1>7

\* The marked entry differs from the one that was read in its mark only.
LEMMA CrashExpireWrite ==
    ASSUME CrashSafe, TypeOK', UNCHANGED <<alloc, rel>>, ExpireWrite
    PROVE  CrashSafe'
  <1> USE DEF CrashSafe
  <1>1. /\ xcur \in Names /\ xent \in Entry /\ xcur[2] =< now
        /\ live[xcur[1]] = xent /\ gone[xcur] = NoEntry
        /\ \A q \in Procs : alloc[q].pc = "idle" /\ rel[q].pc = "idle"
    BY DEF ExpireWrite, ExpHas, TypeOK, ExpTypeOK, Separate, ExpirePhase
  <1>2. PICK i \in Ids, ts \in Stamps : xcur = <<i, ts>>
    BY <1>1 DEF Names
  <1>3. /\ xent' \in Entry /\ xent'.dir = xent.dir /\ xent'.exp = xent.exp
        /\ live' = [live EXCEPT ![i] = xent']
    BY <1>1, <1>2 DEF ExpireWrite, WriteEntry, TypeOK, StoreTypeOK, Entry
  <1>4. Separate'
    BY CrashSeparate DEF ExpireWrite, ExpirePhase
  <1>5. Housed'
    BY <1>1, <1>2, <1>3, StoreAssumption
    DEF Housed, NamesPast, ExpireWrite, TypeOK, StoreTypeOK
  <1>6. AllocHas' /\ RelHas'
    BY <1>1 DEF AllocHas, RelHas, ExpireWrite
  <1>7. ExpHas'
    BY <1>1, <1>2, <1>3 DEF ExpHas, ExpireWrite, TypeOK, StoreTypeOK
  <1> QED  BY <1>4, <1>5, <1>6, <1>7, CrashFrame

\* The expirer moves an entry to a free name that is not of the future.
LEMMA CrashExpireDbMove ==
    ASSUME CrashSafe, TypeOK', UNCHANGED <<alloc, rel>>, ExpireDbMove
    PROVE  CrashSafe'
  <1> USE DEF CrashSafe
  <1>1. /\ xcur \in Names /\ xent \in Entry /\ xcur[2] =< now
        /\ live[xcur[1]] = xent /\ gone[xcur] = NoEntry
        /\ \A q \in Procs : alloc[q].pc = "idle" /\ rel[q].pc = "idle"
    BY DEF ExpireDbMove, ExpHas, TypeOK, ExpTypeOK, Separate, ExpirePhase
  <1>2. PICK i \in Ids, ts \in Stamps : xcur = <<i, ts>>
    BY <1>1 DEF Names
  <1>3. live[i] # NoEntry /\ live[i].dir = i
    BY <1>1, <1>2, StoreAssumption DEF Housed
  <1>4. /\ gone' = [gone EXCEPT ![<<i, ts>>] = live[i]]
        /\ live' = [live EXCEPT ![i] = NoEntry]
        /\ UNCHANGED <<now, dirs, trash, xcur, xent>>
        /\ xpc' = "dirmove"
    BY <1>2, <1>3 DEF ExpireDbMove, MoveEntry
  <1>5. Separate'
    BY CrashSeparate DEF ExpireDbMove, ExpirePhase
  <1>6. Housed'
    <2>1. ASSUME NEW j \in Ids
          PROVE  /\ live'[j] # NoEntry => live'[j].dir = j /\ dirs'[j] # NoDir
                 /\ NamesPast(j, live[j])'
      <3>1. CASE j = i
        <4>1. live'[j] = NoEntry
          BY <1>4, <3>1 DEF TypeOK, StoreTypeOK
        <4>2. \A t \in Stamps : gone[<<i, t>>] # NoEntry \/ trash[<<i, t>>] # NoDir =>
                t =< now
          BY DEF Housed, NamesPast
        <4>3. \A t \in Stamps : t # ts => gone'[<<i, t>>] = gone[<<i, t>>]
          BY <1>4 DEF TypeOK, StoreTypeOK, Names
        <4> QED  BY <1>1, <1>2, <1>4, <3>1, <4>1, <4>2, <4>3 DEF NamesPast
      <3>2. CASE j # i
        <4>1. live'[j] = live[j] /\ \A t \in Stamps : gone'[<<j, t>>] = gone[<<j, t>>]
          BY <1>4, <3>2 DEF TypeOK, StoreTypeOK, Names
        <4> QED  BY <1>4, <4>1 DEF Housed, NamesPast
      <3> QED  BY <3>1, <3>2
    <2> QED  BY <2>1 DEF Housed
  <1>7. AllocHas' /\ RelHas'
    BY <1>1 DEF AllocHas, RelHas
  <1>8. ExpHas'
    BY <1>1, <1>2, <1>3, <1>4 DEF ExpHas, TypeOK, StoreTypeOK
  <1> QED  BY <1>5, <1>6, <1>7, <1>8, CrashFrame

\* The expirer moves the directory of an entry that is no longer in the database.
LEMMA CrashExpireDirMove ==
    ASSUME CrashSafe, TypeOK', UNCHANGED <<alloc, rel>>, ExpireDirMove
    PROVE  CrashSafe'
  <1> USE DEF CrashSafe
  <1>1. /\ xcur \in Names /\ live[xcur[1]] = NoEntry /\ xent.dir = xcur[1]
        /\ xcur[2] =< now
        /\ \A q \in Procs : alloc[q].pc = "idle"
    BY DEF ExpireDirMove, ExpHas, Separate, TypeOK, ExpTypeOK, ExpirePhase
  <1>2. PICK d \in Ids, ts \in Stamps : xcur = <<d, ts>>
    BY <1>1 DEF Names
  <1>3. Housed' /\ AllocHas'
    BY <1>1, <1>2, CrashMoveDir DEF ExpireDirMove
  <1>4. Separate'
    BY CrashSeparate DEF ExpireDirMove, ExpirePhase
  <1>5. RelHas'
    BY CrashFrame DEF ExpireDirMove
  <1>6. ExpHas'
    BY DEF ExpireDirMove, ExpHas
  <1> QED  BY <1>3, <1>4, <1>5, <1>6, CrashFrame

\* A deleted entry that goes frees its name.
LEMMA CrashDeleteEntry ==
    ASSUME CrashSafe, TypeOK', UNCHANGED <<alloc, rel>>, NEW n \in Names, DeleteEntry(n)
    PROVE  CrashSafe'
  <1> USE DEF CrashSafe
  <1>1. \A q \in Procs : alloc[q].pc = "idle" /\ rel[q].pc = "idle"
    BY DEF DeleteEntry, Separate, ExpirePhase
  <1>2. \A i \in Ids, t \in Stamps : gone'[<<i, t>>] # NoEntry => gone[<<i, t>>] # NoEntry
    BY DEF DeleteEntry, Names, TypeOK, StoreTypeOK
  <1>3. UNCHANGED <<now, live, dirs, trash>>
    BY DEF DeleteEntry
  <1>4. Separate'
    BY CrashSeparate DEF DeleteEntry, ExpirePhase
  <1>5. Housed'
    BY <1>2, <1>3 DEF Housed, NamesPast
  <1>6. AllocHas' /\ RelHas'
    BY <1>1 DEF AllocHas, RelHas
  <1>7. ExpHas'
    BY DEF DeleteEntry, ExpHas
  <1> QED  BY <1>4, <1>5, <1>6, <1>7, CrashFrame

\* The deleted directory that follows is no workspace of the database either.
LEMMA CrashDeleteTree ==
    ASSUME CrashSafe, TypeOK', UNCHANGED <<alloc, rel>>,
           NEW finished \in BOOLEAN, DeleteTree(finished)
    PROVE  CrashSafe'
  <1>1. Separate'
    BY CrashSeparate DEF DeleteTree, ExpirePhase
  <1>2. ExpHas'
    BY DEF DeleteTree, ExpHas
  <1>3. xcur \in Names
    BY DEF DeleteTree, CrashSafe, TypeOK, ExpTypeOK
  <1> QED  BY <1>1, <1>2, <1>3, CrashRemove DEF DeleteTree

\* Steps of the expirer's second phase keep the invariant.
LEMMA CrashExpireStep == ASSUME CrashSafe, TypeOK', ExpireStep PROVE CrashSafe'
  BY CrashExpireLight, CrashExpireWrite, CrashExpireDbMove, CrashExpireDirMove,
     CrashDeleteEntry, CrashDeleteTree DEF ExpireStep

-----------------------------------------------------------------------------
(* Killed processes: ws_allocate.                                          *)

\* A creation starts while the expirer is idle, on a workspace that is not being
\* released.
LEMMA CrashAllocLookup ==
    ASSUME CrashSafe, TypeOK', UNCHANGED <<rel, expVars>>, NEW p \in Procs, NEW i \in Ids,
           MayStart("allocate", i), AllocLookup(p, i, i)
    PROVE  CrashSafe'
  <1> USE DEF CrashSafe
  <1>1. /\ \A q \in Procs : rel[q].pc # "idle" => rel[q].id # i
        /\ xpc = "idle"
    BY CrashStarts
  <1>2. /\ \A q \in Procs \ {p} : alloc'[q] = alloc[q]
        /\ alloc'[p].pc = "mkdir" /\ alloc'[p].id = i /\ alloc'[p].dir = i
    BY DEF AllocLookup, AllocIdle, TypeOK, AllocTypeOK
  <1>3. Separate'
    BY <1>1, <1>2 DEF Separate, expVars, ExpirePhase
  <1>4. Housed' /\ RelHas' /\ ExpHas'
    BY CrashFrame DEF AllocLookup, storeVars
  <1>5. AllocHas'
    BY <1>2 DEF AllocHas, NamesPast, AllocLookup, storeVars
  <1> QED  BY <1>3, <1>4, <1>5, CrashFrame

\* After the directory was made it is there; other directories stay.
LEMMA CrashAllocMkdir ==
    ASSUME CrashSafe, TypeOK', UNCHANGED <<rel, expVars>>, NEW p \in Procs, AllocMkdir(p)
    PROVE  CrashSafe'
  <1> USE DEF CrashSafe
  <1>1. /\ alloc[p].dir = alloc[p].id /\ alloc[p].id \in Ids
        /\ alloc[p].pc = "mkdir" /\ xpc = "idle"
    BY DEF AllocMkdir, Separate, TypeOK, AllocTypeOK
  <1>2. /\ \A q \in Procs \ {p} : alloc'[q] = alloc[q]
        /\ alloc'[p].pc = "entry" /\ alloc'[p].id = alloc[p].id
        /\ alloc'[p].dir = alloc[p].dir
    BY DEF AllocMkdir, TypeOK, AllocTypeOK, AllocState
  <1>3. dirs'[alloc[p].id] # NoDir /\ \A i \in Ids : dirs[i] # NoDir => dirs'[i] # NoDir
    <2>1. CASE dirs[alloc[p].id] = NoDir
      <3>1. PICK d \in Dir : dirs' = [dirs EXCEPT ![alloc[p].id] = d]
        BY <1>1, <2>1, StoreAssumption
        DEF AllocMkdir, Dir, TypeOK, StoreTypeOK
      <3> QED  BY <1>1, <3>1, StoreAssumption DEF TypeOK, StoreTypeOK
    <2>2. CASE dirs[alloc[p].id] # NoDir
      BY <1>1, <2>2 DEF AllocMkdir
    <2> QED  BY <2>1, <2>2
  <1>4. UNCHANGED <<now, live, gone, trash>>
    BY DEF AllocMkdir
  <1>5. Separate'
    BY <1>1, <1>2 DEF Separate, expVars, ExpirePhase
  <1>6. Housed'
    BY <1>3, <1>4 DEF Housed, NamesPast
  <1>7. AllocHas'
    BY <1>2, <1>3, <1>4 DEF AllocHas, NamesPast, TypeOK, AllocTypeOK
  <1> QED  BY <1>4, <1>5, <1>6, <1>7, CrashFrame

\* A command that has ended relies on nothing.
LEMMA CrashAllocEnds ==
    ASSUME CrashSafe, TypeOK', UNCHANGED <<rel, expVars>>, NEW p \in Procs,
           alloc' = [alloc EXCEPT ![p] = AllocIdle]
    PROVE  /\ Separate'
           /\ \A q \in Procs : alloc'[q].pc # "idle" => alloc'[q] = alloc[q]
  <1> USE DEF CrashSafe
  <1>1. /\ \A q \in Procs \ {p} : alloc'[q] = alloc[q]
        /\ alloc'[p].pc = "idle"
    BY DEF AllocIdle, TypeOK, AllocTypeOK
  <1> QED  BY <1>1 DEF Separate, expVars

\* An entry is written, for a workspace that has its directory, that nobody
\* releases or expires, and that no scan takes for a stray.
LEMMA CrashWrite ==
    ASSUME CrashSafe, TypeOK', UNCHANGED <<now, gone, dirs, trash, rel, expVars>>,
           NEW p \in Procs, alloc' = [alloc EXCEPT ![p] = AllocIdle],
           NEW i \in Ids, NEW e \in Entry, WriteEntry(i, e),
           e.dir = i, dirs[i] # NoDir, NamesPast(i, e),
           \A q \in Procs : rel[q].pc # "idle" => rel[q].id # i,
           xpc \notin ExpirePhase,
           xpc \in {"check", "move"} => live[i] # NoEntry
    PROVE  CrashSafe'
  <1> USE DEF CrashSafe
  <1>1. /\ live' = [live EXCEPT ![i] = e]
        /\ e # NoEntry
        /\ \A j \in Ids \ {i} : live'[j] = live[j]
        /\ live'[i] = e
    BY StoreAssumption DEF WriteEntry, TypeOK, StoreTypeOK
  <1>2. Separate' /\ \A q \in Procs : alloc'[q].pc # "idle" => alloc'[q] = alloc[q]
    BY CrashAllocEnds
  <1>3. Housed'
    BY <1>1 DEF Housed, NamesPast
  <1>4. AllocHas'
    BY <1>1, <1>2 DEF AllocHas, NamesPast, TypeOK, AllocTypeOK
  <1>5. RelHas'
    BY <1>1 DEF RelHas, TypeOK, RelTypeOK
  <1>6. ExpHas'
    <2>1. \A d \in xids : d \in Ids
      BY DEF TypeOK, ExpTypeOK
    <2>2. xpc = "move" => xcur[1] \in Ids
      BY DEF TypeOK, ExpTypeOK, Names
    <2> QED  BY <1>1, <2>1, <2>2 DEF ExpHas, ExpirePhase, expVars
  <1> QED  BY <1>2, <1>3, <1>4, <1>5, <1>6, CrashFrame

\* The entry of a new workspace expires now or later, after all names in use.
LEMMA CrashAllocEntry ==
    ASSUME CrashSafe, TypeOK', UNCHANGED <<rel, expVars>>, NEW p \in Procs,
           NEW dur \in Durations, AllocEntry(p, dur)
    PROVE  CrashSafe'
  <1> USE DEF CrashSafe
  <1> DEFINE i == alloc[p].id
             e == [dir |-> i, exp |-> now + dur, ext |-> MaxExtensions,
                   released |-> 0, expired |-> 0]
  <1>1. /\ i \in Ids /\ alloc[p].dir = i /\ xpc = "idle" /\ dirs[i] # NoDir
        /\ \A q \in Procs : rel[q].pc # "idle" => rel[q].id # i
    BY DEF AllocEntry, Separate, AllocHas, TypeOK, AllocTypeOK
  <1>2. now \in Nat /\ dur \in Nat /\ MaxExtensions \in Nat
    BY AllocateAssumption DEF TypeOK, StoreTypeOK
  <1>3. e \in Entry /\ e.dir = i /\ e.exp = now + dur
    BY <1>1, <1>2 DEF Entry
  <1>4. WriteEntry(i, e)
    BY <1>1 DEF AllocEntry
  <1>5. NamesPast(i, e)
    <2>1. \A t \in Stamps : gone[<<i, t>>] # NoEntry \/ trash[<<i, t>>] # NoDir => t =< now
      BY <1>1 DEF Housed, NamesPast
    <2>2. \A t \in Stamps : t =< now => t =< now + dur
      BY <1>2, StampFacts
    <2> QED  BY <1>3, <2>1, <2>2 DEF NamesPast
  <1>6. \E j \in Ids, f \in Entry : j = i /\ f = e
    BY <1>1, <1>3
  <1>7. PICK j \in Ids, f \in Entry : j = i /\ f = e
    BY <1>6
  <1>8. WriteEntry(j, f) /\ f.dir = j /\ dirs[j] # NoDir /\ NamesPast(j, f)
    BY <1>1, <1>3, <1>4, <1>5, <1>7
  <1>9. xpc \notin ExpirePhase /\ xpc \notin {"check", "move"}
    BY <1>1 DEF ExpirePhase
  <1>10. UNCHANGED <<now, gone, dirs, trash>> /\ alloc' = [alloc EXCEPT ![p] = AllocIdle]
    BY DEF AllocEntry
  <1> QED  BY <1>1, <1>7, <1>8, <1>9, <1>10, CrashWrite

\* An extension starts on a workspace that has an entry and is not being released.
LEMMA CrashExtendRead ==
    ASSUME CrashSafe, TypeOK', UNCHANGED <<rel, expVars>>, NEW p \in Procs, NEW i \in Ids,
           MayStart("extend", i), ExtendRead(p, i)
    PROVE  CrashSafe'
  <1> USE DEF CrashSafe
  <1>1. /\ \A q \in Procs : rel[q].pc # "idle" => rel[q].id # i
        /\ xpc \notin ExpirePhase
        /\ live[i] # NoEntry /\ live[i].dir = i /\ NamesPast(i, live[i])
    BY CrashStarts DEF ExtendRead, Housed
  <1>2. /\ \A q \in Procs \ {p} : alloc'[q] = alloc[q]
        /\ alloc'[p].pc = "extend" /\ alloc'[p].id = i /\ alloc'[p].dir = i
        /\ alloc'[p].ent = live[i]
    BY <1>1 DEF ExtendRead, AllocIdle, TypeOK, AllocTypeOK
  <1>3. Separate'
    BY <1>1, <1>2 DEF Separate, expVars
  <1>4. Housed' /\ RelHas' /\ ExpHas'
    BY CrashFrame DEF ExtendRead, storeVars
  <1>5. UNCHANGED <<now, live, gone, trash, dirs>>
    BY DEF ExtendRead, storeVars
  <1>6. AllocHas'
    BY <1>1, <1>2, <1>5 DEF AllocHas, NamesPast
  <1> QED  BY <1>3, <1>4, <1>6, CrashFrame

\* An extension keeps the directory, and an expiration it changes is not of the
\* past.
LEMMA CrashExtendWrite ==
    ASSUME CrashSafe, TypeOK', UNCHANGED <<rel, expVars>>, NEW p \in Procs,
           NEW dur \in Durations \cup {0}, NEW root \in BOOLEAN, ExtendWrite(p, dur, root)
    PROVE  CrashSafe'
  <1> USE DEF CrashSafe
  <1> DEFINE i == alloc[p].id
             exp == IF dur = 0 THEN 0 ELSE now + dur
             e == Extended(alloc[p].ent, exp, root)
  <1>1. /\ i \in Ids /\ alloc[p].ent \in Entry /\ alloc[p].pc = "extend"
        /\ live[i] # NoEntry /\ alloc[p].ent.dir = i /\ NamesPast(i, alloc[p].ent)
        /\ \A q \in Procs : rel[q].pc # "idle" => rel[q].id # i
        /\ xpc \notin ExpirePhase
    BY DEF ExtendWrite, Separate, AllocHas, TypeOK, AllocTypeOK
  <1>2. now \in Nat /\ dur \in Nat
    BY AllocateAssumption DEF TypeOK, StoreTypeOK
  <1>3. /\ UNCHANGED <<now, gone, dirs, trash>>
        /\ alloc' = [alloc EXCEPT ![p] = AllocIdle]
        /\ UNCHANGED live \/ WriteEntry(i, e)
    BY DEF ExtendWrite
  <1>4. CASE UNCHANGED live
    <2>1. Separate' /\ \A q \in Procs : alloc'[q].pc # "idle" => alloc'[q] = alloc[q]
      BY <1>3, CrashAllocEnds
    <2>2. Housed'
      BY <1>3, <1>4 DEF Housed, NamesPast
    <2>3. AllocHas'
      BY <1>3, <1>4, <2>1 DEF AllocHas, NamesPast
    <2>4. RelHas' /\ ExpHas'
      BY <1>3, <1>4, CrashFrame DEF expVars
    <2> QED  BY <2>1, <2>2, <2>3, <2>4, CrashFrame
  <1>5. CASE live' # live
    <2>1. WriteEntry(i, e)
      BY <1>3, <1>5
    <2>2. e.dir = i /\ (e.exp = alloc[p].ent.exp \/ e.exp = now + dur)
      BY <1>1, <1>2 DEF Extended, Entry
    <2>3. e \in Entry
      <3>1. ~(NeedsExtension(alloc[p].ent, exp) /\ ~root /\ alloc[p].ent.ext = 0)
        BY <1>5 DEF ExtendWrite
      <3>2. exp \in Nat
        BY <1>2
      <3> HIDE DEF exp
      <3> QED  BY <1>1, <3>1, <3>2, ExtendedType
    <2>4. NamesPast(i, e)
      <3>1. \A t \in Stamps : gone[<<i, t>>] # NoEntry \/ trash[<<i, t>>] # NoDir =>
                t =< now /\ t =< alloc[p].ent.exp
        BY <1>1, StoreAssumption DEF NamesPast
      <3>2. \A t \in Stamps : t =< now => t =< now + dur
        BY <1>2, StampFacts
      <3> QED  BY <2>2, <3>1, <3>2 DEF NamesPast
    <2>5. PICK j \in Ids, f \in Entry : j = i /\ f = e
      BY <1>1, <2>3
    <2>6. /\ WriteEntry(j, f) /\ f.dir = j /\ NamesPast(j, f) /\ live[j] # NoEntry
          /\ \A q \in Procs : rel[q].pc # "idle" => rel[q].id # j
      BY <1>1, <2>1, <2>2, <2>4, <2>5
    <2>7. dirs[j] # NoDir
      BY <2>6 DEF Housed
    <2> QED  BY <1>1, <1>3, <2>5, <2>6, <2>7, CrashWrite
  <1> QED  BY <1>4, <1>5

\* Steps of ws_allocate keep the invariant.
LEMMA CrashAllocateStep ==
    ASSUME CrashSafe, TypeOK', AllocateStep \/ ExtendStep PROVE CrashSafe'
  <1>1. Targets = {<<i, i>> : i \in Ids}
    BY DEF CrashSafe, CrashConfig, Targets
  <1>2. CASE AllocateStep
    BY <1>1, <1>2, CrashAllocLookup, CrashAllocMkdir, CrashAllocEntry DEF AllocateStep
  <1>3. CASE ExtendStep
    BY <1>3, CrashExtendRead, CrashExtendWrite DEF ExtendStep
  <1> QED  BY <1>2, <1>3

-----------------------------------------------------------------------------
(* Killed processes: ws_release.                                           *)

\* A step of a ws_release that goes on with its workspace, or ends, keeps the
\* tools apart.
LEMMA CrashRelSeparate ==
    ASSUME CrashSafe, TypeOK', UNCHANGED <<alloc, expVars>>, NEW p \in Procs,
           rel[p].pc # "idle",
           \A q \in Procs \ {p} : rel'[q] = rel[q],
           rel'[p].pc # "idle" => rel'[p].id = rel[p].id
    PROVE  Separate'
  BY DEF CrashSafe, Separate, expVars

\* The expirer may look at strays meanwhile, which the released workspace is not
\* as long as it has an entry.
LEMMA CrashRelAlone ==
    ASSUME CrashSafe, NEW p \in Procs, rel[p].pc # "idle"
    PROVE  /\ rel[p].id \in Ids /\ rel[p].ent \in Entry /\ rel[p].ts \in Stamps
           /\ rel[p].ts \in Nat /\ now \in Nat
           /\ \A q \in Procs : alloc[q].pc # "idle" => alloc[q].id # rel[p].id
           /\ \A q \in Procs \ {p} : rel[q].pc # "idle" => rel[q].id # rel[p].id
           /\ xpc \notin ExpirePhase
           /\ \A t \in Stamps : <<rel[p].id, t>> \in Names
  BY StampFacts DEF CrashSafe, Separate, TypeOK, StoreTypeOK, RelTypeOK, RelState, Names

\* A release starts on a workspace nobody else works on, with the name of this
\* second, later than all names in use.
LEMMA CrashReleaseRead ==
    ASSUME CrashSafe, TypeOK', UNCHANGED <<alloc, expVars>>, NEW p \in Procs,
           NEW i \in Ids, NEW purge \in BOOLEAN,
           MayStart("release", i), ReleaseRead(p, i, purge)
    PROVE  CrashSafe'
  <1> USE DEF CrashSafe
  <1>1. /\ \A q \in Procs : rel[q].pc # "idle" => rel[q].id # i
        /\ \A q \in Procs : alloc[q].pc # "idle" => alloc[q].id # i
        /\ xpc \notin ExpirePhase
    BY CrashStarts
  <1>2. /\ \A q \in Procs \ {p} : rel'[q] = rel[q]
        /\ rel'[p].pc = "mark" /\ rel'[p].id = i /\ rel'[p].ent = live[i]
        /\ rel'[p].ts = now
    BY DEF ReleaseRead, TypeOK, RelTypeOK
  <1>3. UNCHANGED storeVars
    BY DEF ReleaseRead
  <1>4. Separate'
    BY <1>1, <1>2 DEF Separate, expVars
  <1>5. now \in Nat /\ Stamps \subseteq Nat
    BY StampFacts DEF TypeOK, StoreTypeOK
  <1>6. \A t \in Stamps : t > now => gone[<<i, t>>] = NoEntry
    <2>1. NamesPast(i, live[i])
      BY DEF Housed
    <2> QED  BY ONLY <1>5, <2>1 DEF NamesPast
  <1>7. RelHas'
    BY <1>2, <1>3, <1>5, <1>6 DEF RelHas, storeVars
  <1> QED  BY <1>3, <1>4, <1>7, CrashFrame DEF storeVars

\* The marked entry differs from the one that was read in its mark only.
LEMMA CrashReleaseMark ==
    ASSUME CrashSafe, TypeOK', UNCHANGED <<alloc, expVars>>, NEW p \in Procs,
           ReleaseMark(p)
    PROVE  CrashSafe'
  <1> USE DEF CrashSafe
  <1>1. rel[p].pc = "mark"
    BY DEF ReleaseMark
  <1>2. PICK i \in Ids, e \in Entry : i = rel[p].id /\ e = [rel[p].ent EXCEPT !.released = now]
    BY <1>1, CrashRelAlone DEF Entry
  <1>3. /\ live[i] = rel[p].ent /\ rel[p].ent \in Entry /\ live[i] # NoEntry
        /\ rel[p].ts =< now
        /\ \A t \in Stamps : t > rel[p].ts => gone[<<i, t>>] = NoEntry
    <2>1. rel[p].ent \in Entry /\ rel[p].ent # NoEntry
      BY <1>1, CrashRelAlone, StoreAssumption
    <2>2. /\ live[i] = rel[p].ent
          /\ rel[p].ts =< now
          /\ \A t \in Stamps : t > rel[p].ts => gone[<<i, t>>] = NoEntry
      BY <1>1, <1>2 DEF RelHas
    <2> QED  BY <2>1, <2>2
  <1>4. e.dir = live[i].dir /\ e.exp = live[i].exp /\ e # NoEntry
    BY <1>2, <1>3, StoreAssumption DEF Entry
  <1>5. /\ live' = [live EXCEPT ![i] = e]
        /\ \A j \in Ids \ {i} : live'[j] = live[j]
        /\ live'[i] = e
        /\ UNCHANGED <<now, gone, dirs, trash>>
    BY <1>2 DEF ReleaseMark, WriteEntry, TypeOK, StoreTypeOK
  <1>6. /\ \A q \in Procs \ {p} : rel'[q] = rel[q]
        /\ rel'[p].pc = "probe" /\ rel'[p].id = i /\ rel'[p].ent = e
        /\ rel'[p].ts = rel[p].ts
    BY <1>2 DEF ReleaseMark, TypeOK, RelTypeOK, RelState
  <1>7. Separate'
    BY <1>1, <1>2, <1>6, CrashRelSeparate
  <1>8. Housed'
    BY <1>3, <1>4, <1>5 DEF Housed, NamesPast
  <1>9. AllocHas'
    BY <1>1, <1>2, <1>5, CrashRelAlone DEF AllocHas, NamesPast, TypeOK, AllocTypeOK
  <1>10. RelHas'
    <2>1. \A q \in Procs \ {p} : rel[q].pc # "idle" => rel[q].id \in Ids \ {i}
      BY <1>1, <1>2, CrashRelAlone
    <2> QED  BY <1>3, <1>5, <1>6, <2>1 DEF RelHas
  <1>11. ExpHas'
    <2>1. xpc \notin ExpirePhase /\ xids \subseteq Ids /\ (xpc = "move" => xcur[1] \in Ids)
      BY <1>1, CrashRelAlone DEF TypeOK, ExpTypeOK, Names
    <2> QED  BY <1>3, <1>5, <2>1 DEF ExpHas, ExpirePhase, expVars
  <1> QED  BY <1>7, <1>8, <1>9, <1>10, <1>11, CrashFrame

\* After a collision the next name is free as well: nobody else takes names of
\* this workspace, and those in use are not of the future.
LEMMA CrashReleaseProbe ==
    ASSUME CrashSafe, TypeOK', UNCHANGED <<alloc, expVars>>, NEW p \in Procs,
           ReleaseProbe(p)
    PROVE  CrashSafe'
  <1> USE DEF CrashSafe
  <1> DEFINE r == rel[p]
             s == rel'[p]
  <1>1. r.pc = "probe"
    BY DEF ReleaseProbe
  <1>2. /\ \A q \in Procs \ {p} : rel'[q] = rel[q]
        /\ s.pc = "dbmove" /\ s.id = r.id /\ s.ent = r.ent
        /\ \/ gone[<<r.id, r.ts>>] = NoEntry /\ s.ts = r.ts /\ s.until = now
           \/ s.ts = r.ts + 1 /\ s.until = now + 1
    <2>1. rel \in [Procs -> RelState]
      BY DEF TypeOK, RelTypeOK
    <2> QED  BY ONLY ReleaseProbe(p), <2>1 DEF ReleaseProbe, RelState
  <1>3. UNCHANGED storeVars
    BY DEF ReleaseProbe
  <1>4. r.ts \in Nat /\ now \in Nat /\ r.ts =< now
        /\ \A t \in Stamps : t > r.ts => gone[<<r.id, t>>] = NoEntry
    BY <1>1, CrashRelAlone DEF RelHas
  <1>5. s.ts \in Stamps
    BY DEF TypeOK, RelTypeOK, RelState
  <1>6. s.ts =< s.until /\ gone[<<s.id, s.ts>>] = NoEntry
    BY <1>2, <1>4, <1>5
  <1>7. Separate'
    BY <1>1, <1>2, CrashRelSeparate
  <1>8. live[s.id] = s.ent
    BY <1>1, <1>2 DEF RelHas
  <1>9. RelHas'
    BY <1>2, <1>3, <1>6, <1>8 DEF RelHas, storeVars
  <1> QED  BY <1>3, <1>7, <1>9, CrashFrame DEF storeVars

\* The entry gets a name that is free, and by then not of the future.
LEMMA CrashReleaseDbMove ==
    ASSUME CrashSafe, TypeOK', UNCHANGED <<alloc, expVars>>, NEW p \in Procs,
           ReleaseDbMove(p)
    PROVE  CrashSafe'
  <1> USE DEF CrashSafe
  <1>1. rel[p].pc = "dbmove" /\ now >= rel[p].until
    BY DEF ReleaseDbMove
  <1>2. PICK i \in Ids, ts \in Stamps : i = rel[p].id /\ ts = rel[p].ts
    BY <1>1, CrashRelAlone
  <1>3. live[i] = rel[p].ent /\ live[i] # NoEntry
    <2>1. rel[p].ent # NoEntry
      BY <1>1, CrashRelAlone, StoreAssumption
    <2> QED  BY <1>1, <1>2, <2>1 DEF RelHas
  <1>4. ts =< now
    <2>1. rel[p].until \in Nat
      BY DEF TypeOK, RelTypeOK, RelState
    <2>2. rel[p].ts =< rel[p].until
      BY <1>1 DEF RelHas
    <2> QED  BY <1>1, <1>2, <2>1, <2>2, CrashRelAlone
  <1>5. /\ gone' = [gone EXCEPT ![<<i, ts>>] = live[i]]
        /\ live' = [live EXCEPT ![i] = NoEntry]
        /\ UNCHANGED <<now, dirs, trash>>
    BY <1>2, <1>3 DEF ReleaseDbMove, MoveEntry
  <1>6. /\ live'[i] = NoEntry
        /\ \A j \in Ids \ {i} : live'[j] = live[j]
        /\ \A j \in Ids, t \in Stamps : j # i \/ t # ts => gone'[<<j, t>>] = gone[<<j, t>>]
    BY <1>5 DEF TypeOK, StoreTypeOK, Names
  <1>7. /\ \A q \in Procs \ {p} : rel'[q] = rel[q]
        /\ rel'[p].pc \in {"dirmove", "purge"} /\ rel'[p].id = i
        /\ rel'[p].ent = rel[p].ent /\ rel'[p].ts = ts
    BY <1>2, <1>3 DEF ReleaseDbMove, TypeOK, RelTypeOK, RelState
  <1>8. Separate'
    BY <1>1, <1>2, <1>7, CrashRelSeparate
  <1>9. Housed'
    <2>1. ASSUME NEW j \in Ids
          PROVE  /\ live'[j] # NoEntry => live'[j].dir = j /\ dirs'[j] # NoDir
                 /\ NamesPast(j, live[j])'
      <3>1. CASE j = i
        <4>1. \A t \in Stamps : gone[<<i, t>>] # NoEntry \/ trash[<<i, t>>] # NoDir =>
                t =< now
          BY DEF Housed, NamesPast
        <4> QED  BY <1>4, <1>5, <1>6, <3>1, <4>1 DEF NamesPast
      <3>2. CASE j # i
        BY <1>5, <1>6, <3>2 DEF Housed, NamesPast
      <3> QED  BY <3>1, <3>2
    <2> QED  BY <2>1 DEF Housed
  <1>10. AllocHas'
    <2>1. \A q \in Procs : alloc[q].pc # "idle" => alloc[q].id \in Ids \ {i}
      BY <1>1, <1>2, CrashRelAlone DEF TypeOK, AllocTypeOK
    <2> QED  BY <1>5, <1>6, <2>1 DEF AllocHas, NamesPast
  <1>11. RelHas'
    <2>1. \A q \in Procs \ {p} : rel[q].pc # "idle" => rel[q].id \in Ids \ {i}
      BY <1>1, <1>2, CrashRelAlone
    <2>2. \A q \in Procs \ {p} : rel[q].ts \in Stamps
      BY DEF TypeOK, RelTypeOK, RelState
    <2>3. rel[p].ent.dir = i
      BY <1>3 DEF Housed
    <2> QED  BY <1>4, <1>5, <1>6, <1>7, <2>1, <2>2, <2>3 DEF RelHas
  <1>12. ExpHas'
    <2>1. xpc \notin ExpirePhase /\ xids \subseteq Ids /\ (xpc = "move" => xcur[1] \in Ids)
      BY <1>1, CrashRelAlone DEF TypeOK, ExpTypeOK, Names
    <2> QED  BY <1>5, <1>6, <2>1 DEF ExpHas, ExpirePhase, expVars
  <1> QED  BY <1>8, <1>9, <1>10, <1>11, <1>12, CrashFrame

\* A ws_release that has ended relies on nothing.
LEMMA CrashRelEnds ==
    ASSUME CrashSafe, TypeOK', UNCHANGED <<alloc, expVars, live, now>>, NEW p \in Procs,
           rel[p].pc # "idle", rel' = [rel EXCEPT ![p] = RelIdle],
           \A n \in Names : gone'[n] # NoEntry => gone'[n] = gone[n]
    PROVE  Separate' /\ RelHas'
  <1> USE DEF CrashSafe
  <1>1. /\ \A q \in Procs \ {p} : rel'[q] = rel[q]
        /\ rel'[p].pc = "idle"
    BY DEF RelIdle, TypeOK, RelTypeOK
  <1>2. Separate'
    BY <1>1, CrashRelSeparate
  <1>3. \A q \in Procs : rel[q].pc # "idle" => \A t \in Stamps : <<rel[q].id, t>> \in Names
    BY CrashRelAlone
  <1>4. \A q \in Procs : rel[q].ts \in Stamps
    BY DEF TypeOK, RelTypeOK, RelState
  <1>5. RelHas'
    BY <1>1, <1>3, <1>4 DEF RelHas
  <1> QED  BY <1>2, <1>5

\* The directory of a released workspace gets a name that is not of the future.
LEMMA CrashReleaseDirMove ==
    ASSUME CrashSafe, TypeOK', UNCHANGED <<alloc, expVars>>, NEW p \in Procs,
           ReleaseDirMove(p)
    PROVE  CrashSafe'
  <1> USE DEF CrashSafe
  <1>1. rel[p].pc = "dirmove"
    BY DEF ReleaseDirMove
  <1>2. PICK d \in Ids, ts \in Stamps : d = rel[p].id /\ ts = rel[p].ts
    BY <1>1, CrashRelAlone
  <1>3. live[d] = NoEntry /\ rel[p].ent.dir = d /\ ts =< now
    BY <1>1, <1>2 DEF RelHas
  <1>4. /\ TryMoveDir(d, <<d, ts>>) /\ UNCHANGED <<now, live, gone>>
        /\ rel' = [rel EXCEPT ![p] = RelIdle]
    BY <1>2, <1>3 DEF ReleaseDirMove
  <1>5. \A q \in Procs : alloc[q].pc = "entry" => alloc[q].id # d
    BY <1>1, <1>2, CrashRelAlone
  <1>6. Housed' /\ AllocHas'
    BY <1>3, <1>4, <1>5, CrashMoveDir
  <1>7. Separate' /\ RelHas'
    BY <1>1, <1>4, CrashRelEnds
  <1>8. ExpHas'
    BY <1>4, CrashFrame
  <1> QED  BY <1>6, <1>7, <1>8, CrashFrame

\* With --delete-data the directory of a workspace that has no entry any more is
\* removed, perhaps not completely.
LEMMA CrashReleasePurge ==
    ASSUME CrashSafe, TypeOK', UNCHANGED <<alloc, expVars>>, NEW p \in Procs,
           NEW finished \in BOOLEAN, ReleasePurge(p, finished)
    PROVE  CrashSafe'
  <1> USE DEF CrashSafe
  <1>1. rel[p].pc = "purge"
    BY DEF ReleasePurge
  <1>2. PICK i \in Ids : i = rel[p].id
    BY <1>1, CrashRelAlone
  <1>3. live[i] = NoEntry /\ rel[p].ent.dir = i
    BY <1>1, <1>2 DEF RelHas
  <1>4. \A j \in Ids \ {i} : dirs'[j] = dirs[j]
    BY <1>3 DEF ReleasePurge, TypeOK, StoreTypeOK
  <1>5. UNCHANGED <<now, live, gone, trash>>
    BY DEF ReleasePurge
  <1>6. /\ \A q \in Procs \ {p} : rel'[q] = rel[q]
        /\ rel'[p].pc = "forget" /\ rel'[p].id = i
    BY <1>2 DEF ReleasePurge, TypeOK, RelTypeOK, RelState
  <1>7. Separate'
    BY <1>1, <1>2, <1>6, CrashRelSeparate
  <1>8. Housed'
    BY <1>3, <1>4, <1>5 DEF Housed, NamesPast
  <1>9. AllocHas'
    <2>1. \A q \in Procs : alloc[q].pc # "idle" => alloc[q].id \in Ids \ {i}
      BY <1>1, <1>2, CrashRelAlone DEF TypeOK, AllocTypeOK
    <2> QED  BY <1>4, <1>5, <2>1 DEF AllocHas, NamesPast
  <1>10. RelHas'
    BY <1>5, <1>6 DEF RelHas
  <1>11. ExpHas'
    BY <1>5, CrashFrame
  <1> QED  BY <1>7, <1>8, <1>9, <1>10, <1>11, CrashFrame

\* The deleted entry that goes with --delete-data frees its name.
LEMMA CrashReleaseForget ==
    ASSUME CrashSafe, TypeOK', UNCHANGED <<alloc, expVars>>, NEW p \in Procs,
           ReleaseForget(p)
    PROVE  CrashSafe'
  <1> USE DEF CrashSafe
  <1>1. rel[p].pc = "forget"
    BY DEF ReleaseForget
  <1>2. /\ UNCHANGED <<now, live, dirs, trash>>
        /\ rel' = [rel EXCEPT ![p] = RelIdle]
        /\ \A n \in Names : gone'[n] # NoEntry => gone'[n] = gone[n]
    BY DEF ReleaseForget, TypeOK, StoreTypeOK
  <1>3. \A i \in Ids, t \in Stamps : <<i, t>> \in Names
    BY DEF Names
  <1>4. Separate' /\ RelHas'
    BY <1>1, <1>2, CrashRelEnds
  <1>5. Housed'
    BY <1>2, <1>3 DEF Housed, NamesPast
  <1>6. AllocHas'
    <2>1. \A q \in Procs : alloc[q].pc # "idle" => alloc[q].id \in Ids
      BY DEF TypeOK, AllocTypeOK
    <2> QED  BY <1>2, <1>3, <2>1 DEF AllocHas, NamesPast
  <1>7. ExpHas'
    <2>1. xpc \notin ExpirePhase
      BY <1>1, CrashRelAlone
    <2> QED  BY <1>2, <2>1 DEF ExpHas, ExpirePhase, expVars
  <1> QED  BY <1>4, <1>5, <1>6, <1>7, CrashFrame

\* A ws_release that ends, or is killed, between two file operations.
LEMMA CrashReleaseStops ==
    ASSUME CrashSafe, TypeOK', UNCHANGED <<alloc, expVars, storeVars>>, NEW p \in Procs,
           rel[p].pc # "idle", rel' = [rel EXCEPT ![p] = RelIdle]
    PROVE  CrashSafe'
  <1>1. Separate' /\ RelHas'
    BY CrashRelEnds DEF storeVars
  <1> QED  BY <1>1, CrashFrame DEF CrashSafe, storeVars

\* Steps of ws_release keep the invariant.
LEMMA CrashReleaseStep == ASSUME CrashSafe, TypeOK', ReleaseStep PROVE CrashSafe'
  BY CrashReleaseRead, CrashReleaseMark, CrashReleaseProbe, CrashReleaseDbMove,
     CrashReleaseDirMove, CrashReleasePurge, CrashReleaseForget DEF ReleaseStep

-----------------------------------------------------------------------------
(* Killed processes: the theorems.                                         *)

\* Whatever is killed, and wherever.
LEMMA CrashCrashStep == ASSUME CrashSafe, TypeOK', CrashStep PROVE CrashSafe'
  <1>1. ASSUME NEW p \in Procs, AllocCrash(p), UNCHANGED <<rel, expVars>>
        PROVE  CrashSafe'
    <2>1. Separate' /\ \A q \in Procs : alloc'[q].pc # "idle" => alloc'[q] = alloc[q]
      BY <1>1, CrashAllocEnds DEF AllocCrash
    <2>2. UNCHANGED storeVars
      BY <1>1 DEF AllocCrash
    <2>3. AllocHas'
      BY <2>1, <2>2 DEF CrashSafe, AllocHas, NamesPast, storeVars
    <2> QED  BY <1>1, <2>1, <2>2, <2>3, CrashFrame DEF CrashSafe, storeVars
  <1>2. ASSUME NEW p \in Procs, ReleaseCrash(p), UNCHANGED <<alloc, expVars>>
        PROVE  CrashSafe'
    BY <1>2, CrashReleaseStops DEF ReleaseCrash
  <1>3. CASE ExpirerCrash /\ UNCHANGED <<alloc, rel>>
    <2>1. Separate'
      BY <1>3 DEF CrashSafe, Separate, ExpirerCrash, ExpirePhase
    <2>2. ExpHas'
      BY <1>3 DEF ExpirerCrash, ExpHas
    <2> QED  BY <1>3, <2>1, <2>2, CrashMoveOn DEF ExpirerCrash
  <1> QED  BY <1>1, <1>2, <1>3 DEF CrashStep

\* Time only makes names older.
LEMMA CrashTick == ASSUME CrashSafe, TypeOK', Tick PROVE CrashSafe'
  <1> USE DEF CrashSafe
  <1>1. /\ UNCHANGED <<live, gone, dirs, trash, alloc, rel, expVars>>
        /\ now \in Nat /\ now' = now + 1 /\ now =< now'
    BY DEF Tick, disk, TypeOK, StoreTypeOK
  <1>2. \A i \in Ids, e \in Entry \cup {NoEntry} : NamesPast(i, e) => NamesPast(i, e)'
    BY <1>1, PastStays
  <1>3. Housed'
    BY <1>1, <1>2 DEF Housed, TypeOK, StoreTypeOK
  <1>4. AllocHas'
    BY <1>1, <1>2 DEF AllocHas, TypeOK, AllocTypeOK
  <1>5. RelHas'
    <2>1. \A q \in Procs : rel[q].ts \in Nat
      BY StampFacts DEF TypeOK, RelTypeOK, RelState
    <2>2. \A q \in Procs : rel[q].ts =< now => rel[q].ts =< now'
      BY <1>1, <2>1
    <2> QED  BY <1>1, <2>2 DEF RelHas
  <1>6. ExpHas'
    <2>1. xpc \in {"move", "write", "dbmove", "dirmove"} => xcur[2] \in Nat
      BY StampFacts DEF TypeOK, ExpTypeOK, Names
    <2> QED  BY <1>1, <2>1 DEF ExpHas, expVars
  <1>7. Separate'
    BY <1>1, CrashFrame DEF expVars
  <1> QED  BY <1>3, <1>4, <1>5, <1>6, <1>7, CrashFrame

\* The empty installation satisfies the invariant.
LEMMA CrashInit == ASSUME CrashConfig, Init PROVE CrashSafe
  <1>1. TypeOK
    BY InitType
  <1>2. /\ \A p \in Procs : alloc[p].pc = "idle" /\ rel[p].pc = "idle"
        /\ \A i \in Ids : live[i] = NoEntry
        /\ \A n \in Names : gone[n] = NoEntry /\ trash[n] = NoDir
        /\ xpc = "idle"
    BY DEF Init, StoreInit, AllocInit, RelInit, ExpInit, AllocIdle, RelIdle
  <1>3. \A i \in Ids, t \in Stamps : <<i, t>> \in Names
    BY DEF Names
  <1>4. Separate /\ AllocHas /\ RelHas /\ ExpHas
    BY <1>2 DEF Separate, AllocHas, RelHas, ExpHas, ExpirePhase
  <1>5. Housed
    BY <1>2, <1>3 DEF Housed, NamesPast
  <1> QED  BY <1>1, <1>4, <1>5 DEF CrashSafe

\* Every step of the system keeps the invariant.
LEMMA CrashNext == ASSUME CrashSafe, [Next]_vars PROVE CrashSafe'
  <1>1. TypeOK'
    BY TypeStep DEF CrashSafe
  <1>2. CASE UNCHANGED vars
    BY <1>1, <1>2, CrashFrame DEF CrashSafe, vars, storeVars, expVars
  <1> QED  BY <1>1, <1>2, CrashAllocateStep, CrashReleaseStep, CrashStrayStep,
              CrashExpireStep, CrashCrashStep, CrashTick DEF Next

\* Under CrashConfig the invariant holds whatever is killed between two file
\* operations, and however long the surviving commands take.
THEOREM CrashInvariant == CrashConfig /\ Spec => []CrashSafe
  <1>1. CrashConfig /\ Init => CrashSafe
    BY CrashInit
  <1>2. CrashSafe /\ [Next]_vars => CrashSafe'
    BY CrashNext
  <1> QED  BY <1>1, <1>2, PTL DEF Spec

\* Killed commands and expirer runs leave entries without purpose and directories
\* without entry, but under CrashConfig no workspace of the database ever loses its
\* directory to what they left, nor to a missing database.
THEOREM CrashLeavesLive == CrashConfig /\ Spec => []LiveHasDir
  <1>1. CrashSafe => LiveHasDir
    BY DEF CrashSafe, Housed, LiveHasDir
  <1> QED  BY <1>1, CrashInvariant, PTL

\* Nor does, under CrashConfig, a rename ever replace the entry of another deleted
\* workspace, although killed commands leave names behind that no other tool
\* expects and ws_release looks up only the first name it tries.
THEOREM CrashNamesFree == CrashConfig /\ Spec => NoOverwrite
  <1>1. CrashSafe => TypeOK /\ FreeTargets
    BY DEF CrashSafe, RelHas, ExpHas, FreeTargets
  <1>2. CrashSafe /\ [Next]_vars =>
            [\A n \in Names : gone[n] # NoEntry /\ gone'[n] # NoEntry
                                => gone'[n] = gone[n]]_vars
    BY <1>1, NoOverwriteStep
  <1> QED  BY <1>2, CrashInvariant, PTL DEF Spec, NoOverwrite
=============================================================================
