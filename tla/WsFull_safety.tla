---------------------------- MODULE WsFull_safety ----------------------------
(***************************************************************************)
(* The file operations of ws_restore preserve FullSafe, too; the theorems  *)
(* about the system with ws_restore follow.                                *)
(***************************************************************************)
EXTENDS WsFull_proofs

\* Where restored data is stays a token, or elsewhere.
LEMMA InsideTypes ==
    ASSUME inside \in [0 .. MaxGen -> 0 .. Away], NEW g, NEW h \in 0 .. Away, PutInside(g, h)
    PROVE  inside' \in [0 .. MaxGen -> 0 .. Away]
  BY DEF PutInside

\* What the program of one ws_restore keeps.
LEMMA RstTypes ==
    ASSUME rst \in [Restorers -> RstState], NEW r \in Restorers, NEW v \in RstState,
           rst' = [rst EXCEPT ![r] = v]
    PROVE  rst' \in [Restorers -> RstState]
  OBVIOUS

\* A ws_restore that ends.
LEMMA IdleType == RstIdle \in RstState
  BY DEF RstIdle, RstState, Restores

\* Every step of ws_restore keeps the types.
LEMMA RestoreTypes ==
    ASSUME TypeOK, RestoreTypeOK, \A r \in Restorers : Knows(r), RestoreStep
    PROVE  TypeOK' /\ RestoreTypeOK'
  <1> USE DEF RestoreTypeOK
  <1>1. PICK r \in Restorers :
        \/ \E n \in Names, tool \in Restores : RestoreFind(r, n, tool)
        \/ \E i \in Ids \cup Elsewhere : RestoreTarget(r, i)
        \/ RestoreNoTarget(r)
        \/ \E ok \in BOOLEAN : MoveInto(r, ok) \/ MoveAway(r, ok)
        \/ \E empty, group \in BOOLEAN : Replace(r, empty, group)
        \/ CarryGroup(r)
        \/ \E finished \in BOOLEAN : Wipe(r, finished)
        \/ RestoreForget(r)
        \/ RestoreEnd(r)
        \/ RestoreCrash(r)
    BY DEF RestoreStep
  <1>2. UNCHANGED <<alloc, rel, expVars>>
    BY DEF RestoreStep
  <1>3. StoreTypeOK /\ (StoreTypeOK' => TypeOK')
    BY <1>2 DEF TypeOK, AllocTypeOK, RelTypeOK, ExpTypeOK, expVars
  <1>4. rst[r] \in RstState
    OBVIOUS
  <1>5. MaxGen \in Nat /\ Away \in 0 .. Away /\ 0 \in 0 .. Away
    BY StoreAssumption DEF Away
  <1>6. UNCHANGED storeVars => StoreTypeOK'
    BY <1>3 DEF StoreTypeOK, storeVars
  <1>7. ASSUME NEW n \in Names, NEW tool \in Restores, RestoreFind(r, n, tool)
        PROVE  rst' \in [Restorers -> RstState] /\ UNCHANGED <<storeVars, inside>>
    <2>1. [RstIdle EXCEPT !.pc = "read", !.tool = tool, !.name = n] \in RstState
      BY DEF RstIdle, RstState
    <2> QED  BY <1>7, <2>1, RstTypes DEF RestoreFind
  <1>8. ASSUME NEW i \in Ids \cup Elsewhere, RestoreTarget(r, i)
        PROVE  rst' \in [Restorers -> RstState] /\ UNCHANGED <<storeVars, inside>>
    <2> DEFINE path == IF i \in Ids THEN live[i].dir ELSE NoEntry
               tent == IF i \in Ids /\ rst[r].tool = "replace" THEN live[i] ELSE NoEntry
    <2>1. path \in Ids \cup {NoEntry} /\ tent \in Entry \cup {NoEntry}
      BY <1>3, <1>8 DEF RestoreTarget, StoreTypeOK, Entry
    <2>2. rst' = [rst EXCEPT ![r] = [rst[r] EXCEPT !.pc = "move", !.to = i, !.path = path, !.tent = tent]]
      BY <1>8 DEF RestoreTarget
    <2> HIDE DEF path, tent
    <2>3. [rst[r] EXCEPT !.pc = "move", !.to = i, !.path = path, !.tent = tent] \in RstState
      BY <1>4, <2>1 DEF RstState
    <2> QED  BY <1>8, <2>2, <2>3, RstTypes DEF RestoreTarget
  <1>9. CASE RestoreNoTarget(r) \/ RestoreEnd(r) \/ RestoreCrash(r)
    <2>1. rst' \in [Restorers -> RstState] /\ UNCHANGED <<storeVars, inside>>
      BY <1>9, RstTypes, IdleType DEF RestoreNoTarget, RestoreEnd, RestoreCrash
    <2> QED  BY <1>3, <1>6, <2>1
  <1>10. [rst EXCEPT ![r] = RstIdle] \in [Restorers -> RstState]
    BY IdleType
  <1>11. \A pc \in {"forget", "carry"} :
            /\ [rst[r] EXCEPT !.pc = pc] \in RstState
            /\ [rst EXCEPT ![r].pc = pc] \in [Restorers -> RstState]
    BY <1>4 DEF RstState
  <1>12. \A n \in Names : [trash EXCEPT ![n] = NoDir] \in [Names -> Dir \cup {NoDir}]
    BY <1>3 DEF StoreTypeOK
  <1>13. ASSUME NEW g \in 0 .. MaxGen, GiveBack(g)
         PROVE  fate' \in [0 .. MaxGen -> Fate]
    <2>1. fate \in [0 .. MaxGen -> Fate] /\ now \in Nat
      BY <1>3, StoreAssumption DEF StoreTypeOK
    <2>2. \A f \in Fate : [f EXCEPT !.st = "live"] \in Fate /\ [f EXCEPT !.at = now] \in Fate
      BY <2>1 DEF Fate
    <2> DEFINE back == [fate EXCEPT ![g] = [fate[g] EXCEPT !.st = "live"]]
    <2>3. back \in [0 .. MaxGen -> Fate] /\ back[g] \in Fate
      BY <2>1, <2>2
    <2>4. [back EXCEPT ![g] = [back[g] EXCEPT !.at = now]] \in [0 .. MaxGen -> Fate]
      BY <2>2, <2>3
    <2>5. fate' = fate \/ fate' = [back EXCEPT ![g] = [back[g] EXCEPT !.at = now]]
      BY <1>13 DEF GiveBack
    <2> QED  BY <2>1, <2>4, <2>5
  <1>14. \A n \in Names : trash[n] # NoDir => trash[n] \in Dir /\ trash[n].tok \in 0 .. MaxGen
    BY <1>3 DEF StoreTypeOK, Dir
  <1>15. \A i \in Ids : dirs[i] # NoDir => dirs[i] \in Dir /\ dirs[i].tok \in 0 .. MaxGen
    BY <1>3 DEF StoreTypeOK, Dir
  <1>16. /\ rst[r].pc # "idle" => rst[r].name \in Names
         /\ rst[r].pc = "move" /\ rst[r].to \in Ids => rst[r].path \in Ids
    BY DEF Knows
  <1> DEFINE n == rst[r].name
             d == rst[r].path
  <1>17. ASSUME NEW h \in 0 .. Away, n \in Names, trash[n] # NoDir,
                trash' = [trash EXCEPT ![n] = NoDir], PutInside(trash[n].tok, h),
                GiveBack(trash[n].tok), rst' = [rst EXCEPT ![r].pc = "forget"],
                UNCHANGED <<now, live, gone, dirs, gen>>
         PROVE  StoreTypeOK' /\ RestoreTypeOK'
    <2>1. trash' \in [Names -> Dir \cup {NoDir}] /\ rst' \in [Restorers -> RstState]
      BY <1>11, <1>12, <1>17
    <2>2. fate' \in [0 .. MaxGen -> Fate] /\ inside' \in [0 .. MaxGen -> 0 .. Away]
      BY <1>13, <1>14, <1>17, InsideTypes
    <2> QED  BY <1>3, <1>17, <2>1, <2>2 DEF StoreTypeOK
  <1>18. ASSUME NEW ok \in BOOLEAN, MoveInto(r, ok)
         PROVE  TypeOK' /\ RestoreTypeOK'
    <2>1. UNCHANGED <<now, live, gone, dirs, gen>> /\ n \in Names /\ d \in Ids
      BY <1>16, <1>18 DEF MoveInto
    <2>2. CASE trash[n] # NoDir /\ dirs[d] # NoDir /\ ok
      <3>1. Root(dirs[d].tok) \in 0 .. Away
        BY <1>5, <1>15, <2>1, <2>2 DEF Root, Away
      <3> QED  BY <1>3, <1>17, <1>18, <2>1, <2>2, <3>1 DEF MoveInto
    <2>3. CASE ~(trash[n] # NoDir /\ dirs[d] # NoDir /\ ok)
      <3>1. UNCHANGED <<trash, inside, fate>> /\ rst' = [rst EXCEPT ![r] = RstIdle]
        BY <1>18, <2>3 DEF MoveInto
      <3> QED  BY <1>3, <1>6, <1>10, <2>1, <3>1 DEF storeVars
    <2> QED  BY <2>2, <2>3
  <1>19. ASSUME NEW ok \in BOOLEAN, MoveAway(r, ok)
         PROVE  TypeOK' /\ RestoreTypeOK'
    <2>1. UNCHANGED <<now, live, gone, dirs, gen>> /\ n \in Names
      BY <1>16, <1>19 DEF MoveAway
    <2>2. CASE trash[n] # NoDir /\ ok /\ rst[r].tool = "restore"
      BY <1>3, <1>5, <1>17, <1>19, <2>1, <2>2 DEF MoveAway
    <2>3. CASE ~(trash[n] # NoDir /\ ok /\ rst[r].tool = "restore")
      <3>1. UNCHANGED <<trash, inside, fate>> /\ rst' = [rst EXCEPT ![r] = RstIdle]
        BY <1>19, <2>3 DEF MoveAway
      <3> QED  BY <1>3, <1>6, <1>10, <2>1, <3>1 DEF storeVars
    <2> QED  BY <2>2, <2>3
  <1>20. ASSUME NEW empty \in BOOLEAN, NEW group \in BOOLEAN, Replace(r, empty, group)
         PROVE  TypeOK' /\ RestoreTypeOK'
    <2>1. UNCHANGED <<now, live, gone, gen, inside>> /\ n \in Names /\ d \in Ids
      BY <1>16, <1>20 DEF Replace
    <2>2. CASE trash[n] # NoDir /\ (dirs[d] = NoDir \/ empty)
      <3> DEFINE old == IF dirs[d] = NoDir THEN 0 ELSE dirs[d].tok
                 new == IF trash[n] = NoDir \/ trash[n].tok = 0 THEN old ELSE trash[n].tok
                 pc == IF group THEN "carry" ELSE "forget"
      <3>1. /\ trash' = [trash EXCEPT ![n] = NoDir]
            /\ dirs' = [dirs EXCEPT ![d] = [trash[n] EXCEPT !.tok = new]]
            /\ fate' = IF new = old THEN fate
                       ELSE [fate EXCEPT ![old].st = IF old = 0 THEN @ ELSE "purged",
                                         ![new] = [st |-> "live", at |-> now,
                                                   used |-> fate[old].used]]
            /\ rst' = [rst EXCEPT ![r].pc = pc]
        BY <1>20, <2>2 DEF Replace
      <3>2. old \in 0 .. MaxGen /\ new \in 0 .. MaxGen /\ pc \in {"carry", "forget"}
        BY <1>5, <1>14, <1>15, <2>1, <2>2
      <3> HIDE DEF old, new, pc
      <3>3. dirs' \in [Ids -> Dir \cup {NoDir}]
        <4>1. [trash[n] EXCEPT !.tok = new] \in Dir
          BY <1>14, <2>1, <2>2, <3>2 DEF Dir
        <4> QED  BY <1>3, <3>1, <4>1 DEF StoreTypeOK
      <3>4. fate' \in [0 .. MaxGen -> Fate]
        <4>1. fate \in [0 .. MaxGen -> Fate] /\ now \in Nat
          BY <1>3, StoreAssumption DEF StoreTypeOK
        <4>2. \A f \in Fate : [f EXCEPT !.st = "purged"] \in Fate /\ f.used \in Nat
          BY DEF Fate
        <4>3. \A u \in Nat : [st |-> "live", at |-> now, used |-> u] \in Fate
          BY <4>1 DEF Fate
        <4> DEFINE lost == [fate EXCEPT ![old].st = IF old = 0 THEN @ ELSE "purged"]
        <4>4. lost \in [0 .. MaxGen -> Fate]
          <5>1. [fate[old] EXCEPT !.st = IF old = 0 THEN @ ELSE "purged"] \in Fate
            BY <3>2, <4>1 DEF Fate
          <5> QED  BY <3>2, <4>1, <5>1
        <4>5. fate' = fate \/ fate' = [lost EXCEPT ![new] = [st |-> "live", at |-> now,
                                                           used |-> fate[old].used]]
          BY <3>1
        <4>6. fate[old].used \in Nat
          BY <3>2, <4>1, <4>2
        <4> HIDE DEF lost
        <4> QED  BY <3>2, <4>1, <4>3, <4>4, <4>5, <4>6
      <3>5. trash' \in [Names -> Dir \cup {NoDir}] /\ rst' \in [Restorers -> RstState]
        BY <1>11, <1>12, <2>1, <3>1, <3>2
      <3> QED  BY <1>3, <2>1, <3>3, <3>4, <3>5 DEF StoreTypeOK
    <2>3. CASE ~(trash[n] # NoDir /\ (dirs[d] = NoDir \/ empty))
      <3>1. UNCHANGED <<trash, dirs, fate>> /\ rst' = [rst EXCEPT ![r] = RstIdle]
        BY <1>20, <2>3 DEF Replace
      <3> QED  BY <1>3, <1>6, <1>10, <2>1, <3>1 DEF storeVars
    <2> QED  BY <2>2, <2>3
  <1>21. CASE CarryGroup(r)
    <2>1. rst[r].tent \in Entry \cup {NoEntry} /\ rst' \in [Restorers -> RstState]
      BY <1>4, <1>11, <1>21 DEF CarryGroup, RstState
    <2>2. live' \in [Ids -> Entry \cup {NoEntry}]
      BY <1>3, <1>21, <2>1 DEF CarryGroup, WriteEntry, StoreTypeOK
    <2> QED  BY <1>3, <1>21, <2>1, <2>2 DEF CarryGroup, StoreTypeOK
  <1>22. ASSUME NEW finished \in BOOLEAN, Wipe(r, finished)
         PROVE  TypeOK' /\ RestoreTypeOK'
    <2>1. UNCHANGED <<now, live, gone, dirs, gen, inside>> /\ n \in Names
      BY <1>16, <1>22 DEF Wipe
    <2>2. [tok |-> 0, mtime |-> now] \in Dir
      BY <1>3, StoreAssumption DEF Dir, StoreTypeOK
    <2>3. trash' \in [Names -> Dir \cup {NoDir}]
      BY <1>3, <1>22, <2>2 DEF Wipe, StoreTypeOK
    <2>4. fate' \in [0 .. MaxGen -> Fate]
      <3>1. \A f \in Fate : [f EXCEPT !.st = "purged"] \in Fate
        BY DEF Fate
      <3>2. fate' = fate \/ (trash[n] # NoDir /\ fate' = [fate EXCEPT ![trash[n].tok].st = "purged"])
        BY <1>22 DEF Wipe
      <3>3. fate \in [0 .. MaxGen -> Fate]
        BY <1>3 DEF StoreTypeOK
      <3>4. trash[n] # NoDir => trash[n].tok \in 0 .. MaxGen
        BY <1>14, <2>1
      <3> QED  BY <3>1, <3>2, <3>3, <3>4
    <2>5. rst' \in [Restorers -> RstState]
      BY <1>10, <1>11, <1>22, RstTypes DEF Wipe
    <2> QED  BY <1>3, <2>1, <2>3, <2>4, <2>5 DEF StoreTypeOK
  <1>23. CASE RestoreForget(r)
    <2>1. UNCHANGED <<now, live, dirs, trash, gen, fate, inside>>
      BY <1>23 DEF RestoreForget
    <2>2. gone' \in [Names -> Entry \cup {NoEntry}]
      BY <1>3, <1>23 DEF RestoreForget, StoreTypeOK
    <2>3. [RstIdle EXCEPT !.pc = "told", !.tool = rst[r].tool, !.name = rst[r].name] \in RstState
      BY <1>4 DEF RstState, RstIdle
    <2>4. rst' \in [Restorers -> RstState]
      BY <1>23, <2>3, RstTypes DEF RestoreForget
    <2> QED  BY <1>3, <2>1, <2>2, <2>4 DEF StoreTypeOK
  <1>24. ASSUME rst' \in [Restorers -> RstState], UNCHANGED <<storeVars, inside>>
         PROVE  TypeOK' /\ RestoreTypeOK'
    BY <1>3, <1>6, <1>24
  <1> QED  BY <1>1, <1>7, <1>8, <1>9, <1>18, <1>19, <1>20, <1>21, <1>22, <1>23, <1>24

-----------------------------------------------------------------------------
(* What each file operation of ws_restore keeps.                           *)

\* Only the program of r goes on.
Frame(r) ==
    /\ \A s \in Restorers \ {r} : rst'[s] = rst[s]
    /\ UNCHANGED <<alloc, rel, expVars>>

\* A step of ws_restore is one of one program.
LEMMA RestoreFrame ==
    ASSUME RestoreTypeOK, RestoreStep
    PROVE  \E r \in Restorers :
            /\ Frame(r)
            /\ \/ \E n \in Names, tool \in Restores : RestoreFind(r, n, tool)
               \/ \E i \in Ids \cup Elsewhere : RestoreTarget(r, i)
               \/ RestoreNoTarget(r) \/ RestoreEnd(r) \/ RestoreCrash(r)
               \/ \E ok \in BOOLEAN : MoveInto(r, ok) \/ MoveAway(r, ok)
               \/ \E empty, group \in BOOLEAN : Replace(r, empty, group)
               \/ CarryGroup(r)
               \/ \E finished \in BOOLEAN : Wipe(r, finished)
               \/ RestoreForget(r)
  <1>1. PICK r \in Restorers :
        \/ \E n \in Names, tool \in Restores : RestoreFind(r, n, tool)
        \/ \E i \in Ids \cup Elsewhere : RestoreTarget(r, i)
        \/ RestoreNoTarget(r) \/ RestoreEnd(r) \/ RestoreCrash(r)
        \/ \E ok \in BOOLEAN : MoveInto(r, ok) \/ MoveAway(r, ok)
        \/ \E empty, group \in BOOLEAN : Replace(r, empty, group)
        \/ CarryGroup(r)
        \/ \E finished \in BOOLEAN : Wipe(r, finished)
        \/ RestoreForget(r)
    BY DEF RestoreStep
  <1>2. \A s \in Restorers \ {r} : rst'[s] = rst[s]
    BY <1>1 DEF RestoreTypeOK, RestoreFind, RestoreTarget, RestoreNoTarget, RestoreEnd,
                RestoreCrash, MoveInto, MoveAway, Replace, CarryGroup, Wipe, RestoreForget
  <1> QED  BY <1>1, <1>2 DEF Frame, RestoreStep

\* A step that leaves the files alone keeps the invariant if the program knows what
\* it says it does.
LEMMA LightSafe ==
    ASSUME FullSafe, NEW r \in Restorers, Frame(r), UNCHANGED <<storeVars, inside>>,
           RestoreTypeOK', Admitted', Knows(r)', Forgetting(r)', Replacing(r)',
           rst'[r].pc = "forget" => rst'[r].tool # "restore" \/ rst'[r] = rst[r]
    PROVE  FullSafe'
  <1> USE DEF FullSafe, Frame
  <1>1. Safe'
    <2>1. UNCHANGED vars
      BY DEF vars
    <2> QED  BY <2>1, SafeStep
  <1>2. FullConfig' /\ TrashTokens' /\ Nested'
    BY DEF FullConfig, SafeConfig, TrashTokens, Nested, storeVars
  <1>3. RstOK'
    <2> SUFFICES ASSUME NEW s \in Restorers \ {r}
                 PROVE  Knows(s)' /\ Forgetting(s)' /\ Replacing(s)'
      BY DEF RstOK
    <2> QED  BY DEF RstOK, Knows, Forgetting, Replacing, storeVars, expVars
  <1>4. Apart'
    BY DEF Apart
  <1> QED  BY <1>1, <1>2, <1>3, <1>4

\* Reading, giving up, ending and dying.
LEMMA ReadSafe ==
    ASSUME FullSafe, NEW r \in Restorers, Frame(r), RestoreTypeOK', Admitted',
           \/ \E n \in Names, tool \in Restores : RestoreFind(r, n, tool)
           \/ \E i \in Ids \cup Elsewhere : RestoreTarget(r, i)
           \/ rst' = [rst EXCEPT ![r] = RstIdle] /\ UNCHANGED <<storeVars, inside>>
    PROVE  FullSafe'
  <1> USE DEF FullSafe
  <1>1. rst[r] \in RstState
    BY DEF RestoreTypeOK
  <1>2. ASSUME NEW n \in Names, NEW tool \in Restores, RestoreFind(r, n, tool)
        PROVE  FullSafe'
    <2>1. rst'[r].pc = "read" /\ rst'[r].name = n
      BY <1>2 DEF RestoreFind, RestoreTypeOK, RstIdle
    <2>2. Knows(r)' /\ Forgetting(r)' /\ Replacing(r)'
      BY <2>1 DEF Knows, Forgetting, Replacing
    <2>3. UNCHANGED <<storeVars, inside>>
      BY <1>2 DEF RestoreFind
    <2> QED  BY <2>1, <2>2, <2>3, LightSafe
  <1>3. ASSUME NEW i \in Ids \cup Elsewhere, RestoreTarget(r, i)
        PROVE  FullSafe'
    <2>1. UNCHANGED <<storeVars, inside>>
      BY <1>3 DEF RestoreTarget
    <2>2. /\ rst'[r].pc = "move" /\ rst'[r].name = rst[r].name /\ rst'[r].to = i
          /\ rst'[r].tool = rst[r].tool
          /\ rst[r].pc # "idle"
          /\ i \in Ids => /\ rst'[r].path = live[i].dir
                          /\ rst[r].tool = "replace" => rst'[r].tent = live[i]
      BY <1>1, <1>3 DEF RestoreTarget, RestoreTypeOK, RstState
    <2>3. i \in Ids => live[i] # NoEntry /\ live[i].dir = i
      BY <1>3 DEF RestoreTarget, Safe, LiveOK
    <2>4. rst[r].name \in Names
      BY <2>2 DEF RstOK, Knows
    <2>5. Knows(r)'
      BY <2>2, <2>3, <2>4 DEF Knows
    <2>6. Forgetting(r)' /\ Replacing(r)'
      BY <2>1, <2>2, <2>3 DEF Forgetting, Replacing, storeVars
    <2> QED  BY <2>1, <2>2, <2>5, <2>6, LightSafe
  <1>4. CASE rst' = [rst EXCEPT ![r] = RstIdle] /\ UNCHANGED <<storeVars, inside>>
    <2>1. rst'[r].pc = "idle"
      BY <1>4 DEF RestoreTypeOK, RstIdle
    <2>2. Knows(r)' /\ Forgetting(r)' /\ Replacing(r)'
      BY <2>1 DEF Knows, Forgetting, Replacing
    <2> QED  BY <1>4, <2>1, <2>2, LightSafe
  <1> QED  BY <1>2, <1>3, <1>4

\* What restoring the data in a deleted directory does to where data is.
LEMMA NestedTake ==
    ASSUME FullSafe, NEW n \in Names, trash[n] # NoDir, NEW h \in 0 .. Away,
           h = Away \/ \E i \in Ids : dirs[i] # NoDir /\ h = dirs[i].tok,
           trash' = [trash EXCEPT ![n] = NoDir], PutInside(trash[n].tok, h),
           GiveBack(trash[n].tok), UNCHANGED <<dirs, gen>>
    PROVE  Nested'
  <1> DEFINE t == trash[n].tok
  <1> USE DEF FullSafe
  <1>1. /\ MaxGen \in Nat /\ gen \in 0 .. MaxGen /\ t \in 0 .. gen /\ t \in 0 .. MaxGen
        /\ \A g \in 1 .. gen : g \in 0 .. MaxGen
    BY TokenTypes
  <1>2. inside[t] = 0 /\ inside[0] = 0
    BY <1>1 DEF Nested
  <1>3. \A x \in 0 .. MaxGen :
            inside'[x] = IF t > 0 /\ x > 0 /\ (x = t \/ inside[x] = t) THEN h ELSE inside[x]
    BY DEF PutInside
  <1>4. \A g \in 0 .. MaxGen : (g # t => fate'[g] = fate[g]) /\ (t > 0 => fate'[t].st = "live")
    <2>1. fate \in [0 .. MaxGen -> Fate]
      BY DEF Safe, TypeOK, StoreTypeOK
    <2>2. CASE t = 0
      BY <2>2, <1>1 DEF GiveBack
    <2>3. CASE t # 0
      BY <1>1, <2>1, <2>3 DEF GiveBack, Fate
    <2> QED  BY <2>2, <2>3
  <1>5. h # Away => h \in 1 .. gen /\ h # t /\ inside[h] = 0
    BY <1>1, TokenTypes DEF Nested, Safe, Tokens
  <1>6. \A i \in Ids : dirs[i] # NoDir => dirs[i].tok \in 1 .. gen /\ dirs[i].tok # t
    BY DEF Safe, Tokens
  <1>7. \A m \in Names : trash'[m] # NoDir =>
            m # n /\ trash'[m] = trash[m] /\ trash[m].tok \in 0 .. gen
    BY DEF Safe, TypeOK, StoreTypeOK, Tokens
  <1> HIDE DEF t
  <1>8. \A g \in 0 .. MaxGen : inside[g] = 0 /\ g # t => inside'[g] = 0
    BY <1>1, <1>3
  <1>9. \A i \in Ids : dirs'[i] # NoDir => inside'[dirs'[i].tok] = 0
    BY <1>1, <1>6, <1>8 DEF Nested
  <1>10. ASSUME NEW m \in Names, trash'[m] # NoDir
         PROVE  inside'[trash'[m].tok] = 0
    <2>1. m # n /\ trash'[m] = trash[m] /\ trash[m].tok \in 0 .. MaxGen /\ inside[trash[m].tok] = 0
      BY <1>1, <1>7, <1>10 DEF Nested
    <2>2. trash[m].tok = t => t = 0
      BY <1>10, <2>1 DEF TrashTokens, t
    <2>3. t = 0 => inside'[0] = 0
      BY <1>1, <1>2, <1>3
    <2> QED  BY <1>8, <2>1, <2>2, <2>3
  <1>11. ASSUME NEW g \in 0 .. MaxGen, inside'[g] # 0
         PROVE  /\ g \in 1 .. gen
                /\ fate'[g].st = "live"
                /\ inside'[g] # Away => inside'[g] \in 1 .. gen /\ inside'[inside'[g]] = 0
    <2>1. CASE t > 0 /\ g > 0 /\ (g = t \/ inside[g] = t)
      <3>1. inside'[g] = h
        BY <1>3, <2>1
      <3>2. g \in 1 .. gen /\ fate'[g].st = "live"
        BY <1>1, <1>2, <1>4, <2>1 DEF Nested
      <3>3. h # Away => inside'[h] = 0
        BY <1>1, <1>5, <1>8
      <3> QED  BY <1>5, <3>1, <3>2, <3>3
    <2>2. CASE ~(t > 0 /\ g > 0 /\ (g = t \/ inside[g] = t))
      <3>1. inside'[g] = inside[g] /\ inside[g] # 0
        BY <1>3, <1>11, <2>2
      <3>2. g \in 1 .. gen /\ fate[g].st = "live"
            /\ (inside[g] # Away => inside[g] \in 1 .. gen /\ inside[inside[g]] = 0)
        BY <3>1 DEF Nested
      <3>3. g # t
        BY <1>2, <3>1
      <3>4. inside[g] # Away => inside[g] # t
        BY <1>1, <2>2, <3>2
      <3> QED  BY <1>1, <1>4, <1>8, <3>1, <3>2, <3>3, <3>4
    <2> QED  BY <2>1, <2>2
  <1>12. \A g \in 1 .. MaxGen : g > gen => fate'[g].st = "none"
    BY <1>1, <1>4 DEF Nested
  <1> QED  BY <1>9, <1>10, <1>11, <1>12 DEF Nested

\* Data is moved into the directory of a live workspace, or to another filesystem:
\* nobody is using the name of its entry, so the entry may be removed next.
LEMMA TakenSafe ==
    ASSUME FullSafe, NEW r \in Restorers, Frame(r), TypeOK', RestoreTypeOK', Admitted',
           rst[r].pc = "move", rst[r].tool = "restore", trash[rst[r].name] # NoDir,
           NEW h \in 0 .. Away,
           h = Away \/ \E i \in Ids : dirs[i] # NoDir /\ h = dirs[i].tok,
           trash' = [trash EXCEPT ![rst[r].name] = NoDir],
           PutInside(trash[rst[r].name].tok, h), GiveBack(trash[rst[r].name].tok),
           rst' = [rst EXCEPT ![r].pc = "forget"],
           UNCHANGED <<now, live, gone, dirs, gen>>
    PROVE  FullSafe'
  <1> DEFINE n == rst[r].name
             t == trash[n].tok
  <1> USE DEF FullSafe, Frame
  <1>1. n \in Names
    BY DEF RstOK, Knows
  <1>2. trash'[n] = NoDir /\ \A m \in Names \ {n} : trash'[m] = trash[m]
    BY <1>1 DEF Safe, TypeOK, StoreTypeOK
  <1>3. Nested'
    BY <1>1, NestedTake
  <1>4. t \in 0 .. MaxGen /\ fate \in [0 .. MaxGen -> Fate]
    BY <1>1, TokenTypes DEF Safe, TypeOK, StoreTypeOK
  <1>5. Safe'
    <2>1. t = 0 => fate' = fate
      BY DEF GiveBack
    <2>2. t # 0 => /\ FateOf(t)
                   /\ fate'[t].used = fate[t].used
                   /\ fate'[t].st \in {"live", "purged"}
      BY ZenonT(40), <1>4 DEF GiveBack, FateOf, Fate
    <2> QED  BY <1>1, <1>2, <2>1, <2>2, TakeSafe
  <1>6. FullConfig' /\ TrashTokens'
    BY <1>2 DEF FullConfig, SafeConfig, TrashTokens
  <1>7. rst'[r].pc = "forget" /\ rst'[r].tool = "restore" /\ rst'[r].name = n
        /\ rst'[r].to = rst[r].to
    BY DEF RestoreTypeOK, RstState
  <1>8. Knows(r)' /\ Replacing(r)'
    BY <1>1, <1>7 DEF Knows, Replacing
  <1>9. Forgetting(r)'
    <2>1. n[1] \in Ids /\ n[2] \in Stamps /\ n = <<n[1], n[2]>> /\ n[2] \in Nat /\ now \in Nat
      BY <1>1, StoreAssumption, TokenTypes DEF Names, Stamps
    <2>2. ASSUME NEW p \in Procs, rel[p].pc \in {"dbmove", "dirmove", "purge", "forget"}
          PROVE  <<rel[p].id, rel[p].ts>> # n
      BY <2>2 DEF Safe, RelOK, ReleaseOK
    <2>3. xpc \in {"write", "dbmove", "dirmove"} => xcur # n
      BY DEF Safe, ExpOK
    <2>4. ASSUME gone[n] = NoEntry
          PROVE  n[2] < now
      BY <2>1, <2>4 DEF Safe, NamesOK
    <2>5. ASSUME gone[n] = NoEntry, NEW p \in Procs, rel[p].pc \in {"mark", "probe"},
                 rel[p].id = n[1]
          PROVE  n[2] < rel[p].ts
      <3>1. ReleaseOK(p)
        BY DEF Safe, RelOK
      <3>4. rel[p].ts \in Nat
        <4>1. rel[p].pc # "idle" /\ Safe
          BY <2>5
        <4>2. rel[p].ts \in Stamps
          BY <4>1, RelMine
        <4> QED  BY <4>2, StoreAssumption DEF Stamps
      <3>2. ~(n[2] > rel[p].ts)
        BY ZenonT(60), <2>1, <2>5, <3>1 DEF ReleaseOK
      <3>3. n[2] # rel[p].ts
        BY <2>1, <2>5, <3>1 DEF ReleaseOK
      <3> QED  BY <2>1, <3>2, <3>3, <3>4
    <2> QED  BY <1>2, <1>7, <2>2, <2>3, <2>4, <2>5 DEF Forgetting, expVars
  <1>10. RstOK'
    <2> SUFFICES ASSUME NEW s \in Restorers \ {r}
                 PROVE  Knows(s)' /\ Forgetting(s)' /\ Replacing(s)'
      BY <1>8, <1>9 DEF RstOK
    <2>1. Knows(s) /\ Forgetting(s) /\ Replacing(s)
      BY DEF RstOK
    <2>2. Forgetting(s)'
      <3>1. rst[s].pc \in {"carry", "forget"} => rst[s].name \in Names /\ trash'[rst[s].name] = NoDir
        BY <1>2, <2>1 DEF Knows, Forgetting
      <3> QED  BY <2>1, <3>1 DEF Forgetting, expVars
    <2> QED  BY <2>1, <2>2 DEF Knows, Replacing
  <1>11. Apart'
    <2>1. \A s \in Restorers \ {r} : rst[s].pc = "forget" => rst[s].name # n
      BY DEF RstOK, Forgetting
    <2> QED  BY <1>7, <2>1 DEF Apart
  <1> QED  BY <1>3, <1>5, <1>6, <1>10, <1>11

\* --delete-data: neither a ws_release nor the second phase of ws_expirer runs.
LEMMA WipeSafe ==
    ASSUME FullSafe, NEW r \in Restorers, Frame(r), NEW finished \in BOOLEAN,
           Wipe(r, finished), TypeOK', RestoreTypeOK', Admitted'
    PROVE  FullSafe'
  <1> DEFINE n == rst[r].name
             t == trash[n].tok
  <1> USE DEF FullSafe, Frame
  <1>1. /\ rst[r].pc = "read" /\ rst[r].tool = "wipe"
        /\ trash' = [trash EXCEPT ![n] = IF trash[n] = NoDir \/ finished THEN NoDir
                                         ELSE [tok |-> 0, mtime |-> now]]
        /\ fate' = IF trash[n] = NoDir \/ trash[n].tok = 0 THEN fate
                   ELSE [fate EXCEPT ![trash[n].tok].st = "purged"]
        /\ UNCHANGED <<now, live, gone, dirs, gen, inside>>
    BY DEF Wipe
  <1>2. n \in Names
    BY <1>1 DEF RstOK, Knows
  <1>3. /\ \A m \in Names \ {n} : trash'[m] = trash[m]
        /\ trash'[n] # NoDir => trash[n] # NoDir /\ trash'[n].tok = 0
        /\ finished => trash'[n] = NoDir
    BY <1>1, <1>2 DEF Safe, TypeOK, StoreTypeOK
  <1>4. \/ rst'[r] = RstIdle
        \/ /\ rst'[r].pc = "forget" /\ rst'[r].tool = "wipe" /\ rst'[r].name = n /\ finished
    BY <1>1 DEF Wipe, RestoreTypeOK, RstState
  <1>5. Alone
    BY Excluded
  <1>6. Knows(r)' /\ Replacing(r)' /\ Forgetting(r)'
    <2>1. CASE rst'[r] = RstIdle
      BY <2>1 DEF RstIdle, Knows, Replacing, Forgetting
    <2>2. CASE rst'[r].pc = "forget" /\ rst'[r].tool = "wipe" /\ rst'[r].name = n /\ finished
      <3>1. (\A p \in Procs : rel[p].pc = "idle") /\ xpc \notin {"write", "dbmove", "dirmove"}
        BY <1>1, <1>5 DEF Alone, ExpirePhase
      <3> QED  BY <1>2, <1>3, <2>2, <3>1 DEF Knows, Replacing, Forgetting, expVars
    <2> QED  BY <1>4, <2>1, <2>2
  <1>7. CASE trash[n] = NoDir
    <2>1. UNCHANGED <<storeVars, inside>>
      <3>1. trash' = trash
        BY <1>1, <1>2, <1>7 DEF Safe, TypeOK, StoreTypeOK
      <3> QED  BY <1>1, <1>7, <3>1 DEF storeVars
    <2>2. rst'[r].pc = "forget" => rst'[r].tool # "restore"
      BY <1>4 DEF RstIdle
    <2> QED  BY <1>6, <2>1, <2>2, LightSafe
  <1>8. CASE trash[n] # NoDir
    <2>1. t \in 0 .. MaxGen /\ t \in 0 .. gen /\ fate \in [0 .. MaxGen -> Fate] /\ gen \in 0 .. MaxGen
      BY <1>2, <1>8, TokenTypes DEF Safe, TypeOK, StoreTypeOK
    <2>2. t = 0 => fate' = fate
      BY <1>1
    <2>3. t # 0 => /\ FateOf(t)
                   /\ fate'[t].used = fate[t].used
                   /\ fate'[t].st = "purged"
      BY <1>1, <1>8, <2>1 DEF FateOf, Fate
    <2>4. Safe'
      BY <1>1, <1>2, <1>3, <1>8, <2>2, <2>3, TakeSafe
    <2>5. FullConfig' /\ TrashTokens'
      BY <1>3 DEF FullConfig, SafeConfig, TrashTokens
    <2>6. Nested'
      <3>1. inside[t] = 0 /\ inside[0] = 0
        BY <1>2, <1>8, <2>1, TokenTypes DEF Nested
      <3>2. \A g \in 0 .. MaxGen : g # t => fate'[g] = fate[g]
        BY <2>2, <2>3 DEF FateOf
      <3>3. \A m \in Names : trash'[m] # NoDir => inside'[trash'[m].tok] = 0
        BY <1>1, <1>3, <3>1 DEF Nested
      <3>4. \A g \in 0 .. MaxGen : inside[g] # 0 => g # t
        BY <3>1
      <3>5. \A g \in 1 .. MaxGen : g > gen => g # t
        BY <2>1
      <3>6. Nested
        OBVIOUS
      <3> QED  BY ONLY <1>1, <3>2, <3>3, <3>4, <3>5, <3>6 DEF Nested
    <2>7. RstOK'
      <3> SUFFICES ASSUME NEW s \in Restorers \ {r}
                   PROVE  Knows(s)' /\ Forgetting(s)' /\ Replacing(s)'
        BY <1>6 DEF RstOK
      <3>1. Knows(s) /\ Forgetting(s) /\ Replacing(s)
        BY DEF RstOK
      <3>2. rst[s].pc \in {"carry", "forget"} => rst[s].name \in Names /\ trash'[rst[s].name] = NoDir
        BY <1>3, <3>1 DEF Knows, Forgetting
      <3> QED  BY <1>1, <3>1, <3>2 DEF Forgetting, Knows, Replacing, expVars
    <2>8. Apart'
      BY <1>4 DEF Apart, RstIdle
    <2> QED  BY <2>4, <2>5, <2>6, <2>7, <2>8
  <1> QED  BY <1>7, <1>8

\* restorenosub: nothing else runs.
LEMMA ReplaceStepSafe ==
    ASSUME FullSafe, NEW r \in Restorers, Frame(r), NEW empty \in BOOLEAN,
           NEW group \in BOOLEAN, Replace(r, empty, group), TypeOK', RestoreTypeOK', Admitted'
    PROVE  FullSafe'
  <1> DEFINE n == rst[r].name
             d == rst[r].path
             t == trash[n].tok
             old == dirs[d].tok
  <1> USE DEF FullSafe, Frame
  <1>1. /\ rst[r].pc = "move" /\ rst[r].tool = "replace" /\ rst[r].to \in Ids
        /\ UNCHANGED <<now, live, gone, gen, inside>>
    BY DEF Replace
  <1>2. n \in Names /\ d \in Ids /\ d = rst[r].to /\ live[d] # NoEntry
    BY <1>1 DEF RstOK, Knows, Replacing
  <1>3. dirs[d] # NoDir
    BY <1>2 DEF Safe, LiveOK
  <1>4. CASE ~(trash[n] # NoDir /\ empty)
    <2>1. rst' = [rst EXCEPT ![r] = RstIdle] /\ UNCHANGED <<storeVars, inside>>
      BY <1>3, <1>4 DEF Replace, storeVars
    <2> QED  BY <2>1, ReadSafe
  <1>5. CASE trash[n] # NoDir /\ empty
    <2>1. /\ xpc = "idle"
          /\ \A p \in Procs : alloc[p].pc = "idle" /\ rel[p].pc = "idle"
          /\ \A s \in Restorers \ {r} : rst[s].pc = "idle"
      BY <1>1, Excluded DEF Alone
    <2>2. /\ old \in 1 .. gen /\ old \in 0 .. MaxGen /\ old # 0
          /\ t \in 0 .. gen /\ t \in 0 .. MaxGen /\ t # old /\ gen \in 0 .. MaxGen
      BY <1>2, <1>3, <1>5, TokenTypes DEF Safe, Tokens
    <2>3. ReplacesData(d, n)
      BY <1>3, <1>5, <2>2 DEF Replace, ReplacesData
    <2>4. Safe'
      BY <1>1, <1>2, <1>5, <2>1, <2>3, ReplaceSafe
    <2>5. /\ trash'[n] = NoDir /\ \A m \in Names \ {n} : trash'[m] = trash[m]
          /\ \A i \in Ids \ {d} : dirs'[i] = dirs[i]
          /\ dirs'[d] = [trash[n] EXCEPT !.tok = IF t = 0 THEN old ELSE t]
      BY <1>2, <1>5, <2>3 DEF ReplacesData, Safe, TypeOK, StoreTypeOK
    <2>6. dirs'[d].tok \in {t, old} /\ (dirs'[d].tok = t => t # 0)
      <3>1. trash[n] \in Dir
        BY <1>2, <1>5 DEF Safe, TypeOK, StoreTypeOK
      <3> QED  BY <2>2, <2>5, <3>1 DEF Dir
    <2>7. \A g \in 0 .. MaxGen : g # t /\ g # old => fate'[g] = fate[g]
      <3>1. fate \in [0 .. MaxGen -> Fate]
        BY DEF Safe, TypeOK, StoreTypeOK
      <3> QED  BY <2>2, <2>3, <3>1 DEF ReplacesData
    <2>8. FullConfig' /\ TrashTokens'
      BY <2>5 DEF FullConfig, SafeConfig, TrashTokens
    <2>9. inside[t] = 0 /\ inside[old] = 0
      BY <1>2, <1>3, <1>5 DEF Nested
    <2>10. Nested'
      <3>1. \A i \in Ids : dirs'[i] # NoDir => inside'[dirs'[i].tok] = 0
        <4>1. inside'[dirs'[d].tok] = 0
          <5>1. inside' = inside
            BY <1>1
          <5>2. dirs'[d].tok = t \/ dirs'[d].tok = old
            BY <2>6
          <5> QED  BY <2>9, <5>1, <5>2
        <4>2. \A i \in Ids \ {d} : dirs[i] # NoDir => inside'[dirs[i].tok] = 0
          BY <1>1 DEF Nested
        <4> QED  BY <2>5, <4>1, <4>2
      <3>2. \A m \in Names : trash'[m] # NoDir => inside'[trash'[m].tok] = 0
        BY <1>1, <2>5 DEF Nested
      <3>3. \A g \in 0 .. MaxGen : inside[g] # 0 => g # t /\ g # old
        BY <2>9
      <3>4. \A g \in 1 .. MaxGen : g > gen => g # t /\ g # old
        BY <2>2
      <3> HIDE DEF t, old
      <3> QED  BY <1>1, <2>7, <3>1, <3>2, <3>3, <3>4 DEF Nested
    <2>11. /\ rst'[r].pc \in {"carry", "forget"} /\ rst'[r].tool = "replace"
           /\ rst'[r].name = n /\ rst'[r].to = rst[r].to
           /\ rst'[r].tent = rst[r].tent /\ rst'[r].path = d
      BY <1>5 DEF Replace, RestoreTypeOK, RstState
    <2>12. Knows(r)' /\ Forgetting(r)' /\ Replacing(r)'
      <3>1. Replacing(r)
        BY DEF RstOK
      <3>2. Replacing(r)'
        BY <1>1, <2>11, <3>1 DEF Replacing
      <3> QED  BY <1>1, <1>2, <2>1, <2>5, <2>11, <3>2 DEF Knows, Forgetting, expVars
    <2>13. RstOK'
      BY <2>1, <2>12 DEF RstOK, Knows, Forgetting, Replacing
    <2>14. Apart'
      BY <2>11 DEF Apart
    <2> QED  BY <2>4, <2>8, <2>10, <2>13, <2>14
  <1> QED  BY <1>4, <1>5

\* The group of a replaced directory: the entry that was read is still the one in
\* the database.
LEMMA CarrySafe ==
    ASSUME FullSafe, NEW r \in Restorers, Frame(r), CarryGroup(r), RestoreTypeOK', Admitted'
    PROVE  FullSafe'
  <1> USE DEF FullSafe
  <1>1. rst[r].pc = "carry" /\ rst[r].tool = "replace" /\ rst[r].to \in Ids
    BY DEF CarryGroup, RstOK, Knows
  <1>2. live[rst[r].to] = rst[r].tent /\ live \in [Ids -> Entry \cup {NoEntry}]
    BY <1>1 DEF RstOK, Replacing, Safe, TypeOK, StoreTypeOK
  <1>3. UNCHANGED <<storeVars, inside>>
    <2>1. live' = live
      BY <1>1, <1>2 DEF CarryGroup, WriteEntry
    <2> QED  BY <2>1 DEF CarryGroup, storeVars
  <1>4. /\ rst'[r].pc = "forget" /\ rst'[r].tool = "replace" /\ rst'[r].name = rst[r].name
    BY <1>1 DEF CarryGroup, RestoreTypeOK, RstState
  <1>5. Knows(r)' /\ Replacing(r)'
    BY <1>1, <1>4 DEF Knows, Replacing, RstOK
  <1>6. Forgetting(r)'
    BY <1>1, <1>3, <1>4 DEF RstOK, Forgetting, Frame, storeVars, expVars
  <1> QED  BY <1>3, <1>4, <1>5, <1>6, LightSafe

\* Removing the entry of what was moved, replaced or deleted.
LEMMA RestoreForgetSafe ==
    ASSUME FullSafe, NEW r \in Restorers, Frame(r), RestoreForget(r), TypeOK',
           RestoreTypeOK', Admitted'
    PROVE  FullSafe'
  <1> DEFINE n == rst[r].name
  <1> USE DEF FullSafe, Frame
  <1>1. rst[r].pc = "forget" /\ UNCHANGED <<now, live, dirs, trash, gen, fate, inside>>
    BY DEF RestoreForget
  <1>2. n \in Names /\ Forgetting(r)
    BY <1>1 DEF RstOK, Knows
  <1>3. rst'[r].pc = "told" /\ rst'[r].name = n
    BY DEF RestoreForget, RestoreTypeOK, RstIdle
  <1>4. Knows(r)' /\ Forgetting(r)' /\ Replacing(r)'
    BY <1>2, <1>3 DEF Knows, Forgetting, Replacing
  <1>5. CASE gone' = gone
    BY <1>1, <1>3, <1>4, <1>5, LightSafe DEF storeVars
  <1>6. CASE gone' = [gone EXCEPT ![n] = NoEntry]
    <2>1. /\ trash[n] = NoDir
          /\ \A p \in Procs : rel[p].pc \in {"dirmove", "purge", "forget"} =>
                <<rel[p].id, rel[p].ts>> # n
          /\ xpc = "dirmove" => xcur # n
      BY <1>1, <1>2 DEF Forgetting
    <2>2. Safe'
      BY <1>1, <1>2, <1>6, <2>1, ForgetSafe
    <2>3. FullConfig' /\ TrashTokens' /\ Nested'
      BY <1>1 DEF FullConfig, SafeConfig, TrashTokens, Nested
    <2>4. RstOK'
      <3> SUFFICES ASSUME NEW s \in Restorers \ {r}
                   PROVE  Knows(s)' /\ Forgetting(s)' /\ Replacing(s)'
        BY <1>4 DEF RstOK
      <3>1. Knows(s) /\ Forgetting(s) /\ Replacing(s)
        BY DEF RstOK
      <3>2. Knows(s)' /\ Replacing(s)'
        BY <1>1, <3>1 DEF Knows, Replacing
      <3>3. Forgetting(s)'
        <4>1. CASE rst[s].pc \in {"carry", "forget"} /\ rst[s].tool = "restore"
          <5>1. rst[s].pc = "forget"
            BY <3>1, <4>1 DEF Knows
          <5>2. rst[r].tool = "restore"
            <6>1. rst[r].tool \in Restores /\ Alone
              BY Excluded DEF RestoreTypeOK, RstState
            <6> QED  BY <1>1, <4>1, <5>1, <6>1 DEF Alone, Restores
          <5>3. rst[s].name # n /\ rst[s].name \in Names
            BY <1>1, <3>1, <5>1, <5>2, <4>1 DEF Apart, Knows
          <5>4. gone'[rst[s].name] = gone[rst[s].name]
            BY <1>6, <5>3 DEF Safe, TypeOK, StoreTypeOK
          <5> QED  BY <1>1, <3>1, <5>4 DEF Forgetting, expVars
        <4>2. CASE ~(rst[s].pc \in {"carry", "forget"} /\ rst[s].tool = "restore")
          BY <1>1, <3>1, <4>2 DEF Forgetting, expVars
        <4> QED  BY <4>1, <4>2
      <3> QED  BY <3>2, <3>3
    <2>5. Apart'
      BY <1>3 DEF Apart
    <2> QED  BY <2>2, <2>3, <2>4, <2>5
  <1> QED  BY <1>5, <1>6 DEF RestoreForget

-----------------------------------------------------------------------------
(* The whole system.                                                       *)

\* Every step of ws_restore keeps what everybody relies on.
LEMMA RestoreStepSafe ==
    ASSUME FullSafe, RestoreStep, Admitted'
    PROVE  FullSafe'
  <1> USE DEF FullSafe
  <1>1. TypeOK' /\ RestoreTypeOK'
    BY RestoreTypes DEF Safe, RstOK
  <1>2. PICK r \in Restorers :
            /\ Frame(r)
            /\ \/ \E n \in Names, tool \in Restores : RestoreFind(r, n, tool)
               \/ \E i \in Ids \cup Elsewhere : RestoreTarget(r, i)
               \/ RestoreNoTarget(r) \/ RestoreEnd(r) \/ RestoreCrash(r)
               \/ \E ok \in BOOLEAN : MoveInto(r, ok) \/ MoveAway(r, ok)
               \/ \E empty, group \in BOOLEAN : Replace(r, empty, group)
               \/ CarryGroup(r)
               \/ \E finished \in BOOLEAN : Wipe(r, finished)
               \/ RestoreForget(r)
    BY RestoreFrame
  <1> DEFINE n == rst[r].name
             d == rst[r].path
  <1>3. CASE \/ \E m \in Names, tool \in Restores : RestoreFind(r, m, tool)
             \/ \E i \in Ids \cup Elsewhere : RestoreTarget(r, i)
    BY <1>1, <1>2, <1>3, ReadSafe
  <1>4. CASE RestoreNoTarget(r) \/ RestoreEnd(r) \/ RestoreCrash(r)
    BY <1>1, <1>2, <1>4, ReadSafe DEF RestoreNoTarget, RestoreEnd, RestoreCrash
  <1>5. ASSUME NEW ok \in BOOLEAN, MoveInto(r, ok)
        PROVE  FullSafe'
    <2>1. rst[r].pc = "move" /\ rst[r].tool = "restore" /\ d \in Ids
      BY <1>5 DEF MoveInto, RstOK, Knows
    <2>2. CASE trash[n] # NoDir /\ dirs[d] # NoDir /\ ok
      <3> DEFINE h == dirs[d].tok
      <3>1. Root(h) = h /\ h \in 0 .. Away
        BY <2>1, <2>2, TokenTypes DEF Nested, Root, Away
      <3>2. /\ trash' = [trash EXCEPT ![n] = NoDir]
            /\ PutInside(trash[n].tok, h)
            /\ GiveBack(trash[n].tok)
            /\ rst' = [rst EXCEPT ![r].pc = "forget"]
            /\ UNCHANGED <<now, live, gone, dirs, gen>>
        BY <1>5, <2>2, <3>1 DEF MoveInto
      <3>3. \E i \in Ids : dirs[i] # NoDir /\ h = dirs[i].tok
        BY <2>1, <2>2
      <3> HIDE DEF h
      <3> QED  BY <1>1, <1>2, <2>1, <2>2, <3>1, <3>2, <3>3, TakenSafe
    <2>3. CASE ~(trash[n] # NoDir /\ dirs[d] # NoDir /\ ok)
      BY <1>1, <1>2, <1>5, <2>3, ReadSafe DEF MoveInto, storeVars
    <2> QED  BY <2>2, <2>3
  <1>6. ASSUME NEW ok \in BOOLEAN, MoveAway(r, ok)
        PROVE  FullSafe'
    <2>1. Away \in 0 .. Away
      BY StoreAssumption DEF Away
    <2>2. CASE trash[n] # NoDir /\ ok /\ rst[r].tool = "restore"
      BY <1>1, <1>2, <1>6, <2>1, <2>2, TakenSafe DEF MoveAway
    <2>3. CASE ~(trash[n] # NoDir /\ ok /\ rst[r].tool = "restore")
      BY <1>1, <1>2, <1>6, <2>3, ReadSafe DEF MoveAway, storeVars
    <2> QED  BY <2>2, <2>3
  <1> QED  BY <1>1, <1>2, <1>3, <1>4, <1>5, <1>6, ReplaceStepSafe, CarrySafe, WipeSafe,
              RestoreForgetSafe

\* At the beginning nothing is restored.
LEMMA InitFullSafe ==
    ASSUME FullConfig, Init, RestoreInit, ed = EdIdle
    PROVE  FullSafe
  <1>1. Safe
    BY InitSafe DEF FullConfig
  <1>2. /\ \A r \in Restorers : rst[r] = RstIdle
        /\ \A g \in 0 .. MaxGen : inside[g] = 0
        /\ RestoreTypeOK
    BY IdleType, StoreAssumption DEF RestoreInit, RestoreTypeOK, Away
  <1>3. /\ \A n \in Names : trash[n] = NoDir
        /\ \A i \in Ids : dirs[i] = NoDir
        /\ \A g \in 0 .. MaxGen : fate[g].st = "none"
    BY DEF Init, StoreInit
  <1>4. Admitted /\ RstOK /\ Apart
    BY <1>2 DEF Admitted, RstOK, Knows, Forgetting, Replacing, Apart, RstIdle, EdIdle
  <1>5. TrashTokens /\ Nested
    BY <1>2, <1>3 DEF TrashTokens, Nested
  <1> QED  BY <1>1, <1>2, <1>4, <1>5 DEF FullSafe

\* Once an administrator has begun an edit the count of the edits says so.
LEMMA EditCounted ==
    ASSUME EditsCounted, EditStep
    PROVE  EditsCounted' /\ ed' # EdIdle
  <1> USE DEF EditsCounted
  <1>1. ASSUME NEW edit, NEW deleted, NEW match, EditCollect(edit, deleted, match)
        PROVE  EditsCounted' /\ ed' # EdIdle
    <2>1. PICK found : ed' = [EdIdle EXCEPT !.pc = "next", !.expired = deleted, !.edit = edit,
                                            !.todo = found, !.runs = ed.runs + 1]
      BY <1>1 DEF EditCollect
    <2>2. ed'.runs = ed.runs + 1 /\ DOMAIN ed' = DOMAIN EdIdle /\ ed'.pc = "next"
      BY <2>1 DEF EdIdle
    <2> QED  BY <2>2 DEF EdIdle
  <1>2. ASSUME ed.pc # "idle", DOMAIN ed' = DOMAIN EdIdle, ed'.runs = ed.runs
        PROVE  EditsCounted' /\ ed' # EdIdle
    BY <1>2 DEF EdIdle
  <1>3. DOMAIN EditDone = DOMAIN EdIdle /\ EditDone.runs = ed.runs
    BY DEF EditDone, EdIdle
  <1>4. DOMAIN EdRest = DOMAIN EdIdle /\ EdRest.runs = ed.runs
    BY DEF EdRest, EdIdle
  <1>5. ASSUME NEW x, EditWrite(x) \/ EditPass(x)
        PROVE  EditsCounted' /\ ed' # EdIdle
    BY <1>2, <1>5 DEF EditWrite, EditPass, EdIdle
  <1>6. CASE EditChoose
    BY <1>2, <1>3, <1>6 DEF EditChoose, EdIdle
  <1>7. CASE EditProbe \/ EditDbMove \/ \E ok \in BOOLEAN : EditDirMove(ok)
    BY <1>2, <1>3, <1>7 DEF EditProbe, EditDbMove, EditDirMove, EdIdle
  <1>8. CASE EditRollback \/ EditEnd \/ EditCrash
    BY <1>2, <1>3, <1>4, <1>8 DEF EditRollback, EditEnd, EditCrash, EdIdle
  <1> QED  BY <1>1, <1>5, <1>6, <1>7, <1>8 DEF EditStep

\* Every step before the first edit keeps what everybody relies on.
LEMMA FullStepSafe ==
    ASSUME FullSafe, [FullNext]_fullVars, ed' = ed, ~EditStep
    PROVE  FullSafe'
  <1>1. CASE UNCHANGED fullVars
    <2>1. Admitted'
      <3>1. UNCHANGED <<alloc, rel, expVars, rst, ed>>
        BY <1>1 DEF fullVars, vars
      <3> QED  BY ZenonT(40), <3>1
               DEF FullSafe, Admitted, OldRunning, AllocTool, ExpTool, EditTool, expVars
    <2>2. [Next]_vars /\ UNCHANGED <<rst, inside>>
      BY <1>1 DEF fullVars
    <2> QED  BY <2>1, <2>2, OldStepSafe
  <1>2. CASE FullNext
    <2>1. CASE RestoreStep
      BY <1>2, <2>1, RestoreStepSafe DEF FullNext
    <2>2. CASE Next /\ UNCHANGED <<rst, inside>>
      BY <1>2, <2>2, OldStepSafe DEF FullNext
    <2> QED  BY <1>2, <2>1, <2>2 DEF FullNext, Next
  <1> QED  BY <1>1, <1>2

\* Under FullConfig, what the tools and ws_restore rely on holds until the first
\* edit begins.
THEOREM FullInvariant == FullConfig /\ FullSpec => []SafeUntilEdited
  <1> DEFINE Inv == SafeUntilEdited /\ EditsCounted
  <1>1. FullConfig /\ FullInit => Inv
    BY InitFullSafe DEF FullInit, EditInit, SafeUntilEdited, EditsCounted, EdIdle
  <1>2. Inv /\ [FullNext]_fullVars => Inv'
    <2> SUFFICES ASSUME SafeUntilEdited, EditsCounted, [FullNext]_fullVars
                 PROVE  Inv'
      OBVIOUS
    <2>1. CASE EditStep
      BY <2>1, EditCounted DEF SafeUntilEdited
    <2>2. CASE ~EditStep
      <3>1. ed' = ed
        BY <2>2 DEF FullNext, RestoreStep, fullVars
      <3>2. EditsCounted'
        BY <3>1 DEF EditsCounted
      <3>3. ed = EdIdle => FullSafe'
        BY <2>2, <3>1, FullStepSafe DEF SafeUntilEdited
      <3> QED  BY <3>1, <3>2, <3>3 DEF SafeUntilEdited
    <2> QED  BY <2>1, <2>2
  <1>3. Inv => SafeUntilEdited
    OBVIOUS
  <1> QED  BY <1>1, <1>2, <1>3, PTL DEF FullSpec

\* Where no administrator asks for an edit, none begins.
LEMMA NeverEdited == Edits = {} /\ FullSpec => [](ed = EdIdle)
  <1> SUFFICES ASSUME Edits = {} PROVE FullSpec => [](ed = EdIdle)
    OBVIOUS
  <1>1. FullInit => ed = EdIdle
    BY DEF FullInit, EditInit
  <1>2. ed = EdIdle /\ [FullNext]_fullVars => (ed = EdIdle)'
    <2> SUFFICES ASSUME ed = EdIdle, FullNext PROVE ed' = EdIdle
      BY DEF fullVars
    <2>1. ~EditStep
      <3>1. /\ ed.pc = "idle" /\ ed.todo = {}
            /\ Edits = {}
        BY DEF EdIdle
      <3> QED  BY <3>1 DEF EditStep, EditChoose, EditProbe, EditDbMove, EditDirMove,
                           EditRollback, EditEnd, EditCrash
    <2> QED  BY <2>1 DEF FullNext, RestoreStep
  <1> QED  BY <1>1, <1>2, PTL DEF FullSpec

\* The invariant, and the properties of WsFull that are about states, where there
\* are no edits.
LEMMA FullSafeAlways ==
    FullConfig /\ Edits = {} /\ FullSpec => [](FullSafe /\ ed = EdIdle)
  <1>1. SafeUntilEdited /\ ed = EdIdle => FullSafe
    BY DEF SafeUntilEdited
  <1> QED  BY <1>1, FullInvariant, NeverEdited, PTL

\* Every state of the tools and of ws_restore is of its type, whatever they do
\* beside each other.
THEOREM FullTypes == FullConfig /\ Edits = {} /\ FullSpec => []FullTypeOK
  <1>1. FullSafe /\ ed = EdIdle => FullTypeOK
    BY EditAssumption DEF FullSafe, Safe, FullTypeOK, EditTypeOK, EdIdle
  <1> QED  BY <1>1, FullSafeAlways, PTL

\* Nobody who was given a workspace finds its directory gone, also if a ws_restore
\* puts data into it or replaces it.
THEOREM RestoreLeavesLive == FullConfig /\ Edits = {} /\ FullSpec => []LiveHasDir
  <1>1. FullSafe => LiveHasDir
    BY SafeImplies DEF FullSafe
  <1> QED  BY <1>1, FullSafeAlways, PTL

\* Released and expired data that is within its retention is in a deleted directory
\* whose entry has the same name: whatever ws_restore does to other data, or failed
\* to do to this, the next ws_restore finds it.
THEOREM RestoreFindsData == FullConfig /\ Edits = {} /\ FullSpec => []Findable
  <1>1. FullSafe => Findable
    BY SafeImplies DEF FullSafe, Findable
  <1> QED  BY <1>1, FullSafeAlways, PTL

\* ws_restore -l never shows a later date than the one the expirer goes by.
THEOREM RestoreListsDate == FullConfig /\ Edits = {} /\ FullSpec => []ListedUntil
  <1>1. FullSafe => ListedUntil
    <2> SUFFICES ASSUME FullSafe, NEW n \in Names, gone[n] # NoEntry, gone[n].released = 0
                 PROVE  n[2] =< Boundary(gone[n], n[2]) + MaxTries - 1
      BY DEF ListedUntil
    <2> USE DEF FullSafe, Safe
    <2>1. n[1] \in Ids /\ n[2] \in Stamps /\ n = <<n[1], n[2]>> /\ n[2] \in Nat
      BY NamePair, StoreAssumption DEF Stamps
    <2>2. 0 < gone[n].expired /\ n[2] =< gone[n].expired
      BY <2>1 DEF NamesOK
    <2>3. gone[n].expired \in Nat /\ gone[n].exp \in Nat
      BY DEF TypeOK, StoreTypeOK, Entry
    <2> QED  BY <2>1, <2>2, <2>3, StoreAssumption DEF Boundary, Later
  <1> QED  BY <1>1, FullSafeAlways, PTL

\* No deleted entry is replaced by another one: ws_restore only removes entries,
\* and the other tools never reuse a name that is taken.
THEOREM RestoreKeepsEntries == FullConfig /\ Edits = {} /\ FullSpec => DeletedStay
  <1> DEFINE Stays == \A n \in Names : gone[n] # NoEntry /\ gone'[n] # NoEntry /\ gone'[n] # gone[n]
                            => ed.pc = "next"
  <1>1. FullSafe /\ ed = EdIdle /\ (ed = EdIdle)' /\ [FullNext]_fullVars => [Stays]_fullVars
    <2> SUFFICES ASSUME FullSafe, ed = EdIdle, ed' = EdIdle, FullNext, NEW n \in Names,
                        gone[n] # NoEntry, gone'[n] # NoEntry
                 PROVE  gone'[n] = gone[n]
      BY DEF fullVars
    <2>1. CASE Next
      BY <2>1, SafeTargets, NoOverwriteStep DEF FullSafe
    <2>2. CASE RestoreStep
      <3>1. PICK r \in Restorers :
                \/ \E m \in Names, tool \in Restores : RestoreFind(r, m, tool)
                \/ \E i \in Ids \cup Elsewhere : RestoreTarget(r, i)
                \/ RestoreNoTarget(r) \/ CarryGroup(r) \/ RestoreEnd(r) \/ RestoreCrash(r)
                \/ \E ok \in BOOLEAN : MoveInto(r, ok) \/ MoveAway(r, ok)
                \/ \E empty, group \in BOOLEAN : Replace(r, empty, group)
                \/ \E finished \in BOOLEAN : Wipe(r, finished)
                \/ RestoreForget(r)
        BY <2>2 DEF RestoreStep
      <3>2. ASSUME \/ \E m \in Names, tool \in Restores : RestoreFind(r, m, tool)
                   \/ \E i \in Ids \cup Elsewhere : RestoreTarget(r, i)
                   \/ RestoreNoTarget(r) \/ CarryGroup(r) \/ RestoreEnd(r)
                   \/ RestoreCrash(r)
            PROVE  gone' = gone
        BY <3>2 DEF RestoreFind, RestoreTarget, RestoreNoTarget, CarryGroup, RestoreEnd,
                    RestoreCrash, storeVars
      <3>3. ASSUME NEW ok \in BOOLEAN, MoveInto(r, ok) \/ MoveAway(r, ok)
            PROVE  gone' = gone
        BY <3>3 DEF MoveInto, MoveAway, storeVars
      <3>4. ASSUME NEW empty \in BOOLEAN, NEW group \in BOOLEAN, Replace(r, empty, group)
            PROVE  gone' = gone
        BY <3>4 DEF Replace, storeVars
      <3>5. ASSUME NEW finished \in BOOLEAN, Wipe(r, finished)
            PROVE  gone' = gone
        BY <3>5 DEF Wipe, storeVars
      <3>6. ASSUME RestoreForget(r)
            PROVE  gone' = gone \/ gone' = [gone EXCEPT ![rst[r].name] = NoEntry]
        BY <3>6 DEF RestoreForget
      <3>7. gone' = gone \/ gone' = [gone EXCEPT ![rst[r].name] = NoEntry]
        BY <3>1, <3>2, <3>3, <3>4, <3>5, <3>6
      <3>8. gone \in [Names -> Entry \cup {NoEntry}]
        BY DEF FullSafe, Safe, TypeOK, StoreTypeOK
      <3> QED  BY <3>7, <3>8
    <2>3. CASE EditStep
      <3>1. ed.pc = "idle" /\ ed.todo = {}
        BY DEF EdIdle
      <3>2. PICK edit, deleted, match : EditCollect(edit, deleted, match)
        BY <2>3, <3>1 DEF EditStep, EditChoose, EditProbe, EditDbMove, EditDirMove,
                          EditRollback, EditEnd, EditCrash
      <3> QED  BY <3>2 DEF EditCollect, storeVars
    <2> QED  BY <2>1, <2>2, <2>3 DEF FullNext, Next
  <1> QED  BY <1>1, FullSafeAlways, PTL DEF FullSpec, DeletedStay
=============================================================================
