--------------------------- MODULE WsFull_retention ---------------------------
(***************************************************************************)
(* The system with ws_restore implements WsRetention: every file operation *)
(* of every tool maps to a step that WsRetention allows, or to none.       *)
(***************************************************************************)
EXTENDS WsFull_safety

\* What WsRetention allows to happen to the data with token g.
SameFor(g) == Whereabouts(g)' = Whereabouts(g) /\ DueDate(g)' = DueDate(g)

HoldFor(g) ==
    /\ Whereabouts(g) \in {"none", "held", "kept"}
    /\ Whereabouts(g)' = "held"
    /\ DueDate(g)' = 0

AnnounceFor(g) ==
    /\ Whereabouts(g) \in {"held", "kept"}
    /\ Whereabouts(g)' = "held"
    /\ DueDate(g)' > 0

KeepFor(g) ==
    /\ Whereabouts(g) = "held"
    /\ Whereabouts(g)' = "kept"
    /\ DueDate(g)' = DueDate(g)
    /\ DueDate(g) > 0

DropFor(g) ==
    /\ Whereabouts(g) \in {"held", "kept"}
    /\ Whereabouts(g)' = "dropped"
    /\ g \in Asked' \/ (DueDate(g) > 0 /\ now >= DueDate(g))

AllowedFor(g) == SameFor(g) \/ HoldFor(g) \/ AnnounceFor(g) \/ KeepFor(g) \/ DropFor(g)

\* It allows the step if it allows it for all data.
LEMMA AllowedNext ==
    ASSUME now' \in {now, now + 1}, \A g \in 1 .. MaxGen : AllowedFor(g)
    PROVE  Retention!Next
  <1> SUFFICES ASSUME NEW g \in 1 .. MaxGen
               PROVE  \/ Retention!Same(g) \/ Retention!Hold(g) \/ Retention!Announce(g)
                      \/ Retention!Keep(g) \/ Retention!MoveDate(g) \/ Retention!Drop(g)
    BY DEF Retention!Next
  <1>1. SameFor(g) => Retention!Same(g)
    BY DEF SameFor, Retention!Same
  <1>2. HoldFor(g) => Retention!Hold(g)
    BY DEF HoldFor, Retention!Hold
  <1>3. AnnounceFor(g) => Retention!Announce(g)
    BY DEF AnnounceFor, Retention!Announce
  <1>4. KeepFor(g) => Retention!Keep(g)
    BY DEF KeepFor, Retention!Keep
  <1>5. DropFor(g) => Retention!Drop(g)
    BY DEF DropFor, Retention!Drop
  <1> QED  BY <1>1, <1>2, <1>3, <1>4, <1>5 DEF AllowedFor

\* At the beginning there is no data.
LEMMA InitRetention == FullInit => Retention!Init
  <1> SUFFICES ASSUME FullInit PROVE Retention!Init
    OBVIOUS
  <1>1. /\ now = 1
        /\ \A g \in 1 .. MaxGen : fate[g].st = "none" /\ inside[g] = 0
    BY StoreAssumption DEF FullInit, Init, StoreInit, RestoreInit
  <1>2. \A g \in 1 .. MaxGen : Root(g) = g /\ g # Away
    BY <1>1, StoreAssumption DEF Root, Away
  <1>3. \A g \in 1 .. MaxGen : Whereabouts(g) = "none"
    BY <1>1 DEF Whereabouts
  <1>4. \A g \in 1 .. MaxGen : DueDate(g) = 0
    BY <1>1, <1>2 DEF DueDate
  <1>5. Asked = {}
    BY <1>1, <1>2 DEF Asked
  <1> QED  BY <1>1, <1>3, <1>4, <1>5 DEF Retention!Init

-----------------------------------------------------------------------------
(* Where data is.                                                          *)

\* What FullSafe says about the data with token g and the directory it is in.
LEMMA RootFacts ==
    ASSUME FullSafe, NEW g \in 1 .. MaxGen
    PROVE  /\ g \in 0 .. MaxGen /\ g # 0 /\ g # Away /\ MaxGen \in Nat /\ gen \in 0 .. MaxGen
           /\ Root(g) # g => fate[g].st = "live"
           /\ Root(g) # Away =>
                /\ Root(g) \in 1 .. MaxGen /\ Root(g) \in 0 .. MaxGen
                /\ inside[Root(g)] = 0
                /\ Root(g) # g => Root(g) \in 1 .. gen
           /\ inside[g] = 0 => Root(g) = g
           /\ inside[g] # 0 => Root(g) = inside[g] /\ Root(g) # g
  <1>1. /\ g \in 0 .. MaxGen /\ g # 0 /\ g # Away /\ MaxGen \in Nat /\ gen \in 0 .. MaxGen
    BY StoreAssumption, TokenTypes DEF FullSafe, Away
  <1>2. CASE inside[g] = 0
    BY <1>1, <1>2 DEF Root
  <1>3. CASE inside[g] # 0
    <2>1. /\ Root(g) = inside[g]
          /\ fate[g].st = "live"
          /\ inside[g] # Away => inside[g] \in 1 .. gen /\ inside[inside[g]] = 0
      BY <1>1, <1>3 DEF Root, FullSafe, Nested
    <2>2. inside[g] # g
      BY <1>1, <1>3, <2>1
    <2> QED  BY <1>1, <1>3, <2>1, <2>2
  <1> QED  BY <1>2, <1>3

\* Data in a deleted directory was released or expired.
LEMMA KeptFate ==
    ASSUME FullSafe, NEW n \in Names, trash[n] # NoDir, trash[n].tok # 0
    PROVE  /\ trash[n].tok \in 1 .. gen /\ trash[n].tok \in 1 .. MaxGen /\ trash[n].tok # Away
           /\ fate[trash[n].tok].st \in {"released", "expired"}
           /\ inside[trash[n].tok] = 0
           /\ Kept(trash[n].tok) /\ ~Held(trash[n].tok)
           /\ \A m \in Names \ {n} : trash[m] # NoDir => trash[m].tok # trash[n].tok
  <1> USE DEF FullSafe, Safe
  <1>1. trash[n].tok \in 1 .. gen /\ trash[n].tok \in 1 .. MaxGen /\ trash[n].tok # Away
    BY TokenTypes, StoreAssumption DEF Away
  <1>2. fate[trash[n].tok].st \in {"released", "expired"}
    BY DEF TrashKept, Matches, KeptLongEnough
  <1>3. inside[trash[n].tok] = 0
    BY DEF Nested
  <1>4. Kept(trash[n].tok) /\ ~Held(trash[n].tok)
    BY <1>1 DEF Kept, Held, Tokens
  <1>5. \A m \in Names \ {n} : trash[m] # NoDir => trash[m].tok # trash[n].tok
    BY DEF TrashTokens
  <1> QED  BY <1>1, <1>2, <1>3, <1>4, <1>5

\* Data in a directory of a workspace: nobody else's is.
LEMMA HeldFacts ==
    ASSUME FullSafe, NEW i \in Ids, dirs[i] # NoDir
    PROVE  /\ dirs[i].tok \in 1 .. gen /\ dirs[i].tok \in 1 .. MaxGen /\ dirs[i].tok # Away
           /\ inside[dirs[i].tok] = 0
           /\ Held(dirs[i].tok) /\ ~Kept(dirs[i].tok)
           /\ \A j \in Ids \ {i} : dirs[j] # NoDir => dirs[j].tok # dirs[i].tok
  <1> USE DEF FullSafe, Safe
  <1>1. dirs[i].tok \in 1 .. gen /\ dirs[i].tok \in 1 .. MaxGen /\ dirs[i].tok # Away
    BY TokenTypes, StoreAssumption DEF Away
  <1> QED  BY <1>1 DEF Kept, Held, Tokens, Nested

\* Data that stays in its directory, while that directory stays where it is, and
\* that nobody is told anything about.
LEMMA StaysSame ==
    ASSUME NEW g \in 1 .. MaxGen, NEW CONSTANT h, Root(g) = h, Root(g)' = h,
           fate'[g].st = fate[g].st,
           h # Away => fate'[h].st = fate[h].st /\ fate'[h].at = fate[h].at,
           Held(h)' <=> Held(h), Kept(h)' <=> Kept(h)
    PROVE  SameFor(g)
  BY DEF Whereabouts, DueDate, SameFor

-----------------------------------------------------------------------------
(* The steps of the tools of WsSystem.                                     *)

\* Data that nobody touches stays what it is, also inside another directory.
LEMMA QuietSame ==
    ASSUME FullSafe, Quiet, UNCHANGED inside, NEW g \in 1 .. MaxGen
    PROVE  SameFor(g)
  <1>1. PICK h : h = Root(g)
    OBVIOUS
  <1>2. Root(g)' = h
    BY <1>1 DEF Root
  <1>3. h # Away => h \in 0 .. MaxGen
    BY <1>1, RootFacts
  <1>4. (Held(h)' <=> Held(h)) /\ (Kept(h)' <=> Kept(h))
    BY DEF Held, Kept, Quiet
  <1> QED  BY <1>1, <1>2, <1>3, <1>4, RootFacts, StaysSame DEF Quiet

\* A directory is made: its data is nobody's yet.
LEMMA MadeSame ==
    ASSUME FullSafe, FullSafe', NEW i \in Ids, Made(i), UNCHANGED inside, NEW g \in 1 .. MaxGen
    PROVE  SameFor(g)
  <1>1. PICK h : h = Root(g)
    OBVIOUS
  <1>2. Root(g)' = h
    BY <1>1 DEF Root
  <1>3. gen + 1 \in 1 .. MaxGen /\ gen + 1 \in 0 .. MaxGen /\ gen + 1 > gen /\ gen \in Nat
        /\ gen + 1 # Away
    BY TokenTypes DEF FullSafe, Made, Away
  <1>4. CASE g = gen + 1
    <2>1. fate[g].st = "none" /\ fate'[g].st = "fresh"
      BY <1>3, <1>4 DEF FullSafe, Nested, Made
    <2>2. h = g /\ h # Away
      BY <1>1, <1>3, <1>4, <2>1, RootFacts
    <2> QED  BY <1>1, <1>2, <2>1, <2>2 DEF SameFor, Whereabouts, DueDate
  <1>5. CASE g # gen + 1
    <2>1. h # gen + 1
      BY <1>1, <1>3, <1>5, RootFacts
    <2>2. h # Away => h \in 0 .. MaxGen
      BY <1>1, RootFacts
    <2>3. (Held(h)' <=> Held(h)) /\ (Kept(h)' <=> Kept(h))
      BY <2>1 DEF Held, Kept, Made
    <2> QED  BY <1>1, <1>2, <1>5, <2>1, <2>2, <2>3, RootFacts, StaysSame DEF Made, FateOf
  <1> QED  BY <1>4, <1>5

\* The data in the directory with token t, and only that data, changes its fate.
LEMMA OthersSame ==
    ASSUME FullSafe, NEW CONSTANT t, FateOf(t), UNCHANGED inside, inside[t] = 0,
           NEW g \in 1 .. MaxGen, Root(g) # t,
           \A h : h # t => (Held(h)' <=> Held(h)) /\ (Kept(h)' <=> Kept(h))
    PROVE  SameFor(g)
  <1>1. PICK h : h = Root(g)
    OBVIOUS
  <1>2. Root(g)' = h
    BY <1>1 DEF Root
  <1>3. h # Away => h \in 0 .. MaxGen
    BY <1>1, RootFacts
  <1>4. g # t
    BY RootFacts
  <1> QED  BY <1>1, <1>2, <1>3, <1>4, RootFacts, StaysSame DEF FateOf

\* The user is told about a directory.
LEMMA HandedAllowed ==
    ASSUME FullSafe, NEW i \in Ids, Handed(i), UNCHANGED inside, NEW g \in 1 .. MaxGen
    PROVE  AllowedFor(g)
  <1>1. PICK t : t = dirs[i].tok
    OBVIOUS
  <1>2. /\ t \in 1 .. MaxGen /\ t # Away /\ inside[t] = 0 /\ dirs' = dirs /\ trash' = trash
        /\ fate'[t].st = "live" /\ FateOf(t) /\ Held(t)
    BY <1>1, HeldFacts DEF Handed
  <1>3. \A h : (Held(h)' <=> Held(h)) /\ (Kept(h)' <=> Kept(h))
    BY <1>2 DEF Held, Kept
  <1>4. CASE Root(g) # t
    BY <1>2, <1>3, <1>4, OthersSame DEF AllowedFor
  <1>5. CASE Root(g) = t
    <2>1. Root(g)' = t
      BY <1>5 DEF Root
    <2>2. fate'[g].st = "live"
      BY <1>2, <1>5, RootFacts DEF FateOf
    <2>3. Whereabouts(g)' = "held" /\ DueDate(g)' = 0
      BY <1>2, <1>3, <2>1, <2>2 DEF Whereabouts, DueDate
    <2>4. Whereabouts(g) \in {"none", "held"}
      BY <1>2, <1>5 DEF Whereabouts
    <2> QED  BY <2>3, <2>4 DEF AllowedFor, HoldFor
  <1> QED  BY <1>4, <1>5

\* The entry of a workspace becomes a deleted one: its user has a date from then
\* on, before the directory is moved.
LEMMA EndedAllowed ==
    ASSUME FullSafe, FullSafe', NEW i \in Ids, Ended(i), UNCHANGED inside, NEW g \in 1 .. MaxGen
    PROVE  AllowedFor(g)
  <1>1. PICK t : t = dirs[i].tok
    OBVIOUS
  <1>2. /\ t \in 1 .. MaxGen /\ t \in 0 .. MaxGen /\ t # Away /\ inside[t] = 0
        /\ dirs' = dirs /\ trash' = trash
        /\ fate[t].st = "live" /\ fate'[t].st \in {"released", "expired", "purged"}
        /\ FateOf(t) /\ Held(t)
    BY <1>1, HeldFacts, RootFacts DEF Ended
  <1>3. \A h : (Held(h)' <=> Held(h)) /\ (Kept(h)' <=> Kept(h))
    BY <1>2 DEF Held, Kept
  <1>4. CASE Root(g) # t
    BY <1>2, <1>3, <1>4, OthersSame DEF AllowedFor
  <1>5. CASE Root(g) = t
    <2>1. Root(g)' = t
      BY <1>5 DEF Root
    <2>2. fate[g].st = "live" /\ fate'[g].st \in {"live", "released", "expired", "purged"}
      BY <1>2, <1>5, RootFacts DEF FateOf
    <2>3. Whereabouts(g) = "held" /\ Whereabouts(g)' = "held" /\ DueDate(g) = 0
      BY <1>2, <1>3, <1>5, <2>1, <2>2 DEF Whereabouts, DueDate
    <2>4. fate'[t].at \in Nat /\ ReleaseKeepTime \in Nat /\ ReleaseKeepTime >= 2 /\ KeepTime \in Nat
      BY <1>2, StoreAssumption DEF FullSafe, Safe, SafeConfig, TypeOK, StoreTypeOK, Fate
    <2>5. CASE fate'[t].st = "purged"
      BY <1>2, <2>1, <2>3, <2>5 DEF AllowedFor, SameFor, DueDate
    <2>6. CASE fate'[t].st \in {"released", "expired"}
      <3>1. DueDate(g)' > 0
        BY <1>2, <2>1, <2>4, <2>6 DEF DueDate
      <3> QED  BY <2>3, <3>1 DEF AllowedFor, AnnounceFor
    <2> QED  BY <1>2, <2>5, <2>6
  <1> QED  BY <1>4, <1>5

\* ws_release --delete-data: the data is dropped, its user asked for it.
LEMMA PurgedAllowed ==
    ASSUME FullSafe, NEW i \in Ids, Purged(i), UNCHANGED inside, NEW g \in 1 .. MaxGen
    PROVE  AllowedFor(g)
  <1>1. PICK t : t = dirs[i].tok
    OBVIOUS
  <1>2. /\ t \in 1 .. MaxGen /\ t # Away /\ inside[t] = 0 /\ Held(t) /\ ~Kept(t)
        /\ \A j \in Ids \ {i} : dirs[j] # NoDir => dirs[j].tok # t
    BY <1>1, HeldFacts DEF Purged
  <1>3. /\ dirs'[i] = NoDir /\ \A j \in Ids \ {i} : dirs'[j] = dirs[j]
        /\ trash' = trash /\ fate' = fate /\ FateOf(t) /\ fate[t].st = "purged"
    BY <1>1 DEF Purged, FateOf
  <1>4. \A h : h # t => (Held(h)' <=> Held(h)) /\ (Kept(h)' <=> Kept(h))
    BY <1>1, <1>3 DEF Held, Kept
  <1>5. CASE Root(g) # t
    BY <1>2, <1>3, <1>4, <1>5, OthersSame DEF AllowedFor
  <1>6. CASE Root(g) = t
    <2>1. Root(g)' = t
      BY <1>6 DEF Root
    <2>2. fate[g].st \in {"live", "purged"}
      BY <1>3, <1>6, RootFacts
    <2>3. Held(t)' = FALSE /\ Kept(t)' = FALSE
      BY <1>2, <1>3 DEF Held, Kept
    <2>4. Whereabouts(g) = "held" /\ Whereabouts(g)' = "dropped"
      BY <1>2, <1>3, <1>6, <2>1, <2>2, <2>3 DEF Whereabouts
    <2>5. g \in Asked'
      BY <1>2, <1>3, <2>1 DEF Asked
    <2> QED  BY <2>4, <2>5 DEF AllowedFor, DropFor
  <1> QED  BY <1>5, <1>6

\* A directory follows its entry to the deleted ones: its user has a date already.
LEMMA MovedAllowed ==
    ASSUME FullSafe, NEW i \in Ids, NEW n \in Names, Moved(i, n), UNCHANGED inside,
           NEW g \in 1 .. MaxGen
    PROVE  AllowedFor(g)
  <1>1. PICK t : t = dirs[i].tok
    OBVIOUS
  <1>2. /\ t \in 1 .. MaxGen /\ t \in 0 .. MaxGen /\ t # Away /\ inside[t] = 0 /\ Held(t)
        /\ \A j \in Ids \ {i} : dirs[j] # NoDir => dirs[j].tok # t
    BY <1>1, HeldFacts, RootFacts DEF Moved
  <1>3. /\ dirs[i] # NoDir
        /\ dirs'[i] = NoDir /\ \A j \in Ids \ {i} : dirs'[j] = dirs[j]
        /\ trash[n] = NoDir /\ trash'[n] = dirs[i]
        /\ \A m \in Names \ {n} : trash'[m] = trash[m]
        /\ fate' = fate /\ FateOf(t) /\ fate[t].st \in {"released", "expired"}
    BY <1>1 DEF Moved, FateOf
  <1>4. \A h : h # t => (Held(h)' <=> Held(h)) /\ (Kept(h)' <=> Kept(h))
    BY <1>1, <1>3 DEF Held, Kept
  <1>5. CASE Root(g) # t
    BY <1>2, <1>3, <1>4, <1>5, OthersSame DEF AllowedFor
  <1>6. CASE Root(g) = t
    <2>1. Root(g)' = t
      BY <1>6 DEF Root
    <2>2. fate[g].st \in {"live", "released", "expired"}
      BY <1>3, <1>6, RootFacts
    <2>3. Held(t)' = FALSE /\ Kept(t)' = TRUE
      <3>1. ~\E j \in Ids : dirs'[j] # NoDir /\ dirs'[j].tok = t
        BY <1>2, <1>3
      <3>2. trash'[n] # NoDir /\ trash'[n].tok = t
        BY <1>1, <1>3
      <3> QED  BY <1>2, <3>1, <3>2 DEF Held, Kept
    <2>4. Whereabouts(g) = "held" /\ Whereabouts(g)' = "kept"
      BY <1>2, <1>3, <1>6, <2>1, <2>2, <2>3 DEF Whereabouts
    <2>5. fate[t].at \in Nat /\ ReleaseKeepTime \in Nat /\ ReleaseKeepTime >= 2 /\ KeepTime \in Nat
      BY <1>2, StoreAssumption DEF FullSafe, Safe, SafeConfig, TypeOK, StoreTypeOK, Fate
    <2>6. DueDate(g) > 0 /\ DueDate(g)' = DueDate(g)
      BY <1>2, <1>3, <1>6, <2>1, <2>5 DEF DueDate
    <2> QED  BY <2>4, <2>6 DEF AllowedFor, KeepFor
  <1> QED  BY <1>5, <1>6

\* ws_expirer removes a deleted directory: the date of the data in it is over.
LEMMA RemovedAllowed ==
    ASSUME FullSafe, NEW n \in Names, Removed(n), UNCHANGED inside, NEW g \in 1 .. MaxGen
    PROVE  AllowedFor(g)
  <1>1. PICK t : t = IF trash[n] = NoDir THEN 0 ELSE trash[n].tok
    OBVIOUS
  <1>2. /\ \A m \in Names \ {n} : trash'[m] = trash[m]
        /\ trash'[n] # NoDir => trash[n] # NoDir /\ trash'[n].tok = 0
        /\ dirs' = dirs /\ fate' = fate /\ FateOf(t)
        /\ trash[n] # NoDir /\ trash[n].tok # 0 => KeptLongEnough(trash[n].tok)
    BY DEF Removed, FateOf
  <1>3. \A h : h # t /\ h # 0 => (Held(h)' <=> Held(h)) /\ (Kept(h)' <=> Kept(h))
    BY <1>1, <1>2 DEF Held, Kept
  <1>4. CASE Root(g) # t
    <2>1. PICK h : h = Root(g)
      OBVIOUS
    <2>2. Root(g)' = h
      BY <2>1 DEF Root
    <2>3. h # 0
      BY <2>1, RootFacts, StoreAssumption DEF Away
    <2>4. SameFor(g)
      BY <1>2, <1>3, <1>4, <2>1, <2>2, <2>3, StaysSame
    <2> QED  BY <2>4 DEF AllowedFor
  <1>5. CASE Root(g) = t
    <2>1. Root(g)' = t /\ t # 0
      BY <1>5, RootFacts, StoreAssumption DEF Root, Away
    <2>2. trash[n] # NoDir /\ t = trash[n].tok
      BY <1>1, <2>1
    <2>3. /\ t \in 1 .. MaxGen /\ t # Away /\ fate[t].st \in {"released", "expired"} /\ inside[t] = 0
          /\ Kept(t) /\ ~Held(t)
          /\ \A m \in Names \ {n} : trash[m] # NoDir => trash[m].tok # t
      BY <2>1, <2>2, KeptFate
    <2>4. Held(t)' = FALSE /\ Kept(t)' = FALSE
      BY <1>2, <2>1, <2>3 DEF Held, Kept
    <2>5. fate[g].st \in {"live", "released", "expired"}
      BY <1>5, <2>3, RootFacts
    <2>6. Whereabouts(g) = "kept" /\ Whereabouts(g)' = "dropped"
      BY <1>2, <1>5, <2>1, <2>3, <2>4, <2>5 DEF Whereabouts
    <2>7. KeptLongEnough(t)
      BY <2>1, <2>2 DEF Removed
    <2>8. /\ fate[t].at \in Nat /\ ReleaseKeepTime \in Nat /\ ReleaseKeepTime >= 2
          /\ KeepTime \in Nat /\ now \in Nat
      <3>1. t \in 0 .. MaxGen
        BY <2>3
      <3> QED  BY <3>1, StoreAssumption DEF FullSafe, Safe, SafeConfig, TypeOK, StoreTypeOK, Fate
    <2>9. DueDate(g) > 0 /\ now >= DueDate(g)
      BY <1>5, <2>3, <2>7, <2>8 DEF DueDate, KeptLongEnough
    <2> QED  BY <2>6, <2>9 DEF AllowedFor, DropFor
  <1> QED  BY <1>4, <1>5

\* Every step of the tools of WsSystem is one that WsRetention allows.
LEMMA OldStepAllowed ==
    ASSUME FullSafe, FullSafe', [Next]_vars, UNCHANGED inside
    PROVE  Retention!Next
  <1>1. DataStep
    BY DataSteps DEF FullSafe
  <1>2. now' \in {now, now + 1}
    BY DataSteps DEF FullSafe
  <1>3. ASSUME NEW g \in 1 .. MaxGen
        PROVE  AllowedFor(g)
    <2>1. CASE Quiet
      BY <2>1, QuietSame DEF AllowedFor
    <2>2. ASSUME NEW i \in Ids, Made(i) \/ Handed(i) \/ Ended(i) \/ Purged(i)
          PROVE  AllowedFor(g)
      BY <2>2, MadeSame, HandedAllowed, EndedAllowed, PurgedAllowed DEF AllowedFor
    <2>3. ASSUME NEW i \in Ids, NEW n \in Names, Moved(i, n)
          PROVE  AllowedFor(g)
      BY <2>3, MovedAllowed
    <2>4. ASSUME NEW n \in Names, Removed(n)
          PROVE  AllowedFor(g)
      BY <2>4, RemovedAllowed
    <2> QED  BY <1>1, <2>1, <2>2, <2>3, <2>4 DEF DataStep
  <1> QED  BY <1>2, <1>3, AllowedNext

-----------------------------------------------------------------------------
(* The steps of ws_restore.                                                *)

\* Data is moved into the directory of a workspace, or to another filesystem, with
\* what was restored into it before: it is held again, and has a date only if the
\* workspace it is in now has one.
LEMMA TakenAllowed ==
    ASSUME FullSafe, NEW n \in Names, trash[n] # NoDir, NEW CONSTANT h \in 0 .. Away,
           h = Away \/ \E i \in Ids : dirs[i] # NoDir /\ h = dirs[i].tok,
           trash' = [trash EXCEPT ![n] = NoDir], PutInside(trash[n].tok, h),
           GiveBack(trash[n].tok), UNCHANGED dirs, NEW g \in 1 .. MaxGen
    PROVE  AllowedFor(g)
  <1>1. PICK t : t = trash[n].tok
    OBVIOUS
  <1>2. /\ \A m \in Names \ {n} : trash'[m] = trash[m]
        /\ trash'[n] = NoDir
    BY DEF FullSafe, Safe, TypeOK, StoreTypeOK
  <1>3. \A x \in 0 .. MaxGen :
            inside'[x] = IF t > 0 /\ x > 0 /\ (x = t \/ inside[x] = t) THEN h ELSE inside[x]
    BY <1>1 DEF PutInside
  <1>4. \A k : k # t => (Held(k)' <=> Held(k)) /\ (Kept(k)' <=> Kept(k))
    BY <1>1, <1>2 DEF Held, Kept
  <1>5. t \in 0 .. MaxGen /\ fate \in [0 .. MaxGen -> Fate]
    BY <1>1, TokenTypes DEF FullSafe, Safe, TypeOK, StoreTypeOK
  <1>6. /\ \A k \in 0 .. MaxGen : k # t => fate'[k] = fate[k]
        /\ t # 0 => fate'[t].st = "live"
    BY <1>1, <1>5 DEF GiveBack, Fate
  <1>7. CASE Root(g) # t \/ t = 0
    <2>1. PICK k : k = Root(g)
      OBVIOUS
    <2>2. k # 0 /\ (k # Away => k \in 0 .. MaxGen) /\ k # t
      BY <1>7, <2>1, RootFacts, StoreAssumption DEF Away
    <2>3. inside'[g] = inside[g] /\ g # t
      <3>1. t > 0 => g # t /\ inside[g] # t
        <4> SUFFICES ASSUME t > 0, g = t \/ inside[g] = t
                     PROVE  FALSE
          OBVIOUS
        <4>1. inside[t] = 0
          BY <1>1, <1>5, KeptFate
        <4>2. Root(g) = t
          BY <4>1, RootFacts DEF Root
        <4> QED  BY <1>7, <4>2
      <3> QED  BY <1>3, <1>5, <3>1, RootFacts
    <2>4. Root(g)' = k
      BY <2>1, <2>3 DEF Root
    <2>5. SameFor(g)
      BY <1>4, <1>6, <2>1, <2>2, <2>3, <2>4, RootFacts, StaysSame
    <2> QED  BY <2>5 DEF AllowedFor
  <1>8. CASE Root(g) = t /\ t # 0
    <2>1. /\ t \in 1 .. MaxGen /\ t # Away /\ fate[t].st \in {"released", "expired"} /\ inside[t] = 0
          /\ Kept(t) /\ ~Held(t)
      BY <1>1, <1>8, KeptFate
    <2>2. fate[g].st \in {"live", "released", "expired"} /\ fate'[g].st = "live"
      BY <1>6, <1>8, <2>1, RootFacts
    <2>3. Whereabouts(g) = "kept"
      BY <1>8, <2>1, <2>2 DEF Whereabouts
    <2>4. g = t \/ inside[g] = t
      BY <1>8, RootFacts
    <2>5. inside'[g] = h
      BY <1>3, <2>1, <2>4, RootFacts
    <2>6. h # 0 /\ Held(h) /\ (h # Away => h \in 0 .. MaxGen /\ h # t)
      <3>1. CASE h = Away
        <4>1. Away # 0
          BY StoreAssumption DEF Away
        <4> QED  BY <3>1, <4>1 DEF Held
      <3>2. CASE h # Away
        <4>1. PICK i \in Ids : dirs[i] # NoDir /\ h = dirs[i].tok
          BY <3>2
        <4>2. h \in 1 .. MaxGen /\ Held(h)
          BY <4>1, HeldFacts
        <4> QED  BY <2>1, <4>2
      <3> QED  BY <3>1, <3>2
    <2>7. Root(g)' = h
      BY <2>5, <2>6 DEF Root
    <2>8. Held(h)' = TRUE
      <3>1. h # t
        BY <2>1, <2>6
      <3> QED  BY <1>4, <2>6, <3>1
    <2>9. Whereabouts(g)' = "held"
      BY <2>2, <2>7, <2>8 DEF Whereabouts
    <2>10. DueDate(g)' = 0 \/ DueDate(g)' > 0
      <3>1. CASE h = Away
        BY <2>7, <3>1 DEF DueDate
      <3>2. CASE h # Away
        <4>1. fate'[h] = fate[h] /\ fate[h].at \in Nat
          BY <1>5, <1>6, <2>6, <3>2 DEF Fate
        <4>2. ReleaseKeepTime \in Nat /\ ReleaseKeepTime >= 2 /\ KeepTime \in Nat
          BY StoreAssumption DEF FullSafe, Safe, SafeConfig
        <4> QED  BY <2>7, <3>2, <4>1, <4>2 DEF DueDate
      <3> QED  BY <3>1, <3>2
    <2> QED  BY <2>3, <2>9, <2>10 DEF AllowedFor, HoldFor, AnnounceFor
  <1> QED  BY <1>7, <1>8

\* --delete-data: the data in a deleted directory is dropped, its user asked for it.
LEMMA WipeAllowed ==
    ASSUME FullSafe, NEW r \in Restorers, NEW finished \in BOOLEAN, Wipe(r, finished),
           NEW g \in 1 .. MaxGen
    PROVE  AllowedFor(g)
  <1>1. PICK n \in Names : n = rst[r].name
    BY DEF Wipe, FullSafe, RstOK, Knows
  <1>2. PICK t : t = IF trash[n] = NoDir THEN 0 ELSE trash[n].tok
    OBVIOUS
  <1>3. /\ \A m \in Names \ {n} : trash'[m] = trash[m]
        /\ trash'[n] # NoDir => trash[n] # NoDir /\ trash'[n].tok = 0
        /\ fate' = IF t = 0 THEN fate ELSE [fate EXCEPT ![t].st = "purged"]
        /\ dirs' = dirs /\ inside' = inside
    BY <1>1, <1>2 DEF Wipe, FullSafe, Safe, TypeOK, StoreTypeOK
  <1>4. t \in 0 .. MaxGen /\ fate \in [0 .. MaxGen -> Fate]
    BY <1>2, TokenTypes, StoreAssumption DEF FullSafe, Safe, TypeOK, StoreTypeOK
  <1>5. /\ \A k \in 0 .. MaxGen : k # t => fate'[k] = fate[k]
        /\ t # 0 => fate'[t].st = "purged"
    BY <1>3, <1>4 DEF Fate
  <1>6. \A k : k # t /\ k # 0 => (Held(k)' <=> Held(k)) /\ (Kept(k)' <=> Kept(k))
    BY <1>2, <1>3 DEF Held, Kept
  <1>7. CASE Root(g) # t
    <2>1. PICK k : k = Root(g)
      OBVIOUS
    <2>2. k # 0 /\ (k # Away => k \in 0 .. MaxGen) /\ Root(g)' = k
      BY <1>3, <2>1, RootFacts, StoreAssumption DEF Away, Root
    <2>3. g # t
      <3>1. t # 0 => inside[t] = 0
        BY <1>2, KeptFate
      <3> QED  BY <1>7, <3>1, RootFacts
    <2>4. SameFor(g)
      BY <1>5, <1>6, <1>7, <2>1, <2>2, <2>3, RootFacts, StaysSame
    <2> QED  BY <2>4 DEF AllowedFor
  <1>8. CASE Root(g) = t
    <2>1. t # 0 /\ Root(g)' = t
      BY <1>3, <1>8, RootFacts, StoreAssumption DEF Root, Away
    <2>2. /\ t \in 1 .. MaxGen /\ t # Away /\ fate[t].st \in {"released", "expired"}
          /\ Kept(t) /\ ~Held(t)
          /\ \A m \in Names \ {n} : trash[m] # NoDir => trash[m].tok # t
      BY <1>2, <2>1, KeptFate
    <2>3. Held(t)' = FALSE /\ Kept(t)' = FALSE
      BY <1>3, <2>1, <2>2 DEF Held, Kept
    <2>4. /\ fate[g].st \in {"live", "released", "expired"}
          /\ fate'[g].st \in {"live", "purged"}
      BY <1>5, <1>8, <2>1, <2>2, RootFacts
    <2>5. Whereabouts(g) = "kept" /\ Whereabouts(g)' = "dropped"
      BY <1>8, <2>1, <2>2, <2>3, <2>4 DEF Whereabouts
    <2>6. g \in Asked'
      BY <1>5, <2>1, <2>2 DEF Asked
    <2> QED  BY <2>5, <2>6 DEF AllowedFor, DropFor
  <1> QED  BY <1>7, <1>8

\* restorenosub: the data that is put back is held again; the workspace it replaces
\* was empty, nothing was restored into it, and its user asked for that.
LEMMA ReplaceAllowed ==
    ASSUME FullSafe, NEW i \in Ids, NEW n \in Names, dirs[i] # NoDir, trash[n] # NoDir,
           fate[dirs[i].tok].st = "live", \A x \in 1 .. MaxGen : inside[x] # dirs[i].tok,
           ReplacesData(i, n), UNCHANGED inside, NEW g \in 1 .. MaxGen
    PROVE  AllowedFor(g)
  <1>1. PICK t, old : t = trash[n].tok /\ old = dirs[i].tok
    OBVIOUS
  <1>2. /\ old \in 1 .. MaxGen /\ old \in 0 .. MaxGen /\ old # Away /\ old # 0 /\ inside[old] = 0
        /\ Held(old) /\ ~Kept(old) /\ \A j \in Ids \ {i} : dirs[j] # NoDir => dirs[j].tok # old
    BY <1>1, HeldFacts, RootFacts
  <1>3. t \in 0 .. MaxGen /\ t # old /\ fate \in [0 .. MaxGen -> Fate] /\ trash[n] \in Dir
    BY <1>1, TokenTypes DEF FullSafe, Safe, TypeOK, StoreTypeOK, Tokens
  <1>4. /\ \A m \in Names \ {n} : trash'[m] = trash[m]
        /\ trash'[n] = NoDir
        /\ \A j \in Ids \ {i} : dirs'[j] = dirs[j]
        /\ dirs'[i] = [trash[n] EXCEPT !.tok = IF t = 0 THEN old ELSE t]
    BY <1>1, <1>3 DEF ReplacesData, FullSafe, Safe, TypeOK, StoreTypeOK
  <1>5. dirs'[i] # NoDir /\ dirs'[i].tok = IF t = 0 THEN old ELSE t
    <2>1. dirs'[i] \in Dir
      BY <1>2, <1>3, <1>4 DEF Dir
    <2> QED  BY <1>3, <1>4, <2>1, StoreAssumption DEF Dir
  <1>6. /\ \A k \in 0 .. MaxGen : k # t /\ k # old => fate'[k] = fate[k]
        /\ t = 0 => fate' = fate
        /\ t # 0 => fate'[t].st = "live" /\ fate'[old].st = "purged"
    BY <1>1, <1>2, <1>3 DEF ReplacesData, Fate
  <1>7. \A k : k # t /\ k # old => (Held(k)' <=> Held(k)) /\ (Kept(k)' <=> Kept(k))
    BY ZenonT(40), <1>1, <1>4, <1>5 DEF Held, Kept
  <1>8. PICK k : k = Root(g)
    OBVIOUS
  <1>9. k # 0 /\ (k # Away => k \in 0 .. MaxGen) /\ Root(g)' = k
    BY <1>8, RootFacts, StoreAssumption DEF Away, Root
  <1>10. k = old => g = old
    BY <1>1, <1>8, RootFacts
  <1>11. t # 0 => /\ t \in 1 .. MaxGen /\ t # Away /\ fate[t].st \in {"released", "expired"}
                  /\ inside[t] = 0 /\ Kept(t) /\ ~Held(t)
    BY <1>1, KeptFate
  <1>12. CASE t = 0
    <2>1. (Held(old)' <=> Held(old)) /\ (Kept(old)' <=> Kept(old))
      <3>1. Held(old)' = TRUE
        BY <1>5, <1>12 DEF Held
      <3>2. Kept(old)' = FALSE
        BY <1>2, <1>4 DEF Kept
      <3> QED  BY <1>2, <3>1, <3>2
    <2>2. SameFor(g)
      BY <1>6, <1>7, <1>8, <1>9, <1>12, <2>1, StaysSame
    <2> QED  BY <2>2 DEF AllowedFor
  <1>13. CASE t # 0 /\ k = old
    <2>1. Held(old)' = FALSE /\ Kept(old)' = FALSE
      BY ZenonT(40), <1>2, <1>3, <1>4, <1>5, <1>13 DEF Held, Kept
    <2>2. g = old /\ fate[g].st = "live" /\ fate'[g].st = "purged"
      BY <1>1, <1>6, <1>10, <1>13
    <2>3. Whereabouts(g) = "held" /\ Whereabouts(g)' = "dropped"
      BY <1>2, <1>8, <1>9, <1>13, <2>1, <2>2 DEF Whereabouts
    <2>4. g \in Asked'
      BY <1>2, <1>9, <1>13, <2>2 DEF Asked
    <2> QED  BY <2>3, <2>4 DEF AllowedFor, DropFor
  <1>14. CASE t # 0 /\ k = t
    <2>1. Held(t)' = TRUE
      BY <1>5, <1>14 DEF Held
    <2>2. fate[g].st \in {"live", "released", "expired"}
      BY <1>8, <1>11, <1>14, RootFacts
    <2>3. fate'[g].st = "live"
      <3>1. g # old
        BY <1>2, <1>3, <1>8, <1>14, RootFacts
      <3>2. g # t => fate[g].st = "live"
        BY <1>8, <1>14, RootFacts
      <3> QED  BY <1>6, <1>14, <3>1, <3>2, RootFacts
    <2>4. Whereabouts(g) = "kept"
      BY <1>8, <1>11, <1>14, <2>2 DEF Whereabouts
    <2>5. Whereabouts(g)' = "held" /\ DueDate(g)' = 0
      BY <1>6, <1>9, <1>11, <1>14, <2>1, <2>3 DEF Whereabouts, DueDate
    <2> QED  BY <2>4, <2>5 DEF AllowedFor, HoldFor
  <1>15. CASE t # 0 /\ k # t /\ k # old
    <2>1. g # t /\ g # old
      BY <1>2, <1>8, <1>11, <1>15, RootFacts
    <2>2. SameFor(g)
      BY <1>6, <1>7, <1>8, <1>9, <1>15, <2>1, RootFacts, StaysSame
    <2> QED  BY <2>2 DEF AllowedFor
  <1> QED  BY <1>12, <1>13, <1>14, <1>15

\* Every step of ws_restore is one that WsRetention allows.
LEMMA RestoreStepAllowed ==
    ASSUME FullSafe, RestoreStep
    PROVE  Retention!Next
  <1>1. PICK r \in Restorers :
            /\ Frame(r)
            /\ \/ \E n \in Names, tool \in Restores : RestoreFind(r, n, tool)
               \/ \E i \in Ids \cup Elsewhere : RestoreTarget(r, i)
               \/ RestoreNoTarget(r) \/ RestoreEnd(r) \/ RestoreCrash(r)
               \/ \E ok \in BOOLEAN : MoveInto(r, ok) \/ MoveAway(r, ok)
               \/ \E empty, group \in BOOLEAN : Replace(r, empty, group)
               \/ CarryGroup(r)
               \/ \E finished \in BOOLEAN : Wipe(r, finished)
               \/ RestoreForget(r)
    BY RestoreFrame DEF FullSafe
  <1>2. now' = now
    BY <1>1 DEF RestoreFind, RestoreTarget, RestoreNoTarget, RestoreEnd, RestoreCrash,
                MoveInto, MoveAway, Replace, CarryGroup, Wipe, RestoreForget, storeVars
  <1> SUFFICES ASSUME NEW g \in 1 .. MaxGen PROVE AllowedFor(g)
    BY <1>2, AllowedNext
  <1> DEFINE n == rst[r].name
             d == rst[r].path
  <1>3. ASSUME UNCHANGED <<dirs, trash, gen, fate, inside>>
        PROVE  AllowedFor(g)
    BY <1>3, QuietSame DEF AllowedFor, Quiet
  <1>4. CASE \/ \E m \in Names, tool \in Restores : RestoreFind(r, m, tool)
             \/ \E i \in Ids \cup Elsewhere : RestoreTarget(r, i)
             \/ RestoreNoTarget(r) \/ RestoreEnd(r) \/ RestoreCrash(r)
             \/ CarryGroup(r) \/ RestoreForget(r)
    BY <1>3, <1>4 DEF RestoreFind, RestoreTarget, RestoreNoTarget, RestoreEnd, RestoreCrash,
                      CarryGroup, RestoreForget, storeVars
  <1>5. rst[r].pc # "idle" => n \in Names
    BY DEF FullSafe, RstOK, Knows
  <1>6. ASSUME NEW ok \in BOOLEAN, MoveInto(r, ok)
        PROVE  AllowedFor(g)
    <2>1. d \in Ids /\ n \in Names /\ dirs' = dirs
      BY <1>5, <1>6 DEF MoveInto, FullSafe, RstOK, Knows
    <2>2. CASE trash[n] # NoDir /\ dirs[d] # NoDir /\ ok
      <3>1. PICK h : h = dirs[d].tok
        OBVIOUS
      <3>2. Root(h) = h /\ h \in 0 .. Away
        BY <2>1, <2>2, <3>1, HeldFacts, StoreAssumption DEF Root, Away
      <3>3. /\ trash' = [trash EXCEPT ![n] = NoDir]
            /\ PutInside(trash[n].tok, h)
            /\ GiveBack(trash[n].tok)
        BY <1>6, <2>2, <3>1, <3>2 DEF MoveInto
      <3> QED  BY <2>1, <2>2, <3>1, <3>2, <3>3, TakenAllowed
    <2>3. CASE ~(trash[n] # NoDir /\ dirs[d] # NoDir /\ ok)
      BY <1>3, <1>6, <2>3 DEF MoveInto
    <2> QED  BY <2>2, <2>3
  <1>7. ASSUME NEW ok \in BOOLEAN, MoveAway(r, ok)
        PROVE  AllowedFor(g)
    <2>1. PICK h : h = Away
      OBVIOUS
    <2>2. h \in 0 .. Away /\ n \in Names
      BY <1>5, <1>7, <2>1, StoreAssumption DEF Away, MoveAway
    <2>3. CASE trash[n] # NoDir /\ ok /\ rst[r].tool = "restore"
      BY <1>7, <2>1, <2>2, <2>3, TakenAllowed DEF MoveAway
    <2>4. CASE ~(trash[n] # NoDir /\ ok /\ rst[r].tool = "restore")
      BY <1>3, <1>7, <2>4 DEF MoveAway
    <2> QED  BY <2>3, <2>4
  <1>8. ASSUME NEW empty \in BOOLEAN, NEW group \in BOOLEAN, Replace(r, empty, group)
        PROVE  AllowedFor(g)
    <2>1. n \in Names /\ d \in Ids /\ d = rst[r].to /\ live[d] # NoEntry /\ inside' = inside
      BY <1>5, <1>8 DEF Replace, FullSafe, RstOK, Knows, Replacing
    <2>2. dirs[d] # NoDir /\ fate[dirs[d].tok].st = "live"
      BY <2>1 DEF FullSafe, Safe, LiveOK
    <2>3. dirs[d].tok # 0
      BY <2>1, <2>2, HeldFacts
    <2>4. CASE trash[n] # NoDir /\ empty
      <3>1. ReplacesData(d, n)
        BY <1>8, <2>2, <2>3, <2>4 DEF Replace, ReplacesData
      <3>2. \A x \in 1 .. MaxGen : inside[x] # dirs[d].tok
        BY <1>8, <2>4 DEF Replace
      <3> QED  BY <2>1, <2>2, <2>4, <3>1, <3>2, ReplaceAllowed
    <2>5. CASE ~(trash[n] # NoDir /\ empty)
      BY <1>3, <1>8, <2>2, <2>5 DEF Replace
    <2> QED  BY <2>4, <2>5
  <1> QED  BY <1>1, <1>4, <1>6, <1>7, <1>8, WipeAllowed

-----------------------------------------------------------------------------

\* Under FullConfig and without edits, data is dropped only after the date its user
\* was given, or when he asked for it, and dropped data never comes back, for every
\* order of the file operations of ws_allocate, ws_extend, ws_release, ws_expirer and
\* ws_restore.
THEOREM DataIsKept == FullConfig /\ Edits = {} /\ FullSpec => KeepsData
  <1>1. FullInit => Retention!Init
    BY InitRetention
  <1>2. /\ FullSafe /\ ed = EdIdle /\ (FullSafe /\ ed = EdIdle)' /\ [FullNext]_fullVars
        => [Retention!Next]_(Retention!vars)
    <2> SUFFICES ASSUME FullSafe, ed = EdIdle, FullSafe', ed' = EdIdle, [FullNext]_fullVars
                 PROVE  Retention!Next
      OBVIOUS
    <2>1. CASE UNCHANGED fullVars
      <3>1. [Next]_vars /\ UNCHANGED inside
        BY <2>1 DEF fullVars
      <3> QED  BY <3>1, OldStepAllowed
    <2>2. CASE Next /\ UNCHANGED <<rst, inside, ed>>
      BY <2>2, OldStepAllowed
    <2>3. CASE RestoreStep
      BY <2>3, RestoreStepAllowed
    <2>4. CASE EditStep
      <3>1. ed.pc = "idle" /\ ed.todo = {}
        BY DEF EdIdle
      <3>2. PICK edit, deleted, match : EditCollect(edit, deleted, match)
        BY <2>4, <3>1 DEF EditStep, EditChoose, EditProbe, EditDbMove, EditDirMove,
                          EditRollback, EditEnd, EditCrash
      <3>3. ed'.pc = "next"
        BY <3>2 DEF EditCollect, EdIdle
      <3> QED  BY <3>3 DEF EdIdle
    <2> QED  BY <2>1, <2>2, <2>3, <2>4 DEF FullNext, Next
  <1> QED  BY <1>1, <1>2, FullSafeAlways, PTL DEF FullSpec, KeepsData, Retention!Spec
=============================================================================
