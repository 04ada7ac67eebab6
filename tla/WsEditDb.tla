------------------------------- MODULE WsEditDb -------------------------------
(***************************************************************************)
(* ws_editdb: an administrator changes the expiration, or the time of      *)
(* expiry, of all entries that match a pattern.  The entries are read      *)
(* first, then changed and written back one after the other.  A deleted    *)
(* entry (-e) whose retention boundary moves is renamed, with its          *)
(* directory, so that the name tells the boundary: the entry first, the    *)
(* directory second, and the entry back again if that fails.               *)
(***************************************************************************)
EXTENDS WsStore

CONSTANTS
    Edits,     \* changes [op, val] an administrator may ask for, one per run
    MaxEdits   \* bound: number of runs of ws_editdb

EditOps == {"addTime", "ensureUntil", "expireBy", "addTimeExpired"}

ASSUME EditAssumption ==
    /\ Edits \subseteq [op : EditOps, val : Int]
    /\ MaxEdits \in Nat

VARIABLE ed   \* the state of the ws_editdb run

\* `todo' holds the entries as they were read: pairs of a name and an entry, the
\* name of a live entry of workspace i is <<i, 0>>; `cur' and `ent' are the entry
\* at work, `to' its new name, `wsdir' whether its directory was seen, `reserved'
\* the names given out in this run, `runs' counts the runs.
EdIdle == [pc |-> "idle", expired |-> FALSE, edit |-> NoEntry, todo |-> {},
           cur |-> <<NoEntry, 0>>, ent |-> NoEntry, to |-> <<NoEntry, 0>>,
           wsdir |-> FALSE, reserved |-> {}, runs |-> 0]

EdRest == [EdIdle EXCEPT !.runs = ed.runs]

EditTypeOK ==
    /\ DOMAIN ed = DOMAIN EdIdle
    /\ ed.pc \in {"idle", "next", "choose", "probe", "dbmove", "dirmove", "rollback"}
    /\ ed.todo \subseteq Names \X Entry
    /\ ed.pc \notin {"idle", "next"} => ed.cur \in Names /\ ed.ent \in Entry
    /\ ed.pc \in {"probe", "dbmove", "dirmove", "rollback"} => ed.to \in Names
    /\ ed.reserved \subseteq Names
    /\ ed.runs \in 0 .. MaxEdits

EditInit == ed = EdIdle

-----------------------------------------------------------------------------
(* What an edit changes.                                                   *)

Later(a, b) == IF a >= b THEN a ELSE b

\* boundary_of(): from when on keeptime counts, as ws_expirer computes it; for
\* entries of the old version the timestamp of the name stands for `expired'.
Boundary(e, ts) == Later(e.exp, IF e.expired # 0 THEN e.expired ELSE ts)

\* The new expiration, the old one if the edit does not touch it.
NewExpiration(e, edit) ==
    CASE edit.op = "addTime" -> e.exp + edit.val
      [] edit.op = "ensureUntil" /\ e.exp < edit.val -> edit.val
      [] edit.op = "expireBy" /\ e.exp > edit.val -> edit.val
      [] OTHER -> e.exp

\* The new time of expiry; a deleted entry of the old version has none and
\* starts from its boundary.
NewExpired(e, ts, edit, deleted) ==
    IF edit.op # "addTimeExpired" THEN e.expired
    ELSE (IF deleted /\ e.expired = 0 THEN Boundary(e, ts) ELSE e.expired) + edit.val

Edited(e, ts, edit, deleted) ==
    [e EXCEPT !.exp = NewExpiration(e, edit),
              !.expired = NewExpired(e, ts, edit, deleted)]

\* The edit asks for a change of this entry: ensureUntil and expireBy leave
\* entries alone that are fine already.
Touches(e, edit) ==
    \/ edit.op \in {"addTime", "addTimeExpired"}
    \/ NewExpiration(e, edit) # e.exp

\* Bound of the model: times stay within the clock.
WithinClock(e) == e.exp \in 0 .. MaxTime /\ e.expired \in 0 .. MaxTime

-----------------------------------------------------------------------------

\* The run collects the entries of the live (or, with -e, the deleted) area that
\* match; `match' stands for the pattern.
EditCollect(edit, deleted, match) ==
    LET found == IF deleted
                 THEN {<<n, gone[n]>> : n \in {m \in match : gone[m] # NoEntry}}
                 ELSE {<<n, live[n[1]]>> :
                        n \in {m \in match : m[2] = 0 /\ live[m[1]] # NoEntry}} IN
    /\ ed.pc = "idle"
    /\ ed.runs < MaxEdits
    /\ found # {}
    /\ \A x \in found : WithinClock(Edited(x[2], x[1][2], edit, deleted))
    /\ ed' = [EdIdle EXCEPT !.pc = "next", !.expired = deleted, !.edit = edit,
                            !.todo = found, !.runs = ed.runs + 1]
    /\ UNCHANGED storeVars

\* An edited deleted entry is renamed if its boundary moved and it was not
\* released by its user.
Renames(e, new, ts) == new.released = 0 /\ Boundary(new, ts) # Boundary(e, ts)

\* The data the entry n speaks of has a new retention boundary.
Promise(n, new) ==
    fate' = IF trash[n] = NoDir \/ trash[n].tok = 0 \/ new.released > 0 THEN fate
            ELSE [fate EXCEPT ![trash[n].tok].at = Boundary(new, n[2])]

\* Mutant of EditWrite: a deleted entry is written to the live area.
EditWriteLive(x) ==
    LET n == x[1]
        new == Edited(x[2], n[2], ed.edit, ed.expired) IN
    /\ ed.pc = "next"
    /\ x \in ed.todo
    /\ Touches(x[2], ed.edit)
    /\ WriteEntry(n[1], new)
    /\ ed' = [ed EXCEPT !.todo = @ \ {x}]
    /\ UNCHANGED <<now, gone, fate, dirs, trash, gen>>

\* setExpiration() or setExpired(), then writeEntry() of the entry that was read
\* to the file it was read from: the file is created if it is gone by now.
EditWrite(x) ==
    LET n == x[1]
        e == x[2]
        new == Edited(e, n[2], ed.edit, ed.expired) IN
    /\ ed.pc = "next"
    /\ x \in ed.todo
    /\ Touches(e, ed.edit)
    /\ IF ed.expired
       THEN /\ gone' = [gone EXCEPT ![n] = new]
            /\ Promise(n, new)
            /\ UNCHANGED live
       ELSE /\ WriteEntry(n[1], new)
            /\ UNCHANGED <<gone, fate>>
    /\ ed' = IF ed.expired /\ Renames(e, new, n[2])
             THEN [ed EXCEPT !.pc = "choose", !.todo = @ \ {x}, !.cur = n, !.ent = new]
             ELSE [ed EXCEPT !.todo = @ \ {x}]
    /\ UNCHANGED <<now, dirs, trash, gen>>

EditPass(x) ==
    /\ ed.pc = "next"
    /\ x \in ed.todo
    /\ ~Touches(x[2], ed.edit)
    /\ ed' = [ed EXCEPT !.todo = @ \ {x}]
    /\ UNCHANGED storeVars

\* The entry is done, whatever became of it.
EditDone == [ed EXCEPT !.pc = "next", !.cur = <<NoEntry, 0>>, !.ent = NoEntry,
                       !.to = <<NoEntry, 0>>, !.wsdir = FALSE]

\* Mutant of NameTaken: only the directories are looked at.
NameTakenDirs(n) == trash[n] # NoDir

\* nameTaken(): the name of a deleted entry or of a deleted directory.
NameTaken(n) == gone[n] # NoEntry \/ trash[n] # NoDir

\* Mutant of Candidates: the search begins one second late.
CandidatesLate(n, b) ==
    {t \in (b + 1) .. (b + MaxTries) :
        t = n[2] \/ (<<n[1], t>> \notin ed.reserved /\ ~NameTaken(<<n[1], t>>))}

\* The timestamps expiredIdFor() accepts: its own, or one that is not reserved
\* and not taken.
Candidates(n, b) ==
    {t \in b .. (b + MaxTries - 1) :
        \/ t = n[2]
        \/ (<<n[1], t>> \notin ed.reserved /\ ~NameTaken(<<n[1], t>>))}

\* Mutant of EditChoose: the new name is not kept.
EditChooseForgets ==
    LET n == ed.cur
        c == Candidates(n, Boundary(ed.ent, n[2])) IN
    /\ ed.pc = "choose"
    /\ ed' = IF c = {} THEN EditDone ELSE [ed EXCEPT !.pc = "probe"]
    /\ UNCHANGED storeVars

\* expiredIdFor(): the first candidate from the boundary on.  No candidate, or a
\* boundary of 0, is an error: the entry keeps its name.
EditChoose ==
    LET n == ed.cur
        b == Boundary(ed.ent, n[2])
        c == Candidates(n, b) IN
    /\ ed.pc = "choose"
    /\ IF b = 0 \/ c = {} \/ (n[2] \in c /\ \A u \in c : n[2] =< u)
       THEN ed' = EditDone
       ELSE \E t \in c :
            /\ \A u \in c : t =< u
            /\ ed' = [ed EXCEPT !.pc = "probe", !.to = <<n[1], t>>,
                                !.reserved = @ \cup {<<n[1], t>>}]
    /\ UNCHANGED storeVars

\* renameAsExpired() looks again, and whether there is a directory to move.
EditProbe ==
    /\ ed.pc = "probe"
    /\ ed' = IF NameTaken(ed.to) THEN EditDone
             ELSE [ed EXCEPT !.pc = "dbmove", !.wsdir = trash[ed.cur] # NoDir]
    /\ UNCHANGED storeVars

\* The entry first: rename(2) replaces what is there; it fails if the entry is
\* gone.
EditDbMove ==
    /\ ed.pc = "dbmove"
    /\ IF gone[ed.cur] = NoEntry
       THEN ed' = EditDone /\ UNCHANGED gone
       ELSE /\ gone' = [gone EXCEPT ![ed.to] = gone[ed.cur], ![ed.cur] = NoEntry]
            /\ ed' = IF ed.wsdir THEN [ed EXCEPT !.pc = "dirmove"] ELSE EditDone
    /\ UNCHANGED <<now, live, dirs, trash, gen, fate>>

\* Mutant of EditDirMove: no rollback.
EditDirMoveNoRollback(ok) ==
    /\ ed.pc = "dirmove"
    /\ IF trash[ed.cur] # NoDir /\ trash[ed.to] = NoDir /\ ok
       THEN trash' = [trash EXCEPT ![ed.to] = trash[ed.cur], ![ed.cur] = NoDir]
       ELSE UNCHANGED trash
    /\ ed' = EditDone
    /\ UNCHANGED <<now, live, gone, dirs, gen, fate>>

\* The directory second (`ok': rename(2) works).
EditDirMove(ok) ==
    /\ ed.pc = "dirmove"
    /\ IF trash[ed.cur] # NoDir /\ trash[ed.to] = NoDir /\ ok
       THEN /\ trash' = [trash EXCEPT ![ed.to] = trash[ed.cur], ![ed.cur] = NoDir]
            /\ ed' = EditDone
       ELSE /\ ed' = [ed EXCEPT !.pc = "rollback"]
            /\ UNCHANGED trash
    /\ UNCHANGED <<now, live, gone, dirs, gen, fate>>

\* The entry is renamed back; it may be gone by now.
EditRollback ==
    /\ ed.pc = "rollback"
    /\ gone' = IF gone[ed.to] = NoEntry THEN gone
               ELSE [gone EXCEPT ![ed.cur] = gone[ed.to], ![ed.to] = NoEntry]
    /\ ed' = EditDone
    /\ UNCHANGED <<now, live, dirs, trash, gen, fate>>

EditEnd ==
    /\ ed.pc = "next"
    /\ ed.todo = {}
    /\ ed' = EdRest
    /\ UNCHANGED storeVars

\* The process dies between two of its file operations.
EditCrash ==
    /\ ed.pc # "idle"
    /\ ed' = EdRest
    /\ UNCHANGED storeVars
=============================================================================
