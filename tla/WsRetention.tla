----------------------------- MODULE WsRetention -----------------------------
(***************************************************************************)
(* What an installation promises about data, without files, entries, names *)
(* or tools: data is in the hands of its user, or it is kept for him until *)
(* a date he was given, and only data whose date is over, or whose user    *)
(* asked for it, is dropped.  Dropped data never comes back.               *)
(***************************************************************************)
EXTENDS Naturals

CONSTANT Data

VARIABLES
    clock,
    state,   \* [Data -> "none", "held", "kept" or "dropped"]
    due,     \* [Data -> until when data that left its user's hands is kept]
    asked    \* the data whose deletion its user asked for just now

vars == <<clock, state, due, asked>>

Init ==
    /\ clock = 1
    /\ state = [g \in Data |-> "none"]
    /\ due = [g \in Data |-> 0]
    /\ asked = {}

\* Data is created, or comes back, without a date.
Hold(g) ==
    /\ state[g] \in {"none", "held", "kept"}
    /\ state'[g] = "held"
    /\ due'[g] = 0

\* A date is given before data leaves its user's hands; data that comes back
\* into a workspace that is about to leave has its date.
Announce(g) ==
    /\ state[g] \in {"held", "kept"}
    /\ state'[g] = "held"
    /\ due'[g] > 0

Keep(g) ==
    /\ state[g] = "held"
    /\ state'[g] = "kept"
    /\ due'[g] = due[g]
    /\ due[g] > 0

\* The administrator moves the date of data that is kept.
MoveDate(g) ==
    /\ state[g] = "kept"
    /\ state'[g] = "kept"
    /\ due'[g] > 0

Drop(g) ==
    /\ state[g] \in {"held", "kept"}
    /\ state'[g] = "dropped"
    /\ g \in asked' \/ (due[g] > 0 /\ clock >= due[g])

Same(g) == state'[g] = state[g] /\ due'[g] = due[g]

Next ==
    /\ clock' \in {clock, clock + 1}
    /\ \A g \in Data : Same(g) \/ Hold(g) \/ Announce(g) \/ Keep(g) \/ MoveDate(g)
                          \/ Drop(g)

Spec == Init /\ [][Next]_vars
=============================================================================
