--------------------------- MODULE WsFullInvariant ---------------------------
(***************************************************************************)
(* Why ws_restore may run beside the other tools: the conditions an        *)
(* installation has to meet (FullConfig), and the invariant that, under    *)
(* them, every file operation of every tool and of ws_restore preserves.   *)
(* It strengthens Safe by what ws_restore relies on, and by where restored *)
(* data is.  The properties of WsFull follow from it.                      *)
(***************************************************************************)
EXTENDS WsInvariant, WsFull

\* ws_restore into a subdirectory may run beside every tool and beside itself.  With
\* --delete-data it may run beside creations, extensions, the stray scan and
\* itself; with restorenosub it runs alone, as ws_editdb does.
FullConfig ==
    /\ SafeConfig
    /\ Joint \subseteq {{"restore", t} : t \in Tools \cup {"restore"}}
                \cup {{"wipe", t} : t \in {"allocate", "extend", "stray", "wipe"}}

\* A deleted directory has data of its own, unless it is remnants.
TrashTokens ==
    \A m, n \in Names :
        m # n /\ trash[m] # NoDir /\ trash[n] # NoDir /\ trash[m].tok # 0
            => trash[m].tok # trash[n].tok

\* Data is where its directory is, or inside a directory whose data was not
\* restored itself; restored data is in its user's hands again.
Nested ==
    /\ \A i \in Ids : dirs[i] # NoDir => inside[dirs[i].tok] = 0
    /\ \A n \in Names : trash[n] # NoDir => inside[trash[n].tok] = 0
    /\ \A g \in 0 .. MaxGen : inside[g] # 0 =>
        /\ g \in 1 .. gen
        /\ fate[g].st = "live"
        /\ inside[g] # Away => inside[g] \in 1 .. gen /\ inside[inside[g]] = 0
    /\ \A g \in 1 .. MaxGen : g > gen => fate[g].st = "none"

\* What a ws_restore relies on that is about to remove the entry of what it moved
\* or deleted: nobody is using the name, or is going to.
Forgetting(r) ==
    LET n == rst[r].name IN
    rst[r].pc \in {"carry", "forget"} =>
        /\ trash[n] = NoDir
        /\ \A p \in Procs : rel[p].pc \in {"dbmove", "dirmove", "purge", "forget"} =>
                <<rel[p].id, rel[p].ts>> # n
        /\ xpc \in {"write", "dbmove", "dirmove"} => xcur # n
        /\ rst[r].tool = "restore" /\ gone[n] = NoEntry =>
            /\ n[2] < now
            /\ \A p \in Procs : rel[p].pc \in {"mark", "probe"} /\ rel[p].id = n[1] =>
                    n[2] < rel[p].ts

\* What a ws_restore onto the directory of a workspace relies on.
Replacing(r) ==
    rst[r].tool = "replace" /\ rst[r].pc \in {"move", "carry"} /\ rst[r].to \in Ids =>
        /\ live[rst[r].to] # NoEntry
        /\ live[rst[r].to] = rst[r].tent
        /\ rst[r].path = rst[r].to

\* What the program counter of a ws_restore says about what it has read.
Knows(r) ==
    /\ rst[r].pc # "idle" => rst[r].name \in Names
    /\ rst[r].pc = "move" /\ rst[r].to \in Ids => rst[r].path \in Ids
    /\ rst[r].pc = "carry" => rst[r].tool = "replace" /\ rst[r].to \in Ids

RstOK == \A r \in Restorers : Knows(r) /\ Forgetting(r) /\ Replacing(r)

\* Two ws_restore do not both move the same directory.
Apart ==
    \A r, s \in Restorers :
        /\ r # s
        /\ rst[r].pc = "forget" /\ rst[r].tool = "restore"
        /\ rst[s].pc = "forget" /\ rst[s].tool = "restore"
        => rst[r].name # rst[s].name

\* The inductive invariant of the system without ws_editdb: nothing that a tool or
\* ws_restore relies on is taken away by another one.
FullSafe ==
    /\ FullConfig
    /\ Safe
    /\ RestoreTypeOK
    /\ Admitted
    /\ TrashTokens
    /\ Nested
    /\ RstOK
    /\ Apart

\* Every run of ws_editdb is counted.
EditsCounted ==
    /\ DOMAIN ed = DOMAIN EdIdle
    /\ ed.runs \in Nat
    /\ ed.runs = 0 => ed = EdIdle

\* It holds until an administrator begins the first edit.
SafeUntilEdited == ed = EdIdle => FullSafe
=============================================================================
