-------------------------- MODULE WsStatInvariant --------------------------
(***************************************************************************)
(* Why the queues of ws_stat hand out every directory once, as long as     *)
(* they are used calmly: no thief takes more than one path at a time, and  *)
(* no queue is filled once round, so that the slot of a path a thief has   *)
(* claimed and not yet moved is not written again.  Without the first      *)
(* condition NoOverlap does not hold (run stat_batch); without the second  *)
(* it does not hold either.                                                *)
(***************************************************************************)
EXTENDS WsStat

Calm == \A i \in Workers : w[i].n =< 1 /\ bottom[i] < Capacity

Slots == 0 .. (Capacity - 1)

\* pop() has lowered bottom, and does not know yet whether the path is its own.
Reserved(i) == w[i].pc \in {"poptop", "popundo", "popcas", "poplast"}

\* The end of queue i: the path of a pop() that is not decided still is in it.
End(i) == IF Reserved(i) THEN bottom[i] + 1 ELSE bottom[i]

Queued(i, k) == k \in top[i] .. (End(i) - 1)

\* Worker j alone may move the path in slot k of queue i.
Claims(j, i, k) ==
    \/ w[j].pc \in {"poplast", "poptake"} /\ i = j /\ k = w[j].b
    \/ w[j].pc = "stealmove" /\ i = Victim(j) /\ k = w[j].t

\* There is a path in slot k of queue i.
Full(i, k) == Queued(i, k) \/ \E j \in Workers : Claims(j, i, k)

Working(i) == w[i].pc \in {"read", "push", "put", "publish"}

\* The directories worker i has in its hands, counted and in no queue.
Held(i) == {d \in Dirs : \/ Working(i) /\ d = w[i].work
                         \/ w[i].pc \in {"put", "publish"} /\ d = w[i].item}

\* The directories worker i still has to push; they are not counted yet.
Found(i) == IF Working(i) /\ w[i].pc # "read" THEN ToSet(w[i].todo) ELSE {}

\* What a worker knows of the queue it pops from.
Popping(i) ==
    LET b == w[i].b IN
    /\ Reserved(i) => bottom[i] = b /\ b < Capacity
    /\ w[i].pc = "poptop" => top[i] =< b + 1
    /\ w[i].pc = "popcas" => w[i].t = b /\ b =< top[i] /\ top[i] =< b + 1 /\ b >= 0
    /\ w[i].pc \in {"popundo", "poplast"} => top[i] = b + 1
    /\ w[i].pc \in {"poplast", "poptake"} => b >= 0 /\ b < Capacity
    /\ w[i].pc = "poptake" => \/ bottom[i] = b /\ top[i] =< b
                              \/ bottom[i] = b + 1 /\ top[i] = b + 1
    /\ ~Reserved(i) => top[i] =< bottom[i]

\* What a thief knows of the queue it steals from.  If the path it wants is still the
\* first when it comes to claim it, then the owner has not taken it: the owner is at
\* most about to compare top as well.
Stealing(i) ==
    LET v == Victim(i) IN
    /\ w[i].pc = "steal" => w[i].off \in 1 .. N
    /\ w[i].pc \in {"stealbottom", "stealcas", "stealmove"} =>
            w[i].off \in 1 .. (N - 1) /\ w[i].t >= 0
    /\ w[i].pc \in {"stealbottom", "stealcas"} => w[i].t =< top[v]
    /\ w[i].pc = "stealcas" =>
        /\ w[i].n >= 1
        /\ w[i].t = top[v] =>
                \/ w[i].t < bottom[v]
                \/ w[i].t = bottom[v] /\ w[v].pc \in {"poptop", "popcas"}
    /\ w[i].pc = "stealmove" => w[i].n >= 1 /\ w[i].t < top[v] /\ w[i].t < Capacity

\* No path is claimed twice, or claimed and still in a queue.
Sole ==
    \A j, i \in Workers, k \in Slots :
        Claims(j, i, k) =>
            /\ ~Queued(i, k)
            /\ \A h \in Workers \ {j} : ~Claims(h, i, k)

\* What a worker has in its hands: a stolen path is read before anything is pushed,
\* and what is pushed was found in the directory that was read.
Hands(i) ==
    /\ w[i].pc # "push" => w[i].batch = <<>>
    /\ w[i].batch # <<>> => w[i].todo = <<>>
    /\ Working(i) => w[i].work \in Dirs
    /\ w[i].pc \in {"put", "publish"} => w[i].item \in Dirs \ {w[i].work}
    /\ w[i].pc = "publish" => slot[i][bottom[i]] = w[i].item
    /\ Found(i) # {} => Found(i) \subseteq Children[w[i].work] /\ IsInjective(w[i].todo)

\* The paths in the queues and the ones in the workers' hands are all different, and
\* are directories that are open: counted and not done.
Placed(open) ==
    /\ \A i \in Workers, k \in Slots : Full(i, k) =>
        /\ slot[i][k] \in open
        /\ visits[slot[i][k]] = 0
        /\ \A j \in Workers : slot[i][k] \notin Held(j)
        /\ \A j \in Workers, l \in Slots :
                Full(j, l) /\ slot[i][k] = slot[j][l] => i = j /\ k = l
    /\ \A i \in Workers :
        /\ Held(i) \subseteq open
        /\ \A c \in Found(i) : c \notin open /\ visits[c] = 0
        /\ w[i].pc \in {"put", "publish"} => visits[w[i].item] = 0
        /\ Working(i) => visits[w[i].work] =
                IF w[i].pc = "read" \/ w[i].batch # <<>> THEN 0 ELSE 1
        /\ \A j \in Workers \ {i} : Held(i) \cap Held(j) = {}

\* How far the tree was walked: a directory is open or visited once all above it were
\* visited; what was visited is done when its children are open or visited.
Walked(open) ==
    /\ \A d \in Dirs : visits[d] \in {0, 1}
    /\ \A d \in TopDirs \ main.left : d \in open \/ visits[d] = 1
    /\ \A d \in main.left : d \notin open /\ visits[d] = 0
    /\ \A d \in Dirs : \A c \in Children[d] :
        /\ visits[d] = 0 => c \notin open /\ visits[c] = 0
        /\ visits[d] = 1 =>
            \/ c \in open
            \/ visits[c] = 1
            \/ \E i \in Workers : w[i].work = d /\ c \in Found(i)

\* Nobody starts before all is distributed, and nobody stops while a directory is open.
Phases ==
    /\ main.left # {} => \A i \in Workers : w[i].pc = "start"
    /\ (\E i \in Workers : w[i].pc = "done") => main.left = {} /\ counter = 0

\* The counter is the number of open directories, which are all accounted for.
Accounts(open) ==
    /\ counter = Cardinality(open)
    /\ Placed(open)
    /\ Walked(open)

\* The inductive invariant of calm runs.
StatSafe ==
    /\ TypeOK
    /\ \A i \in Workers : Popping(i) /\ Stealing(i) /\ Hands(i)
    /\ Sole
    /\ Phases
    /\ \E open \in SUBSET Dirs : Accounts(open)

\* The directories that were put into a queue so far.
Pushed == {d \in Dirs : \/ visits[d] = 1
                        \/ \E q \in Workers, k \in Slots : Full(q, k) /\ slot[q][k] = d
                        \/ \E i \in Workers : Working(i) /\ w[i].work = d}

\* When every run is calm: a thief takes one path, and all directories fit into a queue.
Roomy ==
    /\ Cardinality(Dirs) < Capacity
    /\ MaxSteal = 1 \/ Cardinality(Dirs) =< 3

\* Why it is: nothing is put into a queue twice.
Few == \A i \in Workers : w[i].n =< 1 /\ End(i) =< Cardinality(Pushed)
=============================================================================
