------------------------------- MODULE WsStat -------------------------------
(***************************************************************************)
(* stat_workspace() of ws_stat: threads count the directories of one       *)
(* workspace.  Every worker owns a PathWorkStealingQueue; it pushes and     *)
(* pops at the bottom and steals batches from the top of the others'       *)
(* queues.  A counter of unfinished directories tells when to stop.  A     *)
(* step is one access to an atomic or to a slot; memory is sequentially    *)
(* consistent (the fences of pop() and steal() order what has to be).      *)
(***************************************************************************)
EXTENDS Integers, Sequences, SequencesExt

CONSTANTS
    Dirs,       \* the directories below the workspace
    TopDirs,    \* the ones at its top level (collect_level)
    Children,   \* [Dirs -> SUBSET Dirs]
    N,          \* number of workers, 0 .. N-1
    Capacity,   \* slots of a queue (1024)
    MaxSteal,   \* largest batch (16)
    Moved       \* a slot whose path was moved out (an empty path)

Workers == 0 .. (N - 1)

ASSUME StatAssumption ==
    /\ N \in Nat \ {0}
    /\ Capacity \in Nat \ {0}
    /\ MaxSteal \in Nat \ {0}
    /\ TopDirs \subseteq Dirs
    /\ Children \in [Dirs -> SUBSET Dirs]
    /\ Moved \notin Dirs

\* The directories are a tree below the workspace: links are counted, not followed.
ASSUME TreeAssumption ==
    /\ IsFiniteSet(Dirs)
    /\ \A d \in Dirs : Children[d] \cap TopDirs = {}
    /\ \A d, e \in Dirs : d # e => Children[d] \cap Children[e] = {}
    /\ \A S \in SUBSET Dirs :
            TopDirs \subseteq S /\ (\A d \in S : Children[d] \subseteq S) => S = Dirs

VARIABLES
    top, bottom,   \* [Workers -> Int], the two indices of each queue
    slot,          \* [Workers -> [0 .. Capacity-1 -> path]]
    counter,       \* work_counter
    w,             \* [Workers -> local variables of worker_thread()]
    main,          \* the thread that distributes the top level and spawns
    visits         \* history: how often each directory was read

vars == <<top, bottom, slot, counter, w, main, visits>>

Path == Dirs \cup {Moved}

\* pc: see the actions.  b, t, n: the variables of pop() and steal(); off: the
\* victim is worker (i + off) % N; batch: stolen paths; todo: paths to push;
\* work: the directory being read.
Worker == [pc : {"start", "pop", "poptop", "popundo", "popcas", "poplast", "poptake",
                 "steal", "stealbottom", "stealcas", "stealmove", "push", "put",
                 "publish", "read", "done"},
           b : Int, t : Int, n : Nat, off : 0 .. N, batch : Seq(Path),
           todo : Seq(Path), item : Path, work : Path]

WorkerInit == [pc |-> "start", b |-> 0, t |-> 0, n |-> 0, off |-> 0, batch |-> <<>>,
               todo |-> <<>>, item |-> Moved, work |-> Moved]

TypeOK ==
    /\ top \in [Workers -> Nat]
    /\ bottom \in [Workers -> Int]
    /\ slot \in [Workers -> [0 .. (Capacity - 1) -> Path]]
    /\ counter \in Int
    /\ w \in [Workers -> Worker]
    /\ main \in [left : SUBSET TopDirs, next : Nat]
    /\ visits \in [Dirs -> Nat]

Init ==
    /\ top = [i \in Workers |-> 0]
    /\ bottom = [i \in Workers |-> 0]
    /\ slot = [i \in Workers |-> [k \in 0 .. (Capacity - 1) |-> Moved]]
    /\ counter = 0
    /\ w = [i \in Workers |-> WorkerInit]
    /\ main = [left |-> TopDirs, next |-> 0]
    /\ visits = [d \in Dirs |-> 0]

Goto(i, pc) == w' = [w EXCEPT ![i].pc = pc]

-----------------------------------------------------------------------------
(* push()                                                                  *)

\* push() waits while the queue is nearly full; the difference of the indices
\* is cast to an unsigned type, so a negative one is large.
Limit == Capacity - (Capacity \div 10)

HasRoom(i) == bottom[i] - top[i] \in 0 .. (Limit - 1)

\* The distribution of the top level, round robin, before the workers run.
Distribute(d) ==
    LET i == main.next % N IN
    /\ d \in main.left
    /\ HasRoom(i)
    /\ slot' = [slot EXCEPT ![i][bottom[i] % Capacity] = d]
    /\ bottom' = [bottom EXCEPT ![i] = @ + 1]
    /\ main' = [left |-> main.left \ {d}, next |-> main.next + 1]
    /\ counter' = counter + 1
    /\ UNCHANGED <<top, w, visits>>

Spawn(i) ==
    /\ w[i].pc = "start"
    /\ main.left = {}
    /\ Goto(i, "pop")
    /\ UNCHANGED <<top, bottom, slot, counter, main, visits>>

\* A worker pushes its next path, once there is room.  Subdirectories it found
\* are counted first (the rest of a stolen batch is counted already).
PushNext(i) ==
    /\ w[i].pc = "push"
    /\ w[i].todo # <<>>
    /\ counter' = IF w[i].batch = <<>> THEN counter + 1 ELSE counter
    /\ w' = [w EXCEPT ![i].pc = "put", ![i].item = Head(w[i].todo),
                      ![i].todo = Tail(w[i].todo)]
    /\ UNCHANGED <<top, bottom, slot, main, visits>>

PushPut(i) ==
    /\ w[i].pc = "put"
    /\ HasRoom(i)
    /\ slot' = [slot EXCEPT ![i][bottom[i] % Capacity] = w[i].item]
    /\ Goto(i, "publish")
    /\ UNCHANGED <<top, bottom, counter, main, visits>>

PushPublish(i) ==
    /\ w[i].pc = "publish"
    /\ bottom' = [bottom EXCEPT ![i] = @ + 1]
    /\ Goto(i, "push")
    /\ UNCHANGED <<top, slot, counter, main, visits>>

\* Mutant of PushEnd: a directory that was read stays counted.
PushEndCounted(i) ==
    /\ w[i].pc = "push"
    /\ w[i].todo = <<>>
    /\ w' = IF w[i].batch = <<>>
            THEN [w EXCEPT ![i].pc = "pop", ![i].work = Moved]
            ELSE [w EXCEPT ![i].pc = "read", ![i].batch = <<>>]
    /\ UNCHANGED <<top, bottom, slot, counter, main, visits>>

\* Nothing left to push: the work that was stolen begins, or the directory that
\* was read is done (WorkGuard).
PushEnd(i) ==
    /\ w[i].pc = "push"
    /\ w[i].todo = <<>>
    /\ IF w[i].batch = <<>>
       THEN /\ counter' = counter - 1
            /\ w' = [w EXCEPT ![i].pc = "pop", ![i].work = Moved]
       ELSE /\ counter' = counter
            /\ w' = [w EXCEPT ![i].pc = "read", ![i].batch = <<>>]
    /\ UNCHANGED <<top, bottom, slot, main, visits>>

-----------------------------------------------------------------------------
(* Moving a path out of a slot.                                            *)

\* The slot a worker is about to move a path from.
Taking(i) ==
    CASE w[i].pc = "poptake" -> <<i, w[i].b % Capacity>>
      [] w[i].pc = "stealmove" ->
            <<(i + w[i].off) % N, (w[i].t + Len(w[i].batch)) % Capacity>>
      [] OTHER -> <<>>

\* The slot is left moved-from.  Two workers that move from one slot at the same
\* time race, and both may see the path.
Take(i) ==
    LET at == Taking(i)
        raced == \E j \in Workers \ {i} : Taking(j) = at IN
    \E rest \in {Moved} \cup (IF raced THEN {slot[at[1]][at[2]]} ELSE {}) :
        slot' = [slot EXCEPT ![at[1]][at[2]] = rest]

-----------------------------------------------------------------------------
(* pop()                                                                   *)

PopReserve(i) ==
    /\ w[i].pc = "pop"
    /\ bottom' = [bottom EXCEPT ![i] = @ - 1]
    /\ w' = [w EXCEPT ![i].pc = "poptop", ![i].b = bottom[i] - 1]
    /\ UNCHANGED <<top, slot, counter, main, visits>>

\* Mutant of PopTop: the last item is taken without the CAS.
PopTopNoCas(i) ==
    /\ w[i].pc = "poptop"
    /\ w' = [w EXCEPT ![i].t = top[i],
                      ![i].pc = IF top[i] > w[i].b THEN "popundo" ELSE "poptake"]
    /\ UNCHANGED <<top, bottom, slot, counter, main, visits>>

\* Empty, last item, or more than one item.
PopTop(i) ==
    LET t == top[i]
        b == w[i].b IN
    /\ w[i].pc = "poptop"
    /\ w' = [w EXCEPT ![i].t = t,
                      ![i].pc = IF t > b THEN "popundo"
                                ELSE IF t = b THEN "popcas" ELSE "poptake"]
    /\ UNCHANGED <<top, bottom, slot, counter, main, visits>>

PopUndo(i) ==
    /\ w[i].pc = "popundo"
    /\ bottom' = [bottom EXCEPT ![i] = w[i].b + 1]
    /\ w' = [w EXCEPT ![i].pc = "steal", ![i].off = 1]
    /\ UNCHANGED <<top, slot, counter, main, visits>>

\* The last item: whoever advances top has it.
PopCas(i) ==
    /\ w[i].pc = "popcas"
    /\ IF top[i] = w[i].t
       THEN /\ top' = [top EXCEPT ![i] = @ + 1]
            /\ Goto(i, "poplast")
       ELSE /\ Goto(i, "popundo")
            /\ UNCHANGED top
    /\ UNCHANGED <<bottom, slot, counter, main, visits>>

PopLast(i) ==
    /\ w[i].pc = "poplast"
    /\ bottom' = [bottom EXCEPT ![i] = w[i].b + 1]
    /\ Goto(i, "poptake")
    /\ UNCHANGED <<top, slot, counter, main, visits>>

PopTake(i) ==
    /\ w[i].pc = "poptake"
    /\ Take(i)
    /\ w' = [w EXCEPT ![i].pc = "read", ![i].work = slot[i][w[i].b % Capacity]]
    /\ UNCHANGED <<top, bottom, counter, main, visits>>

-----------------------------------------------------------------------------
(* steal(), and the loop over the victims                                  *)

Victim(i) == (i + w[i].off) % N

\* Mutant of StealTop: the loop over the victims goes one too far.
StealTopOneMore(i) ==
    /\ w[i].pc = "steal"
    /\ w[i].off =< N
    /\ w' = [w EXCEPT ![i].pc = "stealbottom", ![i].t = top[Victim(i)]]
    /\ UNCHANGED <<top, bottom, slot, counter, main, visits>>

StealTop(i) ==
    /\ w[i].pc = "steal"
    /\ w[i].off < N
    /\ w' = [w EXCEPT ![i].pc = "stealbottom", ![i].t = top[Victim(i)]]
    /\ UNCHANGED <<top, bottom, slot, counter, main, visits>>

\* Half of the items, at least one, at most MaxSteal.
BatchSize(available) ==
    LET half == available \div 2 IN
    IF half < 1 THEN 1 ELSE IF half > MaxSteal THEN MaxSteal ELSE half

StealBottom(i) ==
    LET available == bottom[Victim(i)] - w[i].t IN
    /\ w[i].pc = "stealbottom"
    /\ w' = IF available > 0
            THEN [w EXCEPT ![i].pc = "stealcas", ![i].n = BatchSize(available)]
            ELSE [w EXCEPT ![i].pc = "steal", ![i].off = @ + 1]
    /\ UNCHANGED <<top, bottom, slot, counter, main, visits>>

StealCas(i) ==
    /\ w[i].pc = "stealcas"
    /\ IF top[Victim(i)] = w[i].t
       THEN /\ top' = [top EXCEPT ![Victim(i)] = @ + w[i].n]
            /\ Goto(i, "stealmove")
       ELSE /\ w' = [w EXCEPT ![i].pc = "steal", ![i].off = @ + 1]
            /\ UNCHANGED top
    /\ UNCHANGED <<bottom, slot, counter, main, visits>>

\* One path of the batch; the last one is the work, the others are pushed.
StealMove(i) ==
    LET at == Taking(i)
        path == slot[at[1]][at[2]]
        batch == Append(w[i].batch, path) IN
    /\ w[i].pc = "stealmove"
    /\ Take(i)
    /\ w' = IF Len(batch) < w[i].n
            THEN [w EXCEPT ![i].batch = batch]
            ELSE [w EXCEPT ![i].pc = "push", ![i].batch = batch, ![i].work = path,
                           ![i].todo = w[i].batch]
    /\ UNCHANGED <<top, bottom, counter, main, visits>>

\* Mutant of Idle: a worker that finds nothing stops.
IdleStops(i) ==
    /\ w[i].pc = "steal"
    /\ w[i].off = N
    /\ Goto(i, "done")
    /\ UNCHANGED <<top, bottom, slot, counter, main, visits>>

\* Nothing to steal: stop when nothing is unfinished, else try again.
Idle(i) ==
    /\ w[i].pc = "steal"
    /\ w[i].off = N
    /\ Goto(i, IF counter = 0 THEN "done" ELSE "pop")
    /\ UNCHANGED <<top, bottom, slot, counter, main, visits>>

\* Read one directory, in any order.  A moved-from path is no directory: nothing is counted.
Read(i) ==
    LET d == w[i].work IN
    /\ w[i].pc = "read"
    /\ visits' = IF d = Moved THEN visits ELSE [visits EXCEPT ![d] = @ + 1]
    /\ \E todo \in SetToSeqs(IF d = Moved THEN {} ELSE Children[d]) :
            w' = [w EXCEPT ![i].pc = "push", ![i].todo = todo]
    /\ UNCHANGED <<top, bottom, slot, counter, main>>

-----------------------------------------------------------------------------
Step(i) ==
    \/ Spawn(i)
    \/ PushNext(i) \/ PushPut(i) \/ PushPublish(i) \/ PushEnd(i)
    \/ PopReserve(i) \/ PopTop(i) \/ PopUndo(i) \/ PopCas(i) \/ PopLast(i)
    \/ PopTake(i)
    \/ StealTop(i) \/ StealBottom(i) \/ StealCas(i) \/ StealMove(i)
    \/ Idle(i) \/ Read(i)

Joined == \A i \in Workers : w[i].pc = "done"

Next == (\E d \in TopDirs : Distribute(d)) \/ (\E i \in Workers : Step(i))

Spec == Init /\ [][Next]_vars

\* The operating system runs every thread.
FairSpec ==
    /\ Spec
    /\ WF_vars(\E d \in TopDirs : Distribute(d))
    /\ \A i \in Workers : WF_vars(Step(i))

-----------------------------------------------------------------------------
(* Properties                                                              *)

\* pop() and steal() never hand out the same slot: no worker gets a moved-from
\* path instead of a directory.
NoOverlap == \A i \in Workers : w[i].pc = "read" => w[i].work # Moved

\* A worker stops only when every directory was read, exactly once: no early
\* stop on a counter that is momentarily low, nothing lost, nothing read twice.
StopsWhenAllRead ==
    (\E i \in Workers : w[i].pc = "done") => \A d \in Dirs : visits[d] = 1

\* The workers are joined in the end: neither a push that waits for room nor a
\* counter that misses zero keeps ws_stat from its result.
Termination == <>Joined
=============================================================================
