---------------------------- MODULE WsStat_safety ----------------------------
(***************************************************************************)
(* The state of ws_stat is well typed; in calm runs no two threads take    *)
(* the same path, and they stop when every directory was read: for any     *)
(* number of workers, any capacity and any tree of directories.            *)
(***************************************************************************)
EXTENDS WsStatInvariant, FiniteSetTheorems, TLAPS

-----------------------------------------------------------------------------
(* Types                                                                   *)

\* An index of a queue that was never filled round is the number of its slot.
LEMMA SlotOf ==
    ASSUME NEW k \in Slots
    PROVE  k % Capacity = k /\ k \in Nat
BY StatAssumption DEF Slots

\* The victim of a thief is another worker.
LEMMA VictimOther ==
    ASSUME NEW i \in Workers, NEW off \in 1 .. (N - 1)
    PROVE  (i + off) % N \in Workers \ {i}
<1>1. CASE i + off < N
    BY <1>1, StatAssumption DEF Workers
<1>2. CASE i + off >= N
    <2>1. (i + off) % N = i + off - N
        BY <1>2, StatAssumption DEF Workers
    <2> QED  BY <2>1, <1>2, StatAssumption DEF Workers
<1> QED  BY <1>1, <1>2, StatAssumption DEF Workers

\* Any index, taken modulo the capacity, is a slot.
LEMMA SlotType ==
    ASSUME NEW k \in Int
    PROVE  k % Capacity \in Slots
BY StatAssumption DEF Slots

\* Any number, taken modulo the number of workers, is a worker.
LEMMA WorkerType ==
    ASSUME NEW k \in Int
    PROVE  k % N \in Workers
BY StatAssumption DEF Workers

\* The victim of a worker is a worker.
LEMMA VictimType ==
    ASSUME NEW i \in Workers, w[i] \in Worker
    PROVE  Victim(i) \in Workers
<1>1. i + w[i].off \in Int
    BY DEF Workers, Worker
<1> QED  BY <1>1, WorkerType DEF Victim

\* A batch is at least one path.
LEMMA BatchType ==
    ASSUME NEW a \in Int, a > 0
    PROVE  BatchSize(a) \in Nat /\ BatchSize(a) >= 1
BY StatAssumption DEF BatchSize

-----------------------------------------------------------------------------
(* What each step does to the local variables of its worker.               *)

\* Worker i goes on with these local variables; those of the others stay.
Locals(i, pc, b, t, n, off, batch, todo, item, work) ==
    /\ w' \in [Workers -> Worker]
    /\ \A j \in Workers \ {i} : w'[j] = w[j]
    /\ w'[i].pc = pc /\ w'[i].b = b /\ w'[i].t = t /\ w'[i].n = n /\ w'[i].off = off
    /\ w'[i].batch = batch /\ w'[i].todo = todo /\ w'[i].item = item /\ w'[i].work = work

\* The state of one worker is replaced.
LEMMA UpdateOf ==
    ASSUME w \in [Workers -> Worker], NEW i \in Workers, NEW r \in Worker,
           w' = [w EXCEPT ![i] = r]
    PROVE  w' \in [Workers -> Worker] /\ w'[i] = r /\ \A j \in Workers \ {i} : w'[j] = w[j]
OBVIOUS

\* A worker thread begins to pop.
LEMMA SpawnDoes ==
    ASSUME TypeOK, NEW i \in Workers, Spawn(i)
    PROVE  Locals(i, "pop", w[i].b, w[i].t, w[i].n, w[i].off, w[i].batch, w[i].todo,
                  w[i].item, w[i].work)
<1> DEFINE r == [w[i] EXCEPT !.pc = "pop"]
<1>1. w \in [Workers -> Worker] /\ w[i] \in Worker
    BY DEF TypeOK
<1>2. r \in Worker
    BY <1>1, StatAssumption DEF Worker, Path
<1>3. w' = [w EXCEPT ![i] = r]
    BY DEF Spawn, Goto
<1>4. /\ r.pc = "pop" /\ r.b = w[i].b /\ r.t = w[i].t /\ r.n = w[i].n /\ r.off = w[i].off
      /\ r.batch = w[i].batch /\ r.todo = w[i].todo /\ r.item = w[i].item
      /\ r.work = w[i].work
    BY <1>1 DEF Worker
<1> HIDE DEF r
<1> QED  BY <1>1, <1>2, <1>3, <1>4, UpdateOf DEF Locals

\* The next path is taken from what is to be pushed.
LEMMA PushNextDoes ==
    ASSUME TypeOK, NEW i \in Workers, PushNext(i)
    PROVE  Locals(i, "put", w[i].b, w[i].t, w[i].n, w[i].off, w[i].batch,
                  Tail(w[i].todo), Head(w[i].todo), w[i].work)
<1> DEFINE r == [w[i] EXCEPT !.pc = "put", !.todo = Tail(w[i].todo), !.item =
               Head(w[i].todo)]
<1>1. w \in [Workers -> Worker] /\ w[i] \in Worker
    BY DEF TypeOK
<1>2. Tail(w[i].todo) \in Seq(Path) /\ Head(w[i].todo) \in Path
    BY <1>1, StatAssumption DEF PushNext, Worker
<1>3. r \in Worker
    BY <1>1, <1>2, StatAssumption DEF Worker, Path
<1>4. w' = [w EXCEPT ![i] = r]
    BY DEF PushNext, Goto
<1>5. /\ r.pc = "put" /\ r.b = w[i].b /\ r.t = w[i].t /\ r.n = w[i].n /\ r.off = w[i].off
      /\ r.batch = w[i].batch /\ r.todo = Tail(w[i].todo)
      /\ r.item = Head(w[i].todo) /\ r.work = w[i].work
    BY <1>1 DEF Worker
<1> HIDE DEF r
<1> QED  BY <1>1, <1>3, <1>4, <1>5, UpdateOf DEF Locals

\* The path is put into its slot.
LEMMA PushPutDoes ==
    ASSUME TypeOK, NEW i \in Workers, PushPut(i)
    PROVE  Locals(i, "publish", w[i].b, w[i].t, w[i].n, w[i].off, w[i].batch, w[i].todo,
                  w[i].item, w[i].work)
<1> DEFINE r == [w[i] EXCEPT !.pc = "publish"]
<1>1. w \in [Workers -> Worker] /\ w[i] \in Worker
    BY DEF TypeOK
<1>2. r \in Worker
    BY <1>1, StatAssumption DEF Worker, Path
<1>3. w' = [w EXCEPT ![i] = r]
    BY DEF PushPut, Goto
<1>4. /\ r.pc = "publish" /\ r.b = w[i].b /\ r.t = w[i].t /\ r.n = w[i].n
      /\ r.off = w[i].off /\ r.batch = w[i].batch /\ r.todo = w[i].todo
      /\ r.item = w[i].item /\ r.work = w[i].work
    BY <1>1 DEF Worker
<1> HIDE DEF r
<1> QED  BY <1>1, <1>2, <1>3, <1>4, UpdateOf DEF Locals

\* The path is published.
LEMMA PushPublishDoes ==
    ASSUME TypeOK, NEW i \in Workers, PushPublish(i)
    PROVE  Locals(i, "push", w[i].b, w[i].t, w[i].n, w[i].off, w[i].batch, w[i].todo,
                  w[i].item, w[i].work)
<1> DEFINE r == [w[i] EXCEPT !.pc = "push"]
<1>1. w \in [Workers -> Worker] /\ w[i] \in Worker
    BY DEF TypeOK
<1>2. r \in Worker
    BY <1>1, StatAssumption DEF Worker, Path
<1>3. w' = [w EXCEPT ![i] = r]
    BY DEF PushPublish, Goto
<1>4. /\ r.pc = "push" /\ r.b = w[i].b /\ r.t = w[i].t /\ r.n = w[i].n /\ r.off = w[i].off
      /\ r.batch = w[i].batch /\ r.todo = w[i].todo /\ r.item = w[i].item
      /\ r.work = w[i].work
    BY <1>1 DEF Worker
<1> HIDE DEF r
<1> QED  BY <1>1, <1>2, <1>3, <1>4, UpdateOf DEF Locals

\* A directory is done.
LEMMA PushEndDoneDoes ==
    ASSUME TypeOK, NEW i \in Workers, PushEnd(i), w[i].batch = <<>>
    PROVE  Locals(i, "pop", w[i].b, w[i].t, w[i].n, w[i].off, w[i].batch, w[i].todo,
                  w[i].item, Moved)
<1> DEFINE r == [w[i] EXCEPT !.pc = "pop", !.work = Moved]
<1>1. w \in [Workers -> Worker] /\ w[i] \in Worker
    BY DEF TypeOK
<1>2. Moved \in Path
    BY <1>1, StatAssumption DEF Path
<1>3. r \in Worker
    BY <1>1, <1>2, StatAssumption DEF Worker, Path
<1>4. w' = [w EXCEPT ![i] = r]
    BY DEF PushEnd, Goto
<1>5. /\ r.pc = "pop" /\ r.b = w[i].b /\ r.t = w[i].t /\ r.n = w[i].n /\ r.off = w[i].off
      /\ r.batch = w[i].batch /\ r.todo = w[i].todo /\ r.item = w[i].item
      /\ r.work = Moved
    BY <1>1 DEF Worker
<1> HIDE DEF r
<1> QED  BY <1>1, <1>3, <1>4, <1>5, UpdateOf DEF Locals

\* A stolen directory is going to be read.
LEMMA PushEndStolenDoes ==
    ASSUME TypeOK, NEW i \in Workers, PushEnd(i), w[i].batch # <<>>
    PROVE  Locals(i, "read", w[i].b, w[i].t, w[i].n, w[i].off, <<>>, w[i].todo,
                  w[i].item, w[i].work)
<1> DEFINE r == [w[i] EXCEPT !.pc = "read", !.batch = <<>>]
<1>1. w \in [Workers -> Worker] /\ w[i] \in Worker
    BY DEF TypeOK
<1>2. <<>> \in Seq(Path)
    BY <1>1, StatAssumption
<1>3. r \in Worker
    BY <1>1, <1>2, StatAssumption DEF Worker, Path
<1>4. w' = [w EXCEPT ![i] = r]
    BY DEF PushEnd, Goto
<1>5. /\ r.pc = "read" /\ r.b = w[i].b /\ r.t = w[i].t /\ r.n = w[i].n /\ r.off = w[i].off
      /\ r.batch = <<>> /\ r.todo = w[i].todo /\ r.item = w[i].item
      /\ r.work = w[i].work
    BY <1>1 DEF Worker
<1> HIDE DEF r
<1> QED  BY <1>1, <1>3, <1>4, <1>5, UpdateOf DEF Locals

\* pop() reserves the last path.
LEMMA PopReserveDoes ==
    ASSUME TypeOK, NEW i \in Workers, PopReserve(i)
    PROVE  Locals(i, "poptop", bottom[i] - 1, w[i].t, w[i].n, w[i].off, w[i].batch,
                  w[i].todo, w[i].item, w[i].work)
<1> DEFINE r == [w[i] EXCEPT !.pc = "poptop", !.b = bottom[i] - 1]
<1>1. w \in [Workers -> Worker] /\ w[i] \in Worker
    BY DEF TypeOK
<1>2. bottom[i] - 1 \in Int
    BY <1>1, StatAssumption DEF TypeOK
<1>3. r \in Worker
    BY <1>1, <1>2, StatAssumption DEF Worker, Path
<1>4. w' = [w EXCEPT ![i] = r]
    BY DEF PopReserve, Goto
<1>5. /\ r.pc = "poptop" /\ r.b = bottom[i] - 1 /\ r.t = w[i].t /\ r.n = w[i].n
      /\ r.off = w[i].off /\ r.batch = w[i].batch /\ r.todo = w[i].todo
      /\ r.item = w[i].item /\ r.work = w[i].work
    BY <1>1 DEF Worker
<1> HIDE DEF r
<1> QED  BY <1>1, <1>3, <1>4, <1>5, UpdateOf DEF Locals

\* pop() compares the indices.
LEMMA PopTopDoes ==
    ASSUME TypeOK, NEW i \in Workers, PopTop(i)
    PROVE  Locals(i, IF top[i] > w[i].b THEN "popundo"
                     ELSE IF top[i] = w[i].b THEN "popcas" ELSE "poptake",
                  w[i].b, top[i], w[i].n, w[i].off, w[i].batch, w[i].todo, w[i].item,
                  w[i].work)
<1> DEFINE r == [w[i] EXCEPT !.pc = IF top[i] > w[i].b THEN "popundo" ELSE IF top[i] =
               w[i].b THEN "popcas" ELSE "poptake", !.t = top[i]]
<1>1. w \in [Workers -> Worker] /\ w[i] \in Worker
    BY DEF TypeOK
<1>2. top[i] \in Int
    BY <1>1, StatAssumption DEF TypeOK
<1>3. r \in Worker
    BY <1>1, <1>2, StatAssumption DEF Worker, Path
<1>4. w' = [w EXCEPT ![i] = r]
    BY DEF PopTop, Goto
<1>5. 
      /\ r.pc = (IF top[i] > w[i].b THEN "popundo" ELSE IF top[i] = w[i].b THEN "popcas" ELSE "poptake")
      /\ r.b = w[i].b /\ r.t = top[i] /\ r.n = w[i].n /\ r.off = w[i].off
      /\ r.batch = w[i].batch /\ r.todo = w[i].todo /\ r.item = w[i].item
      /\ r.work = w[i].work
    BY <1>1 DEF Worker
<1> HIDE DEF r
<1> QED  BY <1>1, <1>3, <1>4, <1>5, UpdateOf DEF Locals

\* pop() found nothing.
LEMMA PopUndoDoes ==
    ASSUME TypeOK, NEW i \in Workers, PopUndo(i)
    PROVE  Locals(i, "steal", w[i].b, w[i].t, w[i].n, 1, w[i].batch, w[i].todo,
                  w[i].item, w[i].work)
<1> DEFINE r == [w[i] EXCEPT !.pc = "steal", !.off = 1]
<1>1. w \in [Workers -> Worker] /\ w[i] \in Worker
    BY DEF TypeOK
<1>2. 1 \in 0 .. N
    BY <1>1, StatAssumption DEF TypeOK
<1>3. r \in Worker
    BY <1>1, <1>2, StatAssumption DEF Worker, Path
<1>4. w' = [w EXCEPT ![i] = r]
    BY DEF PopUndo, Goto
<1>5. /\ r.pc = "steal" /\ r.b = w[i].b /\ r.t = w[i].t /\ r.n = w[i].n /\ r.off = 1
      /\ r.batch = w[i].batch /\ r.todo = w[i].todo /\ r.item = w[i].item
      /\ r.work = w[i].work
    BY <1>1 DEF Worker
<1> HIDE DEF r
<1> QED  BY <1>1, <1>3, <1>4, <1>5, UpdateOf DEF Locals

\* pop() competes for the last path.
LEMMA PopCasDoes ==
    ASSUME TypeOK, NEW i \in Workers, PopCas(i)
    PROVE  Locals(i, IF top[i] = w[i].t THEN "poplast" ELSE "popundo", w[i].b, w[i].t,
                  w[i].n, w[i].off, w[i].batch, w[i].todo, w[i].item, w[i].work)
<1> DEFINE r == [w[i] EXCEPT !.pc = IF top[i] = w[i].t THEN "poplast" ELSE "popundo"]
<1>1. w \in [Workers -> Worker] /\ w[i] \in Worker
    BY DEF TypeOK
<1>2. r \in Worker
    BY <1>1, StatAssumption DEF Worker, Path
<1>3. w' = [w EXCEPT ![i] = r]
    BY DEF PopCas, Goto
<1>4. /\ r.pc = (IF top[i] = w[i].t THEN "poplast" ELSE "popundo") /\ r.b = w[i].b
      /\ r.t = w[i].t /\ r.n = w[i].n /\ r.off = w[i].off /\ r.batch = w[i].batch
      /\ r.todo = w[i].todo /\ r.item = w[i].item /\ r.work = w[i].work
    BY <1>1 DEF Worker
<1> HIDE DEF r
<1> QED  BY <1>1, <1>2, <1>3, <1>4, UpdateOf DEF Locals

\* pop() has the last path.
LEMMA PopLastDoes ==
    ASSUME TypeOK, NEW i \in Workers, PopLast(i)
    PROVE  Locals(i, "poptake", w[i].b, w[i].t, w[i].n, w[i].off, w[i].batch, w[i].todo,
                  w[i].item, w[i].work)
<1> DEFINE r == [w[i] EXCEPT !.pc = "poptake"]
<1>1. w \in [Workers -> Worker] /\ w[i] \in Worker
    BY DEF TypeOK
<1>2. r \in Worker
    BY <1>1, StatAssumption DEF Worker, Path
<1>3. w' = [w EXCEPT ![i] = r]
    BY DEF PopLast, Goto
<1>4. /\ r.pc = "poptake" /\ r.b = w[i].b /\ r.t = w[i].t /\ r.n = w[i].n
      /\ r.off = w[i].off /\ r.batch = w[i].batch /\ r.todo = w[i].todo
      /\ r.item = w[i].item /\ r.work = w[i].work
    BY <1>1 DEF Worker
<1> HIDE DEF r
<1> QED  BY <1>1, <1>2, <1>3, <1>4, UpdateOf DEF Locals

\* The owner moves the path out of its slot.
LEMMA PopTakeDoes ==
    ASSUME TypeOK, NEW i \in Workers, PopTake(i)
    PROVE  Locals(i, "read", w[i].b, w[i].t, w[i].n, w[i].off, w[i].batch, w[i].todo,
                  w[i].item, slot[i][w[i].b % Capacity])
<1> DEFINE r == [w[i] EXCEPT !.pc = "read", !.work = slot[i][w[i].b % Capacity]]
<1>1. w \in [Workers -> Worker] /\ w[i] \in Worker
    BY DEF TypeOK
<1>2. slot[i][w[i].b % Capacity] \in Path
    BY <1>1, StatAssumption, SlotType DEF TypeOK, Slots, Worker
<1>3. r \in Worker
    BY <1>1, <1>2, StatAssumption DEF Worker, Path
<1>4. w' = [w EXCEPT ![i] = r]
    BY DEF PopTake, Goto
<1>5. /\ r.pc = "read" /\ r.b = w[i].b /\ r.t = w[i].t /\ r.n = w[i].n /\ r.off = w[i].off
      /\ r.batch = w[i].batch /\ r.todo = w[i].todo /\ r.item = w[i].item
      /\ r.work = slot[i][w[i].b % Capacity]
    BY <1>1 DEF Worker
<1> HIDE DEF r
<1> QED  BY <1>1, <1>3, <1>4, <1>5, UpdateOf DEF Locals

\* A thief reads top.
LEMMA StealTopDoes ==
    ASSUME TypeOK, NEW i \in Workers, StealTop(i)
    PROVE  Locals(i, "stealbottom", w[i].b, top[Victim(i)], w[i].n, w[i].off, w[i].batch,
                  w[i].todo, w[i].item, w[i].work)
<1> DEFINE r == [w[i] EXCEPT !.pc = "stealbottom", !.t = top[Victim(i)]]
<1>1. w \in [Workers -> Worker] /\ w[i] \in Worker
    BY DEF TypeOK
<1>2. top[Victim(i)] \in Int
    BY <1>1, StatAssumption, VictimType DEF TypeOK
<1>3. r \in Worker
    BY <1>1, <1>2, StatAssumption DEF Worker, Path
<1>4. w' = [w EXCEPT ![i] = r]
    BY DEF StealTop, Goto
<1>5. /\ r.pc = "stealbottom" /\ r.b = w[i].b /\ r.t = top[Victim(i)] /\ r.n = w[i].n
      /\ r.off = w[i].off /\ r.batch = w[i].batch /\ r.todo = w[i].todo
      /\ r.item = w[i].item /\ r.work = w[i].work
    BY <1>1 DEF Worker
<1> HIDE DEF r
<1> QED  BY <1>1, <1>3, <1>4, <1>5, UpdateOf DEF Locals

\* A thief finds something to steal.
LEMMA StealBottomSomeDoes ==
    ASSUME TypeOK, NEW i \in Workers, StealBottom(i), bottom[Victim(i)] - w[i].t > 0
    PROVE  Locals(i, "stealcas", w[i].b, w[i].t, BatchSize(bottom[Victim(i)] - w[i].t),
                  w[i].off, w[i].batch, w[i].todo, w[i].item, w[i].work)
<1> DEFINE r == [w[i] EXCEPT !.pc = "stealcas", !.n = BatchSize(bottom[Victim(i)] -
               w[i].t)]
<1>1. w \in [Workers -> Worker] /\ w[i] \in Worker
    BY DEF TypeOK
<1>2. BatchSize(bottom[Victim(i)] - w[i].t) \in Nat
    <2>1. w[i].t \in Int
        BY <1>1 DEF Worker
    <2>2. bottom[Victim(i)] - w[i].t \in Int
        BY <1>1, <2>1, VictimType DEF TypeOK
    <2> QED  BY <2>2, BatchType
<1>3. r \in Worker
    BY <1>1, <1>2, StatAssumption DEF Worker, Path
<1>4. w' = [w EXCEPT ![i] = r]
    BY DEF StealBottom, Goto
<1>5. /\ r.pc = "stealcas" /\ r.b = w[i].b /\ r.t = w[i].t
      /\ r.n = BatchSize(bottom[Victim(i)] - w[i].t) /\ r.off = w[i].off
      /\ r.batch = w[i].batch /\ r.todo = w[i].todo /\ r.item = w[i].item
      /\ r.work = w[i].work
    BY <1>1 DEF Worker
<1> HIDE DEF r
<1> QED  BY <1>1, <1>3, <1>4, <1>5, UpdateOf DEF Locals

\* A thief finds nothing.
LEMMA StealBottomNoneDoes ==
    ASSUME TypeOK, NEW i \in Workers, StealBottom(i), ~(bottom[Victim(i)] - w[i].t > 0), w[i].off < N
    PROVE  Locals(i, "steal", w[i].b, w[i].t, w[i].n, w[i].off + 1, w[i].batch,
                  w[i].todo, w[i].item, w[i].work)
<1> DEFINE r == [w[i] EXCEPT !.pc = "steal", !.off = w[i].off + 1]
<1>1. w \in [Workers -> Worker] /\ w[i] \in Worker
    BY DEF TypeOK
<1>2. w[i].off + 1 \in 0 .. N
    BY <1>1, StatAssumption DEF Worker
<1>3. r \in Worker
    BY <1>1, <1>2, StatAssumption DEF Worker, Path
<1>4. w' = [w EXCEPT ![i] = r]
    BY DEF StealBottom, Goto
<1>5. /\ r.pc = "steal" /\ r.b = w[i].b /\ r.t = w[i].t /\ r.n = w[i].n
      /\ r.off = w[i].off + 1 /\ r.batch = w[i].batch /\ r.todo = w[i].todo
      /\ r.item = w[i].item /\ r.work = w[i].work
    BY <1>1 DEF Worker
<1> HIDE DEF r
<1> QED  BY <1>1, <1>3, <1>4, <1>5, UpdateOf DEF Locals

\* A thief claims its batch.
LEMMA StealCasWonDoes ==
    ASSUME TypeOK, NEW i \in Workers, StealCas(i), top[Victim(i)] = w[i].t
    PROVE  Locals(i, "stealmove", w[i].b, w[i].t, w[i].n, w[i].off, w[i].batch,
                  w[i].todo, w[i].item, w[i].work)
<1> DEFINE r == [w[i] EXCEPT !.pc = "stealmove"]
<1>1. w \in [Workers -> Worker] /\ w[i] \in Worker
    BY DEF TypeOK
<1>2. r \in Worker
    BY <1>1, StatAssumption DEF Worker, Path
<1>3. w' = [w EXCEPT ![i] = r]
    BY DEF StealCas, Goto
<1>4. /\ r.pc = "stealmove" /\ r.b = w[i].b /\ r.t = w[i].t /\ r.n = w[i].n
      /\ r.off = w[i].off /\ r.batch = w[i].batch /\ r.todo = w[i].todo
      /\ r.item = w[i].item /\ r.work = w[i].work
    BY <1>1 DEF Worker
<1> HIDE DEF r
<1> QED  BY <1>1, <1>2, <1>3, <1>4, UpdateOf DEF Locals

\* A thief comes too late.
LEMMA StealCasLostDoes ==
    ASSUME TypeOK, NEW i \in Workers, StealCas(i), top[Victim(i)] # w[i].t, w[i].off < N
    PROVE  Locals(i, "steal", w[i].b, w[i].t, w[i].n, w[i].off + 1, w[i].batch,
                  w[i].todo, w[i].item, w[i].work)
<1> DEFINE r == [w[i] EXCEPT !.pc = "steal", !.off = w[i].off + 1]
<1>1. w \in [Workers -> Worker] /\ w[i] \in Worker
    BY DEF TypeOK
<1>2. w[i].off + 1 \in 0 .. N
    BY <1>1, StatAssumption DEF Worker
<1>3. r \in Worker
    BY <1>1, <1>2, StatAssumption DEF Worker, Path
<1>4. w' = [w EXCEPT ![i] = r]
    BY DEF StealCas, Goto
<1>5. /\ r.pc = "steal" /\ r.b = w[i].b /\ r.t = w[i].t /\ r.n = w[i].n
      /\ r.off = w[i].off + 1 /\ r.batch = w[i].batch /\ r.todo = w[i].todo
      /\ r.item = w[i].item /\ r.work = w[i].work
    BY <1>1 DEF Worker
<1> HIDE DEF r
<1> QED  BY <1>1, <1>3, <1>4, <1>5, UpdateOf DEF Locals

\* A worker that found nothing stops or tries again.
LEMMA IdleDoes ==
    ASSUME TypeOK, NEW i \in Workers, Idle(i)
    PROVE  Locals(i, IF counter = 0 THEN "done" ELSE "pop", w[i].b, w[i].t, w[i].n,
                  w[i].off, w[i].batch, w[i].todo, w[i].item, w[i].work)
<1> DEFINE r == [w[i] EXCEPT !.pc = IF counter = 0 THEN "done" ELSE "pop"]
<1>1. w \in [Workers -> Worker] /\ w[i] \in Worker
    BY DEF TypeOK
<1>2. r \in Worker
    BY <1>1, StatAssumption DEF Worker, Path
<1>3. w' = [w EXCEPT ![i] = r]
    BY DEF Idle, Goto
<1>4. /\ r.pc = (IF counter = 0 THEN "done" ELSE "pop") /\ r.b = w[i].b /\ r.t = w[i].t
      /\ r.n = w[i].n /\ r.off = w[i].off /\ r.batch = w[i].batch /\ r.todo = w[i].todo
      /\ r.item = w[i].item /\ r.work = w[i].work
    BY <1>1 DEF Worker
<1> HIDE DEF r
<1> QED  BY <1>1, <1>2, <1>3, <1>4, UpdateOf DEF Locals

\* The order in which a directory's children are pushed is a sequence of all of them.
LEMMA OrderOfChildren ==
    ASSUME NEW S \in SUBSET Dirs, NEW todo \in SetToSeqs(S)
    PROVE  todo \in Seq(S) /\ IsInjective(todo) /\ ToSet(todo) = S
<1>1. IsFiniteSet(S) /\ Cardinality(S) \in Nat
    BY TreeAssumption, FS_Subset, FS_CardinalityType
<1> DEFINE D == 1 .. Cardinality(S)
<1>2. todo \in [D -> S] /\ \A k, l \in D : k # l => todo[k] # todo[l]
    BY DEF SetToSeqs
<1>3. todo \in Seq(S) /\ Len(todo) = Cardinality(S) /\ DOMAIN todo = D
    BY <1>1, <1>2
<1>4. todo \in Injection(D, S)
    BY <1>2 DEF Injection, IsInjective
<1>5. IsFiniteSet(D) /\ Cardinality(D) = Cardinality(S)
    BY <1>1, FS_Interval
<1>6. todo \in Surjection(D, S)
    BY <1>1, <1>4, <1>5, FS_Injection
<1>7. ToSet(todo) = S
    BY <1>2, <1>3, <1>6 DEF ToSet, Surjection
<1> QED  BY <1>2, <1>3, <1>7 DEF IsInjective

\* Taking a path leaves a path or a moved-from one in the slot.
LEMMA TakeType ==
    ASSUME TypeOK, NEW i \in Workers, w[i].pc \in {"poptake", "stealmove"}, Take(i)
    PROVE  slot' \in [Workers -> [Slots -> Path]]
<1> DEFINE at == Taking(i)
<1>1. w[i] \in Worker
    BY DEF TypeOK
<1>2. at[1] \in Workers /\ at[2] \in Slots
    <2>1. CASE w[i].pc = "poptake"
        BY <1>1, <2>1, SlotType DEF Taking, Worker
    <2>2. CASE w[i].pc = "stealmove"
        <3>1. i + w[i].off \in Int /\ w[i].t + Len(w[i].batch) \in Int
            BY <1>1 DEF Worker, Workers
        <3>2. at = <<(i + w[i].off) % N, (w[i].t + Len(w[i].batch)) % Capacity>>
            BY <2>2 DEF Taking
        <3> QED  BY <3>1, <3>2, SlotType, WorkerType
    <2> QED  BY <2>1, <2>2
<1>3. slot \in [Workers -> [Slots -> Path]]
    BY DEF TypeOK, Slots
<1>4. PICK rest \in Path : slot' = [slot EXCEPT ![at[1]][at[2]] = rest]
    <2>1. slot[at[1]][at[2]] \in Path
        BY <1>2, <1>3
    <2>2. \E rest \in {Moved, slot[at[1]][at[2]]} :
                slot' = [slot EXCEPT ![at[1]][at[2]] = rest]
        BY DEF Take
    <2> QED  BY <2>1, <2>2 DEF Path
<1> HIDE DEF at
<1> QED  BY <1>2, <1>3, <1>4

\* A path of a stolen batch is a path.
LEMMA StolenPath ==
    ASSUME TypeOK, NEW i \in Workers, StealMove(i)
    PROVE  /\ slot[Taking(i)[1]][Taking(i)[2]] \in Path
           /\ Append(w[i].batch, slot[Taking(i)[1]][Taking(i)[2]]) \in Seq(Path)
<1> DEFINE at == Taking(i)
<1>1. w[i] \in Worker
    BY DEF TypeOK
<1>2. i + w[i].off \in Int /\ w[i].t + Len(w[i].batch) \in Int
    BY <1>1 DEF Worker, Workers
<1>3. at = <<(i + w[i].off) % N, (w[i].t + Len(w[i].batch)) % Capacity>>
    BY DEF Taking, StealMove
<1>4. at[1] \in Workers /\ at[2] \in Slots
    BY <1>2, <1>3, SlotType, WorkerType
<1>5. slot[at[1]][at[2]] \in Path
    BY <1>4 DEF TypeOK, Slots
<1> QED  BY <1>1, <1>5 DEF Worker

\* A thief moves a path that is not the last of its batch.
LEMMA StealMoveMoreDoes ==
    ASSUME TypeOK, NEW i \in Workers, StealMove(i),
           Len(Append(w[i].batch, slot[Taking(i)[1]][Taking(i)[2]])) < w[i].n
    PROVE  Locals(i, w[i].pc, w[i].b, w[i].t, w[i].n, w[i].off,
                  Append(w[i].batch, slot[Taking(i)[1]][Taking(i)[2]]), w[i].todo,
                  w[i].item, w[i].work)
<1> DEFINE path == slot[Taking(i)[1]][Taking(i)[2]]
           batch == Append(w[i].batch, path)
           r == [w[i] EXCEPT !.batch = batch]
<1>1. w \in [Workers -> Worker] /\ w[i] \in Worker
    BY DEF TypeOK
<1>2. batch \in Seq(Path)
    BY StolenPath
<1>3. w' = [w EXCEPT ![i] = r]
    BY DEF StealMove
<1> HIDE DEF batch
<1>4. r \in Worker
    BY <1>1, <1>2 DEF Worker
<1>5. /\ r.pc = w[i].pc /\ r.b = w[i].b /\ r.t = w[i].t /\ r.n = w[i].n /\ r.off = w[i].off
      /\ r.batch = batch /\ r.todo = w[i].todo /\ r.item = w[i].item /\ r.work = w[i].work
    BY <1>1 DEF Worker
<1> HIDE DEF r
<1>6. Locals(i, w[i].pc, w[i].b, w[i].t, w[i].n, w[i].off, batch, w[i].todo, w[i].item,
             w[i].work)
    BY <1>1, <1>3, <1>4, <1>5, UpdateOf DEF Locals
<1> QED  BY <1>6 DEF batch

\* A thief moves the last path of its batch.
LEMMA StealMoveLastDoes ==
    ASSUME TypeOK, NEW i \in Workers, StealMove(i),
           ~(Len(Append(w[i].batch, slot[Taking(i)[1]][Taking(i)[2]])) < w[i].n)
    PROVE  Locals(i, "push", w[i].b, w[i].t, w[i].n, w[i].off,
                  Append(w[i].batch, slot[Taking(i)[1]][Taking(i)[2]]), w[i].batch,
                  w[i].item, slot[Taking(i)[1]][Taking(i)[2]])
<1> DEFINE path == slot[Taking(i)[1]][Taking(i)[2]]
           batch == Append(w[i].batch, path)
           r == [w[i] EXCEPT !.pc = "push", !.batch = batch, !.work = path,
                             !.todo = w[i].batch]
<1>1. w \in [Workers -> Worker] /\ w[i] \in Worker
    BY DEF TypeOK
<1>2. batch \in Seq(Path) /\ path \in Path
    BY StolenPath
<1>3. w' = [w EXCEPT ![i] = r]
    BY DEF StealMove
<1> HIDE DEF batch, path
<1>4. r \in Worker
    BY <1>1, <1>2 DEF Worker
<1>5. /\ r.pc = "push" /\ r.b = w[i].b /\ r.t = w[i].t /\ r.n = w[i].n /\ r.off = w[i].off
      /\ r.batch = batch /\ r.todo = w[i].batch /\ r.item = w[i].item /\ r.work = path
    BY <1>1 DEF Worker
<1> HIDE DEF r
<1>6. Locals(i, "push", w[i].b, w[i].t, w[i].n, w[i].off, batch, w[i].batch, w[i].item, path)
    BY <1>1, <1>3, <1>4, <1>5, UpdateOf DEF Locals
<1> QED  BY <1>6 DEF batch, path

\* A directory is read: its children are to be pushed, in some order.
LEMMA ReadDoes ==
    ASSUME TypeOK, NEW i \in Workers, Read(i)
    PROVE  \E todo \in Seq(Path) :
            /\ Locals(i, "push", w[i].b, w[i].t, w[i].n, w[i].off, w[i].batch, todo,
                      w[i].item, w[i].work)
            /\ IsInjective(todo)
            /\ w[i].work # Moved => ToSet(todo) = Children[w[i].work]
<1> DEFINE found == IF w[i].work = Moved THEN {} ELSE Children[w[i].work]
<1>1. w \in [Workers -> Worker] /\ w[i] \in Worker
    BY DEF TypeOK
<1>2. found \in SUBSET Dirs
    BY <1>1, StatAssumption DEF Worker, Path
<1>3. PICK todo \in SetToSeqs(found) : w' = [w EXCEPT ![i].pc = "push", ![i].todo = todo]
    BY DEF Read
<1> DEFINE r == [w[i] EXCEPT !.pc = "push", !.todo = todo]
<1>4. todo \in Seq(found) /\ IsInjective(todo) /\ ToSet(todo) = found
    BY <1>2, OrderOfChildren
<1> HIDE DEF found
<1>5. todo \in Seq(Path)
    BY <1>2, <1>4 DEF Path
<1>6. r \in Worker
    BY <1>1, <1>5 DEF Worker
<1>7. /\ r.pc = "push" /\ r.b = w[i].b /\ r.t = w[i].t /\ r.n = w[i].n /\ r.off = w[i].off
      /\ r.batch = w[i].batch /\ r.todo = todo /\ r.item = w[i].item /\ r.work = w[i].work
    BY <1>1 DEF Worker
<1>8. w' = [w EXCEPT ![i] = r]
    BY <1>3
<1> HIDE DEF r
<1>9. Locals(i, "push", w[i].b, w[i].t, w[i].n, w[i].off, w[i].batch, todo, w[i].item,
             w[i].work)
    BY <1>1, <1>6, <1>7, <1>8, UpdateOf DEF Locals
<1> QED  BY <1>4, <1>5, <1>9 DEF found

-----------------------------------------------------------------------------
(* Types                                                                   *)

\* A thief that looks at a victim has not passed the last one.
Bounded == \A i \in Workers : w[i].pc \in {"stealbottom", "stealcas"} => w[i].off < N

\* The step of one worker leaves the others within their bounds.
LEMMA BoundedLocal ==
    ASSUME Bounded, NEW i \in Workers, \A j \in Workers \ {i} : w'[j] = w[j],
           w'[i].pc \in {"stealbottom", "stealcas"} => w'[i].off < N
    PROVE  Bounded'
BY DEF Bounded

\* One slot of one queue is written.
LEMMA WriteSlot ==
    ASSUME NEW s \in [Workers -> [Slots -> Path]], NEW i \in Workers, NEW k \in Slots,
           NEW p \in Path
    PROVE  [s EXCEPT ![i][k] = p] \in [Workers -> [Slots -> Path]]
OBVIOUS

\* A path that is put into the slot at bottom is a path.
LEMMA PutType ==
    ASSUME TypeOK, NEW i \in Workers, NEW p \in Path,
           slot' = [slot EXCEPT ![i][bottom[i] % Capacity] = p]
    PROVE  slot' \in [Workers -> [Slots -> Path]]
<1> DEFINE k == bottom[i] % Capacity
<1>1. k \in Slots
    BY SlotType DEF TypeOK
<1>2. slot' = [slot EXCEPT ![i][k] = p]
    OBVIOUS
<1>3. slot \in [Workers -> [Slots -> Path]]
    BY DEF TypeOK, Slots
<1> HIDE DEF k
<1>4. [slot EXCEPT ![i][k] = p] \in [Workers -> [Slots -> Path]]
    BY <1>1, <1>3, WriteSlot
<1> QED  BY <1>2, <1>4, Zenon

\* The distribution of the top level keeps the types.
LEMMA DistributeType ==
    ASSUME TypeOK, NEW d \in TopDirs, Distribute(d)
    PROVE  TypeOK'
<1> DEFINE i == main.next % N
<1>1. i \in Workers
    BY WorkerType DEF TypeOK
<1>2. slot' = [slot EXCEPT ![i][bottom[i] % Capacity] = d] /\ d \in Path
    BY StatAssumption DEF Distribute, Path
<1>3. bottom' = [bottom EXCEPT ![i] = @ + 1]
    BY DEF Distribute
<1> HIDE DEF i
<1>4. slot' \in [Workers -> [0 .. (Capacity - 1) -> Path]]
    BY <1>1, <1>2, PutType DEF Slots
<1>5. bottom' \in [Workers -> Int]
    BY <1>1, <1>3 DEF TypeOK
<1>6. main' \in [left : SUBSET TopDirs, next : Nat] /\ counter' \in Int
    BY DEF TypeOK, Distribute
<1> QED  BY <1>4, <1>5, <1>6 DEF TypeOK, Distribute

\* The steps of push() keep the types.
LEMMA PushType ==
    ASSUME TypeOK, Bounded, NEW i \in Workers,
           PushNext(i) \/ PushPut(i) \/ PushPublish(i) \/ PushEnd(i)
    PROVE  TypeOK' /\ Bounded'
<1>1. CASE PushNext(i)
    <2>1. w' \in [Workers -> Worker] /\ Bounded'
        BY <1>1, PushNextDoes, BoundedLocal DEF Locals
    <2> QED  BY <1>1, <2>1 DEF TypeOK, PushNext
<1>2. CASE PushPut(i)
    <2>1. w' \in [Workers -> Worker] /\ Bounded'
        BY <1>2, PushPutDoes, BoundedLocal DEF Locals
    <2>2. w[i].item \in Path
        BY DEF TypeOK, Worker
    <2>3. slot' \in [Workers -> [0 .. (Capacity - 1) -> Path]]
        BY <1>2, <2>2, PutType DEF PushPut, Slots
    <2> QED  BY <1>2, <2>1, <2>3 DEF TypeOK, PushPut
<1>3. CASE PushPublish(i)
    <2>1. w' \in [Workers -> Worker] /\ Bounded'
        BY <1>3, PushPublishDoes, BoundedLocal DEF Locals
    <2>2. bottom' \in [Workers -> Int]
        BY <1>3 DEF TypeOK, PushPublish
    <2>3. UNCHANGED <<top, slot, counter, main, visits>>
        BY <1>3 DEF PushPublish
    <2> QED  BY <2>1, <2>2, <2>3 DEF TypeOK
<1>4. CASE PushEnd(i)
    <2>1. w' \in [Workers -> Worker] /\ Bounded'
        BY <1>4, PushEndDoneDoes, PushEndStolenDoes, BoundedLocal DEF Locals
    <2> QED  BY <1>4, <2>1 DEF TypeOK, PushEnd
<1> QED  BY <1>1, <1>2, <1>3, <1>4

\* The steps of pop() keep the types.
LEMMA PopType ==
    ASSUME TypeOK, Bounded, NEW i \in Workers,
           \/ PopReserve(i) \/ PopTop(i) \/ PopUndo(i) \/ PopCas(i) \/ PopLast(i)
           \/ PopTake(i)
    PROVE  TypeOK' /\ Bounded'
<1>0. w[i].b \in Int
    BY DEF TypeOK, Worker
<1>1. CASE PopReserve(i)
    <2>1. w' \in [Workers -> Worker] /\ Bounded'
        BY <1>1, PopReserveDoes, BoundedLocal DEF Locals
    <2>2. bottom' \in [Workers -> Int]
        BY <1>1 DEF TypeOK, PopReserve
    <2>3. UNCHANGED <<top, slot, counter, main, visits>>
        BY <1>1 DEF PopReserve
    <2> QED  BY <2>1, <2>2, <2>3 DEF TypeOK
<1>2. CASE PopTop(i)
    <2>1. w' \in [Workers -> Worker] /\ Bounded'
        BY <1>2, PopTopDoes, BoundedLocal DEF Locals
    <2> QED  BY <1>2, <2>1 DEF TypeOK, PopTop
<1>3. CASE PopUndo(i)
    <2>1. w' \in [Workers -> Worker] /\ Bounded'
        BY <1>3, PopUndoDoes, BoundedLocal DEF Locals
    <2>2. bottom' \in [Workers -> Int]
        BY <1>0, <1>3 DEF TypeOK, PopUndo
    <2>3. UNCHANGED <<top, slot, counter, main, visits>>
        BY <1>3 DEF PopUndo
    <2> QED  BY <2>1, <2>2, <2>3 DEF TypeOK
<1>4. CASE PopCas(i)
    <2>1. w' \in [Workers -> Worker] /\ Bounded'
        BY <1>4, PopCasDoes, BoundedLocal DEF Locals
    <2>2. top' \in [Workers -> Nat]
        <3>1. top' = top \/ top' = [top EXCEPT ![i] = @ + 1]
            BY <1>4 DEF PopCas
        <3>2. top \in [Workers -> Nat]
            BY DEF TypeOK
        <3> QED  BY <3>1, <3>2
    <2>3. UNCHANGED <<bottom, slot, counter, main, visits>>
        BY <1>4 DEF PopCas
    <2> QED  BY <2>1, <2>2, <2>3 DEF TypeOK
<1>5. CASE PopLast(i)
    <2>1. w' \in [Workers -> Worker] /\ Bounded'
        BY <1>5, PopLastDoes, BoundedLocal DEF Locals
    <2>2. bottom' \in [Workers -> Int]
        BY <1>0, <1>5 DEF TypeOK, PopLast
    <2>3. UNCHANGED <<top, slot, counter, main, visits>>
        BY <1>5 DEF PopLast
    <2> QED  BY <2>1, <2>2, <2>3 DEF TypeOK
<1>6. CASE PopTake(i)
    <2>1. w' \in [Workers -> Worker] /\ Bounded'
        BY <1>6, PopTakeDoes, BoundedLocal DEF Locals
    <2>2. slot' \in [Workers -> [0 .. (Capacity - 1) -> Path]]
        BY <1>6, TakeType DEF PopTake, Slots
    <2> QED  BY <1>6, <2>1, <2>2 DEF TypeOK, PopTake
<1> QED  BY <1>1, <1>2, <1>3, <1>4, <1>5, <1>6

\* The steps of steal() keep the types.
LEMMA StealType ==
    ASSUME TypeOK, Bounded, NEW i \in Workers,
           StealTop(i) \/ StealBottom(i) \/ StealCas(i) \/ StealMove(i)
    PROVE  TypeOK' /\ Bounded'
<1>1. CASE StealTop(i)
    <2>1. w' \in [Workers -> Worker] /\ Bounded'
        BY <1>1, StealTopDoes, BoundedLocal DEF Locals, StealTop
    <2> QED  BY <1>1, <2>1 DEF TypeOK, StealTop
<1>2. CASE StealBottom(i)
    <2>1. w[i].off < N
        BY <1>2 DEF StealBottom, Bounded
    <2>2. w' \in [Workers -> Worker] /\ Bounded'
        BY <1>2, <2>1, StealBottomSomeDoes, StealBottomNoneDoes, BoundedLocal DEF Locals
    <2> QED  BY <1>2, <2>2 DEF TypeOK, StealBottom
<1>3. CASE StealCas(i)
    <2>1. w[i].off < N
        BY <1>3 DEF StealCas, Bounded
    <2>2. w' \in [Workers -> Worker] /\ Bounded'
        BY <1>3, <2>1, StealCasWonDoes, StealCasLostDoes, BoundedLocal DEF Locals
    <2>3. w[i].n \in Nat /\ Victim(i) \in Workers
        BY VictimType DEF TypeOK, Worker
    <2>4. top' \in [Workers -> Nat]
        BY <1>3, <2>3 DEF TypeOK, StealCas
    <2>5. UNCHANGED <<bottom, slot, counter, main, visits>>
        BY <1>3 DEF StealCas
    <2> QED  BY <2>2, <2>4, <2>5 DEF TypeOK
<1>4. CASE StealMove(i)
    <2>1. w' \in [Workers -> Worker] /\ Bounded'
        BY <1>4, StealMoveMoreDoes, StealMoveLastDoes, BoundedLocal DEF Locals, StealMove
    <2>2. slot' \in [Workers -> [0 .. (Capacity - 1) -> Path]]
        BY <1>4, TakeType DEF StealMove, Slots
    <2> QED  BY <1>4, <2>1, <2>2 DEF TypeOK, StealMove
<1> QED  BY <1>1, <1>2, <1>3, <1>4

\* Every step keeps the types, and no thief passes the last victim.
LEMMA TypeStep ==
    ASSUME TypeOK, Bounded, [Next]_vars
    PROVE  TypeOK' /\ Bounded'
<1>1. ASSUME NEW d \in TopDirs, Distribute(d)
      PROVE  TypeOK' /\ Bounded'
    BY <1>1, DistributeType DEF Bounded, Distribute
<1>2. ASSUME NEW i \in Workers, Step(i)
      PROVE  TypeOK' /\ Bounded'
    <2>1. CASE Spawn(i)
        <3>1. w' \in [Workers -> Worker] /\ Bounded'
            BY <2>1, SpawnDoes, BoundedLocal DEF Locals
        <3> QED  BY <2>1, <3>1 DEF TypeOK, Spawn
    <2>2. CASE Idle(i)
        <3>1. w' \in [Workers -> Worker] /\ Bounded'
            BY <2>2, IdleDoes, BoundedLocal DEF Locals
        <3> QED  BY <2>2, <3>1 DEF TypeOK, Idle
    <2>3. CASE Read(i)
        <3>1. w' \in [Workers -> Worker] /\ Bounded'
            BY <2>3, ReadDoes, BoundedLocal DEF Locals
        <3>2. w[i].work \in Dirs \cup {Moved}
            BY DEF TypeOK, Worker, Path
        <3>3. visits' \in [Dirs -> Nat]
            BY <2>3, <3>2 DEF TypeOK, Read
        <3> QED  BY <2>3, <3>1, <3>3 DEF TypeOK, Read
    <2> QED  BY <1>2, <2>1, <2>2, <2>3, PushType, PopType, StealType DEF Step
<1>3. CASE UNCHANGED vars
    BY <1>3 DEF vars, TypeOK, Bounded
<1> QED  BY <1>1, <1>2, <1>3 DEF Next

\* In the beginning the queues are empty.
LEMMA InitType ==
    ASSUME Init
    PROVE  TypeOK /\ Bounded
<1>1. WorkerInit \in Worker
    BY StatAssumption DEF WorkerInit, Worker, Path
<1> QED  BY <1>1, StatAssumption DEF Init, TypeOK, Bounded, WorkerInit, Path

\* Whatever the threads do to each other, the indices stay numbers, the loop over the
\* victims stays within the workers, and only paths are in the slots.
THEOREM StatTypes == Spec => []TypeOK
<1>1. Init => TypeOK /\ Bounded
    BY InitType
<1>2. (TypeOK /\ Bounded) /\ [Next]_vars => (TypeOK /\ Bounded)'
    BY TypeStep
<1> QED  BY <1>1, <1>2, PTL DEF Spec

-----------------------------------------------------------------------------
(* The indices of the queues                                               *)

\* What owners and thieves know of the indices.
Indices == \A i \in Workers : Popping(i) /\ Stealing(i)

\* The types of the variables the indices are computed from.
LEMMA FieldTypes ==
    ASSUME TypeOK, NEW i \in Workers
    PROVE  /\ w[i].b \in Int /\ w[i].t \in Int /\ w[i].n \in Nat /\ w[i].off \in 0 .. N
           /\ w[i].batch \in Seq(Path) /\ w[i].todo \in Seq(Path)
           /\ w[i].item \in Path /\ w[i].work \in Path
           /\ top[i] \in Nat /\ bottom[i] \in Int
           /\ Victim(i) \in Workers
<1>1. w[i] \in Worker
    BY DEF TypeOK
<1> QED  BY <1>1, VictimType DEF TypeOK, Worker

\* A thief goes on knowing what it knew when the path it wants is gone or still there.
LEMMA StealingKept ==
    ASSUME TypeOK, TypeOK', NEW j \in Workers, Stealing(j), w'[j] = w[j],
           top[Victim(j)] =< top'[Victim(j)],
           /\ w[j].pc = "stealcas"
           /\ w[j].t = top[Victim(j)] /\ w[j].t = top'[Victim(j)]
           => \/ w[j].t < bottom'[Victim(j)]
              \/ w[j].t = bottom'[Victim(j)] /\ w'[Victim(j)].pc \in {"poptop", "popcas"}
    PROVE  Stealing(j)'
<1>1. Victim(j)' = Victim(j)
    BY DEF Victim
<1>2. Victim(j) \in Workers /\ top[Victim(j)] \in Nat /\ top'[Victim(j)] \in Nat
      /\ w[j].t \in Int
    BY FieldTypes DEF TypeOK
<1> QED  BY <1>1, <1>2 DEF Stealing

\* A step that leaves the indices alone, of a worker that has not reserved a path.
LEMMA QuietStep ==
    ASSUME TypeOK, TypeOK', Indices, NEW i \in Workers, top' = top, bottom' = bottom,
           \A j \in Workers \ {i} : w'[j] = w[j],
           ~Reserved(i), ~Reserved(i)', w'[i].pc # "poptake", Stealing(i)'
    PROVE  Indices'
<1> SUFFICES ASSUME NEW j \in Workers
             PROVE  Popping(j)' /\ Stealing(j)'
    BY DEF Indices
<1>1. CASE j = i
    <2>1. top[i] =< bottom[i]
        BY DEF Indices, Popping
    <2> QED  BY <1>1, <2>1 DEF Popping, Reserved
<1>2. CASE j # i
    <2>1. w'[j] = w[j] /\ Popping(j) /\ Stealing(j)
        BY <1>2 DEF Indices
    <2>2. Popping(j)'
        BY <2>1 DEF Popping, Reserved
    <2>3. Victim(j) \in Workers /\ top[Victim(j)] \in Nat
        BY FieldTypes
    <2>4. CASE Victim(j) = i
        <3>1. w[i].pc \notin {"poptop", "popcas"}
            BY DEF Reserved
        <3> QED  BY <2>1, <2>2, <2>3, <2>4, <3>1, StealingKept DEF Stealing
    <2>5. CASE Victim(j) # i
        <3>1. w'[Victim(j)] = w[Victim(j)]
            BY <2>3, <2>5
        <3> QED  BY <2>1, <2>2, <2>3, <3>1, StealingKept DEF Stealing
    <2> QED  BY <2>4, <2>5
<1> QED  BY <1>1, <1>2

\* A step of an owner on its own indices: whoever wants the first path of the queue
\* still finds it there, or the owner about to compete for it.
LEMMA OwnerStep ==
    ASSUME TypeOK, TypeOK', Indices, NEW i \in Workers,
           \A j \in Workers \ {i} : w'[j] = w[j],
           \A j \in Workers \ {i} : top'[j] = top[j] /\ bottom'[j] = bottom[j],
           top[i] =< top'[i],
           top'[i] = top[i] /\ (\/ top[i] < bottom[i]
                                \/ top[i] = bottom[i] /\ w[i].pc \in {"poptop", "popcas"})
           => \/ top'[i] < bottom'[i]
              \/ top'[i] = bottom'[i] /\ w'[i].pc \in {"poptop", "popcas"},
           Popping(i)', Stealing(i)'
    PROVE  Indices'
<1> SUFFICES ASSUME NEW j \in Workers \ {i}
             PROVE  Popping(j)' /\ Stealing(j)'
    BY DEF Indices
<1>1. w'[j] = w[j] /\ Popping(j) /\ Stealing(j)
    BY DEF Indices
<1>2. Popping(j)'
    BY <1>1 DEF Popping, Reserved
<1>3. Victim(j) \in Workers /\ top[Victim(j)] \in Nat
    BY FieldTypes
<1>4. CASE Victim(j) = i
    BY <1>1, <1>2, <1>3, <1>4, StealingKept DEF Stealing
<1>5. CASE Victim(j) # i
    <2>1. w'[Victim(j)] = w[Victim(j)] /\ top'[Victim(j)] = top[Victim(j)]
          /\ bottom'[Victim(j)] = bottom[Victim(j)]
        BY <1>3, <1>5
    <2> QED  BY <1>1, <1>2, <1>3, <2>1, StealingKept DEF Stealing
<1> QED  BY <1>4, <1>5

\* A path is published.
LEMMA PublishIndices ==
    ASSUME TypeOK, TypeOK', Indices, NEW i \in Workers, PushPublish(i)
    PROVE  Indices'
<1>1. w[i].pc = "publish" /\ w'[i].pc = "push" /\ \A j \in Workers \ {i} : w'[j] = w[j]
    BY PushPublishDoes DEF Locals, PushPublish
<1>2. bottom'[i] = bottom[i] + 1 /\ \A j \in Workers \ {i} : bottom'[j] = bottom[j]
    BY DEF TypeOK, PushPublish
<1>3. top' = top
    BY DEF PushPublish
<1>4. top[i] \in Nat /\ bottom[i] \in Int /\ top[i] =< bottom[i]
    BY <1>1, FieldTypes DEF Indices, Popping, Reserved
<1>5. Popping(i)' /\ Stealing(i)'
    BY <1>1, <1>2, <1>3, <1>4 DEF Popping, Reserved, Stealing
<1> QED  BY <1>1, <1>2, <1>3, <1>4, <1>5, OwnerStep

\* The distribution publishes a path.
LEMMA DistributeIndices ==
    ASSUME TypeOK, TypeOK', Indices, Phases, NEW d \in TopDirs, Distribute(d)
    PROVE  Indices'
<1>1. PICK i \in Workers : i = main.next % N
    BY WorkerType DEF TypeOK
<1>2. bottom' = [bottom EXCEPT ![i] = @ + 1] /\ top' = top /\ w' = w
    BY <1>1 DEF Distribute
<1>3. w[i].pc = "start"
    BY <1>1 DEF Distribute, Phases
<1>4. bottom'[i] = bottom[i] + 1 /\ \A j \in Workers \ {i} : bottom'[j] = bottom[j]
    BY <1>1, <1>2 DEF TypeOK
<1>5. top[i] \in Nat /\ bottom[i] \in Int /\ top[i] =< bottom[i]
    BY <1>1, <1>3, FieldTypes DEF Indices, Popping, Reserved
<1>6. w'[i].pc = "start" /\ top'[i] = top[i] /\ \A j \in Workers \ {i} : w'[j] = w[j]
    BY <1>2, <1>3
<1>7. Popping(i)' /\ Stealing(i)'
    BY <1>4, <1>5, <1>6 DEF Popping, Reserved, Stealing
<1>8. \A j \in Workers \ {i} : top'[j] = top[j] /\ bottom'[j] = bottom[j]
    BY <1>2, <1>4
<1> QED  BY <1>1, <1>3, <1>4, <1>5, <1>6, <1>7, <1>8, OwnerStep

\* pop() reserves the last path: the queue may be short of it, but not of two.
LEMMA PopReserveIndices ==
    ASSUME TypeOK, TypeOK', Indices, Calm, NEW i \in Workers, PopReserve(i)
    PROVE  Indices'
<1>1. /\ w[i].pc = "pop" /\ w'[i].pc = "poptop" /\ w'[i].b = bottom[i] - 1
      /\ \A j \in Workers \ {i} : w'[j] = w[j]
    BY PopReserveDoes DEF Locals, PopReserve
<1>2. bottom'[i] = bottom[i] - 1 /\ \A j \in Workers \ {i} : bottom'[j] = bottom[j]
    BY DEF TypeOK, PopReserve
<1>3. top' = top
    BY DEF PopReserve
<1>4. top[i] \in Nat /\ bottom[i] \in Int /\ top[i] =< bottom[i] /\ bottom[i] < Capacity
    BY <1>1, FieldTypes DEF Indices, Popping, Reserved, Calm
<1>5. Popping(i)' /\ Stealing(i)'
    BY <1>1, <1>2, <1>3, <1>4, StatAssumption DEF Popping, Reserved, Stealing
<1> QED  BY <1>1, <1>2, <1>3, <1>4, <1>5, OwnerStep

\* pop() compares the indices.
LEMMA PopTopIndices ==
    ASSUME TypeOK, TypeOK', Indices, NEW i \in Workers, PopTop(i)
    PROVE  Indices'
<1>1. /\ w[i].pc = "poptop"
      /\ w'[i].pc = IF top[i] > w[i].b THEN "popundo"
                    ELSE IF top[i] = w[i].b THEN "popcas" ELSE "poptake"
      /\ w'[i].b = w[i].b /\ w'[i].t = top[i]
      /\ \A j \in Workers \ {i} : w'[j] = w[j]
    BY PopTopDoes DEF Locals, PopTop
<1>2. top' = top /\ bottom' = bottom
    BY DEF PopTop
<1>3. /\ top[i] \in Nat /\ bottom[i] \in Int /\ w[i].b \in Int
      /\ bottom[i] = w[i].b /\ w[i].b < Capacity /\ top[i] =< w[i].b + 1
    BY <1>1, FieldTypes DEF Indices, Popping, Reserved
<1>4. Popping(i)' /\ Stealing(i)'
    BY <1>1, <1>2, <1>3 DEF Popping, Reserved, Stealing
<1> QED  BY <1>1, <1>2, <1>3, <1>4, OwnerStep

\* pop() gives back what it reserved.
LEMMA PopUndoIndices ==
    ASSUME TypeOK, TypeOK', Indices, NEW i \in Workers, PopUndo(i)
    PROVE  Indices'
<1>1. /\ w[i].pc = "popundo" /\ w'[i].pc = "steal" /\ w'[i].off = 1
      /\ \A j \in Workers \ {i} : w'[j] = w[j]
    BY PopUndoDoes DEF Locals, PopUndo
<1>2. w[i].b \in Int
    BY FieldTypes
<1>3. /\ bottom'[i] = w[i].b + 1 /\ \A j \in Workers \ {i} : bottom'[j] = bottom[j]
      /\ top' = top
    BY <1>2 DEF TypeOK, PopUndo
<1>4. top[i] \in Nat /\ bottom[i] = w[i].b /\ top[i] = w[i].b + 1
    BY <1>1, FieldTypes DEF Indices, Popping, Reserved
<1>5. Popping(i)' /\ Stealing(i)'
    BY <1>1, <1>2, <1>3, <1>4, StatAssumption DEF Popping, Reserved, Stealing
<1> QED  BY <1>1, <1>2, <1>3, <1>4, <1>5, OwnerStep

\* pop() competes for the last path.
LEMMA PopCasIndices ==
    ASSUME TypeOK, TypeOK', Indices, NEW i \in Workers, PopCas(i)
    PROVE  Indices'
<1>1. /\ w[i].pc = "popcas" /\ w'[i].b = w[i].b
      /\ w'[i].pc = IF top[i] = w[i].t THEN "poplast" ELSE "popundo"
      /\ \A j \in Workers \ {i} : w'[j] = w[j]
    BY PopCasDoes DEF Locals, PopCas
<1>2. /\ w[i].b \in Int /\ top[i] \in Nat /\ bottom[i] = w[i].b /\ w[i].b < Capacity
      /\ w[i].t = w[i].b /\ w[i].b =< top[i] /\ top[i] =< w[i].b + 1 /\ w[i].b >= 0
    BY <1>1, FieldTypes DEF Indices, Popping, Reserved
<1>3. /\ top'[i] = w[i].b + 1 /\ bottom' = bottom
      /\ \A j \in Workers \ {i} : top'[j] = top[j]
    <2>1. top \in [Workers -> Nat]
        BY DEF TypeOK
    <2>2. CASE top[i] = w[i].t
        <3>1. top' = [top EXCEPT ![i] = @ + 1] /\ bottom' = bottom
            BY <2>2 DEF PopCas
        <3> QED  BY <1>2, <2>1, <2>2, <3>1
    <2>3. CASE top[i] # w[i].t
        <3>1. top' = top /\ bottom' = bottom
            BY <2>3 DEF PopCas
        <3> QED  BY <1>2, <2>3, <3>1
    <2> QED  BY <2>2, <2>3
<1>4. Popping(i)' /\ Stealing(i)'
    BY <1>1, <1>2, <1>3 DEF Popping, Reserved, Stealing
<1> QED  BY <1>1, <1>2, <1>3, <1>4, OwnerStep

\* pop() has the last path, and puts bottom where top is.
LEMMA PopLastIndices ==
    ASSUME TypeOK, TypeOK', Indices, NEW i \in Workers, PopLast(i)
    PROVE  Indices'
<1>1. /\ w[i].pc = "poplast" /\ w'[i].pc = "poptake" /\ w'[i].b = w[i].b
      /\ \A j \in Workers \ {i} : w'[j] = w[j]
    BY PopLastDoes DEF Locals, PopLast
<1>2. w[i].b \in Int
    BY FieldTypes
<1>3. /\ bottom'[i] = w[i].b + 1 /\ \A j \in Workers \ {i} : bottom'[j] = bottom[j]
      /\ top' = top
    BY <1>2 DEF TypeOK, PopLast
<1>4. /\ top[i] \in Nat /\ bottom[i] = w[i].b /\ top[i] = w[i].b + 1
      /\ w[i].b >= 0 /\ w[i].b < Capacity
    BY <1>1, FieldTypes DEF Indices, Popping, Reserved
<1>5. Popping(i)' /\ Stealing(i)'
    BY <1>1, <1>2, <1>3, <1>4 DEF Popping, Reserved, Stealing
<1> QED  BY <1>1, <1>2, <1>3, <1>4, <1>5, OwnerStep

\* A thief claims one path: the owner has not taken it, and the one it may have
\* reserved is another, or it has not compared the indices yet.
LEMMA StealCasWonIndices ==
    ASSUME TypeOK, TypeOK', Indices, Calm, NEW i \in Workers, StealCas(i),
           top[Victim(i)] = w[i].t
    PROVE  Indices'
<1>0. PICK v \in Workers : v = Victim(i)
    BY FieldTypes
<1>1. /\ w[i].pc = "stealcas" /\ w'[i].pc = "stealmove" /\ w'[i].off = w[i].off
      /\ w'[i].t = w[i].t /\ w'[i].n = w[i].n
      /\ \A j \in Workers \ {i} : w'[j] = w[j]
    BY StealCasWonDoes DEF Locals, StealCas
<1>2. w[i].n \in Nat /\ w[i].t \in Int
    BY FieldTypes
<1>3. /\ w[i].off \in 1 .. (N - 1) /\ w[i].n >= 1 /\ w[i].t >= 0
      /\ \/ w[i].t < bottom[v]
         \/ w[i].t = bottom[v] /\ w[v].pc \in {"poptop", "popcas"}
    BY <1>0, <1>1 DEF Indices, Stealing
<1>4. v # i
    BY <1>0, <1>3, VictimOther DEF Victim
<1>5. w[i].n = 1 /\ bottom[v] < Capacity /\ top[v] \in Nat /\ bottom[v] \in Int
    BY <1>2, <1>3, FieldTypes DEF Calm
<1>6. top' = [top EXCEPT ![v] = @ + w[i].n] /\ bottom' = bottom
    BY <1>0 DEF StealCas
<1>7. Victim(i)' = v
    BY <1>0, <1>1 DEF Victim
<1>8. /\ top'[v] = top[v] + 1 /\ \A j \in Workers \ {v} : top'[j] = top[j]
    BY <1>2, <1>5, <1>6 DEF TypeOK
<1>9. Popping(v)'
    <2>1. w'[v] = w[v] /\ Popping(v) /\ w[v].b \in Int /\ w[v].t \in Int /\ top[v] = w[i].t
        BY <1>0, <1>1, <1>4, FieldTypes DEF Indices
    <2> QED  BY <1>3, <1>5, <1>6, <1>8, <2>1 DEF Popping, Reserved
<1>10. Stealing(i)'
    <2>1. w[i].t < Capacity
        BY <1>2, <1>3, <1>5, StatAssumption
    <2> QED  BY <1>0, <1>1, <1>2, <1>3, <1>5, <1>7, <1>8, <2>1 DEF Stealing
<1>11. ASSUME NEW j \in Workers, j # v
       PROVE  Popping(j)'
    <2>1. top'[j] = top[j] /\ bottom'[j] = bottom[j] /\ Popping(j)
        BY <1>6, <1>8, <1>11 DEF Indices
    <2>2. CASE j = i
        <3>1. top[i] =< bottom[i]
            BY <1>1, <2>1, <2>2 DEF Popping, Reserved
        <3> QED  BY <1>1, <2>1, <2>2, <3>1 DEF Popping, Reserved
    <2>3. CASE j # i
        BY <1>1, <2>1, <2>3 DEF Popping, Reserved
    <2> QED  BY <2>2, <2>3
<1>12. ASSUME NEW j \in Workers, j # i
       PROVE  Stealing(j)'
    <2>1. w'[j] = w[j] /\ Stealing(j) /\ Victim(j) \in Workers /\ w[j].t \in Int
        BY <1>1, <1>12, FieldTypes DEF Indices
    <2>2. top[Victim(j)] \in Nat /\ w'[Victim(j)].pc \in {"poptop", "popcas"}
            <=> top[Victim(j)] \in Nat /\ w[Victim(j)].pc \in {"poptop", "popcas"}
        BY <1>1, <2>1
    <2>3. CASE Victim(j) = v
        <3>1. w[j].pc = "stealcas" => w[j].t # top'[v]
            BY <1>5, <1>8, <2>1, <2>3 DEF Stealing
        <3> QED  BY <1>5, <1>8, <1>12, <2>1, <2>3, <3>1, StealingKept
    <2>4. CASE Victim(j) # v
        <3>1. top'[Victim(j)] = top[Victim(j)] /\ bottom'[Victim(j)] = bottom[Victim(j)]
              /\ top[Victim(j)] \in Nat
            BY <1>6, <1>8, <2>1, <2>4, FieldTypes
        <3> QED  BY <1>12, <2>1, <2>2, <3>1, StealingKept DEF Stealing
    <2> QED  BY <2>3, <2>4
<1> QED  BY <1>9, <1>10, <1>11, <1>12 DEF Indices

\* A worker that is between two directories, or in one, leaves the indices alone.
LEMMA QuietIndices ==
    ASSUME TypeOK, TypeOK', Indices, NEW i \in Workers,
           \/ Spawn(i) \/ PushNext(i) \/ PushPut(i) \/ PushEnd(i) \/ PopTake(i)
           \/ Idle(i) \/ Read(i)
    PROVE  Indices'
<1>1. top' = top /\ bottom' = bottom
    BY DEF Spawn, PushNext, PushPut, PushEnd, PopTake, Idle, Read
<1>2. w[i].pc \in {"start", "push", "put", "poptake", "steal", "read"}
    BY DEF Spawn, PushNext, PushPut, PushEnd, PopTake, Idle, Read
<1>3. /\ w'[i].pc \in {"pop", "put", "publish", "read", "done", "push"}
      /\ \A j \in Workers \ {i} : w'[j] = w[j]
    BY SpawnDoes, PushNextDoes, PushPutDoes, PushEndDoneDoes, PushEndStolenDoes,
       PopTakeDoes, IdleDoes, ReadDoes DEF Locals
<1>4. ~Reserved(i) /\ ~Reserved(i)' /\ Stealing(i)'
    BY <1>2, <1>3 DEF Reserved, Stealing
<1> QED  BY <1>1, <1>3, <1>4, QuietStep

\* A thief that looks, comes too late or moves a path leaves the indices alone.
LEMMA ThiefIndices ==
    ASSUME TypeOK, TypeOK', Indices, Calm, NEW i \in Workers,
           \/ StealTop(i) \/ StealBottom(i) \/ StealMove(i)
           \/ StealCas(i) /\ top[Victim(i)] # w[i].t
    PROVE  Indices'
<1>0. PICK v \in Workers : v = Victim(i)
    BY FieldTypes
<1>1. top' = top /\ bottom' = bottom
    BY DEF StealTop, StealBottom, StealMove, StealCas
<1>2. w[i].n \in Nat /\ w[i].t \in Int /\ w[i].off \in 0 .. N
      /\ top[v] \in Nat /\ bottom[v] \in Int
    BY FieldTypes
<1>3. Stealing(i)
    BY DEF Indices
<1>4. CASE StealTop(i)
    <2>1. /\ w[i].pc = "steal" /\ w'[i].pc = "stealbottom" /\ w'[i].off = w[i].off
          /\ w'[i].t = top[v] /\ w[i].off < N
          /\ \A j \in Workers \ {i} : w'[j] = w[j]
        BY <1>0, <1>4, StealTopDoes DEF Locals, StealTop
    <2>2. Victim(i)' = v
        BY <1>0, <2>1 DEF Victim
    <2>3. w[i].off \in 1 .. (N - 1)
        BY <1>2, <1>3, <2>1, StatAssumption DEF Stealing
    <2>4. Stealing(i)'
        BY <1>1, <1>2, <2>1, <2>2, <2>3 DEF Stealing
    <2> QED  BY <1>1, <2>1, <2>4, QuietStep DEF Reserved
<1>5. CASE StealBottom(i) /\ bottom[v] - w[i].t > 0
    <2>1. /\ w[i].pc = "stealbottom" /\ w'[i].pc = "stealcas" /\ w'[i].off = w[i].off
          /\ w'[i].t = w[i].t /\ w'[i].n = BatchSize(bottom[v] - w[i].t)
          /\ \A j \in Workers \ {i} : w'[j] = w[j]
        BY <1>0, <1>5, StealBottomSomeDoes DEF Locals, StealBottom
    <2>2. Victim(i)' = v
        BY <1>0, <2>1 DEF Victim
    <2>3. w'[i].n >= 1
        BY <1>2, <1>5, <2>1, BatchType
    <2>4. Stealing(i)'
        BY <1>0, <1>1, <1>2, <1>3, <1>5, <2>1, <2>2, <2>3 DEF Stealing
    <2> QED  BY <1>1, <2>1, <2>4, QuietStep DEF Reserved
<1>6. CASE \/ StealBottom(i) /\ ~(bottom[v] - w[i].t > 0)
           \/ StealCas(i) /\ top[v] # w[i].t
    <2>1. w[i].off \in 1 .. (N - 1) /\ w[i].pc \in {"stealbottom", "stealcas"}
        BY <1>3, <1>6 DEF Stealing, StealBottom, StealCas
    <2>2. /\ w'[i].pc = "steal" /\ w'[i].off = w[i].off + 1
          /\ \A j \in Workers \ {i} : w'[j] = w[j]
        <3>1. w[i].off < N
            BY <2>1, StatAssumption
        <3>2. CASE StealBottom(i) /\ ~(bottom[v] - w[i].t > 0)
            BY <1>0, <3>1, <3>2, StealBottomNoneDoes DEF Locals
        <3>3. CASE StealCas(i) /\ top[v] # w[i].t
            BY <1>0, <3>1, <3>3, StealCasLostDoes DEF Locals
        <3> QED  BY <1>6, <3>2, <3>3
    <2>3. Stealing(i)'
        BY <2>1, <2>2, StatAssumption DEF Stealing
    <2> QED  BY <1>1, <2>1, <2>2, <2>3, QuietStep DEF Reserved
<1>7. CASE StealMove(i)
    <2>1. w[i].pc = "stealmove"
        BY <1>7 DEF StealMove
    <2>2. /\ w'[i].pc \in {"stealmove", "push"} /\ w'[i].off = w[i].off
          /\ w'[i].t = w[i].t /\ w'[i].n = w[i].n
          /\ \A j \in Workers \ {i} : w'[j] = w[j]
        BY <1>7, <2>1, StealMoveMoreDoes, StealMoveLastDoes DEF Locals
    <2>3. Victim(i)' = v
        BY <1>0, <2>2 DEF Victim
    <2>4. Stealing(i)'
        <3>1. /\ w[i].off \in 1 .. (N - 1) /\ w[i].t >= 0 /\ w[i].n >= 1
              /\ w[i].t < top[v] /\ w[i].t < Capacity
            BY <1>0, <1>3, <2>1 DEF Stealing
        <3>2. top'[v] = top[v]
            BY <1>1
        <3> QED  BY <2>2, <2>3, <3>1, <3>2 DEF Stealing
    <2> QED  BY <1>1, <2>1, <2>2, <2>4, QuietStep DEF Reserved
<1> QED  BY <1>0, <1>4, <1>5, <1>6, <1>7

\* Every step of a calm run keeps what the workers know of the indices.
LEMMA IndexStep ==
    ASSUME TypeOK, TypeOK', Indices, Phases, Calm, Next
    PROVE  Indices'
<1>1. ASSUME NEW i \in Workers, Step(i)
      PROVE  Indices'
    <2>1. CASE StealCas(i)
        BY <2>1, StealCasWonIndices, ThiefIndices
    <2> QED  BY <1>1, <2>1, PublishIndices, PopReserveIndices, PopTopIndices,
                PopUndoIndices, PopCasIndices, PopLastIndices, QuietIndices, ThiefIndices
             DEF Step
<1> QED  BY <1>1, DistributeIndices DEF Next

-----------------------------------------------------------------------------
(* Who may take which path                                                 *)

\* No path is taken out of a queue, and nobody claims one.
NothingMoves ==
    \A i \in Workers, k \in Slots :
        /\ Queued(i, k)' <=> Queued(i, k)
        /\ \A j \in Workers : Claims(j, i, k)' <=> Claims(j, i, k)

\* Worker h takes the path in slot s of queue q out of the queue, and has it.
Secured(h, q, s) ==
    /\ Queued(q, s)
    /\ \A i \in Workers, k \in Slots :
        /\ Queued(i, k)' <=> Queued(i, k) /\ ~(i = q /\ k = s)
        /\ \A j \in Workers :
            Claims(j, i, k)' <=> Claims(j, i, k) \/ (j = h /\ i = q /\ k = s)

\* A path that is secured was in the queue, and then it is claimed by one worker.
LEMMA SecuredOnce ==
    ASSUME Sole, NEW h \in Workers,
           NothingMoves \/ \E q \in Workers, s \in Slots : Secured(h, q, s)
    PROVE  Sole' /\ \A i \in Workers, k \in Slots : Full(i, k)' <=> Full(i, k)
<1>1. CASE NothingMoves
    <2>1. Sole'
        BY <1>1 DEF Sole, NothingMoves
    <2>2. \A i \in Workers, k \in Slots : Full(i, k)' <=> Full(i, k)
        BY <1>1 DEF Full, NothingMoves
    <2> QED  BY <2>1, <2>2
<1>2. ASSUME NEW q \in Workers, NEW s \in Slots, Secured(h, q, s)
      PROVE  Sole' /\ \A i \in Workers, k \in Slots : Full(i, k)' <=> Full(i, k)
    <2>1. \A j \in Workers : ~Claims(j, q, s)
        BY <1>2 DEF Sole, Secured
    <2>2. Sole'
        BY <1>2, <2>1 DEF Sole, Secured
    <2>3. \A i \in Workers, k \in Slots : Full(i, k)' <=> Full(i, k)
        BY <1>2 DEF Full, Secured
    <2> QED  BY <2>2, <2>3
<1> QED  BY <1>1, <1>2

\* What a worker claims does not depend on the others.
LEMMA ClaimsKept ==
    ASSUME NEW j \in Workers, w'[j] = w[j], NEW i \in Workers, NEW k \in Slots
    PROVE  Claims(j, i, k)' <=> Claims(j, i, k)
BY DEF Claims, Victim

\* What is in a queue depends on its indices and its owner.
LEMMA QueuedKept ==
    ASSUME NEW i \in Workers, w'[i] = w[i], top'[i] = top[i], bottom'[i] = bottom[i],
           NEW k \in Slots
    PROVE  Queued(i, k)' <=> Queued(i, k)
BY DEF Queued, End, Reserved

\* A step of a worker that leaves the end of its queue, and what it claims.
LEMMA NothingMovesWhen ==
    ASSUME NEW i \in Workers, \A j \in Workers \ {i} : w'[j] = w[j],
           top' = top, \A j \in Workers \ {i} : bottom'[j] = bottom[j],
           End(i)' = End(i),
           \A q \in Workers, k \in Slots : Claims(i, q, k)' <=> Claims(i, q, k)
    PROVE  NothingMoves
<1>1. \A k \in Slots : Queued(i, k)' <=> Queued(i, k)
    BY DEF Queued
<1>2. \A q \in Workers \ {i}, k \in Slots : Queued(q, k)' <=> Queued(q, k)
    BY QueuedKept
<1>3. \A j \in Workers \ {i}, q \in Workers, k \in Slots :
            Claims(j, q, k)' <=> Claims(j, q, k)
    BY ClaimsKept
<1> QED  BY <1>1, <1>2, <1>3 DEF NothingMoves

\* A worker that claims nothing, before and after its step.
LEMMA NoClaims ==
    ASSUME NEW i \in Workers,
           w[i].pc \notin {"poplast", "poptake", "stealmove"},
           w'[i].pc \notin {"poplast", "poptake", "stealmove"}
    PROVE  \A q \in Workers, k \in Slots : Claims(i, q, k)' <=> Claims(i, q, k)
BY DEF Claims

\* A worker outside of pop() that leaves the indices alone.
LEMMA QuietMoves ==
    ASSUME TypeOK, NEW i \in Workers,
           \/ Spawn(i) \/ PushNext(i) \/ PushPut(i) \/ PushEnd(i)
           \/ StealTop(i) \/ StealBottom(i) \/ Idle(i) \/ Read(i)
           \/ StealCas(i) /\ top[Victim(i)] # w[i].t,
           Indices
    PROVE  NothingMoves
<1>1. top' = top /\ bottom' = bottom
    BY DEF Spawn, PushNext, PushPut, PushEnd, StealTop, StealBottom, Idle, Read, StealCas
<1>2. w[i].pc \in {"start", "push", "put", "steal", "stealbottom", "stealcas", "read"}
    BY DEF Spawn, PushNext, PushPut, PushEnd, StealTop, StealBottom, Idle, Read, StealCas
<1>3. w[i].pc \in {"stealbottom", "stealcas"} => w[i].off < N
    <2>1. w[i].pc \in {"stealbottom", "stealcas"} => w[i].off \in 1 .. (N - 1)
        BY DEF Indices, Stealing
    <2> QED  BY <2>1, StatAssumption
<1>4. /\ w'[i].pc \in {"pop", "put", "publish", "read", "done", "push", "stealbottom",
                       "stealcas", "steal"}
      /\ \A j \in Workers \ {i} : w'[j] = w[j]
    <2>1. CASE Spawn(i) \/ PushNext(i) \/ PushPut(i) \/ PushEnd(i) \/ Idle(i) \/ Read(i)
        BY <2>1, SpawnDoes, PushNextDoes, PushPutDoes, PushEndDoneDoes,
           PushEndStolenDoes, IdleDoes, ReadDoes DEF Locals
    <2>2. CASE StealTop(i)
        BY <2>2, StealTopDoes DEF Locals
    <2>3. CASE StealBottom(i)
        <3>1. w[i].off < N
            BY <1>3, <2>3 DEF StealBottom
        <3> QED  BY <2>3, <3>1, StealBottomSomeDoes, StealBottomNoneDoes DEF Locals
    <2>4. CASE StealCas(i) /\ top[Victim(i)] # w[i].t
        <3>1. w[i].off < N
            BY <1>3, <2>4 DEF StealCas
        <3> QED  BY <2>4, <3>1, StealCasLostDoes DEF Locals
    <2> QED  BY <2>1, <2>2, <2>3, <2>4
<1>5. End(i)' = End(i)
    BY <1>1, <1>2, <1>4 DEF End, Reserved
<1> QED  BY <1>1, <1>2, <1>4, <1>5, NoClaims, NothingMovesWhen

\* pop() does not decide about a path before it has compared the indices.
LEMMA PopMoves ==
    ASSUME TypeOK, Indices, NEW i \in Workers,
           \/ PopReserve(i) \/ PopUndo(i) \/ PopLast(i)
           \/ PopTop(i) /\ top[i] >= w[i].b
           \/ PopCas(i) /\ top[i] # w[i].t
    PROVE  NothingMoves
<1>1. Popping(i) /\ top[i] \in Nat /\ bottom[i] \in Int /\ w[i].b \in Int
    BY FieldTypes DEF Indices
<1>2. CASE PopReserve(i)
    <2>1. /\ w[i].pc = "pop" /\ w'[i].pc = "poptop"
          /\ \A j \in Workers \ {i} : w'[j] = w[j]
        BY <1>2, PopReserveDoes DEF Locals, PopReserve
    <2>2. /\ top' = top /\ bottom'[i] = bottom[i] - 1
          /\ \A j \in Workers \ {i} : bottom'[j] = bottom[j]
        BY <1>2 DEF TypeOK, PopReserve
    <2>3. End(i)' = End(i)
        BY <1>1, <2>1, <2>2 DEF End, Reserved
    <2> QED  BY <2>1, <2>2, <2>3, NoClaims, NothingMovesWhen
<1>3. CASE PopUndo(i)
    <2>1. /\ w[i].pc = "popundo" /\ w'[i].pc = "steal"
          /\ \A j \in Workers \ {i} : w'[j] = w[j]
        BY <1>3, PopUndoDoes DEF Locals, PopUndo
    <2>2. /\ top' = top /\ bottom'[i] = w[i].b + 1
          /\ \A j \in Workers \ {i} : bottom'[j] = bottom[j]
        BY <1>1, <1>3 DEF TypeOK, PopUndo
    <2>3. End(i)' = End(i)
        BY <1>1, <2>1, <2>2 DEF End, Reserved, Popping
    <2> QED  BY <2>1, <2>2, <2>3, NoClaims, NothingMovesWhen
<1>4. CASE PopLast(i)
    <2>1. /\ w[i].pc = "poplast" /\ w'[i].pc = "poptake" /\ w'[i].b = w[i].b
          /\ \A j \in Workers \ {i} : w'[j] = w[j]
        BY <1>4, PopLastDoes DEF Locals, PopLast
    <2>2. /\ top' = top /\ bottom'[i] = w[i].b + 1
          /\ \A j \in Workers \ {i} : bottom'[j] = bottom[j]
        BY <1>1, <1>4 DEF TypeOK, PopLast
    <2>3. End(i)' = End(i)
        BY <1>1, <2>1, <2>2 DEF End, Reserved, Popping
    <2>4. \A q \in Workers, k \in Slots : Claims(i, q, k)' <=> Claims(i, q, k)
        BY <2>1 DEF Claims
    <2> QED  BY <2>1, <2>2, <2>3, <2>4, NothingMovesWhen
<1>5. CASE PopTop(i) /\ top[i] >= w[i].b
    <2>1. /\ w[i].pc = "poptop" /\ w'[i].pc \in {"popundo", "popcas"}
          /\ \A j \in Workers \ {i} : w'[j] = w[j]
        <3>1. /\ w[i].pc = "poptop"
              /\ w'[i].pc = IF top[i] > w[i].b THEN "popundo"
                            ELSE IF top[i] = w[i].b THEN "popcas" ELSE "poptake"
              /\ \A j \in Workers \ {i} : w'[j] = w[j]
            BY <1>5, PopTopDoes DEF Locals, PopTop
        <3> QED  BY <1>1, <1>5, <3>1
    <2>2. top' = top /\ bottom' = bottom
        BY <1>5 DEF PopTop
    <2>3. End(i)' = End(i)
        BY <2>1, <2>2 DEF End, Reserved
    <2> QED  BY <2>1, <2>2, <2>3, NoClaims, NothingMovesWhen
<1>6. CASE PopCas(i) /\ top[i] # w[i].t
    <2>1. /\ w[i].pc = "popcas" /\ w'[i].pc = "popundo"
          /\ \A j \in Workers \ {i} : w'[j] = w[j]
        BY <1>6, PopCasDoes DEF Locals, PopCas
    <2>2. top' = top /\ bottom' = bottom
        BY <1>6 DEF PopCas
    <2>3. End(i)' = End(i)
        BY <2>1, <2>2 DEF End, Reserved
    <2> QED  BY <2>1, <2>2, <2>3, NoClaims, NothingMovesWhen
<1> QED  BY <1>2, <1>3, <1>4, <1>5, <1>6

\* pop() gets a path: it is sure of it once top is below, or has been moved past it.
LEMMA PopSecures ==
    ASSUME TypeOK, Indices, NEW i \in Workers,
           \/ PopTop(i) /\ top[i] < w[i].b
           \/ PopCas(i) /\ top[i] = w[i].t
    PROVE  w[i].b \in Slots /\ Secured(i, i, w[i].b)
<1> DEFINE s == w[i].b
<1>1. /\ Popping(i) /\ top[i] \in Nat /\ bottom[i] \in Int /\ w[i].b \in Int
      /\ top \in [Workers -> Nat]
    BY FieldTypes DEF Indices, TypeOK
<1>2. PICK s0 \in Slots : s0 = s
    <2>1. 0 =< s /\ s < Capacity
        BY <1>1 DEF Popping, Reserved, PopTop, PopCas
    <2> QED  BY <1>1, <2>1, StatAssumption DEF Slots
<1>3. /\ \A j \in Workers \ {i} : w'[j] = w[j]
      /\ w'[i].b = s0 /\ w[i].pc \in {"poptop", "popcas"}
      /\ bottom' = bottom /\ bottom[i] = s0 /\ top[i] =< s0
      /\ \A j \in Workers \ {i} : top'[j] = top[j]
      /\ \/ w'[i].pc = "poptake" /\ top'[i] = top[i]
         \/ w'[i].pc = "poplast" /\ top'[i] = s0 + 1 /\ top[i] = s0
    <2>1. CASE PopTop(i) /\ top[i] < w[i].b
        <3>1. /\ w[i].pc = "poptop" /\ w'[i].pc = "poptake" /\ w'[i].b = w[i].b
              /\ \A j \in Workers \ {i} : w'[j] = w[j]
            <4>1. /\ w[i].pc = "poptop" /\ w'[i].b = w[i].b
                  /\ w'[i].pc = IF top[i] > w[i].b THEN "popundo"
                                ELSE IF top[i] = w[i].b THEN "popcas" ELSE "poptake"
                  /\ \A j \in Workers \ {i} : w'[j] = w[j]
                BY <2>1, PopTopDoes DEF Locals, PopTop
            <4> QED  BY <1>1, <2>1, <4>1
        <3>2. top' = top /\ bottom' = bottom /\ bottom[i] = w[i].b
            BY <1>1, <2>1, <3>1 DEF PopTop, Popping, Reserved
        <3> QED  BY <1>1, <1>2, <2>1, <3>1, <3>2
    <2>2. CASE PopCas(i) /\ top[i] = w[i].t
        <3>1. /\ w[i].pc = "popcas" /\ w'[i].pc = "poplast" /\ w'[i].b = w[i].b
              /\ \A j \in Workers \ {i} : w'[j] = w[j]
            BY <2>2, PopCasDoes DEF Locals, PopCas
        <3>2. /\ top' = [top EXCEPT ![i] = @ + 1] /\ bottom' = bottom
              /\ bottom[i] = w[i].b /\ top[i] = w[i].b
            BY <1>1, <2>2, <3>1 DEF PopCas, Popping, Reserved
        <3> QED  BY <1>1, <1>2, <3>1, <3>2
    <2> QED  BY <2>1, <2>2
<1>4. s0 \in Nat
    BY SlotOf
<1>5. \A k \in Slots : Queued(i, k) <=> k \in top[i] .. s0
    BY <1>1, <1>3, <1>4 DEF Queued, End, Reserved
<1>6. \A k \in Slots : Queued(i, k)' <=> Queued(i, k) /\ k # s0
    <2>1. \A k \in Slots : k \in Nat
        BY SlotOf
    <2>2. CASE w'[i].pc = "poptake"
        <3>1. \A k \in Slots : Queued(i, k)' <=> k \in top[i] .. (s0 - 1)
            BY <1>3, <2>2 DEF Queued, End, Reserved
        <3> QED  BY <1>1, <1>4, <1>5, <2>1, <3>1
    <2>3. CASE w'[i].pc = "poplast"
        <3>1. End(i)' = s0 + 1 /\ top'[i] = s0 + 1 /\ top[i] = s0
            BY <1>3, <2>3 DEF End, Reserved
        <3>2. \A k \in Slots : ~Queued(i, k)'
            BY <1>4, <3>1, <2>1 DEF Queued
        <3>3. \A k \in Slots : Queued(i, k) => k = s0
            BY <1>4, <1>5, <2>1, <3>1
        <3> QED  BY <3>2, <3>3
    <2> QED  BY <1>3, <2>2, <2>3
<1>7. \A q \in Workers \ {i}, k \in Slots : Queued(q, k)' <=> Queued(q, k)
    BY <1>3, QueuedKept
<1>8. \A j \in Workers \ {i}, q \in Workers, k \in Slots :
            Claims(j, q, k)' <=> Claims(j, q, k)
    BY <1>3, ClaimsKept
<1>9. \A q \in Workers, k \in Slots : ~Claims(i, q, k)
    BY <1>3 DEF Claims
<1>10. \A q \in Workers, k \in Slots : Claims(i, q, k)' <=> q = i /\ k = s0
    BY <1>3 DEF Claims
<1>11. Queued(i, s0)
    BY <1>1, <1>3, <1>4, <1>5
<1>12. Secured(i, i, s0)
    BY <1>6, <1>7, <1>8, <1>9, <1>10, <1>11 DEF Secured
<1> QED  BY <1>2, <1>12

\* A thief that has moved top past the path it wants is sure of it.
LEMMA StealSecures ==
    ASSUME TypeOK, Indices, Calm, NEW i \in Workers, StealCas(i), top[Victim(i)] = w[i].t
    PROVE  \E q \in Workers, s \in Slots : Secured(i, q, s)
<1>0. PICK v \in Workers : v = Victim(i)
    BY FieldTypes
<1>1. /\ w[i].pc = "stealcas" /\ w'[i].pc = "stealmove" /\ w'[i].off = w[i].off
      /\ w'[i].t = w[i].t /\ w'[i].n = w[i].n
      /\ \A j \in Workers \ {i} : w'[j] = w[j]
    BY StealCasWonDoes DEF Locals, StealCas
<1>2. w[i].n \in Nat /\ w[i].t \in Int /\ top[v] \in Nat /\ bottom[v] \in Int
      /\ bottom[v] < Capacity
    BY FieldTypes DEF Calm
<1>3. /\ w[i].off \in 1 .. (N - 1) /\ w[i].n >= 1 /\ w[i].t >= 0
      /\ \/ w[i].t < bottom[v]
         \/ w[i].t = bottom[v] /\ w[v].pc \in {"poptop", "popcas"}
    BY <1>0, <1>1 DEF Indices, Stealing
<1>4. v # i
    BY <1>0, <1>3, VictimOther DEF Victim
<1>5. PICK s \in Slots : s = w[i].t
    BY <1>2, <1>3, StatAssumption DEF Slots
<1>6. w[i].n = 1
    BY <1>2, <1>3 DEF Calm
<1>7. top' = [top EXCEPT ![v] = @ + 1] /\ bottom' = bottom
    BY <1>0, <1>6 DEF StealCas
<1>8. Victim(i)' = v
    BY <1>0, <1>1 DEF Victim
<1>9. /\ top'[v] = s + 1 /\ top[v] = s /\ \A j \in Workers \ {v} : top'[j] = top[j]
    BY <1>0, <1>5, <1>7 DEF TypeOK
<1>10. s < End(v) /\ End(v)' = End(v) /\ End(v) \in Int
    BY <1>1, <1>2, <1>3, <1>4, <1>5, <1>7 DEF End, Reserved
<1>11. \A k \in Slots : Queued(v, k)' <=> Queued(v, k) /\ k # s
    <2>1. \A k \in Slots : k \in Nat
        BY SlotOf
    <2>2. \A k \in Slots : Queued(v, k) <=> k \in s .. (End(v) - 1)
        BY <1>9 DEF Queued
    <2>3. \A k \in Slots : Queued(v, k)' <=> k \in (s + 1) .. (End(v) - 1)
        BY <1>9, <1>10 DEF Queued
    <2> QED  BY <1>10, <2>1, <2>2, <2>3
<1>12. \A q \in Workers \ {v}, k \in Slots : Queued(q, k)' <=> Queued(q, k)
    <2>1. \A q \in Workers \ {i, v}, k \in Slots : Queued(q, k)' <=> Queued(q, k)
        BY <1>1, <1>7, <1>9, QueuedKept
    <2>2. \A k \in Slots : Queued(i, k)' <=> Queued(i, k)
        BY <1>1, <1>4, <1>7, <1>9 DEF Queued, End, Reserved
    <2> QED  BY <2>1, <2>2
<1>13. \A j \in Workers \ {i}, q \in Workers, k \in Slots :
            Claims(j, q, k)' <=> Claims(j, q, k)
    BY <1>1, ClaimsKept
<1>14. \A q \in Workers, k \in Slots : ~Claims(i, q, k)
    BY <1>1 DEF Claims
<1>15. \A q \in Workers, k \in Slots : Claims(i, q, k)' <=> q = v /\ k = s
    BY <1>1, <1>5, <1>8 DEF Claims
<1>16. Queued(v, s)
    BY <1>5, <1>9, <1>10, SlotOf DEF Queued
<1>17. Secured(i, v, s)
    BY <1>11, <1>12, <1>13, <1>14, <1>15, <1>16 DEF Secured
<1> QED  BY <1>17

-----------------------------------------------------------------------------
(* What the workers have in their hands                                    *)

\* The hands of a worker that does not take a step.
LEMMA SameHands ==
    ASSUME NEW j, w'[j] = w[j]
    PROVE  /\ Held(j)' = Held(j) /\ Found(j)' = Found(j)
           /\ Working(j)' <=> Working(j)
BY DEF Held, Found, Working

\* The hands of a worker that looks for work are empty.
LEMMA EmptyHands ==
    ASSUME NEW j, ~Working(j)
    PROVE  Held(j) = {} /\ Found(j) = {}
BY DEF Held, Found, Working

\* After the step too.
LEMMA EmptyHandsNext ==
    ASSUME NEW j, ~Working(j)'
    PROVE  Held(j)' = {} /\ Found(j)' = {}
BY DEF Held, Found, Working

\* A worker reads, then pushes; it has not begun to when it is about to read.
LEMMA AtWork ==
    ASSUME NEW j, Working(j)
    PROVE  w[j].work \in Dirs => w[j].work \in Held(j)
BY DEF Held

\* The hands of the workers that do not take a step, when no slot they fill is written.
LEMMA OthersHands ==
    ASSUME NEW j \in Workers, Hands(j), w'[j] = w[j], bottom'[j] = bottom[j],
           w[j].pc = "publish" => slot'[j][bottom[j]] = slot[j][bottom[j]]
    PROVE  Hands(j)'
BY SameHands DEF Hands

\* Once a worker runs, everything at the top level is distributed.
LEMMA Running ==
    ASSUME Phases, NEW i \in Workers, w[i].pc # "start"
    PROVE  main.left = {}
BY DEF Phases

\* The walk is where it was when nothing is read, and nothing found is dropped.
LEMMA WalkedKept ==
    ASSUME NEW open \in SUBSET Dirs, Walked(open), visits' = visits, main' = main,
           \A j \in Workers : \A c : c \in Found(j) => c \in Found(j)' /\ w'[j].work = w[j].work
    PROVE  Walked(open)'
<1>1. /\ \A d \in Dirs : visits'[d] \in {0, 1}
      /\ \A d \in TopDirs \ main'.left : d \in open \/ visits'[d] = 1
      /\ \A d \in main'.left : d \notin open /\ visits'[d] = 0
    BY DEF Walked
<1>2. ASSUME NEW d \in Dirs, NEW c \in Children[d]
      PROVE  /\ visits'[d] = 0 => c \notin open /\ visits'[c] = 0
             /\ visits'[d] = 1 => \/ c \in open \/ visits'[c] = 1
                                  \/ \E j \in Workers : w'[j].work = d /\ c \in Found(j)'
    BY DEF Walked
<1> QED  BY <1>1, <1>2 DEF Walked

\* A worker that looks for work, before and after a step that moves no path, has
\* changed nothing of what is open.
LEMMA SettledAccounts ==
    ASSUME NEW open \in SUBSET Dirs, Accounts(open), NEW i \in Workers,
           \A j \in Workers \ {i} : w'[j] = w[j],
           ~Working(i), ~Working(i)',
           \A q \in Workers, k \in Slots : Full(q, k)' <=> Full(q, k),
           UNCHANGED <<slot, counter, main, visits>>
    PROVE  Accounts(open)'
<1>1. \A j \in Workers : Held(j)' = Held(j) /\ Found(j)' = Found(j)
    BY SameHands, EmptyHands, EmptyHandsNext
<1>2. \A j \in Workers : Working(j)' => w'[j] = w[j]
    OBVIOUS
<1>3. Placed(open)
    BY DEF Accounts
<1>4. ASSUME NEW q \in Workers, NEW k \in Slots, Full(q, k)'
      PROVE  /\ slot'[q][k] \in open /\ visits'[slot'[q][k]] = 0
             /\ \A j \in Workers : slot'[q][k] \notin Held(j)'
             /\ \A j \in Workers, l \in Slots :
                    Full(j, l)' /\ slot'[q][k] = slot'[j][l] => q = j /\ k = l
    <2>1. Full(q, k) /\ \A j \in Workers, l \in Slots : Full(j, l)' <=> Full(j, l)
        BY <1>4
    <2>2. /\ slot[q][k] \in open /\ visits[slot[q][k]] = 0
          /\ \A j \in Workers : slot[q][k] \notin Held(j)
        BY <1>3, <2>1 DEF Placed
    <2>3. \A j \in Workers, l \in Slots :
            Full(j, l) /\ slot[q][k] = slot[j][l] => q = j /\ k = l
        BY <1>3, <2>1 DEF Placed
    <2>4. slot' = slot /\ visits' = visits
        OBVIOUS
    <2>5. \A j \in Workers, l \in Slots :
            Full(j, l)' /\ slot'[q][k] = slot'[j][l] => q = j /\ k = l
        BY <2>1, <2>3, <2>4
    <2>6. \A j \in Workers : slot'[q][k] \notin Held(j)'
        BY <1>1, <2>2, <2>4
    <2> QED  BY <2>2, <2>4, <2>5, <2>6
<1>5. ASSUME NEW j \in Workers
      PROVE  /\ Held(j)' \subseteq open
             /\ \A c \in Found(j)' : c \notin open /\ visits'[c] = 0
             /\ w'[j].pc \in {"put", "publish"} => visits'[w'[j].item] = 0
             /\ Working(j)' => visits'[w'[j].work] =
                    IF w'[j].pc = "read" \/ w'[j].batch # <<>> THEN 0 ELSE 1
             /\ \A h \in Workers \ {j} : Held(j)' \cap Held(h)' = {}
    <2>1. w'[j].pc \in {"put", "publish"} => Working(j)'
        BY DEF Working
    <2>2. /\ Held(j) \subseteq open
          /\ \A c \in Found(j) : c \notin open /\ visits[c] = 0
          /\ \A h \in Workers \ {j} : Held(j) \cap Held(h) = {}
        BY <1>3 DEF Placed
    <2>3. /\ w[j].pc \in {"put", "publish"} => visits[w[j].item] = 0
          /\ Working(j) => visits[w[j].work] =
                IF w[j].pc = "read" \/ w[j].batch # <<>> THEN 0 ELSE 1
        BY <1>3 DEF Placed
    <2>4. /\ Held(j)' \subseteq open
          /\ \A c \in Found(j)' : c \notin open /\ visits'[c] = 0
          /\ \A h \in Workers \ {j} : Held(j)' \cap Held(h)' = {}
        BY <1>1, <2>2
    <2>5. CASE Working(j)'
        <3>1. w'[j] = w[j] /\ Working(j)
            BY <1>2, <2>5, SameHands
        <3> QED  BY <2>3, <2>4, <3>1
    <2> QED  BY <2>1, <2>4, <2>5
<1>6. Placed(open)'
    BY <1>4, <1>5 DEF Placed
<1>7. Walked(open)'
    <2>1. \A j \in Workers : \A c : c \in Found(j) => c \in Found(j)' /\ w'[j].work = w[j].work
        BY <1>1, EmptyHands
    <2> QED  BY <2>1, WalkedKept DEF Accounts
<1> QED  BY <1>6, <1>7 DEF Accounts

\* A step of a worker that looks for work, before and after.
LEMMA Settled ==
    ASSUME StatSafe, TypeOK', Indices', NEW i \in Workers,
           \A j \in Workers \ {i} : w'[j] = w[j],
           \A j \in Workers \ {i} : bottom'[j] = bottom[j],
           ~Working(i), ~Working(i)', w'[i].batch = w[i].batch, w'[i].todo = w[i].todo,
           w'[i].pc = "done" => counter = 0, main.left = {},
           Sole', \A q \in Workers, k \in Slots : Full(q, k)' <=> Full(q, k),
           UNCHANGED <<slot, counter, main, visits>>
    PROVE  StatSafe'
<1>1. Hands(i)'
    <2>1. w[i].batch = <<>>
        BY DEF StatSafe, Hands, Working
    <2>2. w'[i].pc \notin {"read", "push", "put", "publish"}
        BY DEF Working
    <2> QED  BY <2>1, <2>2, EmptyHandsNext DEF Hands
<1>2. \A j \in Workers : Hands(j)'
    BY <1>1, OthersHands DEF StatSafe
<1>3. Phases'
    <2>1. (\E j \in Workers : w'[j].pc = "done") => counter = 0
        BY DEF StatSafe, Phases
    <2> QED  BY <2>1 DEF Phases
<1>4. PICK open \in SUBSET Dirs : Accounts(open)
    BY DEF StatSafe
<1>5. Accounts(open)'
    BY <1>4, SettledAccounts
<1> QED  BY <1>2, <1>3, <1>5 DEF StatSafe, Indices

\* A worker that looks for work leaves every path where it is.
LEMMA LookingKeeps ==
    ASSUME StatSafe, Calm, NEW i \in Workers,
           \/ Spawn(i) \/ Idle(i)
           \/ PopReserve(i) \/ PopTop(i) \/ PopUndo(i) \/ PopCas(i) \/ PopLast(i)
           \/ StealTop(i) \/ StealBottom(i) \/ StealCas(i)
    PROVE  Sole' /\ \A q \in Workers, k \in Slots : Full(q, k)' <=> Full(q, k)
<1>1. TypeOK /\ Indices /\ Phases /\ Sole
    BY DEF StatSafe, Indices
<1>2. top[i] \in Nat /\ bottom[i] \in Int /\ w[i].b \in Int
    BY <1>1, FieldTypes
<1>3. NothingMoves \/ \E q \in Workers, s \in Slots : Secured(i, q, s)
    <2>1. CASE Spawn(i) \/ Idle(i) \/ StealTop(i) \/ StealBottom(i)
        BY <1>1, <2>1, QuietMoves
    <2>2. CASE PopReserve(i) \/ PopUndo(i) \/ PopLast(i)
        BY <1>1, <2>2, PopMoves
    <2>3. CASE PopTop(i)
        BY <1>1, <1>2, <2>3, PopMoves, PopSecures
    <2>4. CASE PopCas(i)
        BY <1>1, <2>4, PopMoves, PopSecures
    <2>5. CASE StealCas(i)
        BY <1>1, <2>5, QuietMoves, StealSecures
    <2> QED  BY <2>1, <2>2, <2>3, <2>4, <2>5
<1> QED  BY <1>1, <1>3, SecuredOnce

\* The steps of a worker that looks for work, up to the one that takes a path.
LEMMA LookingStep ==
    ASSUME StatSafe, Calm, TypeOK', Indices', NEW i \in Workers,
           \/ Spawn(i) \/ Idle(i)
           \/ PopReserve(i) \/ PopTop(i) \/ PopUndo(i) \/ PopCas(i) \/ PopLast(i)
           \/ StealTop(i) \/ StealBottom(i) \/ StealCas(i)
    PROVE  StatSafe'
<1>1. TypeOK /\ Indices /\ Phases /\ Sole
    BY DEF StatSafe, Indices
<1>2. top[i] \in Nat /\ bottom[i] \in Int /\ w[i].b \in Int
    BY <1>1, FieldTypes
<1>4. Sole' /\ \A q \in Workers, k \in Slots : Full(q, k)' <=> Full(q, k)
    BY LookingKeeps
<1>5. w[i].pc \in {"stealbottom", "stealcas"} => w[i].off < N
    <2>1. w[i].pc \in {"stealbottom", "stealcas"} => w[i].off \in 1 .. (N - 1)
        BY <1>1 DEF Indices, Stealing
    <2> QED  BY <2>1, StatAssumption
<1>6. /\ \A j \in Workers \ {i} : w'[j] = w[j]
      /\ w'[i].batch = w[i].batch /\ w'[i].todo = w[i].todo
      /\ ~Working(i) /\ ~Working(i)'
      /\ w'[i].pc = "done" => counter = 0
    <2>1. CASE Spawn(i) \/ Idle(i)
        BY <1>1, <2>1, SpawnDoes, IdleDoes DEF Locals, Working, Spawn, Idle
    <2>2. CASE PopReserve(i) \/ PopUndo(i) \/ PopLast(i)
        BY <1>1, <2>2, PopReserveDoes, PopUndoDoes, PopLastDoes
        DEF Locals, Working, PopReserve, PopUndo, PopLast
    <2>3. CASE PopTop(i) \/ PopCas(i)
        BY <1>1, <2>3, PopTopDoes, PopCasDoes DEF Locals, Working, PopTop, PopCas
    <2>4. CASE StealTop(i)
        BY <1>1, <2>4, StealTopDoes DEF Locals, Working, StealTop
    <2>5. CASE StealBottom(i)
        <3>1. w[i].off < N /\ w[i].pc = "stealbottom"
            BY <1>5, <2>5 DEF StealBottom
        <3> QED  BY <1>1, <2>5, <3>1, StealBottomSomeDoes, StealBottomNoneDoes DEF Locals, Working
    <2>6. CASE StealCas(i)
        <3>1. w[i].off < N /\ w[i].pc = "stealcas"
            BY <1>5, <2>6 DEF StealCas
        <3> QED  BY <1>1, <2>6, <3>1, StealCasWonDoes, StealCasLostDoes DEF Locals, Working
    <2> QED  BY <2>1, <2>2, <2>3, <2>4, <2>5, <2>6
<1>7. /\ UNCHANGED <<slot, counter, main, visits>>
      /\ \A j \in Workers \ {i} : bottom'[j] = bottom[j]
    BY <1>2 DEF TypeOK, StatSafe, Spawn, Idle, PopReserve, PopTop, PopUndo, PopCas, PopLast,
                StealTop, StealBottom, StealCas
<1>8. main.left = {}
    BY <1>1, Running DEF Spawn, Idle, PopReserve, PopTop, PopUndo, PopCas, PopLast,
                StealTop, StealBottom, StealCas
<1> QED  BY <1>4, <1>6, <1>7, <1>8, Settled

-----------------------------------------------------------------------------
(* A path is taken out of its slot                                         *)

\* A worker claims at most one path, and it is not at the end of a queue that is filled.
LEMMA ClaimOf ==
    ASSUME TypeOK, Indices, NEW i \in Workers, NEW q \in Workers, NEW s \in Slots,
           Claims(i, q, s)
    PROVE  /\ \A a \in Workers, k \in Slots : Claims(i, a, k) => a = q /\ k = s
           /\ w[q].pc \in {"start", "put", "publish"} => s # bottom[q]
<1>1. \A a \in Workers, k \in Slots : Claims(i, a, k) => a = q /\ k = s
    BY DEF Claims
<1>2. ASSUME w[q].pc \in {"start", "put", "publish"}
      PROVE  s # bottom[q]
    <2>1. i # q \/ w[i].pc = "stealmove"
        BY <1>2 DEF Claims
    <2>2. q = Victim(i) /\ s = w[i].t /\ w[i].pc = "stealmove"
        BY <2>1 DEF Claims
    <2>3. w[i].t < top[q]
        BY <2>2 DEF Indices, Stealing
    <2>4. top[q] =< bottom[q]
        BY <1>2 DEF Indices, Popping, Reserved
    <2> QED  BY <2>2, <2>3, <2>4, FieldTypes
<1> QED  BY <1>1, <1>2

\* The end of a queue that is filled is a slot that holds no path.
LEMMA FreeSlot ==
    ASSUME TypeOK, Indices, Calm, NEW i \in Workers,
           w[i].pc \in {"start", "put", "publish"}
    PROVE  bottom[i] \in Slots /\ ~Full(i, bottom[i])
<1>1. top[i] \in Nat /\ bottom[i] \in Int /\ top[i] =< bottom[i] /\ bottom[i] < Capacity
    BY FieldTypes DEF Indices, Popping, Reserved, Calm
<1>2. bottom[i] \in Slots
    BY <1>1, StatAssumption DEF Slots
<1>3. ~Queued(i, bottom[i])
    BY <1>1 DEF Queued, End, Reserved
<1>4. \A j \in Workers : ~Claims(j, i, bottom[i])
    BY <1>2, ClaimOf
<1> QED  BY <1>2, <1>3, <1>4 DEF Full

\* The path of a claim goes from its slot into the hands of its worker.
LEMMA Taken ==
    ASSUME StatSafe, Calm, TypeOK', Indices', NEW i \in Workers, NEW q \in Workers,
           NEW s \in Slots, Claims(i, q, s), w[i].pc \in {"poptake", "stealmove"},
           \A a \in Workers, k \in Slots : a # q \/ k # s => slot'[a][k] = slot[a][k],
           UNCHANGED <<top, bottom, counter, main, visits>>,
           \A j \in Workers \ {i} : w'[j] = w[j],
           w'[i].work = slot[q][s],
           \/ w'[i].pc = "read" /\ w'[i].batch = <<>>
           \/ w'[i].pc = "push" /\ w'[i].batch # <<>> /\ w'[i].todo = <<>>
    PROVE  StatSafe'
<1> DEFINE path == slot[q][s]
<1>1. TypeOK /\ Indices /\ Sole /\ Phases /\ \A j \in Workers : Hands(j)
    BY DEF StatSafe, Indices
<1>2. PICK open \in SUBSET Dirs : Accounts(open)
    BY DEF StatSafe
<1>3. Placed(open) /\ Walked(open)
    BY <1>2 DEF Accounts
<1>4. /\ \A a \in Workers, k \in Slots : Claims(i, a, k) => a = q /\ k = s
      /\ w[q].pc \in {"start", "put", "publish"} => s # bottom[q]
    BY <1>1, ClaimOf
<1>5. \A a \in Workers, k \in Slots : Queued(a, k)' <=> Queued(a, k)
    BY DEF Queued, End, Reserved
<1>6. \A a \in Workers, k \in Slots : ~Claims(i, a, k)'
    BY DEF Claims
<1>7. \A j \in Workers \ {i}, a \in Workers, k \in Slots :
            Claims(j, a, k)' <=> Claims(j, a, k)
    BY ClaimsKept
<1>8. Sole'
    BY <1>1, <1>5, <1>6, <1>7 DEF Sole
<1>9. \A a \in Workers, k \in Slots : Full(a, k)' => Full(a, k) /\ (a # q \/ k # s)
    <2>1. ~Queued(q, s) /\ \A h \in Workers \ {i} : ~Claims(h, q, s)
        BY <1>1 DEF Sole
    <2> QED  BY <1>5, <1>6, <1>7, <2>1 DEF Full
<1>10. /\ path \in open /\ visits[path] = 0 /\ \A j \in Workers : path \notin Held(j)
       /\ \A a \in Workers, k \in Slots : Full(a, k) /\ path = slot[a][k] => q = a /\ s = k
    <2>1. Full(q, s)
        BY DEF Full
    <2> QED  BY <1>3, <2>1 DEF Placed
<1> HIDE DEF path
<1>11. w'[i].work = path
    BY DEF path
<1>12. /\ Working(i)' /\ ~Working(i) /\ Held(i)' = {path} /\ Found(i)' = {}
    <2>1. Working(i)' /\ ~Working(i)
        BY DEF Working
    <2>2. Held(i)' = {path}
        BY <1>10, <1>11, <2>1 DEF Held
    <2>3. Found(i)' = {}
        <3>1. CASE w'[i].pc = "read"
            BY <3>1 DEF Found
        <3>2. CASE w'[i].todo = <<>>
            BY <3>2 DEF Found, ToSet
        <3> QED  BY <3>1, <3>2
    <2> QED  BY <2>1, <2>2, <2>3
<1>13. \A j \in Workers \ {i} : /\ Held(j)' = Held(j) /\ Found(j)' = Found(j)
                                /\ Working(j)' <=> Working(j)
    BY SameHands
<1>14. \A j \in Workers : Hands(j)'
    <2>1. ASSUME NEW j \in Workers \ {i}
          PROVE  Hands(j)'
        <3>1. ASSUME w[j].pc = "publish"
              PROVE  slot'[j][bottom[j]] = slot[j][bottom[j]]
            <4>1. bottom[j] \in Slots
                BY <1>1, <3>1, FreeSlot
            <4> QED  BY <1>4, <3>1, <4>1
        <3> QED  BY <1>1, <3>1, OthersHands
    <2>2. Hands(i)'
        BY <1>10, <1>11, <1>12 DEF Hands
    <2> QED  BY <2>1, <2>2
<1>15. Phases'
    BY <1>1 DEF Phases
<1>16. Placed(open)'
    <2>1. ASSUME NEW a \in Workers, NEW k \in Slots, Full(a, k)'
          PROVE  /\ slot'[a][k] \in open /\ visits'[slot'[a][k]] = 0
                 /\ \A j \in Workers : slot'[a][k] \notin Held(j)'
                 /\ \A j \in Workers, l \in Slots :
                        Full(j, l)' /\ slot'[a][k] = slot'[j][l] => a = j /\ k = l
        <3>1. Full(a, k) /\ (a # q \/ k # s) /\ slot'[a][k] = slot[a][k]
            BY <1>9, <2>1
        <3>2. /\ slot[a][k] \in open /\ visits[slot[a][k]] = 0
              /\ \A j \in Workers : slot[a][k] \notin Held(j)
            BY <1>3, <3>1 DEF Placed
        <3>3. \A j \in Workers, l \in Slots :
                    Full(j, l) /\ slot[a][k] = slot[j][l] => a = j /\ k = l
            BY <1>3, <3>1 DEF Placed
        <3>4. \A j \in Workers : slot'[a][k] \notin Held(j)'
            BY <1>10, <1>12, <1>13, <3>1, <3>2
        <3>5. \A j \in Workers, l \in Slots :
                    Full(j, l)' /\ slot'[a][k] = slot'[j][l] => a = j /\ k = l
            BY <1>9, <3>1, <3>3
        <3> QED  BY <3>1, <3>2, <3>4, <3>5
    <2>2. ASSUME NEW j \in Workers
          PROVE  /\ Held(j)' \subseteq open
                 /\ \A c \in Found(j)' : c \notin open /\ visits'[c] = 0
                 /\ \A h \in Workers \ {j} : Held(j)' \cap Held(h)' = {}
        <3>1. \A a \in Workers : /\ Held(a) \subseteq open
                                 /\ \A c \in Found(a) : c \notin open /\ visits[c] = 0
                                 /\ \A h \in Workers \ {a} : Held(a) \cap Held(h) = {}
            BY <1>3 DEF Placed
        <3> QED  BY <1>10, <1>12, <1>13, <3>1
    <2>3. ASSUME NEW j \in Workers
          PROVE  /\ w'[j].pc \in {"put", "publish"} => visits'[w'[j].item] = 0
                 /\ Working(j)' => visits'[w'[j].work] =
                        IF w'[j].pc = "read" \/ w'[j].batch # <<>> THEN 0 ELSE 1
        <3>1. CASE j = i
            BY <1>10, <1>11, <3>1
        <3>2. CASE j # i
            <4>1. /\ w[j].pc \in {"put", "publish"} => visits[w[j].item] = 0
                  /\ Working(j) => visits[w[j].work] =
                        IF w[j].pc = "read" \/ w[j].batch # <<>> THEN 0 ELSE 1
                BY <1>3 DEF Placed
            <4> QED  BY <1>13, <3>2, <4>1
        <3> QED  BY <3>1, <3>2
    <2> QED  BY <2>1, <2>2, <2>3 DEF Placed
<1>17. Walked(open)'
    <2>1. \A j \in Workers : \A c : c \in Found(j) => c \in Found(j)' /\ w'[j].work = w[j].work
        BY <1>12, <1>13, EmptyHands
    <2> QED  BY <1>3, <2>1, WalkedKept
<1> QED  BY <1>2, <1>8, <1>14, <1>15, <1>16, <1>17 DEF StatSafe, Indices, Accounts

\* Writing a slot leaves the others.
LEMMA OtherSlots ==
    ASSUME NEW f \in [Workers -> [Slots -> Path]], NEW q \in Workers, NEW s \in Slots,
           NEW p
    PROVE  \A a \in Workers, k \in Slots :
                a # q \/ k # s => [f EXCEPT ![q][s] = p][a][k] = f[a][k]
OBVIOUS

\* One slot is emptied.
LEMMA TakeOne ==
    ASSUME TypeOK, NEW i, NEW q \in Workers, NEW s \in Slots, Taking(i) = <<q, s>>, Take(i)
    PROVE  \A a \in Workers, k \in Slots : a # q \/ k # s => slot'[a][k] = slot[a][k]
<1> DEFINE at == Taking(i)
<1>1. PICK rest : slot' = [slot EXCEPT ![at[1]][at[2]] = rest]
    BY DEF Take
<1>2. at[1] = q /\ at[2] = s
    OBVIOUS
<1> HIDE DEF at
<1>3. slot' = [slot EXCEPT ![q][s] = rest]
    BY <1>1, <1>2
<1>4. slot \in [Workers -> [Slots -> Path]]
    BY DEF TypeOK, Slots
<1>5. \A a \in Workers, k \in Slots :
            a # q \/ k # s => [slot EXCEPT ![q][s] = rest][a][k] = slot[a][k]
    BY <1>4, OtherSlots
<1> QED  BY <1>3, <1>5, Zenon

\* The owner moves the path it has reserved out of its slot.
LEMMA PopTakeStep ==
    ASSUME StatSafe, Calm, TypeOK', Indices', NEW i \in Workers, PopTake(i)
    PROVE  StatSafe'
<1>1. TypeOK /\ Indices /\ w[i].pc = "poptake" /\ w[i].b \in Int /\ w[i].batch = <<>>
    BY FieldTypes DEF StatSafe, Indices, PopTake, Hands
<1>2. PICK s \in Slots : s = w[i].b
    BY <1>1, StatAssumption DEF Indices, Popping, Slots
<1>3. s % Capacity = s
    BY SlotOf
<1>4. /\ \A j \in Workers \ {i} : w'[j] = w[j]
      /\ w'[i].pc = "read" /\ w'[i].batch = <<>> /\ w'[i].work = slot[i][s]
    BY <1>1, <1>2, <1>3, PopTakeDoes DEF Locals
<1>5. Claims(i, i, s)
    BY <1>1, <1>2 DEF Claims
<1>6. Taking(i) = <<i, s>>
    BY <1>1, <1>2, <1>3 DEF Taking
<1>8. \A a \in Workers, k \in Slots : a # i \/ k # s => slot'[a][k] = slot[a][k]
    BY <1>1, <1>6, TakeOne DEF PopTake
<1>9. UNCHANGED <<top, bottom, counter, main, visits>>
    BY DEF PopTake
<1> QED  BY <1>1, <1>4, <1>5, <1>8, <1>9, Taken

\* A thief moves the path it has claimed out of its slot; it was only one.
LEMMA StealMoveStep ==
    ASSUME StatSafe, Calm, TypeOK', Indices', NEW i \in Workers, StealMove(i)
    PROVE  StatSafe'
<1>1. /\ TypeOK /\ Indices /\ w[i].pc = "stealmove" /\ w[i].batch = <<>>
      /\ w[i].t \in Int /\ w[i].n \in Nat
    BY FieldTypes DEF StatSafe, Indices, StealMove, Hands
<1>2. PICK q \in Workers : q = Victim(i)
    BY <1>1, FieldTypes
<1>3. w[i].t >= 0 /\ w[i].t < Capacity /\ w[i].n >= 1
    BY <1>1 DEF Indices, Stealing
<1>4. PICK s \in Slots : s = w[i].t
    BY <1>1, <1>3, StatAssumption DEF Slots
<1>5. s % Capacity = s /\ s \in Nat
    BY SlotOf
<1>6. Taking(i) = <<q, s>>
    <2>1. Len(w[i].batch) = 0
        BY <1>1
    <2>2. Taking(i) = <<(i + w[i].off) % N, (w[i].t + Len(w[i].batch)) % Capacity>>
        BY <1>1 DEF Taking
    <2>3. w[i].t + Len(w[i].batch) = s
        BY <1>4, <1>5, <2>1
    <2> QED  BY <1>2, <1>5, <2>2, <2>3 DEF Victim
<1> DEFINE path == slot[q][s]
<1>7. Append(w[i].batch, path) = <<path>> /\ Len(<<path>>) = 1 /\ <<path>> # <<>>
    BY <1>1
<1>8. /\ slot[Taking(i)[1]][Taking(i)[2]] = path
      /\ ~(Len(Append(w[i].batch, slot[Taking(i)[1]][Taking(i)[2]])) < w[i].n)
    <2>1. w[i].n = 1
        BY <1>1, <1>3 DEF StatSafe, Calm
    <2> QED  BY <1>6, <1>7, <2>1
<1>9. /\ \A j \in Workers \ {i} : w'[j] = w[j]
      /\ w'[i].pc = "push" /\ w'[i].batch # <<>> /\ w'[i].todo = <<>>
      /\ w'[i].work = slot[q][s]
    BY <1>1, <1>7, <1>8, StealMoveLastDoes DEF Locals
<1>10. Claims(i, q, s)
    BY <1>1, <1>2, <1>4 DEF Claims
<1>12. \A a \in Workers, k \in Slots : a # q \/ k # s => slot'[a][k] = slot[a][k]
    BY <1>1, <1>6, TakeOne DEF StealMove
<1>13. UNCHANGED <<top, bottom, counter, main, visits>>
    BY DEF StealMove
<1> QED  BY <1>1, <1>9, <1>10, <1>12, <1>13, Taken

-----------------------------------------------------------------------------
(* A directory is read, and what was found is pushed                       *)

\* The parts of Placed: the paths in the queues, and the ones in the workers' hands.
LEMMA PlacedParts ==
    ASSUME NEW open, Placed(open)
    PROVE  /\ \A i \in Workers, k \in Slots : Full(i, k) =>
                /\ slot[i][k] \in open /\ visits[slot[i][k]] = 0
                /\ \A j \in Workers : slot[i][k] \notin Held(j)
                /\ \A j \in Workers, l \in Slots :
                        Full(j, l) /\ slot[i][k] = slot[j][l] => i = j /\ k = l
           /\ \A i \in Workers : Held(i) \subseteq open
           /\ \A i \in Workers : \A c \in Found(i) : c \notin open /\ visits[c] = 0
           /\ \A i \in Workers : w[i].pc \in {"put", "publish"} => visits[w[i].item] = 0
           /\ \A i \in Workers : Working(i) => visits[w[i].work] =
                    IF w[i].pc = "read" \/ w[i].batch # <<>> THEN 0 ELSE 1
           /\ \A i \in Workers : \A j \in Workers \ {i} : Held(i) \cap Held(j) = {}
BY DEF Placed

\* A worker reads the directory in its hands: it was open, and its children were not.
LEMMA ReadStep ==
    ASSUME StatSafe, Calm, TypeOK', Indices', NEW i \in Workers, Read(i)
    PROVE  StatSafe'
<1>1. /\ TypeOK /\ Indices /\ Sole /\ Phases /\ \A j \in Workers : Hands(j)
      /\ w[i].pc = "read" /\ Working(i) /\ w[i].batch = <<>>
    BY DEF StatSafe, Indices, Read, Working, Hands
<1>2. PICK open \in SUBSET Dirs : Accounts(open)
    BY DEF StatSafe
<1>3. Placed(open) /\ Walked(open)
    BY <1>2 DEF Accounts
<1>4. PICK d \in Dirs : d = w[i].work
    BY <1>1 DEF Hands
<1>5. d # Moved
    BY StatAssumption
<1>6. PICK todo \in Seq(Path) :
            /\ Locals(i, "push", w[i].b, w[i].t, w[i].n, w[i].off, w[i].batch, todo,
                      w[i].item, w[i].work)
            /\ IsInjective(todo) /\ ToSet(todo) = Children[d]
    BY <1>1, <1>4, <1>5, ReadDoes
<1>7. /\ \A j \in Workers \ {i} : w'[j] = w[j]
      /\ w'[i].pc = "push" /\ w'[i].batch = <<>> /\ w'[i].todo = todo /\ w'[i].work = d
    BY <1>1, <1>4, <1>6 DEF Locals
<1>8. visits[d] = 0
    BY <1>1, <1>3, <1>4, PlacedParts
<1>9. visits'[d] = 1 /\ \A e \in Dirs \ {d} : visits'[e] = visits[e]
    BY <1>1, <1>4, <1>5, <1>8 DEF Read, TypeOK
<1>10. UNCHANGED <<top, bottom, slot, counter, main>>
    BY DEF Read
<1>11. Sole' /\ \A q \in Workers, k \in Slots : Full(q, k)' <=> Full(q, k)
    BY <1>1, QuietMoves, SecuredOnce
<1>12. Working(i)' /\ Held(i) = {d} /\ Held(i)' = {d} /\ Found(i) = {} /\ Found(i)' = Children[d]
    <2>1. Working(i)'
        BY <1>7 DEF Working
    <2>2. Held(i) = {d}
        BY <1>1, <1>4 DEF Held
    <2>3. Held(i)' = {d}
        BY <1>7, <2>1 DEF Held
    <2>4. Found(i) = {}
        BY <1>1 DEF Found
    <2>5. Found(i)' = Children[d]
        BY <1>6, <1>7, <2>1 DEF Found
    <2> QED  BY <2>1, <2>2, <2>3, <2>4, <2>5
<1>13. \A j \in Workers \ {i} : /\ Held(j)' = Held(j) /\ Found(j)' = Found(j)
                                /\ Working(j)' <=> Working(j)
    BY <1>7, SameHands
<1>14. \A j \in Workers : Held(j)' = Held(j)
    BY <1>12, <1>13
<1>15. d \in open /\ \A j \in Workers \ {i} : d \notin Held(j) /\ d \notin Found(j)
    <2>1. d \in Held(i)
        BY <1>12
    <2>2. d \in open
        BY <1>3, <2>1, PlacedParts
    <2>3. ASSUME NEW j \in Workers \ {i}
          PROVE  d \notin Held(j) /\ d \notin Found(j)
        <3>1. Held(i) \cap Held(j) = {} /\ d \notin Found(j)
            BY <1>3, <2>2, PlacedParts
        <3> QED  BY <2>1, <3>1
    <2> QED  BY <2>2, <2>3
<1>16. \A c \in Children[d] : c \in Dirs \ {d} /\ c \notin open /\ visits[c] = 0
    <2>1. \A c \in Children[d] : c \notin open /\ visits[c] = 0
        BY <1>3, <1>8 DEF Walked
    <2> QED  BY <1>15, <2>1, StatAssumption
<1>17. \A j \in Workers : Hands(j)'
    <2>1. Hands(i)'
        BY <1>4, <1>6, <1>7, <1>12 DEF Hands
    <2> QED  BY <1>1, <1>7, <1>10, <2>1, OthersHands
<1>18. Phases'
    BY <1>1, <1>7, <1>10 DEF Phases
<1>19. Placed(open)'
    <2>1. ASSUME NEW q \in Workers, NEW k \in Slots, Full(q, k)'
          PROVE  /\ slot'[q][k] \in open /\ visits'[slot'[q][k]] = 0
                 /\ \A j \in Workers : slot'[q][k] \notin Held(j)'
                 /\ \A j \in Workers, l \in Slots :
                        Full(j, l)' /\ slot'[q][k] = slot'[j][l] => q = j /\ k = l
        <3>1. Full(q, k) /\ slot' = slot
            BY <1>10, <1>11, <2>1
        <3>2. /\ slot[q][k] \in open /\ visits[slot[q][k]] = 0
              /\ \A j \in Workers : slot[q][k] \notin Held(j)
              /\ \A j \in Workers, l \in Slots :
                        Full(j, l) /\ slot[q][k] = slot[j][l] => q = j /\ k = l
            BY <1>3, <3>1, PlacedParts
        <3>3. slot[q][k] \in Dirs \ {d}
            BY <1>12, <3>2
        <3>4. \A j \in Workers, l \in Slots :
                        Full(j, l)' /\ slot'[q][k] = slot'[j][l] => q = j /\ k = l
            BY <1>11, <3>1, <3>2
        <3>5. \A j \in Workers : slot'[q][k] \notin Held(j)'
            BY <1>14, <3>1, <3>2
        <3> QED  BY <1>9, <3>1, <3>2, <3>3, <3>4, <3>5
    <2>2. ASSUME NEW j \in Workers
          PROVE  /\ Held(j)' \subseteq open
                 /\ \A h \in Workers \ {j} : Held(j)' \cap Held(h)' = {}
        BY <1>3, <1>14, PlacedParts
    <2>3. ASSUME NEW j \in Workers
          PROVE  /\ \A c \in Found(j)' : c \notin open /\ visits'[c] = 0
                 /\ w'[j].pc \in {"put", "publish"} => visits'[w'[j].item] = 0
                 /\ Working(j)' => visits'[w'[j].work] =
                        IF w'[j].pc = "read" \/ w'[j].batch # <<>> THEN 0 ELSE 1
        <3>1. CASE j = i
            BY <1>7, <1>9, <1>12, <1>16, <3>1
        <3>2. CASE j # i
            <4>1. w'[j] = w[j] /\ Hands(j) /\ d \notin Held(j) /\ d \notin Found(j)
                BY <1>1, <1>7, <1>15, <3>2
            <4>2. \A c \in Found(j) : c \in Dirs /\ c \notin open /\ visits[c] = 0
                <5>1. Found(j) \subseteq Dirs
                    <6>1. Found(j) # {} => Working(j)
                        BY EmptyHands
                    <6> QED  BY <4>1, <6>1, StatAssumption DEF Hands
                <5> QED  BY <1>3, <5>1, PlacedParts
            <4>3. w[j].pc \in {"put", "publish"} =>
                        w[j].item \in Dirs \ {d} /\ visits[w[j].item] = 0
                <5>1. w[j].pc \in {"put", "publish"} => w[j].item \in Dirs
                    BY <4>1 DEF Hands
                <5>2. w[j].pc \in {"put", "publish"} => w[j].item # d
                    BY <4>1 DEF Held
                <5> QED  BY <1>3, <5>1, <5>2, PlacedParts
            <4>4. Working(j) => w[j].work \in Dirs \ {d}
                BY <4>1 DEF Hands, Held
            <4>5. Working(j) => visits[w[j].work] =
                        IF w[j].pc = "read" \/ w[j].batch # <<>> THEN 0 ELSE 1
                BY <1>3, PlacedParts
            <4>6. \A c \in Found(j)' : c \notin open /\ visits'[c] = 0
                BY <1>9, <1>13, <3>2, <4>1, <4>2
            <4> QED  BY <1>9, <1>13, <3>2, <4>1, <4>3, <4>4, <4>5, <4>6
        <3> QED  BY <3>1, <3>2
    <2> QED  BY <2>1, <2>2, <2>3 DEF Placed
<1>20. Walked(open)'
    <2>1. /\ \A e \in Dirs : visits[e] \in {0, 1}
          /\ \A e \in TopDirs \ main.left : e \in open \/ visits[e] = 1
          /\ \A e \in main.left : e \notin open /\ visits[e] = 0
        BY <1>3 DEF Walked
    <2>2. TopDirs \subseteq Dirs /\ main.left \subseteq Dirs
        BY <1>1, StatAssumption DEF TypeOK
    <2>3. /\ \A e \in Dirs : visits'[e] \in {0, 1}
          /\ \A e \in TopDirs \ main'.left : e \in open \/ visits'[e] = 1
          /\ \A e \in main'.left : e \notin open /\ visits'[e] = 0
        BY <1>8, <1>9, <1>10, <1>15, <2>1, <2>2
    <2>4. ASSUME NEW e \in Dirs, NEW c \in Children[e]
          PROVE  /\ visits'[e] = 0 => c \notin open /\ visits'[c] = 0
                 /\ visits'[e] = 1 => \/ c \in open \/ visits'[c] = 1
                                      \/ \E j \in Workers : w'[j].work = e /\ c \in Found(j)'
        <3>1. c \in Dirs
            BY StatAssumption
        <3>2. /\ visits[e] = 0 => c \notin open /\ visits[c] = 0
              /\ visits[e] = 1 => \/ c \in open \/ visits[c] = 1
                                  \/ \E j \in Workers : w[j].work = e /\ c \in Found(j)
            BY <1>3 DEF Walked
        <3>3. CASE e = d
            BY <1>7, <1>9, <1>12, <3>3
        <3>4. CASE e # d
            <4>1. visits'[e] = visits[e] /\ (c # d => visits'[c] = visits[c])
                BY <1>9, <3>1, <3>4
            <4>2. ASSUME NEW j \in Workers, w[j].work = e, c \in Found(j)
                  PROVE  w'[j].work = e /\ c \in Found(j)'
                BY <1>4, <1>7, <1>13, <3>4, <4>2
            <4> QED  BY <1>15, <3>2, <4>1, <4>2
        <3> QED  BY <3>3, <3>4
    <2> QED  BY <2>3, <2>4 DEF Walked
<1> QED  BY <1>2, <1>10, <1>11, <1>17, <1>18, <1>19, <1>20 DEF StatSafe, Indices, Accounts

\* The first of a sequence without repetitions, and the others.
LEMMA HeadOff ==
    ASSUME NEW S, NEW s \in Seq(S), s # <<>>, IsInjective(s)
    PROVE  /\ Head(s) \in ToSet(s) /\ ToSet(Tail(s)) = ToSet(s) \ {Head(s)}
           /\ IsInjective(Tail(s))
<1>1. /\ Len(s) \in Nat /\ Len(s) >= 1 /\ DOMAIN s = 1 .. Len(s) /\ Head(s) = s[1]
      /\ Tail(s) \in Seq(S) /\ Len(Tail(s)) = Len(s) - 1
      /\ DOMAIN Tail(s) = 1 .. (Len(s) - 1)
      /\ \A k \in 1 .. (Len(s) - 1) : Tail(s)[k] = s[k + 1]
    OBVIOUS
<1>2. \A k, l \in 1 .. Len(s) : s[k] = s[l] => k = l
    BY <1>1 DEF IsInjective
<1>3. Head(s) \in ToSet(s)
    BY <1>1 DEF ToSet
<1>4. IsInjective(Tail(s))
    BY <1>1, <1>2 DEF IsInjective
<1>5. ASSUME NEW x \in ToSet(Tail(s))
      PROVE  x \in ToSet(s) \ {Head(s)}
    <2>1. PICK k \in 1 .. (Len(s) - 1) : x = s[k + 1]
        BY <1>1 DEF ToSet
    <2>2. k + 1 \in 1 .. Len(s) /\ k + 1 # 1 /\ 1 \in 1 .. Len(s)
        BY <1>1
    <2> QED  BY <1>1, <1>2, <2>1, <2>2 DEF ToSet
<1>6. ASSUME NEW x \in ToSet(s), x # Head(s)
      PROVE  x \in ToSet(Tail(s))
    <2>1. PICK k \in 1 .. Len(s) : x = s[k]
        BY <1>1 DEF ToSet
    <2>2. k # 1
        BY <1>1, <1>6, <2>1
    <2>3. k - 1 \in 1 .. (Len(s) - 1) /\ (k - 1) + 1 = k
        BY <1>1, <2>2
    <2>4. Tail(s)[k - 1] = x
        BY <1>1, <2>1, <2>3
    <2> QED  BY <1>1, <2>3, <2>4 DEF ToSet
<1> QED  BY <1>3, <1>4, <1>5, <1>6

\* A child that was found is counted, and is in its worker's hands.
LEMMA PushNextStep ==
    ASSUME StatSafe, Calm, TypeOK', Indices', NEW i \in Workers, PushNext(i)
    PROVE  StatSafe'
<1>1. /\ TypeOK /\ Indices /\ Sole /\ Phases /\ \A j \in Workers : Hands(j)
      /\ w[i].pc = "push" /\ Working(i) /\ w[i].todo # <<>> /\ w[i].todo \in Seq(Path)
    BY FieldTypes DEF StatSafe, Indices, PushNext, Working
<1>2. PICK open \in SUBSET Dirs : Accounts(open)
    BY DEF StatSafe
<1>3. Placed(open) /\ Walked(open) /\ counter = Cardinality(open)
    BY <1>2 DEF Accounts
<1>4. PICK d \in Dirs : d = w[i].work
    BY <1>1 DEF Hands
<1>5. w[i].batch = <<>>
    BY <1>1 DEF Hands
<1>6. Found(i) = ToSet(w[i].todo)
    BY <1>1 DEF Found
<1>7. Found(i) # {}
    <2>1. 1 \in DOMAIN w[i].todo
        BY <1>1
    <2> QED  BY <1>6, <2>1 DEF ToSet
<1>8. IsInjective(w[i].todo) /\ Found(i) \subseteq Children[d]
    BY <1>1, <1>4, <1>7 DEF Hands
<1>9. /\ Head(w[i].todo) \in Found(i) /\ IsInjective(Tail(w[i].todo))
      /\ ToSet(Tail(w[i].todo)) = Found(i) \ {Head(w[i].todo)}
    BY <1>1, <1>6, <1>8, HeadOff
<1>10. PICK c \in Found(i) : c = Head(w[i].todo)
    BY <1>9
<1>11. /\ \A j \in Workers \ {i} : w'[j] = w[j]
       /\ w'[i].pc = "put" /\ w'[i].batch = <<>> /\ w'[i].todo = Tail(w[i].todo)
       /\ w'[i].item = c /\ w'[i].work = d
    BY <1>1, <1>4, <1>5, <1>10, PushNextDoes DEF Locals
<1>12. counter' = counter + 1 /\ UNCHANGED <<top, bottom, slot, main, visits>>
    BY <1>5 DEF PushNext
<1>13. Sole' /\ \A q \in Workers, k \in Slots : Full(q, k)' <=> Full(q, k)
    BY <1>1, QuietMoves, SecuredOnce
<1>14. c \in Children[d] /\ c \in Dirs /\ c \notin open /\ visits[c] = 0
    BY <1>3, <1>8, PlacedParts, StatAssumption
<1>15. Held(i) = {d}
    BY <1>1, <1>4 DEF Held
<1>16. d \in open /\ visits[d] = 1 /\ c # d
    <2>1. d \in open
        BY <1>3, <1>15, PlacedParts
    <2>2. visits[d] = 1
        BY <1>1, <1>3, <1>4, <1>5, PlacedParts
    <2> QED  BY <1>14, <2>1, <2>2
<1>17. Working(i)' /\ Held(i)' = {d, c} /\ Found(i)' = Found(i) \ {c}
    <2>1. Working(i)'
        BY <1>11 DEF Working
    <2>2. Held(i)' = {d, c}
        BY <1>11, <1>14, <2>1 DEF Held
    <2>3. Found(i)' = Found(i) \ {c}
        BY <1>9, <1>10, <1>11, <2>1 DEF Found
    <2> QED  BY <2>1, <2>2, <2>3
<1>18. \A j \in Workers \ {i} : /\ Held(j)' = Held(j) /\ Found(j)' = Found(j)
                                /\ Working(j)' <=> Working(j)
    BY <1>11, SameHands
<1>19. ASSUME NEW j \in Workers \ {i}
       PROVE  c \notin Held(j) /\ c \notin Found(j)
    <2>1. Held(j) \subseteq open /\ Held(i) \cap Held(j) = {}
        BY <1>3, PlacedParts
    <2>2. ASSUME c \in Found(j)
          PROVE  FALSE
        <3>1. Working(j) /\ w[j].work \in Dirs /\ c \in Children[w[j].work]
            BY <1>1, <2>2, EmptyHands DEF Hands
        <3>2. w[j].work # d
            BY <1>15, <2>1, <3>1, AtWork
        <3> QED  BY <1>14, <3>1, <3>2, TreeAssumption
    <2> QED  BY <1>14, <2>1, <2>2
<1> DEFINE more == open \cup {c}
<1>20. more \in SUBSET Dirs /\ counter' = Cardinality(more)
    <2>1. IsFiniteSet(open)
        BY FS_Subset, TreeAssumption
    <2> QED  BY <1>3, <1>12, <1>14, <2>1, FS_AddElement
<1>21. \A j \in Workers : Hands(j)'
    <2>1. Hands(i)'
        BY <1>4, <1>8, <1>9, <1>11, <1>10, <1>14, <1>16, <1>17 DEF Hands
    <2> QED  BY <1>1, <1>11, <1>12, <2>1, OthersHands
<1>22. Phases'
    <2>1. main.left = {}
        BY <1>1, Running
    <2>2. counter # 0
        <3>1. IsFiniteSet(open)
            BY FS_Subset, TreeAssumption
        <3> QED  BY <1>3, <1>16, <3>1, FS_EmptySet
    <2>3. \A j \in Workers : w[j].pc # "done"
        BY <1>1, <2>2 DEF Phases
    <2> QED  BY <1>11, <1>12, <2>1, <2>3 DEF Phases
<1>23. Placed(more)'
    <2>1. ASSUME NEW q \in Workers, NEW k \in Slots, Full(q, k)'
          PROVE  /\ slot'[q][k] \in more /\ visits'[slot'[q][k]] = 0
                 /\ \A j \in Workers : slot'[q][k] \notin Held(j)'
                 /\ \A j \in Workers, l \in Slots :
                        Full(j, l)' /\ slot'[q][k] = slot'[j][l] => q = j /\ k = l
        <3>1. Full(q, k) /\ slot' = slot /\ visits' = visits
            BY <1>12, <1>13, <2>1
        <3>2. /\ slot[q][k] \in open /\ visits[slot[q][k]] = 0
              /\ \A j \in Workers : slot[q][k] \notin Held(j)
              /\ \A j \in Workers, l \in Slots :
                        Full(j, l) /\ slot[q][k] = slot[j][l] => q = j /\ k = l
            BY <1>3, <3>1, PlacedParts
        <3>3. slot[q][k] # c
            BY <1>14, <3>2
        <3>4. \A j \in Workers, l \in Slots :
                        Full(j, l)' /\ slot'[q][k] = slot'[j][l] => q = j /\ k = l
            BY <1>13, <3>1, <3>2
        <3>5. \A j \in Workers : slot'[q][k] \notin Held(j)'
            BY <1>15, <1>17, <1>18, <3>1, <3>2, <3>3
        <3> QED  BY <3>1, <3>2, <3>4, <3>5
    <2>2. ASSUME NEW j \in Workers
          PROVE  /\ Held(j)' \subseteq more
                 /\ \A h \in Workers \ {j} : Held(j)' \cap Held(h)' = {}
        <3>1. \A a \in Workers : /\ Held(a) \subseteq open
                                 /\ \A h \in Workers \ {a} : Held(a) \cap Held(h) = {}
            BY <1>3, PlacedParts
        <3>2. CASE j = i
            BY <1>15, <1>17, <1>18, <1>19, <3>1, <3>2
        <3>3. CASE j # i
            <4>1. ASSUME NEW h \in Workers \ {j}
                  PROVE  Held(j)' \cap Held(h)' = {}
                BY <1>15, <1>17, <1>18, <1>19, <3>1, <3>3
            <4> QED  BY <1>18, <3>1, <3>3, <4>1
        <3> QED  BY <3>2, <3>3
    <2>3. ASSUME NEW j \in Workers
          PROVE  /\ \A e \in Found(j)' : e \notin more /\ visits'[e] = 0
                 /\ w'[j].pc \in {"put", "publish"} => visits'[w'[j].item] = 0
                 /\ Working(j)' => visits'[w'[j].work] =
                        IF w'[j].pc = "read" \/ w'[j].batch # <<>> THEN 0 ELSE 1
        <3>1. \A e \in Found(j) : e \notin open /\ visits[e] = 0
            BY <1>3, PlacedParts
        <3>2. CASE j = i
            BY <1>11, <1>12, <1>14, <1>16, <1>17, <3>1, <3>2
        <3>3. CASE j # i
            <4>1. /\ w[j].pc \in {"put", "publish"} => visits[w[j].item] = 0
                  /\ Working(j) => visits[w[j].work] =
                        IF w[j].pc = "read" \/ w[j].batch # <<>> THEN 0 ELSE 1
                BY <1>3, PlacedParts
            <4>2. w'[j] = w[j] /\ visits' = visits
                BY <1>11, <1>12, <3>3
            <4>3. \A e \in Found(j)' : e \notin more /\ visits'[e] = 0
                BY <1>18, <1>19, <3>1, <3>3, <4>2
            <4> QED  BY <1>18, <3>3, <4>1, <4>2, <4>3
        <3> QED  BY <3>2, <3>3
    <2> QED  BY <2>1, <2>2, <2>3 DEF Placed
<1>24. Walked(more)'
    <2>1. /\ \A e \in Dirs : visits[e] \in {0, 1}
          /\ \A e \in TopDirs \ main.left : e \in open \/ visits[e] = 1
        BY <1>3 DEF Walked
    <2>2. main.left = {}
        BY <1>1, Running
    <2>3. ASSUME NEW e \in Dirs, NEW x \in Children[e]
          PROVE  /\ visits'[e] = 0 => x \notin more /\ visits'[x] = 0
                 /\ visits'[e] = 1 => \/ x \in more \/ visits'[x] = 1
                                      \/ \E j \in Workers : w'[j].work = e /\ x \in Found(j)'
        <3>1. /\ visits[e] = 0 => x \notin open /\ visits[x] = 0
              /\ visits[e] = 1 => \/ x \in open \/ visits[x] = 1
                                  \/ \E j \in Workers : w[j].work = e /\ x \in Found(j)
            BY <1>3 DEF Walked
        <3>2. x = c => e = d
            BY <1>14, TreeAssumption
        <3>3. ASSUME NEW j \in Workers, w[j].work = e, x \in Found(j), x # c
              PROVE  w'[j].work = e /\ x \in Found(j)'
            BY <1>4, <1>11, <1>17, <1>18, <3>3
        <3> QED  BY <1>12, <1>16, <3>1, <3>2, <3>3
    <2> QED  BY <1>12, <2>1, <2>2, <2>3 DEF Walked
<1>25. Accounts(more)'
    BY <1>20, <1>23, <1>24 DEF Accounts
<1> HIDE DEF more
<1> QED  BY <1>13, <1>20, <1>21, <1>22, <1>25 DEF StatSafe, Indices

\* The path is put into the slot at the end, which holds none.
LEMMA PushPutStep ==
    ASSUME StatSafe, Calm, TypeOK', Indices', NEW i \in Workers, PushPut(i)
    PROVE  StatSafe'
<1>1. /\ TypeOK /\ Indices /\ Sole /\ Phases /\ \A j \in Workers : Hands(j)
      /\ w[i].pc = "put" /\ Working(i) /\ w[i].item \in Path
    BY FieldTypes DEF StatSafe, Indices, PushPut, Working
<1>2. PICK open \in SUBSET Dirs : Accounts(open)
    BY DEF StatSafe
<1>3. Placed(open) /\ Walked(open)
    BY <1>2 DEF Accounts
<1>4. PICK s \in Slots : s = bottom[i] /\ ~Full(i, s)
    BY <1>1, FreeSlot
<1>5. s % Capacity = s
    BY SlotOf
<1>6. /\ slot' = [slot EXCEPT ![i][s] = w[i].item]
      /\ UNCHANGED <<top, bottom, counter, main, visits>>
    BY <1>4, <1>5 DEF PushPut
<1>7. slot \in [Workers -> [Slots -> Path]]
    BY <1>1 DEF TypeOK, Slots
<1>8. slot'[i][s] = w[i].item
    BY <1>6, <1>7
<1>9. \A a \in Workers, k \in Slots : a # i \/ k # s => slot'[a][k] = slot[a][k]
    <2>1. \A a \in Workers, k \in Slots :
                a # i \/ k # s => [slot EXCEPT ![i][s] = w[i].item][a][k] = slot[a][k]
        BY <1>7, OtherSlots
    <2> QED  BY <1>6, <2>1, Zenon
<1>10. /\ \A j \in Workers \ {i} : w'[j] = w[j]
       /\ w'[i].pc = "publish" /\ w'[i].batch = w[i].batch /\ w'[i].todo = w[i].todo
       /\ w'[i].item = w[i].item /\ w'[i].work = w[i].work
    BY <1>1, PushPutDoes DEF Locals
<1>11. Sole' /\ \A q \in Workers, k \in Slots : Full(q, k)' <=> Full(q, k)
    BY <1>1, QuietMoves, SecuredOnce
<1>12. Working(i)' /\ Held(i)' = Held(i) /\ Found(i)' = Found(i)
    <2>1. Working(i)'
        BY <1>10 DEF Working
    <2>2. Held(i)' = Held(i)
        BY <1>1, <1>10, <2>1 DEF Held
    <2>3. Found(i)' = Found(i)
        BY <1>1, <1>10, <2>1 DEF Found
    <2> QED  BY <2>1, <2>2, <2>3
<1>13. \A j \in Workers : /\ Held(j)' = Held(j) /\ Found(j)' = Found(j)
                          /\ Working(j)' <=> Working(j)
    BY <1>1, <1>10, <1>12, SameHands
<1>14. \A j \in Workers : Hands(j)'
    <2>1. Hands(i)'
        BY <1>1, <1>4, <1>6, <1>8, <1>10, <1>12 DEF Hands
    <2>2. ASSUME NEW j \in Workers \ {i}
          PROVE  Hands(j)'
        <3>1. ASSUME w[j].pc = "publish"
              PROVE  slot'[j][bottom[j]] = slot[j][bottom[j]]
            BY <1>1, <1>9, <3>1, FreeSlot
        <3> QED  BY <1>1, <1>6, <1>10, <3>1, OthersHands
    <2> QED  BY <2>1, <2>2
<1>15. Phases'
    BY <1>1, <1>6, <1>10 DEF Phases
<1>16. Placed(open)'
    <2>1. ASSUME NEW q \in Workers, NEW k \in Slots, Full(q, k)'
          PROVE  /\ slot'[q][k] \in open /\ visits'[slot'[q][k]] = 0
                 /\ \A j \in Workers : slot'[q][k] \notin Held(j)'
                 /\ \A j \in Workers, l \in Slots :
                        Full(j, l)' /\ slot'[q][k] = slot'[j][l] => q = j /\ k = l
        <3>1. \A j \in Workers, l \in Slots :
                    Full(j, l)' => Full(j, l) /\ slot'[j][l] = slot[j][l]
            BY <1>4, <1>9, <1>11
        <3>2. Full(q, k) /\ slot'[q][k] = slot[q][k]
            BY <2>1, <3>1
        <3>3. /\ slot[q][k] \in open /\ visits[slot[q][k]] = 0
              /\ \A j \in Workers : slot[q][k] \notin Held(j)
              /\ \A j \in Workers, l \in Slots :
                        Full(j, l) /\ slot[q][k] = slot[j][l] => q = j /\ k = l
            BY <1>3, <3>2, PlacedParts
        <3>4. \A j \in Workers, l \in Slots :
                        Full(j, l)' /\ slot'[q][k] = slot'[j][l] => q = j /\ k = l
            BY <3>1, <3>2, <3>3
        <3>5. \A j \in Workers : slot'[q][k] \notin Held(j)'
            BY <1>13, <3>2, <3>3
        <3> QED  BY <1>6, <3>2, <3>3, <3>4, <3>5
    <2>2. ASSUME NEW j \in Workers
          PROVE  /\ Held(j)' \subseteq open
                 /\ \A c \in Found(j)' : c \notin open /\ visits'[c] = 0
                 /\ \A h \in Workers \ {j} : Held(j)' \cap Held(h)' = {}
        <3>1. /\ Held(j) \subseteq open
              /\ \A c \in Found(j) : c \notin open /\ visits[c] = 0
              /\ \A h \in Workers \ {j} : Held(j) \cap Held(h) = {}
            BY <1>3, PlacedParts
        <3> QED  BY <1>6, <1>13, <3>1
    <2>3. ASSUME NEW j \in Workers
          PROVE  /\ w'[j].pc \in {"put", "publish"} => visits'[w'[j].item] = 0
                 /\ Working(j)' => visits'[w'[j].work] =
                        IF w'[j].pc = "read" \/ w'[j].batch # <<>> THEN 0 ELSE 1
        <3>1. /\ w[j].pc \in {"put", "publish"} => visits[w[j].item] = 0
              /\ Working(j) => visits[w[j].work] =
                    IF w[j].pc = "read" \/ w[j].batch # <<>> THEN 0 ELSE 1
            BY <1>3, PlacedParts
        <3>2. CASE j = i
            BY <1>1, <1>6, <1>10, <3>1, <3>2
        <3>3. CASE j # i
            BY <1>6, <1>10, <1>13, <3>1, <3>3
        <3> QED  BY <3>2, <3>3
    <2> QED  BY <2>1, <2>2, <2>3 DEF Placed
<1>17. Walked(open)'
    <2>1. \A j \in Workers : \A c : c \in Found(j) => c \in Found(j)' /\ w'[j].work = w[j].work
        BY <1>10, <1>13
    <2> QED  BY <1>3, <1>6, <2>1, WalkedKept
<1> QED  BY <1>2, <1>6, <1>11, <1>14, <1>15, <1>16, <1>17 DEF StatSafe, Indices, Accounts

\* The last slot of a queue becomes part of it.
LEMMA Published ==
    ASSUME TypeOK, Indices, Calm, Sole, NEW i \in Workers,
           w[i].pc \in {"start", "publish"}, w'[i].pc \in {"start", "push"},
           \A j \in Workers \ {i} : w'[j] = w[j],
           top' = top, bottom' = [bottom EXCEPT ![i] = @ + 1]
    PROVE  /\ Sole'
           /\ \A q \in Workers, k \in Slots :
                Full(q, k)' <=> Full(q, k) \/ (q = i /\ k = bottom[i])
<1>1. bottom[i] \in Slots /\ ~Full(i, bottom[i])
    BY FreeSlot
<1>2. /\ bottom'[i] = bottom[i] + 1 /\ \A j \in Workers \ {i} : bottom'[j] = bottom[j]
      /\ top[i] \in Nat /\ top[i] =< bottom[i]
    BY FieldTypes DEF TypeOK, Indices, Popping, Reserved
<1>3. \A q \in Workers \ {i}, k \in Slots : Queued(q, k)' <=> Queued(q, k)
    BY <1>2, QueuedKept
<1>4. \A k \in Slots : Queued(i, k)' <=> Queued(i, k) \/ k = bottom[i]
    <2>1. \A k \in Slots : k \in Nat
        BY SlotOf
    <2>2. \A k \in Slots : Queued(i, k) <=> k \in top[i] .. (bottom[i] - 1)
        <3>1. End(i) = bottom[i]
            BY DEF End, Reserved
        <3> QED  BY <3>1 DEF Queued
    <2>3. End(i)' = bottom[i] + 1 /\ top'[i] = top[i]
        <3>1. ~Reserved(i)'
            BY DEF Reserved
        <3>2. End(i)' = bottom'[i]
            BY <3>1 DEF End
        <3> QED  BY <1>2, <3>2
    <2>4. \A k \in Slots : Queued(i, k)' <=> k \in top[i] .. ((bottom[i] + 1) - 1)
        <3>1. \A k \in Slots : Queued(i, k)' <=> k \in top'[i] .. (End(i)' - 1)
            BY DEF Queued
        <3> QED  BY <2>3, <3>1
    <2> QED  BY <1>1, <1>2, <2>1, <2>2, <2>4
<1>5. \A j \in Workers \ {i}, q \in Workers, k \in Slots :
            Claims(j, q, k)' <=> Claims(j, q, k)
    BY ClaimsKept
<1>6. \A q \in Workers, k \in Slots : Claims(i, q, k)' <=> Claims(i, q, k)
    BY NoClaims
<1>7. \A j, q \in Workers, k \in Slots : Claims(j, q, k)' <=> Claims(j, q, k)
    BY <1>5, <1>6
<1>8. \A q \in Workers, k \in Slots : Queued(q, k)' <=> Queued(q, k) \/ (q = i /\ k = bottom[i])
    BY <1>3, <1>4
<1>9. \A j \in Workers : ~Claims(j, i, bottom[i])
    BY <1>1 DEF Full
<1>10. Sole'
    BY <1>7, <1>8, <1>9 DEF Sole
<1>11. \A q \in Workers, k \in Slots :
            Full(q, k)' <=> Full(q, k) \/ (q = i /\ k = bottom[i])
    BY <1>7, <1>8 DEF Full
<1> QED  BY <1>10, <1>11

\* The path a worker has put into its queue leaves its hands.
LEMMA PushPublishStep ==
    ASSUME StatSafe, Calm, TypeOK', Indices', NEW i \in Workers, PushPublish(i)
    PROVE  StatSafe'
<1>1. /\ TypeOK /\ Indices /\ Sole /\ Phases /\ \A j \in Workers : Hands(j)
      /\ w[i].pc = "publish" /\ Working(i) /\ w[i].batch = <<>>
    BY DEF StatSafe, Indices, PushPublish, Working, Hands
<1>2. PICK open \in SUBSET Dirs : Accounts(open)
    BY DEF StatSafe
<1>3. Placed(open) /\ Walked(open)
    BY <1>2 DEF Accounts
<1>4. PICK s \in Slots : s = bottom[i]
    BY <1>1, FreeSlot
<1>5. PICK d \in Dirs : d = w[i].work
    BY <1>1 DEF Hands
<1>6. PICK c \in Dirs \ {d} : c = w[i].item /\ slot[i][s] = c
    BY <1>1, <1>4, <1>5 DEF Hands
<1>7. /\ \A j \in Workers \ {i} : w'[j] = w[j]
      /\ w'[i].pc = "push" /\ w'[i].batch = <<>> /\ w'[i].todo = w[i].todo
      /\ w'[i].work = d
    BY <1>1, <1>5, PushPublishDoes DEF Locals
<1>8. /\ bottom' = [bottom EXCEPT ![i] = @ + 1]
      /\ UNCHANGED <<top, slot, counter, main, visits>>
    BY DEF PushPublish
<1>9. Sole' /\ \A q \in Workers, k \in Slots : Full(q, k)' <=> Full(q, k) \/ (q = i /\ k = s)
    <2>1. w[i].pc \in {"start", "publish"} /\ w'[i].pc \in {"start", "push"} /\ top' = top
        BY <1>1, <1>7, <1>8
    <2>2. /\ Sole'
          /\ \A q \in Workers, k \in Slots :
                Full(q, k)' <=> Full(q, k) \/ (q = i /\ k = bottom[i])
        BY <1>1, <1>7, <1>8, <2>1, Published
    <2> QED  BY <1>4, <2>2
<1>10. Working(i)' /\ Held(i) = {d, c} /\ Held(i)' = {d} /\ Found(i)' = Found(i)
    <2>1. Working(i)'
        BY <1>7 DEF Working
    <2>2. Held(i) = {d, c}
        BY <1>1, <1>5, <1>6 DEF Held
    <2>3. Held(i)' = {d}
        BY <1>7, <2>1 DEF Held
    <2>4. Found(i)' = Found(i)
        BY <1>1, <1>7, <2>1 DEF Found
    <2> QED  BY <2>1, <2>2, <2>3, <2>4
<1>11. \A j \in Workers \ {i} : /\ Held(j)' = Held(j) /\ Found(j)' = Found(j)
                                /\ Working(j)' <=> Working(j)
    BY <1>7, SameHands
<1>12. \A j \in Workers : Held(j)' \subseteq Held(j) /\ c \notin Held(j)'
    <2>1. \A j \in Workers \ {i} : Held(i) \cap Held(j) = {}
        BY <1>3, PlacedParts
    <2> QED  BY <1>10, <1>11, <2>1
<1>13. c \in open /\ visits[c] = 0
    BY <1>1, <1>3, <1>6, <1>10, PlacedParts
<1>14. \A j \in Workers : Hands(j)'
    <2>1. Hands(i)'
        BY <1>1, <1>5, <1>7, <1>10 DEF Hands
    <2>2. \A j \in Workers \ {i} : bottom'[j] = bottom[j]
        BY <1>1, <1>8 DEF TypeOK
    <2> QED  BY <1>1, <1>7, <1>8, <2>1, <2>2, OthersHands
<1>15. Phases'
    BY <1>1, <1>7, <1>8 DEF Phases
<1>16. Placed(open)'
    <2>0. slot' = slot /\ visits' = visits
        BY <1>8
    <2>1. ASSUME NEW q \in Workers, NEW k \in Slots, Full(q, k)'
          PROVE  /\ slot'[q][k] \in open /\ visits'[slot'[q][k]] = 0
                 /\ \A j \in Workers : slot'[q][k] \notin Held(j)'
                 /\ \A j \in Workers, l \in Slots :
                        Full(j, l)' /\ slot'[q][k] = slot'[j][l] => q = j /\ k = l
        <3>1. ASSUME NEW a \in Workers, NEW l \in Slots, Full(a, l)
              PROVE  /\ slot[a][l] \in open /\ visits[slot[a][l]] = 0 /\ slot[a][l] # c
                     /\ \A j \in Workers : slot[a][l] \notin Held(j)
            BY <1>3, <1>10, <3>1, PlacedParts
        <3>2. CASE Full(q, k)
            <4>1. \A j \in Workers, l \in Slots :
                        Full(j, l) /\ slot[q][k] = slot[j][l] => q = j /\ k = l
                BY <1>3, <3>2, PlacedParts
            <4>2. \A j \in Workers, l \in Slots :
                        Full(j, l)' /\ slot'[q][k] = slot'[j][l] => q = j /\ k = l
                BY <1>6, <1>9, <2>0, <3>1, <3>2, <4>1
            <4> QED  BY <1>12, <2>0, <3>1, <3>2, <4>2
        <3>3. CASE q = i /\ k = s
            <4>1. slot'[q][k] = c
                BY <1>6, <2>0, <3>3
            <4>2. \A j \in Workers, l \in Slots :
                        Full(j, l)' /\ slot'[q][k] = slot'[j][l] => q = j /\ k = l
                BY <1>9, <2>0, <3>1, <3>3, <4>1
            <4> QED  BY <1>12, <1>13, <2>0, <4>1, <4>2
        <3> QED  BY <1>9, <2>1, <3>2, <3>3
    <2>2. ASSUME NEW j \in Workers
          PROVE  /\ Held(j)' \subseteq open
                 /\ \A x \in Found(j)' : x \notin open /\ visits'[x] = 0
                 /\ \A h \in Workers \ {j} : Held(j)' \cap Held(h)' = {}
        <3>1. /\ Held(j) \subseteq open
              /\ \A x \in Found(j) : x \notin open /\ visits[x] = 0
              /\ \A h \in Workers \ {j} : Held(j) \cap Held(h) = {}
            BY <1>3, PlacedParts
        <3>2. Found(j)' = Found(j)
            BY <1>10, <1>11
        <3> QED  BY <1>12, <2>0, <3>1, <3>2
    <2>3. ASSUME NEW j \in Workers
          PROVE  /\ w'[j].pc \in {"put", "publish"} => visits'[w'[j].item] = 0
                 /\ Working(j)' => visits'[w'[j].work] =
                        IF w'[j].pc = "read" \/ w'[j].batch # <<>> THEN 0 ELSE 1
        <3>1. /\ w[j].pc \in {"put", "publish"} => visits[w[j].item] = 0
              /\ Working(j) => visits[w[j].work] =
                    IF w[j].pc = "read" \/ w[j].batch # <<>> THEN 0 ELSE 1
            BY <1>3, PlacedParts
        <3>2. CASE j = i
            BY <1>1, <1>5, <1>7, <2>0, <3>1, <3>2
        <3>3. CASE j # i
            BY <1>7, <1>11, <2>0, <3>1, <3>3
        <3> QED  BY <3>2, <3>3
    <2> QED  BY <2>1, <2>2, <2>3 DEF Placed
<1>17. Walked(open)'
    <2>1. \A j \in Workers : \A x : x \in Found(j) => x \in Found(j)' /\ w'[j].work = w[j].work
        BY <1>5, <1>7, <1>10, <1>11
    <2> QED  BY <1>3, <1>8, <2>1, WalkedKept
<1> QED  BY <1>2, <1>8, <1>9, <1>14, <1>15, <1>16, <1>17 DEF StatSafe, Indices, Accounts

\* A stolen directory is about to be read: nothing else was in the batch.
LEMMA PushEndStolenStep ==
    ASSUME StatSafe, Calm, TypeOK', Indices', NEW i \in Workers, PushEnd(i),
           w[i].batch # <<>>
    PROVE  StatSafe'
<1>1. /\ TypeOK /\ Indices /\ Sole /\ Phases /\ \A j \in Workers : Hands(j)
      /\ w[i].pc = "push" /\ Working(i) /\ w[i].todo = <<>>
    BY DEF StatSafe, Indices, PushEnd, Working
<1>2. PICK open \in SUBSET Dirs : Accounts(open)
    BY DEF StatSafe
<1>3. Placed(open) /\ Walked(open)
    BY <1>2 DEF Accounts
<1>4. /\ \A j \in Workers \ {i} : w'[j] = w[j]
      /\ w'[i].pc = "read" /\ w'[i].batch = <<>> /\ w'[i].todo = <<>>
      /\ w'[i].work = w[i].work
    BY <1>1, PushEndStolenDoes DEF Locals
<1>5. UNCHANGED <<top, bottom, slot, counter, main, visits>>
    BY DEF PushEnd
<1>6. Sole' /\ \A q \in Workers, k \in Slots : Full(q, k)' <=> Full(q, k)
    BY <1>1, QuietMoves, SecuredOnce
<1>7. Working(i)' /\ Held(i)' = Held(i) /\ Found(i) = {} /\ Found(i)' = {}
    <2>1. Working(i)'
        BY <1>4 DEF Working
    <2>2. Held(i)' = Held(i)
        BY <1>1, <1>4, <2>1 DEF Held
    <2>3. Found(i)' = {}
        BY <1>4 DEF Found
    <2>4. Found(i) = {}
        BY <1>1 DEF Found, ToSet
    <2> QED  BY <2>1, <2>2, <2>3, <2>4
<1>8. \A j \in Workers : /\ Held(j)' = Held(j) /\ Found(j)' = Found(j)
                         /\ Working(j)' <=> Working(j)
    BY <1>1, <1>4, <1>7, SameHands
<1>9. \A j \in Workers : Hands(j)'
    <2>1. Hands(i)'
        BY <1>1, <1>4, <1>7 DEF Hands
    <2> QED  BY <1>1, <1>4, <1>5, <2>1, OthersHands
<1>10. Phases'
    BY <1>1, <1>4, <1>5 DEF Phases
<1>11. Placed(open)'
    <2>0. slot' = slot /\ visits' = visits
        BY <1>5
    <2>1. ASSUME NEW q \in Workers, NEW k \in Slots, Full(q, k)'
          PROVE  /\ slot'[q][k] \in open /\ visits'[slot'[q][k]] = 0
                 /\ \A j \in Workers : slot'[q][k] \notin Held(j)'
                 /\ \A j \in Workers, l \in Slots :
                        Full(j, l)' /\ slot'[q][k] = slot'[j][l] => q = j /\ k = l
        <3>1. Full(q, k)
            BY <1>6, <2>1
        <3>2. /\ slot[q][k] \in open /\ visits[slot[q][k]] = 0
              /\ \A j \in Workers : slot[q][k] \notin Held(j)
              /\ \A j \in Workers, l \in Slots :
                        Full(j, l) /\ slot[q][k] = slot[j][l] => q = j /\ k = l
            BY <1>3, <3>1, PlacedParts
        <3>3. \A j \in Workers, l \in Slots :
                        Full(j, l)' /\ slot'[q][k] = slot'[j][l] => q = j /\ k = l
            BY <1>6, <2>0, <3>2
        <3>4. \A j \in Workers : slot'[q][k] \notin Held(j)'
            BY <1>8, <2>0, <3>2
        <3> QED  BY <2>0, <3>2, <3>3, <3>4
    <2>2. ASSUME NEW j \in Workers
          PROVE  /\ Held(j)' \subseteq open
                 /\ \A c \in Found(j)' : c \notin open /\ visits'[c] = 0
                 /\ \A h \in Workers \ {j} : Held(j)' \cap Held(h)' = {}
        <3>1. /\ Held(j) \subseteq open
              /\ \A c \in Found(j) : c \notin open /\ visits[c] = 0
              /\ \A h \in Workers \ {j} : Held(j) \cap Held(h) = {}
            BY <1>3, PlacedParts
        <3> QED  BY <1>8, <2>0, <3>1
    <2>3. ASSUME NEW j \in Workers
          PROVE  /\ w'[j].pc \in {"put", "publish"} => visits'[w'[j].item] = 0
                 /\ Working(j)' => visits'[w'[j].work] =
                        IF w'[j].pc = "read" \/ w'[j].batch # <<>> THEN 0 ELSE 1
        <3>1. /\ w[j].pc \in {"put", "publish"} => visits[w[j].item] = 0
              /\ Working(j) => visits[w[j].work] =
                    IF w[j].pc = "read" \/ w[j].batch # <<>> THEN 0 ELSE 1
            BY <1>3, PlacedParts
        <3>2. CASE j = i
            BY <1>1, <1>4, <2>0, <3>1, <3>2
        <3>3. CASE j # i
            BY <1>4, <1>8, <2>0, <3>1, <3>3
        <3> QED  BY <3>2, <3>3
    <2> QED  BY <2>1, <2>2, <2>3 DEF Placed
<1>12. Walked(open)'
    <2>1. \A j \in Workers : \A c : c \in Found(j) => c \in Found(j)' /\ w'[j].work = w[j].work
        BY <1>4, <1>8
    <2> QED  BY <1>3, <1>5, <2>1, WalkedKept
<1> QED  BY <1>2, <1>5, <1>6, <1>9, <1>10, <1>11, <1>12 DEF StatSafe, Indices, Accounts

\* A directory is done: all that was found in it is counted.
LEMMA PushEndDoneStep ==
    ASSUME StatSafe, Calm, TypeOK', Indices', NEW i \in Workers, PushEnd(i),
           w[i].batch = <<>>
    PROVE  StatSafe'
<1>1. /\ TypeOK /\ Indices /\ Sole /\ Phases /\ \A j \in Workers : Hands(j)
      /\ w[i].pc = "push" /\ Working(i) /\ w[i].todo = <<>>
    BY DEF StatSafe, Indices, PushEnd, Working
<1>2. PICK open \in SUBSET Dirs : Accounts(open)
    BY DEF StatSafe
<1>3. Placed(open) /\ Walked(open) /\ counter = Cardinality(open)
    BY <1>2 DEF Accounts
<1>4. PICK d \in Dirs : d = w[i].work
    BY <1>1 DEF Hands
<1>5. /\ \A j \in Workers \ {i} : w'[j] = w[j]
      /\ w'[i].pc = "pop" /\ w'[i].batch = <<>> /\ w'[i].todo = <<>>
    BY <1>1, PushEndDoneDoes DEF Locals
<1>6. counter' = counter - 1 /\ UNCHANGED <<top, bottom, slot, main, visits>>
    BY DEF PushEnd
<1>7. Sole' /\ \A q \in Workers, k \in Slots : Full(q, k)' <=> Full(q, k)
    BY <1>1, QuietMoves, SecuredOnce
<1>8. ~Working(i)' /\ Held(i) = {d} /\ Found(i) = {} /\ Held(i)' = {} /\ Found(i)' = {}
    <2>1. ~Working(i)'
        BY <1>5 DEF Working
    <2>2. Held(i) = {d}
        BY <1>1, <1>4 DEF Held
    <2>3. Found(i) = {}
        BY <1>1 DEF Found, ToSet
    <2> QED  BY <2>1, <2>2, <2>3, EmptyHandsNext
<1>9. \A j \in Workers \ {i} : /\ Held(j)' = Held(j) /\ Found(j)' = Found(j)
                               /\ Working(j)' <=> Working(j)
    BY <1>5, SameHands
<1>10. d \in open /\ visits[d] = 1 /\ \A j \in Workers : d \notin Held(j)'
    <2>1. d \in open
        BY <1>3, <1>8, PlacedParts
    <2>2. visits[d] = 1
        BY <1>1, <1>3, <1>4, PlacedParts
    <2>3. \A j \in Workers \ {i} : Held(i) \cap Held(j) = {}
        BY <1>3, PlacedParts
    <2> QED  BY <1>8, <1>9, <2>1, <2>2, <2>3
<1> DEFINE less == open \ {d}
<1>11. less \in SUBSET Dirs /\ counter' = Cardinality(less)
    <2>1. IsFiniteSet(open)
        BY FS_Subset, TreeAssumption
    <2> QED  BY <1>3, <1>6, <1>10, <2>1, FS_RemoveElement
<1>12. \A j \in Workers : Hands(j)'
    <2>1. Hands(i)'
        <3>1. w'[i].pc \notin {"push", "put", "publish"}
            BY <1>5
        <3> QED  BY <1>5, <1>8, <3>1 DEF Hands
    <2> QED  BY <1>1, <1>5, <1>6, <2>1, OthersHands
<1>13. Phases'
    <2>1. main.left = {}
        BY <1>1, Running
    <2>2. counter # 0
        <3>1. IsFiniteSet(open)
            BY FS_Subset, TreeAssumption
        <3> QED  BY <1>3, <1>10, <3>1, FS_EmptySet
    <2>3. \A j \in Workers : w[j].pc # "done"
        BY <1>1, <2>2 DEF Phases
    <2> QED  BY <1>5, <1>6, <2>1, <2>3 DEF Phases
<1>14. Placed(less)'
    <2>0. slot' = slot /\ visits' = visits
        BY <1>6
    <2>1. ASSUME NEW q \in Workers, NEW k \in Slots, Full(q, k)'
          PROVE  /\ slot'[q][k] \in less /\ visits'[slot'[q][k]] = 0
                 /\ \A j \in Workers : slot'[q][k] \notin Held(j)'
                 /\ \A j \in Workers, l \in Slots :
                        Full(j, l)' /\ slot'[q][k] = slot'[j][l] => q = j /\ k = l
        <3>1. Full(q, k)
            BY <1>7, <2>1
        <3>2. /\ slot[q][k] \in open /\ visits[slot[q][k]] = 0
              /\ \A j \in Workers : slot[q][k] \notin Held(j)
              /\ \A j \in Workers, l \in Slots :
                        Full(j, l) /\ slot[q][k] = slot[j][l] => q = j /\ k = l
            BY <1>3, <3>1, PlacedParts
        <3>3. \A j \in Workers, l \in Slots :
                        Full(j, l)' /\ slot'[q][k] = slot'[j][l] => q = j /\ k = l
            BY <1>7, <2>0, <3>2
        <3>4. \A j \in Workers : slot'[q][k] \notin Held(j)'
            BY <1>8, <1>9, <2>0, <3>2
        <3>5. slot[q][k] # d
            BY <1>10, <3>2
        <3> QED  BY <2>0, <3>2, <3>3, <3>4, <3>5
    <2>2. ASSUME NEW j \in Workers
          PROVE  /\ Held(j)' \subseteq less
                 /\ \A c \in Found(j)' : c \notin less /\ visits'[c] = 0
                 /\ \A h \in Workers \ {j} : Held(j)' \cap Held(h)' = {}
        <3>1. /\ Held(j) \subseteq open
              /\ \A c \in Found(j) : c \notin open /\ visits[c] = 0
              /\ \A h \in Workers \ {j} : Held(j) \cap Held(h) = {}
            BY <1>3, PlacedParts
        <3> QED  BY <1>8, <1>9, <1>10, <2>0, <3>1
    <2>3. ASSUME NEW j \in Workers
          PROVE  /\ w'[j].pc \in {"put", "publish"} => visits'[w'[j].item] = 0
                 /\ Working(j)' => visits'[w'[j].work] =
                        IF w'[j].pc = "read" \/ w'[j].batch # <<>> THEN 0 ELSE 1
        <3>1. /\ w[j].pc \in {"put", "publish"} => visits[w[j].item] = 0
              /\ Working(j) => visits[w[j].work] =
                    IF w[j].pc = "read" \/ w[j].batch # <<>> THEN 0 ELSE 1
            BY <1>3, PlacedParts
        <3>2. CASE j = i
            BY <1>5, <1>8, <3>2
        <3>3. CASE j # i
            BY <1>5, <1>9, <2>0, <3>1, <3>3
        <3> QED  BY <3>2, <3>3
    <2> QED  BY <2>1, <2>2, <2>3 DEF Placed
<1>15. Walked(less)'
    <2>1. /\ \A e \in Dirs : visits[e] \in {0, 1}
          /\ \A e \in TopDirs \ main.left : e \in open \/ visits[e] = 1
        BY <1>3 DEF Walked
    <2>2. main.left = {}
        BY <1>1, Running
    <2>3. ASSUME NEW e \in Dirs, NEW x \in Children[e]
          PROVE  /\ visits'[e] = 0 => x \notin less /\ visits'[x] = 0
                 /\ visits'[e] = 1 => \/ x \in less \/ visits'[x] = 1
                                      \/ \E j \in Workers : w'[j].work = e /\ x \in Found(j)'
        <3>1. /\ visits[e] = 0 => x \notin open /\ visits[x] = 0
              /\ visits[e] = 1 => \/ x \in open \/ visits[x] = 1
                                  \/ \E j \in Workers : w[j].work = e /\ x \in Found(j)
            BY <1>3 DEF Walked
        <3>2. ASSUME NEW j \in Workers, w[j].work = e, x \in Found(j)
              PROVE  w'[j].work = e /\ x \in Found(j)'
            BY <1>5, <1>8, <1>9, <3>2
        <3> QED  BY <1>6, <1>10, <3>1, <3>2
    <2> QED  BY <1>6, <1>10, <2>1, <2>2, <2>3 DEF Walked
<1>16. Accounts(less)'
    BY <1>11, <1>14, <1>15 DEF Accounts
<1> HIDE DEF less
<1> QED  BY <1>7, <1>11, <1>12, <1>13, <1>16 DEF StatSafe, Indices

\* A directory at the top level is counted and put into a queue, before anybody runs.
LEMMA DistributeStep ==
    ASSUME StatSafe, Calm, TypeOK', Indices', NEW c \in TopDirs, Distribute(c)
    PROVE  StatSafe'
<1>1. /\ TypeOK /\ Indices /\ Sole /\ Phases /\ \A j \in Workers : Hands(j)
      /\ c \in main.left /\ c \in Dirs
    BY StatAssumption DEF StatSafe, Indices, Distribute
<1>2. PICK open \in SUBSET Dirs : Accounts(open)
    BY DEF StatSafe
<1>3. Placed(open) /\ Walked(open) /\ counter = Cardinality(open)
    BY <1>2 DEF Accounts
<1>4. PICK i \in Workers : i = main.next % N
    BY <1>1, WorkerType DEF TypeOK
<1>5. \A j \in Workers : w[j].pc = "start"
    BY <1>1 DEF Phases
<1>6. PICK s \in Slots : s = bottom[i] /\ ~Full(i, s)
    BY <1>1, <1>5, FreeSlot
<1>7. s % Capacity = s
    BY SlotOf
<1>8. /\ slot' = [slot EXCEPT ![i][s] = c] /\ bottom' = [bottom EXCEPT ![i] = @ + 1]
      /\ counter' = counter + 1 /\ main' = [left |-> main.left \ {c}, next |-> main.next + 1]
      /\ top' = top /\ w' = w /\ visits' = visits
    BY <1>4, <1>6, <1>7 DEF Distribute
<1>9. slot \in [Workers -> [Slots -> Path]]
    BY <1>1 DEF TypeOK, Slots
<1>10. slot'[i][s] = c
    BY <1>8, <1>9
<1>11. \A a \in Workers, k \in Slots : a # i \/ k # s => slot'[a][k] = slot[a][k]
    <2>1. \A a \in Workers, k \in Slots :
                a # i \/ k # s => [slot EXCEPT ![i][s] = c][a][k] = slot[a][k]
        BY <1>9, OtherSlots
    <2> QED  BY <1>8, <2>1, Zenon
<1>12. Sole' /\ \A q \in Workers, k \in Slots : Full(q, k)' <=> Full(q, k) \/ (q = i /\ k = s)
    <2>1. w'[i].pc = "start" /\ \A j \in Workers \ {i} : w'[j] = w[j]
        BY <1>5, <1>8
    <2>2. /\ Sole'
          /\ \A q \in Workers, k \in Slots :
                Full(q, k)' <=> Full(q, k) \/ (q = i /\ k = bottom[i])
        BY <1>1, <1>5, <1>8, <2>1, Published
    <2> QED  BY <1>6, <2>2
<1>13. \A j \in Workers : /\ ~Working(j)' /\ Held(j)' = {} /\ Found(j)' = {}
                          /\ ~Working(j) /\ Found(j) = {}
    <2>1. \A j \in Workers : ~Working(j) /\ ~Working(j)'
        BY <1>5, <1>8 DEF Working
    <2> QED  BY <2>1, EmptyHands, EmptyHandsNext
<1>14. c \notin open /\ visits[c] = 0
    BY <1>1, <1>3 DEF Walked
<1> DEFINE more == open \cup {c}
<1>15. more \in SUBSET Dirs /\ counter' = Cardinality(more)
    <2>1. IsFiniteSet(open)
        BY FS_Subset, TreeAssumption
    <2> QED  BY <1>1, <1>3, <1>8, <1>14, <2>1, FS_AddElement
<1>16. \A j \in Workers : Hands(j)'
    <2>1. \A j \in Workers : w'[j].pc = "start" /\ w'[j].batch = <<>>
        BY <1>1, <1>5, <1>8 DEF Hands
    <2> QED  BY <1>13, <2>1 DEF Hands
<1>17. Phases'
    BY <1>5, <1>8 DEF Phases
<1>18. Placed(more)'
    <2>1. ASSUME NEW q \in Workers, NEW k \in Slots, Full(q, k)'
          PROVE  /\ slot'[q][k] \in more /\ visits'[slot'[q][k]] = 0
                 /\ \A j \in Workers : slot'[q][k] \notin Held(j)'
                 /\ \A j \in Workers, l \in Slots :
                        Full(j, l)' /\ slot'[q][k] = slot'[j][l] => q = j /\ k = l
        <3>1. ASSUME NEW a \in Workers, NEW l \in Slots, Full(a, l)
              PROVE  /\ slot'[a][l] = slot[a][l] /\ slot[a][l] \in open
                     /\ visits[slot[a][l]] = 0 /\ slot[a][l] # c
            <4>1. slot[a][l] \in open /\ visits[slot[a][l]] = 0
                BY <1>3, <3>1, PlacedParts
            <4> QED  BY <1>6, <1>11, <1>14, <3>1, <4>1
        <3>2. CASE Full(q, k)
            <4>1. \A j \in Workers, l \in Slots :
                        Full(j, l) /\ slot[q][k] = slot[j][l] => q = j /\ k = l
                BY <1>3, <3>2, PlacedParts
            <4>2. \A j \in Workers, l \in Slots :
                        Full(j, l)' /\ slot'[q][k] = slot'[j][l] => q = j /\ k = l
                BY <1>10, <1>12, <3>1, <3>2, <4>1
            <4> QED  BY <1>8, <1>13, <3>1, <3>2, <4>2
        <3>3. CASE q = i /\ k = s
            <4>1. slot'[q][k] = c
                BY <1>10, <3>3
            <4>2. \A j \in Workers, l \in Slots :
                        Full(j, l)' /\ slot'[q][k] = slot'[j][l] => q = j /\ k = l
                BY <1>12, <3>1, <3>3, <4>1
            <4> QED  BY <1>8, <1>13, <1>14, <4>1, <4>2
        <3> QED  BY <1>12, <2>1, <3>2, <3>3
    <2>2. \A j \in Workers : w'[j].pc \notin {"put", "publish"}
        BY <1>5, <1>8
    <2> QED  BY <1>13, <2>1, <2>2 DEF Placed
<1>19. Walked(more)'
    <2>1. /\ \A e \in Dirs : visits[e] \in {0, 1}
          /\ \A e \in TopDirs \ main.left : e \in open \/ visits[e] = 1
          /\ \A e \in main.left : e \notin open /\ visits[e] = 0
        BY <1>3 DEF Walked
    <2>2. main'.left = main.left \ {c}
        BY <1>8
    <2>3. ASSUME NEW e \in Dirs, NEW x \in Children[e]
          PROVE  /\ visits'[e] = 0 => x \notin more /\ visits'[x] = 0
                 /\ visits'[e] = 1 => \/ x \in more \/ visits'[x] = 1
                                      \/ \E j \in Workers : w'[j].work = e /\ x \in Found(j)'
        <3>1. /\ visits[e] = 0 => x \notin open /\ visits[x] = 0
              /\ visits[e] = 1 => \/ x \in open \/ visits[x] = 1
                                  \/ \E j \in Workers : w[j].work = e /\ x \in Found(j)
            BY <1>3 DEF Walked
        <3>2. x # c
            BY <1>1, TreeAssumption
        <3> QED  BY <1>8, <1>13, <3>1, <3>2
    <2> QED  BY <1>8, <2>1, <2>2, <2>3 DEF Walked
<1>20. Accounts(more)'
    BY <1>15, <1>18, <1>19 DEF Accounts
<1> HIDE DEF more
<1> QED  BY <1>12, <1>15, <1>16, <1>17, <1>20 DEF StatSafe, Indices

-----------------------------------------------------------------------------
(* The theorems                                                            *)

\* In the beginning the queues and all hands are empty, and nothing is open.
LEMMA SafeInit ==
    ASSUME Init
    PROVE  StatSafe
<1>1. TypeOK
    BY InitType
<1>2. \A j \in Workers : /\ w[j].pc = "start" /\ w[j].batch = <<>> /\ w[j].todo = <<>>
                         /\ top[j] = 0 /\ bottom[j] = 0
    BY DEF Init, WorkerInit
<1>3. \A j \in Workers : ~Working(j) /\ Held(j) = {} /\ Found(j) = {}
    <2>1. \A j \in Workers : ~Working(j)
        BY <1>2 DEF Working
    <2> QED  BY <2>1, EmptyHands
<1>4. \A j \in Workers : Popping(j) /\ Stealing(j) /\ Hands(j)
    BY <1>2, <1>3 DEF Popping, Stealing, Hands, Reserved
<1>5. \A i \in Workers, k \in Slots : ~Full(i, k) /\ \A j \in Workers : ~Claims(j, i, k)
    <2>1. \A i \in Workers, k \in Slots : ~Queued(i, k)
        BY <1>2, SlotOf DEF Queued, End, Reserved
    <2>2. \A j, i \in Workers, k \in Slots : ~Claims(j, i, k)
        BY <1>2 DEF Claims
    <2> QED  BY <2>1, <2>2 DEF Full
<1>6. Sole
    BY <1>5 DEF Sole
<1>7. Phases
    BY <1>2 DEF Phases
<1>8. counter = Cardinality({})
    BY FS_EmptySet DEF Init
<1>9. Placed({})
    BY <1>2, <1>3, <1>5 DEF Placed
<1>10. Walked({})
    <2>1. main.left = TopDirs /\ \A d \in Dirs : visits[d] = 0
        BY DEF Init
    <2>2. TopDirs \subseteq Dirs /\ \A d \in Dirs : Children[d] \subseteq Dirs
        BY StatAssumption
    <2> QED  BY <2>1, <2>2 DEF Walked
<1>11. {} \in SUBSET Dirs /\ Accounts({})
    BY <1>8, <1>9, <1>10 DEF Accounts
<1> QED  BY <1>1, <1>4, <1>6, <1>7, <1>11 DEF StatSafe

\* Every step that starts in a calm state keeps the invariant.
LEMMA SafeStep ==
    ASSUME StatSafe, Calm, [Next]_vars
    PROVE  StatSafe'
<1>1. TypeOK /\ Indices /\ Phases
    BY DEF StatSafe, Indices
<1>2. Bounded
    <2>1. \A j \in Workers : w[j].pc \in {"stealbottom", "stealcas"} => w[j].off \in 1 .. (N - 1)
        BY <1>1 DEF Indices, Stealing
    <2> QED  BY <2>1, StatAssumption DEF Bounded
<1>3. CASE Next
    <2>1. TypeOK' /\ Indices'
        BY <1>1, <1>2, <1>3, TypeStep, IndexStep
    <2>2. ASSUME NEW i \in Workers, Step(i)
          PROVE  StatSafe'
        BY <2>1, <2>2, LookingStep, PushNextStep, PushPutStep, PushPublishStep,
           PushEndStolenStep, PushEndDoneStep, PopTakeStep, StealMoveStep, ReadStep
        DEF Step
    <2> QED  BY <1>3, <2>1, <2>2, DistributeStep DEF Next
<1>4. CASE UNCHANGED vars
    <2>1. UNCHANGED <<top, bottom, slot, counter, w, main, visits>>
        BY <1>4 DEF vars
    <2>2. TypeOK'
        BY <1>1, <2>1 DEF TypeOK
    <2>3. \A i \in Workers : Popping(i)' /\ Stealing(i)' /\ Hands(i)'
        <3>1. ASSUME NEW i \in Workers
              PROVE  Popping(i)' /\ Stealing(i)' /\ Hands(i)'
            <4>1. Popping(i) /\ Stealing(i) /\ Hands(i)
                BY DEF StatSafe
            <4> QED  BY <2>1, <4>1
                     DEF Popping, Stealing, Hands, Reserved, Victim, Working, Found
        <3> QED  BY <3>1
    <2>4. Sole' /\ Phases'
        BY <2>1 DEF StatSafe, Sole, Phases, Claims, Victim, Queued, End, Reserved
    <2>5. \E open \in SUBSET Dirs : Accounts(open)'
        BY <2>1 DEF StatSafe, Accounts, Placed, Walked, Full, Claims, Victim, Queued, End,
                    Reserved, Held, Found, Working
    <2> QED  BY <2>2, <2>3, <2>4, <2>5 DEF StatSafe
<1> QED  BY <1>3, <1>4

\* What a worker reads in a safe state is a directory.
LEMMA SafeReads ==
    ASSUME StatSafe
    PROVE  NoOverlap
<1>1. \A i \in Workers : Working(i) => w[i].work \in Dirs
    BY DEF StatSafe, Hands
<1> QED  BY <1>1, StatAssumption DEF NoOverlap, Working

\* When a worker stops in a safe state nothing is open, so the walk is at its end.
LEMMA SafeStops ==
    ASSUME StatSafe
    PROVE  StopsWhenAllRead
<1> SUFFICES ASSUME \E i \in Workers : w[i].pc = "done"
             PROVE  \A d \in Dirs : visits[d] = 1
    BY DEF StopsWhenAllRead
<1>1. PICK open \in SUBSET Dirs : Accounts(open)
    BY DEF StatSafe
<1>2. main.left = {} /\ counter = 0
    BY DEF StatSafe, Phases
<1>3. open = {}
    <2>1. IsFiniteSet(open)
        BY FS_Subset, TreeAssumption
    <2> QED  BY <1>1, <1>2, <2>1, FS_EmptySet DEF Accounts
<1>4. \A j \in Workers : Found(j) = {}
    <2>1. ASSUME NEW j \in Workers, Working(j)
          PROVE  FALSE
        <3>1. w[j].work \in Held(j)
            BY <2>1, AtWork DEF StatSafe, Hands
        <3>2. Held(j) \subseteq open
            BY <1>1, PlacedParts DEF Accounts
        <3> QED  BY <1>3, <3>1, <3>2
    <2> QED  BY <2>1, EmptyHands
<1> DEFINE read == {d \in Dirs : visits[d] = 1}
<1>5. TopDirs \subseteq read
    BY <1>1, <1>2, <1>3, StatAssumption DEF Accounts, Walked
<1>6. \A d \in read : Children[d] \subseteq read
    <2>1. ASSUME NEW d \in Dirs, visits[d] = 1, NEW c \in Children[d]
          PROVE  c \in Dirs /\ visits[c] = 1
        <3>1. \/ c \in open \/ visits[c] = 1
              \/ \E j \in Workers : w[j].work = d /\ c \in Found(j)
            BY <1>1, <2>1 DEF Accounts, Walked
        <3> QED  BY <1>3, <1>4, <3>1, StatAssumption
    <2> QED  BY <2>1
<1>7. read = Dirs
    BY <1>5, <1>6, TreeAssumption
<1> QED  BY <1>7

\* As long as the queues are used calmly the invariant holds.
THEOREM StatSafety == Spec /\ []Calm => []StatSafe
<1>1. Init => StatSafe
    BY SafeInit
<1>2. StatSafe /\ Calm /\ [Next]_vars => StatSafe'
    BY SafeStep
<1> QED  BY <1>1, <1>2, PTL DEF Spec

\* pop() and steal(), each racing with the other and with itself, give every path to
\* one worker.
THEOREM PathsOnce == Spec /\ []Calm => []NoOverlap
<1>1. StatSafe => NoOverlap
    BY SafeReads
<1> QED  BY <1>1, StatSafety, PTL

\* No worker stops before every directory was read, and none is read twice.
THEOREM StopsInTime == Spec /\ []Calm => []StopsWhenAllRead
<1>1. StatSafe => StopsWhenAllRead
    BY SafeStops
<1> QED  BY <1>1, StatSafety, PTL

-----------------------------------------------------------------------------
(* Runs that are calm by the size of the tree                              *)

\* A directory that is put into a queue stays accounted for.
LEMMA StaysPushed ==
    ASSUME StatSafe, StatSafe', \A d \in Dirs : visits[d] =< visits'[d],
           \A q \in Workers, k \in Slots : Full(q, k) => slot[q][k] \in Pushed',
           \A j \in Workers : Working(j) => w[j].work \in Pushed'
    PROVE  Pushed \subseteq Pushed'
<1>1. \A d \in Dirs : visits[d] \in {0, 1} /\ visits'[d] \in {0, 1}
    BY DEF StatSafe, Accounts, Walked
<1>2. ASSUME NEW d \in Dirs, visits[d] = 1
      PROVE  d \in Pushed'
    <2>1. visits'[d] = 1
        BY <1>1, <1>2
    <2> QED  BY <2>1 DEF Pushed
<1> QED  BY <1>2 DEF Pushed

\* What is in a queue is a directory, and so is what a worker reads.
LEMMA PushedAre ==
    ASSUME StatSafe
    PROVE  /\ \A q \in Workers, k \in Slots : Full(q, k) => slot[q][k] \in Dirs
           /\ \A j \in Workers : Working(j) => w[j].work \in Dirs
           /\ \A d \in Dirs : visits[d] \in {0, 1}
<1>1. PICK open \in SUBSET Dirs : Placed(open) /\ Walked(open)
    BY DEF StatSafe, Accounts
<1> QED  BY <1>1, PlacedParts DEF StatSafe, Hands, Walked

\* Only a step that publishes a path lengthens a queue.
LEMMA EndStays ==
    ASSUME TypeOK, Indices, NEW i \in Workers, Step(i), ~PushPublish(i)
    PROVE  \A j \in Workers : End(j)' =< End(j)
<1>1. Popping(i) /\ bottom[i] \in Int /\ w[i].b \in Int /\ End(i) \in Int
    BY FieldTypes DEF Indices, End
<1>2. ASSUME NEW j \in Workers \ {i}, w'[j] = w[j], bottom'[j] = bottom[j]
      PROVE  End(j)' =< End(j)
    <2>1. End(j)' = End(j)
        BY <1>2 DEF End, Reserved
    <2>2. End(j) \in Int
        BY FieldTypes DEF End
    <2> QED  BY <2>1, <2>2
<1>3. CASE PopReserve(i)
    <2>1. /\ w[i].pc = "pop" /\ w'[i].pc = "poptop"
          /\ \A j \in Workers \ {i} : w'[j] = w[j]
        BY <1>3, PopReserveDoes DEF Locals, PopReserve
    <2>2. bottom'[i] = bottom[i] - 1 /\ \A j \in Workers \ {i} : bottom'[j] = bottom[j]
        BY <1>3 DEF TypeOK, PopReserve
    <2>3. End(i)' = End(i)
        BY <1>1, <2>1, <2>2 DEF End, Reserved
    <2> QED  BY <1>1, <1>2, <2>1, <2>2, <2>3
<1>4. CASE PopUndo(i) \/ PopLast(i)
    <2>1. /\ w[i].pc \in {"popundo", "poplast"} /\ w'[i].pc \in {"steal", "poptake"}
          /\ \A j \in Workers \ {i} : w'[j] = w[j]
        BY <1>4, PopUndoDoes, PopLastDoes DEF Locals, PopUndo, PopLast
    <2>2. bottom'[i] = w[i].b + 1 /\ \A j \in Workers \ {i} : bottom'[j] = bottom[j]
        BY <1>1, <1>4 DEF TypeOK, PopUndo, PopLast
    <2>3. End(i)' = End(i)
        BY <1>1, <2>1, <2>2 DEF End, Reserved, Popping
    <2> QED  BY <1>1, <1>2, <2>1, <2>2, <2>3
<1>5. ASSUME bottom' = bottom, \A j \in Workers \ {i} : w'[j] = w[j],
             Reserved(i)' => Reserved(i)
      PROVE  \A j \in Workers : End(j)' =< End(j)
    <2>1. End(i)' =< End(i)
        BY <1>1, <1>5 DEF End
    <2> QED  BY <1>2, <1>5, <2>1
<1>6. CASE PopTop(i) \/ PopCas(i)
    <2>1. Reserved(i) /\ bottom' = bottom
        BY <1>6 DEF Reserved, PopTop, PopCas
    <2>2. \A j \in Workers \ {i} : w'[j] = w[j]
        BY <1>6, PopTopDoes, PopCasDoes DEF Locals
    <2> QED  BY <1>5, <2>1, <2>2
<1>7. CASE \/ Spawn(i) \/ PushNext(i) \/ PushPut(i) \/ PushEnd(i)
           \/ PopTake(i) \/ Idle(i) \/ Read(i)
    <2>1. bottom' = bottom
        BY <1>7 DEF Spawn, PushNext, PushPut, PushEnd, PopTake, Idle, Read
    <2>2. /\ w'[i].pc \in {"pop", "put", "publish", "read", "done", "push"}
          /\ \A j \in Workers \ {i} : w'[j] = w[j]
        BY <1>7, SpawnDoes, PushNextDoes, PushPutDoes, PushEndDoneDoes,
           PushEndStolenDoes, PopTakeDoes, IdleDoes, ReadDoes DEF Locals
    <2>3. ~Reserved(i)'
        BY <2>2 DEF Reserved
    <2> QED  BY <1>5, <2>1, <2>2, <2>3
<1>8. CASE StealTop(i) \/ StealBottom(i) \/ StealCas(i) \/ StealMove(i)
    <2>1. bottom' = bottom
        BY <1>8 DEF StealTop, StealBottom, StealCas, StealMove
    <2>2. StealBottom(i) \/ StealCas(i) => w[i].off < N
        <3>1. StealBottom(i) \/ StealCas(i) => w[i].off \in 1 .. (N - 1)
            BY DEF Indices, Stealing, StealBottom, StealCas
        <3> QED  BY <3>1, StatAssumption
    <2>3. /\ w'[i].pc \in {"stealbottom", "stealcas", "steal", "stealmove", "push"}
          /\ \A j \in Workers \ {i} : w'[j] = w[j]
        <3>1. CASE StealTop(i)
            BY <3>1, StealTopDoes DEF Locals
        <3>2. CASE StealBottom(i)
            BY <2>2, <3>2, StealBottomSomeDoes, StealBottomNoneDoes DEF Locals
        <3>3. CASE StealCas(i)
            BY <2>2, <3>3, StealCasWonDoes, StealCasLostDoes DEF Locals
        <3>4. CASE StealMove(i)
            BY <3>4, StealMoveMoreDoes, StealMoveLastDoes DEF Locals, StealMove
        <3> QED  BY <1>8, <3>1, <3>2, <3>3, <3>4
    <2>4. ~Reserved(i)'
        BY <2>3 DEF Reserved
    <2> QED  BY <1>5, <2>1, <2>3, <2>4
<1> QED  BY <1>3, <1>4, <1>6, <1>7, <1>8 DEF Step

\* A worker that looks for work, and the one that has found a path, lose none.
LEMMA LookingPushed ==
    ASSUME StatSafe, Calm, StatSafe', NEW i \in Workers,
           \/ Spawn(i) \/ Idle(i)
           \/ PopReserve(i) \/ PopTop(i) \/ PopUndo(i) \/ PopCas(i) \/ PopLast(i)
           \/ StealTop(i) \/ StealBottom(i) \/ StealCas(i)
    PROVE  Pushed \subseteq Pushed'
<1>1. \A q \in Workers, k \in Slots : Full(q, k)' <=> Full(q, k)
    BY LookingKeeps
<1>2. slot' = slot /\ visits' = visits
    BY DEF Spawn, Idle, PopReserve, PopTop, PopUndo, PopCas, PopLast,
           StealTop, StealBottom, StealCas
<1>3. ~Working(i)
    BY DEF Working, Spawn, Idle, PopReserve, PopTop, PopUndo, PopCas, PopLast,
           StealTop, StealBottom, StealCas
<1>4. \A j \in Workers \ {i} : w'[j] = w[j]
    <2>1. TypeOK
        BY DEF StatSafe
    <2>2. StealBottom(i) \/ StealCas(i) => w[i].off < N
        <3>1. StealBottom(i) \/ StealCas(i) => w[i].off \in 1 .. (N - 1)
            BY DEF StatSafe, Stealing, StealBottom, StealCas
        <3> QED  BY <3>1, StatAssumption
    <2>3. CASE StealBottom(i)
        BY <2>1, <2>2, <2>3, StealBottomSomeDoes, StealBottomNoneDoes DEF Locals
    <2>4. CASE StealCas(i)
        BY <2>1, <2>2, <2>4, StealCasWonDoes, StealCasLostDoes DEF Locals
    <2> QED  BY <2>1, <2>3, <2>4, SpawnDoes, IdleDoes, PopReserveDoes, PopTopDoes,
                PopUndoDoes, PopCasDoes, PopLastDoes, StealTopDoes DEF Locals
<1>5. \A q \in Workers, k \in Slots : Full(q, k) => slot[q][k] \in Pushed'
    BY <1>1, <1>2, PushedAre DEF Pushed
<1>6. \A j \in Workers : Working(j) => w[j].work \in Pushed'
    BY <1>3, <1>4, SameHands, PushedAre DEF Pushed
<1>7. \A d \in Dirs : visits[d] =< visits'[d]
    BY <1>2, PushedAre
<1> QED  BY <1>5, <1>6, <1>7, StaysPushed

\* A path that is taken out of its slot goes on as its worker's work.
LEMMA TakenPushed ==
    ASSUME StatSafe, StatSafe', NEW i \in Workers, NEW q \in Workers, NEW s \in Slots,
           Claims(i, q, s), w[i].pc \in {"poptake", "stealmove"},
           \A a \in Workers, k \in Slots : a # q \/ k # s => slot'[a][k] = slot[a][k],
           top' = top, bottom' = bottom, visits' = visits,
           \A j \in Workers \ {i} : w'[j] = w[j],
           w'[i].work = slot[q][s], w'[i].pc \in {"read", "push"}
    PROVE  Pushed \subseteq Pushed'
<1>1. Working(i)' /\ ~Working(i)
    BY DEF Working
<1>2. Full(q, s)
    BY DEF Full
<1>3. slot[q][s] \in Pushed'
    BY <1>1, <1>2, PushedAre DEF Pushed
<1>4. ASSUME NEW a \in Workers, NEW k \in Slots, Full(a, k), a # q \/ k # s
      PROVE  slot[a][k] \in Pushed'
    <2>1. ~Claims(i, a, k)
        BY <1>4, ClaimOf DEF StatSafe, Indices
    <2>2. Queued(a, k)' <=> Queued(a, k)
        BY DEF Queued, End, Reserved
    <2>3. \A j \in Workers \ {i} : Claims(j, a, k)' <=> Claims(j, a, k)
        BY ClaimsKept
    <2>4. Full(a, k)'
        BY <1>4, <2>1, <2>2, <2>3 DEF Full
    <2>5. slot[a][k] \in Dirs /\ slot'[a][k] = slot[a][k]
        BY <1>4, PushedAre
    <2> QED  BY <2>4, <2>5 DEF Pushed
<1>5. \A j \in Workers : Working(j) => w[j].work \in Pushed'
    BY <1>1, SameHands, PushedAre DEF Pushed
<1>6. \A d \in Dirs : visits[d] =< visits'[d]
    BY PushedAre
<1> QED  BY <1>3, <1>4, <1>5, <1>6, StaysPushed

\* The owner and the thief that take a path.
LEMMA TakePushed ==
    ASSUME StatSafe, Calm, StatSafe', NEW i \in Workers, PopTake(i) \/ StealMove(i)
    PROVE  Pushed \subseteq Pushed'
<1>1. TypeOK /\ Indices
    BY DEF StatSafe, Indices
<1>2. CASE PopTake(i)
    <2>1. w[i].pc = "poptake" /\ w[i].b \in Int
        BY <1>1, <1>2, FieldTypes DEF PopTake
    <2>2. PICK s \in Slots : s = w[i].b
        BY <1>1, <2>1, StatAssumption DEF Indices, Popping, Slots
    <2>3. s % Capacity = s
        BY SlotOf
    <2>4. /\ \A j \in Workers \ {i} : w'[j] = w[j]
          /\ w'[i].pc \in {"read", "push"} /\ w'[i].work = slot[i][s]
        BY <1>1, <1>2, <2>2, <2>3, PopTakeDoes DEF Locals
    <2>5. Claims(i, i, s) /\ Taking(i) = <<i, s>>
        BY <2>1, <2>2, <2>3 DEF Claims, Taking
    <2>6. \A a \in Workers, k \in Slots : a # i \/ k # s => slot'[a][k] = slot[a][k]
        BY <1>1, <1>2, <2>5, TakeOne DEF PopTake
    <2>7. top' = top /\ bottom' = bottom /\ visits' = visits
        BY <1>2 DEF PopTake
    <2> QED  BY <2>1, <2>4, <2>5, <2>6, <2>7, TakenPushed
<1>3. CASE StealMove(i)
    <2>1. PICK q \in Workers : q = Victim(i)
        BY <1>1, FieldTypes
    <2>2. w[i].pc = "stealmove" /\ w[i].batch = <<>> /\ w[i].t \in Int
        BY <1>1, <1>3, FieldTypes DEF StatSafe, Hands, StealMove
    <2>3. PICK s \in Slots : s = w[i].t
        BY <1>1, <2>2, StatAssumption DEF Indices, Stealing, Slots
    <2>4. s % Capacity = s /\ s \in Nat
        BY SlotOf
    <2>5. Taking(i) = <<q, s>>
        <3>1. Len(w[i].batch) = 0
            BY <2>2
        <3>2. Taking(i) = <<(i + w[i].off) % N, (w[i].t + Len(w[i].batch)) % Capacity>>
            BY <2>2 DEF Taking
        <3>3. w[i].t + Len(w[i].batch) = s
            BY <2>3, <2>4, <3>1
        <3> QED  BY <2>1, <2>4, <3>2, <3>3 DEF Victim
    <2>6. Len(Append(w[i].batch, slot[q][s])) = 1 /\ w[i].n >= 1 /\ w[i].n =< 1
        BY <1>1, <2>2 DEF Indices, Stealing, Calm
    <2>7. /\ slot[Taking(i)[1]][Taking(i)[2]] = slot[q][s]
          /\ ~(Len(Append(w[i].batch, slot[Taking(i)[1]][Taking(i)[2]])) < w[i].n)
        <3>1. w[i].n \in Nat
            BY <1>1, FieldTypes
        <3> QED  BY <2>5, <2>6, <3>1
    <2>8. /\ \A j \in Workers \ {i} : w'[j] = w[j]
          /\ w'[i].pc \in {"read", "push"} /\ w'[i].work = slot[q][s]
        BY <1>1, <1>3, <2>7, StealMoveLastDoes DEF Locals
    <2>9. Claims(i, q, s)
        BY <2>1, <2>2, <2>3 DEF Claims
    <2>10. \A a \in Workers, k \in Slots : a # q \/ k # s => slot'[a][k] = slot[a][k]
        BY <1>1, <1>3, <2>5, TakeOne DEF StealMove
    <2>11. top' = top /\ bottom' = bottom /\ visits' = visits
        BY <1>3 DEF StealMove
    <2> QED  BY <2>2, <2>8, <2>9, <2>10, <2>11, TakenPushed
<1> QED  BY <1>2, <1>3

\* A worker that reads, or has read, its directory.
LEMMA WorkingPushed ==
    ASSUME StatSafe, Calm, StatSafe', NEW i \in Workers,
           PushNext(i) \/ PushPut(i) \/ PushEnd(i) \/ Read(i)
    PROVE  Pushed \subseteq Pushed'
<1>1. TypeOK /\ Indices /\ Sole /\ Hands(i) /\ Working(i)
    BY DEF StatSafe, Indices, Working, PushNext, PushPut, PushEnd, Read
<1>2. \A q \in Workers, k \in Slots : Full(q, k)' <=> Full(q, k)
    BY <1>1, QuietMoves, SecuredOnce
<1>3. ASSUME NEW q \in Workers, NEW k \in Slots, Full(q, k)
      PROVE  slot'[q][k] = slot[q][k]
    <2>1. CASE PushPut(i)
        <3>1. bottom[i] \in Slots /\ ~Full(i, bottom[i])
            BY <1>1, <2>1, FreeSlot DEF PushPut
        <3>2. slot' = [slot EXCEPT ![i][bottom[i]] = w[i].item]
            BY <2>1, <3>1, SlotOf DEF PushPut
        <3>3. slot \in [Workers -> [Slots -> Path]]
            BY <1>1 DEF TypeOK, Slots
        <3>4. \A a \in Workers, l \in Slots : a # i \/ l # bottom[i] =>
                    [slot EXCEPT ![i][bottom[i]] = w[i].item][a][l] = slot[a][l]
            BY <3>1, <3>3, OtherSlots
        <3>5. q # i \/ k # bottom[i]
            BY <1>3, <3>1
        <3> QED  BY <3>2, <3>4, <3>5, Zenon
    <2>2. CASE PushNext(i) \/ PushEnd(i) \/ Read(i)
        BY <2>2 DEF PushNext, PushEnd, Read
    <2> QED  BY <2>1, <2>2
<1>4. \A q \in Workers, k \in Slots : Full(q, k) => slot[q][k] \in Pushed'
    BY <1>2, <1>3, PushedAre DEF Pushed
<1>5. PICK d \in Dirs : d = w[i].work
    BY <1>1 DEF Hands
<1>6. /\ \A e \in Dirs : visits[e] =< visits'[e]
      /\ ~Read(i) => visits' = visits
    <2>1. CASE Read(i)
        <3>1. visits' = [visits EXCEPT ![d] = @ + 1] /\ visits \in [Dirs -> Nat]
            BY <1>1, <1>5, <2>1, StatAssumption DEF Read, TypeOK
        <3> QED  BY <2>1, <3>1
    <2>2. CASE PushNext(i) \/ PushPut(i) \/ PushEnd(i)
        <3>1. visits' = visits
            BY <2>2 DEF PushNext, PushPut, PushEnd
        <3> QED  BY <3>1, PushedAre
    <2>3. ~Read(i) => visits' = visits
        BY DEF PushNext, PushPut, PushEnd
    <2> QED  BY <2>1, <2>2, <2>3
<1>7. \A j \in Workers \ {i} : w'[j] = w[j]
    BY <1>1, PushNextDoes, PushPutDoes, PushEndDoneDoes, PushEndStolenDoes, ReadDoes DEF Locals
<1>8. d \in Pushed'
    <2>1. CASE PushEnd(i) /\ w[i].batch = <<>>
        <3>1. visits[d] = 1
            BY <1>1, <1>5, <2>1, PlacedParts DEF StatSafe, Accounts, PushEnd
        <3> QED  BY <1>6, <2>1, <3>1 DEF Pushed, PushEnd, Read
    <2>2. CASE PushEnd(i) /\ w[i].batch # <<>>
        <3>1. w'[i].pc = "read" /\ w'[i].work = d
            BY <1>1, <1>5, <2>2, PushEndStolenDoes DEF Locals
        <3> QED  BY <3>1 DEF Pushed, Working
    <2>3. CASE PushNext(i) \/ PushPut(i) \/ Read(i)
        <3>1. w'[i].pc \in {"put", "publish", "push"} /\ w'[i].work = d
            BY <1>1, <1>5, <2>3, PushNextDoes, PushPutDoes, ReadDoes DEF Locals
        <3> QED  BY <3>1 DEF Pushed, Working
    <2> QED  BY <2>1, <2>2, <2>3
<1>9. ASSUME NEW j \in Workers, Working(j)
      PROVE  w[j].work \in Pushed'
    <2>1. CASE j = i
        BY <1>5, <1>8, <2>1
    <2>2. CASE j # i
        BY <1>7, <1>9, <2>2, SameHands, PushedAre DEF Pushed
    <2> QED  BY <2>1, <2>2
<1> QED  BY <1>4, <1>6, <1>9, StaysPushed

\* There are finitely many directories.
LEMMA PushedCounted ==
    /\ IsFiniteSet(Pushed) /\ Pushed \subseteq Dirs
    /\ Cardinality(Pushed) \in Nat /\ Cardinality(Pushed) =< Cardinality(Dirs)
    /\ Cardinality(Dirs) \in Nat
<1>1. Pushed \subseteq Dirs
    BY DEF Pushed
<1> QED  BY <1>1, FS_Subset, FS_CardinalityType, TreeAssumption

\* A directory that was in no queue before is one more.
LEMMA OneMore ==
    ASSUME StatSafe, StatSafe', NEW i \in Workers, NEW s \in Slots, NEW c \in Dirs,
           slot'[i][s] = c, visits' = visits, ~Full(i, s),
           \A a \in Workers, k \in Slots : a # i \/ k # s => slot'[a][k] = slot[a][k],
           \A q \in Workers, k \in Slots : Full(q, k)' <=> Full(q, k) \/ (q = i /\ k = s),
           \A j \in Workers : Working(j) => Working(j)' /\ w'[j].work = w[j].work,
           visits[c] = 0,
           \A q \in Workers, k \in Slots : Full(q, k) => slot[q][k] # c,
           \A j \in Workers : Working(j) => w[j].work # c
    PROVE  Cardinality(Pushed)' >= Cardinality(Pushed) + 1
<1>1. Pushed \subseteq Pushed'
    <2>1. \A q \in Workers, k \in Slots : Full(q, k) => slot[q][k] \in Pushed'
        BY PushedAre DEF Pushed
    <2>2. \A j \in Workers : Working(j) => w[j].work \in Pushed'
        BY PushedAre DEF Pushed
    <2>3. \A d \in Dirs : visits[d] =< visits'[d]
        BY PushedAre
    <2> QED  BY <2>1, <2>2, <2>3, StaysPushed
<1>2. c \in Pushed' /\ c \notin Pushed
    <2>1. c \in Pushed'
        BY DEF Pushed
    <2>2. c \notin Pushed
        BY DEF Pushed
    <2> QED  BY <2>1, <2>2
<1>3. PICK old, new \in SUBSET Dirs : old = Pushed /\ new = Pushed'
    BY PushedCounted DEF Pushed
<1>4. IsFiniteSet(old) /\ IsFiniteSet(new)
    BY FS_Subset, TreeAssumption
<1>5. IsFiniteSet(old \cup {c}) /\ Cardinality(old \cup {c}) = Cardinality(old) + 1
    BY <1>2, <1>3, <1>4, FS_AddElement
<1>6. old \cup {c} \subseteq new
    BY <1>1, <1>2, <1>3
<1>7. Cardinality(old \cup {c}) =< Cardinality(new)
    BY <1>4, <1>6, FS_Subset
<1>8. Cardinality(old) \in Nat /\ Cardinality(new) \in Nat
    BY <1>4, FS_CardinalityType
<1> QED  BY <1>3, <1>5, <1>7, <1>8

\* The queue a path is published in grows by one.
LEMMA EndGrows ==
    ASSUME TypeOK, NEW i \in Workers,
           w[i].pc \in {"start", "publish"}, w'[i].pc \in {"start", "push"},
           \A j \in Workers \ {i} : w'[j] = w[j],
           bottom' = [bottom EXCEPT ![i] = @ + 1]
    PROVE  \A j \in Workers : End(j) \in Int /\ End(j)' =< End(j) + 1
<1>1. bottom \in [Workers -> Int]
    BY DEF TypeOK
<1>2. \A j \in Workers : End(j) \in Int
    BY <1>1 DEF End
<1>3. End(i)' = End(i) + 1
    <2>1. ~Reserved(i) /\ ~Reserved(i)'
        BY DEF Reserved
    <2> QED  BY <1>1, <2>1 DEF End
<1>4. ASSUME NEW j \in Workers \ {i}
      PROVE  End(j)' = End(j)
    <2>1. bottom'[j] = bottom[j] /\ w'[j] = w[j]
        BY <1>1
    <2> QED  BY <2>1 DEF End, Reserved
<1> QED  BY <1>2, <1>3, <1>4

\* A path is published by its worker, or distributed at the start.
LEMMA PublishPushed ==
    ASSUME StatSafe, Calm, StatSafe', NEW i \in Workers, PushPublish(i)
    PROVE  /\ Cardinality(Pushed)' >= Cardinality(Pushed) + 1
           /\ \A j \in Workers : End(j) \in Int /\ End(j)' =< End(j) + 1
<1>1. /\ TypeOK /\ Indices /\ Sole /\ Hands(i)
      /\ w[i].pc = "publish" /\ Working(i) /\ w[i].batch = <<>>
    BY DEF StatSafe, Indices, PushPublish, Working, Hands
<1>2. PICK open \in SUBSET Dirs : Placed(open)
    BY DEF StatSafe, Accounts
<1>3. PICK s \in Slots : s = bottom[i] /\ ~Full(i, s)
    BY <1>1, FreeSlot
<1>4. PICK c \in Dirs : c = w[i].item /\ c # w[i].work /\ slot[i][s] = c
    BY <1>1, <1>3 DEF Hands
<1>5. c \in Held(i)
    BY <1>1, <1>4 DEF Held
<1>6. /\ \A j \in Workers \ {i} : w'[j] = w[j]
      /\ w'[i].pc = "push" /\ w'[i].work = w[i].work
    BY <1>1, PushPublishDoes DEF Locals
<1>7. bottom' = [bottom EXCEPT ![i] = @ + 1] /\ top' = top /\ slot' = slot /\ visits' = visits
    BY DEF PushPublish
<1>8. \A q \in Workers, k \in Slots : Full(q, k)' <=> Full(q, k) \/ (q = i /\ k = s)
    <2>1. w[i].pc \in {"start", "publish"} /\ w'[i].pc \in {"start", "push"}
        BY <1>1, <1>6
    <2>2. \A q \in Workers, k \in Slots :
                Full(q, k)' <=> Full(q, k) \/ (q = i /\ k = bottom[i])
        BY <1>1, <1>6, <1>7, <2>1, Published
    <2> QED  BY <1>3, <2>2
<1>9. visits[c] = 0
    BY <1>1, <1>2, <1>4, PlacedParts
<1>10. \A q \in Workers, k \in Slots : Full(q, k) => slot[q][k] # c
    BY <1>2, <1>5, PlacedParts
<1>11. \A j \in Workers : Working(j) => w[j].work # c
    <2>1. ASSUME NEW j \in Workers \ {i}, Working(j), w[j].work = c
          PROVE  FALSE
        <3>1. c \in Held(j)
            BY <2>1 DEF Held
        <3>2. Held(i) \cap Held(j) = {}
            BY <1>2, PlacedParts
        <3> QED  BY <1>5, <3>1, <3>2
    <2> QED  BY <1>4, <2>1
<1>12. \A j \in Workers : Working(j) => Working(j)' /\ w'[j].work = w[j].work
    BY <1>6 DEF Working
<1>13. Cardinality(Pushed)' >= Cardinality(Pushed) + 1
    <2>1. slot'[i][s] = c
        BY <1>4, <1>7
    <2>2. \A a \in Workers, k \in Slots : a # i \/ k # s => slot'[a][k] = slot[a][k]
        BY <1>7
    <2> QED  BY <1>3, <1>7, <1>8, <1>9, <1>10, <1>11, <1>12, <2>1, <2>2, OneMore
<1> QED  BY <1>1, <1>6, <1>7, <1>13, EndGrows

LEMMA DistributePushed ==
    ASSUME StatSafe, Calm, StatSafe', NEW c \in TopDirs, Distribute(c)
    PROVE  /\ Cardinality(Pushed)' >= Cardinality(Pushed) + 1
           /\ \A j \in Workers : End(j) \in Int /\ End(j)' =< End(j) + 1
<1>1. TypeOK /\ Indices /\ Sole /\ Phases /\ c \in main.left /\ c \in Dirs
    BY StatAssumption DEF StatSafe, Indices, Distribute
<1>2. PICK open \in SUBSET Dirs : Placed(open) /\ Walked(open)
    BY DEF StatSafe, Accounts
<1>3. PICK i \in Workers : i = main.next % N
    BY <1>1, WorkerType DEF TypeOK
<1>4. \A j \in Workers : w[j].pc = "start" /\ ~Working(j)
    BY <1>1 DEF Phases, Working
<1>5. PICK s \in Slots : s = bottom[i] /\ ~Full(i, s)
    BY <1>1, <1>4, FreeSlot
<1>6. s % Capacity = s
    BY SlotOf
<1>7. /\ slot' = [slot EXCEPT ![i][s] = c] /\ bottom' = [bottom EXCEPT ![i] = @ + 1]
      /\ top' = top /\ w' = w /\ visits' = visits
    BY <1>3, <1>5, <1>6 DEF Distribute
<1>8. slot \in [Workers -> [Slots -> Path]]
    BY <1>1 DEF TypeOK, Slots
<1>9. slot'[i][s] = c
    BY <1>7, <1>8
<1>10. \A a \in Workers, k \in Slots : a # i \/ k # s => slot'[a][k] = slot[a][k]
    <2>1. \A a \in Workers, k \in Slots :
                a # i \/ k # s => [slot EXCEPT ![i][s] = c][a][k] = slot[a][k]
        BY <1>8, OtherSlots
    <2> QED  BY <1>7, <2>1, Zenon
<1>11. w'[i].pc = "start" /\ \A j \in Workers \ {i} : w'[j] = w[j]
    BY <1>4, <1>7
<1>12. \A q \in Workers, k \in Slots : Full(q, k)' <=> Full(q, k) \/ (q = i /\ k = s)
    <2>1. \A q \in Workers, k \in Slots :
                Full(q, k)' <=> Full(q, k) \/ (q = i /\ k = bottom[i])
        BY <1>1, <1>4, <1>7, <1>11, Published
    <2> QED  BY <1>5, <2>1
<1>13. visits[c] = 0 /\ c \notin open
    BY <1>1, <1>2 DEF Walked
<1>14. \A q \in Workers, k \in Slots : Full(q, k) => slot[q][k] # c
    BY <1>2, <1>13, PlacedParts
<1>15. Cardinality(Pushed)' >= Cardinality(Pushed) + 1
    BY <1>1, <1>4, <1>5, <1>7, <1>9, <1>10, <1>12, <1>13, <1>14, OneMore
<1> QED  BY <1>1, <1>4, <1>7, <1>11, <1>15, EndGrows

\* No step takes a directory back.
LEMMA NoneLost ==
    ASSUME StatSafe, Calm, StatSafe', NEW i \in Workers, Step(i), ~PushPublish(i)
    PROVE  Cardinality(Pushed)' >= Cardinality(Pushed)
<1>1. Pushed \subseteq Pushed'
    BY LookingPushed, TakePushed, WorkingPushed DEF Step
<1>2. PICK old, new \in SUBSET Dirs : old = Pushed /\ new = Pushed'
    BY PushedCounted DEF Pushed
<1>3. IsFiniteSet(old) /\ IsFiniteSet(new) /\ old \subseteq new
    BY <1>1, <1>2, FS_Subset, TreeAssumption
<1>4. Cardinality(old) =< Cardinality(new) /\ Cardinality(old) \in Nat /\ Cardinality(new) \in Nat
    BY <1>3, FS_Subset, FS_CardinalityType
<1> QED  BY <1>2, <1>4

\* In a tree that is small enough a thief takes one path.
LEMMA OneAtATime ==
    ASSUME Roomy, TypeOK, Indices, Few, NEW i \in Workers, Step(i)
    PROVE  \A j \in Workers : w'[j].n =< 1
<1>1. \A j \in Workers : w[j].n =< 1 /\ w[j].n \in Nat
    BY FieldTypes DEF Few
<1>2. CASE StealBottom(i) /\ bottom[Victim(i)] - w[i].t > 0
    <2>1. PICK v \in Workers : v = Victim(i)
        BY FieldTypes
    <2>2. PICK a \in Int : a = bottom[v] - w[i].t
        <3>1. bottom[v] \in Int
            BY DEF TypeOK
        <3>2. w[i].t \in Int
            BY FieldTypes
        <3> QED  BY <3>1, <3>2
    <2>3. w[i].t >= 0 /\ w[i].t \in Int
        BY <1>2, FieldTypes DEF Indices, Stealing, StealBottom
    <2>4. bottom[v] =< Cardinality(Dirs)
        <3>1. bottom[v] =< End(v) /\ bottom[v] \in Int /\ End(v) \in Int
            BY DEF TypeOK, End
        <3>2. End(v) =< Cardinality(Pushed)
            BY DEF Few
        <3> QED  BY <3>1, <3>2, PushedCounted
    <2>5. bottom[v] \in Int
        BY DEF TypeOK
    <2>6. a =< Cardinality(Dirs) /\ a > 0
        BY <1>2, <2>1, <2>2, <2>3, <2>4, <2>5, PushedCounted
    <2>7. BatchSize(a) =< 1
        <3>1. CASE MaxSteal = 1
            BY <3>1 DEF BatchSize
        <3>2. CASE Cardinality(Dirs) =< 3
            <4>1. a \in 1 .. 3
                BY <2>6, <3>2, PushedCounted
            <4>2. a \div 2 =< 1 /\ a \div 2 \in Int
                BY <4>1
            <4> QED  BY <4>2, StatAssumption DEF BatchSize
        <3> QED  BY <3>1, <3>2 DEF Roomy
    <2>8. w'[i].n = BatchSize(a) /\ \A j \in Workers \ {i} : w'[j] = w[j]
        BY <1>2, <2>1, <2>2, StealBottomSomeDoes DEF Locals
    <2> QED  BY <1>1, <2>7, <2>8
<1>3. CASE ~(StealBottom(i) /\ bottom[Victim(i)] - w[i].t > 0)
    <2>1. \A j \in Workers : w'[j].n = w[j].n
        <3>1. StealBottom(i) \/ StealCas(i) => w[i].off < N
            <4>1. StealBottom(i) \/ StealCas(i) => w[i].off \in 1 .. (N - 1)
                BY DEF Indices, Stealing, StealBottom, StealCas
            <4> QED  BY <4>1, StatAssumption
        <3>2. CASE StealBottom(i)
            BY <1>3, <3>1, <3>2, StealBottomNoneDoes DEF Locals
        <3>3. CASE StealCas(i)
            BY <3>1, <3>3, StealCasWonDoes, StealCasLostDoes DEF Locals
        <3>4. CASE Read(i)
            BY <3>4, ReadDoes DEF Locals
        <3>5. CASE \/ Spawn(i) \/ PushNext(i) \/ PushPut(i) \/ PushPublish(i) \/ PushEnd(i)
            BY <3>5, SpawnDoes, PushNextDoes, PushPutDoes, PushPublishDoes,
               PushEndDoneDoes, PushEndStolenDoes DEF Locals
        <3>6. CASE PopReserve(i) \/ PopTop(i) \/ PopUndo(i) \/ PopCas(i) \/ PopLast(i) \/ PopTake(i)
            BY <3>6, PopReserveDoes, PopTopDoes, PopUndoDoes, PopCasDoes, PopLastDoes,
               PopTakeDoes DEF Locals
        <3>7. CASE StealTop(i) \/ StealMove(i) \/ Idle(i)
            BY <3>7, StealTopDoes, StealMoveMoreDoes, StealMoveLastDoes, IdleDoes DEF Locals
        <3> QED  BY <3>2, <3>3, <3>4, <3>5, <3>6, <3>7 DEF Step
    <2> QED  BY <1>1, <2>1
<1> QED  BY <1>2, <1>3

LEMMA FewInit ==
    ASSUME Init
    PROVE  Few
<1>1. \A i \in Workers : w[i].n = 0 /\ End(i) = 0
    BY DEF Init, WorkerInit, End, Reserved
<1> QED  BY <1>1, PushedCounted DEF Few

\* A tree that is small enough does not fill a queue.
LEMMA FewCalm ==
    ASSUME Roomy, TypeOK, Few
    PROVE  Calm
<1>1. ASSUME NEW i \in Workers
      PROVE  w[i].n =< 1 /\ bottom[i] < Capacity
    <2>1. bottom[i] =< End(i) /\ bottom[i] \in Int /\ End(i) \in Int
        BY DEF TypeOK, End
    <2>2. w[i].n =< 1 /\ End(i) =< Cardinality(Pushed)
        BY DEF Few
    <2>3. Cardinality(Dirs) < Capacity
        BY DEF Roomy
    <2> QED  BY <2>1, <2>2, <2>3, PushedCounted, StatAssumption
<1> QED  BY <1>1 DEF Calm

\* A queue grows only when one more directory was put into one.
LEMMA FewStep ==
    ASSUME Roomy, StatSafe, Few, Calm, StatSafe', [Next]_vars
    PROVE  Few'
<1>1. TypeOK /\ Indices
    BY DEF StatSafe, Indices
<1>2. /\ Cardinality(Pushed) \in Nat /\ Cardinality(Pushed)' \in Nat
      /\ \A j \in Workers : /\ End(j) \in Int /\ End(j)' \in Int
                            /\ End(j) =< Cardinality(Pushed) /\ w[j].n =< 1
    <2>1. Cardinality(Pushed) \in Nat /\ Cardinality(Pushed)' \in Nat
        <3>1. PICK old, new \in SUBSET Dirs : old = Pushed /\ new = Pushed'
            BY PushedCounted DEF Pushed
        <3> QED  BY <3>1, FS_Subset, FS_CardinalityType, TreeAssumption
    <2>2. \A j \in Workers : End(j) \in Int /\ End(j)' \in Int
        BY DEF StatSafe, TypeOK, End
    <2> QED  BY <2>1, <2>2 DEF Few
<1>3. ASSUME Cardinality(Pushed)' >= Cardinality(Pushed) + 1,
             \A j \in Workers : End(j)' =< End(j) + 1
      PROVE  \A j \in Workers : End(j)' =< Cardinality(Pushed)'
    <2>1. ASSUME NEW j \in Workers
          PROVE  End(j)' =< Cardinality(Pushed)'
        BY <1>2, <1>3
    <2> QED  BY <2>1
<1>4. CASE \E c \in TopDirs : Distribute(c)
    <2>1. PICK c \in TopDirs : Distribute(c)
        BY <1>4
    <2>2. \A j \in Workers : End(j)' =< Cardinality(Pushed)'
        BY <1>3, <2>1, DistributePushed
    <2>3. w' = w
        BY <2>1 DEF Distribute
    <2> QED  BY <1>2, <2>2, <2>3 DEF Few
<1>5. CASE \E i \in Workers : Step(i)
    <2>1. PICK i \in Workers : Step(i)
        BY <1>5
    <2>2. \A j \in Workers : w'[j].n =< 1
        BY <1>1, <2>1, OneAtATime
    <2>3. CASE PushPublish(i)
        <3>1. \A j \in Workers : End(j)' =< Cardinality(Pushed)'
            BY <1>3, <2>3, PublishPushed
        <3> QED  BY <2>2, <3>1 DEF Few
    <2>4. CASE ~PushPublish(i)
        <3>1. \A j \in Workers : End(j)' =< End(j)
            BY <1>1, <2>1, <2>4, EndStays
        <3>2. Cardinality(Pushed)' >= Cardinality(Pushed)
            BY <2>1, <2>4, NoneLost
        <3>3. ASSUME NEW j \in Workers
              PROVE  End(j)' =< Cardinality(Pushed)'
            BY <1>2, <3>1, <3>2
        <3> QED  BY <2>2, <3>3 DEF Few
    <2> QED  BY <2>3, <2>4
<1>6. CASE UNCHANGED vars
    BY <1>6 DEF vars, Few, End, Reserved, Pushed, Full, Queued, Claims, Victim, Working
<1> QED  BY <1>4, <1>5, <1>6 DEF Next

\* A tree with fewer directories than a queue has slots, and thieves that take one path,
\* or no more than three directories: there is no need to ask for calm.
THEOREM SmallTrees ==
    ASSUME Roomy
    PROVE  Spec => [](StatSafe /\ Few /\ Calm)
<1>1. Init => StatSafe /\ Few
    BY SafeInit, FewInit
<1>2. StatSafe /\ Few => Calm
    BY FewCalm DEF StatSafe
<1>3. StatSafe /\ Few /\ [Next]_vars => StatSafe' /\ Few'
    <2> SUFFICES ASSUME StatSafe, Few, [Next]_vars
                 PROVE  StatSafe' /\ Few'
        OBVIOUS
    <2>1. StatSafe'
        BY <1>2, SafeStep
    <2> QED  BY <1>2, <2>1, FewStep
<1> QED  BY <1>1, <1>2, <1>3, PTL DEF Spec

\* In such a tree every path is handed to one worker, however the threads interleave.
THEOREM SmallTreesPathsOnce ==
    ASSUME Roomy
    PROVE  Spec => []NoOverlap
<1>1. StatSafe => NoOverlap
    BY SafeReads
<1> QED  BY <1>1, SmallTrees, PTL

\* In such a tree every directory is read, once, before a worker stops.
THEOREM SmallTreesStopInTime ==
    ASSUME Roomy
    PROVE  Spec => []StopsWhenAllRead
<1>1. StatSafe => StopsWhenAllRead
    BY SafeStops
<1> QED  BY <1>1, SmallTrees, PTL
=============================================================================
