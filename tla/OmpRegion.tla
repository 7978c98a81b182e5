----------------------------- MODULE OmpRegion -----------------------------
(***************************************************************************)
(* Parallel regions of native output: the thread pool that forks and joins *)
(* a team (src/shims/pool/runtime.c), the worksharing constructs a team    *)
(* runs (src/shims/omp/runtime.c) and the order in which the compiler      *)
(* emits their calls (src/parse_omp.c).  Thread 0 is the program's thread, *)
(* the others are the pool's workers.  Tasks are left to OmpTasks: here    *)
(* the barrier and the drain find none.                                    *)
(*                                                                         *)
(* A section under one mutex is one action; a load and the compare-and-    *)
(* swap that follows it are two.                                           *)
(***************************************************************************)
EXTENDS KernelGroup, Sequences, SequencesExt, FiniteSetsExt

CONSTANTS
  MaxTeam,     \* the largest team
  Regions,     \* the regions the program may run, see IsConstruct
  MaxRegions   \* bound: regions run one after the other

Threads == 0 .. MaxTeam - 1
Workers == 1 .. MaxTeam - 1

\* A loop has a schedule (1 static, 2 dynamic, 3 guided), a chunk size (0: none)
\* and n iterations, and is plain, ordered or doacross (ordered(1)); sections are
\* a dynamic loop.  The other constructs: a single with or without copyprivate,
\* a nested parallel region with a dynamic loop, the work-groups of a kernel.
IsConstruct(c) ==
  \/ /\ c.what = "loop" /\ c.sched \in 1 .. 3 /\ c.chunk \in Nat /\ c.n \in Nat
     /\ c.sched # 1 => c.chunk > 0
     /\ c.mode \in {"plain", "ordered", "doacross"} /\ c.nowait \in BOOLEAN
  \/ c.what = "single" /\ c.n = 1 /\ c.copy \in BOOLEAN /\ c.nowait \in BOOLEAN
     /\ ~ (c.copy /\ c.nowait)
  \/ c.what \in {"nested", "kernel"} /\ c.n \in Nat /\ c.nowait

ASSUME RegionAssumption ==
  /\ MaxTeam \in Nat \ {0} /\ MaxRegions \in Nat
  /\ \A r \in Regions : /\ r.n \in 1 .. MaxTeam /\ r.body \in Seq(Range(r.body))
                        /\ \A i \in 1 .. Len(r.body) : IsConstruct(r.body[i])

VARIABLES
  pool,   \* __cccc_pool: gen, pending, n, and team, the identity of the team
  team,   \* struct __cccc_team of the last fork; alive until pool_run returns
  da,     \* its doacross loops, by sequence number
  th,     \* per thread: where it is, and its thread-local variables
  ran,    \* history: how often each iteration of each construct was started
  fin     \* history: iterations that reached their hand-over point

vars == <<pool, team, da, th, ran, fin, groupVars>>
-----------------------------------------------------------------------------
(* Teams and threads.                                                      *)
NoTeam == [id |-> 0, alive |-> FALSE, n |-> 0, body |-> <<>>, single |-> 0, copy |-> 0,
           ordered |-> 0, dyn |-> 0, group |-> 0, barrived |-> 0, bgen |-> 0]

\* __cccc_team_run resets these for the region and restores them after it.
Tls0 == [single |-> 0, obase |-> 0, ofrom |-> -1, dbase |-> 0, daseq |-> 0]

Thread0(p) == [pc |-> p, seen |-> 0, team |-> 0, tls |-> Tls0, ip |-> 0, st |-> 0,
               b |-> 0, e |-> 0, k |-> 0, cur |-> 0, gen |-> 0, todo |-> <<>>]

Entering(x, id) == [x EXCEPT !.pc = "start", !.team = id, !.tls = Tls0, !.ip = 1]

Construct1(t) == team.body[th[t].ip]          \* the construct t is at
Ip(t)  == th[t].ip
At(t, p) == th[t].pc = p
AtConstruct(t, w) == At(t, "start") /\ Ip(t) <= Len(team.body) /\ Construct1(t).what = w
Put(t, x) == th' = [th EXCEPT ![t] = x]
Alone == team.n = 1

DaSeqs == UNION {1 .. Len(r.body) : r \in Regions}
NoDa == [st |-> "none", left |-> 0, ent |-> <<>>, waiters |-> 0, m |-> -1]

Zeros(body) == [i \in 1 .. Len(body) |-> [j \in 0 .. body[i].n - 1 |-> 0]]

Init ==
  /\ pool = [gen |-> 0, pending |-> 0, n |-> 0, team |-> 0]
  /\ team = NoTeam
  /\ da = [s \in DaSeqs |-> NoDa]
  /\ th = [t \in Threads |-> Thread0(IF t = 0 THEN "idle" ELSE "absent")]
  /\ ran = <<>> /\ fin = <<>>
  /\ GroupInit
-----------------------------------------------------------------------------
(* __cccc_pool_run: a team of its own on the stack, workers started as      *)
(* needed, the generation advanced; the caller runs the body as thread 0.   *)
Fork(r) ==
  /\ At(0, "idle") /\ team.id < MaxRegions
  /\ team' = [NoTeam EXCEPT !.id = team.id + 1, !.alive = TRUE, !.n = r.n, !.body = r.body]
  /\ pool' = IF r.n = 1 THEN pool
             ELSE [gen |-> pool.gen + 1, pending |-> r.n - 1, n |-> r.n, team |-> team.id + 1]
  /\ th' = [t \in Threads |->
              CASE t = 0 -> Entering(th[t], team.id + 1)
                [] t \in 1 .. r.n - 1 /\ At(t, "absent") -> Thread0("wait")
                [] OTHER -> th[t]]
  /\ da' = [s \in DaSeqs |-> NoDa]
  /\ ran' = Zeros(r.body)
  /\ fin' = [i \in 1 .. Len(r.body) |-> {}]

\* __cccc_pool_worker: a worker outside the team takes note of the generation
\* and waits for the next one.
InTeamAlways(w) == TRUE  \* mutant: every worker runs the team's body
InTeam(w) == w < pool.n

WorkerTake(w) ==
  /\ At(w, "wait") /\ pool.gen # th[w].seen
  /\ LET x == [th[w] EXCEPT !.seen = pool.gen]
     IN Put(w, IF InTeam(w) THEN Entering(x, pool.team) ELSE x)
  /\ UNCHANGED <<pool, team, da, ran, fin>>

\* After the body (and __cccc_omp_task_drain, which finds no task).
Done(t) == At(t, "start") /\ Ip(t) > Len(team.body)

WorkerDone(w) ==
  /\ w # 0 /\ Done(w)
  /\ pool' = [pool EXCEPT !.pending = @ - 1]
  /\ Put(w, [Thread0("wait") EXCEPT !.seen = th[w].seen])
  /\ UNCHANGED <<team, da, ran, fin>>

\* The caller waits for the workers of the team; then the team goes.
Joined == Alone \/ pool.pending = 0

Join ==
  /\ Done(0) /\ Joined
  /\ team' = [team EXCEPT !.alive = FALSE]
  /\ Put(0, Thread0("idle"))
  /\ UNCHANGED <<pool, da, ran, fin>>

(* A nested region is a team of one: the body runs in the same thread, its   *)
(* dynamic loop moves dyn_base, and team_run restores the thread's state.    *)
RestoredNot(saved, inner) == inner  \* mutant: the state of the inner region stays
Restored(saved, inner) == saved

RunNested(t) ==
  /\ AtConstruct(t, "nested")
  /\ ran' = [ran EXCEPT ![Ip(t)] = [j \in DOMAIN @ |-> 1]]
  /\ Put(t, [th[t] EXCEPT !.ip = @ + 1,
                !.tls = Restored(@, [Tls0 EXCEPT !.dbase = Construct1(t).n])])
  /\ UNCHANGED <<pool, team, da, fin>>

(* __cccc_kworker: work-groups are claimed with a fetch-and-add.             *)
KernelClaim(t) ==
  /\ AtConstruct(t, "kernel")
  /\ LET g == team.group
     IN /\ team' = [team EXCEPT !.group = @ + 1]
        /\ \/ /\ g < Construct1(t).n
              /\ ran' = [ran EXCEPT ![Ip(t)][g] = @ + 1]
              /\ UNCHANGED th
           \/ /\ g >= Construct1(t).n
              /\ Put(t, [th[t] EXCEPT !.ip = @ + 1])
              /\ UNCHANGED ran
  /\ UNCHANGED <<pool, da, fin>>
-----------------------------------------------------------------------------
(* What follows a construct: barriers, and the copies of a copyprivate.  A   *)
(* loop has one barrier before and one after its reductions are merged.      *)
Tail1(c) ==
  IF c.nowait THEN <<>>
  ELSE CASE c.what = "loop"             -> <<"bar", "bar">>
         [] c.what = "single" /\ c.copy -> <<"bar", "get", "bar">>
         [] OTHER                       -> <<"bar">>

\* Thread state x goes on with the steps s, or with the next construct.
GoOn(x, s) ==
  IF s = <<>> THEN [x EXCEPT !.pc = "start", !.ip = @ + 1, !.todo = <<>>]
  ELSE [x EXCEPT !.pc = Head(s), !.todo = Tail(s)]

\* __cccc_omp_barrier when there is no task.
Arrive(t) ==
  /\ At(t, "bar")
  /\ \/ /\ Alone
        /\ Put(t, GoOn(th[t], th[t].todo)) /\ UNCHANGED team
     \/ /\ ~ Alone /\ team.barrived + 1 = team.n
        /\ team' = [team EXCEPT !.barrived = 0, !.bgen = @ + 1]
        /\ Put(t, GoOn(th[t], th[t].todo))
     \/ /\ ~ Alone /\ team.barrived + 1 < team.n
        /\ team' = [team EXCEPT !.barrived = @ + 1]
        /\ Put(t, [th[t] EXCEPT !.pc = "barred", !.gen = team.bgen])
  /\ UNCHANGED <<pool, da, ran, fin>>

Pass(t) ==
  /\ At(t, "barred") /\ th[t].gen # team.bgen
  /\ Put(t, GoOn(th[t], th[t].todo))
  /\ UNCHANGED <<pool, team, da, ran, fin>>

\* __cccc_omp_copyprivate_get
CopyGet(t) ==
  /\ At(t, "get")
  /\ Put(t, GoOn(th[t], th[t].todo))
  /\ UNCHANGED <<pool, team, da, ran, fin>>

(* __cccc_omp_single_begin: the first thread to raise single_done to the     *)
(* sequence number of the construct runs the block.                         *)
SingleWon(t) ==
  /\ ran' = [ran EXCEPT ![Ip(t)][0] = @ + 1]
  /\ team' = [team EXCEPT !.copy = IF Construct1(t).copy THEN Ip(t) ELSE @,
                          !.single = IF Alone THEN @ ELSE th[t].tls.single]
  /\ Put(t, GoOn(th[t], Tail1(Construct1(t))))

SingleBegin(t) ==
  /\ AtConstruct(t, "single")
  /\ \/ Alone /\ SingleWon(t)
     \/ /\ ~ Alone
        /\ Put(t, [th[t] EXCEPT !.pc = "single", !.tls.single = @ + 1, !.cur = team.single])
        /\ UNCHANGED <<team, ran>>
  /\ UNCHANGED <<pool, da, fin>>

SingleCas(t) ==
  /\ At(t, "single")
  /\ \/ /\ th[t].cur >= th[t].tls.single
        /\ Put(t, GoOn(th[t], Tail1(Construct1(t))))
        /\ UNCHANGED <<team, ran>>
     \/ /\ th[t].cur < th[t].tls.single /\ team.single = th[t].cur
        /\ SingleWon(t)
     \/ /\ th[t].cur < th[t].tls.single /\ team.single # th[t].cur
        /\ Put(t, [th[t] EXCEPT !.cur = team.single])
        /\ UNCHANGED <<team, ran>>
  /\ UNCHANGED <<pool, da, fin>>
-----------------------------------------------------------------------------
(* Schedules.                                                              *)
CeilDiv(a, b) == (a + b - 1) \div b
GuidedSize(rem, nt, chunk) == Max({CeilDiv(rem, nt), chunk})

\* __cccc_omp_static_range
StaticRange(n, nt, tid) ==
  LET q == n \div nt
      r == n % nt
      b == tid * q + Min({tid, r})
  IN <<b, b + q + (IF tid < r THEN 1 ELSE 0)>>

\* The chunks of a static schedule: thread tid's st-th one, or <<>>.
StaticChunk(c, nt, tid, st) ==
  LET start == (tid + st * nt) * c.chunk
  IN CASE nt = 1 -> IF st = 0 THEN <<0, c.n>> ELSE <<>>
       [] nt > 1 /\ c.chunk = 0 -> IF st = 0 THEN StaticRange(c.n, nt, tid) ELSE <<>>
       [] nt > 1 /\ c.chunk > 0 -> IF start >= c.n THEN <<>>
                                   ELSE <<start, Min({start + c.chunk, c.n})>>

\* The doacross entry of the chunk that holds iteration k (__cccc_omp_doacross_slot).
GuidedStarts(c, nt) ==   \* the start of each guided chunk
  LET from[i \in 0 .. c.n] ==
        IF i = 0 THEN 0
        ELSE LET p == from[i - 1] IN Min({c.n, p + GuidedSize(c.n - p, nt, c.chunk)})
  IN {from[i] : i \in 0 .. c.n} \ {c.n}

DaSlotEven(c, nt, k) ==  \* mutant: the remainder of a static split is ignored
  IF c.sched = 3 THEN Cardinality({s \in GuidedStarts(c, nt) : s <= k}) - 1
  ELSE IF c.chunk > 0 THEN k \div c.chunk
  ELSE k \div Max({1, c.n \div nt})

DaSlot(c, nt, k) ==
  LET q   == c.n \div nt
      r   == c.n % nt
      cut == r * (q + 1)
  IN CASE c.sched = 3 -> Cardinality({s \in GuidedStarts(c, nt) : s <= k}) - 1
       [] c.sched # 3 /\ c.chunk > 0 -> k \div c.chunk
       [] c.sched # 3 /\ c.chunk = 0 -> IF k < cut THEN k \div (q + 1) ELSE r + (k - cut) \div q

DaEntries(c, nt) ==
  CASE c.sched = 3 -> Cardinality(GuidedStarts(c, nt))
    [] c.sched # 3 /\ c.chunk > 0 -> CeilDiv(c.n, c.chunk)
    [] c.sched # 3 /\ c.chunk = 0 -> nt
-----------------------------------------------------------------------------
(* A loop: __cccc_omp_loop_begin and doacross_init, then loop_next until it  *)
(* hands out no chunk, then doacross_fini, loop_end and ordered_loop_end.    *)
Crossing(t) == Construct1(t).mode = "doacross" /\ ~ Alone
Ordering(t) == Construct1(t).mode = "ordered" /\ ~ Alone

LoopBegin(t) ==
  /\ AtConstruct(t, "loop")
  /\ LET s == th[t].tls.daseq + 1
     IN IF Crossing(t)
        THEN /\ da' = IF da[s].st # "none" THEN da
                      ELSE [da EXCEPT ![s] =
                             [NoDa EXCEPT !.st = "live", !.left = team.n,
                                !.ent = [i \in 0 .. DaEntries(Construct1(t), team.n) - 1 |-> 0]]]
             /\ Put(t, [th[t] EXCEPT !.pc = "next", !.st = 0, !.tls.daseq = s])
        ELSE Put(t, [th[t] EXCEPT !.pc = "next", !.st = 0]) /\ UNCHANGED da
  /\ UNCHANGED <<pool, team, ran, fin>>

\* ordered_start belongs to the chunk.
Chunk(x, b, e, ordered) ==
  [x EXCEPT !.pc = "iter", !.b = b, !.e = e, !.k = b,
            !.tls.ofrom = IF ordered THEN x.tls.obase + b ELSE @]

\* The last thread to leave a doacross loop frees it.
LoopOver(t) ==
  /\ LET c == Construct1(t)
         x == [th[t] EXCEPT !.tls.dbase = @ + (IF c.sched >= 2 THEN c.n ELSE 0),
                            !.tls.obase = @ + (IF c.mode = "ordered" THEN c.n ELSE 0),
                            !.tls.ofrom = -1]
         s == th[t].tls.daseq
     IN /\ Put(t, GoOn(x, Tail1(c)))
        /\ da' = IF ~ Crossing(t) THEN da
                 ELSE [da EXCEPT ![s].left = @ - 1,
                                 ![s].st = IF da[s].left = 1 THEN "freed" ELSE @]

LoopStatic(t) ==
  /\ At(t, "next")
  /\ LET c  == Construct1(t)
         ch == StaticChunk(c, team.n, t, th[t].st)
     IN /\ Alone \/ c.sched = 1
        /\ \/ ch = <<>> /\ LoopOver(t)
           \/ /\ ch # <<>>
              /\ Put(t, Chunk([th[t] EXCEPT !.st = @ + 1], ch[1], ch[2], c.mode = "ordered"))
              /\ UNCHANGED da
  /\ UNCHANGED <<pool, team, ran, fin>>

LoopLoad(t) ==
  /\ At(t, "next") /\ ~ Alone /\ Construct1(t).sched # 1
  /\ Put(t, [th[t] EXCEPT !.pc = "claim", !.cur = team.dyn])
  /\ UNCHANGED <<pool, team, da, ran, fin>>

\* The next chunk above cur in a dynamic or guided loop that ends at hi.
Claimed(c, cur, hi) ==
  LET size == IF c.sched = 3 THEN GuidedSize(hi - cur, team.n, c.chunk) ELSE c.chunk
  IN Min({hi, cur + size})

NotTakenStale(t) == TRUE  \* mutant: the claim is a plain store
NotTaken(t) == team.dyn = th[t].cur

LoopClaim(t) ==
  /\ At(t, "claim")
  /\ LET c   == Construct1(t)
         lo  == th[t].tls.dbase
         hi  == lo + c.n
         cur == th[t].cur
         nxt == Claimed(c, cur, hi)
     IN \/ /\ cur >= hi
           /\ LoopOver(t) /\ UNCHANGED team
        \/ /\ cur < lo
           /\ Put(t, [th[t] EXCEPT !.pc = "trap"]) /\ UNCHANGED <<team, da>>
        \/ /\ cur \in lo .. hi - 1 /\ NotTaken(t)
           /\ team' = [team EXCEPT !.dyn = nxt]
           /\ Put(t, Chunk(th[t], cur - lo, nxt - lo, c.mode = "ordered"))
           /\ UNCHANGED da
        \/ /\ cur \in lo .. hi - 1 /\ ~ NotTaken(t)
           /\ Put(t, [th[t] EXCEPT !.cur = team.dyn]) /\ UNCHANGED <<team, da>>
  /\ UNCHANGED <<pool, ran, fin>>
-----------------------------------------------------------------------------
(* The iterations of a chunk.                                              *)
Starts(t) == ran' = [ran EXCEPT ![Ip(t)][th[t].k] = @ + 1]
Ends(t)   == fin' = [fin EXCEPT ![Ip(t)] = @ \cup {th[t].k}]
More(t)   == At(t, "iter") /\ th[t].k < th[t].e
NextK(x)  == [x EXCEPT !.pc = "iter", !.k = @ + 1]

Iterate(t) ==
  /\ More(t) /\ ~ Ordering(t) /\ ~ Crossing(t)
  /\ Starts(t) /\ Ends(t)
  /\ Put(t, NextK(th[t]))
  /\ UNCHANGED <<pool, team, da>>

\* An iteration of an ordered loop may reach its ordered region or not.
OrderedIterate(t) ==
  /\ More(t) /\ Ordering(t)
  /\ Starts(t)
  /\ \/ Put(t, [th[t] EXCEPT !.pc = "obegin"]) /\ UNCHANGED fin
     \/ Put(t, NextK(th[t])) /\ Ends(t)
  /\ UNCHANGED <<pool, team, da>>

\* __cccc_omp_ordered_begin: every earlier chunk is over.
BatonAlways(t) == TRUE  \* mutant: nobody waits for the earlier chunks
Baton(t) == team.ordered >= th[t].tls.ofrom

OrderedBegin(t) ==
  /\ At(t, "obegin") /\ Baton(t)
  /\ Put(t, [th[t] EXCEPT !.pc = "oregion"])
  /\ UNCHANGED <<pool, team, da, ran, fin>>

OrderedEnd(t) ==
  /\ At(t, "oregion")
  /\ Ends(t)
  /\ Put(t, NextK(th[t]))
  /\ UNCHANGED <<pool, team, da, ran>>

\* __cccc_omp_ordered_chunk_end hands the baton on, once it is this chunk's turn.
ChunkEnd(t) ==
  /\ At(t, "iter") /\ th[t].k = th[t].e
  /\ LET x == [th[t] EXCEPT !.pc = "next"]
     IN IF Construct1(t).mode # "ordered" THEN Put(t, x) /\ UNCHANGED team
        ELSE /\ Put(t, [x EXCEPT !.tls.ofrom = -1])
             /\ IF Ordering(t) /\ th[t].e > th[t].b
                THEN Baton(t) /\ team' = [team EXCEPT !.ordered = th[t].tls.obase + th[t].e]
                ELSE UNCHANGED team
  /\ UNCHANGED <<pool, da, ran, fin>>

(* Doacross: iteration k waits for k - 1 (the sink), posts itself (the       *)
(* source, which a `continue` may skip) and posts itself again at its end    *)
(* (__cccc_omp_doacross_done).                                              *)
D(t)     == th[t].tls.daseq
Slot(t, k) == DaSlot(Construct1(t), team.n, k)
Posted(t, k) == da[D(t)].ent[Slot(t, k)] > k
MFree(t) == da[D(t)].m = -1
DaPut(t, d) == da' = [da EXCEPT ![D(t)] = d]

CrossIterate(t) ==
  /\ More(t) /\ Crossing(t)
  /\ Starts(t)
  /\ Put(t, [th[t] EXCEPT !.pc = IF th[t].k = 0 THEN "source" ELSE "sink"])
  /\ UNCHANGED <<pool, team, da, fin>>

\* __cccc_omp_doacross_wait: it spins, then sleeps; the waiter is counted before
\* it looks again, with the loop's mutex held until it sleeps.
Sink(t) == th[t].k - 1

SinkSpin(t) ==
  /\ At(t, "sink") /\ Posted(t, Sink(t))
  /\ Put(t, [th[t] EXCEPT !.pc = "source"])
  /\ UNCHANGED <<pool, team, da, ran, fin>>

SinkLock(t) ==
  /\ At(t, "sink") /\ ~ Posted(t, Sink(t)) /\ MFree(t)
  /\ DaPut(t, [da[D(t)] EXCEPT !.m = t, !.waiters = @ + 1])
  /\ Put(t, [th[t] EXCEPT !.pc = "sinktest"])
  /\ UNCHANGED <<pool, team, ran, fin>>

SinkTest(t) ==
  /\ At(t, "sinktest")
  /\ \/ /\ Posted(t, Sink(t))
        /\ DaPut(t, [da[D(t)] EXCEPT !.m = -1, !.waiters = @ - 1])
        /\ Put(t, [th[t] EXCEPT !.pc = "source"])
     \/ /\ ~ Posted(t, Sink(t))
        /\ DaPut(t, [da[D(t)] EXCEPT !.m = -1])
        /\ Put(t, [th[t] EXCEPT !.pc = "asleep"])
  /\ UNCHANGED <<pool, team, ran, fin>>

SinkWoken(t) ==
  /\ At(t, "woken") /\ MFree(t)
  /\ DaPut(t, [da[D(t)] EXCEPT !.m = t])
  /\ Put(t, [th[t] EXCEPT !.pc = "sinktest"])
  /\ UNCHANGED <<pool, team, ran, fin>>

\* __cccc_omp_doacross_post: the entry is stored before the waiters are read.
Source(t) ==
  /\ At(t, "source")
  /\ \/ Put(t, [th[t] EXCEPT !.pc = "post", !.todo = <<"crossed">>]) /\ Ends(t)
     \/ Put(t, [th[t] EXCEPT !.pc = "crossed"]) /\ UNCHANGED fin
  /\ UNCHANGED <<pool, team, da, ran>>

Crossed(t) ==
  /\ At(t, "crossed")
  /\ Ends(t)
  /\ Put(t, [th[t] EXCEPT !.pc = "post", !.todo = <<>>])
  /\ UNCHANGED <<pool, team, da, ran>>

AfterPost(x) ==
  IF x.todo = <<>> THEN NextK(x) ELSE [x EXCEPT !.pc = Head(x.todo), !.todo = <<>>]

Post(t) ==
  /\ At(t, "post")
  /\ IF Posted(t, th[t].k) THEN Put(t, AfterPost(th[t])) /\ UNCHANGED da
     ELSE /\ DaPut(t, [da[D(t)] EXCEPT !.ent[Slot(t, th[t].k)] = th[t].k + 1])
          /\ Put(t, [th[t] EXCEPT !.pc = "posted"])
  /\ UNCHANGED <<pool, team, ran, fin>>

SleepersOne(t) ==  \* mutant: signal instead of broadcast
  LET ws == {s \in Threads : At(s, "asleep") /\ D(s) = D(t)}
  IN IF ws = {} THEN {} ELSE {Max(ws)}
Sleepers(t) == {s \in Threads : At(s, "asleep") /\ D(s) = D(t)}

PostWake(t) ==
  /\ At(t, "posted")
  /\ \/ /\ da[D(t)].waiters = 0
        /\ Put(t, AfterPost(th[t]))
     \/ /\ da[D(t)].waiters # 0 /\ MFree(t)
        /\ th' = [s \in Threads |->
                    CASE s = t -> AfterPost(th[t])
                      [] s \in Sleepers(t) -> [th[s] EXCEPT !.pc = "woken"]
                      [] OTHER -> th[s]]
  /\ UNCHANGED <<pool, team, da, ran, fin>>
-----------------------------------------------------------------------------
Worksharing(t) ==
  \/ RunNested(t) \/ KernelClaim(t) \/ SingleBegin(t) \/ SingleCas(t)
  \/ Arrive(t) \/ Pass(t) \/ CopyGet(t)
  \/ LoopBegin(t) \/ LoopStatic(t) \/ LoopLoad(t) \/ LoopClaim(t) \/ ChunkEnd(t)

Iterations(t) ==
  \/ Iterate(t) \/ OrderedIterate(t) \/ OrderedBegin(t) \/ OrderedEnd(t)
  \/ CrossIterate(t) \/ SinkSpin(t) \/ SinkLock(t) \/ SinkTest(t) \/ SinkWoken(t)
  \/ Source(t) \/ Crossed(t) \/ Post(t) \/ PostWake(t)

ThreadStep(t) ==
  /\ \/ Worksharing(t) \/ Iterations(t)
     \/ WorkerTake(t) \/ WorkerDone(t) \/ (t = 0 /\ Join)
  /\ UNCHANGED groupVars

(* The program's thread launches a kernel that uses barriers.                *)
KernelLaunch ==
  /\ At(0, "idle") /\ team.id < MaxRegions
  /\ \E n \in Items, groups \in 1 .. MaxGroups : Launch(n, groups)
  /\ Put(0, [th[0] EXCEPT !.pc = "launch"])
  /\ UNCHANGED <<pool, team, da, ran, fin>>

KernelReturn ==
  /\ At(0, "launch") /\ LaunchOver
  /\ Put(0, Thread0("idle"))
  /\ UNCHANGED <<pool, team, da, ran, fin>>

KernelStep == GroupStep /\ UNCHANGED <<pool, team, da, th, ran, fin>>

Step == (\E t \in Threads : ThreadStep(t)) \/ KernelStep \/ KernelReturn

Next == (\E r \in Regions : Fork(r) /\ UNCHANGED groupVars) \/ KernelLaunch \/ Step

\* While a thread of the region or a work-item can run, one does; bodies are
\* finite.
Spec == Init /\ [][Next]_vars /\ WF_vars(Step)
-----------------------------------------------------------------------------
(* Properties.                                                             *)
InRegion(t) == th[t].team # 0
InLoop(t)   == InRegion(t) /\ th[t].pc \notin {"start", "bar", "barred", "get", "single"}

\* Counters stay in range and no thread is in the trap of __cccc_omp_loop_next:
\* no claim meets a counter below the base of its loop, whichever nowait loops
\* the threads are in and whatever regions were nested before.
TypeOK ==
  /\ pool.pending \in 0 .. MaxTeam - 1
  /\ team.barrived \in 0 .. Max({0, team.n - 1})
  /\ \A t \in Threads : th[t].pc \in
       {"absent", "wait", "idle", "launch", "start", "bar", "barred", "get", "single", "next", "claim",
        "iter", "obegin", "oregion", "sink", "sinktest", "asleep", "woken", "source",
        "crossed", "post", "posted"}
  /\ \A s \in DaSeqs : da[s].waiters \in 0 .. MaxTeam /\ da[s].left \in 0 .. MaxTeam
  /\ bar.n \in 0 .. MaxItems /\ bar.waiting \in 0 .. MaxItems

\* A team, and the state of a doacross loop, exist as long as a thread is in
\* them, and only the threads of the team are (runtime.c:150, omp/runtime.c:224).
TeamAlive ==
  \A t \in Threads : InRegion(t) =>
    /\ team.alive /\ th[t].team = team.id /\ t < team.n
    /\ InLoop(t) /\ Crossing(t) => da[D(t)].st = "live"

AllRan(c) == \A j \in DOMAIN ran[c] : ran[c][j] = 1

\* No iteration, section, single block or work-group runs twice; behind a
\* construct that ends with a barrier, and once the region is over, all have run.
EachOnce ==
  /\ \A c \in DOMAIN ran : \A j \in DOMAIN ran[c] : ran[c][j] <= 1
  /\ \A t \in Threads : InRegion(t) =>
       \A c \in 1 .. Ip(t) - 1 : ~ team.body[c].nowait => \A d \in 1 .. c : AllRan(d)
  /\ team.id > 0 /\ ~ team.alive => \A c \in DOMAIN ran : AllRan(c)

\* What one thread hands to the next is there: in an ordered region all earlier
\* iterations are over, past a sink the iteration it names has been posted, and
\* a copyprivate copy is that of its own single.
HandedOver ==
  \A t \in Threads : InRegion(t) =>
    /\ At(t, "oregion") => 0 .. th[t].k - 1 \subseteq fin[Ip(t)]
    /\ (th[t].pc \in {"source", "crossed", "post", "posted"} /\ th[t].k > 0) =>
         th[t].k - 1 \in fin[Ip(t)]
    /\ At(t, "get") => team.copy = Ip(t)

\* The chunks that are handed out and the entries of a doacross loop agree: the
\* iterations of a chunk share an entry that no other chunk has, so that one
\* counter per chunk is enough (omp/runtime.c:216-224).
SlotPerChunk ==
  \A s, t \in Threads :
    (/\ InLoop(s) /\ InLoop(t) /\ Ip(s) = Ip(t) /\ Crossing(s)
     /\ ~ {th[s].pc, th[t].pc} \cap {"next", "claim"} # {})
    => \A i \in th[s].b .. th[s].e - 1 : \A j \in th[t].b .. th[t].e - 1 :
         /\ Slot(s, i) \in DOMAIN da[D(s)].ent
         /\ (Slot(s, i) = Slot(t, j)) <=> (s = t)

\* Every region comes to its end: no wake-up of a sink is lost, the baton of
\* the ordered regions gets around, every worker reports back, and a work-item
\* that returns holds no other one in the barrier (omp/runtime.c:325-364,
\* pool/runtime.c:21-44).
RegionEnds == ~ At(0, "idle") ~> At(0, "idle")
=============================================================================
