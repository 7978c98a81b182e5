------------------------------ MODULE OmpDeque ------------------------------
(***************************************************************************)
(* The task deque of a thread of an OpenMP team (src/shims/omp/tasks.c):   *)
(* a Chase-Lev deque in a ring that doubles when it is full.  The owner    *)
(* pushes and takes at bottom, thieves race for top with a compare-and-    *)
(* swap, and nobody holds a lock.                                          *)
(*                                                                         *)
(* Every action is one access to memory another thread may touch.  The     *)
(* loads and stores of the code are ordered by acquire/release pairs and   *)
(* by the two sequentially consistent fences (tasks.c:180, 200), so their  *)
(* interleavings are the behaviours to explore.  The k-th task pushed is   *)
(* the number k.                                                           *)
(***************************************************************************)
EXTENDS Integers, Sequences

CONSTANTS
  Owner,    \* the thread whose deque it is
  Thieves,  \* the other threads of the team
  Ring0,    \* __CCCC_TASK_RING0: size of the first ring
  MaxTasks  \* bound: tasks pushed

ASSUME DequeAssumption ==
  /\ Owner \notin Thieves
  /\ Ring0 \in Nat \ {0}
  /\ MaxTasks \in Nat

VARIABLES
  top, bottom,  \* q->top, q->bottom: the waiting tasks are at top .. bottom-1
  rings,        \* every ring made so far; the last one is q->ring
  pushed,       \* tasks pushed so far
  opc, otop,    \* the owner: where it is in push or take, the top it read
  tpc, ttop,    \* a thief: where it is in steal, the top it read,
  tring, tx,    \*   the ring it read and the task it found there
  got           \* ghost: per thread, the tasks dq_take and dq_steal gave it

ownerVars == <<opc, otop>>
thiefVars == <<tpc, ttop, tring, tx>>
vars == <<top, bottom, rings, pushed, ownerVars, thiefVars, got>>

Tasks == 1 .. MaxTasks
None  == 0          \* what an unused slot holds
Slots == Tasks \cup {None}

\* q->ring is the newest ring; a ring is never freed before its team.
Current == Len(rings)
Slot(r, i) == rings[r].buf[i % rings[r].cap]

Init ==
  /\ top = 0 /\ bottom = 0
  /\ rings = <<>>
  /\ pushed = 0
  /\ opc = "idle" /\ otop = 0
  /\ tpc = [t \in Thieves |-> "idle"]
  /\ ttop = [t \in Thieves |-> 0]
  /\ tring = [t \in Thieves |-> 0]
  /\ tx = [t \in Thieves |-> None]
  /\ got = [t \in {Owner} \cup Thieves |-> {}]

Hand(t, x) == got' = [got EXCEPT ![t] = @ \cup {x}]

\* Locals that are not read again go back to their first value.
Forget(t) ==
  /\ ttop' = [ttop EXCEPT ![t] = 0]
  /\ tring' = [tring EXCEPT ![t] = 0]
  /\ tx' = [tx EXCEPT ![t] = None]
-----------------------------------------------------------------------------
(* __cccc_dq_push, by the owner.                                           *)
FullLate(b, t) ==  \* mutant: the ring counts as full one task too late
  Current = 0 \/ b - t > rings[Current].cap

Full(b, t) ==
  Current = 0 \/ b - t > rings[Current].cap - 1

PushLoad ==
  /\ opc = "idle"
  /\ pushed < MaxTasks
  /\ otop' = top
  /\ opc' = IF Full(bottom, top) THEN "grow" ELSE "store"
  /\ UNCHANGED <<top, bottom, rings, pushed, thiefVars, got>>

\* __cccc_dq_grow: the waiting tasks keep their positions in a ring of twice
\* the size, which is then published; thieves may still read the old one.
Grown(i, t, b) ==
  LET cap == 2 * rings[Current].cap
      at  == {k \in t .. (b - 1) : k % cap = i}
  IN IF at = {} THEN None ELSE Slot(Current, CHOOSE k \in at : TRUE)

Grow ==
  /\ opc = "grow"
  /\ LET cap == IF Current = 0 THEN Ring0 ELSE 2 * rings[Current].cap
         buf == [i \in 0 .. (cap - 1) |->
                   IF Current = 0 THEN None ELSE Grown(i, otop, bottom)]
     IN rings' = Append(rings, [cap |-> cap, buf |-> buf])
  /\ opc' = "store"
  /\ UNCHANGED <<top, bottom, pushed, otop, thiefVars, got>>

PushStore ==
  /\ opc = "store"
  /\ rings' = [rings EXCEPT ![Current].buf[bottom % rings[Current].cap] = pushed + 1]
  /\ opc' = "publish"
  /\ UNCHANGED <<top, bottom, pushed, otop, thiefVars, got>>

PushPublish ==
  /\ opc = "publish"
  /\ bottom' = bottom + 1
  /\ pushed' = pushed + 1
  /\ opc' = "idle" /\ otop' = 0
  /\ UNCHANGED <<top, rings, thiefVars, got>>
-----------------------------------------------------------------------------
(* __cccc_dq_take, by the owner: the newest task at or above mark.  It      *)
(* withdraws the task from the thieves before it looks at top.             *)
TakeReserveUnchecked(mark) ==  \* mutant: an empty deque is not recognised
  /\ opc = "idle"
  /\ bottom' = bottom - 1
  /\ opc' = "take"
  /\ UNCHANGED <<top, rings, pushed, otop, thiefVars, got>>

TakeReserve(mark) ==
  /\ opc = "idle"
  /\ bottom - 1 >= mark
  /\ bottom' = bottom - 1
  /\ opc' = "take"
  /\ UNCHANGED <<top, rings, pushed, otop, thiefVars, got>>

TakeTop ==
  /\ opc = "take"
  /\ \/ /\ top < bottom
        /\ Hand(Owner, Slot(Current, bottom))
        /\ opc' = "idle"
        /\ UNCHANGED <<bottom, otop>>
     \/ /\ top = bottom
        /\ otop' = top
        /\ opc' = "cas"
        /\ UNCHANGED <<bottom, got>>
     \/ /\ top > bottom
        /\ bottom' = bottom + 1
        /\ opc' = "idle"
        /\ UNCHANGED <<got, otop>>
  /\ UNCHANGED <<top, rings, pushed, thiefVars>>

TakeCas ==
  /\ opc = "cas"
  /\ \/ /\ top = otop
        /\ top' = otop + 1
        /\ Hand(Owner, Slot(Current, bottom))
     \/ /\ top # otop
        /\ UNCHANGED <<top, got>>
  /\ opc' = "restore"
  /\ UNCHANGED <<bottom, rings, pushed, otop, thiefVars>>

TakeRestore ==
  /\ opc = "restore"
  /\ bottom' = bottom + 1
  /\ opc' = "idle" /\ otop' = 0
  /\ UNCHANGED <<top, rings, pushed, thiefVars, got>>
-----------------------------------------------------------------------------
(* __cccc_dq_steal, by thief t.                                            *)
StealBegin(t) ==
  /\ tpc[t] = "idle"
  /\ tpc' = [tpc EXCEPT ![t] = "top"]
  /\ UNCHANGED <<top, bottom, rings, pushed, ownerVars, ttop, tring, tx, got>>

StealTop(t) ==
  /\ tpc[t] = "top"
  /\ ttop' = [ttop EXCEPT ![t] = top]
  /\ tpc' = [tpc EXCEPT ![t] = "bottom"]
  /\ UNCHANGED <<top, bottom, rings, pushed, ownerVars, tring, tx, got>>

StealBottom(t) ==
  /\ tpc[t] = "bottom"
  /\ \/ /\ ttop[t] >= bottom
        /\ tpc' = [tpc EXCEPT ![t] = "idle"]
        /\ Forget(t)
     \/ /\ ttop[t] < bottom
        /\ tpc' = [tpc EXCEPT ![t] = "ring"]
        /\ UNCHANGED <<ttop, tring, tx>>
  /\ UNCHANGED <<top, bottom, rings, pushed, ownerVars, got>>

StealRing(t) ==
  /\ tpc[t] = "ring"
  /\ tring' = [tring EXCEPT ![t] = Current]
  /\ tpc' = [tpc EXCEPT ![t] = "slot"]
  /\ UNCHANGED <<top, bottom, rings, pushed, ownerVars, ttop, tx, got>>

StealSlot(t) ==
  /\ tpc[t] = "slot"
  /\ tx' = [tx EXCEPT ![t] = Slot(tring[t], ttop[t])]
  /\ tpc' = [tpc EXCEPT ![t] = "cas"]
  /\ UNCHANGED <<top, bottom, rings, pushed, ownerVars, ttop, tring, got>>

StealCasStuck(t) ==  \* mutant: a failed swap is retried with the old top
  /\ tpc[t] = "cas"
  /\ \/ /\ top = ttop[t]
        /\ top' = top + 1
        /\ Hand(t, tx[t])
        /\ tpc' = [tpc EXCEPT ![t] = "idle"]
     \/ /\ top # ttop[t]
        /\ tpc' = [tpc EXCEPT ![t] = "ring"]
        /\ UNCHANGED <<top, got>>
  /\ UNCHANGED <<bottom, rings, pushed, ownerVars, ttop, tring, tx>>

StealCas(t) ==
  /\ tpc[t] = "cas"
  /\ \/ /\ top = ttop[t]
        /\ top' = top + 1
        /\ Hand(t, tx[t])
        /\ tpc' = [tpc EXCEPT ![t] = "idle"]
     \/ /\ top # ttop[t]
        /\ tpc' = [tpc EXCEPT ![t] = "top"]
        /\ UNCHANGED <<top, got>>
  /\ Forget(t)
  /\ UNCHANGED <<bottom, rings, pushed, ownerVars>>
-----------------------------------------------------------------------------
OwnerStep ==
  \/ PushLoad \/ Grow \/ PushStore \/ PushPublish
  \/ \E mark \in 0 .. bottom : TakeReserve(mark)
  \/ TakeTop \/ TakeCas \/ TakeRestore

StealLoop(t) ==
  StealTop(t) \/ StealBottom(t) \/ StealRing(t) \/ StealSlot(t) \/ StealCas(t)

ThiefStep(t) == StealBegin(t) \/ StealLoop(t)

Next == OwnerStep \/ \E t \in Thieves : ThiefStep(t)

\* A thread inside dq_steal keeps running; nobody has to call it.
Spec == Init /\ [][Next]_vars /\ \A t \in Thieves : WF_vars(StealLoop(t))
-----------------------------------------------------------------------------
(* Types; no empty slot is handed out and bottom never runs below zero.     *)
TypeOK ==
  /\ top \in Nat /\ bottom \in Nat /\ pushed \in 0 .. MaxTasks
  /\ \A r \in 1 .. Len(rings) :
       rings[r].cap \in Nat \ {0} /\ rings[r].buf \in [0 .. (rings[r].cap - 1) -> Slots]
  /\ opc \in {"idle", "grow", "store", "publish", "take", "cas", "restore"}
  /\ otop \in Nat
  /\ tpc \in [Thieves -> {"idle", "top", "bottom", "ring", "slot", "cas"}]
  /\ ttop \in [Thieves -> Nat]
  /\ tring \in [Thieves -> Nat]
  /\ tx \in [Thieves -> Slots]
  /\ got \in [{Owner} \cup Thieves -> SUBSET Tasks]

(* The position after the newest waiting task: while the owner is inside    *)
(* dq_take, the task it withdrew still waits until somebody wins it.        *)
Withdrawn == opc \in {"take", "cas", "restore"}
Bottom == IF Withdrawn THEN bottom + 1 ELSE bottom

Waiting == [i \in 1 .. (Bottom - top) |-> Slot(Current, top + i - 1)]

Pool == INSTANCE TaskPool WITH put <- pushed, queue <- Waiting

(* The deque implements the pool of TaskPool: whatever the order in which   *)
(* the owner's push and take and the thieves' steals interleave, and        *)
(* whichever ring a thief reads, a steal yields the oldest waiting task, a  *)
(* take the newest, and no task is handed out twice or dropped              *)
(* (tasks.c:147-211).                                                       *)
PoolSpec == Pool!PoolSpec

(* A deferred task runs once: whatever races for it, exactly one of the      *)
(* calls of dq_take and dq_steal returns it, and until one does it waits in  *)
(* the ring q->ring points to (tasks.c:147-211).                             *)
RunsOnce == Pool!OnePlace

(* Positions: the deque fits its ring, and top passes Bottom never.  In the  *)
(* race for the last task top has moved by at most that task.               *)
Positions ==
  /\ top <= Bottom
  /\ rings = <<>> => top = 0 /\ bottom = 0 /\ opc \in {"idle", "grow"}
  /\ rings # <<>> => Bottom - top <= rings[Current].cap
  /\ opc = "cas" => otop = bottom /\ otop <= top
  /\ opc = "restore" => top = bottom + 1

(* What the owner knows inside dq_push from the top it read, which may be    *)
(* behind by now: there is room for the task.                               *)
Pushing ==
  opc \in {"grow", "store", "publish"} =>
    /\ pushed < MaxTasks /\ otop <= top
    /\ opc = "grow" /\ rings # <<>> => bottom - otop <= rings[Current].cap
    /\ opc # "grow" => bottom - otop < rings[Current].cap
    /\ opc = "publish" => Slot(Current, bottom) = pushed + 1

(* Every waiting position of the current ring holds a task that was pushed.  *)
WaitingPushed == \A k \in top .. (Bottom - 1) : Slot(Current, k) \in 1 .. pushed

(* What a thief knows inside dq_steal, whichever ring it reads: as long as   *)
(* top has not moved, the task at top still waits, and the ring it took up   *)
(* agrees there with the current one.                                       *)
Stealing ==
  \A t \in Thieves :
    /\ ttop[t] <= top
    /\ tpc[t] \in {"ring", "slot", "cas"} =>
         /\ rings # <<>>
         /\ tpc[t] # "ring" => tring[t] \in 1 .. Current
         /\ ttop[t] = top =>
              /\ top < Bottom
              /\ tpc[t] = "slot" => Slot(tring[t], top) = Slot(Current, top)
              /\ tpc[t] = "cas" => tx[t] = Slot(Current, top)

(* The inductive invariant behind the refinement: no thread acts on a        *)
(* position, a ring or a slot that is out of date in a way that matters      *)
(* (tasks.c:147-211).                                                        *)
DequeInv == TypeOK /\ Positions /\ Pushing /\ WaitingPushed /\ Stealing

(* A steal ends: the loop of dq_steal repeats only when another thread got  *)
(* a task (tasks.c:198-210).                                                *)
StealEnds == \A t \in Thieves : tpc[t] = "top" ~> tpc[t] = "idle"
=============================================================================
