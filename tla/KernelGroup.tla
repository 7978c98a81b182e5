---------------------------- MODULE KernelGroup ----------------------------
(***************************************************************************)
(* A kernel launch whose kernel uses barriers, in native output            *)
(* (src/shims/kernel/runtime.c): the work-groups run one after the other,  *)
(* each with a thread of its own per work-item, and the items of a group   *)
(* meet in the barrier of src/shims/pool/runtime.c.  Items may diverge: an *)
(* item leaves the barrier for good when it returns.  The barrier of the   *)
(* VM's own launcher (src/stdlib/kernel.c:120-147) is the same protocol.   *)
(*                                                                         *)
(* A section under the barrier's mutex is one action.                      *)
(***************************************************************************)
EXTENDS Integers, FiniteSets

CONSTANTS
  MaxItems,   \* bound: work-items of a group
  MaxWaits,   \* bound: barriers an item meets
  MaxGroups   \* bound: work-groups of the launch

ASSUME GroupAssumption == MaxItems \in Nat /\ MaxWaits \in Nat /\ MaxGroups \in Nat

VARIABLES
  launch,  \* the launcher: the work-groups left and the items created so far
  bar,     \* __cccc_barrier_t
  item     \* the work-items' threads

groupVars == <<launch, bar, item>>

Items == 1 .. MaxItems
NoItem == [pc |-> "none", gen |-> 0, met |-> 0]
NoBar  == [n |-> 0, waiting |-> 0, gen |-> 0]

GroupInit ==
  /\ launch = [items |-> 0, left |-> 0, created |-> 0]
  /\ bar = NoBar
  /\ item = [i \in Items |-> NoItem]
-----------------------------------------------------------------------------
(* The launcher: __cccc_kernel_launch and __cccc_krun_group_threads.        *)
Launch(n, groups) ==
  /\ launch' = [items |-> n, left |-> groups, created |-> 0]
  /\ bar' = [NoBar EXCEPT !.n = n]
  /\ UNCHANGED item

\* The threads are created one by one; the first may be far ahead by then.
ItemCreate ==
  /\ launch.created < launch.items
  /\ launch' = [launch EXCEPT !.created = @ + 1]
  /\ item' = [item EXCEPT ![launch.created + 1] = [NoItem EXCEPT !.pc = "run"]]
  /\ UNCHANGED bar

\* All are joined; the next group has a new barrier and new threads.
GroupJoined ==
  /\ launch.items > 0 /\ launch.created = launch.items
  /\ \A i \in 1 .. launch.items : item[i].pc = "gone"
  /\ item' = [i \in Items |-> NoItem]

NextGroup ==
  /\ GroupJoined /\ launch.left > 1
  /\ launch' = [launch EXCEPT !.left = @ - 1, !.created = 0]
  /\ bar' = [NoBar EXCEPT !.n = launch.items]

LaunchOver ==
  /\ GroupJoined /\ launch.left = 1
  /\ launch' = [items |-> 0, left |-> 0, created |-> 0]
  /\ bar' = NoBar
-----------------------------------------------------------------------------
(* The work-items: __cccc_barrier_wait and __cccc_barrier_leave.            *)
Opened(b) == [b EXCEPT !.waiting = 0, !.gen = @ + 1]

ItemWait(i) ==
  /\ item[i].pc = "run" /\ item[i].met < MaxWaits
  /\ \/ /\ bar.waiting + 1 = bar.n
        /\ bar' = Opened(bar)
        /\ item' = [item EXCEPT ![i].met = @ + 1]
     \/ /\ bar.waiting + 1 # bar.n
        /\ bar' = [bar EXCEPT !.waiting = @ + 1]
        /\ item' = [item EXCEPT ![i].pc = "wait", ![i].gen = bar.gen]
  /\ UNCHANGED launch

ReleasedAlways(i) == TRUE  \* mutant: any wake-up lets the item through
Released(i) == item[i].gen # bar.gen

ItemPass(i) ==
  /\ item[i].pc = "wait" /\ Released(i)
  /\ item' = [item EXCEPT ![i].pc = "run", ![i].gen = 0, ![i].met = @ + 1]
  /\ UNCHANGED <<launch, bar>>

\* The item returns; if all the others wait, they wait for nobody any more.
ItemLeave(i) ==
  /\ item[i].pc = "run"
  /\ LET b == [bar EXCEPT !.n = @ - 1]
     IN bar' = IF b.n > 0 /\ b.waiting = b.n THEN Opened(b) ELSE b
  /\ item' = [item EXCEPT ![i].pc = "gone"]
  /\ UNCHANGED launch

GroupStep ==
  \/ ItemCreate \/ NextGroup
  \/ \E i \in Items : ItemWait(i) \/ ItemPass(i) \/ ItemLeave(i)
-----------------------------------------------------------------------------
Arrived(i) == item[i].met + (IF item[i].pc = "wait" THEN 1 ELSE 0)

\* A work-item is past its k-th barrier only when every item of the group, those
\* not yet created included, has come to its k-th or has returned, however often
\* the barrier is used again before the last item has left it.
ItemsInStep ==
  \A i, j \in 1 .. launch.items :
    item[j].pc = "gone" \/ Arrived(j) >= item[i].met
=============================================================================
