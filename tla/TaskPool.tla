------------------------------ MODULE TaskPool ------------------------------
(***************************************************************************)
(* What a thread's task deque promises, without saying how: its owner puts *)
(* tasks in and takes the newest, any other thread takes the oldest, and   *)
(* every task is handed to exactly one thread.  OmpDeque implements it.    *)
(***************************************************************************)
EXTENDS Integers, Sequences

CONSTANTS
  Owner,    \* the thread whose deque it is
  Thieves,  \* the other threads of the team
  MaxTasks  \* bound: tasks put in

VARIABLES
  put,      \* number of tasks put in so far; the k-th put is task k
  queue,    \* the tasks that wait, oldest first
  got       \* per thread: the tasks it was given

poolVars == <<put, queue, got>>

PoolInit ==
  /\ put = 0
  /\ queue = <<>>
  /\ got = [t \in {Owner} \cup Thieves |-> {}]

Put ==
  /\ put < MaxTasks
  /\ put' = put + 1
  /\ queue' = Append(queue, put + 1)
  /\ UNCHANGED got

TakeNewest ==
  /\ queue # <<>>
  /\ got' = [got EXCEPT ![Owner] = @ \cup {queue[Len(queue)]}]
  /\ queue' = SubSeq(queue, 1, Len(queue) - 1)
  /\ UNCHANGED put

StealOldest(t) ==
  /\ queue # <<>>
  /\ got' = [got EXCEPT ![t] = @ \cup {Head(queue)}]
  /\ queue' = Tail(queue)
  /\ UNCHANGED put

PoolNext == Put \/ TakeNewest \/ \E t \in Thieves : StealOldest(t)

PoolSpec == PoolInit /\ [][PoolNext]_poolVars
-----------------------------------------------------------------------------
(* A task that was put in is in one place only, and in one: it waits, once, *)
(* or one thread was given it.  Nothing else waits or was given out.        *)
OnePlace ==
  /\ \A i \in 1 .. Len(queue) : queue[i] \in 1 .. put
  /\ \A t \in {Owner} \cup Thieves : got[t] \subseteq 1 .. put
  /\ \A i, j \in 1 .. Len(queue) : queue[i] = queue[j] => i = j
  /\ \A t, u \in {Owner} \cup Thieves : t # u => got[t] \cap got[u] = {}
  /\ \A i \in 1 .. Len(queue), t \in {Owner} \cup Thieves : queue[i] \notin got[t]
  /\ \A k \in 1 .. put : \/ \E i \in 1 .. Len(queue) : queue[i] = k
                        \/ \E t \in {Owner} \cup Thieves : k \in got[t]
=============================================================================
