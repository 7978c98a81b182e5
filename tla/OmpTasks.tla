------------------------------ MODULE OmpTasks ------------------------------
(***************************************************************************)
(* Deferred OpenMP tasks of one team (src/shims/omp/tasks.c): spawning,    *)
(* dependences, the priority list, tied waits (taskwait, taskgroup, an     *)
(* undeferred task with dependences), completion, the barrier and the end  *)
(* of the region.                                                          *)
(*                                                                         *)
(* The deque of a thread is a sequence, oldest task first, with atomic     *)
(* push, take and steal: OmpDeque shows that the lock-free code implements *)
(* that.  A section under the team mutex tm is one action unless it reads  *)
(* state that is changed without tm; then tm is held across actions.  The  *)
(* program is left open: a running task may spawn, wait, open and close a  *)
(* taskgroup or end at any time, within the bounds below.                  *)
(*                                                                         *)
(* A thread's C stack is the sequence stack[t] of the tasks it is inside,  *)
(* the implicit task first; pc says where the innermost one is.            *)
(***************************************************************************)
EXTENDS Integers, Sequences, SequencesExt, FiniteSets, FiniteSetsExt

CONSTANTS
  Threads,     \* the threads of the team; thread t's implicit task is t
  Spawners,    \* the threads whose region body creates tasks
  Programs,    \* the clauses of the tasks in the order they are created, see Kind
  CapMin,      \* __CCCC_TASK_CAP_MIN, CAP_MAX: limits of the number of queued
  CapMax,      \*   tasks above which a spawn runs in place
  Barriers,    \* barriers every thread meets in the region
  MaxTasks,    \* bound: tasks spawned
  MaxGroups,   \* bound: taskgroups opened
  MaxSpurious  \* bound: spurious wake-ups

Tasks  == 1 .. MaxTasks
None   == 0
Recs   == Threads \cup Tasks
Groups == 1 .. MaxGroups
Free   == "free"          \* nobody holds tm

\* if0: if(false); high: priority > 0; dep: its dependences on one address;
\* grouped: created in a taskgroup of its creator.
Kind == [if0 : BOOLEAN, final : BOOLEAN, high : BOOLEAN, grouped : BOOLEAN,
         dep : {<<>>, <<"in">>, <<"out">>, <<"in", "out">>}]
NoKind == [if0 |-> FALSE, final |-> FALSE, high |-> FALSE, grouped |-> FALSE,
           dep |-> <<>>]

ASSUME TasksAssumption ==
  /\ Spawners \subseteq Threads /\ IsFiniteSet(Threads)
  /\ Threads \cap (Nat \cup {Free}) = {}     \* names are distinct
  /\ Cardinality(Threads) > 1      \* a team of one runs every task in place
  /\ Programs \subseteq SeqOf(Kind, MaxTasks)
  /\ CapMin \in Nat \ {0} /\ CapMax \in Nat /\ CapMin <= CapMax
  /\ Barriers \in Nat /\ MaxTasks \in Nat /\ MaxGroups \in Nat /\ MaxSpurious \in Nat

VARIABLES
  rec,       \* the task records (struct __cccc_task)
  grp,       \* the taskgroups
  stack,     \* per thread: the tasks it is inside
  dq,        \* per thread: its deque
  base,      \* per thread: position of the oldest task of its deque (top)
  hq,        \* the priority list; nhigh is its length
  live,      \* tasks not yet settled
  nwait,     \* threads about to sleep on their slot
  watch,     \* per thread: the counter its slot waits for
  kick,      \* per thread: a priority task arrived
  tm,        \* who holds the team mutex across actions
  sleepers,  \* threads about to sleep on tc
  barrived, bgen,  \* the barrier
  gen,       \* per thread: the generation it arrived in
  passed,    \* per thread: barriers it has passed
  spurious   \* spurious wake-ups so far

vars == <<rec, grp, stack, dq, base, hq, live, nwait, watch, kick, tm,
          sleepers, barrived, bgen, gen, passed, spurious>>
waitVars == <<nwait, watch, kick>>
barVars  == <<barrived, bgen, gen, passed>>
idleVars == <<tm, sleepers>>
qVars    == <<dq, base, hq>>
sync     == <<waitVars, idleVars, barVars, spurious>>
-----------------------------------------------------------------------------
(* Records, frames and counters.                                           *)
NoRec == [st |-> "none", inplace |-> FALSE, kind |-> NoKind, final |-> FALSE,
          parent |-> None, creator |-> None, group |-> None, epoch |-> 0,
          children |-> 0, kids |-> FALSE, refs |-> 0, mark |-> 0,
          pred |-> {}, done |-> FALSE, writer |-> None, readers |-> <<>>,
          within |-> None,   \* history: the group that encloses its creation
          home |-> None]     \* history: the group that counts it

\* Where a thread is inside a task: the counter it waits for, the counters to
\* notify and where that leads, and the references to drop.
Frame(x, p) == [tk |-> x, pc |-> p, ctr |-> <<>>, tell |-> <<>>, next |-> "", drop |-> <<>>]

Top(t) == Last(stack[t])
pc(t)  == Top(t).pc
Cur(t) == Top(t).tk

WithTop(t, f) == [stack EXCEPT ![t] = Append(Front(@), f)]
SetTop(t, f)  == stack' = WithTop(t, f)
Goto(t, p)    == SetTop(t, [Top(t) EXCEPT !.pc = p])
Pop(t)        == stack' = [stack EXCEPT ![t] = Front(@)]

Static(x)   == x \in Threads \/ rec[x].inplace   \* refs starts at 1 << 30
Tracked(x)  == rec[x].kind.dep # <<>>
DepRefs(r)  == r.readers \o (IF r.writer = None THEN <<>> ELSE <<r.writer>>)
FreeDeps(r) == [r EXCEPT !.writer = None, !.readers = <<>>]
OpenGroup(x) == rec[x].group # None /\ grp[rec[x].group].owner = x

\* The taskgroup a task is lexically inside: its own, or that of its creator.
Enclosing(x) == IF rec[x].group # None THEN rec[x].group ELSE rec[x].within

\* The int a waiter waits for: <<"children", x>>, <<"npred", x>> or <<"group", g>>.
Counter(c) ==
  CASE c[1] = "children" -> rec[c[2]].children
    [] c[1] = "npred"    -> Cardinality(rec[c[2]].pred)
    [] c[1] = "group"    -> grp[c[2]].count
Waits(t, c) == pc(t) = "wait" /\ Top(t).ctr[1] = c
Bottom(t)   == base[t] + Len(dq[t])

(* Wake-ups: the threads asleep on tc, and those asleep on a slot.          *)
OnTc   == {t \in Threads : pc(t) = "idle"}
OnSlot == {t \in Threads : pc(t) = "asleep"}
Rouse(st, ts, to) ==
  [t \in Threads |-> IF t \in ts THEN [st[t] EXCEPT ![Len(st[t])].pc = to] ELSE st[t]]

\* pthread_cond_signal(&t->tc), n times.
Signalled(n) ==
  {ts \in SUBSET OnTc : Cardinality(ts) = Min({n, Cardinality(OnTc)})}
-----------------------------------------------------------------------------
Init ==
  /\ rec = [x \in Recs |-> IF x \in Threads THEN [NoRec EXCEPT !.st = "run"] ELSE NoRec]
  /\ grp = [g \in Groups |-> [st |-> "none", parent |-> None, count |-> 0, owner |-> None]]
  /\ stack = [t \in Threads |-> <<Frame(t, "body")>>]
  /\ dq = [t \in Threads |-> <<>>] /\ base = [t \in Threads |-> 0] /\ hq = <<>>
  /\ live = 0
  /\ nwait = 0 /\ watch = [t \in Threads |-> <<>>] /\ kick = [t \in Threads |-> FALSE]
  /\ tm = Free /\ sleepers = 0
  /\ barrived = 0 /\ bgen = 0
  /\ gen = [t \in Threads |-> 0] /\ passed = [t \in Threads |-> 0]
  /\ spurious = 0
-----------------------------------------------------------------------------
(* __cccc_omp_task_spawn.                                                  *)
Active(t) == pc(t) = "body" /\ (Len(stack[t]) > 1 \/ t \in Spawners)
Fresh == 1 + Cardinality({x \in Tasks : rec[x].st # "none"})
NextKinds ==
  {p[Fresh] : p \in {q \in Programs : /\ Fresh <= Len(q)
                                     /\ \A n \in 1 .. Fresh - 1 : q[n] = rec[n].kind}}
\* A taskgroup has been opened for the next task and not for an earlier one.
GroupOpened ==
  Cardinality({g \in Groups : grp[g].st # "none"})
    > Cardinality({x \in Tasks : rec[x].st # "none" /\ rec[x].kind.grouped})
Creates(t, k) ==
  /\ Active(t)
  /\ k.grouped = GroupOpened /\ (k.grouped => OpenGroup(Cur(t)))

\* __cccc_task_full: the bound of the thread is somewhere in CapMin .. CapMax,
\* so with CapMin tasks queued it may be reached and with CapMax it is.
MayBeFull(t)    == Len(dq[t]) >= CapMin
MayHaveRoom(t)  == Len(dq[t]) < CapMax

\* The task runs where it is created, on a record of the stack.
SpawnInPlace(t, k) ==
  /\ Creates(t, k)
  /\ rec[Cur(t)].final \/ (k.dep = <<>> /\ (k.if0 \/ MayBeFull(t)))
  /\ rec' = [rec EXCEPT ![Fresh] =
       [NoRec EXCEPT !.st = "run", !.inplace = TRUE, !.kind = k,
                     !.final = k.final \/ rec[Cur(t)].final,
                     !.creator = Cur(t), !.epoch = rec[Cur(t)].epoch,
                     !.within = Enclosing(Cur(t)), !.mark = Bottom(t)]]
  /\ stack' = [stack EXCEPT ![t] = Append(@, Frame(Fresh, "body"))]
  /\ UNCHANGED <<grp, qVars, live, sync>>

\* The counters that make the task known, before it is queued.
InheritedOnce(x) ==  \* mutant: only an implicit task passes its group on
  IF x \in Threads THEN rec[x].group ELSE None
Inherited(x) == rec[x].group

SpawnCount(t, k) ==
  /\ Creates(t, k)
  /\ ~ rec[Cur(t)].final
  /\ k.dep # <<>> \/ (~ k.if0 /\ MayHaveRoom(t))
  /\ LET cur == Cur(t)
         g   == Inherited(cur)
     IN /\ rec' = [rec EXCEPT
             ![Fresh] = [NoRec EXCEPT !.st = "wait", !.kind = k, !.final = k.final,
                                      !.parent = cur, !.creator = cur, !.refs = 1,
                                      !.group = g, !.epoch = rec[cur].epoch,
                                      !.within = Enclosing(cur), !.home = g],
             ![cur].refs = @ + 1, ![cur].children = @ + 1, ![cur].kids = TRUE]
        /\ grp' = IF g = None THEN grp ELSE [grp EXCEPT ![g].count = @ + 1]
        /\ SetTop(t, [Frame(cur, "link") EXCEPT !.ctr = <<"npred", Fresh>>])
  /\ live' = live + 1
  /\ UNCHANGED <<qVars, sync>>

(* __cccc_task_deps: the effect of one dependence of task x on the entry of  *)
(* its address, d: the tasks x waits for and the references that are dropped.*)
AddDepWriterOnly(d, kind, x) ==  \* mutant: a writer does not wait for readers
  IF kind = "out"
  THEN [writer |-> x, readers |-> <<>>, pred |-> d.pred \cup {d.writer},
        drop |-> d.drop \o DepRefs(d), add |-> d.add + 1]
  ELSE [d EXCEPT !.readers = Append(@, x), !.pred = @ \cup {d.writer}, !.add = @ + 1]

AddDep(d, kind, x) ==
  IF kind = "out"
  THEN [writer |-> x, readers |-> <<>>,
        pred |-> d.pred \cup (IF d.readers = <<>> THEN {d.writer} ELSE ToSet(d.readers)),
        drop |-> d.drop \o DepRefs(d), add |-> d.add + 1]
  ELSE [d EXCEPT !.readers = Append(@, x), !.pred = @ \cup {d.writer}, !.add = @ + 1]

\* The entry as the parent has it, after one dependence and after the other.  A
\* task that is done, and the task itself, makes no edge (__cccc_task_edge).
Deps(x) ==
  LET p   == rec[rec[x].parent]
      dep == rec[x].kind.dep
      d0  == [writer |-> p.writer, readers |-> p.readers, pred |-> {},
              drop |-> <<>>, add |-> 0]
      d1  == IF Len(dep) < 1 THEN d0 ELSE AddDep(d0, dep[1], x)
      d2  == IF Len(dep) < 2 THEN d1 ELSE AddDep(d1, dep[2], x)
  IN [d2 EXCEPT !.pred = {y \in @ \ {None, x} : ~ rec[y].done}]

\* The list of the tasks xs in the order they were created in (there is one).
InOrder(xs) ==
  {s \in [1 .. Cardinality(xs) -> xs] : \A i, j \in DOMAIN s : i < j => s[i] < s[j]}

(* __cccc_task_push of the tasks xs by thread t, with tm held, in the order  *)
(* they were linked in: priority tasks go to hq and every waiter looks again *)
(* (__cccc_task_kick, which takes the slot mutexes), the others to t's       *)
(* deque; each wakes an idle thread (__cccc_task_wake_idle).                 *)
PushLocked(t, xs, st) ==
  LET high == {x \in xs : rec[x].kind.high}
      low  == xs \ high
  IN /\ high # {} => \A s \in Threads : pc(s) # "check"
     /\ \E hs \in InOrder(high) : hq' = hq \o hs
     /\ \E ls \in InOrder(low) : dq' = [dq EXCEPT ![t] = @ \o ls]
     /\ kick' = [s \in Threads |-> kick[s] \/ high # {}]
     /\ \E ts \in Signalled(Cardinality(high)
                             + (IF sleepers = 0 THEN 0 ELSE Cardinality(low))) :
          stack' = Rouse(Rouse(st, ts, "roused"),
                         IF high = {} THEN {} ELSE OnSlot, "woken")

Linked(t) == Top(t).ctr[2]

\* A task without dependences goes to the deque without tm.
SpawnPush(t) ==
  /\ pc(t) = "link" /\ ~ Tracked(Linked(t)) /\ ~ rec[Linked(t)].kind.high
  /\ dq' = [dq EXCEPT ![t] = Append(@, Linked(t))]
  /\ SetTop(t, Frame(Cur(t), "wake"))
  /\ UNCHANGED <<rec, grp, base, hq, live, sync>>

\* One with dependences joins the graph under tm and is queued when it has to
\* wait for nobody; an undeferred one will be waited for and run right here.
SpawnLink(t) ==
  LET x == Linked(t)
      d == Deps(x)
      undeferred == rec[x].kind.if0
      f == [Frame(Cur(t), CASE d.drop # <<>>               -> "unref"
                            [] d.drop = <<>> /\ undeferred -> "wait"
                            [] OTHER                       -> "body")
              EXCEPT !.drop = d.drop, !.ctr = IF undeferred THEN <<"npred", x>> ELSE <<>>]
      ready == ~ undeferred /\ d.pred = {}
  IN /\ pc(t) = "link" /\ tm = Free
     /\ Tracked(x) \/ rec[x].kind.high
     /\ rec' = [rec EXCEPT ![x].pred = d.pred, ![x].refs = @ + d.add,
                           ![Cur(t)].writer = d.writer, ![Cur(t)].readers = d.readers]
     /\ PushLocked(t, IF ready THEN {x} ELSE {}, WithTop(t, f))
     /\ UNCHANGED <<grp, base, live, nwait, watch, idleVars, barVars, spurious>>

\* __cccc_task_wake_idle after the push.
SpawnWake(t) ==
  /\ pc(t) = "wake"
  /\ \/ /\ sleepers = 0
        /\ Goto(t, "body")
     \/ /\ sleepers # 0 /\ tm = Free
        /\ \E ts \in Signalled(1) : stack' = Rouse(WithTop(t, Frame(Cur(t), "body")), ts, "roused")
  /\ UNCHANGED <<rec, grp, qVars, live, sync>>
-----------------------------------------------------------------------------
(* __cccc_omp_taskwait, the taskgroups and __cccc_task_wait.                 *)
WaitFor(t, c) == SetTop(t, [Frame(Cur(t), "wait") EXCEPT !.ctr = c])

TaskWait(t) ==
  /\ pc(t) = "body"
  /\ rec[Cur(t)].children > 0
  /\ WaitFor(t, <<"children", Cur(t)>>)
  /\ UNCHANGED <<rec, grp, qVars, live, sync>>

GroupBegin(t) ==
  /\ Active(t) /\ ~ GroupOpened /\ \E k \in NextKinds : k.grouped
  /\ \E g \in Groups :
       /\ \A h \in Groups : grp[h].st = "none" <=> h >= g   \* the next unused one
       /\ grp' = [grp EXCEPT ![g] = [st |-> "open", parent |-> rec[Cur(t)].group,
                                     count |-> 0, owner |-> Cur(t)]]
       /\ rec' = [rec EXCEPT ![Cur(t)].group = g]
  /\ UNCHANGED <<stack, qVars, live, sync>>

GroupWait(t) ==
  /\ pc(t) = "body"
  /\ OpenGroup(Cur(t))
  /\ WaitFor(t, <<"group", rec[Cur(t)].group>>)
  /\ UNCHANGED <<rec, grp, qVars, live, sync>>

\* The counter is zero: the group is freed, the undeferred task runs, or the
\* thread goes on after the taskwait or after the body of a task run in place.
GroupEnd(t) ==
  /\ Waits(t, "group") /\ Counter(Top(t).ctr) = 0
  /\ LET g == Top(t).ctr[2]
     IN /\ rec' = [rec EXCEPT ![Cur(t)].group = grp[g].parent]
        /\ grp' = [grp EXCEPT ![g].st = "freed"]
  /\ SetTop(t, Frame(Cur(t), "body"))
  /\ UNCHANGED <<qVars, live, sync>>

WaitOver(t) ==
  /\ Waits(t, "children") /\ Counter(Top(t).ctr) = 0
  /\ SetTop(t, Frame(Cur(t), IF rec[Cur(t)].st = "over" THEN "refs" ELSE "body"))
  /\ UNCHANGED <<rec, grp, qVars, live, sync>>

\* __cccc_task_run: thread t starts task x on top of frame f.
Run(t, x, f) ==
  /\ rec' = [rec EXCEPT ![x].st = "run", ![x].mark = base'[t] + Len(dq'[t])]
  /\ stack' = [stack EXCEPT ![t] = Append(Append(Front(@), f), Frame(x, "body"))]

WaitRun(t) ==
  /\ Waits(t, "npred") /\ Counter(Top(t).ctr) = 0
  /\ UNCHANGED qVars
  /\ Run(t, Top(t).ctr[2], Frame(Cur(t), "body"))
  /\ UNCHANGED <<grp, live, sync>>

\* It is not: the thread runs its own tasks above the mark of the current one,
\* then the oldest priority task that is a child of that task or in the group.
\* (The counter, read before, may be zero by now; the task is then one it could
\* have taken before, so the two reads are one step.)
AboveMarkAny(t) == dq[t] # <<>>  \* mutant: the waiter takes any task it owns
AboveMark(t) == Bottom(t) - 1 >= rec[Cur(t)].mark /\ dq[t] # <<>>

HighMatch(t) ==
  {i \in DOMAIN hq : \/ rec[hq[i]].parent = Cur(t)
                     \/ Top(t).ctr[1] = "group" /\ rec[hq[i]].group = Top(t).ctr[2]}

MustWait(t) == pc(t) = "wait" /\ Counter(Top(t).ctr) > 0

LookOwn(t) ==
  /\ MustWait(t) /\ AboveMark(t)
  /\ dq' = [dq EXCEPT ![t] = Front(@)] /\ UNCHANGED <<base, hq>>
  /\ Run(t, Last(dq[t]), Top(t))
  /\ UNCHANGED <<grp, live, sync>>

LookHigh(t) ==
  /\ MustWait(t) /\ ~ AboveMark(t) /\ tm = Free
  /\ HighMatch(t) # {}
  /\ LET i == Min(HighMatch(t))
     IN /\ hq' = RemoveAt(hq, i) /\ UNCHANGED <<dq, base>>
        /\ Run(t, hq[i], Top(t))
  /\ UNCHANGED <<grp, live, sync>>

\* Nothing to run: the waiter announces itself and names its counter (nwait,
\* watch), and only then reads the counter again.
LookNothing(t) ==
  /\ MustWait(t) /\ ~ AboveMark(t) /\ HighMatch(t) = {}
  /\ hq # <<>> => tm = Free
  /\ Goto(t, "watch")
  /\ UNCHANGED <<rec, grp, qVars, live, sync>>

WaitWatch(t) ==
  /\ pc(t) = "watch"
  /\ nwait' = nwait + 1
  /\ watch' = [watch EXCEPT ![t] = Top(t).ctr]
  /\ Goto(t, "check")
  /\ UNCHANGED <<rec, grp, qVars, live, kick, idleVars, barVars, spurious>>

Unwatch(t) ==
  /\ watch' = [watch EXCEPT ![t] = <<>>]
  /\ kick' = [kick EXCEPT ![t] = FALSE]
  /\ nwait' = nwait - 1
  /\ Goto(t, "wait")

MustSleepBlind(t) == ~ kick[t]  \* mutant: the counter is not read again
MustSleep(t) == Counter(Top(t).ctr) > 0 /\ ~ kick[t]

WaitCheck(t) ==
  /\ pc(t) = "check"
  /\ \/ MustSleep(t) /\ Goto(t, "asleep") /\ UNCHANGED waitVars
     \/ ~ MustSleep(t) /\ Unwatch(t)
  /\ UNCHANGED <<rec, grp, qVars, live, idleVars, barVars, spurious>>

WaitWoken(t) ==
  /\ pc(t) = "woken"
  /\ Unwatch(t)
  /\ UNCHANGED <<rec, grp, qVars, live, idleVars, barVars, spurious>>
-----------------------------------------------------------------------------
(* The end of a task.  One that ran in place waits for its children and for *)
(* the last of them to drop its reference (__cccc_task_finish).             *)
Ends(t) == pc(t) = "body" /\ Len(stack[t]) > 1 /\ ~ OpenGroup(Cur(t))

EndInPlace(t) ==
  /\ Ends(t) /\ rec[Cur(t)].inplace
  /\ \/ /\ rec[Cur(t)].kids
        /\ rec' = [rec EXCEPT ![Cur(t)].st = "over"]
        /\ WaitFor(t, <<"children", Cur(t)>>)
     \/ /\ ~ rec[Cur(t)].kids
        /\ rec' = [rec EXCEPT ![Cur(t)].st = "freed"]
        /\ Pop(t)
  /\ UNCHANGED <<grp, qVars, live, sync>>

SettledEarly(x) == TRUE  \* mutant: the record goes while a child still uses it
Settled(x) == rec[x].refs = 0

\* __cccc_task_free_deps for the record of a frame that is about to go.
Leaving(t) ==
  /\ rec' = [rec EXCEPT ![Cur(t)] = [FreeDeps(@) EXCEPT !.st = "over"]]
  /\ SetTop(t, [Frame(Cur(t), IF DepRefs(rec[Cur(t)]) = <<>> THEN "leave" ELSE "unref")
                  EXCEPT !.drop = DepRefs(rec[Cur(t)])])

FinishRefs(t) ==
  /\ pc(t) = "refs"
  /\ Settled(Cur(t))
  /\ Leaving(t)
  /\ UNCHANGED <<grp, qVars, live, sync>>

Leave(t) ==
  /\ pc(t) = "leave"
  /\ rec' = [rec EXCEPT ![Cur(t)].st = "freed"]
  /\ IF Len(stack[t]) = 1 THEN Goto(t, "out") ELSE Pop(t)
  /\ UNCHANGED <<grp, qVars, live, sync>>

(* __cccc_task_complete.  A task with dependences first releases, under tm,  *)
(* the tasks that waited for it.                                            *)
ToNotify(f, cs, next) ==
  [f EXCEPT !.pc = IF cs = <<>> THEN next ELSE "notify", !.tell = cs, !.next = next]

Complete(t) ==
  LET x == Cur(t)
      ready == {y \in Tasks : rec[y].pred = {x}}
      here  == {y \in ready : rec[y].kind.if0}
  IN /\ Ends(t) /\ Tracked(x) /\ ~ rec[x].inplace /\ tm = Free
     /\ rec' = [y \in Recs |->
                  IF y = x THEN [rec[y] EXCEPT !.done = TRUE, !.st = "over"]
                  ELSE [rec[y] EXCEPT !.pred = @ \ {x}]]
     /\ \E ys \in InOrder(here) :
          PushLocked(t, ready \ here, WithTop(t,
            ToNotify(Frame(x, ""), [i \in DOMAIN ys |-> <<"npred", ys[i]>>], "children")))
     /\ tm' = IF here = {} THEN Free ELSE t
     /\ UNCHANGED <<grp, base, live, nwait, watch, sleepers, barVars, spurious>>

\* __cccc_task_notify: the counter has changed before nwait and watch are read.
\* A slot is signalled under its mutex.
Notify(t) ==
  /\ pc(t) = "notify"
  /\ LET f  == ToNotify(Top(t), Tail(Top(t).tell), Top(t).next)
         ws == {s \in Threads : nwait # 0 /\ watch[s] = Head(Top(t).tell)}
     IN /\ \A s \in ws : pc(s) # "check"
        /\ stack' = Rouse(WithTop(t, f), ws \cap OnSlot, "woken")
        /\ tm' = IF tm = t /\ f.tell = <<>> THEN Free ELSE tm
  /\ UNCHANGED <<rec, grp, qVars, live, waitVars, sleepers, barVars, spurious>>

\* Then the counts of its parent and of its group, its reference on the parent
\* and its own, and the count of the team go down, in that order.
DroppedParent(x) == <<rec[x].parent>>  \* mutant: the task's own reference stays
DroppedTwice(x) == <<rec[x].parent, rec[x].parent, x>>  \* mutant: once too often
Dropped(x) == <<rec[x].parent, x>>

ChildDone(t) ==
  /\ \/ pc(t) = "children"
     \/ Ends(t) /\ ~ Tracked(Cur(t)) /\ ~ rec[Cur(t)].inplace
  /\ LET x == Cur(t)
         p == rec[x].parent
     IN /\ rec' = [rec EXCEPT ![p].children = @ - 1, ![x].st = "over"]
        /\ SetTop(t, ToNotify([Frame(x, "") EXCEPT !.drop = Dropped(x)],
                              IF rec[p].children = 1 THEN <<<<"children", p>>>> ELSE <<>>,
                              IF rec[x].group = None THEN "unref" ELSE "group"))
  /\ UNCHANGED <<grp, qVars, live, sync>>

GroupDone(t) ==
  /\ pc(t) = "group"
  /\ LET g == rec[Cur(t)].group
     IN /\ grp' = [grp EXCEPT ![g].count = @ - 1]
        /\ SetTop(t, ToNotify(Top(t), IF grp[g].count = 1 THEN <<<<"group", g>>>> ELSE <<>>,
                              "unref"))
  /\ UNCHANGED <<rec, qVars, live, sync>>

\* __cccc_task_unref: the last reference frees the record and drops the
\* references of its dependence entries.
AfterUnref(f) ==
  CASE rec[f.tk].st = "run" -> IF f.ctr = <<>> THEN "body" ELSE "wait"
    [] rec[f.tk].st # "run" -> IF Static(f.tk) THEN "leave" ELSE "live"

Unref(t) ==
  /\ pc(t) = "unref"
  /\ LET x    == Head(Top(t).drop)
         last == rec[x].refs = 1 /\ ~ Static(x)
         more == Tail(Top(t).drop) \o (IF last THEN DepRefs(rec[x]) ELSE <<>>)
     IN /\ rec' = [rec EXCEPT ![x] =
             IF last THEN [FreeDeps(@) EXCEPT !.refs = 0, !.st = "freed"]
             ELSE [rec[x] EXCEPT !.refs = @ - 1]]
        /\ SetTop(t, [Top(t) EXCEPT !.drop = more,
                                    !.pc = IF more = <<>> THEN AfterUnref(Top(t)) ELSE @])
  /\ UNCHANGED <<grp, qVars, live, sync>>

\* The last task wakes everybody on tc.
LiveDown(t) ==
  /\ pc(t) = "live"
  /\ live' = live - 1
  /\ \/ live > 1 /\ Pop(t)
     \/ live = 1 /\ Goto(t, "wakeall")
  /\ UNCHANGED <<rec, grp, qVars, sync>>

WakeAll(t) ==
  /\ pc(t) = "wakeall"
  /\ \/ sleepers = 0 /\ Pop(t)
     \/ /\ sleepers # 0 /\ tm = Free
        /\ stack' = Rouse([stack EXCEPT ![t] = Front(@)], OnTc, "roused")
  /\ UNCHANGED <<rec, grp, qVars, live, sync>>
-----------------------------------------------------------------------------
(* __cccc_omp_barrier, with tm held: arr threads have arrived.              *)
QuietEarly(arr) == arr = Cardinality(Threads)  \* mutant: tasks are not waited for
Quiet(arr) == arr = Cardinality(Threads) /\ live = 0

Pass(t) ==
  /\ passed' = [passed EXCEPT ![t] = @ + 1]
  /\ rec' = [rec EXCEPT ![t].epoch = passed[t] + 1]

\* The last thread opens the next generation, the others leave once it has
\* changed; until then a thread looks for tasks.
BarrierTest(t, arr, mygen) ==
  /\ \/ /\ Quiet(arr)
        /\ barrived' = 0 /\ bgen' = bgen + 1
        /\ stack' = Rouse(WithTop(t, Frame(t, "body")), OnTc, "roused")
        /\ Pass(t)
     \/ /\ ~ Quiet(arr) /\ mygen # bgen
        /\ barrived' = arr /\ UNCHANGED bgen
        /\ SetTop(t, Frame(t, "body"))
        /\ Pass(t)
     \/ /\ ~ Quiet(arr) /\ mygen = bgen
        /\ barrived' = arr
        /\ SetTop(t, Frame(t, "find"))
        /\ UNCHANGED <<bgen, passed, rec>>
  /\ tm' = Free

BodyOver(t)  == pc(t) = "body" /\ Len(stack[t]) = 1 /\ ~ OpenGroup(t)
AtBarrier(t) == passed[t] < Barriers

BarrierArrive(t) ==
  /\ BodyOver(t) /\ AtBarrier(t) /\ tm = Free
  /\ gen' = [gen EXCEPT ![t] = bgen]
  /\ BarrierTest(t, barrived + 1, bgen)
  /\ UNCHANGED <<grp, qVars, live, waitVars, sleepers, spurious>>

BarrierRetest(t) ==
  /\ pc(t) = "retest" /\ tm = Free
  /\ BarrierTest(t, barrived, gen[t])
  /\ UNCHANGED <<grp, qVars, live, waitVars, sleepers, gen, spurious>>

(* __cccc_omp_task_drain: the end of the region.                            *)
DrainTest(t) ==
  /\ pc(t) = "drain" \/ (BodyOver(t) /\ ~ AtBarrier(t))
  /\ \/ live # 0 /\ Goto(t, "find") /\ UNCHANGED rec
     \/ live = 0 /\ Leaving(t)
  /\ UNCHANGED <<grp, qVars, live, sync>>

(* __cccc_task_find, by a thread at the barrier or at the end of the region. *)
(* The number of priority tasks is read first and may be out of date by the  *)
(* time the deques are looked at; the scan of the deques is one step.        *)
Idle(t) == Frame(t, IF AtBarrier(t) THEN "retest" ELSE "drain")

FindHigh(t) ==
  /\ pc(t) = "find" /\ hq # <<>> /\ tm = Free
  /\ hq' = Tail(hq) /\ UNCHANGED <<dq, base>>
  /\ Run(t, Head(hq), Idle(t))
  /\ UNCHANGED <<grp, live, sync>>

FindOwn(t) ==
  /\ pc(t) = "find" /\ dq[t] # <<>>
  /\ dq' = [dq EXCEPT ![t] = Front(@)] /\ UNCHANGED <<base, hq>>
  /\ Run(t, Last(dq[t]), Idle(t))
  /\ UNCHANGED <<grp, live, sync>>

FindSteal(t, v) ==
  /\ pc(t) = "find" /\ dq[t] = <<>>
  /\ v # t /\ dq[v] # <<>>
  /\ dq' = [dq EXCEPT ![v] = Tail(@)]
  /\ base' = [base EXCEPT ![v] = @ + 1]
  /\ UNCHANGED hq
  /\ Run(t, Head(dq[v]), Idle(t))
  /\ UNCHANGED <<grp, live, sync>>

\* __cccc_task_any
AnyTask == hq # <<>> \/ \E v \in Threads : dq[v] # <<>>

\* Nothing found: with tm held, the thread announces itself in sleepers and
\* looks once more before it sleeps on tc.
FindNothing(t) ==
  /\ pc(t) = "find" /\ ~ AnyTask
  /\ Goto(t, "announce")
  /\ UNCHANGED <<rec, grp, qVars, live, sync>>

Announce(t) ==
  /\ pc(t) = "announce" /\ tm = Free
  /\ tm' = t
  /\ sleepers' = sleepers + 1
  /\ Goto(t, "doze")
  /\ UNCHANGED <<rec, grp, qVars, live, waitVars, barVars, spurious>>

NoReason(t) ==
  /\ IF AtBarrier(t) THEN gen[t] = bgen /\ ~ Quiet(barrived) ELSE live # 0
  /\ ~ AnyTask

GetUp(t) ==
  /\ sleepers' = sleepers - 1
  /\ \/ AtBarrier(t) /\ BarrierTest(t, barrived, gen[t])
     \/ /\ ~ AtBarrier(t)
        /\ Goto(t, "drain") /\ tm' = Free
        /\ UNCHANGED <<rec, barrived, bgen, passed>>

Doze(t) ==
  /\ pc(t) = "doze"
  /\ \/ /\ NoReason(t)
        /\ Goto(t, "idle") /\ tm' = Free
        /\ UNCHANGED <<rec, sleepers, barrived, bgen, passed>>
     \/ ~ NoReason(t) /\ GetUp(t)
  /\ UNCHANGED <<grp, qVars, live, waitVars, gen, spurious>>

Roused(t) ==
  /\ pc(t) = "roused" /\ tm = Free
  /\ GetUp(t)
  /\ UNCHANGED <<grp, qVars, live, waitVars, gen, spurious>>

\* pthread_cond_wait may return for no reason.
SpuriousWake(t) ==
  /\ spurious < MaxSpurious
  /\ spurious' = spurious + 1
  /\ \/ pc(t) = "asleep" /\ Goto(t, "woken")
     \/ pc(t) = "idle" /\ Goto(t, "roused")
  /\ UNCHANGED <<rec, grp, qVars, live, waitVars, idleVars, barVars>>
-----------------------------------------------------------------------------
Spawn(t) ==
  \/ \E k \in NextKinds : SpawnInPlace(t, k) \/ SpawnCount(t, k)
  \/ SpawnPush(t) \/ SpawnLink(t) \/ SpawnWake(t)

Waiting(t) ==
  \/ TaskWait(t) \/ GroupBegin(t) \/ GroupWait(t)
  \/ GroupEnd(t) \/ WaitOver(t) \/ WaitRun(t)
  \/ LookOwn(t) \/ LookHigh(t) \/ LookNothing(t)
  \/ WaitWatch(t) \/ WaitCheck(t) \/ WaitWoken(t)

Completion(t) ==
  \/ EndInPlace(t) \/ FinishRefs(t) \/ Leave(t) \/ Complete(t) \/ Notify(t)
  \/ ChildDone(t) \/ GroupDone(t) \/ Unref(t) \/ LiveDown(t) \/ WakeAll(t)

IdleStep(t) ==
  \/ BarrierArrive(t) \/ BarrierRetest(t) \/ DrainTest(t)
  \/ FindHigh(t) \/ FindOwn(t) \/ \E v \in Threads : FindSteal(t, v)
  \/ FindNothing(t) \/ Announce(t) \/ Doze(t) \/ Roused(t)

Step(t) == Spawn(t) \/ Waiting(t) \/ Completion(t) \/ IdleStep(t)

Next == \E t \in Threads : Step(t) \/ SpuriousWake(t)

\* While a thread can run, one does; task bodies are finite.  No thread loops
\* while it waits for another except at the end of __cccc_task_finish, where the
\* loop is a guard (FinishRefs), so no fairness between threads is needed.
Spec == Init /\ [][Next]_vars /\ WF_vars(\E t \in Threads : Step(t))
-----------------------------------------------------------------------------
(* Properties.                                                             *)

\* Counters, the lists and the stacks stay in range; no reference count and no
\* counter a thread waits for (children, npred, count, live) goes below zero.
TypeOK ==
  /\ \A x \in Recs : /\ rec[x].st \in {"none", "wait", "run", "over", "freed"}
                     /\ rec[x].children \in Nat /\ rec[x].refs \in Nat
                     /\ rec[x].pred \subseteq Tasks
  /\ \A g \in Groups : grp[g].count \in Nat
  /\ \A t \in Threads : /\ stack[t] # <<>> /\ stack[t][1].tk = t
                        /\ dq[t] \in Seq(Tasks)
                        /\ passed[t] \in 0 .. Barriers
  /\ hq \in Seq(Tasks)
  /\ live \in 0 .. MaxTasks
  /\ nwait \in 0 .. Cardinality(Threads) /\ sleepers \in 0 .. Cardinality(Threads)
  /\ barrived \in 0 .. Cardinality(Threads)
  /\ tm \in Threads \cup {Free}

Frames(t) == ToSet(stack[t])
Over(x)   == rec[x].st \in {"over", "freed"}

\* The records and groups some thread will still read: the task of a frame
\* until its own reference is dropped, its parent until then, what is queued or
\* waits in the graph, what a dependence entry names, the group until counted.
Held(f) ==
  /\ f.pc \notin {"live", "wakeall", "out"}
  /\ f.pc = "unref" /\ AfterUnref(f) = "live" => Contains(f.drop, f.tk)
AllFrames == UNION {Frames(t) : t \in Threads}
InUse ==
  LET heldBy   == {f.tk : f \in {h \in AllFrames : Held(h)}}
      dropping == UNION {ToSet(f.drop) : f \in {h \in AllFrames : h.pc = "unref"}}
      graph    == UNION {ToSet(DepRefs(rec[x])) \cup rec[x].pred :
                           x \in {y \in Recs : rec[y].st # "freed"}}
      parents  == {rec[x].parent : x \in {y \in Tasks : rec[y].st \in {"wait", "run"}}
                                        \cup {f.tk : f \in {h \in AllFrames : Held(h) /\ h.pc # "unref"}}}
  IN (heldBy \cup dropping \cup graph \cup parents) \ {None}

\* No record and no taskgroup is freed while a thread, a queue, the dependence
\* graph or a running descendant still refers to it (unref, finish, free_deps,
\* taskgroup_end, the end of the region).
NoDangling ==
  /\ \A x \in InUse : rec[x].st # "freed"
  /\ \A x \in Tasks :
       (rec[x].st \in {"wait", "run"} /\ rec[x].group # None) => grp[rec[x].group].st = "open"

\* Tasks of one parent that name the address, one of them to write it, run in
\* the order they were created in (__cccc_task_deps, tasks.c:349-352).
DepsRespected ==
  \A x, y \in Tasks :
    (/\ y < x /\ Tracked(x) /\ Tracked(y)
     /\ rec[x].creator = rec[y].creator
     /\ Contains(rec[x].kind.dep, "out") \/ Contains(rec[y].kind.dep, "out")
     /\ rec[x].st \in {"run", "over", "freed"})
    => Over(y)

\* A thread past a barrier finds every task created before it over, and no
\* thread is two barriers ahead (__cccc_omp_barrier, tasks.c:657-658).
BarrierComplete ==
  \A t \in Threads :
    /\ \A x \in Tasks : (rec[x].st # "none" /\ rec[x].epoch < passed[t]) => Over(x)
    /\ \A s \in Threads : passed[t] <= passed[s] + 1

\* What every set has that holds x and, with a task, those of via it created: x,
\* and all that was created from it through tasks of via alone.
Offspring(x, via) ==
  {y \in Recs : \A S \in SUBSET Recs :
     (x \in S /\ \A z \in via : rec[z].creator \in S => z \in S) => y \in S}
Descendants(x) == Offspring(x, Tasks)

\* Tied waits: what a thread runs on top of an explicit task that waits is a
\* descendant of it (tasks.c:3-5; docs/openmp.md:290).
TiedWaits ==
  \A t \in Threads : \A i \in 2 .. Len(stack[t]) - 1 :
    stack[t][i + 1].tk \in Descendants(stack[t][i].tk)

\* x and the tasks between it and the owner of g were deferred.
DeferredTo(x, g) == x \in Offspring(grp[g].owner, {z \in Tasks : ~ rec[z].inplace})

\* The end of a taskgroup waits for the tasks created in it and for those their
\* deferred descendants create (inherited group, __cccc_omp_taskgroup_end).
GroupJoinedDeferred ==
  \A x \in Tasks : \A g \in Groups :
    (grp[g].st = "freed" /\ rec[x].st # "none" /\ rec[x].within = g /\ DeferredTo(x, g))
    => Over(x)

\* The end of a taskgroup waits for every task created in it and for all their
\* descendants, as the comment at tasks.c:602-603 and docs/openmp.md:64 say.
GroupJoined ==
  \A x \in Tasks : \A g \in Groups :
    (grp[g].st = "freed" /\ rec[x].st # "none" /\ rec[x].within = g) => Over(x)

Out(t) == pc(t) = "out"

\* Once every thread has left the region, no record, no queued task and no
\* count is left behind (references: task, child, dependence entry).
NothingLeft ==
  (\A t \in Threads : Out(t)) =>
    /\ \A x \in Recs : rec[x].st \in {"none", "freed"}
    /\ live = 0 /\ nwait = 0 /\ sleepers = 0 /\ hq = <<>>
    /\ \A t \in Threads : dq[t] = <<>>

\* Every wait ends: no wake-up of a tied waiter, of a thread at the barrier or
\* of one at the end of the region is lost, so the region is left by all.
RegionEnds == <>(\A t \in Threads : Out(t))
=============================================================================
