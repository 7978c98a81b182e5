---------------------------- MODULE OmpTasksSteps ----------------------------
(***************************************************************************)
(* The steps of OmpTasks that keep its invariant: the end of a task and of  *)
(* the region, references, taskgroups, spawning, queueing and completion.   *)
(***************************************************************************)
EXTENDS OmpTasksInv

-----------------------------------------------------------------------------
(* A thread that stays inside its innermost task.                           *)
\* What the new innermost frame must be.
LEMMA ToppedOK ==
  ASSUME TasksInv, NEW t \in Threads, NEW g \in FrameT, Topped(t, g), NEW x, x = Cur(t), g.tk = x,
         NEW e, Undisturbed(t, e), g.pc \in IdlePcs \cup {"out"} => Len(stack[t]) = 1,
         Deferred(x) => Deferred(x)', Fate(Top(t))', Counts(Top(t))', Drops(Top(t))'
  PROVE  StacksOK'
  <1>1. Shape /\ StacksOK /\ RecsOK /\ GroupsOK
    BY CurIs
  <1>2. PICK n \in Nat : n = Len(stack[t]) /\ n # 0
    BY <1>1, TopIs
  <1>3. stack'[t][n] = g /\ Len(stack'[t]) = n /\ Top(t)' = g /\ Top(t) = stack[t][n] /\ FrameOK(t, n)
    BY <1>1, <1>2, TopAfter, TopIs DEF Topped
  <1>4. Placed(t, n)'
    <2>1. IF n = 1 THEN g.tk = t ELSE g.tk \in Tasks /\ g.pc \notin IdlePcs \cup {"out"}
      <3>1. CASE n = 1
        BY <1>2, <3>1, CurIs
      <3>2. CASE n # 1
        <4>1. Len(stack[t]) # 1
          BY <1>2, <3>2
        <4> QED
          BY <3>2, <4>1, CurIs
      <3> QED
        BY <3>1, <3>2
    <2>2. ASSUME n = 2, stack'[t][1].pc \in IdlePcs
          PROVE  Deferred(g.tk)'
      <3>1. stack'[t][1] = stack[t][1]
        BY <1>2, <2>2 DEF Topped, Below
      <3>2. Deferred(stack[t][n].tk)
        BY <1>3, <2>2, <3>1 DEF FrameOK, Placed
      <3>3. Deferred(x)
        BY <1>3, <3>2 DEF Cur
      <3>4. Deferred(x)'
        BY <3>3
      <3> QED
        BY <1>3, <3>4 DEF Deferred, Topped, Below
    <2>3. Deferred(stack[t][n].tk)' <=> Deferred(g.tk)'
      BY <1>3 DEF Deferred
    <2> QED
      BY <1>3, <2>1, <2>2, <2>3 DEF Placed
  <1>5. Fate(stack[t][n])' /\ Counts(stack[t][n])' /\ Drops(stack[t][n])'
    <2>1. Top(t)' = stack'[t][n]
      BY <1>3
    <2> QED
      BY <2>1
  <1>6. FrameOK(t, n)'
    BY <1>4, <1>5 DEF FrameOK
  <1> QED
    BY <1>1, <1>2, <1>6, ToppedStacks
\* A task is the innermost one of one thread only.
LEMMA Alone ==
  ASSUME Shape, StacksOK, NEW t \in Threads, NEW s \in Threads, Cur(s) = Cur(t)
  PROVE  s = t
  <1>1. /\ Top(s) = stack[s][Len(stack[s])] /\ Len(stack[s]) \in DOMAIN stack[s]
        /\ Top(t) = stack[t][Len(stack[t])] /\ Len(stack[t]) \in DOMAIN stack[t]
    BY TopIs
  <1> QED
    BY <1>1 DEF StacksOK, Unique, Cur

\* It is inside no other frame.
LEMMA AloneOn ==
  ASSUME Shape, StacksOK, NEW t \in Threads, NEW s \in Threads, NEW i \in DOMAIN stack[s], Old(t, s, i)
  PROVE  stack[s][i].tk # Cur(t)
  <1>1. Top(t) = stack[t][Len(stack[t])] /\ Len(stack[t]) \in DOMAIN stack[t] /\ Len(stack[t]) \in Nat
    BY TopIs
  <1>2. ~ (s = t /\ i = Len(stack[t]))
    BY <1>1 DEF Old
  <1> QED
    BY <1>1, <1>2 DEF StacksOK, Unique, Cur

\* After the step, too.
LEMMA AloneAfter ==
  ASSUME Shape, StacksOK, NEW t \in Threads, Below(t), NEW s \in Threads, Cur(s)' = Cur(t)
  PROVE  s = t
  <1> SUFFICES ASSUME s # t PROVE FALSE
    OBVIOUS
  <1>1. Cur(s)' = Cur(s)
    BY OtherTops
  <1> QED
    BY <1>1, Alone

LEMMA Deeper ==
  ASSUME Shape, StacksOK, NEW t \in Threads, Len(stack[t]) # 1
  PROVE  Len(stack[t]) > 1
  <1>1. PICK n \in Nat : n = Len(stack[t]) /\ n # 0
    BY TopIs
  <1>2. n # 1
    BY <1>1
  <1>3. \A m \in Nat : m # 0 /\ m # 1 => m > 1
    OBVIOUS
  <1> QED
    BY <1>1, <1>2, <1>3

LEMMA GotoStep ==
  ASSUME Shape, StacksOK, NEW t \in Threads, NEW p \in Pcs, Goto(t, p)
  PROVE  \E g \in FrameT : /\ Topped(t, g) /\ g.tk = Cur(t) /\ g.pc = p
                           /\ g.ctr = Top(t).ctr /\ g.drop = Top(t).drop
  <1> DEFINE g == [Top(t) EXCEPT !.pc = p]
  <1>1. Top(t) \in FrameT
    BY TopIs
  <1>2. /\ g \in FrameT /\ g.tk = Cur(t) /\ g.pc = p /\ g.ctr = Top(t).ctr /\ g.drop = Top(t).drop
    BY <1>1, GotoIs DEF Cur
  <1>3. SetTop(t, g)
    BY DEF Goto
  <1> HIDE DEF g
  <1> QED
    BY <1>2, <1>3, SetTopStep
\* Thread t sleeps neither before nor after the step.
LEMMA AwakeStep ==
  ASSUME Shape, StacksOK, SleepOK, NEW t \in Threads, Below(t),
         pc(t) \notin SlotPcs \cup TcPcs, pc(t)' \notin SlotPcs \cup TcPcs,
         nwait' = nwait, sleepers' = sleepers
  PROVE  SleepOK'
  BY SleepMoves DEF Naps, Moved
-----------------------------------------------------------------------------
(* A thread leaves its innermost task.                                      *)
\* The records of a task that is left: it keeps its counts and is over.
Quits(x) ==
  /\ rec' \in [Recs -> RecT] /\ (\A y \in Recs \ {x} : rec'[y] = rec[y])
  /\ SameId(rec[x], rec'[x]) /\ SameDeps(rec[x], rec'[x]) /\ SameNums(rec[x], rec'[x])
  /\ rec'[x].done = rec[x].done
  /\ \/ rec'[x].st = rec[x].st /\ Deferred(x) /\ rec[x].st \in {"over", "freed"}
     \/ /\ rec'[x].st = "freed" /\ Static(x) /\ rec[x].refs = 0 /\ DepRefs(rec[x]) = <<>>
        /\ rec[x].st = "over" \/ (rec[x].st = "run" /\ ~ OpenGroup(x))

LEMMA QuitsRecs ==
  ASSUME TasksInv, NEW t \in Threads, Below(t), NEW x \in Recs, x = Cur(t), Quits(x),
         \A y \in Recs : OnStack(y) /\ y # x => OnStack(y)',
         pc(t)' \notin {"link", "unref", "leave"}, dq' = dq, hq' = hq
  PROVE  RecsOK' /\ Lasts /\ QueuesOK'
  <1>1. Shape /\ StacksOK /\ RecsOK /\ QueuesOK /\ CountsOK /\ GroupsOK /\ BarrierOK
    BY CurIs
  <1>2. /\ rec' \in [Recs -> RecT] /\ (\A y \in Recs : y # x => rec'[y] = rec[y]) /\ Ident(x)
        /\ rec[x].st \in {"run", "over", "freed"} /\ rec'[x].st \in {"over", "freed"}
        /\ rec'[x].done = rec[x].done /\ rec[x] \in RecT /\ rec'[x].pred = rec[x].pred
        /\ rec'[x].refs = rec[x].refs /\ rec'[x].kids = rec[x].kids
        /\ DepRefs(rec'[x]) = DepRefs(rec[x])
    BY <1>1, SameIs DEF Quits, SameDeps, SameNums, DepRefs, Shape
  <1>3. Lasts
    BY <1>2 DEF Lasts, Ident
  <1>4. NewLinks
    <2>1. \A s \in Threads : s # t => ((pc(s)' = "link") <=> (pc(s) = "link")) /\ Linked(s)' = Linked(s)
      BY <1>1, OtherMarks, OtherTops DEF Linked
    <2> QED
      BY <2>1 DEF NewLinks
  <1>5. \A y : Queued(y)' <=> Queued(y)
    BY DEF Queued
  <1>6. \A y \in Recs : rec'[y].done = rec[y].done /\ rec'[y].pred = rec[y].pred
    BY <1>2
  <1>7. ASSUME NEW y \in Recs, y # x
        PROVE  RecOK(y)' /\ Gone(y)'
    <2>1. rec'[y] = rec[y] /\ rec[y].pred \subseteq Tasks
      BY <1>1, <1>2, <1>7 DEF Shape, RecT
    <2>2. Alike(y)
      BY <1>5, <1>6, <1>7, <2>1, NoneFree DEF Alike
    <2> QED
      BY <1>1, <1>3, <1>4, <2>1, <2>2, RecKept, GoneKept
  <1>8. RecOK(x)'
    <2>1. Born(x) /\ Waits4(x) /\ Entry(x)
      BY <1>1 DEF RecsOK
    <2>2. Born(x)'
      <3>1. x \in Threads => rec[x].pred = {}
        BY <2>1 DEF Born
      <3>2. x \in Tasks => ~ (rec'[x].st = "run" \/ (rec'[x].inplace /\ rec'[x].st = "over"))
        BY <1>2 DEF Quits, SameId, Deferred
      <3>3. Deferred(x) /\ Tracked(x) => (rec'[x].done <=> Over(x)')
        <4>1. Deferred(x) => x \in Tasks /\ x \notin Threads /\ rec[x].st # "none" /\ ~ Static(x)
          BY NoneFree DEF Deferred, Static
        <4>2. Deferred(x) => rec'[x].st = rec[x].st
          BY <4>1 DEF Quits
        <4>3. Deferred(x) /\ Tracked(x) => (rec[x].done <=> Over(x))
          BY <2>1, <4>1 DEF Born
        <4> QED
          BY <1>2, <4>2, <4>3 DEF Over
      <3> QED
        BY <1>2, <1>3, <2>1, <3>1, <3>2, <3>3, BornKept
    <2>3. Waits4(x)'
      <3>1. rec[x].pred = {}
        BY <1>2, <2>1 DEF Waits4
      <3> QED
        BY <1>2, <3>1 DEF Waits4
    <2>4. Entry(x)'
      BY <1>2, <1>3, <1>4, <2>1, EntryKept
    <2> QED
      BY <2>2, <2>3, <2>4 DEF RecOK
  <1>9. Gone(x)'
    <2>1. Gone(x)
      BY <1>1 DEF RecsOK
    <2>2. CASE rec'[x].st = rec[x].st /\ Deferred(x)
      <3>1. x \notin Threads /\ ~ rec[x].inplace /\ x \in Tasks /\ rec[x].st # "none" /\ ~ rec'[x].inplace
        BY <1>2, <2>2, NoneFree DEF Deferred, Ident
      <3>2. ~ Static(x)'
        BY <3>1 DEF Static
      <3> QED
        BY <1>2, <2>1, <2>2, <3>1, <3>2 DEF Gone, Deferred
    <2>3. CASE rec'[x].st = "freed" /\ rec[x].refs = 0 /\ DepRefs(rec[x]) = <<>>
      BY <1>2, <2>3 DEF Gone
    <2> QED
      BY <2>2, <2>3 DEF Quits
  <1>10. QueuesOK'
    <2>1. \A y \in Tasks : Queued(y) => rec'[y] = rec[y]
      <3>1. \A y \in Tasks : Queued(y) => rec[y].st = "wait"
        BY <1>1 DEF QueuesOK
      <3> QED
        BY <1>2, <3>1, NoneFree
    <2>2. \A y \in Tasks : Queued(y)' => rec'[y].st = "wait" /\ rec'[y].pred = {} /\ ~ rec'[y].kind.if0
      BY <1>1, <1>5, <2>1 DEF QueuesOK
    <2> QED
      BY <1>1, <2>2 DEF QueuesOK
  <1> QED
    BY <1>3, <1>7, <1>8, <1>9, <1>10 DEF RecsOK, RecOK

LEMMA QuitsCounts ==
  ASSUME TasksInv, NEW t \in Threads, Below(t), stack'[t] # <<>>, NEW x \in Recs, x = Cur(t), Quits(x),
         Top(t).drop = <<>>, Top(t)'.drop = <<>>,
         ~ Ending(Top(t)), ~ InGroup(Top(t)), ~ Ending(Top(t))', ~ InGroup(Top(t))'
  PROVE  /\ Fixed /\ ChildrenOK' /\ RefsOK'
         /\ \A y \in Tasks : GroupPending(y)' <=> GroupPending(y)
  <1>1. Shape /\ StacksOK /\ RecsOK /\ CountsOK
    BY CurIs
  <1>2. Fixed
    <2>1. \A y \in Recs : y # x => rec'[y] = rec[y]
      BY DEF Quits
    <2>2. rec'[x].children = rec[x].children /\ rec'[x].inplace = rec[x].inplace /\ rec'[x].parent = rec[x].parent
      BY DEF Quits, SameId, SameNums
    <2>3. rec[x].st # "none" /\ rec'[x].st # "none"
      BY DEF Quits, Deferred
    <2>4. Deferred(x) => rec'[x].st = rec[x].st
      BY NoneFree DEF Quits, Deferred, Static
    <2> QED
      BY <2>1, <2>2, <2>3, <2>4 DEF Fixed, Deferred
  <1>3. (\A y \in Recs : Pending(y)' <=> Pending(y)) /\ ChildrenOK'
    BY <1>1, <1>2, PendingKept DEF CountsOK
  <1>4. \A y \in Tasks : GroupPending(y)' <=> GroupPending(y)
    BY <1>1, <1>2, GroupPendingKept
  <1>5. RefsOK'
    <2>1. \A y \in Recs : DepRefs(rec'[y]) = DepRefs(rec[y]) /\ rec'[y].refs = rec[y].refs /\ rec'[y].children = rec[y].children
      BY DEF DepRefs, SameDeps, SameNums, Quits
    <2>2. \A y \in Recs : Balanced(t, x, y)
      BY <1>3, <2>1 DEF Balanced
    <2>3. rec' \in [Recs -> RecT]
      BY DEF Quits
    <2> QED
      BY <1>1, <2>1, <2>2, <2>3, RefsMove DEF CountsOK
  <1> QED
    BY <1>2, <1>3, <1>4, <1>5

\* The step takes x off the count of the team, or leaves the count alone.
LEMMA LiveMoves ==
  ASSUME Shape, StacksOK, LiveOK, NEW t \in Threads, Below(t), NEW x \in Recs, x = Cur(t),
         \A y \in Recs : y # x => rec'[y] = rec[y],
         Deferred(Cur(t)') /\ Cur(t)' # x => rec[Cur(t)'].st \in {"wait", "run"},
         \/ live' = live /\ ~ Unsettled(x) /\ ~ Unsettled(x)'
         \/ live' = live /\ Unsettled(x) /\ Unsettled(x)'
         \/ live' = live - 1 /\ Unsettled(x) /\ ~ Unsettled(x)'
  PROVE  LiveOK'
  <1> DEFINE A == {y \in Tasks : Unsettled(y)}
             B == {y \in Tasks : Unsettled(y)'}
  <1>1. \A y \in Tasks : y # x => (Unsettled(y)' <=> Unsettled(y))
    <2> TAKE y \in Tasks
    <2> HAVE y # x
    <2>1. rec'[y] = rec[y]
      BY NoneFree
    <2>2. Deferred(y)' <=> Deferred(y)
      BY <2>1 DEF Deferred
    <2>3. Deferred(y) /\ rec[y].st \notin {"wait", "run"} => Cur(t)' # y /\ Cur(t) # y
      OBVIOUS
    <2> QED
      BY <2>1, <2>2, <2>3, UnsettledSame
  <1>2. \A y : y # x => (y \in A <=> y \in B)
    BY <1>1
  <1>3. IsFiniteSet(A)
    BY NoneFree, FS_Subset
  <1>4. Unsettled(x) => x \in A
    BY DEF Unsettled, Deferred
  <1>5. Unsettled(x)' => x \in B
    BY DEF Unsettled, Deferred
  <1>6. live = Cardinality(A) /\ (LiveOK' <=> live' = Cardinality(B))
    BY DEF LiveOK
  <1>7. x \in A => Unsettled(x)
    OBVIOUS
  <1>8. x \in B => Unsettled(x)'
    OBVIOUS
  <1> HIDE DEF A, B
  <1> QED
    BY <1>2, <1>3, <1>4, <1>5, <1>6, <1>7, <1>8, CountMoves

\* The frame below the innermost one.
LEMMA BelowIs ==
  ASSUME TasksInv, NEW t \in Threads, Len(stack[t]) > 1, NEW f, f = stack[t][Len(stack[t]) - 1]
  PROVE  /\ f \in FrameT /\ f.drop = <<>> /\ f.pc \in {"wait", "body", "retest", "drain"}
         /\ ~ Ending(f) /\ ~ InGroup(f) /\ (Deferred(f.tk) => rec[f.tk].st = "run")
         /\ f.pc \notin SlotPcs \cup TcPcs /\ f.tk # Cur(t) /\ f.tk \in Recs
  <1>1. Shape /\ StacksOK
    BY CurIs
  <1>2. PICK n \in Nat : n = Len(stack[t]) /\ DOMAIN stack[t] = 1 .. n
    BY <1>1, TopIs
  <1>3. n - 1 \in DOMAIN stack[t] /\ n - 1 < n /\ f = stack[t][n - 1]
    BY <1>2
  <1>4. FrameOK(t, n - 1) /\ stack[t][n - 1] \in FrameT
    BY <1>1, <1>3 DEF StacksOK, Shape
  <1>5. f.pc \in {"wait", "body", "retest", "drain"}
    BY <1>2, <1>3, <1>4 DEF FrameOK, Placed
  <1>6. f.drop = <<>> /\ ~ Ending(f) /\ ~ InGroup(f) /\ f.pc \notin SlotPcs \cup TcPcs
    BY <1>3, <1>4, <1>5 DEF FrameOK, Drops, Ending, InGroup, SlotPcs, TcPcs
  <1>7. Deferred(f.tk) => rec[f.tk].st = "run"
    BY <1>3, <1>4, <1>5 DEF FrameOK, Fate, Deferred, RunPcs, WaitPcs, IdlePcs
  <1>8. f.tk # Cur(t)
    <2>1. Old(t, t, n - 1)
      BY <1>2 DEF Old
    <2> QED
      BY <1>1, <1>3, <2>1, AloneOn
  <1>9. f \in FrameT /\ f.tk \in Recs
    BY <1>3, <1>4 DEF FrameT
  <1> QED
    BY <1>5, <1>6, <1>7, <1>8, <1>9

\* A thread leaves its innermost task, and may wake others.
LEMMA QuitPop ==
  ASSUME TasksInv, NEW t \in Threads, NEW x \in Recs, x = Cur(t), Quits(x), Len(stack[t]) > 1,
         Popped(t), stack'[t] # <<>>, Top(t)' = stack[t][Len(stack[t]) - 1],
         pc(t) \in {"body", "leave", "live", "wakeall"},
         live' = IF pc(t) = "live" THEN live - 1 ELSE live,
         UNCHANGED <<grp, qVars, sync>>
  PROVE  TasksInv'
  <1>1. /\ Shape /\ StacksOK /\ RecsOK /\ QueuesOK /\ CountsOK /\ GroupsOK /\ BarrierOK
        /\ Top(t) \in FrameT /\ Top(t).tk = x /\ Top(t).pc = pc(t)
        /\ Fate(Top(t)) /\ Counts(Top(t)) /\ Drops(Top(t)) /\ Below(t)
    BY CurIs DEF Popped
  <1>2. PICK f \in FrameT : f = stack[t][Len(stack[t]) - 1]
    BY BelowIs
  <1>3. /\ f.drop = <<>> /\ f.pc \in {"wait", "body", "retest", "drain"}
        /\ ~ Ending(f) /\ ~ InGroup(f) /\ (Deferred(f.tk) => rec[f.tk].st = "run")
        /\ f.pc \notin SlotPcs \cup TcPcs /\ f.tk # x
    BY <1>2, BelowIs
  <1>4. /\ Top(t)'.drop = <<>> /\ ~ Ending(Top(t))' /\ ~ InGroup(Top(t))' /\ Cur(t)' = f.tk /\ pc(t)' = f.pc
    <2>1. Top(t)' = f
      BY <1>2
    <2> QED
      BY <1>3, <2>1 DEF Ending, InGroup, Cur, pc
  <1>5. ~ Ending(Top(t)) /\ ~ InGroup(Top(t)) /\ Top(t).drop = <<>> /\ pc(t) \notin SlotPcs \cup TcPcs
    BY <1>1 DEF Ending, InGroup, Drops, SlotPcs, TcPcs
  <1>6. dq' = dq /\ base' = base /\ hq' = hq /\ grp' = grp /\ UNCHANGED barVars
         /\ tm' = tm /\ nwait' = nwait /\ sleepers' = sleepers
         /\ barrived' = barrived /\ bgen' = bgen /\ gen' = gen /\ passed' = passed
    BY DEF qVars, sync, idleVars, waitVars, barVars
  <1>7. \A y \in Recs : OnStack(y) /\ y # x => OnStack(y)'
    BY <1>1, StackedAfter
  <1>8. RecsOK' /\ Lasts /\ QueuesOK'
    BY <1>1, <1>3, <1>4, <1>6, <1>7, QuitsRecs
  <1>9. Fixed /\ ChildrenOK' /\ RefsOK' /\ \A y \in Tasks : GroupPending(y)' <=> GroupPending(y)
    BY <1>1, <1>4, <1>5, QuitsCounts
  <1>10. rec' \in [Recs -> RecT] /\ (\A y \in Recs : y # x => rec'[y] = rec[y]) /\ SameId(rec[x], rec'[x])
    BY DEF Quits
  <1>11. Undisturbed(t, None)
    <2>1. \A y \in Recs \ {Cur(t), None} : Steady(y)
      BY <1>10 DEF Steady
    <2>2. \A y : Queued(y)' <=> Queued(y)
      BY <1>6 DEF Queued
    <2>3. \A y \in Recs : rec'[y].pred = rec[y].pred
      BY <1>10 DEF Quits, SameDeps
    <2>4. \A s \in Threads : \A i \in DOMAIN stack[s] :
            stack[s][i].tk # None /\ stack[s][i].ctr # <<"npred", None>>
      <3> TAKE s \in Threads
      <3> TAKE i \in DOMAIN stack[s]
      <3>1. stack[s][i] \in FrameT
        BY <1>1 DEF Shape
      <3> QED
        BY <3>1, NoneFree DEF FrameT
    <2> QED
      BY <1>6, <2>1, <2>2, <2>3, <2>4, NoneFree DEF Undisturbed
  <1>12. StacksOK'
    BY <1>1, <1>11, PoppedStacks
  <1>13. LiveOK'
    <2>1. CASE ~ Deferred(x)
      <3>1. ~ Unsettled(x) /\ ~ Unsettled(x)' /\ pc(t) # "live"
        <4>1. ~ Deferred(x)'
          BY <1>9, <2>1 DEF Fixed
        <4> QED
          BY <1>1, <2>1, <4>1 DEF Unsettled, Fate
      <3> QED
        BY <1>1, <1>3, <1>4, <1>10, <2>1, <3>1, LiveMoves DEF CountsOK
    <2>2. CASE Deferred(x)
      <3>1. ~ Static(x) /\ rec'[x].st = rec[x].st /\ rec[x].st \in {"over", "freed"}
        BY <2>2, NoneFree DEF Quits, Deferred, Static
      <3>2. pc(t) \in {"live", "wakeall"}
        BY <1>1, <3>1 DEF Fate, RunPcs, WaitPcs
      <3>3. ~ Unsettled(x)'
        <4>1. \A s \in Threads : Cur(s)' # x
          BY <1>1, <1>3, <1>4, AloneAfter
        <4> QED
          BY <3>1, <4>1 DEF Unsettled
      <3>4. Unsettled(x) <=> pc(t) = "live"
        BY <1>1, <2>2, <3>1, <3>2, Alone DEF Unsettled
      <3> QED
        BY <1>1, <1>3, <1>4, <1>10, <3>2, <3>3, <3>4, LiveMoves DEF CountsOK
    <2> QED
      BY <2>1, <2>2
  <1>14. EndOK'
    <2>1. rec[t].st = "run"
      BY <1>1, BottomRuns
    <2>2. t # x
      <3>1. Len(stack[t]) # 1
        BY <1>1, TopIs
      <3> QED
        BY <3>1, CurIs, NoneFree
    <2> QED
      BY <1>10, <2>1, <2>2, NoneFree DEF EndOK
  <1>15. SleepOK'
    BY <1>1, <1>3, <1>4, <1>5, <1>6, AwakeStep DEF CountsOK
  <1>16. Len(stack[t]) # 1
    BY <1>1, TopIs
  <1>17. BarrierOK'
    <2>1. \A y \in Recs : rec[y].st # "none" => rec'[y].epoch = rec[y].epoch /\ (Over(y) => Over(y)')
      BY <1>10 DEF Quits, Over, SameId
    <2>2. \A y \in Tasks : rec[y].st = "none" => rec'[y].st = "none"
      BY <1>10, NoneFree DEF Quits
    <2> QED
      BY <1>1, <1>6, <1>16, <2>1, <2>2, BarrierStays
  <1>18. GroupsOK'
    <2>1. \A y \in Recs : rec'[y].home = rec[y].home /\ rec'[y].group = rec[y].group
      BY <1>10 DEF SameId
    <2>2. \A y \in Recs : rec[y].st = "run" /\ OpenGroup(y) => rec'[y].st = "run"
      BY <1>10 DEF Quits
    <2>3. \A s \in Threads : stack'[s][1].pc \in IdlePcs => stack[s][1].pc \in IdlePcs \/ rec[s].group = None
      BY <1>1, <1>16, FirstAbove
    <2>4. \A y \in Tasks : rec[y].st = "none" => rec'[y].st = "none"
      BY <1>10, NoneFree DEF Quits
    <2> QED
      BY <1>1, <1>6, <1>9, <2>1, <2>2, <2>3, <2>4, GroupsKept
  <1>19. live' \in Int
    BY <1>1 DEF Shape
  <1>20. Shape'
    BY <1>1, <1>6, <1>10, <1>19 DEF Shape, Below
  <1> QED
    BY <1>8, <1>9, <1>12, <1>13, <1>14, <1>15, <1>17, <1>18, <1>20 DEF TasksInv, CountsOK

\* The last task of the team, or the implicit task at the end of the region.
LEMMA QuitTop ==
  ASSUME TasksInv, NEW t \in Threads, NEW x \in Recs, x = Cur(t), Quits(x), NEW g \in FrameT, Topped(t, g),
         g.tk = x, g.ctr = <<>>, g.drop = <<>>,
         \/ pc(t) = "live" /\ g.pc = "wakeall" /\ live' = live - 1
         \/ pc(t) = "leave" /\ g.pc = "out" /\ live' = live /\ rec'[x].st = "freed" /\ Len(stack[t]) = 1,
         UNCHANGED <<grp, qVars, sync>>
  PROVE  TasksInv'
  <1>1. /\ Shape /\ StacksOK /\ RecsOK /\ QueuesOK /\ CountsOK /\ GroupsOK /\ BarrierOK
        /\ Top(t) \in FrameT /\ Top(t).tk = x /\ Top(t).pc = pc(t)
        /\ Fate(Top(t)) /\ Counts(Top(t)) /\ Drops(Top(t)) /\ Below(t)
        /\ (Len(stack[t]) = 1 => Cur(t) = t) /\ (Len(stack[t]) # 1 => Cur(t) \in Tasks)
    BY CurIs DEF Topped
  <1>2. Top(t)' = g /\ g.pc \in {"wakeall", "out"} /\ pc(t) \in {"live", "leave"}
    BY <1>1, TopAfter
  <1>3. stack'[t] # <<>>
    <2>1. PICK n \in Nat : n = Len(stack[t]) /\ n # 0
      BY <1>1, TopIs
    <2>2. Len(stack'[t]) = n
      BY <2>1 DEF Topped
    <2> QED
      BY <2>1, <2>2
  <1>4. Top(t)'.drop = <<>> /\ ~ Ending(Top(t))' /\ ~ InGroup(Top(t))' /\ Cur(t)' = x /\ pc(t)' = g.pc
    BY <1>2 DEF Ending, InGroup, Cur, pc
  <1>5. ~ Ending(Top(t)) /\ ~ InGroup(Top(t)) /\ Top(t).drop = <<>> /\ pc(t) \notin SlotPcs \cup TcPcs
    BY <1>1, <1>2 DEF Ending, InGroup, Drops, SlotPcs, TcPcs
  <1>6. dq' = dq /\ base' = base /\ hq' = hq /\ grp' = grp /\ UNCHANGED barVars
         /\ tm' = tm /\ nwait' = nwait /\ sleepers' = sleepers
         /\ barrived' = barrived /\ bgen' = bgen /\ gen' = gen /\ passed' = passed
    BY DEF qVars, sync, idleVars, waitVars, barVars
  <1>7. \A y \in Recs : OnStack(y) /\ y # x => OnStack(y)'
    BY <1>1, StackedAfter
  <1>8. RecsOK' /\ Lasts /\ QueuesOK'
    BY <1>1, <1>2, <1>4, <1>6, <1>7, QuitsRecs
  <1>9. Fixed /\ ChildrenOK' /\ RefsOK' /\ \A y \in Tasks : GroupPending(y)' <=> GroupPending(y)
    BY <1>1, <1>3, <1>4, <1>5, QuitsCounts
  <1>10. rec' \in [Recs -> RecT] /\ (\A y \in Recs : y # x => rec'[y] = rec[y]) /\ SameId(rec[x], rec'[x])
    BY DEF Quits
  <1>11. Undisturbed(t, None)
    <2>1. \A y \in Recs \ {Cur(t), None} : Steady(y)
      BY <1>10 DEF Steady
    <2>2. \A y : Queued(y)' <=> Queued(y)
      BY <1>6 DEF Queued
    <2>3. \A y \in Recs : rec'[y].pred = rec[y].pred
      BY <1>10 DEF Quits, SameDeps
    <2>4. \A s \in Threads : \A i \in DOMAIN stack[s] :
            stack[s][i].tk # None /\ stack[s][i].ctr # <<"npred", None>>
      <3> TAKE s \in Threads
      <3> TAKE i \in DOMAIN stack[s]
      <3>1. stack[s][i] \in FrameT
        BY <1>1 DEF Shape
      <3> QED
        BY <3>1, NoneFree DEF FrameT
    <2> QED
      BY <1>6, <2>1, <2>2, <2>3, <2>4, NoneFree DEF Undisturbed
  <1>12. StacksOK'
    <2>1. Deferred(x) => Deferred(x)'
      BY <1>9 DEF Fixed
    <2>2. g.pc = "out" => rec'[x].st = "freed"
      OBVIOUS
    <2>3. g.pc = "wakeall" => rec'[x].st \in {"over", "freed"} /\ Deferred(x)
      BY <1>1 DEF Fate, Quits
    <2>4. Fate(Top(t))'
      BY <1>2, <1>4, <2>1, <2>2, <2>3 DEF Fate, RunPcs, IdlePcs, TcPcs, WaitPcs, Deferred
    <2>5. Counts(Top(t))'
      BY <1>2 DEF Counts, WaitPcs
    <2>6. Drops(Top(t))'
      BY <1>2 DEF Drops
    <2>7. g.pc \in IdlePcs \cup {"out"} => Len(stack[t]) = 1
      BY <1>2 DEF IdlePcs, TcPcs
    <2> QED
      BY <1>11, <2>1, <2>4, <2>5, <2>6, <2>7, ToppedOK
  <1>13. LiveOK'
    <2>1. CASE pc(t) = "leave"
      <3>1. ~ Deferred(x)
        BY <1>1, <2>1, NoneFree DEF Fate, Deferred, Static
      <3>2. ~ Deferred(x)'
        BY <1>9, <3>1 DEF Fixed
      <3>3. ~ Unsettled(x) /\ ~ Unsettled(x)'
        BY <3>1, <3>2 DEF Unsettled
      <3> QED
        BY <1>1, <1>4, <1>10, <2>1, <3>3, LiveMoves DEF CountsOK
    <2>2. CASE pc(t) = "live"
      <3>1. Deferred(x) /\ rec[x].st \in {"over", "freed"}
        BY <1>1, <2>2 DEF Fate
      <3>2. rec'[x].st = rec[x].st
        BY <3>1, NoneFree DEF Quits, Deferred, Static
      <3>3. ~ Unsettled(x)'
        <4>1. \A s \in Threads : Cur(s)' = x => s = t
          BY <1>1, AloneAfter
        <4>2. pc(t)' = "wakeall"
          BY <1>2, <1>4, <2>2
        <4> QED
          BY <3>1, <3>2, <4>1, <4>2 DEF Unsettled
      <3>4. Unsettled(x)
        BY <2>2, <3>1 DEF Unsettled
      <3> QED
        BY <1>1, <1>4, <1>10, <2>2, <3>3, <3>4, LiveMoves DEF CountsOK
    <2> QED
      BY <1>2, <2>1, <2>2
  <1>14. EndOK'
    <2>1. CASE pc(t) = "leave"
      <3>1. rec[x].st = "over" /\ x = t
        BY <1>1, <2>1 DEF Fate
      <3> QED
        BY <1>1, <1>10, <2>1, <3>1, NoneFree DEF EndOK, CountsOK
    <2>2. CASE pc(t) = "live"
      <3>1. x # t /\ Len(stack[t]) # 1
        BY <1>1, <2>2, NoneFree DEF Fate, Deferred
      <3>3. Len(stack[t]) > 1
        BY <1>1, <3>1, Deeper
      <3>4. rec[t].st = "run"
        BY <1>1, <3>3, BottomRuns
      <3> QED
        BY <1>10, <3>1, <3>4, NoneFree DEF EndOK
    <2> QED
      BY <1>2, <2>1, <2>2
  <1>15. SleepOK'
    <2>1. pc(t)' \notin SlotPcs \cup TcPcs
      BY <1>2, <1>4 DEF SlotPcs, TcPcs
    <2> QED
      BY <1>1, <1>5, <1>6, <2>1, AwakeStep DEF CountsOK
  <1>16. Len(stack[t]) = 1 => stack'[t][1].pc \notin IdlePcs /\ stack[t][1].pc \notin IdlePcs
    <2> SUFFICES ASSUME Len(stack[t]) = 1 PROVE stack'[t][1].pc \notin IdlePcs /\ stack[t][1].pc \notin IdlePcs
      OBVIOUS
    <2>1. stack'[t][1] = g /\ stack[t][1] = Top(t)
      BY <1>1, TopIs DEF Topped
    <2> QED
      BY <1>1, <1>2, <2>1 DEF IdlePcs, TcPcs
  <1>17. /\ Len(stack[t]) = 1 =>
            /\ (stack'[t][1].pc \in IdlePcs <=> stack[t][1].pc \in IdlePcs)
            /\ (stack'[t][1].pc = "retest" => AtBarrier(t))
            /\ (stack'[t][1].pc = "drain" => ~ AtBarrier(t))
    BY <1>16 DEF IdlePcs
  <1>18. BarrierOK'
    <2>1. \A y \in Recs : rec[y].st # "none" => rec'[y].epoch = rec[y].epoch /\ (Over(y) => Over(y)')
      BY <1>10 DEF Quits, Over, SameId
    <2>2. \A y \in Tasks : rec[y].st = "none" => rec'[y].st = "none"
      BY <1>10, NoneFree DEF Quits
    <2> QED
      BY <1>1, <1>6, <1>17, <2>1, <2>2, BarrierStays
  <1>19. GroupsOK'
    <2>1. \A y \in Recs : rec'[y].home = rec[y].home /\ rec'[y].group = rec[y].group
      BY <1>10 DEF SameId
    <2>2. \A y \in Recs : rec[y].st = "run" /\ OpenGroup(y) => rec'[y].st = "run"
      BY <1>10 DEF Quits
    <2>3. \A s \in Threads : stack'[s][1].pc \in IdlePcs => stack[s][1].pc \in IdlePcs \/ rec[s].group = None
      BY <1>1, <1>17, FirstAbove
    <2>4. \A y \in Tasks : rec[y].st = "none" => rec'[y].st = "none"
      BY <1>10, NoneFree DEF Quits
    <2> QED
      BY <1>1, <1>6, <1>9, <2>1, <2>2, <2>3, <2>4, GroupsKept
  <1>20. live' \in Int
    BY <1>1 DEF Shape
  <1>21. Shape'
    BY <1>1, <1>6, <1>10, <1>20 DEF Shape, Below
  <1> QED
    BY <1>8, <1>9, <1>12, <1>13, <1>14, <1>15, <1>18, <1>19, <1>21 DEF TasksInv, CountsOK

LEMMA StSet ==
  ASSUME NEW q \in RecT, NEW s \in {"none", "wait", "run", "over", "freed"}
  PROVE  LET r == [q EXCEPT !.st = s] IN
         r \in RecT /\ SameId(q, r) /\ SameDeps(q, r) /\ SameNums(q, r) /\ r.done = q.done /\ r.st = s
  BY DEF RecT, SameId, SameDeps, SameNums

\* What sets the state of a record to s leaves the rest of it alone.
StTo(x, s) ==
  /\ rec' \in [Recs -> RecT] /\ (\A y \in Recs \ {x} : rec'[y] = rec[y])
  /\ SameId(rec[x], rec'[x]) /\ SameDeps(rec[x], rec'[x]) /\ SameNums(rec[x], rec'[x])
  /\ rec'[x].done = rec[x].done /\ rec'[x].st = s

LEMMA StToIs ==
  ASSUME Shape, NEW x \in Recs, NEW s \in {"none", "wait", "run", "over", "freed"},
         rec' = [rec EXCEPT ![x].st = s]
  PROVE  StTo(x, s)
  <1>1. rec \in [Recs -> RecT] /\ rec[x] \in RecT
    BY DEF Shape
  <1> DEFINE r == [rec[x] EXCEPT !.st = s]
  <1>2. /\ r \in RecT /\ SameId(rec[x], r) /\ SameDeps(rec[x], r) /\ SameNums(rec[x], r)
        /\ r.done = rec[x].done /\ r.st = s
    BY <1>1, StSet
  <1>3. rec' = [rec EXCEPT ![x] = r]
    OBVIOUS
  <1> HIDE DEF r
  <1>4. rec' \in [Recs -> RecT] /\ rec'[x] = r /\ \A y \in Recs \ {x} : rec'[y] = rec[y]
    BY <1>1, <1>2, <1>3, RecSet
  <1> QED
    BY <1>2, <1>4 DEF StTo

LEMMA SameQuits ==
  ASSUME Shape, NEW x \in Recs, rec' = rec, Deferred(x), rec[x].st \in {"over", "freed"}
  PROVE  Quits(x)
  BY DEF Quits, SameId, SameDeps, SameNums, Shape

LEMMA LiveDownStep ==
  ASSUME TasksInv, NEW t \in Threads, LiveDown(t)
  PROVE  TasksInv'
  <1>1. /\ Shape /\ StacksOK /\ RecsOK /\ Top(t) \in FrameT /\ Cur(t) \in Recs /\ Top(t).tk = Cur(t)
        /\ Top(t).pc = pc(t) /\ Fate(Top(t)) /\ Counts(Top(t)) /\ Drops(Top(t))
        /\ (Len(stack[t]) = 1 => Cur(t) = t)
    BY CurIs
  <1>2. PICK x \in Recs : x = Cur(t)
    BY <1>1
  <1>3. /\ pc(t) = "live" /\ live' = live - 1 /\ rec' = rec /\ UNCHANGED <<grp, qVars, sync>>
        /\ Pop(t) \/ Goto(t, "wakeall")
    BY DEF LiveDown
  <1>4. Deferred(x) /\ rec[x].st \in {"over", "freed"} /\ Top(t).ctr = <<>> /\ Top(t).drop = <<>>
    BY <1>1, <1>2, <1>3 DEF Fate, Counts, Drops, WaitPcs
  <1>5. Quits(x)
    BY <1>1, <1>3, <1>4, SameQuits
  <1>6. Len(stack[t]) > 1
    BY <1>1, <1>2, <1>4, Deeper, NoneFree DEF Deferred
  <1>7. CASE Pop(t)
    <2>1. Popped(t) /\ stack'[t] # <<>> /\ Top(t)' = stack[t][Len(stack[t]) - 1]
      BY <1>1, <1>6, <1>7, PopStep
    <2> QED
      BY <1>2, <1>3, <1>5, <1>6, <2>1, QuitPop
  <1>8. CASE Goto(t, "wakeall")
    <2>1. PICK g \in FrameT : /\ Topped(t, g) /\ g.tk = x /\ g.pc = "wakeall" /\ g.ctr = <<>> /\ g.drop = <<>>
      BY <1>1, <1>2, <1>4, <1>8, GotoStep, PcIs
    <2> QED
      BY <1>2, <1>3, <1>5, <2>1, QuitTop
  <1> QED
    BY <1>3, <1>7, <1>8

\* The last task leaves its frame as it wakes the idle threads.
LEMMA WakePopped ==
  ASSUME Shape, StacksOK, NEW t \in Threads, Len(stack[t]) > 1, pc(t) = "wakeall",
         stack' = Rouse([stack EXCEPT ![t] = Front(@)], OnTc, "roused")
  PROVE  Popped(t) /\ stack'[t] # <<>>
  <1> DEFINE st == [stack EXCEPT ![t] = Front(@)]
  <1>1. stack[t] \in Seq(FrameT) /\ stack[t] # <<>> /\ stack \in [Threads -> Seq(FrameT)]
    BY TopIs DEF Shape
  <1>2. PICK n \in Nat : n = Len(stack[t]) /\ n > 1
    BY <1>1, LenProperties
  <1>3. /\ Front(stack[t]) \in Seq(FrameT) /\ Len(Front(stack[t])) = n - 1
        /\ \A i \in 1 .. n - 1 : Front(stack[t])[i] = stack[t][i]
    BY <1>1, <1>2, FrontIs
  <1>4. st \in [Threads -> Seq(FrameT)] /\ st[t] = Front(stack[t]) /\ \A s \in Threads \ {t} : st[s] = stack[s]
    BY <1>1, <1>3
  <1>5. st[t] # <<>>
    <2>1. Len(st[t]) # 0
      BY <1>2, <1>3, <1>4
    <2> QED
      BY <2>1
  <1>6. t \notin OnTc
    BY DEF OnTc
  <1> HIDE DEF st
  <1>7. stack' = Rouse(Rouse(st, OnTc, "roused"), {}, "woken")
    <2>1. Rouse(st, OnTc, "roused") \in [Threads -> Seq(FrameT)]
      <3>1. \A s \in Threads : st[s] # <<>>
        BY <1>4, <1>5, TopIs
      <3> QED
        BY <1>4, <3>1, RouseIs, PcIs DEF IdlePcs, TcPcs
    <2>2. Rouse(Rouse(st, OnTc, "roused"), {}, "woken") = Rouse(st, OnTc, "roused")
      BY <2>1, RouseNone
    <2> QED
      BY <2>2 DEF st
  <1>8. stack' \in [Threads -> Seq(FrameT)] /\ Others(t) /\ stack'[t] = st[t]
    BY <1>4, <1>5, <1>6, <1>7, RousedOthers
  <1>9. Popped(t)
    BY <1>2, <1>3, <1>4, <1>8 DEF Popped, Below
  <1>10. stack'[t] # <<>>
    BY <1>5, <1>8
  <1> QED
    BY <1>9, <1>10

\* The last task wakes the threads at the barrier and at the end of the region.
LEMMA WakeAllStep ==
  ASSUME TasksInv, NEW t \in Threads, WakeAll(t)
  PROVE  TasksInv'
  <1>1. /\ Shape /\ StacksOK /\ RecsOK /\ Top(t) \in FrameT /\ Cur(t) \in Recs /\ Top(t).tk = Cur(t)
        /\ Top(t).pc = pc(t) /\ Fate(Top(t))
        /\ (Len(stack[t]) = 1 => Cur(t) = t)
    BY CurIs
  <1>2. PICK x \in Recs : x = Cur(t)
    BY <1>1
  <1>3. /\ pc(t) = "wakeall" /\ live' = live /\ rec' = rec /\ UNCHANGED <<grp, qVars, sync>>
        /\ Pop(t) \/ stack' = Rouse([stack EXCEPT ![t] = Front(@)], OnTc, "roused")
    BY DEF WakeAll
  <1>4. Deferred(x) /\ rec[x].st \in {"over", "freed"}
    BY <1>1, <1>2, <1>3 DEF Fate
  <1>5. Quits(x)
    BY <1>1, <1>3, <1>4, SameQuits
  <1>6. Len(stack[t]) > 1
    BY <1>1, <1>2, <1>4, Deeper, NoneFree DEF Deferred
  <1>7. CASE Pop(t)
    <2>1. Popped(t) /\ stack'[t] # <<>> /\ Top(t)' = stack[t][Len(stack[t]) - 1]
      BY <1>1, <1>6, <1>7, PopStep
    <2> QED
      BY <1>2, <1>3, <1>5, <1>6, <2>1, QuitPop
  <1>8. CASE stack' = Rouse([stack EXCEPT ![t] = Front(@)], OnTc, "roused")
    <2>9. Popped(t) /\ stack'[t] # <<>>
      BY <1>1, <1>3, <1>6, <1>8, WakePopped
    <2>11. Top(t)' = stack[t][Len(stack[t]) - 1]
      <3>1. Len(stack[t]) # 1
        BY <1>1, <1>6, TopIs
      <3> QED
        BY <1>1, <2>9, <3>1, TopAfter
    <2> QED
      BY <1>2, <1>3, <1>5, <1>6, <2>9, <2>11, QuitPop
  <1> QED
    BY <1>3, <1>7, <1>8

\* A record on the stack goes with its frame: no child refers to it any more.
LEMMA LeaveStep ==
  ASSUME TasksInv, NEW t \in Threads, Leave(t)
  PROVE  TasksInv'
  <1>1. /\ Shape /\ StacksOK /\ RecsOK /\ Top(t) \in FrameT /\ Cur(t) \in Recs /\ Top(t).tk = Cur(t)
        /\ Top(t).pc = pc(t) /\ Fate(Top(t)) /\ Counts(Top(t)) /\ Drops(Top(t))
        /\ (Len(stack[t]) = 1 => Cur(t) = t)
    BY CurIs
  <1>2. PICK x \in Recs : x = Cur(t)
    BY <1>1
  <1>3. /\ pc(t) = "leave" /\ rec' = [rec EXCEPT ![x].st = "freed"] /\ live' = live
        /\ (IF Len(stack[t]) = 1 THEN Goto(t, "out") ELSE Pop(t)) /\ UNCHANGED <<grp, qVars, sync>>
    BY <1>2 DEF Leave
  <1>4. rec[x].st = "over" /\ Static(x) /\ Top(t).ctr = <<>> /\ Top(t).drop = <<>>
    BY <1>1, <1>2, <1>3 DEF Fate, Counts, Drops, WaitPcs
  <1>5. rec[x].refs = 0 /\ DepRefs(rec[x]) = <<>>
    BY <1>1, <1>2, <1>3, <1>4 DEF RecsOK, Gone
  <1>6. StTo(x, "freed")
    BY <1>1, <1>3, StToIs
  <1>7. Quits(x)
    BY <1>4, <1>5, <1>6 DEF StTo, Quits
  <1>8. CASE Len(stack[t]) = 1
    <2>1. PICK g \in FrameT : /\ Topped(t, g) /\ g.tk = x /\ g.pc = "out" /\ g.ctr = <<>> /\ g.drop = <<>>
      BY <1>1, <1>2, <1>3, <1>4, <1>8, GotoStep, PcIs
    <2>3. rec'[x].st = "freed"
      BY <1>6 DEF StTo
    <2> QED
      BY <1>2, <1>3, <1>7, <1>8, <2>1, <2>3, QuitTop
  <1>9. CASE Len(stack[t]) # 1
    <2>1. Len(stack[t]) > 1
      BY <1>1, <1>9, Deeper
    <2>2. Popped(t) /\ stack'[t] # <<>> /\ Top(t)' = stack[t][Len(stack[t]) - 1]
      BY <1>1, <1>3, <1>9, <2>1, PopStep
    <2> QED
      BY <1>2, <1>3, <1>7, <2>1, <2>2, QuitPop
  <1> QED
    BY <1>8, <1>9
-----------------------------------------------------------------------------
(* A record on the stack is over: that of a task run in place, or of a       *)
(* thread at the end of the region.                                         *)
\* Its dependence entries stay, or become references to drop.
Ceases(t, x, g) ==
  /\ x = Cur(t) /\ Static(x) /\ g \in FrameT /\ g.tk = x /\ Topped(t, g)
  /\ rec' \in [Recs -> RecT] /\ (\A y \in Recs \ {x} : rec'[y] = rec[y])
  /\ SameId(rec[x], rec'[x]) /\ SameNums(rec[x], rec'[x]) /\ rec'[x].pred = rec[x].pred
  /\ rec'[x].done = rec[x].done /\ rec'[x].st = "over"
  /\ rec[x].st = "over" \/ (rec[x].st = "run" /\ ~ OpenGroup(x))
  /\ \/ /\ g.pc = "wait" /\ x \in Tasks /\ g.ctr = <<"children", x>> /\ g.drop = <<>>
        /\ DepRefs(rec'[x]) = DepRefs(rec[x])
     \/ /\ g.pc \in {"unref", "leave"} /\ g.ctr = <<>> /\ g.drop = DepRefs(rec[x])
        /\ DepRefs(rec'[x]) = <<>> /\ rec[x].refs = 0 /\ (g.pc = "unref" => g.drop # <<>>)
        /\ (g.pc = "leave" => g.drop = <<>>)

LEMMA CeasesRecs ==
  ASSUME TasksInv, NEW t \in Threads, NEW x \in Recs, NEW g, Ceases(t, x, g), dq' = dq, hq' = hq
  PROVE  RecsOK' /\ QueuesOK'
  <1>1. /\ Shape /\ StacksOK /\ RecsOK /\ QueuesOK /\ Below(t) /\ Cur(t) = x /\ Top(t)' = g
        /\ pc(t)' = g.pc /\ Cur(t)' = x
    BY CurIs, TopAfter DEF Ceases, Topped, pc, Cur
  <1>2. /\ \A y \in Recs : y # x => rec'[y] = rec[y]
        /\ Ident(x) /\ rec[x].st \in {"run", "over"} /\ rec'[x].st = "over" /\ ~ Deferred(x) /\ Static(x)
        /\ rec'[x].done = rec[x].done /\ rec'[x].pred = rec[x].pred /\ rec[x] \in RecT
        /\ g.pc \in {"wait", "unref", "leave"}
        /\ DepRefs(rec'[x]) = DepRefs(rec[x]) \/ DepRefs(rec'[x]) = <<>>
    BY <1>1, SameIs, NoneFree DEF Ceases, Static, Deferred, Shape
  <1>3. Lasts
    BY <1>2 DEF Lasts, Ident
  <1>4. NewLinks
    <2>1. \A s \in Threads : s # t => ((pc(s)' = "link") <=> (pc(s) = "link")) /\ Linked(s)' = Linked(s)
      BY <1>1, OtherMarks, OtherTops DEF Linked
    <2> QED
      BY <1>1, <1>2, <2>1 DEF NewLinks
  <1>5. \A y : Queued(y)' <=> Queued(y)
    BY DEF Queued
  <1>6. \A y \in Recs : rec'[y].done = rec[y].done /\ rec'[y].pred = rec[y].pred
    BY <1>2
  <1>7. \A y \in Recs : OnStack(y) => OnStack(y)'
    BY <1>1, StackedAfter DEF Ceases
  <1>8. ASSUME NEW y \in Recs, y # x
        PROVE  RecOK(y)' /\ Gone(y)'
    <2>1. rec'[y] = rec[y] /\ rec[y].pred \subseteq Tasks
      BY <1>1, <1>2, <1>8 DEF Shape, RecT
    <2>2. Alike(y)
      BY <1>5, <1>6, <1>7, <1>8, <2>1, NoneFree DEF Alike
    <2> QED
      BY <1>1, <1>3, <1>4, <1>8, <2>1, <2>2, RecKept, GoneKept
  <1>9. RecOK(x)'
    <2>1. Born(x) /\ Waits4(x) /\ Entry(x)
      BY <1>1 DEF RecsOK
    <2>2. OnStack(x)
      BY <1>1, TopIs DEF OnStack, Cur
    <2>3. Born(x)'
      <3>1. x \in Threads => rec[x].pred = {}
        BY <2>1 DEF Born
      <3> QED
        BY <1>2, <1>3, <1>7, <2>1, <2>2, <3>1, BornKept
    <2>4. Waits4(x)'
      <3>1. rec[x].pred = {}
        BY <1>2, <2>1 DEF Waits4
      <3> QED
        BY <1>2, <3>1 DEF Waits4
    <2>5. Entry(x)'
      BY <1>2, <1>3, <1>4, <2>1, EntryKept
    <2> QED
      BY <2>3, <2>4, <2>5 DEF RecOK
  <1>10. Gone(x)'
    <2>1. Gone(x)
      BY <1>1 DEF RecsOK
    <2>2. rec'[x].refs = rec[x].refs /\ rec'[x].kids = rec[x].kids
      BY DEF Ceases, SameNums
    <2>3. Static(x)'
      BY <1>2 DEF Static, Ident
    <2>4. (\E s \in Threads : Cur(s)' = x /\ pc(s)' \in {"unref", "leave"}) => rec[x].refs = 0 /\ DepRefs(rec'[x]) = <<>>
      <3>1. \A s \in Threads : Cur(s)' = x => s = t
        BY <1>1, AloneAfter
      <3> QED
        BY <1>1, <3>1 DEF Ceases
    <2>5. Static(x) /\ ~ rec[x].kids => rec[x].refs = 0 /\ DepRefs(rec'[x]) = <<>>
      BY <1>2, <2>1 DEF Gone
    <2>6. ~ Deferred(x)'
      BY <1>2 DEF Deferred, Ident
    <2> QED
      BY <1>2, <2>2, <2>3, <2>4, <2>5, <2>6 DEF Gone
  <1>11. QueuesOK'
    <2>1. \A y \in Tasks : Queued(y) => rec'[y] = rec[y]
      <3>1. \A y \in Tasks : Queued(y) => rec[y].st = "wait"
        BY <1>1 DEF QueuesOK
      <3> QED
        BY <1>2, <3>1, NoneFree
    <2>2. \A y \in Tasks : Queued(y)' => rec'[y].st = "wait" /\ rec'[y].pred = {} /\ ~ rec'[y].kind.if0
      BY <1>1, <1>5, <2>1 DEF QueuesOK
    <2> QED
      BY <1>1, <2>2 DEF QueuesOK
  <1> QED
    BY <1>8, <1>9, <1>10, <1>11 DEF RecsOK, RecOK

\* No frame is about the task None.
LEMMA NoneNowhere ==
  ASSUME Shape
  PROVE  \A s \in Threads : \A i \in DOMAIN stack[s] :
           stack[s][i].tk # None /\ stack[s][i].ctr # <<"npred", None>>
  <1> TAKE s \in Threads
  <1> TAKE i \in DOMAIN stack[s]
  <1>1. stack[s][i] \in FrameT
    BY DEF Shape
  <1> QED
    BY <1>1, NoneFree DEF FrameT

LEMMA BalancedSame ==
  ASSUME NEW t, NEW h, NEW y, rec'[y].refs = rec[y].refs, rec'[y].children = rec[y].children,
         rec[y].refs \in Int, rec[y].children \in Int, Pending(y)' <=> Pending(y),
         NEW a \in Nat, a = Occ(DepRefs(rec[h]), y), NEW b \in Nat, b = Occ(Top(t).drop, y),
         NEW c \in Nat, c = Occ(DepRefs(rec'[h]), y), NEW d \in Nat, d = Occ(Top(t)'.drop, y),
         a + b = c + d
  PROVE  Balanced(t, h, y)
  <1>1. PICK p \in {0, 1} : p = (IF Pending(y) THEN 1 ELSE 0) /\ p = (IF Pending(y)' THEN 1 ELSE 0)
    OBVIOUS
  <1>2. PICK r \in Int : r = rec[y].refs
    OBVIOUS
  <1>3. PICK k \in Int : k = rec[y].children
    OBVIOUS
  <1>4. r + p + k + a + b = r + p + k + c + d
    OBVIOUS
  <1> QED
    BY <1>1, <1>2, <1>3, <1>4 DEF Balanced
LEMMA CeasesStep ==
  ASSUME TasksInv, NEW t \in Threads, NEW x \in Recs, NEW g, Ceases(t, x, g),
         pc(t) \in {"body", "refs", "drain"}, x \in Threads => live = 0 /\ ~ AtBarrier(t),
         UNCHANGED <<grp, qVars, live, sync>>
  PROVE  TasksInv'
  <1>1. /\ Shape /\ StacksOK /\ RecsOK /\ QueuesOK /\ CountsOK /\ GroupsOK /\ BarrierOK
        /\ Top(t) \in FrameT /\ Top(t).tk = x /\ Top(t).pc = pc(t)
        /\ Fate(Top(t)) /\ Counts(Top(t)) /\ Drops(Top(t)) /\ Below(t) /\ x = Cur(t)
        /\ (Len(stack[t]) = 1 => Cur(t) = t) /\ (Len(stack[t]) # 1 => Cur(t) \in Tasks)
        /\ g \in FrameT /\ g.tk = x /\ Topped(t, g)
    BY CurIs DEF Topped, Ceases
  <1>2. Top(t)' = g /\ Cur(t)' = x /\ pc(t)' = g.pc /\ g.pc \in {"wait", "unref", "leave"}
    BY <1>1, TopAfter DEF Ceases, pc, Cur
  <1>3. stack'[t] # <<>>
    <2>1. PICK n \in Nat : n = Len(stack[t]) /\ n # 0
      BY <1>1, TopIs
    <2>2. Len(stack'[t]) = n
      BY <1>1, <2>1 DEF Topped
    <2> QED
      BY <2>1, <2>2
  <1>4. ~ Ending(Top(t)) /\ ~ InGroup(Top(t)) /\ Top(t).drop = <<>> /\ ~ Ending(Top(t))' /\ ~ InGroup(Top(t))'
        /\ pc(t) # "wakeall" /\ pc(t)' # "wakeall" /\ pc(t) \notin SlotPcs \cup TcPcs /\ pc(t)' \notin SlotPcs \cup TcPcs
    BY <1>1, <1>2 DEF Ending, InGroup, Drops, SlotPcs, TcPcs
  <1>5. dq' = dq /\ base' = base /\ hq' = hq /\ grp' = grp /\ live' = live /\ UNCHANGED barVars
         /\ tm' = tm /\ nwait' = nwait /\ sleepers' = sleepers
         /\ barrived' = barrived /\ bgen' = bgen /\ gen' = gen /\ passed' = passed
    BY DEF qVars, sync, idleVars, waitVars, barVars
  <1>6. /\ rec' \in [Recs -> RecT] /\ (\A y \in Recs : y # x => rec'[y] = rec[y]) /\ SameId(rec[x], rec'[x])
        /\ rec[x].st \in {"run", "over"} /\ rec'[x].st = "over" /\ ~ Deferred(x) /\ ~ Deferred(x)' /\ Static(x)
        /\ rec'[x].children = rec[x].children /\ rec'[x].refs = rec[x].refs /\ rec'[x].pred = rec[x].pred
        /\ rec[x] \in RecT
    BY <1>1, NoneFree DEF Ceases, Static, Deferred, SameId, SameNums, Shape
  <1>7. RecsOK' /\ QueuesOK'
    BY <1>5, CeasesRecs
  <1>8. Fixed
    BY <1>6 DEF Fixed, Deferred
  <1>9. (\A y \in Recs : Pending(y)' <=> Pending(y)) /\ ChildrenOK'
    BY <1>1, <1>4, <1>8, PendingKept DEF CountsOK
  <1>10. \A y \in Tasks : GroupPending(y)' <=> GroupPending(y)
    BY <1>1, <1>4, <1>8, GroupPendingKept
  <1>11. LiveOK'
    BY <1>1, <1>2, <1>4, <1>5, <1>8, LiveKept DEF CountsOK
  <1>12. RefsOK'
    <2>1. \A y \in Recs : y # x => DepRefs(rec'[y]) = DepRefs(rec[y])
      BY <1>6
    <2>2. ASSUME NEW y \in Recs
          PROVE  Balanced(t, x, y)
      <3>1. rec'[y].refs = rec[y].refs /\ rec'[y].children = rec[y].children
        BY <1>6
      <3>2. Occ(<<>>, y) = 0 /\ Occ(DepRefs(rec[x]), y) \in Nat
        BY <1>6, OccEmpty, DepRefsIs
      <3>3. Occ(DepRefs(rec[x]), y) + Occ(Top(t).drop, y) = Occ(DepRefs(rec'[x]), y) + Occ(Top(t)'.drop, y)
        BY <1>2, <1>4, <3>2 DEF Ceases
      <3>4. rec[y].refs \in Int /\ rec[y].children \in Int /\ Occ(DepRefs(rec'[x]), y) \in Nat /\ Occ(Top(t)'.drop, y) \in Nat
            /\ Occ(Top(t).drop, y) \in Nat
        <4>1. rec[y] \in RecT /\ rec'[x] \in RecT
          BY <1>1, <1>6 DEF Shape
        <4> QED
          BY <1>2, <1>4, <3>2, <4>1, DepRefsIs DEF Ceases, RecT
      <3>5. Pending(y)' <=> Pending(y)
        BY <1>9
      <3> QED
        BY <3>1, <3>2, <3>3, <3>4, <3>5, BalancedSame
    <2> QED
      BY <1>1, <1>3, <1>6, <2>1, <2>2, RefsMove DEF CountsOK
  <1>13. EndOK'
    <2>1. CASE x \in Threads
      BY <1>5, <2>1 DEF EndOK
    <2>2. CASE x \notin Threads
      <3>1. Len(stack[t]) # 1
        BY <1>1, <2>2
      <3>2. rec[t].st = "run"
        BY <1>1, <3>1, Deeper, BottomRuns
      <3> QED
        BY <1>6, <2>2, <3>2, NoneFree DEF EndOK
    <2> QED
      BY <2>1, <2>2
  <1>14. SleepOK'
    BY <1>1, <1>4, <1>5, AwakeStep DEF CountsOK
  <1>15. Undisturbed(t, None)
    <2>1. \A y \in Recs \ {Cur(t), None} : Steady(y)
      BY <1>1, <1>6 DEF Steady
    <2>2. \A y : Queued(y)' <=> Queued(y)
      BY <1>5 DEF Queued
    <2>3. \A y \in Recs : rec'[y].pred = rec[y].pred
      BY <1>6
    <2> QED
      BY <1>1, <1>5, <2>1, <2>2, <2>3, NoneFree, NoneNowhere DEF Undisturbed
  <1>16. StacksOK'
    <2>1. Fate(Top(t))'
      <3>1. g.pc = "wait" => rec'[x].inplace /\ g.ctr = <<"children", x>>
        <4>1. x \in Tasks => rec[x].inplace
          BY <1>6, NoneFree DEF Static
        <4> QED
          BY <1>6, <4>1 DEF Ceases, SameId
      <3>2. Static(x)'
        BY <1>6 DEF Static, SameId
      <3> QED
        BY <1>1, <1>2, <1>6, <3>1, <3>2 DEF Fate, RunPcs, IdlePcs, TcPcs, WaitPcs
    <2>2. Counts(Top(t))'
      <3>1. g.pc = "wait" => g.ctr = <<"children", x>>
        BY DEF Ceases
      <3>2. g.pc # "wait" => g.ctr = <<>>
        BY DEF Ceases
      <3> QED
        BY <1>1, <1>2, <3>1, <3>2 DEF Counts, WaitPcs
    <2>3. Drops(Top(t))'
      <3>1. DepRefs(rec[x]) \in Seq(Tasks)
        BY <1>6, DepRefsIs
      <3>2. g.pc = "unref" => g.drop # <<>> /\ g.drop \in Seq(Tasks)
        BY <3>1 DEF Ceases
      <3>3. g.pc # "unref" => g.drop = <<>>
        BY <1>2 DEF Ceases
      <3> QED
        BY <1>1, <1>2, <3>2, <3>3 DEF Drops
    <2>4. g.pc \notin IdlePcs \cup {"out"}
      BY <1>2 DEF IdlePcs, TcPcs
    <2> QED
      BY <1>1, <1>6, <1>15, <2>1, <2>2, <2>3, <2>4, ToppedOK
  <1>17. \A s \in Threads : s # t \/ Len(stack[t]) # 1 =>
           /\ (stack'[s][1].pc \in IdlePcs <=> stack[s][1].pc \in IdlePcs)
           /\ (stack'[s][1].pc = "retest" <=> stack[s][1].pc = "retest")
           /\ (stack'[s][1].pc = "drain" <=> stack[s][1].pc = "drain")
    BY <1>1, FirstAfter, Deeper
  <1>18. Len(stack[t]) = 1 => ~ AtBarrier(t) /\ stack'[t][1].pc \notin IdlePcs
    <2> SUFFICES ASSUME Len(stack[t]) = 1 PROVE ~ AtBarrier(t) /\ stack'[t][1].pc \notin IdlePcs
      OBVIOUS
    <2>1. stack'[t][1] = g /\ x = t
      BY <1>1 DEF Topped
    <2> QED
      BY <1>2, <2>1 DEF IdlePcs, TcPcs
  <1>19. BarrierOK'
    <2>1. \A s \in Threads : /\ rec'[s].epoch = rec[s].epoch
                             /\ (stack'[s][1].pc \in IdlePcs <=> stack[s][1].pc \in IdlePcs) \/ ~ AtBarrier(s)
                             /\ stack'[s][1].pc = "retest" => AtBarrier(s)
                             /\ stack'[s][1].pc = "drain" => ~ AtBarrier(s)
      <3>1. \A s \in Threads : rec'[s].epoch = rec[s].epoch
        BY <1>6, NoneFree DEF SameId
      <3> QED
        BY <1>1, <1>17, <1>18, <3>1 DEF BarrierOK, IdlePcs
    <2>2. \A y \in Tasks : rec'[y].st # "none" /\ rec'[y].epoch < bgen =>
             rec[y].st # "none" /\ rec'[y].epoch = rec[y].epoch /\ (Over(y) => Over(y)')
      BY <1>6, NoneFree DEF SameId, Over
    <2> QED
      BY <1>1, <1>5, <2>1, <2>2, BarrierKept
  <1>20. GroupsOK'
    <2>1. \A y \in Recs : rec'[y].home = rec[y].home /\ rec'[y].group = rec[y].group
      BY <1>6 DEF SameId
    <2>2. \A y \in Recs : rec[y].st = "run" /\ OpenGroup(y) => rec'[y].st = "run"
      BY <1>6 DEF Ceases
    <2>3. \A s \in Threads : stack'[s][1].pc \in IdlePcs => stack[s][1].pc \in IdlePcs \/ rec[s].group = None
      BY <1>17, <1>18
    <2>4. \A y \in Tasks : rec[y].st = "none" => rec'[y].st = "none"
      BY <1>6, NoneFree
    <2> QED
      BY <1>1, <1>5, <1>10, <2>1, <2>2, <2>3, <2>4, GroupsKept
  <1>21. Shape'
    BY <1>1, <1>5, <1>6 DEF Shape, Below
  <1> QED
    BY <1>7, <1>9, <1>11, <1>12, <1>13, <1>14, <1>16, <1>19, <1>20, <1>21 DEF TasksInv, CountsOK

\* A task run in place that has had children waits for them; without, it goes.
LEMMA EndInPlaceStep ==
  ASSUME TasksInv, NEW t \in Threads, EndInPlace(t)
  PROVE  TasksInv'
  <1>1. /\ Shape /\ StacksOK /\ RecsOK /\ Top(t) \in FrameT /\ Cur(t) \in Recs /\ Top(t).tk = Cur(t)
        /\ Top(t).pc = pc(t) /\ Fate(Top(t)) /\ (Len(stack[t]) # 1 => Cur(t) \in Tasks)
    BY CurIs
  <1>2. PICK x \in Recs : x = Cur(t)
    BY <1>1
  <1>3. /\ pc(t) = "body" /\ Len(stack[t]) > 1 /\ ~ OpenGroup(x) /\ rec[x].inplace
        /\ \/ rec[x].kids /\ rec' = [rec EXCEPT ![x].st = "over"] /\ WaitFor(t, <<"children", x>>)
           \/ ~ rec[x].kids /\ rec' = [rec EXCEPT ![x].st = "freed"] /\ Pop(t)
        /\ UNCHANGED <<grp, qVars, live, sync>>
    BY <1>2 DEF EndInPlace, Ends
  <1>4. rec[x].st = "run" /\ Static(x) /\ x \in Tasks /\ x \notin Threads
    <2>1. Len(stack[t]) # 1
      BY <1>1, <1>3, TopIs
    <2> QED
      BY <1>1, <1>2, <1>3, <2>1, NoneFree DEF Fate, RunPcs, Static
  <1>5. CASE rec[x].kids /\ rec' = [rec EXCEPT ![x].st = "over"] /\ WaitFor(t, <<"children", x>>)
    <2> DEFINE g == [Frame(x, "wait") EXCEPT !.ctr = <<"children", x>>]
    <2>1. IsFrame(g, x, "wait", <<"children", x>>, <<>>)
      <3>1. <<"children", x>> \in Ctrs /\ "wait" \in Pcs
        BY PcIs DEF Ctrs, WaitPcs
      <3> QED
        BY <3>1, CtrFrameIs
    <2>2. SetTop(t, g)
      BY <1>2, <1>5 DEF WaitFor
    <2> HIDE DEF g
    <2>3. Topped(t, g)
      BY <1>1, <2>1, <2>2, SetTopStep DEF IsFrame
    <2>4. StTo(x, "over")
      BY <1>1, <1>5, StToIs
    <2>5. rec'[x].pred = rec[x].pred /\ DepRefs(rec'[x]) = DepRefs(rec[x])
      BY <2>4 DEF StTo, SameDeps, DepRefs
    <2>6. Ceases(t, x, g)
      BY <1>2, <1>3, <1>4, <2>1, <2>3, <2>4, <2>5 DEF Ceases, IsFrame, StTo
    <2> QED
      BY <1>3, <1>4, <2>6, CeasesStep
  <1>6. CASE ~ rec[x].kids /\ rec' = [rec EXCEPT ![x].st = "freed"] /\ Pop(t)
    <2>1. rec[x].refs = 0 /\ DepRefs(rec[x]) = <<>>
      BY <1>1, <1>4, <1>6 DEF RecsOK, Gone
    <2>2. StTo(x, "freed")
      BY <1>1, <1>6, StToIs
    <2>3. Quits(x)
      BY <1>3, <1>4, <2>1, <2>2 DEF StTo, Quits
    <2>4. Popped(t) /\ stack'[t] # <<>> /\ Top(t)' = stack[t][Len(stack[t]) - 1]
      BY <1>1, <1>3, <1>6, PopStep
    <2>5. live' = live
      BY <1>3
    <2> QED
      BY <1>2, <1>3, <2>3, <2>4, <2>5, QuitPop
  <1> QED
    BY <1>3, <1>5, <1>6

LEMMA RefsSet ==
  ASSUME NEW q \in RecT, NEW n \in Int
  PROVE  /\ [q EXCEPT !.refs = n] \in RecT /\ SameId(q, [q EXCEPT !.refs = n]) /\ SameDeps(q, [q EXCEPT !.refs = n])
         /\ [q EXCEPT !.refs = n].children = q.children /\ [q EXCEPT !.refs = n].kids = q.kids
         /\ [q EXCEPT !.refs = n].refs = n /\ [q EXCEPT !.refs = n].st = q.st /\ [q EXCEPT !.refs = n].done = q.done
  BY DEF RecT, SameId, SameDeps
\* A record whose dependence entries are freed.
Emptied(q, r) ==
  /\ r \in RecT /\ SameId(q, r) /\ r.pred = q.pred /\ r.done = q.done /\ r.children = q.children
  /\ r.kids = q.kids /\ r.writer = None /\ r.readers = <<>>

LEMMA FreeSet ==
  ASSUME NEW q \in RecT
  PROVE  /\ Emptied(q, [FreeDeps(q) EXCEPT !.st = "over"])
         /\ [FreeDeps(q) EXCEPT !.st = "over"].st = "over" /\ [FreeDeps(q) EXCEPT !.st = "over"].refs = q.refs
         /\ Emptied(q, [FreeDeps(q) EXCEPT !.refs = 0, !.st = "freed"])
         /\ [FreeDeps(q) EXCEPT !.refs = 0, !.st = "freed"].st = "freed"
         /\ [FreeDeps(q) EXCEPT !.refs = 0, !.st = "freed"].refs = 0
  <1> DEFINE u == FreeDeps(q)
  <1>1. u \in RecT /\ u.writer = None /\ u.readers = <<>>
    <2>1. <<>> \in Seq(Tasks) /\ None \in Tasks \cup {None}
      BY EmptySeq
    <2> QED
      BY <2>1 DEF RecT, FreeDeps
  <1>2. /\ SameId(q, u) /\ u.pred = q.pred /\ u.done = q.done /\ u.children = q.children /\ u.kids = q.kids
        /\ u.refs = q.refs
    BY DEF RecT, FreeDeps, SameId
  <1> HIDE DEF u
  <1>3. Emptied(q, [u EXCEPT !.st = "over"]) /\ [u EXCEPT !.st = "over"].st = "over" /\ [u EXCEPT !.st = "over"].refs = q.refs
    BY <1>1, <1>2, StSet DEF Emptied, SameId, SameDeps, SameNums
  <1> DEFINE w == [u EXCEPT !.refs = 0]
  <1>4. /\ w \in RecT /\ SameId(u, w) /\ SameDeps(u, w) /\ w.children = u.children /\ w.kids = u.kids
        /\ w.refs = 0 /\ w.done = u.done
    <2>1. PICK n \in Int : n = 0
      OBVIOUS
    <2>2. w = [u EXCEPT !.refs = n]
      BY <2>1
    <2> HIDE DEF w
    <2> QED
      BY <1>1, <2>1, <2>2, RefsSet
  <1>5. [u EXCEPT !.refs = 0, !.st = "freed"] = [w EXCEPT !.st = "freed"]
    BY <1>1 DEF RecT
  <1> HIDE DEF w
  <1>6. Emptied(q, [w EXCEPT !.st = "freed"]) /\ [w EXCEPT !.st = "freed"].st = "freed" /\ [w EXCEPT !.st = "freed"].refs = 0
    <2>1. PICK e : e = [w EXCEPT !.st = "freed"]
      OBVIOUS
    <2>2. e \in RecT /\ SameId(w, e) /\ SameDeps(w, e) /\ SameNums(w, e) /\ e.done = w.done /\ e.st = "freed"
      BY <1>4, <2>1, StSet, Zenon
    <2>3. SameId(q, e)
      BY <1>2, <1>4, <2>2 DEF SameId
    <2>4. e.pred = u.pred /\ e.writer = u.writer /\ e.readers = u.readers /\ e.done = u.done
          /\ e.children = u.children /\ e.kids = u.kids /\ e.refs = 0
      BY <1>4, <2>2 DEF SameDeps, SameNums
    <2>5. Emptied(q, e)
      BY <1>1, <1>2, <2>2, <2>3, <2>4 DEF Emptied
    <2> QED
      BY <2>1, <2>2, <2>4, <2>5, Zenon
  <1>7. /\ Emptied(q, [u EXCEPT !.refs = 0, !.st = "freed"]) /\ [u EXCEPT !.refs = 0, !.st = "freed"].st = "freed"
        /\ [u EXCEPT !.refs = 0, !.st = "freed"].refs = 0
    BY <1>5, <1>6, Zenon
  <1> QED
    BY <1>3, <1>7, Zenon DEF u
\* The record of the innermost frame hands the references of its entries over.
LEMMA LeavingIs ==
  ASSUME TasksInv, NEW t \in Threads, NEW x \in Recs, x = Cur(t), Leaving(t), Static(x), rec[x].refs = 0,
         rec[x].st = "over" \/ (rec[x].st = "run" /\ ~ OpenGroup(x))
  PROVE  \E g : Ceases(t, x, g)
  <1> DEFINE d == DepRefs(rec[x])
             r == [FreeDeps(rec[x]) EXCEPT !.st = "over"]
             p == IF d = <<>> THEN "leave" ELSE "unref"
             g == [Frame(x, p) EXCEPT !.drop = d]
  <1>1. /\ Shape /\ StacksOK /\ rec \in [Recs -> RecT] /\ rec[x] \in RecT
    BY CurIs DEF Shape
  <1>2. /\ r \in RecT /\ SameId(rec[x], r) /\ SameNums(rec[x], r) /\ r.pred = rec[x].pred /\ r.done = rec[x].done
        /\ r.st = "over" /\ r.writer = None /\ r.readers = <<>>
    BY <1>1, FreeSet DEF Emptied, SameNums
  <1>3. rec' = [rec EXCEPT ![x] = r] /\ SetTop(t, g)
    BY DEF Leaving
  <1>4. d \in Seq(Recs)
    BY <1>1, DepRefsIs
  <1>5. g \in FrameT /\ g.tk = x /\ g.pc = p /\ g.drop = d /\ g.ctr = <<>>
    <2>1. p \in Pcs
      BY PcIs
    <2> HIDE DEF p, d
    <2> QED
      BY <1>4, <2>1, EmptySeq DEF Frame, FrameT, Ctrs
  <1>6. DepRefs(r) = <<>>
    BY <1>2, DepRefsIs
  <1> HIDE DEF r, g
  <1>7. rec' \in [Recs -> RecT] /\ rec'[x] = r /\ \A y \in Recs \ {x} : rec'[y] = rec[y]
    BY <1>1, <1>2, <1>3, RecSet
  <1>8. Topped(t, g)
    BY <1>1, <1>3, <1>5, SetTopStep
  <1>9. Ceases(t, x, g)
    BY <1>2, <1>5, <1>6, <1>7, <1>8 DEF Ceases
  <1> QED
    BY <1>9

LEMMA FinishRefsStep ==
  ASSUME TasksInv, NEW t \in Threads, FinishRefs(t)
  PROVE  TasksInv'
  <1>1. Fate(Top(t)) /\ Cur(t) \in Recs /\ Top(t).tk = Cur(t) /\ Top(t).pc = pc(t) /\ RecsOK
    BY CurIs
  <1>2. PICK x \in Recs : x = Cur(t)
    BY <1>1
  <1>3. pc(t) = "refs" /\ rec[x].refs = 0 /\ Leaving(t) /\ UNCHANGED <<grp, qVars, live, sync>>
    BY <1>2 DEF FinishRefs, Settled
  <1>4. rec[x].st = "over" /\ rec[x].inplace /\ Static(x)
    BY <1>1, <1>2, <1>3 DEF Fate, Static
  <1>5. x \notin Threads
    BY <1>1, <1>4 DEF RecsOK, Born
  <1>6. PICK g : Ceases(t, x, g)
    BY <1>2, <1>3, <1>4, LeavingIs
  <1> QED
    BY <1>3, <1>5, <1>6, CeasesStep

\* With no task unsettled nobody refers to an implicit task.
LEMMA QuietRefs ==
  ASSUME TasksInv, live = 0, NEW x \in Threads
  PROVE  rec[x].refs = 0
  <1>1. Shape /\ StacksOK /\ RecsOK /\ CountsOK /\ x \in Recs /\ x \notin Tasks
    BY CurIs, NoneFree
  <1>2. \A y \in Tasks : ~ Unsettled(y)
    <2> DEFINE A == {y \in Tasks : Unsettled(y)}
    <2>1. IsFiniteSet(A) /\ Cardinality(A) = 0
      BY <1>1, NoneFree, FS_Subset DEF CountsOK, LiveOK
    <2>2. A = {}
      BY <2>1, FS_EmptySet
    <2> QED
      BY <2>2
  <1>3. ~ Pending(x)
    BY <1>1 DEF Pending, Deferred
  <1>4. rec[x].children = 0
    <2>1. PendingOf(x) = {}
      <3> SUFFICES ASSUME NEW y \in Tasks, Pending(y) PROVE Unsettled(y)
        BY <1>2 DEF PendingOf
      <3> QED
        BY DEF Pending, Unsettled, Ending, pc
    <2>2. Cardinality(PendingOf(x)) = 0
      BY <2>1, FS_EmptySet
    <2> QED
      BY <1>1, <2>2 DEF CountsOK, ChildrenOK
  <1>5. Cardinality(Mentions(Entries, x)) = 0
    <2>1. Entries \in Family(Recs, Tasks)
      <3>1. \A y \in Recs : DepRefs(rec[y]) \in Seq(Tasks)
        BY <1>1, DepRefsIs DEF Shape
      <3> QED
        BY <3>1 DEF Entries, Family
    <2>2. \A y \in Recs : \A j \in DOMAIN Entries[y] : Entries[y][j] # x
      <3> SUFFICES ASSUME NEW y \in Recs, NEW j \in DOMAIN Entries[y] PROVE Entries[y][j] \in Tasks
        BY <1>1
      <3>1. Entries[y] \in Seq(Tasks)
        BY <2>1 DEF Family
      <3> QED
        BY <3>1
    <2> QED
      BY <2>1, <2>2, NoneFree, MentionsFinite
  <1>6. Cardinality(Mentions(Dropping, x)) = 0
    <2>1. Dropping \in Family(Threads, Recs)
      <3>1. \A s \in Threads : Top(s).drop \in Seq(Recs)
        BY <1>1, TopIs DEF FrameT
      <3> QED
        BY <3>1 DEF Dropping, Family
    <2>2. ASSUME NEW s \in Threads
          PROVE  Top(s).drop \in Seq(Tasks)
      <3>1. /\ Top(s) \in FrameT /\ Fate(Top(s)) /\ Drops(Top(s)) /\ Top(s).tk = Cur(s) /\ Top(s).pc = pc(s)
            /\ Cur(s) \in Recs
        BY CurIs
      <3>2. ~ Unsettled(Cur(s))
        BY <1>2 DEF Unsettled, Deferred
      <3>3. pc(s) \notin {"notify", "children", "group"}
        BY <3>1, <3>2 DEF Fate, Unsettled
      <3>4. CASE pc(s) # "unref"
        <4>1. Top(s).drop = <<>>
          BY <3>1, <3>3, <3>4 DEF Drops
        <4> QED
          BY <4>1, EmptySeq
      <3>5. CASE pc(s) = "unref"
        <4>1. ~ Deferred(Cur(s))
          BY <3>2, <3>5 DEF Unsettled
        <4>2. rec[Cur(s)].st \in {"run", "over"}
          BY <3>1, <3>5, <4>1 DEF Fate
        <4>3. Static(Cur(s))
          BY <3>1, <4>1, <4>2 DEF Deferred, Static, Recs
        <4> QED
          BY <3>1, <3>5, <4>3 DEF Drops
      <3> QED
        BY <3>4, <3>5
    <2>3. \A s \in Threads : \A j \in DOMAIN Dropping[s] : Dropping[s][j] # x
      <3> SUFFICES ASSUME NEW s \in Threads, NEW j \in DOMAIN Dropping[s] PROVE Dropping[s][j] \in Tasks
        BY <1>1
      <3>1. Dropping[s] \in Seq(Tasks)
        BY <2>2 DEF Dropping
      <3> QED
        BY <3>1
    <2> QED
      BY <2>1, <2>3, NoneFree, MentionsFinite
  <1>7. rec[x].refs = (IF Pending(x) THEN 1 ELSE 0) + rec[x].children
                  + Cardinality(Mentions(Entries, x)) + Cardinality(Mentions(Dropping, x))
    BY <1>1 DEF CountsOK, RefsOK
  <1> QED
    BY <1>3, <1>4, <1>5, <1>6, <1>7

LEMMA DrainTestStep ==
  ASSUME TasksInv, NEW t \in Threads, DrainTest(t)
  PROVE  TasksInv'
  <1>1. /\ Shape /\ StacksOK /\ BarrierOK /\ Fate(Top(t)) /\ Cur(t) \in Recs /\ Top(t).tk = Cur(t) /\ Top(t).pc = pc(t)
        /\ (Len(stack[t]) = 1 => Cur(t) = t) /\ (Len(stack[t]) # 1 => pc(t) \notin IdlePcs \cup {"out"})
        /\ Top(t) = stack[t][Len(stack[t])]
    BY CurIs, TopIs
  <1>2. pc(t) \in {"drain", "body"} /\ Len(stack[t]) = 1 /\ stack[t][1].pc = pc(t) /\ Cur(t) = t
    BY <1>1 DEF DrainTest, BodyOver, IdlePcs
  <1>3. ~ AtBarrier(t) /\ (~ OpenGroup(t) \/ stack[t][1].pc \in IdlePcs)
    BY <1>1, <1>2 DEF DrainTest, BodyOver, BarrierOK, IdlePcs
  <1>4. rec[t].group = None /\ rec[t].st = "run"
    BY <1>1, <1>2, <1>3, NoGroup DEF Fate, RunPcs, IdlePcs
  <1>5. CASE live # 0 /\ Goto(t, "find") /\ UNCHANGED rec
    <2>1. UNCHANGED <<rec, grp, qVars, live, sync>>
      BY <1>5 DEF DrainTest
    <2> QED
      BY <1>2, <1>3, <1>4, <1>5, <2>1, DrainLookStep
  <1>6. CASE live = 0 /\ Leaving(t)
    <2>1. UNCHANGED <<grp, qVars, live, sync>>
      BY DEF DrainTest
    <2>2. rec[t].refs = 0 /\ Static(t) /\ ~ OpenGroup(t) /\ t \in Recs
      BY <1>1, <1>2, <1>4, <1>6, QuietRefs DEF Static, OpenGroup
    <2>3. PICK g : Ceases(t, t, g)
      BY <1>2, <1>4, <1>6, <2>2, LeavingIs
    <2> QED
      BY <1>2, <1>3, <1>6, <2>1, <2>2, <2>3, CeasesStep
  <1> QED
    BY <1>5, <1>6 DEF DrainTest
-----------------------------------------------------------------------------
(* Steps that count a task x in or out.                                     *)
\* Every other task stays what it is.
OthersCounted(t, x) ==
  \A y \in Recs : y # x =>
    /\ (Deferred(y)' <=> Deferred(y)) /\ rec'[y].st = rec[y].st
    /\ Deferred(y) => rec'[y].parent = rec[y].parent
    /\ Deferred(y) /\ rec[y].st \notin {"wait", "run"} => Cur(t)' # y /\ Cur(t) # y

LEMMA LiveShift ==
  ASSUME Shape, StacksOK, LiveOK, NEW t \in Threads, Below(t), NEW x \in Tasks, OthersCounted(t, x),
         \/ live' = live /\ Unsettled(x) /\ Unsettled(x)'
         \/ live' = live + 1 /\ ~ Unsettled(x) /\ Unsettled(x)'
  PROVE  LiveOK'
  <1> DEFINE A == {y \in Tasks : Unsettled(y)}
             B == {y \in Tasks : Unsettled(y)'}
  <1>1. \A y \in Tasks : y # x => (Unsettled(y)' <=> Unsettled(y))
    BY UnsettledSame, NoneFree DEF OthersCounted
  <1>2. \A y : y # x => (y \in A <=> y \in B)
    BY <1>1
  <1>3. IsFiniteSet(A)
    BY NoneFree, FS_Subset
  <1>4. (x \in A <=> Unsettled(x)) /\ (x \in B <=> Unsettled(x)')
    OBVIOUS
  <1>5. live = Cardinality(A) /\ (LiveOK' <=> live' = Cardinality(B))
    BY DEF LiveOK
  <1> HIDE DEF A, B
  <1> QED
    BY <1>2, <1>3, <1>4, <1>5, CountMoves

LEMMA PendingShift ==
  ASSUME Shape, StacksOK, NEW t \in Threads, Below(t), NEW x \in Tasks, OthersCounted(t, x)
  PROVE  \A y \in Recs : y # x => (Pending(y)' <=> Pending(y)) /\ (GroupPending(y)' <=> GroupPending(y))
  <1> TAKE y \in Recs
  <1> HAVE y # x
  <1>1. /\ (Deferred(y)' <=> Deferred(y)) /\ rec'[y].st = rec[y].st
        /\ (Deferred(y) /\ rec[y].st \notin {"wait", "run"} => Cur(t)' # y /\ Cur(t) # y)
    BY DEF OthersCounted
  <1>2. Pending(y)' <=> Pending(y)
    BY <1>1, PendingSame
  <1>3. GroupPending(y)' <=> GroupPending(y)
    BY <1>1, GroupPendingSame
  <1> QED
    BY <1>2, <1>3

\* The children of the parent p of x, counted before or after the step.
LEMMA ChildrenShift ==
  ASSUME Shape, StacksOK, ChildrenOK, NEW t \in Threads, Below(t), NEW x \in Tasks, OthersCounted(t, x),
         NEW p \in Recs,
         \/ /\ Pending(x) /\ ~ Pending(x)' /\ rec[x].parent = p /\ rec'[p].children = rec[p].children - 1
         \/ /\ ~ Pending(x) /\ Pending(x)' /\ rec'[x].parent = p /\ rec'[p].children = rec[p].children + 1,
         \A y \in Recs : y # p => rec'[y].children = rec[y].children
  PROVE  ChildrenOK'
  <1>1. \A y \in Tasks : y # x => (Pending(y)' <=> Pending(y)) /\ (Pending(y) => rec'[y].parent = rec[y].parent)
    <2>1. \A y \in Tasks : y # x => (Pending(y)' <=> Pending(y))
      BY PendingShift, NoneFree
    <2>2. \A y \in Tasks : y # x /\ Pending(y) => rec'[y].parent = rec[y].parent
      BY NoneFree DEF OthersCounted, Pending
    <2> QED
      BY <2>1, <2>2
  <1>2. ASSUME NEW q \in Recs
        PROVE  rec'[q].children = Cardinality(PendingOf(q)')
    <2>1. \A y : y # x => (y \in PendingOf(q) <=> y \in PendingOf(q)')
      BY <1>1 DEF PendingOf
    <2>2. IsFiniteSet(PendingOf(q))
      BY NoneFree, FS_Subset DEF PendingOf
    <2>3. rec[q].children = Cardinality(PendingOf(q))
      BY DEF ChildrenOK
    <2>4. x \in PendingOf(q) <=> Pending(x) /\ rec[x].parent = q
      BY DEF PendingOf
    <2>5. x \in PendingOf(q)' <=> Pending(x)' /\ rec'[x].parent = q
      BY DEF PendingOf
    <2>6. CASE q = p
      BY <2>1, <2>2, <2>3, <2>4, <2>5, <2>6, CountMoves
    <2>7. CASE q # p
      BY <2>1, <2>2, <2>3, <2>4, <2>5, <2>7, CountMoves
    <2> QED
      BY <2>6, <2>7
  <1> QED
    BY <1>2 DEF ChildrenOK

\* The frame of x with the references d to drop, after counters cs were told.
IsTold(g, x, d, cs, next) ==
  /\ g \in FrameT /\ g.tk = x /\ g.ctr = <<>> /\ g.drop = d /\ g.tell = cs /\ g.next = next
  /\ cs = <<>> => g.pc = next
  /\ cs # <<>> => g.pc = "notify"

\* A frame that is nowhere yet.
FrameU == [tk : Recs, pc : {""}, ctr : Ctrs, tell : Seq(Ctrs),
           next : {"", "children", "group", "unref"}, drop : Seq(Recs)]

LEMMA ToldIs ==
  ASSUME NEW x \in Recs, NEW d \in Seq(Recs), NEW cs \in Seq(Ctrs), NEW next \in {"children", "group", "unref"}
  PROVE  IsTold(ToNotify([Frame(x, "") EXCEPT !.drop = d], cs, next), x, d, cs, next)
  <1>1. /\ next \in Pcs /\ "notify" \in Pcs /\ <<>> \in Ctrs /\ <<>> \in Seq(Ctrs) /\ <<>> \in Seq(Recs)
    BY PcIs, EmptySeq DEF Ctrs
  <1> DEFINE h == [Frame(x, "") EXCEPT !.drop = d]
  <1>2. h \in FrameU /\ h.tk = x /\ h.ctr = <<>> /\ h.drop = d
    BY <1>1 DEF Frame, FrameU
  <1> HIDE DEF h
  <1>3. IsTold(ToNotify(h, cs, next), x, d, cs, next)
    BY <1>1, <1>2 DEF IsTold, FrameU, FrameT, ToNotify
  <1> QED
    BY <1>3 DEF h

LEMMA OccTwo ==
  ASSUME NEW p \in Recs, NEW x \in Recs, NEW y
  PROVE  Occ(<<p, x>>, y) = (IF p = y THEN 1 ELSE 0) + (IF x = y THEN 1 ELSE 0)
  <1>0. <<p, x>> \in Seq(Recs)
    OBVIOUS
  <1>1. PICK d \in Seq(Recs) : d = <<p, x>>
    BY <1>0, Zenon
  <1>2. d # <<>> /\ Head(d) = p /\ Tail(d) = <<x>>
    BY <1>1
  <1>3. Occ(d, y) = Occ(Tail(d), y) + IF Head(d) = y THEN 1 ELSE 0
    BY <1>2, OccTail
  <1>4. Occ(<<x>>, y) = IF x = y THEN 1 ELSE 0
    BY OccOne
  <1> QED
    BY <1>1, <1>2, <1>3, <1>4
LEMMA RecSet2 ==
  ASSUME rec \in [Recs -> RecT], NEW p \in Recs, NEW x \in Recs, p # x, NEW q \in RecT, NEW r \in RecT,
         rec' = [rec EXCEPT ![p] = q, ![x] = r]
  PROVE  rec' \in [Recs -> RecT] /\ rec'[p] = q /\ rec'[x] = r /\ \A y \in Recs : y # p /\ y # x => rec'[y] = rec[y]
  OBVIOUS

LEMMA ChildrenSet ==
  ASSUME NEW q \in RecT, NEW n \in Int
  PROVE  /\ [q EXCEPT !.children = n] \in RecT /\ SameId(q, [q EXCEPT !.children = n])
         /\ SameDeps(q, [q EXCEPT !.children = n]) /\ [q EXCEPT !.children = n].children = n
         /\ [q EXCEPT !.children = n].kids = q.kids /\ [q EXCEPT !.children = n].refs = q.refs
         /\ [q EXCEPT !.children = n].st = q.st /\ [q EXCEPT !.children = n].done = q.done
  BY DEF RecT, SameId, SameDeps

\* The records after the end of x is counted with its parent p.
Counted(x, p) ==
  /\ rec' \in [Recs -> RecT] /\ (\A y \in Recs : y # p /\ y # x => rec'[y] = rec[y])
  /\ \A y \in Recs : SameId(rec[y], rec'[y]) /\ SameDeps(rec[y], rec'[y])
                     /\ rec'[y].kids = rec[y].kids /\ rec'[y].refs = rec[y].refs /\ rec'[y].done = rec[y].done
  /\ rec'[x].st = "over" /\ rec'[x].children = rec[x].children
  /\ rec'[p].st = rec[p].st /\ rec'[p].children = rec[p].children - 1

LEMMA CountedIs ==
  ASSUME Shape, NEW p \in Recs, NEW x \in Recs, p # x,
         rec' = [rec EXCEPT ![p].children = @ - 1, ![x].st = "over"]
  PROVE  Counted(x, p)
  <1>1. rec \in [Recs -> RecT] /\ rec[x] \in RecT /\ rec[p] \in RecT /\ rec[p].children \in Int
    BY DEF Shape, RecT
  <1>2. PICK n \in Int : n = rec[p].children - 1
    BY <1>1
  <1> DEFINE q == [rec[p] EXCEPT !.children = n]
             r == [rec[x] EXCEPT !.st = "over"]
  <1>3. /\ q \in RecT /\ SameId(rec[p], q) /\ SameDeps(rec[p], q) /\ q.children = n /\ q.kids = rec[p].kids
        /\ q.refs = rec[p].refs /\ q.st = rec[p].st /\ q.done = rec[p].done
    BY <1>1, ChildrenSet
  <1>4. /\ r \in RecT /\ SameId(rec[x], r) /\ SameDeps(rec[x], r) /\ SameNums(rec[x], r)
        /\ r.done = rec[x].done /\ r.st = "over"
    BY <1>1, StSet
  <1>5. rec' = [rec EXCEPT ![p] = q, ![x] = r]
    BY <1>1, <1>2
  <1> HIDE DEF q, r
  <1>6. rec' \in [Recs -> RecT] /\ rec'[p] = q /\ rec'[x] = r /\ \A y \in Recs : y # p /\ y # x => rec'[y] = rec[y]
    BY <1>1, <1>3, <1>4, <1>5, RecSet2
  <1>7. \A y \in Recs : y # p /\ y # x => SameId(rec[y], rec'[y]) /\ SameDeps(rec[y], rec'[y])
    BY <1>6 DEF SameId, SameDeps
  <1> QED
    BY <1>2, <1>3, <1>4, <1>6, <1>7 DEF Counted, SameNums

LEMMA ChildDoneStep ==
  ASSUME TasksInv, NEW t \in Threads, ChildDone(t)
  PROVE  TasksInv'
  <1>1. /\ Shape /\ StacksOK /\ RecsOK /\ QueuesOK /\ CountsOK /\ GroupsOK /\ BarrierOK
        /\ Top(t) \in FrameT /\ Cur(t) \in Recs /\ Top(t).tk = Cur(t) /\ Top(t).pc = pc(t)
        /\ Fate(Top(t)) /\ Counts(Top(t)) /\ Drops(Top(t))
        /\ (Len(stack[t]) = 1 => Cur(t) = t) /\ (Len(stack[t]) # 1 => Cur(t) \in Tasks)
    BY CurIs
  <1>2. PICK x \in Recs : x = Cur(t)
    BY <1>1
  <1>3. PICK p : p = rec[x].parent
    OBVIOUS
  <1> DEFINE cs == IF rec[p].children = 1 THEN <<<<"children", p>>>> ELSE <<>>
             next == IF rec[x].group = None THEN "unref" ELSE "group"
             f == ToNotify([Frame(x, "") EXCEPT !.drop = Dropped(x)], cs, next)
  <1>4. /\ pc(t) = "children" \/ (Ends(t) /\ ~ Tracked(x) /\ ~ rec[x].inplace)
        /\ rec' = [rec EXCEPT ![p].children = @ - 1, ![x].st = "over"] /\ SetTop(t, f)
        /\ UNCHANGED <<grp, qVars, live, sync>>
    BY <1>2, <1>3 DEF ChildDone
  <1>5. /\ pc(t) \in {"children", "body"} /\ Deferred(x) /\ x \in Tasks /\ x \notin Threads
        /\ (pc(t) = "children" => rec[x].st = "over") /\ (pc(t) = "body" => rec[x].st = "run" /\ ~ OpenGroup(x) /\ ~ Tracked(x))
    <2>1. CASE pc(t) = "children"
      BY <1>1, <1>2, <2>1, NoneFree DEF Fate, Deferred
    <2>2. CASE Ends(t) /\ ~ Tracked(x) /\ ~ rec[x].inplace
      <3>1. pc(t) = "body" /\ Len(stack[t]) # 1 /\ ~ OpenGroup(x)
        BY <1>1, <1>2, <2>2, TopIs DEF Ends
      <3>2. rec[x].st = "run" /\ x \in Tasks
        BY <1>1, <1>2, <3>1 DEF Fate, RunPcs
      <3> QED
        BY <2>2, <3>1, <3>2, NoneFree DEF Deferred
    <2> QED
      BY <1>4, <2>1, <2>2
  <1>6. Born(x) /\ Gone(x) /\ Entry(x) /\ Waits4(x)
    BY <1>1 DEF RecsOK
  <1>7. p \in Recs /\ p # x
    <2>1. rec[x].creator \in Recs /\ (rec[x].creator \in Tasks => rec[x].creator < x) /\ rec[x].parent = rec[x].creator
      BY <1>5, <1>6 DEF Born, Deferred
    <2> QED
      BY <1>3, <1>5, <2>1, NoneFree DEF Recs
  <1>8. Counted(x, p)
    BY <1>1, <1>4, <1>7, CountedIs
  <1>9. cs \in Seq(Ctrs) /\ next \in {"group", "unref"} /\ (next = "group" <=> rec[x].group # None)
    <2>1. <<"children", p>> \in Ctrs
      BY <1>7 DEF Ctrs
    <2> QED
      BY <2>1, EmptySeq
  <1>10. Dropped(x) = <<p, x>> /\ Dropped(x) \in Seq(Recs)
    BY <1>3, <1>7 DEF Dropped
  <1> HIDE DEF cs, next
  <1>11. IsTold(f, x, Dropped(x), cs, next)
    BY <1>9, <1>10, ToldIs
  <1> HIDE DEF f
  <1>12. Topped(t, f) /\ Below(t) /\ Top(t)' = f /\ Cur(t)' = x /\ pc(t)' = f.pc
    BY <1>1, <1>4, <1>11, SetTopStep, TopAfter DEF IsTold, Topped, Cur, pc
  <1>13. /\ f \in FrameT /\ f.tk = x /\ f.ctr = <<>> /\ f.drop = Dropped(x) /\ f.next = next
         /\ f.pc \in {"notify", "group", "unref"} /\ (f.pc = "notify" => f.tell # <<>>)
         /\ (f.pc # "notify" => f.pc = next) /\ ~ Ending(f) /\ (InGroup(f) <=> rec[x].group # None)
    BY <1>9, <1>11 DEF IsTold, Ending, InGroup
  <1>14. stack'[t] # <<>>
    <2>1. PICK n \in Nat : n = Len(stack[t]) /\ n # 0
      BY <1>1, TopIs
    <2>2. Len(stack'[t]) = n
      BY <1>12, <2>1 DEF Topped
    <2> QED
      BY <2>1, <2>2
  <1>15. dq' = dq /\ base' = base /\ hq' = hq /\ grp' = grp /\ live' = live /\ UNCHANGED barVars
         /\ tm' = tm /\ nwait' = nwait /\ sleepers' = sleepers
         /\ barrived' = barrived /\ bgen' = bgen /\ gen' = gen /\ passed' = passed
    BY <1>4 DEF qVars, sync, idleVars, waitVars, barVars
  <1>16. /\ rec' \in [Recs -> RecT]
         /\ \A y \in Recs : /\ SameId(rec[y], rec'[y]) /\ Ident(y) /\ DepRefs(rec'[y]) = DepRefs(rec[y])
                            /\ rec'[y].pred = rec[y].pred /\ rec'[y].kids = rec[y].kids
                            /\ rec'[y].refs = rec[y].refs /\ rec'[y].done = rec[y].done
                            /\ (y # x => rec'[y].st = rec[y].st)
         /\ rec'[x].st = "over" /\ rec[x].st \in {"run", "over"}
    <2>1. \A y \in Recs : y # x => rec'[y].st = rec[y].st
      BY <1>8 DEF Counted
    <2> QED
      BY <1>5, <1>8, <2>1, SameIs DEF Counted, DepRefs, SameDeps
  <1>17. Lasts
    BY <1>16 DEF Lasts, Ident
  <1>18. NewLinks
    <2>1. \A s \in Threads : s # t => ((pc(s)' = "link") <=> (pc(s) = "link")) /\ Linked(s)' = Linked(s)
      BY <1>1, <1>12, OtherMarks, OtherTops DEF Linked
    <2> QED
      BY <1>12, <1>13, <2>1 DEF NewLinks
  <1>19. \A y : Queued(y)' <=> Queued(y)
    BY <1>15 DEF Queued
  <1>20. \A y \in Recs : OnStack(y) => OnStack(y)'
    BY <1>1, <1>2, <1>12, <1>13, StackedAfter
  <1>21. \A y \in Recs : Deferred(y)' <=> Deferred(y)
    BY <1>16 DEF Deferred, SameId
  <1>22. ASSUME NEW y \in Recs, y # x
         PROVE  RecOK(y)' /\ Gone(y)'
    <2>1. rec[y].st = "none" => rec'[y] = rec[y]
      <3>1. y = p => rec[y].st # "none"
        <4>1. p \in Tasks /\ rec[p].st = "none" => rec[p].children = 0
          BY <1>1, NoneFree DEF RecsOK, Born, NoRec
        <4>2. rec[p].children > 0
          <5>1. Pending(x)
            BY <1>1, <1>2, <1>5 DEF Pending, Ending
          <5>2. x \in PendingOf(p) /\ IsFiniteSet(PendingOf(p))
            BY <1>3, <1>5, <5>1, NoneFree, FS_Subset DEF PendingOf
          <5>3. Cardinality(PendingOf(p)) # 0 /\ Cardinality(PendingOf(p)) \in Nat
            BY <5>2, FS_EmptySet, FS_CardinalityType
          <5>4. rec[p].children = Cardinality(PendingOf(p))
            BY <1>1, <1>7 DEF CountsOK, ChildrenOK
          <5> QED
            BY <5>3, <5>4
        <4>3. p \in Threads => rec[p].st # "none"
          BY <1>1, <1>7 DEF RecsOK, Born
        <4> QED
          BY <1>7, <4>1, <4>2, <4>3 DEF Recs
      <3> QED
        BY <1>8, <1>22, <3>1 DEF Counted
    <2>2. rec[y].pred \subseteq Tasks
      BY <1>1 DEF Shape, RecT
    <2>3. Alike(y)
      BY <1>16, <1>19, <1>20, <1>22, <2>1, <2>2, NoneFree DEF Alike
    <2> QED
      BY <1>1, <1>2, <1>12, <1>16, <1>17, <1>18, <1>22, <2>3, RecKept, GoneKept DEF Ident
  <1>23. RecOK(x)' /\ Gone(x)'
    <2>1. Born(x)'
      <3>1. ~ rec'[x].inplace
        BY <1>5, <1>16 DEF Deferred, SameId
      <3>2. Tracked(x) => (rec'[x].done <=> Over(x)')
        <4>1. Tracked(x) => rec[x].done
          BY <1>5, <1>6 DEF Born, Over
        <4> QED
          BY <1>16, <4>1 DEF Over
      <3> QED
        BY <1>5, <1>6, <1>16, <1>17, <3>1, <3>2, BornKept
    <2>2. Waits4(x)'
      <3>1. rec[x].pred = {}
        BY <1>6, <1>16 DEF Waits4
      <3> QED
        BY <1>16, <3>1 DEF Waits4
    <2>3. Entry(x)'
      BY <1>6, <1>16, <1>17, <1>18, EntryKept
    <2>4. Gone(x)'
      <3>1. rec[x].refs > 0 /\ ~ rec'[x].inplace
        BY <1>5, <1>6, <1>16 DEF Gone, Deferred, SameId
      <3>2. ~ Static(x)'
        BY <1>5, <3>1 DEF Static
      <3> QED
        BY <1>16, <3>1, <3>2 DEF Gone
    <2> QED
      BY <2>1, <2>2, <2>3, <2>4 DEF RecOK
  <1>24. QueuesOK'
    <2>1. \A y \in Tasks : Queued(y) => rec'[y].st = rec[y].st /\ rec'[y].pred = rec[y].pred /\ rec'[y].kind = rec[y].kind
      <3>1. \A y \in Tasks : Queued(y) => rec[y].st = "wait"
        BY <1>1 DEF QueuesOK
      <3> QED
        BY <1>16, <3>1, NoneFree DEF SameId
    <2>2. \A y \in Tasks : Queued(y)' => rec'[y].st = "wait" /\ rec'[y].pred = {} /\ ~ rec'[y].kind.if0
      BY <1>1, <1>19, <2>1 DEF QueuesOK
    <2> QED
      BY <1>1, <1>15, <2>2 DEF QueuesOK
  <1>25. OthersCounted(t, x)
    BY <1>2, <1>12, <1>16, <1>21 DEF OthersCounted, SameId
  <1>26. Pending(x) /\ ~ Pending(x)' /\ Unsettled(x) /\ Unsettled(x)'
    <2>1. Pending(x) /\ Unsettled(x)
      BY <1>1, <1>2, <1>5 DEF Pending, Ending, Unsettled
    <2>2. Deferred(x)'
      BY <1>5, <1>21
    <2>3. \A s \in Threads : Cur(s)' = x => s = t
      BY <1>1, <1>2, <1>12, AloneAfter
    <2>4. ~ Ending(Top(t))'
      BY <1>12, <1>13 DEF Ending
    <2>5. ~ Pending(x)'
      BY <1>16, <2>3, <2>4 DEF Pending
    <2>6. Unsettled(x)'
      BY <1>12, <1>13, <2>2 DEF Unsettled
    <2> QED
      BY <2>1, <2>5, <2>6
  <1>27. LiveOK'
    BY <1>1, <1>5, <1>12, <1>15, <1>25, <1>26, LiveShift DEF CountsOK
  <1>28. rec'[p].children = rec[p].children - 1 /\ \A y \in Recs : y # p => rec'[y].children = rec[y].children
    BY <1>8 DEF Counted
  <1>29. ChildrenOK'
    BY <1>1, <1>3, <1>5, <1>7, <1>12, <1>25, <1>26, <1>28, ChildrenShift DEF CountsOK
  <1>30. \A y \in Recs : y # x => (Pending(y)' <=> Pending(y)) /\ (GroupPending(y)' <=> GroupPending(y))
    BY <1>1, <1>5, <1>12, <1>25, PendingShift
  <1>31. Top(t).drop = <<>>
    BY <1>1, <1>5 DEF Drops
  <1>32. RefsOK'
    <2>1. ASSUME NEW y \in Recs
          PROVE  Balanced(t, x, y)
      <3>1. DepRefs(rec'[x]) = DepRefs(rec[x]) /\ rec'[y].refs = rec[y].refs
        BY <1>16
      <3>2. PICK a \in Nat : a = Occ(DepRefs(rec[x]), y)
        BY <1>1, DepRefsIs DEF Shape
      <3>3. PICK r \in Int : r = rec[y].refs
        BY <1>1 DEF Shape, RecT
      <3>4. PICK c \in Int : c = rec[y].children
        BY <1>1 DEF Shape, RecT
      <3>5. Occ(Top(t).drop, y) = 0
        BY <1>31, OccEmpty
      <3>6. Occ(Top(t)'.drop, y) = (IF p = y THEN 1 ELSE 0) + (IF x = y THEN 1 ELSE 0)
        <4>1. Top(t)'.drop = <<p, x>>
          BY <1>10, <1>12, <1>13
        <4> QED
          BY <1>7, <4>1, OccTwo
      <3>7. CASE y = x
        BY <1>7, <1>26, <1>28, <3>1, <3>2, <3>3, <3>4, <3>5, <3>6, <3>7 DEF Balanced
      <3>8. CASE y = p
        <4>1. PICK b \in {0, 1} : b = (IF Pending(y) THEN 1 ELSE 0) /\ b = (IF Pending(y)' THEN 1 ELSE 0)
          BY <1>7, <1>30, <3>8
        <4>2. r + b + c + a + 0 = r + b + (c - 1) + a + 1
          BY <3>2, <3>3, <3>4, <4>1
        <4>3. Occ(Top(t)'.drop, y) = 1 /\ rec'[y].children = c - 1
          BY <1>7, <1>28, <3>4, <3>6, <3>8
        <4> QED
          BY <3>1, <3>2, <3>3, <3>4, <3>5, <4>1, <4>2, <4>3 DEF Balanced
      <3>9. CASE y # x /\ y # p
        <4>1. PICK b \in {0, 1} : b = (IF Pending(y) THEN 1 ELSE 0) /\ b = (IF Pending(y)' THEN 1 ELSE 0)
          BY <1>30, <3>9
        <4>2. Occ(Top(t)'.drop, y) = 0 /\ rec'[y].children = c
          BY <1>28, <3>4, <3>6, <3>9
        <4> QED
          BY <3>1, <3>2, <3>3, <3>4, <3>5, <4>1, <4>2 DEF Balanced
      <3> QED
        BY <3>7, <3>8, <3>9
    <2>2. \A y \in Recs : y # x => DepRefs(rec'[y]) = DepRefs(rec[y])
      BY <1>16
    <2> QED
      BY <1>1, <1>12, <1>14, <1>16, <2>1, <2>2, RefsMove DEF CountsOK
  <1>33. Len(stack[t]) # 1 /\ Len(stack[t]) > 1
    BY <1>1, <1>2, <1>5, Deeper
  <1>34. EndOK'
    <2>1. rec[t].st = "run"
      BY <1>1, <1>33, BottomRuns
    <2>2. rec'[t].st = "run"
      BY <1>5, <1>16, <2>1, NoneFree
    <2> QED
      BY <2>2 DEF EndOK
  <1>35. SleepOK'
    <2>1. pc(t) \notin SlotPcs \cup TcPcs /\ pc(t)' \notin SlotPcs \cup TcPcs
      BY <1>5, <1>12, <1>13 DEF SlotPcs, TcPcs
    <2> QED
      BY <1>1, <1>12, <1>15, <2>1, AwakeStep DEF CountsOK
  <1>36. Undisturbed(t, None)
    <2>1. \A y \in Recs \ {Cur(t), None} : Steady(y)
      BY <1>2, <1>16 DEF Steady, SameId
    <2> QED
      BY <1>1, <1>15, <1>16, <1>19, <2>1, NoneFree, NoneNowhere DEF Undisturbed
  <1>37. StacksOK'
    <2>1. Deferred(x)' /\ ~ Static(x)'
      BY <1>5, <1>21 DEF Deferred, Static
    <2>2. Fate(Top(t))'
      BY <1>12, <1>13, <1>16, <2>1 DEF Fate, RunPcs, IdlePcs, TcPcs, WaitPcs
    <2>3. Counts(Top(t))'
      BY <1>12, <1>13 DEF Counts, WaitPcs
    <2>4. Drops(Top(t))'
      <3>1. Dropped(x)' = Dropped(x) /\ rec'[x].group = rec[x].group
        BY <1>16 DEF Dropped, SameId
      <3>2. f.drop # <<>>
        BY <1>10, <1>13
      <3> QED
        BY <1>9, <1>12, <1>13, <1>16, <2>1, <3>1, <3>2 DEF Drops
    <2>5. f.pc \notin IdlePcs \cup {"out"}
      BY <1>13 DEF IdlePcs, TcPcs
    <2> QED
      BY <1>2, <1>12, <1>13, <1>36, <2>1, <2>2, <2>3, <2>4, <2>5, ToppedOK
  <1>38. BarrierOK'
    <2>1. \A y \in Recs : rec[y].st # "none" => rec'[y].epoch = rec[y].epoch /\ (Over(y) => Over(y)')
      BY <1>16 DEF Over, SameId
    <2>2. \A y \in Tasks : rec[y].st = "none" => rec'[y].st = "none"
      BY <1>16, NoneFree
    <2> QED
      BY <1>12, <1>15, <1>33, <2>1, <2>2, BarrierStays
  <1>39. GroupsOK'
    <2>1. \A y \in Recs : rec'[y].home = rec[y].home /\ rec'[y].group = rec[y].group
      BY <1>16 DEF SameId
    <2>2. \A y \in Recs : rec[y].st = "run" /\ OpenGroup(y) => rec'[y].st = "run"
      BY <1>5, <1>16
    <2>3. \A s \in Threads : stack'[s][1].pc \in IdlePcs => stack[s][1].pc \in IdlePcs \/ rec[s].group = None
      BY <1>1, <1>12, <1>33, FirstAbove
    <2>4. \A y \in Tasks : rec[y].st = "none" => rec'[y].st = "none"
      BY <1>16, NoneFree
    <2>5. rec[x].home # None => (GroupPending(x)' <=> GroupPending(x))
      <3> SUFFICES ASSUME rec[x].home # None PROVE GroupPending(x)' /\ GroupPending(x)
        OBVIOUS
      <3>1. rec[x].group # None
        BY <1>1 DEF GroupsOK
      <3>2. InGroup(Top(t))'
        BY <1>12, <1>13, <3>1 DEF InGroup, Ending
      <3>3. GroupPending(x)'
        BY <1>5, <1>12, <1>21, <3>2 DEF GroupPending
      <3>4. GroupPending(x)
        BY <1>1, <1>2, <1>5 DEF GroupPending, InGroup, Ending
      <3> QED
        BY <3>3, <3>4
    <2> QED
      BY <1>1, <1>15, <1>30, <2>1, <2>2, <2>3, <2>4, <2>5, NoneFree, GroupsKept
  <1>40. Shape'
    BY <1>1, <1>12, <1>15, <1>16 DEF Shape, Below
  <1> QED
    BY <1>22, <1>23, <1>24, <1>27, <1>29, <1>32, <1>34, <1>35, <1>37, <1>38, <1>39, <1>40 DEF TasksInv, CountsOK, RecsOK, RecOK
-----------------------------------------------------------------------------
(* A reference is dropped, and the last one frees the record.               *)
Last1(y) == rec[y].refs = 1 /\ ~ Static(y)
DropRec(y) ==
  /\ rec' \in [Recs -> RecT] /\ (\A z \in Recs : z # y => rec'[z] = rec[z])
  /\ SameId(rec[y], rec'[y]) /\ rec'[y].pred = rec[y].pred /\ rec'[y].done = rec[y].done
  /\ rec'[y].children = rec[y].children /\ rec'[y].kids = rec[y].kids
  /\ Last1(y) => rec'[y].st = "freed" /\ rec'[y].refs = 0 /\ DepRefs(rec'[y]) = <<>>
  /\ ~ Last1(y) => /\ rec'[y].st = rec[y].st /\ rec'[y].refs = rec[y].refs - 1
                   /\ DepRefs(rec'[y]) = DepRefs(rec[y])

LEMMA DropRecIs ==
  ASSUME Shape, NEW y \in Recs, NEW q, rec' = [rec EXCEPT ![y] = q],
         rec[y].refs = 1 /\ ~ Static(y) => q = [FreeDeps(rec[y]) EXCEPT !.refs = 0, !.st = "freed"],
         ~ (rec[y].refs = 1 /\ ~ Static(y)) => q = [rec[y] EXCEPT !.refs = rec[y].refs - 1]
  PROVE  DropRec(y)
  <1>1. rec \in [Recs -> RecT] /\ rec[y] \in RecT
    BY DEF Shape
  <1>2. PICK n \in Int : n = rec[y].refs
    BY <1>1 DEF RecT
  <1>3. n - 1 \in Int
    BY <1>2
  <1>4. CASE Last1(y)
    <2>1. PICK r : r = [FreeDeps(rec[y]) EXCEPT !.refs = 0, !.st = "freed"]
      OBVIOUS
    <2>2. Emptied(rec[y], r) /\ r.st = "freed" /\ r.refs = 0
      BY <1>1, <2>1, FreeSet
    <2>3. rec' = [rec EXCEPT ![y] = r]
      BY <1>4, <2>1 DEF Last1
    <2>4. rec' \in [Recs -> RecT] /\ rec'[y] = r /\ \A z \in Recs \ {y} : rec'[z] = rec[z]
      BY <1>1, <2>2, <2>3, RecSet DEF Emptied
    <2>5. DepRefs(r) = <<>>
      BY <2>2, DepRefsIs DEF Emptied
    <2> QED
      BY <1>4, <2>2, <2>4, <2>5 DEF DropRec, Emptied
  <1>5. CASE ~ Last1(y)
    <2>1. PICK r : r = [rec[y] EXCEPT !.refs = n - 1]
      OBVIOUS
    <2>2. r \in RecT /\ SameId(rec[y], r) /\ SameDeps(rec[y], r) /\ r.children = rec[y].children
          /\ r.kids = rec[y].kids /\ r.refs = n - 1 /\ r.st = rec[y].st /\ r.done = rec[y].done
      BY <1>1, <1>3, <2>1, RefsSet
    <2>3. rec' = [rec EXCEPT ![y] = r]
      <3>1. ~ (rec[y].refs = 1 /\ ~ Static(y))
        BY <1>5 DEF Last1
      <3>2. rec' = [rec EXCEPT ![y] = [rec[y] EXCEPT !.refs = rec[y].refs - 1]]
        BY <3>1
      <3> QED
        BY <1>2, <2>1, <3>2
    <2>4. rec' \in [Recs -> RecT] /\ rec'[y] = r /\ \A z \in Recs \ {y} : rec'[z] = rec[z]
      BY <1>1, <2>2, <2>3, RecSet
    <2>5. DepRefs(r) = DepRefs(rec[y])
      BY <2>2 DEF SameDeps, DepRefs
    <2> QED
      BY <1>2, <1>5, <2>2, <2>4, <2>5 DEF DropRec, SameDeps
  <1> QED
    BY <1>4, <1>5

\* A record some thread has a reference to drop to is there, and still counted.
LEMMA DropHeld ==
  ASSUME TasksInv, NEW t \in Threads, Top(t).drop # <<>>, NEW y, y = Head(Top(t).drop)
  PROVE  /\ y \in Recs /\ rec[y].st \notin {"none", "freed"} /\ rec[y].refs \in Nat /\ rec[y].refs > 0
         /\ (Static(y) => rec[y].kids)
         /\ Last1(y) =>
              /\ Deferred(y) /\ ~ Pending(y) /\ rec[y].st = "over"
              /\ \A s \in Threads : s # t => \A j \in DOMAIN Top(s).drop : Top(s).drop[j] # y
  <1>1. Shape /\ StacksOK /\ RecsOK /\ CountsOK /\ Top(t) \in FrameT
    BY CurIs
  <1>2. Dropping \in Family(Threads, Recs)
    <2>1. \A s \in Threads : Top(s).drop \in Seq(Recs)
      BY <1>1, TopIs DEF FrameT
    <2> QED
      BY <2>1 DEF Dropping, Family
  <1>3. Top(t).drop \in Seq(Recs) /\ Dropping[t] = Top(t).drop
    BY <1>1 DEF FrameT, Dropping
  <1>4. y \in Recs /\ Occ(Top(t).drop, y) = Occ(Tail(Top(t).drop), y) + 1 /\ Tail(Top(t).drop) \in Seq(Recs)
    BY <1>3, OccTail
  <1>5. PICK a \in Nat : a = Occ(Tail(Top(t).drop), y)
    BY <1>4, OccIs
  <1>6. PICK m \in Nat : m = Cardinality(Rest(Dropping, t, y))
    BY <1>2, NoneFree, MentionsAre, FS_CardinalityType
  <1>7. Cardinality(Mentions(Dropping, y)) = m + a + 1
    <2>1. Cardinality(Mentions(Dropping, y)) = Cardinality(Rest(Dropping, t, y)) + Occ(Dropping[t], y)
      BY <1>2, NoneFree, MentionsAre
    <2> QED
      BY <1>3, <1>4, <1>5, <1>6, <2>1
  <1>8. PICK n \in Nat : n = Cardinality(Mentions(Entries, y))
    <2>1. Entries \in Family(Recs, Recs)
      <3>1. \A z \in Recs : DepRefs(rec[z]) \in Seq(Recs)
        BY <1>1, DepRefsIs DEF Shape
      <3> QED
        BY <3>1 DEF Entries, Family
    <2> QED
      BY <2>1, NoneFree, MentionsFinite
  <1>9. PICK c \in Nat : c = rec[y].children
    <2>1. IsFiniteSet(PendingOf(y))
      BY NoneFree, FS_Subset DEF PendingOf
    <2> QED
      BY <1>1, <1>4, <2>1, FS_CardinalityType DEF CountsOK, ChildrenOK
  <1>10. PICK b \in {0, 1} : b = IF Pending(y) THEN 1 ELSE 0
    OBVIOUS
  <1>11. rec[y].refs = b + c + n + (m + a + 1)
    BY <1>1, <1>4, <1>7, <1>8, <1>9, <1>10 DEF CountsOK, RefsOK
  <1>12. rec[y].refs \in Nat /\ rec[y].refs > 0
    BY <1>5, <1>6, <1>8, <1>9, <1>10, <1>11
  <1>13. Born(y) /\ Gone(y)
    BY <1>1, <1>4 DEF RecsOK
  <1>14. rec[y].st \notin {"none", "freed"}
    <2>1. y \in Threads => rec[y].st # "none"
      BY <1>13 DEF Born
    <2>2. y \notin Threads /\ rec[y].st = "none" => rec[y].refs = 0
      BY <1>13 DEF Born, NoRec
    <2>3. rec[y].st = "freed" => rec[y].refs = 0
      BY <1>13 DEF Gone
    <2> QED
      BY <1>12, <2>1, <2>2, <2>3
  <1>15. Static(y) => rec[y].kids
    BY <1>12, <1>13 DEF Gone
  <1>16. ASSUME Last1(y)
         PROVE  /\ Deferred(y) /\ ~ Pending(y) /\ rec[y].st = "over"
                /\ \A s \in Threads : s # t => \A j \in DOMAIN Top(s).drop : Top(s).drop[j] # y
    <2>1. b = 0 /\ m = 0
      <3>1. 1 = b + c + n + (m + a + 1)
        BY <1>11, <1>16 DEF Last1
      <3> QED
        <4>1. \A bb \in {0, 1} : \A cc, nn, mm, aa \in Nat : 1 = bb + cc + nn + (mm + aa + 1) => bb = 0 /\ mm = 0
          OBVIOUS
        <4> QED
          BY <3>1, <4>1
    <2>2. Deferred(y)
      BY <1>4, <1>14, <1>16 DEF Last1, Static, Deferred, Recs
    <2>3. ~ Pending(y)
      BY <1>10, <2>1
    <2>4. rec[y].st \in {"none", "wait", "run", "over", "freed"}
      BY <1>1, <1>4 DEF Shape, RecT
    <2>5. rec[y].st = "over"
      BY <1>14, <2>2, <2>3, <2>4 DEF Pending
    <2>6. Rest(Dropping, t, y) = {}
      <3>1. IsFiniteSet(Rest(Dropping, t, y))
        BY <1>2, NoneFree, MentionsAre
      <3> QED
        BY <1>6, <2>1, <3>1, FS_EmptySet
    <2>7. ASSUME NEW s \in Threads, s # t, NEW j \in DOMAIN Top(s).drop
          PROVE  Top(s).drop[j] # y
      <3>1. SUFFICES ASSUME Top(s).drop[j] = y PROVE FALSE
        OBVIOUS
      <3>2. Dropping[s] = Top(s).drop /\ s \in DOMAIN Dropping
        BY DEF Dropping
      <3>3. <<s, j>> \in Mentions(Dropping, y)
        <4>1. j \in {k \in DOMAIN Dropping[s] : Dropping[s][k] = y}
          BY <2>7, <3>1, <3>2
        <4> QED
          BY <3>2, <4>1 DEF Mentions
      <3>4. <<s, j>> \in Rest(Dropping, t, y)
        BY <2>7, <3>3 DEF Rest
      <3> QED
        BY <2>6, <3>4
    <2> QED
      BY <2>2, <2>3, <2>5, <2>7
  <1> QED
    BY <1>4, <1>12, <1>14, <1>15, <1>16

\* Where a frame goes once it has dropped its references.
LEMMA AfterIs ==
  ASSUME NEW f
  PROVE  /\ rec[f.tk].st = "run" /\ f.ctr = <<>> => AfterUnref(f) = "body"
         /\ rec[f.tk].st = "run" /\ f.ctr # <<>> => AfterUnref(f) = "wait"
         /\ rec[f.tk].st # "run" /\ Static(f.tk) => AfterUnref(f) = "leave"
         /\ rec[f.tk].st # "run" /\ ~ Static(f.tk) => AfterUnref(f) = "live"
         /\ AfterUnref(f) \in {"body", "wait", "leave", "live"}
  BY DEF AfterUnref

FrameTo(f, g, d, p) == g \in FrameT /\ g.tk = f.tk /\ g.ctr = f.ctr /\ g.drop = d /\ g.pc = p
LEMMA DropFrame ==
  ASSUME NEW f \in FrameT, NEW d \in Seq(Recs), NEW p \in Pcs
  PROVE  FrameTo(f, [f EXCEPT !.drop = d, !.pc = p], d, p)
  BY DEF FrameT, FrameTo

\* The references that are left: the last one of y brings those of its entries.
MoreRefs(d, y, more) ==
  /\ Last1(y) => more = Tail(d) \o DepRefs(rec[y])
  /\ ~ Last1(y) => more = Tail(d)

LEMMA MoreIs ==
  ASSUME Shape, NEW S, NEW d \in Seq(S), d # <<>>, NEW y \in Recs, NEW more, MoreRefs(d, y, more),
         Tasks \subseteq S
  PROVE  more \in Seq(S)
  <1>1. Tail(d) \in Seq(S)
    BY OccTail
  <1>2. DepRefs(rec[y]) \in Seq(Tasks)
    BY DepRefsIs DEF Shape
  <1>3. DepRefs(rec[y]) \in Seq(S)
    BY <1>2
  <1>4. CASE Last1(y)
    <2>1. PICK u \in Seq(S) : u = Tail(d)
      BY <1>1
    <2>2. PICK v \in Seq(S) : v = DepRefs(rec[y])
      BY <1>3
    <2>3. u \o v \in Seq(S)
      OBVIOUS
    <2> QED
      BY <1>4, <2>1, <2>2, <2>3 DEF MoreRefs
  <1>5. CASE ~ Last1(y)
    BY <1>1, <1>5 DEF MoreRefs
  <1> QED
    BY <1>4, <1>5

\* How a step that drops a reference looks.
DropStep(t, x, y, g) ==
  /\ x = Cur(t) /\ pc(t) = "unref" /\ Top(t).drop # <<>> /\ y = Head(Top(t).drop) /\ y \in Recs
  /\ DropRec(y) /\ g \in FrameT /\ Topped(t, g) /\ g.tk = x /\ g.ctr = Top(t).ctr
  /\ MoreRefs(Top(t).drop, y, g.drop)
  /\ g.drop # <<>> => g.pc = "unref"
  /\ g.drop = <<>> => g.pc = AfterUnref(Top(t))
  /\ UNCHANGED <<grp, qVars, live, sync>>

LEMMA DropStepIs ==
  ASSUME TasksInv, NEW t \in Threads, Unref(t)
  PROVE  \E x \in Recs, y \in Recs, g \in FrameT : DropStep(t, x, y, g)
  <1>1. Shape /\ StacksOK /\ Top(t) \in FrameT /\ Cur(t) \in Recs /\ Top(t).tk = Cur(t) /\ Top(t).pc = pc(t)
        /\ Drops(Top(t))
    BY CurIs
  <1>2. pc(t) = "unref"
    BY DEF Unref
  <1>3. Top(t).drop # <<>> /\ Top(t).drop \in Seq(Recs)
    BY <1>1, <1>2 DEF Drops, FrameT
  <1>4. PICK y : y = Head(Top(t).drop)
    OBVIOUS
  <1>5. y \in Recs
    BY <1>3, <1>4, OccTail
  <1> DEFINE more == Tail(Top(t).drop) \o (IF rec[y].refs = 1 /\ ~ Static(y) THEN DepRefs(rec[y]) ELSE <<>>)
             p == IF more = <<>> THEN AfterUnref(Top(t)) ELSE "unref"
             g == [Top(t) EXCEPT !.drop = more, !.pc = p]
             q == IF rec[y].refs = 1 /\ ~ Static(y)
                  THEN [FreeDeps(rec[y]) EXCEPT !.refs = 0, !.st = "freed"]
                  ELSE [rec[y] EXCEPT !.refs = rec[y].refs - 1]
  <1>6. rec' = [rec EXCEPT ![y] = q]
    BY <1>4, Zenon DEF Unref
  <1>7. SetTop(t, g)
    BY <1>1, <1>2, <1>4 DEF Unref
  <1>8. UNCHANGED <<grp, qVars, live, sync>>
    BY DEF Unref
  <1>9. DropRec(y)
    BY <1>1, <1>5, <1>6, DropRecIs
  <1>10. MoreRefs(Top(t).drop, y, more)
    <2>1. Tail(Top(t).drop) \in Seq(Recs)
      BY <1>3, OccTail
    <2>2. Tail(Top(t).drop) \o <<>> = Tail(Top(t).drop)
      BY <2>1
    <2> QED
      BY <2>2 DEF MoreRefs, Last1
  <1>11. more \in Seq(Recs)
    BY <1>1, <1>3, <1>5, <1>10, NoneFree, MoreIs
  <1>12. p \in Pcs
    BY AfterIs, PcIs DEF WaitPcs
  <1> HIDE DEF more, p
  <1>13. g \in FrameT /\ g.tk = Top(t).tk /\ g.ctr = Top(t).ctr /\ g.drop = more /\ g.pc = p
    <2>1. FrameTo(Top(t), g, more, p)
      BY <1>1, <1>11, <1>12, DropFrame
    <2> HIDE DEF g
    <2> QED
      BY <2>1 DEF FrameTo
  <1> HIDE DEF g
  <1>14. Topped(t, g)
    BY <1>1, <1>7, <1>13, SetTopStep
  <1>15. (g.drop # <<>> => g.pc = "unref") /\ (g.drop = <<>> => g.pc = AfterUnref(Top(t)))
    BY <1>13 DEF p
  <1>16. DropStep(t, Cur(t), y, g)
    BY <1>1, <1>2, <1>3, <1>4, <1>5, <1>8, <1>9, <1>10, <1>13, <1>14, <1>15 DEF DropStep
  <1> QED
    BY <1>1, <1>5, <1>13, <1>16

\* What stays the same when a reference to y is dropped.
LEMMA DropSame ==
  ASSUME TasksInv, NEW t \in Threads, NEW x \in Recs, NEW y \in Recs, NEW g \in FrameT, DropStep(t, x, y, g)
  PROVE  /\ \A z \in Recs : /\ SameId(rec[z], rec'[z]) /\ Ident(z)
                            /\ rec'[z].pred = rec[z].pred /\ rec'[z].kids = rec[z].kids
                            /\ rec'[z].done = rec[z].done /\ rec'[z].children = rec[z].children
                            /\ (rec'[z].st = rec[z].st \/ (rec[z].st = "over" /\ rec'[z].st = "freed" /\ Deferred(z)))
                            /\ (rec'[z].st = "none" <=> rec[z].st = "none")
         /\ \A z \in Recs : z # y => rec'[z] = rec[z]
         /\ \A z \in Recs : Steady(z)
         /\ \A z \in Recs : (Deferred(z)' <=> Deferred(z)) /\ (Static(z)' <=> Static(z))
  <1>1. /\ Shape /\ StacksOK /\ RecsOK
        /\ pc(t) = "unref" /\ Top(t).drop # <<>> /\ y = Head(Top(t).drop) /\ DropRec(y)
    BY CurIs DEF DropStep
  <1>2. /\ rec[y].st \notin {"none", "freed"}
        /\ Last1(y) =>
              /\ Deferred(y) /\ ~ Pending(y) /\ rec[y].st = "over"
              /\ \A s \in Threads : s # t => \A j \in DOMAIN Top(s).drop : Top(s).drop[j] # y
    BY <1>1, DropHeld
  <1>3. \A z \in Recs : z # y => rec'[z] = rec[z]
    BY <1>1 DEF DropRec
  <1>4. /\ SameId(rec[y], rec'[y]) /\ rec'[y].pred = rec[y].pred /\ rec'[y].kids = rec[y].kids
        /\ rec'[y].done = rec[y].done /\ rec'[y].children = rec[y].children
        /\ (Last1(y) => rec'[y].st = "freed") /\ (~ Last1(y) => rec'[y].st = rec[y].st)
    BY <1>1 DEF DropRec
  <1>5. \A z \in Recs : SameId(rec[z], rec'[z])
    BY <1>3, <1>4 DEF SameId
  <1>6. \A z \in Recs : Ident(z)
    BY <1>5, SameIs
  <1>7. \A z \in Recs : (rec'[z].st = rec[z].st \/ (rec[z].st = "over" /\ rec'[z].st = "freed" /\ Deferred(z)))
                     /\ (rec'[z].st = "none" <=> rec[z].st = "none")
    BY <1>2, <1>3, <1>4
  <1>8. \A z \in Recs : (Deferred(z)' <=> Deferred(z)) /\ (Static(z)' <=> Static(z))
    BY <1>5, <1>7 DEF Deferred, Static, SameId
  <1>9. ASSUME NEW s \in Threads, Cur(s) = y, Last1(y)
        PROVE  pc(s) \in {"unref", "live", "wakeall"}
    <2>1. CASE s = t
      BY <1>1, <2>1
    <2>2. CASE s # t
      <3>1. Fate(Top(s)) /\ Drops(Top(s)) /\ Top(s) \in FrameT /\ Top(s).tk = y /\ Top(s).pc = pc(s) /\ pc(s) \in Pcs
        BY <1>9, CurIs
      <3>2. rec[y].st = "over" /\ Deferred(y) /\ ~ Static(y) /\ ~ rec[y].inplace
        BY <1>2, <1>9 DEF Last1, Static
      <3>3. pc(s) \in {"notify", "children", "group", "unref", "live", "wakeall"}
        BY <3>1, <3>2 DEF Fate, Pcs
      <3>4. ~ Ending(Top(s))
        BY <1>2, <1>9, <3>2 DEF Pending
      <3>5. Top(s).drop # Dropped(y)
        <4>1. \A j \in DOMAIN Top(s).drop : Top(s).drop[j] # y
          BY <1>2, <1>9, <2>2
        <4>2. 2 \in DOMAIN Dropped(y) /\ Dropped(y)[2] = y
          BY DEF Dropped
        <4> QED
          BY <4>1, <4>2
      <3> QED
        BY <3>1, <3>3, <3>4, <3>5 DEF Drops, Ending
    <2> QED
      BY <2>1, <2>2
  <1>10. \A z \in Recs : Steady(z)
    <2>1. \A z \in Recs : z # y => Steady(z)
      BY <1>3 DEF Steady
    <2>2. Steady(y)
      BY <1>2, <1>4, <1>9 DEF Steady, SameId
    <2> QED
      BY <2>1, <2>2
  <1>11. \A z \in Recs : /\ rec'[z].pred = rec[z].pred /\ rec'[z].kids = rec[z].kids
                         /\ rec'[z].done = rec[z].done /\ rec'[z].children = rec[z].children
    BY <1>3, <1>4
  <1> QED
    BY <1>3, <1>5, <1>6, <1>7, <1>8, <1>10, <1>11

LEMMA DropRecs ==
  ASSUME TasksInv, NEW t \in Threads, NEW x \in Recs, NEW y \in Recs, NEW g \in FrameT, DropStep(t, x, y, g)
  PROVE  RecsOK' /\ QueuesOK' /\ Below(t) /\ Top(t)' = g /\ Cur(t)' = x /\ pc(t)' = g.pc
  <1>1. /\ Shape /\ StacksOK /\ RecsOK /\ QueuesOK
        /\ x = Cur(t) /\ pc(t) = "unref" /\ Top(t).drop # <<>> /\ y = Head(Top(t).drop) /\ DropRec(y)
        /\ Topped(t, g) /\ g.tk = x /\ g.pc \in {"unref", "body", "wait", "leave", "live"}
        /\ dq' = dq /\ hq' = hq
    <2>1. g.pc \in {"unref", "body", "wait", "leave", "live"}
      BY AfterIs DEF DropStep
    <2> QED
      BY <2>1, CurIs DEF DropStep, qVars
  <1>2. Below(t) /\ Top(t)' = g /\ Cur(t)' = x /\ pc(t)' = g.pc
    BY <1>1, TopAfter DEF Topped, Cur, pc
  <1>3. /\ rec[y].st \notin {"none", "freed"} /\ rec[y].refs \in Nat /\ rec[y].refs > 0
        /\ (Static(y) => rec[y].kids)
        /\ (Last1(y) => Deferred(y) /\ rec[y].st = "over")
    BY <1>1, DropHeld
  <1>4. \A z \in Recs : /\ SameId(rec[z], rec'[z]) /\ Ident(z)
                        /\ rec'[z].pred = rec[z].pred /\ rec'[z].kids = rec[z].kids
                        /\ rec'[z].done = rec[z].done
                        /\ (rec'[z].st = rec[z].st \/ (rec[z].st = "over" /\ rec'[z].st = "freed" /\ Deferred(z)))
                        /\ (rec'[z].st = "none" <=> rec[z].st = "none")
                        /\ (z # y => rec'[z] = rec[z])
                        /\ (Deferred(z)' <=> Deferred(z)) /\ (Static(z)' <=> Static(z))
    BY DropSame
  <1>5. Lasts
    BY <1>4 DEF Lasts
  <1>6. NewLinks
    <2>1. \A s \in Threads : s # t => ((pc(s)' = "link") <=> (pc(s) = "link")) /\ Linked(s)' = Linked(s)
      BY <1>1, <1>2, OtherMarks, OtherTops DEF Linked
    <2> QED
      BY <1>1, <1>2, <2>1 DEF NewLinks
  <1>7. \A z : Queued(z)' <=> Queued(z)
    BY <1>1 DEF Queued
  <1>8. \A z \in Recs : OnStack(z) => OnStack(z)'
    BY <1>1, StackedAfter
  <1>9. ASSUME NEW z \in Recs, rec'[z].st = rec[z].st, DepRefs(rec'[z]) = DepRefs(rec[z])
        PROVE  RecOK(z)'
    <2>1. rec[z].st = "none" => rec'[z] = rec[z]
      BY <1>3, <1>4
    <2>2. rec[z].pred \subseteq Recs
      BY <1>1, NoneFree DEF Shape, RecT
    <2>3. Alike(z)
      BY <1>4, <1>7, <1>8, <1>9, <2>1, <2>2 DEF Alike
    <2> QED
      BY <1>1, <1>5, <1>6, <2>3, RecKept
  <1>10. ASSUME NEW z \in Recs, z # y
         PROVE  RecOK(z)' /\ Gone(z)'
    <2>1. rec'[z] = rec[z]
      BY <1>4, <1>10
    <2>2. RecOK(z)'
      BY <1>9, <2>1
    <2>3. Gone(z)'
      BY <1>1, <1>2, <2>1, GoneKept
    <2> QED
      BY <2>2, <2>3
  <1>11. RecOK(y)'
    <2>1. CASE ~ Last1(y)
      BY <1>1, <1>9, <2>1 DEF DropRec
    <2>2. CASE Last1(y)
      <3>1. /\ Born(y) /\ Waits4(y) /\ Entry(y) /\ rec'[y].st = "freed" /\ DepRefs(rec'[y]) = <<>>
            /\ Deferred(y) /\ rec[y].st = "over"
        BY <1>1, <1>3, <2>2 DEF RecsOK, DropRec
      <3>2. y \in Tasks /\ y \notin Threads /\ ~ rec[y].inplace /\ ~ rec'[y].inplace
        BY <1>4, <3>1, NoneFree DEF Deferred, SameId
      <3>3. Tracked(y) => (rec'[y].done <=> Over(y)')
        <4>1. Tracked(y) => rec[y].done
          BY <3>1, <3>2 DEF Born, Over
        <4> QED
          BY <1>4, <3>1, <4>1 DEF Over
      <3>4. Born(y)'
        BY <1>4, <1>5, <3>1, <3>2, <3>3, BornKept
      <3>5. Waits4(y)'
        <4>1. rec[y].pred = {}
          BY <3>1 DEF Waits4
        <4> QED
          BY <1>4, <4>1 DEF Waits4
      <3>6. Entry(y)'
        BY <3>1 DEF Entry
      <3> QED
        BY <3>4, <3>5, <3>6 DEF RecOK
    <2> QED
      BY <2>1, <2>2
  <1>12. Gone(y)'
    <2>1. CASE Last1(y)
      BY <1>1, <1>3, <1>4, <2>1 DEF Gone, DropRec, Last1
    <2>2. CASE ~ Last1(y)
      <3>1. rec'[y].st = rec[y].st /\ rec'[y].refs = rec[y].refs - 1 /\ Gone(y)
        BY <1>1, <2>2 DEF DropRec, RecsOK
      <3>2. ~ (rec[y].st = "over" /\ Static(y) /\ (\E s \in Threads : Cur(s) = y /\ pc(s) \in {"unref", "leave"}))
        BY <1>3, <3>1 DEF Gone
      <3>3. ~ (rec[y].st = "over" /\ Static(y) /\ (\E s \in Threads : Cur(s)' = y /\ pc(s)' \in {"unref", "leave"}))
        <4>1. \A s \in Threads : s # t => Cur(s)' = Cur(s) /\ ((pc(s)' \in {"unref", "leave"}) <=> (pc(s) \in {"unref", "leave"}))
          BY <1>1, <1>2, OtherMarks, OtherTops
        <4> QED
          BY <1>1, <1>2, <3>2, <4>1
      <3>4. Deferred(y) => rec[y].refs # 1
        BY <2>2, NoneFree DEF Last1, Static, Deferred
      <3>5. Deferred(y)' => rec'[y].refs > 0
        BY <1>3, <1>4, <3>1, <3>4
      <3> QED
        BY <1>3, <1>4, <3>1, <3>3, <3>5 DEF Gone
    <2> QED
      BY <2>1, <2>2
  <1>13. QueuesOK'
    <2>1. \A z \in Tasks : Queued(z)' => rec'[z].st = "wait" /\ rec'[z].pred = {} /\ ~ rec'[z].kind.if0
      <3>1. \A z \in Tasks : Queued(z) => rec[z].st = "wait" /\ rec[z].pred = {} /\ ~ rec[z].kind.if0
        BY <1>1 DEF QueuesOK
      <3> QED
        BY <1>4, <1>7, <3>1, NoneFree DEF SameId
    <2> QED
      BY <1>1, <2>1 DEF QueuesOK
  <1> QED
    BY <1>2, <1>10, <1>11, <1>12, <1>13 DEF RecsOK, RecOK

LEMMA DropCounts ==
  ASSUME TasksInv, NEW t \in Threads, NEW x \in Recs, NEW y \in Recs, NEW g \in FrameT, DropStep(t, x, y, g)
  PROVE  /\ ChildrenOK' /\ RefsOK' /\ LiveOK' /\ EndOK' /\ SleepOK'
         /\ \A z \in Tasks : GroupPending(z)' <=> GroupPending(z)
  <1>1. /\ Shape /\ StacksOK /\ RecsOK /\ ChildrenOK /\ RefsOK /\ LiveOK /\ EndOK /\ SleepOK
        /\ x = Cur(t) /\ pc(t) = "unref" /\ Top(t).drop # <<>> /\ y = Head(Top(t).drop) /\ DropRec(y)
        /\ Topped(t, g) /\ g.tk = x /\ g.pc \in {"unref", "body", "wait", "leave", "live"}
        /\ live' = live /\ nwait' = nwait /\ sleepers' = sleepers
        /\ Top(t) \in FrameT /\ Top(t).pc = pc(t) /\ MoreRefs(Top(t).drop, y, g.drop)
    <2>1. g.pc \in {"unref", "body", "wait", "leave", "live"}
      BY AfterIs DEF DropStep
    <2> QED
      BY <2>1, CurIs DEF DropStep, sync, waitVars, idleVars, CountsOK
  <1>2. Below(t) /\ Top(t)' = g /\ Cur(t)' = x /\ pc(t)' = g.pc
    BY DropRecs
  <1>3. \A z \in Recs : /\ SameId(rec[z], rec'[z]) /\ rec'[z].children = rec[z].children
                        /\ (rec'[z].st = rec[z].st \/ (rec[z].st = "over" /\ rec'[z].st = "freed" /\ Deferred(z)))
                        /\ (z # y => rec'[z] = rec[z]) /\ (Deferred(z)' <=> Deferred(z))
    BY DropSame
  <1>4. Fixed
    BY <1>3 DEF Fixed, SameId
  <1>5. ~ Ending(Top(t)) /\ ~ Ending(Top(t))' /\ ~ InGroup(Top(t)) /\ ~ InGroup(Top(t))'
    BY <1>1, <1>2 DEF Ending, InGroup
  <1>6. (\A z \in Recs : Pending(z)' <=> Pending(z)) /\ ChildrenOK'
    BY <1>1, <1>2, <1>4, <1>5, PendingKept
  <1>7. LiveOK'
    BY <1>1, <1>2, <1>4, LiveKept
  <1>8. \A z \in Tasks : GroupPending(z)' <=> GroupPending(z)
    BY <1>1, <1>2, <1>4, <1>5, GroupPendingKept
  <1>9. SleepOK'
    <2>1. pc(t) \notin SlotPcs \cup TcPcs /\ pc(t)' \notin SlotPcs \cup TcPcs
      BY <1>1, <1>2 DEF SlotPcs, TcPcs
    <2> QED
      BY <1>1, <1>2, <2>1, AwakeStep
  <1>10. EndOK'
    <2>1. \A s \in Threads : rec'[s].st = "run" <=> rec[s].st = "run"
      BY <1>3, NoneFree
    <2> QED
      BY <1>1, <2>1 DEF EndOK
  <1>11. stack'[t] # <<>>
    <2>1. PICK n \in Nat : n = Len(stack[t]) /\ n # 0
      BY <1>1, TopIs
    <2>2. Len(stack'[t]) = n
      BY <1>1, <2>1 DEF Topped
    <2> QED
      BY <2>1, <2>2
  <1>12. PICK d \in Seq(Recs) : d = Top(t).drop
    BY <1>1 DEF FrameT
  <1>13. PICK e \in Seq(Recs) : e = Tail(d)
    BY <1>1, <1>12, OccTail
  <1>14. PICK v \in Seq(Recs) : v = DepRefs(rec[y])
    BY <1>1, DepRefsIs DEF Shape
  <1>15. (Last1(y) => Top(t)'.drop = e \o v) /\ (~ Last1(y) => Top(t)'.drop = e)
    BY <1>1, <1>2, <1>12, <1>13, <1>14 DEF MoreRefs
  <1>16. ASSUME NEW z \in Recs
         PROVE  Balanced(t, y, z)
    <2>1. PICK a \in Nat : a = Occ(v, z)
      BY OccIs
    <2>2. PICK c \in Nat : c = Occ(e, z)
      BY OccIs
    <2>3. PICK r \in Int : r = rec[z].refs
      BY <1>1 DEF Shape, RecT
    <2>4. PICK k \in Int : k = rec[z].children /\ k = rec'[z].children
      BY <1>1, <1>3 DEF Shape, RecT
    <2>5. PICK b \in {0, 1} : b = (IF Pending(z) THEN 1 ELSE 0) /\ b = (IF Pending(z)' THEN 1 ELSE 0)
      BY <1>6
    <2>6. Occ(Top(t).drop, z) = c + IF y = z THEN 1 ELSE 0
      <3>1. Occ(d, z) = Occ(Tail(d), z) + IF Head(d) = z THEN 1 ELSE 0
        BY <1>1, <1>12, OccTail
      <3> QED
        BY <1>1, <1>12, <1>13, <2>2, <3>1
    <2>7. Occ(DepRefs(rec[y]), z) = a
      BY <1>14, <2>1
    <2>8. CASE Last1(y)
      <3>1. Occ(DepRefs(rec'[y]), z) = 0
        BY <1>1, <2>8, OccEmpty DEF DropRec
      <3>2. Occ(Top(t)'.drop, z) = c + a
        <4>1. Occ(e \o v, z) = Occ(e, z) + Occ(v, z)
          BY OccConcat
        <4> QED
          BY <1>15, <2>1, <2>2, <2>8, <4>1
      <3>3. CASE z = y
        <4>1. rec'[z].refs = 0 /\ r = 1
          BY <1>1, <2>3, <2>8, <3>3 DEF DropRec, Last1
        <4>2. 0 + b + k + a + (c + 1) = 1 + b + k + 0 + (c + a)
          OBVIOUS
        <4>3. Occ(Top(t).drop, z) = c + 1
          BY <2>6, <3>3
        <4> QED
          BY <2>3, <2>4, <2>5, <2>7, <3>1, <3>2, <4>1, <4>2, <4>3 DEF Balanced
      <3>4. CASE z # y
        <4>1. rec'[z].refs = r
          BY <1>3, <2>3, <3>4
        <4>2. r + b + k + a + c = r + b + k + 0 + (c + a)
          OBVIOUS
        <4>3. Occ(Top(t).drop, z) = c
          BY <2>2, <2>6, <3>4
        <4> QED
          BY <2>3, <2>4, <2>5, <2>7, <3>1, <3>2, <4>1, <4>2, <4>3 DEF Balanced
      <3> QED
        BY <3>3, <3>4
    <2>9. CASE ~ Last1(y)
      <3>1. Occ(DepRefs(rec'[y]), z) = a
        BY <1>1, <2>7, <2>9 DEF DropRec
      <3>2. Occ(Top(t)'.drop, z) = c
        BY <1>15, <2>2, <2>9
      <3>3. CASE z = y
        <4>1. rec'[z].refs = r - 1
          BY <1>1, <2>3, <2>9, <3>3 DEF DropRec
        <4>2. (r - 1) + b + k + a + (c + 1) = r + b + k + a + c
          OBVIOUS
        <4>3. Occ(Top(t).drop, z) = c + 1
          BY <2>6, <3>3
        <4> QED
          BY <2>3, <2>4, <2>5, <2>7, <3>1, <3>2, <4>1, <4>2, <4>3 DEF Balanced
      <3>4. CASE z # y
        <4>1. rec'[z].refs = r
          BY <1>3, <2>3, <3>4
        <4>2. Occ(Top(t).drop, z) = c
          BY <2>2, <2>6, <3>4
        <4> QED
          BY <2>3, <2>4, <2>5, <2>7, <3>1, <3>2, <4>1, <4>2 DEF Balanced
      <3> QED
        BY <3>3, <3>4
    <2> QED
      BY <2>8, <2>9
  <1>17. RefsOK'
    <2>1. \A z \in Recs : z # y => DepRefs(rec'[z]) = DepRefs(rec[z])
      BY <1>3
    <2>2. rec' \in [Recs -> RecT]
      BY <1>1 DEF DropRec
    <2> QED
      BY <1>1, <1>2, <1>11, <1>16, <2>1, <2>2, RefsMove
  <1> QED
    BY <1>6, <1>7, <1>8, <1>9, <1>10, <1>17

\* The last reference frees a record nobody refers to any more.
LEMMA UnrefStep ==
  ASSUME TasksInv, NEW t \in Threads, Unref(t)
  PROVE  TasksInv'
  <1>1. PICK x \in Recs, y \in Recs, g \in FrameT : DropStep(t, x, y, g)
    BY DropStepIs
  <1>2. /\ Shape /\ StacksOK /\ RecsOK /\ QueuesOK /\ CountsOK /\ GroupsOK /\ BarrierOK
        /\ Top(t) \in FrameT /\ Cur(t) \in Recs /\ Top(t).tk = Cur(t) /\ Top(t).pc = pc(t)
        /\ Fate(Top(t)) /\ Counts(Top(t)) /\ Drops(Top(t))
        /\ (Len(stack[t]) = 1 => Cur(t) = t) /\ (Len(stack[t]) # 1 => Cur(t) \in Tasks)
    BY CurIs
  <1>3. /\ x = Cur(t) /\ pc(t) = "unref" /\ Top(t).drop # <<>> /\ y = Head(Top(t).drop) /\ DropRec(y)
        /\ Topped(t, g) /\ g.tk = x /\ g.ctr = Top(t).ctr
        /\ (g.drop # <<>> => g.pc = "unref") /\ (g.drop = <<>> => g.pc = AfterUnref(Top(t)))
        /\ g.pc \in {"unref", "body", "wait", "leave", "live"}
        /\ MoreRefs(Top(t).drop, y, g.drop)
    BY <1>1, AfterIs DEF DropStep
  <1>4. dq' = dq /\ base' = base /\ hq' = hq /\ grp' = grp /\ live' = live /\ UNCHANGED barVars
        /\ tm' = tm /\ nwait' = nwait /\ sleepers' = sleepers
        /\ barrived' = barrived /\ bgen' = bgen /\ gen' = gen /\ passed' = passed
    BY <1>1 DEF DropStep, qVars, sync, idleVars, waitVars, barVars
  <1>5. RecsOK' /\ QueuesOK' /\ Below(t) /\ Top(t)' = g /\ Cur(t)' = x /\ pc(t)' = g.pc
    BY <1>1, DropRecs
  <1>6. ChildrenOK' /\ RefsOK' /\ LiveOK' /\ EndOK' /\ SleepOK' /\ \A z \in Tasks : GroupPending(z)' <=> GroupPending(z)
    BY <1>1, DropCounts
  <1>7. \A z \in Recs : /\ SameId(rec[z], rec'[z]) /\ Steady(z) /\ rec'[z].pred = rec[z].pred
                        /\ (rec'[z].st = rec[z].st \/ (rec[z].st = "over" /\ rec'[z].st = "freed" /\ Deferred(z)))
                        /\ (rec'[z].st = "none" <=> rec[z].st = "none")
                        /\ (Deferred(z)' <=> Deferred(z)) /\ (Static(z)' <=> Static(z))
    BY <1>1, DropSame
  <1>8. \A z : Queued(z)' <=> Queued(z)
    BY <1>4 DEF Queued
  <1>9. Undisturbed(t, None)
    BY <1>2, <1>4, <1>7, <1>8, NoneFree, NoneNowhere DEF Undisturbed
  <1>10. /\ (rec[x].st = "run" => rec'[x].st = "run") /\ (rec'[x].st = "run" => rec[x].st = "run")
         /\ (rec[x].st \in {"run", "over"} \/ (rec[x].st = "freed" /\ Deferred(x)))
    BY <1>2, <1>3, <1>7 DEF Fate
  <1>11. g.drop = <<>> =>
           /\ rec[x].st = "run" /\ g.ctr = <<>> => g.pc = "body"
           /\ rec[x].st = "run" /\ g.ctr # <<>> => g.pc = "wait"
           /\ rec[x].st # "run" /\ Static(x) => g.pc = "leave"
           /\ rec[x].st # "run" /\ ~ Static(x) => g.pc = "live"
    BY <1>2, <1>3, AfterIs
  <1>12. Fate(Top(t))'
    <2>1. g.pc \in {"body", "wait"} => rec'[x].st = "run"
      BY <1>3, <1>10, <1>11
    <2>2. g.pc = "unref" => rec'[x].st \in {"run", "over"} \/ (rec'[x].st = "freed" /\ Deferred(x)')
      BY <1>7, <1>10
    <2>3. Deferred(x) => ~ Static(x)
      BY NoneFree DEF Deferred, Static
    <2>4. g.pc = "leave" => rec'[x].st = "over" /\ Static(x)'
      BY <1>3, <1>7, <1>10, <1>11, <2>3
    <2>5. g.pc = "live" => rec'[x].st \in {"over", "freed"} /\ Deferred(x)'
      <3>1. g.pc = "live" => rec[x].st \in {"over", "freed"} /\ ~ Static(x)
        BY <1>3, <1>10, <1>11
      <3>2. ~ Static(x) /\ rec[x].st # "none" => Deferred(x)
        BY DEF Static, Deferred, Recs
      <3> QED
        BY <1>7, <3>1, <3>2
    <2> QED
      BY <1>3, <1>5, <2>1, <2>2, <2>4, <2>5 DEF Fate, RunPcs, IdlePcs, TcPcs, WaitPcs
  <1>13. g.ctr = <<>> \/ \E w \in Tasks : g.ctr = <<"npred", w>> /\ Awaited(Top(t), w) /\ rec[w].kind.if0
    BY <1>2, <1>3 DEF Counts
  <1>14. Counts(Top(t))'
    <2>1. ASSUME NEW w \in Tasks, Awaited(Top(t), w), rec[w].kind.if0
          PROVE  Awaited(Top(t), w)' /\ rec'[w].kind.if0
      <3>1. rec'[w].parent = rec[w].parent /\ rec'[w].st = rec[w].st /\ rec'[w].kind = rec[w].kind
        BY <1>7, <2>1, NoneFree DEF SameId, Awaited
      <3> QED
        BY <1>2, <1>3, <1>5, <1>10, <2>1, <3>1 DEF Awaited
    <2>2. g.ctr = <<>> \/ \E w \in Tasks : g.ctr = <<"npred", w>> /\ Awaited(Top(t), w)' /\ rec'[w].kind.if0
      BY <1>13, <2>1
    <2>3. g.ctr # <<>> => rec[x].st = "run"
      BY <1>2, <1>3, <1>13 DEF Awaited
    <2>4. g.pc \notin {"unref", "wait"} => g.ctr = <<>>
      BY <1>3, <1>11, <2>3
    <2>5. g.pc = "wait" => g.ctr # <<>>
      BY <1>3, <1>11
    <2> QED
      BY <1>3, <1>5, <2>2, <2>4, <2>5 DEF Counts, WaitPcs
  <1>15. Drops(Top(t))'
    <2>1. (rec'[x].st = "run" \/ Static(x)') => g.drop \in Seq(Tasks)
      <3>1. SUFFICES ASSUME rec[x].st = "run" \/ Static(x) PROVE g.drop \in Seq(Tasks)
        BY <1>7, <1>10
      <3>2. Top(t).drop \in Seq(Tasks)
        BY <1>2, <1>3, <3>1 DEF Drops
      <3> QED
        BY <1>2, <1>3, <3>2, MoreIs
    <2>2. g.pc = "unref" => g.drop # <<>>
      BY <1>3, AfterIs
    <2> QED
      BY <1>3, <1>5, <2>1, <2>2 DEF Drops
  <1>16. StacksOK'
    <2>1. g.pc \notin IdlePcs \cup {"out"}
      BY <1>3 DEF IdlePcs, TcPcs
    <2> QED
      BY <1>3, <1>7, <1>9, <1>12, <1>14, <1>15, <2>1, ToppedOK
  <1>17. Len(stack[t]) = 1 =>
           /\ (stack'[t][1].pc \in IdlePcs <=> stack[t][1].pc \in IdlePcs)
           /\ stack'[t][1].pc = "retest" => AtBarrier(t)
           /\ stack'[t][1].pc = "drain" => ~ AtBarrier(t)
    <2>1. SUFFICES ASSUME Len(stack[t]) = 1
          PROVE  stack'[t][1].pc \notin IdlePcs /\ stack[t][1].pc \notin IdlePcs
      BY DEF IdlePcs
    <2>2. stack'[t][1] = g /\ stack[t][1] = Top(t)
      BY <1>2, <1>3, <2>1, TopIs DEF Topped
    <2> QED
      BY <1>2, <1>3, <2>2 DEF IdlePcs, TcPcs
  <1>18. BarrierOK'
    <2>1. \A z \in Recs : rec[z].st # "none" => rec'[z].epoch = rec[z].epoch /\ (Over(z) => Over(z)')
      BY <1>7 DEF Over, SameId
    <2>2. \A z \in Tasks : rec[z].st = "none" => rec'[z].st = "none"
      BY <1>7, NoneFree
    <2> QED
      BY <1>4, <1>5, <1>17, <2>1, <2>2, BarrierStays
  <1>19. GroupsOK'
    <2>1. \A z \in Recs : rec'[z].home = rec[z].home /\ rec'[z].group = rec[z].group
      BY <1>7 DEF SameId
    <2>2. \A z \in Recs : rec[z].st = "run" /\ OpenGroup(z) => rec'[z].st = "run"
      BY <1>7
    <2>3. \A s \in Threads : stack'[s][1].pc \in IdlePcs => stack[s][1].pc \in IdlePcs \/ rec[s].group = None
      BY <1>2, <1>5, <1>17, FirstAbove
    <2>4. \A z \in Tasks : rec[z].st = "none" => rec'[z].st = "none"
      BY <1>7, NoneFree
    <2> QED
      BY <1>2, <1>4, <1>6, <2>1, <2>2, <2>3, <2>4, GroupsKept
  <1>20. Shape'
    BY <1>2, <1>3, <1>4, <1>5 DEF Shape, Below, DropRec
  <1> QED
    BY <1>5, <1>6, <1>16, <1>18, <1>19, <1>20 DEF TasksInv, CountsOK
-----------------------------------------------------------------------------
(* Taskgroups are opened and closed.                                        *)
\* A running task keeps the group that counts it open.
LEMMA RunningIn ==
  ASSUME TasksInv, NEW z \in Recs, rec[z].st = "run", rec[z].home # None
  PROVE  /\ z \in Tasks /\ rec[z].home \in Groups /\ grp[rec[z].home].st = "open"
         /\ grp[rec[z].home].count # 0
  <1>1. Shape /\ RecsOK
    BY CurIs DEF TasksInv
  <1>2. z \in Tasks /\ ~ rec[z].inplace
    <2>1. Born(z)
      BY <1>1 DEF RecsOK
    <2> QED
      BY <2>1 DEF Born, Recs
  <1>3. GroupPending(z)
    BY <1>2 DEF GroupPending, Deferred
  <1>4. grp[rec[z].home].count \in Int
    BY <1>1, <1>2, <1>3, GroupHeld DEF Shape, GrpT
  <1> QED
    BY <1>2, <1>3, <1>4, GroupHeld

\* The task of t goes on in another taskgroup.
Regrouped(t, x, f) ==
  /\ x = Cur(t) /\ pc(t) \in {"body", "wait"} /\ rec[x].st = "run"
  /\ f \in FrameT /\ Topped(t, f) /\ f.tk = x /\ f.pc = "body" /\ f.ctr = <<>> /\ f.drop = <<>>
  /\ rec' \in [Recs -> RecT] /\ (\A y \in Recs : y # x => rec'[y] = rec[y])
  /\ SameCore(rec[x], rec'[x]) /\ rec'[x].epoch = rec[x].epoch
  /\ grp' \in [Groups -> GrpT]
  /\ \A h \in Groups : grp[h].st # "none" => grp'[h].owner = grp[h].owner
  /\ UNCHANGED <<qVars, live, sync>>

LEMMA RegroupSame ==
  ASSUME TasksInv, NEW t \in Threads, NEW x \in Recs, NEW f, Regrouped(t, x, f)
  PROVE  /\ Still(t, f) /\ Below(t) /\ Top(t)' = f
         /\ \A y \in Tasks : GroupPending(y)' <=> GroupPending(y)
         /\ \A y \in Recs : rec'[y].home = rec[y].home /\ rec'[y].st = rec[y].st
         /\ Len(stack[t]) = 1 => stack'[t][1].pc \notin IdlePcs
         /\ \A s \in Threads : stack'[s][1].pc \in IdlePcs => rec[s].group = None /\ s # x
  <1>1. /\ Shape /\ StacksOK /\ GroupsOK /\ BarrierOK /\ Top(t) \in FrameT /\ Top(t).tk = Cur(t) /\ Top(t).pc = pc(t)
        /\ Drops(Top(t)) /\ (Len(stack[t]) = 1 => Cur(t) = t) /\ (Len(stack[t]) # 1 => Cur(t) \in Tasks)
    BY CurIs
  <1>2. /\ x = Cur(t) /\ pc(t) \in {"body", "wait"} /\ f \in FrameT /\ Topped(t, f) /\ f.tk = x /\ f.pc = "body"
        /\ f.drop = <<>> /\ (\A y \in Recs : y # x => rec'[y] = rec[y]) /\ SameCore(rec[x], rec'[x]) /\ live' = live
    BY DEF Regrouped
  <1>3. ~ Ending(f) /\ ~ Ending(Top(t)) /\ ~ InGroup(f) /\ ~ InGroup(Top(t)) /\ Top(t).drop = <<>>
    BY <1>1, <1>2 DEF Ending, InGroup, Drops
  <1>4. Still(t, f)
    BY <1>1, <1>2, <1>3 DEF Still
  <1>5. Below(t) /\ Top(t)' = f
    BY <1>1, <1>4, StillSame
  <1>6. \A y \in Recs : SameCore(rec[y], rec'[y])
    BY <1>1, <1>4, StillSame
  <1>7. Fixed
    BY <1>1, <1>4, <1>6, StillSame DEF Fixed, SameCore
  <1>8. \A y \in Tasks : GroupPending(y)' <=> GroupPending(y)
    BY <1>1, <1>3, <1>5, <1>7, GroupPendingKept
  <1>9. Len(stack[t]) = 1 => stack'[t][1].pc \notin IdlePcs /\ stack[t][1].pc \notin IdlePcs
    <2>1. SUFFICES ASSUME Len(stack[t]) = 1 PROVE stack'[t][1] = f /\ stack[t][1] = Top(t)
      BY <1>1, <1>2 DEF IdlePcs, TcPcs
    <2> QED
      BY <1>1, <1>2, <2>1, TopIs DEF Topped
  <1>10. ASSUME NEW s \in Threads, stack'[s][1].pc \in IdlePcs
         PROVE  rec[s].group = None /\ s # x
    <2>1. Len(stack[t]) = 1 =>
            /\ (stack'[t][1].pc \in IdlePcs <=> stack[t][1].pc \in IdlePcs)
            /\ stack'[t][1].pc = "retest" => AtBarrier(t)
            /\ stack'[t][1].pc = "drain" => ~ AtBarrier(t)
      BY <1>9 DEF IdlePcs
    <2>2. stack[s][1].pc \in IdlePcs
      BY <1>1, <1>5, <1>10, <2>1, FirstAbove
    <2>3. rec[s].group = None
      BY <1>1, <2>2 DEF GroupsOK, Nested
    <2>4. s # x
      BY <1>1, <1>2, <1>9, <1>10, NoneFree
    <2> QED
      BY <2>3, <2>4
  <1> QED
    BY <1>4, <1>5, <1>6, <1>8, <1>9, <1>10 DEF SameCore

LEMMA RegroupStep ==
  ASSUME TasksInv, NEW t \in Threads, NEW x \in Recs, NEW f, Regrouped(t, x, f), GroupsOK'
  PROVE  TasksInv'
  <1>1. /\ Shape /\ StacksOK /\ RecsOK /\ QueuesOK /\ CountsOK /\ GroupsOK /\ BarrierOK
        /\ Top(t) \in FrameT /\ Cur(t) \in Recs /\ Top(t).tk = Cur(t) /\ Top(t).pc = pc(t)
    BY CurIs
  <1>2. /\ x = Cur(t) /\ pc(t) \in {"body", "wait"} /\ rec[x].st = "run"
        /\ f \in FrameT /\ Topped(t, f) /\ f.tk = x /\ f.pc = "body" /\ f.ctr = <<>> /\ f.drop = <<>>
        /\ rec' \in [Recs -> RecT] /\ rec'[x].epoch = rec[x].epoch
        /\ (\A y \in Recs : y # x => rec'[y] = rec[y])
        /\ grp' \in [Groups -> GrpT]
        /\ \A h \in Groups : grp[h].st # "none" => grp'[h].owner = grp[h].owner
    BY DEF Regrouped
  <1>3. Still(t, f) /\ Below(t) /\ Top(t)' = f /\ (Len(stack[t]) = 1 => stack'[t][1].pc \notin IdlePcs)
    BY RegroupSame
  <1>4. dq' = dq /\ base' = base /\ hq' = hq /\ live' = live /\ UNCHANGED barVars
        /\ tm' = tm /\ nwait' = nwait /\ sleepers' = sleepers
        /\ barrived' = barrived /\ bgen' = bgen /\ gen' = gen /\ passed' = passed
    BY DEF Regrouped, qVars, sync, idleVars, waitVars, barVars
  <1>5. \A y \in Recs : SameCore(rec[y], rec'[y]) /\ (Deferred(y)' <=> Deferred(y))
    BY <1>1, <1>3, StillSame
  <1>6. \A y : Queued(y)' <=> Queued(y)
    BY <1>4 DEF Queued
  <1>7. RecsOK' /\ QueuesOK' /\ ChildrenOK' /\ RefsOK' /\ LiveOK' /\ EndOK'
    BY <1>1, <1>3, <1>4, <1>6, StillRecs, StillQueues, StillCounts DEF CountsOK
  <1>8. Undisturbed(t, None)
    BY <1>1, <1>2, <1>3, <1>6, StillUndisturbed
  <1>9. StacksOK'
    <2>1. Fate(Top(t))' /\ Counts(Top(t))' /\ Drops(Top(t))'
      <3>1. rec'[x].st = "run"
        BY <1>2, <1>5 DEF SameCore
      <3> QED
        BY <1>2, <1>3, <3>1 DEF Fate, Counts, Drops, WaitPcs, RunPcs
    <2>2. f.pc \notin IdlePcs \cup {"out"}
      BY <1>2 DEF IdlePcs, TcPcs
    <2> QED
      BY <1>2, <1>5, <1>8, <2>1, <2>2, ToppedOK
  <1>10. SleepOK'
    <2>1. pc(t) \notin SlotPcs \cup TcPcs /\ pc(t)' \notin SlotPcs \cup TcPcs
      BY <1>2, <1>3 DEF SlotPcs, TcPcs, pc
    <2> QED
      BY <1>1, <1>3, <1>4, <2>1, AwakeStep DEF CountsOK
  <1>11. BarrierOK'
    <2>1. \A y \in Recs : rec[y].st # "none" => rec'[y].epoch = rec[y].epoch /\ (Over(y) => Over(y)')
      BY <1>2, <1>5 DEF Over, SameCore
    <2>2. \A y \in Tasks : rec[y].st = "none" => rec'[y].st = "none"
      BY <1>5, NoneFree DEF SameCore
    <2>3. Len(stack[t]) = 1 => stack[t][1].pc \notin IdlePcs
      <3> SUFFICES ASSUME Len(stack[t]) = 1 PROVE stack[t][1] = Top(t)
        BY <1>1, <1>2 DEF IdlePcs, TcPcs
      <3> QED
        BY <1>1, TopIs
    <2>4. "retest" \in IdlePcs /\ "drain" \in IdlePcs
      BY DEF IdlePcs
    <2> QED
      BY <1>3, <1>4, <2>1, <2>2, <2>3, <2>4, BarrierStays
  <1>12. Shape'
    BY <1>1, <1>2, <1>3, <1>4 DEF Shape, Below
  <1> QED
    BY <1>7, <1>9, <1>10, <1>11, <1>12 DEF TasksInv, CountsOK

LEMMA GroupSet ==
  ASSUME NEW q \in RecT, NEW g \in Groups \cup {None}
  PROVE  /\ [q EXCEPT !.group = g] \in RecT /\ SameCore(q, [q EXCEPT !.group = g])
         /\ [q EXCEPT !.group = g].group = g /\ [q EXCEPT !.group = g].epoch = q.epoch
  BY DEF RecT, SameCore

\* What the groups and the records look like when x opens group g.
Opened(x, g) ==
  /\ g \in Groups /\ (\A h \in Groups : grp[h].st = "none" <=> h >= g)
  /\ rec[x].st = "run" /\ rec'[x].group = g
  /\ (\A y \in Recs : y # x => rec'[y] = rec[y])
  /\ \A y \in Recs : rec'[y].home = rec[y].home /\ rec'[y].st = rec[y].st
  /\ grp'[g].st = "open" /\ grp'[g].parent = rec[x].group /\ grp'[g].count = 0 /\ grp'[g].owner = x
  /\ \A h \in Groups : h # g => grp'[h] = grp[h]
  /\ \A y \in Tasks : GroupPending(y)' <=> GroupPending(y)
  /\ \A s \in Threads : stack'[s][1].pc \in IdlePcs => rec[s].group = None /\ s # x

LEMMA OpenedOK ==
  ASSUME TasksInv, NEW x \in Recs, NEW g, Opened(x, g)
  PROVE  GroupsOK'
  <1>1. Shape /\ GroupsOK /\ Nested /\ RecsOK
    BY CurIs DEF TasksInv, GroupsOK
  <1>2. /\ g \in Groups /\ (\A h \in Groups : grp[h].st = "none" <=> h >= g)
        /\ rec[x].st = "run" /\ rec'[x].group = g
        /\ (\A y \in Recs : y # x => rec'[y] = rec[y])
        /\ (\A y \in Recs : rec'[y].home = rec[y].home /\ rec'[y].st = rec[y].st)
        /\ grp'[g].st = "open" /\ grp'[g].parent = rec[x].group /\ grp'[g].count = 0 /\ grp'[g].owner = x
        /\ (\A h \in Groups : h # g => grp'[h] = grp[h])
        /\ (\A y \in Tasks : GroupPending(y)' <=> GroupPending(y))
        /\ (\A s \in Threads : stack'[s][1].pc \in IdlePcs => rec[s].group = None /\ s # x)
    BY DEF Opened
  <1>3. \A h \in Groups : h \in Nat
    BY TasksAssumption DEF Groups
  <1>4. grp[g].st = "none"
    BY <1>2, <1>3
  <1>5. \A h \in Groups : grp[h].st # "none" => h < g
    BY <1>2, <1>3
  <1>6. \A h \in Groups \cup {None} : h # None => h \in Groups
    OBVIOUS
  <1>7. \A y \in Recs : rec[y].group \in Groups \cup {None} /\ rec[y].home \in Groups \cup {None}
    BY <1>1 DEF Shape, RecT
  <1>8. \A h \in Groups : grp[h].parent \in Groups \cup {None}
    BY <1>1 DEF Shape, GrpT
  \* The group a running task is in is open.
  <1>9. ASSUME NEW y \in Recs, rec[y].st = "run", rec[y].group # None
        PROVE  rec[y].group \in Groups /\ grp[rec[y].group].st = "open"
               /\ (rec[y].group = rec[y].home \/ grp[rec[y].group].owner = y)
    <2>1. CASE rec[y].group = rec[y].home
      BY <1>9, <2>1, RunningIn
    <2>2. CASE rec[y].group # rec[y].home
      BY <1>1, <1>7, <1>9, <2>2 DEF GroupsOK
    <2> QED
      BY <2>1, <2>2
  <1>10. \A y \in Recs : \/ rec'[y].group = rec'[y].home
                         \/ (rec'[y].group # None /\ grp'[rec'[y].group].owner = y /\ rec'[y].st = "run"
                             /\ grp'[rec'[y].group].st = "open")
    <2>1. ASSUME NEW y \in Recs, y # x, rec[y].group # rec[y].home
          PROVE  rec[y].group # g
      BY <1>1, <1>4, <1>7, <2>1 DEF GroupsOK
    <2>2. ASSUME NEW y \in Recs, y # x
          PROVE  \/ rec'[y].group = rec'[y].home
                 \/ (rec'[y].group # None /\ grp'[rec'[y].group].owner = y /\ rec'[y].st = "run"
                             /\ grp'[rec'[y].group].st = "open")
      <3>1. rec[y].group # rec[y].home =>
              (rec[y].group # None /\ grp[rec[y].group].owner = y /\ rec[y].st = "run" /\ grp[rec[y].group].st = "open")
        BY <1>1 DEF GroupsOK
      <3> QED
        BY <1>2, <1>7, <2>1, <2>2, <3>1
    <2>3. rec'[x].group # None /\ grp'[rec'[x].group].owner = x /\ rec'[x].st = "run" /\ grp'[rec'[x].group].st = "open"
      BY <1>2, NoneFree
    <2> QED
      BY <2>2, <2>3
  <1>11. \A y \in Tasks : rec'[y].st # "none" /\ rec'[y].home # None => grp'[rec'[y].home].st # "none"
    <2>1. \A y \in Tasks : rec[y].st # "none" /\ rec[y].home # None => grp[rec[y].home].st # "none" /\ rec[y].home \in Groups
      BY <1>1, <1>7, NoneFree DEF GroupsOK
    <2> QED
      BY <1>2, <2>1, NoneFree
  <1>12. ASSUME NEW h \in Groups, grp'[h].st # "none"
         PROVE  /\ grp'[h].owner \in Recs
                /\ grp'[h].st = "open" =>
                    \/ grp'[h].parent = rec'[grp'[h].owner].home
                    \/ grp'[h].parent # None /\ grp'[grp'[h].parent].owner = grp'[h].owner
                /\ grp'[h].st = "open" /\ grp'[h].parent # None => grp'[grp'[h].parent].st = "open"
                /\ grp'[h].count = Cardinality(InGrp(h)')
                /\ grp'[h].st = "freed" => grp'[h].count = 0
    <2>1. InGrp(h)' = InGrp(h)
      <3>1. \A y \in Tasks : (GroupPending(y)' /\ rec'[y].home = h) <=> (GroupPending(y) /\ rec[y].home = h)
        BY <1>2, NoneFree
      <3> QED
        BY <3>1 DEF InGrp
    <2>2. CASE h = g
      <3>1. InGrp(g) = {}
        <4>1. \A y \in Tasks : GroupPending(y) => rec[y].st # "none"
          BY DEF GroupPending, Deferred
        <4>2. \A y \in Tasks : rec[y].st # "none" /\ rec[y].home # None => grp[rec[y].home].st # "none"
          BY <1>1 DEF GroupsOK
        <4> QED
          BY <1>2, <1>4, <4>1, <4>2, NoneFree DEF InGrp
      <3>2. Cardinality({}) = 0
        BY FS_EmptySet
      <3>3. rec[x].group # None => grp'[rec[x].group].st = "open" /\ (rec[x].group = rec[x].home \/ grp'[rec[x].group].owner = x)
        <4>1. rec[x].group # None => rec[x].group # g
          BY <1>2, <1>4, <1>9
        <4> QED
          BY <1>2, <1>9, <4>1
      <3>4. rec[x].group = None => rec[x].home = None
        BY <1>1 DEF GroupsOK
      <3> QED
        BY <1>2, <2>1, <2>2, <3>1, <3>2, <3>3, <3>4
    <2>3. CASE h # g
      <3>1. grp'[h] = grp[h] /\ grp[h].st # "none"
        BY <1>2, <1>12, <2>3
      <3>2. /\ grp[h].owner \in Recs
            /\ grp[h].st = "open" =>
                 \/ grp[h].parent = rec[grp[h].owner].home
                 \/ grp[h].parent # None /\ grp[grp[h].parent].owner = grp[h].owner
            /\ grp[h].st = "open" /\ grp[h].parent # None => grp[grp[h].parent].st = "open"
            /\ grp[h].count = Cardinality(InGrp(h))
            /\ grp[h].st = "freed" => grp[h].count = 0
        BY <1>1, <3>1 DEF GroupsOK, InGrp
      <3>3. grp[h].st = "open" /\ grp[h].parent # None => grp'[grp[h].parent] = grp[grp[h].parent]
        <4>1. grp[h].st = "open" /\ grp[h].parent # None => grp[h].parent # g /\ grp[h].parent \in Groups
          BY <1>4, <1>8, <3>2
        <4> QED
          BY <1>2, <4>1
      <3> QED
        BY <1>2, <2>1, <3>1, <3>2, <3>3
    <2> QED
      BY <2>2, <2>3
  <1>13. \A h \in Groups : grp'[h].st = "none" => grp'[h].count = 0
    <2>1. \A h \in Groups : grp[h].st = "none" => grp[h].count = 0
      BY <1>1 DEF GroupsOK
    <2> QED
      BY <1>2, <2>1
  <1>14. \A h \in Groups : grp'[h].st # "none" /\ grp'[h].parent # None => grp'[h].parent < h
    <2>1. rec[x].group # None => rec[x].group < g
      BY <1>2, <1>5, <1>9
    <2>2. \A h \in Groups : grp[h].st # "none" /\ grp[h].parent # None => grp[h].parent < h
      BY <1>1 DEF Nested
    <2> QED
      BY <1>2, <2>1, <2>2
  <1>15. ASSUME NEW h \in Groups, grp'[h].st = "open"
         PROVE  OpenGroup(grp[h].owner)' \/ h = g
    <2>1. SUFFICES ASSUME h # g PROVE OpenGroup(grp[h].owner)'
      OBVIOUS
    <2>2. grp[h].st = "open" /\ grp[h].owner \in Recs
      BY <1>1, <1>2, <1>15, <2>1 DEF GroupsOK
    <2>3. PICK y \in Recs : y = grp[h].owner
      BY <2>2
    <2>4. OpenGroup(y) /\ rec[y].st = "run"
      BY <1>1, <2>2, <2>3 DEF Nested
    <2>5. CASE y = x
      BY <1>2, <2>1, <2>3, <2>5, NoneFree DEF OpenGroup
    <2>6. CASE y # x
      <3>1. rec[y].group \in Groups /\ rec[y].group # g
        BY <1>2, <1>4, <1>9, <2>4 DEF OpenGroup
      <3> QED
        BY <1>2, <2>1, <2>3, <2>4, <2>6, <3>1 DEF OpenGroup
    <2> QED
      BY <2>5, <2>6
  <1>16. ASSUME NEW h \in Groups, grp'[h].st = "open"
         PROVE  (OpenGroup(grp[h].owner) /\ rec[grp[h].owner].st = "run" /\ h <= rec[grp[h].owner].group)'
    <2>1. CASE h = g
      BY <1>2, <1>3, <2>1, NoneFree DEF OpenGroup
    <2>2. CASE h # g
      <3>1. grp'[h] = grp[h] /\ grp[h].st = "open" /\ grp[h].owner \in Recs
        BY <1>1, <1>2, <1>16, <2>2 DEF GroupsOK
      <3>2. rec[grp[h].owner].st = "run" /\ h <= rec[grp[h].owner].group
        BY <1>1, <3>1 DEF Nested
      <3>3. h <= g
        BY <1>3, <1>5, <3>1, <1>2
      <3>4. h <= rec'[grp[h].owner].group
        BY <1>2, <3>1, <3>2, <3>3
      <3>5. OpenGroup(grp[h].owner)'
        BY <1>15, <1>16, <2>2
      <3> QED
        BY <1>2, <3>1, <3>2, <3>4, <3>5
    <2> QED
      BY <2>1, <2>2
  <1>17. ASSUME NEW k \in Groups, NEW h \in Groups, grp'[k].st = "open", grp'[h].st = "open",
                grp'[k].owner = grp'[h].owner, h < k
         PROVE  grp'[k].parent # None /\ grp'[grp'[k].parent].owner = grp'[k].owner /\ h <= grp'[k].parent
    <2>1. h # g /\ grp[h].st = "open" /\ grp'[h] = grp[h]
      <3>1. k # g => k < g
        BY <1>2, <1>5, <1>17
      <3>2. h # g
        BY <1>3, <1>17, <3>1, <1>2
      <3> QED
        BY <1>2, <1>17, <3>2
    <2>2. CASE k = g
      <3>1. grp[h].owner = x
        BY <1>2, <1>17, <2>1, <2>2
      <3>2. OpenGroup(x) /\ h <= rec[x].group
        BY <1>1, <2>1, <3>1 DEF Nested
      <3>3. rec[x].group \in Groups /\ rec[x].group # g
        BY <1>2, <1>4, <1>9, <3>2 DEF OpenGroup
      <3> QED
        BY <1>2, <2>2, <3>2, <3>3 DEF OpenGroup
    <2>3. CASE k # g
      <3>1. grp'[k] = grp[k] /\ grp[k].st = "open" /\ grp[k].owner = grp[h].owner
        BY <1>2, <1>17, <2>1, <2>3
      <3>2. grp[k].parent # None /\ grp[grp[k].parent].owner = grp[k].owner /\ h <= grp[k].parent
        BY <1>1, <1>17, <2>1, <3>1 DEF Nested
      <3>3. grp[grp[k].parent].st = "open"
        BY <1>1, <3>1, <3>2 DEF GroupsOK
      <3> QED
        BY <1>2, <1>4, <1>8, <3>1, <3>2, <3>3
    <2> QED
      BY <2>2, <2>3
  <1>18. \A s \in Threads : stack'[s][1].pc \in IdlePcs => rec'[s].group = None
    BY <1>2, NoneFree
  <1>19. Nested'
    BY <1>14, <1>16, <1>17, <1>18 DEF Nested
  <1> QED
    BY <1>10, <1>11, <1>12, <1>13, <1>19 DEF GroupsOK, InGrp

LEMMA GroupBeginStep ==
  ASSUME TasksInv, NEW t \in Threads, GroupBegin(t)
  PROVE  TasksInv'
  <1>1. /\ Shape /\ StacksOK /\ Top(t) \in FrameT /\ Cur(t) \in Recs /\ Top(t).tk = Cur(t) /\ Top(t).pc = pc(t)
        /\ Fate(Top(t)) /\ Counts(Top(t)) /\ Drops(Top(t))
    BY CurIs
  <1>2. PICK x \in Recs : x = Cur(t)
    BY <1>1
  <1>3. PICK g \in Groups :
          /\ (\A h \in Groups : grp[h].st = "none" <=> h >= g)
          /\ grp' = [grp EXCEPT ![g] = [st |-> "open", parent |-> rec[x].group, count |-> 0, owner |-> x]]
          /\ rec' = [rec EXCEPT ![x].group = g]
    BY <1>2 DEF GroupBegin
  <1>4. pc(t) = "body" /\ stack' = stack /\ UNCHANGED <<qVars, live, sync>>
    BY DEF GroupBegin, Active
  <1>5. rec[x].st = "run" /\ Top(t).ctr = <<>> /\ Top(t).drop = <<>>
    BY <1>1, <1>2, <1>4 DEF Fate, Counts, Drops, RunPcs, WaitPcs
  <1>6. rec[x] \in RecT /\ grp \in [Groups -> GrpT] /\ rec[x].group \in Groups \cup {None}
    BY <1>1 DEF Shape, RecT
  <1>7. PICK q : q = [rec[x] EXCEPT !.group = g]
    OBVIOUS
  <1>8. q \in RecT /\ SameCore(rec[x], q) /\ q.group = g /\ q.epoch = rec[x].epoch
    BY <1>6, <1>7, GroupSet
  <1>9. rec' = [rec EXCEPT ![x] = q]
    BY <1>3, <1>7
  <1>10. rec' \in [Recs -> RecT] /\ rec'[x] = q /\ \A y \in Recs \ {x} : rec'[y] = rec[y]
    BY <1>1, <1>8, <1>9, RecSet DEF Shape
  <1>11. [st |-> "open", parent |-> rec[x].group, count |-> 0, owner |-> x] \in GrpT
    BY <1>6 DEF GrpT
  <1>12. grp' \in [Groups -> GrpT] /\ (\A h \in Groups : h # g => grp'[h] = grp[h])
         /\ grp'[g].st = "open" /\ grp'[g].parent = rec[x].group /\ grp'[g].count = 0 /\ grp'[g].owner = x
    BY <1>3, <1>6, <1>11
  <1>13. grp[g].st = "none"
    <2>1. g >= g
      BY TasksAssumption DEF Groups
    <2> QED
      BY <1>3, <2>1
  <1>14. PICK f \in FrameT : f = Top(t)
    BY <1>1
  <1>15. Topped(t, f)
    BY <1>1, <1>4, <1>14, TopIs DEF Topped, Below, Others, Woken, Shape
  <1>16. Regrouped(t, x, f)
    BY <1>1, <1>2, <1>4, <1>5, <1>8, <1>10, <1>12, <1>13, <1>14, <1>15 DEF Regrouped
  <1>17. Opened(x, g)
    BY <1>3, <1>5, <1>8, <1>10, <1>12, <1>16, RegroupSame DEF Opened
  <1> QED
    BY <1>16, <1>17, OpenedOK, RegroupStep

LEMMA OpenIs ==
  ASSUME GroupsOK, NEW h \in Groups, grp[h].st = "open"
  PROVE  /\ grp[h].owner \in Recs /\ rec[grp[h].owner].st = "run" /\ OpenGroup(grp[h].owner)
         /\ h <= rec[grp[h].owner].group
         /\ (grp[h].parent = rec[grp[h].owner].home
             \/ (grp[h].parent # None /\ grp[grp[h].parent].owner = grp[h].owner))
         /\ (grp[h].parent # None => grp[grp[h].parent].st = "open" /\ grp[h].parent < h)
  <1>1. Nested /\ grp[h].st # "none"
    BY DEF GroupsOK
  <1>2. /\ grp[h].owner \in Recs
        /\ (grp[h].parent = rec[grp[h].owner].home
            \/ (grp[h].parent # None /\ grp[grp[h].parent].owner = grp[h].owner))
        /\ (grp[h].parent # None => grp[grp[h].parent].st = "open")
    BY <1>1 DEF GroupsOK
  <1>3. rec[grp[h].owner].st = "run" /\ OpenGroup(grp[h].owner) /\ h <= rec[grp[h].owner].group
    BY <1>1 DEF Nested
  <1>4. grp[h].parent # None => grp[h].parent < h
    BY <1>1 DEF Nested
  <1> QED
    BY <1>2, <1>3, <1>4

\* The open groups of one task are nested.
LEMMA OpenInside ==
  ASSUME GroupsOK, NEW k \in Groups, NEW h \in Groups, grp[k].st = "open", grp[h].st = "open",
         grp[k].owner = grp[h].owner, h < k
  PROVE  grp[k].parent # None /\ grp[grp[k].parent].owner = grp[k].owner /\ h <= grp[k].parent
  <1>1. Nested
    BY DEF GroupsOK
  <1> QED
    BY <1>1 DEF Nested

\* What the groups and the records look like when x closes group g.
Closed(x, g) ==
  /\ g \in Groups /\ rec[x].st = "run" /\ rec[x].group = g /\ grp[g].owner = x /\ grp[g].count = 0
  /\ rec'[x].group = grp[g].parent
  /\ (\A y \in Recs : y # x => rec'[y] = rec[y])
  /\ (\A y \in Recs : rec'[y].home = rec[y].home /\ rec'[y].st = rec[y].st)
  /\ grp'[g].st = "freed"
  /\ (\A h \in Groups : grp'[h].parent = grp[h].parent /\ grp'[h].count = grp[h].count
                        /\ grp'[h].owner = grp[h].owner /\ (h # g => grp'[h].st = grp[h].st))
  /\ (\A y \in Tasks : GroupPending(y)' <=> GroupPending(y))
  /\ (\A s \in Threads : stack'[s][1].pc \in IdlePcs => rec[s].group = None /\ s # x)

LEMMA ClosedOK ==
  ASSUME TasksInv, NEW x \in Recs, NEW g, Closed(x, g)
  PROVE  GroupsOK'
  <1>1. Shape /\ GroupsOK /\ Nested /\ RecsOK
    BY CurIs DEF TasksInv, GroupsOK
  <1>2. /\ g \in Groups /\ rec[x].st = "run" /\ rec[x].group = g /\ grp[g].owner = x /\ grp[g].count = 0
        /\ rec'[x].group = grp[g].parent
        /\ (\A y \in Recs : y # x => rec'[y] = rec[y])
        /\ (\A y \in Recs : rec'[y].home = rec[y].home /\ rec'[y].st = rec[y].st)
        /\ grp'[g].st = "freed"
        /\ (\A h \in Groups : grp'[h].parent = grp[h].parent /\ grp'[h].count = grp[h].count
                              /\ grp'[h].owner = grp[h].owner /\ (h # g => grp'[h].st = grp[h].st))
        /\ (\A y \in Tasks : GroupPending(y)' <=> GroupPending(y))
        /\ (\A s \in Threads : stack'[s][1].pc \in IdlePcs => rec[s].group = None /\ s # x)
    BY DEF Closed
  <1>3. \A h \in Groups : h \in Nat
    BY TasksAssumption DEF Groups
  <1>4. \A y \in Recs : rec[y].st = "run" => rec[y].home # g
    BY <1>2, RunningIn, NoneFree
  <1>5. grp[g].st = "open"
    <2>1. rec[x].group = rec[x].home \/ grp[rec[x].group].st = "open"
      BY <1>1 DEF GroupsOK
    <2> QED
      BY <1>2, <1>4, <2>1
  <1>6. \A y \in Recs : rec[y].group \in Groups \cup {None} /\ rec[y].home \in Groups \cup {None}
    BY <1>1 DEF Shape, RecT
  <1>7. \A h \in Groups : grp[h].parent \in Groups \cup {None} /\ grp[h].st \in {"none", "open", "freed"}
    BY <1>1 DEF Shape, GrpT
  <1>8. grp[g].parent # None => /\ grp[g].parent \in Groups /\ grp[g].parent < g
                                /\ grp[g].parent # g /\ grp'[grp[g].parent].st = "open"
    <2>1. grp[g].parent # None => grp[g].parent \in Groups /\ grp[g].parent < g /\ grp[grp[g].parent].st = "open"
      BY <1>1, <1>2, <1>5, <1>7, OpenIs
    <2>2. grp[g].parent # None => grp[g].parent # g
      BY <1>2, <1>3, <2>1
    <2> QED
      BY <1>2, <2>1, <2>2
  <1>9. \A y \in Recs : \/ rec'[y].group = rec'[y].home
                        \/ (rec'[y].group # None /\ grp'[rec'[y].group].owner = y /\ rec'[y].st = "run"
                            /\ grp'[rec'[y].group].st = "open")
    <2>1. ASSUME NEW y \in Recs, y # x
          PROVE  \/ rec'[y].group = rec'[y].home
                 \/ (rec'[y].group # None /\ grp'[rec'[y].group].owner = y /\ rec'[y].st = "run"
                     /\ grp'[rec'[y].group].st = "open")
      <3>1. rec[y].group # rec[y].home =>
              (rec[y].group # None /\ grp[rec[y].group].owner = y /\ rec[y].st = "run" /\ grp[rec[y].group].st = "open")
        BY <1>1 DEF GroupsOK
      <3> QED
        BY <1>2, <1>6, <2>1, <3>1
    <2>2. \/ grp[g].parent = rec[x].home
          \/ grp[g].parent # None /\ grp[grp[g].parent].owner = x
      BY <1>1, <1>2, <1>5, OpenIs
    <2>3. \/ rec'[x].group = rec'[x].home
          \/ (rec'[x].group # None /\ grp'[rec'[x].group].owner = x /\ rec'[x].st = "run"
              /\ grp'[rec'[x].group].st = "open")
      BY <1>2, <1>8, <2>2
    <2> QED
      BY <2>1, <2>3
  <1>10. \A y \in Tasks : rec'[y].st # "none" /\ rec'[y].home # None => grp'[rec'[y].home].st # "none"
    <2>1. \A y \in Tasks : rec[y].st # "none" /\ rec[y].home # None => grp[rec[y].home].st # "none" /\ rec[y].home \in Groups
      BY <1>1, <1>6, NoneFree DEF GroupsOK
    <2> QED
      BY <1>2, <2>1, NoneFree
  \* No open group is inside g.
  <1>11. ASSUME NEW h \in Groups, grp[h].st = "open"
         PROVE  grp[h].parent # g
    <2>1. SUFFICES ASSUME grp[h].parent = g PROVE FALSE
      OBVIOUS
    <2>2. g < h /\ grp[h].owner \in Recs /\ rec[grp[h].owner].st = "run"
      BY <1>1, <1>2, <1>11, <2>1, NoneFree, OpenIs
    <2>3. grp[h].owner = x
      BY <1>1, <1>2, <1>4, <1>11, <2>1, <2>2, OpenIs
    <2>4. h <= g
      BY <1>1, <1>2, <1>11, <2>3, OpenIs
    <2> QED
      BY <1>2, <1>3, <2>2, <2>4
  <1>12. ASSUME NEW h \in Groups, grp'[h].st # "none"
         PROVE  /\ grp'[h].owner \in Recs
                /\ grp'[h].st = "open" =>
                    \/ grp'[h].parent = rec'[grp'[h].owner].home
                    \/ grp'[h].parent # None /\ grp'[grp'[h].parent].owner = grp'[h].owner
                /\ grp'[h].st = "open" /\ grp'[h].parent # None => grp'[grp'[h].parent].st = "open"
                /\ grp'[h].count = Cardinality(InGrp(h)')
                /\ grp'[h].st = "freed" => grp'[h].count = 0
    <2>1. InGrp(h)' = InGrp(h)
      <3>1. \A y \in Tasks : (GroupPending(y)' /\ rec'[y].home = h) <=> (GroupPending(y) /\ rec[y].home = h)
        BY <1>2, NoneFree
      <3> QED
        BY <3>1 DEF InGrp
    <2>2. grp[h].st # "none"
      BY <1>2, <1>5, <1>12
    <2>3. /\ grp[h].owner \in Recs
          /\ grp[h].st = "open" =>
               \/ grp[h].parent = rec[grp[h].owner].home
               \/ grp[h].parent # None /\ grp[grp[h].parent].owner = grp[h].owner
          /\ grp[h].st = "open" /\ grp[h].parent # None => grp[grp[h].parent].st = "open"
          /\ grp[h].count = Cardinality(InGrp(h))
          /\ grp[h].st = "freed" => grp[h].count = 0
      BY <1>1, <2>2 DEF GroupsOK, InGrp
    <2>4. grp'[h].st = "open" => h # g /\ grp[h].st = "open"
      BY <1>2
    <2>5. grp'[h].st = "open" /\ grp'[h].parent # None => grp'[grp'[h].parent].st = "open"
      BY <1>2, <1>7, <1>11, <2>3, <2>4
    <2>6. grp'[h].parent # None => grp'[grp'[h].parent].owner = grp[grp[h].parent].owner
      BY <1>2, <1>7
    <2>7. grp'[h].st = "open" =>
            \/ grp'[h].parent = rec'[grp'[h].owner].home
            \/ grp'[h].parent # None /\ grp'[grp'[h].parent].owner = grp'[h].owner
      BY <1>2, <2>3, <2>4, <2>6
    <2> QED
      BY <1>2, <2>1, <2>3, <2>5, <2>7
  <1>13. \A h \in Groups : grp'[h].st = "none" => grp'[h].count = 0
    <2>1. \A h \in Groups : grp[h].st = "none" => grp[h].count = 0
      BY <1>1 DEF GroupsOK
    <2>2. \A h \in Groups : grp'[h].st = "none" => grp[h].st = "none"
      BY <1>2
    <2> QED
      BY <1>2, <2>1, <2>2
  <1>14. \A h \in Groups : grp'[h].st # "none" /\ grp'[h].parent # None => grp'[h].parent < h
    BY <1>1, <1>2, <1>5 DEF Nested
  <1>15. ASSUME NEW h \in Groups, grp'[h].st = "open"
         PROVE  (OpenGroup(grp[h].owner) /\ rec[grp[h].owner].st = "run" /\ h <= rec[grp[h].owner].group)'
    <2>1. h # g /\ grp[h].st = "open"
      BY <1>2, <1>15
    <2>2. PICK y \in Recs : y = grp[h].owner /\ y = grp'[h].owner
      BY <1>1, <1>2, <2>1 DEF GroupsOK
    <2>3. OpenGroup(y) /\ rec[y].st = "run" /\ h <= rec[y].group
      BY <1>1, <2>1, <2>2 DEF Nested
    <2>4. CASE y = x
      <3>1. h < g
        BY <1>2, <1>3, <2>1, <2>3, <2>4
      <3>2. grp[g].parent # None /\ grp[grp[g].parent].owner = x /\ h <= grp[g].parent
        <4>1. grp[g].owner = x /\ grp[h].owner = x /\ g \in Groups
          BY <1>2, <2>2, <2>4
        <4>2. grp[g].parent # None /\ grp[grp[g].parent].owner = grp[g].owner /\ h <= grp[g].parent
          BY <1>1, <1>5, <2>1, <3>1, <4>1, OpenInside
        <4> QED
          BY <4>1, <4>2
      <3> QED
        BY <1>2, <1>8, <2>2, <2>3, <2>4, <3>2 DEF OpenGroup
    <2>5. CASE y # x
      BY <1>2, <1>6, <2>2, <2>3, <2>5 DEF OpenGroup
    <2> QED
      BY <2>4, <2>5
  <1>16. ASSUME NEW k \in Groups, NEW h \in Groups, grp'[k].st = "open", grp'[h].st = "open",
                grp'[k].owner = grp'[h].owner, h < k
         PROVE  grp'[k].parent # None /\ grp'[grp'[k].parent].owner = grp'[k].owner /\ h <= grp'[k].parent
    <2>1. grp[k].st = "open" /\ grp[h].st = "open" /\ grp[k].owner = grp[h].owner
      BY <1>2, <1>16
    <2>2. grp[k].parent # None /\ grp[grp[k].parent].owner = grp[k].owner /\ h <= grp[k].parent
      BY <1>1, <1>16, <2>1 DEF Nested
    <2> QED
      BY <1>2, <1>7, <2>2
  <1>17. \A s \in Threads : stack'[s][1].pc \in IdlePcs => rec'[s].group = None
    BY <1>2, NoneFree
  <1>18. Nested'
    BY <1>14, <1>15, <1>16, <1>17 DEF Nested
  <1> QED
    BY <1>9, <1>10, <1>12, <1>13, <1>18 DEF GroupsOK, InGrp

LEMMA GroupEndStep ==
  ASSUME TasksInv, NEW t \in Threads, GroupEnd(t)
  PROVE  TasksInv'
  <1>1. /\ Shape /\ StacksOK /\ Top(t) \in FrameT /\ Cur(t) \in Recs /\ Top(t).tk = Cur(t) /\ Top(t).pc = pc(t)
        /\ Fate(Top(t)) /\ Counts(Top(t)) /\ Drops(Top(t))
    BY CurIs
  <1>2. PICK x \in Recs : x = Cur(t)
    BY <1>1
  <1>3. pc(t) = "wait" /\ Top(t).ctr[1] = "group"
    BY DEF GroupEnd, Waits
  <1>4. PICK g \in Groups : /\ Top(t).ctr = <<"group", g>> /\ rec[x].group = g
                            /\ grp[g].owner = x /\ rec[x].st = "run"
    BY <1>1, <1>2, <1>3 DEF Counts, WaitPcs
  <1>5. grp[g].count = 0
    BY <1>4 DEF GroupEnd, Counter
  <1>6. PICK p : p = grp[g].parent
    OBVIOUS
  <1>7. rec' = [rec EXCEPT ![x].group = p] /\ grp' = [grp EXCEPT ![g].st = "freed"]
    BY <1>2, <1>4, <1>6 DEF GroupEnd
  <1>8. PICK f \in FrameT : f = Frame(x, "body") /\ IsFrame(f, x, "body", <<>>, <<>>)
    <2>1. IsFrame(Frame(x, "body"), x, "body", <<>>, <<>>)
      BY PcIs, FrameIs
    <2> QED
      BY <2>1 DEF IsFrame
  <1>9. SetTop(t, f) /\ UNCHANGED <<qVars, live, sync>>
    BY <1>2, <1>8 DEF GroupEnd
  <1>10. Topped(t, f)
    BY <1>1, <1>9, SetTopStep
  <1>11. rec[x] \in RecT /\ grp \in [Groups -> GrpT] /\ p \in Groups \cup {None}
    BY <1>1, <1>6 DEF Shape, GrpT
  <1>12. PICK q : q = [rec[x] EXCEPT !.group = p]
    OBVIOUS
  <1>13. q \in RecT /\ SameCore(rec[x], q) /\ q.group = p /\ q.epoch = rec[x].epoch
    BY <1>11, <1>12, GroupSet
  <1>14. rec' = [rec EXCEPT ![x] = q]
    BY <1>7, <1>12
  <1>15. rec' \in [Recs -> RecT] /\ rec'[x] = q /\ \A y \in Recs \ {x} : rec'[y] = rec[y]
    BY <1>1, <1>13, <1>14, RecSet DEF Shape
  <1>16. grp' \in [Groups -> GrpT] /\ grp'[g].st = "freed"
         /\ \A h \in Groups : grp'[h].parent = grp[h].parent /\ grp'[h].count = grp[h].count
                              /\ grp'[h].owner = grp[h].owner /\ (h # g => grp'[h].st = grp[h].st)
    BY <1>7, <1>11 DEF GrpT
  <1>17. Regrouped(t, x, f)
    BY <1>2, <1>3, <1>4, <1>8, <1>9, <1>10, <1>13, <1>15, <1>16 DEF Regrouped, IsFrame
  <1>18. Closed(x, g)
    BY <1>4, <1>5, <1>6, <1>13, <1>15, <1>16, <1>17, RegroupSame DEF Closed
  <1> QED
    BY <1>17, <1>18, ClosedOK, RegroupStep
-----------------------------------------------------------------------------
(* A task is created.                                                       *)
\* The next task has not been created, and all those before it have.
LEMMA FreshIs ==
  ASSUME TasksInv, NEW k \in NextKinds
  PROVE  /\ Fresh \in Tasks /\ k \in Kind /\ rec[Fresh] = NoRec
         /\ \A y \in Tasks : y < Fresh => rec[y].st # "none"
         /\ \A y \in Tasks : y > Fresh => rec[y].st = "none"
  <1> DEFINE S == {x \in Tasks : rec[x].st # "none"}
  <1>1. /\ RecsOK /\ IsFiniteSet(Tasks) /\ MaxTasks \in Nat /\ Tasks \cap Threads = {} /\ Tasks \subseteq Recs
    BY CurIs, NoneFree DEF TasksInv
  <1>2. IsFiniteSet(S) /\ S \subseteq Tasks
    BY <1>1, FS_Subset
  <1>3. PICK c \in Nat : c = Cardinality(S)
    BY <1>2, FS_CardinalityType
  <1>4. Fresh = 1 + c
    BY <1>3 DEF Fresh
  <1>5. PICK p \in Programs : Fresh <= Len(p) /\ k = p[Fresh]
    BY DEF NextKinds
  <1>6. PICK m \in 0 .. MaxTasks : p \in [1 .. m -> Kind]
    BY <1>5, TasksAssumption DEF SeqOf
  <1>7. Len(p) = m /\ m <= MaxTasks /\ m \in Nat
    BY <1>1, <1>6
  <1>8. Fresh \in Tasks /\ k \in Kind /\ Fresh \in Nat
    BY <1>1, <1>4, <1>5, <1>6, <1>7 DEF Tasks
  <1>9. \A x \in S : \A y \in Tasks : y < x => y \in S
    BY <1>1 DEF RecsOK, Born
  <1> HIDE DEF S
  <1>10. ASSUME NEW x \in S
         PROVE  x <= c
    <2>1. x \in Nat /\ x \in 1 .. MaxTasks
      BY <1>1, <1>2 DEF Tasks
    <2>2. 1 .. x \subseteq S
      <3>1. \A y \in 1 .. x : y \in Tasks /\ (y < x \/ y = x)
        BY <1>1, <2>1 DEF Tasks
      <3> QED
        BY <1>9, <3>1
    <2>3. IsFiniteSet(1 .. x) /\ Cardinality(1 .. x) = x
      BY <2>1, FS_Interval
    <2>4. Cardinality(1 .. x) <= Cardinality(S)
      BY <1>2, <2>2, FS_Subset
    <2> QED
      BY <1>3, <2>3, <2>4
  <1>11. ASSUME NEW y \in Tasks, y <= c
         PROVE  y \in S
    <2> SUFFICES ASSUME y \notin S
                 PROVE  FALSE
      OBVIOUS
    <2>1. y \in Nat /\ y > 0 /\ y - 1 \in Nat
      BY <1>1 DEF Tasks
    <2>2. S \subseteq 1 .. (y - 1)
      <3> SUFFICES ASSUME NEW z \in S
                   PROVE  z \in 1 .. (y - 1)
        OBVIOUS
      <3>1. z \in Tasks /\ z \in Nat /\ z > 0
        BY <1>1, <1>2 DEF Tasks
      <3>2. ~ (y < z) /\ y # z
        BY <1>9
      <3> QED
        BY <2>1, <3>1, <3>2
    <2>3. IsFiniteSet(1 .. (y - 1)) /\ Cardinality(1 .. (y - 1)) = y - 1
      BY <2>1, FS_Interval
    <2>4. Cardinality(S) <= Cardinality(1 .. (y - 1))
      BY <2>2, <2>3, FS_Subset
    <2>5. c <= y - 1
      BY <1>3, <2>3, <2>4
    <2> QED
      BY <1>11, <2>1, <2>5
  <1>12. \A y \in Tasks : y < Fresh => y \in S
    BY <1>1, <1>4, <1>11 DEF Tasks
  <1>13. \A y \in Tasks : y >= Fresh => y \notin S
    BY <1>1, <1>4, <1>10 DEF Tasks
  <1>14. Fresh \notin S /\ \A y \in Tasks : y > Fresh => y \notin S
    BY <1>1, <1>8, <1>13 DEF Tasks
  <1>15. rec[Fresh] = NoRec
    BY <1>1, <1>8, <1>14 DEF RecsOK, Born, S
  <1> QED
    BY <1>8, <1>12, <1>14, <1>15 DEF S

\* A frame that counts a task's predecessors awaits that task.
LEMMA CountsAwaits ==
  ASSUME NEW f, Counts(f), NEW n, f.ctr = <<"npred", n>>
  PROVE  Awaited(f, n)
  <1>1. \A x : f.ctr = <<"npred", x>> => x = n
    OBVIOUS
  <1>2. f.ctr # <<>> /\ f.ctr # <<"children", f.tk>> /\ \A g \in Groups : f.ctr # <<"group", g>>
    OBVIOUS
  <1>3. \E x \in Tasks : f.ctr = <<"npred", x>> /\ Awaited(f, x)
    <2>1. CASE f.pc \in WaitPcs
      BY <1>2, <2>1 DEF Counts
    <2>2. CASE f.pc = "unref"
      BY <1>2, <2>2 DEF Counts
    <2>3. CASE f.pc = "link"
      BY <2>3 DEF Counts
    <2>4. CASE f.pc \notin WaitPcs \cup {"unref", "link"}
      BY <1>2, <2>4 DEF Counts
    <2> QED
      BY <2>1, <2>2, <2>3, <2>4
  <1> QED
    BY <1>1, <1>3

\* Nothing is about a task that has not been created.
LEMMA FreshNowhere ==
  ASSUME TasksInv, NEW n \in Tasks, rec[n] = NoRec
  PROVE  /\ \A s \in Threads : \A i \in DOMAIN stack[s] :
              stack[s][i].tk # n /\ stack[s][i].ctr # <<"npred", n>>
         /\ ~ OnStack(n) /\ ~ Queued(n) /\ ~ Deferred(n)
         /\ ~ Pending(n) /\ ~ GroupPending(n) /\ ~ Unsettled(n)
         /\ \A s \in Threads : Cur(s) # n
         /\ \A y \in Recs : n \notin rec[y].pred
  <1>1. Shape /\ StacksOK /\ RecsOK /\ QueuesOK
    BY CurIs DEF TasksInv
  <1>2. rec[n].st = "none"
    BY DEF NoRec
  <1>3. ASSUME NEW s \in Threads, NEW i \in DOMAIN stack[s]
        PROVE  stack[s][i].tk # n /\ stack[s][i].ctr # <<"npred", n>>
    <2>1. FrameOK(s, i) /\ stack[s][i] \in FrameT
      BY <1>1 DEF StacksOK, Shape
    <2>2. stack[s][i].tk # n
      BY <1>2, <2>1, FrameBorn DEF FrameOK
    <2>3. ~ Awaited(stack[s][i], n)
      BY <1>2 DEF Awaited
    <2>4. Counts(stack[s][i])
      BY <2>1 DEF FrameOK
    <2>5. stack[s][i].ctr # <<"npred", n>>
      BY <2>3, <2>4, CountsAwaits
    <2> QED
      BY <2>2, <2>5
  <1>4. \A s \in Threads : Len(stack[s]) \in DOMAIN stack[s] /\ Cur(s) = stack[s][Len(stack[s])].tk
    BY <1>1, TopIs DEF Cur
  <1>5. ~ OnStack(n) /\ \A s \in Threads : Cur(s) # n
    BY <1>3, <1>4 DEF OnStack
  <1>6. ~ Queued(n) /\ ~ Deferred(n)
    BY <1>1, <1>2 DEF QueuesOK, Deferred
  <1>7. \A y \in Recs : n \notin rec[y].pred
    BY <1>1, <1>6 DEF RecsOK, Waits4
  <1> QED
    BY <1>3, <1>5, <1>6, <1>7 DEF Pending, GroupPending, Unsettled

\* The task that creates another one has not passed a barrier since it started.
LEMMA BodyEpoch ==
  ASSUME TasksInv, NEW t \in Threads, pc(t) = "body"
  PROVE  /\ rec[Cur(t)].st = "run" /\ rec[Cur(t)].epoch \in Nat /\ ~ (rec[Cur(t)].epoch < bgen)
         /\ rec[Cur(t)].epoch >= bgen
  <1>1. /\ Shape /\ StacksOK /\ BarrierOK /\ Cur(t) \in Recs /\ Top(t).tk = Cur(t) /\ Top(t).pc = pc(t)
        /\ Fate(Top(t)) /\ (Len(stack[t]) = 1 => Cur(t) = t) /\ (Len(stack[t]) # 1 => Cur(t) \in Tasks)
    BY CurIs
  <1>2. rec[Cur(t)].st = "run"
    BY <1>1 DEF Fate, RunPcs
  <1>3. rec[Cur(t)].epoch \in Nat /\ bgen \in Nat
    BY <1>1 DEF Shape, RecT
  <1>4. CASE Len(stack[t]) = 1
    <2>1. stack[t][1] = Top(t)
      BY <1>1, <1>4, TopIs
    <2>2. ~ InBarrier(t)
      BY <1>1, <2>1 DEF InBarrier, IdlePcs, TcPcs
    <2>3. rec[t].epoch = bgen
      BY <1>1, <2>2 DEF BarrierOK
    <2> QED
      BY <1>1, <1>2, <1>3, <1>4, <2>3
  <1>5. CASE Len(stack[t]) # 1
    <2>1. ~ Over(Cur(t)) /\ rec[Cur(t)].st # "none"
      BY <1>2 DEF Over
    <2>2. ~ (rec[Cur(t)].epoch < bgen)
      BY <1>1, <1>5, <2>1 DEF BarrierOK
    <2> QED
      BY <1>2, <1>3, <2>2
  <1> QED
    BY <1>4, <1>5

LEMMA PushOnStep ==
  ASSUME Shape, StacksOK, NEW t \in Threads, NEW g \in FrameT,
         stack' = [stack EXCEPT ![t] = Append(@, g)]
  PROVE  Pushed(t, Top(t), g) /\ stack'[t] # <<>> /\ Top(t)' = g
  <1>1. stack[t] \in Seq(FrameT) /\ stack[t] # <<>> /\ Top(t) \in FrameT /\ Top(t) = stack[t][Len(stack[t])]
    BY TopIs
  <1>2. PICK n \in Nat : n = Len(stack[t]) /\ n # 0
    BY TopIs
  <1>3. PICK u : u = Append(Front(stack[t]), Top(t))
    OBVIOUS
  <1>4. u \in Seq(FrameT) /\ Len(u) = n /\ u[n] = Top(t) /\ \A i \in 1 .. n - 1 : u[i] = stack[t][i]
    BY <1>1, <1>2, <1>3, RetoppedIs
  <1>5. \A i \in 1 .. n : u[i] = stack[t][i]
    BY <1>1, <1>2, <1>4
  <1>6. u = stack[t]
    BY <1>1, <1>2, <1>4, <1>5, SeqEqual
  <1>7. stack' = [stack EXCEPT ![t] = Append(Append(Front(@), Top(t)), g)]
    BY <1>3, <1>6
  <1> QED
    BY <1>1, <1>7, PushStep
\* The record of a new task.
IsNew(q, x, e, k) ==
  /\ q \in RecT /\ q.creator = x /\ q.epoch = e /\ q.kind = k /\ q.children = 0 /\ ~ q.kids
  /\ q.pred = {} /\ ~ q.done /\ q.writer = None /\ q.readers = <<>> /\ q.group = q.home
\* The record of a task that runs where it is created.
InPlaceNew(k, b, x, e, w, m) ==
  [NoRec EXCEPT !.st = "run", !.inplace = TRUE, !.kind = k, !.final = b,
                !.creator = x, !.epoch = e, !.within = w, !.mark = m]
IsInPlace(q, x, e, k) ==
  IsNew(q, x, e, k) /\ q.st = "run" /\ q.inplace /\ q.parent = None /\ q.refs = 0 /\ q.home = None
LEMMA InPlaceIs ==
  ASSUME NEW k, NEW b, NEW x, NEW e, NEW w, NEW m, NEW q, q = InPlaceNew(k, b, x, e, w, m)
  PROVE  q = [st |-> "run", inplace |-> TRUE, kind |-> k, final |-> b, parent |-> None,
              creator |-> x, group |-> None, epoch |-> e, children |-> 0, kids |-> FALSE, refs |-> 0,
              mark |-> m, pred |-> {}, done |-> FALSE, writer |-> None, readers |-> <<>>,
              within |-> w, home |-> None]
  BY DEF NoRec, InPlaceNew

LEMMA InPlaceRec ==
  ASSUME NEW k \in Kind, NEW b \in BOOLEAN, NEW x \in Recs, NEW e \in Nat, NEW w \in Groups \cup {None}, NEW m \in Int
  PROVE  IsInPlace(InPlaceNew(k, b, x, e, w, m), x, e, k)
  <1> DEFINE q == InPlaceNew(k, b, x, e, w, m)
  <1> HIDE DEF q
  <1>0. q = InPlaceNew(k, b, x, e, w, m)
    BY DEF q
  <1>1. q = [st |-> "run", inplace |-> TRUE, kind |-> k, final |-> b, parent |-> None,
              creator |-> x, group |-> None, epoch |-> e, children |-> 0, kids |-> FALSE, refs |-> 0,
              mark |-> m, pred |-> {}, done |-> FALSE, writer |-> None, readers |-> <<>>,
              within |-> w, home |-> None]
    BY <1>0, InPlaceIs
  <1>2. <<>> \in Seq(Tasks)
    BY EmptySeq
  <1>3. q \in RecT
    BY <1>1, <1>2 DEF RecT
  <1>4. IsInPlace(q, x, e, k)
    BY <1>1, <1>3 DEF IsNew, IsInPlace
  <1> QED
    BY <1>4 DEF q

LEMMA SpawnInPlaceStep ==
  ASSUME TasksInv, NEW t \in Threads, NEW k \in NextKinds, SpawnInPlace(t, k)
  PROVE  TasksInv'
  <1>1. /\ Shape /\ StacksOK /\ RecsOK /\ QueuesOK /\ CountsOK /\ GroupsOK /\ BarrierOK
        /\ Top(t) \in FrameT /\ Cur(t) \in Recs /\ Top(t).tk = Cur(t) /\ Top(t).pc = pc(t)
        /\ Fate(Top(t)) /\ Counts(Top(t)) /\ Drops(Top(t))
        /\ (Len(stack[t]) = 1 => Cur(t) = t)
    BY CurIs
  <1>2. PICK x \in Recs : x = Cur(t)
    BY <1>1
  <1>3. PICK n \in Tasks : n = Fresh
    BY FreshIs
  <1>4. /\ k \in Kind /\ rec[n] = NoRec /\ (\A y \in Tasks : y < n => rec[y].st # "none")
        /\ (\A y \in Tasks : y > n => rec[y].st = "none") /\ n \in Recs /\ n \notin Threads
    BY <1>3, FreshIs, NoneFree
  <1>5. /\ \A s \in Threads : \A i \in DOMAIN stack[s] : stack[s][i].tk # n /\ stack[s][i].ctr # <<"npred", n>>
        /\ ~ OnStack(n) /\ ~ Queued(n) /\ ~ Deferred(n) /\ x # n
        /\ \A y \in Recs : n \notin rec[y].pred
    BY <1>2, <1>4, FreshNowhere
  <1>6. pc(t) = "body" /\ rec[x].st = "run" /\ rec[x].epoch \in Nat /\ ~ (rec[x].epoch < bgen)
    BY <1>2, BodyEpoch DEF SpawnInPlace, Creates, Active
  <1> DEFINE q == [NoRec EXCEPT !.st = "run", !.inplace = TRUE, !.kind = k,
                     !.final = k.final \/ rec[Cur(t)].final,
                     !.creator = Cur(t), !.epoch = rec[Cur(t)].epoch,
                     !.within = Enclosing(Cur(t)), !.mark = Bottom(t)]
             g == Frame(n, "body")
  <1>7. rec' = [rec EXCEPT ![n] = q] /\ stack' = [stack EXCEPT ![t] = Append(@, g)]
        /\ UNCHANGED <<grp, qVars, live, sync>>
    BY <1>3 DEF SpawnInPlace
  <1>8. IsNew(q, x, rec[x].epoch, k) /\ q.st = "run" /\ q.inplace /\ q.parent = None /\ q.refs = 0 /\ q.home = None
    <2>1. rec[x] \in RecT
      BY <1>1 DEF Shape
    <2>2. Enclosing(Cur(t)) \in Groups \cup {None}
      BY <1>2, <2>1 DEF Enclosing, RecT
    <2>3. Bottom(t) \in Int
      <3>1. PICK d \in Seq(Tasks) : d = dq[t]
        BY <1>1 DEF Shape
      <3>2. Len(d) \in Nat /\ base[t] \in Nat
        BY <1>1, LenProperties DEF Shape
      <3>3. Bottom(t) = base[t] + Len(d)
        BY <3>1 DEF Bottom
      <3> QED
        BY <3>2, <3>3
    <2>4. (k.final \/ rec[Cur(t)].final) \in BOOLEAN
      OBVIOUS
    <2>5. PICK b \in BOOLEAN : b = (k.final \/ rec[Cur(t)].final)
      BY <2>4, Zenon
    <2>6. PICK w \in Groups \cup {None} : w = Enclosing(Cur(t))
      BY <2>2
    <2>7. PICK m \in Int : m = Bottom(t)
      BY <2>3
    <2>8. PICK e \in Nat : e = rec[x].epoch
      BY <1>6
    <2>9. q = InPlaceNew(k, b, x, e, w, m)
      BY <1>2, <2>5, <2>6, <2>7, <2>8, Zenon DEF InPlaceNew
    <2> HIDE DEF q
    <2>10. k \in Kind
      BY <1>4
    <2>11. IsInPlace(InPlaceNew(k, b, x, e, w, m), x, e, k)
      BY <2>10, InPlaceRec, Zenon
    <2> QED
      BY <2>8, <2>9, <2>11 DEF IsInPlace
  <1>9. IsFrame(g, n, "body", <<>>, <<>>)
    BY <1>4, PcIs, FrameIs
  <1> HIDE DEF q, g
  <1>10. Pushed(t, Top(t), g) /\ stack'[t] # <<>> /\ Top(t)' = g /\ Below(t) /\ g \in FrameT
    BY <1>1, <1>7, <1>9, PushOnStep DEF IsFrame, Pushed
  <1>11. /\ rec' \in [Recs -> RecT] /\ rec'[n] = q /\ \A y \in Recs : y # n => rec'[y] = rec[y]
    BY <1>1, <1>4, <1>7, <1>8, RecSet DEF Shape, IsNew
  <1>12. rec'[x] = rec[x] /\ grp' = grp /\ live' = live /\ dq' = dq /\ hq' = hq /\ base' = base
         /\ tm' = tm /\ nwait' = nwait /\ sleepers' = sleepers /\ UNCHANGED barVars
         /\ barrived' = barrived /\ bgen' = bgen /\ gen' = gen /\ passed' = passed
    BY <1>5, <1>7, <1>11 DEF qVars, sync, idleVars, waitVars, barVars
  <1>13. \A y : Queued(y)' <=> Queued(y)
    BY <1>12 DEF Queued
  <1>14. Undisturbed(t, n)
    <2>1. \A y \in Recs \ {Cur(t), n} : Steady(y)
      BY <1>11 DEF Steady
    <2>2. \A y \in Tasks \ {n} : rec'[y].pred = rec[y].pred
      BY <1>11, NoneFree
    <2> QED
      BY <1>5, <1>12, <1>13, <2>1, <2>2 DEF Undisturbed
  <1>15. PICK m \in Nat : m = Len(stack[t]) /\ m # 0 /\ DOMAIN stack[t] = 1 .. m /\ m \in DOMAIN stack[t]
    BY <1>1, TopIs
  <1>16. /\ Len(stack'[t]) = m + 1 /\ stack'[t][m] = Top(t) /\ stack'[t][m + 1] = g /\ stack[t][m] = Top(t)
         /\ \A i \in 1 .. m - 1 : stack'[t][i] = stack[t][i]
    BY <1>1, <1>10, <1>15, TopIs DEF Pushed, Below
  <1>17. \A i \in 1 .. m : stack'[t][i] = stack[t][i]
    BY <1>15, <1>16
  <1>18. FrameOK(t, m)'
    <2>1. FrameOK(t, m)
      BY <1>1, <1>15 DEF StacksOK
    <2>2. Top(t).pc = "body" /\ Top(t).tk = x
      BY <1>1, <1>2, <1>6
    <2>3. Deferred(x) => Deferred(x)'
      BY <1>12 DEF Deferred
    <2>4. Placed(t, m)'
      <3>1. stack'[t][1] = stack[t][1]
        BY <1>15, <1>17
      <3> QED
        BY <1>16, <2>1, <2>2, <2>3, <3>1 DEF FrameOK, Placed, Deferred
    <2>5. Fate(stack[t][m])'
      BY <1>6, <1>12, <1>16, <2>2 DEF Fate, RunPcs, IdlePcs, TcPcs, WaitPcs
    <2>6. Counts(stack[t][m])'
      <3>1. Top(t).ctr = <<>>
        BY <1>1, <2>2 DEF Counts, WaitPcs
      <3> QED
        BY <1>16, <2>2, <3>1 DEF Counts, WaitPcs
    <2>7. Drops(stack[t][m])'
      <3>1. Top(t).drop = <<>>
        BY <1>1, <2>2 DEF Drops
      <3> QED
        BY <1>16, <2>2, <3>1 DEF Drops
    <2> QED
      BY <2>4, <2>5, <2>6, <2>7 DEF FrameOK
  <1>19. FrameOK(t, m + 1)'
    <2>1. g.tk = n /\ g.pc = "body" /\ g.ctr = <<>> /\ g.drop = <<>>
      BY <1>9 DEF IsFrame
    <2>2. Placed(t, m + 1)'
      <3>1. m + 1 # 1 /\ ~ (m + 1 < Len(stack'[t])) /\ (m + 1 = 2 => m = 1)
        <4>1. m + 1 # 1 /\ ~ (m + 1 < m + 1) /\ (m + 1 = 2 => m = 1)
          <5>1. \A j \in Nat : j # 0 => j + 1 # 1 /\ ~ (j + 1 < j + 1) /\ (j + 1 = 2 => j = 1)
            OBVIOUS
          <5> QED
            BY <1>15, <5>1
        <4> QED
          BY <1>16, <4>1
      <3>2. m = 1 => stack'[t][1].pc = "body"
        BY <1>1, <1>6, <1>16
      <3> QED
        BY <1>3, <1>16, <2>1, <3>1, <3>2 DEF Placed, IdlePcs, TcPcs
    <2>3. Fate(stack[t][m + 1])'
      BY <1>8, <1>11, <1>16, <2>1 DEF Fate, RunPcs, IdlePcs, TcPcs, WaitPcs
    <2>4. Counts(stack[t][m + 1])'
      BY <1>16, <2>1 DEF Counts, WaitPcs
    <2>5. Drops(stack[t][m + 1])'
      BY <1>16, <2>1 DEF Drops
    <2> QED
      BY <2>2, <2>3, <2>4, <2>5 DEF FrameOK
  <1>20. StacksOK'
    <2>1. Top(t).tk = Cur(t) /\ ~ OnStack(g.tk)
      BY <1>1, <1>5, <1>9 DEF IsFrame
    <2> QED
      BY <1>1, <1>10, <1>14, <1>15, <1>18, <1>19, <2>1, PushedStacks
  <1>21. rec[n].st = "none" /\ rec[n].children = 0 /\ rec[n].refs = 0 /\ rec[n].home = None /\ rec[n].group = None
         /\ DepRefs(rec[n]) = <<>>
    <2>1. NoRec.st = "none" /\ NoRec.children = 0 /\ NoRec.refs = 0 /\ NoRec.home = None /\ NoRec.group = None
          /\ NoRec.writer = None /\ NoRec.readers = <<>>
      BY DEF NoRec
    <2>2. NoRec \in RecT
      BY <1>1, <1>4 DEF Shape
    <2> QED
      BY <1>4, <2>1, <2>2, DepRefsIs
  <1>22. rec'[n].st = "run" /\ rec'[n].inplace /\ rec'[n].children = 0 /\ rec'[n].refs = 0 /\ rec'[n].home = None
         /\ rec'[n].group = None /\ DepRefs(rec'[n]) = <<>> /\ ~ rec'[n].kids /\ rec'[n].pred = {} /\ ~ rec'[n].done
         /\ rec'[n].creator = x /\ rec'[n].parent = None /\ rec'[n].epoch = rec[x].epoch
    BY <1>8, <1>11, DepRefsIs DEF IsNew
  <1>23. Lasts /\ NewLinks
    <2>1. Lasts
      BY <1>11, <1>21 DEF Lasts, Ident
    <2>2. pc(t)' = "body"
      BY <1>9, <1>10 DEF IsFrame, pc
    <2>3. \A s \in Threads : s # t => ((pc(s)' = "link") <=> (pc(s) = "link")) /\ Linked(s)' = Linked(s)
      BY <1>1, <1>10, OtherMarks, OtherTops DEF Linked
    <2> QED
      BY <2>1, <2>2, <2>3 DEF NewLinks
  <1>24. ASSUME NEW y \in Recs
         PROVE  RecOK(y)' /\ Gone(y)'
    <2>1. OnStack(y) => OnStack(y)'
      BY <1>1, <1>10, StackedAfter
    <2>2. pc(t)' = "body"
      BY <1>9, <1>10 DEF IsFrame, pc
    <2>4. CASE y # n
      <3>1. rec'[y] = rec[y]
        BY <1>11, <2>4
      <3>2. \A z \in rec[y].pred : rec'[z].done = rec[z].done
        <4>1. rec[y].pred \subseteq Tasks
          BY <1>1 DEF Shape, RecT
        <4> QED
          BY <1>5, <1>11, <4>1, NoneFree
      <3>3. Alike(y)
        BY <1>13, <2>1, <3>1, <3>2 DEF Alike
      <3> QED
        BY <1>1, <1>10, <1>23, <2>2, <3>1, <3>3, RecKept, GoneKept
    <2>5. CASE y = n
      <3>1. Born(n)'
        <4>1. OnStack(n)'
          BY <1>1, <1>9, <1>10, StackedAfter DEF IsFrame
        <4>2. \A z \in Tasks : z < n => rec'[z].st # "none"
          BY <1>4, <1>11, <1>22, NoneFree
        <4>3. x \in Tasks => x < n
          <5>1. x \in Tasks => ~ (x > n)
            BY <1>4, <1>6
          <5> QED
            BY <1>5, <5>1, NoneFree
        <4>4. ~ Deferred(n)'
          BY <1>22 DEF Deferred
        <4> QED
          BY <1>2, <1>4, <1>22, <4>1, <4>2, <4>3, <4>4 DEF Born
      <3>2. Waits4(n)' /\ Gone(n)'
        BY <1>22 DEF Waits4, Gone, Deferred
      <3>3. Entry(n)'
        BY <1>22 DEF Entry
      <3> QED
        BY <2>5, <3>1, <3>2, <3>3 DEF RecOK
    <2> QED
      BY <2>4, <2>5
  <1>25. QueuesOK'
    <2>1. \A y \in Tasks : Queued(y) => rec'[y] = rec[y]
      BY <1>5, <1>11, NoneFree
    <2>2. \A y \in Tasks : Queued(y)' => rec'[y].st = "wait" /\ rec'[y].pred = {} /\ ~ rec'[y].kind.if0
      BY <1>1, <1>13, <2>1 DEF QueuesOK
    <2> QED
      BY <1>1, <1>12, <2>2 DEF QueuesOK
  <1>26. Fixed
    <2>1. ~ Deferred(n)'
      BY <1>22 DEF Deferred
    <2> QED
      BY <1>5, <1>11, <1>21, <1>22, <2>1 DEF Fixed, Deferred
  <1>27. /\ ~ Ending(Top(t)) /\ ~ InGroup(Top(t)) /\ ~ Ending(Top(t))' /\ ~ InGroup(Top(t))'
         /\ pc(t)' = "body" /\ Cur(t)' = n /\ Top(t).drop = <<>> /\ Top(t)'.drop = <<>>
    <2>1. Top(t)'.pc = "body" /\ Top(t)'.tk = n /\ Top(t)'.drop = <<>>
      BY <1>9, <1>10 DEF IsFrame
    <2>2. pc(t)' = "body" /\ Cur(t)' = n /\ ~ Ending(Top(t))' /\ ~ InGroup(Top(t))'
      BY <2>1 DEF pc, Cur, Ending, InGroup
    <2>3. ~ Ending(Top(t)) /\ ~ InGroup(Top(t)) /\ Top(t).drop = <<>>
      BY <1>1, <1>6 DEF Ending, InGroup, Drops
    <2> QED
      BY <2>1, <2>2, <2>3
  <1>28. (\A y \in Recs : Pending(y)' <=> Pending(y)) /\ ChildrenOK'
    BY <1>1, <1>10, <1>26, <1>27, PendingKept DEF CountsOK
  <1>29. LiveOK'
    BY <1>1, <1>2, <1>5, <1>6, <1>10, <1>12, <1>26, <1>27, LiveKept DEF CountsOK
  <1>30. RefsOK'
    <2>1. \A y \in Recs : DepRefs(rec'[y]) = DepRefs(rec[y]) /\ rec'[y].refs = rec[y].refs /\ rec'[y].children = rec[y].children
      BY <1>11, <1>21, <1>22
    <2>2. \A y \in Recs : Balanced(t, x, y)
      BY <1>2, <1>27, <1>28, <2>1 DEF Balanced
    <2> QED
      BY <1>1, <1>10, <1>11, <2>1, <2>2, RefsMove DEF CountsOK
  <1>31. EndOK'
    <2>1. \A s \in Threads : rec'[s] = rec[s]
      BY <1>4, <1>11, NoneFree
    <2> QED
      BY <1>1, <1>12, <2>1 DEF EndOK, CountsOK
  <1>32. SleepOK'
    <2>1. pc(t) \notin SlotPcs \cup TcPcs /\ pc(t)' \notin SlotPcs \cup TcPcs
      BY <1>6, <1>27 DEF SlotPcs, TcPcs
    <2> QED
      BY <1>1, <1>10, <1>12, <2>1, AwakeStep DEF CountsOK
  <1>33. /\ (Len(stack[t]) = 1 =>
              /\ (stack'[t][1].pc \in IdlePcs <=> stack[t][1].pc \in IdlePcs)
              /\ (stack'[t][1].pc = "retest" => AtBarrier(t))
              /\ (stack'[t][1].pc = "drain" => ~ AtBarrier(t)))
    <2>1. Len(stack[t]) = 1 => stack'[t][1] = Top(t) /\ stack[t][1] = Top(t)
      BY <1>15, <1>16
    <2> QED
      BY <1>1, <1>6, <2>1
  <1>34. BarrierOK'
    <2>1. \A y \in Recs : rec[y].st # "none" => rec'[y].epoch = rec[y].epoch /\ (Over(y) => Over(y)')
      BY <1>11, <1>21 DEF Over
    <2>2. \A y \in Tasks : rec[y].st = "none" /\ rec'[y].st # "none" => ~ (rec'[y].epoch < bgen)
      BY <1>6, <1>11, <1>22, NoneFree
    <2> QED
      BY <1>10, <1>12, <1>33, <2>1, <2>2, BarrierStays
  <1>35. GroupsOK'
    <2>1. \A y \in Tasks : GroupPending(y)' <=> GroupPending(y)
      BY <1>1, <1>10, <1>26, <1>27, GroupPendingKept
    <2>2. \A y \in Recs : rec'[y].home = rec[y].home /\ rec'[y].group = rec[y].group
      BY <1>11, <1>21, <1>22
    <2>3. \A y \in Recs : rec[y].st = "run" /\ OpenGroup(y) => rec'[y].st = "run"
      BY <1>11, <1>22
    <2>4. \A s \in Threads : stack'[s][1].pc \in IdlePcs => stack[s][1].pc \in IdlePcs \/ rec[s].group = None
      BY <1>1, <1>10, <1>33, FirstAbove
    <2>5. \A y \in Tasks : rec[y].st = "none" => rec'[y].st = "none" \/ rec'[y].home = None
      BY <1>11, <1>22, NoneFree
    <2> QED
      BY <1>1, <1>12, <2>1, <2>2, <2>3, <2>4, <2>5, GroupsKept
  <1>36. Shape'
    BY <1>1, <1>10, <1>11, <1>12 DEF Shape, Below
  <1> QED
    BY <1>20, <1>24, <1>25, <1>28, <1>29, <1>30, <1>31, <1>32, <1>34, <1>35, <1>36 DEF TasksInv, RecsOK, RecOK, CountsOK

\* The group a running task is in is open.
LEMMA InOpenGroup ==
  ASSUME TasksInv, NEW y \in Recs, rec[y].st = "run", rec[y].group # None
  PROVE  /\ rec[y].group \in Groups /\ grp[rec[y].group].st = "open"
         /\ (rec[y].group = rec[y].home \/ grp[rec[y].group].owner = y)
  <1>1. Shape /\ GroupsOK
    BY CurIs DEF TasksInv
  <1>2. rec[y].group \in Groups
    BY <1>1 DEF Shape, RecT
  <1>3. CASE rec[y].group = rec[y].home
    BY <1>2, <1>3, RunningIn
  <1>4. CASE rec[y].group # rec[y].home
    BY <1>1, <1>2, <1>4 DEF GroupsOK
  <1> QED
    BY <1>3, <1>4

\* The count of group g becomes n.
CountTo(g, n) ==
  /\ grp' \in [Groups -> GrpT] /\ grp'[g].count = n
  /\ \A h \in Groups : /\ grp'[h].st = grp[h].st /\ grp'[h].parent = grp[h].parent /\ grp'[h].owner = grp[h].owner
                       /\ (h # g => grp'[h].count = grp[h].count)
LEMMA CountSet ==
  ASSUME Shape, NEW g \in Groups, grp' = [grp EXCEPT ![g].count = @ + 1]
  PROVE  CountTo(g, grp[g].count + 1)
  <1>1. grp \in [Groups -> GrpT]
    BY DEF Shape
  <1>2. grp[g].count + 1 \in Int
    BY <1>1 DEF GrpT
  <1>3. [grp[g] EXCEPT !.count = grp[g].count + 1] \in GrpT
    BY <1>1, <1>2 DEF GrpT
  <1> QED
    BY <1>1, <1>3 DEF CountTo, GrpT

\* A record with one child, and one reference, more.
OneMore(r, s) ==
  /\ s \in RecT /\ SameId(r, s) /\ SameDeps(r, s) /\ s.done = r.done /\ s.st = r.st
  /\ s.children = r.children + 1 /\ s.refs = r.refs + 1 /\ s.kids
LEMMA KidsSet ==
  ASSUME NEW q \in RecT
  PROVE  /\ [q EXCEPT !.kids = TRUE] \in RecT /\ SameId(q, [q EXCEPT !.kids = TRUE])
         /\ SameDeps(q, [q EXCEPT !.kids = TRUE]) /\ [q EXCEPT !.kids = TRUE].kids
         /\ [q EXCEPT !.kids = TRUE].children = q.children /\ [q EXCEPT !.kids = TRUE].refs = q.refs
         /\ [q EXCEPT !.kids = TRUE].st = q.st /\ [q EXCEPT !.kids = TRUE].done = q.done
  BY DEF RecT, SameId, SameDeps

LEMMA OneMoreIs ==
  ASSUME NEW r \in RecT
  PROVE  OneMore(r, [r EXCEPT !.refs = @ + 1, !.children = @ + 1, !.kids = TRUE])
  <1>1. PICK a \in Int : a = r.refs + 1
    BY DEF RecT
  <1>2. PICK b \in Int : b = r.children + 1
    BY DEF RecT
  <1>3. PICK u : u = [r EXCEPT !.refs = a]
    OBVIOUS
  <1>4. PICK v : v = [u EXCEPT !.children = b]
    OBVIOUS
  <1>5. PICK w : w = [v EXCEPT !.kids = TRUE]
    OBVIOUS
  <1>6. /\ u \in RecT /\ SameId(r, u) /\ SameDeps(r, u) /\ u.children = r.children /\ u.refs = a
        /\ u.st = r.st /\ u.done = r.done
    BY <1>1, <1>3, RefsSet
  <1>7. /\ v \in RecT /\ SameId(u, v) /\ SameDeps(u, v) /\ v.children = b /\ v.refs = u.refs
        /\ v.st = u.st /\ v.done = u.done
    BY <1>2, <1>4, <1>6, ChildrenSet
  <1>8. /\ w \in RecT /\ SameId(v, w) /\ SameDeps(v, w) /\ w.children = v.children /\ w.refs = v.refs /\ w.kids
        /\ w.st = v.st /\ w.done = v.done
    BY <1>5, <1>7, KidsSet
  <1>9. w = [r EXCEPT !.refs = r.refs + 1, !.children = r.children + 1, !.kids = TRUE]
    BY <1>1, <1>2, <1>3, <1>4, <1>5, Zenon
  <1>10. OneMore(r, w)
    BY <1>1, <1>2, <1>6, <1>7, <1>8 DEF OneMore, SameId, SameDeps
  <1>11. [r EXCEPT !.refs = @ + 1, !.children = @ + 1, !.kids = TRUE] = w
    BY <1>9
  <1> QED
    BY <1>10, <1>11

IsWaiting(q, x, e, k, g) ==
  IsNew(q, x, e, k) /\ q.st = "wait" /\ ~ q.inplace /\ q.parent = x /\ q.refs = 1 /\ q.home = g
\* The record of a task that is to be queued.
WaitingNew(k, x, g, e, w) ==
  [NoRec EXCEPT !.st = "wait", !.kind = k, !.final = k.final, !.parent = x, !.creator = x, !.refs = 1,
                !.group = g, !.epoch = e, !.within = w, !.home = g]
LEMMA WaitingIs ==
  ASSUME NEW k, NEW x, NEW g, NEW e, NEW w, NEW q, q = WaitingNew(k, x, g, e, w)
  PROVE  q = [st |-> "wait", inplace |-> FALSE, kind |-> k, final |-> k.final, parent |-> x,
              creator |-> x, group |-> g, epoch |-> e, children |-> 0, kids |-> FALSE, refs |-> 1,
              mark |-> 0, pred |-> {}, done |-> FALSE, writer |-> None, readers |-> <<>>,
              within |-> w, home |-> g]
  BY DEF NoRec, WaitingNew

LEMMA WaitingRec ==
  ASSUME NEW k \in Kind, NEW x \in Recs, NEW g \in Groups \cup {None}, NEW e \in Nat, NEW w \in Groups \cup {None}
  PROVE  IsWaiting(WaitingNew(k, x, g, e, w), x, e, k, g)
  <1> DEFINE q == WaitingNew(k, x, g, e, w)
  <1> HIDE DEF q
  <1>0. q = WaitingNew(k, x, g, e, w)
    BY DEF q
  <1>1. q = [st |-> "wait", inplace |-> FALSE, kind |-> k, final |-> k.final, parent |-> x,
              creator |-> x, group |-> g, epoch |-> e, children |-> 0, kids |-> FALSE, refs |-> 1,
              mark |-> 0, pred |-> {}, done |-> FALSE, writer |-> None, readers |-> <<>>,
              within |-> w, home |-> g]
    BY <1>0, WaitingIs
  <1>2. <<>> \in Seq(Tasks) /\ k.final \in BOOLEAN
    BY EmptySeq DEF Kind
  <1>3. q \in RecT
    BY <1>1, <1>2 DEF RecT
  <1>4. IsWaiting(q, x, e, k, g)
    BY <1>1, <1>3 DEF IsNew, IsWaiting
  <1> QED
    BY <1>4 DEF q

\* The records once x has created n.
Spawned(n, x, q) ==
  /\ rec' \in [Recs -> RecT] /\ rec'[n] = q /\ OneMore(rec[x], rec'[x])
  /\ \A y \in Recs : y # n /\ y # x => rec'[y] = rec[y]
LEMMA SpawnedIs ==
  ASSUME Shape, NEW n \in Recs, NEW x \in Recs, n # x, NEW q \in RecT,
         rec' = [rec EXCEPT ![n] = q, ![x].refs = @ + 1, ![x].children = @ + 1, ![x].kids = TRUE]
  PROVE  Spawned(n, x, q)
  <1>1. rec \in [Recs -> RecT]
    BY DEF Shape
  <1>2. PICK r : r = [rec[x] EXCEPT !.refs = @ + 1, !.children = @ + 1, !.kids = TRUE]
    OBVIOUS
  <1>3. OneMore(rec[x], r)
    BY <1>1, <1>2, OneMoreIs
  <1>4. rec' = [rec EXCEPT ![n] = q, ![x] = r]
    BY <1>1, <1>2
  <1>5. rec' \in [Recs -> RecT] /\ rec'[n] = q /\ rec'[x] = r /\ \A y \in Recs : y # n /\ y # x => rec'[y] = rec[y]
    BY <1>1, <1>3, <1>4, RecSet2 DEF OneMore
  <1> QED
    BY <1>3, <1>5 DEF Spawned

LEMMA SpawnCountStep ==
  ASSUME TasksInv, NEW t \in Threads, NEW k \in NextKinds, SpawnCount(t, k)
  PROVE  TasksInv'
  <1>1. /\ Shape /\ StacksOK /\ RecsOK /\ QueuesOK /\ CountsOK /\ GroupsOK /\ BarrierOK
        /\ Top(t) \in FrameT /\ Cur(t) \in Recs /\ Top(t).tk = Cur(t) /\ Top(t).pc = pc(t)
        /\ Fate(Top(t)) /\ Counts(Top(t)) /\ Drops(Top(t))
        /\ (Len(stack[t]) = 1 => Cur(t) = t)
    BY CurIs
  <1>2. PICK x \in Recs : x = Cur(t)
    BY <1>1
  <1>3. PICK n \in Tasks : n = Fresh
    BY FreshIs
  <1>4. /\ k \in Kind /\ rec[n] = NoRec /\ (\A y \in Tasks : y < n => rec[y].st # "none")
        /\ (\A y \in Tasks : y > n => rec[y].st = "none") /\ n \in Recs /\ n \notin Threads /\ n # None
    BY <1>3, FreshIs, NoneFree
  <1>5. /\ \A s \in Threads : \A i \in DOMAIN stack[s] : stack[s][i].tk # n /\ stack[s][i].ctr # <<"npred", n>>
        /\ ~ OnStack(n) /\ ~ Queued(n) /\ ~ Deferred(n) /\ x # n
        /\ ~ Pending(n) /\ ~ GroupPending(n) /\ ~ Unsettled(n)
        /\ \A y \in Recs : n \notin rec[y].pred
    BY <1>2, <1>4, FreshNowhere
  <1>6. pc(t) = "body" /\ rec[x].st = "run" /\ rec[x].epoch \in Nat /\ ~ (rec[x].epoch < bgen)
    BY <1>2, BodyEpoch DEF SpawnCount, Creates, Active
  <1>7. PICK g \in Groups \cup {None} : g = rec[x].group
    BY <1>1 DEF Shape, RecT
  <1> DEFINE q == WaitingNew(k, x, g, rec[x].epoch, Enclosing(x))
             f == [Frame(x, "link") EXCEPT !.ctr = <<"npred", n>>]
  <1>8. /\ rec' = [rec EXCEPT ![n] = q, ![x].refs = @ + 1, ![x].children = @ + 1, ![x].kids = TRUE]
        /\ SetTop(t, f) /\ (g = None => grp' = grp) /\ (g # None => grp' = [grp EXCEPT ![g].count = @ + 1])
        /\ (k.if0 => k.dep # <<>>) /\ live' = live + 1 /\ UNCHANGED <<qVars, sync>>
    <2>1. /\ rec' = [rec EXCEPT ![n] = q, ![x].refs = @ + 1, ![x].children = @ + 1, ![x].kids = TRUE]
          /\ SetTop(t, f) /\ grp' = (IF g = None THEN grp ELSE [grp EXCEPT ![g].count = @ + 1])
          /\ live' = live + 1 /\ UNCHANGED <<qVars, sync>>
      BY <1>2, <1>3, <1>7 DEF SpawnCount, Inherited, WaitingNew
    <2>2. k.dep # <<>> \/ ~ k.if0
      BY DEF SpawnCount
    <2> QED
      BY <2>1, <2>2
  <1>9. IsWaiting(q, x, rec[x].epoch, k, g)
    <2>1. PICK w \in Groups \cup {None} : w = Enclosing(x)
      BY <1>1 DEF Shape, RecT, Enclosing
    <2>2. PICK e \in Nat : e = rec[x].epoch
      BY <1>6
    <2>3. IsWaiting(WaitingNew(k, x, g, e, w), x, e, k, g)
      BY <1>4, WaitingRec
    <2> QED
      BY <2>1, <2>2, <2>3
  <1>10. IsFrame(f, x, "link", <<"npred", n>>, <<>>)
    <2>1. <<"npred", n>> \in Ctrs
      BY <1>4 DEF Ctrs
    <2> QED
      BY <2>1, PcIs, CtrFrameIs
  <1> HIDE DEF q, f
  <1>11. Topped(t, f) /\ Below(t) /\ Top(t)' = f /\ Cur(t)' = x /\ pc(t)' = "link" /\ f \in FrameT
    BY <1>1, <1>8, <1>10, SetTopStep, TopAfter DEF IsFrame, Topped, Cur, pc
  <1>12. f.tk = x /\ f.pc = "link" /\ f.ctr = <<"npred", n>> /\ f.drop = <<>>
    BY <1>10 DEF IsFrame
  <1>13. stack'[t] # <<>>
    <2>1. PICK m \in Nat : m = Len(stack[t]) /\ m # 0
      BY <1>1, TopIs
    <2>2. Len(stack'[t]) = m
      BY <1>11, <2>1 DEF Topped
    <2> QED
      BY <2>1, <2>2
  <1>14. Spawned(n, x, q)
    BY <1>1, <1>4, <1>5, <1>8, <1>9, SpawnedIs DEF IsWaiting, IsNew
  <1>15. /\ rec' \in [Recs -> RecT] /\ rec'[n] = q /\ OneMore(rec[x], rec'[x])
         /\ \A y \in Recs : y # n /\ y # x => rec'[y] = rec[y]
    BY <1>14 DEF Spawned
  <1>16. live' = live + 1 /\ dq' = dq /\ hq' = hq /\ base' = base
         /\ tm' = tm /\ nwait' = nwait /\ sleepers' = sleepers /\ UNCHANGED barVars
         /\ barrived' = barrived /\ bgen' = bgen /\ gen' = gen /\ passed' = passed
    BY <1>8 DEF qVars, sync, idleVars, waitVars, barVars
  <1>17. g # None => /\ g \in Groups /\ grp[g].st = "open"
                     /\ CountTo(g, grp[g].count + 1)
    <2> SUFFICES ASSUME g # None
                 PROVE  g \in Groups /\ grp[g].st = "open" /\ CountTo(g, grp[g].count + 1)
      OBVIOUS
    <2>1. g \in Groups /\ grp[g].st = "open"
      BY <1>6, <1>7, InOpenGroup
    <2> QED
      BY <1>1, <1>8, <2>1, CountSet
  <1>18. /\ grp' \in [Groups -> GrpT]
         /\ \A h \in Groups : /\ grp'[h].st = grp[h].st /\ grp'[h].parent = grp[h].parent /\ grp'[h].owner = grp[h].owner
                              /\ (h # g => grp'[h].count = grp[h].count)
    BY <1>1, <1>8, <1>17 DEF CountTo, Shape
  <1>19. rec[n].st = "none" /\ rec[n].children = 0 /\ rec[n].refs = 0 /\ rec[n].home = None /\ rec[n].group = None
         /\ DepRefs(rec[n]) = <<>>
    <2>1. NoRec.st = "none" /\ NoRec.children = 0 /\ NoRec.refs = 0 /\ NoRec.home = None /\ NoRec.group = None
          /\ NoRec.writer = None /\ NoRec.readers = <<>>
      BY DEF NoRec
    <2>2. NoRec \in RecT
      BY <1>1, <1>4 DEF Shape
    <2> QED
      BY <1>4, <2>1, <2>2, DepRefsIs
  <1>20. rec'[n].st = "wait" /\ ~ rec'[n].inplace /\ rec'[n].children = 0 /\ rec'[n].refs = 1 /\ rec'[n].home = g
         /\ rec'[n].group = g /\ DepRefs(rec'[n]) = <<>> /\ ~ rec'[n].kids /\ rec'[n].pred = {} /\ ~ rec'[n].done
         /\ rec'[n].creator = x /\ rec'[n].parent = x /\ rec'[n].epoch = rec[x].epoch /\ rec'[n].kind = k
    BY <1>9, <1>15, DepRefsIs DEF IsWaiting, IsNew
  <1>21. /\ SameId(rec[x], rec'[x]) /\ Ident(x) /\ rec'[x].pred = rec[x].pred /\ rec'[x].done = rec[x].done
         /\ rec'[x].st = "run" /\ DepRefs(rec'[x]) = DepRefs(rec[x]) /\ rec'[x].kids
         /\ rec'[x].children = rec[x].children + 1 /\ rec'[x].refs = rec[x].refs + 1
    BY <1>6, <1>15, SameIs DEF OneMore, SameDeps, DepRefs
  <1>22. \A y \in Recs : y # n => /\ SameId(rec[y], rec'[y]) /\ Ident(y) /\ rec'[y].pred = rec[y].pred
                                  /\ rec'[y].done = rec[y].done /\ rec'[y].st = rec[y].st
                                  /\ DepRefs(rec'[y]) = DepRefs(rec[y])
    <2>1. \A y \in Recs : rec'[y] = rec[y] => SameId(rec[y], rec'[y]) /\ Ident(y)
      BY DEF SameId, Ident
    <2> QED
      BY <1>6, <1>15, <1>21, <2>1
  <1>23. Lasts
    BY <1>19, <1>22 DEF Lasts
  <1>24. NewLinks
    <2>1. \A s \in Threads : s # t => ((pc(s)' = "link") <=> (pc(s) = "link")) /\ Linked(s)' = Linked(s)
      BY <1>1, <1>11, OtherMarks, OtherTops DEF Linked
    <2>2. Linked(t)' = n
      BY <1>11, <1>12 DEF Linked
    <2> QED
      BY <1>19, <2>1, <2>2 DEF NewLinks
  <1>25. \A y : Queued(y)' <=> Queued(y)
    BY <1>16 DEF Queued
  <1>26. \A y \in Recs : OnStack(y) => OnStack(y)'
    BY <1>1, <1>2, <1>11, <1>12, StackedAfter
  <1>27. \A y \in Recs : y # n => (Deferred(y)' <=> Deferred(y))
    BY <1>22 DEF Deferred, SameId
  <1>28. Deferred(n)'
    BY <1>20 DEF Deferred
  <1>29. ASSUME NEW y \in Recs, y # n
         PROVE  RecOK(y)' /\ Gone(y)'
    <2>1. rec[y].st = "none" => rec'[y] = rec[y]
      BY <1>6, <1>15, <1>29
    <2>2. rec[y].pred \subseteq Tasks
      BY <1>1 DEF Shape, RecT
    <2>3. \A z \in rec[y].pred : rec'[z].done = rec[z].done
      BY <1>5, <1>22, <2>2, NoneFree
    <2>4. Alike(y)
      BY <1>22, <1>25, <1>26, <1>29, <2>1, <2>3 DEF Alike
    <2>5. RecOK(y)'
      BY <1>1, <1>23, <1>24, <2>4, RecKept
    <2>6. CASE y # x
      <3>1. rec'[y] = rec[y]
        BY <1>15, <1>29, <2>6
      <3> QED
        BY <1>1, <1>11, <2>5, <3>1, GoneKept
    <2>7. CASE y = x
      <3>1. Deferred(x) => rec[x].refs > 0
        BY <1>1, <1>6 DEF RecsOK, Gone
      <3>2. PICK r \in Int : r = rec[x].refs
        BY <1>1 DEF Shape, RecT
      <3>3. Deferred(x)' => rec'[x].refs > 0
        BY <1>5, <1>21, <1>27, <3>1, <3>2
      <3>4. Gone(x)'
        BY <1>21, <3>3 DEF Gone
      <3> QED
        BY <2>5, <2>7, <3>4
    <2> QED
      BY <2>6, <2>7
  <1>30. RecOK(n)' /\ Gone(n)'
    <2>1. Born(n)'
      <3>2. \A z \in Tasks : z < n => rec'[z].st # "none"
        BY <1>4, <1>20, <1>22, NoneFree
      <3>3. x \in Tasks => x < n
        <4>1. x \in Tasks => ~ (x > n)
          BY <1>4, <1>6
        <4> QED
          BY <1>5, <4>1, NoneFree
      <3>4. ~ Over(n)'
        BY <1>20 DEF Over
      <3> QED
        BY <1>2, <1>4, <1>20, <3>2, <3>3, <3>4 DEF Born
    <2>2. Waits4(n)' /\ Gone(n)'
      BY <1>4, <1>20 DEF Waits4, Gone, Deferred, Static
    <2>3. Entry(n)'
      BY <1>20 DEF Entry
    <2> QED
      BY <2>1, <2>2, <2>3 DEF RecOK
  <1>31. QueuesOK'
    <2>1. \A y \in Tasks : Queued(y) => rec'[y].st = rec[y].st /\ rec'[y].pred = rec[y].pred /\ rec'[y].kind = rec[y].kind
      BY <1>5, <1>22, NoneFree DEF SameId
    <2>2. \A y \in Tasks : Queued(y)' => rec'[y].st = "wait" /\ rec'[y].pred = {} /\ ~ rec'[y].kind.if0
      BY <1>1, <1>25, <2>1 DEF QueuesOK
    <2> QED
      BY <1>1, <1>16, <2>2 DEF QueuesOK
  <1>32. OthersCounted(t, n)
    <2>1. \A y \in Recs : y # n => rec'[y].parent = rec[y].parent
      BY <1>22 DEF SameId
    <2> QED
      BY <1>2, <1>6, <1>11, <1>22, <1>27, <2>1 DEF OthersCounted
  <1>33. Pending(n)' /\ Unsettled(n)' /\ GroupPending(n)'
    BY <1>20, <1>28 DEF Pending, Unsettled, GroupPending
  <1>34. LiveOK'
    BY <1>1, <1>5, <1>11, <1>16, <1>32, <1>33, LiveShift DEF CountsOK
  <1>35. \A y \in Recs : y # x => rec'[y].children = rec[y].children
    BY <1>15, <1>19, <1>20
  <1>36. ChildrenOK'
    BY <1>1, <1>5, <1>11, <1>20, <1>21, <1>32, <1>33, <1>35, ChildrenShift DEF CountsOK
  <1>37. \A y \in Recs : y # n => (Pending(y)' <=> Pending(y)) /\ (GroupPending(y)' <=> GroupPending(y))
    BY <1>1, <1>11, <1>32, PendingShift
  <1>38. Top(t).drop = <<>> /\ ~ Ending(Top(t)) /\ ~ InGroup(Top(t))
    BY <1>1, <1>6 DEF Drops, Ending, InGroup
  <1>39. RefsOK'
    <2>1. ASSUME NEW y \in Recs
          PROVE  Balanced(t, n, y)
      <3>1. Occ(DepRefs(rec[n]), y) = 0 /\ Occ(DepRefs(rec'[n]), y) = 0 /\ Occ(Top(t).drop, y) = 0 /\ Occ(Top(t)'.drop, y) = 0
        BY <1>11, <1>12, <1>19, <1>20, <1>38, OccEmpty
      <3>2. PICK r \in Int : r = rec[y].refs
        BY <1>1 DEF Shape, RecT
      <3>3. PICK c \in Int : c = rec[y].children
        BY <1>1 DEF Shape, RecT
      <3>4. CASE y = n
        BY <1>5, <1>19, <1>20, <1>33, <3>1, <3>4 DEF Balanced
      <3>5. CASE y = x
        <4>1. PICK b \in {0, 1} : b = (IF Pending(y) THEN 1 ELSE 0) /\ b = (IF Pending(y)' THEN 1 ELSE 0)
          BY <1>5, <1>37, <3>5
        <4>2. rec'[y].refs = r + 1 /\ rec'[y].children = c + 1
          BY <1>21, <3>2, <3>3, <3>5
        <4> QED
          BY <3>1, <3>2, <3>3, <4>1, <4>2 DEF Balanced
      <3>6. CASE y # n /\ y # x
        <4>1. PICK b \in {0, 1} : b = (IF Pending(y) THEN 1 ELSE 0) /\ b = (IF Pending(y)' THEN 1 ELSE 0)
          BY <1>37, <3>6
        <4>2. rec'[y].refs = r /\ rec'[y].children = c
          BY <1>15, <3>2, <3>3, <3>6
        <4> QED
          BY <3>1, <3>2, <3>3, <4>1, <4>2 DEF Balanced
      <3> QED
        BY <3>4, <3>5, <3>6
    <2>2. \A y \in Recs : y # n => DepRefs(rec'[y]) = DepRefs(rec[y])
      BY <1>22
    <2> QED
      BY <1>1, <1>4, <1>11, <1>13, <1>15, <2>1, <2>2, RefsMove DEF CountsOK
  <1>40. EndOK'
    <2>1. rec[t].st = "run"
      BY <1>1, <1>6, BottomRuns DEF RunPcs
    <2>2. rec'[t].st = "run"
      BY <1>4, <1>22, <2>1, NoneFree
    <2> QED
      BY <2>2 DEF EndOK
  <1>41. SleepOK'
    <2>1. pc(t) \notin SlotPcs \cup TcPcs /\ pc(t)' \notin SlotPcs \cup TcPcs
      BY <1>6, <1>11 DEF SlotPcs, TcPcs
    <2> QED
      BY <1>1, <1>11, <1>16, <2>1, AwakeStep DEF CountsOK
  <1>42. Undisturbed(t, n)
    <2>1. \A y \in Recs \ {Cur(t), n} : Steady(y)
      BY <1>22 DEF Steady, SameId
    <2>2. \A y \in Tasks \ {n} : rec'[y].pred = rec[y].pred
      BY <1>22, NoneFree
    <2> QED
      BY <1>5, <1>18, <1>25, <2>1, <2>2 DEF Undisturbed
  <1>43. StacksOK'
    <2>1. Deferred(x) => Deferred(x)'
      BY <1>5, <1>27
    <2>2. Fate(Top(t))'
      BY <1>11, <1>12, <1>21 DEF Fate, RunPcs, IdlePcs, TcPcs, WaitPcs
    <2>3. Counts(Top(t))'
      <3>1. Awaited(Top(t), n)'
        BY <1>11, <1>12, <1>20, <1>21 DEF Awaited
      <3>2. rec'[n].kind.if0 => Tracked(n)'
        BY <1>8, <1>20 DEF Tracked
      <3>3. ~ Queued(n)'
        BY <1>5, <1>25
      <3> QED
        BY <1>11, <1>12, <1>20, <3>1, <3>2, <3>3 DEF Counts, WaitPcs
    <2>4. Drops(Top(t))'
      BY <1>11, <1>12 DEF Drops
    <2>5. f.pc \notin IdlePcs \cup {"out"}
      BY <1>12 DEF IdlePcs, TcPcs
    <2> QED
      BY <1>2, <1>11, <1>12, <1>42, <2>1, <2>2, <2>3, <2>4, <2>5, ToppedOK
  <1>44. /\ (Len(stack[t]) = 1 =>
              /\ (stack'[t][1].pc \in IdlePcs <=> stack[t][1].pc \in IdlePcs)
              /\ (stack'[t][1].pc = "retest" => AtBarrier(t))
              /\ (stack'[t][1].pc = "drain" => ~ AtBarrier(t)))
    <2>1. Len(stack[t]) = 1 => stack'[t][1] = f /\ stack[t][1] = Top(t)
      BY <1>1, <1>11, TopIs DEF Topped
    <2> QED
      BY <1>1, <1>6, <1>12, <2>1 DEF IdlePcs, TcPcs
  <1>45. BarrierOK'
    <2>1. \A y \in Recs : rec[y].st # "none" => rec'[y].epoch = rec[y].epoch /\ (Over(y) => Over(y)')
      BY <1>19, <1>22 DEF Over, SameId
    <2>2. \A y \in Tasks : rec[y].st = "none" /\ rec'[y].st # "none" => ~ (rec'[y].epoch < bgen)
      BY <1>6, <1>20, <1>22, NoneFree
    <2> QED
      BY <1>11, <1>16, <1>44, <2>1, <2>2, BarrierStays
  <1>46. GroupsOK'
    <2>1. \A h \in Groups : grp'[h].st = grp[h].st /\ grp'[h].parent = grp[h].parent /\ grp'[h].owner = grp[h].owner
      BY <1>18
    <2>2. \A y \in Recs : y # n => rec'[y].home = rec[y].home /\ rec'[y].group = rec[y].group
      BY <1>22 DEF SameId
    <2>3. ASSUME NEW h \in Groups
          PROVE  IF grp[h].st = "none" THEN grp'[h].count = 0
                 ELSE /\ grp'[h].count = Cardinality(InGrp(h)')
                      /\ grp[h].st = "freed" => grp'[h].count = 0
      <3>1. \A y : y # n => (y \in InGrp(h) <=> y \in InGrp(h)')
        BY <1>37, <2>2, NoneFree DEF InGrp
      <3>2. n \notin InGrp(h) /\ (n \in InGrp(h)' <=> h = g)
        BY <1>5, <1>20, <1>33 DEF InGrp
      <3>3. IsFiniteSet(InGrp(h))
        BY NoneFree, FS_Subset DEF InGrp
      <3>4. CASE h # g
        <4>1. Cardinality(InGrp(h)') = Cardinality(InGrp(h)) /\ grp'[h].count = grp[h].count
          BY <1>18, <3>1, <3>2, <3>3, <3>4, CountMoves
        <4> QED
          BY <1>1, <4>1, GroupCounts
      <3>5. CASE h = g
        <4>1. Cardinality(InGrp(h)') = Cardinality(InGrp(h)) + 1
          BY <3>1, <3>2, <3>3, <3>5, CountMoves
        <4>2. grp[h].st = "open" /\ grp'[h].count = grp[h].count + 1
          BY <1>17, <3>5, NoneFree DEF CountTo
        <4>3. grp[h].count = Cardinality(InGrp(h))
          BY <1>1, <4>2, GroupCounts
        <4> QED
          BY <4>1, <4>2, <4>3
      <3> QED
        BY <3>4, <3>5
    <2>4. \A y \in Recs : rec[y].st # "none" => rec'[y].home = rec[y].home /\ rec'[y].group = rec[y].group
      BY <1>19, <2>2
    <2>5. ASSUME NEW y \in Recs, rec[y].st = "none"
          PROVE  /\ rec'[y].group = rec'[y].home
                 /\ rec'[y].st = "none" \/ rec'[y].home = None \/ (rec'[y].home \in Groups /\ grp[rec'[y].home].st # "none")
      <3>1. CASE y = n
        BY <1>17, <1>20, <3>1
      <3>2. CASE y # n
        <4>1. rec'[y] = rec[y]
          BY <1>6, <1>15, <2>5, <3>2
        <4>2. y \in Tasks /\ rec[y] = NoRec
          BY <1>1, <2>5 DEF RecsOK, Born, Recs
        <4> QED
          BY <2>5, <4>1, <4>2 DEF NoRec
      <3> QED
        BY <3>1, <3>2
    <2>6. \A y \in Recs : rec[y].st = "run" /\ OpenGroup(y) => rec'[y].st = "run"
      BY <1>19, <1>22
    <2>7. \A s \in Threads : stack'[s][1].pc \in IdlePcs => stack[s][1].pc \in IdlePcs \/ rec[s].group = None
      BY <1>1, <1>11, <1>44, FirstAbove
    <2> QED
      BY <1>1, <2>1, <2>3, <2>4, <2>5, <2>6, <2>7, GroupsMove
  <1>47. Shape'
    <2>1. live' \in Int
      BY <1>1, <1>16 DEF Shape
    <2> QED
      BY <1>1, <1>11, <1>15, <1>16, <1>18, <2>1 DEF Shape, Below
  <1> QED
    BY <1>29, <1>30, <1>31, <1>34, <1>36, <1>39, <1>40, <1>41, <1>43, <1>45, <1>46, <1>47 DEF TasksInv, RecsOK, RecOK, CountsOK

\* The task that is about to be linked.
LEMMA LinkedIs ==
  ASSUME TasksInv, NEW t \in Threads, pc(t) = "link"
  PROVE  /\ Linked(t) \in Tasks /\ rec[Linked(t)].parent = Cur(t) /\ rec[Linked(t)].st = "wait"
         /\ rec[Cur(t)].st = "run" /\ rec[Linked(t)].pred = {} /\ ~ Queued(Linked(t))
         /\ (rec[Linked(t)].kind.if0 => Tracked(Linked(t))) /\ Linked(t) # Cur(t)
         /\ Top(t).ctr = <<"npred", Linked(t)>> /\ Top(t).drop = <<>>
         /\ \A s \in Threads : pc(s) = "link" /\ Linked(s) = Linked(t) => s = t
  <1>1. Shape /\ StacksOK /\ \A s \in Threads : Counts(Top(s)) /\ Drops(Top(s)) /\ Top(s).tk = Cur(s) /\ Top(s).pc = pc(s)
    BY CurIs
  <1>2. ASSUME NEW s \in Threads, pc(s) = "link"
        PROVE  /\ Linked(s) \in Tasks /\ Awaited(Top(s), Linked(s)) /\ rec[Linked(s)].pred = {} /\ ~ Queued(Linked(s))
               /\ (rec[Linked(s)].kind.if0 => Tracked(Linked(s))) /\ Top(s).ctr = <<"npred", Linked(s)>>
               /\ rec[Linked(s)].parent = Cur(s)
    <2>1. PICK x \in Tasks : /\ Top(s).ctr = <<"npred", x>> /\ Awaited(Top(s), x)
                             /\ rec[x].pred = {} /\ ~ Queued(x) /\ (rec[x].kind.if0 => Tracked(x))
      BY <1>1, <1>2 DEF Counts
    <2>2. Linked(s) = x
      BY <2>1 DEF Linked
    <2> QED
      BY <1>1, <2>1, <2>2 DEF Awaited
  <1>3. Awaited(Top(t), Linked(t))
    BY <1>2
  <1>4. \A s \in Threads : pc(s) = "link" /\ Linked(s) = Linked(t) => s = t
    BY <1>1, <1>2, Alone
  <1> QED
    BY <1>1, <1>2, <1>3, <1>4 DEF Awaited, Drops

\* A task is put at the end of the deque of t.
LEMMA QueueOne ==
  ASSUME Shape, QueuesOK, NEW t \in Threads, NEW w \in Tasks, ~ Queued(w), rec' = rec,
         rec[w].st = "wait", rec[w].pred = {}, ~ rec[w].kind.if0,
         dq' = [dq EXCEPT ![t] = Append(@, w)], hq' = hq
  PROVE  QueuesOK' /\ dq' \in [Threads -> Seq(Tasks)] /\ \A y : Queued(y)' <=> Queued(y) \/ y = w
  <1>1. dq \in [Threads -> Seq(Tasks)] /\ dq[t] \in Seq(Tasks)
    BY DEF Shape
  <1>2. PICK u \in Seq(Tasks) : u = dq[t]
    BY <1>1
  <1>3. PICK v : v = Append(u, w)
    OBVIOUS
  <1>4. PICK m \in Nat : m = Len(u)
    BY LenProperties
  <1>5. /\ v \in Seq(Tasks) /\ DOMAIN u = 1 .. m /\ DOMAIN v = 1 .. (m + 1) /\ v[m + 1] = w
        /\ \A i \in 1 .. m : v[i] = u[i]
    BY <1>2, <1>3, <1>4
  <1>6. dq' \in [Threads -> Seq(Tasks)] /\ dq'[t] = v /\ \A s \in Threads : s # t => dq'[s] = dq[s]
    BY <1>1, <1>2, <1>3, <1>5
  <1>7. \A i \in DOMAIN v : i \in DOMAIN u \/ i = m + 1
    BY <1>4, <1>5
  <1>8. \A i \in DOMAIN u : i \in DOMAIN v /\ v[i] = u[i]
    BY <1>4, <1>5
  <1>9. m + 1 \in DOMAIN v
    BY <1>4, <1>5
  <1>10. \A y : Queued(y)' <=> Queued(y) \/ y = w
    <2>1. \A y : (\E i \in DOMAIN v : v[i] = y) <=> (\E i \in DOMAIN u : u[i] = y) \/ y = w
      BY <1>5, <1>7, <1>8, <1>9
    <2> QED
      BY <1>2, <1>6, <2>1 DEF Queued
  <1>11. (\A s \in Threads : \A i \in DOMAIN dq[s] : dq[s][i] # w) /\ (\A i \in DOMAIN hq : hq[i] # w)
    BY DEF Queued
  <1>12. \A s \in Threads : \A i \in DOMAIN dq'[s] :
           (i \in DOMAIN dq[s] /\ dq'[s][i] = dq[s][i]) \/ (s = t /\ i = m + 1 /\ dq'[s][i] = w)
    BY <1>2, <1>5, <1>6, <1>7, <1>8
  <1>13. \A s, r \in Threads : \A i \in DOMAIN dq'[s], j \in DOMAIN dq'[r] :
           dq'[s][i] = dq'[r][j] => s = r /\ i = j
    BY <1>11, <1>12 DEF QueuesOK
  <1>14. \A s \in Threads : \A i \in DOMAIN dq'[s], j \in DOMAIN hq : dq'[s][i] # hq[j]
    BY <1>11, <1>12 DEF QueuesOK
  <1>15. \A y \in Tasks : Queued(y)' => rec'[y].st = "wait" /\ rec'[y].pred = {} /\ ~ rec'[y].kind.if0
    BY <1>10 DEF QueuesOK
  <1>16. \A i, j \in DOMAIN hq' : hq'[i] = hq'[j] => i = j
    BY DEF QueuesOK
  <1> QED
    BY <1>6, <1>10, <1>13, <1>14, <1>15, <1>16 DEF QueuesOK

LEMMA SpawnPushStep ==
  ASSUME TasksInv, NEW t \in Threads, SpawnPush(t)
  PROVE  TasksInv'
  <1>1. /\ Shape /\ StacksOK /\ RecsOK /\ QueuesOK /\ CountsOK /\ GroupsOK /\ BarrierOK
        /\ Top(t) \in FrameT /\ Cur(t) \in Recs /\ Top(t).tk = Cur(t) /\ Top(t).pc = pc(t)
        /\ Fate(Top(t)) /\ Counts(Top(t)) /\ Drops(Top(t))
        /\ (Len(stack[t]) = 1 => Cur(t) = t)
    BY CurIs
  <1>2. PICK x \in Recs : x = Cur(t)
    BY <1>1
  <1> DEFINE w == Linked(t)
             f == Frame(x, "wake")
  <1>3. /\ pc(t) = "link" /\ ~ Tracked(w) /\ dq' = [dq EXCEPT ![t] = Append(@, w)] /\ SetTop(t, f)
        /\ UNCHANGED <<rec, grp, base, hq, live, sync>>
    BY <1>2 DEF SpawnPush
  <1>4. /\ w \in Tasks /\ rec[w].parent = x /\ rec[w].st = "wait" /\ rec[x].st = "run" /\ rec[w].pred = {}
        /\ ~ Queued(w) /\ ~ rec[w].kind.if0 /\ Top(t).drop = <<>>
    BY <1>2, <1>3, LinkedIs
  <1>5. IsFrame(f, x, "wake", <<>>, <<>>)
    BY PcIs, FrameIs
  <1> HIDE DEF w, f
  <1>6. f \in FrameT /\ f.tk = x /\ f.pc = "wake" /\ f.ctr = <<>> /\ f.drop = <<>>
    BY <1>5 DEF IsFrame
  <1>7. Topped(t, f) /\ Below(t) /\ Top(t)' = f /\ Cur(t)' = x /\ pc(t)' = "wake"
    BY <1>1, <1>3, <1>6, SetTopStep, TopAfter DEF Topped, Cur, pc
  <1>8. rec' = rec /\ grp' = grp /\ live' = live /\ hq' = hq /\ base' = base
        /\ tm' = tm /\ nwait' = nwait /\ sleepers' = sleepers /\ UNCHANGED barVars
        /\ barrived' = barrived /\ bgen' = bgen /\ gen' = gen /\ passed' = passed
    BY <1>3 DEF sync, idleVars, waitVars, barVars
  <1>9. QueuesOK' /\ dq' \in [Threads -> Seq(Tasks)] /\ \A y : Queued(y)' <=> Queued(y) \/ y = w
    BY <1>1, <1>3, <1>4, <1>8, QueueOne
  <1>10. Still(t, f)
    <2>1. ~ Ending(f) /\ ~ Ending(Top(t))
      BY <1>1, <1>3, <1>6 DEF Ending
    <2>2. SameCore(rec[Cur(t)], rec'[Cur(t)])
      BY <1>8 DEF SameCore
    <2> QED
      BY <1>2, <1>3, <1>4, <1>6, <1>7, <1>8, <2>1, <2>2 DEF Still
  <1>11. RecsOK'
    BY <1>1, <1>4, <1>9, <1>10, StillRecs
  <1>12. ChildrenOK' /\ RefsOK' /\ LiveOK' /\ EndOK'
    BY <1>1, <1>10, StillCounts DEF CountsOK
  <1>13. SleepOK'
    <2>1. pc(t) \notin SlotPcs \cup TcPcs /\ pc(t)' \notin SlotPcs \cup TcPcs
      BY <1>3, <1>7 DEF SlotPcs, TcPcs
    <2> QED
      BY <1>1, <1>7, <1>8, <2>1, AwakeStep DEF CountsOK
  <1>14. Undisturbed(t, None)
    <2>1. \A y \in Tasks : rec[y].pred = {} /\ ~ Queued(y) /\ rec[y].st = "wait" /\ rec[y].parent # Cur(t) => ~ Queued(y)'
      BY <1>2, <1>4, <1>9
    <2>2. \A h \in Groups : grp[h].st # "none" => grp'[h].owner = grp[h].owner
      BY <1>8
    <2> QED
      BY <1>1, <1>10, <2>1, <2>2, StillUndisturbed
  <1>15. StacksOK'
    <2>1. Deferred(x) => Deferred(x)'
      BY <1>8 DEF Deferred
    <2>2. Fate(Top(t))'
      BY <1>4, <1>6, <1>7, <1>8 DEF Fate, RunPcs, IdlePcs, TcPcs, WaitPcs
    <2>3. Counts(Top(t))'
      BY <1>6, <1>7 DEF Counts, WaitPcs
    <2>4. Drops(Top(t))'
      BY <1>6, <1>7 DEF Drops
    <2>5. f.pc \notin IdlePcs \cup {"out"}
      BY <1>6 DEF IdlePcs, TcPcs
    <2> QED
      BY <1>2, <1>6, <1>7, <1>14, <2>1, <2>2, <2>3, <2>4, <2>5, ToppedOK
  <1>16. /\ (Len(stack[t]) = 1 =>
              /\ (stack'[t][1].pc \in IdlePcs <=> stack[t][1].pc \in IdlePcs)
              /\ (stack'[t][1].pc = "retest" => AtBarrier(t))
              /\ (stack'[t][1].pc = "drain" => ~ AtBarrier(t)))
    <2>1. Len(stack[t]) = 1 => stack'[t][1] = f /\ stack[t][1] = Top(t)
      BY <1>1, <1>7, TopIs DEF Topped
    <2> QED
      BY <1>1, <1>3, <1>6, <2>1 DEF IdlePcs, TcPcs
  <1>17. BarrierOK'
    <2>1. \A y \in Recs : rec[y].st # "none" => rec'[y].epoch = rec[y].epoch /\ (Over(y) => Over(y)')
      BY <1>8 DEF Over
    <2> QED
      BY <1>7, <1>8, <1>16, <2>1, BarrierStays
  <1>18. GroupsOK'
    <2>1. Fixed
      BY <1>8 DEF Fixed, Deferred
    <2>2. ~ InGroup(Top(t)) /\ ~ InGroup(Top(t))'
      BY <1>1, <1>3, <1>6, <1>7 DEF InGroup, Ending
    <2>3. \A y \in Tasks : GroupPending(y)' <=> GroupPending(y)
      BY <1>1, <1>7, <2>1, <2>2, GroupPendingKept
    <2>4. \A s \in Threads : stack'[s][1].pc \in IdlePcs => stack[s][1].pc \in IdlePcs \/ rec[s].group = None
      BY <1>1, <1>7, <1>16, FirstAbove
    <2> QED
      BY <1>1, <1>8, <2>3, <2>4, GroupsKept
  <1>19. Shape'
    BY <1>1, <1>7, <1>8, <1>9 DEF Shape, Below
  <1> QED
    BY <1>9, <1>11, <1>12, <1>13, <1>15, <1>17, <1>18, <1>19 DEF TasksInv, CountsOK

-----------------------------------------------------------------------------
(* Tasks are queued with the mutex held.                                    *)
Names(s, y) == \E i \in DOMAIN s : s[i] = y
Once(s)     == \A i, j \in DOMAIN s : s[i] = s[j] => i = j

\* Two lists that name different tasks, one after the other.
LEMMA ConcatOnce ==
  ASSUME NEW u \in Seq(Tasks), NEW v \in Seq(Tasks), Once(u), Once(v),
         \A y : ~ (Names(u, y) /\ Names(v, y)), NEW w, w = u \o v
  PROVE  /\ w \in Seq(Tasks) /\ Once(w) /\ \A y : (Names(w, y) <=> Names(u, y) \/ Names(v, y))
  <1>1. PICK m \in Nat : m = Len(u)
    BY LenProperties
  <1>2. PICK n \in Nat : n = Len(v)
    BY LenProperties
  <1>3. DOMAIN u = 1 .. m /\ DOMAIN v = 1 .. n
    BY <1>1, <1>2, LenProperties
  <1>4. /\ w \in Seq(Tasks) /\ Len(w) = m + n
        /\ \A i \in 1 .. m + n : w[i] = IF i <= m THEN u[i] ELSE v[i - m]
    BY <1>1, <1>2, ConcatProperties
  <1>5. DOMAIN w = 1 .. (m + n)
    BY <1>4, LenProperties
  <1>6. ASSUME NEW i \in DOMAIN w
        PROVE  (i \in DOMAIN u /\ w[i] = u[i] /\ i <= m) \/ (i - m \in DOMAIN v /\ w[i] = v[i - m] /\ i > m)
    <2>1. i \in Nat /\ i >= 1 /\ i <= m + n
      BY <1>1, <1>2, <1>5, <1>6
    <2>2. CASE i <= m
      BY <1>3, <1>4, <1>5, <1>6, <2>1, <2>2
    <2>3. CASE i > m
      <3>1. i - m \in 1 .. n
        BY <2>1, <2>3, <1>1, <1>2
      <3>2. w[i] = v[i - m]
        <4>1. i \in 1 .. m + n
          BY <1>5, <1>6
        <4>2. ~ (i <= m)
          BY <1>1, <2>1, <2>3
        <4> QED
          BY <1>4, <4>1, <4>2
      <3> QED
        BY <1>3, <2>3, <3>1, <3>2
    <2> QED
      BY <2>1, <2>2, <2>3
  <1>7. \A i \in DOMAIN u : i \in DOMAIN w /\ w[i] = u[i]
    <2>1. \A i \in 1 .. m : i \in 1 .. (m + n) /\ i <= m
      BY <1>1, <1>2
    <2> QED
      BY <1>3, <1>4, <1>5, <2>1
  <1>8. \A i \in DOMAIN v : i + m \in DOMAIN w /\ w[i + m] = v[i]
    <2>1. \A i \in 1 .. n : i + m \in 1 .. (m + n) /\ ~ (i + m <= m) /\ (i + m) - m = i
      BY <1>1, <1>2
    <2> QED
      BY <1>3, <1>4, <1>5, <2>1
  <1>9. \A y : (Names(w, y) <=> Names(u, y) \/ Names(v, y))
    <2>1. \A i \in DOMAIN w : (\E j \in DOMAIN u : w[i] = u[j]) \/ (\E j \in DOMAIN v : w[i] = v[j])
      BY <1>6
    <2>2. \A i \in DOMAIN v : \E j \in DOMAIN w : w[j] = v[i]
      BY <1>8
    <2>3. ASSUME NEW y
          PROVE  Names(w, y) => Names(u, y) \/ Names(v, y)
      BY <2>1 DEF Names
    <2>4. ASSUME NEW y
          PROVE  Names(u, y) \/ Names(v, y) => Names(w, y)
      BY <1>7, <2>2 DEF Names
    <2> QED
      BY <2>3, <2>4
  <1>10. ASSUME NEW i \in DOMAIN w, NEW j \in DOMAIN w, w[i] = w[j]
         PROVE  i = j
    <2>1. i \in Nat /\ j \in Nat
      BY <1>1, <1>2, <1>5
    <2>2. CASE i <= m /\ j <= m
      <3>1. i \in DOMAIN u /\ j \in DOMAIN u /\ u[i] = u[j]
        BY <1>1, <1>6, <1>10, <2>1, <2>2
      <3> QED
        BY <3>1 DEF Once
    <2>3. CASE i > m /\ j > m
      <3>1. i - m \in DOMAIN v /\ j - m \in DOMAIN v /\ v[i - m] = v[j - m]
        BY <1>1, <1>6, <1>10, <2>1, <2>3
      <3>2. i - m = j - m
        BY <3>1 DEF Once
      <3> QED
        BY <1>1, <2>1, <3>2
    <2>4. CASE i <= m /\ j > m
      <3>1. i \in DOMAIN u /\ j - m \in DOMAIN v /\ u[i] = v[j - m]
        BY <1>1, <1>6, <1>10, <2>1, <2>4
      <3> QED
        BY <3>1 DEF Names
    <2>5. CASE i > m /\ j <= m
      <3>1. j \in DOMAIN u /\ i - m \in DOMAIN v /\ u[j] = v[i - m]
        BY <1>1, <1>6, <1>10, <2>1, <2>5
      <3> QED
        BY <3>1 DEF Names
    <2> QED
      BY <1>1, <2>1, <2>2, <2>3, <2>4, <2>5
  <1> QED
    BY <1>4, <1>9, <1>10 DEF Once

\* The tasks of a set in the order they were created in.
LEMMA InOrderIs ==
  ASSUME NEW xs \in SUBSET Tasks, NEW s \in InOrder(xs)
  PROVE  /\ s \in Seq(Tasks) /\ s \in Seq(xs) /\ Once(s) /\ (\A y : Names(s, y) => y \in xs)
  <1>1. IsFiniteSet(xs)
    BY NoneFree, FS_Subset
  <1>2. PICK n \in Nat : n = Cardinality(xs)
    BY <1>1, FS_CardinalityType
  <1>3. s \in [1 .. n -> xs] /\ \A i, j \in DOMAIN s : i < j => s[i] < s[j]
    BY <1>2 DEF InOrder
  <1>4. s \in Seq(xs) /\ s \in Seq(Tasks)
    BY <1>3, SeqDef
  <1>5. \A i \in DOMAIN s : i \in Nat /\ s[i] \in Nat /\ s[i] \in xs
    BY <1>3, NoneFree
  <1>6. \A a, b \in Nat : a = b \/ a < b \/ b < a
    OBVIOUS
  <1>7. \A a, b \in Nat : a < b => a # b
    OBVIOUS
  <1>8. Once(s)
    BY <1>3, <1>5, <1>6, <1>7 DEF Once
  <1> QED
    BY <1>4, <1>5, <1>8 DEF Names

\* What QueuesOK says of the lists themselves, place by place and task by task.
Distinct ==
  /\ \A t, s \in Threads : \A i \in DOMAIN dq[t], j \in DOMAIN dq[s] :
       dq[t][i] = dq[s][j] => t = s /\ i = j
  /\ \A i, j \in DOMAIN hq : hq[i] = hq[j] => i = j
  /\ \A t \in Threads : \A i \in DOMAIN dq[t], j \in DOMAIN hq : dq[t][i] # hq[j]

Apart ==
  /\ \A t, s \in Threads : \A y : Names(dq[t], y) /\ Names(dq[s], y) => t = s
  /\ \A t \in Threads : Once(dq[t])
  /\ Once(hq)
  /\ \A t \in Threads : \A y : ~ (Names(dq[t], y) /\ Names(hq, y))

LEMMA DistinctIs ==
  Distinct <=> Apart
  <1>1. ASSUME Distinct
        PROVE  Apart
    <2>1. \A t, s \in Threads : \A y : Names(dq[t], y) /\ Names(dq[s], y) => t = s
      BY <1>1 DEF Distinct, Names
    <2>2. \A t \in Threads : Once(dq[t])
      BY <1>1 DEF Distinct, Once
    <2>3. Once(hq)
      BY <1>1 DEF Distinct, Once
    <2>4. \A t \in Threads : \A y : ~ (Names(dq[t], y) /\ Names(hq, y))
      BY <1>1 DEF Distinct, Names
    <2> QED
      BY <2>1, <2>2, <2>3, <2>4 DEF Apart
  <1>2. ASSUME Apart
        PROVE  Distinct
    <2>1. ASSUME NEW t \in Threads, NEW s \in Threads, NEW i \in DOMAIN dq[t], NEW j \in DOMAIN dq[s],
                 dq[t][i] = dq[s][j]
          PROVE  t = s /\ i = j
      <3>1. t = s
        BY <1>2, <2>1 DEF Names, Apart
      <3> QED
        BY <1>2, <2>1, <3>1 DEF Once, Apart
    <2>2. \A i, j \in DOMAIN hq : hq[i] = hq[j] => i = j
      BY <1>2 DEF Once, Apart
    <2>3. \A t \in Threads : \A i \in DOMAIN dq[t], j \in DOMAIN hq : dq[t][i] # hq[j]
      BY <1>2 DEF Names, Apart
    <2> QED
      BY <2>1, <2>2, <2>3 DEF Distinct
  <1> QED
    BY <1>1, <1>2

\* What PushLocked does to the lists and the stacks.
LEMMA PushLockedIs ==
  ASSUME Shape, StacksOK, QueuesOK, NEW t \in Threads, NEW xs \in SUBSET Tasks, NEW f \in FrameT,
         PushLocked(t, xs, WithTop(t, f)), pc(t) # "idle", pc(t) # "asleep",
         \A y \in xs : ~ Queued(y)
  PROVE  /\ Topped(t, f) /\ dq' \in [Threads -> Seq(Tasks)] /\ hq' \in Seq(Tasks) /\ Distinct'
         /\ \A y : Queued(y)' => Queued(y) \/ y \in xs
  <1> DEFINE high == {x \in xs : rec[x].kind.high}
             low  == xs \ high
  <1>1. PICK hs \in InOrder(high) : hq' = hq \o hs
    BY DEF PushLocked
  <1>2. PICK ls \in InOrder(low) : dq' = [dq EXCEPT ![t] = @ \o ls]
    BY DEF PushLocked
  <1>3. /\ hs \in Seq(Tasks) /\ Once(hs) /\ (\A y : Names(hs, y) => y \in high)
        /\ ls \in Seq(Tasks) /\ Once(ls) /\ (\A y : Names(ls, y) => y \in low)
    BY InOrderIs
  <1>4. Topped(t, f)
    <2>1. PICK A \in Signalled(Cardinality(high) + (IF sleepers = 0 THEN 0 ELSE Cardinality(low))) :
            stack' = Rouse(Rouse(WithTop(t, f), A, "roused"), IF high = {} THEN {} ELSE OnSlot, "woken")
      BY DEF PushLocked
    <2>2. PICK B \in SUBSET OnSlot : B = IF high = {} THEN {} ELSE OnSlot
      OBVIOUS
    <2>3. A \in SUBSET OnTc
      BY DEF Signalled
    <2>4. t \notin OnTc /\ t \notin OnSlot
      BY DEF OnTc, OnSlot
    <2> QED
      BY <2>1, <2>2, <2>3, <2>4, RouseTopped
  <1> HIDE DEF high, low
  <1>5. Distinct
    BY DEF QueuesOK, Distinct
  <1>6. dq \in [Threads -> Seq(Tasks)] /\ hq \in Seq(Tasks)
    BY DEF Shape
  <1>7. PICK u \in Seq(Tasks) : u = dq[t]
    BY <1>6
  <1>8. PICK w : w = u \o ls
    OBVIOUS
  <1>9. dq' = [dq EXCEPT ![t] = w]
    BY <1>2, <1>7, <1>8
  <1>10. \A y : (Queued(y) <=> (\E s \in Threads : Names(dq[s], y)) \/ Names(hq, y))
    BY DEF Queued, Names
  <1>11. (\A y \in high : ~ Queued(y)) /\ (\A y \in low : ~ Queued(y)) /\ (\A y \in low : y \notin high)
         /\ (\A y \in high : y \in xs) /\ (\A y \in low : y \in xs)
    BY DEF high, low
  <1>12. /\ \A s, r \in Threads : \A y : Names(dq[s], y) /\ Names(dq[r], y) => s = r
         /\ \A s \in Threads : Once(dq[s])
         /\ Once(hq)
         /\ \A s \in Threads : \A y : ~ (Names(dq[s], y) /\ Names(hq, y))
    BY <1>5, DistinctIs DEF Apart
  <1>13. w \in Seq(Tasks) /\ Once(w) /\ \A y : (Names(w, y) <=> Names(u, y) \/ Names(ls, y))
    <2>1. \A y : ~ (Names(u, y) /\ Names(ls, y))
      BY <1>3, <1>7, <1>10, <1>11
    <2> QED
      BY <1>3, <1>7, <1>8, <1>12, <2>1, ConcatOnce
  <1>14. hq' \in Seq(Tasks) /\ Once(hq)' /\ \A y : (Names(hq, y)' <=> Names(hq, y) \/ Names(hs, y))
    <2>1. \A y : ~ (Names(hq, y) /\ Names(hs, y))
      BY <1>3, <1>10, <1>11
    <2>2. PICK v : v = hq \o hs
      OBVIOUS
    <2>3. v \in Seq(Tasks) /\ Once(v) /\ \A y : (Names(v, y) <=> Names(hq, y) \/ Names(hs, y))
      BY <1>3, <1>6, <1>12, <2>1, <2>2, ConcatOnce
    <2>4. hq' = v
      BY <1>1, <2>2
    <2> QED
      BY <2>3, <2>4 DEF Once, Names
  <1>15. dq' \in [Threads -> Seq(Tasks)] /\ dq'[t] = w /\ \A s \in Threads : s # t => dq'[s] = dq[s]
    BY <1>6, <1>9, <1>13
  <1>16. \A s \in Threads : \A y : Names(dq'[s], y) => Names(dq[s], y) \/ (s = t /\ Names(ls, y))
    BY <1>7, <1>13, <1>15
  <1>17. Distinct'
    <2>1. \A s \in Threads : Once(dq'[s])
      BY <1>12, <1>13, <1>15
    <2>2. \A s, r \in Threads : \A y : Names(dq'[s], y) /\ Names(dq'[r], y) => s = r
      BY <1>3, <1>10, <1>11, <1>12, <1>16
    <2>3. \A s \in Threads : \A y : ~ (Names(dq'[s], y) /\ Names(hq, y)')
      BY <1>3, <1>10, <1>11, <1>12, <1>14, <1>16
    <2>4. Apart'
      BY <1>14, <2>1, <2>2, <2>3 DEF Apart, Names, Once
    <2> QED
      BY <2>4, DistinctIs, PTL
  <1>18. \A y : Queued(y)' => Queued(y) \/ y \in xs
    <2>1. \A y : Queued(y)' => (\E s \in Threads : Names(dq'[s], y)) \/ Names(hq, y)'
      BY DEF Queued, Names
    <2> QED
      BY <1>3, <1>10, <1>11, <1>14, <1>16, <2>1
  <1> QED
    BY <1>4, <1>14, <1>15, <1>17, <1>18

-----------------------------------------------------------------------------
(* A task with dependences is done: those that waited for it alone are told,  *)
(* or queued.                                                              *)
Released(x) ==
  /\ rec' \in [Recs -> RecT]
  /\ \A y \in Recs : /\ SameId(rec[y], rec'[y]) /\ SameNums(rec[y], rec'[y])
                     /\ rec'[y].writer = rec[y].writer /\ rec'[y].readers = rec[y].readers
  /\ \A y \in Recs : y # x => /\ rec'[y].st = rec[y].st /\ rec'[y].done = rec[y].done
                              /\ rec'[y].pred = rec[y].pred \ {x}
  /\ \A y \in Recs : y # x /\ rec[y].pred = {} => rec'[y] = rec[y]
  /\ rec'[x].st = "over" /\ rec'[x].done /\ rec'[x].pred = rec[x].pred

LEMMA PredSet ==
  ASSUME NEW q \in RecT, NEW P \in SUBSET Tasks
  PROVE  /\ [q EXCEPT !.pred = P] \in RecT /\ SameId(q, [q EXCEPT !.pred = P]) /\ SameNums(q, [q EXCEPT !.pred = P])
         /\ [q EXCEPT !.pred = P].writer = q.writer /\ [q EXCEPT !.pred = P].readers = q.readers
         /\ [q EXCEPT !.pred = P].st = q.st /\ [q EXCEPT !.pred = P].done = q.done
         /\ [q EXCEPT !.pred = P].pred = P /\ (P = q.pred => [q EXCEPT !.pred = P] = q)
  BY DEF RecT, SameId, SameNums

LEMMA DoneSet ==
  ASSUME NEW q \in RecT
  PROVE  LET r == [q EXCEPT !.done = TRUE, !.st = "over"] IN
         /\ r \in RecT /\ SameId(q, r) /\ SameNums(q, r) /\ r.writer = q.writer /\ r.readers = q.readers
         /\ r.st = "over" /\ r.done /\ r.pred = q.pred
  BY DEF RecT, SameId, SameNums

LEMMA ReleasedIs ==
  ASSUME Shape, NEW x \in Recs,
         rec' = [y \in Recs |-> IF y = x THEN [rec[y] EXCEPT !.done = TRUE, !.st = "over"]
                                ELSE [rec[y] EXCEPT !.pred = @ \ {x}]]
  PROVE  Released(x)
  <1>1. \A y \in Recs : rec[y] \in RecT /\ rec[y].pred \ {x} \in SUBSET Tasks
    BY DEF Shape, RecT
  <1> DEFINE a == [rec[x] EXCEPT !.done = TRUE, !.st = "over"]
             b(y) == [rec[y] EXCEPT !.pred = rec[y].pred \ {x}]
  <1>2. /\ a \in RecT /\ SameId(rec[x], a) /\ SameNums(rec[x], a) /\ a.writer = rec[x].writer /\ a.readers = rec[x].readers
        /\ a.st = "over" /\ a.done /\ a.pred = rec[x].pred
    BY <1>1, DoneSet
  <1>3. ASSUME NEW y \in Recs
        PROVE  /\ b(y) \in RecT /\ SameId(rec[y], b(y)) /\ SameNums(rec[y], b(y)) /\ b(y).writer = rec[y].writer
               /\ b(y).readers = rec[y].readers /\ b(y).st = rec[y].st /\ b(y).done = rec[y].done
               /\ b(y).pred = rec[y].pred \ {x} /\ (rec[y].pred \ {x} = rec[y].pred => b(y) = rec[y])
    BY <1>1, PredSet
  <1>4. rec' = [y \in Recs |-> IF y = x THEN a ELSE b(y)]
    OBVIOUS
  <1> HIDE DEF a, b
  <1>5. \A y \in Recs : rec'[y] = IF y = x THEN a ELSE b(y)
    BY <1>4
  <1>6. rec' \in [Recs -> RecT]
    BY <1>2, <1>3, <1>4
  <1>7. \A y \in Recs : y # x /\ rec[y].pred = {} => rec'[y] = rec[y]
    BY <1>3, <1>5
  <1>8. \A y \in Recs : y # x => rec'[y] = b(y)
    BY <1>5
  <1>9. rec'[x] = a
    BY <1>5
  <1>10. \A y \in Recs : /\ SameId(rec[y], rec'[y]) /\ SameNums(rec[y], rec'[y])
                         /\ rec'[y].writer = rec[y].writer /\ rec'[y].readers = rec[y].readers
    BY <1>2, <1>3, <1>5
  <1>11. \A y \in Recs : y # x => /\ rec'[y].st = rec[y].st /\ rec'[y].done = rec[y].done
                                  /\ rec'[y].pred = rec[y].pred \ {x}
    BY <1>3, <1>8
  <1>12. rec'[x].st = "over" /\ rec'[x].done /\ rec'[x].pred = rec[x].pred
    BY <1>2, <1>9
  <1> QED
    BY <1>6, <1>7, <1>10, <1>11, <1>12 DEF Released

\* The frame of x with counters cs to tell, before its parent counts it out.
LEMMA ToldNoDrop ==
  ASSUME NEW x \in Recs, NEW cs \in Seq(Ctrs), NEW next \in {"children", "group", "unref"}
  PROVE  IsTold(ToNotify(Frame(x, ""), cs, next), x, <<>>, cs, next)
  <1>1. /\ next \in Pcs /\ "notify" \in Pcs /\ <<>> \in Ctrs /\ <<>> \in Seq(Ctrs) /\ <<>> \in Seq(Recs)
    BY PcIs, EmptySeq DEF Ctrs
  <1>2. PICK h : h = Frame(x, "")
    OBVIOUS
  <1>3. h \in FrameU /\ h.tk = x /\ h.ctr = <<>> /\ h.drop = <<>>
    BY <1>1, <1>2 DEF Frame, FrameU
  <1>4. IsTold(ToNotify(h, cs, next), x, <<>>, cs, next)
    BY <1>1, <1>3 DEF IsTold, FrameU, FrameT, ToNotify
  <1> QED
    BY <1>2, <1>4

\* How the end of a task with dependences looks.
CompleteOn(t, x, xs, g) ==
  /\ x = Cur(t) /\ x \in Tasks /\ x \notin Threads /\ pc(t) = "body" /\ Len(stack[t]) # 1
  /\ rec[x].st = "run" /\ Deferred(x) /\ Tracked(x) /\ ~ OpenGroup(x) /\ rec[x].pred = {}
  /\ Released(x)
  /\ xs \in SUBSET Tasks /\ \A y \in xs : rec[y].pred = {x} /\ ~ rec[y].kind.if0 /\ ~ Queued(y) /\ rec[y].st = "wait"
  /\ g \in FrameT /\ g.tk = x /\ g.ctr = <<>> /\ g.drop = <<>> /\ g.pc \in {"children", "notify"}
  /\ g.next = "children" /\ (g.pc = "notify" => g.tell # <<>>)
  /\ Topped(t, g) /\ dq' \in [Threads -> Seq(Tasks)] /\ hq' \in Seq(Tasks) /\ Distinct'
  /\ \A y : Queued(y)' => Queued(y) \/ y \in xs
  /\ tm' \in Threads \cup {Free}
  /\ UNCHANGED <<grp, base, live, nwait, sleepers, barVars>>

LEMMA CompleteIs ==
  ASSUME TasksInv, NEW t \in Threads, Complete(t)
  PROVE  \E x \in Recs, xs \in SUBSET Tasks, g \in FrameT : CompleteOn(t, x, xs, g)
  <1>1. /\ Shape /\ StacksOK /\ RecsOK /\ QueuesOK
        /\ Top(t) \in FrameT /\ Cur(t) \in Recs /\ Top(t).tk = Cur(t) /\ Top(t).pc = pc(t)
        /\ Fate(Top(t)) /\ (Len(stack[t]) # 1 => Cur(t) \in Tasks)
    BY CurIs
  <1>2. PICK x \in Recs : x = Cur(t)
    BY <1>1
  <1> DEFINE ready == {y \in Tasks : rec[y].pred = {x}}
             here  == {y \in ready : rec[y].kind.if0}
  <1>3. /\ Ends(t) /\ Tracked(x) /\ ~ rec[x].inplace
        /\ rec' = [y \in Recs |-> IF y = x THEN [rec[y] EXCEPT !.done = TRUE, !.st = "over"]
                                  ELSE [rec[y] EXCEPT !.pred = @ \ {x}]]
        /\ tm' = (IF here = {} THEN Free ELSE t)
        /\ UNCHANGED <<grp, base, live, nwait, watch, sleepers, barVars, spurious>>
    BY <1>2 DEF Complete
  <1>4. PICK ys \in InOrder(here) :
          PushLocked(t, ready \ here, WithTop(t,
            ToNotify(Frame(x, ""), [i \in DOMAIN ys |-> <<"npred", ys[i]>>], "children")))
    BY <1>2 DEF Complete
  <1> DEFINE xs == ready \ here
             cs == [i \in DOMAIN ys |-> <<"npred", ys[i]>>]
             g  == ToNotify(Frame(x, ""), cs, "children")
  <1>5. /\ pc(t) = "body" /\ Len(stack[t]) # 1 /\ ~ OpenGroup(x) /\ x \in Tasks /\ x \notin Threads
        /\ rec[x].st = "run" /\ Deferred(x)
    <2>0. Ends(t)
      BY <1>3
    <2>1. pc(t) = "body" /\ Len(stack[t]) # 1 /\ ~ OpenGroup(x)
      BY <1>1, <1>2, <2>0, TopIs DEF Ends
    <2>2. rec[x].st = "run" /\ x \in Tasks
      BY <1>1, <1>2, <2>1 DEF Fate, RunPcs
    <2> QED
      BY <1>3, <2>1, <2>2, NoneFree DEF Deferred
  <1>6. rec[x].pred = {}
    BY <1>1, <1>5 DEF RecsOK, Waits4
  <1>7. here \in SUBSET Tasks /\ xs \in SUBSET Tasks
        /\ \A y \in xs : y \in Recs /\ rec[y].pred = {x} /\ ~ rec[y].kind.if0
    BY NoneFree
  <1>8. \A y \in xs : ~ Queued(y) /\ rec[y].st = "wait"
    BY <1>1, <1>7 DEF RecsOK, Waits4
  <1>9. IsTold(g, x, <<>>, cs, "children")
    <2>1. ys \in Seq(Tasks)
      BY <1>7, InOrderIs
    <2>2. PICK n \in Nat : n = Len(ys)
      BY <2>1, LenProperties
    <2>3. DOMAIN ys = 1 .. n /\ \A i \in 1 .. n : ys[i] \in Tasks
      BY <2>1, <2>2, LenProperties, ElementOfSeq
    <2>4. \A i \in 1 .. n : <<"npred", ys[i]>> \in Ctrs
      BY <2>3, NoneFree DEF Ctrs
    <2>5. cs \in [1 .. n -> Ctrs]
      BY <2>3, <2>4
    <2>6. cs \in Seq(Ctrs)
      BY <2>5, SeqDef
    <2> QED
      BY <2>6, ToldNoDrop
  <1>10. PushLocked(t, xs, WithTop(t, g))
    BY <1>4
  <1>11. Released(x)
    BY <1>1, <1>3, ReleasedIs
  <1>12. tm' \in Threads \cup {Free}
    BY <1>3
  <1> HIDE DEF cs, g, ready, here, xs
  <1>13. g \in FrameT /\ g.tk = x /\ g.ctr = <<>> /\ g.drop = <<>> /\ g.pc \in {"children", "notify"}
         /\ g.next = "children" /\ (g.pc = "notify" => g.tell # <<>>)
    BY <1>9 DEF IsTold
  <1>14. /\ Topped(t, g) /\ dq' \in [Threads -> Seq(Tasks)] /\ hq' \in Seq(Tasks) /\ Distinct'
         /\ \A y : Queued(y)' => Queued(y) \/ y \in xs
    BY <1>1, <1>5, <1>7, <1>8, <1>10, <1>13, PushLockedIs
  <1>15. CompleteOn(t, x, xs, g)
    BY <1>2, <1>3, <1>5, <1>6, <1>7, <1>8, <1>11, <1>12, <1>13, <1>14 DEF CompleteOn
  <1> QED
    BY <1>7, <1>13, <1>15

\* Who waited for the task is ready; it goes on to be counted out.
LEMMA CompleteRecs ==
  ASSUME TasksInv, NEW t \in Threads, NEW x \in Recs, NEW xs \in SUBSET Tasks, NEW g \in FrameT,
         CompleteOn(t, x, xs, g)
  PROVE  RecsOK' /\ QueuesOK' /\ Lasts /\ Below(t) /\ Top(t)' = g /\ Cur(t)' = x /\ pc(t)' = g.pc
  <1>1. Shape /\ StacksOK /\ RecsOK /\ QueuesOK
    BY CurIs
  <1>2. /\ x = Cur(t) /\ x \in Tasks /\ x \notin Threads /\ rec[x].st = "run" /\ Deferred(x) /\ Tracked(x)
        /\ rec[x].pred = {} /\ Topped(t, g) /\ g.tk = x /\ g.pc \in {"children", "notify"}
    BY DEF CompleteOn
  <1>3. \A y \in xs : rec[y].pred = {x} /\ ~ rec[y].kind.if0 /\ rec[y].st = "wait" /\ ~ Queued(y)
    BY DEF CompleteOn
  <1>4. Distinct' /\ \A y : Queued(y)' => Queued(y) \/ y \in xs
    BY DEF CompleteOn
  <1>5. Released(x)
    BY DEF CompleteOn
  <1>6. Below(t) /\ Top(t)' = g /\ Cur(t)' = x /\ pc(t)' = g.pc
    BY <1>1, <1>2, TopAfter DEF Topped, Cur, pc
  <1>7. \A y \in Recs : /\ SameId(rec[y], rec'[y]) /\ Ident(y) /\ DepRefs(rec'[y]) = DepRefs(rec[y])
                        /\ rec'[y].kids = rec[y].kids /\ rec'[y].refs = rec[y].refs
                        /\ rec'[y].children = rec[y].children
    BY <1>5, SameIs DEF Released, SameNums, DepRefs
  <1>8. \A y \in Recs : y # x => /\ rec'[y].st = rec[y].st /\ rec'[y].done = rec[y].done
                                 /\ rec'[y].pred = rec[y].pred \ {x}
    BY <1>5 DEF Released
  <1>9. \A y \in Recs : y # x /\ rec[y].pred = {} => rec'[y] = rec[y]
    BY <1>5 DEF Released
  <1>10. rec'[x].st = "over" /\ rec'[x].done /\ rec'[x].pred = {}
    BY <1>2, <1>5 DEF Released
  <1>11. Lasts
    BY <1>2, <1>7, <1>8, <1>10 DEF Lasts
  <1>12. NewLinks
    <2>1. \A s \in Threads : s # t => ((pc(s)' = "link") <=> (pc(s) = "link")) /\ Linked(s)' = Linked(s)
      BY <1>1, <1>6, OtherMarks, OtherTops DEF Linked
    <2> QED
      BY <1>2, <1>6, <2>1 DEF NewLinks
  <1>13. \A y \in Recs : OnStack(y) => OnStack(y)'
    BY <1>1, <1>2, <1>6, StackedAfter
  <1>14. ASSUME NEW y \in Recs, y # x
         PROVE  RecOK(y)' /\ Gone(y)'
    <2>1. Born(y) /\ Waits4(y) /\ Entry(y) /\ Gone(y)
      BY <1>1 DEF RecsOK
    <2>2. rec[y].st = "none" => rec'[y] = rec[y]
      <3>1. rec[y].st = "none" => rec[y].pred = {}
        BY <2>1 DEF Waits4
      <3> QED
        BY <1>9, <1>14, <3>1
    <2>3. (Deferred(y)' <=> Deferred(y)) /\ (Tracked(y)' <=> Tracked(y)) /\ (Over(y)' <=> Over(y))
      BY <1>7, <1>8, <1>14 DEF Deferred, Tracked, Over, SameId
    <2>4. Born(y)'
      <3>1. y \in Threads => rec[y].st # "none" /\ rec'[y].pred = {} /\ rec'[y].st \in {"run", "over", "freed"}
        BY <1>8, <1>14, <2>1 DEF Born
      <3>2. y \in Tasks /\ (rec'[y].st = "run" \/ (rec'[y].inplace /\ rec'[y].st = "over")) => OnStack(y)'
        <4>1. y \in Tasks /\ (rec[y].st = "run" \/ (rec[y].inplace /\ rec[y].st = "over")) => OnStack(y)
          BY <2>1, NoneFree DEF Born
        <4> QED
          BY <1>7, <1>8, <1>13, <1>14, <4>1 DEF Ident
      <3>3. Deferred(y) /\ Tracked(y) => (rec'[y].done <=> Over(y)')
        <4>1. Deferred(y) /\ Tracked(y) => (rec[y].done <=> Over(y))
          BY <2>1, NoneFree DEF Born, Deferred
        <4> QED
          BY <1>8, <1>14, <2>3, <4>1
      <3> QED
        BY <1>8, <1>11, <1>14, <2>1, <2>2, <3>1, <3>2, <3>3, BornKept
    <2>5. Waits4(y)'
      <3>1. rec'[y].pred \subseteq rec[y].pred /\ rec[y].pred \subseteq Tasks /\ x \notin rec'[y].pred
        BY <1>1, <1>8, <1>14 DEF Shape, RecT
      <3>2. rec'[y].pred # {} => rec'[y].st = rec[y].st /\ ~ Queued(y)'
        <4>1. y \in xs => rec'[y].pred = {}
          BY <1>3, <1>8, <1>14
        <4>2. rec[y].pred # {} => ~ Queued(y)
          BY <2>1 DEF Waits4
        <4> QED
          BY <1>4, <1>8, <1>14, <3>1, <4>1, <4>2
      <3>3. \A z \in rec'[y].pred : ~ rec'[z].done
        <4>1. \A z \in rec[y].pred : ~ rec[z].done
          BY <2>1 DEF Waits4
        <4>2. \A z \in rec'[y].pred : z # x /\ z \in Recs /\ z \in rec[y].pred
          BY <3>1, NoneFree
        <4> QED
          BY <1>8, <4>1, <4>2
      <3> QED
        BY <1>1, <1>11, <2>1, <3>1, <3>2, <3>3, WaitsKept
    <2>6. Entry(y)'
      BY <1>7, <1>11, <1>12, <2>1, EntryKept
    <2>7. Gone(y)'
      BY <1>1, <1>2, <1>6, <1>7, <1>8, <1>14, GoneKept DEF Ident
    <2> QED
      BY <2>4, <2>5, <2>6, <2>7 DEF RecOK
  <1>15. RecOK(x)' /\ Gone(x)'
    <2>1. Born(x) /\ Entry(x) /\ Gone(x)
      BY <1>1 DEF RecsOK
    <2>2. ~ rec'[x].inplace /\ ~ Static(x)'
      BY <1>2, <1>7 DEF Deferred, Static, SameId
    <2>3. Born(x)'
      <3>1. Over(x)'
        BY <1>10 DEF Over
      <3> QED
        BY <1>2, <1>10, <1>11, <2>1, <2>2, <3>1, BornKept
    <2>4. Waits4(x)'
      BY <1>10 DEF Waits4
    <2>5. Entry(x)'
      BY <1>7, <1>11, <1>12, <2>1, EntryKept
    <2>6. Gone(x)'
      <3>1. rec[x].refs > 0
        BY <1>2, <2>1 DEF Gone
      <3> QED
        BY <1>7, <1>10, <2>2, <3>1 DEF Gone
    <2> QED
      BY <2>3, <2>4, <2>5, <2>6 DEF RecOK
  <1>16. RecsOK'
    BY <1>14, <1>15 DEF RecsOK, RecOK
  <1>17. QueuesOK'
    <2>1. \A y \in Tasks : rec'[y].kind = rec[y].kind
      BY <1>7, NoneFree DEF SameId
    <2>2. ASSUME NEW y \in Tasks, Queued(y)'
          PROVE  rec'[y].st = "wait" /\ rec'[y].pred = {} /\ ~ rec'[y].kind.if0
      <3>1. rec[y].st = "wait" /\ rec[y].pred \subseteq {x} /\ ~ rec[y].kind.if0
        BY <1>1, <1>3, <1>4, <2>2 DEF QueuesOK
      <3>2. y # x
        BY <1>2, <3>1
      <3> QED
        BY <1>8, <2>1, <3>1, <3>2, NoneFree
    <2> QED
      BY <1>4, <2>2 DEF QueuesOK, Distinct
  <1> QED
    BY <1>6, <1>11, <1>16, <1>17

LEMMA CompleteStep ==
  ASSUME TasksInv, NEW t \in Threads, Complete(t)
  PROVE  TasksInv'
  <1>1. /\ Shape /\ StacksOK /\ RecsOK /\ QueuesOK /\ CountsOK /\ GroupsOK /\ BarrierOK
        /\ Top(t) \in FrameT /\ Top(t).tk = Cur(t) /\ Top(t).pc = pc(t) /\ Drops(Top(t))
    BY CurIs
  <1>2. PICK x \in Recs, xs \in SUBSET Tasks, g \in FrameT : CompleteOn(t, x, xs, g)
    BY CompleteIs
  <1>3. /\ x = Cur(t) /\ x \in Tasks /\ x \notin Threads /\ pc(t) = "body" /\ Len(stack[t]) # 1
        /\ rec[x].st = "run" /\ Deferred(x) /\ ~ OpenGroup(x)
        /\ Topped(t, g) /\ g.tk = x /\ g.ctr = <<>> /\ g.drop = <<>> /\ g.pc \in {"children", "notify"}
        /\ g.next = "children" /\ (g.pc = "notify" => g.tell # <<>>)
    BY <1>2 DEF CompleteOn
  <1>4. Released(x)
    BY <1>2 DEF CompleteOn
  <1>5. /\ dq' \in [Threads -> Seq(Tasks)] /\ hq' \in Seq(Tasks) /\ tm' \in Threads \cup {Free}
        /\ grp' = grp /\ base' = base /\ live' = live /\ nwait' = nwait /\ sleepers' = sleepers
        /\ UNCHANGED barVars
        /\ barrived' = barrived /\ bgen' = bgen /\ gen' = gen /\ passed' = passed
    BY <1>2 DEF CompleteOn, barVars
  <1>6. RecsOK' /\ QueuesOK' /\ Below(t) /\ Top(t)' = g /\ Cur(t)' = x /\ pc(t)' = g.pc
    BY <1>2, CompleteRecs
  <1>7. /\ rec' \in [Recs -> RecT]
        /\ \A y \in Recs : /\ SameId(rec[y], rec'[y]) /\ DepRefs(rec'[y]) = DepRefs(rec[y])
                           /\ rec'[y].refs = rec[y].refs /\ rec'[y].children = rec[y].children
                           /\ (y # x => rec'[y].st = rec[y].st)
        /\ rec'[x].st = "over"
    BY <1>4 DEF Released, SameNums, DepRefs
  <1>8. stack'[t] # <<>>
    <2>1. PICK n \in Nat : n = Len(stack[t]) /\ n # 0
      BY <1>1, TopIs
    <2>2. Len(stack'[t]) = n
      BY <1>3, <2>1 DEF Topped
    <2> QED
      BY <2>1, <2>2
  <1>9. Ending(g) /\ InGroup(g)
    BY <1>3 DEF Ending, InGroup
  <1>10. \A y \in Recs : Deferred(y)' <=> Deferred(y)
    BY <1>3, <1>7 DEF Deferred, SameId
  <1>11. OthersCounted(t, x)
    BY <1>3, <1>6, <1>7, <1>10 DEF OthersCounted, SameId
  <1>12. Pending(x) /\ Pending(x)' /\ Unsettled(x) /\ Unsettled(x)' /\ GroupPending(x) /\ GroupPending(x)'
    <2>1. Pending(x) /\ Unsettled(x) /\ GroupPending(x)
      BY <1>3 DEF Pending, Unsettled, GroupPending
    <2>2. Deferred(x)' /\ Ending(Top(t))' /\ InGroup(Top(t))'
      BY <1>3, <1>6, <1>9, <1>10 DEF Ending, InGroup
    <2>3. pc(t)' # "wakeall"
      BY <1>3, <1>6
    <2>4. Pending(x)' /\ GroupPending(x)'
      BY <1>6, <2>2 DEF Pending, GroupPending
    <2>5. Unsettled(x)'
      BY <1>6, <2>2, <2>3 DEF Unsettled
    <2> QED
      BY <2>1, <2>4, <2>5
  <1>13. \A y \in Recs : (Pending(y)' <=> Pending(y)) /\ (GroupPending(y)' <=> GroupPending(y))
    BY <1>1, <1>3, <1>6, <1>11, <1>12, PendingShift
  <1>14. LiveOK'
    BY <1>1, <1>3, <1>5, <1>6, <1>11, <1>12, LiveShift DEF CountsOK
  <1>15. ChildrenOK'
    <2>1. ASSUME NEW p \in Recs
          PROVE  PendingOf(p)' = PendingOf(p)
      <3>1. \A y \in Tasks : rec'[y].parent = rec[y].parent
        BY <1>7, NoneFree DEF SameId
      <3> QED
        BY <1>13, <3>1, NoneFree DEF PendingOf
    <2> QED
      BY <1>1, <1>7, <2>1 DEF CountsOK, ChildrenOK
  <1>16. Top(t).drop = <<>>
    BY <1>1, <1>3 DEF Drops
  <1>17. RefsOK'
    <2>1. ASSUME NEW y \in Recs
          PROVE  Balanced(t, x, y)
      <3>1. PICK a \in Nat : a = Occ(DepRefs(rec[x]), y)
        BY <1>1, DepRefsIs DEF Shape
      <3>2. a = Occ(DepRefs(rec'[x]), y)
        BY <1>7, <3>1
      <3>3. Occ(Top(t).drop, y) = 0 /\ Occ(Top(t)'.drop, y) = 0
        BY <1>3, <1>6, <1>16, OccEmpty
      <3>4. rec[y].refs \in Int /\ rec[y].children \in Int
        BY <1>1 DEF Shape, RecT
      <3> QED
        BY <1>7, <1>13, <3>1, <3>2, <3>3, <3>4, BalancedSame
    <2>2. \A y \in Recs : y # x => DepRefs(rec'[y]) = DepRefs(rec[y])
      BY <1>7
    <2> QED
      BY <1>1, <1>6, <1>7, <1>8, <2>1, <2>2, RefsMove DEF CountsOK
  <1>18. Len(stack[t]) # 1 /\ Len(stack[t]) > 1
    BY <1>1, <1>3, Deeper
  <1>19. EndOK'
    <2>1. rec[t].st = "run"
      BY <1>1, <1>18, BottomRuns
    <2>2. rec'[t].st = "run"
      BY <1>3, <1>7, <2>1, NoneFree
    <2> QED
      BY <2>2 DEF EndOK
  <1>20. SleepOK'
    <2>1. pc(t) \notin SlotPcs \cup TcPcs /\ pc(t)' \notin SlotPcs \cup TcPcs
      BY <1>3, <1>6 DEF SlotPcs, TcPcs
    <2> QED
      BY <1>1, <1>5, <1>6, <2>1, AwakeStep DEF CountsOK
  <1>21. Undisturbed(t, None)
    <2>1. \A y \in Recs \ {Cur(t), None} : Steady(y)
      BY <1>3, <1>7 DEF Steady, SameId
    <2>2. \A y \in Tasks : rec[y].pred = {} /\ ~ Queued(y) => y \notin xs /\ ~ Queued(y)'
      BY <1>2 DEF CompleteOn
    <2>3. \A y \in Tasks : rec[y].pred = {} => rec'[y].pred = {}
      BY <1>4, NoneFree DEF Released
    <2> QED
      BY <1>1, <1>5, <2>1, <2>2, <2>3, NoneNowhere DEF Undisturbed
  <1>22. StacksOK'
    <2>1. Deferred(x)' /\ ~ Static(x)'
      BY <1>3, <1>10 DEF Deferred, Static
    <2>2. Fate(Top(t))'
      BY <1>3, <1>6, <1>7, <2>1 DEF Fate, RunPcs, IdlePcs, TcPcs, WaitPcs
    <2>3. Counts(Top(t))'
      BY <1>3, <1>6 DEF Counts, WaitPcs
    <2>4. Drops(Top(t))'
      BY <1>3, <1>6 DEF Drops
    <2>5. g.pc \notin IdlePcs \cup {"out"}
      BY <1>3 DEF IdlePcs, TcPcs
    <2> QED
      BY <1>3, <1>6, <1>21, <2>1, <2>2, <2>3, <2>4, <2>5, ToppedOK
  <1>23. BarrierOK'
    <2>1. \A y \in Recs : rec[y].st # "none" => rec'[y].epoch = rec[y].epoch /\ (Over(y) => Over(y)')
      BY <1>7 DEF Over, SameId
    <2>2. \A y \in Tasks : rec[y].st = "none" => rec'[y].st = "none"
      BY <1>3, <1>7, NoneFree
    <2> QED
      BY <1>5, <1>6, <1>18, <2>1, <2>2, BarrierStays
  <1>24. GroupsOK'
    <2>1. \A y \in Recs : rec'[y].home = rec[y].home /\ rec'[y].group = rec[y].group
      BY <1>7 DEF SameId
    <2>2. \A y \in Recs : rec[y].st = "run" /\ OpenGroup(y) => rec'[y].st = "run"
      BY <1>3, <1>7
    <2>3. \A s \in Threads : stack'[s][1].pc \in IdlePcs => stack[s][1].pc \in IdlePcs \/ rec[s].group = None
      BY <1>1, <1>6, <1>18, FirstAbove
    <2>4. \A y \in Tasks : rec[y].st = "none" => rec'[y].st = "none"
      BY <1>3, <1>7, NoneFree
    <2> QED
      BY <1>1, <1>5, <1>13, <2>1, <2>2, <2>3, <2>4, NoneFree, GroupsKept
  <1>25. Shape'
    BY <1>1, <1>5, <1>6, <1>7 DEF Shape, Below
  <1> QED
    BY <1>6, <1>14, <1>15, <1>17, <1>19, <1>20, <1>22, <1>23, <1>24, <1>25 DEF TasksInv, CountsOK

=============================================================================
