---------------------------- MODULE OmpTasksInv ----------------------------
(***************************************************************************)
(* The invariant of OmpTasks: what each counter of the task runtime counts, *)
(* and what can be on a thread's stack.  With it lemmas about sequences,    *)
(* stacks and counts, and the steps that only wait or wake, meet at the     *)
(* barrier or start a task.                                                 *)
(***************************************************************************)
EXTENDS OmpTasks, FiniteSetTheorems, SequenceTheorems, WellFoundedInduction, TLAPS

-----------------------------------------------------------------------------
(* Where a frame can be.                                                   *)
WaitPcs == {"wait", "watch", "check", "asleep", "woken"}
SlotPcs == {"check", "asleep", "woken"}
TcPcs   == {"doze", "idle", "roused"}
IdlePcs == {"find", "announce", "retest", "drain"} \cup TcPcs
RunPcs  == {"body", "link", "wake"} \cup IdlePcs
Pcs     == RunPcs \cup WaitPcs \cup
           {"refs", "unref", "notify", "children", "group", "leave", "live", "wakeall", "out"}

Ctrs == {<<>>} \cup ({"children", "npred"} \X Recs) \cup ({"group"} \X Groups)
FrameT == [tk : Recs, pc : Pcs, ctr : Ctrs, tell : Seq(Ctrs),
           next : {"", "children", "group", "unref"}, drop : Seq(Recs)]
RecT == [st : {"none", "wait", "run", "over", "freed"}, inplace : BOOLEAN, kind : Kind,
         final : BOOLEAN, parent : Recs \cup {None}, creator : Recs \cup {None},
         group : Groups \cup {None}, epoch : Nat, children : Int, kids : BOOLEAN,
         refs : Int, mark : Int, pred : SUBSET Tasks, done : BOOLEAN,
         writer : Tasks \cup {None}, readers : Seq(Tasks),
         within : Groups \cup {None}, home : Groups \cup {None}]
GrpT == [st : {"none", "open", "freed"}, parent : Groups \cup {None}, count : Int,
         owner : Recs \cup {None}]

Shape ==
  /\ rec \in [Recs -> RecT]
  /\ grp \in [Groups -> GrpT]
  /\ stack \in [Threads -> Seq(FrameT)]
  /\ dq \in [Threads -> Seq(Tasks)] /\ base \in [Threads -> Nat] /\ hq \in Seq(Tasks)
  /\ live \in Int /\ nwait \in Int /\ sleepers \in Int
  /\ tm \in Threads \cup {Free}
  /\ barrived \in Int /\ bgen \in Nat
  /\ gen \in [Threads -> Nat] /\ passed \in [Threads -> Nat]
-----------------------------------------------------------------------------
(* The stacks.                                                             *)
Deferred(x) == x \in Tasks /\ rec[x].st # "none" /\ ~ rec[x].inplace

Queued(x) ==
  (\E t \in Threads : \E i \in DOMAIN dq[t] : dq[t][i] = x) \/ (\E i \in DOMAIN hq : hq[i] = x)

\* What a frame at position i of n can be at.
Placed(t, i) ==
  LET f == stack[t][i] IN
  /\ IF i = 1 THEN f.tk = t ELSE f.tk \in Tasks /\ f.pc \notin IdlePcs \cup {"out"}
  /\ i < Len(stack[t]) => f.pc \in {"wait", "body", "retest", "drain"}
  /\ i = 2 /\ stack[t][1].pc \in IdlePcs => Deferred(f.tk)

\* The state of the task of a frame.
Fate(f) ==
  LET r == rec[f.tk] IN
  /\ f.pc \in RunPcs => r.st = "run"
  /\ f.pc \in WaitPcs =>
       r.st = "run" \/ (r.st = "over" /\ r.inplace /\ f.ctr = <<"children", f.tk>>)
  /\ f.pc = "refs" => r.st = "over" /\ r.inplace
  /\ f.pc \in {"notify", "children", "group"} => r.st = "over" /\ Deferred(f.tk)
  /\ f.pc = "unref" => r.st \in {"run", "over"} \/ (r.st = "freed" /\ Deferred(f.tk))
  /\ f.pc = "leave" => r.st = "over" /\ Static(f.tk)
  /\ f.pc \in {"live", "wakeall"} => r.st \in {"over", "freed"} /\ Deferred(f.tk)
  /\ f.pc = "out" => r.st = "freed"

\* x is a task its creator, that of frame f, waits for before it goes on.
Awaited(f, x) == rec[x].parent = f.tk /\ rec[x].st = "wait" /\ rec[f.tk].st = "run"

\* The counter of a frame.
Counts(f) ==
  /\ f.pc \in WaitPcs =>
       \/ f.ctr = <<"children", f.tk>>
       \/ \E g \in Groups : /\ f.ctr = <<"group", g>> /\ rec[f.tk].group = g
                            /\ grp[g].owner = f.tk /\ rec[f.tk].st = "run"
       \/ \E x \in Tasks : f.ctr = <<"npred", x>> /\ Awaited(f, x) /\ rec[x].kind.if0
  /\ f.pc = "unref" =>
       \/ f.ctr = <<>>
       \/ \E x \in Tasks : f.ctr = <<"npred", x>> /\ Awaited(f, x) /\ rec[x].kind.if0
  /\ f.pc = "link" =>
       \E x \in Tasks : /\ f.ctr = <<"npred", x>> /\ Awaited(f, x)
                        /\ rec[x].pred = {} /\ ~ Queued(x)
                        /\ rec[x].kind.if0 => Tracked(x)
  /\ f.pc \notin WaitPcs \cup {"unref", "link"} => f.ctr = <<>>

\* The references a frame has yet to drop.
Drops(f) ==
  /\ f.pc \notin {"notify", "group", "unref"} => f.drop = <<>>
  /\ f.pc = "notify" => /\ f.tell # <<>> /\ f.next \in {"children", "group", "unref"}
                        /\ f.next = "children" => f.drop = <<>>
  /\ (f.pc = "notify" /\ f.next # "children") \/ f.pc = "group" => f.drop = Dropped(f.tk)
  /\ (f.pc = "notify" /\ f.next = "group") \/ f.pc = "group" => rec[f.tk].group # None
  /\ f.pc = "unref" =>
       /\ f.drop # <<>>
       /\ rec[f.tk].st = "run" \/ Static(f.tk) => f.drop \in Seq(Tasks)

FrameOK(t, i) ==
  Placed(t, i) /\ Fate(stack[t][i]) /\ Counts(stack[t][i]) /\ Drops(stack[t][i])

Unique ==
  \A t, s \in Threads : \A i \in DOMAIN stack[t], j \in DOMAIN stack[s] :
    stack[t][i].tk = stack[s][j].tk => t = s /\ i = j

StacksOK ==
  /\ \A t \in Threads : stack[t] # <<>> /\ \A i \in DOMAIN stack[t] : FrameOK(t, i)
  /\ Unique

OnStack(x) == \E t \in Threads : \E i \in DOMAIN stack[t] : stack[t][i].tk = x
-----------------------------------------------------------------------------
(* The records.                                                            *)
Born(x) ==
  IF x \in Threads
  THEN /\ ~ rec[x].inplace /\ ~ rec[x].final /\ rec[x].home = None /\ rec[x].within = None
       /\ rec[x].st \in {"run", "over", "freed"} /\ rec[x].pred = {} /\ rec[x].kind = NoKind
       /\ rec[x].parent = None
  ELSE IF rec[x].st = "none" THEN rec[x] = NoRec
  ELSE /\ rec[x].creator \in Recs /\ (rec[x].creator \in Tasks => rec[x].creator < x)
       /\ \A y \in Tasks : y < x => rec[y].st # "none"
       /\ IF rec[x].inplace THEN rec[x].parent = None /\ rec[x].st # "wait" /\ rec[x].home = None
          ELSE rec[x].parent = rec[x].creator
       /\ rec[x].st = "run" \/ (rec[x].inplace /\ rec[x].st = "over") => OnStack(x)
       /\ Deferred(x) /\ Tracked(x) => (rec[x].done <=> Over(x))
       /\ ~ (Deferred(x) /\ Tracked(x)) => ~ rec[x].done

\* A task waits for siblings that are not done.
Waits4(x) ==
  \A y \in rec[x].pred :
    /\ rec[x].st = "wait" /\ ~ Queued(x) /\ Tracked(x)
    /\ Deferred(y) /\ Tracked(y) /\ ~ rec[y].done /\ rec[y].parent = rec[x].parent

\* What an entry names has been linked by a child.
Entry(x) ==
  \A i \in DOMAIN DepRefs(rec[x]) :
    LET y == DepRefs(rec[x])[i] IN
    /\ Deferred(y) /\ Tracked(y) /\ rec[y].parent = x
    /\ \A t \in Threads : pc(t) = "link" => Linked(t) # y

\* A record that is gone, or about to go, is referred to by nobody.
Gone(x) ==
  /\ rec[x].st = "freed" => rec[x].refs = 0 /\ DepRefs(rec[x]) = <<>>
  /\ rec[x].st = "over" /\ Static(x) /\ (\E t \in Threads : Cur(t) = x /\ pc(t) \in {"unref", "leave"})
       => rec[x].refs = 0 /\ DepRefs(rec[x]) = <<>>
  /\ Static(x) /\ ~ rec[x].kids => rec[x].refs = 0 /\ DepRefs(rec[x]) = <<>>
  /\ Deferred(x) /\ rec[x].st # "freed" => rec[x].refs > 0

RecsOK == \A x \in Recs : Born(x) /\ Waits4(x) /\ Entry(x) /\ Gone(x)

QueuesOK ==
  /\ \A x \in Tasks : Queued(x) => rec[x].st = "wait" /\ rec[x].pred = {} /\ ~ rec[x].kind.if0
  /\ \A t, s \in Threads : \A i \in DOMAIN dq[t], j \in DOMAIN dq[s] :
       dq[t][i] = dq[s][j] => t = s /\ i = j
  /\ \A i, j \in DOMAIN hq : hq[i] = hq[j] => i = j
  /\ \A t \in Threads : \A i \in DOMAIN dq[t], j \in DOMAIN hq : dq[t][i] # hq[j]
-----------------------------------------------------------------------------
(* The counters.                                                           *)
Ending(f) == f.pc = "children" \/ (f.pc = "notify" /\ f.next = "children")
\* The task has not been taken off the count of its parent ...
Pending(x) ==
  /\ Deferred(x)
  /\ rec[x].st \in {"wait", "run"} \/ \E t \in Threads : Cur(t) = x /\ Ending(Top(t))
\* ... or of its group ...
InGroup(f) == Ending(f) \/ f.pc = "group" \/ (f.pc = "notify" /\ f.next = "group")
GroupPending(x) ==
  /\ Deferred(x)
  /\ rec[x].st \in {"wait", "run"} \/ \E t \in Threads : Cur(t) = x /\ InGroup(Top(t))
\* ... or of the team.
Unsettled(x) ==
  /\ Deferred(x)
  /\ rec[x].st \in {"wait", "run"} \/ \E t \in Threads : Cur(t) = x /\ pc(t) # "wakeall"

\* The places of a family of lists where x is named.
Mentions(L, x) == UNION {{h} \X {j \in DOMAIN L[h] : L[h][j] = x} : h \in DOMAIN L}
Entries  == [x \in Recs |-> DepRefs(rec[x])]
Dropping == [t \in Threads |-> Top(t).drop]

PendingOf(p) == {y \in Tasks : Pending(y) /\ rec[y].parent = p}
ChildrenOK == \A x \in Recs : rec[x].children = Cardinality(PendingOf(x))
RefsOK ==
  \A x \in Recs :
    rec[x].refs = (IF Pending(x) THEN 1 ELSE 0) + rec[x].children
                  + Cardinality(Mentions(Entries, x)) + Cardinality(Mentions(Dropping, x))
LiveOK == live = Cardinality({x \in Tasks : Unsettled(x)})
SleepOK ==
  /\ nwait = Cardinality({t \in Threads : pc(t) \in SlotPcs})
  /\ sleepers = Cardinality({t \in Threads : pc(t) \in TcPcs})
EndOK == (\A t \in Threads : rec[t].st # "run") => live = 0

CountsOK == ChildrenOK /\ RefsOK /\ LiveOK /\ SleepOK /\ EndOK

\* The taskgroups a task has open are nested, the current one innermost; a
\* thread at a barrier or at the end of the region has none.
Nested ==
  /\ \A g \in Groups : grp[g].st # "none" /\ grp[g].parent # None => grp[g].parent < g
  /\ \A g \in Groups : grp[g].st = "open" =>
       /\ OpenGroup(grp[g].owner) /\ rec[grp[g].owner].st = "run"
       /\ g <= rec[grp[g].owner].group
  /\ \A g, h \in Groups :
       /\ grp[g].st = "open" /\ grp[h].st = "open" /\ grp[g].owner = grp[h].owner /\ h < g
       => /\ grp[g].parent # None /\ grp[grp[g].parent].owner = grp[g].owner
          /\ h <= grp[g].parent
  /\ \A t \in Threads : stack[t][1].pc \in IdlePcs => rec[t].group = None

GroupsOK ==
  /\ \A x \in Recs : rec[x].group = rec[x].home
                     \/ (rec[x].group # None /\ grp[rec[x].group].owner = x /\ rec[x].st = "run"
                         /\ grp[rec[x].group].st = "open")
  /\ \A x \in Tasks : rec[x].st # "none" /\ rec[x].home # None => grp[rec[x].home].st # "none"
  /\ \A g \in Groups :
       IF grp[g].st = "none" THEN grp[g].count = 0
       ELSE /\ grp[g].owner \in Recs
            /\ grp[g].st = "open" =>
                 \/ grp[g].parent = rec[grp[g].owner].home
                 \/ grp[g].parent # None /\ grp[grp[g].parent].owner = grp[g].owner
            /\ grp[g].st = "open" /\ grp[g].parent # None
                 => grp[grp[g].parent].st = "open"
            /\ grp[g].count = Cardinality({x \in Tasks : GroupPending(x) /\ rec[x].home = g})
            /\ grp[g].st = "freed" => grp[g].count = 0
  /\ Nested

-----------------------------------------------------------------------------
(* The barrier.                                                            *)
InBarrier(t) == stack[t][1].pc \in IdlePcs /\ AtBarrier(t)
BarrierOK ==
  /\ \A t \in Threads :
       /\ passed[t] <= Barriers /\ rec[t].epoch = passed[t]
       /\ IF InBarrier(t) THEN gen[t] = passed[t] /\ passed[t] \in {bgen, bgen - 1}
          ELSE passed[t] = bgen
       /\ stack[t][1].pc = "retest" => AtBarrier(t)
       /\ stack[t][1].pc = "drain" => ~ AtBarrier(t)
  /\ barrived = Cardinality({t \in Threads : InBarrier(t) /\ gen[t] = bgen})
  /\ \A x \in Tasks : rec[x].st # "none" /\ rec[x].epoch < bgen => Over(x)

TasksInv ==
  Shape /\ StacksOK /\ RecsOK /\ QueuesOK /\ CountsOK /\ GroupsOK /\ BarrierOK
-----------------------------------------------------------------------------
(* Lists.                                                                  *)
LEMMA FrontIs ==
  ASSUME NEW S, NEW s \in Seq(S), s # <<>>
  PROVE  /\ Len(s) \in Nat \ {0} /\ Last(s) \in S /\ Last(s) = s[Len(s)]
         /\ Front(s) \in Seq(S) /\ Len(Front(s)) = Len(s) - 1
         /\ \A i \in 1 .. Len(s) - 1 : Front(s)[i] = s[i]
  <1>1. Len(s) \in Nat \ {0} /\ Last(s) = s[Len(s)] /\ \A i \in 1 .. Len(s) : s[i] \in S
    BY ElementOfSeq, LenProperties, EmptySeq DEF Last
  <1>2. \A i \in 1 .. Len(s) - 1 : s[i] \in S
    BY <1>1
  <1>3. /\ Front(s) \in Seq(S) /\ Len(Front(s)) = IF 1 <= Len(s) - 1 THEN Len(s) - 1 - 1 + 1 ELSE 0
        /\ \A i \in 1 .. (Len(s) - 1) - 1 + 1 : Front(s)[i] = s[1 + i - 1]
    BY <1>1, <1>2, SubSeqProperties DEF Front
  <1>4. Len(Front(s)) = Len(s) - 1
    <2>1. PICK n \in Nat : n = Len(s) /\ n # 0
      BY <1>1
    <2>2. Len(Front(s)) = IF 1 <= n - 1 THEN n - 1 - 1 + 1 ELSE 0
      BY <1>3, <2>1
    <2>3. Len(Front(s)) = n - 1
      BY <2>1, <2>2
    <2> QED
      BY <2>1, <2>3
  <1>5. \A i \in 1 .. Len(s) - 1 : i \in 1 .. (Len(s) - 1) - 1 + 1 /\ 1 + i - 1 = i
    BY <1>1
  <1>6. \A i \in 1 .. Len(s) - 1 : Front(s)[i] = s[i]
    BY <1>3, <1>5
  <1>7. Len(s) \in 1 .. Len(s)
    BY <1>1
  <1> QED
    BY <1>1, <1>3, <1>4, <1>6, <1>7

LEMMA RetoppedIs ==
  ASSUME NEW S, NEW s \in Seq(S), s # <<>>, NEW f \in S
  PROVE  LET u == Append(Front(s), f) IN
         /\ u \in Seq(S) /\ Len(u) = Len(s) /\ u[Len(s)] = f
         /\ \A i \in 1 .. Len(s) - 1 : u[i] = s[i]
  <1>1. /\ Len(s) \in Nat \ {0} /\ Front(s) \in Seq(S) /\ Len(Front(s)) = Len(s) - 1
        /\ \A i \in 1 .. Len(s) - 1 : Front(s)[i] = s[i]
    BY FrontIs
  <1> QED
    BY <1>1

LEMMA PushedIs ==
  ASSUME NEW S, NEW s \in Seq(S), s # <<>>, NEW f \in S, NEW g \in S
  PROVE  LET u == Append(Append(Front(s), f), g) IN
         /\ u \in Seq(S) /\ Len(u) = Len(s) + 1 /\ u[Len(s)] = f /\ u[Len(s) + 1] = g
         /\ \A i \in 1 .. Len(s) - 1 : u[i] = s[i]
  <1> DEFINE v == Append(Front(s), f)
  <1>1. /\ v \in Seq(S) /\ Len(v) = Len(s) /\ v[Len(s)] = f
        /\ \A i \in 1 .. Len(s) - 1 : v[i] = s[i]
    BY RetoppedIs
  <1>2. Len(s) \in Nat \ {0}
    BY FrontIs
  <1> HIDE DEF v
  <1>3. LET u == Append(v, g) IN
         /\ u \in Seq(S) /\ Len(u) = Len(s) + 1 /\ u[Len(s)] = f /\ u[Len(s) + 1] = g
         /\ \A i \in 1 .. Len(s) - 1 : u[i] = s[i]
    BY <1>1, <1>2
  <1> QED
    BY <1>3 DEF v

(* What a step of t does to the stacks: another thread may be woken, and t's  *)
(* frames below its innermost one stay.                                      *)
Woken(f, g) ==
  \/ g = f
  \/ f.pc = "idle" /\ g = [f EXCEPT !.pc = "roused"]
  \/ f.pc = "asleep" /\ g = [f EXCEPT !.pc = "woken"]

Others(t) ==
  \A s \in Threads \ {t} :
    /\ Len(stack'[s]) = Len(stack[s])
    /\ \A i \in 1 .. Len(stack[s]) - 1 : stack'[s][i] = stack[s][i]
    /\ Woken(stack[s][Len(stack[s])], stack'[s][Len(stack[s])])

Below(t) ==
  /\ stack' \in [Threads -> Seq(FrameT)]
  /\ Others(t)
  /\ \A i \in 1 .. Len(stack[t]) - 1 : stack'[t][i] = stack[t][i]

Topped(t, f) ==
  Below(t) /\ Len(stack'[t]) = Len(stack[t]) /\ stack'[t][Len(stack[t])] = f
Pushed(t, f, g) ==
  /\ Below(t) /\ Len(stack'[t]) = Len(stack[t]) + 1
  /\ stack'[t][Len(stack[t])] = f /\ stack'[t][Len(stack[t]) + 1] = g
Popped(t) ==
  Below(t) /\ Len(stack'[t]) = Len(stack[t]) - 1

LEMMA TopIs ==
  ASSUME Shape, StacksOK, NEW t \in Threads
  PROVE  /\ stack[t] \in Seq(FrameT) /\ Len(stack[t]) \in Nat \ {0} /\ stack[t] # <<>>
         /\ Top(t) = stack[t][Len(stack[t])] /\ Top(t) \in FrameT
         /\ Len(stack[t]) \in DOMAIN stack[t] /\ DOMAIN stack[t] = 1 .. Len(stack[t])
         /\ FrameOK(t, Len(stack[t])) /\ Cur(t) \in Recs /\ pc(t) \in Pcs
  <1>1. stack[t] \in Seq(FrameT) /\ stack[t] # <<>>
    BY DEF Shape, StacksOK
  <1>2. Len(stack[t]) \in Nat \ {0} /\ Top(t) = stack[t][Len(stack[t])] /\ Top(t) \in FrameT
    BY <1>1, FrontIs DEF Top
  <1>3. Len(stack[t]) \in DOMAIN stack[t] /\ DOMAIN stack[t] = 1 .. Len(stack[t])
    BY <1>1, <1>2
  <1>4. Cur(t) \in Recs /\ pc(t) \in Pcs
    BY <1>2 DEF Cur, pc, FrameT
  <1> QED
    BY <1>1, <1>2, <1>3, <1>4 DEF StacksOK

LEMMA RetopStep ==
  ASSUME Shape, StacksOK, NEW t \in Threads, NEW f \in FrameT
  PROVE  /\ WithTop(t, f) \in [Threads -> Seq(FrameT)]
         /\ WithTop(t, f)[t] \in Seq(FrameT) /\ Len(WithTop(t, f)[t]) = Len(stack[t])
         /\ WithTop(t, f)[t][Len(stack[t])] = f
         /\ \A i \in 1 .. Len(stack[t]) - 1 : WithTop(t, f)[t][i] = stack[t][i]
         /\ \A s \in Threads \ {t} : WithTop(t, f)[s] = stack[s]
  <1> DEFINE u == Append(Front(stack[t]), f)
  <1>1. stack \in [Threads -> Seq(FrameT)] /\ stack[t] \in Seq(FrameT) /\ stack[t] # <<>>
    BY TopIs DEF Shape
  <1>2. /\ u \in Seq(FrameT) /\ Len(u) = Len(stack[t]) /\ u[Len(stack[t])] = f
        /\ \A i \in 1 .. Len(stack[t]) - 1 : u[i] = stack[t][i]
    BY <1>1, RetoppedIs
  <1>3. WithTop(t, f) = [stack EXCEPT ![t] = u]
    BY DEF WithTop
  <1> HIDE DEF u
  <1> QED
    BY <1>1, <1>2, <1>3

LEMMA SetTopStep ==
  ASSUME Shape, StacksOK, NEW t \in Threads, NEW f \in FrameT, SetTop(t, f)
  PROVE  Topped(t, f)
  <1>1. stack' = WithTop(t, f)
    BY DEF SetTop
  <1>2. Others(t)
    <2>1. \A s \in Threads \ {t} : stack'[s] = stack[s]
      BY <1>1, RetopStep
    <2> QED
      BY <2>1 DEF Others, Woken
  <1> QED
    BY <1>1, <1>2, RetopStep DEF Topped, Below

\* The list v is u, but for the pc of its last frame if it is roused.
Differ(u, v, roused, to) ==
  /\ v \in Seq(FrameT) /\ v # <<>> /\ Len(v) = Len(u)
  /\ ~ roused => v = u
  /\ \A i \in 1 .. Len(u) - 1 : v[i] = u[i]
  /\ roused => v[Len(u)] = [u[Len(u)] EXCEPT !.pc = to]

LEMMA RouseIs ==
  ASSUME NEW st \in [Threads -> Seq(FrameT)], NEW ts, NEW to \in Pcs,
         \A s \in Threads : st[s] # <<>>
  PROVE  /\ Rouse(st, ts, to) \in [Threads -> Seq(FrameT)]
         /\ \A s \in Threads : Differ(st[s], Rouse(st, ts, to)[s], s \in ts, to)
  <1> DEFINE u(s) == [st[s] EXCEPT ![Len(st[s])].pc = to]
  <1>1. ASSUME NEW s \in Threads
        PROVE  /\ u(s) \in Seq(FrameT) /\ u(s) # <<>> /\ Len(u(s)) = Len(st[s])
               /\ \A i \in 1 .. Len(st[s]) - 1 : u(s)[i] = st[s][i]
               /\ u(s)[Len(st[s])] = [st[s][Len(st[s])] EXCEPT !.pc = to]
    <2> DEFINE q == st[s]
               n == Len(q)
               e == [q[n] EXCEPT !.pc = to]
    <2>1. q \in Seq(FrameT) /\ n \in Nat \ {0} /\ n \in 1 .. n /\ q[n] \in FrameT
      BY <1>1, EmptySeq, ElementOfSeq
    <2>2. e \in FrameT
      BY <2>1 DEF FrameT
    <2>3. u(s) = [q EXCEPT ![n] = e]
      OBVIOUS
    <2> HIDE DEF q, n, e, u
    <2>4. /\ u(s) \in Seq(FrameT) /\ Len(u(s)) = Len(q)
          /\ \A j \in 1 .. Len(q) : u(s)[j] = IF j = n THEN e ELSE q[j]
      BY <2>1, <2>2, <2>3, ExceptSeq DEF n
    <2>5. u(s) # <<>>
      BY <2>1, <2>4, EmptySeq DEF n
    <2>6. \A i \in 1 .. n - 1 : i \in 1 .. Len(q) /\ i # n
      BY <2>1 DEF n
    <2>7. \A i \in 1 .. n - 1 : u(s)[i] = q[i]
      BY <2>4, <2>6
    <2> QED
      BY <2>1, <2>4, <2>5, <2>7 DEF q, n, e
  <1>2. Rouse(st, ts, to) = [s \in Threads |-> IF s \in ts THEN u(s) ELSE st[s]]
    BY DEF Rouse
  <1> HIDE DEF u
  <1>3. Rouse(st, ts, to) \in [Threads -> Seq(FrameT)]
    BY <1>1, <1>2
  <1>4. ASSUME NEW s \in Threads
        PROVE  Differ(st[s], Rouse(st, ts, to)[s], s \in ts, to)
    <2>1. CASE s \in ts
      BY <1>1, <1>2, <2>1 DEF Differ
    <2>2. CASE s \notin ts
      BY <1>2, <2>2 DEF Differ
    <2> QED
      BY <2>1, <2>2
  <1> QED
    BY <1>3, <1>4

LEMMA RouseNone ==
  ASSUME NEW st \in [Threads -> Seq(FrameT)], NEW to
  PROVE  Rouse(st, {}, to) = st
  BY DEF Rouse

\* A wake-up of idle threads and of waiters, in this order.
LEMMA RousedOthers ==
  ASSUME Shape, StacksOK, NEW t \in Threads,
         NEW st \in [Threads -> Seq(FrameT)], st[t] # <<>>,
         \A s \in Threads \ {t} : st[s] = stack[s],
         NEW A \in SUBSET OnTc, t \notin A, NEW B \in SUBSET OnSlot, t \notin B,
         stack' = Rouse(Rouse(st, A, "roused"), B, "woken")
  PROVE  stack' \in [Threads -> Seq(FrameT)] /\ Others(t) /\ stack'[t] = st[t]
  <1> DEFINE u == Rouse(st, A, "roused")
  <1>1. \A s \in Threads : st[s] # <<>>
    BY TopIs
  <1>2. "roused" \in Pcs /\ "woken" \in Pcs
    BY DEF Pcs, RunPcs, IdlePcs, TcPcs, WaitPcs
  <1>3. /\ u \in [Threads -> Seq(FrameT)]
        /\ \A s \in Threads : Differ(st[s], u[s], s \in A, "roused")
    BY <1>1, <1>2, RouseIs
  <1>10. \A s \in Threads : u[s] # <<>>
    BY <1>3 DEF Differ
  <1>4. stack' = Rouse(u, B, "woken")
    OBVIOUS
  <1> HIDE DEF u
  <1>5. /\ stack' \in [Threads -> Seq(FrameT)]
        /\ \A s \in Threads : Differ(u[s], stack'[s], s \in B, "woken")
    <2>1. u \in [Threads -> Seq(FrameT)]
      BY <1>3
    <2>2. /\ Rouse(u, B, "woken") \in [Threads -> Seq(FrameT)]
          /\ \A s \in Threads : Differ(u[s], Rouse(u, B, "woken")[s], s \in B, "woken")
      BY <1>2, <1>10, <2>1, RouseIs
    <2> QED
      BY <1>4, <2>2
  <1>6. ASSUME NEW s \in Threads \ {t} PROVE Differ(stack[s], u[s], s \in A, "roused")
    BY <1>3
  <1>7. stack'[t] = st[t]
    <2>1. Differ(st[t], u[t], t \in A, "roused") /\ Differ(u[t], stack'[t], t \in B, "woken")
      BY <1>3, <1>5
    <2> QED
      BY <2>1 DEF Differ
  <1>8. ASSUME NEW s \in Threads \ {t} PROVE Differ(u[s], stack'[s], s \in B, "woken")
    BY <1>5
  <1>9. ASSUME NEW s \in Threads \ {t}
        PROVE  /\ Len(stack'[s]) = Len(stack[s])
               /\ \A i \in 1 .. Len(stack[s]) - 1 : stack'[s][i] = stack[s][i]
               /\ Woken(stack[s][Len(stack[s])], stack'[s][Len(stack[s])])
    <2>1. Top(s) = stack[s][Len(stack[s])]
      BY TopIs
    <2>2. s \in A => Top(s).pc = "idle"
      BY DEF OnTc, pc
    <2>3. s \in B => Top(s).pc = "asleep"
      BY DEF OnSlot, pc
    <2>4. Len(stack'[s]) = Len(stack[s]) /\ \A i \in 1 .. Len(stack[s]) - 1 : stack'[s][i] = stack[s][i]
      <3>1. Differ(stack[s], u[s], s \in A, "roused") /\ Differ(u[s], stack'[s], s \in B, "woken")
        BY <1>6, <1>8
      <3>2. Len(u[s]) = Len(stack[s]) /\ Len(stack'[s]) = Len(u[s])
        BY <3>1 DEF Differ
      <3>3. ASSUME NEW i \in 1 .. Len(stack[s]) - 1 PROVE stack'[s][i] = stack[s][i]
        <4>1. u[s][i] = stack[s][i]
          BY <3>1, <3>3 DEF Differ
        <4>2. stack'[s][i] = u[s][i]
          BY <3>1, <3>2, <3>3 DEF Differ
        <4> QED
          BY <4>1, <4>2
      <3> QED
        BY <3>2, <3>3
    <2>10. s \in A => s \notin B
      BY <2>2, <2>3
    <2>5. CASE s \in A
      BY <1>6, <1>8, <2>1, <2>2, <2>3, <2>4, <2>5 DEF Woken, Differ
    <2>6. CASE s \in B
      BY <1>6, <1>8, <2>1, <2>2, <2>3, <2>4, <2>6 DEF Woken, Differ
    <2>7. CASE s \notin A /\ s \notin B
      BY <1>6, <1>8, <2>4, <2>7 DEF Woken, Differ
    <2> QED
      BY <2>5, <2>6, <2>7
  <1> QED
    BY <1>5, <1>7, <1>9 DEF Others
-----------------------------------------------------------------------------
(* The frames a step of t leaves as they are, or only wakes.               *)
Old(t, s, i) == s # t \/ i < Len(stack[t])

LEMMA OldFrames ==
  ASSUME Shape, StacksOK, NEW t \in Threads, Below(t), NEW s \in Threads,
         NEW i \in DOMAIN stack'[s], Old(t, s, i)
  PROVE  /\ i \in DOMAIN stack[s] /\ i \in Nat /\ i > 0
         /\ Woken(stack[s][i], stack'[s][i])
         /\ i < Len(stack[s]) => stack'[s][i] = stack[s][i]
         /\ s # t => Len(stack'[s]) = Len(stack[s])
  <1>1. stack'[s] \in Seq(FrameT) /\ stack[s] \in Seq(FrameT) /\ Len(stack[s]) \in Nat \ {0}
    BY TopIs DEF Below
  <1>2. DOMAIN stack'[s] = 1 .. Len(stack'[s]) /\ DOMAIN stack[s] = 1 .. Len(stack[s])
    BY <1>1, LenProperties
  <1>3. CASE s # t
    <2>1. /\ Len(stack'[s]) = Len(stack[s])
          /\ \A j \in 1 .. Len(stack[s]) - 1 : stack'[s][j] = stack[s][j]
          /\ Woken(stack[s][Len(stack[s])], stack'[s][Len(stack[s])])
      BY <1>3 DEF Below, Others
    <2>2. i \in 1 .. Len(stack[s])
      BY <1>2, <2>1
    <2>3. i = Len(stack[s]) \/ i \in 1 .. Len(stack[s]) - 1
      BY <1>1, <2>2
    <2>4. i \in 1 .. Len(stack[s]) - 1 => Woken(stack[s][i], stack'[s][i])
      BY <2>1 DEF Woken
    <2>5. i < Len(stack[s]) => i \in 1 .. Len(stack[s]) - 1
      BY <1>1, <2>2
    <2>6. i \in Nat /\ i > 0
      BY <1>1, <2>2
    <2> QED
      BY <1>2, <2>1, <2>2, <2>3, <2>4, <2>5, <2>6
  <1>4. CASE s = t
    <2>1. i \in 1 .. Len(stack[t]) - 1 /\ i \in 1 .. Len(stack[t]) /\ i \in Nat /\ i > 0
      BY <1>1, <1>2, <1>4 DEF Old
    <2>2. stack'[t][i] = stack[t][i]
      BY <2>1 DEF Below
    <2> QED
      BY <1>2, <1>4, <2>1, <2>2 DEF Woken
  <1> QED
    BY <1>3, <1>4

LEMMA WokenIs ==
  ASSUME NEW f \in FrameT, NEW g, Woken(f, g)
  PROVE  /\ g \in FrameT
         /\ g.tk = f.tk /\ g.ctr = f.ctr /\ g.drop = f.drop /\ g.tell = f.tell /\ g.next = f.next
         /\ \/ g.pc = f.pc
            \/ f.pc = "idle" /\ g.pc = "roused"
            \/ f.pc = "asleep" /\ g.pc = "woken"
  <1>1. CASE g = f
    BY <1>1
  <1>2. CASE f.pc = "idle" /\ g = [f EXCEPT !.pc = "roused"]
    BY <1>2 DEF FrameT, Pcs, RunPcs, IdlePcs, TcPcs
  <1>3. CASE f.pc = "asleep" /\ g = [f EXCEPT !.pc = "woken"]
    BY <1>3 DEF FrameT, Pcs, WaitPcs
  <1> QED
    BY <1>1, <1>2, <1>3 DEF Woken

(* Every record but that of t's innermost task, and e, stays what it is.     *)
Steady(y) ==
  /\ rec'[y].inplace = rec[y].inplace /\ rec'[y].kind = rec[y].kind
  /\ rec'[y].parent = rec[y].parent /\ rec'[y].group = rec[y].group
  /\ \/ rec'[y].st = rec[y].st
     \/ /\ rec[y].st = "over" /\ rec'[y].st = "freed" /\ Deferred(y)
        /\ \A s \in Threads : Cur(s) = y => pc(s) \in {"unref", "live", "wakeall"}

Undisturbed(t, e) ==
  /\ \A y \in Recs \ {Cur(t), e} : rec[y].st # "none" => Steady(y)
  /\ \A y \in Tasks \ {e} :
       rec[y].pred = {} /\ ~ Queued(y) /\ rec[y].st = "wait" /\ rec[y].parent # Cur(t)
         => rec'[y].pred = {} /\ ~ Queued(y)'
  /\ \A g \in Groups : grp[g].st # "none" => grp'[g].owner = grp[g].owner
  /\ \A s \in Threads : \A i \in DOMAIN stack[s] :
       Old(t, s, i) => stack[s][i].tk # e /\ stack[s][i].ctr # <<"npred", e>>

LEMMA PcSets ==
  /\ "idle" \in RunPcs /\ "roused" \in RunPcs /\ "idle" \in IdlePcs /\ "roused" \in IdlePcs
  /\ "asleep" \in WaitPcs /\ "woken" \in WaitPcs /\ WaitPcs \cap RunPcs = {}
  /\ "asleep" \notin IdlePcs /\ "woken" \notin IdlePcs
  BY DEF RunPcs, IdlePcs, TcPcs, WaitPcs

LEMMA FrameBorn ==
  ASSUME NEW f \in FrameT, Fate(f)
  PROVE  rec[f.tk].st \in {"run", "over", "freed"}
  <1>1. f.pc \in Pcs
    BY DEF FrameT
  <1> QED
    BY <1>1 DEF Fate, Pcs

LEMMA FateKept ==
  ASSUME NEW s \in Threads, NEW i, stack[s][i] \in FrameT, Fate(stack[s][i]),
         Woken(stack[s][i], stack'[s][i]),
         rec'[stack[s][i].tk].inplace = rec[stack[s][i].tk].inplace,
         \/ rec'[stack[s][i].tk].st = rec[stack[s][i].tk].st
         \/ /\ rec[stack[s][i].tk].st = "over" /\ rec'[stack[s][i].tk].st = "freed"
            /\ Deferred(stack[s][i].tk)
            /\ stack[s][i].pc \in {"unref", "live", "wakeall"}
  PROVE  Fate(stack[s][i])'
  <1> DEFINE f == stack[s][i]
             g == stack'[s][i]
             x == f.tk
  <1>1. /\ g.tk = x /\ g.ctr = f.ctr
        /\ g.pc = f.pc \/ (f.pc = "idle" /\ g.pc = "roused") \/ (f.pc = "asleep" /\ g.pc = "woken")
    BY WokenIs
  <1>2. Deferred(x) => Deferred(f.tk)'
    BY <1>1 DEF Deferred
  <1>3. Static(x) => Static(f.tk)'
    BY <1>1 DEF Static
  <1>4. /\ g.pc \in RunPcs => f.pc \in RunPcs
        /\ g.pc \in WaitPcs => f.pc \in WaitPcs
        /\ g.pc \notin RunPcs \cup WaitPcs => g.pc = f.pc
    BY <1>1, PcSets
  <1>5. CASE g.pc \in RunPcs
    BY <1>1, <1>4, <1>5 DEF Fate, RunPcs, IdlePcs, TcPcs, WaitPcs
  <1>6. CASE g.pc \in WaitPcs
    BY <1>1, <1>4, <1>6 DEF Fate, RunPcs, IdlePcs, TcPcs, WaitPcs
  <1>7. CASE g.pc \notin RunPcs \cup WaitPcs
    <2>1. g.pc = f.pc /\ f.pc \notin RunPcs \cup WaitPcs
      BY <1>4, <1>7
    <2> QED
      BY <1>1, <1>2, <1>3, <2>1 DEF Fate
  <1> QED
    BY <1>5, <1>6, <1>7

LEMMA CountsKept ==
  ASSUME NEW s \in Threads, NEW i, stack[s][i] \in FrameT, Counts(stack[s][i]),
         Woken(stack[s][i], stack'[s][i]),
         rec'[stack[s][i].tk].group = rec[stack[s][i].tk].group,
         rec[stack[s][i].tk].st = "run" => rec'[stack[s][i].tk].st = "run",
         \A g \in Groups : rec[stack[s][i].tk].group = g => grp'[g].owner = grp[g].owner,
         \A y \in Tasks :
           stack[s][i].ctr = <<"npred", y>> /\ Awaited(stack[s][i], y) =>
             /\ rec'[y].parent = rec[y].parent /\ rec'[y].st = rec[y].st /\ rec'[y].kind = rec[y].kind
             /\ rec[y].pred = {} /\ ~ Queued(y) => rec'[y].pred = {} /\ ~ Queued(y)'
  PROVE  Counts(stack[s][i])'
  <1> DEFINE f == stack[s][i]
             g == stack'[s][i]
             x == f.tk
  <1>1. /\ g.tk = x /\ g.ctr = f.ctr
        /\ g.pc = f.pc \/ (f.pc = "idle" /\ g.pc = "roused") \/ (f.pc = "asleep" /\ g.pc = "woken")
    BY WokenIs
  <1>2. /\ g.pc \in WaitPcs <=> f.pc \in WaitPcs
        /\ g.pc = "unref" <=> f.pc = "unref"
        /\ g.pc = "link" <=> f.pc = "link"
    BY <1>1, PcSets
  <1>3. \A y \in Tasks : f.ctr = <<"npred", y>> /\ Awaited(f, y) => Awaited(f, y)'
    BY <1>1 DEF Awaited
  <1>4. \A y \in Tasks : f.ctr = <<"npred", y>> /\ Awaited(f, y) /\ Tracked(y) => Tracked(y)'
    BY DEF Tracked
  <1>5. g.pc \in WaitPcs =>
       \/ g.ctr = <<"children", g.tk>>
       \/ \E h \in Groups : /\ g.ctr = <<"group", h>> /\ rec'[g.tk].group = h
                            /\ grp'[h].owner = g.tk /\ rec'[g.tk].st = "run"
       \/ \E y \in Tasks : g.ctr = <<"npred", y>> /\ Awaited(f, y)' /\ rec'[y].kind.if0
    BY <1>1, <1>2, <1>3 DEF Counts
  <1>6. g.pc = "unref" =>
       \/ g.ctr = <<>>
       \/ \E y \in Tasks : g.ctr = <<"npred", y>> /\ Awaited(f, y)' /\ rec'[y].kind.if0
    BY <1>1, <1>2, <1>3 DEF Counts
  <1>7. g.pc = "link" =>
       \E y \in Tasks : /\ g.ctr = <<"npred", y>> /\ Awaited(f, y)'
                        /\ rec'[y].pred = {} /\ ~ Queued(y)'
                        /\ rec'[y].kind.if0 => Tracked(y)'
    BY <1>1, <1>2, <1>3, <1>4 DEF Counts
  <1>8. g.pc \notin WaitPcs \cup {"unref", "link"} => g.ctr = <<>>
    BY <1>1, <1>2 DEF Counts
  <1> QED
    BY <1>5, <1>6, <1>7, <1>8 DEF Counts

LEMMA DropsKept ==
  ASSUME NEW s \in Threads, NEW i, stack[s][i] \in FrameT, Drops(stack[s][i]),
         Woken(stack[s][i], stack'[s][i]),
         rec'[stack[s][i].tk].group = rec[stack[s][i].tk].group,
         rec'[stack[s][i].tk].parent = rec[stack[s][i].tk].parent,
         rec'[stack[s][i].tk].inplace = rec[stack[s][i].tk].inplace,
         rec'[stack[s][i].tk].st = "run" => rec[stack[s][i].tk].st = "run"
  PROVE  Drops(stack[s][i])'
  <1> DEFINE f == stack[s][i]
             g == stack'[s][i]
             x == f.tk
  <1>1. /\ g.tk = x /\ g.drop = f.drop /\ g.tell = f.tell /\ g.next = f.next
        /\ g.pc = f.pc \/ (f.pc = "idle" /\ g.pc = "roused") \/ (f.pc = "asleep" /\ g.pc = "woken")
    BY WokenIs
  <1>2. Dropped(f.tk) = Dropped(f.tk)' /\ (Static(f.tk)' => Static(f.tk))
    BY <1>1 DEF Dropped, Static
  <1> QED
    BY <1>1, <1>2 DEF Drops

LEMMA PlacedKept ==
  ASSUME Shape, StacksOK, NEW t \in Threads, Below(t), NEW s \in Threads,
         NEW i \in DOMAIN stack'[s], Old(t, s, i),
         Deferred(stack[s][i].tk) => Deferred(stack[s][i].tk)'
  PROVE  Placed(s, i)'
  <1> DEFINE f == stack[s][i]
             g == stack'[s][i]
  <1>1. /\ i \in DOMAIN stack[s] /\ i \in Nat /\ i > 0 /\ Woken(f, g)
        /\ i < Len(stack[s]) => g = f
        /\ s # t => Len(stack'[s]) = Len(stack[s])
    BY OldFrames
  <1>2. /\ stack[s] \in Seq(FrameT) /\ Len(stack[s]) \in Nat \ {0} /\ DOMAIN stack[s] = 1 .. Len(stack[s])
        /\ stack'[s] \in Seq(FrameT) /\ DOMAIN stack'[s] = 1 .. Len(stack'[s]) /\ Len(stack'[s]) \in Nat
    BY TopIs, LenProperties DEF Below
  <1>3. f \in FrameT /\ Placed(s, i)
    BY <1>1, <1>2 DEF StacksOK, FrameOK
  <1>4. /\ g.tk = f.tk
        /\ g.pc = f.pc \/ (f.pc = "idle" /\ g.pc = "roused") \/ (f.pc = "asleep" /\ g.pc = "woken")
    BY <1>1, <1>3, WokenIs
  <1>5. IF i = 1 THEN g.tk = s ELSE g.tk \in Tasks /\ g.pc \notin IdlePcs \cup {"out"}
    BY <1>3, <1>4, PcSets DEF Placed
  <1>6. i < Len(stack'[s]) => g.pc \in {"wait", "body", "retest", "drain"}
    <2>1. i < Len(stack'[s]) => i < Len(stack[s])
      BY <1>1, <1>2 DEF Old
    <2> QED
      BY <1>1, <1>3, <2>1 DEF Placed
  <1>7. i = 2 /\ stack'[s][1].pc \in IdlePcs => Deferred(f.tk)'
    <2> SUFFICES ASSUME i = 2, stack'[s][1].pc \in IdlePcs PROVE Deferred(f.tk)'
      OBVIOUS
    <2>1. 1 \in DOMAIN stack'[s] /\ Old(t, s, 1) /\ 1 < Len(stack[s])
      BY <1>1, <1>2 DEF Old
    <2>2. stack'[s][1] = stack[s][1]
      BY <2>1, OldFrames
    <2> QED
      BY <1>3, <2>2 DEF Placed
  <1> QED
    BY <1>5, <1>6, <1>7 DEF Placed

LEMMA OldFramesOK ==
  ASSUME Shape, StacksOK, RecsOK, GroupsOK, NEW t \in Threads, Below(t), NEW e, Undisturbed(t, e),
         NEW s \in Threads, NEW i \in DOMAIN stack'[s], Old(t, s, i)
  PROVE  FrameOK(s, i)'
  <1> DEFINE f == stack[s][i]
             x == f.tk
  <1>1. i \in DOMAIN stack[s] /\ Woken(f, stack'[s][i])
    BY OldFrames
  <1>2. f \in FrameT /\ FrameOK(s, i)
    BY <1>1, TopIs, LenProperties DEF StacksOK
  <1>3. x \in Recs /\ x # Cur(t) /\ x # e
    <2>1. Cur(t) = stack[t][Len(stack[t])].tk /\ Len(stack[t]) \in DOMAIN stack[t] /\ Len(stack[t]) \in Nat
      BY TopIs DEF Cur
    <2>2. x # Cur(t)
      BY <1>1, <2>1 DEF StacksOK, Unique, Old
    <2> QED
      BY <1>1, <1>2, <2>2 DEF FrameT, Undisturbed
  <1>4. rec[x].st \in {"run", "over", "freed"}
    BY <1>2, FrameBorn DEF FrameOK
  <1>5. Steady(x)
    BY <1>3, <1>4 DEF Undisturbed
  <1>6. \/ rec'[x].st = rec[x].st
        \/ /\ rec[x].st = "over" /\ rec'[x].st = "freed" /\ Deferred(x)
           /\ f.pc \in {"unref", "live", "wakeall"}
    <2> SUFFICES ASSUME rec'[x].st # rec[x].st
                 PROVE  /\ rec[x].st = "over" /\ rec'[x].st = "freed" /\ Deferred(x)
                        /\ f.pc \in {"unref", "live", "wakeall"}
      OBVIOUS
    <2>1. /\ rec[x].st = "over" /\ rec'[x].st = "freed" /\ Deferred(x)
          /\ \A r \in Threads : Cur(r) = x => pc(r) \in {"unref", "live", "wakeall"}
      BY <1>5 DEF Steady
    <2>2. CASE i = Len(stack[s])
      <3>1. f = Top(s)
        BY <2>2, TopIs
      <3> QED
        BY <2>1, <3>1 DEF Cur, pc
    <2>3. CASE i # Len(stack[s])
      <3>1. i < Len(stack[s])
        BY <1>1, <2>3, TopIs
      <3>2. f.pc \in {"wait", "body", "retest", "drain"}
        BY <1>2, <3>1 DEF FrameOK, Placed
      <3>3. ~ rec[x].inplace
        BY <2>1 DEF Deferred
      <3> QED
        BY <1>2, <2>1, <3>2, <3>3 DEF FrameOK, Fate, RunPcs, WaitPcs, IdlePcs
    <2> QED
      BY <2>2, <2>3
  <1>7. /\ rec'[x].inplace = rec[x].inplace /\ rec'[x].kind = rec[x].kind
        /\ rec'[x].parent = rec[x].parent /\ rec'[x].group = rec[x].group
    BY <1>5 DEF Steady
  <1>8. Deferred(x) => Deferred(f.tk)'
    <2>1. stack'[s][i].tk = x
      BY <1>1, <1>2, WokenIs
    <2> QED
      BY <1>4, <1>6, <1>7, <2>1 DEF Deferred
  <1>9. Fate(f)'
    BY <1>1, <1>2, <1>6, <1>7, FateKept DEF FrameOK
  <1>10. Drops(f)'
    BY <1>1, <1>2, <1>6, <1>7, DropsKept DEF FrameOK
  <1>11. Placed(s, i)'
    BY <1>8, PlacedKept
  <1>12. \A g \in Groups : rec[x].group = g => grp'[g].owner = grp[g].owner
    <2> SUFFICES ASSUME NEW g \in Groups, rec[x].group = g PROVE grp[g].st # "none"
      BY DEF Undisturbed
    <2>1. g # None
      BY TasksAssumption DEF Groups, None
    <2>2. rec[x].group = rec[x].home \/ grp[g].st = "open"
      BY <1>3 DEF GroupsOK
    <2>3. x \in Tasks \/ rec[x].home = None
      BY <1>3 DEF Recs, RecsOK, Born
    <2> QED
      BY <1>4, <2>1, <2>2, <2>3 DEF GroupsOK
  <1>13. \A y \in Tasks :
           f.ctr = <<"npred", y>> /\ Awaited(f, y) =>
             /\ rec'[y].parent = rec[y].parent /\ rec'[y].st = rec[y].st /\ rec'[y].kind = rec[y].kind
             /\ rec[y].pred = {} /\ ~ Queued(y) => rec'[y].pred = {} /\ ~ Queued(y)'
    <2> SUFFICES ASSUME NEW y \in Tasks, f.ctr = <<"npred", y>>, Awaited(f, y)
                 PROVE  /\ rec'[y].parent = rec[y].parent /\ rec'[y].st = rec[y].st
                        /\ rec'[y].kind = rec[y].kind
                        /\ rec[y].pred = {} /\ ~ Queued(y) => rec'[y].pred = {} /\ ~ Queued(y)'
      OBVIOUS
    <2>1. y # e /\ rec[y].st = "wait" /\ rec[y].parent = x /\ y \in Recs
      BY <1>1 DEF Undisturbed, Awaited, Recs
    <2>2. y # Cur(t)
      <3>1. rec[Cur(t)].st \in {"run", "over", "freed"}
        BY TopIs, FrameBorn DEF FrameOK, Cur
      <3> QED
        BY <2>1, <3>1
    <2>3. Steady(y)
      BY <2>1, <2>2 DEF Undisturbed
    <2> QED
      BY <1>3, <2>1, <2>3 DEF Undisturbed, Steady
  <1>14. Counts(f)'
    <2>1. rec[x].st = "run" => rec'[x].st = "run"
      BY <1>6
    <2> QED
      BY <1>1, <1>2, <1>7, <1>12, <1>13, <2>1, CountsKept DEF FrameOK
  <1> QED
    BY <1>9, <1>10, <1>11, <1>14 DEF FrameOK

LEMMA OldTasks ==
  ASSUME Shape, StacksOK, NEW t \in Threads, Below(t), NEW s \in Threads,
         NEW i \in DOMAIN stack'[s], Old(t, s, i)
  PROVE  i \in DOMAIN stack[s] /\ stack'[s][i].tk = stack[s][i].tk
  <1>1. i \in DOMAIN stack[s] /\ Woken(stack[s][i], stack'[s][i])
    BY OldFrames
  <1>2. stack[s][i] \in FrameT
    BY <1>1, TopIs, LenProperties
  <1> QED
    BY <1>1, <1>2, WokenIs

LEMMA OthersStay ==
  ASSUME Shape, StacksOK, NEW t \in Threads, Below(t), NEW s \in Threads, s # t
  PROVE  stack'[s] # <<>>
  <1>1. Len(stack'[s]) = Len(stack[s]) /\ Len(stack[s]) \in Nat \ {0}
    BY TopIs DEF Below, Others
  <1> QED
    BY <1>1, EmptySeq

LEMMA ToppedStacks ==
  ASSUME Shape, StacksOK, RecsOK, GroupsOK, NEW t \in Threads, NEW g, Topped(t, g),
         g.tk = Cur(t), NEW e, Undisturbed(t, e),
         NEW n \in Nat, n = Len(stack[t]), FrameOK(t, n)'
  PROVE  StacksOK'
  <1>1. /\ Below(t) /\ Len(stack'[t]) = Len(stack[t]) /\ stack'[t][Len(stack[t])] = g
        /\ stack' \in [Threads -> Seq(FrameT)]
    BY DEF Topped, Below
  <1>2. Len(stack[t]) \in Nat \ {0} /\ Cur(t) = stack[t][Len(stack[t])].tk /\ Len(stack[t]) \in DOMAIN stack[t]
    BY TopIs DEF Cur
  <1>3. DOMAIN stack'[t] = 1 .. Len(stack[t]) /\ stack'[t] # <<>>
    BY <1>1, <1>2, LenProperties, EmptySeq
  <1>4. ASSUME NEW s \in Threads, NEW i \in DOMAIN stack'[s]
        PROVE  /\ FrameOK(s, i)'
               /\ i \in DOMAIN stack[s] /\ stack'[s][i].tk = stack[s][i].tk
    <2>1. CASE s = t /\ i = Len(stack[t])
      BY <1>1, <1>2, <2>1
    <2>2. CASE ~ (s = t /\ i = Len(stack[t]))
      <3>1. Old(t, s, i)
        BY <1>2, <1>3, <2>2 DEF Old
      <3> QED
        BY <1>1, <3>1, OldFramesOK, OldTasks
    <2> QED
      BY <2>1, <2>2
  <1>5. \A s \in Threads : stack'[s] # <<>>
    BY <1>1, <1>3, OthersStay
  <1>6. Unique'
    BY <1>4 DEF StacksOK, Unique
  <1> QED
    BY <1>4, <1>5, <1>6 DEF StacksOK

LEMMA PoppedStacks ==
  ASSUME Shape, StacksOK, RecsOK, GroupsOK, NEW t \in Threads, Popped(t), Len(stack[t]) > 1,
         NEW e, Undisturbed(t, e)
  PROVE  StacksOK'
  <1>1. /\ Below(t) /\ Len(stack'[t]) = Len(stack[t]) - 1 /\ stack' \in [Threads -> Seq(FrameT)]
    BY DEF Popped, Below
  <1>2. Len(stack[t]) \in Nat \ {0}
    BY TopIs
  <1>3. DOMAIN stack'[t] = 1 .. Len(stack[t]) - 1 /\ stack'[t] # <<>>
    BY <1>1, <1>2, LenProperties, EmptySeq
  <1>4. ASSUME NEW s \in Threads, NEW i \in DOMAIN stack'[s]
        PROVE  /\ FrameOK(s, i)'
               /\ i \in DOMAIN stack[s] /\ stack'[s][i].tk = stack[s][i].tk
    <2>1. Old(t, s, i)
      BY <1>2, <1>3 DEF Old
    <2> QED
      BY <1>1, <2>1, OldFramesOK, OldTasks
  <1>5. \A s \in Threads : stack'[s] # <<>>
    BY <1>1, <1>3, OthersStay
  <1>6. Unique'
    BY <1>4 DEF StacksOK, Unique
  <1> QED
    BY <1>4, <1>5, <1>6 DEF StacksOK

LEMMA PushedStacks ==
  ASSUME Shape, StacksOK, RecsOK, GroupsOK, NEW t \in Threads, NEW f, NEW g, Pushed(t, f, g),
         f.tk = Cur(t), ~ OnStack(g.tk), NEW e, Undisturbed(t, e),
         NEW n \in Nat, n = Len(stack[t]), FrameOK(t, n)', FrameOK(t, n + 1)'
  PROVE  StacksOK'
  <1>1. /\ Below(t) /\ Len(stack'[t]) = Len(stack[t]) + 1 /\ stack' \in [Threads -> Seq(FrameT)]
        /\ stack'[t][Len(stack[t])] = f /\ stack'[t][Len(stack[t]) + 1] = g
    BY DEF Pushed, Below
  <1>2. Len(stack[t]) \in Nat \ {0} /\ Cur(t) = stack[t][Len(stack[t])].tk /\ Len(stack[t]) \in DOMAIN stack[t]
    BY TopIs DEF Cur
  <1>3. DOMAIN stack'[t] = 1 .. Len(stack[t]) + 1 /\ stack'[t] # <<>>
    BY <1>1, <1>2, LenProperties, EmptySeq
  <1>4. ASSUME NEW s \in Threads, NEW i \in DOMAIN stack'[s]
        PROVE  /\ FrameOK(s, i)'
               /\ \/ i \in DOMAIN stack[s] /\ stack'[s][i].tk = stack[s][i].tk
                  \/ s = t /\ i = Len(stack[t]) + 1 /\ stack'[s][i].tk = g.tk
    <2>1. CASE s = t /\ i = Len(stack[t])
      BY <1>1, <1>2, <2>1
    <2>2. CASE s = t /\ i = Len(stack[t]) + 1
      BY <1>1, <1>2, <2>2
    <2>3. CASE ~ (s = t /\ (i = Len(stack[t]) \/ i = Len(stack[t]) + 1))
      <3>1. Old(t, s, i)
        BY <1>2, <1>3, <2>3 DEF Old
      <3> QED
        BY <1>1, <3>1, OldFramesOK, OldTasks
    <2> QED
      BY <2>1, <2>2, <2>3
  <1>5. \A s \in Threads : stack'[s] # <<>>
    BY <1>1, <1>3, OthersStay
  <1>6. \A s \in Threads : \A i \in DOMAIN stack[s] : stack[s][i].tk # g.tk
    BY DEF OnStack
  <1>7. Unique'
    <2>1. \A s \in Threads : \A i \in DOMAIN stack'[s] :
            \/ i \in DOMAIN stack[s] /\ stack'[s][i].tk = stack[s][i].tk
            \/ s = t /\ i = n + 1 /\ stack'[s][i].tk = g.tk
      BY <1>4
    <2>2. Unique
      BY DEF StacksOK
    <2> SUFFICES ASSUME NEW r \in Threads, NEW s \in Threads,
                        NEW i \in DOMAIN stack'[r], NEW j \in DOMAIN stack'[s],
                        stack'[r][i].tk = stack'[s][j].tk
                 PROVE  r = s /\ i = j
      BY DEF Unique
    <2> QED
      BY <1>6, <2>1, <2>2 DEF Unique
  <1> QED
    BY <1>4, <1>5, <1>7 DEF StacksOK

(* The innermost frames after a step of t.                                  *)
LEMMA OtherTops ==
  ASSUME Shape, StacksOK, NEW t \in Threads, Below(t), NEW s \in Threads, s # t
  PROVE  /\ Woken(Top(s), Top(s)') /\ Top(s)' \in FrameT
         /\ Cur(s)' = Cur(s) /\ Top(s)'.drop = Top(s).drop /\ Top(s)'.ctr = Top(s).ctr
         /\ Top(s)'.tell = Top(s).tell /\ Top(s)'.next = Top(s).next
         /\ \/ pc(s)' = pc(s)
            \/ pc(s) = "idle" /\ pc(s)' = "roused"
            \/ pc(s) = "asleep" /\ pc(s)' = "woken"
  <1>1. Len(stack'[s]) = Len(stack[s]) /\ Woken(stack[s][Len(stack[s])], stack'[s][Len(stack[s])])
    BY DEF Below, Others
  <1>2. Top(s) = stack[s][Len(stack[s])] /\ Top(s) \in FrameT
    BY TopIs
  <1>3. Top(s)' = stack'[s][Len(stack'[s])]
    BY DEF Top, Last
  <1>4. Woken(Top(s), Top(s)')
    BY <1>1, <1>2, <1>3
  <1> QED
    BY <1>2, <1>4, WokenIs DEF Cur, pc

LEMMA OtherMarks ==
  ASSUME Shape, StacksOK, NEW t \in Threads, Below(t), NEW s \in Threads, s # t
  PROVE  /\ Ending(Top(s))' <=> Ending(Top(s))
         /\ InGroup(Top(s))' <=> InGroup(Top(s))
         /\ (pc(s)' = "wakeall") <=> (pc(s) = "wakeall")
         /\ (pc(s)' = "link") <=> (pc(s) = "link")
         /\ (pc(s)' = "out") <=> (pc(s) = "out")
         /\ (pc(s)' \in {"unref", "leave"}) <=> (pc(s) \in {"unref", "leave"})
         /\ (pc(s)' \in SlotPcs) <=> (pc(s) \in SlotPcs)
         /\ (pc(s)' \in TcPcs) <=> (pc(s) \in TcPcs)
  BY OtherTops DEF Ending, InGroup, pc, SlotPcs, TcPcs

LEMMA TopAfter ==
  ASSUME Shape, StacksOK, NEW t \in Threads
  PROVE  /\ \A g : Topped(t, g) => Top(t)' = g
         /\ \A f, g : Pushed(t, f, g) => Top(t)' = g
         /\ Popped(t) => Top(t)' = stack[t][Len(stack[t]) - 1] \/ Len(stack[t]) = 1
  <1>1. Top(t)' = stack'[t][Len(stack'[t])]
    BY DEF Top, Last
  <1>2. Len(stack[t]) \in Nat \ {0}
    BY TopIs
  <1>3. Len(stack[t]) # 1 => Len(stack[t]) - 1 \in 1 .. Len(stack[t]) - 1
    <2>1. \A n \in Nat \ {0} : n # 1 => n - 1 \in 1 .. n - 1
      OBVIOUS
    <2> QED
      BY <1>2, <2>1
  <1>4. ASSUME NEW g, Topped(t, g) PROVE Top(t)' = g
    BY <1>1, <1>4 DEF Topped
  <1>5. ASSUME NEW f, NEW g, Pushed(t, f, g) PROVE Top(t)' = g
    BY <1>1, <1>5 DEF Pushed
  <1>6. ASSUME Popped(t), Len(stack[t]) # 1 PROVE Top(t)' = stack[t][Len(stack[t]) - 1]
    BY <1>1, <1>3, <1>6 DEF Popped, Below
  <1> QED
    BY <1>4, <1>5, <1>6

LEMMA StackedAfter ==
  ASSUME Shape, StacksOK, NEW t \in Threads, NEW x
  PROVE  /\ \A g : Topped(t, g) /\ g.tk = Cur(t) => (OnStack(x)' <=> OnStack(x))
         /\ \A f, g : Pushed(t, f, g) /\ f.tk = Cur(t) => (OnStack(x)' <=> OnStack(x) \/ x = g.tk)
         /\ Popped(t) /\ OnStack(x) => OnStack(x)' \/ x = Cur(t)
  <1>1. /\ Len(stack[t]) \in Nat \ {0} /\ Cur(t) = stack[t][Len(stack[t])].tk
        /\ Len(stack[t]) \in DOMAIN stack[t] /\ stack[t] \in Seq(FrameT) /\ DOMAIN stack[t] = 1 .. Len(stack[t])
    BY TopIs DEF Cur
  <1>2. ASSUME Below(t), NEW s \in Threads, NEW i \in DOMAIN stack[s], s # t
        PROVE  i \in DOMAIN stack'[s] /\ stack'[s][i].tk = stack[s][i].tk
    <2>1. /\ stack'[s] \in Seq(FrameT) /\ stack[s] \in Seq(FrameT) /\ Len(stack'[s]) = Len(stack[s])
      BY <1>2, TopIs DEF Below, Others
    <2>2. i \in DOMAIN stack'[s]
      BY <2>1, LenProperties
    <2> QED
      BY <1>2, <2>2, OldTasks DEF Old
  <1>3. ASSUME Below(t), NEW i \in DOMAIN stack[t], i # Len(stack[t])
        PROVE  i \in 1 .. Len(stack[t]) - 1 /\ stack'[t][i].tk = stack[t][i].tk
    BY <1>1, <1>3 DEF Below
  <1>4. ASSUME NEW g, Topped(t, g), g.tk = Cur(t) PROVE OnStack(x)' <=> OnStack(x)
    <2>1. Below(t) /\ stack'[t] \in Seq(FrameT) /\ Len(stack'[t]) = Len(stack[t]) /\ stack'[t][Len(stack[t])] = g
      BY <1>4 DEF Topped, Below
    <2>2. DOMAIN stack'[t] = 1 .. Len(stack[t])
      BY <2>1, LenProperties
    <2>3. ASSUME NEW s \in Threads, NEW i \in DOMAIN stack[s]
          PROVE  i \in DOMAIN stack'[s] /\ stack'[s][i].tk = stack[s][i].tk
      BY <1>1, <1>2, <1>3, <1>4, <2>1, <2>2
    <2>4. ASSUME NEW s \in Threads, NEW i \in DOMAIN stack'[s]
          PROVE  i \in DOMAIN stack[s]
      <3>1. CASE s = t
        BY <1>1, <2>2, <3>1
      <3>2. CASE s # t
        BY <2>1, <3>2, OldTasks DEF Old
      <3> QED
        BY <3>1, <3>2
    <2> QED
      BY <2>3, <2>4 DEF OnStack
  <1>5. ASSUME NEW f, NEW g, Pushed(t, f, g), f.tk = Cur(t) PROVE OnStack(x)' <=> OnStack(x) \/ x = g.tk
    <2>1. /\ Below(t) /\ stack'[t] \in Seq(FrameT) /\ Len(stack'[t]) = Len(stack[t]) + 1
          /\ stack'[t][Len(stack[t])] = f /\ stack'[t][Len(stack[t]) + 1] = g
      BY <1>5 DEF Pushed, Below
    <2>2. DOMAIN stack'[t] = 1 .. Len(stack[t]) + 1
      BY <2>1, LenProperties
    <2>3. ASSUME NEW s \in Threads, NEW i \in DOMAIN stack[s]
          PROVE  i \in DOMAIN stack'[s] /\ stack'[s][i].tk = stack[s][i].tk
      BY <1>1, <1>2, <1>3, <1>5, <2>1, <2>2
    <2>4. ASSUME NEW s \in Threads, NEW i \in DOMAIN stack'[s]
          PROVE  i \in DOMAIN stack[s] \/ stack'[s][i].tk = g.tk
      <3>1. CASE s = t
        BY <1>1, <2>1, <2>2, <3>1
      <3>2. CASE s # t
        BY <2>1, <3>2, OldTasks DEF Old
      <3> QED
        BY <3>1, <3>2
    <2>5. Len(stack[t]) + 1 \in DOMAIN stack'[t] /\ stack'[t][Len(stack[t]) + 1].tk = g.tk
      BY <1>1, <2>1, <2>2
    <2> QED
      BY <2>3, <2>4, <2>5 DEF OnStack
  <1>6. ASSUME Popped(t), OnStack(x) PROVE OnStack(x)' \/ x = Cur(t)
    <2>1. Below(t) /\ stack'[t] \in Seq(FrameT) /\ Len(stack'[t]) = Len(stack[t]) - 1
      BY <1>6 DEF Popped, Below
    <2>2. DOMAIN stack'[t] = 1 .. Len(stack[t]) - 1
      BY <2>1, LenProperties
    <2>7. PICK s \in Threads : \E i \in DOMAIN stack[s] : stack[s][i].tk = x
      BY <1>6 DEF OnStack
    <2>3. PICK i \in DOMAIN stack[s] : stack[s][i].tk = x
      BY <2>7
    <2>4. CASE s = t /\ i = Len(stack[t])
      BY <1>1, <2>3, <2>4
    <2>5. CASE s = t /\ i # Len(stack[t])
      BY <1>3, <2>1, <2>2, <2>3, <2>5 DEF OnStack
    <2>6. CASE s # t
      BY <1>2, <2>1, <2>3, <2>6 DEF OnStack
    <2> QED
      BY <2>4, <2>5, <2>6
  <1> QED
    BY <1>4, <1>5, <1>6
-----------------------------------------------------------------------------
(* Records.                                                                *)
Ident(y) ==
  /\ rec'[y].inplace = rec[y].inplace /\ rec'[y].kind = rec[y].kind /\ rec'[y].final = rec[y].final
  /\ rec'[y].parent = rec[y].parent /\ rec'[y].creator = rec[y].creator
  /\ rec'[y].within = rec[y].within /\ rec'[y].home = rec[y].home

\* A record that is in use stays in use, as the same task.
Lasts == \A y \in Recs : rec[y].st # "none" => Ident(y) /\ rec'[y].st # "none"

LEMMA BornKept ==
  ASSUME NEW x \in Recs, Born(x), Lasts,
         rec[x].st = "none" => rec'[x] = rec[x],
         rec[x].st # "none" /\ rec'[x].st = "wait" => rec[x].st = "wait",
         x \in Threads => rec[x].st # "none" /\ rec'[x].pred = {} /\ rec'[x].st \in {"run", "over", "freed"},
         x \in Tasks /\ (rec'[x].st = "run" \/ (rec'[x].inplace /\ rec'[x].st = "over")) => OnStack(x)',
         Deferred(x) /\ Tracked(x) => (rec'[x].done <=> Over(x)'),
         ~ (Deferred(x) /\ Tracked(x)) => rec'[x].done = rec[x].done
  PROVE  Born(x)'
  <1>1. CASE x \in Threads
    BY <1>1 DEF Born, Lasts, Ident
  <1>2. CASE x \notin Threads /\ rec[x].st = "none"
    BY <1>2 DEF Born
  <1>3. CASE x \notin Threads /\ rec[x].st # "none"
    <2>1. Ident(x) /\ rec'[x].st # "none"
      BY <1>3 DEF Lasts
    <2>2. \A y \in Tasks : y < x => rec'[y].st # "none"
      BY <1>3 DEF Born, Lasts, Recs
    <2>3. (Deferred(x)' <=> Deferred(x)) /\ (Tracked(x)' <=> Tracked(x))
      BY <1>3, <2>1 DEF Deferred, Tracked, Ident
    <2>4. x \in Tasks
      BY <1>3 DEF Recs
    <2> QED
      BY <1>3, <2>1, <2>2, <2>3, <2>4 DEF Born, Ident
  <1> QED
    BY <1>1, <1>2, <1>3

LEMMA WaitsKept ==
  ASSUME NEW x \in Recs, Waits4(x), Lasts, Shape,
         rec'[x].pred \subseteq rec[x].pred,
         rec'[x].pred # {} => rec'[x].st = rec[x].st /\ ~ Queued(x)',
         \A y \in rec'[x].pred : ~ rec'[y].done
  PROVE  Waits4(x)'
  <1> SUFFICES ASSUME NEW y \in rec'[x].pred
               PROVE  /\ rec'[x].st = "wait" /\ ~ Queued(x)' /\ Tracked(x)'
                      /\ Deferred(y)' /\ Tracked(y)' /\ ~ rec'[y].done
                      /\ rec'[y].parent = rec'[x].parent
    BY DEF Waits4
  <1>1. /\ rec[x].st = "wait" /\ ~ Queued(x) /\ Tracked(x)
        /\ Deferred(y) /\ Tracked(y) /\ ~ rec[y].done /\ rec[y].parent = rec[x].parent
    BY DEF Waits4
  <1>2. y \in Recs /\ Ident(x) /\ Ident(y) /\ rec'[y].st # "none"
    BY <1>1 DEF Lasts, Deferred, Recs
  <1> QED
    BY <1>1, <1>2 DEF Ident, Deferred, Tracked

\* A task to be linked is a new one, or the step leaves that to do.
NewLinks ==
  \A s \in Threads : pc(s)' = "link" =>
    rec[Linked(s)'].st = "none" \/ (pc(s) = "link" /\ Linked(s)' = Linked(s))

LEMMA EntryKept ==
  ASSUME NEW x \in Recs, Entry(x), Lasts, NewLinks,
         \A i \in DOMAIN DepRefs(rec'[x]) :
           \E j \in DOMAIN DepRefs(rec[x]) : DepRefs(rec[x])[j] = DepRefs(rec'[x])[i]
  PROVE  Entry(x)'
  <1> SUFFICES ASSUME NEW i \in DOMAIN DepRefs(rec'[x]), NEW y, y = DepRefs(rec'[x])[i]
               PROVE  /\ Deferred(y)' /\ Tracked(y)' /\ rec'[y].parent = x
                      /\ \A t \in Threads : pc(t)' = "link" => Linked(t)' # y
    BY DEF Entry, DepRefs
  <1>1. PICK j \in DOMAIN DepRefs(rec[x]) : DepRefs(rec[x])[j] = y
    OBVIOUS
  <1>2. /\ Deferred(y) /\ Tracked(y) /\ rec[y].parent = x
        /\ \A t \in Threads : pc(t) = "link" => Linked(t) # y
    BY <1>1 DEF Entry
  <1>3. y \in Recs /\ rec[y].st # "none" /\ Ident(y) /\ rec'[y].st # "none"
    BY <1>2 DEF Lasts, Deferred, Recs
  <1> QED
    BY <1>2, <1>3 DEF Ident, Deferred, Tracked, NewLinks

(* Who is counted.                                                         *)
LEMMA PendingSame ==
  ASSUME Shape, StacksOK, NEW t \in Threads, Below(t), NEW x,
         Deferred(x)' <=> Deferred(x),
         rec'[x].st \in {"wait", "run"} <=> rec[x].st \in {"wait", "run"},
         Deferred(x) /\ rec[x].st \notin {"wait", "run"} =>
           (Cur(t)' = x /\ Ending(Top(t))' <=> Cur(t) = x /\ Ending(Top(t)))
  PROVE  Pending(x)' <=> Pending(x)
  <1>1. \A s \in Threads \ {t} : Cur(s)' = Cur(s) /\ (Ending(Top(s))' <=> Ending(Top(s)))
    BY OtherTops, OtherMarks
  <1> QED
    BY <1>1 DEF Pending

LEMMA GroupPendingSame ==
  ASSUME Shape, StacksOK, NEW t \in Threads, Below(t), NEW x,
         Deferred(x)' <=> Deferred(x),
         rec'[x].st \in {"wait", "run"} <=> rec[x].st \in {"wait", "run"},
         Deferred(x) /\ rec[x].st \notin {"wait", "run"} =>
           (Cur(t)' = x /\ InGroup(Top(t))' <=> Cur(t) = x /\ InGroup(Top(t)))
  PROVE  GroupPending(x)' <=> GroupPending(x)
  <1>1. \A s \in Threads \ {t} : Cur(s)' = Cur(s) /\ (InGroup(Top(s))' <=> InGroup(Top(s)))
    BY OtherTops, OtherMarks
  <1> QED
    BY <1>1 DEF GroupPending

LEMMA UnsettledSame ==
  ASSUME Shape, StacksOK, NEW t \in Threads, Below(t), NEW x,
         Deferred(x)' <=> Deferred(x),
         rec'[x].st \in {"wait", "run"} <=> rec[x].st \in {"wait", "run"},
         Deferred(x) /\ rec[x].st \notin {"wait", "run"} =>
           (Cur(t)' = x /\ pc(t)' # "wakeall" <=> Cur(t) = x /\ pc(t) # "wakeall")
  PROVE  Unsettled(x)' <=> Unsettled(x)
  <1>1. \A s \in Threads \ {t} : Cur(s)' = Cur(s) /\ (pc(s)' = "wakeall" <=> pc(s) = "wakeall")
    BY OtherTops, OtherMarks
  <1> QED
    BY <1>1 DEF Unsettled
-----------------------------------------------------------------------------
(* Steps that move t inside its innermost task and change no count.          *)
SameCore(r, q) ==
  /\ q.st = r.st /\ q.inplace = r.inplace /\ q.kind = r.kind /\ q.final = r.final
  /\ q.parent = r.parent /\ q.creator = r.creator /\ q.children = r.children /\ q.kids = r.kids
  /\ q.refs = r.refs /\ q.mark = r.mark /\ q.pred = r.pred /\ q.done = r.done
  /\ q.writer = r.writer /\ q.readers = r.readers /\ q.within = r.within /\ q.home = r.home

Still(t, g) ==
  /\ Topped(t, g) /\ g.tk = Cur(t) /\ g.drop = Top(t).drop
  /\ (Ending(g) <=> Ending(Top(t)))
  /\ (g.pc = "wakeall" <=> pc(t) = "wakeall")
  /\ g.pc # "link" /\ (g.pc \in {"unref", "leave"} => Deferred(Cur(t)))
  /\ SameCore(rec[Cur(t)], rec'[Cur(t)])
  /\ \A y \in Recs \ {Cur(t)} : rec'[y] = rec[y]
  /\ live' = live

LEMMA StillSame ==
  ASSUME Shape, StacksOK, NEW t \in Threads, NEW g, Still(t, g)
  PROVE  /\ \A y \in Recs : SameCore(rec[y], rec'[y])
         /\ \A y \in Recs : (Deferred(y)' <=> Deferred(y)) /\ (Tracked(y)' <=> Tracked(y))
                            /\ (Static(y)' <=> Static(y)) /\ DepRefs(rec'[y]) = DepRefs(rec[y])
         /\ Lasts /\ NewLinks /\ Below(t) /\ Top(t)' = g
  <1>1. \A y \in Recs : SameCore(rec[y], rec'[y])
    BY DEF Still, SameCore
  <1>3. \A y \in Recs : (Deferred(y)' <=> Deferred(y)) /\ (Tracked(y)' <=> Tracked(y))
                        /\ (Static(y)' <=> Static(y)) /\ DepRefs(rec'[y]) = DepRefs(rec[y])
    BY <1>1 DEF SameCore, Deferred, Tracked, Static, DepRefs
  <1>4. Lasts
    BY <1>1 DEF SameCore, Lasts, Ident
  <1>5. Below(t) /\ Top(t)' = g
    BY TopAfter DEF Still, Topped
  <1>6. NewLinks
    <2> SUFFICES ASSUME NEW s \in Threads, pc(s)' = "link"
                 PROVE  pc(s) = "link" /\ Linked(s)' = Linked(s)
      BY DEF NewLinks
    <2>1. s # t
      BY <1>5 DEF Still, pc
    <2> QED
      BY <1>5, <2>1, OtherTops, OtherMarks DEF Linked
  <1> QED
    BY <1>1, <1>3, <1>4, <1>5, <1>6

LEMMA StillRecs ==
  ASSUME Shape, StacksOK, RecsOK, NEW t \in Threads, NEW g, Still(t, g),
         \A y \in Recs : rec[y].pred # {} /\ ~ Queued(y) => ~ Queued(y)'
  PROVE  RecsOK'
  <1> SUFFICES ASSUME NEW x \in Recs PROVE Born(x)' /\ Waits4(x)' /\ Entry(x)' /\ Gone(x)'
    BY DEF RecsOK
  <1>1. Born(x) /\ Waits4(x) /\ Entry(x) /\ Gone(x)
    BY DEF RecsOK
  <1>2. /\ SameCore(rec[x], rec'[x])
        /\ (Deferred(x)' <=> Deferred(x)) /\ (Tracked(x)' <=> Tracked(x))
        /\ (Static(x)' <=> Static(x)) /\ DepRefs(rec'[x]) = DepRefs(rec[x])
        /\ Lasts /\ NewLinks /\ Below(t) /\ Top(t)' = g
    BY StillSame
  <1>3. Born(x)'
    <2>1. rec[x].st = "none" => rec'[x] = rec[x]
      <3>1. rec[Cur(t)].st \in {"run", "over", "freed"}
        BY TopIs, FrameBorn DEF FrameOK, Cur
      <3> QED
        BY <3>1 DEF Still
    <2>2. x \in Threads => rec[x].st # "none" /\ rec'[x].pred = {} /\ rec'[x].st \in {"run", "over", "freed"}
      BY <1>1, <1>2 DEF Born, SameCore
    <2>3. OnStack(x)' <=> OnStack(x)
      BY StackedAfter DEF Still
    <2>4. x \notin Threads => x \in Tasks
      BY DEF Recs
    <2>5. rec'[x].st = "run" \/ (rec'[x].inplace /\ rec'[x].st = "over") => OnStack(x)'
      <3>1. x \in Threads => OnStack(x)
        <4>1. \A s \in Threads : 1 \in DOMAIN stack[s] /\ stack[s][1].tk = s
          <5> SUFFICES ASSUME NEW s \in Threads PROVE 1 \in DOMAIN stack[s] /\ stack[s][1].tk = s
            OBVIOUS
          <5>1. 1 \in DOMAIN stack[s]
            BY TopIs
          <5> QED
            BY <5>1 DEF StacksOK, FrameOK, Placed
        <4> QED
          BY <4>1 DEF OnStack
      <3> QED
        BY <1>1, <1>2, <2>3, <3>1 DEF Born, SameCore
    <2>6. Deferred(x) /\ Tracked(x) => (rec'[x].done <=> Over(x)')
      <3>1. (x \notin Threads /\ rec[x].st # "none") \/ ~ Deferred(x)
        BY TasksAssumption DEF Deferred, Tasks
      <3> QED
        BY <1>1, <1>2, <3>1 DEF Born, SameCore, Over
    <2> QED
      BY <1>1, <1>2, <2>1, <2>2, <2>5, <2>6, BornKept DEF SameCore
  <1>4. Waits4(x)'
    <2>1. rec'[x].pred = rec[x].pred /\ rec'[x].st = rec[x].st
      BY <1>2 DEF SameCore
    <2>2. rec[x].pred # {} => ~ Queued(x)'
      BY <1>1 DEF Waits4
    <2>3. \A y \in rec[x].pred : y \in Recs /\ ~ rec[y].done
      BY <1>1 DEF Waits4, Deferred, Recs
    <2>4. \A y \in rec'[x].pred : ~ rec'[y].done
      BY <2>1, <2>3, StillSame DEF SameCore
    <2> QED
      BY <1>1, <1>2, <2>1, <2>2, <2>4, WaitsKept
  <1>5. Entry(x)'
    BY <1>1, <1>2, EntryKept
  <1>6. Gone(x)'
    <2>1. (\E s \in Threads : Cur(s)' = x /\ pc(s)' \in {"unref", "leave"}) /\ Static(x)
            => \E s \in Threads : Cur(s) = x /\ pc(s) \in {"unref", "leave"}
      <3> SUFFICES ASSUME NEW s \in Threads, Cur(s)' = x, pc(s)' \in {"unref", "leave"}, Static(x)
                   PROVE  Cur(s) = x /\ pc(s) \in {"unref", "leave"}
        OBVIOUS
      <3>1. s # t
        <4> SUFFICES ASSUME s = t PROVE FALSE
          OBVIOUS
        <4>1. Deferred(x)
          BY <1>2 DEF Still, Cur, pc
        <4> QED
          BY <4>1, TasksAssumption DEF Deferred, Static, Tasks
      <3> QED
        BY <1>2, <3>1, OtherTops, OtherMarks
    <2> QED
      BY <1>1, <1>2, <2>1 DEF Gone, SameCore
  <1> QED
    BY <1>3, <1>4, <1>5, <1>6

LEMMA StillQueues ==
  ASSUME Shape, StacksOK, QueuesOK, NEW t \in Threads, NEW g, Still(t, g), dq' = dq, hq' = hq
  PROVE  QueuesOK'
  <1>1. dq' = dq /\ hq' = hq
    OBVIOUS
  <1>2. \A x \in Tasks : (Queued(x)' <=> Queued(x)) /\ SameCore(rec[x], rec'[x])
    BY StillSame DEF Recs, Queued
  <1>3. \A x \in Tasks : Queued(x)' => rec'[x].st = "wait" /\ rec'[x].pred = {} /\ ~ rec'[x].kind.if0
    BY <1>2 DEF QueuesOK, SameCore
  <1> QED
    BY <1>1, <1>3 DEF QueuesOK

LEMMA StillCounts ==
  ASSUME Shape, StacksOK, ChildrenOK, RefsOK, LiveOK, EndOK, NEW t \in Threads, NEW g, Still(t, g)
  PROVE  ChildrenOK' /\ RefsOK' /\ LiveOK' /\ EndOK'
  <1>1. /\ \A y \in Recs : SameCore(rec[y], rec'[y])
        /\ \A y \in Recs : (Deferred(y)' <=> Deferred(y)) /\ DepRefs(rec'[y]) = DepRefs(rec[y])
        /\ Below(t) /\ Top(t)' = g
    BY StillSame
  <1>2. \A y \in Recs : Pending(y)' <=> Pending(y)
    <2> SUFFICES ASSUME NEW y \in Recs PROVE Pending(y)' <=> Pending(y)
      OBVIOUS
    <2>1. rec'[y].st = rec[y].st /\ (Deferred(y)' <=> Deferred(y))
      BY <1>1 DEF SameCore
    <2>2. Cur(t)' = y /\ Ending(Top(t))' <=> Cur(t) = y /\ Ending(Top(t))
      BY <1>1 DEF Still, Cur, Ending
    <2> QED
      BY <1>1, <2>1, <2>2, PendingSame
  <1>3. \A y \in Tasks : Unsettled(y)' <=> Unsettled(y)
    <2> SUFFICES ASSUME NEW y \in Tasks PROVE Unsettled(y)' <=> Unsettled(y)
      OBVIOUS
    <2>1. rec'[y].st = rec[y].st /\ (Deferred(y)' <=> Deferred(y))
      BY <1>1 DEF SameCore, Recs
    <2>2. Cur(t)' = y /\ pc(t)' # "wakeall" <=> Cur(t) = y /\ pc(t) # "wakeall"
      BY <1>1 DEF Still, Cur, pc
    <2> QED
      BY <1>1, <2>1, <2>2, UnsettledSame
  <1>4. Entries' = Entries
    BY <1>1 DEF Entries
  <1>5. Dropping' = Dropping
    <2>1. \A s \in Threads : Top(s)'.drop = Top(s).drop
      <3> SUFFICES ASSUME NEW s \in Threads PROVE Top(s)'.drop = Top(s).drop
        OBVIOUS
      <3>1. CASE s = t
        BY <1>1, <3>1 DEF Still
      <3>2. CASE s # t
        BY <1>1, <3>2, OtherTops
      <3> QED
        BY <3>1, <3>2
    <2> QED
      BY <2>1 DEF Dropping
  <1>6. ChildrenOK'
    <2> SUFFICES ASSUME NEW x \in Recs PROVE rec'[x].children = Cardinality(PendingOf(x)')
      BY DEF ChildrenOK
    <2>1. PendingOf(x)' = PendingOf(x)
      BY <1>1, <1>2 DEF PendingOf, SameCore, Recs
    <2> QED
      BY <1>1, <2>1 DEF ChildrenOK, SameCore
  <1>7. RefsOK'
    <2> SUFFICES ASSUME NEW x \in Recs
                 PROVE  rec'[x].refs = (IF Pending(x)' THEN 1 ELSE 0) + rec'[x].children
                          + Cardinality(Mentions(Entries', x)) + Cardinality(Mentions(Dropping', x))
      BY DEF RefsOK, Mentions
    <2> QED
      BY <1>1, <1>2, <1>4, <1>5 DEF RefsOK, SameCore
  <1>8. LiveOK'
    <2>1. {x \in Tasks : Unsettled(x)}' = {x \in Tasks : Unsettled(x)}
      BY <1>3
    <2> QED
      BY <2>1 DEF LiveOK, Still
  <1>9. EndOK'
    BY <1>1 DEF EndOK, Still, SameCore, Recs
  <1> QED
    BY <1>6, <1>7, <1>8, <1>9

LEMMA NoneFree ==
  /\ None \notin Recs /\ Tasks \cap Threads = {} /\ Tasks \subseteq Recs /\ Threads \subseteq Recs
  /\ <<"npred", None>> \notin Ctrs /\ Free \notin Threads /\ None \notin Groups
  /\ IsFiniteSet(Threads) /\ IsFiniteSet(Tasks) /\ IsFiniteSet(Recs) /\ MaxTasks \in Nat
  /\ \A x \in Tasks : x \in Nat /\ x > 0
  <1>1. None \notin Recs /\ Tasks \cap Threads = {} /\ Tasks \subseteq Recs /\ Threads \subseteq Recs
    BY TasksAssumption DEF Recs, Tasks, None
  <1>2. <<"npred", None>> \notin Ctrs
    BY <1>1 DEF Ctrs
  <1>3. IsFiniteSet(Threads) /\ IsFiniteSet(Tasks) /\ MaxTasks \in Nat
    BY TasksAssumption, FS_Interval DEF Tasks
  <1>4. IsFiniteSet(Recs)
    BY <1>3, FS_Union DEF Recs
  <1> QED
    BY <1>1, <1>2, <1>3, <1>4, TasksAssumption DEF Groups, None, Tasks

LEMMA StillUndisturbed ==
  ASSUME Shape, StacksOK, NEW t \in Threads, NEW g, Still(t, g),
         \A h \in Groups : grp[h].st # "none" => grp'[h].owner = grp[h].owner,
         \A y \in Tasks :
           rec[y].pred = {} /\ ~ Queued(y) /\ rec[y].st = "wait" /\ rec[y].parent # Cur(t) => ~ Queued(y)'
  PROVE  Undisturbed(t, None)
  <1>1. \A y \in Recs \ {Cur(t)} : Steady(y)
    BY DEF Still, Steady
  <1>2. \A y \in Tasks : rec'[y].pred = rec[y].pred
    BY StillSame DEF SameCore, Recs
  <1>3. \A s \in Threads : \A i \in DOMAIN stack[s] : stack[s][i].tk # None /\ stack[s][i].ctr # <<"npred", None>>
    <2> SUFFICES ASSUME NEW s \in Threads, NEW i \in DOMAIN stack[s]
                 PROVE  stack[s][i].tk \in Recs /\ stack[s][i].ctr \in Ctrs
      BY NoneFree
    <2>1. stack[s][i] \in FrameT
      BY TopIs, LenProperties
    <2> QED
      BY <2>1 DEF FrameT
  <1> QED
    BY <1>1, <1>2, <1>3 DEF Undisturbed
-----------------------------------------------------------------------------
(* Counting.                                                               *)
LEMMA CountMoves ==
  ASSUME NEW A, NEW B, NEW x, IsFiniteSet(A), \A y : y # x => (y \in A <=> y \in B)
  PROVE  /\ IsFiniteSet(B) /\ Cardinality(A) \in Nat /\ Cardinality(B) \in Nat
         /\ x \in A /\ x \in B => Cardinality(B) = Cardinality(A)
         /\ x \notin A /\ x \notin B => Cardinality(B) = Cardinality(A)
         /\ x \in A /\ x \notin B => Cardinality(B) = Cardinality(A) - 1
         /\ x \notin A /\ x \in B => Cardinality(B) = Cardinality(A) + 1
  <1>1. Cardinality(A) \in Nat
    BY FS_CardinalityType
  <1>2. CASE x \in A /\ x \in B
    BY <1>1, <1>2
  <1>3. CASE x \notin A /\ x \notin B
    <2>1. A = B
      BY <1>3
    <2> QED
      BY <1>1, <1>3, <2>1
  <1>4. CASE x \in A /\ x \notin B
    <2>1. B = A \ {x}
      BY <1>4
    <2> QED
      BY <1>1, <1>4, <2>1, FS_RemoveElement, FS_CardinalityType
  <1>5. CASE x \notin A /\ x \in B
    <2>1. B = A \cup {x}
      BY <1>5
    <2> QED
      BY <1>1, <1>5, <2>1, FS_AddElement, FS_CardinalityType
  <1> QED
    BY <1>2, <1>3, <1>4, <1>5

\* The counts of the sleepers when thread t goes to p.
Moved(n, m, p, q, S) ==
  /\ (p \in S <=> q \in S) => m = n
  /\ p \in S /\ q \notin S => m = n - 1
  /\ p \notin S /\ q \in S => m = n + 1
Naps(t, p) == Moved(nwait, nwait', pc(t), p, SlotPcs) /\ Moved(sleepers, sleepers', pc(t), p, TcPcs)

LEMMA SleepMoves ==
  ASSUME Shape, StacksOK, SleepOK, NEW t \in Threads, Below(t),
         Naps(t, pc(t)')
  PROVE  SleepOK'
  <1> DEFINE A == {s \in Threads : pc(s) \in SlotPcs}
             B == {s \in Threads : pc(s)' \in SlotPcs}
             C == {s \in Threads : pc(s) \in TcPcs}
             D == {s \in Threads : pc(s)' \in TcPcs}
  <1>1. IsFiniteSet(A) /\ IsFiniteSet(C)
    BY NoneFree, FS_Subset
  <1>2. \A s \in Threads \ {t} : (pc(s)' \in SlotPcs <=> pc(s) \in SlotPcs) /\ (pc(s)' \in TcPcs <=> pc(s) \in TcPcs)
    BY OtherMarks
  <1>3. (\A s : s # t => (s \in A <=> s \in B)) /\ (\A s : s # t => (s \in C <=> s \in D))
    BY <1>2
  <1>4. /\ nwait = Cardinality(A) /\ sleepers = Cardinality(C)
        /\ (t \in A <=> pc(t) \in SlotPcs) /\ (t \in B <=> pc(t)' \in SlotPcs)
        /\ (t \in C <=> pc(t) \in TcPcs) /\ (t \in D <=> pc(t)' \in TcPcs)
    BY DEF SleepOK
  <1> HIDE DEF A, B, C, D
  <1>5. nwait' = Cardinality(B)
    BY <1>1, <1>3, <1>4, CountMoves DEF Moved, Naps
  <1>6. sleepers' = Cardinality(D)
    BY <1>1, <1>3, <1>4, CountMoves DEF Moved, Naps
  <1> QED
    BY <1>5, <1>6 DEF SleepOK, B, D

LEMMA BarrierKept ==
  ASSUME Shape, BarrierOK, UNCHANGED barVars,
         \A s \in Threads :
           /\ rec'[s].epoch = rec[s].epoch
           /\ (stack'[s][1].pc \in IdlePcs <=> stack[s][1].pc \in IdlePcs) \/ ~ AtBarrier(s)
           /\ stack'[s][1].pc = "retest" => AtBarrier(s)
           /\ stack'[s][1].pc = "drain" => ~ AtBarrier(s),
         \A x \in Tasks : rec'[x].st # "none" /\ rec'[x].epoch < bgen =>
           rec[x].st # "none" /\ rec'[x].epoch = rec[x].epoch /\ (Over(x) => Over(x)')
  PROVE  BarrierOK'
  <1>1. passed' = passed /\ gen' = gen /\ bgen' = bgen /\ barrived' = barrived
    BY DEF barVars
  <1>2. \A s \in Threads : (AtBarrier(s)' <=> AtBarrier(s)) /\ (InBarrier(s)' <=> InBarrier(s))
    BY <1>1 DEF AtBarrier, InBarrier
  <1>3. {s \in Threads : InBarrier(s) /\ gen[s] = bgen}' = {s \in Threads : InBarrier(s) /\ gen[s] = bgen}
    BY <1>1, <1>2
  <1>4. \A x \in Tasks : rec'[x].st # "none" /\ rec'[x].epoch < bgen' => Over(x)'
    BY <1>1 DEF BarrierOK
  <1>5. \A s \in Threads :
          /\ passed'[s] <= Barriers /\ rec'[s].epoch = passed'[s]
          /\ IF InBarrier(s)' THEN gen'[s] = passed'[s] /\ passed'[s] \in {bgen', bgen' - 1}
             ELSE passed'[s] = bgen'
          /\ stack'[s][1].pc = "retest" => AtBarrier(s)'
          /\ stack'[s][1].pc = "drain" => ~ AtBarrier(s)'
    BY <1>1, <1>2 DEF BarrierOK
  <1> QED
    BY <1>1, <1>3, <1>4, <1>5 DEF BarrierOK

LEMMA GroupsKept ==
  ASSUME Shape, GroupsOK, grp' = grp,
         \A x \in Recs : rec'[x].home = rec[x].home /\ rec'[x].group = rec[x].group,
         \A x \in Recs : rec[x].st = "run" /\ OpenGroup(x) => rec'[x].st = "run",
         \A s \in Threads : stack'[s][1].pc \in IdlePcs => stack[s][1].pc \in IdlePcs \/ rec[s].group = None,
         \A x \in Tasks : rec[x].st = "none" => rec'[x].st = "none" \/ rec'[x].home = None,
         \A x \in Tasks : rec[x].home # None => (GroupPending(x)' <=> GroupPending(x))
  PROVE  GroupsOK'
  <1>1. \A x \in Recs : rec'[x].group = rec'[x].home
                     \/ (rec'[x].group # None /\ grp'[rec'[x].group].owner = x /\ rec'[x].st = "run"
                         /\ grp'[rec'[x].group].st = "open")
    BY DEF GroupsOK, OpenGroup
  <1>2. \A x \in Tasks : rec'[x].st # "none" /\ rec'[x].home # None => grp'[rec'[x].home].st # "none"
    BY NoneFree DEF GroupsOK
  <1>3. ASSUME NEW g \in Groups, grp[g].st # "none"
        PROVE  /\ grp'[g].owner \in Recs
               /\ grp'[g].st = "open" =>
                    \/ grp'[g].parent = rec'[grp'[g].owner].home
                    \/ grp'[g].parent # None /\ grp'[grp'[g].parent].owner = grp'[g].owner
               /\ grp'[g].st = "open" /\ grp'[g].parent # None => grp'[grp'[g].parent].st = "open"
               /\ grp'[g].count = Cardinality({x \in Tasks : GroupPending(x) /\ rec[x].home = g}')
               /\ grp'[g].st = "freed" => grp'[g].count = 0
    <2>1. {x \in Tasks : GroupPending(x) /\ rec[x].home = g}' = {x \in Tasks : GroupPending(x) /\ rec[x].home = g}
      <3>1. \A x \in Tasks : (GroupPending(x)' /\ rec'[x].home = g) <=> (GroupPending(x) /\ rec[x].home = g)
        BY NoneFree
      <3> QED
        BY <3>1
    <2>2. /\ grp[g].owner \in Recs
          /\ grp[g].st = "open" =>
               \/ grp[g].parent = rec[grp[g].owner].home
               \/ grp[g].parent # None /\ grp[grp[g].parent].owner = grp[g].owner
          /\ grp[g].st = "open" /\ grp[g].parent # None => grp[grp[g].parent].st = "open"
          /\ grp[g].count = Cardinality({x \in Tasks : GroupPending(x) /\ rec[x].home = g})
          /\ grp[g].st = "freed" => grp[g].count = 0
      BY <1>3 DEF GroupsOK
    <2> QED
      BY <2>1, <2>2
  <1>4. \A g \in Groups : grp[g].st = "none" => grp'[g].count = 0
    BY DEF GroupsOK
  <1>5. Nested'
    <2>1. Nested
      BY DEF GroupsOK
    <2>2. ASSUME NEW g \in Groups, grp'[g].st = "open"
          PROVE  /\ OpenGroup(grp[g].owner)' /\ rec'[grp'[g].owner].st = "run"
                 /\ g <= rec'[grp'[g].owner].group
      <3>1. grp[g].owner \in Recs
        BY <2>2 DEF GroupsOK
      <3>2. OpenGroup(grp[g].owner) /\ rec[grp[g].owner].st = "run" /\ g <= rec[grp[g].owner].group
        BY <2>1, <2>2 DEF Nested
      <3> QED
        BY <3>1, <3>2 DEF OpenGroup
    <2>3. \A s \in Threads : stack'[s][1].pc \in IdlePcs => rec'[s].group = None
      BY <2>1, NoneFree DEF Nested
    <2> QED
      BY <2>1, <2>2, <2>3 DEF Nested
  <1> QED
    BY <1>1, <1>2, <1>3, <1>4, <1>5 DEF GroupsOK

LEMMA FirstAfter ==
  ASSUME Shape, StacksOK, NEW t \in Threads, Below(t), NEW s \in Threads, s # t \/ Len(stack[t]) > 1
  PROVE  /\ (stack'[s][1].pc \in IdlePcs <=> stack[s][1].pc \in IdlePcs)
         /\ (stack'[s][1].pc = "retest" <=> stack[s][1].pc = "retest")
         /\ (stack'[s][1].pc = "drain" <=> stack[s][1].pc = "drain")
  <1>1. Len(stack[s]) \in Nat \ {0}
    BY TopIs
  <1>2. CASE Len(stack[s]) > 1
    <2>1. 1 \in 1 .. Len(stack[s]) - 1
      BY <1>1, <1>2
    <2>2. stack'[s][1] = stack[s][1]
      BY <2>1 DEF Below, Others
    <2> QED
      BY <2>2
  <1>3. CASE Len(stack[s]) = 1 /\ s # t
    <2>1. Top(s) = stack[s][1] /\ Top(s)' = stack'[s][1]
      BY <1>3, TopIs DEF Below, Others, Top, Last
    <2>2. \/ pc(s)' = pc(s)
          \/ pc(s) = "idle" /\ pc(s)' = "roused"
          \/ pc(s) = "asleep" /\ pc(s)' = "woken"
      BY <1>3, OtherTops
    <2> QED
      BY <2>1, <2>2, PcSets DEF pc
  <1>4. Len(stack[s]) > 1 \/ Len(stack[s]) = 1
    <2>1. \A n \in Nat \ {0} : n > 1 \/ n = 1
      OBVIOUS
    <2> QED
      BY <1>1, <2>1
  <1> QED
    BY <1>2, <1>3, <1>4

LEMMA FirstAbove ==
  ASSUME Shape, StacksOK, BarrierOK, NEW t \in Threads, Below(t),
         Len(stack[t]) = 1 =>
           /\ (stack'[t][1].pc \in IdlePcs <=> stack[t][1].pc \in IdlePcs)
           /\ stack'[t][1].pc = "retest" => AtBarrier(t)
           /\ stack'[t][1].pc = "drain" => ~ AtBarrier(t),
         NEW s \in Threads
  PROVE  /\ (stack'[s][1].pc \in IdlePcs <=> stack[s][1].pc \in IdlePcs)
         /\ stack'[s][1].pc = "retest" => AtBarrier(s)
         /\ stack'[s][1].pc = "drain" => ~ AtBarrier(s)
  <1>1. Len(stack[t]) \in Nat \ {0}
    BY TopIs
  <1>2. s # t \/ Len(stack[t]) > 1 \/ (s = t /\ Len(stack[t]) = 1)
    <2>1. \A n \in Nat \ {0} : n > 1 \/ n = 1
      OBVIOUS
    <2> QED
      BY <1>1, <2>1
  <1> QED
    BY <1>2, FirstAfter DEF BarrierOK

(* A step that changes neither groups nor queues, nor more of the records    *)
(* than an epoch.                                                           *)
Eased(t, g) ==
  /\ Topped(t, g) /\ g \in FrameT /\ g.tk = Cur(t) /\ g.drop = Top(t).drop
  /\ (Ending(g) <=> Ending(Top(t))) /\ (InGroup(g) <=> InGroup(Top(t)))
  /\ (g.pc = "wakeall" <=> pc(t) = "wakeall")
  /\ g.pc # "link" /\ (g.pc \in {"unref", "leave"} => Deferred(Cur(t)))
  /\ g.pc \in IdlePcs \cup {"out"} => Len(stack[t]) = 1
  /\ g.pc \in IdlePcs => pc(t) \in IdlePcs \/ rec[t].group = None
  /\ Fate(g) /\ Counts(g) /\ Drops(g)
  /\ \A y \in Recs \ {Cur(t)} : rec'[y] = rec[y]
  /\ SameCore(rec[Cur(t)], rec'[Cur(t)]) /\ rec'[Cur(t)].group = rec[Cur(t)].group
  /\ UNCHANGED <<grp, dq, base, hq, live>>
Calm(t, g) == Eased(t, g) /\ UNCHANGED rec

LEMMA EasedStep ==
  ASSUME TasksInv, NEW t \in Threads, NEW g, Eased(t, g), Shape', SleepOK', BarrierOK'
  PROVE  TasksInv'
  <1>1. Shape /\ StacksOK /\ RecsOK /\ QueuesOK /\ GroupsOK /\ ChildrenOK /\ RefsOK /\ LiveOK /\ EndOK
    BY DEF TasksInv, CountsOK
  <1>2. Still(t, g)
    BY DEF Eased, Still
  <1>4. grp' = grp /\ dq' = dq /\ hq' = hq
    BY DEF Eased
  <1>9. \A y : Queued(y)' <=> Queued(y)
    BY <1>4 DEF Queued
  <1>3. /\ RecsOK' /\ QueuesOK' /\ ChildrenOK' /\ RefsOK' /\ LiveOK' /\ EndOK'
    BY <1>1, <1>2, <1>4, <1>9, StillRecs, StillQueues, StillCounts
  <1>7. \A y \in Recs : SameCore(rec[y], rec'[y]) /\ rec'[y].group = rec[y].group
    BY DEF Eased, SameCore
  <1>8. g.tk \in Recs /\ Cur(t) \in Recs
    BY <1>1, TopIs DEF Eased
  <1>5. StacksOK'
    <2>1. Undisturbed(t, None)
      BY <1>1, <1>2, <1>4, <1>9, StillUndisturbed
    <2>2. PICK n \in Nat : n = Len(stack[t]) /\ n # 0
      BY <1>1, TopIs
    <2>3. /\ Topped(t, g) /\ g.tk = Cur(t) /\ stack'[t][n] = g /\ Len(stack'[t]) = n
          /\ \A i \in 1 .. n - 1 : stack'[t][i] = stack[t][i]
      BY <2>2 DEF Eased, Topped, Below
    <2>4. Placed(t, n)'
      <3>1. Placed(t, n) /\ Cur(t) = stack[t][n].tk
        BY <1>1, <2>2, TopIs DEF FrameOK, Cur
      <3>2. n = 2 => stack'[t][1] = stack[t][1]
        BY <2>2, <2>3
      <3>3. n = 1 \/ g.pc \notin IdlePcs \cup {"out"}
        BY <2>2 DEF Eased
      <3> QED
        BY <1>7, <1>8, <2>2, <2>3, <3>1, <3>2, <3>3 DEF Placed, Deferred, SameCore
    <2>5. Fate(stack[t][n])'
      BY <1>7, <1>8, <2>3 DEF Eased, Fate, Deferred, Static, SameCore
    <2>6. Counts(stack[t][n])'
      <3>1. \A y \in Tasks : (Queued(y)' <=> Queued(y)) /\ (Tracked(y)' <=> Tracked(y))
        BY <1>4, <1>7, NoneFree DEF Queued, Tracked, SameCore
      <3>2. \A y \in Tasks : SameCore(rec[y], rec'[y])
        BY <1>7, NoneFree
      <3>3. SameCore(rec[g.tk], rec'[g.tk]) /\ rec'[g.tk].group = rec[g.tk].group /\ Counts(g)
        BY <1>7, <1>8 DEF Eased
      <3> QED
        BY <1>4, <2>3, <3>1, <3>2, <3>3 DEF Counts, Awaited, SameCore
    <2>7. Drops(stack[t][n])'
      BY <1>7, <1>8, <2>3 DEF Eased, Drops, Dropped, Static, SameCore
    <2>8. FrameOK(t, n)'
      BY <2>4, <2>5, <2>6, <2>7 DEF FrameOK
    <2> QED
      BY <1>1, <2>1, <2>2, <2>3, <2>8, ToppedStacks
  <1>6. GroupsOK'
    <2>1. \A x \in Tasks : GroupPending(x)' <=> GroupPending(x)
      <3> SUFFICES ASSUME NEW x \in Tasks PROVE GroupPending(x)' <=> GroupPending(x)
        OBVIOUS
      <3>1. Deferred(x)' <=> Deferred(x)
        BY <1>7, NoneFree DEF Deferred, SameCore
      <3>2. Below(t) /\ Top(t)' = g
        BY <1>1, TopAfter DEF Eased, Topped
      <3>3. Cur(t)' = x /\ InGroup(Top(t))' <=> Cur(t) = x /\ InGroup(Top(t))
        BY <3>2 DEF Eased, Cur, InGroup, Ending
      <3> QED
        BY <1>1, <1>7, <3>1, <3>2, <3>3, NoneFree, GroupPendingSame DEF SameCore
    <2>2. \A s \in Threads : stack'[s][1].pc \in IdlePcs => stack[s][1].pc \in IdlePcs \/ rec[s].group = None
      <3> SUFFICES ASSUME NEW s \in Threads, stack'[s][1].pc \in IdlePcs
                   PROVE  stack[s][1].pc \in IdlePcs \/ rec[s].group = None
        OBVIOUS
      <3>1. Below(t) /\ Topped(t, g)
        BY DEF Eased, Topped
      <3>2. CASE s # t \/ Len(stack[t]) > 1
        BY <1>1, <3>1, <3>2, FirstAfter
      <3>3. CASE s = t /\ Len(stack[t]) = 1
        <4>1. stack'[t][1] = g /\ stack[t][1] = Top(t)
          BY <1>1, <3>1, <3>3, TopIs DEF Topped
        <4> QED
          BY <3>3, <4>1 DEF Eased, pc
      <3>4. Len(stack[t]) > 1 \/ Len(stack[t]) = 1
        <4>1. \A n \in Nat \ {0} : n > 1 \/ n = 1
          OBVIOUS
        <4> QED
          BY <1>1, <4>1, TopIs
      <3> QED
        BY <3>2, <3>3, <3>4
    <2> QED
      BY <1>1, <1>4, <1>7, <2>1, <2>2, NoneFree, GroupsKept DEF SameCore
  <1> QED
    BY <1>3, <1>5, <1>6 DEF TasksInv, CountsOK

LEMMA CalmStep ==
  ASSUME TasksInv, NEW t \in Threads, NEW g, Calm(t, g), Shape', SleepOK', BarrierOK'
  PROVE  TasksInv'
  BY EasedStep DEF Calm

LEMMA CalmAction ==
  ASSUME TasksInv, NEW t \in Threads, NEW g, Calm(t, g), UNCHANGED barVars,
         tm' \in Threads \cup {Free},
         Naps(t, g.pc),
         Len(stack[t]) = 1 =>
           /\ (g.pc \in IdlePcs <=> pc(t) \in IdlePcs)
           /\ g.pc = "retest" => AtBarrier(t)
           /\ g.pc = "drain" => ~ AtBarrier(t)
  PROVE  TasksInv'
  <1>1. Shape /\ StacksOK /\ SleepOK /\ BarrierOK
    BY DEF TasksInv, CountsOK
  <1>2. Topped(t, g) /\ Below(t) /\ UNCHANGED <<rec, grp, dq, base, hq, live>>
    BY DEF Calm, Eased, Topped
  <1>3. Top(t)' = g
    BY <1>1, <1>2, TopAfter
  <1>4. SleepOK'
    <2>1. Naps(t, pc(t)')
      BY <1>3 DEF pc
    <2> QED
      BY <1>1, <1>2, <2>1, SleepMoves
  <1>5. nwait' \in Int /\ sleepers' \in Int
    <2>1. nwait \in Int /\ sleepers \in Int
      BY <1>1 DEF Shape
    <2> QED
      BY <2>1 DEF Naps, Moved
  <1>6. Shape'
    BY <1>1, <1>2, <1>5 DEF Shape, Below, barVars
  <1>7. BarrierOK'
    <2>1. Len(stack[t]) = 1 => stack'[t][1] = g /\ stack[t][1] = Top(t)
      BY <1>1, <1>2, TopIs DEF Topped
    <2>2. \A s \in Threads :
           /\ (stack'[s][1].pc \in IdlePcs <=> stack[s][1].pc \in IdlePcs)
           /\ stack'[s][1].pc = "retest" => AtBarrier(s)
           /\ stack'[s][1].pc = "drain" => ~ AtBarrier(s)
      BY <1>1, <1>2, <2>1, FirstAbove DEF pc
    <2> QED
      BY <1>1, <1>2, <2>2, BarrierKept DEF Over
  <1> QED
    BY <1>4, <1>6, <1>7, CalmStep

LEMMA CurIs ==
  ASSUME TasksInv, NEW t \in Threads
  PROVE  /\ Shape /\ StacksOK /\ RecsOK /\ QueuesOK /\ CountsOK /\ GroupsOK /\ BarrierOK
         /\ Top(t) \in FrameT /\ Cur(t) \in Recs /\ pc(t) \in Pcs /\ Top(t).tk = Cur(t) /\ Top(t).pc = pc(t)
         /\ Fate(Top(t)) /\ Counts(Top(t)) /\ Drops(Top(t))
         /\ (Len(stack[t]) = 1 => Cur(t) = t)
         /\ (Len(stack[t]) # 1 => Cur(t) \in Tasks /\ pc(t) \notin IdlePcs \cup {"out"})
  <1>1. Shape /\ StacksOK /\ RecsOK /\ QueuesOK /\ CountsOK /\ GroupsOK /\ BarrierOK
    BY DEF TasksInv
  <1>2. /\ Top(t) = stack[t][Len(stack[t])] /\ Top(t) \in FrameT /\ FrameOK(t, Len(stack[t]))
        /\ Cur(t) \in Recs /\ pc(t) \in Pcs
    BY <1>1, TopIs
  <1>3. Fate(Top(t)) /\ Counts(Top(t)) /\ Drops(Top(t)) /\ Placed(t, Len(stack[t]))
    BY <1>2 DEF FrameOK
  <1> QED
    BY <1>1, <1>2, <1>3 DEF Placed, Cur, pc

\* The frame of x at p, with its counter and its references to drop.
IsFrame(f, x, p, c, d) ==
  /\ f \in FrameT /\ f.tk = x /\ f.pc = p /\ f.ctr = c /\ f.drop = d

LEMMA FrameIs ==
  ASSUME NEW x \in Recs, NEW p \in Pcs
  PROVE  IsFrame(Frame(x, p), x, p, <<>>, <<>>)
  <1>1. <<>> \in Ctrs /\ <<>> \in Seq(Ctrs) /\ <<>> \in Seq(Recs)
    BY EmptySeq DEF Ctrs
  <1> QED
    BY <1>1 DEF Frame, FrameT, IsFrame

LEMMA CtrFrameIs ==
  ASSUME NEW x \in Recs, NEW p \in Pcs, NEW c \in Ctrs
  PROVE  IsFrame([Frame(x, p) EXCEPT !.ctr = c], x, p, c, <<>>)
  <1>1. <<>> \in Ctrs /\ <<>> \in Seq(Ctrs) /\ <<>> \in Seq(Recs)
    BY EmptySeq DEF Ctrs
  <1> QED
    BY <1>1 DEF Frame, FrameT, IsFrame

LEMMA GotoIs ==
  ASSUME NEW f \in FrameT, NEW p \in Pcs
  PROVE  LET g == [f EXCEPT !.pc = p] IN
         /\ g \in FrameT /\ g.tk = f.tk /\ g.pc = p /\ g.ctr = f.ctr /\ g.tell = f.tell
         /\ g.next = f.next /\ g.drop = f.drop
  BY DEF FrameT

LEMMA PcIs ==
  /\ WaitPcs \subseteq Pcs /\ IdlePcs \subseteq Pcs /\ RunPcs \subseteq Pcs
  /\ {"body", "link", "wake", "refs", "unref", "notify", "children", "group", "leave", "live",
      "wakeall", "out"} \subseteq Pcs
  BY DEF Pcs, RunPcs

(* TaskWait, GroupWait and the steps of a wait.                             *)
LEMMA TaskWaitStep ==
  ASSUME TasksInv, NEW t \in Threads, TaskWait(t)
  PROVE  TasksInv'
  <1> DEFINE c == <<"children", Cur(t)>>
             g == [Frame(Cur(t), "wait") EXCEPT !.ctr = c]
  <1>1. /\ Shape /\ StacksOK /\ Cur(t) \in Recs /\ pc(t) = "body"
        /\ Fate(Top(t)) /\ Drops(Top(t)) /\ Top(t).tk = Cur(t) /\ Top(t).pc = "body"
    BY CurIs DEF TaskWait, pc
  <1>2. c \in Ctrs /\ "wait" \in Pcs
    BY <1>1, PcIs DEF Ctrs, WaitPcs
  <1>11. IsFrame(g, Cur(t), "wait", c, <<>>)
    BY <1>1, <1>2, CtrFrameIs
  <1>3. g \in FrameT /\ g.tk = Cur(t) /\ g.pc = "wait" /\ g.ctr = c /\ g.drop = <<>>
    BY <1>11 DEF IsFrame
  <1>4. SetTop(t, g) /\ UNCHANGED <<rec, grp, qVars, live, sync>>
    BY DEF TaskWait, WaitFor
  <1> HIDE DEF g
  <1>5. Topped(t, g)
    BY <1>1, <1>3, <1>4, SetTopStep
  <1>6. rec[Cur(t)].st = "run" /\ Top(t).drop = <<>>
    BY <1>1 DEF Fate, Drops, RunPcs
  <1>7. Fate(g) /\ Counts(g) /\ Drops(g)
    BY <1>3, <1>6 DEF Fate, Counts, Drops, RunPcs, WaitPcs, IdlePcs, TcPcs
  <1>8. Calm(t, g)
    BY <1>1, <1>3, <1>4, <1>5, <1>6, <1>7 DEF Calm, Eased, SameCore, Ending, InGroup, pc, IdlePcs, TcPcs, qVars
  <1>9. UNCHANGED barVars /\ tm' \in Threads \cup {Free} /\ Naps(t, g.pc)
    BY <1>1, <1>3, <1>4 DEF Shape, sync, barVars, idleVars, waitVars, SlotPcs, TcPcs, Naps, Moved
  <1>10. g.pc \notin IdlePcs /\ pc(t) \notin IdlePcs
    BY <1>1, <1>3 DEF IdlePcs, TcPcs
  <1> QED
    BY <1>3, <1>8, <1>9, <1>10, CalmAction

\* A move inside a wait, or of an idle thread.
LEMMA CalmGoto ==
  ASSUME TasksInv, NEW t \in Threads, NEW p, Goto(t, p),
         (pc(t) \in WaitPcs /\ p \in WaitPcs) \/ (pc(t) \in IdlePcs /\ p \in IdlePcs),
         p = "retest" => AtBarrier(t), p = "drain" => ~ AtBarrier(t),
         UNCHANGED <<rec, grp, qVars, live, barVars>>, tm' \in Threads \cup {Free}, Naps(t, p)
  PROVE  TasksInv'
  <1> DEFINE g == [Top(t) EXCEPT !.pc = p]
  <1>1. /\ Shape /\ StacksOK /\ Cur(t) \in Recs /\ Top(t) \in FrameT /\ Top(t).tk = Cur(t) /\ Top(t).pc = pc(t)
        /\ Fate(Top(t)) /\ Counts(Top(t)) /\ Drops(Top(t))
        /\ (Len(stack[t]) # 1 => pc(t) \notin IdlePcs \cup {"out"})
    BY CurIs
  <1>2. p \in Pcs
    BY PcIs
  <1>3. g \in FrameT /\ g.tk = Cur(t) /\ g.pc = p /\ g.ctr = Top(t).ctr /\ g.drop = Top(t).drop
    BY <1>1, <1>2, GotoIs
  <1>4. SetTop(t, g)
    BY DEF Goto
  <1> HIDE DEF g
  <1>5. Topped(t, g)
    BY <1>1, <1>3, <1>4, SetTopStep
  <1>6. p \notin {"link", "unref", "leave", "wakeall", "out", "notify", "group", "children", "refs", "live"}
    BY DEF WaitPcs, IdlePcs, TcPcs
  <1>7. pc(t) \notin {"link", "unref", "leave", "wakeall", "out", "notify", "group", "children", "refs", "live"}
    BY DEF WaitPcs, IdlePcs, TcPcs
  <1>8. (p \in IdlePcs <=> pc(t) \in IdlePcs) /\ (p \in RunPcs <=> pc(t) \in RunPcs) /\ (p \in WaitPcs <=> pc(t) \in WaitPcs)
    BY DEF RunPcs, IdlePcs, TcPcs, WaitPcs
  <1>9. Fate(g) /\ Counts(g) /\ Drops(g)
    <2>1. Fate(g)
      BY <1>1, <1>3, <1>6, <1>7, <1>8 DEF Fate
    <2>2. Counts(g)
      BY <1>1, <1>3, <1>6, <1>7, <1>8 DEF Counts, Awaited
    <2>3. Drops(g)
      BY <1>1, <1>3, <1>6, <1>7 DEF Drops
    <2> QED
      BY <2>1, <2>2, <2>3
  <1>10. UNCHANGED <<rec, grp, dq, base, hq, live>> /\ UNCHANGED barVars
    BY DEF qVars
  <1>11. p \in IdlePcs \cup {"out"} => Len(stack[t]) = 1
    BY <1>1, <1>6, <1>8
  <1>12. Ending(g) <=> Ending(Top(t))
    BY <1>1, <1>3, <1>6, <1>7 DEF Ending
  <1>13. InGroup(g) <=> InGroup(Top(t))
    BY <1>1, <1>3, <1>6, <1>7 DEF InGroup, Ending
  <1>14. Calm(t, g)
    BY <1>3, <1>5, <1>6, <1>7, <1>8, <1>9, <1>10, <1>11, <1>12, <1>13 DEF Calm, Eased, SameCore
  <1> QED
    BY <1>3, <1>8, <1>10, <1>14, CalmAction

LEMMA LookNothingStep ==
  ASSUME TasksInv, NEW t \in Threads, LookNothing(t)
  PROVE  TasksInv'
  <1>1. pc(t) = "wait" /\ Goto(t, "watch") /\ UNCHANGED <<rec, grp, qVars, live, sync>> /\ Shape
    BY CurIs DEF LookNothing, MustWait
  <1>2. UNCHANGED barVars /\ tm' \in Threads \cup {Free} /\ Naps(t, "watch")
    BY <1>1 DEF Shape, sync, barVars, idleVars, waitVars, SlotPcs, TcPcs, Naps, Moved
  <1> QED
    BY <1>1, <1>2, CalmGoto DEF WaitPcs

LEMMA WaitWatchStep ==
  ASSUME TasksInv, NEW t \in Threads, WaitWatch(t)
  PROVE  TasksInv'
  <1>1. /\ pc(t) = "watch" /\ Goto(t, "check") /\ nwait' = nwait + 1
        /\ UNCHANGED <<rec, grp, qVars, live, kick, idleVars, barVars, spurious>> /\ Shape
    BY CurIs DEF WaitWatch
  <1>2. tm' \in Threads \cup {Free} /\ Naps(t, "check")
    BY <1>1 DEF Shape, idleVars, SlotPcs, TcPcs, Naps, Moved
  <1> QED
    BY <1>1, <1>2, CalmGoto DEF WaitPcs

LEMMA UnwatchStep ==
  ASSUME TasksInv, NEW t \in Threads, Unwatch(t), pc(t) \in {"check", "woken"},
         UNCHANGED <<rec, grp, qVars, live, idleVars, barVars, spurious>>
  PROVE  TasksInv'
  <1>1. Goto(t, "wait") /\ nwait' = nwait - 1 /\ Shape
    BY CurIs DEF Unwatch
  <1>2. tm' \in Threads \cup {Free} /\ Naps(t, "wait")
    BY <1>1 DEF Shape, idleVars, SlotPcs, TcPcs, Naps, Moved
  <1> QED
    BY <1>1, <1>2, CalmGoto DEF WaitPcs

LEMMA WaitCheckStep ==
  ASSUME TasksInv, NEW t \in Threads, WaitCheck(t)
  PROVE  TasksInv'
  <1>1. pc(t) = "check" /\ UNCHANGED <<rec, grp, qVars, live, idleVars, barVars, spurious>> /\ Shape
    BY CurIs DEF WaitCheck
  <1>2. CASE Goto(t, "asleep") /\ UNCHANGED waitVars
    <2>1. tm' \in Threads \cup {Free} /\ Naps(t, "asleep")
      BY <1>1, <1>2 DEF Shape, idleVars, waitVars, SlotPcs, TcPcs, Naps, Moved
    <2> QED
      BY <1>1, <1>2, <2>1, CalmGoto DEF WaitPcs
  <1>3. CASE Unwatch(t)
    BY <1>1, <1>3, UnwatchStep
  <1> QED
    BY <1>2, <1>3 DEF WaitCheck

LEMMA WaitWokenStep ==
  ASSUME TasksInv, NEW t \in Threads, WaitWoken(t)
  PROVE  TasksInv'
  BY UnwatchStep DEF WaitWoken

LEMMA FindNothingStep ==
  ASSUME TasksInv, NEW t \in Threads, FindNothing(t)
  PROVE  TasksInv'
  <1>1. pc(t) = "find" /\ Goto(t, "announce") /\ UNCHANGED <<rec, grp, qVars, live, sync>> /\ Shape
    BY CurIs DEF FindNothing
  <1>2. UNCHANGED barVars /\ tm' \in Threads \cup {Free} /\ Naps(t, "announce")
    BY <1>1 DEF Shape, sync, barVars, idleVars, waitVars, SlotPcs, TcPcs, Naps, Moved
  <1> QED
    BY <1>1, <1>2, CalmGoto DEF IdlePcs

LEMMA AnnounceStep ==
  ASSUME TasksInv, NEW t \in Threads, Announce(t)
  PROVE  TasksInv'
  <1>1. /\ pc(t) = "announce" /\ Goto(t, "doze") /\ tm' = t /\ sleepers' = sleepers + 1
        /\ UNCHANGED <<rec, grp, qVars, live, waitVars, barVars, spurious>> /\ Shape
    BY CurIs DEF Announce
  <1>2. tm' \in Threads \cup {Free} /\ Naps(t, "doze")
    BY <1>1 DEF Shape, waitVars, SlotPcs, TcPcs, Naps, Moved
  <1> QED
    BY <1>1, <1>2, CalmGoto DEF IdlePcs, TcPcs

LEMMA SpuriousWakeStep ==
  ASSUME TasksInv, NEW t \in Threads, SpuriousWake(t)
  PROVE  TasksInv'
  <1>1. UNCHANGED <<rec, grp, qVars, live, waitVars, idleVars, barVars>> /\ Shape
    BY CurIs DEF SpuriousWake
  <1>2. CASE pc(t) = "asleep" /\ Goto(t, "woken")
    <2>1. tm' \in Threads \cup {Free} /\ Naps(t, "woken")
      BY <1>1, <1>2 DEF Shape, idleVars, waitVars, SlotPcs, TcPcs, Naps, Moved
    <2> QED
      BY <1>1, <1>2, <2>1, CalmGoto DEF WaitPcs
  <1>3. CASE pc(t) = "idle" /\ Goto(t, "roused")
    <2>1. tm' \in Threads \cup {Free} /\ Naps(t, "roused")
      BY <1>1, <1>3 DEF Shape, idleVars, waitVars, SlotPcs, TcPcs, Naps, Moved
    <2> QED
      BY <1>1, <1>3, <2>1, CalmGoto DEF IdlePcs, TcPcs
  <1> QED
    BY <1>2, <1>3 DEF SpuriousWake

LEMMA RouseTopped ==
  ASSUME Shape, StacksOK, NEW t \in Threads, NEW f \in FrameT,
         NEW A \in SUBSET OnTc, t \notin A, NEW B \in SUBSET OnSlot, t \notin B,
         stack' = Rouse(Rouse(WithTop(t, f), A, "roused"), B, "woken")
  PROVE  Topped(t, f)
  <1> DEFINE st == WithTop(t, f)
  <1>1. /\ st \in [Threads -> Seq(FrameT)]
        /\ st[t] \in Seq(FrameT) /\ Len(st[t]) = Len(stack[t]) /\ st[t][Len(stack[t])] = f
        /\ \A i \in 1 .. Len(stack[t]) - 1 : st[t][i] = stack[t][i]
        /\ \A s \in Threads \ {t} : st[s] = stack[s]
    BY RetopStep
  <1>2. st[t] # <<>>
    BY <1>1, TopIs, EmptySeq
  <1>3. stack' = Rouse(Rouse(st, A, "roused"), B, "woken")
    OBVIOUS
  <1> HIDE DEF st
  <1>4. stack' \in [Threads -> Seq(FrameT)] /\ Others(t) /\ stack'[t] = st[t]
    BY <1>1, <1>2, <1>3, RousedOthers
  <1> QED
    BY <1>1, <1>4 DEF Topped, Below

LEMMA RouseTc ==
  ASSUME Shape, StacksOK, NEW t \in Threads, NEW f \in FrameT,
         NEW A \in SUBSET OnTc, t \notin A, stack' = Rouse(WithTop(t, f), A, "roused")
  PROVE  Topped(t, f)
  <1>1. WithTop(t, f) \in [Threads -> Seq(FrameT)] /\ \A s \in Threads : WithTop(t, f)[s] # <<>>
    <2>1. /\ WithTop(t, f) \in [Threads -> Seq(FrameT)] /\ Len(WithTop(t, f)[t]) = Len(stack[t])
          /\ \A s \in Threads \ {t} : WithTop(t, f)[s] = stack[s]
      BY RetopStep
    <2> QED
      BY <2>1, TopIs, EmptySeq
  <1>2. "roused" \in Pcs
    BY DEF Pcs, RunPcs, IdlePcs, TcPcs
  <1>3. Rouse(WithTop(t, f), A, "roused") \in [Threads -> Seq(FrameT)]
    BY <1>1, <1>2, RouseIs
  <1>4. stack' = Rouse(Rouse(WithTop(t, f), A, "roused"), {}, "woken")
    BY <1>3, RouseNone
  <1>5. {} \in SUBSET OnSlot /\ t \notin {}
    OBVIOUS
  <1> QED
    BY <1>4, <1>5, RouseTopped

LEMMA RouseSlot ==
  ASSUME Shape, StacksOK, NEW t \in Threads, NEW f \in FrameT,
         NEW B \in SUBSET OnSlot, t \notin B, stack' = Rouse(WithTop(t, f), B, "woken")
  PROVE  Topped(t, f)
  <1>1. WithTop(t, f) \in [Threads -> Seq(FrameT)]
    BY RetopStep
  <1>2. stack' = Rouse(Rouse(WithTop(t, f), {}, "roused"), B, "woken")
    BY <1>1, RouseNone
  <1>3. {} \in SUBSET OnTc /\ t \notin {}
    OBVIOUS
  <1> QED
    BY <1>2, <1>3, RouseTopped

\* A move from the body of the task, or from a wait that is over.
LEMMA CalmTo ==
  ASSUME TasksInv, NEW t \in Threads, NEW g, NEW p, NEW c, Topped(t, g), IsFrame(g, Cur(t), p, c, <<>>),
         pc(t) \in {"body", "wake", "wait"}, p \in {"body", "wait", "refs"}, Fate(g), Counts(g),
         UNCHANGED <<rec, grp, qVars, live, sync>>
  PROVE  TasksInv'
  <1>1. Shape /\ Drops(Top(t)) /\ Top(t).pc = pc(t)
    BY CurIs
  <1>2. g \in FrameT /\ g.tk = Cur(t) /\ g.pc = p /\ g.drop = <<>>
    BY DEF IsFrame
  <1>3. Top(t).drop = <<>>
    BY <1>1 DEF Drops
  <1>4. Drops(g)
    BY <1>2 DEF Drops
  <1>5. Calm(t, g)
    BY <1>1, <1>2, <1>3, <1>4 DEF Calm, Eased, SameCore, Ending, InGroup, IdlePcs, TcPcs, qVars
  <1>6. UNCHANGED barVars /\ tm' \in Threads \cup {Free} /\ Naps(t, g.pc)
    BY <1>1, <1>2 DEF Shape, sync, barVars, idleVars, waitVars, SlotPcs, TcPcs, Naps, Moved
  <1>7. g.pc \notin IdlePcs /\ pc(t) \notin IdlePcs
    BY <1>2 DEF IdlePcs, TcPcs
  <1> QED
    BY <1>2, <1>5, <1>6, <1>7, CalmAction

LEMMA SpawnWakeStep ==
  ASSUME TasksInv, NEW t \in Threads, SpawnWake(t)
  PROVE  TasksInv'
  <1>1. /\ Shape /\ StacksOK /\ Cur(t) \in Recs /\ pc(t) = "wake" /\ Top(t) \in FrameT
        /\ Fate(Top(t)) /\ Counts(Top(t)) /\ Drops(Top(t)) /\ Top(t).tk = Cur(t) /\ Top(t).pc = "wake"
        /\ UNCHANGED <<rec, grp, qVars, live, sync>> /\ "body" \in Pcs
    BY CurIs, PcIs DEF SpawnWake, pc
  <1>2. rec[Cur(t)].st = "run" /\ Top(t).drop = <<>> /\ Top(t).ctr = <<>>
    BY <1>1 DEF Fate, Drops, Counts, RunPcs, WaitPcs
  <1>3. \A g : IsFrame(g, Cur(t), "body", <<>>, <<>>) => Fate(g) /\ Counts(g)
    BY <1>2 DEF IsFrame, Fate, Counts, RunPcs, WaitPcs, IdlePcs, TcPcs
  <1>4. CASE Goto(t, "body")
    <2> DEFINE g == [Top(t) EXCEPT !.pc = "body"]
    <2>1. IsFrame(g, Cur(t), "body", <<>>, <<>>)
      BY <1>1, <1>2, GotoIs DEF IsFrame
    <2>2. SetTop(t, g)
      BY <1>4 DEF Goto
    <2> HIDE DEF g
    <2>3. Topped(t, g)
      BY <1>1, <2>1, <2>2, SetTopStep DEF IsFrame
    <2> QED
      BY <1>1, <1>3, <2>1, <2>3, CalmTo
  <1>5. ASSUME NEW ts \in Signalled(1), stack' = Rouse(WithTop(t, Frame(Cur(t), "body")), ts, "roused")
        PROVE  TasksInv'
    <2> DEFINE g == Frame(Cur(t), "body")
    <2>1. IsFrame(g, Cur(t), "body", <<>>, <<>>)
      BY <1>1, FrameIs
    <2>2. ts \in SUBSET OnTc /\ t \notin ts
      BY <1>1 DEF Signalled, OnTc
    <2>3. Topped(t, g)
      BY <1>1, <1>5, <2>1, <2>2, RouseTc DEF IsFrame
    <2> QED
      BY <1>1, <1>3, <2>1, <2>3, CalmTo
  <1> QED
    BY <1>4, <1>5 DEF SpawnWake

LEMMA GroupWaitStep ==
  ASSUME TasksInv, NEW t \in Threads, GroupWait(t)
  PROVE  TasksInv'
  <1> DEFINE c == <<"group", rec[Cur(t)].group>>
             g == [Frame(Cur(t), "wait") EXCEPT !.ctr = c]
  <1>1. /\ Shape /\ StacksOK /\ Cur(t) \in Recs /\ pc(t) = "body"
        /\ Fate(Top(t)) /\ Top(t).tk = Cur(t) /\ Top(t).pc = "body" /\ "wait" \in Pcs
        /\ UNCHANGED <<rec, grp, qVars, live, sync>> /\ OpenGroup(Cur(t)) /\ SetTop(t, g)
    BY CurIs, PcIs DEF GroupWait, WaitFor, pc, WaitPcs
  <1>2. rec[Cur(t)].group \in Groups
    BY <1>1 DEF Shape, RecT, OpenGroup
  <1>3. c \in Ctrs
    BY <1>2 DEF Ctrs
  <1>4. IsFrame(g, Cur(t), "wait", c, <<>>)
    BY <1>1, <1>3, CtrFrameIs
  <1>5. rec[Cur(t)].st = "run"
    BY <1>1 DEF Fate, RunPcs
  <1> HIDE DEF g
  <1>6. Topped(t, g)
    BY <1>1, <1>4, SetTopStep DEF IsFrame
  <1>7. Fate(g)
    BY <1>4, <1>5 DEF IsFrame, Fate, RunPcs, WaitPcs, IdlePcs, TcPcs
  <1>8. Counts(g)
    <2>1. /\ g.ctr = <<"group", rec[Cur(t)].group>> /\ grp[rec[Cur(t)].group].owner = g.tk
          /\ rec[g.tk].st = "run" /\ g.tk = Cur(t) /\ g.pc = "wait"
      BY <1>1, <1>4, <1>5 DEF OpenGroup, IsFrame
    <2> QED
      BY <1>2, <2>1 DEF Counts, WaitPcs
  <1> QED
    BY <1>1, <1>4, <1>6, <1>7, <1>8, CalmTo

LEMMA WaitOverStep ==
  ASSUME TasksInv, NEW t \in Threads, WaitOver(t)
  PROVE  TasksInv'
  <1> DEFINE p == IF rec[Cur(t)].st = "over" THEN "refs" ELSE "body"
             g == Frame(Cur(t), p)
  <1>1. /\ Shape /\ StacksOK /\ Cur(t) \in Recs /\ pc(t) = "wait" /\ p \in Pcs
        /\ Fate(Top(t)) /\ Top(t).tk = Cur(t) /\ Top(t).pc = "wait"
        /\ UNCHANGED <<rec, grp, qVars, live, sync>> /\ SetTop(t, g)
    BY CurIs, PcIs DEF WaitOver, Waits, pc
  <1>2. IsFrame(g, Cur(t), p, <<>>, <<>>)
    BY <1>1, FrameIs
  <1>3. rec[Cur(t)].st = "run" \/ (rec[Cur(t)].st = "over" /\ rec[Cur(t)].inplace)
    BY <1>1 DEF Fate, WaitPcs
  <1>4. p \in {"body", "refs"} /\ (p = "body" => rec[Cur(t)].st = "run")
        /\ (p = "refs" => rec[Cur(t)].st = "over" /\ rec[Cur(t)].inplace)
    BY <1>3
  <1> HIDE DEF g, p
  <1>5. Topped(t, g)
    BY <1>1, <1>2, SetTopStep DEF IsFrame
  <1>6. Fate(g) /\ Counts(g)
    BY <1>2, <1>4 DEF IsFrame, Fate, Counts, RunPcs, WaitPcs, IdlePcs, TcPcs
  <1> QED
    BY <1>1, <1>2, <1>4, <1>5, <1>6, CalmTo

LEMMA NotifyStep ==
  ASSUME TasksInv, NEW t \in Threads, Notify(t)
  PROVE  TasksInv'
  <1> DEFINE f == Top(t)
             cs == Tail(f.tell)
             g == ToNotify(f, cs, f.next)
             ws == {s \in Threads : nwait # 0 /\ watch[s] = Head(f.tell)}
  <1>1. /\ Shape /\ StacksOK /\ Cur(t) \in Recs /\ pc(t) = "notify" /\ f \in FrameT
        /\ Fate(f) /\ Counts(f) /\ Drops(f) /\ f.tk = Cur(t) /\ f.pc = "notify"
        /\ UNCHANGED <<rec, grp, qVars, live, waitVars, sleepers, barVars, spurious>>
        /\ stack' = Rouse(WithTop(t, g), ws \cap OnSlot, "woken")
    BY CurIs DEF Notify, pc
  <1>2. tm' \in Threads \cup {Free}
    BY <1>1 DEF Notify, Shape
  <1>3. /\ rec[Cur(t)].st = "over" /\ Deferred(Cur(t)) /\ f.ctr = <<>> /\ f.tell # <<>>
        /\ f.next \in {"children", "group", "unref"} /\ (f.next = "children" => f.drop = <<>>)
        /\ (f.next # "children" => f.drop = Dropped(Cur(t)))
        /\ (f.next = "group" => rec[Cur(t)].group # None)
    BY <1>1 DEF Fate, Counts, Drops, WaitPcs
  <1>4. cs \in Seq(Ctrs)
    BY <1>1, <1>3, HeadTailProperties DEF FrameT
  <1> HIDE DEF cs
  <1>5. /\ g \in FrameT /\ g.tk = Cur(t) /\ g.ctr = <<>> /\ g.drop = f.drop /\ g.next = f.next /\ g.tell = cs
        /\ g.pc = IF cs = <<>> THEN f.next ELSE "notify"
    BY <1>1, <1>3, <1>4, PcIs DEF ToNotify, FrameT
  <1>6. (ws \cap OnSlot) \in SUBSET OnSlot /\ t \notin (ws \cap OnSlot)
    BY <1>1 DEF OnSlot
  <1> HIDE DEF g, ws
  <1>7. Topped(t, g)
    BY <1>1, <1>5, <1>6, RouseSlot
  <1>8. g.pc \in {"notify", "children", "group", "unref"} /\ (g.pc # "notify" => g.pc = f.next)
        /\ (g.pc = "notify" => cs # <<>>)
    BY <1>3, <1>5
  <1>9. Fate(g)
    BY <1>3, <1>5, <1>8 DEF Fate, RunPcs, WaitPcs, IdlePcs, TcPcs
  <1>10. Counts(g)
    BY <1>3, <1>5, <1>8 DEF Counts, WaitPcs
  <1>11. Drops(g)
    <2>1. Dropped(Cur(t)) # <<>> /\ ~ Static(Cur(t))
      BY <1>3, NoneFree DEF Dropped, Static, Deferred
    <2> QED
      BY <1>3, <1>5, <1>8, <2>1 DEF Drops
  <1>12. Ending(g) <=> Ending(f)
    BY <1>1, <1>5, <1>8 DEF Ending
  <1>13. InGroup(g) <=> InGroup(f)
    BY <1>1, <1>5, <1>8 DEF InGroup, Ending
  <1>14. Calm(t, g)
    <2>1. UNCHANGED <<rec, grp, dq, base, hq, live>>
      BY <1>1 DEF qVars
    <2>2. g.pc \notin IdlePcs \cup {"out", "wakeall", "link"}
      BY <1>8 DEF IdlePcs, TcPcs
    <2> QED
      BY <1>1, <1>3, <1>5, <1>7, <1>9, <1>10, <1>11, <1>12, <1>13, <2>1, <2>2 DEF Calm, Eased, SameCore
  <1>15. UNCHANGED barVars /\ Naps(t, g.pc)
    BY <1>1, <1>8 DEF waitVars, SlotPcs, TcPcs, Naps, Moved
  <1>16. g.pc \notin IdlePcs /\ pc(t) \notin IdlePcs
    BY <1>1, <1>8 DEF IdlePcs, TcPcs
  <1> QED
    BY <1>2, <1>8, <1>14, <1>15, <1>16, CalmAction
-----------------------------------------------------------------------------
(* How often a list names x, and how often a family of lists does.           *)
Places(s, x) == {j \in DOMAIN s : s[j] = x}
Occ(s, x) == Cardinality(Places(s, x))

LEMMA OccIs ==
  ASSUME NEW S, NEW s \in Seq(S), NEW x
  PROVE  /\ IsFiniteSet(Places(s, x)) /\ Occ(s, x) \in Nat
         /\ (Occ(s, x) = 0 <=> \A j \in DOMAIN s : s[j] # x)
  <1>1. IsFiniteSet(DOMAIN s)
    BY LenProperties, FS_Interval
  <1>2. IsFiniteSet(Places(s, x))
    BY <1>1, FS_Subset DEF Places
  <1> QED
    BY <1>2, FS_CardinalityType, FS_EmptySet DEF Occ, Places

LEMMA OccEmpty ==
  ASSUME NEW x
  PROVE  Occ(<<>>, x) = 0
  <1>1. Places(<<>>, x) = {}
    BY DEF Places
  <1> QED
    BY <1>1, FS_EmptySet DEF Occ

\* The places moved by m.
LEMMA Shifted ==
  ASSUME NEW A \in SUBSET Nat, IsFiniteSet(A), NEW m \in Nat
  PROVE  IsFiniteSet({m + j : j \in A}) /\ Cardinality({m + j : j \in A}) = Cardinality(A)
  <1> DEFINE B == {m + j : j \in A}
             f == [j \in A |-> m + j]
  <1>1. f \in Bijection(A, B)
    <2>1. f \in [A -> B]
      OBVIOUS
    <2>2. \A i, j \in A : f[i] = f[j] => i = j
      OBVIOUS
    <2>3. \A b \in B : \E j \in A : f[j] = b
      OBVIOUS
    <2> QED
      BY <2>1, <2>2, <2>3 DEF Bijection, Injection, Surjection, IsInjective
  <1>2. ExistsBijection(A, B)
    BY <1>1 DEF ExistsBijection
  <1> QED
    BY <1>2, FS_Bijection

LEMMA OccConcat ==
  ASSUME NEW S, NEW s \in Seq(S), NEW u \in Seq(S), NEW x
  PROVE  Occ(s \o u, x) = Occ(s, x) + Occ(u, x)
  <1> DEFINE m == Len(s)
             A == Places(s, x)
             B == Places(u, x)
             C == {m + j : j \in B}
  <1>1. /\ m \in Nat /\ Len(u) \in Nat /\ s \o u \in Seq(S) /\ Len(s \o u) = m + Len(u)
        /\ \A i \in 1 .. m + Len(u) : (s \o u)[i] = IF i <= m THEN s[i] ELSE u[i - m]
        /\ DOMAIN s = 1 .. m /\ DOMAIN u = 1 .. Len(u) /\ DOMAIN (s \o u) = 1 .. m + Len(u)
    BY LenProperties, ConcatProperties
  <1>2. IsFiniteSet(A) /\ IsFiniteSet(B) /\ Cardinality(A) \in Nat /\ Cardinality(B) \in Nat
    BY OccIs DEF Occ
  <1>3. IsFiniteSet(C) /\ Cardinality(C) = Cardinality(B)
    <2>1. B \in SUBSET Nat
      BY <1>1 DEF Places
    <2> HIDE DEF B
    <2> QED
      BY <1>1, <1>2, <2>1, Shifted
  <1>4. Places(s \o u, x) = A \cup C
    <2>1. ASSUME NEW i \in 1 .. m + Len(u), (s \o u)[i] = x
          PROVE  i \in A \cup C
      <3>1. CASE i <= m
        BY <1>1, <2>1, <3>1 DEF Places
      <3>2. CASE ~ (i <= m)
        <4>1. i - m \in B /\ i = m + (i - m)
          BY <1>1, <2>1, <3>2 DEF Places
        <4> QED
          BY <4>1
      <3> QED
        BY <3>1, <3>2
    <2>2. ASSUME NEW i \in A
          PROVE  i \in 1 .. m + Len(u) /\ (s \o u)[i] = x
      BY <1>1, <2>2 DEF Places
    <2>3. ASSUME NEW j \in B
          PROVE  m + j \in 1 .. m + Len(u) /\ (s \o u)[m + j] = x
      BY <1>1, <2>3 DEF Places
    <2> QED
      BY <1>1, <2>1, <2>2, <2>3 DEF Places
  <1>5. A \cap C = {}
    BY <1>1 DEF Places
  <1>6. Occ(s, x) = Cardinality(A) /\ Occ(u, x) = Cardinality(B) /\ Occ(s \o u, x) = Cardinality(A \cup C)
    BY <1>4 DEF Occ
  <1> HIDE DEF A, B, C
  <1>7. Cardinality(A \cup C) = Cardinality(A) + Cardinality(C) - Cardinality(A \cap C)
    BY <1>2, <1>3, FS_Union
  <1>8. Cardinality(A \cap C) = 0
    BY <1>5, FS_EmptySet
  <1> QED
    BY <1>2, <1>3, <1>6, <1>7, <1>8

LEMMA OccOne ==
  ASSUME NEW y, NEW x
  PROVE  Occ(<<y>>, x) = IF y = x THEN 1 ELSE 0
  <1>1. Places(<<y>>, x) = IF y = x THEN {1} ELSE {}
    BY DEF Places
  <1> QED
    BY <1>1, FS_EmptySet, FS_Singleton DEF Occ

LEMMA OccAppend ==
  ASSUME NEW S, NEW s \in Seq(S), NEW y \in S, NEW x
  PROVE  Occ(Append(s, y), x) = Occ(s, x) + IF y = x THEN 1 ELSE 0
  <1>1. <<y>> \in Seq(S) /\ Append(s, y) = s \o <<y>>
    BY AppendIsConcat
  <1>2. Occ(s \o <<y>>, x) = Occ(s, x) + Occ(<<y>>, x)
    BY <1>1, OccConcat
  <1>3. Occ(<<y>>, x) = IF y = x THEN 1 ELSE 0
    BY OccOne
  <1> QED
    BY <1>1, <1>2, <1>3

LEMMA OccTail ==
  ASSUME NEW S, NEW s \in Seq(S), s # <<>>, NEW x
  PROVE  /\ Head(s) \in S /\ Tail(s) \in Seq(S)
         /\ Occ(s, x) = Occ(Tail(s), x) + IF Head(s) = x THEN 1 ELSE 0
  <1>1. Head(s) \in S /\ Tail(s) \in Seq(S) /\ <<Head(s)>> \in Seq(S)
    BY HeadTailProperties
  <1>2. s = <<Head(s)>> \o Tail(s)
    OBVIOUS
  <1>3. Occ(<<Head(s)>> \o Tail(s), x) = Occ(<<Head(s)>>, x) + Occ(Tail(s), x)
    BY <1>1, OccConcat
  <1>4. Occ(<<Head(s)>>, x) = IF Head(s) = x THEN 1 ELSE 0
    BY OccOne
  <1>5. Occ(Tail(s), x) \in Nat
    BY <1>1, OccIs
  <1>6. Occ(s, x) = Occ(<<Head(s)>> \o Tail(s), x)
    BY <1>2
  <1> QED
    BY <1>1, <1>3, <1>4, <1>5, <1>6


\* The places of a family outside one of its lists.
Rest(L, h, x) == Mentions(L, x) \ ({h} \X Places(L[h], x))
Family(H, S) == [H -> Seq(S)]

LEMMA MentionsAre ==
  ASSUME NEW H, IsFiniteSet(H), NEW S, NEW L \in Family(H, S), NEW h \in H, NEW x
  PROVE  /\ IsFiniteSet(Mentions(L, x)) /\ Cardinality(Mentions(L, x)) \in Nat
         /\ IsFiniteSet(Rest(L, h, x))
         /\ Cardinality(Mentions(L, x)) = Cardinality(Rest(L, h, x)) + Occ(L[h], x)
         /\ Occ(L[h], x) \in Nat
  <1> USE DEF Family, Rest
  <1> DEFINE M == Mentions(L, x)
             P == {h} \X Places(L[h], x)
  <1>1. IsFiniteSet(M)
    <2> DEFINE N == {{k} \X {j \in DOMAIN L[k] : L[k][j] = x} : k \in H}
    <2>1. M = UNION N
      BY DEF Mentions
    <2>2. IsFiniteSet(N)
      <3> DEFINE f == [k \in H |-> {k} \X {j \in DOMAIN L[k] : L[k][j] = x}]
      <3>1. f \in Surjection(H, N)
        BY DEF Surjection
      <3> QED
        BY <3>1, FS_Surjection
    <2>3. \A T \in N : IsFiniteSet(T)
      <3> SUFFICES ASSUME NEW k \in H PROVE IsFiniteSet({k} \X {j \in DOMAIN L[k] : L[k][j] = x})
        OBVIOUS
      <3>1. IsFiniteSet({j \in DOMAIN L[k] : L[k][j] = x})
        BY OccIs DEF Places
      <3>2. IsFiniteSet({k})
        BY FS_Singleton
      <3> QED
        BY <3>1, <3>2, FS_Product
    <2> HIDE DEF N
    <2> QED
      BY <2>1, <2>2, <2>3, FS_UNION
  <1>2. P \subseteq M
    BY DEF Mentions, Places
  <1>3. IsFiniteSet(P) /\ Cardinality(P) = Occ(L[h], x) /\ Occ(L[h], x) \in Nat
    <2>1. IsFiniteSet(Places(L[h], x)) /\ Occ(L[h], x) \in Nat
      BY OccIs
    <2>2. IsFiniteSet({h}) /\ Cardinality({h}) = 1
      BY FS_Singleton
    <2>3. IsFiniteSet(P) /\ Cardinality(P) = 1 * Occ(L[h], x)
      BY <2>1, <2>2, FS_Product DEF Occ
    <2> QED
      BY <2>1, <2>3
  <1> HIDE DEF M, P
  <1>4. M \cap P = P
    BY <1>2
  <1>5. IsFiniteSet(M \ P) /\ Cardinality(M \ P) = Cardinality(M) - Cardinality(P)
    BY <1>1, <1>4, FS_Difference
  <1>6. Cardinality(M) \in Nat
    BY <1>1, FS_CardinalityType
  <1>7. Cardinality(M) = Cardinality(M \ P) + Occ(L[h], x)
    BY <1>3, <1>5, <1>6
  <1> QED
    BY <1>1, <1>3, <1>5, <1>6, <1>7 DEF M, P

LEMMA MentionsRest ==
  ASSUME NEW H, NEW S, NEW L \in Family(H, S), NEW K \in Family(H, S),
         NEW h \in H, \A k \in H : k # h => K[k] = L[k], NEW x
  PROVE  Rest(K, h, x) = Rest(L, h, x)
  <1>1. DOMAIN L = H /\ DOMAIN K = H
    BY DEF Family
  <1>2. ASSUME NEW k \in H, NEW j
        PROVE  <<k, j>> \in Rest(L, h, x) <=> k # h /\ j \in DOMAIN L[k] /\ L[k][j] = x
    BY <1>1 DEF Rest, Mentions, Places
  <1>3. ASSUME NEW k \in H, NEW j
        PROVE  <<k, j>> \in Rest(K, h, x) <=> k # h /\ j \in DOMAIN K[k] /\ K[k][j] = x
    BY <1>1 DEF Rest, Mentions, Places
  <1>4. \A e \in Rest(L, h, x) : \E k \in H : \E j \in DOMAIN L[k] : e = <<k, j>>
    BY <1>1 DEF Rest, Mentions
  <1>5. \A e \in Rest(K, h, x) : \E k \in H : \E j \in DOMAIN K[k] : e = <<k, j>>
    BY <1>1 DEF Rest, Mentions
  <1>6. ASSUME NEW e \in Rest(K, h, x)
        PROVE  e \in Rest(L, h, x)
    <2>1. PICK k \in H : \E j \in DOMAIN K[k] : e = <<k, j>>
      BY <1>5
    <2>2. PICK j \in DOMAIN K[k] : e = <<k, j>>
      BY <2>1
    <2>3. k # h /\ j \in DOMAIN K[k] /\ K[k][j] = x
      BY <1>3, <2>2
    <2> QED
      BY <1>2, <2>2, <2>3
  <1>7. ASSUME NEW e \in Rest(L, h, x)
        PROVE  e \in Rest(K, h, x)
    <2>1. PICK k \in H : \E j \in DOMAIN L[k] : e = <<k, j>>
      BY <1>4
    <2>2. PICK j \in DOMAIN L[k] : e = <<k, j>>
      BY <2>1
    <2>3. k # h /\ j \in DOMAIN L[k] /\ L[k][j] = x
      BY <1>2, <2>2
    <2> QED
      BY <1>3, <2>2, <2>3
  <1> QED
    BY <1>6, <1>7

\* Two families that differ in one list.
LEMMA MentionsDiffer ==
  ASSUME NEW H, IsFiniteSet(H), NEW S, NEW L \in Family(H, S), NEW K \in Family(H, S),
         NEW h \in H, \A k \in H : k # h => K[k] = L[k], NEW x
  PROVE  /\ Cardinality(Mentions(L, x)) \in Nat /\ Cardinality(Mentions(K, x)) \in Nat
         /\ Occ(L[h], x) \in Nat /\ Occ(K[h], x) \in Nat
         /\ Occ(L[h], x) <= Cardinality(Mentions(L, x))
         /\ Cardinality(Mentions(K, x)) + Occ(L[h], x) = Cardinality(Mentions(L, x)) + Occ(K[h], x)
  <1>1. /\ Cardinality(Mentions(L, x)) \in Nat /\ IsFiniteSet(Rest(L, h, x)) /\ Occ(L[h], x) \in Nat
        /\ Cardinality(Mentions(L, x)) = Cardinality(Rest(L, h, x)) + Occ(L[h], x)
    BY MentionsAre
  <1>2. /\ Cardinality(Mentions(K, x)) \in Nat /\ Occ(K[h], x) \in Nat
        /\ Cardinality(Mentions(K, x)) = Cardinality(Rest(K, h, x)) + Occ(K[h], x)
    BY MentionsAre
  <1>3. Rest(K, h, x) = Rest(L, h, x)
    BY MentionsRest
  <1>5. Cardinality(Rest(L, h, x)) \in Nat
    BY <1>1, FS_CardinalityType
  <1> QED
    BY <1>1, <1>2, <1>3, <1>5

LEMMA MentionsFinite ==
  ASSUME NEW H, IsFiniteSet(H), NEW S, NEW L \in Family(H, S), NEW x
  PROVE  /\ Cardinality(Mentions(L, x)) \in Nat
         /\ (Cardinality(Mentions(L, x)) = 0 <=> \A h \in H : \A j \in DOMAIN L[h] : L[h][j] # x)
  <1>1. CASE H = {}
    <2>1. Mentions(L, x) = {}
      BY <1>1 DEF Mentions, Family
    <2> QED
      BY <1>1, <2>1, FS_EmptySet
  <1>2. CASE H # {}
    <2>1. PICK h \in H : TRUE
      BY <1>2
    <2>2. IsFiniteSet(Mentions(L, x)) /\ Cardinality(Mentions(L, x)) \in Nat
      BY <2>1, MentionsAre
    <2>3. Cardinality(Mentions(L, x)) = 0 <=> Mentions(L, x) = {}
      BY <2>2, FS_EmptySet
    <2>4. Mentions(L, x) = {} <=> \A k \in H : \A j \in DOMAIN L[k] : L[k][j] # x
      <3>1. DOMAIN L = H
        BY DEF Family
      <3>2. ASSUME NEW k \in H, NEW j \in DOMAIN L[k], L[k][j] = x
            PROVE  <<k, j>> \in Mentions(L, x)
        BY <3>1, <3>2 DEF Mentions
      <3>3. ASSUME NEW e \in Mentions(L, x)
            PROVE  \E k \in H : \E j \in DOMAIN L[k] : L[k][j] = x
        BY <3>1 DEF Mentions
      <3> QED
        BY <3>2, <3>3
    <2> QED
      BY <2>2, <2>3, <2>4
  <1> QED
    BY <1>1, <1>2

LEMMA EpochSet ==
  ASSUME NEW q \in RecT, NEW e \in Nat
  PROVE  LET r == [q EXCEPT !.epoch = e] IN
         r \in RecT /\ SameCore(q, r) /\ r.group = q.group /\ r.epoch = e
  BY DEF RecT, SameCore

LEMMA RecSet ==
  ASSUME rec \in [Recs -> RecT], NEW x \in Recs, NEW r \in RecT, rec' = [rec EXCEPT ![x] = r]
  PROVE  rec' \in [Recs -> RecT] /\ rec'[x] = r /\ \A y \in Recs \ {x} : rec'[y] = rec[y]
  OBVIOUS
-----------------------------------------------------------------------------
(* The barrier.                                                            *)

\* With no task unsettled and every thread at its barrier or inside nothing
\* but its implicit task, every task is over.
LEMMA AllOver ==
  ASSUME TasksInv, live = 0,
         \A s \in Threads : stack[s][1].pc \in IdlePcs \/ Len(stack[s]) = 1,
         NEW x \in Tasks, rec[x].st # "none"
  PROVE  Over(x)
  <1>1. Shape /\ StacksOK /\ RecsOK /\ LiveOK
    BY DEF TasksInv, CountsOK
  <1>2. \A y \in Tasks : ~ Unsettled(y)
    <2>1. IsFiniteSet({y \in Tasks : Unsettled(y)})
      BY NoneFree, FS_Subset
    <2>2. {y \in Tasks : Unsettled(y)} = {}
      BY <1>1, <2>1, FS_EmptySet DEF LiveOK
    <2> QED
      BY <2>2
  <1>3. rec[x].st \in {"none", "wait", "run", "over", "freed"} /\ x \in Recs
    BY <1>1, NoneFree DEF Shape, RecT
  <1>4. CASE ~ rec[x].inplace
    BY <1>2, <1>3, <1>4 DEF Unsettled, Deferred, Over
  <1>5. CASE rec[x].inplace /\ rec[x].st = "run"
    <2>1. OnStack(x)
      BY <1>1, <1>3, <1>5, NoneFree DEF RecsOK, Born
    <2>2. PICK s \in Threads : \E i \in DOMAIN stack[s] : stack[s][i].tk = x
      BY <2>1 DEF OnStack
    <2>3. PICK i \in DOMAIN stack[s] : stack[s][i].tk = x
      BY <2>2
    <2>4. PICK n \in Nat : n = Len(stack[s]) /\ n # 0 /\ DOMAIN stack[s] = 1 .. n
      BY <1>1, TopIs
    <2>5. \A j \in 1 .. n : FrameOK(s, j) /\ stack[s][j] \in FrameT
      BY <1>1, <2>4 DEF StacksOK, Shape
    <2>6. stack[s][1].tk = s
      BY <2>4, <2>5 DEF FrameOK, Placed
    <2>7. i # 1 /\ n > 1 /\ 2 \in 1 .. n
      BY <2>3, <2>4, <2>6, NoneFree
    <2>8. stack[s][1].pc \in IdlePcs
      <3>1. n # 1
        BY <2>4, <2>7
      <3> QED
        BY <2>4, <3>1
    <2>9. Deferred(stack[s][2].tk) /\ stack[s][2].pc \notin IdlePcs
      BY <2>5, <2>7, <2>8 DEF FrameOK, Placed
    <2>10. i # 2
      BY <1>5, <2>3, <2>9 DEF Deferred
    <2>11. 2 < n
      BY <2>3, <2>4, <2>7, <2>10
    <2>12. stack[s][2].pc \in {"wait", "body"}
      BY <2>4, <2>5, <2>7, <2>9, <2>11 DEF FrameOK, Placed, IdlePcs
    <2>13. rec[stack[s][2].tk].st = "run"
      BY <2>5, <2>7, <2>9, <2>12 DEF FrameOK, Fate, RunPcs, WaitPcs, Deferred
    <2> QED
      BY <1>2, <2>9, <2>13 DEF Unsettled, Deferred
  <1>6. rec[x].inplace => rec[x].st # "wait"
    BY <1>1, <1>3, NoneFree DEF RecsOK, Born
  <1>7. rec[x].inplace \in BOOLEAN
    BY <1>1, <1>3 DEF Shape, RecT
  <1> QED
    BY <1>3, <1>4, <1>5, <1>6, <1>7 DEF Over

\* An implicit task without an open taskgroup, or at a barrier, is in none.
LEMMA NoGroup ==
  ASSUME TasksInv, NEW t \in Threads, ~ OpenGroup(t) \/ stack[t][1].pc \in IdlePcs
  PROVE  rec[t].group = None
  <1>1. GroupsOK /\ Nested /\ Born(t) /\ t \in Recs
    BY NoneFree DEF TasksInv, GroupsOK, RecsOK
  <1>2. rec[t].home = None
    BY <1>1 DEF Born
  <1> QED
    BY <1>1, <1>2 DEF GroupsOK, OpenGroup, Nested

\* A step of a thread that arrives at its barrier, or tests it again.
LEMMA BarrierTestStep ==
  ASSUME TasksInv, NEW t \in Threads, NEW arr, BarrierTest(t, arr, gen'[t]), AtBarrier(t),
         Len(stack[t]) = 1, pc(t) \in {"body", "retest", "doze", "roused"}, rec[t].group = None,
         arr = Cardinality({s \in Threads : (s = t \/ InBarrier(s)) /\ gen'[s] = bgen}),
         gen' \in [Threads -> Nat], \A s \in Threads \ {t} : gen'[s] = gen[s],
         gen'[t] = passed[t], passed[t] \in {bgen, bgen - 1},
         Moved(sleepers, sleepers', pc(t), "body", TcPcs),
         UNCHANGED <<grp, qVars, live, waitVars>>
  PROVE  TasksInv'
  <1> DEFINE A == {s \in Threads : (s = t \/ InBarrier(s)) /\ gen'[s] = bgen}
             B == {s \in Threads : InBarrier(s) /\ gen[s] = bgen}
  <1>1. /\ Shape /\ StacksOK /\ RecsOK /\ SleepOK /\ BarrierOK /\ Cur(t) = t /\ Top(t) \in FrameT
        /\ Fate(Top(t)) /\ Counts(Top(t)) /\ Drops(Top(t)) /\ Top(t).tk = t /\ Top(t).pc = pc(t)
        /\ t \in Recs /\ stack[t][1] = Top(t)
    BY CurIs, TopIs DEF CountsOK, Cur
  <1>2. rec[t].st = "run" /\ Top(t).drop = <<>> /\ Top(t).ctr = <<>>
    BY <1>1 DEF Fate, Drops, Counts, RunPcs, WaitPcs, IdlePcs, TcPcs
  <1>3. /\ passed \in [Threads -> Nat] /\ bgen \in Nat /\ Barriers \in Nat /\ rec \in [Recs -> RecT]
        /\ barrived \in Int /\ gen \in [Threads -> Nat]
    BY <1>1, TasksAssumption DEF Shape
  <1>4. IsFiniteSet(A) /\ Cardinality(A) \in Nat /\ arr = Cardinality(A)
    BY NoneFree, FS_Subset, FS_CardinalityType
  <1>5. tm' = Free /\ grp' = grp /\ dq' = dq /\ base' = base /\ hq' = hq /\ live' = live /\ nwait' = nwait
    BY DEF BarrierTest, qVars, waitVars
  <1>6. ASSUME NEW p \in {"body", "find"}, Topped(t, Frame(t, p)),
               \A y \in Recs \ {t} : rec'[y] = rec[y],
               SameCore(rec[t], rec'[t]), rec'[t].group = rec[t].group,
               rec' \in [Recs -> RecT], barrived' \in Int, bgen' \in Nat, passed' \in [Threads -> Nat],
               BarrierOK'
        PROVE  TasksInv'
    <2> DEFINE g == Frame(t, p)
    <2>1. IsFrame(g, t, p, <<>>, <<>>)
      BY <1>1, PcIs, FrameIs DEF IdlePcs
    <2>2. Topped(t, g)
      BY <1>6
    <2> HIDE DEF g
    <2>3. Fate(g) /\ Counts(g) /\ Drops(g)
      BY <1>2, <2>1 DEF IsFrame, Fate, Counts, Drops, RunPcs, WaitPcs, IdlePcs, TcPcs
    <2>4. Eased(t, g)
      <3>1. Ending(g) <=> Ending(Top(t))
        BY <1>1, <2>1 DEF IsFrame, Ending, IdlePcs, TcPcs
      <3>2. InGroup(g) <=> InGroup(Top(t))
        BY <1>1, <2>1 DEF IsFrame, Ending, InGroup, IdlePcs, TcPcs
      <3>3. (g.pc = "wakeall" <=> pc(t) = "wakeall") /\ g.pc \notin {"link", "unref", "leave"}
        BY <2>1 DEF IsFrame, IdlePcs, TcPcs
      <3>4. g \in FrameT /\ g.tk = t /\ g.drop = Top(t).drop
        BY <1>2, <2>1 DEF IsFrame
      <3> QED
        BY <1>1, <1>5, <1>6, <2>2, <2>3, <3>1, <3>2, <3>3, <3>4 DEF Eased
    <2>5. Below(t) /\ Top(t)' = g
      BY <1>1, <2>2, TopAfter DEF Topped
    <2>6. SleepOK'
      <3>1. pc(t)' = p
        BY <2>1, <2>5 DEF IsFrame, pc
      <3>2. Naps(t, p)
        BY <1>5 DEF Naps, Moved, SlotPcs, TcPcs, IdlePcs
      <3> QED
        BY <1>1, <2>5, <3>1, <3>2, SleepMoves
    <2>7. Shape'
      <3>1. sleepers \in Int
        BY <1>1 DEF Shape
      <3>2. sleepers' \in Int
        BY <3>1 DEF Moved
      <3> QED
        BY <1>1, <1>5, <1>6, <2>5, <3>2 DEF Shape, Below
    <2> QED
      BY <1>6, <2>4, <2>6, <2>7, EasedStep
  \* What BarrierOK needs, once t has gone to p.
  <1>7. ASSUME NEW p \in {"body", "find"}, Topped(t, Frame(t, p))
        PROVE  /\ \A s \in Threads \ {t} :
                    /\ (stack'[s][1].pc \in IdlePcs <=> stack[s][1].pc \in IdlePcs)
                    /\ (stack'[s][1].pc = "retest" <=> stack[s][1].pc = "retest")
                    /\ (stack'[s][1].pc = "drain" <=> stack[s][1].pc = "drain")
               /\ stack'[t][1].pc = p
    <2>1. Below(t) /\ stack'[t][1] = Frame(t, p)
      BY <1>7 DEF Topped
    <2>2. \A s \in Threads \ {t} :
             /\ (stack'[s][1].pc \in IdlePcs <=> stack[s][1].pc \in IdlePcs)
             /\ (stack'[s][1].pc = "retest" <=> stack[s][1].pc = "retest")
             /\ (stack'[s][1].pc = "drain" <=> stack[s][1].pc = "drain")
      <3>1. \A s \in Threads : s # t =>
             /\ (stack'[s][1].pc \in IdlePcs <=> stack[s][1].pc \in IdlePcs)
             /\ (stack'[s][1].pc = "retest" <=> stack[s][1].pc = "retest")
             /\ (stack'[s][1].pc = "drain" <=> stack[s][1].pc = "drain")
        BY <1>1, <2>1, FirstAfter
      <3> QED
        BY <3>1
    <2>3. stack'[t][1].pc = p
      <3>1. IsFrame(Frame(t, p), t, p, <<>>, <<>>)
        BY <1>1, PcIs, FrameIs DEF IdlePcs
      <3> QED
        BY <2>1, <3>1 DEF IsFrame
    <2> QED
      BY <2>2, <2>3
  <1>8. ASSUME Pass(t)
        PROVE  /\ \A y \in Recs \ {t} : rec'[y] = rec[y]
               /\ SameCore(rec[t], rec'[t]) /\ rec'[t].group = rec[t].group
               /\ rec' \in [Recs -> RecT] /\ passed' \in [Threads -> Nat]
               /\ rec'[t].epoch = passed[t] + 1 /\ passed'[t] = passed[t] + 1
               /\ \A s \in Threads \ {t} : passed'[s] = passed[s] /\ rec'[s] = rec[s]
               /\ \A y \in Tasks : rec'[y] = rec[y]
    <2>1. rec' = [rec EXCEPT ![t].epoch = passed[t] + 1] /\ passed' = [passed EXCEPT ![t] = @ + 1]
      BY <1>8 DEF Pass
    <2>2. passed[t] \in Nat /\ rec[t] \in RecT
      BY <1>1, <1>3
    <2> DEFINE r == [rec[t] EXCEPT !.epoch = passed[t] + 1]
    <2>3. r \in RecT /\ SameCore(rec[t], r) /\ r.group = rec[t].group /\ r.epoch = passed[t] + 1
      <3>1. passed[t] + 1 \in Nat
        BY <2>2
      <3> QED
        BY <2>2, <3>1, EpochSet
    <2>4. rec' = [rec EXCEPT ![t] = r]
      BY <2>1
    <2> HIDE DEF r
    <2>5. rec' \in [Recs -> RecT] /\ rec'[t] = r /\ \A y \in Recs \ {t} : rec'[y] = rec[y]
      BY <1>1, <1>3, <2>3, <2>4, RecSet
    <2>6. passed' \in [Threads -> Nat] /\ passed'[t] = passed[t] + 1 /\ \A s \in Threads \ {t} : passed'[s] = passed[s]
      BY <1>3, <2>1, <2>2
    <2> QED
      BY <2>3, <2>5, <2>6, NoneFree
  <1>9. CASE Quiet(arr)
    <2>1. /\ barrived' = 0 /\ bgen' = bgen + 1 /\ Pass(t)
          /\ stack' = Rouse(WithTop(t, Frame(t, "body")), OnTc, "roused")
      BY <1>9 DEF BarrierTest
    <2>2. A = Threads
      BY <1>4, <1>9, NoneFree, FS_Subset DEF Quiet
    <2>3. \A s \in Threads : gen'[s] = bgen /\ (s = t \/ InBarrier(s))
      BY <2>2
    <2>4. \A s \in Threads : passed[s] = bgen
      BY <1>1, <2>3 DEF BarrierOK
    <2>5. \A y \in Tasks : rec[y].st # "none" => Over(y)
      <3>1. \A s \in Threads : stack[s][1].pc \in IdlePcs \/ Len(stack[s]) = 1
        BY <2>3 DEF InBarrier
      <3> QED
        BY <1>9, <3>1, AllOver DEF Quiet
    <2>6. Topped(t, Frame(t, "body"))
      <3>1. Frame(t, "body") \in FrameT
        BY <1>1, PcIs, FrameIs DEF IsFrame
      <3>2. t \notin OnTc /\ OnTc \in SUBSET OnTc
        BY DEF OnTc
      <3> QED
        BY <1>1, <2>1, <3>1, <3>2, RouseTc
    <2>7. BarrierOK'
      <3>1. /\ \A s \in Threads \ {t} : InBarrier(s)' /\ passed'[s] = bgen' - 1
            /\ ~ InBarrier(t)' /\ passed'[t] = bgen' /\ passed'[t] <= Barriers
        BY <1>3, <1>7, <1>8, <2>1, <2>3, <2>4, <2>6 DEF InBarrier, AtBarrier, IdlePcs, TcPcs
      <3>2. {s \in Threads : InBarrier(s)' /\ gen'[s] = bgen'} = {}
        <4>1. bgen # bgen'
          BY <1>3, <2>1
        <4> QED
          BY <2>3, <3>1, <4>1
      <3>3. barrived' = Cardinality({s \in Threads : InBarrier(s) /\ gen[s] = bgen}')
        BY <2>1, <3>2, FS_EmptySet
      <3>4. \A y \in Tasks : rec'[y].st # "none" /\ rec'[y].epoch < bgen' => Over(y)'
        BY <1>8, <2>1, <2>5 DEF Over
      <3>5. ASSUME NEW s \in Threads
            PROVE  /\ passed'[s] <= Barriers /\ rec'[s].epoch = passed'[s]
                   /\ IF InBarrier(s)' THEN gen'[s] = passed'[s] /\ passed'[s] \in {bgen', bgen' - 1}
                      ELSE passed'[s] = bgen'
                   /\ stack'[s][1].pc = "retest" => AtBarrier(s)'
                   /\ stack'[s][1].pc = "drain" => ~ AtBarrier(s)'
        <4>1. CASE s = t
          BY <1>7, <1>8, <2>1, <2>6, <3>1, <4>1
        <4>2. CASE s # t
          BY <1>1, <1>3, <1>7, <1>8, <2>1, <2>3, <2>4, <2>6, <3>1, <4>2 DEF BarrierOK, AtBarrier
        <4> QED
          BY <4>1, <4>2
      <3> QED
        BY <3>3, <3>4, <3>5 DEF BarrierOK
    <2>8. bgen' \in Nat /\ barrived' \in Int
      BY <1>3, <2>1
    <2> QED
      BY <1>6, <1>8, <2>1, <2>6, <2>7, <2>8
  <1>10. CASE ~ Quiet(arr)
    <2>1. PICK p \in {"body", "find"} :
            /\ barrived' = arr /\ bgen' = bgen /\ SetTop(t, Frame(t, p))
            /\ p = "body" => gen'[t] # bgen /\ Pass(t)
            /\ p = "find" => gen'[t] = bgen /\ passed' = passed /\ rec' = rec
      <3>1. \/ /\ gen'[t] # bgen /\ barrived' = arr /\ bgen' = bgen
               /\ SetTop(t, Frame(t, "body")) /\ Pass(t)
            \/ /\ gen'[t] = bgen /\ barrived' = arr /\ SetTop(t, Frame(t, "find"))
               /\ bgen' = bgen /\ passed' = passed /\ rec' = rec
        BY <1>10 DEF BarrierTest
      <3> QED
        BY <3>1
    <2>2. Topped(t, Frame(t, p))
      <3>1. Frame(t, p) \in FrameT
        BY <1>1, PcIs, FrameIs DEF IsFrame, IdlePcs
      <3> QED
        BY <1>1, <2>1, <3>1, SetTopStep
    <2>3. /\ \A y \in Recs \ {t} : rec'[y] = rec[y]
          /\ SameCore(rec[t], rec'[t]) /\ rec'[t].group = rec[t].group
          /\ rec' \in [Recs -> RecT] /\ passed' \in [Threads -> Nat]
          /\ \A s \in Threads \ {t} : passed'[s] = passed[s] /\ rec'[s] = rec[s]
          /\ \A y \in Tasks : rec'[y] = rec[y]
          /\ rec'[t].epoch = passed'[t]
      <3>1. CASE p = "body"
        BY <1>8, <2>1, <3>1
      <3>2. CASE p = "find"
        <4>1. rec[t].epoch = passed[t]
          BY <1>1 DEF BarrierOK
        <4> QED
          BY <1>3, <2>1, <3>2, <4>1 DEF SameCore
      <3> QED
        BY <3>1, <3>2
    <2>4. passed'[t] = bgen /\ passed'[t] <= Barriers /\ (p = "find" => passed'[t] < Barriers)
      <3>1. CASE p = "body"
        BY <1>3, <1>8, <2>1, <3>1 DEF AtBarrier
      <3>2. CASE p = "find"
        BY <1>3, <2>1, <3>2 DEF AtBarrier
      <3> QED
        BY <3>1, <3>2
    <2>5. /\ \A s \in Threads \ {t} : InBarrier(s)' <=> InBarrier(s)
          /\ InBarrier(t)' <=> p = "find"
      BY <1>3, <1>7, <2>2, <2>3, <2>4 DEF InBarrier, AtBarrier, IdlePcs, TcPcs
    <2>6. BarrierOK'
      <3>1. {s \in Threads : InBarrier(s) /\ gen[s] = bgen}' = A
        <4>1. ASSUME NEW s \in Threads
              PROVE  (InBarrier(s)' /\ gen'[s] = bgen') <=> s \in A
          BY <2>1, <2>5
        <4> QED
          BY <4>1
      <3>2. ASSUME NEW s \in Threads
            PROVE  /\ passed'[s] <= Barriers /\ rec'[s].epoch = passed'[s]
                   /\ IF InBarrier(s)' THEN gen'[s] = passed'[s] /\ passed'[s] \in {bgen', bgen' - 1}
                      ELSE passed'[s] = bgen'
                   /\ stack'[s][1].pc = "retest" => AtBarrier(s)'
                   /\ stack'[s][1].pc = "drain" => ~ AtBarrier(s)'
        <4>1. CASE s = t
          BY <1>7, <2>1, <2>2, <2>3, <2>4, <2>5, <4>1
        <4>2. CASE s # t
          BY <1>1, <1>3, <1>7, <2>1, <2>2, <2>3, <2>5, <4>2 DEF BarrierOK, AtBarrier
        <4> QED
          BY <4>1, <4>2
      <3>3. \A y \in Tasks : rec'[y].st # "none" /\ rec'[y].epoch < bgen' => Over(y)'
        BY <1>1, <2>1, <2>3 DEF Over, BarrierOK
      <3> HIDE DEF A
      <3> QED
        BY <1>4, <2>1, <3>1, <3>2, <3>3 DEF BarrierOK
    <2>7. bgen' \in Nat /\ barrived' \in Int
      BY <1>3, <1>4, <2>1
    <2> QED
      BY <1>6, <2>2, <2>3, <2>6, <2>7
  <1> QED
    BY <1>9, <1>10

LEMMA BarrierArriveStep ==
  ASSUME TasksInv, NEW t \in Threads, BarrierArrive(t)
  PROVE  TasksInv'
  <1> DEFINE A == {s \in Threads : (s = t \/ InBarrier(s)) /\ gen'[s] = bgen}
             B == {s \in Threads : InBarrier(s) /\ gen[s] = bgen}
  <1>1. /\ pc(t) = "body" /\ Len(stack[t]) = 1 /\ AtBarrier(t) /\ gen' = [gen EXCEPT ![t] = bgen]
        /\ BarrierTest(t, barrived + 1, bgen)
        /\ UNCHANGED <<grp, qVars, live, waitVars>> /\ sleepers' = sleepers /\ ~ OpenGroup(t)
    BY DEF BarrierArrive, BodyOver
  <1>2. Shape /\ StacksOK /\ BarrierOK /\ stack[t][1] = Top(t) /\ gen \in [Threads -> Nat] /\ bgen \in Nat
    BY <1>1, CurIs, TopIs DEF Shape
  <1>3. ~ InBarrier(t)
    BY <1>1, <1>2 DEF InBarrier, pc, IdlePcs, TcPcs
  <1>4. passed[t] = bgen
    BY <1>2, <1>3 DEF BarrierOK
  <1>5. gen' \in [Threads -> Nat] /\ gen'[t] = bgen /\ \A s \in Threads \ {t} : gen'[s] = gen[s]
    BY <1>1, <1>2
  <1>6. A = B \cup {t} /\ t \notin B
    BY <1>3, <1>5
  <1>7. IsFiniteSet(B) /\ barrived = Cardinality(B)
    BY <1>2, NoneFree, FS_Subset DEF BarrierOK
  <1>8. barrived + 1 = Cardinality(A)
    BY <1>6, <1>7, FS_AddElement
  <1>9. Moved(sleepers, sleepers', pc(t), "body", TcPcs)
    BY <1>1 DEF Moved
  <1> QED
    BY <1>1, <1>4, <1>5, <1>8, <1>9, NoGroup, BarrierTestStep

LEMMA BarrierAgain ==
  ASSUME TasksInv, NEW t \in Threads, pc(t) \in {"retest", "doze", "roused"}, AtBarrier(t),
         BarrierTest(t, barrived, gen[t]),
         UNCHANGED <<grp, qVars, live, waitVars, gen>>,
         Moved(sleepers, sleepers', pc(t), "body", TcPcs)
  PROVE  TasksInv'
  <1> DEFINE A == {s \in Threads : (s = t \/ InBarrier(s)) /\ gen'[s] = bgen}
  <1>1. Shape /\ StacksOK /\ BarrierOK /\ Len(stack[t]) = 1 /\ gen \in [Threads -> Nat]
    BY CurIs DEF Shape, IdlePcs, TcPcs
  <1>2. InBarrier(t)
    BY <1>1, TopIs DEF InBarrier, pc, IdlePcs, TcPcs
  <1>3. gen[t] = passed[t] /\ passed[t] \in {bgen, bgen - 1}
    BY <1>1, <1>2 DEF BarrierOK
  <1>4. A = {s \in Threads : InBarrier(s) /\ gen[s] = bgen}
    BY <1>2
  <1>5. barrived = Cardinality(A)
    BY <1>1, <1>4 DEF BarrierOK
  <1>6. rec[t].group = None
    BY <1>2, NoGroup DEF InBarrier
  <1> QED
    BY <1>1, <1>3, <1>5, <1>6, BarrierTestStep

LEMMA BarrierRetestStep ==
  ASSUME TasksInv, NEW t \in Threads, BarrierRetest(t)
  PROVE  TasksInv'
  <1>1. /\ pc(t) = "retest" /\ BarrierTest(t, barrived, gen[t])
        /\ UNCHANGED <<grp, qVars, live, waitVars, gen>> /\ sleepers' = sleepers
    BY DEF BarrierRetest
  <1>2. Shape /\ StacksOK /\ BarrierOK /\ Len(stack[t]) = 1
    BY <1>1, CurIs DEF IdlePcs
  <1>3. AtBarrier(t)
    BY <1>1, <1>2, TopIs DEF BarrierOK, pc
  <1>4. Moved(sleepers, sleepers', pc(t), "body", TcPcs)
    BY <1>1 DEF Moved, TcPcs
  <1> QED
    BY <1>1, <1>3, <1>4, BarrierAgain

LEMMA GetUpStep ==
  ASSUME TasksInv, NEW t \in Threads, GetUp(t), pc(t) \in {"doze", "roused"},
         UNCHANGED <<grp, qVars, live, waitVars, gen>>
  PROVE  TasksInv'
  <1>1. sleepers' = sleepers - 1
    BY DEF GetUp
  <1>2. CASE AtBarrier(t) /\ BarrierTest(t, barrived, gen[t])
    <2>1. Moved(sleepers, sleepers', pc(t), "body", TcPcs)
      BY <1>1 DEF Moved, TcPcs
    <2> QED
      BY <1>2, <2>1, BarrierAgain
  <1>3. CASE ~ AtBarrier(t) /\ Goto(t, "drain") /\ tm' = Free /\ UNCHANGED <<rec, barrived, bgen, passed>>
    <2>1. Naps(t, "drain")
      BY <1>1 DEF Naps, Moved, TcPcs, SlotPcs, waitVars
    <2>2. pc(t) \in IdlePcs /\ "drain" \in IdlePcs
      BY DEF IdlePcs, TcPcs
    <2>3. tm' \in Threads \cup {Free} /\ UNCHANGED <<rec, grp, qVars, live, barVars>>
      BY <1>3 DEF barVars
    <2> QED
      BY <1>3, <2>1, <2>2, <2>3, CalmGoto
  <1> QED
    BY <1>2, <1>3 DEF GetUp

LEMMA DozeStep ==
  ASSUME TasksInv, NEW t \in Threads, Doze(t)
  PROVE  TasksInv'
  <1>1. pc(t) = "doze" /\ UNCHANGED <<grp, qVars, live, waitVars, gen>>
    BY DEF Doze
  <1>2. CASE GetUp(t)
    BY <1>1, <1>2, GetUpStep
  <1>3. CASE Goto(t, "idle") /\ tm' = Free /\ UNCHANGED <<rec, sleepers, barrived, bgen, passed>>
    <2>1. Naps(t, "idle")
      BY <1>1, <1>3 DEF Naps, Moved, TcPcs, SlotPcs, waitVars
    <2>2. pc(t) \in IdlePcs /\ "idle" \in IdlePcs
      BY <1>1 DEF IdlePcs, TcPcs
    <2>3. tm' \in Threads \cup {Free} /\ UNCHANGED <<rec, grp, qVars, live, barVars>>
      BY <1>1, <1>3 DEF barVars
    <2> QED
      BY <1>3, <2>1, <2>2, <2>3, CalmGoto
  <1> QED
    BY <1>2, <1>3 DEF Doze

LEMMA RousedStep ==
  ASSUME TasksInv, NEW t \in Threads, Roused(t)
  PROVE  TasksInv'
  <1>1. pc(t) = "roused" /\ GetUp(t) /\ UNCHANGED <<grp, qVars, live, waitVars, gen>>
    BY DEF Roused
  <1> QED
    BY <1>1, GetUpStep

\* The end of the region: a thread that finds tasks left goes to look for them.
LEMMA DrainLookStep ==
  ASSUME TasksInv, NEW t \in Threads, ~ AtBarrier(t), pc(t) \in {"body", "drain"}, Len(stack[t]) = 1,
         rec[t].group = None,
         Goto(t, "find"), UNCHANGED <<rec, grp, qVars, live, sync>>
  PROVE  TasksInv'
  <1> DEFINE g == [Top(t) EXCEPT !.pc = "find"]
  <1>1. /\ Shape /\ StacksOK /\ SleepOK /\ BarrierOK /\ Top(t) \in FrameT /\ Cur(t) \in Recs
        /\ Fate(Top(t)) /\ Counts(Top(t)) /\ Drops(Top(t)) /\ Top(t).tk = Cur(t) /\ Top(t).pc = pc(t)
        /\ "find" \in Pcs /\ SetTop(t, g)
    BY CurIs, PcIs DEF CountsOK, Goto, IdlePcs
  <1>2. rec[Cur(t)].st = "run" /\ Top(t).drop = <<>> /\ Top(t).ctr = <<>>
    BY <1>1 DEF Fate, Drops, Counts, RunPcs, WaitPcs, IdlePcs
  <1>3. IsFrame(g, Cur(t), "find", <<>>, <<>>)
    BY <1>1, <1>2, GotoIs DEF IsFrame
  <1> HIDE DEF g
  <1>4. Topped(t, g)
    BY <1>1, <1>3, SetTopStep DEF IsFrame
  <1>5. Fate(g) /\ Counts(g) /\ Drops(g)
    BY <1>2, <1>3 DEF IsFrame, Fate, Counts, Drops, RunPcs, WaitPcs, IdlePcs, TcPcs
  <1>6. Calm(t, g)
    <2>1. Ending(g) <=> Ending(Top(t))
      BY <1>1, <1>3 DEF IsFrame, Ending
    <2>2. InGroup(g) <=> InGroup(Top(t))
      BY <1>1, <1>3 DEF IsFrame, Ending, InGroup
    <2>3. (g.pc = "wakeall" <=> pc(t) = "wakeall") /\ g.pc \notin {"link", "unref", "leave"}
      BY <1>3 DEF IsFrame
    <2>4. g \in FrameT /\ g.tk = Cur(t) /\ g.drop = Top(t).drop /\ UNCHANGED <<rec, grp, dq, base, hq, live>>
      BY <1>2, <1>3 DEF IsFrame, qVars
    <2> QED
      BY <1>4, <1>5, <2>1, <2>2, <2>3, <2>4 DEF Calm, Eased, SameCore
  <1>7. Below(t) /\ Top(t)' = g /\ pc(t)' = "find" /\ stack'[t][1] = g
    BY <1>1, <1>3, <1>4, TopAfter DEF Topped, IsFrame, pc
  <1>8. /\ tm' = tm /\ nwait' = nwait /\ sleepers' = sleepers /\ bgen' = bgen /\ barrived' = barrived
        /\ gen' = gen /\ passed' = passed /\ rec' = rec
    BY DEF sync, idleVars, waitVars, barVars
  <1>9. SleepOK'
    <2>1. Naps(t, "find")
      BY <1>8 DEF Naps, Moved, SlotPcs, TcPcs
    <2> QED
      BY <1>1, <1>7, <2>1, SleepMoves
  <1>10. Shape'
    BY <1>1, <1>7, <1>8 DEF Shape, Below, qVars
  <1>11. BarrierOK'
    <2>1. \A s \in Threads : s # t =>
             /\ (stack'[s][1].pc \in IdlePcs <=> stack[s][1].pc \in IdlePcs)
             /\ (stack'[s][1].pc = "retest" <=> stack[s][1].pc = "retest")
             /\ (stack'[s][1].pc = "drain" <=> stack[s][1].pc = "drain")
      BY <1>1, <1>7, FirstAfter
    <2>2. \A s \in Threads : AtBarrier(s)' <=> AtBarrier(s)
      BY <1>8 DEF AtBarrier
    <2>3. \A s \in Threads : InBarrier(s)' <=> InBarrier(s)
      BY <2>1, <2>2 DEF InBarrier
    <2>4. {s \in Threads : InBarrier(s) /\ gen[s] = bgen}' = {s \in Threads : InBarrier(s) /\ gen[s] = bgen}
      BY <1>8, <2>3
    <2>5. \A s \in Threads : (stack'[s][1].pc = "retest" => AtBarrier(s)') /\ (stack'[s][1].pc = "drain" => ~ AtBarrier(s)')
      BY <1>1, <1>3, <1>7, <2>1, <2>2 DEF BarrierOK, IsFrame
    <2> QED
      BY <1>1, <1>8, <2>3, <2>4, <2>5 DEF BarrierOK, Over
  <1> QED
    BY <1>6, <1>9, <1>10, <1>11, CalmStep
-----------------------------------------------------------------------------
(* The counts after a step of t.                                            *)
LEMMA DepRefsIs ==
  ASSUME NEW r \in RecT
  PROVE  /\ DepRefs(r) \in Seq(Tasks) /\ DepRefs(r) \in Seq(Recs)
         /\ \A x : Occ(DepRefs(r), x) \in Nat
         /\ \A x : Occ(DepRefs(r), x) = Occ(r.readers, x)
                                      + IF r.writer # None /\ r.writer = x THEN 1 ELSE 0
         /\ \A x : Occ(r.readers, x) \in Nat
         /\ (DepRefs(r) = <<>> <=> r.writer = None /\ r.readers = <<>>)
  <1> DEFINE w == IF r.writer = None THEN <<>> ELSE <<r.writer>>
  <1>1. r.readers \in Seq(Tasks) /\ r.writer \in Tasks \cup {None}
    BY DEF RecT
  <1>2. w \in Seq(Tasks) /\ DepRefs(r) = r.readers \o w
    BY <1>1 DEF DepRefs
  <1>3. DepRefs(r) \in Seq(Tasks)
    BY <1>1, <1>2, ConcatProperties
  <1>4. DepRefs(r) \in Seq(Recs)
    <2>1. Tasks \subseteq Recs
      BY NoneFree
    <2> QED
      BY <1>3, <2>1
  <1>5. ASSUME NEW x
        PROVE  /\ Occ(DepRefs(r), x) \in Nat /\ Occ(r.readers, x) \in Nat
               /\ Occ(DepRefs(r), x) = Occ(r.readers, x)
                                      + IF r.writer # None /\ r.writer = x THEN 1 ELSE 0
    <2>1. Occ(r.readers \o w, x) = Occ(r.readers, x) + Occ(w, x)
      BY <1>1, <1>2, OccConcat
    <2>2. Occ(w, x) = IF r.writer # None /\ r.writer = x THEN 1 ELSE 0
      BY OccEmpty, OccOne
    <2>3. Occ(DepRefs(r), x) \in Nat /\ Occ(r.readers, x) \in Nat
      BY <1>1, <1>3, OccIs
    <2> HIDE DEF w
    <2> QED
      BY <1>2, <2>1, <2>2, <2>3
  <1>6. DepRefs(r) = <<>> <=> r.writer = None /\ r.readers = <<>>
    <2>1. Len(DepRefs(r)) = Len(r.readers) + Len(w)
      BY <1>1, <1>2, ConcatProperties
    <2>2. Len(w) = IF r.writer = None THEN 0 ELSE 1
      OBVIOUS
    <2>3. (Len(DepRefs(r)) = 0 <=> DepRefs(r) = <<>>) /\ (Len(r.readers) = 0 <=> r.readers = <<>>) /\ Len(r.readers) \in Nat
      BY <1>1, <1>3, EmptySeq, LenProperties
    <2> HIDE DEF w
    <2>4. Len(DepRefs(r)) = 0 <=> r.writer = None /\ Len(r.readers) = 0
      <3>1. PICK m \in Nat : m = Len(r.readers)
        BY <2>3
      <3>2. CASE r.writer = None
        BY <2>1, <2>2, <3>1, <3>2
      <3>3. CASE r.writer # None
        BY <2>1, <2>2, <3>1, <3>3
      <3> QED
        BY <3>2, <3>3
    <2> QED
      BY <2>3, <2>4
  <1> QED
    BY <1>3, <1>4, <1>5, <1>6

LEMMA EntriesMove ==
  ASSUME rec \in [Recs -> RecT], rec' \in [Recs -> RecT], NEW h \in Recs,
         \A y \in Recs : y # h => DepRefs(rec'[y]) = DepRefs(rec[y]), NEW x
  PROVE  /\ Cardinality(Mentions(Entries, x)) \in Nat /\ Cardinality(Mentions(Entries, x)') \in Nat
         /\ Occ(DepRefs(rec[h]), x) \in Nat /\ Occ(DepRefs(rec'[h]), x) \in Nat
         /\ Occ(DepRefs(rec[h]), x) <= Cardinality(Mentions(Entries, x))
         /\ Cardinality(Mentions(Entries, x)') + Occ(DepRefs(rec[h]), x)
              = Cardinality(Mentions(Entries, x)) + Occ(DepRefs(rec'[h]), x)
  <1> DEFINE L == Entries
             K == [y \in Recs |-> DepRefs(rec'[y])]
  <1>1. L \in Family(Recs, Recs) /\ K \in Family(Recs, Recs)
    BY DepRefsIs DEF Family, Entries
  <1>2. \A y \in Recs : y # h => K[y] = L[y]
    BY DEF Entries
  <1>3. L[h] = DepRefs(rec[h]) /\ K[h] = DepRefs(rec'[h])
    BY DEF Entries
  <1>4. Mentions(Entries, x)' = Mentions(K, x)
    BY DEF Entries, Mentions
  <1>5. IsFiniteSet(Recs)
    BY NoneFree
  <1>6. Mentions(Entries, x) = Mentions(L, x)
    OBVIOUS
  <1> HIDE DEF L, K
  <1> QED
    BY <1>1, <1>2, <1>3, <1>4, <1>5, <1>6, MentionsDiffer

LEMMA DroppingMove ==
  ASSUME Shape, StacksOK, NEW t \in Threads, Below(t), stack'[t] # <<>>, NEW x
  PROVE  /\ Cardinality(Mentions(Dropping, x)) \in Nat /\ Cardinality(Mentions(Dropping, x)') \in Nat
         /\ Occ(Top(t).drop, x) \in Nat /\ Occ(Top(t)'.drop, x) \in Nat
         /\ Occ(Top(t).drop, x) <= Cardinality(Mentions(Dropping, x))
         /\ Cardinality(Mentions(Dropping, x)') + Occ(Top(t).drop, x)
              = Cardinality(Mentions(Dropping, x)) + Occ(Top(t)'.drop, x)
  <1> DEFINE L == Dropping
             K == [s \in Threads |-> Top(s)'.drop]
  <1>1. \A s \in Threads : Top(s) \in FrameT /\ Top(s)' \in FrameT
    <2>1. Top(t)' \in FrameT
      <3>1. stack'[t] \in Seq(FrameT)
        BY DEF Below
      <3> QED
        BY <3>1, FrontIs DEF Top
    <2> QED
      BY <2>1, TopIs, OtherTops
  <1>2. L \in Family(Threads, Recs) /\ K \in Family(Threads, Recs)
    BY <1>1 DEF Family, Dropping, FrameT
  <1>3. \A s \in Threads : s # t => K[s] = L[s]
    BY OtherTops DEF Dropping
  <1>4. L[t] = Top(t).drop /\ K[t] = Top(t)'.drop
    BY DEF Dropping
  <1>5. Mentions(Dropping, x)' = Mentions(K, x)
    BY DEF Dropping, Mentions
  <1>6. IsFiniteSet(Threads)
    BY NoneFree
  <1>7. Mentions(Dropping, x) = Mentions(L, x)
    OBVIOUS
  <1> HIDE DEF L, K
  <1> QED
    BY <1>2, <1>3, <1>4, <1>5, <1>6, <1>7, MentionsDiffer

\* The references to x that the step takes and drops are those it counts.
Balanced(t, h, x) ==
  rec'[x].refs + (IF Pending(x) THEN 1 ELSE 0) + rec[x].children
      + Occ(DepRefs(rec[h]), x) + Occ(Top(t).drop, x)
    = rec[x].refs + (IF Pending(x)' THEN 1 ELSE 0) + rec'[x].children
      + Occ(DepRefs(rec'[h]), x) + Occ(Top(t)'.drop, x)

LEMMA RefsMove ==
  ASSUME Shape, StacksOK, RefsOK, rec' \in [Recs -> RecT],
         NEW t \in Threads, Below(t), stack'[t] # <<>>, NEW h \in Recs,
         \A y \in Recs : y # h => DepRefs(rec'[y]) = DepRefs(rec[y]),
         \A x \in Recs : Balanced(t, h, x)
  PROVE  RefsOK'
  <1> SUFFICES ASSUME NEW x \in Recs
               PROVE  rec'[x].refs = (IF Pending(x)' THEN 1 ELSE 0) + rec'[x].children
                        + Cardinality(Mentions(Entries, x)') + Cardinality(Mentions(Dropping, x)')
    BY DEF RefsOK
  <1>1. rec[x].refs = (IF Pending(x) THEN 1 ELSE 0) + rec[x].children
                        + Cardinality(Mentions(Entries, x)) + Cardinality(Mentions(Dropping, x))
    BY DEF RefsOK
  <1>2. rec \in [Recs -> RecT]
    BY DEF Shape
  <1>3. /\ Cardinality(Mentions(Entries, x)) \in Nat /\ Cardinality(Mentions(Entries, x)') \in Nat
        /\ Occ(DepRefs(rec[h]), x) \in Nat /\ Occ(DepRefs(rec'[h]), x) \in Nat
        /\ Cardinality(Mentions(Entries, x)') + Occ(DepRefs(rec[h]), x)
              = Cardinality(Mentions(Entries, x)) + Occ(DepRefs(rec'[h]), x)
    BY <1>2, EntriesMove
  <1>4. /\ Cardinality(Mentions(Dropping, x)) \in Nat /\ Cardinality(Mentions(Dropping, x)') \in Nat
        /\ Occ(Top(t).drop, x) \in Nat /\ Occ(Top(t)'.drop, x) \in Nat
        /\ Cardinality(Mentions(Dropping, x)') + Occ(Top(t).drop, x)
              = Cardinality(Mentions(Dropping, x)) + Occ(Top(t)'.drop, x)
    BY DroppingMove
  <1>5. rec[x].refs \in Int /\ rec[x].children \in Int /\ rec'[x].refs \in Int /\ rec'[x].children \in Int
    BY <1>2 DEF RecT
  <1>6. PICK p \in Nat : p = IF Pending(x) THEN 1 ELSE 0
    OBVIOUS
  <1>7. PICK q \in Nat : q = IF Pending(x)' THEN 1 ELSE 0
    OBVIOUS
  <1>8. rec'[x].refs + p + rec[x].children + Occ(DepRefs(rec[h]), x) + Occ(Top(t).drop, x)
          = rec[x].refs + q + rec'[x].children + Occ(DepRefs(rec'[h]), x) + Occ(Top(t)'.drop, x)
    BY <1>6, <1>7 DEF Balanced
  <1>9. rec[x].refs = p + rec[x].children
                        + Cardinality(Mentions(Entries, x)) + Cardinality(Mentions(Dropping, x))
    BY <1>1, <1>6
  <1>10. rec'[x].refs = q + rec'[x].children
                        + Cardinality(Mentions(Entries, x)') + Cardinality(Mentions(Dropping, x)')
    <2>1. PICK r1, r2, c1, c2 \in Int :
            r1 = rec[x].refs /\ r2 = rec'[x].refs /\ c1 = rec[x].children /\ c2 = rec'[x].children
      BY <1>5
    <2>2. PICK m1, m2, a1, a2 \in Nat :
            /\ m1 = Cardinality(Mentions(Entries, x)) /\ m2 = Cardinality(Mentions(Entries, x)')
            /\ a1 = Occ(DepRefs(rec[h]), x) /\ a2 = Occ(DepRefs(rec'[h]), x)
      BY <1>3
    <2>3. PICK n1, n2, b1, b2 \in Nat :
            /\ n1 = Cardinality(Mentions(Dropping, x)) /\ n2 = Cardinality(Mentions(Dropping, x)')
            /\ b1 = Occ(Top(t).drop, x) /\ b2 = Occ(Top(t)'.drop, x)
      BY <1>4
    <2>4. m2 + a1 = m1 + a2 /\ n2 + b1 = n1 + b2
      BY <1>3, <1>4, <2>2, <2>3
    <2>5. r2 + p + c1 + a1 + b1 = r1 + q + c2 + a2 + b2
      BY <1>8, <2>1, <2>2, <2>3
    <2>6. r1 = p + c1 + m1 + n1
      BY <1>9, <2>1, <2>2, <2>3
    <2>7. r2 = q + c2 + m2 + n2
      BY <2>4, <2>5, <2>6
    <2> QED
      BY <2>1, <2>2, <2>3, <2>7
  <1> QED
    BY <1>7, <1>10

\* The step creates, starts and ends no deferred task.
Fixed ==
  \A y \in Recs :
    /\ (Deferred(y)' <=> Deferred(y)) /\ rec'[y].children = rec[y].children
    /\ Deferred(y) => /\ rec'[y].parent = rec[y].parent
                      /\ (rec'[y].st \in {"wait", "run"} <=> rec[y].st \in {"wait", "run"})

LEMMA PendingKept ==
  ASSUME Shape, StacksOK, ChildrenOK, NEW t \in Threads, Below(t), Fixed,
         \A y \in Tasks : Deferred(y) /\ rec[y].st \notin {"wait", "run"} =>
           (Cur(t)' = y /\ Ending(Top(t))' <=> Cur(t) = y /\ Ending(Top(t)))
  PROVE  (\A y \in Recs : Pending(y)' <=> Pending(y)) /\ ChildrenOK'
  <1>1. ASSUME NEW y \in Recs
        PROVE  Pending(y)' <=> Pending(y)
    <2>1. CASE ~ Deferred(y)
      BY <2>1 DEF Fixed, Pending
    <2>2. CASE Deferred(y)
      <3>1. y \in Tasks /\ (Deferred(y)' <=> Deferred(y))
            /\ (rec'[y].st \in {"wait", "run"} <=> rec[y].st \in {"wait", "run"})
        BY <2>2 DEF Fixed, Deferred
      <3>2. Deferred(y) /\ rec[y].st \notin {"wait", "run"} =>
              (Cur(t)' = y /\ Ending(Top(t))' <=> Cur(t) = y /\ Ending(Top(t)))
        BY <3>1
      <3> QED
        BY <3>1, <3>2, PendingSame
    <2> QED
      BY <2>1, <2>2
  <1>2. ASSUME NEW x \in Recs
        PROVE  rec'[x].children = Cardinality(PendingOf(x)')
    <2>1. \A y \in Tasks : Pending(y) => rec'[y].parent = rec[y].parent
      BY NoneFree DEF Fixed, Pending
    <2>2. \A y \in Tasks : Pending(y)' <=> Pending(y)
      BY <1>1, NoneFree
    <2>3. PendingOf(x)' = PendingOf(x)
      BY <2>1, <2>2 DEF PendingOf
    <2>4. rec'[x].children = rec[x].children /\ rec[x].children = Cardinality(PendingOf(x))
      BY DEF Fixed, ChildrenOK
    <2> QED
      BY <2>3, <2>4
  <1> QED
    BY <1>1, <1>2 DEF ChildrenOK

LEMMA LiveKept ==
  ASSUME Shape, StacksOK, LiveOK, NEW t \in Threads, Below(t), Fixed, live' = live,
         \A y \in Tasks : Deferred(y) /\ rec[y].st \notin {"wait", "run"} =>
           (Cur(t)' = y /\ pc(t)' # "wakeall" <=> Cur(t) = y /\ pc(t) # "wakeall")
  PROVE  LiveOK'
  <1>1. ASSUME NEW y \in Tasks
        PROVE  Unsettled(y)' <=> Unsettled(y)
    <2>0. y \in Recs
      BY NoneFree
    <2>1. CASE ~ Deferred(y)
      BY <2>0, <2>1 DEF Fixed, Unsettled
    <2>2. CASE Deferred(y)
      <3>1. (Deferred(y)' <=> Deferred(y))
            /\ (rec'[y].st \in {"wait", "run"} <=> rec[y].st \in {"wait", "run"})
        BY <2>0, <2>2 DEF Fixed
      <3>2. Deferred(y) /\ rec[y].st \notin {"wait", "run"} =>
              (Cur(t)' = y /\ pc(t)' # "wakeall" <=> Cur(t) = y /\ pc(t) # "wakeall")
        OBVIOUS
      <3> QED
        BY <3>1, <3>2, UnsettledSame
    <2> QED
      BY <2>1, <2>2
  <1>2. {y \in Tasks : Unsettled(y)}' = {y \in Tasks : Unsettled(y)}
    BY <1>1
  <1> QED
    BY <1>2 DEF LiveOK

LEMMA GroupPendingKept ==
  ASSUME Shape, StacksOK, NEW t \in Threads, Below(t), Fixed,
         \A y \in Tasks : Deferred(y) /\ rec[y].st \notin {"wait", "run"} =>
           (Cur(t)' = y /\ InGroup(Top(t))' <=> Cur(t) = y /\ InGroup(Top(t)))
  PROVE  \A y \in Tasks : GroupPending(y)' <=> GroupPending(y)
  <1>1. ASSUME NEW y \in Tasks
        PROVE  GroupPending(y)' <=> GroupPending(y)
    <2>0. y \in Recs
      BY NoneFree
    <2>1. CASE ~ Deferred(y)
      BY <2>0, <2>1 DEF Fixed, GroupPending
    <2>2. CASE Deferred(y)
      <3>1. (Deferred(y)' <=> Deferred(y))
            /\ (rec'[y].st \in {"wait", "run"} <=> rec[y].st \in {"wait", "run"})
        BY <2>0, <2>2 DEF Fixed
      <3>2. Deferred(y) /\ rec[y].st \notin {"wait", "run"} =>
              (Cur(t)' = y /\ InGroup(Top(t))' <=> Cur(t) = y /\ InGroup(Top(t)))
        OBVIOUS
      <3> QED
        BY <3>1, <3>2, GroupPendingSame
    <2> QED
      BY <2>1, <2>2
  <1> QED
    BY <1>1

(* The records after a step of t.                                           *)
RecOK(x) == Born(x) /\ Waits4(x) /\ Entry(x)

\* A record whose task goes on as it was.
Alike(x) ==
  /\ rec'[x].st = rec[x].st /\ rec'[x].pred = rec[x].pred /\ rec'[x].done = rec[x].done
  /\ DepRefs(rec'[x]) = DepRefs(rec[x])
  /\ rec[x].st = "none" => rec'[x] = rec[x]
  /\ OnStack(x) => OnStack(x)'
  /\ rec[x].pred # {} /\ ~ Queued(x) => ~ Queued(x)'
  /\ \A y \in rec[x].pred : rec'[y].done = rec[y].done

LEMMA RecKept ==
  ASSUME Shape, RecsOK, Lasts, NewLinks, NEW x \in Recs, Alike(x)
  PROVE  RecOK(x)'
  <1>1. Born(x) /\ Waits4(x) /\ Entry(x)
    BY DEF RecsOK
  <1>2. Born(x)'
    <2>1. rec[x].st # "none" => rec'[x].inplace = rec[x].inplace /\ (Deferred(x)' <=> Deferred(x))
      BY DEF Lasts, Ident, Deferred, Alike
    <2>2. x \in Threads => rec[x].st # "none" /\ rec'[x].pred = {} /\ rec'[x].st \in {"run", "over", "freed"}
      BY <1>1 DEF Born, Alike
    <2>3. x \in Tasks /\ (rec'[x].st = "run" \/ (rec'[x].inplace /\ rec'[x].st = "over")) => OnStack(x)'
      BY <1>1, <2>1, NoneFree DEF Born, Alike
    <2>4. Over(x)' <=> Over(x)
      BY DEF Over, Alike
    <2>5. Deferred(x) /\ Tracked(x) => (rec'[x].done <=> Over(x)')
      BY <1>1, <2>4, NoneFree DEF Born, Alike, Deferred
    <2> QED
      BY <1>1, <2>2, <2>3, <2>5, BornKept DEF Alike
  <1>3. Waits4(x)'
    <2>1. rec'[x].pred # {} => rec'[x].st = rec[x].st /\ ~ Queued(x)'
      BY <1>1 DEF Waits4, Alike
    <2>2. \A y \in rec'[x].pred : ~ rec'[y].done
      BY <1>1 DEF Waits4, Alike
    <2> QED
      BY <1>1, <2>1, <2>2, WaitsKept DEF Alike
  <1>4. Entry(x)'
    BY <1>1, EntryKept DEF Alike
  <1> QED
    BY <1>2, <1>3, <1>4 DEF RecOK

\* What Gone says of a record that keeps its references.
LEMMA GoneKept ==
  ASSUME Shape, StacksOK, RecsOK, NEW t \in Threads, Below(t), NEW x \in Recs,
         rec'[x].st = rec[x].st, rec'[x].refs = rec[x].refs, DepRefs(rec'[x]) = DepRefs(rec[x]),
         rec'[x].inplace = rec[x].inplace, rec'[x].kids = rec[x].kids,
         Static(x) /\ rec[x].st = "over" /\ Cur(t)' = x /\ pc(t)' \in {"unref", "leave"} =>
           Cur(t) = x /\ pc(t) \in {"unref", "leave"}
  PROVE  Gone(x)'
  <1>1. Gone(x) /\ (Static(x)' <=> Static(x)) /\ (Deferred(x)' <=> Deferred(x))
    BY DEF RecsOK, Static, Deferred
  <1>2. \A s \in Threads : s # t => Cur(s)' = Cur(s) /\ ((pc(s)' \in {"unref", "leave"}) <=> (pc(s) \in {"unref", "leave"}))
    BY OtherTops, OtherMarks
  <1>3. Static(x) /\ rec[x].st = "over" /\ (\E s \in Threads : Cur(s)' = x /\ pc(s)' \in {"unref", "leave"})
          => \E s \in Threads : Cur(s) = x /\ pc(s) \in {"unref", "leave"}
    BY <1>2
  <1> QED
    BY <1>1, <1>3 DEF Gone
-----------------------------------------------------------------------------
(* More about a step of t.                                                  *)
SameId(r, q) ==
  /\ q.inplace = r.inplace /\ q.kind = r.kind /\ q.final = r.final /\ q.parent = r.parent
  /\ q.creator = r.creator /\ q.within = r.within /\ q.home = r.home /\ q.group = r.group
  /\ q.epoch = r.epoch
SameDeps(r, q) == q.pred = r.pred /\ q.writer = r.writer /\ q.readers = r.readers
SameNums(r, q) == q.children = r.children /\ q.kids = r.kids /\ q.refs = r.refs

LEMMA SameIs ==
  ASSUME NEW y, SameId(rec[y], rec'[y])
  PROVE  /\ Ident(y) /\ (Static(y)' <=> Static(y)) /\ (Tracked(y)' <=> Tracked(y))
         /\ (rec'[y].st # "none" <=> rec[y].st # "none") => (Deferred(y)' <=> Deferred(y))
  BY DEF SameId, Ident, Static, Tracked, Deferred

LEMMA StartSet ==
  ASSUME NEW q \in RecT, NEW m \in Int
  PROVE  LET r == [q EXCEPT !.st = "run", !.mark = m] IN
         r \in RecT /\ SameId(q, r) /\ SameDeps(q, r) /\ SameNums(q, r) /\ r.done = q.done /\ r.st = "run"
  BY DEF RecT, SameId, SameDeps, SameNums

\* The implicit task of a thread inside another task, or at work, is running.
LEMMA BottomRuns ==
  ASSUME Shape, StacksOK, RecsOK, NEW t \in Threads, Len(stack[t]) > 1 \/ pc(t) \in RunPcs \cup WaitPcs
  PROVE  rec[t].st = "run"
  <1>1. PICK n \in Nat : n = Len(stack[t]) /\ n # 0 /\ DOMAIN stack[t] = 1 .. n
    BY TopIs
  <1>2. FrameOK(t, 1) /\ stack[t][1] \in FrameT
    BY <1>1 DEF StacksOK, Shape
  <1>3. stack[t][1].tk = t
    BY <1>2 DEF FrameOK, Placed
  <1>4. stack[t][1].pc \in RunPcs \cup WaitPcs
    <2>1. CASE n = 1
      <3>1. Top(t) = stack[t][1]
        BY <1>1, <2>1, TopIs
      <3>2. Len(stack[t]) = 1
        BY <1>1, <2>1
      <3> QED
        BY <3>1, <3>2 DEF pc
    <2>2. CASE n # 1
      <3>1. 1 < n
        <4>1. \A m \in Nat : m # 0 /\ m # 1 => 1 < m
          OBVIOUS
        <4> QED
          BY <1>1, <2>2, <4>1
      <3>2. stack[t][1].pc \in {"wait", "body", "retest", "drain"}
        BY <1>1, <1>2, <3>1 DEF FrameOK, Placed
      <3> QED
        BY <3>2 DEF RunPcs, WaitPcs, IdlePcs
    <2> QED
      BY <2>1, <2>2
  <1>5. ~ rec[t].inplace
    BY NoneFree DEF RecsOK, Born
  <1> QED
    BY <1>2, <1>3, <1>4, <1>5 DEF FrameOK, Fate

LEMMA BarrierStays ==
  ASSUME TasksInv, NEW t \in Threads, Below(t), UNCHANGED barVars,
         Len(stack[t]) = 1 =>
           /\ (stack'[t][1].pc \in IdlePcs <=> stack[t][1].pc \in IdlePcs)
           /\ stack'[t][1].pc = "retest" => AtBarrier(t)
           /\ stack'[t][1].pc = "drain" => ~ AtBarrier(t),
         \A y \in Recs : rec[y].st # "none" => rec'[y].epoch = rec[y].epoch /\ (Over(y) => Over(y)'),
         \A x \in Tasks : rec[x].st = "none" /\ rec'[x].st # "none" => ~ (rec'[x].epoch < bgen)
  PROVE  BarrierOK'
  <1>1. Shape /\ StacksOK /\ BarrierOK /\ RecsOK
    BY DEF TasksInv
  <1>2. \A s \in Threads :
           /\ (stack'[s][1].pc \in IdlePcs <=> stack[s][1].pc \in IdlePcs)
           /\ stack'[s][1].pc = "retest" => AtBarrier(s)
           /\ stack'[s][1].pc = "drain" => ~ AtBarrier(s)
    BY <1>1, FirstAbove
  <1>3. \A s \in Threads : rec'[s].epoch = rec[s].epoch
    BY <1>1, NoneFree DEF RecsOK, Born
  <1>4. \A x \in Tasks : rec'[x].st # "none" /\ rec'[x].epoch < bgen =>
           rec[x].st # "none" /\ rec'[x].epoch = rec[x].epoch /\ (Over(x) => Over(x)')
    BY NoneFree
  <1> QED
    BY <1>1, <1>2, <1>3, <1>4, BarrierKept

LEMMA PushStep ==
  ASSUME Shape, StacksOK, NEW t \in Threads, NEW f \in FrameT, NEW g \in FrameT,
         stack' = [stack EXCEPT ![t] = Append(Append(Front(@), f), g)]
  PROVE  Pushed(t, f, g) /\ stack'[t] # <<>> /\ Top(t)' = g
  <1>1. stack \in [Threads -> Seq(FrameT)] /\ stack[t] \in Seq(FrameT) /\ stack[t] # <<>>
    BY TopIs DEF Shape
  <1> DEFINE u == Append(Append(Front(stack[t]), f), g)
  <1>2. /\ u \in Seq(FrameT) /\ Len(u) = Len(stack[t]) + 1 /\ u[Len(stack[t])] = f /\ u[Len(stack[t]) + 1] = g
        /\ \A i \in 1 .. Len(stack[t]) - 1 : u[i] = stack[t][i]
    BY <1>1, PushedIs
  <1>3. stack' = [stack EXCEPT ![t] = u]
    OBVIOUS
  <1> HIDE DEF u
  <1>4. stack' \in [Threads -> Seq(FrameT)] /\ stack'[t] = u /\ \A s \in Threads \ {t} : stack'[s] = stack[s]
    BY <1>1, <1>2, <1>3
  <1>5. Pushed(t, f, g)
    BY <1>2, <1>4 DEF Pushed, Below, Others, Woken
  <1>6. u # <<>>
    <2>1. Len(stack[t]) \in Nat
      BY TopIs
    <2>2. Len(u) # 0
      BY <1>2, <2>1
    <2> QED
      BY <2>2
  <1> QED
    BY <1>4, <1>5, <1>6, TopAfter

LEMMA PopStep ==
  ASSUME Shape, StacksOK, NEW t \in Threads, Len(stack[t]) > 1, Pop(t)
  PROVE  Popped(t) /\ stack'[t] # <<>> /\ Top(t)' = stack[t][Len(stack[t]) - 1]
  <1>1. stack \in [Threads -> Seq(FrameT)] /\ stack[t] \in Seq(FrameT) /\ stack[t] # <<>> /\ Len(stack[t]) \in Nat
    BY TopIs DEF Shape
  <1> DEFINE u == Front(stack[t])
  <1>2. /\ u \in Seq(FrameT) /\ Len(u) = Len(stack[t]) - 1
        /\ \A i \in 1 .. Len(stack[t]) - 1 : u[i] = stack[t][i]
    BY <1>1, FrontIs
  <1>3. stack' = [stack EXCEPT ![t] = u]
    BY DEF Pop
  <1> HIDE DEF u
  <1>4. stack' \in [Threads -> Seq(FrameT)] /\ stack'[t] = u /\ \A s \in Threads \ {t} : stack'[s] = stack[s]
    BY <1>1, <1>2, <1>3
  <1>5. Popped(t)
    BY <1>2, <1>4 DEF Popped, Below, Others, Woken
  <1>6. u # <<>>
    <2>1. Len(u) # 0
      <3>1. PICK n \in Nat : n = Len(stack[t])
        BY <1>1
      <3>2. \A m \in Nat : m > 1 => m - 1 # 0 /\ m # 1
        OBVIOUS
      <3> QED
        BY <1>2, <3>1, <3>2
    <2> QED
      BY <2>1
  <1>7. Len(stack[t]) # 1
    <2>1. \A m \in Nat : m > 1 => m # 1
      OBVIOUS
    <2> QED
      BY <1>1, <2>1
  <1> QED
    BY <1>4, <1>5, <1>6, <1>7, TopAfter
-----------------------------------------------------------------------------
(* A task that waits is taken up by t, on top of frame f.                   *)
StartsOn(t, x, f) ==
  /\ x \in Tasks /\ rec[x].st = "wait" /\ rec[x].pred = {}
  /\ f \in FrameT /\ f.tk = Cur(t) /\ f.drop = <<>>
  /\ pc(t) \in {"wait", "find"} /\ f.pc \in {"wait", "body", "retest", "drain"}
  /\ f.pc = "wait" => f = Top(t)
  /\ f.pc \in {"body", "wait"} <=> pc(t) = "wait"
  /\ f.pc = "body" => rec[Cur(t)].st = "run"
  /\ f.pc # "wait" => f.ctr = <<>>
  /\ f.pc = "retest" => AtBarrier(t)
  /\ f.pc = "drain" => ~ AtBarrier(t)

LEMMA RunStep ==
  ASSUME TasksInv, NEW t \in Threads, NEW x, NEW f, StartsOn(t, x, f), Run(t, x, f),
         \A s \in Threads : \A i \in DOMAIN stack[s] : Old(t, s, i) => stack[s][i].ctr # <<"npred", x>>,
         f.pc = "wait" => f.ctr # <<"npred", x>>,
         dq' \in [Threads -> Seq(Tasks)], base' \in [Threads -> Nat], hq' \in Seq(Tasks),
         QueuesOK', \A y \in Tasks : Queued(y)' => Queued(y),
         UNCHANGED <<grp, live, sync>>
  PROVE  TasksInv'
  <1> DEFINE g == Frame(x, "body")
  <1>1. /\ Shape /\ StacksOK /\ RecsOK /\ QueuesOK /\ CountsOK /\ GroupsOK /\ BarrierOK
        /\ Top(t) \in FrameT /\ Cur(t) \in Recs /\ Top(t).tk = Cur(t) /\ Top(t).pc = pc(t)
        /\ Fate(Top(t)) /\ Counts(Top(t)) /\ Drops(Top(t))
        /\ (Len(stack[t]) = 1 => Cur(t) = t) /\ (Len(stack[t]) # 1 => Cur(t) \in Tasks /\ pc(t) \notin IdlePcs \cup {"out"})
    BY CurIs
  <1>2. /\ x \in Tasks /\ x \in Recs /\ rec[x].st = "wait" /\ rec[x].pred = {} /\ f \in FrameT /\ f.tk = Cur(t)
        /\ f.drop = <<>> /\ pc(t) \in {"wait", "find"} /\ f.pc \in {"wait", "body", "retest", "drain"}
        /\ rec \in [Recs -> RecT] /\ rec[x] \in RecT
    BY <1>1, NoneFree DEF StartsOn, Shape
  <1>3. IsFrame(g, x, "body", <<>>, <<>>)
    BY <1>2, PcIs, FrameIs
  <1>4. stack' = [stack EXCEPT ![t] = Append(Append(Front(@), f), g)]
    BY DEF Run
  <1> HIDE DEF g
  <1>5. Pushed(t, f, g) /\ stack'[t] # <<>> /\ Top(t)' = g /\ Below(t) /\ g \in FrameT
    <2>1. g \in FrameT
      BY <1>3 DEF IsFrame
    <2>2. Pushed(t, f, g) /\ stack'[t] # <<>> /\ Top(t)' = g
      BY <1>1, <1>2, <1>4, <2>1, PushStep
    <2> QED
      BY <2>1, <2>2 DEF Pushed
  <1>6. /\ rec' \in [Recs -> RecT] /\ SameId(rec[x], rec'[x]) /\ SameDeps(rec[x], rec'[x])
        /\ SameNums(rec[x], rec'[x]) /\ rec'[x].done = rec[x].done /\ rec'[x].st = "run"
        /\ \A y \in Recs \ {x} : rec'[y] = rec[y]
    <2> DEFINE m == base'[t] + Len(dq'[t])
               r == [rec[x] EXCEPT !.st = "run", !.mark = m]
    <2>1. m \in Int
      <3>1. dq'[t] \in Seq(Tasks) /\ base'[t] \in Nat
        OBVIOUS
      <3>2. Len(dq'[t]) \in Nat
        BY <3>1, LenProperties
      <3> QED
        BY <3>1, <3>2
    <2>2. rec' = [rec EXCEPT ![x] = r]
      BY DEF Run
    <2> HIDE DEF m
    <2>3. r \in RecT /\ SameId(rec[x], r) /\ SameDeps(rec[x], r) /\ SameNums(rec[x], r) /\ r.done = rec[x].done /\ r.st = "run"
      BY <1>2, <2>1, StartSet
    <2> HIDE DEF r
    <2>4. rec' \in [Recs -> RecT] /\ rec'[x] = r /\ \A y \in Recs \ {x} : rec'[y] = rec[y]
      BY <1>2, <2>2, <2>3, RecSet
    <2> QED
      BY <2>3, <2>4
  <1>7. /\ Born(x) /\ Waits4(x) /\ Entry(x) /\ Gone(x) /\ ~ rec[x].inplace /\ Deferred(x)
        /\ x \notin Threads /\ ~ Static(x)
    <2>1. Born(x) /\ Waits4(x) /\ Entry(x) /\ Gone(x) /\ x \notin Threads
      BY <1>1, <1>2, NoneFree DEF RecsOK
    <2>2. ~ rec[x].inplace
      BY <1>2, <2>1 DEF Born
    <2> QED
      BY <1>2, <2>1, <2>2 DEF Deferred, Static
  <1>8. \A s \in Threads : \A i \in DOMAIN stack[s] : stack[s][i].tk # x
    <2> SUFFICES ASSUME NEW s \in Threads, NEW i \in DOMAIN stack[s] PROVE rec[stack[s][i].tk].st # "wait"
      BY <1>2
    <2>1. FrameOK(s, i) /\ stack[s][i] \in FrameT
      BY <1>1 DEF StacksOK, Shape
    <2> QED
      BY <2>1, FrameBorn DEF FrameOK
  <1>9. ~ OnStack(x) /\ Cur(t) # x
    <2>1. Len(stack[t]) \in DOMAIN stack[t] /\ Top(t) = stack[t][Len(stack[t])]
      BY <1>1, TopIs
    <2> QED
      BY <1>8, <2>1 DEF OnStack, Cur
  <1>10. rec'[Cur(t)] = rec[Cur(t)] /\ grp' = grp /\ live' = live
    BY <1>1, <1>6, <1>9
  <1>11. Undisturbed(t, x)
    <2>1. \A y \in Recs \ {Cur(t), x} : Steady(y)
      BY <1>6 DEF Steady
    <2>2. \A y \in Tasks \ {x} : rec'[y].pred = rec[y].pred
      BY <1>6, NoneFree
    <2> QED
      BY <1>8, <1>10, <2>1, <2>2 DEF Undisturbed
  <1>12. PICK n \in Nat : n = Len(stack[t]) /\ n # 0 /\ DOMAIN stack[t] = 1 .. n
    BY <1>1, TopIs
  <1>13. /\ Len(stack'[t]) = n + 1 /\ stack'[t][n] = f /\ stack'[t][n + 1] = g
         /\ \A i \in 1 .. n - 1 : stack'[t][i] = stack[t][i]
    BY <1>5, <1>12 DEF Pushed, Below
  <1>14. FrameOK(t, n)'
    <2>1. Placed(t, n)'
      <3>1. FrameOK(t, n)
        BY <1>1, <1>12 DEF StacksOK
      <3>2. Top(t) = stack[t][n]
        BY <1>1, <1>12, TopIs
      <3>3. IF n = 1 THEN f.tk = t ELSE f.tk \in Tasks /\ f.pc \notin IdlePcs \cup {"out"}
        <4>1. CASE n = 1
          BY <1>1, <1>2, <1>12, <4>1
        <4>2. CASE n # 1
          <5>1. Len(stack[t]) # 1
            BY <1>12, <4>2
          <5>2. Cur(t) \in Tasks /\ pc(t) \notin IdlePcs \cup {"out"}
            BY <1>1, <5>1
          <5>3. pc(t) = "wait"
            BY <1>2, <5>2 DEF IdlePcs
          <5>4. f.pc \in {"body", "wait"}
            BY <5>3 DEF StartsOn
          <5> QED
            BY <1>2, <4>2, <5>2, <5>4 DEF IdlePcs, TcPcs
        <4> QED
          BY <4>1, <4>2
      <3>4. ASSUME n = 2, stack'[t][1].pc \in IdlePcs
            PROVE  Deferred(f.tk)'
        <4>1. stack[t][1].pc \in IdlePcs
          BY <1>13, <3>4
        <4>2. Deferred(stack[t][n].tk)
          BY <3>1, <3>4, <4>1 DEF FrameOK, Placed
        <4>3. Deferred(Cur(t))
          BY <3>2, <4>2 DEF Cur
        <4>4. Cur(t) \in Tasks /\ rec'[Cur(t)].st # "none" /\ ~ rec'[Cur(t)].inplace
          BY <1>10, <4>3 DEF Deferred
        <4>5. stack'[t][n].tk \in Tasks /\ rec'[stack'[t][n].tk].st # "none" /\ ~ rec'[stack'[t][n].tk].inplace
          BY <1>2, <1>13, <4>4
        <4> QED
          BY <1>13, <4>5 DEF Deferred
      <3>5. Deferred(stack[t][n].tk)' <=> Deferred(f.tk)'
        BY <1>13, <1>5 DEF Deferred
      <3> QED
        BY <1>2, <1>13, <3>3, <3>4, <3>5 DEF Placed
    <2>2. Fate(stack[t][n])' /\ Counts(stack[t][n])' /\ Drops(stack[t][n])'
      <3>1. CASE f.pc = "wait"
        <4>1. stack[t][n] = f /\ f = Top(t)
          BY <1>1, <1>12, <3>1, TopIs DEF StartsOn
        <4>2. Woken(stack[t][n], stack'[t][n]) /\ stack[t][n] \in FrameT /\ stack[t][n].tk = Cur(t)
          BY <1>2, <1>13, <4>1 DEF Woken
        <4>3. Fate(stack[t][n]) /\ Counts(stack[t][n]) /\ Drops(stack[t][n])
          BY <1>1, <4>1
        <4>4. rec'[stack[t][n].tk] = rec[stack[t][n].tk]
          BY <1>10, <4>2
        <4>5. Fate(stack[t][n])'
          BY <4>2, <4>3, <4>4, FateKept
        <4>6. Drops(stack[t][n])'
          BY <4>2, <4>3, <4>4, DropsKept
        <4>7. \A y \in Tasks :
                stack[t][n].ctr = <<"npred", y>> /\ Awaited(stack[t][n], y) =>
                  /\ rec'[y].parent = rec[y].parent /\ rec'[y].st = rec[y].st /\ rec'[y].kind = rec[y].kind
                  /\ rec[y].pred = {} /\ ~ Queued(y) => rec'[y].pred = {} /\ ~ Queued(y)'
          <5>1. \A y \in Tasks : stack[t][n].ctr = <<"npred", y>> => rec'[y] = rec[y]
            BY <1>6, <3>1, <4>1, NoneFree
          <5> QED
            BY <5>1
        <4>8. Counts(stack[t][n])'
          BY <1>10, <4>2, <4>3, <4>4, <4>7, CountsKept
        <4> QED
          BY <4>5, <4>6, <4>8
      <3>2. CASE f.pc # "wait"
        <4>1. f.pc \in RunPcs /\ f.pc \notin WaitPcs /\ f.pc \notin {"unref", "link", "notify", "group"} /\ f.ctr = <<>> /\ f.drop = <<>>
          BY <1>2, <3>2 DEF StartsOn, RunPcs, WaitPcs, IdlePcs
        <4>2. rec[Cur(t)].st = "run"
          <5>1. CASE f.pc = "body"
            BY <5>1 DEF StartsOn
          <5>2. CASE f.pc # "body"
            <6>1. pc(t) = "find"
              BY <1>2, <3>2, <5>2 DEF StartsOn
            <6> QED
              BY <1>1, <6>1 DEF Fate, RunPcs, IdlePcs
          <5> QED
            BY <5>1, <5>2
        <4>3. rec'[f.tk].st = "run"
          BY <1>2, <1>10, <4>2
        <4>4. Fate(stack[t][n])'
          BY <1>13, <4>1, <4>3 DEF Fate, RunPcs, IdlePcs, TcPcs, WaitPcs
        <4>5. Counts(stack[t][n])'
          BY <1>13, <4>1 DEF Counts
        <4>6. Drops(stack[t][n])'
          BY <1>13, <4>1 DEF Drops
        <4> QED
          BY <4>4, <4>5, <4>6
      <3> QED
        BY <3>1, <3>2
    <2> QED
      BY <2>1, <2>2 DEF FrameOK
  <1>15. FrameOK(t, n + 1)'
    <2>1. g.tk = x /\ g.pc = "body" /\ g.ctr = <<>> /\ g.drop = <<>>
      BY <1>3 DEF IsFrame
    <2>2. Deferred(x)' /\ rec'[x].st = "run"
      BY <1>2, <1>6, <1>7 DEF Deferred, SameId
    <2>3. Placed(t, n + 1)'
      <3>1. n + 1 # 1 /\ ~ (n + 1 < Len(stack'[t]))
        BY <1>12, <1>13
      <3> QED
        BY <1>2, <1>13, <2>1, <2>2, <3>1 DEF Placed, IdlePcs, TcPcs, Deferred
    <2>4. Fate(stack[t][n + 1])'
      BY <1>13, <2>1, <2>2 DEF Fate, RunPcs, IdlePcs, TcPcs, WaitPcs
    <2>5. Counts(stack[t][n + 1])'
      BY <1>13, <2>1 DEF Counts, WaitPcs
    <2>6. Drops(stack[t][n + 1])'
      BY <1>13, <2>1 DEF Drops
    <2> QED
      BY <2>3, <2>4, <2>5, <2>6 DEF FrameOK
  <1>16. StacksOK'
    <2>1. f.tk = Cur(t) /\ ~ OnStack(g.tk)
      BY <1>2, <1>3, <1>9 DEF IsFrame
    <2> QED
      BY <1>1, <1>5, <1>11, <1>12, <1>14, <1>15, <2>1, PushedStacks
  <1>17. Lasts /\ NewLinks
    <2>1. Lasts
      BY <1>6 DEF Lasts, Ident, SameId
    <2>2. pc(t)' = "body"
      BY <1>3, <1>5 DEF IsFrame, pc
    <2>3. \A s \in Threads : s # t => ((pc(s)' = "link") <=> (pc(s) = "link")) /\ Linked(s)' = Linked(s)
      BY <1>1, <1>5, OtherMarks, OtherTops DEF Linked
    <2> QED
      BY <2>1, <2>2, <2>3 DEF NewLinks
  <1>18. ASSUME NEW y \in Recs
         PROVE  RecOK(y)' /\ Gone(y)'
    <2>1. OnStack(y) => OnStack(y)'
      BY <1>1, <1>2, <1>5, StackedAfter
    <2>2. pc(t)' = "body"
      BY <1>3, <1>5 DEF IsFrame, pc
    <2>3. DepRefs(rec'[y]) = DepRefs(rec[y])
      BY <1>6 DEF DepRefs, SameDeps
    <2>4. CASE y # x
      <3>1. rec'[y] = rec[y]
        BY <1>6, <2>4
      <3>2. \A z \in rec[y].pred : rec'[z].done = rec[z].done
        <4>1. rec[y].pred \subseteq Tasks
          BY <1>2 DEF RecT
        <4> QED
          BY <1>6, <4>1, NoneFree
      <3>3. rec[y].pred # {} => y \in Tasks
        BY <1>1 DEF RecsOK, Born, Recs
      <3>4. Alike(y)
        BY <2>1, <3>1, <3>2, <3>3 DEF Alike
      <3> QED
        BY <1>1, <1>5, <1>17, <2>2, <3>1, <3>4, RecKept, GoneKept
    <2>5. CASE y = x
      <3>1. Born(y)'
        <4>1. OnStack(y)'
          BY <1>1, <1>2, <1>3, <1>5, <2>5, StackedAfter DEF IsFrame
        <4>2. ~ Over(y) /\ ~ Over(y)'
          BY <1>2, <1>6, <2>5 DEF Over
        <4>3. rec'[y].done = rec[y].done
          BY <1>6, <2>5
        <4>4. Deferred(y) /\ Tracked(y) => ~ rec[y].done
          BY <1>2, <1>7, <2>5, <4>2 DEF Born
        <4> QED
          BY <1>2, <1>6, <1>7, <1>17, <2>5, <4>1, <4>2, <4>3, <4>4, BornKept
      <3>2. Waits4(y)'
        BY <1>2, <1>6, <2>5 DEF Waits4, SameDeps
      <3>3. Entry(y)'
        BY <1>7, <1>17, <2>3, <2>5, EntryKept
      <3>4. Gone(y)'
        <4>1. rec[y].refs > 0
          BY <1>2, <1>7, <2>5 DEF Gone
        <4>2. rec'[y].refs = rec[y].refs /\ rec'[y].st = "run" /\ ~ Static(y)'
          BY <1>6, <1>7, <2>5 DEF SameNums, SameId, Static
        <4> QED
          BY <4>1, <4>2 DEF Gone
      <3> QED
        BY <3>1, <3>2, <3>3, <3>4 DEF RecOK
    <2> QED
      BY <2>4, <2>5
  <1>19. Fixed
    <2>1. \A y \in Recs : y # x => rec'[y] = rec[y]
      BY <1>6
    <2> QED
      BY <1>2, <1>6, <1>7, <2>1 DEF Fixed, Deferred, SameId, SameNums
  <1>20. /\ ~ Ending(Top(t)) /\ ~ InGroup(Top(t)) /\ ~ Ending(Top(t))' /\ ~ InGroup(Top(t))'
         /\ pc(t)' = "body" /\ Cur(t)' = x /\ Top(t).drop = <<>> /\ Top(t)'.drop = <<>>
         /\ (Deferred(Cur(t)) => rec[Cur(t)].st = "run")
    <2>1. Top(t)'.pc = "body" /\ Top(t)'.tk = x /\ Top(t)'.drop = <<>>
      BY <1>3, <1>5 DEF IsFrame
    <2>2. pc(t)' = "body" /\ Cur(t)' = x /\ ~ Ending(Top(t))' /\ ~ InGroup(Top(t))'
      BY <2>1 DEF pc, Cur, Ending, InGroup
    <2>3. ~ Ending(Top(t)) /\ ~ InGroup(Top(t)) /\ Top(t).drop = <<>>
      BY <1>1, <1>2 DEF Ending, InGroup, Drops
    <2>4. Deferred(Cur(t)) => rec[Cur(t)].st = "run"
      BY <1>1, <1>2 DEF Fate, Deferred, RunPcs, WaitPcs, IdlePcs
    <2> QED
      BY <2>1, <2>2, <2>3, <2>4
  <1>21. (\A y \in Recs : Pending(y)' <=> Pending(y)) /\ ChildrenOK'
    BY <1>1, <1>5, <1>19, <1>20, PendingKept DEF CountsOK
  <1>22. LiveOK'
    BY <1>1, <1>2, <1>5, <1>10, <1>19, <1>20, LiveKept DEF CountsOK
  <1>23. RefsOK'
    <2>1. \A y \in Recs : DepRefs(rec'[y]) = DepRefs(rec[y]) /\ SameNums(rec[y], rec'[y])
      BY <1>6 DEF DepRefs, SameDeps, SameNums
    <2>2. \A y \in Recs : Balanced(t, x, y)
      BY <1>2, <1>20, <1>21, <2>1 DEF Balanced, SameNums
    <2> QED
      BY <1>1, <1>2, <1>5, <1>6, <2>1, <2>2, RefsMove DEF CountsOK
  <1>24. EndOK'
    <2>1. \A s \in Threads : rec'[s] = rec[s]
      BY <1>6, <1>7, NoneFree
    <2> QED
      BY <1>1, <1>10, <2>1 DEF EndOK, CountsOK
  <1>25. tm' = tm /\ nwait' = nwait /\ sleepers' = sleepers /\ UNCHANGED barVars
         /\ barrived' = barrived /\ bgen' = bgen /\ gen' = gen /\ passed' = passed
    BY DEF sync, idleVars, waitVars, barVars
  <1>26. SleepOK'
    <2>1. Naps(t, pc(t)')
      BY <1>2, <1>20, <1>25 DEF Naps, Moved, SlotPcs, TcPcs
    <2> QED
      BY <1>1, <1>5, <2>1, SleepMoves DEF CountsOK
  <1>27. /\ (Len(stack[t]) = 1 =>
              /\ (stack'[t][1].pc \in IdlePcs <=> stack[t][1].pc \in IdlePcs)
              /\ (stack'[t][1].pc = "retest" => AtBarrier(t))
              /\ (stack'[t][1].pc = "drain" => ~ AtBarrier(t)))
    <2> SUFFICES ASSUME Len(stack[t]) = 1
                 PROVE  /\ (stack'[t][1].pc \in IdlePcs <=> stack[t][1].pc \in IdlePcs)
                        /\ (stack'[t][1].pc = "retest" => AtBarrier(t))
                        /\ (stack'[t][1].pc = "drain" => ~ AtBarrier(t))
      OBVIOUS
    <2>1. stack'[t][1] = f /\ stack[t][1] = Top(t)
      BY <1>1, <1>12, <1>13, TopIs
    <2>2. f.pc \in IdlePcs <=> pc(t) \in IdlePcs
      BY <1>2 DEF StartsOn, IdlePcs, TcPcs
    <2> QED
      BY <1>1, <2>1, <2>2 DEF StartsOn
  <1>28. BarrierOK'
    <2>1. \A y \in Recs : rec[y].st # "none" => rec'[y].epoch = rec[y].epoch /\ (Over(y) => Over(y)')
      BY <1>2, <1>6 DEF Over, SameId
    <2>2. \A y \in Tasks : rec[y].st = "none" /\ rec'[y].st # "none" => ~ (rec'[y].epoch < bgen)
      BY <1>2, <1>6, NoneFree
    <2> QED
      BY <1>5, <1>25, <1>27, <2>1, <2>2, BarrierStays
  <1>29. GroupsOK'
    <2>1. \A y \in Tasks : GroupPending(y)' <=> GroupPending(y)
      BY <1>1, <1>5, <1>19, <1>20, GroupPendingKept
    <2>2. \A y \in Recs : rec'[y].home = rec[y].home /\ rec'[y].group = rec[y].group
      BY <1>6 DEF SameId
    <2>3. \A y \in Recs : rec[y].st = "run" /\ OpenGroup(y) => rec'[y].st = "run"
      BY <1>6
    <2>4. \A s \in Threads : stack'[s][1].pc \in IdlePcs => stack[s][1].pc \in IdlePcs \/ rec[s].group = None
      BY <1>1, <1>5, <1>27, FirstAbove
    <2>5. \A y \in Tasks : rec[y].st = "none" => rec'[y].st = "none" \/ rec'[y].home = None
      BY <1>2, <1>6, NoneFree
    <2> QED
      BY <1>1, <1>10, <2>1, <2>2, <2>3, <2>4, <2>5, GroupsKept
  <1>30. Shape'
    BY <1>1, <1>5, <1>6, <1>10, <1>25 DEF Shape, Below
  <1> QED
    BY <1>16, <1>18, <1>21, <1>22, <1>23, <1>24, <1>26, <1>28, <1>29, <1>30 DEF TasksInv, RecsOK, RecOK, CountsOK
-----------------------------------------------------------------------------
(* A task is taken from a queue.                                            *)
LEMMA MinIs ==
  ASSUME NEW T \in SUBSET Nat, T # {}
  PROVE  Min(T) \in T /\ \A y \in T : Min(T) <= y
  <1>1. PICK m \in T : \A y \in T : ~ (<<y, m>> \in OpToRel(<, Nat))
    BY NatLessThanWellFounded, WFMin
  <1>2. \A y \in T : y \in Nat /\ m \in Nat /\ ~ (y < m)
    BY <1>1 DEF OpToRel
  <1>3. \A y \in T : m <= y
    BY <1>2
  <1> QED
    BY <1>3 DEF Min

\* v is u without its element at k, if it has one there.
Without(u, v, k) ==
  /\ v \in Seq(Tasks)
  /\ \E w \in [DOMAIN v -> DOMAIN u \ {k}] :
       /\ \A i, j \in DOMAIN v : w[i] = w[j] => i = j
       /\ \A i \in DOMAIN v : v[i] = u[w[i]]

LEMMA WithoutNone ==
  ASSUME NEW u \in Seq(Tasks)
  PROVE  Without(u, u, 0)
  <1> DEFINE w == [i \in DOMAIN u |-> i]
  <1>1. w \in [DOMAIN u -> DOMAIN u \ {0}]
    <2>1. DOMAIN u = 1 .. Len(u) /\ Len(u) \in Nat
      BY LenProperties
    <2> QED
      BY <2>1
  <1> QED
    BY <1>1 DEF Without

LEMMA WithoutLast ==
  ASSUME NEW u \in Seq(Tasks), u # <<>>
  PROVE  Without(u, Front(u), Len(u)) /\ Len(u) \in DOMAIN u /\ Last(u) = u[Len(u)]
  <1>1. PICK n \in Nat : n = Len(u) /\ n # 0 /\ DOMAIN u = 1 .. n
    BY LenProperties, EmptySeq
  <1>2. Front(u) \in Seq(Tasks) /\ Len(Front(u)) = n - 1 /\ (\A i \in 1 .. n - 1 : Front(u)[i] = u[i]) /\ Last(u) = u[n]
    BY <1>1, FrontIs
  <1>3. DOMAIN Front(u) = 1 .. n - 1
    BY <1>2, LenProperties
  <1> DEFINE w == [i \in 1 .. n - 1 |-> i]
  <1>4. w \in [DOMAIN Front(u) -> DOMAIN u \ {n}]
    BY <1>1, <1>3
  <1>5. Without(u, Front(u), n)
    BY <1>2, <1>3, <1>4 DEF Without
  <1> QED
    BY <1>1, <1>2, <1>5

LEMMA WithoutFirst ==
  ASSUME NEW u \in Seq(Tasks), u # <<>>
  PROVE  Without(u, Tail(u), 1) /\ 1 \in DOMAIN u /\ Head(u) = u[1]
  <1>1. PICK n \in Nat : n = Len(u) /\ n # 0 /\ DOMAIN u = 1 .. n
    BY LenProperties, EmptySeq
  <1>2. Tail(u) \in Seq(Tasks) /\ Len(Tail(u)) = n - 1 /\ (\A i \in 1 .. n - 1 : Tail(u)[i] = u[i + 1]) /\ Head(u) = u[1]
    BY <1>1, HeadTailProperties
  <1>3. DOMAIN Tail(u) = 1 .. n - 1
    BY <1>2, LenProperties
  <1> DEFINE w == [i \in 1 .. n - 1 |-> i + 1]
  <1>4. w \in [DOMAIN Tail(u) -> DOMAIN u \ {1}]
    BY <1>1, <1>3
  <1>5. \A i, j \in DOMAIN Tail(u) : w[i] = w[j] => i = j
    BY <1>3
  <1>6. Without(u, Tail(u), 1)
    BY <1>2, <1>3, <1>4, <1>5 DEF Without
  <1> QED
    BY <1>1, <1>2, <1>6

LEMMA WithoutAt ==
  ASSUME NEW u \in Seq(Tasks), NEW k \in DOMAIN u
  PROVE  Without(u, RemoveAt(u, k), k)
  <1>1. PICK n \in Nat : n = Len(u) /\ DOMAIN u = 1 .. n
    BY LenProperties
  <1>2. k \in 1 .. n /\ k \in Nat
    BY <1>1
  <1> DEFINE a == SubSeq(u, 1, k - 1)
             b == SubSeq(u, k + 1, n)
  <1>3. /\ a \in Seq(Tasks) /\ Len(a) = k - 1 /\ \A i \in 1 .. k - 1 : a[i] = u[i]
    BY <1>1, <1>2, SubSeqProperties
  <1>4. /\ b \in Seq(Tasks) /\ Len(b) = n - k /\ \A i \in 1 .. n - k : b[i] = u[k + i]
    BY <1>1, <1>2, SubSeqProperties
  <1>5. RemoveAt(u, k) = a \o b
    BY <1>1 DEF RemoveAt
  <1> HIDE DEF a, b
  <1>6. /\ a \o b \in Seq(Tasks) /\ Len(a \o b) = n - 1 /\ DOMAIN (a \o b) = 1 .. n - 1
        /\ \A i \in 1 .. n - 1 : (a \o b)[i] = IF i <= k - 1 THEN a[i] ELSE b[i - (k - 1)]
    <2>1. /\ a \o b \in Seq(Tasks) /\ Len(a \o b) = Len(a) + Len(b)
          /\ \A i \in 1 .. Len(a) + Len(b) : (a \o b)[i] = IF i <= Len(a) THEN a[i] ELSE b[i - Len(a)]
      BY <1>3, <1>4, ConcatProperties
    <2>2. (k - 1) + (n - k) = n - 1
      BY <1>1, <1>2
    <2>3. Len(a) + Len(b) = n - 1
      BY <1>3, <1>4, <2>2
    <2>4. DOMAIN (a \o b) = 1 .. n - 1
      BY <2>1, <2>3, LenProperties
    <2> QED
      BY <1>3, <2>1, <2>3, <2>4
  <1> DEFINE w == [i \in 1 .. n - 1 |-> IF i <= k - 1 THEN i ELSE i + 1]
  <1>7. w \in [1 .. n - 1 -> DOMAIN u \ {k}] /\ \A i, j \in 1 .. n - 1 : w[i] = w[j] => i = j
    BY <1>1, <1>2
  <1>8. ASSUME NEW i \in 1 .. n - 1
        PROVE  (a \o b)[i] = u[w[i]]
    <2>1. CASE i <= k - 1
      BY <1>2, <1>3, <1>6, <2>1
    <2>2. CASE ~ (i <= k - 1)
      <3>1. i - (k - 1) \in 1 .. n - k /\ k + (i - (k - 1)) = i + 1
        BY <1>1, <1>2, <2>2
      <3> QED
        BY <1>4, <1>6, <2>2, <3>1
    <2> QED
      BY <2>1, <2>2
  <1> HIDE DEF w
  <1> QED
    <2> DEFINE c == a \o b
    <2>1. c \in Seq(Tasks) /\ DOMAIN c = 1 .. n - 1 /\ \A i \in 1 .. n - 1 : c[i] = u[w[i]]
      BY <1>6, <1>8
    <2> HIDE DEF c
    <2>2. Without(u, c, k)
      <3>1. w \in [DOMAIN c -> DOMAIN u \ {k}]
        BY <1>7, <2>1
      <3>2. /\ \A i, j \in DOMAIN c : w[i] = w[j] => i = j
            /\ \A i \in DOMAIN c : c[i] = u[w[i]]
        BY <1>7, <2>1
      <3> QED
        BY <2>1, <3>1, <3>2 DEF Without
    <2> QED
      BY <1>5, <2>2 DEF c

LEMMA QueuesTaken ==
  ASSUME Shape, QueuesOK, NEW k \in [Threads -> Nat], NEW m \in Nat, NEW x \in Tasks,
         \A s \in Threads : Without(dq[s], dq'[s], k[s]), Without(hq, hq', m), DOMAIN dq' = Threads, dq' = [s \in Threads |-> dq'[s]],
         (\E s \in Threads : k[s] \in DOMAIN dq[s] /\ dq[s][k[s]] = x) \/ (m \in DOMAIN hq /\ hq[m] = x),
         \A y \in Tasks : y # x => rec'[y] = rec[y]
  PROVE  /\ QueuesOK' /\ (\A y \in Tasks : Queued(y)' => Queued(y)) /\ ~ Queued(x)'
         /\ dq' \in [Threads -> Seq(Tasks)] /\ hq' \in Seq(Tasks)
  <1>1. dq' \in [Threads -> Seq(Tasks)] /\ hq' \in Seq(Tasks)
    BY DEF Without
  <1>2. \A s \in Threads : \A i \in DOMAIN dq'[s] :
           \E p \in DOMAIN dq[s] : p # k[s] /\ dq'[s][i] = dq[s][p]
    <2> SUFFICES ASSUME NEW s \in Threads, NEW i \in DOMAIN dq'[s]
                 PROVE  \E p \in DOMAIN dq[s] : p # k[s] /\ dq'[s][i] = dq[s][p]
      OBVIOUS
    <2>1. PICK w \in [DOMAIN dq'[s] -> DOMAIN dq[s] \ {k[s]}] : \A a \in DOMAIN dq'[s] : dq'[s][a] = dq[s][w[a]]
      BY DEF Without
    <2>2. w[i] \in DOMAIN dq[s] \ {k[s]} /\ dq'[s][i] = dq[s][w[i]]
      BY <2>1
    <2> QED
      BY <2>2
  <1>3. \A i \in DOMAIN hq' : \E p \in DOMAIN hq : p # m /\ hq'[i] = hq[p]
    BY DEF Without
  <1>4. /\ \A t, s \in Threads : \A i \in DOMAIN dq[t], j \in DOMAIN dq[s] :
             dq[t][i] = dq[s][j] => t = s /\ i = j
        /\ \A i, j \in DOMAIN hq : hq[i] = hq[j] => i = j
        /\ \A t \in Threads : \A i \in DOMAIN dq[t], j \in DOMAIN hq : dq[t][i] # hq[j]
        /\ \A y \in Tasks : Queued(y) => rec[y].st = "wait" /\ rec[y].pred = {} /\ ~ rec[y].kind.if0
    BY DEF QueuesOK
  <1>5. \A y \in Tasks : Queued(y)' => Queued(y)
    BY <1>2, <1>3 DEF Queued
  <1>6. ~ Queued(x)'
    <2>1. \A s \in Threads : \A i \in DOMAIN dq'[s] : dq'[s][i] # x
      BY <1>2, <1>4
    <2>2. \A i \in DOMAIN hq' : hq'[i] # x
      BY <1>3, <1>4
    <2> QED
      BY <2>1, <2>2 DEF Queued
  <1>7. ASSUME NEW t \in Threads, NEW s \in Threads, NEW i \in DOMAIN dq'[t], NEW j \in DOMAIN dq'[s],
               dq'[t][i] = dq'[s][j]
        PROVE  t = s /\ i = j
    <2>1. t = s
      BY <1>2, <1>4, <1>7
    <2>2. PICK w \in [DOMAIN dq'[t] -> DOMAIN dq[t] \ {k[t]}] :
             /\ \A a, b \in DOMAIN dq'[t] : w[a] = w[b] => a = b
             /\ \A a \in DOMAIN dq'[t] : dq'[t][a] = dq[t][w[a]]
      BY DEF Without
    <2>3. w[i] = w[j]
      BY <1>4, <1>7, <2>1, <2>2
    <2> QED
      BY <2>1, <2>2, <2>3
  <1>8. ASSUME NEW i \in DOMAIN hq', NEW j \in DOMAIN hq', hq'[i] = hq'[j]
        PROVE  i = j
    <2>2. PICK w \in [DOMAIN hq' -> DOMAIN hq \ {m}] :
             /\ \A a, b \in DOMAIN hq' : w[a] = w[b] => a = b
             /\ \A a \in DOMAIN hq' : hq'[a] = hq[w[a]]
      BY DEF Without
    <2>3. w[i] = w[j]
      BY <1>4, <1>8, <2>2
    <2> QED
      BY <2>2, <2>3
  <1>9. \A t \in Threads : \A i \in DOMAIN dq'[t], j \in DOMAIN hq' : dq'[t][i] # hq'[j]
    BY <1>2, <1>3, <1>4
  <1>10. \A y \in Tasks : Queued(y)' => rec'[y].st = "wait" /\ rec'[y].pred = {} /\ ~ rec'[y].kind.if0
    BY <1>4, <1>5, <1>6
  <1>11. QueuesOK'
    BY <1>7, <1>8, <1>9, <1>10 DEF QueuesOK
  <1> QED
    BY <1>1, <1>5, <1>6, <1>11

\* No frame waits for a task that is queued to become ready.
LEMMA NotAwaited ==
  ASSUME TasksInv, NEW x \in Tasks, Queued(x), NEW s \in Threads, NEW i \in DOMAIN stack[s]
  PROVE  stack[s][i].ctr # <<"npred", x>>
  <1>1. Counts(stack[s][i]) /\ ~ rec[x].kind.if0
    BY DEF TasksInv, StacksOK, FrameOK, QueuesOK
  <1> SUFFICES ASSUME stack[s][i].ctr = <<"npred", x>> PROVE FALSE
    OBVIOUS
  <1>2. stack[s][i].ctr # <<>>
    OBVIOUS
  <1>3. \A y : <<"npred", y>> = <<"npred", x>> => y = x
    OBVIOUS
  <1> QED
    BY <1>1, <1>2, <1>3 DEF Counts

\* One list has lost its element at p, the others are as they were.
TakenAt(t, p, x) ==
  /\ hq' = hq /\ p \in DOMAIN dq[t] /\ dq[t][p] = x
  /\ \E u : dq' = [dq EXCEPT ![t] = u] /\ Without(dq[t], u, p)
TakenHigh(p, x) == dq' = dq /\ p \in DOMAIN hq /\ hq[p] = x /\ Without(hq, hq', p)

LEMMA QueueRun ==
  ASSUME TasksInv, NEW t \in Threads, NEW x, NEW f, Run(t, x, f), NEW v \in Threads, NEW p,
         TakenAt(v, p, x) \/ TakenHigh(p, x), base' \in [Threads -> Nat],
         x \in Tasks => StartsOn(t, x, f) \/ ~ (rec[x].st = "wait" /\ rec[x].pred = {}),
         UNCHANGED <<grp, live, sync>>
  PROVE  TasksInv'
  <1>1. Shape /\ QueuesOK /\ StacksOK
    BY DEF TasksInv
  <1>2. dq \in [Threads -> Seq(Tasks)] /\ hq \in Seq(Tasks)
    BY <1>1 DEF Shape
  <1>3. p \in Nat /\ x \in Tasks /\ Queued(x)
    <2>1. CASE TakenAt(v, p, x)
      BY <1>2, <2>1 DEF TakenAt, Queued
    <2>2. CASE TakenHigh(p, x)
      BY <1>2, <2>2 DEF TakenHigh, Queued
    <2> QED
      BY <2>1, <2>2
  <1>4. StartsOn(t, x, f)
    BY <1>1, <1>3 DEF QueuesOK
  <1>5. \A y \in Tasks : y # x => rec'[y] = rec[y]
    <2>1. rec \in [Recs -> RecT] /\ x \in Recs
      BY <1>1, <1>3, NoneFree DEF Shape
    <2> QED
      BY <2>1, NoneFree DEF Run
  <1>6. /\ QueuesOK' /\ (\A y \in Tasks : Queued(y)' => Queued(y)) /\ ~ Queued(x)'
        /\ dq' \in [Threads -> Seq(Tasks)] /\ hq' \in Seq(Tasks)
    <2>1. CASE TakenAt(v, p, x)
      <3> DEFINE k == [s \in Threads |-> IF s = v THEN p ELSE 0]
      <3>1. PICK u : dq' = [dq EXCEPT ![v] = u] /\ Without(dq[v], u, p)
        BY <2>1 DEF TakenAt
      <3>2. \A s \in Threads : Without(dq[s], dq'[s], k[s])
        <4>1. dq'[v] = u /\ \A s \in Threads : s # v => dq'[s] = dq[s]
          BY <1>2, <3>1
        <4> QED
          BY <1>2, <3>1, <4>1, WithoutNone
      <3>3. Without(hq, hq', 0)
        BY <1>2, <2>1, WithoutNone DEF TakenAt
      <3>4. k \in [Threads -> Nat] /\ k[v] = p
        BY <1>3
      <3>5. dq' = [s \in Threads |-> dq'[s]] /\ DOMAIN dq' = Threads
        BY <1>2, <3>1
      <3>6. \E s \in Threads : k[s] \in DOMAIN dq[s] /\ dq[s][k[s]] = x
        BY <2>1, <3>4 DEF TakenAt
      <3> HIDE DEF k
      <3> QED
        BY <1>1, <1>3, <1>5, <3>2, <3>3, <3>4, <3>5, <3>6, QueuesTaken
    <2>2. CASE TakenHigh(p, x)
      <3> DEFINE k == [s \in Threads |-> 0]
      <3>2. \A s \in Threads : Without(dq[s], dq'[s], k[s])
        BY <1>2, <2>2, WithoutNone DEF TakenHigh
      <3>4. k \in [Threads -> Nat]
        OBVIOUS
      <3>5. dq' = [s \in Threads |-> dq'[s]] /\ DOMAIN dq' = Threads
        BY <1>2, <2>2 DEF TakenHigh
      <3> HIDE DEF k
      <3> QED
        BY <1>1, <1>3, <1>5, <2>2, <3>2, <3>4, <3>5, QueuesTaken DEF TakenHigh
    <2> QED
      BY <2>1, <2>2
  <1>7. \A s \in Threads : \A i \in DOMAIN stack[s] : stack[s][i].ctr # <<"npred", x>>
    BY <1>3, NotAwaited
  <1>8. f.pc = "wait" => f.ctr # <<"npred", x>>
    <2>1. Top(t) = stack[t][Len(stack[t])] /\ Len(stack[t]) \in DOMAIN stack[t]
      BY <1>1, TopIs
    <2> QED
      BY <1>4, <1>7, <2>1 DEF StartsOn
  <1> QED
    BY <1>4, <1>6, <1>7, <1>8, RunStep

LEMMA LookOwnStep ==
  ASSUME TasksInv, NEW t \in Threads, LookOwn(t)
  PROVE  TasksInv'
  <1>1. /\ pc(t) = "wait" /\ dq[t] # <<>> /\ dq' = [dq EXCEPT ![t] = Front(@)] /\ base' = base /\ hq' = hq
        /\ Run(t, Last(dq[t]), Top(t)) /\ UNCHANGED <<grp, live, sync>>
    BY DEF LookOwn, MustWait, AboveMark
  <1>2. /\ Shape /\ StacksOK /\ Top(t) \in FrameT /\ Top(t).tk = Cur(t) /\ Top(t).pc = pc(t)
        /\ Drops(Top(t)) /\ dq[t] \in Seq(Tasks) /\ base \in [Threads -> Nat]
    BY CurIs DEF Shape
  <1>3. Without(dq[t], Front(dq[t]), Len(dq[t])) /\ Len(dq[t]) \in DOMAIN dq[t] /\ Last(dq[t]) = dq[t][Len(dq[t])]
    BY <1>1, <1>2, WithoutLast
  <1> DEFINE x == Last(dq[t])
  <1>4. TakenAt(t, Len(dq[t]), x)
    BY <1>1, <1>3 DEF TakenAt
  <1>5. x \in Tasks => StartsOn(t, x, Top(t)) \/ ~ (rec[x].st = "wait" /\ rec[x].pred = {})
    BY <1>1, <1>2 DEF StartsOn, Drops
  <1> HIDE DEF x
  <1>6. Run(t, x, Top(t))
    BY <1>1 DEF x
  <1> QED
    BY <1>1, <1>2, <1>4, <1>5, <1>6, QueueRun

LEMMA LookHighStep ==
  ASSUME TasksInv, NEW t \in Threads, LookHigh(t)
  PROVE  TasksInv'
  <1> DEFINE i == Min(HighMatch(t))
             x == hq[i]
  <1>1. /\ pc(t) = "wait" /\ HighMatch(t) # {} /\ dq' = dq /\ base' = base /\ hq' = RemoveAt(hq, i)
        /\ Run(t, x, Top(t)) /\ UNCHANGED <<grp, live, sync>>
    BY DEF LookHigh, MustWait
  <1>2. /\ Shape /\ StacksOK /\ Top(t) \in FrameT /\ Top(t).tk = Cur(t) /\ Top(t).pc = pc(t)
        /\ Drops(Top(t)) /\ hq \in Seq(Tasks) /\ base \in [Threads -> Nat]
    BY CurIs DEF Shape
  <1>3. i \in DOMAIN hq
    <2>1. HighMatch(t) \subseteq DOMAIN hq /\ DOMAIN hq \subseteq Nat
      BY <1>2 DEF HighMatch
    <2>2. HighMatch(t) \in SUBSET Nat
      BY <2>1
    <2> QED
      BY <1>1, <2>1, <2>2, MinIs
  <1>4. TakenHigh(i, x)
    BY <1>1, <1>2, <1>3, WithoutAt DEF TakenHigh
  <1>5. x \in Tasks => StartsOn(t, x, Top(t)) \/ ~ (rec[x].st = "wait" /\ rec[x].pred = {})
    BY <1>1, <1>2 DEF StartsOn, Drops
  <1> HIDE DEF x, i
  <1> QED
    BY <1>1, <1>2, <1>4, <1>5, QueueRun

\* The frame of a thread that looks for tasks at a barrier or at the end.
LEMMA FindStarts ==
  ASSUME TasksInv, NEW t \in Threads, pc(t) = "find", NEW x \in Tasks, rec[x].st = "wait", rec[x].pred = {}
  PROVE  StartsOn(t, x, Idle(t))
  <1>1. Len(stack[t]) = 1 /\ Cur(t) = t /\ t \in Recs
    BY CurIs, NoneFree DEF IdlePcs
  <1>2. PICK p \in {"retest", "drain"} : Idle(t) = Frame(t, p) /\ (p = "retest" <=> AtBarrier(t))
    BY DEF Idle
  <1>3. p \in Pcs
    BY PcIs DEF IdlePcs
  <1>4. IsFrame(Idle(t), t, p, <<>>, <<>>)
    BY <1>1, <1>2, <1>3, FrameIs
  <1> QED
    BY <1>1, <1>2, <1>4 DEF StartsOn, IsFrame

LEMMA FindHighStep ==
  ASSUME TasksInv, NEW t \in Threads, FindHigh(t)
  PROVE  TasksInv'
  <1> DEFINE x == Head(hq)
  <1>1. /\ pc(t) = "find" /\ hq # <<>> /\ dq' = dq /\ base' = base /\ hq' = Tail(hq)
        /\ Run(t, x, Idle(t)) /\ UNCHANGED <<grp, live, sync>>
    BY DEF FindHigh
  <1>2. hq \in Seq(Tasks) /\ base \in [Threads -> Nat]
    BY DEF TasksInv, Shape
  <1>3. TakenHigh(1, x)
    BY <1>1, <1>2, WithoutFirst DEF TakenHigh
  <1>4. x \in Tasks => StartsOn(t, x, Idle(t)) \/ ~ (rec[x].st = "wait" /\ rec[x].pred = {})
    BY <1>1, FindStarts
  <1> HIDE DEF x
  <1> QED
    BY <1>1, <1>2, <1>3, <1>4, QueueRun

LEMMA FindOwnStep ==
  ASSUME TasksInv, NEW t \in Threads, FindOwn(t)
  PROVE  TasksInv'
  <1> DEFINE x == Last(dq[t])
  <1>1. /\ pc(t) = "find" /\ dq[t] # <<>> /\ dq' = [dq EXCEPT ![t] = Front(@)] /\ base' = base /\ hq' = hq
        /\ Run(t, x, Idle(t)) /\ UNCHANGED <<grp, live, sync>>
    BY DEF FindOwn
  <1>2. dq[t] \in Seq(Tasks) /\ base \in [Threads -> Nat]
    BY DEF TasksInv, Shape
  <1>3. TakenAt(t, Len(dq[t]), x)
    <2>1. Without(dq[t], Front(dq[t]), Len(dq[t])) /\ Len(dq[t]) \in DOMAIN dq[t] /\ Last(dq[t]) = dq[t][Len(dq[t])]
      BY <1>1, <1>2, WithoutLast
    <2> QED
      BY <1>1, <2>1 DEF TakenAt
  <1>4. x \in Tasks => StartsOn(t, x, Idle(t)) \/ ~ (rec[x].st = "wait" /\ rec[x].pred = {})
    BY <1>1, FindStarts
  <1> HIDE DEF x
  <1> QED
    BY <1>1, <1>2, <1>3, <1>4, QueueRun

LEMMA FindStealStep ==
  ASSUME TasksInv, NEW t \in Threads, NEW v \in Threads, FindSteal(t, v)
  PROVE  TasksInv'
  <1> DEFINE x == Head(dq[v])
  <1>1. /\ pc(t) = "find" /\ dq[v] # <<>> /\ dq' = [dq EXCEPT ![v] = Tail(@)] /\ hq' = hq
        /\ base' = [base EXCEPT ![v] = @ + 1]
        /\ Run(t, x, Idle(t)) /\ UNCHANGED <<grp, live, sync>>
    BY DEF FindSteal
  <1>2. dq[v] \in Seq(Tasks) /\ base \in [Threads -> Nat]
    BY DEF TasksInv, Shape
  <1>3. base' \in [Threads -> Nat]
    BY <1>1, <1>2
  <1>4. TakenAt(v, 1, x)
    <2>1. Without(dq[v], Tail(dq[v]), 1) /\ 1 \in DOMAIN dq[v] /\ Head(dq[v]) = dq[v][1]
      BY <1>1, <1>2, WithoutFirst
    <2> QED
      BY <1>1, <2>1 DEF TakenAt
  <1>5. x \in Tasks => StartsOn(t, x, Idle(t)) \/ ~ (rec[x].st = "wait" /\ rec[x].pred = {})
    BY <1>1, FindStarts
  <1> HIDE DEF x
  <1> QED
    BY <1>1, <1>3, <1>4, <1>5, QueueRun

\* An undeferred task with dependences is run by the thread that waited for it.
LEMMA WaitRunStep ==
  ASSUME TasksInv, NEW t \in Threads, WaitRun(t)
  PROVE  TasksInv'
  <1>1. /\ pc(t) = "wait" /\ Top(t).ctr[1] = "npred" /\ Counter(Top(t).ctr) = 0 /\ UNCHANGED qVars
        /\ Run(t, Top(t).ctr[2], Frame(Cur(t), "body")) /\ UNCHANGED <<grp, live, sync>>
    BY DEF WaitRun, Waits
  <1>2. /\ Shape /\ StacksOK /\ QueuesOK /\ Top(t) \in FrameT /\ Top(t).tk = Cur(t) /\ Top(t).pc = pc(t)
        /\ Counts(Top(t)) /\ Drops(Top(t)) /\ Cur(t) \in Recs
    BY CurIs
  <1>3. PICK x \in Tasks : Top(t).ctr = <<"npred", x>> /\ Awaited(Top(t), x) /\ rec[x].kind.if0
    BY <1>1, <1>2 DEF Counts, WaitPcs
  <1>4. Top(t).ctr[2] = x /\ rec[x].parent = Cur(t) /\ rec[x].st = "wait" /\ rec[Cur(t)].st = "run"
    BY <1>2, <1>3 DEF Awaited
  <1>5. rec[x].pred = {}
    <2>1. Cardinality(rec[x].pred) = 0
      BY <1>1, <1>3 DEF Counter
    <2>2. IsFiniteSet(rec[x].pred)
      BY <1>2, NoneFree, FS_Subset DEF Shape, RecT
    <2> QED
      BY <2>1, <2>2, FS_EmptySet
  <1> DEFINE f == Frame(Cur(t), "body")
  <1>6. IsFrame(f, Cur(t), "body", <<>>, <<>>)
    BY <1>2, PcIs, FrameIs
  <1>7. Run(t, x, f)
    BY <1>1, <1>4
  <1> HIDE DEF f
  <1>8. StartsOn(t, x, f)
    BY <1>1, <1>4, <1>5, <1>6 DEF StartsOn, IsFrame
  <1>9. ASSUME NEW s \in Threads, NEW i \in DOMAIN stack[s], Old(t, s, i)
        PROVE  stack[s][i].ctr # <<"npred", x>>
    <2> SUFFICES ASSUME stack[s][i].ctr = <<"npred", x>> PROVE FALSE
      OBVIOUS
    <2>1. Counts(stack[s][i])
      BY <1>2 DEF StacksOK, FrameOK
    <2>2. stack[s][i].ctr # <<>> /\ \A y : <<"npred", y>> = <<"npred", x>> => y = x
      OBVIOUS
    <2>3. rec[x].parent = stack[s][i].tk
      BY <2>1, <2>2 DEF Counts, Awaited
    <2>4. Top(t) = stack[t][Len(stack[t])] /\ Len(stack[t]) \in DOMAIN stack[t]
      BY <1>2, TopIs
    <2>5. s = t /\ i = Len(stack[t])
      BY <1>2, <1>4, <2>3, <2>4 DEF StacksOK, Unique
    <2>6. Len(stack[t]) \in Nat
      BY <1>2, TopIs
    <2> QED
      BY <1>9, <2>5, <2>6 DEF Old
  <1>10. /\ dq' = dq /\ base' = base /\ hq' = hq
         /\ dq \in [Threads -> Seq(Tasks)] /\ base \in [Threads -> Nat] /\ hq \in Seq(Tasks)
    BY <1>1, <1>2 DEF qVars, Shape
  <1>11. \A y : Queued(y)' <=> Queued(y)
    BY <1>10 DEF Queued
  <1>12. QueuesOK'
    <2>1. ~ Queued(x)
      BY <1>2, <1>3 DEF QueuesOK
    <2>2. \A y \in Tasks : y # x => rec'[y] = rec[y]
      <3>1. rec \in [Recs -> RecT] /\ x \in Recs
        BY <1>2, NoneFree DEF Shape
      <3> QED
        BY <1>7, <3>1, NoneFree DEF Run
    <2>3. \A y \in Tasks : Queued(y)' => rec'[y].st = "wait" /\ rec'[y].pred = {} /\ ~ rec'[y].kind.if0
      BY <1>2, <1>11, <2>1, <2>2 DEF QueuesOK
    <2> QED
      BY <1>2, <1>10, <2>3 DEF QueuesOK
  <1>13. f.pc = "wait" => f.ctr # <<"npred", x>>
    BY <1>6 DEF IsFrame
  <1> QED
    BY <1>1, <1>7, <1>8, <1>9, <1>10, <1>11, <1>12, <1>13, RunStep
-----------------------------------------------------------------------------
(* Taskgroups.                                                             *)
InGrp(g) == {x \in Tasks : GroupPending(x) /\ rec[x].home = g}

\* A task that its group counts keeps the group open.
LEMMA GroupHeld ==
  ASSUME TasksInv, NEW x \in Tasks, GroupPending(x), rec[x].home # None
  PROVE  /\ rec[x].home \in Groups /\ grp[rec[x].home].st = "open" /\ grp[rec[x].home].count > 0
         /\ IsFiniteSet(InGrp(rec[x].home)) /\ grp[rec[x].home].count = Cardinality(InGrp(rec[x].home))
  <1>1. Shape /\ GroupsOK /\ x \in Recs /\ rec[x].st # "none"
    BY NoneFree DEF TasksInv, GroupPending, Deferred
  <1>2. rec[x].home \in Groups
    BY <1>1 DEF Shape, RecT
  <1> DEFINE g == rec[x].home
  <1>3. grp[g].st # "none"
    BY <1>1 DEF GroupsOK
  <1>4. grp[g].count = Cardinality(InGrp(g)) /\ (grp[g].st = "freed" => grp[g].count = 0)
    BY <1>1, <1>2, <1>3 DEF GroupsOK, InGrp
  <1>5. x \in InGrp(g) /\ IsFiniteSet(InGrp(g))
    BY NoneFree, FS_Subset DEF InGrp
  <1>6. Cardinality(InGrp(g)) \in Nat /\ Cardinality(InGrp(g)) # 0
    BY <1>5, FS_EmptySet, FS_CardinalityType
  <1>7. grp[g].st \in {"none", "open", "freed"}
    BY <1>1, <1>2 DEF Shape, GrpT
  <1> QED
    BY <1>2, <1>3, <1>4, <1>5, <1>6, <1>7

LEMMA GroupCounts ==
  ASSUME GroupsOK, NEW h \in Groups
  PROVE  /\ grp[h].st = "none" => grp[h].count = 0
         /\ grp[h].st # "none" => grp[h].count = Cardinality(InGrp(h))
         /\ grp[h].st = "freed" => grp[h].count = 0
  <1>1. CASE grp[h].st = "none"
    BY <1>1 DEF GroupsOK
  <1>2. CASE grp[h].st # "none"
    BY <1>2 DEF GroupsOK, InGrp
  <1> QED
    BY <1>1, <1>2

LEMMA GroupsMove ==
  ASSUME Shape, GroupsOK, RecsOK,
         \A g \in Groups : grp'[g].st = grp[g].st /\ grp'[g].parent = grp[g].parent /\ grp'[g].owner = grp[g].owner,
         \A g \in Groups : IF grp[g].st = "none" THEN grp'[g].count = 0
                           ELSE /\ grp'[g].count = Cardinality(InGrp(g)')
                                /\ grp[g].st = "freed" => grp'[g].count = 0,
         \A x \in Recs : rec[x].st # "none" => rec'[x].home = rec[x].home /\ rec'[x].group = rec[x].group,
         \A x \in Recs : rec[x].st = "none" =>
           /\ rec'[x].group = rec'[x].home
           /\ rec'[x].st = "none" \/ rec'[x].home = None \/ (rec'[x].home \in Groups /\ grp[rec'[x].home].st # "none"),
         \A x \in Recs : rec[x].st = "run" /\ OpenGroup(x) => rec'[x].st = "run",
         \A s \in Threads : stack'[s][1].pc \in IdlePcs => stack[s][1].pc \in IdlePcs \/ rec[s].group = None
  PROVE  GroupsOK'
  <1>0. /\ \A x \in Recs : rec[x].group \in Groups \cup {None} /\ rec[x].home \in Groups \cup {None}
        /\ \A g \in Groups : grp[g].parent \in Groups \cup {None}
    BY DEF Shape, RecT, GrpT
  <1>1. \A x \in Recs : rec'[x].group = rec'[x].home
                     \/ (rec'[x].group # None /\ grp'[rec'[x].group].owner = x /\ rec'[x].st = "run"
                         /\ grp'[rec'[x].group].st = "open")
    <2>1. ASSUME NEW x \in Recs, rec[x].st # "none"
          PROVE  rec'[x].group = rec'[x].home
                     \/ (rec'[x].group # None /\ grp'[rec'[x].group].owner = x /\ rec'[x].st = "run"
                         /\ grp'[rec'[x].group].st = "open")
      <3>1. CASE rec[x].group = rec[x].home
        BY <2>1, <3>1
      <3>2. CASE rec[x].group # None /\ grp[rec[x].group].owner = x /\ rec[x].st = "run" /\ grp[rec[x].group].st = "open"
        <4>1. rec[x].group \in Groups
          BY <1>0, <3>2
        <4> QED
          BY <2>1, <3>2, <4>1 DEF OpenGroup
      <3> QED
        BY <3>1, <3>2 DEF GroupsOK
    <2> QED
      BY <2>1
  <1>2. \A x \in Tasks : rec'[x].st # "none" /\ rec'[x].home # None => grp'[rec'[x].home].st # "none"
    <2> SUFFICES ASSUME NEW x \in Tasks, rec'[x].st # "none", rec'[x].home # None
                 PROVE  grp'[rec'[x].home].st # "none"
      OBVIOUS
    <2>1. x \in Recs
      BY NoneFree
    <2>2. CASE rec[x].st = "none"
      BY <2>1, <2>2
    <2>3. CASE rec[x].st # "none"
      BY <1>0, <2>1, <2>3 DEF GroupsOK
    <2> QED
      BY <2>2, <2>3
  <1>3. ASSUME NEW g \in Groups, grp[g].st # "none"
        PROVE  /\ grp'[g].owner \in Recs
               /\ grp'[g].st = "open" =>
                    \/ grp'[g].parent = rec'[grp'[g].owner].home
                    \/ grp'[g].parent # None /\ grp'[grp'[g].parent].owner = grp'[g].owner
               /\ grp'[g].st = "open" /\ grp'[g].parent # None => grp'[grp'[g].parent].st = "open"
               /\ grp'[g].count = Cardinality({x \in Tasks : GroupPending(x) /\ rec[x].home = g}')
               /\ grp'[g].st = "freed" => grp'[g].count = 0
    <2>1. InGrp(g)' = {x \in Tasks : GroupPending(x) /\ rec[x].home = g}'
      BY DEF InGrp
    <2>2. grp'[g].count = Cardinality(InGrp(g)') /\ (grp'[g].st = "freed" => grp'[g].count = 0)
      BY <1>3
    <2>3. /\ grp[g].owner \in Recs
          /\ grp[g].st = "open" =>
               \/ grp[g].parent = rec[grp[g].owner].home
               \/ grp[g].parent # None /\ grp[grp[g].parent].owner = grp[g].owner
          /\ grp[g].st = "open" /\ grp[g].parent # None => grp[grp[g].parent].st = "open"
      BY <1>3 DEF GroupsOK
    <2>4. grp[g].st = "open" => rec[grp[g].owner].st = "run"
      BY DEF GroupsOK, Nested
    <2>5. grp[g].st = "open" => rec'[grp[g].owner].home = rec[grp[g].owner].home
      BY <2>3, <2>4
    <2> QED
      BY <1>0, <2>1, <2>2, <2>3, <2>5
  <1>5. Nested'
    <2>1. Nested
      BY DEF GroupsOK
    <2>2. ASSUME NEW g \in Groups, grp'[g].st = "open"
          PROVE  /\ OpenGroup(grp[g].owner)' /\ rec'[grp'[g].owner].st = "run"
                 /\ g <= rec'[grp'[g].owner].group
      <3>1. grp[g].owner \in Recs /\ grp[g].st = "open"
        BY <2>2 DEF GroupsOK
      <3>2. OpenGroup(grp[g].owner) /\ rec[grp[g].owner].st = "run" /\ g <= rec[grp[g].owner].group
        BY <2>1, <3>1 DEF Nested
      <3>3. rec[grp[g].owner].group \in Groups /\ rec'[grp[g].owner].group = rec[grp[g].owner].group
        BY <1>0, <3>1, <3>2 DEF OpenGroup
      <3> QED
        BY <3>1, <3>2, <3>3 DEF OpenGroup
    <2>3. \A s \in Threads : stack'[s][1].pc \in IdlePcs => rec'[s].group = None
      <3>1. \A s \in Threads : s \in Recs /\ rec[s].st # "none"
        BY NoneFree DEF RecsOK, Born
      <3> QED
        BY <2>1, <3>1 DEF Nested
    <2>4. \A g \in Groups : grp'[g].st # "none" /\ grp'[g].parent # None => grp'[g].parent < g
      BY <2>1 DEF Nested
    <2>5. \A g, h \in Groups :
       /\ grp'[g].st = "open" /\ grp'[h].st = "open" /\ grp'[g].owner = grp'[h].owner /\ h < g
       => /\ grp'[g].parent # None /\ grp'[grp'[g].parent].owner = grp'[g].owner
          /\ h <= grp'[g].parent
      BY <1>0, <2>1 DEF Nested
    <2> QED
      BY <2>2, <2>3, <2>4, <2>5 DEF Nested
  <1>6. \A g \in Groups :
          IF grp'[g].st = "none" THEN grp'[g].count = 0
          ELSE /\ grp'[g].owner \in Recs
               /\ grp'[g].st = "open" =>
                    \/ grp'[g].parent = rec'[grp'[g].owner].home
                    \/ grp'[g].parent # None /\ grp'[grp'[g].parent].owner = grp'[g].owner
               /\ grp'[g].st = "open" /\ grp'[g].parent # None => grp'[grp'[g].parent].st = "open"
               /\ grp'[g].count = Cardinality({x \in Tasks : GroupPending(x) /\ rec[x].home = g}')
               /\ grp'[g].st = "freed" => grp'[g].count = 0
    <2>1. ASSUME NEW g \in Groups, grp[g].st = "none"
          PROVE  grp'[g].st = "none" /\ grp'[g].count = 0
      BY <2>1
    <2>2. ASSUME NEW g \in Groups, grp[g].st # "none"
          PROVE  grp'[g].st # "none"
      BY <2>2
    <2> QED
      BY <1>3, <2>1, <2>2
  <1> QED
    BY <1>1, <1>2, <1>5, <1>6 DEF GroupsOK

Told(g, f, cs, next) ==
  /\ g \in FrameT /\ g.tk = f.tk /\ g.ctr = f.ctr /\ g.drop = f.drop /\ g.tell = cs /\ g.next = next
  /\ cs = <<>> => g.pc = next
  /\ cs # <<>> => g.pc = "notify"

LEMMA NotifyIs ==
  ASSUME NEW f \in FrameT, NEW cs \in Seq(Ctrs), NEW next \in {"children", "group", "unref"}
  PROVE  Told(ToNotify(f, cs, next), f, cs, next)
  <1>1. next \in Pcs /\ "notify" \in Pcs
    BY PcIs
  <1> QED
    BY <1>1 DEF Told, ToNotify, FrameT

\* A task leaves its taskgroup: the group still counted it, so it was open.
LEMMA GroupDoneStep ==
  ASSUME TasksInv, NEW t \in Threads, GroupDone(t)
  PROVE  TasksInv'
  <1>1. /\ Shape /\ StacksOK /\ RecsOK /\ QueuesOK /\ CountsOK /\ GroupsOK /\ BarrierOK
        /\ Top(t) \in FrameT /\ Cur(t) \in Recs /\ Top(t).tk = Cur(t) /\ Top(t).pc = pc(t)
        /\ Fate(Top(t)) /\ Counts(Top(t)) /\ Drops(Top(t))
        /\ (Len(stack[t]) = 1 => Cur(t) = t)
    BY CurIs
  <1>2. PICK x \in Recs : x = Cur(t)
    BY <1>1
  <1>3. PICK g : g = rec[x].group
    OBVIOUS
  <1>4. /\ pc(t) = "group" /\ grp' = [grp EXCEPT ![g].count = @ - 1]
        /\ SetTop(t, ToNotify(Top(t), IF grp[g].count = 1 THEN <<<<"group", g>>>> ELSE <<>>, "unref"))
        /\ UNCHANGED <<rec, qVars, live, sync>>
    BY <1>2, <1>3 DEF GroupDone
  <1>5. /\ rec[x].st = "over" /\ Deferred(x) /\ g # None /\ Top(t).drop = Dropped(x) /\ Top(t).ctr = <<>>
        /\ ~ Ending(Top(t)) /\ InGroup(Top(t)) /\ x \in Tasks /\ x \notin Threads
    <2>1. rec[x].st = "over" /\ Deferred(x)
      BY <1>1, <1>2, <1>4 DEF Fate
    <2>2. g # None /\ Top(t).drop = Dropped(x)
      BY <1>1, <1>2, <1>3, <1>4 DEF Drops
    <2>3. ~ Ending(Top(t)) /\ InGroup(Top(t)) /\ Top(t).ctr = <<>>
      BY <1>1, <1>4 DEF Ending, InGroup, Counts, WaitPcs
    <2>4. x \in Tasks /\ x \notin Threads
      BY <2>1, NoneFree DEF Deferred
    <2> QED
      BY <2>1, <2>2, <2>3, <2>4
  <1>6. g = rec[x].home /\ GroupPending(x)
    BY <1>1, <1>2, <1>3, <1>4, <1>5 DEF GroupsOK, GroupPending
  <1>7. /\ g \in Groups /\ grp[g].st = "open" /\ IsFiniteSet(InGrp(g)) /\ grp[g].count = Cardinality(InGrp(g))
    BY <1>5, <1>6, GroupHeld
  <1> DEFINE cs == IF grp[g].count = 1 THEN <<<<"group", g>>>> ELSE <<>>
             f == ToNotify(Top(t), cs, "unref")
  <1>8. cs \in Seq(Ctrs)
    <2>1. <<"group", g>> \in Ctrs
      BY <1>7 DEF Ctrs
    <2> QED
      BY <2>1
  <1> HIDE DEF cs
  <1>9. Told(f, Top(t), cs, "unref") /\ SetTop(t, f)
    BY <1>1, <1>4, <1>8, NotifyIs DEF cs
  <1> HIDE DEF f
  <1>10. Topped(t, f) /\ Below(t) /\ Top(t)' = f
    BY <1>1, <1>9, SetTopStep, TopAfter DEF Told, Topped
  <1>11. /\ f.pc \in {"notify", "unref"} /\ ~ Ending(f) /\ ~ InGroup(f) /\ f.tk = x /\ f.drop = Top(t).drop
         /\ f.ctr = <<>> /\ f.next = "unref" /\ (f.pc = "notify" => f.tell # <<>>) /\ f \in FrameT
    BY <1>1, <1>2, <1>5, <1>9 DEF Told, Ending, InGroup
  <1>12. rec' = rec /\ live' = live /\ dq' = dq /\ base' = base /\ hq' = hq /\ UNCHANGED barVars
         /\ tm' = tm /\ nwait' = nwait /\ sleepers' = sleepers
         /\ barrived' = barrived /\ bgen' = bgen /\ gen' = gen /\ passed' = passed
    BY <1>4 DEF qVars, sync, idleVars, waitVars, barVars
  <1>13. Still(t, f)
    BY <1>2, <1>4, <1>5, <1>10, <1>11, <1>12 DEF Still, SameCore
  <1>14. \A y : Queued(y)' <=> Queued(y)
    BY <1>12 DEF Queued
  <1>15. RecsOK' /\ QueuesOK'
    BY <1>1, <1>12, <1>13, <1>14, StillRecs, StillQueues
  <1>16. ChildrenOK' /\ RefsOK' /\ LiveOK' /\ EndOK'
    BY <1>1, <1>13, StillCounts DEF CountsOK
  <1>17. /\ grp' \in [Groups -> GrpT] /\ grp'[g].count = grp[g].count - 1
         /\ (\A h \in Groups : grp'[h].st = grp[h].st /\ grp'[h].parent = grp[h].parent /\ grp'[h].owner = grp[h].owner)
         /\ \A h \in Groups : h # g => grp'[h] = grp[h]
    <2>1. grp \in [Groups -> GrpT] /\ grp[g] \in GrpT
      BY <1>1, <1>7 DEF Shape
    <2> DEFINE q == [grp[g] EXCEPT !.count = grp[g].count - 1]
    <2>2. q \in GrpT /\ q.st = grp[g].st /\ q.parent = grp[g].parent /\ q.owner = grp[g].owner /\ q.count = grp[g].count - 1
      BY <2>1 DEF GrpT
    <2>3. grp' = [grp EXCEPT ![g] = q]
      BY <1>4
    <2> HIDE DEF q
    <2> QED
      BY <1>7, <2>1, <2>2, <2>3
  <1>18. Undisturbed(t, None)
    BY <1>1, <1>13, <1>14, <1>17, StillUndisturbed
  <1>19. PICK n \in Nat : n = Len(stack[t]) /\ n # 0
    BY <1>1, TopIs
  <1>20. n # 1
    BY <1>1, <1>2, <1>5, <1>19
  <1>21. stack'[t][n] = f /\ Len(stack'[t]) = n
    BY <1>10, <1>19 DEF Topped
  <1>22. FrameOK(t, n)'
    <2>1. Placed(t, n)'
      <3>1. FrameOK(t, n) /\ Top(t) = stack[t][n]
        BY <1>1, <1>19, TopIs
      <3>2. n = 2 => stack'[t][1] = stack[t][1]
        BY <1>10, <1>19 DEF Below
      <3>3. Deferred(x)'
        BY <1>5, <1>12 DEF Deferred
      <3> QED
        BY <1>5, <1>11, <1>19, <1>20, <1>21, <3>3 DEF Placed, Deferred, IdlePcs, TcPcs
    <2>2. rec'[f.tk] = rec[x] /\ ~ Static(x)
      BY <1>5, <1>11, <1>12 DEF Static, Deferred
    <2>3. Fate(stack[t][n])'
      BY <1>5, <1>11, <1>12, <1>21, <2>2 DEF Fate, Deferred, RunPcs, IdlePcs, TcPcs, WaitPcs
    <2>4. Counts(stack[t][n])'
      BY <1>11, <1>21 DEF Counts, WaitPcs
    <2>5. Drops(stack[t][n])'
      <3>1. f.drop = <<rec[x].parent, x>> /\ f.drop # <<>>
        BY <1>5, <1>11 DEF Dropped
      <3> QED
        BY <1>5, <1>11, <1>12, <1>21, <2>2, <3>1 DEF Drops, Dropped, Static
    <2> QED
      BY <2>1, <2>3, <2>4, <2>5 DEF FrameOK
  <1>23. StacksOK'
    BY <1>1, <1>2, <1>10, <1>11, <1>18, <1>19, <1>22, ToppedStacks
  <1>24. SleepOK'
    <2>1. pc(t)' = f.pc
      BY <1>10 DEF pc
    <2>2. Naps(t, pc(t)')
      BY <1>4, <1>11, <1>12, <2>1 DEF Naps, Moved, SlotPcs, TcPcs
    <2> QED
      BY <1>1, <1>10, <2>2, SleepMoves DEF CountsOK
  <1>25. Len(stack[t]) # 1
    BY <1>19, <1>20
  <1>26. BarrierOK'
    <2>1. \A y : Over(y)' <=> Over(y)
      BY <1>12 DEF Over
    <2> QED
      BY <1>10, <1>12, <1>25, <2>1, BarrierStays
  <1>27. GroupsOK'
    <2>1. ASSUME NEW y \in Tasks
          PROVE  GroupPending(y)' <=> GroupPending(y) /\ y # x
      <3>1. CASE y # x
        <4>1. Cur(t)' # y /\ Cur(t) # y
          BY <1>2, <1>10, <1>11, <3>1 DEF Cur
        <4>2. (Deferred(y)' <=> Deferred(y)) /\ (rec'[y].st \in {"wait", "run"} <=> rec[y].st \in {"wait", "run"})
          BY <1>12 DEF Deferred
        <4> QED
          BY <1>1, <1>10, <3>1, <4>1, <4>2, GroupPendingSame
      <3>2. CASE y = x
        <4>1. ASSUME NEW s \in Threads, Cur(s)' = x PROVE s = t
          <5>1. CASE s = t
            BY <5>1
          <5>2. CASE s # t
            <6>1. Cur(s) = x
              BY <1>1, <1>10, <4>1, <5>2, OtherTops
            <6>2. /\ Top(s) = stack[s][Len(stack[s])] /\ Len(stack[s]) \in DOMAIN stack[s]
                  /\ Top(t) = stack[t][Len(stack[t])] /\ Len(stack[t]) \in DOMAIN stack[t]
              BY <1>1, TopIs
            <6> QED
              BY <1>1, <1>2, <6>1, <6>2 DEF StacksOK, Unique, Cur
          <5> QED
            BY <5>1, <5>2
        <4>2. ~ InGroup(Top(t))'
          BY <1>10, <1>11 DEF InGroup, Ending
        <4> QED
          BY <1>5, <1>12, <3>2, <4>1, <4>2 DEF GroupPending
      <3> QED
        BY <3>1, <3>2
    <2>2. /\ x \in InGrp(g) /\ x \notin InGrp(g)'
          /\ \A y : y # x => (y \in InGrp(g) <=> y \in InGrp(g)')
      BY <1>5, <1>6, <1>12, <2>1 DEF InGrp
    <2>3. Cardinality(InGrp(g)') = Cardinality(InGrp(g)) - 1
      BY <1>7, <2>2, CountMoves
    <2>4. \A h \in Groups : h # g => InGrp(h)' = InGrp(h)
      BY <1>6, <1>12, <2>1 DEF InGrp
    <2>5. ASSUME NEW h \in Groups
          PROVE  IF grp[h].st = "none" THEN grp'[h].count = 0
                 ELSE /\ grp'[h].count = Cardinality(InGrp(h)')
                      /\ grp[h].st = "freed" => grp'[h].count = 0
      <3>1. CASE h = g
        BY <1>7, <1>17, <2>3, <3>1
      <3>2. CASE h # g
        BY <1>1, <1>17, <2>4, <3>2, GroupCounts
      <3> QED
        BY <3>1, <3>2
    <2>6. \A s \in Threads : stack'[s][1].pc \in IdlePcs => stack[s][1].pc \in IdlePcs \/ rec[s].group = None
      BY <1>1, <1>10, <1>25, FirstAbove
    <2>7. \A y \in Recs : rec[y].st = "none" => rec[y].group = rec[y].home
      BY <1>1 DEF GroupsOK
    <2> QED
      BY <1>1, <1>12, <1>17, <2>5, <2>6, <2>7, GroupsMove
  <1>28. Shape'
    BY <1>1, <1>10, <1>12, <1>17 DEF Shape, Below
  <1> QED
    BY <1>15, <1>16, <1>23, <1>24, <1>26, <1>27, <1>28 DEF TasksInv, CountsOK
=============================================================================
