-------------------------- MODULE OmpRegionProofs --------------------------
(***************************************************************************)
(* Proofs about OmpRegion and KernelGroup, for every size of the team, any *)
(* set of regions, and any number of work-items, groups and barriers.      *)
(***************************************************************************)
EXTENDS OmpRegion, FiniteSetTheorems, TLAPS

-----------------------------------------------------------------------------
(* The work-groups of a kernel launch.  What the barrier's counters stand    *)
(* for: n counts the items that have not returned, the ones not yet created  *)
(* included, and waiting the items held in the current generation.           *)
Live == {i \in 1 .. launch.items : item[i].pc # "gone"}
Held == {i \in 1 .. launch.items : item[i].pc = "wait" /\ item[i].gen = bar.gen}

GroupTyped ==
  /\ launch \in [items : 0 .. MaxItems, left : Int, created : Nat]
  /\ launch.created <= launch.items
  /\ bar \in [n : Int, waiting : Int, gen : Nat]
  /\ item \in [Items -> [pc : {"none", "run", "wait", "gone"}, gen : Nat, met : Nat]]

\* An item that runs has met one barrier per generation; one that waits is at
\* most one generation behind.
ItemOK(i) ==
  /\ item[i].met <= bar.gen
  /\ item[i].pc \in {"none", "run"} => item[i].met = bar.gen
  /\ item[i].pc = "wait" =>
       /\ item[i].met = item[i].gen
       /\ item[i].gen = bar.gen \/ item[i].gen + 1 = bar.gen

GroupInv ==
  /\ GroupTyped
  /\ \A i \in Items : (item[i].pc = "none") <=> (i > launch.created)
  /\ \A i \in Items : item[i].pc = "none" => item[i] = NoItem
  /\ bar.n = Cardinality(Live) /\ bar.waiting = Cardinality(Held)
  /\ \A i \in 1 .. launch.items : ItemOK(i)

\* A launch is under way only while the program's thread is in it.
LaunchInv ==
  /\ GroupInv
  /\ DOMAIN th = Threads
  /\ th[0].pc # "launch" => launch.items = 0

LEMMA OpenedTyped ==
  ASSUME NEW b \in [n : Int, waiting : Int, gen : Nat]
  PROVE  Opened(b) \in [n : Int, waiting : Int, gen : Nat]
  <1>1. [b EXCEPT !.waiting = 0] \in [n : Int, waiting : Int, gen : Nat]
    OBVIOUS
  <1>2. \A y \in [n : Int, waiting : Int, gen : Nat], k \in Nat :
          [y EXCEPT !.gen = k] \in [n : Int, waiting : Int, gen : Nat]
    OBVIOUS
  <1>3. b.gen + 1 \in Nat
    OBVIOUS
  <1>4. Opened(b) = [[b EXCEPT !.waiting = 0] EXCEPT !.gen = b.gen + 1]
    BY DEF Opened
  <1> QED
    BY <1>1, <1>2, <1>3, <1>4

LEMMA LaunchTyped ==
  ASSUME NEW x \in [items : 0 .. MaxItems, left : Int, created : Nat]
  PROVE  [x EXCEPT !.left = @ - 1, !.created = 0]
           \in [items : 0 .. MaxItems, left : Int, created : Nat]
  <1>1. [x EXCEPT !.left = @ - 1] \in [items : 0 .. MaxItems, left : Int, created : Nat]
    OBVIOUS
  <1>2. \A y \in [items : 0 .. MaxItems, left : Int, created : Nat] :
          [y EXCEPT !.created = 0] \in [items : 0 .. MaxItems, left : Int, created : Nat]
    OBVIOUS
  <1>3. [x EXCEPT !.left = @ - 1, !.created = 0]
          = [[x EXCEPT !.left = x.left - 1] EXCEPT !.created = 0]
    OBVIOUS
  <1> QED
    BY <1>1, <1>2, <1>3

\* A work-item that is held counts among those that have not returned, and the
\* counts are of finite sets.
LEMMA HeldFinite ==
  ASSUME GroupInv
  PROVE  /\ IsFiniteSet(Live) /\ IsFiniteSet(Held) /\ Held \subseteq Live
         /\ bar.n \in Nat /\ bar.waiting \in Nat
  <1>1. IsFiniteSet(1 .. launch.items)
    BY FS_Interval DEF GroupInv, GroupTyped
  <1>2. Held \subseteq Live /\ Live \subseteq 1 .. launch.items /\ Held \subseteq 1 .. launch.items
    BY DEF Held, Live
  <1>3. IsFiniteSet(Live) /\ IsFiniteSet(Held)
    BY <1>1, <1>2, FS_Subset
  <1>4. Cardinality(Live) \in Nat /\ Cardinality(Held) \in Nat
    BY <1>3, FS_CardinalityType
  <1> QED
    BY <1>2, <1>3, <1>4 DEF GroupInv

\* If one item is not held and as many as all the others are, then all the others are.
LEMMA AllOthersHeld ==
  ASSUME GroupInv, NEW i \in Live, i \notin Held, bar.waiting + 1 = bar.n
  PROVE  Held = Live \ {i}
  <1>1. IsFiniteSet(Live \ {i}) /\ Cardinality(Live \ {i}) = Cardinality(Live) - 1
    BY HeldFinite, FS_RemoveElement
  <1>2. Held \subseteq Live \ {i}
    BY HeldFinite
  <1>3. Cardinality(Held) = Cardinality(Live \ {i})
    BY <1>1, HeldFinite DEF GroupInv
  <1> QED
    BY <1>1, <1>2, <1>3, FS_Subset

LEMMA GroupInitInv == GroupInit => GroupInv
  <1> SUFFICES ASSUME GroupInit PROVE GroupInv
    OBVIOUS
  <1>1. Live = {} /\ Held = {}
    BY DEF GroupInit, Live, Held
  <1> QED
    BY <1>1, FS_EmptySet, GroupAssumption DEF GroupInit, GroupInv, GroupTyped, NoBar, NoItem, Items, ItemOK

LEMMA LaunchPreserves ==
  ASSUME GroupInv, launch.items = 0, NEW n \in Items, NEW g \in 1 .. MaxGroups, Launch(n, g)
  PROVE  GroupInv'
  <1>0. n \in 1 .. MaxItems /\ MaxItems \in Nat /\ g \in Int
    BY GroupAssumption DEF Items
  <1>1. launch' = [items |-> n, left |-> g, created |-> 0] /\ item' = item
        /\ bar' = [n |-> n, waiting |-> 0, gen |-> 0]
    BY DEF Launch, NoBar
  <1>2. launch.created = 0
    BY DEF GroupInv, GroupTyped
  <1>3. \A i \in Items : item[i] = NoItem /\ item[i].pc = "none"
    BY <1>2 DEF GroupInv, Items
  <1>4. GroupTyped'
    BY <1>0, <1>1 DEF GroupInv, GroupTyped
  <1>5. Live' = 1 .. n /\ Held' = {}
    BY <1>0, <1>1, <1>3 DEF Live, Held, Items
  <1>6. Cardinality(Live') = n /\ Cardinality(Held') = 0
    BY <1>0, <1>5, FS_Interval, FS_EmptySet
  <1>7. \A i \in 1 .. n : ItemOK(i)'
    BY <1>0, <1>1, <1>3 DEF ItemOK, NoItem, Items
  <1>8. \A i \in Items : i > 0
    BY <1>0 DEF Items
  <1> QED
    BY <1>1, <1>3, <1>4, <1>6, <1>7, <1>8 DEF GroupInv, NoItem

LEMMA ItemCreatePreserves ==
  ASSUME GroupInv, ItemCreate
  PROVE  GroupInv'
  <1> DEFINE c == launch.created + 1
  <1>0. /\ MaxItems \in Nat /\ launch.items \in 0 .. MaxItems /\ c \in 1 .. launch.items
        /\ c \in Items /\ launch.created \in Nat
    BY GroupAssumption DEF GroupInv, GroupTyped, ItemCreate, Items
  <1>1. /\ launch' = [launch EXCEPT !.created = @ + 1] /\ bar' = bar
        /\ item' = [item EXCEPT ![c] = [pc |-> "run", gen |-> 0, met |-> 0]]
    <2>1. [NoItem EXCEPT !.pc = "run"] = [pc |-> "run", gen |-> 0, met |-> 0]
      BY DEF NoItem
    <2> QED
      BY <2>1 DEF ItemCreate
  <1>2. item[c] = NoItem /\ item[c].pc = "none"
    BY <1>0 DEF GroupInv
  <1>3. bar.gen = 0
    BY <1>0, <1>2 DEF GroupInv, ItemOK, NoItem
  <1>4. launch'.items = launch.items /\ launch'.created = c
    BY <1>0, <1>1 DEF GroupInv, GroupTyped
  <1>5. GroupTyped'
    BY <1>0, <1>1 DEF GroupInv, GroupTyped
  <1>6. Live' = Live
    BY <1>0, <1>1, <1>2, <1>4 DEF Live, Items, GroupInv, GroupTyped
  <1>7. Held' = Held
    BY <1>0, <1>1, <1>2, <1>4 DEF Held, Items, GroupInv, GroupTyped
  <1>8. \A i \in Items : i # c => item'[i] = item[i]
    BY <1>1 DEF GroupInv, GroupTyped
  <1>9. item'[c] = [pc |-> "run", gen |-> 0, met |-> 0]
    BY <1>0, <1>1 DEF GroupInv, GroupTyped
  <1>10. \A i \in Items : ((item'[i].pc = "none") <=> (i > launch'.created))
                          /\ (item'[i].pc = "none" => item'[i] = NoItem)
    BY <1>0, <1>4, <1>8, <1>9 DEF GroupInv, Items
  <1>11. \A i \in 1 .. launch'.items : ItemOK(i)'
    BY <1>0, <1>1, <1>3, <1>4, <1>8, <1>9 DEF GroupInv, ItemOK, Items
  <1> QED
    BY <1>1, <1>5, <1>6, <1>7, <1>10, <1>11 DEF GroupInv

\* A group that has been joined leaves no item behind.
LEMMA NextGroupPreserves ==
  ASSUME GroupInv, NextGroup
  PROVE  GroupInv'
  <1>0. MaxItems \in Nat /\ launch.items \in 1 .. MaxItems
    BY GroupAssumption DEF GroupInv, GroupTyped, NextGroup, GroupJoined
  <1>1. /\ launch' = [launch EXCEPT !.left = @ - 1, !.created = 0]
        /\ bar' = [n |-> launch.items, waiting |-> 0, gen |-> 0]
        /\ item' = [i \in Items |-> NoItem]
    BY DEF NextGroup, GroupJoined, NoBar
  <1>2. launch'.items = launch.items /\ launch'.created = 0
    BY <1>1 DEF GroupInv, GroupTyped
  <1>3. Live' = 1 .. launch.items /\ Held' = {}
    BY <1>0, <1>1, <1>2 DEF Live, Held, NoItem, Items
  <1>4. Cardinality(Live') = launch.items /\ Cardinality(Held') = 0
    BY <1>0, <1>3, FS_Interval, FS_EmptySet
  <1>5. GroupTyped'
    <2>1. launch' \in [items : 0 .. MaxItems, left : Int, created : Nat]
      BY <1>1, LaunchTyped DEF GroupInv, GroupTyped
    <2>2. bar' \in [n : Int, waiting : Int, gen : Nat]
      BY <1>0, <1>1
    <2>3. item' \in [Items -> [pc : {"none", "run", "wait", "gone"}, gen : Nat, met : Nat]]
      BY <1>1 DEF NoItem
    <2> QED
      BY <1>0, <1>2, <2>1, <2>2, <2>3 DEF GroupTyped
  <1>6. \A i \in 1 .. launch'.items : ItemOK(i)'
    BY <1>0, <1>1, <1>2 DEF ItemOK, NoItem, Items
  <1>7. \A i \in Items : i > 0
    BY <1>0 DEF Items
  <1> QED
    BY <1>1, <1>2, <1>4, <1>5, <1>6, <1>7 DEF GroupInv, NoItem

LEMMA LaunchOverPreserves ==
  ASSUME GroupInv, LaunchOver
  PROVE  GroupInv' /\ launch'.items = 0
  <1>1. /\ launch' = [items |-> 0, left |-> 0, created |-> 0]
        /\ bar' = [n |-> 0, waiting |-> 0, gen |-> 0]
        /\ item' = [i \in Items |-> NoItem]
    BY DEF LaunchOver, GroupJoined, NoBar
  <1>2. Live' = {} /\ Held' = {}
    BY <1>1 DEF Live, Held
  <1> QED
    BY <1>1, <1>2, FS_EmptySet, GroupAssumption DEF GroupInv, GroupTyped, NoItem, Items, ItemOK

-----------------------------------------------------------------------------
(* An item's step keeps the other items; where the barrier opens, all of     *)
(* them are held in the generation that ends.                                *)
\* A step of a running item i.
LEMMA RunningItem ==
  ASSUME GroupInv, NEW i \in Items, item[i].pc = "run"
  PROVE  i \in 1 .. launch.items /\ i \in Live /\ i \notin Held /\ item[i].met = bar.gen
  <1>1. i <= launch.created /\ launch.created <= launch.items
    BY GroupAssumption DEF GroupInv, GroupTyped, Items
  <1>2. i \in 1 .. launch.items
    BY <1>1, GroupAssumption DEF GroupInv, GroupTyped, Items
  <1> QED
    BY <1>2 DEF Live, Held, GroupInv, ItemOK

LEMMA ItemWaitPreserves ==
  ASSUME GroupInv, NEW i \in Items, ItemWait(i)
  PROVE  GroupInv'
  <1>0. item[i].pc = "run" /\ launch' = launch
    BY DEF ItemWait
  <1>1. i \in 1 .. launch.items /\ i \in Live /\ i \notin Held /\ item[i].met = bar.gen
    BY <1>0, RunningItem
  <1>2. \A j \in 1 .. launch.items : j \in Items
    BY GroupAssumption DEF GroupInv, GroupTyped, Items
  <1>3. CASE bar.waiting + 1 = bar.n
    <2>1. /\ bar' = [bar EXCEPT !.waiting = 0, !.gen = @ + 1]
          /\ item' = [item EXCEPT ![i].met = @ + 1]
      BY <1>3 DEF ItemWait, Opened
    <2>2. Held = Live \ {i}
      BY <1>1, <1>3, AllOthersHeld
    <2>3. /\ bar'.n = bar.n /\ bar'.waiting = 0 /\ bar'.gen = bar.gen + 1
          /\ item'[i] = [item[i] EXCEPT !.met = @ + 1]
          /\ \A j \in Items : j # i => item'[j] = item[j]
      BY <2>1 DEF GroupInv, GroupTyped
    <2>4. /\ item'[i].pc = "run" /\ item'[i].gen = item[i].gen /\ item'[i].met = bar.gen + 1
      BY <1>0, <1>1, <2>3 DEF GroupInv, GroupTyped
    <2>5. Live' = Live
      BY <1>0, <1>2, <2>3, <2>4 DEF Live
    <2>6. Held' = {}
      <3>1. \A j \in 1 .. launch.items : item[j].pc = "wait" => item[j].gen # bar.gen + 1
        BY DEF GroupInv, ItemOK, GroupTyped
      <3> QED
        BY <1>0, <1>2, <2>3, <2>4, <3>1 DEF Held
    <2>7. GroupTyped'
      <3>1. item' \in [Items -> [pc : {"none", "run", "wait", "gone"}, gen : Nat, met : Nat]]
        BY <2>1 DEF GroupInv, GroupTyped
      <3>2. bar' \in [n : Int, waiting : Int, gen : Nat]
        <4>1. bar \in [n : Int, waiting : Int, gen : Nat] /\ bar.gen + 1 \in Nat
          BY DEF GroupInv, GroupTyped
        <4> QED
          BY <2>1, <4>1, OpenedTyped DEF Opened
      <3> QED
        BY <1>0, <3>1, <3>2 DEF GroupInv, GroupTyped
    <2>8. \A j \in 1 .. launch.items : ItemOK(j)'
      <3> SUFFICES ASSUME NEW j \in 1 .. launch.items PROVE ItemOK(j)'
        OBVIOUS
      <3>1. CASE j = i
        BY <3>1, <2>3, <2>4, <1>2 DEF ItemOK, GroupInv, GroupTyped
      <3>2. CASE j # i
        <4>1. item'[j] = item[j] /\ ItemOK(j)
          BY <3>2, <1>2, <2>3 DEF GroupInv
        <4>2. item[j].pc # "gone" => item[j].pc = "wait" /\ item[j].gen = bar.gen
          BY <3>2, <2>2 DEF Live, Held
        <4>3. bar.gen \in Nat /\ item[j].met \in Nat /\ item[j].gen \in Nat
              /\ item[j].pc \in {"none", "run", "wait", "gone"}
          BY <1>2 DEF GroupInv, GroupTyped
        <4> QED
          BY <4>1, <4>2, <4>3, <2>3 DEF ItemOK
      <3> QED
        BY <3>1, <3>2
    <2>9. \A j \in Items : ((item'[j].pc = "none") <=> (j > launch'.created))
                           /\ (item'[j].pc = "none" => item'[j] = NoItem)
      BY <1>0, <2>3, <2>4, ZenonT(30) DEF GroupInv
    <2> QED
      BY <1>0, <2>3, <2>5, <2>6, <2>7, <2>8, <2>9, FS_EmptySet DEF GroupInv
  <1>4. CASE bar.waiting + 1 # bar.n
    <2>1. /\ bar' = [bar EXCEPT !.waiting = @ + 1]
          /\ item' = [item EXCEPT ![i].pc = "wait", ![i].gen = bar.gen]
      BY <1>4 DEF ItemWait
    <2>3. /\ bar'.n = bar.n /\ bar'.waiting = bar.waiting + 1 /\ bar'.gen = bar.gen
          /\ item'[i] = [item[i] EXCEPT !.pc = "wait", !.gen = bar.gen]
          /\ \A j \in Items : j # i => item'[j] = item[j]
      BY <2>1 DEF GroupInv, GroupTyped
    <2>4. /\ item'[i].pc = "wait" /\ item'[i].gen = bar.gen /\ item'[i].met = bar.gen
      BY <1>0, <1>1, <2>3 DEF GroupInv, GroupTyped
    <2>5. Live' = Live
      BY <1>0, <1>2, <2>3, <2>4 DEF Live
    <2>6. Held' = Held \cup {i}
      BY <1>0, <1>1, <1>2, <2>3, <2>4 DEF Held
    <2>61. Cardinality(Held') = Cardinality(Held) + 1
      BY <2>6, <1>1, HeldFinite, FS_AddElement
    <2>7. GroupTyped'
      <3>1. item' \in [Items -> [pc : {"none", "run", "wait", "gone"}, gen : Nat, met : Nat]]
        BY <2>1, ZenonT(30) DEF GroupInv, GroupTyped
      <3>2. bar' \in [n : Int, waiting : Int, gen : Nat]
        BY <2>1 DEF GroupInv, GroupTyped
      <3> QED
        BY <1>0, <3>1, <3>2 DEF GroupInv, GroupTyped
    <2>8. \A j \in 1 .. launch.items : ItemOK(j)'
      <3> SUFFICES ASSUME NEW j \in 1 .. launch.items PROVE ItemOK(j)'
        OBVIOUS
      <3>1. CASE j = i
        BY <3>1, <2>3, <2>4, <1>2 DEF ItemOK, GroupInv, GroupTyped
      <3>2. CASE j # i
        BY <3>2, <1>2, <2>3 DEF ItemOK, GroupInv, GroupTyped
      <3> QED
        BY <3>1, <3>2
    <2>9. \A j \in Items : ((item'[j].pc = "none") <=> (j > launch'.created))
                           /\ (item'[j].pc = "none" => item'[j] = NoItem)
      BY <1>0, <2>3, <2>4, ZenonT(30) DEF GroupInv
    <2> QED
      BY <1>0, <2>3, <2>5, <2>61, <2>7, <2>8, <2>9 DEF GroupInv
  <1> QED
    BY <1>3, <1>4

LEMMA ItemPassPreserves ==
  ASSUME GroupInv, NEW i \in Items, ItemPass(i)
  PROVE  GroupInv'
  <1>0. item[i].pc = "wait" /\ item[i].gen # bar.gen /\ launch' = launch /\ bar' = bar
    BY DEF ItemPass, Released
  <1>1. i \in 1 .. launch.items
    BY <1>0, GroupAssumption DEF GroupInv, GroupTyped, Items
  <1>2. \A j \in 1 .. launch.items : j \in Items
    BY GroupAssumption DEF GroupInv, GroupTyped, Items
  <1>3. /\ item'[i] = [item[i] EXCEPT !.pc = "run", !.gen = 0, !.met = @ + 1]
        /\ \A j \in Items : j # i => item'[j] = item[j]
    BY DEF ItemPass, GroupInv, GroupTyped
  <1>4. item[i].met + 1 = bar.gen /\ item[i].met \in Nat
    BY <1>0, <1>1 DEF GroupInv, GroupTyped, ItemOK
  <1>5. item'[i].pc = "run" /\ item'[i].gen = 0 /\ item'[i].met = bar.gen
    BY <1>3, <1>4 DEF GroupInv, GroupTyped
  <1>6. Live' = Live
    BY <1>0, <1>2, <1>3, <1>5, ZenonT(30) DEF Live
  <1>7. Held' = Held
    BY <1>0, <1>2, <1>3, <1>5 DEF Held
  <1>8. GroupTyped'
    <2>1. item' \in [Items -> [pc : {"none", "run", "wait", "gone"}, gen : Nat, met : Nat]]
      BY DEF ItemPass, GroupInv, GroupTyped
    <2> QED
      BY <1>0, <2>1 DEF GroupInv, GroupTyped
  <1>9. \A j \in 1 .. launch.items : ItemOK(j)'
    <2> SUFFICES ASSUME NEW j \in 1 .. launch.items PROVE ItemOK(j)'
      OBVIOUS
    <2>1. CASE j = i
      BY <2>1, <1>0, <1>5 DEF ItemOK, GroupInv, GroupTyped
    <2>2. CASE j # i
      BY <2>2, <1>0, <1>2, <1>3 DEF ItemOK, GroupInv
    <2> QED
      BY <2>1, <2>2
  <1>10. \A j \in Items : ((item'[j].pc = "none") <=> (j > launch'.created))
                          /\ (item'[j].pc = "none" => item'[j] = NoItem)
    BY <1>0, <1>3, <1>5 DEF GroupInv
  <1> QED
    BY <1>0, <1>6, <1>7, <1>8, <1>9, <1>10 DEF GroupInv

LEMMA ItemLeavePreserves ==
  ASSUME GroupInv, NEW i \in Items, ItemLeave(i)
  PROVE  GroupInv'
  <1> DEFINE b == [bar EXCEPT !.n = @ - 1]
  <1>0. item[i].pc = "run" /\ launch' = launch /\ item' = [item EXCEPT ![i].pc = "gone"]
        /\ bar' = IF b.n > 0 /\ b.waiting = b.n THEN Opened(b) ELSE b
    BY DEF ItemLeave
  <1>1. i \in 1 .. launch.items /\ i \in Live /\ i \notin Held /\ item[i].met = bar.gen
    BY <1>0, RunningItem
  <1>2. \A j \in 1 .. launch.items : j \in Items
    BY GroupAssumption DEF GroupInv, GroupTyped, Items
  <1>3. b \in [n : Int, waiting : Int, gen : Nat]
        /\ b.n = bar.n - 1 /\ b.waiting = bar.waiting /\ b.gen = bar.gen
    BY DEF GroupInv, GroupTyped
  <1> HIDE DEF b
  <1>4. /\ \A j \in Items : j # i => item'[j] = item[j]
        /\ item'[i].pc = "gone" /\ item'[i].gen = item[i].gen /\ item'[i].met = item[i].met
    BY <1>0 DEF GroupInv, GroupTyped
  <1>5. Live' = Live \ {i}
    BY <1>0, <1>1, <1>2, <1>4 DEF Live
  <1>6. Cardinality(Live') = bar.n - 1
    BY <1>1, <1>5, HeldFinite, FS_RemoveElement DEF GroupInv
  <1>7. GroupTyped'
    <2>1. item' \in [Items -> [pc : {"none", "run", "wait", "gone"}, gen : Nat, met : Nat]]
      BY <1>0 DEF GroupInv, GroupTyped
    <2>2. bar' \in [n : Int, waiting : Int, gen : Nat]
      BY <1>0, <1>3, OpenedTyped
    <2> QED
      BY <1>0, <2>1, <2>2 DEF GroupInv, GroupTyped
  <1>8. \A j \in Items : ((item'[j].pc = "none") <=> (j > launch'.created))
                          /\ (item'[j].pc = "none" => item'[j] = NoItem)
    BY <1>0, <1>4 DEF GroupInv
  <1>9. CASE b.n > 0 /\ b.waiting = b.n
    <2>1. Held = Live \ {i}
      BY <1>1, <1>3, <1>9, HeldFinite, AllOthersHeld
    <2>2. bar'.n = b.n /\ bar'.waiting = 0 /\ bar'.gen = bar.gen + 1
      BY <1>0, <1>3, <1>9 DEF Opened
    <2>3. Held' = {}
      <3>1. \A j \in 1 .. launch.items : item[j].pc = "wait" => item[j].gen # bar.gen + 1
        BY DEF GroupInv, ItemOK, GroupTyped
      <3> QED
        BY <1>0, <1>2, <1>4, <2>2, <3>1 DEF Held
    <2>4. \A j \in 1 .. launch.items : ItemOK(j)'
      <3> SUFFICES ASSUME NEW j \in 1 .. launch.items PROVE ItemOK(j)'
        OBVIOUS
      <3>1. CASE j = i
        BY <3>1, <1>1, <1>4, <2>2 DEF ItemOK, GroupInv, GroupTyped
      <3>2. CASE j # i
        <4>1. item'[j] = item[j] /\ ItemOK(j)
          BY <3>2, <1>2, <1>4 DEF GroupInv
        <4>2. item[j].pc # "gone" => item[j].pc = "wait" /\ item[j].gen = bar.gen
          BY <3>2, <2>1 DEF Live, Held
        <4>3. bar.gen \in Nat /\ item[j].met \in Nat /\ item[j].gen \in Nat
              /\ item[j].pc \in {"none", "run", "wait", "gone"}
          BY <1>2 DEF GroupInv, GroupTyped
        <4> QED
          BY <4>1, <4>2, <4>3, <2>2 DEF ItemOK
      <3> QED
        BY <3>1, <3>2
    <2> QED
      BY <1>0, <1>3, <1>6, <1>7, <1>8, <2>2, <2>3, <2>4, FS_EmptySet DEF GroupInv
  <1>10. CASE ~ (b.n > 0 /\ b.waiting = b.n)
    <2>1. bar'.n = b.n /\ bar'.waiting = bar.waiting /\ bar'.gen = bar.gen
      BY <1>0, <1>3, <1>10
    <2>2. Held' = Held
      BY <1>0, <1>1, <1>2, <1>4, <2>1 DEF Held
    <2>3. \A j \in 1 .. launch.items : ItemOK(j)'
      <3> SUFFICES ASSUME NEW j \in 1 .. launch.items PROVE ItemOK(j)'
        OBVIOUS
      <3>1. CASE j = i
        BY <3>1, <1>1, <1>4, <2>1 DEF ItemOK, GroupInv, GroupTyped
      <3>2. CASE j # i
        BY <3>2, <1>2, <1>4, <2>1 DEF ItemOK, GroupInv
      <3> QED
        BY <3>1, <3>2
    <2> QED
      BY <1>0, <1>3, <1>6, <1>7, <1>8, <2>1, <2>2, <2>3 DEF GroupInv
  <1> QED
    BY <1>9, <1>10

LEMMA GroupStepPreserves ==
  ASSUME GroupInv, GroupStep
  PROVE  GroupInv' /\ launch'.items = launch.items /\ launch.items > 0
  <1>1. CASE ItemCreate
    <2>1. launch.items > 0 /\ launch'.items = launch.items
      BY <1>1 DEF ItemCreate, GroupInv, GroupTyped
    <2> QED
      BY <1>1, <2>1, ItemCreatePreserves
  <1>2. CASE NextGroup
    <2>1. launch.items > 0 /\ launch'.items = launch.items
      BY <1>2 DEF NextGroup, GroupJoined, GroupInv, GroupTyped
    <2> QED
      BY <1>2, <2>1, NextGroupPreserves
  <1>3. ASSUME NEW i \in Items, ItemWait(i) \/ ItemPass(i) \/ ItemLeave(i)
        PROVE  GroupInv' /\ launch'.items = launch.items /\ launch.items > 0
    <2>1. launch' = launch /\ item[i].pc # "none"
      BY <1>3 DEF ItemWait, ItemPass, ItemLeave
    <2>2. launch.items > 0
      BY <2>1, GroupAssumption DEF GroupInv, GroupTyped, Items
    <2> QED
      BY <1>3, <2>1, <2>2, ItemWaitPreserves, ItemPassPreserves, ItemLeavePreserves
  <1> QED
    BY <1>1, <1>2, <1>3 DEF GroupStep
-----------------------------------------------------------------------------
(* The regions' steps leave the launch alone.                                *)
ThreadZero == 0 \in Threads /\ Threads = 0 .. MaxTeam - 1

LEMMA ZeroIsThread == ThreadZero
  BY RegionAssumption DEF ThreadZero, Threads

\* A thread's step keeps the set of threads, and thread 0 where it is in a launch.
LEMMA ThreadStepKeeps ==
  ASSUME DOMAIN th = Threads, NEW t \in Threads, ThreadStep(t)
  PROVE  DOMAIN th' = Threads /\ (th[0].pc = "launch" => th'[0] = th[0])
  <1> USE ZeroIsThread DEF ThreadZero, At, Put
  <1>1. CASE RunNested(t) \/ KernelClaim(t) \/ SingleBegin(t) \/ SingleCas(t)
    BY <1>1 DEF RunNested, KernelClaim, SingleBegin, SingleCas, SingleWon, AtConstruct
  <1>2. CASE Arrive(t) \/ Pass(t) \/ CopyGet(t) \/ LoopBegin(t) \/ LoopStatic(t)
    BY <1>2 DEF Arrive, Pass, CopyGet, LoopBegin, LoopStatic, LoopOver, AtConstruct
  <1>3. CASE LoopLoad(t) \/ LoopClaim(t) \/ ChunkEnd(t)
    BY <1>3 DEF LoopLoad, LoopClaim, LoopOver, ChunkEnd
  <1>4. CASE Iterate(t) \/ OrderedIterate(t) \/ OrderedBegin(t) \/ OrderedEnd(t) \/ CrossIterate(t)
    BY <1>4 DEF Iterate, OrderedIterate, OrderedBegin, OrderedEnd, CrossIterate, More
  <1>5. CASE SinkSpin(t) \/ SinkLock(t) \/ SinkTest(t) \/ SinkWoken(t)
    BY <1>5 DEF SinkSpin, SinkLock, SinkTest, SinkWoken
  <1>6. CASE Source(t) \/ Crossed(t) \/ Post(t)
    BY <1>6 DEF Source, Crossed, Post
  <1>7. CASE PostWake(t)
    BY <1>7 DEF PostWake, Sleepers
  <1>8. CASE WorkerTake(t) \/ WorkerDone(t) \/ (t = 0 /\ Join)
    BY <1>8 DEF WorkerTake, WorkerDone, Join, Done
  <1> QED
    BY <1>1, <1>2, <1>3, <1>4, <1>5, <1>6, <1>7, <1>8 DEF ThreadStep, Worksharing, Iterations

LEMMA GroupUnchanged ==
  ASSUME GroupInv, UNCHANGED groupVars
  PROVE  GroupInv' /\ launch' = launch
  BY DEF GroupInv, GroupTyped, ItemOK, Live, Held, groupVars

LEMMA LaunchNext ==
  ASSUME LaunchInv, Next
  PROVE  LaunchInv'
  <1> USE ZeroIsThread DEF ThreadZero
  <1>1. ASSUME NEW r \in Regions, Fork(r), UNCHANGED groupVars
        PROVE  LaunchInv'
    BY <1>1, GroupUnchanged DEF LaunchInv, Fork, At
  <1>2. CASE KernelLaunch
    <2>1. PICK n \in Items, groups \in 1 .. MaxGroups : Launch(n, groups)
      BY <1>2 DEF KernelLaunch
    <2>2. GroupInv'
      BY <1>2, <2>1, LaunchPreserves DEF LaunchInv, KernelLaunch, At
    <2> QED
      BY <1>2, <2>2 DEF LaunchInv, KernelLaunch, Put
  <1>3. ASSUME NEW t \in Threads, ThreadStep(t)
        PROVE  LaunchInv'
    <2>1. UNCHANGED groupVars
      BY <1>3 DEF ThreadStep
    <2> QED
      BY <1>3, <2>1, GroupUnchanged, ThreadStepKeeps DEF LaunchInv
  <1>4. CASE KernelStep
    BY <1>4, GroupStepPreserves DEF LaunchInv, KernelStep
  <1>5. CASE KernelReturn
    BY <1>5, LaunchOverPreserves DEF LaunchInv, KernelReturn, Put
  <1> QED
    BY <1>1, <1>2, <1>3, <1>4, <1>5 DEF Next, Step

\* Work-items meet in step, in every launch a program makes: one that is past its
\* k-th barrier leaves none of its group behind the k-th, however often the
\* barrier is used again before the last item is out of it, and whichever items
\* return early (pool/runtime.c:21-44).
THEOREM KernelInStep == Spec => []ItemsInStep
  <1>1. Init => LaunchInv
    BY GroupInitInv, ZeroIsThread DEF Init, LaunchInv, GroupInit, ThreadZero
  <1>2. LaunchInv /\ [Next]_vars => LaunchInv'
    <2> SUFFICES ASSUME LaunchInv, [Next]_vars PROVE LaunchInv'
      OBVIOUS
    <2>1. CASE Next
      BY <2>1, LaunchNext
    <2>2. CASE UNCHANGED vars
      BY <2>2, GroupUnchanged DEF vars, LaunchInv, groupVars
    <2> QED
      BY <2>1, <2>2
  <1>3. LaunchInv => ItemsInStep
    <2> SUFFICES ASSUME LaunchInv, NEW i \in 1 .. launch.items, NEW j \in 1 .. launch.items,
                        item[j].pc # "gone"
                 PROVE  Arrived(j) >= item[i].met
      BY DEF ItemsInStep
    <2>1. i \in Items /\ j \in Items
      BY GroupAssumption DEF LaunchInv, GroupInv, GroupTyped, Items
    <2>2. item[i].met <= bar.gen /\ ItemOK(j)
      BY DEF LaunchInv, GroupInv, ItemOK
    <2>3. bar.gen \in Nat /\ item[i].met \in Nat /\ item[j].met \in Nat /\ item[j].gen \in Nat
          /\ item[j].pc \in {"none", "run", "wait", "gone"}
      BY <2>1 DEF LaunchInv, GroupInv, GroupTyped
    <2> QED
      BY <2>2, <2>3 DEF Arrived, ItemOK
  <1> QED
    BY <1>1, <1>2, <1>3, PTL DEF Spec
-----------------------------------------------------------------------------
(* Teams.  Shapes of the records, so that an update of one field keeps the   *)
(* others.                                                                   *)
ThShape(x) ==
  /\ DOMAIN x = {"pc", "seen", "team", "tls", "ip", "st", "b", "e", "k", "cur", "gen", "todo"}
  /\ DOMAIN x.tls = {"single", "obase", "ofrom", "dbase", "daseq"}

TeamShape(x) ==
  DOMAIN x = {"id", "alive", "n", "body", "single", "copy", "ordered", "dyn", "group",
              "barrived", "bgen"}

DaShape(x) == DOMAIN x = {"st", "left", "ent", "waiters", "m"}

PoolShape(x) == DOMAIN x = {"gen", "pending", "n", "team"}

SleepPcs  == {"sinktest", "asleep", "woken"}
CrossPcs  == {"sink", "source", "crossed", "post", "posted"} \cup SleepPcs
LoopPcs   == {"next", "claim", "iter", "obegin", "oregion"} \cup CrossPcs
RegionPcs == {"start", "bar", "barred", "get", "single"} \cup LoopPcs
OutPcs(t) == IF t = 0 THEN {"idle", "launch"} ELSE {"absent", "wait"}

\* What holds of a thread x in the region of the team tm: the construct it is at,
\* how many doacross loops it has begun, and that its bases are below the team's
\* counter, so that no claim finds the counter below its loop.
LocalOK(x, tm) ==
  /\ x.pc \in RegionPcs
  /\ x.ip \in Nat \ {0} /\ x.ip <= Len(tm.body) + 1
  /\ x.pc # "start" => x.ip <= Len(tm.body)
  /\ x.tls.daseq \in Nat /\ x.tls.daseq <= x.ip
  /\ x.pc = "start" => x.tls.daseq < x.ip
  /\ x.pc \in LoopPcs => tm.body[x.ip].what = "loop"
  /\ x.pc \in CrossPcs => tm.body[x.ip].mode = "doacross" /\ tm.n # 1
  /\ x.pc \in LoopPcs /\ tm.body[x.ip].mode = "doacross" /\ tm.n # 1 => x.tls.daseq > 0
  /\ x.tls.dbase \in Int
  /\ tm.n # 1 => x.tls.dbase <= tm.dyn
  /\ x.pc = "claim" => /\ x.cur \in Int /\ tm.n # 1
                       /\ x.tls.dbase <= x.cur /\ x.cur <= tm.dyn
  /\ x.pc \in {"bar", "barred", "get"} => x.todo \in {<<>>, <<"bar">>, <<"get", "bar">>}
  /\ x.pc \in {"post", "posted"} => x.todo \in {<<>>, <<"crossed">>}

TeamOK ==
  /\ TeamShape(team)
  /\ team.id \in Nat /\ team.alive \in BOOLEAN /\ team.n \in 0 .. MaxTeam /\ team.dyn \in Nat
  /\ team.barrived \in Nat /\ (team.barrived = 0 \/ team.barrived < team.n)
  /\ team.alive => team.id > 0 /\ \E r \in Regions : team.n = r.n /\ team.body = r.body

\* The workers the pool still waits for: they have not seen the generation, or
\* are in the region.
Busy == {w \in 1 .. pool.n - 1 : th[w].seen # pool.gen \/ InRegion(w)}

PoolTyped ==
  /\ PoolShape(pool)
  /\ pool.gen \in Nat /\ pool.n \in 0 .. MaxTeam

PoolThread(t) ==
  /\ th[t].seen \in Nat /\ th[t].seen <= pool.gen
  /\ (th[t].team = 0) <=> (th[t].pc \in OutPcs(t))
  /\ th[t].pc = "absent" => t >= pool.n
  /\ InRegion(t) => /\ team.alive /\ th[t].team = team.id /\ t < team.n
                    /\ t # 0 => th[t].seen = pool.gen

PoolOK ==
  /\ PoolTyped
  /\ \A t \in Threads : PoolThread(t)
  /\ team.alive <=> InRegion(0)
  /\ team.alive /\ ~ Alone => pool.n = team.n /\ pool.team = team.id
  /\ pool.pending = Cardinality(Busy)
  /\ Busy # {} => team.alive /\ ~ Alone

\* Thread x of the team tm is in a doacross loop.
CrossIn(x, tm) ==
  x.team # 0 /\ x.pc \in LoopPcs /\ tm.body[x.ip].mode = "doacross" /\ tm.n # 1

\* Thread t will not be in the team's s-th doacross loop any more.
HasLeft(t, s) ==
  IF InRegion(t) THEN D(t) > s \/ (D(t) = s /\ ~ CrossIn(th[t], team))
  ELSE t # 0 /\ th[t].seen = pool.gen

NotLeft(s) == {t \in 0 .. team.n - 1 : ~ HasLeft(t, s)}
Waiting(s) == {t \in Threads : th[t].pc \in SleepPcs /\ D(t) = s}

\* A doacross loop is freed when every thread of the team has left it; those that
\* have not yet come to it count, and whoever is in it has made it.
DaLoop(s) ==
  /\ DaShape(da[s]) /\ da[s].st \in {"none", "live", "freed"}
  /\ da[s].left \in 0 .. MaxTeam
  /\ da[s].waiters = Cardinality(Waiting(s))
  /\ team.alive /\ ~ Alone =>
       /\ da[s].st = "live" => Cardinality(NotLeft(s)) <= da[s].left
       /\ da[s].st = "freed" => NotLeft(s) = {}

DaOK ==
  /\ DOMAIN da = DaSeqs
  /\ \A s \in DaSeqs : DaLoop(s)
  /\ \A t \in Threads : CrossIn(th[t], team) => da[D(t)].st # "none"

RegionInv ==
  /\ DOMAIN th = Threads /\ \A t \in Threads : ThShape(th[t])
  /\ TeamOK /\ PoolOK /\ DaOK
  /\ \A t \in Threads : InRegion(t) => LocalOK(th[t], team)
-----------------------------------------------------------------------------
(* What a step does to the acting thread's record.                           *)
Steps == {<<>>, <<"bar">>, <<"bar", "bar">>, <<"get", "bar">>, <<"bar", "get", "bar">>}

\* Thread x of the team tm can go on behind the construct it is at.
Ready(x, tm) ==
  /\ ThShape(x)
  /\ x.ip \in Nat \ {0} /\ x.ip <= Len(tm.body)
  /\ x.tls.daseq \in Nat /\ x.tls.daseq <= x.ip
  /\ x.tls.dbase \in Int /\ (tm.n # 1 => x.tls.dbase <= tm.dyn)

\* x goes to y; generation, team and the number of doacross loops stay.
Keeps(x, y) ==
  /\ ThShape(y)
  /\ y.seen = x.seen /\ y.team = x.team /\ y.tls.daseq = x.tls.daseq

LEMMA TailSteps ==
  ASSUME NEW s \in Steps, s # <<>>
  PROVE  Head(s) \in {"bar", "get"} /\ Tail(s) \in {<<>>, <<"bar">>, <<"get", "bar">>}
  <1>1. CASE s = <<"bar">>
    <2>1. Tail(s) = <<>>
      BY <1>1
    <2> QED BY <1>1, <2>1
  <1>2. CASE s = <<"bar", "bar">>
    <2>1. Tail(s) = <<"bar">>
      BY <1>2
    <2> QED BY <1>2, <2>1
  <1>3. CASE s = <<"get", "bar">>
    <2>1. Tail(s) = <<"bar">>
      BY <1>3
    <2> QED BY <1>3, <2>1
  <1>4. CASE s = <<"bar", "get", "bar">>
    <2>1. Tail(s) = <<"get", "bar">>
      BY <1>4
    <2> QED BY <1>4, <2>1
  <1> QED
    BY <1>1, <1>2, <1>3, <1>4 DEF Steps

LEMMA GoOnOK ==
  ASSUME NEW x, NEW tm, Ready(x, tm), Len(tm.body) \in Nat, NEW s \in Steps
  PROVE  /\ Keeps(x, GoOn(x, s)) /\ LocalOK(GoOn(x, s), tm)
         /\ GoOn(x, s).pc \in {"start", "bar", "get"}
  <1>1. CASE s = <<>>
    <2> DEFINE y == [x EXCEPT !.pc = "start", !.ip = @ + 1, !.todo = <<>>]
    <2>1. GoOn(x, s) = y
      BY <1>1 DEF GoOn
    <2>2. ThShape(y) /\ y.seen = x.seen /\ y.team = x.team /\ y.tls = x.tls
      BY DEF ThShape, Ready
    <2>3. y.pc = "start" /\ y.ip = x.ip + 1
      BY DEF ThShape, Ready
    <2> HIDE DEF y
    <2>4. LocalOK(y, tm)
      BY <2>2, <2>3 DEF LocalOK, Ready, RegionPcs, LoopPcs, CrossPcs, SleepPcs
    <2> QED
      BY <2>1, <2>2, <2>3, <2>4 DEF Keeps
  <1>2. CASE s # <<>>
    <2> DEFINE y == [x EXCEPT !.pc = Head(s), !.todo = Tail(s)]
    <2>1. GoOn(x, s) = y
      BY <1>2 DEF GoOn
    <2>2. ThShape(y) /\ y.seen = x.seen /\ y.team = x.team /\ y.tls = x.tls /\ y.ip = x.ip
      BY DEF ThShape, Ready
    <2>3. y.pc = Head(s) /\ y.todo = Tail(s)
      BY DEF ThShape, Ready
    <2> HIDE DEF y
    <2>4. LocalOK(y, tm)
      BY <1>2, <2>2, <2>3, TailSteps DEF LocalOK, Ready, RegionPcs, LoopPcs, CrossPcs, SleepPcs
    <2> QED
      BY <1>2, <2>1, <2>2, <2>3, <2>4, TailSteps DEF Keeps
  <1> QED
    BY <1>1, <1>2

LEMMA Tail1Steps ==
  ASSUME NEW c
  PROVE  Tail1(c) \in Steps
  BY DEF Tail1, Steps

LEMMA RegionReady ==
  ASSUME NEW x, NEW tm, ThShape(x), LocalOK(x, tm), x.pc # "start"
  PROVE  Ready(x, tm)
  BY DEF LocalOK, Ready
-----------------------------------------------------------------------------
(* A step within the region, in the terms of the invariant: the acting       *)
(* thread stays in order, the others keep still or are woken, the team       *)
(* stays, and the doacross loops follow what the thread does.                *)
TeamKept ==
  /\ TeamShape(team') /\ team'.id = team.id /\ team'.alive = team.alive
  /\ team'.n = team.n /\ team'.body = team.body
  /\ team'.dyn \in Int /\ team'.dyn >= team.dyn
  /\ team'.barrived \in Nat /\ (team'.barrived = 0 \/ team'.barrived < team'.n)

Other(x, y) == y = x \/ (x.pc = "asleep" /\ y = [x EXCEPT !.pc = "woken"])

OthersKept(t) == DOMAIN th' = Threads /\ \A s \in Threads \ {t} : Other(th[s], th'[s])

ActorOK(t) ==
  /\ ThShape(th'[t]) /\ th'[t].seen = th[t].seen /\ th'[t].team = th[t].team
  /\ LocalOK(th'[t], team')

Asleep(x) == IF x.pc \in SleepPcs THEN 1 ELSE 0

\* No loop is begun or left; a thread may become a waiter or cease to be one.
DaPlain(t) ==
  /\ th'[t].tls.daseq = th[t].tls.daseq
  /\ CrossIn(th'[t], team') <=> CrossIn(th[t], team)
  /\ DOMAIN da' = DaSeqs
  /\ \A s \in DaSeqs : DaShape(da'[s]) /\ da'[s].st = da[s].st /\ da'[s].left = da[s].left
  /\ \A s \in DaSeqs :
       da'[s].waiters = IF s = D(t) THEN da[s].waiters + Asleep(th'[t]) - Asleep(th[t])
                        ELSE da[s].waiters

DaBegun(t) ==
  LET s == th[t].tls.daseq + 1
  IN /\ th[t].pc = "start" /\ th'[t].pc = "next" /\ th'[t].tls.daseq = s
     /\ CrossIn(th'[t], team') /\ s \in DaSeqs
     /\ \/ da[s].st # "none" /\ da' = da
        \/ /\ da[s].st = "none"
           /\ \E e : da' = [da EXCEPT ![s] =
                              [NoDa EXCEPT !.st = "live", !.left = team.n, !.ent = e]]

DaOver(t) ==
  LET s == th[t].tls.daseq
  IN /\ CrossIn(th[t], team) /\ ~ CrossIn(th'[t], team')
     /\ th[t].pc \notin SleepPcs /\ th'[t].pc \notin SleepPcs /\ th'[t].tls.daseq = s
     /\ da' = [da EXCEPT ![s].left = @ - 1, ![s].st = IF da[s].left = 1 THEN "freed" ELSE @]

Moved(t) ==
  /\ pool' = pool /\ TeamKept /\ InRegion(t)
  /\ OthersKept(t) /\ ActorOK(t)
  /\ DaPlain(t) \/ DaBegun(t) \/ DaOver(t)

\* What the invariant says of a thread that is in the region.
LEMMA ActorFacts ==
  ASSUME RegionInv, NEW t \in Threads, th[t].pc \in RegionPcs
  PROVE  /\ InRegion(t) /\ ThShape(th[t]) /\ LocalOK(th[t], team) /\ DOMAIN th = Threads
         /\ team.alive /\ Len(team.body) \in Nat /\ TeamShape(team)
         /\ \A i \in 1 .. Len(team.body) : IsConstruct(team.body[i]) /\ i \in DaSeqs
  <1>1. th[t].pc \notin OutPcs(t)
    BY DEF RegionPcs, LoopPcs, CrossPcs, SleepPcs, OutPcs
  <1>2. InRegion(t)
    BY <1>1 DEF RegionInv, PoolOK, PoolThread, InRegion
  <1>3. team.alive
    BY <1>2 DEF RegionInv, PoolOK, PoolThread
  <1>4. PICK r \in Regions : team.body = r.body
    BY <1>3 DEF RegionInv, TeamOK
  <1>5. Len(r.body) \in Nat /\ \A i \in 1 .. Len(r.body) : IsConstruct(r.body[i])
    BY RegionAssumption
  <1>6. \A i \in 1 .. Len(r.body) : i \in DaSeqs
    BY DEF DaSeqs
  <1> QED
    BY <1>2, <1>3, <1>4, <1>5, <1>6 DEF RegionInv, TeamOK

LEMMA TeamUnchanged ==
  ASSUME RegionInv, team' = team
  PROVE  TeamKept
  BY DEF RegionInv, TeamOK, TeamKept

LEMMA DaUnchanged ==
  ASSUME RegionInv, NEW t \in Threads, da' = da,
         th'[t].tls.daseq = th[t].tls.daseq,
         CrossIn(th'[t], team') <=> CrossIn(th[t], team),
         th'[t].pc \in SleepPcs <=> th[t].pc \in SleepPcs
  PROVE  DaPlain(t)
  <1>1. Asleep(th'[t]) = Asleep(th[t]) /\ Asleep(th[t]) \in {0, 1}
    BY DEF Asleep
  <1>2. \A s \in DaSeqs : DaShape(da[s]) /\ da[s].waiters = Cardinality(Waiting(s))
    BY DEF RegionInv, DaOK, DaLoop
  <1>3. \A s \in DaSeqs : Cardinality(Waiting(s)) \in Int
    <2> TAKE s \in DaSeqs
    <2>1. IsFiniteSet(Threads)
      BY FS_Interval, RegionAssumption DEF Threads
    <2>2. IsFiniteSet(Waiting(s))
      BY <2>1, FS_Subset DEF Waiting
    <2> QED
      BY <2>2, FS_CardinalityType
  <1>4. DOMAIN da' = DaSeqs
    BY DEF RegionInv, DaOK
  <1> QED
    BY <1>1, <1>2, <1>3, <1>4 DEF DaPlain

\* The step of thread t puts y for its record and leaves the doacross loops alone.
LEMMA PutMoves ==
  ASSUME RegionInv, NEW t \in Threads, NEW y, Put(t, y), InRegion(t),
         Keeps(th[t], y), LocalOK(y, team'), pool' = pool, da' = da, TeamKept,
         CrossIn(y, team') <=> CrossIn(th[t], team),
         y.pc \in SleepPcs <=> th[t].pc \in SleepPcs
  PROVE  Moved(t)
  <1>1. th'[t] = y /\ DOMAIN th' = Threads /\ \A s \in Threads \ {t} : th'[s] = th[s]
    BY DEF RegionInv, Put
  <1>2. DaPlain(t)
    BY <1>1, DaUnchanged DEF Keeps
  <1>3. OthersKept(t)
    BY <1>1 DEF OthersKept, Other
  <1>4. ActorOK(t)
    BY <1>1 DEF ActorOK, Keeps
  <1> QED
    BY <1>2, <1>3, <1>4 DEF Moved

\* A thread goes on behind its construct.
LEMMA GoOnMoves ==
  ASSUME RegionInv, NEW t \in Threads, NEW x, NEW s \in Steps, Put(t, GoOn(x, s)),
         th[t].pc \in RegionPcs \ LoopPcs, Keeps(th[t], x), Ready(x, team'),
         pool' = pool, da' = da, TeamKept
  PROVE  Moved(t)
  <1>1. InRegion(t) /\ Len(team'.body) \in Nat
    BY ActorFacts DEF TeamKept
  <1> DEFINE y == GoOn(x, s)
  <1>2. Keeps(x, y) /\ LocalOK(y, team') /\ y.pc \in {"start", "bar", "get"}
    <2>1. \A tm : Ready(x, tm) /\ Len(tm.body) \in Nat =>
            Keeps(x, y) /\ LocalOK(y, tm) /\ y.pc \in {"start", "bar", "get"}
      BY GoOnOK
    <2> QED
      BY <1>1, <2>1
  <1> HIDE DEF y
  <1>3. Keeps(th[t], y)
    BY <1>2 DEF Keeps
  <1>4. ~ CrossIn(y, team') /\ ~ CrossIn(th[t], team)
    BY <1>2 DEF CrossIn, LoopPcs, CrossPcs, SleepPcs
  <1>5. y.pc \notin SleepPcs /\ th[t].pc \notin SleepPcs
    BY <1>2 DEF LoopPcs, CrossPcs, SleepPcs
  <1>6. Put(t, y)
    BY DEF y
  <1> QED
    BY <1>1, <1>2, <1>3, <1>4, <1>5, <1>6, PutMoves
-----------------------------------------------------------------------------
(* The steps of the worksharing constructs.                                  *)
LEMMA KeepsItself ==
  ASSUME NEW x, ThShape(x)
  PROVE  Keeps(x, x)
  BY DEF Keeps

LEMMA RunNestedMoves ==
  ASSUME RegionInv, NEW t \in Threads, RunNested(t)
  PROVE  Moved(t)
  <1> DEFINE x == th[t]
             y == [x EXCEPT !.ip = @ + 1]
  <1>1. x.pc = "start" /\ x.ip <= Len(team.body)
    BY DEF RunNested, AtConstruct, At, Ip
  <1>2. x.pc \in RegionPcs
    BY <1>1 DEF RegionPcs
  <1>3. ThShape(x) /\ LocalOK(x, team) /\ Len(team.body) \in Nat /\ InRegion(t)
    BY <1>2, ActorFacts
  <1>4. Put(t, y)
    <2>1. [x EXCEPT !.ip = @ + 1, !.tls = Restored(@, [Tls0 EXCEPT !.dbase = Construct1(t).n])]
            = [x EXCEPT !.ip = @ + 1, !.tls = x.tls]
      BY DEF Restored
    <2>2. [x EXCEPT !.ip = @ + 1, !.tls = x.tls] = y
      BY <1>3 DEF ThShape
    <2> QED
      BY <2>1, <2>2 DEF RunNested, Put
  <1>5. ThShape(y) /\ y.seen = x.seen /\ y.team = x.team /\ y.tls = x.tls
        /\ y.pc = "start" /\ y.ip = x.ip + 1
    BY <1>1, <1>3 DEF ThShape
  <1> HIDE DEF y
  <1>6. UNCHANGED <<pool, team, da>>
    BY DEF RunNested
  <1>7. LocalOK(y, team')
    <2>1. LocalOK(y, team)
      BY <1>1, <1>3, <1>5 DEF LocalOK, RegionPcs, LoopPcs, CrossPcs, SleepPcs
    <2> QED
      BY <1>6, <2>1
  <1>8. Keeps(x, y)
    BY <1>5 DEF Keeps
  <1>9. ~ CrossIn(y, team') /\ ~ CrossIn(x, team) /\ y.pc \notin SleepPcs /\ x.pc \notin SleepPcs
    BY <1>1, <1>5 DEF CrossIn, LoopPcs, CrossPcs, SleepPcs
  <1> QED
    BY <1>3, <1>4, <1>6, <1>7, <1>8, <1>9, PutMoves, TeamUnchanged

LEMMA KernelClaimMoves ==
  ASSUME RegionInv, NEW t \in Threads, KernelClaim(t)
  PROVE  Moved(t)
  <1> DEFINE x == th[t]
  <1>1. x.pc = "start" /\ x.ip <= Len(team.body) /\ Construct1(t).what = "kernel"
    BY DEF KernelClaim, AtConstruct, At, Ip
  <1>2. x.pc \in RegionPcs
    BY <1>1 DEF RegionPcs
  <1>3. /\ ThShape(x) /\ LocalOK(x, team) /\ Len(team.body) \in Nat /\ InRegion(t)
        /\ TeamShape(team) /\ DOMAIN th = Threads
    BY <1>2, ActorFacts
  <1>4. CASE th' = th
    <2>2. TeamKept
      BY DEF KernelClaim, TeamKept, RegionInv, TeamOK, TeamShape
    <2>3. LocalOK(x, team')
      BY <1>1, <1>3, <2>2 DEF LocalOK, TeamKept, RegionPcs, LoopPcs, CrossPcs, SleepPcs, RegionInv, TeamOK
    <2>4. ~ CrossIn(x, team') /\ ~ CrossIn(x, team)
      BY <1>1 DEF CrossIn, LoopPcs, CrossPcs, SleepPcs
    <2>5. UNCHANGED <<pool, da>>
      BY DEF KernelClaim
    <2>6. th'[t] = x /\ OthersKept(t) /\ ActorOK(t)
      BY <1>3, <1>4, <2>3 DEF OthersKept, Other, ActorOK
    <2>7. DaPlain(t)
      BY <2>4, <2>5, <2>6, DaUnchanged
    <2> QED
      BY <1>3, <2>2, <2>5, <2>6, <2>7 DEF Moved
  <1>5. CASE th' # th
    <2>1. Put(t, [x EXCEPT !.ip = @ + 1])
      BY <1>5 DEF KernelClaim
    <2>2. TeamKept
      BY DEF KernelClaim, TeamKept, RegionInv, TeamOK, TeamShape
    <2> DEFINE z == [x EXCEPT !.ip = @ + 1]
    <2>3. ThShape(z) /\ z.seen = x.seen /\ z.team = x.team /\ z.tls = x.tls
          /\ z.pc = "start" /\ z.ip = x.ip + 1
      BY <1>1, <1>3 DEF ThShape
    <2>4. Put(t, z)
      BY <2>1
    <2> HIDE DEF z
    <2>5. LocalOK(z, team')
      <3>1. z.pc \in RegionPcs /\ z.pc \notin LoopPcs /\ z.pc \notin CrossPcs /\ z.pc # "claim"
            /\ z.pc \notin {"bar", "barred", "get"} /\ z.pc \notin {"post", "posted"}
        BY <2>3 DEF RegionPcs, LoopPcs, CrossPcs, SleepPcs
      <3>2. z.ip \in Nat \ {0} /\ z.ip <= Len(team'.body) + 1
        BY <1>1, <1>3, <2>2, <2>3 DEF LocalOK, TeamKept
      <3>3. z.tls.daseq \in Nat /\ z.tls.daseq < z.ip /\ z.tls.daseq <= z.ip
        BY <1>1, <1>3, <2>3 DEF LocalOK
      <3>4. z.tls.dbase \in Int /\ (team'.n # 1 => z.tls.dbase <= team'.dyn)
        <4>1. x.tls.dbase \in Int /\ (team.n # 1 => x.tls.dbase <= team.dyn) /\ team.dyn \in Int
          BY <1>3 DEF LocalOK, RegionInv, TeamOK
        <4>2. team'.dyn \in Int /\ team'.dyn >= team.dyn /\ team'.n = team.n
          BY <2>2 DEF TeamKept
        <4> QED
          BY <2>3, <4>1, <4>2
      <3> QED
        BY <2>3, <3>1, <3>2, <3>3, <3>4 DEF LocalOK
    <2>6. ~ CrossIn(z, team') /\ ~ CrossIn(x, team) /\ z.pc \notin SleepPcs /\ x.pc \notin SleepPcs
      BY <1>1, <2>3 DEF CrossIn, LoopPcs, CrossPcs, SleepPcs
    <2>7. UNCHANGED <<pool, da>>
      BY DEF KernelClaim
    <2>8. Keeps(x, z)
      BY <2>3 DEF Keeps
    <2> QED
      BY <1>3, <2>2, <2>4, <2>5, <2>6, <2>7, <2>8, PutMoves
  <1> QED
    BY <1>4, <1>5

\* A thread at a barrier has steps left to do after it.
LEMMA BarrierFacts ==
  ASSUME RegionInv, NEW t \in Threads, th[t].pc \in {"bar", "barred", "get"}
  PROVE  /\ th[t].pc \in RegionPcs \ LoopPcs /\ Ready(th[t], team) /\ th[t].todo \in Steps
         /\ Keeps(th[t], th[t]) /\ LocalOK(th[t], team) /\ InRegion(t)
  <1>1. th[t].pc \in RegionPcs \ LoopPcs
    BY DEF RegionPcs, LoopPcs, CrossPcs, SleepPcs
  <1>2. ThShape(th[t]) /\ LocalOK(th[t], team) /\ InRegion(t)
    BY <1>1, ActorFacts
  <1>3. Ready(th[t], team)
    BY <1>2, RegionReady
  <1>4. th[t].todo \in Steps
    BY <1>2 DEF LocalOK, Steps
  <1> QED
    BY <1>1, <1>2, <1>3, <1>4, KeepsItself

\* Ready depends on what TeamKept keeps.
LEMMA ReadyKept ==
  ASSUME RegionInv, NEW x, Ready(x, team), TeamKept
  PROVE  Ready(x, team')
  BY DEF Ready, TeamKept, RegionInv, TeamOK

LEMMA PassMoves ==
  ASSUME RegionInv, NEW t \in Threads, Pass(t) \/ CopyGet(t)
  PROVE  Moved(t)
  <1>1. /\ th[t].pc \in {"bar", "barred", "get"} /\ Put(t, GoOn(th[t], th[t].todo))
        /\ UNCHANGED <<pool, team, da>>
    BY DEF Pass, CopyGet, At
  <1> QED
    BY <1>1, BarrierFacts, TeamUnchanged, ReadyKept, GoOnMoves

LEMMA ArriveMoves ==
  ASSUME RegionInv, NEW t \in Threads, Arrive(t)
  PROVE  Moved(t)
  <1>1. th[t].pc = "bar" /\ UNCHANGED <<pool, da>>
    BY DEF Arrive, At
  <1>2. CASE Alone /\ Put(t, GoOn(th[t], th[t].todo)) /\ UNCHANGED team
    BY <1>1, <1>2, BarrierFacts, TeamUnchanged, ReadyKept, GoOnMoves
  <1>3. CASE /\ team' = [team EXCEPT !.barrived = 0, !.bgen = @ + 1]
             /\ Put(t, GoOn(th[t], th[t].todo))
    <2>1. TeamKept
      BY <1>3 DEF TeamKept, RegionInv, TeamOK, TeamShape
    <2> QED
      BY <1>1, <1>3, <2>1, BarrierFacts, ReadyKept, GoOnMoves
  <1>4. CASE /\ ~ Alone /\ team.barrived + 1 < team.n
             /\ team' = [team EXCEPT !.barrived = @ + 1]
             /\ Put(t, [th[t] EXCEPT !.pc = "barred", !.gen = team.bgen])
    <2> DEFINE x == th[t]
               y == [x EXCEPT !.pc = "barred", !.gen = team.bgen]
    <2>1. TeamKept
      BY <1>4 DEF TeamKept, RegionInv, TeamOK, TeamShape
    <2>2. Put(t, y)
      BY <1>4
    <2>3. ThShape(x) /\ LocalOK(x, team) /\ InRegion(t)
      BY <1>1, BarrierFacts DEF Ready
    <2>4. ThShape(y) /\ y.seen = x.seen /\ y.team = x.team /\ y.tls = x.tls
          /\ y.pc = "barred" /\ y.ip = x.ip /\ y.todo = x.todo
      BY <2>3 DEF ThShape
    <2> HIDE DEF y
    <2>5. LocalOK(y, team')
      BY <1>1, <2>1, <2>3, <2>4 DEF LocalOK, TeamKept, RegionPcs, LoopPcs, CrossPcs, SleepPcs, RegionInv, TeamOK
    <2>6. ~ CrossIn(y, team') /\ ~ CrossIn(x, team) /\ y.pc \notin SleepPcs /\ x.pc \notin SleepPcs
      BY <1>1, <2>4 DEF CrossIn, LoopPcs, CrossPcs, SleepPcs
    <2>7. Keeps(x, y)
      BY <2>4 DEF Keeps
    <2> QED
      BY <1>1, <2>1, <2>2, <2>3, <2>5, <2>6, <2>7, PutMoves
  <1> QED
    BY <1>2, <1>3, <1>4 DEF Arrive

LEMMA SingleWonMoves ==
  ASSUME RegionInv, NEW t \in Threads, SingleWon(t), UNCHANGED <<pool, da>>,
         th[t].pc \in {"start", "single"}, th[t].ip <= Len(team.body)
  PROVE  Moved(t)
  <1>1. th[t].pc \in RegionPcs \ LoopPcs
    BY DEF RegionPcs, LoopPcs, CrossPcs, SleepPcs
  <1>2. ThShape(th[t]) /\ LocalOK(th[t], team)
    BY <1>1, ActorFacts
  <1>3. Ready(th[t], team)
    BY <1>2 DEF Ready, LocalOK
  <1>4. TeamKept
    BY DEF SingleWon, TeamKept, RegionInv, TeamOK, TeamShape
  <1>5. Put(t, GoOn(th[t], Tail1(Construct1(t)))) /\ Tail1(Construct1(t)) \in Steps
    BY Tail1Steps DEF SingleWon
  <1> QED
    BY <1>1, <1>2, <1>3, <1>4, <1>5, ReadyKept, KeepsItself, GoOnMoves

LEMMA SingleMoves ==
  ASSUME RegionInv, NEW t \in Threads, SingleBegin(t) \/ SingleCas(t)
  PROVE  Moved(t)
  <1> DEFINE x == th[t]
  <1>1. UNCHANGED <<pool, da>> /\ x.pc \in {"start", "single"}
        /\ (x.pc = "start" => x.ip <= Len(team.body))
    BY DEF SingleBegin, SingleCas, AtConstruct, At, Ip
  <1>2. x.pc \in RegionPcs \ LoopPcs
    BY <1>1 DEF RegionPcs, LoopPcs, CrossPcs, SleepPcs
  <1>3. ThShape(x) /\ LocalOK(x, team) /\ InRegion(t)
    BY <1>2, ActorFacts
  <1>4. x.ip <= Len(team.body)
    BY <1>1, <1>3 DEF LocalOK
  <1>5. CASE SingleWon(t)
    BY <1>1, <1>4, <1>5, SingleWonMoves
  <1>6. CASE Put(t, GoOn(x, Tail1(Construct1(t)))) /\ UNCHANGED team
    <2>1. Ready(x, team)
      BY <1>3, <1>4 DEF Ready, LocalOK
    <2> QED
      BY <1>1, <1>2, <1>3, <1>6, <2>1, Tail1Steps, TeamUnchanged, ReadyKept, KeepsItself, GoOnMoves
  <1>7. ASSUME NEW y, Put(t, y), UNCHANGED team, ThShape(y), y.seen = x.seen, y.team = x.team,
               y.tls.daseq = x.tls.daseq, y.tls.dbase = x.tls.dbase, y.ip = x.ip, y.pc = "single"
        PROVE  Moved(t)
    <2>1. LocalOK(y, team)
      BY <1>3, <1>4, <1>7 DEF LocalOK, RegionPcs, LoopPcs, CrossPcs, SleepPcs
    <2>2. Keeps(x, y)
      BY <1>7 DEF Keeps
    <2>3. ~ CrossIn(y, team') /\ ~ CrossIn(x, team) /\ y.pc \notin SleepPcs /\ x.pc \notin SleepPcs
      BY <1>1, <1>7 DEF CrossIn, LoopPcs, CrossPcs, SleepPcs
    <2>4. LocalOK(y, team')
      BY <2>1, <1>7
    <2> QED
      BY <1>1, <1>3, <1>7, <2>2, <2>3, <2>4, TeamUnchanged, PutMoves
  <1>8. CASE /\ Put(t, [x EXCEPT !.pc = "single", !.tls.single = @ + 1, !.cur = team.single])
             /\ UNCHANGED team
    <2> DEFINE y == [x EXCEPT !.pc = "single", !.tls.single = @ + 1, !.cur = team.single]
    <2>1. ThShape(y) /\ y.seen = x.seen /\ y.team = x.team /\ y.ip = x.ip /\ y.pc = "single"
      BY <1>3 DEF ThShape
    <2>2. y.tls.daseq = x.tls.daseq /\ y.tls.dbase = x.tls.dbase
      BY <1>3 DEF ThShape
    <2> HIDE DEF y
    <2>3. Put(t, y)
      BY <1>8 DEF y
    <2> QED
      BY <1>7, <1>8, <2>1, <2>2, <2>3
  <1>9. CASE /\ Put(t, [x EXCEPT !.cur = team.single]) /\ UNCHANGED team /\ x.pc = "single"
    <2> DEFINE y == [x EXCEPT !.cur = team.single]
    <2>1. ThShape(y) /\ y.seen = x.seen /\ y.team = x.team /\ y.ip = x.ip /\ y.pc = "single"
          /\ y.tls = x.tls
      BY <1>3, <1>9 DEF ThShape
    <2> HIDE DEF y
    <2>3. Put(t, y)
      BY <1>9 DEF y
    <2> QED
      BY <1>7, <1>9, <2>1, <2>3
  <1> QED
    BY <1>5, <1>6, <1>8, <1>9 DEF SingleBegin, SingleCas, At
-----------------------------------------------------------------------------
(* The steps of a loop.                                                      *)
\* y is a record a thread may have in the loop it is in as x.
StaysIn(x, y, tm) ==
  /\ x.pc \in LoopPcs /\ y.pc \in LoopPcs /\ y.ip = x.ip
  /\ Keeps(x, y) /\ y.tls.dbase = x.tls.dbase
  /\ y.pc \in CrossPcs => tm.body[x.ip].mode = "doacross" /\ tm.n # 1
  /\ y.pc = "claim" => /\ y.cur \in Int /\ tm.n # 1
                       /\ x.tls.dbase <= y.cur /\ y.cur <= tm.dyn
  /\ y.pc \in {"post", "posted"} => y.todo \in {<<>>, <<"crossed">>}

LEMMA LoopFacts ==
  ASSUME RegionInv, NEW t \in Threads, th[t].pc \in LoopPcs
  PROVE  /\ InRegion(t) /\ ThShape(th[t]) /\ LocalOK(th[t], team) /\ DOMAIN th = Threads
         /\ Len(team.body) \in Nat /\ TeamShape(team)
         /\ th[t].ip \in 1 .. Len(team.body) /\ th[t].ip \in DaSeqs
         /\ IsConstruct(Construct1(t)) /\ Construct1(t).what = "loop" /\ th[t].pc \in RegionPcs
  <1>1. th[t].pc \in RegionPcs /\ th[t].pc # "start"
    BY DEF RegionPcs, LoopPcs, CrossPcs, SleepPcs
  <1>2. /\ InRegion(t) /\ ThShape(th[t]) /\ LocalOK(th[t], team) /\ DOMAIN th = Threads
        /\ Len(team.body) \in Nat /\ TeamShape(team)
        /\ \A i \in 1 .. Len(team.body) : IsConstruct(team.body[i]) /\ i \in DaSeqs
    BY <1>1, ActorFacts
  <1>3. th[t].ip \in 1 .. Len(team.body) /\ Construct1(t).what = "loop"
    BY <1>1, <1>2 DEF LocalOK, Construct1
  <1> QED
    BY <1>1, <1>2, <1>3 DEF Construct1

\* A record that stays in the loop is in order.
LEMMA StaysOK ==
  ASSUME RegionInv, NEW t \in Threads, NEW y, StaysIn(th[t], y, team'), TeamKept
  PROVE  LocalOK(y, team') /\ (CrossIn(y, team') <=> CrossIn(th[t], team))
  <1>1. th[t].pc \in LoopPcs
    BY DEF StaysIn
  <1>2. LocalOK(th[t], team) /\ Len(team.body) \in Nat
    BY <1>1, LoopFacts
  <1>3. y.pc \in RegionPcs /\ y.pc \notin {"start", "bar", "barred", "get"}
        /\ th[t].pc # "start"
    BY DEF StaysIn, RegionPcs, LoopPcs, CrossPcs, SleepPcs
  <1>4. team.dyn \in Int
    BY DEF RegionInv, TeamOK
  <1>5. LocalOK(y, team')
    BY <1>1, <1>2, <1>3, <1>4 DEF LocalOK, StaysIn, TeamKept, Keeps
  <1>6. CrossIn(y, team') <=> CrossIn(th[t], team)
    BY DEF CrossIn, StaysIn, Keeps, TeamKept
  <1> QED
    BY <1>5, <1>6

LEMMA StaysMoves ==
  ASSUME RegionInv, NEW t \in Threads, NEW y, Put(t, y), StaysIn(th[t], y, team'),
         TeamKept, pool' = pool, da' = da, y.pc \in SleepPcs <=> th[t].pc \in SleepPcs
  PROVE  Moved(t)
  <1>1. InRegion(t)
    BY LoopFacts DEF StaysIn
  <1>2. Keeps(th[t], y)
    BY DEF StaysIn
  <1> QED
    BY <1>1, <1>2, StaysOK, PutMoves

LEMMA LoopBeginMoves ==
  ASSUME RegionInv, NEW t \in Threads, LoopBegin(t)
  PROVE  Moved(t)
  <1> DEFINE x == th[t]
             s == x.tls.daseq + 1
  <1>1. x.pc = "start" /\ x.ip <= Len(team.body) /\ Construct1(t).what = "loop"
        /\ UNCHANGED <<pool, team>>
    BY DEF LoopBegin, AtConstruct, At, Ip
  <1>2. x.pc \in RegionPcs
    BY <1>1 DEF RegionPcs
  <1>3. /\ ThShape(x) /\ LocalOK(x, team) /\ Len(team.body) \in Nat /\ InRegion(t)
        /\ DOMAIN th = Threads
        /\ \A i \in 1 .. Len(team.body) : i \in DaSeqs
    BY <1>2, ActorFacts
  <1>4. TeamKept
    BY <1>1, TeamUnchanged
  <1>5. ~ CrossIn(x, team)
    BY <1>1 DEF CrossIn, LoopPcs, CrossPcs, SleepPcs
  <1>6. CASE Crossing(t)
    <2> DEFINE y == [x EXCEPT !.pc = "next", !.st = 0, !.tls.daseq = s]
    <2>1. ThShape(y) /\ y.seen = x.seen /\ y.team = x.team /\ y.ip = x.ip /\ y.pc = "next"
      BY <1>3 DEF ThShape
    <2>2. y.tls.daseq = s /\ y.tls.dbase = x.tls.dbase
      BY <1>3 DEF ThShape
    <2>3. th'[t] = y /\ DOMAIN th' = Threads /\ \A q \in Threads \ {t} : th'[q] = th[q]
      BY <1>3, <1>6 DEF LoopBegin, Put
    <2> HIDE DEF y
    <2>4. LocalOK(y, team)
      BY <1>1, <1>3, <2>1, <2>2 DEF LocalOK, Construct1, RegionPcs, LoopPcs, CrossPcs, SleepPcs
    <2>5. CrossIn(y, team)
      BY <1>3, <1>6, <2>1 DEF CrossIn, Crossing, Construct1, Alone, InRegion, LoopPcs
    <2>6. s \in DaSeqs
      <3>1. s \in 1 .. Len(team.body)
        BY <1>1, <1>3, SMTT(30) DEF LocalOK
      <3> QED
        BY <1>3, <3>1
    <2>7. \/ da[s].st # "none" /\ da' = da
          \/ /\ da[s].st = "none"
             /\ \E e : da' = [da EXCEPT ![s] =
                                [NoDa EXCEPT !.st = "live", !.left = team.n, !.ent = e]]
      BY <1>6, ZenonT(30) DEF LoopBegin
    <2>8. DaBegun(t)
      BY <1>1, <2>1, <2>2, <2>3, <2>5, <2>6, <2>7, Zenon DEF DaBegun
    <2>9. OthersKept(t) /\ ActorOK(t)
      BY <1>1, <2>1, <2>3, <2>4 DEF OthersKept, Other, ActorOK
    <2> QED
      BY <1>1, <1>3, <1>4, <2>8, <2>9 DEF Moved
  <1>7. CASE ~ Crossing(t)
    <2> DEFINE y == [x EXCEPT !.pc = "next", !.st = 0]
    <2>1. ThShape(y) /\ y.seen = x.seen /\ y.team = x.team /\ y.ip = x.ip /\ y.pc = "next"
          /\ y.tls = x.tls
      BY <1>3 DEF ThShape
    <2>2. Put(t, y) /\ da' = da
      BY <1>7 DEF LoopBegin
    <2> HIDE DEF y
    <2>3. LocalOK(y, team)
      BY <1>1, <1>3, <1>7, <2>1
      DEF LocalOK, Construct1, Crossing, Alone, RegionPcs, LoopPcs, CrossPcs, SleepPcs
    <2>4. ~ CrossIn(y, team)
      BY <1>7, <2>1 DEF CrossIn, Crossing, Construct1, Alone
    <2>5. y.pc \notin SleepPcs /\ x.pc \notin SleepPcs /\ Keeps(x, y)
      BY <1>1, <2>1 DEF SleepPcs, Keeps
    <2>6. LocalOK(y, team') /\ ~ CrossIn(y, team')
      BY <1>1, <2>3, <2>4
    <2> QED
      BY <1>1, <1>3, <1>4, <1>5, <2>2, <2>5, <2>6, PutMoves
  <1> QED
    BY <1>6, <1>7

\* A thread leaves its loop; the base of the dynamic loops moves only as far as
\* the team's counter has come.
LEMMA LoopOverMoves ==
  ASSUME RegionInv, NEW t \in Threads, LoopOver(t), UNCHANGED <<pool, team>>,
         th[t].pc \in {"next", "claim"},
         Alone \/ Construct1(t).sched = 1 \/ th[t].tls.dbase + Construct1(t).n <= team.dyn
  PROVE  Moved(t)
  <1> DEFINE c == Construct1(t)
             x == th[t]
             z == [x EXCEPT !.tls.dbase = @ + (IF c.sched >= 2 THEN c.n ELSE 0),
                            !.tls.obase = @ + (IF c.mode = "ordered" THEN c.n ELSE 0),
                            !.tls.ofrom = -1]
             y == GoOn(z, Tail1(c))
             s == x.tls.daseq
  <1>1. x.pc \in LoopPcs /\ x.pc # "start" /\ x.pc \notin SleepPcs
    BY DEF LoopPcs, SleepPcs
  <1>2. /\ InRegion(t) /\ ThShape(x) /\ LocalOK(x, team) /\ DOMAIN th = Threads
        /\ Len(team.body) \in Nat /\ x.ip \in 1 .. Len(team.body)
        /\ IsConstruct(c) /\ c.what = "loop"
    BY <1>1, LoopFacts
  <1>3. c.n \in Nat /\ c.sched \in 1 .. 3
    BY <1>2 DEF IsConstruct
  <1>4. /\ ThShape(z) /\ z.seen = x.seen /\ z.team = x.team /\ z.ip = x.ip
    BY <1>2 DEF ThShape
  <1>5. z.tls.daseq = x.tls.daseq
        /\ z.tls.dbase = x.tls.dbase + (IF c.sched >= 2 THEN c.n ELSE 0)
    BY <1>2 DEF ThShape
  <1>6. Put(t, y) /\ (Crossing(t) => da' = [da EXCEPT ![s].left = @ - 1,
                                 ![s].st = IF da[s].left = 1 THEN "freed" ELSE @])
        /\ (~ Crossing(t) => da' = da)
    BY DEF LoopOver
  <1> HIDE DEF z, c
  <1>7. z.tls.dbase \in Int /\ (team.n # 1 => z.tls.dbase <= team.dyn)
    BY <1>2, <1>3, <1>5 DEF LocalOK, Alone, c
  <1>8. Ready(z, team)
    BY <1>1, <1>2, <1>4, <1>5, <1>7 DEF Ready, LocalOK
  <1>9. Keeps(z, y) /\ LocalOK(y, team) /\ y.pc \in {"start", "bar", "get"}
    BY <1>2, <1>8, Tail1Steps, GoOnOK
  <1> HIDE DEF y
  <1>10. Keeps(x, y)
    BY <1>4, <1>5, <1>9 DEF Keeps
  <1>11. LocalOK(y, team') /\ ~ CrossIn(y, team') /\ y.pc \notin SleepPcs
    BY <1>9 DEF CrossIn, LoopPcs, CrossPcs, SleepPcs
  <1>12. TeamKept
    BY TeamUnchanged
  <1>13. CASE Crossing(t)
    <2>1. CrossIn(x, team)
      BY <1>1, <1>2, <1>13 DEF CrossIn, Crossing, Construct1, Alone, InRegion
    <2>2. th'[t] = y /\ DOMAIN th' = Threads /\ \A q \in Threads \ {t} : th'[q] = th[q]
      BY <1>2, <1>6 DEF Put
    <2>3. y.tls.daseq = s
      BY <1>10 DEF Keeps
    <2>4. DaOver(t)
      BY <1>1, <1>6, <1>11, <1>13, <2>1, <2>2, <2>3 DEF DaOver
    <2>5. OthersKept(t) /\ ActorOK(t)
      BY <1>10, <1>11, <2>2 DEF OthersKept, Other, ActorOK, Keeps
    <2> QED
      BY <1>2, <1>12, <2>4, <2>5 DEF Moved
  <1>14. CASE ~ Crossing(t)
    <2>1. ~ CrossIn(x, team)
      BY <1>14 DEF CrossIn, Crossing, Construct1, Alone
    <2> QED
      BY <1>1, <1>2, <1>6, <1>10, <1>11, <1>12, <1>14, <2>1, PutMoves
  <1> QED
    BY <1>13, <1>14

\* Handing out a chunk keeps the thread in its loop.
LEMMA ChunkKeeps ==
  ASSUME NEW x, ThShape(x), NEW b, NEW e, NEW o
  PROVE  /\ Keeps(x, Chunk(x, b, e, o)) /\ Chunk(x, b, e, o).pc = "iter"
         /\ Chunk(x, b, e, o).ip = x.ip
         /\ Chunk(x, b, e, o).tls.dbase = x.tls.dbase
  <1> DEFINE y == [x EXCEPT !.pc = "iter", !.b = b, !.e = e, !.k = b,
                            !.tls.ofrom = IF o THEN x.tls.obase + b ELSE @]
  <1>1. Chunk(x, b, e, o) = y
    BY DEF Chunk
  <1>2. ThShape(y) /\ y.seen = x.seen /\ y.team = x.team /\ y.ip = x.ip /\ y.pc = "iter"
    BY DEF ThShape
  <1>3. y.tls.daseq = x.tls.daseq /\ y.tls.dbase = x.tls.dbase
    BY DEF ThShape
  <1> QED
    BY <1>1, <1>2, <1>3 DEF Keeps

\* Where y has a plain place in the loop of x, it stays in it.
LEMMA StaysPlain ==
  ASSUME NEW x, NEW y, NEW tm, x.pc \in LoopPcs, Keeps(x, y), y.ip = x.ip,
         y.tls.dbase = x.tls.dbase, y.pc \in {"next", "iter", "obegin", "oregion"}
  PROVE  StaysIn(x, y, tm) /\ y.pc \notin SleepPcs
  BY DEF StaysIn, LoopPcs, CrossPcs, SleepPcs

LEMMA LoopStaticMoves ==
  ASSUME RegionInv, NEW t \in Threads, LoopStatic(t)
  PROVE  Moved(t)
  <1> DEFINE x == th[t]
             c == Construct1(t)
             ch == StaticChunk(c, team.n, t, x.st)
             z == [x EXCEPT !.st = @ + 1]
             y == Chunk(z, ch[1], ch[2], c.mode = "ordered")
  <1>1. x.pc = "next" /\ UNCHANGED <<pool, team>> /\ (Alone \/ c.sched = 1)
    BY DEF LoopStatic, At
  <1>2. x.pc \in LoopPcs /\ x.pc \notin SleepPcs
    BY <1>1 DEF LoopPcs, SleepPcs
  <1>3. ThShape(x)
    BY <1>2, LoopFacts
  <1>4. CASE LoopOver(t)
    BY <1>1, <1>4, LoopOverMoves
  <1>5. CASE Put(t, y) /\ UNCHANGED da
    <2>1. ThShape(z) /\ z.seen = x.seen /\ z.team = x.team /\ z.ip = x.ip /\ z.tls = x.tls
      BY <1>3 DEF ThShape
    <2> HIDE DEF z, ch, c
    <2>2. Keeps(z, y) /\ y.pc = "iter" /\ y.ip = z.ip /\ y.tls.dbase = z.tls.dbase
      BY <2>1, ChunkKeeps
    <2> HIDE DEF y
    <2>3. Keeps(x, y) /\ y.ip = x.ip /\ y.tls.dbase = x.tls.dbase
      BY <2>1, <2>2 DEF Keeps
    <2>4. StaysIn(x, y, team') /\ y.pc \notin SleepPcs
      BY <1>2, <2>2, <2>3, StaysPlain
    <2> QED
      BY <1>1, <1>2, <1>5, <2>4, TeamUnchanged, StaysMoves
  <1> QED
    BY <1>4, <1>5 DEF LoopStatic

LEMMA LoopLoadMoves ==
  ASSUME RegionInv, NEW t \in Threads, LoopLoad(t)
  PROVE  Moved(t)
  <1> DEFINE x == th[t]
             y == [x EXCEPT !.pc = "claim", !.cur = team.dyn]
  <1>1. x.pc = "next" /\ UNCHANGED <<pool, team, da>> /\ ~ Alone /\ Put(t, y)
    BY DEF LoopLoad, At
  <1>2. x.pc \in LoopPcs /\ x.pc \notin SleepPcs
    BY <1>1 DEF LoopPcs, SleepPcs
  <1>3. ThShape(x) /\ LocalOK(x, team)
    BY <1>2, LoopFacts
  <1>4. ThShape(y) /\ y.seen = x.seen /\ y.team = x.team /\ y.ip = x.ip /\ y.tls = x.tls
        /\ y.pc = "claim" /\ y.cur = team.dyn
    BY <1>3 DEF ThShape
  <1> HIDE DEF y
  <1>5. StaysIn(x, y, team)
    <2>1. team.dyn \in Int /\ x.tls.dbase \in Int /\ team.n # 1 /\ x.tls.dbase <= team.dyn
      BY <1>1, <1>3 DEF RegionInv, TeamOK, LocalOK, Alone
    <2> QED
      BY <1>2, <1>4, <2>1 DEF StaysIn, Keeps, LoopPcs, CrossPcs, SleepPcs
  <1>6. StaysIn(x, y, team') /\ y.pc \notin SleepPcs
    BY <1>1, <1>4, <1>5 DEF SleepPcs
  <1> QED
    BY <1>1, <1>2, <1>6, TeamUnchanged, StaysMoves

LEMMA MinTwo ==
  ASSUME NEW a \in Int, NEW b \in Int
  PROVE  Min({a, b}) \in {a, b} /\ Min({a, b}) <= a /\ Min({a, b}) <= b
  <1>1. \E x \in {a, b} : \A y \in {a, b} : x <= y
    OBVIOUS
  <1> QED
    BY <1>1 DEF Min

LEMMA MaxTwo ==
  ASSUME NEW a \in Int, NEW b \in Int
  PROVE  Max({a, b}) \in {a, b} /\ Max({a, b}) >= a /\ Max({a, b}) >= b
  <1>1. \E x \in {a, b} : \A y \in {a, b} : x >= y
    OBVIOUS
  <1> QED
    BY <1>1 DEF Max

\* A claim never moves the team's counter back, nor beyond the end of the loop.
LEMMA ClaimedBounds ==
  ASSUME NEW c, c.chunk \in Nat, NEW cur \in Int, NEW hi \in Int, cur < hi,
         team.n \in Nat \ {0}
  PROVE  Claimed(c, cur, hi) \in Int /\ Claimed(c, cur, hi) >= cur /\ Claimed(c, cur, hi) <= hi
  <1> DEFINE q == CeilDiv(hi - cur, team.n)
             g == GuidedSize(hi - cur, team.n, c.chunk)
             size == IF c.sched = 3 THEN g ELSE c.chunk
  <1>1. q \in Int
    BY DEF CeilDiv
  <1>2. g = Max({q, c.chunk})
    BY DEF GuidedSize
  <1> HIDE DEF q, g
  <1>3. g \in Int /\ g >= c.chunk
    <2>1. c.chunk \in Int
      OBVIOUS
    <2>2. Max({q, c.chunk}) \in {q, c.chunk} /\ Max({q, c.chunk}) >= c.chunk
      BY <1>1, <2>1, MaxTwo, Zenon
    <2> QED
      BY <1>1, <1>2, <2>1, <2>2
  <1>4. size \in Int /\ size >= 0
    BY <1>3
  <1> HIDE DEF size
  <1>5. Claimed(c, cur, hi) = Min({hi, cur + size})
    BY DEF Claimed, size, g
  <1>6. cur + size \in Int /\ cur + size >= cur
    BY <1>4
  <1>7. Min({hi, cur + size}) \in {hi, cur + size} /\ Min({hi, cur + size}) <= hi
    BY <1>6, MinTwo, Zenon
  <1> QED
    BY <1>5, <1>6, <1>7

\* The counter is never below the base of a thread's loop: the trap is not taken.
LEMMA LoopClaimMoves ==
  ASSUME RegionInv, NEW t \in Threads, LoopClaim(t)
  PROVE  Moved(t)
  <1> DEFINE x == th[t]
             c == Construct1(t)
             lo == x.tls.dbase
             hi == lo + c.n
             nxt == Claimed(c, x.cur, hi)
  <1>1. x.pc = "claim" /\ UNCHANGED pool
    BY DEF LoopClaim, At
  <1>2. x.pc \in LoopPcs /\ x.pc \notin SleepPcs
    BY <1>1 DEF LoopPcs, SleepPcs
  <1>3. ThShape(x) /\ LocalOK(x, team) /\ IsConstruct(c) /\ c.what = "loop"
    BY <1>2, LoopFacts
  <1>4. c.n \in Nat /\ c.chunk \in Nat
    BY <1>3 DEF IsConstruct
  <1>5. lo \in Int /\ x.cur \in Int /\ hi \in Int /\ lo <= x.cur /\ x.cur <= team.dyn
        /\ team.dyn \in Int /\ team.n # 1
    BY <1>1, <1>3, <1>4 DEF LocalOK, RegionInv, TeamOK
  <1> HIDE DEF c
  <1>6. CASE x.cur >= hi /\ LoopOver(t) /\ UNCHANGED team
    <2>1. lo + Construct1(t).n <= team.dyn
      BY <1>5, <1>6 DEF c
    <2> QED
      BY <1>1, <1>6, <2>1, LoopOverMoves
  <1>7. CASE x.cur < lo
    BY <1>5, <1>7
  <1>8. CASE /\ x.cur \in lo .. hi - 1 /\ NotTaken(t)
             /\ team' = [team EXCEPT !.dyn = nxt]
             /\ Put(t, Chunk(x, x.cur - lo, nxt - lo, c.mode = "ordered"))
             /\ UNCHANGED da
    <2> DEFINE y == Chunk(x, x.cur - lo, nxt - lo, c.mode = "ordered")
    <2>0. team.n \in Nat \ {0}
      <3>1. InRegion(t)
        BY <1>2, LoopFacts
      <3>2. t < team.n /\ t \in Nat
        BY <3>1, RegionAssumption DEF RegionInv, PoolOK, PoolThread, Threads
      <3> QED
        BY <3>2 DEF RegionInv, TeamOK
    <2>1. nxt \in Int /\ nxt >= x.cur
      BY <1>4, <1>5, <1>8, <2>0, ClaimedBounds
    <2>2. Put(t, y)
      BY <1>8
    <2> HIDE DEF nxt
    <2>3. TeamKept
      BY <1>5, <1>8, <2>1 DEF TeamKept, RegionInv, TeamOK, TeamShape, NotTaken
    <2>4. Keeps(x, y) /\ y.pc = "iter" /\ y.ip = x.ip /\ y.tls.dbase = x.tls.dbase
      BY <1>3, ChunkKeeps
    <2> HIDE DEF y
    <2>5. StaysIn(x, y, team') /\ y.pc \notin SleepPcs
      BY <1>2, <2>4, StaysPlain
    <2> QED
      BY <1>1, <1>2, <1>8, <2>2, <2>3, <2>5, StaysMoves
  <1>9. CASE Put(t, [x EXCEPT !.cur = team.dyn]) /\ UNCHANGED <<team, da>>
    <2> DEFINE y == [x EXCEPT !.cur = team.dyn]
    <2>1. ThShape(y) /\ y.seen = x.seen /\ y.team = x.team /\ y.ip = x.ip /\ y.tls = x.tls
          /\ y.pc = "claim" /\ y.cur = team.dyn
      BY <1>1, <1>3 DEF ThShape
    <2>2. Put(t, y)
      BY <1>9
    <2> HIDE DEF y
    <2>3. StaysIn(x, y, team)
      BY <1>2, <1>5, <2>1 DEF StaysIn, Keeps, LoopPcs, CrossPcs, SleepPcs
    <2>4. StaysIn(x, y, team') /\ y.pc \notin SleepPcs
      BY <1>9, <2>1, <2>3 DEF SleepPcs
    <2> QED
      BY <1>1, <1>2, <1>9, <2>2, <2>4, TeamUnchanged, StaysMoves
  <1> QED
    BY <1>6, <1>7, <1>8, <1>9 DEF LoopClaim, c

LEMMA ChunkEndMoves ==
  ASSUME RegionInv, NEW t \in Threads, ChunkEnd(t)
  PROVE  Moved(t)
  <1> DEFINE x == th[t]
             z == [x EXCEPT !.pc = "next"]
             y == [z EXCEPT !.tls.ofrom = -1]
  <1>1. x.pc = "iter" /\ UNCHANGED <<pool, da>> /\ (Put(t, z) \/ Put(t, y))
    BY DEF ChunkEnd, At
  <1>2. x.pc \in LoopPcs /\ x.pc \notin SleepPcs
    BY <1>1 DEF LoopPcs, SleepPcs
  <1>3. ThShape(x)
    BY <1>2, LoopFacts
  <1>4. TeamKept
    <2>1. CASE UNCHANGED team
      BY <2>1, TeamUnchanged
    <2>2. CASE team' = [team EXCEPT !.ordered = x.tls.obase + x.e]
      BY <2>2 DEF TeamKept, RegionInv, TeamOK, TeamShape
    <2> QED
      BY <2>1, <2>2 DEF ChunkEnd
  <1>5. Keeps(x, z) /\ z.pc = "next" /\ z.ip = x.ip /\ z.tls.dbase = x.tls.dbase
    BY <1>3 DEF ThShape, Keeps
  <1>6. Keeps(x, y) /\ y.pc = "next" /\ y.ip = x.ip /\ y.tls.dbase = x.tls.dbase
    BY <1>3 DEF ThShape, Keeps
  <1> HIDE DEF z, y
  <1>7. StaysIn(x, y, team') /\ y.pc \notin SleepPcs /\ StaysIn(x, z, team') /\ z.pc \notin SleepPcs
    BY <1>2, <1>5, <1>6, StaysPlain
  <1> QED
    BY <1>1, <1>2, <1>4, <1>7, StaysMoves
-----------------------------------------------------------------------------
(* The steps of an iteration.                                                *)
LEMMA NextKKeeps ==
  ASSUME NEW x, ThShape(x)
  PROVE  /\ Keeps(x, NextK(x)) /\ NextK(x).pc = "iter" /\ NextK(x).ip = x.ip
         /\ NextK(x).tls.dbase = x.tls.dbase
  BY DEF NextK, ThShape, Keeps

\* A record that differs only in its place keeps everything else.
LEMMA PlaceKeeps ==
  ASSUME NEW x, ThShape(x), NEW p
  PROVE  LET y == [x EXCEPT !.pc = p]
         IN Keeps(x, y) /\ y.pc = p /\ y.ip = x.ip /\ y.tls.dbase = x.tls.dbase
            /\ y.todo = x.todo
  BY DEF ThShape, Keeps

LEMMA PlainIterationMoves ==
  ASSUME RegionInv, NEW t \in Threads,
         Iterate(t) \/ OrderedIterate(t) \/ OrderedBegin(t) \/ OrderedEnd(t)
  PROVE  Moved(t)
  <1> DEFINE x == th[t]
  <1>1. x.pc \in {"iter", "obegin", "oregion"} /\ UNCHANGED <<pool, team, da>>
    BY DEF Iterate, OrderedIterate, OrderedBegin, OrderedEnd, More, At
  <1>2. x.pc \in LoopPcs /\ x.pc \notin SleepPcs
    BY <1>1 DEF LoopPcs, SleepPcs
  <1>3. ThShape(x)
    BY <1>2, LoopFacts
  <1>4. PICK y : Put(t, y) /\ y \in {NextK(x), [x EXCEPT !.pc = "obegin"], [x EXCEPT !.pc = "oregion"]}
    BY DEF Iterate, OrderedIterate, OrderedBegin, OrderedEnd
  <1>5. Keeps(x, y) /\ y.ip = x.ip /\ y.tls.dbase = x.tls.dbase
        /\ y.pc \in {"iter", "obegin", "oregion"}
    <2>1. CASE y = NextK(x)
      BY <1>3, <2>1, NextKKeeps
    <2>2. CASE y = [x EXCEPT !.pc = "obegin"]
      BY <1>3, <2>2 DEF ThShape, Keeps
    <2>3. CASE y = [x EXCEPT !.pc = "oregion"]
      BY <1>3, <2>3 DEF ThShape, Keeps
    <2> QED
      BY <1>4, <2>1, <2>2, <2>3
  <1>6. StaysIn(x, y, team') /\ y.pc \notin SleepPcs
    BY <1>2, <1>5, StaysPlain
  <1> QED
    BY <1>1, <1>2, <1>4, <1>6, TeamUnchanged, StaysMoves

\* What holds of a thread in a doacross loop's iteration.
LEMMA CrossFacts ==
  ASSUME RegionInv, NEW t \in Threads, th[t].pc \in CrossPcs
  PROVE  /\ th[t].pc \in LoopPcs /\ ThShape(th[t]) /\ LocalOK(th[t], team) /\ InRegion(t)
         /\ team.body[th[t].ip].mode = "doacross" /\ team.n # 1
         /\ D(t) \in DaSeqs /\ DaShape(da[D(t)]) /\ DOMAIN da = DaSeqs
         /\ \A s \in DaSeqs : DaShape(da[s]) /\ da[s].waiters \in Int
  <1>1. th[t].pc \in LoopPcs
    BY DEF LoopPcs
  <1>2. /\ ThShape(th[t]) /\ LocalOK(th[t], team) /\ InRegion(t) /\ Len(team.body) \in Nat
        /\ th[t].ip \in 1 .. Len(team.body) /\ th[t].pc \in RegionPcs
        /\ \A i \in 1 .. Len(team.body) : i \in DaSeqs
    BY <1>1, LoopFacts, ActorFacts
  <1>3. team.body[th[t].ip].mode = "doacross" /\ team.n # 1
    BY <1>2 DEF LocalOK
  <1>4. D(t) \in 1 .. Len(team.body)
    BY <1>1, <1>2, <1>3 DEF LocalOK, D
  <1>5. DOMAIN da = DaSeqs /\ \A s \in DaSeqs : DaShape(da[s]) /\ da[s].waiters = Cardinality(Waiting(s))
    BY DEF RegionInv, DaOK, DaLoop
  <1>6. \A s \in DaSeqs : Cardinality(Waiting(s)) \in Int
    <2> TAKE s \in DaSeqs
    <2>1. IsFiniteSet(Threads)
      BY FS_Interval, RegionAssumption DEF Threads
    <2>2. IsFiniteSet(Waiting(s))
      BY <2>1, FS_Subset DEF Waiting
    <2> QED
      BY <2>2, FS_CardinalityType
  <1> QED
    BY <1>1, <1>2, <1>3, <1>4, <1>5, <1>6

\* A step in a doacross loop that keeps the loop's state.
LEMMA CrossMoves ==
  ASSUME RegionInv, NEW t \in Threads, NEW y, Put(t, y), th[t].pc \in CrossPcs,
         Keeps(th[t], y), y.ip = th[t].ip, y.tls.dbase = th[t].tls.dbase,
         y.pc \in CrossPcs \cup {"iter"},
         y.pc \in {"post", "posted"} => y.todo \in {<<>>, <<"crossed">>},
         UNCHANGED <<pool, team>>,
         \/ da' = da /\ Asleep(y) = Asleep(th[t])
         \/ \E d : /\ da' = [da EXCEPT ![D(t)] = d] /\ DaShape(d)
                   /\ d.st = da[D(t)].st /\ d.left = da[D(t)].left
                   /\ d.waiters = da[D(t)].waiters + Asleep(y) - Asleep(th[t])
  PROVE  Moved(t)
  <1>1. /\ th[t].pc \in LoopPcs /\ InRegion(t)
        /\ team.body[th[t].ip].mode = "doacross" /\ team.n # 1
        /\ D(t) \in DaSeqs /\ DaShape(da[D(t)]) /\ DOMAIN da = DaSeqs
        /\ \A s \in DaSeqs : DaShape(da[s]) /\ da[s].waiters \in Int
    BY CrossFacts
  <1>2. StaysIn(th[t], y, team)
    BY <1>1 DEF StaysIn, LoopPcs, CrossPcs, SleepPcs
  <1>3. StaysIn(th[t], y, team') /\ TeamKept
    BY <1>2, TeamUnchanged
  <1>4. LocalOK(y, team') /\ (CrossIn(y, team') <=> CrossIn(th[t], team))
    BY <1>3, StaysOK
  <1>5. th'[t] = y /\ DOMAIN th' = Threads /\ \A s \in Threads \ {t} : th'[s] = th[s]
    BY DEF RegionInv, Put
  <1>6. OthersKept(t) /\ ActorOK(t)
    BY <1>4, <1>5 DEF OthersKept, Other, ActorOK, Keeps
  <1>7. Asleep(y) \in {0, 1} /\ Asleep(th[t]) \in {0, 1}
    BY DEF Asleep
  <1>8. CASE da' = da /\ Asleep(y) = Asleep(th[t])
    <2>1. \A s \in DaSeqs : da'[s].waiters = da[s].waiters + Asleep(y) - Asleep(th[t])
                            /\ da'[s].waiters = da[s].waiters
      BY <1>1, <1>7, <1>8
    <2>2. DaPlain(t)
      BY <1>1, <1>4, <1>5, <1>8, <2>1 DEF DaPlain, Keeps
    <2> QED
      BY <1>1, <1>3, <1>6, <2>2 DEF Moved
  <1>9. ASSUME NEW d, da' = [da EXCEPT ![D(t)] = d], DaShape(d),
               d.st = da[D(t)].st, d.left = da[D(t)].left,
               d.waiters = da[D(t)].waiters + Asleep(y) - Asleep(th[t])
        PROVE  Moved(t)
    <2>1. DOMAIN da' = DaSeqs /\ da'[D(t)] = d /\ \A s \in DaSeqs : s # D(t) => da'[s] = da[s]
      BY <1>1, <1>9
    <2>2. DaPlain(t)
      BY <1>1, <1>4, <1>5, <1>9, <2>1 DEF DaPlain, Keeps
    <2> QED
      BY <1>1, <1>3, <1>6, <2>2 DEF Moved
  <1> QED
    BY <1>8, <1>9

LEMMA CrossIterateMoves ==
  ASSUME RegionInv, NEW t \in Threads, CrossIterate(t)
  PROVE  Moved(t)
  <1> DEFINE x == th[t]
             p == IF x.k = 0 THEN "source" ELSE "sink"
             y == [x EXCEPT !.pc = p]
  <1>1. x.pc = "iter" /\ Crossing(t) /\ Put(t, y) /\ UNCHANGED <<pool, team, da>>
    BY DEF CrossIterate, More, At
  <1>2. x.pc \in LoopPcs /\ x.pc \notin SleepPcs
    BY <1>1 DEF LoopPcs, SleepPcs
  <1>3. ThShape(x)
    BY <1>2, LoopFacts
  <1>4. Keeps(x, y) /\ y.pc = p /\ y.ip = x.ip /\ y.tls.dbase = x.tls.dbase
    BY <1>3 DEF ThShape, Keeps
  <1> HIDE DEF y
  <1>5. StaysIn(x, y, team)
    BY <1>1, <1>2, <1>4 DEF StaysIn, Crossing, Construct1, Alone, LoopPcs, CrossPcs
  <1>6. StaysIn(x, y, team') /\ y.pc \notin SleepPcs
    BY <1>1, <1>4, <1>5 DEF SleepPcs
  <1> QED
    BY <1>1, <1>2, <1>6, TeamUnchanged, StaysMoves

LEMMA SinkMoves ==
  ASSUME RegionInv, NEW t \in Threads,
         SinkSpin(t) \/ SinkLock(t) \/ SinkTest(t) \/ SinkWoken(t)
  PROVE  Moved(t)
  <1> DEFINE x == th[t]
             d == da[D(t)]
  <1>1. x.pc \in CrossPcs /\ UNCHANGED <<pool, team>>
    BY DEF SinkSpin, SinkLock, SinkTest, SinkWoken, At, CrossPcs, SleepPcs
  <1>2. ThShape(x) /\ DaShape(d) /\ d.waiters \in Int
    BY <1>1, CrossFacts
  <1>3. ASSUME NEW p \in {"source", "sinktest", "asleep"}, Put(t, [x EXCEPT !.pc = p]),
               \/ da' = da /\ (p \in SleepPcs <=> x.pc \in SleepPcs)
               \/ \E e : /\ da' = [da EXCEPT ![D(t)] = e] /\ DaShape(e)
                         /\ e.st = d.st /\ e.left = d.left
                         /\ e.waiters = d.waiters + (IF p \in SleepPcs THEN 1 ELSE 0) - Asleep(x)
        PROVE  Moved(t)
    <2> DEFINE y == [x EXCEPT !.pc = p]
    <2>1. Keeps(x, y) /\ y.pc = p /\ y.ip = x.ip /\ y.tls.dbase = x.tls.dbase
      BY <1>2 DEF ThShape, Keeps
    <2>2. Put(t, y)
      BY <1>3
    <2> HIDE DEF y
    <2>3. Asleep(y) = IF p \in SleepPcs THEN 1 ELSE 0
      BY <2>1 DEF Asleep
    <2>4. y.pc \in CrossPcs /\ y.pc \notin {"post", "posted"}
      BY <2>1 DEF CrossPcs, SleepPcs
    <2>5. \/ da' = da /\ Asleep(y) = Asleep(x)
          \/ \E e : /\ da' = [da EXCEPT ![D(t)] = e] /\ DaShape(e)
                    /\ e.st = d.st /\ e.left = d.left
                    /\ e.waiters = d.waiters + Asleep(y) - Asleep(x)
      BY <1>3, <2>3 DEF Asleep
    <2> QED
      BY <1>1, <2>1, <2>2, <2>4, <2>5, CrossMoves
  <1>4. CASE SinkSpin(t)
    BY <1>3, <1>4 DEF SinkSpin, At, SleepPcs
  <1>5. CASE SinkLock(t)
    <2> DEFINE e == [d EXCEPT !.m = t, !.waiters = @ + 1]
    <2>1. DaShape(e) /\ e.st = d.st /\ e.left = d.left /\ e.waiters = d.waiters + 1
      BY <1>2 DEF DaShape
    <2>2. da' = [da EXCEPT ![D(t)] = e] /\ Put(t, [x EXCEPT !.pc = "sinktest"]) /\ x.pc = "sink"
      BY <1>5 DEF SinkLock, DaPut, At
    <2> HIDE DEF e
    <2>3. Asleep(x) = 0 /\ "sinktest" \in SleepPcs
      BY <2>2 DEF Asleep, SleepPcs
    <2>4. e.waiters = d.waiters + (IF "sinktest" \in SleepPcs THEN 1 ELSE 0) - Asleep(x)
      BY <1>2, <2>1, <2>3
    <2> QED
      BY <1>3, <2>1, <2>2, <2>4
  <1>6. CASE SinkTest(t)
    <2>1. x.pc = "sinktest" /\ Asleep(x) = 1
      BY <1>6 DEF SinkTest, At, Asleep, SleepPcs
    <2>2. CASE DaPut(t, [d EXCEPT !.m = -1, !.waiters = @ - 1]) /\ Put(t, [x EXCEPT !.pc = "source"])
      <3> DEFINE e == [d EXCEPT !.m = -1, !.waiters = @ - 1]
      <3>1. DaShape(e) /\ e.st = d.st /\ e.left = d.left /\ e.waiters = d.waiters - 1
        BY <1>2 DEF DaShape
      <3>2. da' = [da EXCEPT ![D(t)] = e]
        BY <2>2 DEF DaPut
      <3> HIDE DEF e
      <3>3. e.waiters = d.waiters + (IF "source" \in SleepPcs THEN 1 ELSE 0) - Asleep(x)
        BY <1>2, <2>1, <3>1 DEF SleepPcs
      <3> QED
        BY <1>3, <2>2, <3>1, <3>2, <3>3
    <2>3. CASE DaPut(t, [d EXCEPT !.m = -1]) /\ Put(t, [x EXCEPT !.pc = "asleep"])
      <3> DEFINE e == [d EXCEPT !.m = -1]
      <3>1. DaShape(e) /\ e.st = d.st /\ e.left = d.left /\ e.waiters = d.waiters
        BY <1>2 DEF DaShape
      <3>2. da' = [da EXCEPT ![D(t)] = e]
        BY <2>3 DEF DaPut
      <3> HIDE DEF e
      <3>3. e.waiters = d.waiters + (IF "asleep" \in SleepPcs THEN 1 ELSE 0) - Asleep(x)
        BY <1>2, <2>1, <3>1 DEF SleepPcs
      <3> QED
        BY <1>3, <2>3, <3>1, <3>2, <3>3
    <2> QED
      BY <1>6, <2>2, <2>3 DEF SinkTest
  <1>7. CASE SinkWoken(t)
    <2> DEFINE e == [d EXCEPT !.m = t]
    <2>1. DaShape(e) /\ e.st = d.st /\ e.left = d.left /\ e.waiters = d.waiters
      BY <1>2 DEF DaShape
    <2>2. da' = [da EXCEPT ![D(t)] = e] /\ Put(t, [x EXCEPT !.pc = "sinktest"]) /\ x.pc = "woken"
      BY <1>7 DEF SinkWoken, DaPut, At
    <2> HIDE DEF e
    <2>3. Asleep(x) = 1 /\ "sinktest" \in SleepPcs
      BY <2>2 DEF Asleep, SleepPcs
    <2>4. e.waiters = d.waiters + (IF "sinktest" \in SleepPcs THEN 1 ELSE 0) - Asleep(x)
      BY <1>2, <2>1, <2>3
    <2> QED
      BY <1>3, <2>1, <2>2, <2>4
  <1> QED
    BY <1>4, <1>5, <1>6, <1>7

LEMMA AfterPostKeeps ==
  ASSUME NEW x, ThShape(x), x.todo \in {<<>>, <<"crossed">>}
  PROVE  /\ Keeps(x, AfterPost(x)) /\ AfterPost(x).pc \in {"iter", "crossed"}
         /\ AfterPost(x).ip = x.ip /\ AfterPost(x).tls.dbase = x.tls.dbase
  <1>1. CASE x.todo = <<>>
    BY <1>1, NextKKeeps DEF AfterPost
  <1>2. CASE x.todo # <<>>
    <2> DEFINE y == [x EXCEPT !.pc = Head(x.todo), !.todo = <<>>]
    <2>1. AfterPost(x) = y /\ Head(x.todo) = "crossed"
      BY <1>2 DEF AfterPost
    <2>2. Keeps(x, y) /\ y.ip = x.ip /\ y.tls.dbase = x.tls.dbase /\ y.pc = Head(x.todo)
      BY DEF ThShape, Keeps
    <2> QED
      BY <2>1, <2>2
  <1> QED
    BY <1>1, <1>2

LEMMA SourceMoves ==
  ASSUME RegionInv, NEW t \in Threads, Source(t) \/ Crossed(t)
  PROVE  Moved(t)
  <1> DEFINE x == th[t]
  <1>1. x.pc \in {"source", "crossed"} /\ UNCHANGED <<pool, team, da>>
    BY DEF Source, Crossed, At
  <1>2. x.pc \in CrossPcs /\ Asleep(x) = 0
    BY <1>1 DEF CrossPcs, SleepPcs, Asleep
  <1>3. ThShape(x)
    BY <1>2, CrossFacts
  <1>4. ASSUME NEW s \in {<<>>, <<"crossed">>}, Put(t, [x EXCEPT !.pc = "post", !.todo = s])
        PROVE  Moved(t)
    <2> DEFINE y == [x EXCEPT !.pc = "post", !.todo = s]
    <2>1. Keeps(x, y) /\ y.pc = "post" /\ y.ip = x.ip /\ y.tls.dbase = x.tls.dbase /\ y.todo = s
      BY <1>3 DEF ThShape, Keeps
    <2>2. Put(t, y)
      BY <1>4
    <2> HIDE DEF y
    <2>3. y.pc \in CrossPcs /\ Asleep(y) = 0
      BY <2>1 DEF CrossPcs, SleepPcs, Asleep
    <2> QED
      BY <1>1, <1>2, <2>1, <2>2, <2>3, CrossMoves
  <1>5. CASE Put(t, [x EXCEPT !.pc = "crossed"])
    <2> DEFINE y == [x EXCEPT !.pc = "crossed"]
    <2>1. Keeps(x, y) /\ y.pc = "crossed" /\ y.ip = x.ip /\ y.tls.dbase = x.tls.dbase
      BY <1>3 DEF ThShape, Keeps
    <2>2. Put(t, y)
      BY <1>5
    <2> HIDE DEF y
    <2>3. y.pc \in CrossPcs /\ Asleep(y) = 0 /\ y.pc \notin {"post", "posted"}
      BY <2>1 DEF CrossPcs, SleepPcs, Asleep
    <2> QED
      BY <1>1, <1>2, <2>1, <2>2, <2>3, CrossMoves
  <1> QED
    BY <1>4, <1>5 DEF Source, Crossed

LEMMA PostMoves ==
  ASSUME RegionInv, NEW t \in Threads, Post(t)
  PROVE  Moved(t)
  <1> DEFINE x == th[t]
             d == da[D(t)]
  <1>1. x.pc = "post" /\ UNCHANGED <<pool, team>>
    BY DEF Post, At
  <1>2. x.pc \in CrossPcs /\ Asleep(x) = 0
    BY <1>1 DEF CrossPcs, SleepPcs, Asleep
  <1>3. ThShape(x) /\ DaShape(d) /\ d.waiters \in Int /\ x.todo \in {<<>>, <<"crossed">>}
    BY <1>1, <1>2, CrossFacts DEF LocalOK
  <1>4. CASE Put(t, AfterPost(x)) /\ UNCHANGED da
    <2> DEFINE y == AfterPost(x)
    <2>1. Keeps(x, y) /\ y.pc \in {"iter", "crossed"} /\ y.ip = x.ip /\ y.tls.dbase = x.tls.dbase
      BY <1>3, AfterPostKeeps
    <2>2. Put(t, y)
      BY <1>4
    <2> HIDE DEF y
    <2>3. y.pc \in CrossPcs \cup {"iter"} /\ Asleep(y) = 0 /\ y.pc \notin {"post", "posted"}
      BY <2>1 DEF CrossPcs, SleepPcs, Asleep
    <2> QED
      BY <1>1, <1>2, <1>4, <2>1, <2>2, <2>3, CrossMoves
  <1>5. CASE /\ DaPut(t, [d EXCEPT !.ent[Slot(t, x.k)] = x.k + 1])
             /\ Put(t, [x EXCEPT !.pc = "posted"])
    <2> DEFINE y == [x EXCEPT !.pc = "posted"]
               e == [d EXCEPT !.ent[Slot(t, x.k)] = x.k + 1]
    <2>1. Keeps(x, y) /\ y.pc = "posted" /\ y.ip = x.ip /\ y.tls.dbase = x.tls.dbase
          /\ y.todo = x.todo
      BY <1>3 DEF ThShape, Keeps
    <2>2. Put(t, y) /\ da' = [da EXCEPT ![D(t)] = e]
      BY <1>5 DEF DaPut
    <2>3. DaShape(e) /\ e.st = d.st /\ e.left = d.left /\ e.waiters = d.waiters
      BY <1>3 DEF DaShape
    <2> HIDE DEF y, e
    <2>4. y.pc \in CrossPcs /\ Asleep(y) = 0
      BY <2>1 DEF CrossPcs, SleepPcs, Asleep
    <2>5. e.waiters = d.waiters + Asleep(y) - Asleep(x)
      BY <1>2, <1>3, <2>3, <2>4
    <2> QED
      BY <1>1, <1>2, <1>3, <2>1, <2>2, <2>3, <2>4, <2>5, CrossMoves
  <1> QED
    BY <1>4, <1>5 DEF Post

LEMMA PostWakeMoves ==
  ASSUME RegionInv, NEW t \in Threads, PostWake(t)
  PROVE  Moved(t)
  <1> DEFINE x == th[t]
             y == AfterPost(x)
  <1>1. x.pc = "posted" /\ UNCHANGED <<pool, team, da>>
    BY DEF PostWake, At
  <1>2. x.pc \in CrossPcs /\ Asleep(x) = 0 /\ x.pc \notin SleepPcs
    BY <1>1 DEF CrossPcs, SleepPcs, Asleep
  <1>3. ThShape(x) /\ x.todo \in {<<>>, <<"crossed">>} /\ x.pc \in LoopPcs /\ InRegion(t)
        /\ team.body[x.ip].mode = "doacross" /\ team.n # 1
    BY <1>1, <1>2, CrossFacts DEF LocalOK
  <1>4. Keeps(x, y) /\ y.pc \in {"iter", "crossed"} /\ y.ip = x.ip /\ y.tls.dbase = x.tls.dbase
    BY <1>3, AfterPostKeeps
  <1>5. th'[t] = y /\ DOMAIN th' = Threads /\ \A s \in Threads \ {t} : Other(th[s], th'[s])
    <2>1. CASE Put(t, y)
      BY <2>1 DEF Put, RegionInv, Other
    <2>2. CASE th' = [s \in Threads |->
                    CASE s = t -> y
                      [] s \in Sleepers(t) -> [th[s] EXCEPT !.pc = "woken"]
                      [] OTHER -> th[s]]
      <3> HIDE DEF y
      <3>0. t \notin Sleepers(t)
        BY <1>1 DEF Sleepers, At
      <3>1. th'[t] = y /\ DOMAIN th' = Threads
        BY <2>2, <3>0
      <3>2. ASSUME NEW s \in Threads \ {t} PROVE Other(th[s], th'[s])
        <4>1. CASE s \in Sleepers(t)
          BY <2>2, <3>2, <4>1 DEF Other, Sleepers, At
        <4>2. CASE s \notin Sleepers(t)
          BY <2>2, <3>2, <4>2 DEF Other
        <4> QED
          BY <4>1, <4>2
      <3> QED
        BY <3>1, <3>2
    <2> QED
      BY <2>1, <2>2 DEF PostWake
  <1> HIDE DEF y
  <1>6. y.pc \notin SleepPcs
    BY <1>4 DEF SleepPcs
  <1>7. StaysIn(x, y, team)
    BY <1>3, <1>4 DEF StaysIn, LoopPcs, CrossPcs, SleepPcs
  <1>8. StaysIn(x, y, team') /\ TeamKept
    BY <1>1, <1>7, TeamUnchanged
  <1>9. LocalOK(y, team') /\ (CrossIn(y, team') <=> CrossIn(x, team))
    BY <1>8, StaysOK
  <1>10. DaPlain(t)
    BY <1>1, <1>2, <1>4, <1>5, <1>6, <1>9, DaUnchanged DEF Keeps
  <1>11. OthersKept(t) /\ ActorOK(t)
    BY <1>4, <1>5, <1>9 DEF OthersKept, ActorOK, Keeps
  <1> QED
    BY <1>1, <1>3, <1>8, <1>10, <1>11 DEF Moved

LEMMA WithinRegion ==
  ASSUME RegionInv, NEW t \in Threads, Worksharing(t) \/ Iterations(t)
  PROVE  Moved(t)
  BY RunNestedMoves, KernelClaimMoves, SingleMoves, ArriveMoves, PassMoves, LoopBeginMoves,
     LoopStaticMoves, LoopLoadMoves, LoopClaimMoves, ChunkEndMoves, PlainIterationMoves,
     CrossIterateMoves, SinkMoves, SourceMoves, PostMoves, PostWakeMoves
  DEF Worksharing, Iterations
-----------------------------------------------------------------------------
(* A step within the region preserves the invariant.                         *)
\* What the invariant sees of thread s stays.
SameThread(s) ==
  /\ ThShape(th'[s]) /\ th'[s].seen = th[s].seen /\ th'[s].team = th[s].team
  /\ th'[s].tls.daseq = th[s].tls.daseq
  /\ CrossIn(th'[s], team') <=> CrossIn(th[s], team)
  /\ th'[s].pc \in SleepPcs <=> th[s].pc \in SleepPcs
  /\ th'[s].pc \in OutPcs(s) <=> th[s].pc \in OutPcs(s)
  /\ th'[s].pc = "absent" <=> th[s].pc = "absent"

LEMMA OthersSame ==
  ASSUME RegionInv, NEW t \in Threads, Moved(t), NEW s \in Threads \ {t}
  PROVE  SameThread(s) /\ (InRegion(s) => LocalOK(th'[s], team'))
  <1> DEFINE x == th[s]
             y == th'[s]
  <1>1. ThShape(x) /\ (x.team # 0 => LocalOK(x, team)) /\ Other(x, y)
    BY DEF RegionInv, Moved, OthersKept, InRegion
  <1>2. TeamKept /\ team.dyn \in Int
    BY DEF Moved, RegionInv, TeamOK
  <1> HIDE DEF y
  <1>3. /\ ThShape(y) /\ y.seen = x.seen /\ y.team = x.team /\ y.tls = x.tls /\ y.ip = x.ip
        /\ y.cur = x.cur /\ y.todo = x.todo
        /\ y.pc = x.pc \/ (x.pc = "asleep" /\ y.pc = "woken")
    BY <1>1 DEF Other, ThShape
  <1>4. y.pc \in SleepPcs <=> x.pc \in SleepPcs
    BY <1>3 DEF SleepPcs
  <1>5. y.pc \in CrossPcs <=> x.pc \in CrossPcs
    BY <1>3 DEF SleepPcs, CrossPcs
  <1>6. (y.pc \in LoopPcs <=> x.pc \in LoopPcs) /\ (y.pc \in RegionPcs <=> x.pc \in RegionPcs)
    BY <1>3 DEF SleepPcs, CrossPcs, LoopPcs, RegionPcs
  <1>7. CrossIn(y, team') <=> CrossIn(x, team)
    BY <1>2, <1>3, <1>6 DEF CrossIn, TeamKept
  <1>8. (y.pc \in OutPcs(s) <=> x.pc \in OutPcs(s)) /\ (y.pc = "absent" <=> x.pc = "absent")
    BY <1>3 DEF OutPcs
  <1>9. ASSUME x.team # 0 PROVE LocalOK(y, team')
    BY <1>1, <1>2, <1>3, <1>5, <1>6, <1>9 DEF LocalOK, TeamKept
  <1> QED
    BY <1>3, <1>4, <1>7, <1>8, <1>9 DEF SameThread, InRegion, y

\* The acting thread stays in the region.
LEMMA ActorSame ==
  ASSUME RegionInv, NEW t \in Threads, Moved(t)
  PROVE  /\ th'[t].pc \in RegionPcs /\ th[t].pc \in RegionPcs /\ InRegion(t)
         /\ th'[t].pc \notin OutPcs(t) /\ th[t].pc \notin OutPcs(t)
         /\ th'[t].pc # "absent" /\ th[t].pc # "absent"
         /\ th'[t].seen = th[t].seen /\ th'[t].team = th[t].team
         /\ ThShape(th'[t]) /\ LocalOK(th'[t], team') /\ LocalOK(th[t], team)
         /\ InRegion(t)'
  <1>1. InRegion(t) /\ ActorOK(t) /\ LocalOK(th[t], team)
    BY DEF Moved, RegionInv
  <1>2. th'[t].pc \in RegionPcs /\ th[t].pc \in RegionPcs
    BY <1>1 DEF ActorOK, LocalOK
  <1>3. \A p \in RegionPcs : p \notin OutPcs(t) /\ p # "absent"
    BY DEF RegionPcs, LoopPcs, CrossPcs, SleepPcs, OutPcs
  <1> QED
    BY <1>1, <1>2, <1>3 DEF ActorOK, InRegion

LEMMA MovedTeam ==
  ASSUME RegionInv, NEW t \in Threads, Moved(t)
  PROVE  TeamOK' /\ Alone' = Alone
  BY DEF RegionInv, TeamOK, Moved, TeamKept, Alone

LEMMA MovedPool ==
  ASSUME RegionInv, NEW t \in Threads, Moved(t)
  PROVE  PoolOK'
  <1>1. \A s \in Threads : th'[s].seen = th[s].seen /\ th'[s].team = th[s].team
    BY OthersSame, ActorSame DEF SameThread
  <1>2. \A s \in Threads : (th'[s].pc \in OutPcs(s) <=> th[s].pc \in OutPcs(s))
                           /\ (th'[s].pc = "absent" <=> th[s].pc = "absent")
    BY OthersSame, ActorSame DEF SameThread
  <1>3. pool' = pool /\ TeamKept
    BY DEF Moved
  <1>4. \A s \in Threads : InRegion(s)' <=> InRegion(s)
    BY <1>1 DEF InRegion
  <1>5. \A s \in Threads : PoolThread(s)'
    BY <1>1, <1>2, <1>3, <1>4 DEF RegionInv, PoolOK, PoolThread, TeamKept
  <1>6. \A w \in 1 .. pool.n - 1 : w \in Threads
    BY RegionAssumption DEF RegionInv, PoolOK, PoolTyped, Threads
  <1>7. Busy' = Busy
    BY <1>1, <1>3, <1>4, <1>6 DEF Busy
  <1>8. Alone' = Alone
    BY MovedTeam
  <1>9. PoolTyped'
    BY <1>3 DEF RegionInv, PoolOK, PoolTyped
  <1>10. 0 \in Threads
    BY ZeroIsThread DEF ThreadZero
  <1> QED
    BY <1>3, <1>4, <1>5, <1>7, <1>8, <1>9, <1>10 DEF RegionInv, PoolOK, TeamKept

\* The threads that have left a loop are the same, but for the actor's.
LEMMA OthersLeft ==
  ASSUME RegionInv, NEW t \in Threads, Moved(t), NEW q \in Threads \ {t}, NEW s \in DaSeqs
  PROVE  /\ HasLeft(q, s)' <=> HasLeft(q, s)
         /\ q \in Waiting(s)' <=> q \in Waiting(s)
  <1>1. SameThread(q) /\ pool' = pool
    BY OthersSame DEF Moved
  <1> QED
    BY <1>1 DEF SameThread, HasLeft, Waiting, InRegion, D

LEMMA TeamThreads ==
  ASSUME RegionInv
  PROVE  /\ \A q \in 0 .. team.n - 1 : q \in Threads
         /\ IsFiniteSet(Threads) /\ Cardinality(Threads) = MaxTeam
         /\ \A s : /\ IsFiniteSet(Waiting(s)) /\ Cardinality(Waiting(s)) \in 0 .. MaxTeam
                   /\ IsFiniteSet(NotLeft(s)) /\ Cardinality(NotLeft(s)) \in 0 .. team.n
  <1>1. \A q \in 0 .. team.n - 1 : q \in Threads
    BY RegionAssumption DEF RegionInv, TeamOK, Threads
  <1>2. IsFiniteSet(Threads) /\ Cardinality(Threads) = MaxTeam
    BY FS_Interval, RegionAssumption DEF Threads
  <1>3. IsFiniteSet(0 .. team.n - 1) /\ Cardinality(0 .. team.n - 1) = team.n
    <2>1. team.n \in Nat
      BY RegionAssumption DEF RegionInv, TeamOK
    <2>2. PICK m \in Int : m = team.n - 1
      BY <2>1
    <2>3. IsFiniteSet(0 .. m) /\ Cardinality(0 .. m) = IF 0 > m THEN 0 ELSE m - 0 + 1
      BY FS_Interval
    <2> QED
      BY <2>1, <2>2, <2>3
  <1>4. ASSUME NEW s
        PROVE  /\ IsFiniteSet(Waiting(s)) /\ Cardinality(Waiting(s)) \in 0 .. MaxTeam
               /\ IsFiniteSet(NotLeft(s)) /\ Cardinality(NotLeft(s)) \in 0 .. team.n
    <2>1. Waiting(s) \subseteq Threads /\ NotLeft(s) \subseteq 0 .. team.n - 1
      BY DEF Waiting, NotLeft
    <2>2. IsFiniteSet(Waiting(s)) /\ Cardinality(Waiting(s)) <= MaxTeam
      BY <1>2, <2>1, FS_Subset
    <2>3. IsFiniteSet(NotLeft(s)) /\ Cardinality(NotLeft(s)) <= team.n
      BY <1>3, <2>1, FS_Subset
    <2>4. Cardinality(Waiting(s)) \in Nat /\ Cardinality(NotLeft(s)) \in Nat
      BY <2>2, <2>3, FS_CardinalityType
    <2> QED
      BY <2>2, <2>3, <2>4, RegionAssumption DEF RegionInv, TeamOK
  <1> QED
    BY <1>1, <1>2, <1>4

LEMMA DaPlainPreserves ==
  ASSUME RegionInv, NEW t \in Threads, Moved(t), DaPlain(t)
  PROVE  DaOK'
  <1>0. TeamKept /\ pool' = pool /\ InRegion(t) /\ InRegion(t)' /\ Alone' = Alone
    BY ActorSame, MovedTeam DEF Moved
  <1>1. ASSUME NEW s \in DaSeqs
        PROVE  DaLoop(s)'
    <2>1. HasLeft(t, s)' <=> HasLeft(t, s)
      BY <1>0 DEF DaPlain, HasLeft, D
    <2>2. NotLeft(s)' = NotLeft(s)
      BY <1>0, <2>1, OthersLeft, TeamThreads DEF NotLeft, TeamKept
    <2>3. da'[s].waiters = Cardinality(Waiting(s)')
      <3>1. \A q \in Threads \ {t} : q \in Waiting(s)' <=> q \in Waiting(s)
        BY OthersLeft
      <3>2. Waiting(s) \subseteq Threads /\ Waiting(s)' \subseteq Threads
        BY DEF Waiting
      <3>3. da[s].waiters = Cardinality(Waiting(s)) /\ IsFiniteSet(Waiting(s))
            /\ Cardinality(Waiting(s)) \in Nat
        BY TeamThreads, RegionAssumption DEF RegionInv, DaOK, DaLoop
      <3>4. t \in Waiting(s)' <=> (th'[t].pc \in SleepPcs /\ th'[t].tls.daseq = s)
        BY DEF Waiting, D
      <3>5. t \in Waiting(s) <=> (th[t].pc \in SleepPcs /\ th[t].tls.daseq = s)
        BY DEF Waiting, D
      <3>6. CASE t \in Waiting(s)' <=> t \in Waiting(s)
        <4>1. Waiting(s)' = Waiting(s)
          BY <3>1, <3>2, <3>6
        <4>2. da'[s].waiters = da[s].waiters
          <5>1. CASE s # D(t)
            BY <5>1 DEF DaPlain
          <5>2. CASE s = D(t)
            <6>1. Asleep(th'[t]) = Asleep(th[t]) /\ Asleep(th[t]) \in Int
              BY <3>4, <3>5, <3>6, <5>2 DEF Asleep, DaPlain, D
            <6> QED
              BY <3>3, <5>2, <6>1 DEF DaPlain
          <5> QED
            BY <5>1, <5>2
        <4> QED
          BY <3>3, <4>1, <4>2
      <3>7. CASE t \in Waiting(s)' /\ t \notin Waiting(s)
        <4>1. Waiting(s)' = Waiting(s) \cup {t}
          BY <3>1, <3>2, <3>7
        <4>2. Cardinality(Waiting(s)') = Cardinality(Waiting(s)) + 1
          BY <3>3, <3>7, <4>1, FS_AddElement
        <4>3. s = D(t) /\ Asleep(th'[t]) = 1 /\ Asleep(th[t]) = 0
          BY <3>4, <3>5, <3>7 DEF Asleep, DaPlain, D
        <4> QED
          BY <3>3, <4>2, <4>3 DEF DaPlain
      <3>8. CASE t \notin Waiting(s)' /\ t \in Waiting(s)
        <4>1. Waiting(s)' = Waiting(s) \ {t}
          BY <3>1, <3>2, <3>8
        <4>2. Cardinality(Waiting(s)') = Cardinality(Waiting(s)) - 1
          BY <3>3, <3>8, <4>1, FS_RemoveElement
        <4>3. s = D(t) /\ Asleep(th'[t]) = 0 /\ Asleep(th[t]) = 1
          BY <3>4, <3>5, <3>8 DEF Asleep, DaPlain, D
        <4> QED
          BY <3>3, <4>2, <4>3 DEF DaPlain
      <3> QED
        BY <3>6, <3>7, <3>8
    <2>4. DaLoop(s) /\ DaShape(da'[s]) /\ da'[s].st = da[s].st /\ da'[s].left = da[s].left
      BY DEF RegionInv, DaOK, DaPlain
    <2> QED
      BY <1>0, <2>2, <2>3, <2>4 DEF DaLoop, TeamKept
  <1>2. ASSUME NEW q \in Threads, CrossIn(th[q], team)'
        PROVE  da'[th'[q].tls.daseq].st # "none"
    <2>1. CrossIn(th[q], team) /\ th'[q].tls.daseq = th[q].tls.daseq
      BY <1>2, OthersSame DEF SameThread, DaPlain
    <2>2. da[th[q].tls.daseq].st # "none"
      BY <2>1 DEF RegionInv, DaOK, D
    <2>3. th[q].tls.daseq \in DaSeqs
      <3>1. th[q].pc \in LoopPcs /\ team.body[th[q].ip].mode = "doacross" /\ team.n # 1
        BY <2>1 DEF CrossIn
      <3>2. LocalOK(th[q], team) /\ Len(team.body) \in Nat /\ th[q].pc \in RegionPcs
            /\ th[q].ip \in 1 .. Len(team.body)
        BY <3>1, LoopFacts
      <3>3. th[q].tls.daseq \in 1 .. Len(team.body)
        BY <3>1, <3>2 DEF LocalOK
      <3> QED
        BY <3>2, <3>3, ActorFacts
    <2> QED
      BY <2>1, <2>2, <2>3 DEF DaPlain
  <1> QED
    BY <1>1, <1>2 DEF DaOK, DaPlain, D

\* Whoever is in a doacross loop has a sequence number of the region.
LEMMA CrossSeq ==
  ASSUME RegionInv, NEW q \in Threads, CrossIn(th[q], team)
  PROVE  D(q) \in DaSeqs /\ team.alive /\ ~ Alone /\ InRegion(q)
  <1>1. /\ th[q].pc \in LoopPcs /\ team.body[th[q].ip].mode = "doacross" /\ team.n # 1
        /\ th[q].team # 0
    BY DEF CrossIn
  <1>2. LocalOK(th[q], team) /\ Len(team.body) \in Nat /\ th[q].pc \in RegionPcs
        /\ th[q].ip \in 1 .. Len(team.body)
    BY <1>1, LoopFacts
  <1>3. th[q].tls.daseq \in 1 .. Len(team.body)
    BY <1>1, <1>2 DEF LocalOK
  <1> QED
    BY <1>1, <1>2, <1>3, ActorFacts DEF D, Alone

LEMMA DaBegunPreserves ==
  ASSUME RegionInv, NEW t \in Threads, Moved(t), DaBegun(t)
  PROVE  DaOK'
  <1>n. PICK n : n = th[t].tls.daseq + 1
    OBVIOUS
  <1>0. TeamKept /\ pool' = pool /\ InRegion(t) /\ InRegion(t)' /\ Alone' = Alone
        /\ LocalOK(th[t], team) /\ th[t].tls.daseq \in Nat
    BY ActorSame, MovedTeam, SMTT(30) DEF Moved, LocalOK
  <1>1. /\ th[t].pc = "start" /\ th'[t].pc = "next" /\ th'[t].tls.daseq = n
        /\ CrossIn(th'[t], team') /\ n \in DaSeqs
    BY <1>n DEF DaBegun
  <1>2. ~ CrossIn(th[t], team)
    BY <1>1 DEF CrossIn, LoopPcs, CrossPcs, SleepPcs
  <1>21. \A s \in DaSeqs : s \in Nat
    BY RegionAssumption DEF DaSeqs
  <1>3. \A s \in DaSeqs : HasLeft(t, s)' <=> HasLeft(t, s)
    BY <1>n, <1>0, <1>1, <1>2, <1>21 DEF HasLeft, D
  <1>4. \A s \in DaSeqs : NotLeft(s)' = NotLeft(s)
    <2> TAKE s \in DaSeqs
    <2>1. team'.n = team.n /\ 0 .. team.n - 1 \subseteq Threads
      BY <1>0, TeamThreads DEF TeamKept
    <2>2. \A q \in Threads : HasLeft(q, s)' <=> HasLeft(q, s)
      BY <1>3, OthersLeft
    <2> QED
      BY <2>1, <2>2 DEF NotLeft
  <1>5. \A s \in DaSeqs : Waiting(s)' = Waiting(s)
    <2> TAKE s \in DaSeqs
    <2>1. t \notin Waiting(s) /\ t \notin Waiting(s)'
      BY <1>1 DEF Waiting, SleepPcs
    <2> QED
      BY <2>1, OthersLeft DEF Waiting
  <1>6. team.alive /\ ~ Alone /\ t \in 0 .. team.n - 1 /\ team.n \in 0 .. MaxTeam /\ MaxTeam \in Nat
    <2>1. team.alive /\ t < team.n
      BY <1>0 DEF RegionInv, PoolOK, PoolThread
    <2>2. ~ Alone
      BY <1>0, <1>1 DEF CrossIn, TeamKept, Alone
    <2> QED
      BY <2>1, <2>2, RegionAssumption DEF RegionInv, TeamOK, Threads
  <1>7. t \in NotLeft(n)
    <2>1. th[t].tls.daseq < n
      BY <1>n, <1>0
    <2>2. ~ HasLeft(t, n)
      BY <1>n, <1>0, <2>1 DEF HasLeft, D
    <2> QED
      BY <1>6, <2>2 DEF NotLeft
  <1>8. DOMAIN da' = DaSeqs /\ (\A s \in DaSeqs : s # n => da'[s] = da[s]) /\ DaLoop(n)' /\ da'[n].st # "none"
    <2>1. DaLoop(n) /\ DOMAIN da = DaSeqs
      BY <1>1 DEF RegionInv, DaOK
    <2>2. CASE da[n].st # "none" /\ da' = da
      BY <1>0, <1>1, <1>4, <1>5, <2>1, <2>2 DEF DaLoop, TeamKept
    <2>3. CASE /\ da[n].st = "none"
               /\ \E e : da' = [da EXCEPT ![n] =
                                 [NoDa EXCEPT !.st = "live", !.left = team.n, !.ent = e]]
      <3>1. PICK e : da' = [da EXCEPT ![n] =
                              [NoDa EXCEPT !.st = "live", !.left = team.n, !.ent = e]]
        BY <2>3
      <3> DEFINE d == [NoDa EXCEPT !.st = "live", !.left = team.n, !.ent = e]
      <3>2. DaShape(d) /\ d.st = "live" /\ d.left = team.n /\ d.waiters = 0
        BY DEF NoDa, DaShape
      <3>3. DOMAIN da' = DaSeqs /\ da'[n] = d /\ (\A s \in DaSeqs : s # n => da'[s] = da[s])
        BY <1>1, <2>1, <3>1
      <3> HIDE DEF d
      <3>4. Waiting(n) = {}
        <4> SUFFICES ASSUME NEW q \in Waiting(n) PROVE FALSE
          OBVIOUS
        <4>1. q \in Threads /\ th[q].pc \in SleepPcs /\ D(q) = n
          BY DEF Waiting
        <4>2. th[q].pc \in CrossPcs
          BY <4>1 DEF CrossPcs
        <4>3. CrossIn(th[q], team)
          BY <4>1, <4>2, CrossFacts DEF CrossIn, InRegion
        <4> QED
          BY <2>3, <4>1, <4>3 DEF RegionInv, DaOK
      <3>5. Cardinality(NotLeft(n)) \in 0 .. team.n
        BY TeamThreads
      <3>6. DaLoop(n)'
        <4>1. d.waiters = Cardinality(Waiting(n)')
          BY <1>1, <1>5, <3>2, <3>4, FS_EmptySet
        <4>2. Cardinality(NotLeft(n)') <= d.left
          BY <1>1, <1>4, <1>6, <3>2, <3>5
        <4> QED
          BY <1>6, <3>2, <3>3, <4>1, <4>2 DEF DaLoop
      <3> QED
        BY <3>2, <3>3, <3>6
    <2> QED
      BY <1>n, <2>2, <2>3, Zenon DEF DaBegun
  <1>9. \A s \in DaSeqs : DaLoop(s)'
    <2> SUFFICES ASSUME NEW s \in DaSeqs, s # n PROVE DaLoop(s)'
      BY <1>8
    <2>1. DaLoop(s) /\ da'[s] = da[s]
      BY <1>8 DEF RegionInv, DaOK
    <2> QED
      BY <1>0, <1>4, <1>5, <2>1 DEF DaLoop, TeamKept
  <1>10. ASSUME NEW q \in Threads, CrossIn(th'[q], team')
         PROVE  da'[th'[q].tls.daseq].st # "none"
    <2>1. CASE q = t
      BY <1>1, <1>8, <2>1
    <2>2. CASE q # t
      <3>1. CrossIn(th[q], team) /\ th'[q].tls.daseq = th[q].tls.daseq
        BY <1>10, <2>2, OthersSame DEF SameThread
      <3>2. D(q) \in DaSeqs /\ da[D(q)].st # "none"
        BY <3>1, CrossSeq DEF RegionInv, DaOK
      <3> QED
        BY <1>8, <3>1, <3>2 DEF D
    <2> QED
      BY <2>1, <2>2
  <1> QED
    BY <1>8, <1>9, <1>10 DEF DaOK, D

LEMMA DaOverPreserves ==
  ASSUME RegionInv, NEW t \in Threads, Moved(t), DaOver(t)
  PROVE  DaOK'
  <1>n. PICK n : n = th[t].tls.daseq
    OBVIOUS
  <1>0. TeamKept /\ pool' = pool /\ InRegion(t) /\ InRegion(t)' /\ Alone' = Alone
    BY ActorSame, MovedTeam DEF Moved
  <1>1. /\ CrossIn(th[t], team) /\ ~ CrossIn(th'[t], team')
        /\ th[t].pc \notin SleepPcs /\ th'[t].pc \notin SleepPcs /\ th'[t].tls.daseq = n
        /\ da' = [da EXCEPT ![n].left = @ - 1, ![n].st = IF da[n].left = 1 THEN "freed" ELSE @]
    BY <1>n DEF DaOver
  <1>2. n \in DaSeqs /\ team.alive /\ ~ Alone /\ da[n].st # "none" /\ DOMAIN da = DaSeqs
        /\ DaLoop(n)
    BY <1>n, <1>1, CrossSeq DEF RegionInv, DaOK, D
  <1>3. \A s \in DaSeqs : s # n => (HasLeft(t, s)' <=> HasLeft(t, s))
    BY <1>n, <1>0, <1>1 DEF HasLeft, D
  <1>4. \A s \in DaSeqs : s # n => NotLeft(s)' = NotLeft(s)
    BY <1>0, <1>3, OthersLeft, TeamThreads DEF NotLeft, TeamKept
  <1>5. \A s \in DaSeqs : Waiting(s)' = Waiting(s)
    <2> TAKE s \in DaSeqs
    <2>1. t \notin Waiting(s) /\ t \notin Waiting(s)'
      BY <1>1 DEF Waiting
    <2> QED
      BY <2>1, OthersLeft DEF Waiting
  <1>6. t \in 0 .. team.n - 1 /\ th[t].tls.daseq \in Nat
    <2>1. t < team.n
      BY <1>0 DEF RegionInv, PoolOK, PoolThread
    <2>2. th[t].tls.daseq \in Nat
      BY ActorSame DEF LocalOK
    <2> QED
      BY <2>1, <2>2, RegionAssumption DEF RegionInv, TeamOK, Threads
  <1>7. t \in NotLeft(n) /\ t \notin NotLeft(n)'
    BY <1>n, <1>0, <1>1, <1>6 DEF NotLeft, HasLeft, D
  <1>8. NotLeft(n)' = NotLeft(n) \ {t}
    BY <1>0, <1>2, <1>7, OthersLeft, TeamThreads DEF NotLeft, TeamKept
  <1>9. IsFiniteSet(NotLeft(n)) /\ Cardinality(NotLeft(n)) \in Nat
        /\ Cardinality(NotLeft(n)') = Cardinality(NotLeft(n)) - 1 /\ IsFiniteSet(NotLeft(n)')
        /\ Cardinality(NotLeft(n)') \in Nat
    <2>1. IsFiniteSet(NotLeft(n))
      BY TeamThreads
    <2>2. IsFiniteSet(NotLeft(n) \ {t}) /\ Cardinality(NotLeft(n) \ {t}) = Cardinality(NotLeft(n)) - 1
      BY <1>7, <2>1, FS_RemoveElement
    <2> QED
      BY <1>8, <2>1, <2>2, FS_CardinalityType
  <1>10. da[n].st = "live" /\ Cardinality(NotLeft(n)) <= da[n].left /\ da[n].left \in 0 .. MaxTeam
         /\ DaShape(da[n])
    BY <1>2, <1>7 DEF DaLoop
  <1>11. /\ DOMAIN da' = DaSeqs /\ \A s \in DaSeqs : s # n => da'[s] = da[s]
         /\ DaShape(da'[n]) /\ da'[n].left = da[n].left - 1 /\ da'[n].waiters = da[n].waiters
         /\ da'[n].st = IF da[n].left = 1 THEN "freed" ELSE "live"
    BY <1>1, <1>2, <1>10 DEF DaShape
  <1>12. DaLoop(n)'
    <2>1. da'[n].left \in 0 .. MaxTeam /\ Cardinality(NotLeft(n)') <= da'[n].left
      BY <1>9, <1>10, <1>11, RegionAssumption
    <2>2. da'[n].st = "freed" => NotLeft(n)' = {}
      <3>1. da'[n].st = "freed" => Cardinality(NotLeft(n)') = 0
        BY <1>9, <1>10, <1>11
      <3> QED
        BY <1>9, <3>1, FS_EmptySet
    <2>3. da'[n].waiters = Cardinality(Waiting(n)')
      BY <1>2, <1>5, <1>11 DEF DaLoop
    <2> QED
      BY <1>11, <2>1, <2>2, <2>3 DEF DaLoop
  <1>13. \A s \in DaSeqs : DaLoop(s)'
    <2> SUFFICES ASSUME NEW s \in DaSeqs, s # n PROVE DaLoop(s)'
      BY <1>12
    <2>1. DaLoop(s) /\ da'[s] = da[s]
      BY <1>11 DEF RegionInv, DaOK
    <2> QED
      BY <1>0, <1>4, <1>5, <2>1 DEF DaLoop, TeamKept
  <1>14. ASSUME NEW q \in Threads, CrossIn(th'[q], team')
         PROVE  da'[th'[q].tls.daseq].st # "none"
    <2>2. q # t
      BY <1>1, <1>14
    <2>3. CrossIn(th[q], team) /\ th'[q].tls.daseq = th[q].tls.daseq
      BY <1>14, <2>2, OthersSame DEF SameThread
    <2>4. D(q) \in DaSeqs /\ da[D(q)].st # "none"
      BY <2>3, CrossSeq DEF RegionInv, DaOK
    <2> QED
      BY <1>11, <2>3, <2>4 DEF D
  <1> QED
    BY <1>11, <1>13, <1>14 DEF DaOK, D

LEMMA MovedPreserves ==
  ASSUME RegionInv, NEW t \in Threads, Moved(t)
  PROVE  RegionInv'
  <1>1. TeamOK' /\ PoolOK'
    BY MovedTeam, MovedPool
  <1>2. DaOK'
    BY DaPlainPreserves, DaBegunPreserves, DaOverPreserves DEF Moved
  <1>3. DOMAIN th' = Threads
    BY DEF Moved, OthersKept
  <1>4. \A s \in Threads : ThShape(th'[s])
    BY OthersSame, ActorSame DEF SameThread
  <1>5. ASSUME NEW s \in Threads, th'[s].team # 0
        PROVE  LocalOK(th'[s], team')
    <2>1. CASE s = t
      BY <2>1, ActorSame
    <2>2. CASE s # t
      BY <1>5, <2>2, OthersSame DEF SameThread, InRegion
    <2> QED
      BY <2>1, <2>2
  <1> QED
    BY <1>1, <1>2, <1>3, <1>4, <1>5 DEF RegionInv, InRegion
-----------------------------------------------------------------------------
(* The pool: fork, take, done and join.                                      *)
\* A thread is in the region, or it is one of those outside.
LEMMA InOrOut ==
  ASSUME RegionInv, NEW t \in Threads
  PROVE  /\ InRegion(t) => th[t].pc \in RegionPcs /\ th[t].pc \notin OutPcs(t)
         /\ ~ InRegion(t) => th[t].pc \in OutPcs(t) /\ th[t].pc \notin RegionPcs
                             /\ th[t].pc \notin SleepPcs
  <1>1. \A p \in RegionPcs : p \notin OutPcs(t)
    BY DEF RegionPcs, LoopPcs, CrossPcs, SleepPcs, OutPcs
  <1>2. \A p \in SleepPcs : p \in RegionPcs
    BY DEF RegionPcs, LoopPcs, CrossPcs
  <1>3. InRegion(t) => th[t].pc \in RegionPcs
    BY DEF RegionInv, LocalOK
  <1>4. ~ InRegion(t) => th[t].pc \in OutPcs(t)
    BY DEF RegionInv, PoolOK, PoolThread, InRegion
  <1> QED
    BY <1>1, <1>2, <1>3, <1>4

LEMMA BusyFinite ==
  ASSUME RegionInv
  PROVE  /\ IsFiniteSet(Busy) /\ Cardinality(Busy) \in Nat
         /\ Cardinality(Busy) <= MaxTeam - 1 /\ \A w \in 1 .. pool.n - 1 : w \in Threads
         /\ (Busy = {} <=> pool.pending = 0)
  <1>1. \A w \in 1 .. pool.n - 1 : w \in 1 .. MaxTeam - 1 /\ w \in Threads
    BY RegionAssumption DEF RegionInv, PoolOK, PoolTyped, Threads
  <1>2. PICK m \in Int : m = MaxTeam - 1 /\ m >= 0
    BY RegionAssumption
  <1>3. IsFiniteSet(1 .. m) /\ Cardinality(1 .. m) = IF 1 > m THEN 0 ELSE m - 1 + 1
    BY FS_Interval
  <1>4. Busy \subseteq 1 .. m
    BY <1>1, <1>2 DEF Busy
  <1>5. IsFiniteSet(Busy) /\ Cardinality(Busy) <= Cardinality(1 .. m)
    BY <1>3, <1>4, FS_Subset
  <1>6. Cardinality(Busy) \in Nat /\ (Busy = {} <=> Cardinality(Busy) = 0)
    BY <1>5, FS_CardinalityType, FS_EmptySet
  <1> QED
    BY <1>1, <1>2, <1>3, <1>5, <1>6 DEF RegionInv, PoolOK

\* Between two regions nobody is in one.
LEMMA BetweenRegions ==
  ASSUME RegionInv, ~ InRegion(0)
  PROVE  ~ team.alive /\ Busy = {} /\ \A t \in Threads : ~ InRegion(t)
  BY DEF RegionInv, PoolOK, PoolThread

\* A worker that is in the region is one the pool waits for.
LEMMA WorkerBusy ==
  ASSUME RegionInv, NEW w \in Threads, w # 0, InRegion(w)
  PROVE  w \in Busy /\ pool.n = team.n /\ th[w].seen = pool.gen /\ ~ Alone
  <1>1. team.alive /\ w < team.n /\ th[w].seen = pool.gen
    BY DEF RegionInv, PoolOK, PoolThread
  <1>2. w \in Nat /\ w >= 1 /\ team.n \in Nat
    BY RegionAssumption DEF Threads, RegionInv, TeamOK
  <1>3. ~ Alone
    BY <1>1, <1>2 DEF Alone
  <1>4. pool.n = team.n
    BY <1>1, <1>3 DEF RegionInv, PoolOK
  <1> QED
    BY <1>1, <1>2, <1>3, <1>4 DEF Busy

LEMMA BasicFacts ==
  ASSUME RegionInv
  PROVE  /\ pool.gen \in Nat /\ pool.n \in 0 .. MaxTeam /\ team.n \in 0 .. MaxTeam
         /\ MaxTeam \in Nat \ {0} /\ team.id \in Nat /\ DOMAIN th = Threads /\ DOMAIN da = DaSeqs
         /\ 0 \in Threads /\ \A t \in Threads : ThShape(th[t]) /\ t \in Nat
  BY RegionAssumption DEF RegionInv, PoolOK, PoolTyped, TeamOK, DaOK, Threads

\* Thread 0 stays or comes outside while nobody else is in a region.
LEMMA ZeroOutside ==
  ASSUME RegionInv, NEW y, th' = [th EXCEPT ![0] = y], ThShape(y), y.team = 0,
         y.pc \in {"idle", "launch"}, y.seen \in Nat, y.seen <= pool.gen,
         \A q \in Threads \ {0} : ~ InRegion(q), Busy = {},
         UNCHANGED <<pool, da>>, TeamShape(team'), team'.id = team.id, team'.alive = FALSE,
         team'.n = team.n, team'.body = team.body, team'.dyn = team.dyn,
         team'.barrived = team.barrived, th[0].pc \notin SleepPcs
  PROVE  RegionInv'
  <1>1. th'[0] = y /\ DOMAIN th' = Threads /\ \A q \in Threads \ {0} : th'[q] = th[q]
    BY BasicFacts
  <1>2. \A q \in Threads : ~ InRegion(q)' /\ ThShape(th'[q])
    BY <1>1, BasicFacts DEF InRegion
  <1>3. TeamOK'
    BY DEF RegionInv, TeamOK
  <1>4. \A q \in Threads : PoolThread(q)'
    <2> SUFFICES ASSUME NEW q \in Threads PROVE PoolThread(q)'
      OBVIOUS
    <2>1. CASE q = 0
      BY <1>1, <1>2, <2>1 DEF PoolThread, OutPcs, InRegion
    <2>2. CASE q # 0
      BY <1>1, <1>2, <2>2 DEF RegionInv, PoolOK, PoolThread
    <2> QED
      BY <2>1, <2>2
  <1>5. Busy' = Busy
    BY <1>1, <1>2, BusyFinite DEF Busy, InRegion
  <1>6. PoolOK'
    BY <1>2, <1>4, <1>5, BasicFacts DEF RegionInv, PoolOK, PoolTyped
  <1>7. \A s \in DaSeqs : Waiting(s)' = Waiting(s)
    <2> TAKE s \in DaSeqs
    <2>1. 0 \notin Waiting(s) /\ 0 \notin Waiting(s)'
      BY <1>1 DEF Waiting, SleepPcs
    <2> QED
      BY <1>1, <2>1 DEF Waiting, D
  <1>8. \A s \in DaSeqs : DaLoop(s)'
    BY <1>7 DEF DaLoop, RegionInv, DaOK
  <1>9. \A q \in Threads : ~ CrossIn(th'[q], team')
    BY <1>2 DEF CrossIn, InRegion
  <1>10. DaOK'
    BY <1>8, <1>9, BasicFacts DEF DaOK
  <1> QED
    BY <1>1, <1>2, <1>3, <1>6, <1>10 DEF RegionInv

LEMMA JoinPreserves ==
  ASSUME RegionInv, Join
  PROVE  RegionInv'
  <1>1. th[0].pc = "start" /\ UNCHANGED <<pool, da>> /\ team' = [team EXCEPT !.alive = FALSE]
        /\ th' = [th EXCEPT ![0] = Thread0("idle")]
    BY DEF Join, Done, At, Put
  <1>2. Busy = {}
    <2>1. CASE Alone
      BY <2>1 DEF RegionInv, PoolOK
    <2>2. CASE pool.pending = 0
      BY <2>2, BusyFinite
    <2> QED
      BY <2>1, <2>2 DEF Join, Joined
  <1>3. \A q \in Threads \ {0} : ~ InRegion(q)
    BY <1>2, WorkerBusy
  <1>y. PICK y : y = Thread0("idle")
    OBVIOUS
  <1>4. ThShape(y) /\ y.team = 0 /\ y.pc = "idle" /\ y.seen = 0 /\ th' = [th EXCEPT ![0] = y]
    BY <1>1, <1>y DEF Thread0, Tls0, ThShape
  <1>5. TeamShape(team)
    BY DEF RegionInv, TeamOK
  <1>6. /\ TeamShape(team') /\ team'.id = team.id /\ team'.alive = FALSE
        /\ team'.n = team.n /\ team'.body = team.body /\ team'.dyn = team.dyn
        /\ team'.barrived = team.barrived
    BY <1>1, <1>5 DEF TeamShape
  <1>7. th[0].pc \notin SleepPcs /\ y.seen \in Nat /\ y.seen <= pool.gen
    BY <1>1, <1>4, BasicFacts DEF SleepPcs
  <1> QED
    BY <1>1, <1>2, <1>3, <1>4, <1>6, <1>7, ZeroOutside

LEMMA KernelPreserves ==
  ASSUME RegionInv, KernelLaunch \/ KernelReturn
  PROVE  RegionInv'
  <1>1. th[0].pc \in {"idle", "launch"} /\ UNCHANGED <<pool, team, da>>
    BY DEF KernelLaunch, KernelReturn, At
  <1>2. ~ InRegion(0)
    BY <1>1, InOrOut, BasicFacts DEF OutPcs
  <1>3. ~ team.alive /\ Busy = {} /\ \A t \in Threads : ~ InRegion(t)
    BY <1>2, BetweenRegions
  <1>4. TeamShape(team) /\ team.alive = FALSE /\ th[0].pc \notin SleepPcs
    BY <1>1, <1>3 DEF RegionInv, TeamOK, SleepPcs
  <1>5. ASSUME NEW y, th' = [th EXCEPT ![0] = y], ThShape(y), y.team = 0,
               y.pc \in {"idle", "launch"}, y.seen \in Nat, y.seen <= pool.gen
        PROVE  RegionInv'
    BY <1>1, <1>3, <1>4, <1>5, ZeroOutside
  <1>6. CASE KernelLaunch
    <2> DEFINE y == [th[0] EXCEPT !.pc = "launch"]
    <2>1. ThShape(th[0]) /\ th[0].team = 0 /\ th[0].seen \in Nat /\ th[0].seen <= pool.gen
      BY <1>2, BasicFacts DEF InRegion, RegionInv, PoolOK, PoolThread
    <2>2. ThShape(y) /\ y.team = 0 /\ y.pc = "launch" /\ y.seen = th[0].seen
      BY <2>1 DEF ThShape
    <2>3. th' = [th EXCEPT ![0] = y]
      BY <1>6 DEF KernelLaunch, Put
    <2> HIDE DEF y
    <2> QED
      BY <1>5, <2>1, <2>2, <2>3
  <1>7. CASE KernelReturn
    <2>y. PICK y : y = Thread0("idle")
      OBVIOUS
    <2>1. ThShape(y) /\ y.team = 0 /\ y.pc = "idle" /\ y.seen = 0
      BY <2>y DEF Thread0, Tls0, ThShape
    <2>2. th' = [th EXCEPT ![0] = y] /\ y.seen \in Nat /\ y.seen <= pool.gen
      BY <1>7, <2>y, <2>1, BasicFacts DEF KernelReturn, Put
    <2> QED
      BY <1>5, <2>1, <2>2
  <1> QED
    BY <1>6, <1>7

\* A step of worker w that leaves the team, the pool's generation and the loops alone.
WorkerStep(w, y) ==
  /\ w # 0 /\ th' = [th EXCEPT ![w] = y] /\ ThShape(y)
  /\ th[w].pc \notin SleepPcs /\ y.pc \notin SleepPcs \cup LoopPcs /\ y.pc # "absent"
  /\ y.seen \in Nat /\ y.seen <= pool.gen
  /\ y.team = 0 => y.pc = "wait"
  /\ y.team # 0 => /\ y.pc = "start" /\ LocalOK(y, team) /\ team.alive /\ y.team = team.id
                    /\ w < team.n /\ y.seen = pool.gen
  /\ team' = team /\ da' = da
  /\ PoolShape(pool') /\ pool'.gen = pool.gen /\ pool'.n = pool.n /\ pool'.team = pool.team
  /\ pool'.pending = Cardinality(Busy') /\ Busy' \subseteq Busy
  /\ \A s \in DaSeqs : team.alive /\ ~ Alone /\ w < team.n => (HasLeft(w, s) => HasLeft(w, s)')

LEMMA WorkerSteps ==
  ASSUME RegionInv, NEW w \in Threads, NEW y, WorkerStep(w, y)
  PROVE  RegionInv'
  <1> USE DEF WorkerStep
  <1>1. th'[w] = y /\ DOMAIN th' = Threads /\ \A q \in Threads \ {w} : th'[q] = th[q]
    BY BasicFacts
  <1>2. \A q \in Threads \ {w} : InRegion(q)' <=> InRegion(q)
    BY <1>1 DEF InRegion
  <1>3. TeamOK' /\ Alone' = Alone
    BY DEF RegionInv, TeamOK, Alone
  <1>4. \A q \in Threads : PoolThread(q)'
    <2> SUFFICES ASSUME NEW q \in Threads PROVE PoolThread(q)'
      OBVIOUS
    <2>1. CASE q = w
      BY <1>1, <2>1 DEF PoolThread, OutPcs, InRegion
    <2>2. CASE q # w
      BY <1>1, <1>2, <2>2 DEF RegionInv, PoolOK, PoolThread
    <2> QED
      BY <2>1, <2>2
  <1>5. PoolOK'
    BY <1>1, <1>2, <1>3, <1>4, BasicFacts DEF RegionInv, PoolOK, PoolTyped
  <1>6. \A s \in DaSeqs : Waiting(s)' = Waiting(s)
    <2> TAKE s \in DaSeqs
    <2>1. w \notin Waiting(s) /\ w \notin Waiting(s)'
      BY <1>1 DEF Waiting
    <2> QED
      BY <1>1, <2>1 DEF Waiting, D
  <1>7. \A q \in Threads \ {w}, s \in DaSeqs : HasLeft(q, s)' <=> HasLeft(q, s)
    BY <1>1, <1>2 DEF HasLeft, D
  <1>8. ASSUME NEW s \in DaSeqs PROVE DaLoop(s)'
    <2>1. DaLoop(s)
      BY DEF RegionInv, DaOK
    <2>2. ASSUME team.alive, ~ Alone
          PROVE  /\ da[s].st = "live" => Cardinality(NotLeft(s)') <= da[s].left
                 /\ da[s].st = "freed" => NotLeft(s)' = {}
      <3>1. NotLeft(s)' \subseteq NotLeft(s)
        <4> SUFFICES ASSUME NEW q \in 0 .. team.n - 1, ~ HasLeft(q, s)' PROVE ~ HasLeft(q, s)
          BY DEF NotLeft
        <4>1. q \in Threads /\ q < team.n
          BY TeamThreads, BasicFacts
        <4> QED
          BY <1>7, <2>2, <4>1
      <3>2. IsFiniteSet(NotLeft(s)) /\ Cardinality(NotLeft(s)) \in Int
        BY TeamThreads
      <3>3. IsFiniteSet(NotLeft(s)') /\ Cardinality(NotLeft(s)') <= Cardinality(NotLeft(s))
        BY <3>1, <3>2, FS_Subset
      <3>4. Cardinality(NotLeft(s)') \in Int
        BY <3>3, FS_CardinalityType
      <3>5. da[s].left \in Int
        BY <2>1, RegionAssumption DEF DaLoop
      <3> QED
        BY <2>1, <2>2, <3>1, <3>2, <3>3, <3>4, <3>5 DEF DaLoop
    <2> QED
      BY <1>3, <1>6, <2>1, <2>2 DEF DaLoop
  <1>9. ASSUME NEW q \in Threads, CrossIn(th'[q], team') PROVE da'[th'[q].tls.daseq].st # "none"
    <2>1. q # w
      BY <1>1, <1>9 DEF CrossIn
    <2> QED
      BY <1>1, <1>9, <2>1 DEF RegionInv, DaOK, D
  <1>10. DaOK'
    BY <1>8, <1>9, BasicFacts DEF DaOK, D
  <1>11. \A q \in Threads : ThShape(th'[q]) /\ (InRegion(q)' => LocalOK(th'[q], team'))
    BY <1>1, <1>2 DEF RegionInv, InRegion
  <1> QED
    BY <1>1, <1>3, <1>5, <1>10, <1>11 DEF RegionInv

LEMMA WorkerTakePreserves ==
  ASSUME RegionInv, NEW w \in Threads, WorkerTake(w)
  PROVE  RegionInv'
  <1> DEFINE x == th[w]
             z == [x EXCEPT !.seen = pool.gen]
             e == Entering(z, pool.team)
  <1>1. x.pc = "wait" /\ pool.gen # x.seen /\ UNCHANGED <<pool, team, da>>
        /\ th' = [th EXCEPT ![w] = IF InTeam(w) THEN e ELSE z]
    BY DEF WorkerTake, At, Put
  <1>2. ~ InRegion(w) /\ w # 0
    BY <1>1, InOrOut DEF RegionPcs, LoopPcs, CrossPcs, SleepPcs, OutPcs
  <1>3. ThShape(x) /\ x.team = 0 /\ PoolShape(pool) /\ pool.gen \in Nat /\ w \in Nat \ {0}
    BY <1>2, BasicFacts DEF InRegion, RegionInv, PoolOK, PoolTyped
  <1>4. ThShape(z) /\ z.seen = pool.gen /\ z.pc = "wait" /\ z.team = 0
    BY <1>1, <1>3 DEF ThShape
  <1> HIDE DEF z
  <1>5. /\ ThShape(e) /\ e.seen = pool.gen /\ e.pc = "start" /\ e.team = pool.team
        /\ e.ip = 1 /\ e.tls.daseq = 0 /\ e.tls.dbase = 0
    BY <1>4 DEF Entering, ThShape, Tls0
  <1> HIDE DEF e
  <1>6. x.pc \notin SleepPcs /\ z.pc \notin SleepPcs /\ e.pc \notin SleepPcs
        /\ z.pc \notin LoopPcs /\ e.pc \notin LoopPcs
    BY <1>1, <1>4, <1>5 DEF SleepPcs, CrossPcs, LoopPcs
  <1>7. \A q \in Threads \ {w} : th'[q] = th[q]
    BY <1>1, BasicFacts
  <1>8. CASE InTeam(w)
    <2>1. w \in 1 .. pool.n - 1 /\ w \in Busy
      BY <1>1, <1>3, <1>8, BasicFacts DEF InTeam, Busy
    <2>2. team.alive /\ ~ Alone /\ pool.n = team.n /\ pool.team = team.id
      BY <2>1 DEF RegionInv, PoolOK
    <2>3. team.id > 0 /\ w < team.n /\ team.id \in Nat /\ team.dyn \in Nat
      BY <1>8, <2>2 DEF RegionInv, TeamOK, InTeam
    <2>4. Len(team.body) \in Nat
      BY <2>2, RegionAssumption DEF RegionInv, TeamOK
    <2>5. LocalOK(e, team)
      BY <1>5, <2>3, <2>4 DEF LocalOK, RegionPcs, LoopPcs, CrossPcs, SleepPcs
    <2>6. th' = [th EXCEPT ![w] = e] /\ th'[w] = e
      BY <1>1, <1>8, BasicFacts
    <2>7. InRegion(w)'
      BY <1>5, <2>2, <2>3, <2>6 DEF InRegion
    <2>8. Busy' = Busy
      BY <1>1, <1>7, <2>1, <2>7, BusyFinite DEF Busy, InRegion
    <2>9. \A s \in DaSeqs : ~ HasLeft(w, s)
      BY <1>1, <1>2 DEF HasLeft
    <2>10. pool.pending = Cardinality(Busy)
      BY DEF RegionInv, PoolOK
    <2>11. PoolShape(pool') /\ pool'.gen = pool.gen /\ pool'.n = pool.n /\ pool'.team = pool.team
           /\ pool'.pending = Cardinality(Busy') /\ Busy' \subseteq Busy
      BY <1>1, <1>3, <2>8, <2>10
    <2>12. /\ e.seen \in Nat /\ e.seen <= pool.gen /\ e.pc # "absent" /\ e.team # 0 /\ e.team = team.id
           /\ e.pc \notin SleepPcs \cup LoopPcs
      BY <1>3, <1>5, <1>6, <2>2, <2>3
    <2>13. WorkerStep(w, e)
      BY <1>1, <1>2, <1>5, <1>6, <2>2, <2>3, <2>5, <2>6, <2>9, <2>11, <2>12 DEF WorkerStep
    <2> QED
      BY <2>13, WorkerSteps
  <1>9. CASE ~ InTeam(w)
    <2>1. th' = [th EXCEPT ![w] = z] /\ th'[w] = z
      BY <1>1, <1>9, BasicFacts
    <2>2. w >= pool.n
      BY <1>3, <1>9, BasicFacts DEF InTeam
    <2>3. Busy' = Busy
      BY <1>1, <1>3, <1>7, <2>2, BusyFinite, BasicFacts DEF Busy, InRegion
    <2>4. team.alive /\ ~ Alone => ~ (w < team.n)
      BY <1>3, <2>2, BasicFacts DEF RegionInv, PoolOK
    <2>5. pool.pending = Cardinality(Busy)
      BY DEF RegionInv, PoolOK
    <2>6. PoolShape(pool') /\ pool'.gen = pool.gen /\ pool'.n = pool.n /\ pool'.team = pool.team
          /\ pool'.pending = Cardinality(Busy') /\ Busy' \subseteq Busy
      BY <1>1, <1>3, <2>3, <2>5
    <2>7. /\ z.seen \in Nat /\ z.seen <= pool.gen /\ z.pc # "absent"
          /\ z.pc \notin SleepPcs \cup LoopPcs
      BY <1>3, <1>4, <1>6
    <2>8. WorkerStep(w, z)
      BY <1>1, <1>2, <1>4, <1>6, <2>1, <2>4, <2>6, <2>7 DEF WorkerStep
    <2> QED
      BY <2>8, WorkerSteps
  <1> QED
    BY <1>8, <1>9

LEMMA WorkerDonePreserves ==
  ASSUME RegionInv, NEW w \in Threads, WorkerDone(w)
  PROVE  RegionInv'
  <1>y. PICK y : y = [Thread0("wait") EXCEPT !.seen = th[w].seen]
    OBVIOUS
  <1>1. w # 0 /\ th[w].pc = "start" /\ UNCHANGED <<team, da>>
        /\ pool' = [pool EXCEPT !.pending = @ - 1] /\ th' = [th EXCEPT ![w] = y]
    BY <1>y DEF WorkerDone, Done, At, Put
  <1>2. InRegion(w)
    BY <1>1, InOrOut DEF OutPcs
  <1>3. w \in Busy /\ pool.n = team.n /\ th[w].seen = pool.gen /\ ~ Alone
    BY <1>1, <1>2, WorkerBusy
  <1>4. ThShape(y) /\ y.seen = th[w].seen /\ y.pc = "wait" /\ y.team = 0
    BY <1>y DEF Thread0, Tls0, ThShape
  <1>5. th'[w] = y /\ \A q \in Threads \ {w} : th'[q] = th[q]
    BY <1>1, BasicFacts
  <1>6. PoolShape(pool) /\ pool.pending = Cardinality(Busy) /\ pool.gen \in Nat
    BY DEF RegionInv, PoolOK, PoolTyped
  <1>7. PoolShape(pool') /\ pool'.gen = pool.gen /\ pool'.n = pool.n /\ pool'.team = pool.team
        /\ pool'.pending = pool.pending - 1
    BY <1>1, <1>6 DEF PoolShape
  <1>8. Busy' = Busy \ {w}
    BY <1>3, <1>4, <1>5, <1>7, BusyFinite DEF Busy, InRegion
  <1>9. pool'.pending = Cardinality(Busy')
    BY <1>3, <1>6, <1>7, <1>8, BusyFinite, FS_RemoveElement
  <1>10. th[w].pc \notin SleepPcs /\ y.pc \notin SleepPcs /\ y.pc \notin LoopPcs
    BY <1>1, <1>4 DEF SleepPcs, CrossPcs, LoopPcs
  <1>11. \A s \in DaSeqs : HasLeft(w, s)'
    BY <1>1, <1>3, <1>4, <1>5, <1>7 DEF HasLeft, InRegion
  <1>12. WorkerStep(w, y)
    BY <1>1, <1>3, <1>4, <1>6, <1>7, <1>8, <1>9, <1>10, <1>11 DEF WorkerStep
  <1> QED
    BY <1>12, WorkerSteps

LEMMA ForkPreserves ==
  ASSUME RegionInv, NEW r \in Regions, Fork(r)
  PROVE  RegionInv'
  <1> DEFINE id == team.id + 1
  <1>1. ~ InRegion(0) /\ th[0].pc = "idle"
    BY InOrOut, BasicFacts DEF Fork, At, RegionPcs, LoopPcs, CrossPcs, SleepPcs
  <1>2. ~ team.alive /\ Busy = {} /\ \A t \in Threads : ~ InRegion(t)
    BY <1>1, BetweenRegions
  <1>3. r.n \in 1 .. MaxTeam /\ MaxTeam \in Nat /\ Len(r.body) \in Nat
    BY RegionAssumption
  <1>4. /\ TeamShape(team') /\ team'.id = id /\ team'.alive = TRUE /\ team'.n = r.n
        /\ team'.body = r.body /\ team'.dyn = 0 /\ team'.barrived = 0
    BY DEF Fork, NoTeam, TeamShape
  <1>5. TeamOK'
    <2>1. id \in Nat /\ id > 0
      BY BasicFacts
    <2>2. \E q \in Regions : team'.n = q.n /\ team'.body = q.body
      BY <1>4
    <2>3. TeamShape(team') /\ team'.id \in Nat /\ team'.id > 0
      BY <1>4, <2>1
    <2>4. team'.alive \in BOOLEAN
      BY <1>4
    <2>5. team'.n \in 0 .. MaxTeam /\ team'.dyn \in Nat /\ team'.barrived \in Nat /\ team'.barrived = 0
      BY <1>3, <1>4
    <2> QED
      BY <2>2, <2>3, <2>4, <2>5 DEF TeamOK
  <1>6. ThShape(th[0]) /\ th[0].seen \in Nat /\ th[0].seen <= pool.gen
    BY BasicFacts DEF RegionInv, PoolOK, PoolThread
  <1>7. th'[0] = Entering(th[0], id) /\ DOMAIN th' = Threads
    BY BasicFacts DEF Fork
  <1>8. /\ ThShape(th'[0]) /\ th'[0].seen = th[0].seen /\ th'[0].pc = "start" /\ th'[0].team = id
        /\ th'[0].ip = 1 /\ th'[0].tls.daseq = 0 /\ th'[0].tls.dbase = 0
    BY <1>6, <1>7 DEF Entering, ThShape, Tls0
  <1>9. ASSUME NEW w \in Threads, w # 0
        PROVE  /\ ThShape(th'[w]) /\ th'[w].team = 0 /\ th'[w].pc \in OutPcs(w)
               /\ th'[w].seen \in Nat /\ th'[w].seen <= pool.gen
               /\ th'[w].pc = "absent" => w >= pool.n /\ w >= r.n
    <2>1. ThShape(th[w]) /\ th[w].team = 0 /\ th[w].pc \in OutPcs(w)
          /\ th[w].seen \in Nat /\ th[w].seen <= pool.gen
          /\ (th[w].pc = "absent" => w >= pool.n)
      BY <1>2 DEF RegionInv, PoolOK, PoolThread, InRegion
    <2>2. CASE w \in 1 .. r.n - 1 /\ th[w].pc = "absent"
      <3>1. th'[w] = Thread0("wait")
        BY <1>9, <2>2 DEF Fork, At
      <3> QED
        BY <1>9, <3>1, BasicFacts DEF Thread0, Tls0, ThShape, OutPcs
    <2>3. CASE ~ (w \in 1 .. r.n - 1 /\ th[w].pc = "absent")
      <3>1. th'[w] = th[w]
        BY <1>9, <2>3 DEF Fork, At
      <3>2. w \in Nat \ {0}
        BY <1>9, BasicFacts
      <3> QED
        BY <1>3, <2>1, <2>3, <3>1, <3>2
    <2> QED
      BY <2>2, <2>3
  <1>10. \A t \in Threads : (InRegion(t)' <=> t = 0)
    BY <1>8, <1>9, BasicFacts DEF InRegion
  <1>11. /\ PoolShape(pool') /\ pool'.gen \in Nat /\ pool'.gen >= pool.gen
         /\ r.n = 1 => pool' = pool
         /\ r.n # 1 => /\ pool'.gen = pool.gen + 1 /\ pool'.n = r.n /\ pool'.team = id
                       /\ pool'.pending = r.n - 1
    <2>1. CASE r.n = 1
      BY <2>1 DEF Fork, RegionInv, PoolOK, PoolTyped
    <2>2. CASE r.n # 1
      BY <2>2, BasicFacts DEF Fork, PoolShape
    <2> QED
      BY <2>1, <2>2
  <1>12. \A t \in Threads : PoolThread(t)'
    <2> SUFFICES ASSUME NEW t \in Threads PROVE PoolThread(t)'
      OBVIOUS
    <2>0. pool.gen \in Nat /\ team.id \in Nat
      BY BasicFacts
    <2>1. CASE t = 0
      BY <1>3, <1>4, <1>6, <1>8, <1>11, <2>0, <2>1, SMTT(30) DEF PoolThread, OutPcs, InRegion
    <2>2. CASE t # 0
      BY <1>9, <1>10, <1>11, <2>0, <2>2 DEF PoolThread, InRegion
    <2> QED
      BY <2>1, <2>2
  <1>13. pool'.pending = Cardinality(Busy') /\ (Busy' # {} => ~ Alone') /\ pool'.n \in 0 .. MaxTeam
    <2>1. CASE r.n = 1
      <3>1. \A w \in 1 .. pool.n - 1 : w \in Threads /\ w # 0 /\ th[w].seen = pool.gen
        BY <1>2, BusyFinite DEF Busy
      <3>2. \A w \in 1 .. pool.n - 1 : th'[w] = th[w]
        BY <2>1, <3>1 DEF Fork
      <3>3. Busy' = {}
        BY <1>10, <1>11, <2>1, <3>1, <3>2 DEF Busy
      <3> QED
        BY <1>2, <1>11, <2>1, <3>3, BasicFacts DEF RegionInv, PoolOK
    <2>2. CASE r.n # 1
      <3>1. \A w \in 1 .. r.n - 1 : w \in Threads /\ w # 0
        BY <1>3 DEF Threads
      <3>2. \A w \in 1 .. r.n - 1 : th'[w].seen # pool.gen + 1
        BY <1>9, <3>1, BasicFacts
      <3>3. Busy' = 1 .. r.n - 1
        BY <1>11, <2>2, <3>2 DEF Busy
      <3>4. PICK m \in Int : m = r.n - 1
        BY <1>3
      <3>5. Cardinality(1 .. m) = IF 1 > m THEN 0 ELSE m - 1 + 1
        BY FS_Interval
      <3>6. Cardinality(1 .. m) = r.n - 1
        BY <1>3, <2>2, <3>4, <3>5
      <3> QED
        BY <1>3, <1>4, <1>11, <2>2, <3>3, <3>4, <3>6 DEF Alone
    <2> QED
      BY <2>1, <2>2
  <1>14. PoolOK'
    <2>1. team'.alive <=> InRegion(0)'
      BY <1>4, <1>10, BasicFacts
    <2>2. ~ Alone' => pool'.n = team'.n /\ pool'.team = team'.id
      BY <1>4, <1>11 DEF Alone
    <2> QED
      BY <1>4, <1>11, <1>12, <1>13, <2>1, <2>2 DEF PoolOK, PoolTyped
  <1>15. \A t \in Threads : ThShape(th'[t]) /\ (InRegion(t)' => LocalOK(th'[t], team'))
    <2>1. LocalOK(th'[0], team')
      BY <1>3, <1>4, <1>8 DEF LocalOK, RegionPcs, LoopPcs, CrossPcs, SleepPcs
    <2> QED
      BY <1>8, <1>9, <1>10, <2>1
  <1>16. DaOK'
    <2>1. \A t \in Threads : th'[t].pc \notin SleepPcs /\ ~ CrossIn(th'[t], team')
      BY <1>8, <1>9, BasicFacts DEF CrossIn, SleepPcs, CrossPcs, LoopPcs, OutPcs
    <2>2. \A s \in DaSeqs : Waiting(s)' = {}
      BY <2>1 DEF Waiting
    <2>3. da' = [s \in DaSeqs |-> NoDa]
      BY DEF Fork
    <2>4. ASSUME NEW s \in DaSeqs PROVE DaLoop(s)'
      <3>1. DaShape(da'[s]) /\ da'[s].st = "none" /\ da'[s].left = 0 /\ da'[s].waiters = 0
        BY <2>3, <2>4 DEF NoDa, DaShape
      <3>2. da'[s].waiters = Cardinality(Waiting(s)')
        BY <2>2, <2>4, <3>1, FS_EmptySet
      <3> QED
        BY <1>3, <3>1, <3>2 DEF DaLoop
    <2> QED
      BY <2>1, <2>3, <2>4 DEF DaOK
  <1> QED
    BY <1>5, <1>7, <1>14, <1>15, <1>16 DEF RegionInv
-----------------------------------------------------------------------------
(* The invariant of a run, and what it implies.                              *)
LEMMA RegionInit ==
  ASSUME Init
  PROVE  RegionInv
  <1>1. /\ pool = [gen |-> 0, pending |-> 0, n |-> 0, team |-> 0] /\ team = NoTeam
        /\ da = [s \in DaSeqs |-> NoDa]
        /\ th = [t \in Threads |-> Thread0(IF t = 0 THEN "idle" ELSE "absent")]
    BY DEF Init
  <1>2. MaxTeam \in Nat /\ 0 \in Threads /\ \A t \in Threads : t \in Nat
    BY RegionAssumption DEF Threads
  <1>3. ASSUME NEW t \in Threads
        PROVE  /\ ThShape(th[t]) /\ th[t].team = 0 /\ th[t].seen = 0 /\ th[t].pc \in OutPcs(t)
               /\ th[t].pc \notin SleepPcs
    <2>1. th[t] = Thread0(IF t = 0 THEN "idle" ELSE "absent")
      BY <1>1
    <2> QED
      BY <2>1 DEF Thread0, Tls0, ThShape, OutPcs, SleepPcs
  <1>4. PoolShape(pool) /\ pool.gen = 0 /\ pool.pending = 0 /\ pool.n = 0
    BY <1>1 DEF PoolShape
  <1>5. TeamShape(team) /\ team.id = 0 /\ team.alive = FALSE /\ team.n = 0 /\ team.dyn = 0
        /\ team.barrived = 0
    BY <1>1 DEF NoTeam, TeamShape
  <1>6. TeamOK
    <2>1. team.alive \in BOOLEAN
      BY <1>5
    <2>2. ~ team.alive
      BY <1>5
    <2>3. /\ TeamShape(team) /\ team.id \in Nat /\ team.n \in 0 .. MaxTeam /\ team.dyn \in Nat
          /\ team.barrived \in Nat /\ team.barrived = 0
      BY <1>2, <1>5
    <2> QED
      BY <2>1, <2>2, <2>3 DEF TeamOK
  <1>7. \A t \in Threads : ~ InRegion(t) /\ PoolThread(t)
    BY <1>2, <1>3, <1>4 DEF InRegion, PoolThread
  <1>8. Busy = {}
    BY <1>4 DEF Busy
  <1>9. PoolOK
    BY <1>2, <1>4, <1>5, <1>7, <1>8, FS_EmptySet DEF PoolOK, PoolTyped
  <1>10. \A s \in DaSeqs : Waiting(s) = {}
    BY <1>3 DEF Waiting
  <1>11. ASSUME NEW s \in DaSeqs PROVE DaLoop(s)
    <2>1. DaShape(da[s]) /\ da[s].st = "none" /\ da[s].left = 0 /\ da[s].waiters = 0
      BY <1>1, <1>11 DEF NoDa, DaShape
    <2>2. da[s].waiters = Cardinality(Waiting(s))
      BY <1>10, <1>11, <2>1, FS_EmptySet
    <2> QED
      BY <1>2, <2>1, <2>2 DEF DaLoop
  <1>12. DaOK
    BY <1>1, <1>3, <1>11 DEF DaOK, CrossIn
  <1> QED
    BY <1>1, <1>3, <1>6, <1>7, <1>9, <1>12 DEF RegionInv

LEMMA RegionUnchanged ==
  ASSUME RegionInv, UNCHANGED <<pool, team, da, th>>
  PROVE  RegionInv'
  <1>1. TeamOK'
    BY DEF RegionInv, TeamOK
  <1>2. Busy' = Busy
    BY DEF Busy, InRegion
  <1>3. PoolOK'
    BY <1>2 DEF RegionInv, PoolOK, PoolTyped, PoolThread, InRegion, Alone
  <1>4. \A s \in DaSeqs : Waiting(s)' = Waiting(s) /\ NotLeft(s)' = NotLeft(s)
    BY DEF Waiting, NotLeft, HasLeft, InRegion, D
  <1>5. DaOK'
    BY <1>4 DEF RegionInv, DaOK, DaLoop, D, Alone
  <1> QED
    BY <1>1, <1>3, <1>5 DEF RegionInv, InRegion

LEMMA RegionNext ==
  ASSUME RegionInv, Next
  PROVE  RegionInv'
  <1>1. ASSUME NEW r \in Regions, Fork(r) PROVE RegionInv'
    BY <1>1, ForkPreserves
  <1>2. CASE KernelLaunch \/ KernelReturn
    BY <1>2, KernelPreserves
  <1>3. ASSUME NEW t \in Threads, ThreadStep(t) PROVE RegionInv'
    <2>1. CASE Worksharing(t) \/ Iterations(t)
      BY <2>1, WithinRegion, MovedPreserves
    <2>2. CASE WorkerTake(t)
      BY <2>2, WorkerTakePreserves
    <2>3. CASE WorkerDone(t)
      BY <2>3, WorkerDonePreserves
    <2>4. CASE t = 0 /\ Join
      BY <2>4, JoinPreserves
    <2> QED
      BY <1>3, <2>1, <2>2, <2>3, <2>4 DEF ThreadStep
  <1>4. CASE KernelStep
    BY <1>4, RegionUnchanged DEF KernelStep
  <1> QED
    BY <1>1, <1>2, <1>3, <1>4 DEF Next, Step

\* The invariant of the pool, the team and its loops, and that of the launch, in
\* every run.
THEOREM RegionInvariant == Spec => [](RegionInv /\ LaunchInv)
  <1>1. Init => RegionInv /\ LaunchInv
    BY RegionInit, GroupInitInv, ZeroIsThread DEF Init, LaunchInv, GroupInit, ThreadZero
  <1>2. RegionInv /\ LaunchInv /\ [Next]_vars => (RegionInv /\ LaunchInv)'
    <2> SUFFICES ASSUME RegionInv, LaunchInv, [Next]_vars PROVE RegionInv' /\ LaunchInv'
      OBVIOUS
    <2>1. CASE Next
      BY <2>1, LaunchNext, RegionNext
    <2>2. CASE UNCHANGED vars
      BY <2>2, GroupUnchanged, RegionUnchanged DEF vars, LaunchInv, groupVars
    <2> QED
      BY <2>1, <2>2
  <1> QED
    BY <1>1, <1>2, PTL DEF Spec

\* A team outlives every thread in it, only its own threads are in it, and a
\* doacross loop is not freed while a thread is in it or still to come
\* (pool/runtime.c:150, omp/runtime.c:224).
THEOREM TeamOutlives == Spec => []TeamAlive
  <1>1. RegionInv => TeamAlive
    <2> SUFFICES ASSUME RegionInv, NEW t \in Threads, InRegion(t)
                 PROVE  /\ team.alive /\ th[t].team = team.id /\ t < team.n
                        /\ InLoop(t) /\ Crossing(t) => da[D(t)].st = "live"
      BY DEF TeamAlive
    <2>1. team.alive /\ th[t].team = team.id /\ t < team.n
      BY DEF RegionInv, PoolOK, PoolThread
    <2>2. ASSUME InLoop(t), Crossing(t) PROVE da[D(t)].st = "live"
      <3>1. th[t].pc \in LoopPcs
        BY <2>2, InOrOut DEF InLoop, RegionPcs
      <3>2. CrossIn(th[t], team)
        BY <2>2, <3>1 DEF CrossIn, InRegion, Crossing, Construct1, Alone
      <3>3. D(t) \in DaSeqs /\ ~ Alone /\ da[D(t)].st # "none" /\ DaLoop(D(t))
        BY <3>2, CrossSeq DEF RegionInv, DaOK
      <3>4. t \in NotLeft(D(t))
        <4>1. t \in 0 .. team.n - 1
          BY <2>1, BasicFacts
        <4>2. D(t) \in Nat
          BY DEF RegionInv, LocalOK, D
        <4> QED
          BY <3>2, <4>1, <4>2 DEF NotLeft, HasLeft
      <3> QED
        BY <2>1, <3>3, <3>4 DEF DaLoop
    <2> QED
      BY <2>1, <2>2
  <1> QED
    BY <1>1, RegionInvariant, PTL

\* The counters stay in range, and no thread comes to the trap of
\* __cccc_omp_loop_next: the team's counter is never below the base of a loop.
THEOREM RegionTypeCorrect == Spec => []TypeOK
  <1>1. RegionInv /\ LaunchInv => TypeOK
    <2> SUFFICES ASSUME RegionInv, LaunchInv PROVE TypeOK
      OBVIOUS
    <2>1. pool.pending \in 0 .. MaxTeam - 1
      BY BusyFinite, RegionAssumption DEF RegionInv, PoolOK
    <2>2. team.barrived \in 0 .. Max({0, team.n - 1})
      <3>1. team.n - 1 \in Int /\ 0 \in Int /\ team.barrived \in Nat
            /\ (team.barrived = 0 \/ team.barrived < team.n)
        BY RegionAssumption DEF RegionInv, TeamOK
      <3>2. Max({0, team.n - 1}) \in {0, team.n - 1} /\ Max({0, team.n - 1}) >= 0
            /\ Max({0, team.n - 1}) >= team.n - 1
        BY <3>1, MaxTwo, Zenon
      <3>3. PICK m : m = Max({0, team.n - 1})
        OBVIOUS
      <3>4. m \in Int /\ m >= 0 /\ m >= team.n - 1
        BY <3>1, <3>2, <3>3
      <3>5. team.n \in Int
        BY RegionAssumption DEF RegionInv, TeamOK
      <3>6. team.barrived \in 0 .. m
        BY <3>1, <3>4, <3>5
      <3> QED
        BY <3>3, <3>6
    <2>3. ASSUME NEW t \in Threads
          PROVE  th[t].pc \in
            {"absent", "wait", "idle", "launch", "start", "bar", "barred", "get", "single", "next",
             "claim", "iter", "obegin", "oregion", "sink", "sinktest", "asleep", "woken", "source",
             "crossed", "post", "posted"}
      BY InOrOut DEF RegionPcs, LoopPcs, CrossPcs, SleepPcs, OutPcs
    <2>4. ASSUME NEW s \in DaSeqs
          PROVE  da[s].waiters \in 0 .. MaxTeam /\ da[s].left \in 0 .. MaxTeam
      <3>1. DaLoop(s) /\ team.n \in 0 .. MaxTeam /\ MaxTeam \in Nat
        BY <2>4, RegionAssumption DEF RegionInv, DaOK, TeamOK
      <3>2. Cardinality(Waiting(s)) \in 0 .. MaxTeam /\ Cardinality(NotLeft(s)) \in 0 .. team.n
        BY TeamThreads
      <3> QED
        BY <3>1, <3>2 DEF DaLoop
    <2>5. bar.n \in 0 .. MaxItems /\ bar.waiting \in 0 .. MaxItems
      <3>1. IsFiniteSet(1 .. launch.items) /\ Cardinality(1 .. launch.items) = launch.items
            /\ launch.items \in 0 .. MaxItems
        <4>1. launch.items \in 0 .. MaxItems /\ MaxItems \in Nat
          BY GroupAssumption DEF LaunchInv, GroupInv, GroupTyped
        <4>2. PICK k \in Nat : k = launch.items
          BY <4>1
        <4>3. IsFiniteSet(1 .. k) /\ Cardinality(1 .. k) = k
          BY FS_Interval
        <4> QED
          BY <4>1, <4>2, <4>3, Zenon
      <3>2. Live \subseteq 1 .. launch.items /\ Held \subseteq 1 .. launch.items
        BY DEF Live, Held
      <3>3. Cardinality(Live) <= launch.items /\ Cardinality(Held) <= launch.items
        <4>1. PICK all : all = 1 .. launch.items
          OBVIOUS
        <4>2. IsFiniteSet(all) /\ Live \subseteq all /\ Held \subseteq all
          BY <3>1, <3>2, <4>1
        <4>3. Cardinality(Live) <= Cardinality(all)
          BY <4>2, FS_Subset
        <4>4. Cardinality(Held) <= Cardinality(all)
          BY <4>2, FS_Subset
        <4> QED
          BY <3>1, <4>1, <4>3, <4>4
      <3>4. bar.n = Cardinality(Live) /\ bar.waiting = Cardinality(Held)
            /\ bar.n \in Nat /\ bar.waiting \in Nat
        BY HeldFinite DEF LaunchInv, GroupInv
      <3> QED
        BY <3>1, <3>3, <3>4, GroupAssumption
    <2> QED
      BY <2>1, <2>2, <2>3, <2>4, <2>5 DEF TypeOK
  <1> QED
    BY <1>1, RegionInvariant, PTL
=============================================================================
