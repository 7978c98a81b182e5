--------------------------- MODULE OmpTasksProofs ---------------------------
(***************************************************************************)
(* The steps of OmpTasks that link tasks by their dependences, its          *)
(* invariant, and what follows from it and from what is known of ancestry,  *)
(* taskgroups and dependences.                                              *)
(***************************************************************************)
EXTENDS OmpTasksSteps
-----------------------------------------------------------------------------
(* A task is linked into the graph of its parent.                            *)
DepT == [writer : Tasks \cup {None}, readers : Seq(Tasks), pred : SUBSET (Tasks \cup {None}),
         drop : Seq(Tasks), add : Nat]

\* The entry of a dependence as a list of references.
LEMMA EntryIs ==
  ASSUME NEW r, r.writer \in Tasks \cup {None}, r.readers \in Seq(Tasks)
  PROVE  /\ DepRefs(r) \in Seq(Tasks)
         /\ \A y : (Names(DepRefs(r), y) <=> Names(r.readers, y) \/ (r.writer # None /\ r.writer = y))
         /\ \A y : Occ(DepRefs(r), y) = Occ(r.readers, y) + IF r.writer # None /\ r.writer = y THEN 1 ELSE 0
         /\ \A y : Occ(r.readers, y) \in Nat
  <1>0. PICK w \in Tasks \cup {None}, rs \in Seq(Tasks) : w = r.writer /\ rs = r.readers
    OBVIOUS
  <1> DEFINE u == IF w = None THEN <<>> ELSE <<w>>
  <1>1. DepRefs(r) = rs \o u
    BY <1>0 DEF DepRefs
  <1>2. u \in Seq(Tasks) /\ \A y : Occ(u, y) = IF w # None /\ w = y THEN 1 ELSE 0
    BY EmptySeq, OccEmpty, OccOne
  <1> HIDE DEF u
  <1>3. \A y : Occ(rs, y) \in Nat /\ Occ(u, y) \in Nat /\ Occ(rs \o u, y) = Occ(rs, y) + Occ(u, y)
    BY <1>2, OccIs, OccConcat
  <1>4. DepRefs(r) \in Seq(Tasks)
    BY <1>1, <1>2, ConcatProperties
  <1>5. ASSUME NEW y
        PROVE  Names(DepRefs(r), y) <=> Names(rs, y) \/ (w # None /\ w = y)
    <2>1. Names(DepRefs(r), y) <=> Occ(DepRefs(r), y) # 0
      BY <1>4, OccIs DEF Names
    <2>2. Names(rs, y) <=> Occ(rs, y) # 0
      BY OccIs DEF Names
    <2>3. PICK n \in Nat : n = Occ(rs, y)
      BY <1>3
    <2>4. Occ(DepRefs(r), y) = n + IF w # None /\ w = y THEN 1 ELSE 0
      BY <1>1, <1>2, <1>3, <2>3
    <2> QED
      BY <2>1, <2>2, <2>3, <2>4
  <1> QED
    BY <1>0, <1>1, <1>2, <1>3, <1>4, <1>5

\* What x waits for and what is dropped, as the dependences of x are added to
\* the entry of its parent r: every reference is kept, dropped or one of x.
DepOK(d, r, x) ==
  /\ d \in DepT
  /\ \A y : Names(DepRefs(d), y) => (y = x /\ Tracked(x)) \/ Names(DepRefs(r), y)
  /\ \A y \in d.pred : y = None \/ y = x \/ Names(DepRefs(r), y)
  /\ d.pred # {} => Tracked(x)
  /\ \A y : Occ(DepRefs(d), y) + Occ(d.drop, y) = Occ(DepRefs(r), y) + IF y = x THEN d.add ELSE 0

LEMMA AddReader ==
  ASSUME NEW d \in DepT, NEW x \in Tasks, NEW kind, kind # "out"
  PROVE  /\ AddDep(d, kind, x) \in DepT
         /\ AddDep(d, kind, x).writer = d.writer /\ AddDep(d, kind, x).readers = Append(d.readers, x)
         /\ AddDep(d, kind, x).pred = d.pred \cup {d.writer} /\ AddDep(d, kind, x).drop = d.drop
         /\ AddDep(d, kind, x).add = d.add + 1
  <1>1. d.pred \in SUBSET (Tasks \cup {None}) /\ d.writer \in Tasks \cup {None} /\ d.readers \in Seq(Tasks)
        /\ d.add \in Nat
    BY DEF DepT
  <1>2. PICK P \in SUBSET (Tasks \cup {None}) : P = d.pred \cup {d.writer}
    BY <1>1
  <1>3. PICK q \in Seq(Tasks) : q = Append(d.readers, x)
    BY <1>1, AppendProperties
  <1>4. PICK n \in Nat : n = d.add + 1
    BY <1>1
  <1>5. PICK e : e = AddDep(d, kind, x)
    OBVIOUS
  <1>6. e = [d EXCEPT !.readers = q, !.pred = P, !.add = n]
    BY <1>2, <1>3, <1>4, <1>5 DEF AddDep
  <1>7. e \in DepT /\ e.writer = d.writer /\ e.readers = q /\ e.pred = P /\ e.drop = d.drop /\ e.add = n
    BY <1>6 DEF DepT
  <1> QED
    BY <1>2, <1>3, <1>4, <1>5, <1>7

LEMMA AddReaderOK ==
  ASSUME NEW r, DepRefs(r) \in Seq(Tasks), NEW x \in Tasks, Tracked(x), NEW d, DepOK(d, r, x), NEW kind, kind # "out"
  PROVE  DepOK(AddDep(d, kind, x), r, x)
  <1>1. d \in DepT
    BY DEF DepOK
  <1>2. PICK e : e = AddDep(d, kind, x)
    OBVIOUS
  <1>3. /\ e \in DepT /\ e.writer = d.writer /\ e.readers = Append(d.readers, x)
        /\ e.pred = d.pred \cup {d.writer} /\ e.drop = d.drop /\ e.add = d.add + 1
    BY <1>1, <1>2, AddReader
  <1>4. d.writer \in Tasks \cup {None} /\ d.readers \in Seq(Tasks) /\ d.add \in Nat /\ d.drop \in Seq(Tasks)
    BY <1>1 DEF DepT
  <1>5. e.readers \in Seq(Tasks) /\ e.writer \in Tasks \cup {None}
    BY <1>3 DEF DepT
  <1>6. /\ \A y : (Names(DepRefs(d), y) <=> Names(d.readers, y) \/ (d.writer # None /\ d.writer = y))
        /\ \A y : Occ(DepRefs(d), y) = Occ(d.readers, y) + IF d.writer # None /\ d.writer = y THEN 1 ELSE 0
        /\ \A y : Occ(d.readers, y) \in Nat
    BY <1>4, EntryIs
  <1>7. /\ \A y : (Names(DepRefs(e), y) <=> Names(e.readers, y) \/ (e.writer # None /\ e.writer = y))
        /\ \A y : Occ(DepRefs(e), y) = Occ(e.readers, y) + IF e.writer # None /\ e.writer = y THEN 1 ELSE 0
        /\ \A y : Occ(e.readers, y) \in Nat
    BY <1>5, EntryIs
  <1>8. \A y : Occ(e.readers, y) = Occ(d.readers, y) + IF x = y THEN 1 ELSE 0
    BY <1>3, <1>4, OccAppend
  <1>9. \A y : Names(e.readers, y) => Names(d.readers, y) \/ y = x
    <2>1. \A y : Names(e.readers, y) <=> Occ(e.readers, y) # 0
      BY <1>5, OccIs DEF Names
    <2>2. \A y : Names(d.readers, y) <=> Occ(d.readers, y) # 0
      BY <1>4, OccIs DEF Names
    <2> QED
      BY <1>6, <1>8, <2>1, <2>2
  <1>10. \A y : Names(DepRefs(e), y) => (y = x /\ Tracked(x)) \/ Names(DepRefs(r), y)
    <2>1. \A y : Names(DepRefs(e), y) => Names(DepRefs(d), y) \/ y = x
      BY <1>3, <1>6, <1>7, <1>9
    <2> QED
      BY <2>1 DEF DepOK
  <1>11. \A y \in e.pred : y = None \/ y = x \/ Names(DepRefs(r), y)
    <2>1. d.writer = None \/ Names(DepRefs(d), d.writer)
      BY <1>6
    <2> QED
      BY <1>3, <2>1 DEF DepOK
  <1>12. ASSUME NEW y
         PROVE  Occ(DepRefs(e), y) + Occ(e.drop, y) = Occ(DepRefs(r), y) + IF y = x THEN e.add ELSE 0
    <2>1. PICK a \in Nat : a = Occ(d.readers, y)
      BY <1>6
    <2>2. PICK b \in Nat : b = IF d.writer # None /\ d.writer = y THEN 1 ELSE 0
      OBVIOUS
    <2>3. PICK c \in Nat : c = Occ(d.drop, y)
      BY <1>4, OccIs
    <2>4. PICK k \in Nat : k = Occ(DepRefs(r), y)
      BY OccIs
    <2>5. PICK m \in Nat : m = d.add
      BY <1>4
    <2>6. Occ(DepRefs(d), y) = a + b
      BY <1>6, <2>1, <2>2
    <2>7. (a + b) + c = k + IF y = x THEN m ELSE 0
      BY <2>3, <2>4, <2>5, <2>6 DEF DepOK
    <2>8. Occ(DepRefs(e), y) = (a + IF x = y THEN 1 ELSE 0) + b
      BY <1>3, <1>7, <1>8, <2>1, <2>2
    <2>9. Occ(e.drop, y) = c /\ e.add = m + 1
      BY <1>3, <2>3, <2>5
    <2>10. CASE y = x
      BY <2>4, <2>7, <2>8, <2>9, <2>10
    <2>11. CASE y # x
      BY <2>4, <2>7, <2>8, <2>9, <2>11
    <2> QED
      BY <2>10, <2>11
  <1>13. DepOK(e, r, x)
    BY <1>3, <1>10, <1>11, <1>12 DEF DepOK
  <1> QED
    BY <1>2, <1>13

LEMMA AddWriter ==
  ASSUME NEW d \in DepT, DepRefs(d) \in Seq(Tasks), NEW x \in Tasks
  PROVE  /\ AddDep(d, "out", x) \in DepT
         /\ AddDep(d, "out", x).writer = x /\ AddDep(d, "out", x).readers = <<>>
         /\ AddDep(d, "out", x).pred = d.pred \cup (IF d.readers = <<>> THEN {d.writer} ELSE ToSet(d.readers))
         /\ AddDep(d, "out", x).drop = d.drop \o DepRefs(d) /\ AddDep(d, "out", x).add = d.add + 1
  <1>1. d.pred \in SUBSET (Tasks \cup {None}) /\ d.writer \in Tasks \cup {None} /\ d.readers \in Seq(Tasks)
        /\ d.drop \in Seq(Tasks) /\ d.add \in Nat
    BY DEF DepT
  <1>2. ToSet(d.readers) \subseteq Tasks
    BY <1>1, ElementOfSeq, LenProperties DEF ToSet
  <1>3. PICK P \in SUBSET (Tasks \cup {None}) : P = d.pred \cup (IF d.readers = <<>> THEN {d.writer} ELSE ToSet(d.readers))
    BY <1>1, <1>2
  <1>4. PICK D \in Seq(Tasks) : D = d.drop \o DepRefs(d)
    BY <1>1, ConcatProperties
  <1>5. PICK n \in Nat : n = d.add + 1
    BY <1>1
  <1>6. PICK e : e = AddDep(d, "out", x)
    OBVIOUS
  <1>7. e = [writer |-> x, readers |-> <<>>, pred |-> P, drop |-> D, add |-> n]
    BY <1>3, <1>4, <1>5, <1>6 DEF AddDep
  <1>8. e \in DepT /\ e.writer = x /\ e.readers = <<>> /\ e.pred = P /\ e.drop = D /\ e.add = n
    BY <1>7, EmptySeq DEF DepT
  <1> QED
    BY <1>3, <1>4, <1>5, <1>6, <1>8

LEMMA AddWriterOK ==
  ASSUME NEW r, DepRefs(r) \in Seq(Tasks), NEW x \in Tasks, Tracked(x), NEW d, DepOK(d, r, x)
  PROVE  DepOK(AddDep(d, "out", x), r, x)
  <1>1. d \in DepT
    BY DEF DepOK
  <1>2. d.writer \in Tasks \cup {None} /\ d.readers \in Seq(Tasks) /\ d.add \in Nat /\ d.drop \in Seq(Tasks)
    BY <1>1 DEF DepT
  <1>3. /\ DepRefs(d) \in Seq(Tasks)
        /\ \A y : (Names(DepRefs(d), y) <=> Names(d.readers, y) \/ (d.writer # None /\ d.writer = y))
    BY <1>2, EntryIs
  <1>4. PICK e : e = AddDep(d, "out", x)
    OBVIOUS
  <1>5. /\ e \in DepT /\ e.writer = x /\ e.readers = <<>>
        /\ e.pred = d.pred \cup (IF d.readers = <<>> THEN {d.writer} ELSE ToSet(d.readers))
        /\ e.drop = d.drop \o DepRefs(d) /\ e.add = d.add + 1
    BY <1>1, <1>3, <1>4, AddWriter
  <1>6. e.writer \in Tasks \cup {None} /\ e.readers \in Seq(Tasks)
    BY <1>5 DEF DepT
  <1>7. /\ \A y : (Names(DepRefs(e), y) <=> Names(e.readers, y) \/ (e.writer # None /\ e.writer = y))
        /\ \A y : Occ(DepRefs(e), y) = Occ(e.readers, y) + IF e.writer # None /\ e.writer = y THEN 1 ELSE 0
    BY <1>6, EntryIs
  <1>8. \A y : Names(DepRefs(e), y) => (y = x /\ Tracked(x)) \/ Names(DepRefs(r), y)
    <2>1. \A y : ~ Names(e.readers, y)
      BY <1>5 DEF Names
    <2> QED
      BY <1>5, <1>7, <2>1
  <1>9. \A y \in e.pred : y = None \/ y = x \/ Names(DepRefs(r), y)
    <2>1. d.writer = None \/ Names(DepRefs(d), d.writer)
      BY <1>3
    <2>2. \A y \in ToSet(d.readers) : Names(DepRefs(d), y)
      BY <1>3 DEF ToSet, Names
    <2>3. \A y \in e.pred : y \in d.pred \/ y = d.writer \/ y \in ToSet(d.readers)
      BY <1>5
    <2> QED
      BY <2>1, <2>2, <2>3 DEF DepOK
  <1>10. ASSUME NEW y
         PROVE  Occ(DepRefs(e), y) + Occ(e.drop, y) = Occ(DepRefs(r), y) + IF y = x THEN e.add ELSE 0
    <2>1. PICK a \in Nat : a = Occ(DepRefs(d), y)
      BY <1>3, OccIs
    <2>2. PICK c \in Nat : c = Occ(d.drop, y)
      BY <1>2, OccIs
    <2>3. PICK k \in Nat : k = Occ(DepRefs(r), y)
      BY OccIs
    <2>4. PICK m \in Nat : m = d.add
      BY <1>2
    <2>5. a + c = k + IF y = x THEN m ELSE 0
      BY <2>1, <2>2, <2>3, <2>4 DEF DepOK
    <2>6. Occ(DepRefs(e), y) = IF y = x THEN 1 ELSE 0
      <3>1. Occ(e.readers, y) = 0
        BY <1>5, OccEmpty
      <3>2. e.writer = x /\ x # None
        BY <1>5, NoneFree
      <3> QED
        BY <1>7, <3>1, <3>2
    <2>7. Occ(e.drop, y) = c + a
      BY <1>2, <1>3, <1>5, <2>1, <2>2, OccConcat
    <2>8. e.add = m + 1
      BY <1>5, <2>4
    <2>9. CASE y = x
      BY <2>3, <2>5, <2>6, <2>7, <2>8, <2>9
    <2>10. CASE y # x
      BY <2>3, <2>5, <2>6, <2>7, <2>8, <2>10
    <2> QED
      BY <2>9, <2>10
  <1>11. DepOK(e, r, x)
    BY <1>5, <1>8, <1>9, <1>10 DEF DepOK
  <1> QED
    BY <1>4, <1>11

\* The tasks x waits for are among those its parent's entry named.
LEMMA DepsAre ==
  ASSUME Shape, NEW x \in Tasks, rec[x].parent \in Recs
  PROVE  /\ DepOK(Deps(x), rec[rec[x].parent], x)
         /\ \A y \in Deps(x).pred : y # None /\ y # x /\ ~ rec[y].done
  <1>1. PICK r \in RecT : r = rec[rec[x].parent]
    BY DEF Shape
  <1>2. PICK dep : dep = rec[x].kind.dep
    OBVIOUS
  <1>3. dep \in {<<>>, <<"in">>, <<"out">>, <<"in", "out">>}
    BY <1>2, NoneFree DEF Shape, RecT, Kind
  <1>4. Tracked(x) <=> dep # <<>>
    BY <1>2 DEF Tracked
  <1>5. r.writer \in Tasks \cup {None} /\ r.readers \in Seq(Tasks) /\ DepRefs(r) \in Seq(Tasks)
    BY DepRefsIs DEF RecT
  <1> DEFINE d0 == [writer |-> r.writer, readers |-> r.readers, pred |-> {}, drop |-> <<>>, add |-> 0]
             d1 == IF Len(dep) < 1 THEN d0 ELSE AddDep(d0, dep[1], x)
             d2 == IF Len(dep) < 2 THEN d1 ELSE AddDep(d1, dep[2], x)
  <1>6. Deps(x) = [d2 EXCEPT !.pred = {y \in @ \ {None, x} : ~ rec[y].done}]
    BY <1>1, <1>2 DEF Deps
  <1>7. DepOK(d0, r, x)
    <2>1. d0 \in DepT /\ d0.writer = r.writer /\ d0.readers = r.readers /\ d0.pred = {} /\ d0.drop = <<>> /\ d0.add = 0
      BY <1>5, EmptySeq DEF DepT
    <2>2. DepRefs(d0) = DepRefs(r)
      BY <2>1 DEF DepRefs
    <2>3. \A y : Occ(DepRefs(r), y) \in Nat /\ Occ(d0.drop, y) = 0
      BY <1>5, <2>1, OccIs, OccEmpty
    <2> HIDE DEF d0
    <2>4. ASSUME NEW y
          PROVE  Occ(DepRefs(d0), y) + Occ(d0.drop, y) = Occ(DepRefs(r), y) + IF y = x THEN d0.add ELSE 0
      <3>1. PICK k \in Nat : k = Occ(DepRefs(r), y)
        BY <2>3
      <3> QED
        BY <2>1, <2>2, <2>3, <3>1
    <2> QED
      BY <2>1, <2>2, <2>4 DEF DepOK
  <1> HIDE DEF d0
  <1>8. \A d, k : DepOK(d, r, x) /\ Tracked(x) => DepOK(AddDep(d, k, x), r, x)
    BY <1>5, AddReaderOK, AddWriterOK
  <1>9. DepOK(d1, r, x)
    <2>1. Len(dep) < 1 \/ Tracked(x)
      BY <1>3, <1>4
    <2> QED
      BY <1>7, <1>8, <2>1
  <1> HIDE DEF d1
  <1>10. DepOK(d2, r, x)
    <2>1. Len(dep) < 2 \/ Tracked(x)
      BY <1>3, <1>4
    <2> QED
      BY <1>8, <1>9, <2>1
  <1> HIDE DEF d2
  <1>11. PICK P : P = {y \in d2.pred \ {None, x} : ~ rec[y].done}
    OBVIOUS
  <1>12. d2 \in DepT /\ P \subseteq d2.pred
    BY <1>10, <1>11 DEF DepOK
  <1>13. PICK e : e = Deps(x)
    OBVIOUS
  <1>14. e = [d2 EXCEPT !.pred = P]
    BY <1>6, <1>11, <1>13
  <1>15. /\ e \in DepT /\ e.writer = d2.writer /\ e.readers = d2.readers /\ e.pred = P /\ e.drop = d2.drop
         /\ e.add = d2.add
    BY <1>12, <1>14 DEF DepT
  <1>16. DepRefs(e) = DepRefs(d2)
    BY <1>15 DEF DepRefs
  <1>17. DepOK(e, r, x)
    BY <1>10, <1>12, <1>15, <1>16 DEF DepOK
  <1> QED
    BY <1>1, <1>11, <1>13, <1>15, <1>17

\* The records once x is in the graph of p, with the entry d.
Linking(x, p, d) ==
  /\ rec' \in [Recs -> RecT]
  /\ \A y \in Recs : /\ SameId(rec[y], rec'[y]) /\ rec'[y].st = rec[y].st /\ rec'[y].done = rec[y].done
                     /\ rec'[y].children = rec[y].children /\ rec'[y].kids = rec[y].kids
  /\ \A y \in Recs : y # x => rec'[y].refs = rec[y].refs /\ rec'[y].pred = rec[y].pred
  /\ \A y \in Recs : y # p => DepRefs(rec'[y]) = DepRefs(rec[y])
  /\ \A y \in Recs : y # x /\ y # p => rec'[y] = rec[y]
  /\ rec'[x].pred = d.pred /\ rec'[x].refs = rec[x].refs + d.add
  /\ DepRefs(rec'[p]) = DepRefs(d)

\* The record r is q with another entry, or with P to wait for and n references.
IsEntrySet(q, w, rs, r) ==
  /\ r \in RecT /\ SameId(q, r) /\ SameNums(q, r) /\ r.pred = q.pred /\ r.st = q.st /\ r.done = q.done
  /\ r.writer = w /\ r.readers = rs

IsWaitSet(q, P, n, r) ==
  /\ r \in RecT /\ SameId(q, r) /\ r.children = q.children /\ r.kids = q.kids /\ r.st = q.st
  /\ r.done = q.done /\ r.writer = q.writer /\ r.readers = q.readers /\ r.pred = P /\ r.refs = n

LEMMA EntrySet ==
  ASSUME NEW q \in RecT, NEW w \in Tasks \cup {None}, NEW rs \in Seq(Tasks)
  PROVE  IsEntrySet(q, w, rs, [q EXCEPT !.writer = w, !.readers = rs])
  BY DEF RecT, SameId, SameNums, IsEntrySet

LEMMA WaitSet ==
  ASSUME NEW q \in RecT, NEW P \in SUBSET Tasks, NEW n \in Int
  PROVE  IsWaitSet(q, P, n, [q EXCEPT !.pred = P, !.refs = n])
  BY DEF RecT, SameId, IsWaitSet

LEMMA LinkedRecs ==
  ASSUME NEW x \in Recs, NEW p \in Recs, x # p, NEW d,
         NEW q, NEW r, IsWaitSet(rec[x], d.pred, rec[x].refs + d.add, q),
         IsEntrySet(rec[p], d.writer, d.readers, r),
         rec' \in [Recs -> RecT], rec'[x] = q, rec'[p] = r, \A y \in Recs : y # x /\ y # p => rec'[y] = rec[y]
  PROVE  Linking(x, p, d)
  <1>1. /\ SameId(rec[x], q) /\ q.children = rec[x].children /\ q.kids = rec[x].kids
        /\ q.st = rec[x].st /\ q.done = rec[x].done /\ q.writer = rec[x].writer /\ q.readers = rec[x].readers
        /\ q.pred = d.pred /\ q.refs = rec[x].refs + d.add
    BY DEF IsWaitSet
  <1>2. /\ SameId(rec[p], r) /\ SameNums(rec[p], r) /\ r.pred = rec[p].pred /\ r.st = rec[p].st
        /\ r.done = rec[p].done /\ r.writer = d.writer /\ r.readers = d.readers
    BY DEF IsEntrySet
  <1>3. \A y \in Recs : SameId(rec[y], rec[y])
    BY DEF SameId
  <1>4. \A y \in Recs : /\ SameId(rec[y], rec'[y]) /\ rec'[y].st = rec[y].st /\ rec'[y].done = rec[y].done
                        /\ rec'[y].children = rec[y].children /\ rec'[y].kids = rec[y].kids
    BY <1>1, <1>2, <1>3 DEF SameNums
  <1>5. \A y \in Recs : y # x => rec'[y].refs = rec[y].refs /\ rec'[y].pred = rec[y].pred
    BY <1>2 DEF SameNums
  <1>6. DepRefs(rec'[x]) = DepRefs(rec[x]) /\ DepRefs(rec'[p]) = DepRefs(d)
    BY <1>1, <1>2 DEF DepRefs
  <1> QED
    BY <1>1, <1>4, <1>5, <1>6 DEF Linking

LEMMA LinkingIs ==
  ASSUME Shape, NEW x \in Recs, NEW p \in Recs, x # p, NEW d \in DepT, d.pred \in SUBSET Tasks
  PROVE  rec' = [rec EXCEPT ![x].pred = d.pred, ![x].refs = @ + d.add,
                            ![p].writer = d.writer, ![p].readers = d.readers]
         => Linking(x, p, d)
  <1>0. ASSUME rec' = [rec EXCEPT ![x].pred = d.pred, ![x].refs = @ + d.add,
                                  ![p].writer = d.writer, ![p].readers = d.readers]
        PROVE  Linking(x, p, d)
    <2>1. d.writer \in Tasks \cup {None} /\ d.readers \in Seq(Tasks) /\ d.add \in Nat
      BY DEF DepT
    <2>2. rec \in [Recs -> RecT] /\ rec[x] \in RecT /\ rec[p] \in RecT
      BY DEF Shape
    <2>3. rec[x].refs \in Int
      BY <2>2 DEF RecT
    <2>4. rec[x].refs + d.add \in Int
      BY <2>1, <2>3
    <2>5. IsWaitSet(rec[x], d.pred, rec[x].refs + d.add, [rec[x] EXCEPT !.pred = d.pred, !.refs = rec[x].refs + d.add])
      BY <2>2, <2>4, WaitSet
    <2>6. IsEntrySet(rec[p], d.writer, d.readers, [rec[p] EXCEPT !.writer = d.writer, !.readers = d.readers])
      BY <2>1, <2>2, EntrySet
    <2>7. PICK q : q = [rec[x] EXCEPT !.pred = d.pred, !.refs = rec[x].refs + d.add]
      OBVIOUS
    <2>8. PICK r : r = [rec[p] EXCEPT !.writer = d.writer, !.readers = d.readers]
      OBVIOUS
    <2>9. rec' = [rec EXCEPT ![x] = q, ![p] = r]
      BY <1>0, <2>2, <2>7, <2>8
    <2>10. IsWaitSet(rec[x], d.pred, rec[x].refs + d.add, q) /\ IsEntrySet(rec[p], d.writer, d.readers, r)
      BY <2>5, <2>6, <2>7, <2>8
    <2>11. q \in RecT /\ r \in RecT
      BY <2>10 DEF IsWaitSet, IsEntrySet
    <2>12. rec' \in [Recs -> RecT] /\ rec'[x] = q /\ rec'[p] = r /\ \A y \in Recs : y # x /\ y # p => rec'[y] = rec[y]
      BY <2>2, <2>9, <2>11, RecSet2
    <2> QED
      BY <2>10, <2>12, LinkedRecs
  <1> QED
    BY <1>0

\* How the step that links x looks.
LinkOn(t, x, p, d, xs, f) ==
  /\ p = Cur(t) /\ pc(t) = "link" /\ x \in Tasks /\ x # p /\ Linked(t) = x /\ rec[x].parent = p
  /\ rec[x].st = "wait" /\ rec[p].st = "run" /\ rec[x].pred = {} /\ ~ Queued(x) /\ Deferred(x)
  /\ Top(t).drop = <<>>
  /\ DepOK(d, rec[p], x) /\ (\A y \in d.pred : y \in Tasks /\ y # x /\ ~ rec[y].done)
  /\ Linking(x, p, d)
  /\ xs \subseteq {x} /\ (x \in xs => d.pred = {} /\ ~ rec[x].kind.if0)
  /\ f \in FrameT /\ f.tk = p /\ f.drop = d.drop /\ f.pc \in {"unref", "wait", "body"}
  /\ (f.pc = "unref" <=> d.drop # <<>>) /\ (f.pc = "wait" => rec[x].kind.if0) /\ (f.pc = "body" => ~ rec[x].kind.if0)
  /\ (rec[x].kind.if0 => f.ctr = <<"npred", x>>) /\ (~ rec[x].kind.if0 => f.ctr = <<>>)
  /\ Topped(t, f) /\ dq' \in [Threads -> Seq(Tasks)] /\ hq' \in Seq(Tasks) /\ Distinct'
  /\ (\A y : Queued(y)' => Queued(y) \/ y \in xs)
  /\ UNCHANGED <<grp, base, live, nwait, sleepers, tm, barVars>>

LEMMA LinkFrameIs ==
  ASSUME NEW p \in Recs, NEW q \in Pcs, NEW c \in Ctrs, NEW s \in Seq(Recs)
  PROVE  IsFrame([Frame(p, q) EXCEPT !.drop = s, !.ctr = c], p, q, c, s)
  <1>1. <<>> \in Ctrs /\ <<>> \in Seq(Ctrs) /\ <<>> \in Seq(Recs)
    BY EmptySeq DEF Ctrs
  <1> QED
    BY <1>1 DEF IsFrame, Frame, FrameT

LEMMA LinkIs ==
  ASSUME TasksInv, NEW t \in Threads, SpawnLink(t)
  PROVE  \E x \in Tasks, p \in Recs, d \in DepT, xs \in SUBSET Tasks, f \in FrameT : LinkOn(t, x, p, d, xs, f)
  <1>1. /\ Shape /\ StacksOK /\ RecsOK /\ QueuesOK
        /\ Top(t) \in FrameT /\ Cur(t) \in Recs
    BY CurIs
  <1>2. pc(t) = "link"
    BY DEF SpawnLink
  <1>3. PICK x \in Tasks : x = Linked(t)
    BY <1>2, LinkedIs
  <1>4. PICK p \in Recs : p = Cur(t)
    BY <1>1
  <1>5. /\ rec[x].parent = p /\ rec[x].st = "wait" /\ rec[p].st = "run" /\ rec[x].pred = {} /\ ~ Queued(x)
        /\ x # p /\ Top(t).drop = <<>>
    BY <1>2, <1>3, <1>4, LinkedIs
  <1>6. Deferred(x)
    <2>1. Born(x) /\ x \notin Threads
      BY <1>1, NoneFree DEF RecsOK
    <2> QED
      BY <1>5, <2>1 DEF Born, Deferred
  <1>7. DepOK(Deps(x), rec[p], x) /\ \A y \in Deps(x).pred : y # None /\ y # x /\ ~ rec[y].done
    BY <1>1, <1>5, DepsAre
  <1>8. PICK d : d = Deps(x)
    OBVIOUS
  <1>9. d \in DepT /\ DepOK(d, rec[p], x) /\ \A y \in d.pred : y \in Tasks /\ y # x /\ ~ rec[y].done
    BY <1>7, <1>8 DEF DepOK, DepT
  <1> DEFINE q == CASE d.drop # <<>> -> "unref"
                    [] d.drop = <<>> /\ rec[x].kind.if0 -> "wait"
                    [] OTHER -> "body"
             c == IF rec[x].kind.if0 THEN <<"npred", x>> ELSE <<>>
             f == [Frame(p, q) EXCEPT !.drop = d.drop, !.ctr = c]
             xs == IF ~ rec[x].kind.if0 /\ d.pred = {} THEN {x} ELSE {}
  <1>10. /\ rec' = [rec EXCEPT ![x].pred = d.pred, ![x].refs = @ + d.add,
                               ![p].writer = d.writer, ![p].readers = d.readers]
         /\ PushLocked(t, xs, WithTop(t, f))
         /\ UNCHANGED <<grp, base, live, nwait, watch, idleVars, barVars, spurious>>
    BY <1>3, <1>4, <1>8 DEF SpawnLink
  <1>11. /\ q \in {"unref", "wait", "body"} /\ (q = "unref" <=> d.drop # <<>>)
         /\ (q = "wait" => rec[x].kind.if0) /\ (q = "body" => ~ rec[x].kind.if0)
    <2>1. CASE d.drop # <<>>
      <3>1. q = "unref"
        BY <2>1
      <3> QED
        BY <2>1, <3>1
    <2>2. CASE d.drop = <<>> /\ rec[x].kind.if0
      <3>1. q = "wait"
        BY <2>2
      <3> QED
        BY <2>2, <3>1
    <2>3. CASE d.drop = <<>> /\ ~ rec[x].kind.if0
      <3>1. q = "body"
        BY <2>3
      <3> QED
        BY <2>3, <3>1
    <2> QED
      BY <2>1, <2>2, <2>3
  <1>12. c \in Ctrs /\ (rec[x].kind.if0 => c = <<"npred", x>>) /\ (~ rec[x].kind.if0 => c = <<>>)
    BY NoneFree DEF Ctrs
  <1>13. xs \in SUBSET Tasks /\ xs \subseteq {x} /\ (x \in xs => d.pred = {} /\ ~ rec[x].kind.if0)
    OBVIOUS
  <1> HIDE DEF q, c, xs
  <1>14. IsFrame(f, p, q, c, d.drop)
    <2>1. d.drop \in Seq(Recs)
      <3>1. d.drop \in Seq(Tasks)
        BY <1>9 DEF DepT
      <3> QED
        BY <3>1, NoneFree, SeqDef
    <2>2. q \in Pcs
      BY <1>11, PcIs DEF WaitPcs
    <2> QED
      BY <1>12, <2>1, <2>2, LinkFrameIs
  <1> HIDE DEF f
  <1>15. f \in FrameT /\ f.tk = p /\ f.pc = q /\ f.ctr = c /\ f.drop = d.drop
    BY <1>14 DEF IsFrame
  <1>16. Linking(x, p, d)
    <2>1. d.pred \in SUBSET Tasks /\ x \in Recs
      BY <1>9, NoneFree
    <2> QED
      BY <1>1, <1>5, <1>9, <1>10, <2>1, LinkingIs
  <1>17. /\ Topped(t, f) /\ dq' \in [Threads -> Seq(Tasks)] /\ hq' \in Seq(Tasks) /\ Distinct'
         /\ \A y : Queued(y)' => Queued(y) \/ y \in xs
    BY <1>1, <1>2, <1>5, <1>10, <1>13, <1>15, PushLockedIs
  <1>18. LinkOn(t, x, p, d, xs, f)
    BY <1>2, <1>3, <1>4, <1>5, <1>6, <1>9, <1>10, <1>11, <1>12, <1>13, <1>15, <1>16, <1>17
       DEF LinkOn, idleVars
  <1> QED
    BY <1>9, <1>13, <1>15, <1>18

\* A record is counted exactly while something refers to it.
RefersTo(y) ==
  \/ Pending(y) \/ PendingOf(y) # {}
  \/ \E z \in Recs : Names(DepRefs(rec[z]), y)
  \/ \E s \in Threads : Names(Top(s).drop, y)

LEMMA RefsAre ==
  ASSUME TasksInv, NEW y \in Recs
  PROVE  /\ rec[y].refs \in Nat /\ rec[y].children \in Nat
         /\ (rec[y].children = 0 <=> PendingOf(y) = {})
         /\ (rec[y].refs = 0 <=> ~ RefersTo(y))
         /\ (RefersTo(y) => rec[y].st \notin {"none", "freed"} /\ (Static(y) => rec[y].kids))
  <1>1. Shape /\ StacksOK /\ RecsOK /\ CountsOK
    BY CurIs DEF TasksInv
  <1>2. Dropping \in Family(Threads, Recs) /\ \A s \in Threads : Dropping[s] = Top(s).drop
    <2>1. \A s \in Threads : Top(s).drop \in Seq(Recs)
      BY <1>1, TopIs DEF FrameT
    <2> QED
      BY <2>1 DEF Dropping, Family
  <1>3. Entries \in Family(Recs, Recs) /\ \A z \in Recs : Entries[z] = DepRefs(rec[z])
    <2>1. \A z \in Recs : DepRefs(rec[z]) \in Seq(Recs)
      BY <1>1, DepRefsIs DEF Shape
    <2> QED
      BY <2>1 DEF Entries, Family
  <1>4. PICK m \in Nat : m = Cardinality(Mentions(Dropping, y))
    BY <1>2, NoneFree, MentionsFinite
  <1>5. m = 0 <=> ~ \E s \in Threads : Names(Top(s).drop, y)
    <2>1. m = 0 <=> \A s \in Threads : \A j \in DOMAIN Dropping[s] : Dropping[s][j] # y
      BY <1>2, <1>4, NoneFree, MentionsFinite
    <2> QED
      BY <1>2, <2>1 DEF Names
  <1>6. PICK n \in Nat : n = Cardinality(Mentions(Entries, y))
    BY <1>3, NoneFree, MentionsFinite
  <1>7. n = 0 <=> ~ \E z \in Recs : Names(DepRefs(rec[z]), y)
    <2>1. n = 0 <=> \A z \in Recs : \A j \in DOMAIN Entries[z] : Entries[z][j] # y
      BY <1>3, <1>6, NoneFree, MentionsFinite
    <2> QED
      BY <1>3, <2>1 DEF Names
  <1>8. PICK c \in Nat : c = rec[y].children /\ (c = 0 <=> PendingOf(y) = {})
    <2>1. IsFiniteSet(PendingOf(y))
      BY NoneFree, FS_Subset DEF PendingOf
    <2>2. rec[y].children = Cardinality(PendingOf(y))
      BY <1>1 DEF CountsOK, ChildrenOK
    <2> QED
      BY <2>1, <2>2, FS_CardinalityType, FS_EmptySet
  <1>9. PICK b \in {0, 1} : b = IF Pending(y) THEN 1 ELSE 0
    OBVIOUS
  <1>10. rec[y].refs = b + c + n + m
    BY <1>1, <1>4, <1>6, <1>8, <1>9 DEF CountsOK, RefsOK
  <1>11. /\ b + c + n + m \in Nat
         /\ (b + c + n + m = 0 <=> b = 0 /\ c = 0 /\ n = 0 /\ m = 0)
    OBVIOUS
  <1>12. rec[y].refs \in Nat /\ (rec[y].refs = 0 <=> ~ RefersTo(y))
    <2>1. b = 0 <=> ~ Pending(y)
      BY <1>9
    <2>2. rec[y].refs \in Nat /\ (rec[y].refs = 0 <=> b = 0 /\ c = 0 /\ n = 0 /\ m = 0)
      BY <1>10, <1>11
    <2>3. ~ RefersTo(y) <=> b = 0 /\ c = 0 /\ n = 0 /\ m = 0
      BY <1>5, <1>7, <1>8, <2>1 DEF RefersTo
    <2> QED
      BY <2>2, <2>3
  <1>13. Born(y) /\ Gone(y)
    BY <1>1 DEF RecsOK
  <1>14. rec[y].refs # 0 => rec[y].st \notin {"none", "freed"}
    <2>1. y \in Threads => rec[y].st # "none"
      BY <1>13 DEF Born
    <2>2. y \notin Threads /\ rec[y].st = "none" => rec[y].refs = 0
      BY <1>13 DEF Born, NoRec
    <2>3. rec[y].st = "freed" => rec[y].refs = 0
      BY <1>13 DEF Gone
    <2> QED
      BY <2>1, <2>2, <2>3
  <1>15. rec[y].refs # 0 /\ Static(y) => rec[y].kids
    BY <1>13 DEF Gone
  <1> QED
    BY <1>8, <1>12, <1>14, <1>15

\* The task is in the graph: it waits for siblings that are not done, or it is
\* queued, and the entry of its parent names it.
LEMMA LinkRecs ==
  ASSUME TasksInv, NEW t \in Threads, NEW x \in Tasks, NEW p \in Recs, NEW d \in DepT, NEW xs, NEW f,
         LinkOn(t, x, p, d, xs, f)
  PROVE  RecsOK' /\ QueuesOK' /\ Lasts /\ Below(t) /\ Top(t)' = f /\ Cur(t)' = p /\ pc(t)' = f.pc
  <1>1. Shape /\ StacksOK /\ RecsOK /\ QueuesOK /\ ChildrenOK
    BY CurIs DEF CountsOK
  <1>2. /\ p = Cur(t) /\ pc(t) = "link" /\ x # p /\ Linked(t) = x /\ rec[x].parent = p
        /\ rec[x].st = "wait" /\ rec[p].st = "run" /\ rec[x].pred = {} /\ ~ Queued(x) /\ Deferred(x)
        /\ Topped(t, f) /\ f.tk = p /\ f.pc \in {"unref", "wait", "body"}
    BY DEF LinkOn
  <1>3. /\ d \in DepT /\ (\A y : Names(DepRefs(d), y) => (y = x /\ Tracked(x)) \/ Names(DepRefs(rec[p]), y))
        /\ (\A y \in d.pred : y = None \/ y = x \/ Names(DepRefs(rec[p]), y))
        /\ (d.pred # {} => Tracked(x)) /\ (\A y \in d.pred : y \in Tasks /\ y # x /\ ~ rec[y].done)
    BY DEF LinkOn, DepOK
  <1>4. Distinct' /\ (\A y : Queued(y)' => Queued(y) \/ y = x) /\ (Queued(x)' => d.pred = {} /\ ~ rec[x].kind.if0)
    BY <1>2 DEF LinkOn
  <1>5. Linking(x, p, d)
    BY DEF LinkOn
  <1>6. Below(t) /\ Top(t)' = f /\ Cur(t)' = p /\ pc(t)' = f.pc
    BY <1>1, <1>2, TopAfter DEF Topped, Cur, pc
  <1>7. x \in Recs /\ x \notin Threads
    BY NoneFree
  <1>8. /\ rec' \in [Recs -> RecT]
        /\ \A y \in Recs : /\ SameId(rec[y], rec'[y]) /\ rec'[y].st = rec[y].st /\ rec'[y].done = rec[y].done
                           /\ rec'[y].children = rec[y].children /\ rec'[y].kids = rec[y].kids
        /\ \A y \in Recs : y # x => rec'[y].refs = rec[y].refs /\ rec'[y].pred = rec[y].pred
        /\ \A y \in Recs : y # p => DepRefs(rec'[y]) = DepRefs(rec[y])
        /\ \A y \in Recs : y # x /\ y # p => rec'[y] = rec[y]
        /\ rec'[x].pred = d.pred /\ rec'[x].refs = rec[x].refs + d.add
        /\ DepRefs(rec'[p]) = DepRefs(d)
    BY <1>5 DEF Linking
  <1>9. \A y \in Recs : /\ Ident(y) /\ (Static(y)' <=> Static(y)) /\ (Tracked(y)' <=> Tracked(y))
                        /\ (Deferred(y)' <=> Deferred(y)) /\ (Over(y)' <=> Over(y))
    BY <1>8, SameIs DEF Over
  <1>10. Lasts
    BY <1>8, <1>9 DEF Lasts
  <1>11. \A s \in Threads : pc(s)' = "link" => s # t /\ pc(s) = "link" /\ Linked(s)' = Linked(s) /\ Linked(s)' # x
    <2>1. \A s \in Threads : s # t => ((pc(s)' = "link") <=> (pc(s) = "link")) /\ Linked(s)' = Linked(s)
      BY <1>1, <1>6, OtherMarks, OtherTops DEF Linked
    <2>2. pc(t)' # "link"
      BY <1>2, <1>6
    <2>3. \A s \in Threads : pc(s) = "link" /\ Linked(s) = x => s = t
      BY <1>2, LinkedIs
    <2> QED
      BY <2>1, <2>2, <2>3
  <1>12. NewLinks
    BY <1>11 DEF NewLinks
  <1>13. \A y \in Recs : OnStack(y) => OnStack(y)'
    BY <1>1, <1>2, <1>6, StackedAfter
  <1>14. \A y \in Recs : \A z \in rec[y].pred : rec'[z].done = rec[z].done
    <2>1. \A y \in Recs : rec[y].pred \subseteq Recs
      BY <1>1, NoneFree DEF Shape, RecT
    <2> QED
      BY <1>8, <2>1
  <1>15. \A y \in Recs : Born(y) /\ Waits4(y) /\ Entry(y) /\ Gone(y)
    BY <1>1 DEF RecsOK
  <1>16. Static(p) => rec[p].kids
    <2>1. x \in PendingOf(p)
      BY <1>2 DEF PendingOf, Pending
    <2> QED
      BY <2>1, RefsAre DEF RefersTo
  <1>17. ASSUME NEW y \in Recs, y # x
         PROVE  Born(y)' /\ Waits4(y)'
    <2>1. Born(y) /\ Waits4(y)
      BY <1>15
    <2>2. rec[y].st = "none" => rec'[y] = rec[y]
      BY <1>2, <1>8, <1>17
    <2>3. y \in Threads => rec[y].st # "none" /\ rec'[y].pred = {} /\ rec'[y].st \in {"run", "over", "freed"}
      BY <1>8, <1>17, <2>1 DEF Born
    <2>4. y \in Tasks /\ (rec'[y].st = "run" \/ (rec'[y].inplace /\ rec'[y].st = "over")) => OnStack(y)'
      <3>1. y \in Tasks /\ (rec[y].st = "run" \/ (rec[y].inplace /\ rec[y].st = "over")) => OnStack(y)
        BY <2>1, NoneFree DEF Born
      <3> QED
        BY <1>8, <1>9, <1>13, <3>1 DEF Ident
    <2>5. Deferred(y) /\ Tracked(y) => (rec'[y].done <=> Over(y)')
      <3>1. Deferred(y) /\ Tracked(y) => (rec[y].done <=> Over(y))
        BY <2>1, NoneFree DEF Born, Deferred
      <3> QED
        BY <1>8, <1>9, <3>1
    <2>6. Born(y)'
      BY <1>8, <1>10, <2>1, <2>2, <2>3, <2>4, <2>5, BornKept
    <2>7. rec'[y].pred = rec[y].pred /\ (rec[y].pred # {} => ~ Queued(y)')
      BY <1>4, <1>8, <1>17, <2>1 DEF Waits4
    <2>8. \A z \in rec'[y].pred : ~ rec'[z].done
      BY <1>14, <2>1, <2>7 DEF Waits4
    <2>9. Waits4(y)'
      BY <1>1, <1>8, <1>10, <2>1, <2>7, <2>8, WaitsKept
    <2> QED
      BY <2>6, <2>9
  <1>18. Born(x)'
    <2>1. Born(x) /\ ~ rec[x].done
      <3>1. Born(x)
        BY <1>7, <1>15
      <3> QED
        BY <1>2, <1>7, <3>1 DEF Born, Over
    <2>2. ~ rec'[x].inplace
      BY <1>2, <1>7, <1>9 DEF Ident, Deferred
    <2>3. ~ rec'[x].done /\ ~ Over(x)' /\ rec'[x].st = "wait"
      BY <1>2, <1>7, <1>8, <2>1 DEF Over
    <2>4. rec'[x].done = rec[x].done
      BY <1>7, <1>8
    <2>5. Deferred(x) /\ Tracked(x) => (rec'[x].done <=> Over(x)')
      BY <2>3
    <2>6. rec[x].st # "none" /\ rec[x].st = "wait"
      BY <1>2
    <2>7. ~ (x \in Tasks /\ (rec'[x].st = "run" \/ (rec'[x].inplace /\ rec'[x].st = "over")))
      BY <2>2, <2>3
    <2> QED
      BY <1>7, <1>10, <2>1, <2>4, <2>5, <2>6, <2>7, BornKept, Zenon
  <1>19. Waits4(x)'
    <2>1. ASSUME NEW y \in rec'[x].pred
          PROVE  /\ rec'[x].st = "wait" /\ ~ Queued(x)' /\ Tracked(x)'
                 /\ Deferred(y)' /\ Tracked(y)' /\ ~ rec'[y].done /\ rec'[y].parent = rec'[x].parent
      <3>1. y \in d.pred /\ y \in Recs /\ Tracked(x) /\ ~ rec[y].done /\ Names(DepRefs(rec[p]), y)
        BY <1>3, <1>8, <2>1, NoneFree
      <3>2. Deferred(y) /\ Tracked(y) /\ rec[y].parent = p
        BY <1>15, <3>1 DEF Entry, Names
      <3>3. ~ Queued(x)'
        BY <1>4, <3>1
      <3>4. rec'[y].parent = rec[y].parent /\ rec'[x].parent = rec[x].parent
        BY <1>7, <1>9, <3>1 DEF Ident
      <3> QED
        BY <1>2, <1>7, <1>8, <1>9, <3>1, <3>2, <3>3, <3>4
    <2> QED
      BY <2>1 DEF Waits4
  <1>20. ASSUME NEW y \in Recs, y # p
         PROVE  Entry(y)'
    <2>1. DepRefs(rec'[y]) = DepRefs(rec[y])
      BY <1>8, <1>20
    <2> QED
      BY <1>10, <1>12, <1>15, <2>1, EntryKept
  <1>21. Entry(p)'
    <2>1. ASSUME NEW y, Names(DepRefs(d), y)
          PROVE  /\ y \in Recs /\ Deferred(y) /\ Tracked(y) /\ rec[y].parent = p
                 /\ \A s \in Threads : pc(s)' = "link" => Linked(s)' # y
      <3>1. CASE y = x /\ Tracked(x)
        BY <1>2, <1>7, <1>11, <3>1
      <3>2. CASE Names(DepRefs(rec[p]), y)
        <4>1. /\ Deferred(y) /\ Tracked(y) /\ rec[y].parent = p
              /\ \A s \in Threads : pc(s) = "link" => Linked(s) # y
          BY <1>15, <3>2 DEF Entry, Names
        <4>2. y \in Recs
          BY <4>1, NoneFree DEF Deferred
        <4> QED
          BY <1>11, <4>1, <4>2
      <3> QED
        BY <1>3, <2>1, <3>1, <3>2
    <2> SUFFICES ASSUME NEW i \in DOMAIN DepRefs(rec'[p]), NEW y, y = DepRefs(rec'[p])[i]
                 PROVE  /\ Deferred(y)' /\ Tracked(y)' /\ rec'[y].parent = p
                        /\ \A s \in Threads : pc(s)' = "link" => Linked(s)' # y
      BY DEF Entry, DepRefs
    <2>2. Names(DepRefs(d), y)
      BY <1>8 DEF Names
    <2>3. /\ y \in Recs /\ Deferred(y) /\ Tracked(y) /\ rec[y].parent = p
          /\ \A s \in Threads : pc(s)' = "link" => Linked(s)' # y
      BY <2>1, <2>2
    <2> QED
      BY <1>9, <2>3 DEF Ident
  <1>22. ASSUME NEW y \in Recs
         PROVE  Gone(y)'
    <2>1. CASE y # x /\ y # p
      <3>1. Static(y) /\ rec[y].st = "over" /\ Cur(t)' = y /\ pc(t)' \in {"unref", "leave"} =>
              Cur(t) = y /\ pc(t) \in {"unref", "leave"}
        BY <1>6, <2>1
      <3>2. rec'[y] = rec[y]
        BY <1>8, <2>1
      <3> QED
        BY <1>1, <1>6, <3>1, <3>2, GoneKept
    <2>2. CASE y = x
      <3>1. rec'[x].refs > 0 /\ rec'[x].st = "wait" /\ ~ Static(x)'
        <4>1. rec[x].refs > 0 /\ rec[x].refs \in Int /\ d.add \in Nat
          BY <1>1, <1>2, <1>3, <1>7, <1>15 DEF Gone, Shape, RecT, DepT
        <4>2. rec'[x].refs > 0
          BY <1>8, <4>1
        <4> QED
          BY <1>2, <1>7, <1>8, <1>9, <4>2 DEF Static, Deferred
      <3> QED
        BY <2>2, <3>1 DEF Gone
    <2>3. CASE y = p
      <3>1. rec'[p].st = "run" /\ (Static(p)' => rec'[p].kids) /\ rec'[p].refs = rec[p].refs
        BY <1>2, <1>8, <1>9, <1>16
      <3>2. Deferred(p)' => rec'[p].refs > 0
        BY <1>2, <1>9, <1>15, <3>1 DEF Gone
      <3> QED
        BY <2>3, <3>1, <3>2 DEF Gone
    <2> QED
      BY <2>1, <2>2, <2>3
  <1>23. RecsOK'
    BY <1>17, <1>18, <1>19, <1>20, <1>21, <1>22 DEF RecsOK
  <1>24. QueuesOK'
    <2>1. ASSUME NEW y \in Tasks, Queued(y)'
          PROVE  rec'[y].st = "wait" /\ rec'[y].pred = {} /\ ~ rec'[y].kind.if0
      <3>1. y \in Recs /\ rec'[y].kind = rec[y].kind
        BY <1>8, NoneFree DEF SameId
      <3>2. CASE y = x
        BY <1>2, <1>4, <1>7, <1>8, <2>1, <3>1, <3>2
      <3>3. CASE y # x
        BY <1>1, <1>4, <1>8, <2>1, <3>1, <3>3 DEF QueuesOK
      <3> QED
        BY <3>2, <3>3
    <2> QED
      BY <1>4, <2>1 DEF QueuesOK, Distinct
  <1> QED
    BY <1>6, <1>10, <1>23, <1>24

LEMMA LinkBalanced ==
  ASSUME NEW t, NEW p \in Recs, NEW x \in Recs, NEW d, NEW y \in Recs, rec \in [Recs -> RecT], rec' \in [Recs -> RecT],
         d.add \in Nat, d.drop \in Seq(Tasks), Top(t).drop = <<>>, Top(t)'.drop = d.drop,
         y # x => rec'[y].refs = rec[y].refs, y = x => rec'[y].refs = rec[y].refs + d.add,
         rec'[y].children = rec[y].children, Pending(y)' <=> Pending(y), DepRefs(rec'[p]) = DepRefs(d),
         Occ(DepRefs(d), y) + Occ(d.drop, y) = Occ(DepRefs(rec[p]), y) + IF y = x THEN d.add ELSE 0
  PROVE  Balanced(t, p, y)
  <1>1. PICK a \in Nat : a = Occ(DepRefs(rec[p]), y)
    BY DepRefsIs
  <1>2. PICK b \in Nat : b = Occ(DepRefs(rec'[p]), y)
    BY DepRefsIs
  <1>3. PICK c \in Nat : c = Occ(d.drop, y)
    BY OccIs
  <1>4. PICK n \in Nat : n = IF y = x THEN d.add ELSE 0
    OBVIOUS
  <1>5. b + c = a + n
    BY <1>1, <1>2, <1>3, <1>4
  <1>6. PICK r \in Int : r = rec[y].refs
    BY DEF RecT
  <1>7. PICK k \in Int : k = rec[y].children
    BY DEF RecT
  <1>8. rec'[y].refs = r + n /\ rec'[y].children = k
    BY <1>4, <1>6, <1>7
  <1>9. PICK e \in {0, 1} : e = (IF Pending(y) THEN 1 ELSE 0) /\ e = (IF Pending(y)' THEN 1 ELSE 0)
    OBVIOUS
  <1>10. Occ(Top(t).drop, y) = 0 /\ Occ(Top(t)'.drop, y) = c
    BY <1>3, OccEmpty
  <1>11. r + n + e + k + a + 0 = r + e + k + b + c
    BY <1>5, <1>9
  <1> QED
    BY <1>1, <1>2, <1>6, <1>7, <1>8, <1>9, <1>10, <1>11 DEF Balanced

LEMMA SpawnLinkStep ==
  ASSUME TasksInv, NEW t \in Threads, SpawnLink(t)
  PROVE  TasksInv'
  <1>1. /\ Shape /\ StacksOK /\ RecsOK /\ QueuesOK /\ CountsOK /\ GroupsOK /\ BarrierOK
        /\ Top(t) \in FrameT /\ Top(t).tk = Cur(t) /\ Top(t).pc = pc(t)
    BY CurIs
  <1>2. PICK x \in Tasks, p \in Recs, d \in DepT, xs \in SUBSET Tasks, f \in FrameT : LinkOn(t, x, p, d, xs, f)
    BY LinkIs
  <1>3. /\ p = Cur(t) /\ pc(t) = "link" /\ x # p /\ rec[x].parent = p
        /\ rec[x].st = "wait" /\ rec[p].st = "run" /\ rec[x].pred = {} /\ Deferred(x)
        /\ Top(t).drop = <<>> /\ Topped(t, f) /\ f \in FrameT /\ f.tk = p /\ f.drop = d.drop
        /\ f.pc \in {"unref", "wait", "body"} /\ (f.pc = "unref" <=> d.drop # <<>>)
        /\ (f.pc = "wait" => rec[x].kind.if0) /\ (f.pc = "body" => ~ rec[x].kind.if0)
        /\ (rec[x].kind.if0 => f.ctr = <<"npred", x>>) /\ (~ rec[x].kind.if0 => f.ctr = <<>>)
    BY <1>2 DEF LinkOn
  <1>4. Linking(x, p, d)
    BY <1>2 DEF LinkOn
  <1>5. \A y : Occ(DepRefs(d), y) + Occ(d.drop, y) = Occ(DepRefs(rec[p]), y) + IF y = x THEN d.add ELSE 0
    BY <1>2 DEF LinkOn, DepOK
  <1>6. d.drop \in Seq(Tasks) /\ d.add \in Nat
    BY <1>2 DEF DepT
  <1>7. /\ dq' \in [Threads -> Seq(Tasks)] /\ hq' \in Seq(Tasks) /\ (\A y : Queued(y)' => Queued(y) \/ y = x)
        /\ grp' = grp /\ base' = base /\ live' = live /\ nwait' = nwait /\ sleepers' = sleepers /\ tm' = tm
        /\ UNCHANGED barVars
        /\ barrived' = barrived /\ bgen' = bgen /\ gen' = gen /\ passed' = passed
    BY <1>2 DEF LinkOn, barVars
  <1>8. RecsOK' /\ QueuesOK' /\ Lasts /\ Below(t) /\ Top(t)' = f /\ Cur(t)' = p /\ pc(t)' = f.pc
    BY <1>2, LinkRecs
  <1>9. x \in Recs
    BY NoneFree
  <1>10. /\ rec' \in [Recs -> RecT]
         /\ \A y \in Recs : /\ SameId(rec[y], rec'[y]) /\ rec'[y].st = rec[y].st
                            /\ rec'[y].children = rec[y].children
         /\ \A y \in Recs : y # x => rec'[y].refs = rec[y].refs /\ rec'[y].pred = rec[y].pred
         /\ \A y \in Recs : y # p => DepRefs(rec'[y]) = DepRefs(rec[y])
         /\ rec'[x].refs = rec[x].refs + d.add /\ DepRefs(rec'[p]) = DepRefs(d)
    BY <1>4 DEF Linking
  <1>11. \A y \in Recs : (Deferred(y)' <=> Deferred(y)) /\ rec'[y].parent = rec[y].parent /\ (Static(y)' <=> Static(y))
                         /\ rec'[y].kind = rec[y].kind
    BY <1>10 DEF Deferred, SameId, Static
  <1>12. stack'[t] # <<>>
    <2>1. PICK n \in Nat : n = Len(stack[t]) /\ n # 0
      BY <1>1, TopIs
    <2>2. Len(stack'[t]) = n
      BY <1>3, <2>1 DEF Topped
    <2> QED
      BY <2>1, <2>2
  <1>13. ~ Ending(f) /\ ~ InGroup(f) /\ ~ Ending(Top(t)) /\ ~ InGroup(Top(t)) /\ ~ Ending(Top(t))' /\ ~ InGroup(Top(t))'
    BY <1>1, <1>3, <1>8 DEF Ending, InGroup
  <1>14. Fixed
    BY <1>10, <1>11 DEF Fixed
  <1>15. (\A y \in Recs : Pending(y)' <=> Pending(y)) /\ ChildrenOK'
    BY <1>1, <1>8, <1>13, <1>14, PendingKept DEF CountsOK
  <1>16. \A y \in Tasks : GroupPending(y)' <=> GroupPending(y)
    BY <1>1, <1>8, <1>13, <1>14, GroupPendingKept
  <1>17. LiveOK'
    <2>1. pc(t) # "wakeall" /\ pc(t)' # "wakeall"
      BY <1>3, <1>8
    <2> QED
      BY <1>1, <1>3, <1>7, <1>8, <1>14, <2>1, LiveKept DEF CountsOK
  <1>18. RefsOK'
    <2>1. ASSUME NEW y \in Recs
          PROVE  Balanced(t, p, y)
      <3>1. Occ(DepRefs(d), y) + Occ(d.drop, y) = Occ(DepRefs(rec[p]), y) + IF y = x THEN d.add ELSE 0
        BY <1>5
      <3>2. rec \in [Recs -> RecT] /\ rec' \in [Recs -> RecT]
        BY <1>1, <1>10 DEF Shape
      <3>3. Top(t).drop = <<>> /\ Top(t)'.drop = d.drop
        BY <1>3, <1>8
      <3>4. /\ (y # x => rec'[y].refs = rec[y].refs) /\ (y = x => rec'[y].refs = rec[y].refs + d.add)
            /\ rec'[y].children = rec[y].children /\ (Pending(y)' <=> Pending(y)) /\ DepRefs(rec'[p]) = DepRefs(d)
        BY <1>10, <1>15
      <3> QED
        BY <1>6, <1>9, <3>1, <3>2, <3>3, <3>4, LinkBalanced, Zenon
    <2>2. \A y \in Recs : y # p => DepRefs(rec'[y]) = DepRefs(rec[y])
      BY <1>10
    <2> QED
      BY <1>1, <1>8, <1>10, <1>12, <2>1, <2>2, RefsMove DEF CountsOK
  <1>19. EndOK'
    <2>1. rec[t].st = "run"
      BY <1>1, <1>3, BottomRuns DEF RunPcs
    <2>2. rec'[t].st = "run"
      BY <1>10, <2>1, NoneFree
    <2> QED
      BY <2>2 DEF EndOK
  <1>20. SleepOK'
    <2>1. pc(t) \notin SlotPcs \cup TcPcs /\ pc(t)' \notin SlotPcs \cup TcPcs
      BY <1>3, <1>8 DEF SlotPcs, TcPcs
    <2> QED
      BY <1>1, <1>7, <1>8, <2>1, AwakeStep DEF CountsOK
  <1>21. Undisturbed(t, x)
    <2>1. \A y \in Recs \ {Cur(t), x} : Steady(y)
      BY <1>10 DEF Steady, SameId
    <2>2. \A y \in Tasks \ {x} : rec'[y].pred = rec[y].pred /\ (Queued(y)' => Queued(y))
      BY <1>7, <1>10, NoneFree
    <2>3. ASSUME NEW s \in Threads, NEW i \in DOMAIN stack[s], Old(t, s, i)
          PROVE  stack[s][i].tk # x /\ stack[s][i].ctr # <<"npred", x>>
      <3>1. PICK g \in FrameT : g = stack[s][i]
        BY <1>1, TopIs, ElementOfSeq
      <3>2. Fate(g) /\ Counts(g)
        BY <1>1, <3>1 DEF StacksOK, FrameOK
      <3>3. g.tk # p
        BY <1>1, <1>3, <2>3, <3>1, AloneOn
      <3>4. g.tk # x
        BY <1>3, <3>2, FrameBorn
      <3>5. g.ctr # <<"npred", x>>
        <4> SUFFICES ASSUME g.ctr = <<"npred", x>> PROVE FALSE
          OBVIOUS
        <4>1. g.ctr # <<>>
          OBVIOUS
        <4>2. \A y : <<"npred", y>> = <<"npred", x>> => y = x
          OBVIOUS
        <4>3. ~ Awaited(g, x)
          BY <1>3, <3>3 DEF Awaited
        <4> QED
          BY <3>2, <4>1, <4>2, <4>3 DEF Counts
      <3> QED
        BY <3>1, <3>4, <3>5
    <2> QED
      BY <1>7, <2>1, <2>2, <2>3 DEF Undisturbed
  <1>22. StacksOK'
    <2>1. Deferred(p) => Deferred(p)'
      BY <1>11
    <2>2. Fate(Top(t))'
      BY <1>3, <1>8, <1>10 DEF Fate, RunPcs, IdlePcs, TcPcs, WaitPcs
    <2>3. Counts(Top(t))'
      <3>1. Awaited(Top(t), x)' /\ rec'[x].kind = rec[x].kind
        BY <1>3, <1>8, <1>9, <1>10, <1>11 DEF Awaited
      <3>2. CASE rec[x].kind.if0
        BY <1>3, <1>8, <3>1, <3>2 DEF Counts, WaitPcs
      <3>3. CASE ~ rec[x].kind.if0
        BY <1>3, <1>8, <3>3 DEF Counts, WaitPcs
      <3> QED
        BY <3>2, <3>3
    <2>4. Drops(Top(t))'
      BY <1>3, <1>6, <1>8 DEF Drops
    <2>5. f.pc \notin IdlePcs \cup {"out"}
      BY <1>3 DEF IdlePcs, TcPcs
    <2> QED
      BY <1>3, <1>8, <1>21, <2>1, <2>2, <2>3, <2>4, <2>5, ToppedOK
  <1>23. /\ (Len(stack[t]) = 1 =>
              /\ (stack'[t][1].pc \in IdlePcs <=> stack[t][1].pc \in IdlePcs)
              /\ (stack'[t][1].pc = "retest" => AtBarrier(t))
              /\ (stack'[t][1].pc = "drain" => ~ AtBarrier(t)))
    <2>1. Len(stack[t]) = 1 => stack'[t][1] = f /\ stack[t][1] = Top(t)
      BY <1>1, <1>3, TopIs DEF Topped
    <2> QED
      BY <1>1, <1>3, <2>1 DEF IdlePcs, TcPcs
  <1>24. BarrierOK'
    <2>1. \A y \in Recs : rec[y].st # "none" => rec'[y].epoch = rec[y].epoch /\ (Over(y) => Over(y)')
      BY <1>10 DEF Over, SameId
    <2>2. \A y \in Tasks : rec[y].st = "none" => rec'[y].st = "none"
      BY <1>10, NoneFree
    <2> QED
      BY <1>7, <1>8, <1>23, <2>1, <2>2, BarrierStays
  <1>25. GroupsOK'
    <2>1. \A y \in Recs : rec'[y].home = rec[y].home /\ rec'[y].group = rec[y].group
      BY <1>10 DEF SameId
    <2>2. \A y \in Recs : rec[y].st = "run" /\ OpenGroup(y) => rec'[y].st = "run"
      BY <1>10
    <2>3. \A s \in Threads : stack'[s][1].pc \in IdlePcs => stack[s][1].pc \in IdlePcs \/ rec[s].group = None
      BY <1>1, <1>8, <1>23, FirstAbove
    <2>4. \A y \in Tasks : rec[y].st = "none" => rec'[y].st = "none"
      BY <1>10, NoneFree
    <2> QED
      BY <1>1, <1>7, <1>16, <2>1, <2>2, <2>3, <2>4, NoneFree, GroupsKept
  <1>26. Shape'
    BY <1>1, <1>7, <1>8, <1>10 DEF Shape, Below
  <1> QED
    BY <1>8, <1>15, <1>17, <1>18, <1>19, <1>20, <1>22, <1>24, <1>25, <1>26 DEF TasksInv, CountsOK

-----------------------------------------------------------------------------
(* The invariant.                                                          *)
LEMMA StutterStep ==
  ASSUME TasksInv, UNCHANGED vars
  PROVE  TasksInv'
  <1>1. /\ rec' = rec /\ grp' = grp /\ stack' = stack /\ dq' = dq /\ base' = base /\ hq' = hq /\ live' = live
        /\ nwait' = nwait /\ tm' = tm /\ sleepers' = sleepers /\ barrived' = barrived /\ bgen' = bgen
        /\ gen' = gen /\ passed' = passed
    BY DEF vars
  <1>a. /\ \A x : (Queued(x)' <=> Queued(x)) /\ (Deferred(x)' <=> Deferred(x)) /\ (Over(x)' <=> Over(x))
        /\ \A x : (Static(x)' <=> Static(x)) /\ (Tracked(x)' <=> Tracked(x)) /\ (OnStack(x)' <=> OnStack(x))
        /\ \A x : Dropped(x)' = Dropped(x)
        /\ \A t : (AtBarrier(t)' <=> AtBarrier(t)) /\ (InBarrier(t)' <=> InBarrier(t))
    BY <1>1 DEF Queued, Deferred, Over, Static, Tracked, OnStack, AtBarrier, InBarrier, Dropped
  <1>b. \A t : Top(t)' = Top(t) /\ pc(t)' = pc(t) /\ Cur(t)' = Cur(t) /\ Linked(t)' = Linked(t)
    BY <1>1 DEF Top, pc, Cur, Linked
  <1>c. /\ \A x : (Pending(x)' <=> Pending(x)) /\ (GroupPending(x)' <=> GroupPending(x))
        /\ \A x : (Unsettled(x)' <=> Unsettled(x))
        /\ \A x : (OpenGroup(x)' <=> OpenGroup(x))
    BY <1>1, <1>a, <1>b DEF Pending, GroupPending, Unsettled, OpenGroup
  <1>2. Shape'
    BY <1>1 DEF TasksInv, Shape
  <1>3. StacksOK'
    <2>1. StacksOK
      BY DEF TasksInv
    <2>2. \A t, i : Placed(t, i)' <=> Placed(t, i)
      BY <1>1, <1>a DEF Placed
    <2>3. \A f : Fate(f)' <=> Fate(f)
      BY <1>1, <1>a DEF Fate
    <2>4. \A f : Counts(f)' <=> Counts(f)
      BY <1>1, <1>a DEF Counts, Awaited
    <2>5. \A f : Drops(f)' <=> Drops(f)
      BY <1>1, <1>a DEF Drops
    <2>6. Unique'
      BY <1>1, <2>1 DEF StacksOK, Unique
    <2>7. \A t, i : FrameOK(t, i)' <=> FrameOK(t, i)
      BY <1>1, <2>2, <2>3, <2>4, <2>5 DEF FrameOK
    <2> QED
      BY <1>1, <2>1, <2>6, <2>7 DEF StacksOK
  <1>4. RecsOK'
    <2>1. RecsOK
      BY DEF TasksInv
    <2>2. \A x : Born(x)' <=> Born(x)
      BY <1>1, <1>a DEF Born
    <2>3. \A x : Waits4(x)' <=> Waits4(x)
      BY <1>1, <1>a DEF Waits4
    <2>4. \A x : DepRefs(rec[x])' = DepRefs(rec[x])
      BY <1>1
    <2>5. \A x : Entry(x)' <=> Entry(x)
      BY <1>1, <1>a, <1>b, <2>4 DEF Entry
    <2>6. \A x : Gone(x)' <=> Gone(x)
      BY <1>1, <1>a, <1>b, <2>4 DEF Gone
    <2> QED
      BY <2>1, <2>2, <2>3, <2>5, <2>6 DEF RecsOK
  <1>5. QueuesOK'
    BY <1>1 DEF TasksInv, QueuesOK, Queued
  <1>6. CountsOK'
    <2>1. CountsOK
      BY DEF TasksInv
    <2>2. \A p : PendingOf(p)' = PendingOf(p)
      BY <1>1, <1>c DEF PendingOf
    <2>3. Entries' = Entries /\ Dropping' = Dropping
      BY <1>1, <1>b DEF Entries, Dropping
    <2>4. ChildrenOK'
      BY <1>1, <2>1, <2>2 DEF CountsOK, ChildrenOK
    <2>6. \A x : Mentions(Entries, x)' = Mentions(Entries, x) /\ Mentions(Dropping, x)' = Mentions(Dropping, x)
      BY <2>3 DEF Mentions
    <2>7. RefsOK'
      BY <1>1, <1>c, <2>1, <2>6 DEF CountsOK, RefsOK
    <2>8. {x \in Tasks : Unsettled(x)}' = {x \in Tasks : Unsettled(x)}
      BY <1>c
    <2>9. LiveOK'
      BY <1>1, <2>1, <2>8 DEF CountsOK, LiveOK
    <2>10. {t \in Threads : pc(t) \in SlotPcs}' = {t \in Threads : pc(t) \in SlotPcs}
      BY <1>b
    <2>11. {t \in Threads : pc(t) \in TcPcs}' = {t \in Threads : pc(t) \in TcPcs}
      BY <1>b
    <2>12. SleepOK'
      BY <1>1, <2>1, <2>10, <2>11 DEF CountsOK, SleepOK
    <2>13. EndOK'
      BY <1>1, <2>1 DEF CountsOK, EndOK
    <2> QED
      BY <2>4, <2>7, <2>9, <2>12, <2>13 DEF CountsOK
  <1>7. GroupsOK'
    <2>1. GroupsOK
      BY DEF TasksInv
    <2>2. Nested'
      BY <1>1, <1>c, <2>1 DEF GroupsOK, Nested
    <2>3. \A g : {x \in Tasks : GroupPending(x) /\ rec[x].home = g}' = {x \in Tasks : GroupPending(x) /\ rec[x].home = g}
      BY <1>1, <1>c
    <2> DEFINE Home(x) == rec[x].group = rec[x].home
                          \/ (rec[x].group # None /\ grp[rec[x].group].owner = x /\ rec[x].st = "run"
                              /\ grp[rec[x].group].st = "open")
               Begun(x) == rec[x].st # "none" /\ rec[x].home # None => grp[rec[x].home].st # "none"
               Of(g) == {x \in Tasks : GroupPending(x) /\ rec[x].home = g}
               Kept(g) == IF grp[g].st = "none" THEN grp[g].count = 0
                 ELSE /\ grp[g].owner \in Recs
                      /\ grp[g].st = "open" =>
                           \/ grp[g].parent = rec[grp[g].owner].home
                           \/ grp[g].parent # None /\ grp[grp[g].parent].owner = grp[g].owner
                      /\ grp[g].st = "open" /\ grp[g].parent # None
                           => grp[grp[g].parent].st = "open"
                      /\ grp[g].count = Cardinality(Of(g))
                      /\ grp[g].st = "freed" => grp[g].count = 0
    <2>4. GroupsOK <=> /\ \A x \in Recs : Home(x)
                       /\ \A x \in Tasks : Begun(x)
                       /\ \A g \in Groups : Kept(g)
                       /\ Nested
      BY DEF GroupsOK
    <2>5. \A x : (Home(x)' <=> Home(x)) /\ (Begun(x)' <=> Begun(x))
      BY <1>1
    <2>6. \A g : Of(g)' = Of(g)
      BY <2>3
    <2> HIDE DEF Of
    <2>7. \A g : Kept(g)' <=> Kept(g)
      BY <1>1, <2>6
    <2>8. GroupsOK' <=> /\ \A x \in Recs : Home(x)'
                        /\ \A x \in Tasks : Begun(x)'
                        /\ \A g \in Groups : Kept(g)'
                        /\ Nested'
      BY DEF GroupsOK, Of
    <2> HIDE DEF Home, Begun, Kept
    <2> QED
      BY <2>1, <2>2, <2>4, <2>5, <2>7, <2>8
  <1>8. BarrierOK'
    <2>1. BarrierOK
      BY DEF TasksInv
    <2> QED
      BY <1>1, <2>1 DEF BarrierOK, InBarrier, AtBarrier, Over
  <1> QED
    BY <1>2, <1>3, <1>4, <1>5, <1>6, <1>7, <1>8 DEF TasksInv

LEMMA InitInv ==
  ASSUME Init
  PROVE  TasksInv
  <1>1. /\ rec \in [Recs -> RecT] /\ \A x \in Recs : rec[x] = IF x \in Threads THEN [NoRec EXCEPT !.st = "run"] ELSE NoRec
        /\ Free \notin Threads
    <2>1. NoRec \in RecT /\ [NoRec EXCEPT !.st = "run"] \in RecT
      <3>1. NoKind \in Kind /\ <<>> \in Seq(Tasks)
        BY EmptySeq DEF NoKind, Kind
      <3>2. NoRec \in RecT
        BY <3>1 DEF NoRec, RecT
      <3>3. \A r \in RecT : [r EXCEPT !.st = "run"] \in RecT
        BY DEF RecT
      <3> QED
        BY <3>2, <3>3
    <2>2. Free \notin Threads
      BY NoneFree
    <2> QED
      BY <2>1, <2>2 DEF Init
  <1>2. /\ grp \in [Groups -> GrpT]
        /\ \A g \in Groups : grp[g] = [st |-> "none", parent |-> None, count |-> 0, owner |-> None]
    BY DEF Init, GrpT
  <1>3. /\ stack \in [Threads -> Seq(FrameT)]
        /\ \A t \in Threads : stack[t] = <<Frame(t, "body")>> /\ Frame(t, "body") \in FrameT
        /\ \A t \in Threads : IsFrame(Frame(t, "body"), t, "body", <<>>, <<>>)
    <2>0. "body" \in Pcs /\ Threads \subseteq Recs
      BY NoneFree DEF Pcs, RunPcs
    <2>1. \A t \in Threads : IsFrame(Frame(t, "body"), t, "body", <<>>, <<>>) /\ Frame(t, "body") \in FrameT
      BY <2>0, FrameIs DEF IsFrame
    <2> QED
      BY <2>1 DEF Init
  <1>4. \A t \in Threads : /\ DOMAIN stack[t] = {1} /\ Len(stack[t]) = 1 /\ stack[t][1] = Frame(t, "body")
                           /\ stack[t] # <<>> /\ stack[t][1].tk = t /\ stack[t][1].pc = "body"
                           /\ stack[t][1].ctr = <<>> /\ stack[t][1].drop = <<>>
    <2>1. \A f : DOMAIN <<f>> = {1} /\ Len(<<f>>) = 1 /\ <<f>>[1] = f /\ <<f>> # <<>>
      OBVIOUS
    <2>2. ASSUME NEW t \in Threads, NEW f, f = Frame(t, "body"), stack[t] = <<f>>
          PROVE  /\ DOMAIN stack[t] = {1} /\ Len(stack[t]) = 1 /\ stack[t][1] = f
                 /\ stack[t] # <<>> /\ f.tk = t /\ f.pc = "body" /\ f.ctr = <<>> /\ f.drop = <<>>
      <3>1. f.tk = t /\ f.pc = "body" /\ f.ctr = <<>> /\ f.drop = <<>>
        BY <2>2 DEF Frame
      <3> QED
        BY <2>1, <2>2, <3>1
    <2> QED
      BY <1>3, <2>2
  <1>5. \A t \in Threads : Top(t) = stack[t][1] /\ pc(t) = "body" /\ Cur(t) = t /\ Top(t).drop = <<>>
    BY <1>4 DEF Top, Last, pc, Cur
  <1>6. \A x \in Recs : /\ DepRefs(rec[x]) = <<>> /\ rec[x].pred = {} /\ rec[x].refs = 0 /\ rec[x].children = 0
                        /\ ~ rec[x].done /\ ~ rec[x].inplace /\ ~ rec[x].final /\ rec[x].home = None
                        /\ rec[x].within = None /\ rec[x].parent = None /\ rec[x].kind = NoKind
                        /\ rec[x].group = None /\ rec[x].epoch = 0 /\ ~ rec[x].kids
    BY <1>1 DEF NoRec, DepRefs
  <1>7. /\ \A t \in Threads : rec[t].st = "run" /\ t \in Recs
        /\ \A x \in Tasks : rec[x] = NoRec /\ rec[x].st = "none" /\ x \in Recs
    <2>1. \A x \in Tasks : x \notin Threads
      BY NoneFree
    <2> QED
      BY <1>1, <2>1 DEF NoRec, Recs
  <1>8. \A x : ~ Queued(x)
    BY DEF Init, Queued
  <1>9. \A x : ~ Deferred(x)
    BY <1>7 DEF Deferred
  <1>10. Shape
    <2>1. dq \in [Threads -> Seq(Tasks)] /\ base \in [Threads -> Nat] /\ hq \in Seq(Tasks)
      BY EmptySeq DEF Init
    <2>2. gen \in [Threads -> Nat] /\ passed \in [Threads -> Nat]
      BY DEF Init
    <2>3. /\ live \in Int /\ nwait \in Int /\ sleepers \in Int /\ barrived \in Int /\ bgen \in Nat
          /\ tm \in Threads \cup {Free}
      BY DEF Init
    <2> QED
      BY <1>1, <1>2, <1>3, <2>1, <2>2, <2>3 DEF Shape
  <1>11. StacksOK
    <2>1. ASSUME NEW t \in Threads
          PROVE  FrameOK(t, 1)
      <3>1. Placed(t, 1)
        BY <1>4 DEF Placed, IdlePcs, TcPcs
      <3>2. Fate(stack[t][1])
        BY <1>4, <1>7 DEF Fate, RunPcs, WaitPcs
      <3>3. Counts(stack[t][1])
        BY <1>4 DEF Counts, WaitPcs
      <3>4. Drops(stack[t][1])
        BY <1>4 DEF Drops
      <3> QED
        BY <3>1, <3>2, <3>3, <3>4 DEF FrameOK
    <2>2. Unique
      BY <1>4 DEF Unique
    <2> QED
      BY <1>4, <2>1, <2>2 DEF StacksOK
  <1>12. RecsOK
    <2>1. \A x \in Recs : Born(x)
      BY <1>1, <1>6, <1>7 DEF Born, Recs
    <2>2. \A x \in Recs : Waits4(x)
      BY <1>6 DEF Waits4
    <2>3. \A x \in Recs : Entry(x)
      BY <1>6 DEF Entry
    <2>4. \A x \in Recs : Gone(x)
      BY <1>6, <1>9 DEF Gone
    <2> QED
      BY <2>1, <2>2, <2>3, <2>4 DEF RecsOK
  <1>13. QueuesOK
    BY <1>8 DEF Init, QueuesOK
  <1>14. CountsOK
    <2>1. \A x : ~ Pending(x) /\ ~ Unsettled(x) /\ ~ GroupPending(x)
      BY <1>9 DEF Pending, Unsettled, GroupPending
    <2>2. Cardinality({}) = 0
      BY FS_EmptySet
    <2>3. \A p : PendingOf(p) = {}
      BY <2>1 DEF PendingOf
    <2>4. \A x : Mentions(Entries, x) = {} /\ Mentions(Dropping, x) = {}
      BY <1>5, <1>6 DEF Mentions, Entries, Dropping
    <2>5. ChildrenOK
      BY <1>6, <2>2, <2>3 DEF ChildrenOK
    <2>6. RefsOK
      <3>1. \A x \in Recs : /\ rec[x].refs = 0 /\ (IF Pending(x) THEN 1 ELSE 0) = 0 /\ rec[x].children = 0
                            /\ Cardinality(Mentions(Entries, x)) = 0 /\ Cardinality(Mentions(Dropping, x)) = 0
        BY <1>6, <2>1, <2>2, <2>4
      <3>2. 0 + 0 + 0 + 0 = 0
        OBVIOUS
      <3> QED
        BY <3>1, <3>2 DEF RefsOK
    <2>7. {x \in Tasks : Unsettled(x)} = {}
      BY <2>1
    <2>8. LiveOK
      BY <2>2, <2>7 DEF LiveOK, Init
    <2>9. {t \in Threads : pc(t) \in SlotPcs} = {} /\ {t \in Threads : pc(t) \in TcPcs} = {}
      BY <1>5 DEF SlotPcs, TcPcs
    <2>10. SleepOK
      BY <2>2, <2>9 DEF SleepOK, Init
    <2>11. EndOK
      BY DEF EndOK, Init
    <2> QED
      BY <2>5, <2>6, <2>8, <2>10, <2>11 DEF CountsOK
  <1>15. GroupsOK
    <2>1. Nested
      BY <1>2, <1>6, <1>7 DEF Nested
    <2> QED
      BY <1>2, <1>6, <1>7, <2>1 DEF GroupsOK
  <1>16. BarrierOK
    <2>1. \A t \in Threads : ~ InBarrier(t) /\ stack[t][1].pc = "body"
      BY <1>4 DEF InBarrier, IdlePcs, TcPcs
    <2>2. {t \in Threads : InBarrier(t) /\ gen[t] = bgen} = {}
      BY <2>1
    <2>3. Cardinality({}) = 0
      BY FS_EmptySet
    <2>4. barrived = 0 /\ bgen = 0 /\ \A t \in Threads : passed[t] = 0 /\ rec[t].epoch = 0
      BY <1>6, <1>7 DEF Init
    <2>5. Barriers \in Nat /\ 0 <= Barriers
      BY TasksAssumption
    <2>6. \A t \in Threads :
            /\ passed[t] <= Barriers /\ rec[t].epoch = passed[t]
            /\ IF InBarrier(t) THEN gen[t] = passed[t] /\ passed[t] \in {bgen, bgen - 1} ELSE passed[t] = bgen
            /\ stack[t][1].pc = "retest" => AtBarrier(t)
            /\ stack[t][1].pc = "drain" => ~ AtBarrier(t)
      BY <2>1, <2>4, <2>5
    <2> QED
      BY <1>7, <2>2, <2>3, <2>4, <2>6 DEF BarrierOK
  <1> QED
    BY <1>10, <1>11, <1>12, <1>13, <1>14, <1>15, <1>16 DEF TasksInv

LEMMA NextInv ==
  ASSUME TasksInv, [Next]_vars
  PROVE  TasksInv'
  <1>1. ASSUME NEW t \in Threads, Spawn(t)
        PROVE  TasksInv'
    BY <1>1, SpawnInPlaceStep, SpawnCountStep, SpawnPushStep, SpawnLinkStep, SpawnWakeStep DEF Spawn
  <1>2. ASSUME NEW t \in Threads, Waiting(t)
        PROVE  TasksInv'
    BY <1>2, TaskWaitStep, GroupBeginStep, GroupWaitStep, GroupEndStep, WaitOverStep, WaitRunStep,
       LookOwnStep, LookHighStep, LookNothingStep, WaitWatchStep, WaitCheckStep, WaitWokenStep DEF Waiting
  <1>3. ASSUME NEW t \in Threads, Completion(t)
        PROVE  TasksInv'
    BY <1>3, EndInPlaceStep, FinishRefsStep, LeaveStep, CompleteStep, NotifyStep, ChildDoneStep,
       GroupDoneStep, UnrefStep, LiveDownStep, WakeAllStep DEF Completion
  <1>4. ASSUME NEW t \in Threads, IdleStep(t)
        PROVE  TasksInv'
    BY <1>4, BarrierArriveStep, BarrierRetestStep, DrainTestStep, FindHighStep, FindOwnStep, FindStealStep,
       FindNothingStep, AnnounceStep, DozeStep, RousedStep DEF IdleStep
  <1>5. CASE Next
    BY <1>1, <1>2, <1>3, <1>4, <1>5, SpuriousWakeStep DEF Next, Step
  <1>6. CASE UNCHANGED vars
    BY <1>6, StutterStep
  <1> QED
    BY <1>5, <1>6

\* The counters, the stacks, the queues, the groups and the barrier agree, in
\* every state of a region: each count equals the number of things it counts.
THEOREM TasksInvariant == Spec => []TasksInv
  BY InitInv, NextInv, PTL DEF Spec

-----------------------------------------------------------------------------
(* What follows from it.                                                   *)
LEMMA TypesInv ==
  ASSUME TasksInv
  PROVE  TypeOK
  <1>1. Shape /\ StacksOK /\ RecsOK /\ QueuesOK /\ CountsOK /\ GroupsOK /\ BarrierOK
    BY DEF TasksInv
  <1>2. \A x \in Recs : /\ rec[x].st \in {"none", "wait", "run", "over", "freed"}
                        /\ rec[x].children \in Nat /\ rec[x].refs \in Nat
                        /\ rec[x].pred \subseteq Tasks
    BY <1>1, RefsAre DEF Shape, RecT
  <1>3. ASSUME NEW g \in Groups
        PROVE  grp[g].count \in Nat
    <2> DEFINE S == {x \in Tasks : GroupPending(x) /\ rec[x].home = g}
    <2>1. Cardinality(S) \in Nat
      <3>1. IsFiniteSet(S)
        BY NoneFree, FS_Subset
      <3> QED
        BY <3>1, FS_CardinalityType
    <2>2. grp[g].count = 0 \/ grp[g].count = Cardinality(S)
      BY <1>1 DEF GroupsOK
    <2> QED
      BY <2>1, <2>2
  <1>4. ASSUME NEW t \in Threads
        PROVE  /\ stack[t] # <<>> /\ stack[t][1].tk = t
               /\ dq[t] \in Seq(Tasks) /\ passed[t] \in 0 .. Barriers
    <2>1. stack[t] # <<>> /\ 1 \in DOMAIN stack[t]
      BY <1>1, TopIs
    <2>2. stack[t][1].tk = t
      BY <1>1, <2>1 DEF StacksOK, FrameOK, Placed
    <2>3. dq[t] \in Seq(Tasks) /\ passed[t] \in Nat /\ passed[t] <= Barriers /\ Barriers \in Nat
      BY <1>1, TasksAssumption DEF Shape, BarrierOK
    <2> QED
      BY <2>1, <2>2, <2>3
  <1>5. ASSUME NEW S \in SUBSET Threads
        PROVE  Cardinality(S) \in 0 .. Cardinality(Threads)
    <2>1. /\ IsFiniteSet(S) /\ Cardinality(S) <= Cardinality(Threads)
          /\ Cardinality(S) \in Nat /\ Cardinality(Threads) \in Nat
      BY NoneFree, FS_Subset, FS_CardinalityType
    <2> QED
      BY <2>1
  <1>6. live \in 0 .. MaxTasks
    <2> DEFINE S == {x \in Tasks : Unsettled(x)}
    <2>1. Cardinality(Tasks) = MaxTasks
      <3>1. MaxTasks \in Nat
        BY NoneFree
      <3>2. Cardinality(1 .. MaxTasks) = IF 1 > MaxTasks THEN 0 ELSE MaxTasks - 1 + 1
        BY <3>1, FS_Interval
      <3> QED
        BY <3>1, <3>2 DEF Tasks
    <2>2. IsFiniteSet(S) /\ Cardinality(S) <= MaxTasks /\ Cardinality(S) \in Nat
      <3>1. S \subseteq Tasks
        OBVIOUS
      <3> QED
        BY <2>1, <3>1, NoneFree, FS_Subset, FS_CardinalityType
    <2>3. live = Cardinality(S)
      BY <1>1 DEF CountsOK, LiveOK
    <2> QED
      BY <2>2, <2>3, NoneFree
  <1>7. nwait \in 0 .. Cardinality(Threads) /\ sleepers \in 0 .. Cardinality(Threads)
    BY <1>1, <1>5 DEF CountsOK, SleepOK
  <1>8. barrived \in 0 .. Cardinality(Threads)
    BY <1>1, <1>5 DEF BarrierOK
  <1>9. hq \in Seq(Tasks) /\ tm \in Threads \cup {Free}
    BY <1>1 DEF Shape
  <1> QED
    BY <1>2, <1>3, <1>4, <1>6, <1>7, <1>8, <1>9 DEF TypeOK

LEMMA PassedInv ==
  ASSUME TasksInv
  PROVE  BarrierComplete
  <1>1. Shape /\ BarrierOK
    BY DEF TasksInv
  <1>2. bgen \in Nat /\ \A t \in Threads : passed[t] \in Nat /\ passed[t] \in {bgen, bgen - 1}
    BY <1>1 DEF Shape, BarrierOK
  <1>3. \A x \in Tasks : rec[x].epoch \in Nat
    BY <1>1, NoneFree DEF Shape, RecT
  <1>4. \A t \in Threads : \A x \in Tasks :
          (rec[x].st # "none" /\ rec[x].epoch < passed[t]) => Over(x)
    <2>1. \A t \in Threads : \A x \in Tasks : rec[x].epoch < passed[t] => rec[x].epoch < bgen
      BY <1>2, <1>3
    <2> QED
      BY <1>1, <2>1 DEF BarrierOK
  <1>5. \A t, s \in Threads : passed[t] <= passed[s] + 1
    BY <1>2
  <1> QED
    BY <1>4, <1>5 DEF BarrierComplete

\* Only the innermost frame of a thread is about to do something.
LEMMA AtTop ==
  ASSUME TasksInv, NEW f \in AllFrames
  PROVE  /\ f \in FrameT /\ Fate(f) /\ Drops(f)
         /\ f.pc \notin {"wait", "body", "retest", "drain"} => \E t \in Threads : f = Top(t)
  <1>1. Shape /\ StacksOK
    BY DEF TasksInv
  <1>2. PICK t \in Threads : \E i \in DOMAIN stack[t] : f = stack[t][i]
    BY DEF AllFrames, Frames, ToSet
  <1>3. PICK i \in DOMAIN stack[t] : f = stack[t][i]
    BY <1>2
  <1>4. /\ FrameOK(t, i) /\ DOMAIN stack[t] = 1 .. Len(stack[t]) /\ Len(stack[t]) \in Nat
        /\ stack[t] \in Seq(FrameT) /\ Top(t) = stack[t][Len(stack[t])]
    BY <1>1, TopIs DEF StacksOK
  <1>5. f \in FrameT
    BY <1>3, <1>4, ElementOfSeq
  <1>6. i = Len(stack[t]) \/ i < Len(stack[t])
    BY <1>4
  <1>7. f.pc \notin {"wait", "body", "retest", "drain"} => f = Top(t)
    BY <1>3, <1>4, <1>6 DEF FrameOK, Placed
  <1> QED
    BY <1>3, <1>4, <1>5, <1>7 DEF FrameOK

\* What a frame will drop is counted.
LEMMA DropRefers ==
  ASSUME TasksInv, NEW f \in AllFrames, NEW y, Contains(f.drop, y)
  PROVE  y \in Recs /\ RefersTo(y)
  <1>1. f \in FrameT /\ Drops(f)
    BY AtTop
  <1>2. f.drop \in Seq(Recs)
    BY <1>1 DEF FrameT
  <1>3. PICK i \in 1 .. Len(f.drop) : f.drop[i] = y
    BY DEF Contains
  <1>4. f.drop # <<>> /\ i \in DOMAIN f.drop /\ y \in Recs
    BY <1>2, <1>3, ElementOfSeq, EmptySeq
  <1>5. f.pc \in {"notify", "group", "unref"}
    BY <1>1, <1>4 DEF Drops
  <1>6. PICK t \in Threads : f = Top(t)
    BY <1>5, AtTop
  <1>7. Names(Top(t).drop, y)
    BY <1>3, <1>4, <1>6 DEF Names
  <1> QED
    BY <1>4, <1>6, <1>7 DEF RefersTo

\* A task that waits or runs keeps its parent, and so does one on its way out
\* until it has dropped that reference.
LEMMA ParentRefers ==
  ASSUME TasksInv, NEW x \in Tasks, rec[x].parent # None, Pending(x)
  PROVE  rec[x].parent \in Recs /\ RefersTo(rec[x].parent)
  <1>1. rec[x].parent \in Recs
    BY NoneFree DEF TasksInv, Shape, RecT
  <1> QED
    BY <1>1 DEF RefersTo, PendingOf

LEMMA DanglingInv ==
  ASSUME TasksInv
  PROVE  NoDangling
  <1>1. Shape /\ StacksOK /\ RecsOK /\ GroupsOK /\ Tasks \subseteq Recs
    BY NoneFree DEF TasksInv
  <1>2. \A y \in Recs : RefersTo(y) => rec[y].st # "freed"
    BY RefsAre
  <1>3. \A x \in Tasks : rec[x].st \in {"wait", "run"} /\ rec[x].parent # None => Pending(x)
    <2>1. \A x \in Tasks : Born(x)
      BY <1>1 DEF RecsOK
    <2> QED
      BY <2>1, NoneFree DEF Born, Pending, Deferred
  <1>4. ASSUME NEW f \in AllFrames, Held(f)
        PROVE  rec[f.tk].st # "freed"
    <2>1. f \in FrameT /\ f.pc \in Pcs /\ Fate(f) /\ f.tk \in Recs
      BY AtTop DEF FrameT
    <2>2. CASE f.pc # "unref"
      BY <1>4, <2>1, <2>2 DEF Held, Fate, Pcs
    <2>3. CASE f.pc = "unref" /\ rec[f.tk].st = "freed"
      <3>1. Deferred(f.tk)
        BY <2>1, <2>3 DEF Fate
      <3>2. ~ Static(f.tk)
        BY <3>1, NoneFree DEF Deferred, Static
      <3>3. AfterUnref(f) = "live"
        BY <2>3, <3>2 DEF AfterUnref
      <3>4. Contains(f.drop, f.tk)
        BY <1>4, <2>3, <3>3 DEF Held
      <3>5. RefersTo(f.tk)
        BY <3>4, DropRefers
      <3> QED
        BY <1>2, <2>1, <3>5
    <2> QED
      BY <2>2, <2>3
  <1>5. ASSUME NEW f \in AllFrames, NEW y \in ToSet(f.drop)
        PROVE  rec[y].st # "freed"
    <2>1. f.drop \in Seq(Recs)
      BY AtTop DEF FrameT
    <2>2. Contains(f.drop, y)
      BY <2>1 DEF ToSet, Contains
    <2>3. y \in Recs /\ RefersTo(y)
      BY <2>2, DropRefers
    <2> QED
      BY <1>2, <2>3
  <1>6. ASSUME NEW x \in Recs, NEW y \in ToSet(DepRefs(rec[x]))
        PROVE  rec[y].st # "freed"
    <2>1. DepRefs(rec[x]) \in Seq(Recs)
      BY <1>1, DepRefsIs DEF Shape
    <2>2. Names(DepRefs(rec[x]), y) /\ y \in Recs
      BY <2>1, ElementOfSeq DEF ToSet, Names
    <2> QED
      BY <1>2, <2>2 DEF RefersTo
  <1>7. ASSUME NEW x \in Recs, NEW y \in rec[x].pred
        PROVE  rec[y].st # "freed"
    <2>1. Deferred(y) /\ Tracked(y) /\ ~ rec[y].done
      BY <1>1 DEF RecsOK, Waits4
    <2>2. y \in Tasks /\ rec[y].st # "none" /\ y \notin Threads /\ y \in Recs
      BY <2>1, NoneFree DEF Deferred
    <2>3. rec[y].done <=> Over(y)
      BY <1>1, <2>1, <2>2 DEF RecsOK, Born
    <2> QED
      BY <2>1, <2>3 DEF Over
  <1>8. ASSUME NEW x \in Tasks, rec[x].st \in {"wait", "run"}, rec[x].parent # None
        PROVE  rec[rec[x].parent].st # "freed"
    BY <1>2, <1>3, <1>8, ParentRefers
  <1>9. ASSUME NEW f \in AllFrames, Held(f), f.pc # "unref", rec[f.tk].parent # None
        PROVE  rec[rec[f.tk].parent].st # "freed"
    <2> DEFINE x == f.tk
    <2>1. f \in FrameT /\ f.pc \in Pcs /\ Fate(f) /\ Drops(f) /\ x \in Recs
      BY AtTop DEF FrameT
    <2>2. Born(x)
      BY <1>1, <2>1 DEF RecsOK
    <2>3. x \in Tasks /\ x \notin Threads
      BY <1>9, <2>1, <2>2 DEF Born, Recs
    <2>4. CASE rec[x].st = "run"
      BY <1>8, <1>9, <2>3, <2>4
    <2>5. CASE rec[x].st # "run"
      <3>1. ~ rec[x].inplace
        <4>1. rec[x].st \in {"run", "over", "freed"}
          BY <2>1, FrameBorn
        <4> QED
          BY <1>9, <2>2, <2>3, <4>1 DEF Born
      <3>2. f.pc \in {"notify", "children", "group"} /\ Deferred(x)
        BY <1>9, <2>1, <2>3, <2>5, <3>1 DEF Held, Fate, Pcs, Static
      <3>3. PICK t \in Threads : f = Top(t)
        BY <3>2, AtTop
      <3>4. CASE Ending(f)
        <4>1. Pending(x)
          BY <3>2, <3>3, <3>4 DEF Pending, Cur
        <4> QED
          BY <1>2, <1>9, <2>3, <4>1, ParentRefers
      <3>5. CASE ~ Ending(f)
        <4>1. f.drop = Dropped(x)
          BY <2>1, <3>2, <3>5 DEF Drops, Ending
        <4>2. Contains(f.drop, rec[x].parent)
          BY <4>1 DEF Dropped, Contains
        <4>3. rec[x].parent \in Recs /\ RefersTo(rec[x].parent)
          BY <4>2, DropRefers
        <4> QED
          BY <1>2, <4>3
      <3> QED
        BY <3>4, <3>5
    <2> QED
      BY <2>4, <2>5
  <1>10. \A x \in InUse : rec[x].st # "freed"
    <2> DEFINE HeldBy == {f.tk : f \in {h \in AllFrames : Held(h)}}
               Drop == UNION {ToSet(f.drop) : f \in {h \in AllFrames : h.pc = "unref"}}
               Graph == UNION {ToSet(DepRefs(rec[x])) \cup rec[x].pred :
                                 x \in {y \in Recs : rec[y].st # "freed"}}
               Parents == {rec[x].parent : x \in {y \in Tasks : rec[y].st \in {"wait", "run"}}
                             \cup {f.tk : f \in {h \in AllFrames : Held(h) /\ h.pc # "unref"}}}
    <2>1. InUse = (HeldBy \cup Drop \cup Graph \cup Parents) \ {None}
      BY DEF InUse
    <2>2. \A x \in HeldBy : rec[x].st # "freed"
      BY <1>4
    <2>3. \A x \in Drop : rec[x].st # "freed"
      BY <1>5
    <2>4. \A x \in Graph : rec[x].st # "freed"
      BY <1>6, <1>7
    <2>5. \A x \in Parents \ {None} : rec[x].st # "freed"
      BY <1>8, <1>9
    <2> HIDE DEF HeldBy, Drop, Graph, Parents
    <2> QED
      BY <2>1, <2>2, <2>3, <2>4, <2>5
  <1>11. ASSUME NEW x \in Tasks, rec[x].st \in {"wait", "run"}, rec[x].group # None
         PROVE  grp[rec[x].group].st = "open"
    <2>1. CASE rec[x].group # rec[x].home
      BY <1>1, <2>1 DEF GroupsOK
    <2>2. CASE rec[x].group = rec[x].home
      <3>1. Born(x) /\ x \notin Threads
        BY <1>1, NoneFree DEF RecsOK
      <3>2. ~ rec[x].inplace
        BY <1>11, <2>2, <3>1 DEF Born
      <3>3. GroupPending(x)
        BY <1>11, <3>2 DEF GroupPending, Deferred
      <3> QED
        BY <1>11, <2>2, <3>3, GroupHeld
    <2> QED
      BY <2>1, <2>2
  <1> QED
    BY <1>10, <1>11 DEF NoDangling

\* Once all threads are out nothing keeps a record: one that is left would need
\* an entry of an older record that is left.
LEMMA LeftInv ==
  ASSUME TasksInv
  PROVE  NothingLeft
  <1> SUFFICES ASSUME \A t \in Threads : Out(t)
               PROVE  /\ \A x \in Recs : rec[x].st \in {"none", "freed"}
                      /\ live = 0 /\ nwait = 0 /\ sleepers = 0 /\ hq = <<>>
                      /\ \A t \in Threads : dq[t] = <<>>
    BY DEF NothingLeft
  <1>1. Shape /\ StacksOK /\ RecsOK /\ QueuesOK /\ CountsOK /\ Tasks \subseteq Recs /\ Tasks \cap Threads = {}
    BY NoneFree DEF TasksInv
  <1>2. ASSUME NEW t \in Threads
        PROVE  /\ pc(t) = "out" /\ Len(stack[t]) = 1 /\ Cur(t) = t /\ rec[t].st = "freed"
               /\ Top(t).drop = <<>> /\ ~ Ending(Top(t))
    <2>1. pc(t) = "out" /\ Len(stack[t]) = 1
      BY CurIs DEF Out
    <2>2. Cur(t) = t /\ Top(t).tk = t /\ Top(t).pc = "out" /\ Fate(Top(t)) /\ Drops(Top(t))
      BY <2>1, CurIs
    <2> QED
      BY <2>1, <2>2 DEF Fate, Drops, Ending
  <1>3. live = 0
    BY <1>1, <1>2 DEF CountsOK, EndOK
  <1>4. nwait = 0 /\ sleepers = 0
    <2>1. {t \in Threads : pc(t) \in SlotPcs} = {} /\ {t \in Threads : pc(t) \in TcPcs} = {}
      BY <1>2 DEF SlotPcs, TcPcs
    <2> QED
      BY <1>1, <2>1, FS_EmptySet DEF CountsOK, SleepOK
  <1>5. ASSUME NEW x \in Tasks, ~ rec[x].inplace
        PROVE  rec[x].st \notin {"wait", "run"} /\ ~ Pending(x)
    <2> DEFINE S == {y \in Tasks : Unsettled(y)}
    <2>1. S = {}
      <3>1. IsFiniteSet(S) /\ Cardinality(S) = 0
        BY <1>1, <1>3, NoneFree, FS_Subset DEF CountsOK, LiveOK
      <3> QED
        BY <3>1, FS_EmptySet
    <2>2. rec[x].st \notin {"wait", "run"}
      BY <1>5, <2>1 DEF Unsettled, Deferred
    <2> QED
      BY <1>2, <2>2 DEF Pending
  <1>6. \A x : ~ Queued(x)
    <2>1. \A x : Queued(x) => x \in Tasks
      BY <1>1, ElementOfSeq DEF Queued, Shape
    <2>2. ASSUME NEW x \in Tasks, Queued(x)
          PROVE  FALSE
      <3>1. rec[x].st = "wait" /\ Born(x) /\ x \notin Threads
        BY <1>1, <2>2 DEF QueuesOK, RecsOK
      <3>2. ~ rec[x].inplace
        BY <3>1 DEF Born
      <3> QED
        BY <1>5, <3>1, <3>2
    <2> QED
      BY <2>1, <2>2
  <1>7. hq = <<>> /\ \A t \in Threads : dq[t] = <<>>
    <2>1. \A s \in Seq(Tasks) : s # <<>> => 1 \in DOMAIN s
      BY EmptySeq
    <2>2. hq \in Seq(Tasks) /\ \A t \in Threads : dq[t] \in Seq(Tasks)
      BY <1>1 DEF Shape
    <2> QED
      BY <1>6, <2>1, <2>2 DEF Queued
  <1>8. ASSUME NEW x \in Tasks, rec[x].st \notin {"none", "freed"}
        PROVE  \E z \in Tasks : z < x /\ rec[z].st \notin {"none", "freed"}
    <2>1. Born(x) /\ Gone(x) /\ x \notin Threads /\ rec[x] \in RecT
      BY <1>1 DEF RecsOK, Shape
    <2>2. ~ rec[x].inplace
      <3>1. ASSUME rec[x].inplace
            PROVE  OnStack(x)
        BY <1>8, <2>1, <3>1 DEF Born, RecT
      <3>2. ~ OnStack(x)
        <4>1. ASSUME NEW t \in Threads, NEW i \in DOMAIN stack[t]
              PROVE  stack[t][i].tk # x
          <5>1. i = 1 /\ Top(t) = stack[t][1]
            BY <1>1, <1>2, TopIs
          <5> QED
            BY <1>2, <2>1, <5>1 DEF Cur
        <4> QED
          BY <4>1 DEF OnStack
      <3> QED
        BY <3>1, <3>2
    <2>3. rec[x].refs > 0
      BY <1>8, <2>1, <2>2 DEF Gone, Deferred
    <2>4. RefersTo(x)
      BY <2>3, <1>1, RefsAre
    <2>5. ~ Pending(x)
      BY <1>5, <2>2
    <2>6. PendingOf(x) = {}
      BY <1>5 DEF PendingOf, Pending, Deferred
    <2>7. \A s \in Threads : ~ Names(Top(s).drop, x)
      BY <1>2 DEF Names
    <2>8. PICK z \in Recs : Names(DepRefs(rec[z]), x)
      BY <2>4, <2>5, <2>6, <2>7 DEF RefersTo
    <2>9. rec[x].parent = z /\ DepRefs(rec[z]) # <<>>
      BY <1>1, <2>8 DEF RecsOK, Entry, Names
    <2>10. rec[z].st # "freed"
      BY <1>1, <2>9 DEF RecsOK, Gone
    <2>11. z \in Tasks
      BY <1>2, <2>10 DEF Recs
    <2>12. rec[x].creator = z /\ z < x /\ \A y \in Tasks : y < x => rec[y].st # "none"
      BY <1>8, <2>1, <2>2, <2>9, <2>11 DEF Born
    <2> QED
      BY <2>10, <2>11, <2>12
  <1>9. \A x \in Tasks : rec[x].st \in {"none", "freed"}
    <2> DEFINE S == {x \in Tasks : rec[x].st \notin {"none", "freed"}}
    <2>1. S = {}
      <3> SUFFICES ASSUME S # {}
                   PROVE  FALSE
        OBVIOUS
      <3>1. S \in SUBSET Nat
        BY NoneFree
      <3>2. PICK m \in S : \A y \in S : m <= y
        BY <3>1, MinIs
      <3>3. PICK z \in S : z < m
        BY <1>8, <3>2
      <3> QED
        BY <3>1, <3>2, <3>3
    <2> QED
      BY <2>1
  <1> QED
    BY <1>2, <1>3, <1>4, <1>7, <1>9 DEF Recs

\* No counter of a region (references, children, a group's tasks, the count of
\* the team, the sleepers) goes below zero or past what it counts, whatever the
\* team, the programs and the interleaving.
THEOREM TasksTypeCorrect == Spec => []TypeOK
  <1>1. TasksInv => TypeOK
    BY TypesInv
  <1> QED
    BY <1>1, TasksInvariant, PTL

\* No thread, queue, dependence entry or running descendant refers to a record
\* that has been freed, and a taskgroup stays until the tasks in it are over.
THEOREM RecordsHeld == Spec => []NoDangling
  <1>1. TasksInv => NoDangling
    BY DanglingInv
  <1> QED
    BY <1>1, TasksInvariant, PTL

\* A thread that has passed a barrier finds every task created before it over,
\* and no thread is two barriers ahead of another.
THEOREM BarrierCorrect == Spec => []BarrierComplete
  <1>1. TasksInv => BarrierComplete
    BY PassedInv
  <1> QED
    BY <1>1, TasksInvariant, PTL

\* When all threads have left the region every record is freed, the queues are
\* empty and the counts of the team are zero.
THEOREM RegionClean == Spec => []NothingLeft
  <1>1. TasksInv => NothingLeft
    BY LeftInv
  <1> QED
    BY <1>1, TasksInvariant, PTL

-----------------------------------------------------------------------------
(* Ancestry and taskgroups.                                                 *)

\* A taskgroup outlives the record of nobody but its owner's; a task created in
\* one was not there when it was opened, and a deferred task inherits it unless
\* its creator was run in place in it.
JoinOK ==
  /\ \A g \in Groups : grp[g].st # "none" => rec[grp[g].owner].st # "none"
  /\ \A x \in Tasks : rec[x].st # "none" /\ rec[x].within # None =>
       grp[rec[x].within].st # "none" /\ grp[rec[x].within].owner # x
  /\ \A x \in Tasks : Deferred(x) /\ rec[x].within # None /\ rec[x].home # rec[x].within =>
       /\ rec[x].home = None
       /\ rec[rec[x].creator].home = None /\ rec[rec[x].creator].within = rec[x].within

\* What the properties to come are about: who created whom and in which group,
\* which tasks are on top of which, who was linked after whom.  Most steps leave
\* all that alone.
Core(q, r) ==
  /\ r.inplace = q.inplace /\ r.kind = q.kind /\ r.final = q.final /\ r.parent = q.parent
  /\ r.creator = q.creator /\ r.within = q.within /\ r.home = q.home
  /\ r.pred = q.pred /\ r.done = q.done /\ r.mark = q.mark
Keeps(y) ==
  /\ Core(rec[y], rec'[y])
  /\ (rec'[y].st = "none" <=> rec[y].st = "none") /\ (rec'[y].st = "wait" <=> rec[y].st = "wait")
  /\ (rec'[y].st = "run" => rec[y].st = "run" /\ rec'[y].writer = rec[y].writer /\ rec'[y].readers = rec[y].readers)
  /\ (Over(y) => Over(y)')
GroupsKeep(t) ==
  \A g \in Groups :
    /\ grp[g].st # "none" => grp'[g].st # "none" /\ grp'[g].owner = grp[g].owner
    /\ grp[g].st = "none" /\ grp'[g].st # "none" => grp'[g].owner = Cur(t) /\ rec[Cur(t)].st # "none"
Stays(t) ==
  \/ \E g : Topped(t, g) /\ g.tk = Cur(t) /\ g.pc # "link"
  \/ Popped(t) /\ Len(stack[t]) > 1
KeepsKin(t) ==
  /\ \A y \in Recs : Keeps(y)
  /\ GroupsKeep(t) /\ Stays(t) /\ pc(t) # "link"
  /\ dq' = dq /\ base' = base

LEMMA KeepsSame ==
  ASSUME NEW y, rec'[y] = rec[y]
  PROVE  Keeps(y)
  BY DEF Keeps, Core, Over

LEMMA KeepsOne ==
  ASSUME NEW x, Keeps(x), \A y \in Recs : y # x => rec'[y] = rec[y]
  PROVE  \A y \in Recs : Keeps(y)
  BY KeepsSame

LEMMA SetStays ==
  ASSUME Shape, StacksOK, NEW t \in Threads, NEW f \in FrameT, SetTop(t, f), f.tk = Cur(t), f.pc # "link"
  PROVE  Stays(t)
  BY SetTopStep DEF Stays

LEMMA GotoStays ==
  ASSUME Shape, StacksOK, NEW t \in Threads, NEW p \in Pcs, Goto(t, p), p # "link"
  PROVE  Stays(t)
  <1>1. PICK g \in FrameT : Topped(t, g) /\ g.tk = Cur(t) /\ g.pc = p
    BY GotoStep
  <1> QED
    BY <1>1 DEF Stays

LEMMA PopStays ==
  ASSUME Shape, StacksOK, NEW t \in Threads, Len(stack[t]) > 1, Pop(t)
  PROVE  Stays(t)
  BY PopStep DEF Stays

\* A step that changes no record and frees no group.
LEMMA SameQuiet ==
  ASSUME NEW t \in Threads, rec' = rec, Stays(t), pc(t) # "link", dq' = dq, base' = base,
         \A g \in Groups : grp'[g].st = grp[g].st /\ grp'[g].owner = grp[g].owner
  PROVE  KeepsKin(t)
  <1>1. \A y \in Recs : Keeps(y)
    BY KeepsSame
  <1>2. GroupsKeep(t)
    BY DEF GroupsKeep
  <1> QED
    BY <1>1, <1>2 DEF KeepsKin

LEMMA FrameStays ==
  ASSUME Shape, StacksOK, NEW t \in Threads, NEW p \in Pcs, p # "link", SetTop(t, Frame(Cur(t), p))
  PROVE  Stays(t)
  <1>1. Cur(t) \in Recs
    BY TopIs
  <1>2. PICK f : f = Frame(Cur(t), p)
    OBVIOUS
  <1>3. f \in FrameT /\ f.tk = Cur(t) /\ f.pc = p
    BY <1>1, <1>2, FrameIs DEF IsFrame
  <1> QED
    BY <1>2, <1>3, SetStays

LEMMA WaitStays ==
  ASSUME Shape, StacksOK, NEW t \in Threads, NEW c \in Ctrs, WaitFor(t, c)
  PROVE  Stays(t)
  <1>1. Cur(t) \in Recs /\ "wait" \in Pcs
    BY TopIs, PcIs DEF WaitPcs
  <1>2. PICK f : f = [Frame(Cur(t), "wait") EXCEPT !.ctr = c]
    OBVIOUS
  <1>3. f \in FrameT /\ f.tk = Cur(t) /\ f.pc = "wait"
    BY <1>1, <1>2, CtrFrameIs DEF IsFrame
  <1> QED
    BY <1>2, <1>3, SetStays DEF WaitFor

LEMMA TaskWaitQuiet ==
  ASSUME TasksInv, NEW t \in Threads, TaskWait(t)
  PROVE  KeepsKin(t)
  <1>1. Shape /\ StacksOK /\ pc(t) = "body" /\ Cur(t) \in Recs
    BY CurIs DEF TaskWait
  <1>2. <<"children", Cur(t)>> \in Ctrs
    BY <1>1 DEF Ctrs
  <1> QED
    BY <1>1, <1>2, WaitStays, SameQuiet DEF TaskWait, qVars

LEMMA GroupWaitQuiet ==
  ASSUME TasksInv, NEW t \in Threads, GroupWait(t)
  PROVE  KeepsKin(t)
  <1>1. Shape /\ StacksOK /\ pc(t) = "body" /\ Cur(t) \in Recs
    BY CurIs DEF GroupWait
  <1>2. rec[Cur(t)].group \in Groups
    BY <1>1 DEF GroupWait, OpenGroup, Shape, RecT
  <1>3. <<"group", rec[Cur(t)].group>> \in Ctrs
    BY <1>2 DEF Ctrs
  <1> QED
    BY <1>1, <1>3, WaitStays, SameQuiet DEF GroupWait, qVars

LEMMA WaitOverQuiet ==
  ASSUME TasksInv, NEW t \in Threads, WaitOver(t)
  PROVE  KeepsKin(t)
  <1>1. Shape /\ StacksOK /\ pc(t) = "wait"
    BY CurIs DEF WaitOver, Waits
  <1>2. PICK p \in Pcs : p # "link" /\ SetTop(t, Frame(Cur(t), p))
    BY PcIs DEF WaitOver
  <1> QED
    BY <1>1, <1>2, FrameStays, SameQuiet DEF WaitOver, qVars

LEMMA GotoQuiet ==
  ASSUME TasksInv, NEW t \in Threads, NEW p \in Pcs, Goto(t, p), p # "link", pc(t) # "link",
         UNCHANGED <<rec, grp, qVars>>
  PROVE  KeepsKin(t)
  BY CurIs, GotoStays, SameQuiet DEF qVars

LEMMA SleepQuiet ==
  ASSUME TasksInv, NEW t \in Threads,
         LookNothing(t) \/ WaitWatch(t) \/ WaitCheck(t) \/ WaitWoken(t) \/ FindNothing(t) \/ Announce(t) \/ SpuriousWake(t)
  PROVE  KeepsKin(t)
  <1>1. UNCHANGED <<rec, grp, qVars>> /\ pc(t) # "link"
    BY DEF LookNothing, WaitWatch, WaitCheck, WaitWoken, FindNothing, Announce, SpuriousWake, MustWait
  <1>2. PICK p : Goto(t, p) /\ p \in {"watch", "check", "asleep", "wait", "announce", "doze", "woken", "roused"}
    BY DEF LookNothing, WaitWatch, WaitCheck, WaitWoken, FindNothing, Announce, SpuriousWake, Unwatch
  <1>3. p \in Pcs /\ p # "link"
    BY <1>2, PcIs DEF WaitPcs, IdlePcs, TcPcs
  <1> QED
    BY <1>1, <1>2, <1>3, GotoQuiet

\* Setting one field of a record leaves its identity and its predecessors alone.
SameState(q, r) == r.st = q.st /\ r.writer = q.writer /\ r.readers = q.readers

\* The lemmas name the field that is set.
LEMMA StCore ==
  ASSUME NEW q \in RecT, NEW v
  PROVE  Core(q, [q EXCEPT !.st = v]) /\ [q EXCEPT !.st = v].st = v
  BY DEF RecT, Core

LEMMA EndCore ==
  ASSUME NEW q \in RecT, NEW v
  PROVE  Core(q, [FreeDeps(q) EXCEPT !.st = v]) /\ [FreeDeps(q) EXCEPT !.st = v].st = v
  BY DEF RecT, Core, FreeDeps

LEMMA GroupCore ==
  ASSUME NEW q \in RecT, NEW v
  PROVE  Core(q, [q EXCEPT !.group = v]) /\ SameState(q, [q EXCEPT !.group = v])
  BY DEF RecT, Core, SameState

LEMMA EpochCore ==
  ASSUME NEW q \in RecT, NEW v
  PROVE  Core(q, [q EXCEPT !.epoch = v]) /\ SameState(q, [q EXCEPT !.epoch = v])
  BY DEF RecT, Core, SameState

LEMMA ChildrenCore ==
  ASSUME NEW q \in RecT, NEW v
  PROVE  Core(q, [q EXCEPT !.children = v]) /\ SameState(q, [q EXCEPT !.children = v])
  BY DEF RecT, Core, SameState

LEMMA RefsCore ==
  ASSUME NEW q \in RecT, NEW v
  PROVE  Core(q, [q EXCEPT !.refs = v]) /\ SameState(q, [q EXCEPT !.refs = v])
  BY DEF RecT, Core, SameState

\* A task ends or is freed, whatever becomes of its entry.
LEMMA EndsKeep ==
  ASSUME Shape, NEW x \in Recs, rec[x].st \in {"run", "over", "freed"}, NEW q, NEW s \in {"over", "freed"},
         q = [rec[x] EXCEPT !.st = s] \/ q = [FreeDeps(rec[x]) EXCEPT !.st = s],
         rec' = [rec EXCEPT ![x] = q]
  PROVE  \A y \in Recs : Keeps(y)
  <1>1. rec \in [Recs -> RecT] /\ rec[x] \in RecT
    BY DEF Shape
  <1>2. rec'[x] = q /\ \A y \in Recs : y # x => rec'[y] = rec[y]
    BY <1>1
  <1>3. Core(rec[x], q) /\ q.st = s
    <2>1. CASE q = [rec[x] EXCEPT !.st = s]
      BY <1>1, <2>1, StCore
    <2>2. CASE q = [FreeDeps(rec[x]) EXCEPT !.st = s]
      BY <1>1, <2>2, EndCore
    <2> QED
      BY <2>1, <2>2
  <1>4. Keeps(x)
    BY <1>2, <1>3 DEF Keeps, Over
  <1> QED
    BY <1>2, <1>4, KeepsOne

\* A record changes in a way that matters to none of this.
LEMMA CountKeep ==
  ASSUME Shape, NEW x \in Recs, NEW q, NEW v,
         q = [rec[x] EXCEPT !.group = v] \/ q = [rec[x] EXCEPT !.epoch = v] \/ q = [rec[x] EXCEPT !.refs = v],
         rec' = [rec EXCEPT ![x] = q]
  PROVE  \A y \in Recs : Keeps(y)
  <1>1. rec \in [Recs -> RecT] /\ rec[x] \in RecT
    BY DEF Shape
  <1>2. rec'[x] = q /\ \A y \in Recs : y # x => rec'[y] = rec[y]
    BY <1>1
  <1>3. Core(rec[x], q) /\ q.st = rec[x].st /\ q.writer = rec[x].writer /\ q.readers = rec[x].readers
    <2>1. CASE q = [rec[x] EXCEPT !.group = v]
      BY <1>1, <2>1, GroupCore DEF SameState
    <2>2. CASE q = [rec[x] EXCEPT !.epoch = v]
      BY <1>1, <2>2, EpochCore DEF SameState
    <2>3. CASE q = [rec[x] EXCEPT !.refs = v]
      BY <1>1, <2>3, RefsCore DEF SameState
    <2> QED
      BY <2>1, <2>2, <2>3
  <1>4. Keeps(x)
    BY <1>2, <1>3 DEF Keeps, Over
  <1> QED
    BY <1>2, <1>4, KeepsOne

LEMMA SpawnWakeQuiet ==
  ASSUME TasksInv, NEW t \in Threads, SpawnWake(t)
  PROVE  KeepsKin(t)
  <1>1. Shape /\ StacksOK /\ pc(t) = "wake" /\ Cur(t) \in Recs /\ UNCHANGED <<rec, grp, qVars>>
    BY CurIs DEF SpawnWake
  <1>2. Stays(t)
    <2>1. CASE Goto(t, "body")
      BY <1>1, <2>1, GotoStays, PcIs
    <2>2. ASSUME NEW ts \in Signalled(1), stack' = Rouse(WithTop(t, Frame(Cur(t), "body")), ts, "roused")
          PROVE  Stays(t)
      <3>1. PICK f : f = Frame(Cur(t), "body")
        OBVIOUS
      <3>2. f \in FrameT /\ f.tk = Cur(t) /\ f.pc = "body"
        BY <1>1, <3>1, FrameIs, PcIs DEF IsFrame
      <3>3. ts \in SUBSET OnTc /\ t \notin ts
        BY <1>1 DEF Signalled, OnTc
      <3>4. Topped(t, f)
        BY <1>1, <2>2, <3>1, <3>2, <3>3, RouseTc
      <3> QED
        BY <3>2, <3>4 DEF Stays
    <2> QED
      BY <2>1, <2>2 DEF SpawnWake
  <1> QED
    BY <1>1, <1>2, SameQuiet DEF qVars

LEMMA NotifyQuiet ==
  ASSUME TasksInv, NEW t \in Threads, Notify(t)
  PROVE  KeepsKin(t)
  <1> DEFINE f == Top(t)
             cs == Tail(f.tell)
             g == ToNotify(f, cs, f.next)
             ws == {s \in Threads : nwait # 0 /\ watch[s] = Head(f.tell)}
  <1>1. /\ Shape /\ StacksOK /\ Cur(t) \in Recs /\ pc(t) = "notify" /\ f \in FrameT
        /\ Drops(f) /\ f.tk = Cur(t) /\ f.pc = "notify"
        /\ UNCHANGED <<rec, grp, qVars>>
        /\ stack' = Rouse(WithTop(t, g), ws \cap OnSlot, "woken")
    BY CurIs DEF Notify, pc
  <1>2. f.tell # <<>> /\ f.next \in {"children", "group", "unref"}
    BY <1>1 DEF Drops
  <1>3. cs \in Seq(Ctrs)
    BY <1>1, <1>2, HeadTailProperties DEF FrameT
  <1> HIDE DEF cs
  <1>4. Told(g, f, cs, f.next)
    BY <1>1, <1>2, <1>3, NotifyIs
  <1>5. (ws \cap OnSlot) \in SUBSET OnSlot /\ t \notin (ws \cap OnSlot)
    BY <1>1 DEF OnSlot
  <1> HIDE DEF g, ws
  <1>6. g \in FrameT /\ g.tk = Cur(t) /\ g.pc # "link"
    BY <1>1, <1>2, <1>4 DEF Told
  <1>7. Topped(t, g)
    BY <1>1, <1>5, <1>6, RouseSlot
  <1> QED
    BY <1>1, <1>6, <1>7, SameQuiet DEF Stays, qVars

LEMMA GroupDoneQuiet ==
  ASSUME TasksInv, NEW t \in Threads, GroupDone(t)
  PROVE  KeepsKin(t)
  <1>1. Shape /\ StacksOK /\ Top(t) \in FrameT /\ Cur(t) \in Recs /\ Top(t).tk = Cur(t) /\ rec[Cur(t)].group \in Groups \cup {None}
    BY CurIs DEF Shape, RecT
  <1>2. PICK g : g = rec[Cur(t)].group
    OBVIOUS
  <1> DEFINE cs == IF grp[g].count = 1 THEN <<<<"group", g>>>> ELSE <<>>
             f == ToNotify(Top(t), cs, "unref")
  <1>3. /\ pc(t) = "group" /\ grp' = [grp EXCEPT ![g].count = @ - 1] /\ SetTop(t, f)
        /\ UNCHANGED <<rec, qVars>>
    BY <1>2 DEF GroupDone
  <1>4. g \in Groups
    BY <1>1, <1>2, <1>3, CurIs DEF Drops
  <1>5. cs \in Seq(Ctrs)
    <2>1. <<"group", g>> \in Ctrs
      BY <1>4 DEF Ctrs
    <2> QED
      BY <2>1
  <1> HIDE DEF cs
  <1>6. Told(f, Top(t), cs, "unref")
    BY <1>1, <1>5, NotifyIs
  <1> HIDE DEF f
  <1>7. f \in FrameT /\ f.tk = Cur(t) /\ f.pc # "link"
    BY <1>1, <1>6 DEF Told
  <1>8. Stays(t)
    BY <1>1, <1>3, <1>7, SetStays
  <1>9. \A h \in Groups : grp'[h].st = grp[h].st /\ grp'[h].owner = grp[h].owner
    BY <1>1, <1>3, <1>4 DEF Shape, GrpT
  <1> QED
    BY <1>3, <1>8, <1>9, SameQuiet DEF qVars
LEMMA LiveDownQuiet ==
  ASSUME TasksInv, NEW t \in Threads, LiveDown(t)
  PROVE  KeepsKin(t)
  <1>1. /\ Shape /\ StacksOK /\ RecsOK /\ Cur(t) \in Recs /\ Top(t).tk = Cur(t) /\ Top(t).pc = pc(t)
        /\ Fate(Top(t)) /\ (Len(stack[t]) = 1 => Cur(t) = t)
    BY CurIs
  <1>2. pc(t) = "live" /\ (Pop(t) \/ Goto(t, "wakeall")) /\ UNCHANGED <<rec, grp, qVars>>
    BY DEF LiveDown
  <1>3. Len(stack[t]) > 1
    BY <1>1, <1>2, Deeper, NoneFree DEF Fate, Deferred
  <1>4. Stays(t)
    BY <1>1, <1>2, <1>3, PopStays, GotoStays, PcIs
  <1> QED
    BY <1>2, <1>4, SameQuiet DEF qVars

LEMMA WakeAllQuiet ==
  ASSUME TasksInv, NEW t \in Threads, WakeAll(t)
  PROVE  KeepsKin(t)
  <1>1. /\ Shape /\ StacksOK /\ RecsOK /\ Cur(t) \in Recs /\ Top(t).tk = Cur(t) /\ Top(t).pc = pc(t)
        /\ Fate(Top(t)) /\ (Len(stack[t]) = 1 => Cur(t) = t)
    BY CurIs
  <1>2. /\ pc(t) = "wakeall" /\ UNCHANGED <<rec, grp, qVars>>
        /\ Pop(t) \/ stack' = Rouse([stack EXCEPT ![t] = Front(@)], OnTc, "roused")
    BY DEF WakeAll
  <1>3. Len(stack[t]) > 1
    BY <1>1, <1>2, Deeper, NoneFree DEF Fate, Deferred
  <1>4. Stays(t)
    BY <1>1, <1>2, <1>3, PopStays, WakePopped DEF Stays
  <1> QED
    BY <1>2, <1>4, SameQuiet DEF qVars

\* A step that changes no group.
LEMMA KeptQuiet ==
  ASSUME NEW t \in Threads, \A y \in Recs : Keeps(y), Stays(t), pc(t) # "link", UNCHANGED <<grp, qVars>>
  PROVE  KeepsKin(t)
  <1>1. GroupsKeep(t)
    BY DEF GroupsKeep
  <1> QED
    BY <1>1 DEF KeepsKin, qVars

LEMMA LeavingQuiet ==
  ASSUME TasksInv, NEW t \in Threads, Leaving(t), pc(t) # "link", rec[Cur(t)].st \in {"run", "over"},
         UNCHANGED <<grp, qVars>>
  PROVE  KeepsKin(t)
  <1>1. Shape /\ StacksOK /\ Cur(t) \in Recs
    BY CurIs
  <1>2. PICK x \in Recs : x = Cur(t)
    BY <1>1
  <1>3. rec[x] \in RecT
    BY <1>1 DEF Shape
  <1>4. PICK d \in Seq(Recs) : d = DepRefs(rec[x])
    BY <1>3, DepRefsIs
  <1>5. PICK p \in {"leave", "unref"} : p = IF d = <<>> THEN "leave" ELSE "unref"
    OBVIOUS
  <1>6. PICK q : q = [FreeDeps(rec[x]) EXCEPT !.st = "over"]
    OBVIOUS
  <1>7. rec' = [rec EXCEPT ![x] = q] /\ SetTop(t, [Frame(x, p) EXCEPT !.drop = d])
    BY <1>2, <1>4, <1>5, <1>6 DEF Leaving
  <1>8. PICK f : f = [Frame(x, p) EXCEPT !.drop = d]
    OBVIOUS
  <1>9. f \in FrameT /\ f.tk = x /\ f.pc = p
    <2>1. p \in Pcs
      BY PcIs
    <2> QED
      BY <1>8, <2>1, EmptySeq DEF Frame, FrameT, Ctrs
  <1>10. Stays(t)
    BY <1>1, <1>2, <1>7, <1>8, <1>9, SetStays
  <1>11. \A y \in Recs : Keeps(y)
    BY <1>1, <1>2, <1>6, <1>7, EndsKeep
  <1> QED
    BY <1>10, <1>11, KeptQuiet

LEMMA FinishRefsQuiet ==
  ASSUME TasksInv, NEW t \in Threads, FinishRefs(t)
  PROVE  KeepsKin(t)
  <1>1. Fate(Top(t)) /\ Top(t).tk = Cur(t) /\ Top(t).pc = pc(t) /\ pc(t) = "refs"
    BY CurIs DEF FinishRefs
  <1>2. rec[Cur(t)].st = "over"
    BY <1>1 DEF Fate
  <1> QED
    BY <1>1, <1>2, LeavingQuiet DEF FinishRefs

LEMMA DrainTestQuiet ==
  ASSUME TasksInv, NEW t \in Threads, DrainTest(t)
  PROVE  KeepsKin(t)
  <1>1. /\ Fate(Top(t)) /\ Top(t).tk = Cur(t) /\ Top(t).pc = pc(t) /\ pc(t) \in {"drain", "body"}
        /\ Shape /\ StacksOK /\ UNCHANGED <<grp, qVars>>
    BY CurIs DEF DrainTest, BodyOver
  <1>2. rec[Cur(t)].st = "run"
    BY <1>1 DEF Fate, RunPcs, IdlePcs
  <1>3. CASE Goto(t, "find") /\ UNCHANGED rec
    <2>1. "find" \in Pcs
      BY PcIs DEF IdlePcs
    <2>2. Stays(t)
      BY <1>1, <1>3, <2>1, GotoStays
    <2> QED
      BY <1>1, <1>3, <2>2, SameQuiet DEF qVars
  <1>4. CASE Leaving(t)
    BY <1>1, <1>2, <1>4, LeavingQuiet
  <1> QED
    BY <1>3, <1>4 DEF DrainTest

LEMMA EndInPlaceQuiet ==
  ASSUME TasksInv, NEW t \in Threads, EndInPlace(t)
  PROVE  KeepsKin(t)
  <1>1. /\ Shape /\ StacksOK /\ Cur(t) \in Recs /\ Fate(Top(t)) /\ Top(t).tk = Cur(t) /\ Top(t).pc = pc(t)
    BY CurIs
  <1>2. PICK x \in Recs : x = Cur(t)
    BY <1>1
  <1>3. PICK s \in {"over", "freed"} :
          /\ pc(t) = "body" /\ Len(stack[t]) > 1 /\ rec' = [rec EXCEPT ![x].st = s]
          /\ WaitFor(t, <<"children", x>>) \/ Pop(t)
          /\ UNCHANGED <<grp, qVars>>
    BY <1>2 DEF EndInPlace, Ends
  <1>4. rec[x].st = "run" /\ <<"children", x>> \in Ctrs
    BY <1>1, <1>2, <1>3 DEF Fate, RunPcs, Ctrs
  <1>5. Stays(t)
    BY <1>1, <1>3, <1>4, WaitStays, PopStays
  <1>6. PICK q : q = [rec[x] EXCEPT !.st = s]
    OBVIOUS
  <1>7. rec' = [rec EXCEPT ![x] = q]
    BY <1>3, <1>6
  <1>8. \A y \in Recs : Keeps(y)
    BY <1>1, <1>4, <1>6, <1>7, EndsKeep
  <1> QED
    BY <1>3, <1>5, <1>8, KeptQuiet

LEMMA LeaveQuiet ==
  ASSUME TasksInv, NEW t \in Threads, Leave(t)
  PROVE  KeepsKin(t)
  <1>1. /\ Shape /\ StacksOK /\ Cur(t) \in Recs /\ Fate(Top(t)) /\ Top(t).tk = Cur(t) /\ Top(t).pc = pc(t)
    BY CurIs
  <1>2. PICK x \in Recs : x = Cur(t)
    BY <1>1
  <1>3. /\ pc(t) = "leave" /\ rec' = [rec EXCEPT ![x].st = "freed"]
        /\ (IF Len(stack[t]) = 1 THEN Goto(t, "out") ELSE Pop(t)) /\ UNCHANGED <<grp, qVars>>
    BY <1>2 DEF Leave
  <1>4. rec[x].st = "over"
    BY <1>1, <1>2, <1>3 DEF Fate
  <1>5. Stays(t)
    <2>1. CASE Len(stack[t]) = 1
      BY <1>1, <1>3, <2>1, GotoStays, PcIs
    <2>2. CASE Len(stack[t]) # 1
      BY <1>1, <1>3, <2>2, Deeper, PopStays
    <2> QED
      BY <2>1, <2>2
  <1>6. PICK q : q = [rec[x] EXCEPT !.st = "freed"]
    OBVIOUS
  <1>7. rec' = [rec EXCEPT ![x] = q]
    BY <1>3, <1>6
  <1>8. \A y \in Recs : Keeps(y)
    BY <1>1, <1>4, <1>6, <1>7, EndsKeep
  <1> QED
    BY <1>3, <1>5, <1>8, KeptQuiet

LEMMA ChildDoneQuiet ==
  ASSUME TasksInv, NEW t \in Threads, ChildDone(t)
  PROVE  KeepsKin(t)
  <1>1. /\ Shape /\ StacksOK /\ RecsOK /\ Cur(t) \in Recs /\ Top(t).tk = Cur(t) /\ Top(t).pc = pc(t)
        /\ Fate(Top(t)) /\ (Len(stack[t]) # 1 => Cur(t) \in Tasks)
    BY CurIs
  <1>2. PICK x \in Recs : x = Cur(t)
    BY <1>1
  <1>3. PICK p : p = rec[x].parent
    OBVIOUS
  <1> DEFINE cs == IF rec[p].children = 1 THEN <<<<"children", p>>>> ELSE <<>>
             next == IF rec[x].group = None THEN "unref" ELSE "group"
             f == ToNotify([Frame(x, "") EXCEPT !.drop = Dropped(x)], cs, next)
  <1>4. /\ pc(t) = "children" \/ (Ends(t) /\ ~ Tracked(x) /\ ~ rec[x].inplace)
        /\ rec' = [rec EXCEPT ![p].children = @ - 1, ![x].st = "over"] /\ SetTop(t, f)
        /\ UNCHANGED <<grp, qVars>>
    BY <1>2, <1>3 DEF ChildDone
  <1>5. Deferred(x) /\ rec[x].st \in {"run", "over"} /\ pc(t) # "link"
    <2>1. CASE pc(t) = "children"
      BY <1>1, <1>2, <2>1 DEF Fate
    <2>2. CASE Ends(t) /\ ~ Tracked(x) /\ ~ rec[x].inplace
      <3>1. pc(t) = "body" /\ Len(stack[t]) # 1
        BY <1>1, <2>2, TopIs DEF Ends
      <3> QED
        BY <1>1, <1>2, <2>2, <3>1 DEF Fate, RunPcs, Deferred
    <2> QED
      BY <1>4, <2>1, <2>2
  <1>6. p \in Recs /\ p # x
    <2>1. x \notin Threads /\ Born(x)
      BY <1>1, <1>5, NoneFree DEF RecsOK, Deferred
    <2>2. rec[x].creator \in Recs /\ (rec[x].creator \in Tasks => rec[x].creator < x) /\ rec[x].parent = rec[x].creator
      BY <1>5, <2>1 DEF Born, Deferred
    <2> QED
      BY <1>3, <1>5, <2>2, NoneFree DEF Recs, Deferred
  <1>7. cs \in Seq(Ctrs) /\ next \in {"group", "unref"} /\ Dropped(x) \in Seq(Recs)
    <2>1. <<"children", p>> \in Ctrs
      BY <1>6 DEF Ctrs
    <2> QED
      BY <1>3, <1>6, <2>1, EmptySeq DEF Dropped
  <1> HIDE DEF cs, next
  <1>8. IsTold(f, x, Dropped(x), cs, next)
    BY <1>7, ToldIs
  <1> HIDE DEF f
  <1>9. f \in FrameT /\ f.tk = x /\ f.pc # "link"
    BY <1>7, <1>8 DEF IsTold
  <1>10. Stays(t)
    BY <1>1, <1>2, <1>4, <1>9, SetStays
  <1>11. \A y \in Recs : Keeps(y)
    <2>1. rec[p] \in RecT /\ rec[x] \in RecT /\ rec \in [Recs -> RecT] /\ rec[p].children \in Int
      BY <1>1, <1>6 DEF Shape, RecT
    <2>2. PICK n \in Int : n = rec[p].children - 1
      BY <2>1
    <2>3. PICK q : q = [rec[p] EXCEPT !.children = n]
      OBVIOUS
    <2>4. PICK r : r = [rec[x] EXCEPT !.st = "over"]
      OBVIOUS
    <2>5. rec' = [rec EXCEPT ![p] = q, ![x] = r]
      BY <1>4, <1>6, <2>2, <2>3, <2>4
    <2>6. q \in RecT /\ r \in RecT
      BY <2>1, <2>2, <2>3, <2>4, ChildrenSet, StSet
    <2>7. rec'[p] = q /\ rec'[x] = r /\ \A y \in Recs : y # p /\ y # x => rec'[y] = rec[y]
      BY <1>6, <2>1, <2>5, <2>6, RecSet2
    <2>8. Core(rec[p], q) /\ q.st = rec[p].st /\ q.writer = rec[p].writer /\ q.readers = rec[p].readers
      BY <2>1, <2>3, ChildrenCore DEF SameState
    <2>9. Core(rec[x], r) /\ r.st = "over"
      BY <2>1, <2>4, StCore
    <2>10. Keeps(p)
      BY <2>7, <2>8 DEF Keeps, Over
    <2>11. Keeps(x)
      BY <1>5, <2>7, <2>9 DEF Keeps, Over
    <2> QED
      BY <2>7, <2>10, <2>11, KeepsSame
  <1> QED
    BY <1>4, <1>5, <1>10, <1>11, KeptQuiet

LEMMA UnrefQuiet ==
  ASSUME TasksInv, NEW t \in Threads, Unref(t)
  PROVE  KeepsKin(t)
  <1>1. PICK x \in Recs, y \in Recs, g \in FrameT : DropStep(t, x, y, g)
    BY DropStepIs
  <1>2. /\ x = Cur(t) /\ pc(t) = "unref" /\ Top(t).drop # <<>> /\ y = Head(Top(t).drop)
        /\ Topped(t, g) /\ g.tk = x /\ (g.drop # <<>> => g.pc = "unref") /\ (g.drop = <<>> => g.pc = AfterUnref(Top(t)))
        /\ UNCHANGED <<grp, qVars>>
    BY <1>1 DEF DropStep
  <1>3. g.pc # "link"
    BY <1>2, AfterIs
  <1>4. Stays(t)
    BY <1>2, <1>3 DEF Stays
  <1>5. Shape /\ rec[y] \in RecT /\ rec \in [Recs -> RecT]
    BY CurIs DEF Shape
  <1>6. (rec[y].refs = 1 /\ ~ Static(y)) => rec[y].st = "over"
    BY <1>2, DropHeld DEF Last1
  <1>7. PICK v : v = rec[y].refs - 1
    OBVIOUS
  <1>8. PICK q : q = IF rec[y].refs = 1 /\ ~ Static(y) THEN [FreeDeps(rec[y]) EXCEPT !.refs = 0, !.st = "freed"]
                     ELSE [rec[y] EXCEPT !.refs = v]
    OBVIOUS
  <1>9. rec' = [rec EXCEPT ![y] = q]
    BY <1>2, <1>7, <1>8 DEF Unref
  <1>10. rec'[y] = q /\ \A z \in Recs : z # y => rec'[z] = rec[z]
    BY <1>5, <1>9
  <1>11. Keeps(y)
    <2>1. CASE rec[y].refs = 1 /\ ~ Static(y)
      <3>1. q = [FreeDeps(rec[y]) EXCEPT !.refs = 0, !.st = "freed"]
        BY <1>8, <2>1
      <3>2. Core(rec[y], q) /\ q.st = "freed"
        BY <1>5, <3>1 DEF RecT, Core, FreeDeps
      <3> QED
        BY <1>6, <1>10, <2>1, <3>2 DEF Keeps, Over
    <2>2. CASE ~ (rec[y].refs = 1 /\ ~ Static(y))
      <3>1. q = [rec[y] EXCEPT !.refs = v]
        BY <1>8, <2>2
      <3>2. Core(rec[y], q) /\ q.st = rec[y].st /\ q.writer = rec[y].writer /\ q.readers = rec[y].readers
        BY <1>5, <3>1, RefsCore DEF SameState
      <3> QED
        BY <1>10, <3>2 DEF Keeps, Over
    <2> QED
      BY <2>1, <2>2
  <1>12. \A z \in Recs : Keeps(z)
    BY <1>10, <1>11, KeepsOne
  <1> QED
    BY <1>2, <1>4, <1>12, KeptQuiet

LEMMA GroupBeginQuiet ==
  ASSUME TasksInv, NEW t \in Threads, GroupBegin(t)
  PROVE  KeepsKin(t)
  <1>1. /\ Shape /\ StacksOK /\ Top(t) \in FrameT /\ Cur(t) \in Recs /\ Top(t).tk = Cur(t) /\ Top(t).pc = pc(t)
        /\ Fate(Top(t)) /\ grp \in [Groups -> GrpT]
    BY CurIs DEF Shape
  <1>2. PICK x \in Recs : x = Cur(t)
    BY <1>1
  <1>3. PICK g \in Groups :
          /\ (\A h \in Groups : grp[h].st = "none" <=> h >= g)
          /\ grp' = [grp EXCEPT ![g] = [st |-> "open", parent |-> rec[x].group, count |-> 0, owner |-> x]]
          /\ rec' = [rec EXCEPT ![x].group = g]
    BY <1>2 DEF GroupBegin
  <1>4. pc(t) = "body" /\ stack' = stack /\ UNCHANGED qVars
    BY DEF GroupBegin, Active
  <1>5. rec[x].st = "run"
    BY <1>1, <1>2, <1>4 DEF Fate, RunPcs
  <1>6. PICK q : q = [rec[x] EXCEPT !.group = g]
    OBVIOUS
  <1>7. rec' = [rec EXCEPT ![x] = q]
    BY <1>3, <1>6
  <1>8. \A y \in Recs : Keeps(y)
    BY <1>1, <1>6, <1>7, CountKeep
  <1>9. PICK f \in FrameT : f = Top(t)
    BY <1>1
  <1>10. Topped(t, f)
    BY <1>1, <1>4, <1>9, TopIs DEF Topped, Below, Others, Woken, Shape
  <1>11. Stays(t)
    BY <1>1, <1>4, <1>9, <1>10 DEF Stays
  <1>12. GroupsKeep(t)
    <2>1. grp[g].st = "none"
      <3>1. g >= g
        BY TasksAssumption DEF Groups
      <3> QED
        BY <1>3, <3>1
    <2>2. grp'[g].owner = x /\ \A h \in Groups : h # g => grp'[h] = grp[h]
      BY <1>1, <1>3
    <2> QED
      BY <1>2, <1>5, <2>1, <2>2 DEF GroupsKeep
  <1> QED
    BY <1>4, <1>8, <1>11, <1>12 DEF KeepsKin, qVars

LEMMA GroupEndQuiet ==
  ASSUME TasksInv, NEW t \in Threads, GroupEnd(t)
  PROVE  KeepsKin(t)
  <1>1. /\ Shape /\ StacksOK /\ Cur(t) \in Recs /\ Top(t).tk = Cur(t) /\ Top(t).pc = pc(t)
        /\ Counts(Top(t)) /\ grp \in [Groups -> GrpT]
    BY CurIs DEF Shape
  <1>2. PICK x \in Recs : x = Cur(t)
    BY <1>1
  <1>3. pc(t) = "wait" /\ Top(t).ctr[1] = "group"
    BY DEF GroupEnd, Waits
  <1>4. PICK g \in Groups : Top(t).ctr = <<"group", g>> /\ rec[x].group = g /\ grp[g].owner = x
    BY <1>1, <1>2, <1>3 DEF Counts, WaitPcs
  <1>5. PICK p : p = grp[g].parent
    OBVIOUS
  <1>6. /\ rec' = [rec EXCEPT ![x].group = p] /\ grp' = [grp EXCEPT ![g].st = "freed"]
        /\ SetTop(t, Frame(x, "body")) /\ UNCHANGED qVars
    BY <1>2, <1>4, <1>5 DEF GroupEnd
  <1>7. Stays(t)
    BY <1>1, <1>2, <1>6, FrameStays, PcIs
  <1>8. PICK q : q = [rec[x] EXCEPT !.group = p]
    OBVIOUS
  <1>9. rec' = [rec EXCEPT ![x] = q]
    BY <1>6, <1>8
  <1>10. \A y \in Recs : Keeps(y)
    BY <1>1, <1>8, <1>9, CountKeep
  <1>11. grp[g].st # "none"
    <2>1. rec[x].st = "run" /\ rec[x].group # None
      BY <1>1, <1>2, <1>3, <1>4, NoneFree DEF Counts, WaitPcs
    <2> QED
      BY <1>4, <2>1, InOpenGroup
  <1>12. GroupsKeep(t)
    <2>1. \A h \in Groups : grp'[h].owner = grp[h].owner /\ (h # g => grp'[h].st = grp[h].st) /\ grp'[g].st = "freed"
      BY <1>1, <1>6 DEF GrpT
    <2> QED
      BY <1>11, <2>1 DEF GroupsKeep
  <1> QED
    BY <1>3, <1>6, <1>7, <1>10, <1>12 DEF KeepsKin, qVars

LEMMA BarrierTestQuiet ==
  ASSUME TasksInv, NEW t \in Threads, NEW arr, NEW m, BarrierTest(t, arr, m), Len(stack[t]) = 1,
         pc(t) \in {"body", "retest", "doze", "roused"}, UNCHANGED <<grp, qVars>>
  PROVE  KeepsKin(t)
  <1>1. Shape /\ StacksOK /\ Cur(t) = t /\ t \in Recs
    BY CurIs
  <1>2. PICK p \in {"body", "find"} : SetTop(t, Frame(t, p)) \/ stack' = Rouse(WithTop(t, Frame(t, p)), OnTc, "roused")
    BY DEF BarrierTest
  <1>3. PICK f : f = Frame(t, p)
    OBVIOUS
  <1>4. f \in FrameT /\ f.tk = t /\ f.pc = p
    BY <1>1, <1>3, FrameIs, PcIs DEF IsFrame, IdlePcs
  <1>5. Topped(t, f)
    <2>1. t \notin OnTc /\ OnTc \in SUBSET OnTc
      BY DEF OnTc
    <2> QED
      BY <1>1, <1>2, <1>3, <1>4, <2>1, SetTopStep, RouseTc
  <1>6. Stays(t)
    BY <1>1, <1>4, <1>5 DEF Stays
  <1>7. \A y \in Recs : Keeps(y)
    <2>1. CASE rec' = rec
      BY <2>1, KeepsSame
    <2>2. CASE Pass(t)
      <3>1. PICK e : e = passed[t] + 1
        OBVIOUS
      <3>2. PICK q : q = [rec[t] EXCEPT !.epoch = e]
        OBVIOUS
      <3>3. rec' = [rec EXCEPT ![t] = q]
        BY <2>2, <3>1, <3>2 DEF Pass
      <3> QED
        BY <1>1, <3>2, <3>3, CountKeep
    <2> QED
      BY <2>1, <2>2 DEF BarrierTest
  <1> QED
    BY <1>6, <1>7, KeptQuiet

LEMMA BarrierQuiet ==
  ASSUME TasksInv, NEW t \in Threads, BarrierArrive(t) \/ BarrierRetest(t) \/ Doze(t) \/ Roused(t)
  PROVE  KeepsKin(t)
  <1>1. Shape /\ StacksOK /\ (Len(stack[t]) # 1 => pc(t) \notin IdlePcs \cup {"out"})
    BY CurIs
  <1>2. /\ UNCHANGED <<grp, qVars>> /\ pc(t) \in {"body", "retest", "doze", "roused"}
        /\ pc(t) = "body" => Len(stack[t]) = 1
    BY DEF BarrierArrive, BarrierRetest, Doze, Roused, BodyOver
  <1>3. Len(stack[t]) = 1
    BY <1>1, <1>2 DEF IdlePcs, TcPcs
  <1>4. ASSUME NEW arr, NEW m, BarrierTest(t, arr, m)
        PROVE  KeepsKin(t)
    BY <1>2, <1>3, <1>4, BarrierTestQuiet
  <1>5. ASSUME NEW p \in {"idle", "drain"}, Goto(t, p), rec' = rec
        PROVE  KeepsKin(t)
    <2>1. p \in Pcs /\ p # "link"
      BY PcIs DEF IdlePcs, TcPcs
    <2> QED
      BY <1>2, <1>5, <2>1, GotoQuiet
  <1>6. CASE BarrierArrive(t)
    BY <1>4, <1>6 DEF BarrierArrive
  <1>7. CASE BarrierRetest(t)
    BY <1>4, <1>7 DEF BarrierRetest
  <1>8. CASE GetUp(t)
    BY <1>4, <1>5, <1>8 DEF GetUp
  <1>9. CASE Doze(t)
    BY <1>5, <1>8, <1>9 DEF Doze
  <1> QED
    BY <1>6, <1>7, <1>8, <1>9 DEF Roused

LEMMA QuietSteps ==
  ASSUME TasksInv, NEW t \in Threads,
         \/ SpawnWake(t) \/ TaskWait(t) \/ GroupBegin(t) \/ GroupWait(t) \/ GroupEnd(t) \/ WaitOver(t)
         \/ LookNothing(t) \/ WaitWatch(t) \/ WaitCheck(t) \/ WaitWoken(t)
         \/ EndInPlace(t) \/ FinishRefs(t) \/ Leave(t) \/ Notify(t) \/ ChildDone(t) \/ GroupDone(t)
         \/ Unref(t) \/ LiveDown(t) \/ WakeAll(t)
         \/ BarrierArrive(t) \/ BarrierRetest(t) \/ DrainTest(t)
         \/ FindNothing(t) \/ Announce(t) \/ Doze(t) \/ Roused(t) \/ SpuriousWake(t)
  PROVE  KeepsKin(t)
  <1>1. CASE SpawnWake(t) \/ TaskWait(t) \/ GroupBegin(t) \/ GroupWait(t) \/ GroupEnd(t) \/ WaitOver(t)
    BY <1>1, SpawnWakeQuiet, TaskWaitQuiet, GroupBeginQuiet, GroupWaitQuiet, GroupEndQuiet, WaitOverQuiet
  <1>2. CASE LookNothing(t) \/ WaitWatch(t) \/ WaitCheck(t) \/ WaitWoken(t) \/ FindNothing(t) \/ Announce(t) \/ SpuriousWake(t)
    BY <1>2, SleepQuiet
  <1>3. CASE EndInPlace(t) \/ FinishRefs(t) \/ Leave(t) \/ Notify(t) \/ ChildDone(t) \/ GroupDone(t)
    BY <1>3, EndInPlaceQuiet, FinishRefsQuiet, LeaveQuiet, NotifyQuiet, ChildDoneQuiet, GroupDoneQuiet
  <1>4. CASE Unref(t) \/ LiveDown(t) \/ WakeAll(t) \/ DrainTest(t)
    BY <1>4, UnrefQuiet, LiveDownQuiet, WakeAllQuiet, DrainTestQuiet
  <1>5. CASE BarrierArrive(t) \/ BarrierRetest(t) \/ Doze(t) \/ Roused(t)
    BY <1>5, BarrierQuiet
  <1> QED
    BY <1>1, <1>2, <1>3, <1>4, <1>5

(* The steps that are not quiet: tasks are created, queued, linked, started   *)
(* and, if they have dependences, completed.                                *)
Busy(t) ==
  \/ \E k \in NextKinds : SpawnInPlace(t, k) \/ SpawnCount(t, k)
  \/ SpawnPush(t) \/ SpawnLink(t) \/ Complete(t)
  \/ WaitRun(t) \/ LookOwn(t) \/ LookHigh(t)
  \/ FindHigh(t) \/ FindOwn(t) \/ \E v \in Threads : FindSteal(t, v)

LEMMA QuietOrBusy ==
  ASSUME TasksInv, Next
  PROVE  \E t \in Threads : KeepsKin(t) \/ Busy(t)
  <1>1. PICK t \in Threads : Step(t) \/ SpuriousWake(t)
    BY DEF Next
  <1>2. CASE SpuriousWake(t)
    BY <1>2, QuietSteps
  <1>3. CASE Spawn(t)
    BY <1>3, QuietSteps DEF Spawn, Busy
  <1>4. CASE Waiting(t)
    BY <1>4, QuietSteps DEF Waiting, Busy
  <1>5. CASE Completion(t)
    BY <1>5, QuietSteps DEF Completion, Busy
  <1>6. CASE IdleStep(t)
    BY <1>6, QuietSteps DEF IdleStep, Busy
  <1> QED
    BY <1>1, <1>2, <1>3, <1>4, <1>5, <1>6 DEF Step

\* A task is created by a running one, in the taskgroup that encloses it.
Births(t, n) ==
  /\ n \in Tasks /\ rec[n].st = "none" /\ rec'[n].st # "none" /\ rec[Cur(t)].st = "run"
  /\ rec'[n].creator = Cur(t) /\ rec'[n].within = Enclosing(Cur(t))
  /\ IF rec'[n].inplace THEN rec'[n].home = None ELSE rec'[n].home = rec[Cur(t)].group
  /\ \A y \in Tasks : y # n /\ rec[y].st = "none" => rec'[y].st = "none"
\* A task starts on top of the innermost one of t, in a frame that keeps its place.
Starts(t, x) ==
  /\ x \in Tasks /\ rec[x].st = "wait" /\ rec[x].pred = {} /\ pc(t) \in {"wait", "find"}
  /\ rec'[x].st = "run" /\ SameId(rec[x], rec'[x]) /\ SameDeps(rec[x], rec'[x]) /\ rec'[x].done = rec[x].done
  /\ rec'[x].mark = base'[t] + Len(dq'[t])
  /\ \A y \in Recs : y # x => rec'[y] = rec[y]
  /\ \E f, g : Pushed(t, f, g) /\ f.tk = Cur(t) /\ f.pc # "link" /\ g.tk = x /\ g.pc = "body"
  /\ grp' = grp

LEMMA StartsIs ==
  ASSUME TasksInv, NEW t \in Threads, NEW x \in Tasks, NEW f \in FrameT, Run(t, x, f), rec[x].st = "wait", rec[x].pred = {},
         f.tk = Cur(t), f.pc # "link", pc(t) \in {"wait", "find"}, grp' = grp,
         base'[t] \in Nat, dq'[t] \in Seq(Tasks)
  PROVE  Starts(t, x)
  <1>1. Shape /\ StacksOK /\ x \in Recs
    BY CurIs, NoneFree
  <1>2. PICK m \in Int : m = base'[t] + Len(dq'[t])
    <2>1. Len(dq'[t]) \in Nat
      BY LenProperties
    <2> QED
      BY <2>1
  <1>3. PICK q : q = [rec[x] EXCEPT !.st = "run", !.mark = m]
    OBVIOUS
  <1>4. rec[x] \in RecT /\ rec \in [Recs -> RecT]
    BY <1>1 DEF Shape
  <1>5. q \in RecT /\ SameId(rec[x], q) /\ SameDeps(rec[x], q) /\ q.done = rec[x].done /\ q.st = "run"
    BY <1>3, <1>4, StartSet
  <1>6. q.mark = m
    BY <1>3, <1>4 DEF RecT
  <1>7. rec' = [rec EXCEPT ![x] = q]
    BY <1>2, <1>3 DEF Run
  <1>8. rec'[x] = q /\ \A y \in Recs : y # x => rec'[y] = rec[y]
    BY <1>1, <1>4, <1>7
  <1>9. PICK g : g = Frame(x, "body")
    OBVIOUS
  <1>10. g \in FrameT /\ g.tk = x /\ g.pc = "body"
    BY <1>1, <1>9, FrameIs, PcIs DEF IsFrame
  <1>11. stack' = [stack EXCEPT ![t] = Append(Append(Front(@), f), g)]
    BY <1>9 DEF Run
  <1>12. Pushed(t, f, g)
    BY <1>1, <1>10, <1>11, PushStep
  <1> QED
    BY <1>2, <1>5, <1>6, <1>8, <1>10, <1>12 DEF Starts

LEMMA QueuedIs ==
  ASSUME TasksInv, NEW x \in Tasks, Queued(x)
  PROVE  rec[x].st = "wait" /\ rec[x].pred = {}
  BY DEF TasksInv, QueuesOK

LEMMA IdleIs ==
  ASSUME TasksInv, NEW t \in Threads, pc(t) = "find"
  PROVE  Idle(t) \in FrameT /\ Idle(t).tk = Cur(t) /\ Idle(t).pc # "link" /\ Len(stack[t]) = 1
  <1>1. Len(stack[t]) = 1 /\ Cur(t) = t /\ t \in Recs
    BY CurIs DEF IdlePcs
  <1>2. PICK p \in {"retest", "drain"} : p = IF AtBarrier(t) THEN "retest" ELSE "drain"
    OBVIOUS
  <1>3. Idle(t) = Frame(t, p)
    BY <1>2 DEF Idle
  <1> QED
    BY <1>1, <1>3, FrameIs, PcIs DEF IsFrame, IdlePcs

\* A list keeps its type when one of its elements is taken.
LEMMA ListsShort ==
  ASSUME Shape, NEW t \in Threads, NEW v \in Threads, dq[v] # <<>>
  PROVE  /\ Last(dq[v]) \in Tasks /\ Queued(Last(dq[v])) /\ Head(dq[v]) \in Tasks /\ Queued(Head(dq[v]))
         /\ dq' = [dq EXCEPT ![v] = Front(@)] => dq'[t] \in Seq(Tasks)
         /\ dq' = [dq EXCEPT ![v] = Tail(@)] => dq'[t] \in Seq(Tasks)
  <1>1. dq[v] \in Seq(Tasks) /\ dq[t] \in Seq(Tasks) /\ dq \in [Threads -> Seq(Tasks)]
    BY DEF Shape
  <1>2. Len(dq[v]) \in Nat \ {0} /\ Last(dq[v]) \in Tasks /\ Last(dq[v]) = dq[v][Len(dq[v])] /\ Front(dq[v]) \in Seq(Tasks)
    BY <1>1, FrontIs
  <1>3. DOMAIN dq[v] = 1 .. Len(dq[v])
    BY <1>1, LenProperties
  <1>4. 1 \in DOMAIN dq[v] /\ Len(dq[v]) \in DOMAIN dq[v]
    BY <1>2, <1>3
  <1>5. Head(dq[v]) = dq[v][1] /\ Head(dq[v]) \in Tasks /\ Tail(dq[v]) \in Seq(Tasks)
    BY <1>1, <1>4, HeadTailProperties
  <1>6. Queued(Last(dq[v])) /\ Queued(Head(dq[v]))
    BY <1>2, <1>4, <1>5 DEF Queued
  <1> QED
    BY <1>1, <1>2, <1>5, <1>6

LEMMA WaitRunStarts ==
  ASSUME TasksInv, NEW t \in Threads, WaitRun(t)
  PROVE  \E x \in Tasks : /\ Starts(t, x) /\ rec[x].parent = Cur(t) /\ Top(t).ctr = <<"npred", x>>
                          /\ dq' = dq /\ base' = base
  <1>1. Shape /\ Counts(Top(t)) /\ Cur(t) \in Recs /\ pc(t) = "wait" /\ Top(t).pc = pc(t) /\ Top(t).ctr[1] = "npred"
    BY CurIs DEF WaitRun, Waits
  <1>2. PICK x \in Tasks : Top(t).ctr = <<"npred", x>> /\ Awaited(Top(t), x)
    BY <1>1 DEF Counts, WaitPcs
  <1>3. rec[x].parent = Cur(t) /\ rec[x].st = "wait"
    BY <1>2 DEF Awaited, Cur
  <1>4. rec[x].pred = {}
    <2>1. Cardinality(rec[x].pred) = 0
      BY <1>2 DEF WaitRun, Counter
    <2>2. rec[x].pred \subseteq Tasks
      BY <1>1, NoneFree DEF Shape, RecT
    <2>3. IsFiniteSet(rec[x].pred)
      BY <2>2, NoneFree, FS_Subset
    <2> QED
      BY <2>1, <2>3, FS_EmptySet
  <1>5. PICK f : f = Frame(Cur(t), "body")
    OBVIOUS
  <1>6. f \in FrameT /\ f.tk = Cur(t) /\ f.pc = "body"
    BY <1>1, <1>5, FrameIs, PcIs DEF IsFrame
  <1>7. dq' = dq /\ base' = base /\ grp' = grp /\ Run(t, x, f)
    BY <1>2, <1>5 DEF WaitRun, qVars
  <1>8. base'[t] \in Nat /\ dq'[t] \in Seq(Tasks)
    BY <1>1, <1>7 DEF Shape
  <1>9. Starts(t, x)
    BY <1>1, <1>3, <1>4, <1>6, <1>7, <1>8, StartsIs
  <1> QED
    BY <1>2, <1>3, <1>7, <1>9

LEMMA LookOwnStarts ==
  ASSUME TasksInv, NEW t \in Threads, LookOwn(t)
  PROVE  Last(dq[t]) \in Tasks /\ Starts(t, Last(dq[t]))
  <1>1. Shape /\ pc(t) = "wait" /\ Top(t) \in FrameT /\ Top(t).tk = Cur(t) /\ Top(t).pc = pc(t)
    BY CurIs DEF LookOwn, MustWait
  <1>2. dq[t] # <<>> /\ dq' = [dq EXCEPT ![t] = Front(@)] /\ base' = base /\ grp' = grp /\ Run(t, Last(dq[t]), Top(t))
    BY DEF LookOwn, AboveMark
  <1>3. Last(dq[t]) \in Tasks /\ Queued(Last(dq[t])) /\ dq'[t] \in Seq(Tasks)
    BY <1>1, <1>2, ListsShort
  <1>4. base'[t] \in Nat
    BY <1>1, <1>2 DEF Shape
  <1> QED
    BY <1>1, <1>2, <1>3, <1>4, QueuedIs, StartsIs

LEMMA LookHighStarts ==
  ASSUME TasksInv, NEW t \in Threads, LookHigh(t)
  PROVE  \E i \in HighMatch(t) : hq[i] \in Tasks /\ Starts(t, hq[i]) /\ dq' = dq /\ base' = base
  <1>1. Shape /\ pc(t) = "wait" /\ Top(t) \in FrameT /\ Top(t).tk = Cur(t) /\ Top(t).pc = pc(t)
    BY CurIs DEF LookHigh, MustWait
  <1>2. PICK i : i = Min(HighMatch(t))
    OBVIOUS
  <1>3. dq' = dq /\ base' = base /\ grp' = grp /\ Run(t, hq[i], Top(t)) /\ HighMatch(t) # {}
    BY <1>2 DEF LookHigh
  <1>4. hq \in Seq(Tasks)
    BY <1>1 DEF Shape
  <1>5. HighMatch(t) \subseteq 1 .. Len(hq) /\ Len(hq) \in Nat
    BY <1>4, LenProperties DEF HighMatch
  <1>6. i \in HighMatch(t)
    BY <1>2, <1>3, <1>5, MinIs
  <1>7. i \in DOMAIN hq
    BY <1>6 DEF HighMatch
  <1>8. hq[i] \in Tasks /\ Queued(hq[i])
    BY <1>4, <1>7, ElementOfSeq DEF Queued
  <1>9. base'[t] \in Nat /\ dq'[t] \in Seq(Tasks)
    BY <1>1, <1>3 DEF Shape
  <1>10. Starts(t, hq[i])
    BY <1>1, <1>3, <1>8, <1>9, QueuedIs, StartsIs
  <1> QED
    BY <1>3, <1>6, <1>8, <1>10

LEMMA FindStarted ==
  ASSUME TasksInv, NEW t \in Threads, FindHigh(t) \/ FindOwn(t) \/ \E v \in Threads : FindSteal(t, v)
  PROVE  \E x \in Tasks : Queued(x) /\ Starts(t, x) /\ Len(stack[t]) = 1
  <1>1. Shape /\ pc(t) = "find" /\ grp' = grp
    BY CurIs DEF FindHigh, FindOwn, FindSteal
  <1>2. Idle(t) \in FrameT /\ Idle(t).tk = Cur(t) /\ Idle(t).pc # "link" /\ Len(stack[t]) = 1
    BY <1>1, IdleIs
  <1>3. PICK f : f = Idle(t)
    OBVIOUS
  <1>4. ASSUME NEW x \in Tasks, Queued(x), Run(t, x, f), base'[t] \in Nat, dq'[t] \in Seq(Tasks)
        PROVE  Queued(x) /\ Starts(t, x)
    BY <1>1, <1>2, <1>3, <1>4, QueuedIs, StartsIs
  <1>5. base[t] \in Nat /\ dq[t] \in Seq(Tasks) /\ hq \in Seq(Tasks) /\ base \in [Threads -> Nat]
    BY <1>1 DEF Shape
  <1>6. CASE FindHigh(t)
    <2>1. hq # <<>> /\ dq' = dq /\ base' = base /\ Run(t, Head(hq), f)
      BY <1>3, <1>6 DEF FindHigh
    <2>2. Head(hq) = hq[1] /\ Head(hq) \in Tasks /\ 1 \in DOMAIN hq
      BY <1>5, <2>1, HeadTailProperties, LenProperties
    <2> QED
      BY <1>2, <1>4, <1>5, <2>1, <2>2 DEF Queued
  <1>7. CASE FindOwn(t)
    <2>1. dq[t] # <<>> /\ dq' = [dq EXCEPT ![t] = Front(@)] /\ base' = base /\ Run(t, Last(dq[t]), f)
      BY <1>3, <1>7 DEF FindOwn
    <2> QED
      BY <1>1, <1>2, <1>4, <1>5, <2>1, ListsShort
  <1>8. CASE \E v \in Threads : FindSteal(t, v)
    <2>1. PICK v \in Threads : FindSteal(t, v)
      BY <1>8
    <2>2. dq[v] # <<>> /\ dq' = [dq EXCEPT ![v] = Tail(@)] /\ base' = [base EXCEPT ![v] = @ + 1] /\ Run(t, Head(dq[v]), f)
      BY <1>3, <2>1 DEF FindSteal
    <2>3. base'[t] \in Nat
      BY <1>5, <2>2
    <2> QED
      BY <1>1, <1>2, <1>4, <2>2, <2>3, ListsShort
  <1> QED
    BY <1>6, <1>7, <1>8
\* How the records look once t has created n.
Created(t, n) ==
  /\ n \in Tasks /\ n \notin Threads /\ n # Cur(t) /\ rec[n] = NoRec /\ rec[Cur(t)].st = "run" /\ pc(t) = "body"
  /\ (\A y \in Tasks : y < n => rec[y].st # "none") /\ (\A y \in Tasks : y > n => rec[y].st = "none")
  /\ rec'[n].st # "none" /\ rec'[n].creator = Cur(t) /\ rec'[n].within = Enclosing(Cur(t))
  /\ rec'[n].pred = {} /\ ~ rec'[n].done /\ rec'[n].writer = None /\ rec'[n].readers = <<>>
  /\ \A y \in Recs : y # n =>
       /\ SameId(rec[y], rec'[y]) /\ SameDeps(rec[y], rec'[y])
       /\ rec'[y].st = rec[y].st /\ rec'[y].done = rec[y].done /\ rec'[y].mark = rec[y].mark
  /\ dq' = dq /\ base' = base
CreatedHere(t, n) ==
  /\ Created(t, n) /\ rec'[n].st = "run" /\ rec'[n].inplace /\ rec'[n].home = None /\ rec'[n].mark = Bottom(t)
  /\ rec'[n].kind.dep # <<>> => rec[Cur(t)].final
  /\ \E g : Pushed(t, Top(t), g) /\ g.tk = n /\ g.pc = "body"
  /\ grp' = grp
CreatedLater(t, n) ==
  /\ Created(t, n) /\ rec'[n].st = "wait" /\ ~ rec'[n].inplace /\ rec'[n].home = rec[Cur(t)].group
  /\ ~ rec[Cur(t)].final /\ rec'[n].parent = Cur(t)
  /\ \E g : Topped(t, g) /\ g.tk = Cur(t) /\ g.pc = "link" /\ g.ctr = <<"npred", n>>
  /\ \A h \in Groups : grp'[h].st = grp[h].st /\ grp'[h].owner = grp[h].owner

LEMMA SpawnHere ==
  ASSUME TasksInv, NEW t \in Threads, NEW k \in NextKinds, SpawnInPlace(t, k)
  PROVE  \E n \in Tasks : CreatedHere(t, n)
  <1>1. Shape /\ StacksOK /\ Cur(t) \in Recs
    BY CurIs
  <1>2. PICK x \in Recs : x = Cur(t)
    BY <1>1
  <1>3. PICK n \in Tasks : n = Fresh
    BY FreshIs
  <1>4. /\ rec[n] = NoRec /\ (\A y \in Tasks : y < n => rec[y].st # "none")
        /\ (\A y \in Tasks : y > n => rec[y].st = "none") /\ n \in Recs /\ n \notin Threads
    BY <1>3, FreshIs, NoneFree
  <1>5. pc(t) = "body" /\ rec[x].st = "run"
    BY <1>2, BodyEpoch DEF SpawnInPlace, Creates, Active
  <1>6. x # n
    BY <1>4, <1>5 DEF NoRec
  <1>7. PICK b : b = (k.final \/ rec[Cur(t)].final)
    OBVIOUS
  <1>8. PICK e, w, m : e = rec[x].epoch /\ w = Enclosing(x) /\ m = Bottom(t)
    OBVIOUS
  <1>9. PICK q : q = InPlaceNew(k, b, x, e, w, m)
    OBVIOUS
  <1>10. /\ rec' = [rec EXCEPT ![n] = q] /\ stack' = [stack EXCEPT ![t] = Append(@, Frame(n, "body"))]
         /\ grp' = grp /\ dq' = dq /\ base' = base /\ (rec[x].final \/ k.dep = <<>>)
    BY <1>2, <1>3, <1>7, <1>8, <1>9 DEF SpawnInPlace, InPlaceNew, qVars
  <1>11. q = [st |-> "run", inplace |-> TRUE, kind |-> k, final |-> b, parent |-> None,
              creator |-> x, group |-> None, epoch |-> e, children |-> 0, kids |-> FALSE, refs |-> 0,
              mark |-> m, pred |-> {}, done |-> FALSE, writer |-> None, readers |-> <<>>,
              within |-> w, home |-> None]
    BY <1>9, InPlaceIs
  <1>12. rec'[n] = q /\ \A y \in Recs : y # n => rec'[y] = rec[y]
    BY <1>1, <1>4, <1>10 DEF Shape
  <1>13. PICK g : g = Frame(n, "body")
    OBVIOUS
  <1>14. g \in FrameT /\ g.tk = n /\ g.pc = "body"
    BY <1>4, <1>13, FrameIs, PcIs DEF IsFrame
  <1>15. stack' = [stack EXCEPT ![t] = Append(@, g)]
    BY <1>10, <1>13
  <1>16. Pushed(t, Top(t), g)
    BY <1>1, <1>14, <1>15, PushOnStep
  <1>17. /\ q.st = "run" /\ q.inplace /\ q.kind = k /\ q.creator = x /\ q.mark = Bottom(t) /\ q.pred = {} /\ ~ q.done
         /\ q.writer = None /\ q.readers = <<>> /\ q.within = Enclosing(x) /\ q.home = None
    BY <1>8, <1>11
  <1>18. \A y \in Recs : y # n =>
           /\ SameId(rec[y], rec'[y]) /\ SameDeps(rec[y], rec'[y])
           /\ rec'[y].st = rec[y].st /\ rec'[y].done = rec[y].done /\ rec'[y].mark = rec[y].mark
    BY <1>12 DEF SameId, SameDeps
  <1>19. Created(t, n)
    BY <1>2, <1>4, <1>5, <1>6, <1>10, <1>12, <1>17, <1>18 DEF Created
  <1> QED
    BY <1>2, <1>10, <1>12, <1>14, <1>16, <1>17, <1>19 DEF CreatedHere

LEMMA SpawnLater ==
  ASSUME TasksInv, NEW t \in Threads, NEW k \in NextKinds, SpawnCount(t, k)
  PROVE  \E n \in Tasks : CreatedLater(t, n)
  <1>1. Shape /\ StacksOK /\ Cur(t) \in Recs
    BY CurIs
  <1>2. PICK x \in Recs : x = Cur(t)
    BY <1>1
  <1>3. PICK n \in Tasks : n = Fresh
    BY FreshIs
  <1>4. /\ k \in Kind /\ rec[n] = NoRec /\ (\A y \in Tasks : y < n => rec[y].st # "none")
        /\ (\A y \in Tasks : y > n => rec[y].st = "none") /\ n \in Recs /\ n \notin Threads
    BY <1>3, FreshIs, NoneFree
  <1>5. pc(t) = "body" /\ rec[x].st = "run" /\ rec[x].epoch \in Nat
    BY <1>2, BodyEpoch DEF SpawnCount, Creates, Active
  <1>6. x # n
    BY <1>4, <1>5 DEF NoRec
  <1>7. PICK g \in Groups \cup {None} : g = rec[x].group
    BY <1>1 DEF Shape, RecT
  <1>8. PICK w \in Groups \cup {None} : w = Enclosing(x)
    BY <1>1 DEF Shape, RecT, Enclosing
  <1>9. PICK e \in Nat : e = rec[x].epoch
    BY <1>5
  <1>10. PICK q : q = WaitingNew(k, x, g, e, w)
    OBVIOUS
  <1>11. PICK f : f = [Frame(x, "link") EXCEPT !.ctr = <<"npred", n>>]
    OBVIOUS
  <1>12. /\ rec' = [rec EXCEPT ![n] = q, ![x].refs = @ + 1, ![x].children = @ + 1, ![x].kids = TRUE]
         /\ SetTop(t, f) /\ grp' = (IF g = None THEN grp ELSE [grp EXCEPT ![g].count = @ + 1])
         /\ dq' = dq /\ base' = base /\ ~ rec[x].final
    BY <1>2, <1>3, <1>7, <1>8, <1>9, <1>10, <1>11 DEF SpawnCount, Inherited, WaitingNew, qVars
  <1>13. q = [st |-> "wait", inplace |-> FALSE, kind |-> k, final |-> k.final, parent |-> x,
              creator |-> x, group |-> g, epoch |-> e, children |-> 0, kids |-> FALSE, refs |-> 1,
              mark |-> 0, pred |-> {}, done |-> FALSE, writer |-> None, readers |-> <<>>,
              within |-> w, home |-> g]
    BY <1>10, WaitingIs
  <1>14. IsWaiting(q, x, e, k, g)
    BY <1>4, <1>10, WaitingRec
  <1>15. Spawned(n, x, q)
    BY <1>1, <1>4, <1>6, <1>12, <1>14, SpawnedIs DEF IsWaiting, IsNew
  <1>16. rec'[n] = q /\ OneMore(rec[x], rec'[x]) /\ \A y \in Recs : y # n /\ y # x => rec'[y] = rec[y]
    BY <1>15 DEF Spawned
  <1>17. rec'[x].mark = rec[x].mark
    <2>1. rec \in [Recs -> RecT] /\ rec[x] \in RecT
      BY <1>1 DEF Shape
    <2>2. PICK r : r = [rec[x] EXCEPT !.refs = @ + 1, !.children = @ + 1, !.kids = TRUE]
      OBVIOUS
    <2>3. r.mark = rec[x].mark
      BY <2>1, <2>2 DEF RecT
    <2>4. rec'[x] = r
      BY <1>4, <1>6, <1>12, <2>1, <2>2
    <2> QED
      BY <2>3, <2>4
  <1>18. IsFrame(f, x, "link", <<"npred", n>>, <<>>)
    <2>1. <<"npred", n>> \in Ctrs
      BY <1>4 DEF Ctrs
    <2> QED
      BY <1>11, <2>1, PcIs, CtrFrameIs
  <1>19. Topped(t, f) /\ f.tk = x /\ f.pc = "link" /\ f.ctr = <<"npred", n>>
    BY <1>1, <1>12, <1>18, SetTopStep DEF IsFrame
  <1>20. /\ q.st = "wait" /\ ~ q.inplace /\ q.parent = x /\ q.creator = x /\ q.pred = {} /\ ~ q.done
         /\ q.writer = None /\ q.readers = <<>> /\ q.within = w /\ q.home = g
    BY <1>13
  <1>21. \A y \in Recs : y # n =>
           /\ SameId(rec[y], rec'[y]) /\ SameDeps(rec[y], rec'[y])
           /\ rec'[y].st = rec[y].st /\ rec'[y].done = rec[y].done /\ rec'[y].mark = rec[y].mark
    <2>1. SameId(rec[x], rec'[x]) /\ SameDeps(rec[x], rec'[x]) /\ rec'[x].st = rec[x].st /\ rec'[x].done = rec[x].done
      BY <1>16 DEF OneMore
    <2> QED
      BY <1>16, <1>17, <2>1 DEF SameId, SameDeps
  <1>22. Created(t, n)
    BY <1>2, <1>4, <1>5, <1>6, <1>8, <1>12, <1>16, <1>20, <1>21 DEF Created
  <1>23. \A h \in Groups : grp'[h].st = grp[h].st /\ grp'[h].owner = grp[h].owner
    <2>1. CASE g = None
      BY <1>12, <2>1
    <2>2. CASE g # None
      BY <1>1, <1>12, <2>2, CountSet DEF CountTo
    <2> QED
      BY <2>1, <2>2
  <1> QED
    BY <1>2, <1>7, <1>12, <1>16, <1>19, <1>20, <1>22, <1>23 DEF CreatedLater

(* What all steps have in common: records and groups last, and a new task    *)
(* knows its creator and its group.                                         *)
Evolves(t) ==
  /\ Lasts /\ GroupsKeep(t)
  /\ \A y \in Tasks : rec[y].st = "none" /\ rec'[y].st # "none" => Births(t, y)

LEMMA CreatedEvolves ==
  ASSUME TasksInv, NEW t \in Threads, NEW n \in Tasks, CreatedHere(t, n) \/ CreatedLater(t, n)
  PROVE  Evolves(t)
  <1>1. Created(t, n) /\ \A h \in Groups : grp'[h].st = grp[h].st /\ grp'[h].owner = grp[h].owner
    BY DEF CreatedHere, CreatedLater
  <1>2. \A y \in Recs : y # n => SameId(rec[y], rec'[y]) /\ rec'[y].st = rec[y].st
    BY <1>1 DEF Created
  <1>3. Lasts
    BY <1>1, <1>2, SameIs DEF Lasts, Created, NoRec
  <1>4. rec[n].st = "none"
    BY <1>1 DEF Created, NoRec
  <1>5. Births(t, n)
    BY <1>1, <1>2, <1>4, NoneFree DEF Births, Created, CreatedHere, CreatedLater
  <1>6. \A y \in Tasks : rec[y].st = "none" /\ rec'[y].st # "none" => y = n
    BY <1>2, NoneFree
  <1>7. GroupsKeep(t)
    BY <1>1 DEF GroupsKeep
  <1> QED
    BY <1>3, <1>5, <1>6, <1>7 DEF Evolves

LEMMA StartsEvolves ==
  ASSUME NEW t \in Threads, NEW x \in Tasks, Starts(t, x)
  PROVE  Evolves(t)
  <1>1. \A y \in Recs : (rec'[y].st = "none" <=> rec[y].st = "none") /\ Ident(y)
    BY SameIs DEF Starts, Ident
  <1>2. GroupsKeep(t)
    BY DEF Starts, GroupsKeep
  <1> QED
    BY <1>1, <1>2, NoneFree DEF Evolves, Lasts

LEMMA KinEvolves ==
  ASSUME NEW t \in Threads, KeepsKin(t)
  PROVE  Evolves(t)
  <1>1. \A y \in Recs : (rec'[y].st = "none" <=> rec[y].st = "none") /\ Ident(y)
    BY DEF KeepsKin, Keeps, Core, Ident
  <1>2. GroupsKeep(t)
    BY DEF KeepsKin
  <1> QED
    BY <1>1, <1>2, NoneFree DEF Evolves, Lasts

LEMMA SpawnPushEvolves ==
  ASSUME NEW t \in Threads, SpawnPush(t)
  PROVE  Evolves(t)
  <1>1. rec' = rec /\ grp' = grp
    BY DEF SpawnPush
  <1> QED
    BY <1>1 DEF Evolves, Lasts, Ident, GroupsKeep

LEMMA LinkEvolves ==
  ASSUME TasksInv, NEW t \in Threads, SpawnLink(t)
  PROVE  Evolves(t)
  <1>1. PICK x \in Tasks, p \in Recs, d \in DepT, xs \in SUBSET Tasks, f \in FrameT : LinkOn(t, x, p, d, xs, f)
    BY LinkIs
  <1>2. grp' = grp /\ \A y \in Recs : SameId(rec[y], rec'[y]) /\ rec'[y].st = rec[y].st
    BY <1>1 DEF LinkOn, Linking
  <1>3. Lasts
    BY <1>2, SameIs DEF Lasts
  <1>4. GroupsKeep(t)
    BY <1>2 DEF GroupsKeep
  <1> QED
    BY <1>2, <1>3, <1>4, NoneFree DEF Evolves

LEMMA CompleteEvolves ==
  ASSUME TasksInv, NEW t \in Threads, Complete(t)
  PROVE  Evolves(t)
  <1>1. PICK x \in Recs, xs \in SUBSET Tasks, g \in FrameT : CompleteOn(t, x, xs, g)
    BY CompleteIs
  <1>2. grp' = grp /\ rec[x].st = "run" /\ rec'[x].st = "over" /\ \A y \in Recs : SameId(rec[y], rec'[y]) /\ (y # x => rec'[y].st = rec[y].st)
    BY <1>1 DEF CompleteOn, Released
  <1>3. Lasts
    BY <1>2, SameIs DEF Lasts
  <1>4. GroupsKeep(t)
    BY <1>2 DEF GroupsKeep
  <1> QED
    BY <1>2, <1>3, <1>4, NoneFree DEF Evolves

LEMMA NextEvolves ==
  ASSUME TasksInv, Next
  PROVE  \E t \in Threads : Evolves(t)
  <1>1. PICK t \in Threads : KeepsKin(t) \/ Busy(t)
    BY QuietOrBusy
  <1>2. CASE KeepsKin(t)
    BY <1>2, KinEvolves
  <1>3. CASE \E k \in NextKinds : SpawnInPlace(t, k) \/ SpawnCount(t, k)
    BY <1>3, SpawnHere, SpawnLater, CreatedEvolves
  <1>4. CASE SpawnPush(t) \/ SpawnLink(t) \/ Complete(t)
    BY <1>4, SpawnPushEvolves, LinkEvolves, CompleteEvolves
  <1>5. CASE WaitRun(t) \/ LookOwn(t) \/ LookHigh(t) \/ FindHigh(t) \/ FindOwn(t) \/ \E v \in Threads : FindSteal(t, v)
    <2>1. \E x \in Tasks : Starts(t, x)
      BY <1>5, WaitRunStarts, LookOwnStarts, LookHighStarts, FindStarted
    <2> QED
      BY <2>1, StartsEvolves
  <1> QED
    BY <1>1, <1>2, <1>3, <1>4, <1>5 DEF Busy

\* A new task is in the group its creator is in.
LEMMA BirthWithin ==
  ASSUME TasksInv, JoinOK, NEW x \in Recs, rec[x].st = "run"
  PROVE  /\ Enclosing(x) # None => Enclosing(x) \in Groups /\ grp[Enclosing(x)].st # "none"
         /\ rec[x].group # Enclosing(x) => rec[x].group = None /\ rec[x].home = None /\ rec[x].within = Enclosing(x)
  <1>1. CASE rec[x].group # None
    BY <1>1, InOpenGroup DEF Enclosing
  <1>2. CASE rec[x].group = None
    <2>1. Enclosing(x) = rec[x].within /\ rec[x].home = None
      BY <1>2, CurIs DEF Enclosing, TasksInv, GroupsOK
    <2>2. rec[x].within \in Groups \cup {None}
      BY DEF TasksInv, Shape, RecT
    <2>3. x \in Threads => rec[x].within = None
      BY DEF TasksInv, RecsOK, Born
    <2>4. x \in Tasks /\ rec[x].within # None => grp[rec[x].within].st # "none"
      BY DEF JoinOK
    <2> QED
      BY <1>2, <2>1, <2>2, <2>3, <2>4 DEF Recs
  <1> QED
    BY <1>1, <1>2

LEMMA JoinKept ==
  ASSUME TasksInv, JoinOK, NEW t \in Threads, Evolves(t)
  PROVE  JoinOK'
  <1>1. Shape /\ Cur(t) \in Recs /\ RecsOK /\ GroupsOK
    BY CurIs
  <1>2. \A y \in Recs : rec[y].st # "none" => Ident(y) /\ rec'[y].st # "none"
    BY DEF Evolves, Lasts
  <1>3. \A g \in Groups : grp[g].st # "none" => grp'[g].st # "none" /\ grp'[g].owner = grp[g].owner
    BY DEF Evolves, GroupsKeep
  <1>4. \A g \in Groups : grp[g].st # "none" => grp[g].owner \in Recs /\ rec[grp[g].owner].st # "none"
    BY <1>1 DEF JoinOK, GroupsOK
  <1>5. ASSUME NEW g \in Groups, grp'[g].st # "none"
        PROVE  rec'[grp'[g].owner].st # "none"
    <2>1. CASE grp[g].st # "none"
      BY <1>2, <1>3, <1>4, <2>1
    <2>2. CASE grp[g].st = "none"
      <3>1. grp'[g].owner = Cur(t) /\ rec[Cur(t)].st # "none"
        BY <1>5, <2>2 DEF Evolves, GroupsKeep
      <3> QED
        BY <1>1, <1>2, <3>1
    <2> QED
      BY <2>1, <2>2
  <1>6. ASSUME NEW x \in Tasks, rec'[x].st # "none"
        PROVE  rec'[x].within # None => grp'[rec'[x].within].st # "none" /\ grp'[rec'[x].within].owner # x
    <2>1. CASE rec[x].st # "none"
      <3>1. rec'[x].within = rec[x].within
        BY <1>2, <2>1, NoneFree DEF Ident
      <3>2. rec[x].within \in Groups \cup {None}
        BY <1>1, NoneFree DEF Shape, RecT
      <3>3. rec[x].within # None => grp[rec[x].within].st # "none" /\ grp[rec[x].within].owner # x
        BY <2>1 DEF JoinOK
      <3> QED
        BY <1>3, <3>1, <3>2, <3>3
    <2>2. CASE rec[x].st = "none"
      <3>1. Births(t, x)
        BY <1>6, <2>2 DEF Evolves
      <3>2. rec[Cur(t)].st = "run" /\ rec'[x].within = Enclosing(Cur(t))
        BY <3>1 DEF Births
      <3>3. Enclosing(Cur(t)) # None => Enclosing(Cur(t)) \in Groups /\ grp[Enclosing(Cur(t))].st # "none"
        BY <1>1, <3>2, BirthWithin
      <3>4. Enclosing(Cur(t)) # None => grp[Enclosing(Cur(t))].owner # x
        BY <1>4, <2>2, <3>3
      <3> QED
        BY <1>3, <3>2, <3>3, <3>4
    <2> QED
      BY <2>1, <2>2
  <1>7. ASSUME NEW x \in Tasks, rec'[x].st # "none", ~ rec'[x].inplace, rec'[x].within # None, rec'[x].home # rec'[x].within
        PROVE  /\ rec'[x].home = None
               /\ rec'[rec'[x].creator].home = None /\ rec'[rec'[x].creator].within = rec'[x].within
    <2>1. CASE rec[x].st # "none"
      <3>1. Ident(x) /\ x \in Recs
        BY <1>2, <2>1, NoneFree
      <3>2. Deferred(x) /\ rec[x].within # None /\ rec[x].home # rec[x].within
        BY <1>7, <2>1, <3>1 DEF Ident, Deferred
      <3>3. rec[x].home = None /\ rec[rec[x].creator].home = None /\ rec[rec[x].creator].within = rec[x].within
        BY <3>2 DEF JoinOK
      <3>4. PICK c : c = rec[x].creator
        OBVIOUS
      <3>5. c \in Recs /\ (c \in Tasks => c < x) /\ \A y \in Tasks : y < x => rec[y].st # "none"
        BY <1>1, <2>1, <3>1, <3>4, NoneFree DEF RecsOK, Born
      <3>6. c \in Threads => rec[c].st # "none"
        BY <1>1, <3>5 DEF RecsOK, Born
      <3>7. Ident(c)
        BY <1>2, <3>5, <3>6 DEF Recs
      <3> QED
        BY <3>1, <3>3, <3>4, <3>7 DEF Ident
    <2>2. CASE rec[x].st = "none"
      <3>1. Births(t, x)
        BY <1>7, <2>2 DEF Evolves
      <3>2. /\ rec[Cur(t)].st = "run" /\ rec'[x].within = Enclosing(Cur(t)) /\ rec'[x].home = rec[Cur(t)].group
            /\ rec'[x].creator = Cur(t)
        BY <1>7, <3>1 DEF Births
      <3>3. rec[Cur(t)].group = None /\ rec[Cur(t)].home = None /\ rec[Cur(t)].within = Enclosing(Cur(t))
        BY <1>1, <1>7, <3>2, BirthWithin
      <3>4. Ident(Cur(t))
        BY <1>1, <1>2, <3>2
      <3> QED
        BY <3>2, <3>3, <3>4 DEF Ident
    <2> QED
      BY <2>1, <2>2
  <1> QED
    BY <1>5, <1>6, <1>7 DEF JoinOK, Deferred

LEMMA JoinInit ==
  ASSUME Init
  PROVE  JoinOK
  <1>1. \A g \in Groups : grp[g].st = "none"
    BY DEF Init
  <1>2. \A x \in Tasks : rec[x].st = "none"
    BY NoneFree DEF Init, NoRec
  <1> QED
    BY <1>1, <1>2 DEF JoinOK, Deferred

\* Tasks deferred down to a group were counted by it.
LEMMA DeferredHome ==
  ASSUME TasksInv, JoinOK, NEW g \in Groups, grp[g].st # "none",
         NEW x \in Tasks, rec[x].st # "none", rec[x].within = g, DeferredTo(x, g)
  PROVE  rec[x].home = g /\ ~ rec[x].inplace
  <1>1. PICK o \in Recs : o = grp[g].owner
    BY DEF TasksInv, GroupsOK
  <1>2. PICK S \in SUBSET Recs : S = {o} \cup {y \in Tasks : ~ rec[y].inplace /\ (rec[y].st # "none" /\ rec[y].within = g => rec[y].home = g)}
    BY NoneFree
  <1>3. g # None
    BY NoneFree
  <1>4. ASSUME NEW z \in Tasks, ~ rec[z].inplace, rec[z].creator \in S
        PROVE  z \in S
    <2>1. SUFFICES ASSUME rec[z].st # "none", rec[z].within = g, rec[z].home # g
                   PROVE  FALSE
      BY <1>2, <1>4
    <2>2. Deferred(z)
      BY <1>4, <2>1 DEF Deferred
    <2>3. PICK c : c = rec[z].creator
      OBVIOUS
    <2>4. rec[c].home = None /\ rec[c].within = g
      BY <1>3, <2>1, <2>2, <2>3 DEF JoinOK
    <2>5. c \in Recs /\ (c \in Tasks => c < z) /\ (\A y \in Tasks : y < z => rec[y].st # "none")
      BY <2>1, <2>3, NoneFree DEF TasksInv, RecsOK, Born
    <2>6. c \in Threads => rec[c].within = None
      BY <2>5 DEF TasksInv, RecsOK, Born
    <2>7. c \in Tasks /\ rec[c].st # "none"
      BY <1>3, <2>4, <2>5, <2>6 DEF Recs
    <2>8. c # o
      BY <1>1, <1>3, <2>4, <2>7 DEF JoinOK
    <2>9. rec[c].home = g
      BY <1>2, <1>4, <2>3, <2>4, <2>7, <2>8
    <2> QED
      BY <1>3, <2>4, <2>9
  <1>5. x \in S
    <2>1. \A z \in {y \in Tasks : ~ rec[y].inplace} : rec[z].creator \in S => z \in S
      BY <1>4
    <2>2. o \in S
      BY <1>2
    <2> QED
      BY <1>1, <2>1, <2>2 DEF DeferredTo, Offspring
  <1>6. x # o
    BY <1>1, <1>3 DEF JoinOK
  <1> QED
    BY <1>2, <1>5, <1>6

LEMMA JoinedInv ==
  ASSUME TasksInv, JoinOK
  PROVE  GroupJoinedDeferred
  <1>1. SUFFICES ASSUME NEW x \in Tasks, NEW g \in Groups,
                        grp[g].st = "freed", rec[x].st # "none", rec[x].within = g, DeferredTo(x, g)
                 PROVE  Over(x)
    BY DEF GroupJoinedDeferred
  <1>2. rec[x].home = g /\ ~ rec[x].inplace /\ g # None
    BY <1>1, DeferredHome, NoneFree
  <1>3. SUFFICES ASSUME ~ Over(x)
                 PROVE  FALSE
    OBVIOUS
  <1>4. rec[x].st \in {"wait", "run"}
    BY <1>1, <1>3, NoneFree DEF Over, TasksInv, Shape, RecT
  <1>5. GroupPending(x)
    BY <1>2, <1>4 DEF GroupPending, Deferred
  <1>6. grp[g].st = "open"
    BY <1>2, <1>5, GroupHeld
  <1> QED
    BY <1>1, <1>6
\* A taskgroup that has been ended finds over every task created in it by
\* deferred tasks of it (__cccc_omp_taskgroup_end, inherited groups).
THEOREM GroupsJoined == Spec => []GroupJoinedDeferred
  <1>1. Init => JoinOK
    BY JoinInit
  <1>2. TasksInv /\ JoinOK /\ [Next]_vars => JoinOK'
    <2>1. CASE TasksInv /\ JoinOK /\ Next
      BY <2>1, NextEvolves, JoinKept
    <2>2. CASE JoinOK /\ UNCHANGED vars
      BY <2>2 DEF vars, JoinOK, Deferred
    <2> QED
      BY <2>1, <2>2
  <1>3. TasksInv /\ JoinOK => GroupJoinedDeferred
    BY JoinedInv
  <1> QED
    BY <1>1, <1>2, <1>3, TasksInvariant, PTL DEF Spec

-----------------------------------------------------------------------------
(* Descendants.                                                             *)
LEMMA DescSelf ==
  ASSUME NEW z \in Recs
  PROVE  z \in Descendants(z)
  BY DEF Descendants, Offspring

LEMMA DescChild ==
  ASSUME NEW z \in Recs, NEW x \in Tasks, rec[x].creator \in Descendants(z)
  PROVE  x \in Descendants(z)
  BY NoneFree DEF Descendants, Offspring

LEMMA DescTrans ==
  ASSUME NEW z, NEW y \in Descendants(z), NEW x \in Descendants(y)
  PROVE  x \in Descendants(z)
  BY DEF Descendants, Offspring

\* But for the task itself, who is created by whom a descendant is one.
LEMMA DescUp ==
  ASSUME NEW z \in Recs, NEW x \in Tasks, x # z, x \in Descendants(z)
  PROVE  rec[x].creator \in Descendants(z)
  <1>1. SUFFICES ASSUME rec[x].creator \notin Descendants(z)
                 PROVE  FALSE
    OBVIOUS
  <1>2. PICK S : S = Descendants(z) \ {x}
    OBVIOUS
  <1>3. Descendants(z) \in SUBSET Recs
    BY DEF Descendants, Offspring
  <1>4. z \in S /\ S \in SUBSET Recs
    BY <1>2, <1>3, DescSelf
  <1>5. \A w \in Tasks : rec[w].creator \in S => w \in S
    BY <1>1, <1>2, DescChild
  <1>6. x \in S
    BY <1>4, <1>5 DEF Descendants, Offspring
  <1> QED
    BY <1>2, <1>6

\* Descendants stay descendants.
LEMMA DescGrow ==
  ASSUME TasksInv, NEW t \in Threads, Evolves(t), NEW z, NEW x \in Descendants(z)
  PROVE  x \in Descendants(z)'
  <1>1. \A w \in Tasks : rec[w].creator \in Recs => rec'[w].creator = rec[w].creator
    <2>1. TAKE w \in Tasks
    <2>2. CASE rec[w].st = "none"
      <3>1. rec[w] = NoRec
        BY <2>2, NoneFree DEF TasksInv, RecsOK, Born
      <3> QED
        BY <3>1, NoneFree DEF NoRec
    <2>3. CASE rec[w].st # "none"
      BY <2>3, NoneFree DEF Evolves, Lasts, Ident
    <2> QED
      BY <2>2, <2>3
  <1>2. x \in Recs
    BY DEF Descendants, Offspring
  <1>3. ASSUME NEW S \in SUBSET Recs, z \in S, \A w \in Tasks : rec'[w].creator \in S => w \in S
        PROVE  x \in S
    <2>1. \A w \in Tasks : rec[w].creator \in S => w \in S
      BY <1>1, <1>3
    <2> QED
      BY <1>3, <2>1 DEF Descendants, Offspring
  <1> QED
    BY <1>2, <1>3 DEF Descendants, Offspring

\* The tasks of a taskgroup descend from its owner.  What lies on top of an
\* explicit task of a thread, or above its mark in the thread's deque, descends
\* from it.
GroupDescend ==
  \A x \in Tasks : rec[x].st # "none" /\ rec[x].home # None =>
    x \in Descendants(grp[rec[x].home].owner)
Piled ==
  \A t \in Threads : \A i, k \in DOMAIN stack[t] :
    1 < i /\ i <= k => stack[t][k].tk \in Descendants(stack[t][i].tk)
Marked(z) == rec[z].st = "run" \/ rec[z].inplace
MarkDescend ==
  \A t \in Threads : \A i \in DOMAIN stack[t], j \in DOMAIN dq[t] :
    /\ i > 1 /\ Marked(stack[t][i].tk)
    /\ base[t] + j > rec[stack[t][i].tk].mark
    => dq[t][j] \in Descendants(stack[t][i].tk)
TiedOK == GroupDescend /\ Piled /\ MarkDescend

LEMMA GroupDescendKept ==
  ASSUME TasksInv, GroupDescend, NEW t \in Threads, Evolves(t)
  PROVE  GroupDescend'
  <1>1. SUFFICES ASSUME NEW x \in Tasks, rec'[x].st # "none", rec'[x].home # None
                 PROVE  x \in Descendants(grp[rec[x].home].owner)'
    BY DEF GroupDescend
  <1>2. Shape /\ GroupsOK /\ RecsOK /\ x \in Recs /\ Cur(t) \in Recs
    BY CurIs, NoneFree
  <1>3. CASE rec[x].st # "none"
    <2>1. rec'[x].home = rec[x].home /\ rec[x].home \in Groups
      BY <1>1, <1>2, <1>3 DEF Evolves, Lasts, Ident, Shape, RecT
    <2>2. PICK g \in Groups : g = rec[x].home
      BY <2>1
    <2>3. grp[g].st # "none" /\ x \in Descendants(grp[g].owner)
      BY <1>1, <1>2, <1>3, <2>1, <2>2 DEF GroupDescend, GroupsOK
    <2>4. PICK o : o = grp[g].owner
      OBVIOUS
    <2>5. grp'[g].owner = o
      BY <2>3, <2>4 DEF Evolves, GroupsKeep
    <2>6. x \in Descendants(o)'
      BY <2>3, <2>4, DescGrow
    <2> QED
      BY <2>1, <2>2, <2>5, <2>6 DEF Descendants, Offspring
  <1>4. CASE rec[x].st = "none"
    <2>1. Births(t, x)
      BY <1>1, <1>4 DEF Evolves
    <2>2. PICK c \in Recs : c = Cur(t)
      BY <1>2
    <2>3. rec[c].st = "run" /\ rec'[x].creator = c /\ (~ rec'[x].inplace => rec'[x].home = rec[c].group)
      BY <2>1, <2>2 DEF Births
    <2>4. ~ rec'[x].inplace => rec'[x].home = rec[c].group /\ rec[c].group \in Groups /\ grp[rec[c].group].st # "none"
      BY <1>1, <2>3, InOpenGroup
    <2>5. CASE ~ rec'[x].inplace
      <3>1. PICK g \in Groups : g = rec[c].group
        BY <2>4, <2>5
      <3>2. PICK o : o = grp[g].owner
        OBVIOUS
      <3>3. grp'[g].owner = o /\ rec'[x].home = g
        BY <2>4, <2>5, <3>1, <3>2 DEF Evolves, GroupsKeep
      <3>4. c \in Descendants(o)
        <4>1. CASE o = c
          BY <4>1, DescSelf
        <4>2. CASE o # c
          <5>1. rec[c].home = g
            BY <2>3, <3>1, <3>2, <4>2, InOpenGroup, NoneFree
          <5>2. c \in Tasks
            BY <1>2, <3>1, <5>1, NoneFree DEF RecsOK, Born, Recs
          <5> QED
            BY <2>3, <3>2, <5>1, <5>2, NoneFree DEF GroupDescend
        <4> QED
          BY <4>1, <4>2
      <3>5. c \in Descendants(o)'
        BY <3>4, DescGrow
      <3>6. x \in Descendants(o)'
        BY <1>2, <2>3, <3>5 DEF Descendants, Offspring
      <3> QED
        BY <3>3, <3>6 DEF Descendants, Offspring
    <2>6. CASE rec'[x].inplace
      BY <1>1, <2>1, <2>6 DEF Births
    <2> QED
      BY <2>5, <2>6
  <1> QED
    BY <1>3, <1>4

\* A frame that was there before, of the same task.
SameTk(s, i) == i \in DOMAIN stack[s] /\ stack'[s][i].tk = stack[s][i].tk

LEMMA StaysTasks ==
  ASSUME Shape, StacksOK, NEW t \in Threads, Stays(t), NEW s \in Threads, NEW i \in DOMAIN stack'[s]
  PROVE  SameTk(s, i)
  <1>1. Below(t)
    BY DEF Stays, Topped, Popped
  <1>2. CASE Old(t, s, i)
    BY <1>1, <1>2, OldTasks DEF SameTk
  <1>3. CASE ~ Old(t, s, i)
    <2>1. PICK m \in Nat \ {0} : m = Len(stack[t])
      BY TopIs
    <2>2. s = t /\ ~ (i < m) /\ i \in 1 .. Len(stack'[t])
      <3>1. stack'[t] \in Seq(FrameT)
        BY <1>1 DEF Below
      <3> QED
        BY <1>3, <2>1, <3>1, LenProperties DEF Old
    <2>3. CASE \E g : Topped(t, g) /\ g.tk = Cur(t) /\ g.pc # "link"
      <3>1. Len(stack'[t]) = m /\ stack'[t][m].tk = Cur(t)
        BY <2>1, <2>3 DEF Topped
      <3>2. i = m
        BY <2>2, <3>1
      <3>3. m \in DOMAIN stack[t] /\ stack[t][m].tk = Cur(t)
        BY <2>1, TopIs DEF Cur
      <3> QED
        BY <2>2, <3>1, <3>2, <3>3 DEF SameTk
    <2>4. CASE Popped(t) /\ Len(stack[t]) > 1
      <3>1. Len(stack'[t]) = m - 1
        BY <2>1, <2>4 DEF Popped
      <3> QED
        BY <2>2, <3>1
    <2> QED
      BY <2>3, <2>4 DEF Stays
  <1> QED
    BY <1>2, <1>3

LEMMA PushedTasks ==
  ASSUME Shape, StacksOK, NEW t \in Threads, NEW f, NEW g, Pushed(t, f, g), f.tk = Cur(t),
         NEW s \in Threads, NEW i \in DOMAIN stack'[s]
  PROVE  SameTk(s, i) \/ (s = t /\ i = Len(stack[t]) + 1 /\ stack'[s][i] = g)
  <1>1. Below(t)
    BY DEF Pushed
  <1>2. CASE Old(t, s, i)
    BY <1>1, <1>2, OldTasks DEF SameTk
  <1>3. CASE ~ Old(t, s, i)
    <2>1. PICK m \in Nat \ {0} : m = Len(stack[t])
      BY TopIs
    <2>2. s = t /\ ~ (i < m) /\ i \in 1 .. Len(stack'[t])
      <3>1. stack'[t] \in Seq(FrameT)
        BY <1>1 DEF Below
      <3> QED
        BY <1>3, <2>1, <3>1, LenProperties DEF Old
    <2>3. Len(stack'[t]) = m + 1 /\ stack'[t][m] = f /\ stack'[t][m + 1] = g
      BY <2>1 DEF Pushed
    <2>4. i = m \/ i = m + 1
      BY <2>1, <2>2, <2>3
    <2>5. m \in DOMAIN stack[t] /\ stack[t][m].tk = Cur(t)
      BY <2>1, TopIs DEF Cur
    <2> QED
      BY <2>1, <2>2, <2>3, <2>4, <2>5 DEF SameTk
  <1> QED
    BY <1>2, <1>3

\* No task is put on top of another that it does not descend from.
LEMMA PiledKept ==
  ASSUME TasksInv, Piled, NEW t \in Threads, Evolves(t), NEW c \in Recs, c = Cur(t),
         \/ \A s \in Threads : \A i \in DOMAIN stack'[s] : SameTk(s, i)
         \/ \E f, g : /\ Pushed(t, f, g) /\ f.tk = Cur(t) /\ g.tk \in Recs
                      /\ Len(stack[t]) > 1 => g.tk \in Descendants(c)'
  PROVE  Piled'
  <1>1. SUFFICES ASSUME NEW s \in Threads, NEW i \in DOMAIN stack'[s], NEW k \in DOMAIN stack'[s], 1 < i, i <= k
                 PROVE  stack'[s][k].tk \in Descendants(stack[s][i].tk)'
    BY DEF Piled
  <1>2. Shape /\ StacksOK /\ i \in Nat /\ k \in Nat
    <2>1. Shape /\ StacksOK
      BY CurIs
    <2>2. CASE \A r \in Threads : \A j \in DOMAIN stack'[r] : SameTk(r, j)
      <3>1. i \in DOMAIN stack[s] /\ k \in DOMAIN stack[s]
        BY <2>2 DEF SameTk
      <3> QED
        BY <2>1, <3>1, TopIs
    <2>3. CASE \E f, g : Pushed(t, f, g)
      <3>1. stack'[s] \in Seq(FrameT)
        BY <2>3 DEF Pushed, Below
      <3> QED
        BY <2>1, <3>1, LenProperties
    <2> QED
      BY <2>2, <2>3
  <1>3. PICK a, b : a = stack'[s][i].tk /\ b = stack'[s][k].tk
    OBVIOUS
  <1>4. ASSUME SameTk(s, i), SameTk(s, k)
        PROVE  b \in Descendants(a)'
    <2>1. stack[s][i].tk = a /\ stack[s][k].tk = b /\ i \in DOMAIN stack[s] /\ k \in DOMAIN stack[s]
      BY <1>3, <1>4 DEF SameTk
    <2>2. b \in Descendants(a)
      BY <1>1, <2>1 DEF Piled
    <2> QED
      BY <2>2, DescGrow
  <1>5. b \in Descendants(a)'
    <2>1. CASE \A r \in Threads : \A j \in DOMAIN stack'[r] : SameTk(r, j)
      BY <1>4, <2>1
    <2>2. CASE ~ (SameTk(s, i) /\ SameTk(s, k)) /\ ~ \A r \in Threads : \A j \in DOMAIN stack'[r] : SameTk(r, j)
      <3>1. PICK f, g : /\ Pushed(t, f, g) /\ f.tk = Cur(t) /\ g.tk \in Recs
                        /\ Len(stack[t]) > 1 => g.tk \in Descendants(c)'
        BY <2>2
      <3>2. PICK m \in Nat \ {0} : m = Len(stack[t])
        BY <1>2, TopIs
      <3>3. s = t /\ k = m + 1 /\ b = g.tk
        <4>1. SameTk(s, i) \/ (s = t /\ i = m + 1)
          BY <1>2, <3>1, <3>2, PushedTasks
        <4>2. SameTk(s, k) \/ (s = t /\ k = m + 1 /\ stack'[s][k] = g)
          BY <1>2, <3>1, <3>2, PushedTasks
        <4>3. SameTk(s, k) => k \in DOMAIN stack[s]
          BY DEF SameTk
        <4>4. SameTk(s, k) /\ s = t => k \in 1 .. m
          BY <1>2, <3>2, <4>3, TopIs
        <4> QED
          BY <1>1, <1>2, <1>3, <2>2, <4>1, <4>2, <4>4
      <3>4. CASE i = k
        <4>1. a = b /\ b \in Recs
          BY <1>3, <3>1, <3>3, <3>4
        <4> QED
          BY <4>1 DEF Descendants, Offspring
      <3>5. CASE i # k
        <4>1. SameTk(s, i)
          BY <1>2, <3>1, <3>2, <3>3, <3>5, PushedTasks
        <4>2. stack[t][i].tk = a /\ i \in DOMAIN stack[t]
          BY <1>3, <3>3, <4>1 DEF SameTk
        <4>3. m \in DOMAIN stack[t] /\ stack[t][m].tk = Cur(t) /\ i \in 1 .. m
          BY <1>2, <3>2, <4>2, TopIs DEF Cur
        <4>4. Cur(t) \in Descendants(a) /\ m > 1
          BY <1>1, <4>2, <4>3 DEF Piled
        <4>5. Cur(t) \in Descendants(a)'
          BY <4>4, DescGrow
        <4>7. c \in Descendants(a)'
          BY <4>5
        <4>8. b \in Descendants(c)'
          BY <3>1, <3>2, <3>3, <4>4
        <4> QED
          BY <4>7, <4>8 DEF Descendants, Offspring
      <3> QED
        BY <3>4, <3>5
    <2> QED
      BY <1>4, <2>1, <2>2
  <1> QED
    BY <1>3, <1>5

\* The step of t adds no more than the tasks of A to its deque.
Adds(t, A) ==
  /\ base' \in [Threads -> Nat] /\ dq' \in [Threads -> Seq(Tasks)]
  /\ \A s \in Threads : \A j \in DOMAIN dq'[s] :
       \/ s = t /\ dq'[s][j] \in A
       \/ \E k \in DOMAIN dq[s] : dq'[s][j] = dq[s][k] /\ base'[s] + j = base[s] + k
\* Nothing is above the mark of task z of thread s, or what is was or descends from it.
MarkStays(t, A, s, z) ==
  \/ ~ Marked(z)'
  \/ rec'[z].mark = base'[s] + Len(dq'[s])
  \/ /\ (\E i \in DOMAIN stack[s] : i > 1 /\ stack[s][i].tk = z)
     /\ Marked(z) /\ rec'[z].mark = rec[z].mark
     /\ s = t => A \subseteq Descendants(z)'

LEMMA MarkKept ==
  ASSUME TasksInv, MarkDescend, NEW t \in Threads, Evolves(t), NEW A, Adds(t, A),
         \A s \in Threads : \A i \in DOMAIN stack'[s] :
           i > 1 => \E z \in Recs : z = stack'[s][i].tk /\ MarkStays(t, A, s, z)
  PROVE  MarkDescend'
  <1>1. SUFFICES ASSUME NEW s \in Threads, NEW i \in DOMAIN stack'[s], NEW j \in DOMAIN dq'[s], i > 1,
                        NEW z \in Recs, z = stack'[s][i].tk, Marked(z)', base'[s] + j > rec'[z].mark,
                        MarkStays(t, A, s, z)
                 PROVE  dq'[s][j] \in Descendants(z)'
    BY DEF MarkDescend, Marked
  <1>2. Shape
    BY CurIs
  <1>3. PICK b \in Nat : b = base'[s]
    BY DEF Adds
  <1>4. PICK n \in Nat : n = Len(dq'[s]) /\ DOMAIN dq'[s] = 1 .. n
    <2>1. dq'[s] \in Seq(Tasks)
      BY DEF Adds
    <2> QED
      BY <2>1, LenProperties
  <1>5. j \in Nat /\ j <= n
    BY <1>4
  <1>6. rec'[z].mark # base'[s] + Len(dq'[s])
    BY <1>1, <1>3, <1>4, <1>5
  <1>7. /\ Marked(z) /\ rec'[z].mark = rec[z].mark /\ (s = t => A \subseteq Descendants(z)')
        /\ \E h \in DOMAIN stack[s] : h > 1 /\ stack[s][h].tk = z
    BY <1>1, <1>6 DEF MarkStays
  <1>8. CASE s = t /\ dq'[s][j] \in A
    BY <1>7, <1>8
  <1>9. CASE \E k \in DOMAIN dq[s] : dq'[s][j] = dq[s][k] /\ base'[s] + j = base[s] + k
    <2>1. PICK k \in DOMAIN dq[s] : dq'[s][j] = dq[s][k] /\ base'[s] + j = base[s] + k
      BY <1>9
    <2>2. base[s] + k > rec[z].mark
      BY <1>1, <1>7, <2>1
    <2>3. PICK h \in DOMAIN stack[s] : h > 1 /\ stack[s][h].tk = z
      BY <1>7
    <2>4. dq[s][k] \in Descendants(z)
      BY <1>7, <2>2, <2>3 DEF MarkDescend
    <2> QED
      BY <2>1, <2>4, DescGrow
  <1> QED
    BY <1>8, <1>9 DEF Adds

LEMMA AddsNone ==
  ASSUME Shape, NEW t \in Threads, dq' = dq, base' = base
  PROVE  Adds(t, {})
  <1>1. dq \in [Threads -> Seq(Tasks)] /\ base \in [Threads -> Nat]
    BY DEF Shape
  <1> QED
    BY <1>1 DEF Adds

LEMMA FrameTk ==
  ASSUME Shape, StacksOK, NEW s \in Threads, NEW i \in DOMAIN stack[s]
  PROVE  stack[s][i] \in FrameT /\ stack[s][i].tk \in Recs /\ Fate(stack[s][i]) /\ rec[stack[s][i].tk].st \notin {"none", "wait"}
  <1>1. stack[s][i] \in FrameT
    BY ElementOfSeq DEF Shape
  <1>2. stack[s][i].tk \in Recs
    BY <1>1 DEF FrameT
  <1>3. Fate(stack[s][i])
    BY DEF StacksOK, FrameOK
  <1> QED
    BY <1>1, <1>2, <1>3, FrameBorn

\* The thread stays inside the tasks it was inside, and what it adds to its deque
\* descends from them.
LEMMA AddTied ==
  ASSUME TasksInv, TiedOK, NEW t \in Threads, Evolves(t), NEW A, Adds(t, A),
         \A s \in Threads : \A i \in DOMAIN stack'[s] : SameTk(s, i),
         \A z \in Recs : rec[z].st \notin {"none", "wait"} => rec'[z].mark = rec[z].mark /\ (Marked(z)' => Marked(z)),
         \A i \in DOMAIN stack[t] : \A z \in Recs :
           i > 1 /\ z = stack[t][i].tk /\ Marked(z)' => A \subseteq Descendants(z)
  PROVE  TiedOK'
  <1>1. Shape /\ StacksOK
    BY CurIs
  <1>2. PICK c \in Recs : c = Cur(t)
    BY CurIs
  <1>3. Piled'
    BY <1>2, PiledKept DEF TiedOK
  <1>4. GroupDescend'
    BY GroupDescendKept DEF TiedOK
  <1>5. ASSUME NEW s \in Threads, NEW i \in DOMAIN stack'[s], i > 1
        PROVE  \E z \in Recs : z = stack'[s][i].tk /\ MarkStays(t, A, s, z)
    <2>1. i \in DOMAIN stack[s] /\ stack'[s][i].tk = stack[s][i].tk
      BY DEF SameTk
    <2>2. PICK z \in Recs : z = stack[s][i].tk /\ rec[z].st \notin {"none", "wait"}
      BY <1>1, <2>1, FrameTk
    <2>3. s = t /\ Marked(z)' => A \subseteq Descendants(z)'
      <3>1. SUFFICES ASSUME s = t, Marked(z)', NEW y \in A
                     PROVE  y \in Descendants(z)'
        OBVIOUS
      <3>2. y \in Descendants(z)
        BY <1>5, <2>1, <2>2, <3>1
      <3> QED
        BY <3>2, DescGrow
    <2> QED
      BY <1>5, <2>1, <2>2, <2>3 DEF MarkStays
  <1>6. MarkDescend'
    BY <1>5, MarkKept DEF TiedOK
  <1> QED
    BY <1>3, <1>4, <1>6 DEF TiedOK

\* A step that keeps tasks, stacks and queues keeps who descends from whom.
LEMMA KinTied ==
  ASSUME TasksInv, TiedOK, NEW t \in Threads, KeepsKin(t)
  PROVE  TiedOK'
  <1>1. Shape /\ StacksOK
    BY CurIs
  <1>2. Evolves(t) /\ Stays(t) /\ dq' = dq /\ base' = base /\ \A y \in Recs : Keeps(y)
    BY KinEvolves DEF KeepsKin
  <1>3. \A s \in Threads : \A i \in DOMAIN stack'[s] : SameTk(s, i)
    BY <1>1, <1>2, StaysTasks
  <1>4. Adds(t, {})
    BY <1>1, <1>2, AddsNone
  <1>5. \A z \in Recs : rec'[z].mark = rec[z].mark /\ (Marked(z)' => Marked(z))
    BY <1>2 DEF Marked, Keeps, Core
  <1> QED
    BY <1>2, <1>3, <1>4, <1>5, AddTied

LEMMA HereTied ==
  ASSUME TasksInv, TiedOK, NEW t \in Threads, NEW n \in Tasks, CreatedHere(t, n)
  PROVE  TiedOK'
  <1>1. Shape /\ StacksOK /\ n \in Recs
    BY CurIs, NoneFree
  <1>2. PICK c \in Recs : c = Cur(t)
    BY CurIs
  <1>3. Evolves(t)
    BY CreatedEvolves
  <1>4. PICK g : Pushed(t, Top(t), g) /\ g.tk = n
    BY DEF CreatedHere
  <1>5. /\ dq' = dq /\ base' = base /\ rec'[n].creator = c /\ rec'[n].mark = base[t] + Len(dq[t])
        /\ \A y \in Recs : y # n => SameId(rec[y], rec'[y]) /\ rec'[y].st = rec[y].st /\ rec'[y].mark = rec[y].mark
    BY <1>2 DEF CreatedHere, Created, Bottom
  <1>6. rec[n].st = "none"
    BY DEF CreatedHere, Created, NoRec
  <1>7. n \in Descendants(c)'
    BY <1>1, <1>5 DEF Descendants, Offspring
  <1>8. Top(t).tk = Cur(t)
    BY DEF Cur
  <1>9. Piled'
    BY <1>1, <1>2, <1>3, <1>4, <1>7, <1>8, PiledKept DEF TiedOK
  <1>10. GroupDescend'
    BY <1>3, GroupDescendKept DEF TiedOK
  <1>11. Adds(t, {})
    BY <1>1, <1>5, AddsNone
  <1>12. ASSUME NEW s \in Threads, NEW i \in DOMAIN stack'[s], i > 1
        PROVE  \E z \in Recs : z = stack'[s][i].tk /\ MarkStays(t, {}, s, z)
    <2>1. SameTk(s, i) \/ (s = t /\ stack'[s][i] = g)
      BY <1>1, <1>4, <1>8, PushedTasks
    <2>2. CASE SameTk(s, i)
      <3>1. i \in DOMAIN stack[s] /\ stack'[s][i].tk = stack[s][i].tk
        BY <2>2 DEF SameTk
      <3>2. PICK z \in Recs : z = stack[s][i].tk
        BY <1>1, <3>1, FrameTk
      <3>4. z # n
        BY <1>1, <1>6, <3>1, <3>2, FrameTk
      <3>5. (Marked(z)' => Marked(z)) /\ rec'[z].mark = rec[z].mark
        BY <1>5, <3>4 DEF Marked, SameId
      <3> QED
        BY <1>12, <3>1, <3>2, <3>5 DEF MarkStays
    <2>3. CASE s = t /\ stack'[s][i] = g
      BY <1>1, <1>4, <1>5, <2>3 DEF MarkStays
    <2> QED
      BY <2>1, <2>2, <2>3
  <1>13. MarkDescend'
    BY <1>3, <1>11, <1>12, MarkKept DEF TiedOK
  <1> QED
    BY <1>9, <1>10, <1>13 DEF TiedOK
\* The innermost frame is replaced by one of the same task.
LEMMA ToppedTasks ==
  ASSUME Shape, StacksOK, NEW t \in Threads, NEW g, Topped(t, g), g.tk = Cur(t), NEW s \in Threads, NEW i \in DOMAIN stack'[s]
  PROVE  SameTk(s, i)
  <1>1. Below(t)
    BY DEF Topped
  <1>2. CASE Old(t, s, i)
    BY <1>1, <1>2, OldTasks DEF SameTk
  <1>3. CASE ~ Old(t, s, i)
    <2>1. PICK m \in Nat \ {0} : m = Len(stack[t])
      BY TopIs
    <2>2. s = t /\ ~ (i < m) /\ i \in 1 .. Len(stack'[t])
      <3>1. stack'[t] \in Seq(FrameT)
        BY <1>1 DEF Below
      <3> QED
        BY <1>3, <2>1, <3>1, LenProperties DEF Old
    <2>3. Len(stack'[t]) = m /\ stack'[t][m].tk = Cur(t)
      BY <2>1 DEF Topped
    <2>4. i = m
      BY <2>2, <2>3
    <2>5. m \in DOMAIN stack[t] /\ stack[t][m].tk = Cur(t)
      BY <2>1, TopIs DEF Cur
    <2> QED
      BY <2>2, <2>3, <2>4, <2>5 DEF SameTk
  <1> QED
    BY <1>2, <1>3

LEMMA LaterTied ==
  ASSUME TasksInv, TiedOK, NEW t \in Threads, NEW n \in Tasks, CreatedLater(t, n)
  PROVE  TiedOK'
  <1>1. Shape /\ StacksOK
    BY CurIs
  <1>2. PICK g : Topped(t, g) /\ g.tk = Cur(t)
    BY DEF CreatedLater
  <1>3. \A s \in Threads : \A i \in DOMAIN stack'[s] : SameTk(s, i)
    BY <1>1, <1>2, ToppedTasks
  <1>4. dq' = dq /\ base' = base /\ rec[n].st = "none" /\ Evolves(t)
    <2>1. dq' = dq /\ base' = base /\ rec[n].st = "none"
      BY DEF CreatedLater, Created, NoRec
    <2> QED
      BY <2>1, CreatedEvolves
  <1>5. Adds(t, {})
    BY <1>1, <1>4, AddsNone
  <1>6. \A z \in Recs : z # n => rec'[z].mark = rec[z].mark /\ (Marked(z)' => Marked(z))
    BY DEF CreatedLater, Created, SameId, Marked
  <1> QED
    BY <1>3, <1>4, <1>5, <1>6, AddTied

\* A child of the innermost task descends from all it is on top of.
LEMMA ChildBelow ==
  ASSUME TasksInv, TiedOK, NEW t \in Threads, NEW n \in Tasks, rec[n].st # "none", rec[n].parent = Cur(t),
         NEW i \in DOMAIN stack[t], i > 1
  PROVE  n \in Descendants(stack[t][i].tk)
  <1>1. Shape /\ StacksOK /\ Cur(t) \in Recs /\ n \in Recs /\ n \notin Threads
    BY CurIs, NoneFree
  <1>2. rec[n].creator = Cur(t)
    BY <1>1, NoneFree DEF TasksInv, RecsOK, Born
  <1>3. PICK m \in Nat : m = Len(stack[t]) /\ m \in DOMAIN stack[t] /\ DOMAIN stack[t] = 1 .. m /\ stack[t][m].tk = Cur(t)
    BY <1>1, TopIs DEF Cur
  <1>4. Cur(t) \in Descendants(stack[t][i].tk)
    BY <1>3 DEF TiedOK, Piled
  <1> QED
    BY <1>1, <1>2, <1>3, <1>4, FrameTk, DescChild

LEMMA SpawnPushTied ==
  ASSUME TasksInv, TiedOK, NEW t \in Threads, SpawnPush(t)
  PROVE  TiedOK'
  <1>1. Shape /\ StacksOK /\ Cur(t) \in Recs
    BY CurIs
  <1>2. PICK n \in Tasks : n = Linked(t) /\ rec[n].parent = Cur(t) /\ rec[n].st = "wait"
    BY LinkedIs DEF SpawnPush
  <1>3. dq' = [dq EXCEPT ![t] = Append(@, n)] /\ base' = base /\ rec' = rec /\ Evolves(t)
    BY <1>2, SpawnPushEvolves DEF SpawnPush
  <1>4. PICK g : g = Frame(Cur(t), "wake")
    OBVIOUS
  <1>5. g \in FrameT /\ g.tk = Cur(t)
    BY <1>1, <1>4, FrameIs, PcIs DEF IsFrame, Pcs, RunPcs
  <1>6. Topped(t, g)
    BY <1>1, <1>4, <1>5, SetTopStep DEF SpawnPush
  <1>7. \A s \in Threads : \A i \in DOMAIN stack'[s] : SameTk(s, i)
    BY <1>1, <1>5, <1>6, ToppedTasks
  <1>8. Adds(t, {n})
    <2>1. dq \in [Threads -> Seq(Tasks)] /\ base \in [Threads -> Nat]
      BY <1>1 DEF Shape
    <2>2. Append(dq[t], n) \in Seq(Tasks)
      BY <2>1
    <2>3. dq' \in [Threads -> Seq(Tasks)] /\ dq'[t] = Append(dq[t], n) /\ \A s \in Threads : s # t => dq'[s] = dq[s]
      BY <1>3, <2>1, <2>2
    <2>4. ASSUME NEW j \in DOMAIN dq'[t], dq'[t][j] # n
          PROVE  j \in DOMAIN dq[t] /\ dq'[t][j] = dq[t][j]
      BY <2>1, <2>3, <2>4, AppendProperties, LenProperties
    <2> QED
      BY <1>3, <2>1, <2>3, <2>4 DEF Adds
  <1>9. \A z \in Recs : rec'[z].mark = rec[z].mark /\ (Marked(z)' => Marked(z))
    BY <1>3 DEF Marked
  <1>10. \A i \in DOMAIN stack[t] : i > 1 => n \in Descendants(stack[t][i].tk)
    BY <1>2, ChildBelow
  <1> QED
    BY <1>3, <1>7, <1>8, <1>9, <1>10, AddTied

\* The tasks that are queued under tm are at the end of the deque.
LEMMA PushAdds ==
  ASSUME Shape, NEW t \in Threads, NEW xs \in SUBSET Tasks, NEW st, PushLocked(t, xs, st), base' = base
  PROVE  Adds(t, xs)
  <1>1. PICK low \in SUBSET xs : \E ls \in InOrder(low) : dq' = [dq EXCEPT ![t] = @ \o ls]
    BY DEF PushLocked
  <1>2. PICK ls \in InOrder(low) : dq' = [dq EXCEPT ![t] = @ \o ls]
    BY <1>1
  <1>3. ls \in Seq(Tasks) /\ \A y : Names(ls, y) => y \in xs
    BY <1>1, InOrderIs
  <1>4. dq \in [Threads -> Seq(Tasks)] /\ base \in [Threads -> Nat]
    BY DEF Shape
  <1>5. dq[t] \o ls \in Seq(Tasks)
    BY <1>3, <1>4
  <1>6. dq' \in [Threads -> Seq(Tasks)] /\ dq'[t] = dq[t] \o ls /\ \A s \in Threads : s # t => dq'[s] = dq[s]
    BY <1>2, <1>4, <1>5
  <1>7. ASSUME NEW j \in DOMAIN dq'[t], dq'[t][j] \notin xs
        PROVE  j \in DOMAIN dq[t] /\ dq'[t][j] = dq[t][j]
    <2>1. PICK u \in Seq(Tasks) : u = dq[t]
      BY <1>4
    <2>2. PICK a \in Nat, b \in Nat : a = Len(u) /\ b = Len(ls) /\ DOMAIN u = 1 .. a /\ DOMAIN ls = 1 .. b
      BY <1>3, <2>1, LenProperties
    <2>3. Len(u \o ls) = a + b /\ DOMAIN (u \o ls) = 1 .. a + b
      BY <1>3, <2>1, <2>2, ConcatProperties, LenProperties
    <2>4. j \in 1 .. a + b
      BY <1>6, <2>1, <2>3
    <2>5. CASE j <= a
      <3>1. (u \o ls)[j] = u[j]
        BY <1>3, <2>1, <2>2, <2>4, <2>5, ConcatProperties
      <3> QED
        BY <1>6, <2>1, <2>2, <2>4, <2>5, <3>1
    <2>6. CASE j > a
      <3>1. (u \o ls)[j] = ls[j - a] /\ j - a \in 1 .. b
        BY <1>3, <2>1, <2>2, <2>4, <2>6, ConcatProperties
      <3>2. Names(ls, (u \o ls)[j])
        BY <2>2, <3>1 DEF Names
      <3> QED
        BY <1>3, <1>6, <1>7, <2>1, <3>2
    <2> QED
      BY <2>2, <2>4, <2>5, <2>6
  <1> QED
    BY <1>4, <1>6, <1>7 DEF Adds

LEMMA SpawnLinkTied ==
  ASSUME TasksInv, TiedOK, NEW t \in Threads, SpawnLink(t)
  PROVE  TiedOK'
  <1>1. Shape /\ StacksOK
    BY CurIs
  <1>2. PICK x \in Tasks, p \in Recs, d \in DepT, xs \in SUBSET Tasks, f \in FrameT : LinkOn(t, x, p, d, xs, f)
    BY LinkIs
  <1>3. /\ Topped(t, f) /\ f.tk = Cur(t) /\ base' = base /\ rec[x].parent = Cur(t) /\ rec[x].st = "wait" /\ Linked(t) = x
        /\ \A y \in Recs : SameId(rec[y], rec'[y]) /\ rec'[y].st = rec[y].st
    BY <1>2 DEF LinkOn, Linking
  <1>4. Evolves(t)
    BY LinkEvolves
  <1>5. \A s \in Threads : \A i \in DOMAIN stack'[s] : SameTk(s, i)
    BY <1>1, <1>3, ToppedTasks
  <1>6. PICK ys \in SUBSET {x} : \E st : PushLocked(t, ys, st)
    <2>1. PICK ys, st : PushLocked(t, ys, st) /\ ys = (IF ~ rec[x].kind.if0 /\ Deps(x).pred = {} THEN {x} ELSE {})
      BY <1>3 DEF SpawnLink
    <2>2. ys \in SUBSET {x}
      BY <2>1
    <2> QED
      BY <2>1, <2>2
  <1>7. Adds(t, ys)
    BY <1>1, <1>3, <1>6, PushAdds
  <1>8. \A z \in Recs : rec'[z].mark = rec[z].mark
    <2>5. PICK c \in Recs : c = Cur(t)
      BY CurIs
    <2>6. PICK dd : dd = Deps(x)
      OBVIOUS
    <2>1. rec' = [rec EXCEPT ![x].pred = dd.pred, ![x].refs = @ + dd.add,
                             ![c].writer = dd.writer, ![c].readers = dd.readers]
      BY <1>3, <2>5, <2>6 DEF SpawnLink
    <2>2. rec \in [Recs -> RecT]
      BY <1>1 DEF Shape
    <2>3. TAKE z \in Recs
    <2>4. rec[z] \in RecT
      BY <2>2
    <2> QED
      BY <2>1, <2>2, <2>4, NoneFree DEF RecT
  <1>9. \A z \in Recs : rec'[z].mark = rec[z].mark /\ (Marked(z)' => Marked(z))
    BY <1>3, <1>8 DEF Marked, SameId
  <1>10. \A i \in DOMAIN stack[t] : i > 1 => ys \subseteq Descendants(stack[t][i].tk)
    BY <1>3, <1>6, ChildBelow
  <1> QED
    BY <1>4, <1>5, <1>7, <1>9, <1>10, AddTied

LEMMA CompleteTied ==
  ASSUME TasksInv, TiedOK, NEW t \in Threads, Complete(t)
  PROVE  TiedOK'
  <1>1. Shape /\ StacksOK /\ RecsOK
    BY CurIs
  <1>2. PICK x \in Recs, xs \in SUBSET Tasks, g \in FrameT : CompleteOn(t, x, xs, g)
    BY CompleteIs
  <1>3. /\ Topped(t, g) /\ g.tk = Cur(t) /\ base' = base /\ x = Cur(t) /\ x \in Tasks /\ x \notin Threads /\ Deferred(x)
        /\ rec'[x].st = "over"
        /\ \A y \in Recs : SameId(rec[y], rec'[y]) /\ (y # x => rec'[y].st = rec[y].st)
    BY <1>2 DEF CompleteOn, Released
  <1>4. Evolves(t)
    BY CompleteEvolves
  <1>5. \A s \in Threads : \A i \in DOMAIN stack'[s] : SameTk(s, i)
    BY <1>1, <1>3, ToppedTasks
  <1>6. PICK ys \in SUBSET {y \in Tasks : rec[y].pred = {x}} : \E st : PushLocked(t, ys, st)
    <2>1. PICK ys, st, here : PushLocked(t, ys, st) /\ ys = {y \in Tasks : rec[y].pred = {x}} \ here
      BY <1>3 DEF Complete
    <2>2. ys \in SUBSET {y \in Tasks : rec[y].pred = {x}}
      BY <2>1
    <2> QED
      BY <2>1, <2>2
  <1>7. Adds(t, ys)
    <2>1. ys \in SUBSET Tasks
      BY <1>6
    <2> QED
      BY <1>1, <1>3, <1>6, <2>1, PushAdds
  <1>8. \A z \in Recs : rec'[z].mark = rec[z].mark
    <2>1. rec' = [y \in Recs |-> IF y = x THEN [rec[y] EXCEPT !.done = TRUE, !.st = "over"]
                                 ELSE [rec[y] EXCEPT !.pred = @ \ {x}]]
      BY <1>3 DEF Complete
    <2>2. TAKE z \in Recs
    <2>3. rec[z] \in RecT
      BY <1>1 DEF Shape
    <2> QED
      BY <2>1, <2>3 DEF RecT
  <1>9. \A z \in Recs : rec'[z].mark = rec[z].mark /\ (Marked(z)' => Marked(z))
    BY <1>3, <1>8 DEF Marked, SameId
  <1>10. ASSUME NEW i \in DOMAIN stack[t], NEW z \in Recs, i > 1, z = stack[t][i].tk, Marked(z)', NEW y \in ys
         PROVE  y \in Descendants(z)
    <2>1. y \in Tasks /\ rec[y].pred = {x} /\ y \in Recs /\ y \notin Threads
      BY <1>6, NoneFree
    <2>2. rec[y].parent = rec[x].parent /\ rec[y].st = "wait"
      BY <1>1, <2>1 DEF RecsOK, Waits4
    <2>3. rec[x].parent \in Recs /\ rec[x].parent = rec[x].creator
      BY <1>1, <1>3 DEF RecsOK, Born, Deferred
    <2>4. rec[y].parent = rec[y].creator
      BY <1>1, <2>1, <2>2, <2>3, NoneFree DEF RecsOK, Born
    <2>5. z # x
      <3>1. rec'[x].inplace = rec[x].inplace /\ ~ rec[x].inplace
        BY <1>3 DEF SameId, Deferred
      <3> QED
        BY <1>3, <1>10, <3>1 DEF Marked
    <2>6. x \in Descendants(z)
      <3>1. PICK m \in Nat : m = Len(stack[t]) /\ m \in DOMAIN stack[t] /\ DOMAIN stack[t] = 1 .. m /\ stack[t][m].tk = Cur(t)
        BY <1>1, TopIs DEF Cur
      <3> QED
        BY <1>3, <1>10, <3>1 DEF TiedOK, Piled
    <2>7. rec[x].creator \in Descendants(z)
      BY <1>3, <2>5, <2>6, DescUp
    <2> QED
      BY <2>1, <2>2, <2>3, <2>4, <2>7, DescChild
  <1> QED
    BY <1>4, <1>5, <1>7, <1>9, <1>10, AddTied

\* A queue that loses tasks only.
LEMMA StartTied ==
  ASSUME TasksInv, TiedOK, NEW t \in Threads, NEW x \in Tasks, Starts(t, x), Adds(t, {}),
         NEW c \in Recs, c = Cur(t), Len(stack[t]) > 1 => x \in Descendants(c)
  PROVE  TiedOK'
  <1>1. Shape /\ StacksOK /\ x \in Recs
    BY CurIs, NoneFree
  <1>2. Evolves(t)
    BY StartsEvolves
  <1>3. PICK f, g : Pushed(t, f, g) /\ f.tk = Cur(t) /\ g.tk = x
    BY DEF Starts
  <1>4. rec[x].st = "wait" /\ rec'[x].mark = base'[t] + Len(dq'[t]) /\ \A y \in Recs : y # x => rec'[y] = rec[y]
    BY DEF Starts
  <1>5. Piled'
    <2>1. Len(stack[t]) > 1 => x \in Descendants(c)'
      BY <1>2, DescGrow
    <2> QED
      BY <1>1, <1>2, <1>3, <2>1, PiledKept DEF TiedOK
  <1>6. GroupDescend'
    BY <1>2, GroupDescendKept DEF TiedOK
  <1>7. ASSUME NEW s \in Threads, NEW i \in DOMAIN stack'[s], i > 1
        PROVE  \E z \in Recs : z = stack'[s][i].tk /\ MarkStays(t, {}, s, z)
    <2>1. SameTk(s, i) \/ (s = t /\ stack'[s][i] = g)
      BY <1>1, <1>3, PushedTasks
    <2>2. CASE SameTk(s, i)
      <3>1. i \in DOMAIN stack[s] /\ stack'[s][i].tk = stack[s][i].tk
        BY <2>2 DEF SameTk
      <3>2. PICK z \in Recs : z = stack[s][i].tk /\ z # x
        BY <1>1, <1>4, <3>1, FrameTk
      <3>3. (Marked(z)' => Marked(z)) /\ rec'[z].mark = rec[z].mark
        BY <1>4, <3>2 DEF Marked
      <3> QED
        BY <1>7, <3>1, <3>2, <3>3 DEF MarkStays
    <2>3. CASE s = t /\ stack'[s][i] = g
      BY <1>1, <1>3, <1>4, <2>3 DEF MarkStays
    <2> QED
      BY <2>1, <2>2, <2>3
  <1>8. MarkDescend'
    BY <1>2, <1>7, MarkKept DEF TiedOK
  <1> QED
    BY <1>5, <1>6, <1>8 DEF TiedOK
LEMMA WaitRunTied ==
  ASSUME TasksInv, TiedOK, NEW t \in Threads, WaitRun(t)
  PROVE  TiedOK'
  <1>1. Shape /\ RecsOK
    BY CurIs
  <1>2. PICK x \in Tasks : Starts(t, x) /\ rec[x].parent = Cur(t) /\ dq' = dq /\ base' = base
    BY WaitRunStarts
  <1>3. PICK c \in Recs : c = Cur(t)
    BY CurIs
  <1>4. rec[x].creator = c
    BY <1>1, <1>2, <1>3, NoneFree DEF RecsOK, Born, Starts
  <1>5. x \in Descendants(c)
    BY <1>4, DescSelf, DescChild
  <1> QED
    BY <1>1, <1>2, <1>3, <1>5, AddsNone, StartTied

LEMMA LookHighTied ==
  ASSUME TasksInv, TiedOK, NEW t \in Threads, LookHigh(t)
  PROVE  TiedOK'
  <1>1. Shape /\ RecsOK /\ GroupsOK /\ Counts(Top(t)) /\ Top(t).tk = Cur(t) /\ Top(t).pc = pc(t)
    BY CurIs
  <1>2. PICK i \in HighMatch(t) : hq[i] \in Tasks /\ Starts(t, hq[i]) /\ dq' = dq /\ base' = base
    BY LookHighStarts
  <1>3. PICK x \in Tasks : x = hq[i]
    BY <1>2
  <1>4. PICK c \in Recs : c = Cur(t)
    BY CurIs
  <1>5. rec[x].st = "wait" /\ x \in Recs /\ x \notin Threads
    BY <1>2, <1>3, NoneFree DEF Starts
  <1>6. CASE rec[x].parent = c
    <2>1. rec[x].creator = c
      BY <1>1, <1>4, <1>5, <1>6, NoneFree DEF RecsOK, Born
    <2> QED
      BY <2>1, DescSelf, DescChild, <1>1, <1>2, <1>3, <1>4, AddsNone, StartTied
  <1>7. CASE Top(t).ctr[1] = "group" /\ rec[x].group = Top(t).ctr[2]
    <2>1. PICK g \in Groups : Top(t).ctr = <<"group", g>> /\ grp[g].owner = c
      <3>1. pc(t) = "wait"
        BY DEF LookHigh, MustWait
      <3> QED
        BY <1>1, <1>4, <1>7, <3>1 DEF Counts, WaitPcs
    <2>2. rec[x].group = g /\ g # None
      BY <1>7, <2>1, NoneFree
    <2>3. rec[x].home = g
      BY <1>1, <1>5, <2>2 DEF GroupsOK
    <2>4. x \in Descendants(c)
      BY <1>5, <2>1, <2>2, <2>3 DEF TiedOK, GroupDescend
    <2> QED
      BY <1>1, <1>2, <1>3, <1>4, <2>4, AddsNone, StartTied
  <1> QED
    BY <1>3, <1>4, <1>6, <1>7 DEF HighMatch

LEMMA ListShrinks ==
  ASSUME NEW u \in Seq(Tasks), u # <<>>
  PROVE  /\ Front(u) \in Seq(Tasks) /\ \A j \in DOMAIN Front(u) : j \in DOMAIN u /\ Front(u)[j] = u[j]
         /\ Tail(u) \in Seq(Tasks) /\ \A j \in DOMAIN Tail(u) : j \in Nat /\ j + 1 \in DOMAIN u /\ Tail(u)[j] = u[j + 1]
  <1>1. Front(u) \in Seq(Tasks) /\ Len(Front(u)) = Len(u) - 1 /\ Len(u) \in Nat \ {0}
        /\ \A i \in 1 .. Len(u) - 1 : Front(u)[i] = u[i]
    BY FrontIs
  <1>2. DOMAIN u = 1 .. Len(u) /\ DOMAIN Front(u) = 1 .. Len(u) - 1
    BY <1>1, LenProperties
  <1>3. Tail(u) \in Seq(Tasks) /\ Len(Tail(u)) = Len(u) - 1 /\ \A i \in 1 .. Len(Tail(u)) : Tail(u)[i] = u[i + 1]
    BY HeadTailProperties
  <1>4. DOMAIN Tail(u) = 1 .. Len(u) - 1
    BY <1>3, LenProperties
  <1> QED
    BY <1>1, <1>2, <1>3, <1>4

LEMMA ShrinkAdds ==
  ASSUME Shape, NEW t \in Threads, NEW v \in Threads, dq[v] # <<>>,
         \/ dq' = [dq EXCEPT ![v] = Front(@)] /\ base' = base
         \/ dq' = [dq EXCEPT ![v] = Tail(@)] /\ base' = [base EXCEPT ![v] = @ + 1]
  PROVE  Adds(t, {})
  <1>1. dq \in [Threads -> Seq(Tasks)] /\ base \in [Threads -> Nat] /\ base[v] \in Nat /\ dq[v] \in Seq(Tasks)
    BY DEF Shape
  <1>2. /\ Front(dq[v]) \in Seq(Tasks) /\ \A j \in DOMAIN Front(dq[v]) : j \in DOMAIN dq[v] /\ Front(dq[v])[j] = dq[v][j]
        /\ Tail(dq[v]) \in Seq(Tasks) /\ \A j \in DOMAIN Tail(dq[v]) : j \in Nat /\ j + 1 \in DOMAIN dq[v] /\ Tail(dq[v])[j] = dq[v][j + 1]
    BY <1>1, ListShrinks
  <1>3. CASE dq' = [dq EXCEPT ![v] = Front(@)] /\ base' = base
    <2>1. dq' \in [Threads -> Seq(Tasks)] /\ dq'[v] = Front(dq[v]) /\ \A s \in Threads : s # v => dq'[s] = dq[s]
      BY <1>1, <1>2, <1>3
    <2> QED
      BY <1>1, <1>2, <1>3, <2>1 DEF Adds
  <1>4. CASE dq' = [dq EXCEPT ![v] = Tail(@)] /\ base' = [base EXCEPT ![v] = @ + 1]
    <2>1. dq' \in [Threads -> Seq(Tasks)] /\ dq'[v] = Tail(dq[v]) /\ \A s \in Threads : s # v => dq'[s] = dq[s]
      BY <1>1, <1>2, <1>4
    <2>2. base' \in [Threads -> Nat] /\ base'[v] = base[v] + 1 /\ \A s \in Threads : s # v => base'[s] = base[s]
      BY <1>1, <1>4
    <2>3. ASSUME NEW j \in DOMAIN dq'[v]
          PROVE  \E k \in DOMAIN dq[v] : dq'[v][j] = dq[v][k] /\ base'[v] + j = base[v] + k
      <3>1. j \in Nat /\ j + 1 \in DOMAIN dq[v] /\ dq'[v][j] = dq[v][j + 1]
        BY <1>2, <2>1, <2>3
      <3>2. base'[v] + j = base[v] + (j + 1)
        BY <1>1, <2>2, <3>1
      <3> QED
        BY <3>1, <3>2
    <2>4. ASSUME NEW s \in Threads, NEW j \in DOMAIN dq'[s]
          PROVE  \E k \in DOMAIN dq[s] : dq'[s][j] = dq[s][k] /\ base'[s] + j = base[s] + k
      <3>1. CASE s = v
        BY <2>3, <2>4, <3>1, Zenon
      <3>2. CASE s # v
        <4>1. dq'[s] = dq[s] /\ base'[s] = base[s] /\ j \in DOMAIN dq[s]
          BY <2>1, <2>2, <2>4, <3>2
        <4> QED
          BY <4>1
      <3> QED
        BY <3>1, <3>2
    <2> QED
      BY <2>1, <2>2, <2>4, Zenon DEF Adds
  <1> QED
    BY <1>3, <1>4

LEMMA LookOwnTied ==
  ASSUME TasksInv, TiedOK, NEW t \in Threads, LookOwn(t)
  PROVE  TiedOK'
  <1>1. Shape /\ StacksOK /\ Fate(Top(t)) /\ Top(t).tk = Cur(t) /\ Top(t).pc = pc(t)
    BY CurIs
  <1>2. PICK x \in Tasks : x = Last(dq[t]) /\ Starts(t, x)
    BY LookOwnStarts
  <1>3. PICK c \in Recs : c = Cur(t)
    BY CurIs
  <1>4. dq[t] # <<>> /\ dq' = [dq EXCEPT ![t] = Front(@)] /\ base' = base /\ Bottom(t) - 1 >= rec[c].mark /\ pc(t) = "wait"
    BY <1>3 DEF LookOwn, AboveMark, MustWait
  <1>5. Adds(t, {})
    BY <1>1, <1>4, ShrinkAdds
  <1>6. PICK u \in Seq(Tasks) : u = dq[t] /\ u # <<>>
    BY <1>1, <1>4 DEF Shape
  <1>7. PICK n \in Nat \ {0} : n = Len(u) /\ n \in DOMAIN u /\ Last(u) = u[n]
    <2>1. Len(u) \in Nat \ {0} /\ Last(u) = u[Len(u)]
      BY <1>6, FrontIs
    <2>2. DOMAIN u = 1 .. Len(u)
      BY <1>6, LenProperties
    <2>3. Len(u) \in DOMAIN u
      BY <2>1, <2>2
    <2> QED
      BY <2>1, <2>3
  <1>8. base[t] + n > rec[c].mark
    <2>1. PICK b \in Nat, k \in Int : b = base[t] /\ k = rec[c].mark
      BY <1>1, <1>3 DEF Shape, RecT
    <2>2. b + n - 1 >= k
      BY <1>4, <1>6, <1>7, <2>1 DEF Bottom
    <2> QED
      BY <1>7, <2>1, <2>2
  <1>9. ASSUME Len(stack[t]) > 1
        PROVE  x \in Descendants(c)
    <2>1. PICK m \in Nat : m = Len(stack[t]) /\ m \in DOMAIN stack[t] /\ stack[t][m].tk = c
      BY <1>1, <1>3, TopIs DEF Cur
    <2>2. Marked(c)
      BY <1>1, <1>3, <1>4 DEF Fate, WaitPcs, Marked
    <2> QED
      BY <1>2, <1>6, <1>7, <1>8, <1>9, <2>1, <2>2 DEF TiedOK, MarkDescend
  <1> QED
    BY <1>2, <1>3, <1>5, <1>9, StartTied

LEMMA FindTied ==
  ASSUME TasksInv, TiedOK, NEW t \in Threads, FindHigh(t) \/ FindOwn(t) \/ \E v \in Threads : FindSteal(t, v)
  PROVE  TiedOK'
  <1>1. Shape
    BY CurIs
  <1>2. PICK x \in Tasks : Starts(t, x) /\ Len(stack[t]) = 1
    BY FindStarted
  <1>3. PICK c \in Recs : c = Cur(t)
    BY CurIs
  <1>4. Adds(t, {})
    <2>1. CASE FindHigh(t)
      BY <1>1, <2>1, AddsNone DEF FindHigh
    <2>2. CASE FindOwn(t)
      BY <1>1, <2>2, ShrinkAdds DEF FindOwn
    <2>3. CASE \E v \in Threads : FindSteal(t, v)
      BY <1>1, <2>3, ShrinkAdds DEF FindSteal
    <2> QED
      BY <2>1, <2>2, <2>3
  <1>5. ~ (Len(stack[t]) > 1)
    BY <1>2
  <1> QED
    BY <1>2, <1>3, <1>4, <1>5, StartTied

LEMMA NextTied ==
  ASSUME TasksInv, TiedOK, Next
  PROVE  TiedOK'
  <1>1. PICK t \in Threads : KeepsKin(t) \/ Busy(t)
    BY QuietOrBusy
  <1>2. CASE KeepsKin(t)
    BY <1>2, KinTied
  <1>3. CASE \E k \in NextKinds : SpawnInPlace(t, k) \/ SpawnCount(t, k)
    BY <1>3, SpawnHere, SpawnLater, HereTied, LaterTied
  <1>4. CASE SpawnPush(t) \/ SpawnLink(t) \/ Complete(t)
    BY <1>4, SpawnPushTied, SpawnLinkTied, CompleteTied
  <1>5. CASE WaitRun(t) \/ LookOwn(t) \/ LookHigh(t) \/ FindHigh(t) \/ FindOwn(t) \/ \E v \in Threads : FindSteal(t, v)
    BY <1>5, WaitRunTied, LookOwnTied, LookHighTied, FindTied
  <1> QED
    BY <1>1, <1>2, <1>3, <1>4, <1>5 DEF Busy

LEMMA TiedInit ==
  ASSUME Init
  PROVE  TiedOK
  <1>1. GroupDescend
    BY NoneFree DEF Init, NoRec, GroupDescend
  <1>2. \A t \in Threads : dq[t] = <<>> /\ stack[t] = <<Frame(t, "body")>>
    BY DEF Init
  <1>3. \A t \in Threads : DOMAIN dq[t] = {} /\ DOMAIN stack[t] = {1}
    BY <1>2
  <1> QED
    BY <1>1, <1>3 DEF TiedOK, Piled, MarkDescend

\* What a thread runs on top of an explicit task that waits is a descendant of
\* it: a tied wait does not get stuck under unrelated work (__cccc_task_wait).
THEOREM TiedCorrect == Spec => []TiedWaits
  <1>1. Init => TiedOK
    BY TiedInit
  <1>2. TasksInv /\ TiedOK /\ [Next]_vars => TiedOK'
    <2>1. CASE TasksInv /\ TiedOK /\ Next
      BY <2>1, NextTied
    <2>2. CASE TiedOK /\ UNCHANGED vars
      BY <2>2 DEF vars, qVars, TiedOK, GroupDescend, Piled, MarkDescend, Marked, Descendants, Offspring
    <2> QED
      BY <2>1, <2>2
  <1>3. TasksInv /\ TiedOK => TiedWaits
    <2>1. SUFFICES ASSUME TasksInv, TiedOK, NEW t \in Threads, NEW i \in 2 .. Len(stack[t]) - 1
                   PROVE  stack[t][i + 1].tk \in Descendants(stack[t][i].tk)
      BY DEF TiedWaits
    <2>2. PICK m \in Nat : m = Len(stack[t]) /\ DOMAIN stack[t] = 1 .. m
      BY <2>1, CurIs, TopIs
    <2>3. i \in DOMAIN stack[t] /\ i + 1 \in DOMAIN stack[t] /\ 1 < i /\ i <= i + 1
      BY <2>1, <2>2
    <2> QED
      BY <2>1, <2>3 DEF TiedOK, Piled
  <1> QED
    BY <1>1, <1>2, <1>3, TasksInvariant, PTL DEF Spec

-----------------------------------------------------------------------------
(* Dependences.                                                             *)
Writer(x) == Contains(rec[x].kind.dep, "out")
Unlinked(x) == \E t \in Threads : pc(t) = "link" /\ Linked(t) = x
\* A child of p with dependences that was deferred, and is in the graph.
DepOf(x, p) == x \in Tasks /\ Deferred(x) /\ Tracked(x) /\ rec[x].parent = p
InGraph(x, p) == DepOf(x, p) /\ ~ Unlinked(x)
\* One of the children of p from y to x writes.
Ordered(p, y, x) == \E v \in Tasks : DepOf(v, p) /\ Writer(v) /\ y <= v /\ v <= x

\* A task waits for those it has to follow, or for one that does.
GraphOK ==
  \A p \in Recs : \A x, y \in Tasks :
    InGraph(x, p) /\ InGraph(y, p) /\ y < x /\ Ordered(p, y, x) /\ ~ rec[y].done =>
      \E z \in rec[x].pred : z = y \/ (y < z /\ Ordered(p, y, z))
\* The entry of the address names the last writer and the readers after it.
EntryLast ==
  \A p \in Recs : rec[p].st = "run" =>
    /\ \A y \in Tasks : InGraph(y, p) =>
         \/ Names(rec[p].readers, y) /\ ~ Writer(y)
         \/ rec[p].writer # None /\ y <= rec[p].writer
    /\ rec[p].writer # None => Writer(rec[p].writer)
    /\ \A y \in Tasks : Names(rec[p].readers, y) /\ rec[p].writer # None => rec[p].writer < y
\* Only a task that has started creates tasks, and a final one creates none that
\* are deferred; a task is linked before its creator creates another.
CreatorOK ==
  \A x \in Tasks : rec[x].st # "none" =>
    /\ rec[rec[x].creator].st \notin {"none", "wait"}
    /\ Tracked(x) => (rec[x].inplace <=> rec[rec[x].creator].final)
LinkLast ==
  \A t \in Threads : \A y \in Tasks :
    pc(t) = "link" /\ rec[y].st # "none" /\ rec[y].creator = Cur(t) => y <= Linked(t)
\* A task that runs in place is on top of its creator, so the earlier ones are over.
InPlaceOn ==
  \A t \in Threads : \A i \in DOMAIN stack[t] :
    i > 1 /\ rec[stack[t][i].tk].inplace => stack[t][i - 1].tk = rec[stack[t][i].tk].creator
InPlaceOver ==
  \A x, y \in Tasks :
    /\ rec[x].st # "none" /\ rec[x].inplace /\ rec[y].inplace
    /\ y < x /\ rec[x].creator = rec[y].creator
    => Over(y)
KinOK == CreatorOK /\ LinkLast /\ InPlaceOn /\ InPlaceOver
DepsOK == GraphOK /\ EntryLast /\ KinOK

\* The creator of a task was there before it.
LEMMA CreatorIs ==
  ASSUME TasksInv, NEW x \in Tasks, rec[x].st # "none"
  PROVE  /\ rec[x].creator \in Recs /\ rec[rec[x].creator].st # "none"
         /\ (rec[x].creator \in Tasks => rec[x].creator < x) /\ \A y \in Tasks : y < x => rec[y].st # "none"
         /\ IF rec[x].inplace THEN rec[x].parent = None /\ rec[x].st # "wait" ELSE rec[x].parent = rec[x].creator
  <1>1. x \in Recs /\ x \notin Threads /\ RecsOK
    BY CurIs, NoneFree DEF TasksInv
  <1>2. PICK c : c = rec[x].creator
    OBVIOUS
  <1>3. c \in Recs /\ (c \in Tasks => c < x) /\ (\A y \in Tasks : y < x => rec[y].st # "none")
    BY <1>1, <1>2 DEF RecsOK, Born
  <1>4. c \in Threads => rec[c].st # "none"
    BY <1>1, <1>3 DEF RecsOK, Born
  <1>5. rec[c].st # "none"
    BY <1>3, <1>4 DEF Recs
  <1> QED
    BY <1>1, <1>2, <1>3, <1>5 DEF RecsOK, Born

LEMMA CreatorKept ==
  ASSUME TasksInv, CreatorOK, NEW t \in Threads, Evolves(t),
         \A y \in Recs : rec[y].st \notin {"none", "wait"} => rec'[y].st # "wait",
         \A n \in Tasks : rec[n].st = "none" /\ rec'[n].st # "none" /\ rec'[n].kind.dep # <<>> =>
           (rec'[n].inplace <=> rec[Cur(t)].final)
  PROVE  CreatorOK'
  <1>1. SUFFICES ASSUME NEW x \in Tasks, rec'[x].st # "none"
                 PROVE  /\ rec'[rec'[x].creator].st \notin {"none", "wait"}
                        /\ rec'[x].kind.dep # <<>> => (rec'[x].inplace <=> rec'[rec'[x].creator].final)
    BY DEF CreatorOK, Tracked
  <1>2. x \in Recs /\ Cur(t) \in Recs
    BY CurIs, NoneFree
  <1>3. ASSUME NEW c \in Recs, rec[c].st \notin {"none", "wait"}
        PROVE  rec'[c].st \notin {"none", "wait"} /\ rec'[c].final = rec[c].final
    BY <1>3 DEF Evolves, Lasts, Ident
  <1>4. CASE rec[x].st # "none"
    <2>1. PICK c \in Recs : c = rec[x].creator
      BY <1>4, CreatorIs
    <2>2. rec[c].st \notin {"none", "wait"} /\ (rec[x].kind.dep # <<>> => (rec[x].inplace <=> rec[c].final))
      BY <1>4, <2>1 DEF CreatorOK, Tracked
    <2>3. rec'[x].creator = c /\ rec'[x].kind = rec[x].kind /\ rec'[x].inplace = rec[x].inplace
      BY <1>2, <1>4, <2>1 DEF Evolves, Lasts, Ident
    <2> QED
      BY <1>3, <2>2, <2>3
  <1>5. CASE rec[x].st = "none"
    <2>1. Births(t, x)
      BY <1>1, <1>5 DEF Evolves
    <2>2. PICK c \in Recs : c = Cur(t)
      BY <1>2
    <2>3. rec[c].st = "run" /\ rec'[x].creator = c
      BY <2>1, <2>2 DEF Births
    <2> QED
      BY <1>1, <1>3, <1>5, <2>2, <2>3
  <1> QED
    BY <1>4, <1>5

LEMMA LinkLastKept ==
  ASSUME TasksInv, LinkLast, NEW t \in Threads, Evolves(t), Below(t),
         pc(t)' = "link" => \A y \in Tasks : rec'[y].st # "none" => y <= Linked(t)'
  PROVE  LinkLast'
  <1>1. SUFFICES ASSUME NEW s \in Threads, NEW y \in Tasks, pc(s)' = "link", rec'[y].st # "none", rec'[y].creator = Cur(s)'
                 PROVE  y <= Linked(s)'
    BY DEF LinkLast
  <1>2. Shape /\ StacksOK /\ y \in Recs
    BY CurIs, NoneFree
  <1>3. CASE s = t
    BY <1>1, <1>3
  <1>4. CASE s # t
    <2>1. pc(s) = "link" /\ Cur(s)' = Cur(s) /\ Linked(s)' = Linked(s)
      BY <1>1, <1>2, <1>4, OtherTops DEF Linked
    <2>2. CASE rec[y].st # "none"
      <3>1. rec[y].creator = Cur(s)
        BY <1>1, <1>2, <2>1, <2>2 DEF Evolves, Lasts, Ident
      <3> QED
        BY <2>1, <2>2, <3>1 DEF LinkLast
    <2>3. CASE rec[y].st = "none"
      <3>1. rec'[y].creator = Cur(t)
        BY <1>1, <2>3 DEF Evolves, Births
      <3> QED
        BY <1>1, <1>2, <1>4, <2>1, <3>1, Alone
    <2> QED
      BY <2>2, <2>3
  <1> QED
    BY <1>3, <1>4

\* A task is put only where nothing, its creator, or a task that is not run in
\* place comes to lie under another.
StacksMove(t) ==
  \/ \A s \in Threads : \A i \in DOMAIN stack'[s] : SameTk(s, i)
  \/ \E f, g : /\ Pushed(t, f, g) /\ f.tk = Cur(t) /\ g.tk \in Recs
               /\ rec'[g.tk].inplace => rec'[g.tk].creator = Cur(t)
LEMMA InPlaceOnKept ==
  ASSUME TasksInv, InPlaceOn, NEW t \in Threads, Evolves(t), StacksMove(t),
         stack' \in [Threads -> Seq(FrameT)]
  PROVE  InPlaceOn'
  <1>1. SUFFICES ASSUME NEW s \in Threads, NEW i \in DOMAIN stack'[s], i > 1, rec'[stack'[s][i].tk].inplace
                 PROVE  stack'[s][i - 1].tk = rec'[stack'[s][i].tk].creator
    BY DEF InPlaceOn
  <1>2. Shape /\ StacksOK
    BY CurIs
  <1>3. i \in Nat /\ i - 1 \in DOMAIN stack'[s]
    <2>1. DOMAIN stack'[s] = 1 .. Len(stack'[s]) /\ Len(stack'[s]) \in Nat
      BY LenProperties
    <2> QED
      BY <1>1, <2>1
  <1>4. ASSUME SameTk(s, i), SameTk(s, i - 1)
        PROVE  stack'[s][i - 1].tk = rec'[stack'[s][i].tk].creator
    <2>1. i \in DOMAIN stack[s] /\ stack'[s][i].tk = stack[s][i].tk /\ stack'[s][i - 1].tk = stack[s][i - 1].tk
      BY <1>4 DEF SameTk
    <2>2. PICK z \in Recs : z = stack[s][i].tk /\ rec[z].st # "none"
      BY <1>2, <2>1, FrameTk
    <2>3. rec'[z].inplace = rec[z].inplace /\ rec'[z].creator = rec[z].creator
      BY <2>2 DEF Evolves, Lasts, Ident
    <2> QED
      BY <1>1, <2>1, <2>2, <2>3 DEF InPlaceOn
  <1>5. CASE \A r \in Threads : \A j \in DOMAIN stack'[r] : SameTk(r, j)
    BY <1>3, <1>4, <1>5
  <1>6. ASSUME NEW f, NEW g, Pushed(t, f, g), f.tk = Cur(t), g.tk \in Recs,
               rec'[g.tk].inplace => rec'[g.tk].creator = Cur(t), ~ (SameTk(s, i) /\ SameTk(s, i - 1))
        PROVE  stack'[s][i - 1].tk = rec'[stack'[s][i].tk].creator
    <2>1. PICK m \in Nat \ {0} : m = Len(stack[t])
      BY <1>2, TopIs
    <2>2. SameTk(s, i) \/ (s = t /\ i = m + 1 /\ stack'[s][i] = g)
      BY <1>2, <1>6, <2>1, PushedTasks
    <2>3. SameTk(s, i - 1) \/ (s = t /\ i - 1 = m + 1)
      BY <1>2, <1>3, <1>6, <2>1, PushedTasks
    <2>4. ~ (s = t /\ i - 1 = m + 1)
      <3>1. Len(stack'[t]) = m + 1 /\ DOMAIN stack'[t] = 1 .. Len(stack'[t])
        BY <1>6, <2>1, LenProperties DEF Pushed
      <3> QED
        BY <1>3, <2>1, <3>1
    <2>5. s = t /\ i = m + 1 /\ stack'[s][i] = g
      BY <1>6, <2>2, <2>3, <2>4
    <2>6. stack'[t][m] = f
      BY <1>6, <2>1 DEF Pushed
    <2> QED
      BY <1>1, <1>6, <2>1, <2>5, <2>6
  <1> QED
    BY <1>4, <1>5, <1>6 DEF StacksMove

\* A task created in place starts when all created in place before it by the same
\* task are over.
LEMMA InPlaceOverKept ==
  ASSUME TasksInv, TasksInv', InPlaceOn, InPlaceOver, NEW t \in Threads, Evolves(t),
         \A y \in Recs : Over(y) => Over(y)'
  PROVE  InPlaceOver'
  <1>1. SUFFICES ASSUME NEW x \in Tasks, NEW y \in Tasks, rec'[x].st # "none", rec'[x].inplace, rec'[y].inplace,
                        y < x, rec'[x].creator = rec'[y].creator
                 PROVE  Over(y)'
    BY DEF InPlaceOver
  <1>2. x \in Recs /\ y \in Recs /\ y \notin Threads /\ y # x /\ RecsOK /\ StacksOK /\ Shape /\ RecsOK'
    BY <1>1, CurIs, NoneFree DEF TasksInv
  <1>3. CASE rec[x].st # "none"
    <2>1. rec[y].st # "none"
      BY <1>1, <1>3, CreatorIs
    <2>2. Ident(x) /\ Ident(y)
      BY <1>2, <1>3, <2>1 DEF Evolves, Lasts
    <2>3. Over(y)
      BY <1>1, <1>3, <2>2 DEF Ident, InPlaceOver
    <2> QED
      BY <1>2, <2>3
  <1>4. CASE rec[x].st = "none"
    <2>1. Births(t, x)
      BY <1>1, <1>4 DEF Evolves
    <2>2. rec'[y].st # "none"
      BY <1>1, <1>2 DEF RecsOK, Born, NoRec
    <2>3. rec[y].st # "none"
      BY <1>2, <2>1, <2>2 DEF Births
    <2>4. rec[y].inplace /\ rec[y].creator = Cur(t)
      BY <1>1, <1>2, <2>1, <2>3 DEF Evolves, Lasts, Ident, Births
    <2>5. SUFFICES ASSUME ~ Over(y) PROVE FALSE
      BY <1>2, <2>5
    <2>6. rec[y].st = "run"
      <3>1. rec[y].st \in {"none", "wait", "run", "over", "freed"}
        BY <1>2 DEF Shape, RecT
      <3>2. rec[y].st # "wait"
        BY <1>2, <2>3, <2>4 DEF RecsOK, Born
      <3> QED
        BY <2>3, <2>5, <3>1, <3>2 DEF Over
    <2>70. PICK s \in Threads : \E i \in DOMAIN stack[s] : stack[s][i].tk = y
      BY <1>2, <2>3, <2>6 DEF RecsOK, Born, OnStack
    <2>7. PICK i \in DOMAIN stack[s] : stack[s][i].tk = y
      BY <2>70
    <2>8. PICK m \in Nat : m = Len(stack[s]) /\ DOMAIN stack[s] = 1 .. m
      BY <1>2, TopIs
    <2>9. i > 1
      <3>1. i = 1 => stack[s][i].tk = s
        BY <1>2 DEF StacksOK, FrameOK, Placed
      <3> QED
        BY <1>2, <2>7, <2>8, <3>1
    <2>10. stack[s][i - 1].tk = Cur(t)
      BY <2>4, <2>7, <2>9 DEF InPlaceOn
    <2>11. i - 1 \in DOMAIN stack[s] /\ i - 1 # m
      BY <2>8, <2>9
    <2>12. PICK k \in Nat : k = Len(stack[t]) /\ k \in DOMAIN stack[t] /\ stack[t][k].tk = Cur(t)
      BY <1>2, TopIs DEF Cur
    <2>13. s = t /\ i - 1 = k
      BY <1>2, <2>10, <2>11, <2>12 DEF StacksOK, Unique
    <2> QED
      BY <2>8, <2>11, <2>12, <2>13
  <1> QED
    BY <1>3, <1>4

\* What all steps have in common, seen from the dependences.
Orderly(t) ==
  /\ Evolves(t) /\ Below(t) /\ StacksMove(t)
  /\ \A y \in Recs : rec[y].st \notin {"none", "wait"} => rec'[y].st # "wait"
  /\ \A y \in Recs : Over(y) => Over(y)'
  /\ \A n \in Tasks : rec[n].st = "none" /\ rec'[n].st # "none" /\ rec'[n].kind.dep # <<>> =>
       (rec'[n].inplace <=> rec[Cur(t)].final)
  /\ pc(t)' = "link" => \A y \in Tasks : rec'[y].st # "none" => y <= Linked(t)'
LEMMA OrderlyKin ==
  ASSUME TasksInv, TasksInv', KinOK, NEW t \in Threads, Orderly(t)
  PROVE  KinOK'
  <1>1. stack' \in [Threads -> Seq(FrameT)]
    BY DEF Orderly, Below
  <1>2. CreatorOK'
    BY CreatorKept DEF Orderly, KinOK
  <1>3. LinkLast'
    BY LinkLastKept DEF Orderly, KinOK
  <1>4. InPlaceOn'
    BY <1>1, InPlaceOnKept DEF Orderly, KinOK
  <1>5. InPlaceOver'
    BY InPlaceOverKept DEF Orderly, KinOK
  <1> QED
    BY <1>2, <1>3, <1>4, <1>5 DEF KinOK

\* The children of a task from y to x are what they were.
LEMMA OrderedSame ==
  ASSUME TasksInv, NEW t \in Threads, Evolves(t), NEW p, NEW y, NEW x \in Tasks, rec[x].st # "none"
  PROVE  Ordered(p, y, x)' <=> Ordered(p, y, x)
  <1>1. ASSUME NEW v \in Tasks, v <= x
        PROVE  (DepOf(v, p)' <=> DepOf(v, p)) /\ (Writer(v)' <=> Writer(v))
    <2>1. v \in Recs /\ x \in Nat /\ v \in Nat
      BY NoneFree
    <2>2. v = x \/ v < x
      BY <1>1, <2>1
    <2>3. rec[v].st # "none"
      BY <2>2, CreatorIs
    <2>4. Ident(v) /\ rec'[v].st # "none"
      BY <2>1, <2>3 DEF Evolves, Lasts
    <2> QED
      BY <2>3, <2>4 DEF Ident, DepOf, Writer, Deferred, Tracked
  <1> QED
    BY <1>1 DEF Ordered

\* No task joins the graph.
LinksStay ==
  \A x \in Tasks : Deferred(x)' /\ Tracked(x)' /\ ~ Unlinked(x)' => rec[x].st # "none" /\ ~ Unlinked(x)
LEMMA LinksStayed ==
  ASSUME TasksInv, NEW t \in Threads, Evolves(t), Below(t), pc(t) = "link" => ~ Tracked(Linked(t)),
         \A n \in Tasks : rec[n].st = "none" /\ rec'[n].st # "none" /\ ~ rec'[n].inplace =>
           pc(t)' = "link" /\ Linked(t)' = n
  PROVE  LinksStay
  <1>1. SUFFICES ASSUME NEW x \in Tasks, Deferred(x)', Tracked(x)', ~ Unlinked(x)'
                 PROVE  rec[x].st # "none" /\ ~ Unlinked(x)
    BY DEF LinksStay
  <1>2. Shape /\ StacksOK /\ x \in Recs
    BY CurIs, NoneFree
  <1>3. rec[x].st # "none"
    BY <1>1 DEF Deferred, Unlinked
  <1>4. Tracked(x)
    BY <1>1, <1>2, <1>3 DEF Evolves, Lasts, Ident, Tracked
  <1>5. ASSUME NEW s \in Threads, pc(s) = "link", Linked(s) = x PROVE FALSE
    <2>1. s # t
      BY <1>4, <1>5
    <2>2. pc(s)' = "link" /\ Linked(s)' = x
      BY <1>2, <1>5, <2>1, OtherTops DEF Linked
    <2> QED
      BY <1>1, <2>2 DEF Unlinked
  <1> QED
    BY <1>3, <1>5 DEF Unlinked

LEMMA InGraphWas ==
  ASSUME NEW t \in Threads, Evolves(t), LinksStay, NEW x \in Tasks, NEW p, InGraph(x, p)'
  PROVE  InGraph(x, p) /\ rec[x].st # "none" /\ Ident(x)
  <1>1. x \in Recs
    BY NoneFree
  <1>2. rec[x].st # "none" /\ ~ Unlinked(x)
    BY DEF InGraph, DepOf, LinksStay
  <1>3. Ident(x)
    BY <1>1, <1>2 DEF Evolves, Lasts
  <1> QED
    BY <1>2, <1>3 DEF Ident, InGraph, DepOf, Deferred, Tracked

LEMMA GraphKept ==
  ASSUME TasksInv, GraphOK, NEW t \in Threads, Evolves(t), LinksStay,
         \A y \in Recs : rec[y].st # "none" => rec'[y].pred = rec[y].pred /\ rec'[y].done = rec[y].done
  PROVE  GraphOK'
  <1>1. SUFFICES ASSUME NEW p \in Recs, NEW x \in Tasks, NEW y \in Tasks,
                        InGraph(x, p)', InGraph(y, p)', y < x, Ordered(p, y, x)', ~ rec'[y].done
                 PROVE  \E z \in rec'[x].pred : z = y \/ (y < z /\ Ordered(p, y, z)')
    BY DEF GraphOK
  <1>2. InGraph(x, p) /\ InGraph(y, p) /\ rec[x].st # "none" /\ rec[y].st # "none" /\ x \in Recs /\ y \in Recs
    BY <1>1, InGraphWas, NoneFree
  <1>3. Ordered(p, y, x) /\ ~ rec[y].done /\ rec'[x].pred = rec[x].pred
    BY <1>1, <1>2, OrderedSame
  <1>4. PICK z \in rec[x].pred : z = y \/ (y < z /\ Ordered(p, y, z))
    BY <1>1, <1>2, <1>3 DEF GraphOK
  <1>5. z \in Tasks /\ rec[z].st # "none"
    <2>1. RecsOK
      BY CurIs
    <2> QED
      BY <1>2, <1>4, <2>1 DEF RecsOK, Waits4, Deferred
  <1>6. Ordered(p, y, z)' <=> Ordered(p, y, z)
    BY <1>5, OrderedSame
  <1> QED
    BY <1>3, <1>4, <1>6

\* A task that has not started has no children.
LEMMA Childless ==
  ASSUME TasksInv, CreatorOK, NEW p \in Recs, rec[p].st \in {"none", "wait"}, NEW y, Deferred(y), rec[y].parent = p
  PROVE  FALSE
  <1>1. y \in Tasks /\ rec[y].st # "none" /\ ~ rec[y].inplace
    BY DEF Deferred
  <1>2. rec[y].creator = p
    BY <1>1, CreatorIs
  <1> QED
    BY <1>1, <1>2 DEF CreatorOK

\* What the entry of an address names was linked.
LEMMA EntryNames ==
  ASSUME TasksInv, NEW p \in Recs, NEW y \in Tasks, Names(rec[p].readers, y) \/ rec[p].writer = y
  PROVE  InGraph(y, p) /\ rec[y].st # "none"
  <1>1. Shape /\ RecsOK
    BY DEF TasksInv
  <1>2. rec[p] \in RecT
    BY <1>1 DEF Shape
  <1>3. DepRefs(rec[p]) \in Seq(Tasks) /\ rec[p].readers \in Seq(Tasks) /\ y # None
    BY <1>2, NoneFree, DepRefsIs DEF RecT
  <1>4. \E i \in DOMAIN DepRefs(rec[p]) : DepRefs(rec[p])[i] = y
    <2>1. /\ Occ(DepRefs(rec[p]), y) = Occ(rec[p].readers, y)
                                        + IF rec[p].writer # None /\ rec[p].writer = y THEN 1 ELSE 0
          /\ Occ(rec[p].readers, y) \in Nat
      BY <1>2, DepRefsIs
    <2>2. Names(rec[p].readers, y) => Occ(rec[p].readers, y) # 0
      BY <1>3, OccIs DEF Names
    <2>3. Occ(DepRefs(rec[p]), y) # 0
      BY <1>3, <2>1, <2>2
    <2> QED
      BY <1>3, <2>3, OccIs
  <1>5. Deferred(y) /\ Tracked(y) /\ rec[y].parent = p /\ \A s \in Threads : pc(s) = "link" => Linked(s) # y
    BY <1>1, <1>4 DEF RecsOK, Entry
  <1> QED
    BY <1>5 DEF InGraph, DepOf, Unlinked, Deferred

LEMMA EntryLastKept ==
  ASSUME TasksInv, CreatorOK, EntryLast, NEW t \in Threads, Evolves(t), LinksStay,
         \A p \in Recs : rec'[p].st = "run" =>
           \/ rec[p].st = "run" /\ rec'[p].writer = rec[p].writer /\ rec'[p].readers = rec[p].readers
           \/ rec[p].st = "wait" /\ rec'[p].writer = rec[p].writer /\ rec'[p].readers = rec[p].readers
           \/ rec[p].st = "none" /\ rec'[p].writer = None /\ rec'[p].readers = <<>>
  PROVE  EntryLast'
  <1>1. SUFFICES ASSUME NEW p \in Recs, rec'[p].st = "run"
                 PROVE  /\ \A y \in Tasks : InGraph(y, p)' =>
                             \/ Names(rec'[p].readers, y) /\ ~ Writer(y)'
                             \/ rec'[p].writer # None /\ y <= rec'[p].writer
                        /\ rec'[p].writer # None => Contains(rec'[rec'[p].writer].kind.dep, "out")
                        /\ \A y \in Tasks : Names(rec'[p].readers, y) /\ rec'[p].writer # None => rec'[p].writer < y
    BY DEF EntryLast, Writer, Names
  <1>2. Shape /\ rec[p] \in RecT
    BY CurIs DEF Shape
  <1>3. ASSUME NEW y \in Tasks, InGraph(y, p)' PROVE InGraph(y, p) /\ (Writer(y)' <=> Writer(y))
    BY <1>3, InGraphWas DEF Ident, Writer
  <1>4. CASE rec[p].st = "run" /\ rec'[p].writer = rec[p].writer /\ rec'[p].readers = rec[p].readers
    <2>1. \A y \in Tasks : InGraph(y, p)' =>
            \/ Names(rec'[p].readers, y) /\ ~ Writer(y)'
            \/ rec'[p].writer # None /\ y <= rec'[p].writer
      BY <1>3, <1>4 DEF EntryLast
    <2>2. ASSUME rec[p].writer # None PROVE Contains(rec'[rec'[p].writer].kind.dep, "out")
      <3>1. PICK w \in Tasks : w = rec[p].writer
        BY <1>2, <2>2 DEF RecT
      <3>2. rec[w].st # "none" /\ w \in Recs
        BY <3>1, EntryNames, NoneFree
      <3>3. Writer(w)
        BY <1>4, <2>2, <3>1 DEF EntryLast
      <3> QED
        BY <1>4, <3>1, <3>2, <3>3 DEF Evolves, Lasts, Ident, Writer
    <2> QED
      BY <1>4, <2>1, <2>2 DEF EntryLast
  <1>5. CASE rec[p].st \in {"none", "wait"}
    <2>1. ASSUME NEW y \in Tasks PROVE ~ InGraph(y, p)
      BY <1>5, Childless DEF InGraph, DepOf
    <2>2. rec[p].writer = None /\ \A y \in Tasks : ~ Names(rec[p].readers, y)
      <3>1. rec[p].writer \in Tasks \cup {None}
        BY <1>2 DEF RecT
      <3> QED
        BY <2>1, <3>1, EntryNames
    <2>3. rec'[p].writer = None /\ \A y \in Tasks : ~ Names(rec'[p].readers, y)
      BY <1>1, <1>5, <2>2 DEF Names
    <2> QED
      BY <1>3, <2>1, <2>3
  <1> QED
    BY <1>1, <1>4, <1>5

\* A step that keeps tasks and stacks keeps the dependences.
LEMMA StaysOff ==
  ASSUME TasksInv, NEW t \in Threads, Stays(t)
  PROVE  Below(t) /\ pc(t)' # "link"
  <1>1. Shape /\ StacksOK
    BY CurIs
  <1>2. ASSUME NEW g, Topped(t, g), g.pc # "link" PROVE Below(t) /\ pc(t)' # "link"
    <2>1. Top(t)' = g
      BY <1>1, <1>2, TopAfter
    <2> QED
      BY <1>2, <2>1 DEF Topped, pc
  <1>3. ASSUME Popped(t), Len(stack[t]) > 1 PROVE Below(t) /\ pc(t)' # "link"
    <2>1. PICK m \in Nat : m = Len(stack[t]) /\ m > 1 /\ DOMAIN stack[t] = 1 .. m
      BY <1>1, <1>3, TopIs
    <2>2. m - 1 \in DOMAIN stack[t] /\ m - 1 < Len(stack[t])
      BY <1>3, <2>1
    <2>3. stack[t][m - 1].pc \in {"wait", "body", "retest", "drain"}
      BY <1>1, <2>2 DEF StacksOK, FrameOK, Placed
    <2>4. Len(stack[t]) # 1
      <3>1. 1 \in Nat /\ \A k \in Nat : k > 1 => k # 1
        OBVIOUS
      <3> QED
        BY <2>1, <3>1
    <2>5. Top(t)' = stack[t][m - 1]
      BY <1>1, <1>3, <2>1, <2>4, TopAfter
    <2> QED
      BY <1>3, <2>3, <2>5 DEF Popped, pc
  <1> QED
    BY <1>2, <1>3 DEF Stays

LEMMA KinDeps ==
  ASSUME TasksInv, TasksInv', DepsOK, NEW t \in Threads, KeepsKin(t)
  PROVE  DepsOK'
  <1>1. Shape /\ StacksOK
    BY CurIs
  <1>2. Evolves(t) /\ Below(t) /\ pc(t)' # "link" /\ pc(t) # "link"
    BY KinEvolves, StaysOff DEF KeepsKin
  <1>3. \A s \in Threads : \A i \in DOMAIN stack'[s] : SameTk(s, i)
    BY <1>1, StaysTasks DEF KeepsKin
  <1>4. \A y \in Recs : Keeps(y)
    BY DEF KeepsKin
  <1>5. \A n \in Tasks : rec[n].st = "none" <=> rec'[n].st = "none"
    BY <1>4, NoneFree DEF Keeps
  <1>6. Orderly(t)
    <2>1. \A y \in Recs : /\ rec[y].st \notin {"none", "wait"} => rec'[y].st # "wait"
                          /\ Over(y) => Over(y)'
      BY <1>4 DEF Keeps
    <2> QED
      BY <1>2, <1>3, <1>5, <2>1 DEF Orderly, StacksMove
  <1>7. KinOK'
    BY <1>6, OrderlyKin DEF DepsOK
  <1>8. LinksStay
    BY <1>2, <1>5, LinksStayed
  <1>9. GraphOK'
    BY <1>2, <1>4, <1>8, GraphKept DEF DepsOK, Keeps, Core
  <1>10. EntryLast'
    BY <1>2, <1>4, <1>8, EntryLastKept DEF DepsOK, KinOK, Keeps
  <1> QED
    BY <1>7, <1>9, <1>10 DEF DepsOK

LEMMA StartDeps ==
  ASSUME TasksInv, TasksInv', DepsOK, NEW t \in Threads, NEW x \in Tasks, Starts(t, x)
  PROVE  DepsOK'
  <1>1. Shape /\ StacksOK /\ RecsOK /\ x \in Recs /\ x \notin Threads
    BY CurIs, NoneFree
  <1>2. PICK f, g : Pushed(t, f, g) /\ f.tk = Cur(t) /\ g.tk = x /\ g.pc = "body"
    BY DEF Starts
  <1>3. Evolves(t) /\ Below(t) /\ pc(t) # "link" /\ pc(t)' # "link"
    <2>1. Top(t)' = g
      BY <1>1, <1>2, TopAfter
    <2>2. Below(t) /\ pc(t)' # "link"
      BY <1>2, <2>1 DEF Pushed, pc
    <2> QED
      BY <2>2, StartsEvolves DEF Starts
  <1>4. /\ rec[x].st = "wait" /\ rec'[x].st = "run" /\ SameId(rec[x], rec'[x]) /\ SameDeps(rec[x], rec'[x])
        /\ rec'[x].done = rec[x].done /\ \A y \in Recs : y # x => rec'[y] = rec[y]
    BY DEF Starts
  <1>5. \A n \in Tasks : rec[n].st = "none" <=> rec'[n].st = "none"
    BY <1>4, NoneFree
  <1>6. ~ rec'[x].inplace
    BY <1>1, <1>4 DEF RecsOK, Born, SameId
  <1>7. Orderly(t)
    <2>1. \A y \in Recs : /\ rec[y].st \notin {"none", "wait"} => rec'[y].st # "wait"
                          /\ Over(y) => Over(y)'
      BY <1>4 DEF Over
    <2>2. StacksMove(t)
      BY <1>1, <1>2, <1>6 DEF StacksMove
    <2> QED
      BY <1>3, <1>5, <2>1, <2>2 DEF Orderly
  <1>8. KinOK'
    BY <1>7, OrderlyKin DEF DepsOK
  <1>9. LinksStay
    BY <1>3, <1>5, LinksStayed
  <1>10. GraphOK'
    BY <1>3, <1>4, <1>9, GraphKept DEF DepsOK, SameDeps
  <1>11. EntryLast'
    <2>1. ASSUME NEW p \in Recs, rec'[p].st = "run"
          PROVE  \/ rec[p].st = "run" /\ rec'[p].writer = rec[p].writer /\ rec'[p].readers = rec[p].readers
                 \/ rec[p].st = "wait" /\ rec'[p].writer = rec[p].writer /\ rec'[p].readers = rec[p].readers
      BY <1>4, <2>1 DEF SameDeps
    <2> QED
      BY <1>3, <1>9, <2>1, EntryLastKept DEF DepsOK, KinOK
  <1> QED
    BY <1>8, <1>10, <1>11 DEF DepsOK

\* A task without dependences joins no graph.
LEMMA SpawnPushDeps ==
  ASSUME TasksInv, TasksInv', DepsOK, NEW t \in Threads, SpawnPush(t)
  PROVE  DepsOK'
  <1>1. Shape /\ StacksOK /\ Cur(t) \in Recs
    BY CurIs
  <1>2. rec' = rec /\ Evolves(t) /\ ~ Tracked(Linked(t))
    BY SpawnPushEvolves DEF SpawnPush
  <1>3. PICK g : g = Frame(Cur(t), "wake")
    OBVIOUS
  <1>4. g \in FrameT /\ g.tk = Cur(t) /\ g.pc = "wake"
    BY <1>1, <1>3, FrameIs, PcIs DEF IsFrame, Pcs, RunPcs
  <1>5. Topped(t, g)
    BY <1>1, <1>3, <1>4, SetTopStep DEF SpawnPush
  <1>6. Below(t) /\ pc(t)' # "link"
    <2>1. Top(t)' = g
      BY <1>1, <1>5, TopAfter
    <2> QED
      BY <1>4, <1>5, <2>1 DEF Topped, pc
  <1>7. \A s \in Threads : \A i \in DOMAIN stack'[s] : SameTk(s, i)
    BY <1>1, <1>4, <1>5, ToppedTasks
  <1>8. Orderly(t)
    BY <1>2, <1>6, <1>7 DEF Orderly, StacksMove, Over
  <1>9. KinOK'
    BY <1>8, OrderlyKin DEF DepsOK
  <1>10. LinksStay
    BY <1>2, <1>6, LinksStayed
  <1>11. GraphOK'
    BY <1>2, <1>10, GraphKept DEF DepsOK
  <1>12. EntryLast'
    BY <1>2, <1>10, EntryLastKept DEF DepsOK, KinOK
  <1> QED
    BY <1>9, <1>11, <1>12 DEF DepsOK

LEMMA CreatedDeps ==
  ASSUME TasksInv, TasksInv', DepsOK, NEW t \in Threads, NEW n \in Tasks, CreatedHere(t, n) \/ CreatedLater(t, n)
  PROVE  DepsOK'
  <1>1. Shape /\ StacksOK /\ n \in Recs
    BY CurIs, NoneFree
  <1>2. Created(t, n)
    BY DEF CreatedHere, CreatedLater
  <1>3. /\ pc(t) = "body" /\ rec[n].st = "none" /\ rec'[n].st # "none" /\ rec'[n].creator = Cur(t)
        /\ rec'[n].writer = None /\ rec'[n].readers = <<>> /\ \A y \in Tasks : y > n => rec[y].st = "none"
    BY <1>2 DEF Created, NoRec
  <1>4. \A y \in Recs : y # n => /\ SameId(rec[y], rec'[y]) /\ SameDeps(rec[y], rec'[y])
                                 /\ rec'[y].st = rec[y].st /\ rec'[y].done = rec[y].done
    BY <1>2 DEF Created
  <1>5. Evolves(t)
    BY CreatedEvolves
  <1>6. \A y \in Tasks : rec[y].st = "none" /\ rec'[y].st # "none" => y = n
    BY <1>4, NoneFree
  <1>7. \A y \in Tasks : rec'[y].st # "none" => y <= n
    <2>1. TAKE y \in Tasks
    <2>2. y \in Nat /\ n \in Nat /\ y \in Recs
      BY NoneFree
    <2> QED
      BY <1>3, <1>4, <2>2
  <1>8. ASSUME CreatedHere(t, n) PROVE Orderly(t) /\ LinksStay
    <2>1. PICK g : Pushed(t, Top(t), g) /\ g.tk = n /\ g.pc = "body"
      BY <1>8 DEF CreatedHere
    <2>2. rec'[n].st = "run" /\ rec'[n].inplace /\ (rec'[n].kind.dep # <<>> => rec[Cur(t)].final)
      BY <1>8 DEF CreatedHere
    <2>3. Below(t) /\ pc(t)' # "link" /\ Top(t).tk = Cur(t)
      <3>1. Top(t)' = g
        BY <1>1, <2>1, TopAfter
      <3> QED
        BY <2>1, <3>1 DEF Pushed, Cur, pc
    <2>4. StacksMove(t)
      BY <1>1, <1>3, <2>1, <2>3 DEF StacksMove
    <2> QED
      <3>1. \A y \in Recs : /\ rec[y].st \notin {"none", "wait"} => rec'[y].st # "wait"
                            /\ Over(y) => Over(y)'
        BY <1>3, <1>4 DEF Over
      <3>2. Orderly(t)
        BY <1>5, <1>6, <2>2, <2>3, <2>4, <3>1 DEF Orderly
      <3>3. LinksStay
        BY <1>3, <1>5, <1>6, <2>2, <2>3, LinksStayed
      <3> QED
        BY <3>2, <3>3
  <1>9. ASSUME CreatedLater(t, n) PROVE Orderly(t) /\ LinksStay
    <2>1. PICK g : Topped(t, g) /\ g.tk = Cur(t) /\ g.pc = "link" /\ g.ctr = <<"npred", n>>
      BY <1>9 DEF CreatedLater
    <2>2. rec'[n].st = "wait" /\ ~ rec'[n].inplace /\ ~ rec[Cur(t)].final
      BY <1>9 DEF CreatedLater
    <2>3. Below(t) /\ pc(t)' = "link" /\ Linked(t)' = n
      <3>1. Top(t)' = g
        BY <1>1, <2>1, TopAfter
      <3> QED
        BY <2>1, <3>1 DEF Topped, Linked, pc
    <2>4. StacksMove(t)
      BY <1>1, <2>1, ToppedTasks DEF StacksMove
    <2> QED
      <3>1. \A y \in Recs : /\ rec[y].st \notin {"none", "wait"} => rec'[y].st # "wait"
                            /\ Over(y) => Over(y)'
        BY <1>3, <1>4 DEF Over
      <3>2. Orderly(t)
        BY <1>5, <1>6, <1>7, <2>2, <2>3, <2>4, <3>1 DEF Orderly
      <3>3. LinksStay
        BY <1>3, <1>5, <1>6, <2>2, <2>3, LinksStayed
      <3> QED
        BY <3>2, <3>3
  <1>10. Orderly(t) /\ LinksStay
    BY <1>8, <1>9
  <1>11. KinOK'
    BY <1>10, OrderlyKin DEF DepsOK
  <1>12. GraphOK'
    BY <1>3, <1>4, <1>5, <1>10, GraphKept DEF DepsOK, SameDeps
  <1>13. EntryLast'
    <2>1. ASSUME NEW p \in Recs, rec'[p].st = "run"
          PROVE  \/ rec[p].st = "run" /\ rec'[p].writer = rec[p].writer /\ rec'[p].readers = rec[p].readers
                 \/ rec[p].st = "none" /\ rec'[p].writer = None /\ rec'[p].readers = <<>>
      BY <1>3, <1>4, <2>1 DEF SameDeps
    <2> QED
      BY <1>5, <1>10, <2>1, EntryLastKept DEF DepsOK, KinOK
  <1> QED
    BY <1>11, <1>12, <1>13 DEF DepsOK

\* A task that is done leaves the graph: who waited for it waits no longer for
\* anything before it.
LEMMA CompleteDeps ==
  ASSUME TasksInv, TasksInv', DepsOK, NEW t \in Threads, Complete(t)
  PROVE  DepsOK'
  <1>1. Shape /\ StacksOK /\ RecsOK
    BY CurIs
  <1>2. PICK x \in Recs, xs \in SUBSET Tasks, g \in FrameT : CompleteOn(t, x, xs, g)
    BY CompleteIs
  <1>3. /\ Topped(t, g) /\ g.tk = Cur(t) /\ g.pc \in {"children", "notify"} /\ x \in Tasks /\ pc(t) = "body"
        /\ rec[x].st = "run" /\ Deferred(x) /\ Tracked(x) /\ rec[x].pred = {} /\ Released(x)
    BY <1>2 DEF CompleteOn
  <1>4. /\ \A y \in Recs : SameId(rec[y], rec'[y]) /\ rec'[y].writer = rec[y].writer /\ rec'[y].readers = rec[y].readers
        /\ \A y \in Recs : y # x => /\ rec'[y].st = rec[y].st /\ rec'[y].done = rec[y].done
                                    /\ rec'[y].pred = rec[y].pred \ {x}
        /\ rec'[x].st = "over" /\ rec'[x].done
    BY <1>3 DEF Released
  <1>5. Evolves(t)
    BY CompleteEvolves
  <1>6. Below(t) /\ pc(t)' # "link" /\ pc(t) # "link"
    <2>1. Top(t)' = g
      BY <1>1, <1>3, TopAfter
    <2> QED
      BY <1>3, <2>1 DEF Topped, pc
  <1>7. \A n \in Tasks : rec[n].st = "none" <=> rec'[n].st = "none"
    BY <1>3, <1>4, NoneFree
  <1>8. Orderly(t)
    <2>1. \A y \in Recs : /\ rec[y].st \notin {"none", "wait"} => rec'[y].st # "wait"
                          /\ Over(y) => Over(y)'
      BY <1>3, <1>4 DEF Over
    <2>2. StacksMove(t)
      BY <1>1, <1>3, ToppedTasks DEF StacksMove
    <2> QED
      BY <1>5, <1>6, <1>7, <2>1, <2>2 DEF Orderly
  <1>9. KinOK'
    BY <1>8, OrderlyKin DEF DepsOK
  <1>10. LinksStay
    BY <1>5, <1>6, <1>7, LinksStayed
  <1>11. EntryLast'
    <2>1. \A p \in Recs : rec'[p].st = "run" => rec[p].st = "run" /\ rec'[p].writer = rec[p].writer /\ rec'[p].readers = rec[p].readers
      BY <1>4
    <2> QED
      BY <1>5, <1>10, <2>1, EntryLastKept DEF DepsOK, KinOK
  <1>12. ASSUME NEW p \in Recs, NEW a \in Tasks, NEW b \in Tasks,
                InGraph(a, p)', InGraph(b, p)', b < a, Ordered(p, b, a)', ~ rec'[b].done
         PROVE  \E z \in rec'[a].pred : z = b \/ (b < z /\ Ordered(p, b, z)')
    <2>1. InGraph(a, p) /\ InGraph(b, p) /\ rec[a].st # "none" /\ a \in Recs /\ b \in Recs
      BY <1>5, <1>10, <1>12, InGraphWas, NoneFree
    <2>2. b # x /\ ~ rec[b].done /\ Ordered(p, b, a)
      BY <1>4, <1>5, <1>12, <2>1, OrderedSame
    <2>3. PICK z \in rec[a].pred : z = b \/ (b < z /\ Ordered(p, b, z))
      BY <1>12, <2>1, <2>2 DEF DepsOK, GraphOK
    <2>4. a # x
      BY <1>3, <2>3
    <2>5. /\ Deferred(z) /\ z \in Tasks /\ z \in Recs /\ rec[z].st # "none" /\ Tracked(z) /\ rec[z].parent = rec[a].parent
          /\ rec[a].parent = p
      BY <1>1, <2>1, <2>3, NoneFree DEF RecsOK, Waits4, Deferred, InGraph, DepOf
    <2>6. z # x
      <3>1. SUFFICES ASSUME z = x PROVE FALSE
        OBVIOUS
      <3>2. InGraph(x, p)
        BY <1>3, <2>5, <3>1, LinkedIs DEF InGraph, DepOf, Unlinked
      <3>3. b < x /\ Ordered(p, b, x)
        BY <2>2, <2>3, <3>1
      <3> QED
        BY <1>3, <2>1, <2>2, <3>2, <3>3 DEF DepsOK, GraphOK
    <2>7. z \in rec'[a].pred
      BY <1>4, <2>1, <2>3, <2>4, <2>6
    <2>8. Ordered(p, b, z)' <=> Ordered(p, b, z)
      BY <1>5, <2>5, OrderedSame
    <2> QED
      BY <2>3, <2>7, <2>8
  <1>13. GraphOK'
    BY <1>12 DEF GraphOK
  <1> QED
    BY <1>9, <1>11, <1>13 DEF DepsOK

LEMMA DepSeq ==
  ASSUME NEW d \in DepT
  PROVE  DepRefs(d) \in Seq(Tasks) /\ d.readers \in Seq(Tasks) /\ d.writer \in Tasks \cup {None}
  <1>1. d.readers \in Seq(Tasks) /\ d.writer \in Tasks \cup {None}
    BY DEF DepT
  <1>2. (IF d.writer = None THEN <<>> ELSE <<d.writer>>) \in Seq(Tasks)
    BY <1>1, EmptySeq
  <1> QED
    BY <1>1, <1>2, ConcatProperties DEF DepRefs

\* What __cccc_task_deps leaves in the entry, and whom it makes the task wait for.
LEMMA DepsEntry ==
  ASSUME Shape, NEW x \in Tasks, rec[x].parent \in Recs, NEW r, r = rec[rec[x].parent]
  PROVE  /\ Writer(x) => Tracked(x) /\ Deps(x).writer = x /\ Deps(x).readers = <<>>
         /\ ~ Writer(x) => /\ Deps(x).writer = r.writer
                           /\ Deps(x).readers = IF Tracked(x) THEN Append(r.readers, x) ELSE r.readers
         /\ \A y \in Tasks :
              /\ Tracked(x) /\ y # x /\ ~ rec[y].done
              /\ \/ Writer(x) /\ Names(r.readers, y)
                 \/ (~ Writer(x) \/ r.readers = <<>>) /\ r.writer = y
              => y \in Deps(x).pred
  <1>1. PICK dep : dep = rec[x].kind.dep
    OBVIOUS
  <1>2. dep \in {<<>>, <<"in">>, <<"out">>, <<"in", "out">>} /\ r \in RecT
    BY <1>1, NoneFree DEF Shape, RecT, Kind
  <1>3. (Tracked(x) <=> dep # <<>>) /\ (Writer(x) <=> Contains(dep, "out"))
    BY <1>1 DEF Tracked, Writer
  <1>4. ~ Contains(<<>>, "out") /\ ~ Contains(<<"in">>, "out") /\ Contains(<<"out">>, "out") /\ Contains(<<"in", "out">>, "out")
    BY DEF Contains
  <1> DEFINE d0 == [writer |-> r.writer, readers |-> r.readers, pred |-> {}, drop |-> <<>>, add |-> 0]
             d1 == IF Len(dep) < 1 THEN d0 ELSE AddDep(d0, dep[1], x)
             d2 == IF Len(dep) < 2 THEN d1 ELSE AddDep(d1, dep[2], x)
  <1>5. Deps(x) = [d2 EXCEPT !.pred = {y \in @ \ {None, x} : ~ rec[y].done}]
    BY <1>1 DEF Deps
  <1>6. d0 \in DepT /\ d0.writer = r.writer /\ d0.readers = r.readers /\ d0.pred = {}
    BY <1>2, EmptySeq DEF DepT, RecT
  <1>7. /\ dep = <<>> => d2 = d0
        /\ dep = <<"in">> => d2 = AddDep(d0, "in", x)
        /\ dep = <<"out">> => d2 = AddDep(d0, "out", x)
        /\ dep = <<"in", "out">> => d2 = AddDep(AddDep(d0, "in", x), "out", x)
    OBVIOUS
  <1> HIDE DEF d0, d1, d2
  <1>8. PICK a : a = AddDep(d0, "in", x)
    OBVIOUS
  <1>9. a \in DepT /\ a.writer = r.writer /\ a.readers = Append(r.readers, x) /\ a.pred = {r.writer}
    BY <1>6, <1>8, AddReader
  <1>10. PICK b : b = AddDep(d0, "out", x)
    OBVIOUS
  <1>11. /\ b \in DepT /\ b.writer = x /\ b.readers = <<>>
         /\ b.pred = (IF r.readers = <<>> THEN {r.writer} ELSE ToSet(r.readers))
    <2>1. DepRefs(d0) \in Seq(Tasks)
      BY <1>6, DepSeq
    <2>2. b.pred = d0.pred \cup (IF d0.readers = <<>> THEN {d0.writer} ELSE ToSet(d0.readers))
          /\ b \in DepT /\ b.writer = x /\ b.readers = <<>>
      BY <1>6, <1>10, <2>1, AddWriter
    <2> QED
      BY <1>6, <2>2
  <1>12. PICK c : c = AddDep(a, "out", x)
    OBVIOUS
  <1>13. r.readers \in Seq(Tasks) /\ Append(r.readers, x) # <<>>
         /\ \A y : Names(r.readers, y) => y \in ToSet(r.readers) /\ y \in ToSet(Append(r.readers, x))
    <2>1. r.readers \in Seq(Tasks)
      BY <1>6, DepSeq
    <2>2. \A i \in DOMAIN r.readers : i \in DOMAIN Append(r.readers, x) /\ Append(r.readers, x)[i] = r.readers[i]
      BY <2>1, AppendProperties, LenProperties
    <2> QED
      BY <2>1, <2>2, AppendProperties DEF Names, ToSet
  <1>14. c \in DepT /\ c.writer = x /\ c.readers = <<>> /\ c.pred = {r.writer} \cup ToSet(Append(r.readers, x))
    <2>1. DepRefs(a) \in Seq(Tasks)
      BY <1>9, DepSeq
    <2>2. c.pred = a.pred \cup (IF a.readers = <<>> THEN {a.writer} ELSE ToSet(a.readers))
          /\ c \in DepT /\ c.writer = x /\ c.readers = <<>>
      BY <1>9, <1>12, <2>1, AddWriter
    <2> QED
      BY <1>9, <1>13, <2>2
  <1>15. PICK e : e = d2
    OBVIOUS
  <1>16. /\ e \in DepT
         /\ Writer(x) => e.writer = x /\ e.readers = <<>>
         /\ ~ Writer(x) => e.writer = r.writer /\ e.readers = IF Tracked(x) THEN Append(r.readers, x) ELSE r.readers
         /\ \A y \in Tasks :
              /\ Tracked(x)
              /\ \/ Writer(x) /\ Names(r.readers, y)
                 \/ (~ Writer(x) \/ r.readers = <<>>) /\ r.writer = y
              => y \in e.pred
    <2>1. CASE dep = <<>>
      BY <1>3, <1>4, <1>6, <1>7, <1>15, <2>1
    <2>2. CASE dep = <<"in">>
      <3>1. e = a /\ Tracked(x) /\ ~ Writer(x)
        BY <1>3, <1>4, <1>7, <1>8, <1>15, <2>2
      <3> QED
        BY <1>9, <3>1
    <2>3. CASE dep = <<"out">>
      <3>1. e = b /\ Tracked(x) /\ Writer(x)
        BY <1>3, <1>4, <1>7, <1>10, <1>15, <2>3
      <3>2. \A y : Names(r.readers, y) => r.readers # <<>>
        BY <1>13 DEF Names
      <3> QED
        BY <1>11, <1>13, <3>1, <3>2
    <2>4. CASE dep = <<"in", "out">>
      <3>1. e = c /\ Tracked(x) /\ Writer(x)
        BY <1>3, <1>4, <1>7, <1>8, <1>12, <1>15, <2>4
      <3> QED
        BY <1>13, <1>14, <3>1
    <2> QED
      BY <1>2, <2>1, <2>2, <2>3, <2>4
  <1>17. PICK P : P = {y \in e.pred \ {None, x} : ~ rec[y].done}
    OBVIOUS
  <1>18. PICK h : h = Deps(x)
    OBVIOUS
  <1>19. h = [e EXCEPT !.pred = P]
    BY <1>5, <1>15, <1>17, <1>18
  <1>20. h.writer = e.writer /\ h.readers = e.readers /\ h.pred = P
    BY <1>16, <1>19 DEF DepT
  <1>21. Writer(x) => Tracked(x)
    BY <1>3, <1>4
  <1>22. \A y \in Tasks : y # None
    BY NoneFree
  <1> QED
    BY <1>16, <1>17, <1>18, <1>20, <1>21, <1>22

\* Who is done has nobody before it that is not.
LEMMA DoneOrder ==
  ASSUME TasksInv, GraphOK, NEW p \in Recs, NEW r \in Tasks, NEW b \in Tasks, InGraph(r, p), InGraph(b, p),
         b = r \/ (b < r /\ Ordered(p, b, r)), ~ rec[b].done
  PROVE  ~ rec[r].done
  <1>1. CASE b = r
    BY <1>1
  <1>2. CASE b < r /\ Ordered(p, b, r)
    <2>1. rec[r].pred # {}
      BY <1>2 DEF GraphOK
    <2>2. r \in Recs /\ r \notin Threads /\ RecsOK
      BY NoneFree DEF TasksInv
    <2>3. rec[r].st = "wait" /\ Deferred(r) /\ Tracked(r)
      BY <2>1, <2>2 DEF RecsOK, Waits4, InGraph, DepOf
    <2>4. rec[r].done <=> Over(r)
      BY <2>2, <2>3 DEF RecsOK, Born
    <2> QED
      BY <2>3, <2>4 DEF Over
  <1> QED
    BY <1>1, <1>2

\* A task that joins the graph waits for each it has to follow, or for a later one
\* that does.
LEMMA LinkPred ==
  ASSUME TasksInv, GraphOK, EntryLast, NEW t \in Threads, pc(t) = "link", NEW p \in Recs, p = Cur(t),
         NEW x \in Tasks, x = Linked(t), Tracked(x),
         NEW b \in Tasks, InGraph(b, p), b < x, Ordered(p, b, x), ~ rec[b].done
  PROVE  \E z \in Deps(x).pred : z \in Tasks /\ rec[z].st # "none" /\ (z = b \/ (b < z /\ Ordered(p, b, z)))
  <1>1. Shape /\ StacksOK /\ rec[x].parent = p /\ rec[p].st = "run" /\ x \in Nat /\ b \in Nat
    BY CurIs, LinkedIs, NoneFree
  <1>2. PICK r \in RecT : r = rec[p]
    BY <1>1 DEF Shape
  <1>3. PICK w \in Tasks \cup {None} : w = r.writer
    BY <1>2 DEF RecT
  <1>4. r.readers \in Seq(Tasks)
    BY <1>2 DEF RecT
  <1>5. ~ InGraph(x, p)
    BY DEF InGraph, Unlinked
  <1>6. ASSUME NEW y \in Tasks, Names(r.readers, y) \/ w = y
        PROVE  InGraph(y, p) /\ rec[y].st # "none" /\ y # x
    BY <1>2, <1>3, <1>5, <1>6, EntryNames
  <1>7. /\ \A y \in Tasks : InGraph(y, p) => (Names(r.readers, y) /\ ~ Writer(y)) \/ (w # None /\ y <= w)
        /\ w # None => Writer(w)
        /\ \A y \in Tasks : Names(r.readers, y) /\ w # None => w < y
    BY <1>1, <1>2, <1>3 DEF EntryLast
  <1>8. ASSUME NEW y \in Tasks, w \in Tasks, b <= w, w <= y PROVE Ordered(p, b, y)
    <2>1. DepOf(w, p) /\ Writer(w)
      BY <1>6, <1>7, <1>8, NoneFree DEF InGraph
    <2> QED
      BY <1>8, <2>1 DEF Ordered
  <1>9. ASSUME w \in Tasks, b <= w
        PROVE  ~ rec[w].done /\ rec[w].st # "none" /\ w # x /\ (w = b \/ (b < w /\ Ordered(p, b, w)))
    <2>1. w \in Nat
      BY <1>9, NoneFree
    <2>2. w = b \/ (b < w /\ Ordered(p, b, w))
      BY <1>1, <1>8, <1>9, <2>1
    <2>3. InGraph(w, p) /\ rec[w].st # "none" /\ w # x
      BY <1>6, <1>9
    <2> QED
      BY <1>9, <2>2, <2>3, DoneOrder
  <1>10. \A y \in Tasks :
           /\ y # x /\ ~ rec[y].done
           /\ \/ Writer(x) /\ Names(r.readers, y)
              \/ (~ Writer(x) \/ r.readers = <<>>) /\ w = y
           => y \in Deps(x).pred
    BY <1>1, <1>2, <1>3, DepsEntry
  <1>11. CASE Writer(x)
    <2>1. CASE Names(r.readers, b)
      BY <1>6, <1>10, <1>11, <2>1
    <2>2. CASE ~ Names(r.readers, b)
      <3>1. w \in Tasks /\ b <= w
        BY <1>3, <1>7, <2>2
      <3>2. CASE r.readers = <<>>
        BY <1>9, <1>10, <3>1, <3>2
      <3>3. CASE r.readers # <<>>
        <4>1. PICK y \in Tasks : Names(r.readers, y)
          <5>1. 1 \in DOMAIN r.readers
            BY <1>4, <3>3, WithoutFirst
          <5> QED
            BY <1>4, <5>1, ElementOfSeq, LenProperties DEF Names
        <4>2. InGraph(y, p) /\ rec[y].st # "none" /\ y # x /\ w < y
          BY <1>6, <1>7, <3>1, <4>1, NoneFree
        <4>3. w \in Nat /\ y \in Nat
          BY <3>1, NoneFree
        <4>4. b < y /\ Ordered(p, b, y)
          BY <1>1, <1>8, <3>1, <4>2, <4>3
        <4>5. ~ rec[y].done
          BY <4>2, <4>4, DoneOrder
        <4> QED
          BY <1>10, <1>11, <4>1, <4>2, <4>4, <4>5
      <3> QED
        BY <3>2, <3>3
    <2> QED
      BY <2>1, <2>2
  <1>12. CASE ~ Writer(x)
    <2>1. PICK v \in Tasks : DepOf(v, p) /\ Writer(v) /\ b <= v /\ v <= x
      BY DEF Ordered
    <2>2. v # x
      BY <1>12, <2>1
    <2>3. InGraph(v, p)
      <3>1. ASSUME NEW s \in Threads, pc(s) = "link", Linked(s) = v PROVE FALSE
        <4>1. Cur(s) = Cur(t)
          BY <2>1, <3>1, LinkedIs DEF DepOf
        <4>2. s = t
          BY <1>1, <4>1, Alone
        <4> QED
          BY <2>2, <3>1, <4>2
      <3> QED
        BY <2>1, <3>1 DEF InGraph, Unlinked
    <2>4. w \in Tasks /\ v <= w
      BY <1>3, <1>7, <2>1, <2>3
    <2>5. b <= w
      <3>1. w \in Nat /\ v \in Nat
        BY <2>4, NoneFree
      <3> QED
        BY <1>1, <2>1, <2>4, <3>1
    <2> QED
      BY <1>9, <1>10, <1>12, <2>4, <2>5
  <1> QED
    BY <1>11, <1>12

LEMMA SpawnLinkDeps ==
  ASSUME TasksInv, TasksInv', DepsOK, NEW t \in Threads, SpawnLink(t)
  PROVE  DepsOK'
  <1>1. Shape /\ StacksOK /\ RecsOK
    BY CurIs
  <1>2. PICK x \in Tasks, p \in Recs, d \in DepT, xs \in SUBSET Tasks, f \in FrameT : LinkOn(t, x, p, d, xs, f)
    BY LinkIs
  <1>3. /\ Topped(t, f) /\ f.tk = p /\ f.pc # "link" /\ p = Cur(t) /\ pc(t) = "link" /\ Linked(t) = x
        /\ rec[x].parent = p /\ rec[x].st = "wait" /\ rec[p].st = "run" /\ rec[x].pred = {} /\ Deferred(x) /\ x # p
        /\ \A y \in Recs : SameId(rec[y], rec'[y]) /\ rec'[y].st = rec[y].st /\ rec'[y].done = rec[y].done
        /\ \A y \in Recs : y # x => rec'[y].pred = rec[y].pred
        /\ (d.pred # {} => Tracked(x)) /\ rec'[x].pred = d.pred
    BY <1>2 DEF LinkOn, Linking, DepOK
  <1>4. PICK e : e = Deps(x)
    OBVIOUS
  <1>5. /\ rec'[p].writer = e.writer /\ rec'[p].readers = e.readers /\ rec'[x].pred = e.pred
        /\ \A y \in Recs : y # p => rec'[y].writer = rec[y].writer /\ rec'[y].readers = rec[y].readers
    <2>1. rec' = [rec EXCEPT ![x].pred = e.pred, ![x].refs = @ + e.add,
                             ![p].writer = e.writer, ![p].readers = e.readers]
      BY <1>3, <1>4 DEF SpawnLink
    <2>2. rec \in [Recs -> RecT] /\ x \in Recs
      BY <1>1, NoneFree DEF Shape
    <2>3. rec[x] \in RecT /\ rec[p] \in RecT
      BY <2>2
    <2>4. rec'[p].writer = e.writer /\ rec'[p].readers = e.readers /\ rec'[x].pred = e.pred
      BY <1>3, <2>1, <2>2, <2>3 DEF RecT
    <2>5. ASSUME NEW y \in Recs, y # p PROVE rec'[y].writer = rec[y].writer /\ rec'[y].readers = rec[y].readers
      BY <1>3, <2>1, <2>2, <2>3, <2>5 DEF RecT
    <2> QED
      BY <2>4, <2>5
  <1>6. Evolves(t)
    BY LinkEvolves
  <1>7. Below(t) /\ pc(t)' # "link"
    <2>1. Top(t)' = f
      BY <1>1, <1>3, TopAfter
    <2> QED
      BY <1>3, <2>1 DEF Topped, pc
  <1>8. \A n \in Tasks : rec[n].st = "none" <=> rec'[n].st = "none"
    BY <1>3, NoneFree
  <1>9. Orderly(t)
    <2>1. \A y \in Recs : /\ rec[y].st \notin {"none", "wait"} => rec'[y].st # "wait"
                          /\ Over(y) => Over(y)'
      BY <1>3 DEF Over
    <2>2. StacksMove(t)
      BY <1>1, <1>3, ToppedTasks DEF StacksMove
    <2> QED
      BY <1>6, <1>7, <1>8, <2>1, <2>2 DEF Orderly
  <1>10. KinOK'
    BY <1>9, OrderlyKin DEF DepsOK
  <1>11. x \in Recs /\ p \in Recs /\ x \in Nat /\ rec[x].st # "none"
    BY <1>3, NoneFree
  <1>12. /\ Writer(x) => Tracked(x) /\ e.writer = x /\ e.readers = <<>>
         /\ ~ Writer(x) => /\ e.writer = rec[p].writer
                           /\ e.readers = IF Tracked(x) THEN Append(rec[p].readers, x) ELSE rec[p].readers
    BY <1>1, <1>3, <1>4, DepsEntry
  <1>13. CASE ~ Tracked(x)
    <2>1. LinksStay
      BY <1>3, <1>6, <1>7, <1>8, <1>13, LinksStayed
    <2>2. \A y \in Recs : rec'[y].pred = rec[y].pred
      BY <1>3, <1>13
    <2>3. GraphOK'
      BY <1>3, <1>6, <2>1, <2>2, GraphKept DEF DepsOK
    <2>4. rec'[p].writer = rec[p].writer /\ rec'[p].readers = rec[p].readers
      BY <1>5, <1>12, <1>13
    <2>5. \A y \in Recs : rec'[y].writer = rec[y].writer /\ rec'[y].readers = rec[y].readers
      BY <1>5, <2>4
    <2>6. EntryLast'
      BY <1>3, <1>6, <2>1, <2>5, EntryLastKept DEF DepsOK, KinOK
    <2> QED
      BY <1>10, <2>3, <2>6 DEF DepsOK
  <1>14. CASE Tracked(x)
    \* What was in the graph, and the one that joins it.
    <2>1. ASSUME NEW y \in Tasks, NEW q, InGraph(y, q)'
          PROVE  /\ rec[y].st # "none" /\ y \in Recs /\ y \in Nat /\ (Writer(y)' <=> Writer(y)) /\ rec[y].parent = q
                 /\ ~ rec[y].inplace
                 /\ IF y = x THEN q = p ELSE InGraph(y, q)
      <3>1. y \in Recs /\ y \in Nat
        BY NoneFree
      <3>2. SameId(rec[y], rec'[y]) /\ rec'[y].st = rec[y].st
        BY <1>3, <3>1
      <3>3. DepOf(y, q)' /\ ~ Unlinked(y)'
        BY <2>1 DEF InGraph
      <3>4. DepOf(y, q) /\ rec[y].st # "none" /\ rec[y].parent = q /\ ~ rec[y].inplace
        BY <3>2, <3>3 DEF DepOf, Deferred, Tracked, SameId
      <3>5. Writer(y)' <=> Writer(y)
        BY <3>2 DEF Writer, SameId
      <3>6. CASE y = x
        BY <1>3, <3>1, <3>4, <3>5, <3>6
      <3>7. ASSUME y # x, NEW s \in Threads, pc(s) = "link", Linked(s) = y PROVE FALSE
        <4>1. s # t
          BY <1>3, <3>7
        <4>2. pc(s)' = "link" /\ Linked(s)' = y
          BY <1>1, <1>7, <3>7, <4>1, OtherTops DEF Linked
        <4> QED
          BY <3>3, <4>2 DEF Unlinked
      <3> QED
        BY <3>1, <3>4, <3>5, <3>6, <3>7 DEF InGraph, Unlinked
    <2>2. ASSUME NEW y \in Tasks, rec[y].st # "none", rec[y].parent = p, ~ rec[y].inplace PROVE y <= x
      <3>1. rec[y].creator = Cur(t)
        BY <1>3, <2>2, CreatorIs
      <3> QED
        BY <1>3, <2>2, <3>1 DEF DepsOK, KinOK, LinkLast
    <2>3. ASSUME NEW q \in Recs, NEW a \in Tasks, NEW b \in Tasks,
                 InGraph(a, q)', InGraph(b, q)', b < a, Ordered(q, b, a)', ~ rec'[b].done
          PROVE  \E z \in rec'[a].pred : z = b \/ (b < z /\ Ordered(q, b, z)')
      <3>1. /\ rec[a].st # "none" /\ a \in Recs /\ a \in Nat /\ rec[b].st # "none" /\ b \in Recs /\ b \in Nat
            /\ a # b /\ ~ rec[b].done
        BY <1>3, <2>1, <2>3
      <3>2. Ordered(q, b, a)
        BY <1>6, <2>3, <3>1, OrderedSame
      <3>3. b # x
        <4>1. SUFFICES ASSUME b = x PROVE FALSE
          OBVIOUS
        <4>2. q = p /\ rec[a].parent = p /\ ~ rec[a].inplace
          BY <2>1, <2>3, <4>1
        <4>3. a <= x
          BY <2>2, <3>1, <4>2
        <4> QED
          BY <2>3, <3>1, <4>1, <4>3
      <3>4. InGraph(b, q)
        BY <2>1, <2>3, <3>3
      <3>5. CASE a = x
        <4>1. q = p
          BY <2>1, <2>3, <3>5
        <4>2. InGraph(b, p) /\ b < x /\ Ordered(p, b, x)
          BY <2>3, <3>2, <3>4, <3>5, <4>1
        <4>3. PICK z \in Deps(x).pred : z \in Tasks /\ rec[z].st # "none" /\ (z = b \/ (b < z /\ Ordered(p, b, z)))
          BY <1>3, <1>14, <3>1, <4>2, LinkPred DEF DepsOK
        <4>4. Ordered(p, b, z)' <=> Ordered(p, b, z)
          BY <1>6, <4>3, OrderedSame
        <4>5. z \in rec'[a].pred
          BY <1>4, <1>5, <3>5, <4>3
        <4> QED
          BY <4>1, <4>3, <4>4, <4>5
      <3>6. CASE a # x
        <4>1. InGraph(a, q)
          BY <2>1, <2>3, <3>6
        <4>2. PICK z \in rec[a].pred : z = b \/ (b < z /\ Ordered(q, b, z))
          BY <2>3, <3>1, <3>2, <3>4, <4>1 DEF DepsOK, GraphOK
        <4>3. z \in Tasks /\ rec[z].st # "none"
          BY <1>1, <3>1, <4>2 DEF RecsOK, Waits4, Deferred
        <4>4. Ordered(q, b, z)' <=> Ordered(q, b, z)
          BY <1>6, <4>3, OrderedSame
        <4>5. z \in rec'[a].pred
          BY <1>3, <3>1, <3>6, <4>2
        <4> QED
          BY <4>2, <4>4, <4>5
      <3> QED
        BY <3>5, <3>6
    <2>4. GraphOK'
      BY <2>3 DEF GraphOK
    <2>5. PICK w : w = rec[p].writer
      OBVIOUS
    <2>6. PICK rs \in Seq(Tasks) : rs = rec[p].readers
      <3>1. rec[p] \in RecT
        BY <1>1 DEF Shape
      <3> QED
        BY <3>1 DEF RecT
    <2>7. w # None => w \in Tasks
      <3>1. rec[p] \in RecT
        BY <1>1 DEF Shape
      <3> QED
        BY <2>5, <3>1 DEF RecT
    <2>8. ASSUME NEW y \in Tasks, Names(rs, y) \/ w = y
          PROVE  rec[y].st # "none" /\ y # x /\ rec[y].parent = p /\ ~ rec[y].inplace /\ y <= x
      <3>1. InGraph(y, p) /\ rec[y].st # "none"
        BY <2>5, <2>6, <2>8, EntryNames
      <3>2. y # x
        BY <1>3, <3>1 DEF InGraph, Unlinked
      <3>3. rec[y].parent = p /\ ~ rec[y].inplace
        BY <3>1 DEF InGraph, DepOf, Deferred
      <3> QED
        BY <2>2, <3>1, <3>2, <3>3
    <2>9. /\ \A y \in Tasks : InGraph(y, p) => (Names(rs, y) /\ ~ Writer(y)) \/ (w # None /\ y <= w)
          /\ w # None => Writer(w)
          /\ \A y \in Tasks : Names(rs, y) /\ w # None => w < y
      BY <1>3, <2>5, <2>6 DEF DepsOK, EntryLast
    <2>10. ASSUME NEW v \in Tasks, Writer(v) PROVE Contains(rec'[v].kind.dep, "out")
      <3>1. v \in Recs
        BY NoneFree
      <3> QED
        BY <1>3, <2>10, <3>1 DEF Writer, SameId
    \* The entry of p, then that of any other.
    <2>11. /\ \A y \in Tasks : InGraph(y, p)' =>
                \/ Names(rec'[p].readers, y) /\ ~ Writer(y)'
                \/ rec'[p].writer # None /\ y <= rec'[p].writer
           /\ rec'[p].writer # None => Contains(rec'[rec'[p].writer].kind.dep, "out")
           /\ \A y \in Tasks : Names(rec'[p].readers, y) /\ rec'[p].writer # None => rec'[p].writer < y
      <3>1. CASE Writer(x)
        <4>1. rec'[p].writer = x /\ rec'[p].readers = <<>>
          BY <1>5, <1>12, <3>1
        <4>2. x # None /\ \A y : ~ Names(<<>>, y)
          BY NoneFree DEF Names
        <4>3. \A y \in Tasks : InGraph(y, p)' => y <= x
          BY <2>1, <2>2
        <4> QED
          BY <2>10, <3>1, <4>1, <4>2, <4>3
      <3>2. CASE ~ Writer(x)
        <4>1. rec'[p].writer = w /\ rec'[p].readers = Append(rs, x)
          BY <1>5, <1>12, <1>14, <2>5, <2>6, <3>2
        <4>2. PICK us : us = Append(rs, x)
          OBVIOUS
        <4>3. \A y : Names(us, y) <=> Names(rs, y) \/ y = x
          <5>1. PICK m \in Nat : m = Len(rs) /\ DOMAIN rs = 1 .. m
            BY <2>6, LenProperties
          <5>2. DOMAIN us = 1 .. m + 1 /\ us[m + 1] = x /\ \A i \in 1 .. m : us[i] = rs[i]
            BY <2>6, <4>2, <5>1, AppendProperties, LenProperties
          <5>3. \A i \in 1 .. m + 1 : i \in 1 .. m \/ i = m + 1
            BY <5>1
          <5>4. m + 1 \in 1 .. m + 1 /\ \A i \in 1 .. m : i \in 1 .. m + 1
            BY <5>1
          <5> QED
            BY <5>1, <5>2, <5>3, <5>4 DEF Names
        <4>4. ASSUME NEW y \in Tasks, InGraph(y, p)'
              PROVE  (Names(us, y) /\ ~ Writer(y)') \/ (w # None /\ y <= w)
          BY <2>1, <2>9, <3>2, <4>3, <4>4
        <4>5. ASSUME NEW y \in Tasks, Names(us, y), w # None PROVE w < y
          <5>1. w \in Tasks /\ w \in Nat
            BY <2>7, <4>5, NoneFree
          <5>2. w # x /\ w <= x
            BY <2>8, <5>1
          <5> QED
            BY <1>11, <2>9, <4>3, <4>5, <5>1, <5>2
        <4>6. w # None => Contains(rec'[w].kind.dep, "out")
          BY <2>7, <2>9, <2>10
        <4> QED
          BY <4>1, <4>2, <4>4, <4>5, <4>6
      <3> QED
        BY <3>1, <3>2
    <2>12. ASSUME NEW q \in Recs, q # p, rec'[q].st = "run"
           PROVE  /\ \A y \in Tasks : InGraph(y, q)' =>
                       \/ Names(rec'[q].readers, y) /\ ~ Writer(y)'
                       \/ rec'[q].writer # None /\ y <= rec'[q].writer
                  /\ rec'[q].writer # None => Contains(rec'[rec'[q].writer].kind.dep, "out")
                  /\ \A y \in Tasks : Names(rec'[q].readers, y) /\ rec'[q].writer # None => rec'[q].writer < y
      <3>1. rec'[q].writer = rec[q].writer /\ rec'[q].readers = rec[q].readers /\ rec[q].st = "run"
        BY <1>3, <1>5, <2>12
      <3>2. /\ \A y \in Tasks : InGraph(y, q) =>
                 \/ Names(rec[q].readers, y) /\ ~ Writer(y)
                 \/ rec[q].writer # None /\ y <= rec[q].writer
            /\ rec[q].writer # None => Writer(rec[q].writer)
            /\ \A y \in Tasks : Names(rec[q].readers, y) /\ rec[q].writer # None => rec[q].writer < y
        BY <3>1 DEF DepsOK, EntryLast
      <3>3. \A y \in Tasks : InGraph(y, q)' => InGraph(y, q) /\ (Writer(y)' <=> Writer(y))
        BY <2>1, <2>12
      <3>4. rec[q].writer # None => rec[q].writer \in Tasks
        <4>1. rec[q] \in RecT
          BY <1>1 DEF Shape
        <4> QED
          BY <4>1 DEF RecT
      <3> QED
        BY <2>10, <3>1, <3>2, <3>3, <3>4
    <2>13. EntryLast'
      BY <2>11, <2>12 DEF EntryLast, Writer, Names
    <2> QED
      BY <1>10, <2>4, <2>13 DEF DepsOK
  <1> QED
    BY <1>13, <1>14

LEMMA NextDeps ==
  ASSUME TasksInv, TasksInv', DepsOK, Next
  PROVE  DepsOK'
  <1>1. PICK t \in Threads : KeepsKin(t) \/ Busy(t)
    BY QuietOrBusy
  <1>2. CASE KeepsKin(t)
    BY <1>2, KinDeps
  <1>3. CASE \E k \in NextKinds : SpawnInPlace(t, k) \/ SpawnCount(t, k)
    BY <1>3, SpawnHere, SpawnLater, CreatedDeps
  <1>4. CASE SpawnPush(t) \/ SpawnLink(t) \/ Complete(t)
    BY <1>4, SpawnPushDeps, SpawnLinkDeps, CompleteDeps
  <1>5. ASSUME NEW x \in Tasks, Starts(t, x) PROVE DepsOK'
    BY <1>5, StartDeps
  <1>6. CASE LookHigh(t)
    BY <1>5, <1>6, LookHighStarts
  <1>7. CASE WaitRun(t) \/ LookOwn(t) \/ FindHigh(t) \/ FindOwn(t) \/ \E v \in Threads : FindSteal(t, v)
    BY <1>5, <1>7, WaitRunStarts, LookOwnStarts, FindStarted
  <1> QED
    BY <1>1, <1>2, <1>3, <1>4, <1>6, <1>7 DEF Busy

LEMMA DepsInit ==
  ASSUME Init
  PROVE  DepsOK
  <1>1. \A x \in Recs : rec[x] = IF x \in Threads THEN [NoRec EXCEPT !.st = "run"] ELSE NoRec
    BY DEF Init
  <1>2. \A x \in Tasks : rec[x] = NoRec
    BY <1>1, NoneFree
  <1>3. \A x \in Tasks : rec[x].st = "none" /\ ~ Deferred(x)
    BY <1>2 DEF NoRec, Deferred
  <1>4. \A p \in Recs : rec[p].writer = None /\ rec[p].readers = <<>>
    BY <1>1 DEF NoRec
  <1>5. \A t \in Threads : stack[t] = <<Frame(t, "body")>>
    BY DEF Init
  <1>6. \A t \in Threads : DOMAIN stack[t] = {1}
    BY <1>5
  <1>7. GraphOK
    BY <1>3 DEF GraphOK, InGraph, DepOf
  <1>8. EntryLast
    <2>1. \A y : ~ Names(<<>>, y)
      BY DEF Names
    <2> QED
      BY <1>3, <1>4, <2>1 DEF EntryLast, InGraph, DepOf
  <1>9. CreatorOK /\ LinkLast /\ InPlaceOver
    BY <1>3 DEF CreatorOK, LinkLast, InPlaceOver
  <1>10. InPlaceOn
    BY <1>6 DEF InPlaceOn
  <1> QED
    BY <1>7, <1>8, <1>9, <1>10 DEF DepsOK, KinOK

\* A task that has started waits for nobody any more, so who is before it is done.
LEMMA RespectedInv ==
  ASSUME TasksInv, DepsOK
  PROVE  DepsRespected
  <1>1. SUFFICES ASSUME NEW x \in Tasks, NEW y \in Tasks, y < x, Tracked(x), Tracked(y),
                        rec[x].creator = rec[y].creator, Writer(x) \/ Writer(y),
                        rec[x].st \in {"run", "over", "freed"}
                 PROVE  Over(y)
    BY DEF DepsRespected, Writer
  <1>2. RecsOK /\ x \in Recs /\ y \in Recs /\ x \notin Threads /\ y \notin Threads /\ x \in Nat /\ y \in Nat
    BY NoneFree DEF TasksInv
  <1>3. rec[x].st # "none" /\ rec[x].st # "wait" /\ rec[y].st # "none"
    <2>1. rec[x].st # "none" /\ rec[x].st # "wait"
      BY <1>1
    <2> QED
      BY <1>1, <2>1, CreatorIs
  <1>4. PICK p \in Recs : p = rec[x].creator
    BY <1>3, CreatorIs
  <1>5. (rec[x].inplace <=> rec[p].final) /\ (rec[y].inplace <=> rec[p].final)
    BY <1>1, <1>3, <1>4 DEF DepsOK, KinOK, CreatorOK
  <1>6. CASE rec[x].inplace
    BY <1>1, <1>3, <1>5, <1>6 DEF DepsOK, KinOK, InPlaceOver
  <1>7. CASE ~ rec[x].inplace
    <2>1. rec[x].parent = p /\ rec[y].parent = p /\ ~ rec[y].inplace
      BY <1>1, <1>3, <1>4, <1>5, <1>7, CreatorIs
    <2>2. DepOf(x, p) /\ DepOf(y, p)
      BY <1>1, <1>3, <1>7, <2>1 DEF DepOf, Deferred
    <2>3. ~ Unlinked(x)
      BY <1>3, LinkedIs DEF Unlinked
    <2>4. ~ Unlinked(y)
      <3>1. SUFFICES ASSUME NEW s \in Threads, pc(s) = "link", Linked(s) = y PROVE FALSE
        BY DEF Unlinked
      <3>2. rec[x].creator = Cur(s)
        BY <1>4, <2>1, <3>1, LinkedIs
      <3>3. x <= y
        BY <1>3, <3>1, <3>2 DEF DepsOK, KinOK, LinkLast
      <3> QED
        BY <1>1, <1>2, <3>3
    <2>5. Ordered(p, y, x)
      <3>1. y <= x /\ y <= y /\ x <= x
        BY <1>1, <1>2
      <3> QED
        BY <1>1, <2>2, <3>1 DEF Ordered
    <2>6. rec[x].pred = {}
      <3>1. SUFFICES ASSUME NEW z \in rec[x].pred PROVE FALSE
        OBVIOUS
      <3>2. rec[x].st = "wait"
        BY <1>2 DEF RecsOK, Waits4
      <3> QED
        BY <1>3, <3>2
    <2>7. rec[y].done
      BY <1>1, <2>2, <2>3, <2>4, <2>5, <2>6 DEF DepsOK, GraphOK, InGraph
    <2>8. rec[y].done <=> Over(y)
      BY <1>1, <1>2, <1>3, <2>1 DEF RecsOK, Born, Deferred
    <2> QED
      BY <2>7, <2>8
  <1> QED
    BY <1>6, <1>7

\* Of two siblings with dependences on the same address, one of which writes, the
\* later one starts when the earlier one is over (__cccc_task_deps).
THEOREM DepsCorrect == Spec => []DepsRespected
  <1>1. Init => DepsOK
    BY DepsInit
  <1>2. TasksInv /\ TasksInv' /\ DepsOK /\ [Next]_vars => DepsOK'
    <2>1. CASE TasksInv /\ TasksInv' /\ DepsOK /\ Next
      BY <2>1, NextDeps
    <2>2. CASE DepsOK /\ UNCHANGED vars
      BY <2>2 DEF vars, DepsOK, GraphOK, EntryLast, KinOK, CreatorOK, LinkLast, InPlaceOn, InPlaceOver,
                  InGraph, DepOf, Unlinked, Ordered, Writer, Tracked, Deferred, Over, Linked, pc, Cur, Top
    <2> QED
      BY <2>1, <2>2
  <1>3. TasksInv /\ DepsOK => DepsRespected
    BY RespectedInv
  <1> QED
    BY <1>1, <1>2, <1>3, TasksInvariant, PTL DEF Spec
===========================================================================
