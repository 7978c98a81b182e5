---------------------------- MODULE VmHeapProofs ----------------------------
(***************************************************************************)
(* Proofs about VmHeap, for any number of threads, any call depth and any   *)
(* heap size: HeapInv is inductive, so a rewind of the bump pointer never   *)
(* gives away storage the guest may still use.                              *)
(***************************************************************************)
EXTENDS VmHeap, TLAPS

-----------------------------------------------------------------------------
(* Sequences *)

\* Prefix(s, n) keeps the first n elements of s (count = n in the C arrays).
LEMMA PrefixFacts ==
  ASSUME NEW S, NEW s \in Seq(S), NEW n \in 0 .. Len(s)
  PROVE  /\ Prefix(s, n) \in Seq(S)
         /\ Len(Prefix(s, n)) = n
         /\ \A i \in 1 .. n : Prefix(s, n)[i] = s[i]
  BY DEF Prefix

\* Appending to a sequence (heap_marks_push, sorted_allocs_insert).
LEMMA AppendFacts ==
  ASSUME NEW S, NEW s \in Seq(S), NEW e \in S
  PROVE  /\ Append(s, e) \in Seq(S)
         /\ Len(Append(s, e)) = Len(s) + 1
         /\ \A i \in 1 .. Len(s) : Append(s, e)[i] = s[i]
         /\ Append(s, e)[Len(s) + 1] = e
  OBVIOUS

-----------------------------------------------------------------------------
(* heap_rewind_to *)

\* The extent of a tracked allocation.
LEMMA AllocEnd ==
  ASSUME NEW a \in Alloc
  PROVE  /\ a.base \in Nat /\ a.size \in Nat \ {0} /\ End(a) \in Nat
         /\ a.base < End(a) /\ End(a) = a.base + a.size
  BY DEF Alloc, End

\* What a rewind does: it drops a suffix of the tracked allocations, all of
\* them sweepable, and leaves the bump pointer above everything it keeps.
LEMMA RewindEffect ==
  ASSUME TypeOK, SortedAllocs,
         NEW t \in Threads, NEW target \in Nat, NEW sweep,
         RewindTo(t, target, sweep)
  PROVE  /\ heap_ptr' \in Nat /\ heap_ptr' <= heap_ptr
         /\ sorted_allocs' \in Seq(Alloc)
         /\ Len(sorted_allocs') <= Len(sorted_allocs)
         /\ \A i \in 1 .. Len(sorted_allocs') :
              /\ sorted_allocs'[i] = sorted_allocs[i]
              /\ End(sorted_allocs[i]) <= heap_ptr'
         /\ \A i \in (Len(sorted_allocs') + 1) .. Len(sorted_allocs) :
              i \in Sweepable(t, target, sweep)
  <1>0. sorted_allocs \in Seq(Alloc) /\ heap_ptr \in Nat
    BY DEF TypeOK
  <1>1. CASE UNCHANGED <<heap_ptr, sorted_allocs>>
    BY <1>0, <1>1 DEF SortedAllocs
  <1>2. ASSUME NEW stop \in 0 .. Len(sorted_allocs),
               Remain(Len(sorted_allocs), Sweepable(t, target, sweep), stop),
               EffectiveTarget(target, stop) < heap_ptr,
               heap_ptr' = EffectiveTarget(target, stop),
               sorted_allocs' = Prefix(sorted_allocs, stop)
        PROVE  /\ heap_ptr' \in Nat /\ heap_ptr' <= heap_ptr
               /\ sorted_allocs' \in Seq(Alloc)
               /\ Len(sorted_allocs') <= Len(sorted_allocs)
               /\ \A i \in 1 .. Len(sorted_allocs') :
                    /\ sorted_allocs'[i] = sorted_allocs[i]
                    /\ End(sorted_allocs[i]) <= heap_ptr'
               /\ \A i \in (Len(sorted_allocs') + 1) .. Len(sorted_allocs) :
                    i \in Sweepable(t, target, sweep)
    <2>1. /\ sorted_allocs' \in Seq(Alloc)
          /\ Len(sorted_allocs') = stop
          /\ \A i \in 1 .. stop : sorted_allocs'[i] = sorted_allocs[i]
      BY <1>0, <1>2, PrefixFacts
    <2>2. \A i \in 1 .. Len(sorted_allocs) :
            /\ sorted_allocs[i].base \in Nat
            /\ End(sorted_allocs[i]) \in Nat
            /\ sorted_allocs[i].base < End(sorted_allocs[i])
      BY <1>0, AllocEnd
    <2>3. heap_ptr' \in Nat
      BY <1>2, <2>2 DEF EffectiveTarget
    <2>4. ASSUME NEW i \in 1 .. stop
          PROVE  End(sorted_allocs[i]) <= heap_ptr'
      <3>1. End(sorted_allocs[stop]) <= heap_ptr'
        BY <1>2, <2>2, <2>4 DEF EffectiveTarget
      <3>2. CASE i < stop
        <4>1. End(sorted_allocs[i]) <= sorted_allocs[stop].base - Header
          BY <3>2, <2>4, <1>2 DEF SortedAllocs
        <4>2. /\ sorted_allocs[stop].base \in Nat
              /\ End(sorted_allocs[stop]) \in Nat
              /\ End(sorted_allocs[i]) \in Nat
              /\ sorted_allocs[stop].base < End(sorted_allocs[stop])
          BY <2>2, <2>4, <1>2
        <4>3. QED
          BY <4>1, <4>2, <3>1, <2>3, HeapAssumption
      <3>3. QED
        BY <3>1, <3>2, <2>4
    <2>5. \A i \in (stop + 1) .. Len(sorted_allocs) :
            i \in Sweepable(t, target, sweep)
      BY <1>2 DEF Remain
    <2>6. QED
      BY <1>0, <1>2, <2>1, <2>3, <2>4, <2>5
  <1>3. QED
    BY <1>1, <1>2 DEF RewindTo

\* A rewind keeps the allocations sorted and below the bump pointer.
LEMMA RewindSorted ==
  ASSUME TypeOK, SortedAllocs,
         NEW t \in Threads, NEW target \in Nat, NEW sweep,
         RewindTo(t, target, sweep)
  PROVE  SortedAllocs'
  BY RewindEffect, SMTT(30) DEF SortedAllocs, End

-----------------------------------------------------------------------------
(* Consequences of the invariant *)

\* Live storage lies below the bump pointer.
LEMMA LiveBelow ==
  ASSUME HeapInv, NEW a \in live
  PROVE  /\ a.base \in Nat /\ a.size \in Nat \ {0} /\ End(a) \in Nat
         /\ a.base < End(a) /\ End(a) <= heap_ptr
         /\ a.bp \in Nat \ {0} /\ a.blk \in Nat \cup {-1}
         /\ a.owner \in Threads /\ a.kind \in Kinds
  <1>1. a \in Storage
    BY DEF HeapInv, TypeOK
  <1>2. /\ a.base \in Nat /\ a.size \in Nat \ {0} /\ End(a) = a.base + a.size
        /\ a.bp \in Nat \ {0} /\ a.blk \in Nat \cup {-1}
        /\ a.owner \in Threads /\ a.kind \in Kinds
    BY <1>1 DEF Storage, End
  <1>3. PICK i \in 1 .. Len(sorted_allocs) :
          sorted_allocs[i].base = a.base /\ sorted_allocs[i].size = a.size
    BY DEF HeapInv, LiveTracked
  <1>4. End(sorted_allocs[i]) <= heap_ptr /\ End(sorted_allocs[i]) = End(a)
    BY <1>2, <1>3 DEF HeapInv, SortedAllocs, End
  <1>5. QED
    BY <1>2, <1>4

\* The marks of a thread, typed.
LEMMA MarkTyped ==
  ASSUME HeapInv, NEW t \in Threads, NEW i \in 1 .. Len(heap_marks[t])
  PROVE  /\ heap_marks[t] \in Seq(Mark)
         /\ heap_marks[t][i].bp \in Nat \ {0}
         /\ heap_marks[t][i].bp <= Level(t)
         /\ heap_marks[t][i].depth \in Nat \cup {-1}
         /\ heap_marks[t][i].mark \in Nat
  <1>1. heap_marks[t] \in Seq(Mark)
    BY DEF HeapInv, TypeOK
  <1>2. heap_marks[t][i] \in Mark
    BY <1>1
  <1>3. QED
    BY <1>1, <1>2 DEF HeapInv, MarksOrdered, Mark

\* A rewind is safe when the target lies above all the storage that the
\* sweep would take and that stays live.
LEMMA RewindPreserves ==
  ASSUME HeapInv, NEW t \in Threads, NEW target \in Nat, NEW sweep,
         RewindTo(t, target, sweep),
         live' \subseteq live,
         \A a \in live' : (a.owner = t /\ a.kind \in sweep) => End(a) <= target,
         heap_end' = heap_end
  PROVE  /\ heap_ptr' \in Nat /\ heap_end' \in Nat
         /\ sorted_allocs' \in Seq(Alloc)
         /\ SortedAllocs' /\ LiveTracked' /\ HeapBounds'
  <1>1. TypeOK /\ SortedAllocs /\ LiveTracked /\ HeapBounds
    BY DEF HeapInv
  <1>2. /\ heap_ptr' \in Nat /\ heap_ptr' <= heap_ptr
        /\ sorted_allocs' \in Seq(Alloc)
        /\ Len(sorted_allocs') <= Len(sorted_allocs)
        /\ \A i \in 1 .. Len(sorted_allocs') : sorted_allocs'[i] = sorted_allocs[i]
        /\ \A i \in (Len(sorted_allocs') + 1) .. Len(sorted_allocs) :
              i \in Sweepable(t, target, sweep)
    BY <1>1, RewindEffect
  <1>3. SortedAllocs'
    BY <1>1, RewindSorted
  <1>4. HeapBounds' /\ heap_end' \in Nat
    BY <1>1, <1>2, HeapAssumption DEF HeapBounds, TypeOK
  <1>5. ASSUME NEW a \in live'
        PROVE  \E i \in 1 .. Len(sorted_allocs') :
                 /\ sorted_allocs'[i].base = a.base /\ sorted_allocs'[i].size = a.size
                 /\ sorted_allocs'[i].kind = a.kind /\ sorted_allocs'[i].owner = a.owner
                 /\ ~ sorted_allocs'[i].freed
    <2>1. a \in live
      BY <1>5
    <2>2. PICK i \in 1 .. Len(sorted_allocs) :
            /\ sorted_allocs[i].base = a.base /\ sorted_allocs[i].size = a.size
            /\ sorted_allocs[i].kind = a.kind /\ sorted_allocs[i].owner = a.owner
            /\ ~ sorted_allocs[i].freed
      BY <1>1, <2>1 DEF LiveTracked
    <2>3. CASE i \in 1 .. Len(sorted_allocs')
      BY <2>2, <2>3, <1>2
    <2>4. CASE i \in (Len(sorted_allocs') + 1) .. Len(sorted_allocs)
      <3>1. a.base >= target /\ a.owner = t /\ a.kind \in sweep
        BY <1>2, <2>2, <2>4 DEF Sweepable
      <3>2. End(a) <= target /\ a.base < End(a) /\ a.base \in Nat /\ End(a) \in Nat
        BY <3>1, <1>5, <2>1, LiveBelow
      <3>3. QED
        BY <3>1, <3>2
    <2>5. Len(sorted_allocs') \in Nat /\ Len(sorted_allocs) \in Nat
      BY <1>1, <1>2 DEF TypeOK
    <2>6. QED
      BY <2>3, <2>4, <2>5
  <1>6. LiveTracked'
    BY <1>5 DEF LiveTracked
  <1>7. QED
    BY <1>2, <1>3, <1>4, <1>6

\* Dropping marks, live storage and open blocks disturbs neither the order of
\* the marks nor what they protect, provided the frames they name stay.
LEMMA MarksShrink ==
  ASSUME HeapInv,
         live' \subseteq live,
         \A u \in Threads :
           /\ Len(heap_marks'[u]) <= Len(heap_marks[u])
           /\ Len(heap_marks'[u]) \in Nat
           /\ \A i \in 1 .. Len(heap_marks'[u]) :
                /\ heap_marks'[u][i] = heap_marks[u][i]
                /\ heap_marks[u][i].bp <= Len(frames'[u])
                /\ frames'[u][heap_marks[u][i].bp] \in Nat
                /\ frames'[u][heap_marks[u][i].bp] <= frames[u][heap_marks[u][i].bp],
         \A a \in live' : a.kind \in AutoKinds => a.bp <= Len(frames'[a.owner])
  PROVE  MarksOrdered' /\ MarksProtectLive' /\ LiveScoped'
  <1>1. MarksOrdered /\ MarksProtectLive /\ LiveScoped /\ TypeOK
    BY DEF HeapInv
  <1>2. \A u \in Threads : Len(heap_marks[u]) \in Nat
    BY <1>1 DEF TypeOK
  <1>3. MarksOrdered'
    <2> SUFFICES ASSUME NEW u \in Threads
        PROVE  /\ \A i \in 1 .. Len(heap_marks'[u]) :
                    heap_marks'[u][i].bp <= Len(frames'[u])
               /\ \A i, j \in 1 .. Len(heap_marks'[u]) : i < j =>
                    \/ heap_marks'[u][i].bp < heap_marks'[u][j].bp
                    \/ /\ heap_marks'[u][i].bp = heap_marks'[u][j].bp
                       /\ heap_marks'[u][i].depth < heap_marks'[u][j].depth
      BY DEF MarksOrdered, Level
    <2>1. \A i \in 1 .. Len(heap_marks'[u]) :
            /\ i \in 1 .. Len(heap_marks[u])
            /\ heap_marks'[u][i] = heap_marks[u][i]
            /\ heap_marks[u][i].bp <= Len(frames'[u])
      BY <1>2
    <2>2. \A i, j \in 1 .. Len(heap_marks[u]) : i < j =>
            \/ heap_marks[u][i].bp < heap_marks[u][j].bp
            \/ /\ heap_marks[u][i].bp = heap_marks[u][j].bp
               /\ heap_marks[u][i].depth < heap_marks[u][j].depth
      BY <1>1 DEF MarksOrdered
    <2>3. ASSUME NEW i \in 1 .. Len(heap_marks'[u]),
                 NEW j \in 1 .. Len(heap_marks'[u]), i < j
          PROVE  \/ heap_marks'[u][i].bp < heap_marks'[u][j].bp
                 \/ /\ heap_marks'[u][i].bp = heap_marks'[u][j].bp
                    /\ heap_marks'[u][i].depth < heap_marks'[u][j].depth
      <3>1. /\ i \in 1 .. Len(heap_marks[u]) /\ heap_marks'[u][i] = heap_marks[u][i]
            /\ j \in 1 .. Len(heap_marks[u]) /\ heap_marks'[u][j] = heap_marks[u][j]
        BY <2>1, <2>3
      <3>2. QED
        BY <2>2, <2>3, <3>1
    <2>4. QED
      BY <2>1, <2>3
  <1>4. LiveScoped'
    BY <1>1 DEF LiveScoped, Level
  <1>5. ASSUME NEW u \in Threads, NEW i \in 1 .. Len(heap_marks'[u]), NEW a \in live',
               a.owner = u, a.kind \in AutoKinds
        PROVE  LET m == heap_marks'[u][i] IN
               /\ a.bp < m.bp => End(a) <= m.mark
               /\ (/\ a.bp = m.bp /\ a.kind = "FRAME"
                   /\ m.depth < frames'[u][m.bp] /\ a.blk < m.depth)
                     => End(a) <= m.mark
    <2>1. i \in 1 .. Len(heap_marks[u]) /\ a \in live
      BY <1>2, <1>5
    <2>2. heap_marks'[u][i] = heap_marks[u][i]
      BY <1>5
    <2>3. /\ heap_marks[u][i].bp \in Nat \ {0} /\ heap_marks[u][i].bp <= Level(u)
          /\ heap_marks[u][i].depth \in Nat \cup {-1}
      BY <2>1, MarkTyped
    <2>4. frames[u][heap_marks[u][i].bp] \in Nat
      BY <1>1, <2>3 DEF TypeOK, Level
    <2>5. frames'[u][heap_marks[u][i].bp] <= frames[u][heap_marks[u][i].bp]
      BY <1>5
    <2>6. heap_marks[u][i].depth < frames'[u][heap_marks[u][i].bp]
            => heap_marks[u][i].depth < frames[u][heap_marks[u][i].bp]
      BY <2>3, <2>4, <2>5, <1>5, SMTT(30)
    <2>7. QED
      BY <1>1, <1>5, <2>1, <2>2, <2>6 DEF MarksProtectLive
  <1>6. MarksProtectLive'
    BY <1>5 DEF MarksProtectLive
  <1>7. QED
    BY <1>3, <1>4, <1>6

\* The same for a step that changes only one thread's frames and marks.
LEMMA ThreadShrink ==
  ASSUME HeapInv, NEW t \in Threads,
         live' \subseteq live,
         frames' \in [Threads -> Seq(Nat)],
         heap_marks' \in [Threads -> Seq(Mark)],
         \A u \in Threads \ {t} : frames'[u] = frames[u],
         \A u \in Threads \ {t} : heap_marks'[u] = heap_marks[u],
         Len(heap_marks'[t]) <= Len(heap_marks[t]),
         \A i \in 1 .. Len(heap_marks'[t]) :
           heap_marks'[t][i] = heap_marks[t][i] /\ heap_marks[t][i].bp <= Len(frames'[t]),
         \A l \in 1 .. Len(frames'[t]) :
           l <= Len(frames[t]) /\ frames'[t][l] <= frames[t][l],
         \A a \in live' : (a.owner = t /\ a.kind \in AutoKinds)
                             => a.bp <= Len(frames'[t])
  PROVE  MarksOrdered' /\ MarksProtectLive' /\ LiveScoped'
  <1>1. /\ heap_marks \in [Threads -> Seq(Mark)] /\ frames \in [Threads -> Seq(Nat)]
    BY DEF HeapInv, TypeOK
  <1>2. ASSUME NEW u \in Threads
        PROVE  /\ Len(heap_marks'[u]) <= Len(heap_marks[u])
               /\ Len(heap_marks'[u]) \in Nat
               /\ \A i \in 1 .. Len(heap_marks'[u]) :
                    /\ heap_marks'[u][i] = heap_marks[u][i]
                    /\ heap_marks[u][i].bp <= Len(frames'[u])
                    /\ frames'[u][heap_marks[u][i].bp] \in Nat
                    /\ frames'[u][heap_marks[u][i].bp] <= frames[u][heap_marks[u][i].bp]
    <2>1. Len(heap_marks'[u]) <= Len(heap_marks[u]) /\ Len(heap_marks'[u]) \in Nat
      <3>1. heap_marks'[u] \in Seq(Mark)
        OBVIOUS
      <3>2. CASE u = t
        BY <3>1, <3>2
      <3>3. CASE u # t
        <4>1. heap_marks'[u] = heap_marks[u]
          BY <3>3
        <4>2. QED
          BY <3>1, <4>1
      <3>4. QED
        BY <3>2, <3>3
    <2>2. ASSUME NEW i \in 1 .. Len(heap_marks'[u])
          PROVE  /\ heap_marks'[u][i] = heap_marks[u][i]
                 /\ heap_marks[u][i].bp <= Len(frames'[u])
                 /\ frames'[u][heap_marks[u][i].bp] \in Nat
                 /\ frames'[u][heap_marks[u][i].bp] <= frames[u][heap_marks[u][i].bp]
      <3>1. i \in 1 .. Len(heap_marks[u])
        BY <1>1, <2>1, <2>2
      <3>2. heap_marks[u][i].bp \in 1 .. Len(frames[u])
        BY <1>1, <3>1, MarkTyped DEF Level
      <3>3. heap_marks'[u][i] = heap_marks[u][i] /\ heap_marks[u][i].bp <= Len(frames'[u])
        <4>1. CASE u = t
          BY <2>2, <4>1
        <4>2. CASE u # t
          <5>1. heap_marks'[u] = heap_marks[u] /\ frames'[u] = frames[u]
            BY <4>2
          <5>2. QED
            BY <1>1, <3>2, <5>1
        <4>3. QED
          BY <4>1, <4>2
      <3>4. heap_marks[u][i].bp \in 1 .. Len(frames'[u]) /\ frames'[u] \in Seq(Nat)
        BY <3>2, <3>3
      <3>5. frames'[u][heap_marks[u][i].bp] \in Nat
        BY <3>4, SMTT(30)
      <3>6. frames'[u][heap_marks[u][i].bp] <= frames[u][heap_marks[u][i].bp]
        <4>1. CASE u = t
          BY <3>4, <4>1
        <4>2. CASE u # t
          BY <3>5, <4>2
        <4>3. QED
          BY <4>1, <4>2
      <3>7. QED
        BY <3>3, <3>5, <3>6
    <2>3. QED
      BY <2>1, <2>2
  <1>3. \A a \in live' : a.kind \in AutoKinds => a.bp <= Len(frames'[a.owner])
    <2> SUFFICES ASSUME NEW a \in live', a.kind \in AutoKinds
                 PROVE  a.bp <= Len(frames'[a.owner])
      OBVIOUS
    <2>1. a \in live /\ a.owner \in Threads
      BY LiveBelow
    <2>2. a.owner # t => a.bp <= Len(frames'[a.owner])
      BY <2>1 DEF HeapInv, LiveScoped, Level
    <2>3. QED
      BY <2>2
  <1>4. QED
    BY <1>2, <1>3, MarksShrink

\* What popping marks from the top and rewinding does, given that every mark
\* popped lies above the automatic storage of the thread that stays live.
LEMMA UnwindPreserves ==
  ASSUME HeapInv, NEW t \in Threads, NEW drop, MarksUnwind(t, drop),
         live' \subseteq live, heap_end' = heap_end,
         \A i \in 1 .. Len(heap_marks[t]) : \A a \in live' :
           (i \in drop /\ a.owner = t /\ a.kind \in AutoKinds)
             => End(a) <= heap_marks[t][i].mark
  PROVE  /\ heap_ptr' \in Nat /\ heap_end' \in Nat
         /\ sorted_allocs' \in Seq(Alloc)
         /\ SortedAllocs' /\ LiveTracked' /\ HeapBounds'
         /\ heap_marks' \in [Threads -> Seq(Mark)]
         /\ \A u \in Threads \ {t} : heap_marks'[u] = heap_marks[u]
         /\ \E n \in 0 .. Len(heap_marks[t]) :
              /\ Remain(Len(heap_marks[t]), drop, n)
              /\ Len(heap_marks'[t]) = n
              /\ \A i \in 1 .. n : heap_marks'[t][i] = heap_marks[t][i]
  <1>1. PICK n \in 0 .. Len(heap_marks[t]) :
          /\ Remain(Len(heap_marks[t]), drop, n)
          /\ heap_marks' = [heap_marks EXCEPT ![t] = Prefix(@, n)]
          /\ IF n < Len(heap_marks[t])
             THEN RewindTo(t, heap_marks[t][n + 1].mark, AutoKinds)
             ELSE UNCHANGED <<heap_ptr, sorted_allocs>>
    BY DEF MarksUnwind
  <1>2. heap_marks \in [Threads -> Seq(Mark)] /\ heap_marks[t] \in Seq(Mark)
    BY DEF HeapInv, TypeOK
  <1>3. /\ Prefix(heap_marks[t], n) \in Seq(Mark)
        /\ Len(Prefix(heap_marks[t], n)) = n
        /\ \A i \in 1 .. n : Prefix(heap_marks[t], n)[i] = heap_marks[t][i]
    BY <1>2, PrefixFacts
  <1>4. /\ heap_marks' \in [Threads -> Seq(Mark)]
        /\ heap_marks'[t] = Prefix(heap_marks[t], n)
        /\ \A u \in Threads \ {t} : heap_marks'[u] = heap_marks[u]
    BY <1>1, <1>2, <1>3
  <1>5. /\ heap_ptr' \in Nat /\ heap_end' \in Nat
        /\ sorted_allocs' \in Seq(Alloc)
        /\ SortedAllocs' /\ LiveTracked' /\ HeapBounds'
    <2>1. CASE n < Len(heap_marks[t])
      <3>1. n + 1 \in 1 .. Len(heap_marks[t]) /\ n + 1 \in drop
        BY <1>1, <1>2, <2>1 DEF Remain
      <3>2. heap_marks[t][n + 1].mark \in Nat
        BY <3>1, MarkTyped
      <3>3. \A a \in live' : (a.owner = t /\ a.kind \in AutoKinds)
                               => End(a) <= heap_marks[t][n + 1].mark
        BY <3>1
      <3>4. RewindTo(t, heap_marks[t][n + 1].mark, AutoKinds)
        BY <1>1, <2>1
      <3>5. QED
        BY <3>2, <3>3, <3>4, RewindPreserves
    <2>2. CASE ~ (n < Len(heap_marks[t]))
      <3>1. UNCHANGED <<heap_ptr, sorted_allocs>>
        BY <1>1, <2>2
      <3>2. QED
        BY <3>1 DEF HeapInv, TypeOK, SortedAllocs, LiveTracked, HeapBounds
    <2>3. QED
      BY <2>1, <2>2
  <1>6. QED
    BY <1>1, <1>3, <1>4, <1>5

\* Popping the marks of the frames deeper than a level leaves none of them:
\* the order of the marks lets the loops look at the top entry only.
LEMMA PoppedBelow ==
  ASSUME HeapInv, NEW t \in Threads, NEW level \in Nat,
         NEW n \in 0 .. Len(heap_marks[t]),
         Remain(Len(heap_marks[t]), MarksBelow(t, level), n),
         NEW i \in 1 .. n
  PROVE  heap_marks[t][i].bp <= level
  <1>1. n \in 1 .. Len(heap_marks[t]) /\ i \in 1 .. Len(heap_marks[t])
    BY MarkTyped
  <1>2. heap_marks[t][n].bp \in Nat /\ heap_marks[t][i].bp \in Nat
    BY <1>1, MarkTyped
  <1>3. heap_marks[t][n].bp <= level
    BY <1>1, <1>2 DEF Remain, MarksBelow
  <1>4. i = n \/ heap_marks[t][i].bp <= heap_marks[t][n].bp
    <2>1. CASE i < n
      BY <1>1, <1>2, <2>1 DEF HeapInv, MarksOrdered
    <2>2. QED
      BY <2>1, <1>1
  <1>5. QED
    BY <1>2, <1>3, <1>4

\* The same for the marks of the innermost frame at a depth or deeper.
LEMMA PoppedAt ==
  ASSUME HeapInv, NEW t \in Threads, NEW depth \in Nat \cup {-1},
         NEW n \in 0 .. Len(heap_marks[t]),
         Remain(Len(heap_marks[t]), MarksAt(t, Level(t), depth), n),
         NEW i \in 1 .. n
  PROVE  \/ heap_marks[t][i].bp < Level(t)
         \/ heap_marks[t][i].bp = Level(t) /\ heap_marks[t][i].depth < depth
  <1>1. n \in 1 .. Len(heap_marks[t]) /\ i \in 1 .. Len(heap_marks[t])
    BY MarkTyped
  <1>2. /\ heap_marks[t][n].bp \in Nat /\ heap_marks[t][i].bp \in Nat
        /\ heap_marks[t][n].bp <= Level(t) /\ heap_marks[t][i].bp <= Level(t)
        /\ heap_marks[t][n].depth \in Int /\ heap_marks[t][i].depth \in Int
    BY <1>1, MarkTyped, SMTT(30)
  <1>3. Level(t) \in Nat
    BY DEF HeapInv, TypeOK, Level
  <1>4. \/ heap_marks[t][n].bp < Level(t)
        \/ heap_marks[t][n].bp = Level(t) /\ heap_marks[t][n].depth < depth
    BY <1>1, <1>2, <1>3 DEF Remain, MarksAt
  <1>5. \/ i = n
        \/ heap_marks[t][i].bp < heap_marks[t][n].bp
        \/ /\ heap_marks[t][i].bp = heap_marks[t][n].bp
           /\ heap_marks[t][i].depth < heap_marks[t][n].depth
    <2>1. CASE i < n
      BY <1>1, <2>1 DEF HeapInv, MarksOrdered
    <2>2. QED
      BY <2>1, <1>1
  <1>6. QED
    BY <1>2, <1>3, <1>4, <1>5

-----------------------------------------------------------------------------
(* The actions that end lifetimes *)

\* Unwinding thread t to a level: the marks in drop, all of deeper frames, are
\* popped and no other mark of a deeper frame remains.
LEMMA UnwindStep ==
  ASSUME HeapInv, NEW t \in Threads, NEW drop, MarksUnwind(t, drop),
         NEW level \in 0 .. Level(t),
         \A i \in 1 .. Len(heap_marks[t]) :
           i \in drop => heap_marks[t][i].bp > level,
         \A n \in 0 .. Len(heap_marks[t]) :
           Remain(Len(heap_marks[t]), drop, n) =>
             \A i \in 1 .. n : heap_marks[t][i].bp <= level,
         live' \subseteq live \ DeadFrames(t, level),
         frames' \in [Threads -> Seq(Nat)],
         \A u \in Threads \ {t} : frames'[u] = frames[u],
         Len(frames'[t]) = level,
         \A l \in 1 .. level : frames'[t][l] <= frames[t][l],
         heap_end' = heap_end, forfeit' = forfeit
  PROVE  HeapInv'
  <1>1. Level(t) \in Nat /\ Level(t) = Len(frames[t])
    BY DEF HeapInv, TypeOK, Level
  <1>2. live' \subseteq live /\ live' \in SUBSET Storage /\ forfeit' \in BOOLEAN
    BY DEF HeapInv, TypeOK
  <1>3. \A a \in live' : (a.owner = t /\ a.kind \in AutoKinds) => a.bp <= level
    <2> SUFFICES ASSUME NEW a \in live', a.owner = t, a.kind \in AutoKinds
                 PROVE  a.bp <= level
      OBVIOUS
    <2>1. a \in live /\ a \notin DeadFrames(t, level)
      OBVIOUS
    <2>2. a.bp \in Nat
      BY <2>1, LiveBelow
    <2>3. QED
      BY <2>1, <2>2, <1>1 DEF DeadFrames
  <1>4. \A i \in 1 .. Len(heap_marks[t]) : \A a \in live' :
          (i \in drop /\ a.owner = t /\ a.kind \in AutoKinds)
            => End(a) <= heap_marks[t][i].mark
    <2> SUFFICES ASSUME NEW i \in 1 .. Len(heap_marks[t]), NEW a \in live',
                        i \in drop, a.owner = t, a.kind \in AutoKinds
                 PROVE  End(a) <= heap_marks[t][i].mark
      OBVIOUS
    <2>1. heap_marks[t][i].bp > level /\ heap_marks[t][i].bp \in Nat
      BY MarkTyped
    <2>2. a \in live /\ a.bp \in Nat /\ a.bp < heap_marks[t][i].bp
      BY <1>1, <1>2, <1>3, <2>1, LiveBelow
    <2>3. QED
      BY <2>2 DEF HeapInv, MarksProtectLive
  <1>5. /\ heap_ptr' \in Nat /\ heap_end' \in Nat
        /\ sorted_allocs' \in Seq(Alloc)
        /\ SortedAllocs' /\ LiveTracked' /\ HeapBounds'
        /\ heap_marks' \in [Threads -> Seq(Mark)]
        /\ \A u \in Threads \ {t} : heap_marks'[u] = heap_marks[u]
        /\ \E n \in 0 .. Len(heap_marks[t]) :
             /\ Remain(Len(heap_marks[t]), drop, n)
             /\ Len(heap_marks'[t]) = n
             /\ \A i \in 1 .. n : heap_marks'[t][i] = heap_marks[t][i]
    BY <1>2, <1>4, UnwindPreserves
  <1>6. PICK n \in 0 .. Len(heap_marks[t]) :
          /\ Remain(Len(heap_marks[t]), drop, n)
          /\ Len(heap_marks'[t]) = n
          /\ \A i \in 1 .. n : heap_marks'[t][i] = heap_marks[t][i]
    BY <1>5
  <1>7. MarksOrdered' /\ MarksProtectLive' /\ LiveScoped'
    <2>1. \A i \in 1 .. Len(heap_marks'[t]) :
            heap_marks'[t][i] = heap_marks[t][i] /\ heap_marks[t][i].bp <= Len(frames'[t])
      BY <1>6
    <2>2. Len(heap_marks'[t]) <= Len(heap_marks[t])
      BY <1>6
    <2>3. \A l \in 1 .. Len(frames'[t]) :
            l <= Len(frames[t]) /\ frames'[t][l] <= frames[t][l]
      BY <1>1
    <2>4. \A a \in live' : (a.owner = t /\ a.kind \in AutoKinds)
                              => a.bp <= Len(frames'[t])
      BY <1>3
    <2>5. QED
      BY <1>2, <1>5, <2>1, <2>2, <2>3, <2>4, ThreadShrink
  <1>8. QED
    BY <1>2, <1>5, <1>7 DEF HeapInv, TypeOK

\* LEV3 rewinds to the oldest mark of the frame it retires.
LEMMA ReturnStep ==
  ASSUME HeapInv, NEW t \in Threads, Return(t)
  PROVE  HeapInv'
  <1>1. /\ frames \in [Threads -> Seq(Nat)] /\ frames[t] \in Seq(Nat)
        /\ Level(t) \in Nat \ {0} /\ Level(t) = Len(frames[t])
    BY DEF HeapInv, TypeOK, Return, Level
  <1>2. Level(t) - 1 \in 0 .. Level(t) /\ Level(t) - 1 \in 0 .. Len(frames[t])
    BY <1>1
  <1>3. /\ Prefix(frames[t], Level(t) - 1) \in Seq(Nat)
        /\ Len(Prefix(frames[t], Level(t) - 1)) = Level(t) - 1
        /\ \A i \in 1 .. Level(t) - 1 : Prefix(frames[t], Level(t) - 1)[i] = frames[t][i]
    BY <1>1, <1>2, PrefixFacts
  <1>4. frames' = [frames EXCEPT ![t] = Prefix(frames[t], Level(t) - 1)]
    BY <1>1 DEF Return
  <1>5. /\ frames' \in [Threads -> Seq(Nat)]
        /\ Len(frames'[t]) = Level(t) - 1
        /\ \A i \in 1 .. Level(t) - 1 : frames'[t][i] <= frames[t][i]
        /\ \A u \in Threads \ {t} : frames'[u] = frames[u]
    BY <1>1, <1>3, <1>4
  <1>6. /\ live' \subseteq live \ DeadFrames(t, Level(t) - 1)
        /\ heap_end' = heap_end /\ forfeit' = forfeit
        /\ MarksUnwind(t, MarksAt(t, Level(t), -1))
    BY DEF Return, MarksPopFrame
  <1>7. \A i \in 1 .. Len(heap_marks[t]) :
          i \in MarksAt(t, Level(t), -1) => heap_marks[t][i].bp > Level(t) - 1
    BY <1>1 DEF MarksAt
  <1>8. ASSUME NEW n \in 0 .. Len(heap_marks[t]),
               Remain(Len(heap_marks[t]), MarksAt(t, Level(t), -1), n),
               NEW i \in 1 .. n
        PROVE  heap_marks[t][i].bp <= Level(t) - 1
    <2>1. i \in 1 .. Len(heap_marks[t])
      BY <1>8, MarkTyped
    <2>2. heap_marks[t][i].bp \in Nat /\ heap_marks[t][i].depth \in Nat \cup {-1}
      BY <2>1, MarkTyped
    <2>3. heap_marks[t][i].bp < Level(t)
      BY <1>8, <2>2, PoppedAt
    <2>4. QED
      BY <1>1, <2>2, <2>3
  <1>9. QED
    BY <1>2, <1>5, <1>6, <1>7, <1>8, UnwindStep

\* longjmp, thread exit and the start of a top-level run truncate to a level.
LEMMA TruncateStep ==
  ASSUME HeapInv, NEW t \in Threads, NEW level \in 0 .. Level(t),
         MarksTruncateTo(t, level),
         live' \subseteq live \ DeadFrames(t, level),
         frames' \in [Threads -> Seq(Nat)],
         \A u \in Threads \ {t} : frames'[u] = frames[u],
         Len(frames'[t]) = level,
         \A l \in 1 .. level : frames'[t][l] <= frames[t][l],
         heap_end' = heap_end, forfeit' = forfeit
  PROVE  HeapInv'
  <1>1. Level(t) \in Nat /\ level \in Nat
    BY DEF HeapInv, TypeOK, Level
  <1>2. \A i \in 1 .. Len(heap_marks[t]) :
          i \in MarksBelow(t, level) => heap_marks[t][i].bp > level
    BY DEF MarksBelow
  <1>3. \A n \in 0 .. Len(heap_marks[t]) :
          Remain(Len(heap_marks[t]), MarksBelow(t, level), n) =>
            \A i \in 1 .. n : heap_marks[t][i].bp <= level
    BY <1>1, PoppedBelow
  <1>4. QED
    BY <1>2, <1>3, UnwindStep DEF MarksTruncateTo

\* longjmp truncates the thread's marks to those of the frames it keeps.
LEMMA LongJmpStep ==
  ASSUME HeapInv, NEW t \in Threads, NEW level \in 1 .. MaxFrames,
         NEW k \in 0 .. MaxBlocks, LongJmp(t, level, k)
  PROVE  HeapInv'
  <1>1. /\ frames \in [Threads -> Seq(Nat)] /\ frames[t] \in Seq(Nat)
        /\ Level(t) \in Nat /\ Level(t) = Len(frames[t])
        /\ level \in 1 .. Level(t) /\ level \in 0 .. Len(frames[t]) /\ k \in Nat
    BY HeapAssumption DEF HeapInv, TypeOK, LongJmp, Level
  <1>2. /\ Prefix(frames[t], level) \in Seq(Nat)
        /\ Len(Prefix(frames[t], level)) = level
        /\ \A i \in 1 .. level : Prefix(frames[t], level)[i] = frames[t][i]
    BY <1>1, PrefixFacts
  <1>3. /\ [Prefix(frames[t], level) EXCEPT ![level] = k] \in Seq(Nat)
        /\ Len([Prefix(frames[t], level) EXCEPT ![level] = k]) = level
        /\ \A i \in 1 .. level :
             [Prefix(frames[t], level) EXCEPT ![level] = k][i]
               = IF i = level THEN k ELSE frames[t][i]
    BY <1>1, <1>2
  <1>4. frames' = [frames EXCEPT ![t] = [Prefix(frames[t], level) EXCEPT ![level] = k]]
    BY DEF LongJmp
  <1>5. /\ frames' \in [Threads -> Seq(Nat)]
        /\ \A u \in Threads \ {t} : frames'[u] = frames[u]
        /\ frames'[t] = [Prefix(frames[t], level) EXCEPT ![level] = k]
    BY <1>1, <1>3, <1>4
  <1>6. \A l \in 1 .. level : frames'[t][l] <= frames[t][l]
    <2> SUFFICES ASSUME NEW l \in 1 .. level PROVE frames'[t][l] <= frames[t][l]
      OBVIOUS
    <2>1. frames[t][l] \in Nat /\ k <= frames[t][level]
      BY <1>1 DEF LongJmp
    <2>2. QED
      BY <1>3, <1>5, <2>1
  <1>7. /\ MarksTruncateTo(t, level)
        /\ live' \subseteq live \ DeadFrames(t, level)
        /\ heap_end' = heap_end /\ forfeit' = forfeit
    BY DEF LongJmp
  <1>8. level \in 0 .. Level(t)
    BY <1>1
  <1>9. QED
    BY <1>3, <1>5, <1>6, <1>7, <1>8, TruncateStep

\* A thread that exits unwinds all of its frames and marks.
LEMMA ThreadExitStep ==
  ASSUME HeapInv, NEW t \in Threads, ThreadExit(t)
  PROVE  HeapInv'
  <1>1. frames \in [Threads -> Seq(Nat)] /\ Level(t) \in Nat
    BY DEF HeapInv, TypeOK, Level
  <1>2. /\ frames' \in [Threads -> Seq(Nat)] /\ Len(frames'[t]) = 0
        /\ \A u \in Threads \ {t} : frames'[u] = frames[u]
    BY <1>1 DEF ThreadExit
  <1>3. /\ MarksTruncateTo(t, 0)
        /\ live' \subseteq live \ DeadFrames(t, 0)
        /\ heap_end' = heap_end /\ forfeit' = forfeit
    BY DEF ThreadExit
  <1>4. 0 \in 0 .. Level(t) /\ \A l \in 1 .. 0 : frames'[t][l] <= frames[t][l]
    BY <1>1
  <1>5. QED
    BY <1>2, <1>3, <1>4, TruncateStep

\* Lowering the number of open blocks of the innermost frame.
LEMMA InnermostFrames ==
  ASSUME HeapInv, NEW t \in Threads, Level(t) > 0, NEW k \in Nat,
         frames' = [frames EXCEPT ![t][Level(t)] = k]
  PROVE  /\ Level(t) \in Nat \ {0} /\ frames[t][Level(t)] \in Nat
         /\ frames' \in [Threads -> Seq(Nat)]
         /\ Len(frames'[t]) = Level(t) /\ Len(frames[t]) = Level(t)
         /\ \A l \in 1 .. Level(t) :
              frames'[t][l] = IF l = Level(t) THEN k ELSE frames[t][l]
         /\ \A u \in Threads \ {t} : frames'[u] = frames[u]
  <1>1. /\ frames \in [Threads -> Seq(Nat)] /\ frames[t] \in Seq(Nat)
        /\ Level(t) \in Nat \ {0} /\ Len(frames[t]) = Level(t)
    BY DEF HeapInv, TypeOK, Level
  <1>2. frames[t][Level(t)] \in Nat /\ Level(t) \in 1 .. Len(frames[t])
    BY <1>1
  <1>3. /\ [frames[t] EXCEPT ![Level(t)] = k] \in Seq(Nat)
        /\ Len([frames[t] EXCEPT ![Level(t)] = k]) = Level(t)
        /\ \A l \in 1 .. Level(t) :
             [frames[t] EXCEPT ![Level(t)] = k][l]
               = IF l = Level(t) THEN k ELSE frames[t][l]
    BY <1>1, <1>2
  <1>4. frames' = [frames EXCEPT ![t] = [frames[t] EXCEPT ![Level(t)] = k]]
    OBVIOUS
  <1>5. QED
    BY <1>1, <1>2, <1>3, <1>4

\* Leaving blocks of the innermost frame, whether or not a mark was found.
LEMMA LeaveBlocks ==
  ASSUME HeapInv, NEW t \in Threads, Level(t) > 0, NEW k \in Nat,
         k <= frames[t][Level(t)],
         frames' = [frames EXCEPT ![t][Level(t)] = k],
         live' \subseteq live,
         heap_marks' \in [Threads -> Seq(Mark)],
         \A u \in Threads \ {t} : heap_marks'[u] = heap_marks[u],
         Len(heap_marks'[t]) <= Len(heap_marks[t]),
         \A i \in 1 .. Len(heap_marks'[t]) : heap_marks'[t][i] = heap_marks[t][i]
  PROVE  MarksOrdered' /\ MarksProtectLive' /\ LiveScoped'
  <1>1. /\ Level(t) \in Nat \ {0} /\ frames[t][Level(t)] \in Nat
        /\ frames' \in [Threads -> Seq(Nat)]
        /\ Len(frames'[t]) = Level(t) /\ Len(frames[t]) = Level(t)
        /\ \A l \in 1 .. Level(t) :
             frames'[t][l] = IF l = Level(t) THEN k ELSE frames[t][l]
        /\ \A u \in Threads \ {t} : frames'[u] = frames[u]
    BY InnermostFrames
  <1>2. \A i \in 1 .. Len(heap_marks'[t]) :
          heap_marks'[t][i] = heap_marks[t][i] /\ heap_marks[t][i].bp <= Len(frames'[t])
    <2> SUFFICES ASSUME NEW i \in 1 .. Len(heap_marks'[t])
                 PROVE  heap_marks[t][i].bp <= Len(frames'[t])
      OBVIOUS
    <2>1. Len(heap_marks[t]) \in Nat /\ Len(heap_marks'[t]) \in Nat
      BY DEF HeapInv, TypeOK
    <2>2. i \in 1 .. Len(heap_marks[t])
      BY <2>1
    <2>3. QED
      BY <1>1, <2>2, MarkTyped
  <1>3. \A l \in 1 .. Len(frames'[t]) :
          l <= Len(frames[t]) /\ frames'[t][l] <= frames[t][l]
    <2>1. frames[t] \in Seq(Nat)
      BY DEF HeapInv, TypeOK
    <2>2. \A l \in 1 .. Level(t) : frames[t][l] \in Nat
      BY <1>1, <2>1
    <2>3. QED
      BY <1>1, <2>2
  <1>4. \A a \in live' : (a.owner = t /\ a.kind \in AutoKinds) => a.bp <= Len(frames'[t])
    BY <1>1 DEF HeapInv, LiveScoped
  <1>5. QED
    BY <1>1, <1>2, <1>3, <1>4, ThreadShrink

\* HREL: the mark found belongs to the block being left, which is open, so it
\* lies above every VLA of an enclosing block or frame.
LEMMA ExitBlockStep ==
  ASSUME HeapInv, NEW t \in Threads, ExitBlock(t)
  PROVE  HeapInv'
  <1> DEFINE k == frames[t][Level(t)] - 1
  <1>1. /\ Level(t) > 0 /\ frames[t][Level(t)] > 0
        /\ MarksRelease(t, k)
        /\ frames' = [frames EXCEPT ![t][Level(t)] = k]
        /\ live' = live \ DeadBlocks(t, Level(t), k)
        /\ heap_end' = heap_end /\ forfeit' = forfeit
    BY DEF ExitBlock
  <1>2. /\ Level(t) \in Nat \ {0} /\ frames[t][Level(t)] \in Nat /\ k \in Nat
        /\ k < frames[t][Level(t)] /\ k <= frames[t][Level(t)]
    <2>1. frames[t] \in Seq(Nat) /\ Level(t) = Len(frames[t])
      BY DEF HeapInv, TypeOK, Level
    <2>2. Level(t) \in 1 .. Len(frames[t])
      BY <1>1, <2>1
    <2>3. QED
      BY <1>1, <2>1, <2>2
  <1> HIDE DEF k
  <1>3. live' \subseteq live /\ live' \in SUBSET Storage /\ forfeit' \in BOOLEAN
    BY <1>1 DEF HeapInv, TypeOK
  <1>4. heap_marks \in [Threads -> Seq(Mark)] /\ heap_marks[t] \in Seq(Mark)
    BY DEF HeapInv, TypeOK
  <1>5. /\ heap_ptr' \in Nat /\ heap_end' \in Nat
        /\ sorted_allocs' \in Seq(Alloc)
        /\ SortedAllocs' /\ LiveTracked' /\ HeapBounds'
        /\ heap_marks' \in [Threads -> Seq(Mark)]
        /\ \A u \in Threads \ {t} : heap_marks'[u] = heap_marks[u]
        /\ Len(heap_marks'[t]) <= Len(heap_marks[t])
        /\ \A i \in 1 .. Len(heap_marks'[t]) : heap_marks'[t][i] = heap_marks[t][i]
    <2>1. CASE UNCHANGED <<heap_ptr, sorted_allocs, heap_marks>>
      BY <1>1, <1>3, <1>4, <2>1
         DEF HeapInv, TypeOK, SortedAllocs, LiveTracked, HeapBounds
    <2>2. ASSUME NEW i \in MarksFound(t, k),
                 heap_marks' = [heap_marks EXCEPT ![t] = Prefix(@, i - 1)],
                 RewindTo(t, heap_marks[t][i].mark, {"FRAME"})
          PROVE  /\ heap_ptr' \in Nat /\ heap_end' \in Nat
                 /\ sorted_allocs' \in Seq(Alloc)
                 /\ SortedAllocs' /\ LiveTracked' /\ HeapBounds'
                 /\ heap_marks' \in [Threads -> Seq(Mark)]
                 /\ \A u \in Threads \ {t} : heap_marks'[u] = heap_marks[u]
                 /\ Len(heap_marks'[t]) <= Len(heap_marks[t])
                 /\ \A j \in 1 .. Len(heap_marks'[t]) :
                      heap_marks'[t][j] = heap_marks[t][j]
      <3>1. i \in 1 .. Len(heap_marks[t]) /\ heap_marks[t][i].depth = k
        BY <2>2 DEF MarksFound
      <3>2. heap_marks[t][i].bp = Level(t)
        <4>1. i \in i .. Len(heap_marks[t])
          BY <3>1
        <4>2. QED
          BY <2>2, <4>1 DEF MarksFound
      <3>3. heap_marks[t][i].mark \in Nat
        BY <3>1, MarkTyped
      <3>4. \A a \in live' : (a.owner = t /\ a.kind \in {"FRAME"})
                                => End(a) <= heap_marks[t][i].mark
        <4> SUFFICES ASSUME NEW a \in live', a.owner = t, a.kind = "FRAME"
                     PROVE  End(a) <= heap_marks[t][i].mark
          OBVIOUS
        <4>1. /\ a \in live /\ a \notin DeadBlocks(t, Level(t), k)
              /\ a.bp \in Nat /\ a.blk \in Int /\ a.kind \in AutoKinds
          BY <1>1, LiveBelow DEF AutoKinds
        <4>2. a.bp <= Level(t)
          BY <4>1 DEF HeapInv, LiveScoped
        <4>3. a.bp = Level(t) => a.blk < k
          BY <1>2, <4>1 DEF DeadBlocks
        <4>4. \/ a.bp < heap_marks[t][i].bp
              \/ /\ a.bp = heap_marks[t][i].bp
                 /\ heap_marks[t][i].depth < frames[t][heap_marks[t][i].bp]
                 /\ a.blk < heap_marks[t][i].depth
          BY <1>2, <3>1, <3>2, <4>1, <4>2, <4>3
        <4>5. QED
          BY <3>1, <4>1, <4>4 DEF HeapInv, MarksProtectLive
      <3>5. /\ heap_ptr' \in Nat /\ heap_end' \in Nat
            /\ sorted_allocs' \in Seq(Alloc)
            /\ SortedAllocs' /\ LiveTracked' /\ HeapBounds'
        BY <1>1, <1>3, <2>2, <3>3, <3>4, RewindPreserves
      <3>6. i - 1 \in 0 .. Len(heap_marks[t])
        BY <1>4, <3>1
      <3>7. /\ Prefix(heap_marks[t], i - 1) \in Seq(Mark)
            /\ Len(Prefix(heap_marks[t], i - 1)) = i - 1
            /\ \A j \in 1 .. i - 1 : Prefix(heap_marks[t], i - 1)[j] = heap_marks[t][j]
        BY <1>4, <3>6, PrefixFacts
      <3>8. heap_marks'[t] = Prefix(heap_marks[t], i - 1)
        BY <1>4, <2>2
      <3>9. /\ heap_marks' \in [Threads -> Seq(Mark)]
            /\ \A u \in Threads \ {t} : heap_marks'[u] = heap_marks[u]
        BY <1>4, <2>2, <3>7
      <3>10. QED
        BY <3>5, <3>6, <3>7, <3>8, <3>9
    <2>3. QED
      BY <1>1, <2>1, <2>2 DEF MarksRelease
  <1>6. MarksOrdered' /\ MarksProtectLive' /\ LiveScoped'
    BY <1>1, <1>2, <1>3, <1>5, LeaveBlocks
  <1>7. frames' \in [Threads -> Seq(Nat)]
    BY <1>1, <1>2, InnermostFrames
  <1>8. QED
    BY <1>3, <1>5, <1>6, <1>7 DEF HeapInv, TypeOK

\* break, continue and goto leave the heap and the marks alone.
LEMMA JumpOutStep ==
  ASSUME HeapInv, NEW t \in Threads, NEW k \in 0 .. MaxBlocks, NEW S,
         JumpOut(t, k, S)
  PROVE  HeapInv'
  <1>1. /\ Level(t) > 0 /\ k \in Nat /\ k <= frames[t][Level(t)]
        /\ frames' = [frames EXCEPT ![t][Level(t)] = k]
        /\ live' \subseteq live
        /\ UNCHANGED <<heap_ptr, heap_end, sorted_allocs, heap_marks, forfeit>>
    BY HeapAssumption DEF JumpOut
  <1>2. /\ heap_marks' \in [Threads -> Seq(Mark)]
        /\ \A u \in Threads \ {t} : heap_marks'[u] = heap_marks[u]
        /\ Len(heap_marks'[t]) <= Len(heap_marks[t])
        /\ \A i \in 1 .. Len(heap_marks'[t]) : heap_marks'[t][i] = heap_marks[t][i]
    BY <1>1 DEF HeapInv, TypeOK
  <1>3. MarksOrdered' /\ MarksProtectLive' /\ LiveScoped'
    BY <1>1, <1>2, LeaveBlocks
  <1>4. frames' \in [Threads -> Seq(Nat)]
    BY <1>1, InnermostFrames
  <1>5. SortedAllocs' /\ LiveTracked' /\ HeapBounds'
    BY <1>1 DEF HeapInv, SortedAllocs, LiveTracked, HeapBounds
  <1>6. QED
    BY <1>1, <1>2, <1>3, <1>4, <1>5 DEF HeapInv, TypeOK

\* free marks a block and ends the lifetime of the storage in it.
LEMMA FreeStep ==
  ASSUME HeapInv, NEW i \in 1 .. MaxAllocs, Free(i)
  PROVE  HeapInv'
  <1>1. /\ i \in 1 .. Len(sorted_allocs)
        /\ sorted_allocs' = [sorted_allocs EXCEPT ![i].freed = TRUE]
        /\ live' = {a \in live : a.base # sorted_allocs[i].base}
        /\ UNCHANGED <<heap_ptr, heap_end, heap_marks, frames, forfeit>>
        /\ sorted_allocs \in Seq(Alloc)
    BY DEF Free, HeapInv, TypeOK
  <1>2. sorted_allocs[i] \in Alloc
    BY <1>1
  <1>3. [sorted_allocs[i] EXCEPT !.freed = TRUE] \in Alloc
    BY <1>2 DEF Alloc
  <1>4. /\ sorted_allocs' \in Seq(Alloc)
        /\ Len(sorted_allocs') = Len(sorted_allocs)
        /\ \A j \in 1 .. Len(sorted_allocs) :
             sorted_allocs'[j] = IF j = i THEN [sorted_allocs[i] EXCEPT !.freed = TRUE]
                                 ELSE sorted_allocs[j]
    BY <1>1, <1>3
  <1>5. \A j \in 1 .. Len(sorted_allocs) :
          /\ sorted_allocs'[j].base = sorted_allocs[j].base
          /\ sorted_allocs'[j].size = sorted_allocs[j].size
          /\ sorted_allocs'[j].kind = sorted_allocs[j].kind
          /\ sorted_allocs'[j].owner = sorted_allocs[j].owner
          /\ j # i => sorted_allocs'[j] = sorted_allocs[j]
    BY <1>2, <1>4, ZenonT(30) DEF Alloc
  <1>6. SortedAllocs'
    <2>1. \A j \in 1 .. Len(sorted_allocs) :
            End(sorted_allocs'[j]) = End(sorted_allocs[j])
      BY <1>5 DEF End
    <2>2. \A j, l \in 1 .. Len(sorted_allocs) :
            j < l => End(sorted_allocs'[j]) <= sorted_allocs'[l].base - Header
      BY <1>5, <2>1 DEF HeapInv, SortedAllocs
    <2>3. \A j \in 1 .. Len(sorted_allocs) : End(sorted_allocs'[j]) <= heap_ptr'
      BY <1>1, <2>1 DEF HeapInv, SortedAllocs
    <2>4. QED
      BY <1>4, <2>2, <2>3 DEF SortedAllocs, End
  <1>7. LiveTracked'
    <2> SUFFICES ASSUME NEW a \in live'
        PROVE \E j \in 1 .. Len(sorted_allocs') :
                /\ sorted_allocs'[j].base = a.base /\ sorted_allocs'[j].size = a.size
                /\ sorted_allocs'[j].kind = a.kind /\ sorted_allocs'[j].owner = a.owner
                /\ ~ sorted_allocs'[j].freed
      BY DEF LiveTracked
    <2>1. a \in live /\ a.base # sorted_allocs[i].base
      BY <1>1
    <2>2. PICK j \in 1 .. Len(sorted_allocs) :
            /\ sorted_allocs[j].base = a.base /\ sorted_allocs[j].size = a.size
            /\ sorted_allocs[j].kind = a.kind /\ sorted_allocs[j].owner = a.owner
            /\ ~ sorted_allocs[j].freed
      BY <2>1 DEF HeapInv, LiveTracked
    <2>3. j # i
      BY <2>1, <2>2
    <2>4. QED
      BY <1>4, <1>5, <2>2, <2>3
  <1>8. live' \subseteq live
    BY <1>1
  <1>9. MarksOrdered' /\ MarksProtectLive' /\ LiveScoped'
    BY <1>1, <1>8, SMTT(30) DEF HeapInv, MarksOrdered, MarksProtectLive, LiveScoped, Level
  <1>10. QED
    BY <1>1, <1>4, <1>6, <1>7, <1>8, <1>9 DEF HeapInv, TypeOK, HeapBounds

-----------------------------------------------------------------------------
(* The actions that push marks *)

\* What a mark of thread t must not reclaim, for a given count of open blocks.
Protects(m, a, open) ==
  /\ a.bp < m.bp => End(a) <= m.mark
  /\ (/\ a.bp = m.bp /\ a.kind = "FRAME" /\ m.depth < open /\ a.blk < m.depth)
       => End(a) <= m.mark

\* MarksProtectLive in terms of Protects.
LEMMA ProtectsLive ==
  /\ MarksProtectLive <=>
       \A t \in Threads : \A i \in 1 .. Len(heap_marks[t]) : \A a \in live :
         (a.owner = t /\ a.kind \in AutoKinds)
           => Protects(heap_marks[t][i], a, frames[t][heap_marks[t][i].bp])
  /\ MarksProtectLive' <=>
       \A t \in Threads : \A i \in 1 .. Len(heap_marks'[t]) : \A a \in live' :
         (a.owner = t /\ a.kind \in AutoKinds)
           => Protects(heap_marks'[t][i], a, frames'[t][heap_marks'[t][i].bp])
  BY DEF MarksProtectLive, Protects, End

\* One thread's marks: ordered, and of active frames.
Ordered(s, level) ==
  /\ \A i \in 1 .. Len(s) : s[i].bp <= level
  /\ \A i, j \in 1 .. Len(s) : i < j =>
       s[i].bp < s[j].bp \/ (s[i].bp = s[j].bp /\ s[i].depth < s[j].depth)

\* MarksOrdered in terms of Ordered.
LEMMA OrderedMarks ==
  /\ MarksOrdered <=> \A t \in Threads : Ordered(heap_marks[t], Len(frames[t]))
  /\ MarksOrdered' <=> \A t \in Threads : Ordered(heap_marks'[t], Len(frames'[t]))
  BY DEF MarksOrdered, Ordered, Level

\* A new mark, taken from the bump pointer, lies above all live storage; the
\* marks kept below it must be those of outer frames and enclosing blocks.
LEMMA PushPreserves ==
  ASSUME HeapInv, NEW t \in Threads, NEW n \in 0 .. Len(heap_marks[t]), NEW ok,
         NEW bp \in Nat \ {0}, NEW depth \in Nat \cup {-1},
         heap_marks' = [heap_marks EXCEPT ![t] =
           IF ok THEN Append(Prefix(@, n),
                             [bp |-> bp, depth |-> depth, mark |-> heap_ptr])
                 ELSE Prefix(@, n)],
         frames' \in [Threads -> Seq(Nat)],
         \A u \in Threads \ {t} : frames'[u] = frames[u],
         Len(frames'[t]) = bp,
         \A a \in live' : End(a) <= heap_ptr /\ (a.owner # t => a \in live),
         \A i \in 1 .. n :
           \/ heap_marks[t][i].bp < bp
           \/ heap_marks[t][i].bp = bp /\ heap_marks[t][i].depth < depth,
         \A i \in 1 .. n : \A a \in live' :
           (a.owner = t /\ a.kind \in AutoKinds)
             => Protects(heap_marks[t][i], a, frames'[t][heap_marks[t][i].bp])
  PROVE  /\ heap_marks' \in [Threads -> Seq(Mark)]
         /\ MarksOrdered' /\ MarksProtectLive'
  <1> DEFINE new == [bp |-> bp, depth |-> depth, mark |-> heap_ptr]
  <1>1. /\ heap_marks \in [Threads -> Seq(Mark)] /\ heap_marks[t] \in Seq(Mark)
        /\ heap_ptr \in Nat /\ new \in Mark
    BY DEF HeapInv, TypeOK, Mark
  <1>2. /\ Prefix(heap_marks[t], n) \in Seq(Mark)
        /\ Len(Prefix(heap_marks[t], n)) = n
        /\ \A i \in 1 .. n : Prefix(heap_marks[t], n)[i] = heap_marks[t][i]
    BY <1>1, PrefixFacts
  <1>3. new.bp = bp /\ new.depth = depth /\ new.mark = heap_ptr
    OBVIOUS
  <1> HIDE DEF new
  <1>4. /\ Append(Prefix(heap_marks[t], n), new) \in Seq(Mark)
        /\ Len(Append(Prefix(heap_marks[t], n), new)) = n + 1
        /\ \A i \in 1 .. n : Append(Prefix(heap_marks[t], n), new)[i] = heap_marks[t][i]
        /\ Append(Prefix(heap_marks[t], n), new)[n + 1] = new
    <2> DEFINE pre == Prefix(heap_marks[t], n)
    <2>1. pre \in Seq(Mark) /\ Len(pre) = n /\ \A i \in 1 .. n : pre[i] = heap_marks[t][i]
      BY <1>2
    <2> HIDE DEF pre
    <2>2. /\ Append(pre, new) \in Seq(Mark)
          /\ Len(Append(pre, new)) = Len(pre) + 1
          /\ \A i \in 1 .. Len(pre) : Append(pre, new)[i] = pre[i]
          /\ Append(pre, new)[Len(pre) + 1] = new
      BY ONLY <1>1, <2>1, AppendFacts
    <2>3. QED
      BY <2>1, <2>2 DEF pre
  <1>5. /\ heap_marks' \in [Threads -> Seq(Mark)]
        /\ \A u \in Threads \ {t} : heap_marks'[u] = heap_marks[u]
        /\ heap_marks'[t] = IF ok THEN Append(Prefix(heap_marks[t], n), new)
                            ELSE Prefix(heap_marks[t], n)
    BY <1>1, <1>2, <1>4 DEF new
  <1>6. \A i \in 1 .. Len(heap_marks'[t]) :
          \/ i \in 1 .. n /\ heap_marks'[t][i] = heap_marks[t][i]
          \/ i = n + 1 /\ heap_marks'[t][i] = new
    <2>1. CASE ok
      BY <1>4, <1>5, <2>1
    <2>2. CASE ~ ok
      BY <1>2, <1>5, <2>2
    <2>3. QED
      BY <2>1, <2>2
  <1>7. \A i \in 1 .. n : /\ i \in 1 .. Len(heap_marks[t])
                          /\ heap_marks[t][i].bp \in Nat
                          /\ heap_marks[t][i].depth \in Int
    <2> SUFFICES ASSUME NEW i \in 1 .. n
                 PROVE  /\ i \in 1 .. Len(heap_marks[t])
                        /\ heap_marks[t][i].bp \in Nat
                        /\ heap_marks[t][i].depth \in Int
      OBVIOUS
    <2>1. i \in 1 .. Len(heap_marks[t])
      BY <1>1
    <2>2. QED
      BY <2>1, MarkTyped
  <1>8. MarksOrdered'
    <2>1. ASSUME NEW u \in Threads \ {t}
          PROVE  Ordered(heap_marks'[u], Len(frames'[u]))
      <3>1. heap_marks'[u] = heap_marks[u] /\ frames'[u] = frames[u]
        BY <1>5, <2>1
      <3>2. QED
        BY <3>1, OrderedMarks DEF HeapInv
    <2>2. ASSUME NEW i \in 1 .. Len(heap_marks'[t])
          PROVE  heap_marks'[t][i].bp <= bp
      <3>1. CASE i \in 1 .. n /\ heap_marks'[t][i] = heap_marks[t][i]
        <4>1. heap_marks[t][i].bp < bp \/ heap_marks[t][i].bp = bp
          BY <3>1
        <4>2. heap_marks[t][i].bp \in Nat
          BY <1>7, <3>1
        <4>3. QED
          BY <3>1, <4>1, <4>2
      <3>2. CASE heap_marks'[t][i] = new
        BY <1>3, <3>2
      <3>3. QED
        BY <1>6, <3>1, <3>2
    <2>3. ASSUME NEW i \in 1 .. Len(heap_marks'[t]),
                 NEW j \in 1 .. Len(heap_marks'[t]), i < j
          PROVE  \/ heap_marks'[t][i].bp < heap_marks'[t][j].bp
                 \/ /\ heap_marks'[t][i].bp = heap_marks'[t][j].bp
                    /\ heap_marks'[t][i].depth < heap_marks'[t][j].depth
      <3>1. Len(heap_marks'[t]) \in Nat
        BY <1>5
      <3>2. i \in 1 .. n /\ heap_marks'[t][i] = heap_marks[t][i]
        BY <1>6, <2>3, <3>1
      <3>3. CASE j \in 1 .. n /\ heap_marks'[t][j] = heap_marks[t][j]
        <4>1. Ordered(heap_marks[t], Len(frames[t]))
          BY OrderedMarks DEF HeapInv
        <4>2. i \in 1 .. Len(heap_marks[t]) /\ j \in 1 .. Len(heap_marks[t])
          BY <1>7, <3>2, <3>3
        <4>3. QED
          BY <2>3, <3>2, <3>3, <4>1, <4>2, SMTT(30) DEF Ordered
      <3>4. CASE j = n + 1 /\ heap_marks'[t][j] = new
        BY <1>3, <3>2, <3>4
      <3>5. QED
        BY <1>6, <3>3, <3>4
    <2>4. Ordered(heap_marks'[t], Len(frames'[t]))
      <3>1. Ordered(heap_marks'[t], bp)
        BY ONLY <2>2, <2>3 DEF Ordered
      <3>2. QED
        BY <3>1
    <2>5. QED
      BY <2>1, <2>4, OrderedMarks
  <1>9. MarksProtectLive'
    <2> SUFFICES ASSUME NEW u \in Threads, NEW i \in 1 .. Len(heap_marks'[u]),
                        NEW a \in live', a.owner = u, a.kind \in AutoKinds
        PROVE  Protects(heap_marks'[u][i], a, frames'[u][heap_marks'[u][i].bp])
      BY ProtectsLive
    <2>1. CASE u # t
      <3>1. heap_marks'[u] = heap_marks[u] /\ frames'[u] = frames[u] /\ a \in live
        BY <1>5, <2>1
      <3>2. QED
        BY <3>1, ProtectsLive DEF HeapInv
    <2>2. CASE u = t /\ heap_marks'[u][i] = new
      BY <1>3, <2>2 DEF Protects
    <2>3. CASE u = t /\ i \in 1 .. n /\ heap_marks'[u][i] = heap_marks[u][i]
      BY <2>3
    <2>4. QED
      BY <1>6, <2>1, <2>2, <2>3
  <1>10. QED
    BY <1>5, <1>8, <1>9

\* ENT3 pushes the mark of a new frame.
LEMMA CallStep ==
  ASSUME HeapInv, NEW t \in Threads, NEW ok \in MarkRecorded, Call(t, ok)
  PROVE  HeapInv'
  <1>1. /\ frames \in [Threads -> Seq(Nat)] /\ frames[t] \in Seq(Nat)
        /\ Level(t) \in Nat /\ Level(t) = Len(frames[t])
        /\ frames' = [frames EXCEPT ![t] = Append(frames[t], 0)]
        /\ UNCHANGED <<heap_ptr, heap_end, sorted_allocs, live>>
        /\ forfeit' \in BOOLEAN
    BY DEF HeapInv, TypeOK, Level, Call, MarksPush
  <1>2. /\ Append(frames[t], 0) \in Seq(Nat)
        /\ Len(Append(frames[t], 0)) = Level(t) + 1
        /\ \A l \in 1 .. Level(t) : Append(frames[t], 0)[l] = frames[t][l]
    BY ONLY <1>1, AppendFacts
  <1>3. /\ frames' \in [Threads -> Seq(Nat)]
        /\ \A u \in Threads \ {t} : frames'[u] = frames[u]
        /\ Len(frames'[t]) = Level(t) + 1
        /\ \A l \in 1 .. Level(t) : frames'[t][l] = frames[t][l]
    BY <1>1, <1>2
  <1>4. PICK n \in 0 .. Len(heap_marks[t]) :
          heap_marks' = [heap_marks EXCEPT ![t] =
            IF ok THEN Append(Prefix(@, n),
                        [bp |-> Level(t) + 1, depth |-> -1, mark |-> heap_ptr])
                  ELSE Prefix(@, n)]
    BY DEF Call, MarksPush
  <1>5. \A i \in 1 .. n : heap_marks[t][i].bp \in 1 .. Level(t) /\ i \in 1 .. Len(heap_marks[t])
    <2> SUFFICES ASSUME NEW i \in 1 .. n
                 PROVE  heap_marks[t][i].bp \in 1 .. Level(t)
                        /\ i \in 1 .. Len(heap_marks[t])
      OBVIOUS
    <2>1. Len(heap_marks[t]) \in Nat
      BY DEF HeapInv, TypeOK
    <2>2. i \in 1 .. Len(heap_marks[t])
      BY <2>1
    <2>3. QED
      BY <1>1, <2>2, MarkTyped
  <1>6. \A i \in 1 .. n : \A a \in live' :
          (a.owner = t /\ a.kind \in AutoKinds)
            => Protects(heap_marks[t][i], a, frames'[t][heap_marks[t][i].bp])
    <2>1. \A i \in 1 .. n : frames'[t][heap_marks[t][i].bp] = frames[t][heap_marks[t][i].bp]
      BY <1>3, <1>5
    <2>2. QED
      BY <1>1, <1>5, <2>1, ProtectsLive DEF HeapInv
  <1>7. \A a \in live' : End(a) <= heap_ptr /\ (a.owner # t => a \in live)
    BY <1>1, LiveBelow
  <1>8. \A i \in 1 .. n : heap_marks[t][i].bp < Level(t) + 1
    BY <1>1, <1>5
  <1>9. /\ heap_marks' \in [Threads -> Seq(Mark)]
        /\ MarksOrdered' /\ MarksProtectLive'
    <2>1. Level(t) + 1 \in Nat \ {0} /\ -1 \in Nat \cup {-1}
      BY <1>1
    <2>2. QED
      BY <1>3, <1>4, <1>6, <1>7, <1>8, <2>1, PushPreserves
  <1>10. LiveScoped'
    <2>1. \A u \in Threads : Len(frames'[u]) >= Len(frames[u])
      BY <1>1, <1>3
    <2>2. ASSUME NEW a \in live', a.kind \in AutoKinds
          PROVE  a.bp <= Len(frames'[a.owner])
      <3>1. a \in live /\ a.owner \in Threads /\ a.bp \in Nat
        BY <1>1, <2>2, LiveBelow
      <3>2. a.bp <= Len(frames[a.owner])
        BY <2>2, <3>1 DEF HeapInv, LiveScoped, Level
      <3>3. Len(frames[a.owner]) \in Nat /\ Len(frames'[a.owner]) \in Nat
        BY <1>1, <1>3, <3>1
      <3>4. QED
        BY <2>1, <3>1, <3>2, <3>3
    <2>3. QED
      BY <1>1, <2>2 DEF HeapInv, LiveScoped, Level
  <1>11. SortedAllocs' /\ LiveTracked' /\ HeapBounds'
    BY <1>1 DEF HeapInv, SortedAllocs, LiveTracked, HeapBounds
  <1>12. QED
    BY <1>1, <1>3, <1>9, <1>10, <1>11 DEF HeapInv, TypeOK

\* HMRK pushes the mark of a block, above those of the enclosing blocks.
LEMMA EnterBlockStep ==
  ASSUME HeapInv, NEW t \in Threads, NEW ok \in MarkRecorded, EnterBlock(t, ok)
  PROVE  HeapInv'
  <1> DEFINE d == frames[t][Level(t)]
  <1>1. /\ Level(t) > 0
        /\ frames' = [frames EXCEPT ![t][Level(t)] = d + 1]
        /\ UNCHANGED <<heap_ptr, heap_end, sorted_allocs, live>>
        /\ forfeit' \in BOOLEAN
        /\ MarksPush(t, Level(t), d, ok)
    BY DEF HeapInv, TypeOK, EnterBlock, MarksPush
  <1>2. Level(t) \in Nat \ {0} /\ d \in Nat
    <2>1. frames[t] \in Seq(Nat) /\ Level(t) = Len(frames[t])
      BY DEF HeapInv, TypeOK, Level
    <2>2. Level(t) \in 1 .. Len(frames[t])
      BY <1>1, <2>1
    <2>3. QED
      BY <1>1, <2>1, <2>2
  <1>3. frames[t][Level(t)] = d
    OBVIOUS
  <1> HIDE DEF d
  <1>4. /\ frames' \in [Threads -> Seq(Nat)]
        /\ Len(frames'[t]) = Level(t) /\ Len(frames[t]) = Level(t)
        /\ \A l \in 1 .. Level(t) :
             frames'[t][l] = IF l = Level(t) THEN d + 1 ELSE frames[t][l]
        /\ \A u \in Threads \ {t} : frames'[u] = frames[u]
    <2>1. d + 1 \in Nat
      BY <1>2
    <2>2. QED
      BY <1>1, <2>1, InnermostFrames
  <1>5. PICK n \in 0 .. Len(heap_marks[t]) :
          /\ Remain(Len(heap_marks[t]), MarksAt(t, Level(t), d), n)
          /\ heap_marks' = [heap_marks EXCEPT ![t] =
               IF ok THEN Append(Prefix(@, n),
                           [bp |-> Level(t), depth |-> d, mark |-> heap_ptr])
                     ELSE Prefix(@, n)]
    BY <1>1 DEF MarksPush
  <1>6. \A i \in 1 .. n :
          /\ i \in 1 .. Len(heap_marks[t])
          /\ heap_marks[t][i].bp \in 1 .. Level(t) /\ heap_marks[t][i].depth \in Int
          /\ \/ heap_marks[t][i].bp < Level(t)
             \/ heap_marks[t][i].bp = Level(t) /\ heap_marks[t][i].depth < d
    <2> SUFFICES ASSUME NEW i \in 1 .. n
                 PROVE  /\ i \in 1 .. Len(heap_marks[t])
                        /\ heap_marks[t][i].bp \in 1 .. Level(t)
                        /\ heap_marks[t][i].depth \in Int
                        /\ \/ heap_marks[t][i].bp < Level(t)
                           \/ heap_marks[t][i].bp = Level(t) /\ heap_marks[t][i].depth < d
      OBVIOUS
    <2>1. Len(heap_marks[t]) \in Nat
      BY DEF HeapInv, TypeOK
    <2>2. i \in 1 .. Len(heap_marks[t])
      BY <2>1
    <2>3. heap_marks[t][i].bp \in 1 .. Level(t) /\ heap_marks[t][i].depth \in Int
      BY <1>2, <2>2, MarkTyped
    <2>4. \/ heap_marks[t][i].bp < Level(t)
          \/ heap_marks[t][i].bp = Level(t) /\ heap_marks[t][i].depth < d
      BY <1>2, <1>5, PoppedAt
    <2>5. QED
      BY <2>2, <2>3, <2>4
  <1>7. \A i \in 1 .. n : \A a \in live' :
          (a.owner = t /\ a.kind \in AutoKinds)
            => Protects(heap_marks[t][i], a, frames'[t][heap_marks[t][i].bp])
    <2> SUFFICES ASSUME NEW i \in 1 .. n, NEW a \in live',
                        a.owner = t, a.kind \in AutoKinds
        PROVE  Protects(heap_marks[t][i], a, frames'[t][heap_marks[t][i].bp])
      OBVIOUS
    <2>1. Protects(heap_marks[t][i], a, frames[t][heap_marks[t][i].bp])
      BY <1>1, <1>6, ProtectsLive DEF HeapInv
    <2>2. CASE heap_marks[t][i].bp < Level(t)
      <3>1. frames'[t][heap_marks[t][i].bp] = frames[t][heap_marks[t][i].bp]
        <4>1. heap_marks[t][i].bp \in 1 .. Level(t) /\ heap_marks[t][i].bp # Level(t)
          BY <1>2, <1>6, <2>2
        <4>2. QED
          BY ONLY <1>4, <4>1
      <3>2. QED
        BY <2>1, <3>1
    <2>3. CASE heap_marks[t][i].bp = Level(t) /\ heap_marks[t][i].depth < d
      BY <1>3, <2>1, <2>3 DEF Protects
    <2>4. QED
      BY <1>6, <2>2, <2>3
  <1>8. \A a \in live' : End(a) <= heap_ptr /\ (a.owner # t => a \in live)
    BY <1>1, LiveBelow
  <1>9. /\ heap_marks' \in [Threads -> Seq(Mark)]
        /\ MarksOrdered' /\ MarksProtectLive'
    BY <1>2, <1>4, <1>5, <1>6, <1>7, <1>8, PushPreserves
  <1>10. LiveScoped'
    <2>1. \A u \in Threads : Len(frames'[u]) = Len(frames[u])
      BY <1>4
    <2>2. \A a \in live' : a.owner \in Threads
      BY <1>1, LiveBelow
    <2>3. QED
      BY <1>1, <2>1, <2>2 DEF HeapInv, LiveScoped, Level
  <1>11. SortedAllocs' /\ LiveTracked' /\ HeapBounds'
    BY <1>1 DEF HeapInv, SortedAllocs, LiveTracked, HeapBounds
  <1>12. QED
    BY <1>1, <1>4, <1>9, <1>10, <1>11 DEF HeapInv, TypeOK

\* CALLT drops the marks of the frame it reuses, so no mark can reclaim what
\* the reused frame inherits.
LEMMA TailCallStep ==
  ASSUME HeapInv, NEW t \in Threads, NEW ok \in MarkRecorded, TailCall(t, ok)
  PROVE  HeapInv'
  <1> DEFINE L == Level(t)
             D == DeadBlocks(t, Level(t), 0)
             up(a) == [a EXCEPT !.blk = -1]
  <1>1. /\ L > 0
        /\ frames' = [frames EXCEPT ![t] = Append(Prefix(frames[t], Len(frames[t]) - 1), 0)]
        /\ live' = (live \ D) \cup {up(a) : a \in D}
        /\ UNCHANGED <<heap_ptr, heap_end, sorted_allocs>>
        /\ forfeit' \in BOOLEAN
    BY DEF TailCall
  <1>2. /\ frames \in [Threads -> Seq(Nat)] /\ frames[t] \in Seq(Nat)
        /\ L \in Nat \ {0} /\ L = Len(frames[t]) /\ L - 1 \in 0 .. Len(frames[t])
    BY <1>1 DEF HeapInv, TypeOK, Level
  <1>3. PICK n \in 0 .. Len(heap_marks[t]) :
          /\ Remain(Len(heap_marks[t]), MarksAt(t, Level(t), -1), n)
          /\ heap_marks' = [heap_marks EXCEPT ![t] =
               IF ok THEN Append(Prefix(@, n),
                           [bp |-> L, depth |-> -1, mark |-> heap_ptr])
                     ELSE Prefix(@, n)]
    BY DEF TailCall
  <1>4. \A i \in 1 .. n :
          /\ i \in 1 .. Len(heap_marks[t])
          /\ heap_marks[t][i].bp \in Nat \ {0} /\ heap_marks[t][i].bp < L
    <2> SUFFICES ASSUME NEW i \in 1 .. n
                 PROVE  /\ i \in 1 .. Len(heap_marks[t])
                        /\ heap_marks[t][i].bp \in Nat \ {0}
                        /\ heap_marks[t][i].bp < L
      OBVIOUS
    <2>1. Len(heap_marks[t]) \in Nat
      BY DEF HeapInv, TypeOK
    <2>2. i \in 1 .. Len(heap_marks[t])
      BY <2>1
    <2>3. heap_marks[t][i].bp \in Nat \ {0} /\ heap_marks[t][i].depth \in Nat \cup {-1}
      BY <2>2, MarkTyped
    <2>4. heap_marks[t][i].bp < Level(t)
      BY <1>3, <2>3, PoppedAt
    <2>5. QED
      BY <2>2, <2>3, <2>4
  <1>5. \A a \in D : /\ a \in live /\ a.owner = t /\ a.kind = "FRAME" /\ a.bp = L
                     /\ up(a) \in Storage
                     /\ up(a).base = a.base /\ up(a).size = a.size
                     /\ up(a).kind = a.kind /\ up(a).owner = a.owner
                     /\ up(a).bp = a.bp
    <2>1. live \subseteq Storage
      BY DEF HeapInv, TypeOK
    <2>2. QED
      BY <2>1 DEF DeadBlocks, Storage
  <1> HIDE DEF L, D, up
  \* Every piece of storage after the step is one from before it, except for blk.
  <1>6. \A a \in live' : \E b \in live :
          /\ a.base = b.base /\ a.size = b.size /\ a.kind = b.kind
          /\ a.owner = b.owner /\ a.bp = b.bp
          /\ \/ a = b /\ b \notin D
             \/ a = up(b) /\ b \in D
    BY <1>1, <1>5
  <1>7. live' \in SUBSET Storage
    BY <1>1, <1>5 DEF HeapInv, TypeOK
  <1>8. /\ frames' \in [Threads -> Seq(Nat)]
        /\ \A u \in Threads \ {t} : frames'[u] = frames[u]
        /\ Len(frames'[t]) = L
        /\ \A l \in 1 .. L - 1 : frames'[t][l] = frames[t][l]
    <2> DEFINE pre == Prefix(frames[t], L - 1)
    <2>1. /\ pre \in Seq(Nat) /\ Len(pre) = L - 1
          /\ \A l \in 1 .. L - 1 : pre[l] = frames[t][l]
      BY <1>2, PrefixFacts, ZenonT(30)
    <2>2. frames' = [frames EXCEPT ![t] = Append(pre, 0)]
      BY <1>1, <1>2
    <2> HIDE DEF pre
    <2>3. /\ Append(pre, 0) \in Seq(Nat) /\ Len(Append(pre, 0)) = Len(pre) + 1
          /\ \A l \in 1 .. Len(pre) : Append(pre, 0)[l] = pre[l]
      BY ONLY <2>1, AppendFacts
    <2>4. /\ Append(pre, 0) \in Seq(Nat) /\ Len(Append(pre, 0)) = L
          /\ \A l \in 1 .. L - 1 : Append(pre, 0)[l] = frames[t][l]
      BY ONLY <1>2, <2>1, <2>3
    <2>5. frames'[t] = Append(pre, 0)
      BY <1>2, <2>2
    <2>6. QED
      BY <1>2, <2>2, <2>4, <2>5
  <1>9. \A a \in live' : End(a) <= heap_ptr /\ (a.owner # t => a \in live)
    <2> SUFFICES ASSUME NEW a \in live'
                 PROVE  End(a) <= heap_ptr /\ (a.owner # t => a \in live)
      OBVIOUS
    <2>1. PICK b \in live :
            /\ a.base = b.base /\ a.size = b.size /\ a.owner = b.owner
            /\ (a = b \/ b \in D)
      BY <1>6
    <2>2. End(a) <= heap_ptr
      BY <2>1, LiveBelow DEF End
    <2>3. QED
      BY <1>5, <2>1, <2>2
  <1>10. \A i \in 1 .. n : \A a \in live' :
          (a.owner = t /\ a.kind \in AutoKinds)
            => Protects(heap_marks[t][i], a, frames'[t][heap_marks[t][i].bp])
    <2> SUFFICES ASSUME NEW i \in 1 .. n, NEW a \in live',
                        a.owner = t, a.kind \in AutoKinds
        PROVE  Protects(heap_marks[t][i], a, frames'[t][heap_marks[t][i].bp])
      OBVIOUS
    <2>1. PICK b \in live : a.bp = b.bp /\ (a = b \/ b \in D)
      BY <1>6
    <2>2. CASE a = b
      <3>1. Protects(heap_marks[t][i], b, frames[t][heap_marks[t][i].bp])
        BY <1>4, <2>2, ProtectsLive DEF HeapInv
      <3>2. heap_marks[t][i].bp \in 1 .. L - 1
        BY <1>2, <1>4
      <3>3. frames'[t][heap_marks[t][i].bp] = frames[t][heap_marks[t][i].bp]
        BY ONLY <1>8, <3>2
      <3>4. QED
        BY <2>2, <3>1, <3>3
    <2>3. CASE b \in D
      <3>1. a.bp = L
        BY <1>5, <2>1, <2>3
      <3>2. ~ (a.bp < heap_marks[t][i].bp) /\ a.bp # heap_marks[t][i].bp
        BY <1>2, <1>4, <3>1
      <3>3. QED
        BY <3>2 DEF Protects
    <2>4. QED
      BY <2>1, <2>2, <2>3
  <1>11. /\ heap_marks' \in [Threads -> Seq(Mark)]
         /\ MarksOrdered' /\ MarksProtectLive'
    <2>1. -1 \in Nat \cup {-1}
      OBVIOUS
    <2>2. QED
      BY <1>2, <1>3, <1>4, <1>8, <1>9, <1>10, <2>1, PushPreserves
  <1>12. LiveScoped'
    <2>1. \A u \in Threads : Len(frames'[u]) = Len(frames[u])
      BY <1>2, <1>8
    <2>2. ASSUME NEW a \in live', a.kind \in AutoKinds
          PROVE  a.bp <= Len(frames'[a.owner])
      <3>1. PICK b \in live : a.kind = b.kind /\ a.owner = b.owner /\ a.bp = b.bp
        BY <1>6, <2>2
      <3>2. b.owner \in Threads
        BY LiveBelow
      <3>3. QED
        BY <2>1, <2>2, <3>1, <3>2 DEF HeapInv, LiveScoped, Level
    <2>3. ASSUME NEW a \in live', NEW b \in live', a.base = b.base
          PROVE  a = b
      <3>1. PICK a0 \in live : /\ a.base = a0.base
                               /\ (a = a0 /\ a0 \notin D) \/ (a = up(a0) /\ a0 \in D)
        BY <1>6, <2>3
      <3>2. PICK b0 \in live : /\ b.base = b0.base
                               /\ (b = b0 /\ b0 \notin D) \/ (b = up(b0) /\ b0 \in D)
        BY <1>6, <2>3
      <3>3. a0 = b0
        BY <2>3, <3>1, <3>2 DEF HeapInv, LiveScoped
      <3>4. QED
        BY <3>1, <3>2, <3>3
    <2>4. QED
      BY <2>2, <2>3 DEF LiveScoped, Level
  <1>13. LiveTracked'
    <2> SUFFICES ASSUME NEW a \in live'
        PROVE \E i \in 1 .. Len(sorted_allocs') :
                /\ sorted_allocs'[i].base = a.base /\ sorted_allocs'[i].size = a.size
                /\ sorted_allocs'[i].kind = a.kind /\ sorted_allocs'[i].owner = a.owner
                /\ ~ sorted_allocs'[i].freed
      BY DEF LiveTracked
    <2>1. PICK b \in live : /\ a.base = b.base /\ a.size = b.size
                            /\ a.kind = b.kind /\ a.owner = b.owner
      BY <1>6
    <2>2. QED
      BY <1>1, <2>1 DEF HeapInv, LiveTracked
  <1>14. SortedAllocs' /\ HeapBounds'
    BY <1>1 DEF HeapInv, SortedAllocs, HeapBounds
  <1>15. QED
    BY <1>1, <1>7, <1>8, <1>11, <1>12, <1>13, <1>14 DEF HeapInv, TypeOK

-----------------------------------------------------------------------------
(* Allocation *)

\* The padding before the header of a block.
LEMMA PadNat ==
  ASSUME HeapInv, NEW align \in Nat \ {0}
  PROVE  Pad(align) \in Nat
  <1>1. heap_ptr \in Nat /\ Header \in Nat
    BY HeapAssumption DEF HeapInv, TypeOK
  <1>2. (heap_ptr + Header) % align \in 0 .. align - 1
    BY <1>1
  <1>3. align - ((heap_ptr + Header) % align) \in Nat
    BY <1>2
  <1>4. QED
    BY <1>3 DEF Pad

\* vm_heap_grow's clamp keeps the committed heap inside the reservation.
LEMMA GrowClamped ==
  ASSUME HeapInv, NEW need \in Nat
  PROVE  GrowChunk(need) \in Int /\ heap_end + GrowChunk(need) <= PoolSizeMax
  <1> DEFINE whole == IF PoolSize < need
                      THEN ((need + PoolSize - 1) \div PoolSize) * PoolSize
                      ELSE PoolSize
  <1>1. heap_end \in Nat /\ PoolSize \in Nat \ {0} /\ PoolSizeMax \in Nat
    BY HeapAssumption DEF HeapInv, TypeOK
  <1>2. (need + PoolSize - 1) \div PoolSize \in Int
    BY <1>1
  <1>3. whole \in Int
    <2>1. ((need + PoolSize - 1) \div PoolSize) * PoolSize \in Int
      BY <1>1, <1>2
    <2>2. QED
      BY <1>1, <2>1
  <1>4. GrowChunk(need) = IF heap_end + whole > PoolSizeMax
                          THEN PoolSizeMax - heap_end ELSE whole
    BY DEF GrowChunk
  <1> HIDE DEF whole
  <1>5. QED
    BY <1>1, <1>3, <1>4

\* A new block lies above everything tracked; a VLA belongs to the innermost
\* open block, whose mark, like every other mark of the frame, is not one
\* that has to protect it.
LEMMA BumpAllocStep ==
  ASSUME HeapInv, NEW t \in Threads, Level(t) > 0, NEW size \in Sizes,
         NEW align \in Nat \ {0}, NEW kind \in Kinds, NEW blk \in Nat \cup {-1},
         kind = "FRAME" => blk = frames[t][Level(t)] - 1,
         BumpAlloc(t, size, align, kind, blk)
  PROVE  HeapInv'
  <1> DEFINE pad == Pad(align)
             total == pad + Header + size
             base == heap_ptr + pad + Header
             new == [base |-> base, size |-> size, kind |-> kind, owner |-> t,
                     freed |-> FALSE]
             obj == [base |-> base, size |-> size, kind |-> kind, owner |-> t,
                     bp |-> Level(t), blk |-> blk]
  <1>1. /\ heap_ptr \in Nat /\ heap_end \in Nat /\ Header \in Nat \ {0}
        /\ size \in Nat \ {0} /\ pad \in Nat
        /\ sorted_allocs \in Seq(Alloc) /\ live \subseteq Storage
        /\ Level(t) \in Nat \ {0}
    BY HeapAssumption, PadNat DEF HeapInv, TypeOK, Level
  <1>2. /\ heap_ptr' = heap_ptr + total
        /\ sorted_allocs' = Append(sorted_allocs, new)
        /\ live' = live \cup {obj}
        /\ UNCHANGED <<heap_marks, frames, forfeit>>
        /\ \/ total <= heap_end - heap_ptr /\ UNCHANGED heap_end
           \/ /\ GrowChunk(total) >= total
              /\ heap_end' = heap_end + GrowChunk(total)
    BY DEF BumpAlloc
  <1> HIDE DEF pad
  <1>3. /\ base \in Nat /\ total \in Nat /\ heap_ptr <= base - Header
        /\ heap_ptr < base /\ base + size = heap_ptr + total
    BY <1>1, SMTT(30)
  <1>4. /\ obj \in Storage /\ new \in Alloc
        /\ new.base = base /\ new.size = size /\ new.kind = kind /\ new.owner = t
        /\ new.freed = FALSE
        /\ obj.base = base /\ obj.size = size /\ obj.kind = kind /\ obj.owner = t
        /\ obj.bp = Level(t) /\ obj.blk = blk
    BY <1>1, <1>3 DEF Storage, Alloc
  <1> HIDE DEF total, base, new, obj
  <1>5. /\ sorted_allocs' \in Seq(Alloc)
        /\ Len(sorted_allocs') = Len(sorted_allocs) + 1
        /\ \A i \in 1 .. Len(sorted_allocs) : sorted_allocs'[i] = sorted_allocs[i]
        /\ sorted_allocs'[Len(sorted_allocs) + 1] = new
    BY ONLY <1>1, <1>2, <1>4, AppendFacts
  <1>6. heap_ptr' \in Nat /\ heap_ptr <= heap_ptr' /\ heap_end' \in Nat /\ HeapBounds'
    <2>1. HeapBounds
      BY DEF HeapInv
    <2>2. GrowChunk(total) \in Int /\ heap_end + GrowChunk(total) <= PoolSizeMax
      BY <1>3, GrowClamped
    <2>3. QED
      BY <1>1, <1>2, <1>3, <2>1, <2>2, HeapAssumption DEF HeapBounds
  <1>7. SortedAllocs'
    <2>1. \A i \in 1 .. Len(sorted_allocs) :
            /\ End(sorted_allocs[i]) \in Nat /\ End(sorted_allocs[i]) <= heap_ptr
            /\ sorted_allocs[i].base \in Nat
      BY <1>1, AllocEnd DEF HeapInv, SortedAllocs
    <2>2. End(new) = heap_ptr'
      BY <1>2, <1>3, <1>4 DEF End
    <2>3. Len(sorted_allocs) \in Nat
      BY <1>1
    <2>4. ASSUME NEW i \in 1 .. Len(sorted_allocs'), NEW j \in 1 .. Len(sorted_allocs'),
                 i < j
          PROVE  End(sorted_allocs'[i]) <= sorted_allocs'[j].base - Header
      <3>1. i \in 1 .. Len(sorted_allocs)
        BY <1>5, <2>3, <2>4
      <3>2. CASE j \in 1 .. Len(sorted_allocs)
        BY <1>5, <2>4, <3>1, <3>2 DEF HeapInv, SortedAllocs
      <3>3. CASE j = Len(sorted_allocs) + 1
        <4>1. End(sorted_allocs[i]) <= heap_ptr /\ End(sorted_allocs[i]) \in Nat
          BY <2>1, <3>1
        <4>2. QED
          BY <1>1, <1>3, <1>4, <1>5, <3>1, <3>3, <4>1
      <3>4. QED
        BY <1>5, <2>3, <3>2, <3>3
    <2>5. ASSUME NEW i \in 1 .. Len(sorted_allocs')
          PROVE  End(sorted_allocs'[i]) <= heap_ptr'
      <3>1. CASE i \in 1 .. Len(sorted_allocs)
        BY <1>1, <1>5, <1>6, <2>1, <3>1
      <3>2. CASE i = Len(sorted_allocs) + 1
        BY <1>5, <1>6, <2>2, <3>2
      <3>3. QED
        BY <1>5, <2>3, <3>1, <3>2
    <2>6. QED
      BY ONLY <2>4, <2>5 DEF SortedAllocs, End
  <1>8. LiveTracked'
    <2> SUFFICES ASSUME NEW a \in live'
        PROVE \E i \in 1 .. Len(sorted_allocs') :
                /\ sorted_allocs'[i].base = a.base /\ sorted_allocs'[i].size = a.size
                /\ sorted_allocs'[i].kind = a.kind /\ sorted_allocs'[i].owner = a.owner
                /\ ~ sorted_allocs'[i].freed
      BY DEF LiveTracked
    <2>1. CASE a \in live
      <3>1. PICK i \in 1 .. Len(sorted_allocs) :
              /\ sorted_allocs[i].base = a.base /\ sorted_allocs[i].size = a.size
              /\ sorted_allocs[i].kind = a.kind /\ sorted_allocs[i].owner = a.owner
              /\ ~ sorted_allocs[i].freed
        BY <2>1 DEF HeapInv, LiveTracked
      <3>2. i \in 1 .. Len(sorted_allocs')
        BY <1>1, <1>5
      <3>3. QED
        BY <1>5, <3>1, <3>2
    <2>2. CASE a = obj
      <3>1. Len(sorted_allocs) + 1 \in 1 .. Len(sorted_allocs')
        BY <1>1, <1>5
      <3>2. QED
        BY <1>4, <1>5, <2>2, <3>1
    <2>3. QED
      BY <1>2, <2>1, <2>2
  <1>9. MarksOrdered'
    BY <1>2 DEF HeapInv, MarksOrdered, Level
  <1>10. MarksProtectLive'
    <2> SUFFICES ASSUME NEW u \in Threads, NEW i \in 1 .. Len(heap_marks'[u]),
                        NEW a \in live', a.owner = u, a.kind \in AutoKinds
        PROVE  Protects(heap_marks'[u][i], a, frames'[u][heap_marks'[u][i].bp])
      BY ProtectsLive
    <2>1. heap_marks' = heap_marks /\ frames' = frames
      BY <1>2
    <2>2. CASE a \in live
      BY <2>1, <2>2, ProtectsLive DEF HeapInv
    <2>3. CASE a = obj
      <3>1. u = t /\ a.bp = Level(t) /\ a.kind = kind /\ a.blk = blk
        BY <1>4, <2>3
      <3>2. /\ heap_marks[t][i].bp \in Nat /\ heap_marks[t][i].bp <= Level(t)
            /\ heap_marks[t][i].depth \in Int
        BY <2>1, <3>1, MarkTyped
      <3>3. frames[t][Level(t)] \in Nat
        <4>1. frames[t] \in Seq(Nat) /\ Level(t) = Len(frames[t])
          BY DEF HeapInv, TypeOK, Level
        <4>2. Level(t) \in 1 .. Len(frames[t])
          BY <1>1, <4>1
        <4>3. QED
          BY <4>1, <4>2
      <3>4. ~ (a.bp < heap_marks[t][i].bp)
        BY <1>1, <3>1, <3>2
      <3>5. ~ (/\ a.bp = heap_marks[t][i].bp /\ a.kind = "FRAME"
               /\ heap_marks[t][i].depth < frames[t][heap_marks[t][i].bp]
               /\ a.blk < heap_marks[t][i].depth)
        BY <3>1, <3>2, <3>3, SMTT(30)
      <3>6. QED
        BY <2>1, <3>1, <3>4, <3>5 DEF Protects
    <2>4. QED
      BY <1>2, <2>2, <2>3
  <1>11. LiveScoped'
    <2>1. \A a \in live : a.base \in Nat /\ a.base < base
      <3> SUFFICES ASSUME NEW a \in live PROVE a.base \in Nat /\ a.base < base
        OBVIOUS
      <3>1. a.base \in Nat /\ End(a) \in Nat /\ a.base < End(a) /\ End(a) <= heap_ptr
        BY LiveBelow
      <3>2. QED
        BY <1>1, <1>3, <3>1
    <2>2. ASSUME NEW a \in live', NEW b \in live', a.base = b.base
          PROVE  a = b
      <3>1. (a \in live /\ b \in live) \/ (a = obj /\ b = obj)
        BY <1>2, <1>3, <1>4, <2>1, <2>2
      <3>2. QED
        BY <2>2, <3>1 DEF HeapInv, LiveScoped
    <2>3. ASSUME NEW a \in live', a.kind \in AutoKinds
          PROVE  a.bp <= Len(frames'[a.owner])
      <3>1. CASE a \in live
        BY <1>2, <2>3, <3>1 DEF HeapInv, LiveScoped, Level
      <3>2. CASE a = obj
        BY <1>1, <1>2, <1>4, <3>2 DEF Level
      <3>3. QED
        BY <1>2, <3>1, <3>2
    <2>4. QED
      BY <2>2, <2>3 DEF LiveScoped, Level
  <1>12. QED
    BY <1>1, <1>2, <1>4, <1>5, <1>6, <1>7, <1>8, <1>9, <1>10, <1>11 DEF HeapInv, TypeOK

\* Every allocating opcode is a BumpAlloc, possibly of pinned storage.
LEMMA AllocStep ==
  ASSUME HeapInv, NEW t \in Threads, NEW size \in Sizes,
         \/ AllocVla(t, size)
         \/ \E kind \in OtherKinds : AllocOther(t, size, kind)
         \/ \E align \in Alignments : AllocAligned(t, size, align)
  PROVE  HeapInv'
  <1>0. 1 \in Nat \ {0} /\ -1 \in Nat \cup {-1}
    OBVIOUS
  <1>1. CASE AllocVla(t, size)
    <2>1. /\ Level(t) > 0 /\ frames[t][Level(t)] > 0 /\ "FRAME" \in Kinds
          /\ BumpAlloc(t, size, 1, "FRAME", frames[t][Level(t)] - 1)
      BY <1>1 DEF AllocVla, Kinds, AutoKinds
    <2>2. frames[t] \in Seq(Nat) /\ Level(t) = Len(frames[t])
      BY DEF HeapInv, TypeOK, Level
    <2>3. Level(t) \in 1 .. Len(frames[t])
      BY <2>1, <2>2
    <2>4. frames[t][Level(t)] - 1 \in Nat \cup {-1}
      BY <2>1, <2>2, <2>3
    <2>5. QED
      BY <1>0, <2>1, <2>4, BumpAllocStep
  <1>2. ASSUME NEW kind \in OtherKinds, AllocOther(t, size, kind) PROVE HeapInv'
    <2>1. /\ Level(t) > 0 /\ kind \in Kinds /\ kind # "FRAME"
          /\ BumpAlloc(t, size, 1, kind, -1)
      BY <1>2, HeapAssumption DEF AllocOther, Kinds, AutoKinds, PinKinds
    <2>2. QED
      BY <1>0, <2>1, BumpAllocStep
  <1>3. ASSUME NEW align \in Alignments, AllocAligned(t, size, align) PROVE HeapInv'
    <2>1. /\ Level(t) > 0 /\ align \in Nat \ {0} /\ "USER" \in Kinds
          /\ BumpAlloc(t, size, align, "USER", -1)
      BY <1>3, HeapAssumption DEF AllocAligned, Kinds, PinKinds
    <2>2. QED
      BY <1>0, <2>1, BumpAllocStep
  <1>4. QED
    BY <1>1, <1>2, <1>3

-----------------------------------------------------------------------------
(* Theorems *)

\* The initial heap satisfies the invariant.
LEMMA InitHeapInv == Init => HeapInv
  <1> SUFFICES ASSUME Init PROVE HeapInv
    OBVIOUS
  <1>1. TypeOK
    <2>1. /\ heap_ptr \in Nat /\ heap_end \in Nat /\ sorted_allocs \in Seq(Alloc)
          /\ heap_marks \in [Threads -> Seq(Mark)] /\ frames \in [Threads -> Seq(Nat)]
      BY HeapAssumption DEF Init
    <2>2. live \in SUBSET Storage /\ forfeit \in BOOLEAN
      BY DEF Init
    <2>3. QED
      BY <2>1, <2>2 DEF TypeOK
  <1>2. SortedAllocs /\ LiveTracked /\ MarksOrdered /\ MarksProtectLive /\ LiveScoped
    <2>1. /\ sorted_allocs = << >> /\ live = {} /\ Len(<< >>) = 0
          /\ \A t \in Threads : heap_marks[t] = << >>
      BY DEF Init
    <2>2. \A i \in 1 .. 0 : FALSE
      OBVIOUS
    <2>3. SortedAllocs /\ MarksOrdered
      BY <2>1, <2>2 DEF SortedAllocs, MarksOrdered
    <2>4. LiveTracked /\ MarksProtectLive /\ LiveScoped
      BY <2>1 DEF LiveTracked, MarksProtectLive, LiveScoped
    <2>5. QED
      BY <2>3, <2>4
  <1>3. HeapBounds
    BY HeapAssumption DEF Init, HeapBounds
  <1>4. QED
    BY <1>1, <1>2, <1>3 DEF HeapInv

\* Every step of every thread preserves the invariant.
LEMMA NextHeapInv == HeapInv /\ [Next]_vars => HeapInv'
  <1> SUFFICES ASSUME HeapInv, [Next]_vars PROVE HeapInv'
    OBVIOUS
  <1>1. ASSUME NEW t \in Threads, ThreadStep(t) PROVE HeapInv'
    <2>1. ASSUME NEW ok \in MarkRecorded, Call(t, ok) PROVE HeapInv'
      BY <2>1, CallStep
    <2>2. ASSUME NEW ok \in MarkRecorded, TailCall(t, ok) PROVE HeapInv'
      BY <2>2, TailCallStep
    <2>3. ASSUME NEW ok \in MarkRecorded, EnterBlock(t, ok) PROVE HeapInv'
      BY <2>3, EnterBlockStep
    <2>4. CASE Return(t)
      BY <2>4, ReturnStep
    <2>5. CASE ExitBlock(t)
      BY <2>5, ExitBlockStep
    <2>6. ASSUME NEW k \in 0 .. MaxBlocks, NEW S, JumpOut(t, k, S) PROVE HeapInv'
      BY <2>6, JumpOutStep
    <2>7. ASSUME NEW level \in 1 .. MaxFrames, NEW k \in 0 .. MaxBlocks,
                 LongJmp(t, level, k)
          PROVE  HeapInv'
      BY <2>7, LongJmpStep
    <2>8. CASE ThreadExit(t)
      BY <2>8, ThreadExitStep
    <2>9. ASSUME NEW size \in Sizes,
                 \/ AllocVla(t, size)
                 \/ \E kind \in OtherKinds : AllocOther(t, size, kind)
                 \/ \E align \in Alignments : AllocAligned(t, size, align)
          PROVE  HeapInv'
      BY <2>9, AllocStep
    <2>10. QED
      BY <1>1, <2>1, <2>2, <2>3, <2>4, <2>5, <2>6, <2>7, <2>8, <2>9 DEF ThreadStep
  <1>2. ASSUME NEW i \in 1 .. MaxAllocs, Free(i) PROVE HeapInv'
    BY <1>2, FreeStep
  <1>3. CASE UNCHANGED vars
    BY <1>3 DEF vars, HeapInv, TypeOK, SortedAllocs, LiveTracked, HeapBounds,
                MarksOrdered, MarksProtectLive, LiveScoped, Level
  <1>4. QED
    BY <1>1, <1>2, <1>3 DEF Next

\* The invariant of the heap, its marks and its live storage.
THEOREM HeapInvariant == Spec => []HeapInv
  BY InitHeapInv, NextHeapInv, PTL DEF Spec

\* Type correctness of the heap, the marks and the frames.
THEOREM TypeCorrect == Spec => []TypeOK
  <1>1. HeapInv => TypeOK
    BY DEF HeapInv
  <1>2. QED
    BY <1>1, HeapInvariant, PTL

\* Tracked allocations never overlap and storage the guest may still use is
\* tracked, so no two live objects share a byte and none lies above the bump
\* pointer: heap_rewind_to never over-reclaims in programs that enter
\* VLA-declaring blocks from their top.
THEOREM NeverOverReclaimed == Spec => []NoLiveOverwritten
  <1>1. HeapInv => NoLiveOverwritten
    <2> SUFFICES ASSUME HeapInv PROVE NoLiveOverwritten
      OBVIOUS
    <2>1. \A a \in live : End(a) <= heap_ptr
      BY LiveBelow
    <2>2. ASSUME NEW a \in live, NEW b \in live, a # b
          PROVE  End(a) <= b.base - Header \/ End(b) <= a.base - Header
      <3>1. PICK i \in 1 .. Len(sorted_allocs) :
              sorted_allocs[i].base = a.base /\ sorted_allocs[i].size = a.size
        BY DEF HeapInv, LiveTracked
      <3>2. PICK j \in 1 .. Len(sorted_allocs) :
              sorted_allocs[j].base = b.base /\ sorted_allocs[j].size = b.size
        BY DEF HeapInv, LiveTracked
      <3>3. i # j
        BY <2>2, <3>1, <3>2 DEF HeapInv, LiveScoped
      <3>4. i < j \/ j < i
        BY <3>3
      <3>5. End(sorted_allocs[i]) = End(a) /\ End(sorted_allocs[j]) = End(b)
        BY <3>1, <3>2 DEF End
      <3>6. QED
        BY <3>1, <3>2, <3>4, <3>5 DEF HeapInv, SortedAllocs
    <2>3. QED
      BY <2>1, <2>2 DEF NoLiveOverwritten
  <1>2. QED
    BY <1>1, HeapInvariant, PTL

\* Every live block stays findable in sorted_allocs.
THEOREM LiveFindable == Spec => []LiveTracked
  <1>1. HeapInv => LiveTracked
    BY DEF HeapInv
  <1>2. QED
    BY <1>1, HeapInvariant, PTL

\* Rewinds of any thread keep sorted_allocs in address order.
THEOREM AllocsSorted == Spec => []SortedAllocs
  <1>1. HeapInv => SortedAllocs
    BY DEF HeapInv
  <1>2. QED
    BY <1>1, HeapInvariant, PTL

\* The marks of every thread mirror its call stack, so the loops that pop them
\* may look at the top entry only.
THEOREM MarksMirrorCalls == Spec => []MarksOrdered
  <1>1. HeapInv => MarksOrdered
    BY DEF HeapInv
  <1>2. QED
    BY <1>1, HeapInvariant, PTL

\* No mark that can still be used lies below storage it must not reclaim.
THEOREM MarksProtect == Spec => []MarksProtectLive
  <1>1. HeapInv => MarksProtectLive
    BY DEF HeapInv
  <1>2. QED
    BY <1>1, HeapInvariant, PTL

\* The bump pointer never leaves the committed heap, nor that the reservation.
THEOREM BoundsKept == Spec => []HeapBounds
  <1>1. HeapInv => HeapBounds
    BY DEF HeapInv
  <1>2. QED
    BY <1>1, HeapInvariant, PTL
-----------------------------------------------------------------------------
(* Reclamation is complete for a single thread.                              *)

\* p is an address that nothing automatic keeps alive below it: the end of a
\* pinned block, or the start of the heap, with n blocks under it.
CleanAt(S, p, n) ==
  /\ n \in 0 .. Len(S)
  /\ \A i \in 1 .. n : End(S[i]) <= p
  /\ \A i \in (n + 1) .. Len(S) : S[i].base >= p
  /\ n = 0 => p = 0
  /\ n > 0 => p = End(S[n]) /\ S[n].kind \in PinKinds

Clean(p) == p <= heap_ptr /\ \E n \in 0 .. Len(sorted_allocs) : CleanAt(sorted_allocs, p, n)

\* The outermost frame's own mark is the first, is at a clean address, and no
\* later mark lies below it.
RootMark(t) ==
  /\ Len(heap_marks[t]) > 0
  /\ heap_marks[t][1].bp = 1 /\ heap_marks[t][1].depth = -1
  /\ \A i \in 1 .. Len(heap_marks[t]) : heap_marks[t][i].mark >= heap_marks[t][1].mark
  /\ Clean(heap_marks[t][1].mark)

\* The invariant behind QuiescentReclaimed, of the thread t.
ReclaimInv(t) ==
  ~ forfeit => IF Level(t) = 0 THEN Clean(heap_ptr) ELSE RootMark(t)

\* A rewind to a target above a clean address keeps it clean.
LEMMA RewindKeepsClean ==
  ASSUME HeapInv, NEW t \in Threads, NEW target \in Nat, NEW sweep, RewindTo(t, target, sweep),
         NEW p \in Nat, p <= target, Clean(p)
  PROVE  Clean(p)'
  <1>1. sorted_allocs \in Seq(Alloc) /\ heap_ptr \in Nat /\ TypeOK /\ SortedAllocs
    BY DEF HeapInv, TypeOK
  <1>2. PICK n \in 0 .. Len(sorted_allocs) : CleanAt(sorted_allocs, p, n)
    BY DEF Clean
  <1>3. /\ sorted_allocs' \in Seq(Alloc) /\ Len(sorted_allocs') <= Len(sorted_allocs)
        /\ \A i \in 1 .. Len(sorted_allocs') : sorted_allocs'[i] = sorted_allocs[i]
        /\ \A i \in (Len(sorted_allocs') + 1) .. Len(sorted_allocs) :
             i \in Sweepable(t, target, sweep)
    BY <1>1, RewindEffect
  <1>4. Len(sorted_allocs') >= n
    <2> SUFFICES ASSUME Len(sorted_allocs') < n PROVE FALSE
      BY <1>1, <1>3
    <2>1. n \in (Len(sorted_allocs') + 1) .. Len(sorted_allocs) /\ n > 0
      BY <1>1, <1>2, <1>3
    <2>2. sorted_allocs[n].base >= target
      BY <1>3, <2>1 DEF Sweepable
    <2>3. End(sorted_allocs[n]) = p
      BY <1>2, <2>1 DEF CleanAt
    <2>4. sorted_allocs[n] \in Alloc
      BY <1>1, <1>2, <2>1
    <2> QED
      BY <2>2, <2>3, <2>4, AllocEnd
  <1>5. p <= heap_ptr'
    <2>1. CASE heap_ptr' = heap_ptr
      BY <2>1 DEF Clean
    <2>2. ASSUME NEW stop \in 0 .. Len(sorted_allocs), heap_ptr' = EffectiveTarget(target, stop)
          PROVE  p <= heap_ptr'
      <3>1. CASE stop > 0 /\ End(sorted_allocs[stop]) > target
        <4>1. sorted_allocs[stop] \in Alloc
          BY <1>1, <3>1
        <4>2. End(sorted_allocs[stop]) \in Nat
          BY <4>1, AllocEnd
        <4> QED
          BY <2>2, <3>1, <4>2 DEF EffectiveTarget
      <3>2. CASE ~(stop > 0 /\ End(sorted_allocs[stop]) > target)
        BY <2>2, <3>2 DEF EffectiveTarget
      <3> QED
        BY <3>1, <3>2
    <2> QED
      BY <2>1, <2>2 DEF RewindTo
  <1>6. CleanAt(sorted_allocs', p, n)
    <2>1. n \in 0 .. Len(sorted_allocs') /\ Len(sorted_allocs') \in Nat
      BY <1>1, <1>3, <1>4
    <2> QED
      BY <1>2, <1>3, <2>1, SMTT(30) DEF CleanAt
  <1>7. n \in 0 .. Len(sorted_allocs')
    BY <1>6 DEF CleanAt
  <1> QED
    BY <1>5, <1>6, <1>7 DEF Clean

\* The rewind of the last frame: with one thread, what is left ends with a
\* pinned block.
LEMMA RewindToClean ==
  ASSUME HeapInv, NEW t \in Threads, Threads = {t}, NEW p \in Nat, RewindTo(t, p, AutoKinds), Clean(p)
  PROVE  Clean(heap_ptr)'
  <1>1. sorted_allocs \in Seq(Alloc) /\ heap_ptr \in Nat /\ SortedAllocs
    BY DEF HeapInv, TypeOK
  <1>2. PICK n \in 0 .. Len(sorted_allocs) : CleanAt(sorted_allocs, p, n)
    BY DEF Clean
  <1>3. p <= heap_ptr
    BY DEF Clean
  <1>4. \A i \in 1 .. Len(sorted_allocs) :
          /\ sorted_allocs[i] \in Alloc /\ sorted_allocs[i].base \in Nat
          /\ End(sorted_allocs[i]) \in Nat /\ sorted_allocs[i].base < End(sorted_allocs[i])
          /\ sorted_allocs[i].owner = t /\ sorted_allocs[i].kind \in Kinds
          /\ End(sorted_allocs[i]) <= heap_ptr
    <2> SUFFICES ASSUME NEW i \in 1 .. Len(sorted_allocs)
                 PROVE  /\ sorted_allocs[i] \in Alloc /\ sorted_allocs[i].base \in Nat
                        /\ End(sorted_allocs[i]) \in Nat
                        /\ sorted_allocs[i].base < End(sorted_allocs[i])
                        /\ sorted_allocs[i].owner = t /\ sorted_allocs[i].kind \in Kinds
                        /\ End(sorted_allocs[i]) <= heap_ptr
      OBVIOUS
    <2>1. sorted_allocs[i] \in Alloc
      BY <1>1
    <2>2. sorted_allocs[i].owner = t /\ sorted_allocs[i].kind \in Kinds
      BY <2>1 DEF Alloc
    <2> QED
      BY <1>1, <2>1, <2>2, AllocEnd DEF SortedAllocs
  <1>5. CASE heap_ptr <= p
    <2>1. heap_ptr' = p /\ sorted_allocs' = sorted_allocs
      BY <1>1, <1>3, <1>5 DEF RewindTo
    <2> QED
      BY <1>2, <2>1 DEF Clean
  <1>6. CASE heap_ptr > p
    <2>1. PICK stop \in 0 .. Len(sorted_allocs) :
            /\ Remain(Len(sorted_allocs), Sweepable(t, p, AutoKinds), stop)
            /\ \/ /\ EffectiveTarget(p, stop) >= heap_ptr
                  /\ UNCHANGED <<heap_ptr, sorted_allocs>>
               \/ /\ EffectiveTarget(p, stop) < heap_ptr
                  /\ heap_ptr' = EffectiveTarget(p, stop)
                  /\ sorted_allocs' = Prefix(sorted_allocs, stop)
      BY <1>1, <1>6 DEF RewindTo
    <2>2. stop >= n
      <3> SUFFICES ASSUME stop < n PROVE FALSE
        OBVIOUS
      <3>1. n \in (stop + 1) .. Len(sorted_allocs) /\ n \in 1 .. Len(sorted_allocs) /\ n > 0
        BY <1>1
      <3>2. sorted_allocs[n].base >= p /\ End(sorted_allocs[n]) = p
        BY <1>2, <2>1, <3>1 DEF Remain, Sweepable, CleanAt
      <3> QED
        BY <1>4, <3>1, <3>2
    \* The rewound heap ends with stop, and stop is where it is clean.
    <2> DEFINE q == EffectiveTarget(p, stop)
    <2>3. /\ q \in Nat
          /\ stop = 0 => q = 0
          /\ stop > 0 => q = End(sorted_allocs[stop]) /\ sorted_allocs[stop].kind \in PinKinds
      <3>1. CASE stop = 0
        <4>1. n = 0
          BY <2>2, <3>1
        <4> QED
          BY <1>2, <3>1, <4>1 DEF EffectiveTarget, CleanAt
      <3>2. CASE stop > 0 /\ stop = n
        <4>1. End(sorted_allocs[stop]) = p /\ sorted_allocs[stop].kind \in PinKinds
          BY <1>2, <3>2 DEF CleanAt
        <4> QED
          BY <3>2, <4>1 DEF EffectiveTarget
      <3>3. CASE stop > n
        <4>1. stop \in (n + 1) .. Len(sorted_allocs) /\ stop \in 1 .. Len(sorted_allocs) /\ stop > 0
          BY <1>1, <3>3
        <4>2. sorted_allocs[stop].base >= p
          BY <1>2, <4>1 DEF CleanAt
        <4>3. sorted_allocs[stop].kind \notin AutoKinds
          BY <1>4, <2>1, <4>1, <4>2 DEF Remain, Sweepable
        <4>4. sorted_allocs[stop].kind \in PinKinds
          BY <1>4, <4>1, <4>3 DEF Kinds
        <4>5. End(sorted_allocs[stop]) \in Nat /\ End(sorted_allocs[stop]) > p
          BY <1>4, <4>1, <4>2
        <4> QED
          BY <4>1, <4>4, <4>5 DEF EffectiveTarget
      <3> QED
        BY <2>2, <3>1, <3>2, <3>3
    <2>4. /\ \A i \in 1 .. stop : End(sorted_allocs[i]) <= q
          /\ stop > 0 => q <= heap_ptr
      <3>1. ASSUME NEW i \in 1 .. stop PROVE End(sorted_allocs[i]) <= q
        <4>1. i \in 1 .. Len(sorted_allocs) /\ stop \in 1 .. Len(sorted_allocs) /\ stop > 0
          BY <1>1, <3>1
        <4>2. q = End(sorted_allocs[stop])
          BY <2>3, <4>1
        <4>3. CASE i = stop
          BY <1>4, <4>1, <4>2, <4>3
        <4>4. CASE i < stop
          <5>1. End(sorted_allocs[i]) <= sorted_allocs[stop].base - Header
            BY <1>1, <4>1, <4>4 DEF SortedAllocs
          <5> QED
            BY <1>4, <4>1, <4>2, <5>1, HeapAssumption
        <4> QED
          BY <4>1, <4>3, <4>4
      <3>2. stop > 0 => q <= heap_ptr
        BY <1>1, <1>4, <2>3
      <3> QED
        BY <3>1, <3>2
    <2> HIDE DEF q
    <2>5. CASE q < heap_ptr
      <3>1. heap_ptr' = q /\ sorted_allocs' = Prefix(sorted_allocs, stop)
        BY <1>1, <2>1, <2>3, <2>5 DEF q
      <3>2. /\ Len(sorted_allocs') = stop
            /\ \A i \in 1 .. stop : sorted_allocs'[i] = sorted_allocs[i]
        BY <1>1, <3>1, PrefixFacts
      <3>3. CleanAt(sorted_allocs', q, stop)
        <4>1. stop \in 0 .. stop /\ (stop + 1) .. stop = {} /\ (stop > 0 => stop \in 1 .. stop)
          OBVIOUS
        <4> QED
          BY <2>3, <2>4, <3>2, <4>1 DEF CleanAt
      <3> QED
        BY <2>3, <3>1, <3>2, <3>3 DEF Clean
    <2>6. CASE q >= heap_ptr
      <3>1. UNCHANGED <<heap_ptr, sorted_allocs>>
        BY <1>1, <2>1, <2>3, <2>6 DEF q
      <3>2. stop > 0 /\ q = heap_ptr
        BY <1>1, <1>6, <2>3, <2>4, <2>6
      <3>3. stop = Len(sorted_allocs)
        <4> SUFFICES ASSUME stop < Len(sorted_allocs) PROVE FALSE
          BY <1>1
        <4>1. stop \in 1 .. Len(sorted_allocs) /\ stop + 1 \in 1 .. Len(sorted_allocs)
              /\ stop < stop + 1
          BY <1>1, <3>2
        <4>2. End(sorted_allocs[stop]) <= sorted_allocs[stop + 1].base - Header
          BY <1>1, <4>1 DEF SortedAllocs
        <4>3. End(sorted_allocs[stop + 1]) <= heap_ptr /\ End(sorted_allocs[stop]) = heap_ptr
          BY <1>4, <2>3, <3>2, <4>1
        <4>4. /\ sorted_allocs[stop + 1].base \in Nat /\ End(sorted_allocs[stop + 1]) \in Nat
              /\ sorted_allocs[stop + 1].base < End(sorted_allocs[stop + 1])
          BY <1>4, <4>1
        <4> QED
          BY <1>1, <4>2, <4>3, <4>4, HeapAssumption
      <3>4. CleanAt(sorted_allocs, heap_ptr, stop)
        <4>1. (stop + 1) .. Len(sorted_allocs) = {}
          BY <1>1, <3>3
        <4> QED
          BY <2>3, <2>4, <3>2, <4>1 DEF CleanAt
      <3> QED
        BY <1>1, <3>1, <3>4 DEF Clean
    <2> QED
      BY <1>1, <2>3, <2>5, <2>6
  <1> QED
    BY <1>1, <1>5, <1>6

\* Popping stops at the first mark when the loop's condition is false there.
LEMMA FirstRemains ==
  ASSUME NEW count \in Nat, count > 0, NEW n \in 0 .. count, NEW drop, Remain(count, drop, n),
         1 \notin drop
  PROVE  n \in 1 .. count
  BY DEF Remain

\* As long as the first mark stays and its address stays clean, it is the root.
LEMMA RootKept ==
  ASSUME NEW t \in Threads, RootMark(t), Len(heap_marks'[t]) > 0,
         heap_marks'[t][1] = heap_marks[t][1], NEW p, p = heap_marks[t][1].mark,
         \A i \in 1 .. Len(heap_marks'[t]) : heap_marks'[t][i].mark >= p,
         Clean(p)'
  PROVE  RootMark(t)'
  BY DEF RootMark, Clean

\* A new mark lies above the root's.
LEMMA PushKeepsRoot ==
  ASSUME HeapInv, NEW t \in Threads, RootMark(t), NEW bp \in Nat \ {0}, NEW depth \in Nat \cup {-1},
         MarksPush(t, bp, depth, TRUE), bp > 1 \/ depth > -1,
         UNCHANGED <<heap_ptr, sorted_allocs>>
  PROVE  RootMark(t)'
  <1> DEFINE m == heap_marks[t]
             e == [bp |-> bp, depth |-> depth, mark |-> heap_ptr]
  <1>1. /\ m \in Seq(Mark) /\ heap_ptr \in Nat /\ heap_marks \in [Threads -> Seq(Mark)]
        /\ e \in Mark /\ Len(m) \in Nat /\ Len(m) > 0
    BY DEF HeapInv, TypeOK, Mark, RootMark
  <1>2. PICK n \in 0 .. Len(m) :
          /\ Remain(Len(m), MarksAt(t, bp, depth), n)
          /\ heap_marks' = [heap_marks EXCEPT ![t] = Append(Prefix(@, n), e)]
    BY DEF MarksPush
  <1>3. 1 \notin MarksAt(t, bp, depth)
    BY DEF MarksAt, RootMark
  <1>4. n \in 1 .. Len(m)
    BY <1>1, <1>2, <1>3, FirstRemains
  <1>5. heap_marks'[t] = Append(Prefix(m, n), e)
    BY <1>1, <1>2
  <1>6. /\ Prefix(m, n) \in Seq(Mark) /\ Len(Prefix(m, n)) = n
        /\ \A i \in 1 .. n : Prefix(m, n)[i] = m[i]
    BY <1>1, PrefixFacts
  <1>7. /\ Len(heap_marks'[t]) = n + 1 /\ heap_marks'[t][n + 1] = e
        /\ \A i \in 1 .. n : heap_marks'[t][i] = m[i]
    BY <1>1, <1>5, <1>6, AppendFacts
  <1>8. PICK p : p = m[1].mark
    OBVIOUS
  <1>9. /\ p <= heap_ptr /\ Clean(p) /\ \A i \in 1 .. Len(m) : m[i].mark >= p
    BY <1>8 DEF RootMark, Clean
  <1>10. p \in Nat
    BY <1>1, <1>8, MarkTyped
  <1> HIDE DEF m
  <1>11. \A i \in 1 .. Len(heap_marks'[t]) : heap_marks'[t][i].mark >= p
    <2>1. e.mark >= p
      BY <1>1, <1>9, <1>10
    <2>2. \A i \in 1 .. (n + 1) : i = n + 1 \/ (i \in 1 .. n /\ i \in 1 .. Len(m))
      BY <1>1, <1>4
    <2> QED
      BY <1>7, <1>9, <2>1, <2>2
  <1>12. Clean(p)'
    BY <1>9 DEF Clean
  <1>13. Len(heap_marks'[t]) > 0 /\ heap_marks'[t][1] = m[1]
    BY <1>1, <1>4, <1>7
  <1> QED
    BY <1>8, <1>11, <1>12, <1>13, RootKept DEF m

\* Popping marks above the root and rewinding to the last one popped.
LEMMA PopKeepsRoot ==
  ASSUME HeapInv, NEW t \in Threads, RootMark(t), NEW n \in 1 .. Len(heap_marks[t]),
         heap_marks' = [heap_marks EXCEPT ![t] = Prefix(@, n)],
         NEW sweep,
         \/ UNCHANGED <<heap_ptr, sorted_allocs>>
         \/ n < Len(heap_marks[t]) /\ RewindTo(t, heap_marks[t][n + 1].mark, sweep)
  PROVE  RootMark(t)'
  <1> DEFINE m == heap_marks[t]
  <1>1. m \in Seq(Mark) /\ heap_marks \in [Threads -> Seq(Mark)] /\ Len(m) \in Nat /\ Len(m) > 0
    BY DEF HeapInv, TypeOK, RootMark
  <1>2. heap_marks'[t] = Prefix(m, n)
    BY <1>1
  <1>3. Len(heap_marks'[t]) = n /\ \A i \in 1 .. n : heap_marks'[t][i] = m[i]
    BY <1>1, <1>2, PrefixFacts
  <1>4. PICK p : p = m[1].mark
    OBVIOUS
  <1>5. Clean(p) /\ \A i \in 1 .. Len(m) : m[i].mark >= p
    BY <1>4 DEF RootMark
  <1>6. p \in Nat /\ \A i \in 1 .. Len(m) : m[i].mark \in Nat
    BY <1>1, <1>4, MarkTyped
  <1>7. Clean(p)'
    <2>1. CASE UNCHANGED <<heap_ptr, sorted_allocs>>
      BY <1>5, <2>1 DEF Clean
    <2>2. CASE n < Len(m) /\ RewindTo(t, m[n + 1].mark, sweep)
      <3>1. n + 1 \in 1 .. Len(m)
        BY <1>1, <2>2
      <3>2. m[n + 1].mark \in Nat /\ p <= m[n + 1].mark
        BY <1>5, <1>6, <3>1
      <3> QED
        BY <1>5, <1>6, <2>2, <3>2, RewindKeepsClean
    <2> QED
      BY <2>1, <2>2
  <1> HIDE DEF m
  <1>8. /\ Len(heap_marks'[t]) > 0 /\ heap_marks'[t][1] = m[1]
        /\ \A i \in 1 .. Len(heap_marks'[t]) : heap_marks'[t][i].mark >= p
    BY <1>1, <1>3, <1>5 DEF m
  <1> QED
    BY <1>4, <1>7, <1>8, RootKept DEF m

\* Unwinding that keeps the root mark.
LEMMA UnwindKeepsRoot ==
  ASSUME HeapInv, NEW t \in Threads, RootMark(t), NEW drop, MarksUnwind(t, drop), 1 \notin drop
  PROVE  RootMark(t)'
  <1>1. Len(heap_marks[t]) \in Nat /\ Len(heap_marks[t]) > 0
    BY DEF HeapInv, TypeOK, RootMark
  <1>2. PICK n \in 0 .. Len(heap_marks[t]) :
          /\ Remain(Len(heap_marks[t]), drop, n)
          /\ heap_marks' = [heap_marks EXCEPT ![t] = Prefix(@, n)]
          /\ IF n < Len(heap_marks[t])
             THEN RewindTo(t, heap_marks[t][n + 1].mark, AutoKinds)
             ELSE UNCHANGED <<heap_ptr, sorted_allocs>>
    BY DEF MarksUnwind
  <1>3. n \in 1 .. Len(heap_marks[t])
    BY <1>1, <1>2, FirstRemains
  <1> QED
    BY <1>2, <1>3, PopKeepsRoot

\* Unwinding everything rewinds to the root's clean address.
LEMMA UnwindAll ==
  ASSUME HeapInv, NEW t \in Threads, Threads = {t}, RootMark(t), NEW drop, MarksUnwind(t, drop),
         \A i \in 1 .. Len(heap_marks[t]) : i \in drop
  PROVE  Clean(heap_ptr)'
  <1>1. Len(heap_marks[t]) \in Nat /\ Len(heap_marks[t]) > 0
    BY DEF HeapInv, TypeOK, RootMark
  <1>2. PICK n \in 0 .. Len(heap_marks[t]) :
          /\ Remain(Len(heap_marks[t]), drop, n)
          /\ IF n < Len(heap_marks[t])
             THEN RewindTo(t, heap_marks[t][n + 1].mark, AutoKinds)
             ELSE UNCHANGED <<heap_ptr, sorted_allocs>>
    BY DEF MarksUnwind
  <1>3. n = 0
    BY <1>1, <1>2 DEF Remain
  <1>4. RewindTo(t, heap_marks[t][1].mark, AutoKinds)
    BY <1>1, <1>2, <1>3
  <1>5. heap_marks[t][1].mark \in Nat /\ Clean(heap_marks[t][1].mark)
    BY <1>1, MarkTyped DEF RootMark
  <1> QED
    BY <1>4, <1>5, RewindToClean

\* Allocating above a clean address keeps it clean.
LEMMA AllocKeepsRoot ==
  ASSUME HeapInv, NEW t \in Threads, RootMark(t), NEW size \in Sizes, NEW align \in Nat \ {0},
         NEW kind \in Kinds, NEW blk, BumpAlloc(t, size, align, kind, blk)
  PROVE  RootMark(t)'
  <1>1. /\ sorted_allocs \in Seq(Alloc) /\ heap_ptr \in Nat /\ heap_marks' = heap_marks
        /\ heap_ptr' = heap_ptr + (Pad(align) + Header + size)
        /\ sorted_allocs' = Append(sorted_allocs,
             [base |-> heap_ptr + Pad(align) + Header, size |-> size, kind |-> kind,
              owner |-> t, freed |-> FALSE])
    BY DEF BumpAlloc, HeapInv, TypeOK
  <1>2. Pad(align) \in Nat /\ Header \in Nat /\ size \in Nat \ {0}
    BY <1>1, PadNat, HeapAssumption
  <1>3. PICK a : a = [base |-> heap_ptr + Pad(align) + Header, size |-> size, kind |-> kind,
                      owner |-> t, freed |-> FALSE]
    OBVIOUS
  <1>4. a \in Alloc /\ a.base >= heap_ptr /\ sorted_allocs' = Append(sorted_allocs, a)
        /\ heap_ptr' >= heap_ptr /\ heap_ptr' \in Nat
    BY <1>1, <1>2, <1>3 DEF Alloc
  <1>5. /\ Len(sorted_allocs') = Len(sorted_allocs) + 1 /\ Len(sorted_allocs) \in Nat
        /\ \A i \in 1 .. Len(sorted_allocs) : sorted_allocs'[i] = sorted_allocs[i]
        /\ sorted_allocs'[Len(sorted_allocs) + 1] = a
    BY <1>1, <1>4, AppendFacts
  <1>6. PICK p : p = heap_marks[t][1].mark
    OBVIOUS
  <1>7. Clean(p) /\ p \in Nat
    BY <1>6, MarkTyped DEF RootMark, HeapInv, TypeOK
  <1>8. PICK n \in 0 .. Len(sorted_allocs) : CleanAt(sorted_allocs, p, n)
    BY <1>7 DEF Clean
  <1>9. p <= heap_ptr /\ a.base \in Nat
    BY <1>4, <1>7 DEF Clean, Alloc
  <1>10. CleanAt(sorted_allocs', p, n)
    <2>1. n \in 0 .. Len(sorted_allocs')
      BY <1>5
    <2>2. \A i \in 1 .. n : i \in 1 .. Len(sorted_allocs)
      BY <1>5
    <2>3. \A i \in (n + 1) .. Len(sorted_allocs') :
            \/ i = Len(sorted_allocs) + 1
            \/ i \in (n + 1) .. Len(sorted_allocs) /\ i \in 1 .. Len(sorted_allocs)
      BY <1>5
    <2>4. a.base >= p
      BY <1>1, <1>4, <1>7, <1>9
    <2>5. \A i \in (n + 1) .. Len(sorted_allocs') : sorted_allocs'[i].base >= p
      BY <1>5, <1>8, <2>3, <2>4 DEF CleanAt
    <2>6. \A i \in 1 .. n : End(sorted_allocs'[i]) <= p
      BY <1>5, <1>8, <2>2 DEF CleanAt
    <2>7. n > 0 => n \in 1 .. Len(sorted_allocs)
      BY <1>5
    <2> QED
      BY <1>5, <1>8, <2>1, <2>5, <2>6, <2>7 DEF CleanAt
  <1>11. n \in 0 .. Len(sorted_allocs')
    BY <1>10 DEF CleanAt
  <1>12. p <= heap_ptr'
    BY <1>1, <1>4, <1>7, <1>9
  <1>13. Clean(p)'
    BY <1>10, <1>11, <1>12 DEF Clean
  <1>14. /\ Len(heap_marks'[t]) > 0 /\ heap_marks'[t][1] = heap_marks[t][1]
         /\ \A i \in 1 .. Len(heap_marks'[t]) : heap_marks'[t][i].mark >= p
    BY <1>1, <1>6 DEF RootMark
  <1> QED
    BY <1>6, <1>13, <1>14, RootKept

\* Free marks a block and moves nothing.
LEMMA FreeKeepsClean ==
  ASSUME HeapInv, NEW j, Free(j), NEW p, Clean(p)
  PROVE  Clean(p)'
  <1>1. /\ sorted_allocs \in Seq(Alloc) /\ j \in 1 .. Len(sorted_allocs) /\ heap_ptr' = heap_ptr
        /\ sorted_allocs' = [sorted_allocs EXCEPT ![j].freed = TRUE]
    BY DEF Free, HeapInv, TypeOK
  <1>2. Len(sorted_allocs') = Len(sorted_allocs)
    BY <1>1
  <1>3. \A i \in 1 .. Len(sorted_allocs) :
          /\ sorted_allocs'[i].base = sorted_allocs[i].base
          /\ sorted_allocs'[i].size = sorted_allocs[i].size
          /\ sorted_allocs'[i].kind = sorted_allocs[i].kind
    <2> SUFFICES ASSUME NEW i \in 1 .. Len(sorted_allocs)
                 PROVE  /\ sorted_allocs'[i].base = sorted_allocs[i].base
                        /\ sorted_allocs'[i].size = sorted_allocs[i].size
                        /\ sorted_allocs'[i].kind = sorted_allocs[i].kind
      OBVIOUS
    <2>1. sorted_allocs[i] \in Alloc
      BY <1>1
    <2> QED
      BY <1>1, <2>1 DEF Alloc
  <1>4. PICK n \in 0 .. Len(sorted_allocs) : CleanAt(sorted_allocs, p, n)
    BY DEF Clean
  <1>5. CleanAt(sorted_allocs', p, n)
    <2>1. Len(sorted_allocs) \in Nat
      BY <1>1
    <2>2. /\ \A i \in 1 .. n : i \in 1 .. Len(sorted_allocs)
          /\ \A i \in (n + 1) .. Len(sorted_allocs) : i \in 1 .. Len(sorted_allocs)
          /\ n > 0 => n \in 1 .. Len(sorted_allocs)
      BY <2>1
    <2> QED
      BY <1>2, <1>3, <1>4, <2>2 DEF CleanAt, End
  <1> QED
    BY <1>1, <1>2, <1>4, <1>5 DEF Clean

\* The step of the single thread.
LEMMA ThreadReclaims ==
  ASSUME HeapInv, NEW t \in Threads, Threads = {t}, ReclaimInv(t), ThreadStep(t)
  PROVE  ReclaimInv(t)'
  <1> SUFFICES ASSUME ~ forfeit' PROVE IF Level(t)' = 0 THEN Clean(heap_ptr)' ELSE RootMark(t)'
    BY DEF ReclaimInv, Level
  <1>1. /\ frames \in [Threads -> Seq(Nat)] /\ Level(t) \in Nat /\ frames[t] \in Seq(Nat)
        /\ forfeit \in BOOLEAN
        /\ \A i \in 1 .. Len(heap_marks[t]) : heap_marks[t][i].bp <= Level(t)
    BY DEF HeapInv, TypeOK, Level, MarksOrdered
  <1>2. \A i \in 1 .. Len(heap_marks[t]) :
          heap_marks[t][i].bp \in Nat \ {0} /\ heap_marks[t][i].depth >= -1
    BY MarkTyped
  <1>3. ASSUME NEW ok \in MarkRecorded, Call(t, ok)
        PROVE  Level(t)' # 0 /\ RootMark(t)'
    <2>1. Level(t)' = Level(t) + 1
      BY <1>1, <1>3 DEF Call, Level
    <2>2. /\ ok = TRUE /\ MarksPush(t, Level(t) + 1, -1, TRUE) /\ ~ forfeit
          /\ UNCHANGED <<heap_ptr, sorted_allocs>>
      BY <1>1, <1>3, HeapAssumption DEF Call, MarksPush
    <2>3. CASE Level(t) > 0
      <3>1. RootMark(t)
        BY <1>1, <2>2, <2>3 DEF ReclaimInv
      <3>2. Level(t) + 1 \in Nat \ {0} /\ Level(t) + 1 > 1 /\ -1 \in Nat \cup {-1}
        BY <1>1, <2>3
      <3>3. RootMark(t)'
        BY <2>2, <3>1, <3>2, PushKeepsRoot
      <3> QED
        BY <1>1, <2>1, <3>3
    <2>4. CASE Level(t) = 0
      <3>1. Len(heap_marks[t]) = 0
        <4>1. Len(heap_marks[t]) \in Nat
          BY DEF HeapInv, TypeOK
        <4> QED
          BY <1>1, <1>2, <2>4, <4>1
      <3>2. PICK e : e = [bp |-> 1, depth |-> -1, mark |-> heap_ptr]
        OBVIOUS
      <3>3. e \in Mark /\ heap_marks \in [Threads -> Seq(Mark)] /\ heap_ptr \in Nat
        BY <3>2 DEF HeapInv, TypeOK, Mark
      <3>4. heap_marks'[t] = Append(Prefix(heap_marks[t], 0), e)
        BY <2>2, <2>4, <3>1, <3>2, <3>3 DEF MarksPush
      <3>5. Prefix(heap_marks[t], 0) \in Seq(Mark) /\ Len(Prefix(heap_marks[t], 0)) = 0
        <4>1. heap_marks[t] \in Seq(Mark) /\ 0 \in 0 .. Len(heap_marks[t])
          BY <3>1, <3>3
        <4> QED
          BY <4>1, PrefixFacts
      <3>6. Len(heap_marks'[t]) = 1 /\ heap_marks'[t][1] = e
        BY <3>3, <3>4, <3>5, AppendFacts
      <3>7. Clean(heap_ptr)
        BY <2>2, <2>4 DEF ReclaimInv
      <3>8. \A i \in 1 .. 1 : i = 1
        OBVIOUS
      <3>9. e.mark = heap_ptr /\ e.bp = 1 /\ e.depth = -1 /\ heap_ptr >= heap_ptr
        BY <3>2, <3>3
      <3>10. RootMark(t)'
        BY <2>2, <3>6, <3>7, <3>8, <3>9 DEF RootMark, Clean
      <3> QED
        BY <2>1, <2>4, <3>10
    <2> QED
      BY <1>1, <2>3, <2>4
  <1>4. ASSUME NEW ok \in MarkRecorded, TailCall(t, ok) PROVE FALSE
    BY <1>4 DEF TailCall
  <1>5. Level(t) > 0 /\ ~ forfeit => RootMark(t)
    BY <1>1 DEF ReclaimInv
  <1>6. ASSUME NEW ok \in MarkRecorded, EnterBlock(t, ok)
        PROVE  Level(t)' # 0 /\ RootMark(t)'
    <2>1. Level(t)' = Level(t) /\ Level(t) > 0
      BY <1>1, <1>6 DEF EnterBlock, Level
    <2>2. /\ ok = TRUE /\ MarksPush(t, Level(t), frames[t][Level(t)], TRUE) /\ ~ forfeit
          /\ UNCHANGED <<heap_ptr, sorted_allocs>>
      BY <1>1, <1>6, HeapAssumption DEF EnterBlock, MarksPush
    <2>3. frames[t][Level(t)] \in Nat
      BY <1>1, <2>1 DEF Level
    <2>4. /\ Level(t) \in Nat \ {0} /\ frames[t][Level(t)] \in Nat \cup {-1}
          /\ frames[t][Level(t)] > -1
      BY <1>1, <2>1, <2>3
    <2>5. RootMark(t)'
      BY <1>5, <2>1, <2>2, <2>4, PushKeepsRoot
    <2> QED
      BY <2>1, <2>5
  <1>7. CASE Return(t)
    <2>1. /\ Level(t) > 0 /\ Level(t)' = Level(t) - 1 /\ ~ forfeit
          /\ MarksUnwind(t, MarksAt(t, Level(t), -1))
      <3>1. frames'[t] = Prefix(frames[t], Len(frames[t]) - 1) /\ Level(t) > 0
        BY <1>1, <1>7 DEF Return
      <3>2. Len(frames[t]) - 1 \in 0 .. Len(frames[t])
        BY <1>1, <3>1 DEF Level
      <3>3. Len(Prefix(frames[t], Len(frames[t]) - 1)) = Len(frames[t]) - 1
        BY <1>1, <3>2, PrefixFacts
      <3>4. Len(frames'[t]) = Len(frames[t]) - 1
        BY <3>1, <3>3
      <3> QED
        BY <1>7, <3>1, <3>4 DEF Return, MarksPopFrame, Level
    <2>2. CASE Level(t) = 1
      <3>1. \A i \in 1 .. Len(heap_marks[t]) : i \in MarksAt(t, Level(t), -1)
        <4> SUFFICES ASSUME NEW i \in 1 .. Len(heap_marks[t])
                     PROVE  heap_marks[t][i].bp = 1 /\ heap_marks[t][i].depth >= -1
          BY <2>2 DEF MarksAt
        <4>1. /\ heap_marks[t][i].bp \in Nat \ {0} /\ heap_marks[t][i].bp <= 1
              /\ heap_marks[t][i].depth >= -1
          BY <1>1, <1>2, <2>2
        <4> QED
          BY <4>1
      <3>2. Clean(heap_ptr)'
        BY <1>5, <2>1, <3>1, UnwindAll
      <3> QED
        BY <2>1, <2>2, <3>2
    <2>3. CASE Level(t) # 1
      <3>1. 1 \notin MarksAt(t, Level(t), -1)
        BY <1>5, <2>1, <2>3 DEF MarksAt, RootMark
      <3>2. RootMark(t)'
        BY <1>5, <2>1, <3>1, UnwindKeepsRoot
      <3> QED
        BY <1>1, <2>1, <2>3, <3>2
    <2> QED
      BY <2>2, <2>3
  <1>8. CASE ExitBlock(t)
    <2>1. /\ Level(t) > 0 /\ Level(t)' = Level(t) /\ ~ forfeit /\ frames[t][Level(t)] \in Nat
          /\ frames[t][Level(t)] > 0 /\ MarksRelease(t, frames[t][Level(t)] - 1)
      BY <1>1, <1>8 DEF ExitBlock, Level
    <2>2. RootMark(t) /\ heap_marks[t] \in Seq(Mark) /\ heap_marks \in [Threads -> Seq(Mark)]
      BY <1>5, <2>1 DEF HeapInv, TypeOK
    <2>3. CASE UNCHANGED <<heap_ptr, sorted_allocs, heap_marks>>
      BY <2>1, <2>2, <2>3 DEF RootMark, Clean
    <2>4. ASSUME NEW i \in MarksFound(t, frames[t][Level(t)] - 1),
                 heap_marks' = [heap_marks EXCEPT ![t] = Prefix(@, i - 1)],
                 RewindTo(t, heap_marks[t][i].mark, {"FRAME"})
          PROVE  RootMark(t)'
      <3>1. i \in 1 .. Len(heap_marks[t]) /\ i # 1
        BY <2>1, <2>2, <2>4 DEF MarksFound, RootMark
      <3>2. PICK n \in 1 .. Len(heap_marks[t]) : n = i - 1
        BY <2>2, <3>1
      <3>3. n < Len(heap_marks[t]) /\ n + 1 = i
        BY <2>2, <3>1, <3>2
      <3> QED
        BY <2>2, <2>4, <3>2, <3>3, PopKeepsRoot
    <2> QED
      BY <2>1, <2>3, <2>4 DEF MarksRelease
  <1>9. ASSUME NEW k \in 0 .. MaxBlocks, NEW S, JumpOut(t, k, S)
        PROVE  Level(t)' # 0 /\ RootMark(t)'
    <2>1. Level(t)' = Level(t) /\ Level(t) > 0 /\ ~ forfeit
          /\ UNCHANGED <<heap_ptr, sorted_allocs, heap_marks>>
      BY <1>1, <1>9 DEF JumpOut, Level
    <2> QED
      BY <1>5, <2>1 DEF RootMark, Clean
  <1>10. ASSUME NEW level \in 1 .. MaxFrames, NEW k \in 0 .. MaxBlocks, LongJmp(t, level, k)
         PROVE  Level(t)' # 0 /\ RootMark(t)'
    <2>1. /\ level \in 1 .. Level(t) /\ ~ forfeit /\ MarksUnwind(t, MarksBelow(t, level))
          /\ frames'[t] = [Prefix(frames[t], level) EXCEPT ![level] = k]
      BY <1>1, <1>10 DEF LongJmp, MarksTruncateTo
    <2>2. Level(t)' = level
      <3>1. Prefix(frames[t], level) \in Seq(Nat) /\ Len(Prefix(frames[t], level)) = level
        BY <1>1, <2>1, PrefixFacts DEF Level
      <3> QED
        BY <2>1, <3>1 DEF Level
    <2>3. RootMark(t)
      BY <1>1, <1>5, <2>1
    <2>4. 1 \notin MarksBelow(t, level)
      BY <2>1, <2>3 DEF MarksBelow, RootMark
    <2> QED
      BY <2>1, <2>2, <2>3, <2>4, UnwindKeepsRoot
  <1>11. CASE ThreadExit(t)
    <2>1. Level(t) > 0 /\ Level(t)' = 0 /\ ~ forfeit /\ MarksUnwind(t, MarksBelow(t, 0))
      BY <1>1, <1>11 DEF ThreadExit, Level, MarksTruncateTo
    <2>2. \A i \in 1 .. Len(heap_marks[t]) : i \in MarksBelow(t, 0)
      BY <1>2 DEF MarksBelow
    <2> QED
      BY <1>5, <2>1, <2>2, UnwindAll
  <1>12. ASSUME NEW size \in Sizes,
                \/ AllocVla(t, size)
                \/ \E kind \in OtherKinds : AllocOther(t, size, kind)
                \/ \E align \in Alignments : AllocAligned(t, size, align)
         PROVE  Level(t)' # 0 /\ RootMark(t)'
    <2>1. PICK align, kind, blk :
            align \in Nat \ {0} /\ kind \in Kinds /\ BumpAlloc(t, size, align, kind, blk)
      <3>1. CASE AllocVla(t, size)
        BY <3>1 DEF AllocVla, Kinds, AutoKinds
      <3>2. CASE \E kind \in OtherKinds : AllocOther(t, size, kind)
        BY <3>2, HeapAssumption DEF AllocOther, Kinds, AutoKinds, PinKinds
      <3>3. CASE \E align \in Alignments : AllocAligned(t, size, align)
        BY <3>3, HeapAssumption DEF AllocAligned, Kinds, PinKinds
      <3> QED
        BY <1>12, <3>1, <3>2, <3>3
    <2>2. Level(t) > 0
      BY <1>12 DEF AllocVla, AllocOther, AllocAligned
    <2>3. Level(t)' = Level(t) /\ ~ forfeit
      BY <2>1 DEF BumpAlloc, Level
    <2>4. RootMark(t)'
      BY <1>5, <2>1, <2>2, <2>3, AllocKeepsRoot
    <2> QED
      BY <2>2, <2>3, <2>4
  <1> QED
    BY <1>3, <1>4, <1>6, <1>7, <1>8, <1>9, <1>10, <1>11, <1>12 DEF ThreadStep

\* Reclamation is complete when there is one thread: whatever way the program
\* left its blocks and frames, once none is active the heap ends with a malloc
\* or a __block box, or is empty.
THEOREM SingleThreadReclaims ==
  ASSUME NEW t, Threads = {t}
  PROVE  Spec => []QuiescentReclaimed
  <1> t \in Threads
    OBVIOUS
  <1>1. Init => ReclaimInv(t)
    <2> SUFFICES ASSUME Init PROVE Level(t) = 0 /\ Clean(heap_ptr)
      BY DEF ReclaimInv
    <2>1. Level(t) = 0 /\ heap_ptr = 0 /\ sorted_allocs = << >> /\ Len(<< >>) = 0
      BY DEF Init, Level
    <2>2. CleanAt(<< >>, 0, 0)
      BY DEF CleanAt
    <2> QED
      BY <2>1, <2>2 DEF Clean
  <1>2. HeapInv /\ ReclaimInv(t) /\ [Next]_vars => ReclaimInv(t)'
    <2> SUFFICES ASSUME HeapInv, ReclaimInv(t), [Next]_vars PROVE ReclaimInv(t)'
      OBVIOUS
    <2>1. CASE ThreadStep(t)
      BY <2>1, ThreadReclaims
    <2>2. ASSUME NEW i, Free(i) PROVE ReclaimInv(t)'
      <3>1. UNCHANGED <<heap_ptr, heap_marks, frames, forfeit>>
        BY <2>2 DEF Free
      <3>2. \A p : Clean(p) => Clean(p)'
        BY <2>2, FreeKeepsClean
      <3>3. Clean(heap_ptr) => Clean(heap_ptr)'
        BY <3>1, <3>2 DEF Clean
      <3>4. RootMark(t) => RootMark(t)'
        BY <3>1, <3>2 DEF RootMark, Clean
      <3> QED
        BY <3>1, <3>3, <3>4 DEF ReclaimInv, Level
    <2>3. CASE UNCHANGED vars
      BY <2>3 DEF vars, ReclaimInv, RootMark, Clean, Level
    <2> QED
      BY <2>1, <2>2, <2>3 DEF Next
  <1>3. HeapInv /\ ReclaimInv(t) => QuiescentReclaimed
    <2> SUFFICES ASSUME HeapInv, ReclaimInv(t), ~ forfeit, Level(t) = 0
                 PROVE  IF sorted_allocs = << >> THEN heap_ptr = 0
                        ELSE /\ heap_ptr = End(sorted_allocs[Len(sorted_allocs)])
                             /\ sorted_allocs[Len(sorted_allocs)].kind \in PinKinds
      BY DEF QuiescentReclaimed
    <2>1. sorted_allocs \in Seq(Alloc) /\ heap_ptr \in Nat /\ SortedAllocs
      BY DEF HeapInv, TypeOK
    <2>2. PICK n \in 0 .. Len(sorted_allocs) : CleanAt(sorted_allocs, heap_ptr, n)
      BY DEF ReclaimInv, Clean
    <2>3. n = Len(sorted_allocs)
      <3> SUFFICES ASSUME n < Len(sorted_allocs) PROVE FALSE
        BY <2>1
      <3>1. n + 1 \in (n + 1) .. Len(sorted_allocs) /\ n + 1 \in 1 .. Len(sorted_allocs)
        BY <2>1
      <3>2. sorted_allocs[n + 1].base >= heap_ptr /\ End(sorted_allocs[n + 1]) <= heap_ptr
        BY <2>1, <2>2, <3>1 DEF CleanAt, SortedAllocs
      <3>3. sorted_allocs[n + 1] \in Alloc
        BY <2>1, <3>1
      <3> QED
        BY <2>1, <3>2, <3>3, AllocEnd
    <2> QED
      BY <2>1, <2>2, <2>3 DEF CleanAt
  <1> QED
    BY <1>1, <1>2, <1>3, InitHeapInv, NextHeapInv, PTL DEF Spec
=============================================================================
