------------------------------- MODULE VmHeap -------------------------------
(***************************************************************************)
(* The VM heap of cccc (src/ops.c, src/vm.c): one bump allocator shared by  *)
(* every guest thread, and the reclamation of alloca/VLA storage.           *)
(*                                                                          *)
(* Every thread keeps a stack of heap marks (heap_marks): one per frame     *)
(* (ENT3) and one per open block that declares a VLA (HMRK), each holding   *)
(* the bump pointer at the time it was pushed.  Leaving the block (HREL),   *)
(* leaving the frame (LEV3), longjmp and thread exit rewind the bump        *)
(* pointer towards such a mark with heap_rewind_to.                         *)
(*                                                                          *)
(* The guest stack grows down, so a frame is identified here by its level   *)
(* (1 is the outermost): "bps[i] < new_bp" in the code is "bp > level".     *)
(* Addresses and sizes are in units of 8 bytes, the default alignment.      *)
(* The GIL makes every operation below atomic; threads interleave between   *)
(* operations.  The run has heap_reclaim_enabled set, hence no heap         *)
(* canaries and no address-keyed safety feature.                            *)
(***************************************************************************)
EXTENDS Integers, Sequences

CONSTANTS
  Threads,     \* guest threads; the AllocHeader.owner tag of their storage
  Header,      \* sizeof(AllocHeader)
  Sizes,       \* rounded request sizes of the allocations explored
  OtherKinds,  \* the AllocKinds explored besides VLAs
  Alignments,  \* alignments asked for by aligned_alloc / posix_memalign
  MarkRecorded, \* {TRUE}, or BOOLEAN: growing the mark arrays may fail
  PoolSize,    \* vm->poolsize: initial and minimal commit of the heap
  PoolSizeMax, \* vm->poolsize_max: reservation of the heap
  MaxAllocs,   \* bound: tracked allocations
  MaxFrames,   \* bound: call depth of a thread
  MaxBlocks    \* bound: nested VLA-declaring blocks of a frame

ASSUME HeapAssumption ==
  /\ Header \in Nat \ {0}
  /\ Sizes \subseteq Nat \ {0}
  /\ OtherKinds \subseteq {"ALLOCA", "USER", "BLOCK_BOX"}
  /\ Alignments \subseteq Nat \ {0}
  /\ MarkRecorded \subseteq BOOLEAN
  /\ PoolSize \in Nat \ {0}
  /\ PoolSizeMax \in Nat
  /\ PoolSize <= PoolSizeMax
  /\ MaxAllocs \in Nat /\ MaxFrames \in Nat /\ MaxBlocks \in Nat

VARIABLES
  heap_ptr,      \* the bump pointer, as an offset from heap_seg
  heap_end,      \* end of the committed part of the heap
  sorted_allocs, \* the tracked allocations, in append order
  heap_marks,    \* per thread: its stack of marks
  frames,        \* per thread: for each active frame, its open VLA blocks
  live,          \* ghost: storage the guest program may still use
  forfeit        \* ghost: a mark was lost (bookkeeping OOM or tail call)

vars == <<heap_ptr, heap_end, sorted_allocs, heap_marks, frames, live, forfeit>>

-----------------------------------------------------------------------------
(* AllocKind *)
AutoKinds == {"FRAME", "ALLOCA"}        \* a VLA; a bare alloca
PinKinds  == {"USER", "BLOCK_BOX"}      \* malloc and friends; a __block box
Kinds     == AutoKinds \cup PinKinds

Alloc == [base : Nat, size : Nat \ {0}, kind : Kinds, owner : Threads,
          freed : BOOLEAN]
Mark  == [bp : Nat \ {0}, depth : Nat \cup {-1}, mark : Nat]

\* A piece of guest-visible storage; blk is the VLA block that declares it,
\* -1 for storage that lives as long as its frame (or longer).
Storage == [base : Nat, size : Nat \ {0}, kind : Kinds, owner : Threads,
            bp : Nat \ {0}, blk : Nat \cup {-1}]

End(a) == a.base + a.size
Level(t) == Len(frames[t])

\* n entries of an array of count entries remain after popping, from the top,
\* as long as the index is in drop: "while (count > 0 && ...) count--".
Remain(count, drop, n) ==
  /\ n \in 0 .. count
  /\ \A i \in (n + 1) .. count : i \in drop
  /\ n > 0 => n \notin drop

Prefix(s, n) == SubSeq(s, 1, n)
-----------------------------------------------------------------------------
(* heap_rewind_to(vm, target, sweep): sweep the suffix of the tracked       *)
(* allocations that thread t may reclaim above target, and rewind the bump  *)
(* pointer no further than the end of the highest one kept.                 *)
SweepableAnyOwner(t, target, sweep) ==  \* mutant: ownership not checked
  {i \in 1 .. Len(sorted_allocs) :
     sorted_allocs[i].base >= target /\ sorted_allocs[i].kind \in sweep}

Sweepable(t, target, sweep) ==
  {i \in 1 .. Len(sorted_allocs) :
     /\ sorted_allocs[i].base >= target
     /\ sorted_allocs[i].owner = t
     /\ sorted_allocs[i].kind \in sweep}

EffectiveTargetUnpinned(target, stop) == target  \* mutant: kept blocks ignored

EffectiveTarget(target, stop) ==
  IF stop > 0 /\ End(sorted_allocs[stop]) > target
  THEN End(sorted_allocs[stop]) ELSE target

RewindTo(t, target, sweep) ==
  \/ /\ heap_ptr <= target
     /\ UNCHANGED <<heap_ptr, sorted_allocs>>
  \/ /\ heap_ptr > target
     /\ \E stop \in 0 .. Len(sorted_allocs) :
          /\ Remain(Len(sorted_allocs), Sweepable(t, target, sweep), stop)
          /\ \/ /\ EffectiveTarget(target, stop) >= heap_ptr
                /\ UNCHANGED <<heap_ptr, sorted_allocs>>
             \/ /\ EffectiveTarget(target, stop) < heap_ptr
                /\ heap_ptr' = EffectiveTarget(target, stop)
                /\ sorted_allocs' = Prefix(sorted_allocs, stop)

(* The marks of frame bp of thread t at depth or deeper; those of frames    *)
(* deeper than level.                                                       *)
MarksAt(t, bp, depth) ==
  {i \in 1 .. Len(heap_marks[t]) :
     heap_marks[t][i].bp = bp /\ heap_marks[t][i].depth >= depth}

MarksBelow(t, level) ==
  {i \in 1 .. Len(heap_marks[t]) : heap_marks[t][i].bp > level}

(* heap_marks_push: drop this frame's marks at depth or deeper, then push;  *)
(* ok is FALSE when growing the arrays failed and the mark is not recorded. *)
MarksPushOnTop(t, bp, depth, ok) ==  \* mutant: stale marks are not dropped
  /\ heap_marks' = [heap_marks EXCEPT ![t] =
       IF ok THEN Append(@, [bp |-> bp, depth |-> depth, mark |-> heap_ptr]) ELSE @]
  /\ forfeit' = (forfeit \/ ~ ok)

MarksPushReuse(t, bp, depth, ok) ==  \* mutant: an old mark of the block is reused
  \E n \in 0 .. Len(heap_marks[t]) :
    /\ Remain(Len(heap_marks[t]), MarksAt(t, bp, depth + 1), n)
    /\ heap_marks' = [heap_marks EXCEPT ![t] =
         IF ok /\ MarksAt(t, bp, depth) = {}
         THEN Append(Prefix(@, n), [bp |-> bp, depth |-> depth, mark |-> heap_ptr])
         ELSE Prefix(@, n)]
    /\ forfeit' = (forfeit \/ ~ ok)

MarksPush(t, bp, depth, ok) ==
  \E n \in 0 .. Len(heap_marks[t]) :
    /\ Remain(Len(heap_marks[t]), MarksAt(t, bp, depth), n)
    /\ heap_marks' = [heap_marks EXCEPT ![t] =
         IF ok THEN Append(Prefix(@, n),
                           [bp |-> bp, depth |-> depth, mark |-> heap_ptr])
               ELSE Prefix(@, n)]
    /\ forfeit' = (forfeit \/ ~ ok)

(* Pop the marks in drop from the top, then rewind to the one popped last,  *)
(* which is the earliest pushed.                                            *)
MarksUnwindNewest(t, drop) ==  \* mutant: rewinds to the mark popped first
  \E n \in 0 .. Len(heap_marks[t]) :
    /\ Remain(Len(heap_marks[t]), drop, n)
    /\ heap_marks' = [heap_marks EXCEPT ![t] = Prefix(@, n)]
    /\ IF n < Len(heap_marks[t])
       THEN RewindTo(t, heap_marks[t][Len(heap_marks[t])].mark, AutoKinds)
       ELSE UNCHANGED <<heap_ptr, sorted_allocs>>

MarksUnwind(t, drop) ==
  \E n \in 0 .. Len(heap_marks[t]) :
    /\ Remain(Len(heap_marks[t]), drop, n)
    /\ heap_marks' = [heap_marks EXCEPT ![t] = Prefix(@, n)]
    /\ IF n < Len(heap_marks[t])
       THEN RewindTo(t, heap_marks[t][n + 1].mark, AutoKinds)
       ELSE UNCHANGED <<heap_ptr, sorted_allocs>>

(* heap_marks_pop_frame followed by the rewind of LEV3. *)
MarksPopFrame(t) == MarksUnwind(t, MarksAt(t, Level(t), -1))

(* heap_marks_truncate_to: every frame deeper than level is discarded. *)
MarksTruncateTo(t, level) == MarksUnwind(t, MarksBelow(t, level))

-----------------------------------------------------------------------------
(* Storage whose lifetime ends when t drops to the given level, and when    *)
(* its innermost frame keeps only its outermost k VLA blocks open.          *)
DeadFrames(t, level) ==
  {a \in live : a.owner = t /\ a.kind \in AutoKinds /\ a.bp > level}

DeadBlocks(t, level, k) ==
  {a \in live : a.owner = t /\ a.kind = "FRAME" /\ a.bp = level /\ a.blk >= k}

DeclaredIn(t, level, d) == {a \in DeadBlocks(t, level, 0) : a.blk = d}

-----------------------------------------------------------------------------
Init ==
  /\ heap_ptr = 0
  /\ heap_end = PoolSize
  /\ sorted_allocs = << >>
  /\ heap_marks = [t \in Threads |-> << >>]
  /\ frames = [t \in Threads |-> << >>]
  /\ live = {}
  /\ forfeit = FALSE

(* ENT3: a call, or the start function of a thread. *)
Call(t, ok) ==
  /\ Level(t) < MaxFrames
  /\ frames' = [frames EXCEPT ![t] = Append(@, 0)]
  /\ MarksPush(t, Level(t) + 1, -1, ok)
  /\ UNCHANGED <<heap_ptr, heap_end, sorted_allocs, live>>

(* LEV3: retire the innermost frame. *)
Return(t) ==
  /\ Level(t) > 0
  /\ MarksPopFrame(t)
  /\ frames' = [frames EXCEPT ![t] = Prefix(@, Len(@) - 1)]
  /\ live' = live \ DeadFrames(t, Level(t) - 1)
  /\ UNCHANGED <<heap_end, forfeit>>

(* CALLT and the ENT3 of the callee, which reuses the frame: the marks are  *)
(* dropped without a rewind, because an argument of the call may point into *)
(* the caller's heap storage, which therefore lives on with the frame.      *)
TailCall(t, ok) ==
  /\ Level(t) > 0
  /\ \E n \in 0 .. Len(heap_marks[t]) :
       /\ Remain(Len(heap_marks[t]), MarksAt(t, Level(t), -1), n)
       /\ heap_marks' = [heap_marks EXCEPT ![t] =
            IF ok THEN Append(Prefix(@, n),
                        [bp |-> Level(t), depth |-> -1, mark |-> heap_ptr])
                  ELSE Prefix(@, n)]
  /\ frames' = [frames EXCEPT ![t] = Append(Prefix(@, Len(@) - 1), 0)]
  /\ live' = (live \ DeadBlocks(t, Level(t), 0))
               \cup {[a EXCEPT !.blk = -1] : a \in DeadBlocks(t, Level(t), 0)}
  /\ forfeit' = TRUE
  /\ UNCHANGED <<heap_ptr, heap_end, sorted_allocs>>

(* HMRK: enter a VLA-declaring block from its top. *)
EnterBlock(t, ok) ==
  /\ Level(t) > 0
  /\ frames[t][Level(t)] < MaxBlocks
  /\ MarksPush(t, Level(t), frames[t][Level(t)], ok)
  /\ frames' = [frames EXCEPT ![t][Level(t)] = @ + 1]
  /\ UNCHANGED <<heap_ptr, heap_end, sorted_allocs, live>>

(* HREL: leave the innermost VLA block by falling out of its end.  The scan *)
(* for its mark stops where the marks of another frame begin.               *)
MarksFoundAnyFrame(t, depth) ==  \* mutant: the scan crosses into outer frames
  {i \in 1 .. Len(heap_marks[t]) : heap_marks[t][i].depth = depth}

MarksFound(t, depth) ==
  {i \in 1 .. Len(heap_marks[t]) :
     /\ heap_marks[t][i].depth = depth
     /\ \A j \in i .. Len(heap_marks[t]) : heap_marks[t][j].bp = Level(t)}

MarksReleaseAuto(t, depth) ==  \* mutant: HREL sweeps allocas too
  \/ /\ MarksFound(t, depth) = {}
     /\ UNCHANGED <<heap_ptr, sorted_allocs, heap_marks>>
  \/ \E i \in MarksFound(t, depth) :
       /\ \A j \in MarksFound(t, depth) : j <= i
       /\ heap_marks' = [heap_marks EXCEPT ![t] = Prefix(@, i - 1)]
       /\ RewindTo(t, heap_marks[t][i].mark, AutoKinds)

MarksRelease(t, depth) ==
  \/ /\ MarksFound(t, depth) = {}
     /\ UNCHANGED <<heap_ptr, sorted_allocs, heap_marks>>
  \/ \E i \in MarksFound(t, depth) :
       /\ \A j \in MarksFound(t, depth) : j <= i
       /\ heap_marks' = [heap_marks EXCEPT ![t] = Prefix(@, i - 1)]
       /\ RewindTo(t, heap_marks[t][i].mark, {"FRAME"})

ExitBlockUnbalanced(t) ==  \* mutant: an HREL without its block
  /\ Level(t) > 0
  /\ LET k == frames[t][Level(t)] - 1 IN
       /\ MarksRelease(t, k)
       /\ frames' = [frames EXCEPT ![t][Level(t)] = k]
       /\ live' = live \ DeadBlocks(t, Level(t), k)
  /\ UNCHANGED <<heap_end, forfeit>>

ExitBlock(t) ==
  /\ Level(t) > 0
  /\ frames[t][Level(t)] > 0
  /\ LET k == frames[t][Level(t)] - 1 IN
       /\ MarksRelease(t, k)
       /\ frames' = [frames EXCEPT ![t][Level(t)] = k]
       /\ live' = live \ DeadBlocks(t, Level(t), k)
  /\ UNCHANGED <<heap_end, forfeit>>

(* break, continue or goto out of blocks, or back past the declarations of  *)
(* S in the block that stays innermost: no HREL runs.                       *)
JumpOut(t, k, S) ==
  /\ Level(t) > 0
  /\ k <= frames[t][Level(t)]
  /\ S \subseteq DeclaredIn(t, Level(t), k - 1)
  /\ k < frames[t][Level(t)] \/ S # {}
  /\ frames' = [frames EXCEPT ![t][Level(t)] = k]
  /\ live' = live \ (DeadBlocks(t, Level(t), k) \cup S)
  /\ UNCHANGED <<heap_ptr, heap_end, sorted_allocs, heap_marks, forfeit>>

(* A switch case or a goto into a VLA block, past its HMRK but before its   *)
(* first VLA declaration.                                                   *)
JumpIn(t) ==
  /\ Level(t) > 0
  /\ frames[t][Level(t)] < MaxBlocks
  /\ frames' = [frames EXCEPT ![t][Level(t)] = @ + 1]
  /\ UNCHANGED <<heap_ptr, heap_end, sorted_allocs, heap_marks, live, forfeit>>

(* longjmp to a frame still active, out of every block but the first k. *)
LongJmp(t, level, k) ==
  /\ level \in 1 .. Level(t)
  /\ k <= frames[t][level]
  /\ MarksTruncateTo(t, level)
  /\ frames' = [frames EXCEPT ![t] = [Prefix(@, level) EXCEPT ![level] = k]]
  /\ live' = live \ (DeadFrames(t, level) \cup DeadBlocks(t, level, k))
  /\ UNCHANGED <<heap_end, forfeit>>

(* cccc_heap_marks_unwind_thread when a thread ends (pthread_exit from any  *)
(* depth included), and the same truncation at the start of a top-level run *)
(* that finds the frames of an abandoned one.                               *)
ThreadExit(t) ==
  /\ Level(t) > 0
  /\ MarksTruncateTo(t, 0)
  /\ frames' = [frames EXCEPT ![t] = << >>]
  /\ live' = live \ DeadFrames(t, 0)
  /\ UNCHANGED <<heap_end, forfeit>>

-----------------------------------------------------------------------------
(* vm_heap_bump_alloc_ex: padding so that the user pointer is aligned, then *)
(* the header, then the block.  vm_heap_grow commits more of the            *)
(* reservation when the block does not fit; when it cannot, the guest gets  *)
(* NULL and nothing changes.                                                *)
Pad(align) == (align - ((heap_ptr + Header) % align)) % align

GrowChunkUnclamped(need) ==  \* mutant: grows past the reservation
  IF PoolSize < need THEN ((need + PoolSize - 1) \div PoolSize) * PoolSize
  ELSE PoolSize

GrowChunk(need) ==
  LET whole == IF PoolSize < need
               THEN ((need + PoolSize - 1) \div PoolSize) * PoolSize
               ELSE PoolSize
  IN  IF heap_end + whole > PoolSizeMax THEN PoolSizeMax - heap_end ELSE whole

BumpAlloc(t, size, align, kind, blk) ==
  LET total == Pad(align) + Header + size
      base  == heap_ptr + Pad(align) + Header
  IN  /\ Len(sorted_allocs) < MaxAllocs
      /\ \/ total <= heap_end - heap_ptr /\ UNCHANGED heap_end
         \/ /\ total > heap_end - heap_ptr
            /\ GrowChunk(total) >= total
            /\ heap_end' = heap_end + GrowChunk(total)
      /\ heap_ptr' = heap_ptr + total
      /\ sorted_allocs' = Append(sorted_allocs,
           [base |-> base, size |-> size, kind |-> kind, owner |-> t,
            freed |-> FALSE])
      /\ live' = live \cup
           {[base |-> base, size |-> size, kind |-> kind, owner |-> t,
             bp |-> Level(t), blk |-> blk]}
      /\ UNCHANGED <<heap_marks, frames, forfeit>>

(* ALCV: the VLA belongs to the innermost VLA block. *)
AllocVla(t, size) ==
  /\ Level(t) > 0
  /\ frames[t][Level(t)] > 0
  /\ BumpAlloc(t, size, 1, "FRAME", frames[t][Level(t)] - 1)

(* ALCA, MALC, ALCB. *)
AllocOther(t, size, kind) ==
  /\ Level(t) > 0
  /\ BumpAlloc(t, size, 1, kind, -1)

(* MALCA, PMEMA. *)
AllocAligned(t, size, align) ==
  /\ Level(t) > 0
  /\ BumpAlloc(t, size, align, "USER", -1)

(* MFRE of a malloc'd block: marked, never moved back into circulation. *)
Free(i) ==
  /\ i \in 1 .. Len(sorted_allocs)
  /\ sorted_allocs[i].kind = "USER"
  /\ ~ sorted_allocs[i].freed
  /\ sorted_allocs' = [sorted_allocs EXCEPT ![i].freed = TRUE]
  /\ live' = {a \in live : a.base # sorted_allocs[i].base}
  /\ UNCHANGED <<heap_ptr, heap_end, heap_marks, frames, forfeit>>

-----------------------------------------------------------------------------
ThreadStep(t) ==
  \/ \E ok \in MarkRecorded : Call(t, ok) \/ TailCall(t, ok) \/ EnterBlock(t, ok)
  \/ Return(t)
  \/ ExitBlock(t)
  \/ \E k \in 0 .. MaxBlocks :
       \E S \in SUBSET DeclaredIn(t, Level(t), k - 1) : JumpOut(t, k, S)
  \/ \E level \in 1 .. MaxFrames, k \in 0 .. MaxBlocks : LongJmp(t, level, k)
  \/ ThreadExit(t)
  \/ \E size \in Sizes :
       \/ AllocVla(t, size)
       \/ \E kind \in OtherKinds : AllocOther(t, size, kind)
       \/ \E align \in Alignments : AllocAligned(t, size, align)

Next ==
  \/ \E t \in Threads : ThreadStep(t)
  \/ \E i \in 1 .. MaxAllocs : Free(i)

(* Programs that enter VLA-declaring blocks only from their top. *)
Spec == Init /\ [][Next]_vars

(* The same, and programs that jump into such a block. *)
NextWithJumps == Next \/ \E t \in Threads : JumpIn(t)
SpecWithJumps == Init /\ [][NextWithJumps]_vars
-----------------------------------------------------------------------------
TypeOK ==
  /\ heap_ptr \in Nat
  /\ heap_end \in Nat
  /\ sorted_allocs \in Seq(Alloc)
  /\ heap_marks \in [Threads -> Seq(Mark)]
  /\ frames \in [Threads -> Seq(Nat)]
  /\ live \in SUBSET Storage
  /\ forfeit \in BOOLEAN

\* Reclamation never gives away storage the guest may still use: live
\* storage, headers included, lies below the bump pointer and is pairwise
\* disjoint, whatever the other threads rewound or allocated meanwhile
\* (heap_rewind_to keeps what it may not sweep).
NoLiveOverwritten ==
  /\ \A a \in live : End(a) <= heap_ptr
  /\ \A a, b \in live :
       a # b => End(a) <= b.base - Header \/ End(b) <= a.base - Header

\* Every live block can still be found: its header is in sorted_allocs,
\* unfreed, so free, realloc and interior-pointer lookups work on it.
LiveTracked ==
  \A a \in live : \E i \in 1 .. Len(sorted_allocs) :
    /\ sorted_allocs[i].base = a.base /\ sorted_allocs[i].size = a.size
    /\ sorted_allocs[i].kind = a.kind /\ sorted_allocs[i].owner = a.owner
    /\ ~ sorted_allocs[i].freed

\* Append order is address order across every rewind: what the binary search
\* over sorted_allocs and the backward scan of heap_rewind_to both rely on.
SortedAllocs ==
  /\ \A i, j \in 1 .. Len(sorted_allocs) :
       i < j => End(sorted_allocs[i]) <= sorted_allocs[j].base - Header
  /\ \A i \in 1 .. Len(sorted_allocs) : End(sorted_allocs[i]) <= heap_ptr

\* The bump pointer stays inside the committed heap, and the committed heap
\* inside the reservation (vm_heap_grow's clamp).
HeapBounds == heap_ptr <= heap_end /\ heap_end <= PoolSizeMax

\* Reclamation is complete for a single thread whose marks were all
\* recorded: once no frame is active, nothing is kept above the last malloc
\* or __block box, however blocks and frames were left (break, goto,
\* longjmp, thread exit).
QuiescentReclaimed ==
  (~ forfeit /\ \A t \in Threads : Level(t) = 0) =>
    IF sorted_allocs = << >> THEN heap_ptr = 0
    ELSE /\ heap_ptr = End(sorted_allocs[Len(sorted_allocs)])
         /\ sorted_allocs[Len(sorted_allocs)].kind \in PinKinds

\* A thread's marks mirror its call stack: outer frames first, and within a
\* frame the blocks from the outside in.  The pop loops of the code compare
\* only the top entry, which is right only because of this order.
MarksOrdered ==
  \A t \in Threads :
    /\ \A i \in 1 .. Len(heap_marks[t]) : heap_marks[t][i].bp <= Level(t)
    /\ \A i, j \in 1 .. Len(heap_marks[t]) : i < j =>
         \/ heap_marks[t][i].bp < heap_marks[t][j].bp
         \/ /\ heap_marks[t][i].bp = heap_marks[t][j].bp
            /\ heap_marks[t][i].depth < heap_marks[t][j].depth

\* A mark protects what it must not reclaim: it lies above all live automatic
\* storage of outer frames and, while its block is open, above the live VLAs
\* of enclosing blocks.  A mark of a block left by break or goto is stale
\* and protects nothing in its own frame, so it must never be used there.
MarksProtectLive ==
  \A t \in Threads : \A i \in 1 .. Len(heap_marks[t]) : \A a \in live :
    LET m == heap_marks[t][i] IN
    (a.owner = t /\ a.kind \in AutoKinds) =>
      /\ a.bp < m.bp => End(a) <= m.mark
      /\ (/\ a.bp = m.bp /\ a.kind = "FRAME"
          /\ m.depth < frames[t][m.bp] /\ a.blk < m.depth) => End(a) <= m.mark

\* Live automatic storage belongs to an active frame, and no two pieces of
\* live storage start at the same address.
LiveScoped ==
  /\ \A a \in live : a.kind \in AutoKinds => a.bp <= Level(a.owner)
  /\ \A a, b \in live : a.base = b.base => a = b

\* The inductive invariant behind NoLiveOverwritten.
HeapInv ==
  /\ TypeOK /\ SortedAllocs /\ LiveTracked /\ HeapBounds
  /\ MarksOrdered /\ MarksProtectLive /\ LiveScoped
=============================================================================
