--------------------------- MODULE OmpDequeProofs ---------------------------
(***************************************************************************)
(* Proofs about OmpDeque, for any number of thieves and tasks and any size  *)
(* of the first ring: its types, the invariant DequeInv, and that the deque *)
(* implements TaskPool.                                                     *)
(***************************************************************************)
EXTENDS OmpDeque, TLAPS

\* A ring of some size, and the rings as a sequence of them.
Ring == [cap : Nat \ {0}, buf : UNION {[0 .. n -> Slots] : n \in Nat}]

IInv == DequeInv /\ rings \in Seq(Ring)
-----------------------------------------------------------------------------
(* Positions in a ring.                                                    *)

\* The position of an index in a ring of c slots.
LEMMA ModRange == \A a \in Nat, c \in Nat \ {0} : a % c \in 0 .. (c - 1)
  OBVIOUS

\* An index is its quotient times the ring's size plus its position.
LEMMA DivMod == \A a \in Nat, c \in Nat \ {0} : a = c * (a \div c) + (a % c) /\ a \div c \in Nat
  OBVIOUS

\* Two indices less than a ring's size apart have different positions in it.
LEMMA ModDistinct ==
  ASSUME NEW a \in Nat, NEW b \in Nat, NEW c \in Nat \ {0}, a < b, b - a < c
  PROVE  a % c # b % c
  <1> DEFINE d == (b \div c) - (a \div c)
  <1> SUFFICES ASSUME a % c = b % c PROVE FALSE
    OBVIOUS
  <1>1. b - a = c * (b \div c) - c * (a \div c)
    BY DivMod
  <1>2. \A p, q \in Nat : c * q - c * p = c * (q - p)
    OBVIOUS
  <1>3. b - a = c * d /\ d \in Int
    BY <1>1, <1>2, DivMod
  <1>4. \A e \in Int : (e >= 1 => c * e >= c) /\ (e <= 0 => c * e <= 0)
    OBVIOUS
  <1> HIDE DEF d
  <1> QED
    BY <1>3, <1>4

\* So positions are equal only for equal indices, in any window of the ring's size.
LEMMA ModInjective ==
  ASSUME NEW c \in Nat \ {0}, NEW a \in Nat, NEW b \in Nat, a - b < c, b - a < c,
         a % c = b % c
  PROVE  a = b
  <1>1. CASE a < b
    BY <1>1, ModDistinct
  <1>2. CASE b < a
    BY <1>2, ModDistinct
  <1> QED
    BY <1>1, <1>2
-----------------------------------------------------------------------------
(* Rings.                                                                  *)

\* The slots of every ring made so far are tasks or empty.
LEMMA SlotType ==
  ASSUME TypeOK, NEW r \in 1 .. Len(rings), NEW i \in Nat
  PROVE  Slot(r, i) \in Slots /\ i % rings[r].cap \in 0 .. (rings[r].cap - 1)
  BY ModRange DEF TypeOK, Slot

\* There is a current ring once a ring has been made.
LEMMA CurrentRing ==
  ASSUME IInv, rings # <<>>
  PROVE  Current \in 1 .. Len(rings) /\ rings[Current].cap \in Nat \ {0}
  BY DEF IInv, DequeInv, TypeOK, Current

\* A record with the fields of a ring is made of them.
LEMMA RecordOfFields ==
  ASSUME NEW A, NEW B, NEW r \in [cap : A, buf : B]
  PROVE  r = [cap |-> r.cap, buf |-> r.buf]
  OBVIOUS

\* A size and as many slots make a ring.
LEMMA RingTyped ==
  ASSUME NEW cap \in Nat \ {0}, NEW buf \in [0 .. (cap - 1) -> Slots]
  PROVE  [cap |-> cap, buf |-> buf] \in Ring
  <1>1. cap - 1 \in Nat /\ buf \in [0 .. (cap - 1) -> Slots]
    OBVIOUS
  <1> QED
    BY <1>1 DEF Ring

\* __cccc_dq_grow: the older rings stay as they are, and the new one holds the
\* waiting tasks at their indices.
LEMMA GrowEffect ==
  ASSUME IInv, Grow
  PROVE  /\ rings' \in Seq(Ring) /\ Current' = Current + 1
         /\ \A r \in 1 .. Current : rings'[r] = rings[r]
         /\ rings'[Current'].cap = IF rings = <<>> THEN Ring0 ELSE 2 * rings[Current].cap
         /\ rings'[Current'].buf \in [0 .. (rings'[Current'].cap - 1) -> Slots]
         /\ \A k \in otop .. (bottom - 1) : Slot(Current, k)' = Slot(Current, k)
  <1> DEFINE cap == IF Current = 0 THEN Ring0 ELSE 2 * rings[Current].cap
             buf == [i \in 0 .. (cap - 1) |->
                       IF Current = 0 THEN None ELSE Grown(i, otop, bottom)]
  <1>1. rings \in Seq(Ring) /\ Current \in Nat /\ (Current = 0 <=> rings = <<>>)
    BY DEF IInv, Current
  <1>2. rings' = Append(rings, [cap |-> cap, buf |-> buf])
    BY DEF Grow
  <1>3. cap \in Nat \ {0}
    BY <1>1, CurrentRing, DequeAssumption
  <1>4. otop \in Nat /\ bottom \in Nat
    BY DEF IInv, DequeInv, TypeOK
  <1>5. ASSUME Current # 0, NEW i \in 0 .. (cap - 1) PROVE Grown(i, otop, bottom) \in Slots
    <2> DEFINE at == {k \in otop .. (bottom - 1) : k % cap = i}
    <2>1. Grown(i, otop, bottom) = IF at = {} THEN None ELSE Slot(Current, CHOOSE k \in at : TRUE)
      BY <1>5 DEF Grown
    <2>2. at # {} => (CHOOSE k \in at : TRUE) \in Nat
      BY <1>4
    <2>3. None \in Slots
      BY DEF Slots
    <2> HIDE DEF at
    <2> QED
      BY <2>1, <2>2, <2>3, <1>1, <1>5, SlotType, CurrentRing DEF IInv, DequeInv
  <1>6. buf \in [0 .. (cap - 1) -> Slots]
    BY <1>5 DEF Slots
  <1> HIDE DEF buf, cap
  <1>7. [cap |-> cap, buf |-> buf] \in Ring
    BY <1>3, <1>6, RingTyped
  <1>8. /\ rings' \in Seq(Ring) /\ Current' = Current + 1
        /\ \A r \in 1 .. Current : rings'[r] = rings[r]
        /\ rings'[Current'] = [cap |-> cap, buf |-> buf]
    BY <1>1, <1>2, <1>7 DEF Current
  <1>9. ASSUME NEW k \in otop .. (bottom - 1) PROVE Slot(Current, k)' = Slot(Current, k)
    <2>1. opc = "grow" /\ otop < bottom
      BY <1>4, <1>9 DEF Grow
    <2>2. rings # <<>>
      BY <1>4, <2>1 DEF IInv, DequeInv, Positions
    <2>3. bottom - otop <= rings[Current].cap /\ cap = 2 * rings[Current].cap
      BY <1>1, <2>1, <2>2 DEF IInv, DequeInv, Pushing, cap
    <2> DEFINE i == k % cap
               at == {j \in otop .. (bottom - 1) : j % cap = i}
    <2>4. i \in 0 .. (cap - 1) /\ k \in Nat
      BY <1>3, <1>4, <1>9, ModRange
    <2>5. k \in at
      BY <1>9
    <2>6. \A j \in at : j = k
      <3>1. SUFFICES ASSUME NEW j \in otop .. (bottom - 1), j % cap = k % cap PROVE j = k
        OBVIOUS
      <3>2. j \in Nat /\ j - k < cap /\ k - j < cap
        BY <1>3, <1>4, <2>3, <2>2, <1>9, <3>1, CurrentRing, SMTT(30)
      <3> QED
        BY <1>3, <2>4, <3>1, <3>2, ModInjective
    <2>7. Slot(Current, k)' = buf[i]
      BY <1>8 DEF Slot
    <2>8. Current # 0
      BY <1>1, <2>2
    <2>9. Grown(i, otop, bottom) = IF at = {} THEN None ELSE Slot(Current, CHOOSE j \in at : TRUE)
      BY <2>3, <2>8 DEF Grown
    <2>10. buf[i] = Grown(i, otop, bottom)
      BY <2>4, <2>8 DEF buf
    <2> HIDE DEF at, i
    <2> QED
      BY <2>5, <2>6, <2>7, <2>9, <2>10
  <1> QED
    BY <1>1, <1>6, <1>8, <1>9 DEF cap

\* The store of dq_push changes one slot of the current ring and nothing else.
LEMMA StoreEffect ==
  ASSUME IInv, PushStore
  PROVE  /\ rings' \in Seq(Ring) /\ Current' = Current /\ rings # <<>>
         /\ \A r \in 1 .. Current :
              /\ rings'[r].cap = rings[r].cap
              /\ rings'[r].buf \in [0 .. (rings[r].cap - 1) -> Slots]
              /\ r # Current => rings'[r] = rings[r]
         /\ Slot(Current, bottom)' = pushed + 1
         /\ \A k \in top .. (bottom - 1) : Slot(Current, k)' = Slot(Current, k)
  <1>1. /\ opc = "store" /\ rings # <<>> /\ pushed < MaxTasks /\ otop <= top
        /\ bottom - otop < rings[Current].cap /\ top <= bottom
    BY DEF IInv, DequeInv, Positions, Pushing, PushStore, Bottom, Withdrawn
  <1>2. Current \in 1 .. Len(rings) /\ rings[Current].cap \in Nat \ {0}
    BY <1>1, CurrentRing
  <1>3. top \in Nat /\ bottom \in Nat /\ otop \in Nat /\ pushed \in Nat /\ pushed + 1 \in Slots
    BY <1>1, DequeAssumption DEF IInv, DequeInv, TypeOK, Slots, Tasks
  <1> DEFINE cap == rings[Current].cap
             p == bottom % cap
             new == [rings[Current] EXCEPT !.buf[p] = pushed + 1]
  <1>4. p \in 0 .. (cap - 1)
    BY <1>2, <1>3, ModRange
  <1>5. /\ rings \in Seq(Ring) /\ rings[Current] \in Ring
        /\ rings[Current].buf \in [0 .. (cap - 1) -> Slots]
    BY <1>2 DEF IInv, DequeInv, TypeOK
  <1>6. new = [cap |-> cap, buf |-> [rings[Current].buf EXCEPT ![p] = pushed + 1]]
    <2>1. rings[Current] = [cap |-> cap, buf |-> rings[Current].buf]
      BY <1>5, RecordOfFields DEF Ring
    <2>2. \A c, b, v : [[cap |-> c, buf |-> b] EXCEPT !.buf[p] = v] = [cap |-> c, buf |-> [b EXCEPT ![p] = v]]
      OBVIOUS
    <2> HIDE DEF cap, p
    <2> QED
      BY <2>1, <2>2
  <1>7. [rings[Current].buf EXCEPT ![p] = pushed + 1] \in [0 .. (cap - 1) -> Slots]
    BY <1>3, <1>4, <1>5
  <1>8. new \in Ring
    BY <1>2, <1>6, <1>7, RingTyped
  <1>9. rings' = [rings EXCEPT ![Current] = new]
    BY DEF PushStore
  <1> HIDE DEF new, p, cap
  <1>10. /\ rings' \in Seq(Ring) /\ Len(rings') = Len(rings)
         /\ \A r \in 1 .. Len(rings) : rings'[r] = IF r = Current THEN new ELSE rings[r]
    BY <1>2, <1>5, <1>8, <1>9
  <1>11. Current' = Current
    BY <1>10 DEF Current
  <1>12. Slot(Current, bottom)' = pushed + 1
    BY <1>2, <1>4, <1>5, <1>6, <1>10, <1>11 DEF Slot, p, cap, PushStore
  <1>13. ASSUME NEW k \in top .. (bottom - 1) PROVE Slot(Current, k)' = Slot(Current, k)
    <2>1. k \in Nat /\ k < bottom /\ bottom - k < cap
      BY <1>1, <1>2, <1>3, <1>13 DEF cap
    <2>2. k % cap # p
      BY <1>2, <1>3, <2>1, ModDistinct DEF p, cap
    <2>3. k % cap \in 0 .. (cap - 1)
      BY <1>2, <2>1, ModRange DEF cap
    <2> QED
      BY <1>2, <1>5, <1>6, <1>10, <1>11, <2>2, <2>3 DEF Slot, cap
  <1>14. ASSUME NEW r \in 1 .. Current
         PROVE  /\ rings'[r].cap = rings[r].cap
                /\ rings'[r].buf \in [0 .. (rings[r].cap - 1) -> Slots]
                /\ r # Current => rings'[r] = rings[r]
    <2>1. r \in 1 .. Len(rings)
      BY <1>14 DEF Current
    <2>2. CASE r = Current
      <3>1. rings'[r] = [cap |-> cap, buf |-> [rings[Current].buf EXCEPT ![p] = pushed + 1]]
        BY <1>6, <1>10, <2>1, <2>2
      <3>2. rings[r].cap = cap
        BY <2>2 DEF cap
      <3> QED
        BY <1>7, <2>2, <3>1, <3>2
    <2>3. CASE r # Current
      BY <1>10, <2>1, <2>3 DEF IInv, DequeInv, TypeOK
    <2> QED
      BY <2>2, <2>3
  <1> QED
    BY <1>1, <1>10, <1>11, <1>12, <1>13, <1>14
-----------------------------------------------------------------------------
(* The invariant: one lemma per action.                                    *)

\* The first state.
LEMMA InitInv == Init => IInv
  <1> SUFFICES ASSUME Init PROVE IInv
    OBVIOUS
  <1>1. TypeOK
    <2>1. Len(<<>>) = 0 /\ \A r \in 1 .. 0 : FALSE
      OBVIOUS
    <2> QED
      BY <2>1, DequeAssumption DEF Init, TypeOK, Slots, None
  <1>2. Positions /\ Pushing /\ WaitingPushed /\ Stealing
    BY DEF Init, Positions, Pushing, WaitingPushed, Stealing, Bottom, Withdrawn
  <1>3. rings \in Seq(Ring)
    BY DEF Init
  <1> QED
    BY <1>1, <1>2, <1>3 DEF IInv, DequeInv

\* dq_push reads top: the ring is full, or there is room for one more task.
LEMMA PushLoadInv ==
  ASSUME IInv, PushLoad
  PROVE  IInv'
  <1> USE DEF IInv, DequeInv
  <1>1. UNCHANGED <<top, bottom, rings, pushed, tpc, ttop, tring, tx, got>>
    BY DEF PushLoad, thiefVars
  <1>2. opc = "idle" /\ pushed < MaxTasks /\ otop' = top
        /\ opc' = (IF Full(bottom, top) THEN "grow" ELSE "store")
    BY DEF PushLoad
  <1>3. TypeOK'
    BY <1>1, <1>2 DEF TypeOK
  <1>4. Bottom = bottom /\ Bottom' = bottom
    BY <1>1, <1>2 DEF Bottom, Withdrawn
  <1>5. top \in Nat /\ bottom \in Nat
    BY DEF TypeOK
  <1>6. rings # <<>> => Current \in 1 .. Len(rings) /\ rings[Current].cap \in Nat \ {0}
    BY CurrentRing
  <1>7. rings = <<>> => Current = 0
    BY DEF Current
  <1>8. Positions'
    BY <1>1, <1>2, <1>4, <1>7 DEF Positions, Current, Full
  <1>9. Pushing'
    BY <1>1, <1>2, <1>4, <1>5, <1>6, <1>7 DEF Pushing, Positions, Current, Full
  <1>10. WaitingPushed'
    BY <1>1, <1>4 DEF WaitingPushed, Slot, Current
  <1>11. Stealing'
    BY <1>1, <1>4 DEF Stealing, Slot, Current
  <1> QED
    BY <1>1, <1>3, <1>8, <1>9, <1>10, <1>11

\* The ring grows: the waiting tasks are in the new ring, and thieves that read
\* the old one find the same task at top.
LEMMA GrowInv ==
  ASSUME IInv, Grow
  PROVE  IInv'
  <1> USE DEF IInv, DequeInv
  <1>1. /\ opc = "grow" /\ opc' = "store"
        /\ UNCHANGED <<top, bottom, pushed, otop, tpc, ttop, tring, tx, got>>
    BY DEF Grow, thiefVars
  <1>2. Bottom = bottom /\ Bottom' = bottom /\ top \in Nat /\ bottom \in Nat /\ otop \in Nat
    BY <1>1 DEF Bottom, Withdrawn, TypeOK
  <1>3. otop <= top /\ top <= bottom /\ pushed < MaxTasks
    BY <1>1, <1>2 DEF Positions, Pushing
  <1>4. Current \in Nat /\ (rings = <<>> <=> Current = 0) /\ Len(rings) = Current
    BY DEF Current
  <1>5. /\ rings' \in Seq(Ring) /\ Current' = Current + 1 /\ Len(rings') = Current + 1
        /\ rings' # <<>>
    BY <1>4, GrowEffect DEF Current
  <1>6. rings'[Current'].cap \in Nat \ {0} /\ bottom - otop < rings'[Current'].cap
    <2>1. CASE rings = <<>>
      <3>1. rings'[Current'].cap = Ring0
        BY <2>1, GrowEffect
      <3> QED
        BY <1>2, <1>3, <2>1, <3>1, DequeAssumption DEF Positions
    <2>2. CASE rings # <<>>
      <3>1. rings'[Current'].cap = 2 * rings[Current].cap
        BY <2>2, GrowEffect
      <3>2. bottom - otop <= rings[Current].cap
        BY <1>1, <2>2 DEF Pushing
      <3> QED
        BY <1>2, <2>2, <3>1, <3>2, CurrentRing
    <2> QED
      BY <2>1, <2>2
  <1>7. TypeOK'
    <2>1. ASSUME NEW r \in 1 .. Len(rings')
          PROVE  /\ rings'[r].cap \in Nat \ {0}
                 /\ rings'[r].buf \in [0 .. (rings'[r].cap - 1) -> Slots]
      <3>1. CASE r \in 1 .. Current
        BY <1>4, <3>1, GrowEffect DEF TypeOK
      <3>2. CASE r = Current'
        BY <1>6, <3>2, GrowEffect
      <3> QED
        BY <1>4, <1>5, <2>1, <3>1, <3>2
    <2> QED
      BY <1>1, <2>1 DEF TypeOK
  <1>8. Positions'
    BY <1>1, <1>2, <1>3, <1>5, <1>6 DEF Positions
  <1>9. Pushing'
    BY <1>1, <1>2, <1>3, <1>6 DEF Pushing
  <1>10. \A k \in top .. (bottom - 1) : Slot(Current, k)' = Slot(Current, k)
    BY <1>2, <1>3, GrowEffect
  <1>11. WaitingPushed'
    BY <1>1, <1>2, <1>10 DEF WaitingPushed
  <1>12. Stealing'
    <2> SUFFICES ASSUME NEW t \in Thieves, tpc[t] \in {"ring", "slot", "cas"}
                 PROVE  /\ tpc[t] # "ring" => tring[t] \in 1 .. Current'
                        /\ ttop[t] = top =>
                             /\ top < bottom
                             /\ tpc[t] = "slot" => Slot(tring[t], top)' = Slot(Current, top)'
                             /\ tpc[t] = "cas" => tx[t] = Slot(Current, top)'
      BY <1>1, <1>2, <1>5 DEF Stealing
    <2>1. tpc[t] # "ring" => tring[t] \in 1 .. Current
      BY DEF Stealing
    <2>2. ttop[t] = top => top < bottom /\ Slot(Current, top)' = Slot(Current, top)
      <3>1. SUFFICES ASSUME ttop[t] = top
                     PROVE  top < bottom /\ Slot(Current, top)' = Slot(Current, top)
        OBVIOUS
      <3>2. top' = top /\ top < bottom /\ top \in top .. (bottom - 1)
        BY <1>1, <1>2, <3>1 DEF Stealing
      <3> QED
        BY <1>10, <3>2
    <2>3. tpc[t] # "ring" => Slot(tring[t], top)' = Slot(tring[t], top)
      BY <1>1, <2>1, GrowEffect DEF Slot
    <2> QED
      BY <1>1, <1>4, <1>5, <2>1, <2>2, <2>3 DEF Stealing
  <1> QED
    BY <1>5, <1>7, <1>8, <1>9, <1>11, <1>12

\* The store of dq_push goes to a slot no waiting task is in.
LEMMA PushStoreInv ==
  ASSUME IInv, PushStore
  PROVE  IInv'
  <1> USE DEF IInv, DequeInv
  <1>1. /\ opc = "store" /\ opc' = "publish"
        /\ UNCHANGED <<top, bottom, pushed, otop, tpc, ttop, tring, tx, got>>
    BY DEF PushStore, thiefVars
  <1>2. Bottom = bottom /\ Bottom' = bottom /\ top \in Nat /\ bottom \in Nat
    BY <1>1 DEF Bottom, Withdrawn, TypeOK
  <1>3. /\ rings' \in Seq(Ring) /\ Current' = Current /\ rings # <<>> /\ rings' # <<>>
        /\ Current \in 1 .. Len(rings) /\ Len(rings') = Len(rings) /\ Len(rings) = Current
    BY StoreEffect, CurrentRing DEF Current
  <1>4. TypeOK'
    BY <1>1, <1>3, StoreEffect DEF TypeOK
  <1>5. rings'[Current'].cap = rings[Current].cap
    BY <1>3, StoreEffect
  <1>6. Positions'
    BY <1>1, <1>2, <1>3, <1>5 DEF Positions
  <1>7. Pushing'
    BY <1>1, <1>5, StoreEffect DEF Pushing
  <1>8. WaitingPushed'
    BY <1>1, <1>2, StoreEffect DEF WaitingPushed
  <1>9. Stealing'
    <2> SUFFICES ASSUME NEW t \in Thieves, tpc[t] \in {"ring", "slot", "cas"}, ttop[t] = top
                 PROVE  /\ tpc[t] = "slot" => Slot(tring[t], top)' = Slot(Current, top)'
                        /\ tpc[t] = "cas" => tx[t] = Slot(Current, top)'
      BY <1>1, <1>2, <1>3 DEF Stealing
    <2>1. Slot(Current, top)' = Slot(Current, top)
      <3>1. top' = top /\ top \in top .. (bottom - 1)
        BY <1>1, <1>2 DEF Stealing
      <3> QED
        BY <3>1, StoreEffect
    <2>2. CASE tpc[t] = "slot" /\ tring[t] # Current
      <3>1. tring[t] \in 1 .. Current
        BY <2>2 DEF Stealing
      <3>2. Slot(tring[t], top)' = Slot(tring[t], top)
        BY <1>1, <2>2, <3>1, StoreEffect DEF Slot
      <3> QED
        BY <2>1, <2>2, <3>2 DEF Stealing
    <2>3. CASE tpc[t] = "slot" /\ tring[t] = Current
      BY <1>1, <1>3, <2>3
    <2>4. CASE tpc[t] = "cas"
      BY <2>1, <2>4 DEF Stealing
    <2> QED
      BY <2>2, <2>3, <2>4
  <1> QED
    BY <1>3, <1>4, <1>6, <1>7, <1>8, <1>9

\* The task is published: it waits from now on.
LEMMA PushPublishInv ==
  ASSUME IInv, PushPublish
  PROVE  IInv'
  <1> USE DEF IInv, DequeInv
  <1>1. /\ opc = "publish" /\ opc' = "idle" /\ bottom' = bottom + 1 /\ pushed' = pushed + 1
        /\ otop' = 0 /\ UNCHANGED <<top, rings, tpc, ttop, tring, tx, got>>
    BY DEF PushPublish, thiefVars
  <1>2. /\ Bottom = bottom /\ Bottom' = bottom + 1
        /\ top \in Nat /\ bottom \in Nat /\ otop \in Nat /\ pushed \in Nat
    BY <1>1 DEF Bottom, Withdrawn, TypeOK
  <1>3. /\ rings # <<>> /\ top <= bottom /\ otop <= top /\ pushed < MaxTasks
        /\ bottom - otop < rings[Current].cap /\ Slot(Current, bottom) = pushed + 1
    BY <1>1, <1>2 DEF Positions, Pushing
  <1>4. TypeOK'
    BY <1>1, <1>2, <1>3, DequeAssumption DEF TypeOK
  <1>5. Current' = Current /\ rings[Current].cap \in Nat
    BY <1>1, <1>3, CurrentRing DEF Current
  <1>6. Positions'
    BY <1>1, <1>2, <1>3, <1>5 DEF Positions
  <1>7. Pushing'
    BY <1>1 DEF Pushing
  <1>8. WaitingPushed'
    <2> SUFFICES ASSUME NEW k \in top .. bottom PROVE Slot(Current, k) \in 1 .. (pushed + 1)
      BY <1>1, <1>2, <1>5 DEF WaitingPushed, Slot
    <2>1. CASE k = bottom
      BY <1>2, <1>3, <2>1
    <2>2. CASE k # bottom
      BY <1>2, <2>2 DEF WaitingPushed
    <2> QED
      BY <2>1, <2>2
  <1>9. Stealing'
    BY <1>1, <1>2, <1>5 DEF Stealing, Slot
  <1> QED
    BY <1>1, <1>4, <1>6, <1>7, <1>8, <1>9

\* dq_take withdraws the newest task: bottom moves, Bottom does not.
LEMMA TakeReserveInv ==
  ASSUME IInv, NEW mark \in 0 .. bottom, TakeReserve(mark)
  PROVE  IInv'
  <1> USE DEF IInv, DequeInv
  <1>1. /\ opc = "idle" /\ opc' = "take" /\ bottom' = bottom - 1 /\ bottom - 1 >= mark
        /\ UNCHANGED <<top, rings, pushed, otop, tpc, ttop, tring, tx, got>>
    BY DEF TakeReserve, thiefVars
  <1>2. bottom \in Nat /\ bottom >= 1 /\ bottom - 1 \in Nat
    BY <1>1 DEF TypeOK
  <1>3. Bottom = bottom /\ Bottom' = bottom /\ Current' = Current
    BY <1>1, <1>2 DEF Bottom, Withdrawn, Current
  <1>4. TypeOK'
    BY <1>1, <1>2 DEF TypeOK
  <1>5. Positions'
    BY <1>1, <1>2, <1>3 DEF Positions
  <1>6. Pushing' /\ WaitingPushed'
    BY <1>1, <1>3 DEF Pushing, WaitingPushed, Slot
  <1>7. Stealing'
    BY <1>1, <1>3 DEF Stealing, Slot
  <1> QED
    BY <1>1, <1>4, <1>5, <1>6, <1>7

\* The waiting tasks at the ends of the deque.
LEMMA TaskAt ==
  ASSUME IInv, NEW k \in Nat, top <= k, k < Bottom
  PROVE  Slot(Current, k) \in Tasks
  <1>1. top \in Nat /\ bottom \in Nat /\ pushed \in 0 .. MaxTasks /\ Bottom \in Nat
    BY DEF IInv, DequeInv, TypeOK, Bottom
  <1>2. Slot(Current, k) \in 1 .. pushed
    BY <1>1 DEF IInv, DequeInv, WaitingPushed
  <1> QED
    BY <1>1, <1>2, DequeAssumption DEF Tasks

\* A task that is handed out keeps the type of got.
LEMMA HandType ==
  ASSUME TypeOK, NEW t \in {Owner} \cup Thieves, NEW x \in Tasks, Hand(t, x)
  PROVE  got' \in [{Owner} \cup Thieves -> SUBSET Tasks]
  BY DEF TypeOK, Hand

\* dq_take compares with top: it has the task, must race for it, or has lost it.
LEMMA TakeTopInv ==
  ASSUME IInv, TakeTop
  PROVE  IInv'
  <1> USE DEF IInv, DequeInv
  <1>1. opc = "take" /\ UNCHANGED <<top, rings, pushed, tpc, ttop, tring, tx>>
    BY DEF TakeTop, thiefVars
  <1>2. /\ Bottom = bottom + 1 /\ top \in Nat /\ bottom \in Nat /\ top <= bottom + 1
        /\ Current' = Current
    BY <1>1 DEF Bottom, Withdrawn, TypeOK, Positions, Current
  <1>3. CASE top < bottom
    <2>1. /\ opc' = "idle" /\ UNCHANGED <<bottom, otop>> /\ Hand(Owner, Slot(Current, bottom))
      BY <1>2, <1>3 DEF TakeTop
    <2>2. Bottom' = bottom
      BY <2>1 DEF Bottom, Withdrawn
    <2>3. Slot(Current, bottom) \in Tasks
      BY <1>2, <1>3, TaskAt
    <2>4. TypeOK'
      BY <1>1, <2>1, <2>3, HandType DEF TypeOK
    <2>5. Positions'
      BY <1>1, <1>2, <1>3, <2>1, <2>2, CurrentRing, SMTT(30) DEF Positions
    <2>6. Pushing' /\ WaitingPushed'
      BY <1>1, <1>2, <2>1, <2>2 DEF Pushing, WaitingPushed, Slot
    <2>7. Stealing'
      BY <1>1, <1>2, <1>3, <2>1, <2>2 DEF Stealing, Slot
    <2> QED
      BY <1>1, <2>4, <2>5, <2>6, <2>7
  <1>4. CASE top = bottom
    <2>1. opc' = "cas" /\ otop' = top /\ UNCHANGED <<bottom, got>>
      BY <1>2, <1>4 DEF TakeTop
    <2>2. Bottom' = Bottom
      BY <1>2, <2>1 DEF Bottom, Withdrawn
    <2>3. TypeOK'
      BY <1>1, <2>1 DEF TypeOK
    <2>4. Positions'
      BY <1>1, <1>2, <1>4, <2>1, <2>2 DEF Positions
    <2>5. Pushing' /\ WaitingPushed' /\ Stealing'
      BY <1>1, <1>2, <2>1, <2>2 DEF Pushing, WaitingPushed, Slot, Stealing
    <2> QED
      BY <1>1, <2>3, <2>4, <2>5
  <1>5. CASE top > bottom
    <2>1. opc' = "idle" /\ bottom' = bottom + 1 /\ UNCHANGED <<got, otop>>
      BY <1>2, <1>5 DEF TakeTop
    <2>2. Bottom' = Bottom
      BY <1>2, <2>1 DEF Bottom, Withdrawn
    <2>3. TypeOK'
      BY <1>1, <2>1 DEF TypeOK
    <2>4. Positions'
      BY <1>1, <1>2, <1>5, <2>1, <2>2 DEF Positions
    <2>5. Pushing' /\ WaitingPushed' /\ Stealing'
      BY <1>1, <1>2, <2>1, <2>2 DEF Pushing, WaitingPushed, Slot, Stealing
    <2> QED
      BY <1>1, <2>3, <2>4, <2>5
  <1> QED
    BY <1>2, <1>3, <1>4, <1>5

\* The owner's race for the last task: if top moves, no task waits any more.
LEMMA TakeCasInv ==
  ASSUME IInv, TakeCas
  PROVE  IInv'
  <1> USE DEF IInv, DequeInv
  <1>1. /\ opc = "cas" /\ opc' = "restore"
        /\ UNCHANGED <<bottom, rings, pushed, otop, tpc, ttop, tring, tx>>
    BY DEF TakeCas, thiefVars
  <1>2. /\ Bottom = bottom + 1 /\ Bottom' = bottom + 1 /\ top \in Nat /\ bottom \in Nat
        /\ otop = bottom /\ bottom <= top /\ top <= bottom + 1 /\ Current' = Current
    BY <1>1 DEF Bottom, Withdrawn, TypeOK, Positions, Current
  <1>3. top' = bottom + 1 /\ top <= top' /\ TypeOK'
    <2>1. CASE top = otop
      <3>1. top' = otop + 1 /\ Hand(Owner, Slot(Current, bottom))
        BY <2>1 DEF TakeCas
      <3>2. Slot(Current, bottom) \in Tasks
        BY <1>2, <2>1, TaskAt
      <3>3. got' \in [{Owner} \cup Thieves -> SUBSET Tasks]
        BY <3>1, <3>2, HandType
      <3>4. TypeOK'
        BY <1>1, <1>2, <3>1, <3>3 DEF TypeOK
      <3> QED
        BY <1>2, <2>1, <3>1, <3>4
    <2>2. CASE top # otop
      BY <1>1, <1>2, <2>2 DEF TakeCas, TypeOK
    <2> QED
      BY <2>1, <2>2
  <1>4. Positions'
    <2>1. rings # <<>>
      BY <1>1 DEF Positions
    <2> QED
      BY <1>1, <1>2, <1>3, <2>1, CurrentRing DEF Positions
  <1>5. Pushing' /\ WaitingPushed'
    BY <1>1, <1>2, <1>3 DEF Pushing, WaitingPushed
  <1>6. Stealing'
    <2> SUFFICES ASSUME NEW t \in Thieves PROVE ttop[t] <= top' /\
                   (tpc[t] \in {"ring", "slot", "cas"} =>
                      /\ rings # <<>>
                      /\ tpc[t] # "ring" => tring[t] \in 1 .. Current
                      /\ ttop[t] # top')
      BY <1>1, <1>2 DEF Stealing
    <2>1. ttop[t] \in Nat /\ ttop[t] <= top
      BY DEF Stealing, TypeOK
    <2> QED
      BY <1>2, <1>3, <2>1 DEF Stealing
  <1> QED
    BY <1>1, <1>3, <1>4, <1>5, <1>6

\* After the race bottom is put back.
LEMMA TakeRestoreInv ==
  ASSUME IInv, TakeRestore
  PROVE  IInv'
  <1> USE DEF IInv, DequeInv
  <1>1. /\ opc = "restore" /\ opc' = "idle" /\ bottom' = bottom + 1 /\ otop' = 0
        /\ UNCHANGED <<top, rings, pushed, tpc, ttop, tring, tx, got>>
    BY DEF TakeRestore, thiefVars
  <1>2. Bottom' = Bottom /\ top \in Nat /\ bottom \in Nat /\ Current' = Current
    BY <1>1 DEF Bottom, Withdrawn, TypeOK, Current
  <1>3. TypeOK'
    BY <1>1, <1>2 DEF TypeOK
  <1>4. Positions'
    BY <1>1, <1>2 DEF Positions
  <1>5. Pushing' /\ WaitingPushed' /\ Stealing'
    BY <1>1, <1>2 DEF Pushing, WaitingPushed, Slot, Stealing
  <1> QED
    BY <1>1, <1>3, <1>4, <1>5

\* What the steps of one thief leave alone.
LEMMA ThiefOnly ==
  ASSUME IInv, UNCHANGED <<top, bottom, rings, pushed, opc, otop, got>>,
         NEW t \in Thieves,
         tpc' \in [Thieves -> {"idle", "top", "bottom", "ring", "slot", "cas"}],
         ttop' \in [Thieves -> Nat], tring' \in [Thieves -> Nat], tx' \in [Thieves -> Slots],
         \A s \in Thieves \ {t} : /\ tpc'[s] = tpc[s] /\ ttop'[s] = ttop[s]
                                  /\ tring'[s] = tring[s] /\ tx'[s] = tx[s],
         ttop'[t] <= top,
         tpc'[t] \in {"ring", "slot", "cas"} =>
           /\ rings # <<>>
           /\ tpc'[t] # "ring" => tring'[t] \in 1 .. Current
           /\ ttop'[t] = top =>
                /\ top < Bottom
                /\ tpc'[t] = "slot" => Slot(tring'[t], top) = Slot(Current, top)
                /\ tpc'[t] = "cas" => tx'[t] = Slot(Current, top)
  PROVE  IInv'
  <1> USE DEF IInv, DequeInv
  <1>1. TypeOK'
    BY DEF TypeOK
  <1>2. Bottom' = Bottom /\ Current' = Current
    BY DEF Bottom, Withdrawn, Current
  <1>3. Positions' /\ Pushing' /\ WaitingPushed'
    BY <1>2 DEF Positions, Pushing, WaitingPushed, Slot
  <1>4. ASSUME NEW s \in Thieves
        PROVE  /\ ttop'[s] <= top
               /\ tpc'[s] \in {"ring", "slot", "cas"} =>
                    /\ rings # <<>>
                    /\ tpc'[s] # "ring" => tring'[s] \in 1 .. Current
                    /\ ttop'[s] = top =>
                         /\ top < Bottom
                         /\ tpc'[s] = "slot" => Slot(tring'[s], top) = Slot(Current, top)
                         /\ tpc'[s] = "cas" => tx'[s] = Slot(Current, top)
    <2>1. CASE s = t
      BY <2>1
    <2>2. CASE s # t
      BY <2>2 DEF Stealing
    <2> QED
      BY <2>1, <2>2
  <1>5. Stealing'
    BY <1>2, <1>4 DEF Stealing, Slot
  <1> QED
    BY <1>1, <1>3, <1>5

\* The steps of dq_steal before its swap.
LEMMA StealReadInv ==
  ASSUME IInv, NEW t \in Thieves,
         StealBegin(t) \/ StealTop(t) \/ StealBottom(t) \/ StealRing(t) \/ StealSlot(t)
  PROVE  IInv'
  <1>1. /\ top \in Nat /\ bottom \in Nat /\ Current \in Nat /\ TypeOK /\ Stealing
        /\ None \in Slots /\ (rings # <<>> => Current \in 1 .. Len(rings))
    BY CurrentRing, SMTT(30) DEF IInv, DequeInv, TypeOK, Slots, Current
  <1>2. /\ tpc \in [Thieves -> {"idle", "top", "bottom", "ring", "slot", "cas"}]
        /\ ttop \in [Thieves -> Nat] /\ tring \in [Thieves -> Nat] /\ tx \in [Thieves -> Slots]
    BY <1>1 DEF TypeOK
  <1>3. CASE StealBegin(t)
    <2>1. /\ UNCHANGED <<top, bottom, rings, pushed, opc, otop, ttop, tring, tx, got>>
          /\ tpc' = [tpc EXCEPT ![t] = "top"]
      BY <1>3 DEF StealBegin, ownerVars
    <2> QED
      BY <1>1, <1>2, <2>1, ThiefOnly DEF Stealing
  <1>4. CASE StealTop(t)
    <2>1. /\ UNCHANGED <<top, bottom, rings, pushed, opc, otop, tring, tx, got>>
          /\ ttop' = [ttop EXCEPT ![t] = top] /\ tpc' = [tpc EXCEPT ![t] = "bottom"]
      BY <1>4 DEF StealTop, ownerVars
    <2>2. /\ tpc' \in [Thieves -> {"idle", "top", "bottom", "ring", "slot", "cas"}]
          /\ ttop' \in [Thieves -> Nat] /\ ttop'[t] = top /\ tpc'[t] = "bottom"
          /\ \A s \in Thieves \ {t} : tpc'[s] = tpc[s] /\ ttop'[s] = ttop[s]
      BY <1>1, <1>2, <2>1
    <2> QED
      BY <1>1, <1>2, <2>1, <2>2, ThiefOnly
  <1>5. CASE StealBottom(t)
    <2>1. UNCHANGED <<top, bottom, rings, pushed, opc, otop, got>>
      BY <1>5 DEF StealBottom, ownerVars
    <2>2. CASE ttop[t] >= bottom
      <3>1. /\ tpc' = [tpc EXCEPT ![t] = "idle"] /\ ttop' = [ttop EXCEPT ![t] = 0]
            /\ tring' = [tring EXCEPT ![t] = 0] /\ tx' = [tx EXCEPT ![t] = None]
        BY <1>1, <1>2, <1>5, <2>2 DEF StealBottom, Forget
      <3> QED
        BY <1>1, <1>2, <2>1, <3>1, ThiefOnly, SMTT(30)
    <2>3. CASE ttop[t] < bottom
      <3>1. tpc' = [tpc EXCEPT ![t] = "ring"] /\ UNCHANGED <<ttop, tring, tx>>
        BY <1>1, <1>2, <1>5, <2>3 DEF StealBottom
      <3>2. ttop[t] \in Nat /\ ttop[t] <= top /\ bottom > 0 /\ bottom <= Bottom
        BY <1>1, <1>2, <2>3 DEF Stealing, Bottom
      <3>3. rings # <<>>
        BY <1>1, <3>2 DEF IInv, DequeInv, Positions
      <3>4. ttop[t] = top => top < Bottom
        BY <1>1, <2>3, <3>2 DEF Bottom
      <3> QED
        BY <1>1, <1>2, <2>1, <3>1, <3>2, <3>3, <3>4, ThiefOnly
    <2> QED
      BY <1>1, <1>2, <2>2, <2>3
  <1>6. CASE StealRing(t)
    <2>1. /\ UNCHANGED <<top, bottom, rings, pushed, opc, otop, ttop, tx, got>>
          /\ tpc[t] = "ring" /\ tring' = [tring EXCEPT ![t] = Current]
          /\ tpc' = [tpc EXCEPT ![t] = "slot"]
      BY <1>6 DEF StealRing, ownerVars
    <2>2. /\ rings # <<>> /\ ttop[t] <= top /\ (ttop[t] = top => top < Bottom)
          /\ Current \in 1 .. Current
      BY <1>1, <2>1 DEF Stealing
    <2> QED
      BY <1>1, <1>2, <2>1, <2>2, ThiefOnly
  <1>7. CASE StealSlot(t)
    <2>1. /\ UNCHANGED <<top, bottom, rings, pushed, opc, otop, ttop, tring, got>>
          /\ tpc[t] = "slot" /\ tx' = [tx EXCEPT ![t] = Slot(tring[t], ttop[t])]
          /\ tpc' = [tpc EXCEPT ![t] = "cas"]
      BY <1>7 DEF StealSlot, ownerVars
    <2>2. /\ rings # <<>> /\ ttop[t] <= top /\ tring[t] \in 1 .. Current
          /\ ttop[t] = top => top < Bottom /\ Slot(tring[t], top) = Slot(Current, top)
      BY <1>1, <2>1 DEF Stealing
    <2>3. Slot(tring[t], ttop[t]) \in Slots
      BY <1>1, <1>2, <2>2, SlotType DEF Current
    <2>4. tx' \in [Thieves -> Slots]
      BY <1>2, <2>1, <2>3
    <2> QED
      BY <1>1, <1>2, <2>1, <2>2, <2>4, ThiefOnly
  <1> QED
    BY <1>3, <1>4, <1>5, <1>6, <1>7

\* The swap of dq_steal: it succeeds only while the task at top still waits, and
\* then every other thief's top is out of date.
LEMMA StealCasInv ==
  ASSUME IInv, NEW t \in Thieves, StealCas(t)
  PROVE  IInv'
  <1>1. /\ top \in Nat /\ bottom \in Nat /\ Current \in Nat /\ TypeOK /\ Stealing /\ Positions
        /\ None \in Slots /\ (rings # <<>> => Current \in 1 .. Len(rings))
    BY CurrentRing DEF IInv, DequeInv, TypeOK, Slots, Current
  <1>2. /\ tpc \in [Thieves -> {"idle", "top", "bottom", "ring", "slot", "cas"}]
        /\ ttop \in [Thieves -> Nat] /\ tring \in [Thieves -> Nat] /\ tx \in [Thieves -> Slots]
    BY <1>1 DEF TypeOK
  <1>3. /\ UNCHANGED <<bottom, rings, pushed, opc, otop>> /\ tpc[t] = "cas"
        /\ ttop' = [ttop EXCEPT ![t] = 0]
        /\ tring' = [tring EXCEPT ![t] = 0] /\ tx' = [tx EXCEPT ![t] = None]
    BY DEF StealCas, ownerVars, Forget
  <1>4. CASE top # ttop[t]
    <2>1. UNCHANGED <<top, got>> /\ tpc' = [tpc EXCEPT ![t] = "top"]
      BY <1>4 DEF StealCas
    <2>2. /\ tpc' \in [Thieves -> {"idle", "top", "bottom", "ring", "slot", "cas"}]
          /\ ttop' \in [Thieves -> Nat] /\ tring' \in [Thieves -> Nat]
          /\ tx' \in [Thieves -> Slots] /\ ttop'[t] = 0 /\ tpc'[t] = "top"
      BY <1>1, <1>2, <1>3, <2>1
    <2>3. \A s \in Thieves \ {t} : /\ tpc'[s] = tpc[s] /\ ttop'[s] = ttop[s]
                                   /\ tring'[s] = tring[s] /\ tx'[s] = tx[s]
      BY <1>2, <1>3, <2>1
    <2> QED
      BY <1>1, <1>3, <2>1, <2>2, <2>3, ThiefOnly
  <1>5. CASE top = ttop[t]
    <2>1. top' = top + 1 /\ Hand(t, tx[t]) /\ tpc' = [tpc EXCEPT ![t] = "idle"]
      BY <1>5 DEF StealCas
    <2>2. rings # <<>> /\ top < Bottom /\ tx[t] = Slot(Current, top)
      BY <1>1, <1>3, <1>5 DEF Stealing
    <2>3. got' \in [{Owner} \cup Thieves -> SUBSET Tasks]
      <3>1. tx[t] \in Tasks
        BY <1>1, <2>2, TaskAt
      <3> QED
        BY <1>1, <2>1, <3>1, HandType
    <2>4. Bottom' = Bottom /\ Bottom \in Nat /\ Current' = Current
      BY <1>1, <1>3 DEF Bottom, Withdrawn, Current
    <2>5. TypeOK'
      <3>1. /\ tpc' \in [Thieves -> {"idle", "top", "bottom", "ring", "slot", "cas"}]
            /\ ttop' \in [Thieves -> Nat] /\ tring' \in [Thieves -> Nat]
            /\ tx' \in [Thieves -> Slots]
        BY <1>1, <1>2, <1>3, <2>1
      <3> QED
        BY <1>1, <1>3, <2>1, <2>3, <3>1 DEF TypeOK
    <2>6. Positions'
      <3>1. opc = "restore" => FALSE
        BY <1>1, <2>2 DEF Positions, Bottom, Withdrawn
      <3>2. rings[Current].cap \in Nat
        BY <2>2, CurrentRing
      <3> QED
        BY <1>1, <1>3, <2>1, <2>2, <2>4, <3>1, <3>2 DEF Positions, TypeOK
    <2>7. Pushing' /\ WaitingPushed'
      <3>1. Pushing'
        <4>1. otop \in Nat /\ (otop <= top => otop <= top')
          BY <1>1, <2>1 DEF TypeOK
        <4> QED
          BY <1>3, <2>4, <4>1 DEF IInv, DequeInv, Pushing, Slot
      <3>2. WaitingPushed'
        <4>1. \A k \in (top + 1) .. (Bottom - 1) : k \in top .. (Bottom - 1)
          BY <1>1, <2>4
        <4> QED
          BY <1>3, <2>1, <2>4, <4>1 DEF IInv, DequeInv, WaitingPushed, Slot
      <3> QED
        BY <3>1, <3>2
    <2>8. Stealing'
      <3> SUFFICES ASSUME NEW s \in Thieves
                   PROVE  /\ ttop'[s] <= top + 1
                          /\ tpc'[s] \in {"ring", "slot", "cas"} =>
                               /\ rings # <<>>
                               /\ tpc'[s] # "ring" => tring'[s] \in 1 .. Current
                               /\ ttop'[s] # top + 1
        BY <1>3, <2>1, <2>4 DEF Stealing
      <3>1. CASE s = t
        BY <1>1, <1>2, <1>3, <2>1, <3>1
      <3>2. CASE s # t
        <4>1. ttop[s] \in Nat /\ ttop[s] <= top
          BY <1>1, <1>2 DEF Stealing
        <4> QED
          BY <1>1, <1>2, <1>3, <2>1, <3>2, <4>1 DEF Stealing
      <3> QED
        BY <3>1, <3>2
    <2> QED
      BY <1>3, <2>5, <2>6, <2>7, <2>8 DEF IInv, DequeInv
  <1> QED
    BY <1>4, <1>5

\* Every step keeps the invariant.
LEMMA NextInv == IInv /\ [Next]_vars => IInv'
  <1> SUFFICES ASSUME IInv, [Next]_vars PROVE IInv'
    OBVIOUS
  <1>1. CASE OwnerStep
    BY <1>1, PushLoadInv, GrowInv, PushStoreInv, PushPublishInv, TakeReserveInv, TakeTopInv,
       TakeCasInv, TakeRestoreInv DEF OwnerStep
  <1>2. ASSUME NEW t \in Thieves, ThiefStep(t) PROVE IInv'
    BY <1>2, StealReadInv, StealCasInv DEF ThiefStep, StealLoop
  <1>3. CASE UNCHANGED vars
    BY <1>3 DEF vars, ownerVars, thiefVars, IInv, DequeInv, TypeOK, Positions, Pushing,
                WaitingPushed, Stealing, Slot, Current, Bottom, Withdrawn
  <1> QED
    BY <1>1, <1>2, <1>3 DEF Next

\* No thread of the team acts on a stale position, ring or slot of the deque in
\* a way that matters: DequeInv holds throughout.
THEOREM DequeInvariant == Spec => []DequeInv
  <1>1. IInv => DequeInv
    BY DEF IInv
  <1> QED
    BY <1>1, InitInv, NextInv, PTL DEF Spec

\* Types of the deque: no empty slot is handed out, and bottom does not run
\* below zero when dq_take withdraws from an empty deque.
THEOREM DequeTypeCorrect == Spec => []TypeOK
  <1>1. DequeInv => TypeOK
    BY DEF DequeInv
  <1> QED
    BY <1>1, DequeInvariant, PTL
-----------------------------------------------------------------------------
(* The refinement: every step of the deque is a step of TaskPool or changes  *)
(* nothing there.                                                           *)

\* The waiting tasks are a sequence, oldest first.
LEMMA WaitingSeq ==
  ASSUME IInv
  PROVE  /\ Waiting \in Seq(Tasks) /\ Len(Waiting) = Bottom - top
         /\ Bottom - top \in Nat /\ Bottom \in Nat /\ top \in Nat
         /\ \A i \in 1 .. (Bottom - top) : Waiting[i] = Slot(Current, top + i - 1)
  <1>1. top \in Nat /\ bottom \in Nat /\ Bottom \in Nat /\ top <= Bottom
    BY DEF IInv, DequeInv, TypeOK, Bottom, Positions
  <1>2. Bottom - top \in Nat
    BY <1>1
  <1>3. ASSUME NEW i \in 1 .. (Bottom - top) PROVE Slot(Current, top + i - 1) \in Tasks
    <2>1. top + i - 1 \in Nat /\ top <= top + i - 1 /\ top + i - 1 < Bottom
      BY <1>1, <1>3
    <2> QED
      BY <2>1, TaskAt
  <1> DEFINE n == Bottom - top
             f(i) == Slot(Current, top + i - 1)
  <1>4. Waiting = [i \in 1 .. n |-> f(i)]
    BY DEF Waiting
  <1>5. n \in Nat /\ \A i \in 1 .. n : f(i) \in Tasks
    BY <1>2, <1>3
  <1> HIDE DEF n, f
  <1>6. Waiting \in Seq(Tasks) /\ Len(Waiting) = n /\ \A i \in 1 .. n : Waiting[i] = f(i)
    BY <1>4, <1>5
  <1> QED
    BY <1>1, <1>2, <1>6 DEF n, f

\* As WaitingSeq, after a step, with the tasks read from the ring of then.
LEMMA WaitingSeqNext ==
  ASSUME IInv'
  PROVE  /\ Waiting' \in Seq(Tasks) /\ Len(Waiting') = Bottom' - top'
         /\ Bottom' - top' \in Nat /\ Bottom' \in Nat /\ top' \in Nat
         /\ \A i \in 1 .. (Bottom' - top') : Waiting'[i] = Slot(Current, top + i - 1)'
  <1> DEFINE facts == /\ Waiting \in Seq(Tasks) /\ Len(Waiting) = Bottom - top
                      /\ Bottom - top \in Nat /\ Bottom \in Nat /\ top \in Nat
                      /\ \A i \in 1 .. (Bottom - top) : Waiting[i] = Slot(Current, top + i - 1)
  <1>1. facts'
    BY WaitingSeq, PTL
  <1> QED
    BY <1>1

\* What a waiting task becomes when the slots of its position agree.
LEMMA WaitingKept ==
  ASSUME IInv, IInv', NEW d \in {0, 1}, top' = top + d,
         NEW n \in Nat, n <= Bottom - top', n <= Bottom' - top',
         \A k \in top' .. (top' + n - 1) : Slot(Current, k)' = Slot(Current, k)
  PROVE  \A i \in 1 .. n : Waiting'[i] = Waiting[i + d]
  <1> SUFFICES ASSUME NEW i \in 1 .. n PROVE Waiting'[i] = Waiting[i + d]
    OBVIOUS
  <1>1. top \in Nat /\ Bottom \in Nat /\ Bottom' \in Nat /\ top' \in Nat
    BY WaitingSeq, WaitingSeqNext
  <1>2. PICK k \in Nat : k = top' + i - 1
    BY <1>1
  <1>3. k \in top' .. (top' + n - 1) /\ i \in 1 .. (Bottom' - top') /\ i + d \in 1 .. (Bottom - top)
        /\ k = top + (i + d) - 1
    <2>1. i \in Int /\ 1 <= i /\ i <= n /\ d \in Int /\ 0 <= d
      OBVIOUS
    <2>2. k = top + (i + d) - 1 /\ k >= top' /\ k <= top' + n - 1
      BY <1>1, <1>2, <2>1
    <2>3. \A b, c \in Nat : n <= b - c => i <= b - c
      BY <2>1
    <2>4. \A b, c \in Nat : n <= b - (c + d) => i + d <= b - c
      BY <2>1
    <2>5. i \in 1 .. (Bottom' - top')
      <3>1. n <= Bottom' - top'
        OBVIOUS
      <3>2. i <= Bottom' - top'
        BY <1>1, <2>3, <3>1
      <3>3. Bottom' - top' \in Int
        BY <1>1
      <3> QED
        BY <2>1, <3>2, <3>3
    <2>6. i + d \in 1 .. (Bottom - top)
      BY <1>1, <2>1, <2>4
    <2>7. k \in top' .. (top' + n - 1)
      BY <1>1, <2>2
    <2> QED
      BY <2>2, <2>5, <2>6, <2>7
  <1>4. Waiting[i + d] = Slot(Current, k)
    <2>1. Waiting[i + d] = Slot(Current, top + (i + d) - 1)
      BY <1>3, WaitingSeq
    <2> QED
      BY <1>3, <2>1
  <1>5. Waiting'[i] = Slot(Current, k)'
    <2>1. Waiting'[i] = Slot(Current, top + i - 1)'
      BY <1>3, WaitingSeqNext
    <2> QED
      BY <1>2, <2>1 DEF Slot
  <1> QED
    BY <1>3, <1>4, <1>5

\* Sequences of the same elements are the same.
LEMMA SameIs ==
  ASSUME NEW S, NEW q \in Seq(S), NEW r \in Seq(S), Len(r) = Len(q),
         \A i \in 1 .. Len(q) : r[i] = q[i]
  PROVE  r = q
  OBVIOUS

\* Steps that keep the waiting positions and what they hold are stutters.
LEMMA WaitingSame ==
  ASSUME IInv, IInv', top' = top, Bottom' = Bottom,
         \A k \in top .. (Bottom - 1) : Slot(Current, k)' = Slot(Current, k)
  PROVE  Waiting' = Waiting
  <1>1. top \in Nat /\ Bottom \in Nat /\ Bottom - top \in Nat
        /\ Waiting \in Seq(Tasks) /\ Len(Waiting) = Bottom - top
    BY WaitingSeq
  <1>2. Waiting' \in Seq(Tasks) /\ Len(Waiting') = Bottom - top
    BY WaitingSeqNext
  <1>3. top + (Bottom - top) - 1 = Bottom - 1 /\ top' = top + 0
    BY <1>1
  <1>4. \A i \in 1 .. (Bottom - top) : Waiting'[i] = Waiting[i + 0]
    BY <1>1, <1>3, WaitingKept
  <1>5. \A i \in 1 .. Len(Waiting) : Waiting'[i] = Waiting[i]
    BY <1>1, <1>4
  <1> QED
    BY <1>1, <1>2, <1>5, SameIs

\* A sequence of one element more, of one less at the end, or at the front.
LEMMA AppendIs ==
  ASSUME NEW S, NEW q \in Seq(S), NEW r \in Seq(S), NEW x \in S, Len(r) = Len(q) + 1,
         \A i \in 1 .. Len(q) : r[i] = q[i], r[Len(q) + 1] = x
  PROVE  r = Append(q, x)
  OBVIOUS

\* As AppendIs, for SubSeq.
LEMMA FrontIs ==
  ASSUME NEW S, NEW q \in Seq(S), NEW r \in Seq(S), Len(q) > 0, Len(r) = Len(q) - 1,
         \A i \in 1 .. Len(r) : r[i] = q[i]
  PROVE  r = SubSeq(q, 1, Len(q) - 1)
  OBVIOUS

\* As AppendIs, for Tail.
LEMMA TailIs ==
  ASSUME NEW S, NEW q \in Seq(S), NEW r \in Seq(S), Len(q) > 0, Len(r) = Len(q) - 1,
         \A i \in 1 .. Len(r) : r[i] = q[i + 1]
  PROVE  r = Tail(q)
  OBVIOUS

\* The abstract pool does not see a step that keeps the waiting tasks.
LEMMA PoolStutter ==
  ASSUME IInv, IInv', UNCHANGED <<pushed, got>>, top' = top, Bottom' = Bottom,
         \A k \in top .. (Bottom - 1) : Slot(Current, k)' = Slot(Current, k)
  PROVE  UNCHANGED Pool!poolVars
  BY WaitingSame DEF Pool!poolVars

\* As PoolStutter, when no ring changes.
LEMMA PoolStutterRings ==
  ASSUME IInv, IInv', UNCHANGED <<pushed, got, rings>>, top' = top, Bottom' = Bottom
  PROVE  UNCHANGED Pool!poolVars
  <1>1. \A k \in top .. (Bottom - 1) : Slot(Current, k)' = Slot(Current, k)
    BY DEF Slot, Current
  <1> QED
    BY <1>1, PoolStutter

\* dq_push before it publishes: the new slot lies outside the waiting ones, and
\* a new ring holds them at the same positions.
LEMMA PushStutters ==
  ASSUME IInv, IInv', PushLoad \/ Grow \/ PushStore
  PROVE  UNCHANGED Pool!poolVars
  <1>1. CASE PushLoad
    <2>1. UNCHANGED <<pushed, got, rings, top, bottom>> /\ Bottom' = Bottom
      BY <1>1 DEF PushLoad, Bottom, Withdrawn
    <2> QED
      BY <2>1, PoolStutterRings
  <1>2. CASE Grow
    <2>1. /\ UNCHANGED <<pushed, got, top, bottom>> /\ Bottom' = bottom /\ Bottom = bottom
          /\ otop \in Nat /\ top \in Nat /\ bottom \in Nat /\ otop <= top
      BY <1>2 DEF Grow, Bottom, Withdrawn, IInv, DequeInv, TypeOK, Pushing
    <2>2. \A k \in otop .. (bottom - 1) : Slot(Current, k)' = Slot(Current, k)
      BY <1>2, GrowEffect
    <2>3. \A k \in top .. (bottom - 1) : k \in otop .. (bottom - 1)
      BY <2>1
    <2>4. \A k \in top .. (Bottom - 1) : Slot(Current, k)' = Slot(Current, k)
      BY <2>1, <2>2, <2>3
    <2> QED
      BY <2>1, <2>4, PoolStutter
  <1>3. CASE PushStore
    <2>1. UNCHANGED <<pushed, got, top, bottom>> /\ Bottom' = bottom /\ Bottom = bottom
      BY <1>3 DEF PushStore, Bottom, Withdrawn
    <2>2. \A k \in top .. (Bottom - 1) : Slot(Current, k)' = Slot(Current, k)
      BY <1>3, <2>1, StoreEffect
    <2> QED
      BY <2>1, <2>2, PoolStutter
  <1> QED
    BY <1>1, <1>2, <1>3

\* dq_push publishes: the task it stored is the newest waiting one.
LEMMA PublishPuts ==
  ASSUME IInv, IInv', PushPublish
  PROVE  Pool!Put
  <1>1. /\ opc = "publish" /\ opc' = "idle" /\ bottom' = bottom + 1 /\ pushed' = pushed + 1
        /\ UNCHANGED <<top, rings, got>>
    BY DEF PushPublish
  <1>2. /\ Bottom = bottom /\ Bottom' = bottom + 1 /\ top \in Nat /\ bottom \in Nat
        /\ pushed \in Nat /\ pushed < MaxTasks /\ Slot(Current, bottom) = pushed + 1
    BY <1>1 DEF Bottom, Withdrawn, IInv, DequeInv, TypeOK, Pushing
  <1>3. /\ Waiting \in Seq(Tasks) /\ Len(Waiting) = bottom - top /\ bottom - top \in Nat
        /\ Waiting' \in Seq(Tasks) /\ Len(Waiting') = (bottom - top) + 1
    BY <1>1, <1>2, WaitingSeq, WaitingSeqNext
  <1>4. \A k \in top' .. (top' + (bottom - top) - 1) : Slot(Current, k)' = Slot(Current, k)
    BY <1>1 DEF Slot, Current
  <1>5. \A i \in 1 .. (bottom - top) : Waiting'[i] = Waiting[i + 0]
    BY <1>1, <1>2, <1>3, <1>4, WaitingKept
  <1>6. Waiting'[(bottom - top) + 1] = pushed + 1
    <2>1. PICK n \in Nat : n = (bottom - top) + 1
      BY <1>3
    <2>2. n \in 1 .. (Bottom' - top') /\ top' + n - 1 = bottom
      BY <1>1, <1>2, <1>3, <2>1
    <2>3. Waiting'[n] = Slot(Current, top + n - 1)'
      BY <2>2, WaitingSeqNext
    <2>4. Waiting'[n] = Slot(Current, bottom)
      BY <1>1, <2>2, <2>3 DEF Slot, Current
    <2> QED
      BY <1>2, <2>1, <2>4
  <1>7. pushed + 1 \in Tasks
    BY <1>2, DequeAssumption DEF Tasks
  <1>8. \A i \in 1 .. Len(Waiting) : Waiting'[i] = Waiting[i]
    BY <1>3, <1>5
  <1>9. Waiting' = Append(Waiting, pushed + 1)
    BY <1>3, <1>6, <1>7, <1>8, AppendIs
  <1> QED
    BY <1>1, <1>2, <1>9 DEF Pool!Put

\* The owner is handed the newest waiting task when top or Bottom passes it.
LEMMA TakesNewest ==
  ASSUME IInv, IInv', UNCHANGED <<pushed, rings>>, Withdrawn,
         NEW x, Hand(Owner, x), x = Slot(Current, bottom), top <= bottom,
         \/ top' = top /\ Bottom' = bottom
         \/ top = bottom /\ top' = top + 1 /\ Bottom' = Bottom
  PROVE  Pool!TakeNewest
  <1>1. Bottom = bottom + 1 /\ top \in Nat /\ bottom \in Nat
    BY DEF Bottom, IInv, DequeInv, TypeOK
  <1>2. /\ Waiting \in Seq(Tasks) /\ Len(Waiting) = (bottom - top) + 1 /\ bottom - top \in Nat
        /\ Waiting' \in Seq(Tasks) /\ Len(Waiting') = bottom - top
    <2>1. Waiting \in Seq(Tasks) /\ Len(Waiting) = (bottom - top) + 1 /\ bottom - top \in Nat
      BY <1>1, WaitingSeq
    <2>2. Waiting' \in Seq(Tasks) /\ Len(Waiting') = Bottom' - top'
      BY WaitingSeqNext
    <2>3. Bottom' - top' = bottom - top
      BY <1>1
    <2> QED
      BY <2>1, <2>2, <2>3
  <1>3. \A k \in top' .. (top' + (bottom - top) - 1) : Slot(Current, k)' = Slot(Current, k)
    BY DEF Slot, Current
  <1>4. \A i \in 1 .. (bottom - top) : Waiting'[i] = Waiting[i]
    <2>1. CASE top' = top /\ Bottom' = bottom
      <3>1. PICK n \in Nat : n = bottom - top
        BY <1>2
      <3>2. top' = top + 0 /\ n <= Bottom - top' /\ n <= Bottom' - top'
        BY <1>1, <2>1, <3>1
      <3>3. \A k \in top' .. (top' + n - 1) : Slot(Current, k)' = Slot(Current, k)
        BY <1>3, <3>1
      <3>4. \A i \in 1 .. n : Waiting'[i] = Waiting[i + 0]
        BY <3>2, <3>3, WaitingKept
      <3>5. \A i \in 1 .. n : i + 0 = i
        BY <3>1
      <3> QED
        BY <3>1, <3>4, <3>5
    <2>2. CASE top = bottom
      BY <1>1, <2>2
    <2> QED
      BY <2>1, <2>2
  <1>5. Waiting[Len(Waiting)] = x
    <2>1. Waiting[(bottom - top) + 1] = Slot(Current, top + ((bottom - top) + 1) - 1)
      BY <1>1, <1>2, WaitingSeq
    <2>2. top + ((bottom - top) + 1) - 1 = bottom
      BY <1>1
    <2> QED
      BY <1>2, <2>1, <2>2
  <1>6. Waiting # <<>> /\ Waiting' = SubSeq(Waiting, 1, Len(Waiting) - 1)
    <2>1. Len(Waiting) > 0 /\ Len(Waiting') = Len(Waiting) - 1
      BY <1>2
    <2>2. \A i \in 1 .. Len(Waiting') : Waiting'[i] = Waiting[i]
      BY <1>2, <1>4
    <2> QED
      BY <1>2, <2>1, <2>2, FrontIs
  <1> QED
    BY <1>5, <1>6 DEF Pool!TakeNewest, Hand

\* dq_take: only the step that wins the task is seen, whether by top < bottom
\* or in the race for the last one.
LEMMA TakeRefines ==
  ASSUME IInv, IInv',
         (\E mark \in 0 .. bottom : TakeReserve(mark)) \/ TakeTop \/ TakeCas \/ TakeRestore
  PROVE  Pool!TakeNewest \/ UNCHANGED Pool!poolVars
  <1> top \in Nat /\ bottom \in Nat
    BY DEF IInv, DequeInv, TypeOK
  <1>1. CASE \E mark \in 0 .. bottom : TakeReserve(mark)
    <2>1. UNCHANGED <<pushed, got, rings, top>> /\ Bottom' = Bottom
      BY <1>1 DEF TakeReserve, Bottom, Withdrawn
    <2> QED
      BY <2>1, PoolStutterRings
  <1>2. CASE TakeTop
    <2>1. UNCHANGED <<pushed, rings, top>> /\ opc = "take" /\ Bottom = bottom + 1 /\ Withdrawn
      BY <1>2 DEF TakeTop, Bottom, Withdrawn
    <2>2. CASE top < bottom
      <3>1. Hand(Owner, Slot(Current, bottom)) /\ Bottom' = bottom
        BY <1>2, <2>2 DEF TakeTop, Bottom, Withdrawn
      <3>2. top <= bottom /\ top' = top
        BY <2>1, <2>2
      <3> QED
        BY <2>1, <3>1, <3>2, TakesNewest
    <2>3. CASE ~(top < bottom)
      <3>1. UNCHANGED got /\ Bottom' = Bottom
        BY <1>2, <2>1, <2>3 DEF TakeTop, Bottom, Withdrawn
      <3> QED
        BY <2>1, <3>1, PoolStutterRings
    <2> QED
      BY <2>2, <2>3
  <1>3. CASE TakeCas
    <2>1. /\ UNCHANGED <<pushed, rings, bottom>> /\ Bottom = bottom + 1 /\ Bottom' = Bottom
          /\ Withdrawn /\ otop = bottom
      BY <1>3 DEF TakeCas, Bottom, Withdrawn, IInv, DequeInv, Positions
    <2>2. CASE top = otop
      <3>1. Hand(Owner, Slot(Current, bottom)) /\ top' = top + 1 /\ top <= bottom
        BY <1>3, <2>1, <2>2 DEF TakeCas
      <3> QED
        BY <2>1, <2>2, <3>1, TakesNewest
    <2>3. CASE top # otop
      <3>1. UNCHANGED <<got, top>>
        BY <1>3, <2>3 DEF TakeCas
      <3> QED
        BY <2>1, <3>1, PoolStutterRings
    <2> QED
      BY <2>2, <2>3
  <1>4. CASE TakeRestore
    <2>1. UNCHANGED <<pushed, got, rings, top>> /\ Bottom' = Bottom
      BY <1>4 DEF TakeRestore, Bottom, Withdrawn
    <2> QED
      BY <2>1, PoolStutterRings
  <1> QED
    BY <1>1, <1>2, <1>3, <1>4

\* dq_steal: only the swap that succeeds is seen, and whichever ring the thief
\* read, it then holds the oldest waiting task.
LEMMA StealRefines ==
  ASSUME IInv, IInv', NEW t \in Thieves, ThiefStep(t)
  PROVE  Pool!StealOldest(t) \/ UNCHANGED Pool!poolVars
  <1>1. UNCHANGED <<pushed, rings, bottom, opc>> /\ Bottom' = Bottom
    BY DEF ThiefStep, StealLoop, StealBegin, StealTop, StealBottom, StealRing, StealSlot, StealCas,
           ownerVars, Bottom, Withdrawn
  <1>2. CASE ~(StealCas(t) /\ top = ttop[t])
    <2>1. UNCHANGED <<got, top>>
      BY <1>2 DEF ThiefStep, StealLoop, StealBegin, StealTop, StealBottom, StealRing, StealSlot,
                  StealCas
    <2> QED
      BY <1>1, <2>1, PoolStutterRings
  <1>3. CASE StealCas(t) /\ top = ttop[t]
    <2>1. top' = top + 1 /\ Hand(t, tx[t]) /\ tpc[t] = "cas"
      BY <1>3 DEF StealCas
    <2>2. tx[t] = Slot(Current, top) /\ top < Bottom
      BY <1>3, <2>1 DEF IInv, DequeInv, Stealing
    <2>3. top \in Nat /\ Bottom \in Nat
      BY WaitingSeq
    <2>4. PICK n \in Nat : n = Bottom - top - 1
      BY <2>2, <2>3
    <2>5. /\ Waiting \in Seq(Tasks) /\ Len(Waiting) = n + 1
          /\ Waiting' \in Seq(Tasks) /\ Len(Waiting') = n
      <3>1. Waiting \in Seq(Tasks) /\ Len(Waiting) = Bottom - top
        BY WaitingSeq
      <3>2. Waiting' \in Seq(Tasks) /\ Len(Waiting') = Bottom' - top'
        BY WaitingSeqNext
      <3>3. Bottom - top = n + 1 /\ Bottom' - top' = n
        BY <1>1, <2>1, <2>3, <2>4
      <3> QED
        BY <3>1, <3>2, <3>3
    <2>6. \A k \in top' .. (top' + n - 1) : Slot(Current, k)' = Slot(Current, k)
      BY <1>1 DEF Slot, Current
    <2>7. \A i \in 1 .. n : Waiting'[i] = Waiting[i + 1]
      <3>1. n <= Bottom - top' /\ n <= Bottom' - top'
        BY <1>1, <2>1, <2>3, <2>4
      <3> QED
        BY <2>1, <2>6, <3>1, WaitingKept
    <2>8. Waiting[1] = tx[t]
      <3>1. 1 \in 1 .. (Bottom - top) /\ top + 1 - 1 = top
        BY <2>2, <2>3
      <3>2. Waiting[1] = Slot(Current, top + 1 - 1)
        BY <3>1, WaitingSeq
      <3> QED
        BY <2>2, <3>1, <3>2
    <2>9. Waiting # <<>> /\ Waiting' = Tail(Waiting)
      <3>1. Len(Waiting) > 0 /\ Len(Waiting') = Len(Waiting) - 1
        BY <2>5
      <3>2. \A i \in 1 .. Len(Waiting') : Waiting'[i] = Waiting[i + 1]
        BY <2>5, <2>7
      <3> QED
        BY <2>5, <3>1, <3>2, TailIs
    <2>10. Head(Waiting) = tx[t]
      BY <2>5, <2>8
    <2> QED
      BY <1>1, <2>1, <2>9, <2>10 DEF Pool!StealOldest, Hand
  <1> QED
    BY <1>2, <1>3

\* Every step of the deque is a step of the pool or none.
LEMMA NextRefines == IInv /\ IInv' /\ [Next]_vars => [Pool!PoolNext]_(Pool!poolVars)
  <1> SUFFICES ASSUME IInv, IInv', [Next]_vars PROVE [Pool!PoolNext]_(Pool!poolVars)
    OBVIOUS
  <1>1. CASE OwnerStep
    BY <1>1, PushStutters, PublishPuts, TakeRefines DEF OwnerStep, Pool!PoolNext
  <1>2. ASSUME NEW t \in Thieves, ThiefStep(t) PROVE [Pool!PoolNext]_(Pool!poolVars)
    BY <1>2, StealRefines DEF Pool!PoolNext
  <1>3. CASE UNCHANGED vars
    <2>1. UNCHANGED <<pushed, got, rings, top>> /\ Bottom' = Bottom
      BY <1>3 DEF vars, ownerVars, Bottom, Withdrawn
    <2> QED
      BY <2>1, PoolStutterRings
  <1> QED
    BY <1>1, <1>2, <1>3 DEF Next

\* The deque starts as an empty pool.
LEMMA InitRefines == Init => Pool!PoolInit
  BY DEF Init, Pool!PoolInit, Waiting, Bottom, Withdrawn

\* For any number of thieves and tasks, any first ring and any interleaving,
\* the deque of tasks.c behaves as TaskPool: a steal yields the oldest waiting
\* task, a take the newest, and nothing is handed out twice or dropped.
THEOREM DequeImplementsPool == Spec => PoolSpec
  BY InitInv, NextInv, InitRefines, NextRefines, PTL DEF Spec, PoolSpec, Pool!PoolSpec
-----------------------------------------------------------------------------
(* The pool, and with it the deque, keeps every task in one place.           *)

\* What OnePlace says, of any queue, put and got: the form the steps are shown in.
InOnePlace(p, q, g) ==
  LET T == {Owner} \cup Thieves
  IN /\ \A i \in 1 .. Len(q) : q[i] \in 1 .. p
     /\ \A t \in T : g[t] \subseteq 1 .. p
     /\ \A i, j \in 1 .. Len(q) : q[i] = q[j] => i = j
     /\ \A t, u \in T : t # u => g[t] \cap g[u] = {}
     /\ \A i \in 1 .. Len(q), t \in T : q[i] \notin g[t]
     /\ \A k \in 1 .. p : \/ \E i \in 1 .. Len(q) : q[i] = k
                          \/ \E t \in T : k \in g[t]

\* Put: the new task is in the queue only.
LEMMA PutOnePlace ==
  ASSUME NEW p \in Nat, NEW q \in Seq(Tasks), NEW g \in [{Owner} \cup Thieves -> SUBSET Tasks],
         NEW r \in Seq(Tasks), r = Append(q, p + 1), InOnePlace(p, q, g)
  PROVE  InOnePlace(p + 1, r, g)
  <1> DEFINE T == {Owner} \cup Thieves
             n == Len(q)
  <1>1. n \in Nat /\ Len(r) = n + 1 /\ r[n + 1] = p + 1 /\ \A i \in 1 .. n : r[i] = q[i]
    OBVIOUS
  <1>2. /\ \A i \in 1 .. n : q[i] \in 1 .. p
        /\ \A t \in T : g[t] \subseteq 1 .. p
        /\ \A i, j \in 1 .. n : q[i] = q[j] => i = j
        /\ \A t, u \in T : t # u => g[t] \cap g[u] = {}
        /\ \A i \in 1 .. n, t \in T : q[i] \notin g[t]
        /\ \A k \in 1 .. p : (\E i \in 1 .. n : q[i] = k) \/ (\E t \in T : k \in g[t])
    BY DEF InOnePlace
  <1>3. \A i \in 1 .. (n + 1) : i = n + 1 \/ i \in 1 .. n
    BY <1>1
  <1>4. p + 1 \notin 1 .. p /\ \A k \in 1 .. (p + 1) : k = p + 1 \/ k \in 1 .. p
    OBVIOUS
  <1>5. 1 .. p \subseteq 1 .. (p + 1) /\ p + 1 \in 1 .. (p + 1) /\ 1 .. n \subseteq 1 .. (n + 1)
        /\ n + 1 \in 1 .. (n + 1)
    BY <1>1
  <1> HIDE DEF T, n
  <1>6. /\ \A i \in 1 .. (n + 1) : r[i] \in 1 .. (p + 1)
        /\ \A t \in T : g[t] \subseteq 1 .. (p + 1)
    BY <1>1, <1>2, <1>3, <1>5
  <1>7. \A i, j \in 1 .. (n + 1) : r[i] = r[j] => i = j
    BY <1>1, <1>2, <1>3, <1>4
  <1>8. \A i \in 1 .. (n + 1), t \in T : r[i] \notin g[t]
    BY <1>1, <1>2, <1>3, <1>4
  <1>9. \A k \in 1 .. (p + 1) : (\E i \in 1 .. (n + 1) : r[i] = k) \/ (\E t \in T : k \in g[t])
    BY <1>1, <1>2, <1>4, <1>5, Zenon
  <1> QED
    BY <1>1, <1>2, <1>6, <1>7, <1>8, <1>9, Zenon DEF InOnePlace, T

\* r is q without its element e, which is the last (d = 0) or the first (d = 1).
Without(q, r, e, d) ==
  /\ d \in {0, 1} /\ e \in 1 .. Len(q) /\ e = (IF d = 0 THEN Len(q) ELSE 1)
  /\ Len(r) = Len(q) - 1 /\ \A i \in 1 .. Len(r) : r[i] = q[i + d]

\* Thread s was given x and no other thread anything.
Given(g, h, s, x) ==
  /\ s \in {Owner} \cup Thieves /\ h[s] = g[s] \cup {x}
  /\ \A t \in {Owner} \cup Thieves : t # s => h[t] = g[t]

\* TakeNewest and StealOldest: the task at one end of the queue moves to a thread.
LEMMA MoveOnePlace ==
  ASSUME NEW p \in Nat, NEW q \in Seq(Tasks), NEW g \in [{Owner} \cup Thieves -> SUBSET Tasks],
         NEW r \in Seq(Tasks), NEW h \in [{Owner} \cup Thieves -> SUBSET Tasks],
         NEW s, NEW e, NEW d, Without(q, r, e, d), Given(g, h, s, q[e]), InOnePlace(p, q, g)
  PROVE  InOnePlace(p, r, h)
  <1> DEFINE T == {Owner} \cup Thieves
             n == Len(q)
             m == Len(r)
  <1>1. /\ n \in Nat /\ m \in Nat /\ m = n - 1 /\ d \in {0, 1} /\ e \in 1 .. n
        /\ e = (IF d = 0 THEN n ELSE 1)
    BY DEF Without
  <1>2. /\ \A i \in 1 .. n : q[i] \in 1 .. p
        /\ \A t \in T : g[t] \subseteq 1 .. p
        /\ \A i, j \in 1 .. n : q[i] = q[j] => i = j
        /\ \A t, u \in T : t # u => g[t] \cap g[u] = {}
        /\ \A i \in 1 .. n, t \in T : q[i] \notin g[t]
        /\ \A k \in 1 .. p : (\E i \in 1 .. n : q[i] = k) \/ (\E t \in T : k \in g[t])
    BY DEF InOnePlace
  <1>3. h[s] = g[s] \cup {q[e]} /\ \A t \in T : t # s => h[t] = g[t]
    BY DEF Given
  <1>4. \A i \in 1 .. m : i + d \in 1 .. n /\ i + d # e
    BY <1>1
  <1>5. \A j \in 1 .. n : j # e => j - d \in 1 .. m /\ (j - d) + d = j
    BY <1>1
  <1>6. \A i, j \in 1 .. m : i + d = j + d => i = j
    BY <1>1
  <1>7. \A i \in 1 .. m : r[i] = q[i + d]
    BY DEF Without
  <1>8. s \in T /\ e \in 1 .. n
    BY <1>1 DEF Given
  <1> HIDE DEF T, n, m
  <1>9. /\ \A i \in 1 .. m : r[i] \in 1 .. p
        /\ \A t \in T : h[t] \subseteq 1 .. p
    BY <1>2, <1>3, <1>4, <1>7, <1>8, SMTT(30)
  <1>10. \A i, j \in 1 .. m : r[i] = r[j] => i = j
    BY <1>2, <1>4, <1>6, <1>7
  <1>11. \A t, u \in T : t # u => h[t] \cap h[u] = {}
    <2>1. \A t \in T : t # s => h[t] \cap h[s] = {}
      BY <1>2, <1>3, <1>8
    <2> QED
      BY <1>2, <1>3, <2>1
  <1>12. \A i \in 1 .. m, t \in T : r[i] \notin h[t]
    BY <1>2, <1>3, <1>4, <1>7, <1>8
  <1>13. \A k \in 1 .. p : (\E i \in 1 .. m : r[i] = k) \/ (\E t \in T : k \in h[t])
    <2> SUFFICES ASSUME NEW k \in 1 .. p
                 PROVE  (\E i \in 1 .. m : r[i] = k) \/ (\E t \in T : k \in h[t])
      OBVIOUS
    <2>1. CASE \E t \in T : k \in g[t]
      BY <1>3, <1>8, <2>1, Zenon
    <2>2. ASSUME NEW j \in 1 .. n, q[j] = k
          PROVE  (\E i \in 1 .. m : r[i] = k) \/ (\E t \in T : k \in h[t])
      <3>1. CASE j = e
        BY <1>3, <1>8, <2>2, <3>1, Zenon
      <3>2. CASE j # e
        BY <1>5, <1>7, <2>2, <3>2, Zenon
      <3> QED
        BY <3>1, <3>2
    <2> QED
      BY <1>2, <2>1, <2>2, Zenon
  <1> QED
    BY <1>9, <1>10, <1>11, <1>12, <1>13, Zenon DEF InOnePlace, T, m

\* A prefix of a sequence.
LEMMA PrefixIs ==
  ASSUME NEW S, NEW q \in Seq(S), NEW n \in 0 .. Len(q)
  PROVE  Len(SubSeq(q, 1, n)) = n /\ \A i \in 1 .. n : SubSeq(q, 1, n)[i] = q[i]
  OBVIOUS

\* What taking the last element off a sequence leaves.
LEMMA FrontFacts ==
  ASSUME NEW S, NEW q \in Seq(S), q # <<>>, NEW r, r = SubSeq(q, 1, Len(q) - 1)
  PROVE  Without(q, r, Len(q), 0)
  <1>1. Len(q) \in Nat /\ Len(q) > 0 /\ Len(q) - 1 \in 0 .. Len(q)
    OBVIOUS
  <1>2. Len(r) = Len(q) - 1 /\ \A i \in 1 .. (Len(q) - 1) : r[i] = q[i]
    BY <1>1, PrefixIs
  <1>3. \A i \in 1 .. (Len(q) - 1) : i + 0 = i
    BY <1>1
  <1> QED
    BY <1>1, <1>2, <1>3 DEF Without

\* What taking the first element off a sequence leaves.
LEMMA TailFacts ==
  ASSUME NEW S, NEW q \in Seq(S), q # <<>>, NEW r, r = Tail(q)
  PROVE  Without(q, r, 1, 1)
  BY DEF Without

\* A step of the pool keeps every task in one place.
LEMMA PoolOnePlace ==
  ASSUME IInv, IInv', InOnePlace(pushed, Waiting, got), [Pool!PoolNext]_(Pool!poolVars)
  PROVE  InOnePlace(pushed', Waiting', got')
  <1>1. /\ pushed \in Nat /\ Waiting \in Seq(Tasks) /\ Waiting' \in Seq(Tasks)
        /\ got \in [{Owner} \cup Thieves -> SUBSET Tasks]
        /\ got' \in [{Owner} \cup Thieves -> SUBSET Tasks]
    <2>1. Waiting \in Seq(Tasks) /\ Waiting' \in Seq(Tasks)
      BY WaitingSeq, WaitingSeqNext
    <2>2. pushed \in Nat /\ got \in [{Owner} \cup Thieves -> SUBSET Tasks]
      BY DequeAssumption DEF IInv, DequeInv, TypeOK
    <2>3. got' \in [{Owner} \cup Thieves -> SUBSET Tasks]
      BY Zenon DEF IInv, DequeInv, TypeOK
    <2> QED
      BY <2>1, <2>2, <2>3
  <1>2. CASE Pool!Put
    <2>1. pushed' = pushed + 1 /\ Waiting' = Append(Waiting, pushed + 1) /\ got' = got
      BY <1>2 DEF Pool!Put
    <2> QED
      BY <1>1, <2>1, PutOnePlace
  <1>3. CASE Pool!TakeNewest
    <2>1. /\ pushed' = pushed /\ Waiting' = SubSeq(Waiting, 1, Len(Waiting) - 1)
          /\ got' = [got EXCEPT ![Owner] = @ \cup {Waiting[Len(Waiting)]}] /\ Waiting # <<>>
      BY <1>3 DEF Pool!TakeNewest
    <2>2. Without(Waiting, Waiting', Len(Waiting), 0)
      BY <1>1, <2>1, FrontFacts
    <2>3. Given(got, got', Owner, Waiting[Len(Waiting)])
      BY <1>1, <2>1 DEF Given
    <2>4. InOnePlace(pushed, Waiting', got')
      BY <1>1, <2>2, <2>3, MoveOnePlace
    <2> QED
      BY <2>1, <2>4
  <1>4. ASSUME NEW t \in Thieves, Pool!StealOldest(t)
        PROVE  InOnePlace(pushed', Waiting', got')
    <2>1. /\ pushed' = pushed /\ Waiting' = Tail(Waiting)
          /\ got' = [got EXCEPT ![t] = @ \cup {Head(Waiting)}] /\ Waiting # <<>>
      BY <1>4 DEF Pool!StealOldest
    <2>2. Without(Waiting, Waiting', 1, 1)
      BY <1>1, <2>1, TailFacts
    <2>3. Given(got, got', t, Waiting[1])
      BY <1>1, <2>1 DEF Given
    <2>4. InOnePlace(pushed, Waiting', got')
      BY <1>1, <2>2, <2>3, MoveOnePlace
    <2> QED
      BY <2>1, <2>4
  <1>5. CASE UNCHANGED Pool!poolVars
    BY <1>5 DEF Pool!poolVars
  <1> QED
    BY <1>2, <1>3, <1>4, <1>5 DEF Pool!PoolNext

\* Whatever races for it, exactly one dq_take or dq_steal returns a task, and
\* until one does it waits in the current ring.
THEOREM DequeRunsOnce == Spec => []RunsOnce
  <1>1. Init => InOnePlace(pushed, Waiting, got)
    <2> SUFFICES ASSUME Init PROVE InOnePlace(pushed, Waiting, got)
      OBVIOUS
    <2>1. pushed = 0 /\ Waiting = <<>> /\ got = [t \in {Owner} \cup Thieves |-> {}]
      BY InitRefines DEF Pool!PoolInit
    <2>2. 1 .. 0 = {} /\ Len(<<>>) = 0
      OBVIOUS
    <2> QED
      BY <2>1, <2>2 DEF InOnePlace
  <1>2. IInv /\ InOnePlace(pushed, Waiting, got) /\ [Next]_vars
          => InOnePlace(pushed, Waiting, got)'
    BY NextInv, NextRefines, PoolOnePlace
  <1>3. InOnePlace(pushed, Waiting, got) => RunsOnce
    BY Zenon DEF InOnePlace, RunsOnce, Pool!OnePlace
  <1> QED
    BY <1>1, <1>2, <1>3, InitInv, NextInv, PTL DEF Spec
=============================================================================
