------------------------- MODULE GuestThreadsProofs -------------------------
(***************************************************************************)
(* Proofs about GuestThreads, for any number of threads, calls and runs.    *)
(***************************************************************************)
EXTENDS GuestThreads, TLAPS

OnceFresh == once.state = 0 => once.ran = 0

\* The variables of a run outside --testing that TypeOK and ThreadsInv speak of.
Typed == TypeOK /\ OnceFresh

(* A helper: a thread's own state is a context. *)
LEMMA OwnIsContext == \A t \in Threads : Own(t) \in Context
  BY DEF Own, Context

(* A helper: main is not a worker, and None is neither. *)
LEMMA ThreadNames == /\ Main \in Threads /\ Main \notin Workers /\ None \notin Threads
                     /\ \A w \in Workers : w \in Threads /\ w # Main /\ w # None
  BY ThreadsAssumption DEF Threads

(* A fresh ThreadRecord is a record. *)
LEMMA NewRecordType == \A e \in Nat : NewRecord(e) \in Record
  BY DEF NewRecord, Record

(* The abandon poll of a resuming thread (acquire_and_restore_gil) changes
   flags only. *)
LEMMA PolledType ==
  ASSUME TypeOK, NEW t \in Threads
  PROVE  Polled(t) \in [Workers -> Record]
  <1>1. ShouldAbandon(t) \in BOOLEAN /\ MustEnd(t) \in BOOLEAN
    BY DEF ShouldAbandon, MustEnd
  <1>2. CASE t \notin Workers
    BY <1>2 DEF Polled, TypeOK
  <1>3. CASE t \in Workers
    <2>1. rec[t] \in Record /\ rec \in [Workers -> Record]
      BY <1>3 DEF TypeOK
    <2> QED BY <1>1, <1>3, <2>1 DEF Polled, Record
  <1> QED BY <1>2, <1>3

(* SaveAndRelease and AcquireAndRestore keep the types of what they write. *)
LEMMA SaveType ==
  ASSUME TypeOK, NEW t \in Threads, NEW where \in Places, SaveAndRelease(t, where)
  PROVE  /\ gil' \in Threads \cup {None} /\ ctx' \in Context
         /\ pc' \in [Threads -> Places] /\ pause' \in [Threads -> Context]
         /\ snap' \in [released : BOOLEAN, ctx : Context]
  BY DEF SaveAndRelease, TypeOK

(* AcquireAndRestore, the other half, keeps the types of what it writes. *)
LEMMA RestoreType ==
  ASSUME TypeOK, NEW t \in Threads, AcquireAndRestore(t)
  PROVE  /\ gil' \in Threads \cup {None} /\ ctx' \in Context
         /\ snap' \in [released : BOOLEAN, ctx : Context]
  <1>1. snap' \in [released : BOOLEAN, ctx : Context]
    BY DEF AcquireAndRestore, TypeOK
  <1> QED BY <1>1 DEF AcquireAndRestore, TypeOK

(* A routine of pthread_once that is cut short leaves its word as it is. *)
LEMMA LeaveType ==
  ASSUME Typed, NEW t \in Threads, LeaveOnce(t)
  PROVE  /\ once' \in [state : {0, 1}, by : Threads \cup {None}, ran : 0..1, done : BOOLEAN]
         /\ OnceFresh'
  BY DEF LeaveOnce, Typed, TypeOK, OnceFresh

(* Types are kept by every step of a guest thread. *)
LEMMA TypeStep ==
  ASSUME Typed, [Next]_vars
  PROVE  Typed'
  <1>R. rec \in [Workers -> Record] /\ \A w \in Workers : rec[w] \in Record
    BY DEF Typed, TypeOK
  <1> USE ThreadNames, OwnIsContext DEF Typed
  <1>1. ASSUME NEW t \in Threads, Block(t) PROVE Typed'
    <2>1. "call" \in Places BY DEF Places
    <2>2. calls' \in [Threads -> Nat]
      BY <1>1 DEF Block, Counted, TypeOK
    <2>3. SaveAndRelease(t, "call") BY <1>1 DEF Block
    <2> QED BY <1>1, <2>1, <2>2, <2>3, SaveType DEF Block, TypeOK, OnceFresh, world, epochs
  <1>2. ASSUME NEW t \in Threads, Unblock(t) PROVE Typed'
    <2>1. pc' \in [Threads -> Places]
      BY <1>2 DEF Unblock, TypeOK, Places, Resumed
    <2>2. once' \in [state : {0, 1}, by : Threads \cup {None}, ran : 0..1, done : BOOLEAN]
          /\ OnceFresh'
      BY <1>2 DEF Unblock, TypeOK, CutOnce, LeaveOnce, OnceFresh
    <2>3. AcquireAndRestore(t) /\ rec' \in [Workers -> Record] BY <1>2, PolledType DEF Unblock
    <2> QED BY <1>2, <2>1, <2>2, <2>3, RestoreType DEF Unblock, TypeOK, epochs
  <1>3. ASSUME NEW t \in Threads, NEW w \in Workers, NEW ok \in HostCreate, Create(t, w, ok)
        PROVE Typed'
    <2>1. calls' \in [Threads -> Nat]
      BY <1>3 DEF Create, Counted, TypeOK
    <2>2. pc' \in [Threads -> Places]
      BY <1>3 DEF Create, TypeOK, Places
    <2>3. rec' \in [Workers -> Record]
      BY <1>3, NewRecordType DEF Create, TypeOK
    <2>4. snap' \in [released : BOOLEAN, ctx : Context]
      BY <1>3 DEF Create, TypeOK
    <2> QED BY <1>3, <2>1, <2>2, <2>3, <2>4 DEF Create, TypeOK, OnceFresh, world, epochs
  <1>4. ASSUME NEW t \in Threads, Created(t) PROVE Typed'
    <2>1. pc' \in [Threads -> Places]
      BY <1>4 DEF Created, TypeOK, Places, Resumed
    <2>2. once' \in [state : {0, 1}, by : Threads \cup {None}, ran : 0..1, done : BOOLEAN]
          /\ OnceFresh'
      BY <1>4 DEF Created, TypeOK, CutOnce, LeaveOnce, OnceFresh
    <2>3. rec' \in [Workers -> Record]
      <3>1. \A p : [Polled(t) EXCEPT ![p].freed = TRUE] \in [Workers -> Record]
        <4>1. \A w \in Workers : Polled(t)[w] \in Record BY PolledType
        <4>2. Polled(t) \in [Workers -> Record] BY PolledType
        <4> QED BY <4>1, <4>2 DEF Record
      <3> QED BY <1>4, <3>1, PolledType DEF Created
    <2> QED BY <1>4, <2>1, <2>2, <2>3, RestoreType DEF Created, TypeOK, epochs
  <1>5. ASSUME NEW t \in Threads, NEW w \in Workers, Join(t, w) PROVE Typed'
    <2>1. "joining" \in Places BY DEF Places
    <2>2. SaveAndRelease(t, "joining") BY <1>5 DEF Join
    <2> QED BY <1>5, <2>1, <2>2, SaveType DEF Join, TypeOK, OnceFresh, world, epochs
  <1>6. ASSUME NEW t \in Threads, Joined(t) PROVE Typed'
    <2>1. pc' \in [Threads -> Places]
      BY <1>6 DEF Joined, TypeOK, Places, Resumed
    <2>2. once' \in [state : {0, 1}, by : Threads \cup {None}, ran : 0..1, done : BOOLEAN]
          /\ OnceFresh'
      BY <1>6 DEF Joined, TypeOK, CutOnce, LeaveOnce, OnceFresh
    <2>3. rec' \in [Workers -> Record]
      <3>1. \A p : [Polled(t) EXCEPT ![p].joined = TRUE, ![p].freed = TRUE]
                      \in [Workers -> Record]
        <4>1. \A w \in Workers : Polled(t)[w] \in Record BY PolledType
        <4>2. Polled(t) \in [Workers -> Record] BY PolledType
        <4> QED BY <4>1, <4>2 DEF Record
      <3> QED BY <1>6, <3>1 DEF Joined
    <2> QED BY <1>6, <2>1, <2>2, <2>3, RestoreType DEF Joined, TypeOK, epochs
  <1>7. ASSUME NEW t \in Threads, NEW w \in Workers, Detach(t, w) PROVE Typed'
    <2>1. rec' \in [Workers -> Record]
      BY <1>7, <1>R, ZenonT(30) DEF Detach, Record
    <2> QED BY <1>7, <2>1 DEF Detach, TypeOK, OnceFresh, world, epochs
  <1>8. ASSUME NEW w \in Workers, Begin(w) PROVE Typed'
    <2>1. rec' \in [Workers -> Record]
      <3>1. ShouldAbandon(w) \in BOOLEAN BY DEF ShouldAbandon
      <3> QED BY <1>8, <1>R, <3>1 DEF Begin, Record
    <2>2. pc' \in [Threads -> Places] BY <1>8 DEF Begin, TypeOK, Places
    <2> QED BY <1>8, <2>1, <2>2 DEF Begin, TypeOK, OnceFresh, world, epochs
  <1>9. ASSUME NEW w \in Workers, ThreadReturn(w) PROVE Typed'
    <2>1. rec' \in [Workers -> Record] BY <1>9, <1>R DEF ThreadReturn, Record
    <2>2. pc' \in [Threads -> Places] BY <1>9 DEF ThreadReturn, TypeOK, Places
    <2>3. LeaveOnce(w) BY <1>9 DEF ThreadReturn
    <2> QED BY <1>9, <2>1, <2>2, <2>3, LeaveType DEF ThreadReturn, TypeOK, epochs
  <1>11. ASSUME NEW w \in Workers, Finish(w) PROVE Typed'
    <2>1. ctx' \in Context BY <1>11 DEF Finish, TypeOK, Context
    <2>2. pc' \in [Threads -> Places] BY <1>11 DEF Finish, TypeOK, Places
    <2>3. LeaveOnce(w) BY <1>11 DEF Finish
    <2> QED BY <1>11, <2>1, <2>2, <2>3, LeaveType DEF Finish, TypeOK, epochs
  <1>12. ASSUME NEW w \in Workers, HostExit(w) PROVE Typed'
    <2>1. rec' \in [Workers -> Record] BY <1>12, <1>R DEF HostExit, Record
    <2>2. pc' \in [Threads -> Places] BY <1>12 DEF HostExit, TypeOK, Places
    <2>3. saved' \in [Threads -> Context] /\ calls' \in [Threads -> Nat]
      BY <1>12 DEF HostExit, TypeOK
    <2> QED BY <1>12, <2>1, <2>2, <2>3 DEF HostExit, TypeOK, OnceFresh, world, epochs
  <1>13. ASSUME NEW t \in Threads, OnceCall(t) \/ OnceReturn(t) PROVE Typed'
    <2>1. once' \in [state : {0, 1}, by : Threads \cup {None}, ran : 0..1, done : BOOLEAN]
          /\ OnceFresh'
      <3>1. once \in [state : {0, 1}, by : Threads \cup {None}, ran : 0..1, done : BOOLEAN]
        BY DEF TypeOK
      <3>2. CASE OnceReturn(t) BY <3>1, <3>2 DEF OnceReturn, OnceFresh
      <3>3. CASE OnceCall(t) /\ once.state = 0
        <4>1. once.ran + 1 = 1 BY <3>3 DEF OnceFresh
        <4>2. once' = [once EXCEPT !.state = 1, !.by = t, !.ran = 1]
          BY <3>3, <4>1 DEF OnceCall
        <4>3. once'.state = 1 BY <3>1, <4>2
        <4>4. OnceFresh' BY <4>3 DEF OnceFresh
        <4>5. 1 \in 0..1 OBVIOUS
        <4>6. once' \in [state : {0, 1}, by : Threads \cup {None}, ran : 0..1, done : BOOLEAN]
          BY ONLY <3>1, <4>2, <4>5, t \in Threads
        <4> QED BY <4>4, <4>6
      <3>4. CASE OnceCall(t) /\ once.state # 0 BY <3>1, <3>4 DEF OnceCall, OnceFresh
      <3> QED BY <1>13, <3>2, <3>3, <3>4
    <2>2. passed' \subseteq Threads BY <1>13 DEF OnceCall, OnceReturn, TypeOK
    <2> QED BY <1>13, <2>1, <2>2 DEF OnceCall, OnceReturn, TypeOK
  <1>14. CASE MainReturn
    <2>1. pc' \in [Threads -> Places] BY <1>14 DEF MainReturn, TypeOK, Places
    <2>2. snap' \in [released : BOOLEAN, ctx : Context]
      BY <1>14 DEF MainReturn, MainUnwinding, TypeOK
    <2>3. LeaveOnce(Main) BY <1>14 DEF MainReturn
    <2> QED BY <1>14, <2>1, <2>2, <2>3, LeaveType DEF MainReturn, TypeOK, epochs
  <1>15. CASE MainRun
    <2>1. pc' \in [Threads -> Places] BY <1>15 DEF MainRun, TypeOK, Places
    <2>2. snap' \in [released : BOOLEAN, ctx : Context] BY <1>15 DEF MainRun, TypeOK
    <2>3. ctx' \in Context
      <3>1. MainReclaimed \in Context BY DEF MainReclaimed, TypeOK
      <3> QED BY <1>15, <3>1 DEF MainRun, Context
    <2> QED BY <1>15, <2>1, <2>2, <2>3 DEF MainRun, TypeOK, OnceFresh
  <1>16. CASE UNCHANGED vars
    BY <1>16 DEF vars, TypeOK, OnceFresh
  <1> QED
    BY <1>1, <1>2, <1>3, <1>4, <1>5, <1>6, <1>7, <1>8, <1>9, <1>11,
       <1>12, <1>13, <1>14, <1>15, <1>16
       DEF Next, Step, WorkerStep, MainStep

(* TypeOK holds initially. *)
LEMMA TypeInit == Init => Typed
  BY ThreadNames, OwnIsContext, NewRecordType
     DEF Init, Typed, TypeOK, OnceFresh, Places, Record, NewRecord

(* Every variable of a guest-thread run keeps its type, and the routine of a
   pthread_once_t runs at most once (wrap_pthread_once), whatever the number of
   threads and of blocking calls. *)
THEOREM ThreadsTypeCorrect == Spec => []TypeOK
  <1>1. Init => Typed BY TypeInit
  <1>2. Typed /\ [Next]_vars => Typed' BY TypeStep
  <1> QED BY <1>1, <1>2, PTL DEF Spec, Typed
-----------------------------------------------------------------------------
(* Outside --testing no thread is abandoned: the poll of a resuming thread
   (acquire_and_restore_gil) leaves its record as it is. *)
LEMMA QuietResume ==
  ASSUME TypeOK, NoHarness, NEW t \in Threads
  PROVE  /\ ~ ShouldAbandon(t) /\ ~ MustEnd(t)
         /\ Resumed(t) = "guest"
         /\ CutOnce(t) => once' = once
         /\ Polled(t) \in [Workers -> Record]
         /\ \A w \in Workers :
              /\ Polled(t)[w].joined = rec[w].joined
              /\ Polled(t)[w].detached = rec[w].detached
              /\ Polled(t)[w].freed = rec[w].freed
              /\ Polled(t)[w].abandoned = FALSE
  <1>1. ~ ShouldAbandon(t) BY DEF ShouldAbandon, NoHarness
  <1>2. ~ MustEnd(t) BY <1>1 DEF MustEnd
  <1>3. Resumed(t) = "guest" /\ (CutOnce(t) => once' = once)
    BY <1>2 DEF Resumed, CutOnce, LeaveOnce
  <1>4. Polled(t) \in [Workers -> Record] BY PolledType
  <1>5. rec \in [Workers -> Record] /\ \A w \in Workers : rec[w] \in Record
    BY DEF TypeOK
  <1>6. \A w \in Workers : rec[w].abandoned = FALSE
    BY <1>5 DEF NoHarness, Record
  <1>7. ASSUME NEW w \in Workers
        PROVE  /\ Polled(t)[w].joined = rec[w].joined
               /\ Polled(t)[w].detached = rec[w].detached
               /\ Polled(t)[w].freed = rec[w].freed
               /\ Polled(t)[w].abandoned = FALSE
    <2>1. CASE t \notin Workers BY <2>1, <1>6 DEF Polled
    <2>2. CASE t \in Workers /\ w # t BY <2>2, <1>5, <1>6 DEF Polled
    <2>3. CASE t \in Workers /\ w = t
      BY <2>3, <1>1, <1>5, <1>6 DEF Polled, Record
    <2> QED BY <2>1, <2>2, <2>3
  <1> QED BY <1>1, <1>2, <1>3, <1>4, <1>7

(* The context half of the invariant and its bookkeeping are kept by every step
   of a program that leaves no thread behind when main's run ends. *)
LEMMA ThreadsStep ==
  ASSUME Typed, Typed', ThreadsInv, [Next]_vars, "strays" \notin Features
  PROVE  ThreadsInv'
  <1> USE ThreadNames
  <1>T. /\ TypeOK /\ NoHarness /\ GilHolder /\ ParkedOwn /\ RunningOwn /\ TopOwn
        /\ PeersKnown /\ Fates
    BY DEF Typed, ThreadsInv
  <1>O. (once.state = 0 => once.ran = 0)' BY DEF Typed, OnceFresh
  <1>S. SUFFICES /\ NoHarness' /\ GilHolder' /\ ParkedOwn' /\ RunningOwn' /\ TopOwn'
                 /\ PeersKnown' /\ Fates'
    BY <1>O DEF ThreadsInv
  <1>1. ASSUME NEW t \in Threads, Block(t)
        PROVE  /\ NoHarness' /\ GilHolder' /\ ParkedOwn' /\ RunningOwn' /\ TopOwn'
               /\ PeersKnown' /\ Fates'
    <2>1. NoHarness'
      BY <1>T, <1>1
         DEF Block, SaveAndRelease, world, epochs, NoHarness, Record, TypeOK
    <2>2. GilHolder'
      BY <1>T, <1>1
         DEF Block, SaveAndRelease, world, epochs, GilHolder, NoHarness,
             Guest, TypeOK
    <2>3. ParkedOwn'
      BY <1>T, <1>1
         DEF Block, SaveAndRelease, world, epochs, ParkedOwn, RunningOwn,
             Parked, Guest, TypeOK
    <2>4. RunningOwn'
      BY <1>T, <1>1
         DEF Block, SaveAndRelease, world, epochs, RunningOwn, GilHolder,
             ParkedOwn, Parked, Guest, TypeOK
    <2>5. TopOwn'
      BY <1>T, <1>1
         DEF Block, SaveAndRelease, world, epochs, TopOwn, RunningOwn, Guest,
             Fates, Own, Record, TypeOK
    <2>6. PeersKnown'
      BY <1>T, <1>1
         DEF Block, SaveAndRelease, world, epochs, PeersKnown, Guest, TypeOK
    <2>7. Fates'
      BY <1>T, <1>1
         DEF Block, SaveAndRelease, world, epochs, Fates, PeersKnown, Guest,
             Record, TypeOK
    <2> QED BY <2>1, <2>2, <2>3, <2>4, <2>5, <2>6, <2>7
  <1>2. ASSUME NEW t \in Threads, Unblock(t)
        PROVE  /\ NoHarness' /\ GilHolder' /\ ParkedOwn' /\ RunningOwn' /\ TopOwn'
               /\ PeersKnown' /\ Fates'
    <2>E. /\ pc' = [pc EXCEPT ![t] = "guest"]
          /\ gil = None /\ gil' = t /\ ctx' = pause[t] /\ Parked(t)
          /\ \A v \in Workers : /\ rec'[v].joined = rec[v].joined
                                /\ rec'[v].detached = rec[v].detached
                                /\ rec'[v].abandoned = FALSE
      BY <1>T, <1>2, QuietResume DEF Unblock, AcquireAndRestore, Parked
    <2>1. NoHarness'
      BY <1>T, <1>2, QuietResume
         DEF Unblock, AcquireAndRestore, epochs, NoHarness, Record, TypeOK
    <2>2. GilHolder'
      BY <1>T, <1>2, QuietResume
         DEF Unblock, AcquireAndRestore, epochs, GilHolder, NoHarness, Guest,
             TypeOK
    <2>3. ParkedOwn'
      BY <1>T, <1>2, QuietResume
         DEF Unblock, AcquireAndRestore, epochs, ParkedOwn, RunningOwn,
             Parked, Guest, TypeOK
    <2>4. RunningOwn'
      BY <1>T, <1>2, QuietResume
         DEF Unblock, AcquireAndRestore, epochs, RunningOwn, GilHolder,
             ParkedOwn, Parked, Guest, TypeOK
    <2>5. TopOwn'
      <3>1. CASE t = Main BY <1>T, <2>E, <3>1 DEF TopOwn, TypeOK
      <3>2. CASE t # Main
        <4>1. t \in Workers /\ ~ rec'[t].joined /\ pc'[t] = "guest"
          BY <1>T, <2>E, <3>2 DEF Fates, Threads, TypeOK, Parked
        <4> QED BY <4>1 DEF TopOwn
      <3> QED BY <3>1, <3>2
    <2>6. PeersKnown'
      BY <1>T, <1>2, QuietResume, ZenonT(30)
         DEF Unblock, AcquireAndRestore, epochs, PeersKnown, Guest, TypeOK
    <2>7. Fates'
      BY <1>T, <2>E, <1>2
         DEF Unblock, Fates, PeersKnown, Parked, TypeOK
    <2> QED BY <2>1, <2>2, <2>3, <2>4, <2>5, <2>6, <2>7
  <1>3. ASSUME NEW t \in Threads, NEW w \in Workers, NEW ok \in HostCreate,
               Create(t, w, ok)
        PROVE  /\ NoHarness' /\ GilHolder' /\ ParkedOwn' /\ RunningOwn' /\ TopOwn'
               /\ PeersKnown' /\ Fates'
    <2>1. NoHarness'
      BY <1>T, <1>3
         DEF Create, NewRecord, world, epochs, NoHarness, Record, TypeOK
    <2>2. GilHolder'
      BY <1>T, <1>3
         DEF Create, NewRecord, world, epochs, GilHolder, NoHarness, Guest,
             TypeOK
    <2>3. ParkedOwn'
      BY <1>T, <1>3
         DEF Create, NewRecord, world, epochs, ParkedOwn, RunningOwn, Parked,
             Guest, TypeOK
    <2>4. RunningOwn'
      BY <1>T, <1>3
         DEF Create, NewRecord, world, epochs, RunningOwn, GilHolder,
             ParkedOwn, Parked, Guest, TypeOK
    <2>5. TopOwn'
      BY <1>T, <1>3
         DEF Create, NewRecord, world, epochs, TopOwn, RunningOwn, Guest,
             Fates, Own, Record, TypeOK
    <2>6. PeersKnown'
      BY <1>T, <1>3
         DEF Create, NewRecord, world, epochs, PeersKnown, Guest, TypeOK
    <2>7. Fates'
      BY <1>T, <1>3
         DEF Create, NewRecord, world, epochs, Fates, PeersKnown, Guest,
             Record, TypeOK
    <2> QED BY <2>1, <2>2, <2>3, <2>4, <2>5, <2>6, <2>7
  <1>4. ASSUME NEW t \in Threads, Created(t)
        PROVE  /\ NoHarness' /\ GilHolder' /\ ParkedOwn' /\ RunningOwn' /\ TopOwn'
               /\ PeersKnown' /\ Fates'
    <2> DEFINE p == peer[t]
    <2>P. p \in Workers /\ p # t /\ parent[p] = t /\ pc[p] # "absent" /\ pc[t] = "creating"
          /\ \A u \in Threads : pc[u] \in {"creating", "joining"} /\ u # t => peer[u] # p
      <3>1. \A u \in Threads : pc[u] \in {"creating", "joining"} => parent[peer[u]] = u
        BY <1>T DEF PeersKnown
      <3>2. p \in Workers /\ parent[p] = t /\ pc[p] # "absent" /\ pc[t] = "creating"
        BY <1>T, <1>4 DEF Created, PeersKnown
      <3>3. p # t BY <1>T, <3>2 DEF PeersKnown, TypeOK
      <3> QED BY <3>1, <3>2, <3>3
    <2>E. /\ pc' = [pc EXCEPT ![t] = "guest", ![p] = IF @ = "failed" THEN "absent" ELSE @]
          /\ gil = None /\ gil' = t /\ ctx' = pause[t] /\ Parked(t)
          /\ peer' = [peer EXCEPT ![t] = None]
          /\ UNCHANGED <<parent, fate>>
      BY <1>T, <1>4, QuietResume DEF Created, AcquireAndRestore, Parked
    <2>F. /\ rec' \in [Workers -> Record]
          /\ \A v \in Workers : /\ rec'[v].joined = rec[v].joined
                                /\ rec'[v].detached = rec[v].detached
                                /\ rec'[v].abandoned = FALSE
      <3>1. Polled(t) \in [Workers -> Record] /\ \A v \in Workers : Polled(t)[v] \in Record
        BY <1>T, QuietResume
      <3>2. rec' = Polled(t) \/ rec' = [Polled(t) EXCEPT ![p].freed = TRUE]
        BY <1>4 DEF Created
      <3>3. rec' \in [Workers -> Record] BY DEF Typed, TypeOK
      <3>4. ASSUME NEW v \in Workers
            PROVE  /\ rec'[v].joined = Polled(t)[v].joined
                   /\ rec'[v].detached = Polled(t)[v].detached
                   /\ rec'[v].abandoned = Polled(t)[v].abandoned
        <4>1. Polled(t)[v] \in Record BY <3>1
        <4>2. CASE v = p BY ONLY <2>P, <3>1, <3>2, <4>1, <4>2, v \in Workers DEF Record
        <4>3. CASE v # p BY ONLY <2>P, <3>1, <3>2, <4>3, v \in Workers
        <4> QED BY <4>2, <4>3
      <3> QED BY <1>T, QuietResume, <3>3, <3>4
    <2> HIDE DEF p
    <2>1. NoHarness'
      BY <1>T, <1>4, <2>P, <2>E, <2>F
         DEF NoHarness, Created, AcquireAndRestore, epochs, TypeOK
    <2>2. GilHolder' BY <1>T, <2>P, <2>E, <2>F DEF GilHolder, Guest, TypeOK
    <2>3. ParkedOwn'
      BY <1>T, <1>4, <2>P, <2>E, <2>F
         DEF ParkedOwn, Parked, Created, TypeOK
    <2>4. RunningOwn'
      BY <1>T, <2>P, <2>E, <2>F
         DEF RunningOwn, GilHolder, ParkedOwn, Guest, TypeOK
    <2>5. TopOwn'
      <3>1. CASE t = Main BY <1>T, <2>E, <2>F, <2>P, <3>1 DEF TopOwn, TypeOK
      <3>2. CASE t # Main
        <4>1. t \in Workers /\ ~ rec'[t].joined /\ pc'[t] = "guest"
          BY <1>T, <2>E, <2>F, <2>P, <3>2 DEF Fates, Threads, TypeOK, Parked
        <4> QED BY <4>1 DEF TopOwn
      <3> QED BY <3>1, <3>2
    <2>6. PeersKnown' BY <1>T, <2>P, <2>E, <2>F DEF PeersKnown, TypeOK
    <2>7. Fates' BY <1>T, <2>P, <2>E, <2>F DEF Fates, PeersKnown, TypeOK
    <2> QED BY <2>1, <2>2, <2>3, <2>4, <2>5, <2>6, <2>7
  <1>5. ASSUME NEW t \in Threads, NEW w \in Workers, Join(t, w)
        PROVE  /\ NoHarness' /\ GilHolder' /\ ParkedOwn' /\ RunningOwn' /\ TopOwn'
               /\ PeersKnown' /\ Fates'
    <2>1. NoHarness'
      BY <1>T, <1>5
         DEF Join, SaveAndRelease, Knows, world, epochs, NoHarness, Record,
             TypeOK
    <2>2. GilHolder'
      BY <1>T, <1>5
         DEF Join, SaveAndRelease, Knows, world, epochs, GilHolder, NoHarness,
             Guest, TypeOK
    <2>3. ParkedOwn'
      BY <1>T, <1>5
         DEF Join, SaveAndRelease, Knows, world, epochs, ParkedOwn,
             RunningOwn, Parked, Guest, TypeOK
    <2>4. RunningOwn'
      BY <1>T, <1>5
         DEF Join, SaveAndRelease, Knows, world, epochs, RunningOwn,
             GilHolder, ParkedOwn, Parked, Guest, TypeOK
    <2>5. TopOwn'
      BY <1>T, <1>5
         DEF Join, SaveAndRelease, Knows, world, epochs, TopOwn, RunningOwn,
             Guest, Fates, Own, Record, TypeOK
    <2>6. PeersKnown'
      BY <1>T, <1>5
         DEF Join, SaveAndRelease, Knows, world, epochs, PeersKnown, Guest,
             TypeOK
    <2>7. Fates'
      BY <1>T, <1>5
         DEF Join, SaveAndRelease, Knows, world, epochs, Fates, PeersKnown,
             Guest, Record, TypeOK
    <2> QED BY <2>1, <2>2, <2>3, <2>4, <2>5, <2>6, <2>7
  <1>6. ASSUME NEW t \in Threads, Joined(t)
        PROVE  /\ NoHarness' /\ GilHolder' /\ ParkedOwn' /\ RunningOwn' /\ TopOwn'
               /\ PeersKnown' /\ Fates'
    <2> DEFINE p == peer[t]
    <2>P. p \in Workers /\ p # t /\ pc[t] = "joining" /\ pc[p] = "ended" /\ fate[p] = "join"
      BY <1>T, <1>6 DEF Joined, PeersKnown, Fates
    <2>E. /\ pc' = [pc EXCEPT ![t] = "guest"]
          /\ gil = None /\ gil' = t /\ ctx' = pause[t] /\ Parked(t)
          /\ peer' = [peer EXCEPT ![t] = None]
          /\ UNCHANGED <<parent, fate>>
      BY <1>T, <1>6, QuietResume DEF Joined, AcquireAndRestore, Parked
    <2>F. /\ \A v \in Workers \ {p} : rec'[v].joined = rec[v].joined
          /\ \A v \in Workers : /\ rec'[v].detached = rec[v].detached
                                /\ rec'[v].abandoned = FALSE
      <3>1. Polled(t) \in [Workers -> Record] /\ \A v \in Workers : Polled(t)[v] \in Record
        BY <1>T, QuietResume
      <3>2. rec' = [Polled(t) EXCEPT ![p].joined = TRUE, ![p].freed = TRUE]
        BY <1>6 DEF Joined
      <3>4. ASSUME NEW v \in Workers
            PROVE  /\ v # p => rec'[v].joined = Polled(t)[v].joined
                   /\ rec'[v].detached = Polled(t)[v].detached
                   /\ rec'[v].abandoned = Polled(t)[v].abandoned
        <4>1. Polled(t)[v] \in Record BY <3>1
        <4>2. CASE v = p BY ONLY <2>P, <3>1, <3>2, <4>1, <4>2, v \in Workers DEF Record
        <4>3. CASE v # p BY ONLY <2>P, <3>1, <3>2, <4>3, v \in Workers
        <4> QED BY <4>2, <4>3
      <3> QED BY <1>T, QuietResume, <3>4
    <2> HIDE DEF p
    <2>S. thread_epoch' = 0 /\ abandon_epoch' = 0 /\ ~ snap'.released
      BY <1>T, <1>6 DEF Joined, AcquireAndRestore, NoHarness, epochs, TypeOK
    <2>1. NoHarness' BY <1>T, <2>P, <2>E, <2>F, <2>S DEF NoHarness, TypeOK
    <2>2. GilHolder'
      BY <1>T, <2>P, <2>E, <2>F
         DEF GilHolder, Guest, Parked, TypeOK
    <2>3. ParkedOwn'
      BY <1>T, <1>6, <2>P, <2>E, <2>F
         DEF ParkedOwn, Parked, Joined, TypeOK
    <2>4. RunningOwn'
      BY <1>T, <2>P, <2>E, <2>F
         DEF RunningOwn, GilHolder, ParkedOwn, Guest, TypeOK
    <2>5. TopOwn'
      <3>1. CASE t = Main BY <1>T, <2>E, <2>F, <2>P, <3>1 DEF TopOwn, TypeOK
      <3>2. CASE t # Main
        <4>1. t \in Workers /\ ~ rec'[t].joined /\ pc'[t] = "guest"
          BY <1>T, <2>E, <2>F, <2>P, <3>2 DEF Fates, Threads, TypeOK, Parked
        <4> QED BY <4>1 DEF TopOwn
      <3> QED BY <3>1, <3>2
    <2>6. PeersKnown' BY <1>T, <2>P, <2>E, <2>F DEF PeersKnown, TypeOK
    <2>7. Fates' BY <1>T, <2>P, <2>E, <2>F DEF Fates, PeersKnown, TypeOK
    <2> QED BY <2>1, <2>2, <2>3, <2>4, <2>5, <2>6, <2>7
  <1>7. ASSUME NEW t \in Threads, NEW w \in Workers, Detach(t, w)
        PROVE  /\ NoHarness' /\ GilHolder' /\ ParkedOwn' /\ RunningOwn' /\ TopOwn'
               /\ PeersKnown' /\ Fates'
    <2>1. NoHarness'
      BY <1>T, <1>7
         DEF Detach, Knows, world, epochs, NoHarness, Record, TypeOK
    <2>2. GilHolder'
      BY <1>T, <1>7
         DEF Detach, Knows, world, epochs, GilHolder, NoHarness, Guest, TypeOK
    <2>3. ParkedOwn'
      BY <1>T, <1>7
         DEF Detach, Knows, world, epochs, ParkedOwn, RunningOwn, Parked,
             Guest, TypeOK
    <2>4. RunningOwn'
      BY <1>T, <1>7
         DEF Detach, Knows, world, epochs, RunningOwn, GilHolder, ParkedOwn,
             Parked, Guest, TypeOK
    <2>5. TopOwn'
      BY <1>T, <1>7, SMTT(30)
         DEF Detach, Knows, world, epochs, TopOwn, RunningOwn, Guest, Fates,
             Own, Record, TypeOK
    <2>6. PeersKnown'
      BY <1>T, <1>7
         DEF Detach, Knows, world, epochs, PeersKnown, Guest, TypeOK
    <2>7. Fates'
      BY <1>T, <1>7
         DEF Detach, Knows, world, epochs, Fates, PeersKnown, Guest, Record,
             TypeOK
    <2> QED BY <2>1, <2>2, <2>3, <2>4, <2>5, <2>6, <2>7
  <1>8. ASSUME NEW w \in Workers, Begin(w)
        PROVE  /\ NoHarness' /\ GilHolder' /\ ParkedOwn' /\ RunningOwn' /\ TopOwn'
               /\ PeersKnown' /\ Fates'
    <2>E. /\ ~ ShouldAbandon(w) /\ w \in Threads
          /\ rec \in [Workers -> Record] /\ \A v \in Workers : rec[v] \in Record
      BY <1>T, QuietResume DEF TypeOK
    <2>F. rec' = [rec EXCEPT ![w].abandoned = FALSE, ![w].exited = FALSE]
      <3>1. ShouldAbandon(w) = FALSE BY <2>E DEF ShouldAbandon
      <3> QED BY <1>8, <3>1 DEF Begin
    <2>1. NoHarness'
      <3>1. \A v \in Workers : ~ rec'[v].abandoned
        BY <1>T, <2>E, <2>F DEF NoHarness, Record
      <3> QED BY <1>T, <1>8, <2>E, <3>1 DEF Begin, NoHarness, world, epochs, TypeOK
    <2>2. GilHolder'
      BY <1>T, <1>8, QuietResume
         DEF Begin, world, epochs, GilHolder, NoHarness, Guest, TypeOK
    <2>3. ParkedOwn'
      BY <1>T, <1>8, QuietResume
         DEF Begin, world, epochs, ParkedOwn, RunningOwn, Parked, Guest,
             TypeOK
    <2>4. RunningOwn'
      BY <1>T, <1>8, QuietResume
         DEF Begin, world, epochs, RunningOwn, GilHolder, ParkedOwn, Parked,
             Guest, TypeOK
    <2>5. TopOwn'
      BY <1>T, <1>8, QuietResume
         DEF Begin, world, epochs, TopOwn, RunningOwn, Guest, Fates, Own,
             Record, TypeOK
    <2>6. PeersKnown'
      BY <1>T, <1>8, QuietResume
         DEF Begin, world, epochs, PeersKnown, Guest, TypeOK
    <2>7. Fates'
      BY <1>T, <1>8, QuietResume
         DEF Begin, world, epochs, Fates, PeersKnown, Guest, Record, TypeOK
    <2> QED BY <2>1, <2>2, <2>3, <2>4, <2>5, <2>6, <2>7
  <1>9. ASSUME NEW w \in Workers, ThreadReturn(w)
        PROVE  /\ NoHarness' /\ GilHolder' /\ ParkedOwn' /\ RunningOwn' /\ TopOwn'
               /\ PeersKnown' /\ Fates'
    <2>1. NoHarness'
      BY <1>T, <1>9
         DEF ThreadReturn, world, epochs, NoHarness, Record, TypeOK
    <2>2. GilHolder'
      BY <1>T, <1>9
         DEF ThreadReturn, world, epochs, GilHolder, NoHarness, Guest, TypeOK
    <2>3. ParkedOwn'
      BY <1>T, <1>9
         DEF ThreadReturn, world, epochs, ParkedOwn, RunningOwn, Parked,
             Guest, TypeOK
    <2>4. RunningOwn'
      BY <1>T, <1>9
         DEF ThreadReturn, world, epochs, RunningOwn, GilHolder, ParkedOwn,
             Parked, Guest, TypeOK
    <2>5. TopOwn'
      BY <1>T, <1>9
         DEF ThreadReturn, world, epochs, TopOwn, RunningOwn, Guest, Fates,
             Own, Record, TypeOK
    <2>6. PeersKnown'
      BY <1>T, <1>9
         DEF ThreadReturn, world, epochs, PeersKnown, Guest, TypeOK
    <2>7. Fates'
      BY <1>T, <1>9
         DEF ThreadReturn, world, epochs, Fates, PeersKnown, Guest, Record,
             TypeOK
    <2> QED BY <2>1, <2>2, <2>3, <2>4, <2>5, <2>6, <2>7
  <1>11. ASSUME NEW w \in Workers, Finish(w)
        PROVE  /\ NoHarness' /\ GilHolder' /\ ParkedOwn' /\ RunningOwn' /\ TopOwn'
               /\ PeersKnown' /\ Fates'
    <2>1. NoHarness'
      BY <1>T, <1>11
         DEF Finish, world, epochs, NoHarness, Record, TypeOK
    <2>2. GilHolder'
      BY <1>T, <1>11
         DEF Finish, world, epochs, GilHolder, NoHarness, Guest, TypeOK
    <2>3. ParkedOwn'
      BY <1>T, <1>11
         DEF Finish, world, epochs, ParkedOwn, RunningOwn, Parked, Guest,
             TypeOK
    <2>4. RunningOwn'
      <3>1. gil = w BY <1>T, <1>11 DEF Finish, NoHarness, GilHolder
      <3> QED BY <1>T, <1>11, <3>1 DEF Finish, RunningOwn, GilHolder, Guest, TypeOK
    <2>5. TopOwn'
      BY <1>T, <1>11
         DEF Finish, world, epochs, TopOwn, RunningOwn, Guest, Fates, Own,
             Record, TypeOK
    <2>6. PeersKnown'
      BY <1>T, <1>11
         DEF Finish, world, epochs, PeersKnown, Guest, TypeOK
    <2>7. Fates'
      BY <1>T, <1>11
         DEF Finish, world, epochs, Fates, PeersKnown, Guest, Record, TypeOK
    <2> QED BY <2>1, <2>2, <2>3, <2>4, <2>5, <2>6, <2>7
  <1>12. ASSUME NEW w \in Workers, HostExit(w)
        PROVE  /\ NoHarness' /\ GilHolder' /\ ParkedOwn' /\ RunningOwn' /\ TopOwn'
               /\ PeersKnown' /\ Fates'
    <2>1. NoHarness'
      BY <1>T, <1>12
         DEF HostExit, world, epochs, NoHarness, Record, TypeOK
    <2>2. GilHolder'
      BY <1>T, <1>12
         DEF HostExit, world, epochs, GilHolder, NoHarness, Guest, TypeOK
    <2>3. ParkedOwn'
      BY <1>T, <1>12
         DEF HostExit, world, epochs, ParkedOwn, RunningOwn, Parked, Guest,
             TypeOK
    <2>4. RunningOwn'
      BY <1>T, <1>12
         DEF HostExit, world, epochs, RunningOwn, GilHolder, ParkedOwn,
             Parked, Guest, TypeOK
    <2>5. TopOwn'
      BY <1>T, <1>12
         DEF HostExit, world, epochs, TopOwn, RunningOwn, Guest, Fates, Own,
             Record, TypeOK
    <2>6. PeersKnown'
      BY <1>T, <1>12
         DEF HostExit, world, epochs, PeersKnown, Guest, TypeOK
    <2>7. Fates'
      BY <1>T, <1>12
         DEF HostExit, world, epochs, Fates, PeersKnown, Guest, Record, TypeOK
    <2> QED BY <2>1, <2>2, <2>3, <2>4, <2>5, <2>6, <2>7
  <1>13. ASSUME NEW t \in Threads, OnceCall(t) \/ OnceReturn(t)
        PROVE  /\ NoHarness' /\ GilHolder' /\ ParkedOwn' /\ RunningOwn' /\ TopOwn'
               /\ PeersKnown' /\ Fates'
    <2>1. NoHarness'
      BY <1>T, <1>13
         DEF OnceCall, OnceReturn, NoHarness, Record, TypeOK
    <2>2. GilHolder'
      BY <1>T, <1>13
         DEF OnceCall, OnceReturn, GilHolder, NoHarness, Guest, TypeOK
    <2>3. ParkedOwn'
      BY <1>T, <1>13
         DEF OnceCall, OnceReturn, ParkedOwn, RunningOwn, Parked, Guest,
             TypeOK
    <2>4. RunningOwn'
      BY <1>T, <1>13
         DEF OnceCall, OnceReturn, RunningOwn, GilHolder, ParkedOwn, Parked,
             Guest, TypeOK
    <2>5. TopOwn'
      BY <1>T, <1>13
         DEF OnceCall, OnceReturn, TopOwn, RunningOwn, Guest, Fates, Own,
             Record, TypeOK
    <2>6. PeersKnown'
      BY <1>T, <1>13
         DEF OnceCall, OnceReturn, PeersKnown, Guest, TypeOK
    <2>7. Fates'
      BY <1>T, <1>13
         DEF OnceCall, OnceReturn, Fates, PeersKnown, Guest, Record, TypeOK
    <2> QED BY <2>1, <2>2, <2>3, <2>4, <2>5, <2>6, <2>7
  <1>14. ASSUME MainReturn
        PROVE  /\ NoHarness' /\ GilHolder' /\ ParkedOwn' /\ RunningOwn' /\ TopOwn'
               /\ PeersKnown' /\ Fates'
    <2>1. NoHarness'
      BY <1>T, <1>14
         DEF MainReturn, MainUnwinding, world, epochs, NoHarness, Record,
             TypeOK
    <2>2. GilHolder'
      BY <1>T, <1>14
         DEF MainReturn, MainUnwinding, world, epochs, GilHolder, NoHarness,
             Guest, TypeOK
    <2>3. ParkedOwn'
      BY <1>T, <1>14
         DEF MainReturn, MainUnwinding, world, epochs, ParkedOwn, RunningOwn,
             Parked, Guest, TypeOK
    <2>4. RunningOwn'
      BY <1>T, <1>14
         DEF MainReturn, MainUnwinding, world, epochs, RunningOwn, GilHolder,
             ParkedOwn, Parked, Guest, TypeOK
    <2>5. TopOwn'
      BY <1>T, <1>14
         DEF MainReturn, MainUnwinding, world, epochs, TopOwn, RunningOwn,
             Guest, Fates, Own, Record, TypeOK
    <2>6. PeersKnown'
      BY <1>T, <1>14
         DEF MainReturn, MainUnwinding, world, epochs, PeersKnown, Guest,
             TypeOK
    <2>7. Fates'
      BY <1>T, <1>14
         DEF MainReturn, MainUnwinding, world, epochs, Fates, PeersKnown,
             Guest, Record, TypeOK
    <2> QED BY <2>1, <2>2, <2>3, <2>4, <2>5, <2>6, <2>7
  <1>15. ASSUME MainRun
        PROVE  /\ NoHarness' /\ GilHolder' /\ ParkedOwn' /\ RunningOwn' /\ TopOwn'
               /\ PeersKnown' /\ Fates'
    <2>1. NoHarness'
      BY <1>T, <1>15
         DEF MainRun, MainReclaimed, Accounted, NoHarness, Record, TypeOK
    <2>2. GilHolder'
      BY <1>T, <1>15
         DEF MainRun, MainReclaimed, Accounted, GilHolder, NoHarness, Guest,
             TypeOK
    <2>3. ParkedOwn'
      BY <1>T, <1>15
         DEF MainRun, MainReclaimed, Accounted, ParkedOwn, RunningOwn, Parked,
             Guest, TypeOK
    <2>4. RunningOwn'
      <3>1. ctx.exec = Main /\ ctx.active = Main
        BY <1>T, <1>15 DEF MainRun, Accounted, NoHarness, TopOwn
      <3>2. ctx' = [ctx EXCEPT !.tls = Main]
        BY <1>T, <1>15 DEF MainRun, MainReclaimed, NoHarness
      <3>3. ctx' = Own(Main) BY <1>T, <3>1, <3>2 DEF Own, Context, TypeOK
      <3>4. \A t \in Threads : Guest(t)' => t = Main
        BY <1>T, <1>15 DEF MainRun, GilHolder, Guest, TypeOK
      <3> QED BY <3>3, <3>4 DEF RunningOwn, Own
    <2>5. TopOwn'
      BY <1>T, <1>15
         DEF MainRun, MainReclaimed, Accounted, TopOwn, RunningOwn, Guest,
             Fates, Own, Record, TypeOK
    <2>6. PeersKnown'
      BY <1>T, <1>15
         DEF MainRun, MainReclaimed, Accounted, PeersKnown, Guest, TypeOK
    <2>7. Fates'
      BY <1>T, <1>15
         DEF MainRun, MainReclaimed, Accounted, Fates, PeersKnown, Guest,
             Record, TypeOK
    <2> QED BY <2>1, <2>2, <2>3, <2>4, <2>5, <2>6, <2>7
  <1>16. ASSUME UNCHANGED vars
        PROVE  /\ NoHarness' /\ GilHolder' /\ ParkedOwn' /\ RunningOwn' /\ TopOwn'
               /\ PeersKnown' /\ Fates'
    <2>1. NoHarness' BY <1>T, <1>16 DEF vars, NoHarness, Record, TypeOK
    <2>2. GilHolder'
      BY <1>T, <1>16
         DEF vars, GilHolder, NoHarness, Guest, TypeOK
    <2>3. ParkedOwn'
      BY <1>T, <1>16
         DEF vars, ParkedOwn, RunningOwn, Parked, Guest, TypeOK
    <2>4. RunningOwn'
      BY <1>T, <1>16
         DEF vars, RunningOwn, GilHolder, ParkedOwn, Parked, Guest, TypeOK
    <2>5. TopOwn'
      BY <1>T, <1>16
         DEF vars, TopOwn, RunningOwn, Guest, Fates, Own, Record, TypeOK
    <2>6. PeersKnown' BY <1>T, <1>16 DEF vars, PeersKnown, Guest, TypeOK
    <2>7. Fates'
      BY <1>T, <1>16
         DEF vars, Fates, PeersKnown, Guest, Record, TypeOK
    <2> QED BY <2>1, <2>2, <2>3, <2>4, <2>5, <2>6, <2>7
  <1> QED
    BY <1>1, <1>2, <1>3, <1>4, <1>5, <1>6, <1>7, <1>8, <1>9, <1>11,
       <1>12, <1>13, <1>14, <1>15, <1>16
       DEF Next, Step, WorkerStep, MainStep

(* The invariant holds initially. *)
LEMMA ThreadsInit == Init => ThreadsInv
  BY ThreadNames, OwnIsContext
     DEF Init, ThreadsInv, NoHarness, GilHolder, ParkedOwn, RunningOwn, TopOwn,
         PeersKnown, Fates, Guest, Parked, Own, NewRecord

(* The inductive invariant of guest threads outside --testing, for a program in
   which main's top-level run ends only after its threads have been joined. *)
THEOREM ThreadsInvariant ==
  ASSUME "strays" \notin Features
  PROVE  Spec => [](Typed /\ ThreadsInv)
  <1>1. Init => Typed /\ ThreadsInv BY TypeInit, ThreadsInit
  <1>2. Typed /\ ThreadsInv /\ [Next]_vars => (Typed /\ ThreadsInv)'
    BY TypeStep, ThreadsStep
  <1> QED BY <1>1, <1>2, PTL DEF Spec

(* However many threads park, resume, start and end, guest code runs only under
   the GIL and with the register file, active_thread and TLS segment of its own
   thread (save_and_release_gil, acquire_and_restore_gil, vm_thread_start,
   cc_run_at_regs). *)
THEOREM ContextKept ==
  ASSUME "strays" \notin Features
  PROVE  Spec => []OwnContext
  <1>1. Typed /\ ThreadsInv => OwnContext
    BY DEF ThreadsInv, GilHolder, RunningOwn, OwnContext
  <1> QED BY <1>1, ThreadsInvariant, PTL

-----------------------------------------------------------------------------
(* A record is freed only under its last user: each step of a program that does
   not detach a thread which may have exited. *)
LEMMA FreedStep ==
  ASSUME Typed, Typed', ThreadsInv, NoUseAfterFree, [Next]_vars,
         "detach" \notin Features, "late_joins" \notin Features
  PROVE  NoUseAfterFree'
  <1> USE ThreadNames
  <1>T. TypeOK /\ NoHarness /\ PeersKnown /\ Fates
    BY DEF Typed, ThreadsInv
  <1>N. rec \in [Workers -> Record] /\ \A v \in Workers : rec[v] \in Record
    BY <1>T DEF TypeOK
  <1>1. ASSUME NEW t \in Threads, Block(t) PROVE NoUseAfterFree'
    BY <1>T, <1>1 DEF Block, SaveAndRelease, NoUseAfterFree, Guest, TypeOK
  <1>2. ASSUME NEW t \in Threads, Unblock(t) PROVE NoUseAfterFree'
    <2>1. pc' = [pc EXCEPT ![t] = "guest"] /\ peer' = peer /\ pc[t] = "call"
      BY <1>T, <1>2, QuietResume DEF Unblock
    <2>2. \A v \in Workers : rec'[v].freed = rec[v].freed
      BY <1>T, <1>2, QuietResume DEF Unblock
    <2> QED BY <1>T, <2>1, <2>2 DEF NoUseAfterFree, PeersKnown, TypeOK
  <1>3. ASSUME NEW t \in Threads, NEW w \in Workers, NEW ok \in HostCreate,
               Create(t, w, ok)
        PROVE  NoUseAfterFree'
    <2>1. \A v \in Workers : rec'[v].freed = (rec[v].freed /\ v # w)
      BY <1>N, <1>3 DEF Create, NewRecord, Record
    <2>2. \A u \in Threads : pc'[u] = "joining" => pc[u] = "joining" /\ peer'[u] = peer[u]
      BY <1>T, <1>3 DEF Create, TypeOK
    <2>3. \A v \in Workers : v # w => pc'[v] = pc[v] \/ pc[v] = "guest"
      BY <1>T, <1>3 DEF Create, Guest, TypeOK
    <2> QED BY <1>T, <2>1, <2>2, <2>3 DEF NoUseAfterFree, PeersKnown, TypeOK
  <1>4. ASSUME NEW t \in Threads, Created(t) PROVE NoUseAfterFree'
    <2> DEFINE p == peer[t]
    <2>P. /\ p \in Workers /\ p # t /\ pc[t] = "creating"
          /\ \A u \in Threads : pc[u] = "joining" => peer[u] \in Workers /\ peer[u] # p
      BY <1>T, <1>4 DEF Created, PeersKnown
    <2>E. /\ pc' = [pc EXCEPT ![t] = "guest", ![p] = IF @ = "failed" THEN "absent" ELSE @]
          /\ peer' = [peer EXCEPT ![t] = None]
          /\ rec' = IF pc[p] = "failed"
                    THEN [Polled(t) EXCEPT ![p].freed = TRUE] ELSE Polled(t)
      BY <1>T, <1>4, QuietResume DEF Created
    <2>1. \A v \in Workers : rec'[v].freed => rec[v].freed \/ (v = p /\ pc[p] = "failed")
      <3>1. Polled(t) \in [Workers -> Record] /\ \A v \in Workers : Polled(t)[v] \in Record
        BY <1>T, QuietResume
      <3>2. \A v \in Workers : Polled(t)[v].freed = rec[v].freed
        BY <1>T, QuietResume
      <3>3. ASSUME NEW v \in Workers, v # p PROVE rec'[v].freed = Polled(t)[v].freed
        BY ONLY <2>P, <2>E, <3>1, <3>3
      <3>4. pc[p] # "failed" => rec'[p].freed = Polled(t)[p].freed
        BY ONLY <2>P, <2>E, <3>1
      <3> QED BY <3>2, <3>3, <3>4, <2>P
    <2> HIDE DEF p
    <2> QED BY <1>T, <2>P, <2>E, <2>1 DEF NoUseAfterFree, PeersKnown, TypeOK
  <1>5. ASSUME NEW t \in Threads, NEW w \in Workers, Join(t, w) PROVE NoUseAfterFree'
    <2>1. ~ rec[w].freed BY <1>5 DEF Join, Knows
    <2> QED BY <1>T, <1>5, <2>1 DEF Join, SaveAndRelease, NoUseAfterFree, Guest, TypeOK
  <1>6. ASSUME NEW t \in Threads, Joined(t) PROVE NoUseAfterFree'
    <2> DEFINE p == peer[t]
    <2>P. /\ p \in Workers /\ p # t /\ pc[t] = "joining" /\ pc[p] = "ended"
          /\ \A u \in Threads : pc[u] = "joining" /\ u # t => peer[u] \in Workers /\ peer[u] # p
      BY <1>T, <1>6 DEF Joined, PeersKnown
    <2>E. /\ pc' = [pc EXCEPT ![t] = "guest"]
          /\ peer' = [peer EXCEPT ![t] = None]
          /\ rec' = [Polled(t) EXCEPT ![p].joined = TRUE, ![p].freed = TRUE]
      BY <1>T, <1>6, QuietResume DEF Joined
    <2>1. \A v \in Workers : rec'[v].freed => rec[v].freed \/ v = p
      <3>1. Polled(t) \in [Workers -> Record] BY <1>T, QuietResume
      <3>2. \A v \in Workers : Polled(t)[v].freed = rec[v].freed
        BY <1>T, QuietResume
      <3>3. ASSUME NEW v \in Workers, v # p PROVE rec'[v].freed = Polled(t)[v].freed
        BY ONLY <2>P, <2>E, <3>1, <3>3
      <3> QED BY <3>2, <3>3
    <2> HIDE DEF p
    <2> QED BY <1>T, <2>P, <2>E, <2>1, ZenonT(30) DEF NoUseAfterFree, PeersKnown, TypeOK
  <1>7. ASSUME NEW t \in Threads, NEW w \in Workers, Detach(t, w) PROVE NoUseAfterFree'
    <2>1. t = w /\ ~ rec[w].exited BY <1>7 DEF Detach
    <2>2. \A v \in Workers : rec'[v].freed = rec[v].freed
      BY <1>N, <1>7, <2>1 DEF Detach, Record
    <2> QED BY <1>T, <1>7, <2>2 DEF Detach, NoUseAfterFree, PeersKnown, TypeOK
  <1>8. ASSUME NEW w \in Workers, Begin(w) \/ ThreadReturn(w) \/ Finish(w)
        PROVE  NoUseAfterFree'
    <2>1. \A v \in Workers : rec'[v].freed = rec[v].freed
      BY <1>N, <1>8 DEF Begin, ThreadReturn, Finish, Record
    <2>2. \A t \in Threads \ {w} : pc'[t] = pc[t]
      BY <1>T, <1>8 DEF Begin, ThreadReturn, Finish, TypeOK
    <2>3. pc[w] \notin {"absent", "ended"} /\ pc'[w] # "joining" /\ peer' = peer
      BY <1>T, <1>8 DEF Begin, ThreadReturn, Finish, Guest, TypeOK
    <2> QED BY <1>T, <2>1, <2>2, <2>3 DEF NoUseAfterFree, PeersKnown, TypeOK
  <1>9. ASSUME NEW w \in Workers, HostExit(w) PROVE NoUseAfterFree'
    <2>1. \A v \in Workers : rec'[v].freed => rec[v].freed \/ (v = w /\ pc[w] = "unlinked")
      BY <1>N, <1>9 DEF HostExit, Record
    <2>2. pc[w] = "unlinked" =>
            \A t \in Threads : pc[t] = "joining" => peer[t] # w
      BY <1>T DEF Fates
    <2>3. pc' = [pc EXCEPT ![w] = "ended"] /\ peer' = peer BY <1>9 DEF HostExit
    <2> QED BY <1>T, <2>1, <2>2, <2>3 DEF NoUseAfterFree, PeersKnown, TypeOK
  <1>10. ASSUME NEW t \in Threads, OnceCall(t) \/ OnceReturn(t) PROVE NoUseAfterFree'
    BY <1>10 DEF OnceCall, OnceReturn, NoUseAfterFree
  <1>11. CASE MainReturn \/ MainRun
    BY <1>T, <1>11 DEF MainReturn, MainRun, NoUseAfterFree, TypeOK
  <1>12. CASE UNCHANGED vars
    BY <1>12 DEF vars, NoUseAfterFree
  <1> QED
    BY <1>1, <1>2, <1>3, <1>4, <1>5, <1>6, <1>7, <1>8, <1>9, <1>10, <1>11, <1>12
       DEF Next, Step, WorkerStep, MainStep

(* No ThreadRecord, stack or TLS segment is freed while its thread, or a thread
   that is joining it, still uses it (wrap_pthread_join, vm_thread_start,
   wrap_pthread_detach), for programs that detach only a thread that is still
   running, from within. *)
THEOREM RecordsKept ==
  ASSUME "strays" \notin Features, "detach" \notin Features,
         "late_joins" \notin Features
  PROVE  Spec => []NoUseAfterFree
  <1>1. Init => NoUseAfterFree
    BY ThreadNames DEF Init, NoUseAfterFree, NewRecord
  <1>2. /\ Typed /\ ThreadsInv /\ NoUseAfterFree /\ [Next]_vars
        /\ (Typed /\ ThreadsInv)'
        => NoUseAfterFree'
    BY FreedStep
  <1>3. Spec => [](Typed /\ ThreadsInv) BY ThreadsInvariant
  <1> QED BY <1>1, <1>2, <1>3, PTL DEF Spec

-----------------------------------------------------------------------------
(* pthread_once.  While the init routine runs, its thread keeps the GIL, so no
   other caller looks at the state word before the routine has completed. *)
OnceInv ==
  /\ once.state = 0 => once.by = None /\ passed = {}
  /\ once.state = 1 => once.by # None \/ once.done
  /\ once.by # None => once.by \in Threads /\ Guest(once.by)
  /\ passed # {} => once.done

(* Steps that leave pthread_once alone: what matters is that the thread in the
   init routine stays in guest code. *)
LEMMA OnceUntouched ==
  ASSUME OnceInv, UNCHANGED <<once, passed>>,
         once.by \in Threads => (Guest(once.by) => pc'[once.by] = "guest")
  PROVE  OnceInv'
  BY DEF OnceInv, Guest

(* Every step, of a program whose init routine neither makes a call that gives
   up the GIL nor ends its thread. *)
LEMMA OnceStep ==
  ASSUME Typed, ThreadsInv, OnceInv, [Next]_vars,
         "once_blocks" \notin Features, "once_exits" \notin Features
  PROVE  OnceInv'
  <1> USE ThreadNames
  <1>T. TypeOK /\ NoHarness /\ GilHolder /\ PeersKnown
    BY DEF Typed, ThreadsInv
  <1>B. /\ once.by \in Threads \cup {None} /\ once.state \in {0, 1} /\ once.done \in BOOLEAN
        /\ pc \in [Threads -> Places]
        /\ once \in [state : {0, 1}, by : Threads \cup {None}, ran : 0 .. 1, done : BOOLEAN]
    BY <1>T DEF TypeOK
  <1>1. ASSUME NEW t \in Threads, Block(t) PROVE OnceInv'
    <2>1. once.by # t /\ pc' = [pc EXCEPT ![t] = "call"] /\ UNCHANGED <<once, passed>>
      BY <1>1 DEF Block, MayBlock, InOnce, SaveAndRelease, world
    <2> QED BY <1>B, <2>1, OnceUntouched DEF Guest
  <1>2. ASSUME NEW t \in Threads, NEW w \in Workers, NEW ok, Create(t, w, ok) PROVE OnceInv'
    <2>1. /\ once.by # t /\ pc[w] = "absent" /\ UNCHANGED <<once, passed>>
          /\ pc' = [pc EXCEPT ![t] = "creating", ![w] = IF ok THEN "created" ELSE "failed"]
      BY <1>2 DEF Create, MayBlock, InOnce, world
    <2> QED BY <1>B, <2>1, OnceUntouched DEF Guest
  <1>3. ASSUME NEW t \in Threads, NEW w \in Workers, Join(t, w) PROVE OnceInv'
    <2>1. once.by # t /\ pc' = [pc EXCEPT ![t] = "joining"] /\ UNCHANGED <<once, passed>>
      BY <1>3 DEF Join, MayBlock, InOnce, SaveAndRelease, world
    <2> QED BY <1>B, <2>1, OnceUntouched DEF Guest
  <1>4. ASSUME NEW t \in Threads, Unblock(t) \/ Joined(t) PROVE OnceInv'
    <2>1. pc' = [pc EXCEPT ![t] = "guest"] /\ UNCHANGED <<once, passed>>
      BY <1>T, <1>4, QuietResume DEF Unblock, Joined
    <2> QED BY <1>B, <2>1, OnceUntouched DEF Guest
  <1>5. ASSUME NEW t \in Threads, Created(t) PROVE OnceInv'
    <2>1. /\ peer[t] \in Workers /\ peer[t] # t /\ UNCHANGED <<once, passed>>
          /\ pc' = [pc EXCEPT ![t] = "guest", ![peer[t]] = IF @ = "failed" THEN "absent" ELSE @]
      BY <1>T, <1>5, QuietResume DEF Created, PeersKnown
    <2>2. \A u \in Threads : pc[u] = "guest" => pc'[u] = "guest"
      BY <1>B, <2>1
    <2> QED BY <2>1, <2>2, OnceUntouched DEF Guest
  <1>6. ASSUME NEW t \in Threads, NEW w \in Workers, Detach(t, w) PROVE OnceInv'
    BY <1>6, OnceUntouched DEF Detach, Guest, world
  <1>7. ASSUME NEW t \in Threads, OnceCall(t) PROVE OnceInv'
    <2>1. Guest(t) /\ once.by # t /\ UNCHANGED pc
      BY <1>7 DEF OnceCall, InOnce
    <2>2. once.by = None
      <3> SUFFICES ASSUME once.by # None PROVE FALSE
        OBVIOUS
      <3>1. once.by \in Threads /\ Guest(once.by)
        BY DEF OnceInv
      <3> QED BY <1>T, <2>1, <3>1 DEF GilHolder
    <2>3. CASE once.state = 0
      <3>1. UNCHANGED passed /\ once' = [once EXCEPT !.state = 1, !.by = t, !.ran = @ + 1]
        BY <1>7, <2>3 DEF OnceCall
      <3>2. once'.state = 1 /\ once'.by = t /\ passed = {}
        BY <1>B, <2>3, <3>1 DEF OnceInv
      <3> QED BY <2>1, <3>1, <3>2 DEF OnceInv, Guest
    <2>4. CASE once.state = 1
      <3>1. UNCHANGED once /\ once.done
        BY <1>7, <2>2, <2>4 DEF OnceCall, OnceInv
      <3> QED BY <2>2, <2>4, <3>1 DEF OnceInv
    <2> QED BY <1>B, <2>3, <2>4
  <1>8. ASSUME NEW t \in Threads, OnceReturn(t) PROVE OnceInv'
    <2>1. once.by = t /\ once' = [once EXCEPT !.by = None, !.done = TRUE]
      BY <1>8 DEF OnceReturn, InOnce
    <2>2. once'.by = None /\ once'.done = TRUE /\ once'.state = once.state
      BY <1>B, <2>1
    <2>3. once.state # 0
      BY <2>1 DEF OnceInv
    <2> QED BY <2>2, <2>3 DEF OnceInv
  <1>9. ASSUME NEW w \in Workers, Begin(w) \/ ThreadReturn(w) PROVE OnceInv'
    <2>1. UNCHANGED <<once, passed>> /\ \A u \in Threads : pc[u] = "guest" => pc'[u] = "guest"
      BY <1>B, <1>9, <1>T, QuietResume
         DEF Begin, ThreadReturn, MayEnd, LeaveOnce, Guest, NoHarness, ShouldAbandon, world
    <2> QED BY <2>1, OnceUntouched DEF Guest
  <1>10. ASSUME NEW w \in Workers, Finish(w) \/ HostExit(w) PROVE OnceInv'
    <2>1. pc[w] # "guest" \/ once.by # w
      BY <1>T, <1>10 DEF Finish, HostExit, MayEnd, InOnce, NoHarness
    <2>2. ~ InOnce(w)
      BY <1>T, <2>1 DEF InOnce, OnceInv, Guest
    <2>3. UNCHANGED <<once, passed>> /\ \A u \in Threads : u # w => pc'[u] = pc[u]
      BY <1>B, <1>10, <2>2 DEF Finish, HostExit, LeaveOnce, world
    <2> QED BY <2>1, <2>3, OnceUntouched DEF Guest
  <1>11. CASE MainReturn
    <2>1. once.by # Main /\ pc' = [pc EXCEPT ![Main] = "top"] /\ UNCHANGED <<once, passed>>
      BY <1>11 DEF MainReturn, MayEnd, LeaveOnce, InOnce
    <2> QED BY <1>B, <2>1, OnceUntouched DEF Guest
  <1>12. CASE MainRun
    <2>1. pc' = [pc EXCEPT ![Main] = "guest"] /\ UNCHANGED <<once, passed>>
      BY <1>12 DEF MainRun
    <2> QED BY <1>B, <2>1, OnceUntouched DEF Guest
  <1>13. CASE UNCHANGED vars
    BY <1>13 DEF vars, OnceInv, Guest
  <1> QED
    BY <1>1, <1>2, <1>3, <1>4, <1>5, <1>6, <1>7, <1>8, <1>9, <1>10, <1>11, <1>12, <1>13
       DEF Next, Step, WorkerStep, MainStep

(* Nobody gets past pthread_once before its init routine has completed, and the
   routine runs once, whatever the number of callers.  wrap_pthread_once sets the
   state word before it runs the routine, so this needs a routine that makes no
   blocking call and ends no thread (pthread_exit, a failing assertion): after
   either, callers get past a routine that has not completed.  The top-level runs
   are those of a program outside --testing: a test that the harness cuts short
   there leaves the word set too. *)
THEOREM OncePasses ==
  ASSUME "strays" \notin Features, "once_blocks" \notin Features,
         "once_exits" \notin Features
  PROVE  Spec => []OnceCompleted
  <1>1. Init => OnceInv
    BY ThreadNames DEF Init, OnceInv
  <1>2. Typed /\ ThreadsInv /\ OnceInv /\ [Next]_vars => OnceInv'
    BY OnceStep
  <1>3. Spec => [](Typed /\ ThreadsInv) BY ThreadsInvariant
  <1>4. Typed /\ OnceInv => OnceCompleted
    BY DEF Typed, TypeOK, OnceInv, OnceCompleted
  <1> QED BY <1>1, <1>2, <1>3, <1>4, PTL DEF Spec
=============================================================================
