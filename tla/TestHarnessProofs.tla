------------------------- MODULE TestHarnessProofs -------------------------
(***************************************************************************)
(* Proofs about TestHarness, for any number of tests, threads, calls and    *)
(* naps of the reaper.                                                      *)
(***************************************************************************)
EXTENDS TestHarness, GuestThreadsProofs

\* The types of the harness and of the guest threads, with the test numbers.
HTyped == HTypeOK /\ OnceFresh /\ Verdicts

(* A helper: what the abandon poll of a resuming thread does to the records. *)
LEMMA PolledFields ==
  ASSUME TypeOK, NEW t \in Threads, NEW w \in Workers
  PROVE  /\ Polled(t)[w] \in Record
         /\ Polled(t)[w].joined = rec[w].joined
         /\ Polled(t)[w].detached = rec[w].detached
         /\ Polled(t)[w].freed = rec[w].freed
         /\ Polled(t)[w].epoch = rec[w].epoch
         /\ Polled(t)[w].abandoned =>
              rec[w].abandoned \/ (abandon_epoch # 0 /\ rec[w].epoch = abandon_epoch)
  <1>1. rec \in [Workers -> Record] /\ rec[w] \in Record
    BY DEF TypeOK
  <1>2. Polled(t)[w] \in Record
    BY PolledType
  <1>3. CASE t \notin Workers
    BY <1>1, <1>2, <1>3 DEF Polled
  <1>4. CASE t \in Workers /\ w # t
    BY <1>1, <1>2, <1>4 DEF Polled
  <1>5. CASE t \in Workers /\ w = t
    <2>1. /\ Polled(t)[w].joined = rec[w].joined
          /\ Polled(t)[w].detached = rec[w].detached
          /\ Polled(t)[w].freed = rec[w].freed
          /\ Polled(t)[w].epoch = rec[w].epoch
          /\ Polled(t)[w].abandoned = ShouldAbandon(t)
      BY <1>1, <1>5 DEF Polled, Record
    <2> QED
      BY <1>2, <1>5, <2>1 DEF ShouldAbandon
  <1> QED
    BY <1>3, <1>4, <1>5

\* What a step of the guest threads may do to the record of w: the epoch is that
\* of the running test or stays, and a flag is set by the reap that is under way.
RecKept(w) ==
  \/ rec'[w] = NewRecord(thread_epoch)
  \/ /\ rec'[w].epoch = rec[w].epoch
     /\ rec'[w].abandoned =>
          rec[w].abandoned \/ (abandon_epoch # 0 /\ rec[w].epoch = abandon_epoch)

(* A helper: the records that change beside a poll. *)
LEMMA PolledKept ==
  ASSUME TypeOK, NEW t \in Threads, NEW w \in Workers, NEW p,
         \/ rec' = Polled(t)
         \/ rec' = [Polled(t) EXCEPT ![p].freed = TRUE]
         \/ rec' = [Polled(t) EXCEPT ![p].joined = TRUE, ![p].freed = TRUE]
  PROVE  RecKept(w)
  <1>1. Polled(t) \in [Workers -> Record]
    BY PolledType
  <1>2. PICK q : q = Polled(t)
    OBVIOUS
  <1>3. q \in [Workers -> Record] /\ q[w] \in Record
    BY <1>1, <1>2
  <1>4. rec'[w].epoch = q[w].epoch /\ rec'[w].abandoned = q[w].abandoned
    BY <1>2, <1>3 DEF Record
  <1> QED
    BY <1>2, <1>4, PolledFields DEF RecKept

(* No guest thread changes the epochs, and none flags a thread of another test. *)
LEMMA GuestKeepsEpochs ==
  ASSUME TypeOK, [Next]_vars
  PROVE  UNCHANGED epochs /\ \A w \in Workers : RecKept(w)
  <1>R. rec \in [Workers -> Record] /\ \A w \in Workers : rec[w] \in Record
    BY DEF TypeOK
  <1>1. ASSUME NEW t \in Threads, Block(t) \/ OnceCall(t) \/ OnceReturn(t)
        PROVE  UNCHANGED <<epochs, rec>>
    BY <1>1 DEF Block, OnceCall, OnceReturn, world, epochs
  <1>2. ASSUME NEW t \in Threads, NEW w \in Workers, Join(t, w)
        PROVE  UNCHANGED <<epochs, rec>>
    BY <1>2 DEF Join, world, epochs
  <1>3. ASSUME NEW t \in Threads, Unblock(t) \/ Created(t) \/ Joined(t)
        PROVE  UNCHANGED epochs /\ \A w \in Workers : RecKept(w)
    <2>1. UNCHANGED epochs
      BY <1>3 DEF Unblock, Created, Joined, epochs
    <2>2. \E p : \/ rec' = Polled(t)
                 \/ rec' = [Polled(t) EXCEPT ![p].freed = TRUE]
                 \/ rec' = [Polled(t) EXCEPT ![p].joined = TRUE, ![p].freed = TRUE]
      BY <1>3 DEF Unblock, Created, Joined
    <2> QED
      BY <2>1, <2>2, PolledKept
  <1>4. ASSUME NEW t \in Threads, NEW v \in Workers, NEW ok \in HostCreate, Create(t, v, ok)
        PROVE  UNCHANGED epochs /\ \A w \in Workers : RecKept(w)
    BY <1>R, <1>4 DEF Create, world, epochs, RecKept
  <1>5. ASSUME NEW t \in Threads, NEW v \in Workers, Detach(t, v)
        PROVE  UNCHANGED epochs /\ \A w \in Workers : RecKept(w)
    <2>1. \A w \in Workers : rec'[w].epoch = rec[w].epoch /\ rec'[w].abandoned = rec[w].abandoned
      BY <1>R, <1>5 DEF Detach, Record
    <2> QED
      BY <1>5, <2>1 DEF Detach, world, epochs, RecKept
  <1>6. ASSUME NEW v \in Workers, Begin(v)
        PROVE  UNCHANGED epochs /\ \A w \in Workers : RecKept(w)
    <2>1. \A w \in Workers : rec'[w].epoch = rec[w].epoch
      BY <1>R, <1>6 DEF Begin, Record
    <2>2. \A w \in Workers \ {v} : rec'[w] = rec[w]
      BY <1>R, <1>6 DEF Begin
    <2>3. rec'[v].abandoned = ShouldAbandon(v)
      BY <1>R, <1>6 DEF Begin, Record
    <2> QED
      BY <1>6, <2>1, <2>2, <2>3 DEF Begin, world, epochs, RecKept, ShouldAbandon
  <1>7. ASSUME NEW v \in Workers, ThreadReturn(v) \/ Finish(v) \/ HostExit(v)
        PROVE  UNCHANGED epochs /\ \A w \in Workers : RecKept(w)
    <2>1. \A w \in Workers : rec'[w].epoch = rec[w].epoch /\ rec'[w].abandoned = rec[w].abandoned
      BY <1>R, <1>7 DEF ThreadReturn, Finish, HostExit, Record
    <2> QED
      BY <1>7, <2>1 DEF ThreadReturn, Finish, HostExit, world, epochs, RecKept
  <1>8. CASE MainReturn \/ MainRun \/ UNCHANGED vars
    BY <1>8 DEF MainReturn, MainRun, vars, world, epochs, RecKept
  <1> QED
    <2>1. ASSUME UNCHANGED <<epochs, rec>>
          PROVE  UNCHANGED epochs /\ \A w \in Workers : RecKept(w)
      BY <2>1 DEF RecKept
    <2> QED
      BY <1>1, <1>2, <1>3, <1>4, <1>5, <1>6, <1>7, <1>8, <2>1
         DEF Next, Step, WorkerStep, MainStep
-----------------------------------------------------------------------------
(* Types and test numbers under the steps of the harness. *)
LEMMA FlaggedFields ==
  ASSUME TypeOK
  PROVE  /\ Flagged \in [Workers -> Record]
         /\ \A w \in Workers :
              /\ Flagged[w].joined = rec[w].joined
              /\ Flagged[w].detached = rec[w].detached
              /\ Flagged[w].freed = rec[w].freed
              /\ Flagged[w].epoch = rec[w].epoch
              /\ Flagged[w].abandoned =>
                   rec[w].abandoned \/ (abandon_epoch # 0 /\ rec[w].epoch = abandon_epoch)
  <1>1. rec \in [Workers -> Record] /\ \A w \in Workers : rec[w] \in Record
    BY DEF TypeOK
  <1>2. \A w \in Workers : w \in Leftovers(abandon_epoch) =>
          abandon_epoch # 0 /\ rec[w].epoch = abandon_epoch
    BY DEF Leftovers, TestThreads
  <1>3. \A w \in Workers : Flagged[w] = IF w \in Leftovers(abandon_epoch)
                                        THEN [rec[w] EXCEPT !.abandoned = TRUE] ELSE rec[w]
    BY DEF Flagged
  <1>4. ASSUME NEW w \in Workers
        PROVE  /\ Flagged[w] \in Record
               /\ Flagged[w].joined = rec[w].joined
               /\ Flagged[w].detached = rec[w].detached
               /\ Flagged[w].freed = rec[w].freed
               /\ Flagged[w].epoch = rec[w].epoch
               /\ w \notin Leftovers(abandon_epoch) => Flagged[w].abandoned = rec[w].abandoned
    BY <1>1, <1>3, <1>4 DEF Record
  <1>5. Flagged \in [Workers -> Record]
    <2>1. DOMAIN Flagged = Workers /\ Flagged = [w \in Workers |-> Flagged[w]]
      BY DEF Flagged
    <2> QED
      BY <1>4, <2>1
  <1> QED
    BY <1>2, <1>4, <1>5

LEMMA HarnessTypes ==
  ASSUME HTyped, HarnessStep \/ FailOnMain \/ Timeout \/ \E w \in Workers : SafePoint(w)
  PROVE  Typed'
  <1>R. rec \in [Workers -> Record] /\ \A w \in Workers : rec[w] \in Record
    BY DEF HTyped, HTypeOK, TypeOK
  <1> USE ThreadNames, OwnIsContext DEF HTyped, HTypeOK, Typed
  <1>1. CASE StartTest
    <2>1. thread_epoch' \in Nat
      BY <1>1, HarnessAssumption DEF StartTest
    <2> QED
      BY <1>1, <2>1 DEF StartTest, TypeOK, OnceFresh
  <1>2. CASE HarnessRun
    <2>1. [Next]_vars
      BY <1>2 DEF HarnessRun, Next, MainStep
    <2> QED
      BY <2>1, TypeStep
  <1>3. CASE Abandon
    <2>1. pc' \in [Threads -> Places] /\ abandon_epoch' \in Nat
      BY <1>3 DEF Abandon, TypeOK, Places
    <2> QED
      BY <1>3, <2>1 DEF Abandon, TypeOK, OnceFresh
  <1>4. CASE ReapBegin
    <2>1. pc' \in [Threads -> Places] /\ rec' \in [Workers -> Record]
      BY <1>4, FlaggedFields DEF ReapBegin, TypeOK, Places
    <2>2. ctx' \in Context /\ snap' \in [released : BOOLEAN, ctx : Context]
      BY <1>4 DEF ReapBegin, TypeOK, MainReclaimed
    <2> QED
      BY <1>4, <2>1, <2>2 DEF ReapBegin, TypeOK, OnceFresh, world, epochs
  <1>5. CASE Nap
    <2>1. "nap" \in Places /\ SaveAndRelease(Main, "nap")
      BY <1>5 DEF Nap, Places
    <2> QED
      BY <1>5, <2>1, SaveType DEF Nap, TypeOK, OnceFresh, world, epochs
  <1>6. CASE NapOver
    <2>1. pc' \in [Threads -> Places] /\ rec' \in [Workers -> Record]
      BY <1>6, FlaggedFields DEF NapOver, TypeOK, Places
    <2>2. AcquireAndRestore(Main)
      BY <1>6 DEF NapOver
    <2> QED
      BY <1>6, <2>1, <2>2, RestoreType DEF NapOver, TypeOK, OnceFresh, world, epochs
  <1>7. CASE ReapEnough
    <2>1. pc' \in [Threads -> Places]
      BY <1>7 DEF ReapEnough, TypeOK, Places
    <2> QED
      BY <1>7, <2>1 DEF ReapEnough, TypeOK, OnceFresh, world, epochs
  <1>8. ASSUME NEW w \in Workers, HostJoin(w) PROVE Typed'
    <2>1. rec' \in [Workers -> Record]
      BY <1>8, <1>R DEF HostJoin, Record
    <2> QED
      BY <1>8, <2>1 DEF HostJoin, TypeOK, OnceFresh, world, epochs
  <1>9. CASE ReapDone
    <2>1. pc' \in [Threads -> Places]
      BY <1>9 DEF ReapDone, TypeOK, Places
    <2> QED
      BY <1>9, <2>1 DEF ReapDone, TypeOK, OnceFresh
  <1>10. CASE EndBody \/ EndTest
    BY <1>10 DEF EndBody, EndTest, TypeOK, OnceFresh, epochs
  <1>11. CASE FailOnMain \/ Timeout
    <2>1. pc' \in [Threads -> Places] /\ peer' \in [Threads -> Workers \cup {None}]
      BY <1>11 DEF FailOnMain, Timeout, Unwound, TypeOK, Places
    <2>2. once' \in [state : {0, 1}, by : Threads \cup {None}, ran : 0..1, done : BOOLEAN]
          /\ OnceFresh'
      BY <1>11 DEF FailOnMain, Timeout, Unwound, LeaveOnce, TypeOK, OnceFresh
    <2>3. snap' \in [released : BOOLEAN, ctx : Context]
      <3>1. snap \in [released : BOOLEAN, ctx : Context] /\ ctx \in Context
        BY DEF TypeOK
      <3>2. snap' = snap \/ snap' = [released |-> TRUE, ctx |-> ctx]
        BY <1>11 DEF FailOnMain, Timeout, MainUnwinding
      <3>3. CASE snap' = snap
        BY <3>1, <3>3
      <3>4. CASE snap' = [released |-> TRUE, ctx |-> ctx]
        BY ONLY <3>1, <3>4
      <3> QED
        BY <3>2, <3>3, <3>4
    <2>4. gil' \in Threads \cup {None}
      BY <1>11 DEF FailOnMain, Timeout, TypeOK
    <2> QED
      BY <1>11, <2>1, <2>2, <2>3, <2>4 DEF FailOnMain, Timeout, Unwound, TypeOK, epochs
  <1>12. ASSUME NEW w \in Workers, SafePoint(w) PROVE Typed'
    <2>1. rec' \in [Workers -> Record]
      <3>1. rec' = [rec EXCEPT ![w].exited = TRUE, ![w].abandoned = TRUE]
        BY <1>12 DEF SafePoint
      <3> QED
        BY <3>1, <1>R DEF Record
    <2>2. pc' \in [Threads -> Places]
      BY <1>12 DEF SafePoint, TypeOK, Places
    <2>3. once' \in [state : {0, 1}, by : Threads \cup {None}, ran : 0..1, done : BOOLEAN]
          /\ OnceFresh'
      BY <1>12 DEF SafePoint, CutOnce, LeaveOnce, TypeOK, OnceFresh
    <2> QED
      BY <1>12, <2>1, <2>2, <2>3 DEF SafePoint, TypeOK, epochs
  <1> QED
    BY <1>1, <1>2, <1>3, <1>4, <1>5, <1>6, <1>7, <1>8, <1>9, <1>10, <1>11, <1>12 DEF HarnessStep

LEMMA HTypedStep ==
  ASSUME HTyped, [HNext]_hvars
  PROVE  HTyped'
  <1> USE HarnessAssumption
  <1>1. Typed'
    <2>1. CASE GuestStep \/ (\E w \in Workers : FailOnWorker(w)) \/ UNCHANGED hvars
      <3>1. [Next]_vars
        BY <2>1 DEF GuestStep, FailOnWorker, hvars, Next, MainStep, WorkerStep
      <3> QED
        BY <3>1, TypeStep DEF HTyped, HTypeOK, Typed
    <2> QED
      BY <2>1, HarnessTypes DEF HNext
  <1>2. ASSUME UNCHANGED harness, UNCHANGED epochs PROVE HTyped'
    BY <1>1, <1>2 DEF HTyped, HTypeOK, Typed, Verdicts, harness, epochs
  <1>3. CASE GuestStep
    <2>1. [Next]_vars /\ UNCHANGED harness
      BY <1>3 DEF GuestStep, Next, MainStep
    <2> QED
      BY <1>2, <2>1, GuestKeepsEpochs DEF HTyped, HTypeOK
  <1>4. CASE UNCHANGED hvars
    BY <1>2, <1>4 DEF hvars, vars, epochs
  <1>5. CASE HarnessRun \/ ReapBegin \/ NapOver \/ ReapEnough
    BY <1>2, <1>5 DEF HarnessRun, MainRun, ReapBegin, NapOver, ReapEnough, world, epochs
  <1>6. ASSUME NEW w \in Workers, HostJoin(w) \/ SafePoint(w) PROVE HTyped'
    BY <1>2, <1>6 DEF HostJoin, SafePoint, world, epochs
  <1>7. CASE StartTest
    <2>1. test' \in 0..MaxTests /\ test' = test + 1 /\ test' # 0 /\ phase' = "body"
      BY <1>7 DEF StartTest, HTyped, HTypeOK
    <2> QED
      BY <1>1, <1>7, <2>1 DEF StartTest, HTyped, HTypeOK, Typed, Verdicts
  <1>8. CASE Abandon
    BY <1>1, <1>8 DEF Abandon, HTyped, HTypeOK, Typed, Verdicts
  <1>9. CASE Nap
    <2>1. naps' \in 0..Grace /\ UNCHANGED <<test, phase, outcome, reaped, verdicts, unkept, epochs>>
      BY <1>9 DEF Nap, HTyped, HTypeOK, world
    <2> QED
      BY <1>1, <2>1 DEF HTyped, HTypeOK, Typed, Verdicts, epochs
  <1>10. CASE ReapDone
    BY <1>1, <1>10 DEF ReapDone, HTyped, HTypeOK, Typed, Verdicts
  <1>11. CASE EndBody \/ EndTest
    BY <1>1, <1>11 DEF EndBody, EndTest, HTyped, HTypeOK, Typed, Verdicts, epochs
  <1>12. ASSUME UNCHANGED <<test, phase, reaped, naps, unkept, epochs>>, phase # "idle",
                outcome' \in {"failed", "timeout"}, verdicts' = verdicts \cup {thread_epoch}
         PROVE  HTyped'
    <2>1. thread_epoch \in 1..MaxTests
      BY <1>12 DEF HTyped, HTypeOK, Verdicts
    <2>2. verdicts' \subseteq 1..MaxTests
      BY <1>12, <2>1 DEF HTyped, HTypeOK
    <2> QED
      BY <1>1, <1>12, <2>2 DEF HTyped, HTypeOK, Typed, Verdicts, epochs
  <1>13. CASE FailOnMain \/ Timeout
    BY <1>12, <1>13 DEF FailOnMain, Timeout, Unwound
  <1>14. ASSUME NEW w \in Workers, FailOnWorker(w) PROVE HTyped'
    BY <1>12, <1>14 DEF FailOnWorker, ThreadReturn, Finish
  <1> QED
    BY <1>3, <1>4, <1>5, <1>6, <1>7, <1>8, <1>9, <1>10, <1>11, <1>13, <1>14 DEF HNext, HarnessStep

LEMMA HTypedInit == HInit => HTyped
  <1> SUFFICES ASSUME HInit PROVE HTyped
    OBVIOUS
  <1>1. TypeOK /\ OnceFresh
    BY ThreadNames, OwnIsContext, NewRecordType
       DEF HInit, TypeOK, OnceFresh, Places, Record, NewRecord
  <1>2. Verdicts /\ test \in 0..MaxTests /\ naps \in 0..Grace /\ verdicts \subseteq 1..MaxTests
    BY HarnessAssumption DEF HInit, Verdicts
  <1>3. reaped \in BOOLEAN /\ unkept \in BOOLEAN /\ phase = "idle" /\ outcome = "ok"
    BY DEF HInit
  <1> QED
    BY <1>1, <1>2, <1>3 DEF HTyped, HTypeOK

\* The state of the harness keeps its types: a test that fails is a test that
\* was started, and the reaper's naps stay within the grace period
\* (testing.c, cccc_pthread_reap_abandoned).
THEOREM HarnessTypeCorrect == HSpec => []HTypeOK
  <1>1. HInit => HTyped
    BY HTypedInit
  <1>2. HTyped /\ [HNext]_hvars => HTyped'
    BY HTypedStep
  <1>3. HTyped => HTypeOK
    BY DEF HTyped
  <1> QED
    BY <1>1, <1>2, <1>3, PTL DEF HSpec
-----------------------------------------------------------------------------
(* Flags stay with the test that failed. *)
LEMMA IsolationStep ==
  ASSUME HTyped, HTyped', EpochIsolation, [HNext]_hvars
  PROVE  EpochIsolation'
  <1>R. rec \in [Workers -> Record] /\ \A w \in Workers : rec[w] \in Record
    BY DEF HTyped, HTypeOK, TypeOK
  <1>1. verdicts \subseteq verdicts'
    BY DEF HNext, HarnessStep, GuestStep, StartTest, HarnessRun, Abandon, ReapBegin, Nap, NapOver,
           ReapEnough, HostJoin, ReapDone, EndBody, EndTest, FailOnMain, Timeout, Unwound,
           FailOnWorker, SafePoint, harness, hvars
  <1>2. ASSUME \A w \in Workers : RecKept(w) PROVE EpochIsolation'
    <2> SUFFICES ASSUME NEW w \in Workers, rec'[w].abandoned PROVE rec'[w].epoch \in verdicts'
      BY DEF EpochIsolation
    <2>1. rec'[w] # NewRecord(thread_epoch)
      BY DEF NewRecord
    <2>2. rec'[w].epoch = rec[w].epoch /\ rec[w].epoch \in verdicts
      BY <1>2, <2>1 DEF RecKept, EpochIsolation, HTyped, Verdicts
    <2> QED
      BY <1>1, <2>2
  <1>3. ASSUME UNCHANGED rec PROVE EpochIsolation'
    BY <1>2, <1>3 DEF RecKept
  <1>4. CASE GuestStep \/ HarnessRun \/ (\E w \in Workers : FailOnWorker(w)) \/ UNCHANGED hvars
    <2>1. [Next]_vars
      BY <1>4 DEF GuestStep, HarnessRun, FailOnWorker, hvars, Next, MainStep, WorkerStep
    <2> QED
      BY <1>2, <2>1, GuestKeepsEpochs DEF HTyped, HTypeOK
  <1>5. CASE ReapBegin \/ NapOver
    <2>1. rec' = Flagged
      BY <1>5 DEF ReapBegin, NapOver
    <2> QED
      BY <1>2, <2>1, FlaggedFields DEF RecKept, HTyped, HTypeOK
  <1>6. ASSUME NEW v \in Workers, HostJoin(v) PROVE EpochIsolation'
    <2>1. \A w \in Workers : rec'[w].epoch = rec[w].epoch /\ rec'[w].abandoned = rec[w].abandoned
      BY <1>R, <1>6 DEF HostJoin, Record
    <2> QED
      BY <1>2, <2>1 DEF RecKept
  <1>7. ASSUME NEW v \in Workers, SafePoint(v) PROVE EpochIsolation'
    <2>1. rec' = [rec EXCEPT ![v].exited = TRUE, ![v].abandoned = TRUE] /\ MustEnd(v)
      BY <1>7 DEF SafePoint
    <2>2. \A w \in Workers : rec'[w].epoch = rec[w].epoch
      BY <1>R, <2>1 DEF Record
    <2>3. \A w \in Workers \ {v} : rec'[w] = rec[w]
      BY <1>R, <2>1
    <2> QED
      BY <1>2, <2>1, <2>2, <2>3 DEF RecKept, MustEnd, ShouldAbandon
  <1>8. CASE StartTest \/ Abandon \/ Nap \/ ReapEnough \/ ReapDone \/ EndBody \/ EndTest
    BY <1>3, <1>8 DEF StartTest, Abandon, Nap, ReapEnough, ReapDone, EndBody, EndTest
  <1>9. CASE FailOnMain \/ Timeout
    BY <1>3, <1>9 DEF FailOnMain, Timeout, Unwound
  <1> QED
    BY <1>4, <1>5, <1>6, <1>7, <1>8, <1>9 DEF HNext, HarnessStep

\* A failed test takes down its own threads only: whoever is flagged, by the
\* reaper or by its own poll of cccc_pthread_should_abandon, was created in a
\* test that has failed.
THEOREM OnlyFailedAbandoned == HSpec => []EpochIsolation
  <1>1. HInit => HTyped /\ EpochIsolation
    BY HTypedInit DEF HInit, EpochIsolation, NewRecord
  <1>2. HTyped /\ EpochIsolation /\ [HNext]_hvars => (HTyped /\ EpochIsolation)'
    BY HTypedStep, IsolationStep
  <1> QED
    BY <1>1, <1>2, PTL DEF HSpec
-----------------------------------------------------------------------------
(* HarnessInv under the steps of a worker and of main, each first reduced to  *)
(* what it may do to the other threads.                                      *)

\* A step of worker w: it moves on, takes or gives up the GIL, and puts into the
\* VM its own state or, while it had the VM, what it found.
WorkerMoved(w) ==
  /\ UNCHANGED <<peer, parent, phase, reaped, unkept, snap>>
  /\ \A t \in Threads \ {w} : pc'[t] = pc[t] /\ pause'[t] = pause[t]
  /\ \A v \in Workers \ {w} : rec'[v] = rec[v] /\ fate'[v] = fate[v]
  /\ pc[w] # "absent"
  /\ pc'[w] \in {"guest", "call", "leaving", "unlinked", "returning", "ended"}
  /\ rec'[w].epoch = rec[w].epoch
  /\ rec'[w].freed => pc'[w] = "ended" /\ rec[w].detached
  /\ rec'[w].detached => fate'[w] = "detach"
  /\ fate'[w] = fate[w] \/ fate[w] = "open"
  /\ pc'[w] = "unlinked" => rec'[w].detached
  /\ \/ gil' = gil /\ (Holds(w)' <=> Holds(w))
     \/ gil = None /\ gil' = w /\ Holds(w)'
     \/ gil = w /\ gil' = None /\ ~ Holds(w)'
  /\ ctx' = ctx \/ (Active(w) /\ gil \in {None, w})
  /\ Active(w)' => Active(w)
  /\ Guest(w)' => ctx' = Own(w)
  /\ pc'[w] = "call" => pause'[w] = Own(w)

LEMMA WorkerKeeps ==
  ASSUME HTyped, HarnessInv, NEW w \in Workers, WorkerMoved(w)
  PROVE  HarnessInv'
  <1> USE ThreadNames
  <1>1. pc'[Main] = pc[Main] /\ pause'[Main] = pause[Main]
    BY DEF WorkerMoved
  <1>2. MainPlaces'
    BY <1>1 DEF WorkerMoved, HarnessInv, MainPlaces
  <1>3. WorkerPlaces'
    BY DEF WorkerMoved, HarnessInv, WorkerPlaces
  <1>4. \A t \in Threads : Holds(t)' <=> gil' = t
    <2>1. \A t \in Threads \ {w} : Holds(t)' <=> Holds(t)
      BY DEF WorkerMoved, Holds
    <2> QED
      BY <2>1 DEF WorkerMoved, HarnessInv
  <1>5. \A t \in Threads \ {w} : Holds(t) => ctx' = ctx
    BY DEF WorkerMoved, HarnessInv
  <1>6. MainKept'
    <2>1. Holds(Main)' <=> Holds(Main)
      BY <1>1 DEF Holds
    <2>2. \A v \in Workers : Active(v)' => Active(v)
      BY DEF WorkerMoved, Active
    <2>3. (\A v \in Workers : ~ Active(v)) => ctx' = ctx /\ \A v \in Workers : ~ Active(v)'
      BY <2>2 DEF WorkerMoved
    <2> QED
      BY <1>1, <1>5, <2>1, <2>3 DEF WorkerMoved, HarnessInv, MainKept
  <1>7. WorkersKept'
    <2>1. \A v \in Workers \ {w} : Guest(v)' => Holds(v)
      BY DEF WorkerMoved, Guest, Holds
    <2> QED
      BY <1>5, <2>1 DEF WorkerMoved, HarnessInv, WorkersKept, Guest
  <1>8. JoinKnown'
    BY <1>1 DEF WorkerMoved, HarnessInv, JoinKnown
  <1>9. Detachments'
    BY DEF WorkerMoved, HarnessInv, Detachments
  <1> QED
    BY <1>2, <1>3, <1>4, <1>6, <1>7, <1>8, <1>9 DEF HarnessInv

\* A step of main, seen by the workers.
MainMoved ==
  /\ UNCHANGED parent
  /\ \A w \in Workers :
       /\ pause'[w] = pause[w]
       /\ \/ pc'[w] = pc[w] /\ rec'[w].epoch = rec[w].epoch
             /\ (rec[w].detached => rec'[w].detached)
          \/ pc[w] = "failed" /\ pc'[w] = "absent"
          \/ /\ pc[w] = "absent" /\ pc'[w] \in {"failed", "created"}
             /\ rec'[w].epoch # 0 /\ ~ rec'[w].freed
       /\ rec'[w].freed => rec[w].freed \/ pc'[w] \in {"absent", "ended"}
       /\ rec'[w].detached => rec[w].detached /\ (fate'[w] = fate[w] \/ fate[w] = "open")
  /\ \/ ctx' = ctx /\ gil' = gil /\ (Holds(Main)' <=> Holds(Main))
     \/ gil \in {None, Main} /\ gil' \in {None, Main} /\ (Holds(Main)' <=> gil' = Main)

LEMMA MainKeeps ==
  ASSUME HTyped, HarnessInv, MainMoved, MainPlaces', MainKept', JoinKnown'
  PROVE  HarnessInv'
  <1> USE ThreadNames
  <1>1. WorkerPlaces'
    BY DEF MainMoved, HarnessInv, WorkerPlaces
  <1>2. \A w \in Workers : Holds(w)' <=> Holds(w)
    BY DEF MainMoved, Holds
  <1>3. \A t \in Threads : Holds(t)' <=> gil' = t
    <2>1. CASE ctx' = ctx /\ gil' = gil /\ (Holds(Main)' <=> Holds(Main))
      BY <1>2, <2>1 DEF HarnessInv, Threads
    <2>2. CASE gil \in {None, Main} /\ gil' \in {None, Main} /\ (Holds(Main)' <=> gil' = Main)
      BY <1>2, <2>2 DEF HarnessInv, Threads
    <2> QED
      BY <2>1, <2>2 DEF MainMoved
  <1>4. WorkersKept'
    <2>1. \A w \in Workers : Guest(w)' => Guest(w) /\ Holds(w)
      BY DEF MainMoved, Guest, Holds
    <2>2. \A w \in Workers : Holds(w) => ctx' = ctx
      BY DEF MainMoved, HarnessInv
    <2> QED
      BY <2>1, <2>2 DEF MainMoved, HarnessInv, WorkersKept
  <1>5. Detachments'
    BY DEF MainMoved, HarnessInv, Detachments
  <1> QED
    BY <1>1, <1>3, <1>4, <1>5 DEF HarnessInv

(* Once every thread of the test is freed, none can touch the VM. *)
LEMMA NoneLeft ==
  ASSUME HarnessInv, TestThreads = {}
  PROVE  \A w \in Workers : ~ Active(w)
  BY DEF HarnessInv, WorkerPlaces, TestThreads, Active

(* The steps of a worker. *)
LEMMA WorkerSteps ==
  ASSUME HTyped, HarnessInv, NEW w \in Workers,
         "detach" \notin Features, "nested" \notin Features,
         Step(w) \/ WorkerStep(w) \/ SafePoint(w),
         UNCHANGED <<phase, reaped, unkept>>
  PROVE  WorkerMoved(w)
  <1> USE ThreadNames
  <1>R. /\ rec \in [Workers -> Record] /\ rec[w] \in Record
        /\ pc \in [Threads -> Places] /\ pause \in [Threads -> Context]
        /\ fate \in [Workers -> {"open", "join", "detach"}]
    BY DEF HTyped, HTypeOK, TypeOK
  <1>P. /\ pc[w] \in {"absent", "failed", "created", "guest", "call", "leaving",
                      "unlinked", "returning", "ended"}
        /\ \A v \in Workers : parent[v] = Main
        /\ rec[w].freed => pc[w] \in {"absent", "ended"}
        /\ rec[w].detached => fate[w] = "detach"
        /\ pc[w] = "unlinked" => rec[w].detached
        /\ Guest(w) => ctx = Own(w)
        /\ pc[w] = "call" => pause[w] = Own(w)
        /\ Holds(w) <=> gil = w
    BY DEF HarnessInv, WorkerPlaces, WorkersKept, Detachments
  <1>1. CASE Block(w)
    <2>1. /\ pc[w] = "guest" /\ pc' = [pc EXCEPT ![w] = "call"]
          /\ pause' = [pause EXCEPT ![w] = ctx] /\ gil' = None
          /\ UNCHANGED <<peer, parent, snap, rec, fate, ctx>>
      BY <1>1 DEF Block, SaveAndRelease, Guest
    <2> QED
      BY <1>R, <1>P, <2>1 DEF WorkerMoved, Holds, Active, Guest
  <1>2. CASE Unblock(w)
    <2>1. /\ pc[w] = "call" /\ pc' = [pc EXCEPT ![w] = Resumed(w)] /\ rec' = Polled(w)
          /\ gil = None /\ gil' = w /\ ctx' = pause[w]
          /\ UNCHANGED <<peer, parent, snap, fate, pause>>
      BY <1>2 DEF Unblock, AcquireAndRestore
    <2>2. Resumed(w) \in {"guest", "leaving"}
      BY DEF Resumed
    <2>3. \A v \in Workers \ {w} : rec'[v] = rec[v]
      BY <1>R, <2>1 DEF Polled
    <2>4. /\ rec'[w].epoch = rec[w].epoch /\ rec'[w].freed = rec[w].freed
          /\ rec'[w].detached = rec[w].detached
      BY <2>1, PolledFields DEF HTyped, HTypeOK
    <2> QED
      BY <1>R, <1>P, <2>1, <2>2, <2>3, <2>4 DEF WorkerMoved, Holds, Active, Guest
  <1>3. ASSUME NEW v \in Workers, NEW ok \in HostCreate, Create(w, v, ok) PROVE FALSE
    BY <1>3 DEF Create
  <1>4. ASSUME NEW v \in Workers, Join(w, v) PROVE FALSE
    BY <1>4, <1>P DEF Join, Knows
  <1>5. ASSUME NEW v \in Workers, Detach(w, v) PROVE WorkerMoved(w)
    <2>1. v = w /\ ~ rec[w].exited /\ pc[w] = "guest" /\ fate[w] = "open"
      BY <1>5, <1>P DEF Detach, Knows, Guest
    <2>2. /\ fate' = [fate EXCEPT ![w] = "detach"]
          /\ rec' = [rec EXCEPT ![w].detached = TRUE, ![w].freed = @ \/ rec[w].exited]
          /\ UNCHANGED <<gil, ctx, pc, peer, pause, parent, snap>>
      BY <1>5, <2>1 DEF Detach
    <2>3. \A u \in Workers \ {w} : rec'[u] = rec[u]
      BY <1>R, <2>2
    <2>4. rec'[w].epoch = rec[w].epoch /\ rec'[w].freed = (rec[w].freed \/ rec[w].exited)
      BY <1>R, <2>2 DEF Record
    <2> QED
      BY <1>R, <1>P, <2>1, <2>2, <2>3, <2>4 DEF WorkerMoved, Holds, Active, Guest
  <1>6. CASE Created(w) \/ Joined(w)
    BY <1>6, <1>P DEF Created, Joined
  <1>7. CASE OnceCall(w) \/ OnceReturn(w)
    <2>1. pc[w] = "guest" /\ UNCHANGED <<gil, ctx, pc, peer, pause, rec, parent, fate, snap>>
      BY <1>7 DEF OnceCall, OnceReturn, Guest
    <2> QED
      BY <1>R, <1>P, <2>1 DEF WorkerMoved, Holds, Active, Guest
  <1>8. CASE Begin(w)
    <2>1. /\ pc[w] = "created" /\ gil = None /\ gil' = w /\ ctx' = Own(w)
          /\ pc' = [pc EXCEPT ![w] = IF ShouldAbandon(w) THEN "leaving" ELSE "guest"]
          /\ rec' = [rec EXCEPT ![w].abandoned = ShouldAbandon(w), ![w].exited = ShouldAbandon(w)]
          /\ UNCHANGED <<peer, pause, parent, fate, snap>>
      BY <1>8 DEF Begin
    <2>2. \A u \in Workers \ {w} : rec'[u] = rec[u]
      BY <1>R, <2>1
    <2>3. /\ rec'[w].epoch = rec[w].epoch /\ rec'[w].freed = rec[w].freed
          /\ rec'[w].detached = rec[w].detached
      BY <1>R, <2>1 DEF Record
    <2> QED
      BY <1>R, <1>P, <2>1, <2>2, <2>3 DEF WorkerMoved, Holds, Active, Guest
  <1>9. CASE ThreadReturn(w)
    <2>1. /\ pc[w] = "guest" /\ pc' = [pc EXCEPT ![w] = IF rec[w].abandoned THEN "leaving" ELSE "guest"]
          /\ rec' = [rec EXCEPT ![w].exited = TRUE]
          /\ UNCHANGED <<gil, ctx, peer, pause, parent, fate, snap>>
      BY <1>9 DEF ThreadReturn, Guest
    <2>2. \A u \in Workers \ {w} : rec'[u] = rec[u]
      BY <1>R, <2>1
    <2>3. /\ rec'[w].epoch = rec[w].epoch /\ rec'[w].freed = rec[w].freed
          /\ rec'[w].detached = rec[w].detached
      BY <1>R, <2>1 DEF Record
    <2> QED
      BY <1>R, <1>P, <2>1, <2>2, <2>3 DEF WorkerMoved, Holds, Active, Guest
  <1>10. CASE SafePoint(w)
    <2>1. /\ pc[w] = "guest" /\ pc' = [pc EXCEPT ![w] = "leaving"]
          /\ rec' = [rec EXCEPT ![w].exited = TRUE, ![w].abandoned = TRUE]
          /\ UNCHANGED <<gil, ctx, peer, pause, parent, fate, snap>>
      BY <1>10 DEF SafePoint, Guest
    <2>2. \A u \in Workers \ {w} : rec'[u] = rec[u]
      BY <1>R, <2>1
    <2>3. /\ rec'[w].epoch = rec[w].epoch /\ rec'[w].freed = rec[w].freed
          /\ rec'[w].detached = rec[w].detached
      BY <1>R, <2>1 DEF Record
    <2> QED
      BY <1>R, <1>P, <2>1, <2>2, <2>3 DEF WorkerMoved, Holds, Active, Guest
  <1>11. CASE Finish(w)
    <2>1. /\ pc[w] \in {"guest", "leaving"} /\ gil' = None
          /\ pc' = [pc EXCEPT ![w] = IF rec[w].detached THEN "unlinked" ELSE "returning"]
          /\ UNCHANGED <<peer, pause, rec, parent, fate, snap>>
      BY <1>11 DEF Finish, Guest
    <2> QED
      BY <1>R, <1>P, <2>1 DEF WorkerMoved, Holds, Active, Guest
  <1>12. CASE HostExit(w)
    <2>1. /\ pc[w] \in {"unlinked", "returning"} /\ pc' = [pc EXCEPT ![w] = "ended"]
          /\ rec' = [rec EXCEPT ![w].freed = @ \/ pc[w] = "unlinked"]
          /\ UNCHANGED <<gil, ctx, peer, pause, parent, fate, snap>>
      BY <1>12 DEF HostExit
    <2>2. \A u \in Workers \ {w} : rec'[u] = rec[u]
      BY <1>R, <2>1
    <2>3. rec'[w].epoch = rec[w].epoch /\ rec'[w].detached = rec[w].detached
      BY <1>R, <2>1 DEF Record
    <2>4. rec'[w].freed => rec[w].detached
      BY <1>R, <1>P, <2>1 DEF Record
    <2> QED
      BY <1>R, <1>P, <2>1, <2>2, <2>3, <2>4 DEF WorkerMoved, Holds, Active, Guest
  <1> QED
    BY <1>1, <1>2, <1>3, <1>4, <1>5, <1>6, <1>7, <1>8, <1>9, <1>10, <1>11, <1>12
       DEF Step, WorkerStep

(* What is known of main before each of its steps. *)
LEMMA MainFacts ==
  ASSUME HTyped, HarnessInv
  PROVE  /\ rec \in [Workers -> Record] /\ pc \in [Threads -> Places]
         /\ pause \in [Threads -> Context] /\ peer \in [Threads -> Workers \cup {None}]
         /\ fate \in [Workers -> {"open", "join", "detach"}]
         /\ snap \in [released : BOOLEAN, ctx : Context]
         /\ pc[Main] # "top" => thread_epoch # 0
         /\ Holds(Main) <=> gil = Main
         /\ ~ MustEnd(Main) /\ Polled(Main) = rec /\ Resumed(Main) = "guest"
         /\ snap.released => snap.ctx = Own(Main)
         /\ Holds(Main) => ctx = Own(Main)
         /\ pc[Main] \in {"call", "creating", "joining", "nap"} =>
              snap.released /\ pause[Main] = Own(Main)
  <1>1. /\ rec \in [Workers -> Record] /\ pc \in [Threads -> Places]
        /\ pause \in [Threads -> Context] /\ peer \in [Threads -> Workers \cup {None}]
        /\ fate \in [Workers -> {"open", "join", "detach"}]
        /\ snap \in [released : BOOLEAN, ctx : Context]
    BY DEF HTyped, HTypeOK, TypeOK
  <1>2. pc[Main] # "top" => thread_epoch # 0
    BY DEF HTyped, Verdicts, HarnessInv, MainPlaces
  <1>3. ~ MustEnd(Main) /\ Polled(Main) = rec /\ Resumed(Main) = "guest"
    BY ThreadNames DEF MustEnd, ShouldAbandon, Polled, Resumed
  <1> QED
    BY <1>1, <1>2, <1>3, ThreadNames DEF HarnessInv, MainKept

(* Main parks in a blocking call, pthread_create or pthread_join, or naps. *)
LEMMA MainParks ==
  ASSUME HTyped, HarnessInv,
         Block(Main) \/ Nap \/ (\E w \in Workers : Join(Main, w))
                     \/ (\E w \in Workers, ok \in HostCreate : Create(Main, w, ok)),
         UNCHANGED <<phase, reaped, unkept>>
  PROVE  HarnessInv'
  <1> USE ThreadNames, MainFacts
  <1>1. PICK x \in {"call", "nap", "joining", "creating"} :
          /\ pc'[Main] = x
          /\ x = "nap" => pc[Main] = "reap"
          /\ x # "nap" => pc[Main] = "guest"
    BY DEF Block, Nap, Join, Create, SaveAndRelease, Guest
  <1>2. /\ Holds(Main) /\ gil = Main /\ ctx = Own(Main) /\ thread_epoch # 0
        /\ phase # "idle" /\ ~ unkept /\ (x = "nap" => reaped)
    BY <1>1 DEF Holds, HarnessInv, MainPlaces
  <1>3. /\ pause' = [pause EXCEPT ![Main] = ctx] /\ gil' = None
        /\ snap' = [released |-> TRUE, ctx |-> ctx]
        /\ UNCHANGED ctx
    BY <1>2 DEF Block, Nap, Join, Create, SaveAndRelease
  <1>4. snap'.released /\ snap'.ctx = Own(Main) /\ pause'[Main] = Own(Main)
    BY <1>2, <1>3
  <1>5. ~ Holds(Main)'
    BY <1>1 DEF Holds
  <1>6. MainPlaces' /\ MainKept'
    BY <1>1, <1>2, <1>4, <1>5 DEF MainPlaces, MainKept
  <1>7. CASE Block(Main) \/ Nap
    <2>1. UNCHANGED <<parent, rec, fate, peer>> /\ pc' = [pc EXCEPT ![Main] = x]
      BY <1>1, <1>7 DEF Block, Nap, SaveAndRelease
    <2>2. MainMoved
      BY <1>2, <1>3, <1>5, <2>1 DEF MainMoved
    <2>3. JoinKnown'
      BY <1>7, <2>1 DEF JoinKnown, Block, Nap, SaveAndRelease
    <2> QED
      BY <1>6, <2>2, <2>3, MainKeeps
  <1>8. ASSUME NEW v \in Workers, Join(Main, v) PROVE HarnessInv'
    <2>1. /\ UNCHANGED <<parent, rec>> /\ pc' = [pc EXCEPT ![Main] = "joining"]
          /\ fate' = [fate EXCEPT ![v] = "join"] /\ fate[v] = "open"
          /\ peer' = [peer EXCEPT ![Main] = v] /\ pc[v] # "absent"
      BY <1>8 DEF Join, SaveAndRelease, Knows
    <2>2. MainMoved
      BY <1>2, <1>3, <1>5, <2>1 DEF MainMoved
    <2>3. JoinKnown'
      BY <2>1 DEF JoinKnown
    <2> QED
      BY <1>6, <2>2, <2>3, MainKeeps
  <1>9. ASSUME NEW v \in Workers, NEW ok \in HostCreate, Create(Main, v, ok) PROVE HarnessInv'
    <2>1. /\ UNCHANGED parent /\ pc[v] = "absent" /\ rec' = [rec EXCEPT ![v] = NewRecord(thread_epoch)]
          /\ pc' = [pc EXCEPT ![Main] = "creating", ![v] = IF ok THEN "created" ELSE "failed"]
          /\ peer' = [peer EXCEPT ![Main] = v] /\ fate' = [fate EXCEPT ![v] = "open"]
      <3>1. parent' = [parent EXCEPT ![v] = Main] /\ parent[v] = Main
        BY <1>9 DEF Create, HarnessInv, WorkerPlaces
      <3>2. parent \in [Workers -> Threads]
        BY DEF HTyped, HTypeOK, TypeOK
      <3> QED
        BY <1>9, <3>1, <3>2 DEF Create
    <2>2. /\ rec'[v].epoch # 0 /\ ~ rec'[v].freed /\ ~ rec'[v].detached
          /\ pc'[v] \in {"failed", "created"}
      BY <1>2, <2>1 DEF NewRecord
    <2>3. \A w \in Workers \ {v} : rec'[w] = rec[w] /\ pc'[w] = pc[w] /\ fate'[w] = fate[w]
      BY <2>1
    <2>4. MainMoved
      BY <1>2, <1>3, <1>5, <2>1, <2>2, <2>3 DEF MainMoved
    <2>5. JoinKnown'
      BY <2>1, <2>2 DEF JoinKnown
    <2> QED
      BY <1>6, <2>4, <2>5, MainKeeps
  <1> QED
    BY <1>7, <1>8, <1>9

(* Main resumes, or begins to reap: its own state is in the VM again. *)
LEMMA MainResumes ==
  ASSUME HTyped, HarnessInv, Unblock(Main) \/ Created(Main) \/ Joined(Main),
         UNCHANGED <<phase, reaped, unkept>>
  PROVE  HarnessInv'
  <1> USE ThreadNames, MainFacts
  <1>1. pc[Main] \in {"call", "creating", "joining"} /\ AcquireAndRestore(Main)
    BY DEF Unblock, Created, Joined
  <1>2. /\ gil = None /\ gil' = Main /\ ctx' = Own(Main) /\ snap' = [snap EXCEPT !.released = FALSE]
    BY <1>1 DEF AcquireAndRestore
  <1>3. pc'[Main] = "guest" /\ pause' = pause /\ parent' = parent /\ fate' = fate
    <2>1. CASE Unblock(Main)
      BY <2>1 DEF Unblock
    <2>2. CASE Created(Main) \/ Joined(Main)
      <3>1. peer[Main] \in Workers
        BY <2>2 DEF Created, Joined, HarnessInv, JoinKnown
      <3> QED
        BY <2>2, <3>1 DEF Created, Joined
    <2> QED
      BY <2>1, <2>2
  <1>4. Holds(Main)' /\ ~ snap'.released
    BY <1>2, <1>3 DEF Holds
  <1>5. MainPlaces' /\ MainKept' /\ JoinKnown'
    BY <1>1, <1>2, <1>3, <1>4 DEF MainPlaces, MainKept, JoinKnown, HarnessInv
  <1>6. CASE Unblock(Main)
    <2>1. rec' = rec /\ pc' = [pc EXCEPT ![Main] = "guest"]
      BY <1>6 DEF Unblock
    <2>2. MainMoved
      BY <1>2, <1>3, <1>4, <2>1 DEF MainMoved
    <2> QED
      BY <1>5, <2>2, MainKeeps
  <1>7. CASE Created(Main)
    <2>1. PICK p \in Workers : p = peer[Main]
      BY <1>7 DEF Created, HarnessInv, JoinKnown
    <2>2. /\ rec' = IF pc[p] = "failed" THEN [rec EXCEPT ![p].freed = TRUE] ELSE rec
          /\ pc' = [pc EXCEPT ![Main] = "guest", ![p] = IF @ = "failed" THEN "absent" ELSE @]
      BY <1>7, <2>1 DEF Created
    <2>3. \A w \in Workers \ {p} : rec'[w] = rec[w] /\ pc'[w] = pc[w]
      BY <2>1, <2>2
    <2>4. /\ rec'[p].epoch = rec[p].epoch /\ rec'[p].detached = rec[p].detached
          /\ rec'[p].freed => rec[p].freed \/ pc'[p] = "absent"
          /\ pc'[p] = pc[p] \/ (pc[p] = "failed" /\ pc'[p] = "absent")
      BY <2>1, <2>2 DEF Record
    <2>5. MainMoved
      BY <1>2, <1>3, <1>4, <2>3, <2>4 DEF MainMoved
    <2> QED
      BY <1>5, <2>5, MainKeeps
  <1>8. CASE Joined(Main)
    <2>1. PICK p \in Workers : p = peer[Main]
      BY <1>8 DEF Joined, HarnessInv, JoinKnown
    <2>2. /\ rec' = [rec EXCEPT ![p].joined = TRUE, ![p].freed = TRUE]
          /\ pc' = [pc EXCEPT ![Main] = "guest"] /\ pc[p] = "ended"
      BY <1>8, <2>1 DEF Joined
    <2>3. \A w \in Workers \ {p} : rec'[w] = rec[w]
      BY <2>1, <2>2
    <2>4. rec'[p].epoch = rec[p].epoch /\ rec'[p].detached = rec[p].detached
      BY <2>1, <2>2 DEF Record
    <2>5. MainMoved
      BY <1>2, <1>3, <1>4, <2>2, <2>3, <2>4 DEF MainMoved
    <2> QED
      BY <1>5, <2>5, MainKeeps
  <1> QED
    BY <1>6, <1>7, <1>8

(* Main leaves its run, by returning or by unwinding to the harness: its state
   is kept in the snapshot unless no thread is left (cccc_pthread_main_unwinding). *)
LEMMA MainUnwinds ==
  ASSUME HTyped, HarnessInv, MainReturn \/ FailOnMain \/ Timeout,
         UNCHANGED <<phase, reaped, unkept>>
  PROVE  HarnessInv'
  <1> USE ThreadNames, MainFacts
  <1>1. /\ pc' = [pc EXCEPT ![Main] = "top"]
        /\ UNCHANGED <<ctx, pause, rec, parent, fate>>
    BY DEF MainReturn, FailOnMain, Timeout, Unwound
  <1>2. pc'[Main] = "top" /\ ~ Holds(Main)' /\ (\A w \in Workers : Active(w)' <=> Active(w))
    BY <1>1 DEF Holds, Active
  <1>3. phase # "idle" /\ ~ unkept /\ thread_epoch # 0
    BY DEF MainReturn, FailOnMain, Timeout, Guest, HarnessInv, MainPlaces
  <1>4. MainPlaces' /\ JoinKnown'
    BY <1>2, <1>3 DEF MainPlaces, JoinKnown
  <1>5. CASE MainReturn \/ FailOnMain
    <2>1. pc[Main] = "guest" /\ MainUnwinding /\ gil' = None
      BY <1>5 DEF MainReturn, FailOnMain, Guest
    <2>2. Holds(Main) /\ gil = Main /\ ctx = Own(Main)
      BY <2>1 DEF Holds
    <2>3. MainMoved
      BY <1>1, <1>2, <2>1, <2>2 DEF MainMoved
    <2>4. CASE TestThreads = {}
      <3>1. snap' = snap /\ \A w \in Workers : ~ Active(w)'
        BY <1>2, <2>1, <2>4, NoneLeft DEF MainUnwinding
      <3>2. MainKept'
        BY <1>1, <1>2, <2>2, <3>1 DEF MainKept
      <3> QED
        BY <1>4, <2>3, <3>2, MainKeeps
    <2>5. CASE TestThreads # {}
      <3>1. snap' = [released |-> TRUE, ctx |-> ctx]
        BY <1>3, <2>1, <2>5 DEF MainUnwinding
      <3>2. MainKept'
        BY <1>1, <1>2, <2>2, <3>1 DEF MainKept
      <3> QED
        BY <1>4, <2>3, <3>2, MainKeeps
    <2> QED
      BY <2>4, <2>5
  <1>6. CASE Timeout
    <2>1. pc[Main] \in {"call", "creating", "joining"} /\ UNCHANGED <<gil, snap>>
      BY <1>6 DEF Timeout
    <2>2. ~ Holds(Main) /\ snap.released
      BY <2>1 DEF Holds
    <2>3. MainMoved
      BY <1>1, <1>2, <2>1, <2>2 DEF MainMoved
    <2>4. MainKept'
      BY <1>1, <1>2, <2>1, <2>2 DEF MainKept
    <2> QED
      BY <1>4, <2>3, <2>4, MainKeeps
  <1> QED
    BY <1>5, <1>6

(* Main takes the GIL for the next run or for the reap.  Whatever workers left
   in the VM, main's own state replaces it. *)
LEMMA MainReturnsToVm ==
  ASSUME HTyped, HarnessInv, "survivors" \notin Features, HarnessRun \/ ReapBegin \/ NapOver
  PROVE  HarnessInv'
  <1> USE ThreadNames, MainFacts
  <1>1. /\ gil = None /\ gil' = Main /\ snap' = [snap EXCEPT !.released = FALSE]
        /\ UNCHANGED <<pause, parent, fate, peer, phase, reaped, unkept>>
    BY DEF HarnessRun, MainRun, ReapBegin, NapOver, AcquireAndRestore, harness
  <1>2. PICK x \in {"guest", "reap"} :
          pc' = [pc EXCEPT ![Main] = x] /\ (x = "reap" => pc[Main] \in {"abandoning", "nap"})
    BY DEF HarnessRun, MainRun, ReapBegin, NapOver
  <1>3. pc'[Main] = x /\ Holds(Main)' /\ ~ snap'.released /\ ~ Holds(Main)
    BY <1>1, <1>2 DEF Holds
  <1>4. phase # "idle" /\ ~ unkept
    BY DEF HarnessRun, ReapBegin, NapOver, HarnessInv, MainPlaces
  <1>5. MainPlaces' /\ JoinKnown'
    BY <1>1, <1>2, <1>3, <1>4 DEF MainPlaces, JoinKnown, HarnessInv
  <1>6. ctx' = Own(Main)
    <2>1. CASE NapOver
      BY <2>1 DEF NapOver, AcquireAndRestore
    <2>2. CASE HarnessRun \/ ReapBegin
      <3>1. pc[Main] \in {"top", "abandoning"}
        BY <2>2 DEF HarnessRun, MainRun, ReapBegin
      <3>2. MainReclaimed = Own(Main)
        BY <1>4, <3>1 DEF MainReclaimed, HarnessInv, MainKept
      <3>3. [Own(Main) EXCEPT !.tls = Main] = Own(Main)
        BY DEF Own
      <3> QED
        BY <2>2, <3>2, <3>3 DEF HarnessRun, MainRun, ReapBegin
    <2> QED
      BY <2>1, <2>2
  <1>7. MainKept'
    BY <1>3, <1>6 DEF MainKept
  <1>8. \A w \in Workers : /\ rec'[w].epoch = rec[w].epoch /\ rec'[w].freed = rec[w].freed
                           /\ rec'[w].detached = rec[w].detached
    <2>1. rec' = rec \/ rec' = Flagged
      BY DEF HarnessRun, MainRun, ReapBegin, NapOver
    <2> QED
      BY <2>1, FlaggedFields DEF HTyped, HTypeOK
  <1>9. MainMoved
    BY <1>1, <1>2, <1>3, <1>8 DEF MainMoved
  <1> QED
    BY <1>5, <1>7, <1>9, MainKeeps

(* The rest of a reap: stop waiting, join what has exited, give up the GIL. *)
LEMMA ReapSteps ==
  ASSUME HTyped, HarnessInv,
         Abandon \/ ReapEnough \/ (\E w \in Workers : HostJoin(w)) \/ ReapDone
  PROVE  HarnessInv'
  <1> USE ThreadNames, MainFacts
  <1>1. CASE Abandon
    <2>1. /\ pc[Main] = "top" /\ phase # "idle" /\ ~ reaped /\ reaped'
          /\ UNCHANGED <<gil, ctx, peer, pause, rec, parent, fate, snap, phase, unkept>>
      BY <1>1 DEF Abandon
    <2>2. ~ unkept
      BY <2>1 DEF HarnessInv, MainPlaces
    <2>3. PICK x \in {"top", "abandoning"} : pc' = [pc EXCEPT ![Main] = x]
      BY <1>1 DEF Abandon
    <2>4. pc'[Main] = x /\ ~ Holds(Main)' /\ ~ Holds(Main)
          /\ (\A w \in Workers : Active(w)' <=> Active(w))
      BY <2>1, <2>3 DEF Holds, Active
    <2>5. MainPlaces' /\ JoinKnown' /\ MainKept'
      BY <2>1, <2>2, <2>4 DEF MainPlaces, JoinKnown, MainKept, HarnessInv
    <2>6. MainMoved
      BY <2>1, <2>3, <2>4 DEF MainMoved
    <2> QED
      BY <2>5, <2>6, MainKeeps
  <1>2. CASE ReapEnough
    <2>1. /\ pc[Main] = "reap" /\ pc' = [pc EXCEPT ![Main] = "hostjoin"]
          /\ UNCHANGED <<gil, ctx, peer, pause, rec, parent, fate, snap, phase, reaped, unkept>>
      BY <1>2 DEF ReapEnough, harness
    <2>2. pc'[Main] = "hostjoin" /\ Holds(Main)' /\ Holds(Main)
      BY <2>1 DEF Holds
    <2>3. MainPlaces' /\ JoinKnown' /\ MainKept'
      BY <2>1, <2>2 DEF MainPlaces, JoinKnown, MainKept, HarnessInv
    <2>4. MainMoved
      BY <2>1, <2>2 DEF MainMoved
    <2> QED
      BY <2>3, <2>4, MainKeeps
  <1>3. ASSUME NEW v \in Workers, HostJoin(v) PROVE HarnessInv'
    <2>1. /\ pc[Main] = "hostjoin" /\ pc[v] = "ended"
          /\ rec' = [rec EXCEPT ![v].joined = TRUE, ![v].freed = TRUE]
          /\ UNCHANGED <<gil, ctx, pc, peer, pause, parent, fate, snap, phase, reaped, unkept>>
      BY <1>3 DEF HostJoin, harness
    <2>2. \A w \in Workers \ {v} : rec'[w] = rec[w]
      BY <2>1
    <2>3. rec'[v].epoch = rec[v].epoch /\ rec'[v].detached = rec[v].detached
      BY <2>1 DEF Record
    <2>4. Holds(Main)' <=> Holds(Main)
      BY <2>1 DEF Holds
    <2>5. MainPlaces' /\ JoinKnown' /\ MainKept'
      BY <2>1, <2>4 DEF MainPlaces, JoinKnown, MainKept, HarnessInv
    <2>6. MainMoved
      BY <2>1, <2>2, <2>3, <2>4 DEF MainMoved
    <2> QED
      BY <2>5, <2>6, MainKeeps
  <1>4. CASE ReapDone
    <2>1. /\ pc[Main] = "hostjoin" /\ gil' = None /\ pc' = [pc EXCEPT ![Main] = "top"]
          /\ unkept' = (unkept \/ TestThreads # {})
          /\ UNCHANGED <<ctx, peer, pause, rec, parent, fate, snap, phase, reaped>>
      BY <1>4 DEF ReapDone
    <2>2. pc'[Main] = "top" /\ ~ Holds(Main)' /\ Holds(Main) /\ gil = Main /\ ctx = Own(Main)
          /\ (\A w \in Workers : Active(w)' <=> Active(w))
      BY <2>1 DEF Holds, Active
    <2>3. reaped
      BY <2>1 DEF HarnessInv, MainPlaces
    <2>4. MainPlaces' /\ JoinKnown'
      BY <2>1, <2>2, <2>3 DEF MainPlaces, JoinKnown
    <2>5. ~ unkept' => \A w \in Workers : ~ Active(w)'
      BY <2>1, <2>2, NoneLeft
    <2>6. MainKept'
      BY <2>1, <2>2, <2>5 DEF MainKept
    <2>7. MainMoved
      BY <2>1, <2>2 DEF MainMoved
    <2> QED
      BY <2>4, <2>6, <2>7, MainKeeps
  <1> QED
    BY <1>1, <1>2, <1>3, <1>4

(* Between tests and phases, and in pthread_once, main's state is untouched. *)
LEMMA MainStays ==
  ASSUME HTyped, HarnessInv,
         UNCHANGED <<gil, ctx, pc, peer, pause, rec, parent, fate, snap, unkept>>,
         MainPlaces'
  PROVE  HarnessInv'
  <1>1. /\ \A t \in Threads : (Holds(t)' <=> Holds(t)) /\ (Guest(t)' <=> Guest(t))
        /\ \A w \in Workers : Active(w)' <=> Active(w)
    BY DEF Holds, Guest, Active
  <1>2. WorkerPlaces' /\ JoinKnown' /\ Detachments'
    BY DEF HarnessInv, WorkerPlaces, JoinKnown, Detachments
  <1>3. MainKept' /\ WorkersKept' /\ \A t \in Threads : Holds(t)' <=> gil' = t
    BY <1>1, ThreadNames DEF HarnessInv, MainKept, WorkersKept
  <1> QED
    BY <1>2, <1>3 DEF HarnessInv

LEMMA HarnessInvStep ==
  ASSUME HTyped, HarnessInv, [HNext]_hvars,
         "survivors" \notin Features, "detach" \notin Features, "nested" \notin Features
  PROVE  HarnessInv'
  <1> USE ThreadNames
  <1>1. CASE GuestStep
    <2>1. UNCHANGED <<phase, reaped, unkept>>
      BY <1>1 DEF GuestStep, harness
    <2>2. ASSUME NEW w \in Workers, Step(w) \/ WorkerStep(w) PROVE HarnessInv'
      BY <2>1, <2>2, WorkerSteps, WorkerKeeps
    <2>3. CASE Step(Main)
      <3>1. CASE Block(Main) \/ (\E w \in Workers : Join(Main, w))
                 \/ (\E w \in Workers, ok \in HostCreate : Create(Main, w, ok))
        BY <2>1, <3>1, MainParks
      <3>2. CASE Unblock(Main) \/ Created(Main) \/ Joined(Main)
        BY <2>1, <3>2, MainResumes
      <3>3. ASSUME NEW w \in Workers, Detach(Main, w) PROVE FALSE
        BY <3>3 DEF Detach
      <3>4. CASE OnceCall(Main) \/ OnceReturn(Main)
        <4>1. UNCHANGED <<gil, ctx, pc, peer, pause, rec, parent, fate, snap>>
          BY <3>4 DEF OnceCall, OnceReturn
        <4> QED
          BY <2>1, <4>1, MainStays DEF MainPlaces, HarnessInv
      <3> QED
        BY <2>3, <3>1, <3>2, <3>3, <3>4 DEF Step
    <2>4. CASE MainReturn
      BY <2>1, <2>4, MainUnwinds
    <2> QED
      BY <1>1, <2>2, <2>3, <2>4 DEF GuestStep, Threads
  <1>2. CASE StartTest \/ EndBody \/ EndTest
    <2>1. UNCHANGED <<gil, ctx, pc, peer, pause, rec, parent, fate, snap, unkept>>
      BY <1>2 DEF StartTest, EndBody, EndTest
    <2>2. MainPlaces
      BY DEF HarnessInv
    <2>3. MainPlaces'
      <3>1. CASE StartTest
        <4>1. ~ unkept /\ pc[Main] = "top"
          BY <3>1 DEF StartTest
        <4> QED
          BY <2>1, <4>1 DEF MainPlaces
      <3>2. CASE EndBody \/ EndTest
        <4>1. pc[Main] = "top" /\ (phase' = "idle" \/ (phase # "idle" /\ UNCHANGED reaped))
          BY <3>2 DEF EndBody, EndTest, Settled
        <4> QED
          BY <2>1, <2>2, <4>1 DEF MainPlaces
      <3> QED
        BY <1>2, <3>1, <3>2
    <2> QED
      BY <2>1, <2>3, MainStays
  <1>3. CASE HarnessRun \/ ReapBegin \/ NapOver
    BY <1>3, MainReturnsToVm
  <1>4. CASE Nap
    <2>1. UNCHANGED <<phase, reaped, unkept>>
      BY <1>4 DEF Nap
    <2> QED
      BY <1>4, <2>1, MainParks
  <1>5. CASE Abandon \/ ReapEnough \/ (\E w \in Workers : HostJoin(w)) \/ ReapDone
    BY <1>5, ReapSteps
  <1>6. CASE FailOnMain \/ Timeout
    <2>1. UNCHANGED <<phase, reaped, unkept>>
      BY <1>6 DEF FailOnMain, Timeout, Unwound
    <2> QED
      BY <1>6, <2>1, MainUnwinds
  <1>7. ASSUME NEW w \in Workers, FailOnWorker(w) \/ SafePoint(w) PROVE HarnessInv'
    <2>1. UNCHANGED <<phase, reaped, unkept>> /\ (WorkerStep(w) \/ SafePoint(w))
      BY <1>7 DEF FailOnWorker, SafePoint, WorkerStep, harness
    <2> QED
      BY <2>1, WorkerSteps, WorkerKeeps
  <1>8. CASE UNCHANGED hvars
    <2>1. UNCHANGED <<gil, ctx, pc, peer, pause, rec, parent, fate, snap, unkept, phase, reaped>>
      BY <1>8 DEF hvars, vars, harness
    <2> QED
      BY <2>1, MainStays DEF MainPlaces, HarnessInv
  <1> QED
    BY <1>1, <1>2, <1>3, <1>4, <1>5, <1>6, <1>7, <1>8 DEF HNext, HarnessStep

LEMMA HarnessInvInit == HInit => HarnessInv
  <1> SUFFICES ASSUME HInit PROVE HarnessInv
    OBVIOUS
  <1>1. /\ pc[Main] = "top" /\ \A w \in Workers : pc[w] = "absent"
        /\ gil = None /\ ctx = Own(Main) /\ snap.released = FALSE /\ unkept = FALSE
        /\ \A w \in Workers : parent[w] = Main /\ rec[w] = NewRecord(0)
    BY ThreadNames DEF HInit
  <1>2. \A w \in Workers : ~ rec[w].freed /\ ~ rec[w].detached
    BY <1>1 DEF NewRecord
  <1>3. /\ \A t \in Threads : ~ Holds(t) /\ ~ Guest(t) /\ gil # t
        /\ \A w \in Workers : ~ Active(w)
    BY <1>1, ThreadNames DEF Holds, Guest, Active, Threads
  <1>4. MainPlaces /\ WorkerPlaces
    BY <1>1, <1>2 DEF MainPlaces, WorkerPlaces
  <1>5. MainKept /\ WorkersKept
    BY <1>1, <1>3, ThreadNames DEF MainKept, WorkersKept
  <1>6. JoinKnown /\ Detachments
    BY <1>1, <1>2 DEF JoinKnown, Detachments
  <1> QED
    BY <1>3, <1>4, <1>5, <1>6 DEF HarnessInv

\* What the harness rests on, through failures on main and on workers, alarms
\* in any blocking call, reaps and their ends: main's state is in the VM, in its
\* GilPause or in vm->main_snapshot.  Programs let no thread of a passing test
\* outlive a reap ("survivors"), do not detach a thread that may have exited
\* ("detach"), and create threads on main only ("nested").
THEOREM HarnessInvariant ==
  ASSUME "survivors" \notin Features, "detach" \notin Features, "nested" \notin Features
  PROVE  HSpec => [](HTyped /\ HarnessInv)
  <1>1. HInit => HTyped /\ HarnessInv
    BY HTypedInit, HarnessInvInit
  <1>2. HTyped /\ HarnessInv /\ [HNext]_hvars => (HTyped /\ HarnessInv)'
    BY HTypedStep, HarnessInvStep
  <1> QED
    BY <1>1, <1>2, PTL DEF HSpec

\* In a test run too, each thread runs guest code on its own registers, stack
\* and TLS segment: the unwind of main from any blocking call and the reap of
\* what a test left behind do not let main run on another thread's state.
THEOREM HarnessContextKept ==
  ASSUME "survivors" \notin Features, "detach" \notin Features, "nested" \notin Features
  PROVE  HSpec => []OwnContext
  <1>1. HTyped /\ HarnessInv => OwnContext
    <2> SUFFICES ASSUME HarnessInv, NEW t \in Threads, Guest(t) PROVE gil = t /\ ctx = Own(t)
      BY DEF OwnContext
    <2>1. Holds(t)
      BY DEF Guest, Holds
    <2> QED
      BY <2>1 DEF HarnessInv, MainKept, WorkersKept, Threads
  <1> QED
    BY <1>1, HarnessInvariant, PTL
-----------------------------------------------------------------------------
(* Records are freed once and late enough. *)
JoinedAlive == pc[Main] = "joining" => ~ rec[peer[Main]].freed

LEMMA JoinedStep ==
  ASSUME HTyped, HarnessInv, JoinedAlive, [HNext]_hvars,
         "detach" \notin Features, "nested" \notin Features, "late_joins" \notin Features
  PROVE  JoinedAlive'
  <1> SUFFICES ASSUME pc'[Main] = "joining" PROVE ~ rec'[peer'[Main]].freed
    BY DEF JoinedAlive
  <1> USE ThreadNames, MainFacts
  <1>1. ASSUME NEW v \in Workers, Join(Main, v) PROVE ~ rec'[peer'[Main]].freed
    <2>1. ~ rec[v].freed /\ rec' = rec /\ peer' = [peer EXCEPT ![Main] = v]
      BY <1>1 DEF Join, Knows
    <2> QED
      BY <2>1
  <1>2. ASSUME NEW w \in Workers, WorkerMoved(w) PROVE ~ rec'[peer'[Main]].freed
    <2>1. pc[Main] = "joining" /\ peer' = peer
      BY <1>2 DEF WorkerMoved
    <2>2. PICK p \in Workers : p = peer[Main] /\ fate[p] = "join" /\ ~ rec[p].freed
      BY <2>1 DEF HarnessInv, JoinKnown, JoinedAlive
    <2>3. ~ rec[p].detached
      BY <2>2 DEF HarnessInv, Detachments
    <2> QED
      BY <1>2, <2>1, <2>2, <2>3 DEF WorkerMoved
  <1>3. ASSUME UNCHANGED <<pc, peer, rec>> PROVE ~ rec'[peer'[Main]].freed
    BY <1>3 DEF JoinedAlive
  <1>4. CASE GuestStep
    <2>1. UNCHANGED <<phase, reaped, unkept>>
      BY <1>4 DEF GuestStep, harness
    <2>2. ASSUME NEW w \in Workers, Step(w) \/ WorkerStep(w) PROVE WorkerMoved(w)
      BY <2>1, <2>2, WorkerSteps
    <2>3. CASE Step(Main)
      <3>1. ASSUME Block(Main) \/ Unblock(Main) \/ Created(Main) \/ Joined(Main)
            PROVE  FALSE
        <4>1. CASE Block(Main) \/ Unblock(Main) \/ Joined(Main)
          BY <4>1 DEF Block, SaveAndRelease, Unblock, Joined
        <4>2. CASE Created(Main)
          <5>1. peer[Main] \in Workers
            BY <4>2 DEF Created, HarnessInv, JoinKnown
          <5> QED
            BY <4>2, <5>1 DEF Created
        <4> QED
          BY <3>1, <4>1, <4>2
      <3>2. ASSUME NEW w \in Workers, NEW ok \in HostCreate, Create(Main, w, ok) PROVE FALSE
        BY <3>2 DEF Create
      <3>3. ASSUME NEW w \in Workers, Detach(Main, w) PROVE FALSE
        BY <3>3 DEF Detach
      <3>4. CASE OnceCall(Main) \/ OnceReturn(Main)
        BY <1>3, <3>4 DEF OnceCall, OnceReturn
      <3> QED
        BY <1>1, <2>3, <3>1, <3>2, <3>3, <3>4 DEF Step
    <2>4. CASE MainReturn
      BY <2>4 DEF MainReturn
    <2> QED
      BY <1>2, <1>4, <2>2, <2>3, <2>4 DEF GuestStep, Threads
  <1>5. CASE StartTest \/ EndBody \/ EndTest \/ HarnessRun \/ ReapBegin \/ NapOver \/ Nap \/ Abandon
             \/ ReapEnough \/ (\E w \in Workers : HostJoin(w)) \/ ReapDone \/ FailOnMain \/ Timeout
    BY <1>5 DEF StartTest, EndBody, EndTest, Settled, HarnessRun, MainRun, ReapBegin, NapOver, Nap,
                SaveAndRelease, Abandon, ReapEnough, HostJoin, ReapDone, FailOnMain, Timeout, Unwound
  <1>6. ASSUME NEW w \in Workers, FailOnWorker(w) \/ SafePoint(w) PROVE WorkerMoved(w)
    <2>1. UNCHANGED <<phase, reaped, unkept>> /\ (WorkerStep(w) \/ SafePoint(w))
      BY <1>6 DEF FailOnWorker, SafePoint, WorkerStep, harness
    <2> QED
      BY <2>1, WorkerSteps
  <1>7. CASE UNCHANGED hvars
    BY <1>3, <1>7 DEF hvars, vars
  <1> QED
    BY <1>2, <1>4, <1>5, <1>6, <1>7 DEF HNext, HarnessStep

\* In a test run a ThreadRecord is freed, by a join, by the thread itself or by
\* the reaper (cccc_pthread_reap_abandoned), only when its host thread has ended
\* and nobody is about to join it, also when the alarm cut a join short.
THEOREM HarnessRecordsKept ==
  ASSUME "survivors" \notin Features, "detach" \notin Features, "nested" \notin Features,
         "late_joins" \notin Features
  PROVE  HSpec => []NoUseAfterFree
  <1>1. HInit => JoinedAlive
    BY ThreadNames DEF HInit, JoinedAlive
  <1>2. HTyped /\ HarnessInv /\ JoinedAlive /\ [HNext]_hvars => JoinedAlive'
    BY JoinedStep
  <1>3. HarnessInv /\ JoinedAlive => NoUseAfterFree
    BY DEF HarnessInv, WorkerPlaces, JoinedAlive, NoUseAfterFree, Threads
  <1> QED
    BY <1>1, <1>2, <1>3, HarnessInvariant, PTL DEF HSpec
=============================================================================
