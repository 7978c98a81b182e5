----------------------------- MODULE TestHarness -----------------------------
(***************************************************************************)
(* The --testing harness over guest threads (src/testing.c, and            *)
(* cccc_pthread_reap_abandoned in src/stdlib/pthread.c).                    *)
(*                                                                          *)
(* A test is a few top-level runs on main: setup hooks, the test function, *)
(* teardown hooks.  A failing assertion or the alarm unwinds main with a    *)
(* host longjmp from wherever it is; the harness then stops the threads the *)
(* test left behind, without being able to interrupt a blocking call, and   *)
(* goes on with the next test.                                              *)
(***************************************************************************)
EXTENDS GuestThreads

CONSTANTS
  MaxTests, \* bound: tests of the program
  Grace     \* naps of the reaper before it gives up on blocked threads (200)

ASSUME HarnessAssumption == MaxTests \in Nat /\ Grace \in Nat

VARIABLES
  test,     \* number of tests started
  phase,    \* "idle", "body" (setup hooks, test function), "teardown"
  outcome,  \* "ok", "failed" (run.failed) or "timeout" (run.timed_out)
  reaped,   \* threads_abandoned
  naps,     \* waited, in the reaper
  verdicts, \* tests that were found to fail
  unkept    \* the reaper gave up the GIL while threads were alive

harness == <<test, phase, outcome, reaped, naps, verdicts, unkept>>
hvars == <<vars, harness>>

-----------------------------------------------------------------------------
HInit ==
  /\ gil = None
  /\ ctx = Own(Main)
  /\ pc = [t \in Threads |-> IF t = Main THEN "top" ELSE "absent"]
  /\ peer = [t \in Threads |-> None]
  /\ pause = [t \in Threads |-> Own(t)]
  /\ saved = [t \in Threads |-> Own(Main)]
  /\ rec = [w \in Workers |-> NewRecord(0)]
  /\ parent = [w \in Workers |-> Main]
  /\ fate = [w \in Workers |-> "open"]
  /\ once = [state |-> 0, by |-> None, ran |-> 0, done |-> FALSE]
  /\ passed = {}
  /\ calls = [t \in Threads |-> 0]
  /\ runs = 0
  /\ thread_epoch = 0
  /\ abandon_epoch = 0
  /\ snap = [released |-> FALSE, ctx |-> Own(Main)]
  /\ test = 0 /\ phase = "idle" /\ outcome = "ok" /\ reaped = FALSE
  /\ naps = 0 /\ verdicts = {} /\ unkept = FALSE

(* The test loop: thread_epoch names the test from here to its end.  What a  *)
(* test starts with, run.failed = 0 and so on, is set at the end of the last. *)
StartTest ==
  /\ pc[Main] = "top" /\ phase = "idle" /\ test < MaxTests
  /\ unkept => "survivors" \in Features
  /\ test' = test + 1
  /\ thread_epoch' = test + 1
  /\ phase' = "body"
  /\ UNCHANGED <<gil, ctx, pc, peer, pause, saved, rec, parent, fate, once,
                 passed, calls, runs, abandon_epoch, snap, outcome, reaped, naps,
                 verdicts, unkept>>

(* Setup hooks, the test function, teardown hooks. *)
HarnessRun ==
  /\ phase # "idle"
  /\ outcome \in IF phase = "body" THEN {"ok"} ELSE {"ok", "failed"}
  /\ unkept => "survivors" \in Features
  /\ MainRun
  /\ UNCHANGED harness

(* Main unwinds to the harness: cccc_unwind_point_restore keeps main's state *)
(* if main held the GIL, and releases it.                                    *)
Unwound ==
  /\ pc' = [pc EXCEPT ![Main] = "top"]
  /\ peer' = [peer EXCEPT ![Main] = None]
  /\ LeaveOnce(Main)
  /\ verdicts' = verdicts \cup {thread_epoch}
  /\ UNCHANGED <<ctx, pause, saved, rec, parent, fate, passed, calls, runs, epochs>>
  /\ UNCHANGED <<test, phase, reaped, naps, unkept>>

(* An assertion fails on main, or the alarm finds main running guest code. *)
FailOnMain ==
  /\ Guest(Main) /\ phase # "idle"
  /\ outcome' \in IF phase = "body" THEN {"failed", "timeout"} ELSE {"failed"}
  /\ MainUnwinding
  /\ gil' = None
  /\ Unwound

(* The alarm finds main in a blocking call, whose result is never used. *)
Timeout ==
  /\ pc[Main] \in {"call", "creating", "joining"} /\ phase = "body"
  /\ outcome' = "timeout"
  /\ UNCHANGED <<gil, snap>>
  /\ Unwound

(* An assertion fails on a worker, in its body or in a TSS destructor: it     *)
(* ends as if by pthread_exit.                                               *)
FailOnWorker(w) ==
  /\ phase # "idle" /\ outcome = "ok"
  /\ outcome' = "failed"
  /\ verdicts' = verdicts \cup {thread_epoch}
  /\ ThreadReturn(w) \/ (Guest(w) /\ Finish(w))
  /\ UNCHANGED <<test, phase, reaped, naps, unkept>>

(* The dispatch loop's safe point ends a thread of an abandoned test. *)
SafePoint(w) ==
  /\ Guest(w) /\ MustEnd(w)
  /\ rec' = [rec EXCEPT ![w].exited = TRUE, ![w].abandoned = TRUE]
  /\ pc' = [pc EXCEPT ![w] = "leaving"]
  /\ CutOnce(w)
  /\ UNCHANGED <<gil, ctx, peer, pause, saved, parent, fate, calls, snap,
                 passed, runs, epochs>>
  /\ UNCHANGED harness

-----------------------------------------------------------------------------
\* A thread of the test that is over without having been reaped.
Leftovers(epoch) == {w \in TestThreads : rec[w].epoch = epoch}

(* abandon_test_threads, up to waiting for the GIL.  A worker that spins     *)
(* holds it, so the request is made first.                                   *)
Abandon ==
  /\ pc[Main] = "top" /\ phase # "idle" /\ outcome # "ok" /\ ~ reaped
  /\ reaped' = TRUE
  /\ IF TestThreads = {}
     THEN UNCHANGED <<abandon_epoch, pc>>
     ELSE /\ abandon_epoch' = thread_epoch
          /\ pc' = [pc EXCEPT ![Main] = "abandoning"]
  /\ UNCHANGED <<gil, ctx, peer, pause, saved, rec, parent, fate, once, passed,
                 calls, runs, thread_epoch, snap, test, phase, outcome, naps, verdicts, unkept>>

\* cccc_pthread_reap_abandoned flags the threads of the test.
FlaggedAll ==  \* mutant: the epoch of a thread is not looked at
  [w \in Workers |-> IF w \in TestThreads
                     THEN [rec[w] EXCEPT !.abandoned = TRUE] ELSE rec[w]]

Flagged ==
  [w \in Workers |-> IF w \in Leftovers(abandon_epoch)
                     THEN [rec[w] EXCEPT !.abandoned = TRUE] ELSE rec[w]]

ReapBegin ==
  /\ pc[Main] = "abandoning" /\ gil = None
  /\ gil' = Main
  /\ ctx' = MainReclaimed
  /\ snap' = [snap EXCEPT !.released = FALSE]
  /\ rec' = Flagged
  /\ pc' = [pc EXCEPT ![Main] = "reap"]
  /\ UNCHANGED <<peer, pause, saved, parent, fate, calls>>
  /\ UNCHANGED world /\ UNCHANGED harness

Blocked == {w \in Leftovers(abandon_epoch) : ~ rec[w].exited}

\* The grace period is over; it is never too short for a program that does not
\* wait for what nobody will do.
GivesUp == naps = Grace /\ "waits" \in Features

(* The reaper sleeps without the GIL while threads of the test are blocked. *)
NapUncounted ==  \* mutant: the reaper never stops waiting
  /\ pc[Main] = "reap" /\ Blocked # {} /\ ~ GivesUp
  /\ SaveAndRelease(Main, "nap")
  /\ naps' = naps + 1
  /\ UNCHANGED <<peer, saved, rec, parent, fate, calls>> /\ UNCHANGED world
  /\ UNCHANGED <<test, phase, outcome, reaped, verdicts, unkept>>

Nap ==
  /\ pc[Main] = "reap" /\ Blocked # {} /\ ~ GivesUp
  /\ SaveAndRelease(Main, "nap")
  /\ naps' = IF naps < Grace THEN naps + 1 ELSE naps
  /\ UNCHANGED <<peer, saved, rec, parent, fate, calls>> /\ UNCHANGED world
  /\ UNCHANGED <<test, phase, outcome, reaped, verdicts, unkept>>

NapOver ==
  /\ pc[Main] = "nap"
  /\ AcquireAndRestore(Main)
  /\ rec' = Flagged
  /\ pc' = [pc EXCEPT ![Main] = "reap"]
  /\ UNCHANGED <<peer, pause, saved, parent, fate, calls>>
  /\ UNCHANGED world /\ UNCHANGED harness

ReapEnough ==
  /\ pc[Main] = "reap" /\ (Blocked = {} \/ GivesUp)
  /\ pc' = [pc EXCEPT ![Main] = "hostjoin"]
  /\ UNCHANGED <<gil, ctx, peer, pause, saved, rec, parent, fate, calls, snap>>
  /\ UNCHANGED world /\ UNCHANGED harness

Joinable == {w \in Leftovers(abandon_epoch) :
               rec[w].exited /\ ~ rec[w].detached /\ ~ rec[w].joined}

(* Then it joins, with the GIL held, each thread that has exited.  The code   *)
(* walks the list and keeps the next record across the wait for a host       *)
(* thread, while a detached thread may be freeing that record (HostExit);    *)
(* the model looks at the threads afresh.                                    *)
HostJoinEarly(w) ==  \* mutant: frees the record without the host join
  /\ pc[Main] = "hostjoin" /\ w \in Joinable
  /\ rec' = [rec EXCEPT ![w].joined = TRUE, ![w].freed = TRUE]
  /\ UNCHANGED <<gil, ctx, pc, peer, pause, saved, parent, fate, calls, snap>>
  /\ UNCHANGED world /\ UNCHANGED harness

HostJoin(w) ==
  /\ pc[Main] = "hostjoin" /\ w \in Joinable
  /\ pc[w] = "ended"
  /\ rec' = [rec EXCEPT ![w].joined = TRUE, ![w].freed = TRUE]
  /\ UNCHANGED <<gil, ctx, pc, peer, pause, saved, parent, fate, calls, snap>>
  /\ UNCHANGED world /\ UNCHANGED harness

ReapDone ==
  /\ pc[Main] = "hostjoin" /\ Joinable = {}
  /\ abandon_epoch' = 0
  /\ gil' = None
  /\ pc' = [pc EXCEPT ![Main] = "top"]
  /\ UNCHANGED <<ctx, peer, pause, saved, rec, parent, fate, once, passed,
                 calls, runs, thread_epoch, snap>>
  /\ unkept' = (unkept \/ TestThreads # {})
  /\ naps' = 0
  /\ UNCHANGED <<test, phase, outcome, reaped, verdicts>>

-----------------------------------------------------------------------------
\* A verdict is due: main is back in the harness and a failed test is reaped.
Settled == pc[Main] = "top" /\ (outcome # "ok" => reaped)

(* The test function is done; teardown hooks run next. *)
EndBody ==
  /\ phase = "body" /\ Settled
  /\ phase' = "teardown"
  /\ runs' = 0
  /\ UNCHANGED <<gil, ctx, pc, peer, pause, saved, rec, parent, fate, once,
                 passed, calls, epochs, snap, test, outcome, reaped, naps, verdicts, unkept>>

EndTest ==
  /\ phase = "teardown" /\ Settled
  /\ phase' = "idle"
  /\ thread_epoch' = 0
  /\ outcome' = "ok" /\ reaped' = FALSE /\ runs' = 0
  /\ UNCHANGED <<gil, ctx, pc, peer, pause, saved, rec, parent, fate, once,
                 passed, calls, abandon_epoch, snap, test, naps, verdicts, unkept>>

-----------------------------------------------------------------------------
HarnessStep ==
  \/ StartTest \/ HarnessRun \/ Abandon \/ ReapBegin \/ Nap \/ NapOver
  \/ ReapEnough \/ (\E w \in Workers : HostJoin(w)) \/ ReapDone
  \/ EndBody \/ EndTest

GuestStep ==
  /\ UNCHANGED harness
  /\ (\E t \in Threads : Step(t)) \/ (\E w \in Workers : WorkerStep(w)) \/ MainReturn

HNext ==
  \/ HarnessStep \/ GuestStep
  \/ FailOnMain \/ Timeout \/ \E w \in Workers : FailOnWorker(w) \/ SafePoint(w)

HSpec == HInit /\ [][HNext]_hvars

\* What the host does for a worker: take the GIL at its start and when a
\* blocking call returns, end it at the safe point, end the host thread.
HostStep(w) ==
  /\ \/ Begin(w) \/ Unblock(w) \/ SafePoint(w) \/ HostExit(w)
     \/ (pc[w] = "leaving" /\ Finish(w))
  /\ UNCHANGED harness

\* Guest code of the test being abandoned may spin for ever; a thread that an
\* earlier, passing test left behind does end.
OtherTestStep(w) ==
  /\ rec[w].epoch # abandon_epoch
  /\ ThreadReturn(w) \/ Finish(w)
  /\ UNCHANGED harness

HFairSpec ==
  /\ HSpec
  /\ WF_hvars(HarnessStep)
  /\ \A w \in Workers : SF_hvars(HostStep(w)) /\ WF_hvars(OtherTestStep(w))
-----------------------------------------------------------------------------
HTypeOK ==
  /\ TypeOK
  /\ test \in 0..MaxTests /\ phase \in {"idle", "body", "teardown"}
  /\ outcome \in {"ok", "failed", "timeout"} /\ reaped \in BOOLEAN
  /\ naps \in 0..Grace /\ verdicts \subseteq 1..MaxTests /\ unkept \in BOOLEAN

\* Only threads of a test that failed or timed out are ever abandoned: a
\* thread of a passing test is left alone by every later failure.
EpochIsolation ==
  \A w \in Workers : rec[w].abandoned => rec[w].epoch \in verdicts

\* The harness gets through a failed test whatever its threads do, in
\* particular when one of them spins in guest code and so holds the GIL the
\* reaper waits for.
ReapEnds == pc[Main] = "abandoning" ~> pc[Main] = "top"

\* A thread the harness has abandoned runs no more guest code ("They never run
\* again, so they cannot write into later tests' state",
\* docs/testing-asserts.md:127).
AbandonedNeverRun == \A w \in Workers : rec[w].abandoned => ~ Guest(w)
-----------------------------------------------------------------------------
(* What the harness keeps true across unwinds and reaps; see                 *)
(* TestHarnessProofs.                                                        *)

\* thread_epoch names the running test; a test that was found to fail, and the
\* one whose threads are being stopped, have a verdict.
Verdicts ==
  /\ thread_epoch = IF phase = "idle" THEN 0 ELSE test
  /\ phase # "idle" => test # 0
  /\ phase = "idle" => outcome = "ok"
  /\ outcome # "ok" => thread_epoch \in verdicts
  /\ abandon_epoch # 0 => abandon_epoch \in verdicts

\* Main is in the harness between the runs of a test, and reaps at most once.
\* What the reaper could not stop ends the runs.
MainPlaces ==
  /\ pc[Main] \in {"top", "guest", "call", "creating", "joining",
                   "abandoning", "reap", "nap", "hostjoin"}
  /\ pc[Main] # "top" => phase # "idle" /\ ~ unkept
  /\ pc[Main] \in {"abandoning", "reap", "nap", "hostjoin"} => reaped
  /\ unkept => phase = "idle" \/ reaped

\* Only main creates and joins, and only during a test.
WorkerPlaces ==
  \A w \in Workers :
    /\ pc[w] \in {"absent", "failed", "created", "guest", "call", "leaving",
                  "unlinked", "returning", "ended"}
    /\ parent[w] = Main
    /\ pc[w] # "absent" => rec[w].epoch # 0
    /\ rec[w].freed => pc[w] \in {"absent", "ended"}

Holds(t) == pc[t] \in {"guest", "leaving", "reap", "hostjoin"}

\* Thread w may still put its own state, or what it found, into the VM.
Active(w) == pc[w] \in {"created", "guest", "call", "leaving"}

\* Main's state is in the VM, in its GilPause or in the snapshot, or no thread
\* is left that could have replaced it.
MainKept ==
  /\ snap.released => snap.ctx = Own(Main)
  /\ Holds(Main) => ctx = Own(Main)
  /\ pc[Main] \in {"call", "creating", "joining", "nap"} =>
       snap.released /\ pause[Main] = Own(Main)
  /\ pc[Main] \in {"top", "abandoning"} /\ ~ snap.released /\ ~ unkept =>
       ctx = Own(Main) /\ \A w \in Workers : ~ Active(w)

WorkersKept ==
  \A w \in Workers :
    /\ Guest(w) => ctx = Own(w)
    /\ pc[w] = "call" => pause[w] = Own(w)

JoinKnown ==
  pc[Main] \in {"creating", "joining"} =>
    /\ peer[Main] \in Workers /\ pc[peer[Main]] # "absent"
    /\ pc[Main] = "joining" => fate[peer[Main]] = "join"

Detachments ==
  \A w \in Workers :
    /\ rec[w].detached => fate[w] = "detach"
    /\ pc[w] = "unlinked" => rec[w].detached

HarnessInv ==
  /\ MainPlaces /\ WorkerPlaces
  /\ \A t \in Threads : Holds(t) <=> gil = t
  /\ MainKept /\ WorkersKept /\ JoinKnown /\ Detachments
=============================================================================
