---------------------------- MODULE GuestThreads ----------------------------
(***************************************************************************)
(* Guest threads of the cccc VM (src/stdlib/pthread.c, src/vm.c).           *)
(*                                                                          *)
(* Every guest thread is a host thread, but the VM has one register file,   *)
(* one stack pointer, one vm->active_thread and one vm->current_tls_seg.    *)
(* The global lock (GIL) serialises guest code; a thread gives it up only   *)
(* in a blocking call, where it parks its part of the VM state (GilPause)   *)
(* and puts it back when it has the GIL again.                              *)
(*                                                                          *)
(* A piece of VM state is identified by the thread it belongs to.  All that *)
(* a thread does between taking and releasing the GIL without calling the   *)
(* guest is one step.  Programs are legal: only the creator of a thread or  *)
(* the thread itself names it, a thread is joined at most once or detached  *)
(* at most once, never both.                                                *)
(***************************************************************************)
EXTENDS Naturals, FiniteSets

CONSTANTS
  Main,      \* the thread of main()
  Workers,   \* ThreadRecords: the threads pthread_create can make
  None,      \* no thread
  Features,  \* what the guest program does beyond creating and joining
  HostCreate,\* {TRUE}, or {TRUE, FALSE}: the host pthread_create may fail
  MaxCalls,  \* bound: blocking calls and failed creations of a thread
  MaxRuns    \* bound: top-level runs (constructors, main, atexit handlers)

Threads == Workers \cup {Main}

ASSUME ThreadsAssumption ==
  /\ Main \notin Workers /\ None \notin Threads
  /\ Features \subseteq {"nested",      \* workers create and join threads
                         "detach",      \* detaches a thread that may have exited
                         "dtor_blocks", \* blocks in a TSS destructor
                         "once",        \* calls pthread_once
                         "once_blocks", \* blocks in the pthread_once routine
                         "once_exits",  \* ends its thread in the routine
                         "late_joins",  \* joins a thread the harness has reaped
                         "survivors",   \* threads outlive the reap of a failed test
                         "strays",      \* threads outlive main's top-level run
                         "waits"}       \* blocks for longer than the reaper waits
  /\ HostCreate \subseteq BOOLEAN
  /\ MaxCalls \in Nat /\ MaxRuns \in Nat

VARIABLES
  gil,    \* owner of the GIL
  ctx,    \* whose state the VM holds: exec (ExecState), active_thread, tls
  pc,     \* where each thread is
  peer,   \* the thread a pthread_create or pthread_join call is about
  pause,  \* the GilPause of a parked thread
  saved,  \* vm_thread_start's saved_active and saved_tls_seg
  rec,    \* the ThreadRecords
  parent, \* who created a thread
  fate,   \* whether a thread was passed to pthread_join or pthread_detach
  once,   \* a pthread_once_t, and the state of its init routine
  passed, \* threads that returned from pthread_once
  calls, runs,
  thread_epoch,  \* the running test, 0 outside --testing
  abandon_epoch, \* the test whose threads are being stopped, 0 if none
  snap           \* vm->main_snapshot

vars == <<gil, ctx, pc, peer, pause, saved, rec, parent, fate, once, passed,
          calls, runs, thread_epoch, abandon_epoch, snap>>

epochs == <<thread_epoch, abandon_epoch>>
world == <<once, passed, runs, epochs>>
-----------------------------------------------------------------------------
Context == [exec : Threads, active : Threads, tls : Threads]
Own(t) == [exec |-> t, active |-> t, tls |-> t]

Record == [exited : BOOLEAN, detached : BOOLEAN, joined : BOOLEAN,
           abandoned : BOOLEAN, freed : BOOLEAN, epoch : Nat]

NewRecord(epoch) ==
  [exited |-> FALSE, detached |-> FALSE, joined |-> FALSE,
   abandoned |-> FALSE, freed |-> FALSE, epoch |-> epoch]

\* vm->test_threads: threads made during a test, until their record is freed.
TestThreads ==
  {w \in Workers : pc[w] # "absent" /\ rec[w].epoch # 0 /\ ~ rec[w].freed}

\* Guest code of t runs: the body, or a TSS destructor once exited is set.
Guest(t) == pc[t] = "guest"

InDestructor(t) == t \in Workers /\ rec[t].exited
InOnce(t) == once.by = t

\* cccc_pthread_should_abandon, on the host thread of t.
ShouldAbandonFlagged(t) ==  \* mutant: only the reaper's flag counts
  t \in Workers /\ rec[t].abandoned

ShouldAbandon(t) ==
  /\ t \in Workers
  /\ rec[t].abandoned \/ (abandon_epoch # 0 /\ rec[t].epoch = abandon_epoch)

\* The safe point of the dispatch loop ends such a thread, but only while a
\* reap is under way.
MustEnd(t) == abandon_epoch # 0 /\ ShouldAbandon(t)

-----------------------------------------------------------------------------
(* save_and_release_gil: park the VM state and give up the GIL; main also    *)
(* keeps a snapshot for the harness (cccc_pthread_main_released).            *)
SaveAndRelease(t, where) ==
  /\ pause' = [pause EXCEPT ![t] = ctx]
  /\ snap' = IF t = Main /\ thread_epoch # 0
             THEN [released |-> TRUE, ctx |-> ctx] ELSE snap
  /\ gil' = None
  /\ pc' = [pc EXCEPT ![t] = where]
  /\ UNCHANGED ctx

(* acquire_and_restore_gil. *)
RestoreExecOnly(t) ==  \* mutant: active_thread and the TLS stay another's
  /\ gil = None
  /\ gil' = t
  /\ ctx' = [ctx EXCEPT !.exec = pause[t].exec]
  /\ snap' = IF t = Main THEN [snap EXCEPT !.released = FALSE] ELSE snap

AcquireAndRestore(t) ==
  /\ gil = None
  /\ gil' = t
  /\ ctx' = pause[t]
  /\ snap' = IF t = Main THEN [snap EXCEPT !.released = FALSE] ELSE snap

\* What acquire_and_restore_gil, and the safe point behind it, do to a resuming
\* thread of an abandoned test.
Polled(t) ==
  IF t \notin Workers THEN rec
  ELSE [rec EXCEPT ![t].abandoned = ShouldAbandon(t),
                   ![t].exited = @ \/ MustEnd(t)]

Resumed(t) == IF MustEnd(t) THEN "leaving" ELSE "guest"

\* When a thread ends inside the init routine of pthread_once, so does the
\* routine, uncompleted; the state word stays set.
LeaveOnce(t) == once' = IF InOnce(t) THEN [once EXCEPT !.by = None] ELSE once

CutOnce(t) == IF MustEnd(t) THEN LeaveOnce(t) ELSE UNCHANGED once

-----------------------------------------------------------------------------
Init ==
  /\ gil = Main
  /\ ctx = Own(Main)
  /\ pc = [t \in Threads |-> IF t = Main THEN "guest" ELSE "absent"]
  /\ peer = [t \in Threads |-> None]
  /\ pause = [t \in Threads |-> Own(t)]
  /\ saved = [t \in Threads |-> Own(Main)]
  /\ rec = [w \in Workers |-> NewRecord(0)]
  /\ parent = [w \in Workers |-> Main]
  /\ fate = [w \in Workers |-> "open"]
  /\ once = [state |-> 0, by |-> None, ran |-> 0, done |-> FALSE]
  /\ passed = {}
  /\ calls = [t \in Threads |-> 0]
  /\ runs = 0
  /\ thread_epoch = 0
  /\ abandon_epoch = 0
  /\ snap = [released |-> FALSE, ctx |-> Own(Main)]

Counted(t) ==
  /\ calls[t] < MaxCalls
  /\ calls' = [calls EXCEPT ![t] = @ + 1]

MayBlock(t) ==
  /\ InDestructor(t) => "dtor_blocks" \in Features
  /\ InOnce(t) => "once_blocks" \in Features

(* Any call that releases the GIL: mutex lock, condition wait, sleep, yield, *)
(* file and socket I/O (cccc_posix_save_and_release_gil does the same).      *)
Block(t) ==
  /\ Guest(t) /\ MayBlock(t) /\ Counted(t)
  /\ SaveAndRelease(t, "call")
  /\ UNCHANGED <<peer, saved, rec, parent, fate>> /\ UNCHANGED world

Unblock(t) ==
  /\ pc[t] = "call"
  /\ AcquireAndRestore(t)
  /\ rec' = Polled(t)
  /\ pc' = [pc EXCEPT ![t] = Resumed(t)]
  /\ CutOnce(t)
  /\ UNCHANGED <<peer, pause, saved, parent, fate, calls, passed, runs, epochs>>

(* wrap_pthread_create, up to the host pthread_create it calls without the   *)
(* GIL, and from there on.                                                   *)
Create(t, w, ok) ==
  /\ Guest(t) /\ MayBlock(t)
  /\ t = Main \/ "nested" \in Features
  /\ IF ok THEN UNCHANGED calls ELSE Counted(t)
  /\ pc[w] = "absent"
  /\ pause' = [pause EXCEPT ![t] = ctx]
  /\ snap' = IF t = Main /\ thread_epoch # 0
             THEN [released |-> TRUE, ctx |-> ctx] ELSE snap
  /\ gil' = None
  /\ pc' = [pc EXCEPT ![t] = "creating",
                      ![w] = IF ok THEN "created" ELSE "failed"]
  /\ peer' = [peer EXCEPT ![t] = w]
  /\ rec' = [rec EXCEPT ![w] = NewRecord(thread_epoch)]
  /\ parent' = [parent EXCEPT ![w] = t]
  /\ fate' = [fate EXCEPT ![w] = "open"]
  /\ UNCHANGED <<ctx, saved>> /\ UNCHANGED world

Created(t) ==
  /\ pc[t] = "creating"
  /\ AcquireAndRestore(t)
  /\ rec' = IF pc[peer[t]] = "failed"
            THEN [Polled(t) EXCEPT ![peer[t]].freed = TRUE] ELSE Polled(t)
  /\ pc' = [pc EXCEPT ![t] = Resumed(t),
                      ![peer[t]] = IF @ = "failed" THEN "absent" ELSE @]
  /\ peer' = [peer EXCEPT ![t] = None]
  /\ CutOnce(t)
  /\ UNCHANGED <<pause, saved, parent, fate, calls, passed, runs, epochs>>

\* The handle of w is known to t: *threadp is written when create returns.
Knows(t, w) ==
  /\ pc[w] # "absent"
  /\ rec[w].freed => "late_joins" \in Features
  /\ t = w \/ (t = parent[w] /\ peer[t] # w)

(* wrap_pthread_join: wait for the host thread without the GIL, then take   *)
(* the GIL and free the record.                                             *)
Join(t, w) ==
  /\ Guest(t) /\ MayBlock(t)
  /\ Knows(t, w) /\ t # w
  /\ fate[w] = "open"
  /\ fate' = [fate EXCEPT ![w] = "join"]
  /\ peer' = [peer EXCEPT ![t] = w]
  /\ SaveAndRelease(t, "joining")
  /\ UNCHANGED <<saved, rec, parent, calls>> /\ UNCHANGED world

JoinedEarly(t) ==  \* mutant: waits for exited, not for the host thread
  /\ pc[t] = "joining"
  /\ rec[peer[t]].exited
  /\ AcquireAndRestore(t)
  /\ rec' = [Polled(t) EXCEPT ![peer[t]].joined = TRUE, ![peer[t]].freed = TRUE]
  /\ pc' = [pc EXCEPT ![t] = Resumed(t)]
  /\ peer' = [peer EXCEPT ![t] = None]
  /\ CutOnce(t)
  /\ UNCHANGED <<pause, saved, parent, fate, calls, passed, runs, epochs>>

Joined(t) ==
  /\ pc[t] = "joining"
  /\ pc[peer[t]] = "ended"
  /\ AcquireAndRestore(t)
  /\ rec' = [Polled(t) EXCEPT ![peer[t]].joined = TRUE, ![peer[t]].freed = TRUE]
  /\ pc' = [pc EXCEPT ![t] = Resumed(t)]
  /\ peer' = [peer EXCEPT ![t] = None]
  /\ CutOnce(t)
  /\ UNCHANGED <<pause, saved, parent, fate, calls, passed, runs, epochs>>

(* wrap_pthread_detach: frees the record itself if the thread has exited.   *)
Detach(t, w) ==
  /\ Guest(t)
  /\ Knows(t, w)
  /\ (t # w \/ rec[w].exited) => "detach" \in Features
  /\ fate[w] = "open"
  /\ fate' = [fate EXCEPT ![w] = "detach"]
  /\ rec' = [rec EXCEPT ![w].detached = TRUE,
                        ![w].freed = @ \/ rec[w].exited]
  /\ UNCHANGED <<gil, ctx, pc, peer, pause, saved, parent, calls, snap>>
  /\ UNCHANGED world

-----------------------------------------------------------------------------
(* vm_thread_start: take the GIL, remember two thirds of what the VM holds,  *)
(* load this thread's state.  A thread of an abandoned test ends at once.    *)
Begin(w) ==
  /\ pc[w] = "created"
  /\ gil = None
  /\ gil' = w
  /\ saved' = [saved EXCEPT ![w] = ctx]
  /\ ctx' = Own(w)
  /\ pc' = [pc EXCEPT ![w] = IF ShouldAbandon(w) THEN "leaving" ELSE "guest"]
  /\ rec' = [rec EXCEPT ![w].abandoned = ShouldAbandon(w),
                        ![w].exited = ShouldAbandon(w)]
  /\ UNCHANGED <<peer, pause, parent, fate, calls, snap>> /\ UNCHANGED world

\* wrap_pthread_exit works from a callback too, the init routine of
\* pthread_once included: the dispatch loops on the way all end.
MayEnd(t) == InOnce(t) => "once_exits" \in Features

(* The start function returns, or the thread calls pthread_exit: exited is   *)
(* set, then the TSS destructors run unless the thread is abandoned.         *)
ThreadReturn(w) ==
  /\ Guest(w) /\ ~ rec[w].exited /\ MayEnd(w)
  /\ rec' = [rec EXCEPT ![w].exited = TRUE]
  /\ pc' = [pc EXCEPT ![w] = IF rec[w].abandoned THEN "leaving" ELSE "guest"]
  /\ LeaveOnce(w)
  /\ UNCHANGED <<gil, ctx, peer, pause, saved, parent, fate, calls, snap>>
  /\ UNCHANGED <<passed, runs, epochs>>

(* The rest of vm_thread_start, up to the release of the GIL.  A pthread_exit *)
(* in a TSS destructor ends that one and skips those still to come.          *)
FinishHolding(w) ==  \* mutant: the detached path keeps the GIL
  /\ pc[w] = "leaving" \/ (Guest(w) /\ rec[w].exited /\ MayEnd(w))
  /\ ctx' = [ctx EXCEPT !.active = saved[w].active, !.tls = saved[w].tls]
  /\ gil' = IF rec[w].detached THEN gil ELSE None
  /\ pc' = [pc EXCEPT ![w] = IF rec[w].detached THEN "unlinked" ELSE "returning"]
  /\ LeaveOnce(w)
  /\ UNCHANGED <<peer, pause, saved, rec, parent, fate, calls, snap>>
  /\ UNCHANGED <<passed, runs, epochs>>

Finish(w) ==
  /\ pc[w] = "leaving" \/ (Guest(w) /\ rec[w].exited /\ MayEnd(w))
  /\ ctx' = [ctx EXCEPT !.active = saved[w].active, !.tls = saved[w].tls]
  /\ gil' = None
  /\ pc' = [pc EXCEPT ![w] = IF rec[w].detached THEN "unlinked" ELSE "returning"]
  /\ LeaveOnce(w)
  /\ UNCHANGED <<peer, pause, saved, rec, parent, fate, calls, snap>>
  /\ UNCHANGED <<passed, runs, epochs>>

(* Without the GIL: a detached thread frees its record, any other still     *)
(* reads its return value from it.  What only a live thread needs is reset.   *)
(* The code also unlinks the record from vm->test_threads here, not in one    *)
(* step and unordered with whoever uses that list under the GIL; the model    *)
(* does not show that race.                                                  *)
HostExit(w) ==
  /\ pc[w] \in {"unlinked", "returning"}
  /\ pc' = [pc EXCEPT ![w] = "ended"]
  /\ rec' = [rec EXCEPT ![w].freed = @ \/ pc[w] = "unlinked"]
  /\ saved' = [saved EXCEPT ![w] = Own(Main)]
  /\ calls' = [calls EXCEPT ![w] = 0]
  /\ UNCHANGED <<gil, ctx, peer, pause, parent, fate, snap>>
  /\ UNCHANGED world
-----------------------------------------------------------------------------
(* wrap_pthread_once: the first caller flips the state word and runs the    *)
(* init routine as a guest callback; every later caller returns.            *)
OnceLate(t) ==  \* mutant: the state word is not set before the routine runs
  /\ Guest(t) /\ t \notin passed /\ ~ InOnce(t) /\ "once" \in Features
  /\ IF once.state = 0
     THEN once' = [once EXCEPT !.by = t, !.ran = @ + 1] /\ UNCHANGED passed
     ELSE passed' = passed \cup {t} /\ UNCHANGED once
  /\ UNCHANGED <<gil, ctx, pc, peer, pause, saved, rec, parent, fate, calls,
                 runs, thread_epoch, abandon_epoch, snap>>

OnceCall(t) ==
  /\ Guest(t) /\ t \notin passed /\ ~ InOnce(t) /\ "once" \in Features
  /\ IF once.state = 0
     THEN once' = [once EXCEPT !.state = 1, !.by = t, !.ran = @ + 1]
          /\ UNCHANGED passed
     ELSE passed' = passed \cup {t} /\ UNCHANGED once
  /\ UNCHANGED <<gil, ctx, pc, peer, pause, saved, rec, parent, fate, calls,
                 runs, thread_epoch, abandon_epoch, snap>>

OnceReturn(t) ==
  /\ Guest(t) /\ InOnce(t)
  /\ once' = [once EXCEPT !.by = None, !.done = TRUE]
  /\ passed' = passed \cup {t}
  /\ UNCHANGED <<gil, ctx, pc, peer, pause, saved, rec, parent, fate, calls,
                 runs, thread_epoch, abandon_epoch, snap>>

-----------------------------------------------------------------------------
(* End of a top-level run (cc_run_at_regs), by a return or a pthread_exit on  *)
(* main: main keeps its state only under --testing                           *)
(* (cccc_pthread_main_unwinding).                                            *)
MainUnwindingSkipped == snap' = snap  \* mutant: the state is not kept

MainUnwinding ==
  snap' = IF thread_epoch # 0 /\ TestThreads # {}
          THEN [released |-> TRUE, ctx |-> ctx] ELSE snap

MainReturn ==
  /\ Guest(Main) /\ MayEnd(Main)
  /\ MainUnwinding
  /\ gil' = None
  /\ pc' = [pc EXCEPT ![Main] = "top"]
  /\ LeaveOnce(Main)
  /\ UNCHANGED <<ctx, peer, pause, saved, rec, parent, fate, calls, passed,
                 runs, epochs>>

(* Start of the next one: an atexit handler, a destructor, a TSS destructor  *)
(* of main, a test.  It runs on whatever stack the VM holds, and replaces    *)
(* whatever TLS segment the VM holds by a fresh one.                         *)
\* Every thread has been joined, or belongs to a test while one is running:
\* only for the latter does main keep a snapshot.
Accounted ==
  \A w \in Workers :
    pc[w] = "absent" \/ rec[w].joined \/ (rec[w].epoch # 0 /\ thread_epoch # 0)

MainReclaimed == IF snap.released THEN snap.ctx ELSE ctx

MainRun ==
  /\ pc[Main] = "top" /\ gil = None /\ runs < MaxRuns
  /\ "strays" \in Features \/ Accounted
  /\ runs' = runs + 1
  /\ gil' = Main
  /\ ctx' = [MainReclaimed EXCEPT !.tls = Main]
  /\ snap' = [snap EXCEPT !.released = FALSE]
  /\ pc' = [pc EXCEPT ![Main] = "guest"]
  /\ UNCHANGED <<peer, pause, saved, rec, parent, fate, calls, once, passed,
                 thread_epoch, abandon_epoch>>

-----------------------------------------------------------------------------
Step(t) ==
  \/ Block(t) \/ Unblock(t)
  \/ \E w \in Workers :
       (\E ok \in HostCreate : Create(t, w, ok)) \/ Join(t, w) \/ Detach(t, w)
  \/ Created(t) \/ Joined(t)
  \/ OnceCall(t) \/ OnceReturn(t)

WorkerStep(w) ==
  Begin(w) \/ ThreadReturn(w) \/ Finish(w) \/ HostExit(w)

MainStep == MainReturn \/ MainRun

Next ==
  \/ \E t \in Threads : Step(t)
  \/ \E w \in Workers : WorkerStep(w)
  \/ MainStep

\* Every host thread keeps running: a blocking call returns once what it
\* waits for has happened and the GIL is free.
Fairness ==
  /\ \A t \in Threads : WF_vars(Step(t))
  /\ \A w \in Workers : WF_vars(WorkerStep(w))
  /\ WF_vars(MainStep)

Spec == Init /\ [][Next]_vars
FairSpec == Spec /\ Fairness
-----------------------------------------------------------------------------
Places == {"absent", "failed", "created", "guest", "call", "creating",
           "joining", "leaving", "unlinked", "returning", "ended", "top",
           "abandoning", "reap", "nap", "hostjoin"}

TypeOK ==
  /\ gil \in Threads \cup {None}
  /\ ctx \in Context
  /\ pc \in [Threads -> Places]
  /\ peer \in [Threads -> Workers \cup {None}]
  /\ pause \in [Threads -> Context]
  /\ saved \in [Threads -> Context]
  /\ rec \in [Workers -> Record]
  /\ parent \in [Workers -> Threads]
  /\ fate \in [Workers -> {"open", "join", "detach"}]
  /\ once \in [state : {0, 1}, by : Threads \cup {None}, ran : 0..1, done : BOOLEAN]
  /\ passed \subseteq Threads
  /\ calls \in [Threads -> Nat]
  /\ runs \in Nat
  /\ thread_epoch \in Nat /\ abandon_epoch \in Nat
  /\ snap \in [released : BOOLEAN, ctx : Context]

-----------------------------------------------------------------------------
(* What keeps a thread's state its own, outside --testing.                   *)
Parked(t) == pc[t] \in {"call", "creating", "joining"}

NoHarness ==
  /\ thread_epoch = 0 /\ abandon_epoch = 0 /\ ~ snap.released
  /\ \A w \in Workers : ~ rec[w].abandoned
  /\ \A t \in Threads : pc[t] # "leaving"

GilHolder == \A t \in Threads : Guest(t) <=> gil = t

ParkedOwn == \A t \in Threads : Parked(t) => pause[t] = Own(t)

RunningOwn == \A t \in Threads : Guest(t) => ctx = Own(t)

\* While main is between two top-level runs, the VM holds another thread's
\* state only if some thread has not been joined.
TopOwn ==
  pc[Main] = "top" =>
    \/ ctx.exec = Main /\ ctx.active = Main
    \/ \E w \in Workers : pc[w] # "absent" /\ ~ rec[w].joined

PeersKnown ==
  \A t \in Threads : pc[t] \in {"creating", "joining"} =>
    /\ peer[t] \in Workers /\ peer[t] # t
    /\ parent[peer[t]] = t /\ pc[peer[t]] # "absent"

Fates ==
  /\ \A w \in Workers :
       /\ rec[w].detached => fate[w] = "detach"
       /\ rec[w].joined => pc[w] = "ended"
       /\ pc[w] = "unlinked" => rec[w].detached
  /\ \A t \in Threads : pc[t] = "joining" => fate[peer[t]] = "join"

\* Everything the correctness of parking, resuming, joining and running main
\* again rests on; see GuestThreadsProofs.
ThreadsInv ==
  /\ NoHarness /\ GilHolder /\ ParkedOwn /\ RunningOwn /\ TopOwn
  /\ PeersKnown /\ Fates
  /\ once.state = 0 => once.ran = 0

\* The VM's single register file, active_thread and TLS pointer always belong
\* to the thread that executes guest code, and that thread holds the GIL:
\* however threads park, resume, start and end in between, none of them runs
\* on another's stack or reads another's _Thread_local storage.
OwnContext == \A t \in Threads : Guest(t) => gil = t /\ ctx = Own(t)

\* A ThreadRecord, with its stack and TLS segment, is freed only when its
\* thread will not use it again, neither to run, nor to resume from a
\* blocking call, nor to read its return value after the last GIL release,
\* and nobody is about to join it.
NoUseAfterFree ==
  /\ \A w \in Workers : rec[w].freed => pc[w] \in {"absent", "ended"}
  /\ \A t \in Threads : pc[t] = "joining" => ~ rec[peer[t]].freed

\* pthread_once: nobody gets past it before the init routine has completed,
\* and the routine runs once.  Programs whose routine blocks or ends its thread
\* break it.
OnceCompleted == once.ran <= 1 /\ (passed # {} => once.done)

\* No thread is lost between the GIL and a join: whoever was created runs and
\* ends, and whoever joins it resumes.
Pending(w) ==
  \/ pc[w] \notin {"absent", "failed", "ended"}
  \/ \E t \in Threads : pc[t] = "joining" /\ peer[t] = w

EveryThreadEnds == \A w \in Workers : Pending(w) ~> ~ Pending(w)
=============================================================================
