---------------------------- MODULE MCOmpRegion ----------------------------
(* Instances of OmpRegion: teams of one, two and three threads. *)
EXTENDS OmpRegion

For(sched, chunk, n, mode, nowait) ==
  [what |-> "loop", sched |-> sched, chunk |-> chunk, n |-> n, mode |-> mode, nowait |-> nowait]
Once(copy, nowait) == [what |-> "single", n |-> 1, copy |-> copy, nowait |-> nowait]
Parallel(n) == [what |-> "nested", n |-> n, nowait |-> TRUE]
WorkGroups(n) == [what |-> "kernel", n |-> n, nowait |-> TRUE]
Team(n, body) == [n |-> n, body |-> body]

MCRegions ==
  {Team(2, <<For(2, 1, 3, "ordered", TRUE), For(3, 1, 3, "ordered", TRUE)>>),
   Team(2, <<Parallel(2), For(2, 2, 3, "plain", TRUE), For(1, 1, 3, "ordered", FALSE)>>),
   Team(2, <<For(1, 0, 3, "doacross", TRUE), For(3, 1, 4, "doacross", TRUE)>>),
   Team(3, <<For(2, 1, 3, "doacross", TRUE)>>),
   Team(2, <<Once(TRUE, FALSE), Once(FALSE, TRUE), Once(TRUE, FALSE)>>),
   Team(1, <<For(2, 1, 2, "ordered", FALSE), Once(TRUE, FALSE)>>),
   Team(3, <<WorkGroups(2)>>)}
=============================================================================
