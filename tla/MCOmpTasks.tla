----------------------------- MODULE MCOmpTasks -----------------------------
(* Instances of OmpTasks: two threads, one of which creates the first tasks. *)
EXTENDS OmpTasks

Plain == NoKind
High0 == [NoKind EXCEPT !.high = TRUE]
Reads == [NoKind EXCEPT !.dep = <<"in">>]
Writes == [NoKind EXCEPT !.dep = <<"out">>]
WritesHere == [Writes EXCEPT !.if0 = TRUE]
ReadsHigh == [Reads EXCEPT !.high = TRUE]
Final0 == [NoKind EXCEPT !.final = TRUE]

Grouped == [NoKind EXCEPT !.grouped = TRUE]

\* Each program orders its dependences, or mixes priorities, waits, taskgroups
\* and final tasks; it may also end after any of its tasks.
MCPrograms ==
  {<<Plain, Plain, High0>>, <<Reads, Writes, WritesHere>>,
   <<Writes, ReadsHigh>>, <<Final0, Writes>>, <<Grouped, Plain>>, <<Plain, Grouped>>}

\* A taskgroup whose first task is undeferred, a child of it and a grandchild.
MCGroupProgram == {<<[Grouped EXCEPT !.if0 = TRUE], Plain, Plain>>}
=============================================================================
