------------------------------- MODULE MCJobs -------------------------------
(* Small client programs for the job queue.  "join" spawns two threads and *)
(* waits for them, one of which spawns a third and waits for it.           *)
EXTENDS Jobs
Joining == [join  |-> <<"mid", "leaf", "Yield">>,
            mid   |-> <<"GC", "leaf", "Yield">>,
            leaf  |-> <<>>]
(* A thread that needs memory after it has spawned a child.                *)
Allocating == [alloc |-> <<"leaf", "GC", "Yield">>,
               leaf  |-> <<>>]
(* A program of one thread.                                                *)
Single == [single |-> <<>>]
JoiningPrograms == DOMAIN Joining
AllocatingPrograms == DOMAIN Allocating
SinglePrograms == DOMAIN Single
=============================================================================
