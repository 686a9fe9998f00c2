-------------------------------- MODULE Jobs --------------------------------
(***************************************************************************)
(* The job queue of Runtime/sparc/thread.c.  Processors fetch user threads *)
(* from JobQueue, run them, and release or delete them; status counts what *)
(* keeps a thread from being scheduled: the processor that holds it and    *)
(* its children that have not finished, so that Yield after Spawn joins.   *)
(* The main thread starts the processors, sleeps until the queue is empty, *)
(* and waits for the processors to stop.                                   *)
(*                                                                         *)
(* A section between LocalLock and LocalUnlock is one step (all writers of *)
(* JobQueue, activeThread and used hold the lock), and so is every access  *)
(* to shared memory outside it.  The client is a table of programs; a user *)
(* thread follows one.  No thread is pinned: only the concurrent           *)
(* collectors pin.  A failed assert or DIE ends the program: stopped names *)
(* it, and nothing moves any more.  The assertions on status in ReleaseJob *)
(* and Thread_Create always hold (StatusCounts) and are not steps.         *)
(***************************************************************************)
EXTENDS Integers, Sequences, FiniteSets

CONSTANTS Procs,      \* the processors (NumProc is their number)
          NumThread,  \* entries of Threads and of JobQueue
          Programs,   \* names of client programs
          Code,       \* Code[b]: the calls program b makes before it returns:
                      \* "Yield", "GC", or the program of a thread to Spawn
          Main        \* the program of the main thread

Slots == 0 .. NumThread - 1
None == -1   \* NULL

ASSUME JobsAssumption ==
  /\ IsFiniteSet(Procs)
  /\ NumThread \in Nat \ {0}
  /\ Main \in Programs
  /\ Code \in [Programs -> Seq({"Yield", "GC"} \cup Programs)]

VARIABLES
  status,         \* -1 done, 0 ready, positive: mapped or waiting
  used,           \* the thread structure is allocated
  parent,         \* the thread that spawned it
  request,        \* why it stopped and how to resume it
  body, at,       \* its client program, and the calls it has made
  JobQueue,       \* the user threads, in slots
  activeThread,   \* how many there are
  EmptyPlain,     \* there are no more jobs
  NumActiveProc,  \* processors running
  pc,             \* what each processor does next
  th,             \* the user thread it deals with
  child,          \* the thread it has created and not yet added
  main,           \* what the main thread does next
  stopped         \* the assert or DIE that ended the program

threads == <<status, used, parent, request, body, at>>
queue == <<JobQueue, activeThread, EmptyPlain>>
procs == <<NumActiveProc, pc, th, child>>
vars == <<threads, queue, procs, main, stopped>>

Init == /\ status = [t \in Slots |-> IF t = 0 THEN 0 ELSE -1]
        /\ used = [t \in Slots |-> t = 0]
        /\ parent = [t \in Slots |-> None]
        /\ request = [t \in Slots |-> "Start"]
        /\ body = [t \in Slots |-> Main]
        /\ at = [t \in Slots |-> 0]
        /\ JobQueue = [i \in Slots |-> IF i = 0 THEN 0 ELSE None]
        /\ activeThread = 1
        /\ EmptyPlain = FALSE
        /\ NumActiveProc = 0
        /\ pc = [p \in Procs |-> "none"]
        /\ th = [p \in Procs |-> None]
        /\ child = [p \in Procs |-> None]
        /\ main = "create"
        /\ stopped = "no"

Running == stopped = "no"

Goto(p, from, to) == /\ Running
                     /\ pc[p] = from
                     /\ pc' = [pc EXCEPT ![p] = to]

(* assert(holds): on to the next step, or the end of the program.          *)
Assert(p, from, holds, to, name) ==
  /\ Goto(p, from, IF holds THEN to ELSE from)
  /\ stopped' = IF holds THEN stopped ELSE name

Add(t, n) == status' = [status EXCEPT ![t] = @ + n]

----------------------------------------------------------------------------
(* thread_go, the main thread.                                             *)

CreateProc(p) ==
  /\ main = "create"
  /\ Goto(p, "none", "start")
  /\ main' = IF \A q \in Procs \ {p} : pc[q] # "none" THEN "test" ELSE main
  /\ UNCHANGED <<threads, queue, NumActiveProc, th, child, stopped>>

(* while (NumTotalJob() > 0) pthread_cond_wait(&EmptyCond, &EmptyLock): the *)
(* test, and then the wait, with nothing held in between.                  *)
NumTotalJob ==
  /\ Running
  /\ main = "test"
  /\ main' = IF activeThread > 0 THEN "sleep" ELSE "procs"
  /\ UNCHANGED <<threads, queue, procs, stopped>>

CondWait ==
  /\ Running
  /\ main = "sleep"
  /\ main' = "asleep"
  /\ UNCHANGED <<threads, queue, procs, stopped>>

(* A condition variable may wake its sleeper for no reason.                *)
SpuriousWakeup ==
  /\ Running
  /\ main = "asleep"
  /\ main' = "test"
  /\ UNCHANGED <<threads, queue, procs, stopped>>

TestProcs ==
  /\ Running
  /\ main = "procs"
  /\ NumActiveProc = 0
  /\ main' = "returned"
  /\ UNCHANGED <<threads, queue, procs, stopped>>

----------------------------------------------------------------------------
(* proc_go and work.                                                       *)

ProcGo(p) ==
  /\ Goto(p, "start", "fetch")
  /\ NumActiveProc' = NumActiveProc + 1
  /\ UNCHANGED <<threads, queue, th, child, main, stopped>>

(* The ready thread in the highest slot; None when no thread is ready.     *)
Ready == {i \in Slots : JobQueue[i] # None /\ status[JobQueue[i]] = 0}
Highest(S) == CHOOSE i \in S : \A k \in S : k <= i

(* Taking a thread without counting it as taken.                           *)
FetchJob_NoClaim(p) ==
  /\ Goto(p, "fetch", "poll")
  /\ th' = [th EXCEPT ![p] = IF Ready = {} THEN None
                             ELSE JobQueue[Highest(Ready)]]
  /\ UNCHANGED <<threads, queue, NumActiveProc, child, main, stopped>>

FetchJob(p) ==
  /\ Goto(p, "fetch", "poll")
  /\ IF Ready = {}
     THEN UNCHANGED <<th, status>>
     ELSE LET t == JobQueue[Highest(Ready)]
          IN /\ th' = [th EXCEPT ![p] = t]
             /\ Add(t, 1)
  /\ UNCHANGED <<used, parent, request, body, at, queue, NumActiveProc,
                 child, main, stopped>>

(* if (EmptyPlain) ..., whether or not a thread was fetched.               *)
TestEmpty(p) ==
  /\ Goto(p, "poll", IF EmptyPlain THEN "exit"
                     ELSE IF th[p] = None THEN "fetch" ELSE "resume")
  /\ UNCHANGED <<threads, queue, NumActiveProc, th, child, main, stopped>>

PthreadExit(p) ==
  /\ Goto(p, "exit", "exited")
  /\ NumActiveProc' = NumActiveProc - 1
  /\ UNCHANGED <<threads, queue, th, child, main, stopped>>

(* work from its assert on: the thread is mapped and goes on as it asked.  *)
Resume(p) ==
  /\ Assert(p, "resume", status[th[p]] = 1, "run", "work")
  /\ UNCHANGED <<threads, queue, NumActiveProc, th, child, main>>

----------------------------------------------------------------------------
(* The calls of the client.                                                *)

(* The call a thread makes next; its program returns after the last one.   *)
NextCall(t) == IF at[t] < Len(Code[body[t]]) THEN Code[body[t]][at[t] + 1]
               ELSE "Finish"

Makes(p, calls) == pc[p] = "run" /\ NextCall(th[p]) \in calls

Call(p, to) == /\ Goto(p, "run", to)
               /\ at' = [at EXCEPT ![th[p]] = @ + 1]

(* SpawnRest calls thread_create, and then AddJob.                         *)
Unused == {t \in Slots : ~used[t]}

ThreadCreate(p) ==
  /\ Makes(p, Programs)
  /\ Unused # {}
  /\ LET t == CHOOSE u \in Unused : \A v \in Unused : u <= v
     IN /\ Goto(p, "run", "add")
        /\ used' = [used EXCEPT ![t] = TRUE]
        /\ status' = [status EXCEPT ![t] = 0]
        /\ parent' = [parent EXCEPT ![t] = th[p]]
        /\ request' = [request EXCEPT ![t] = "Start"]
        /\ body' = [body EXCEPT ![t] = NextCall(th[p])]
        /\ at' = [at EXCEPT ![t] = 0, ![th[p]] = @ + 1]
        /\ child' = [child EXCEPT ![p] = t]
  /\ UNCHANGED <<queue, NumActiveProc, th, main, stopped>>

OutOfThreads(p) ==
  /\ Running
  /\ Makes(p, Programs)
  /\ Unused = {}
  /\ stopped' = "out of threads"
  /\ UNCHANGED <<threads, queue, procs, main>>

(* Adding a child its parent does not wait for.                            *)
AddJob_NotCounted(p) ==
  /\ Goto(p, "add", "run")
  /\ LET i == CHOOSE s \in Slots : /\ JobQueue[s] = None
                                   /\ \A l \in 0 .. s - 1 : JobQueue[l] # None
     IN JobQueue' = [JobQueue EXCEPT ![i] = child[p]]
  /\ activeThread' = activeThread + 1
  /\ child' = [child EXCEPT ![p] = None]
  /\ UNCHANGED <<threads, EmptyPlain, NumActiveProc, th, main, stopped>>

AddJob(p) ==
  /\ Goto(p, "add", "run")
  /\ Add(th[p], 1)
  /\ LET i == CHOOSE s \in Slots : /\ JobQueue[s] = None
                                   /\ \A l \in 0 .. s - 1 : JobQueue[l] # None
     IN JobQueue' = [JobQueue EXCEPT ![i] = child[p]]
  /\ activeThread' = activeThread + 1
  /\ child' = [child EXCEPT ![p] = None]
  /\ UNCHANGED <<used, parent, request, body, at, EmptyPlain, NumActiveProc,
                 th, main, stopped>>

(* A request for a collection keeps the thread mapped to its processor and *)
(* enters work again.                                                      *)
GCFromMutator(p) ==
  /\ Makes(p, {"GC"})
  /\ Call(p, "resume")
  /\ request' = [request EXCEPT ![th[p]] = "GC"]
  /\ UNCHANGED <<status, used, parent, body, queue, NumActiveProc, th, child,
                 main, stopped>>

YieldRest(p) ==
  /\ Makes(p, {"Yield"})
  /\ Call(p, "release")
  /\ request' = [request EXCEPT ![th[p]] = "Yield"]
  /\ UNCHANGED <<status, used, parent, body, queue, NumActiveProc, th, child,
                 main, stopped>>

(* A yield that keeps the count of the processor.                          *)
ReleaseJob_StillHeld(p) ==
  /\ Goto(p, "release", "fetch")
  /\ th' = [th EXCEPT ![p] = None]
  /\ UNCHANGED <<threads, queue, NumActiveProc, child, main, stopped>>

ReleaseJob(p) ==
  /\ Goto(p, "release", "fetch")
  /\ Add(th[p], -1)
  /\ th' = [th EXCEPT ![p] = None]
  /\ UNCHANGED <<used, parent, request, body, at, queue, NumActiveProc, child,
                 main, stopped>>

----------------------------------------------------------------------------
(* Finish: DeleteJob, its ReleaseJob and Thread_Free.                      *)

(* The thread counts itself twice, so that its release does not offer it.  *)
Finish(p) ==
  /\ Makes(p, {"Finish"})
  /\ Goto(p, "run", "unmap")
  /\ Add(th[p], 1)
  /\ UNCHANGED <<used, parent, request, body, at, queue, NumActiveProc, th,
                 child, main, stopped>>

Unmap(p) ==
  /\ Goto(p, "unmap", IF parent[th[p]] = None THEN "last" ELSE "parent")
  /\ Add(th[p], -1)
  /\ UNCHANGED <<used, parent, request, body, at, queue, NumActiveProc, th,
                 child, main, stopped>>

LeaveParent(p) ==
  /\ Goto(p, "parent", "alive")
  /\ Add(parent[th[p]], -1)
  /\ UNCHANGED <<used, parent, request, body, at, queue, NumActiveProc, th,
                 child, main, stopped>>

(* assert(th->parent->status >= 0): Parent must not have already finished. *)
ParentAlive(p) ==
  /\ Assert(p, "alive", status[parent[th[p]]] >= 0, "last", "parent")
  /\ UNCHANGED <<threads, queue, NumActiveProc, th, child, main>>

(* assert(th->status == 1); th->status = -1.                               *)
Dead(p) ==
  /\ Assert(p, "last", status[th[p]] = 1, "free", "children")
  /\ status' = IF status[th[p]] = 1 THEN [status EXCEPT ![th[p]] = -1]
               ELSE status
  /\ UNCHANGED <<used, parent, request, body, at, queue, NumActiveProc, th,
                 child, main>>

(* Counting the thread twice out of the queue.                             *)
ThreadFree_Twice(p) ==
  /\ Goto(p, "free", IF activeThread = 1 THEN "empty" ELSE "fetch")
  /\ JobQueue' = [i \in Slots |-> IF JobQueue[i] = th[p] THEN None
                                  ELSE JobQueue[i]]
  /\ activeThread' = activeThread - 2
  /\ used' = [used EXCEPT ![th[p]] = FALSE]
  /\ th' = [th EXCEPT ![p] = None]
  /\ UNCHANGED <<status, parent, request, body, at, EmptyPlain, NumActiveProc,
                 child, main, stopped>>

(* Done when this was the last but one.                                    *)
ThreadFree_Early(p) ==
  /\ Goto(p, "free", IF activeThread <= 2 THEN "empty" ELSE "fetch")
  /\ JobQueue' = [i \in Slots |-> IF JobQueue[i] = th[p] THEN None
                                  ELSE JobQueue[i]]
  /\ activeThread' = activeThread - 1
  /\ used' = [used EXCEPT ![th[p]] = FALSE]
  /\ th' = [th EXCEPT ![p] = None]
  /\ UNCHANGED <<status, parent, request, body, at, EmptyPlain, NumActiveProc,
                 child, main, stopped>>

ThreadFree(p) ==
  /\ Goto(p, "free", IF activeThread = 1 THEN "empty" ELSE "fetch")
  /\ JobQueue' = [i \in Slots |-> IF JobQueue[i] = th[p] THEN None
                                  ELSE JobQueue[i]]
  /\ activeThread' = activeThread - 1
  /\ used' = [used EXCEPT ![th[p]] = FALSE]
  /\ th' = [th EXCEPT ![p] = None]
  /\ UNCHANGED <<status, parent, request, body, at, EmptyPlain, NumActiveProc,
                 child, main, stopped>>

SetEmpty(p) ==
  /\ Goto(p, "empty", "signal")
  /\ EmptyPlain' = TRUE
  /\ UNCHANGED <<threads, JobQueue, activeThread, NumActiveProc, th, child,
                 main, stopped>>

(* pthread_cond_signal wakes the main thread if it sleeps, and is lost     *)
(* otherwise.                                                              *)
CondSignal(p) ==
  /\ Goto(p, "signal", "fetch")
  /\ main' = IF main = "asleep" THEN "test" ELSE main
  /\ UNCHANGED <<threads, queue, NumActiveProc, th, child, stopped>>

----------------------------------------------------------------------------

(* What a processor does by itself.                                        *)
ProcStep(p) ==
  \/ ProcGo(p) \/ FetchJob(p) \/ TestEmpty(p) \/ PthreadExit(p) \/ Resume(p)
  \/ ThreadCreate(p) \/ OutOfThreads(p) \/ AddJob(p)
  \/ GCFromMutator(p) \/ YieldRest(p) \/ ReleaseJob(p)
  \/ Finish(p) \/ Unmap(p) \/ LeaveParent(p) \/ ParentAlive(p) \/ Dead(p)
  \/ ThreadFree(p) \/ SetEmpty(p) \/ CondSignal(p)

MainStep == NumTotalJob \/ CondWait \/ TestProcs

Next == \/ \E p \in Procs : CreateProc(p) \/ ProcStep(p)
        \/ MainStep
        \/ SpuriousWakeup

(* The operating system runs every thread that can go on.                  *)
Fairness == /\ \A p \in Procs : WF_vars(CreateProc(p)) /\ WF_vars(ProcStep(p))
            /\ WF_vars(MainStep)

Spec == Init /\ [][Next]_vars /\ Fairness

----------------------------------------------------------------------------
(* Properties.                                                             *)

Labels == {"none", "start", "fetch", "poll", "exit", "exited", "resume", "run",
           "add", "release", "unmap", "parent", "alive", "last", "free",
           "empty", "signal"}

(* The types of the state; an index is NULL or in range, and a count is    *)
(* never below zero or above what it counts.                               *)
TypeOK ==
  /\ status \in [Slots -> -1 .. NumThread + 1]
  /\ used \in [Slots -> BOOLEAN]
  /\ parent \in [Slots -> Slots \cup {None}]
  /\ request \in [Slots -> {"Start", "Yield", "GC"}]
  /\ body \in [Slots -> Programs]
  /\ at \in [Slots -> Nat]
  /\ JobQueue \in [Slots -> Slots \cup {None}]
  /\ activeThread \in 0 .. NumThread
  /\ EmptyPlain \in BOOLEAN
  /\ NumActiveProc \in 0 .. Cardinality(Procs)
  /\ pc \in [Procs -> Labels]
  /\ th \in [Procs -> Slots \cup {None}]
  /\ child \in [Procs -> Slots \cup {None}]
  /\ main \in {"create", "test", "sleep", "asleep", "procs", "returned"}
  /\ stopped \in {"no", "work", "parent", "children", "out of threads"}

Queued(t) == \E i \in Slots : JobQueue[i] = t

(* The children a thread still waits for: added to the queue, and not yet  *)
(* past the FetchAndAdd of their DeleteJob (thread.c:259).                 *)
Unfinished(t) ==
  {c \in Slots : /\ Queued(c)
                 /\ parent[c] = t
                 /\ ~ \E p \in Procs : th[p] = c
                                       /\ pc[p] \in {"alive", "last", "free"}}

(* A user thread is dealt with by at most one processor: two processors    *)
(* that fetch never get the same thread, and a thread that deletes itself  *)
(* is not offered again by its own release.                                *)
OneProcessor == \A p, q \in Procs : p # q /\ th[p] # None => th[p] # th[q]

(* What status means, which no comment of the code says: the status of a   *)
(* live thread is the number of its unfinished children, plus one while a  *)
(* processor holds it, plus one while it deletes itself; a thread that is  *)
(* dead or was never created has status -1.                                *)
StatusCounts ==
  \A t \in Slots :
    LET held(s) == {p \in Procs : th[p] = t /\ pc[p] \in s} IN
    /\ Queued(t) /\ held({"free"}) = {} =>
         status[t] = Cardinality(Unfinished(t)) + Cardinality(held(Labels))
                     + Cardinality(held({"unmap"}))
    /\ ~ used[t] \/ held({"free"}) # {} => status[t] = -1

(* Once there are no more jobs, no thread is in the queue and no processor *)
(* has one in its hands: none leaves with a thread it has fetched, though  *)
(* work tests EmptyPlain after FetchJob without looking at its result.     *)
EmptyMeansNoJobs ==
  EmptyPlain => /\ \A i \in Slots : JobQueue[i] = None
                /\ \A p \in Procs : th[p] = None

(* A thread that has yielded is not fetched while a child it spawned is    *)
(* running or waiting to run: Yield after Spawn is a join.                 *)
YieldJoins ==
  [][\A p \in Procs : FetchJob(p) /\ th'[p] # None /\ request[th'[p]] = "Yield"
                        => Unfinished(th'[p]) = {}]_vars

(* Every processor stops in the end, unless an assert ended the program.   *)
ProcessorsStop == <>(~Running \/ \A p \in Procs : pc[p] = "exited")

(* assert(th->parent->status >= 0), "Parent must not have already          *)
(* finished" (thread.c:260): it never fails when every client thread joins *)
(* its children before it returns.                                         *)
ParentNotFinished == stopped # "parent"

(* assert(th->status == 1), "FetchJob increments status from 0 to 1"       *)
(* (thread.c:991): it never fails.                                         *)
HeldOnce == stopped # "work"

(* "Wake up main thread if there are no more jobs" (thread.c:240): once    *)
(* there are none, the main thread gets past its wait.                     *)
MainWakes == <>(~Running \/ main \in {"procs", "returned"})

(* "Wait until all the processors have stopped" (thread.c:1170): when      *)
(* thread_go returns, they have.                                           *)
ProcessorsStopFirst ==
  main = "returned" => \A p \in Procs : pc[p] = "exited"
=============================================================================
