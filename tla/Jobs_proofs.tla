----------------------------- MODULE Jobs_proofs -----------------------------
(***************************************************************************)
(* Safety of the job queue for any number of processors, any queue length  *)
(* and any client programs, those that never join included:                *)
(* Spec => []JInv, and what follows from JInv.                             *)
(*                                                                         *)
(* StatusCounts counts processors and children, which is not what a step   *)
(* changes; JInv states the same with what is true of one thread           *)
(* (StatusIs), and says besides which threads are in the queue, held by a  *)
(* processor or on their way into the queue, that nobody waits for a child *)
(* of a thread that is gone, and that the count of the queue is exact.     *)
(***************************************************************************)
EXTENDS Jobs, NatLemmas

(* The labels at which a processor has a thread in its hands.              *)
Holding == {"resume", "run", "add", "release", "unmap", "parent", "alive",
            "last", "free"}

HeldBy(t, S) == \E p \in Procs : th[p] = t /\ pc[p] \in S

(* A thread counts itself out of its parent when it passes "parent".       *)
Left(t) == HeldBy(t, {"alive", "last", "free"})

One(b) == IF b THEN 1 ELSE 0

(* TypeOK without the bounds that take counting.                           *)
Types ==
  /\ status \in [Slots -> Int]
  /\ used \in [Slots -> BOOLEAN]
  /\ parent \in [Slots -> Slots \cup {None}]
  /\ request \in [Slots -> {"Start", "Yield", "GC"}]
  /\ body \in [Slots -> Programs]
  /\ at \in [Slots -> Nat]
  /\ JobQueue \in [Slots -> Slots \cup {None}]
  /\ activeThread \in Int
  /\ EmptyPlain \in BOOLEAN
  /\ NumActiveProc \in Int
  /\ pc \in [Procs -> Labels]
  /\ th \in [Procs -> Slots \cup {None}]
  /\ child \in [Procs -> Slots \cup {None}]
  /\ main \in {"create", "test", "sleep", "asleep", "procs", "returned"}
  /\ stopped \in {"no", "work", "parent", "children", "out of threads"}

(* A processor has a thread where its code says so, from the queue.        *)
Hands ==
  \A p \in Procs :
    /\ pc[p] \in Holding => th[p] # None
    /\ th[p] # None => pc[p] \in Holding \cup {"poll"} /\ Queued(th[p])
    /\ pc[p] \in {"parent", "alive"} => parent[th[p]] # None

(* The entries of the queue, and their number.                             *)
Filled == {i \in Slots : JobQueue[i] # None}

QueueOK ==
  /\ \A i, k \in Slots : JobQueue[i] # None /\ JobQueue[i] = JobQueue[k] => i = k
  /\ activeThread = Cardinality(Filled)
  /\ EmptyPlain \/ (\E p \in Procs : pc[p] = "empty") => Filled = {}

(* A thread that was created and is not yet in the queue.                  *)
ChildOK ==
  /\ \A p \in Procs :
       /\ child[p] # None <=> pc[p] = "add"
       /\ pc[p] = "add" => /\ ~ Queued(child[p])
                           /\ status[child[p]] = 0
                           /\ parent[child[p]] = th[p]
  /\ \A p, q \in Procs : p # q /\ child[p] # None => child[p] # child[q]
  /\ \A t \in Slots : used[t] <=> Queued(t) \/ \E p \in Procs : child[p] = t

(* Whoever still waits for a child is in the queue, and alive.             *)
ParentOK ==
  \A t \in Slots :
    /\ parent[t] # t
    /\ Unfinished(t) # {} => Queued(t) /\ ~ HeldBy(t, {"free"})

StatusIs ==
  \A t \in Slots :
    /\ Queued(t) /\ ~ HeldBy(t, {"free"}) =>
         status[t] = Cardinality(Unfinished(t)) + One(HeldBy(t, Labels))
                     + One(HeldBy(t, {"unmap"}))
    /\ ~ used[t] \/ HeldBy(t, {"free"}) => status[t] = -1

ActiveIs ==
  NumActiveProc = Cardinality({p \in Procs : pc[p] \notin {"none", "start",
                                                           "exited"}})

JInv == /\ Types /\ Hands /\ OneProcessor /\ QueueOK /\ ChildOK
        /\ ParentOK /\ StatusIs /\ ActiveIs

----------------------------------------------------------------------------
(* Facts about sets and labels.                                            *)

(* The slots and the processors are finitely many.                         *)
LEMMA Finite ==
  /\ IsFiniteSet(Slots) /\ Cardinality(Slots) = NumThread
  /\ IsFiniteSet(Procs)
  /\ None \notin Slots
<1>1. 0 \in Int /\ NumThread - 1 \in Int /\ NumThread \in Nat \ {0}
  BY JobsAssumption
<1>2. IsFiniteSet(Slots) /\ Cardinality(Slots) = NumThread
  BY <1>1, FS_Interval DEF Slots
<1>. QED
  BY <1>1, <1>2, JobsAssumption DEF Slots, None

(* The labels of the sets the invariant speaks of.                         *)
LEMMA LabelSets ==
  /\ Holding \subseteq Labels
  /\ {"free"} \subseteq Labels /\ {"unmap"} \subseteq Labels
  /\ {"alive", "last", "free"} \subseteq Labels
BY DEF Holding, Labels

(* What one processor at a label of S says of the thread it holds.         *)
LEMMA HeldIs ==
  ASSUME NEW t, NEW S, NEW p \in Procs, th[p] = t, pc[p] \in S
  PROVE  HeldBy(t, S)
BY DEF HeldBy

(* Only one processor can hold a thread.                                   *)
LEMMA HeldOnly ==
  ASSUME Types, OneProcessor, NEW p \in Procs, th[p] # None, NEW S
  PROVE  HeldBy(th[p], S) <=> pc[p] \in S
BY DEF HeldBy, OneProcessor, Types

(* The children a thread waits for, as a set of slots.                     *)
LEMMA UnfinishedFinite ==
  ASSUME NEW t
  PROVE  /\ IsFiniteSet(Unfinished(t)) /\ Cardinality(Unfinished(t)) \in Nat
         /\ Cardinality(Unfinished(t)) <= NumThread
<1>1. Unfinished(t) \in SUBSET Slots
  BY DEF Unfinished
<1>. QED
  BY <1>1, Finite, FS_Subset, FS_CardinalityType

----------------------------------------------------------------------------
(* Steps that change neither the queue nor what the threads wait for.      *)

(* What is said of parents and status stays true while no thread is taken, *)
(* let go, or moved past a label that counts.                              *)
LEMMA ViewKeeps ==
  ASSUME ParentOK, StatusIs, UNCHANGED <<status, used, parent, JobQueue>>,
         \A t \in Slots : /\ Left(t)' <=> Left(t)
                          /\ HeldBy(t, {"free"})' <=> HeldBy(t, {"free"})
                          /\ HeldBy(t, {"unmap"})' <=> HeldBy(t, {"unmap"})
                          /\ HeldBy(t, Labels)' <=> HeldBy(t, Labels)
  PROVE  ParentOK' /\ StatusIs'
<1>1. \A t \in Slots : Queued(t)' <=> Queued(t)
  BY DEF Queued
<1>2. \A t \in Slots : Unfinished(t)' = Unfinished(t)
  BY <1>1 DEF Unfinished, Left, HeldBy
<1>3. ParentOK'
  BY <1>1, <1>2 DEF ParentOK
<1>4. StatusIs'
  BY <1>1, <1>2 DEF StatusIs, One
<1>. QED
  BY <1>3, <1>4

(* The processors that run are the same while none starts or exits.        *)
LEMMA ActiveKeeps ==
  ASSUME Types, ActiveIs, NEW p \in Procs, NEW to, pc' = [pc EXCEPT ![p] = to],
         pc[p] \in {"none", "start", "exited"} <=> to \in {"none", "start", "exited"},
         NumActiveProc' = NumActiveProc
  PROVE  ActiveIs'
<1>1. {q \in Procs : pc'[q] \notin {"none", "start", "exited"}}
        = {q \in Procs : pc[q] \notin {"none", "start", "exited"}}
  BY DEF Types
<1>. QED
  BY <1>1 DEF ActiveIs

(* A processor moves between labels that say the same of its thread.       *)
Alike(from, to) ==
  /\ from \in {"alive", "last", "free"} <=> to \in {"alive", "last", "free"}
  /\ from = "free" <=> to = "free"
  /\ from = "unmap" <=> to = "unmap"
  /\ from = "add" <=> to = "add"
  /\ to = "empty" => from = "empty"
  /\ to \in {"parent", "alive"} => from \in {"parent", "alive"}

(* Such a move keeps everything but, perhaps, the count of the processors. *)
LEMMA MoveKeeps ==
  ASSUME JInv, Types', NEW p \in Procs, NEW to \in Labels,
         pc' = [pc EXCEPT ![p] = to], Alike(pc[p], to),
         to \in Holding => th[p] # None,
         th[p] # None => to \in Holding \cup {"poll"},
         UNCHANGED <<status, used, parent, JobQueue, activeThread, EmptyPlain,
                     th, child>>
  PROVE  /\ Hands' /\ OneProcessor' /\ QueueOK' /\ ChildOK'
         /\ ParentOK' /\ StatusIs'
<1>1. \A t : Queued(t)' <=> Queued(t)
  BY DEF Queued
<1>2. \A q \in Procs : /\ q # p => pc'[q] = pc[q]
                       /\ pc'[p] = to
  BY DEF JInv, Types
<1>3. Hands'
  BY <1>1, <1>2 DEF JInv, Hands, Types, Alike
<1>4. OneProcessor'
  BY DEF JInv, OneProcessor
<1>5. QueueOK'
  BY <1>2 DEF JInv, QueueOK, Filled, Alike
<1>6. ChildOK'
  BY <1>1, <1>2 DEF JInv, ChildOK, Alike
<1>7. \A t \in Slots : /\ Left(t)' <=> Left(t)
                       /\ HeldBy(t, {"free"})' <=> HeldBy(t, {"free"})
                       /\ HeldBy(t, {"unmap"})' <=> HeldBy(t, {"unmap"})
                       /\ HeldBy(t, Labels)' <=> HeldBy(t, Labels)
  BY <1>2 DEF JInv, Types, Left, HeldBy, Alike
<1>8. ParentOK' /\ StatusIs'
  BY <1>7, ViewKeeps DEF JInv
<1>. QED
  BY <1>3, <1>4, <1>5, <1>6, <1>8

(* A step of the main thread, and the loss of a whole program to an        *)
(* assertion, change nothing the invariant speaks of but their own state.  *)
LEMMA StillKeeps ==
  ASSUME JInv, UNCHANGED <<threads, queue, procs>>,
         main' \in {"create", "test", "sleep", "asleep", "procs", "returned"},
         stopped' \in {"no", "work", "parent", "children", "out of threads"}
  PROVE  JInv'
<1>1. /\ UNCHANGED <<status, used, parent, request, body, at, JobQueue,
                     activeThread, EmptyPlain, NumActiveProc, pc, th, child>>
      /\ Types
  BY DEF threads, queue, procs, JInv
<1>2. \A t : Queued(t)' <=> Queued(t)
  BY <1>1 DEF Queued
<1>3. \A t, S : HeldBy(t, S)' <=> HeldBy(t, S)
  BY <1>1 DEF HeldBy
<1>4. ParentOK' /\ StatusIs'
  BY <1>1, <1>3, ViewKeeps DEF JInv, Left
<1>5. Types'
  BY <1>1 DEF Types
<1>6. Hands' /\ OneProcessor' /\ QueueOK' /\ ChildOK' /\ ActiveIs'
  BY <1>1, <1>2 DEF JInv, Hands, OneProcessor, QueueOK, Filled, ChildOK, ActiveIs
<1>. QED
  BY <1>4, <1>5, <1>6 DEF JInv

(* The steps of a processor that only move it.                             *)
LEMMA MoveSteps ==
  ASSUME JInv, NEW p \in Procs,
         CreateProc(p) \/ TestEmpty(p) \/ Resume(p) \/ ParentAlive(p)
           \/ OutOfThreads(p) \/ CondSignal(p)
  PROVE  JInv'
<1>. USE DEF Labels, Alike
<1>1. CASE CreateProc(p)
  <2>1. pc' = [pc EXCEPT ![p] = "start"] /\ pc[p] = "none"
    BY <1>1 DEF CreateProc, Goto
  <2>2. Types'
    BY <1>1, <2>1 DEF JInv, Types, CreateProc, threads, queue
  <2>3. ActiveIs'
    BY <1>1, <2>1, ActiveKeeps DEF CreateProc, JInv
  <2>. QED
    BY <1>1, <2>1, <2>2, <2>3, MoveKeeps
    DEF JInv, CreateProc, threads, queue, Hands, Holding
<1>2. CASE TestEmpty(p)
  <2>. DEFINE to == IF EmptyPlain THEN "exit"
                    ELSE IF th[p] = None THEN "fetch" ELSE "resume"
  <2>1. pc' = [pc EXCEPT ![p] = to] /\ pc[p] = "poll"
    BY <1>2 DEF TestEmpty, Goto
  <2>2. EmptyPlain => th[p] = None
    BY DEF JInv, QueueOK, Filled, Hands, Queued, Types
  <2>3. /\ to \in {"exit", "fetch", "resume"}
        /\ to = "resume" <=> th[p] # None
    BY <2>2
  <2>. HIDE DEF to
  <2>4. Types'
    BY <1>2, <2>1, <2>3 DEF JInv, Types, TestEmpty, threads, queue
  <2>5. ActiveIs'
    BY <1>2, <2>1, <2>3, ActiveKeeps DEF TestEmpty, JInv
  <2>. QED
    BY <1>2, <2>1, <2>3, <2>4, <2>5, MoveKeeps
    DEF JInv, TestEmpty, threads, queue, Holding
<1>3. CASE Resume(p)
  <2>1. CASE status[th[p]] = 1
    <3>1. pc' = [pc EXCEPT ![p] = "run"] /\ pc[p] = "resume" /\ stopped' = stopped
      BY <1>3, <2>1 DEF Resume, Assert, Goto
    <3>2. Types'
      BY <1>3, <3>1 DEF JInv, Types, Resume, threads, queue
    <3>3. ActiveIs'
      BY <1>3, <3>1, ActiveKeeps DEF Resume, JInv
    <3>. QED
      BY <1>3, <3>1, <3>2, <3>3, MoveKeeps
      DEF JInv, Resume, threads, queue, Hands, Holding
  <2>2. CASE status[th[p]] # 1
    <3>1. pc' = pc /\ stopped' = "work"
      BY <1>3, <2>2 DEF Resume, Assert, Goto, JInv, Types
    <3>. QED
      BY <1>3, <3>1, StillKeeps DEF Resume, procs, JInv, Types
  <2>. QED
    BY <2>1, <2>2
<1>4. CASE ParentAlive(p)
  <2>1. CASE status[parent[th[p]]] >= 0
    <3>1. pc' = [pc EXCEPT ![p] = "last"] /\ pc[p] = "alive" /\ stopped' = stopped
      BY <1>4, <2>1 DEF ParentAlive, Assert, Goto
    <3>2. Types'
      BY <1>4, <3>1 DEF JInv, Types, ParentAlive, threads, queue
    <3>3. ActiveIs'
      BY <1>4, <3>1, ActiveKeeps DEF ParentAlive, JInv
    <3>. QED
      BY <1>4, <3>1, <3>2, <3>3, MoveKeeps
      DEF JInv, ParentAlive, threads, queue, Hands, Holding
  <2>2. CASE ~ (status[parent[th[p]]] >= 0)
    <3>1. pc' = pc /\ stopped' = "parent"
      BY <1>4, <2>2 DEF ParentAlive, Assert, Goto, JInv, Types
    <3>. QED
      BY <1>4, <3>1, StillKeeps DEF ParentAlive, procs, JInv, Types
  <2>. QED
    BY <2>1, <2>2
<1>5. CASE OutOfThreads(p)
  BY <1>5, StillKeeps DEF OutOfThreads, JInv, Types
<1>6. CASE CondSignal(p)
  <2>1. pc' = [pc EXCEPT ![p] = "fetch"] /\ pc[p] = "signal"
    BY <1>6 DEF CondSignal, Goto
  <2>2. Types'
    BY <1>6, <2>1 DEF JInv, Types, CondSignal, threads, queue
  <2>3. ActiveIs'
    BY <1>6, <2>1, ActiveKeeps DEF CondSignal, JInv
  <2>. QED
    BY <1>6, <2>1, <2>2, <2>3, MoveKeeps
    DEF JInv, CondSignal, threads, queue, Hands, Holding
<1>. QED
  BY <1>1, <1>2, <1>3, <1>4, <1>5, <1>6

(* A processor starts, or exits with nothing in its hands.                 *)
LEMMA ProcSteps ==
  ASSUME JInv, NEW p \in Procs, ProcGo(p) \/ PthreadExit(p)
  PROVE  JInv'
<1>. USE DEF Labels, Alike
<1>. DEFINE Run == {q \in Procs : pc[q] \notin {"none", "start", "exited"}}
<1>1. IsFiniteSet(Run)
  BY Finite, FS_Subset
<1>2. CASE ProcGo(p)
  <2>1. pc' = [pc EXCEPT ![p] = "fetch"] /\ pc[p] = "start"
    BY <1>2 DEF ProcGo, Goto
  <2>2. Types'
    <3>1. NumActiveProc \in Int
      BY DEF JInv, Types
    <3>2. NumActiveProc' = NumActiveProc + 1
      BY <1>2 DEF ProcGo
    <3>3. NumActiveProc' \in Int
      BY <3>1, <3>2
    <3>. QED
      BY <1>2, <2>1, <3>3 DEF JInv, Types, ProcGo, threads, queue
  <2>3. ActiveIs'
    <3>1. Run' = Run \cup {p} /\ p \notin Run
      BY <2>1 DEF JInv, Types
    <3>. QED
      BY <1>1, <1>2, <3>1, FS_AddElement DEF JInv, ActiveIs, ProcGo
  <2>4. th[p] = None
    BY <2>1 DEF JInv, Hands, Holding
  <2>5. UNCHANGED <<status, used, parent, JobQueue, activeThread, EmptyPlain,
                    th, child>>
    BY <1>2 DEF ProcGo, threads, queue
  <2>6. /\ Hands' /\ OneProcessor' /\ QueueOK' /\ ChildOK'
        /\ ParentOK' /\ StatusIs'
    BY <2>1, <2>2, <2>4, <2>5, MoveKeeps DEF Holding
  <2>. QED
    BY <2>2, <2>3, <2>6 DEF JInv
<1>3. CASE PthreadExit(p)
  <2>1. pc' = [pc EXCEPT ![p] = "exited"] /\ pc[p] = "exit"
    BY <1>3 DEF PthreadExit, Goto
  <2>2. Types'
    <3>1. NumActiveProc \in Int
      BY DEF JInv, Types
    <3>2. NumActiveProc' = NumActiveProc - 1
      BY <1>3 DEF PthreadExit
    <3>3. NumActiveProc' \in Int
      BY <3>1, <3>2
    <3>. QED
      BY <1>3, <2>1, <3>3 DEF JInv, Types, PthreadExit, threads, queue
  <2>3. ActiveIs'
    <3>1. Run' = Run \ {p} /\ p \in Run
      BY <2>1 DEF JInv, Types
    <3>. QED
      BY <1>1, <1>3, <3>1, FS_RemoveElement DEF JInv, ActiveIs, PthreadExit
  <2>4. th[p] = None
    BY <2>1 DEF JInv, Hands, Holding
  <2>5. UNCHANGED <<status, used, parent, JobQueue, activeThread, EmptyPlain,
                    th, child>>
    BY <1>3 DEF PthreadExit, threads, queue
  <2>6. /\ Hands' /\ OneProcessor' /\ QueueOK' /\ ChildOK'
        /\ ParentOK' /\ StatusIs'
    BY <2>1, <2>2, <2>4, <2>5, MoveKeeps DEF Holding
  <2>. QED
    BY <2>2, <2>3, <2>6 DEF JInv
<1>. QED
  BY <1>2, <1>3

(* A call that asks the processor for something keeps the thread held.     *)
LEMMA CallSteps ==
  ASSUME JInv, NEW p \in Procs, GCFromMutator(p) \/ YieldRest(p)
  PROVE  JInv'
<1>. DEFINE to == IF GCFromMutator(p) THEN "resume" ELSE "release"
<1>1. /\ pc[p] = "run" /\ at' = [at EXCEPT ![th[p]] = @ + 1]
      /\ \/ pc' = [pc EXCEPT ![p] = "resume"] /\ GCFromMutator(p)
         \/ pc' = [pc EXCEPT ![p] = "release"] /\ YieldRest(p)
      /\ \E r \in {"GC", "Yield"} : request' = [request EXCEPT ![th[p]] = r]
      /\ UNCHANGED <<status, used, parent, body, JobQueue, activeThread,
                     EmptyPlain, NumActiveProc, th, child, main, stopped>>
  BY DEF GCFromMutator, YieldRest, Makes, Call, Goto, queue
<1>2. PICK lab \in {"resume", "release"} : pc' = [pc EXCEPT ![p] = lab]
  BY <1>1
<1>3. th[p] \in Slots
  BY <1>1 DEF JInv, Types, Hands, Holding
<1>4. at' \in [Slots -> Nat]
  <2>1. at \in [Slots -> Nat]
    BY DEF JInv, Types
  <2>2. at[th[p]] + 1 \in Nat
    BY <1>3, <2>1
  <2>. QED
    BY <1>1, <2>1, <2>2
<1>5. Types'
  BY ZenonT(30), <1>1, <1>2, <1>4 DEF JInv, Types, Labels
<1>6. ActiveIs'
  BY <1>1, <1>2, ActiveKeeps DEF JInv
<1>7. /\ Hands' /\ OneProcessor' /\ QueueOK' /\ ChildOK'
      /\ ParentOK' /\ StatusIs'
  <2>1. lab \in Labels /\ lab \in Holding /\ th[p] # None
    BY <1>3, Finite DEF Labels, Holding
  <2>2. Alike(pc[p], lab)
    BY <1>1 DEF Alike
  <2>. QED
    BY <1>1, <1>2, <1>5, <2>1, <2>2, MoveKeeps
<1>. QED
  BY <1>5, <1>6, <1>7 DEF JInv

(* When the last thread has left the queue, no processor has one.          *)
LEMMA SetEmptyStep ==
  ASSUME JInv, NEW p \in Procs, SetEmpty(p)
  PROVE  JInv'
<1>1. /\ pc[p] = "empty" /\ pc' = [pc EXCEPT ![p] = "signal"] /\ EmptyPlain' = TRUE
      /\ UNCHANGED <<status, used, parent, request, body, at, JobQueue,
                     activeThread, NumActiveProc, th, child, main, stopped>>
  BY DEF SetEmpty, Goto, threads
<1>2. th[p] = None /\ Filled = {}
  BY <1>1 DEF JInv, Hands, Holding, QueueOK
<1>3. Types'
  BY <1>1 DEF JInv, Types, Labels
<1>4. ActiveIs'
  BY <1>1, ActiveKeeps DEF JInv
<1>5. \A q \in Procs : (q # p => pc'[q] = pc[q]) /\ pc'[p] = "signal"
  BY <1>1 DEF JInv, Types
<1>6. \A t : Queued(t)' <=> Queued(t)
  BY <1>1 DEF Queued
<1>7. Hands' /\ OneProcessor' /\ ChildOK'
  BY <1>1, <1>2, <1>5, <1>6 DEF JInv, Hands, Holding, OneProcessor, ChildOK
<1>8. QueueOK'
  BY <1>1, <1>2, <1>5 DEF JInv, QueueOK, Filled
<1>9. ParentOK' /\ StatusIs'
  <2>1. \A t \in Slots : /\ Left(t)' <=> Left(t)
                         /\ HeldBy(t, {"free"})' <=> HeldBy(t, {"free"})
                         /\ HeldBy(t, {"unmap"})' <=> HeldBy(t, {"unmap"})
                         /\ HeldBy(t, Labels)' <=> HeldBy(t, Labels)
    BY <1>1, <1>5 DEF JInv, Types, Left, HeldBy, Labels
  <2>. QED
    BY <1>1, <2>1, ViewKeeps DEF JInv
<1>. QED
  BY <1>3, <1>4, <1>7, <1>8, <1>9 DEF JInv

(* A step of a processor that holds or takes thread t, with no change of   *)
(* the queue and the children: what is left to say is how status follows.  *)
LEMMA HoldKeeps ==
  ASSUME JInv, Types', NEW p \in Procs, NEW to \in Labels,
         pc' = [pc EXCEPT ![p] = to],
         pc[p] # "add", to \notin {"add", "empty", "none", "start", "exited"},
         pc[p] \notin {"none", "start", "exited"},
         th' = [th EXCEPT ![p] = th'[p]],
         to \in Holding => th'[p] # None,
         th'[p] # None => /\ to \in Holding \cup {"poll"} /\ Queued(th'[p])
                          /\ th'[p] = th[p] \/ ~ HeldBy(th'[p], Labels),
         to \in {"parent", "alive"} => parent[th'[p]] # None,
         \A q \in Procs : pc[q] = "add" => status'[child[q]] = status[child[q]],
         UNCHANGED <<used, parent, JobQueue, activeThread, EmptyPlain,
                     NumActiveProc, child>>
  PROVE  Hands' /\ OneProcessor' /\ QueueOK' /\ ChildOK' /\ ActiveIs'
<1>1. \A t : Queued(t)' <=> Queued(t)
  BY DEF Queued
<1>2. \A q \in Procs : /\ q # p => pc'[q] = pc[q] /\ th'[q] = th[q]
                       /\ pc'[p] = to
  BY DEF JInv, Types
<1>3. Hands'
  <2>1. \A q \in Procs : /\ pc'[q] \in Holding => th'[q] # None
                         /\ th'[q] # None =>
                              pc'[q] \in Holding \cup {"poll"} /\ Queued(th'[q])
                         /\ pc'[q] \in {"parent", "alive"} => parent[th'[q]] # None
    <3>. TAKE q \in Procs
    <3>1. CASE q = p
      BY <1>2, <3>1
    <3>2. CASE q # p
      BY <1>2, <3>2 DEF JInv, Hands
    <3>. QED
      BY <3>1, <3>2
  <2>. QED
    BY <1>1, <2>1 DEF Hands
<1>4. OneProcessor'
  <2>1. \A q \in Procs : q # p /\ th'[p] # None => th[q] # th'[p]
    BY DEF JInv, OneProcessor, HeldBy, Types
  <2>. QED
    BY <1>2, <2>1 DEF JInv, OneProcessor
<1>5. QueueOK'
  BY <1>2 DEF JInv, QueueOK, Filled
<1>6. ChildOK'
  BY <1>1, <1>2 DEF JInv, ChildOK
<1>7. ActiveIs'
  BY ActiveKeeps DEF JInv
<1>. QED
  BY <1>3, <1>4, <1>5, <1>6, <1>7

(* FetchJob finds the highest slot with a ready thread.                    *)
LEMMA HighestReady ==
  ASSUME Ready # {}
  PROVE  Highest(Ready) \in Ready
<1>1. Ready \in SUBSET (0 .. NumThread - 1) /\ NumThread - 1 \in Nat
  BY JobsAssumption DEF Ready, Slots
<1>2. \E i \in Ready : \A k \in Ready : k <= i
  BY <1>1, NatMax
<1>. QED
  BY <1>2 DEF Highest

(* A thread whose status is 0 is held by no processor.                     *)
LEMMA ReadyNotHeld ==
  ASSUME JInv, NEW t \in Slots, Queued(t), status[t] = 0
  PROVE  ~ HeldBy(t, Labels) /\ Unfinished(t) = {}
<1>1. ~ HeldBy(t, {"free"})
  BY DEF JInv, StatusIs
<1>2. 0 = Cardinality(Unfinished(t)) + One(HeldBy(t, Labels))
            + One(HeldBy(t, {"unmap"}))
  BY <1>1 DEF JInv, StatusIs
<1>3. /\ One(HeldBy(t, Labels)) \in 0 .. 1 /\ One(HeldBy(t, {"unmap"})) \in 0 .. 1
      /\ One(HeldBy(t, Labels)) = 0 => ~ HeldBy(t, Labels)
  BY DEF One
<1>4. Cardinality(Unfinished(t)) = 0 /\ One(HeldBy(t, Labels)) = 0
  BY <1>2, <1>3, UnfinishedFinite
<1>. QED
  BY <1>3, <1>4, UnfinishedFinite, FS_EmptySet

(* FetchJob takes a thread nobody has, and counts itself.                  *)
LEMMA FetchStep ==
  ASSUME JInv, NEW p \in Procs, FetchJob(p)
  PROVE  JInv'
<1>1. /\ pc[p] = "fetch" /\ pc' = [pc EXCEPT ![p] = "poll"]
      /\ UNCHANGED <<used, parent, request, body, at, JobQueue, activeThread,
                     EmptyPlain, NumActiveProc, child, main, stopped>>
  BY DEF FetchJob, Goto, queue
<1>2. th[p] = None
  BY <1>1 DEF JInv, Hands, Holding
<1>3. CASE Ready = {}
  <2>1. UNCHANGED <<th, status>>
    BY <1>3 DEF FetchJob
  <2>2. Types'
    BY <1>1, <2>1 DEF JInv, Types, Labels
  <2>3. ActiveIs'
    BY <1>1, ActiveKeeps DEF JInv
  <2>4. /\ Hands' /\ OneProcessor' /\ QueueOK' /\ ChildOK'
        /\ ParentOK' /\ StatusIs'
    <3>1. "poll" \in Labels /\ Alike(pc[p], "poll") /\ "poll" \notin Holding
      BY <1>1 DEF Labels, Alike, Holding
    <3>. QED
      BY <1>1, <1>2, <2>1, <2>2, <3>1, MoveKeeps
  <2>. QED
    BY <2>2, <2>3, <2>4 DEF JInv
<1>4. CASE Ready # {}
  <2>. DEFINE t == JobQueue[Highest(Ready)]
  <2>1. t \in Slots /\ Queued(t) /\ status[t] = 0
    BY <1>4, HighestReady DEF Ready, JInv, Types, Queued
  <2>2. th' = [th EXCEPT ![p] = t] /\ status' = [status EXCEPT ![t] = @ + 1]
    BY <1>4 DEF FetchJob, Add
  <2>. HIDE DEF t
  <2>3. ~ HeldBy(t, Labels) /\ Unfinished(t) = {}
    BY <2>1, ReadyNotHeld
  <2>4. status' = [status EXCEPT ![t] = 1] /\ status' \in [Slots -> Int]
    <3>1. status[t] + 1 = 1
      BY <2>1
    <3>2. status' = [status EXCEPT ![t] = 1]
      BY <2>2, <3>1
    <3>3. status \in [Slots -> Int]
      BY DEF JInv, Types
    <3>. QED
      BY <2>1, <3>2, <3>3
  <2>5. Types'
    BY <1>1, <2>1, <2>2, <2>4 DEF JInv, Types, Labels
  <2>6. th'[p] = t /\ \A q \in Procs : q # p => pc'[q] = pc[q] /\ th'[q] = th[q]
    BY <1>1, <2>2 DEF JInv, Types
  <2>7. \A q \in Procs : pc[q] = "add" => status'[child[q]] = status[child[q]]
    BY <2>1, <2>4 DEF JInv, ChildOK
  <2>8. Hands' /\ OneProcessor' /\ QueueOK' /\ ChildOK' /\ ActiveIs'
    <3>1. "poll" \in Labels /\ "poll" \notin Holding
      BY DEF Labels, Holding
    <3>. QED
      BY <1>1, <2>1, <2>2, <2>3, <2>5, <2>6, <2>7, <3>1, HoldKeeps
  <2>9. \A u : Queued(u)' <=> Queued(u)
    BY <1>1 DEF Queued
  <2>10. \A u \in Slots :
           /\ Left(u)' <=> Left(u)
           /\ HeldBy(u, {"free"})' <=> HeldBy(u, {"free"})
           /\ HeldBy(u, {"unmap"})' <=> HeldBy(u, {"unmap"})
           /\ HeldBy(u, Labels)' <=> HeldBy(u, Labels) \/ u = t
    <3>1. pc'[p] = "poll" /\ th[p] = None /\ None \notin Slots
      BY <1>1, <1>2, Finite DEF JInv, Types
    <3>2. pc' \in [Procs -> Labels]
      BY <2>5 DEF Types
    <3>. QED
      BY <1>1, <2>6, <3>1, <3>2 DEF HeldBy, Left, JInv, Types
  <2>11. \A u \in Slots : Unfinished(u)' = Unfinished(u)
    BY <1>1, <2>9, <2>10 DEF Unfinished, Left, HeldBy
  <2>12. ParentOK'
    BY <1>1, <2>9, <2>10, <2>11 DEF JInv, ParentOK
  <2>13. StatusIs'
    <3>. SUFFICES ASSUME NEW u \in Slots
                  PROVE
         /\ Queued(u)' /\ ~ HeldBy(u, {"free"})' =>
              status'[u] = Cardinality(Unfinished(u)') + One(HeldBy(u, Labels)')
                           + One(HeldBy(u, {"unmap"})')
         /\ ~ used'[u] \/ HeldBy(u, {"free"})' => status'[u] = -1
      BY DEF StatusIs, One
    <3>1. CASE u # t
      <4>1. status'[u] = status[u] /\ used'[u] = used[u]
        BY <1>1, <2>4, <3>1 DEF JInv, Types
      <4>. QED
        BY <2>9, <2>10, <2>11, <3>1, <4>1 DEF JInv, StatusIs, One
    <3>2. CASE u = t
      <4>1. status'[u] = 1
        BY <2>1, <2>4, <3>2 DEF JInv, Types
      <4>2. Cardinality(Unfinished(u)') = 0
        BY <2>3, <2>11, <3>2, FS_EmptySet
      <4>3. HeldBy(u, Labels)' /\ ~ HeldBy(u, {"unmap"})' /\ ~ HeldBy(u, {"free"})'
        BY <2>3, <2>10, <3>2, LabelSets DEF HeldBy
      <4>4. used'[u]
        BY <1>1, <2>1, <3>2 DEF JInv, ChildOK
      <4>. QED
        BY <4>1, <4>2, <4>3, <4>4 DEF One
    <3>. QED
      BY <3>1, <3>2
  <2>. QED
    BY <2>5, <2>8, <2>12, <2>13 DEF JInv
<1>. QED
  BY <1>3, <1>4

(* When a processor moves and keeps its thread, only that thread is held   *)
(* differently.                                                            *)
LEMMA HoldMoves ==
  ASSUME Types, OneProcessor, NEW p \in Procs, th[p] # None, NEW to,
         pc' = [pc EXCEPT ![p] = to], th' = th, NEW u, NEW S
  PROVE  /\ u # th[p] => (HeldBy(u, S)' <=> HeldBy(u, S))
         /\ u = th[p] => (HeldBy(u, S) <=> pc[p] \in S)
         /\ u = th[p] => (HeldBy(u, S)' <=> to \in S)
<1>1. \A q \in Procs : (q # p => pc'[q] = pc[q]) /\ pc'[p] = to
  BY DEF Types
<1>. QED
  BY <1>1 DEF HeldBy, OneProcessor

(* When a processor gives its thread up, nobody has it.                    *)
LEMMA HoldEnds ==
  ASSUME Types, OneProcessor, NEW p \in Procs, th[p] # None, NEW to,
         pc' = [pc EXCEPT ![p] = to], th' = [th EXCEPT ![p] = None],
         NEW u \in Slots, NEW S
  PROVE  /\ u # th[p] => (HeldBy(u, S)' <=> HeldBy(u, S))
         /\ u = th[p] => (HeldBy(u, S) <=> pc[p] \in S)
         /\ u = th[p] => ~ HeldBy(u, S)'
<1>1. /\ \A q \in Procs : q # p => pc'[q] = pc[q] /\ th'[q] = th[q]
      /\ th'[p] = None /\ None # u
  BY Finite DEF Types
<1>2. \A q \in Procs : q # p => th[q] # th[p]
  BY DEF OneProcessor
<1>. QED
  BY <1>1, <1>2 DEF HeldBy

(* A thread on its way into the queue has a slot.                          *)
LEMMA ChildIn ==
  ASSUME JInv, NEW q \in Procs, pc[q] = "add"
  PROVE  child[q] \in Slots
<1>1. child \in [Procs -> Slots \cup {None}]
  BY DEF JInv, Types
<1>2. child[q] # None
  BY DEF JInv, ChildOK
<1>. QED
  BY <1>1, <1>2

(* The thread a processor holds is in the queue, and its status says why   *)
(* it is not ready.                                                        *)
LEMMA HeldStatus ==
  ASSUME JInv, NEW p \in Procs, pc[p] \in Holding
  PROVE  /\ th[p] \in Slots /\ Queued(th[p]) /\ used[th[p]]
         /\ th[p] # None
         /\ pc[p] # "free" =>
              status[th[p]] = Cardinality(Unfinished(th[p])) + 1
                              + One(pc[p] = "unmap")
         /\ pc[p] = "free" => Unfinished(th[p]) = {}
         /\ \A q \in Procs : pc[q] = "add" => child[q] # th[p]
<1>1. th[p] \in Slots /\ th[p] # None /\ Queued(th[p])
  BY DEF JInv, Types, Hands
<1>2. \A S : HeldBy(th[p], S) <=> pc[p] \in S
  BY <1>1, HeldOnly DEF JInv
<1>3. HeldBy(th[p], Labels)
  BY <1>2 DEF JInv, Types
<1>4. used[th[p]] /\ \A q \in Procs : pc[q] = "add" => child[q] # th[p]
  BY <1>1 DEF JInv, ChildOK
<1>5. pc[p] = "free" => Unfinished(th[p]) = {}
  BY <1>1, <1>2 DEF JInv, ParentOK
<1>6. ASSUME pc[p] # "free"
      PROVE  status[th[p]] = Cardinality(Unfinished(th[p])) + 1
                             + One(pc[p] = "unmap")
  BY <1>1, <1>2, <1>3, <1>6 DEF JInv, StatusIs, One
<1>. QED
  BY <1>1, <1>4, <1>5, <1>6

(* ReleaseJob after a yield gives the thread back.                         *)
LEMMA ReleaseStep ==
  ASSUME JInv, NEW p \in Procs, ReleaseJob(p)
  PROVE  JInv'
<1>0. PICK t : t = th[p]
  OBVIOUS
<1>1. /\ pc[p] = "release" /\ pc' = [pc EXCEPT ![p] = "fetch"]
      /\ status' = [status EXCEPT ![t] = @ - 1]
      /\ th' = [th EXCEPT ![p] = None]
      /\ UNCHANGED <<used, parent, request, body, at, JobQueue, activeThread,
                     EmptyPlain, NumActiveProc, child, main, stopped>>
  BY <1>0 DEF ReleaseJob, Goto, Add, queue
<1>2. /\ t \in Slots /\ Queued(t) /\ used[t] /\ t # None
      /\ status[t] = Cardinality(Unfinished(t)) + 1 + One(FALSE)
      /\ \A q \in Procs : pc[q] = "add" => child[q] # t
  BY <1>0, <1>1, HeldStatus DEF Holding
<1>3. /\ status' \in [Slots -> Int] /\ status'[t] = Cardinality(Unfinished(t))
      /\ \A u \in Slots : u # t => status'[u] = status[u]
  <2>1. status \in [Slots -> Int]
    BY DEF JInv, Types
  <2>2. status[t] - 1 = Cardinality(Unfinished(t))
    BY <1>2, UnfinishedFinite DEF One
  <2>3. status' = [status EXCEPT ![t] = Cardinality(Unfinished(t))]
    BY <1>1, <2>2
  <2>4. Cardinality(Unfinished(t)) \in Int
    BY UnfinishedFinite
  <2>. QED
    BY <1>2, <2>1, <2>3, <2>4
<1>4. Types'
  BY <1>1, <1>3 DEF JInv, Types, Labels
<1>5. /\ th'[p] = None /\ pc'[p] = "fetch"
      /\ \A q \in Procs : q # p => pc'[q] = pc[q] /\ th'[q] = th[q]
  BY <1>1 DEF JInv, Types
<1>6. Hands' /\ OneProcessor' /\ QueueOK' /\ ChildOK' /\ ActiveIs'
  <2>1. \A q \in Procs : pc[q] = "add" => status'[child[q]] = status[child[q]]
    BY <1>2, <1>3, ChildIn
  <2>2. "fetch" \in Labels /\ "fetch" \notin Holding
    BY DEF Labels, Holding
  <2>. QED
    BY <1>1, <1>4, <1>5, <2>1, <2>2, HoldKeeps
<1>7. \A u : Queued(u)' <=> Queued(u)
  BY <1>1 DEF Queued
<1>8. \A u \in Slots :
        /\ Left(u)' <=> Left(u)
        /\ HeldBy(u, {"free"})' <=> HeldBy(u, {"free"})
        /\ HeldBy(u, {"unmap"})' <=> HeldBy(u, {"unmap"})
        /\ u # t => (HeldBy(u, Labels)' <=> HeldBy(u, Labels))
        /\ ~ HeldBy(t, Labels)' /\ ~ HeldBy(t, {"free"})' /\ ~ HeldBy(t, {"unmap"})'
  <2>1. \A u \in Slots : \A S :
          /\ u # t => (HeldBy(u, S)' <=> HeldBy(u, S))
          /\ u = t => (HeldBy(u, S) <=> "release" \in S) /\ ~ HeldBy(u, S)'
    BY ZenonT(30), <1>1, <1>2, HoldEnds, <1>0 DEF JInv
  <2>. QED
    BY <1>2, <2>1 DEF Left
<1>9. \A u \in Slots : Unfinished(u)' = Unfinished(u)
  BY <1>1, <1>7, <1>8 DEF Unfinished, Left, HeldBy
<1>10. ParentOK'
  BY <1>1, <1>7, <1>8, <1>9 DEF JInv, ParentOK
<1>11. StatusIs'
  <2>. SUFFICES ASSUME NEW u \in Slots
                PROVE
       /\ Queued(u)' /\ ~ HeldBy(u, {"free"})' =>
            status'[u] = Cardinality(Unfinished(u)') + One(HeldBy(u, Labels)')
                         + One(HeldBy(u, {"unmap"})')
       /\ ~ used'[u] \/ HeldBy(u, {"free"})' => status'[u] = -1
    BY DEF StatusIs, One
  <2>1. CASE u # t
    BY <1>1, <1>3, <1>7, <1>8, <1>9, <2>1 DEF JInv, StatusIs, One
  <2>2. CASE u = t
    <3>1. used'[u] /\ status'[u] = Cardinality(Unfinished(u)')
      BY <1>1, <1>2, <1>3, <1>9, <2>2
    <3>2. One(HeldBy(u, Labels)') = 0 /\ One(HeldBy(u, {"unmap"})') = 0
      BY <1>8, <2>2 DEF One
    <3>3. ~ HeldBy(u, {"free"})' /\ Cardinality(Unfinished(u)') \in Nat
      BY <1>8, <1>9, <2>2, UnfinishedFinite
    <3>. QED
      BY <3>1, <3>2, <3>3
  <2>. QED
    BY <2>1, <2>2
<1>. QED
  BY <1>4, <1>6, <1>10, <1>11 DEF JInv

(* Finish and Unmap: the deleting thread counts itself a second time, and  *)
(* no longer.                                                              *)
LEMMA FinishSteps ==
  ASSUME JInv, NEW p \in Procs, Finish(p) \/ Unmap(p)
  PROVE  JInv'
<1>0. PICK t : t = th[p]
  OBVIOUS
<1>. DEFINE n == IF Finish(p) THEN 1 ELSE -1
<1>1. /\ (pc[p] = "run" /\ n = 1) \/ (pc[p] = "unmap" /\ n = -1)
      /\ status' = [status EXCEPT ![t] = @ + n]
      /\ UNCHANGED <<used, parent, request, body, at, JobQueue, activeThread,
                     EmptyPlain, NumActiveProc, th, child, main, stopped>>
  <2>1. CASE Finish(p)
    BY <1>0, <2>1 DEF Finish, Goto, Add, queue
  <2>2. CASE Unmap(p)
    <3>1. ~ Finish(p)
      BY <2>2 DEF Finish, Unmap, Goto
    <3>. QED
      BY <1>0, <2>2, <3>1 DEF Unmap, Goto, Add, queue
  <2>. QED
    BY <2>1, <2>2
<1>2. PICK to \in {"unmap", "last", "parent"} :
        /\ pc' = [pc EXCEPT ![p] = to]
        /\ to = "unmap" <=> pc[p] = "run"
        /\ to = "last" <=> pc[p] = "unmap" /\ parent[t] = None
  BY <1>0 DEF Finish, Unmap, Goto
<1>3. /\ t \in Slots /\ Queued(t) /\ used[t] /\ t # None
      /\ status[t] = Cardinality(Unfinished(t)) + 1 + One(pc[p] = "unmap")
      /\ \A q \in Procs : pc[q] = "add" => child[q] # t
  BY <1>0, <1>1, HeldStatus DEF Holding
<1>4. \A u, S :
         /\ u # t => (HeldBy(u, S)' <=> HeldBy(u, S))
         /\ u = t => (HeldBy(u, S) <=> pc[p] \in S)
         /\ u = t => (HeldBy(u, S)' <=> to \in S)
  BY <1>0, <1>1, <1>2, <1>3, HoldMoves DEF JInv
<1>. HIDE DEF n
<1>5. /\ status' \in [Slots -> Int]
      /\ status'[t] = Cardinality(Unfinished(t)) + 1 + One(to = "unmap")
      /\ \A u \in Slots : u # t => status'[u] = status[u]
  <2>1. status \in [Slots -> Int]
    BY DEF JInv, Types
  <2>2. status[t] + n = Cardinality(Unfinished(t)) + 1 + One(to = "unmap")
    BY <1>1, <1>2, <1>3, UnfinishedFinite DEF One
  <2>3. status[t] + n \in Int
    BY <2>2, UnfinishedFinite DEF One
  <2>. QED
    BY <1>1, <1>3, <2>1, <2>2, <2>3
<1>6. Types'
  BY <1>1, <1>2, <1>5 DEF JInv, Types, Labels
<1>7. Hands' /\ OneProcessor' /\ QueueOK' /\ ChildOK' /\ ActiveIs'
  <2>1. \A q \in Procs : pc[q] = "add" => status'[child[q]] = status[child[q]]
    BY <1>3, <1>5, ChildIn
  <2>2. to \in Labels /\ to \in Holding
    BY DEF Labels, Holding
  <2>3. th' = [th EXCEPT ![p] = th'[p]] /\ th'[p] = t
    BY <1>0, <1>1 DEF JInv, Types
  <2>4. pc[p] \notin {"add", "none", "start", "exited"}
        /\ to \notin {"add", "empty", "none", "start", "exited"}
    BY <1>1
  <2>5. to \in {"parent", "alive"} => parent[th'[p]] # None
    BY <1>1, <1>2, <2>3
  <2>6. th'[p] = th[p]
    BY <1>1
  <2>. QED
    BY <1>1, <1>2, <1>3, <1>6, <2>1, <2>2, <2>3, <2>4, <2>5, <2>6, HoldKeeps
<1>8. \A u : Queued(u)' <=> Queued(u)
  BY <1>1 DEF Queued
<1>9. \A u \in Slots : Unfinished(u)' = Unfinished(u)
  <2>1. \A c \in Slots, u \in Slots : parent[c] = u => (Left(c)' <=> Left(c))
    BY <1>1, <1>2, <1>4, Finite DEF Left
  <2>. QED
    BY <1>1, <1>8, <2>1 DEF Unfinished, Left, HeldBy
<1>10. \A u \in Slots :
         /\ ~ HeldBy(t, {"free"})' /\ ~ HeldBy(t, {"free"})
         /\ HeldBy(t, Labels)'
         /\ HeldBy(t, {"unmap"})' <=> to = "unmap"
  <2>1. to # "free" /\ pc[p] # "free" /\ to \in Labels
    BY <1>1, <1>2 DEF Labels
  <2>. QED
    BY <1>4, <2>1
<1>11. ParentOK'
  BY <1>1, <1>4, <1>8, <1>9, <1>10 DEF JInv, ParentOK
<1>12. StatusIs'
  <2>. SUFFICES ASSUME NEW u \in Slots
                PROVE
       /\ Queued(u)' /\ ~ HeldBy(u, {"free"})' =>
            status'[u] = Cardinality(Unfinished(u)') + One(HeldBy(u, Labels)')
                         + One(HeldBy(u, {"unmap"})')
       /\ ~ used'[u] \/ HeldBy(u, {"free"})' => status'[u] = -1
    BY DEF StatusIs, One
  <2>1. CASE u # t
    BY <1>1, <1>4, <1>5, <1>8, <1>9, <2>1 DEF JInv, StatusIs, One
  <2>2. CASE u = t
    <3>1. used'[u] /\ ~ HeldBy(u, {"free"})'
      BY <1>1, <1>3, <1>10, <2>2
    <3>2. One(HeldBy(u, Labels)') = 1 /\ One(HeldBy(u, {"unmap"})') = One(to = "unmap")
      BY <1>10, <2>2 DEF One
    <3>3. status'[u] = Cardinality(Unfinished(u)') + 1 + One(to = "unmap")
      BY <1>5, <1>9, <2>2
    <3>. QED
      BY <3>1, <3>2, <3>3
  <2>. QED
    BY <2>1, <2>2
<1>. QED
  BY <1>6, <1>7, <1>11, <1>12 DEF JInv

(* LeaveParent: the parent no longer waits for the thread, and counts one  *)
(* child less.                                                             *)
LEMMA LeaveStep ==
  ASSUME JInv, NEW p \in Procs, LeaveParent(p)
  PROVE  JInv'
<1>0. PICK t, x : t = th[p] /\ x = parent[t]
  OBVIOUS
<1>1. /\ pc[p] = "parent" /\ pc' = [pc EXCEPT ![p] = "alive"]
      /\ status' = [status EXCEPT ![x] = @ - 1]
      /\ UNCHANGED <<used, parent, request, body, at, JobQueue, activeThread,
                     EmptyPlain, NumActiveProc, th, child, main, stopped>>
  BY <1>0 DEF LeaveParent, Goto, Add, queue
<1>2. t \in Slots /\ Queued(t) /\ t # None
  BY <1>0, <1>1, HeldStatus DEF Holding
<1>3. x \in Slots /\ x # None
  BY <1>0, <1>1, <1>2 DEF JInv, Types, Hands
<1>4. \A u, S :
         /\ u # t => (HeldBy(u, S)' <=> HeldBy(u, S))
         /\ u = t => (HeldBy(u, S) <=> "parent" \in S)
         /\ u = t => (HeldBy(u, S)' <=> "alive" \in S)
  BY ZenonT(30), <1>0, <1>1, <1>2, HoldMoves DEF JInv
<1>5. t \in Unfinished(x)
  <2>1. ~ HeldBy(t, {"alive", "last", "free"})
    BY <1>2, <1>4
  <2>2. ~ \E q \in Procs : th[q] = t /\ pc[q] \in {"alive", "last", "free"}
    BY ONLY <2>1 DEF HeldBy
  <2>. QED
    BY ONLY <1>0, <1>2, <2>2 DEF Unfinished
<1>6. /\ x # t /\ Queued(x) /\ ~ HeldBy(x, {"free"}) /\ used[x]
  BY <1>0, <1>2, <1>3, <1>5 DEF JInv, ParentOK, ChildOK
<1>7. /\ Unfinished(x)' = Unfinished(x) \ {t}
      /\ \A u \in Slots : u # x => Unfinished(u)' = Unfinished(u)
  <2>1. \A u : Queued(u)' <=> Queued(u)
    BY <1>1 DEF Queued
  <2>2. \A c : Left(c)' <=> Left(c) \/ c = t
    BY <1>4 DEF Left
  <2>. QED
    BY <1>0, <1>1, <2>1, <2>2 DEF Unfinished, Left, HeldBy
<1>8. Cardinality(Unfinished(x) \ {t}) = Cardinality(Unfinished(x)) - 1
  BY <1>5, UnfinishedFinite, FS_RemoveElement
<1>9. status[x] = Cardinality(Unfinished(x)) + One(HeldBy(x, Labels))
                  + One(HeldBy(x, {"unmap"}))
  BY <1>3, <1>6 DEF JInv, StatusIs
<1>10. /\ status' \in [Slots -> Int]
       /\ status'[x] = Cardinality(Unfinished(x) \ {t}) + One(HeldBy(x, Labels))
                       + One(HeldBy(x, {"unmap"}))
       /\ \A u \in Slots : u # x => status'[u] = status[u]
  <2>1. status \in [Slots -> Int]
    BY DEF JInv, Types
  <2>2. status[x] - 1 = Cardinality(Unfinished(x) \ {t}) + One(HeldBy(x, Labels))
                        + One(HeldBy(x, {"unmap"}))
    BY <1>8, <1>9, UnfinishedFinite DEF One
  <2>3. status[x] - 1 \in Int
    BY <1>3, <2>1
  <2>. QED
    BY <1>1, <1>3, <2>1, <2>2, <2>3
<1>11. Types'
  BY <1>1, <1>10 DEF JInv, Types, Labels
<1>12. Hands' /\ OneProcessor' /\ QueueOK' /\ ChildOK' /\ ActiveIs'
  <2>1. \A q \in Procs : pc[q] = "add" => status'[child[q]] = status[child[q]]
    BY <1>6, <1>10, ChildIn DEF JInv, ChildOK
  <2>2. "alive" \in Labels /\ "alive" \in Holding
    BY DEF Labels, Holding
  <2>3. th' = [th EXCEPT ![p] = th'[p]] /\ th'[p] = t /\ th'[p] = th[p]
    BY <1>0, <1>1 DEF JInv, Types
  <2>4. parent[th'[p]] # None
    BY <1>0, <1>3, <2>3
  <2>. QED
    BY <1>1, <1>2, <1>11, <2>1, <2>2, <2>3, <2>4, HoldKeeps
<1>13. \A u : Queued(u)' <=> Queued(u)
  BY <1>1 DEF Queued
<1>14. \A u : /\ HeldBy(u, {"free"})' <=> HeldBy(u, {"free"})
              /\ HeldBy(u, {"unmap"})' <=> HeldBy(u, {"unmap"})
              /\ HeldBy(u, Labels)' <=> HeldBy(u, Labels)
  BY <1>4 DEF Labels
<1>15. ParentOK'
  BY <1>1, <1>7, <1>13, <1>14 DEF JInv, ParentOK
<1>16. StatusIs'
  <2>. SUFFICES ASSUME NEW u \in Slots
                PROVE
       /\ Queued(u)' /\ ~ HeldBy(u, {"free"})' =>
            status'[u] = Cardinality(Unfinished(u)') + One(HeldBy(u, Labels)')
                         + One(HeldBy(u, {"unmap"})')
       /\ ~ used'[u] \/ HeldBy(u, {"free"})' => status'[u] = -1
    BY DEF StatusIs, One
  <2>1. CASE u # x
    BY <1>1, <1>7, <1>10, <1>13, <1>14, <2>1 DEF JInv, StatusIs, One
  <2>2. CASE u = x
    <3>1. used'[u] /\ ~ HeldBy(u, {"free"})'
      BY <1>1, <1>6, <1>14, <2>2
    <3>2. /\ One(HeldBy(u, Labels)') = One(HeldBy(x, Labels))
          /\ One(HeldBy(u, {"unmap"})') = One(HeldBy(x, {"unmap"}))
      BY <1>14, <2>2 DEF One
    <3>3. Unfinished(u)' = Unfinished(x) \ {t}
      BY <1>7, <2>2
    <3>. QED
      BY <1>10, <2>2, <3>1, <3>2, <3>3
  <2>. QED
    BY <2>1, <2>2
<1>. QED
  BY <1>11, <1>12, <1>15, <1>16 DEF JInv

(* Dead: a thread whose status is 1 waits for nobody, and is over.         *)
LEMMA DeadStep ==
  ASSUME JInv, NEW p \in Procs, Dead(p)
  PROVE  JInv'
<1>0. PICK t : t = th[p]
  OBVIOUS
<1>1. /\ pc[p] = "last"
      /\ UNCHANGED <<used, parent, request, body, at, JobQueue, activeThread,
                     EmptyPlain, NumActiveProc, th, child, main>>
  BY DEF Dead, Assert, Goto, queue
<1>2. CASE status[t] # 1
  <2>1. pc' = pc /\ status' = status /\ stopped' = "children"
    BY <1>0, <1>2 DEF Dead, Assert, Goto, JInv, Types
  <2>. QED
    BY <1>1, <2>1, StillKeeps DEF threads, queue, procs, JInv, Types
<1>3. CASE status[t] = 1
  <2>1. /\ pc' = [pc EXCEPT ![p] = "free"] /\ stopped' = stopped
        /\ status' = [status EXCEPT ![t] = -1]
    BY <1>0, <1>3 DEF Dead, Assert, Goto
  <2>2. /\ t \in Slots /\ Queued(t) /\ used[t] /\ t # None
        /\ status[t] = Cardinality(Unfinished(t)) + 1 + One(FALSE)
        /\ \A q \in Procs : pc[q] = "add" => child[q] # t
    BY <1>0, <1>1, HeldStatus DEF Holding
  <2>3. Unfinished(t) = {}
    BY <1>3, <2>2, UnfinishedFinite, FS_EmptySet DEF One
  <2>4. \A u, S :
         /\ u # t => (HeldBy(u, S)' <=> HeldBy(u, S))
         /\ u = t => (HeldBy(u, S) <=> "last" \in S)
         /\ u = t => (HeldBy(u, S)' <=> "free" \in S)
    <3>1. Types /\ OneProcessor /\ th[p] = t /\ t # None
      BY <1>0, <2>2 DEF JInv
    <3>2. pc[p] = "last" /\ pc' = [pc EXCEPT ![p] = "free"] /\ th' = th
      BY <1>0, <1>1, <2>1
    <3>3. \A u, S :
            /\ u # th[p] => (HeldBy(u, S)' <=> HeldBy(u, S))
            /\ u = th[p] => (HeldBy(u, S) <=> pc[p] \in S)
            /\ u = th[p] => (HeldBy(u, S)' <=> "free" \in S)
      BY ONLY <3>1, <3>2, p \in Procs, HoldMoves, Zenon
    <3>. QED
      BY ONLY <3>1, <3>2, <3>3
  <2>5. /\ status' \in [Slots -> Int] /\ status'[t] = -1
        /\ \A u \in Slots : u # t => status'[u] = status[u]
    <3>1. status \in [Slots -> Int]
      BY DEF JInv, Types
    <3>. QED
      BY <2>1, <2>2, <3>1
  <2>6. Types'
    BY <1>1, <2>1, <2>5 DEF JInv, Types, Labels
  <2>7. Hands' /\ OneProcessor' /\ QueueOK' /\ ChildOK' /\ ActiveIs'
    <3>1. \A q \in Procs : pc[q] = "add" => status'[child[q]] = status[child[q]]
      BY <2>2, <2>5, ChildIn
    <3>2. "free" \in Labels /\ "free" \in Holding
      BY DEF Labels, Holding
    <3>3. th' = [th EXCEPT ![p] = th'[p]] /\ th'[p] = t /\ th'[p] = th[p]
      BY <1>0, <1>1 DEF JInv, Types
    <3>. QED
      BY <1>1, <2>1, <2>2, <2>6, <3>1, <3>2, <3>3, HoldKeeps
  <2>8. \A u : Queued(u)' <=> Queued(u)
    BY <1>1 DEF Queued
  <2>9. \A u : Left(u)' <=> Left(u)
    BY <2>4 DEF Left
  <2>10. \A u : Unfinished(u)' = Unfinished(u)
    BY <1>1, <2>8, <2>9 DEF Unfinished, Left, HeldBy
  <2>11. ParentOK'
    BY <1>1, <2>3, <2>4, <2>8, <2>10 DEF JInv, ParentOK
  <2>12. StatusIs'
    <3>. SUFFICES ASSUME NEW u \in Slots
                  PROVE
         /\ Queued(u)' /\ ~ HeldBy(u, {"free"})' =>
              status'[u] = Cardinality(Unfinished(u)') + One(HeldBy(u, Labels)')
                           + One(HeldBy(u, {"unmap"})')
         /\ ~ used'[u] \/ HeldBy(u, {"free"})' => status'[u] = -1
      BY DEF StatusIs, One
    <3>1. CASE u # t
      BY <1>1, <2>4, <2>5, <2>8, <2>10, <3>1 DEF JInv, StatusIs, One
    <3>2. CASE u = t
      BY <2>4, <2>5, <3>2
    <3>. QED
      BY <3>1, <3>2
  <2>. QED
    BY <2>6, <2>7, <2>11, <2>12 DEF JInv
<1>. QED
  BY <1>2, <1>3

(* ThreadFree: the dead thread leaves the queue, and its structure is free *)
(* for the next ThreadCreate.                                              *)
LEMMA FreeStep ==
  ASSUME JInv, NEW p \in Procs, ThreadFree(p)
  PROVE  JInv'
<1>0. PICK t, to : /\ t = th[p]
                   /\ to = IF activeThread = 1 THEN "empty" ELSE "fetch"
  OBVIOUS
<1>1. /\ pc[p] = "free" /\ pc' = [pc EXCEPT ![p] = to]
      /\ JobQueue' = [i \in Slots |-> IF JobQueue[i] = t THEN None
                                      ELSE JobQueue[i]]
      /\ activeThread' = activeThread - 1
      /\ used' = [used EXCEPT ![t] = FALSE]
      /\ th' = [th EXCEPT ![p] = None]
      /\ UNCHANGED <<status, parent, request, body, at, EmptyPlain,
                     NumActiveProc, child, main, stopped>>
  BY <1>0 DEF ThreadFree, Goto
<1>2. /\ t \in Slots /\ Queued(t) /\ used[t] /\ t # None /\ Unfinished(t) = {}
      /\ \A q \in Procs : pc[q] = "add" => child[q] # t
  BY <1>0, <1>1, HeldStatus DEF Holding
<1>3. \A u \in Slots : \A S :
         /\ u # t => (HeldBy(u, S)' <=> HeldBy(u, S))
         /\ u = t => (HeldBy(u, S) <=> "free" \in S) /\ ~ HeldBy(u, S)'
  BY <1>0, <1>1, <1>2, HoldEnds DEF JInv
<1>4. \A u \in Slots : Queued(u)' <=> Queued(u) /\ u # t
  BY <1>1, Finite DEF Queued
<1>5. PICK i \in Slots : JobQueue[i] = t
  BY <1>2 DEF Queued
<1>6. Filled' = Filled \ {i} /\ i \in Filled
  BY <1>1, <1>2, <1>5 DEF Filled, JInv, QueueOK
<1>7. /\ activeThread = Cardinality(Filled) /\ IsFiniteSet(Filled)
      /\ activeThread' = Cardinality(Filled') /\ activeThread' \in Int
      /\ activeThread = 1 => Filled' = {}
  <2>1. activeThread = Cardinality(Filled) /\ activeThread \in Int
    BY DEF JInv, QueueOK, Types
  <2>2. IsFiniteSet(Filled)
    BY Finite, FS_Subset DEF Filled
  <2>3. Cardinality(Filled') = Cardinality(Filled) - 1 /\ IsFiniteSet(Filled')
    BY <1>6, <2>2, FS_RemoveElement
  <2>4. Cardinality(Filled') = 0 => Filled' = {}
    BY <2>3, FS_EmptySet
  <2>5. activeThread' = activeThread - 1
    BY <1>1
  <2>. QED
    BY <2>1, <2>2, <2>3, <2>4, <2>5
<1>8. Types'
  <2>1. JobQueue' \in [Slots -> Slots \cup {None}]
    BY <1>1 DEF JInv, Types
  <2>2. used' \in [Slots -> BOOLEAN]
    BY <1>1 DEF JInv, Types
  <2>. QED
    BY <1>0, <1>1, <1>7, <2>1, <2>2 DEF JInv, Types, Labels
<1>9. /\ th'[p] = None /\ pc'[p] = to /\ to \in {"empty", "fetch"}
      /\ \A q \in Procs : q # p => pc'[q] = pc[q] /\ th'[q] = th[q] /\ th[q] # t
  <2>1. \A q \in Procs : q # p => th[q] # t
    BY <1>0, <1>2 DEF JInv, OneProcessor
  <2>. QED
    BY <1>0, <1>1, <2>1 DEF JInv, Types
<1>10. Hands' /\ OneProcessor'
  <2>1. Hands'
    BY ZenonT(30), <1>1, <1>4, <1>9 DEF JInv, Types, Hands, Holding
  <2>2. OneProcessor'
    BY <1>9 DEF JInv, OneProcessor
  <2>. QED
    BY <2>1, <2>2
<1>11. QueueOK'
  <2>1. \A m, k \in Slots : JobQueue'[m] # None /\ JobQueue'[m] = JobQueue'[k] => m = k
    BY <1>1 DEF JInv, QueueOK
  <2>2. ~ EmptyPlain /\ \A q \in Procs : pc[q] # "empty"
    BY <1>6 DEF JInv, QueueOK
  <2>3. EmptyPlain' \/ (\E q \in Procs : pc'[q] = "empty") => activeThread = 1
    BY <1>0, <1>1, <1>9, <2>2
  <2>. QED
    BY <1>7, <2>1, <2>3 DEF QueueOK
<1>12. ChildOK'
  <2>1. \A q \in Procs : pc'[q] = "add" <=> pc[q] = "add"
    BY <1>1, <1>9
  <2>2. \A u \in Slots : used'[u] <=> used[u] /\ u # t
    BY <1>1 DEF JInv, Types
  <2>3. \A u \in Slots : u = t => ~ \E q \in Procs : child[q] = u
    BY <1>2 DEF JInv, ChildOK, Types
  <2>4. \A u \in Slots : used'[u] <=> Queued(u)' \/ \E q \in Procs : child'[q] = u
    BY <1>1, <1>4, <2>2, <2>3 DEF JInv, ChildOK
  <2>5. \A q \in Procs : pc[q] = "add" => q # p /\ child[q] \in Slots
    BY <1>1, ChildIn
  <2>. QED
    BY <1>1, <1>4, <1>9, <2>1, <2>4, <2>5 DEF JInv, ChildOK
<1>13. ActiveIs'
  BY <1>1, <1>9, ActiveKeeps DEF JInv
<1>14. \A u \in Slots : Unfinished(u)' = Unfinished(u)
  <2>1. \A c \in Slots : Queued(c)' /\ ~ Left(c)' <=> Queued(c) /\ ~ Left(c)
    BY <1>3, <1>4 DEF Left
  <2>. QED
    BY <1>1, <2>1 DEF Unfinished, Left, HeldBy
<1>15. ParentOK'
  BY <1>1, <1>2, <1>3, <1>4, <1>14 DEF JInv, ParentOK
<1>16. StatusIs'
  <2>. SUFFICES ASSUME NEW u \in Slots
                PROVE
       /\ Queued(u)' /\ ~ HeldBy(u, {"free"})' =>
            status'[u] = Cardinality(Unfinished(u)') + One(HeldBy(u, Labels)')
                         + One(HeldBy(u, {"unmap"})')
       /\ ~ used'[u] \/ HeldBy(u, {"free"})' => status'[u] = -1
    BY DEF StatusIs, One
  <2>1. CASE u # t
    <3>1. used'[u] = used[u] /\ status'[u] = status[u]
      BY <1>1, <2>1 DEF JInv, Types
    <3>. QED
      BY <1>3, <1>4, <1>14, <2>1, <3>1 DEF JInv, StatusIs, One
  <2>2. CASE u = t
    <3>1. status'[u] = -1 /\ ~ Queued(u)'
      BY <1>1, <1>2, <1>3, <1>4, <2>2 DEF JInv, StatusIs
    <3>. QED
      BY <3>1
  <2>. QED
    BY <2>1, <2>2
<1>. QED
  BY <1>8, <1>10, <1>11, <1>12, <1>13, <1>15, <1>16 DEF JInv

(* ThreadCreate: the new thread is in nobody's way until it is added.      *)
LEMMA CreateStep ==
  ASSUME JInv, NEW p \in Procs, ThreadCreate(p)
  PROVE  JInv'
<1>1. Unused # {} /\ Makes(p, Programs)
  BY DEF ThreadCreate
<1>2. PICK t : t = CHOOSE u \in Unused : \A v \in Unused : u <= v
  OBVIOUS
<1>3. t \in Slots /\ ~ used[t]
  <2>1. Unused \in SUBSET Nat /\ Unused \subseteq Slots
    BY JobsAssumption DEF Unused, Slots
  <2>2. \E u \in Unused : \A v \in Unused : u <= v
    BY <1>1, <2>1, NatMin
  <2>3. t \in Unused
    BY <1>2, <2>2
  <2>. QED
    BY <2>3 DEF Unused
<1>4. /\ pc[p] = "run" /\ pc' = [pc EXCEPT ![p] = "add"]
      /\ used' = [used EXCEPT ![t] = TRUE]
      /\ status' = [status EXCEPT ![t] = 0]
      /\ parent' = [parent EXCEPT ![t] = th[p]]
      /\ request' = [request EXCEPT ![t] = "Start"]
      /\ body' = [body EXCEPT ![t] = NextCall(th[p])]
      /\ at' = [at EXCEPT ![t] = 0, ![th[p]] = @ + 1]
      /\ child' = [child EXCEPT ![p] = t]
      /\ UNCHANGED <<JobQueue, activeThread, EmptyPlain, NumActiveProc, th,
                     main, stopped>>
  BY <1>2 DEF ThreadCreate, Goto, queue
<1>5. PICK x : x = th[p]
  OBVIOUS
<1>6. x \in Slots /\ Queued(x) /\ x # None
  BY <1>4, <1>5, HeldStatus DEF Holding
<1>7. ~ Queued(t) /\ t # x /\ t # None /\ \A q \in Procs : child[q] # t
  BY <1>3, <1>6, Finite DEF JInv, ChildOK
<1>8. Types'
  <2>1. at' \in [Slots -> Nat]
    <3>1. at \in [Slots -> Nat]
      BY DEF JInv, Types
    <3>2. at' = [at EXCEPT ![t] = 0, ![x] = @ + 1]
      BY <1>4, <1>5
    <3>. QED
      BY <1>3, <1>6, <3>1, <3>2
  <2>2. status' \in [Slots -> Int]
    <3>1. status \in [Slots -> Int]
      BY DEF JInv, Types
    <3>. QED
      BY <1>3, <1>4, <3>1
  <2>3. body' \in [Slots -> Programs]
    BY <1>1, <1>3, <1>4 DEF JInv, Types, Makes
  <2>4. parent' \in [Slots -> Slots \cup {None}]
    BY <1>3, <1>4, <1>5, <1>6 DEF JInv, Types
  <2>5. child' \in [Procs -> Slots \cup {None}]
    BY <1>3, <1>4 DEF JInv, Types
  <2>. QED
    BY <1>3, <1>4, <2>1, <2>2, <2>3, <2>4, <2>5 DEF JInv, Types, Labels
<1>9. /\ pc'[p] = "add" /\ child'[p] = t
      /\ \A q \in Procs : q # p => pc'[q] = pc[q] /\ child'[q] = child[q]
  BY <1>4 DEF JInv, Types
<1>10. \A u \in Slots : u # t => /\ status'[u] = status[u] /\ used'[u] = used[u]
                                 /\ parent'[u] = parent[u]
  BY <1>4 DEF JInv, Types
<1>11. status'[t] = 0 /\ used'[t] /\ parent'[t] = x
  BY <1>3, <1>4, <1>5 DEF JInv, Types
<1>12. \A u : Queued(u)' <=> Queued(u)
  BY <1>4 DEF Queued
<1>13. Hands' /\ OneProcessor' /\ QueueOK'
  <2>1. Hands'
    <3>1. \A q \in Procs : th[q] # None => th[q] # t /\ th[q] \in Slots
      BY <1>7 DEF JInv, Hands, Types
    <3>2. \A q \in Procs : pc[q] \in {"parent", "alive"} => parent'[th[q]] = parent[th[q]]
      BY <1>10, <3>1 DEF JInv, Hands, Holding
    <3>. QED
      BY <1>4, <1>5, <1>6, <1>9, <1>12, <3>2 DEF JInv, Hands, Holding
  <2>2. OneProcessor'
    BY <1>4 DEF JInv, OneProcessor
  <2>3. QueueOK'
    BY <1>4, <1>9 DEF JInv, QueueOK, Filled
  <2>. QED
    BY <2>1, <2>2, <2>3
<1>14. ChildOK'
  <2>1. /\ pc'[p] = "add" /\ child'[p] # None /\ ~ Queued(child'[p])
        /\ status'[child'[p]] = 0 /\ parent'[child'[p]] = th'[p]
    BY <1>4, <1>5, <1>7, <1>9, <1>11
  <2>2. \A q \in Procs : q # p /\ pc[q] = "add" =>
             child[q] \in Slots /\ child[q] # t
    BY <1>7, ChildIn
  <2>3. \A q \in Procs : q # p =>
           /\ child'[q] # None <=> pc'[q] = "add"
           /\ pc'[q] = "add" => /\ ~ Queued(child'[q])
                                /\ status'[child'[q]] = 0
                                /\ parent'[child'[q]] = th'[q]
    BY <1>4, <1>9, <1>10, <2>2 DEF JInv, ChildOK
  <2>4. \A q, r \in Procs : q # r /\ child'[q] # None => child'[q] # child'[r]
    BY <1>7, <1>9 DEF JInv, ChildOK
  <2>5. \A u \in Slots : used'[u] <=> Queued(u) \/ \E q \in Procs : child'[q] = u
    <3>. TAKE u \in Slots
    <3>1. CASE u = t
      BY <1>9, <1>11, <3>1
    <3>2. CASE u # t
      <4>1. child[p] = None
        BY <1>4 DEF JInv, ChildOK
      <4>2. (\E q \in Procs : child'[q] = u) <=> (\E q \in Procs : child[q] = u)
        BY <1>9, <3>2, <4>1, Finite
      <4>. QED
        BY <1>10, <3>2, <4>2 DEF JInv, ChildOK
    <3>. QED
      BY <3>1, <3>2
  <2>6. \A q \in Procs :
           /\ child'[q] # None <=> pc'[q] = "add"
           /\ pc'[q] = "add" => /\ ~ Queued(child'[q])
                                /\ status'[child'[q]] = 0
                                /\ parent'[child'[q]] = th'[q]
    BY <2>1, <2>3
  <2>7. \A q \in Procs : Queued(child[q])' <=> Queued(child'[q])
    BY <1>4 DEF Queued
  <2>. QED
    BY <1>12, <2>4, <2>5, <2>6, <2>7 DEF ChildOK
<1>15. ActiveIs'
  BY <1>4, ActiveKeeps DEF JInv
<1>16. \A u : /\ Left(u)' <=> Left(u)
              /\ HeldBy(u, {"free"})' <=> HeldBy(u, {"free"})
              /\ HeldBy(u, {"unmap"})' <=> HeldBy(u, {"unmap"})
              /\ HeldBy(u, Labels)' <=> HeldBy(u, Labels)
  BY <1>4, <1>9 DEF Left, HeldBy, Labels
<1>17. \A u : Unfinished(u)' = Unfinished(u)
  <2>1. \A c \in Slots : \A u : Queued(c)' /\ parent'[c] = u /\ ~ Left(c)'
                              <=> Queued(c) /\ parent[c] = u /\ ~ Left(c)
    BY <1>7, <1>10, <1>12, <1>16
  <2>. QED
    BY <2>1 DEF Unfinished, Left, HeldBy
<1>18. ParentOK'
  BY <1>7, <1>10, <1>11, <1>12, <1>16, <1>17 DEF JInv, ParentOK
<1>19. StatusIs'
  <2>. SUFFICES ASSUME NEW u \in Slots
                PROVE
       /\ Queued(u)' /\ ~ HeldBy(u, {"free"})' =>
            status'[u] = Cardinality(Unfinished(u)') + One(HeldBy(u, Labels)')
                         + One(HeldBy(u, {"unmap"})')
       /\ ~ used'[u] \/ HeldBy(u, {"free"})' => status'[u] = -1
    BY DEF StatusIs, One
  <2>1. CASE u # t
    BY <1>10, <1>12, <1>16, <1>17, <2>1 DEF JInv, StatusIs, One
  <2>2. CASE u = t
    <3>1. ~ HeldBy(t, {"free"})
      BY <1>7 DEF JInv, Hands, HeldBy
    <3>. QED
      BY <1>7, <1>11, <1>12, <1>16, <2>2, <3>1
  <2>. QED
    BY <2>1, <2>2
<1>. QED
  BY <1>8, <1>13, <1>14, <1>15, <1>18, <1>19 DEF JInv

(* The queue has as many slots as there are thread structures, so there is *)
(* a free slot for a thread that is not in it.                             *)
LEMMA FreeSlot ==
  ASSUME JInv, NEW t \in Slots, ~ Queued(t)
  PROVE  \E s \in Slots : /\ JobQueue[s] = None
                          /\ \A l \in 0 .. s - 1 : JobQueue[l] # None
<1>. DEFINE Free == {s \in Slots : JobQueue[s] = None}
<1>1. Free # {}
  <2>. SUFFICES ASSUME Free = {} PROVE FALSE
    OBVIOUS
  <2>1. JobQueue \in [Slots -> Slots \ {t}]
    BY DEF JInv, Types, Queued
  <2>2. /\ IsFiniteSet(Slots) /\ IsFiniteSet(Slots \ {t})
        /\ Cardinality(Slots \ {t}) < Cardinality(Slots)
    <3>1. /\ IsFiniteSet(Slots) /\ IsFiniteSet(Slots \ {t})
          /\ Cardinality(Slots \ {t}) = Cardinality(Slots) - 1
      BY Finite, FS_RemoveElement
    <3>. QED
      BY <3>1, FS_CardinalityType
  <2>3. \E i, k \in Slots : i # k /\ JobQueue[i] = JobQueue[k]
    BY <2>1, <2>2, FS_PigeonHole
  <2>. QED
    BY <2>3 DEF JInv, QueueOK
<1>2. Free \in SUBSET Nat
  BY JobsAssumption DEF Slots
<1>3. PICK s \in Free : \A k \in Free : s <= k
  BY <1>1, <1>2, NatMin
<1>4. ASSUME NEW l \in 0 .. s - 1
      PROVE  JobQueue[l] # None
  <2>1. s \in 0 .. NumThread - 1 /\ NumThread \in Nat
    BY JobsAssumption DEF Slots
  <2>2. l \in Slots /\ ~ (s <= l)
    BY <2>1 DEF Slots
  <2>3. l \notin Free
    BY <1>3, <2>2
  <2>. QED
    BY <2>2, <2>3
<1>. QED
  BY <1>3, <1>4

(* AddJob: the parent counts one child more, and the child can be fetched. *)
LEMMA AddStep ==
  ASSUME JInv, NEW p \in Procs, AddJob(p)
  PROVE  JInv'
<1>0. PICK t, x, i :
        /\ t = child[p] /\ x = th[p]
        /\ i = CHOOSE s \in Slots : /\ JobQueue[s] = None
                                    /\ \A l \in 0 .. s - 1 : JobQueue[l] # None
  OBVIOUS
<1>1. /\ pc[p] = "add" /\ pc' = [pc EXCEPT ![p] = "run"]
      /\ status' = [status EXCEPT ![x] = @ + 1]
      /\ JobQueue' = [JobQueue EXCEPT ![i] = t]
      /\ activeThread' = activeThread + 1
      /\ child' = [child EXCEPT ![p] = None]
      /\ UNCHANGED <<used, parent, request, body, at, EmptyPlain,
                     NumActiveProc, th, main, stopped>>
  BY <1>0 DEF AddJob, Goto, Add
<1>2. /\ t \in Slots /\ ~ Queued(t) /\ status[t] = 0 /\ parent[t] = x /\ used[t]
      /\ t # None
  BY <1>0, <1>1, ChildIn, Finite DEF JInv, ChildOK
<1>3. /\ x \in Slots /\ Queued(x) /\ used[x] /\ x # None /\ x # t
      /\ status[x] = Cardinality(Unfinished(x)) + 1 + One(FALSE)
      /\ \A q \in Procs : pc[q] = "add" => child[q] # x
  BY <1>0, <1>1, <1>2, HeldStatus DEF Holding
<1>4. i \in Slots /\ JobQueue[i] = None
  BY <1>0, <1>2, FreeSlot
<1>5. /\ JobQueue'[i] = t /\ None \notin Slots
      /\ \A k \in Slots : k # i => JobQueue'[k] = JobQueue[k]
  BY <1>1, <1>4, Finite DEF JInv, Types
<1>6. \A u \in Slots : Queued(u)' <=> Queued(u) \/ u = t
  BY <1>4, <1>5 DEF Queued
<1>7. \A u, S :
         /\ u # x => (HeldBy(u, S)' <=> HeldBy(u, S))
         /\ u = x => (HeldBy(u, S) <=> "add" \in S)
         /\ u = x => (HeldBy(u, S)' <=> "run" \in S)
  BY ZenonT(30), <1>0, <1>1, <1>3, HoldMoves DEF JInv
<1>8. \A S : ~ HeldBy(t, S)
  BY <1>2 DEF JInv, Hands, HeldBy
<1>9. Unfinished(t) = {} /\ t \notin Unfinished(x)
  BY <1>2 DEF JInv, ParentOK, Unfinished
<1>10. /\ Unfinished(x)' = Unfinished(x) \cup {t}
       /\ \A u \in Slots : u # x => Unfinished(u)' = Unfinished(u)
  <2>1. \A c : Left(c)' <=> Left(c)
    BY <1>7 DEF Left
  <2>2. \A u : Unfinished(u) = {c \in Slots : Queued(c) /\ parent[c] = u /\ ~ Left(c)}
    BY DEF Unfinished, Left, HeldBy
  <2>3. \A u : Unfinished(u)'
                = {c \in Slots : Queued(c)' /\ parent'[c] = u /\ ~ Left(c)'}
    BY DEF Unfinished, Left, HeldBy
  <2>4. parent' = parent /\ ~ Left(t)
    BY <1>1, <1>8 DEF Left
  <2>5. \A c \in Slots : \A u : Queued(c)' /\ parent'[c] = u /\ ~ Left(c)'
          <=> (Queued(c) /\ parent[c] = u /\ ~ Left(c)) \/ (c = t /\ u = x)
    BY <1>2, <1>6, <2>1, <2>4
  <2>. QED
    BY <1>2, <2>2, <2>3, <2>5
<1>11. Cardinality(Unfinished(x) \cup {t}) = Cardinality(Unfinished(x)) + 1
  BY <1>9, UnfinishedFinite, FS_AddElement
<1>12. /\ status' \in [Slots -> Int]
       /\ status'[x] = Cardinality(Unfinished(x) \cup {t}) + 1
       /\ \A u \in Slots : u # x => status'[u] = status[u]
  <2>1. status \in [Slots -> Int]
    BY DEF JInv, Types
  <2>2. status[x] + 1 = Cardinality(Unfinished(x) \cup {t}) + 1
    BY <1>3, <1>11, UnfinishedFinite DEF One
  <2>3. status[x] \in Int
    BY <1>3, <2>1
  <2>4. status[x] + 1 \in Int
    BY <2>3
  <2>. QED
    BY <1>1, <1>3, <2>1, <2>2, <2>4
<1>13. Filled' = Filled \cup {i} /\ i \notin Filled
  BY <1>1, <1>2, <1>4 DEF Filled, JInv, Types
<1>14. activeThread' = Cardinality(Filled') /\ activeThread' \in Int
  <2>1. activeThread = Cardinality(Filled) /\ activeThread \in Int
    BY DEF JInv, QueueOK, Types
  <2>2. IsFiniteSet(Filled)
    BY Finite, FS_Subset DEF Filled
  <2>3. Cardinality(Filled') = Cardinality(Filled) + 1
    BY <1>13, <2>2, FS_AddElement
  <2>4. activeThread' = activeThread + 1
    BY <1>1
  <2>. QED
    BY <2>1, <2>3, <2>4
<1>15. Types'
  <2>1. JobQueue' \in [Slots -> Slots \cup {None}]
    BY <1>1, <1>2, <1>4 DEF JInv, Types
  <2>2. child' \in [Procs -> Slots \cup {None}]
    BY <1>1 DEF JInv, Types
  <2>. QED
    BY <1>1, <1>12, <1>14, <2>1, <2>2 DEF JInv, Types, Labels
<1>16. /\ pc'[p] = "run" /\ child'[p] = None
       /\ \A q \in Procs : q # p => pc'[q] = pc[q] /\ child'[q] = child[q]
  BY <1>1 DEF JInv, Types
<1>17. Hands' /\ OneProcessor'
  <2>1. \A q \in Procs : th[q] # None => th[q] \in Slots
    BY DEF JInv, Types
  <2>2. Hands'
    BY <1>0, <1>1, <1>3, <1>6, <1>16, <2>1 DEF JInv, Hands, Holding
  <2>3. OneProcessor'
    BY <1>1 DEF JInv, OneProcessor
  <2>. QED
    BY <2>2, <2>3
<1>18. QueueOK'
  <2>1. \A m, k \in Slots : JobQueue'[m] # None /\ JobQueue'[m] = JobQueue'[k] => m = k
    BY <1>1, <1>2, <1>4 DEF JInv, Types, QueueOK, Queued
  <2>2. ~ EmptyPlain /\ \A q \in Procs : pc[q] # "empty"
    BY <1>3 DEF JInv, QueueOK, Queued, Filled
  <2>. QED
    BY <1>1, <1>14, <1>16, <2>1, <2>2 DEF QueueOK
<1>19. ChildOK'
  <2>1. \A q \in Procs : pc[q] = "add" => child[q] \in Slots /\ child[q] # x
    BY <1>3, ChildIn
  <2>2. \A q \in Procs : q # p => child[q] # t
    BY <1>0, <1>2 DEF JInv, ChildOK
  <2>3. \A q \in Procs : child'[q] # None <=> pc'[q] = "add"
    BY <1>16 DEF JInv, ChildOK
  <2>4. \A q \in Procs : pc'[q] = "add" =>
           /\ q # p /\ child'[q] = child[q] /\ child[q] \in Slots
           /\ status'[child[q]] = 0 /\ parent[child[q]] = th[q]
           /\ ~ Queued(child[q]) /\ child[q] # t
    BY <1>12, <1>16, <2>1, <2>2 DEF JInv, ChildOK
  <2>5. \A q \in Procs : pc'[q] = "add" =>
           /\ ~ Queued(child[q])' /\ status'[child'[q]] = 0
           /\ parent'[child'[q]] = th'[q]
    BY <1>1, <1>6, <2>4
  <2>6. \A q, r \in Procs : q # r /\ child'[q] # None => child'[q] # child'[r]
    BY <1>16 DEF JInv, ChildOK
  <2>7. \A u \in Slots : used[u] <=> Queued(u)' \/ \E q \in Procs : child'[q] = u
    <3>. TAKE u \in Slots
    <3>1. CASE u = t
      BY <1>2, <1>6, <3>1
    <3>2. CASE u # t
      <4>1. (\E q \in Procs : child'[q] = u) <=> (\E q \in Procs : child[q] = u)
        BY <1>0, <1>16, <3>2, Finite
      <4>. QED
        BY <1>6, <3>2, <4>1 DEF JInv, ChildOK
    <3>. QED
      BY <3>1, <3>2
  <2>. QED
    BY <1>1, <2>3, <2>5, <2>6, <2>7 DEF ChildOK
<1>20. ActiveIs'
  BY <1>1, ActiveKeeps DEF JInv
<1>21. \A u : /\ HeldBy(u, {"free"})' <=> HeldBy(u, {"free"})
              /\ HeldBy(u, {"unmap"})' <=> HeldBy(u, {"unmap"})
              /\ HeldBy(u, Labels)' <=> HeldBy(u, Labels)
  BY <1>7 DEF Labels
<1>22. ParentOK'
  <2>1. \A u \in Slots : Unfinished(u)' # {} => Queued(u)' /\ ~ HeldBy(u, {"free"})'
    BY <1>3, <1>6, <1>7, <1>10 DEF JInv, ParentOK
  <2>. QED
    BY <1>1, <2>1 DEF JInv, ParentOK
<1>23. StatusIs'
  <2>. SUFFICES ASSUME NEW u \in Slots
                PROVE
       /\ Queued(u)' /\ ~ HeldBy(u, {"free"})' =>
            status'[u] = Cardinality(Unfinished(u)') + One(HeldBy(u, Labels)')
                         + One(HeldBy(u, {"unmap"})')
       /\ ~ used'[u] \/ HeldBy(u, {"free"})' => status'[u] = -1
    BY DEF StatusIs, One
  <2>1. CASE u = x
    <3>1. used'[u] /\ ~ HeldBy(u, {"free"})'
      BY <1>1, <1>3, <1>7, <2>1
    <3>2. One(HeldBy(u, Labels)') = 1 /\ One(HeldBy(u, {"unmap"})') = 0
      BY <1>7, <2>1 DEF One, Labels
    <3>3. /\ status'[u] = Cardinality(Unfinished(u)') + 1
          /\ Cardinality(Unfinished(u)') \in Int
      <4>1. Unfinished(u)' = Unfinished(x) \cup {t}
        BY <1>10, <2>1
      <4>2. Cardinality(Unfinished(x) \cup {t}) \in Int
        BY <1>11, UnfinishedFinite
      <4>. QED
        BY <1>12, <2>1, <4>1, <4>2
    <3>. QED
      BY <3>1, <3>2, <3>3
  <2>2. CASE u = t
    <3>1. used'[u] /\ ~ HeldBy(u, {"free"})' /\ status'[u] = 0
      BY <1>1, <1>2, <1>3, <1>8, <1>12, <1>21, <2>2
    <3>2. One(HeldBy(u, Labels)') = 0 /\ One(HeldBy(u, {"unmap"})') = 0
      BY <1>8, <1>21, <2>2 DEF One
    <3>3. Cardinality(Unfinished(u)') = 0
      BY <1>3, <1>9, <1>10, <2>2, FS_EmptySet
    <3>. QED
      BY <3>1, <3>2, <3>3
  <2>3. CASE u # x /\ u # t
    BY <1>1, <1>6, <1>10, <1>12, <1>21, <2>3 DEF JInv, StatusIs, One
  <2>. QED
    BY <2>1, <2>2, <2>3
<1>. QED
  BY <1>15, <1>17, <1>18, <1>19, <1>20, <1>22, <1>23 DEF JInv

----------------------------------------------------------------------------
(* The invariant, and what follows from it.                                *)

(* In the first state the main thread is alone in the queue.               *)
LEMMA InitInv == Init => JInv
<1>. SUFFICES ASSUME Init PROVE JInv
  OBVIOUS
<1>1. 0 \in Slots /\ None \notin Slots /\ NumThread \in Nat
  BY JobsAssumption, Finite DEF Slots
<1>2. Types
  <2>1. status \in [Slots -> Int] /\ activeThread \in Int /\ NumActiveProc \in Int
    BY DEF Init
  <2>2. at \in [Slots -> Nat] /\ body \in [Slots -> Programs]
    BY JobsAssumption DEF Init
  <2>3. used \in [Slots -> BOOLEAN] /\ JobQueue \in [Slots -> Slots \cup {None}]
    BY <1>1 DEF Init
  <2>. QED
    BY <2>1, <2>2, <2>3 DEF Init, Types, Labels
<1>3. \A t \in Slots : Queued(t) <=> t = 0
  BY <1>1 DEF Init, Queued
<1>4. Filled = {0}
  BY <1>1 DEF Init, Filled
<1>5. \A p \in Procs : th[p] = None /\ child[p] = None /\ pc[p] = "none"
  BY DEF Init
<1>6. \A t \in Slots : \A S : ~ HeldBy(t, S) /\ Unfinished(t) = {}
  BY <1>1, <1>5 DEF Init, HeldBy, Unfinished
<1>7. Hands /\ OneProcessor
  BY <1>5 DEF Hands, Holding, OneProcessor
<1>8. QueueOK
  <2>1. activeThread = Cardinality(Filled)
    BY <1>4, FS_Singleton DEF Init
  <2>2. ~ EmptyPlain /\ \A p \in Procs : pc[p] # "empty"
    BY <1>5 DEF Init
  <2>3. \A i, k \in Slots : JobQueue[i] # None /\ JobQueue[i] = JobQueue[k] => i = k
    BY DEF Init
  <2>. QED
    BY <2>1, <2>2, <2>3 DEF QueueOK
<1>9. ChildOK
  BY <1>1, <1>3, <1>5 DEF Init, ChildOK
<1>10. ParentOK
  BY <1>1, <1>6 DEF Init, ParentOK
<1>11. StatusIs
  <2>. SUFFICES ASSUME NEW t \in Slots
                PROVE
       /\ Queued(t) /\ ~ HeldBy(t, {"free"}) =>
            status[t] = Cardinality(Unfinished(t)) + One(HeldBy(t, Labels))
                        + One(HeldBy(t, {"unmap"}))
       /\ ~ used[t] \/ HeldBy(t, {"free"}) => status[t] = -1
    BY DEF StatusIs
  <2>1. Cardinality(Unfinished(t)) = 0
    BY <1>6, FS_EmptySet
  <2>2. One(HeldBy(t, Labels)) = 0 /\ One(HeldBy(t, {"unmap"})) = 0
    BY <1>6 DEF One
  <2>3. Queued(t) => status[t] = 0
    BY <1>3 DEF Init
  <2>4. ~ used[t] => status[t] = -1
    BY DEF Init
  <2>5. ~ HeldBy(t, {"free"})
    BY <1>6
  <2>. QED
    BY <2>1, <2>2, <2>3, <2>4, <2>5
<1>12. ActiveIs
  <2>1. {p \in Procs : pc[p] \notin {"none", "start", "exited"}} = {}
    BY <1>5
  <2>. QED
    BY <2>1, FS_EmptySet DEF ActiveIs, Init
<1>. QED
  BY <1>2, <1>7, <1>8, <1>9, <1>10, <1>11, <1>12 DEF JInv

(* Every step of the program keeps the invariant.                          *)
LEMMA NextInv == JInv /\ [Next]_vars => JInv'
<1>. SUFFICES ASSUME JInv, [Next]_vars PROVE JInv'
  OBVIOUS
<1>1. ASSUME NEW p \in Procs, CreateProc(p) \/ ProcStep(p)
      PROVE  JInv'
  <2>1. CASE CreateProc(p) \/ TestEmpty(p) \/ Resume(p) \/ ParentAlive(p)
               \/ OutOfThreads(p) \/ CondSignal(p)
    BY <2>1, MoveSteps
  <2>2. CASE ProcGo(p) \/ PthreadExit(p)
    BY <2>2, ProcSteps
  <2>3. CASE FetchJob(p)
    BY <2>3, FetchStep
  <2>4. CASE ThreadCreate(p)
    BY <2>4, CreateStep
  <2>5. CASE AddJob(p)
    BY <2>5, AddStep
  <2>6. CASE GCFromMutator(p) \/ YieldRest(p)
    BY <2>6, CallSteps
  <2>7. CASE ReleaseJob(p)
    BY <2>7, ReleaseStep
  <2>8. CASE Finish(p) \/ Unmap(p)
    BY <2>8, FinishSteps
  <2>9. CASE LeaveParent(p)
    BY <2>9, LeaveStep
  <2>10. CASE Dead(p)
    BY <2>10, DeadStep
  <2>11. CASE ThreadFree(p)
    BY <2>11, FreeStep
  <2>12. CASE SetEmpty(p)
    BY <2>12, SetEmptyStep
  <2>. QED
    BY <1>1, <2>1, <2>2, <2>3, <2>4, <2>5, <2>6, <2>7, <2>8, <2>9, <2>10,
       <2>11, <2>12 DEF ProcStep
<1>2. CASE MainStep \/ SpuriousWakeup
  <2>1. /\ UNCHANGED <<threads, queue, procs>> /\ stopped' = stopped
        /\ main' \in {"create", "test", "sleep", "asleep", "procs", "returned"}
    BY <1>2 DEF MainStep, NumTotalJob, CondWait, TestProcs, SpuriousWakeup
  <2>. QED
    BY <2>1, StillKeeps DEF JInv, Types
<1>3. CASE UNCHANGED vars
  <2>1. UNCHANGED <<threads, queue, procs>> /\ main' = main /\ stopped' = stopped
    BY <1>3 DEF vars
  <2>. QED
    BY <2>1, StillKeeps DEF JInv, Types
<1>. QED
  BY <1>1, <1>2, <1>3 DEF Next

(* The invariant of the job queue holds in every reachable state.          *)
THEOREM InvHolds == Spec => []JInv
BY InitInv, NextInv, PTL DEF Spec

(* The bounds of TypeOK: a thread waits for at most all the others, itself *)
(* twice, and the counts count subsets of the slots and the processors.    *)
LEMMA InvTypeOK == JInv => TypeOK
<1>. SUFFICES ASSUME JInv PROVE TypeOK
  OBVIOUS
<1>1. NumThread \in Nat \ {0}
  BY JobsAssumption
<1>2. activeThread \in 0 .. NumThread
  <2>1. Filled \in SUBSET Slots
    BY DEF Filled
  <2>2. Cardinality(Filled) <= NumThread /\ Cardinality(Filled) \in Nat
    BY <2>1, Finite, FS_Subset, FS_CardinalityType
  <2>3. activeThread = Cardinality(Filled)
    BY DEF JInv, QueueOK
  <2>. QED
    BY <1>1, <2>2, <2>3
<1>3. NumActiveProc \in 0 .. Cardinality(Procs)
  <2>. DEFINE Run == {p \in Procs : pc[p] \notin {"none", "start", "exited"}}
  <2>1. Run \in SUBSET Procs
    OBVIOUS
  <2>2. NumActiveProc = Cardinality(Run)
    BY DEF JInv, ActiveIs
  <2>. HIDE DEF Run
  <2>3. /\ Cardinality(Run) <= Cardinality(Procs)
        /\ Cardinality(Run) \in Nat /\ Cardinality(Procs) \in Nat
    BY <2>1, Finite, FS_Subset, FS_CardinalityType
  <2>. QED
    BY <2>2, <2>3
<1>4. \A t \in Slots : status[t] \in -1 .. NumThread + 1
  <2>. SUFFICES ASSUME NEW t \in Slots PROVE status[t] \in -1 .. NumThread + 1
    OBVIOUS
  <2>1. CASE Queued(t) /\ ~ HeldBy(t, {"free"})
    <3>1. Unfinished(t) \in SUBSET (Slots \ {t})
      BY DEF Unfinished, JInv, ParentOK
    <3>2. IsFiniteSet(Slots \ {t}) /\ Cardinality(Slots \ {t}) = NumThread - 1
      BY Finite, FS_RemoveElement
    <3>3. Cardinality(Unfinished(t)) <= NumThread - 1
      BY <3>1, <3>2, FS_Subset
    <3>4. status[t] = Cardinality(Unfinished(t)) + One(HeldBy(t, Labels))
                      + One(HeldBy(t, {"unmap"}))
      BY <2>1 DEF JInv, StatusIs
    <3>5. One(HeldBy(t, Labels)) \in 0 .. 1 /\ One(HeldBy(t, {"unmap"})) \in 0 .. 1
      BY DEF One
    <3>. QED
      BY <1>1, <3>3, <3>4, <3>5, UnfinishedFinite
  <2>2. CASE ~ used[t] \/ HeldBy(t, {"free"})
    <3>1. status[t] = -1
      BY <2>2 DEF JInv, StatusIs
    <3>. QED
      BY <1>1, <3>1
  <2>3. CASE ~ Queued(t) /\ used[t]
    <3>1. PICK p \in Procs : child[p] = t
      BY <2>3 DEF JInv, ChildOK
    <3>2. status[t] = 0
      BY <3>1, Finite DEF JInv, ChildOK
    <3>. QED
      BY <1>1, <3>2
  <2>. QED
    BY <2>1, <2>2, <2>3
<1>5. status \in [Slots -> -1 .. NumThread + 1]
  <2>1. status \in [Slots -> Int]
    BY DEF JInv, Types
  <2>. QED
    BY <1>4, <2>1
<1>. QED
  BY <1>2, <1>3, <1>5 DEF JInv, Types, TypeOK

(* The processors that hold one thread are none or one.                    *)
LEMMA HoldersCount ==
  ASSUME JInv, NEW t \in Slots, NEW S
  PROVE  /\ Cardinality({p \in Procs : th[p] = t /\ pc[p] \in S}) = One(HeldBy(t, S))
         /\ {p \in Procs : th[p] = t /\ pc[p] \in S} = {} <=> ~ HeldBy(t, S)
<1>. DEFINE H == {p \in Procs : th[p] = t /\ pc[p] \in S}
<1>1. CASE HeldBy(t, S)
  <2>1. PICK p \in Procs : th[p] = t /\ pc[p] \in S
    BY <1>1 DEF HeldBy
  <2>2. H = {p}
    BY <2>1, Finite DEF JInv, OneProcessor
  <2>. QED
    BY <1>1, <2>2, FS_Singleton DEF One
<1>2. CASE ~ HeldBy(t, S)
  <2>1. H = {}
    BY <1>2 DEF HeldBy
  <2>. QED
    BY <1>2, <2>1, FS_EmptySet DEF One
<1>. QED
  BY <1>1, <1>2

(* StatusCounts says of cardinalities what StatusIs says of one thread.    *)
LEMMA InvStatusCounts == JInv => StatusCounts
<1>. SUFFICES ASSUME JInv, NEW t \in Slots
              PROVE
       LET held(s) == {p \in Procs : th[p] = t /\ pc[p] \in s} IN
       /\ Queued(t) /\ held({"free"}) = {} =>
            status[t] = Cardinality(Unfinished(t)) + Cardinality(held(Labels))
                        + Cardinality(held({"unmap"}))
       /\ ~ used[t] \/ held({"free"}) # {} => status[t] = -1
  BY DEF StatusCounts
<1>1. \A S : /\ Cardinality({p \in Procs : th[p] = t /\ pc[p] \in S})
                  = One(HeldBy(t, S))
             /\ {p \in Procs : th[p] = t /\ pc[p] \in S} = {} <=> ~ HeldBy(t, S)
  BY HoldersCount
<1>. QED
  BY <1>1 DEF JInv, StatusIs

(* An empty queue leaves the processors with empty hands.                  *)
LEMMA InvEmpty == JInv => EmptyMeansNoJobs
BY DEF JInv, QueueOK, Filled, Hands, Queued, Types, EmptyMeansNoJobs

(* Every variable stays in its type and every count within its bounds,     *)
(* whatever the client programs do.                                        *)
THEOREM TypeCorrect == Spec => []TypeOK
BY InvHolds, InvTypeOK, PTL

(* Two processors never deal with the same thread.                         *)
THEOREM NeverTwoProcessors == Spec => []OneProcessor
BY InvHolds, PTL DEF JInv

(* status is the number of reasons not to schedule a thread.               *)
THEOREM StatusIsCount == Spec => []StatusCounts
BY InvHolds, InvStatusCounts, PTL

(* EmptyPlain is set only when no thread is left, in the queue or in the   *)
(* hands of a processor.                                                   *)
THEOREM EmptyIsFinal == Spec => []EmptyMeansNoJobs
BY InvHolds, InvEmpty, PTL

(* A thread that FetchJob gets waits for no child, for whatever reason it  *)
(* had stopped: Yield after Spawn joins.                                   *)
THEOREM YieldIsJoin == Spec => YieldJoins
<1>. DEFINE Joins == \A p \in Procs :
                       FetchJob(p) /\ th'[p] # None /\ request[th'[p]] = "Yield"
                         => Unfinished(th'[p]) = {}
<1>1. JInv /\ [Next]_vars => [Joins]_vars
  <2>. SUFFICES ASSUME JInv, NEW p \in Procs, FetchJob(p), th'[p] # None
                PROVE  Unfinished(th'[p]) = {}
    OBVIOUS
  <2>1. pc[p] = "fetch" /\ th[p] = None
    BY DEF FetchJob, Goto, JInv, Hands, Holding
  <2>2. Ready # {}
    BY <2>1 DEF FetchJob
  <2>3. th'[p] = JobQueue[Highest(Ready)]
    BY <2>2 DEF FetchJob, JInv, Types
  <2>4. th'[p] \in Slots /\ Queued(th'[p]) /\ status[th'[p]] = 0
    BY <2>2, <2>3, HighestReady DEF Ready, JInv, Types, Queued
  <2>. QED
    BY <2>4, ReadyNotHeld
<1>. QED
  BY <1>1, InvHolds, PTL DEF Spec, YieldJoins

=============================================================================
