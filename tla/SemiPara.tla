------------------------------ MODULE SemiPara ------------------------------
(***************************************************************************)
(* One collection of the parallel semispace collector, stop_copy in        *)
(* Runtime/sparc/gc_semi_para.c, with sharing and stack order.  Every      *)
(* processor scans the stacks of some threads for roots, then works and    *)
(* shares its work through the stack of SharedStack until a push finds     *)
(* the stack empty.                                                        *)
(*                                                                         *)
(* The weak and strong barriers are those of Barriers, taken here as       *)
(* single steps.  Copying an object is one step: the processors race for   *)
(* it with CompareAndSwap on its tag, and exactly one wins                 *)
(* (copyCopySync in gcinline.h).  Items are roots (locations, set RootKind)*)
(* and objects (set ObjKind).                                              *)
(***************************************************************************)
EXTENDS SharedStack
SE == INSTANCE SequencesExt

CONSTANTS Threads,     \* the ML threads in the job queue
          RootsOf,     \* RootsOf[t]: the root locations in the stack of t
          Fields,      \* Fields[i]: objects the location or object i points to
          RootKind,    \* the set roots
          NoProc

Roots == UNION {{RootsOf[t][n] : n \in DOMAIN RootsOf[t]} : t \in Threads}

(* A location is in one place of one stack.  The sets are larger than all  *)
(* the work there can be; a push that fills one stops the program.         *)
ASSUME SemiParaAssumption ==
         /\ IsFiniteSet(Threads)
         /\ IsFiniteSet(Items) /\ Cardinality(Items) < Capacity
         /\ RootsOf \in [Threads -> Seq(Items)]
         /\ \A t, u \in Threads : \A m \in DOMAIN RootsOf[t], n \in DOMAIN RootsOf[u] :
              RootsOf[t][m] = RootsOf[u][n] => t = u /\ m = n
         /\ Fields \in [Items -> Seq(Items \ Roots)]
         /\ RootKind \in Kinds /\ RootKind # ObjKind
         /\ NoProc \notin Procs

VARIABLES
  stage,      \* stage[p]: how many strong barriers p has arrived at
  first,      \* the first processor at the weak barrier
  unscanned,  \* threads NextJob has not yet handed out
  copied,     \* objects copied to toSpace
  scanned,    \* objects whose fields have been updated
  worked      \* whether p has done some work since its last pop

gcVars == <<stage, first, unscanned, copied, scanned, worked>>
allVars == <<absVars, ssVars, gcVars>>

Init == /\ SharedStackInit
        /\ pc = [p \in Procs |-> "stopCopy"]
        /\ stage = [p \in Procs |-> 0]
        /\ first = NoProc
        /\ unscanned = Threads
        /\ copied = {}
        /\ scanned = {}
        /\ worked = [p \in Procs |-> FALSE]

----------------------------------------------------------------------------
(* weakBarrier(...) == 0.                                                  *)
WeakBarrier(p) ==
  /\ Goto(p, "stopCopy", IF first = NoProc THEN "check" ELSE "reset")
  /\ first' = IF first = NoProc THEN p ELSE first
  /\ UNCHANGED <<absVars, stackVars, regVars, ret, verdict, stage, unscanned,
                 copied, scanned, worked>>

(* The first processor calls isEmptySharedStack, before the collection and *)
(* after it.                                                               *)
Check(p) ==
  /\ Goto(p, "check", "isEmpty")
  /\ StartIsEmpty(p)
  /\ UNCHANGED <<verdict, gcVars>>

(* assert(isEmptySharedStack(workStack)): a failure stops the program.     *)
AssertEmpty(p) ==
  /\ Goto(p, "checked", IF ~ verdict[p] THEN "aborted"
                        ELSE IF stage[p] = 0 THEN "reset" ELSE "await")
  /\ verdict' = [verdict EXCEPT ![p] = FALSE]
  /\ stage' = IF verdict[p] /\ stage[p] > 0
                THEN [stage EXCEPT ![p] = @ + 1] ELSE stage
  /\ UNCHANGED <<absVars, stackVars, regVars, ret, first, unscanned, copied,
                 scanned, worked>>

(* resetSharedStack, then the arrival at the first strong barrier.         *)
Prepare(p) ==
  /\ Goto(p, "reset", "await")
  /\ Reset(p)
  /\ stage' = [stage EXCEPT ![p] = 1]
  /\ UNCHANGED <<absVars, regVars, ret, verdict, first, unscanned, copied,
                 scanned, worked>>

(* The strong barrier before the roots are scanned is missing.             *)
StrongBarrier_None(p) ==
  /\ pc[p] = "await"
  /\ pc' = [pc EXCEPT ![p] = CASE stage[p] = 1 -> "roots"
                               [] stage[p] = 2 -> IF p = first THEN "check"
                                                               ELSE "adjust"
                               [] stage[p] = 3 -> "end"]
  /\ UNCHANGED <<absVars, stackVars, regVars, ret, verdict, gcVars>>

(* A strong barrier that waits for one arrival too many.                   *)
StrongBarrier_OneMore(p) ==
  /\ pc[p] = "await"
  /\ \A q \in Procs : stage[q] > stage[p]
  /\ pc' = [pc EXCEPT ![p] = CASE stage[p] = 1 -> "roots"
                               [] stage[p] = 2 -> IF p = first THEN "check"
                                                               ELSE "adjust"
                               [] stage[p] = 3 -> "end"]
  /\ UNCHANGED <<absVars, stackVars, regVars, ret, verdict, gcVars>>

(* A strong barrier lets p pass when every processor has arrived at it.    *)
StrongBarrier(p) ==
  /\ pc[p] = "await"
  /\ \A q \in Procs : stage[q] >= stage[p]
  /\ pc' = [pc EXCEPT ![p] = CASE stage[p] = 1 -> "roots"
                               [] stage[p] = 2 -> IF p = first THEN "check"
                                                               ELSE "adjust"
                               [] stage[p] = 3 -> "end"]
  /\ UNCHANGED <<absVars, stackVars, regVars, ret, verdict, gcVars>>

(* NextJob hands p a thread, and p scans its stack.                        *)
ScanThread(p, t) ==
  /\ pc[p] = "roots"
  /\ t \in unscanned
  /\ unscanned' = unscanned \ {t}
  /\ local' = [local EXCEPT ![p][RootKind] = @ \o RootsOf[t]]
  /\ UNCHANGED <<absVars, slots, last, numLocalStack, hasShared, regVars, pc,
                 ret, verdict, stage, first, copied, scanned, worked>>

(* NextJob has no thread left, and p shares the roots it has found.        *)
PushRoots(p) ==
  /\ unscanned = {}
  /\ Goto(p, "roots", "reserve")
  /\ StartPush(p, FALSE, "shared")
  /\ UNCHANGED <<verdict, gcVars>>

(* One round of the loop starts with a pop; the first one follows the push *)
(* of the roots, whose result is ignored, the others a push that has not   *)
(* found the stack empty.                                                  *)
Pop(p) ==
  /\ \/ Goto(p, "shared", "popEnter")
     \/ Goto(p, "pushed", "popEnter") /\ ~ verdict[p]
  /\ StartPop(p)
  /\ worked' = [worked EXCEPT ![p] = FALSE]
  /\ UNCHANGED <<verdict, stage, first, unscanned, copied, scanned>>

Targets(i) == {Fields[i][n] : n \in DOMAIN Fields[i]}

(* The objects i points to that nobody has copied yet.                     *)
NotCopied(i) == Targets(i) \ copied

(* Local work: roots first, then objects, taken from the end of the set;   *)
(* the objects copied on the way become work of p, in whatever order.      *)
WorkOn(p, k) ==
  LET items == local[p][k]
      i == items[Len(items)]
      rest == [local[p] EXCEPT ![k] = SubSeq(items, 1, Len(items) - 1)] IN
  /\ pc[p] = "popped"
  /\ local[p][k] # <<>>
  /\ \E new \in SE!SetToSeqs(NotCopied(i)) :
       local' = [local EXCEPT ![p] = [rest EXCEPT ![ObjKind] = @ \o new]]
  /\ copied' = copied \cup Targets(i)
  /\ scanned' = scanned \cup {i}
  /\ worked' = [worked EXCEPT ![p] = TRUE]
  /\ UNCHANGED <<absVars, slots, last, numLocalStack, hasShared, regVars, pc,
                 ret, verdict, stage, first, unscanned>>

UpdateRoot(p) == WorkOn(p, RootKind)

ScanObject(p) == local[p][RootKind] = <<>> /\ WorkOn(p, ObjKind)

(* p shares what is left: always when it has nothing left, and after some  *)
(* work when reachCheckWork says that its quota is used up.                *)
Push(p) ==
  /\ local[p][RootKind] = <<>>
  /\ worked[p] \/ local[p][ObjKind] = <<>>
  /\ Goto(p, "popped", "reserve")
  /\ StartPush(p, FALSE, "pushed")
  /\ UNCHANGED <<verdict, gcVars>>

(* The push has found the stack empty: p arrives at the second barrier.    *)
StopWork(p) ==
  /\ verdict[p]
  /\ Goto(p, "pushed", "await")
  /\ verdict' = [verdict EXCEPT ![p] = FALSE]
  /\ stage' = [stage EXCEPT ![p] = 2]
  /\ UNCHANGED <<absVars, stackVars, regVars, ret, first, unscanned, copied,
                 scanned, worked>>

(* ResetAllocation, then the arrival at the third barrier.                 *)
Adjust(p) ==
  /\ Goto(p, "adjust", "await")
  /\ stage' = [stage EXCEPT ![p] = 3]
  /\ UNCHANGED <<absVars, stackVars, regVars, ret, verdict, first, unscanned,
                 copied, scanned, worked>>

----------------------------------------------------------------------------
Aborted == \E p \in Procs : pc[p] = "aborted"

Step(p) == \/ StackStep(p) /\ UNCHANGED gcVars
           \/ WeakBarrier(p) \/ Check(p) \/ AssertEmpty(p) \/ Prepare(p)
           \/ StrongBarrier(p) \/ (\E t \in Threads : ScanThread(p, t))
           \/ PushRoots(p) \/ Pop(p) \/ UpdateRoot(p) \/ ScanObject(p)
           \/ Push(p) \/ StopWork(p) \/ Adjust(p)

AdmitNext(r) == AdmitSome(r) /\ UNCHANGED gcVars

Next == /\ ~ Aborted
        /\ (\E p \in Procs : Step(p)) \/ (\E r \in Rooms : AdmitNext(r))

(* Every processor keeps running.  The rooms are fair to every ticket:     *)
(* Rooms!EveryTicketAdmitted.                                              *)
Fairness == /\ \A p \in Procs : WF_allVars(~ Aborted /\ Step(p))
            /\ \A r \in Rooms : SF_allVars(~ Aborted /\ AdmitNext(r))

Spec == Init /\ [][Next]_allVars /\ Fairness

----------------------------------------------------------------------------
(* The types of the state; numLocalStack never goes below 0, as both       *)
(* assertions on it in gc_para.c (208, 251) say, nor above the number of   *)
(* processors.                                                             *)
TypeOK ==
  /\ slots \in [Kinds -> [0 .. Capacity - 1 -> Items \cup {NoItem}]]
  /\ last \in [Kinds -> Int]
  /\ numLocalStack \in 0 .. NumProc
  /\ local \in [Procs -> [Kinds -> Seq(Items)]]
  /\ hasShared \in [Procs -> BOOLEAN]
  /\ pc \in [Procs -> {"stopCopy", "check", "isEmpty", "checked", "aborted",
                       "reset", "await", "roots", "reserve", "fill",
                       "pushEnd", "leave", "finalizer", "noFinalizer",
                       "shared", "pushed", "popEnter", "fetch", "overreach",
                       "copy", "popEnd", "popped", "adjust", "end"}]
  /\ ret \in [Procs -> {"checked", "shared", "pushed", "popped"}]
  /\ kind \in [Procs -> Kinds]
  /\ request \in [Procs -> Int] /\ objRequest \in [Procs -> Int]
  /\ lo \in [Procs -> Nat] /\ hi \in [Procs -> Nat]
  /\ fetched \in [Procs -> BOOLEAN] /\ verdict \in [Procs -> BOOLEAN]
  /\ stage \in [Procs -> 0 .. 3]
  /\ first \in Procs \cup {NoProc}
  /\ unscanned \subseteq Threads
  /\ copied \subseteq Items /\ scanned \subseteq Items
  /\ worked \in [Procs -> BOOLEAN]

(* The work that exists: roots found and objects copied, not yet handled.  *)
Found == UNION {{RootsOf[t][n] : n \in DOMAIN RootsOf[t]} :
                t \in Threads \ unscanned}
Pending == (Found \cup copied) \ scanned

Range_(p) == lo[p] .. hi[p] - 1

(* The words of shared set k that hold work: below the cursor, without the *)
(* ones reserved but not yet filled, and those a pop has taken but not yet *)
(* copied.                                                                 *)
SharedWords(k) ==
  LET at(s) == {p \in Procs : pc[p] \in s /\ kind[p] = k} IN
  ((0 .. last[k] - 1) \ UNION {Range_(p) : p \in at({"fill"})})
    \cup UNION {Range_(p) : p \in at({"overreach", "copy"})}

Copies(i) ==
  {w \in Kinds \X (0 .. Capacity - 1) :
     w[2] \in SharedWords(w[1]) /\ slots[w[1]][w[2]] = i}
    \cup {w \in Procs \X Kinds \X (1 .. Cardinality(Items)) :
            /\ w[3] \in DOMAIN local[w[1]][w[2]]
            /\ local[w[1]][w[2]][w[3]] = i}

(* No work is lost or duplicated by pushes and pops of any number of       *)
(* processors, overreaching or not: what has been found and not yet        *)
(* handled is in exactly one place, and nothing else is anywhere.          *)
WorkConserved ==
  \A i \in Items : Cardinality(Copies(i)) = IF i \in Pending THEN 1 ELSE 0

(* A push that reports StackEmpty is right about all processors: no thread *)
(* is left to scan, no work is left anywhere, and everything reachable     *)
(* from the roots has been copied and scanned.                             *)
EmptyMeansDone ==
  (\E p \in Procs : (verdict[p] /\ pc[p] = "pushed") \/ stage[p] >= 2) =>
    /\ unscanned = {}
    /\ Pending = {}
    /\ \A i \in scanned : Targets(i) \subseteq scanned

(* assert(isEmptySharedStack(workStack)) after the collection              *)
(* (gc_semi_para.c:152) holds.                                             *)
EmptyAfterCollection ==
  \A p \in Procs : pc[p] = "aborted" => stage[p] = 0

(* assert(isEmptySharedStack(workStack)) before it (gc_semi_para.c:65).    *)
EmptyBeforeCollection ==
  \A p \in Procs : pc[p] = "aborted" => stage[p] > 0

(* getFromSharedStack resets the cursor from several processors; "ok since *)
(* there are no increments" (gc_para.c:74-77).                             *)
PopsNeverIncrement ==
  [][\A p \in Procs : Fetch(p) => last'[kind[p]] <= last[kind[p]]]_allVars

(* The processors agree that the stack is empty and finish the collection, *)
(* unless the assertion before it stops the program.                       *)
CollectionEnds == <>(Aborted \/ \A p \in Procs : pc[p] = "end")
=============================================================================
