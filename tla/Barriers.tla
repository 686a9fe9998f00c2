------------------------------ MODULE Barriers ------------------------------
(***************************************************************************)
(* The barrier ring of Runtime/sparc/barriers.c, one action per access to  *)
(* shared memory, with the way the collectors use it: a collection is a    *)
(* fixed sequence of weak and strong barriers (Program) that every         *)
(* processor goes through, and a processor starts it on its own request or *)
(* because checkBarrier shows that another one has already started         *)
(* (GCPoll_SemiPara, gc_semi_para.c:167-173).                              *)
(***************************************************************************)
EXTENDS Integers, Sequences, FiniteSets

CONSTANTS Procs,      \* the system processors
          Phase,      \* size of the ring, the argument maxBarrier
          Program,    \* the kinds of the barriers of one collection, in order
          MaxRounds   \* bound: no processor starts more collections than this

ASSUME BarriersAssumption ==
  /\ IsFiniteSet(Procs)
  /\ Phase \in Nat /\ Phase >= 3             \* assert(b->phase >= 3)
  /\ Program \in Seq({"weak", "strong"}) /\ Program # <<>>
  /\ MaxRounds \in Nat

NumProcessor == Cardinality(Procs)
Ring == 0 .. Phase - 1

(* Barrier number n, counted from the start, is a strong one.              *)
StrongAt(n) == n > 0 /\ Program[((n - 1) % Len(Program)) + 1] = "strong"

(* Only strong barriers recycle counters, so the ring must hold all the    *)
(* barriers from one strong barrier to the next but one: among any         *)
(* Phase - 1 barriers in a row two are strong.  Otherwise a processor that *)
(* is late in its reset takes an arrival away, and everybody waits.  The   *)
(* code does not check it.  For a program of strong barriers only it is    *)
(* the assertion above; the collectors follow every weak barrier by a      *)
(* strong one and have rings of 5, 7, 10 and 14.                           *)
ASSUME RecyclingAssumption ==
  \A n \in 0 .. Len(Program) - 1 :
    \E j, k \in 1 .. Phase - 1 : j < k /\ StrongAt(n + j) /\ StrongAt(n + k)

VARIABLES
  barriers,      \* barriers[x]: arrivals counted at position x of the ring
  lastUsed,      \* the strong barrier passed last
  barrierPhase,  \* proc->barrierPhase
  count,         \* number of barriers p has arrived at, since the start
  pc,            \* what each processor does next
  which,         \* the strong barrier it is at
  i,             \* the counter it resets next
  first          \* whether its last weakBarrier returned 0 (isFirst)

shared == <<barriers, lastUsed>>
vars == <<shared, barrierPhase, count, pc, which, i, first>>

Init == /\ barriers = [x \in Ring |-> 0]
        /\ lastUsed = Phase - 1
        /\ barrierPhase = [p \in Procs |-> 0]
        /\ count = [p \in Procs |-> 0]
        /\ pc = [p \in Procs |-> "out"]
        /\ which = [p \in Procs |-> 0]
        /\ i = [p \in Procs |-> 0]
        /\ first = [p \in Procs |-> FALSE]

Goto(p, from, to) == /\ pc[p] = from
                     /\ pc' = [pc EXCEPT ![p] = to]

(* The barrier a processor inside a collection comes to next.              *)
Kind(p) == Program[(count[p] % Len(Program)) + 1]

(* What follows the barrier counted last: another, or the collection ends. *)
After(p) == IF count[p] % Len(Program) = 0 THEN "out" ELSE "next"

----------------------------------------------------------------------------
(* A processor decides to collect.                                         *)
StartRound(p) == /\ count[p] < MaxRounds * Len(Program)
                 /\ Goto(p, "out", "next")
                 /\ UNCHANGED <<shared, barrierPhase, count, which, i, first>>

(* A poll that joins a collection only when two have arrived.              *)
PollRound_Second(p) == /\ barriers[barrierPhase[p]] > 1
                       /\ Goto(p, "out", "next")
                       /\ UNCHANGED <<shared, barrierPhase, count, which, i,
                                      first>>

(* checkBarrier tells a processor that others are already collecting.      *)
PollRound(p) == /\ barriers[barrierPhase[p]] > 0
                /\ Goto(p, "out", "next")
                /\ UNCHANGED <<shared, barrierPhase, count, which, i, first>>

(* FetchAndAdd(&b->barriers[which], 1) and the advance of barrierPhase,    *)
(* which weakBarrier and strongBarrier share.                              *)
Arrive(p) ==
  /\ barriers' = [barriers EXCEPT ![barrierPhase[p]] = @ + 1]
  /\ barrierPhase' = [barrierPhase EXCEPT ![p] = (@ + 1) % Phase]
  /\ count' = [count EXCEPT ![p] = @ + 1]

(* Not taking the count at the moment of arrival: everybody is first.      *)
WeakBarrier_NotFetched(p) ==
  /\ Kind(p) = "weak"
  /\ Arrive(p)
  /\ pc[p] = "next"
  /\ pc' = [pc EXCEPT ![p] = After(p)']
  /\ first' = [first EXCEPT ![p] = barriers[barrierPhase[p]] <= 1]
  /\ UNCHANGED <<lastUsed, which, i>>

WeakBarrier(p) ==
  /\ Kind(p) = "weak"
  /\ Arrive(p)
  /\ pc[p] = "next"
  /\ pc' = [pc EXCEPT ![p] = After(p)']
  /\ first' = [first EXCEPT ![p] = barriers[barrierPhase[p]] = 0]
  /\ UNCHANGED <<lastUsed, which, i>>

StrongBarrier(p) ==
  /\ Kind(p) = "strong"
  /\ Arrive(p)
  /\ Goto(p, "next", "spin")
  /\ which' = [which EXCEPT ![p] = barrierPhase[p]]
  /\ UNCHANGED <<lastUsed, i, first>>

(* The spin is left one arrival early.                                     *)
LeaveSpin_Early(p) ==
  /\ barriers[which[p]] >= NumProcessor - 1
  /\ Goto(p, "spin", "check")
  /\ UNCHANGED <<shared, barrierPhase, count, which, i, first>>

(* while (b->barriers[which] < b->numProcessor).                           *)
LeaveSpin(p) ==
  /\ barriers[which[p]] >= NumProcessor
  /\ Goto(p, "spin", "check")
  /\ UNCHANGED <<shared, barrierPhase, count, which, i, first>>

(* The reset starts one position late and skips the last strong barrier.   *)
ReadLastUsed_Late(p) ==
  /\ Goto(p, "check", "reset")
  /\ i' = [i EXCEPT ![p] = IF lastUsed = which[p] THEN lastUsed
                             ELSE (lastUsed + 1) % Phase]
  /\ UNCHANGED <<shared, barrierPhase, count, which, first>>

(* The assertion on the counter is read at "check"; then i = lastUsed.     *)
ReadLastUsed(p) ==
  /\ Goto(p, "check", "reset")
  /\ i' = [i EXCEPT ![p] = lastUsed]
  /\ UNCHANGED <<shared, barrierPhase, count, which, first>>

(* One iteration of the loop that resets the counters up to which.         *)
ResetCounter(p) ==
  /\ pc[p] = "reset"
  /\ i[p] # which[p]
  /\ barriers' = [barriers EXCEPT ![i[p]] = 0]
  /\ i' = [i EXCEPT ![p] = (@ + 1) % Phase]
  /\ UNCHANGED <<lastUsed, barrierPhase, count, pc, which, first>>

(* The reset goes up to and including the barrier being passed.            *)
PassStrong_ResetsOwn(p) ==
  /\ i[p] = which[p]
  /\ Goto(p, "reset", After(p))
  /\ barriers' = [barriers EXCEPT ![which[p]] = 0]
  /\ lastUsed' = which[p]
  /\ i' = [i EXCEPT ![p] = 0]
  /\ which' = [which EXCEPT ![p] = 0]
  /\ first' = [first EXCEPT ![p] = @ /\ After(p) # "out"]
  /\ UNCHANGED <<barrierPhase, count>>

(* lastUsed = which, and strongBarrier returns.                            *)
PassStrong(p) ==
  /\ i[p] = which[p]
  /\ Goto(p, "reset", After(p))
  /\ lastUsed' = which[p]
  /\ i' = [i EXCEPT ![p] = 0]
  /\ which' = [which EXCEPT ![p] = 0]
  /\ first' = [first EXCEPT ![p] = @ /\ After(p) # "out"]
  /\ UNCHANGED <<barriers, barrierPhase, count>>

----------------------------------------------------------------------------
Collect(p) == \/ PollRound(p) \/ WeakBarrier(p) \/ StrongBarrier(p)
              \/ LeaveSpin(p) \/ ReadLastUsed(p) \/ ResetCounter(p)
              \/ PassStrong(p)

Next == \E p \in Procs : StartRound(p) \/ Collect(p)

(* A processor that is not collecting polls again and again: StopAllThreads*)
(* sends every mutator to the scheduler, and work calls GCPoll while it is *)
(* idle (thread.c:967-988).                                                *)
Fairness == \A p \in Procs : WF_vars(Collect(p))

Spec == Init /\ [][Next]_vars /\ Fairness

----------------------------------------------------------------------------
(* No counter passes the number of processors, so index[which][index] is   *)
(* always written within its row (barriers.c:18, 36, 69).                  *)
TypeOK == /\ barriers \in [Ring -> 0 .. NumProcessor]
          /\ lastUsed \in Ring
          /\ barrierPhase \in [Procs -> Ring]
          /\ count \in [Procs -> Nat]
          /\ pc \in [Procs -> {"out", "next", "spin", "check", "reset"}]
          /\ which \in [Procs -> Ring]
          /\ i \in [Procs -> Ring]
          /\ first \in [Procs -> BOOLEAN]

(* The strong barriers p has left the spin loop of.                        *)
Passed(p, n) == /\ StrongAt(n)
                /\ n <= count[p]
                /\ n = count[p] => pc[p] # "spin"

(* The promise of strongBarrier: nobody is past a strong barrier that      *)
(* somebody has not reached yet (barriers.c:37-43), although the counters  *)
(* are recycled while slow processors are still leaving.                   *)
StrongBarrierHolds ==
  \A p, q \in Procs : \A n \in 1 .. count[p] : Passed(p, n) => count[q] >= n

(* assert(b->barriers[which] == b->numProcessor) (barriers.c:48): no other *)
(* processor has recycled the counter under a processor that is leaving.   *)
CounterStillFull ==
  \A p \in Procs : pc[p] = "check" => barriers[which[p]] = NumProcessor

(* In every collection exactly one processor is told that it is the first: *)
(* it alone resizes the heap and resets the job cursor, and somebody does  *)
(* (gc_semi_para.c:63-69).                                                 *)
OneFirst == \A p \in Procs : pc[p] = "check" /\ After(p) = "next"
                               => Cardinality({q \in Procs : first[q]}) = 1

(* A positive counter at its barrierPhase means that a collection p has    *)
(* not joined is under way: a poll never starts a collection by itself     *)
(* from a counter that was not recycled.                                   *)
PollMeansCollection ==
  \A p \in Procs : pc[p] = "out" /\ barriers[barrierPhase[p]] > 0
                     => \E q \in Procs : count[q] > count[p]

(* A collection that anybody starts is completed by everybody.             *)
Started(p, r) == count[p] > (r - 1) * Len(Program)

Completed(p, r) == \/ count[p] > r * Len(Program)
                   \/ count[p] = r * Len(Program) /\ pc[p] = "out"

EveryCollectionCompletes ==
  \A p, q \in Procs, r \in 1 .. MaxRounds : Started(p, r) ~> Completed(q, r)
=============================================================================
