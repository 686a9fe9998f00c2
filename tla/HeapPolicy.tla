----------------------------- MODULE HeapPolicy -----------------------------
(***************************************************************************)
(* How large the heap is to be after a collection: ComputeHeapSize of      *)
(* gc.c, with the part of the heap that a concurrent collector keeps in    *)
(* reserve.  The size that mutators may fill is the reduced one, and the   *)
(* expanded one includes the reserve.                                      *)
(*                                                                         *)
(* The computation in floating point is exact here.                        *)
(***************************************************************************)
EXTENDS Integers

CONSTANTS MinHeapByte, MaxHeapByte,
          Kb,             \* heap sizes are rounded up to a multiple of it
          MinRatio, MaxRatio,         \* in percent
          MinRatioSize, MaxRatioSize, \* in Kb
          MinOnRequest,   \* a page
          CollectionRate, \* here a whole number
          NumProcs        \* NumProc

ASSUME HeapPolicyAssumption ==
  /\ MinHeapByte \in Nat /\ MaxHeapByte \in Nat /\ MinHeapByte <= MaxHeapByte
  /\ Kb \in Nat \ {0} /\ MinOnRequest \in Nat \ {0} /\ NumProcs \in Nat \ {0}
  /\ MinRatio \in 1 .. 99 /\ MaxRatio \in MinRatio .. 99
  /\ MinRatioSize \in Nat /\ MaxRatioSize \in Nat /\ MinRatioSize < MaxRatioSize
  /\ CollectionRate \in Nat /\ CollectionRate > 1

(* C division goes towards 0, which matters for a size that the reserve of *)
(* all processors has made negative.                                       *)
Quotient(a, b) == IF a >= 0 THEN a \div b ELSE - ((- a) \div b)
Up(n, k) == Quotient(n + k - 1, k) * k
Down(n, k) == Quotient(n, k) * k

(* What computeReserve leaves of the heap, as a fraction: 1 / (rate + 1)   *)
(* with one phase, rate^2 / (rate^2 + rate + 1) with two.                  *)
Unreserved(phases) ==
  LET r == CollectionRate IN
  IF phases = 1 THEN [num |-> 1, den |-> r + 1]
                ELSE [num |-> r * r, den |-> r * r + r + 1]

(* For each processor two requests are on their way.                       *)
InFlight == 2 * NumProcs * MinOnRequest

ExpandedToReduced(size, phases) ==
  LET u == Unreserved(phases)
      committed == Quotient(Up(size, MinOnRequest) * u.num, u.den)
  IN IF phases = 0 THEN size ELSE Down(committed - InFlight, MinOnRequest)

(* The same without the requests that are on their way.                    *)
ReducedToExpanded_NoRequests(size, phases) ==
  LET u == Unreserved(phases) IN
  IF phases = 0 THEN size
  ELSE Down(Quotient(Up(size, MinOnRequest) * u.den, u.num), MinOnRequest)

ReducedToExpanded(size, phases) ==
  LET u == Unreserved(phases)
      wanted == Up(size, MinOnRequest) + InFlight
  IN IF phases = 0 THEN size ELSE Down(Quotient(wanted * u.den, u.num), MinOnRequest)

(* live / newratio, where newratio goes from MinRatio to MaxRatio as live  *)
(* goes from MinRatioSize to MaxRatioSize.                                 *)
DesiredSize(live) ==
  LET width == Kb * (MaxRatioSize - MinRatioSize)
      past == live - Kb * MinRatioSize
      where == IF past > width THEN width ELSE IF past < 0 THEN 0 ELSE past
  IN Up((live * 100 * width) \div (MinRatio * width + where * (MaxRatio - MinRatio)), Kb)

MaxReduced(phases, relaxed) == ExpandedToReduced(MaxHeapByte, IF relaxed THEN 0 ELSE phases)
MinReduced(phases, relaxed) == ExpandedToReduced(MinHeapByte, IF relaxed THEN 0 ELSE phases)

OutOfMemory(live, phases, relaxed) == live > MaxReduced(phases, relaxed)

(* The reduced size, when memory is not out.                               *)
ComputeHeapSize(live, phases, relaxed) ==
  LET reduced == DesiredSize(live)
      expanded == ReducedToExpanded(reduced, phases)
  IN IF expanded > MaxHeapByte THEN MaxReduced(phases, relaxed)
     ELSE IF expanded < MinHeapByte THEN MinReduced(phases, relaxed)
     ELSE reduced

(* assert(newReducedSize >= live), and the heap is not resized beyond what *)
(* is mapped for it (gc.c:219, memobj.c:558): for every collector, however *)
(* the two conversions round.                                              *)
SizeHolds(live) ==
  \A phases \in 0 .. 2, relaxed \in BOOLEAN :
    ~ OutOfMemory(live, phases, relaxed) =>
      ComputeHeapSize(live, phases, relaxed) \in live .. MaxHeapByte
=============================================================================
