----------------------------- MODULE HeapAreas -----------------------------
(***************************************************************************)
(* How mutators come to their allocation areas under the parallel          *)
(* semispace collector: GetHeapArea (sparc.h), AllocFromThread,            *)
(* AllocFromHeap, GCSatisfiable and GCFromScheduler (gc.c), and GC_SemiPara*)
(* with AllocBigArray_SemiPara (gc_semi_para.c).                           *)
(*                                                                         *)
(* A processor takes an area by a FetchAndAdd on the cursor of fromSpace   *)
(* and, if that passed the top, gives it back by another.  Without an area *)
(* that satisfies the request of its thread it asks for a collection,      *)
(* which all processors join (SemiPara has that part in detail; here it is *)
(* one step).  Sizes are in units of which several make a page.            *)
(***************************************************************************)
EXTENDS Integers, FiniteSets

CONSTANTS AreaProcs,     \* processors
          HeapSize,      \* units in each of the two spaces
          Page,          \* minOffRequest, which is a page, in units
          MaxOffRequest, \* a multiple of Page
          MinRegion,     \* minAllocRegion
          Requests,      \* bound: what threads ask for
          Survivors      \* bound: what may survive a collection

ASSUME HeapAreasAssumption ==
  /\ IsFiniteSet(AreaProcs)
  /\ HeapSize \in Nat /\ Page \in Nat \ {0} /\ MaxOffRequest \in Nat \ {0}
  /\ MinRegion \in Nat
  /\ Requests \subseteq Nat \ {0} /\ Survivors \subseteq 0 .. HeapSize

VARIABLES cursor,    \* the cursor of fromSpace
          fromSpace, \* which of the spaces 0 and 1 that is
          area,      \* area[p]: allocCursor and allocLimit, and their space
          pc,        \* where p is
          request,   \* request[p]: requestInfo of its thread, 0 if none
          round      \* round[p]: what p takes, or is about to give back

areaVars == <<cursor, fromSpace, area, pc, request, round>>

NoArea == [space |-> 0, low |-> 0, high |-> 0]
RoundUp(n, k) == ((n + k - 1) \div k) * k
Left(p) == area[p].high - area[p].low

(* GCSatisfiable: both comparisons are strict.                             *)
GCSatisfiable(p, n) == Left(p) > MinRegion /\ n < Left(p)

(* A big array is given whole pages, and asks for a collection with them.  *)
PagesFor(n) == RoundUp(n, Page)

At(p, where) == pc' = [pc EXCEPT ![p] = where]

(* GetHeapArea's first FetchAndAdd.                                        *)
Take(p, n, granted, refused) ==
  /\ cursor' = cursor + n
  /\ IF cursor + n > HeapSize
       THEN /\ At(p, refused) /\ round' = [round EXCEPT ![p] = n]
            /\ area' = [area EXCEPT ![p] = NoArea]
       ELSE /\ At(p, granted) /\ round' = [round EXCEPT ![p] = 0]
            /\ area' = [area EXCEPT ![p] = [space |-> fromSpace, low |-> cursor,
                                            high |-> cursor + n]]

(* ML code and AllocFromThread allocate in the area.                       *)
Allocate(p, n) ==
  /\ pc[p] = "run" /\ area[p].low + n <= area[p].high
  /\ area' = [area EXCEPT ![p].low = @ + n]
  /\ UNCHANGED <<cursor, fromSpace, pc, request, round>>

(* GCFromMutator, or the scheduler mapping another thread that waits with  *)
(* a request.                                                              *)
Request(p, n) ==
  /\ pc[p] = "run"
  /\ At(p, "gc") /\ request' = [request EXCEPT ![p] = n]
  /\ UNCHANGED <<cursor, fromSpace, area, round>>

(* AllocBigArray_SemiPara: what does not fit in the area of the thread is  *)
(* taken from the heap, in pages, and leaves the area alone; if that fails *)
(* a collection is asked for by GCFromC.                                   *)
AllocFromHeap(p, n) ==
  /\ pc[p] = "run" /\ area[p].low + n > area[p].high
  /\ cursor' = cursor + PagesFor(n)
  /\ IF cursor' > HeapSize
       THEN /\ At(p, "giveBackArray") /\ round' = [round EXCEPT ![p] = PagesFor(n)]
            /\ request' = [request EXCEPT ![p] = n]
       ELSE UNCHANGED <<pc, round, request>>
  /\ UNCHANGED <<fromSpace, area>>

(* The start of GC_SemiPara.  Large areas are taken while there is room    *)
(* for one for each processor.                                             *)
EnterGC(p) ==
  LET avail == HeapSize - cursor
      large == RoundUp(request[p], MaxOffRequest)
  IN
  /\ pc[p] = "gc"
  /\ round' = [round EXCEPT ![p] = IF avail <= Cardinality(AreaProcs) * large
                                     THEN RoundUp(request[p], Page) ELSE large]
  /\ At(p, IF GCSatisfiable(p, request[p]) THEN "return" ELSE "get")
  /\ UNCHANGED <<cursor, fromSpace, area, request>>

(* GC_SemiPara before and after a collection.                              *)
GetArea(p) ==
  /\ \/ pc[p] = "get" /\ Take(p, round[p], "return", "giveBack")
     \/ pc[p] = "again" /\ Take(p, round[p], "check", "giveBack")
  /\ UNCHANGED <<fromSpace, request>>

(* GetHeapArea's second FetchAndAdd.                                       *)
GiveBack(p) ==
  /\ pc[p] \in {"giveBack", "giveBackArray"}
  /\ cursor' = cursor - round[p]
  /\ At(p, IF pc[p] = "giveBack" THEN "stopped" ELSE "gc")
  /\ UNCHANGED <<fromSpace, area, request, round>>

(* The test after a collection; what is not enough is tried again.         *)
CheckArea(p) ==
  /\ pc[p] = "check"
  /\ At(p, IF GCSatisfiable(p, request[p]) THEN "return" ELSE "stopped")
  /\ round' = [round EXCEPT ![p] = IF GCSatisfiable(p, request[p]) THEN 0
                                   ELSE Left(p)]
  /\ UNCHANGED <<cursor, fromSpace, area, request>>

(* GCFromScheduler asserts that the request can be satisfied now.          *)
ReturnFromGC(p) ==
  /\ pc[p] = "return"
  /\ At(p, IF GCSatisfiable(p, request[p]) THEN "run" ELSE "died")
  /\ request' = [request EXCEPT ![p] = 0] /\ round' = [round EXCEPT ![p] = 0]
  /\ UNCHANGED <<cursor, fromSpace, area>>

(* GCPoll: a processor that does not need space joins a collection.        *)
Poll(p) ==
  /\ pc[p] = "run" /\ \E q \in AreaProcs : pc[q] = "stopped"
  /\ At(p, "polled")
  /\ UNCHANGED <<cursor, fromSpace, area, request, round>>

Stopped == \A p \in AreaProcs : pc[p] \in {"stopped", "polled"}
Resume == [p \in AreaProcs |-> IF pc[p] = "stopped" THEN "again" ELSE "run"]

(* A collection after which only its first processor resets its area.      *)
StopCopy_FirstResets ==
  /\ Stopped
  /\ \E live \in Survivors : cursor' = live
  /\ fromSpace' = 1 - fromSpace
  /\ \E first \in AreaProcs : area' = [area EXCEPT ![first] = NoArea]
  /\ pc' = Resume
  /\ UNCHANGED <<request, round>>

(* stop_copy: the spaces are exchanged and ResetAllocation leaves every    *)
(* processor without an area.                                              *)
StopCopy ==
  /\ Stopped
  /\ \E live \in Survivors : cursor' = live
  /\ fromSpace' = 1 - fromSpace
  /\ area' = [p \in AreaProcs |-> NoArea]
  /\ pc' = Resume
  /\ UNCHANGED <<request, round>>

HeapAreasInit ==
  /\ cursor = 0 /\ fromSpace = 0
  /\ area = [p \in AreaProcs |-> NoArea] /\ pc = [p \in AreaProcs |-> "run"]
  /\ request = [p \in AreaProcs |-> 0] /\ round = [p \in AreaProcs |-> 0]

HeapAreasNext ==
  \/ \E p \in AreaProcs :
       \/ \E n \in Requests : Allocate(p, n) \/ Request(p, n) \/ AllocFromHeap(p, n)
       \/ EnterGC(p) \/ GetArea(p) \/ GiveBack(p) \/ CheckArea(p)
       \/ ReturnFromGC(p) \/ Poll(p)
  \/ StopCopy

----------------------------------------------------------------------------
(* A thread never allocates in a space that a collection has emptied:      *)
(* every processor gives up its area at a flip, whether it asked for the   *)
(* collection or joined it (gc_semi_para.c:158-163).                       *)
AreaInFromSpace ==
  \A p \in AreaProcs : pc[p] = "run" /\ Left(p) > 0 => area[p].space = fromSpace

(* GCFromScheduler asserts GCSatisfiable when GCFun returns (gc.c:777, and *)
(* thread.c:1026): "Is there enough allocation and write buffer space in   *)
(* processor to map thread?" (sparc.h:1213).                               *)
RequestSatisfied == \A p \in AreaProcs : pc[p] # "died"

(* Two processors never have the same words to allocate in.  It needs      *)
(* three processors to break: one of two that have been refused gives back *)
(* what it took, a third takes an area, and the second gives back          *)
(* (sparc.h:1735-1738).                                                    *)
AreasDisjoint ==
  \A p, q \in AreaProcs :
    p # q /\ area[p].space = area[q].space =>
      area[p].low .. area[p].high - 1 \cap area[q].low .. area[q].high - 1 = {}
=============================================================================
