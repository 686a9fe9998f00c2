----------------------------- MODULE Sequential -----------------------------
(***************************************************************************)
(* The two collectors for one processor: semispace, gc_semi.c, and         *)
(* generational, gc_gen.c, with HeapAdjust of gc.c.  The semispace one     *)
(* gives all of fromSpace to the program to allocate in.  The generational *)
(* one gives it the nursery, and puts big arrays of pointers in fromSpace, *)
(* which is the tenured space.                                             *)
(*                                                                         *)
(* What is in a space is the sequence of its blocks.  A collection copies  *)
(* any of them in any order, as that depends on the program, and without   *)
(* looking whether there is room.  One thread runs.  An assertion that     *)
(* fails ends the program, and outcome says which.  Sizes are in words.    *)
(***************************************************************************)
EXTENDS HeapPolicy, Sequences, FiniteSets
SE == INSTANCE SequencesExt

CONSTANTS NurseryByte,
          MinAllocRegion,
          SmallBlocks, \* bound: what ML code allocates; [length, double]
          BigArrays,   \* bound: lengths of the big arrays of pointers
          MaxBlocks    \* bound: number of blocks at one time

(* The nursery is smaller than the least heap (gc_gen.c:194).              *)
ASSUME SequentialAssumption ==
  /\ NurseryByte \in Nat \ {0} /\ NurseryByte <= MinHeapByte
  /\ MinAllocRegion \in Nat /\ MaxBlocks \in Nat

VARIABLES kind,       \* "semi" or "gen"
          started,    \* the processor has its allocation area
          old,        \* the blocks in fromSpace
          fromCursor, fromTop,
          young,      \* the blocks in the nursery
          nurCursor,
          where,      \* "run", "gc" or "retry"
          wanted,     \* requestInfo
          array,      \* length of the array that asks for it, or 0
          outcome     \* "ok", or how the program has ended

spaceVars == <<started, old, fromCursor, fromTop, young, nurCursor>>
seqVars == <<kind, spaceVars, where, wanted, array, outcome>>

(* A block of doubles has one tag, at an odd word.                         *)
End(from, blocks) ==
  LET Next1(at, b) == (IF b.double /\ at % 2 = 0 THEN at + 1 ELSE at) + b.length
  IN SE!FoldLeft(Next1, from, blocks)

BigArray(n) == [length |-> n, double |-> FALSE]
Room(b) == IF b.double THEN b.length + 1 ELSE b.length

Live == Len(old) + Len(young)
Avail == fromTop - fromCursor
AreaLeft == IF kind = "semi" THEN Avail ELSE NurseryByte - nurCursor
Satisfiable(left) == left > MinAllocRegion /\ wanted < left

Mutating == outcome = "ok" /\ where = "run"

----------------------------------------------------------------------------
(* ML code allocates in the area of the processor.                         *)
MLAllocate(b) ==
  /\ Mutating /\ started /\ Room(b) <= AreaLeft /\ Live < MaxBlocks
  /\ IF kind = "semi"
       THEN /\ old' = Append(old, b) /\ fromCursor' = End(fromCursor, <<b>>)
            /\ UNCHANGED <<young, nurCursor>>
       ELSE /\ young' = Append(young, b) /\ nurCursor' = End(nurCursor, <<b>>)
            /\ UNCHANGED <<old, fromCursor>>
  /\ UNCHANGED <<kind, started, fromTop, where, wanted, array, outcome>>

(* ... or does not have the room to.                                       *)
MLRequest(b) ==
  /\ Mutating /\ (~ started \/ Room(b) > AreaLeft)
  /\ where' = "gc" /\ wanted' = Room(b)
  /\ UNCHANGED <<kind, spaceVars, array, outcome>>

(* AllocBigArray_Semi: in the area of the thread.  An area that has not    *)
(* been given out yet has no room.                                         *)
ArrayFits_Semi(n) == started /\ n <= AreaLeft

(* AllocBigArray_Gen: whole pages of the tenured space.                    *)
ArrayFits_Gen(n) == Up(n, MinOnRequest) <= Avail

ArrayFits(n) == IF kind = "semi" THEN ArrayFits_Semi(n) ELSE ArrayFits_Gen(n)

Put(n) ==
  /\ old' = Append(old, BigArray(n))
  /\ fromCursor' = fromCursor + IF kind = "semi" THEN n ELSE Up(n, MinOnRequest)
  /\ UNCHANGED <<started, fromTop, young, nurCursor>>

(* The array is allocated, or a collection is asked for by GCFromC, and    *)
(* not a major one.                                                        *)
AllocBigArray(n) ==
  /\ Mutating /\ Live < MaxBlocks
  /\ IF ArrayFits(n) THEN Put(n) /\ UNCHANGED <<where, wanted, array>>
     ELSE /\ where' = "gc" /\ wanted' = n + 1 /\ array' = n
          /\ UNCHANGED spaceVars
  /\ UNCHANGED <<kind, outcome>>

(* The second attempt, after GCFromC, and assert(region != NULL).          *)
Retry ==
  /\ outcome = "ok" /\ where = "retry"
  /\ IF ArrayFits(array) THEN Put(array) /\ UNCHANGED outcome
     ELSE outcome' = "noRegion" /\ UNCHANGED spaceVars
  /\ where' = "run" /\ wanted' = 0 /\ array' = 0
  /\ UNCHANGED kind

----------------------------------------------------------------------------
(* The blocks that survive, in the order they are copied.                  *)
Survivals(blocks) ==
  {[i \in DOMAIN f |-> blocks[f[i]]] :
     f \in UNION {{g \in [1 .. n -> DOMAIN blocks] :
                     \A i, j \in 1 .. n : i # j => g[i] # g[j]} : n \in 0 .. Len(blocks)}}

GoOn == where' = IF array = 0 THEN "run" ELSE "retry"

(* HeapAdjust, and the assertion that the request can be satisfied in left *)
(* words of the new area.                                                  *)
Adjusted(copied, occupied, left) ==
  LET live == copied + wanted IN
  IF copied > occupied THEN "copiedMore"
  ELSE IF OutOfMemory(live, 0, FALSE) THEN "outOfMemory"
  ELSE IF ComputeHeapSize(live, 0, FALSE) < live THEN "sizeTooSmall"
  ELSE IF Satisfiable(left) THEN "ok" ELSE "unsatisfied"

(* GC_Semi and GC_Gen: there is enough room as it is.                      *)
NoCollection ==
  /\ outcome = "ok" /\ where = "gc" /\ Satisfiable(AreaLeft)
  /\ started' = TRUE /\ GoOn
  /\ UNCHANGED <<kind, old, fromCursor, fromTop, young, nurCursor, wanted, array,
                 outcome>>

Collecting(k) == outcome = "ok" /\ where = "gc" /\ kind = k /\ ~ Satisfiable(AreaLeft)

(* GCCollect_Semi.                                                         *)
GCCollect_Semi(kept) ==
  LET copied == End(0, kept)
      size == ComputeHeapSize(copied + wanted, 0, FALSE)
  IN
  /\ Collecting("semi")
  /\ outcome' = Adjusted(copied, fromCursor, size - copied)
  /\ old' = kept /\ fromCursor' = copied /\ fromTop' = size
  /\ started' = TRUE /\ GoOn
  /\ UNCHANGED <<kind, young, nurCursor, wanted, array>>

(* A minor collection whatever is left of the tenured space.               *)
Major_Never == FALSE

(* The tenured space is potentially too small.                             *)
Major == Avail < NurseryByte

(* A minor collection goes on where fromSpace ends.                        *)
Minor_Gen(kept) ==
  /\ Collecting("gen") /\ ~ Major
  /\ outcome' = IF Satisfiable(NurseryByte) THEN "ok" ELSE "unsatisfied"
  /\ old' = old \o kept /\ fromCursor' = End(fromCursor, kept)
  /\ young' = <<>> /\ nurCursor' = 0
  /\ started' = TRUE /\ GoOn
  /\ UNCHANGED <<kind, fromTop, wanted, array>>

Major_Gen(kept) ==
  LET copied == End(0, kept)
      size == ComputeHeapSize(copied + wanted, 0, FALSE)
  IN
  /\ Collecting("gen") /\ Major
  /\ outcome' = Adjusted(copied, nurCursor + fromCursor, NurseryByte)
  /\ old' = kept /\ fromCursor' = copied /\ fromTop' = size
  /\ young' = <<>> /\ nurCursor' = 0
  /\ started' = TRUE /\ GoOn
  /\ UNCHANGED <<kind, wanted, array>>

SequentialInit ==
  /\ kind \in {"semi", "gen"} /\ started = FALSE
  /\ old = <<>> /\ fromCursor = 0 /\ fromTop = (MinHeapByte + MaxHeapByte) \div 2
  /\ young = <<>> /\ nurCursor = 0
  /\ where = "run" /\ wanted = 0 /\ array = 0 /\ outcome = "ok"

SequentialNext ==
  \/ \E b \in SmallBlocks : MLAllocate(b) \/ MLRequest(b)
  \/ \E n \in BigArrays : AllocBigArray(n)
  \/ Retry \/ NoCollection
  \/ \E kept \in Survivals(old) : GCCollect_Semi(kept)
  \/ \E kept \in Survivals(young) : Minor_Gen(kept)
  \/ \E kept \in Survivals(old \o young) : Major_Gen(kept)

----------------------------------------------------------------------------
Doubles(blocks) == Cardinality({i \in DOMAIN blocks : blocks[i].double})

(* Copying without a check for room is right: what a collection copies is  *)
(* in the space, but for a word for each array of doubles, whose order may *)
(* need more alignment than it did (gc_gen.c:59, 103; gc_semi.c:73), and a *)
(* heap is never made smaller than what is in it and asked for, whichever  *)
(* collector computes its size.                                            *)
HeapHoldsLive ==
  /\ fromCursor <= fromTop + Doubles(old)
  /\ where = "gc" => SizeHolds(fromCursor + nurCursor + wanted)
  /\ outcome # "sizeTooSmall"

(* assert(region != NULL), of AllocBigArray_Semi and AllocBigArray_Gen     *)
(* (gc_semi.c:20, gc_gen.c:29): after GCFromC there is room for the array. *)
BigArrayGetsSpace == outcome # "noRegion"

(* assert(GCSatisfiable(proc,th)) (gc_semi.c:155, gc_gen.c:185).           *)
CollectionSatisfies == outcome # "unsatisfied"

(* assert(occupied >= copied) (gc.c:239).                                  *)
CopiedWithinOccupied == outcome # "copiedMore"
=============================================================================
