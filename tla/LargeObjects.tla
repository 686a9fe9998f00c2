---------------------------- MODULE LargeObjects ----------------------------
(***************************************************************************)
(* The space of large pointerless arrays in the generational collectors:   *)
(* gc_large.c over the bitmaps of bitmap.c, as AllocBigArray_Gen, _GenPara *)
(* and _GenConc use it.  The space is divided into chunks; allocMap has    *)
(* those in use, and a major collection builds in markMap the chunks of    *)
(* the arrays it reaches and then exchanges the maps.                      *)
(*                                                                         *)
(* Sizes and places are in words.  The bitmap operations hold a lock, and  *)
(* are one step.  In gc_gen.c and gc_gen_para.c no program runs between    *)
(* gc_large_startCollect and gc_large_endCollect; in gc_gen_conc.c         *)
(* programs go on, and nothing keeps them from asking for arrays, which    *)
(* the collection may or may not reach.                                    *)
(***************************************************************************)
EXTENDS Integers, FiniteSets, FiniteSetsExt

CONSTANTS NumChunk,  \* chunks in the large space
          LargeChunk, \* words in a chunk; a chunk starts on an even word
          MutatorsRun, \* whether programs run during a major collection
          Arrays,    \* bound: the arrays asked for; [double, segments, data]
          MaxArrays  \* bound: number of arrays at one time

ASSUME LargeAssumption ==
  /\ NumChunk \in Nat \ {0} /\ LargeChunk \in Nat \ {0} /\ LargeChunk % 2 = 0
  /\ MutatorsRun \in BOOLEAN /\ MaxArrays \in Nat
  /\ \A a \in Arrays : /\ a.double \in BOOLEAN /\ a.segments \in Nat
                       /\ a.data \in Nat /\ (a.double => a.data % 2 = 0)

VARIABLES allocMap,   \* the chunks in use
          pos,        \* where the next search in allocMap begins
          markMap,    \* the chunks marked in this collection
          arrays,     \* arrays the program can reach: [at, length]
          unmarked,   \* those of the start that the collection must reach yet
          collecting, \* a major collection is going on
          failed      \* chunks in the last request, if it failed

largeVars == <<allocMap, pos, markMap, arrays, unmarked, collecting, failed>>

DivideUp(n, k) == (n + k - 1) \div k
Places(a) == a.at .. a.at + a.length - 1

(* One tag, and one more for each segment of the array.                    *)
TagLength(a) == 1 + a.segments + a.data
Align(a) == IF ~ a.double THEN "NoWordAlign"
            ELSE IF a.segments % 2 = 1 THEN "EvenWordAlign" ELSE "OddWordAlign"

(* AlignMemoryPointer at an even word.                                     *)
AlignEven(place, align) == IF align = "OddWordAlign" THEN place + 1 ELSE place

(* The bits that SetBitmapRange sets and AllocBitmapRange looks at.         *)
Bits(start, size) == start .. start + size - 1

----------------------------------------------------------------------------
(* A search that ends at the end of the map.                               *)
Search_NoWrap(map, start, n) ==
  LET free == {c \in start .. NumChunk - n : Bits(c, n) \cap map = {}} IN
  IF n + Cardinality(map) > NumChunk \/ free = {} THEN -1 ELSE Min(free)

(* The loop of AllocBitmapRange.  Every bit in use that is met moves cur   *)
(* past it; dist is the number of bits passed so far.                      *)
Search(map, start, n) ==
  LET next[dist \in 0 .. 2 * NumChunk] ==
        [cur \in 0 .. NumChunk |->
           LET from == IF cur + n > NumChunk THEN 0 ELSE cur
               used == Bits(from, n) \cap map
               past == Min(used) + 1
           IN IF dist >= NumChunk THEN -1
              ELSE IF used = {} THEN from
              ELSE next[dist + past - from][IF past >= NumChunk THEN past - NumChunk
                                            ELSE past]]
  IN IF n + Cardinality(map) > NumChunk THEN -1 ELSE next[0][start]

(* gc_large_alloc asks for room for a word that aligns the array.          *)
ChunksOf(a) ==
  DivideUp(TagLength(a) + IF Align(a) = "NoWordAlign" THEN 0 ELSE 1, LargeChunk)

MayRun == MutatorsRun \/ ~ collecting

(* The chunks of an array and, when there are none, the request for a      *)
(* major collection.                                                       *)
Alloc(a) ==
  LET n == ChunksOf(a)
      chunk == Search(allocMap, pos, n)
  IN
  /\ MayRun /\ Cardinality(arrays) < MaxArrays
  /\ IF chunk = -1
       THEN /\ failed' = n /\ UNCHANGED <<allocMap, pos, arrays>>
       ELSE /\ failed' = 0 /\ pos' = chunk + n
            /\ allocMap' = allocMap \cup Bits(chunk, n)
            /\ arrays' = arrays \cup
                 {[at |-> AlignEven(chunk * LargeChunk, Align(a)),
                   length |-> TagLength(a)]}
  /\ UNCHANGED <<markMap, unmarked, collecting>>

(* The program lets go of an array.  A collection that has begun reaches it *)
(* all the same.                                                           *)
Forget(a) ==
  /\ MayRun
  /\ arrays' = arrays \ {a}
  /\ UNCHANGED <<allocMap, pos, markMap, unmarked, collecting, failed>>

(* gc_large_startCollect.                                                  *)
StartCollect ==
  /\ ~ collecting /\ collecting' = TRUE
  /\ markMap' = {} /\ unmarked' = arrays
  /\ UNCHANGED <<allocMap, pos, arrays, failed>>

(* The length of the data, without the tags.                               *)
AddRoot_DataLength(a) ==
  LET first == a.at \div LargeChunk
      marks == Bits(first, DivideUp(a.length - 1, LargeChunk))
  IN
  /\ collecting
  /\ unmarked' = unmarked \ {a}
  /\ markMap' = IF first \in markMap THEN markMap ELSE markMap \cup marks
  /\ UNCHANGED <<allocMap, pos, arrays, collecting, failed>>

(* gc_large_addRoot: as many chunks are marked as the array would need if  *)
(* it started where its first chunk does.  An array may be reached again.  *)
AddRoot(a) ==
  LET first == a.at \div LargeChunk
      marks == Bits(first, DivideUp(a.length, LargeChunk))
  IN
  /\ collecting
  /\ unmarked' = unmarked \ {a}
  /\ markMap' = IF first \in markMap THEN markMap ELSE markMap \cup marks
  /\ UNCHANGED <<allocMap, pos, arrays, collecting, failed>>

(* gc_large_endCollect, when every array of the start has been reached.    *)
EndCollect ==
  /\ collecting /\ unmarked = {}
  /\ collecting' = FALSE
  /\ allocMap' = markMap /\ markMap' = {} /\ pos' = 0 /\ failed' = 0
  /\ UNCHANGED <<arrays, unmarked>>

LargeInit ==
  /\ allocMap = {} /\ pos = 0 /\ markMap = {} /\ arrays = {} /\ unmarked = {}
  /\ collecting = FALSE /\ failed = 0

LargeNext == \/ \E a \in Arrays : Alloc(a)
             \/ \E a \in arrays : Forget(a)
             \/ StartCollect \/ EndCollect
             \/ \E a \in arrays \cup unmarked : AddRoot(a)

----------------------------------------------------------------------------
(* No two arrays share a word, and every chunk with a word of an array is  *)
(* in use, although gc_large_addRoot does not count the word that aligns   *)
(* an array of doubles (gc_large.c:20, 48).  This is so in gc_gen.c and    *)
(* gc_gen_para.c; with MutatorsRun, as in gc_gen_conc.c, an array of the    *)
(* time of a collection loses its chunks at the end.                       *)
LargeDisjoint ==
  /\ \A a, b \in arrays : a # b => Places(a) \cap Places(b) = {}
  /\ ~ collecting => \A a \in arrays : \A w \in Places(a) : w \div LargeChunk \in allocMap

(* AllocBitmapRange gives up only if no row of free chunks is long enough, *)
(* wherever its search began (bitmap.c:103-139).                           *)
NextFitComplete ==
  failed # 0 => \A c \in 0 .. NumChunk - failed :
                  Bits(c, failed) \cap allocMap # {}
=============================================================================
