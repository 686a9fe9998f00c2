----------------------------- MODULE CopyRanges -----------------------------
(***************************************************************************)
(* Where the collectors put the copies they make: the copy ranges of       *)
(* forward.c and gcinline.h.  A processor takes a page from the heap by    *)
(* GetHeapArea and places its copies there one after the other; a copy of  *)
(* a chunk or more gets an area of its own.  In the hybrid order the       *)
(* copies that are still to be scanned are not in a set: they are the ones *)
(* in [start, cursor) of a range and in the gray regions, which are        *)
(* scanned from end to end.                                                *)
(*                                                                         *)
(* Places are words from the bottom of the heap, which is even.  The heap  *)
(* is large enough for a collection, as it has to be: GetHeapArea failing  *)
(* here ends the program.  A range outlives a minor collection.            *)
(***************************************************************************)
EXTENDS Integers, FiniteSets

CONSTANTS CopyProcs,  \* processors
          PageSize,   \* copyPageSize, in words
          ChunkSize,  \* copyChunkSize, in words
          Copies,     \* bound: the copies made; [length, align]
          MaxCopies,  \* bound: number of copies in all
          MaxMinors   \* bound: minor collections before a major one

ASSUME CopyRangesAssumption ==
  /\ CopyProcs # {}
  /\ ChunkSize \in Nat /\ PageSize \in Nat /\ ChunkSize <= PageSize
  /\ PageSize % 2 = 0
  /\ \A c \in Copies : /\ c.length \in Nat \ {0}
                       /\ c.align \in {"NoWordAlign", "OddWordAlign", "EvenWordAlign"}
  /\ MaxCopies \in Nat /\ MaxMinors \in Nat

VARIABLES heapCursor, \* cursor of the heap
          range,      \* range[p]: start, cursor and stop (reserve is stop)
          blocks,     \* what is in the heap: [at, length, object]
          gray,       \* the gray regions <<from, to>>
          scanned,    \* places of the objects that have been scanned
          ended,      \* the processors that have ended this collection
          minors      \* minor collections so far

rangeVars == <<heapCursor, range, blocks, gray, scanned, ended, minors>>

NoRange == [start |-> -1, cursor |-> -1, stop |-> -1] \* null pointers
Object(at, n) == [at |-> at, length |-> n, object |-> TRUE]

(* PadHeapArea, and AlignMemoryPointer, write skip words.                  *)
Pad(from, to) ==
  IF from < to THEN {[at |-> from, length |-> to - from, object |-> FALSE]} ELSE {}
Aligned(at, align) ==
  IF \/ align = "OddWordAlign" /\ at % 2 = 0
     \/ align = "EvenWordAlign" /\ at % 2 = 1 THEN at + 1 ELSE at

(* The pad that an earlier collection left at place is written over.       *)
Over(bs, place) == {b \in bs : b.object \/ b.at # place}

(* PadCopyRange.                                                           *)
Padded(r) == Over(blocks, r.cursor) \cup Pad(r.cursor, r.stop)

GraySlice(r) == IF r.start < r.cursor THEN {<<r.start, r.cursor>>} ELSE {}

AlignedLength(c) == IF c.align = "NoWordAlign" THEN c.length ELSE c.length + 1

Fits(r, c) == r.cursor + AlignedLength(c) < r.stop

Copying(p, c) == ended = {} /\ Cardinality({b \in blocks : b.object}) < MaxCopies

(* allocFromCopyRange.                                                     *)
AllocFromCopyRange(p, c) ==
  LET r == range[p]
      at == Aligned(r.cursor, c.align)
  IN
  /\ Copying(p, c) /\ Fits(r, c)
  /\ range' = [range EXCEPT ![p].cursor = at + c.length]
  /\ blocks' = Over(blocks, r.cursor) \cup Pad(r.cursor, at) \cup {Object(at, c.length)}
  /\ UNCHANGED <<heapCursor, gray, scanned, ended, minors>>

(* AllocFromCopyRangeSlow for a large object: an area that begins at the   *)
(* cursor of the heap.                                                     *)
AllocLarge(p, c) ==
  LET r == range[p]
      at == Aligned(heapCursor, c.align)
      stop == heapCursor + AlignedLength(c)
  IN
  /\ Copying(p, c) /\ ~ Fits(r, c) /\ AlignedLength(c) >= ChunkSize
  /\ heapCursor' = stop
  /\ range' = [range EXCEPT ![p].start = r.cursor]
  /\ gray' = gray \cup GraySlice(r) \cup {<<at, at + c.length>>}
  /\ blocks' = blocks \cup Pad(heapCursor, at) \cup {Object(at, c.length)}
                      \cup Pad(at + c.length, stop)
  /\ UNCHANGED <<scanned, ended, minors>>

(* A new page without the old one being padded.                            *)
NewPage_NoPad(p, c) ==
  LET r == range[p]
      at == Aligned(heapCursor, c.align)
  IN
  /\ Copying(p, c) /\ ~ Fits(r, c) /\ AlignedLength(c) < ChunkSize
  /\ heapCursor' = heapCursor + PageSize
  /\ range' = [range EXCEPT ![p] = [start |-> heapCursor, cursor |-> at + c.length,
                                    stop |-> heapCursor + PageSize]]
  /\ gray' = gray \cup GraySlice(r)
  /\ blocks' = Over(blocks, r.cursor) \cup Pad(heapCursor, at) \cup {Object(at, c.length)}
  /\ UNCHANGED <<scanned, ended, minors>>

(* A new page, whose start replaces that of a slice not added yet.         *)
NewPage_NoGray(p, c) ==
  LET r == range[p]
      at == Aligned(heapCursor, c.align)
  IN
  /\ Copying(p, c) /\ ~ Fits(r, c) /\ AlignedLength(c) < ChunkSize
  /\ heapCursor' = heapCursor + PageSize
  /\ range' = [range EXCEPT ![p] = [start |-> heapCursor, cursor |-> at + c.length,
                                    stop |-> heapCursor + PageSize]]
  /\ blocks' = Padded(r) \cup Pad(heapCursor, at) \cup {Object(at, c.length)}
  /\ UNCHANGED <<gray, scanned, ended, minors>>

(* AllocFromCopyRangeSlow for any other: the rest of the page is padded,   *)
(* and the next page is taken.                                             *)
NewPage(p, c) ==
  LET r == range[p]
      at == Aligned(heapCursor, c.align)
  IN
  /\ Copying(p, c) /\ ~ Fits(r, c) /\ AlignedLength(c) < ChunkSize
  /\ heapCursor' = heapCursor + PageSize
  /\ range' = [range EXCEPT ![p] = [start |-> heapCursor, cursor |-> at + c.length,
                                    stop |-> heapCursor + PageSize]]
  /\ gray' = gray \cup GraySlice(r)
  /\ blocks' = Padded(r) \cup Pad(heapCursor, at) \cup {Object(at, c.length)}
  /\ UNCHANGED <<scanned, ended, minors>>

(* AddGrayCopyRange, when a processor has no other gray region.            *)
AddGray(p) ==
  /\ ended = {} /\ range[p].start < range[p].cursor
  /\ gray' = gray \cup GraySlice(range[p])
  /\ range' = [range EXCEPT ![p].start = range[p].cursor]
  /\ UNCHANGED <<heapCursor, blocks, scanned, ended, minors>>

(* scanRegion: every object of a region, found by the lengths of those     *)
(* before it.                                                              *)
ScanRegion(g) ==
  /\ ended = {}
  /\ gray' = gray \ {g}
  /\ scanned' = scanned \cup {b.at : b \in {o \in blocks : /\ o.object /\ g[1] <= o.at
                                                            /\ o.at < g[2]}}
  /\ UNCHANGED <<heapCursor, range, blocks, ended, minors>>

(* The end of a collection, after which there are only padded ranges:      *)
(* PadCopyRange when it was minor, ClearCopyRange when it was major.       *)
EndCollection(p) ==
  LET r == range[p] IN
  /\ p \notin ended /\ gray = {}
  /\ \A q \in CopyProcs : range[q].start = range[q].cursor
  /\ ended' = ended \cup {p}
  /\ blocks' = Padded(r)
  /\ range' = IF minors < MaxMinors THEN range ELSE [range EXCEPT ![p] = NoRange]
  /\ UNCHANGED <<heapCursor, gray, scanned, minors>>

(* SetCopyRange: the next minor collection copies on into the same ranges, *)
(* and a major one begins with an empty heap.                              *)
NextCollection ==
  /\ ended = CopyProcs /\ minors < MaxMinors
  /\ minors' = minors + 1 /\ ended' = {}
  /\ IF minors' < MaxMinors
       THEN UNCHANGED <<heapCursor, range, blocks, scanned>>
       ELSE /\ heapCursor' = 0 /\ blocks' = {} /\ scanned' = {}
            /\ range' = [p \in CopyProcs |-> NoRange]
  /\ UNCHANGED gray

CopyRangesInit ==
  /\ heapCursor = 0 /\ range = [p \in CopyProcs |-> NoRange]
  /\ blocks = {} /\ gray = {} /\ scanned = {} /\ ended = {} /\ minors = 0

CopyRangesNext ==
  \/ \E p \in CopyProcs :
       \/ \E c \in Copies : AllocFromCopyRange(p, c) \/ AllocLarge(p, c) \/ NewPage(p, c)
       \/ AddGray(p) \/ EndCollection(p)
  \/ \E g \in gray : ScanRegion(g)
  \/ NextCollection

----------------------------------------------------------------------------
BlockWords(b) == b.at .. b.at + b.length - 1

(* The words of [from, to) are those of objects and skips that begin there.*)
Tiled(from, to) ==
  LET inside == {b \in blocks : from <= b.at /\ b.at < to} IN
  /\ UNION {BlockWords(b) : b \in inside} = from .. to - 1
  /\ \A b, c \in inside : b # c => BlockWords(b) \cap BlockWords(c) = {}

(* After every collection the heap can be walked from its bottom to its    *)
(* cursor, an object or a skip at a time, as paranoid_check_all does,      *)
(* whoever filled its pages and in whatever order.                         *)
HeapParsable == ended = CopyProcs => Tiled(0, heapCursor)

(* Hybrid order loses no copy: one that is not scanned is in exactly one   *)
(* gray region or in the slice of exactly one range, one that is scanned   *)
(* in none, and each of those can be walked (forward.c:48-58, 69-71).      *)
GrayConserved ==
  LET slices == gray \cup UNION {GraySlice(range[p]) : p \in CopyProcs} IN
  /\ \A g \in slices : Tiled(g[1], g[2])
  /\ \A b \in blocks : b.object =>
       Cardinality({g \in slices : g[1] <= b.at /\ b.at < g[2]})
         = IF b.at \in scanned THEN 0 ELSE 1
=============================================================================
