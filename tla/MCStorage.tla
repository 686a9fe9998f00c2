----------------------------- MODULE MCStorage -----------------------------
(* Instances of the data structures for TLC.                               *)
EXTENDS Storage, TLC

Array(d, s, n) ==
  [double |-> d, segments |-> s, data |-> n]

(* Arrays of one to three chunks, with and without segments.               *)
MCArrays == {Array(FALSE, 0, 3), Array(FALSE, 0, 4), Array(TRUE, 0, 6),
             Array(TRUE, 1, 2), Array(TRUE, 2, 8)}

Copy(length, align) == [length |-> length, align |-> align]

(* A pair, a small array of doubles and one that has an area of its own.   *)
MCCopies == {Copy(2, "NoWordAlign"), Copy(3, "OddWordAlign"), Copy(5, "OddWordAlign")}

Block(length, double) == [length |-> length, double |-> double]

(* A record, and an array of doubles.                                      *)
MCSmall == {Block(3, FALSE), Block(5, TRUE)}

(* Stacklets has by far the most states.                                   *)
Symmetry == Permutations(StackProcs) \cup Permutations(StackThreads)
=============================================================================
