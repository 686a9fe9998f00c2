------------------------------ MODULE Storage ------------------------------
(***************************************************************************)
(* The data structures under the collectors: stacklets, the areas of       *)
(* mutators, the copy ranges of collectors, the space of large arrays,     *)
(* sets, and the spaces of the collectors for one processor.  They share   *)
(* no state.  A behaviour exercises one of them, the others stay as they   *)
(* were at the start of the program.                                       *)
(***************************************************************************)
EXTENDS Stacklets, HeapAreas, CopyRanges, LargeObjects, Sets, Sequential

VARIABLE which \* the structure that is exercised

storageVars == <<which, stackletVars, areaVars, rangeVars, largeVars, setVars, seqVars>>

Init ==
  /\ which \in {"stacklets", "areas", "ranges", "large", "sets", "sequential"}
  /\ which # "sets" => use = "stack"
  /\ which # "sequential" => kind = "semi"
  /\ StackInit /\ HeapAreasInit /\ CopyRangesInit /\ LargeInit /\ SetsInit
  /\ SequentialInit

StackletStep ==
  /\ which = "stacklets" /\ StackNext
  /\ UNCHANGED <<which, areaVars, rangeVars, largeVars, setVars, seqVars>>

AreaStep ==
  /\ which = "areas" /\ HeapAreasNext
  /\ UNCHANGED <<which, stackletVars, rangeVars, largeVars, setVars, seqVars>>

RangeStep ==
  /\ which = "ranges" /\ CopyRangesNext
  /\ UNCHANGED <<which, stackletVars, areaVars, largeVars, setVars, seqVars>>

LargeStep ==
  /\ which = "large" /\ LargeNext
  /\ UNCHANGED <<which, stackletVars, areaVars, rangeVars, setVars, seqVars>>

SetStep ==
  /\ which = "sets" /\ SetsNext
  /\ UNCHANGED <<which, stackletVars, areaVars, rangeVars, largeVars, seqVars>>

SequentialStep ==
  /\ which = "sequential" /\ SequentialNext
  /\ UNCHANGED <<which, stackletVars, areaVars, rangeVars, largeVars, setVars>>

Next == StackletStep \/ AreaStep \/ RangeStep \/ LargeStep \/ SetStep
        \/ SequentialStep

Spec == Init /\ [][Next]_storageVars
=============================================================================
