--------------------------- MODULE ConcCollectors ---------------------------
(***************************************************************************)
(* The processors of a program run with one of the two concurrent          *)
(* collectors: the next-state relation and what a collection promises.     *)
(***************************************************************************)
EXTENDS SemiConc, GenConc

Step(p) == CommonStep(p) \/ SemiStep(p) \/ GenStep(p)
Next == \E p \in Procs : Step(p) \/ SemiMutate(p) \/ SemiAllocBig(p) \/ GenMutate(p)

(* Code between two waits runs on, and a processor that runs a thread      *)
(* comes to the collector: StopAllThreads makes the thread trap, and an    *)
(* idle processor polls.                                                   *)
Fairness == \A p \in Procs : WF_vars(Step(p))
Spec == Init /\ [][Next]_vars /\ Fairness

----------------------------------------------------------------------------
States == {"Off", "PendingAgressive", "Agressive", "PendingOn", "On", "PendingOff"}

(* Every variable has its type, no processor has died in the switch of a   *)
(* phase function, and numLocalStack counts the processors that have taken *)
(* shared work and not given it back.                                      *)
TypeOK ==
  /\ status \in States /\ type \in Types /\ cycle \in 0 .. MaxCycles
  /\ writes \in 0 .. MaxWrites
  /\ \A p \in Procs : todo[p] # <<>> /\ ~ At(p, "die")
  /\ numLocalStack = Cardinality({p \in Procs : hasShared[p]})
  /\ space \in {0, 1} /\ primary \in {0, 1}
  /\ \A i \in {0, 1} : mirror[i].id \in 0 .. writes

Flipping(p) == \E i \in DOMAIN todo[p] : todo[p][i] = "flip"

(* A processor that is past the first strong barrier of CollectorOff.      *)
Completing(p) == At(p, "complete") \/ (Flipping(p) /\ ~ \E i \in DOMAIN todo[p] :
                                                        todo[p][i] = "complete")

(* CollectorOff, once all have stopped: no work is left in the shared      *)
(* stack, nor with any processor.                                          *)
EmptyAtFlip ==
  (\E p \in Procs : Completing(p) /\ status = "PendingOff")
    => shared = {} /\ \A p \in Procs : local[p] = {} /\ ~ hasShared[p]

(* A mutator never runs with registers that point to the space the last    *)
(* flip has retired, whichever processor completed its thread.             *)
RootsFlipped ==
  (\E p \in Procs : At(p, "mutator")) => \A t \in Threads : threadSpace[t] = space

(* The copy of a mirrored field that mutators see never holds a pointer    *)
(* into a nursery that has been emptied, however many flips ago the field  *)
(* was written, if no program stores an array in itself (SelfPointers).    *)
NoNurseryPointer == mirror[primary].gen \in {0, epoch}

(* A collection that has begun ends: each phase runs out of work, some     *)
(* processor's push finds the stack empty, and all meet at the barriers.   *)
CollectorTurnsOff == status # "Off" ~> status = "Off"

(* The claim of GCRelease_GenConc that it updates the "replica entry with  *)
(* new (fromSpace) field": at the flip of a minor collection the copy that *)
(* mutators will see holds the value of the last write.                    *)
MirrorUpToDate ==
  \A p \in Procs :
    At(p, "flip") /\ Gen /\ type = "Minor" /\ status = "PendingOff"
      => mirror[Other(primary)] = Image(mirror[primary])
=============================================================================
