------------------------------ MODULE SemiConc ------------------------------
(***************************************************************************)
(* The concurrent semispace collector, Runtime/sparc/gc_semi_conc.c.       *)
(***************************************************************************)
EXTENDS Concurrent

Semi == collector = "semi"

(* CollectorOn, CollectorTransition and CollectorOff, step by step.        *)
SemiCollectorOn ==
  <<"signalOn", "weak", "resetJob", "reset", "strong", "scan", "push", "setOn",
    "strong">>

SemiCollectorTransition ==
  <<"signalTransition", "weak", "resetJob", "reset", "strong", "scan", "push",
    "setTransition", "strong">>

(* The flip without the barrier before it.                                 *)
SemiCollectorOff_NoBarrier ==
  <<"signalOff", "weak", "resetJob", "complete", "strong", "flip", "strong">>

(* The stacks are completed by processors that do not wait for each other. *)
SemiCollectorOff ==
  <<"signalOff", "weak", "resetJob", "strong", "complete", "strong", "flip",
    "strong">>

(* GCRelease_SemiConc: what was allocated or overwritten becomes gray when *)
(* the collector is on, and is shared.                                     *)
SemiRelease(p) ==
  LET on == status \in {"On", "PendingOff"}
              \/ (agressive[type] /\ status \in {"Agressive", "PendingOn"}) IN
  /\ Semi /\ At(p, "mutator")
  /\ log' = [log EXCEPT ![p] = FALSE]
  /\ local' = [local EXCEPT ![p] = IF on /\ log[p] THEN @ \cup {Gray(p)} ELSE @]
  /\ Become(p, IF on THEN <<"pushRelease", "switch">> ELSE <<"switch">>)
  /\ UNCHANGED <<optionVars, status, type, cycle, arrived, isFirst, unscanned,
                 shared, next, localNext, hasShared, numLocalStack, pushing,
                 space, threadSpace, writes, mirrorVars>>

(* GCPoll_SemiConc, for an idle processor.                                 *)
SemiPoll(p) ==
  /\ Semi /\ At(p, "mutator") /\ status # "Off" /\ ~ log[p]
  /\ Become(p, <<"poll">>)
  /\ UNCHANGED <<optionVars, status, type, cycle, arrived, isFirst, unscanned,
                 stackVars, space, threadSpace, log, writes, mirrorVars>>

(* The switch of GC_SemiConc and that of GCPoll_SemiConc, which goes       *)
(* through one case only.  A fall through a label, and a goto to one, is   *)
(* the other status of a case.                                             *)
SemiSwitch(p) ==
  LET Then(retry) == IF At(p, "poll") THEN <<"mutator">> ELSE <<retry>> IN
  /\ Semi /\ (At(p, "switch") \/ At(p, "poll"))
  /\ \/ status = "Off" /\ Satisfied(p)
     \/ /\ \/ At(p, "switch") /\ MayStart
           \/ status = "PendingAgressive"
           \/ status = "PendingOn" /\ ~ agressive[type]
        /\ Become(p, SemiCollectorOn \o Then("retry"))
     \/ /\ status = "PendingOn" /\ agressive[type]
        /\ Become(p, SemiCollectorTransition \o Then("retry"))
     \/ status \in {"Agressive", "On"} /\ Become(p, Quantum)
     \/ /\ status = "PendingOff"
        /\ Become(p, <<"pop">> \o SemiCollectorOff \o Then("switch"))
  /\ UNCHANGED <<optionVars, status, type, cycle, arrived, isFirst, unscanned,
                 stackVars, space, threadSpace, log, writes, mirrorVars>>

(* After a quantum the request is satisfied; after a function it may       *)
(* instead be tried again when the next phase is pending.                  *)
SemiReturn(p) ==
  /\ Semi
  /\ \/ (At(p, "quit") \/ At(p, "retry")) /\ Satisfied(p)
     \/ /\ At(p, "retry") /\ status \in {"PendingOn", "PendingOff"}
        /\ Become(p, <<"switch">>)
  /\ UNCHANGED <<optionVars, status, type, cycle, arrived, isFirst, unscanned,
                 stackVars, space, threadSpace, log, writes, mirrorVars>>

(* One item of work: a stack or a gray object.                             *)
SemiWork(p, w) ==
  /\ Semi /\ (At(p, "work") \/ At(p, "worked")) /\ w \in local[p]
  /\ local' = [local EXCEPT ![p] = @ \ {w}]
  /\ Goto(p, "worked")
  /\ UNCHANGED <<optionVars, status, type, cycle, arrived, isFirst, unscanned,
                 shared, next, localNext, hasShared, numLocalStack, pushing,
                 space, threadSpace, log, writes, mirrorVars>>

(* What the first processor does alone at the end of CollectorOff.         *)
SemiFlip(p) ==
  /\ Semi /\ At(p, "flip") /\ Advance(p)
  /\ IF isFirst[p]
       THEN space' = 1 - space /\ status' = "Off" /\ cycle' = cycle + 1
       ELSE UNCHANGED <<space, status, cycle>>
  /\ UNCHANGED <<optionVars, type, arrived, isFirst, unscanned, stackVars,
                 threadSpace, log, writes, mirrorVars>>

(* The collector copies what a mutator allocates, as soon as it does.      *)
ShouldDoubleAllocate == status \in {"On", "PendingOff"}

(* AllocBigArray_SemiConc: the array is gray before the mutator has it.    *)
SemiAllocBig(p) ==
  /\ Semi /\ At(p, "mutator") /\ writes < MaxWrites
  /\ writes' = writes + 1 /\ log' = [log EXCEPT ![p] = TRUE]
  /\ local' = [local EXCEPT ![p] = IF ShouldDoubleAllocate THEN @ \cup {Gray(p)} ELSE @]
  /\ UNCHANGED <<optionVars, status, type, cycle, todo, arrived, isFirst,
                 unscanned, shared, next, localNext, hasShared, numLocalStack,
                 pushing, space, threadSpace, mirrorVars>>

(* A mutator allocates or writes.                                          *)
SemiMutate(p) ==
  /\ Semi /\ At(p, "mutator") /\ writes < MaxWrites
  /\ writes' = writes + 1 /\ log' = [log EXCEPT ![p] = TRUE]
  /\ UNCHANGED <<optionVars, status, type, cycle, todo, arrived, isFirst,
                 unscanned, stackVars, space, threadSpace, mirrorVars>>

SemiStep(p) == \/ SemiRelease(p) \/ SemiPoll(p) \/ SemiSwitch(p) \/ SemiReturn(p)
               \/ (\E w \in local[p] : SemiWork(p, w)) \/ SemiFlip(p)
=============================================================================
