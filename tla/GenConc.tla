------------------------------ MODULE GenConc ------------------------------
(***************************************************************************)
(* The concurrent generational collector, Runtime/sparc/gc_gen_conc.c.     *)
(* The field of a tenured pointer array is in two copies (mirrorArray):    *)
(* mutators use one, a minor collection prepares the other, and the two    *)
(* change roles at the flip.  A write records the copy that has to be      *)
(* brought up to date in this collection (backLocs) and the one in the     *)
(* next (nextBackLocs).                                                    *)
(*                                                                         *)
(* A release tests the first field of the array to find out whether it has *)
(* been scanned (line 812).  The field modelled is another one, and the    *)
(* value of the first is left open.                                        *)
(***************************************************************************)
EXTENDS Concurrent

CONSTANT SelfPointers \* whether a program stores an array in itself

ASSUME GenConcAssumption == SelfPointers \in BOOLEAN

Gen == collector = "gen"

(* CollectorOn, CollectorTransition and CollectorOff, step by step.        *)
GenCollectorOn ==
  <<"signalOn", "weak", "resetJob", "strong", "scan", "strong", "resetNext",
    "strong", "push", "setOn", "strong">>

GenCollectorTransition ==
  <<"signalTransition", "weak", "resetJob", "reset", "strong", "scan", "strong",
    "strong", "push", "setTransition", "strong">>

GenCollectorOff ==
  <<"signalOff", "weak", "resetJob", "strong", "complete", "strong", "flip",
    "strong">>

Other(i) == 1 - i
GenOn == status \in {"On", "PendingOff"}
           \/ (agressive[type] /\ status \in {"Agressive", "PendingOn"})

(* Whether the release of a logged write ends with the graying, as if the  *)
(* array were a replica not scanned yet.  In a minor collection the array  *)
(* is its own replica, and the test is true if its first field holds the   *)
(* array itself.                                                           *)
Skips == {FALSE} \cup (IF SelfPointers /\ type = "Minor" THEN {GenOn} ELSE {})

(* A release that does not remember the write for the next collection.     *)
GenRelease_OneCycle(p) ==
  /\ Gen /\ At(p, "mutator")
  /\ log' = [log EXCEPT ![p] = FALSE]
  /\ \E skips \in Skips :
       LET recorded == log[p] /\ type = "Minor" /\ ~ skips IN
       /\ local' = [local EXCEPT ![p] = @
                      \cup (IF recorded THEN {Back(primary, writes)} ELSE {})
                      \cup (IF log[p] /\ GenOn THEN {Gray(p)} ELSE {})]
       /\ mirror' = IF recorded /\ GenOn
                      THEN [mirror EXCEPT ![Other(primary)] = Image(mirror[primary])]
                      ELSE mirror
  /\ \E to \in {"switch"} \cup (IF log[p] THEN {"full"} ELSE {}) :
       Become(p, IF GenOn THEN <<"pushRelease", to>> ELSE <<to>>)
  /\ UNCHANGED <<optionVars, status, type, cycle, arrived, isFirst, unscanned,
                 shared, next, localNext, hasShared, numLocalStack, pushing,
                 space, threadSpace, writes, primary, epoch, held>>

(* GCRelease_GenConc.  While the collector is on, the new and the          *)
(* overwritten object become gray and, unless the release skips the rest,  *)
(* in a minor collection the other copy gets the image of the value the    *)
(* field has now.  Before and in a minor collection the write is recorded. *)
(* The processor has come for space or because its write list is full.     *)
GenRelease(p) ==
  /\ Gen /\ At(p, "mutator")
  /\ log' = [log EXCEPT ![p] = FALSE]
  /\ \E skips \in Skips :
       LET recorded == log[p] /\ type = "Minor" /\ ~ skips IN
       /\ local' = [local EXCEPT ![p] = @
                      \cup (IF recorded THEN {Back(primary, writes)} ELSE {})
                      \cup (IF log[p] /\ GenOn THEN {Gray(p)} ELSE {})]
       /\ localNext' = [localNext EXCEPT ![p] = @ \cup
            (IF recorded THEN {Back(Other(primary), writes)} ELSE {})]
       /\ mirror' = IF recorded /\ GenOn
                      THEN [mirror EXCEPT ![Other(primary)] = Image(mirror[primary])]
                      ELSE mirror
  /\ \E to \in {"switch"} \cup (IF log[p] THEN {"full"} ELSE {}) :
       Become(p, IF GenOn THEN <<"pushRelease", to>> ELSE <<to>>)
  /\ UNCHANGED <<optionVars, status, type, cycle, arrived, isFirst, unscanned,
                 shared, next, hasShared, numLocalStack, pushing, space,
                 threadSpace, writes, primary, epoch, held>>

(* GCPoll_GenConc calls GC_GenConc without a thread.                       *)
GenPoll(p) ==
  /\ Gen /\ At(p, "mutator") /\ status # "Off" /\ ~ log[p]
  /\ Become(p, <<"poll">>)
  /\ UNCHANGED <<optionVars, status, type, cycle, arrived, isFirst, unscanned,
                 stackVars, space, threadSpace, log, writes, mirrorVars>>

(* The switch of GC_GenConc, and the return before it of a thread that     *)
(* only needs an empty write list.                                         *)
GenSwitch(p) ==
  LET label == Head(todo[p])
      again == <<IF label = "poll" THEN "poll" ELSE "switch">>
  IN
  /\ Gen /\ label \in {"switch", "poll", "full"}
  /\ IF label = "full" /\ status # "PendingOff" THEN Satisfied(p) ELSE
     \/ status = "Off" /\ Satisfied(p)
     \/ /\ (label = "switch" /\ MayStart) \/ status = "PendingAgressive"
           \/ (status = "PendingOn" /\ ~ agressive[type])
        /\ Become(p, GenCollectorOn \o <<IF agressive[type] THEN "retry"
                                         ELSE again[1]>>)
     \/ /\ status = "PendingOn" /\ agressive[type]
        /\ Become(p, GenCollectorTransition \o again)
     \/ status \in {"Agressive", "On"} /\ Become(p, Quantum)
     \/ /\ status = "PendingOff"
        /\ Become(p, <<"pop">> \o GenCollectorOff \o again)
  /\ UNCHANGED <<optionVars, status, type, cycle, arrived, isFirst, unscanned,
                 stackVars, space, threadSpace, log, writes, mirrorVars>>

(* After a quantum, or after the first phase has been turned on, the       *)
(* thread has its space, or the next phase is pending already.             *)
GenReturn(p) ==
  /\ Gen /\ (At(p, "quit") \/ At(p, "retry"))
  /\ \/ Satisfied(p)
     \/ /\ status = IF At(p, "retry") THEN "PendingOn" ELSE "PendingOff"
        /\ Become(p, <<"switch">>)
  /\ UNCHANGED <<optionVars, status, type, cycle, arrived, isFirst, unscanned,
                 stackVars, space, threadSpace, log, writes, mirrorVars>>

(* A back location: the value of the one copy goes to the other, and if it *)
(* is in the nursery it is forwarded there, which is a step of its own.    *)
CopyBack(p, w) ==
  LET value == mirror[w.at] IN
  /\ mirror' = [mirror EXCEPT ![Other(w.at)] = value]
  /\ IF value.gen = 0
       THEN UNCHANGED held /\ Goto(p, "worked")
       ELSE /\ held' = [held EXCEPT ![p] = [at |-> Other(w.at), ptr |-> value]]
            /\ Goto(p, "forward")

GenWork(p, w) ==
  /\ Gen /\ (At(p, "work") \/ At(p, "worked")) /\ w \in local[p]
  /\ local' = [local EXCEPT ![p] = @ \ {w}]
  /\ IF w.kind = "back" /\ type = "Minor"
       THEN CopyBack(p, w)
       ELSE Goto(p, "worked") /\ UNCHANGED <<mirror, held>>
  /\ UNCHANGED <<optionVars, status, type, cycle, arrived, isFirst, unscanned,
                 shared, next, localNext, hasShared, numLocalStack, pushing,
                 space, threadSpace, log, writes, primary, epoch>>

ForwardBack(p) ==
  /\ Gen /\ At(p, "forward") /\ Goto(p, "worked")
  /\ mirror' = [mirror EXCEPT ![held[p].at] = Image(held[p].ptr)]
  /\ UNCHANGED <<optionVars, status, type, cycle, arrived, isFirst, unscanned,
                 stackVars, space, threadSpace, log, writes, primary, epoch,
                 held>>

(* The end of CollectorOff, by the first processor: the copies change      *)
(* roles, a minor collection empties the nursery, a major one has copied   *)
(* the array.  Whether the next one is major depends on the space left.    *)
GenFlip(p) ==
  /\ Gen /\ At(p, "flip") /\ Advance(p)
  /\ IF ~ isFirst[p]
       THEN UNCHANGED <<space, status, cycle, type, primary, epoch, mirror, next>>
       ELSE /\ space' = 1 - space /\ status' = "Off" /\ cycle' = cycle + 1
            /\ type' \in Types /\ primary' = Other(primary)
            /\ IF type = "Minor"
                 THEN epoch' = epoch + 1 /\ UNCHANGED <<mirror, next>>
                 ELSE /\ next' = {} /\ UNCHANGED epoch
                      /\ mirror' = [i \in {0, 1} |-> Image(mirror[primary])]
  /\ UNCHANGED <<optionVars, arrived, isFirst, unscanned, shared, local,
                 localNext, hasShared, numLocalStack, pushing, threadSpace, log,
                 writes, held>>

(* A mutator writes a new object into the field.  Objects are allocated in *)
(* the nursery, but in fromSpace when the collection to come is major.     *)
GenMutate(p) ==
  /\ Gen /\ At(p, "mutator") /\ writes < MaxWrites
  /\ writes' = writes + 1 /\ log' = [log EXCEPT ![p] = TRUE]
  /\ mirror' = [mirror EXCEPT ![primary] =
                  Pointer(writes + 1, IF type = "Minor" THEN epoch ELSE 0)]
  /\ UNCHANGED <<optionVars, status, type, cycle, todo, arrived, isFirst,
                 unscanned, stackVars, space, threadSpace, primary, epoch, held>>

GenStep(p) == \/ GenRelease(p) \/ GenPoll(p) \/ GenSwitch(p) \/ GenReturn(p)
              \/ (\E w \in local[p] : GenWork(p, w)) \/ ForwardBack(p)
              \/ GenFlip(p)
=============================================================================
