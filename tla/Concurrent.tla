----------------------------- MODULE Concurrent -----------------------------
(***************************************************************************)
(* What the two concurrent collectors of Runtime/sparc, gc_semi_conc.c and *)
(* gc_gen_conc.c, have in common: mutators go on running while the         *)
(* collector is on, every entry into the collector does a part of the      *)
(* work, and all processors change the phase GCStatus together, through    *)
(* functions that meet at barriers.  SemiConc and GenConc say what those   *)
(* functions do, as lists of the steps defined here.                       *)
(*                                                                         *)
(* The objects themselves, and the races of copying and writing them, are  *)
(* in Copying; the shared stack and its rooms word by word in SharedStack. *)
(* Here a piece of work is one item and an operation of the stack one step *)
(* (a push two, as what it returns depends on who is in the push room).    *)
(***************************************************************************)
EXTENDS Integers, Sequences, FiniteSets

CONSTANTS Procs,      \* processors
          Threads,    \* ML threads in the job queue
          Options,    \* the settings of doAgressive and doMinorAgressive
          MaxCycles,  \* bound: no collection starts after so many
          MaxWrites   \* bound on the entries of all write lists

Types == {"Minor", "Major"}

ASSUME ConcurrentAssumption ==
         /\ IsFiniteSet(Procs) /\ Procs # {} /\ IsFiniteSet(Threads)
         /\ Options \subseteq [Types -> BOOLEAN]
         /\ MaxCycles \in Nat /\ MaxWrites \in Nat

VARIABLES
  collector,      \* "semi" or "gen"
  agressive,      \* agressive[t]: collections of type t have two phases
  status,         \* GCStatus
  type,           \* GCType
  cycle,          \* number of collections that have ended
  todo,           \* todo[p]: the steps p goes through next
  arrived,        \* arrived[p]: number of barriers p has arrived at
  isFirst,        \* whether p was the first at its last weak barrier
  unscanned,      \* the threads NextJob has not handed out yet
  shared,         \* the work in the shared stack
  next,           \* its nextBackLocs
  local,          \* local[p]: the local work of p
  localNext,      \* localNext[p]: its nextBackLocs
  hasShared,      \* whether p is counted in numLocalStack
  numLocalStack,
  pushing,        \* the processors in the push room
  space,          \* which space mutators see, 0 or 1
  threadSpace,    \* threadSpace[t]: the space the registers of t point to
  log,            \* whether p has allocated or written since its last release
  writes,         \* number of writes so far
  mirror,         \* the two copies of a field of a tenured mirrored array
  primary,        \* the copy the mutators see
  epoch,          \* number of the nursery's present life
  held            \* held[p]: the copy p is about to forward, and its pointer

stackVars == <<shared, next, local, localNext, hasShared, numLocalStack, pushing>>
mirrorVars == <<mirror, primary, epoch, held>>
optionVars == <<collector, agressive>>
vars == <<optionVars, status, type, cycle, todo, arrived, isFirst, unscanned,
          stackVars, space, threadSpace, log, writes, mirrorVars>>

Stack(t) == [kind |-> "stack", of |-> t]
Gray(p) == [kind |-> "gray", of |-> p]
(* The n-th write, at copy i of the mirrored field.                        *)
Back(i, n) == [kind |-> "back", at |-> i, write |-> n]

(* A pointer to object id in the nursery (gen is its life) or tenured (0). *)
Pointer(id, gen) == [id |-> id, gen |-> gen]
Image(v) == Pointer(v.id, 0)

Init ==
  /\ collector \in {"semi", "gen"} /\ agressive \in Options
  /\ status = "Off" /\ cycle = 0
  /\ type = IF collector = "semi" THEN "Major" ELSE "Minor"
  /\ todo = [p \in Procs |-> <<"mutator">>]
  /\ arrived = [p \in Procs |-> 0] /\ isFirst = [p \in Procs |-> FALSE]
  /\ unscanned = {}
  /\ shared = {} /\ next = {} /\ pushing = {} /\ numLocalStack = 0
  /\ local = [p \in Procs |-> {}] /\ localNext = [p \in Procs |-> {}]
  /\ hasShared = [p \in Procs |-> FALSE]
  /\ space = 0 /\ threadSpace = [t \in Threads |-> 0]
  /\ log = [p \in Procs |-> FALSE] /\ writes = 0
  /\ mirror = [i \in {0, 1} |-> Pointer(0, 0)] /\ primary = 0 /\ epoch = 1
  /\ held = [p \in Procs |-> [at |-> 0, ptr |-> Pointer(0, 0)]]

At(p, s) == Head(todo[p]) = s
Become(p, steps) == todo' = [todo EXCEPT ![p] = steps]
Advance(p) == Become(p, Tail(todo[p]))
Goto(p, s) == Become(p, <<s>> \o Tail(todo[p]))

----------------------------------------------------------------------------
(* The switch at the head of each function: the first processor announces  *)
(* the phase, the others respond, and any other status is a DIE.           *)
PendingOn(t) == IF agressive[t] THEN "PendingAgressive" ELSE "PendingOn"

Announce(p, step, from, to, pending) ==
  /\ At(p, step)
  /\ IF status \in {from} \cup pending THEN Advance(p) ELSE Become(p, <<"die">>)
  /\ status' = IF status = from THEN to ELSE status
  /\ UNCHANGED <<optionVars, type, cycle, arrived, isFirst, unscanned,
                 stackVars, space, threadSpace, log, writes, mirrorVars>>

Signal(p) ==
  \/ Announce(p, "signalOn", "Off", PendingOn(type),
              {"PendingOn", "PendingAgressive"})
  \/ Announce(p, "signalTransition", "Agressive", "PendingOn", {"PendingOn"})
  \/ Announce(p, "signalOff", IF collector = "semi" THEN "On" ELSE "PendingOff",
              "PendingOff", {"PendingOff"})

(* GCStatus = ... before the last barrier of CollectorOn and of            *)
(* CollectorTransition, by every processor.                                *)
SetStatus(p) ==
  /\ \/ At(p, "setOn") /\ status' = IF agressive[type] THEN "Agressive" ELSE "On"
     \/ At(p, "setTransition") /\ status' = "On"
  /\ Advance(p)
  /\ UNCHANGED <<optionVars, type, cycle, arrived, isFirst, unscanned,
                 stackVars, space, threadSpace, log, writes, mirrorVars>>

Arrive(p) == arrived' = [arrived EXCEPT ![p] = @ + 1]

WeakBarrier(p) ==
  /\ At(p, "weak")
  /\ isFirst' = [isFirst EXCEPT ![p] = \A q \in Procs : arrived[q] <= arrived[p]]
  /\ Arrive(p) /\ Advance(p)
  /\ UNCHANGED <<optionVars, status, type, cycle, unscanned, stackVars, space,
                 threadSpace, log, writes, mirrorVars>>

(* A strong barrier that lets a processor pass at its arrival.             *)
StrongBarrier_Weak(p) ==
  /\ \/ At(p, "strong") /\ Arrive(p) /\ Goto(p, "wait")
     \/ At(p, "wait") /\ Advance(p) /\ UNCHANGED arrived
  /\ UNCHANGED <<optionVars, status, type, cycle, isFirst, unscanned, stackVars,
                 space, threadSpace, log, writes, mirrorVars>>

StrongBarrier(p) ==
  /\ \/ At(p, "strong") /\ Arrive(p) /\ Goto(p, "wait")
     \/ At(p, "wait") /\ (\A q \in Procs : arrived[q] >= arrived[p])
                      /\ Advance(p) /\ UNCHANGED arrived
  /\ UNCHANGED <<optionVars, status, type, cycle, isFirst, unscanned, stackVars,
                 space, threadSpace, log, writes, mirrorVars>>

(* ResetJob, by the first processor only.                                  *)
ResetJob(p) ==
  /\ At(p, "resetJob") /\ Advance(p)
  /\ unscanned' = IF isFirst[p] THEN Threads ELSE unscanned
  /\ UNCHANGED <<optionVars, status, type, cycle, arrived, isFirst, stackVars,
                 space, threadSpace, log, writes, mirrorVars>>

(* while ((thread = NextJob()) != NULL): initial_root_scan, after a        *)
(* discard_root_scan in CollectorTransition, makes work of the stack of t; *)
(* complete_root_scan finds the roots, and they are flipped at once.       *)
InitialScan(p) ==
  /\ At(p, "scan")
  /\ \/ \E t \in unscanned :
          /\ unscanned' = unscanned \ {t}
          /\ local' = [local EXCEPT ![p] = @ \cup {Stack(t)}]
          /\ UNCHANGED todo
     \/ unscanned = {} /\ Advance(p) /\ UNCHANGED <<unscanned, local>>
  /\ UNCHANGED <<optionVars, status, type, cycle, arrived, isFirst, shared, next,
                 localNext, hasShared, numLocalStack, pushing, space,
                 threadSpace, log, writes, mirrorVars>>

CompleteScan(p) ==
  /\ At(p, "complete")
  /\ \/ \E t \in unscanned :
          /\ unscanned' = unscanned \ {t}
          /\ threadSpace' = [threadSpace EXCEPT ![t] = 1 - @]
          /\ UNCHANGED todo
     \/ unscanned = {} /\ Advance(p) /\ UNCHANGED <<unscanned, threadSpace>>
  /\ UNCHANGED <<optionVars, status, type, cycle, arrived, isFirst, stackVars,
                 space, log, writes, mirrorVars>>

----------------------------------------------------------------------------
(* resetSharedStack; in a collection that begins, the first caller makes   *)
(* the locations kept for it work of this collection.                      *)
ResetStack(p) ==
  LET fetch == At(p, "resetNext") /\ numLocalStack = 0 IN
  /\ At(p, "resetNext") \/ At(p, "reset")
  /\ hasShared' = [hasShared EXCEPT ![p] = TRUE]
  /\ numLocalStack' = numLocalStack + 1
  /\ shared' = IF fetch THEN shared \cup next ELSE shared
  /\ next' = IF fetch THEN {} ELSE next
  /\ Advance(p)
  /\ UNCHANGED <<optionVars, status, type, cycle, arrived, isFirst, unscanned,
                 local, localNext, pushing, space, threadSpace, log, writes,
                 mirrorVars>>

MoveToShared(p) ==
  /\ shared' = shared \cup local[p] /\ local' = [local EXCEPT ![p] = {}]
  /\ next' = next \cup localNext[p] /\ localNext' = [localNext EXCEPT ![p] = {}]

(* A push that does not give up the count.                                 *)
Push_KeepsCount(p, to) ==
  /\ MoveToShared(p)
  /\ hasShared' = [hasShared EXCEPT ![p] = FALSE]
  /\ pushing' = pushing \cup {p}
  /\ Goto(p, to)
  /\ UNCHANGED <<optionVars, status, type, cycle, arrived, isFirst, unscanned,
                 numLocalStack, space, threadSpace, log, writes, mirrorVars>>

(* pushSharedStack(0): enter the room, move the work, give up the count.   *)
Push(p, to) ==
  /\ MoveToShared(p)
  /\ hasShared' = [hasShared EXCEPT ![p] = FALSE]
  /\ numLocalStack' = IF hasShared[p] THEN numLocalStack - 1 ELSE numLocalStack
  /\ pushing' = pushing \cup {p}
  /\ Goto(p, to)
  /\ UNCHANGED <<optionVars, status, type, cycle, arrived, isFirst, unscanned,
                 space, threadSpace, log, writes, mirrorVars>>

(* The push that shares roots; what it returns is ignored.                 *)
PushRoots(p) == At(p, "push") /\ Push(p, "leave")

(* The last to leave the room finds out whether the stack is empty.        *)
StackEmpty == shared = {} /\ numLocalStack = 0

Leave(p) ==
  /\ pushing' = pushing \ {p}
  /\ \/ At(p, "leave") /\ Advance(p)
     \/ /\ At(p, "leaveWork")
        /\ Goto(p, IF pushing = {p} /\ StackEmpty THEN "empty" ELSE "again")
  /\ UNCHANGED <<optionVars, status, type, cycle, arrived, isFirst, unscanned,
                 shared, next, local, localNext, hasShared, numLocalStack,
                 space, threadSpace, log, writes, mirrorVars>>

(* pushSharedStack(1) in its own room, at the end of a release.            *)
ConditionalPush(p) ==
  /\ At(p, "pushRelease") /\ pushing = {}
  /\ MoveToShared(p) /\ Advance(p)
  /\ UNCHANGED <<optionVars, status, type, cycle, arrived, isFirst, unscanned,
                 hasShared, numLocalStack, pushing, space, threadSpace, log,
                 writes, mirrorVars>>

(* popSharedStack, which leaves nothing to a processor only if there is    *)
(* nothing.                                                                *)
Pop(p) ==
  /\ At(p, "pop") /\ pushing = {}
  /\ \E some \in SUBSET shared :
       /\ shared # {} => some # {}
       /\ shared' = shared \ some
       /\ local' = [local EXCEPT ![p] = @ \cup some]
       /\ hasShared' = [hasShared EXCEPT ![p] = @ \/ some # {}]
       /\ numLocalStack' = IF some = {} THEN numLocalStack ELSE numLocalStack + 1
  /\ Goto(p, "check")
  /\ UNCHANGED <<optionVars, status, type, cycle, arrived, isFirst, unscanned,
                 next, localNext, pushing, space, threadSpace, log, writes,
                 mirrorVars>>

----------------------------------------------------------------------------
(* A do_work that ends with the work it has just taken.                    *)
Check_KeepsWork(p) ==
  /\ At(p, "check")
  /\ IF status \in {"PendingOn", "PendingOff"} THEN Advance(p) ELSE Goto(p, "work")
  /\ UNCHANGED <<optionVars, status, type, cycle, arrived, isFirst, unscanned,
                 stackVars, space, threadSpace, log, writes, mirrorVars>>

(* do_work.  What follows its last iteration is Tail(todo[p]): "quit" for  *)
(* a quantum of work, the steps of CollectorOff for do_work(INT_MAX).      *)
Check(p) ==
  /\ At(p, "check")
  /\ IF status \in {"PendingOn", "PendingOff"} /\ local[p] = {}
       THEN Advance(p) ELSE Goto(p, "work")
  /\ UNCHANGED <<optionVars, status, type, cycle, arrived, isFirst, unscanned,
                 stackVars, space, threadSpace, log, writes, mirrorVars>>

(* The work that is left goes back to the stack: when there is none, or    *)
(* when something has been done and reachCheckWork says it is enough.      *)
PushWork(p) ==
  /\ At(p, "worked") \/ (At(p, "work") /\ local[p] = {})
  /\ Push(p, "leaveWork")

(* The push has found the stack empty: the next phase is pending.          *)
Empty(p) ==
  /\ At(p, "empty") /\ Goto(p, "again")
  /\ status' = CASE status = "Agressive" -> "PendingOn"
                 [] status = "On" -> "PendingOff"
                 [] OTHER -> status
  /\ UNCHANGED <<optionVars, type, cycle, arrived, isFirst, unscanned,
                 stackVars, space, threadSpace, log, writes, mirrorVars>>

(* reachMaxWork: a quantum ends, do_work(INT_MAX) does not.                *)
Again(p) ==
  /\ At(p, "again")
  /\ \/ Goto(p, "pop")
     \/ todo[p] = <<"again", "quit">> /\ Advance(p)
  /\ UNCHANGED <<optionVars, status, type, cycle, arrived, isFirst, unscanned,
                 stackVars, space, threadSpace, log, writes, mirrorVars>>

Quantum == <<"pop", "quit">>

(* The steps that are the same in both collectors.                         *)
CommonStep(p) ==
  \/ Signal(p) \/ SetStatus(p) \/ WeakBarrier(p) \/ StrongBarrier(p)
  \/ ResetJob(p) \/ InitialScan(p) \/ CompleteScan(p) \/ ResetStack(p)
  \/ PushRoots(p) \/ Leave(p) \/ ConditionalPush(p) \/ Pop(p) \/ Check(p)
  \/ PushWork(p) \/ Empty(p) \/ Again(p)

(* GC_SemiConcHelp and GC_GenConcHelp: the thread gets its space.          *)
Satisfied(p) == Become(p, <<"mutator">>)

(* Space is not found while no collection is on, and one may start.        *)
MayStart == status = "Off" /\ cycle < MaxCycles
=============================================================================
