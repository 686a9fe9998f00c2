----------------------- MODULE ConcCollectors_proofs -----------------------
(***************************************************************************)
(* Proofs about ConcCollectors: type correctness, EmptyAtFlip,             *)
(* RootsFlipped and NoNurseryPointer, for any number of processors and of  *)
(* threads.                                                                *)
(*                                                                         *)
(* The inductive invariant says where every processor is: its place, that  *)
(* is, which list of steps it goes through, which step of it comes next    *)
(* and what follows the list.  The last steps of the lists look alike, so  *)
(* the places are not a function of todo, and the invariant asserts that   *)
(* places pl exist that agree with todo and satisfy the rest.              *)
(***************************************************************************)
EXTENDS ConcCollectors, FiniteSetTheorems, SequenceTheorems, TLAPS

(* The lists of steps.  CollectorOff follows the loop of do_work, which    *)
(* starts with a pop; a processor that all have joined at the last barrier *)
(* of a function has only to notice it.                                    *)
Script(g) == CASE g = "semiOn" -> SemiCollectorOn
               [] g = "semiTransition" -> SemiCollectorTransition
               [] g = "genOn" -> GenCollectorOn
               [] g = "genTransition" -> GenCollectorTransition
               [] g = "off" -> <<"pop">> \o SemiCollectorOff
               [] g = "quantum" -> <<"pop">>
               [] g = "release" -> <<"pushRelease">>
               [] g = "done" -> <<"strong">>
               [] g = "idle" -> <<>>

(* What a processor at place a goes through: its next step is a.h, and     *)
(* stands for step a.i of Script(a.g); a.x follows the list.               *)
Rest(s, i) == SubSeq(s, i, Len(s))
Steps(a) == <<a.h>> \o Rest(Script(a.g) \o <<a.x>>, a.i + 1)

Loop == {"pop", "check", "work", "worked", "forward", "leaveWork", "empty", "again"}
Barrier == {"strong", "wait"}
Sharing == {"push", "leave"}
Conts == {"retry", "mutator", "switch", "poll"}

OnGs == {"semiOn", "genOn"}
TransitionGs == {"semiTransition", "genTransition"}
SemiGs == {"semiOn", "semiTransition"}
GenGs == {"genOn", "genTransition"}

(* The step a.h that stands for step a.i of Script(a.g).                   *)
SemiStepAt(a) ==
  \/ a.i = 1 /\ a.h = IF a.g = "semiOn" THEN "signalOn" ELSE "signalTransition"
  \/ a.i = 2 /\ a.h = "weak"
  \/ a.i = 3 /\ a.h = "resetJob"
  \/ a.i = 4 /\ a.h = "reset"
  \/ a.i = 5 /\ a.h \in Barrier
  \/ a.i = 6 /\ a.h = "scan"
  \/ a.i = 7 /\ a.h \in Sharing
  \/ a.i = 8 /\ a.h = IF a.g = "semiOn" THEN "setOn" ELSE "setTransition"
  \/ a.i = 9 /\ a.h \in Barrier

GenOnStepAt(a) ==
  \/ a.i = 1 /\ a.h = "signalOn"
  \/ a.i = 2 /\ a.h = "weak"
  \/ a.i = 3 /\ a.h = "resetJob"
  \/ a.i \in {4, 6, 8, 11} /\ a.h \in Barrier
  \/ a.i = 5 /\ a.h = "scan"
  \/ a.i = 7 /\ a.h = "resetNext"
  \/ a.i = 9 /\ a.h \in Sharing
  \/ a.i = 10 /\ a.h = "setOn"

GenTransitionStepAt(a) ==
  \/ a.i = 1 /\ a.h = "signalTransition"
  \/ a.i = 2 /\ a.h = "weak"
  \/ a.i = 3 /\ a.h = "resetJob"
  \/ a.i = 4 /\ a.h = "reset"
  \/ a.i \in {5, 7, 8, 11} /\ a.h \in Barrier
  \/ a.i = 6 /\ a.h = "scan"
  \/ a.i = 9 /\ a.h \in Sharing
  \/ a.i = 10 /\ a.h = "setTransition"

OffStepAt(a) ==
  \/ a.i = 1 /\ a.h \in Loop
  \/ a.i = 2 /\ a.h = "signalOff"
  \/ a.i = 3 /\ a.h = "weak"
  \/ a.i = 4 /\ a.h = "resetJob"
  \/ a.i \in {5, 7, 9} /\ a.h \in Barrier
  \/ a.i = 6 /\ a.h = "complete"
  \/ a.i = 8 /\ a.h = "flip"

IdleAt(a) == a.i = 1 /\ a.h = a.x /\ a.x \in Conts \cup {"full", "quit"}

StepAt(a) ==
  \/ a.g \in SemiGs /\ SemiStepAt(a) /\ a.x \in Conts
  \/ a.g = "genOn" /\ GenOnStepAt(a) /\ a.x \in Conts
  \/ a.g = "genTransition" /\ GenTransitionStepAt(a) /\ a.x \in Conts
  \/ a.g = "off" /\ OffStepAt(a) /\ a.x \in Conts
  \/ a.g = "quantum" /\ a.i = 1 /\ a.h \in Loop /\ a.x = "quit"
  \/ a.g = "release" /\ a.i = 1 /\ a.h = "pushRelease" /\ a.x \in {"switch", "full"}
  \/ a.g = "done" /\ a.i = 1 /\ a.h = "wait" /\ a.x \in Conts
  \/ a.g = "idle" /\ IdleAt(a)

Labels == Loop \cup Barrier \cup Sharing \cup Conts
            \cup {"full", "quit", "pushRelease", "signalOn", "signalTransition",
                  "signalOff", "weak", "resetJob", "reset", "resetNext", "scan",
                  "complete", "setOn", "setTransition", "flip"}
Gs == SemiGs \cup GenGs \cup {"off", "quantum", "release", "done", "idle"}
Places == {a \in [g : Gs, i : 1 .. 11, h : Labels, x : Labels] : StepAt(a)}

(* A processor that is in one of the functions that meet at barriers.      *)
In(a) == a.g \in SemiGs \cup GenGs \/ (a.g = "off" /\ a.i >= 2)

(* The barriers before step a.i, and those a processor has arrived at.     *)
Passed(a) ==
  CASE a.g \in SemiGs -> IF a.i <= 2 THEN 0 ELSE IF a.i <= 5 THEN 1 ELSE 2
    [] a.g = "genOn" -> IF a.i <= 2 THEN 0 ELSE IF a.i <= 4 THEN 1
                        ELSE IF a.i <= 6 THEN 2 ELSE IF a.i <= 8 THEN 3 ELSE 4
    [] a.g = "genTransition" -> IF a.i <= 2 THEN 0 ELSE IF a.i <= 5 THEN 1
                        ELSE IF a.i <= 7 THEN 2 ELSE IF a.i <= 8 THEN 3 ELSE 4
    [] a.g = "off" -> IF a.i <= 3 THEN 0 ELSE IF a.i <= 5 THEN 1
                        ELSE IF a.i <= 7 THEN 2 ELSE 3
    [] OTHER -> 0
Level(a) == IF In(a) /\ a.h = "wait" THEN Passed(a) + 1 ELSE Passed(a)

(* The last step of a function, and the step after which the phase is on.  *)
LastStep(a) == In(a) /\ a.i = IF a.g \in GenGs THEN 11 ELSE 9
PastSet(a) == LastStep(a) /\ a.g # "off"
PastWeak(a) == Passed(a) >= 1

----------------------------------------------------------------------------
(* Every processor is where pl says, in a function of its collector.       *)
Placed(pl) ==
  /\ pl \in [Procs -> Places]
  /\ todo = [p \in Procs |-> Steps(pl[p])]
  /\ \A p \in Procs : /\ pl[p].g \in SemiGs => collector = "semi"
                      /\ pl[p].g \in GenGs => collector = "gen"
                      /\ pl[p].x = "full" \/ pl[p].h = "forward" => collector = "gen"
  /\ collector \in {"semi", "gen"} /\ agressive \in [Types -> BOOLEAN]

(* All that are in a function are in the same one; arrivals differ by the  *)
(* barriers of that function alone; and who has passed a strong barrier of *)
(* it has passed it after the arrival of everybody.                        *)
Together(pl) ==
  /\ arrived \in [Procs -> Nat]
  /\ \A p, q \in Procs : In(pl[p]) /\ In(pl[q]) => pl[p].g = pl[q].g
  /\ \A p, q \in Procs :
       arrived[p] - Level(pl[p]) = arrived[q] - Level(pl[q])
  /\ \A p, q \in Procs : Passed(pl[p]) >= 2 => Level(pl[q]) >= Passed(pl[p])
  /\ \E p \in Procs : ~ (LastStep(pl[p]) /\ pl[p].h = "wait")

SetOn == IF agressive[type] THEN "Agressive" ELSE "On"

(* The phase is the one the functions that processors are in announce.     *)
SomeSet(pl) == \E q \in Procs : PastSet(pl[q])
SomeFlipped(pl) == \E q \in Procs : pl[q].g = "off" /\ pl[q].i = 9 /\ isFirst[q]
OnAt(a, set) == /\ PastSet(a) => status = SetOn
                /\ \/ status = PendingOn(type)
                   \/ a.i = 1 /\ status = "Off"
                   \/ status = SetOn /\ set
TransitionAt(a, set) == /\ agressive[type]
                        /\ PastSet(a) => status = "On"
                        /\ status = "PendingOn" \/ (status = "On" /\ set)
OffAt(flipped) == status = "PendingOff" \/ (status = "Off" /\ flipped)
Phase(pl) ==
  /\ status \in States /\ type \in Types /\ cycle \in 0 .. MaxCycles
  /\ collector = "semi" => type = "Major"
  /\ \A p \in Procs : /\ pl[p].g \in OnGs => OnAt(pl[p], SomeSet(pl))
                      /\ pl[p].g \in TransitionGs => TransitionAt(pl[p], SomeSet(pl))
                      /\ pl[p].g = "off" => OffAt(SomeFlipped(pl))
  /\ \A p \in Procs : pl[p].g = "off" /\ pl[p].i = 9 /\ isFirst[p] => status = "Off"
  /\ status \in {"PendingAgressive", "Agressive"} => agressive[type]
  /\ (status # "Off" \/ \E p \in Procs : pl[p].g \in OnGs) => cycle < MaxCycles

(* Of those past the weak barrier exactly one was the first.               *)
OneFirst(pl) ==
  /\ isFirst \in [Procs -> BOOLEAN]
  /\ \A p, q \in Procs : PastWeak(pl[p]) /\ isFirst[p] /\ PastWeak(pl[q])
                           /\ isFirst[q] => p = q
  /\ \A p \in Procs : PastWeak(pl[p]) =>
       \E q \in Procs : PastWeak(pl[q]) /\ isFirst[q]

(* The threads of which CollectorOff has flipped the roots.                *)
Completing_(pl) == \E p \in Procs : pl[p].g = "off" /\ pl[p].i >= 6
RootsKnown(pl) ==
  /\ space \in {0, 1} /\ threadSpace \in [Threads -> {0, 1}]
  /\ unscanned \subseteq Threads
  /\ Completing_(pl) /\ status = "PendingOff" =>
       \A t \in Threads : threadSpace[t] = IF t \in unscanned THEN space ELSE 1 - space
  /\ ~ (Completing_(pl) /\ status = "PendingOff") =>
       \A t \in Threads : threadSpace[t] = space
  /\ ~ Completing_(pl) => \A p \in Procs :
       pl[p].g = "off" /\ pl[p].i >= 5 /\ isFirst[p] => unscanned = Threads
  /\ \A p \in Procs : pl[p].g = "off" /\ pl[p].i >= 7 => unscanned = {}

(* The collector is on: what is released becomes gray.                     *)
On == status \in {"On", "PendingOff"}
        \/ (agressive[type] /\ status \in {"Agressive", "PendingOn"})

Working == {"check", "work", "worked", "forward"}

(* A place in CollectorOn or in CollectorTransition up to the push, and    *)
(* one from the reset of the stack to the push.                            *)
Unshared(a) == \/ a.g \in SemiGs /\ a.i <= 7 /\ a.h # "leave"
               \/ a.g \in GenGs /\ a.i <= 9 /\ a.h # "leave"
Counted(a) == Unshared(a) /\ IF a.g = "genOn" THEN a.i >= 8 ELSE a.i >= 5

(* Work that is not in the shared stack is with a processor that will put  *)
(* it there before it joins CollectorOff; such a processor exists when     *)
(* there is shared work.  A processor at place a has local work l, is      *)
(* counted if hs, and has a log if lg.                                     *)
BusyAt(a, l) == /\ ~ (a.g = "off" /\ a.i >= 2)
                /\ ~ (a.h = "check" /\ l = {})
KeepsAt(a, lg) ==
  \/ a.h \in Working \/ a.g = "release" \/ Unshared(a)
  \/ /\ a.g = "idle" /\ collector = "semi"
     /\ a.h = "mutator" /\ lg /\ status \in {"On", "PendingOff"}
  \/ /\ a.g = "idle" /\ collector = "gen" /\ ~ On
     /\ a.h \in {"mutator", "switch", "poll", "full"}
WorkAt(a, l, hs, lg) ==
  /\ hs => a.h \in Working \/ Counted(a)
  /\ hs /\ a.h = "check" => l # {}
  /\ Counted(a) => hs
  /\ l # {} => KeepsAt(a, lg)
  /\ lg => a.h = "mutator"
WorkKnown(pl) ==
  /\ hasShared \in [Procs -> BOOLEAN] /\ log \in [Procs -> BOOLEAN]
  /\ local = [p \in Procs |-> local[p]] /\ localNext = [p \in Procs |-> localNext[p]]
  /\ numLocalStack = Cardinality({p \in Procs : hasShared[p]})
  /\ \A p \in Procs : WorkAt(pl[p], local[p], hasShared[p], log[p])
  /\ shared # {} => \E p \in Procs : BusyAt(pl[p], local[p])

----------------------------------------------------------------------------
(* The locations kept for the next collection have become work of this one.*)
Fetched(pl) == On \/ \E p \in Procs : pl[p].g = "genOn" /\ pl[p].i >= 8

Names(S, i) == \A w \in S : w.kind = "back" => w.at = i
HasBack(S, i) == \E w \in S : w.kind = "back" /\ w.at = i

(* Where locations for the next collection may be kept by a processor.     *)
NextAt(a) ==
  \/ a.g = "release" \/ (a.g = "genOn" /\ Unshared(a))
  \/ a.g = "idle" /\ ~ On /\ a.h \in {"mutator", "switch", "poll", "full"}

(* The other copy is to be overwritten in this collection, the copy that   *)
(* mutators see in the next.                                               *)
Due(pl) ==
  \/ ~ Fetched(pl) /\ HasBack(next, primary)
  \/ HasBack(shared, primary)
  \/ \E p \in Procs : HasBack(local[p], primary)
  \/ \E p \in Procs : pl[p].h = "forward"
  \/ SelfPointers
Deferred(pl) ==
  \/ \E p \in Procs : log[p]
  \/ \E p \in Procs : HasBack(localNext[p], Other(primary))
  \/ Fetched(pl) /\ HasBack(next, Other(primary))
  \/ SelfPointers

(* Back locations of the copy mutators see are for this collection, those  *)
(* of the other copy for the next; a nursery pointer in the other copy is  *)
(* to be overwritten in this collection, one in the copy mutators see in   *)
(* the next.  The latter is so of programs that store no array in itself.  *)
ReplicaTypes ==
  /\ writes \in 0 .. MaxWrites /\ primary \in {0, 1} /\ epoch \in Nat
  /\ mirror \in [{0, 1} -> [id : 0 .. writes, gen : Nat]]
  /\ held \in [Procs -> [at : {0, 1}, ptr : [id : 0 .. writes, gen : Nat]]]
BackNames(pl) ==
  /\ Names(shared, primary)
  /\ \A p \in Procs : Names(local[p], primary) /\ Names(localNext[p], Other(primary))
  /\ Names(next, IF Fetched(pl) THEN Other(primary) ELSE primary)
ReplicasKnown(pl) ==
  /\ ReplicaTypes /\ BackNames(pl)
  /\ collector = "semi" => next = {}
  /\ \A p \in Procs :
       /\ collector = "gen" /\ pl[p].g = "release" => On
       /\ localNext[p] # {} => collector = "gen" /\ NextAt(pl[p])
       /\ pl[p].h = "forward" => held[p].at = Other(primary)
  /\ mirror[primary].gen \in {0, epoch} \/ SelfPointers
  /\ type = "Major" => mirror[primary].gen = 0 \/ SelfPointers
  /\ type = "Minor" /\ mirror[Other(primary)].gen # 0 => Due(pl)
  /\ type = "Minor" /\ mirror[primary].gen # 0 => Deferred(pl)

Core(pl) == Together(pl) /\ Phase(pl) /\ OneFirst(pl) /\ RootsKnown(pl)
Known(pl) == Placed(pl) /\ Core(pl) /\ WorkKnown(pl) /\ ReplicasKnown(pl)
Inv == \E pl \in [Procs -> Places] : Known(pl)

----------------------------------------------------------------------------
(* Steps from place to place.                                              *)
Size(g) == CASE g \in SemiGs -> 9 [] g \in GenGs -> 11 [] g = "off" -> 9
             [] g = "idle" -> 0 [] OTHER -> 1
Idle(x) == [g |-> "idle", i |-> 1, h |-> x, x |-> x]
Start(g, x) == [g |-> g, i |-> 1, h |-> Script(g)[1], x |-> x]
With(a, h) == [g |-> a.g, i |-> a.i, h |-> h, x |-> a.x]
After(a) == IF a.i = Size(a.g) THEN Idle(a.x)
            ELSE [g |-> a.g, i |-> a.i + 1, h |-> Script(a.g)[a.i + 1], x |-> a.x]

----------------------------------------------------------------------------
(* Sequences of steps.                                                     *)

(* A step put in front of a list is its head, and the list is its tail.    *)
LEMMA Front ==
  ASSUME NEW t \in Seq(Labels), NEW h \in Labels
  PROVE  /\ <<h>> \o t \in Seq(Labels) /\ <<h>> \o t # <<>>
         /\ Head(<<h>> \o t) = h /\ Tail(<<h>> \o t) = t
<1> DEFINE s == <<h>> \o t
<1>1. <<h>> \in Seq(Labels) /\ Len(<<h>>) = 1 /\ <<h>>[1] = h
  OBVIOUS
<1>2. /\ s \in Seq(Labels) /\ Len(s) = 1 + Len(t)
      /\ \A i \in 1 .. 1 + Len(t) : s[i] = IF i <= 1 THEN <<h>>[i] ELSE t[i - 1]
  BY <1>1, ConcatProperties
<1>3. Len(t) \in Nat
  OBVIOUS
<1>4. s # <<>> /\ Head(s) = h
  BY <1>1, <1>2, <1>3
<1>5. /\ Tail(s) \in Seq(Labels) /\ Len(Tail(s)) = Len(s) - 1
      /\ \A i \in 1 .. Len(Tail(s)) : Tail(s)[i] = s[i + 1]
  BY <1>2, <1>4, HeadTailProperties
<1>6. \A i \in 1 .. Len(t) : Tail(s)[i] = t[i]
  BY <1>2, <1>3, <1>5
<1>7. Tail(s) = t
  BY <1>2, <1>3, <1>5, <1>6, SeqEqual
<1>q. QED BY <1>2, <1>4, <1>7

(* What is left of a list from step i on begins with step i.               *)
LEMMA RestFront ==
  ASSUME NEW s \in Seq(Labels), NEW i \in 1 .. Len(s)
  PROVE  /\ Rest(s, i) = <<s[i]>> \o Rest(s, i + 1) /\ s[i] \in Labels
         /\ Rest(s, i + 1) \in Seq(Labels)
<1>1. Len(s) \in Nat /\ Len(s) \in i .. Len(s)
  OBVIOUS
<1>2. \A j \in i + 1 .. Len(s) : s[j] \in Labels
  OBVIOUS
<1>3. i + 1 \in Int /\ s[i] \in Labels
  OBVIOUS
<1>4. Rest(s, i + 1) \in Seq(Labels)
  BY <1>1, <1>2, <1>3, SubSeqProperties DEF Rest
<1>q. QED BY <1>1, <1>3, <1>4, SubSeqRecursiveFirst DEF Rest

(* Nothing is left after the last step.                                    *)
LEMMA RestEnd ==
  ASSUME NEW s \in Seq(Labels)
  PROVE  Rest(s, Len(s) + 1) = <<>>
BY SubSeqEmpty DEF Rest

(* A list with one more step.                                              *)
LEMMA WithLast ==
  ASSUME NEW s \in Seq(Labels), NEW x \in Labels
  PROVE  /\ s \o <<x>> \in Seq(Labels) /\ Len(s \o <<x>>) = Len(s) + 1
         /\ (s \o <<x>>)[Len(s) + 1] = x
         /\ \A i \in 1 .. Len(s) : (s \o <<x>>)[i] = s[i]
<1>1. <<x>> \in Seq(Labels) /\ Len(<<x>>) = 1 /\ <<x>>[1] = x /\ Len(s) \in Nat
  OBVIOUS
<1>2. /\ s \o <<x>> \in Seq(Labels) /\ Len(s \o <<x>>) = Len(s) + 1
      /\ \A i \in 1 .. Len(s) + 1 :
           (s \o <<x>>)[i] = IF i <= Len(s) THEN s[i] ELSE <<x>>[i - Len(s)]
  BY <1>1, ConcatProperties
<1>q. QED BY <1>1, <1>2

(* The lists, step by step.                                                *)
LEMMA Scripts ==
  /\ \A g \in Gs : Script(g) \in Seq(Labels) /\ Len(Script(g)) = Size(g)
  /\ Script("semiOn") = SemiCollectorOn
  /\ Script("semiTransition") = SemiCollectorTransition
  /\ Script("genOn") = GenCollectorOn
  /\ Script("genTransition") = GenCollectorTransition
  /\ Script("off") = <<"pop">> \o SemiCollectorOff
  /\ \A i \in 1 .. 8 : Script("off")[i + 1] = SemiCollectorOff[i]
  /\ Script("off")[1] = "pop"
  /\ Script("quantum") = <<"pop">> /\ Script("release") = <<"pushRelease">>
  /\ Script("done") = <<"strong">> /\ Script("idle") = <<>>
<1>l. \A s \in {"pop", "pushRelease", "strong", "push", "signalOn",
                "signalTransition", "signalOff", "weak", "resetJob", "reset",
                "resetNext", "scan", "complete", "setOn", "setTransition", "flip"} :
        s \in Labels
  BY DEF Labels, Loop, Barrier, Sharing
<1>1. /\ Script("semiOn") = SemiCollectorOn
      /\ Script("semiTransition") = SemiCollectorTransition
      /\ Script("genOn") = GenCollectorOn
      /\ Script("genTransition") = GenCollectorTransition
      /\ Script("off") = <<"pop">> \o SemiCollectorOff
      /\ Script("quantum") = <<"pop">> /\ Script("release") = <<"pushRelease">>
      /\ Script("done") = <<"strong">> /\ Script("idle") = <<>>
  BY DEF Script
<1>2. /\ <<"pop">> \in Seq(Labels) /\ Len(<<"pop">>) = 1 /\ <<"pop">>[1] = "pop"
      /\ <<"pushRelease">> \in Seq(Labels) /\ Len(<<"pushRelease">>) = 1
      /\ <<"strong">> \in Seq(Labels) /\ Len(<<"strong">>) = 1
      /\ <<>> \in Seq(Labels) /\ Len(<<>>) = 0
  BY <1>l
<1>2a. SemiCollectorOn \in Seq(Labels) /\ Len(SemiCollectorOn) = 9
  BY <1>l DEF SemiCollectorOn
<1>2b. SemiCollectorTransition \in Seq(Labels) /\ Len(SemiCollectorTransition) = 9
  BY <1>l DEF SemiCollectorTransition
<1>2c. GenCollectorOn \in Seq(Labels) /\ Len(GenCollectorOn) = 11
  BY <1>l DEF GenCollectorOn
<1>2d. GenCollectorTransition \in Seq(Labels) /\ Len(GenCollectorTransition) = 11
  BY <1>l DEF GenCollectorTransition
<1>2e. SemiCollectorOff \in Seq(Labels) /\ Len(SemiCollectorOff) = 8
  BY <1>l DEF SemiCollectorOff
<1>3. /\ Script("off") \in Seq(Labels) /\ Len(Script("off")) = 9
      /\ \A i \in 1 .. 9 : Script("off")[i] =
           IF i <= 1 THEN <<"pop">>[i] ELSE SemiCollectorOff[i - 1]
  <2> DEFINE s == <<"pop">>
             t == SemiCollectorOff
  <2>1. /\ s \o t \in Seq(Labels) /\ Len(s \o t) = Len(s) + Len(t)
        /\ \A i \in 1 .. Len(s) + Len(t) : (s \o t)[i] =
             IF i <= Len(s) THEN s[i] ELSE t[i - Len(s)]
    <3>1. s \in Seq(Labels) /\ t \in Seq(Labels)
      BY <1>2, <1>2e
    <3> HIDE DEF s, t
    <3>q. QED BY <3>1, ConcatProperties
  <2>2. Len(s) = 1 /\ Len(t) = 8 /\ Script("off") = s \o t
    BY <1>1, <1>2, <1>2e
  <2> HIDE DEF s, t
  <2>3. Len(s) + Len(t) = 9
    BY <2>2
  <2>4. \A i \in 1 .. 9 : Script("off")[i] = IF i <= 1 THEN s[i] ELSE t[i - 1]
    BY <2>1, <2>2, <2>3
  <2>q. QED BY <2>1, <2>2, <2>3, <2>4 DEF s, t
<1>4. \A i \in 1 .. 8 : Script("off")[i + 1] = SemiCollectorOff[i]
  <2> SUFFICES ASSUME NEW i \in 1 .. 8
               PROVE  Script("off")[i + 1] = SemiCollectorOff[i]
    OBVIOUS
  <2>1. i + 1 \in 1 .. 9 /\ ~ (i + 1 <= 1) /\ (i + 1) - 1 = i
    OBVIOUS
  <2>q. QED BY <2>1, <1>3
<1>5. \A g \in Gs : Script(g) \in Seq(Labels) /\ Len(Script(g)) = Size(g)
  BY <1>1, <1>2, <1>2a, <1>2b, <1>2c, <1>2d, <1>3 DEF Gs, SemiGs, GenGs, Size
<1>6. Script("off")[1] = "pop"
  BY <1>2, <1>3
<1>q. QED BY <1>1, <1>4, <1>5, <1>6

----------------------------------------------------------------------------
(* The places.                                                             *)

LEMMA PlaceFields ==
  ASSUME NEW a \in Places
  PROVE  /\ a.g \in Gs /\ a.i \in 1 .. 11 /\ a.h \in Labels /\ a.x \in Labels
         /\ a = [g |-> a.g, i |-> a.i, h |-> a.h, x |-> a.x] /\ StepAt(a)
BY DEF Places

(* The list of a place, with what follows it.                              *)
LEMMA Lists ==
  ASSUME NEW a \in Places
  PROVE  LET s == Script(a.g) \o <<a.x>> IN
         /\ s \in Seq(Labels) /\ Len(s) = Size(a.g) + 1 /\ s[Size(a.g) + 1] = a.x
         /\ \A i \in 1 .. Size(a.g) : s[i] = Script(a.g)[i]
BY PlaceFields, Scripts, WithLast

LEMMA Sizes ==
  ASSUME NEW a \in Places
  PROVE  /\ a.g # "idle" => a.i \in 1 .. Size(a.g)
         /\ Size(a.g) \in 0 .. 11
         /\ a.g = "idle" => Size(a.g) = 0 /\ a.i = 1 /\ a.h = a.x
BY PlaceFields DEF StepAt, SemiStepAt, GenOnStepAt, GenTransitionStepAt, OffStepAt,
                   IdleAt, Size, SemiGs, GenGs, Gs

(* The head of what a processor goes through, and the steps to its tail    *)
(* and to another step in its place.                                       *)
LEMMA HeadOfSteps ==
  ASSUME NEW a \in Places
  PROVE  /\ Steps(a) \in Seq(Labels) /\ Steps(a) # <<>> /\ Head(Steps(a)) = a.h
         /\ Tail(Steps(a)) = Rest(Script(a.g) \o <<a.x>>, a.i + 1)
         /\ \A h \in Labels : <<h>> \o Tail(Steps(a)) = Steps(With(a, h))
<1> DEFINE s == Script(a.g) \o <<a.x>>
           t == Rest(s, a.i + 1)
<1>1. s \in Seq(Labels) /\ Len(s) = Size(a.g) + 1
  BY Lists
<1>2. t \in Seq(Labels)
  <2>1. a.i \in 1 .. Len(s)
    BY <1>1, Sizes
  <2>q. QED BY <1>1, <2>1, RestFront
<1>3. Steps(a) = <<a.h>> \o t /\ a.h \in Labels
  BY PlaceFields DEF Steps
<1> HIDE DEF s, t
<1>4. /\ Steps(a) \in Seq(Labels) /\ Steps(a) # <<>> /\ Head(Steps(a)) = a.h
      /\ Tail(Steps(a)) = t
  BY <1>2, <1>3, Front
<1>5. \A h \in Labels : <<h>> \o t = Steps(With(a, h))
  BY DEF Steps, With, s, t
<1>q. QED BY <1>4, <1>5 DEF s, t

LEMMA StepsOfIdle ==
  ASSUME NEW x \in Labels
  PROVE  Steps(Idle(x)) = <<x>>
<1> DEFINE b == Idle(x)
<1>a. b.g = "idle" /\ b.i + 1 = 2 /\ b.h = x /\ b.x = x
  BY DEF Idle
<1>b. Steps(b) = <<b.h>> \o Rest(Script(b.g) \o <<b.x>>, b.i + 1)
  BY DEF Steps
<1>c. Script("idle") = <<>>
  BY Scripts
<1> HIDE DEF b
<1>1. Steps(b) = <<x>> \o Rest(<<>> \o <<x>>, 2)
  BY <1>a, <1>b, <1>c
<1>2. <<>> \o <<x>> \in Seq(Labels) /\ Len(<<>> \o <<x>>) = 1
  OBVIOUS
<1>3. Rest(<<>> \o <<x>>, 2) = <<>>
  BY <1>2, SubSeqEmpty DEF Rest
<1>e. <<x>> \o <<>> = <<x>>
  <2>1. <<x>> \in Seq(Labels)
    OBVIOUS
  <2>q. QED BY <2>1, ConcatEmptySeq
<1>q. QED BY <1>1, <1>3, <1>e DEF b

LEMMA TailOfSteps ==
  ASSUME NEW a \in Places, a.g # "idle"
  PROVE  Tail(Steps(a)) = Steps(After(a))
<1> DEFINE s == Script(a.g) \o <<a.x>>
<1>1. /\ s \in Seq(Labels) /\ Len(s) = Size(a.g) + 1 /\ s[Size(a.g) + 1] = a.x
      /\ \A i \in 1 .. Size(a.g) : s[i] = Script(a.g)[i]
  BY Lists
<1>2. a.i \in 1 .. Size(a.g) /\ Size(a.g) \in 0 .. 11
  BY Sizes
<1>3. Tail(Steps(a)) = Rest(s, a.i + 1)
  BY HeadOfSteps
<1> HIDE DEF s
<1>4. CASE a.i < Size(a.g)
  <2>1. a.i + 1 \in 1 .. Len(s) /\ a.i + 1 \in 1 .. Size(a.g)
    BY <1>1, <1>2, <1>4
  <2>2. Rest(s, a.i + 1) = <<s[a.i + 1]>> \o Rest(s, (a.i + 1) + 1)
    BY <1>1, <2>1, RestFront
  <2>3. s[a.i + 1] = Script(a.g)[a.i + 1]
    BY <1>1, <2>1
  <2>4. After(a) = [g |-> a.g, i |-> a.i + 1, h |-> Script(a.g)[a.i + 1], x |-> a.x]
    BY <1>2, <1>4 DEF After
  <2>5. Steps(After(a)) = <<Script(a.g)[a.i + 1]>> \o Rest(s, (a.i + 1) + 1)
    BY <2>4 DEF Steps, s
  <2>q. QED BY <1>3, <2>2, <2>3, <2>5
<1>5. CASE a.i = Size(a.g)
  <2>1. a.i + 1 = Len(s) /\ a.i + 1 \in 1 .. Len(s) /\ (a.i + 1) + 1 = Len(s) + 1
    BY <1>1, <1>2, <1>5
  <2>2. Rest(s, a.i + 1) = <<s[a.i + 1]>> \o Rest(s, (a.i + 1) + 1)
    BY <1>1, <2>1, RestFront
  <2>3. Rest(s, (a.i + 1) + 1) = <<>> /\ s[a.i + 1] = a.x
    BY <1>1, <1>5, <2>1, RestEnd
  <2>4. After(a) = Idle(a.x) /\ a.x \in Labels
    BY <1>5, PlaceFields DEF After
  <2>5. <<a.x>> \o <<>> = <<a.x>>
    <3>1. <<a.x>> \in Seq(Labels)
      BY <2>4
    <3>q. QED BY <3>1, ConcatEmptySeq
  <2>q. QED BY <1>3, <2>2, <2>3, <2>4, <2>5, StepsOfIdle
<1>q. QED BY <1>2, <1>4, <1>5

(* A list entered at its first step.                                       *)
LEMMA StepsOfStart ==
  ASSUME NEW g \in Gs \ {"idle"}, NEW x \in Labels
  PROVE  Steps(Start(g, x)) = Script(g) \o <<x>>
<1> DEFINE s == Script(g) \o <<x>>
<1>1. s \in Seq(Labels) /\ Len(s) = Size(g) + 1 /\ \A i \in 1 .. Size(g) : s[i] = Script(g)[i]
  BY Scripts, WithLast
<1>2. Size(g) \in 1 .. 11
  BY DEF Gs, SemiGs, GenGs, Size
<1>3. s[1] = Script(g)[1] /\ 1 \in 1 .. Len(s)
  BY <1>1, <1>2
<1>4. Rest(s, 1) = <<s[1]>> \o Rest(s, 1 + 1)
  BY <1>1, <1>3, RestFront
<1>5. Rest(s, 1) = s
  BY <1>1, SubSeqFull DEF Rest
<1>6. Steps(Start(g, x)) = <<Script(g)[1]>> \o Rest(s, 1 + 1)
  BY DEF Steps, Start
<1>q. QED BY <1>3, <1>4, <1>5, <1>6

(* A processor that waits at the last barrier of a function has nothing    *)
(* left of it but to notice that all have arrived.                         *)
LEMMA StepsOfDone ==
  ASSUME NEW a \in Places, LastStep(a)
  PROVE  Steps(a) = <<a.h>> \o <<a.x>> /\ Steps(With(Start("done", a.x), a.h)) = Steps(a)
<1> DEFINE s == Script(a.g) \o <<a.x>>
           d == With(Start("done", a.x), a.h)
<1>1. a.g # "idle" /\ a.i = Size(a.g) /\ a.x \in Labels /\ a.h \in Labels
  BY PlaceFields DEF LastStep, In, Size, SemiGs, GenGs
<1>2. Tail(Steps(a)) = <<a.x>> /\ Tail(Steps(a)) = Rest(s, a.i + 1)
  BY <1>1, TailOfSteps, StepsOfIdle, HeadOfSteps DEF After
<1>3. Steps(a) = <<a.h>> \o <<a.x>>
  BY <1>2 DEF Steps
<1>4. Script("done") = <<"strong">> /\ d.g = "done" /\ d.i = 1 /\ d.h = a.h /\ d.x = a.x
  BY Scripts DEF Start, With
<1>5. Steps(Start("done", a.x)) = <<"strong">> \o <<a.x>>
  BY <1>1, <1>4, StepsOfStart DEF Gs
<1>6. Steps(Start("done", a.x)) = <<"strong">> \o Rest(<<"strong">> \o <<a.x>>, 2)
  BY <1>4 DEF Start, Steps
<1>7. Rest(<<"strong">> \o <<a.x>>, 2) = <<a.x>>
  <2>1. <<"strong">> \in Seq(Labels) /\ Len(<<"strong">>) = 1
    <3>1. "strong" \in Labels
      BY DEF Labels, Barrier
    <3>q. QED BY <3>1
  <2>2. /\ <<"strong">> \o <<a.x>> \in Seq(Labels)
        /\ Len(<<"strong">> \o <<a.x>>) = 2 /\ (<<"strong">> \o <<a.x>>)[2] = a.x
    BY <1>1, <2>1, WithLast
  <2>3. Rest(<<"strong">> \o <<a.x>>, 2)
          = <<a.x>> \o Rest(<<"strong">> \o <<a.x>>, 2 + 1)
    <3> DEFINE u == <<"strong">> \o <<a.x>>
    <3>1. u \in Seq(Labels) /\ 2 \in 1 .. Len(u) /\ u[2] = a.x
      BY <2>2
    <3> HIDE DEF u
    <3>2. Rest(u, 2) = <<u[2]>> \o Rest(u, 2 + 1)
      BY <3>1, RestFront
    <3>q. QED BY <3>1, <3>2 DEF u
  <2>4. Rest(<<"strong">> \o <<a.x>>, 2 + 1) = <<>>
    BY <2>2, SubSeqEmpty DEF Rest
  <2>q. QED BY <1>1, <2>3, <2>4
<1>8. Steps(d) = <<a.h>> \o Rest(<<"strong">> \o <<a.x>>, 2)
  BY <1>4 DEF Steps
<1>q. QED BY <1>3, <1>7, <1>8

(* The next place is again a place, of the same list while it lasts.       *)
LEMMA AfterPlace ==
  ASSUME NEW a \in Places, a.g # "idle"
  PROVE  /\ After(a) \in Places /\ After(a).x = a.x
         /\ a.i = Size(a.g) => After(a) = Idle(a.x)
         /\ a.i # Size(a.g) => /\ After(a).g = a.g /\ After(a).i = a.i + 1
                               /\ After(a).h \notin Loop \cup {"wait", "leave"}
<1>1. /\ a.g \in Gs /\ a.i \in 1 .. 11 /\ a.h \in Labels /\ a.x \in Labels /\ StepAt(a)
      /\ a.i \in 1 .. Size(a.g)
  BY PlaceFields, Sizes
<1>2. a.x \in Conts \cup {"full", "quit"}
  BY <1>1 DEF StepAt, IdleAt, Conts
<1>3. Idle(a.x) \in Places
  BY <1>1, <1>2 DEF Places, Idle, StepAt, IdleAt, Gs
<1>4. a.i = Size(a.g) => After(a) = Idle(a.x) /\ After(a).x = a.x
  BY DEF After, Idle
<1>5. ASSUME a.i # Size(a.g)
      PROVE  After(a) \in Places /\ After(a).x = a.x
             /\ After(a).g = a.g /\ After(a).i = a.i + 1
             /\ After(a).h \notin Loop \cup {"wait", "leave"}
  <2>1. /\ After(a).g = a.g /\ After(a).i = a.i + 1 /\ After(a).x = a.x
        /\ After(a).h = Script(a.g)[a.i + 1]
        /\ After(a) = [g |-> a.g, i |-> a.i + 1, h |-> Script(a.g)[a.i + 1], x |-> a.x]
    BY <1>5 DEF After
  <2>2. a.i + 1 \in 2 .. Size(a.g) /\ Size(a.g) \in 0 .. 11
    BY <1>1, <1>5, Sizes
  <2>3. Script(a.g)[a.i + 1] \in Labels
    BY <1>1, <2>2, Scripts
  <2>4. a.g \in SemiGs \cup GenGs \cup {"off"}
    BY <1>1, <2>2 DEF Gs, Size
  <2> DEFINE b == After(a)
  <2> HIDE DEF b
  <2>5. StepAt(b) /\ b.h \notin Loop \cup {"wait", "leave"}
    <3>0. b.g = a.g /\ b.i = a.i + 1 /\ b.x = a.x /\ b.h = Script(a.g)[a.i + 1]
      BY <2>1 DEF b
    <3>1. CASE a.g = "semiOn"
      <4>1. a.x \in Conts /\ a.i \in 1 .. 8
        BY <1>1, <1>5, <3>1 DEF StepAt, Size, SemiGs, GenGs
      <4>q. QED BY <3>0, <3>1, <4>1, Scripts
              DEF StepAt, SemiStepAt, SemiCollectorOn, SemiGs, Loop, Barrier, Sharing
    <3>2. CASE a.g = "semiTransition"
      <4>1. a.x \in Conts /\ a.i \in 1 .. 8
        BY <1>1, <1>5, <3>2 DEF StepAt, Size, SemiGs, GenGs
      <4>q. QED BY <3>0, <3>2, <4>1, Scripts
              DEF StepAt, SemiStepAt, SemiCollectorTransition, SemiGs, Loop, Barrier, Sharing
    <3>3. CASE a.g = "genOn"
      <4>1. a.x \in Conts /\ a.i \in 1 .. 10
        BY <1>1, <1>5, <3>3 DEF StepAt, Size, SemiGs, GenGs
      <4>q. QED BY <3>0, <3>3, <4>1, Scripts
              DEF StepAt, GenOnStepAt, GenCollectorOn, Loop, Barrier, Sharing
    <3>4. CASE a.g = "genTransition"
      <4>1. a.x \in Conts /\ a.i \in 1 .. 10
        BY <1>1, <1>5, <3>4 DEF StepAt, Size, SemiGs, GenGs
      <4>q. QED BY <3>0, <3>4, <4>1, Scripts
              DEF StepAt, GenTransitionStepAt, GenCollectorTransition, Loop, Barrier, Sharing
    <3>5. CASE a.g = "off"
      <4>1. a.x \in Conts /\ a.i \in 1 .. 8
        BY <1>1, <1>5, <3>5 DEF StepAt, Size, SemiGs, GenGs
      <4>2. b.h = SemiCollectorOff[a.i]
        BY <3>0, <3>5, <4>1, Scripts
      <4>q. QED BY <3>0, <3>5, <4>1, <4>2
              DEF StepAt, OffStepAt, SemiCollectorOff, Loop, Barrier, Sharing
    <3>q. QED BY <2>4, <3>1, <3>2, <3>3, <3>4, <3>5 DEF SemiGs, GenGs
  <2>6. b \in Places
    <3>1. a.i + 1 \in 1 .. 11
      BY <2>2
    <3>q. QED BY <1>1, <2>1, <2>3, <2>5, <3>1 DEF Places, b
  <2>q. QED BY <2>1, <2>5, <2>6 DEF b
<1>q. QED BY <1>3, <1>4, <1>5 DEF Idle

(* The barriers before the next step.                                      *)
LEMMA PassedNext ==
  ASSUME NEW a \in Places, NEW b, In(a), ~ LastStep(a), b.g = a.g, b.i = a.i + 1
  PROVE  Passed(b) = IF a.h \in Barrier \cup {"weak"} THEN Passed(a) + 1 ELSE Passed(a)
<1>1. a.g \in Gs /\ a.i \in 1 .. 11 /\ StepAt(a) /\ In(a) /\ ~ LastStep(a)
  BY PlaceFields
<1>2. CASE a.g \in SemiGs
  <2>1. a.i \in 1 .. 8 /\ SemiStepAt(a)
    <3>1. SemiStepAt(a)
      BY <1>1, <1>2 DEF StepAt, SemiGs
    <3>2. a.i \in 1 .. 9 /\ a.i # 9
      BY <1>1, <1>2, <3>1 DEF LastStep, SemiStepAt, In, SemiGs, GenGs
    <3>q. QED BY <3>1, <3>2
  <2>2. b.g \in SemiGs
    BY <1>2
  <2>3. Passed(a) = IF a.i <= 2 THEN 0 ELSE IF a.i <= 5 THEN 1 ELSE 2
    BY <1>2 DEF Passed, SemiGs
  <2>4. Passed(b) = IF a.i + 1 <= 2 THEN 0 ELSE IF a.i + 1 <= 5 THEN 1 ELSE 2
    BY <2>2 DEF Passed, SemiGs
  <2>q. QED BY <2>1, <2>3, <2>4, <1>2 DEF SemiStepAt, Barrier, Sharing, SemiGs
<1>3. CASE a.g = "genOn"
  <2>1. a.i \in 1 .. 10 /\ GenOnStepAt(a)
    BY <1>1, <1>3 DEF StepAt, LastStep, SemiGs, GenGs
  <2>3. Passed(a) = IF a.i <= 2 THEN 0 ELSE IF a.i <= 4 THEN 1
                        ELSE IF a.i <= 6 THEN 2 ELSE IF a.i <= 8 THEN 3 ELSE 4
    BY <1>3 DEF Passed, SemiGs
  <2>4. Passed(b) = IF a.i + 1 <= 2 THEN 0 ELSE IF a.i + 1 <= 4 THEN 1
                        ELSE IF a.i + 1 <= 6 THEN 2 ELSE IF a.i + 1 <= 8 THEN 3 ELSE 4
    BY <1>3 DEF Passed, SemiGs
  <2>q. QED BY <2>1, <2>3, <2>4 DEF GenOnStepAt, Barrier, Sharing
<1>4. CASE a.g = "genTransition"
  <2>1. a.i \in 1 .. 10 /\ GenTransitionStepAt(a)
    BY <1>1, <1>4 DEF StepAt, LastStep, SemiGs, GenGs
  <2>3. Passed(a) = IF a.i <= 2 THEN 0 ELSE IF a.i <= 5 THEN 1
                        ELSE IF a.i <= 7 THEN 2 ELSE IF a.i <= 8 THEN 3 ELSE 4
    BY <1>4 DEF Passed, SemiGs
  <2>4. Passed(b) = IF a.i + 1 <= 2 THEN 0 ELSE IF a.i + 1 <= 5 THEN 1
                        ELSE IF a.i + 1 <= 7 THEN 2 ELSE IF a.i + 1 <= 8 THEN 3 ELSE 4
    BY <1>4 DEF Passed, SemiGs
  <2>q. QED BY <2>1, <2>3, <2>4 DEF GenTransitionStepAt, Barrier, Sharing
<1>5. CASE a.g = "off"
  <2>0. a.i >= 2
    BY <1>1, <1>5 DEF In, SemiGs, GenGs
  <2>1. a.i \in 2 .. 8 /\ OffStepAt(a)
    <3>1. OffStepAt(a)
      BY <1>1, <1>5 DEF StepAt, SemiGs
    <3>2. a.i \in 1 .. 9 /\ a.i # 9
      BY <1>1, <1>5, <3>1 DEF LastStep, OffStepAt, GenGs
    <3>q. QED BY <2>0, <3>1, <3>2
  <2>3. Passed(a) = IF a.i <= 3 THEN 0 ELSE IF a.i <= 5 THEN 1
                        ELSE IF a.i <= 7 THEN 2 ELSE 3
    BY <1>5 DEF Passed, SemiGs
  <2>4. Passed(b) = IF a.i + 1 <= 3 THEN 0 ELSE IF a.i + 1 <= 5 THEN 1
                        ELSE IF a.i + 1 <= 7 THEN 2 ELSE 3
    BY <1>5 DEF Passed, SemiGs
  <2>q. QED BY <2>1, <2>3, <2>4 DEF OffStepAt, Barrier
<1>q. QED BY <1>1, <1>2, <1>3, <1>4, <1>5 DEF In, GenGs

LEMMA AfterLevel ==
  ASSUME NEW a \in Places, In(a), ~ LastStep(a)
  PROVE  /\ In(After(a)) /\ After(a).g = a.g /\ After(a).h # "wait"
         /\ Level(After(a)) = Passed(After(a))
         /\ Passed(After(a)) = IF a.h \in Barrier \cup {"weak"} THEN Passed(a) + 1
                                                               ELSE Passed(a)
<1>1. /\ a.g \in Gs /\ a.i \in 1 .. 11 /\ a.g # "idle" /\ a.i # Size(a.g)
  BY PlaceFields DEF In, LastStep, Size, SemiGs, GenGs
<1>2. After(a).g = a.g /\ After(a).i = a.i + 1 /\ After(a).h # "wait"
  BY <1>1, AfterPlace
<1>3. In(After(a)) /\ Level(After(a)) = Passed(After(a))
  BY <1>1, <1>2 DEF In, Level
<1>q. QED BY <1>2, <1>3, PassedNext

LEMMA LevelRange ==
  ASSUME NEW a \in Places
  PROVE  /\ Passed(a) \in 0 .. 4 /\ Level(a) \in 0 .. 5
         /\ ~ In(a) => Passed(a) = 0 /\ Level(a) = 0
         /\ Level(a) = IF In(a) /\ a.h = "wait" THEN Passed(a) + 1 ELSE Passed(a)
<1>1. a.g \in Gs /\ a.i \in 1 .. 11
  BY PlaceFields
<1>2. Passed(a) \in 0 .. 4 /\ (~ In(a) => Passed(a) = 0)
  BY <1>1 DEF Passed, In, Gs, SemiGs, GenGs
<1>q. QED BY <1>2 DEF Level

----------------------------------------------------------------------------
(* Where the processors are, step by step.                                 *)

LEMMA PlacedFacts ==
  ASSUME NEW pl, Placed(pl), NEW p \in Procs
  PROVE  /\ pl[p] \in Places /\ todo[p] = Steps(pl[p])
         /\ Head(todo[p]) = pl[p].h /\ todo[p] # <<>>
         /\ \A s : At(p, s) <=> pl[p].h = s
<1>1. pl[p] \in Places /\ todo[p] = Steps(pl[p])
  BY DEF Placed
<1>2. Steps(pl[p]) # <<>> /\ Head(Steps(pl[p])) = pl[p].h
  BY <1>1, HeadOfSteps
<1>q. QED BY <1>1, <1>2 DEF At

(* A place of the collector that runs.                                     *)
Fits(a) == /\ a.g \in SemiGs => collector = "semi"
           /\ a.g \in GenGs => collector = "gen"
           /\ a.x = "full" \/ a.h = "forward" => collector = "gen"

LEMMA PlacedStep ==
  ASSUME NEW pl, Placed(pl), NEW p \in Procs, NEW b \in Places, Fits(b),
         todo' = [todo EXCEPT ![p] = Steps(b)], UNCHANGED optionVars
  PROVE  /\ Placed([pl EXCEPT ![p] = b])'
         /\ [pl EXCEPT ![p] = b] \in [Procs -> Places]
<1> DEFINE npl == [pl EXCEPT ![p] = b]
<1>1. pl \in [Procs -> Places] /\ todo = [q \in Procs |-> Steps(pl[q])]
  BY DEF Placed
<1>2. npl \in [Procs -> Places] /\ npl[p] = b /\ \A q \in Procs : q # p => npl[q] = pl[q]
  BY <1>1
<1>3. todo' = [q \in Procs |-> Steps(npl[q])]
  BY <1>1, <1>2
<1>4. \A q \in Procs : /\ npl[q].g \in SemiGs => collector' = "semi"
                       /\ npl[q].g \in GenGs => collector' = "gen"
                       /\ npl[q].x = "full" \/ npl[q].h = "forward" => collector' = "gen"
  BY <1>2 DEF Placed, Fits, optionVars
<1>5. collector' \in {"semi", "gen"} /\ agressive' \in [Types -> BOOLEAN]
  BY DEF Placed, optionVars
<1> HIDE DEF npl
<1>q. QED BY <1>2, <1>3, <1>4, <1>5 DEF Placed, npl

(* Advance, Goto and Become as steps of todo.                              *)
LEMMA Moves ==
  ASSUME NEW pl, Placed(pl), NEW p \in Procs
  PROVE  /\ pl[p].g # "idle" /\ Advance(p) =>
              todo' = [todo EXCEPT ![p] = Steps(After(pl[p]))]
         /\ \A h \in Labels : Goto(p, h) =>
              todo' = [todo EXCEPT ![p] = Steps(With(pl[p], h))]
         /\ \A h \in Labels : Become(p, <<h>>) =>
              todo' = [todo EXCEPT ![p] = Steps(Idle(h))]
         /\ \A g \in Gs \ {"idle"}, x \in Labels : Become(p, Script(g) \o <<x>>) =>
              todo' = [todo EXCEPT ![p] = Steps(Start(g, x))]
<1>1. pl[p] \in Places /\ todo[p] = Steps(pl[p])
  BY PlacedFacts
<1>2. pl[p].g # "idle" => Tail(todo[p]) = Steps(After(pl[p]))
  BY <1>1, TailOfSteps
<1>3. \A h \in Labels : <<h>> \o Tail(todo[p]) = Steps(With(pl[p], h))
  BY <1>1, HeadOfSteps
<1>4. \A h \in Labels : Steps(Idle(h)) = <<h>>
  BY StepsOfIdle
<1>5. \A g \in Gs \ {"idle"}, x \in Labels : Steps(Start(g, x)) = Script(g) \o <<x>>
  BY StepsOfStart
<1>6. pl[p].g # "idle" /\ Advance(p) =>
              todo' = [todo EXCEPT ![p] = Steps(After(pl[p]))]
  BY <1>2 DEF Advance, Become
<1>7. \A h \in Labels : Goto(p, h) =>
              todo' = [todo EXCEPT ![p] = Steps(With(pl[p], h))]
  BY <1>3 DEF Goto, Become
<1>8. \A h \in Labels : Become(p, <<h>>) =>
              todo' = [todo EXCEPT ![p] = Steps(Idle(h))]
  BY <1>4 DEF Become
<1>9. \A g \in Gs \ {"idle"}, x \in Labels : Become(p, Script(g) \o <<x>>) =>
              todo' = [todo EXCEPT ![p] = Steps(Start(g, x))]
  BY <1>5 DEF Become
<1>q. QED BY <1>6, <1>7, <1>8, <1>9

----------------------------------------------------------------------------
(* What one processor's step from a place to another preserves.            *)

LEMMA TogetherStep ==
  ASSUME NEW pl \in [Procs -> Places], Together(pl), NEW p \in Procs, NEW b \in Places,
         arrived' = [arrived EXCEPT ![p] = @ + (Level(b) - Level(pl[p]))],
         Level(b) >= Level(pl[p]),
         In(b) => \A q \in Procs : q # p /\ In(pl[q]) => pl[q].g = b.g,
         Passed(b) >= 2 => \A q \in Procs : q # p => Level(pl[q]) >= Passed(b),
         \/ ~ (LastStep(b) /\ b.h = "wait")
         \/ \E q \in Procs : q # p /\ ~ (LastStep(pl[q]) /\ pl[q].h = "wait")
  PROVE  Together([pl EXCEPT ![p] = b])'
<1> DEFINE npl == [pl EXCEPT ![p] = b]
<1>1. npl \in [Procs -> Places] /\ npl[p] = b /\ \A q \in Procs : q # p => npl[q] = pl[q]
  OBVIOUS
<1>2. \A a \in Places : Level(a) \in Nat /\ Passed(a) \in Nat /\ Passed(a) <= Level(a)
  BY LevelRange
<1>3. /\ arrived \in [Procs -> Nat]
      /\ \A q, r \in Procs : In(pl[q]) /\ In(pl[r]) => pl[q].g = pl[r].g
      /\ \A q, r \in Procs : arrived[q] - Level(pl[q]) = arrived[r] - Level(pl[r])
      /\ \A q, r \in Procs : Passed(pl[q]) >= 2 => Level(pl[r]) >= Passed(pl[q])
  BY DEF Together
<1>4. \A q \in Procs : Level(pl[q]) \in Nat /\ Passed(pl[q]) \in Nat /\ arrived[q] \in Nat
  BY <1>2, <1>3
<1>5. Level(b) \in Nat /\ Passed(b) \in Nat /\ Passed(b) <= Level(b)
  BY <1>2
<1>6. /\ arrived' \in [Procs -> Nat]
      /\ arrived'[p] = arrived[p] + (Level(b) - Level(pl[p]))
      /\ \A q \in Procs : q # p => arrived'[q] = arrived[q]
  BY <1>3, <1>4, <1>5
<1> HIDE DEF npl
<1>7. \A q, r \in Procs : In(npl[q]) /\ In(npl[r]) => npl[q].g = npl[r].g
  BY <1>1, <1>3
<1>8. \A q, r \in Procs : arrived'[q] - Level(npl[q]) = arrived'[r] - Level(npl[r])
  <2>1. \A q \in Procs : arrived'[q] - Level(npl[q]) = arrived[q] - Level(pl[q])
    BY <1>1, <1>4, <1>5, <1>6
  <2>q. QED BY <2>1, <1>3
<1>9. \A q, r \in Procs : Passed(npl[q]) >= 2 => Level(npl[r]) >= Passed(npl[q])
  <2>1. \A r \in Procs : r # p => (Passed(npl[p]) >= 2 => Level(npl[r]) >= Passed(npl[p]))
    BY <1>1
  <2>2. Passed(npl[p]) >= 2 => Level(npl[p]) >= Passed(npl[p])
    BY <1>1, <1>5
  <2>3. \A q \in Procs : q # p => (Passed(npl[q]) >= 2 => Level(npl[p]) >= Passed(npl[q]))
    BY <1>1, <1>3, <1>4, <1>5
  <2>4. \A q, r \in Procs : q # p /\ r # p =>
          (Passed(npl[q]) >= 2 => Level(npl[r]) >= Passed(npl[q]))
    BY <1>1, <1>3
  <2>q. QED BY <2>1, <2>2, <2>3, <2>4
<1>10. \E q \in Procs : ~ (LastStep(npl[q]) /\ npl[q].h = "wait")
  BY <1>1
<1>q. QED BY <1>6, <1>7, <1>8, <1>9, <1>10 DEF Together, npl

(* No one is flipping roots while p has arrived at no strong barrier.      *)
LEMMA LowFacts ==
  ASSUME NEW pl \in [Procs -> Places], Together(pl), NEW p \in Procs,
         Level(pl[p]) \in {0, 1}
  PROVE  /\ \A q \in Procs : Passed(pl[q]) <= 1
         /\ ~ SomeSet(pl) /\ ~ SomeFlipped(pl) /\ ~ Completing_(pl)
<1>1. pl[p] \in Places /\ Level(pl[p]) \in {0, 1}
  OBVIOUS
<1>2. \A q \in Procs : pl[q] \in Places /\ Passed(pl[q]) \in 0 .. 4
  BY LevelRange
<1>3. \A q \in Procs : Passed(pl[q]) <= 1
  BY <1>1, <1>2 DEF Together
<1>4. ASSUME NEW q \in Procs, PastSet(pl[q]) PROVE FALSE
  <2>1. Passed(pl[q]) >= 2
    BY <1>4 DEF PastSet, LastStep, In, Passed, SemiGs, GenGs
  <2>q. QED BY <1>2, <1>3, <2>1
<1>5. ASSUME NEW q \in Procs, pl[q].g = "off", pl[q].i >= 6 PROVE FALSE
  <2>1. pl[q].i \in 1 .. 11
    BY PlaceFields
  <2>2. Passed(pl[q]) >= 2
    BY <1>5, <2>1 DEF Passed, SemiGs
  <2>q. QED BY <1>2, <1>3, <2>2
<1>6. ~ SomeSet(pl)
  BY <1>4 DEF SomeSet
<1>7. ~ SomeFlipped(pl)
  BY <1>5 DEF SomeFlipped
<1>8. ~ Completing_(pl)
  BY <1>5 DEF Completing_
<1>q. QED BY <1>3, <1>6, <1>7, <1>8

LEMMA OutFacts ==
  ASSUME NEW pl \in [Procs -> Places], Together(pl), NEW p \in Procs, ~ In(pl[p])
  PROVE  /\ \A q \in Procs : Passed(pl[q]) <= 1
         /\ ~ SomeSet(pl) /\ ~ SomeFlipped(pl) /\ ~ Completing_(pl)
<1>1. Level(pl[p]) = 0
  BY LevelRange
<1>q. QED BY <1>1, LowFacts

(* A step outside the functions.                                           *)
LEMMA Outside ==
  ASSUME NEW pl \in [Procs -> Places], Core(pl), NEW p \in Procs, NEW b \in Places,
         ~ In(pl[p]), ~ In(b), b.g = "off" => status = "PendingOff",
         UNCHANGED <<collector, agressive, status, type, cycle, arrived, isFirst,
                     unscanned, space, threadSpace>>
  PROVE  Core([pl EXCEPT ![p] = b])'
<1> DEFINE npl == [pl EXCEPT ![p] = b]
<1>1. npl \in [Procs -> Places] /\ npl[p] = b /\ \A q \in Procs : q # p => npl[q] = pl[q]
  OBVIOUS
<1>2. /\ Level(b) = 0 /\ Passed(b) = 0 /\ Level(pl[p]) = 0 /\ Passed(pl[p]) = 0
      /\ arrived \in [Procs -> Nat]
  BY LevelRange DEF Core, Together
<1>3. arrived' = [arrived EXCEPT ![p] = @ + (Level(b) - Level(pl[p]))]
  BY <1>2
<1>4. ~ LastStep(b)
  BY DEF LastStep
<1>5. Together(npl)'
  <2>1. /\ Level(b) >= Level(pl[p])
        /\ In(b) => \A q \in Procs : q # p /\ In(pl[q]) => pl[q].g = b.g
        /\ Passed(b) >= 2 => \A q \in Procs : q # p => Level(pl[q]) >= Passed(b)
        /\ ~ (LastStep(b) /\ b.h = "wait") /\ Together(pl)
    BY <1>2, <1>4 DEF Core
  <2>q. QED BY <1>3, <2>1, TogetherStep
<1>6. /\ ~ SomeSet(pl) /\ ~ SomeFlipped(pl) /\ ~ Completing_(pl)
  BY OutFacts DEF Core
<1>7. b.g \notin OnGs \cup TransitionGs /\ pl[p].g \notin OnGs \cup TransitionGs
      /\ (b.g = "off" => b.i = 1)
  BY PlaceFields DEF In, OnGs, TransitionGs, SemiGs, GenGs
<1> HIDE DEF npl
<1>8. Phase(npl)'
  <2>1. /\ \A q \in Procs : pl[q].g \in OnGs =>
             /\ PastSet(pl[q]) => status = SetOn
             /\ status = PendingOn(type) \/ (pl[q].i = 1 /\ status = "Off")
        /\ \A q \in Procs : pl[q].g \in TransitionGs =>
             agressive[type] /\ (PastSet(pl[q]) => status = "On") /\ status = "PendingOn"
        /\ \A q \in Procs : pl[q].g = "off" => status = "PendingOff"
    BY <1>6 DEF Core, Phase, OnAt, TransitionAt, OffAt
  <2>2. \A q \in Procs : npl[q].g \in OnGs => OnAt(npl[q], SomeSet(npl))'
    BY <1>1, <1>7, <2>1 DEF OnAt, SetOn, PendingOn
  <2>3. \A q \in Procs : npl[q].g \in TransitionGs => TransitionAt(npl[q], SomeSet(npl))'
    BY <1>1, <1>7, <2>1 DEF TransitionAt
  <2>4. \A q \in Procs : npl[q].g = "off" => OffAt(SomeFlipped(npl))'
    BY <1>1, <2>1 DEF OffAt
  <2>5. \A q \in Procs : npl[q].g = "off" /\ npl[q].i = 9 /\ isFirst'[q] => status' = "Off"
    BY <1>1, <1>7 DEF Core, Phase
  <2>6. (status' # "Off" \/ \E q \in Procs : npl[q].g \in OnGs) => cycle' < MaxCycles
    BY <1>1, <1>7 DEF Core, Phase
  <2>q. QED BY <2>2, <2>3, <2>4, <2>5, <2>6 DEF Core, Phase
<1>9. OneFirst(npl)'
  BY <1>1, <1>2 DEF Core, OneFirst, PastWeak
<1>10. RootsKnown(npl)'
  <2>1. ~ Completing_(npl)
    BY <1>1, <1>6, <1>7 DEF Completing_
  <2>q. QED BY <1>1, <1>6, <1>7, <2>1 DEF Core, RootsKnown, Completing_
<1>q. QED BY <1>5, <1>8, <1>9, <1>10 DEF Core, npl

(* A step of CollectorOn or of CollectorTransition between two barriers.   *)
LEMMA Inside ==
  ASSUME NEW pl \in [Procs -> Places], Core(pl), NEW p \in Procs, NEW b \in Places,
         pl[p].g \in SemiGs \cup GenGs, b.g = pl[p].g, pl[p].i > 1, b.i > 1,
         Level(b) = Level(pl[p]), Passed(b) = Passed(pl[p]),
         ~ PastSet(pl[p]), ~ PastSet(b), unscanned' \subseteq Threads,
         UNCHANGED <<collector, agressive, status, type, cycle, arrived, isFirst,
                     space, threadSpace>>
  PROVE  Core([pl EXCEPT ![p] = b])'
<1> DEFINE npl == [pl EXCEPT ![p] = b]
<1>1. npl \in [Procs -> Places] /\ npl[p] = b /\ \A q \in Procs : q # p => npl[q] = pl[q]
  OBVIOUS
<1>2. /\ Level(b) \in Nat /\ Passed(b) \in Nat /\ Passed(b) <= Level(b)
      /\ arrived \in [Procs -> Nat] /\ In(b) /\ In(pl[p])
      /\ pl[p].g # "off" /\ ~ LastStep(b) /\ ~ LastStep(pl[p])
  BY LevelRange DEF Core, Together, In, PastSet, SemiGs, GenGs
<1>3. arrived' = [arrived EXCEPT ![p] = @ + (Level(b) - Level(pl[p]))]
  BY <1>2
<1>4. \A q \in Procs : In(pl[q]) => pl[q].g = b.g
  BY <1>2 DEF Core, Together
<1>5. Together(npl)'
  <2>1. /\ Level(b) >= Level(pl[p])
        /\ In(b) => \A q \in Procs : q # p /\ In(pl[q]) => pl[q].g = b.g
        /\ Passed(b) >= 2 => \A q \in Procs : q # p => Level(pl[q]) >= Passed(b)
        /\ ~ (LastStep(b) /\ b.h = "wait") /\ Together(pl)
    BY <1>2, <1>4 DEF Core, Together
  <2>q. QED BY <1>3, <2>1, TogetherStep
<1>6. \A q \in Procs : pl[q].g = "off" => pl[q].i < 2
  BY <1>2, <1>4, PlaceFields DEF In
<1>7. ~ Completing_(pl) /\ ~ Completing_(npl) /\ ~ SomeFlipped(pl)
  <2>1. \A q \in Procs : npl[q].g = "off" => npl[q].i < 2
    BY <1>1, <1>2, <1>6
  <2>2. \A q \in Procs : pl[q].i \in 1 .. 11 /\ npl[q].i \in 1 .. 11
    BY <1>1, PlaceFields
  <2> HIDE DEF npl
  <2>q. QED BY <1>6, <2>1, <2>2 DEF Completing_, SomeFlipped
<1>8. SomeSet(pl) => SomeSet(npl)
  BY <1>1 DEF SomeSet
<1> HIDE DEF npl
<1>9. Phase(npl)'
  <2>1. /\ \A q \in Procs : pl[q].g \in OnGs => OnAt(pl[q], SomeSet(pl))
        /\ \A q \in Procs : pl[q].g \in TransitionGs => TransitionAt(pl[q], SomeSet(pl))
        /\ \A q \in Procs : pl[q].g = "off" => status = "PendingOff"
    BY <1>7 DEF Core, Phase, OffAt
  <2>2. \A q \in Procs : npl[q].g \in OnGs => OnAt(npl[q], SomeSet(npl))'
    BY <1>1, <1>2, <1>8, <2>1, PlaceFields DEF OnAt, SetOn, PendingOn
  <2>3. \A q \in Procs : npl[q].g \in TransitionGs => TransitionAt(npl[q], SomeSet(npl))'
    BY <1>1, <1>8, <2>1 DEF TransitionAt
  <2>4. \A q \in Procs : npl[q].g = "off" => OffAt(SomeFlipped(npl))'
    BY <1>1, <1>2, <2>1 DEF OffAt
  <2>5. \A q \in Procs : npl[q].g = "off" /\ npl[q].i = 9 /\ isFirst'[q] => status' = "Off"
    BY <1>1, <1>2 DEF Core, Phase
  <2>6. (status' # "Off" \/ \E q \in Procs : npl[q].g \in OnGs) => cycle' < MaxCycles
    BY <1>1 DEF Core, Phase
  <2>q. QED BY <2>2, <2>3, <2>4, <2>5, <2>6 DEF Core, Phase
<1>10. OneFirst(npl)'
  BY <1>1 DEF Core, OneFirst, PastWeak
<1>11. RootsKnown(npl)'
  <2>1. \A q \in Procs : npl[q].g = "off" => npl[q].i < 2
    BY <1>1, <1>2, <1>6
  <2>2. \A t \in Threads : threadSpace[t] = space
    BY <1>7 DEF Core, RootsKnown
  <2>q. QED BY <1>1, <1>7, <2>1, <2>2, PlaceFields DEF Core, RootsKnown, Completing_
<1>q. QED BY <1>5, <1>9, <1>10, <1>11 DEF Core, npl

(* The steps of CollectorOn and of CollectorTransition between barriers.   *)
LEMMA InnerPlaces ==
  ASSUME NEW a \in Places, a.h \in {"reset", "resetNext", "scan", "push", "leave"}
  PROVE  /\ a.g \in SemiGs \cup GenGs /\ In(a) /\ a.i > 1 /\ ~ PastSet(a)
         /\ Level(a) = Passed(a)
         /\ After(a) \in Places /\ After(a).g = a.g /\ After(a).i = a.i + 1
         /\ After(a).x = a.x /\ ~ PastSet(After(a))
         /\ Level(After(a)) = Level(a) /\ Passed(After(a)) = Passed(a)
         /\ With(a, "leave") \in Places <=> a.h \in {"push", "leave"}
<1>1. /\ a.g \in Gs /\ a.i \in 1 .. 11 /\ a.h \in Labels /\ a.x \in Labels /\ StepAt(a)
  BY PlaceFields
<1>2. a.g \in SemiGs \cup GenGs
  BY <1>1 DEF StepAt, OffStepAt, IdleAt, Conts, Loop, Barrier, Gs
<1>3. /\ a.g \in SemiGs => SemiStepAt(a)
      /\ a.g = "genOn" => GenOnStepAt(a)
      /\ a.g = "genTransition" => GenTransitionStepAt(a)
  BY <1>1 DEF StepAt, SemiGs
<1>4. /\ a.i > 1 /\ (a.g \in SemiGs => a.i <= 7) /\ (a.g \in GenGs => a.i <= 9)
  BY <1>1, <1>2, <1>3 DEF SemiStepAt, GenOnStepAt, GenTransitionStepAt, GenGs, SemiGs, Barrier, Sharing
<1>5. In(a) /\ ~ LastStep(a) /\ a.g # "idle" /\ a.i # Size(a.g)
  BY <1>2, <1>4 DEF In, LastStep, Size, SemiGs, GenGs
<1>6. /\ After(a) \in Places /\ After(a).g = a.g /\ After(a).i = a.i + 1
      /\ After(a).x = a.x
  BY <1>5, AfterPlace
<1>7. ~ LastStep(After(a))
  BY <1>1, <1>2, <1>4, <1>6 DEF LastStep, SemiGs, GenGs
<1>8. Level(a) = Passed(a) /\ Level(After(a)) = Level(a) /\ Passed(After(a)) = Passed(a)
  BY <1>5, AfterLevel, LevelRange DEF Barrier
<1>9. With(a, "leave") \in Places <=> a.h \in {"push", "leave"}
  <2> DEFINE b == With(a, "leave")
  <2>1. /\ b.g = a.g /\ b.i = a.i /\ b.x = a.x /\ b.h = "leave"
        /\ b = [g |-> a.g, i |-> a.i, h |-> "leave", x |-> a.x] /\ "leave" \in Labels
    BY DEF With, Labels, Sharing
  <2> HIDE DEF b
  <2>2. b \in Places <=> StepAt(b)
    BY <1>1, <2>1 DEF Places
  <2>3. CASE a.g \in SemiGs
    <3>1. StepAt(b) <=> a.i = 7 /\ a.x \in Conts
      BY <2>1, <2>3 DEF StepAt, SemiStepAt, SemiGs, Sharing, Barrier
    <3>2. a.x \in Conts /\ SemiStepAt(a)
      BY <1>1, <2>3 DEF StepAt, SemiGs
    <3>q. QED BY <2>2, <3>1, <3>2 DEF SemiStepAt, Sharing, Barrier, b
  <2>4. CASE a.g = "genOn"
    <3>1. StepAt(b) <=> a.i = 9 /\ a.x \in Conts
      BY <2>1, <2>4 DEF StepAt, GenOnStepAt, SemiGs, Sharing, Barrier
    <3>2. a.x \in Conts /\ GenOnStepAt(a)
      BY <1>1, <2>4 DEF StepAt, SemiGs
    <3>q. QED BY <2>2, <3>1, <3>2 DEF GenOnStepAt, Sharing, Barrier, b
  <2>5. CASE a.g = "genTransition"
    <3>1. StepAt(b) <=> a.i = 9 /\ a.x \in Conts
      BY <2>1, <2>5 DEF StepAt, GenTransitionStepAt, SemiGs, Sharing, Barrier
    <3>2. a.x \in Conts /\ GenTransitionStepAt(a)
      BY <1>1, <2>5 DEF StepAt, SemiGs
    <3>q. QED BY <2>2, <3>1, <3>2 DEF GenTransitionStepAt, Sharing, Barrier, b
  <2>q. QED BY <1>2, <2>3, <2>4, <2>5 DEF GenGs
<1>q. QED BY <1>2, <1>4, <1>5, <1>6, <1>7, <1>8, <1>9 DEF PastSet

----------------------------------------------------------------------------
(* The work.                                                               *)

(* A step changes the local work, the count and the log of p alone.        *)
OnlyOf(p) ==
  /\ local' = [q \in Procs |-> local'[q]] /\ localNext' = [q \in Procs |-> localNext'[q]]
  /\ hasShared' \in [Procs -> BOOLEAN] /\ log' \in [Procs -> BOOLEAN]
  /\ \A q \in Procs : q # p => /\ local'[q] = local[q] /\ localNext'[q] = localNext[q]
                               /\ hasShared'[q] = hasShared[q] /\ log'[q] = log[q]
  /\ numLocalStack' = IF hasShared'[p] = hasShared[p] THEN numLocalStack
                      ELSE IF hasShared'[p] THEN numLocalStack + 1 ELSE numLocalStack - 1

LEMMA Counting ==
  ASSUME NEW p \in Procs, hasShared \in [Procs -> BOOLEAN], OnlyOf(p),
         numLocalStack = Cardinality({q \in Procs : hasShared[q]})
  PROVE  /\ numLocalStack' = Cardinality({q \in Procs : hasShared'[q]})
         /\ numLocalStack \in Nat /\ numLocalStack' \in Nat
<1> DEFINE S == {q \in Procs : hasShared[q]}
           T == {q \in Procs : hasShared'[q]}
<1>1. IsFiniteSet(S) /\ IsFiniteSet(T)
  <2>1. S \subseteq Procs /\ T \subseteq Procs /\ IsFiniteSet(Procs)
    BY ConcurrentAssumption
  <2> HIDE DEF S, T
  <2>q. QED BY <2>1, FS_Subset
<1>2. Cardinality(S) \in Nat /\ Cardinality(T) \in Nat
  BY <1>1, FS_CardinalityType
<1>3. CASE hasShared'[p] = hasShared[p]
  <2>1. S = T
    BY <1>3 DEF OnlyOf
  <2>q. QED BY <1>2, <1>3, <2>1 DEF OnlyOf
<1>4. CASE hasShared'[p] /\ ~ hasShared[p]
  <2>1. T = S \cup {p} /\ p \notin S
    BY <1>4 DEF OnlyOf
  <2>2. Cardinality(S \cup {p}) = Cardinality(S) + 1
    BY <1>1, <2>1, FS_AddElement
  <2>q. QED BY <1>2, <1>4, <2>1, <2>2 DEF OnlyOf
<1>5. CASE ~ hasShared'[p] /\ hasShared[p]
  <2>1. T = S \ {p} /\ p \in S
    BY <1>5 DEF OnlyOf
  <2>2. Cardinality(S \ {p}) = Cardinality(S) - 1
    BY <1>1, <2>1, FS_RemoveElement
  <2>q. QED BY <1>2, <1>5, <2>1, <2>2 DEF OnlyOf
<1>q. QED BY <1>3, <1>4, <1>5 DEF OnlyOf

LEMMA WorkStep ==
  ASSUME NEW pl \in [Procs -> Places], WorkKnown(pl), NEW p \in Procs, NEW b \in Places,
         OnlyOf(p),
         \A q \in Procs, lg \in BOOLEAN : KeepsAt(pl[q], lg) => KeepsAt(pl[q], lg)',
         WorkAt(b, local[p], hasShared[p], log[p])',
         shared' # {} => \/ BusyAt(b, local'[p])
                         \/ shared # {} /\ ~ BusyAt(pl[p], local[p])
  PROVE  WorkKnown([pl EXCEPT ![p] = b])'
<1> DEFINE npl == [pl EXCEPT ![p] = b]
<1>1. npl \in [Procs -> Places] /\ npl[p] = b /\ \A q \in Procs : q # p => npl[q] = pl[q]
  OBVIOUS
<1> HIDE DEF npl
<1>2. numLocalStack' = Cardinality({q \in Procs : hasShared'[q]})
  BY Counting DEF WorkKnown
<1>3. \A q \in Procs : q # p => WorkAt(npl[q], local[q], hasShared[q], log[q])'
  <2> SUFFICES ASSUME NEW q \in Procs, q # p
               PROVE  WorkAt(npl[q], local[q], hasShared[q], log[q])'
    OBVIOUS
  <2>1. /\ npl[q] = pl[q] /\ local'[q] = local[q] /\ hasShared'[q] = hasShared[q]
        /\ log'[q] = log[q] /\ log[q] \in BOOLEAN
    BY <1>1 DEF OnlyOf, WorkKnown
  <2>2. WorkAt(pl[q], local[q], hasShared[q], log[q])
    BY DEF WorkKnown
  <2>3. KeepsAt(pl[q], log[q]) => KeepsAt(pl[q], log[q])'
    <3>1. PICK lg \in BOOLEAN : lg = log[q]
      BY <2>1
    <3>2. KeepsAt(pl[q], lg) => KeepsAt(pl[q], lg)'
      OBVIOUS
    <3>q. QED BY <3>1, <3>2, <2>1 DEF KeepsAt, On
  <2>q. QED BY <2>1, <2>2, <2>3 DEF WorkAt
<1>4. \A q \in Procs : WorkAt(npl[q], local[q], hasShared[q], log[q])'
  BY <1>1, <1>3
<1>5. shared' # {} => \E q \in Procs : BusyAt(npl[q], local'[q])
  <2>1. CASE BusyAt(b, local'[p])
    BY <1>1, <2>1
  <2>2. CASE shared # {} /\ ~ BusyAt(pl[p], local[p])
    <3>1. PICK q \in Procs : BusyAt(pl[q], local[q])
      BY <2>2 DEF WorkKnown
    <3>2. q # p
      BY <2>2, <3>1
    <3>q. QED BY <1>1, <3>1, <3>2 DEF OnlyOf
  <2>q. QED BY <2>1, <2>2
<1>q. QED BY <1>2, <1>4, <1>5 DEF WorkKnown, OnlyOf, npl

----------------------------------------------------------------------------
(* The two copies of the mirrored field.                                   *)

(* A step that moves back locations between the stack and p, and leaves    *)
(* the copies alone.                                                       *)
LEMMA ReplicasStep ==
  ASSUME NEW pl \in [Procs -> Places], ReplicasKnown(pl), NEW p \in Procs, NEW b \in Places,
         OnlyOf(p), UNCHANGED <<collector, type, writes, mirrorVars>>,
         type = "Minor" => UNCHANGED log,
         Fetched([pl EXCEPT ![p] = b])' <=> Fetched(pl),
         \A q \in Procs : NextAt(pl[q]) => NextAt(pl[q])',
         On => On',
         collector = "gen" /\ b.g = "release" => On',
         localNext'[p] # {} => collector = "gen" /\ NextAt(b)',
         b.h = "forward" <=> pl[p].h = "forward",
         collector = "semi" => next' = {},
         Names(shared', primary), Names(local'[p], primary),
         Names(localNext'[p], Other(primary)),
         Names(next', IF Fetched(pl) THEN Other(primary) ELSE primary),
         type = "Minor" /\
         (\/ HasBack(shared, primary) \/ HasBack(local[p], primary)
          \/ ~ Fetched(pl) /\ HasBack(next, primary))
           => \/ HasBack(shared', primary) \/ HasBack(local'[p], primary)
              \/ ~ Fetched(pl) /\ HasBack(next', primary),
         type = "Minor" /\
         (\/ HasBack(localNext[p], Other(primary))
          \/ Fetched(pl) /\ HasBack(next, Other(primary)))
           => \/ HasBack(localNext'[p], Other(primary))
              \/ Fetched(pl) /\ HasBack(next', Other(primary))
  PROVE  ReplicasKnown([pl EXCEPT ![p] = b])'
<1> DEFINE npl == [pl EXCEPT ![p] = b]
<1>1. npl \in [Procs -> Places] /\ npl[p] = b /\ \A q \in Procs : q # p => npl[q] = pl[q]
  OBVIOUS
<1>f. Fetched(npl)' <=> Fetched(pl)
  OBVIOUS
<1> HIDE DEF npl
<1>2. /\ mirror' = mirror /\ primary' = primary /\ epoch' = epoch /\ held' = held
      /\ writes' = writes /\ type' = type /\ collector' = collector
  BY DEF mirrorVars
<1>3. /\ \A q \in Procs : q # p => /\ local'[q] = local[q] /\ localNext'[q] = localNext[q]
                                   /\ log'[q] = log[q]
  BY DEF OnlyOf
<1>4. ReplicaTypes'
  BY <1>2 DEF ReplicasKnown, ReplicaTypes
<1>5. BackNames(npl)'
  <2>1. \A q \in Procs : Names(local'[q], primary) /\ Names(localNext'[q], Other(primary))
    BY <1>3 DEF ReplicasKnown, BackNames
  <2>2. Names(next', IF Fetched(npl)' THEN Other(primary) ELSE primary)
    BY <1>f
  <2>q. QED BY <1>2, <2>1, <2>2 DEF BackNames, Other
<1>6. \A q \in Procs :
        /\ collector = "gen" /\ npl[q].g = "release" => On'
        /\ localNext'[q] # {} => collector = "gen" /\ NextAt(npl[q])'
        /\ npl[q].h = "forward" => held[q].at = Other(primary)
  BY <1>1, <1>3 DEF ReplicasKnown
<1>7. type = "Minor" /\ Due(pl) => Due(npl)'
  <2>1. (\E q \in Procs : pl[q].h = "forward") => \E q \in Procs : npl[q].h = "forward"
    BY <1>1
  <2>2. ASSUME NEW q \in Procs, HasBack(local[q], primary), q # p
        PROVE  \E r \in Procs : HasBack(local'[r], primary)
    BY <1>3, <2>2
  <2>3. Due(npl)' <=> \/ ~ Fetched(npl)' /\ HasBack(next', primary)
                      \/ HasBack(shared', primary)
                      \/ \E q \in Procs : HasBack(local'[q], primary)
                      \/ \E q \in Procs : npl[q].h = "forward"
                      \/ SelfPointers
    BY <1>2 DEF Due
  <2>4. type = "Minor" /\
        (\/ HasBack(shared, primary) \/ HasBack(local[p], primary)
         \/ ~ Fetched(pl) /\ HasBack(next, primary))
          => \/ HasBack(shared', primary) \/ HasBack(local'[p], primary)
             \/ ~ Fetched(npl)' /\ HasBack(next', primary)
    BY <1>f
  <2>5. ASSUME type = "Minor", Due(pl) PROVE Due(npl)'
    <3>1. CASE \E q \in Procs : pl[q].h = "forward"
      BY <2>1, <2>3, <3>1
    <3>2. CASE \E q \in Procs : HasBack(local[q], primary) /\ q # p
      BY <2>2, <2>3, <3>2
    <3>3. CASE \/ HasBack(shared, primary) \/ HasBack(local[p], primary)
               \/ ~ Fetched(pl) /\ HasBack(next, primary)
      BY <2>3, <2>4, <2>5, <3>3
    <3>4. CASE SelfPointers
      BY <2>3, <3>4
    <3>q. QED BY <2>5, <3>1, <3>2, <3>3, <3>4 DEF Due
  <2>q. QED BY <2>5
<1>8. type = "Minor" /\ Deferred(pl) => Deferred(npl)'
  <2>1. ASSUME NEW q \in Procs, HasBack(localNext[q], Other(primary)), q # p
        PROVE  \E r \in Procs : HasBack(localNext'[r], Other(primary))
    BY <1>3, <2>1
  <2>2. Deferred(npl)' <=> \/ \E q \in Procs : log'[q]
                           \/ \E q \in Procs : HasBack(localNext'[q], Other(primary))
                           \/ Fetched(npl)' /\ HasBack(next', Other(primary))
                           \/ SelfPointers
    BY <1>2 DEF Deferred, Other
  <2>3. type = "Minor" /\
        (\/ HasBack(localNext[p], Other(primary))
         \/ Fetched(pl) /\ HasBack(next, Other(primary)))
          => \/ HasBack(localNext'[p], Other(primary))
             \/ Fetched(npl)' /\ HasBack(next', Other(primary))
    BY <1>f
  <2>4. ASSUME type = "Minor", Deferred(pl) PROVE Deferred(npl)'
    <3>1. CASE \E q \in Procs : log[q]
      BY <2>2, <2>4, <3>1
    <3>2. CASE \E q \in Procs : HasBack(localNext[q], Other(primary)) /\ q # p
      BY <2>1, <2>2, <3>2
    <3>3. CASE \/ HasBack(localNext[p], Other(primary))
               \/ Fetched(pl) /\ HasBack(next, Other(primary))
      BY <2>2, <2>3, <2>4, <3>3
    <3>4. CASE SelfPointers
      BY <2>2, <3>4
    <3>q. QED BY <2>4, <3>1, <3>2, <3>3, <3>4 DEF Deferred
  <2>q. QED BY <2>4
<1>9. /\ mirror'[primary'].gen \in {0, epoch'} \/ SelfPointers
      /\ type' = "Major" => mirror'[primary'].gen = 0 \/ SelfPointers
      /\ type' = "Minor" /\ mirror'[Other(primary)'].gen # 0 => Due(npl)'
      /\ type' = "Minor" /\ mirror'[primary'].gen # 0 => Deferred(npl)'
  BY <1>2, <1>7, <1>8 DEF ReplicasKnown, Other
<1>q. QED BY <1>2, <1>4, <1>5, <1>6, <1>9 DEF ReplicasKnown, npl, Other

----------------------------------------------------------------------------
(* Steps that only move a processor.                                       *)

LEMMA Conclude ==
  ASSUME NEW pl \in [Procs -> Places], Placed(pl)', Core(pl)', WorkKnown(pl)',
         ReplicasKnown(pl)'
  PROVE  Inv'
BY DEF Inv, Known

otherVars == <<optionVars, status, type, cycle, arrived, isFirst, unscanned, shared,
               next, local, localNext, hasShared, numLocalStack, space, threadSpace,
               log, writes, mirrorVars>>

LEMMA Unchanged ==
  ASSUME NEW pl \in [Procs -> Places], WorkKnown(pl), NEW p \in Procs, UNCHANGED otherVars
  PROVE  /\ OnlyOf(p)
         /\ \A q \in Procs, lg \in BOOLEAN : KeepsAt(pl[q], lg) => KeepsAt(pl[q], lg)'
         /\ \A q \in Procs : NextAt(pl[q]) => NextAt(pl[q])'
         /\ On' <=> On
         /\ UNCHANGED <<collector, agressive, status, type, cycle, arrived, isFirst,
                        unscanned, space, threadSpace, writes, mirrorVars, shared,
                        next, local, localNext, hasShared, log, numLocalStack>>
<1>1. UNCHANGED <<collector, agressive, status, type, cycle, arrived, isFirst,
                  unscanned, space, threadSpace, writes, mirrorVars, shared,
                  next, local, localNext, hasShared, log, numLocalStack>>
  BY DEF otherVars, optionVars
<1>2. On' <=> On
  BY <1>1 DEF On
<1>3. OnlyOf(p)
  BY <1>1 DEF OnlyOf, WorkKnown
<1>4. \A q \in Procs, lg \in BOOLEAN : KeepsAt(pl[q], lg) => KeepsAt(pl[q], lg)'
  BY <1>1, <1>2 DEF KeepsAt
<1>5. \A q \in Procs : NextAt(pl[q]) => NextAt(pl[q])'
  BY <1>2 DEF NextAt
<1>q. QED BY <1>1, <1>2, <1>3, <1>4, <1>5

phaselessVars == <<optionVars, type, shared, next, local, localNext, hasShared,
                   numLocalStack, log, writes, mirrorVars>>
workVars == <<phaselessVars, status>>

(* p moves, and its work stays with it; the phase may change, but not      *)
(* whether the collector is on.                                            *)
LEMMA MovePhase ==
  ASSUME NEW pl \in [Procs -> Places], WorkKnown(pl), ReplicasKnown(pl),
         NEW p \in Procs, NEW b \in Places, UNCHANGED phaselessVars,
         On' <=> On,
         status' \in {"On", "PendingOff"} <=> status \in {"On", "PendingOff"},
         WorkAt(b, local[p], hasShared[p], log[p]),
         BusyAt(pl[p], local[p]) => BusyAt(b, local[p]),
         localNext[p] # {} => NextAt(b),
         collector = "gen" /\ b.g = "release" => On,
         b.h = "forward" <=> pl[p].h = "forward",
         b.g = "genOn" /\ b.i >= 8 <=> pl[p].g = "genOn" /\ pl[p].i >= 8
  PROVE  WorkKnown([pl EXCEPT ![p] = b])' /\ ReplicasKnown([pl EXCEPT ![p] = b])'
<1> DEFINE npl == [pl EXCEPT ![p] = b]
<1>1. npl \in [Procs -> Places] /\ npl[p] = b /\ \A q \in Procs : q # p => npl[q] = pl[q]
  OBVIOUS
<1> HIDE DEF npl
<1>3. UNCHANGED <<collector, agressive, type, writes, mirrorVars, shared,
                  next, local, localNext, hasShared, log, numLocalStack>>
  BY DEF phaselessVars, optionVars
<1>2. /\ OnlyOf(p)
      /\ \A q \in Procs, lg \in BOOLEAN : KeepsAt(pl[q], lg) => KeepsAt(pl[q], lg)'
      /\ \A q \in Procs : NextAt(pl[q]) => NextAt(pl[q])'
      /\ On' <=> On
  <2>1. OnlyOf(p)
    BY <1>3 DEF OnlyOf, WorkKnown
  <2>2. On' <=> On
    OBVIOUS
  <2>3. /\ \A q \in Procs, lg \in BOOLEAN : KeepsAt(pl[q], lg) => KeepsAt(pl[q], lg)'
        /\ \A q \in Procs : NextAt(pl[q]) => NextAt(pl[q])'
    BY <1>3, <2>2 DEF KeepsAt, NextAt
  <2>q. QED BY <2>1, <2>2, <2>3
<1>4. WorkAt(b, local[p], hasShared[p], log[p])'
  BY <1>2, <1>3 DEF WorkAt, KeepsAt
<1>5. shared' # {} => \/ BusyAt(b, local'[p])
                      \/ shared # {} /\ ~ BusyAt(pl[p], local[p])
  BY <1>3
<1>6. WorkKnown([pl EXCEPT ![p] = b])'
  BY <1>2, <1>4, <1>5, WorkStep
<1>7. Fetched(npl)' <=> Fetched(pl)
  <2>1. (\E q \in Procs : npl[q].g = "genOn" /\ npl[q].i >= 8)
          <=> (\E q \in Procs : pl[q].g = "genOn" /\ pl[q].i >= 8)
    BY <1>1
  <2>q. QED BY <1>2, <2>1 DEF Fetched
<1>8. /\ On => On' /\ (collector = "gen" /\ b.g = "release" => On')
      /\ localNext'[p] # {} => collector = "gen" /\ NextAt(b)'
      /\ collector = "semi" => next' = {}
      /\ Names(shared', primary) /\ Names(local'[p], primary)
      /\ Names(localNext'[p], Other(primary))
      /\ Names(next', IF Fetched(pl) THEN Other(primary) ELSE primary)
  BY <1>2, <1>3 DEF ReplicasKnown, BackNames, NextAt
<1>9. /\ (\/ HasBack(shared, primary) \/ HasBack(local[p], primary)
          \/ ~ Fetched(pl) /\ HasBack(next, primary))
           => \/ HasBack(shared', primary) \/ HasBack(local'[p], primary)
              \/ ~ Fetched(pl) /\ HasBack(next', primary)
      /\ (\/ HasBack(localNext[p], Other(primary))
          \/ Fetched(pl) /\ HasBack(next, Other(primary)))
           => \/ HasBack(localNext'[p], Other(primary))
              \/ Fetched(pl) /\ HasBack(next', Other(primary))
  BY <1>3
<1>10. UNCHANGED <<collector, type, writes, mirrorVars>> /\ (type = "Minor" => UNCHANGED log)
  BY <1>3
<1>11. ReplicasKnown([pl EXCEPT ![p] = b])'
  <2>1. Fetched([pl EXCEPT ![p] = b])' <=> Fetched(pl)
    BY <1>7 DEF npl
  <2>q. QED BY <1>2, <1>8, <1>9, <1>10, <2>1, ReplicasStep
<1>q. QED BY <1>6, <1>11

(* The same, in the same phase.                                            *)
LEMMA MoveWork ==
  ASSUME NEW pl \in [Procs -> Places], WorkKnown(pl), ReplicasKnown(pl),
         NEW p \in Procs, NEW b \in Places, UNCHANGED workVars,
         WorkAt(b, local[p], hasShared[p], log[p]),
         BusyAt(pl[p], local[p]) => BusyAt(b, local[p]),
         localNext[p] # {} => NextAt(b),
         collector = "gen" /\ b.g = "release" => On,
         b.h = "forward" <=> pl[p].h = "forward",
         b.g = "genOn" /\ b.i >= 8 <=> pl[p].g = "genOn" /\ pl[p].i >= 8
  PROVE  WorkKnown([pl EXCEPT ![p] = b])' /\ ReplicasKnown([pl EXCEPT ![p] = b])'
<1>1. UNCHANGED phaselessVars /\ UNCHANGED status /\ UNCHANGED <<collector, agressive, type>>
  BY DEF workVars, phaselessVars, optionVars
<1>2. On' <=> On
  BY <1>1 DEF On
<1>q. QED BY <1>1, <1>2, MovePhase

LEMMA MoveAlone ==
  ASSUME NEW pl \in [Procs -> Places], WorkKnown(pl), ReplicasKnown(pl),
         NEW p \in Procs, NEW b \in Places, UNCHANGED otherVars,
         WorkAt(b, local[p], hasShared[p], log[p]),
         BusyAt(pl[p], local[p]) => BusyAt(b, local[p]),
         localNext[p] # {} => NextAt(b),
         collector = "gen" /\ b.g = "release" => On,
         b.h = "forward" <=> pl[p].h = "forward",
         b.g = "genOn" /\ b.i >= 8 <=> pl[p].g = "genOn" /\ pl[p].i >= 8
  PROVE  WorkKnown([pl EXCEPT ![p] = b])' /\ ReplicasKnown([pl EXCEPT ![p] = b])'
<1>1. UNCHANGED workVars
  BY DEF otherVars, workVars, phaselessVars, optionVars, mirrorVars
<1>q. QED BY <1>1, MoveWork

(* A move outside the functions.                                           *)
LEMMA QuietOut ==
  ASSUME NEW pl \in [Procs -> Places], Known(pl), NEW p \in Procs, NEW b \in Places,
         Fits(b), ~ In(pl[p]), ~ In(b), b.g = "off" => status = "PendingOff",
         todo' = [todo EXCEPT ![p] = Steps(b)], UNCHANGED otherVars,
         WorkAt(b, local[p], hasShared[p], log[p]),
         BusyAt(b, local[p]),
         localNext[p] # {} => NextAt(b),
         collector = "gen" /\ b.g = "release" => On,
         b.h = "forward" <=> pl[p].h = "forward"
  PROVE  Inv'
<1>1. UNCHANGED <<collector, agressive, status, type, cycle, arrived, isFirst,
                  unscanned, space, threadSpace>>
  BY Unchanged DEF Known
<1>2. Core([pl EXCEPT ![p] = b])'
  BY <1>1, Outside DEF Known
<1>3. b.g = "genOn" /\ b.i >= 8 <=> pl[p].g = "genOn" /\ pl[p].i >= 8
  BY DEF In, GenGs
<1>4. WorkKnown([pl EXCEPT ![p] = b])' /\ ReplicasKnown([pl EXCEPT ![p] = b])'
  BY <1>3, MoveAlone DEF Known
<1>5. UNCHANGED optionVars
  BY <1>1 DEF optionVars
<1>6. Placed([pl EXCEPT ![p] = b])' /\ [pl EXCEPT ![p] = b] \in [Procs -> Places]
  BY <1>5, PlacedStep DEF Known
<1>q. QED BY <1>2, <1>4, <1>6, Conclude

(* Places outside the functions.                                           *)
LEMMA OutPlaces ==
  ASSUME NEW a \in Places
  PROVE  /\ a.h \in Conts \cup {"full", "quit"} => a.g = "idle"
         /\ a.h = "pushRelease" => a.g = "release" /\ a.i = 1 /\ a.x \in {"switch", "full"}
         /\ a.h \in Loop => /\ a.i = 1 /\ a.g \in {"quantum", "off"}
                            /\ a.g = "quantum" => a.x = "quit"
                            /\ a.g = "off" => a.x \in Conts
         /\ a.g \in {"idle", "release", "quantum", "done"} => ~ In(a) /\ a.i = 1
         /\ a.g = "off" /\ a.i = 1 => ~ In(a) /\ a.h \in Loop
         /\ a.g = "idle" => a.h \in Conts \cup {"full", "quit"} /\ a.h = a.x
         /\ a.g = "done" => a.h = "wait" /\ a.x \in Conts
         /\ ~ In(a) => ~ Counted(a) /\ ~ Unshared(a)
<1>1. /\ a.g \in Gs /\ a.i \in 1 .. 11 /\ a.h \in Labels /\ a.x \in Labels /\ StepAt(a)
  BY PlaceFields
<1>2. a.g \in SemiGs \cup GenGs =>
        a.h \in {"signalOn", "signalTransition", "weak", "resetJob", "reset", "resetNext",
                 "strong", "wait", "scan", "push", "leave", "setOn", "setTransition"}
  BY <1>1 DEF StepAt, SemiStepAt, GenOnStepAt, GenTransitionStepAt, Barrier, Sharing, SemiGs, GenGs
<1>3. a.g = "off" => \/ a.i = 1 /\ a.h \in Loop
                     \/ a.i >= 2 /\ a.h \in {"signalOff", "weak", "resetJob", "strong",
                                             "wait", "complete", "flip"}
  BY <1>1 DEF StepAt, OffStepAt, Barrier, SemiGs
<1>4. /\ a.g = "quantum" => a.i = 1 /\ a.h \in Loop /\ a.x = "quit"
      /\ a.g = "release" => a.i = 1 /\ a.h = "pushRelease" /\ a.x \in {"switch", "full"}
      /\ a.g = "done" => a.i = 1 /\ a.h = "wait" /\ a.x \in Conts
      /\ a.g = "idle" => a.i = 1 /\ a.h = a.x /\ a.x \in Conts \cup {"full", "quit"}
      /\ a.g = "off" => a.x \in Conts
  BY <1>1 DEF StepAt, IdleAt, SemiGs
<1>5. a.g \in SemiGs \cup GenGs \cup {"off", "quantum", "release", "done", "idle"}
  BY <1>1 DEF Gs
<1>6. /\ a.h \in Conts \cup {"full", "quit"} => a.g = "idle"
  BY <1>2, <1>3, <1>4, <1>5 DEF Conts, Loop
<1>7. a.h = "pushRelease" => a.g = "release" /\ a.i = 1 /\ a.x \in {"switch", "full"}
  BY <1>2, <1>3, <1>4, <1>5 DEF Conts, Loop
<1>8. a.h \in Loop => /\ a.i = 1 /\ a.g \in {"quantum", "off"}
                      /\ a.g = "quantum" => a.x = "quit"
                      /\ a.g = "off" => a.x \in Conts
  BY <1>2, <1>3, <1>4, <1>5 DEF Conts, Loop
<1>9. /\ a.g \in {"idle", "release", "quantum", "done"} => ~ In(a) /\ a.i = 1
      /\ a.g = "off" /\ a.i = 1 => ~ In(a) /\ a.h \in Loop
  BY <1>1, <1>3, <1>4 DEF In, SemiGs, GenGs
<1>10. ~ In(a) => ~ Counted(a) /\ ~ Unshared(a)
  BY DEF In, Counted, Unshared
<1>q. QED BY <1>4, <1>6, <1>7, <1>8, <1>9, <1>10

LEMMA NewPlaces ==
  /\ \A x \in Conts \cup {"full", "quit"} :
       Idle(x) \in Places /\ Idle(x).g = "idle" /\ Idle(x).i = 1 /\ Idle(x).h = x /\ Idle(x).x = x
  /\ \A g \in Gs \ {"idle"}, x \in Labels :
       /\ Start(g, x).g = g /\ Start(g, x).i = 1 /\ Start(g, x).x = x
       /\ Start(g, x).h = Script(g)[1]
       /\ g \in SemiGs \cup GenGs \cup {"off"} /\ x \in Conts => Start(g, x) \in Places
       /\ g = "release" /\ x \in {"switch", "full"} => Start(g, x) \in Places
       /\ g = "quantum" /\ x = "quit" => Start(g, x) \in Places
  /\ \A a \in Places, h \in Loop :
       a.h \in Loop => /\ With(a, h) \in Places /\ With(a, h).g = a.g
                       /\ With(a, h).i = a.i /\ With(a, h).h = h /\ With(a, h).x = a.x
  /\ Script("off")[1] = "pop" /\ Script("quantum")[1] = "pop"
  /\ Script("release")[1] = "pushRelease"
  /\ \A g \in OnGs : Script(g)[1] = "signalOn"
  /\ \A g \in TransitionGs : Script(g)[1] = "signalTransition"
<1>1. \A x \in Conts \cup {"full", "quit"} :
       Idle(x) \in Places /\ Idle(x).g = "idle" /\ Idle(x).i = 1 /\ Idle(x).h = x /\ Idle(x).x = x
  BY DEF Places, Idle, StepAt, IdleAt, Gs, Labels
<1>2. /\ Script("off")[1] = "pop" /\ Script("quantum")[1] = "pop"
      /\ Script("release")[1] = "pushRelease"
  BY Scripts
<1>3. \A g \in OnGs : Script(g)[1] = "signalOn"
  BY Scripts DEF OnGs, SemiCollectorOn, GenCollectorOn
<1>4. \A g \in TransitionGs : Script(g)[1] = "signalTransition"
  BY Scripts DEF TransitionGs, SemiCollectorTransition, GenCollectorTransition
<1>5. ASSUME NEW g \in Gs \ {"idle"}, NEW x \in Labels
      PROVE  /\ Start(g, x).g = g /\ Start(g, x).i = 1 /\ Start(g, x).x = x
             /\ Start(g, x).h = Script(g)[1]
             /\ g \in SemiGs \cup GenGs \cup {"off"} /\ x \in Conts => Start(g, x) \in Places
             /\ g = "release" /\ x \in {"switch", "full"} => Start(g, x) \in Places
             /\ g = "quantum" /\ x = "quit" => Start(g, x) \in Places
  <2> DEFINE b == Start(g, x)
  <2>1. /\ b.g = g /\ b.i = 1 /\ b.x = x /\ b.h = Script(g)[1]
        /\ b = [g |-> g, i |-> 1, h |-> Script(g)[1], x |-> x]
    BY DEF Start
  <2> HIDE DEF b
  <2>2. /\ "pop" \in Labels /\ "pushRelease" \in Labels /\ "signalOn" \in Labels
        /\ "signalTransition" \in Labels
    BY DEF Labels, Loop
  <2>3. b \in Places <=> Script(g)[1] \in Labels /\ StepAt(b)
    BY <2>1 DEF Places
  <2>4. ASSUME g \in SemiGs, x \in Conts PROVE b \in Places
    <3>1. CASE g = "semiOn"
      BY <1>3, <2>1, <2>2, <2>3, <2>4, <3>1 DEF StepAt, SemiStepAt, OnGs
    <3>2. CASE g = "semiTransition"
      BY <1>4, <2>1, <2>2, <2>3, <2>4, <3>2 DEF StepAt, SemiStepAt, TransitionGs
    <3>q. QED BY <2>4, <3>1, <3>2 DEF SemiGs
  <2>5. ASSUME g = "genOn", x \in Conts PROVE b \in Places
    BY <1>3, <2>1, <2>2, <2>3, <2>5 DEF StepAt, GenOnStepAt, OnGs
  <2>6. ASSUME g = "genTransition", x \in Conts PROVE b \in Places
    BY <1>4, <2>1, <2>2, <2>3, <2>6 DEF StepAt, GenTransitionStepAt, TransitionGs
  <2>7. ASSUME g = "off", x \in Conts PROVE b \in Places
    BY <1>2, <2>1, <2>2, <2>3, <2>7 DEF StepAt, OffStepAt, Loop
  <2>8. ASSUME g = "release", x \in {"switch", "full"} PROVE b \in Places
    BY <1>2, <2>1, <2>2, <2>3, <2>8 DEF StepAt
  <2>9. ASSUME g = "quantum", x = "quit" PROVE b \in Places
    BY <1>2, <2>1, <2>2, <2>3, <2>9 DEF StepAt, Loop
  <2>q. QED BY <2>1, <2>4, <2>5, <2>6, <2>7, <2>8, <2>9 DEF b, GenGs
<1>6. ASSUME NEW a \in Places, NEW h \in Loop, a.h \in Loop
      PROVE  /\ With(a, h) \in Places /\ With(a, h).g = a.g
             /\ With(a, h).i = a.i /\ With(a, h).h = h /\ With(a, h).x = a.x
  <2> DEFINE b == With(a, h)
  <2>1. /\ b.g = a.g /\ b.i = a.i /\ b.h = h /\ b.x = a.x
        /\ b = [g |-> a.g, i |-> a.i, h |-> h, x |-> a.x]
    BY DEF With
  <2> HIDE DEF b
  <2>2. a.i = 1 /\ ((a.g = "quantum" /\ a.x = "quit") \/ (a.g = "off" /\ a.x \in Conts))
    BY <1>6, OutPlaces
  <2>3. h \in Labels /\ a.g \in Gs /\ a.i \in 1 .. 11 /\ a.x \in Labels
    BY PlaceFields DEF Labels
  <2>4. StepAt(b)
    BY <2>1, <2>2 DEF StepAt, OffStepAt
  <2>q. QED BY <2>1, <2>3, <2>4 DEF Places, b
<1>q. QED BY <1>1, <1>2, <1>3, <1>4, <1>5, <1>6

LEMMA TwoSteps ==
  ASSUME NEW h \in Labels, NEW x \in Labels
  PROVE  <<h>> \o <<x>> = <<h, x>>
<1> DEFINE s == <<h>> \o <<x>>
           t == <<h, x>>
<1>1. <<h>> \in Seq(Labels) /\ Len(<<h>>) = 1 /\ <<h>>[1] = h
  OBVIOUS
<1>2. s \in Seq(Labels) /\ Len(s) = 2 /\ s[1] = h /\ s[2] = x
  BY <1>1, WithLast
<1>3. t \in Seq(Labels) /\ Len(t) = 2 /\ t[1] = h /\ t[2] = x
  OBVIOUS
<1> HIDE DEF s, t
<1>4. Len(s) = Len(t) /\ \A i \in 1 .. Len(s) : s[i] = t[i]
  BY <1>2, <1>3
<1>5. s = t
  BY <1>2, <1>3, <1>4, SeqEqual
<1>q. QED BY <1>5 DEF s, t

----------------------------------------------------------------------------
(* Moves of a processor that is in no function.                            *)

(* What an idle processor has.                                             *)
LEMMA IdleFacts ==
  ASSUME NEW pl \in [Procs -> Places], Known(pl), NEW p \in Procs, pl[p].g = "idle"
  PROVE  /\ ~ hasShared[p] /\ ~ In(pl[p]) /\ pl[p].h = pl[p].x
         /\ pl[p].h \in Conts \cup {"full", "quit"}
         /\ local[p] # {} =>
              \/ collector = "semi" /\ pl[p].h = "mutator" /\ log[p]
              \/ collector = "gen" /\ ~ On /\ pl[p].h \in {"mutator", "switch", "poll", "full"}
         /\ localNext[p] # {} =>
              collector = "gen" /\ ~ On /\ pl[p].h \in {"mutator", "switch", "poll", "full"}
         /\ log[p] => pl[p].h = "mutator"
         /\ log[p] \in BOOLEAN /\ hasShared[p] \in BOOLEAN
<1>1. /\ ~ In(pl[p]) /\ pl[p].h = pl[p].x /\ pl[p].h \in Conts \cup {"full", "quit"}
      /\ ~ Counted(pl[p]) /\ ~ Unshared(pl[p])
  BY OutPlaces
<1>2. /\ WorkAt(pl[p], local[p], hasShared[p], log[p])
      /\ log[p] \in BOOLEAN /\ hasShared[p] \in BOOLEAN
  BY DEF Known, WorkKnown
<1>3. pl[p].h \notin Working
  BY <1>1 DEF Working, Conts
<1>4. localNext[p] # {} => collector = "gen" /\ NextAt(pl[p])
  BY DEF Known, ReplicasKnown
<1>5. localNext[p] # {} =>
        collector = "gen" /\ ~ On /\ pl[p].h \in {"mutator", "switch", "poll", "full"}
  BY <1>4 DEF NextAt, GenGs
<1>6. local[p] # {} =>
        \/ collector = "semi" /\ pl[p].h = "mutator" /\ log[p]
        \/ collector = "gen" /\ ~ On /\ pl[p].h \in {"mutator", "switch", "poll", "full"}
  BY <1>1, <1>2, <1>3 DEF WorkAt, KeepsAt
<1>7. ~ hasShared[p] /\ (log[p] => pl[p].h = "mutator")
  BY <1>1, <1>2, <1>3 DEF WorkAt
<1>q. QED BY <1>1, <1>2, <1>5, <1>6, <1>7

(* From one label of a switch to another, or to the thread.                *)
LEMMA IdleMove ==
  ASSUME NEW pl \in [Procs -> Places], Known(pl), NEW p \in Procs, pl[p].g = "idle",
         NEW x \in Conts \cup {"full", "quit"}, Become(p, <<x>>), UNCHANGED otherVars,
         x = "full" => collector = "gen",
         collector = "semi" => ~ log[p],
         collector = "gen" => x \in {"mutator", "switch", "poll", "full"},
         log[p] => x = "mutator"
  PROVE  Inv'
<1> DEFINE b == Idle(x)
<1>1. b \in Places /\ b.g = "idle" /\ b.i = 1 /\ b.h = x /\ b.x = x
  BY NewPlaces
<1>2. todo' = [todo EXCEPT ![p] = Steps(b)]
  BY Moves DEF Known, Labels, Conts
<1> HIDE DEF b
<1>3. /\ ~ hasShared[p] /\ ~ In(pl[p])
      /\ local[p] # {} =>
              \/ collector = "semi" /\ pl[p].h = "mutator" /\ log[p]
              \/ collector = "gen" /\ ~ On /\ pl[p].h \in {"mutator", "switch", "poll", "full"}
      /\ localNext[p] # {} =>
              collector = "gen" /\ ~ On /\ pl[p].h \in {"mutator", "switch", "poll", "full"}
  BY IdleFacts
<1>4. ~ In(b) /\ ~ Counted(b)
  BY <1>1, OutPlaces
<1>5. WorkAt(b, local[p], hasShared[p], log[p])
  BY <1>1, <1>3, <1>4 DEF WorkAt, KeepsAt
<1>6. Fits(b)
  BY <1>1 DEF Fits, SemiGs, GenGs, Conts
<1>7. BusyAt(b, local[p]) /\ (localNext[p] # {} => NextAt(b))
  BY <1>1, <1>3 DEF BusyAt, NextAt, Conts
<1>8. (b.h = "forward" <=> pl[p].h = "forward") /\ b.g # "off" /\ b.g # "release"
  BY <1>1, IdleFacts DEF Conts
<1>q. QED BY <1>1, <1>2, <1>3, <1>4, <1>5, <1>6, <1>7, <1>8, QuietOut

(* Into the loop of do_work.                                               *)
LEMMA StartLoop ==
  ASSUME NEW pl \in [Procs -> Places], Known(pl), NEW p \in Procs, pl[p].g = "idle",
         NEW g \in {"quantum", "off"}, NEW x, Start(g, x) \in Places,
         Become(p, Script(g) \o <<x>>), UNCHANGED otherVars,
         On, g = "off" => status = "PendingOff", pl[p].h # "mutator"
  PROVE  Inv'
<1> DEFINE b == Start(g, x)
<1>0. g \in Gs \ {"idle"} /\ x \in Labels
  <2>1. b.x = x
    BY DEF Start
  <2>q. QED BY <2>1, PlaceFields DEF Gs
<1>1. b \in Places /\ b.g = g /\ b.i = 1 /\ b.h = "pop" /\ b.x = x
  BY <1>0, NewPlaces
<1>2. todo' = [todo EXCEPT ![p] = Steps(b)]
  BY <1>0, Moves DEF Known
<1> HIDE DEF b
<1>3. ~ hasShared[p] /\ ~ In(pl[p]) /\ local[p] = {} /\ localNext[p] = {} /\ ~ log[p]
  BY IdleFacts
<1>4. ~ In(b) /\ ~ Counted(b)
  BY <1>1, OutPlaces
<1>5. WorkAt(b, local[p], hasShared[p], log[p])
  BY <1>1, <1>3, <1>4 DEF WorkAt
<1>6. Fits(b)
  BY <1>1, OutPlaces DEF Fits, SemiGs, GenGs, Loop, Conts
<1>7. BusyAt(b, local[p])
  BY <1>1 DEF BusyAt
<1>8. (b.h = "forward" <=> pl[p].h = "forward") /\ b.g # "release"
  BY <1>1, IdleFacts DEF Conts
<1>q. QED BY <1>1, <1>2, <1>3, <1>4, <1>5, <1>6, <1>7, <1>8, QuietOut

(* Into CollectorOn or CollectorTransition: all that are in a function     *)
(* already are in the same one, as the phase tells.                        *)
LEMMA Enter ==
  ASSUME NEW pl \in [Procs -> Places], Known(pl), NEW p \in Procs, pl[p].g = "idle",
         NEW g \in SemiGs \cup GenGs, NEW x \in Conts,
         Become(p, Script(g) \o <<x>>), UNCHANGED otherVars, pl[p].h # "mutator",
         collector = (IF g \in SemiGs THEN "semi" ELSE "gen"),
         g \in OnGs => (status = "Off" /\ cycle < MaxCycles) \/ status = PendingOn(type),
         g \in TransitionGs => status = "PendingOn" /\ agressive[type]
  PROVE  Inv'
<1> DEFINE b == Start(g, x)
           npl == [pl EXCEPT ![p] = b]
<1>0. g \in Gs \ {"idle"} /\ x \in Labels
  BY DEF Gs, Labels, SemiGs, GenGs
<1>1. /\ b \in Places /\ b.g = g /\ b.i = 1 /\ b.x = x
      /\ b.h \in {"signalOn", "signalTransition"}
  BY <1>0, NewPlaces DEF OnGs, TransitionGs, SemiGs, GenGs
<1>2. todo' = [todo EXCEPT ![p] = Steps(b)]
  BY <1>0, Moves DEF Known
<1> HIDE DEF b
<1>3. /\ ~ hasShared[p] /\ ~ In(pl[p]) /\ ~ log[p]
      /\ local[p] # {} => collector = "gen" /\ ~ On
      /\ localNext[p] # {} => collector = "gen" /\ ~ On
      /\ pl[p].h # "forward"
  BY IdleFacts DEF Conts
<1>4. In(b) /\ Passed(b) = 0 /\ Level(b) = 0 /\ ~ LastStep(b)
  <2>1. In(b) /\ ~ LastStep(b)
    BY <1>1 DEF In, LastStep
  <2>2. Passed(b) = 0
    BY <1>1 DEF Passed, SemiGs, GenGs
  <2>q. QED BY <1>1, <2>1, <2>2 DEF Level
<1>5. npl \in [Procs -> Places] /\ npl[p] = b /\ \A q \in Procs : q # p => npl[q] = pl[q]
  BY <1>1
<1>6. ~ SomeSet(pl) /\ ~ SomeFlipped(pl) /\ ~ Completing_(pl)
  BY <1>3, OutFacts DEF Known, Core
<1>7. UNCHANGED <<collector, agressive, status, type, cycle, arrived, isFirst,
                  unscanned, space, threadSpace>>
  BY Unchanged DEF Known
<1>8. \A q \in Procs :
        /\ pl[q].g \in OnGs => /\ PastSet(pl[q]) => status = SetOn
                               /\ status = PendingOn(type) \/ (pl[q].i = 1 /\ status = "Off")
        /\ pl[q].g \in TransitionGs =>
             agressive[type] /\ (PastSet(pl[q]) => status = "On") /\ status = "PendingOn"
        /\ pl[q].g = "off" => status = "PendingOff"
  BY <1>6 DEF Known, Core, Phase, OnAt, TransitionAt, OffAt
<1>9. \A q \in Procs : In(pl[q]) => pl[q].g = g
  <2> SUFFICES ASSUME NEW q \in Procs, In(pl[q]) PROVE pl[q].g = g
    OBVIOUS
  <2>1. pl[q].g \in OnGs \cup TransitionGs \cup {"off"}
    BY DEF In, OnGs, TransitionGs, SemiGs, GenGs
  <2>2. /\ pl[q].g \in SemiGs => collector = "semi"
        /\ pl[q].g \in GenGs => collector = "gen"
    BY DEF Known, Placed
  <2>3. g \in OnGs => pl[q].g \in OnGs
    BY <1>8, <2>1 DEF PendingOn
  <2>4. g \in TransitionGs => pl[q].g \in TransitionGs
    BY <1>8, <2>1 DEF PendingOn
  <2>q. QED BY <2>1, <2>2, <2>3, <2>4 DEF OnGs, TransitionGs, SemiGs, GenGs
<1> HIDE DEF npl
<1>10. Together(npl)'
  <2>1. arrived \in [Procs -> Nat] /\ Level(pl[p]) = 0
    BY <1>3, LevelRange DEF Known, Core, Together
  <2>2. arrived' = [arrived EXCEPT ![p] = @ + (Level(b) - Level(pl[p]))]
    BY <1>4, <1>7, <2>1
  <2>3. /\ Level(b) >= Level(pl[p])
        /\ In(b) => \A q \in Procs : q # p /\ In(pl[q]) => pl[q].g = b.g
        /\ Passed(b) >= 2 => \A q \in Procs : q # p => Level(pl[q]) >= Passed(b)
        /\ ~ (LastStep(b) /\ b.h = "wait") /\ Together(pl) /\ b \in Places
    BY <1>1, <1>4, <1>9, <2>1 DEF Known, Core
  <2>q. QED BY <2>2, <2>3, TogetherStep DEF npl
<1>11. Phase(npl)'
  <2>2. \A q \in Procs : npl[q].g \in OnGs => OnAt(npl[q], SomeSet(npl))'
    <3>1. b.g \in OnGs => OnAt(b, SomeSet(npl))'
      BY <1>1, <1>4, <1>7 DEF OnAt, SetOn, PendingOn, PastSet
    <3>2. \A q \in Procs : q # p => (npl[q].g \in OnGs => OnAt(npl[q], SomeSet(npl))')
      BY <1>5, <1>7, <1>8 DEF OnAt, SetOn, PendingOn
    <3>q. QED BY <1>5, <3>1, <3>2
  <2>3. \A q \in Procs : npl[q].g \in TransitionGs => TransitionAt(npl[q], SomeSet(npl))'
    <3>1. b.g \in TransitionGs => TransitionAt(b, SomeSet(npl))'
      BY <1>1, <1>4, <1>7 DEF TransitionAt, PastSet
    <3>2. \A q \in Procs : q # p =>
            (npl[q].g \in TransitionGs => TransitionAt(npl[q], SomeSet(npl))')
      BY <1>5, <1>7, <1>8 DEF TransitionAt
    <3>q. QED BY <1>5, <3>1, <3>2
  <2>4. \A q \in Procs : npl[q].g = "off" => OffAt(SomeFlipped(npl))'
    BY <1>1, <1>5, <1>7, <1>8 DEF OffAt, SemiGs, GenGs
  <2>5. \A q \in Procs : npl[q].g = "off" /\ npl[q].i = 9 /\ isFirst'[q] => status' = "Off"
    BY <1>1, <1>5, <1>7 DEF Known, Core, Phase, SemiGs, GenGs
  <2>6. (status' # "Off" \/ \E q \in Procs : npl[q].g \in OnGs) => cycle' < MaxCycles
    BY <1>1, <1>5, <1>7 DEF Known, Core, Phase, PendingOn
  <2>q. QED BY <1>7, <2>2, <2>3, <2>4, <2>5, <2>6 DEF Known, Core, Phase
<1>12. OneFirst(npl)'
  <2>1. Passed(pl[p]) = 0
    BY <1>3, LevelRange
  <2>q. QED BY <1>4, <1>5, <1>7, <2>1 DEF Known, Core, OneFirst, PastWeak
<1>13. RootsKnown(npl)'
  <2>1. \A q \in Procs : npl[q].g = "off" => q # p /\ npl[q] = pl[q]
    BY <1>1, <1>5 DEF SemiGs, GenGs
  <2>2. ~ Completing_(npl)
    BY <1>6, <2>1 DEF Completing_
  <2>q. QED BY <1>6, <1>7, <2>1, <2>2 DEF Known, Core, RootsKnown
<1>14. Core(npl)'
  BY <1>10, <1>11, <1>12, <1>13 DEF Core
<1>15. WorkKnown(npl)' /\ ReplicasKnown(npl)'
  <2>1. ~ Counted(b) /\ Unshared(b) /\ b.g # "release" /\ b.h # "forward"
    BY <1>1 DEF Counted, Unshared, SemiGs, GenGs
  <2>2. WorkAt(b, local[p], hasShared[p], log[p])
    BY <1>3, <2>1 DEF WorkAt, KeepsAt
  <2>3. BusyAt(b, local[p])
    BY <1>1 DEF BusyAt
  <2>4. localNext[p] # {} => NextAt(b)
    <3>1. g = "genTransition" => On
      BY DEF On, TransitionGs
    <3>q. QED BY <1>1, <1>3, <2>1, <3>1 DEF NextAt, SemiGs, GenGs
  <2>5. b.g = "genOn" /\ b.i >= 8 <=> pl[p].g = "genOn" /\ pl[p].i >= 8
    BY <1>1
  <2>6. (b.h = "forward" <=> pl[p].h = "forward") /\ (collector = "gen" /\ b.g = "release" => On)
    BY <1>3, <2>1
  <2>q. QED BY <1>1, <2>2, <2>3, <2>4, <2>5, <2>6, MoveAlone DEF Known, npl
<1>16. Placed(npl)' /\ npl \in [Procs -> Places]
  <2>1. Fits(b)
    BY <1>1 DEF Fits, SemiGs, GenGs, Conts
  <2>2. UNCHANGED optionVars
    BY <1>7 DEF optionVars
  <2>q. QED BY <1>1, <1>2, <2>1, <2>2, PlacedStep DEF Known, npl
<1>q. QED BY <1>14, <1>15, <1>16, Conclude

(* The steps of a processor that comes to the collector.                   *)
LEMMA PollStep ==
  ASSUME NEW pl \in [Procs -> Places], Known(pl), NEW p \in Procs,
         SemiPoll(p) \/ GenPoll(p)
  PROVE  Inv'
<1>1. pl[p].h = "mutator" /\ ~ log[p] /\ Become(p, <<"poll">>)
  BY PlacedFacts DEF SemiPoll, GenPoll, Known
<1>2. UNCHANGED otherVars
  BY DEF SemiPoll, GenPoll, otherVars, stackVars
<1>3. pl[p].g = "idle"
  BY <1>1, OutPlaces DEF Conts
<1>q. QED BY <1>1, <1>2, <1>3, IdleMove DEF Conts

LEMMA ReturnStep ==
  ASSUME NEW pl \in [Procs -> Places], Known(pl), NEW p \in Procs,
         SemiReturn(p) \/ GenReturn(p)
  PROVE  Inv'
<1>1. pl[p].h \in {"quit", "retry"}
  BY PlacedFacts DEF SemiReturn, GenReturn, Known
<1>2. UNCHANGED otherVars
  BY DEF SemiReturn, GenReturn, otherVars, stackVars
<1>3. pl[p].g = "idle"
  BY <1>1, OutPlaces DEF Conts
<1>4. ~ log[p]
  BY <1>1, <1>3, IdleFacts
<1>5. Become(p, <<"mutator">>) \/ Become(p, <<"switch">>)
  BY DEF SemiReturn, GenReturn, Satisfied
<1>6. CASE Become(p, <<"mutator">>)
  BY <1>2, <1>3, <1>4, <1>6, IdleMove DEF Conts
<1>7. CASE Become(p, <<"switch">>)
  BY <1>2, <1>3, <1>4, <1>7, IdleMove DEF Conts
<1>q. QED BY <1>5, <1>6, <1>7

LEMMA SemiSwitchStep ==
  ASSUME NEW pl \in [Procs -> Places], Known(pl), NEW p \in Procs, SemiSwitch(p)
  PROVE  Inv'
<1>1. pl[p].h \in {"switch", "poll"} /\ collector = "semi"
  BY PlacedFacts DEF SemiSwitch, Semi, Known
<1>2. UNCHANGED otherVars
  BY DEF SemiSwitch, otherVars, stackVars
<1>3. pl[p].g = "idle" /\ ~ log[p] /\ pl[p].h # "mutator"
  BY <1>1, IdleFacts, OutPlaces DEF Conts
<1>4. status \in {"PendingAgressive", "Agressive"} => agressive[type]
  BY DEF Known, Core, Phase
<1>5. PICK x \in Conts : x = IF At(p, "poll") THEN "mutator" ELSE "retry"
  BY DEF Conts
<1>6. PICK y \in Conts : y = IF At(p, "poll") THEN "mutator" ELSE "switch"
  BY DEF Conts
<1>7. \/ status = "Off" /\ Become(p, <<"mutator">>)
      \/ /\ MayStart \/ status = "PendingAgressive" \/ (status = "PendingOn" /\ ~ agressive[type])
         /\ Become(p, SemiCollectorOn \o <<x>>)
      \/ /\ status = "PendingOn" /\ agressive[type]
         /\ Become(p, SemiCollectorTransition \o <<x>>)
      \/ status \in {"Agressive", "On"} /\ Become(p, Quantum)
      \/ status = "PendingOff" /\ Become(p, <<"pop">> \o SemiCollectorOff \o <<y>>)
  <2>1. (IF At(p, "poll") THEN <<"mutator">> ELSE <<"retry">>) = <<x>>
    BY <1>5
  <2>2. (IF At(p, "poll") THEN <<"mutator">> ELSE <<"switch">>) = <<y>>
    BY <1>6
  <2>q. QED BY <2>1, <2>2 DEF SemiSwitch, Satisfied
<1>8. CASE status = "Off" /\ Become(p, <<"mutator">>)
  BY <1>1, <1>2, <1>3, <1>8, IdleMove DEF Conts
<1>9. CASE /\ MayStart \/ status = "PendingAgressive" \/ (status = "PendingOn" /\ ~ agressive[type])
           /\ Become(p, SemiCollectorOn \o <<x>>)
  <2>1. Script("semiOn") = SemiCollectorOn /\ "semiOn" \in SemiGs
    BY Scripts DEF SemiGs
  <2>2. (status = "Off" /\ cycle < MaxCycles) \/ status = PendingOn(type)
    BY <1>4, <1>9 DEF MayStart, PendingOn
  <2>3. Become(p, Script("semiOn") \o <<x>>)
    BY <1>9, <2>1
  <2>4. "semiOn" \notin TransitionGs
    BY DEF TransitionGs
  <2>q. QED BY <1>1, <1>2, <1>3, <2>1, <2>2, <2>3, <2>4, Enter
<1>10. CASE /\ status = "PendingOn" /\ agressive[type]
            /\ Become(p, SemiCollectorTransition \o <<x>>)
  <2>1. Script("semiTransition") = SemiCollectorTransition /\ "semiTransition" \in SemiGs
    BY Scripts DEF SemiGs
  <2>3. Become(p, Script("semiTransition") \o <<x>>)
    BY <1>10, <2>1
  <2>4. "semiTransition" \notin OnGs
    BY DEF OnGs
  <2>q. QED BY <1>1, <1>2, <1>3, <1>10, <2>1, <2>3, <2>4, Enter
<1>11. CASE status \in {"Agressive", "On"} /\ Become(p, Quantum)
  <2>1. Script("quantum") \o <<"quit">> = Quantum
    BY Scripts, TwoSteps DEF Quantum, Labels, Loop
  <2>2. Start("quantum", "quit") \in Places
    BY NewPlaces DEF Gs, Labels
  <2>3. On
    BY <1>4, <1>11 DEF On
  <2>4. Become(p, Script("quantum") \o <<"quit">>)
    BY <1>11, <2>1
  <2>q. QED BY <1>2, <1>3, <2>2, <2>3, <2>4, StartLoop
<1>12. CASE status = "PendingOff" /\ Become(p, <<"pop">> \o SemiCollectorOff \o <<y>>)
  <2>1. Script("off") = <<"pop">> \o SemiCollectorOff
    BY Scripts
  <2>2. Start("off", y) \in Places
    BY NewPlaces DEF Gs, Labels
  <2>3. On
    BY <1>12 DEF On
  <2>4. Become(p, Script("off") \o <<y>>)
    BY <1>12, <2>1
  <2>q. QED BY <1>2, <1>3, <1>12, <2>2, <2>3, <2>4, StartLoop
<1>q. QED BY <1>7, <1>8, <1>9, <1>10, <1>11, <1>12

LEMMA GenSwitchStep ==
  ASSUME NEW pl \in [Procs -> Places], Known(pl), NEW p \in Procs, GenSwitch(p)
  PROVE  Inv'
<1>0. Head(todo[p]) = pl[p].h
  BY PlacedFacts DEF Known
<1>1. pl[p].h \in {"switch", "poll", "full"} /\ collector = "gen"
  BY <1>0 DEF GenSwitch, Gen
<1>2. UNCHANGED otherVars
  BY DEF GenSwitch, otherVars, stackVars
<1>3. pl[p].g = "idle" /\ ~ log[p] /\ pl[p].h # "mutator"
  <2>1. pl[p].g = "idle"
    BY <1>1, OutPlaces DEF Conts
  <2>q. QED BY <1>1, <2>1, IdleFacts
<1>4. status \in {"PendingAgressive", "Agressive"} => agressive[type]
  BY DEF Known, Core, Phase
<1>6. PICK y \in Conts : y = IF pl[p].h = "poll" THEN "poll" ELSE "switch"
  BY DEF Conts
<1>5. PICK x \in Conts : x = IF agressive[type] THEN "retry" ELSE y
  BY DEF Conts
<1>7. \/ Become(p, <<"mutator">>)
      \/ /\ MayStart \/ status = "PendingAgressive" \/ (status = "PendingOn" /\ ~ agressive[type])
         /\ Become(p, GenCollectorOn \o <<x>>)
      \/ /\ status = "PendingOn" /\ agressive[type]
         /\ Become(p, GenCollectorTransition \o <<y>>)
      \/ status \in {"Agressive", "On"} /\ Become(p, Quantum)
      \/ status = "PendingOff" /\ Become(p, <<"pop">> \o GenCollectorOff \o <<y>>)
  <2>1. <<IF pl[p].h = "poll" THEN "poll" ELSE "switch">> = <<y>>
    BY <1>6
  <2>2. <<IF agressive[type] THEN "retry" ELSE <<y>>[1]>> = <<x>>
    BY <1>5
  <2>q. QED BY <1>0, <2>1, <2>2 DEF GenSwitch, Satisfied
<1>8. CASE Become(p, <<"mutator">>)
  BY <1>1, <1>2, <1>3, <1>8, IdleMove DEF Conts
<1>9. CASE /\ MayStart \/ status = "PendingAgressive" \/ (status = "PendingOn" /\ ~ agressive[type])
           /\ Become(p, GenCollectorOn \o <<x>>)
  <2>1. Script("genOn") = GenCollectorOn /\ "genOn" \in GenGs /\ "genOn" \notin SemiGs
    BY Scripts DEF GenGs, SemiGs
  <2>2. (status = "Off" /\ cycle < MaxCycles) \/ status = PendingOn(type)
    BY <1>4, <1>9 DEF MayStart, PendingOn
  <2>3. Become(p, Script("genOn") \o <<x>>)
    BY <1>9, <2>1
  <2>4. "genOn" \notin TransitionGs
    BY DEF TransitionGs
  <2>q. QED BY <1>1, <1>2, <1>3, <2>1, <2>2, <2>3, <2>4, Enter
<1>10. CASE /\ status = "PendingOn" /\ agressive[type]
            /\ Become(p, GenCollectorTransition \o <<y>>)
  <2>1. /\ Script("genTransition") = GenCollectorTransition
        /\ "genTransition" \in GenGs /\ "genTransition" \notin SemiGs
    BY Scripts DEF GenGs, SemiGs
  <2>3. Become(p, Script("genTransition") \o <<y>>)
    BY <1>10, <2>1
  <2>4. "genTransition" \notin OnGs
    BY DEF OnGs
  <2>q. QED BY <1>1, <1>2, <1>3, <1>10, <2>1, <2>3, <2>4, Enter
<1>11. CASE status \in {"Agressive", "On"} /\ Become(p, Quantum)
  <2>1. Script("quantum") \o <<"quit">> = Quantum
    BY Scripts, TwoSteps DEF Quantum, Labels, Loop
  <2>2. Start("quantum", "quit") \in Places
    BY NewPlaces DEF Gs, Labels
  <2>3. On
    BY <1>4, <1>11 DEF On
  <2>4. Become(p, Script("quantum") \o <<"quit">>)
    BY <1>11, <2>1
  <2>q. QED BY <1>2, <1>3, <2>2, <2>3, <2>4, StartLoop
<1>12. CASE status = "PendingOff" /\ Become(p, <<"pop">> \o GenCollectorOff \o <<y>>)
  <2>1. Script("off") = <<"pop">> \o GenCollectorOff
    BY Scripts DEF GenCollectorOff, SemiCollectorOff
  <2>2. Start("off", y) \in Places
    BY NewPlaces DEF Gs, Labels
  <2>3. On
    BY <1>12 DEF On
  <2>4. Become(p, Script("off") \o <<y>>)
    BY <1>12, <2>1
  <2>q. QED BY <1>2, <1>3, <1>12, <2>2, <2>3, <2>4, StartLoop
<1>q. QED BY <1>7, <1>8, <1>9, <1>10, <1>11, <1>12

----------------------------------------------------------------------------
(* Steps outside the functions that change the work.                       *)

LEMMA SamePhase ==
  ASSUME NEW pl, UNCHANGED <<collector, agressive, status, type>>
  PROVE  /\ \A q \in Procs, lg \in BOOLEAN : KeepsAt(pl[q], lg) => KeepsAt(pl[q], lg)'
         /\ \A q \in Procs : NextAt(pl[q]) => NextAt(pl[q])'
         /\ On' <=> On
<1>1. On' <=> On
  BY DEF On
<1>2. \A q \in Procs, lg \in BOOLEAN : KeepsAt(pl[q], lg) => KeepsAt(pl[q], lg)'
  BY <1>1 DEF KeepsAt
<1>3. \A q \in Procs : NextAt(pl[q]) => NextAt(pl[q])'
  BY <1>1 DEF NextAt
<1>q. QED BY <1>1, <1>2, <1>3

LEMMA OutStep ==
  ASSUME NEW pl \in [Procs -> Places], Known(pl), NEW p \in Procs, NEW b \in Places,
         Fits(b), ~ In(pl[p]), ~ In(b), b.g = "off" => status = "PendingOff",
         todo' = [todo EXCEPT ![p] = Steps(b)],
         UNCHANGED <<collector, agressive, status, type, cycle, arrived, isFirst,
                     unscanned, space, threadSpace>>,
         WorkKnown([pl EXCEPT ![p] = b])', ReplicasKnown([pl EXCEPT ![p] = b])'
  PROVE  Inv'
<1>1. Core([pl EXCEPT ![p] = b])'
  BY Outside DEF Known
<1>2. UNCHANGED optionVars
  BY DEF optionVars
<1>3. Placed([pl EXCEPT ![p] = b])' /\ [pl EXCEPT ![p] = b] \in [Procs -> Places]
  BY <1>2, PlacedStep DEF Known
<1>q. QED BY <1>1, <1>3, Conclude

(* A thread allocates or writes: p stays where it is.                      *)
LEMMA Stay ==
  ASSUME NEW pl \in [Procs -> Places], Known(pl), NEW p \in Procs, ~ In(pl[p]),
         UNCHANGED <<collector, agressive, status, type, cycle, todo, arrived, isFirst,
                     unscanned, space, threadSpace>>,
         WorkKnown(pl)', ReplicasKnown(pl)'
  PROVE  Inv'
<1>0. PICK b \in Places : b = pl[p]
  OBVIOUS
<1>1. [pl EXCEPT ![p] = b] = pl
  BY <1>0
<1>2. pl[p].g = "off" => status = "PendingOff"
  BY OutFacts DEF Known, Core, Phase, OffAt
<1>3. Core(pl)'
  <2>1. Core([pl EXCEPT ![p] = b])'
    BY <1>0, <1>2, Outside DEF Known
  <2>2. Core([pl EXCEPT ![p] = b])' <=> Core(pl)'
    BY <1>1
  <2>q. QED BY <2>1, <2>2
<1>4. Placed(pl)'
  BY DEF Known, Placed
<1>q. QED BY <1>3, <1>4, Conclude

LEMMA SemiRelease_Step ==
  ASSUME NEW pl \in [Procs -> Places], Known(pl), NEW p \in Procs, SemiRelease(p)
  PROVE  Inv'
<1>1. pl[p].h = "mutator" /\ collector = "semi"
  BY PlacedFacts DEF SemiRelease, Semi, Known
<1>2. pl[p].g = "idle"
  BY <1>1, OutPlaces DEF Conts
<1>3. /\ ~ hasShared[p] /\ ~ In(pl[p]) /\ localNext[p] = {}
      /\ local[p] # {} => log[p]
      /\ local[p] # {} => KeepsAt(pl[p], log[p])
  BY <1>1, <1>2, IdleFacts DEF Known, WorkKnown, WorkAt
<1>4. local[p] # {} => On
  BY <1>1, <1>2, <1>3 DEF KeepsAt, Working, Unshared, SemiGs, GenGs, On
<1>5. /\ log' = [log EXCEPT ![p] = FALSE]
      /\ local' = [local EXCEPT ![p] = IF On /\ log[p] THEN @ \cup {Gray(p)} ELSE @]
      /\ Become(p, IF On THEN <<"pushRelease", "switch">> ELSE <<"switch">>)
      /\ UNCHANGED <<collector, agressive, status, type, cycle, arrived, isFirst,
                     unscanned, shared, next, localNext, hasShared, numLocalStack,
                     space, threadSpace, writes, mirrorVars>>
  BY DEF SemiRelease, On, optionVars
<1>6. PICK b \in Places :
        /\ b.g = (IF On THEN "release" ELSE "idle") /\ b.i = 1
        /\ b.h = (IF On THEN "pushRelease" ELSE "switch") /\ b.x = "switch"
        /\ todo' = [todo EXCEPT ![p] = Steps(b)]
  <2>1. CASE On
    <3> DEFINE a == Start("release", "switch")
    <3>1. Script("release") \o <<"switch">> = <<"pushRelease", "switch">>
      BY Scripts, TwoSteps DEF Labels, Conts
    <3>2. /\ a \in Places /\ a.g = "release" /\ a.i = 1 /\ a.x = "switch"
          /\ a.h = "pushRelease"
      BY NewPlaces DEF Gs, Labels, Conts
    <3>0. "release" \in Gs \ {"idle"} /\ "switch" \in Labels
      BY DEF Gs, Labels, Conts
    <3>a. Become(p, <<"pushRelease", "switch">>)
      BY <1>5, <2>1
    <3>b. Become(p, Script("release") \o <<"switch">>)
      BY <3>a, <3>1
    <3>3. todo' = [todo EXCEPT ![p] = Steps(a)]
      BY <3>0, <3>b, Moves DEF Known
    <3> HIDE DEF a
    <3>q. QED BY <2>1, <3>2, <3>3
  <2>2. CASE ~ On
    <3> DEFINE a == Idle("switch")
    <3>2. a \in Places /\ a.g = "idle" /\ a.i = 1 /\ a.x = "switch" /\ a.h = "switch"
      BY NewPlaces DEF Conts
    <3>3. todo' = [todo EXCEPT ![p] = Steps(a)]
      BY <1>5, <2>2, Moves DEF Known, Labels, Conts
    <3> HIDE DEF a
    <3>q. QED BY <2>2, <3>2, <3>3
  <2>q. QED BY <2>1, <2>2
<1>7. Fits(b) /\ ~ In(b) /\ b.g # "off" /\ ~ Counted(b)
  BY <1>6, OutPlaces DEF Fits, SemiGs, GenGs
<1>8. /\ \A q \in Procs, lg \in BOOLEAN : KeepsAt(pl[q], lg) => KeepsAt(pl[q], lg)'
      /\ \A q \in Procs : NextAt(pl[q]) => NextAt(pl[q])'
      /\ On' <=> On
  BY <1>5, SamePhase
<1>9. /\ local = [q \in Procs |-> local[q]] /\ localNext = [q \in Procs |-> localNext[q]]
      /\ hasShared \in [Procs -> BOOLEAN] /\ log \in [Procs -> BOOLEAN]
  BY DEF Known, WorkKnown
<1>10. OnlyOf(p) /\ ~ log'[p] /\ ~ hasShared'[p] /\ localNext'[p] = {}
       /\ local'[p] = IF On /\ log[p] THEN local[p] \cup {Gray(p)} ELSE local[p]
  BY <1>3, <1>5, <1>9 DEF OnlyOf
<1>11. WorkKnown([pl EXCEPT ![p] = b])'
  <2>1. WorkAt(b, local[p], hasShared[p], log[p])'
    BY <1>3, <1>4, <1>6, <1>7, <1>10 DEF WorkAt, KeepsAt
  <2>2. BusyAt(b, local'[p])
    BY <1>6 DEF BusyAt
  <2>q. QED BY <1>8, <1>10, <2>1, <2>2, WorkStep DEF Known
<1>12. ReplicasKnown([pl EXCEPT ![p] = b])'
  <2>1. Fetched([pl EXCEPT ![p] = b])' <=> Fetched(pl)
    <3>1. (\E q \in Procs : [pl EXCEPT ![p] = b][q].g = "genOn" /\ [pl EXCEPT ![p] = b][q].i >= 8)
            <=> (\E q \in Procs : pl[q].g = "genOn" /\ pl[q].i >= 8)
      BY <1>2, <1>6
    <3>q. QED BY <1>8, <3>1 DEF Fetched
  <2>2. type = "Major" /\ next = {} /\ Names(shared, primary) /\ Names(local[p], primary)
    BY <1>1 DEF Known, Core, Phase, ReplicasKnown, BackNames
  <2>3. Names(local'[p], primary) /\ (HasBack(local[p], primary) => HasBack(local'[p], primary))
    BY <1>10, <2>2 DEF Names, HasBack, Gray
  <2>4. Names({}, Other(primary)) /\ Names({}, primary) /\ ~ HasBack({}, Other(primary))
    BY DEF Names, HasBack
  <2>5. b.h = "forward" <=> pl[p].h = "forward"
    BY <1>1, <1>6
  <2>6. collector = "gen" /\ b.g = "release" => On'
    BY <1>1
  <2>7. type = "Minor" => UNCHANGED log
    BY <2>2
  <2>8. localNext'[p] = {} /\ next' = {} /\ shared' = shared /\ localNext[p] = {} /\ next = {}
    BY <1>3, <1>5, <1>10, <2>2
  <2>9. /\ Names(shared', primary) /\ Names(localNext'[p], Other(primary))
        /\ Names(next', IF Fetched(pl) THEN Other(primary) ELSE primary)
    BY <2>2, <2>4, <2>8
  <2>10. UNCHANGED <<collector, type, writes, mirrorVars>> /\ (On => On')
    BY <1>5, <1>8
  <2>11. /\ (\/ HasBack(shared, primary) \/ HasBack(local[p], primary)
             \/ ~ Fetched(pl) /\ HasBack(next, primary))
              => \/ HasBack(shared', primary) \/ HasBack(local'[p], primary)
                 \/ ~ Fetched(pl) /\ HasBack(next', primary)
         /\ (\/ HasBack(localNext[p], Other(primary))
             \/ Fetched(pl) /\ HasBack(next, Other(primary)))
              => \/ HasBack(localNext'[p], Other(primary))
                 \/ Fetched(pl) /\ HasBack(next', Other(primary))
    BY <2>3, <2>8
  <2>q. QED BY <1>8, <1>10, <2>1, <2>3, <2>5, <2>6, <2>7, <2>8, <2>9, <2>10, <2>11,
               ReplicasStep DEF Known
<1>q. QED BY <1>3, <1>5, <1>6, <1>7, <1>11, <1>12, OutStep

(* Another write: what has its type before has it after.                   *)
LEMMA MoreWrites ==
  ASSUME ReplicaTypes, writes < MaxWrites, writes' = writes + 1
  PROVE  /\ writes' \in 0 .. MaxWrites
         /\ [id : 0 .. writes, gen : Nat] \subseteq [id : 0 .. writes', gen : Nat]
         /\ mirror \in [{0, 1} -> [id : 0 .. writes', gen : Nat]]
         /\ held \in [Procs -> [at : {0, 1}, ptr : [id : 0 .. writes', gen : Nat]]]
<1>1. writes' \in 0 .. MaxWrites /\ 0 .. writes \subseteq 0 .. writes'
  BY ConcurrentAssumption DEF ReplicaTypes
<1>2. [id : 0 .. writes, gen : Nat] \subseteq [id : 0 .. writes', gen : Nat]
  BY <1>1
<1>3. mirror \in [{0, 1} -> [id : 0 .. writes', gen : Nat]]
  BY <1>2 DEF ReplicaTypes
<1> DEFINE A == [id : 0 .. writes, gen : Nat]
           B == [id : 0 .. writes', gen : Nat]
<1>4. held \in [Procs -> [at : {0, 1}, ptr : A]] /\ A \subseteq B
  BY <1>2 DEF ReplicaTypes
<1> HIDE DEF A, B
<1>5. [at : {0, 1}, ptr : A] \subseteq [at : {0, 1}, ptr : B]
  BY <1>4
<1>6. held \in [Procs -> [at : {0, 1}, ptr : B]]
  BY <1>4, <1>5
<1>q. QED BY <1>1, <1>2, <1>3, <1>6 DEF B

(* A mutator of the semispace collector allocates or writes.               *)
LEMMA SemiMutateStep ==
  ASSUME NEW pl \in [Procs -> Places], Known(pl), NEW p \in Procs,
         SemiMutate(p) \/ SemiAllocBig(p)
  PROVE  Inv'
<1>1. pl[p].h = "mutator" /\ collector = "semi"
  BY PlacedFacts DEF SemiMutate, SemiAllocBig, Semi, Known
<1>2. pl[p].g = "idle"
  BY <1>1, OutPlaces DEF Conts
<1>3. ~ hasShared[p] /\ ~ In(pl[p]) /\ localNext[p] = {} /\ (local[p] # {} => log[p])
  BY <1>1, <1>2, IdleFacts
<1>4. /\ writes < MaxWrites /\ writes' = writes + 1 /\ log' = [log EXCEPT ![p] = TRUE]
      /\ \/ local' = local
         \/ /\ status \in {"On", "PendingOff"}
            /\ local' = [local EXCEPT ![p] = @ \cup {Gray(p)}]
      /\ UNCHANGED <<collector, agressive, status, type, cycle, todo, arrived, isFirst,
                     unscanned, shared, next, localNext, hasShared, numLocalStack,
                     space, threadSpace, mirrorVars>>
  <2>1. CASE SemiMutate(p)
    BY <2>1 DEF SemiMutate, optionVars, stackVars
  <2>2. CASE SemiAllocBig(p)
    <3>1. local' = [local EXCEPT ![p] = local[p]] => local' = local
      BY DEF Known, WorkKnown
    <3>q. QED BY <2>2, <3>1 DEF SemiAllocBig, optionVars, ShouldDoubleAllocate
  <2>q. QED BY <2>1, <2>2
<1>5. /\ local = [q \in Procs |-> local[q]] /\ localNext = [q \in Procs |-> localNext[q]]
      /\ hasShared \in [Procs -> BOOLEAN] /\ log \in [Procs -> BOOLEAN]
      /\ WorkAt(pl[p], local[p], hasShared[p], log[p])
  BY DEF Known, WorkKnown
<1>6. /\ OnlyOf(p) /\ log'[p] = TRUE /\ hasShared'[p] = hasShared[p]
      /\ \/ local'[p] = local[p]
         \/ status \in {"On", "PendingOff"} /\ local'[p] = local[p] \cup {Gray(p)}
  BY <1>4, <1>5 DEF OnlyOf
<1>7. /\ \A q \in Procs, lg \in BOOLEAN : KeepsAt(pl[q], lg) => KeepsAt(pl[q], lg)'
      /\ \A q \in Procs : NextAt(pl[q]) => NextAt(pl[q])'
      /\ On' <=> On
  BY <1>4, SamePhase
<1>8. PICK b \in Places : b = pl[p]
  OBVIOUS
<1>9. WorkKnown(pl)'
  <2>1. local'[p] # {} => KeepsAt(b, TRUE)'
    <3>1. local[p] # {} => KeepsAt(b, TRUE)
      BY <1>3, <1>5, <1>8 DEF WorkAt
    <3>2. status \in {"On", "PendingOff"} => KeepsAt(b, TRUE)
      BY <1>1, <1>2, <1>8 DEF KeepsAt
    <3>3. KeepsAt(b, TRUE) => KeepsAt(b, TRUE)'
      BY <1>7, <1>8
    <3>q. QED BY <1>6, <3>1, <3>2, <3>3
  <2>2. WorkAt(b, local[p], hasShared[p], log[p])'
    <3>1. ~ hasShared'[p] /\ ~ Counted(b)
      BY <1>3, <1>6, <1>8, OutPlaces
    <3>2. log'[p] => b.h = "mutator"
      BY <1>1, <1>8
    <3>3. KeepsAt(b, TRUE)' => KeepsAt(b, log[p])'
      BY <1>6 DEF KeepsAt
    <3>q. QED BY <2>1, <3>1, <3>2, <3>3 DEF WorkAt
  <2>3. BusyAt(b, local'[p])
    BY <1>1, <1>2, <1>8 DEF BusyAt
  <2>4. WorkKnown([pl EXCEPT ![p] = b])'
    BY <1>6, <1>7, <2>2, <2>3, WorkStep DEF Known
  <2>5. [pl EXCEPT ![p] = b] = pl
    BY <1>8
  <2>6. WorkKnown([pl EXCEPT ![p] = b])' <=> WorkKnown(pl)'
    BY <2>5
  <2>q. QED BY <2>4, <2>6
<1>10. ReplicasKnown(pl)'
  <2>1. type = "Major" /\ next = {}
    BY <1>1 DEF Known, Core, Phase, ReplicasKnown
  <2>2. \A q \in Procs : localNext[q] = {} /\ pl[q].h # "forward"
    BY <1>1 DEF Known, ReplicasKnown, Placed
  <2>3. ReplicaTypes'
    <3>1. ReplicaTypes
      BY DEF Known, ReplicasKnown
    <3>2. mirror' = mirror /\ held' = held /\ primary' = primary /\ epoch' = epoch
      BY <1>4 DEF mirrorVars
    <3>q. QED BY <1>4, <3>1, <3>2, MoreWrites DEF ReplicaTypes
  <2>4. BackNames(pl)'
    <3>1. \A q \in Procs : Names(local'[q], primary)
      BY <1>6 DEF OnlyOf, Known, ReplicasKnown, BackNames, Names, Gray
    <3>2. Names({}, Other(primary)) /\ Names({}, primary)
      BY DEF Names
    <3>3. /\ shared' = shared /\ next' = {} /\ primary' = primary
          /\ \A q \in Procs : localNext'[q] = {}
      BY <1>4, <2>1, <2>2 DEF mirrorVars
    <3>4. Names(shared, primary)
      BY DEF Known, ReplicasKnown, BackNames
    <3>q. QED BY <3>1, <3>2, <3>3, <3>4 DEF BackNames, Other
  <2>5. /\ mirror'[primary'].gen \in {0, epoch'} \/ SelfPointers
        /\ mirror'[primary'].gen = 0 \/ SelfPointers
    BY <1>4, <2>1 DEF mirrorVars, Known, ReplicasKnown
  <2>q. QED BY <1>1, <1>4, <2>1, <2>2, <2>3, <2>4, <2>5 DEF ReplicasKnown
<1>q. QED BY <1>3, <1>4, <1>9, <1>10, Stay

LEMMA GenRelease_Step ==
  ASSUME NEW pl \in [Procs -> Places], Known(pl), NEW p \in Procs, GenRelease(p)
  PROVE  Inv'
<1>1. pl[p].h = "mutator" /\ collector = "gen"
  BY PlacedFacts DEF GenRelease, Gen, Known
<1>2. pl[p].g = "idle" /\ ~ (pl[p].g = "genOn")
  BY <1>1, OutPlaces DEF Conts
<1>3. /\ ~ hasShared[p] /\ ~ In(pl[p])
      /\ local[p] # {} => ~ On
      /\ localNext[p] # {} => ~ On
  BY <1>1, <1>2, IdleFacts
<1>s. PICK skips \in Skips :
        LET recorded == log[p] /\ type = "Minor" /\ ~ skips IN
        /\ local' = [local EXCEPT ![p] = @
                       \cup (IF recorded THEN {Back(primary, writes)} ELSE {})
                       \cup (IF log[p] /\ GenOn THEN {Gray(p)} ELSE {})]
        /\ localNext' = [localNext EXCEPT ![p] = @ \cup
             (IF recorded THEN {Back(Other(primary), writes)} ELSE {})]
        /\ mirror' = IF recorded /\ GenOn
                       THEN [mirror EXCEPT ![Other(primary)] = Image(mirror[primary])]
                       ELSE mirror
  BY DEF GenRelease
<1>t. skips => SelfPointers
  BY <1>s DEF Skips
<1> DEFINE lg == log[p] /\ type = "Minor" /\ ~ skips
           back == IF lg THEN {Back(primary, writes)} ELSE {}
           back2 == IF lg THEN {Back(Other(primary), writes)} ELSE {}
           gray == IF log[p] /\ On THEN {Gray(p)} ELSE {}
<1>4. PICK to \in {"switch", "full"} :
        Become(p, IF On THEN <<"pushRelease", to>> ELSE <<to>>)
  BY DEF GenRelease, GenOn, On
<1>5. /\ log' = [log EXCEPT ![p] = FALSE]
      /\ local' = [local EXCEPT ![p] = @ \cup back \cup gray]
      /\ localNext' = [localNext EXCEPT ![p] = @ \cup back2]
      /\ mirror' = IF lg /\ On THEN [mirror EXCEPT ![Other(primary)] = Image(mirror[primary])]
                   ELSE mirror
      /\ UNCHANGED <<collector, agressive, status, type, cycle, arrived, isFirst,
                     unscanned, shared, next, hasShared, numLocalStack,
                     space, threadSpace, writes, primary, epoch, held>>
  BY <1>s DEF GenRelease, GenOn, On, optionVars
<1>6. PICK b \in Places :
        /\ b.g = (IF On THEN "release" ELSE "idle") /\ b.i = 1
        /\ b.h = (IF On THEN "pushRelease" ELSE to) /\ b.x = to
        /\ todo' = [todo EXCEPT ![p] = Steps(b)]
  <2>1. CASE On
    <3> DEFINE a == Start("release", to)
    <3>0. "release" \in Gs \ {"idle"} /\ to \in Labels /\ "pushRelease" \in Labels
      BY DEF Gs, Labels, Conts
    <3>1. Script("release") \o <<to>> = <<"pushRelease", to>>
      BY <3>0, Scripts, TwoSteps
    <3>2. /\ a \in Places /\ a.g = "release" /\ a.i = 1 /\ a.x = to
          /\ a.h = "pushRelease"
      BY <3>0, NewPlaces
    <3>a. Become(p, <<"pushRelease", to>>)
      BY <1>4, <2>1
    <3>b. Become(p, Script("release") \o <<to>>)
      BY <3>a, <3>1
    <3>3. todo' = [todo EXCEPT ![p] = Steps(a)]
      BY <3>0, <3>b, Moves DEF Known
    <3> HIDE DEF a
    <3>q. QED BY <2>1, <3>2, <3>3
  <2>2. CASE ~ On
    <3> DEFINE a == Idle(to)
    <3>2. a \in Places /\ a.g = "idle" /\ a.i = 1 /\ a.x = to /\ a.h = to
      BY NewPlaces DEF Conts
    <3>a. Become(p, <<to>>) /\ to \in Labels
      BY <1>4, <2>2 DEF Labels, Conts
    <3>3. todo' = [todo EXCEPT ![p] = Steps(a)]
      BY <3>a, Moves DEF Known
    <3> HIDE DEF a
    <3>q. QED BY <2>2, <3>2, <3>3
  <2>q. QED BY <2>1, <2>2
<1>7. Fits(b) /\ ~ In(b) /\ b.g # "off" /\ ~ Counted(b)
  BY <1>1, <1>6, OutPlaces DEF Fits, SemiGs, GenGs
<1>8. /\ \A q \in Procs, l \in BOOLEAN : KeepsAt(pl[q], l) => KeepsAt(pl[q], l)'
      /\ \A q \in Procs : NextAt(pl[q]) => NextAt(pl[q])'
      /\ On' <=> On
  BY <1>5, SamePhase
<1>9. /\ local = [q \in Procs |-> local[q]] /\ localNext = [q \in Procs |-> localNext[q]]
      /\ hasShared \in [Procs -> BOOLEAN] /\ log \in [Procs -> BOOLEAN]
  BY DEF Known, WorkKnown
<1>10. /\ local' = [q \in Procs |-> local'[q]] /\ localNext' = [q \in Procs |-> localNext'[q]]
       /\ \A q \in Procs : q # p => local'[q] = local[q] /\ localNext'[q] = localNext[q]
       /\ local'[p] = local[p] \cup back \cup gray
       /\ localNext'[p] = localNext[p] \cup back2
  BY <1>5, <1>9
<1>11. /\ OnlyOf(p) /\ ~ log'[p] /\ ~ hasShared'[p]
  BY <1>3, <1>5, <1>9, <1>10 DEF OnlyOf
<1>12. NextAt(b)'
  BY <1>6, <1>8 DEF NextAt
<1>13. WorkKnown([pl EXCEPT ![p] = b])'
  <2>1. KeepsAt(b, log[p])'
    BY <1>1, <1>5, <1>6, <1>8 DEF KeepsAt
  <2>2. WorkAt(b, local[p], hasShared[p], log[p])'
    BY <1>7, <1>11, <2>1 DEF WorkAt
  <2>3. BusyAt(b, local'[p])
    BY <1>6 DEF BusyAt
  <2>q. QED BY <1>8, <1>11, <2>2, <2>3, WorkStep DEF Known
<1>n. PICK npl \in [Procs -> Places] : npl = [pl EXCEPT ![p] = b]
  OBVIOUS
<1>14. npl[p] = b /\ \A q \in Procs : q # p => npl[q] = pl[q]
  BY <1>n
<1>15. Fetched(npl)' <=> Fetched(pl)
  <2>1. (\E q \in Procs : npl[q].g = "genOn" /\ npl[q].i >= 8)
          <=> (\E q \in Procs : pl[q].g = "genOn" /\ pl[q].i >= 8)
    BY <1>2, <1>6, <1>14
  <2>q. QED BY <1>8, <2>1 DEF Fetched
<1>16. ReplicaTypes /\ BackNames(pl)
  BY DEF Known, ReplicasKnown
<1>17. /\ mirror' \in [{0, 1} -> [id : 0 .. writes, gen : Nat]]
       /\ mirror'[primary] = mirror[primary]
       /\ mirror'[Other(primary)] = mirror[Other(primary)] \/ mirror'[Other(primary)].gen = 0
  <2>1. /\ primary \in {0, 1} /\ Other(primary) \in {0, 1} /\ Other(primary) # primary
        /\ mirror \in [{0, 1} -> [id : 0 .. writes, gen : Nat]]
    BY <1>16 DEF ReplicaTypes, Other
  <2>2. mirror[primary].id \in 0 .. writes
    BY <2>1
  <2>3. /\ Image(mirror[primary]) \in [id : 0 .. writes, gen : Nat]
        /\ Image(mirror[primary]).gen = 0
    BY <2>2 DEF Image, Pointer
  <2> HIDE DEF lg
  <2>q. QED BY <1>5, <2>1, <2>3
<1>18. ReplicaTypes'
  BY <1>5, <1>16, <1>17 DEF ReplicaTypes
<1>19. BackNames(npl)'
  <2>1. Names(local'[p], primary) /\ Names(localNext'[p], Other(primary))
    BY <1>10, <1>16 DEF BackNames, Names, Back, Gray
  <2>2. \A q \in Procs : Names(local'[q], primary) /\ Names(localNext'[q], Other(primary))
    BY <1>10, <1>16, <2>1 DEF BackNames
  <2>q. QED BY <1>5, <1>15, <1>16, <2>2 DEF BackNames, Other
<1>20. type = "Minor" => (Due(pl) => Due(npl)')
  <2>1. \A q \in Procs : HasBack(local[q], primary) => HasBack(local'[q], primary)
    BY <1>10 DEF HasBack
  <2>2. (\E q \in Procs : pl[q].h = "forward") => \E q \in Procs : npl[q].h = "forward"
    BY <1>1, <1>14
  <2>3. Due(npl)' <=> \/ ~ Fetched(npl)' /\ HasBack(next', primary')
                      \/ HasBack(shared', primary')
                      \/ \E q \in Procs : HasBack(local'[q], primary')
                      \/ \E q \in Procs : npl[q].h = "forward"
                      \/ SelfPointers
    BY DEF Due
  <2>4. next' = next /\ shared' = shared /\ primary' = primary
    BY <1>5
  <2>q. QED BY <1>15, <2>1, <2>2, <2>3, <2>4 DEF Due
<1>21. type = "Minor" => (Deferred(pl) => Deferred(npl)')
  <2>1. \A q \in Procs : HasBack(localNext[q], Other(primary)) => HasBack(localNext'[q], Other(primary))
    BY <1>10 DEF HasBack
  <2>2. lg => HasBack(localNext'[p], Other(primary))
    <3> DEFINE w == Back(Other(primary), writes)
    <3>1. w.kind = "back" /\ w.at = Other(primary)
      BY DEF Back
    <3>2. lg => w \in localNext'[p]
      BY <1>10
    <3> HIDE DEF w, lg
    <3>q. QED BY <3>1, <3>2 DEF HasBack
  <2>3. Deferred(npl)' <=> \/ \E q \in Procs : log'[q]
                           \/ \E q \in Procs : HasBack(localNext'[q], Other(primary'))
                           \/ Fetched(npl)' /\ HasBack(next', Other(primary'))
                           \/ SelfPointers
    BY DEF Deferred, Other
  <2>4. next' = next /\ primary' = primary /\ \A q \in Procs : q # p => log'[q] = log[q]
    BY <1>5, <1>9
  <2>5. log[p] /\ type = "Minor" => lg \/ SelfPointers
    BY <1>t
  <2> HIDE DEF lg
  <2>q. QED BY <1>15, <2>1, <2>2, <2>3, <2>4, <2>5 DEF Deferred
<1>22. ReplicasKnown(npl)'
  <2>1. \A q \in Procs :
          /\ (collector = "gen" /\ npl[q].g = "release" => On)'
          /\ (localNext[q] # {} => collector = "gen" /\ NextAt(npl[q]))'
          /\ (npl[q].h = "forward" => held[q].at = Other(primary))'
    <3> SUFFICES ASSUME NEW q \in Procs
                 PROVE  /\ (collector = "gen" /\ npl[q].g = "release" => On)'
                        /\ (localNext[q] # {} => collector = "gen" /\ NextAt(npl[q]))'
                        /\ (npl[q].h = "forward" => held[q].at = Other(primary))'
      OBVIOUS
    <3>1. CASE q = p
      BY <1>1, <1>4, <1>5, <1>6, <1>8, <1>12, <1>14, <3>1
    <3>2. CASE q # p
      BY <1>5, <1>8, <1>10, <1>14, <3>2 DEF Known, ReplicasKnown, Other
    <3>q. QED BY <3>1, <3>2
  <2>2. /\ collector' = "gen" /\ type' = type /\ primary' = primary /\ epoch' = epoch
    BY <1>1, <1>5
  <2>3. /\ mirror[primary].gen \in {0, epoch} \/ SelfPointers
        /\ type = "Major" => mirror[primary].gen = 0 \/ SelfPointers
        /\ type = "Minor" /\ mirror[Other(primary)].gen # 0 => Due(pl)
        /\ type = "Minor" /\ mirror[primary].gen # 0 => Deferred(pl)
    BY DEF Known, ReplicasKnown
  <2>4. /\ mirror'[primary'].gen \in {0, epoch'} \/ SelfPointers
        /\ type' = "Major" => mirror'[primary'].gen = 0 \/ SelfPointers
        /\ type' = "Minor" /\ mirror'[Other(primary')].gen # 0 => Due(npl)'
        /\ type' = "Minor" /\ mirror'[primary'].gen # 0 => Deferred(npl)'
    BY <1>17, <1>20, <1>21, <2>2, <2>3
  <2>q. QED BY <1>18, <1>19, <2>1, <2>2, <2>4 DEF ReplicasKnown, Other
<1>23. ReplicasKnown([pl EXCEPT ![p] = b])'
  <2>1. ReplicasKnown([pl EXCEPT ![p] = b])' <=> ReplicasKnown(npl)'
    BY <1>n
  <2>q. QED BY <1>22, <2>1
<1>24. UNCHANGED <<collector, agressive, status, type, cycle, arrived, isFirst,
                   unscanned, space, threadSpace>>
  BY <1>5
<1>q. QED BY <1>3, <1>6, <1>7, <1>13, <1>23, <1>24, OutStep

LEMMA GenMutateStep ==
  ASSUME NEW pl \in [Procs -> Places], Known(pl), NEW p \in Procs, GenMutate(p)
  PROVE  Inv'
<1>1. pl[p].h = "mutator" /\ collector = "gen"
  BY PlacedFacts DEF GenMutate, Gen, Known
<1>2. pl[p].g = "idle"
  BY <1>1, OutPlaces DEF Conts
<1>3. ~ In(pl[p])
  BY <1>2, IdleFacts
<1>4. /\ writes < MaxWrites /\ writes' = writes + 1 /\ log' = [log EXCEPT ![p] = TRUE]
      /\ mirror' = [mirror EXCEPT ![primary] =
                      Pointer(writes + 1, IF type = "Minor" THEN epoch ELSE 0)]
      /\ UNCHANGED <<collector, agressive, status, type, cycle, todo, arrived, isFirst,
                     unscanned, shared, next, local, localNext, hasShared, numLocalStack,
                     space, threadSpace, primary, epoch, held>>
  BY DEF GenMutate, optionVars, stackVars
<1>5. /\ local = [q \in Procs |-> local[q]] /\ localNext = [q \in Procs |-> localNext[q]]
      /\ hasShared \in [Procs -> BOOLEAN] /\ log \in [Procs -> BOOLEAN]
      /\ WorkKnown(pl)
  BY DEF Known, WorkKnown
<1>6. /\ \A q \in Procs, lg \in BOOLEAN : KeepsAt(pl[q], lg) => KeepsAt(pl[q], lg)'
      /\ \A q \in Procs : NextAt(pl[q]) => NextAt(pl[q])'
      /\ On' <=> On
  BY <1>4, SamePhase
<1>7. log' \in [Procs -> BOOLEAN] /\ log'[p] /\ \A q \in Procs : q # p => log'[q] = log[q]
  BY <1>4, <1>5
<1>8. WorkKnown(pl)'
  <2>1. \A q \in Procs : WorkAt(pl[q], local[q], hasShared[q], log[q])'
    <3> SUFFICES ASSUME NEW q \in Procs
                 PROVE  WorkAt(pl[q], local[q], hasShared[q], log[q])'
      OBVIOUS
    <3>1. WorkAt(pl[q], local[q], hasShared[q], log[q])
      BY <1>5 DEF WorkKnown
    <3>2. log'[q] => pl[q].h = "mutator"
      BY <1>1, <1>7, <3>1 DEF WorkAt
    <3>3. KeepsAt(pl[q], log[q]) => KeepsAt(pl[q], log[q])'
      BY <1>1, <1>4, <1>6 DEF KeepsAt
    <3>q. QED BY <1>4, <3>1, <3>2, <3>3 DEF WorkAt
  <2>q. QED BY <1>4, <1>5, <1>7, <2>1 DEF WorkKnown
<1>9. ReplicaTypes /\ BackNames(pl) /\ primary \in {0, 1} /\ epoch \in Nat
  BY DEF Known, ReplicasKnown, ReplicaTypes
<1>10. /\ mirror' \in [{0, 1} -> [id : 0 .. writes', gen : Nat]]
       /\ mirror'[primary].gen = IF type = "Minor" THEN epoch ELSE 0
       /\ mirror'[Other(primary)] = mirror[Other(primary)]
  <2>1. mirror \in [{0, 1} -> [id : 0 .. writes', gen : Nat]] /\ writes' \in Nat
    BY <1>4, <1>9, MoreWrites
  <2> DEFINE v == Pointer(writes + 1, IF type = "Minor" THEN epoch ELSE 0)
  <2>2. v \in [id : 0 .. writes', gen : Nat] /\ v.gen = IF type = "Minor" THEN epoch ELSE 0
    BY <1>4, <1>9, <2>1 DEF Pointer, ReplicaTypes
  <2>3. Other(primary) \in {0, 1} /\ Other(primary) # primary
    BY <1>9 DEF Other
  <2> HIDE DEF v
  <2>4. mirror' = [mirror EXCEPT ![primary] = v]
    BY <1>4 DEF v
  <2>q. QED BY <1>9, <2>1, <2>2, <2>3, <2>4
<1>11. ReplicaTypes'
  BY <1>4, <1>9, <1>10, MoreWrites DEF ReplicaTypes
<1>12. Fetched(pl)' <=> Fetched(pl)
  BY <1>6 DEF Fetched
<1>13. BackNames(pl)'
  BY <1>4, <1>9, <1>12 DEF BackNames, Other
<1>14. (Due(pl) <=> Due(pl)') /\ Deferred(pl)'
  BY <1>4, <1>7, <1>12 DEF Due, Deferred, Other
<1>15. ReplicasKnown(pl)'
  <2>1. \A q \in Procs :
          /\ (collector = "gen" /\ pl[q].g = "release" => On)'
          /\ (localNext[q] # {} => collector = "gen" /\ NextAt(pl[q]))'
          /\ (pl[q].h = "forward" => held[q].at = Other(primary))'
    BY <1>4, <1>6 DEF Known, ReplicasKnown, Other
  <2>2. /\ (mirror[primary].gen \in {0, epoch} \/ SelfPointers)'
        /\ (type = "Major" => mirror[primary].gen = 0 \/ SelfPointers)'
        /\ type' = "Minor" /\ mirror'[Other(primary')].gen # 0 => Due(pl)'
    BY <1>4, <1>9, <1>10, <1>14 DEF Known, ReplicasKnown
  <2>q. QED BY <1>1, <1>4, <1>11, <1>13, <1>14, <2>1, <2>2 DEF ReplicasKnown, Other
<1>q. QED BY <1>3, <1>4, <1>8, <1>15, Stay

----------------------------------------------------------------------------
(* The loop of do_work.                                                    *)

LEMMA LoopFacts ==
  ASSUME NEW pl \in [Procs -> Places], Known(pl), NEW p \in Procs, pl[p].h \in Loop
  PROVE  /\ ~ In(pl[p]) /\ pl[p].i = 1 /\ pl[p].g \in {"quantum", "off"}
         /\ pl[p].g = "off" => status = "PendingOff"
         /\ pl[p].x \in Conts \cup {"quit"}
         /\ localNext[p] = {} /\ ~ log[p]
         /\ pl[p].h \notin Working => local[p] = {} /\ ~ hasShared[p]
         /\ pl[p].h = "check" /\ local[p] = {} => ~ hasShared[p]
         /\ hasShared[p] \in BOOLEAN /\ log[p] \in BOOLEAN
<1>1. /\ pl[p].i = 1 /\ pl[p].g \in {"quantum", "off"} /\ ~ In(pl[p])
      /\ pl[p].x \in Conts \cup {"quit"} /\ ~ Counted(pl[p]) /\ ~ Unshared(pl[p])
  BY OutPlaces DEF In, SemiGs, GenGs
<1>2. pl[p].g = "off" => status = "PendingOff"
  BY <1>1, OutFacts DEF Known, Core, Phase, OffAt
<1>3. localNext[p] = {}
  BY <1>1 DEF Known, ReplicasKnown, NextAt
<1>4. WorkAt(pl[p], local[p], hasShared[p], log[p]) /\ hasShared[p] \in BOOLEAN /\ log[p] \in BOOLEAN
  BY DEF Known, WorkKnown
<1>5. ~ log[p]
  BY <1>4 DEF WorkAt, Loop
<1>6. pl[p].h \notin Working => local[p] = {} /\ ~ hasShared[p]
  BY <1>1, <1>4 DEF WorkAt, KeepsAt
<1>7. pl[p].h = "check" /\ local[p] = {} => ~ hasShared[p]
  BY <1>4 DEF WorkAt
<1>q. QED BY <1>1, <1>2, <1>3, <1>4, <1>5, <1>6, <1>7

(* Another step of the loop.                                               *)
LEMMA LoopPlace ==
  ASSUME NEW pl \in [Procs -> Places], Known(pl), NEW p \in Procs, pl[p].h \in Loop,
         NEW h \in Loop, h = "forward" => collector = "gen"
  PROVE  LET b == With(pl[p], h) IN
         /\ b \in Places /\ b.h = h /\ b.i = 1 /\ b.g = pl[p].g /\ b.x = pl[p].x
         /\ Fits(b) /\ ~ In(b) /\ ~ Counted(b) /\ b.g # "release"
         /\ b.g = "off" => status = "PendingOff"
         /\ Goto(p, h) => todo' = [todo EXCEPT ![p] = Steps(b)]
<1> DEFINE b == With(pl[p], h)
<1>1. b \in Places /\ b.h = h /\ b.i = pl[p].i /\ b.g = pl[p].g /\ b.x = pl[p].x
  BY NewPlaces
<1>2. Goto(p, h) => todo' = [todo EXCEPT ![p] = Steps(b)]
  BY Moves DEF Known, Labels
<1> HIDE DEF b
<1>3. /\ pl[p].i = 1 /\ pl[p].g \in {"quantum", "off"}
      /\ pl[p].g = "off" => status = "PendingOff"
      /\ pl[p].x \in Conts \cup {"quit"}
  BY LoopFacts
<1>4. ~ In(b) /\ ~ Counted(b)
  BY <1>1, <1>3 DEF In, Counted, Unshared, SemiGs, GenGs
<1>5. Fits(b)
  BY <1>1, <1>3 DEF Fits, SemiGs, GenGs, Conts
<1>q. QED BY <1>1, <1>2, <1>3, <1>4, <1>5 DEF b

LEMMA LoopMove ==
  ASSUME NEW pl \in [Procs -> Places], Known(pl), NEW p \in Procs, pl[p].h \in Loop,
         NEW h \in Loop \ {"forward", "check"}, pl[p].h # "forward",
         Goto(p, h), UNCHANGED otherVars,
         pl[p].h \in Working => h \in Working
  PROVE  Inv'
<1>1. PICK b \in Places :
        /\ b.h = h /\ b.i = 1 /\ b.g = pl[p].g /\ b.x = pl[p].x
        /\ Fits(b) /\ ~ In(b) /\ ~ Counted(b) /\ b.g # "release"
        /\ b.g = "off" => status = "PendingOff"
        /\ todo' = [todo EXCEPT ![p] = Steps(b)]
  BY LoopPlace
<1>2. /\ ~ In(pl[p]) /\ localNext[p] = {} /\ ~ log[p]
      /\ pl[p].h \notin Working => local[p] = {} /\ ~ hasShared[p]
  BY LoopFacts
<1>3. WorkAt(b, local[p], hasShared[p], log[p])
  BY <1>1, <1>2 DEF WorkAt, KeepsAt
<1>4. BusyAt(b, local[p])
  BY <1>1 DEF BusyAt
<1>q. QED BY <1>1, <1>2, <1>3, <1>4, QuietOut

(* Out of the loop of a quantum.                                           *)
LEMMA Quit ==
  ASSUME NEW pl \in [Procs -> Places], Known(pl), NEW p \in Procs, pl[p].h \in Loop,
         pl[p].g = "quantum", Advance(p), UNCHANGED otherVars,
         local[p] = {}, ~ hasShared[p], pl[p].h # "forward"
  PROVE  Inv'
<1> DEFINE b == Idle("quit")
<1>1. b \in Places /\ b.g = "idle" /\ b.i = 1 /\ b.h = "quit" /\ b.x = "quit"
  BY NewPlaces
<1>2. After(pl[p]) = b
  BY OutPlaces DEF After, Size, SemiGs, GenGs
<1>3. todo' = [todo EXCEPT ![p] = Steps(b)]
  BY <1>2, Moves DEF Known
<1> HIDE DEF b
<1>4. ~ In(pl[p]) /\ localNext[p] = {} /\ ~ log[p]
  BY LoopFacts
<1>5. ~ In(b) /\ ~ Counted(b) /\ Fits(b) /\ b.g # "off" /\ b.g # "release"
  BY <1>1, OutPlaces DEF Fits, SemiGs, GenGs
<1>6. WorkAt(b, local[p], hasShared[p], log[p])
  BY <1>4, <1>5 DEF WorkAt
<1>7. BusyAt(b, local[p])
  BY <1>1 DEF BusyAt
<1>8. b.h = "forward" <=> pl[p].h = "forward"
  BY <1>1
<1>q. QED BY <1>1, <1>3, <1>4, <1>5, <1>6, <1>7, <1>8, QuietOut

LEMMA AgainStep ==
  ASSUME NEW pl \in [Procs -> Places], Known(pl), NEW p \in Procs, Again(p)
  PROVE  Inv'
<1>1. pl[p].h = "again" /\ pl[p].h \in Loop /\ pl[p].h \notin Working
  BY PlacedFacts DEF Again, Known, Loop, Working
<1>2. UNCHANGED otherVars
  BY DEF Again, otherVars, stackVars
<1>3. CASE Goto(p, "pop")
  BY <1>1, <1>2, <1>3, LoopMove DEF Loop
<1>4. CASE todo[p] = <<"again", "quit">> /\ Advance(p)
  <2>1. pl[p].g \in {"quantum", "off"} /\ local[p] = {} /\ ~ hasShared[p]
    BY <1>1, LoopFacts
  <2>2. pl[p].g # "off"
    <3> SUFFICES ASSUME pl[p].g = "off" PROVE FALSE
      OBVIOUS
    <3>1. PICK a \in Places : a = pl[p]
      OBVIOUS
    <3>2. todo[p] = Steps(a) /\ a.g = "off" /\ a.i = 1
      BY <1>1, <3>1, PlacedFacts, LoopFacts DEF Known
    <3>3. Tail(todo[p]) = Steps(After(a))
      BY <3>2, TailOfSteps
    <3>4. After(a) \in Places /\ After(a).h = Script("off")[1 + 1]
      BY <3>2, AfterPlace DEF After, Size, SemiGs, GenGs
    <3>5. Head(Steps(After(a))) = "signalOff"
      <4>1. Script("off")[1 + 1] = SemiCollectorOff[1] /\ SemiCollectorOff[1] = "signalOff"
        BY Scripts DEF SemiCollectorOff
      <4>2. Head(Steps(After(a))) = After(a).h
        BY <3>4, HeadOfSteps
      <4>q. QED BY <3>4, <4>1, <4>2
    <3>6. Tail(<<"again", "quit">>) = <<"quit">> /\ Head(<<"quit">>) = "quit"
      OBVIOUS
    <3>q. QED BY <1>4, <3>3, <3>5, <3>6
  <2>q. QED BY <1>1, <1>2, <1>4, <2>1, <2>2, Quit
<1>q. QED BY <1>3, <1>4 DEF Again

LEMMA LeaveWork ==
  ASSUME NEW pl \in [Procs -> Places], Known(pl), NEW p \in Procs, Leave(p), At(p, "leaveWork")
  PROVE  Inv'
<1>1. pl[p].h = "leaveWork" /\ pl[p].h \in Loop /\ pl[p].h \notin Working
  BY PlacedFacts DEF Known, Loop, Working
<1>2. UNCHANGED otherVars
  BY DEF Leave, otherVars
<1>3. Goto(p, "empty") \/ Goto(p, "again")
  BY DEF Leave, At
<1>4. CASE Goto(p, "empty")
  BY <1>1, <1>2, <1>4, LoopMove DEF Loop
<1>5. CASE Goto(p, "again")
  BY <1>1, <1>2, <1>5, LoopMove DEF Loop
<1>q. QED BY <1>3, <1>4, <1>5

(* A processor whose work has ended joins CollectorOff.                    *)
LEMMA JoinOff ==
  ASSUME NEW pl \in [Procs -> Places], Known(pl), NEW p \in Procs, pl[p].h = "check",
         pl[p].g = "off", Advance(p), UNCHANGED otherVars, local[p] = {}
  PROVE  Inv'
<1> DEFINE b == After(pl[p])
           npl == [pl EXCEPT ![p] = b]
<1>1. /\ ~ In(pl[p]) /\ pl[p].i = 1 /\ status = "PendingOff" /\ localNext[p] = {}
      /\ ~ log[p] /\ ~ hasShared[p] /\ pl[p].x \in Conts
  BY LoopFacts, OutPlaces DEF Loop
<1>2. /\ b \in Places /\ b.g = "off" /\ b.i = 2 /\ b.x = pl[p].x
      /\ b.h = "signalOff"
  <2>1. b \in Places /\ b.g = "off" /\ b.i = 1 + 1 /\ b.x = pl[p].x
    BY <1>1, AfterPlace DEF Size, SemiGs, GenGs
  <2>2. b.h = Script("off")[1 + 1]
    BY <1>1 DEF After, Size, SemiGs, GenGs
  <2>q. QED BY <2>1, <2>2, Scripts DEF SemiCollectorOff
<1>3. todo' = [todo EXCEPT ![p] = Steps(b)]
  BY Moves DEF Known
<1> HIDE DEF b
<1>4. In(b) /\ Passed(b) = 0 /\ Level(b) = 0 /\ ~ LastStep(b)
  <2>1. In(b) /\ ~ LastStep(b)
    BY <1>2 DEF In, LastStep, GenGs
  <2>2. Passed(b) = 0
    BY <1>2 DEF Passed, SemiGs
  <2>q. QED BY <1>2, <2>1, <2>2 DEF Level
<1>5. npl \in [Procs -> Places] /\ npl[p] = b /\ \A q \in Procs : q # p => npl[q] = pl[q]
  BY <1>2
<1>6. ~ SomeSet(pl) /\ ~ SomeFlipped(pl) /\ ~ Completing_(pl)
  BY <1>1, OutFacts DEF Known, Core
<1>7. UNCHANGED <<collector, agressive, status, type, cycle, arrived, isFirst,
                  unscanned, space, threadSpace>>
  BY Unchanged DEF Known
<1>9. \A q \in Procs : pl[q].g \notin OnGs \cup TransitionGs
  BY <1>1, <1>6 DEF Known, Core, Phase, OnAt, TransitionAt, PendingOn
<1>8. \A q \in Procs : In(pl[q]) => pl[q].g = "off"
  BY <1>9 DEF In, OnGs, TransitionGs, SemiGs, GenGs
<1> HIDE DEF npl
<1>10. Together(npl)'
  <2>1. arrived \in [Procs -> Nat] /\ Level(pl[p]) = 0
    BY <1>1, LevelRange DEF Known, Core, Together
  <2>2. arrived' = [arrived EXCEPT ![p] = @ + (Level(b) - Level(pl[p]))]
    BY <1>4, <1>7, <2>1
  <2>3. /\ Level(b) >= Level(pl[p])
        /\ In(b) => \A q \in Procs : q # p /\ In(pl[q]) => pl[q].g = b.g
        /\ Passed(b) >= 2 => \A q \in Procs : q # p => Level(pl[q]) >= Passed(b)
        /\ ~ (LastStep(b) /\ b.h = "wait") /\ Together(pl) /\ b \in Places
    BY <1>2, <1>4, <1>8, <2>1 DEF Known, Core
  <2>q. QED BY <2>2, <2>3, TogetherStep DEF npl
<1>11. Phase(npl)'
  <2>1. \A q \in Procs : npl[q].g \notin OnGs \cup TransitionGs
    BY <1>2, <1>5, <1>9 DEF OnGs, TransitionGs
  <2>4. \A q \in Procs : npl[q].g = "off" => OffAt(SomeFlipped(npl))'
    BY <1>1, <1>7 DEF OffAt
  <2>5. \A q \in Procs : npl[q].g = "off" /\ npl[q].i = 9 /\ isFirst'[q] => status' = "Off"
    BY <1>2, <1>5, <1>7 DEF Known, Core, Phase
  <2>6. (status' # "Off" \/ \E q \in Procs : npl[q].g \in OnGs) => cycle' < MaxCycles
    BY <1>1, <1>7 DEF Known, Core, Phase
  <2>q. QED BY <1>7, <2>1, <2>4, <2>5, <2>6 DEF Known, Core, Phase
<1>12. OneFirst(npl)'
  <2>1. Passed(pl[p]) = 0
    BY <1>1, LevelRange
  <2>q. QED BY <1>4, <1>5, <1>7, <2>1 DEF Known, Core, OneFirst, PastWeak
<1>13. RootsKnown(npl)'
  <2>1. ~ Completing_(npl)
    BY <1>2, <1>5, <1>6 DEF Completing_
  <2>q. QED BY <1>2, <1>5, <1>6, <1>7, <2>1 DEF Known, Core, RootsKnown
<1>14. Core(npl)'
  BY <1>10, <1>11, <1>12, <1>13 DEF Core
<1>15. WorkKnown(npl)' /\ ReplicasKnown(npl)'
  <2>1. ~ Counted(b)
    BY <1>2 DEF Counted, Unshared, SemiGs, GenGs
  <2>2. WorkAt(b, local[p], hasShared[p], log[p])
    BY <1>1, <2>1 DEF WorkAt
  <2>3. ~ BusyAt(pl[p], local[p])
    BY DEF BusyAt
  <2>5. b.g = "genOn" /\ b.i >= 8 <=> pl[p].g = "genOn" /\ pl[p].i >= 8
    BY <1>2
  <2>6. (b.h = "forward" <=> pl[p].h = "forward") /\ (collector = "gen" /\ b.g = "release" => On)
    BY <1>2
  <2>q. QED BY <1>1, <1>2, <2>2, <2>3, <2>5, <2>6, MoveAlone DEF Known, npl
<1>16. Placed(npl)' /\ npl \in [Procs -> Places]
  <2>1. Fits(b)
    BY <1>1, <1>2 DEF Fits, SemiGs, GenGs, Conts
  <2>2. UNCHANGED optionVars
    BY <1>7 DEF optionVars
  <2>q. QED BY <1>2, <1>3, <2>1, <2>2, PlacedStep DEF Known, npl
<1>q. QED BY <1>14, <1>15, <1>16, Conclude

LEMMA CheckStep ==
  ASSUME NEW pl \in [Procs -> Places], Known(pl), NEW p \in Procs, Check(p)
  PROVE  Inv'
<1>1. pl[p].h = "check" /\ pl[p].h \in Loop
  BY PlacedFacts DEF Check, Known, Loop
<1>2. UNCHANGED otherVars
  BY DEF Check, otherVars, stackVars
<1>3. (local[p] = {} /\ Advance(p)) \/ Goto(p, "work")
  BY DEF Check
<1>4. CASE Goto(p, "work")
  BY <1>1, <1>2, <1>4, LoopMove DEF Loop, Working
<1>5. CASE local[p] = {} /\ Advance(p)
  <2>1. pl[p].g \in {"quantum", "off"} /\ ~ hasShared[p]
    BY <1>1, <1>5, LoopFacts
  <2>2. CASE pl[p].g = "quantum"
    BY <1>1, <1>2, <1>5, <2>1, <2>2, Quit
  <2>3. CASE pl[p].g = "off"
    BY <1>1, <1>2, <1>5, <2>3, JoinOff
  <2>q. QED BY <2>1, <2>2, <2>3
<1>q. QED BY <1>3, <1>4, <1>5

----------------------------------------------------------------------------
(* Work is taken, done and given back.                                     *)

LEMMA SameFetched ==
  ASSUME NEW pl \in [Procs -> Places], NEW p \in Procs, NEW b \in Places,
         pl[p].g # "genOn" \/ pl[p].i < 8, b.g # "genOn" \/ b.i < 8, On' <=> On
  PROVE  Fetched([pl EXCEPT ![p] = b])' <=> Fetched(pl)
<1> DEFINE npl == [pl EXCEPT ![p] = b]
<1>1. npl[p] = b /\ \A q \in Procs : q # p => npl[q] = pl[q]
  OBVIOUS
<1> HIDE DEF npl
<1>2. pl[p].i \in 1 .. 11 /\ b.i \in 1 .. 11
  BY PlaceFields
<1>3. (\E q \in Procs : npl[q].g = "genOn" /\ npl[q].i >= 8)
        <=> (\E q \in Procs : pl[q].g = "genOn" /\ pl[q].i >= 8)
  BY <1>1, <1>2
<1>q. QED BY <1>3 DEF Fetched, npl

(* What p has is typed, and what it keeps for the next collection, and     *)
(* what the stack has of it, names the copies as it should.                *)
LEMMA Stored ==
  ASSUME NEW pl \in [Procs -> Places], Known(pl)
  PROVE  /\ local = [q \in Procs |-> local[q]] /\ localNext = [q \in Procs |-> localNext[q]]
         /\ hasShared \in [Procs -> BOOLEAN] /\ log \in [Procs -> BOOLEAN]
         /\ \A q \in Procs : WorkAt(pl[q], local[q], hasShared[q], log[q])
         /\ Names(shared, primary) /\ collector \in {"semi", "gen"}
         /\ \A q \in Procs : Names(local[q], primary) /\ Names(localNext[q], Other(primary))
         /\ Names(next, IF Fetched(pl) THEN Other(primary) ELSE primary)
         /\ collector = "semi" => next = {} /\ type = "Major" /\ \A q \in Procs : localNext[q] = {}
BY DEF Known, Placed, WorkKnown, ReplicasKnown, BackNames, Core, Phase

LEMMA PopStep ==
  ASSUME NEW pl \in [Procs -> Places], Known(pl), NEW p \in Procs, Pop(p)
  PROVE  Inv'
<1>1. pl[p].h = "pop" /\ pl[p].h \in Loop /\ pl[p].h \notin Working
  BY PlacedFacts DEF Pop, Known, Loop, Working
<1>2. PICK some \in SUBSET shared :
        /\ shared # {} => some # {}
        /\ shared' = shared \ some
        /\ local' = [local EXCEPT ![p] = @ \cup some]
        /\ hasShared' = [hasShared EXCEPT ![p] = @ \/ some # {}]
        /\ numLocalStack' = IF some = {} THEN numLocalStack ELSE numLocalStack + 1
  BY DEF Pop
<1>3. /\ Goto(p, "check")
      /\ UNCHANGED <<collector, agressive, status, type, cycle, arrived, isFirst,
                     unscanned, next, localNext, space, threadSpace, log, writes,
                     mirrorVars>>
  BY DEF Pop, optionVars
<1>4. /\ ~ In(pl[p]) /\ pl[p].i = 1 /\ localNext[p] = {} /\ ~ log[p]
      /\ local[p] = {} /\ ~ hasShared[p]
  BY <1>1, LoopFacts
<1>5. PICK b \in Places :
        /\ b.h = "check" /\ b.i = 1 /\ b.g = pl[p].g /\ b.x = pl[p].x
        /\ Fits(b) /\ ~ In(b) /\ ~ Counted(b) /\ b.g # "release"
        /\ b.g = "off" => status = "PendingOff"
        /\ todo' = [todo EXCEPT ![p] = Steps(b)]
  BY <1>1, <1>3, LoopPlace DEF Loop
<1>6. /\ local = [q \in Procs |-> local[q]] /\ localNext = [q \in Procs |-> localNext[q]]
      /\ hasShared \in [Procs -> BOOLEAN] /\ log \in [Procs -> BOOLEAN]
      /\ Names(shared, primary)
      /\ Names(next, IF Fetched(pl) THEN Other(primary) ELSE primary)
      /\ collector = "semi" => next = {}
  BY Stored
<1>7. /\ local'[p] = some /\ hasShared'[p] = (some # {}) /\ localNext'[p] = {} /\ ~ log'[p]
      /\ OnlyOf(p)
  BY <1>2, <1>3, <1>4, <1>6 DEF OnlyOf
<1>8. /\ \A q \in Procs, l \in BOOLEAN : KeepsAt(pl[q], l) => KeepsAt(pl[q], l)'
      /\ \A q \in Procs : NextAt(pl[q]) => NextAt(pl[q])'
      /\ On' <=> On
  BY <1>3, SamePhase
<1>9. WorkKnown([pl EXCEPT ![p] = b])'
  <2>1. WorkAt(b, local[p], hasShared[p], log[p])'
    BY <1>5, <1>7 DEF WorkAt, KeepsAt, Working
  <2>2. shared' # {} => BusyAt(b, local'[p])
    BY <1>2, <1>5, <1>7 DEF BusyAt
  <2>q. QED BY <1>7, <1>8, <2>1, <2>2, WorkStep DEF Known
<1>10. ReplicasKnown([pl EXCEPT ![p] = b])'
  <2>1. Fetched([pl EXCEPT ![p] = b])' <=> Fetched(pl)
    <3>1. (pl[p].g # "genOn" \/ pl[p].i < 8) /\ (b.g # "genOn" \/ b.i < 8)
      BY <1>4, <1>5
    <3>2. On' <=> On
      BY <1>8
    <3>q. QED BY <3>1, <3>2, SameFetched
  <2>2. /\ Names(shared', primary) /\ Names(local'[p], primary)
        /\ Names(localNext'[p], Other(primary))
        /\ Names(next', IF Fetched(pl) THEN Other(primary) ELSE primary)
        /\ collector = "semi" => next' = {}
    BY <1>2, <1>3, <1>6, <1>7 DEF Names
  <2>3. HasBack(shared, primary) => HasBack(shared', primary) \/ HasBack(local'[p], primary)
    BY <1>2, <1>7 DEF HasBack
  <2>4. /\ next' = next /\ local[p] = {} /\ localNext[p] = {} /\ ~ HasBack({}, primary)
        /\ ~ HasBack({}, Other(primary))
    BY <1>3, <1>4 DEF HasBack
  <2>5. /\ type = "Minor" /\
             (\/ HasBack(shared, primary) \/ HasBack(local[p], primary)
              \/ ~ Fetched(pl) /\ HasBack(next, primary))
              => \/ HasBack(shared', primary) \/ HasBack(local'[p], primary)
                 \/ ~ Fetched(pl) /\ HasBack(next', primary)
        /\ type = "Minor" /\
             (\/ HasBack(localNext[p], Other(primary))
              \/ Fetched(pl) /\ HasBack(next, Other(primary)))
              => \/ HasBack(localNext'[p], Other(primary))
                 \/ Fetched(pl) /\ HasBack(next', Other(primary))
    BY <2>3, <2>4
  <2>6. /\ UNCHANGED <<collector, type, writes, mirrorVars>> /\ (type = "Minor" => UNCHANGED log)
        /\ (b.h = "forward" <=> pl[p].h = "forward") /\ localNext'[p] = {}
        /\ (On => On') /\ b.g # "release"
    BY <1>1, <1>3, <1>5, <1>7, <1>8
  <2>q. QED BY <1>7, <1>8, <2>1, <2>2, <2>5, <2>6, ReplicasStep DEF Known
<1>11. UNCHANGED <<collector, agressive, status, type, cycle, arrived, isFirst,
                   unscanned, space, threadSpace>>
  BY <1>3
<1>q. QED BY <1>4, <1>5, <1>9, <1>10, <1>11, OutStep

(* The work of p goes to the shared stack, and p to place b.               *)
LEMMA GivesAll ==
  ASSUME NEW pl \in [Procs -> Places], Known(pl), NEW p \in Procs, NEW b \in Places,
         MoveToShared(p), OnlyOf(p), ~ hasShared'[p],
         pl[p].g # "genOn" \/ pl[p].i < 8 \/ b.g = "genOn",
         b.g = "genOn" /\ b.i >= 8 <=> pl[p].g = "genOn" /\ pl[p].i >= 8,
         localNext[p] # {} => On \/ (pl[p].g = "genOn" /\ pl[p].i >= 8),
         ~ Counted(b), b.g # "release", b.g # "off" \/ b.i = 1, b.h # "check",
         log[p] => b.h = "mutator",
         b.h # "forward", pl[p].h # "forward",
         UNCHANGED <<collector, agressive, status, type, writes, mirrorVars, log>>
  PROVE  WorkKnown([pl EXCEPT ![p] = b])' /\ ReplicasKnown([pl EXCEPT ![p] = b])'
<1>1. /\ shared' = shared \cup local[p] /\ local'[p] = {}
      /\ next' = next \cup localNext[p] /\ localNext'[p] = {}
  BY DEF MoveToShared, OnlyOf
<1>2. /\ \A q \in Procs, l \in BOOLEAN : KeepsAt(pl[q], l) => KeepsAt(pl[q], l)'
      /\ \A q \in Procs : NextAt(pl[q]) => NextAt(pl[q])'
      /\ On' <=> On
  BY SamePhase
<1>3. WorkKnown([pl EXCEPT ![p] = b])'
  <2>1. WorkAt(b, local[p], hasShared[p], log[p])'
    BY <1>1 DEF WorkAt
  <2>2. BusyAt(b, local'[p])
    BY PlaceFields DEF BusyAt
  <2>q. QED BY <1>2, <2>1, <2>2, WorkStep DEF Known
<1>4. Fetched([pl EXCEPT ![p] = b])' <=> Fetched(pl)
  <2> DEFINE npl == [pl EXCEPT ![p] = b]
  <2>1. npl[p] = b /\ \A q \in Procs : q # p => npl[q] = pl[q]
    OBVIOUS
  <2> HIDE DEF npl
  <2>2. (\E q \in Procs : npl[q].g = "genOn" /\ npl[q].i >= 8)
          <=> (\E q \in Procs : pl[q].g = "genOn" /\ pl[q].i >= 8)
    BY <2>1
  <2>q. QED BY <1>2, <2>2 DEF Fetched, npl
<1>5. localNext[p] # {} => Fetched(pl)
  BY DEF Fetched
<1>6. /\ Names(shared, primary) /\ Names(local[p], primary) /\ Names(localNext[p], Other(primary))
      /\ Names(next, IF Fetched(pl) THEN Other(primary) ELSE primary)
      /\ collector = "semi" => next = {} /\ localNext[p] = {}
  BY Stored
<1>7. /\ Names(shared', primary) /\ Names(local'[p], primary)
      /\ Names(localNext'[p], Other(primary))
      /\ collector = "semi" => next' = {}
  BY <1>1, <1>6 DEF Names
<1>8. Names(next', IF Fetched(pl) THEN Other(primary) ELSE primary)
  BY <1>1, <1>5, <1>6 DEF Names
<1>9. /\ HasBack(shared, primary) \/ HasBack(local[p], primary) => HasBack(shared', primary)
      /\ HasBack(next, primary) => HasBack(next', primary)
      /\ HasBack(next, Other(primary)) \/ HasBack(localNext[p], Other(primary))
           => HasBack(next', Other(primary))
      /\ HasBack(localNext[p], Other(primary)) => Fetched(pl)
  BY <1>1, <1>5 DEF HasBack
<1>10. /\ type = "Minor" /\
             (\/ HasBack(shared, primary) \/ HasBack(local[p], primary)
              \/ ~ Fetched(pl) /\ HasBack(next, primary))
              => \/ HasBack(shared', primary) \/ HasBack(local'[p], primary)
                 \/ ~ Fetched(pl) /\ HasBack(next', primary)
       /\ type = "Minor" /\
             (\/ HasBack(localNext[p], Other(primary))
              \/ Fetched(pl) /\ HasBack(next, Other(primary)))
              => \/ HasBack(localNext'[p], Other(primary))
                 \/ Fetched(pl) /\ HasBack(next', Other(primary))
  BY <1>9
<1>11. /\ UNCHANGED <<collector, type, writes, mirrorVars>> /\ (type = "Minor" => UNCHANGED log)
       /\ (b.h = "forward" <=> pl[p].h = "forward") /\ localNext'[p] = {}
       /\ (On => On') /\ b.g # "release"
  BY <1>1, <1>2
<1>12. ReplicasKnown([pl EXCEPT ![p] = b])'
  BY <1>2, <1>4, <1>7, <1>8, <1>10, <1>11, ReplicasStep DEF Known
<1>q. QED BY <1>3, <1>12

(* The count after a push.                                                 *)
LEMMA Gives ==
  ASSUME NEW pl \in [Procs -> Places], Known(pl), NEW p \in Procs, NEW to, Push(p, to)
  PROVE  /\ MoveToShared(p) /\ OnlyOf(p) /\ ~ hasShared'[p] /\ Goto(p, to)
         /\ UNCHANGED <<collector, agressive, status, type, cycle, arrived, isFirst,
                        unscanned, space, threadSpace, log, writes, mirrorVars>>
<1>1. /\ MoveToShared(p) /\ hasShared' = [hasShared EXCEPT ![p] = FALSE] /\ Goto(p, to)
      /\ numLocalStack' = IF hasShared[p] THEN numLocalStack - 1 ELSE numLocalStack
      /\ UNCHANGED <<collector, agressive, status, type, cycle, arrived, isFirst,
                     unscanned, space, threadSpace, log, writes, mirrorVars>>
  BY DEF Push, optionVars
<1>2. /\ local = [q \in Procs |-> local[q]] /\ localNext = [q \in Procs |-> localNext[q]]
      /\ hasShared \in [Procs -> BOOLEAN] /\ log \in [Procs -> BOOLEAN]
  BY Stored
<1>3. OnlyOf(p) /\ ~ hasShared'[p]
  BY <1>1, <1>2 DEF OnlyOf, MoveToShared
<1>q. QED BY <1>1, <1>3

LEMMA PushWorkStep ==
  ASSUME NEW pl \in [Procs -> Places], Known(pl), NEW p \in Procs, PushWork(p)
  PROVE  Inv'
<1>1. pl[p].h \in {"work", "worked"} /\ pl[p].h \in Loop
  BY PlacedFacts DEF PushWork, Known, Loop
<1>2. /\ MoveToShared(p) /\ OnlyOf(p) /\ ~ hasShared'[p] /\ Goto(p, "leaveWork")
      /\ UNCHANGED <<collector, agressive, status, type, cycle, arrived, isFirst,
                     unscanned, space, threadSpace, log, writes, mirrorVars>>
  BY Gives DEF PushWork
<1>3. ~ In(pl[p]) /\ pl[p].i = 1 /\ localNext[p] = {} /\ ~ log[p]
  BY <1>1, LoopFacts
<1>4. PICK b \in Places :
        /\ b.h = "leaveWork" /\ b.i = 1 /\ b.g = pl[p].g /\ b.x = pl[p].x
        /\ Fits(b) /\ ~ In(b) /\ ~ Counted(b) /\ b.g # "release"
        /\ b.g = "off" => status = "PendingOff"
        /\ todo' = [todo EXCEPT ![p] = Steps(b)]
  BY <1>1, <1>2, LoopPlace DEF Loop
<1>5. WorkKnown([pl EXCEPT ![p] = b])' /\ ReplicasKnown([pl EXCEPT ![p] = b])'
  BY <1>1, <1>2, <1>3, <1>4, GivesAll
<1>q. QED BY <1>2, <1>3, <1>4, <1>5, OutStep

LEMMA ConditionalPushStep ==
  ASSUME NEW pl \in [Procs -> Places], Known(pl), NEW p \in Procs, ConditionalPush(p)
  PROVE  Inv'
<1>1. pl[p].h = "pushRelease"
  BY PlacedFacts DEF ConditionalPush, Known
<1>2. pl[p].g = "release" /\ pl[p].i = 1 /\ pl[p].x \in {"switch", "full"} /\ ~ In(pl[p])
  BY <1>1, OutPlaces
<1>3. /\ MoveToShared(p) /\ Advance(p)
      /\ UNCHANGED <<collector, agressive, status, type, cycle, arrived, isFirst,
                     unscanned, hasShared, numLocalStack, space, threadSpace, log,
                     writes, mirrorVars>>
  BY DEF ConditionalPush, optionVars
<1>4. /\ local = [q \in Procs |-> local[q]] /\ localNext = [q \in Procs |-> localNext[q]]
      /\ hasShared \in [Procs -> BOOLEAN] /\ log \in [Procs -> BOOLEAN]
      /\ WorkAt(pl[p], local[p], hasShared[p], log[p])
      /\ collector = "semi" => localNext[p] = {}
  BY Stored
<1>5. ~ hasShared[p] /\ ~ log[p]
  BY <1>1, <1>2, <1>4, OutPlaces DEF WorkAt, Working
<1>6. OnlyOf(p) /\ ~ hasShared'[p]
  BY <1>3, <1>4, <1>5 DEF OnlyOf, MoveToShared
<1> DEFINE b == Idle(pl[p].x)
<1>7. b \in Places /\ b.g = "idle" /\ b.i = 1 /\ b.h = pl[p].x /\ b.x = pl[p].x
  BY <1>2, NewPlaces DEF Conts
<1>8. After(pl[p]) = b
  BY <1>2 DEF After, Size, SemiGs, GenGs
<1>9. todo' = [todo EXCEPT ![p] = Steps(b)]
  BY <1>2, <1>3, <1>8, Moves DEF Known
<1> HIDE DEF b
<1>10. /\ ~ In(b) /\ ~ Counted(b) /\ b.g # "off" /\ b.g # "release" /\ b.h # "forward"
       /\ b.h # "check"
  BY <1>2, <1>7, OutPlaces
<1>11. Fits(b)
  BY <1>2, <1>7 DEF Fits, Known, Placed, SemiGs, GenGs
<1>12. localNext[p] # {} => On
  BY <1>2, <1>4 DEF Known, ReplicasKnown, Placed
<1>13. WorkKnown([pl EXCEPT ![p] = b])' /\ ReplicasKnown([pl EXCEPT ![p] = b])'
  BY <1>1, <1>2, <1>3, <1>5, <1>6, <1>7, <1>10, <1>12, GivesAll
<1>q. QED BY <1>2, <1>3, <1>7, <1>9, <1>10, <1>11, <1>13, OutStep

Drops(p, S) == local' = [local EXCEPT ![p] = @ \ S]

LEMMA WorkShrinks ==
  ASSUME NEW pl \in [Procs -> Places], Known(pl), NEW p \in Procs, NEW b \in Places,
         pl[p].h \in Loop \cap Working, b.h \in {"worked", "forward"}, ~ Counted(b),
         b.g # "off" \/ b.i = 1,
         NEW S, Drops(p, S),
         UNCHANGED <<collector, agressive, status, type, shared, localNext, hasShared,
                     numLocalStack, log>>
  PROVE  /\ OnlyOf(p) /\ WorkKnown([pl EXCEPT ![p] = b])'
         /\ local'[p] = local[p] \ S /\ localNext'[p] = {}
         /\ \A q \in Procs : NextAt(pl[q]) => NextAt(pl[q])'
         /\ On' <=> On
<1>1. localNext[p] = {} /\ ~ log[p]
  BY LoopFacts
<1>2. /\ local = [q \in Procs |-> local[q]] /\ localNext = [q \in Procs |-> localNext[q]]
      /\ hasShared \in [Procs -> BOOLEAN] /\ log \in [Procs -> BOOLEAN]
  BY Stored
<1>3. OnlyOf(p) /\ local'[p] = local[p] \ S /\ localNext'[p] = {} /\ ~ log'[p]
  BY <1>1, <1>2 DEF OnlyOf, Drops
<1>4. /\ \A q \in Procs, l \in BOOLEAN : KeepsAt(pl[q], l) => KeepsAt(pl[q], l)'
      /\ \A q \in Procs : NextAt(pl[q]) => NextAt(pl[q])'
      /\ On' <=> On
  BY SamePhase
<1>5. WorkAt(b, local[p], hasShared[p], log[p])'
  BY <1>3 DEF WorkAt, KeepsAt, Working
<1>6. BusyAt(b, local'[p])
  BY PlaceFields DEF BusyAt
<1>7. WorkKnown([pl EXCEPT ![p] = b])'
  BY <1>3, <1>4, <1>5, <1>6, WorkStep DEF Known
<1>q. QED BY <1>3, <1>4, <1>7

(* An item that brings no copy up to date.                                 *)
LEMMA PlainItem ==
  ASSUME NEW pl \in [Procs -> Places], Known(pl), NEW p \in Procs, NEW w,
         pl[p].h \in {"work", "worked"}, Goto(p, "worked"),
         w.kind # "back" \/ type = "Major",
         Drops(p, {w}),
         UNCHANGED <<collector, agressive, status, type, cycle, arrived, isFirst,
                     unscanned, shared, next, localNext, hasShared, numLocalStack,
                     space, threadSpace, log, writes, mirrorVars>>
  PROVE  Inv'
<1>1. pl[p].h \in Loop /\ pl[p].h \in Loop \cap Working
  BY DEF Loop, Working
<1>2. ~ In(pl[p]) /\ pl[p].i = 1 /\ localNext[p] = {}
  BY <1>1, LoopFacts
<1>3. PICK b \in Places :
        /\ b.h = "worked" /\ b.i = 1 /\ b.g = pl[p].g /\ b.x = pl[p].x
        /\ Fits(b) /\ ~ In(b) /\ ~ Counted(b) /\ b.g # "release"
        /\ b.g = "off" => status = "PendingOff"
        /\ todo' = [todo EXCEPT ![p] = Steps(b)]
  BY <1>1, LoopPlace DEF Loop
<1>4. PICK S : S = {w}
  OBVIOUS
<1>5. /\ OnlyOf(p) /\ WorkKnown([pl EXCEPT ![p] = b])'
      /\ local'[p] = local[p] \ S /\ localNext'[p] = {}
      /\ \A q \in Procs : NextAt(pl[q]) => NextAt(pl[q])'
      /\ On' <=> On
  <2>1. Drops(p, S)
    BY <1>4
  <2>q. QED BY <1>1, <1>3, <2>1, WorkShrinks
<1>6. ReplicasKnown([pl EXCEPT ![p] = b])'
  <2>1. Fetched([pl EXCEPT ![p] = b])' <=> Fetched(pl)
    <3>1. (pl[p].g # "genOn" \/ pl[p].i < 8) /\ (b.g # "genOn" \/ b.i < 8)
      BY <1>2, <1>3
    <3>2. On' <=> On
      BY <1>5
    <3>q. QED BY <3>1, <3>2, SameFetched
  <2>2. /\ Names(shared, primary) /\ Names(local[p], primary)
        /\ Names(next, IF Fetched(pl) THEN Other(primary) ELSE primary)
        /\ collector = "semi" => next = {}
    BY Stored
  <2>3. /\ Names(shared', primary) /\ Names(local'[p], primary)
        /\ Names(localNext'[p], Other(primary))
        /\ Names(next', IF Fetched(pl) THEN Other(primary) ELSE primary)
        /\ collector = "semi" => next' = {}
    BY <1>5, <2>2 DEF Names
  <2>4. type = "Minor" /\ HasBack(local[p], primary) => HasBack(local'[p], primary)
    BY <1>4, <1>5 DEF HasBack
  <2>5. shared' = shared /\ next' = next /\ localNext'[p] = {} /\ localNext[p] = {}
    BY <1>2, <1>5
  <2>6. /\ type = "Minor" /\
             (\/ HasBack(shared, primary) \/ HasBack(local[p], primary)
              \/ ~ Fetched(pl) /\ HasBack(next, primary))
              => \/ HasBack(shared', primary) \/ HasBack(local'[p], primary)
                 \/ ~ Fetched(pl) /\ HasBack(next', primary)
        /\ type = "Minor" /\
             (\/ HasBack(localNext[p], Other(primary))
              \/ Fetched(pl) /\ HasBack(next, Other(primary)))
              => \/ HasBack(localNext'[p], Other(primary))
                 \/ Fetched(pl) /\ HasBack(next', Other(primary))
    BY <2>4, <2>5
  <2>7. /\ UNCHANGED <<collector, type, writes, mirrorVars>> /\ (type = "Minor" => UNCHANGED log)
        /\ (b.h = "forward" <=> pl[p].h = "forward")
        /\ (On => On') /\ b.g # "release"
    BY <1>3, <1>5
  <2>q. QED BY <1>5, <2>1, <2>3, <2>5, <2>6, <2>7, ReplicasStep DEF Known
<1>q. QED BY <1>2, <1>3, <1>5, <1>6, OutStep

LEMMA SemiWorkStep ==
  ASSUME NEW pl \in [Procs -> Places], Known(pl), NEW p \in Procs, NEW w, SemiWork(p, w)
  PROVE  Inv'
<1>1. pl[p].h \in {"work", "worked"} /\ collector = "semi"
  BY PlacedFacts DEF SemiWork, Semi, Known
<1>2. type = "Major"
  BY <1>1, Stored
<1>3. /\ Goto(p, "worked") /\ Drops(p, {w})
      /\ UNCHANGED <<collector, agressive, status, type, cycle, arrived, isFirst,
                     unscanned, shared, next, localNext, hasShared, numLocalStack,
                     space, threadSpace, log, writes, mirrorVars>>
  BY DEF SemiWork, optionVars, Drops
<1>4. pl[p].h \in {"work", "worked"} /\ (w.kind # "back" \/ type = "Major")
  BY <1>1, <1>2
<1>q. QED BY <1>3, <1>4, PlainItem

(* The copy that mutators do not see is written, by p, which is at place b *)
(* afterwards.                                                             *)
LEMMA OtherCopy ==
  ASSUME NEW pl \in [Procs -> Places], Known(pl), NEW p \in Procs, NEW b \in Places,
         OnlyOf(p), Fetched([pl EXCEPT ![p] = b])' <=> Fetched(pl), On' <=> On,
         \A q \in Procs : NextAt(pl[q]) => NextAt(pl[q])',
         UNCHANGED <<collector, type, writes, primary, epoch, shared, next, log>>,
         localNext[p] = {}, localNext'[p] = {}, local'[p] \subseteq local[p],
         b.g # "release",
         mirror' \in [{0, 1} -> [id : 0 .. writes, gen : Nat]],
         mirror'[primary] = mirror[primary],
         mirror'[Other(primary)].gen # 0 => b.h = "forward",
         held' \in [Procs -> [at : {0, 1}, ptr : [id : 0 .. writes, gen : Nat]]],
         \A q \in Procs : q # p => held'[q] = held[q],
         b.h = "forward" => held'[p].at = Other(primary)
  PROVE  ReplicasKnown([pl EXCEPT ![p] = b])'
<1> DEFINE npl == [pl EXCEPT ![p] = b]
<1>1. npl \in [Procs -> Places] /\ npl[p] = b /\ \A q \in Procs : q # p => npl[q] = pl[q]
  OBVIOUS
<1>f. Fetched(npl)' <=> Fetched(pl)
  OBVIOUS
<1> HIDE DEF npl
<1>2. ReplicasKnown(pl) /\ ReplicaTypes /\ BackNames(pl)
  BY DEF Known, ReplicasKnown
<1>3. ReplicaTypes'
  BY <1>2 DEF ReplicaTypes
<1>4. \A q \in Procs : q # p => local'[q] = local[q] /\ localNext'[q] = localNext[q]
  BY DEF OnlyOf
<1>5. BackNames(npl)'
  <2>1. \A q \in Procs : Names(local'[q], primary) /\ Names(localNext'[q], Other(primary))
    BY <1>2, <1>4 DEF BackNames, Names
  <2>q. QED BY <1>2, <1>f, <2>1 DEF BackNames, Other
<1>6. \A q \in Procs :
        /\ (collector = "gen" /\ npl[q].g = "release" => On)'
        /\ (localNext[q] # {} => collector = "gen" /\ NextAt(npl[q]))'
        /\ (npl[q].h = "forward" => held[q].at = Other(primary))'
  BY <1>1, <1>2, <1>4 DEF ReplicasKnown, Other
<1>7. b.h = "forward" => Due(npl)'
  BY <1>1 DEF Due
<1>8. Deferred(pl) => Deferred(npl)'
  <2>1. \A q \in Procs : HasBack(localNext[q], Other(primary)) => HasBack(localNext'[q], Other(primary))
    BY <1>4 DEF HasBack
  <2>2. Deferred(npl)' <=> \/ \E q \in Procs : log'[q]
                           \/ \E q \in Procs : HasBack(localNext'[q], Other(primary'))
                           \/ Fetched(npl)' /\ HasBack(next', Other(primary'))
                           \/ SelfPointers
    BY DEF Deferred, Other
  <2>q. QED BY <1>f, <2>1, <2>2 DEF Deferred
<1>9. /\ mirror'[primary'].gen \in {0, epoch'} \/ SelfPointers
      /\ type' = "Major" => mirror'[primary'].gen = 0 \/ SelfPointers
      /\ type' = "Minor" /\ mirror'[Other(primary')].gen # 0 => Due(npl)'
      /\ type' = "Minor" /\ mirror'[primary'].gen # 0 => Deferred(npl)'
      /\ collector' = "semi" => next' = {}
  BY <1>2, <1>7, <1>8 DEF ReplicasKnown
<1>q. QED BY <1>3, <1>5, <1>6, <1>9 DEF ReplicasKnown, npl, Other

(* A back location is brought up to date.                                  *)
LEMMA BackItem ==
  ASSUME NEW pl \in [Procs -> Places], Known(pl), NEW p \in Procs, NEW w \in local[p],
         pl[p].h \in {"work", "worked"}, collector = "gen",
         w.kind = "back", CopyBack(p, w),
         Drops(p, {w}),
         UNCHANGED <<collector, agressive, status, type, cycle, arrived, isFirst,
                     unscanned, shared, next, localNext, hasShared, numLocalStack,
                     space, threadSpace, log, writes, primary, epoch>>
  PROVE  Inv'
<1>1. pl[p].h \in Loop /\ pl[p].h \in Loop \cap Working
  BY DEF Loop, Working
<1>2. ~ In(pl[p]) /\ pl[p].i = 1 /\ localNext[p] = {}
  BY <1>1, LoopFacts
<1>3. w.at = primary
  BY Stored DEF Names
<1> DEFINE v == mirror[primary]
<1>4. /\ mirror' = [mirror EXCEPT ![Other(primary)] = v]
      /\ IF v.gen = 0 THEN held' = held /\ Goto(p, "worked")
         ELSE /\ held' = [held EXCEPT ![p] = [at |-> Other(primary), ptr |-> v]]
              /\ Goto(p, "forward")
  BY <1>3 DEF CopyBack
<1>5. ReplicaTypes
  BY DEF Known, ReplicasKnown
<1>6. /\ primary \in {0, 1} /\ Other(primary) \in {0, 1} /\ Other(primary) # primary
      /\ mirror \in [{0, 1} -> [id : 0 .. writes, gen : Nat]]
      /\ v \in [id : 0 .. writes, gen : Nat]
      /\ held \in [Procs -> [at : {0, 1}, ptr : [id : 0 .. writes, gen : Nat]]]
  BY <1>5 DEF ReplicaTypes, Other
<1> HIDE DEF v
<1>7. /\ mirror' \in [{0, 1} -> [id : 0 .. writes, gen : Nat]]
      /\ mirror'[primary] = mirror[primary] /\ mirror'[Other(primary)] = v
  BY <1>4, <1>6
<1>8. /\ held' \in [Procs -> [at : {0, 1}, ptr : [id : 0 .. writes, gen : Nat]]]
      /\ \A q \in Procs : q # p => held'[q] = held[q]
      /\ v.gen # 0 => held'[p].at = Other(primary)
  <2>1. PICK r \in [at : {0, 1}, ptr : [id : 0 .. writes, gen : Nat]] :
          r = [at |-> Other(primary), ptr |-> v]
    BY <1>6
  <2>2. r.at = Other(primary)
    BY <2>1
  <2>3. held' = held \/ held' = [held EXCEPT ![p] = r]
    BY <1>4, <2>1
  <2>4. v.gen # 0 => held' = [held EXCEPT ![p] = r]
    BY <1>4, <2>1
  <2> HIDE DEF v
  <2>q. QED BY <1>6, <2>2, <2>3, <2>4
<1>9. PICK h \in {"worked", "forward"} :
        Goto(p, h) /\ (v.gen # 0 <=> h = "forward")
  BY <1>4
<1>10. PICK b \in Places :
        /\ b.h = h /\ b.i = 1 /\ b.g = pl[p].g /\ b.x = pl[p].x
        /\ Fits(b) /\ ~ In(b) /\ ~ Counted(b) /\ b.g # "release"
        /\ b.g = "off" => status = "PendingOff"
        /\ todo' = [todo EXCEPT ![p] = Steps(b)]
  BY <1>1, <1>9, LoopPlace DEF Loop
<1>11. PICK S : S = {w}
  OBVIOUS
<1>12. /\ OnlyOf(p) /\ WorkKnown([pl EXCEPT ![p] = b])'
       /\ local'[p] = local[p] \ S /\ localNext'[p] = {}
       /\ \A q \in Procs : NextAt(pl[q]) => NextAt(pl[q])'
       /\ On' <=> On
  <2>1. Drops(p, S)
    BY <1>11
  <2>2. b.h \in {"worked", "forward"} /\ (b.g # "off" \/ b.i = 1)
    BY <1>10
  <2>q. QED BY <1>1, <1>10, <2>1, <2>2, WorkShrinks
<1>13. ReplicasKnown([pl EXCEPT ![p] = b])'
  <2>1. Fetched([pl EXCEPT ![p] = b])' <=> Fetched(pl)
    <3>1. (pl[p].g # "genOn" \/ pl[p].i < 8) /\ (b.g # "genOn" \/ b.i < 8)
      BY <1>2, <1>10
    <3>2. On' <=> On
      BY <1>12
    <3>q. QED BY <3>1, <3>2, SameFetched
  <2>2. /\ mirror'[Other(primary)].gen # 0 => b.h = "forward"
        /\ b.h = "forward" => held'[p].at = Other(primary)
        /\ local'[p] \subseteq local[p]
    BY <1>7, <1>8, <1>9, <1>10, <1>12
  <2>q. QED BY <1>2, <1>7, <1>8, <1>10, <1>12, <2>1, <2>2, OtherCopy
<1>q. QED BY <1>2, <1>10, <1>12, <1>13, OutStep

LEMMA GenWorkStep ==
  ASSUME NEW pl \in [Procs -> Places], Known(pl), NEW p \in Procs, NEW w \in local[p],
         GenWork(p, w)
  PROVE  Inv'
<1>1. pl[p].h \in {"work", "worked"} /\ collector = "gen"
  BY PlacedFacts DEF GenWork, Gen, Known
<1>2. /\ Drops(p, {w})
      /\ UNCHANGED <<collector, agressive, status, type, cycle, arrived, isFirst,
                     unscanned, shared, next, localNext, hasShared, numLocalStack,
                     space, threadSpace, log, writes, primary, epoch>>
  BY DEF GenWork, optionVars, Drops
<1>3. CASE w.kind = "back" /\ type = "Minor"
  <2>1. CopyBack(p, w)
    BY <1>3 DEF GenWork
  <2>q. QED BY <1>1, <1>2, <1>3, <2>1, BackItem
<1>4. CASE ~ (w.kind = "back" /\ type = "Minor")
  <2>1. Goto(p, "worked") /\ UNCHANGED mirrorVars
    BY <1>2, <1>4 DEF GenWork, mirrorVars
  <2>2. w.kind # "back" \/ type = "Major"
    BY <1>4 DEF Known, Core, Phase, Types
  <2>q. QED BY <1>1, <1>2, <2>1, <2>2, PlainItem
<1>q. QED BY <1>3, <1>4

LEMMA ForwardBackStep ==
  ASSUME NEW pl \in [Procs -> Places], Known(pl), NEW p \in Procs, ForwardBack(p)
  PROVE  Inv'
<1>1. /\ pl[p].h = "forward" /\ collector = "gen"
      /\ pl[p].h \in Loop /\ pl[p].h \in Loop \cap Working
  BY PlacedFacts DEF ForwardBack, Gen, Known, Loop, Working
<1>2. ~ In(pl[p]) /\ pl[p].i = 1 /\ localNext[p] = {}
  BY <1>1, LoopFacts
<1>3. /\ Goto(p, "worked")
      /\ mirror' = [mirror EXCEPT ![held[p].at] = Image(held[p].ptr)]
      /\ UNCHANGED <<collector, agressive, status, type, cycle, arrived, isFirst,
                     unscanned, shared, next, local, localNext, hasShared, numLocalStack,
                     space, threadSpace, log, writes, primary, epoch, held>>
  BY DEF ForwardBack, optionVars, stackVars
<1>4. ReplicaTypes /\ held[p].at = Other(primary)
  BY <1>1 DEF Known, ReplicasKnown
<1>5. /\ primary \in {0, 1} /\ Other(primary) \in {0, 1} /\ Other(primary) # primary
      /\ mirror \in [{0, 1} -> [id : 0 .. writes, gen : Nat]]
      /\ held \in [Procs -> [at : {0, 1}, ptr : [id : 0 .. writes, gen : Nat]]]
  BY <1>4 DEF ReplicaTypes, Other
<1>6. PICK v \in [id : 0 .. writes, gen : Nat] : v = Image(held[p].ptr) /\ v.gen = 0
  <2>1. held[p].ptr.id \in 0 .. writes
    BY <1>5
  <2>2. /\ Image(held[p].ptr) \in [id : 0 .. writes, gen : Nat]
        /\ Image(held[p].ptr).gen = 0
    BY <2>1 DEF Image, Pointer
  <2>q. QED BY <2>2
<1>7. /\ mirror' \in [{0, 1} -> [id : 0 .. writes, gen : Nat]]
      /\ mirror'[primary] = mirror[primary] /\ mirror'[Other(primary)].gen = 0
  BY <1>3, <1>4, <1>5, <1>6
<1>8. PICK b \in Places :
        /\ b.h = "worked" /\ b.i = 1 /\ b.g = pl[p].g /\ b.x = pl[p].x
        /\ Fits(b) /\ ~ In(b) /\ ~ Counted(b) /\ b.g # "release"
        /\ b.g = "off" => status = "PendingOff"
        /\ todo' = [todo EXCEPT ![p] = Steps(b)]
  BY <1>1, <1>3, LoopPlace DEF Loop
<1>9. PICK S : S = {}
  OBVIOUS
<1>10. Drops(p, S)
  BY <1>3, <1>9, Stored DEF Drops
<1>12. /\ OnlyOf(p) /\ WorkKnown([pl EXCEPT ![p] = b])'
       /\ local'[p] = local[p] \ S /\ localNext'[p] = {}
       /\ \A q \in Procs : NextAt(pl[q]) => NextAt(pl[q])'
       /\ On' <=> On
  BY <1>1, <1>3, <1>8, <1>10, WorkShrinks
<1>13. ReplicasKnown([pl EXCEPT ![p] = b])'
  <2>1. Fetched([pl EXCEPT ![p] = b])' <=> Fetched(pl)
    <3>1. (pl[p].g # "genOn" \/ pl[p].i < 8) /\ (b.g # "genOn" \/ b.i < 8)
      BY <1>2, <1>8
    <3>2. On' <=> On
      BY <1>12
    <3>q. QED BY <3>1, <3>2, SameFetched
  <2>2. /\ mirror'[Other(primary)].gen # 0 => b.h = "forward"
        /\ b.h = "forward" => held'[p].at = Other(primary)
        /\ local'[p] \subseteq local[p]
        /\ held' \in [Procs -> [at : {0, 1}, ptr : [id : 0 .. writes, gen : Nat]]]
        /\ \A q \in Procs : q # p => held'[q] = held[q]
    BY <1>3, <1>5, <1>7, <1>8, <1>12
  <2>q. QED BY <1>2, <1>3, <1>7, <1>8, <1>12, <2>1, <2>2, OtherCopy
<1>q. QED BY <1>2, <1>3, <1>8, <1>12, <1>13, OutStep

----------------------------------------------------------------------------
(* A push has found the stack empty, and the next phase is pending.        *)
LEMMA EmptyStep ==
  ASSUME NEW pl \in [Procs -> Places], Known(pl), NEW p \in Procs, Empty(p)
  PROVE  Inv'
<1>1. pl[p].h = "empty" /\ pl[p].h \in Loop /\ pl[p].h \notin Working
  BY PlacedFacts DEF Empty, Known, Loop, Working
<1>2. /\ Goto(p, "again")
      /\ UNCHANGED <<optionVars, collector, agressive, type, cycle, arrived, isFirst,
                     unscanned, shared, next, local, localNext, hasShared, numLocalStack,
                     space, threadSpace, log, writes, mirrorVars>>
  BY DEF Empty, optionVars, stackVars
<1>3. CASE status' = status
  <2>1. UNCHANGED otherVars
    BY <1>2, <1>3 DEF otherVars
  <2>q. QED BY <1>1, <1>2, <2>1, LoopMove DEF Loop
<1>4. CASE /\ status \in {"Agressive", "On"}
           /\ status' = IF status = "On" THEN "PendingOff" ELSE "PendingOn"
  <2>1. PICK b \in Places :
          /\ b.h = "again" /\ b.i = 1 /\ b.g = pl[p].g /\ b.x = pl[p].x
          /\ Fits(b) /\ ~ In(b) /\ ~ Counted(b) /\ b.g # "release"
          /\ todo' = [todo EXCEPT ![p] = Steps(b)]
    BY <1>1, <1>2, LoopPlace DEF Loop
  <2>2. /\ ~ In(pl[p]) /\ pl[p].i = 1 /\ localNext[p] = {} /\ ~ log[p]
        /\ local[p] = {} /\ ~ hasShared[p] /\ pl[p].g \in {"quantum", "off"}
    BY <1>1, LoopFacts
  <2>3. ~ SomeSet(pl) /\ ~ SomeFlipped(pl) /\ ~ Completing_(pl)
    BY <2>2, OutFacts DEF Known, Core
  <2>4. \A q \in Procs : pl[q].g \notin OnGs \cup TransitionGs \cup {"off"}
    BY <1>4, <2>3 DEF Known, Core, Phase, OnAt, TransitionAt, OffAt, PendingOn
  <2>n. PICK npl \in [Procs -> Places] : npl = [pl EXCEPT ![p] = b]
    OBVIOUS
  <2>5. npl[p] = b /\ \A q \in Procs : q # p => npl[q] = pl[q]
    BY <2>n
  <2>6. \A q \in Procs : npl[q].g \notin OnGs \cup TransitionGs \cup {"off"}
    BY <2>1, <2>4, <2>5
  <2>7. Together(npl)'
    <3>1. arrived \in [Procs -> Nat] /\ Level(pl[p]) = 0 /\ Level(b) = 0 /\ Passed(b) = 0
      BY <2>1, <2>2, LevelRange DEF Known, Core, Together
    <3>2. arrived' = [arrived EXCEPT ![p] = @ + (Level(b) - Level(pl[p]))]
      BY <1>2, <3>1
    <3>3. /\ Level(b) >= Level(pl[p])
          /\ In(b) => \A q \in Procs : q # p /\ In(pl[q]) => pl[q].g = b.g
          /\ Passed(b) >= 2 => \A q \in Procs : q # p => Level(pl[q]) >= Passed(b)
          /\ ~ (LastStep(b) /\ b.h = "wait") /\ Together(pl)
      BY <2>1, <3>1 DEF Known, Core, LastStep
    <3>4. Together([pl EXCEPT ![p] = b])'
      BY <3>2, <3>3, TogetherStep
    <3>5. Together([pl EXCEPT ![p] = b])' <=> Together(npl)'
      BY <2>n
    <3>q. QED BY <3>4, <3>5
  <2>8. Phase(npl)'
    <3>1. /\ status \in States /\ type \in Types /\ cycle \in 0 .. MaxCycles
          /\ collector = "semi" => type = "Major"
          /\ status # "Off" => cycle < MaxCycles
      BY DEF Known, Core, Phase
    <3>2. status' \in States /\ status' \notin {"PendingAgressive", "Agressive"}
      BY <1>4 DEF States
    <3>3. cycle' < MaxCycles
      BY <1>2, <1>4, <3>1
    <3>q. QED BY <1>2, <2>6, <3>1, <3>2, <3>3 DEF Phase
  <2>9. OneFirst(npl)'
    <3>1. Passed(pl[p]) = 0 /\ Passed(b) = 0
      BY <2>1, <2>2, LevelRange
    <3>q. QED BY <1>2, <2>5, <3>1 DEF Known, Core, OneFirst, PastWeak
  <2>10. RootsKnown(npl)'
    <3>1. ~ Completing_(npl)
      BY <2>6 DEF Completing_
    <3>q. QED BY <1>2, <2>3, <2>6, <3>1 DEF Known, Core, RootsKnown
  <2>11. Core(npl)'
    BY <2>7, <2>8, <2>9, <2>10 DEF Core
  <2>12. Placed(npl)'
    <3>1. UNCHANGED optionVars
      BY <1>2
    <3>2. Placed([pl EXCEPT ![p] = b])'
      BY <2>1, <3>1, PlacedStep DEF Known
    <3>3. Placed([pl EXCEPT ![p] = b])' <=> Placed(npl)'
      BY <2>n
    <3>q. QED BY <3>2, <3>3
  <2>13. /\ On' <=> On
         /\ status \in {"On", "PendingOff"} <=> status' \in {"On", "PendingOff"}
    <3>1. status = "Agressive" => agressive[type]
      BY DEF Known, Core, Phase
    <3>2. On
      BY <1>4, <3>1 DEF On
    <3>3. On'
      BY <1>2, <1>4, <3>1 DEF On
    <3>q. QED BY <1>4, <3>2, <3>3
  <2>14. /\ \A q \in Procs, l \in BOOLEAN : KeepsAt(pl[q], l) => KeepsAt(pl[q], l)'
         /\ \A q \in Procs : NextAt(pl[q]) => NextAt(pl[q])'
    BY <1>2, <2>13 DEF KeepsAt, NextAt
  <2>15. OnlyOf(p) /\ local'[p] = {} /\ localNext'[p] = {} /\ ~ log'[p] /\ ~ hasShared'[p]
    BY <1>2, <2>2, Stored DEF OnlyOf
  <2>16. WorkKnown([pl EXCEPT ![p] = b])'
    <3>1. WorkAt(b, local[p], hasShared[p], log[p])'
      BY <2>1, <2>15 DEF WorkAt
    <3>2. BusyAt(b, local'[p])
      BY <2>1 DEF BusyAt
    <3>q. QED BY <2>14, <2>15, <3>1, <3>2, WorkStep DEF Known
  <2>17. ReplicasKnown([pl EXCEPT ![p] = b])'
    <3>1. Fetched([pl EXCEPT ![p] = b])' <=> Fetched(pl)
      <4>1. (pl[p].g # "genOn" \/ pl[p].i < 8) /\ (b.g # "genOn" \/ b.i < 8)
        BY <2>1, <2>2
      <4>2. On' <=> On
        BY <2>13
      <4>q. QED BY <4>1, <4>2, SameFetched
    <3>2. /\ Names(shared, primary)
          /\ Names(next, IF Fetched(pl) THEN Other(primary) ELSE primary)
          /\ collector = "semi" => next = {}
      BY Stored
    <3>3. /\ shared' = shared /\ next' = next /\ local'[p] = local[p]
          /\ localNext'[p] = localNext[p]
      BY <1>2
    <3>4. Names({}, primary) /\ Names({}, Other(primary))
      BY DEF Names
    <3>5. /\ Names(shared', primary) /\ Names(local'[p], primary)
          /\ Names(localNext'[p], Other(primary))
          /\ Names(next', IF Fetched(pl) THEN Other(primary) ELSE primary)
          /\ collector = "semi" => next' = {}
      BY <2>2, <3>2, <3>3, <3>4
    <3>6. /\ type = "Minor" /\
             (\/ HasBack(shared, primary) \/ HasBack(local[p], primary)
              \/ ~ Fetched(pl) /\ HasBack(next, primary))
              => \/ HasBack(shared', primary) \/ HasBack(local'[p], primary)
                 \/ ~ Fetched(pl) /\ HasBack(next', primary)
          /\ type = "Minor" /\
             (\/ HasBack(localNext[p], Other(primary))
              \/ Fetched(pl) /\ HasBack(next, Other(primary)))
              => \/ HasBack(localNext'[p], Other(primary))
                 \/ Fetched(pl) /\ HasBack(next', Other(primary))
      BY <3>3
    <3>7. /\ UNCHANGED <<collector, type, writes, mirrorVars>> /\ (type = "Minor" => UNCHANGED log)
          /\ (b.h = "forward" <=> pl[p].h = "forward")
          /\ (On => On') /\ b.g # "release"
      BY <1>1, <1>2, <2>1, <2>13
    <3>q. QED BY <2>14, <2>15, <3>1, <3>5, <3>6, <3>7, ReplicasStep DEF Known
  <2>18. WorkKnown(npl)' /\ ReplicasKnown(npl)'
    <3>1. WorkKnown([pl EXCEPT ![p] = b])' <=> WorkKnown(npl)'
      BY <2>n
    <3>2. ReplicasKnown([pl EXCEPT ![p] = b])' <=> ReplicasKnown(npl)'
      BY <2>n
    <3>q. QED BY <2>16, <2>17, <3>1, <3>2
  <2>q. QED BY <2>11, <2>12, <2>18, Conclude
<1>5. \/ status' = status
      \/ /\ status \in {"Agressive", "On"}
         /\ status' = IF status = "On" THEN "PendingOff" ELSE "PendingOn"
  <2>1. status' = CASE status = "Agressive" -> "PendingOn"
                 [] status = "On" -> "PendingOff"
                 [] OTHER -> status
    BY DEF Empty
  <2>2. CASE status = "Agressive"
    BY <2>1, <2>2
  <2>3. CASE status = "On"
    BY <2>1, <2>3
  <2>4. CASE status \notin {"Agressive", "On"}
    BY <2>1, <2>4
  <2>q. QED BY <2>2, <2>3, <2>4
<1>q. QED BY <1>3, <1>4, <1>5

----------------------------------------------------------------------------
(* The steps of the functions.                                             *)

LEMMA InPlaces ==
  ASSUME NEW a \in Places
  PROVE  /\ a.h = "signalOn" => a.g \in OnGs /\ a.i = 1 /\ In(a)
         /\ a.h = "signalTransition" => a.g \in TransitionGs /\ a.i = 1 /\ In(a)
         /\ a.h = "signalOff" => a.g = "off" /\ a.i = 2 /\ In(a)
         /\ a.h = "weak" => In(a) /\ a.i = IF a.g = "off" THEN 3 ELSE 2
         /\ a.h = "resetJob" => In(a) /\ a.i = IF a.g = "off" THEN 4 ELSE 3
         /\ a.h = "complete" => a.g = "off" /\ a.i = 6 /\ In(a)
         /\ a.h = "flip" => a.g = "off" /\ a.i = 8 /\ In(a)
         /\ a.h = "setOn" => a.g \in OnGs /\ In(a) /\ a.i = IF a.g = "semiOn" THEN 8 ELSE 10
         /\ a.h = "setTransition" => a.g \in TransitionGs /\ In(a)
                                     /\ a.i = IF a.g = "semiTransition" THEN 8 ELSE 10
         /\ a.h = "strong" => In(a)
         /\ a.h = "wait" => In(a) \/ a.g = "done"
<1>1. /\ a.g \in Gs /\ a.i \in 1 .. 11 /\ StepAt(a)
  BY PlaceFields
<1> DEFINE H == {"signalOn", "signalTransition", "signalOff", "weak", "resetJob",
                 "complete", "flip", "setOn", "setTransition", "strong", "wait"}
<1> SUFFICES ASSUME a.h \in H
             PROVE  /\ a.h = "signalOn" => a.g \in OnGs /\ a.i = 1 /\ In(a)
                    /\ a.h = "signalTransition" => a.g \in TransitionGs /\ a.i = 1 /\ In(a)
                    /\ a.h = "signalOff" => a.g = "off" /\ a.i = 2 /\ In(a)
                    /\ a.h = "weak" => In(a) /\ a.i = IF a.g = "off" THEN 3 ELSE 2
                    /\ a.h = "resetJob" => In(a) /\ a.i = IF a.g = "off" THEN 4 ELSE 3
                    /\ a.h = "complete" => a.g = "off" /\ a.i = 6 /\ In(a)
                    /\ a.h = "flip" => a.g = "off" /\ a.i = 8 /\ In(a)
                    /\ a.h = "setOn" => a.g \in OnGs /\ In(a)
                                        /\ a.i = IF a.g = "semiOn" THEN 8 ELSE 10
                    /\ a.h = "setTransition" => a.g \in TransitionGs /\ In(a)
                                     /\ a.i = IF a.g = "semiTransition" THEN 8 ELSE 10
                    /\ a.h = "strong" => In(a)
                    /\ a.h = "wait" => In(a) \/ a.g = "done"
  BY DEF H
<1>2. CASE a.g \in SemiGs
  <2>1. SemiStepAt(a) /\ In(a) /\ a.g \in {"semiOn", "semiTransition"}
    BY <1>1, <1>2 DEF StepAt, In, SemiGs
  <2>q. QED BY <2>1 DEF SemiStepAt, OnGs, TransitionGs, Barrier, Sharing
<1>3. CASE a.g = "genOn"
  <2>1. GenOnStepAt(a) /\ In(a)
    BY <1>1, <1>3 DEF StepAt, In, SemiGs, GenGs
  <2>q. QED BY <1>3, <2>1 DEF GenOnStepAt, OnGs, TransitionGs, Barrier, Sharing
<1>4. CASE a.g = "genTransition"
  <2>1. GenTransitionStepAt(a) /\ In(a)
    BY <1>1, <1>4 DEF StepAt, In, SemiGs, GenGs
  <2>q. QED BY <1>4, <2>1 DEF GenTransitionStepAt, OnGs, TransitionGs, Barrier, Sharing
<1>5. CASE a.g = "off"
  <2>1. OffStepAt(a) /\ (a.i >= 2 => In(a))
    BY <1>1, <1>5 DEF StepAt, In, SemiGs
  <2>q. QED BY <1>1, <1>5, <2>1 DEF OffStepAt, OnGs, TransitionGs, Barrier, Loop
<1>6. CASE a.g \in {"quantum", "release", "done", "idle"}
  BY <1>1, <1>6 DEF StepAt, IdleAt, Loop, Conts, SemiGs
<1>q. QED BY <1>1, <1>2, <1>3, <1>4, <1>5, <1>6 DEF Gs, GenGs

(* A processor in a function has nothing to do with the loop or with its   *)
(* thread, and at a barrier it has passed the weak one.                    *)
LEMMA InHeads ==
  ASSUME NEW a \in Places, In(a)
  PROVE  /\ a.h \notin Working \cup Conts \cup {"full", "quit", "pushRelease"}
         /\ a.g \in SemiGs \cup GenGs \cup {"off"} /\ a.x \in Conts
         /\ a.h \in Barrier => Passed(a) >= 1
         /\ a.h = "wait" <=> Level(a) = Passed(a) + 1
         /\ LastStep(a) => a.h \in Barrier
<1>1. /\ a.g \in Gs /\ a.i \in 1 .. 11 /\ StepAt(a)
      /\ a.g \in SemiGs \cup GenGs \cup {"off"}
  BY PlaceFields DEF In
<1>2. CASE a.g \in SemiGs
  <2>1. SemiStepAt(a) /\ a.x \in Conts /\ a.g \in {"semiOn", "semiTransition"}
    BY <1>1, <1>2 DEF StepAt, SemiGs
  <2>2. Passed(a) = IF a.i <= 2 THEN 0 ELSE IF a.i <= 5 THEN 1 ELSE 2
    BY <2>1 DEF Passed, SemiGs
  <2>3. LastStep(a) <=> a.i = 9
    BY <2>1 DEF LastStep, GenGs
  <2>4. a.h \in Barrier => Passed(a) >= 1
    BY <2>1, <2>2 DEF SemiStepAt, Barrier, Sharing
  <2>5. a.h \notin Working \cup Conts \cup {"full", "quit", "pushRelease"}
    BY <2>1 DEF SemiStepAt, Working, Conts, Barrier, Sharing
  <2>6. a.i = 9 => a.h \in Barrier
    BY <2>1 DEF SemiStepAt
  <2>q. QED BY <1>1, <2>1, <2>2, <2>3, <2>4, <2>5, <2>6, LevelRange
<1>3. CASE a.g = "genOn"
  <2>1. GenOnStepAt(a) /\ a.x \in Conts
    BY <1>1, <1>3 DEF StepAt, SemiGs
  <2>2. Passed(a) = IF a.i <= 2 THEN 0 ELSE IF a.i <= 4 THEN 1
                        ELSE IF a.i <= 6 THEN 2 ELSE IF a.i <= 8 THEN 3 ELSE 4
    BY <1>3 DEF Passed, SemiGs
  <2>3. LastStep(a) <=> a.i = 11
    BY <1>3 DEF LastStep, GenGs
  <2>4. a.h \in Barrier => Passed(a) >= 1
    BY <2>1, <2>2 DEF GenOnStepAt, Barrier, Sharing
  <2>5. a.h \notin Working \cup Conts \cup {"full", "quit", "pushRelease"}
    BY <2>1 DEF GenOnStepAt, Working, Conts, Barrier, Sharing
  <2>6. a.i = 11 => a.h \in Barrier
    BY <2>1 DEF GenOnStepAt
  <2>q. QED BY <1>1, <2>1, <2>2, <2>3, <2>4, <2>5, <2>6, LevelRange
<1>4. CASE a.g = "genTransition"
  <2>1. GenTransitionStepAt(a) /\ a.x \in Conts
    BY <1>1, <1>4 DEF StepAt, SemiGs
  <2>2. Passed(a) = IF a.i <= 2 THEN 0 ELSE IF a.i <= 5 THEN 1
                        ELSE IF a.i <= 7 THEN 2 ELSE IF a.i <= 8 THEN 3 ELSE 4
    BY <1>4 DEF Passed, SemiGs
  <2>3. LastStep(a) <=> a.i = 11
    BY <1>4 DEF LastStep, GenGs
  <2>4. a.h \in Barrier => Passed(a) >= 1
    BY <2>1, <2>2 DEF GenTransitionStepAt, Barrier, Sharing
  <2>5. a.h \notin Working \cup Conts \cup {"full", "quit", "pushRelease"}
    BY <2>1 DEF GenTransitionStepAt, Working, Conts, Barrier, Sharing
  <2>6. a.i = 11 => a.h \in Barrier
    BY <2>1 DEF GenTransitionStepAt
  <2>q. QED BY <1>1, <2>1, <2>2, <2>3, <2>4, <2>5, <2>6, LevelRange
<1>5. CASE a.g = "off"
  <2>1. OffStepAt(a) /\ a.x \in Conts /\ a.i >= 2
    BY <1>1, <1>5 DEF StepAt, SemiGs, In, GenGs
  <2>2. Passed(a) = IF a.i <= 3 THEN 0 ELSE IF a.i <= 5 THEN 1
                        ELSE IF a.i <= 7 THEN 2 ELSE 3
    BY <1>5 DEF Passed, SemiGs
  <2>3. LastStep(a) <=> a.i = 9
    BY <1>5 DEF LastStep, GenGs
  <2>4. a.h \in Barrier => Passed(a) >= 1
    BY <1>1, <2>1, <2>2 DEF OffStepAt, Barrier
  <2>5. a.h \notin Working \cup Conts \cup {"full", "quit", "pushRelease"}
    BY <1>1, <2>1 DEF OffStepAt, Working, Conts, Barrier
  <2>6. a.i = 9 => a.h \in Barrier
    BY <2>1 DEF OffStepAt
  <2>q. QED BY <1>1, <2>1, <2>2, <2>3, <2>4, <2>5, <2>6, LevelRange
<1>q. QED BY <1>1, <1>2, <1>3, <1>4, <1>5 DEF GenGs

(* Places that differ by the step that stands for the same step.           *)
LEMMA SamePlace ==
  ASSUME NEW a \in Places, NEW b, b.g = a.g, b.i = a.i
  PROVE  (In(b) <=> In(a)) /\ (LastStep(b) <=> LastStep(a)) /\ Passed(b) = Passed(a)
<1>1. (In(b) <=> In(a)) /\ (LastStep(b) <=> LastStep(a)) /\ a.g \in Gs
  BY PlaceFields DEF In, LastStep
<1>2. ASSUME a.g \in SemiGs
      PROVE  Passed(b) = Passed(a)
  BY <1>1, <1>2 DEF Passed
<1>3. ASSUME a.g = "genOn"
      PROVE  Passed(b) = Passed(a)
  BY <1>1, <1>3 DEF Passed, SemiGs
<1>4. ASSUME a.g = "genTransition"
      PROVE  Passed(b) = Passed(a)
  BY <1>1, <1>4 DEF Passed, SemiGs
<1>5. ASSUME a.g = "off"
      PROVE  Passed(b) = Passed(a)
  BY <1>1, <1>5 DEF Passed, SemiGs
<1>6. ASSUME a.g \in {"quantum", "release", "done", "idle"}
      PROVE  Passed(b) = Passed(a)
  BY <1>1, <1>6 DEF Passed, SemiGs
<1>q. QED BY <1>1, <1>2, <1>3, <1>4, <1>5, <1>6 DEF Gs, GenGs

(* Arriving at a barrier.                                                  *)
LEMMA WaitPlace ==
  ASSUME NEW a \in Places, In(a), a.h = "strong"
  PROVE  LET b == With(a, "wait") IN
         /\ b \in Places /\ b.g = a.g /\ b.i = a.i /\ b.h = "wait" /\ b.x = a.x
         /\ In(b) /\ Passed(b) = Passed(a) /\ Level(b) = Level(a) + 1
         /\ LastStep(b) <=> LastStep(a)
<1> DEFINE b == With(a, "wait")
<1>1. /\ a.g \in Gs /\ a.i \in 1 .. 11 /\ a.x \in Labels /\ StepAt(a)
      /\ a.g \in SemiGs \cup GenGs \cup {"off"}
  BY PlaceFields DEF In
<1>2. /\ b.g = a.g /\ b.i = a.i /\ b.h = "wait" /\ b.x = a.x
      /\ b = [g |-> a.g, i |-> a.i, h |-> "wait", x |-> a.x] /\ "wait" \in Labels
  BY DEF With, Labels, Barrier
<1> HIDE DEF b
<1>3. StepAt(b)
  <2>1. CASE a.g \in SemiGs
    <3>1. SemiStepAt(a) /\ a.x \in Conts
      BY <1>1, <2>1 DEF StepAt, SemiGs
    <3>q. QED BY <1>2, <2>1, <3>1 DEF StepAt, SemiStepAt, Barrier, Sharing, SemiGs
  <2>2. CASE a.g = "genOn"
    <3>1. GenOnStepAt(a) /\ a.x \in Conts
      BY <1>1, <2>2 DEF StepAt, SemiGs
    <3>q. QED BY <1>2, <2>2, <3>1 DEF StepAt, GenOnStepAt, Barrier, Sharing
  <2>3. CASE a.g = "genTransition"
    <3>1. GenTransitionStepAt(a) /\ a.x \in Conts
      BY <1>1, <2>3 DEF StepAt, SemiGs
    <3>q. QED BY <1>2, <2>3, <3>1 DEF StepAt, GenTransitionStepAt, Barrier, Sharing
  <2>4. CASE a.g = "off"
    <3>1. OffStepAt(a) /\ a.x \in Conts
      BY <1>1, <2>4 DEF StepAt, SemiGs
    <3>q. QED BY <1>2, <2>4, <3>1 DEF StepAt, OffStepAt, Barrier, Loop
  <2>q. QED BY <1>1, <2>1, <2>2, <2>3, <2>4 DEF GenGs
<1>4. b \in Places
  BY <1>1, <1>2, <1>3 DEF Places
<1>5. In(b) /\ Passed(b) = Passed(a) /\ (LastStep(b) <=> LastStep(a))
  BY <1>2, SamePlace
<1>6. Level(b) = Level(a) + 1
  BY <1>2, <1>4, <1>5, LevelRange
<1>q. QED BY <1>2, <1>4, <1>5, <1>6 DEF b

(* What a processor must keep for the push, and whether it is counted, in  *)
(* the steps that do neither.                                              *)
LEMMA AfterShare ==
  ASSUME NEW a \in Places, In(a), ~ LastStep(a), a.h \notin {"reset", "resetNext", "push"}
  PROVE  /\ Unshared(After(a)) <=> Unshared(a)
         /\ Counted(After(a)) <=> Counted(a)
         /\ After(a).g = "genOn" /\ After(a).i >= 8 <=> a.g = "genOn" /\ a.i >= 8
<1> DEFINE b == After(a)
<1>1. /\ a.g \in SemiGs \cup GenGs \cup {"off"} /\ a.i \in 1 .. 11 /\ StepAt(a)
      /\ a.g # "idle" /\ a.i # Size(a.g)
  BY PlaceFields DEF In, LastStep, Size, SemiGs, GenGs
<1>2. b.g = a.g /\ b.i = a.i + 1 /\ b.h # "leave"
  BY <1>1, AfterPlace
<1> HIDE DEF b
<1> SUFFICES /\ Unshared(b) <=> Unshared(a)
             /\ Counted(b) <=> Counted(a)
             /\ b.g = "genOn" /\ b.i >= 8 <=> a.g = "genOn" /\ a.i >= 8
  BY DEF b
<1>3. CASE a.g \in SemiGs
  <2>1. SemiStepAt(a)
    BY <1>1, <1>3 DEF StepAt, SemiGs
  <2>q. QED BY <1>1, <1>2, <1>3, <2>1 DEF SemiStepAt, Unshared, Counted, SemiGs, GenGs,
                                       Sharing, Barrier
<1>4. CASE a.g = "genOn"
  <2>1. GenOnStepAt(a) /\ ~ (a.g \in SemiGs)
    BY <1>1, <1>4 DEF StepAt, SemiGs
  <2>q. QED BY <1>1, <1>2, <1>4, <2>1 DEF GenOnStepAt, Unshared, Counted, GenGs, Sharing, Barrier
<1>5. CASE a.g = "genTransition"
  <2>1. GenTransitionStepAt(a) /\ ~ (a.g \in SemiGs)
    BY <1>1, <1>5 DEF StepAt, SemiGs
  <2>q. QED BY <1>1, <1>2, <1>5, <2>1 DEF GenTransitionStepAt, Unshared, Counted, GenGs,
                                       Sharing, Barrier
<1>6. CASE a.g = "off"
  BY <1>2, <1>6 DEF Unshared, Counted, SemiGs, GenGs
<1>q. QED BY <1>1, <1>3, <1>4, <1>5, <1>6 DEF GenGs

(* A step within a function that leaves the work alone.                    *)
LEMMA InMove ==
  ASSUME NEW pl \in [Procs -> Places], WorkKnown(pl), ReplicasKnown(pl),
         NEW p \in Procs, NEW b \in Places, UNCHANGED phaselessVars,
         On' <=> On,
         status' \in {"On", "PendingOff"} <=> status \in {"On", "PendingOff"},
         In(pl[p]), In(b), b.g = pl[p].g,
         Unshared(b) <=> Unshared(pl[p]), Counted(b) <=> Counted(pl[p]),
         b.g = "genOn" /\ b.i >= 8 <=> pl[p].g = "genOn" /\ pl[p].i >= 8
  PROVE  WorkKnown([pl EXCEPT ![p] = b])' /\ ReplicasKnown([pl EXCEPT ![p] = b])'
<1>0. PICK a \in Places : a = pl[p]
  OBVIOUS
<1>1. /\ a.h \notin Working \cup Conts \cup {"full", "quit", "pushRelease"}
      /\ b.h \notin Working \cup Conts \cup {"full", "quit", "pushRelease"}
      /\ a.g \in SemiGs \cup GenGs \cup {"off"}
  BY <1>0, InHeads
<1>2. /\ b.g # "release" /\ a.g # "release" /\ a.g # "idle" /\ b.g # "idle"
      /\ b.h # "check" /\ a.h # "check" /\ b.h # "forward" /\ a.h # "forward"
      /\ a.h # "mutator" /\ b.h # "mutator"
  BY <1>0, <1>1 DEF SemiGs, GenGs, Working, Conts
<1>3. WorkAt(b, local[p], hasShared[p], log[p])
  <2>1. WorkAt(a, local[p], hasShared[p], log[p])
    BY <1>0 DEF WorkKnown
  <2>2. KeepsAt(a, log[p]) => KeepsAt(b, log[p])
    BY <1>0, <1>1, <1>2 DEF KeepsAt
  <2>q. QED BY <1>0, <1>1, <1>2, <2>1, <2>2 DEF WorkAt
<1>4. BusyAt(pl[p], local[p]) => BusyAt(b, local[p])
  BY <1>0, <1>2 DEF BusyAt, In, SemiGs, GenGs
<1>5. localNext[p] # {} => NextAt(b)
  BY <1>0, <1>2 DEF ReplicasKnown, NextAt
<1>6. /\ collector = "gen" /\ b.g = "release" => On
      /\ b.h = "forward" <=> pl[p].h = "forward"
  BY <1>0, <1>2
<1>q. QED BY <1>3, <1>4, <1>5, <1>6, MovePhase

(* The phase after a step that does not change it.                         *)
LEMMA PhaseStep ==
  ASSUME NEW pl \in [Procs -> Places], Phase(pl), NEW p \in Procs, NEW b \in Places,
         UNCHANGED <<collector, agressive, status, type, cycle>>,
         b.g = pl[p].g, PastSet(b) <=> PastSet(pl[p]),
         pl[p].g \in OnGs /\ pl[p].i = 1 => status # "Off",
         b.g = "off" => (b.i = 9 /\ isFirst'[p] <=> pl[p].i = 9 /\ isFirst[p]),
         \A q \in Procs : q # p => isFirst'[q] = isFirst[q]
  PROVE  Phase([pl EXCEPT ![p] = b])'
<1> DEFINE npl == [pl EXCEPT ![p] = b]
<1>1. npl \in [Procs -> Places] /\ npl[p] = b /\ \A q \in Procs : q # p => npl[q] = pl[q]
  OBVIOUS
<1> HIDE DEF npl
<1>2. \A q \in Procs : PastSet(npl[q]) <=> PastSet(pl[q])
  BY <1>1
<1>3. SomeSet(npl) <=> SomeSet(pl)
  BY <1>2 DEF SomeSet
<1>4. \A q \in Procs : npl[q].g = pl[q].g
  BY <1>1
<1>5. \A q \in Procs : npl[q].g = "off" =>
        (npl[q].i = 9 /\ isFirst'[q] <=> pl[q].i = 9 /\ isFirst[q])
  BY <1>1
<1>6. SomeFlipped(npl)' <=> SomeFlipped(pl)
  BY <1>4, <1>5 DEF SomeFlipped
<1>7. \A q \in Procs : npl[q].g \in OnGs => OnAt(npl[q], SomeSet(npl))'
  <2> SUFFICES ASSUME NEW q \in Procs, npl[q].g \in OnGs
               PROVE  OnAt(npl[q], SomeSet(npl))'
    OBVIOUS
  <2>1. OnAt(pl[q], SomeSet(pl))
    BY <1>4 DEF Phase
  <2>2. PastSet(npl[q]) => status = SetOn
    BY <1>2, <2>1 DEF OnAt
  <2>3. \/ status = PendingOn(type)
        \/ npl[q].i = 1 /\ status = "Off"
        \/ status = SetOn /\ SomeSet(npl)
    <3>1. pl[q].i = 1 /\ status = "Off" => q # p
      BY <1>4
    <3>q. QED BY <1>1, <1>3, <2>1, <3>1 DEF OnAt
  <2>4. status' = status /\ SetOn' = SetOn /\ PendingOn(type)' = PendingOn(type)
    BY DEF SetOn, PendingOn
  <2>q. QED BY <2>2, <2>3, <2>4 DEF OnAt
<1>8. \A q \in Procs : npl[q].g \in TransitionGs => TransitionAt(npl[q], SomeSet(npl))'
  <2> SUFFICES ASSUME NEW q \in Procs, npl[q].g \in TransitionGs
               PROVE  TransitionAt(npl[q], SomeSet(npl))'
    OBVIOUS
  <2>1. TransitionAt(pl[q], SomeSet(pl))
    BY <1>4 DEF Phase
  <2>q. QED BY <1>2, <1>3, <2>1 DEF TransitionAt
<1>9. \A q \in Procs : npl[q].g = "off" => OffAt(SomeFlipped(npl))'
  BY <1>4, <1>6 DEF Phase, OffAt
<1>10. \A q \in Procs : npl[q].g = "off" /\ npl[q].i = 9 /\ isFirst'[q] => status' = "Off"
  BY <1>4, <1>5 DEF Phase
<1>11. (status' # "Off" \/ \E q \in Procs : npl[q].g \in OnGs) => cycle' < MaxCycles
  BY <1>4 DEF Phase
<1>q. QED BY <1>7, <1>8, <1>9, <1>10, <1>11 DEF Phase, npl

LEMMA OneFirstStep ==
  ASSUME NEW pl \in [Procs -> Places], OneFirst(pl), NEW p \in Procs, NEW b \in Places,
         UNCHANGED isFirst, PastWeak(b) <=> PastWeak(pl[p])
  PROVE  OneFirst([pl EXCEPT ![p] = b])'
<1> DEFINE npl == [pl EXCEPT ![p] = b]
<1>1. \A q \in Procs : PastWeak(npl[q]) <=> PastWeak(pl[q])
  OBVIOUS
<1> HIDE DEF npl
<1>q. QED BY <1>1 DEF OneFirst, npl

(* Up to the weak barrier, and where the step after it leads.              *)
LEMMA EarlyPlaces ==
  ASSUME NEW a \in Places, a.h \in {"signalOn", "signalTransition", "signalOff", "weak"}
  PROVE  /\ In(a) /\ Passed(a) = 0 /\ Level(a) = 0 /\ ~ LastStep(a)
         /\ After(a) \in Places /\ After(a).g = a.g /\ After(a).i = a.i + 1
         /\ After(a).x = a.x /\ In(After(a)) /\ ~ LastStep(After(a))
         /\ Passed(After(a)) = (IF a.h = "weak" THEN 1 ELSE 0)
         /\ Level(After(a)) = Passed(After(a)) /\ After(a).h \notin {"wait", "forward"}
         /\ a.i \in 1 .. 3 /\ After(a).i \in 2 .. 4 /\ After(a).h # "forward"
<1>1. /\ a.g \in Gs /\ a.i \in 1 .. 11 /\ In(a) /\ a.g \in SemiGs \cup GenGs \cup {"off"}
      /\ a.i \in 1 .. 3 /\ (a.g # "off" => a.i <= 2)
  BY PlaceFields, InPlaces, InHeads DEF OnGs, TransitionGs
<1>2. Passed(a) = 0
  <2>1. CASE a.g \in SemiGs
    BY <1>1, <2>1 DEF Passed, SemiGs
  <2>2. CASE a.g = "genOn"
    BY <1>1, <2>2 DEF Passed, SemiGs
  <2>3. CASE a.g = "genTransition"
    BY <1>1, <2>3 DEF Passed, SemiGs
  <2>4. CASE a.g = "off"
    BY <1>1, <2>4 DEF Passed, SemiGs
  <2>q. QED BY <1>1, <2>1, <2>2, <2>3, <2>4 DEF GenGs
<1>3. Level(a) = 0
  BY <1>2 DEF Level
<1>4. ~ LastStep(a) /\ a.g # "idle" /\ a.i # Size(a.g)
  BY <1>1 DEF LastStep, Size, SemiGs, GenGs
<1>5. /\ After(a) \in Places /\ After(a).g = a.g /\ After(a).i = a.i + 1
      /\ After(a).x = a.x /\ After(a).h \notin Loop \cup {"wait", "leave"}
  BY <1>4, AfterPlace
<1>6. /\ In(After(a)) /\ Level(After(a)) = Passed(After(a))
      /\ Passed(After(a)) = (IF a.h = "weak" THEN 1 ELSE 0)
  BY <1>1, <1>2, <1>4, AfterLevel DEF Barrier
<1>7. After(a).i \in 2 .. 4 /\ ~ LastStep(After(a))
  BY <1>1, <1>5 DEF LastStep
<1>q. QED BY <1>1, <1>2, <1>3, <1>4, <1>5, <1>6, <1>7 DEF Loop

(* The switch at the head of a function finds the phase it expects.        *)
LEMMA Announces ==
  ASSUME NEW pl \in [Procs -> Places], Known(pl), NEW p \in Procs, Signal(p)
  PROVE  /\ pl[p].h \in {"signalOn", "signalTransition", "signalOff"}
         /\ Advance(p)
         /\ \/ status' = status /\ (pl[p].g \in OnGs => status # "Off")
            \/ pl[p].g \in OnGs /\ status = "Off" /\ status' = PendingOn(type)
<1>1. \A s : At(p, s) <=> pl[p].h = s
  BY PlacedFacts DEF Known
<1>2. pl[p].h \in {"signalOn", "signalTransition", "signalOff"}
  BY <1>1 DEF Signal, Announce
<1>3. Level(pl[p]) = 0 /\ pl[p] \in Places /\ ~ LastStep(pl[p])
  BY <1>2, EarlyPlaces
<1>4. ~ SomeSet(pl) /\ ~ SomeFlipped(pl) /\ ~ PastSet(pl[p])
  BY <1>3, LowFacts DEF Known, Core, PastSet
<1>5. CASE pl[p].h = "signalOn"
  <2>1. pl[p].g \in OnGs
    BY <1>5, InPlaces
  <2>2. status = PendingOn(type) \/ status = "Off"
    BY <1>4, <2>1 DEF Known, Core, Phase, OnAt
  <2>3. Announce(p, "signalOn", "Off", PendingOn(type), {"PendingOn", "PendingAgressive"})
    BY <1>1, <1>5 DEF Signal, Announce
  <2>4. PendingOn(type) \in {"PendingOn", "PendingAgressive"}
    BY DEF PendingOn
  <2>q. QED BY <1>2, <2>1, <2>2, <2>3, <2>4 DEF Announce
<1>6. CASE pl[p].h = "signalTransition"
  <2>1. pl[p].g \in TransitionGs /\ pl[p].g \notin OnGs
    BY <1>6, InPlaces DEF OnGs, TransitionGs
  <2>2. status = "PendingOn"
    BY <1>4, <2>1 DEF Known, Core, Phase, TransitionAt
  <2>3. Announce(p, "signalTransition", "Agressive", "PendingOn", {"PendingOn"})
    BY <1>1, <1>6 DEF Signal, Announce
  <2>q. QED BY <1>2, <2>1, <2>2, <2>3 DEF Announce
<1>7. CASE pl[p].h = "signalOff"
  <2>1. pl[p].g = "off" /\ pl[p].g \notin OnGs
    BY <1>7, InPlaces DEF OnGs
  <2>2. status = "PendingOff"
    BY <1>4, <2>1 DEF Known, Core, Phase, OffAt
  <2>3. Announce(p, "signalOff", IF collector = "semi" THEN "On" ELSE "PendingOff",
              "PendingOff", {"PendingOff"})
    BY <1>1, <1>7 DEF Signal, Announce
  <2>q. QED BY <1>2, <2>1, <2>2, <2>3 DEF Announce
<1>q. QED BY <1>2, <1>5, <1>6, <1>7

(* The first processor announces that the collector is to be turned on:    *)
(* nobody is further than the weak barrier.                                *)
LEMMA PhaseBegins ==
  ASSUME NEW pl \in [Procs -> Places], Phase(pl), ~ SomeSet(pl), ~ SomeFlipped(pl),
         NEW p \in Procs, NEW b \in Places,
         UNCHANGED <<collector, agressive, type, cycle>>, UNCHANGED isFirst,
         pl[p].g \in OnGs, b.g = pl[p].g, ~ LastStep(b),
         status = "Off", status' = PendingOn(type)
  PROVE  Phase([pl EXCEPT ![p] = b])'
<1> DEFINE npl == [pl EXCEPT ![p] = b]
<1>1. npl \in [Procs -> Places] /\ npl[p] = b /\ \A q \in Procs : q # p => npl[q] = pl[q]
  OBVIOUS
<1> HIDE DEF npl
<1>2. \A q \in Procs : ~ PastSet(npl[q]) /\ npl[q].g = pl[q].g
  BY <1>1 DEF SomeSet, PastSet
<1>3. \A q \in Procs : pl[q].g \notin TransitionGs /\ pl[q].g # "off"
  BY DEF Phase, TransitionAt, OffAt
<1>4. \A q \in Procs : npl[q].g \in OnGs => OnAt(npl[q], SomeSet(npl))'
  BY <1>2 DEF OnAt, PendingOn
<1>5. status' \in {"PendingOn", "PendingAgressive"}
      /\ (status' = "PendingAgressive" => agressive[type])
  BY DEF PendingOn
<1>6. cycle < MaxCycles
  BY DEF Phase
<1>q. QED BY <1>2, <1>3, <1>4, <1>5, <1>6 DEF Phase, npl, States

(* The roots after a step before the first strong barrier of CollectorOff. *)
LEMMA EarlyRoots ==
  ASSUME NEW pl \in [Procs -> Places], RootsKnown(pl), ~ Completing_(pl),
         NEW p \in Procs, NEW b \in Places, b.g # "off" \/ b.i <= 4,
         \A q \in Procs : q # p => isFirst'[q] = isFirst[q],
         UNCHANGED <<unscanned, space, threadSpace>>
  PROVE  RootsKnown([pl EXCEPT ![p] = b])'
<1> DEFINE npl == [pl EXCEPT ![p] = b]
<1>1. npl \in [Procs -> Places] /\ npl[p] = b /\ \A q \in Procs : q # p => npl[q] = pl[q]
  OBVIOUS
<1> HIDE DEF npl
<1>2. \A q \in Procs : npl[q].i \in 1 .. 11 /\ pl[q].i \in 1 .. 11 /\ b.i \in 1 .. 11
  BY <1>1, PlaceFields
<1>3. ~ Completing_(npl)
  BY <1>1, <1>2 DEF Completing_
<1>4. \A q \in Procs : npl[q].g = "off" /\ npl[q].i >= 5 => pl[q].g = "off" /\ pl[q].i >= 5
  BY <1>1, <1>2
<1>5. \A q \in Procs : ~ (npl[q].g = "off" /\ npl[q].i >= 7)
  BY <1>2, <1>3 DEF Completing_
<1>6. /\ space' = space /\ threadSpace' = threadSpace /\ unscanned' = unscanned
      /\ \A t \in Threads : threadSpace[t] = space
      /\ \A q \in Procs : npl[q].g = "off" /\ npl[q].i >= 5 /\ isFirst'[q] => unscanned = Threads
  <2>1. \A q \in Procs : npl[q].g = "off" /\ npl[q].i >= 5 => q # p
    BY <1>1, <1>2
  <2>q. QED BY <1>4, <2>1 DEF RootsKnown
<1>q. QED BY <1>3, <1>5, <1>6 DEF RootsKnown, npl, Completing_

LEMMA SignalStep ==
  ASSUME NEW pl \in [Procs -> Places], Known(pl), NEW p \in Procs, Signal(p)
  PROVE  Inv'
<1>0. PICK a \in Places : a = pl[p]
  OBVIOUS
<1>1. /\ a.h \in {"signalOn", "signalTransition", "signalOff"} /\ Advance(p)
      /\ \/ status' = status /\ (a.g \in OnGs => status # "Off")
         \/ a.g \in OnGs /\ status = "Off" /\ status' = PendingOn(type)
  BY <1>0, Announces
<1>2. /\ UNCHANGED <<optionVars, type, cycle, arrived, isFirst, unscanned,
                 stackVars, space, threadSpace, log, writes, mirrorVars>>
      /\ UNCHANGED <<collector, agressive, type, cycle>>
      /\ UNCHANGED phaselessVars /\ isFirst' = isFirst
  BY DEF Signal, Announce, optionVars, stackVars, phaselessVars
<1>3. /\ In(a) /\ Passed(a) = 0 /\ Level(a) = 0 /\ ~ LastStep(a) /\ a.i \in 1 .. 3
  BY <1>1, EarlyPlaces
<1>4. PICK b \in Places :
        /\ b = After(a) /\ b.g = a.g /\ b.i = a.i + 1 /\ b.x = a.x /\ In(b)
        /\ ~ LastStep(b) /\ Passed(b) = 0 /\ Level(b) = 0
        /\ b.h \notin {"wait", "forward"} /\ b.i \in 2 .. 4
  BY <1>1, EarlyPlaces
<1>5. ~ SomeSet(pl) /\ ~ SomeFlipped(pl) /\ ~ Completing_(pl)
  BY <1>0, <1>3, LowFacts DEF Known, Core
<1>6. Fits(b)
  <2>1. a.g \in SemiGs => collector = "semi"
    BY <1>0 DEF Known, Placed
  <2>2. a.g \in GenGs => collector = "gen"
    BY <1>0 DEF Known, Placed
  <2>3. a.x # "full"
    BY <1>3, InHeads DEF Conts
  <2>q. QED BY <1>4, <2>1, <2>2, <2>3 DEF Fits
<1>7. Placed([pl EXCEPT ![p] = b])' /\ [pl EXCEPT ![p] = b] \in [Procs -> Places]
  <2>1. todo' = [todo EXCEPT ![p] = Steps(b)]
    <3>1. a.g # "idle"
      BY <1>3 DEF In, SemiGs, GenGs
    <3>q. QED BY <1>0, <1>1, <1>4, <3>1, Moves DEF Known
  <2>q. QED BY <1>2, <1>6, <2>1, PlacedStep DEF Known
<1>8. Together([pl EXCEPT ![p] = b])'
  <2>1. arrived' = [arrived EXCEPT ![p] = @ + (Level(b) - Level(pl[p]))]
    BY <1>0, <1>2, <1>3, <1>4 DEF Known, Core, Together
  <2>2. In(b) => \A q \in Procs : q # p /\ In(pl[q]) => pl[q].g = b.g
    BY <1>0, <1>3, <1>4 DEF Known, Core, Together
  <2>3. /\ Level(b) >= Level(pl[p]) /\ ~ (LastStep(b) /\ b.h = "wait") /\ Together(pl)
        /\ Passed(b) >= 2 => \A q \in Procs : q # p => Level(pl[q]) >= Passed(b)
    BY <1>0, <1>3, <1>4 DEF Known, Core
  <2>q. QED BY <2>1, <2>2, <2>3, TogetherStep
<1>9. Phase([pl EXCEPT ![p] = b])'
  <2>1. CASE status' = status /\ (a.g \in OnGs => status # "Off")
    <3>1. UNCHANGED <<collector, agressive, status, type, cycle>>
      BY <1>2, <2>1
    <3>2. PastSet(b) <=> PastSet(pl[p])
      BY <1>0, <1>3, <1>4 DEF PastSet
    <3>3. b.g = "off" => (b.i = 9 /\ isFirst'[p] <=> pl[p].i = 9 /\ isFirst[p])
      BY <1>0, <1>3, <1>4
    <3>q. QED BY <1>0, <1>2, <1>4, <2>1, <3>1, <3>2, <3>3, PhaseStep DEF Known, Core
  <2>2. CASE a.g \in OnGs /\ status = "Off" /\ status' = PendingOn(type)
    BY <1>0, <1>2, <1>4, <1>5, <2>2, PhaseBegins DEF Known, Core
  <2>q. QED BY <1>1, <2>1, <2>2
<1>10. OneFirst([pl EXCEPT ![p] = b])'
  <2>1. PastWeak(b) <=> PastWeak(pl[p])
    BY <1>0, <1>3, <1>4 DEF PastWeak
  <2>q. QED BY <1>2, <2>1, OneFirstStep DEF Known, Core
<1>11. RootsKnown([pl EXCEPT ![p] = b])'
  <2>1. b.g # "off" \/ b.i <= 4
    BY <1>4
  <2>q. QED BY <1>2, <1>5, <2>1, EarlyRoots DEF Known, Core
<1>12. WorkKnown([pl EXCEPT ![p] = b])' /\ ReplicasKnown([pl EXCEPT ![p] = b])'
  <2>1. (On' <=> On)
        /\ (status' \in {"On", "PendingOff"} <=> status \in {"On", "PendingOff"})
    BY <1>1, <1>2 DEF On, PendingOn
  <2>2. /\ Unshared(b) <=> Unshared(a)
        /\ Counted(b) <=> Counted(a)
        /\ b.g = "genOn" /\ b.i >= 8 <=> a.g = "genOn" /\ a.i >= 8
    BY <1>1, <1>3, <1>4, AfterShare
  <2>q. QED BY <1>0, <1>2, <1>3, <1>4, <2>1, <2>2, InMove DEF Known
<1>q. QED BY <1>7, <1>8, <1>9, <1>10, <1>11, <1>12, Conclude DEF Core

----------------------------------------------------------------------------
(* The barriers.                                                           *)

(* The next place of a function, and a step to it.                         *)
LEMMA NextPlace ==
  ASSUME NEW a \in Places, In(a), ~ LastStep(a), NEW b, b = After(a)
  PROVE  /\ b \in Places /\ b.g = a.g /\ b.i = a.i + 1 /\ b.x = a.x /\ In(b)
         /\ b.h \notin Loop \cup {"wait", "leave"} /\ b.h # "wait" /\ Level(b) = Passed(b)
         /\ a.h \in {"strong", "wait", "weak"} => Passed(b) = Passed(a) + 1
         /\ a.h \notin {"strong", "wait", "weak"} => Passed(b) = Passed(a)
<1>1. a.g # "idle" /\ a.i # Size(a.g)
  BY PlaceFields DEF In, LastStep, Size, SemiGs, GenGs
<1>2. /\ b \in Places /\ b.g = a.g /\ b.i = a.i + 1 /\ b.x = a.x
      /\ b.h \notin Loop \cup {"wait", "leave"}
  BY <1>1, AfterPlace
<1>3. /\ In(b) /\ Level(b) = Passed(b)
      /\ a.h \in {"strong", "wait", "weak"} => Passed(b) = Passed(a) + 1
      /\ a.h \notin {"strong", "wait", "weak"} => Passed(b) = Passed(a)
  BY AfterLevel DEF Barrier
<1>q. QED BY <1>2, <1>3

LEMMA PlacedNext ==
  ASSUME NEW pl \in [Procs -> Places], Known(pl), NEW p \in Procs, In(pl[p]),
         ~ LastStep(pl[p]), Advance(p), UNCHANGED optionVars,
         NEW b, b = After(pl[p])
  PROVE  Placed([pl EXCEPT ![p] = b])' /\ [pl EXCEPT ![p] = b] \in [Procs -> Places]
<1>0. PICK a \in Places : a = pl[p]
  OBVIOUS
<1>1. b \in Places /\ b.g = a.g /\ b.x = a.x /\ b.h \notin Loop
  BY <1>0, NextPlace
<1>2. Fits(b)
  <2>1. a.x # "full" /\ b.h # "forward"
    BY <1>0, <1>1, InHeads DEF Conts, Loop
  <2>q. QED BY <1>0, <1>1, <2>1 DEF Fits, Known, Placed
<1>3. todo' = [todo EXCEPT ![p] = Steps(b)]
  <2>1. pl[p].g # "idle"
    BY DEF In, SemiGs, GenGs
  <2>q. QED BY <2>1, Moves DEF Known
<1>q. QED BY <1>1, <1>2, <1>3, PlacedStep DEF Known

(* A step within a function that does not arrive at a barrier.             *)
LEMMA TogetherSame ==
  ASSUME NEW pl \in [Procs -> Places], Together(pl), NEW p \in Procs, NEW b \in Places,
         In(pl[p]), In(b), b.g = pl[p].g, UNCHANGED arrived, Level(b) = Level(pl[p]),
         Passed(b) >= 2 => \A q \in Procs : q # p => Level(pl[q]) >= Passed(b),
         ~ (LastStep(b) /\ b.h = "wait")
  PROVE  Together([pl EXCEPT ![p] = b])'
<1>1. Level(b) \in Nat
  BY LevelRange
<1>2. arrived' = [arrived EXCEPT ![p] = @ + (Level(b) - Level(pl[p]))]
  BY <1>1 DEF Together
<1>3. In(b) => \A q \in Procs : q # p /\ In(pl[q]) => pl[q].g = b.g
  BY DEF Together
<1>4. Level(b) >= Level(pl[p])
  BY <1>1
<1>q. QED BY <1>2, <1>3, <1>4, TogetherStep

LEMMA WeakBarrierStep ==
  ASSUME NEW pl \in [Procs -> Places], Known(pl), NEW p \in Procs, WeakBarrier(p)
  PROVE  Inv'
<1>0. PICK a \in Places : a = pl[p]
  OBVIOUS
<1>1. a.h = "weak" /\ Advance(p) /\ Arrive(p)
  BY <1>0, PlacedFacts DEF WeakBarrier, Known
<1>2. /\ UNCHANGED <<collector, agressive, status, type, cycle>>
      /\ UNCHANGED optionVars /\ UNCHANGED phaselessVars
      /\ UNCHANGED <<unscanned, space, threadSpace>>
      /\ isFirst' = [isFirst EXCEPT ![p] = \A q \in Procs : arrived[q] <= arrived[p]]
  BY DEF WeakBarrier, optionVars, stackVars, phaselessVars
<1>3. In(a) /\ Passed(a) = 0 /\ Level(a) = 0 /\ ~ LastStep(a) /\ a.i \in 2 .. 3
  BY <1>1, EarlyPlaces, InPlaces
<1>4. PICK b : b = After(a)
  OBVIOUS
<1>5. /\ b \in Places /\ b.g = a.g /\ b.i = a.i + 1 /\ In(b) /\ ~ LastStep(b)
      /\ Passed(b) = 1 /\ Level(b) = 1 /\ b.h # "wait" /\ b.i \in 2 .. 4
  BY <1>1, <1>4, EarlyPlaces
<1>6. ~ SomeSet(pl) /\ ~ SomeFlipped(pl) /\ ~ Completing_(pl)
  BY <1>0, <1>3, LowFacts DEF Known, Core
<1>7. Placed([pl EXCEPT ![p] = b])' /\ [pl EXCEPT ![p] = b] \in [Procs -> Places]
  BY <1>0, <1>1, <1>2, <1>3, <1>4, PlacedNext
<1>8. Together([pl EXCEPT ![p] = b])'
  <2>1. arrived' = [arrived EXCEPT ![p] = @ + (Level(b) - Level(pl[p]))]
    BY <1>0, <1>1, <1>3, <1>5 DEF Arrive
  <2>2. In(b) => \A q \in Procs : q # p /\ In(pl[q]) => pl[q].g = b.g
    BY <1>0, <1>3, <1>5 DEF Known, Core, Together
  <2>3. /\ Level(b) >= Level(pl[p]) /\ ~ (LastStep(b) /\ b.h = "wait") /\ Together(pl)
        /\ Passed(b) >= 2 => \A q \in Procs : q # p => Level(pl[q]) >= Passed(b)
    BY <1>0, <1>3, <1>5 DEF Known, Core
  <2>q. QED BY <1>5, <2>1, <2>2, <2>3, TogetherStep
<1>9. isFirst \in [Procs -> BOOLEAN] /\ \A q \in Procs : q # p => isFirst'[q] = isFirst[q]
  BY <1>2 DEF Known, Core, OneFirst
<1>10. Phase([pl EXCEPT ![p] = b])'
  <2>1. PastSet(b) <=> PastSet(pl[p])
    BY <1>0, <1>3, <1>5 DEF PastSet
  <2>2. b.g = "off" => (b.i = 9 /\ isFirst'[p] <=> pl[p].i = 9 /\ isFirst[p])
    BY <1>0, <1>3, <1>5
  <2>3. ~ (pl[p].g \in OnGs /\ pl[p].i = 1)
    BY <1>0, <1>3
  <2>q. QED BY <1>0, <1>2, <1>5, <1>9, <2>1, <2>2, <2>3, PhaseStep DEF Known, Core
<1>11. OneFirst([pl EXCEPT ![p] = b])'
  <2> DEFINE npl == [pl EXCEPT ![p] = b]
  <2>1. npl[p] = b /\ \A q \in Procs : q # p => npl[q] = pl[q]
    OBVIOUS
  <2> HIDE DEF npl
  <2>2. PastWeak(b) /\ ~ PastWeak(a)
    BY <1>3, <1>5 DEF PastWeak
  <2>3. /\ isFirst' \in [Procs -> BOOLEAN]
        /\ isFirst'[p] <=> \A q \in Procs : arrived[q] <= arrived[p]
    BY <1>2, <1>9
  <2>4. \A q \in Procs : arrived[q] <= arrived[p] <=> ~ PastWeak(pl[q])
    <3> SUFFICES ASSUME NEW q \in Procs
                 PROVE  arrived[q] <= arrived[p] <=> ~ PastWeak(pl[q])
      OBVIOUS
    <3>1. /\ arrived[q] \in Nat /\ arrived[p] \in Nat /\ Level(pl[q]) \in Nat
          /\ arrived[q] - Level(pl[q]) = arrived[p] - Level(pl[p])
      BY LevelRange DEF Known, Core, Together
    <3>2. arrived[q] <= arrived[p] <=> Level(pl[q]) = 0
      BY <1>0, <1>3, <3>1
    <3>3. Level(pl[q]) = 0 <=> ~ PastWeak(pl[q])
      BY LevelRange, InHeads DEF PastWeak, Barrier
    <3>q. QED BY <3>2, <3>3
  <2>5. /\ \A q, r \in Procs : PastWeak(pl[q]) /\ isFirst[q] /\ PastWeak(pl[r])
                                 /\ isFirst[r] => q = r
        /\ \A q \in Procs : PastWeak(pl[q]) =>
             \E r \in Procs : PastWeak(pl[r]) /\ isFirst[r]
    BY DEF Known, Core, OneFirst
  <2>6. CASE \E q \in Procs : PastWeak(pl[q])
    <3>1. ~ isFirst'[p]
      BY <2>3, <2>4, <2>6
    <3>2. PICK r \in Procs : PastWeak(pl[r]) /\ isFirst[r]
      BY <2>5, <2>6
    <3>3. r # p /\ PastWeak(npl[r]) /\ isFirst'[r]
      BY <1>0, <1>9, <2>1, <2>2, <3>2
    <3>4. \A q, s \in Procs : PastWeak(npl[q]) /\ isFirst'[q] /\ PastWeak(npl[s])
                                 /\ isFirst'[s] => q = s
      BY <1>9, <2>1, <2>5, <3>1
    <3>q. QED BY <2>3, <3>3, <3>4 DEF OneFirst, npl
  <2>7. CASE ~ \E q \in Procs : PastWeak(pl[q])
    <3>1. isFirst'[p] /\ PastWeak(npl[p]) /\ \A q \in Procs : q # p => ~ PastWeak(npl[q])
      BY <2>1, <2>2, <2>3, <2>4, <2>7
    <3>q. QED BY <2>3, <3>1 DEF OneFirst, npl
  <2>q. QED BY <2>6, <2>7
<1>12. RootsKnown([pl EXCEPT ![p] = b])'
  <2>1. b.g # "off" \/ b.i <= 4
    BY <1>5
  <2>q. QED BY <1>2, <1>5, <1>6, <1>9, <2>1, EarlyRoots DEF Known, Core
<1>13. WorkKnown([pl EXCEPT ![p] = b])' /\ ReplicasKnown([pl EXCEPT ![p] = b])'
  <2>1. (On' <=> On)
        /\ (status' \in {"On", "PendingOff"} <=> status \in {"On", "PendingOff"})
    BY <1>2 DEF On
  <2>2. /\ Unshared(b) <=> Unshared(a)
        /\ Counted(b) <=> Counted(a)
        /\ b.g = "genOn" /\ b.i >= 8 <=> a.g = "genOn" /\ a.i >= 8
    BY <1>1, <1>3, <1>4, AfterShare
  <2>q. QED BY <1>0, <1>2, <1>3, <1>5, <2>1, <2>2, InMove DEF Known
<1>q. QED BY <1>7, <1>8, <1>10, <1>11, <1>12, <1>13, Conclude DEF Core

(* Past a barrier a processor is past the first steps.                     *)
LEMMA LatePlaces ==
  ASSUME NEW a \in Places, In(a), Passed(a) >= 1
  PROVE  a.i > 2 /\ (a.g = "off" => a.i > 3)
<1>1. a.g \in SemiGs \cup GenGs \cup {"off"} /\ a.i \in 1 .. 11
  BY PlaceFields DEF In
<1>2. CASE a.g \in SemiGs
  BY <1>1, <1>2 DEF Passed, SemiGs
<1>3. CASE a.g = "genOn"
  BY <1>1, <1>3 DEF Passed, SemiGs
<1>4. CASE a.g = "genTransition"
  BY <1>1, <1>4 DEF Passed, SemiGs
<1>5. CASE a.g = "off"
  BY <1>1, <1>5 DEF Passed, SemiGs
<1>q. QED BY <1>1, <1>2, <1>3, <1>4, <1>5 DEF GenGs

(* The last step is reached by no barrier, and from the last barrier only  *)
(* one that waits there too is as far as one that waits.                   *)
LEMMA LastBarrier ==
  ASSUME NEW a \in Places, In(a)
  PROVE  /\ a.h \in Barrier /\ ~ LastStep(a) => ~ LastStep(After(a))
         /\ \A c \in Places : LastStep(c) /\ c.g = a.g /\ Level(a) >= Passed(c) + 1
                            => LastStep(a) /\ a.h = "wait"
         /\ \A c \in Places : LastStep(c) /\ LastStep(a) /\ c.g = a.g => Passed(c) = Passed(a)
<1>1. /\ a.g \in SemiGs \cup GenGs \cup {"off"} /\ a.i \in 1 .. 11 /\ StepAt(a)
      /\ Level(a) = IF a.h = "wait" THEN Passed(a) + 1 ELSE Passed(a)
  BY PlaceFields, LevelRange DEF In
<1>2. a.g # "idle" /\ (~ LastStep(a) => a.i # Size(a.g))
  BY <1>1 DEF LastStep, Size, SemiGs, GenGs
<1>3. ~ LastStep(a) => After(a).g = a.g /\ After(a).i = a.i + 1
  BY <1>2, AfterPlace
<1>4. \A c \in Places : LastStep(c) /\ LastStep(a) /\ c.g = a.g => Passed(c) = Passed(a)
  <2>1. \A c \in Places : LastStep(c) /\ LastStep(a) /\ c.g = a.g => c.i = a.i
    BY DEF LastStep
  <2>q. QED BY <2>1, SamePlace
<1>5. CASE a.g \in SemiGs
  <2>1. /\ SemiStepAt(a) /\ (LastStep(a) <=> a.i = 9)
        /\ Passed(a) = IF a.i <= 2 THEN 0 ELSE IF a.i <= 5 THEN 1 ELSE 2
    BY <1>1, <1>5 DEF StepAt, LastStep, In, Passed, SemiGs, GenGs
  <2>2. \A c \in Places : LastStep(c) /\ c.g = a.g => Passed(c) = 2
    BY <1>5 DEF LastStep, Passed, SemiGs, GenGs
  <2>3. ~ LastStep(a) => (LastStep(After(a)) <=> a.i = 8)
    BY <1>1, <1>3, <1>5 DEF LastStep, In, SemiGs, GenGs
  <2>4. a.h = "wait" => a.i \in {5, 9}
    BY <2>1 DEF SemiStepAt, Sharing
  <2>5. a.h \in Barrier => a.i \in {5, 9}
    BY <2>1 DEF SemiStepAt, Sharing, Barrier
  <2>6. \A c \in Places : LastStep(c) /\ c.g = a.g /\ Level(a) >= Passed(c) + 1
                            => LastStep(a) /\ a.h = "wait"
    BY <1>1, <2>1, <2>2, <2>4
  <2>q. QED BY <1>4, <2>3, <2>5, <2>6
<1>6. CASE a.g = "genOn"
  <2>1. /\ GenOnStepAt(a) /\ (LastStep(a) <=> a.i = 11)
        /\ Passed(a) = IF a.i <= 2 THEN 0 ELSE IF a.i <= 4 THEN 1
                        ELSE IF a.i <= 6 THEN 2 ELSE IF a.i <= 8 THEN 3 ELSE 4
    BY <1>1, <1>6 DEF StepAt, LastStep, In, Passed, SemiGs, GenGs
  <2>2. \A c \in Places : LastStep(c) /\ c.g = a.g => Passed(c) = 4
    BY <1>6 DEF LastStep, Passed, SemiGs, GenGs
  <2>3. ~ LastStep(a) => (LastStep(After(a)) <=> a.i = 10)
    BY <1>1, <1>3, <1>6 DEF LastStep, In, SemiGs, GenGs
  <2>4. a.h = "wait" => a.i \in {4, 6, 8, 11}
    BY <2>1 DEF GenOnStepAt, Sharing
  <2>5. a.h \in Barrier => a.i \in {4, 6, 8, 11}
    BY <2>1 DEF GenOnStepAt, Sharing, Barrier
  <2>6. \A c \in Places : LastStep(c) /\ c.g = a.g /\ Level(a) >= Passed(c) + 1
                            => LastStep(a) /\ a.h = "wait"
    BY <1>1, <2>1, <2>2, <2>4
  <2>q. QED BY <1>4, <2>3, <2>5, <2>6
<1>7. CASE a.g = "genTransition"
  <2>1. /\ GenTransitionStepAt(a) /\ (LastStep(a) <=> a.i = 11)
        /\ Passed(a) = IF a.i <= 2 THEN 0 ELSE IF a.i <= 5 THEN 1
                        ELSE IF a.i <= 7 THEN 2 ELSE IF a.i <= 8 THEN 3 ELSE 4
    BY <1>1, <1>7 DEF StepAt, LastStep, In, Passed, SemiGs, GenGs
  <2>2. \A c \in Places : LastStep(c) /\ c.g = a.g => Passed(c) = 4
    BY <1>7 DEF LastStep, Passed, SemiGs, GenGs
  <2>3. ~ LastStep(a) => (LastStep(After(a)) <=> a.i = 10)
    BY <1>1, <1>3, <1>7 DEF LastStep, In, SemiGs, GenGs
  <2>4. a.h = "wait" => a.i \in {5, 7, 8, 11}
    BY <2>1 DEF GenTransitionStepAt, Sharing
  <2>5. a.h \in Barrier => a.i \in {5, 7, 8, 11}
    BY <2>1 DEF GenTransitionStepAt, Sharing, Barrier
  <2>6. \A c \in Places : LastStep(c) /\ c.g = a.g /\ Level(a) >= Passed(c) + 1
                            => LastStep(a) /\ a.h = "wait"
    BY <1>1, <2>1, <2>2, <2>4
  <2>q. QED BY <1>4, <2>3, <2>5, <2>6
<1>8. CASE a.g = "off"
  <2>1. /\ OffStepAt(a) /\ (LastStep(a) <=> a.i = 9) /\ a.i >= 2
        /\ Passed(a) = IF a.i <= 3 THEN 0 ELSE IF a.i <= 5 THEN 1
                        ELSE IF a.i <= 7 THEN 2 ELSE 3
    BY <1>1, <1>8 DEF StepAt, LastStep, In, Passed, SemiGs, GenGs
  <2>2. \A c \in Places : LastStep(c) /\ c.g = a.g => Passed(c) = 3
    BY <1>8 DEF LastStep, Passed, SemiGs, GenGs
  <2>3. ~ LastStep(a) => (LastStep(After(a)) <=> a.i = 8)
    BY <1>1, <1>3, <1>8, <2>1 DEF LastStep, In, SemiGs, GenGs
  <2>4. a.h = "wait" => a.i \in {5, 7, 9}
    BY <2>1 DEF OffStepAt, Loop
  <2>5. a.h \in Barrier => a.i \in {5, 7, 9}
    BY <2>1 DEF OffStepAt, Loop, Barrier
  <2>6. \A c \in Places : LastStep(c) /\ c.g = a.g /\ Level(a) >= Passed(c) + 1
                            => LastStep(a) /\ a.h = "wait"
    BY <1>1, <2>1, <2>2, <2>4
  <2>q. QED BY <1>4, <2>3, <2>5, <2>6
<1>q. QED BY <1>1, <1>5, <1>6, <1>7, <1>8 DEF GenGs

(* The roots after a step that does not enter their completion.            *)
LEMMA RootsSame ==
  ASSUME NEW pl \in [Procs -> Places], RootsKnown(pl), NEW p \in Procs, NEW b \in Places,
         b.g = pl[p].g, b.g = "off" => \/ b.i = pl[p].i
                                       \/ pl[p].i >= 6 /\ b.i >= 6 /\ unscanned = {},
         UNCHANGED <<status, isFirst, unscanned, space, threadSpace>>
  PROVE  RootsKnown([pl EXCEPT ![p] = b])'
<1> DEFINE npl == [pl EXCEPT ![p] = b]
<1>1. npl \in [Procs -> Places] /\ npl[p] = b /\ \A q \in Procs : q # p => npl[q] = pl[q]
  OBVIOUS
<1> HIDE DEF npl
<1>2. \A q \in Procs : npl[q].i \in 1 .. 11 /\ pl[q].i \in 1 .. 11 /\ b.i \in 1 .. 11
  BY <1>1, PlaceFields
<1>3. \A q \in Procs : (npl[q].g = "off" /\ npl[q].i >= 6) <=> (pl[q].g = "off" /\ pl[q].i >= 6)
  BY <1>1, <1>2
<1>4. Completing_(npl) <=> Completing_(pl)
  BY <1>3 DEF Completing_
<1>5. \A q \in Procs : npl[q].g = "off" /\ npl[q].i >= 7 => unscanned = {}
  BY <1>1 DEF RootsKnown
<1>6. ~ Completing_(pl) => \A q \in Procs :
        npl[q].g = "off" /\ npl[q].i >= 5 /\ isFirst[q] => unscanned = Threads
  <2> SUFFICES ASSUME ~ Completing_(pl), NEW q \in Procs, npl[q].g = "off", npl[q].i >= 5,
                      isFirst[q]
               PROVE  unscanned = Threads
    OBVIOUS
  <2>1. npl[q].i = 5
    BY <1>2, <1>4 DEF Completing_
  <2>2. pl[q].g = "off" /\ pl[q].i = 5
    BY <1>1, <2>1
  <2>q. QED BY <2>2 DEF RootsKnown
<1>7. /\ space' = space /\ threadSpace' = threadSpace /\ unscanned' = unscanned
      /\ isFirst' = isFirst /\ status' = status
  OBVIOUS
<1>8. Completing_(npl)' <=> Completing_(npl)
  BY DEF Completing_
<1>q. QED BY <1>4, <1>5, <1>6, <1>7, <1>8 DEF RootsKnown, npl

(* Arriving at a strong barrier, not as the last at the last one.          *)
LEMMA ArriveStep ==
  ASSUME NEW pl \in [Procs -> Places], Known(pl), NEW p \in Procs, StrongBarrier(p),
         pl[p].h = "strong",
         \/ ~ LastStep(pl[p])
         \/ \E q \in Procs : q # p /\ ~ (LastStep(pl[q]) /\ pl[q].h = "wait")
  PROVE  Inv'
<1>0. PICK a \in Places : a = pl[p]
  OBVIOUS
<1>1. Goto(p, "wait") /\ Arrive(p)
  BY PlacedFacts DEF StrongBarrier, Known
<1>2. /\ UNCHANGED <<collector, agressive, status, type, cycle>>
      /\ UNCHANGED optionVars /\ UNCHANGED phaselessVars /\ UNCHANGED isFirst
      /\ UNCHANGED <<status, isFirst, unscanned, space, threadSpace>>
  BY DEF StrongBarrier, optionVars, stackVars, phaselessVars
<1>3. In(a) /\ a.h = "strong" /\ Passed(a) >= 1 /\ a.x \in Conts /\ Level(a) = Passed(a)
  BY <1>0, InPlaces, InHeads, LevelRange DEF Barrier
<1>4. PICK b \in Places :
         /\ b = With(a, "wait") /\ b.g = a.g /\ b.i = a.i /\ b.h = "wait" /\ b.x = a.x
         /\ In(b) /\ Passed(b) = Passed(a) /\ Level(b) = Level(a) + 1
         /\ (LastStep(b) <=> LastStep(a))
  BY <1>3, WaitPlace
<1>5. Placed([pl EXCEPT ![p] = b])' /\ [pl EXCEPT ![p] = b] \in [Procs -> Places]
  <2>1. todo' = [todo EXCEPT ![p] = Steps(b)]
    <3>1. "wait" \in Labels
      BY DEF Labels, Barrier
    <3>q. QED BY <1>0, <1>1, <1>4, <3>1, Moves DEF Known
  <2>2. Fits(b)
    <3>1. b.x # "full" /\ b.h # "forward"
      BY <1>3, <1>4 DEF Conts
    <3>q. QED BY <1>0, <1>4, <3>1 DEF Fits, Known, Placed
  <2>q. QED BY <1>2, <2>1, <2>2, PlacedStep DEF Known
<1>6. Level(a) \in Nat
  BY LevelRange
<1>7. Together([pl EXCEPT ![p] = b])'
  <2>1. arrived' = [arrived EXCEPT ![p] = @ + (Level(b) - Level(pl[p]))]
    <3>1. Level(b) - Level(pl[p]) = 1
      BY <1>0, <1>4, <1>6
    <3>q. QED BY <1>1, <3>1 DEF Arrive
  <2>2. In(b) => \A q \in Procs : q # p /\ In(pl[q]) => pl[q].g = b.g
    BY <1>0, <1>3, <1>4 DEF Known, Core, Together
  <2>3. Level(b) >= Level(pl[p]) /\ Together(pl)
    BY <1>0, <1>4, <1>6 DEF Known, Core
  <2>4. Passed(b) >= 2 => \A q \in Procs : q # p => Level(pl[q]) >= Passed(b)
    BY <1>0, <1>4 DEF Known, Core, Together
  <2>5. \/ ~ (LastStep(b) /\ b.h = "wait")
        \/ \E q \in Procs : q # p /\ ~ (LastStep(pl[q]) /\ pl[q].h = "wait")
    BY <1>0, <1>4
  <2>q. QED BY <2>1, <2>2, <2>3, <2>4, <2>5, TogetherStep
<1>8. Phase([pl EXCEPT ![p] = b])'
  <2>1. PastSet(b) <=> PastSet(pl[p])
    BY <1>0, <1>4 DEF PastSet
  <2>2. b.g = "off" => (b.i = 9 /\ isFirst'[p] <=> pl[p].i = 9 /\ isFirst[p])
    BY <1>0, <1>2, <1>4
  <2>3. ~ (pl[p].g \in OnGs /\ pl[p].i = 1)
    BY <1>0, <1>3, LatePlaces
  <2>4. \A q \in Procs : q # p => isFirst'[q] = isFirst[q]
    BY <1>2
  <2>q. QED BY <1>0, <1>2, <1>4, <2>1, <2>2, <2>3, <2>4, PhaseStep DEF Known, Core
<1>9. OneFirst([pl EXCEPT ![p] = b])'
  <2>1. PastWeak(b) <=> PastWeak(pl[p])
    BY <1>0, <1>4 DEF PastWeak
  <2>q. QED BY <1>2, <2>1, OneFirstStep DEF Known, Core
<1>10. RootsKnown([pl EXCEPT ![p] = b])'
  BY <1>0, <1>2, <1>4, RootsSame DEF Known, Core
<1>11. WorkKnown([pl EXCEPT ![p] = b])' /\ ReplicasKnown([pl EXCEPT ![p] = b])'
  <2>1. (On' <=> On)
        /\ (status' \in {"On", "PendingOff"} <=> status \in {"On", "PendingOff"})
    BY <1>2 DEF On
  <2>2. /\ Unshared(b) <=> Unshared(a)
        /\ Counted(b) <=> Counted(a)
        /\ b.g = "genOn" /\ b.i >= 8 <=> a.g = "genOn" /\ a.i >= 8
    BY <1>3, <1>4 DEF Unshared, Counted
  <2>q. QED BY <1>0, <1>2, <1>3, <1>4, <2>1, <2>2, InMove DEF Known
<1>q. QED BY <1>5, <1>7, <1>8, <1>9, <1>10, <1>11, Conclude DEF Core

(* The first processor has reset the queue before anyone passes the first  *)
(* strong barrier of CollectorOff.                                         *)
LEMMA AllReset ==
  ASSUME NEW pl \in [Procs -> Places], Together(pl), OneFirst(pl), RootsKnown(pl),
         ~ Completing_(pl), NEW p \in Procs, pl[p].g = "off", pl[p].i = 5,
         \A q \in Procs : Level(pl[q]) >= 2
  PROVE  unscanned = Threads
<1>1. PastWeak(pl[p])
  BY DEF PastWeak, Passed, SemiGs
<1>2. PICK q \in Procs : PastWeak(pl[q]) /\ isFirst[q]
  BY <1>1 DEF OneFirst
<1>3. /\ pl[q] \in Places /\ In(pl[q]) /\ In(pl[p]) /\ pl[q].i \in 1 .. 11
      /\ Level(pl[q]) = (IF pl[q].h = "wait" THEN Passed(pl[q]) + 1 ELSE Passed(pl[q]))
      /\ Level(pl[q]) >= 2
  BY <1>2, LevelRange, PlaceFields DEF PastWeak, In
<1>4. pl[q].g = "off"
  BY <1>3 DEF Together
<1>5. /\ OffStepAt(pl[q])
      /\ Passed(pl[q]) = IF pl[q].i <= 3 THEN 0 ELSE IF pl[q].i <= 5 THEN 1
                        ELSE IF pl[q].i <= 7 THEN 2 ELSE 3
  <2>1. StepAt(pl[q])
    BY PlaceFields
  <2>q. QED BY <1>4, <2>1 DEF StepAt, Passed, SemiGs
<1>6. pl[q].i >= 5
  <2>1. pl[q].i = 4 => pl[q].h = "resetJob"
    BY <1>5 DEF OffStepAt
  <2>q. QED BY <1>3, <1>5, <2>1
<1>q. QED BY <1>2, <1>4, <1>6 DEF RootsKnown

(* Leaving the last barrier of a function.                                 *)
LEMMA DoneStep ==
  ASSUME NEW pl \in [Procs -> Places], Known(pl), NEW p \in Procs, StrongBarrier(p),
         pl[p].h = "wait", pl[p].g = "done"
  PROVE  Inv'
<1>0. PICK a \in Places : a = pl[p]
  OBVIOUS
<1>1. Advance(p) /\ UNCHANGED otherVars
  <2>1. Advance(p) /\ UNCHANGED arrived
    BY PlacedFacts DEF StrongBarrier, Known
  <2>q. QED BY <2>1 DEF StrongBarrier, otherVars, stackVars
<1>2. a.h = "wait" /\ a.g = "done" /\ ~ In(a) /\ a.x \in Conts /\ a.i = 1
  BY <1>0, OutPlaces
<1>3. PICK b \in Places : /\ b = Idle(a.x) /\ b.g = "idle" /\ b.i = 1
                          /\ b.h = a.x /\ b.x = a.x
  <2>1. Idle(a.x) \in Places
    BY <1>2, NewPlaces
  <2>q. QED BY <2>1 DEF Idle
<1>4. todo' = [todo EXCEPT ![p] = Steps(b)]
  <2>1. After(a) = b
    BY <1>2, <1>3 DEF After, Size, SemiGs, GenGs
  <2>q. QED BY <1>0, <1>1, <1>2, <2>1, Moves DEF Known
<1>5. /\ ~ In(b) /\ ~ Counted(b) /\ ~ Counted(a) /\ ~ Unshared(a)
      /\ b.h \notin {"full", "forward", "check"}
  BY <1>2, <1>3, OutPlaces DEF Conts
<1>6. ~ hasShared[p] /\ local[p] = {} /\ ~ log[p] /\ localNext[p] = {}
  <2>1. WorkAt(a, local[p], hasShared[p], log[p]) /\ hasShared[p] \in BOOLEAN
        /\ log[p] \in BOOLEAN
    BY <1>0 DEF Known, WorkKnown
  <2>2. ~ KeepsAt(a, log[p]) /\ ~ NextAt(a)
    BY <1>2, <1>5 DEF KeepsAt, NextAt, Working
  <2>3. localNext[p] # {} => NextAt(a)
    BY <1>0 DEF Known, ReplicasKnown
  <2>q. QED BY <1>2, <1>5, <2>1, <2>2, <2>3 DEF WorkAt, Working
<1>7. WorkAt(b, local[p], hasShared[p], log[p]) /\ BusyAt(b, local[p])
  BY <1>3, <1>5, <1>6 DEF WorkAt, BusyAt
<1>8. Fits(b)
  BY <1>3, <1>5 DEF Fits, SemiGs, GenGs
<1>q. QED BY <1>0, <1>1, <1>2, <1>3, <1>4, <1>5, <1>6, <1>7, <1>8, QuietOut

(* Passing a strong barrier.                                               *)
LEMMA PassStep ==
  ASSUME NEW pl \in [Procs -> Places], Known(pl), NEW p \in Procs, StrongBarrier(p),
         pl[p].h = "wait", In(pl[p])
  PROVE  Inv'
<1>0. PICK a \in Places : a = pl[p]
  OBVIOUS
<1>1. Advance(p) /\ UNCHANGED arrived /\ \A q \in Procs : arrived[q] >= arrived[p]
  BY PlacedFacts DEF StrongBarrier, Known
<1>2. /\ UNCHANGED <<collector, agressive, status, type, cycle>>
      /\ UNCHANGED optionVars /\ UNCHANGED phaselessVars /\ UNCHANGED isFirst
      /\ UNCHANGED <<status, isFirst, unscanned, space, threadSpace>>
  BY DEF StrongBarrier, optionVars, stackVars, phaselessVars
<1>3. In(a) /\ a.h = "wait" /\ Passed(a) >= 1 /\ a.x \in Conts /\ Level(a) = Passed(a) + 1
      /\ Passed(a) \in Nat
  BY <1>0, InHeads, LevelRange DEF Barrier
<1>4. \A q \in Procs : Level(pl[q]) >= Level(a)
  <2> SUFFICES ASSUME NEW q \in Procs PROVE Level(pl[q]) >= Level(a)
    OBVIOUS
  <2>1. /\ arrived[q] \in Nat /\ arrived[p] \in Nat /\ Level(pl[q]) \in Nat /\ Level(a) \in Nat
        /\ arrived[q] - Level(pl[q]) = arrived[p] - Level(a)
    BY <1>0, LevelRange DEF Known, Core, Together
  <2>q. QED BY <1>1, <2>1
<1>5. ~ LastStep(a)
  <2> SUFFICES ASSUME LastStep(a) PROVE FALSE
    OBVIOUS
  <2>1. PICK q \in Procs : ~ (LastStep(pl[q]) /\ pl[q].h = "wait")
    BY DEF Known, Core, Together
  <2>2. Level(pl[q]) >= Passed(a) + 1 /\ pl[q] \in Places
    BY <1>3, <1>4
  <2>3. In(pl[q])
    BY <1>3, <2>2, LevelRange
  <2>4. pl[q].g = a.g
    BY <1>0, <1>3, <2>3 DEF Known, Core, Together
  <2>q. QED BY <2>1, <2>2, <2>3, <2>4, LastBarrier
<1>6. PICK b : b = After(a)
  OBVIOUS
<1>7. /\ Placed([pl EXCEPT ![p] = b])' /\ [pl EXCEPT ![p] = b] \in [Procs -> Places]
      /\ b \in Places /\ b.g = a.g /\ b.i = a.i + 1 /\ In(b) /\ b.h # "wait"
      /\ Level(b) = Passed(b) /\ Passed(b) = Passed(a) + 1
  <2>1. In(pl[p]) /\ ~ LastStep(pl[p]) /\ b = After(pl[p])
    BY <1>0, <1>3, <1>5, <1>6
  <2>2. Advance(p) /\ UNCHANGED optionVars
    BY <1>1, <1>2
  <2>3. Placed([pl EXCEPT ![p] = b])' /\ [pl EXCEPT ![p] = b] \in [Procs -> Places]
    BY <2>1, <2>2, PlacedNext
  <2>4. /\ b \in Places /\ b.g = a.g /\ b.i = a.i + 1 /\ In(b) /\ b.h # "wait"
        /\ Level(b) = Passed(b) /\ Passed(b) = Passed(a) + 1
    BY <1>3, <1>5, <1>6, NextPlace
  <2>q. QED BY <2>3, <2>4
<1>8. ~ LastStep(b)
  BY <1>3, <1>5, <1>6, LastBarrier DEF Barrier
<1>9. Together([pl EXCEPT ![p] = b])'
  <2>1. Level(b) = Level(pl[p]) /\ \A q \in Procs : Level(pl[q]) >= Passed(b)
    BY <1>0, <1>3, <1>4, <1>7
  <2>q. QED BY <1>0, <1>1, <1>3, <1>7, <2>1, TogetherSame DEF Known, Core
<1>10. Phase([pl EXCEPT ![p] = b])'
  <2>1. PastSet(b) <=> PastSet(pl[p])
    BY <1>0, <1>5, <1>8 DEF PastSet
  <2>2. b.g = "off" => (b.i = 9 /\ isFirst'[p] <=> pl[p].i = 9 /\ isFirst[p])
    BY <1>0, <1>3, <1>5, <1>7, <1>8 DEF LastStep, GenGs
  <2>3. ~ (pl[p].g \in OnGs /\ pl[p].i = 1)
    BY <1>0, <1>3, LatePlaces
  <2>4. \A q \in Procs : q # p => isFirst'[q] = isFirst[q]
    BY <1>2
  <2>q. QED BY <1>0, <1>2, <1>7, <2>1, <2>2, <2>3, <2>4, PhaseStep DEF Known, Core
<1>11. OneFirst([pl EXCEPT ![p] = b])'
  <2>1. PastWeak(b) <=> PastWeak(pl[p])
    BY <1>0, <1>3, <1>7 DEF PastWeak
  <2>q. QED BY <1>2, <1>7, <2>1, OneFirstStep DEF Known, Core
<1>12. a.i \in 1 .. 11 /\ (a.g = "off" => a.i \in {5, 7})
  <2>1. a.i \in 1 .. 11 /\ StepAt(a)
    BY PlaceFields
  <2>2. a.g = "off" => a.i \in {5, 7, 9}
    BY <1>3, <2>1 DEF StepAt, OffStepAt, Loop, SemiGs
  <2>q. QED BY <1>3, <1>5, <2>1, <2>2 DEF LastStep, GenGs
<1>13. RootsKnown([pl EXCEPT ![p] = b])'
  <2>1. CASE a.g = "off" /\ a.i = 5
    <3> DEFINE npl == [pl EXCEPT ![p] = b]
    <3>1. npl \in [Procs -> Places] /\ npl[p] = b /\ \A q \in Procs : q # p => npl[q] = pl[q]
      BY <1>7
    <3> HIDE DEF npl
    <3>2. b.g = "off" /\ b.i = 6
      BY <1>7, <2>1
    <3>3. Completing_(npl)
      BY <3>1, <3>2 DEF Completing_
    <3>4. \A q \in Procs : npl[q].g = "off" /\ npl[q].i >= 7 => pl[q].g = "off" /\ pl[q].i >= 7
      BY <3>1, <3>2
    <3>5. Completing_(npl)' <=> Completing_(npl)
      BY DEF Completing_
    <3>6. RootsKnown(pl)
      BY DEF Known, Core
    <3>7. /\ space' = space /\ threadSpace' = threadSpace /\ unscanned' = unscanned
          /\ isFirst' = isFirst /\ status' = status
      BY <1>2
    <3>8. status = "PendingOff" =>
            \A t \in Threads : threadSpace[t] = IF t \in unscanned THEN space ELSE 1 - space
      <4>1. CASE Completing_(pl)
        BY <3>6, <4>1 DEF RootsKnown
      <4>2. CASE ~ Completing_(pl)
        <5>1. Passed(a) = 1
          BY <2>1 DEF Passed, SemiGs
        <5>2. \A q \in Procs : Level(pl[q]) >= 2
          BY <1>3, <1>4, <5>1
        <5>3. unscanned = Threads
          BY <1>0, <2>1, <4>2, <5>2, AllReset DEF Known, Core
        <5>q. QED BY <3>6, <4>2, <5>3 DEF RootsKnown
      <4>q. QED BY <4>1, <4>2
    <3>9. ~ (status = "PendingOff") => \A t \in Threads : threadSpace[t] = space
      BY <3>6 DEF RootsKnown
    <3>q. QED BY <3>3, <3>4, <3>5, <3>6, <3>7, <3>8, <3>9 DEF RootsKnown, npl
  <2>2. CASE ~ (a.g = "off" /\ a.i = 5)
    <3>1. b.g = pl[p].g /\ (b.g = "off" => pl[p].i >= 6 /\ b.i >= 6 /\ unscanned = {})
      BY <1>0, <1>7, <1>12, <2>2 DEF Known, Core, RootsKnown
    <3>q. QED BY <1>2, <1>7, <3>1, RootsSame DEF Known, Core
  <2>q. QED BY <2>1, <2>2
<1>14. WorkKnown([pl EXCEPT ![p] = b])' /\ ReplicasKnown([pl EXCEPT ![p] = b])'
  <2>1. (On' <=> On)
        /\ (status' \in {"On", "PendingOff"} <=> status \in {"On", "PendingOff"})
    BY <1>2 DEF On
  <2>2. /\ Unshared(b) <=> Unshared(a)
        /\ Counted(b) <=> Counted(a)
        /\ b.g = "genOn" /\ b.i >= 8 <=> a.g = "genOn" /\ a.i >= 8
    BY <1>3, <1>5, <1>6, AfterShare
  <2>q. QED BY <1>0, <1>2, <1>3, <1>7, <2>1, <2>2, InMove DEF Known
<1>q. QED BY <1>7, <1>9, <1>10, <1>11, <1>13, <1>14, Conclude DEF Core

(* A processor at the last step of a function has no work.                 *)
LEMMA LastWork ==
  ASSUME NEW pl \in [Procs -> Places], WorkKnown(pl), ReplicasKnown(pl), NEW p \in Procs,
         LastStep(pl[p])
  PROVE  ~ hasShared[p] /\ local[p] = {} /\ ~ log[p] /\ localNext[p] = {}
         /\ In(pl[p]) /\ pl[p].h # "forward"
<1>0. PICK a \in Places : a = pl[p]
  OBVIOUS
<1>1. /\ In(a) /\ a.h \notin Working /\ a.h # "mutator" /\ a.h # "forward"
      /\ a.g \notin {"release", "idle"} /\ a.i = IF a.g \in GenGs THEN 11 ELSE 9
  BY <1>0, InHeads DEF LastStep, In, Working, Conts, SemiGs, GenGs
<1>2. ~ Unshared(a) /\ ~ Counted(a)
  BY <1>1 DEF Unshared, Counted, SemiGs, GenGs
<1>3. /\ WorkAt(a, local[p], hasShared[p], log[p]) /\ hasShared[p] \in BOOLEAN
      /\ log[p] \in BOOLEAN /\ (localNext[p] # {} => NextAt(a))
  BY <1>0 DEF WorkKnown, ReplicasKnown
<1>4. ~ KeepsAt(a, log[p]) /\ ~ NextAt(a)
  BY <1>1, <1>2 DEF KeepsAt, NextAt
<1>q. QED BY <1>0, <1>1, <1>2, <1>3, <1>4 DEF WorkAt

(* The last arrival at the last barrier: nobody is in a function any more, *)
(* as all that is left of it is to notice that.                            *)
LEMMA FinalStep ==
  ASSUME NEW pl \in [Procs -> Places], Known(pl), NEW p \in Procs, StrongBarrier(p),
         pl[p].h = "strong", LastStep(pl[p]),
         \A q \in Procs : q # p => LastStep(pl[q]) /\ pl[q].h = "wait"
  PROVE  Inv'
<1>1. Goto(p, "wait") /\ Arrive(p)
  BY PlacedFacts DEF StrongBarrier, Known
<1>2. UNCHANGED <<collector, agressive, status, type, cycle, isFirst, unscanned, shared,
                  next, local, localNext, hasShared, numLocalStack, space, threadSpace,
                  log, writes, mirrorVars>>
  BY DEF StrongBarrier, optionVars, stackVars
<1>3. \A q \in Procs : /\ LastStep(pl[q]) /\ In(pl[q]) /\ pl[q].g = pl[p].g
                       /\ pl[q].x \in Conts /\ pl[q] \in Places
  <2>1. \A q \in Procs : LastStep(pl[q]) /\ In(pl[q])
    BY DEF LastStep
  <2>2. \A q \in Procs : pl[q].g = pl[p].g
    BY <2>1 DEF Known, Core, Together
  <2>q. QED BY <2>1, <2>2, InHeads
<1> DEFINE d(x) == [g |-> "done", i |-> 1, h |-> "wait", x |-> x]
           npl == [q \in Procs |-> d(pl[q].x)]
<1>4. \A x \in Conts : d(x) = With(Start("done", x), "wait") /\ d(x) \in Places
  BY DEF With, Start, Places, StepAt, Gs, Labels, Barrier
<1>5. PICK w \in [Procs -> Places] : w = npl
  BY <1>3, <1>4
<1>6. \A q \in Procs : /\ w[q] = d(pl[q].x) /\ w[q].g = "done" /\ w[q].i = 1
                       /\ w[q].h = "wait" /\ w[q].x \in Conts
  BY <1>3, <1>5
<1> HIDE DEF npl, d
<1>7. \A q \in Procs : ~ In(w[q]) /\ ~ LastStep(w[q]) /\ Passed(w[q]) = 0 /\ Level(w[q]) = 0
                       /\ ~ Counted(w[q]) /\ ~ Unshared(w[q])
  BY <1>6, OutPlaces, LevelRange DEF LastStep
<1>8. Placed(w)'
  <2>1. \A q \in Procs : todo'[q] = Steps(w[q])
    <3> SUFFICES ASSUME NEW q \in Procs PROVE todo'[q] = Steps(w[q])
      OBVIOUS
    <3>0. w[q] = With(Start("done", pl[q].x), "wait")
      BY <1>3, <1>4, <1>6
    <3>1. "wait" \in Labels
      BY DEF Labels, Barrier
    <3>2. todo' = [todo EXCEPT ![p] = Steps(With(pl[p], "wait"))]
      BY <1>1, <3>1, Moves DEF Known
    <3>3. todo = [r \in Procs |-> Steps(pl[r])]
      BY DEF Known, Placed
    <3>4. CASE q = p
      <4>1. PICK b \in Places : /\ b = With(pl[p], "wait") /\ b.h = "wait" /\ b.x = pl[p].x
                                /\ LastStep(b)
        BY <1>3, WaitPlace
      <4>2. Steps(With(Start("done", b.x), b.h)) = Steps(b)
        BY <4>1, StepsOfDone
      <4>q. QED BY <3>0, <3>2, <3>3, <3>4, <4>1, <4>2
    <3>5. CASE q # p
      <4>1. Steps(With(Start("done", pl[q].x), pl[q].h)) = Steps(pl[q])
        BY <1>3, StepsOfDone
      <4>q. QED BY <3>0, <3>2, <3>3, <3>5, <4>1
    <3>q. QED BY <3>4, <3>5
  <2>2. todo' = [q \in Procs |-> Steps(w[q])]
    <3>1. todo' = [q \in Procs |-> todo'[q]]
      BY <1>1 DEF Goto, Become, Known, Placed
    <3>q. QED BY <2>1, <3>1
  <2>3. \A q \in Procs : /\ w[q].g \notin SemiGs \cup GenGs
                         /\ w[q].x # "full" /\ w[q].h # "forward"
    BY <1>6 DEF SemiGs, GenGs, Conts
  <2>q. QED BY <1>2, <2>2, <2>3 DEF Known, Placed
<1>9. Together(w)'
  <2>1. arrived \in [Procs -> Nat] /\ arrived' = [arrived EXCEPT ![p] = @ + 1]
    BY <1>1 DEF Known, Core, Together, Arrive
  <2>2. \A q \in Procs : q # p => arrived[q] = arrived[p] + 1
    <3> SUFFICES ASSUME NEW q \in Procs, q # p PROVE arrived[q] = arrived[p] + 1
      OBVIOUS
    <3>1. Passed(pl[q]) = Passed(pl[p])
      BY <1>3, LastBarrier
    <3>2. Level(pl[q]) = Passed(pl[q]) + 1 /\ Level(pl[p]) = Passed(pl[p])
          /\ Passed(pl[p]) \in Nat
      BY <1>3, LevelRange
    <3>3. arrived[q] - Level(pl[q]) = arrived[p] - Level(pl[p])
      BY DEF Known, Core, Together
    <3>q. QED BY <2>1, <3>1, <3>2, <3>3
  <2>3. arrived' \in [Procs -> Nat] /\ \A q \in Procs : arrived'[q] = arrived[p] + 1
    BY <2>1, <2>2
  <2>4. \A q, r \in Procs : arrived'[q] - Level(w[q]) = arrived'[r] - Level(w[r])
    BY <1>7, <2>3
  <2>q. QED BY <1>7, <2>3, <2>4 DEF Together
<1>10. \A q \in Procs : /\ w[q].g \notin OnGs /\ w[q].g \notin TransitionGs /\ w[q].g # "off"
                        /\ w[q].g # "genOn" /\ w[q].g # "release"
  BY <1>6 DEF OnGs, TransitionGs
<1>11. Phase(w)'
  BY <1>2, <1>10 DEF Known, Core, Phase
<1>12. OneFirst(w)'
  BY <1>2, <1>7 DEF Known, Core, OneFirst, PastWeak
<1>13. RootsKnown(w)'
  <2>1. ~ (Completing_(pl) /\ status = "PendingOff")
    <3> SUFFICES ASSUME Completing_(pl) PROVE status = "Off"
      OBVIOUS
    <3>1. \A q \in Procs : pl[q].g = "off" /\ pl[q].i = 9
      BY <1>3 DEF Completing_, LastStep, GenGs
    <3>2. PastWeak(pl[p])
      BY <3>1 DEF PastWeak, Passed, SemiGs
    <3>3. \E q \in Procs : isFirst[q]
      BY <3>2 DEF Known, Core, OneFirst
    <3>q. QED BY <3>1, <3>3 DEF Known, Core, Phase
  <2>2. \A t \in Threads : threadSpace[t] = space
    BY <2>1 DEF Known, Core, RootsKnown
  <2>3. ~ Completing_(w)
    BY <1>10 DEF Completing_
  <2>q. QED BY <1>2, <1>10, <2>2, <2>3 DEF Known, Core, RootsKnown, Completing_
<1>14. \A q \in Procs : ~ hasShared[q] /\ local[q] = {} /\ ~ log[q] /\ localNext[q] = {}
                        /\ pl[q].h # "forward"
  BY <1>3, LastWork DEF Known
<1>15. WorkKnown(w)'
  <2>1. \A q \in Procs : WorkAt(w[q], local[q], hasShared[q], log[q])'
    BY <1>2, <1>7, <1>14 DEF WorkAt
  <2>2. \A q \in Procs : BusyAt(w[q], local'[q])
    BY <1>6 DEF BusyAt
  <2>q. QED BY <1>2, <2>1, <2>2 DEF Known, WorkKnown
<1>16. ReplicasKnown(w)'
  <2>1. Fetched(w)' <=> Fetched(pl)
    <3>1. On' <=> On
      BY <1>2 DEF On
    <3>2. (\E q \in Procs : pl[q].g = "genOn") => On
      <4> SUFFICES ASSUME NEW q \in Procs, pl[q].g = "genOn" PROVE On
        OBVIOUS
      <4>1. PastSet(pl[q]) /\ pl[q].g \in OnGs
        BY <1>3 DEF PastSet, OnGs
      <4>2. status = SetOn
        BY <4>1 DEF Known, Core, Phase, OnAt
      <4>q. QED BY <4>2 DEF SetOn, On
    <3>q. QED BY <1>10, <3>1, <3>2 DEF Fetched
  <2>2. mirror' = mirror /\ primary' = primary /\ epoch' = epoch /\ held' = held
    BY <1>2 DEF mirrorVars
  <2>3. Due(pl) => Due(w)'
    <3>1. Due(w)' <=> \/ ~ Fetched(w)' /\ HasBack(next, primary)
                      \/ HasBack(shared, primary)
                      \/ \E q \in Procs : HasBack(local[q], primary)
                      \/ \E q \in Procs : w[q].h = "forward"
                      \/ SelfPointers
      BY <1>2, <2>2 DEF Due
    <3>q. QED BY <1>14, <2>1, <3>1 DEF Due
  <2>4. Deferred(pl) => Deferred(w)'
    <3>1. Deferred(w)' <=> \/ \E q \in Procs : log[q]
                           \/ \E q \in Procs : HasBack(localNext[q], Other(primary))
                           \/ Fetched(w)' /\ HasBack(next, Other(primary))
                           \/ SelfPointers
      BY <1>2, <2>2 DEF Deferred, Other
    <3>q. QED BY <2>1, <3>1 DEF Deferred
  <2>5. ReplicaTypes'
    BY <1>2, <2>2 DEF Known, ReplicasKnown, ReplicaTypes
  <2>6. BackNames(w)'
    <3>1. Names(next, IF Fetched(w)' THEN Other(primary) ELSE primary)
      BY <2>1 DEF Known, ReplicasKnown, BackNames
    <3>q. QED BY <1>2, <2>2, <3>1 DEF Known, ReplicasKnown, BackNames, Other
  <2>7. \A q \in Procs : localNext'[q] = {} /\ w[q].h # "forward"
    BY <1>2, <1>6, <1>14
  <2>8. /\ mirror'[primary'].gen \in {0, epoch'} \/ SelfPointers
        /\ type' = "Major" => mirror'[primary'].gen = 0 \/ SelfPointers
        /\ type' = "Minor" /\ mirror'[Other(primary)'].gen # 0 => Due(w)'
        /\ type' = "Minor" /\ mirror'[primary'].gen # 0 => Deferred(w)'
    BY <1>2, <2>2, <2>3, <2>4 DEF Known, ReplicasKnown, Other
  <2>q. QED BY <1>2, <1>10, <2>5, <2>6, <2>7, <2>8 DEF Known, ReplicasKnown
<1>q. QED BY <1>8, <1>9, <1>11, <1>12, <1>13, <1>15, <1>16, Conclude DEF Core

LEMMA StrongBarrierStep ==
  ASSUME NEW pl \in [Procs -> Places], Known(pl), NEW p \in Procs, StrongBarrier(p)
  PROVE  Inv'
<1>1. pl[p].h \in {"strong", "wait"}
  BY PlacedFacts DEF StrongBarrier, Known
<1>2. CASE pl[p].h = "strong"
  BY <1>2, ArriveStep, FinalStep
<1>3. CASE pl[p].h = "wait"
  BY <1>3, InPlaces, DoneStep, PassStep
<1>q. QED BY <1>1, <1>2, <1>3

----------------------------------------------------------------------------
(* Between the barriers.                                                   *)

LEMMA ResetJobStep ==
  ASSUME NEW pl \in [Procs -> Places], Known(pl), NEW p \in Procs, ResetJob(p)
  PROVE  Inv'
<1>0. PICK a \in Places : a = pl[p]
  OBVIOUS
<1>1. a.h = "resetJob" /\ Advance(p) /\ unscanned' = IF isFirst[p] THEN Threads ELSE unscanned
  BY <1>0, PlacedFacts DEF ResetJob, Known
<1>2. /\ UNCHANGED <<collector, agressive, status, type, cycle>> /\ UNCHANGED arrived
      /\ UNCHANGED optionVars /\ UNCHANGED phaselessVars /\ UNCHANGED isFirst
      /\ UNCHANGED <<space, threadSpace>>
  BY DEF ResetJob, optionVars, stackVars, phaselessVars
<1>3. In(a) /\ a.i = (IF a.g = "off" THEN 4 ELSE 3) /\ a.g \in SemiGs \cup GenGs \cup {"off"}
  BY <1>1, InPlaces, InHeads
<1>4. Passed(a) = 1 /\ Level(a) = 1
  <2>1. Passed(a) = 1
    <3>1. CASE a.g \in SemiGs
      BY <1>3, <3>1 DEF Passed, SemiGs
    <3>2. CASE a.g = "genOn"
      BY <1>3, <3>2 DEF Passed, SemiGs
    <3>3. CASE a.g = "genTransition"
      BY <1>3, <3>3 DEF Passed, SemiGs
    <3>4. CASE a.g = "off"
      BY <1>3, <3>4 DEF Passed, SemiGs
    <3>q. QED BY <1>3, <3>1, <3>2, <3>3, <3>4 DEF GenGs
  <2>q. QED BY <1>1, <2>1, LevelRange
<1>5. ~ LastStep(a)
  BY <1>3 DEF LastStep
<1>6. PICK b : b = After(a)
  OBVIOUS
<1>7. /\ b \in Places /\ b.g = a.g /\ b.i = a.i + 1 /\ In(b) /\ b.h # "wait"
      /\ Level(b) = 1 /\ Passed(b) = 1 /\ ~ LastStep(b)
  <2>1. b \in Places /\ b.g = a.g /\ b.i = a.i + 1 /\ In(b) /\ b.h # "wait"
        /\ Level(b) = Passed(b) /\ Passed(b) = Passed(a)
    BY <1>1, <1>3, <1>5, <1>6, NextPlace
  <2>2. ~ LastStep(b)
    BY <1>3, <2>1 DEF LastStep
  <2>q. QED BY <1>4, <2>1, <2>2
<1>8. ~ Completing_(pl)
  BY <1>0, <1>4, LowFacts DEF Known, Core
<1>9. Placed([pl EXCEPT ![p] = b])' /\ [pl EXCEPT ![p] = b] \in [Procs -> Places]
  BY <1>0, <1>1, <1>2, <1>3, <1>5, <1>6, PlacedNext
<1>10. Together([pl EXCEPT ![p] = b])'
  <2>1. /\ In(pl[p]) /\ In(b) /\ b.g = pl[p].g /\ Level(b) = Level(pl[p]) /\ ~ LastStep(b)
        /\ ~ (Passed(b) >= 2) /\ Together(pl) /\ UNCHANGED arrived
    BY <1>0, <1>2, <1>3, <1>4, <1>7 DEF Known, Core
  <2>q. QED BY <1>7, <2>1, TogetherSame
<1>11. Phase([pl EXCEPT ![p] = b])'
  <2>1. PastSet(b) <=> PastSet(pl[p])
    BY <1>0, <1>5, <1>7 DEF PastSet
  <2>2. b.g = "off" => (b.i = 9 /\ isFirst'[p] <=> pl[p].i = 9 /\ isFirst[p])
    BY <1>0, <1>3, <1>7
  <2>3. ~ (pl[p].g \in OnGs /\ pl[p].i = 1)
    BY <1>0, <1>3
  <2>4. \A q \in Procs : q # p => isFirst'[q] = isFirst[q]
    BY <1>2
  <2>q. QED BY <1>0, <1>2, <1>7, <2>1, <2>2, <2>3, <2>4, PhaseStep DEF Known, Core
<1>12. OneFirst([pl EXCEPT ![p] = b])'
  <2>1. PastWeak(b) <=> PastWeak(pl[p])
    BY <1>0, <1>4, <1>7 DEF PastWeak
  <2>q. QED BY <1>2, <1>7, <2>1, OneFirstStep DEF Known, Core
<1>13. RootsKnown([pl EXCEPT ![p] = b])'
  <2> DEFINE npl == [pl EXCEPT ![p] = b]
  <2>1. npl \in [Procs -> Places] /\ npl[p] = b /\ \A q \in Procs : q # p => npl[q] = pl[q]
    BY <1>7
  <2> HIDE DEF npl
  <2>2. \A q \in Procs : pl[q].i \in 1 .. 11
    BY PlaceFields
  <2>3. \A q \in Procs : ~ (npl[q].g = "off" /\ npl[q].i >= 6)
    BY <1>3, <1>7, <1>8, <2>1 DEF Completing_
  <2>4. ~ Completing_(npl)
    BY <2>3 DEF Completing_
  <2>5. \A q \in Procs : ~ (npl[q].g = "off" /\ npl[q].i >= 7)
    <3>1. \A q \in Procs : npl[q].i \in 1 .. 11
      BY <2>1, PlaceFields
    <3>q. QED BY <2>3, <3>1
  <2>6. RootsKnown(pl)
    BY DEF Known, Core
  <2>7. \A q \in Procs : npl[q].g = "off" /\ npl[q].i >= 5 /\ isFirst[q] => unscanned' = Threads
    <3> SUFFICES ASSUME NEW q \in Procs, npl[q].g = "off", npl[q].i >= 5, isFirst[q]
                 PROVE  unscanned' = Threads
      OBVIOUS
    <3>1. CASE isFirst[p]
      BY <1>1, <3>1
    <3>2. CASE ~ isFirst[p]
      <4>1. q # p /\ npl[q] = pl[q]
        BY <2>1, <3>2
      <4>2. unscanned = Threads
        BY <1>8, <2>6, <4>1 DEF RootsKnown
      <4>q. QED BY <1>1, <4>2
    <3>q. QED BY <3>1, <3>2
  <2>8. unscanned' \subseteq Threads /\ (\A t \in Threads : threadSpace[t] = space)
        /\ space' = space /\ threadSpace' = threadSpace /\ isFirst' = isFirst
    BY <1>1, <1>2, <1>8, <2>6 DEF RootsKnown
  <2>q. QED BY <2>4, <2>5, <2>6, <2>7, <2>8 DEF RootsKnown, npl, Completing_
<1>14. WorkKnown([pl EXCEPT ![p] = b])' /\ ReplicasKnown([pl EXCEPT ![p] = b])'
  <2>1. (On' <=> On)
        /\ (status' \in {"On", "PendingOff"} <=> status \in {"On", "PendingOff"})
    BY <1>2 DEF On
  <2>2. /\ Unshared(b) <=> Unshared(a)
        /\ Counted(b) <=> Counted(a)
        /\ b.g = "genOn" /\ b.i >= 8 <=> a.g = "genOn" /\ a.i >= 8
    BY <1>1, <1>3, <1>5, <1>6, AfterShare
  <2>q. QED BY <1>0, <1>2, <1>3, <1>7, <2>1, <2>2, InMove DEF Known
<1>q. QED BY <1>9, <1>10, <1>11, <1>12, <1>13, <1>14, Conclude DEF Core

(* A step of CollectorOn or of CollectorTransition between two barriers,   *)
(* to place b.                                                             *)
LEMMA InsideStep ==
  ASSUME NEW pl \in [Procs -> Places], Known(pl), NEW p \in Procs, NEW b \in Places,
         pl[p].g \in SemiGs \cup GenGs, b.g = pl[p].g, b.x = pl[p].x, b.h # "forward",
         pl[p].i > 1, b.i > 1, In(pl[p]),
         Level(b) = Level(pl[p]), Passed(b) = Passed(pl[p]),
         ~ PastSet(pl[p]), ~ PastSet(b), unscanned' \subseteq Threads,
         UNCHANGED <<collector, agressive, status, type, cycle, arrived, isFirst,
                     space, threadSpace>>,
         todo' = [todo EXCEPT ![p] = Steps(b)],
         WorkKnown([pl EXCEPT ![p] = b])', ReplicasKnown([pl EXCEPT ![p] = b])'
  PROVE  Inv'
<1>1. Core([pl EXCEPT ![p] = b])'
  BY Inside DEF Known
<1>2. UNCHANGED optionVars
  BY DEF optionVars
<1>3. Fits(b)
  <2>1. pl[p].x # "full"
    BY InHeads DEF Conts
  <2>q. QED BY <2>1 DEF Fits, Known, Placed
<1>4. Placed([pl EXCEPT ![p] = b])' /\ [pl EXCEPT ![p] = b] \in [Procs -> Places]
  BY <1>2, <1>3, PlacedStep DEF Known
<1>q. QED BY <1>1, <1>4, Conclude

(* The next place of such a step.                                          *)
LEMMA InnerNext ==
  ASSUME NEW pl \in [Procs -> Places], Known(pl), NEW p \in Procs,
         pl[p].h \in {"reset", "resetNext", "scan", "push", "leave"}
  PROVE  /\ pl[p].g \in SemiGs \cup GenGs /\ pl[p].i > 1 /\ In(pl[p]) /\ ~ PastSet(pl[p])
         /\ ~ LastStep(pl[p])
         /\ Advance(p) =>
              \E b \in Places :
                /\ b = After(pl[p]) /\ b.g = pl[p].g /\ b.x = pl[p].x /\ b.i = pl[p].i + 1
                /\ b.h \notin Loop \cup {"wait", "leave"} /\ b.h # "forward" /\ b.i > 1
                /\ In(b) /\ Level(b) = Level(pl[p]) /\ Passed(b) = Passed(pl[p])
                /\ ~ PastSet(b) /\ todo' = [todo EXCEPT ![p] = Steps(b)]
<1>0. PICK a \in Places : a = pl[p]
  OBVIOUS
<1>1. a.g \in SemiGs \cup GenGs /\ In(a) /\ a.i > 1 /\ ~ PastSet(a)
  BY <1>0, InnerPlaces
<1>2. a.g # "off" /\ a.g # "idle" /\ ~ LastStep(a)
  BY <1>1 DEF SemiGs, GenGs, PastSet
<1>3. ASSUME Advance(p)
      PROVE  \E b \in Places :
                /\ b = After(a) /\ b.g = a.g /\ b.x = a.x /\ b.i = a.i + 1
                /\ b.h \notin Loop \cup {"wait", "leave"} /\ b.h # "forward" /\ b.i > 1
                /\ In(b) /\ Level(b) = Level(a) /\ Passed(b) = Passed(a)
                /\ ~ PastSet(b) /\ todo' = [todo EXCEPT ![p] = Steps(b)]
  <2>1. PICK b : b = After(a)
    OBVIOUS
  <2>2. /\ b \in Places /\ b.g = a.g /\ b.i = a.i + 1 /\ b.x = a.x /\ In(b)
        /\ b.h \notin Loop \cup {"wait", "leave"}
    BY <1>1, <1>2, <2>1, NextPlace
  <2>3. Level(b) = Level(a) /\ Passed(b) = Passed(a) /\ ~ PastSet(b)
    BY <1>0, <2>1, InnerPlaces
  <2>4. todo' = [todo EXCEPT ![p] = Steps(b)]
    BY <1>0, <1>2, <1>3, <2>1, Moves DEF Known
  <2>5. b.h # "forward" /\ b.i > 1
    <3>1. a.i \in 1 .. 11
      BY PlaceFields
    <3>q. QED BY <1>1, <2>2, <3>1 DEF Loop
  <2>q. QED BY <2>1, <2>2, <2>3, <2>4, <2>5
<1>q. QED BY <1>0, <1>1, <1>2, <1>3

LEMMA LeaveRoots ==
  ASSUME NEW pl \in [Procs -> Places], Known(pl), NEW p \in Procs, Leave(p), At(p, "leave")
  PROVE  Inv'
<1>1. pl[p].h = "leave" /\ Advance(p)
  BY PlacedFacts DEF Leave, Known
<1>2. /\ pl[p].g \in SemiGs \cup GenGs /\ pl[p].i > 1 /\ In(pl[p]) /\ ~ PastSet(pl[p])
      /\ ~ LastStep(pl[p])
  BY <1>1, InnerNext
<1>3. PICK b \in Places :
        /\ b = After(pl[p]) /\ b.g = pl[p].g /\ b.x = pl[p].x /\ b.i = pl[p].i + 1
        /\ b.h # "forward" /\ b.i > 1
        /\ In(b) /\ Level(b) = Level(pl[p]) /\ Passed(b) = Passed(pl[p])
        /\ ~ PastSet(b) /\ todo' = [todo EXCEPT ![p] = Steps(b)]
  BY <1>1, InnerNext
<1>4. /\ UNCHANGED <<collector, agressive, status, type, cycle, arrived, isFirst,
                     space, threadSpace>>
      /\ UNCHANGED phaselessVars /\ unscanned' = unscanned
  BY DEF Leave, optionVars, stackVars, phaselessVars
<1>5. WorkKnown([pl EXCEPT ![p] = b])' /\ ReplicasKnown([pl EXCEPT ![p] = b])'
  <2>1. (On' <=> On)
        /\ (status' \in {"On", "PendingOff"} <=> status \in {"On", "PendingOff"})
    BY <1>4 DEF On
  <2>2. /\ Unshared(b) <=> Unshared(pl[p])
        /\ Counted(b) <=> Counted(pl[p])
        /\ b.g = "genOn" /\ b.i >= 8 <=> pl[p].g = "genOn" /\ pl[p].i >= 8
    BY <1>1, <1>2, <1>3, AfterShare
  <2>q. QED BY <1>2, <1>3, <1>4, <2>1, <2>2, InMove DEF Known
<1>6. unscanned' \subseteq Threads
  BY <1>4 DEF Known, Core, RootsKnown
<1>q. QED BY <1>2, <1>3, <1>4, <1>5, <1>6, InsideStep

(* What a processor at such a place has.                                   *)
LEMMA InnerWork ==
  ASSUME NEW pl \in [Procs -> Places], Known(pl), NEW p \in Procs,
         pl[p].h \in {"reset", "resetNext", "scan", "push"}
  PROVE  /\ Unshared(pl[p]) /\ pl[p].h \notin Working \cup {"forward", "check", "mutator"}
         /\ pl[p].g \notin {"release", "idle", "off"}
         /\ ~ log[p] /\ (hasShared[p] <=> Counted(pl[p]))
         /\ localNext[p] # {} => pl[p].g = "genOn"
         /\ pl[p].h \in {"reset", "resetNext"} => ~ Counted(pl[p])
<1>0. PICK a \in Places : a = pl[p]
  OBVIOUS
<1>1. /\ a.g \in SemiGs \cup GenGs /\ a.i \in 1 .. 11 /\ StepAt(a)
      /\ a.h \in {"reset", "resetNext", "scan", "push"}
  BY <1>0, InnerPlaces, PlaceFields
<1>2. /\ a.g \in SemiGs => SemiStepAt(a)
      /\ a.g = "genOn" => GenOnStepAt(a)
      /\ a.g = "genTransition" => GenTransitionStepAt(a)
  BY <1>1 DEF StepAt, SemiGs
<1>3. /\ Unshared(a) /\ (a.h \in {"reset", "resetNext"} => ~ Counted(a))
  <2>1. CASE a.g \in SemiGs
    BY <1>1, <1>2, <2>1 DEF SemiStepAt, Unshared, Counted, Barrier, Sharing, SemiGs
  <2>2. CASE a.g = "genOn"
    BY <1>1, <1>2, <2>2 DEF GenOnStepAt, Unshared, Counted, Barrier, Sharing, GenGs
  <2>3. CASE a.g = "genTransition"
    BY <1>1, <1>2, <2>3 DEF GenTransitionStepAt, Unshared, Counted, Barrier, Sharing, GenGs
  <2>q. QED BY <1>1, <2>1, <2>2, <2>3 DEF GenGs
<1>4. /\ a.h \notin Working \cup {"forward", "check", "mutator"}
      /\ a.g \notin {"release", "idle", "off"}
  BY <1>1 DEF Working, SemiGs, GenGs
<1>5. /\ WorkAt(a, local[p], hasShared[p], log[p]) /\ hasShared[p] \in BOOLEAN
      /\ log[p] \in BOOLEAN /\ (localNext[p] # {} => NextAt(a))
  BY <1>0 DEF Known, WorkKnown, ReplicasKnown
<1>6. ~ log[p] /\ (hasShared[p] <=> Counted(a)) /\ (localNext[p] # {} => a.g = "genOn")
  BY <1>4, <1>5 DEF WorkAt, NextAt
<1>q. QED BY <1>0, <1>3, <1>4, <1>6

LEMMA PushRootsStep ==
  ASSUME NEW pl \in [Procs -> Places], Known(pl), NEW p \in Procs, PushRoots(p)
  PROVE  Inv'
<1>1. pl[p].h = "push"
  BY PlacedFacts DEF PushRoots, Known
<1>2. /\ MoveToShared(p) /\ OnlyOf(p) /\ ~ hasShared'[p] /\ Goto(p, "leave")
      /\ UNCHANGED <<collector, agressive, status, type, cycle, arrived, isFirst,
                     unscanned, space, threadSpace, log, writes, mirrorVars>>
  BY Gives DEF PushRoots
<1>3. /\ pl[p].g \in SemiGs \cup GenGs /\ pl[p].i > 1 /\ In(pl[p]) /\ ~ PastSet(pl[p])
      /\ ~ LastStep(pl[p]) /\ Level(pl[p]) = Passed(pl[p])
  BY <1>1, InnerNext, InnerPlaces
<1>4. PICK b \in Places : /\ b = With(pl[p], "leave") /\ b.g = pl[p].g /\ b.i = pl[p].i
                          /\ b.h = "leave" /\ b.x = pl[p].x
  <2>1. With(pl[p], "leave") \in Places
    BY <1>1, InnerPlaces
  <2>q. QED BY <2>1 DEF With
<1>5. In(b) /\ ~ LastStep(b) /\ Passed(b) = Passed(pl[p]) /\ Level(b) = Level(pl[p])
  <2>1. In(b) /\ ~ LastStep(b) /\ Passed(b) = Passed(pl[p])
    BY <1>3, <1>4, SamePlace
  <2>q. QED BY <1>3, <1>4, <2>1 DEF Level
<1>6. todo' = [todo EXCEPT ![p] = Steps(b)]
  <2>1. "leave" \in Labels
    BY DEF Labels, Sharing
  <2>q. QED BY <1>2, <1>4, <2>1, Moves DEF Known
<1>7. ~ log[p] /\ (localNext[p] # {} => pl[p].g = "genOn" /\ pl[p].i >= 8)
  <2>1. ~ log[p] /\ (localNext[p] # {} => pl[p].g = "genOn")
    BY <1>1, InnerWork
  <2>2. pl[p].g = "genOn" => pl[p].i >= 8
    <3>1. StepAt(pl[p])
      BY PlaceFields
    <3>2. pl[p].g = "genOn" => GenOnStepAt(pl[p])
      BY <3>1 DEF StepAt, SemiGs
    <3>q. QED BY <1>1, <3>2 DEF GenOnStepAt, Barrier
  <2>q. QED BY <2>1, <2>2
<1>8. ~ Counted(b)
  BY <1>4 DEF Counted, Unshared
<1>9. b.g # "release" /\ b.g # "off" /\ b.h # "check" /\ b.h # "forward"
  BY <1>3, <1>4 DEF SemiGs, GenGs
<1>10. WorkKnown([pl EXCEPT ![p] = b])' /\ ReplicasKnown([pl EXCEPT ![p] = b])'
  <2>1. /\ pl[p].g # "genOn" \/ pl[p].i < 8 \/ b.g = "genOn"
        /\ b.g = "genOn" /\ b.i >= 8 <=> pl[p].g = "genOn" /\ pl[p].i >= 8
        /\ localNext[p] # {} => On \/ (pl[p].g = "genOn" /\ pl[p].i >= 8)
        /\ log[p] => b.h = "mutator"
        /\ pl[p].h # "forward"
    BY <1>1, <1>4, <1>7
  <2>2. UNCHANGED <<collector, agressive, status, type, writes, mirrorVars, log>>
    BY <1>2
  <2>q. QED BY <1>2, <1>8, <1>9, <2>1, <2>2, GivesAll
<1>11. unscanned' \subseteq Threads /\ ~ PastSet(b) /\ b.i > 1
  BY <1>2, <1>3, <1>4, <1>5 DEF Known, Core, RootsKnown, PastSet
<1>q. QED BY <1>2, <1>3, <1>4, <1>5, <1>6, <1>9, <1>10, <1>11, InsideStep

(* The stack of a thread becomes work of p, which stays where it is.       *)
LEMMA ScanStack ==
  ASSUME NEW pl \in [Procs -> Places], Known(pl), NEW p \in Procs, pl[p].h = "scan",
         NEW t, local' = [local EXCEPT ![p] = @ \cup {Stack(t)}],
         UNCHANGED <<collector, agressive, status, type, shared, next, localNext,
                     hasShared, numLocalStack, log, writes, mirrorVars>>
  PROVE  WorkKnown([pl EXCEPT ![p] = pl[p]])' /\ ReplicasKnown([pl EXCEPT ![p] = pl[p]])'
<1>0. PICK b \in Places : b = pl[p]
  OBVIOUS
<1>1. /\ Unshared(b) /\ b.h \notin Working \cup {"forward", "check", "mutator"}
      /\ b.g \notin {"release", "idle", "off"} /\ ~ log[p] /\ (hasShared[p] <=> Counted(b))
  BY <1>0, InnerWork
<1>2. /\ local = [q \in Procs |-> local[q]] /\ localNext = [q \in Procs |-> localNext[q]]
      /\ hasShared \in [Procs -> BOOLEAN] /\ log \in [Procs -> BOOLEAN]
      /\ Names(shared, primary) /\ Names(local[p], primary)
      /\ Names(localNext[p], Other(primary))
      /\ Names(next, IF Fetched(pl) THEN Other(primary) ELSE primary)
      /\ collector = "semi" => next = {}
  BY Stored
<1>3. /\ OnlyOf(p) /\ local'[p] = local[p] \cup {Stack(t)} /\ localNext'[p] = localNext[p]
      /\ hasShared'[p] = hasShared[p] /\ log'[p] = log[p]
  BY <1>2 DEF OnlyOf
<1>4. /\ \A q \in Procs, l \in BOOLEAN : KeepsAt(pl[q], l) => KeepsAt(pl[q], l)'
      /\ \A q \in Procs : NextAt(pl[q]) => NextAt(pl[q])'
      /\ On' <=> On
  BY SamePhase
<1>5. WorkKnown([pl EXCEPT ![p] = b])'
  <2>1. WorkAt(b, local[p], hasShared[p], log[p])'
    BY <1>1, <1>3 DEF WorkAt, KeepsAt
  <2>2. BusyAt(b, local'[p])
    BY <1>1 DEF BusyAt
  <2>q. QED BY <1>3, <1>4, <2>1, <2>2, WorkStep DEF Known
<1>6. ReplicasKnown([pl EXCEPT ![p] = b])'
  <2>1. Fetched([pl EXCEPT ![p] = b])' <=> Fetched(pl)
    BY <1>0, <1>4 DEF Fetched
  <2>2. Names(local'[p], primary) /\ (HasBack(local[p], primary) => HasBack(local'[p], primary))
    BY <1>2, <1>3 DEF Names, HasBack, Stack
  <2>3. /\ Names(shared', primary) /\ Names(localNext'[p], Other(primary))
        /\ Names(next', IF Fetched(pl) THEN Other(primary) ELSE primary)
        /\ collector = "semi" => next' = {}
        /\ shared' = shared /\ next' = next
    BY <1>2, <1>3
  <2>4. /\ type = "Minor" /\
             (\/ HasBack(shared, primary) \/ HasBack(local[p], primary)
              \/ ~ Fetched(pl) /\ HasBack(next, primary))
              => \/ HasBack(shared', primary) \/ HasBack(local'[p], primary)
                 \/ ~ Fetched(pl) /\ HasBack(next', primary)
        /\ type = "Minor" /\
             (\/ HasBack(localNext[p], Other(primary))
              \/ Fetched(pl) /\ HasBack(next, Other(primary)))
              => \/ HasBack(localNext'[p], Other(primary))
                 \/ Fetched(pl) /\ HasBack(next', Other(primary))
    BY <1>3, <2>2, <2>3
  <2>5. localNext'[p] # {} => collector = "gen" /\ NextAt(b)'
    <3>1. localNext[p] # {} => collector = "gen" /\ NextAt(pl[p])
      BY DEF Known, ReplicasKnown
    <3>q. QED BY <1>0, <1>3, <1>4, <3>1
  <2>6. /\ UNCHANGED <<collector, type, writes, mirrorVars>> /\ (type = "Minor" => UNCHANGED log)
        /\ (b.h = "forward" <=> pl[p].h = "forward") /\ (On => On') /\ b.g # "release"
    BY <1>0, <1>1, <1>4
  <2>q. QED BY <1>3, <1>4, <2>1, <2>2, <2>3, <2>4, <2>5, <2>6, ReplicasStep DEF Known
<1>q. QED BY <1>0, <1>5, <1>6

LEMMA InitialScanStep ==
  ASSUME NEW pl \in [Procs -> Places], Known(pl), NEW p \in Procs, InitialScan(p)
  PROVE  Inv'
<1>1. pl[p].h = "scan"
  BY PlacedFacts DEF InitialScan, Known
<1>2. /\ pl[p].g \in SemiGs \cup GenGs /\ pl[p].i > 1 /\ In(pl[p]) /\ ~ PastSet(pl[p])
      /\ ~ LastStep(pl[p])
  BY <1>1, InnerNext
<1>3. /\ UNCHANGED <<collector, agressive, status, type, cycle, arrived, isFirst,
                     space, threadSpace>>
      /\ UNCHANGED <<collector, agressive, status, type, shared, next, localNext,
                     hasShared, numLocalStack, log, writes, mirrorVars>>
      /\ UNCHANGED <<optionVars, type, shared, next, localNext, hasShared,
                     numLocalStack, log, writes, mirrorVars>>
  BY DEF InitialScan, optionVars
<1>4. unscanned' \subseteq Threads
  BY DEF InitialScan, Known, Core, RootsKnown
<1>5. ASSUME NEW t \in unscanned, local' = [local EXCEPT ![p] = @ \cup {Stack(t)}],
             UNCHANGED todo
      PROVE  Inv'
  <2>0. PICK b \in Places : b = pl[p]
    OBVIOUS
  <2>1. WorkKnown([pl EXCEPT ![p] = b])' /\ ReplicasKnown([pl EXCEPT ![p] = b])'
    BY <1>1, <1>3, <1>5, <2>0, ScanStack
  <2>2. todo' = [todo EXCEPT ![p] = Steps(b)]
    BY <1>5, <2>0 DEF Known, Placed
  <2>3. /\ b.g = pl[p].g /\ b.x = pl[p].x /\ b.h # "forward" /\ b.i > 1
        /\ Level(b) = Level(pl[p]) /\ Passed(b) = Passed(pl[p]) /\ ~ PastSet(b)
    BY <1>1, <1>2, <2>0
  <2>q. QED BY <1>2, <1>3, <1>4, <2>1, <2>2, <2>3, InsideStep
<1>6. ASSUME Advance(p), UNCHANGED local
      PROVE  Inv'
  <2>1. PICK b \in Places :
          /\ b = After(pl[p]) /\ b.g = pl[p].g /\ b.x = pl[p].x /\ b.i = pl[p].i + 1
          /\ b.h # "forward" /\ b.i > 1
          /\ In(b) /\ Level(b) = Level(pl[p]) /\ Passed(b) = Passed(pl[p])
          /\ ~ PastSet(b) /\ todo' = [todo EXCEPT ![p] = Steps(b)]
    BY <1>1, <1>6, InnerNext
  <2>2. /\ Unshared(b) <=> Unshared(pl[p])
        /\ Counted(b) <=> Counted(pl[p])
        /\ b.g = "genOn" /\ b.i >= 8 <=> pl[p].g = "genOn" /\ pl[p].i >= 8
    BY <1>1, <1>2, <2>1, AfterShare
  <2>3. /\ UNCHANGED phaselessVars /\ (On' <=> On)
        /\ (status' \in {"On", "PendingOff"} <=> status \in {"On", "PendingOff"})
    BY <1>3, <1>6 DEF phaselessVars, On
  <2>4. WorkKnown([pl EXCEPT ![p] = b])' /\ ReplicasKnown([pl EXCEPT ![p] = b])'
    BY <1>2, <2>1, <2>2, <2>3, InMove DEF Known
  <2>q. QED BY <1>2, <1>3, <1>4, <2>1, <2>4, InsideStep
<1>q. QED BY <1>5, <1>6 DEF InitialScan

(* While a processor completes stacks no other can have flipped.           *)
LEMMA CompleteFacts ==
  ASSUME NEW pl \in [Procs -> Places], Known(pl), NEW p \in Procs, pl[p].h = "complete"
  PROVE  /\ pl[p].g = "off" /\ pl[p].i = 6 /\ In(pl[p]) /\ ~ LastStep(pl[p])
         /\ Passed(pl[p]) = 2 /\ Level(pl[p]) = 2 /\ status = "PendingOff"
         /\ \A q \in Procs : Level(pl[q]) >= 2
<1>0. PICK a \in Places : a = pl[p]
  OBVIOUS
<1>1. a.g = "off" /\ a.i = 6 /\ In(a)
  BY <1>0, InPlaces
<1>2. Passed(a) = 2 /\ ~ LastStep(a)
  BY <1>1 DEF Passed, LastStep, SemiGs, GenGs
<1>3. Level(a) = 2
  BY <1>0, <1>2, LevelRange
<1>4. \A q \in Procs : Level(pl[q]) >= 2 /\ (Passed(pl[q]) >= 2 => 2 >= Passed(pl[q]))
  BY <1>0, <1>2, <1>3 DEF Known, Core, Together
<1>5. ~ SomeFlipped(pl)
  <2> SUFFICES ASSUME NEW q \in Procs, pl[q].g = "off", pl[q].i = 9
               PROVE  FALSE
    BY DEF SomeFlipped
  <2>1. Passed(pl[q]) = 3
    BY DEF Passed, SemiGs, GenGs
  <2>q. QED BY <1>4, <2>1
<1>6. status = "PendingOff"
  BY <1>0, <1>1, <1>5 DEF Known, Core, Phase, OffAt
<1>q. QED BY <1>0, <1>1, <1>2, <1>3, <1>4, <1>6

(* The roots of a thread are flipped.                                      *)
LEMMA CompleteThread ==
  ASSUME NEW pl \in [Procs -> Places], Known(pl), NEW p \in Procs, pl[p].h = "complete",
         NEW t \in unscanned, unscanned' = unscanned \ {t},
         threadSpace' = [threadSpace EXCEPT ![t] = 1 - @],
         UNCHANGED <<optionVars, status, type, cycle, todo, arrived, isFirst, space>>,
         UNCHANGED phaselessVars
  PROVE  Inv'
<1>0. PICK b \in Places : b = pl[p]
  OBVIOUS
<1>1. pl[p].g = "off" /\ pl[p].i = 6 /\ In(pl[p]) /\ status = "PendingOff"
  BY CompleteFacts
<1>2. UNCHANGED <<collector, agressive>> /\ pl = [pl EXCEPT ![p] = b]
  BY <1>0 DEF optionVars
<1>3. WorkKnown([pl EXCEPT ![p] = b])' /\ ReplicasKnown([pl EXCEPT ![p] = b])'
  <2>1. (On' <=> On)
        /\ (status' \in {"On", "PendingOff"} <=> status \in {"On", "PendingOff"})
    BY <1>2 DEF On
  <2>q. QED BY <1>0, <1>1, <2>1, InMove DEF Known
<1>4. Placed(pl)'
  BY <1>2 DEF Known, Placed
<1>5. Together(pl)' /\ OneFirst(pl)'
  BY DEF Known, Core, Together, OneFirst
<1>6. Phase(pl)'
  <2>1. Phase([pl EXCEPT ![p] = b])'
    <3>1. /\ b.g = pl[p].g /\ (PastSet(b) <=> PastSet(pl[p]))
          /\ (b.g = "off" => (b.i = 9 /\ isFirst'[p] <=> pl[p].i = 9 /\ isFirst[p]))
          /\ \A q \in Procs : q # p => isFirst'[q] = isFirst[q]
          /\ ~ (pl[p].g \in OnGs)
      BY <1>0, <1>1 DEF OnGs
    <3>q. QED BY <1>2, <3>1, PhaseStep DEF Known, Core
  <2>q. QED BY <1>2, <2>1
<1>7. RootsKnown(pl)'
  <2>1. Completing_(pl) /\ RootsKnown(pl)
    BY <1>1 DEF Completing_, Known, Core
  <2>2. t \in Threads /\ unscanned' \subseteq Threads
        /\ \A q \in Procs : ~ (pl[q].g = "off" /\ pl[q].i >= 7)
    BY <2>1 DEF RootsKnown
  <2>3. /\ space \in {0, 1} /\ threadSpace \in [Threads -> {0, 1}]
        /\ \A s \in Threads : threadSpace[s] = IF s \in unscanned THEN space ELSE 1 - space
    BY <1>1, <2>1 DEF RootsKnown
  <2>4. \A s \in Threads : threadSpace'[s] = IF s \in unscanned' THEN space ELSE 1 - space
    BY <2>2, <2>3
  <2>5. threadSpace' \in [Threads -> {0, 1}]
    BY <2>2, <2>3
  <2>6. Completing_(pl)' /\ status' = "PendingOff"
    BY <1>1, <2>1 DEF Completing_
  <2>q. QED BY <2>2, <2>3, <2>4, <2>5, <2>6 DEF RootsKnown
<1>q. QED BY <1>2, <1>3, <1>4, <1>5, <1>6, <1>7, Conclude DEF Core

LEMMA CompleteScanStep ==
  ASSUME NEW pl \in [Procs -> Places], Known(pl), NEW p \in Procs, CompleteScan(p)
  PROVE  Inv'
<1>1. pl[p].h = "complete"
  BY PlacedFacts DEF CompleteScan, Known
<1>2. /\ pl[p].g = "off" /\ pl[p].i = 6 /\ In(pl[p]) /\ ~ LastStep(pl[p])
      /\ Passed(pl[p]) = 2 /\ Level(pl[p]) = 2
      /\ \A q \in Procs : Level(pl[q]) >= 2
  BY <1>1, CompleteFacts
<1>3. /\ UNCHANGED <<collector, agressive, status, type, cycle>> /\ UNCHANGED arrived
      /\ UNCHANGED optionVars /\ UNCHANGED phaselessVars /\ UNCHANGED isFirst
      /\ UNCHANGED space
  BY DEF CompleteScan, optionVars, stackVars, phaselessVars
<1>4. ASSUME NEW t \in unscanned, unscanned' = unscanned \ {t},
             threadSpace' = [threadSpace EXCEPT ![t] = 1 - @], UNCHANGED todo
      PROVE  Inv'
  BY <1>1, <1>3, <1>4, CompleteThread
<1>5. ASSUME unscanned = {}, Advance(p), UNCHANGED <<unscanned, threadSpace>>
      PROVE  Inv'
  <2>1. PICK b : b = After(pl[p])
    OBVIOUS
  <2>2. /\ b \in Places /\ b.g = "off" /\ b.i = 7 /\ In(b) /\ b.h # "wait"
        /\ Level(b) = 2 /\ Passed(b) = 2 /\ ~ LastStep(b)
    <3>1. /\ b \in Places /\ b.g = "off" /\ b.i = 7 /\ In(b) /\ b.h # "wait"
          /\ Level(b) = Passed(b) /\ Passed(b) = 2
      BY <1>1, <1>2, <2>1, NextPlace
    <3>2. ~ LastStep(b)
      BY <3>1 DEF LastStep, GenGs
    <3>q. QED BY <3>1, <3>2
  <2>3. Placed([pl EXCEPT ![p] = b])' /\ [pl EXCEPT ![p] = b] \in [Procs -> Places]
    BY <1>2, <1>3, <1>5, <2>1, PlacedNext
  <2>4. Together([pl EXCEPT ![p] = b])'
    <3>1. /\ In(pl[p]) /\ In(b) /\ b.g = pl[p].g /\ Level(b) = Level(pl[p]) /\ ~ LastStep(b)
          /\ \A q \in Procs : q # p => Level(pl[q]) >= Passed(b)
          /\ Together(pl) /\ UNCHANGED arrived
      BY <1>2, <1>3, <2>2 DEF Known, Core
    <3>q. QED BY <2>2, <3>1, TogetherSame
  <2>5. Phase([pl EXCEPT ![p] = b])'
    <3>1. /\ b.g = pl[p].g /\ (PastSet(b) <=> PastSet(pl[p]))
          /\ (b.g = "off" => (b.i = 9 /\ isFirst'[p] <=> pl[p].i = 9 /\ isFirst[p]))
          /\ \A q \in Procs : q # p => isFirst'[q] = isFirst[q]
          /\ ~ (pl[p].g \in OnGs)
      BY <1>2, <1>3, <2>2 DEF PastSet, OnGs
    <3>q. QED BY <1>3, <2>2, <3>1, PhaseStep DEF Known, Core
  <2>6. OneFirst([pl EXCEPT ![p] = b])'
    <3>1. PastWeak(b) <=> PastWeak(pl[p])
      BY <1>2, <2>2 DEF PastWeak
    <3>q. QED BY <1>3, <2>2, <3>1, OneFirstStep DEF Known, Core
  <2>7. RootsKnown([pl EXCEPT ![p] = b])'
    <3>1. /\ b.g = pl[p].g /\ pl[p].i >= 6 /\ b.i >= 6 /\ unscanned = {}
          /\ UNCHANGED <<status, isFirst, unscanned, space, threadSpace>>
      BY <1>2, <1>3, <1>5, <2>2
    <3>q. QED BY <2>2, <3>1, RootsSame DEF Known, Core
  <2>8. WorkKnown([pl EXCEPT ![p] = b])' /\ ReplicasKnown([pl EXCEPT ![p] = b])'
    <3>1. (On' <=> On)
          /\ (status' \in {"On", "PendingOff"} <=> status \in {"On", "PendingOff"})
      BY <1>3 DEF On
    <3>2. /\ Unshared(b) <=> Unshared(pl[p])
          /\ Counted(b) <=> Counted(pl[p])
          /\ b.g = "genOn" /\ b.i >= 8 <=> pl[p].g = "genOn" /\ pl[p].i >= 8
      BY <1>1, <1>2, <2>1, AfterShare
    <3>q. QED BY <1>2, <1>3, <2>2, <3>1, <3>2, InMove DEF Known
  <2>q. QED BY <2>3, <2>4, <2>5, <2>6, <2>7, <2>8, Conclude DEF Core
<1>q. QED BY <1>4, <1>5 DEF CompleteScan

(* Before the first reset of the stack that begins a collection nothing    *)
(* has been fetched, and after it the locations are.                       *)
LEMMA ResetNextFacts ==
  ASSUME NEW pl \in [Procs -> Places], Known(pl), NEW p \in Procs, pl[p].h = "resetNext"
  PROVE  /\ pl[p].g = "genOn" /\ pl[p].i = 7 /\ collector = "gen"
         /\ numLocalStack = 0 <=> ~ Fetched(pl)
<1>0. PICK a \in Places : a = pl[p]
  OBVIOUS
<1>1. a.g = "genOn" /\ a.i = 7 /\ In(a)
  <2>1. a.g \in SemiGs \cup GenGs /\ StepAt(a) /\ In(a)
    BY <1>0, InnerPlaces, PlaceFields
  <2>2. /\ a.g \in SemiGs => SemiStepAt(a)
        /\ a.g = "genOn" => GenOnStepAt(a)
        /\ a.g = "genTransition" => GenTransitionStepAt(a)
    BY <2>1 DEF StepAt, SemiGs
  <2>3. a.g \notin SemiGs
    BY <1>0, <2>2 DEF SemiStepAt, Barrier, Sharing, SemiGs
  <2>4. a.g # "genTransition"
    BY <1>0, <2>2 DEF GenTransitionStepAt, Barrier, Sharing
  <2>5. a.g = "genOn"
    BY <2>1, <2>3, <2>4 DEF GenGs
  <2>6. a.i = 7
    BY <1>0, <2>2, <2>5 DEF GenOnStepAt, Barrier, Sharing
  <2>q. QED BY <2>1, <2>5, <2>6
<1>2. Passed(a) = 3 /\ Level(a) = 3
  <2>1. Passed(a) = 3
    BY <1>1 DEF Passed, SemiGs
  <2>q. QED BY <1>0, <2>1, LevelRange
<1>3. \A q \in Procs : Level(pl[q]) >= 3 /\ ~ (Passed(pl[q]) > 3)
  <2>1. \A q \in Procs : /\ Passed(pl[p]) >= 2 => Level(pl[q]) >= Passed(pl[p])
                         /\ Passed(pl[q]) >= 2 => Level(pl[p]) >= Passed(pl[q])
                         /\ Passed(pl[q]) \in 0 .. 4
    BY LevelRange DEF Known, Core, Together
  <2>q. QED BY <1>0, <1>2, <2>1
<1>4. \A q \in Procs : pl[q].g = "genOn" /\ In(pl[q]) /\ pl[q] \in Places
  <2>1. \A q \in Procs : In(pl[q])
    BY <1>3, LevelRange
  <2>q. QED BY <1>0, <1>1, <2>1 DEF Known, Core, Together
<1>5. \A q \in Procs : ~ PastSet(pl[q]) /\ (Counted(pl[q]) <=> pl[q].i >= 8)
                       /\ pl[q].h \notin Working
  <2> SUFFICES ASSUME NEW c \in Places, c.g = "genOn", In(c), ~ (Passed(c) > 3)
               PROVE  ~ PastSet(c) /\ (Counted(c) <=> c.i >= 8) /\ c.h \notin Working
    BY <1>3, <1>4
  <2>1. c.i \in 1 .. 11 /\ StepAt(c) /\ GenOnStepAt(c)
    BY PlaceFields DEF StepAt, SemiGs
  <2>2. c.i <= 8
    BY <2>1 DEF Passed, SemiGs
  <2>3. ~ PastSet(c)
    BY <2>2 DEF PastSet, LastStep, GenGs
  <2>4. c.h # "leave" /\ c.h \notin Working
    BY <2>1, <2>2 DEF GenOnStepAt, Barrier, Working
  <2>5. Counted(c) <=> c.i >= 8
    BY <2>1, <2>2, <2>4 DEF Counted, Unshared, GenGs, SemiGs
  <2>q. QED BY <2>3, <2>4, <2>5
<1>6. ~ On
  <2>1. OnAt(a, SomeSet(pl))
    BY <1>0, <1>1 DEF Known, Core, Phase, OnGs
  <2>2. status = PendingOn(type)
    BY <1>1, <1>5, <2>1 DEF OnAt, SomeSet
  <2>q. QED BY <2>2 DEF On, PendingOn
<1>7. \A q \in Procs : hasShared[q] <=> pl[q].i >= 8
  <2>1. \A q \in Procs : /\ hasShared[q] => pl[q].h \in Working \/ Counted(pl[q])
                         /\ Counted(pl[q]) => hasShared[q]
    BY DEF Known, WorkKnown, WorkAt
  <2>q. QED BY <1>5, <2>1
<1>8. numLocalStack = 0 <=> ~ \E q \in Procs : hasShared[q]
  <2>1. IsFiniteSet({q \in Procs : hasShared[q]})
    BY FS_Subset, ConcurrentAssumption
  <2>2. numLocalStack = Cardinality({q \in Procs : hasShared[q]})
    BY DEF Known, WorkKnown
  <2>3. numLocalStack = 0 <=> {q \in Procs : hasShared[q]} = {}
    BY <2>1, <2>2, FS_EmptySet
  <2>q. QED BY <2>3
<1>9. numLocalStack = 0 <=> ~ Fetched(pl)
  BY <1>4, <1>6, <1>7, <1>8 DEF Fetched
<1>10. collector = "gen"
  BY <1>0, <1>1 DEF Known, Placed, GenGs
<1>q. QED BY <1>0, <1>1, <1>9, <1>10

(* The locations kept for this collection become work of it.               *)
LEMMA Fetch ==
  ASSUME NEW pl \in [Procs -> Places], Known(pl), NEW p \in Procs, NEW b \in Places,
         ~ Fetched(pl), shared' = shared \cup next, next' = {},
         UNCHANGED <<collector, agressive, status, type, local, localNext, log, writes,
                     mirrorVars>>,
         pl[p].g = "genOn", b.g = "genOn", b.i >= 8, Unshared(b),
         b.h # "forward", pl[p].h # "forward"
  PROVE  ReplicasKnown([pl EXCEPT ![p] = b])'
<1> DEFINE npl == [pl EXCEPT ![p] = b]
<1>1. npl \in [Procs -> Places] /\ npl[p] = b /\ \A q \in Procs : q # p => npl[q] = pl[q]
  OBVIOUS
<1> HIDE DEF npl
<1>2. /\ mirror' = mirror /\ primary' = primary /\ epoch' = epoch /\ held' = held
      /\ writes' = writes /\ type' = type /\ collector' = collector
      /\ local' = local /\ localNext' = localNext /\ log' = log
  BY DEF mirrorVars
<1>3. \A q \in Procs : NextAt(pl[q]) => NextAt(pl[q])'
  BY SamePhase
<1>4. On' <=> On
  BY DEF On
<1>5. ReplicaTypes'
  BY <1>2 DEF Known, ReplicasKnown, ReplicaTypes
<1>6. BackNames(npl)'
  <2>1. BackNames(pl)
    BY DEF Known, ReplicasKnown
  <2>2. Names(shared', primary) /\ \A i : Names(next', i)
    BY <2>1 DEF BackNames, Names
  <2>q. QED BY <1>2, <2>1, <2>2 DEF BackNames, Other
<1>7. \A q \in Procs :
        /\ collector = "gen" /\ npl[q].g = "release" => On'
        /\ localNext'[q] # {} => collector = "gen" /\ NextAt(npl[q])'
        /\ npl[q].h = "forward" => held[q].at = Other(primary)
  <2>1. NextAt(b)'
    BY DEF NextAt
  <2>2. pl[p].g \in GenGs
    BY DEF GenGs
  <2>3. collector = "gen"
    BY <2>2 DEF Known, Placed
  <2>q. QED BY <1>1, <1>2, <1>3, <1>4, <2>1, <2>3 DEF Known, ReplicasKnown
<1>8. Due(pl) => Due(npl)'
  <2>1. (\E q \in Procs : pl[q].h = "forward") => \E q \in Procs : npl[q].h = "forward"
    BY <1>1
  <2>2. HasBack(next, primary) \/ HasBack(shared, primary) => HasBack(shared', primary)
    BY DEF HasBack
  <2>3. Due(npl)' <=> \/ ~ Fetched(npl)' /\ HasBack(next', primary)
                      \/ HasBack(shared', primary)
                      \/ \E q \in Procs : HasBack(local[q], primary)
                      \/ \E q \in Procs : npl[q].h = "forward"
                      \/ SelfPointers
    BY <1>2 DEF Due
  <2>q. QED BY <2>1, <2>2, <2>3 DEF Due
<1>9. Deferred(pl) => Deferred(npl)'
  <2>1. Deferred(npl)' <=> \/ \E q \in Procs : log[q]
                           \/ \E q \in Procs : HasBack(localNext[q], Other(primary))
                           \/ Fetched(npl)' /\ HasBack(next', Other(primary))
                           \/ SelfPointers
    BY <1>2 DEF Deferred, Other
  <2>q. QED BY <2>1 DEF Deferred
<1>10. /\ mirror'[primary'].gen \in {0, epoch'} \/ SelfPointers
       /\ type' = "Major" => mirror'[primary'].gen = 0 \/ SelfPointers
       /\ type' = "Minor" /\ mirror'[Other(primary)'].gen # 0 => Due(npl)'
       /\ type' = "Minor" /\ mirror'[primary'].gen # 0 => Deferred(npl)'
  BY <1>2, <1>8, <1>9 DEF Known, ReplicasKnown, Other
<1>q. QED BY <1>2, <1>5, <1>6, <1>7, <1>10 DEF ReplicasKnown, npl, Other

(* p is counted, and what the stack holds stays where it is.               *)
LEMMA NoFetch ==
  ASSUME NEW pl \in [Procs -> Places], Known(pl), NEW p \in Procs, NEW b \in Places,
         OnlyOf(p), Fetched([pl EXCEPT ![p] = b])' <=> Fetched(pl),
         UNCHANGED <<collector, type, shared, next, local, localNext, log, writes,
                     mirrorVars>>,
         \A q \in Procs : NextAt(pl[q]) => NextAt(pl[q])',
         On => On',
         localNext[p] # {} => NextAt(b)', b.g # "release",
         b.h # "forward", pl[p].h # "forward"
  PROVE  ReplicasKnown([pl EXCEPT ![p] = b])'
<1>2. /\ Names(shared, primary) /\ Names(local[p], primary)
      /\ Names(localNext[p], Other(primary))
      /\ Names(next, IF Fetched(pl) THEN Other(primary) ELSE primary)
      /\ collector = "semi" => next = {}
  BY Stored
<1>3. /\ shared' = shared /\ next' = next /\ local'[p] = local[p]
      /\ localNext'[p] = localNext[p]
  OBVIOUS
<1>4. localNext'[p] # {} => collector = "gen" /\ NextAt(b)'
  BY DEF Known, ReplicasKnown
<1>5. /\ type = "Minor" /\
           (\/ HasBack(shared, primary) \/ HasBack(local[p], primary)
            \/ ~ Fetched(pl) /\ HasBack(next, primary))
            => \/ HasBack(shared', primary) \/ HasBack(local'[p], primary)
               \/ ~ Fetched(pl) /\ HasBack(next', primary)
      /\ type = "Minor" /\
           (\/ HasBack(localNext[p], Other(primary))
            \/ Fetched(pl) /\ HasBack(next, Other(primary)))
            => \/ HasBack(localNext'[p], Other(primary))
               \/ Fetched(pl) /\ HasBack(next', Other(primary))
  BY <1>3
<1>6. /\ Names(shared', primary) /\ Names(local'[p], primary)
      /\ Names(localNext'[p], Other(primary))
      /\ Names(next', IF Fetched(pl) THEN Other(primary) ELSE primary)
      /\ collector = "semi" => next' = {}
  BY <1>2, <1>3
<1>7. /\ UNCHANGED <<collector, type, writes, mirrorVars>> /\ (type = "Minor" => UNCHANGED log)
      /\ (b.h = "forward" <=> pl[p].h = "forward")
  OBVIOUS
<1>q. QED BY <1>4, <1>5, <1>6, <1>7, ReplicasStep DEF Known

LEMMA ResetStackStep ==
  ASSUME NEW pl \in [Procs -> Places], Known(pl), NEW p \in Procs, ResetStack(p)
  PROVE  Inv'
<1>1. pl[p].h \in {"reset", "resetNext"} /\ (At(p, "resetNext") <=> pl[p].h = "resetNext")
  BY PlacedFacts DEF ResetStack, Known
<1>2. /\ pl[p].g \in SemiGs \cup GenGs /\ pl[p].i > 1 /\ In(pl[p]) /\ ~ PastSet(pl[p])
      /\ ~ LastStep(pl[p])
  BY <1>1, InnerNext
<1>3. PICK b \in Places :
        /\ b = After(pl[p]) /\ b.g = pl[p].g /\ b.x = pl[p].x /\ b.i = pl[p].i + 1
        /\ b.h \notin Loop \cup {"wait", "leave"} /\ b.h # "forward" /\ b.i > 1
        /\ In(b) /\ Level(b) = Level(pl[p]) /\ Passed(b) = Passed(pl[p])
        /\ ~ PastSet(b) /\ todo' = [todo EXCEPT ![p] = Steps(b)]
  BY <1>1, InnerNext DEF ResetStack
<1>4. /\ UNCHANGED <<collector, agressive, status, type, cycle, arrived, isFirst,
                     space, threadSpace>>
      /\ UNCHANGED <<collector, agressive, status, type, local, localNext, log, writes,
                     mirrorVars>>
      /\ unscanned' = unscanned
      /\ hasShared' = [hasShared EXCEPT ![p] = TRUE]
      /\ numLocalStack' = numLocalStack + 1
  BY DEF ResetStack, optionVars
<1>5. /\ Unshared(pl[p]) /\ pl[p].h # "forward" /\ ~ log[p] /\ ~ hasShared[p]
      /\ localNext[p] # {} => pl[p].g = "genOn"
  BY <1>1, InnerWork
<1>6. Unshared(b) /\ Counted(b) /\ b.g \notin {"release", "off", "idle"} /\ b.h # "check"
  <2>0. PICK a \in Places : a = pl[p]
    OBVIOUS
  <2>1. /\ a.i \in 1 .. 11 /\ StepAt(a) /\ a.h \in {"reset", "resetNext"}
        /\ a.g \in SemiGs \cup GenGs
    BY <1>1, <1>2, <2>0, PlaceFields
  <2>2. /\ a.g \in SemiGs => SemiStepAt(a)
        /\ a.g = "genOn" => GenOnStepAt(a)
        /\ a.g = "genTransition" => GenTransitionStepAt(a)
    BY <2>1 DEF StepAt, SemiGs
  <2>3. a.i = IF a.g = "genOn" THEN 7 ELSE 4
    <3>1. CASE a.g \in SemiGs
      BY <2>1, <2>2, <3>1 DEF SemiStepAt, Barrier, Sharing, SemiGs
    <3>2. CASE a.g = "genOn"
      BY <2>1, <2>2, <3>2 DEF GenOnStepAt, Barrier, Sharing
    <3>3. CASE a.g = "genTransition"
      BY <2>1, <2>2, <3>3 DEF GenTransitionStepAt, Barrier, Sharing
    <3>q. QED BY <2>1, <3>1, <3>2, <3>3 DEF GenGs
  <2>4. Unshared(b) /\ Counted(b)
    BY <1>3, <2>0, <2>1, <2>3 DEF Unshared, Counted, SemiGs, GenGs
  <2>q. QED BY <1>2, <1>3, <2>4 DEF Loop, SemiGs, GenGs
<1>7. /\ local = [q \in Procs |-> local[q]] /\ localNext = [q \in Procs |-> localNext[q]]
      /\ hasShared \in [Procs -> BOOLEAN] /\ log \in [Procs -> BOOLEAN]
  BY Stored
<1>8. OnlyOf(p) /\ hasShared'[p] = TRUE /\ local'[p] = local[p] /\ log'[p] = FALSE
  BY <1>4, <1>5, <1>7 DEF OnlyOf
<1>9. WorkKnown([pl EXCEPT ![p] = b])'
  <2>1. \A q \in Procs, l \in BOOLEAN : KeepsAt(pl[q], l) => KeepsAt(pl[q], l)'
    BY <1>4, SamePhase
  <2>2. WorkAt(b, local[p], hasShared[p], log[p])'
    BY <1>6, <1>8 DEF WorkAt, KeepsAt
  <2>3. BusyAt(b, local'[p])
    BY <1>6 DEF BusyAt
  <2>q. QED BY <1>8, <2>1, <2>2, <2>3, WorkStep DEF Known
<1>10. localNext[p] # {} => NextAt(b)'
  BY <1>3, <1>5, <1>6 DEF NextAt
<1>11. ReplicasKnown([pl EXCEPT ![p] = b])'
  <2>0. (On' <=> On) /\ \A q \in Procs : NextAt(pl[q]) => NextAt(pl[q])'
    BY <1>4, SamePhase
  <2>1. CASE pl[p].h = "reset"
    <3>1. pl[p].g # "genOn"
      <4>1. StepAt(pl[p])
        BY PlaceFields
      <4>2. pl[p].g = "genOn" => GenOnStepAt(pl[p])
        BY <4>1 DEF StepAt, SemiGs
      <4>q. QED BY <2>1, <4>2 DEF GenOnStepAt, Barrier, Sharing
    <3>2. Fetched([pl EXCEPT ![p] = b])' <=> Fetched(pl)
      BY <1>3, <2>0, <3>1, SameFetched
    <3>3. UNCHANGED <<shared, next>>
      BY <1>1, <2>1 DEF ResetStack
    <3>q. QED BY <1>3, <1>4, <1>5, <1>6, <1>8, <1>10, <2>0, <3>2, <3>3, NoFetch
  <2>2. CASE pl[p].h = "resetNext"
    <3>1. /\ pl[p].g = "genOn" /\ pl[p].i = 7
          /\ numLocalStack = 0 <=> ~ Fetched(pl)
      BY <2>2, ResetNextFacts
    <3>2. b.g = "genOn" /\ b.i = 8
      BY <1>3, <3>1
    <3>3. CASE Fetched(pl)
      <4>1. UNCHANGED <<shared, next>>
        BY <3>1, <3>3 DEF ResetStack
      <4>2. Fetched([pl EXCEPT ![p] = b])'
        BY <3>2 DEF Fetched
      <4>q. QED BY <1>3, <1>4, <1>5, <1>6, <1>8, <1>10, <2>0, <3>3, <4>1, <4>2, NoFetch
    <3>4. CASE ~ Fetched(pl)
      <4>1. shared' = shared \cup next /\ next' = {}
        BY <1>1, <2>2, <3>1, <3>4 DEF ResetStack
      <4>2. /\ UNCHANGED <<collector, agressive, status, type, local, localNext, log,
                          writes, mirrorVars>>
            /\ pl[p].g = "genOn" /\ b.g = "genOn" /\ b.i >= 8 /\ Unshared(b)
            /\ b.h # "forward" /\ pl[p].h # "forward" /\ ~ Fetched(pl)
        BY <1>3, <1>4, <1>5, <1>6, <3>1, <3>2, <3>4
      <4>q. QED BY <1>3, <4>1, <4>2, Fetch
    <3>q. QED BY <3>3, <3>4
  <2>q. QED BY <1>1, <2>1, <2>2
<1>12. unscanned' \subseteq Threads
  BY <1>4 DEF Known, Core, RootsKnown
<1>q. QED BY <1>2, <1>3, <1>4, <1>9, <1>11, <1>12, InsideStep

(* In the semispace collector nothing is kept for a copy.                  *)
LEMMA SemiReplicas ==
  ASSUME NEW pl, ReplicasKnown(pl), NEW npl \in [Procs -> Places],
         collector = "semi", type = "Major",
         UNCHANGED <<collector, type, shared, next, local, localNext, writes, mirrorVars>>,
         \A q \in Procs : npl[q].h # "forward"
  PROVE  ReplicasKnown(npl)'
<1>1. /\ mirror' = mirror /\ primary' = primary /\ epoch' = epoch /\ held' = held
      /\ writes' = writes /\ type' = type /\ collector' = collector
      /\ local' = local /\ localNext' = localNext /\ shared' = shared /\ next' = next
  BY DEF mirrorVars
<1>2. BackNames(npl)'
  <2>1. next = {} /\ \A i : Names(next', i)
    BY <1>1 DEF ReplicasKnown, Names
  <2>q. QED BY <1>1, <2>1 DEF ReplicasKnown, BackNames, Other
<1>3. ReplicaTypes'
  BY <1>1 DEF ReplicasKnown, ReplicaTypes
<1>4. \A q \in Procs : localNext'[q] = {}
  BY <1>1 DEF ReplicasKnown
<1>q. QED BY <1>1, <1>2, <1>3, <1>4 DEF ReplicasKnown

(* Who sets the phase has shared its work, and all are in its function.    *)
LEMMA SetFacts ==
  ASSUME NEW pl \in [Procs -> Places], Known(pl), NEW p \in Procs,
         pl[p].h \in {"setOn", "setTransition"}
  PROVE  /\ In(pl[p]) /\ ~ LastStep(pl[p]) /\ pl[p].g \in SemiGs \cup GenGs
         /\ pl[p].i = IF pl[p].g \in SemiGs THEN 8 ELSE 10
         /\ Passed(pl[p]) >= 2 /\ Level(pl[p]) = Passed(pl[p])
         /\ \A q \in Procs : /\ Level(pl[q]) >= Passed(pl[p])
                             /\ In(pl[q]) /\ pl[q].g = pl[p].g
         /\ ~ hasShared[p] /\ local[p] = {} /\ ~ log[p] /\ localNext[p] = {}
<1>0. PICK a \in Places : a = pl[p]
  OBVIOUS
<1>1. /\ In(a) /\ a.g \in SemiGs \cup GenGs /\ a.i = IF a.g \in SemiGs THEN 8 ELSE 10
  BY <1>0, InPlaces DEF OnGs, TransitionGs, SemiGs, GenGs
<1>2. Passed(a) >= 2 /\ ~ LastStep(a)
  <2>1. CASE a.g \in SemiGs
    BY <1>1, <2>1 DEF Passed, LastStep, SemiGs, GenGs
  <2>2. CASE a.g = "genOn"
    BY <1>1, <2>2 DEF Passed, LastStep, SemiGs, GenGs
  <2>3. CASE a.g = "genTransition"
    BY <1>1, <2>3 DEF Passed, LastStep, SemiGs, GenGs
  <2>q. QED BY <1>1, <2>1, <2>2, <2>3 DEF GenGs
<1>3. Level(a) = Passed(a)
  BY <1>0, LevelRange
<1>4. \A q \in Procs : Level(pl[q]) >= Passed(a)
  BY <1>0, <1>2 DEF Known, Core, Together
<1>5. \A q \in Procs : In(pl[q])
  <2>1. \A q \in Procs : ~ In(pl[q]) => Level(pl[q]) = 0
    BY LevelRange
  <2>2. Passed(a) \in 0 .. 4
    BY LevelRange
  <2>q. QED BY <1>2, <1>4, <2>1, <2>2
<1>6. \A q \in Procs : pl[q].g = a.g
  BY <1>0, <1>1, <1>5 DEF Known, Core, Together
<1>7. /\ ~ Unshared(a) /\ ~ Counted(a) /\ a.h \notin Working /\ a.h # "mutator"
      /\ a.g \notin {"release", "idle"}
  BY <1>0, <1>1 DEF Unshared, Counted, Working, SemiGs, GenGs
<1>8. /\ WorkAt(a, local[p], hasShared[p], log[p]) /\ hasShared[p] \in BOOLEAN
      /\ log[p] \in BOOLEAN /\ (localNext[p] # {} => NextAt(a))
  BY <1>0 DEF Known, WorkKnown, ReplicasKnown
<1>9. ~ hasShared[p] /\ local[p] = {} /\ ~ log[p] /\ localNext[p] = {}
  BY <1>7, <1>8 DEF WorkAt, KeepsAt, NextAt
<1>q. QED BY <1>0, <1>1, <1>2, <1>3, <1>4, <1>5, <1>6, <1>9

(* The phase is set in a collection that some function has announced.      *)
LEMMA SetPhase ==
  ASSUME NEW pl \in [Procs -> Places], Known(pl), NEW p \in Procs, SetStatus(p)
  PROVE  /\ pl[p].h \in {"setOn", "setTransition"} /\ Advance(p)
         /\ \/ pl[p].g \in OnGs /\ status' = SetOn
            \/ pl[p].g \in TransitionGs /\ status' = "On" /\ agressive[type] /\ On
         /\ On' /\ status' \in States /\ cycle < MaxCycles
         /\ status' \in {"PendingAgressive", "Agressive"} => agressive[type]
<1>1. \/ pl[p].h = "setOn" /\ status' = SetOn
      \/ pl[p].h = "setTransition" /\ status' = "On"
  BY PlacedFacts DEF SetStatus, SetOn, Known
<1>2. Advance(p) /\ agressive' = agressive /\ type' = type
  BY DEF SetStatus, optionVars
<1>3. CASE pl[p].h = "setOn" /\ status' = SetOn
  <2>1. pl[p].g \in OnGs
    BY <1>3, InPlaces
  <2>2. cycle < MaxCycles
    BY <2>1 DEF Known, Core, Phase
  <2>3. On' /\ status' \in States /\ (status' \in {"PendingAgressive", "Agressive"} => agressive[type])
    BY <1>2, <1>3 DEF On, SetOn, States
  <2>q. QED BY <1>2, <1>3, <2>1, <2>2, <2>3
<1>4. CASE pl[p].h = "setTransition" /\ status' = "On"
  <2>1. pl[p].g \in TransitionGs
    BY <1>4, InPlaces
  <2>2. TransitionAt(pl[p], SomeSet(pl))
    BY <2>1 DEF Known, Core, Phase
  <2>3. agressive[type] /\ status \in {"PendingOn", "On"}
    BY <2>2 DEF TransitionAt
  <2>4. cycle < MaxCycles
    BY <2>3 DEF Known, Core, Phase
  <2>5. On /\ On' /\ status' \in States
    BY <1>2, <1>4, <2>3 DEF On, States
  <2>q. QED BY <1>2, <1>4, <2>1, <2>3, <2>4, <2>5
<1>q. QED BY <1>1, <1>3, <1>4

LEMMA SetStatusStep ==
  ASSUME NEW pl \in [Procs -> Places], Known(pl), NEW p \in Procs, SetStatus(p)
  PROVE  Inv'
<1>1. /\ pl[p].h \in {"setOn", "setTransition"} /\ Advance(p)
      /\ \/ pl[p].g \in OnGs /\ status' = SetOn
         \/ pl[p].g \in TransitionGs /\ status' = "On" /\ agressive[type] /\ On
      /\ On' /\ status' \in States /\ cycle < MaxCycles
      /\ status' \in {"PendingAgressive", "Agressive"} => agressive[type]
  BY SetPhase
<1>2. /\ In(pl[p]) /\ ~ LastStep(pl[p]) /\ pl[p].g \in SemiGs \cup GenGs
      /\ pl[p].i = IF pl[p].g \in SemiGs THEN 8 ELSE 10
      /\ Passed(pl[p]) >= 2 /\ Level(pl[p]) = Passed(pl[p])
      /\ \A q \in Procs : /\ Level(pl[q]) >= Passed(pl[p])
                          /\ In(pl[q]) /\ pl[q].g = pl[p].g
      /\ ~ hasShared[p] /\ local[p] = {} /\ ~ log[p] /\ localNext[p] = {}
  BY <1>1, SetFacts
<1>3. /\ UNCHANGED <<collector, agressive, type, cycle>> /\ UNCHANGED arrived
      /\ UNCHANGED optionVars /\ UNCHANGED phaselessVars /\ UNCHANGED isFirst
      /\ UNCHANGED <<unscanned, space, threadSpace>>
      /\ UNCHANGED <<collector, type, shared, next, local, localNext, hasShared,
                     numLocalStack, log, writes, mirrorVars>>
  BY DEF SetStatus, optionVars, stackVars, phaselessVars
<1>4. PICK b : b = After(pl[p])
  OBVIOUS
<1>5. /\ b \in Places /\ b.g = pl[p].g /\ b.i = pl[p].i + 1 /\ In(b) /\ b.h # "wait"
      /\ b.h \notin Loop /\ Level(b) = Passed(b) /\ Passed(b) = Passed(pl[p])
  BY <1>1, <1>2, <1>4, NextPlace
<1>6. LastStep(b) /\ PastSet(b) /\ b.g # "off"
  <2>1. b.i = IF b.g \in GenGs THEN 11 ELSE 9
    BY <1>2, <1>5 DEF SemiGs, GenGs
  <2>2. b.g # "off"
    BY <1>2, <1>5 DEF SemiGs, GenGs
  <2>q. QED BY <1>5, <2>1, <2>2 DEF LastStep, PastSet
<1> DEFINE npl == [pl EXCEPT ![p] = b]
<1>7. npl \in [Procs -> Places] /\ npl[p] = b /\ \A q \in Procs : q # p => npl[q] = pl[q]
  BY <1>5
<1>8. Placed(npl)'
  BY <1>1, <1>2, <1>3, <1>4, PlacedNext
<1>9. Together(npl)'
  <2>1. /\ In(pl[p]) /\ In(b) /\ b.g = pl[p].g /\ Level(b) = Level(pl[p])
        /\ \A q \in Procs : q # p => Level(pl[q]) >= Passed(b)
        /\ b.h # "wait" /\ Together(pl) /\ UNCHANGED arrived
    BY <1>2, <1>3, <1>5 DEF Known, Core
  <2>q. QED BY <1>5, <2>1, TogetherSame
<1>10. OneFirst(npl)'
  <2>1. PastWeak(b) <=> PastWeak(pl[p])
    BY <1>5 DEF PastWeak
  <2>q. QED BY <1>3, <1>5, <2>1, OneFirstStep DEF Known, Core
<1> HIDE DEF npl
<1>11. \A q \in Procs : npl[q].g = pl[p].g
  BY <1>2, <1>5, <1>7
<1>12. pl[p].g # "off"
  BY <1>5, <1>6
<1>13. Phase(npl)'
  <2>1. SomeSet(npl)
    BY <1>6, <1>7 DEF SomeSet
  <2>2. SetOn' = SetOn
    BY <1>3 DEF SetOn
  <2>3. /\ type \in Types /\ cycle \in 0 .. MaxCycles
        /\ collector = "semi" => type = "Major"
    BY DEF Known, Core, Phase
  <2>4. CASE pl[p].g \in OnGs /\ status' = SetOn
    <3>1. \A q \in Procs : OnAt(npl[q], SomeSet(npl))'
      BY <2>1, <2>2, <2>4 DEF OnAt
    <3>2. \A q \in Procs : npl[q].g \notin TransitionGs /\ npl[q].g # "off"
      BY <1>11, <2>4 DEF OnGs, TransitionGs
    <3>q. QED BY <1>1, <1>3, <2>3, <3>1, <3>2 DEF Phase
  <2>5. CASE pl[p].g \in TransitionGs /\ status' = "On" /\ agressive[type]
    <3>1. \A q \in Procs : TransitionAt(npl[q], SomeSet(npl))'
      BY <1>3, <2>1, <2>5 DEF TransitionAt
    <3>2. \A q \in Procs : npl[q].g \notin OnGs /\ npl[q].g # "off"
      BY <1>11, <2>5 DEF OnGs, TransitionGs
    <3>q. QED BY <1>1, <1>3, <2>3, <3>1, <3>2 DEF Phase
  <2>q. QED BY <1>1, <2>4, <2>5
<1>14. RootsKnown(npl)'
  <2>1. ~ Completing_(pl) /\ ~ Completing_(npl)
    BY <1>2, <1>11, <1>12 DEF Completing_
  <2>q. QED BY <1>3, <1>11, <1>12, <2>1 DEF Known, Core, RootsKnown, Completing_
<1>15. OnlyOf(p) /\ local'[p] = {} /\ ~ hasShared'[p] /\ ~ log'[p] /\ localNext'[p] = {}
  BY <1>2, <1>3, Stored DEF OnlyOf
<1>16. WorkKnown(npl)'
  <2>1. \A q \in Procs, l \in BOOLEAN : KeepsAt(pl[q], l) => KeepsAt(pl[q], l)'
    <3>1. \A q \in Procs : pl[q].g # "idle"
      BY <1>2 DEF SemiGs, GenGs
    <3>q. QED BY <3>1 DEF KeepsAt
  <2>2. ~ Counted(b) /\ b.h # "check" /\ b.g # "off"
    BY <1>2, <1>5, <1>6 DEF Counted, Unshared, SemiGs, GenGs, Loop
  <2>3. WorkAt(b, local[p], hasShared[p], log[p])'
    BY <1>15, <2>2 DEF WorkAt
  <2>4. BusyAt(b, local'[p])
    BY <2>2 DEF BusyAt
  <2>q. QED BY <1>5, <1>15, <2>1, <2>3, <2>4, WorkStep DEF Known, npl
<1>17. \A q \in Procs : pl[q].h # "forward" /\ npl[q].h # "forward"
  <2>1. \A c \in Places : In(c) => c.h # "forward"
    BY InHeads DEF Working
  <2>2. \A q \in Procs : In(npl[q])
    BY <1>2, <1>5, <1>7
  <2>q. QED BY <1>2, <1>7, <2>1, <2>2
<1>18. ReplicasKnown(npl)'
  <2>1. CASE collector = "semi"
    <3>1. type = "Major" /\ ReplicasKnown(pl)
      BY <2>1 DEF Known, Core, Phase
    <3>q. QED BY <1>3, <1>7, <1>17, <2>1, <3>1, SemiReplicas
  <2>2. CASE collector # "semi"
    <3>1. \A q \in Procs : NextAt(pl[q]) => NextAt(pl[q])'
      <4>1. \A q \in Procs : pl[q].g # "idle"
        BY <1>2 DEF SemiGs, GenGs
      <4>q. QED BY <4>1 DEF NextAt
    <3>2. pl[p].g \in GenGs
      BY <1>2, <2>2 DEF Known, Placed
    <3>3. Fetched(pl)
      <4>1. CASE pl[p].g = "genOn"
        BY <1>2, <4>1 DEF Fetched, SemiGs
      <4>2. CASE pl[p].g = "genTransition"
        BY <1>1, <4>2 DEF Fetched, OnGs
      <4>q. QED BY <3>2, <4>1, <4>2 DEF GenGs
    <3>4. Fetched(npl)'
      BY <1>1 DEF Fetched
    <3>5. b.g # "release" /\ b.h # "forward" /\ pl[p].h # "forward"
      BY <1>2, <1>5, <1>7, <1>17 DEF SemiGs, GenGs
    <3>q. QED BY <1>1, <1>2, <1>3, <1>5, <1>15, <3>1, <3>3, <3>4, <3>5, NoFetch DEF npl
  <2>q. QED BY <2>1, <2>2
<1>q. QED BY <1>7, <1>8, <1>9, <1>10, <1>13, <1>14, <1>16, <1>18, Conclude DEF Core

----------------------------------------------------------------------------
(* The flip.                                                               *)

(* When a processor comes to the flip all roots have been flipped, and     *)
(* nobody has work.                                                        *)
LEMMA FlipFacts ==
  ASSUME NEW pl \in [Procs -> Places], Known(pl), NEW p \in Procs, pl[p].h = "flip"
  PROVE  /\ pl[p].g = "off" /\ pl[p].i = 8 /\ In(pl[p]) /\ ~ LastStep(pl[p])
         /\ Passed(pl[p]) = 3 /\ Level(pl[p]) = 3
         /\ \A q \in Procs : /\ Level(pl[q]) >= 3 /\ In(pl[q]) /\ pl[q].g = "off"
                             /\ pl[q].i >= 7 /\ pl[q].h # "forward"
         /\ unscanned = {} /\ Completing_(pl)
         /\ shared = {} /\ \A q \in Procs : /\ ~ hasShared[q] /\ local[q] = {} /\ ~ log[q]
                                            /\ localNext[q] = {}
         /\ isFirst[p] => status = "PendingOff"
<1>0. PICK a \in Places : a = pl[p]
  OBVIOUS
<1>1. a.g = "off" /\ a.i = 8 /\ In(a)
  BY <1>0, InPlaces
<1>2. Passed(a) = 3 /\ ~ LastStep(a)
  BY <1>1 DEF Passed, LastStep, SemiGs, GenGs
<1>3. Level(a) = 3
  BY <1>0, <1>2, LevelRange
<1>4. \A q \in Procs : Level(pl[q]) >= 3
  BY <1>0, <1>2 DEF Known, Core, Together
<1>5. \A q \in Procs : In(pl[q])
  BY <1>4, LevelRange
<1>6. \A q \in Procs : pl[q].g = "off" /\ pl[q].i >= 2
  <2>1. \A q \in Procs : pl[q].g = "off"
    BY <1>0, <1>1, <1>5 DEF Known, Core, Together
  <2>q. QED BY <1>5, <2>1 DEF In, SemiGs, GenGs
<1>7. \A q \in Procs : pl[q].i >= 7
  <2> SUFFICES ASSUME NEW c \in Places, c.g = "off", In(c), Level(c) >= 3 PROVE c.i >= 7
    BY <1>4, <1>5, <1>6
  <2>1. c.i \in 1 .. 11 /\ StepAt(c)
    BY PlaceFields
  <2>2. OffStepAt(c)
    BY <2>1 DEF StepAt, SemiGs
  <2>3. c.h = "wait" => c.i \in {5, 7, 9}
    BY <2>2 DEF OffStepAt, Loop
  <2>4. Passed(c) = IF c.i <= 3 THEN 0 ELSE IF c.i <= 5 THEN 1 ELSE IF c.i <= 7 THEN 2 ELSE 3
    BY DEF Passed, SemiGs, GenGs
  <2>5. Level(c) = IF c.h = "wait" THEN Passed(c) + 1 ELSE Passed(c)
    BY DEF Level
  <2>q. QED BY <2>1, <2>3, <2>4, <2>5
<1>8. \A q \in Procs : /\ ~ hasShared[q] /\ local[q] = {} /\ ~ log[q] /\ localNext[q] = {}
                       /\ pl[q].h # "forward"
  <2> SUFFICES ASSUME NEW q \in Procs
               PROVE  /\ ~ hasShared[q] /\ local[q] = {} /\ ~ log[q] /\ localNext[q] = {}
                      /\ pl[q].h # "forward"
    OBVIOUS
  <2>0. PICK c \in Places : c = pl[q]
    OBVIOUS
  <2>1. /\ c.h \notin Working /\ c.h # "mutator" /\ c.h # "forward"
        /\ c.g = "off"
    BY <1>5, <1>6, <2>0, InHeads DEF Working, Conts
  <2>2. /\ WorkAt(c, local[q], hasShared[q], log[q]) /\ hasShared[q] \in BOOLEAN
        /\ log[q] \in BOOLEAN /\ (localNext[q] # {} => NextAt(c))
    BY <2>0 DEF Known, WorkKnown, ReplicasKnown
  <2>3. ~ Unshared(c) /\ ~ Counted(c)
    BY <2>1 DEF Unshared, Counted, SemiGs, GenGs
  <2>4. ~ KeepsAt(c, log[q]) /\ ~ NextAt(c)
    BY <2>1, <2>3 DEF KeepsAt, NextAt
  <2>q. QED BY <2>0, <2>1, <2>2, <2>3, <2>4 DEF WorkAt
<1>9. shared = {}
  <2>1. \A q \in Procs : ~ BusyAt(pl[q], local[q])
    BY <1>6 DEF BusyAt
  <2>q. QED BY <2>1 DEF Known, WorkKnown
<1>10. unscanned = {} /\ Completing_(pl)
  <2>1. pl[p].g = "off" /\ pl[p].i >= 7 /\ pl[p].i >= 6
    BY <1>0, <1>1
  <2>q. QED BY <2>1 DEF Known, Core, RootsKnown, Completing_
<1>11. isFirst[p] => status = "PendingOff"
  <2> SUFFICES ASSUME isFirst[p], NEW q \in Procs, pl[q].g = "off", pl[q].i = 9, isFirst[q]
               PROVE  FALSE
    BY <1>0, <1>1 DEF Known, Core, Phase, OffAt, SomeFlipped
  <2>1. PastWeak(pl[p]) /\ PastWeak(pl[q])
    <3>1. Passed(pl[q]) = 3
      BY DEF Passed, SemiGs, GenGs
    <3>q. QED BY <1>0, <1>2, <3>1 DEF PastWeak
  <2>2. p = q
    BY <2>1 DEF Known, Core, OneFirst
  <2>q. QED BY <1>0, <1>1, <2>2
<1>q. QED BY <1>0, <1>1, <1>2, <1>3, <1>4, <1>5, <1>6, <1>7, <1>8, <1>9, <1>10, <1>11

(* The place after the flip, and what does not depend on the phase.        *)
LEMMA FlipMove ==
  ASSUME NEW pl \in [Procs -> Places], Known(pl), NEW p \in Procs, pl[p].h = "flip",
         Advance(p), UNCHANGED optionVars, UNCHANGED arrived, UNCHANGED isFirst,
         NEW b, b = After(pl[p])
  PROVE  /\ b \in Places /\ b.g = "off" /\ b.i = 9 /\ In(b) /\ b.h # "wait"
         /\ b.h # "forward"
         /\ Placed([pl EXCEPT ![p] = b])' /\ Together([pl EXCEPT ![p] = b])'
         /\ OneFirst([pl EXCEPT ![p] = b])'
<1>1. /\ pl[p].g = "off" /\ pl[p].i = 8 /\ In(pl[p]) /\ ~ LastStep(pl[p])
      /\ Passed(pl[p]) = 3 /\ Level(pl[p]) = 3
      /\ \A q \in Procs : Level(pl[q]) >= 3
  BY FlipFacts
<1>2. /\ b \in Places /\ b.g = "off" /\ b.i = 9 /\ In(b) /\ b.h # "wait"
      /\ Level(b) = 3 /\ Passed(b) = 3 /\ b.h # "forward"
  <2>1. /\ b \in Places /\ b.g = "off" /\ b.i = 9 /\ In(b) /\ b.h # "wait"
        /\ b.h \notin Loop /\ Level(b) = Passed(b) /\ Passed(b) = 3
    BY <1>1, NextPlace
  <2>q. QED BY <2>1 DEF Loop
<1>3. Placed([pl EXCEPT ![p] = b])'
  BY <1>1, PlacedNext
<1>4. Together([pl EXCEPT ![p] = b])'
  <2>1. /\ In(pl[p]) /\ In(b) /\ b.g = pl[p].g /\ Level(b) = Level(pl[p])
        /\ \A q \in Procs : q # p => Level(pl[q]) >= Passed(b)
        /\ b.h # "wait" /\ Together(pl) /\ UNCHANGED arrived
    BY <1>1, <1>2 DEF Known, Core
  <2>q. QED BY <1>2, <2>1, TogetherSame
<1>5. OneFirst([pl EXCEPT ![p] = b])'
  <2>1. PastWeak(b) <=> PastWeak(pl[p])
    BY <1>1, <1>2 DEF PastWeak
  <2>q. QED BY <1>2, <2>1, OneFirstStep DEF Known, Core
<1>q. QED BY <1>2, <1>3, <1>4, <1>5

(* A processor that was not the first only passes.                         *)
LEMMA NoFlip ==
  ASSUME NEW pl \in [Procs -> Places], Known(pl), NEW p \in Procs, pl[p].h = "flip",
         Advance(p), ~ isFirst[p],
         UNCHANGED <<optionVars, status, type, cycle, arrived, isFirst, unscanned,
                     stackVars, space, threadSpace, log, writes, mirrorVars>>
  PROVE  Inv'
<1>1. /\ pl[p].g = "off" /\ pl[p].i = 8 /\ In(pl[p]) /\ ~ LastStep(pl[p]) /\ unscanned = {}
  BY FlipFacts
<1>2. /\ UNCHANGED <<collector, agressive, status, type, cycle>> /\ UNCHANGED arrived
      /\ UNCHANGED optionVars /\ UNCHANGED phaselessVars /\ UNCHANGED isFirst
      /\ UNCHANGED <<unscanned, space, threadSpace>>
  BY DEF optionVars, stackVars, phaselessVars
<1>3. PICK b : b = After(pl[p])
  OBVIOUS
<1>4. /\ b \in Places /\ b.g = "off" /\ b.i = 9 /\ In(b)
      /\ Placed([pl EXCEPT ![p] = b])' /\ Together([pl EXCEPT ![p] = b])'
      /\ OneFirst([pl EXCEPT ![p] = b])'
  BY <1>2, <1>3, FlipMove
<1>5. Phase([pl EXCEPT ![p] = b])'
  <2>1. /\ b.g = pl[p].g /\ (PastSet(b) <=> PastSet(pl[p]))
        /\ (b.g = "off" => (b.i = 9 /\ isFirst'[p] <=> pl[p].i = 9 /\ isFirst[p]))
        /\ \A q \in Procs : q # p => isFirst'[q] = isFirst[q]
        /\ ~ (pl[p].g \in OnGs)
    BY <1>1, <1>2, <1>4 DEF PastSet, OnGs
  <2>q. QED BY <1>2, <1>4, <2>1, PhaseStep DEF Known, Core
<1>6. RootsKnown([pl EXCEPT ![p] = b])'
  <2>1. /\ b.g = pl[p].g /\ pl[p].i >= 6 /\ b.i >= 6 /\ unscanned = {}
        /\ UNCHANGED <<status, isFirst, unscanned, space, threadSpace>>
    BY <1>1, <1>2, <1>4
  <2>q. QED BY <1>4, <2>1, RootsSame DEF Known, Core
<1>7. WorkKnown([pl EXCEPT ![p] = b])' /\ ReplicasKnown([pl EXCEPT ![p] = b])'
  <2>1. (On' <=> On)
        /\ (status' \in {"On", "PendingOff"} <=> status \in {"On", "PendingOff"})
    BY <1>2 DEF On
  <2>2. /\ Unshared(b) <=> Unshared(pl[p])
        /\ Counted(b) <=> Counted(pl[p])
        /\ b.g = "genOn" /\ b.i >= 8 <=> pl[p].g = "genOn" /\ pl[p].i >= 8
    BY <1>1, <1>3, AfterShare
  <2>q. QED BY <1>1, <1>2, <1>4, <2>1, <2>2, InMove DEF Known
<1>8. [pl EXCEPT ![p] = b] \in [Procs -> Places]
  BY <1>4
<1>q. QED BY <1>4, <1>5, <1>6, <1>7, <1>8, Conclude DEF Core

(* The first processor retires the space and turns the collector off.      *)
LEMMA FirstFlip ==
  ASSUME NEW pl \in [Procs -> Places], Known(pl), NEW p \in Procs, pl[p].h = "flip",
         Advance(p), isFirst[p],
         space' = 1 - space, status' = "Off", cycle' = cycle + 1, type' \in Types,
         collector = "semi" => type' = "Major",
         UNCHANGED <<optionVars, arrived, isFirst, unscanned, shared, local, localNext,
                     hasShared, numLocalStack, threadSpace, log>>,
         \A npl \in [Procs -> Places] :
           (\A q \in Procs : npl[q].g = "off" /\ npl[q].h # "forward") => ReplicasKnown(npl)'
  PROVE  Inv'
<1>1. /\ pl[p].g = "off" /\ pl[p].i = 8 /\ In(pl[p]) /\ unscanned = {} /\ Completing_(pl)
      /\ \A q \in Procs : pl[q].g = "off" /\ pl[q].i >= 7 /\ pl[q].h # "forward"
      /\ shared = {} /\ (\A q \in Procs : /\ ~ hasShared[q] /\ local[q] = {} /\ ~ log[q]
                                          /\ localNext[q] = {})
      /\ status = "PendingOff"
  BY FlipFacts
<1>2. /\ UNCHANGED <<collector, agressive>> /\ UNCHANGED arrived
      /\ UNCHANGED optionVars /\ UNCHANGED isFirst
  BY DEF optionVars
<1>3. PICK b : b = After(pl[p])
  OBVIOUS
<1>4. /\ b \in Places /\ b.g = "off" /\ b.i = 9 /\ In(b) /\ b.h # "forward"
      /\ Placed([pl EXCEPT ![p] = b])' /\ Together([pl EXCEPT ![p] = b])'
      /\ OneFirst([pl EXCEPT ![p] = b])'
  BY <1>2, <1>3, FlipMove
<1> DEFINE npl == [pl EXCEPT ![p] = b]
<1>5. npl \in [Procs -> Places] /\ npl[p] = b /\ \A q \in Procs : q # p => npl[q] = pl[q]
  BY <1>4
<1>6. Placed(npl)' /\ Together(npl)' /\ OneFirst(npl)'
  BY <1>4
<1> HIDE DEF npl
<1>7. \A q \in Procs : /\ npl[q].g = "off" /\ npl[q].i >= 7 /\ npl[q].h # "forward"
  BY <1>1, <1>4, <1>5
<1>8. Phase(npl)'
  <2>1. cycle \in 0 .. MaxCycles /\ cycle < MaxCycles
    BY <1>1 DEF Known, Core, Phase
  <2>2. cycle' \in 0 .. MaxCycles
    BY <2>1, ConcurrentAssumption
  <2>3. SomeFlipped(npl)'
    BY <1>2, <1>4, <1>5 DEF SomeFlipped
  <2>4. \A q \in Procs : OffAt(SomeFlipped(npl))'
    BY <2>3 DEF OffAt
  <2>5. \A q \in Procs : npl[q].g \notin OnGs /\ npl[q].g \notin TransitionGs
    BY <1>7 DEF OnGs, TransitionGs
  <2>6. status' \in States /\ status' \notin {"PendingAgressive", "Agressive"}
    BY DEF States
  <2>q. QED BY <1>2, <2>2, <2>4, <2>5, <2>6 DEF Phase
<1>9. RootsKnown(npl)'
  <2>1. RootsKnown(pl)
    BY DEF Known, Core
  <2>2. \A t \in Threads : threadSpace[t] = 1 - space
    BY <1>1, <2>1 DEF RootsKnown
  <2>3. Completing_(npl)
    BY <1>4, <1>5 DEF Completing_
  <2>4. /\ space' \in {0, 1} /\ threadSpace' \in [Threads -> {0, 1}]
        /\ unscanned' = {} /\ \A t \in Threads : threadSpace'[t] = space'
    BY <1>1, <2>1, <2>2 DEF RootsKnown
  <2>q. QED BY <2>3, <2>4 DEF RootsKnown, Completing_
<1>10. WorkKnown(npl)'
  <2>1. \A q \in Procs : ~ Counted(npl[q])
    BY <1>7 DEF Counted, Unshared, SemiGs, GenGs
  <2>2. \A q \in Procs : WorkAt(npl[q], local[q], hasShared[q], log[q])'
    BY <1>1, <2>1 DEF WorkAt
  <2>q. QED BY <1>1, <2>2 DEF Known, WorkKnown
<1>11. ReplicasKnown(npl)'
  BY <1>5, <1>7
<1>q. QED BY <1>5, <1>6, <1>8, <1>9, <1>10, <1>11, Conclude DEF Core

LEMMA SemiFlipStep ==
  ASSUME NEW pl \in [Procs -> Places], Known(pl), NEW p \in Procs, SemiFlip(p)
  PROVE  Inv'
<1>1. pl[p].h = "flip" /\ collector = "semi" /\ Advance(p)
  BY PlacedFacts DEF SemiFlip, Semi, Known
<1>2. CASE ~ isFirst[p]
  <2>1. UNCHANGED <<optionVars, status, type, cycle, arrived, isFirst, unscanned,
                    stackVars, space, threadSpace, log, writes, mirrorVars>>
    BY <1>2 DEF SemiFlip
  <2>q. QED BY <1>1, <1>2, <2>1, NoFlip
<1>3. CASE isFirst[p]
  <2>1. /\ space' = 1 - space /\ status' = "Off" /\ cycle' = cycle + 1
        /\ UNCHANGED <<optionVars, arrived, isFirst, unscanned, shared, local, localNext,
                       hasShared, numLocalStack, threadSpace, log>>
        /\ UNCHANGED <<collector, type, shared, next, local, localNext, writes, mirrorVars>>
    BY <1>3 DEF SemiFlip, stackVars, optionVars
  <2>2. type = "Major" /\ type \in Types /\ ReplicasKnown(pl)
    BY <1>1 DEF Known, Core, Phase
  <2>3. ASSUME NEW npl \in [Procs -> Places],
               \A q \in Procs : npl[q].g = "off" /\ npl[q].h # "forward"
        PROVE  ReplicasKnown(npl)'
    BY <1>1, <2>1, <2>2, <2>3, SemiReplicas
  <2>4. type' \in Types /\ type' = "Major"
    BY <2>1, <2>2
  <2>q. QED BY <1>1, <1>3, <2>1, <2>3, <2>4, FirstFlip
<1>q. QED BY <1>2, <1>3

(* What the copies hold when they change roles.                            *)
LEMMA GenReplicas ==
  ASSUME NEW pl \in [Procs -> Places], ReplicasKnown(pl), status = "PendingOff",
         shared = {},
         \A q \in Procs : local[q] = {} /\ ~ log[q] /\ localNext[q] = {},
         \A q \in Procs : pl[q].h # "forward",
         NEW npl \in [Procs -> Places],
         \A q \in Procs : npl[q].g = "off" /\ npl[q].h # "forward",
         collector = "gen", status' = "Off", primary' = Other(primary),
         type \in Types,
         IF type = "Minor" THEN epoch' = epoch + 1 /\ UNCHANGED <<mirror, next>>
                           ELSE /\ next' = {} /\ UNCHANGED epoch
                                /\ mirror' = [i \in {0, 1} |-> Image(mirror[primary])],
         UNCHANGED <<collector, shared, local, localNext, writes, held>>
  PROVE  ReplicasKnown(npl)'
<1>1. primary \in {0, 1} /\ primary' \in {0, 1} /\ Other(primary') = primary
  BY DEF ReplicasKnown, ReplicaTypes, Other
<1>2. Fetched(pl) /\ ~ Fetched(npl)'
  BY DEF Fetched, On
<1>3. Names(next', primary')
  BY <1>2 DEF ReplicasKnown, BackNames, Names
<1>4. BackNames(npl)'
  <2>1. \A i : Names({}, i)
    BY DEF Names
  <2>q. QED BY <1>2, <1>3, <2>1 DEF BackNames
<1>5. ReplicaTypes /\ mirror[0] \in [id : 0 .. writes, gen : Nat]
      /\ mirror[1] \in [id : 0 .. writes, gen : Nat]
  BY DEF ReplicasKnown, ReplicaTypes
<1>6. CASE type = "Minor"
  <2>1. epoch' = epoch + 1 /\ mirror' = mirror /\ next' = next
    BY <1>6
  <2>2. mirror[Other(primary)].gen = 0 \/ SelfPointers
    <3>1. ~ Due(pl) \/ SelfPointers
      BY <1>2 DEF Due, HasBack
    <3>q. QED BY <1>6, <3>1 DEF ReplicasKnown
  <2>3. mirror[primary].gen # 0 => HasBack(next, Other(primary)) \/ SelfPointers
    <3>1. mirror[primary].gen # 0 => Deferred(pl)
      BY <1>6 DEF ReplicasKnown
    <3>2. Deferred(pl) => HasBack(next, Other(primary)) \/ SelfPointers
      BY DEF Deferred, HasBack
    <3>q. QED BY <3>1, <3>2
  <2>4. mirror'[primary'].gen = 0 \/ SelfPointers
    BY <2>1, <2>2
  <2>5. mirror'[Other(primary)'].gen # 0 => Due(npl)'
    <3>1. Other(primary)' = primary
      BY <1>1 DEF Other
    <3>2. HasBack(next, Other(primary)) \/ SelfPointers => Due(npl)'
      BY <1>2, <2>1 DEF Due
    <3>q. QED BY <2>1, <2>3, <3>1, <3>2
  <2>6. ReplicaTypes'
    BY <1>1, <1>5, <2>1 DEF ReplicaTypes
  <2>7. SelfPointers => Deferred(npl)'
    BY DEF Deferred
  <2>q. QED BY <1>4, <2>4, <2>5, <2>6, <2>7 DEF ReplicasKnown
<1>7. CASE type = "Major"
  <2>1. /\ epoch' = epoch /\ next' = {}
        /\ mirror' = [i \in {0, 1} |-> Image(mirror[primary])]
    BY <1>7
  <2>2. mirror'[primary'].gen = 0 /\ mirror'[primary].gen = 0
    BY <1>1, <2>1 DEF Image, Pointer
  <2>3. mirror' \in [{0, 1} -> [id : 0 .. writes, gen : Nat]]
    BY <1>1, <1>5, <2>1 DEF Image, Pointer
  <2>4. ReplicaTypes'
    BY <1>1, <1>5, <2>1, <2>3 DEF ReplicaTypes
  <2>5. mirror'[Other(primary)'].gen = 0
    <3>1. Other(primary)' = primary
      BY <1>1 DEF Other
    <3>q. QED BY <2>2, <3>1
  <2>q. QED BY <1>4, <2>2, <2>4, <2>5 DEF ReplicasKnown
<1>q. QED BY <1>6, <1>7 DEF Types

LEMMA GenFlipStep ==
  ASSUME NEW pl \in [Procs -> Places], Known(pl), NEW p \in Procs, GenFlip(p)
  PROVE  Inv'
<1>1. pl[p].h = "flip" /\ collector = "gen" /\ Advance(p)
  BY PlacedFacts DEF GenFlip, Gen, Known
<1>2. CASE ~ isFirst[p]
  <2>1. UNCHANGED <<optionVars, status, type, cycle, arrived, isFirst, unscanned,
                    stackVars, space, threadSpace, log, writes, mirrorVars>>
    BY <1>2 DEF GenFlip, stackVars, mirrorVars
  <2>q. QED BY <1>1, <1>2, <2>1, NoFlip
<1>3. CASE isFirst[p]
  <2>1. /\ space' = 1 - space /\ status' = "Off" /\ cycle' = cycle + 1 /\ type' \in Types
        /\ UNCHANGED <<optionVars, arrived, isFirst, unscanned, shared, local, localNext,
                       hasShared, numLocalStack, threadSpace, log>>
    BY <1>3 DEF GenFlip
  <2>2. /\ primary' = Other(primary)
        /\ IF type = "Minor" THEN epoch' = epoch + 1 /\ UNCHANGED <<mirror, next>>
                             ELSE /\ next' = {} /\ UNCHANGED epoch
                                  /\ mirror' = [i \in {0, 1} |-> Image(mirror[primary])]
        /\ UNCHANGED <<collector, shared, local, localNext, writes, held>>
    BY <1>3 DEF GenFlip, optionVars
  <2>3. type \in Types /\ ReplicasKnown(pl)
    BY DEF Known, Core, Phase
  <2>4. /\ status = "PendingOff" /\ shared = {}
        /\ \A q \in Procs : local[q] = {} /\ ~ log[q] /\ localNext[q] = {}
        /\ \A q \in Procs : pl[q].h # "forward"
    BY <1>1, <1>3, FlipFacts
  <2>5. ASSUME NEW npl \in [Procs -> Places],
               \A q \in Procs : npl[q].g = "off" /\ npl[q].h # "forward"
        PROVE  ReplicasKnown(npl)'
    BY <1>1, <2>1, <2>2, <2>3, <2>4, <2>5, GenReplicas
  <2>q. QED BY <1>1, <1>3, <2>1, <2>5, FirstFlip
<1>q. QED BY <1>2, <1>3

----------------------------------------------------------------------------
(* The invariant, and the theorems.                                        *)

LEMMA CommonInv ==
  ASSUME NEW pl \in [Procs -> Places], Known(pl), NEW p \in Procs, CommonStep(p)
  PROVE  Inv'
<1>1. ASSUME Leave(p) PROVE Inv'
  <2>1. At(p, "leave") \/ At(p, "leaveWork")
    BY <1>1 DEF Leave
  <2>q. QED BY <1>1, <2>1, LeaveRoots, LeaveWork
<1>2. ASSUME \/ Signal(p) \/ SetStatus(p) \/ WeakBarrier(p) \/ StrongBarrier(p)
             \/ ResetJob(p) \/ InitialScan(p) \/ CompleteScan(p) \/ ResetStack(p)
      PROVE  Inv'
  BY <1>2, SignalStep, SetStatusStep, WeakBarrierStep, StrongBarrierStep, ResetJobStep,
     InitialScanStep, CompleteScanStep, ResetStackStep
<1>3. ASSUME \/ PushRoots(p) \/ ConditionalPush(p) \/ Pop(p) \/ Check(p) \/ PushWork(p)
             \/ Empty(p) \/ Again(p)
      PROVE  Inv'
  BY <1>3, PushRootsStep, ConditionalPushStep, PopStep, CheckStep, PushWorkStep,
     EmptyStep, AgainStep
<1>q. QED BY <1>1, <1>2, <1>3 DEF CommonStep

LEMMA SemiInv ==
  ASSUME NEW pl \in [Procs -> Places], Known(pl), NEW p \in Procs,
         SemiStep(p) \/ SemiMutate(p) \/ SemiAllocBig(p)
  PROVE  Inv'
<1>1. ASSUME \/ SemiRelease(p) \/ SemiPoll(p) \/ SemiSwitch(p) \/ SemiReturn(p)
             \/ SemiFlip(p) \/ SemiMutate(p) \/ SemiAllocBig(p)
      PROVE  Inv'
  BY <1>1, SemiRelease_Step, PollStep, SemiSwitchStep, ReturnStep, SemiFlipStep,
     SemiMutateStep
<1>2. ASSUME NEW w \in local[p], SemiWork(p, w) PROVE Inv'
  BY <1>2, SemiWorkStep
<1>q. QED BY <1>1, <1>2 DEF SemiStep

LEMMA GenInv ==
  ASSUME NEW pl \in [Procs -> Places], Known(pl), NEW p \in Procs,
         GenStep(p) \/ GenMutate(p)
  PROVE  Inv'
<1>1. ASSUME \/ GenRelease(p) \/ GenPoll(p) \/ GenSwitch(p) \/ GenReturn(p)
             \/ ForwardBack(p) \/ GenFlip(p) \/ GenMutate(p)
      PROVE  Inv'
  BY <1>1, GenRelease_Step, PollStep, GenSwitchStep, ReturnStep, ForwardBackStep,
     GenFlipStep, GenMutateStep
<1>2. ASSUME NEW w \in local[p], GenWork(p, w) PROVE Inv'
  BY <1>2, GenWorkStep
<1>q. QED BY <1>1, <1>2 DEF GenStep

(* At the start every processor runs a thread.                             *)
LEMMA InitInv == Init => Inv
<1> SUFFICES ASSUME Init PROVE Inv
  OBVIOUS
<1> DEFINE m == Idle("mutator")
           pl == [p \in Procs |-> m]
<1>1. m \in Places /\ m.g = "idle" /\ m.i = 1 /\ m.h = "mutator" /\ m.x = "mutator"
  BY NewPlaces DEF Conts
<1>2. Steps(m) = <<"mutator">>
  BY StepsOfIdle DEF Labels, Conts
<1>3. ~ In(m) /\ Passed(m) = 0 /\ Level(m) = 0 /\ ~ Unshared(m) /\ ~ Counted(m)
      /\ ~ LastStep(m)
  BY <1>1, OutPlaces, LevelRange DEF LastStep
<1> HIDE DEF m
<1>4. pl \in [Procs -> Places] /\ \A p \in Procs : pl[p] = m
  BY <1>1
<1>5. Placed(pl)
  <2>1. todo = [p \in Procs |-> Steps(pl[p])]
    BY <1>2 DEF Init
  <2>2. collector \in {"semi", "gen"} /\ agressive \in [Types -> BOOLEAN]
    BY ConcurrentAssumption DEF Init
  <2>q. QED BY <1>1, <1>4, <2>1, <2>2 DEF Placed, SemiGs, GenGs
<1> HIDE DEF pl
<1>6. Together(pl)
  BY <1>3, <1>4, ConcurrentAssumption DEF Together, Init
<1>7. Phase(pl)
  <2>1. \A p \in Procs : pl[p].g \notin OnGs /\ pl[p].g \notin TransitionGs /\ pl[p].g # "off"
    BY <1>1, <1>4 DEF OnGs, TransitionGs
  <2>2. /\ status = "Off" /\ status \in States /\ type \in Types
        /\ collector = "semi" => type = "Major"
    BY DEF Init, States, Types
  <2>3. cycle \in 0 .. MaxCycles
    BY ConcurrentAssumption DEF Init
  <2>q. QED BY <2>1, <2>2, <2>3 DEF Phase
<1>8. OneFirst(pl)
  BY <1>3, <1>4 DEF OneFirst, PastWeak, Init
<1>9. RootsKnown(pl)
  <2>1. \A p \in Procs : pl[p].g # "off"
    BY <1>1, <1>4
  <2>2. ~ Completing_(pl)
    BY <2>1 DEF Completing_
  <2>q. QED BY <2>1, <2>2 DEF RootsKnown, Init
<1>10. WorkKnown(pl)
  <2>1. {p \in Procs : hasShared[p]} = {}
    BY DEF Init
  <2>2. numLocalStack = Cardinality({p \in Procs : hasShared[p]})
    BY <2>1, FS_EmptySet DEF Init
  <2>3. \A p \in Procs : WorkAt(pl[p], local[p], hasShared[p], log[p])
    BY <1>3, <1>4 DEF WorkAt, Init
  <2>q. QED BY <2>2, <2>3 DEF WorkKnown, Init
<1>11. ReplicasKnown(pl)
  <2>1. ReplicaTypes
    BY ConcurrentAssumption DEF ReplicaTypes, Init, Pointer
  <2>2. BackNames(pl)
    BY DEF BackNames, Names, Init
  <2>3. mirror[0].gen = 0 /\ mirror[1].gen = 0 /\ primary = 0 /\ Other(primary) = 1
    BY DEF Init, Pointer, Other
  <2>4. \A p \in Procs : pl[p].g # "release" /\ pl[p].h # "forward" /\ localNext[p] = {}
    BY <1>1, <1>4 DEF Init
  <2>5. next = {}
    BY DEF Init
  <2>q. QED BY <2>1, <2>2, <2>3, <2>4, <2>5 DEF ReplicasKnown
<1>q. QED BY <1>4, <1>5, <1>6, <1>7, <1>8, <1>9, <1>10, <1>11 DEF Known, Core, Inv

LEMMA StutterInv == Inv /\ UNCHANGED vars => Inv'
<1> SUFFICES ASSUME NEW pl \in [Procs -> Places], Known(pl), UNCHANGED vars
             PROVE  Inv'
  BY DEF Inv
<1>1. Placed(pl)' /\ Core(pl)'
  BY DEF vars, optionVars, Known, Placed, Core, Together, Phase, OnAt, TransitionAt,
         OffAt, SomeSet, SomeFlipped, SetOn, PendingOn, OneFirst, RootsKnown, Completing_
<1>2. WorkKnown(pl)'
  BY DEF vars, optionVars, stackVars, Known, WorkKnown, WorkAt, KeepsAt, BusyAt, On
<1>3. ReplicasKnown(pl)'
  BY DEF vars, optionVars, stackVars, mirrorVars, Known, ReplicasKnown, ReplicaTypes,
         BackNames, Due, Deferred, Fetched, On, NextAt, Other
<1>q. QED BY <1>1, <1>2, <1>3, Conclude

LEMMA NextInv == Inv /\ [Next]_vars => Inv'
<1> SUFFICES ASSUME Inv, [Next]_vars PROVE Inv'
  OBVIOUS
<1>1. CASE UNCHANGED vars
  BY <1>1, StutterInv
<1>2. CASE Next
  <2>1. PICK pl \in [Procs -> Places] : Known(pl)
    BY DEF Inv
  <2>2. PICK p \in Procs : Step(p) \/ SemiMutate(p) \/ SemiAllocBig(p) \/ GenMutate(p)
    BY <1>2 DEF Next
  <2>3. \/ CommonStep(p) \/ SemiStep(p) \/ GenStep(p) \/ SemiMutate(p) \/ SemiAllocBig(p)
        \/ GenMutate(p)
    BY <2>2 DEF Step
  <2>q. QED BY <2>1, <2>3, CommonInv, SemiInv, GenInv
<1>q. QED BY <1>1, <1>2

LEMMA Invariant == Spec => []Inv
BY InitInv, NextInv, PTL DEF Spec

(* The elements of a list of steps.                                        *)
LEMMA Elements ==
  ASSUME NEW a \in Places
  PROVE  \E i \in 1 .. 11, n \in 0 .. 11, m \in 1 .. 12 :
           /\ i = a.i /\ n = Size(a.g) /\ m = n + 2 - i /\ i <= n + 1
           /\ Steps(a)[1] = a.h /\ DOMAIN Steps(a) = 1 .. m
           /\ \A j \in 2 .. m : Steps(a)[j] = (Script(a.g) \o <<a.x>>)[i + j - 1]
<1>1. PICK i \in 1 .. 11 : i = a.i
  BY PlaceFields
<1>2. PICK n \in 0 .. 11 : n = Size(a.g)
  BY Sizes
<1>3. i <= n + 1 /\ a.h \in Labels
  <2>1. a.g # "idle" => i \in 1 .. n
    BY <1>1, <1>2, Sizes
  <2>2. a.g = "idle" => i = 1
    BY <1>1, Sizes
  <2>q. QED BY <2>1, <2>2, PlaceFields
<1>4. PICK s \in Seq(Labels) : s = Script(a.g) \o <<a.x>> /\ Len(s) = n + 1
  BY <1>2, Lists
<1>5. PICK r \in Seq(Labels) : /\ r = Rest(s, a.i + 1) /\ Len(r) = n + 1 - i
                               /\ \A k \in 1 .. n + 1 - i : r[k] = s[i + k]
  <2>1. \A k \in i + 1 .. n + 1 : s[k] \in Labels
    BY <1>1, <1>4
  <2>2. /\ SubSeq(s, i + 1, n + 1) \in Seq(Labels)
        /\ Len(SubSeq(s, i + 1, n + 1))
             = IF i + 1 <= n + 1 THEN (n + 1) - (i + 1) + 1 ELSE 0
        /\ \A k \in 1 .. (n + 1) - (i + 1) + 1 :
             SubSeq(s, i + 1, n + 1)[k] = s[(i + 1) + k - 1]
    <3>1. i + 1 \in Int /\ n + 1 \in Int
      OBVIOUS
    <3>q. QED BY <2>1, <3>1, SubSeqProperties
  <2>3. Rest(s, a.i + 1) = SubSeq(s, i + 1, n + 1)
    BY <1>1, <1>4 DEF Rest
  <2>4. Len(SubSeq(s, i + 1, n + 1)) = n + 1 - i
    BY <1>3, <2>2
  <2>5. \A k \in 1 .. n + 1 - i : SubSeq(s, i + 1, n + 1)[k] = s[i + k]
    <3> SUFFICES ASSUME NEW k \in 1 .. n + 1 - i
                 PROVE  SubSeq(s, i + 1, n + 1)[k] = s[i + k]
      OBVIOUS
    <3>1. k \in 1 .. (n + 1) - (i + 1) + 1 /\ (i + 1) + k - 1 = i + k
      OBVIOUS
    <3>q. QED BY <2>2, <3>1
  <2>q. QED BY <2>2, <2>3, <2>4, <2>5
<1>6. Steps(a) = <<a.h>> \o r
  BY <1>4, <1>5 DEF Steps
<1>7. PICK m \in 1 .. 12 : m = n + 2 - i
  BY <1>3
<1>8. /\ Steps(a)[1] = a.h /\ DOMAIN Steps(a) = 1 .. m
      /\ \A j \in 2 .. m : Steps(a)[j] = r[j - 1]
  <2>1. <<a.h>> \in Seq(Labels) /\ Len(<<a.h>>) = 1 /\ <<a.h>>[1] = a.h
    BY <1>3
  <2>2. /\ Steps(a) \in Seq(Labels) /\ Len(Steps(a)) = 1 + Len(r)
        /\ \A j \in 1 .. 1 + Len(r) : Steps(a)[j] = IF j <= 1 THEN <<a.h>>[j] ELSE r[j - 1]
    BY <1>6, <2>1, ConcatProperties
  <2>3. 1 + Len(r) = m
    BY <1>5, <1>7
  <2>q. QED BY <2>1, <2>2, <2>3
<1>9. \A j \in 2 .. m : Steps(a)[j] = s[i + j - 1]
  <2> SUFFICES ASSUME NEW j \in 2 .. m PROVE Steps(a)[j] = s[i + j - 1]
    OBVIOUS
  <2>1. j - 1 \in 1 .. n + 1 - i /\ i + (j - 1) = i + j - 1
    BY <1>7
  <2>q. QED BY <1>5, <1>8, <2>1
<1>q. QED BY <1>1, <1>2, <1>3, <1>4, <1>7, <1>8, <1>9

(* The flip is a step of CollectorOff only.                                *)
LEMMA FlipScript ==
  ASSUME NEW g \in Gs, NEW k \in 1 .. Size(g), Script(g)[k] = "flip"
  PROVE  g = "off" /\ k = 8
<1>1. g # "semiOn"
  <2>1. Script("semiOn") = SemiCollectorOn /\ Size("semiOn") = 9
    BY Scripts DEF Size, SemiGs, GenGs
  <2>q. QED BY <2>1 DEF SemiCollectorOn
<1>2. g # "semiTransition"
  <2>1. Script("semiTransition") = SemiCollectorTransition /\ Size("semiTransition") = 9
    BY Scripts DEF Size, SemiGs, GenGs
  <2>q. QED BY <2>1 DEF SemiCollectorTransition
<1>3. g # "genOn"
  <2>1. Script("genOn") = GenCollectorOn /\ Size("genOn") = 11
    BY Scripts DEF Size, SemiGs, GenGs
  <2>q. QED BY <2>1 DEF GenCollectorOn
<1>4. g # "genTransition"
  <2>1. Script("genTransition") = GenCollectorTransition /\ Size("genTransition") = 11
    BY Scripts DEF Size, SemiGs, GenGs
  <2>q. QED BY <2>1 DEF GenCollectorTransition
<1>5. g \notin {"quantum", "release", "done", "idle"}
  <2>1. /\ Script("quantum") = <<"pop">> /\ Script("release") = <<"pushRelease">>
        /\ Script("done") = <<"strong">> /\ Size("idle") = 0
        /\ Size("quantum") = 1 /\ Size("release") = 1 /\ Size("done") = 1
    BY Scripts DEF Size, SemiGs, GenGs
  <2>q. QED BY <2>1
<1>6. g = "off"
  BY <1>1, <1>2, <1>3, <1>4, <1>5 DEF Gs, SemiGs, GenGs
<1>7. k \in 1 .. 9
  BY <1>6 DEF Size, SemiGs, GenGs
<1>8. k # 1
  BY <1>6, Scripts
<1>9. PICK m \in 1 .. 8 : k = m + 1
  BY <1>7, <1>8
<1>10. SemiCollectorOff[m] = "flip"
  BY <1>6, <1>9, Scripts
<1>11. m = 7
  BY <1>10 DEF SemiCollectorOff
<1>q. QED BY <1>6, <1>9, <1>11

(* Where Completing holds.                                                 *)
LEMMA CompletingPlace ==
  ASSUME NEW pl \in [Procs -> Places], Known(pl), NEW p \in Procs, Completing(p)
  PROVE  pl[p].g = "off" /\ pl[p].i \in 6 .. 8 /\ In(pl[p]) /\ Passed(pl[p]) >= 2
<1>0. PICK a \in Places : a = pl[p]
  OBVIOUS
<1>1. todo[p] = Steps(a) /\ (At(p, "complete") <=> a.h = "complete")
  BY <1>0, PlacedFacts DEF Known
<1>2. PICK i \in 1 .. 11, n \in 0 .. 11, m \in 1 .. 12 :
        /\ i = a.i /\ n = Size(a.g) /\ m = n + 2 - i /\ i <= n + 1
        /\ Steps(a)[1] = a.h /\ DOMAIN Steps(a) = 1 .. m
        /\ \A j \in 2 .. m : Steps(a)[j] = (Script(a.g) \o <<a.x>>)[i + j - 1]
  BY Elements
<1>3. ASSUME NEW j \in 1 .. m, Steps(a)[j] = "flip" PROVE a.g = "off" /\ i <= 8
  <2>1. CASE j = 1
    <3>1. a.h = "flip"
      BY <1>2, <1>3, <2>1
    <3>q. QED BY <1>2, <3>1, InPlaces
  <2>2. CASE j # 1
    <3>0. j \in 2 .. m /\ m = n + 2 - i
      BY <1>2, <2>2
    <3>1. PICK k \in 1 .. n + 1 : k = i + j - 1 /\ k > i
      BY <3>0
    <3>2. (Script(a.g) \o <<a.x>>)[k] = "flip"
      <4>1. Steps(a)[j] = (Script(a.g) \o <<a.x>>)[i + j - 1]
        BY <1>2, <3>0
      <4>q. QED BY <1>3, <3>1, <4>1
    <3>3. a.x # "flip"
      <4>1. a.x \in Conts \cup {"full", "quit", "switch"}
        BY PlaceFields DEF StepAt, IdleAt, Conts
      <4>q. QED BY <4>1 DEF Conts
    <3>4. k # n + 1
      BY <1>2, <3>2, <3>3, Lists
    <3>5. k \in 1 .. Size(a.g) /\ Script(a.g)[k] = "flip"
      <4>1. k \in 1 .. n
        BY <3>4
      <4>q. QED BY <1>2, <3>2, <4>1, Lists
    <3>6. a.g \in Gs
      BY PlaceFields
    <3>7. a.g = "off" /\ k = 8
      BY <3>5, <3>6, FlipScript
    <3>q. QED BY <3>1, <3>7
  <2>q. QED BY <2>1, <2>2
<1>4. ASSUME a.g = "off", i < 6
      PROVE  \E k \in 1 .. m : Steps(a)[k] = "complete"
  <2>1. n = 9
    BY <1>2, <1>4 DEF Size, SemiGs, GenGs
  <2>2. PICK k \in 2 .. m : k = 7 - i
    BY <1>2, <1>4, <2>1
  <2>3. Steps(a)[k] = (Script(a.g) \o <<a.x>>)[i + k - 1] /\ i + k - 1 = 6
    <3>1. Steps(a)[k] = (Script(a.g) \o <<a.x>>)[i + k - 1]
      BY <1>2, <2>2
    <3>2. i + k - 1 = 6
      BY <2>2
    <3>q. QED BY <3>1, <3>2
  <2>4. (Script(a.g) \o <<a.x>>)[6] = Script("off")[6]
    <3>1. 6 \in 1 .. Size(a.g)
      BY <1>2, <2>1
    <3>2. (Script(a.g) \o <<a.x>>)[6] = Script(a.g)[6]
      BY <3>1, Lists
    <3>q. QED BY <1>4, <3>2
  <2>5. Script("off")[5 + 1] = SemiCollectorOff[5]
    BY Scripts
  <2>6. SemiCollectorOff[5] = "complete"
    BY DEF SemiCollectorOff
  <2>7. Steps(a)[k] = "complete"
    <3>1. 5 + 1 = 6
      OBVIOUS
    <3>q. QED BY <2>3, <2>4, <2>5, <2>6, <3>1
  <2>8. k \in 1 .. m
    BY <2>2
  <2>q. QED BY <2>7, <2>8
<1>5. a.g = "off" /\ i \in 6 .. 8
  <2>1. CASE a.h = "complete"
    BY <1>2, <2>1, InPlaces
  <2>2. CASE a.h # "complete"
    <3>1. PICK j \in 1 .. m : Steps(a)[j] = "flip"
      BY <1>1, <1>2, <2>2 DEF Completing, Flipping
    <3>2. ~ \E k \in 1 .. m : Steps(a)[k] = "complete"
      BY <1>1, <1>2, <2>2 DEF Completing
    <3>3. a.g = "off" /\ i <= 8
      BY <1>3, <3>1
    <3>q. QED BY <1>4, <3>2, <3>3
  <2>q. QED BY <2>1, <2>2
<1>6. In(a) /\ Passed(a) >= 2
  BY <1>2, <1>5 DEF In, Passed, SemiGs, GenGs
<1>q. QED BY <1>0, <1>2, <1>5, <1>6

(* Past the first strong barrier of CollectorOff nobody has work.          *)
LEMMA NoWork ==
  ASSUME NEW pl \in [Procs -> Places], Known(pl), NEW p \in Procs,
         pl[p].g = "off", In(pl[p]), Passed(pl[p]) >= 2
  PROVE  shared = {} /\ \A q \in Procs : local[q] = {} /\ ~ hasShared[q]
<1>1. \A q \in Procs : Level(pl[q]) >= Passed(pl[p]) /\ Passed(pl[p]) \in 0 .. 4
  BY LevelRange DEF Known, Core, Together
<1>2. \A q \in Procs : In(pl[q])
  <2>1. \A q \in Procs : ~ In(pl[q]) => Level(pl[q]) = 0
    BY LevelRange
  <2>q. QED BY <1>1, <2>1
<1>3. \A q \in Procs : pl[q].g = "off" /\ pl[q].i >= 2
  <2>1. \A q \in Procs : pl[q].g = "off"
    BY <1>2 DEF Known, Core, Together
  <2>q. QED BY <1>2, <2>1 DEF In, SemiGs, GenGs
<1>4. ASSUME NEW q \in Procs PROVE local[q] = {} /\ ~ hasShared[q]
  <2>0. PICK c \in Places : c = pl[q]
    OBVIOUS
  <2>1. c.h \notin Working /\ c.g = "off"
    BY <1>2, <1>3, <2>0, InHeads
  <2>2. WorkAt(c, local[q], hasShared[q], log[q])
    BY <2>0 DEF Known, WorkKnown
  <2>3. ~ Unshared(c) /\ ~ Counted(c)
    BY <2>1 DEF Unshared, Counted, SemiGs, GenGs
  <2>4. ~ KeepsAt(c, log[q])
    BY <2>1, <2>3 DEF KeepsAt
  <2>q. QED BY <2>1, <2>2, <2>3, <2>4 DEF WorkAt
<1>5. shared = {}
  <2>1. \A q \in Procs : ~ BusyAt(pl[q], local[q])
    BY <1>3 DEF BusyAt
  <2>q. QED BY <2>1 DEF Known, WorkKnown
<1>q. QED BY <1>4, <1>5

(* Every variable has its type, no processor dies in the switch of a phase *)
(* function (the DIE of CollectorOn, CollectorTransition and CollectorOff  *)
(* is never reached), and numLocalStack counts the processors that have    *)
(* taken shared work and not given it back.                                *)
THEOREM TypeCorrect == Spec => []TypeOK
<1>1. Inv => TypeOK
  <2> SUFFICES ASSUME NEW pl \in [Procs -> Places], Known(pl) PROVE TypeOK
    BY DEF Inv
  <2>1. \A p \in Procs : todo[p] # <<>> /\ ~ At(p, "die")
    <3>1. \A p \in Procs : pl[p].h # "die"
      <4>1. \A p \in Procs : pl[p].h \in Labels
        BY PlaceFields
      <4>q. QED BY <4>1 DEF Labels, Loop, Barrier, Sharing, Conts
    <3>q. QED BY <3>1, PlacedFacts DEF Known
  <2>2. /\ status \in States /\ type \in Types /\ cycle \in 0 .. MaxCycles
        /\ numLocalStack = Cardinality({p \in Procs : hasShared[p]})
        /\ space \in {0, 1}
    BY DEF Known, Core, Phase, RootsKnown, WorkKnown
  <2>3. writes \in 0 .. MaxWrites /\ primary \in {0, 1}
        /\ \A i \in {0, 1} : mirror[i].id \in 0 .. writes
    BY DEF Known, ReplicasKnown, ReplicaTypes
  <2>q. QED BY <2>1, <2>2, <2>3 DEF TypeOK
<1>q. QED BY <1>1, Invariant, PTL

(* When CollectorOff completes stacks and flips, no work is left in the    *)
(* shared stack nor with a processor: the asserts of CollectorOff that the *)
(* local stack is empty hold, whatever mutators released on the way.       *)
THEOREM NoWorkAtFlip == Spec => []EmptyAtFlip
<1>1. Inv => EmptyAtFlip
  <2> SUFFICES ASSUME NEW pl \in [Procs -> Places], Known(pl),
                      NEW p \in Procs, Completing(p)
               PROVE  shared = {} /\ \A q \in Procs : local[q] = {} /\ ~ hasShared[q]
    BY DEF Inv, EmptyAtFlip
  <2>q. QED BY CompletingPlace, NoWork
<1>q. QED BY <1>1, Invariant, PTL

(* No thread runs with registers that point to the space the last flip has *)
(* retired: CollectorOff has completed the stack of every thread, by       *)
(* whichever processor, before any processor goes back to its mutator.     *)
THEOREM RootsFlippedAlways == Spec => []RootsFlipped
<1>1. Inv => RootsFlipped
  <2> SUFFICES ASSUME NEW pl \in [Procs -> Places], Known(pl),
                      NEW p \in Procs, At(p, "mutator")
               PROVE  \A t \in Threads : threadSpace[t] = space
    BY DEF Inv, RootsFlipped
  <2>1. pl[p].h = "mutator"
    BY PlacedFacts DEF Known
  <2>2. ~ In(pl[p])
    BY <2>1, OutPlaces DEF Conts
  <2>3. ~ Completing_(pl)
    BY <2>2, OutFacts DEF Known, Core
  <2>q. QED BY <2>3 DEF Known, Core, RootsKnown
<1>q. QED BY <1>1, Invariant, PTL

(* The copy of a mirrored field that mutators see never points into a      *)
(* nursery that has been emptied: the two lists of back locations that     *)
(* GCRelease_GenConc keeps are enough, whenever a release and the start of *)
(* a collection interleave, if no array is stored in itself (an array that *)
(* is passes the test of gc_gen_conc.c:812 for one not scanned yet).       *)
THEOREM MirrorSafe ==
  ASSUME ~ SelfPointers
  PROVE  Spec => []NoNurseryPointer
<1>1. Inv => NoNurseryPointer
  BY DEF Inv, Known, ReplicasKnown, NoNurseryPointer
<1>q. QED BY <1>1, Invariant, PTL
=============================================================================
