----------------------------- MODULE MCSemiPara -----------------------------
(* Two processors.  Two threads have a root each, r1 to o1 and r2 to o2;   *)
(* o1 points to o2 and o3, and o3 back to o1.                              *)
EXTENDS SemiPara

CONSTANTS t1, t2, r1, r2, o1, o2, o3

TwoSets == <<2, 2>>

TwoThreads == [t \in {t1, t2} |-> IF t = t1 THEN <<r1>> ELSE <<r2>>]

SmallGraph ==
  [i \in {r1, r2, o1, o2, o3} |-> CASE i = r1 -> <<o1>>
                                    [] i = r2 -> <<o2>>
                                    [] i = o1 -> <<o2, o3>>
                                    [] i = o2 -> <<>>
                                    [] i = o3 -> <<o1>>]

(* One thread with eight roots, each to an object of its own: enough for   *)
(* the length that popSharedStack reads before it enters the room to be    *)
(* far out of date when it is used.  The fetch sizes are the defaults of   *)
(* gc.c:78-80.                                                             *)
DefaultFetch == <<1000, 100>>

EightRoots == <<"r1", "r2", "r3", "r4", "r5", "r6", "r7", "r8">>
EightObjects == <<"o1", "o2", "o3", "o4", "o5", "o6", "o7", "o8">>
EightItems == SE!ToSet(EightRoots) \cup SE!ToSet(EightObjects)

OneThread == [t \in {t1} |-> EightRoots]

OneEach ==
  [i \in EightItems |->
     IF i \in Roots THEN <<EightObjects[CHOOSE n \in 1 .. 8 : EightRoots[n] = i]>>
                    ELSE <<>>]
=============================================================================
