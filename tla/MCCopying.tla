----------------------------- MODULE MCCopying -----------------------------
(* Two processors.  The array a is in the registers of both mutators; its  *)
(* first field points to the record c, which points back to a.  The        *)
(* mutator of p1 takes two steps, so that it can store what it has loaded  *)
(* or allocated; p2 copies and scans meanwhile.                            *)
EXTENDS Copying

CONSTANTS p1, p2, a, c, n

SmallGraph == [o \in {a, c} |-> IF o = a THEN <<c, Nil>> ELSE <<a>>]

(* The array holds itself in its first field.                              *)
SelfGraph == [o \in {a, c} |-> IF o = a THEN <<a, c>> ELSE <<a>>]

BothHaveA == [p \in {p1, p2} |-> a]
NothingHeld == [p \in {p1, p2} |-> Nil]
P1Writes == [p \in {p1, p2} |-> IF p = p1 THEN {1, 2} ELSE {}]
TwoStepsOfP1 == [p \in {p1, p2} |-> IF p = p1 THEN 2 ELSE 0]
OneStepOfP1 == [p \in {p1, p2} |-> IF p = p1 THEN 1 ELSE 0]
=============================================================================
