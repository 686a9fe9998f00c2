---- MODULE MCConcurrent ----
(* Two processors, one thread, two collections. *)
EXTENDS ConcCollectors
MajorAgressive == [t \in Types |-> t = "Major"]
MinorAgressive == [t \in Types |-> t = "Minor"]
MCOptions == {MajorAgressive, MinorAgressive}
====
