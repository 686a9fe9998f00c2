----------------------------- MODULE MCBarriers -----------------------------
(* The barriers of one stop-and-copy collection: weakBarrier at            *)
(* gc_semi_para.c:63, strongBarrier at 74, 149 and 163.                    *)
EXTENDS Barriers
SemiPara == <<"weak", "strong", "strong", "strong">>
=============================================================================
