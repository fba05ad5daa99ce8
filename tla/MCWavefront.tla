----------------------------- MODULE MCWavefront -----------------------------
(* Four lanes; images around every bound of the size test. *)
EXTENDS Wavefront

MCShapes ==
    {s \in [h : {1, 2, 5, 6, 7, 8, 9, 12}, w : {1, 2, 7, 8, 9}, oneLane : BOOLEAN, enc : BOOLEAN] :
        s.oneLane => s.h \in {2, 8}}
=============================================================================
