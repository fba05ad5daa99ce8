---------------------------- MODULE MCFaultGuard ----------------------------
(***************************************************************************)
(* Two files of any kinds: on one thread, on two with the tiles inline   *)
(* (the memory guard of -a allows one thread), and on two with two each.   *)
(***************************************************************************)
EXTENDS FaultGuard

MCBad == {b \in SUBSET (Jobs \X ({Whole} \cup Tiles)) : Cardinality(b) <= 3}
MCOptions ==
    {opt \in [workers : 1..2, helpers : 1..2, kind : [Jobs -> Kinds], bad : MCBad] :
        /\ opt.helpers <= opt.workers
        /\ \A b \in opt.bad : b[2] # Whole => opt.kind[b[1]] = "tiled"}
=============================================================================
