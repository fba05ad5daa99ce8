---------------------------- MODULE MCParallelFor ----------------------------
(* Small instances of ParallelFor for TLC. *)
EXTENDS ParallelFor

MCThrow == {0, 2}
MCThrowAny == Indices
=============================================================================
