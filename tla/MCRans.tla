------------------------------- MODULE MCRans -------------------------------
(* The smallest coder that writes words: two lanes, B = 2 * NormSum.       *)
EXTENDS Rans
=============================================================================
