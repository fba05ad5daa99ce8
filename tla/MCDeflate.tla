------------------------------ MODULE MCDeflate ------------------------------
(***************************************************************************)
(* All inputs of two bytes up to a length beyond that of the ring: short   *)
(* chains, lazy matching with deep chains, greedy, and stored.             *)
(***************************************************************************)
EXTENDS Deflate

CONSTANT MaxInput

MCInputs == {<<0>> \o s : s \in [1..(MaxInput - 1) -> 0..1]} \cup {<<>>, <<0>>, <<0, 0, 0, 0>>}
MCLevels == {[chain |-> 1, nice |-> 4, lazy |-> 0], [chain |-> 9, nice |-> 5, lazy |-> 5]}
MCOptions ==
    {[src |-> s, stored |-> FALSE, chain |-> l.chain, nice |-> l.nice, lazy |-> l.lazy] :
        s \in MCInputs, l \in MCLevels}
    \cup {[src |-> s, stored |-> TRUE, chain |-> 0, nice |-> 0, lazy |-> 0] :
        s \in {<<>>, <<0, 1, 0, 1, 1, 1, 0>>}}
=============================================================================
