------------------------------ MODULE MCTiledJob ------------------------------
(* Instances of TiledJob for TLC. *)
EXTENDS TiledJob

Calm == [threads |-> 2, crc |-> FALSE, fails |-> {}, throws |-> {}, throwsBack |-> {}, damage |-> {}]

\* A CRC with damage and a lost exception; no CRC with damage; one thread,
\* where an exception leaves the loop.
OptionsAll ==
    {[Calm EXCEPT !.crc = TRUE, !.fails = {0}, !.throwsBack = {1}, !.damage = {0, 2}],
     [Calm EXCEPT !.fails = {1}, !.damage = {1}],
     [Calm EXCEPT !.threads = 1, !.fails = {0}, !.throws = {1}, !.throwsBack = {2}]}

\* A strip whose compression throws on a worker.
OptionsLost == {[Calm EXCEPT !.throws = {1}]}
=============================================================================
