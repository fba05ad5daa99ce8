---------------------------- MODULE MCTileGeometry ----------------------------
(* The tile arithmetic over all small inputs: one state for each. *)
EXTENDS TileGeometry, FiniteSets

CONSTANTS MaxHeight, MaxThreads, MaxOption

ASSUME BoundsAssumption ==
    MaxHeight \in Nat /\ MaxThreads \in Nat /\ MaxOption \in Nat

VARIABLES height, threads, option, tiled, n

choice == <<height, threads, option, tiled, n>>

ChoiceInit ==
    /\ height \in 1..MaxHeight /\ threads \in 0..MaxThreads
    /\ option \in -1..MaxOption /\ tiled \in BOOLEAN
    /\ n = 0

Choose ==
    /\ n = 0
    /\ n' = NTiles(option, tiled, height, threads)
    /\ UNCHANGED <<height, threads, option, tiled>>

ChoiceSpec == ChoiceInit /\ [][Choose]_choice

ChoiceTypeOK ==
    /\ height \in 1..MaxHeight /\ threads \in 0..MaxThreads
    /\ option \in -1..MaxOption /\ tiled \in BOOLEAN
    /\ n \in 0..height

RowsOf(i) == TileRow(height, n, i)..(TileRow(height, n, i) + TileHeight(height, n, i) - 1)

\* The strips partition the image, so that the threads of the pool write
\* disjoint rows and leave none out, and no strip is empty.
StripsPartition ==
    n # 0 =>
        /\ UNION {RowsOf(i) : i \in 0..(n - 1)} = 0..(height - 1)
        /\ \A i, j \in 0..(n - 1) : i # j => RowsOf(i) \cap RowsOf(j) = {}
        /\ \A i \in 0..(n - 1) : RowsOf(i) # {}

\* "clamped so that no strip is shorter than 96 rows": an automatic tile count
\* leaves every strip its minimum, unless the image itself is lower.
StripsTallEnough ==
    n # 0 /\ option = 0 =>
        \A i \in 0..(n - 1) :
            TileHeight(height, n, i) >= IF height < MinRows THEN height ELSE MinRows

\* The memory guard of the advanced predictor: the threads together stay
\* below the limit, and there is at least one unless none was asked for.
MemoryGuarded ==
    LET t == DecodeThreads(threads, height, 3, 2, 40)
    IN  /\ t * (3 * height + 2) <= 40 \/ t <= 1
        /\ threads > 0 => t > 0
=============================================================================
