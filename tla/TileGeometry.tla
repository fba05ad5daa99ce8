----------------------------- MODULE TileGeometry -----------------------------
(***************************************************************************)
(* How a .tnbli image is cut into horizontal strips (tiles.h) and how many *)
(* strips and threads processFile and decompressStream choose (mtnbli.cpp).*)
(* All numbers are uint32_t: arithmetic that may leave the range is taken  *)
(* modulo Word, which is 2^32 in the program.                              *)
(***************************************************************************)
EXTENDS Integers

CONSTANTS
    Word,               \* uint32_t is 0..(Word - 1)
    MinRows             \* a strip of an automatic tiling has at least these rows: 96

ASSUME TileAssumption == Word \in Nat \ {0} /\ MinRows \in Nat \ {0}

TileHeightEqual(height, n, i) == height \div n      \* faulty: the rest is lost

\* The first height % n strips have one row more than the others.
TileHeight(height, n, i) ==
    (height \div n) + (IF i < height % n THEN 1 ELSE 0)

TileRowEqual(height, n, i) == (height \div n) * i   \* faulty: as if there was no rest
TileRow(height, n, i) ==
    (height \div n) * i + (IF i < height % n THEN i ELSE height % n)

AutoTilesUnclamped(height, threads) ==               \* faulty: strips of any height
    LET twice == 2 * (IF threads = 0 THEN 1 ELSE threads) % Word
    IN  IF twice < 1 THEN 1 ELSE twice

\* Two strips for each thread, unless they would get too low.  The product
\* may wrap to 0.
AutoTiles(height, threads) ==
    LET twice == (2 * (IF threads = 0 THEN 1 ELSE threads)) % Word
        most == IF height \div MinRows < 1 THEN 1 ELSE height \div MinRows
        fewer == IF twice > most THEN most ELSE twice
    IN  IF fewer < 1 THEN 1 ELSE fewer

\* The tile count of a compression: -T N, -M MT and the height decide.
NTiles(option, tiled, height, threads) ==
    LET wanted == IF option > 1 THEN option
                  ELSE IF option = 0 \/ tiled THEN AutoTiles(height, threads)
                  ELSE 1
        least == IF wanted < 1 THEN 1 ELSE wanted
    IN  IF least > height THEN height ELSE least

DecodeThreadsFree(threads, width, perColumn, slack, limit) == threads     \* faulty: no guard

\* The advanced predictor needs perColumn bytes for each column (3 * 688)
\* and some slack (1 MB) on every thread; all of them together get limit
\* (512 MB), but one thread always runs.
DecodeThreads(threads, width, perColumn, slack, limit) ==
    LET most == limit \div (perColumn * width + slack)
        atLeast1 == IF most < 1 THEN 1 ELSE most
    IN  IF threads > atLeast1 THEN atLeast1 ELSE threads
=============================================================================
