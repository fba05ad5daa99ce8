------------------------------ MODULE PngFilter ------------------------------
(***************************************************************************)
(* The row filters of the PNG writer (imageio/imageio_png.c): every byte   *)
(* is replaced by its difference to a guess from its left, upper and upper *)
(* left neighbour; the filter of a row is the one that looks best on a     *)
(* sample of its bytes.                                                    *)
(***************************************************************************)
EXTENDS Integers, SequencesExt, FiniteSetsExt

CONSTANTS
    Bytes,      \* 256 values of a byte
    Bpp,        \* bytes of a pixel: 1 or 3
    Sparse      \* levels below 7 sample every fourth pixel

ASSUME PngAssumption == Bytes \in {2 * k : k \in 1..128} /\ Bpp \in {1, 3} /\ Sparse \in Nat \ {0}

AbsDiff(a, b) == IF a < b THEN b - a ELSE a - b

Paeth(a, b, c) ==
    LET p == a + b - c
        nearest == Min({AbsDiff(p, a), AbsDiff(p, b), AbsDiff(p, c)})
    IN  IF AbsDiff(p, a) = nearest THEN a
        ELSE IF AbsDiff(p, b) = nearest THEN b ELSE c

\* Neighbours outside of the image are 0; there is no row above the first one.
Guess(f, cur, prev, i) ==
    LET a == IF i > Bpp THEN cur[i - Bpp] ELSE 0
        b == IF prev # <<>> THEN prev[i] ELSE 0
        c == IF prev # <<>> /\ i > Bpp THEN prev[i - Bpp] ELSE 0
    IN  CASE f = 0 -> 0
          [] f = 1 -> a
          [] f = 2 -> b
          [] f = 3 -> (a + b) \div 2
          [] f = 4 -> Paeth(a, b, c)

ApplyFilter(cur, prev, f) == [i \in DOMAIN cur |-> (cur[i] - Guess(f, cur, prev, i)) % Bytes]

FilterMask(level) ==
    CASE level <= 0   -> {0}
      [] level \in 1..3 -> {0, 2}
      [] level \in 4..6 -> {0, 1, 2, 4}
      [] level >= 7   -> 0..4

Sampled(cur, level) ==
    {i \in DOMAIN cur : (i - 1) % (Bpp * (IF level >= 7 THEN 1 ELSE Sparse)) = 0}

\* How far a byte is from 0, and the sum of this over the sample.
FromZero(x) == IF x < Bytes \div 2 THEN x ELSE Bytes - x
Score(cur, prev, level, f) ==
    LET upto[i \in 0..Len(cur)] ==
            IF i = 0 THEN 0
            ELSE upto[i - 1] + IF i \in Sampled(cur, level)
                               THEN FromZero((cur[i] - Guess(f, cur, prev, i)) % Bytes) ELSE 0
    IN  upto[Len(cur)]

\* The smallest sum, and of equal ones the first filter.
PickFilter(cur, prev, level) ==
    CHOOSE f \in FilterMask(level) :
        \A g \in FilterMask(level) \ {f} :
            LET a == Score(cur, prev, level, f)
                b == Score(cur, prev, level, g)
            IN  a < b \/ (a = b /\ f < g)

\* The rows that go to the deflate encoder.
WritePNG(rows, level) ==
    [y \in DOMAIN rows |->
        LET prev == IF y = 1 THEN <<>> ELSE rows[y - 1]
            f == PickFilter(rows[y], prev, level)
        IN  <<f>> \o ApplyFilter(rows[y], prev, f)]

\* What a reader makes of them, byte by byte and row by row.
Unfilter(prev, line) ==
    LET upto[i \in 0..(Len(line) - 1)] ==
            IF i = 0 THEN <<>>
            ELSE LET cur == upto[i - 1]
                 IN  Append(cur, (line[i + 1] + Guess(line[1], cur, prev, i)) % Bytes)
    IN  upto[Len(line) - 1]
Unfiltered(lines) ==
    LET upto[y \in 0..Len(lines)] ==
            IF y = 0 THEN <<>>
            ELSE LET rows == upto[y - 1]
                 IN  Append(rows, Unfilter(IF y = 1 THEN <<>> ELSE rows[y - 1], lines[y]))
    IN  upto[Len(lines)]
=============================================================================
