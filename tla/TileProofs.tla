------------------------------ MODULE TileProofs ------------------------------
(***************************************************************************)
(* The tile arithmetic for every height, thread count and -T, and what it  *)
(* gives a container: for every number and size of blobs, every order of   *)
(* the threads, and every failure, exception and damage.                   *)
(***************************************************************************)
EXTENDS MCTileGeometry, TiledJob, FiniteSetTheorems, WellFoundedInduction, TLAPS

-----------------------------------------------------------------------------
(* Division with a remainder.                                              *)

LEMMA Division ==
    ASSUME NEW h \in Nat, NEW m \in Nat \ {0}
    PROVE  /\ h \div m \in Nat
           /\ h % m \in 0..(m - 1)
           /\ h = m * (h \div m) + (h % m)
BY SMT

LEMMA ProductGrows ==
    ASSUME NEW a \in Nat, NEW b \in Nat, NEW c \in Nat, a <= b
    PROVE  /\ c * a <= c * b
           /\ c * a \in Nat
BY SMT

LEMMA Distributes ==
    ASSUME NEW a \in Int, NEW c \in Int
    PROVE  c * (a + 1) = c * a + c
BY SMT

-----------------------------------------------------------------------------
(* Strips.                                                                 *)

\* The strips are stacked without a gap from row 0 to the last row of the
\* image: the loops over tiles of the encoder and the decoder agree on them.
THEOREM StripsAreStacked ==
    ASSUME NEW h \in Nat, NEW m \in Nat \ {0}
    PROVE  /\ TileRow(h, m, 0) = 0
           /\ TileRow(h, m, m) = h
           /\ \A i \in Nat : TileRow(h, m, i + 1) = TileRow(h, m, i) + TileHeight(h, m, i)
<1> DEFINE b == h \div m
           r == h % m
<1>1. b \in Nat /\ r \in 0..(m - 1) /\ h = m * b + r
  BY Division
<1>2. TileRow(h, m, 0) = 0
  <2>1. b * 0 = 0
    BY <1>1
  <2> QED
    BY <1>1, <2>1 DEF TileRow
<1>3. TileRow(h, m, m) = h
  <2>1. b * m = m * b
    BY <1>1
  <2> QED
    BY <1>1, <2>1 DEF TileRow
<1>4. ASSUME NEW i \in Nat
      PROVE  TileRow(h, m, i + 1) = TileRow(h, m, i) + TileHeight(h, m, i)
  <2>1. b * (i + 1) = b * i + b /\ b * i \in Int
    BY <1>1, Distributes
  <2>2. TileRow(h, m, i + 1) = b * (i + 1) + (IF i + 1 < r THEN i + 1 ELSE r)
    BY DEF TileRow
  <2>3. TileRow(h, m, i) + TileHeight(h, m, i)
          = b * i + (IF i < r THEN i ELSE r) + (b + (IF i < r THEN 1 ELSE 0))
    BY DEF TileRow, TileHeight
  <2> HIDE DEF b, r
  <2> QED
    BY <1>1, <2>1, <2>2, <2>3
<1> QED
  BY <1>2, <1>3, <1>4

\* A strip ends before any later one begins.
LEMMA StripsAreOrdered ==
    ASSUME NEW h \in Nat, NEW m \in Nat \ {0}, NEW i \in Nat, NEW j \in Nat, i < j
    PROVE  TileRow(h, m, i) + TileHeight(h, m, i) <= TileRow(h, m, j)
<1> DEFINE b == h \div m
           r == h % m
<1>1. b \in Nat /\ r \in 0..(m - 1)
  BY Division
<1>2. b * (i + 1) <= b * j /\ b * j \in Int
  BY <1>1, ProductGrows
<1>3. b * (i + 1) = b * i + b /\ b * i \in Int
  BY <1>1, Distributes
<1> QED
  BY <1>1, <1>2, <1>3 DEF TileRow, TileHeight

\* Every row lies in a strip.
LEMMA StripsCover ==
    ASSUME NEW h \in Nat, NEW m \in Nat \ {0}, NEW y \in 0..(h - 1)
    PROVE  \E i \in 0..(m - 1) :
              TileRow(h, m, i) <= y /\ y < TileRow(h, m, i) + TileHeight(h, m, i)
<1> DEFINE b == h \div m
           r == h % m
<1>1. b \in Nat /\ r \in 0..(m - 1) /\ h = m * b + r
  BY Division
<1> SUFFICES \E i \in 0..(m - 1) :
                LET top == b * i + (IF i < r THEN i ELSE r)
                IN  top <= y /\ y < top + (b + (IF i < r THEN 1 ELSE 0))
  BY DEF TileRow, TileHeight
<1> HIDE DEF b, r
<1>2. CASE y < (b + 1) * r
  <2> DEFINE q == y \div (b + 1)
             s == y % (b + 1)
  <2>1. q \in Nat /\ s \in 0..b /\ y = (b + 1) * q + s
    <3>1. b + 1 \in Nat \ {0} /\ y \in Nat
      BY <1>1
    <3>2. q \in Nat /\ s \in 0..((b + 1) - 1) /\ y = (b + 1) * q + s
      BY <3>1, Division
    <3>3. (b + 1) - 1 = b
      BY <1>1
    <3> QED
      BY <3>2, <3>3
  <2> HIDE DEF q, s
  <2>2. q < r
    <3>1. SUFFICES ASSUME r <= q PROVE FALSE
      BY <1>1, <2>1
    <3>2. (b + 1) * r <= (b + 1) * q /\ (b + 1) * q \in Nat /\ (b + 1) * r \in Nat
      <4>1. b + 1 \in Nat /\ r \in Nat
        BY <1>1
      <4> QED
        BY <2>1, <3>1, <4>1, ProductGrows
    <3>3. (b + 1) * q <= y
      BY <2>1, <3>2
    <3> QED
      BY <1>2, <3>2, <3>3
  <2>3. (b + 1) * q = b * q + q /\ b * q \in Int
    BY <1>1, <2>1
  <2> QED
    BY <1>1, <2>1, <2>2, <2>3
<1>3. CASE (b + 1) * r <= y
  <2>1. (b + 1) * r = b * r + r /\ b * r \in Int
    BY <1>1
  <2>2. b # 0
    BY <1>1, <1>3, <2>1
  <2> DEFINE e == y - (b + 1) * r
             q == e \div b
             s == e % b
  <2>3. e \in Nat
    BY <1>1, <1>3, <2>1
  <2>4. q \in Nat /\ s \in 0..(b - 1) /\ e = b * q + s
    BY <1>1, <2>2, <2>3, Division
  <2>5. e = y - (b * r + r)
    BY <2>1
  <2> HIDE DEF e, q, s
  <2>6. b * (r + q) = b * r + b * q /\ b * q \in Int /\ b * m = m * b
    BY <1>1, <2>4
  <2>7. r + q < m
    <3>1. SUFFICES ASSUME m <= r + q PROVE FALSE
      BY <1>1, <2>4
    <3>2. b * m <= b * (r + q) /\ b * m \in Int
      BY <1>1, <2>4, <3>1, ProductGrows
    <3> QED
      BY <1>1, <2>4, <2>5, <2>6, <3>2
  <2>8. r + q \in 0..(m - 1) /\ ~(r + q < r)
    BY <1>1, <2>4, <2>7
  <2> QED
    BY <1>1, <2>1, <2>4, <2>5, <2>6, <2>8
<1>4. (b + 1) * r \in Int
  BY <1>1
<1> QED
  BY <1>2, <1>3, <1>4

\* A strip has its share of the rows: never less than height \div n.
LEMMA StripHeight ==
    ASSUME NEW h \in Nat, NEW m \in Nat \ {0}, NEW i \in Nat
    PROVE  /\ TileHeight(h, m, i) \in Nat
           /\ h \div m <= TileHeight(h, m, i)
           /\ TileRow(h, m, i) \in Nat
<1>1. h \div m \in Nat /\ h % m \in Nat
  BY Division
<1>2. (h \div m) * i \in Nat
  BY <1>1, ProductGrows
<1> QED
  BY <1>1, <1>2 DEF TileHeight, TileRow

LEMMA QuotientGrows ==
    ASSUME NEW h \in Nat, NEW m \in Nat \ {0}, NEW k \in Nat, m * k <= h
    PROVE  k <= h \div m
<1> DEFINE q == h \div m
<1>1. q \in Nat /\ h % m \in 0..(m - 1) /\ h = m * q + (h % m)
  BY Division
<1> HIDE DEF q
<1>2. SUFFICES ASSUME q + 1 <= k PROVE FALSE
  BY <1>1 DEF q
<1>3. m * (q + 1) <= m * k
  BY <1>1, <1>2, ProductGrows
<1>4. m * (q + 1) = m * q + m /\ m * q \in Int /\ m * k \in Int
  BY <1>1, Distributes
<1> QED
  BY <1>1, <1>3, <1>4

-----------------------------------------------------------------------------
(* The number of strips.                                                   *)

LEMMA AutoTilesBounds ==
    ASSUME NEW h \in Nat, NEW t \in Nat
    PROVE  /\ AutoTiles(h, t) \in Nat \ {0}
           /\ AutoTiles(h, t) = 1 \/ MinRows * AutoTiles(h, t) <= h
<1> DEFINE twice == (2 * (IF t = 0 THEN 1 ELSE t)) % Word
           q == h \div MinRows
           a == AutoTiles(h, t)
<1>1. twice \in Nat
  <2>1. 2 * (IF t = 0 THEN 1 ELSE t) \in Nat
    OBVIOUS
  <2> QED
    BY <2>1, Division, TileAssumption
<1>2. q \in Nat /\ h % MinRows \in Nat /\ h = MinRows * q + (h % MinRows)
  BY Division, TileAssumption
<1>3. a = LET most == IF q < 1 THEN 1 ELSE q
              fewer == IF twice > most THEN most ELSE twice
          IN  IF fewer < 1 THEN 1 ELSE fewer
  BY DEF AutoTiles
<1> HIDE DEF twice, q, a
<1>4. a \in Nat \ {0} /\ (a = 1 \/ a <= q)
  BY <1>1, <1>2, <1>3
<1>5. CASE a <= q
  <2>1. MinRows * a <= MinRows * q /\ MinRows * a \in Nat /\ MinRows * q \in Nat
    BY <1>2, <1>4, <1>5, ProductGrows, TileAssumption
  <2>2. MinRows * a <= h
    BY <1>2, <2>1
  <2> QED
    BY <1>4, <2>2 DEF a
<1> QED
  BY <1>4, <1>5 DEF a

LEMMA NTilesInRange ==
    ASSUME NEW opt \in Int, NEW d \in BOOLEAN, NEW h \in Nat \ {0}, NEW t \in Nat
    PROVE  NTiles(opt, d, h, t) \in 1..h
<1>1. AutoTiles(h, t) \in Nat \ {0}
  BY AutoTilesBounds
<1> QED
  BY <1>1 DEF NTiles

\* An automatic tile count: all strips have MinRows rows, or there is one.
LEMMA AutoStripsTall ==
    ASSUME NEW d \in BOOLEAN, NEW h \in Nat \ {0}, NEW t \in Nat, NEW i \in Nat
    PROVE  TileHeight(h, NTiles(0, d, h, t), i) >= IF h < MinRows THEN h ELSE MinRows
<1> DEFINE a == AutoTiles(h, t)
           m == NTiles(0, d, h, t)
<1>1. a \in Nat \ {0} /\ (a = 1 \/ MinRows * a <= h)
  BY AutoTilesBounds
<1>2. m = IF a > h THEN h ELSE a
  <2>1. m = LET least == IF a < 1 THEN 1 ELSE a IN IF least > h THEN h ELSE least
    BY DEF NTiles
  <2> QED
    BY <1>1, <2>1
<1>3. m \in Nat \ {0}
  BY <1>1, <1>2
<1> HIDE DEF a, m
<1>4. h \div m <= TileHeight(h, m, i) /\ TileHeight(h, m, i) \in Nat /\ h \div m \in Nat
  BY <1>3, StripHeight, Division
<1>5. CASE a = 1
  <2>1. m = 1 /\ m * h <= h
    BY <1>2, <1>5
  <2>2. h <= h \div m
    BY <1>3, <2>1, QuotientGrows
  <2> QED
    BY <1>4, <2>2, TileAssumption DEF m
<1>6. CASE MinRows * a <= h
  <2>1. a * MinRows = MinRows * a /\ MinRows * a \in Nat
    BY <1>1, TileAssumption
  <2>2. m * MinRows <= h
    <3>1. m <= a
      BY <1>1, <1>2
    <3>2. MinRows * m <= MinRows * a /\ MinRows * m \in Nat
      BY <1>1, <1>3, <3>1, ProductGrows, TileAssumption
    <3>3. m * MinRows = MinRows * m
      BY <1>3, TileAssumption
    <3> QED
      BY <1>6, <2>1, <3>2, <3>3
  <2>3. MinRows <= h \div m
    BY <1>3, <2>2, QuotientGrows, TileAssumption
  <2> QED
    BY <1>4, <2>3, TileAssumption DEF m
<1> QED
  BY <1>1, <1>5, <1>6

\* The guard of the advanced predictor, for every width, budget and thread
\* count: together the threads stay below the limit, or there is only one.
THEOREM GuardHolds ==
    ASSUME NEW t \in Nat, NEW w \in Nat, NEW c \in Nat, NEW s \in Nat \ {0}, NEW limit \in Nat
    PROVE  LET k == DecodeThreads(t, w, c, s, limit)
           IN  /\ k * (c * w + s) <= limit \/ k <= 1
               /\ t > 0 => k > 0
<1> DEFINE each == c * w + s
           most == limit \div each
           k == DecodeThreads(t, w, c, s, limit)
<1>1. each \in Nat \ {0}
  BY ProductGrows
<1>2. k = LET atLeast1 == IF most < 1 THEN 1 ELSE most
          IN  IF t > atLeast1 THEN atLeast1 ELSE t
  BY DEF DecodeThreads
<1> HIDE DEF each, k
<1>3. most \in Nat /\ limit % each \in Nat /\ limit = each * most + (limit % each)
  BY <1>1, Division
<1> HIDE DEF most
<1>4. k \in Nat /\ (k <= 1 \/ k <= most) /\ (t > 0 => k > 0)
  BY <1>2, <1>3
<1>5. CASE k <= most
  <2>1. each * k <= each * most /\ each * k \in Nat /\ each * most \in Nat
    BY <1>1, <1>3, <1>4, <1>5, ProductGrows
  <2>2. k * each = each * k
    BY <1>1, <1>4
  <2>3. k * each <= limit
    BY <1>3, <2>1, <2>2
  <2> QED
    BY <1>4, <2>3 DEF k, each
<1> QED
  BY <1>4, <1>5 DEF k, each

-----------------------------------------------------------------------------
(* The choices of a run.                                                   *)

Chosen == n # 0 => n = NTiles(option, tiled, height, threads)

THEOREM ChoiceCorrect == ChoiceSpec => [](ChoiceTypeOK /\ Chosen)
<1>1. ChoiceInit => ChoiceTypeOK /\ Chosen
  BY BoundsAssumption DEF ChoiceInit, ChoiceTypeOK, Chosen
<1>2. ChoiceTypeOK /\ Chosen /\ [Choose]_choice => (ChoiceTypeOK /\ Chosen)'
  <2> SUFFICES ASSUME ChoiceTypeOK, Chosen, [Choose]_choice PROVE (ChoiceTypeOK /\ Chosen)'
    OBVIOUS
  <2>1. CASE Choose
    <3>1. height \in Nat \ {0} /\ threads \in Nat /\ option \in Int /\ tiled \in BOOLEAN
      BY BoundsAssumption DEF ChoiceTypeOK
    <3>2. n' \in 1..height
      BY <2>1, <3>1, NTilesInRange DEF Choose
    <3> QED
      BY <2>1, <3>1, <3>2 DEF Choose, ChoiceTypeOK, Chosen
  <2>2. CASE UNCHANGED choice
    BY <2>2 DEF choice, ChoiceTypeOK, Chosen
  <2> QED
    BY <2>1, <2>2
<1> QED
  BY <1>1, <1>2, PTL DEF ChoiceSpec

\* The strips of every image partition its rows: two threads of the pool never
\* write the same row, and none is left out.
THEOREM StripsAlwaysPartition == ChoiceSpec => []StripsPartition
<1>1. ChoiceTypeOK /\ Chosen => StripsPartition
  <2> SUFFICES ASSUME ChoiceTypeOK, n # 0 PROVE StripsPartition
    BY DEF StripsPartition
  <2>1. height \in Nat \ {0} /\ n \in Nat \ {0} /\ n <= height
    BY BoundsAssumption DEF ChoiceTypeOK
  <2> DEFINE R(i) == TileRow(height, n, i)
             H(i) == TileHeight(height, n, i)
  <2>2. \A i \in Nat : R(i) \in Nat /\ H(i) \in Nat
    BY <2>1, StripHeight
  <2>3. \A i \in Nat : \A j \in Nat : i < j => R(i) + H(i) <= R(j)
    BY <2>1, StripsAreOrdered
  <2>4. \A i \in 0..(n - 1) : R(i) + H(i) <= height
    BY <2>1, <2>3, StripsAreStacked
  <2>5. \A y \in 0..(height - 1) : \E i \in 0..(n - 1) : R(i) <= y /\ y < R(i) + H(i)
    BY <2>1, StripsCover
  <2>6. \A i \in Nat : 1 <= H(i)
    <3>1. n * 1 <= height
      BY <2>1
    <3>2. 1 <= height \div n /\ height \div n \in Nat
      BY <2>1, <3>1, QuotientGrows, Division
    <3> QED
      BY <2>1, <2>2, <3>2, StripHeight
  <2> HIDE DEF R, H
  <2>7. \A i \in Nat : RowsOf(i) = R(i)..(R(i) + H(i) - 1)
    BY DEF RowsOf, R, H
  <2>8. UNION {RowsOf(i) : i \in 0..(n - 1)} = 0..(height - 1)
    <3>1. ASSUME NEW y \in 0..(height - 1) PROVE \E i \in 0..(n - 1) : y \in RowsOf(i)
      <4>1. PICK i \in 0..(n - 1) : R(i) <= y /\ y < R(i) + H(i)
        BY <2>5
      <4>2. i \in Nat /\ y \in Nat
        BY <2>1
      <4>3. R(i) \in Nat /\ H(i) \in Nat
        BY <2>2, <4>2
      <4>4. y \in R(i)..(R(i) + H(i) - 1)
        BY <4>1, <4>2, <4>3
      <4> QED
        BY <2>7, <4>2, <4>4
    <3>2. ASSUME NEW i \in 0..(n - 1), NEW y \in RowsOf(i) PROVE y \in 0..(height - 1)
      <4>1. i \in Nat /\ R(i) \in Nat /\ H(i) \in Nat /\ R(i) + H(i) <= height
        BY <2>2, <2>4
      <4>2. y \in R(i)..(R(i) + H(i) - 1)
        BY <2>7, <4>1
      <4> QED
        BY <2>1, <4>1, <4>2
    <3> QED
      BY <3>1, <3>2
  <2>9. \A i, j \in 0..(n - 1) : i # j => RowsOf(i) \cap RowsOf(j) = {}
    <3> SUFFICES ASSUME NEW i \in 0..(n - 1), NEW j \in 0..(n - 1), i # j, NEW y,
                        y \in RowsOf(i), y \in RowsOf(j)
                 PROVE FALSE
      OBVIOUS
    <3>1. i \in Nat /\ j \in Nat /\ R(i) \in Nat /\ R(j) \in Nat /\ H(i) \in Nat /\ H(j) \in Nat
      BY <2>2
    <3>2. y \in R(i)..(R(i) + H(i) - 1) /\ y \in R(j)..(R(j) + H(j) - 1)
      BY <2>7, <3>1
    <3>3. CASE i < j
      BY <2>3, <3>1, <3>2, <3>3
    <3>4. CASE j < i
      BY <2>3, <3>1, <3>2, <3>4
    <3> QED
      BY <3>1, <3>3, <3>4
  <2>10. \A i \in 0..(n - 1) : RowsOf(i) # {}
    <3> SUFFICES ASSUME NEW i \in 0..(n - 1) PROVE R(i) \in RowsOf(i)
      OBVIOUS
    <3>1. i \in Nat
      OBVIOUS
    <3>2. R(i) \in Nat /\ H(i) \in Nat /\ 1 <= H(i)
      BY <2>2, <2>6, <3>1
    <3>3. R(i) \in R(i)..(R(i) + H(i) - 1)
      BY <3>2
    <3> QED
      BY <2>7, <3>1, <3>3
  <2> QED
    BY <2>8, <2>9, <2>10 DEF StripsPartition
<1> QED
  BY <1>1, ChoiceCorrect, PTL

\* With an automatic tile count no strip is lower than MinRows, unless the
\* image is.
THEOREM StripsAlwaysTall == ChoiceSpec => []StripsTallEnough
<1>1. ChoiceTypeOK /\ Chosen => StripsTallEnough
  <2> SUFFICES ASSUME ChoiceTypeOK, Chosen, n # 0, option = 0, NEW i \in 0..(n - 1)
               PROVE  TileHeight(height, n, i) >= IF height < MinRows THEN height ELSE MinRows
    BY DEF StripsTallEnough
  <2>1. height \in Nat \ {0} /\ threads \in Nat /\ tiled \in BOOLEAN /\ n \in Nat
    BY BoundsAssumption DEF ChoiceTypeOK
  <2>2. n = NTiles(0, tiled, height, threads) /\ i \in Nat
    BY <2>1 DEF Chosen
  <2> QED
    BY <2>1, <2>2, AutoStripsTall
<1> QED
  BY <1>1, ChoiceCorrect, PTL

\* The memory guard, for the numbers of the instance.
THEOREM MemoryAlwaysGuarded == ChoiceSpec => []MemoryGuarded
<1>1. ChoiceTypeOK => MemoryGuarded
  <2> SUFFICES ASSUME ChoiceTypeOK PROVE MemoryGuarded
    OBVIOUS
  <2>1. height \in Nat /\ threads \in Nat
    BY BoundsAssumption DEF ChoiceTypeOK
  <2> QED
    BY <2>1, GuardHolds DEF MemoryGuarded
<1> QED
  BY <1>1, ChoiceCorrect, PTL

-----------------------------------------------------------------------------
(* Induction, and the functions defined by recursion over the tiles.       *)

LEMMA LessIsWellFounded == IsWellFoundedOn(OpToRel(<, Nat), Nat)
BY NatLessThanWellFounded

LEMMA LeastOf ==
    ASSUME NEW T \in SUBSET Nat, NEW x \in T
    PROVE  \E m \in T : \A k \in T : m <= k
<1> DEFINE below == {p \in Nat \X Nat : p[1] < p[2]}
<1>1. OpToRel(<, Nat) = below
  BY DEF OpToRel
<1>2. IsWellFoundedOn(below, Nat)
  BY <1>1, LessIsWellFounded
<1>3. \A a, b \in Nat : a < b => <<a, b>> \in below
  OBVIOUS
<1> HIDE DEF below
<1>4. T \subseteq Nat /\ T # {}
  OBVIOUS
<1>5. PICK m \in T : \A y \in T : ~ <<y, m>> \in below
  BY <1>2, <1>4, WFMin
<1>6. \A y \in T : m <= y
  <2> TAKE y \in T
  <2>1. m \in Nat /\ y \in Nat /\ ~ (y < m)
    BY <1>3, <1>4, <1>5
  <2> QED BY <2>1
<1> QED BY <1>6

LEMMA Induction ==
    ASSUME NEW T \in SUBSET Nat, 0 \in T, \A k \in Nat : k \in T => k + 1 \in T
    PROVE  T = Nat
<1> SUFFICES ASSUME NEW x \in Nat \ T PROVE FALSE
  OBVIOUS
<1>1. PICK m \in Nat \ T : \A k \in Nat \ T : m <= k
  BY LeastOf
<1>2. m # 0 /\ m - 1 \in Nat /\ m - 1 \in T
  BY <1>1
<1> QED BY <1>1, <1>2

LEMMA AlignedUp ==
    ASSUME NEW x \in Nat
    PROVE  Aligned(x) \in Nat /\ Aligned(x) >= x /\ Aligned(x) % 8 = 0
BY DEF Aligned

LEMMA JobSizes ==
    /\ Height \in Nat /\ N \in Nat \ {0} /\ N <= Height /\ HeaderBytes \in Nat
    /\ Lengths \subseteq Nat \ {0} /\ Tiles = 0..(N - 1) /\ 0 \in 0..N /\ N \in 0..N
    /\ \A i \in Tiles : i \in Nat /\ i \in 0..N /\ i + 1 \in 0..N
    /\ \A k \in 0..N : k # 0 => k - 1 \in Tiles /\ k - 1 \in 0..N
BY TiledJobAssumption DEF Tiles, HeaderBytes

\* The two loops over the tiles compute the same ends of blobs.
Ends(pos, k) == pos = [i \in 0..k |-> IF i = 0 THEN HeaderBytes ELSE Aligned(pos[i - 1]) + blens[i - 1]]

LEMMA EndsExist == \E pos : Ends(pos, N)
<1> DEFINE T == {k \in Nat : \E pos : Ends(pos, k)}
<1>1. 0 \in T
  <2>1. Ends([i \in 0..0 |-> HeaderBytes], 0)
    BY DEF Ends
  <2> QED BY <2>1
<1>2. \A k \in Nat : k \in T => k + 1 \in T
  <2> SUFFICES ASSUME NEW k \in Nat, NEW old, Ends(old, k) PROVE \E pos : Ends(pos, k + 1)
    OBVIOUS
  <2> DEFINE pos == [i \in 0..(k + 1) |-> IF i = k + 1 THEN Aligned(old[k]) + blens[k] ELSE old[i]]
  <2>1. \A i \in 0..(k + 1) : pos[i] = IF i = 0 THEN HeaderBytes ELSE Aligned(pos[i - 1]) + blens[i - 1]
    <3> TAKE i \in 0..(k + 1)
    <3>1. CASE i = k + 1
      <4>1. i # 0 /\ i - 1 = k /\ k \in 0..(k + 1) /\ pos[k] = old[k] /\ pos[i] = Aligned(old[k]) + blens[k]
        BY <3>1
      <4> HIDE DEF pos
      <4> QED BY <4>1
    <3>2. CASE i # k + 1
      <4>1. i \in 0..k /\ pos[i] = old[i]
        BY <3>2
      <4>2. i # 0 => i - 1 \in 0..k /\ pos[i - 1] = old[i - 1]
        BY <4>1
      <4>3. old[i] = IF i = 0 THEN HeaderBytes ELSE Aligned(old[i - 1]) + blens[i - 1]
        BY <4>1 DEF Ends
      <4> HIDE DEF pos
      <4> QED BY <4>1, <4>2, <4>3
    <3> QED BY <3>1, <3>2
  <2>2. pos = [i \in 0..(k + 1) |-> pos[i]]
    OBVIOUS
  <2> HIDE DEF pos
  <2>3. Ends(pos, k + 1)
    BY <2>1, <2>2 DEF Ends
  <2> QED BY <2>3
<1>3. T \in SUBSET Nat
  OBVIOUS
<1> HIDE DEF T
<1>4. T = Nat
  BY <1>1, <1>2, <1>3, Induction
<1> QED BY <1>4, JobSizes DEF T

\* The size that is allocated and the table that is written, from one function.
LEMMA TotalAndOffsets ==
    \E pos : Ends(pos, N) /\ Total = pos[N]
             /\ Offsets = [k \in 0..N |-> IF k = N THEN pos[N] ELSE Aligned(pos[k])]
<1> DEFINE pos == CHOOSE f : Ends(f, N)
<1>1. Ends(pos, N)
  BY EndsExist, Zenon
<1>2. Total = pos[N]
  BY DEF Total, Ends
<1>3. Offsets = [k \in 0..N |-> IF k = N THEN pos[N] ELSE Aligned(pos[k])]
  BY DEF Offsets, Ends
<1> HIDE DEF pos
<1> QED BY <1>1, <1>2, <1>3

LEMMA LayoutIsSound ==
    ASSUME blens \in [Tiles -> {0} \cup Lengths]
    PROVE  /\ Total \in Nat /\ Offsets \in [0..N -> Nat]
           /\ Offsets[0] >= HeaderBytes /\ Offsets[N] = Total
           /\ \A i \in Tiles : /\ Offsets[i] % 8 = 0 /\ Offsets[i] + blens[i] <= Offsets[i + 1]
                               /\ Offsets[i + 1] <= Total
<1>0. \A i \in Tiles : blens[i] \in Nat
  <2>1. {0} \cup Lengths \subseteq Nat
    BY JobSizes
  <2> QED BY <2>1
<1>1. PICK pos : /\ Ends(pos, N) /\ Total = pos[N]
                 /\ Offsets = [k \in 0..N |-> IF k = N THEN pos[N] ELSE Aligned(pos[k])]
  BY TotalAndOffsets
<1>2. \A k \in 0..N : pos[k] = IF k = 0 THEN HeaderBytes ELSE Aligned(pos[k - 1]) + blens[k - 1]
  BY <1>1 DEF Ends
<1>3. \A k \in 0..N : pos[k] \in Nat
  <2> DEFINE T == {k \in Nat : k <= N => pos[k] \in Nat}
  <2>1. 0 \in T
    BY <1>2, JobSizes
  <2>2. \A k \in Nat : k \in T => k + 1 \in T
    <3> SUFFICES ASSUME NEW k \in Nat, pos[k] \in Nat, k + 1 <= N PROVE pos[k + 1] \in Nat
      BY JobSizes
    <3>1. k + 1 \in 0..N /\ k + 1 # 0 /\ (k + 1) - 1 = k /\ k \in Tiles
      BY JobSizes
    <3>2. pos[k + 1] = Aligned(pos[k]) + blens[k]
      BY <1>2, <3>1
    <3> QED BY <1>0, <3>1, <3>2, AlignedUp
  <2>3. T \in SUBSET Nat
    OBVIOUS
  <2> HIDE DEF T
  <2>4. T = Nat
    BY <2>1, <2>2, <2>3, Induction
  <2> QED BY <2>4, JobSizes DEF T
<1>4. \A k \in 0..N : Offsets[k] \in Nat /\ Offsets[k] >= pos[k]
  <2> TAKE k \in 0..N
  <2>1. Offsets[k] = IF k = N THEN pos[N] ELSE Aligned(pos[k])
    BY <1>1
  <2>2. pos[k] \in Nat /\ Aligned(pos[k]) \in Nat /\ Aligned(pos[k]) >= pos[k]
    BY <1>3, AlignedUp
  <2>3. pos[k] >= pos[k]
    BY <2>2
  <2>4. CASE k = N
    BY <2>1, <2>2, <2>3, <2>4
  <2> QED BY <2>1, <2>2, <2>4
<1>5. \A i \in Tiles : Offsets[i] = Aligned(pos[i]) /\ pos[i + 1] = Offsets[i] + blens[i]
  <2> TAKE i \in Tiles
  <2>1. i \in 0..N /\ i # N /\ i + 1 \in 0..N /\ i + 1 # 0 /\ (i + 1) - 1 = i
    BY JobSizes
  <2> QED BY <1>1, <1>2, <2>1
<1>6. \A i \in Tiles : Offsets[i] % 8 = 0 /\ Offsets[i] + blens[i] <= Offsets[i + 1]
  <2> TAKE i \in Tiles
  <2>1. i \in 0..N /\ i + 1 \in 0..N /\ pos[i] \in Nat
    BY <1>3, JobSizes
  <2> QED BY <1>4, <1>5, <2>1, AlignedUp
<1>7. \A k \in 0..N : Offsets[k] <= Offsets[N]
  <2> DEFINE T == {d \in Nat : d <= N => Offsets[N - d] <= Offsets[N]}
  <2>1. 0 \in T
    BY <1>4, JobSizes
  <2>2. \A d \in Nat : d \in T => d + 1 \in T
    <3> SUFFICES ASSUME NEW d \in Nat, Offsets[N - d] <= Offsets[N], d + 1 <= N
                 PROVE  Offsets[N - (d + 1)] <= Offsets[N]
      BY JobSizes
    <3> DEFINE i == N - (d + 1)
    <3>1. i \in Tiles /\ i + 1 = N - d /\ i \in 0..N /\ i + 1 \in 0..N /\ N \in 0..N
      BY JobSizes
    <3>2. Offsets[i] \in Nat /\ Offsets[i + 1] \in Nat /\ Offsets[N] \in Nat /\ blens[i] \in Nat
      BY <1>0, <1>4, <3>1
    <3>3. Offsets[i] + blens[i] <= Offsets[i + 1]
      BY <1>6, <3>1
    <3> HIDE DEF i
    <3>4. Offsets[i] <= Offsets[N]
      BY <3>1, <3>2, <3>3
    <3> QED BY <3>4 DEF i
  <2>3. T \in SUBSET Nat
    OBVIOUS
  <2> HIDE DEF T
  <2>4. T = Nat
    BY <2>1, <2>2, <2>3, Induction
  <2> SUFFICES ASSUME NEW k \in 0..N PROVE Offsets[k] <= Offsets[N]
    OBVIOUS
  <2>5. N - k \in Nat /\ N - k <= N /\ N - (N - k) = k
    BY JobSizes
  <2>6. N - k \in T
    BY <2>4, <2>5
  <2> QED BY <2>5, <2>6 DEF T
<1>8. Offsets[N] = Total /\ Total \in Nat
  BY <1>1, <1>3, JobSizes
<1>9. Offsets[0] >= HeaderBytes
  BY <1>2, <1>3, <1>4, JobSizes
<1>10. Offsets \in [0..N -> Nat]
  <2>1. Offsets = [k \in 0..N |-> Offsets[k]]
    BY <1>1
  <2> QED BY <1>4, <2>1
<1> QED BY <1>6, <1>7, <1>8, <1>9, <1>10, JobSizes

-----------------------------------------------------------------------------
(* The life of a container: the invariant.                                 *)

Stages == {"compress", "failed", "compressed", "decompress", "damaged", "mismatch", "restored"}
Places == {"idle", "running", "over"}
Callers == {"waiting", "returned", "raised", "aborted"}
RowStates == [by : {"nobody", "right", "wrong"}, times : {0, 1}]

JobTyped ==
    /\ o \in Options /\ stage \in Stages
    /\ call \in [Tiles -> Places] /\ caller \in Callers
    /\ dcall \in [Tiles -> Places] /\ dcaller \in Callers
    /\ blens \in [Tiles -> {0} \cup Lengths]
    /\ nfail \in Nat
    /\ offs \in [0..N -> Nat] /\ total \in Nat
    /\ damaged \subseteq Tiles
    /\ row \in [Tiles -> 0..Height]
    /\ img \in [Rows -> RowStates]

\* No strip is decoded yet.
Writing == stage \in {"compress", "failed", "compressed"}
OverIn(c) == {i \in Tiles : c[i] = "over"}
\* Strips without a blob, of a container or not.
LostStrips == {i \in o.throws : blens[i] = 0}

\* The two pools run one after the other, each to its end.
StageInv ==
    /\ caller = "returned" => \A i \in Tiles : call[i] = "over"
    /\ stage # "compress" => caller = "returned"
    /\ Writing => dcaller = "waiting" /\ \A i \in Tiles : dcall[i] = "idle"
    /\ stage \in {"damaged", "mismatch", "restored"} => dcaller = "returned"
    /\ dcaller = "returned" => \A i \in Tiles : dcall[i] = "over"

CountInv == nfail <= Cardinality(OverIn(IF Writing THEN call ELSE dcall))

\* Only an exception on a worker leaves a strip without a blob and uncounted.
BlobInv ==
    (IF stage = "compress" THEN caller # "raised" /\ nfail = 0 ELSE stage # "failed") =>
        \A i \in Tiles : call[i] = "over" /\ blens[i] = 0 => ~Inline /\ i \in o.throws

LayoutInv ==
    stage \notin {"compress", "failed"} =>
        /\ \A i \in Tiles : /\ offs[i] % 8 = 0 /\ offs[i] + blens[i] <= offs[i + 1]
                            /\ offs[i + 1] <= total
        /\ offs[0] >= HeaderBytes /\ offs[N] = total

FailInv ==
    /\ ~Writing /\ nfail > 0 => damaged # {} \/ (~Inline /\ LostStrips # {})
    /\ stage = "restored" => nfail = 0 /\ (o.crc => ImageIsRight)
    /\ stage = "damaged" => nfail > 0

\* How far a strip is, and that it gets to its end unless there is something
\* that says it may not.  Only the strip itself, while its blob is undamaged,
\* counts as a writer of its rows.
StripInv(i) ==
    /\ First(i) <= row[i]
    /\ i \notin damaged => row[i] <= Behind(i)
    /\ dcall[i] = "idle" => row[i] = First(i)
    /\ dcall[i] = "over" => row[i] = Behind(i) \/ nfail > 0 \/ i \in damaged \cup o.throwsBack
    /\ \A y \in Strip(i) \cap Rows : img[y].times = 1 => i \notin damaged /\ y < row[i]
    /\ \A y \in Strip(i) \cap Rows : y < row[i] => img[y].by = "right" \/ damaged # {}

\* Wrong rows come from a damaged strip further up.
WrongInv == \A y \in Rows : img[y].by = "wrong" => \E i \in damaged : First(i) <= y

JobIInv ==
    /\ JobTyped /\ StageInv /\ CountInv /\ BlobInv /\ LayoutInv /\ FailInv /\ WrongInv
    /\ \A i \in Tiles : StripInv(i)

LEMMA OptionTypes ==
    ASSUME NEW opt \in Options
    PROVE  /\ opt.threads \in Nat \ {0} /\ opt.crc \in BOOLEAN
           /\ opt.fails \subseteq Tiles /\ opt.throws \subseteq Tiles
           /\ opt.throwsBack \subseteq Tiles /\ opt.damage \subseteq Tiles
BY OptionsAssumption

\* The first row of a strip and the one behind it.
LEMMA StripEdges ==
    ASSUME NEW i \in Tiles
    PROVE  /\ First(i) \in Nat /\ Behind(i) \in Nat /\ First(i) <= Behind(i) /\ Behind(i) <= Height
           /\ \A y \in Int : y \in Strip(i) <=> First(i) <= y /\ y < Behind(i)
<1> DEFINE R == TileRow(Height, N, i)
           H == TileHeight(Height, N, i)
<1>1. i \in Nat /\ i < N /\ Height \in Nat /\ N \in Nat \ {0}
  BY JobSizes
<1>2. R \in Nat /\ H \in Nat
  BY <1>1, StripHeight
<1>3. R + H <= Height
  <2>1. R + H <= TileRow(Height, N, N)
    BY <1>1, StripsAreOrdered
  <2>2. TileRow(Height, N, N) = Height
    BY <1>1, StripsAreStacked
  <2> QED BY <2>1, <2>2
<1>4. First(i) = R /\ Behind(i) = R + H
  BY DEF First, Behind
<1> HIDE DEF R, H
<1> QED BY <1>1, <1>2, <1>3, <1>4 DEF Strip

\* Strips of different tiles have no row in common.
LEMMA StripsAreDisjoint ==
    ASSUME NEW i \in Tiles, NEW j \in Tiles, i # j
    PROVE  Strip(i) \cap Strip(j) = {}
<1>1. ASSUME NEW a \in Tiles, NEW b \in Tiles, a < b PROVE Strip(a) \cap Strip(b) = {}
  <2>1. Behind(a) <= First(b)
    <3>1. a \in Nat /\ b \in Nat /\ b <= N /\ Height \in Nat /\ N \in Nat \ {0}
      BY JobSizes
    <3>2. TileRow(Height, N, a) + TileHeight(Height, N, a) <= TileRow(Height, N, b)
      BY <1>1, <3>1, StripsAreOrdered
    <3> QED BY <3>2 DEF First, Behind
  <2>2. First(a) \in Nat /\ Behind(a) \in Nat /\ First(b) \in Nat /\ Behind(b) \in Nat
    BY StripEdges
  <2> QED BY <2>1, <2>2 DEF Strip
<1>2. i < j \/ j < i
  BY JobSizes
<1> QED BY <1>1, <1>2

LEMMA EveryRowHasAStrip ==
    ASSUME NEW y \in Rows
    PROVE  \E i \in Tiles : y \in Strip(i)
<1>1. Height \in Nat /\ N \in Nat \ {0} /\ y \in 0..(Height - 1) /\ y \in Nat /\ Tiles = 0..(N - 1)
  BY JobSizes DEF Rows
<1>2. PICK i \in 0..(N - 1) : TileRow(Height, N, i) <= y /\ y < TileRow(Height, N, i) + TileHeight(Height, N, i)
  BY <1>1, StripsCover
<1>3. TileRow(Height, N, i) \in Nat /\ TileHeight(Height, N, i) \in Nat
  BY <1>1, StripHeight
<1> QED BY <1>1, <1>2, <1>3 DEF Strip, First, Behind

LEMMA OverCount ==
    ASSUME NEW c, NEW i \in Tiles, NEW d, c[i] # "over", d[i] = "over", \A j \in Tiles \ {i} : d[j] = c[j]
    PROVE  /\ Cardinality(OverIn(d)) = Cardinality(OverIn(c)) + 1
           /\ Cardinality(OverIn(c)) \in Nat
<1>1. IsFiniteSet(OverIn(c))
  <2>1. 0 \in Int /\ N - 1 \in Int
    BY JobSizes
  <2>2. IsFiniteSet(Tiles)
    BY <2>1, FS_Interval DEF Tiles
  <2> QED BY <2>2, FS_Subset DEF OverIn
<1>2. OverIn(d) = OverIn(c) \cup {i} /\ i \notin OverIn(c)
  BY DEF OverIn
<1> QED BY <1>1, <1>2, FS_AddElement, FS_CardinalityType

LEMMA JobInit == Init => JobIInv
<1> SUFFICES ASSUME Init PROVE JobIInv
  OBVIOUS
<1> USE DEF Init, Pool!FEInit, DPool!FEInit
<1>1. JobTyped
  <2>1. row \in [Tiles -> 0..Height]
    BY StripEdges, JobSizes
  <2> QED BY <2>1, JobSizes DEF JobTyped, Stages, Places, Callers, RowStates
<1>2. StageInv
  BY DEF StageInv
<1>3. CountInv
  <2>1. OverIn(call) = {}
    BY DEF OverIn
  <2>2. Cardinality(OverIn(call)) = 0
    BY <2>1, FS_EmptySet
  <2>3. (IF Writing THEN call ELSE dcall) = call /\ nfail = 0
    BY DEF Writing
  <2> QED BY <2>2, <2>3 DEF CountInv
<1>4. BlobInv /\ LayoutInv /\ FailInv
  BY DEF BlobInv, LayoutInv, FailInv, Writing
<1>5. ASSUME NEW i \in Tiles PROVE StripInv(i)
  <2>1. First(i) \in Nat /\ Behind(i) \in Nat /\ First(i) <= Behind(i)
    BY StripEdges
  <2>2. row[i] = First(i) /\ dcall[i] = "idle"
    OBVIOUS
  <2>3. ASSUME NEW y \in Strip(i) \cap Rows PROVE img[y].times = 0 /\ ~(y < row[i])
    <3>1. y \in Rows /\ y \in Int /\ First(i) <= y
      BY <2>1 DEF Strip
    <3> QED BY <2>1, <2>2, <3>1
  <2> QED BY <2>1, <2>2, <2>3 DEF StripInv
<1>6. WrongInv
  BY DEF WrongInv
<1> QED BY <1>1, <1>2, <1>3, <1>4, <1>5, <1>6 DEF JobIInv

-----------------------------------------------------------------------------
(* Compressing keeps it.                                                   *)

\* A call of the pool that compresses begins or ends: with a blob, with a
\* failure that is counted, or with an exception.
LEMMA CompressStep ==
    ASSUME JobIInv, NEW i \in Tiles, caller = "waiting", NEW place \in {"running", "over"},
           call[i] # "over", call' = [call EXCEPT ![i] = place],
           caller' \in {"waiting", "raised"},
           blens' \in [Tiles -> {0} \cup Lengths], \A j \in Tiles : j # i => blens'[j] = blens[j],
           UNCHANGED <<o, stage, dcall, dcaller, offs, total, damaged, row, img>>,
           \/ nfail' = nfail
           \/ place = "over" /\ nfail' = nfail + 1,
           place = "over" => \/ nfail' = nfail + 1
                             \/ blens'[i] # 0
                             \/ caller' = "raised"
                             \/ ~Inline /\ i \in o.throws
    PROVE  JobIInv'
<1>1. /\ JobTyped /\ StageInv /\ CountInv /\ BlobInv /\ WrongInv /\ nfail \in Nat
      /\ \A j \in Tiles : StripInv(j)
  BY DEF JobIInv, JobTyped
<1>2. stage = "compress" /\ stage' = "compress"
  BY <1>1 DEF StageInv
<1>3. call'[i] = place /\ (\A j \in Tiles : j # i => call'[j] = call[j]) /\ call' \in [Tiles -> Places]
  BY <1>1 DEF JobTyped, Places
<1>4. JobTyped'
  BY <1>1, <1>3 DEF JobTyped, Callers
<1>5. StageInv'
  BY <1>1, <1>2 DEF StageInv, Writing
<1>6. CountInv'
  <2>1. nfail <= Cardinality(OverIn(call))
    BY <1>1, <1>2 DEF CountInv, Writing
  <2>2. CASE place = "over"
    <3>1. /\ Cardinality(OverIn(call')) = Cardinality(OverIn(call)) + 1
          /\ Cardinality(OverIn(call)) \in Nat
      BY <1>3, <2>2, OverCount
    <3>2. nfail' <= Cardinality(OverIn(call'))
      BY <1>1, <2>1, <3>1
    <3>3. Cardinality(OverIn(call))' = Cardinality(OverIn(call'))
      BY DEF OverIn
    <3> QED BY <1>2, <3>2, <3>3 DEF CountInv, Writing
  <2>3. CASE place = "running"
    <3>1. OverIn(call)' = OverIn(call)
      BY <1>3, <2>3 DEF OverIn
    <3>2. nfail' = nfail
      BY <2>3
    <3> QED BY <1>2, <2>1, <3>1, <3>2 DEF CountInv, Writing
  <2> QED BY <2>2, <2>3
<1>7. BlobInv'
  <2> SUFFICES ASSUME caller' # "raised", nfail' = 0, NEW j \in Tiles, call'[j] = "over", blens'[j] = 0
               PROVE  ~Inline' /\ j \in o'.throws
    BY <1>2 DEF BlobInv
  <2>1. nfail = 0 /\ caller = "waiting" /\ Inline' = Inline /\ nfail' # nfail + 1
    BY <1>1 DEF Inline, NThreads
  <2>2. CASE j = i
    BY <1>3, <2>1, <2>2
  <2>3. CASE j # i
    BY <1>1, <1>2, <1>3, <2>1, <2>3 DEF BlobInv
  <2> QED BY <2>2, <2>3
<1>8. LayoutInv' /\ FailInv'
  BY <1>2 DEF LayoutInv, FailInv, Writing
<1>9. \A j \in Tiles : StripInv(j)'
  <2> SUFFICES ASSUME NEW j \in Tiles PROVE StripInv(j)'
    OBVIOUS
  <2>1. dcall[j] = "idle"
    BY <1>1, <1>2 DEF StageInv, Writing
  <2> QED BY <1>1, <2>1 DEF StripInv, Strip, Rows, First, Behind
<1>10. WrongInv'
  BY <1>1 DEF WrongInv, Rows, First
<1> QED BY <1>4, <1>5, <1>6, <1>7, <1>8, <1>9, <1>10 DEF JobIInv

LEMMA CompressKeeps ==
    ASSUME JobIInv, NEW i \in Tiles,
           CompressBegins(i) \/ CompressEnds(i) \/ CompressFails(i) \/ CompressThrows(i)
    PROVE  JobIInv'
<1>0. blens \in [Tiles -> {0} \cup Lengths] /\ o \in Options
  BY DEF JobIInv, JobTyped
<1>1. CASE CompressBegins(i)
  BY <1>0, <1>1, CompressStep DEF CompressBegins, Pool!Begin
<1>2. CASE CompressEnds(i)
  <2>1. PICK len \in Lengths : blens' = [blens EXCEPT ![i] = len]
    BY <1>2 DEF CompressEnds
  <2>2. blens'[i] # 0 /\ (\A j \in Tiles : j # i => blens'[j] = blens[j]) /\ blens' \in [Tiles -> {0} \cup Lengths]
    BY <1>0, <2>1, JobSizes
  <2> QED BY <1>2, <2>2, CompressStep DEF CompressEnds, Pool!End
<1>3. CASE CompressFails(i)
  <2>1. /\ caller = "waiting" /\ caller' = "waiting" /\ call[i] = "running"
        /\ call' = [call EXCEPT ![i] = "over"] /\ nfail' = nfail + 1 /\ blens' = blens
        /\ UNCHANGED <<o, stage, dcall, dcaller, offs, total, damaged, row, img>>
    BY <1>3 DEF CompressFails, Pool!End
  <2> QED BY <1>0, <2>1, CompressStep
<1>4. CASE CompressThrows(i)
  <2>1. /\ caller = "waiting" /\ caller' \in {"waiting", "raised"} /\ call[i] = "running"
        /\ call' = [call EXCEPT ![i] = "over"] /\ nfail' = nfail /\ blens' = blens
        /\ UNCHANGED <<o, stage, dcall, dcaller, offs, total, damaged, row, img>>
        /\ caller' = "raised" \/ (~Inline /\ i \in o.throws)
    BY <1>4 DEF CompressThrows, Pool!End, Pool!RaiseFrom
  <2> QED BY <1>0, <2>1, CompressStep
<1> QED BY <1>1, <1>2, <1>3, <1>4

-----------------------------------------------------------------------------
(* The steps of the caller and of the file.                                *)

LEMMA WriteKeeps ==
    ASSUME JobIInv, WriteContainer
    PROVE  JobIInv'
<1>1. /\ JobTyped /\ StageInv /\ CountInv /\ BlobInv /\ WrongInv /\ \A j \in Tiles : StripInv(j)
      /\ stage = "compress" /\ caller = "returned" /\ nfail = 0
      /\ total' = Total /\ offs' = Offsets /\ stage' = "compressed"
      /\ UNCHANGED <<o, call, caller, dcall, dcaller, blens, nfail, damaged, row, img>>
  BY DEF JobIInv, WriteContainer, pools
<1>2. blens \in [Tiles -> {0} \cup Lengths]
  BY <1>1 DEF JobTyped
<1>3. /\ Total \in Nat /\ Offsets \in [0..N -> Nat]
      /\ Offsets[0] >= HeaderBytes /\ Offsets[N] = Total
      /\ \A i \in Tiles : /\ Offsets[i] % 8 = 0 /\ Offsets[i] + blens[i] <= Offsets[i + 1]
                          /\ Offsets[i + 1] <= Total
  BY <1>2, LayoutIsSound
<1>4. JobTyped'
  BY <1>1, <1>3 DEF JobTyped, Stages
<1>5. StageInv' /\ CountInv' /\ FailInv'
  BY <1>1 DEF StageInv, CountInv, FailInv, Writing, OverIn
<1>6. BlobInv'
  BY <1>1 DEF BlobInv, StageInv, Inline, NThreads
<1>7. LayoutInv'
  BY <1>1, <1>3 DEF LayoutInv
<1>8. WrongInv' /\ \A j \in Tiles : StripInv(j)'
  BY <1>1 DEF WrongInv, StripInv, Strip, Rows, First, Behind
<1> QED BY <1>4, <1>5, <1>6, <1>7, <1>8 DEF JobIInv

LEMMA CallerKeeps ==
    ASSUME JobIInv, CompressReturns \/ GiveUp \/ DecompressReturns \/ FileIsDamaged
    PROVE  JobIInv'
<1> DEFINE returns == CompressReturns
           gives == GiveUp
           back == DecompressReturns
           spoils == FileIsDamaged
<1>1. /\ JobTyped /\ StageInv /\ CountInv /\ BlobInv /\ LayoutInv /\ FailInv /\ WrongInv
      /\ \A j \in Tiles : StripInv(j)
      /\ o' = o /\ row' = row /\ call' = call /\ dcall' = dcall /\ blens' = blens /\ nfail' = nfail
      /\ offs' = offs /\ total' = total /\ img' = img
  BY DEF JobIInv, CompressReturns, GiveUp, DecompressReturns, FileIsDamaged, pools, Pool!Return, DPool!Return
<1>2. returns => /\ caller = "waiting" /\ (\A i \in Tiles : call[i] = "over") /\ caller' = "returned"
                 /\ stage' = stage /\ dcaller' = dcaller /\ damaged' = damaged /\ stage = "compress"
  BY <1>1 DEF CompressReturns, Pool!Return, StageInv
<1>3. gives => /\ stage = "compress" /\ caller = "returned" /\ nfail > 0 /\ stage' = "failed"
               /\ caller' = caller /\ dcaller' = dcaller /\ damaged' = damaged
  BY DEF GiveUp, pools
<1>4. back => /\ stage = "decompress" /\ (\A i \in Tiles : dcall[i] = "over") /\ dcaller' = "returned"
              /\ stage' = stage /\ caller' = caller /\ damaged' = damaged
  BY DEF DecompressReturns, DPool!Return
<1>5. spoils => /\ stage = "compressed" /\ stage' = stage /\ caller' = caller /\ dcaller' = dcaller
                /\ damaged \subseteq damaged' /\ damaged' \subseteq Tiles
  <2>1. spoils => \E i \in o.damage \ damaged : damaged' = damaged \cup {i}
    BY DEF FileIsDamaged
  <2>2. damaged \subseteq Tiles /\ o.damage \subseteq Tiles
    BY <1>1, OptionTypes DEF JobTyped
  <2> QED BY <2>1, <2>2 DEF FileIsDamaged, pools
<1>6. returns \/ gives \/ back \/ spoils
  OBVIOUS
<1> HIDE DEF returns, gives, back, spoils
<1>7. JobTyped'
  <2>1. stage' \in Stages /\ caller' \in Callers /\ dcaller' \in Callers /\ damaged' \subseteq Tiles
    BY <1>1, <1>2, <1>3, <1>4, <1>5, <1>6 DEF JobTyped, Stages, Callers
  <2> QED BY <1>1, <2>1 DEF JobTyped
<1>8. StageInv'
  BY <1>1, <1>2, <1>3, <1>4, <1>5, <1>6 DEF StageInv, Writing
<1>9. Writing' = Writing /\ Inline' = Inline /\ LostStrips' = LostStrips
  BY <1>1, <1>2, <1>3, <1>4, <1>5, <1>6 DEF Writing, Inline, NThreads, LostStrips
<1>10. CountInv'
  BY <1>1, <1>9 DEF CountInv, OverIn
<1>11. BlobInv'
  BY <1>1, <1>2, <1>3, <1>4, <1>5, <1>6, <1>9 DEF BlobInv
<1>12. LayoutInv'
  BY <1>1, <1>2, <1>3, <1>4, <1>5, <1>6 DEF LayoutInv
<1>13. FailInv'
  BY <1>1, <1>2, <1>3, <1>4, <1>5, <1>6, <1>9 DEF FailInv, Writing
<1>14. WrongInv' /\ \A j \in Tiles : StripInv(j)'
  <2>1. damaged \subseteq damaged' /\ \A j \in Tiles : First(j)' = First(j) /\ Behind(j)' = Behind(j)
    BY <1>2, <1>3, <1>4, <1>5, <1>6 DEF First, Behind
  <2>2. WrongInv'
    BY <1>1, <2>1 DEF WrongInv, Rows, JobTyped
  \* Blobs change only while no strip has written a row.
  <2>3. ASSUME NEW j \in Tiles, j \in damaged' \ damaged
        PROVE  \A y \in Strip(j) \cap Rows : img[y].times # 1
    <3>1. dcall[j] = "idle"
      BY <1>1, <1>2, <1>3, <1>4, <1>5, <1>6, <2>3 DEF StageInv, Writing
    <3>2. row[j] = First(j)
      BY <1>1, <3>1 DEF StripInv
    <3> QED BY <1>1, <3>2, StripEdges DEF StripInv, Rows
  <2>4. \A j \in Tiles : Strip(j)' = Strip(j) /\ Rows' = Rows
    BY <2>1 DEF Strip, Rows
  <2>5. ASSUME NEW j \in Tiles PROVE StripInv(j)'
    BY <1>1, <2>1, <2>3, <2>4 DEF StripInv
  <2> QED BY <2>2, <2>5
<1> QED BY <1>7, <1>8, <1>10, <1>11, <1>12, <1>13, <1>14 DEF JobIInv

LEMMA ReadHeaderKeeps ==
    ASSUME JobIInv, ReadHeader
    PROVE  JobIInv'
<1>1. /\ JobTyped /\ StageInv /\ BlobInv /\ LayoutInv /\ WrongInv /\ \A j \in Tiles : StripInv(j)
      /\ stage = "compressed" /\ stage' = "decompress" /\ nfail' = 0
      /\ UNCHANGED <<o, call, caller, dcall, dcaller, blens, offs, total, damaged, row, img>>
  BY DEF JobIInv, ReadHeader, pools
<1>2. JobTyped' /\ StageInv' /\ LayoutInv'
  BY <1>1 DEF JobTyped, StageInv, LayoutInv, Stages, Writing
<1>3. CountInv'
  <2>1. OverIn(dcall)' = {}
    BY <1>1 DEF StageInv, Writing, OverIn
  <2> QED BY <1>1, <2>1, FS_EmptySet DEF CountInv, Writing
<1>4. BlobInv' /\ FailInv'
  BY <1>1 DEF BlobInv, FailInv, Writing, Inline, NThreads
<1>5. WrongInv' /\ \A j \in Tiles : StripInv(j)'
  BY <1>1 DEF WrongInv, StageInv, Writing, StripInv, Strip, Rows, First, Behind
<1> QED BY <1>2, <1>3, <1>4, <1>5 DEF JobIInv

LEMMA FinishKeeps ==
    ASSUME JobIInv, Finish
    PROVE  JobIInv'
<1>1. /\ JobTyped /\ StageInv /\ CountInv /\ BlobInv /\ LayoutInv /\ FailInv /\ WrongInv
      /\ \A j \in Tiles : StripInv(j)
      /\ stage = "decompress" /\ dcaller = "returned" /\ nfail \in Nat
      /\ UNCHANGED <<o, call, caller, dcall, dcaller, blens, nfail, offs, total, damaged, row, img>>
  BY DEF JobIInv, JobTyped, Finish, FinishAs, pools
<1>2. /\ stage' \in {"damaged", "mismatch", "restored"}
      /\ stage' = "damaged" => nfail > 0
      /\ stage' = "restored" => nfail = 0 /\ (o.crc => ImageIsRight)
  BY <1>1 DEF Finish, FinishAs
<1>3. ImageIsRight' = ImageIsRight /\ Inline' = Inline /\ LostStrips' = LostStrips
  BY <1>1 DEF ImageIsRight, Rows, Inline, NThreads, LostStrips
<1>4. JobTyped' /\ StageInv' /\ BlobInv' /\ LayoutInv'
  BY <1>1, <1>2, <1>3 DEF JobTyped, StageInv, BlobInv, LayoutInv, Stages, Writing
<1>5. CountInv' /\ FailInv'
  BY <1>1, <1>2, <1>3 DEF CountInv, FailInv, Writing, OverIn
<1>6. WrongInv' /\ \A j \in Tiles : StripInv(j)'
  BY <1>1 DEF WrongInv, StripInv, Strip, Rows, First, Behind
<1> QED BY <1>4, <1>5, <1>6 DEF JobIInv

-----------------------------------------------------------------------------
(* Decompressing keeps it.                                                 *)

LEMMA StripBeginsKeeps ==
    ASSUME JobIInv, NEW i \in Tiles, StripBegins(i)
    PROVE  JobIInv'
<1>1. /\ JobTyped /\ StageInv /\ CountInv /\ BlobInv /\ LayoutInv /\ FailInv /\ WrongInv
      /\ \A j \in Tiles : StripInv(j)
      /\ stage = "decompress" /\ dcaller = "waiting" /\ dcall[i] = "idle"
      /\ dcall' = [dcall EXCEPT ![i] = "running"]
      /\ UNCHANGED <<o, stage, call, caller, dcaller, blens, nfail, offs, total, damaged, row, img>>
  BY DEF JobIInv, StripBegins, DPool!Begin
<1>2. /\ dcall' \in [Tiles -> Places]
      /\ \A j \in Tiles : /\ dcall'[j] = "over" <=> dcall[j] = "over"
                          /\ dcall'[j] = "idle" => dcall[j] = "idle"
  BY <1>1 DEF JobTyped, Places
<1>3. JobTyped' /\ StageInv'
  BY <1>1, <1>2 DEF JobTyped, StageInv, Writing
<1>4. CountInv'
  <2>1. OverIn(dcall)' = OverIn(dcall)
    BY <1>2 DEF OverIn
  <2> QED BY <1>1, <2>1 DEF CountInv, Writing
<1>5. BlobInv' /\ LayoutInv' /\ FailInv'
  BY <1>1 DEF BlobInv, LayoutInv, FailInv, Writing, Inline, NThreads, LostStrips
<1>6. WrongInv' /\ \A j \in Tiles : StripInv(j)'
  BY <1>1, <1>2 DEF WrongInv, StripInv, Strip, Rows, First, Behind
<1> QED BY <1>3, <1>4, <1>5, <1>6 DEF JobIInv

\* A strip that is not enclosed by its offsets has no blob.
LEMMA NotEnclosed ==
    ASSUME JobIInv, NEW i \in Tiles, stage = "decompress", ~Enclosed(i)
    PROVE  ~Inline /\ LostStrips # {}
<1>1. /\ offs[i] \in Nat /\ offs[i + 1] \in Nat /\ blens[i] \in {0} \cup Lengths
      /\ offs[i] + blens[i] <= offs[i + 1] /\ offs[i + 1] <= total
  BY JobSizes DEF JobIInv, JobTyped, LayoutInv
<1>2. blens[i] = 0
  <2>1. SUFFICES ASSUME blens[i] \in Nat \ {0} PROVE FALSE
    BY <1>1, JobSizes
  <2> QED BY <1>1, <2>1 DEF Enclosed
<1>3. call[i] = "over"
  BY DEF JobIInv, StageInv
<1> QED BY <1>2, <1>3 DEF JobIInv, BlobInv, LostStrips

\* A row is written.
LEMMA WriteRowKeeps ==
    ASSUME JobIInv, NEW i \in Tiles, WriteRow(i)
    PROVE  JobIInv'
<1> DEFINE y == row[i]
           old == img[y]
<1>1. /\ JobTyped /\ StageInv /\ CountInv /\ BlobInv /\ LayoutInv /\ FailInv /\ WrongInv
      /\ \A j \in Tiles : StripInv(j)
      /\ UNCHANGED <<o, stage, call, caller, dcall, dcaller, blens, nfail, offs, total, damaged>>
      /\ stage = "decompress" /\ dcall[i] = "running" /\ row' = [row EXCEPT ![i] = @ + 1]
  BY DEF JobIInv, WriteRow, pools
<1>2. /\ row \in [Tiles -> 0..Height] /\ img \in [Rows -> RowStates] /\ damaged \subseteq Tiles /\ Height \in Nat
      /\ y < IF i \in damaged THEN Height ELSE Behind(i)
  BY <1>1, JobSizes DEF JobTyped, WriteRow
<1>3. /\ y \in Nat /\ First(i) <= y /\ y < Height /\ y \in Rows
      /\ i \notin damaged => y < Behind(i) /\ y \in Strip(i)
  <2>1. y \in Nat /\ First(i) <= y
    BY <1>1, <1>2 DEF StripInv
  <2>2. y < Height /\ (i \notin damaged => y < Behind(i))
    BY <1>2, <2>1, StripEdges
  <2>3. i \notin damaged => y \in Strip(i)
    BY <2>1, <2>2, StripEdges
  <2>4. y \in Rows
    BY <1>2, <2>1, <2>2 DEF Rows
  <2> QED BY <2>1, <2>2, <2>3, <2>4
<1>4. /\ row'[i] = y + 1 /\ row' \in [Tiles -> 0..Height]
      /\ \A j \in Tiles : j # i => row'[j] = row[j]
  BY <1>1, <1>2, <1>3
\* The row was not counted before.
<1>5. i \notin damaged => old.times = 0
  <2>1. old.times \in {0, 1}
    BY <1>2, <1>3 DEF RowStates
  <2>2. i \notin damaged => ~(old.times = 1)
    BY <1>1, <1>3 DEF StripInv
  <2> QED BY <2>1, <2>2
<1>6. PICK what \in {"right", "wrong"} :
        /\ what = "right" => i \notin damaged
        /\ what = "wrong" => Misled(i)
        /\ img' = [img EXCEPT ![y] =
                     [by |-> what, times |-> IF i \in damaged THEN @.times ELSE @.times + 1]]
  BY DEF WriteRow
<1>7. /\ \A x \in Rows : x # y => img'[x] = img[x]
      /\ img'[y].by = what
      /\ img'[y].times = IF i \in damaged THEN old.times ELSE 1
      /\ img' \in [Rows -> RowStates]
  <2>1. img'[y] = [by |-> what, times |-> IF i \in damaged THEN old.times ELSE old.times + 1]
    BY <1>2, <1>3, <1>6
  <2>2. img'[y] = [by |-> what, times |-> IF i \in damaged THEN old.times ELSE 1]
    BY <1>5, <2>1
  <2>3. img'[y] \in RowStates
    BY <1>2, <1>3, <2>2 DEF RowStates
  <2>4. img' = [img EXCEPT ![y] = img'[y]]
    BY <1>2, <1>3, <1>6
  <2>5. img' \in [Rows -> RowStates]
    BY <1>2, <2>3, <2>4
  <2>6. \A x \in Rows : x # y => img'[x] = img[x]
    BY <1>2, <2>4
  <2> QED BY <2>2, <2>5, <2>6
\* What leads a strip to a wrong row is a damaged strip, itself or one above.
<1>8. what = "wrong" => \E k \in damaged : First(k) <= y
  <2>1. CASE i \in damaged
    BY <1>3, <2>1
  <2>2. ASSUME NEW x \in Rows, x < y, img[x].by = "wrong"
        PROVE  \E k \in damaged : First(k) <= y
    <3>1. PICK k \in damaged : First(k) <= x
      BY <1>1, <2>2 DEF WrongInv
    <3>2. First(k) \in Nat /\ x \in Int
      BY <1>2, <3>1, StripEdges DEF Rows
    <3> QED BY <1>3, <2>2, <3>1, <3>2
  <2> QED BY <1>6, <2>1, <2>2 DEF Misled
<1>9. Rows' = Rows /\ \A j \in Tiles : First(j)' = First(j) /\ Behind(j)' = Behind(j) /\ Strip(j)' = Strip(j)
  BY DEF Rows, First, Behind, Strip
<1>10. JobTyped'
  BY <1>1, <1>4, <1>7 DEF JobTyped
<1>11. StageInv' /\ CountInv' /\ BlobInv' /\ LayoutInv' /\ FailInv'
  BY <1>1 DEF StageInv, CountInv, BlobInv, LayoutInv, FailInv, Writing, OverIn, Inline, NThreads, LostStrips
<1>12. WrongInv'
  <2> SUFFICES ASSUME NEW x \in Rows, img'[x].by = "wrong" PROVE \E k \in damaged : First(k) <= x
    BY <1>1, <1>9 DEF WrongInv
  <2>1. CASE x = y
    BY <1>7, <1>8, <2>1
  <2>2. CASE x # y
    BY <1>1, <1>7, <2>2 DEF WrongInv
  <2> QED BY <2>1, <2>2
<1>13. \A j \in Tiles : StripInv(j)'
  <2> SUFFICES ASSUME NEW j \in Tiles PROVE StripInv(j)'
    OBVIOUS
  <2>1. StripInv(j) /\ row[j] \in Nat /\ row'[j] \in Nat /\ row[j] <= row'[j]
    BY <1>1, <1>2, <1>3, <1>4
  <2>2. /\ First(j) <= row'[j]
        /\ j \notin damaged => row'[j] <= Behind(j)
        /\ dcall[j] = "idle" => row'[j] = First(j)
        /\ dcall[j] = "over" => row'[j] = Behind(j) \/ nfail > 0 \/ j \in damaged \cup o.throwsBack
    <3>1. First(j) \in Nat /\ Behind(j) \in Nat
      BY StripEdges
    <3> QED BY <1>1, <1>3, <1>4, <2>1, <3>1 DEF StripInv
  <2>3. ASSUME NEW x \in Strip(j) \cap Rows, img'[x].times = 1
        PROVE  j \notin damaged /\ x < row'[j]
    <3>0. x \in Nat
      BY <1>2 DEF Rows
    <3>1. CASE x # y \/ i \in damaged
      <4>1. img[x].times = 1
        BY <1>7, <2>3, <3>1
      <4>2. j \notin damaged /\ x < row[j]
        BY <2>1, <4>1 DEF StripInv
      <4> QED BY <2>1, <3>0, <4>2
    <3>2. CASE x = y /\ i \notin damaged
      <4>1. j = i
        BY <1>3, <2>3, <3>2, StripsAreDisjoint
      <4> QED BY <1>3, <1>4, <3>2, <4>1
    <3> QED BY <3>1, <3>2
  <2>4. ASSUME NEW x \in Strip(j) \cap Rows, x < row'[j], damaged = {}
        PROVE  img'[x].by = "right"
    <3>0. x \in Nat /\ i \notin damaged /\ what = "right"
      BY <1>2, <1>8, <2>4 DEF Rows
    <3>1. CASE x = y
      BY <1>7, <3>0, <3>1
    <3>2. CASE x # y
      <4>1. x < row[j]
        BY <1>3, <1>4, <2>4, <3>0, <3>2
      <4> QED BY <1>7, <2>1, <2>4, <3>2, <4>1 DEF StripInv
    <3> QED BY <3>1, <3>2
  <2> QED BY <1>1, <1>9, <2>2, <2>3, <2>4 DEF StripInv
<1> QED BY <1>10, <1>11, <1>12, <1>13 DEF JobIInv

\* A strip that is not enclosed, or that something led astray: a blob is
\* missing or damaged.
LEMMA FailureHasReason ==
    ASSUME JobIInv, NEW i \in Tiles, stage = "decompress", ~Enclosed(i) \/ Misled(i)
    PROVE  damaged # {} \/ (~Inline /\ LostStrips # {})
BY NotEnclosed DEF JobIInv, WrongInv, Misled

\* A call of the pool that decompresses ends.
LEMMA StripStep ==
    ASSUME JobIInv, NEW i \in Tiles, dcaller = "waiting", dcall[i] = "running",
           dcall' = [dcall EXCEPT ![i] = "over"], dcaller' \in {"waiting", "raised"},
           UNCHANGED <<o, stage, call, caller, blens, offs, total, damaged, row, img>>,
           \/ nfail' = nfail
           \/ nfail' = nfail + 1 /\ (~Enclosed(i) \/ Misled(i)),
           row[i] = Behind(i) \/ nfail' = nfail + 1 \/ i \in damaged \cup o.throwsBack
    PROVE  JobIInv'
<1>1. /\ JobTyped /\ StageInv /\ CountInv /\ BlobInv /\ LayoutInv /\ FailInv /\ WrongInv /\ nfail \in Nat
      /\ \A j \in Tiles : StripInv(j)
  BY DEF JobIInv, JobTyped
<1>2. stage = "decompress"
  BY <1>1 DEF JobTyped, StageInv, Stages, Writing
<1>3. /\ dcall' \in [Tiles -> Places] /\ dcall'[i] = "over"
      /\ \A j \in Tiles : j # i => dcall'[j] = dcall[j]
  BY <1>1 DEF JobTyped, Places
<1>5. JobTyped'
  BY <1>1, <1>3 DEF JobTyped, Callers
<1>6. StageInv'
  BY <1>1, <1>2, <1>3 DEF StageInv, Writing
<1>7. CountInv'
  <2>1. nfail <= Cardinality(OverIn(dcall))
    BY <1>1, <1>2 DEF CountInv, Writing
  <2>2. /\ Cardinality(OverIn(dcall')) = Cardinality(OverIn(dcall)) + 1
        /\ Cardinality(OverIn(dcall)) \in Nat
    BY <1>3, OverCount
  <2>3. nfail' <= Cardinality(OverIn(dcall'))
    BY <1>1, <2>1, <2>2
  <2>4. Cardinality(OverIn(dcall))' = Cardinality(OverIn(dcall'))
    BY DEF OverIn
  <2> QED BY <1>2, <2>3, <2>4 DEF CountInv, Writing
<1>8. BlobInv' /\ LayoutInv' /\ WrongInv'
  BY <1>1, <1>2 DEF BlobInv, LayoutInv, WrongInv, Rows, First, Inline, NThreads
<1>9. FailInv'
  <2>1. Inline' = Inline /\ LostStrips' = LostStrips
    BY DEF Inline, NThreads, LostStrips
  <2>2. nfail' > 0 => damaged # {} \/ (~Inline /\ LostStrips # {})
    BY <1>1, <1>2, FailureHasReason DEF FailInv, Writing
  <2> QED BY <1>2, <2>1, <2>2 DEF FailInv
<1>10. \A j \in Tiles : StripInv(j)'
  <2> SUFFICES ASSUME NEW j \in Tiles PROVE StripInv(j)'
    OBVIOUS
  <2>1. /\ Strip(j)' = Strip(j) /\ Rows' = Rows /\ First(j)' = First(j) /\ Behind(j)' = Behind(j)
        /\ (nfail > 0 => nfail' > 0) /\ (nfail' = nfail + 1 => nfail' > 0) /\ StripInv(j)
    BY <1>1 DEF Strip, Rows, First, Behind
  <2>2. CASE j = i
    BY <1>3, <2>1, <2>2 DEF StripInv
  <2>3. CASE j # i
    BY <1>3, <2>1, <2>3 DEF StripInv
  <2> QED BY <2>2, <2>3
<1> QED BY <1>5, <1>6, <1>7, <1>8, <1>9, <1>10 DEF JobIInv

LEMMA StripKeeps ==
    ASSUME JobIInv, NEW i \in Tiles,
           StripEnds(i) \/ StripFails(i) \/ StripIsWrong(i) \/ StripThrows(i)
    PROVE  JobIInv'
<1>1. /\ dcaller = "waiting" /\ dcall[i] = "running" /\ dcall' = [dcall EXCEPT ![i] = "over"]
      /\ dcaller' \in {"waiting", "raised"}
      /\ UNCHANGED <<o, stage, call, caller, blens, offs, total, damaged, row, img>>
  BY DEF StripEnds, StripFails, StripIsWrong, StripThrows, DPool!End, DPool!RaiseFrom
<1>2. /\ nfail' = nfail \/ (nfail' = nfail + 1 /\ (~Enclosed(i) \/ Misled(i)))
      /\ row[i] = Behind(i) \/ nfail' = nfail + 1 \/ i \in damaged \cup o.throwsBack
  BY DEF StripEnds, StripFails, StripIsWrong, StripThrows
<1> QED BY <1>1, <1>2, StripStep

-----------------------------------------------------------------------------
(* What the invariant says.                                                *)

LEMMA JobNext == JobIInv /\ [Next]_vars => JobIInv'
<1> SUFFICES ASSUME JobIInv, [Next]_vars PROVE JobIInv'
  OBVIOUS
<1>1. CASE UNCHANGED vars \/ Terminated
  <2>1. UNCHANGED <<o, stage, call, caller, dcall, dcaller, blens, nfail, offs, total, damaged, row, img>>
    BY <1>1 DEF Terminated, vars
  <2>2. ImageIsRight' = ImageIsRight /\ Inline' = Inline /\ LostStrips' = LostStrips
    BY <2>1 DEF ImageIsRight, Rows, Inline, NThreads, LostStrips
  <2>3. (JobTyped /\ StageInv /\ BlobInv /\ LayoutInv)' <=> (JobTyped /\ StageInv /\ BlobInv /\ LayoutInv)
    BY <2>1, <2>2 DEF JobTyped, StageInv, BlobInv, LayoutInv, Writing
  <2>4. (CountInv /\ FailInv)' <=> (CountInv /\ FailInv)
    BY <2>1, <2>2 DEF CountInv, FailInv, Writing, OverIn
  <2>5. (WrongInv' <=> WrongInv) /\ \A j \in Tiles : StripInv(j)' <=> StripInv(j)
    BY <2>1 DEF WrongInv, StripInv, Strip, Rows, First, Behind
  <2> QED BY <2>3, <2>4, <2>5 DEF JobIInv
<1>2. ASSUME NEW i \in Tiles, Strips(i) PROVE JobIInv'
  BY <1>2, CompressKeeps, StripBeginsKeeps, WriteRowKeeps, StripKeeps DEF Strips
<1>3. CASE Caller \/ FileIsDamaged
  BY <1>3, CallerKeeps, WriteKeeps, ReadHeaderKeeps, FinishKeeps DEF Caller
<1> QED BY <1>1, <1>2, <1>3 DEF Next

\* In every reachable state of a job: the pools, the blobs, the offset table,
\* the failures and the rows of the image agree.
THEOREM JobInvariant == Spec => []JobIInv
BY JobInit, JobNext, PTL DEF Spec

\* The container that processFile writes: the two loops over the tiles give the
\* same size, every blob is aligned and ends before the next begins, for every
\* number and size of blobs.
THEOREM ContainerIsSound == Spec => []ContainerSound
<1>1. JobIInv => ContainerSound
  <2> SUFFICES ASSUME JobIInv PROVE ContainerSound
    OBVIOUS
  <2>1. TypeOK
    <3>1. nfail <= Cardinality(OverIn(call)) /\ nfail \in Nat /\ Cardinality(OverIn(call)) \in Nat
      <4>1. 0 \in Int /\ N - 1 \in Int
        BY JobSizes
      <4>2. IsFiniteSet(Tiles)
        BY <4>1, FS_Interval DEF Tiles
      <4>3. IsFiniteSet(OverIn(call)) /\ IsFiniteSet(OverIn(dcall))
        BY <4>2, FS_Subset DEF OverIn
      <4>4. Cardinality(OverIn(call)) \in Nat /\ Cardinality(OverIn(dcall)) \in Nat /\ nfail \in Nat
        BY <4>3, FS_CardinalityType DEF JobIInv, JobTyped
      <4>5. ~Writing => OverIn(dcall) \subseteq OverIn(call)
        BY DEF JobIInv, StageInv, Writing, OverIn
      <4>6. ~Writing => Cardinality(OverIn(dcall)) <= Cardinality(OverIn(call))
        BY <4>3, <4>5, FS_Subset
      <4> QED BY <4>4, <4>6 DEF JobIInv, CountInv
    <3>2. img \in [Rows -> [by : {"nobody", "right", "wrong"}, times : Nat]]
      <4>1. {0, 1} \subseteq Nat
        OBVIOUS
      <4> QED BY <4>1 DEF JobIInv, JobTyped, RowStates
    <3>3. nfail \in 0..Cardinality({i \in Tiles : call[i] = "over"})
      BY <3>1 DEF OverIn
    <3> QED BY <3>2, <3>3 DEF TypeOK, JobIInv, JobTyped, Stages, Places, Callers, Pool!FETypeOK, DPool!FETypeOK
  <2> QED BY <2>1 DEF ContainerSound, JobIInv, LayoutInv
<1> QED BY <1>1, JobInvariant, PTL

\* The threads of the pool share the image without a lock.  For every height
\* and number of tiles no row is written twice by strips with undamaged blobs,
\* and a strip whose damaged blob writes more rows than it should spoils none
\* above its own first row.
THEOREM StripsKeepApart == Spec => []RowsKeptApart
<1>1. JobIInv => RowsKeptApart
  BY DEF JobIInv, JobTyped, RowStates, WrongInv, RowsKeptApart
<1> QED BY <1>1, JobInvariant, PTL

\* A decode that reports success has restored the image: with -x always,
\* without it unless a blob was damaged or an exception swallowed.
THEOREM SuccessMeansRestored == Spec => []RestoredIsRight
<1>1. JobIInv => RestoredIsRight
  <2> SUFFICES ASSUME JobIInv, stage = "restored", damaged = {}, o.throwsBack = {} PROVE ImageIsRight
    BY DEF RestoredIsRight, JobIInv, FailInv
  <2>1. nfail = 0 /\ \A i \in Tiles : dcall[i] = "over" /\ StripInv(i)
    BY DEF JobIInv, FailInv, StageInv
  <2>2. \A i \in Tiles : \A y \in Strip(i) \cap Rows : img[y].by = "right"
    <3>1. \A i \in Tiles : row[i] = Behind(i)
      BY <2>1 DEF StripInv
    <3> QED BY <2>1, <3>1, StripEdges DEF StripInv, Rows
  <2> QED BY <2>2, EveryRowHasAStrip DEF ImageIsRight
<1> QED BY <1>1, JobInvariant, PTL

\* What was written and not damaged can be read, but for strips whose encoder
\* threw on a worker of the pool, which swallows that: such a strip has no
\* blob, and the container was reported as good.
THEOREM WrittenCanBeRead == Spec => [](WrittenIsReadable \/ (~Inline /\ LostStrips # {}))
<1>1. JobIInv => WrittenIsReadable \/ (~Inline /\ LostStrips # {})
  BY DEF JobIInv, FailInv, WrittenIsReadable, Writing
<1> QED BY <1>1, JobInvariant, PTL

\* So it can whenever nothing throws, or there is one thread.
COROLLARY CalmIsReadable == Spec => []((o.throws = {} \/ Inline) => WrittenIsReadable)
<1>1. WrittenIsReadable \/ (~Inline /\ LostStrips # {}) => ((o.throws = {} \/ Inline) => WrittenIsReadable)
  BY DEF LostStrips
<1> QED BY <1>1, WrittenCanBeRead, PTL
=============================================================================
