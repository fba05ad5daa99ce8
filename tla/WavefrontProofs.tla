---------------------------- MODULE WavefrontProofs ----------------------------
(***************************************************************************)
(* The wave front for every number of lanes and every image.  The lanes    *)
(* move in lockstep, so all of them are determined by row I (a multiple of *)
(* L) and column J of lane L - 1, and so is the set of pixels coded.       *)
(***************************************************************************)
EXTENDS Wavefront, TLAPS

Behind(k) == 2 * (L - 1 - k)

RowAt(I, J, k) == IF J >= Behind(k) THEN I + (L - 1 - k) ELSE I - 1 - k
ColAt(I, J, w, k) == IF J >= Behind(k) THEN J - Behind(k) ELSE J - Behind(k) + w

NextI(I, J, w) == IF J + 1 = w THEN I + L ELSE I
NextJ(J, w) == IF J + 1 = w THEN 0 ELSE J + 1

\* Column c of row q of the body was coded before lane L - 1 came to I, J.
Passed(I, J, w, q, c) ==
    \/ q < I - L
    \/ I - L <= q /\ q < I /\ (J >= 2 * (q - I + L) \/ c < J - 2 * (q - I + L) + w)
    \/ I <= q /\ q < I + L /\ c < J - 2 * (q - I)

LEMMA LaneMoves ==
    ASSUME NEW I \in Int, NEW w \in Nat, w >= 2 * L, NEW J \in 0..(w - 1), NEW k \in 0..(L - 1)
    PROVE  /\ ColAt(I, J, w, k) \in 0..(w - 1)
           /\ RowAt(I, J, k) \in Int
           /\ ColAt(NextI(I, J, w), NextJ(J, w), w, k)
                = IF ColAt(I, J, w, k) + 1 = w THEN 0 ELSE ColAt(I, J, w, k) + 1
           /\ RowAt(NextI(I, J, w), NextJ(J, w), k)
                = IF ColAt(I, J, w, k) + 1 = w THEN RowAt(I, J, k) + L ELSE RowAt(I, J, k)
           /\ NextJ(J, w) \in 0..(w - 1)
<1>1. L \in Nat /\ L >= 2
  BY LanesAssumption
<1> QED
  BY <1>1 DEF ColAt, RowAt, NextI, NextJ, Behind

LEMMA LaneExists ==
    ASSUME NEW I \in Int, NEW w \in Nat, w >= 2 * L, NEW J \in 0..(w - 1),
           NEW q \in Int, NEW c \in 0..(w - 1),
           Passed(NextI(I, J, w), NextJ(J, w), w, q, c), ~Passed(I, J, w, q, c)
    PROVE  \E k \in 0..(L - 1) : RowAt(I, J, k) = q /\ ColAt(I, J, w, k) = c
<1>1. L \in Nat /\ L >= 2
  BY LanesAssumption
<1>2. CASE I <= q /\ q < I + L
  <2>1. L - 1 - (q - I) \in 0..(L - 1)
    BY <1>1, <1>2
  <2>2. Behind(L - 1 - (q - I)) = 2 * (q - I)
    BY <1>1 DEF Behind
  <2>3. J >= 2 * (q - I) /\ c = J - 2 * (q - I)
    BY <1>1, <1>2 DEF Passed, NextI, NextJ
  <2>4. RowAt(I, J, L - 1 - (q - I)) = q /\ ColAt(I, J, w, L - 1 - (q - I)) = c
    BY <1>1, <2>2, <2>3 DEF RowAt, ColAt
  <2> QED
    BY <2>1, <2>4
<1>3. CASE I - L <= q /\ q < I
  <2>1. I - 1 - q \in 0..(L - 1)
    BY <1>1, <1>3
  <2>2. Behind(I - 1 - q) = 2 * (q - I + L)
    BY <1>1 DEF Behind
  <2>3. J < 2 * (q - I + L) /\ c = J - 2 * (q - I + L) + w
    BY <1>1, <1>3 DEF Passed, NextI, NextJ
  <2>4. RowAt(I, J, I - 1 - q) = q /\ ColAt(I, J, w, I - 1 - q) = c
    BY <1>1, <2>2, <2>3 DEF RowAt, ColAt
  <2> QED
    BY <2>1, <2>4
<1>4. CASE q < I - L
  BY <1>1, <1>4 DEF Passed
<1>5. CASE q >= I + L
  BY <1>1, <1>5 DEF Passed, NextI, NextJ
<1> QED
  BY <1>1, <1>2, <1>3, <1>4, <1>5

LEMMA PassedGrows ==
    ASSUME NEW I \in Int, NEW w \in Nat, w >= 2 * L, NEW J \in 0..(w - 1),
           NEW q \in Int, NEW c \in 0..(w - 1), Passed(I, J, w, q, c)
    PROVE  Passed(NextI(I, J, w), NextJ(J, w), w, q, c)
<1>1. L \in Nat /\ L >= 2
  BY LanesAssumption
<1> QED
  BY <1>1 DEF Passed, NextI, NextJ

LEMMA LanePasses ==
    ASSUME NEW I \in Int, NEW w \in Nat, w >= 2 * L, NEW J \in 0..(w - 1), NEW k \in 0..(L - 1)
    PROVE  /\ Passed(NextI(I, J, w), NextJ(J, w), w, RowAt(I, J, k), ColAt(I, J, w, k))
           /\ ~Passed(I, J, w, RowAt(I, J, k), ColAt(I, J, w, k))
<1>1. L \in Nat /\ L >= 2
  BY LanesAssumption
<1> QED
  BY <1>1 DEF Passed, NextI, NextJ, RowAt, ColAt, Behind

\* The width bound of the size test: what a lane looks at has been coded.
LEMMA NeighboursPassed ==
    ASSUME NEW I \in Int, NEW w \in Nat, w >= 2 * L, NEW J \in 0..(w - 1), NEW k \in 0..(L - 1),
           NEW q \in Int, NEW c \in 0..(w - 1),
           \/ q = RowAt(I, J, k) /\ c < ColAt(I, J, w, k)
           \/ q < RowAt(I, J, k) /\ c <= ColAt(I, J, w, k) + 1
    PROVE  Passed(I, J, w, q, c)
<1>1. L \in Nat /\ L >= 2
  BY LanesAssumption
<1> QED
  BY <1>1 DEF Passed, RowAt, ColAt, Behind

LEMMA PassedInBlock ==
    ASSUME NEW n \in Nat, NEW m \in Nat, NEW w \in Nat, w >= 2 * L, NEW J \in 0..(w - 1),
           RowAt(L * m, J, 0) >= L * n,
           NEW q \in Int, q < L * n, NEW c \in 0..(w - 1)
    PROVE  Passed(L * m, J, w, q, c)
<1>1. L \in Nat /\ L >= 2
  BY LanesAssumption
<1>2. m >= n
  <2>1. SUFFICES ASSUME m + 1 <= n PROVE FALSE
    OBVIOUS
  <2>2. L * (m + 1) <= L * n /\ L * (m + 1) = L * m + L
    BY <1>1, <2>1
  <2>3. L * m \in Nat /\ L * n \in Nat
    BY <1>1
  <2>4. L * m + L <= L * n
    BY <2>2
  <2>5. RowAt(L * m, J, 0) < L * m + L
    BY <1>1, <2>3 DEF RowAt, Behind
  <2>6. RowAt(L * m, J, 0) \in Int
    BY <1>1, <2>3 DEF RowAt, Behind
  <2> QED
    BY <1>1, <2>3, <2>4, <2>5, <2>6
<1>3. L * m >= L * n /\ L * m \in Nat /\ L * n \in Nat
  BY <1>1, <1>2
<1>4. CASE m = n
  BY <1>1, <1>3, <1>4 DEF Passed, RowAt, Behind
<1>5. CASE m >= n + 1
  <2>1. L * m >= L * n + L
    <3>1. L * (n + 1) <= L * m /\ L * (n + 1) = L * n + L
      BY <1>1, <1>5
    <3> QED
      BY <3>1
  <2> QED
    BY <1>1, <1>3, <2>1 DEF Passed
<1> QED
  BY <1>2, <1>4, <1>5

-----------------------------------------------------------------------------
(* The image and its two parts.                                            *)

LEMMA Division ==
    ASSUME NEW h \in Nat, NEW m \in Nat \ {0}
    PROVE  /\ h \div m \in Nat
           /\ h % m \in 0..(m - 1)
           /\ h = m * (h \div m) + (h % m)
BY SMT

\* FNBLI_DIVIDE_BANNER under the size test: the banner has at least two rows
\* and the body a positive multiple of L.
LEMMA Divided ==
    ASSUME shape \in Shapes
    PROVE  /\ H \in Nat \ {0} /\ W \in Nat \ {0}
           /\ BannerHeight \in 1..H /\ BodyHeight = H - BannerHeight
           /\ ~IsLarge => BannerHeight = H
           /\ IsLarge => /\ BannerHeight >= 2 /\ W >= 2 * L /\ BodyHeight >= 1
                         /\ \E n \in Nat : BodyHeight = L * n
<1>1. L \in Nat /\ L >= 2 /\ L \in Nat \ {0}
  BY LanesAssumption
<1>2. H \in Nat \ {0} /\ W \in Nat \ {0}
  BY LanesAssumption DEF H, W
<1>3. BodyHeight = H - BannerHeight
  BY DEF BodyHeight
<1>4. ~IsLarge => BannerHeight = H
  BY DEF BannerHeight
<1>5. ASSUME IsLarge
      PROVE  /\ BannerHeight >= 2 /\ W >= 2 * L /\ BodyHeight >= 1 /\ BannerHeight \in 1..H
             /\ \E n \in Nat : BodyHeight = L * n
  <2> DEFINE q == H \div L
             r == H % L
  <2>1. q \in Nat /\ r \in 0..(L - 1) /\ H = L * q + r
    BY <1>1, <1>2, Division
  <2>2. H >= L + 2 /\ W >= 2 * L
    BY <1>5 DEF IsLarge, SizeLarge
  <2>3. L * q \in Nat
    BY <1>1, <2>1
  <2>4. BannerHeight = IF r < 2 THEN r + L ELSE r
    BY <1>5 DEF BannerHeight
  <2> HIDE DEF q, r
  <2>5. CASE r < 2
    <3>1. L * q >= L + 1
      BY <1>1, <1>2, <2>1, <2>2, <2>3, <2>5
    <3>2. q >= 2
      <4>1. q = 0 => L * q = 0
        BY <1>1
      <4>2. q = 1 => L * q = L
        BY <1>1
      <4> QED
        BY <1>1, <2>1, <3>1, <4>1, <4>2
    <3>3. L * (q - 1) = L * q - L /\ q - 1 \in Nat
      BY <1>1, <2>1, <3>2
    <3>4. BodyHeight = L * (q - 1)
      BY <1>1, <1>2, <1>3, <2>1, <2>3, <2>4, <2>5, <3>3
    <3> QED
      BY <1>1, <1>2, <1>3, <2>1, <2>2, <2>3, <2>4, <2>5, <3>1, <3>3, <3>4
  <2>6. CASE r >= 2
    <3>1. BodyHeight = L * q
      BY <1>1, <1>2, <1>3, <2>1, <2>3, <2>4, <2>6
    <3>2. L * q >= 1
      BY <1>1, <1>2, <2>1, <2>2, <2>3
    <3> QED
      BY <1>1, <1>2, <1>3, <2>1, <2>2, <2>3, <2>4, <2>6, <3>1, <3>2
  <2> QED
    BY <1>1, <2>1, <2>5, <2>6
<1>6. BannerHeight \in 1..H
  BY <1>2, <1>4, <1>5
<1> QED
  BY <1>2, <1>3, <1>4, <1>5, <1>6

-----------------------------------------------------------------------------
(* The inductive invariant.                                                *)

BannerPart ==
    phase = "banner" =>
        /\ DOMAIN i = {0}
        /\ i[0] \in 0..(BannerHeight - 1) /\ j[0] \in 0..(W - 1)
        /\ \A r \in 0..(H - 1), c \in 0..(W - 1) :
              <<r, c>> \in coded <=> r < i[0] \/ (r = i[0] /\ c < j[0])

BodyPart ==
    phase = "body" =>
        /\ IsLarge
        /\ DOMAIN i = 0..(L - 1)
        /\ \E m \in Nat : i[L - 1] = L * m
        /\ j[L - 1] \in 0..(W - 1)
        /\ i[0] < BodyHeight
        /\ \A k \in 0..(L - 1) : /\ i[k] = RowAt(i[L - 1], j[L - 1], k)
                                 /\ j[k] = ColAt(i[L - 1], j[L - 1], W, k)
        /\ \A r \in 0..(H - 1), c \in 0..(W - 1) :
              <<r, c>> \in coded <=> \/ r < BannerHeight
                                     \/ Passed(i[L - 1], j[L - 1], W, r - BannerHeight, c)

OverPart == phase = "over" => coded = (0..(H - 1)) \X (0..(W - 1))

Inv == TypeOK /\ NothingRaw /\ BannerPart /\ BodyPart /\ OverPart

\* While the scan runs some lane is at a pixel of the image that is not coded.
SomePixelLeft ==
    \E k \in Lanes : Active(k) /\ Position(k) \in ((0..(H - 1)) \X (0..(W - 1))) \ coded

LEMMA SomeLaneActive == Inv /\ phase # "over" => SomePixelLeft
<1> SUFFICES ASSUME Inv, phase # "over"
             PROVE  \E k \in Lanes : /\ Active(k)
                                     /\ Position(k) \in ((0..(H - 1)) \X (0..(W - 1))) \ coded
  BY DEF SomePixelLeft
<1> USE DEF Inv
<1>1. L \in Nat /\ L >= 2
  BY LanesAssumption
<1>2. /\ H \in Nat \ {0} /\ W \in Nat \ {0} /\ BannerHeight \in 1..H
      /\ BodyHeight = H - BannerHeight
      /\ IsLarge => W >= 2 * L
  BY Divided DEF TypeOK
<1>3. CASE phase = "banner"
  <2>1. Lanes = {0} /\ Top = 0 /\ Height = BannerHeight
    BY <1>3 DEF Lanes, Top, Height
  <2>2. i[0] \in 0..(BannerHeight - 1) /\ j[0] \in 0..(W - 1)
    BY <1>3 DEF BannerPart
  <2>3. <<i[0], j[0]>> \notin coded
    <3>1. i[0] \in 0..(H - 1)
      BY <1>2, <2>2
    <3>2. ~(i[0] < i[0] \/ (i[0] = i[0] /\ j[0] < j[0]))
      BY <2>2
    <3> QED
      BY <1>3, <2>2, <3>1, <3>2 DEF BannerPart
  <2>4. Active(0) /\ Position(0) = <<i[0], j[0]>>
    BY <1>2, <2>1, <2>2 DEF Active, Position
  <2> QED
    BY <1>2, <2>1, <2>2, <2>3, <2>4
<1>4. CASE phase = "body"
  <2> DEFINE I == i[L - 1]
             J == j[L - 1]
  <2>1. Lanes = 0..(L - 1) /\ Top = BannerHeight /\ Height = BodyHeight
    BY <1>4 DEF Lanes, Top, Height
  <2>2. /\ W >= 2 * L /\ J \in 0..(W - 1) /\ i[0] < BodyHeight
        /\ \A k \in 0..(L - 1) : i[k] = RowAt(I, J, k) /\ j[k] = ColAt(I, J, W, k)
        /\ \A r \in 0..(H - 1), c \in 0..(W - 1) :
              <<r, c>> \in coded <=> \/ r < BannerHeight
                                     \/ Passed(I, J, W, r - BannerHeight, c)
    BY <1>2, <1>4 DEF BodyPart
  <2>3. PICK m \in Nat : I = L * m
    BY <1>4 DEF BodyPart
  <2>4. I \in Nat
    BY <1>1, <2>3
  <2> HIDE DEF I, J
  <2>4a. I \in Int /\ W \in Nat /\ W >= 2 * L /\ J \in 0..(W - 1)
    BY <1>2, <2>2, <2>4
  <2>5. ASSUME NEW k \in 0..(L - 1), i[k] >= 0, i[k] < BodyHeight
        PROVE  Active(k) /\ Position(k) \in ((0..(H - 1)) \X (0..(W - 1))) \ coded
    <3>1. i[k] = RowAt(I, J, k) /\ j[k] = ColAt(I, J, W, k)
      BY <2>2
    <3>2. RowAt(I, J, k) \in Int /\ ColAt(I, J, W, k) \in 0..(W - 1)
      BY <2>4a, LaneMoves
    <3>3. ~Passed(I, J, W, i[k], j[k])
      <4>1. ~Passed(I, J, W, RowAt(I, J, k), ColAt(I, J, W, k))
        BY <2>4a, LanePasses
      <4> QED
        BY <3>1, <4>1
    <3>4. i[k] + BannerHeight \in 0..(H - 1) /\ (i[k] + BannerHeight) - BannerHeight = i[k]
      BY <1>2, <2>5, <3>1, <3>2
    <3>5. <<i[k] + BannerHeight, j[k]>> \notin coded
      <4>1. ~(i[k] + BannerHeight < BannerHeight)
        BY <1>2, <2>5, <3>1, <3>2
      <4> QED
        BY <2>2, <3>1, <3>2, <3>3, <3>4, <4>1
    <3> QED
      BY <2>1, <2>5, <3>1, <3>2, <3>4, <3>5 DEF Active, Position
  <2>6. i[0] = RowAt(I, J, 0)
    BY <1>1, <2>2
  <2>7. CASE I = 0
    <3>1. L - 1 \in 0..(L - 1) /\ i[L - 1] = 0
      BY <1>1, <2>7 DEF I
    <3>2. 0 < BodyHeight
      BY <1>2, <1>4, Divided DEF TypeOK, BodyPart
    <3> QED
      BY <2>1, <2>5, <3>1, <3>2
  <2>8. CASE I > 0
    <3>1. 0 \in 0..(L - 1) /\ i[0] >= 0
      BY <1>1, <2>2, <2>4, <2>6, <2>8 DEF RowAt, Behind
    <3> QED
      BY <2>1, <2>2, <2>5, <3>1
  <2> QED
    BY <2>4, <2>7, <2>8
<1> QED
  BY <1>3, <1>4 DEF TypeOK

-----------------------------------------------------------------------------
(* Each step keeps the invariant.                                          *)

LEMMA LoadCoded ==
    ASSUME NEW r, NEW c, r + Top \in 0..(H - 1), c \in 0..(W - 1), <<r + Top, c>> \in coded
    PROVE  Load(r, c) = <<r + Top, c>> /\ Load(r, c) \in Pixels
BY DEF Load, Pixels

LEMMA TypesWithoutRaw ==
    ASSUME NEW S, NEW u \in [S -> Registers(Pixels)]
    PROVE  u \in [S -> Registers(Pixels \cup {Raw})]
<1>1. Registers(Pixels) \subseteq Registers(Pixels \cup {Raw})
  BY DEF Registers
<1> QED
  BY <1>1

LEMMA InitInv == Init => Inv
<1> SUFFICES ASSUME Init PROVE Inv
  OBVIOUS
<1>1. L \in Nat /\ L >= 2
  BY LanesAssumption
<1>2. /\ shape \in Shapes /\ H \in Nat \ {0} /\ W \in Nat \ {0} /\ BannerHeight \in 1..H
  BY Divided DEF Init
<1>3. /\ phase = "banner" /\ step = "templates" /\ coded = {} /\ recoded = {}
      /\ i = [k \in {0} |-> 0] /\ j = [k \in {0} |-> 0]
      /\ t = [k \in {0} |-> Grey] /\ x = [k \in {0} |-> Mid]
  BY DEF Init
<1>4. Grey \in Registers(Pixels) /\ Mid \in Pixels
  BY DEF Grey, Registers, Pixels
<1>5. t \in [{0} -> Registers(Pixels)] /\ x \in [{0} -> Pixels]
  BY <1>3, <1>4
<1>6. t \in [{0} -> Registers(Pixels \cup {Raw})]
  BY <1>5, TypesWithoutRaw
<1>7. TypeOK
  <2>1. i \in [{0} -> (-L)..(H + L - 1)] /\ j \in [{0} -> 0..(W - 1)] /\ DOMAIN i = {0}
    BY <1>1, <1>2, <1>3
  <2> QED
    BY <1>2, <1>3, <1>5, <1>6, <2>1 DEF TypeOK
<1>8. NothingRaw
  BY <1>5 DEF NothingRaw
<1>9. BannerPart /\ BodyPart /\ OverPart
  BY <1>2, <1>3 DEF BannerPart, BodyPart, OverPart
<1> QED
  BY <1>7, <1>8, <1>9 DEF Inv

\* The 1-lane loop looks only at rows above and columns to the right of it.
LEMMA TemplatesOneIn ==
    ASSUME NEW r \in Nat, NEW c \in Nat, NEW reg \in Registers(Pixels), NEW last \in Pixels,
           r > 0 => Load(r - 1, 0) \in Pixels,
           r > 1 => Load(r - 2, 0) \in Pixels,
           r > 0 /\ c + 1 < W => Load(r - 1, c + 1) \in Pixels,
           r > 1 /\ c + 1 < W => Load(r - 2, c + 1) \in Pixels
    PROVE  TemplatesOne(r, c, reg, last) \in Registers(Pixels)
<1> DEFINE moved == IF c = 0 THEN Enter(r, reg) ELSE Move(reg, last)
           d == IF r < 1 THEN moved.a ELSE IF c + 1 < W THEN Load(r - 1, c + 1) ELSE moved.d
           g == IF r < 2 THEN d ELSE IF c + 1 < W THEN Load(r - 2, c + 1) ELSE moved.g
<1>1. moved \in Registers(Pixels)
  <2>1. Enter(r, reg) \in Registers(Pixels)
    BY DEF Enter, Registers
  <2>2. Move(reg, last) \in Registers(Pixels)
    BY DEF Move, Registers
  <2> QED
    BY <2>1, <2>2
<1>2. d \in Pixels
  BY <1>1 DEF Registers
<1>3. g \in Pixels
  <2> HIDE DEF d
  <2> QED
    BY <1>1, <1>2 DEF Registers
<1>4. TemplatesOne(r, c, reg, last) = UpRight(moved, d, g)
  BY DEF TemplatesOne
<1> HIDE DEF moved, d, g
<1> QED
  BY <1>1, <1>2, <1>3, <1>4 DEF Registers, UpRight

LEMMA BannerTemplatesInv == Inv /\ BannerTemplates => Inv'
<1> SUFFICES ASSUME Inv, BannerTemplates PROVE Inv'
  OBVIOUS
<1> USE DEF Inv
<1>1. /\ phase = "banner" /\ step' = "code"
      /\ t' = [k \in {0} |-> TemplatesOne(i[0], j[0], t[0], x[0])]
      /\ shape' = shape /\ phase' = phase /\ i' = i /\ j' = j /\ x' = x
      /\ coded' = coded /\ recoded' = recoded
  BY DEF BannerTemplates
<1>2. /\ H \in Nat \ {0} /\ W \in Nat \ {0} /\ BannerHeight \in 1..H
  BY Divided DEF TypeOK
<1>3. /\ DOMAIN i = {0} /\ Top = 0
      /\ i[0] \in 0..(BannerHeight - 1) /\ j[0] \in 0..(W - 1)
      /\ \A r \in 0..(H - 1), c \in 0..(W - 1) : r < i[0] => <<r, c>> \in coded
  BY <1>1 DEF BannerPart, Top
<1>4. ASSUME NEW r \in 0..(i[0] - 1), NEW c \in 0..(W - 1)
      PROVE  Load(r, c) \in Pixels
  <2>1. r + Top = r /\ r \in 0..(H - 1) /\ r < i[0]
    BY <1>2, <1>3
  <2> QED
    BY <1>3, <2>1, LoadCoded
<1>5. t[0] \in Registers(Pixels) /\ x[0] \in Pixels
  BY <1>3 DEF TypeOK, NothingRaw
<1>6. TemplatesOne(i[0], j[0], t[0], x[0]) \in Registers(Pixels)
  <2>1. i[0] \in Nat /\ j[0] \in Nat /\ 0 \in 0..(W - 1) /\ (j[0] + 1 < W => j[0] + 1 \in 0..(W - 1))
    BY <1>2, <1>3
  <2>2. /\ i[0] > 0 => i[0] - 1 \in 0..(i[0] - 1)
        /\ i[0] > 1 => i[0] - 2 \in 0..(i[0] - 1)
    BY <2>1
  <2> QED
    BY <1>4, <1>5, <2>1, <2>2, TemplatesOneIn
<1>7. t' \in [{0} -> Registers(Pixels)]
  BY <1>1, <1>6
<1>8. Registers(Pixels)' = Registers(Pixels) /\ Registers(Pixels \cup {Raw})' = Registers(Pixels \cup {Raw})
  BY <1>1 DEF Registers, Pixels, H, W
<1>9. TypeOK'
  <2>1. t' \in [{0} -> Registers(Pixels \cup {Raw})]
    BY <1>7, TypesWithoutRaw
  <2> QED
    BY <1>1, <1>3, <1>8, <2>1 DEF TypeOK, Pixels, H, W
<1>10. NothingRaw'
  BY <1>7, <1>8 DEF NothingRaw
<1>11. BannerPart' /\ BodyPart' /\ OverPart'
  BY <1>1 DEF BannerPart, BodyPart, OverPart, BannerHeight, IsLarge, SizeLarge, H, W
<1> QED
  BY <1>9, <1>10, <1>11

\* Where the lanes are in the body.
LEMMA BodyLanes ==
    Inv /\ phase = "body" =>
        /\ Lanes = 0..(L - 1) /\ DOMAIN i = Lanes /\ Top = BannerHeight /\ Height = BodyHeight
        /\ H \in Nat /\ W \in Nat /\ W >= 2 * L
        /\ Top \in 2..H /\ Height = H - Top /\ i[0] < Height
        /\ i[L - 1] \in Nat /\ j[L - 1] \in 0..(W - 1)
        /\ \A k \in Lanes : /\ i[k] = RowAt(i[L - 1], j[L - 1], k) /\ i[k] \in Int
                            /\ j[k] = ColAt(i[L - 1], j[L - 1], W, k) /\ j[k] \in 0..(W - 1)
<1> SUFFICES ASSUME Inv, phase = "body"
             PROVE  /\ Lanes = 0..(L - 1) /\ DOMAIN i = Lanes /\ Top = BannerHeight /\ Height = BodyHeight
                    /\ H \in Nat /\ W \in Nat /\ W >= 2 * L
                    /\ Top \in 2..H /\ Height = H - Top /\ i[0] < Height
                    /\ i[L - 1] \in Nat /\ j[L - 1] \in 0..(W - 1)
                    /\ \A k \in Lanes :
                          /\ i[k] = RowAt(i[L - 1], j[L - 1], k) /\ i[k] \in Int
                          /\ j[k] = ColAt(i[L - 1], j[L - 1], W, k) /\ j[k] \in 0..(W - 1)
  OBVIOUS
<1>1. L \in Nat /\ L >= 2
  BY LanesAssumption
<1>2. Lanes = 0..(L - 1) /\ Top = BannerHeight /\ Height = BodyHeight
  BY DEF Lanes, Top, Height
<1>3. IsLarge /\ DOMAIN i = 0..(L - 1) /\ j[L - 1] \in 0..(W - 1) /\ i[0] < BodyHeight
  BY DEF Inv, BodyPart
<1>4. /\ H \in Nat /\ W \in Nat /\ W >= 2 * L
      /\ BannerHeight \in 2..H /\ BodyHeight = H - BannerHeight
  BY <1>3, Divided DEF Inv, TypeOK
<1>5. i[L - 1] \in Nat
  <2>1. PICK m \in Nat : i[L - 1] = L * m
    BY DEF Inv, BodyPart
  <2> QED
    BY <1>1, <2>1
<1>6. ASSUME NEW k \in 0..(L - 1)
      PROVE  /\ i[k] = RowAt(i[L - 1], j[L - 1], k) /\ i[k] \in Int
             /\ j[k] = ColAt(i[L - 1], j[L - 1], W, k) /\ j[k] \in 0..(W - 1)
  <2>1. i[k] = RowAt(i[L - 1], j[L - 1], k) /\ j[k] = ColAt(i[L - 1], j[L - 1], W, k)
    BY DEF Inv, BodyPart
  <2> DEFINE I == i[L - 1]
             J == j[L - 1]
  <2>2. I \in Int /\ J \in 0..(W - 1)
    BY <1>3, <1>5
  <2> HIDE DEF I, J
  <2>3. RowAt(I, J, k) \in Int /\ ColAt(I, J, W, k) \in 0..(W - 1)
    BY <1>4, <2>2, LaneMoves
  <2> QED
    BY <2>1, <2>3 DEF I, J
<1> QED
  BY <1>2, <1>3, <1>4, <1>5, <1>6

\* All that a lane looks at was coded before.
LEMMA NeighboursCoded ==
    Inv /\ phase = "body" =>
        \A k \in Lanes, r \in 0..(H - 1), c \in 0..(W - 1) :
            \/ r = i[k] + Top /\ c < j[k]
            \/ r < i[k] + Top /\ c <= j[k] + 1
            => <<r, c>> \in coded
<1> SUFFICES ASSUME Inv, phase = "body", NEW k \in Lanes, NEW r \in 0..(H - 1), NEW c \in 0..(W - 1),
                    \/ r = i[k] + Top /\ c < j[k]
                    \/ r < i[k] + Top /\ c <= j[k] + 1
             PROVE  <<r, c>> \in coded
  OBVIOUS
<1> DEFINE I == i[L - 1]
           J == j[L - 1]
           q == r - Top
<1>1. L \in Nat /\ L >= 2
  BY LanesAssumption
<1>2. /\ k \in 0..(L - 1) /\ Top \in 2..H /\ Top = BannerHeight /\ H \in Nat
      /\ I \in Int /\ W \in Nat /\ W >= 2 * L /\ J \in 0..(W - 1)
      /\ i[k] = RowAt(I, J, k) /\ i[k] \in Int /\ j[k] = ColAt(I, J, W, k)
  BY BodyLanes
<1>3. <<r, c>> \in coded <=> r < Top \/ Passed(I, J, W, q, c)
  BY <1>2 DEF Inv, BodyPart
<1>4. q \in Int /\ ((q = i[k] /\ c < j[k]) \/ (q < i[k] /\ c <= j[k] + 1))
  BY <1>2
<1> HIDE DEF I, J, q
<1>5. Passed(I, J, W, q, c)
  BY <1>2, <1>4, NeighboursPassed
<1> QED
  BY <1>3, <1>5

\* At most one lane begins a row, and it does so inside of the body.
LEMMA OneLineStart ==
    Inv /\ phase = "body" =>
        \A k \in Lanes : j[k] = 0 => i[k] >= 0 /\ \A n \in Lanes : j[n] = 0 => n = k
<1> SUFFICES ASSUME Inv, phase = "body", NEW k \in Lanes, j[k] = 0, NEW n \in Lanes
             PROVE  i[k] >= 0 /\ (j[n] = 0 => n = k)
  OBVIOUS
<1>1. L \in Nat /\ L >= 2
  BY LanesAssumption
<1>2. /\ k \in 0..(L - 1) /\ n \in 0..(L - 1) /\ W \in Nat /\ W >= 2 * L
      /\ i[L - 1] \in Nat /\ j[L - 1] \in 0..(W - 1)
      /\ i[k] = RowAt(i[L - 1], j[L - 1], k)
      /\ j[k] = ColAt(i[L - 1], j[L - 1], W, k) /\ j[n] = ColAt(i[L - 1], j[L - 1], W, n)
  BY BodyLanes
<1> QED
  BY <1>1, <1>2 DEF RowAt, ColAt, Behind

LEMMA LoadNeighbour ==
    ASSUME Inv, phase = "body", NEW k \in Lanes, i[k] >= 0, i[k] < Height,
           NEW r \in 1..2, NEW c \in 0..(W - 1), c <= j[k] + 1
    PROVE  Load(i[k] - r, c) = <<i[k] + Top - r, c>> /\ Load(i[k] - r, c) \in Pixels
<1>1. /\ Top \in 2..H /\ H \in Nat /\ Height = H - Top /\ i[k] \in Int
  BY BodyLanes
<1>2. /\ i[k] + Top - r \in 0..(H - 1) /\ i[k] + Top - r < i[k] + Top
      /\ (i[k] - r) + Top = i[k] + Top - r
  BY <1>1
<1>3. <<i[k] + Top - r, c>> \in coded
  BY <1>2, NeighboursCoded
<1> QED
  BY <1>2, <1>3, LoadCoded

LEMMA TemplatesLaneIn ==
    ASSUME Inv, phase = "body", NEW k \in Lanes
    PROVE  TemplatesLane(k) \in Registers(Pixels)
<1>1. L \in Nat /\ L >= 2
  BY LanesAssumption
<1>2. /\ Lanes = 0..(L - 1) /\ DOMAIN i = Lanes /\ W \in Nat /\ W >= 2 * L
      /\ i[L - 1] \in Nat /\ j[L - 1] \in 0..(W - 1)
  BY BodyLanes
<1>3. t \in [Lanes -> Registers(Pixels)] /\ x \in [Lanes -> Pixels]
  BY <1>2 DEF Inv, TypeOK, NothingRaw
<1>4. ASSUME NEW n \in Lanes PROVE Shifted(n) \in Registers(Pixels)
  BY <1>3 DEF Shifted, Move, Registers
<1>5. Ringed(k) \in Registers(Pixels)
  <2>1. CASE k < L - 1 /\ j[k] < W - 1
    <3>1. k + 1 \in Lanes
      BY <1>1, <1>2, <2>1
    <3>2. Shifted(k + 1) \in Registers(Pixels) /\ Shifted(k) \in Registers(Pixels)
      BY <1>4, <3>1
    <3> QED
      BY <2>1, <3>2 DEF Ringed, UpRight, Registers
  <2>2. CASE ~(k < L - 1 /\ j[k] < W - 1)
    BY <1>4, <2>2 DEF Ringed
  <2> QED
    BY <2>1, <2>2
<1>6. LineStart(k) \in Registers(Pixels)
  <2>1. CASE j[k] = 0
    <3> DEFINE k0 == CHOOSE m \in Lanes : j[m] = 0 /\ \A n \in Lanes : j[n] = 0 => m <= n
               Above(r, c) == IF i[k0] < Height THEN Load(i[k0] - r, c) ELSE Mid
    <3>1. k0 = k
      <4>1. i[k] >= 0 /\ \A n \in Lanes : j[n] = 0 => n = k
        BY <2>1, OneLineStart
      <4>2. j[k] = 0 /\ \A n \in Lanes : j[n] = 0 => k <= n
        BY <1>1, <1>2, <2>1, <4>1
      <4> QED
        BY <4>1, <4>2
    <3>2. ASSUME NEW r \in 1..2, NEW c \in 0..1 PROVE Above(r, c) \in Pixels
      <4>1. Mid \in Pixels
        BY DEF Pixels
      <4>2. c \in 0..(W - 1) /\ c <= j[k] + 1 /\ i[k] >= 0
        BY <1>1, <1>2, <2>1, OneLineStart
      <4> HIDE DEF k0
      <4>3. CASE i[k] < Height
        BY <3>1, <4>2, <4>3, LoadNeighbour
      <4>4. CASE ~(i[k] < Height)
        BY <3>1, <4>1, <4>4
      <4> QED
        BY <4>3, <4>4
    <3>3. LineStart(k) = [a |-> Above(1, 0), b |-> Above(1, 0), c |-> Above(1, 0), e |-> Above(1, 0),
                          d |-> Above(1, 1), f |-> Above(2, 0), g |-> Above(2, 1)]
      BY <2>1 DEF LineStart
    <3>4. /\ Above(1, 0) \in Pixels /\ Above(1, 1) \in Pixels
          /\ Above(2, 0) \in Pixels /\ Above(2, 1) \in Pixels
      <4> HIDE DEF Above
      <4> QED
        BY <3>2
    <3> HIDE DEF Above
    <3> QED
      BY <3>3, <3>4 DEF Registers
  <2>2. CASE j[k] # 0
    BY <1>5, <2>2 DEF LineStart
  <2> QED
    BY <2>1, <2>2
<1>7. CASE k = L - 1 /\ i[k] < Height /\ j[k] < W - 1
  <2>1. j[k] + 1 \in 0..(W - 1) /\ j[k] + 1 <= j[k] + 1 /\ i[k] >= 0
    BY <1>2, <1>7
  <2>2. Load(i[k] - 1, j[k] + 1) \in Pixels /\ Load(i[k] - 2, j[k] + 1) \in Pixels
    BY <1>7, <2>1, LoadNeighbour
  <2>3. TemplatesLane(k) = UpRight(LineStart(k), Load(i[k] - 1, j[k] + 1),
                                                Load(i[k] - 2, j[k] + 1))
    BY <1>7 DEF TemplatesLane
  <2> QED
    BY <1>6, <2>2, <2>3 DEF Registers, UpRight
<1>8. CASE ~(k = L - 1 /\ i[k] < Height /\ j[k] < W - 1)
  BY <1>6, <1>8 DEF TemplatesLane
<1> QED
  BY <1>7, <1>8

LEMMA BodyTemplatesInv == Inv /\ BodyTemplates => Inv'
<1> SUFFICES ASSUME Inv, BodyTemplates PROVE Inv'
  OBVIOUS
<1>1. /\ phase = "body" /\ step' = "code"
      /\ t' = [k \in Lanes |-> TemplatesLane(k)]
      /\ shape' = shape /\ phase' = phase /\ i' = i /\ j' = j /\ x' = x
      /\ coded' = coded /\ recoded' = recoded
  BY DEF BodyTemplates
<1>2. t' \in [DOMAIN i -> Registers(Pixels)]
  BY <1>1, BodyLanes, TemplatesLaneIn
<1>3. Registers(Pixels)' = Registers(Pixels) /\ Registers(Pixels \cup {Raw})' = Registers(Pixels \cup {Raw})
  BY <1>1 DEF Registers, Pixels, H, W
<1>4. TypeOK'
  <2>1. t' \in [DOMAIN i -> Registers(Pixels \cup {Raw})]
    BY <1>2, TypesWithoutRaw
  <2> QED
    BY <1>1, <1>3, <2>1 DEF Inv, TypeOK, Pixels, H, W
<1>5. NothingRaw'
  BY <1>2, <1>3 DEF NothingRaw
<1>6. BannerPart' /\ OverPart'
  BY <1>1 DEF BannerPart, OverPart
<1>7. BodyPart'
  BY <1>1 DEF Inv, BodyPart, BannerHeight, BodyHeight, IsLarge, SizeLarge, H, W
<1> QED
  BY <1>4, <1>5, <1>6, <1>7 DEF Inv

\* Only what is coded can be coded twice.
LEMMA RecodedIsCoded ==
    ASSUME NEW S, CodePixels(S), recoded \subseteq coded
    PROVE  recoded' \subseteq coded'
BY DEF CodePixels

LEMMA BannerCodeInv == Inv /\ BannerCode => Inv'
<1> SUFFICES ASSUME Inv, BannerCode PROVE Inv'
  OBVIOUS
<1> DEFINE row == IF j[0] + 1 >= W THEN i[0] + 1 ELSE i[0]
<1>1. L \in Nat /\ L >= 2
  BY LanesAssumption
<1>2. /\ H \in Nat \ {0} /\ W \in Nat \ {0} /\ BannerHeight \in 1..H
      /\ BodyHeight = H - BannerHeight
      /\ ~IsLarge => BannerHeight = H
      /\ IsLarge => W >= 2 * L /\ BodyHeight >= 1
  BY Divided DEF Inv, TypeOK
<1>3. /\ phase = "banner" /\ step' = "templates" /\ shape' = shape
      /\ coded' = coded \cup {Position(0)} /\ recoded' \subseteq coded'
  <2>1. CodePixels({0}) /\ recoded \subseteq coded
    BY DEF BannerCode, Inv, TypeOK
  <2>2. recoded' \subseteq coded'
    BY <2>1, RecodedIsCoded
  <2>3. coded' = coded \cup {Position(0)}
    BY <2>1 DEF CodePixels
  <2> QED
    BY <2>2, <2>3 DEF BannerCode
<1>4. /\ DOMAIN i = {0} /\ Top = 0 /\ Height = BannerHeight
      /\ i[0] \in 0..(BannerHeight - 1) /\ j[0] \in 0..(W - 1)
  BY <1>3 DEF Inv, BannerPart, Top, Height
<1>5. Position(0) = <<i[0], j[0]>>
  BY <1>4 DEF Position
<1>6. ASSUME NEW r \in 0..(H - 1), NEW c \in 0..(W - 1)
      PROVE  <<r, c>> \in coded' <=> \/ r < i[0]
                                     \/ r = i[0] /\ c < j[0]
                                     \/ r = i[0] /\ c = j[0]
  <2>1. <<r, c>> \in coded <=> r < i[0] \/ (r = i[0] /\ c < j[0])
    BY <1>3 DEF Inv, BannerPart
  <2> QED
    BY <1>3, <1>5, <2>1
<1>7. coded' \subseteq (0..(H - 1)) \X (0..(W - 1))
  BY <1>2, <1>3, <1>4, <1>5 DEF Inv, TypeOK
<1>8. /\ H' = H /\ W' = W /\ Pixels' = Pixels /\ BannerHeight' = BannerHeight
      /\ BodyHeight' = BodyHeight /\ IsLarge' = IsLarge
      /\ Registers(Pixels)' = Registers(Pixels)
      /\ Registers(Pixels \cup {Raw})' = Registers(Pixels \cup {Raw})
  BY <1>3 DEF Registers, Pixels, BannerHeight, BodyHeight, IsLarge, SizeLarge, H, W
<1>9. t \in [{0} -> Registers(Pixels)] /\ x \in [{0} -> Pixels] /\ Position(0) \in Pixels
  <2>1. t \in [{0} -> Registers(Pixels)] /\ x \in [{0} -> Pixels]
    BY <1>4 DEF Inv, TypeOK, NothingRaw
  <2>2. Position(0) \in Pixels
    BY <1>2, <1>4, <1>5 DEF Pixels
  <2> QED
    BY <2>1, <2>2
<1>10. t \in [{0} -> Registers(Pixels \cup {Raw})]
  BY <1>9, TypesWithoutRaw
<1>11. \/ /\ row < Height
          /\ i' = [k \in {0} |-> row]
          /\ j' = [k \in {0} |-> IF j[0] + 1 >= W THEN 0 ELSE j[0] + 1]
          /\ x' = [k \in {0} |-> Position(0)]
          /\ UNCHANGED <<phase, t>>
       \/ row >= Height /\ IsLarge /\ StartBody
       \/ row >= Height /\ ~IsLarge /\ phase' = "over" /\ UNCHANGED <<i, j, t, x>>
  BY DEF BannerCode
<1>12. CASE /\ row < Height
            /\ i' = [k \in {0} |-> row]
            /\ j' = [k \in {0} |-> IF j[0] + 1 >= W THEN 0 ELSE j[0] + 1]
            /\ x' = [k \in {0} |-> Position(0)]
            /\ UNCHANGED <<phase, t>>
  <2>1. /\ i'[0] = row /\ row \in 0..(BannerHeight - 1)
        /\ j'[0] = (IF j[0] + 1 >= W THEN 0 ELSE j[0] + 1) /\ j'[0] \in 0..(W - 1)
        /\ DOMAIN i' = {0}
    BY <1>2, <1>4, <1>12
  <2>2. x' \in [{0} -> Pixels]
    BY <1>9, <1>12
  <2>3. TypeOK'
    <3>1. i' \in [{0} -> (-L)..(H + L - 1)] /\ j' \in [{0} -> 0..(W - 1)]
      BY <1>1, <1>2, <1>12, <2>1
    <3> QED
      BY <1>3, <1>7, <1>8, <1>10, <1>12, <2>1, <2>2, <3>1 DEF Inv, TypeOK
  <2>4. NothingRaw'
    BY <1>8, <1>9, <1>12 DEF NothingRaw
  <2>5. BannerPart'
    <3>1. ASSUME NEW r \in 0..(H - 1), NEW c \in 0..(W - 1)
          PROVE  <<r, c>> \in coded' <=> r < i'[0] \/ (r = i'[0] /\ c < j'[0])
      BY <1>2, <1>4, <1>6, <2>1
    <3> QED
      BY <1>8, <2>1, <3>1 DEF BannerPart
  <2>6. BodyPart' /\ OverPart'
    BY <1>3, <1>12 DEF BodyPart, OverPart
  <2> QED
    BY <2>3, <2>4, <2>5, <2>6 DEF Inv
<1>13. CASE row >= Height /\ IsLarge /\ StartBody
  <2>1. /\ phase' = "body"
        /\ i' = [k \in 0..(L - 1) |-> LaneRow(k)] /\ j' = [k \in 0..(L - 1) |-> LaneColumn(k)]
        /\ t' = [k \in 0..(L - 1) |-> Grey] /\ x' = [k \in 0..(L - 1) |-> Mid]
    BY <1>13 DEF StartBody
  <2>2. W >= 2 * L /\ BodyHeight >= 1 /\ BodyHeight \in Nat
    BY <1>2, <1>13
  <2>3. i[0] = BannerHeight - 1 /\ j[0] = W - 1
    BY <1>2, <1>4, <1>13
  <2>4. /\ L - 1 \in 0..(L - 1) /\ i'[L - 1] = 0 /\ j'[L - 1] = 0
        /\ 0 \in 0..(L - 1) /\ i'[0] = -1
    BY <1>1, <2>1 DEF LaneRow, LaneColumn
  <2>5. ASSUME NEW k \in 0..(L - 1)
        PROVE  /\ i'[k] = RowAt(0, 0, k) /\ j'[k] = ColAt(0, 0, W, k)
               /\ i'[k] \in (-L)..(H + L - 1) /\ j'[k] \in 0..(W - 1)
    <3>1. i'[k] = LaneRow(k) /\ j'[k] = LaneColumn(k)
      BY <2>1
    <3> QED
      BY <1>1, <1>2, <2>2, <3>1 DEF LaneRow, LaneColumn, RowAt, ColAt, Behind
  <2>6. Grey \in Registers(Pixels) /\ Mid \in Pixels
    BY DEF Grey, Registers, Pixels
  <2>7. t' \in [0..(L - 1) -> Registers(Pixels)] /\ x' \in [0..(L - 1) -> Pixels]
    BY <2>1, <2>6
  <2>8. TypeOK'
    <3>1. /\ i' \in [0..(L - 1) -> (-L)..(H + L - 1)] /\ j' \in [0..(L - 1) -> 0..(W - 1)]
          /\ DOMAIN i' = 0..(L - 1)
      BY <2>1, <2>5
    <3>2. t' \in [0..(L - 1) -> Registers(Pixels \cup {Raw})]
      BY <2>7, TypesWithoutRaw
    <3> QED
      BY <1>3, <1>7, <1>8, <2>1, <2>7, <3>1, <3>2 DEF Inv, TypeOK
  <2>9. NothingRaw'
    BY <1>8, <2>7 DEF NothingRaw
  <2>10. BodyPart'
    <3>1. \E m \in Nat : i'[L - 1] = L * m
      <4>1. L * 0 = 0
        BY <1>1
      <4> QED
        BY <2>4, <4>1
    <3>2. ASSUME NEW r \in 0..(H - 1), NEW c \in 0..(W - 1)
          PROVE  <<r, c>> \in coded' <=> \/ r < BannerHeight
                                         \/ Passed(0, 0, W, r - BannerHeight, c)
      <4>1. <<r, c>> \in coded' <=> r < BannerHeight
        BY <1>2, <1>6, <2>3
      <4>2. r >= BannerHeight => ~Passed(0, 0, W, r - BannerHeight, c)
        BY <1>1, <1>2 DEF Passed
      <4> QED
        BY <1>2, <4>1, <4>2
    <3>3. j'[L - 1] \in 0..(W - 1) /\ i'[0] < BodyHeight /\ DOMAIN i' = 0..(L - 1)
      BY <1>2, <2>1, <2>2, <2>4
    <3> QED
      BY <1>8, <1>13, <2>4, <2>5, <3>1, <3>2, <3>3 DEF BodyPart
  <2>11. BannerPart' /\ OverPart'
    BY <2>1 DEF BannerPart, OverPart
  <2> QED
    BY <2>8, <2>9, <2>10, <2>11 DEF Inv
<1>14. CASE row >= Height /\ ~IsLarge /\ phase' = "over" /\ UNCHANGED <<i, j, t, x>>
  <2>1. i[0] = H - 1 /\ j[0] = W - 1
    BY <1>2, <1>4, <1>14
  <2>2. OverPart'
    <3>1. ASSUME NEW r \in 0..(H - 1), NEW c \in 0..(W - 1)
          PROVE  <<r, c>> \in coded'
      BY <1>2, <1>6, <2>1
    <3> QED
      BY <1>7, <1>8, <3>1 DEF OverPart
  <2>3. TypeOK'
    BY <1>3, <1>7, <1>8, <1>14 DEF Inv, TypeOK
  <2>4. NothingRaw'
    BY <1>8, <1>14 DEF Inv, NothingRaw
  <2>5. BannerPart' /\ BodyPart'
    BY <1>14 DEF BannerPart, BodyPart
  <2> QED
    BY <2>2, <2>3, <2>4, <2>5 DEF Inv
<1> QED
  BY <1>11, <1>12, <1>13, <1>14

LEMMA BodyCodeInv == Inv /\ BodyCode => Inv'
<1> SUFFICES ASSUME Inv, BodyCode PROVE Inv'
  OBVIOUS
<1> DEFINE I == i[L - 1]
           J == j[L - 1]
           NI == NextI(I, J, W)
           NJ == NextJ(J, W)
<1>1. L \in Nat /\ L >= 2 /\ 0 \in 0..(L - 1) /\ L - 1 \in 0..(L - 1)
  BY LanesAssumption
<1>2. /\ phase = "body" /\ step' = "templates" /\ shape' = shape /\ t' = t
      /\ x' = [k \in Lanes |-> IF Active(k) THEN Position(k) ELSE Mid]
      /\ j' = [k \in Lanes |-> IF Wraps(k) THEN 0 ELSE j[k] + 1]
      /\ i' = [k \in Lanes |-> NextRow(k)]
      /\ phase' = IF i'[0] < Height THEN "body" ELSE "over"
      /\ CodePixels({m \in Lanes : Active(m)})
  BY DEF BodyCode
<1>2a. /\ coded' = coded \cup {Position(k) : k \in {m \in Lanes : Active(m)}}
       /\ recoded' \subseteq coded'
  BY <1>2, RecodedIsCoded DEF CodePixels, Inv, TypeOK
<1>3. /\ Lanes = 0..(L - 1) /\ DOMAIN i = Lanes /\ Top = BannerHeight /\ Height = BodyHeight
      /\ H \in Nat /\ W \in Nat /\ W >= 2 * L
      /\ Top \in 2..H /\ Height = H - Top /\ i[0] < Height
      /\ I \in Nat /\ J \in 0..(W - 1)
      /\ \A k \in Lanes : /\ i[k] = RowAt(I, J, k) /\ i[k] \in Int
                          /\ j[k] = ColAt(I, J, W, k) /\ j[k] \in 0..(W - 1)
  BY <1>2, BodyLanes
<1>4. IsLarge
  BY <1>2 DEF Inv, BodyPart
<1>5. /\ H' = H /\ W' = W /\ Pixels' = Pixels /\ BannerHeight' = BannerHeight
      /\ BodyHeight' = BodyHeight /\ IsLarge' = IsLarge
      /\ Registers(Pixels)' = Registers(Pixels)
      /\ Registers(Pixels \cup {Raw})' = Registers(Pixels \cup {Raw})
  BY <1>2 DEF Registers, Pixels, BannerHeight, BodyHeight, IsLarge, SizeLarge, H, W
<1>6. PICK m \in Nat : I = L * m
  BY <1>2 DEF Inv, BodyPart
<1>7. \A r \in 0..(H - 1), c \in 0..(W - 1) :
         <<r, c>> \in coded <=> r < Top \/ Passed(I, J, W, r - Top, c)
  BY <1>2, <1>3 DEF Inv, BodyPart
<1>8. t \in [Lanes -> Registers(Pixels)]
  BY <1>3 DEF Inv, TypeOK, NothingRaw
<1> HIDE DEF I, J
<1>9. ASSUME NEW k \in Lanes
      PROVE  /\ i'[k] = RowAt(NI, NJ, k) /\ j'[k] = ColAt(NI, NJ, W, k)
             /\ j'[k] \in 0..(W - 1)
  <2>1. i'[k] = (IF j[k] + 1 = W THEN i[k] + L ELSE i[k])
    BY <1>2 DEF NextRow, Wraps
  <2>2. j'[k] = (IF j[k] + 1 = W THEN 0 ELSE j[k] + 1)
    BY <1>2 DEF Wraps
  <2>3. /\ i[k] = RowAt(I, J, k) /\ j[k] = ColAt(I, J, W, k) /\ j[k] \in 0..(W - 1)
        /\ k \in 0..(L - 1) /\ I \in Int
    BY <1>3
  <2>4. /\ ColAt(NI, NJ, W, k)
             = IF ColAt(I, J, W, k) + 1 = W THEN 0 ELSE ColAt(I, J, W, k) + 1
        /\ RowAt(NI, NJ, k)
             = IF ColAt(I, J, W, k) + 1 = W THEN RowAt(I, J, k) + L ELSE RowAt(I, J, k)
    BY <1>3, <2>3, LaneMoves
  <2> HIDE DEF NI, NJ
  <2> QED
    BY <1>3, <2>1, <2>2, <2>3, <2>4
<1>10. NI \in Nat /\ NJ \in 0..(W - 1) /\ \E n \in Nat : NI = L * n
  <2>1. NI = I \/ NI = I + L
    BY DEF NextI
  <2>2. L * (m + 1) = L * m + L /\ m + 1 \in Nat
    BY <1>1
  <2>3. NJ \in 0..(W - 1)
    BY <1>3 DEF NextJ
  <2>4. \E n \in Nat : NI = L * n
    BY <1>6, <2>1, <2>2
  <2>5. NI \in Nat
    BY <1>1, <1>3, <2>1
  <2> QED
    BY <2>3, <2>4, <2>5
<1>11. i'[L - 1] = NI /\ j'[L - 1] = NJ
  <2>1. i'[L - 1] = RowAt(NI, NJ, L - 1) /\ j'[L - 1] = ColAt(NI, NJ, W, L - 1)
    BY <1>1, <1>3, <1>9
  <2> HIDE DEF NI, NJ
  <2> QED
    BY <1>1, <1>3, <1>10, <2>1 DEF RowAt, ColAt, Behind
<1>12. ASSUME NEW k \in Lanes
       PROVE  i'[k] \in (-L)..(H + L - 1)
  <2>1. i'[k] = (IF j[k] + 1 = W THEN i[k] + L ELSE i[k])
    BY <1>2 DEF NextRow, Wraps
  <2>2. /\ k \in 0..(L - 1) /\ i[k] = RowAt(I, J, k) /\ j[k] = ColAt(I, J, W, k)
        /\ i[0] = RowAt(I, J, 0) /\ i[0] < H - 1
    BY <1>1, <1>3
  <2> QED
    BY <1>1, <1>3, <2>1, <2>2 DEF RowAt, ColAt, Behind
<1>13. ASSUME NEW k \in Lanes, Active(k)
       PROVE  Position(k) \in (0..(H - 1)) \X (0..(W - 1))
  BY <1>3, <1>13 DEF Active, Position
<1>14. coded' \subseteq (0..(H - 1)) \X (0..(W - 1))
  BY <1>2a, <1>13 DEF Inv, TypeOK
<1>15. x' \in [Lanes -> Pixels]
  <2>1. ASSUME NEW k \in Lanes PROVE (IF Active(k) THEN Position(k) ELSE Mid) \in Pixels
    BY <1>13 DEF Pixels
  <2> QED
    BY <1>2, <2>1
<1>16. ASSUME NEW r \in 0..(H - 1), NEW c \in 0..(W - 1)
       PROVE  <<r, c>> \in coded' <=> r < Top \/ Passed(NI, NJ, W, r - Top, c)
  <2>1. r - Top \in Int /\ I \in Int
    BY <1>3
  <2>2. ASSUME <<r, c>> \in coded PROVE r < Top \/ Passed(NI, NJ, W, r - Top, c)
    BY <1>3, <1>7, <2>1, <2>2, PassedGrows
  <2>3. ASSUME NEW k \in Lanes, Active(k), <<r, c>> = Position(k)
        PROVE  Passed(NI, NJ, W, r - Top, c)
    <3>1. r = i[k] + Top /\ c = j[k]
      BY <2>3 DEF Position
    <3>2. r - Top = RowAt(I, J, k) /\ c = ColAt(I, J, W, k) /\ k \in 0..(L - 1)
      BY <1>3, <3>1
    <3>3. Passed(NI, NJ, W, RowAt(I, J, k), ColAt(I, J, W, k))
      BY <1>3, <2>1, <3>2, LanePasses
    <3> HIDE DEF NI, NJ
    <3> QED
      BY <3>2, <3>3
  <2>4. ASSUME r >= Top, Passed(NI, NJ, W, r - Top, c), <<r, c>> \notin coded
        PROVE  \E k \in Lanes : Active(k) /\ <<r, c>> = Position(k)
    <3> DEFINE q == r - Top
    <3>1. ~Passed(I, J, W, q, c) /\ Passed(NextI(I, J, W), NextJ(J, W), W, q, c)
      BY <1>7, <2>4
    <3>2. I \in Int /\ W \in Nat /\ W >= 2 * L /\ J \in 0..(W - 1) /\ q \in Int
      BY <1>3, <2>1
    <3> HIDE DEF q, I, J
    <3>3. PICK k \in 0..(L - 1) : RowAt(I, J, k) = q /\ ColAt(I, J, W, k) = c
      BY <3>1, <3>2, LaneExists, SMTT(40)
    <3>4. k \in Lanes /\ i[k] = q /\ j[k] = c
      BY <1>3, <3>3
    <3>5. q + Top = r /\ q > -1 /\ q < Height
      BY <1>3, <2>4 DEF q
    <3> QED
      BY <3>4, <3>5 DEF Active, Position
  <2>5. <<r, c>> \in coded' <=> \/ <<r, c>> \in coded
                                \/ \E k \in Lanes : Active(k) /\ <<r, c>> = Position(k)
    BY <1>2a
  <2>6. r < Top => <<r, c>> \in coded
    BY <1>7
  <2> HIDE DEF NI, NJ
  <2> QED
    BY <1>3, <2>2, <2>3, <2>4, <2>5, <2>6
<1>17. TypeOK'
  <2>1. /\ i' \in [Lanes -> (-L)..(H + L - 1)] /\ j' \in [Lanes -> 0..(W - 1)]
        /\ DOMAIN i' = Lanes
    BY <1>2, <1>9, <1>12
  <2>2. t \in [Lanes -> Registers(Pixels \cup {Raw})]
    BY <1>8, TypesWithoutRaw
  <2> QED
    BY <1>2, <1>2a, <1>5, <1>14, <1>15, <2>1, <2>2 DEF Inv, TypeOK
<1>18. NothingRaw'
  BY <1>2, <1>5, <1>8 DEF NothingRaw
<1>19. BannerPart'
  BY <1>2 DEF BannerPart
<1>20. BodyPart'
  <2> SUFFICES ASSUME phase' = "body" PROVE BodyPart'
    BY DEF BodyPart
  <2>1. i'[0] < BodyHeight /\ DOMAIN i' = 0..(L - 1)
    BY <1>2, <1>3
  <2> HIDE DEF NI, NJ
  <2> QED
    BY <1>3, <1>4, <1>5, <1>9, <1>10, <1>11, <1>16, <2>1 DEF BodyPart
<1>21. OverPart'
  <2> SUFFICES ASSUME phase' = "over"
               PROVE  coded' = (0..(H - 1)) \X (0..(W - 1))
    BY <1>5 DEF OverPart
  <2>1. ~(i'[0] < Height)
    BY <1>2
  <2>2. PICK n \in Nat : BodyHeight = L * n
    BY <1>4, Divided DEF Inv, TypeOK
  <2>3. PICK p \in Nat : NI = L * p
    BY <1>10
  <2>4. i'[0] = RowAt(NI, NJ, 0)
    BY <1>1, <1>3, <1>9
  <2> HIDE DEF NI, NJ
  <2>5. RowAt(NI, NJ, 0) \in Int
    BY <1>1, <1>3, <1>10 DEF RowAt, Behind
  <2>5a. L * n = Height /\ Height = H - Top /\ H \in Nat /\ Top \in Nat
    <3>1. L * n = Height
      BY <1>3, <2>2
    <3>2. Height = H - Top /\ H \in Nat /\ Top \in 2..H
      BY <1>3
    <3> QED
      BY <3>1, <3>2
  <2>6. RowAt(L * p, NJ, 0) >= L * n
    <3>1. RowAt(NI, NJ, 0) >= Height
      BY <2>1, <2>4, <2>5, <2>5a
    <3> QED
      BY <2>3, <2>5a, <3>1
  <2>7. ASSUME NEW r \in 0..(H - 1), NEW c \in 0..(W - 1)
        PROVE  <<r, c>> \in coded'
    <3>1. r - Top \in Int /\ r - Top < L * n
      BY <2>5a
    <3>2. Passed(L * p, NJ, W, r - Top, c)
      BY <1>3, <1>10, <2>6, <3>1, PassedInBlock
    <3> QED
      BY <1>16, <2>3, <3>2
  <2> QED
    BY <1>14, <2>7
<1> QED
  BY <1>17, <1>18, <1>19, <1>20, <1>21 DEF Inv

LEMMA StepInv == Inv /\ [Next]_vars => Inv'
<1> SUFFICES ASSUME Inv, [Next]_vars PROVE Inv'
  OBVIOUS
<1>1. CASE BannerTemplates
  BY <1>1, BannerTemplatesInv
<1>2. CASE BannerCode
  BY <1>2, BannerCodeInv
<1>3. CASE BodyTemplates
  BY <1>3, BodyTemplatesInv
<1>4. CASE BodyCode
  BY <1>4, BodyCodeInv
<1>5. CASE UNCHANGED vars
  BY <1>5 DEF vars, Inv, TypeOK, NothingRaw, BannerPart, BodyPart, OverPart, BannerHeight,
              BodyHeight, IsLarge, SizeLarge, Registers, Pixels, H, W
<1> QED
  BY <1>1, <1>2, <1>3, <1>4, <1>5 DEF Next

LEMMA Invariance == SafeSpec => []Inv
<1>1. Init => Inv
  BY InitInv
<1>2. Inv /\ [Next]_vars => Inv'
  BY StepInv
<1> QED
  BY <1>1, <1>2, PTL DEF SafeSpec

-----------------------------------------------------------------------------
(* The results.                                                            *)

\* Rows and columns of the lanes stay in their ranges for every image.
THEOREM TypeCorrect == Spec => []TypeOK
<1>1. Inv => TypeOK
  BY DEF Inv
<1> QED
  BY <1>1, Invariance, PTL DEF Spec

\* No decoder, on any image and with any number of lanes, predicts from memory
\* it has not decoded: the size test (two columns for each lane, two rows of
\* banner) is what this takes.
THEOREM NeverRaw == Spec => []NothingRaw
<1>1. Inv => NothingRaw
  BY DEF Inv
<1> QED
  BY <1>1, Invariance, PTL DEF Spec

-----------------------------------------------------------------------------
(* The wave front implements CausalScan.                                   *)

LEMMA CausalPixels ==
    ASSUME NEW r, NEW c, NEW p \in Scan!Causal(r, c)
    PROVE  /\ p \in (0..(H - 1)) \X (0..(W - 1))
           /\ \/ p \in {r} \X {c - 2, c - 1}
              \/ p \in {r - 1} \X {c - 1, c, c + 1}
              \/ p \in {r - 2} \X {c, c + 1}
<1> DEFINE A == {r} \X {c - 2, c - 1}
           B == {r - 1} \X {c - 1, c, c + 1}
           C == {r - 2} \X {c, c + 1}
<1>1. Scan!Causal(r, c) = Scan!Image \cap (A \cup B \cup C)
  BY DEF Scan!Causal
<1>2. Scan!Image = (0..(H - 1)) \X (0..(W - 1))
  BY DEF Scan!Image, H, W
<1> HIDE DEF A, B, C
<1>3. p \in Scan!Image /\ (p \in A \/ p \in B \/ p \in C)
  BY <1>1
<1> QED
  BY <1>2, <1>3 DEF A, B, C

\* Whatever lane is active, the pixels its prediction looks at are coded.
LEMMA CausalCoded ==
    Inv /\ phase # "over" =>
        \A k \in Lanes : Active(k) => Scan!Causal(i[k] + Top, j[k]) \subseteq coded
<1> SUFFICES ASSUME Inv, phase # "over", NEW k \in Lanes, Active(k),
                    NEW p \in Scan!Causal(i[k] + Top, j[k])
             PROVE  p \in coded
  OBVIOUS
<1> DEFINE r == p[1]
           c == p[2]
           R == i[k] + Top
           S == j[k]
<1>1. R \in Int /\ S \in Int
  <2>1. CASE phase = "banner"
    <3>1. /\ k = 0 /\ Top = 0 /\ i[0] \in 0..(BannerHeight - 1) /\ j[0] \in 0..(W - 1)
      BY <2>1 DEF Inv, BannerPart, Lanes, Top
    <3> QED
      BY <3>1
  <2>2. CASE phase = "body"
    BY <2>2, BodyLanes
  <2> QED
    BY <2>1, <2>2 DEF Inv, TypeOK
<1>2. p \in Scan!Causal(R, S)
  OBVIOUS
<1>3. phase = "banner" => R = i[0] /\ S = j[0] /\ i[0] \in Int
  <2> SUFFICES ASSUME phase = "banner" PROVE R = i[0] /\ S = j[0] /\ i[0] \in Int
    OBVIOUS
  <2>1. k = 0 /\ Top = 0 /\ i[0] \in 0..(BannerHeight - 1)
    BY DEF Inv, BannerPart, Lanes, Top
  <2> QED
    BY <2>1
<1>4. R = i[k] + Top /\ S = j[k]
  OBVIOUS
<1> HIDE DEF R, S
<1>5. r \in 0..(H - 1) /\ c \in 0..(W - 1) /\ p = <<r, c>>
  BY <1>2, CausalPixels
<1>6. (r = R /\ c < S) \/ (r < R /\ c <= S + 1)
  <2>1. CASE p \in {R} \X {S - 2, S - 1}
    BY <1>1, <2>1
  <2>2. CASE p \in {R - 1} \X {S - 1, S, S + 1}
    BY <1>1, <2>2
  <2>3. CASE p \in {R - 2} \X {S, S + 1}
    BY <1>1, <2>3
  <2> QED
    BY <1>2, <2>1, <2>2, <2>3, CausalPixels
<1> SUFFICES <<r, c>> \in coded
  BY <1>5
<1> HIDE DEF r, c
<1>7. CASE phase = "banner"
  <2>1. <<r, c>> \in coded <=> r < i[0] \/ (r = i[0] /\ c < j[0])
    BY <1>5, <1>7 DEF Inv, BannerPart
  <2> QED
    BY <1>3, <1>6, <1>7, <2>1
<1>8. CASE phase = "body"
  BY <1>4, <1>5, <1>6, <1>8, NeighboursCoded
<1> QED
  BY <1>7, <1>8 DEF Inv, TypeOK

\* No active lane is at a pixel that is coded or at that of another one.
LEMMA EachLaneItsPixel ==
    ASSUME Inv, phase # "over", NEW k \in Lanes, Active(k)
    PROVE  /\ Position(k) \notin coded
           /\ \A n \in Lanes \ {k} : Position(n) # Position(k)
<1>1. CASE phase = "banner"
  <2>1. /\ Lanes = {0} /\ k = 0 /\ Position(0) = <<i[0], j[0]>>
        /\ i[0] \in 0..(BannerHeight - 1) /\ j[0] \in 0..(W - 1)
    <3>1. Lanes = {0} /\ Top = 0
      BY <1>1 DEF Lanes, Top
    <3>2. i[0] \in 0..(BannerHeight - 1) /\ j[0] \in 0..(W - 1)
      BY <1>1 DEF Inv, BannerPart
    <3> QED
      BY <3>1, <3>2 DEF Position
  <2>2. i[0] \in 0..(H - 1)
    BY <2>1, Divided DEF Inv, TypeOK
  <2>3. ~(i[0] < i[0] \/ (i[0] = i[0] /\ j[0] < j[0]))
    BY <2>1
  <2>4. <<i[0], j[0]>> \notin coded
    BY <1>1, <2>1, <2>2, <2>3 DEF Inv, BannerPart
  <2> QED
    BY <2>1, <2>4
<1>2. CASE phase = "body"
  <2> DEFINE I == i[L - 1]
             J == j[L - 1]
  <2>1. L \in Nat /\ L >= 2
    BY LanesAssumption
  <2>2. /\ Lanes = 0..(L - 1) /\ Top = BannerHeight /\ Height = BodyHeight
        /\ H \in Nat /\ W \in Nat /\ W >= 2 * L
        /\ Top \in 2..H /\ Height = H - Top
        /\ I \in Nat /\ J \in 0..(W - 1)
        /\ \A n \in Lanes : /\ i[n] = RowAt(I, J, n) /\ i[n] \in Int
                            /\ j[n] = ColAt(I, J, W, n) /\ j[n] \in 0..(W - 1)
    BY <1>2, BodyLanes
  <2>3. \A r \in 0..(H - 1), c \in 0..(W - 1) :
            <<r, c>> \in coded <=> r < Top \/ Passed(I, J, W, r - Top, c)
    BY <1>2, <2>2 DEF Inv, BodyPart
  <2> HIDE DEF I, J
  <2>4. i[k] \in 0..(Height - 1) /\ i[k] + Top \in 0..(H - 1) /\ (i[k] + Top) - Top = i[k] /\ ~(i[k] + Top < Top)
    BY <2>2 DEF Active
  <2>5. ~Passed(I, J, W, i[k], j[k])
    <3>1. I \in Int /\ k \in 0..(L - 1) /\ i[k] = RowAt(I, J, k) /\ j[k] = ColAt(I, J, W, k)
      BY <2>2
    <3>2. ~Passed(I, J, W, RowAt(I, J, k), ColAt(I, J, W, k))
      BY <2>2, <3>1, LanePasses
    <3> QED
      BY <3>1, <3>2
  <2>6. Position(k) \notin coded
    BY <2>2, <2>3, <2>4, <2>5 DEF Position
  <2>7. ASSUME NEW n \in Lanes, n # k PROVE i[n] # i[k]
    <3>1. /\ n \in 0..(L - 1) /\ k \in 0..(L - 1)
          /\ i[n] = RowAt(I, J, n) /\ i[k] = RowAt(I, J, k)
      BY <2>2
    <3> QED
      BY <2>1, <2>2, <2>7, <3>1 DEF RowAt, Behind
  <2>8. ASSUME NEW n \in Lanes, n # k PROVE Position(n) # Position(k)
    <3>1. i[n] # i[k]
      BY <2>7, <2>8
    <3>2. i[n] \in Int /\ i[k] \in Int /\ Top \in Int
      BY <2>2
    <3>3. i[n] + Top # i[k] + Top
      BY <3>1, <3>2
    <3> QED
      BY <3>3 DEF Position
  <2> QED
    BY <2>6, <2>8
<1> QED
  BY <1>1, <1>2 DEF Inv, TypeOK

LEMMA SomeLaneActiveNext == (Inv /\ phase # "over" => SomePixelLeft)'
BY SomeLaneActive, PTL

LEMMA CodeStep ==
    ASSUME Inv, Inv', phase # "over", shape' = shape, CodePixels({m \in Lanes : Active(m)})
    PROVE  Scan!Code
<1>0. coded' = coded \cup {Position(k) : k \in {m \in Lanes : Active(m)}}
  BY DEF CodePixels
<1>1. H' = H /\ W' = W /\ Scan!Image = (0..(H - 1)) \X (0..(W - 1))
  BY DEF Scan!Image, H, W
<1>2. coded \subseteq coded' /\ coded' \subseteq Scan!Image
  BY <1>0, <1>1 DEF Inv, TypeOK
<1>3. coded' # coded
  <2>1. PICK k \in Lanes : Active(k) /\ Position(k) \notin coded
    BY SomeLaneActive DEF SomePixelLeft
  <2> QED
    BY <1>0, <2>1
<1>4. ASSUME NEW p \in coded' \ coded
      PROVE  Scan!Causal(p[1], p[2]) \subseteq coded
  <2>1. PICK k \in Lanes : Active(k) /\ p = Position(k)
    BY <1>0
  <2>2. p[1] = i[k] + Top /\ p[2] = j[k]
    BY <2>1 DEF Position
  <2>3. Scan!Causal(i[k] + Top, j[k]) \subseteq coded
    BY <2>1, CausalCoded
  <2> QED
    BY <2>2, <2>3
<1>4a. recoded' = recoded
  <2>1. ASSUME NEW m \in Lanes, Active(m)
        PROVE  /\ Position(m) \notin coded
               /\ \A n \in Lanes \ {m} : Position(n) # Position(m)
    BY <2>1, EachLaneItsPixel
  <2> QED
    BY <2>1 DEF CodePixels
<1>5. CASE phase' = "over"
  <2>1. coded' = Scan!Image
    BY <1>1, <1>5 DEF Inv, OverPart
  <2> QED
    BY <1>2, <1>3, <1>4, <1>4a, <1>5, <2>1 DEF Scan!Code
<1>6. CASE phase' # "over"
  <2>1. SomePixelLeft'
    BY <1>6, SomeLaneActiveNext
  <2>2. coded' # Scan!Image
    BY <1>1, <2>1 DEF SomePixelLeft
  <2> QED
    BY <1>2, <1>3, <1>4, <1>4a, <1>6, <2>2 DEF Scan!Code
<1> QED
  BY <1>5, <1>6

LEMMA ScanStep == Inv /\ Inv' /\ [Next]_vars => [Scan!Code]_(Scan!csVars)
<1> SUFFICES ASSUME Inv, Inv', [Next]_vars PROVE [Scan!Code]_(Scan!csVars)
  OBVIOUS
<1>1. CASE BannerCode
  <2>1. /\ phase = "banner" /\ shape' = shape /\ CodePixels({0})
    BY <1>1 DEF BannerCode
  <2>2. {m \in Lanes : Active(m)} = {0}
    <3>1. Lanes = {0} /\ Height = BannerHeight /\ i[0] \in 0..(BannerHeight - 1)
      BY <2>1 DEF Inv, BannerPart, Lanes, Height
    <3>2. BannerHeight \in Nat
      BY Divided DEF Inv, TypeOK
    <3> QED
      BY <3>1, <3>2 DEF Active
  <2>3. CodePixels({m \in Lanes : Active(m)})
    BY <2>1, <2>2
  <2> QED
    BY <2>1, <2>3, CodeStep
<1>2. CASE BodyCode
  BY <1>2, CodeStep DEF BodyCode
<1>3. CASE BannerTemplates \/ BodyTemplates \/ UNCHANGED vars
  BY <1>3 DEF BannerTemplates, BodyTemplates, vars, Scan!csVars
<1> QED
  BY <1>1, <1>2, <1>3 DEF Next

\* For every image and number of lanes the loops code each pixel after the
\* pixels it is predicted from, none of them a second time, and stop with the
\* last one.
THEOREM Refinement == Spec => ScanIsCausal
<1>1. Init => Scan!CSInit
  BY DEF Init, Scan!CSInit
<1>2. Inv /\ Inv' /\ [Next]_vars => [Scan!Code]_(Scan!csVars)
  BY ScanStep
<1> QED
  BY <1>1, <1>2, Invariance, PTL DEF Spec, SafeSpec, ScanIsCausal, Scan!CSSpec

-----------------------------------------------------------------------------
(* All loops see the same neighbours: the registers of a lane are those of *)
(* the pixel it coded in the step before.                                  *)

PrevRow(k) == IF j[k] > 0 THEN i[k] ELSE i[k] - L
PrevCol(k) == IF j[k] > 0 THEN j[k] - 1 ELSE W - 1

BannerRegisters ==
    phase = "banner" /\ step = "templates" /\ j[0] > 0 =>
        /\ x[0] = <<i[0], j[0] - 1>>
        /\ i[0] >= 2 => t[0] = Neighbours(i[0], j[0] - 1)

BodyRegisters ==
    phase = "body" /\ step = "templates" =>
        \A k \in Lanes : PrevRow(k) >= 0 /\ PrevRow(k) < Height =>
            /\ x[k] = <<PrevRow(k) + Top, PrevCol(k)>>
            /\ t[k] = Neighbours(PrevRow(k) + Top, PrevCol(k))

RegInv == SameNeighbours /\ BannerRegisters /\ BodyRegisters

\* The lane above has just coded the pixel up right.
LEMMA UpperLane ==
    ASSUME Inv, phase = "body", NEW k \in Lanes, k < L - 1, Active(k), j[k] < W - 1
    PROVE  /\ k + 1 \in Lanes
           /\ PrevRow(k + 1) = i[k] - 1 /\ PrevCol(k + 1) = j[k] + 1
           /\ PrevRow(k + 1) >= 0 /\ PrevRow(k + 1) < Height
<1> DEFINE I == i[L - 1]
           J == j[L - 1]
<1>1. L \in Nat /\ L >= 2
  BY LanesAssumption
<1>2. /\ Lanes = 0..(L - 1) /\ W \in Nat /\ W >= 2 * L /\ I \in Nat /\ J \in 0..(W - 1)
      /\ H \in Nat /\ Height = H - Top /\ Top \in 2..H
      /\ \A n \in Lanes : i[n] = RowAt(I, J, n) /\ j[n] = ColAt(I, J, W, n)
  BY BodyLanes
<1>3. PICK m \in Nat : I = L * m
  BY DEF Inv, BodyPart
<1>4. I = 0 \/ I >= L
  <2>1. CASE m = 0
    BY <1>1, <1>3, <2>1
  <2>2. CASE m >= 1
    <3>1. L * 1 <= L * m
      BY <1>1, <2>2
    <3> QED
      BY <1>1, <1>3, <3>1
  <2> QED
    BY <2>1, <2>2
<1> HIDE DEF I, J
<1>5. k + 1 \in Lanes
  BY <1>1, <1>2
<1>6. /\ i[k] = RowAt(I, J, k) /\ j[k] = ColAt(I, J, W, k)
      /\ i[k + 1] = RowAt(I, J, k + 1) /\ j[k + 1] = ColAt(I, J, W, k + 1)
  BY <1>2, <1>5
<1>7. k \in 0..(L - 1) /\ i[k] >= 0 /\ i[k] < Height
  <2>1. i[k] \in Int
    BY BodyLanes
  <2> QED
    BY <1>2, <2>1 DEF Active
<1>8. PrevRow(k + 1) = i[k] - 1 /\ PrevCol(k + 1) = j[k] + 1
  BY <1>1, <1>2, <1>6, <1>7 DEF PrevRow, PrevCol, RowAt, ColAt, Behind
<1>9. i[k] >= 1
  BY <1>1, <1>2, <1>4, <1>6, <1>7 DEF RowAt, ColAt, Behind
<1>10. i[k] \in Int
  BY BodyLanes
<1> QED
  BY <1>2, <1>5, <1>7, <1>8, <1>9, <1>10

LeftLeft(r, c) == IF c > 1 THEN <<r, c - 2>> ELSE <<r - 1, 0>>

\* The registers of a pixel that is not the first of its row.
Pattern(r, c, d, g) ==
    [a |-> <<r, c - 1>>, b |-> <<r - 1, c>>, c |-> <<r - 1, c - 1>>, d |-> d,
     e |-> LeftLeft(r, c), f |-> <<r - 2, c>>, g |-> g]

LEMMA NeighboursInside ==
    ASSUME NEW r \in Int, NEW c \in Int, c > 0
    PROVE  /\ c + 1 < W => Neighbours(r, c) = Pattern(r, c, <<r - 1, c + 1>>, <<r - 2, c + 1>>)
           /\ ~(c + 1 < W) => Neighbours(r, c) = Pattern(r, c, <<r - 1, c>>, <<r - 2, c>>)
BY Zenon DEF Neighbours, Pattern, LeftLeft

LEMMA NeighboursFirst ==
    ASSUME NEW r \in Int, 1 < W
    PROVE  Neighbours(r, 0) = [a |-> <<r - 1, 0>>, b |-> <<r - 1, 0>>, c |-> <<r - 1, 0>>,
                               d |-> <<r - 1, 1>>, e |-> <<r - 1, 0>>, f |-> <<r - 2, 0>>,
                               g |-> <<r - 2, 1>>]
<1>1. ~(0 > 0) /\ ~(0 > 1) /\ 0 + 1 = 1
  OBVIOUS
<1> QED
  BY <1>1 DEF Neighbours

\* What is left of them when the next pixel is reached.
LEMMA NeighboursBefore ==
    ASSUME NEW r \in Int, NEW c \in Int, c > 0, c < W, W \in Nat
    PROVE  LET n == Neighbours(r, c - 1)
           IN  /\ n.a = LeftLeft(r, c) /\ n.b = <<r - 1, c - 1>>
               /\ n.d = <<r - 1, c>> /\ n.g = <<r - 2, c>>
<1>1. (c - 1) + 1 = c /\ (c - 1) + 1 < W
  OBVIOUS
<1>2. (c - 1 > 0 <=> c > 1) /\ (c - 1) - 1 = c - 2
  OBVIOUS
<1>3. /\ Neighbours(r, c - 1).a = IF c - 1 > 0 THEN <<r, (c - 1) - 1>> ELSE <<r - 1, 0>>
      /\ Neighbours(r, c - 1).b = <<r - 1, c - 1>>
      /\ Neighbours(r, c - 1).d = <<r - 1, IF (c - 1) + 1 < W THEN (c - 1) + 1 ELSE c - 1>>
      /\ Neighbours(r, c - 1).g = <<r - 2, IF (c - 1) + 1 < W THEN (c - 1) + 1 ELSE c - 1>>
  BY DEF Neighbours
<1>4. Neighbours(r, c - 1).d = <<r - 1, c>> /\ Neighbours(r, c - 1).g = <<r - 2, c>>
  BY <1>1, <1>3
<1>5. Neighbours(r, c - 1).a = LeftLeft(r, c)
  BY <1>2, <1>3 DEF LeftLeft
<1> QED
  BY <1>3, <1>4, <1>5

LEMMA ShiftedPattern ==
    ASSUME NEW k, NEW r \in Int, NEW c \in Int, c > 0, c < W, W \in Nat,
           x[k] = <<r, c - 1>>, t[k] = Neighbours(r, c - 1)
    PROVE  Shifted(k) = Pattern(r, c, <<r - 1, c>>, <<r - 2, c>>)
<1>1. /\ t[k].a = LeftLeft(r, c) /\ t[k].b = <<r - 1, c - 1>>
      /\ t[k].d = <<r - 1, c>> /\ t[k].g = <<r - 2, c>>
  BY NeighboursBefore
<1> QED
  BY <1>1 DEF Shifted, Move, Pattern

LEMMA PatternRight ==
    ASSUME NEW r, NEW c, NEW d, NEW g, NEW d2, NEW g2
    PROVE  UpRight(Pattern(r, c, d, g), d2, g2) = Pattern(r, c, d2, g2)
BY DEF Pattern, UpRight

LEMMA TemplatesLaneSame ==
    ASSUME Inv, RegInv, phase = "body", step = "templates", NEW k \in Lanes, Active(k)
    PROVE  TemplatesLane(k) = Neighbours(i[k] + Top, j[k])
<1> DEFINE r == i[k] + Top
           c == j[k]
<1>1. L \in Nat /\ L >= 2
  BY LanesAssumption
<1>2. /\ Lanes = 0..(L - 1) /\ W \in Nat /\ W >= 2 * L /\ H \in Nat
      /\ Top \in 2..H /\ Height = H - Top /\ i[k] \in Int /\ j[k] \in 0..(W - 1)
  BY BodyLanes
<1>3. i[k] >= 0 /\ i[k] < Height /\ r \in 2..(H - 1) /\ c \in 0..(W - 1)
  BY <1>2 DEF Active
<1>4. ASSUME NEW u \in 1..2, NEW v \in 0..(W - 1), v <= c + 1
      PROVE  Load(i[k] - u, v) = <<r - u, v>>
  <2>1. i[k] >= 0 /\ i[k] < Height /\ v <= j[k] + 1
    BY <1>3, <1>4
  <2> HIDE DEF r, c
  <2>2. Load(i[k] - u, v) = <<i[k] + Top - u, v>>
    BY <2>1, LoadNeighbour
  <2>3. i[k] + Top - u = r - u
    BY <1>2 DEF r
  <2> QED
    BY <2>2, <2>3
<1>5. r \in Int /\ c \in Int /\ W \in Nat /\ c < W /\ c >= 0 /\ 1 < W
  BY <1>1, <1>2, <1>3
<1>6. c = j[k] /\ r = i[k] + Top
  OBVIOUS
<1> HIDE DEF r, c
<1>7. c + 1 < W => Load(i[k] - 1, c + 1) = <<r - 1, c + 1>> /\ Load(i[k] - 2, c + 1) = <<r - 2, c + 1>>
  <2>1. c + 1 < W => c + 1 \in 0..(W - 1) /\ c + 1 <= c + 1
    BY <1>5
  <2> QED
    BY <1>4, <2>1
<1>8. CASE c = 0
  <2> DEFINE k0 == CHOOSE m \in Lanes : j[m] = 0 /\ \A n \in Lanes : j[n] = 0 => m <= n
             Above(u, v) == IF i[k0] < Height THEN Load(i[k0] - u, v) ELSE Mid
  <2>1. k0 = k
    <3>1. \A n \in Lanes : j[n] = 0 => n = k
      BY <1>6, <1>8, OneLineStart
    <3>2. j[k] = 0 /\ \A n \in Lanes : j[n] = 0 => k <= n
      BY <1>1, <1>2, <1>6, <1>8, <3>1
    <3> QED
      BY <3>1, <3>2
  <2> HIDE DEF k0
  <2>2. ASSUME NEW u \in 1..2, NEW v \in 0..1 PROVE Above(u, v) = <<r - u, v>>
    <3>1. v \in 0..(W - 1) /\ v <= c + 1
      BY <1>5, <1>8
    <3> QED
      BY <1>3, <1>4, <2>1, <3>1
  <2>3. LineStart(k) = [a |-> Above(1, 0), b |-> Above(1, 0), c |-> Above(1, 0), e |-> Above(1, 0),
                        d |-> Above(1, 1), f |-> Above(2, 0), g |-> Above(2, 1)]
    BY <1>6, <1>8 DEF LineStart, k0
  <2>4. /\ Above(1, 0) = <<r - 1, 0>> /\ Above(1, 1) = <<r - 1, 1>>
        /\ Above(2, 0) = <<r - 2, 0>> /\ Above(2, 1) = <<r - 2, 1>>
    <3> HIDE DEF Above
    <3> QED
      BY <2>2
  <2> HIDE DEF Above
  <2>5. LineStart(k) = [a |-> <<r - 1, 0>>, b |-> <<r - 1, 0>>, c |-> <<r - 1, 0>>,
                        d |-> <<r - 1, 1>>, e |-> <<r - 1, 0>>, f |-> <<r - 2, 0>>,
                        g |-> <<r - 2, 1>>]
    BY <2>3, <2>4
  <2>6. Load(i[k] - 1, j[k] + 1) = <<r - 1, 1>> /\ Load(i[k] - 2, j[k] + 1) = <<r - 2, 1>>
    BY <1>5, <1>6, <1>7, <1>8
  <2>7. UpRight(LineStart(k), <<r - 1, 1>>, <<r - 2, 1>>) = LineStart(k)
    BY <2>5 DEF UpRight
  <2>8. TemplatesLane(k) = LineStart(k)
    BY <2>6, <2>7 DEF TemplatesLane
  <2> QED
    BY <1>5, <1>6, <1>8, <2>5, <2>8, NeighboursFirst
<1>9. CASE c > 0
  <2>1. PrevRow(k) = i[k] /\ PrevCol(k) = c - 1
    BY <1>6, <1>9 DEF PrevRow, PrevCol
  <2>2. x[k] = <<r, c - 1>> /\ t[k] = Neighbours(r, c - 1)
    BY <1>3, <1>6, <2>1 DEF RegInv, BodyRegisters
  <2>3. Shifted(k) = Pattern(r, c, <<r - 1, c>>, <<r - 2, c>>)
    BY <1>5, <1>9, <2>2, ShiftedPattern
  <2>4. LineStart(k) = Ringed(k)
    BY <1>6, <1>9 DEF LineStart
  <2>5. CASE ~(c + 1 < W)
    <3>1. ~(j[k] < W - 1)
      BY <1>5, <1>6, <2>5
    <3>2. TemplatesLane(k) = Shifted(k)
      BY <2>4, <3>1 DEF TemplatesLane, Ringed
    <3> QED
      BY <1>5, <1>6, <1>9, <2>3, <2>5, <3>2, NeighboursInside
  <2>6. CASE c + 1 < W
    <3>1. Neighbours(r, c) = Pattern(r, c, <<r - 1, c + 1>>, <<r - 2, c + 1>>)
      BY <1>5, <1>9, <2>6, NeighboursInside
    <3>2. j[k] < W - 1
      BY <1>5, <1>6, <2>6
    <3>3. ASSUME TemplatesLane(k) = UpRight(Shifted(k), <<r - 1, c + 1>>, <<r - 2, c + 1>>)
          PROVE  TemplatesLane(k) = Neighbours(r, c)
      BY <2>3, <3>1, <3>3, PatternRight
    <3>4. CASE k = L - 1
      <4>1. Ringed(k) = Shifted(k)
        BY <1>1, <3>4 DEF Ringed
      <4>2. TemplatesLane(k) = UpRight(Shifted(k), Load(i[k] - 1, j[k] + 1), Load(i[k] - 2, j[k] + 1))
        BY <1>3, <2>4, <3>2, <3>4, <4>1 DEF TemplatesLane
      <4> QED
        BY <1>6, <1>7, <2>6, <3>3, <4>2
    <3>5. CASE k < L - 1
      <4>1. /\ k + 1 \in Lanes /\ PrevRow(k + 1) = i[k] - 1 /\ PrevCol(k + 1) = j[k] + 1
            /\ PrevRow(k + 1) >= 0 /\ PrevRow(k + 1) < Height
        BY <3>2, <3>5, UpperLane
      <4>2. i[k] - 1 + Top = r - 1
        BY <1>2, <1>6
      <4>3. x[k + 1] = <<r - 1, c + 1>> /\ t[k + 1] = Neighbours(r - 1, c + 1)
        BY <1>6, <4>1, <4>2 DEF RegInv, BodyRegisters
      <4>4. Neighbours(r - 1, c + 1).b = <<r - 2, c + 1>>
        <5>1. r - 1 - 1 = r - 2
          BY <1>5
        <5> QED
          BY <5>1 DEF Neighbours
      <4>5. Shifted(k + 1).a = <<r - 1, c + 1>> /\ Shifted(k + 1).c = <<r - 2, c + 1>>
        BY <4>3, <4>4 DEF Shifted, Move
      <4>6. Ringed(k) = UpRight(Shifted(k), Shifted(k + 1).a, Shifted(k + 1).c)
        BY <3>2, <3>5 DEF Ringed
      <4>7. TemplatesLane(k) = Ringed(k)
        BY <1>1, <1>2, <2>4, <3>5 DEF TemplatesLane
      <4>8. TemplatesLane(k) = UpRight(Shifted(k), <<r - 1, c + 1>>, <<r - 2, c + 1>>)
        BY <4>5, <4>6, <4>7
      <4> QED
        BY <1>6, <3>3, <4>8
    <3> QED
      BY <1>1, <1>2, <1>6, <3>4, <3>5
  <2> QED
    BY <2>5, <2>6
<1> QED
  BY <1>5, <1>6, <1>8, <1>9

\* The 1-lane loop: the registers it loads and the ones it keeps.
LEMMA TemplatesOneSame ==
    ASSUME Inv, RegInv, phase = "banner", step = "templates", W > 1, i[0] >= 2
    PROVE  TemplatesOne(i[0], j[0], t[0], x[0]) = Neighbours(i[0], j[0])
<1> DEFINE r == i[0]
           c == j[0]
           moved == IF c = 0 THEN Enter(r, t[0]) ELSE Move(t[0], x[0])
           d == IF r < 1 THEN moved.a ELSE IF c + 1 < W THEN Load(r - 1, c + 1) ELSE moved.d
           g == IF r < 2 THEN d ELSE IF c + 1 < W THEN Load(r - 2, c + 1) ELSE moved.g
<1>1. H \in Nat \ {0} /\ W \in Nat /\ BannerHeight \in 1..H
  BY Divided DEF Inv, TypeOK
<1>2. /\ Top = 0 /\ r \in 0..(BannerHeight - 1) /\ c \in 0..(W - 1)
      /\ \A u \in 0..(H - 1), v \in 0..(W - 1) : u < r => <<u, v>> \in coded
  BY DEF Inv, BannerPart, Top
<1>3. TemplatesOne(r, c, t[0], x[0]) = UpRight(moved, d, g)
  BY DEF TemplatesOne
<1>4. c > 0 => x[0] = <<r, c - 1>> /\ t[0] = Neighbours(r, c - 1)
  BY DEF RegInv, BannerRegisters
<1> DEFINE goal == TemplatesOne(r, c, t[0], x[0]) = Neighbours(r, c)
<1> SUFFICES goal
  OBVIOUS
<1>5. c = 0 \/ c > 0
  BY <1>2
<1>6. r >= 2
  OBVIOUS
<1>7. moved = IF c = 0 THEN Enter(r, t[0]) ELSE Move(t[0], x[0])
  OBVIOUS
<1>8. d = (IF c + 1 < W THEN Load(r - 1, c + 1) ELSE moved.d)
  <2> HIDE DEF moved
  <2>1. ~(r < 1)
    BY <1>1, <1>2, <1>6
  <2> QED
    BY <2>1
<1>9. g = (IF c + 1 < W THEN Load(r - 2, c + 1) ELSE moved.g)
  <2> HIDE DEF moved, d
  <2>1. ~(r < 2)
    BY <1>1, <1>2, <1>6
  <2> QED
    BY <2>1
<1> HIDE DEF moved, d, g, r, c
<1>10. ASSUME NEW u \in 1..2, NEW v \in 0..(W - 1)
       PROVE  Load(r - u, v) = <<r - u, v>>
  <2>1. r - u \in 0..(H - 1) /\ r - u < r /\ (r - u) + Top = r - u
    BY <1>1, <1>2, <1>6
  <2>2. <<r - u, v>> \in coded
    BY <1>2, <2>1
  <2> QED
    BY <2>1, <2>2, LoadCoded
<1>11. c + 1 < W => Load(r - 1, c + 1) = <<r - 1, c + 1>> /\ Load(r - 2, c + 1) = <<r - 2, c + 1>>
  <2>1. c + 1 < W => c + 1 \in 0..(W - 1)
    BY <1>1, <1>2
  <2> QED
    BY <1>10, <2>1
<1>12. r \in Int /\ c \in Int /\ c < W
  BY <1>1, <1>2
<1>13. CASE c = 0
  <2>1. Load(r - 1, 0) = <<r - 1, 0>> /\ Load(r - 2, 0) = <<r - 2, 0>>
    BY <1>1, <1>10
  <2>2. r > 0 /\ r > 1 /\ c + 1 < W
    BY <1>6, <1>12, <1>13
  <2>3. moved = [a |-> <<r - 1, 0>>, b |-> <<r - 1, 0>>, c |-> <<r - 1, 0>>, d |-> t[0].d,
                 e |-> <<r - 1, 0>>, f |-> <<r - 2, 0>>, g |-> t[0].g]
    BY <1>7, <1>13, <2>1, <2>2 DEF Enter
  <2>4. d = <<r - 1, 1>> /\ g = <<r - 2, 1>>
    <3>1. c + 1 = 1
      BY <1>13
    <3> QED
      BY <1>8, <1>9, <1>11, <2>2, <3>1
  <2>5. UpRight(moved, d, g) = Neighbours(r, 0)
    BY <1>12, <1>13, <2>2, <2>3, <2>4, NeighboursFirst DEF UpRight
  <2> QED
    BY <1>3, <1>13, <2>5
<1>14. CASE c > 0
  <2>1. Move(t[0], x[0]) = Pattern(r, c, <<r - 1, c>>, <<r - 2, c>>)
    <3>1. Shifted(0) = Pattern(r, c, <<r - 1, c>>, <<r - 2, c>>)
      BY <1>1, <1>4, <1>12, <1>14, ShiftedPattern
    <3> QED
      BY <3>1 DEF Shifted
  <2>2. moved = Pattern(r, c, <<r - 1, c>>, <<r - 2, c>>)
    BY <1>7, <1>12, <1>14, <2>1
  <2>3. moved.d = <<r - 1, c>> /\ moved.g = <<r - 2, c>>
    BY <2>2 DEF Pattern
  <2>4. UpRight(moved, d, g) = Pattern(r, c, d, g)
    BY <2>2, PatternRight
  <2>5. CASE c + 1 < W
    <3>1. d = <<r - 1, c + 1>> /\ g = <<r - 2, c + 1>>
      BY <1>8, <1>9, <1>11, <2>5
    <3> QED
      BY <1>3, <1>12, <1>14, <2>4, <2>5, <3>1, NeighboursInside
  <2>6. CASE ~(c + 1 < W)
    <3>1. d = <<r - 1, c>> /\ g = <<r - 2, c>>
      BY <1>8, <1>9, <2>3, <2>6
    <3> QED
      BY <1>3, <1>12, <1>14, <2>4, <2>6, <3>1, NeighboursInside
  <2> QED
    BY <2>5, <2>6
<1> QED
  BY <1>5, <1>13, <1>14

LEMMA RegInit == Init => RegInv
BY DEF Init, RegInv, SameNeighbours, BannerRegisters, BodyRegisters

LEMMA RegTemplates ==
    Inv /\ RegInv /\ (BannerTemplates \/ BodyTemplates) => RegInv'
<1> SUFFICES ASSUME Inv, RegInv, BannerTemplates \/ BodyTemplates PROVE RegInv'
  OBVIOUS
<1>1. /\ step = "templates" /\ step' = "code" /\ phase' = phase /\ phase # "over"
      /\ shape' = shape /\ i' = i /\ j' = j
  BY DEF BannerTemplates, BodyTemplates
<1>2. BannerRegisters' /\ BodyRegisters'
  BY <1>1 DEF BannerRegisters, BodyRegisters
<1>3. ASSUME W > 1, NEW k \in Lanes, Active(k), i[k] + Top >= 2
      PROVE  t'[k] = Neighbours(i[k] + Top, j[k])
  <2>1. CASE BannerTemplates
    <3>1. /\ phase = "banner" /\ k = 0 /\ Top = 0
          /\ t' = [n \in {0} |-> TemplatesOne(i[0], j[0], t[0], x[0])]
      BY <2>1 DEF BannerTemplates, Lanes, Top
    <3>2. i[0] \in Int /\ i[0] + Top = i[0]
      BY <3>1, Divided DEF Inv, TypeOK, BannerPart
    <3> QED
      BY <1>1, <1>3, <3>1, <3>2, TemplatesOneSame
  <2>2. CASE BodyTemplates
    BY <1>1, <1>3, <2>2, TemplatesLaneSame DEF BodyTemplates
  <2> QED
    BY <2>1, <2>2
<1>4. /\ W' = W /\ Lanes' = Lanes /\ Top' = Top /\ Height' = Height
      /\ \A k \in Lanes : Active(k)' = Active(k)
      /\ \A r, c : Neighbours(r, c)' = Neighbours(r, c)
  BY <1>1 DEF W, H, Lanes, Top, Height, BannerHeight, BodyHeight, IsLarge, SizeLarge, Active, Neighbours
<1>5. SameNeighbours'
  BY <1>1, <1>3, <1>4 DEF SameNeighbours
<1> QED
  BY <1>2, <1>5 DEF RegInv

LEMMA RegBannerCode == Inv /\ RegInv /\ BannerCode => RegInv'
<1> SUFFICES ASSUME Inv, RegInv, BannerCode PROVE RegInv'
  OBVIOUS
<1> DEFINE row == IF j[0] + 1 >= W THEN i[0] + 1 ELSE i[0]
<1>1. /\ phase = "banner" /\ step = "code" /\ step' = "templates" /\ shape' = shape
  BY DEF BannerCode
<1>2. L \in Nat /\ L >= 2
  BY LanesAssumption
<1>3. /\ H \in Nat /\ W \in Nat \ {0} /\ BannerHeight \in 1..H /\ BodyHeight = H - BannerHeight
  BY Divided DEF Inv, TypeOK
<1>4. /\ i[0] \in 0..(BannerHeight - 1) /\ j[0] \in 0..(W - 1) /\ DOMAIN i = {0}
      /\ Top = 0 /\ Height = BannerHeight /\ Lanes = {0}
  BY <1>1 DEF Inv, BannerPart, Top, Height, Lanes
<1>5. SameNeighbours'
  BY <1>1 DEF SameNeighbours
<1>6. \/ /\ i' = [k \in {0} |-> row]
         /\ j' = [k \in {0} |-> IF j[0] + 1 >= W THEN 0 ELSE j[0] + 1]
         /\ x' = [k \in {0} |-> Position(0)]
         /\ UNCHANGED <<phase, t>>
      \/ StartBody
      \/ phase' = "over"
  BY DEF BannerCode
<1>7. CASE /\ i' = [k \in {0} |-> row]
           /\ j' = [k \in {0} |-> IF j[0] + 1 >= W THEN 0 ELSE j[0] + 1]
           /\ x' = [k \in {0} |-> Position(0)]
           /\ UNCHANGED <<phase, t>>
  <2>1. BodyRegisters'
    BY <1>1, <1>7 DEF BodyRegisters
  <2>2. BannerRegisters'
    <3> SUFFICES ASSUME j'[0] > 0
                 PROVE  /\ x'[0] = <<i'[0], j'[0] - 1>>
                        /\ i'[0] >= 2 => t'[0] = Neighbours(i[0], j[0] - 1)'
      BY DEF BannerRegisters
    <3>1. j[0] + 1 < W /\ j'[0] = j[0] + 1 /\ i'[0] = i[0] /\ x'[0] = Position(0) /\ t' = t
      BY <1>3, <1>4, <1>7
    <3>2. Position(0) = <<i[0], j[0]>> /\ j'[0] - 1 = j[0] /\ i[0] + Top = i[0]
      BY <1>4, <3>1 DEF Position
    <3>3. Neighbours(i[0], j[0] - 1)' = Neighbours(i'[0], j'[0] - 1)
      BY <1>1 DEF Neighbours, W
    <3>4. i[0] >= 2 => t[0] = Neighbours(i[0], j[0])
      <4>1. Active(0) /\ W > 1
        BY <1>3, <1>4, <3>1 DEF Active
      <4>2. i[0] >= 2 => t[0] = Neighbours(i[0] + Top, j[0])
        BY <1>1, <1>4, <3>2, <4>1 DEF RegInv, SameNeighbours
      <4> QED
        BY <3>2, <4>2
    <3> QED
      BY <3>1, <3>2, <3>3, <3>4
  <2> QED
    BY <1>5, <2>1, <2>2 DEF RegInv
<1>8. CASE StartBody
  <2>1. BannerRegisters'
    BY <1>8 DEF StartBody, BannerRegisters
  <2>2. BodyRegisters'
    <3>1. /\ i' = [k \in 0..(L - 1) |-> LaneRow(k)] /\ j' = [k \in 0..(L - 1) |-> LaneColumn(k)]
          /\ phase' = "body"
      BY <1>8 DEF StartBody
    <3>2. ASSUME NEW k \in Lanes'
          PROVE  PrevRow(k)' < 0
      <4>1. k \in 0..(L - 1)
        BY <3>1 DEF Lanes
      <4>2. i'[k] = LaneRow(k) /\ j'[k] = LaneColumn(k)
        BY <3>1, <4>1
      <4>3. PrevRow(k)' = IF j'[k] > 0 THEN i'[k] ELSE i'[k] - L
        BY DEF PrevRow
      <4> QED
        BY <1>2, <4>1, <4>2, <4>3 DEF LaneRow, LaneColumn
    <3>3. ASSUME NEW k \in Lanes', PrevRow(k)' >= 0, PrevRow(k)' < Height' PROVE FALSE
      <4>1. PrevRow(k)' < 0 /\ PrevRow(k)' \in Int
        <5>1. k \in 0..(L - 1) /\ i'[k] = LaneRow(k)
          BY <3>1 DEF Lanes
        <5>2. PrevRow(k)' = IF j'[k] > 0 THEN i'[k] ELSE i'[k] - L
          BY DEF PrevRow
        <5>3. PrevRow(k)' \in Int
          BY <1>2, <5>1, <5>2 DEF LaneRow
        <5> QED
          BY <3>2, <5>3
      <4> QED
        BY <3>3, <4>1
    <3> QED
      BY <3>3 DEF BodyRegisters
  <2> QED
    BY <1>5, <2>1, <2>2 DEF RegInv
<1>9. CASE phase' = "over"
  BY <1>5, <1>9 DEF RegInv, BannerRegisters, BodyRegisters
<1> QED
  BY <1>6, <1>7, <1>8, <1>9

LEMMA RegBodyCode == Inv /\ RegInv /\ BodyCode => RegInv'
<1> SUFFICES ASSUME Inv, RegInv, BodyCode PROVE RegInv'
  OBVIOUS
<1>1. /\ phase = "body" /\ step = "code" /\ step' = "templates" /\ shape' = shape /\ t' = t
      /\ x' = [k \in Lanes |-> IF Active(k) THEN Position(k) ELSE Mid]
      /\ j' = [k \in Lanes |-> IF Wraps(k) THEN 0 ELSE j[k] + 1]
      /\ i' = [k \in Lanes |-> NextRow(k)]
      /\ phase' \in {"body", "over"}
  BY DEF BodyCode
<1>2. L \in Nat /\ L >= 2
  BY LanesAssumption
<1>3. SameNeighbours' /\ BannerRegisters'
  BY <1>1 DEF SameNeighbours, BannerRegisters
<1>4. BodyRegisters'
  <2> SUFFICES ASSUME phase' = "body", NEW k \in Lanes', PrevRow(k)' >= 0, PrevRow(k)' < Height'
               PROVE  /\ x'[k] = <<PrevRow(k)' + Top', PrevCol(k)'>>
                      /\ t'[k] = Neighbours(PrevRow(k) + Top, PrevCol(k))'
    BY DEF BodyRegisters
  <2>1. /\ W' = W /\ H' = H /\ Lanes' = Lanes /\ Top' = Top /\ Height' = Height
        /\ \A r, c : Neighbours(r, c)' = Neighbours(r, c)
    BY <1>1 DEF W, H, Lanes, Top, Height, BannerHeight, BodyHeight, IsLarge, SizeLarge, Neighbours
  <2>2. k \in Lanes /\ i[k] \in Int /\ j[k] \in 0..(W - 1) /\ W \in Nat /\ W > 1 /\ Top \in Nat /\ Top >= 2
    BY <1>1, <1>2, <2>1, BodyLanes
  <2>3. /\ j'[k] = (IF j[k] + 1 = W THEN 0 ELSE j[k] + 1)
        /\ i'[k] = (IF j[k] + 1 = W THEN i[k] + L ELSE i[k])
        /\ x'[k] = (IF Active(k) THEN Position(k) ELSE Mid)
    BY <1>1, <2>2 DEF Wraps, NextRow
  <2>4. PrevRow(k)' = i[k] /\ PrevCol(k)' = j[k]
    <3>1. /\ PrevRow(k)' = IF j'[k] > 0 THEN i'[k] ELSE i'[k] - L
          /\ PrevCol(k)' = IF j'[k] > 0 THEN j'[k] - 1 ELSE W - 1
      BY <2>1 DEF PrevRow, PrevCol
    <3> QED
      BY <1>2, <2>2, <2>3, <3>1
  <2>5. Active(k) /\ i[k] + Top >= 2
    BY <2>1, <2>2, <2>4 DEF Active
  <2>6. t[k] = Neighbours(i[k] + Top, j[k])
    BY <1>1, <2>2, <2>5 DEF RegInv, SameNeighbours
  <2>7. x'[k] = <<i[k] + Top, j[k]>>
    BY <2>3, <2>5 DEF Position
  <2>8. Neighbours(PrevRow(k) + Top, PrevCol(k))' = Neighbours(i[k] + Top, j[k])
    <3>1. Neighbours(PrevRow(k) + Top, PrevCol(k))' = Neighbours(PrevRow(k)' + Top', PrevCol(k)')
      BY <2>1 DEF Neighbours
    <3> QED
      BY <2>1, <2>4, <3>1
  <2> QED
    BY <1>1, <2>1, <2>4, <2>6, <2>7, <2>8
<1> QED
  BY <1>3, <1>4 DEF RegInv

LEMMA RegStep == Inv /\ RegInv /\ [Next]_vars => RegInv'
<1> SUFFICES ASSUME Inv, RegInv, [Next]_vars PROVE RegInv'
  OBVIOUS
<1>1. CASE BannerTemplates \/ BodyTemplates
  BY <1>1, RegTemplates
<1>2. CASE BannerCode
  BY <1>2, RegBannerCode
<1>3. CASE BodyCode
  BY <1>3, RegBodyCode
<1>4. CASE UNCHANGED vars
  <2>1. UNCHANGED <<phase, step, i, j, x, t, shape>>
    BY <1>4 DEF vars
  <2>2. /\ W' = W /\ Lanes' = Lanes /\ Top' = Top /\ Height' = Height
        /\ \A r, c : Neighbours(r, c)' = Neighbours(r, c)
    BY <2>1 DEF W, H, Lanes, Top, Height, BannerHeight, BodyHeight, IsLarge, SizeLarge, Neighbours
  <2>3. \A k \in Lanes : /\ Active(k)' = Active(k) /\ PrevRow(k)' = PrevRow(k) /\ PrevCol(k)' = PrevCol(k)
                         /\ Neighbours(i[k] + Top, j[k])' = Neighbours(i[k] + Top, j[k])
                         /\ Neighbours(PrevRow(k) + Top, PrevCol(k))' = Neighbours(PrevRow(k) + Top, PrevCol(k))
    BY <2>1, <2>2 DEF Active, PrevRow, PrevCol, Neighbours
  <2>4. SameNeighbours'
    BY <2>1, <2>2, <2>3 DEF RegInv, SameNeighbours
  <2>5. BannerRegisters'
    BY <2>1, <2>2 DEF RegInv, BannerRegisters
  <2>6. BodyRegisters'
    BY <2>1, <2>2, <2>3 DEF RegInv, BodyRegisters
  <2> QED BY <2>4, <2>5, <2>6 DEF RegInv
<1> QED
  BY <1>1, <1>2, <1>3, <1>4 DEF Next

\* A pixel is predicted from the same neighbours whichever loop codes it, in
\* the encoder and in the decoder: with any number of lanes the format is that
\* of the raster order.
THEOREM AlwaysSameNeighbours == Spec => []SameNeighbours
<1>1. Init => RegInv
  BY RegInit
<1>2. Inv /\ RegInv /\ [Next]_vars => RegInv'
  BY RegStep
<1>3. RegInv => SameNeighbours
  BY DEF RegInv
<1> QED
  BY <1>1, <1>2, <1>3, Invariance, PTL DEF Spec, SafeSpec
=============================================================================
