----------------------------- MODULE PixelProofs -----------------------------
(***************************************************************************)
(* The steps between a pixel and its symbols, of NBLI and of fNBLI, undone *)
(* by the decoder: for every depth of the levels, every prediction and     *)
(* every state of the contexts; then whole coding loops of fNBLI and whole *)
(* images of NBLI.                                                         *)
(***************************************************************************)
EXTENDS MCAlgorithms, FiniteSetTheorems, SequenceTheorems, WellFoundedInduction, TLAPS

-----------------------------------------------------------------------------
(* Arithmetic.                                                             *)

\* A quarter rounded down.
LEMMA Quarter ==
    ASSUME NEW num \in Int
    PROVE  /\ num \div 4 \in Int
           /\ 4 * (num \div 4) <= num /\ num <= 4 * (num \div 4) + 3
BY SMT

\* Any quotient rounded down.
LEMMA Quotient ==
    ASSUME NEW num \in Nat, NEW m \in Nat \ {0}
    PROVE  /\ num \div m \in Nat
           /\ m * (num \div m) \in Nat
           /\ m * (num \div m) <= num /\ num <= m * (num \div m) + m - 1
BY SMT

\* A product grows with its factor.
LEMMA Product ==
    ASSUME NEW a \in Nat, NEW b \in Nat, NEW c \in Nat, a <= b
    PROVE  c * a <= c * b /\ c * a \in Nat /\ c * b \in Nat
BY SMT

\* A quotient is at most another one when the dividend is.
LEMMA QuotientGrows ==
    ASSUME NEW a \in Nat, NEW b \in Nat, NEW m \in Nat \ {0}, a <= b
    PROVE  a \div m <= b \div m
<1> DEFINE q == a \div m
           p == b \div m
<1>1. q \in Nat /\ m * q \in Nat /\ m * q <= a
  BY Quotient
<1>2. p \in Nat /\ m * p \in Nat /\ b <= m * p + m - 1
  BY Quotient
<1> HIDE DEF q, p
<1>3. CASE p < q
  <2>1. m * (p + 1) <= m * q /\ m * (p + 1) = m * p + m
    BY <1>1, <1>2, <1>3, Product
  <2> QED
    BY <1>1, <1>2, <2>1
<1> QED
  BY <1>1, <1>2, <1>3 DEF q, p

\* clip(): what is inside stays.
LEMMA ClipStays ==
    ASSUME NEW x \in Int, NEW low \in Int, NEW high \in Int, low <= high
    PROVE  /\ Clip(x, low, high) \in low..high
           /\ x \in low..high => Clip(x, low, high) = x
BY DEF Clip

-----------------------------------------------------------------------------
(* Colours.                                                                *)

\* Colours.
Levels3 == [1..3 -> 0..MaxY]

\* to_YUV, to_RGB: every colour has its place in the planes, and comes back.
THEOREM ColoursReturn ==
    \A p \in Levels3 :
       /\ ToYUV(p).Y \in 0..MaxY /\ ToYUV(p).U \in 0..MaxUV /\ ToYUV(p).V \in 0..MaxUV
       /\ ToRGB(ToYUV(p)) = p
<1> SUFFICES ASSUME NEW p \in Levels3
             PROVE  /\ ToYUV(p).Y \in 0..MaxY /\ ToYUV(p).U \in 0..MaxUV /\ ToYUV(p).V \in 0..MaxUV
                    /\ ToRGB(ToYUV(p)) = p
  OBVIOUS
<1> DEFINE u == p[1] - p[2]
           v == p[3] - p[2]
           s == (u + v + 2) \div 4
           t == u \div 4
<1>1. /\ MaxY \in Nat /\ p[1] \in 0..MaxY /\ p[2] \in 0..MaxY /\ p[3] \in 0..MaxY
      /\ p = <<p[1], p[2], p[3]>>
  BY MaxYAssumption DEF Levels3
<1>2. u \in Int /\ v \in Int /\ u + v + 2 \in Int
  BY <1>1
<1>3. /\ s \in Int /\ 4 * s <= u + v + 2 /\ u + v + 2 <= 4 * s + 3
      /\ t \in Int /\ 4 * t <= u /\ u <= 4 * t + 3
  BY <1>2, Quarter
<1>4. ToYUV(p) = [Y |-> p[2] + s, U |-> u + MaxY, V |-> v - t + MaxY]
  BY DEF ToYUV
<1>5. /\ ToYUV(p).Y = p[2] + s /\ ToYUV(p).U = u + MaxY /\ ToYUV(p).V = v - t + MaxY
  BY <1>4
<1>6. /\ p[2] + s \in 0..MaxY /\ u + MaxY \in 0..MaxUV /\ v - t + MaxY \in 0..MaxUV
  <2> HIDE DEF s, t
  <2> QED
    BY <1>1, <1>3 DEF MaxUV
<1>7. ToRGB(ToYUV(p)) = p
  <2>1. t = u \div 4 /\ s = (u + v + 2) \div 4 /\ u + p[2] = p[1] /\ v + p[2] = p[3]
    BY <1>1
  <2> HIDE DEF u, v, s, t
  <2>2. ToYUV(p).U - MaxY = u
    BY <1>1, <1>2, <1>5
  <2>3. ToYUV(p).V - MaxY + u \div 4 = v
    BY <1>1, <1>2, <1>3, <1>5, <2>1
  <2>4. ToYUV(p).Y - (u + v + 2) \div 4 = p[2]
    BY <1>1, <1>2, <1>3, <1>5, <2>1
  <2>5. ToRGB(ToYUV(p)) = <<Clip(u + p[2], 0, MaxY), Clip(p[2], 0, MaxY), Clip(v + p[2], 0, MaxY)>>
    BY <2>2, <2>3, <2>4 DEF ToRGB
  <2>6. Clip(p[1], 0, MaxY) = p[1] /\ Clip(p[2], 0, MaxY) = p[2] /\ Clip(p[3], 0, MaxY) = p[3]
    BY <1>1 DEF Clip
  <2> QED
    BY <1>1, <2>1, <2>5, <2>6
<1> QED
  BY <1>5, <1>6, <1>7

\* to_RGB after near-lossless coding: when every plane is off by at most near, no
\* channel is by more than twice that and one (README.md:356).
THEOREM ColoursStayNear ==
    \A p \in Levels3, near \in Nat \ {0}, c \in [Y : Int, U : Int, V : Int] :
       (\A plane \in {"Y", "U", "V"} : Gap(c[plane], ToYUV(p)[plane]) <= near) =>
          \A k \in 1..3 : Gap(ToRGB(c)[k], p[k]) <= 2 * near + 1
<1> SUFFICES ASSUME NEW p \in Levels3, NEW near \in Nat \ {0}, NEW c \in [Y : Int, U : Int, V : Int],
                    \A plane \in {"Y", "U", "V"} : Gap(c[plane], ToYUV(p)[plane]) <= near
             PROVE  \A k \in 1..3 : Gap(ToRGB(c)[k], p[k]) <= 2 * near + 1
  OBVIOUS
<1> DEFINE u  == p[1] - p[2]
           v  == p[3] - p[2]
           s  == (u + v + 2) \div 4
           t  == u \div 4
           cu == c.U - MaxY
           ct == cu \div 4
           cv == c.V - MaxY + ct
           cs == (cu + cv + 2) \div 4
           cy == c.Y - cs
<1>1. /\ MaxY \in Nat /\ p[1] \in 0..MaxY /\ p[2] \in 0..MaxY /\ p[3] \in 0..MaxY
      /\ c.Y \in Int /\ c.U \in Int /\ c.V \in Int
  BY MaxYAssumption DEF Levels3
<1>2. u \in Int /\ v \in Int /\ cu \in Int /\ u + v + 2 \in Int
  BY <1>1
<1>3. /\ s \in Int /\ 4 * s <= u + v + 2 /\ u + v + 2 <= 4 * s + 3
      /\ t \in Int /\ 4 * t <= u /\ u <= 4 * t + 3
      /\ ct \in Int /\ 4 * ct <= cu /\ cu <= 4 * ct + 3
  BY <1>2, Quarter
<1>4. cv \in Int /\ cu + cv + 2 \in Int
  <2> HIDE DEF cu, ct
  <2> QED
    BY <1>1, <1>2, <1>3
<1>5. cs \in Int /\ 4 * cs <= cu + cv + 2 /\ cu + cv + 2 <= 4 * cs + 3
  BY <1>4, Quarter
<1>6. ToYUV(p).Y = p[2] + s /\ ToYUV(p).U = u + MaxY /\ ToYUV(p).V = v - t + MaxY
  BY DEF ToYUV
<1>7. Gap(c.Y, p[2] + s) <= near /\ Gap(c.U, u + MaxY) <= near /\ Gap(c.V, v - t + MaxY) <= near
  <2>1. Gap(c["Y"], ToYUV(p)["Y"]) <= near /\ Gap(c["U"], ToYUV(p)["U"]) <= near
        /\ Gap(c["V"], ToYUV(p)["V"]) <= near
    OBVIOUS
  <2> HIDE DEF s, t, u, v
  <2> QED
    BY <1>6, <2>1
<1>8. ToRGB(c) = <<Clip(cu + cy, 0, MaxY), Clip(cy, 0, MaxY), Clip(cv + cy, 0, MaxY)>>
  BY DEF ToRGB
<1>9. /\ p[1] = u + p[2] /\ p[3] = v + p[2] /\ c.U = cu + MaxY
      /\ c.V = cv - ct + MaxY /\ c.Y = cy + cs
  <2>1. p[1] = u + p[2] /\ p[3] = v + p[2] /\ c.U = cu + MaxY
    BY <1>1
  <2> HIDE DEF ct, cs
  <2> QED
    BY <1>1, <1>3, <1>5, <2>1
<1>10. cy \in Int
  <2> HIDE DEF cs
  <2> QED
    BY <1>1, <1>5
<1> HIDE DEF u, v, s, t, cu, cv, cs, ct, cy
<1>11. /\ Gap(cu + cy, p[1]) <= 2 * near + 1 /\ cu + cy \in Int
       /\ Gap(cy, p[2]) <= 2 * near + 1
       /\ Gap(cv + cy, p[3]) <= 2 * near + 1 /\ cv + cy \in Int
  <2>1. /\ c.Y - (p[2] + s) <= near /\ (p[2] + s) - c.Y <= near
        /\ c.U - (u + MaxY) <= near /\ (u + MaxY) - c.U <= near
        /\ c.V - (v - t + MaxY) <= near /\ (v - t + MaxY) - c.V <= near
    BY <1>1, <1>2, <1>3, <1>7 DEF Gap
  <2>2. /\ (cu + cy) - p[1] <= 2 * near + 1 /\ p[1] - (cu + cy) <= 2 * near + 1
    BY <1>1, <1>2, <1>3, <1>4, <1>5, <1>9, <1>10, <2>1
  <2>3. /\ cy - p[2] <= 2 * near + 1 /\ p[2] - cy <= 2 * near + 1
    BY <1>1, <1>2, <1>3, <1>4, <1>5, <1>9, <1>10, <2>1
  <2>4. /\ (cv + cy) - p[3] <= 2 * near + 1 /\ p[3] - (cv + cy) <= 2 * near + 1
    BY <1>1, <1>2, <1>3, <1>4, <1>5, <1>9, <1>10, <2>1
  <2> QED
    BY <1>1, <1>2, <1>4, <1>10, <2>2, <2>3, <2>4 DEF Gap
<1>12. \A x \in Int, y \in 0..MaxY : Gap(x, y) <= 2 * near + 1 => Gap(Clip(x, 0, MaxY), y) <= 2 * near + 1
  BY <1>1 DEF Gap, Clip
<1>13. /\ Gap(Clip(cu + cy, 0, MaxY), p[1]) <= 2 * near + 1 /\ Gap(Clip(cy, 0, MaxY), p[2]) <= 2 * near + 1
       /\ Gap(Clip(cv + cy, 0, MaxY), p[3]) <= 2 * near + 1
  BY <1>1, <1>10, <1>11, <1>12
<1>14. /\ ToRGB(c)[1] = Clip(cu + cy, 0, MaxY) /\ ToRGB(c)[2] = Clip(cy, 0, MaxY)
       /\ ToRGB(c)[3] = Clip(cv + cy, 0, MaxY)
  BY <1>8
<1> QED
  BY <1>13, <1>14

-----------------------------------------------------------------------------
(* The numbers of NBLI.                                                    *)

\* A distance, in steps of 2 * near + 1.
LEMMA InSteps ==
    ASSUME NEW g \in Nat, NEW near \in Nat
    PROVE  LET num == (g + near) \div (2 * near + 1)
           IN  /\ num \in Nat /\ num <= g
               /\ num * (2 * near + 1) \in Nat
               /\ Gap(num * (2 * near + 1), g) <= near
<1> DEFINE m == 2 * near + 1
           num == (g + near) \div m
<1>1. m \in Nat \ {0} /\ g + near \in Nat
  OBVIOUS
<1> HIDE DEF m
<1>2. num \in Nat /\ m * num \in Nat /\ m * num <= g + near /\ g + near <= m * num + m - 1
  BY <1>1, Quotient
<1> HIDE DEF num
<1>3. num * m = m * num
  BY <1>1, <1>2
<1>4. CASE num > g
  <2>1. m * (g + 1) <= m * num
    BY <1>1, <1>2, <1>4, Product
  <2>2. m * (g + 1) = m * g + m /\ 1 * g <= m * g /\ m * g \in Nat
    <3>1. g * 1 <= g * m /\ g * m = m * g /\ g * 1 = g
      BY <1>1, Product
    <3> QED
      BY <1>1, <3>1
  <2>3. m = 2 * near + 1
    BY DEF m
  <2> QED
    BY <1>1, <1>2, <2>1, <2>2, <2>3
<1>5. Gap(m * num, g) <= near
  BY <1>1, <1>2 DEF Gap, m
<1> QED
  BY <1>2, <1>3, <1>4, <1>5 DEF m, num

\* mapXtoW, mapWtoX: the number of a sample is one of its plane's, whatever was
\* predicted, and what the decoder makes of it is off by at most near.
THEOREM NumberReturns ==
    \A maxval, near \in Nat, sign \in {0, 1} : \A x, pxc \in 0..maxval :
       LET w == MapXtoW(x, pxc, sign, maxval, near)
       IN  /\ w \in 0..maxval
           /\ MapWtoX(w, pxc, sign, maxval, near) \in 0..maxval
           /\ Gap(MapWtoX(w, pxc, sign, maxval, near), x) <= near
<1> SUFFICES ASSUME NEW maxval \in Nat, NEW near \in Nat, NEW sign \in {0, 1},
                    NEW x \in 0..maxval, NEW pxc \in 0..maxval
             PROVE  LET w == MapXtoW(x, pxc, sign, maxval, near)
                    IN  /\ w \in 0..maxval
                        /\ MapWtoX(w, pxc, sign, maxval, near) \in 0..maxval
                        /\ Gap(MapWtoX(w, pxc, sign, maxval, near), x) <= near
  OBVIOUS
<1> DEFINE m  == 2 * near + 1
           g  == Gap(x, pxc)
           lo == Least(pxc, maxval - pxc)
           num  == (g + near) \div m
           tw == Short(pxc, maxval, near)
           w  == MapXtoW(x, pxc, sign, maxval, near)
           y  == IF x >= pxc THEN pxc + num * m ELSE pxc - num * m
<1>1. /\ g \in Nat /\ lo \in Nat /\ 2 * lo <= maxval /\ g + lo <= maxval
      /\ x >= pxc => g = x - pxc
      /\ x < pxc => g = pxc - x
      /\ g > lo => (x >= pxc <=> pxc < (maxval + 1) \div 2)
  BY DEF Gap, Least
<1>2. tw = (lo + near) \div m
  BY DEF Short
<1> HIDE DEF g, lo
<1>3. num \in Nat /\ num <= g /\ num * m \in Nat /\ Gap(num * m, g) <= near
  BY <1>1, InSteps
<1>4. tw \in Nat /\ tw <= lo
  BY <1>1, <1>2, InSteps
<1>5. num > tw => g > lo
  <2>1. g <= lo => num <= tw
    <3>1. m \in Nat \ {0}
      OBVIOUS
    <3> HIDE DEF m
    <3> QED
      BY <1>1, <1>2, <3>1, QuotientGrows
  <2> HIDE DEF num, tw
  <2> QED
    BY <1>1, <1>3, <1>4, <2>1
<1>6. w = CASE num = 0 -> 0
            [] num > 0 /\ num <= tw -> IF (x >= pxc) = (sign = 1) THEN 2 * num ELSE 2 * num - 1
            [] OTHER -> num + tw
  BY DEF MapXtoW, g
<1> HIDE DEF num, tw, w
<1>7. w \in 0..maxval
  BY <1>1, <1>3, <1>4, <1>6
<1>8. MapWtoX(w, pxc, sign, maxval, near) = Clip(y, 0, maxval)
  <2>1. CASE num = 0
    <3>1. w = 0 /\ w <= 2 * tw /\ (w + 1) \div 2 = 0 /\ 0 * m = 0 /\ num * m = 0
      BY <1>4, <1>6, <2>1
    <3>2. pxc + 0 = pxc /\ pxc - 0 = pxc
      OBVIOUS
    <3> QED
      BY <3>1, <3>2 DEF MapWtoX, tw
  <2>2. CASE num > 0 /\ num <= tw
    <3>1. /\ w \in Nat /\ w <= 2 * tw /\ (w + 1) \div 2 = num
          /\ (w % 2 # sign) <=> (x >= pxc)
      <4>1. (2 * num + 1) \div 2 = num /\ (2 * num - 1 + 1) \div 2 = num /\ (2 * num) % 2 = 0 /\ (2 * num - 1) % 2 = 1
        BY <1>3, <2>2
      <4>2. CASE (x >= pxc) = (sign = 1)
        <5>1. w = 2 * num
          BY <1>3, <1>6, <2>2, <4>2
        <5> QED
          BY <1>3, <1>4, <2>2, <4>1, <4>2, <5>1
      <4>3. CASE (x >= pxc) # (sign = 1)
        <5>1. w = 2 * num - 1
          BY <1>3, <1>6, <2>2, <4>3
        <5> QED
          BY <1>3, <1>4, <2>2, <4>1, <4>3, <5>1
      <4> QED
        BY <4>2, <4>3
    <3> QED
      BY <3>1 DEF MapWtoX, tw
  <2>3. CASE num > tw
    <3>1. w = num + tw /\ ~(w <= 2 * tw) /\ w - tw = num
      BY <1>3, <1>4, <1>6, <2>3
    <3>2. x >= pxc <=> pxc < (maxval + 1) \div 2
      BY <1>1, <1>5, <2>3
    <3> QED
      BY <3>1, <3>2 DEF MapWtoX, tw
  <2> QED
    BY <1>3, <1>4, <2>1, <2>2, <2>3
<1>9. y \in Int /\ Gap(y, x) <= near
  <2> DEFINE z == num * m
  <2>1. z \in Nat /\ Gap(z, g) <= near
    BY <1>3
  <2> HIDE DEF z
  <2>2. y = IF x >= pxc THEN pxc + z ELSE pxc - z
    BY DEF z
  <2> HIDE DEF y
  <2> QED
    BY <1>1, <2>1, <2>2 DEF Gap
<1> HIDE DEF y
<1>10. Clip(y, 0, maxval) \in 0..maxval /\ Gap(Clip(y, 0, maxval), x) <= near
  BY <1>9 DEF Clip, Gap
<1> QED
  BY <1>7, <1>8, <1>10 DEF w

-----------------------------------------------------------------------------
(* The symbols of fNBLI.                                                   *)

\* FnbliPxCorrector: the symbol of a sample is one of the plane's, and gives the
\* sample back, whatever was predicted.
THEOREM SymbolReturns ==
    \A maxval \in Nat, sign \in {0, 1} : \A x, pxc \in 0..maxval :
       /\ ToSymbol(x, pxc, sign, maxval) \in 0..maxval
       /\ ToSample(ToSymbol(x, pxc, sign, maxval), pxc, sign, maxval) = x
<1> SUFFICES ASSUME NEW maxval \in Nat, NEW sign \in {0, 1}, NEW x \in 0..maxval, NEW pxc \in 0..maxval
             PROVE  /\ ToSymbol(x, pxc, sign, maxval) \in 0..maxval
                    /\ ToSample(ToSymbol(x, pxc, sign, maxval), pxc, sign, maxval) = x
  OBVIOUS
<1> DEFINE m == maxval + 1
<1>1. \A z \in 0..maxval : z % m = z /\ (z - m) % m = z /\ (z + m) % m = z
  BY SMT
<1>2. CASE sign = 1
  <2>1. CASE x >= pxc
    <3>1. ToSymbol(x, pxc, sign, maxval) = x - pxc
      BY <1>1, <1>2, <2>1 DEF ToSymbol
    <3> QED
      BY <1>1, <1>2, <2>1, <3>1 DEF ToSample
  <2>2. CASE x < pxc
    <3>1. x - pxc + m \in 0..maxval /\ x - pxc = (x - pxc + m) - m
      BY <2>2
    <3>2. ToSymbol(x, pxc, sign, maxval) = x - pxc + m
      BY <1>1, <1>2, <3>1 DEF ToSymbol
    <3>3. pxc + (x - pxc + m) = x + m
      OBVIOUS
    <3> QED
      BY <1>1, <1>2, <3>1, <3>2, <3>3 DEF ToSample
  <2> QED
    BY <2>1, <2>2
<1>3. CASE sign = 0
  <2>1. CASE x <= pxc
    <3>1. ToSymbol(x, pxc, sign, maxval) = pxc - x
      BY <1>1, <1>3, <2>1 DEF ToSymbol
    <3> QED
      BY <1>1, <1>3, <2>1, <3>1 DEF ToSample
  <2>2. CASE x > pxc
    <3>1. pxc - x + m \in 0..maxval /\ pxc - x = (pxc - x + m) - m
      BY <2>2
    <3>2. ToSymbol(x, pxc, sign, maxval) = pxc - x + m
      BY <1>1, <1>3, <3>1 DEF ToSymbol
    <3>3. pxc - (pxc - x + m) = x - m
      OBVIOUS
    <3> QED
      BY <1>1, <1>3, <3>1, <3>2, <3>3 DEF ToSample
  <2> QED
    BY <2>1, <2>2
<1> QED
  BY <1>2, <1>3

\* updateContext(): a mean error stays within FineScale times the largest error,
\* for 511 levels 32640, so that int16 never overflows, after any number of steps.
THEOREM ContextFits ==
    \A half \in Nat : \A ctx, err \in Int :
       Gap(ctx, 0) <= FineScale * half /\ Gap(err, 0) <= half =>
          /\ Gap(UpdateContext(ctx, err), 0) <= FineScale * half
          /\ half <= 255 => Gap(UpdateContext(ctx, err), 0) < 32768
<1> SUFFICES ASSUME NEW half \in Nat, NEW ctx \in Int, NEW err \in Int,
                    Gap(ctx, 0) <= FineScale * half, Gap(err, 0) <= half
             PROVE  /\ Gap(UpdateContext(ctx, err), 0) <= FineScale * half
                    /\ half <= 255 => Gap(UpdateContext(ctx, err), 0) < 32768
  OBVIOUS
<1> DEFINE num == 63 * ctx + 128 * err + 31
           q == num \div 64
<1>1. UpdateContext(ctx, err) = q
  BY DEF UpdateContext, FineScale, Coef
<1>2. 0 - 128 * half <= ctx /\ ctx <= 128 * half /\ 0 - half <= err /\ err <= half
  BY DEF FineScale, Gap
<1>3. num \in Int /\ 0 - 8192 * half <= num /\ num <= 8192 * half + 31
  BY <1>2
<1> HIDE DEF num
<1>4. q \in Int /\ 64 * q <= num /\ num <= 64 * q + 63
  BY <1>3
<1> HIDE DEF q
<1>5. q \in Int /\ 0 - 128 * half <= q /\ q <= 128 * half
  BY <1>3, <1>4
<1> QED
  BY <1>1, <1>5 DEF FineScale, Gap

-----------------------------------------------------------------------------
(* A plane of all lanes, in fNBLI.                                         *)

\* The largest sample of a plane.
LEMMA MaxIsNat == \A plane : MaxOf(plane) \in Nat
BY LevelAssumption DEF MaxOf

\* A difference of numbers.
LEMMA GapIsInt ==
    ASSUME NEW x \in Int, NEW y \in Int
    PROVE  Gap(x, y) \in Int
BY DEF Gap

\* fnbliPredict().
LEMMA PredictedIsInt ==
    ASSUME NEW t \in Neighbourhood, NEW maxval \in Nat
    PROVE  Predicted(t, maxval) \in Int
<1> DEFINE dvh == RoughV(t) - RoughH(t)
           ab  == IF dvh > 0 THEN t.a ELSE t.b
           px  == Clip((t.a + t.b) * 9 + 2 * t.d - 2 * t.c - t.e - t.f, 0, 16 * maxval)
<1>1. /\ t.a \in Int /\ t.b \in Int /\ t.c \in Int /\ t.d \in Int
      /\ t.e \in Int /\ t.f \in Int /\ t.g \in Int
  BY DEF Neighbourhood
<1>2. dvh \in Int /\ Gap(dvh, 0) \in Int
  <2>1. /\ Gap(t.a, t.c) \in Int /\ Gap(t.b, t.f) \in Int /\ Gap(t.d, t.g) \in Int
        /\ Gap(t.a, t.e) \in Int /\ Gap(t.b, t.c) \in Int /\ Gap(t.b, t.d) \in Int
    BY <1>1, GapIsInt
  <2>2. RoughV(t) \in Int
    BY <2>1 DEF RoughV
  <2>3. RoughH(t) \in Int
    BY <2>1 DEF RoughH
  <2>4. dvh \in Int
    BY <2>2, <2>3
  <2> HIDE DEF dvh
  <2> QED
    BY <2>4, GapIsInt
<1>3. px \in Int
  <2>1. (t.a + t.b) * 9 + 2 * t.d - 2 * t.c - t.e - t.f \in Int /\ 16 * maxval \in Int
    BY <1>1
  <2> QED
    BY <2>1 DEF Clip
<1>4. ab \in Int
  BY <1>1
<1> HIDE DEF dvh, ab, px
<1>5. /\ (px + 16 * ab + 16) \div 32 \in Int /\ (3 * px + 16 * ab + 32) \div 64 \in Int
      /\ (px + 8) \div 16 \in Int
  BY <1>3, <1>4
<1>6. Predicted(t, maxval) =
        CASE Gap(dvh, 0) > 80 -> ab
          [] Gap(dvh, 0) \in 33..80 -> (px + 16 * ab + 16) \div 32
          [] Gap(dvh, 0) \in 9..32 -> (3 * px + 16 * ab + 32) \div 64
          [] OTHER -> (px + 8) \div 16
  BY DEF Predicted, dvh, ab, px
<1> QED
  BY <1>4, <1>5, <1>6

\* A corrected prediction is a sample, and a sign a bit.
LEMMA CorrectedInside ==
    ASSUME NEW px \in Int, NEW ctx \in Int, NEW maxval \in Nat
    PROVE  Corrected(px, ctx, maxval) \in 0..maxval /\ Sign(ctx) \in {0, 1}
<1>1. ctx \div 64 \in Int /\ ctx \div 128 \in Int
  OBVIOUS
<1>2. Sign(ctx) \in {0, 1}
  BY <1>1 DEF Sign, FineScale
<1> DEFINE z == px + Sign(ctx) + ctx \div FineScale
<1>3. z \in Int
  BY <1>1, <1>2 DEF FineScale
<1>4. Corrected(px, ctx, maxval) = Clip(z, 0, maxval)
  BY DEF Corrected
<1> HIDE DEF z
<1>5. Clip(z, 0, maxval) \in 0..maxval
  BY <1>3 DEF Clip
<1> QED
  BY <1>2, <1>4, <1>5

\* act() of the decoder, on the symbols act() of the encoder made: with the same
\* errors and contexts before, the decoder gets the samples of every lane, and
\* has the same errors and contexts afterwards, for any number of lanes and
\* however many of them share a context.
THEOREM ActReturns ==
    ASSUME NEW planes, NEW plane \in planes, NEW lanes, NEW ts \in [lanes -> Neighbourhood], NEW extra,
           NEW code, NEW symbols, NEW lostE, NEW lostD \in BOOLEAN, NEW err, NEW ctxs,
           NEW xE \in [planes -> [lanes -> Nat]], NEW xD, DOMAIN xD = planes,
           \A adr \in DOMAIN ctxs[plane] : ctxs[plane][adr] \in Int,
           \A k \in lanes : xE[plane][k] \in 0..MaxOf(plane)
    PROVE  LET e == [enc |-> TRUE, code |-> code, lost |-> lostE, err |-> err, x |-> xE, ctxs |-> ctxs]
               d == [enc |-> FALSE, code |-> symbols, lost |-> lostD, err |-> err, x |-> xD, ctxs |-> ctxs]
               f == Act(e, plane, ts, extra)
               h == Act(d, plane, ts, extra)
               sym == [plane |-> plane, qd |-> Known(e, plane, ts, extra).qd,
                       w |-> ToSymbols(Known(e, plane, ts, extra), xE[plane], MaxOf(plane))]
           IN  /\ f.code = Append(code, sym)
               /\ Head(symbols) = sym =>
                     /\ h.x[plane] = xE[plane]
                     /\ h.err = f.err /\ h.ctxs = f.ctxs
                     /\ h.lost = lostD /\ h.code = Tail(symbols)
<1> DEFINE e == [enc |-> TRUE, code |-> code, lost |-> lostE, err |-> err, x |-> xE, ctxs |-> ctxs]
           d == [enc |-> FALSE, code |-> symbols, lost |-> lostD, err |-> err, x |-> xD, ctxs |-> ctxs]
           max == MaxOf(plane)
           g == Known(e, plane, ts, extra)
           sym == [plane |-> plane, qd |-> g.qd, w |-> ToSymbols(g, xE[plane], max)]
           Errors(x) == [k \in lanes |-> Error(x[k], g.px[k], max)]
           back == ToSamples(g, sym.w, max)
<1>1. Known(d, plane, ts, extra) = g
  BY DEF Known, CtxAt
<1>2. /\ DOMAIN ts = lanes /\ DOMAIN xE[plane] = lanes
      /\ DOMAIN xE = planes /\ max \in Nat
  BY MaxIsNat
<1>3. \A k \in lanes : g.ctx[k] \in Int /\ g.px[k] \in Int
                       /\ g.pxc[k] = Corrected(g.px[k], g.ctx[k], max)
  <2> SUFFICES ASSUME NEW k \in lanes
               PROVE  g.ctx[k] \in Int /\ g.px[k] \in Int /\ g.pxc[k] = Corrected(g.px[k], g.ctx[k], max)
    OBVIOUS
  <2>1. g.px[k] = Predicted(ts[k], max)
    BY <1>2 DEF Known
  <2>2. g.px[k] \in Int
    BY <1>2, <2>1, PredictedIsInt
  <2>3. \A a : CtxAt(e, plane, a) \in Int
    BY DEF CtxAt
  <2>4. g.ctx[k] \in Int
    BY <1>2, <2>3 DEF Known
  <2>5. g.pxc[k] = Corrected(g.px[k], g.ctx[k], max)
    BY <1>2 DEF Known
  <2> QED
    BY <2>2, <2>4, <2>5
<1>4. back = xE[plane]
  <2>1. sym.w = [k \in lanes |-> ToSymbol(xE[plane][k], g.pxc[k], Sign(g.ctx[k]), max)]
    BY <1>2 DEF ToSymbols
  <2>2. back = [k \in lanes |-> ToSample(ToSymbol(xE[plane][k], g.pxc[k], Sign(g.ctx[k]), max),
                                         g.pxc[k], Sign(g.ctx[k]), max)]
    BY <2>1 DEF ToSamples
  <2>3. \A k \in lanes : ToSample(ToSymbol(xE[plane][k], g.pxc[k], Sign(g.ctx[k]), max),
                                  g.pxc[k], Sign(g.ctx[k]), max) = xE[plane][k]
    <3> SUFFICES ASSUME NEW k \in lanes
                 PROVE  ToSample(ToSymbol(xE[plane][k], g.pxc[k], Sign(g.ctx[k]), max),
                                 g.pxc[k], Sign(g.ctx[k]), max) = xE[plane][k]
      OBVIOUS
    <3> HIDE DEF g, max
    <3>1. g.pxc[k] \in 0..max /\ Sign(g.ctx[k]) \in {0, 1}
      <4>1. g.ctx[k] \in Int /\ g.px[k] \in Int /\ g.pxc[k] = Corrected(g.px[k], g.ctx[k], max)
        BY <1>3
      <4> QED
        BY <1>2, <4>1, CorrectedInside
    <3>2. xE[plane][k] \in 0..max
      BY DEF max
    <3> QED
      BY <1>2, <3>1, <3>2, SymbolReturns
  <2> HIDE DEF g, max, back, sym
  <2> QED
    BY <1>2, <2>2, <2>3
<1>5. Act(e, plane, ts, extra) =
        [e EXCEPT !.lost = @ \/ plane # plane \/ g.qd # g.qd, !.code = Append(@, sym),
                  !.x[plane] = xE[plane], !.err[plane] = Errors(xE[plane]),
                  !.ctxs[plane] = Learned(@, g, Errors(xE[plane]))]
  <2>1. DOMAIN g.px = lanes
    BY <1>2 DEF Known
  <2>2. Act(e, plane, ts, extra) = Settled(e, plane, g, Sent(e, plane, g))
    BY DEF Act
  <2> HIDE DEF g
  <2>3. Sent(e, plane, g) = sym
    BY DEF Sent
  <2>4. sym.plane = plane /\ sym.qd = g.qd /\ e.enc = TRUE /\ e.x = xE
    OBVIOUS
  <2> HIDE DEF sym
  <2>5. Act(e, plane, ts, extra) = Settled(e, plane, g, sym)
    BY <2>2, <2>3
  <2> QED
    BY <2>1, <2>4, <2>5 DEF Settled
<1>6. ASSUME Head(symbols) = sym
      PROVE  Act(d, plane, ts, extra) =
               [d EXCEPT !.lost = @ \/ plane # plane \/ g.qd # g.qd, !.code = Tail(@),
                         !.x[plane] = back, !.err[plane] = Errors(back),
                         !.ctxs[plane] = Learned(@, g, Errors(back))]
  <2>0. DOMAIN g.px = lanes
    BY <1>2 DEF Known
  <2>1. d.enc = FALSE /\ Head(d.code) = sym /\ sym.plane = plane /\ sym.qd = g.qd
    BY <1>6
  <2> HIDE DEF d, g, sym
  <2> QED
    BY <1>1, <1>2, <2>0, <2>1 DEF Act, Sent, Settled
<1>7. Act(e, plane, ts, extra).code = Append(code, sym)
  BY <1>5
<1>8. ASSUME Head(symbols) = sym
      PROVE  /\ Act(d, plane, ts, extra).x[plane] = xE[plane]
             /\ Act(d, plane, ts, extra).err = Act(e, plane, ts, extra).err
             /\ Act(d, plane, ts, extra).ctxs = Act(e, plane, ts, extra).ctxs
             /\ Act(d, plane, ts, extra).lost = lostD
             /\ Act(d, plane, ts, extra).code = Tail(symbols)
  <2> DEFINE x == xE[plane]
             learnt == Errors(x)
  <2>1. Act(d, plane, ts, extra) =
          [d EXCEPT !.lost = @ \/ plane # plane \/ g.qd # g.qd, !.code = Tail(@),
                    !.x[plane] = x, !.err[plane] = learnt, !.ctxs[plane] = Learned(@, g, learnt)]
    <3> HIDE DEF g, back, sym, Errors, d
    <3> QED
      BY <1>4, <1>6, <1>8
  <2>2. Act(e, plane, ts, extra) =
          [e EXCEPT !.lost = @ \/ plane # plane \/ g.qd # g.qd, !.code = Append(@, sym),
                    !.x[plane] = x, !.err[plane] = learnt, !.ctxs[plane] = Learned(@, g, learnt)]
    BY <1>5
  <2> HIDE DEF g, sym, learnt, x
  <2>3. /\ Act(d, plane, ts, extra).x = [xD EXCEPT ![plane] = x]
        /\ Act(d, plane, ts, extra).err = [err EXCEPT ![plane] = learnt]
        /\ Act(d, plane, ts, extra).ctxs = [ctxs EXCEPT ![plane] = Learned(@, g, learnt)]
        /\ Act(d, plane, ts, extra).lost = (lostD \/ plane # plane \/ g.qd # g.qd)
        /\ Act(d, plane, ts, extra).code = Tail(symbols)
    BY <2>1
  <2>4. /\ Act(e, plane, ts, extra).err = [err EXCEPT ![plane] = learnt]
        /\ Act(e, plane, ts, extra).ctxs = [ctxs EXCEPT ![plane] = Learned(@, g, learnt)]
    BY <2>2
  <2>5. Act(d, plane, ts, extra).x[plane] = xE[plane]
    BY <2>3 DEF x
  <2> HIDE DEF e, d
  <2>6. Act(d, plane, ts, extra).lost = lostD
    BY <2>3
  <2> QED
    BY <2>3, <2>4, <2>5, <2>6
<1> QED
  BY <1>7, <1>8

\* The order of the numbers.
LEMMA LessIsWellFounded == IsWellFoundedOn(OpToRel(<, Nat), Nat)
BY NatLessThanWellFounded

\* A set of numbers has a least one.
LEMMA LeastOf ==
    ASSUME NEW T \in SUBSET Nat, NEW x \in T
    PROVE  \E m \in T : \A k \in T : m <= k
<1> DEFINE below == {p \in Nat \X Nat : p[1] < p[2]}
<1>1. OpToRel(<, Nat) = below
  BY DEF OpToRel
<1>2. IsWellFoundedOn(below, Nat)
  BY <1>1, LessIsWellFounded
<1>3. \A a, b \in Nat : a < b => <<a, b>> \in below
  OBVIOUS
<1> HIDE DEF below
<1>4. T \subseteq Nat /\ T # {}
  OBVIOUS
<1>5. PICK m \in T : \A y \in T : ~ <<y, m>> \in below
  BY <1>2, <1>4, WFMin
<1>6. \A y \in T : m <= y
  <2> TAKE y \in T
  <2>1. m \in Nat /\ y \in Nat /\ ~ (y < m)
    BY <1>3, <1>4, <1>5
  <2> QED BY <2>1
<1> QED BY <1>6

\* A set with 0 and with the successor of each of its numbers has all numbers.
LEMMA Induction ==
    ASSUME NEW T \in SUBSET Nat, 0 \in T, \A k \in Nat : k \in T => k + 1 \in T
    PROVE  T = Nat
<1> SUFFICES ASSUME NEW x \in Nat \ T PROVE FALSE
  OBVIOUS
<1>1. PICK m \in Nat \ T : \A k \in Nat \ T : m <= k
  BY LeastOf
<1>2. m # 0 /\ m - 1 \in Nat /\ m - 1 \in T
  BY <1>1
<1> QED BY <1>1, <1>2

-----------------------------------------------------------------------------
(* A run of fNBLI: any number of steps of any number lanes of lanes.  T is the *)
(* whole code the encoder makes.                                           *)

\* Symbols are within the tables of their planes.
SymbolsOf(planes, lanes) ==
    {s \in [plane : planes, qd : [1..lanes -> Nat], w : [1..lanes -> Nat]] :
        \A k \in 1..lanes : s.w[k] \in 0..MaxOf(s.plane)}

\* Mean errors are within the largest error of their plane.
WithinHalf(map, plane) ==
    \A a \in DOMAIN map : map[a] \in Int /\ Gap(map[a], 0) <= FineScale * (MaxOf(plane) \div 2)

\* An encoder between planes.
Coder(st, planes, lanes) ==
    /\ st = [enc |-> TRUE, code |-> st.code, lost |-> st.lost, err |-> st.err,
             x |-> st.x, ctxs |-> st.ctxs]
    /\ st.code \in Seq(SymbolsOf(planes, lanes))
    /\ st.err \in [planes -> [1..lanes -> Int]]
    /\ st.x \in Samples(planes, lanes)
    /\ DOMAIN st.ctxs = planes /\ \A p \in planes : WithinHalf(st.ctxs[p], p)

\* c is the beginning of T.
Begins(c, T) == Len(c) <= Len(T) /\ \A i \in 1..Len(c) : c[i] = T[i]

\* Samples of any number of lanes: the decoder's before it has read any.
Vectors == UNION {[1..m -> Int] : m \in Nat}

\* Encoder and decoder before the same plane of the same step: the decoder has
\* the rest of the code, and the samples of the planes done.
Twins(e, d, T, done) ==
    /\ d = [enc |-> FALSE, code |-> SubSeq(T, Len(e.code) + 1, Len(T)), lost |-> FALSE, err |-> e.err,
            x |-> d.x, ctxs |-> e.ctxs]
    /\ d.x \in [DOMAIN e.x -> Vectors]
    /\ \A p \in done : d.x[p] = e.x[p]

\* The largest error of a plane.
LEMMA HalfFits == \A plane : MaxOf(plane) \div 2 \in 0..255
<1>1. MaxLevel \in 1..255
  BY LevelAssumption
<1>2. \A m \in 0..511 : m \div 2 \in 0..255
  OBVIOUS
<1> QED BY <1>1, <1>2 DEF MaxOf

\* Of the lanes in a context one is the last.
LEMMA WriterIs ==
    ASSUME NEW lanes \in Nat, NEW adr, DOMAIN adr = 1..lanes, NEW k \in 1..lanes
    PROVE  Writer(adr, adr[k]) \in 1..lanes
<1> DEFINE S == {lanes - j : j \in {i \in 1..lanes : adr[i] = adr[k]}}
           IsLast(j) == j \in DOMAIN adr /\ adr[j] = adr[k] /\ \A i \in DOMAIN adr : adr[i] = adr[k] => i <= j
<1>1. S \in SUBSET Nat /\ lanes - k \in S
  OBVIOUS
<1>2. \A j \in 1..lanes : adr[j] = adr[k] => lanes - j \in S
  OBVIOUS
<1>3. \A s \in S : \E j \in 1..lanes : adr[j] = adr[k] /\ s = lanes - j
  OBVIOUS
<1> HIDE DEF S
<1>4. PICK m \in S : \A s \in S : m <= s
  BY <1>1, LeastOf
<1>5. PICK j \in 1..lanes : adr[j] = adr[k] /\ m = lanes - j
  BY <1>3
<1>6. IsLast(j)
  <2> SUFFICES ASSUME NEW i \in 1..lanes, adr[i] = adr[k] PROVE i <= j
    BY <1>5
  <2>1. m <= lanes - i
    BY <1>2, <1>4
  <2> QED BY <1>5, <2>1
<1>7. j \in DOMAIN adr
  BY <1>5
<1>8. Writer(adr, adr[k]) = CHOOSE i \in DOMAIN adr : adr[i] = adr[k] /\ \A l \in DOMAIN adr : adr[l] = adr[k] => l <= i
  BY DEF Writer
<1>9. IsLast(Writer(adr, adr[k]))
  BY <1>6, <1>7, <1>8
<1> QED BY <1>9

\* An index of a table.
LEMMA SteppedIsNat == \A steps, x : IsFiniteSet(steps) => Step(steps, x) \in Nat
<1> SUFFICES ASSUME NEW steps, NEW x, IsFiniteSet(steps) PROVE Cardinality({t \in steps : t <= x}) \in Nat
  BY DEF Step
<1>1. {t \in steps : t <= x} \subseteq steps
  OBVIOUS
<1> QED BY <1>1, FS_Subset, FS_CardinalityType

\* The tables of the quantisers.
LEMMA TablesAreFinite == IsFiniteSet(Qd1Steps) /\ IsFiniteSet(Qd2Steps) /\ IsFiniteSet(PtSteps)
<1>1. \E top \in Int : top = 1000
  OBVIOUS
<1>2. PICK top \in Int : top = 1000
  BY <1>1
<1>3. 0 \in Int /\ top \in Int
  OBVIOUS
<1>4. IsFiniteSet(0..top)
  BY <1>3, FS_Interval, Zenon
<1>5. Qd1Steps \in SUBSET (0..top)
  BY <1>2 DEF Qd1Steps
<1>6. Qd2Steps \in SUBSET (0..top)
  BY <1>2 DEF Qd2Steps
<1>7. PtSteps \in SUBSET (0..top)
  BY <1>2 DEF PtSteps
<1> HIDE <1>2
<1> QED BY <1>4, <1>5, <1>6, <1>7, FS_Subset, Zenon

\* What both sides know is of the right types.
KnownFits(g, plane, lanes) ==
    /\ g.px \in [1..lanes -> Int] /\ g.qd \in [1..lanes -> Nat] /\ g.ctx \in [1..lanes -> Int]
    /\ DOMAIN g.adr = 1..lanes
    /\ \A k \in 1..lanes : Gap(g.ctx[k], 0) <= FineScale * (MaxOf(plane) \div 2)
    /\ \A k \in 1..lanes : g.pxc[k] \in 0..MaxOf(plane) /\ Sign(g.ctx[k]) \in {0, 1}

\* fnbliPredict(), fnbliGetQD(), correctPx(): whatever the samples and errors before.
LEMMA KnownType ==
    ASSUME NEW st, NEW planes, NEW plane \in planes, NEW lanes \in Nat, NEW ts \in [1..lanes -> Neighbourhood],
           NEW extra,
           \A p \in planes : WithinHalf(st.ctxs[p], p)
    PROVE  KnownFits(Known(st, plane, ts, extra), plane, lanes)
<1> DEFINE g == Known(st, plane, ts, extra)
           max == MaxOf(plane)
<1>1. DOMAIN ts = 1..lanes /\ max \in Nat
  BY MaxIsNat
<1>2. \A k \in 1..lanes : Predicted(ts[k], max) \in Int
  BY <1>1, PredictedIsInt
<1>3. \A k \in 1..lanes : GetQD(ts[k], st.err[plane][k]) \in Nat
  BY SteppedIsNat, TablesAreFinite DEF GetQD
<1>4. \A a : CtxAt(st, plane, a) \in Int /\ Gap(CtxAt(st, plane, a), 0) <= FineScale * (max \div 2)
  <2> TAKE a
  <2>1. CASE a \in DOMAIN st.ctxs[plane]
    BY <2>1 DEF CtxAt, WithinHalf
  <2>2. CASE a \notin DOMAIN st.ctxs[plane]
    <3>1. CtxAt(st, plane, a) = 0 /\ max \div 2 \in 0..255
      BY <2>2, HalfFits DEF CtxAt
    <3> DEFINE h == max \div 2
    <3>2. Gap(0, 0) = 0
      BY DEF Gap
    <3>3. h \in 0..255
      BY <3>1
    <3> HIDE DEF h
    <3>4. 0 <= FineScale * h
      BY <3>3 DEF FineScale
    <3> QED BY <3>1, <3>2, <3>4 DEF h
  <2> QED BY <2>1, <2>2
<1>5. g.px = [k \in 1..lanes |-> Predicted(ts[k], max)]
  BY <1>1 DEF Known
<1>6. g.qd = [k \in 1..lanes |-> GetQD(ts[k], st.err[plane][k])]
  BY <1>1 DEF Known
<1>7. DOMAIN g.adr = 1..lanes /\ g.ctx = [k \in 1..lanes |-> CtxAt(st, plane, g.adr[k])]
  BY <1>1 DEF Known
<1>8. g.pxc = [k \in 1..lanes |-> Corrected(g.px[k], g.ctx[k], max)]
  BY <1>1 DEF Known
<1> HIDE DEF g, max
<1>9. g.px \in [1..lanes -> Int]
  BY <1>2, <1>5
<1>10. g.qd \in [1..lanes -> Nat]
  BY <1>3, <1>6
<1>11. g.ctx \in [1..lanes -> Int] /\ \A k \in 1..lanes : Gap(g.ctx[k], 0) <= FineScale * (max \div 2)
  BY <1>4, <1>7
<1>12. \A k \in 1..lanes : g.pxc[k] \in 0..max /\ Sign(g.ctx[k]) \in {0, 1}
  <2> TAKE k \in 1..lanes
  <2>1. g.px[k] \in Int /\ g.ctx[k] \in Int
    BY <1>9, <1>11
  <2> QED BY <1>1, <1>8, <2>1, CorrectedInside
<1> QED BY <1>7, <1>9, <1>10, <1>11, <1>12 DEF g, max, KnownFits

\* The next symbol, and those after it.
LEMMA RestOf ==
    ASSUME NEW S, NEW T \in Seq(S), NEW m \in Nat, m < Len(T)
    PROVE  /\ Head(SubSeq(T, m + 1, Len(T))) = T[m + 1]
           /\ Tail(SubSeq(T, m + 1, Len(T))) = SubSeq(T, m + 2, Len(T))
BY SMT

\* What begins with one more symbol began before, and that one is next.
LEMMA BeginsBefore ==
    ASSUME NEW S, NEW c \in Seq(S), NEW s \in S, NEW T \in Seq(S), Begins(Append(c, s), T)
    PROVE  Begins(c, T) /\ Len(c) < Len(T) /\ T[Len(c) + 1] = s
BY DEF Begins

\* The errors of the samples, and the symbol they are coded as.
NewErr(x, plane, g) == [k \in DOMAIN g.px |-> Error(x[k], g.px[k], MaxOf(plane))]
MadeSymbol(x, plane, g) == [plane |-> plane, qd |-> g.qd, w |-> ToSymbols(g, x, MaxOf(plane))]

\* What becomes of a state, with names for the parts that the two sides choose.
Becomes(enc, code, lost, err, x, ctxs, plane, g, sym, y, C) ==
    Settled([enc |-> enc, code |-> code, lost |-> lost, err |-> err, x |-> x, ctxs |-> ctxs], plane, g, sym) =
        [enc |-> enc, code |-> C, lost |-> (lost \/ sym.plane # plane \/ sym.qd # g.qd),
         err |-> [err EXCEPT ![plane] = NewErr(y, plane, g)],
         x |-> [x EXCEPT ![plane] = y],
         ctxs |-> [ctxs EXCEPT ![plane] = Learned(@, g, NewErr(y, plane, g))]]

\* Settled, one field after the other.
LEMMA SettledIs ==
    ASSUME NEW enc \in BOOLEAN, NEW code, NEW lost, NEW err, NEW x, NEW ctxs, NEW plane, NEW g, NEW sym
    PROVE  Becomes(enc, code, lost, err, x, ctxs, plane, g, sym,
                   IF enc THEN x[plane] ELSE ToSamples(g, sym.w, MaxOf(plane)),
                   IF enc THEN Append(code, sym) ELSE Tail(code))
<1> DEFINE st == [enc |-> enc, code |-> code, lost |-> lost, err |-> err, x |-> x, ctxs |-> ctxs]
           y == IF enc THEN x[plane] ELSE ToSamples(g, sym.w, MaxOf(plane))
           errs == NewErr(y, plane, g)
           L == Learned(ctxs[plane], g, errs)
           C == IF enc THEN Append(code, sym) ELSE Tail(code)
           lost2 == (lost \/ sym.plane # plane \/ sym.qd # g.qd)
           x2 == [x EXCEPT ![plane] = y]
           err2 == [err EXCEPT ![plane] = errs]
           ctxs2 == [ctxs EXCEPT ![plane] = L]
           s1 == [st EXCEPT !.lost = @ \/ sym.plane # plane \/ sym.qd # g.qd]
           s2 == [s1 EXCEPT !.code = IF enc THEN Append(@, sym) ELSE Tail(@)]
           s3 == [s2 EXCEPT !.x[plane] = y]
           s4 == [s3 EXCEPT !.err[plane] = errs]
           s5 == [s4 EXCEPT !.ctxs[plane] = Learned(@, g, errs)]
<1>1. Settled(st, plane, g, sym) = s5
  BY DEF Settled, NewErr
<1> HIDE DEF y, errs
<1>2. s1 = [enc |-> enc, code |-> code, lost |-> lost2, err |-> err, x |-> x, ctxs |-> ctxs]
  BY DEF s1
<1> HIDE DEF lost2, s1
<1>3. s2 = [enc |-> enc, code |-> C, lost |-> lost2, err |-> err, x |-> x, ctxs |-> ctxs]
  <2>1. s1.code = code
    BY <1>2
  <2> HIDE DEF C
  <2>2. C = IF enc THEN Append(s1.code, sym) ELSE Tail(s1.code)
    BY <2>1 DEF C
  <2>3. s2 = [s1 EXCEPT !.code = C]
    BY <2>2
  <2> HIDE DEF s2
  <2> QED BY <1>2, <2>3
<1> HIDE DEF C, s2
<1>4. s3 = [enc |-> enc, code |-> C, lost |-> lost2, err |-> err, x |-> x2, ctxs |-> ctxs]
  BY <1>3 DEF s3
<1> HIDE DEF x2, s3
<1>5. s4 = [enc |-> enc, code |-> C, lost |-> lost2, err |-> err2, x |-> x2, ctxs |-> ctxs]
  BY <1>4 DEF s4
<1> HIDE DEF err2, s4
<1>6. s5 = [enc |-> enc, code |-> C, lost |-> lost2, err |-> err2, x |-> x2, ctxs |-> ctxs2]
  BY <1>5 DEF s5
<1> HIDE DEF s5, st
<1>7. Settled(st, plane, g, sym) = [enc |-> enc, code |-> C, lost |-> lost2, err |-> err2, x |-> x2, ctxs |-> ctxs2]
  BY <1>1, <1>6
<1> HIDE DEF L
<1>8. ctxs2 = [ctxs EXCEPT ![plane] = Learned(@, g, errs)]
  BY DEF ctxs2, L
<1>9. Becomes(enc, code, lost, err, x, ctxs, plane, g, sym, y, C)
  BY <1>7, <1>8 DEF Becomes, errs, lost2, x2, err2, st
<1> QED BY <1>9 DEF y, C

\* And each of the fields.
LEMMA SettledParts ==
    ASSUME NEW code, NEW lost, NEW err, NEW x, NEW ctxs, NEW plane, NEW g, NEW sym
    PROVE  /\ Becomes(TRUE, code, lost, err, x, ctxs, plane, g, sym, x[plane], Append(code, sym))
           /\ Becomes(FALSE, code, lost, err, x, ctxs, plane, g, sym, ToSamples(g, sym.w, MaxOf(plane)), Tail(code))
<1>1. ASSUME NEW enc \in BOOLEAN, NEW y, NEW C,
             y = IF enc THEN x[plane] ELSE ToSamples(g, sym.w, MaxOf(plane)),
             C = IF enc THEN Append(code, sym) ELSE Tail(code)
      PROVE  Becomes(enc, code, lost, err, x, ctxs, plane, g, sym, y, C)
  <2> DEFINE z == IF enc THEN x[plane] ELSE ToSamples(g, sym.w, MaxOf(plane))
             D == IF enc THEN Append(code, sym) ELSE Tail(code)
  <2>1. z = y /\ D = C
    BY <1>1
  <2>2. Becomes(enc, code, lost, err, x, ctxs, plane, g, sym, z, D)
    BY SettledIs
  <2> HIDE DEF z, D
  <2> QED BY <2>1, <2>2
<1>2. PICK yes \in BOOLEAN : yes = TRUE
  OBVIOUS
<1>3. PICK no \in BOOLEAN : no = FALSE
  OBVIOUS
<1>4. x[plane] = IF yes THEN x[plane] ELSE ToSamples(g, sym.w, MaxOf(plane))
  BY <1>2
<1>5. Append(code, sym) = IF yes THEN Append(code, sym) ELSE Tail(code)
  BY <1>2
<1>6. ToSamples(g, sym.w, MaxOf(plane)) = IF no THEN x[plane] ELSE ToSamples(g, sym.w, MaxOf(plane))
  BY <1>3
<1>7. Tail(code) = IF no THEN Append(code, sym) ELSE Tail(code)
  BY <1>3
<1>8. Becomes(yes, code, lost, err, x, ctxs, plane, g, sym, x[plane], Append(code, sym))
  BY <1>1, <1>4, <1>5
<1>9. Becomes(no, code, lost, err, x, ctxs, plane, g, sym, ToSamples(g, sym.w, MaxOf(plane)), Tail(code))
  BY <1>1, <1>6, <1>7
<1> QED BY <1>2, <1>3, <1>8, <1>9

\* Known's parts are functions of the lanes.
LEMMA SymbolIs ==
    ASSUME NEW planes, NEW plane \in planes, NEW lanes \in Nat, NEW ts \in [1..lanes -> Neighbourhood], NEW extra,
           NEW e, Coder(e, planes, lanes)
    PROVE  LET g == Known(e, plane, ts, extra)
           IN  /\ MadeSymbol(e.x[plane], plane, g) \in SymbolsOf(planes, lanes)
               /\ ToSamples(g, MadeSymbol(e.x[plane], plane, g).w, MaxOf(plane)) = e.x[plane]
<1> DEFINE g == Known(e, plane, ts, extra)
           max == MaxOf(plane)
           x == e.x[plane]
           w == ToSymbols(g, x, max)
<1>1. \A p \in planes : WithinHalf(e.ctxs[p], p)
  BY DEF Coder
<1>2. x \in [1..lanes -> Nat] /\ \A k \in 1..lanes : x[k] \in 0..max
  BY DEF Coder, Samples
<1>3. g.qd \in [1..lanes -> Nat] /\ \A k \in 1..lanes : g.pxc[k] \in 0..max /\ Sign(g.ctx[k]) \in {0, 1}
  <2>1. KnownFits(g, plane, lanes)
    BY <1>1, KnownType
  <2> HIDE DEF g
  <2> QED BY <2>1 DEF KnownFits
<1>4. max \in Nat
  BY MaxIsNat
<1> HIDE DEF g, max, x
<1>5. w = [k \in 1..lanes |-> ToSymbol(x[k], g.pxc[k], Sign(g.ctx[k]), max)]
  BY <1>2 DEF ToSymbols
<1>6. \A k \in 1..lanes : /\ ToSymbol(x[k], g.pxc[k], Sign(g.ctx[k]), max) \in 0..max
                      /\ ToSample(ToSymbol(x[k], g.pxc[k], Sign(g.ctx[k]), max),
                                  g.pxc[k], Sign(g.ctx[k]), max) = x[k]
  <2> TAKE k \in 1..lanes
  <2>1. x[k] \in 0..max /\ g.pxc[k] \in 0..max /\ Sign(g.ctx[k]) \in {0, 1}
    BY <1>2, <1>3
  <2> QED BY <1>4, <2>1, SymbolReturns
<1>7. ToSamples(g, w, max) = [k \in 1..lanes |-> ToSample(w[k], g.pxc[k], Sign(g.ctx[k]), max)]
  BY <1>5 DEF ToSamples
<1> HIDE DEF w
<1>8. \A k \in 1..lanes : w[k] \in 0..max /\ ToSample(w[k], g.pxc[k], Sign(g.ctx[k]), max) = x[k]
  BY <1>5, <1>6
<1>9. w \in [1..lanes -> Nat]
  BY <1>4, <1>5, <1>8
<1>10. ToSamples(g, w, max) = x
  BY <1>2, <1>7, <1>8
<1>11. MadeSymbol(x, plane, g) = [plane |-> plane, qd |-> g.qd, w |-> w]
  BY DEF MadeSymbol, w, max
<1>12. MadeSymbol(x, plane, g) \in SymbolsOf(planes, lanes)
  BY <1>3, <1>8, <1>9, <1>11 DEF SymbolsOf, max
<1> QED BY <1>10, <1>11, <1>12 DEF g, x, max

\* act() of an encoder.
LEMMA ActOfEncoder ==
    ASSUME NEW planes, NEW plane \in planes, NEW lanes \in Nat, NEW ts \in [1..lanes -> Neighbourhood], NEW extra,
           NEW e, Coder(e, planes, lanes)
    PROVE  LET g == Known(e, plane, ts, extra)
               errs == NewErr(e.x[plane], plane, g)
               f == Act(e, plane, ts, extra)
           IN  f = [enc |-> TRUE, code |-> Append(e.code, MadeSymbol(e.x[plane], plane, g)), lost |-> f.lost,
                    err |-> [e.err EXCEPT ![plane] = errs], x |-> e.x,
                    ctxs |-> [e.ctxs EXCEPT ![plane] = Learned(@, g, errs)]]
<1> DEFINE g == Known(e, plane, ts, extra)
           sym == MadeSymbol(e.x[plane], plane, g)
           errs == NewErr(e.x[plane], plane, g)
           st == [enc |-> TRUE, code |-> e.code, lost |-> e.lost, err |-> e.err, x |-> e.x, ctxs |-> e.ctxs]
           ctxs2 == [e.ctxs EXCEPT ![plane] = Learned(@, g, errs)]
           err2 == [e.err EXCEPT ![plane] = errs]
           lost2 == (e.lost \/ sym.plane # plane \/ sym.qd # g.qd)
<1>1. e = st
  BY DEF Coder
<1>2. Act(e, plane, ts, extra) = Settled(e, plane, g, sym)
  <2>1. e.enc
    BY DEF Coder
  <2>2. Sent(e, plane, g) = sym
    BY <2>1 DEF Sent, MadeSymbol
  <2>3. Act(e, plane, ts, extra) = Settled(e, plane, g, Sent(e, plane, g))
    BY DEF Act
  <2> HIDE DEF sym, g
  <2> QED BY <2>2, <2>3
<1> HIDE DEF g, sym
<1>3. Settled(st, plane, g, sym) =
        [enc |-> TRUE, code |-> Append(e.code, sym), lost |-> lost2, err |-> err2,
         x |-> [e.x EXCEPT ![plane] = e.x[plane]], ctxs |-> ctxs2]
  <2>1. Becomes(TRUE, e.code, e.lost, e.err, e.x, e.ctxs, plane, g, sym, e.x[plane], Append(e.code, sym))
    BY SettledParts
  <2> QED BY <2>1 DEF Becomes
<1>4. [e.x EXCEPT ![plane] = e.x[plane]] = e.x
  BY DEF Coder, Samples
<1> HIDE DEF st, lost2, err2, ctxs2
<1>5. Act(e, plane, ts, extra) =
        [enc |-> TRUE, code |-> Append(e.code, sym), lost |-> lost2, err |-> err2, x |-> e.x, ctxs |-> ctxs2]
  BY <1>1, <1>2, <1>3, <1>4
<1>6. Act(e, plane, ts, extra).lost = lost2
  BY <1>5
<1> QED BY <1>5, <1>6 DEF g, sym, err2, ctxs2

\* The decoder is where the encoder is, with the rest of the code and the samples.
Follows(h, f, x, code) ==
    h = [enc |-> FALSE, code |-> code, lost |-> FALSE, err |-> f.err, x |-> x, ctxs |-> f.ctxs]

\* act() of a decoder that finds the symbol it expects.
LEMMA ActOfDecoder ==
    ASSUME NEW planes, NEW plane \in planes, NEW lanes \in Nat, NEW ts \in [1..lanes -> Neighbourhood], NEW extra,
           NEW e, Coder(e, planes, lanes), NEW T, NEW done, NEW d, Twins(e, d, T, done),
           Head(SubSeq(T, Len(e.code) + 1, Len(T))) = MadeSymbol(e.x[plane], plane, Known(e, plane, ts, extra))
    PROVE  Follows(Act(d, plane, ts, extra), Act(e, plane, ts, extra), [d.x EXCEPT ![plane] = e.x[plane]],
                   Tail(SubSeq(T, Len(e.code) + 1, Len(T))))
<1> DEFINE g == Known(e, plane, ts, extra)
           sym == MadeSymbol(e.x[plane], plane, g)
           x == e.x[plane]
           errs == NewErr(x, plane, g)
           code == SubSeq(T, Len(e.code) + 1, Len(T))
           st == [enc |-> FALSE, code |-> code, lost |-> FALSE, err |-> e.err, x |-> d.x, ctxs |-> e.ctxs]
           ctxs2 == [e.ctxs EXCEPT ![plane] = Learned(@, g, errs)]
           err2 == [e.err EXCEPT ![plane] = errs]
<1>1. d = st
  BY DEF Twins
<1>2. Known(d, plane, ts, extra) = g
  <2>1. d.err = e.err /\ d.ctxs = e.ctxs
    BY <1>1
  <2> QED BY <2>1 DEF Known, CtxAt
<1>3. sym.plane = plane /\ sym.qd = g.qd
  BY DEF MadeSymbol
<1>4. ToSamples(g, sym.w, MaxOf(plane)) = x
  BY SymbolIs
<1>5. Head(code) = sym
  OBVIOUS
<1>6. Act(d, plane, ts, extra) = Settled(st, plane, g, sym)
  <2>1. ~d.enc /\ d.code = code
    <3> HIDE DEF code
    <3> QED BY <1>1
  <2> HIDE DEF code, sym, g, st
  <2>2. Sent(d, plane, g) = sym
    BY <1>5, <2>1 DEF Sent
  <2> QED BY <1>1, <1>2, <2>2 DEF Act
<1> HIDE DEF g, sym, x
<1>7. Settled(st, plane, g, sym) =
        [enc |-> FALSE, code |-> Tail(code), lost |-> (FALSE \/ sym.plane # plane \/ sym.qd # g.qd), err |-> err2,
         x |-> [d.x EXCEPT ![plane] = x], ctxs |-> ctxs2]
  <2> HIDE DEF code
  <2>1. Becomes(FALSE, code, FALSE, e.err, d.x, e.ctxs, plane, g, sym, ToSamples(g, sym.w, MaxOf(plane)), Tail(code))
    BY SettledParts
  <2>2. Becomes(FALSE, code, FALSE, e.err, d.x, e.ctxs, plane, g, sym, x, Tail(code))
    BY <1>4, <2>1
  <2> QED BY <2>2 DEF Becomes
<1>8. (FALSE \/ sym.plane # plane \/ sym.qd # g.qd) = FALSE
  BY <1>3
<1>9. Act(e, plane, ts, extra).err = err2 /\ Act(e, plane, ts, extra).ctxs = ctxs2
  <2>1. \A f, c, l, r, y, z : f = [enc |-> TRUE, code |-> c, lost |-> l, err |-> r, x |-> y, ctxs |-> z]
                                => f.err = r /\ f.ctxs = z
    OBVIOUS
  <2> HIDE DEF err2, ctxs2
  <2>2. \E c, l, y : Act(e, plane, ts, extra) =
                       [enc |-> TRUE, code |-> c, lost |-> l, err |-> err2, x |-> y, ctxs |-> ctxs2]
    BY ActOfEncoder DEF g, x, err2, ctxs2
  <2> QED BY <2>1, <2>2
<1> HIDE DEF err2, ctxs2, st, code
<1> QED BY <1>6, <1>7, <1>8, <1>9 DEF code, x, Follows

\* An error is within half of the levels.
LEMMA ErrorFits ==
    ASSUME NEW x \in Int, NEW px \in Int, NEW plane
    PROVE  LET half == MaxOf(plane) \div 2
           IN  Error(x, px, MaxOf(plane)) \in Int /\ Gap(Error(x, px, MaxOf(plane)), 0) <= half
<1> DEFINE half == MaxOf(plane) \div 2
<1>1. half \in 0..255
  BY HalfFits
<1>2. Error(x, px, MaxOf(plane)) = Clip(x - px, -half, half)
  BY DEF Error
<1> HIDE DEF half
<1> QED BY <1>1, <1>2 DEF Clip, Gap, half

\* ContextFits, for one context and one error.
LEMMA ContextStays ==
    ASSUME NEW half \in Nat, NEW c \in Int, NEW r \in Int, Gap(c, 0) <= FineScale * half, Gap(r, 0) <= half
    PROVE  Gap(UpdateContext(c, r), 0) <= FineScale * half
BY ContextFits

\* updateContext() gives a number.
LEMMA UpdatedIsInt ==
    ASSUME NEW c \in Int, NEW r \in Int
    PROVE  UpdateContext(c, r) \in Int
<1> DEFINE z == 63 * c + 128 * r + 31
<1>1. z \in Int
  OBVIOUS
<1>2. UpdateContext(c, r) = z \div 64
  BY DEF UpdateContext, FineScale, Coef
<1> HIDE DEF z
<1> QED BY <1>1, <1>2

\* What is learned stays within the largest error, whoever writes last.
LEMMA LearnedFits ==
    ASSUME NEW lanes \in Nat, NEW plane, NEW g, DOMAIN g.adr = 1..lanes, g.ctx \in [1..lanes -> Int],
           \A k \in 1..lanes : Gap(g.ctx[k], 0) <= FineScale * (MaxOf(plane) \div 2),
           NEW map, WithinHalf(map, plane),
           NEW errs \in [1..lanes -> Int], \A k \in 1..lanes : Gap(errs[k], 0) <= MaxOf(plane) \div 2
    PROVE  WithinHalf(Learned(map, g, errs), plane)
<1> DEFINE half == MaxOf(plane) \div 2
           L == Learned(map, g, errs)
           Fits(v) == v \in Int /\ Gap(v, 0) <= FineScale * half
<1>1. half \in 0..255
  BY HalfFits
<1>2. Range(g.adr) = {g.adr[k] : k \in 1..lanes}
  BY DEF Range
<1>3. L = [a \in DOMAIN map \cup Range(g.adr) |->
             IF a \in Range(g.adr) THEN UpdateContext(g.ctx[Writer(g.adr, a)], errs[Writer(g.adr, a)]) ELSE map[a]]
  BY DEF Learned
<1>4. \A a \in Range(g.adr) : Writer(g.adr, a) \in 1..lanes
  BY <1>2, WriterIs
<1>5. \A a \in DOMAIN map : Fits(map[a])
  BY DEF WithinHalf
<1> HIDE DEF half, L
<1>10. \A c, r \in Int : Gap(c, 0) <= FineScale * half /\ Gap(r, 0) <= half =>
                            Gap(UpdateContext(c, r), 0) <= FineScale * half
  BY <1>1, ContextStays
<1>6. \A k \in 1..lanes : Fits(UpdateContext(g.ctx[k], errs[k]))
  <2> TAKE k \in 1..lanes
  <2>1. g.ctx[k] \in Int /\ errs[k] \in Int /\ Gap(g.ctx[k], 0) <= FineScale * half /\ Gap(errs[k], 0) <= half
    BY DEF half
  <2>2. Gap(UpdateContext(g.ctx[k], errs[k]), 0) <= FineScale * half
    BY <1>10, <2>1
  <2>3. UpdateContext(g.ctx[k], errs[k]) \in Int
    BY <2>1, UpdatedIsInt
  <2> QED BY <2>2, <2>3
<1> HIDE DEF Fits
<1>7. \A a \in DOMAIN L : Fits(L[a])
  <2> TAKE a \in DOMAIN L
  <2>1. CASE a \in Range(g.adr)
    <3>1. L[a] = UpdateContext(g.ctx[Writer(g.adr, a)], errs[Writer(g.adr, a)])
      BY <1>3, <2>1
    <3> QED BY <1>4, <1>6, <2>1, <3>1
  <2>2. CASE a \notin Range(g.adr)
    BY <1>3, <1>5, <2>2
  <2> QED BY <2>1, <2>2
<1> QED BY <1>7 DEF Fits, WithinHalf, L, half

\* A plane of the encoder.
LEMMA ActKeeps ==
    ASSUME NEW planes, NEW plane \in planes, NEW lanes \in Nat, NEW ts \in [1..lanes -> Neighbourhood], NEW extra,
           NEW e, Coder(e, planes, lanes)
    PROVE  LET f == Act(e, plane, ts, extra)
               sym == MadeSymbol(e.x[plane], plane, Known(e, plane, ts, extra))
           IN  Coder(f, planes, lanes) /\ f.x = e.x /\ f.code = Append(e.code, sym) /\ sym \in SymbolsOf(planes, lanes)
<1> DEFINE g == Known(e, plane, ts, extra)
           sym == MadeSymbol(e.x[plane], plane, g)
           errs == NewErr(e.x[plane], plane, g)
           L == Learned(e.ctxs[plane], g, errs)
           f == Act(e, plane, ts, extra)
           half == MaxOf(plane) \div 2
<1>1. \A p \in planes : WithinHalf(e.ctxs[p], p)
  BY DEF Coder
<1>2. f = [enc |-> TRUE, code |-> Append(e.code, sym), lost |-> f.lost,
           err |-> [e.err EXCEPT ![plane] = errs], x |-> e.x,
           ctxs |-> [e.ctxs EXCEPT ![plane] = Learned(@, g, errs)]]
  BY ActOfEncoder
<1>3. /\ g.px \in [1..lanes -> Int] /\ g.ctx \in [1..lanes -> Int] /\ DOMAIN g.adr = 1..lanes
      /\ \A k \in 1..lanes : Gap(g.ctx[k], 0) <= FineScale * (MaxOf(plane) \div 2)
  <2>1. KnownFits(g, plane, lanes)
    BY <1>1, KnownType
  <2> HIDE DEF g
  <2> QED BY <2>1 DEF KnownFits
<1>4. sym \in SymbolsOf(planes, lanes)
  BY SymbolIs
<1>5. e.x[plane] \in [1..lanes -> Nat]
  BY DEF Coder, Samples
<1> HIDE DEF g
<1>6. errs = [k \in 1..lanes |-> Error(e.x[plane][k], g.px[k], MaxOf(plane))]
  BY <1>3 DEF NewErr
<1>7. \A k \in 1..lanes : Error(e.x[plane][k], g.px[k], MaxOf(plane)) \in Int
                      /\ Gap(Error(e.x[plane][k], g.px[k], MaxOf(plane)), 0) <= half
  <2> TAKE k \in 1..lanes
  <2> DEFINE x == e.x[plane][k]
             px == g.px[k]
  <2>1. x \in Int /\ px \in Int
    <3>1. x \in Nat
      BY <1>5
    <3>2. px \in Int
      BY <1>3
    <3> QED BY <3>1, <3>2
  <2> HIDE DEF x, px, half
  <2>2. Error(x, px, MaxOf(plane)) \in Int /\ Gap(Error(x, px, MaxOf(plane)), 0) <= MaxOf(plane) \div 2
    BY <2>1, ErrorFits
  <2> QED BY <2>2 DEF x, px, half
<1> HIDE DEF errs, half
<1>8. errs \in [1..lanes -> Int] /\ \A k \in 1..lanes : Gap(errs[k], 0) <= half
  BY <1>6, <1>7
<1>9. WithinHalf(L, plane)
  BY <1>1, <1>3, <1>8, LearnedFits DEF half
<1> HIDE DEF L, sym, f
<1>10. f = [enc |-> TRUE, code |-> Append(e.code, sym), lost |-> f.lost,
            err |-> [e.err EXCEPT ![plane] = errs], x |-> e.x, ctxs |-> [e.ctxs EXCEPT ![plane] = L]]
  BY <1>2 DEF L
<1>11. e.code \in Seq(SymbolsOf(planes, lanes)) /\ e.err \in [planes -> [1..lanes -> Int]]
       /\ e.x \in Samples(planes, lanes)
       /\ DOMAIN e.ctxs = planes
  BY DEF Coder
<1>12. /\ f.code = Append(e.code, sym) /\ f.x = e.x
       /\ f.err = [e.err EXCEPT ![plane] = errs] /\ f.ctxs = [e.ctxs EXCEPT ![plane] = L]
  <2> DEFINE c == Append(e.code, sym)
             r == [e.err EXCEPT ![plane] = errs]
             m == [e.ctxs EXCEPT ![plane] = L]
  <2>1. f = [enc |-> TRUE, code |-> c, lost |-> f.lost, err |-> r, x |-> e.x, ctxs |-> m]
    BY <1>10
  <2> HIDE DEF c, r, m
  <2>2. f.code = c /\ f.x = e.x /\ f.err = r /\ f.ctxs = m
    BY <2>1
  <2> QED BY <2>2 DEF c, r, m
<1>13. f.code \in Seq(SymbolsOf(planes, lanes))
  BY <1>4, <1>11, <1>12
<1>14. f.err \in [planes -> [1..lanes -> Int]]
  BY <1>8, <1>11, <1>12
<1>15. DOMAIN f.ctxs = planes /\ \A p \in planes : WithinHalf(f.ctxs[p], p)
  BY <1>1, <1>9, <1>11, <1>12
<1>16. f = [enc |-> TRUE, code |-> f.code, lost |-> f.lost, err |-> f.err, x |-> f.x, ctxs |-> f.ctxs]
  BY <1>10, <1>12
<1>17. Coder(f, planes, lanes)
  BY <1>11, <1>12, <1>13, <1>14, <1>15, <1>16 DEF Coder
<1> QED BY <1>4, <1>12, <1>17 DEF f, sym, g

\* And of the decoder: T, the whole code, goes on at least as the encoder does.
LEMMA ActTwins ==
    ASSUME NEW planes, NEW plane \in planes, NEW lanes \in Nat, NEW ts \in [1..lanes -> Neighbourhood], NEW extra,
           NEW e, Coder(e, planes, lanes), NEW T \in Seq(SymbolsOf(planes, lanes)), NEW done, NEW d
    PROVE  LET f == Act(e, plane, ts, extra)
           IN  Begins(f.code, T) =>
                 /\ Begins(e.code, T)
                 /\ Twins(e, d, T, done) => Twins(f, Act(d, plane, ts, extra), T, done \cup {plane})
<1> DEFINE f == Act(e, plane, ts, extra)
           sym == MadeSymbol(e.x[plane], plane, Known(e, plane, ts, extra))
           h == Act(d, plane, ts, extra)
           m == Len(e.code)
<1>1. Coder(f, planes, lanes) /\ f.x = e.x /\ f.code = Append(e.code, sym) /\ sym \in SymbolsOf(planes, lanes)
  BY ActKeeps
<1> HIDE DEF f, sym
<1> SUFFICES ASSUME Begins(f.code, T)
             PROVE  Begins(e.code, T) /\ (Twins(e, d, T, done) => Twins(f, h, T, done \cup {plane}))
  BY DEF f
<1>2. e.code \in Seq(SymbolsOf(planes, lanes)) /\ DOMAIN e.x = planes
  BY DEF Coder, Samples
<1>3. Begins(e.code, T) /\ m < Len(T) /\ T[m + 1] = sym /\ m \in Nat
  BY <1>1, <1>2, BeginsBefore
<1>4. Head(SubSeq(T, m + 1, Len(T))) = sym /\ Tail(SubSeq(T, m + 1, Len(T))) = SubSeq(T, m + 2, Len(T))
  BY <1>3, RestOf
<1>5. ASSUME Twins(e, d, T, done) PROVE Twins(f, h, T, done \cup {plane})
  <2>0. Head(SubSeq(T, Len(e.code) + 1, Len(T))) = MadeSymbol(e.x[plane], plane, Known(e, plane, ts, extra))
    BY <1>4 DEF sym
  <2>1. Follows(h, f, [d.x EXCEPT ![plane] = e.x[plane]], Tail(SubSeq(T, m + 1, Len(T))))
    BY <1>5, <2>0, ActOfDecoder DEF f
  <2> DEFINE x2 == [d.x EXCEPT ![plane] = e.x[plane]]
             rest == SubSeq(T, m + 2, Len(T))
  <2> HIDE DEF h
  <2>2. h = [enc |-> FALSE, code |-> rest, lost |-> FALSE, err |-> f.err, x |-> x2, ctxs |-> f.ctxs]
    BY <1>4, <2>1 DEF Follows
  <2>3. Len(f.code) + 1 = m + 2
    BY <1>1, <1>2, <1>3
  <2>4. rest = SubSeq(T, Len(f.code) + 1, Len(T))
    BY <2>3
  <2>5. d.x \in [planes -> Vectors] /\ \A p \in done : d.x[p] = e.x[p]
    BY <1>2, <1>5 DEF Twins
  <2>9. e.x[plane] \in Vectors
    <3>1. e.x[plane] \in [1..lanes -> Int]
      BY DEF Coder, Samples
    <3> QED BY <3>1 DEF Vectors
  <2>6. x2 \in [planes -> Vectors] /\ \A p \in done \cup {plane} : x2[p] = e.x[p]
    BY <2>5, <2>9
  <2> HIDE DEF x2, rest
  <2>7. h.x = x2
    BY <2>2
  <2> QED BY <1>1, <1>2, <2>2, <2>4, <2>6, <2>7 DEF Twins
<1> QED BY <1>3, <1>5

\* What a part of a step does: the encoder goes on from e to f, and the decoder, when it
\* was where the encoder was, from d to h.
Carries(e, f, d, h, T, done, more) ==
    Begins(f.code, T) => Begins(e.code, T) /\ (Twins(e, d, T, done) => Twins(f, h, T, more))

\* One part after the other.
LEMMA CarriesOn ==
    ASSUME NEW a, NEW b, NEW c, NEW p, NEW q, NEW r, NEW T, NEW one, NEW two, NEW three,
           Carries(a, b, p, q, T, one, two), Carries(b, c, q, r, T, two, three)
    PROVE  Carries(a, c, p, r, T, one, three)
BY DEF Carries

\* A state of the coder, and some of its fields set.
StateOf(enc, code, lost, err, x, ctxs) ==
    [enc |-> enc, code |-> code, lost |-> lost, err |-> err, x |-> x, ctxs |-> ctxs]

\* One field.
LEMMA Update ==
    ASSUME NEW enc, NEW code, NEW lost, NEW err, NEW x, NEW ctxs, NEW r
    PROVE  [StateOf(enc, code, lost, err, x, ctxs) EXCEPT !.err = r] = StateOf(enc, code, lost, r, x, ctxs)
BY DEF StateOf

\* Two fields.
LEMMA Updates ==
    ASSUME NEW enc, NEW code, NEW lost, NEW err, NEW x, NEW ctxs, NEW r, NEW y
    PROVE  [StateOf(enc, code, lost, err, x, ctxs) EXCEPT !.err = r, !.x = y] = StateOf(enc, code, lost, r, y, ctxs)
<1> DEFINE st == StateOf(enc, code, lost, err, x, ctxs)
           s1 == [st EXCEPT !.err = r]
           s2 == [s1 EXCEPT !.x = y]
<1>1. [st EXCEPT !.err = r, !.x = y] = s2
  OBVIOUS
<1>2. s1 = [enc |-> enc, code |-> code, lost |-> lost, err |-> r, x |-> x, ctxs |-> ctxs]
  BY DEF StateOf
<1> HIDE DEF s1
<1>3. s2 = [enc |-> enc, code |-> code, lost |-> lost, err |-> r, x |-> y, ctxs |-> ctxs]
  BY <1>2
<1> QED BY <1>1, <1>3 DEF s1, StateOf

\* Errors set by the code of the step, the same on both sides.
LEMMA ErrSet ==
    ASSUME NEW planes, NEW plane \in planes, NEW lanes \in Nat, NEW r \in [1..lanes -> Int],
           NEW e, Coder(e, planes, lanes), NEW T, NEW d, NEW done
    PROVE  LET f == [e EXCEPT !.err[plane] = r]
               h == [d EXCEPT !.err[plane] = r]
           IN  /\ Coder(f, planes, lanes) /\ f.x = e.x
               /\ Carries(e, f, d, h, T, done, done)
<1> DEFINE f == [e EXCEPT !.err[plane] = r]
           h == [d EXCEPT !.err[plane] = r]
           err2 == [e.err EXCEPT ![plane] = r]
<1>1. e = StateOf(TRUE, e.code, e.lost, e.err, e.x, e.ctxs)
  BY DEF Coder, StateOf
<1>2. f = [e EXCEPT !.err = err2]
  OBVIOUS
<1>3. err2 \in [planes -> [1..lanes -> Int]]
  BY DEF Coder
<1> HIDE DEF err2, f
<1>4. f = [enc |-> TRUE, code |-> e.code, lost |-> e.lost, err |-> err2, x |-> e.x, ctxs |-> e.ctxs]
  <2>1. f = [StateOf(TRUE, e.code, e.lost, e.err, e.x, e.ctxs) EXCEPT !.err = err2]
    BY <1>1, <1>2
  <2> QED BY <2>1, Update DEF StateOf
<1>5. f.code = e.code /\ f.lost = e.lost /\ f.err = err2 /\ f.x = e.x /\ f.ctxs = e.ctxs
  BY <1>4
<1>6. Coder(f, planes, lanes)
  <2>1. f = [enc |-> TRUE, code |-> f.code, lost |-> f.lost, err |-> f.err, x |-> f.x, ctxs |-> f.ctxs]
    BY <1>4, <1>5
  <2>2. /\ f.code \in Seq(SymbolsOf(planes, lanes)) /\ f.x \in Samples(planes, lanes)
        /\ DOMAIN f.ctxs = planes /\ \A p \in planes : WithinHalf(f.ctxs[p], p)
    BY <1>5 DEF Coder
  <2> QED BY <1>3, <1>5, <2>1, <2>2 DEF Coder
<1>7. ASSUME Twins(e, d, T, done) PROVE Twins(f, h, T, done)
  <2> DEFINE rest == SubSeq(T, Len(e.code) + 1, Len(T))
  <2>1. d = [enc |-> FALSE, code |-> rest, lost |-> FALSE, err |-> e.err, x |-> d.x, ctxs |-> e.ctxs]
    BY <1>7 DEF Twins
  <2> HIDE DEF rest
  <2>2. d.err = e.err
    BY <2>1
  <2>3. h = [d EXCEPT !.err = err2]
    BY <2>2 DEF err2
  <2> HIDE DEF h
  <2>4. h = [enc |-> FALSE, code |-> rest, lost |-> FALSE, err |-> err2, x |-> d.x, ctxs |-> e.ctxs]
    <3>1. d = StateOf(FALSE, rest, FALSE, e.err, d.x, e.ctxs)
      BY <2>1 DEF StateOf
    <3>2. h = [StateOf(FALSE, rest, FALSE, e.err, d.x, e.ctxs) EXCEPT !.err = err2]
      BY <2>3, <3>1
    <3> QED BY <3>2, Update DEF StateOf
  <2>5. h.x = d.x
    BY <2>4
  <2>6. d.x \in [DOMAIN e.x -> Vectors] /\ \A p \in done : d.x[p] = e.x[p]
    BY <1>7 DEF Twins
  <2> QED BY <1>5, <2>4, <2>5, <2>6 DEF Twins, rest
<1> QED BY <1>5, <1>6, <1>7 DEF Carries, f, h

\* The samples of the encoder stay.
Advances(e, f, d, h, T, done, more, planes, lanes) ==
    Coder(f, planes, lanes) /\ f.x = e.x /\ Carries(e, f, d, h, T, done, more)

\* One plane, for both sides.
LEMMA ActBoth ==
    ASSUME NEW planes, NEW plane \in planes, NEW lanes \in Nat, NEW ts \in [1..lanes -> Neighbourhood], NEW extra,
           NEW e, Coder(e, planes, lanes), NEW T \in Seq(SymbolsOf(planes, lanes)), NEW done, NEW d
    PROVE  Advances(e, Act(e, plane, ts, extra), d, Act(d, plane, ts, extra), T, done, done \cup {plane}, planes, lanes)
<1>1. Coder(Act(e, plane, ts, extra), planes, lanes) /\ Act(e, plane, ts, extra).x = e.x
  BY ActKeeps
<1>2. Begins(Act(e, plane, ts, extra).code, T) =>
         /\ Begins(e.code, T)
         /\ Twins(e, d, T, done) => Twins(Act(e, plane, ts, extra), Act(d, plane, ts, extra), T, done \cup {plane})
  BY ActTwins
<1> QED BY <1>1, <1>2 DEF Carries, Advances

\* The errors of a plane, set.
SetErr(st, plane, r) == [st EXCEPT !.err[plane] = r]

\* With errors set before.
LEMMA SetAndAct ==
    ASSUME NEW planes, NEW plane \in planes, NEW lanes \in Nat, NEW ts \in [1..lanes -> Neighbourhood], NEW extra,
           NEW r \in [1..lanes -> Int],
           NEW e, Coder(e, planes, lanes), NEW T \in Seq(SymbolsOf(planes, lanes)), NEW done, NEW d
    PROVE  Advances(e, Act(SetErr(e, plane, r), plane, ts, extra), d, Act(SetErr(d, plane, r), plane, ts, extra),
                    T, done, done \cup {plane}, planes, lanes)
<1> DEFINE a == SetErr(e, plane, r)
           b == SetErr(d, plane, r)
<1>1. Coder(a, planes, lanes) /\ a.x = e.x /\ Carries(e, a, d, b, T, done, done)
  BY ErrSet DEF SetErr
<1> HIDE DEF a, b
<1>2. Advances(a, Act(a, plane, ts, extra), b, Act(b, plane, ts, extra), T, done, done \cup {plane}, planes, lanes)
  BY <1>1, ActBoth
<1>3. Carries(a, Act(a, plane, ts, extra), b, Act(b, plane, ts, extra), T, done, done \cup {plane})
  BY <1>2 DEF Advances
<1>4. Carries(e, Act(a, plane, ts, extra), d, Act(b, plane, ts, extra), T, done, done \cup {plane})
  BY <1>1, <1>3, CarriesOn
<1> QED BY <1>1, <1>2, <1>4 DEF a, b, Advances

\* clearAtStartOfLine and loadPixels.
LEMMA ReadyBoth ==
    ASSUME NEW planes, NEW lanes \in Nat, NEW step \in StepsOf(planes, lanes),
           NEW e, Coder(e, planes, lanes), NEW T, NEW done, NEW d
    PROVE  /\ Coder(Ready(e, step), planes, lanes) /\ Ready(e, step).x = step.x
           /\ Carries(e, Ready(e, step), d, Ready(d, step), T, done, {})
<1> DEFINE f == Ready(e, step)
           h == Ready(d, step)
           err2 == [p \in DOMAIN e.err |-> [k \in DOMAIN e.err[p] |-> IF k \in step.start THEN 0 ELSE e.err[p][k]]]
<1>1. e = StateOf(TRUE, e.code, e.lost, e.err, e.x, e.ctxs)
  BY DEF Coder, StateOf
<1>2. e.enc
  BY DEF Coder
<1>3. f = [e EXCEPT !.err = err2, !.x = step.x]
  BY <1>2 DEF Ready
<1>4. err2 \in [planes -> [1..lanes -> Int]]
  <2>1. e.err \in [planes -> [1..lanes -> Int]]
    BY DEF Coder
  <2>2. \A p \in planes : [k \in DOMAIN e.err[p] |-> IF k \in step.start THEN 0 ELSE e.err[p][k]] \in [1..lanes -> Int]
    BY <2>1
  <2> QED BY <2>1, <2>2
<1> HIDE DEF err2, f
<1>5. f = [enc |-> TRUE, code |-> e.code, lost |-> e.lost, err |-> err2, x |-> step.x, ctxs |-> e.ctxs]
  <2>1. f = [StateOf(TRUE, e.code, e.lost, e.err, e.x, e.ctxs) EXCEPT !.err = err2, !.x = step.x]
    BY <1>1, <1>3
  <2> QED BY <2>1, Updates DEF StateOf
<1>6. f.code = e.code /\ f.lost = e.lost /\ f.err = err2 /\ f.x = step.x /\ f.ctxs = e.ctxs
  BY <1>5
<1>7. step.x \in Samples(planes, lanes)
  BY DEF StepsOf
<1>8. Coder(f, planes, lanes)
  <2>1. f = [enc |-> TRUE, code |-> f.code, lost |-> f.lost, err |-> f.err, x |-> f.x, ctxs |-> f.ctxs]
    BY <1>5, <1>6
  <2>2. /\ f.code \in Seq(SymbolsOf(planes, lanes))
        /\ DOMAIN f.ctxs = planes /\ \A p \in planes : WithinHalf(f.ctxs[p], p)
    BY <1>6 DEF Coder
  <2> QED BY <1>4, <1>6, <1>7, <2>1, <2>2 DEF Coder
<1>9. ASSUME Twins(e, d, T, done) PROVE Twins(f, h, T, {})
  <2> DEFINE rest == SubSeq(T, Len(e.code) + 1, Len(T))
  <2>1. d = [enc |-> FALSE, code |-> rest, lost |-> FALSE, err |-> e.err, x |-> d.x, ctxs |-> e.ctxs]
    BY <1>9 DEF Twins
  <2> HIDE DEF rest
  <2>2. d.err = e.err /\ ~d.enc
    BY <2>1
  <2>3. h = [d EXCEPT !.err = err2, !.x = d.x]
    BY <2>2 DEF err2, Ready
  <2> HIDE DEF h
  <2>4. h = [enc |-> FALSE, code |-> rest, lost |-> FALSE, err |-> err2, x |-> d.x, ctxs |-> e.ctxs]
    <3>1. d = StateOf(FALSE, rest, FALSE, e.err, d.x, e.ctxs)
      BY <2>1 DEF StateOf
    <3>2. h = [StateOf(FALSE, rest, FALSE, e.err, d.x, e.ctxs) EXCEPT !.err = err2, !.x = d.x]
      BY <2>3, <3>1
    <3> QED BY <3>2, Updates DEF StateOf
  <2>5. h.x = d.x
    BY <2>4
  <2>6. d.x \in [DOMAIN step.x -> Vectors]
    BY <1>7, <1>9 DEF Twins, Coder, Samples
  <2> QED BY <1>6, <2>4, <2>5, <2>6 DEF Twins, rest
<1> QED BY <1>6, <1>8, <1>9 DEF Carries, f, h

\* The errors that the code mixes for a plane are whole numbers.
Mixed2(st, p, q) == [k \in DOMAIN st.err[p] |-> (Errs(st, p, k) + Errs(st, q, k) + 1) \div 2]
Mixed3(st, p, q, r) ==
    [k \in DOMAIN st.err[p] |-> (Errs(st, p, k) + Errs(st, q, k) + Errs(st, r, k) + 1) \div 2]

\* They are.
LEMMA MixedErrors ==
    ASSUME NEW planes, NEW lanes \in Nat, NEW e, Coder(e, planes, lanes), NEW p \in planes, NEW q \in planes,
           NEW r \in planes
    PROVE  Mixed2(e, p, q) \in [1..lanes -> Int] /\ Mixed3(e, p, q, r) \in [1..lanes -> Int]
<1>1. e.err \in [planes -> [1..lanes -> Int]]
  BY DEF Coder
<1>2. DOMAIN e.err[p] = 1..lanes
  BY <1>1
<1>3. \A k \in 1..lanes : Errs(e, p, k) \in Int /\ Errs(e, q, k) \in Int /\ Errs(e, r, k) \in Int
  <2>1. \A s \in planes : \A k \in 1..lanes : Errs(e, s, k) \in Int
    <3> TAKE s \in planes
    <3> TAKE k \in 1..lanes
    <3> DEFINE z == e.err[s][k]
    <3>1. z \in Int
      BY <1>1
    <3>2. Errs(e, s, k) = Gap(z, 0)
      BY DEF Errs
    <3> HIDE DEF z
    <3>3. Gap(z, 0) \in Int
      BY <3>1 DEF Gap
    <3> QED BY <3>2, <3>3
  <2> QED BY <2>1
<1>4. \A x, y, z \in Int : (x + y + 1) \div 2 \in Int /\ (x + y + z + 1) \div 2 \in Int
  OBVIOUS
<1>5. \A k \in 1..lanes : (Errs(e, p, k) + Errs(e, q, k) + 1) \div 2 \in Int
  BY <1>3, <1>4
<1>6. \A k \in 1..lanes : (Errs(e, p, k) + Errs(e, q, k) + Errs(e, r, k) + 1) \div 2 \in Int
  BY <1>3, <1>4
<1> QED BY <1>2, <1>5, <1>6 DEF Mixed2, Mixed3

\* U and a gray plane have no extra context.
None1(ts) == [k \in DOMAIN ts |-> <<>>]

\* U, or the only plane, of encoder and decoder.
LEMMA ActUBoth ==
    ASSUME NEW planes, NEW plane \in planes, NEW lanes \in Nat, NEW t \in [planes -> [1..lanes -> Neighbourhood]],
           NEW e, Coder(e, planes, lanes), NEW T \in Seq(SymbolsOf(planes, lanes)), NEW done, NEW d
    PROVE  Advances(e, Act(e, plane, t[plane], None1(t[plane])), d, Act(d, plane, t[plane], None1(t[plane])),
                    T, done, done \cup {plane}, planes, lanes)
<1>1. t[plane] \in [1..lanes -> Neighbourhood]
  OBVIOUS
<1> QED BY <1>1, ActBoth

\* V, with the errors of U.
LEMMA ActVBoth ==
    ASSUME NEW planes, NEW lanes \in Nat, NEW t \in [planes -> [1..lanes -> Neighbourhood]],
           {"U", "V"} \subseteq planes,
           NEW e, Coder(e, planes, lanes), NEW T \in Seq(SymbolsOf(planes, lanes)), NEW done, NEW d
    PROVE  Advances(e, ActV(e, t), d, ActV(d, t), T, done, done \cup {"V"}, planes, lanes)
<1> DEFINE r(st) == Mixed2(st, "V", "U")
           extra(st) == [k \in DOMAIN t["V"] |-> <<st.err["U"][k] > 0>>]
           Do(st, w, x) == Act(SetErr(st, "V", w), "V", t["V"], x)
<1>1. ActV(e, t) = Do(e, r(e), extra(e)) /\ ActV(d, t) = Do(d, r(d), extra(d))
  BY DEF ActV, SetErr, Mixed2
<1>2. r(e) \in [1..lanes -> Int] /\ t["V"] \in [1..lanes -> Neighbourhood] /\ "V" \in planes
  BY MixedErrors
<1>3. Twins(e, d, T, done) => r(d) = r(e) /\ extra(d) = extra(e)
  <2>1. Twins(e, d, T, done) => d.err = e.err
    BY DEF Twins
  <2> QED BY <2>1 DEF Errs, Mixed2
<1> HIDE DEF r, extra
<1>4. Advances(e, Do(e, r(e), extra(e)), d, Do(d, r(e), extra(e)), T, done, done \cup {"V"}, planes, lanes)
  BY <1>2, SetAndAct
<1> HIDE DEF Do
<1>5. Advances(e, Do(e, r(e), extra(e)), d, Do(d, r(d), extra(d)), T, done, done \cup {"V"}, planes, lanes)
  BY <1>3, <1>4 DEF Carries, Advances
<1> QED BY <1>1, <1>5

\* Y, with the errors of both.
LEMMA ActYBoth ==
    ASSUME NEW planes, {"U", "V", "Y"} \subseteq planes, NEW lanes \in Nat,
           NEW t \in [planes -> [1..lanes -> Neighbourhood]],
           NEW e, Coder(e, planes, lanes), NEW T \in Seq(SymbolsOf(planes, lanes)), NEW done, NEW d
    PROVE  Advances(e, ActY(e, t), d, ActY(d, t), T, done, done \cup {"Y"}, planes, lanes)
<1> DEFINE r(st) == Mixed3(st, "Y", "U", "V")
           extra(st) == [k \in DOMAIN t["Y"] |-> <<st.err["U"][k] > 0, st.err["V"][k] > 0>>]
           Do(st, w, x) == Act(SetErr(st, "Y", w), "Y", t["Y"], x)
<1>1. ActY(e, t) = Do(e, r(e), extra(e)) /\ ActY(d, t) = Do(d, r(d), extra(d))
  BY DEF ActY, SetErr, Mixed3
<1>2. r(e) \in [1..lanes -> Int] /\ t["Y"] \in [1..lanes -> Neighbourhood] /\ "Y" \in planes
  BY MixedErrors
<1>3. Twins(e, d, T, done) => r(d) = r(e) /\ extra(d) = extra(e)
  <2>1. Twins(e, d, T, done) => d.err = e.err
    BY DEF Twins
  <2> QED BY <2>1 DEF Errs, Mixed3
<1> HIDE DEF r, extra
<1>4. Advances(e, Do(e, r(e), extra(e)), d, Do(d, r(e), extra(e)), T, done, done \cup {"Y"}, planes, lanes)
  BY <1>2, SetAndAct
<1> HIDE DEF Do
<1>5. Advances(e, Do(e, r(e), extra(e)), d, Do(d, r(d), extra(d)), T, done, done \cup {"Y"}, planes, lanes)
  BY <1>3, <1>4 DEF Carries, Advances
<1> QED BY <1>1, <1>5

\* One plane after the other.
LEMMA AdvancesOn ==
    ASSUME NEW a, NEW b, NEW c, NEW p, NEW q, NEW r, NEW T, NEW one, NEW two, NEW three, NEW planes, NEW lanes,
           Advances(a, b, p, q, T, one, two, planes, lanes), Advances(b, c, q, r, T, two, three, planes, lanes)
    PROVE  Advances(a, c, p, r, T, one, three, planes, lanes)
BY DEF Advances, Carries

\* All planes of a step.
LEMMA PlanesBoth ==
    ASSUME NEW planes \in PlaneSets, NEW lanes \in Nat, NEW t \in [planes -> [1..lanes -> Neighbourhood]],
           NEW a, Coder(a, planes, lanes), NEW T \in Seq(SymbolsOf(planes, lanes)), NEW p
    PROVE  Advances(a, CodeTemplates(a, t), p, CodeTemplates(p, t), T, {}, planes, planes, lanes)
<1>1. CASE planes = {"Y"}
  <2>1. "U" \notin DOMAIN t /\ "Y" \in planes
    BY <1>1
  <2>2. CodeTemplates(a, t) = Act(a, "Y", t["Y"], None1(t["Y"]))
    BY <2>1 DEF CodeTemplates, ActGray, None1
  <2>3. CodeTemplates(p, t) = Act(p, "Y", t["Y"], None1(t["Y"]))
    BY <2>1 DEF CodeTemplates, ActGray, None1
  <2>4. \A done : Advances(a, Act(a, "Y", t["Y"], None1(t["Y"])), p, Act(p, "Y", t["Y"], None1(t["Y"])),
                           T, done, done \cup {"Y"}, planes, lanes)
    BY <2>1, ActUBoth
  <2>5. {} \cup {"Y"} = planes
    BY <1>1
  <2> QED BY <2>2, <2>3, <2>4, <2>5
<1>2. CASE planes = {"U", "V", "Y"}
  <2> DEFINE u == ActU(a, t)
             v == ActV(u, t)
             y == ActY(v, t)
             uu == ActU(p, t)
             vv == ActV(uu, t)
             yy == ActY(vv, t)
             one == {} \cup {"U"}
             two == one \cup {"V"}
             three == two \cup {"Y"}
  <2>1. "U" \in DOMAIN t /\ "U" \in planes /\ {"U", "V"} \subseteq planes /\ {"U", "V", "Y"} \subseteq planes
    BY <1>2
  <2>2. CodeTemplates(a, t) = y /\ CodeTemplates(p, t) = yy
    BY <2>1 DEF CodeTemplates
  <2>3. u = Act(a, "U", t["U"], None1(t["U"])) /\ uu = Act(p, "U", t["U"], None1(t["U"]))
    BY DEF ActU, None1
  <2>4. three = planes
    BY <1>2
  <2> HIDE DEF u, uu
  <2>5. Advances(a, u, p, uu, T, {}, one, planes, lanes)
    <3>1. \A done : Advances(a, Act(a, "U", t["U"], None1(t["U"])), p, Act(p, "U", t["U"], None1(t["U"])),
                             T, done, done \cup {"U"}, planes, lanes)
      BY <2>1, ActUBoth
    <3> QED BY <2>3, <3>1
  <2>6. Coder(u, planes, lanes)
    BY <2>5 DEF Advances
  <2> HIDE DEF one, v, vv
  <2>7. Advances(u, v, uu, vv, T, one, two, planes, lanes)
    BY <2>1, <2>6, ActVBoth DEF v, vv
  <2>8. Coder(v, planes, lanes)
    BY <2>7 DEF Advances
  <2> HIDE DEF two, y, yy
  <2>9. Advances(v, y, vv, yy, T, two, three, planes, lanes)
    BY <2>1, <2>8, ActYBoth DEF y, yy
  <2> HIDE DEF three
  <2>10. Advances(a, v, p, vv, T, {}, two, planes, lanes)
    BY <2>5, <2>7, AdvancesOn
  <2>11. Advances(a, y, p, yy, T, {}, three, planes, lanes)
    BY <2>9, <2>10, AdvancesOn
  <2> QED BY <2>2, <2>4, <2>11
<1> QED BY <1>1, <1>2 DEF PlaneSets

\* A step: afterwards the decoder has the samples of all planes.
LEMMA StepBoth ==
    ASSUME NEW planes \in PlaneSets, NEW lanes \in Nat, NEW step \in StepsOf(planes, lanes),
           NEW e, Coder(e, planes, lanes), NEW T \in Seq(SymbolsOf(planes, lanes)), NEW d
    PROVE  /\ Coder(CodeStep(e, step), planes, lanes) /\ CodeStep(e, step).x = step.x
           /\ Carries(e, CodeStep(e, step), d, CodeStep(d, step), T, {}, planes)
<1> DEFINE t == step.t
           a == Ready(e, step)
           p == Ready(d, step)
<1>1. Coder(a, planes, lanes) /\ a.x = step.x /\ Carries(e, a, d, p, T, {}, {})
  BY ReadyBoth
<1>2. t \in [planes -> [1..lanes -> Neighbourhood]]
  BY DEF StepsOf
<1>3. CodeStep(e, step) = CodeTemplates(a, t) /\ CodeStep(d, step) = CodeTemplates(p, t)
  BY DEF CodeStep
<1> HIDE DEF a, p, t
<1>4. Advances(a, CodeTemplates(a, t), p, CodeTemplates(p, t), T, {}, planes, planes, lanes)
  BY <1>1, <1>2, PlanesBoth
<1>5. Carries(a, CodeTemplates(a, t), p, CodeTemplates(p, t), T, {}, planes)
  BY <1>4 DEF Advances
<1>6. Carries(e, CodeTemplates(a, t), d, CodeTemplates(p, t), T, {}, planes)
  BY <1>1, <1>5, CarriesOn
<1> QED BY <1>1, <1>3, <1>4, <1>6 DEF Advances

\* The coding loop, as a function of the number of steps done.
CodingLoop(f, base, steps) ==
    f = [num \in 0..Len(steps) |-> IF num = 0 THEN base ELSE Stepped(f[num - 1], steps[num])]

\* There is such a function.
LEMMA RunExists ==
    ASSUME NEW base, NEW steps, Len(steps) \in Nat
    PROVE  \E f : CodingLoop(f, base, steps)
<1> DEFINE To(m, f) == f = [num \in 0..m |-> IF num = 0 THEN base ELSE Stepped(f[num - 1], steps[num])]
           T == {m \in Nat : \E f : To(m, f)}
<1>1. 0 \in T
  <2> DEFINE f == [num \in 0..0 |-> base]
  <2>1. To(0, f)
    OBVIOUS
  <2> QED BY <2>1
<1>2. ASSUME NEW m \in Nat, m \in T PROVE m + 1 \in T
  <2>1. PICK f : To(m, f)
    BY <1>2
  <2> DEFINE h == [num \in 0..(m + 1) |-> IF num <= m THEN f[num] ELSE Stepped(f[m], steps[m + 1])]
  <2>2. \A num \in 0..m : h[num] = f[num]
    OBVIOUS
  <2>3. h[m + 1] = Stepped(h[m], steps[m + 1])
    BY <2>2
  <2>4. \A num \in 0..(m + 1) : h[num] = IF num = 0 THEN base ELSE Stepped(h[num - 1], steps[num])
    <3> TAKE num \in 0..(m + 1)
    <3>1. CASE num = m + 1
      BY <2>3, <3>1
    <3>2. CASE num \in 0..m
      <4>1. f[num] = IF num = 0 THEN base ELSE Stepped(f[num - 1], steps[num])
        BY <2>1, <3>2
      <4>2. num # 0 => f[num - 1] = h[num - 1]
        BY <2>2, <3>2
      <4> QED BY <2>2, <3>2, <4>1, <4>2
    <3> QED BY <3>1, <3>2
  <2> HIDE DEF h
  <2>5. h = [num \in 0..(m + 1) |-> h[num]]
    BY DEF h
  <2>6. To(m + 1, h)
    BY <2>4, <2>5
  <2> QED BY <2>6
<1> HIDE DEF To
<1>3. T = Nat
  <2> HIDE DEF T
  <2>1. T \in SUBSET Nat
    BY DEF T
  <2> QED BY <1>1, <1>2, <2>1, Induction
<1>4. \E f : To(Len(steps), f)
  BY <1>3
<1> QED BY <1>4 DEF To, CodingLoop

\* Before the first step.
Silence(steps) == [p \in DOMAIN steps[1].t |-> [k \in DOMAIN steps[1].t[p] |-> 0]]
FirstState(enc, steps, code) ==
    [enc |-> enc, code |-> code, lost |-> FALSE, err |-> Silence(steps), x |-> Silence(steps),
     ctxs |-> [p \in DOMAIN steps[1].t |-> <<>>]]
FirstRun(enc, steps, code) == [st |-> FirstState(enc, steps, code), out |-> <<>>]

\* CodeSteps is the last value of it.
LEMMA CodeStepsIs ==
    ASSUME NEW enc, NEW steps, NEW code, Len(steps) \in Nat
    PROVE  \E f : CodingLoop(f, FirstRun(enc, steps, code), steps) /\ CodeSteps(enc, steps, code) = f[Len(steps)]
<1> DEFINE base == FirstRun(enc, steps, code)
           run == CHOOSE f : CodingLoop(f, base, steps)
<1>1. CodingLoop(run, base, steps)
  <2>1. \E f : CodingLoop(f, base, steps)
    BY RunExists
  <2> HIDE DEF base
  <2> QED BY <2>1
<1>2. CodeSteps(enc, steps, code) = run[Len(steps)]
  BY DEF CodeSteps, CodingLoop, FirstRun, FirstState, Silence
<1> QED BY <1>1, <1>2

\* At least one step.
Runnable(planes, lanes, steps) == steps \in Seq(StepsOf(planes, lanes)) /\ steps # <<>>

\* The coding loop, step by step.
LEMMA RunsAt ==
    ASSUME NEW f, NEW base, NEW steps, CodingLoop(f, base, steps), Len(steps) \in Nat
    PROVE  f[0] = base /\ \A m \in 1..Len(steps) : f[m] = Stepped(f[m - 1], steps[m])
BY DEF CodingLoop

\* What is kept of a step.
LEMMA SteppedParts ==
    ASSUME NEW r, NEW step
    PROVE  Stepped(r, step).st = CodeStep(r.st, step)
           /\ Stepped(r, step).out = Append(r.out, CodeStep(r.st, step).x)
BY DEF Stepped, Kept

\* Before the first step, and the encoder alone.
LEMMA FirstFits ==
    ASSUME NEW planes, NEW lanes \in Nat, NEW steps, Runnable(planes, lanes, steps)
    PROVE  /\ Coder(FirstState(TRUE, steps, <<>>), planes, lanes)
           /\ \A T : T \in Seq(SymbolsOf(planes, lanes)) =>
                 Twins(FirstState(TRUE, steps, <<>>), FirstState(FALSE, steps, T), T, {})
<1> DEFINE zero == Silence(steps)
           none == [p \in planes |-> <<>>]
<1>1. steps[1] \in StepsOf(planes, lanes)
  BY DEF Runnable
<1>2. DOMAIN steps[1].t = planes /\ \A p \in planes : DOMAIN steps[1].t[p] = 1..lanes
  BY <1>1 DEF StepsOf
<1>3. zero = [p \in planes |-> [k \in 1..lanes |-> 0]]
  BY <1>2 DEF Silence
<1>4. \A enc, code : FirstState(enc, steps, code) =
        [enc |-> enc, code |-> code, lost |-> FALSE, err |-> zero, x |-> zero, ctxs |-> none]
  BY <1>2 DEF FirstState
<1> HIDE DEF zero
<1>5. zero \in [planes -> [1..lanes -> Int]] /\ zero \in [planes -> [1..lanes -> Nat]]
  BY <1>3
<1>6. zero \in Samples(planes, lanes)
  <2>1. \A p \in planes : \A k \in 1..lanes : zero[p][k] \in 0..MaxOf(p)
    BY <1>3, MaxIsNat
  <2> QED BY <1>5, <2>1 DEF Samples
<1>7. DOMAIN none = planes /\ \A p \in planes : WithinHalf(none[p], p)
  BY DEF WithinHalf
<1> HIDE DEF none
<1>8. Coder(FirstState(TRUE, steps, <<>>), planes, lanes)
  <2> DEFINE e == FirstState(TRUE, steps, <<>>)
  <2>1. e = [enc |-> TRUE, code |-> <<>>, lost |-> FALSE, err |-> zero, x |-> zero, ctxs |-> none]
    BY <1>4
  <2> HIDE DEF e
  <2>2. e.code = <<>> /\ e.lost = FALSE /\ e.err = zero /\ e.x = zero /\ e.ctxs = none
    BY <2>1
  <2>3. e.code \in Seq(SymbolsOf(planes, lanes))
    BY <2>2
  <2> QED BY <1>5, <1>6, <1>7, <2>1, <2>2, <2>3 DEF Coder, e
<1>9. ASSUME NEW T, T \in Seq(SymbolsOf(planes, lanes))
      PROVE  Twins(FirstState(TRUE, steps, <<>>), FirstState(FALSE, steps, T), T, {})
  <2> DEFINE e == FirstState(TRUE, steps, <<>>)
             d == FirstState(FALSE, steps, T)
  <2>1. e = [enc |-> TRUE, code |-> <<>>, lost |-> FALSE, err |-> zero, x |-> zero, ctxs |-> none]
    BY <1>4
  <2>2. d = [enc |-> FALSE, code |-> T, lost |-> FALSE, err |-> zero, x |-> zero, ctxs |-> none]
    BY <1>4
  <2> HIDE DEF e, d
  <2>3. Len(e.code) = 0 /\ e.err = zero /\ e.x = zero /\ e.ctxs = none /\ d.x = zero
    BY <2>1, <2>2
  <2>4. SubSeq(T, 1, Len(T)) = T
    BY <1>9
  <2>5. zero \in [DOMAIN zero -> Vectors]
    <3>1. [k \in 1..lanes |-> 0] \in Vectors
      BY DEF Vectors
    <3> QED BY <1>3, <3>1
  <2> DEFINE rest == SubSeq(T, Len(e.code) + 1, Len(T))
  <2>6. rest = T
    BY <2>3, <2>4
  <2> HIDE DEF rest
  <2>7. d = [enc |-> FALSE, code |-> rest, lost |-> FALSE, err |-> e.err, x |-> d.x, ctxs |-> e.ctxs]
    BY <2>2, <2>3, <2>6
  <2> QED BY <2>3, <2>5, <2>7 DEF Twins, rest, e, d
<1> QED BY <1>8, <1>9

\* The encoder after m steps.
EncoderAt(E, m, planes, lanes, steps) == Coder(E[m].st, planes, lanes) /\ E[m].out = [k \in 1..m |-> steps[k].x]
\* And the decoder of T.
DecoderAt(E, D, m, T) ==
    Begins(E[m].st.code, T) => Twins(E[m].st, D[m].st, T, {}) /\ D[m].out = E[m].out

\* One step more.
LEMMA OneMore ==
    ASSUME NEW planes \in PlaneSets, NEW lanes \in Nat, NEW steps, Runnable(planes, lanes, steps),
           NEW T \in Seq(SymbolsOf(planes, lanes)),
           NEW E, NEW D, NEW m \in Nat, m + 1 <= Len(steps),
           E[m + 1] = Stepped(E[m], steps[m + 1]), D[m + 1] = Stepped(D[m], steps[m + 1]),
           EncoderAt(E, m, planes, lanes, steps), DecoderAt(E, D, m, T)
    PROVE  EncoderAt(E, m + 1, planes, lanes, steps) /\ DecoderAt(E, D, m + 1, T)
<1> DEFINE step == steps[m + 1]
           e == E[m].st
           d == D[m].st
           f == CodeStep(e, step)
           h == CodeStep(d, step)
<1>1. step \in StepsOf(planes, lanes) /\ Len(steps) \in Nat
  BY DEF Runnable
<1>2. Coder(e, planes, lanes)
  BY DEF EncoderAt
<1>3. Coder(f, planes, lanes) /\ f.x = step.x /\ Carries(e, f, d, h, T, {}, planes)
  BY <1>1, <1>2, StepBoth
<1>4. E[m + 1].st = f /\ E[m + 1].out = Append(E[m].out, f.x) /\ D[m + 1].st = h /\ D[m + 1].out = Append(D[m].out, h.x)
  <2>1. Stepped(E[m], step).st = CodeStep(E[m].st, step)
        /\ Stepped(E[m], step).out = Append(E[m].out, CodeStep(E[m].st, step).x)
    BY SteppedParts
  <2>2. Stepped(D[m], step).st = CodeStep(D[m].st, step)
        /\ Stepped(D[m], step).out = Append(D[m].out, CodeStep(D[m].st, step).x)
    BY SteppedParts
  <2>3. E[m + 1] = Stepped(E[m], step) /\ D[m + 1] = Stepped(D[m], step)
    OBVIOUS
  <2> HIDE DEF step
  <2> QED BY <2>1, <2>2, <2>3
<1> HIDE DEF f, h
<1>5. E[m + 1].out = [k \in 1..(m + 1) |-> steps[k].x]
  <2>1. E[m].out = [k \in 1..m |-> steps[k].x]
    BY DEF EncoderAt
  <2>2. E[m + 1].out = Append([k \in 1..m |-> steps[k].x], steps[m + 1].x)
    BY <1>3, <1>4, <2>1
  <2>3. \A F : Append([k \in 1..m |-> F[k]], F[m + 1]) = [k \in 1..(m + 1) |-> F[k]]
    OBVIOUS
  <2> DEFINE F == [k \in 1..(m + 1) |-> steps[k].x]
  <2>4. \A k \in 1..m : F[k] = steps[k].x
    OBVIOUS
  <2>5. F[m + 1] = steps[m + 1].x
    OBVIOUS
  <2>6. F = [k \in 1..(m + 1) |-> F[k]]
    OBVIOUS
  <2> HIDE DEF F
  <2>7. [k \in 1..m |-> steps[k].x] = [k \in 1..m |-> F[k]]
    BY <2>4
  <2> QED BY <2>2, <2>3, <2>5, <2>6, <2>7 DEF F
<1>6. EncoderAt(E, m + 1, planes, lanes, steps)
  BY <1>3, <1>4, <1>5 DEF EncoderAt
<1>7. ASSUME Begins(f.code, T) PROVE Twins(f, h, T, {}) /\ h.x = f.x /\ D[m].out = E[m].out
  <2>1. Begins(e.code, T) /\ (Twins(e, d, T, {}) => Twins(f, h, T, planes))
    BY <1>3, <1>7 DEF Carries
  <2>2. Twins(e, d, T, {}) /\ D[m].out = E[m].out
    BY <2>1 DEF DecoderAt
  <2>3. Twins(f, h, T, planes)
    BY <2>1, <2>2
  <2>4. f.x \in [planes -> [1..lanes -> Nat]] /\ DOMAIN f.x = planes
    BY <1>3 DEF Coder, Samples
  <2>5. h.x \in [planes -> Vectors] /\ \A p \in planes : h.x[p] = f.x[p]
    BY <2>3, <2>4 DEF Twins
  <2>6. h.x = f.x
    BY <2>4, <2>5
  <2>7. Twins(f, h, T, {})
    BY <2>3 DEF Twins
  <2> QED BY <2>2, <2>6, <2>7
<1>8. DecoderAt(E, D, m + 1, T)
  BY <1>4, <1>7 DEF DecoderAt
<1> QED BY <1>6, <1>8

\* And any number of them.
LEMMA AllSteps ==
    ASSUME NEW planes \in PlaneSets, NEW lanes \in Nat, NEW steps, Runnable(planes, lanes, steps),
           NEW T \in Seq(SymbolsOf(planes, lanes)),
           NEW E, CodingLoop(E, FirstRun(TRUE, steps, <<>>), steps),
           NEW D, CodingLoop(D, FirstRun(FALSE, steps, T), steps)
    PROVE  \A m \in 0..Len(steps) : EncoderAt(E, m, planes, lanes, steps) /\ DecoderAt(E, D, m, T)
<1> DEFINE S == {m \in Nat : m <= Len(steps) => EncoderAt(E, m, planes, lanes, steps) /\ DecoderAt(E, D, m, T)}
<1>1. Len(steps) \in Nat
  BY DEF Runnable
<1>2. /\ E[0] = FirstRun(TRUE, steps, <<>>) /\ \A m \in 1..Len(steps) : E[m] = Stepped(E[m - 1], steps[m])
      /\ D[0] = FirstRun(FALSE, steps, T) /\ \A m \in 1..Len(steps) : D[m] = Stepped(D[m - 1], steps[m])
  <2>1. E[0] = FirstRun(TRUE, steps, <<>>) /\ \A m \in 1..Len(steps) : E[m] = Stepped(E[m - 1], steps[m])
    <3> DEFINE base == FirstRun(TRUE, steps, <<>>)
    <3>1. CodingLoop(E, base, steps)
      OBVIOUS
    <3> HIDE DEF base
    <3>2. E[0] = base /\ \A m \in 1..Len(steps) : E[m] = Stepped(E[m - 1], steps[m])
      BY <1>1, <3>1, RunsAt
    <3> QED BY <3>2 DEF base
  <2>2. D[0] = FirstRun(FALSE, steps, T) /\ \A m \in 1..Len(steps) : D[m] = Stepped(D[m - 1], steps[m])
    <3> DEFINE base == FirstRun(FALSE, steps, T)
    <3>1. CodingLoop(D, base, steps)
      OBVIOUS
    <3> HIDE DEF base
    <3>2. D[0] = base /\ \A m \in 1..Len(steps) : D[m] = Stepped(D[m - 1], steps[m])
      BY <1>1, <3>1, RunsAt
    <3> QED BY <3>2 DEF base
  <2> QED BY <2>1, <2>2
<1>3. 0 \in S
  <2>1. E[0].st = FirstState(TRUE, steps, <<>>) /\ E[0].out = <<>>
        /\ D[0].st = FirstState(FALSE, steps, T) /\ D[0].out = <<>>
    BY <1>2 DEF FirstRun
  <2>2. [k \in 1..0 |-> steps[k].x] = <<>>
    OBVIOUS
  <2>3. EncoderAt(E, 0, planes, lanes, steps)
    BY <2>1, <2>2, FirstFits DEF EncoderAt
  <2>4. DecoderAt(E, D, 0, T)
    BY <2>1, FirstFits DEF DecoderAt
  <2> QED BY <2>3, <2>4
<1>4. ASSUME NEW m \in Nat, m \in S PROVE m + 1 \in S
  <2> SUFFICES ASSUME m + 1 <= Len(steps)
               PROVE  EncoderAt(E, m + 1, planes, lanes, steps) /\ DecoderAt(E, D, m + 1, T)
    OBVIOUS
  <2>1. EncoderAt(E, m, planes, lanes, steps) /\ DecoderAt(E, D, m, T)
    BY <1>1, <1>4
  <2>2. m + 1 \in 1..Len(steps) /\ m + 1 - 1 = m
    BY <1>1
  <2>3. E[m + 1] = Stepped(E[m], steps[m + 1]) /\ D[m + 1] = Stepped(D[m], steps[m + 1])
    BY <1>2, <2>2
  <2> QED BY <2>1, <2>3, OneMore
<1>5. S = Nat
  <2> HIDE DEF S
  <2>1. S \in SUBSET Nat
    BY DEF S
  <2> QED BY <1>3, <1>4, <2>1, Induction
<1> QED BY <1>1, <1>5

\* The mean errors are of 16 bits.
MeansAreShort(ctxs) == \A p \in DOMAIN ctxs : \A a \in DOMAIN ctxs[p] : Int16(ctxs[p][a])

\* The samples of every step, and what both sides have learned, as SamplesSurvive has it.
Survived(steps, e, d) ==
    /\ d.out = e.out /\ d.out = [k \in DOMAIN steps |-> steps[k].x]
    /\ ~d.st.lost /\ d.st.code = <<>> /\ d.st.ctxs = e.st.ctxs
    /\ \A k \in DOMAIN e.st.code : \A j \in DOMAIN e.st.code[k].w :
           e.st.code[k].w[j] \in 0..MaxOf(e.st.code[k].plane)
    /\ MeansAreShort(e.st.ctxs)

\* A mean error within 128 times 255 is of 16 bits.
LEMMA FineIsShort ==
    ASSUME NEW c \in Int, NEW half \in 0..255, Gap(c, 0) <= FineScale * half
    PROVE  Int16(c)
<1>1. Gap(c, 0) <= 32640
  BY DEF FineScale, Gap
<1> QED BY <1>1 DEF Gap, Int16

\* Those of every plane are.
LEMMA HalfIsShort ==
    ASSUME NEW c \in Int, NEW plane, Gap(c, 0) <= FineScale * (MaxOf(plane) \div 2)
    PROVE  Int16(c)
<1>1. PICK half \in 0..255 : half = MaxOf(plane) \div 2
  BY HalfFits
<1>2. Gap(c, 0) <= FineScale * half
  BY <1>1
<1> QED BY <1>2, FineIsShort

\* fnbliCodec1, fnbliCodec16: any number of lanes, any number of steps.
THEOREM FnbliReturns ==
    \A planes \in PlaneSets, lanes \in Nat : \A steps \in Seq(StepsOf(planes, lanes)) :
       steps # <<>> =>
          LET e == CodeSteps(TRUE, steps, <<>>)
          IN  Survived(steps, e, CodeSteps(FALSE, steps, e.st.code))
<1> SUFFICES ASSUME NEW planes \in PlaneSets, NEW lanes \in Nat, NEW steps \in Seq(StepsOf(planes, lanes)), steps # <<>>
             PROVE  LET e == CodeSteps(TRUE, steps, <<>>)
                    IN  Survived(steps, e, CodeSteps(FALSE, steps, e.st.code))
  OBVIOUS
<1> DEFINE e == CodeSteps(TRUE, steps, <<>>)
           T == e.st.code
           d == CodeSteps(FALSE, steps, T)
           N == Len(steps)
<1>1. Runnable(planes, lanes, steps) /\ N \in Nat /\ DOMAIN steps = 1..N
  BY DEF Runnable
<1>2. PICK E : CodingLoop(E, FirstRun(TRUE, steps, <<>>), steps) /\ e = E[N]
  BY <1>1, CodeStepsIs
<1> HIDE DEF e
<1>3. PICK D : CodingLoop(D, FirstRun(FALSE, steps, T), steps) /\ d = D[N]
  BY <1>1, CodeStepsIs
<1> HIDE DEF d
<1>4. EncoderAt(E, N, planes, lanes, steps)
  <2>1. <<>> \in Seq(SymbolsOf(planes, lanes))
    OBVIOUS
  <2>2. PICK F : CodingLoop(F, FirstRun(FALSE, steps, <<>>), steps)
    BY <1>1, RunExists
  <2>3. \A m \in 0..Len(steps) : EncoderAt(E, m, planes, lanes, steps) /\ DecoderAt(E, F, m, <<>>)
    BY <1>1, <1>2, <2>1, <2>2, AllSteps
  <2> QED BY <1>1, <2>3
<1>5. Coder(e.st, planes, lanes) /\ e.out = [k \in 1..N |-> steps[k].x]
  BY <1>2, <1>4 DEF EncoderAt
<1>6. T \in Seq(SymbolsOf(planes, lanes))
  BY <1>5 DEF Coder
<1> HIDE DEF T
<1>7. DecoderAt(E, D, N, T)
  <2>1. \A m \in 0..Len(steps) : EncoderAt(E, m, planes, lanes, steps) /\ DecoderAt(E, D, m, T)
    BY <1>1, <1>2, <1>3, <1>6, AllSteps
  <2> QED BY <1>1, <2>1
<1>8. Begins(e.st.code, T)
  BY <1>6 DEF Begins, T
<1>9. Twins(e.st, d.st, T, {}) /\ d.out = e.out
  BY <1>2, <1>3, <1>7, <1>8 DEF DecoderAt
<1>10. ~d.st.lost /\ d.st.code = <<>> /\ d.st.ctxs = e.st.ctxs
  <2> DEFINE rest == SubSeq(T, Len(T) + 1, Len(T))
             s == d.st
  <2>1. s = [enc |-> FALSE, code |-> rest, lost |-> FALSE, err |-> e.st.err, x |-> s.x, ctxs |-> e.st.ctxs]
    BY <1>9 DEF Twins, T
  <2>2. rest = <<>>
    BY <1>6
  <2> HIDE DEF rest, s
  <2>3. ~s.lost /\ s.code = rest /\ s.ctxs = e.st.ctxs
    BY <2>1
  <2> QED BY <2>2, <2>3 DEF s
<1>11. \A k \in DOMAIN e.st.code : \A j \in DOMAIN e.st.code[k].w :
           e.st.code[k].w[j] \in 0..MaxOf(e.st.code[k].plane)
  <2> SUFFICES ASSUME NEW k \in DOMAIN e.st.code, NEW j \in DOMAIN e.st.code[k].w
               PROVE  e.st.code[k].w[j] \in 0..MaxOf(e.st.code[k].plane)
    OBVIOUS
  <2>1. e.st.code[k] \in SymbolsOf(planes, lanes)
    BY <1>6 DEF T
  <2> DEFINE s == e.st.code[k]
  <2>2. DOMAIN s.w = 1..lanes /\ \A i \in 1..lanes : s.w[i] \in 0..MaxOf(s.plane)
    BY <2>1 DEF SymbolsOf
  <2> QED BY <2>2
<1>12. MeansAreShort(e.st.ctxs)
  <2> DEFINE ctxs == e.st.ctxs
  <2>1. \A p \in DOMAIN ctxs : WithinHalf(ctxs[p], p)
    BY <1>5 DEF Coder
  <2> HIDE DEF ctxs
  <2>2. ASSUME NEW p \in DOMAIN ctxs, NEW a \in DOMAIN ctxs[p]
        PROVE  Int16(ctxs[p][a])
    <3>1. ctxs[p][a] \in Int /\ Gap(ctxs[p][a], 0) <= FineScale * (MaxOf(p) \div 2)
      BY <2>1 DEF WithinHalf
    <3> DEFINE c == ctxs[p][a]
    <3> HIDE DEF c
    <3>2. c \in Int /\ Gap(c, 0) <= FineScale * (MaxOf(p) \div 2)
      BY <3>1 DEF c
    <3>3. Int16(c)
      BY <3>2, HalfIsShort
    <3> QED BY <3>3 DEF c
  <2>3. MeansAreShort(ctxs)
    BY <2>2 DEF MeansAreShort
  <2> QED BY <2>3 DEF ctxs
<1>13. d.out = [k \in DOMAIN steps |-> steps[k].x]
  BY <1>1, <1>5, <1>9
<1>14. Survived(steps, e, d)
  BY <1>9, <1>10, <1>11, <1>12, <1>13 DEF Survived
<1> QED BY <1>14 DEF e, d, T

\* What SamplesSurvive says of both results.
LEMMA FnbliSurvives ==
    ASSUME NEW steps \in StepSeqs
    PROVE  LET both == FnbliBothWays(steps) IN Survived(steps, both[1], both[2])
<1> DEFINE lanes == Len(steps[1].t["Y"])
<1>1. PICK planes \in PlaneSets : steps \in Seq(StepsOf(planes, lanes))
  BY StepSeqsAssumption
<1>2. steps # <<>>
  BY StepSeqsAssumption
<1>3. 1 \in DOMAIN steps
  BY <1>1, <1>2
<1>4. lanes \in Nat
  <2>1. steps[1] \in StepsOf(planes, lanes)
    BY <1>1, <1>3
  <2>2. "Y" \in planes
    BY DEF PlaneSets
  <2> HIDE DEF lanes
  <2>3. steps[1].t["Y"] \in [1..lanes -> Neighbourhood]
    BY <2>1, <2>2 DEF StepsOf
  <2> QED BY <2>3 DEF lanes
<1> HIDE DEF lanes
<1> QED BY <1>1, <1>2, <1>4, FnbliReturns DEF FnbliBothWays

\* A result is that of the input.
Computed ==
    /\ kind = "fnbli" => input \in StepSeqs
    /\ Has("fnbli") => result = FnbliBothWays(input)

\* fnbliCodec1, fnbliCodec16: what the decoder makes of the symbols of any steps.
THEOREM SamplesAlwaysSurvive == AlgSpec => []SamplesSurvive
<1>1. AlgInit => Computed
  BY DEF AlgInit, Computed, Has
<1>2. Computed /\ [AlgNext]_algVars => Computed'
  BY DEF AlgNext, algVars, Compute, Computed, Has
<1>3. Computed => SamplesSurvive
  <2> SUFFICES ASSUME Computed, Has("fnbli") PROVE SamplesSurvive
    BY DEF SamplesSurvive
  <2>1. Survived(input, FnbliBothWays(input)[1], FnbliBothWays(input)[2])
    BY FnbliSurvives DEF Computed, Has
  <2>2. Survived(input, result[1], result[2])
    BY <2>1 DEF Computed
  <2> QED BY <2>2 DEF Survived, SamplesSurvive, MeansAreShort
<1> QED BY <1>1, <1>2, <1>3, PTL DEF AlgSpec

-----------------------------------------------------------------------------
(* The model of a plane of NBLI: numbers all through.                      *)

\* The fields of a model that hold numbers, and all of them.
Numbers == {"err2", "a", "b", "c", "d", "e", "f", "g", "h", "q", "r", "s", "errSOL", "bSOL", "dSOL", "xSOL"}
Fields == Numbers \cup {"maxval", "near", "SOL", "ctxs"}

\* The mean errors of the contexts are numbers.
MeansAreInt(ctxs) == \A a \in DOMAIN ctxs : ctxs[a] \in Int

\* The model of a plane of levels 0..top.
ModelFits(m, top, near) ==
    /\ DOMAIN m = Fields /\ m.maxval = top /\ m.near = near /\ m.SOL \in BOOLEAN
    /\ \A field \in Numbers : m[field] \in Int
    /\ MeansAreInt(m.ctxs)

\* Each of the numbers.
LEMMA NumbersOf ==
    ASSUME NEW m, NEW top, NEW near, ModelFits(m, top, near)
    PROVE  /\ m.err2 \in Int /\ m.a \in Int /\ m.b \in Int /\ m.c \in Int /\ m.d \in Int /\ m.e \in Int
           /\ m.f \in Int /\ m.g \in Int /\ m.h \in Int /\ m.q \in Int /\ m.r \in Int /\ m.s \in Int
           /\ m.errSOL \in Int /\ m.bSOL \in Int /\ m.dSOL \in Int /\ m.xSOL \in Int
<1>1. \A field \in Numbers : m[field] \in Int
  BY DEF ModelFits
<1> QED BY <1>1 DEF Numbers

\* The constructor.
LEMMA FreshFits ==
    ASSUME NEW top \in Nat, NEW near \in Nat
    PROVE  ModelFits(Fresh(top, near), top, near)
<1> DEFINE mid == (top + 1) \div 2
<1>1. mid \in Int
  OBVIOUS
<1> HIDE DEF mid
<1>2. Fresh(top, near) =
        [maxval |-> top, near |-> near, SOL |-> FALSE, err2 |-> 0, ctxs |-> <<>>,
         a |-> mid, b |-> mid, c |-> mid, d |-> mid, e |-> mid, f |-> mid,
         g |-> mid, h |-> mid, q |-> mid, r |-> mid, s |-> mid,
         errSOL |-> 0, bSOL |-> mid, dSOL |-> mid, xSOL |-> mid]
  BY DEF Fresh, mid
<1> DEFINE m == Fresh(top, near)
<1>3. DOMAIN m = Fields
  BY <1>2 DEF Fields, Numbers
<1>4. m.maxval = top /\ m.near = near /\ m.SOL \in BOOLEAN /\ m.ctxs = <<>>
  BY <1>2
<1>5. \A field \in Numbers : m[field] \in Int
  BY <1>1, <1>2 DEF Numbers
<1>6. MeansAreInt(m.ctxs)
  BY <1>4 DEF MeansAreInt
<1> HIDE DEF m
<1> QED BY <1>3, <1>4, <1>5, <1>6 DEF ModelFits, m

\* prepareAtStartOfLine().
LEMMA StartFits ==
    ASSUME NEW m, NEW top, NEW near, ModelFits(m, top, near)
    PROVE  ModelFits(AtStartOfLine(m), top, near)
<1> DEFINE w == AtStartOfLine(m)
<1>1. DOMAIN m = Fields
  BY DEF ModelFits
<1>2. DOMAIN w = Fields
  BY <1>1 DEF AtStartOfLine
<1>3. w.maxval = m.maxval /\ w.near = m.near /\ w.SOL = TRUE /\ w.ctxs = m.ctxs
  BY <1>1 DEF AtStartOfLine, Fields, Numbers
<1>4. \A field \in Numbers : w[field] \in Int
  BY <1>1, NumbersOf DEF AtStartOfLine, Fields, Numbers
<1> HIDE DEF w
<1> QED BY <1>2, <1>3, <1>4 DEF ModelFits, w

\* moveTemplate().
LEMMA MovedFits ==
    ASSUME NEW m, NEW top, NEW near, ModelFits(m, top, near), NEW x \in Int
    PROVE  ModelFits(Moved(m, x), top, near)
<1> DEFINE v == IF m.SOL THEN [m EXCEPT !.SOL = FALSE, !.errSOL = m.err2, !.bSOL = m.b,
                                        !.dSOL = m.d, !.xSOL = x] ELSE m
           w == Moved(m, x)
<1>1. DOMAIN m = Fields
  BY DEF ModelFits
<1>2. DOMAIN v = Fields /\ v.maxval = m.maxval /\ v.near = m.near /\ v.SOL \in BOOLEAN /\ v.ctxs = m.ctxs
  BY <1>1 DEF ModelFits, Fields, Numbers
<1>3. \A field \in Numbers : v[field] \in Int
  BY <1>1, NumbersOf DEF Fields, Numbers
<1>4. w = [v EXCEPT !.s = m.h, !.h = m.f, !.f = m.g, !.g = m.r,
                    !.q = m.c, !.c = m.b, !.b = m.d, !.e = m.a, !.a = x]
  BY DEF Moved
<1> HIDE DEF v, w
<1>5. DOMAIN w = Fields /\ w.maxval = v.maxval /\ w.near = v.near /\ w.SOL = v.SOL /\ w.ctxs = v.ctxs
  BY <1>2, <1>4 DEF Fields, Numbers
<1>6. \A field \in Numbers : w[field] \in Int
  BY <1>2, <1>3, <1>4, NumbersOf DEF Fields, Numbers
<1> QED BY <1>2, <1>5, <1>6 DEF ModelFits, w

\* Some of its numbers replaced.
LEMMA ErrSetFits ==
    ASSUME NEW m, NEW top, NEW near, ModelFits(m, top, near), NEW r \in Int
    PROVE  ModelFits([m EXCEPT !.err2 = r], top, near)
<1> DEFINE w == [m EXCEPT !.err2 = r]
<1>1. DOMAIN m = Fields
  BY DEF ModelFits
<1>2. DOMAIN w = Fields /\ w.maxval = m.maxval /\ w.near = m.near /\ w.SOL = m.SOL /\ w.ctxs = m.ctxs
  BY <1>1 DEF Fields, Numbers
<1>3. \A field \in Numbers : w[field] \in Int
  BY <1>1, NumbersOf DEF Fields, Numbers
<1> HIDE DEF w
<1> QED BY <1>2, <1>3 DEF ModelFits, w

\* The neighbours to the right, set.
LEMMA RightSetFits ==
    ASSUME NEW m, NEW top, NEW near, ModelFits(m, top, near), NEW u \in Int, NEW v \in Int
    PROVE  ModelFits([m EXCEPT !.d = u, !.r = v], top, near)
<1> DEFINE w == [m EXCEPT !.d = u, !.r = v]
<1>1. DOMAIN m = Fields
  BY DEF ModelFits
<1>2. DOMAIN w = Fields /\ w.maxval = m.maxval /\ w.near = m.near /\ w.SOL = m.SOL /\ w.ctxs = m.ctxs
  BY <1>1 DEF Fields, Numbers
<1>3. \A field \in Numbers : w[field] \in Int
  BY <1>1, NumbersOf DEF Fields, Numbers
<1> HIDE DEF w
<1> QED BY <1>2, <1>3 DEF ModelFits, w

\* The cheapest of seven directions is one of them.
LEMMA BestIsOne ==
    ASSUME NEW cost \in [1..7 -> Nat]
    PROVE  Best(cost) \in 1..7
<1> DEFINE values == {cost[k] : k \in 1..7}
           IsBest(k) == \A j \in 1..7 : cost[k] < cost[j] \/ (cost[k] = cost[j] /\ k <= j)
<1>1. values \in SUBSET Nat /\ cost[1] \in values
  OBVIOUS
<1>2. PICK least \in values : \A v \in values : least <= v
  <2> HIDE DEF values
  <2> QED BY <1>1, LeastOf
<1> DEFINE where == {k \in 1..7 : cost[k] = least}
<1>3. PICK j \in where : TRUE
  BY <1>2
<1>4. PICK k \in where : \A i \in where : k <= i
  <2>1. where \in SUBSET Nat
    OBVIOUS
  <2> HIDE DEF where
  <2> QED BY <1>3, <2>1, LeastOf
<1>5. \A i \in 1..7 : least \in Nat /\ cost[i] \in Nat /\ least <= cost[i]
  BY <1>1, <1>2
<1>6. k \in 1..7 /\ cost[k] = least
  BY <1>4
<1>7. IsBest(k)
  <2> TAKE i \in 1..7
  <2>1. CASE cost[i] = least
    BY <1>4, <1>6, <2>1
  <2>2. CASE cost[i] # least
    BY <1>5, <1>6, <2>2
  <2> QED BY <2>1, <2>2
<1>8. Best(cost) = CHOOSE i \in 1..7 : IsBest(i)
  BY DEF Best
<1> HIDE DEF IsBest
<1> QED BY <1>6, <1>7, <1>8

\* A difference is not negative.
LEMMA GapIsNat ==
    ASSUME NEW x \in Int, NEW y \in Int
    PROVE  Gap(x, y) \in Nat
BY DEF Gap

\* What the directions make of the neighbours.
LEMMA DirectionsAreInt ==
    ASSUME NEW m, NEW top, NEW near, ModelFits(m, top, near)
    PROVE  \A k \in 1..7 : \A i \in 1..5 : Directions(m)[k][i] \in Int
<1> DEFINE d == Directions(m)
           AllInt(t) == \A i \in 1..5 : t[i] \in Int
<1>1. /\ m.a \in Int /\ m.b \in Int /\ m.c \in Int /\ m.d \in Int /\ m.e \in Int
      /\ m.f \in Int /\ m.g \in Int /\ m.h \in Int /\ m.q \in Int /\ m.r \in Int /\ m.s \in Int
  BY NumbersOf
<1>2. d = << <<2 * m.e, 2 * m.q, 2 * m.c, 2 * m.b, 2 * m.a>>,
             <<2 * m.c, 2 * m.h, 2 * m.f, 2 * m.g, 2 * m.b>>,
             <<2 * m.q, 2 * m.s, 2 * m.h, 2 * m.f, 2 * m.c>>,
             <<2 * m.b, 2 * m.f, 2 * m.g, 2 * m.r, 2 * m.d>>,
             <<m.e + m.q, m.q + m.s, m.c + m.h, m.b + m.f, m.a + m.c>>,
             <<m.q + m.c, m.s + m.h, m.h + m.f, m.f + m.g, m.c + m.b>>,
             <<m.c + m.b, m.h + m.f, m.f + m.g, m.g + m.r, m.b + m.d>> >>
  BY DEF Directions
<1> HIDE DEF d
<1>3. AllInt(<<2 * m.e, 2 * m.q, 2 * m.c, 2 * m.b, 2 * m.a>>)
  BY <1>1
<1>4. AllInt(<<2 * m.c, 2 * m.h, 2 * m.f, 2 * m.g, 2 * m.b>>)
  BY <1>1
<1>5. AllInt(<<2 * m.q, 2 * m.s, 2 * m.h, 2 * m.f, 2 * m.c>>)
  BY <1>1
<1>6. AllInt(<<2 * m.b, 2 * m.f, 2 * m.g, 2 * m.r, 2 * m.d>>)
  BY <1>1
<1>7. AllInt(<<m.e + m.q, m.q + m.s, m.c + m.h, m.b + m.f, m.a + m.c>>)
  BY <1>1
<1>8. AllInt(<<m.q + m.c, m.s + m.h, m.h + m.f, m.f + m.g, m.c + m.b>>)
  BY <1>1
<1>9. AllInt(<<m.c + m.b, m.h + m.f, m.f + m.g, m.g + m.r, m.b + m.d>>)
  BY <1>1
<1>10. /\ d[1] = <<2 * m.e, 2 * m.q, 2 * m.c, 2 * m.b, 2 * m.a>>
       /\ d[2] = <<2 * m.c, 2 * m.h, 2 * m.f, 2 * m.g, 2 * m.b>>
       /\ d[3] = <<2 * m.q, 2 * m.s, 2 * m.h, 2 * m.f, 2 * m.c>>
       /\ d[4] = <<2 * m.b, 2 * m.f, 2 * m.g, 2 * m.r, 2 * m.d>>
       /\ d[5] = <<m.e + m.q, m.q + m.s, m.c + m.h, m.b + m.f, m.a + m.c>>
       /\ d[6] = <<m.q + m.c, m.s + m.h, m.h + m.f, m.f + m.g, m.c + m.b>>
       /\ d[7] = <<m.c + m.b, m.h + m.f, m.f + m.g, m.g + m.r, m.b + m.d>>
  BY <1>2
<1> HIDE DEF AllInt
<1>11. \A k \in 1..7 : AllInt(d[k])
  BY <1>3, <1>4, <1>5, <1>6, <1>7, <1>8, <1>9, <1>10
<1> QED BY <1>11 DEF d, AllInt

\* How badly they fit is not negative.
LEMMA CostsAreNat ==
    ASSUME NEW m, NEW top, NEW near, ModelFits(m, top, near)
    PROVE  Costs(m, Directions(m)) \in [1..7 -> Nat]
<1> DEFINE d == Directions(m)
<1>1. \A k \in 1..7 : \A i \in 1..5 : d[k][i] \in Int
  BY DirectionsAreInt
<1>2. 2 * m.a \in Int /\ 2 * m.c \in Int /\ 2 * m.b \in Int /\ 2 * m.d \in Int
  BY NumbersOf
<1> HIDE DEF d
<1>3. ASSUME NEW k \in 1..7
      PROVE  Gap(2 * m.a, d[k][1]) + Gap(2 * m.c, d[k][2]) + Gap(2 * m.b, d[k][3]) + Gap(2 * m.d, d[k][4]) \in Nat
  <2>1. d[k][1] \in Int /\ d[k][2] \in Int /\ d[k][3] \in Int /\ d[k][4] \in Int
    BY <1>1
  <2>2. Gap(2 * m.a, d[k][1]) \in Nat /\ Gap(2 * m.c, d[k][2]) \in Nat
        /\ Gap(2 * m.b, d[k][3]) \in Nat /\ Gap(2 * m.d, d[k][4]) \in Nat
    BY <1>2, <2>1, GapIsNat
  <2> QED BY <2>2
<1> QED BY <1>3 DEF Costs, d

\* clip() of numbers.
LEMMA ClipIsInt ==
    ASSUME NEW x \in Int, NEW low \in Int, NEW high \in Int
    PROVE  Clip(x, low, high) \in Int
BY DEF Clip

\* The two predictions, weighed.
LEMMA BlendIsInt ==
    ASSUME NEW wt \in Int, NEW flat \in Int, NEW along \in Int
    PROVE  Blend(wt, flat, along) \in Int
<1> DEFINE z == (8 - wt) * flat + wt * along + 8
<1>1. z \in Int
  OBVIOUS
<1>2. Blend(wt, flat, along) = z \div 16
  BY DEF Blend
<1> HIDE DEF z
<1> QED BY <1>1, <1>2

\* The prediction for flat places.
LEMMA FlatIsInt ==
    ASSUME NEW m, NEW top \in Nat, NEW near, ModelFits(m, top, near)
    PROVE  Flat(m) \in Int
<1> DEFINE z == 9 * (m.a + m.b) + 2 * (m.d - m.c) - m.e - m.f + 4
           q == z \div 8
           high == 2 * m.maxval
<1>1. z \in Int
  BY NumbersOf
<1> HIDE DEF z
<1>2. q \in Int
  BY <1>1
<1>3. high \in Int
  BY DEF ModelFits
<1>4. Flat(m) = Clip(q, 0, high)
  BY DEF Flat, z
<1> HIDE DEF q, high
<1> QED BY <1>2, <1>3, <1>4, ClipIsInt

\* predict().
LEMMA PxIsInt ==
    ASSUME NEW m, NEW top \in Nat, NEW near, ModelFits(m, top, near)
    PROVE  Px(m) \in Int
<1> DEFINE dirs == Directions(m)
           cost == Costs(m, dirs)
           best == Best(cost)
           rough == (Total(cost) - 7 * cost[best]) \div 8
           wt == Step(PtSteps, rough)
           along == dirs[best][5]
           flat == Flat(m)
<1>1. cost \in [1..7 -> Nat]
  BY CostsAreNat
<1>2. \A k \in 1..7 : \A i \in 1..5 : dirs[k][i] \in Int
  BY DirectionsAreInt
<1>3. Px(m) = Blend(wt, flat, along)
  BY DEF Px, Weighed
<1> HIDE DEF dirs, cost
<1>4. best \in 1..7
  BY <1>1, BestIsOne
<1> HIDE DEF best
<1>5. wt \in Nat
  BY SteppedIsNat, TablesAreFinite
<1> HIDE DEF wt
<1>6. along \in Int
  BY <1>2, <1>4
<1>7. flat \in Int
  BY FlatIsInt
<1> HIDE DEF along, flat
<1> QED BY <1>3, <1>5, <1>6, <1>7, BlendIsInt

\* prepare(): the guess is a sample, and a sign a bit.
PreparedFits(p, top) ==
    p.px \in Int /\ p.ctx \in Int /\ p.sign \in {0, 1} /\ p.pxc \in 0..top /\ p.qd \in Nat

\* The guess, corrected by any mean error.
LEMMA CorrectedByFits ==
    ASSUME NEW m, NEW top \in Nat, m.maxval = top, NEW px \in Int, NEW qd \in Nat, NEW adr, NEW ctx \in Int
    PROVE  PreparedFits(CorrectedBy(m, px, qd, adr, ctx), top)
<1> DEFINE half == ctx \div 1024
           sign == half % 2
           whole == ctx \div 2048
           guess == Clip(px + sign + whole, 0, top)
           p == CorrectedBy(m, px, qd, adr, ctx)
<1>1. half \in Int /\ whole \in Int
  OBVIOUS
<1>2. p = [px |-> px, qd |-> qd, adr |-> adr, ctx |-> ctx, sign |-> sign, pxc |-> guess]
  BY DEF CorrectedBy, Scale
<1> HIDE DEF half, whole, p
<1>3. sign \in {0, 1}
  BY <1>1
<1> HIDE DEF sign
<1>4. guess \in 0..top
  BY <1>1, <1>3 DEF Clip
<1> HIDE DEF guess
<1> QED BY <1>2, <1>3, <1>4 DEF PreparedFits, p

\* The number of a histogram.
LEMMA QdIsNat ==
    ASSUME NEW m, NEW steps \in {Qd1Steps, Qd2Steps}
    PROVE  Qd(m, steps) \in Nat
<1>1. IsFiniteSet(steps)
  BY TablesAreFinite
<1> QED BY <1>1, SteppedIsNat DEF Qd

\* prepare(), of any model.
LEMMA PreparedIs ==
    ASSUME NEW m, NEW top \in Nat, NEW near, ModelFits(m, top, near), NEW plane, NEW extra
    PROVE  PreparedFits(Prepared(m, Steps(plane), extra), top)
<1> DEFINE qd == Qd(m, Steps(plane))
           px == Px(m)
           adr == Adr(m, qd, px, extra)
           ctx == Mean(m, adr)
<1>1. qd \in Nat
  BY QdIsNat DEF Steps
<1>2. px \in Int
  BY PxIsInt
<1>3. Prepared(m, Steps(plane), extra) = CorrectedBy(m, px, qd, adr, ctx)
  BY DEF Prepared, InContext
<1> HIDE DEF qd, px, adr
<1>4. ctx \in Int
  BY DEF Mean, ModelFits, MeansAreInt
<1>5. m.maxval = top
  BY DEF ModelFits
<1> HIDE DEF ctx
<1> QED BY <1>1, <1>2, <1>3, <1>4, <1>5, CorrectedByFits

-----------------------------------------------------------------------------
(* One sample, coded and decoded.                                          *)

\* What a coder is made of.
Nine == {"enc", "rgb", "buf", "width", "masks", "code", "m", "x", "lost"}

\* After a sample.
WithSample(st, plane, m, x, lost, code) ==
    [st EXCEPT !.m[plane] = m, !.x[plane] = x, !.lost = lost, !.code = code]

\* The parts of it.
HasSample(f, st, plane, m, x, lost, code) ==
    /\ DOMAIN f = Nine /\ f.enc = st.enc /\ f.rgb = st.rgb /\ f.buf = st.buf
    /\ f.width = st.width /\ f.masks = st.masks /\ f.code = code /\ f.lost = lost
    /\ f.m = [st.m EXCEPT ![plane] = m] /\ f.x = [st.x EXCEPT ![plane] = x]

\* They are its parts.
LEMMA SampledParts ==
    ASSUME NEW st, DOMAIN st = Nine, NEW plane, NEW m, NEW x, NEW lost, NEW code
    PROVE  HasSample(WithSample(st, plane, m, x, lost, code), st, plane, m, x, lost, code)
<1> DEFINE f1 == [st EXCEPT !.m[plane] = m]
           f2 == [f1 EXCEPT !.x[plane] = x]
           f3 == [f2 EXCEPT !.lost = lost]
           f4 == [f3 EXCEPT !.code = code]
<1>1. WithSample(st, plane, m, x, lost, code) = f4
  BY DEF WithSample
<1>2. /\ DOMAIN f1 = Nine /\ f1.enc = st.enc /\ f1.rgb = st.rgb /\ f1.buf = st.buf
      /\ f1.width = st.width /\ f1.masks = st.masks
      /\ f1.m = [st.m EXCEPT ![plane] = m] /\ f1.x = st.x
  BY DEF Nine
<1> HIDE DEF f1
<1>3. /\ DOMAIN f2 = Nine /\ f2.enc = f1.enc /\ f2.rgb = f1.rgb /\ f2.buf = f1.buf
      /\ f2.width = f1.width /\ f2.masks = f1.masks
      /\ f2.m = f1.m /\ f2.x = [f1.x EXCEPT ![plane] = x]
  BY <1>2 DEF Nine
<1> HIDE DEF f2
<1>4. /\ DOMAIN f3 = Nine /\ f3.enc = f2.enc /\ f3.rgb = f2.rgb /\ f3.buf = f2.buf
      /\ f3.width = f2.width /\ f3.masks = f2.masks /\ f3.m = f2.m /\ f3.x = f2.x /\ f3.lost = lost
  BY <1>3 DEF Nine
<1> HIDE DEF f3
<1>5. /\ DOMAIN f4 = Nine /\ f4.enc = f3.enc /\ f4.rgb = f3.rgb /\ f4.buf = f3.buf
      /\ f4.width = f3.width /\ f4.masks = f3.masks /\ f4.m = f3.m /\ f4.x = f3.x /\ f4.lost = f3.lost
      /\ f4.code = code
  BY <1>4 DEF Nine
<1> HIDE DEF f4
<1> QED BY <1>1, <1>2, <1>3, <1>4, <1>5 DEF HasSample

\* The number of a sample, with its context, and the sample made of a number.
NumberOf(plane, m, p, x) == MapXtoW(x, p.pxc, p.sign, m.maxval, m.near)
SampleOf(m, p, w) == MapWtoX(w, p.pxc, p.sign, m.maxval, m.near)
CodeOf(plane, m, p, x) == [ctx |-> <<plane, p.qd>>, w |-> NumberOf(plane, m, p, x)]

\* prepare() .. postpare() of an encoder.
LEMMA PreparedEncoder ==
    ASSUME NEW e, e.enc = TRUE, NEW plane, NEW m, NEW p
    PROVE  LET x == SampleOf(m, p, NumberOf(plane, m, p, e.x[plane]))
           IN  \E lost : CodePrepared(e, plane, m, p) =
                  WithSample(e, plane, Postpared(m, p, x), x, lost, Append(e.code, CodeOf(plane, m, p, e.x[plane])))
<1> DEFINE ctx == <<plane, p.qd>>
           w == NumberOf(plane, m, p, e.x[plane])
           x == SampleOf(m, p, w)
           new == Postpared(m, p, x)
           lost == e.lost \/ (~e.enc /\ (e.code = <<>> \/ Head(e.code).ctx # ctx))
           code == Append(e.code, [ctx |-> ctx, w |-> w])
<1>1. w = CASE e.enc -> MapXtoW(e.x[plane], p.pxc, p.sign, m.maxval, m.near)
            [] ~e.enc /\ e.code # <<>> /\ Head(e.code).ctx = ctx -> Head(e.code).w
            [] OTHER -> 0
  BY DEF NumberOf
<1>2. code = CASE e.enc -> Append(e.code, [ctx |-> ctx, w |-> w])
               [] ~e.enc /\ e.code # <<>> -> Tail(e.code)
               [] OTHER -> e.code
  OBVIOUS
<1>3. CodePrepared(e, plane, m, p) = WithSample(e, plane, new, x, lost, code)
  BY <1>1, <1>2 DEF CodePrepared, WithSample, SampleOf
<1> QED BY <1>3 DEF CodeOf

\* A decoder after the number of y.
After(d, plane, m, p, y) ==
    WithSample(d, plane, Postpared(m, p, SampleOf(m, p, NumberOf(plane, m, p, y))),
            SampleOf(m, p, NumberOf(plane, m, p, y)), FALSE, Tail(d.code))

\* prepare() .. postpare() of a decoder that finds this number.
LEMMA PreparedDecoder ==
    ASSUME NEW d, d.enc = FALSE, d.lost = FALSE, NEW plane, NEW m, NEW p, NEW y,
           d.code # <<>>, Head(d.code) = CodeOf(plane, m, p, y)
    PROVE  CodePrepared(d, plane, m, p) = After(d, plane, m, p, y)
<1> DEFINE ctx == <<plane, p.qd>>
           w == NumberOf(plane, m, p, y)
           x == SampleOf(m, p, w)
           new == Postpared(m, p, x)
           lost == d.lost \/ (~d.enc /\ (d.code = <<>> \/ Head(d.code).ctx # ctx))
           code == Tail(d.code)
<1>0. Head(d.code).ctx = ctx /\ Head(d.code).w = w
  BY DEF CodeOf
<1>1. w = CASE d.enc -> MapXtoW(d.x[plane], p.pxc, p.sign, m.maxval, m.near)
            [] ~d.enc /\ d.code # <<>> /\ Head(d.code).ctx = ctx -> Head(d.code).w
            [] OTHER -> 0
  BY <1>0
<1>2. code = CASE d.enc -> Append(d.code, [ctx |-> ctx, w |-> w])
               [] ~d.enc /\ d.code # <<>> -> Tail(d.code)
               [] OTHER -> d.code
  OBVIOUS
<1>3. CodePrepared(d, plane, m, p) = WithSample(d, plane, new, x, lost, code)
  BY <1>1, <1>2 DEF CodePrepared, WithSample, SampleOf
<1>4. lost = FALSE
  BY <1>0
<1> HIDE DEF lost, x, code
<1> QED BY <1>3, <1>4 DEF x, code, new, w, After

\* postpare(): the mean error of the context.
LEMMA NextMeanIsInt ==
    ASSUME NEW ctx \in Int, NEW err2 \in Int
    PROVE  (Coef * ctx - ctx + err2 * (Scale \div 2) + (Coef \div 2 - 1)) \div Coef \in Int
<1> DEFINE z == 63 * ctx + err2 * 1024 + 31
<1>1. z \in Int
  OBVIOUS
<1>2. Coef * ctx - ctx + err2 * (Scale \div 2) + (Coef \div 2 - 1) = z
  BY DEF Coef, Scale
<1> HIDE DEF z
<1> QED BY <1>1, <1>2 DEF Coef

\* postpare(): the model stays one of numbers.
LEMMA PostparedFits ==
    ASSUME NEW m, NEW top \in Nat, NEW near, ModelFits(m, top, near), NEW p, PreparedFits(p, top), NEW x \in Int
    PROVE  ModelFits(Postpared(m, p, x), top, near)
<1> DEFINE half == m.maxval \div 2
           err == Clip(x - p.px, -half, half)
           err2 == 2 * err
           ctx == (Coef * p.ctx - p.ctx + err2 * (Scale \div 2) + (Coef \div 2 - 1)) \div Coef
           ctxs == [adr \in DOMAIN m.ctxs \cup {p.adr} |-> IF adr = p.adr THEN ctx ELSE m.ctxs[adr]]
           w == Postpared(m, p, x)
<1>1. w = [m EXCEPT !.err2 = err2, !.ctxs = ctxs]
  BY DEF Postpared
<1>2. DOMAIN m = Fields /\ m.maxval = top
  BY DEF ModelFits
<1>3. half \in Int
  BY <1>2
<1>4. p.px \in Int /\ p.ctx \in Int
  BY DEF PreparedFits
<1> HIDE DEF half
<1>5. x - p.px \in Int /\ -half \in Int
  BY <1>3, <1>4
<1>6. err \in Int
  <2> DEFINE y == x - p.px
             low == -half
  <2>1. y \in Int /\ low \in Int
    BY <1>5
  <2> HIDE DEF y, low
  <2>2. Clip(y, low, half) \in Int
    BY <1>3, <2>1, ClipIsInt
  <2> QED BY <2>2 DEF y, low
<1> HIDE DEF err
<1>7. err2 \in Int
  BY <1>6
<1> HIDE DEF err2
<1>8. ctx \in Int
  BY <1>4, <1>7, NextMeanIsInt
<1> HIDE DEF ctx
<1>9. MeansAreInt(ctxs)
  BY <1>8 DEF MeansAreInt, ModelFits
<1> HIDE DEF ctxs, w
<1>10. DOMAIN w = Fields /\ w.maxval = m.maxval /\ w.near = m.near /\ w.SOL = m.SOL /\ w.ctxs = ctxs
  BY <1>1, <1>2 DEF Fields, Numbers
<1>11. \A field \in Numbers : w[field] \in Int
  BY <1>1, <1>2, <1>7, NumbersOf DEF Fields, Numbers
<1> QED BY <1>9, <1>10, <1>11 DEF ModelFits, w

\* The numbers of planes of levels 0..top[plane], each with its context.
PlaneNumbers(planes, top) == {s \in [ctx : planes \X Nat, w : Nat] : s.w \in 0..top[s.ctx[1]]}

\* The models of all planes, their samples, and the levels that planes may have.
ModelsFit(m, top, near) == DOMAIN m = DOMAIN top /\ \A p \in DOMAIN top : ModelFits(m[p], top[p], near)
SampleFits(x, top) == DOMAIN x = DOMAIN top /\ \A p \in DOMAIN top : x[p] \in 0..top[p]
Tops == UNION {[planes -> Nat] : planes \in PlaneSets}

\* An encoder between samples.
Encoding(e, top, near) ==
    /\ DOMAIN e = Nine /\ e.enc = TRUE
    /\ e.code \in Seq(PlaneNumbers(DOMAIN top, top))
    /\ ModelsFit(e.m, top, near)
    /\ SampleFits(e.x, top)

\* The decoder of T then has the rest of T, the same models, and the samples done.
Follower(e, d, T, done) ==
    /\ DOMAIN d = Nine /\ d.enc = FALSE /\ d.lost = FALSE
    /\ d.rgb = e.rgb /\ d.width = e.width /\ d.masks = e.masks /\ d.m = e.m
    /\ d.code = SubSeq(T, Len(e.code) + 1, Len(T))
    /\ DOMAIN d.x = DOMAIN e.x /\ \A p \in done : d.x[p] = e.x[p]

\* The rest of both stays.
Stays(st, f) ==
    f.enc = st.enc /\ f.rgb = st.rgb /\ f.buf = st.buf /\ f.width = st.width /\ f.masks = st.masks

\* From e to f with only the sample of plane changed, by at most near.
Near(e, f, plane, near) ==
    /\ DOMAIN f.x = DOMAIN e.x
    /\ Gap(f.x[plane], e.x[plane]) <= near
    /\ \A p \in DOMAIN e.x : p # plane => f.x[p] = e.x[p]

\* The encoder goes from e to f, and a decoder that was with e goes from d to h and is with f.
Leads(e, f, d, h, T, done, more) ==
    Begins(f.code, T) => /\ Begins(e.code, T)
                         /\ Follower(e, d, T, done) => Follower(f, h, T, more) /\ h.buf = d.buf

\* A number and what is made of it: NumberReturns, for a model and its guess.
LEMMA NumberFits ==
    ASSUME NEW m, NEW top \in Nat, NEW near \in Nat, ModelFits(m, top, near), NEW p, PreparedFits(p, top),
           NEW x \in 0..top, NEW plane
    PROVE  LET w == NumberOf(plane, m, p, x)
           IN  w \in 0..top /\ SampleOf(m, p, w) \in 0..top /\ Gap(SampleOf(m, p, w), x) <= near
<1>1. m.maxval = top /\ m.near = near /\ p.sign \in {0, 1} /\ p.pxc \in 0..top
  BY DEF ModelFits, PreparedFits
<1> QED BY <1>1, NumberReturns DEF NumberOf, SampleOf

\* A number of the levels of its plane is one of these.
LEMMA CodedIs ==
    ASSUME NEW top, NEW plane \in DOMAIN top, NEW qd \in Nat, top[plane] \in Nat, NEW w \in 0..top[plane]
    PROVE  [ctx |-> <<plane, qd>>, w |-> w] \in PlaneNumbers(DOMAIN top, top)
<1> DEFINE most == top[plane]
           pair == <<plane, qd>>
<1>1. most \in Nat /\ w \in 0..most /\ w \in Nat
  OBVIOUS
<1> DEFINE dom == DOMAIN top
<1> HIDE DEF most, dom
<1>2. pair \in dom \X Nat /\ pair[1] = plane
  <2>1. plane \in dom
    BY DEF dom
  <2> QED BY <2>1
<1> HIDE DEF pair
<1>3. w \in 0..top[pair[1]]
  BY <1>1, <1>2 DEF most
<1> DEFINE s == [ctx |-> pair, w |-> w]
<1>4. s \in [ctx : dom \X Nat, w : Nat] /\ s.ctx = pair /\ s.w = w
  BY <1>1, <1>2
<1> HIDE DEF s
<1>5. s \in PlaneNumbers(dom, top)
  BY <1>3, <1>4 DEF PlaneNumbers
<1> QED BY <1>5 DEF s, pair, dom

\* prepare() .. postpare() of an encoder: the number, the sample and the model after it.
LEMMA SampleOfEncoder ==
    ASSUME NEW top \in Tops, NEW near \in Nat, NEW e, Encoding(e, top, near), NEW plane \in DOMAIN top, NEW extra
    PROVE  LET p == Prepared(e.m[plane], Steps(plane), extra)
               x == SampleOf(e.m[plane], p, NumberOf(plane, e.m[plane], p, e.x[plane]))
               f == CodeSample(e, plane, extra)
           IN  /\ Encoding(f, top, near) /\ Stays(e, f) /\ Near(e, f, plane, near)
               /\ f.code = Append(e.code, CodeOf(plane, e.m[plane], p, e.x[plane]))
               /\ CodeOf(plane, e.m[plane], p, e.x[plane]) \in PlaneNumbers(DOMAIN top, top)
               /\ f.m = [e.m EXCEPT ![plane] = Postpared(e.m[plane], p, x)]
               /\ f.x = [e.x EXCEPT ![plane] = x]
<1> DEFINE m == e.m[plane]
           p == Prepared(m, Steps(plane), extra)
           w == NumberOf(plane, m, p, e.x[plane])
           x == SampleOf(m, p, w)
           f == CodeSample(e, plane, extra)
           s == CodeOf(plane, m, p, e.x[plane])
           new == Postpared(m, p, x)
<1>1. top[plane] \in Nat /\ ModelFits(m, top[plane], near) /\ e.x[plane] \in 0..top[plane]
  BY DEF Encoding, ModelsFit, SampleFits, Tops
<1>2. PreparedFits(p, top[plane])
  BY <1>1, PreparedIs
<1>3. PICK lost : f = WithSample(e, plane, new, x, lost, Append(e.code, s))
  BY PreparedEncoder DEF CodeSample, Encoding
<1> HIDE DEF m, p, f
<1>4. w \in 0..top[plane] /\ x \in 0..top[plane] /\ Gap(x, e.x[plane]) <= near
  BY <1>1, <1>2, NumberFits
<1>5. s = [ctx |-> <<plane, p.qd>>, w |-> w] /\ p.qd \in Nat
  BY <1>2 DEF CodeOf, PreparedFits
<1> HIDE DEF w, x, s
<1>6. ModelFits(new, top[plane], near)
  BY <1>1, <1>2, <1>4, PostparedFits
<1> HIDE DEF new
<1>7. DOMAIN e = Nine
  BY DEF Encoding
<1>8. /\ DOMAIN f = Nine /\ f.enc = e.enc /\ f.rgb = e.rgb /\ f.buf = e.buf
      /\ f.width = e.width /\ f.masks = e.masks /\ f.code = Append(e.code, s)
      /\ f.m = [e.m EXCEPT ![plane] = new] /\ f.x = [e.x EXCEPT ![plane] = x]
  <2> DEFINE code == Append(e.code, s)
  <2> HIDE DEF code
  <2>1. f = WithSample(e, plane, new, x, lost, code)
    BY <1>3 DEF code
  <2>2. HasSample(f, e, plane, new, x, lost, code)
    BY <1>7, <2>1, SampledParts
  <2> QED BY <2>2 DEF HasSample, code
<1>9. s \in PlaneNumbers(DOMAIN top, top)
  <2> DEFINE qd == p.qd
  <2>1. qd \in Nat /\ s = [ctx |-> <<plane, qd>>, w |-> w]
    BY <1>5
  <2> HIDE DEF qd
  <2> QED BY <1>1, <1>4, <2>1, CodedIs
<1>10. f.code \in Seq(PlaneNumbers(DOMAIN top, top))
  <2>1. e.code \in Seq(PlaneNumbers(DOMAIN top, top))
    BY DEF Encoding
  <2> QED BY <1>8, <1>9, <2>1
<1>11. ModelsFit(f.m, top, near)
  BY <1>6, <1>8 DEF ModelsFit, Encoding
<1>12. SampleFits(f.x, top)
  BY <1>4, <1>8 DEF SampleFits, Encoding
<1>13. Near(e, f, plane, near)
  BY <1>4, <1>8 DEF Near, Encoding, SampleFits
<1>14. Encoding(f, top, near) /\ Stays(e, f)
  BY <1>8, <1>10, <1>11, <1>12 DEF Encoding, Stays
<1> QED BY <1>8, <1>9, <1>13, <1>14 DEF m, p, w, x, s, new, f

\* And of a decoder that was with it.
LEMMA SampleOfDecoder ==
    ASSUME NEW top \in Tops, NEW near \in Nat, NEW e, Encoding(e, top, near), NEW plane \in DOMAIN top, NEW extra,
           NEW T \in Seq(PlaneNumbers(DOMAIN top, top)), NEW done, NEW d
    PROVE  Leads(e, CodeSample(e, plane, extra), d, CodeSample(d, plane, extra), T, done, done \cup {plane})
<1> DEFINE m == e.m[plane]
           p == Prepared(m, Steps(plane), extra)
           x == SampleOf(m, p, NumberOf(plane, m, p, e.x[plane]))
           s == CodeOf(plane, m, p, e.x[plane])
           new == Postpared(m, p, x)
           f == CodeSample(e, plane, extra)
           h == CodeSample(d, plane, extra)
           S == PlaneNumbers(DOMAIN top, top)
           rest == SubSeq(T, Len(e.code) + 1, Len(T))
<1>1. /\ Stays(e, f) /\ f.code = Append(e.code, s) /\ s \in S
      /\ f.m = [e.m EXCEPT ![plane] = new] /\ f.x = [e.x EXCEPT ![plane] = x]
  BY SampleOfEncoder
<1>2. e.code \in Seq(S) /\ plane \in DOMAIN e.x
  BY DEF Encoding, SampleFits
<1> SUFFICES ASSUME Begins(f.code, T)
             PROVE  /\ Begins(e.code, T)
                    /\ Follower(e, d, T, done) => Follower(f, h, T, done \cup {plane}) /\ h.buf = d.buf
  BY DEF Leads
<1>3. T \in Seq(S)
  OBVIOUS
<1> HIDE DEF f, S
<1>4. Begins(e.code, T) /\ Len(e.code) < Len(T) /\ T[Len(e.code) + 1] = s
  <2> HIDE DEF s
  <2>1. Begins(Append(e.code, s), T)
    BY <1>1
  <2> QED BY <1>1, <1>2, <1>3, <2>1, BeginsBefore
<1>5. Len(e.code) \in Nat /\ Len(f.code) = Len(e.code) + 1
  <2> HIDE DEF s
  <2> QED BY <1>1, <1>2
<1>6. Head(rest) = s /\ Tail(rest) = SubSeq(T, Len(f.code) + 1, Len(T)) /\ rest # <<>>
  <2> DEFINE k == Len(e.code)
  <2>1. k \in Nat /\ k < Len(T) /\ Len(f.code) + 1 = k + 2
    BY <1>4, <1>5
  <2> HIDE DEF k
  <2>2. /\ Head(SubSeq(T, k + 1, Len(T))) = T[k + 1]
        /\ Tail(SubSeq(T, k + 1, Len(T))) = SubSeq(T, k + 2, Len(T))
    BY <1>3, <2>1, RestOf
  <2>3. SubSeq(T, k + 1, Len(T)) # <<>>
    <3>1. Len(SubSeq(T, k + 1, Len(T))) = Len(T) - k
      BY <1>3, <2>1
    <3>2. Len(T) \in Nat /\ Len(T) - k # 0
      BY <1>3, <2>1
    <3> QED BY <3>1, <3>2
  <2> HIDE DEF s
  <2> QED BY <1>4, <2>1, <2>2, <2>3 DEF k
<1> SUFFICES ASSUME Follower(e, d, T, done) PROVE Follower(f, h, T, done \cup {plane}) /\ h.buf = d.buf
  BY <1>4
<1>7. /\ d.code = rest /\ d.enc = FALSE /\ d.lost = FALSE /\ d.m = e.m /\ DOMAIN d = Nine
      /\ d.rgb = e.rgb /\ d.width = e.width /\ d.masks = e.masks
      /\ DOMAIN d.x = DOMAIN e.x /\ \A q \in done : d.x[q] = e.x[q]
  BY DEF Follower
<1> HIDE DEF rest, s, x, new
<1>8. h = WithSample(d, plane, new, x, FALSE, Tail(d.code))
  <2>1. h = CodePrepared(d, plane, m, p)
    BY <1>7 DEF CodeSample
  <2>2. d.code # <<>> /\ Head(d.code) = CodeOf(plane, m, p, e.x[plane])
    BY <1>6, <1>7 DEF s
  <2> HIDE DEF m, p, h
  <2> DEFINE y == e.x[plane]
  <2>3. WithSample(d, plane, new, x, FALSE, Tail(d.code)) = After(d, plane, m, p, y)
    BY DEF x, new, After
  <2>4. d.code # <<>> /\ Head(d.code) = CodeOf(plane, m, p, y) /\ d.enc = FALSE /\ d.lost = FALSE
    BY <1>7, <2>2
  <2> HIDE DEF y
  <2>5. CodePrepared(d, plane, m, p) = After(d, plane, m, p, y)
    BY <2>4, PreparedDecoder
  <2> QED BY <2>1, <2>3, <2>5
<1> HIDE DEF h
<1>9. /\ DOMAIN h = Nine /\ h.enc = d.enc /\ h.rgb = d.rgb /\ h.buf = d.buf
      /\ h.width = d.width /\ h.masks = d.masks /\ h.code = Tail(d.code) /\ h.lost = FALSE
      /\ h.m = [d.m EXCEPT ![plane] = new] /\ h.x = [d.x EXCEPT ![plane] = x]
  <2> DEFINE code == Tail(d.code)
  <2> HIDE DEF code
  <2>1. h = WithSample(d, plane, new, x, FALSE, code)
    BY <1>8 DEF code
  <2>2. HasSample(h, d, plane, new, x, FALSE, code)
    BY <1>7, <2>1, SampledParts
  <2> QED BY <2>2 DEF HasSample, code
<1>10. h.m = f.m /\ h.code = SubSeq(T, Len(f.code) + 1, Len(T))
  BY <1>1, <1>6, <1>7, <1>9
<1>11. DOMAIN h.x = DOMAIN f.x /\ \A q \in done \cup {plane} : h.x[q] = f.x[q]
  BY <1>1, <1>2, <1>7, <1>9
<1>12. f.rgb = e.rgb /\ f.width = e.width /\ f.masks = e.masks
  BY <1>1 DEF Stays
<1> QED BY <1>7, <1>9, <1>10, <1>11, <1>12 DEF Follower

\* The error of a plane replaced, before it is coded.
ErrOf(st, plane, r) == [st EXCEPT !.m[plane].err2 = r]

\* The parts of it.
IsErrOf(f, st, plane, r) ==
    /\ DOMAIN f = Nine /\ Stays(st, f) /\ f.code = st.code /\ f.x = st.x /\ f.lost = st.lost
    /\ f.m = [st.m EXCEPT ![plane] = [st.m[plane] EXCEPT !.err2 = r]]

\* They are its parts.
LEMMA ErrOfParts ==
    ASSUME NEW st, DOMAIN st = Nine, NEW plane, plane \in DOMAIN st.m, NEW r
    PROVE  IsErrOf(ErrOf(st, plane, r), st, plane, r)
<1> DEFINE new == [st.m[plane] EXCEPT !.err2 = r]
           m == [st.m EXCEPT ![plane] = new]
           f == [st EXCEPT !.m = m]
<1>1. ErrOf(st, plane, r) = f
  BY DEF ErrOf
<1> HIDE DEF m
<1>2. /\ DOMAIN f = Nine /\ f.enc = st.enc /\ f.rgb = st.rgb /\ f.buf = st.buf
      /\ f.width = st.width /\ f.masks = st.masks /\ f.code = st.code /\ f.x = st.x /\ f.lost = st.lost
      /\ f.m = m
  BY DEF Nine
<1> HIDE DEF f
<1> QED BY <1>1, <1>2 DEF IsErrOf, Stays, m

\* How a plane is coded: what the encoder is then, and where a decoder gets.
Goes(e, f, d, h, T, done, plane, top, near) ==
    /\ Encoding(f, top, near) /\ Stays(e, f) /\ Near(e, f, plane, near)
    /\ Leads(e, f, d, h, T, done, done \cup {plane})

\* A plane as it is.
LEMMA SampleGoes ==
    ASSUME NEW top \in Tops, NEW near \in Nat, NEW e, Encoding(e, top, near), NEW plane \in DOMAIN top, NEW extra,
           NEW T \in Seq(PlaneNumbers(DOMAIN top, top)), NEW done, NEW d
    PROVE  Goes(e, CodeSample(e, plane, extra), d, CodeSample(d, plane, extra), T, done, plane, top, near)
BY SampleOfEncoder, SampleOfDecoder DEF Goes

\* A plane with its error replaced before.
LEMMA SetGoes ==
    ASSUME NEW top \in Tops, NEW near \in Nat, NEW e, Encoding(e, top, near), NEW plane \in DOMAIN top, NEW extra,
           NEW T \in Seq(PlaneNumbers(DOMAIN top, top)), NEW done, NEW d, NEW r \in Int
    PROVE  Goes(e, CodeSample(ErrOf(e, plane, r), plane, extra), d, CodeSample(ErrOf(d, plane, r), plane, extra),
                T, done, plane, top, near)
<1> DEFINE e1 == ErrOf(e, plane, r)
           d1 == ErrOf(d, plane, r)
           f == CodeSample(e1, plane, extra)
           h == CodeSample(d1, plane, extra)
<1>1. DOMAIN e = Nine /\ DOMAIN e.m = DOMAIN top /\ ModelFits(e.m[plane], top[plane], near)
  BY DEF Encoding, ModelsFit
<1>2. IsErrOf(e1, e, plane, r)
  BY <1>1, ErrOfParts
<1> HIDE DEF e1, d1
<1>3. Encoding(e1, top, near)
  <2>1. ModelFits([e.m[plane] EXCEPT !.err2 = r], top[plane], near)
    BY <1>1, ErrSetFits
  <2>2. ModelsFit(e1.m, top, near)
    BY <1>2, <2>1 DEF IsErrOf, Encoding, ModelsFit
  <2> QED BY <1>2, <2>2 DEF IsErrOf, Encoding, Stays
<1>4. Goes(e1, f, d1, h, T, done, plane, top, near)
  BY <1>3, SampleGoes
<1> HIDE DEF f, h
<1>5. Stays(e, f) /\ Near(e, f, plane, near)
  BY <1>2, <1>4 DEF Goes, IsErrOf, Stays, Near
<1>6. ASSUME Follower(e, d, T, done) PROVE Follower(e1, d1, T, done) /\ d1.buf = d.buf
  <2>1. DOMAIN d = Nine /\ d.m = e.m
    BY <1>6 DEF Follower
  <2>2. IsErrOf(d1, d, plane, r)
    BY <1>1, <2>1, ErrOfParts DEF d1
  <2> QED BY <1>2, <1>6, <2>1, <2>2 DEF IsErrOf, Follower, Stays
<1>7. Leads(e, f, d, h, T, done, done \cup {plane})
  <2>1. Leads(e1, f, d1, h, T, done, done \cup {plane}) /\ e1.code = e.code
    BY <1>2, <1>4 DEF Goes, IsErrOf
  <2> QED BY <1>6, <2>1 DEF Leads
<1>8. Encoding(f, top, near)
  BY <1>4 DEF Goes
<1> QED BY <1>5, <1>7, <1>8 DEF Goes, f, h, e1, d1

\* The size of an error.
LEMMA SizeIsNat ==
    ASSUME NEW err \in Int
    PROVE  Size(err) \in Nat
BY DEF Size, Gap

\* The errors of the planes before a plane.
LEMMA ErrsAreInt ==
    ASSUME NEW top \in Tops, NEW near, NEW e, Encoding(e, top, near)
    PROVE  \A plane \in DOMAIN top : Err(e, plane) \in Int
BY NumbersOf DEF Encoding, ModelsFit, Err

\* The mixed errors of V and of Y.
Halved2(a, b) == (Size(a) + Size(b) + 1) \div 2
Halved3(a, b, c) == (Size(a) + Size(b) + Size(c)) \div 2

\* They are numbers.
LEMMA HalvedAreInt ==
    ASSUME NEW a \in Int, NEW b \in Int, NEW c \in Int
    PROVE  Halved2(a, b) \in Int /\ Halved3(a, b, c) \in Int
<1> DEFINE y == Size(a) + Size(b) + 1
           z == Size(a) + Size(b) + Size(c)
<1>1. y \in Int /\ z \in Int
  BY SizeIsNat
<1>2. Halved2(a, b) = y \div 2 /\ Halved3(a, b, c) = z \div 2
  BY DEF Halved2, Halved3
<1> HIDE DEF y, z
<1> QED BY <1>1, <1>2

\* The planes of colours.
Colourful == {"U", "V", "Y"}

\* U, V knowing the error of U, and Y knowing both.
LEMMA UGoes ==
    ASSUME NEW top \in Tops, NEW near \in Nat, NEW e, Encoding(e, top, near), DOMAIN top = Colourful,
           NEW T \in Seq(PlaneNumbers(DOMAIN top, top)), NEW done, NEW d
    PROVE  Goes(e, CodeU(e), d, CodeU(d), T, done, "U", top, near)
<1>1. "U" \in DOMAIN top
  BY DEF Colourful
<1> QED BY <1>1, SampleGoes DEF CodeU

\* V of encoder and decoder.
LEMMA VGoes ==
    ASSUME NEW top \in Tops, NEW near \in Nat, NEW e, Encoding(e, top, near), DOMAIN top = Colourful,
           NEW T \in Seq(PlaneNumbers(DOMAIN top, top)), NEW done, NEW d
    PROVE  Goes(e, CodeV(e), d, CodeV(d), T, done, "V", top, near)
<1> DEFINE r == Halved2(Err(e, "V"), Err(e, "U"))
           extra == <<Err(e, "U") > 0>>
<1>1. "V" \in DOMAIN top /\ "U" \in DOMAIN top
  BY DEF Colourful
<1>2. CodeV(e) = CodeSample(ErrOf(e, "V", r), "V", extra)
  BY DEF CodeV, ErrOf, Halved2, Err
<1>3. d.m = e.m => CodeV(d) = CodeSample(ErrOf(d, "V", r), "V", extra)
  BY DEF CodeV, ErrOf, Halved2, Err
<1>4. r \in Int
  <2>1. Err(e, "V") \in Int /\ Err(e, "U") \in Int
    BY <1>1, ErrsAreInt
  <2> QED BY <2>1, HalvedAreInt
<1> HIDE DEF r, extra
<1>5. Goes(e, CodeV(e), d, CodeSample(ErrOf(d, "V", r), "V", extra), T, done, "V", top, near)
  BY <1>1, <1>2, <1>4, SetGoes
<1>6. Follower(e, d, T, done) => CodeV(d) = CodeSample(ErrOf(d, "V", r), "V", extra)
  BY <1>3 DEF Follower
<1> QED BY <1>5, <1>6 DEF Goes, Leads

\* Y of encoder and decoder.
LEMMA YGoes ==
    ASSUME NEW top \in Tops, NEW near \in Nat, NEW e, Encoding(e, top, near), DOMAIN top = Colourful,
           NEW T \in Seq(PlaneNumbers(DOMAIN top, top)), NEW done, NEW d
    PROVE  Goes(e, CodeY(e), d, CodeY(d), T, done, "Y", top, near)
<1> DEFINE r == Halved3(Err(e, "Y"), Err(e, "U"), Err(e, "V"))
           extra == <<Err(e, "U") > 0, Err(e, "V") > 0>>
<1>1. "V" \in DOMAIN top /\ "U" \in DOMAIN top /\ "Y" \in DOMAIN top
  BY DEF Colourful
<1>2. CodeY(e) = CodeSample(ErrOf(e, "Y", r), "Y", extra)
  BY DEF CodeY, ErrOf, Halved3, Err
<1>3. d.m = e.m => CodeY(d) = CodeSample(ErrOf(d, "Y", r), "Y", extra)
  BY DEF CodeY, ErrOf, Halved3, Err
<1>4. r \in Int
  <2>1. Err(e, "Y") \in Int /\ Err(e, "V") \in Int /\ Err(e, "U") \in Int
    BY <1>1, ErrsAreInt
  <2> QED BY <2>1, HalvedAreInt
<1> HIDE DEF r, extra
<1>5. Goes(e, CodeY(e), d, CodeSample(ErrOf(d, "Y", r), "Y", extra), T, done, "Y", top, near)
  BY <1>1, <1>2, <1>4, SetGoes
<1>6. Follower(e, d, T, done) => CodeY(d) = CodeSample(ErrOf(d, "Y", r), "Y", extra)
  BY <1>3 DEF Follower
<1> QED BY <1>5, <1>6 DEF Goes, Leads

\* All planes of a pixel.
AllGo(e, f, d, h, T, top, near) ==
    /\ Encoding(f, top, near) /\ Stays(e, f)
    /\ \A plane \in DOMAIN top : Gap(f.x[plane], e.x[plane]) <= near
    /\ Leads(e, f, d, h, T, {}, DOMAIN top)

\* The three planes of a colour.
LEMMA ColourGoes ==
    ASSUME NEW top \in Tops, NEW near \in Nat, NEW e, Encoding(e, top, near), DOMAIN top = Colourful,
           NEW T \in Seq(PlaneNumbers(DOMAIN top, top)), NEW d
    PROVE  AllGo(e, CodeY(CodeV(CodeU(e))), d, CodeY(CodeV(CodeU(d))), T, top, near)
<1> DEFINE e1 == CodeU(e)
           e2 == CodeV(e1)
           e3 == CodeY(e2)
           d1 == CodeU(d)
           d2 == CodeV(d1)
           d3 == CodeY(d2)
<1>1. Goes(e, e1, d, d1, T, {}, "U", top, near)
  BY UGoes
<1> HIDE DEF e1, d1
<1>2. Goes(e1, e2, d1, d2, T, {} \cup {"U"}, "V", top, near)
  BY <1>1, VGoes DEF Goes
<1> HIDE DEF e2, d2
<1>3. Goes(e2, e3, d2, d3, T, ({} \cup {"U"}) \cup {"V"}, "Y", top, near)
  BY <1>2, YGoes DEF Goes
<1> HIDE DEF e3, d3
<1>4. Encoding(e3, top, near) /\ Stays(e, e3)
  BY <1>1, <1>2, <1>3 DEF Goes, Stays
<1>5. \A plane \in DOMAIN top : Gap(e3.x[plane], e.x[plane]) <= near
  <2>1. DOMAIN e.x = Colourful
    BY DEF Encoding, SampleFits
  <2>2. Near(e, e1, "U", near) /\ Near(e1, e2, "V", near) /\ Near(e2, e3, "Y", near)
    BY <1>1, <1>2, <1>3 DEF Goes
  <2>3. e3.x["U"] = e1.x["U"] /\ e3.x["V"] = e2.x["V"] /\ e1.x["V"] = e.x["V"] /\ e2.x["Y"] = e.x["Y"]
    BY <2>1, <2>2 DEF Near, Colourful
  <2>4. Gap(e3.x["U"], e.x["U"]) <= near /\ Gap(e3.x["V"], e.x["V"]) <= near /\ Gap(e3.x["Y"], e.x["Y"]) <= near
    BY <2>2, <2>3 DEF Near
  <2> QED BY <2>4 DEF Colourful
<1>6. Leads(e, e3, d, d3, T, {}, DOMAIN top)
  <2>1. (({} \cup {"U"}) \cup {"V"}) \cup {"Y"} = DOMAIN top
    BY DEF Colourful
  <2>2. /\ Leads(e, e1, d, d1, T, {}, {} \cup {"U"})
        /\ Leads(e1, e2, d1, d2, T, {} \cup {"U"}, ({} \cup {"U"}) \cup {"V"})
        /\ Leads(e2, e3, d2, d3, T, ({} \cup {"U"}) \cup {"V"}, DOMAIN top)
    BY <1>1, <1>2, <1>3, <2>1 DEF Goes
  <2> DEFINE a == {} \cup {"U"}
             b == a \cup {"V"}
  <2> HIDE DEF a, b
  <2>3. Leads(e, e1, d, d1, T, {}, a) /\ Leads(e1, e2, d1, d2, T, a, b) /\ Leads(e2, e3, d2, d3, T, b, DOMAIN top)
    BY <2>2 DEF a, b
  <2> QED BY <2>3 DEF Leads
<1> QED BY <1>4, <1>5, <1>6 DEF AllGo, e1, e2, e3, d1, d2, d3

\* The planes of any pixel.
LEMMA PlanesGo ==
    ASSUME NEW top \in Tops, NEW near \in Nat, NEW e, Encoding(e, top, near), e.rgb \in BOOLEAN,
           DOMAIN top = Planes(e.rgb), NEW T \in Seq(PlaneNumbers(DOMAIN top, top)), NEW d
    PROVE  AllGo(e, CodePlanes(e), d, CodePlanes(d), T, top, near)
<1> DEFINE f == CodePlanes(e)
           h == CodePlanes(d)
<1>1. CASE e.rgb = TRUE
  <2>1. DOMAIN top = Colourful
    BY <1>1 DEF Planes, Colourful
  <2>2. f = CodeY(CodeV(CodeU(e)))
    BY <1>1 DEF CodePlanes
  <2>3. Follower(e, d, T, {}) => h = CodeY(CodeV(CodeU(d)))
    BY <1>1 DEF CodePlanes, Follower
  <2>4. AllGo(e, f, d, CodeY(CodeV(CodeU(d))), T, top, near)
    BY <2>1, <2>2, ColourGoes
  <2> HIDE DEF f, h
  <2> QED BY <2>3, <2>4 DEF AllGo, Leads, f, h
<1>2. CASE e.rgb = FALSE
  <2>1. DOMAIN top = {"Y"}
    BY <1>2 DEF Planes
  <2>2. f = CodeSample(e, "Y", <<>>)
    BY <1>2 DEF CodePlanes
  <2>3. Follower(e, d, T, {}) => h = CodeSample(d, "Y", <<>>)
    BY <1>2 DEF CodePlanes, Follower
  <2>4. Goes(e, f, d, CodeSample(d, "Y", <<>>), T, {}, "Y", top, near)
    BY <2>1, <2>2, SampleGoes
  <2> HIDE DEF f, h
  <2>5. Leads(e, f, d, CodeSample(d, "Y", <<>>), T, {}, DOMAIN top)
    <3>1. {} \cup {"Y"} = DOMAIN top
      BY <2>1
    <3> QED BY <2>4, <3>1 DEF Goes
  <2>6. Leads(e, f, d, h, T, {}, DOMAIN top)
    BY <2>3, <2>5 DEF Leads
  <2>7. \A plane \in DOMAIN top : Gap(f.x[plane], e.x[plane]) <= near
    BY <2>1, <2>4 DEF Goes, Near
  <2> QED BY <2>4, <2>6, <2>7 DEF AllGo, Goes, f, h
<1> QED BY <1>1, <1>2

-----------------------------------------------------------------------------
(* Pixels and samples.                                                     *)

\* Mapper counts as the rest does.
LEMMA SameCount == ASSUME NEW S PROVE UV!Cardinality(S) = Cardinality(S)
BY DEF UV!Cardinality, Cardinality

\* The chroma values of an image without loss are numbered.
LEMMA ForwardIsNat ==
    ASSUME NEW mask, NEW v \in Int
    PROVE  UV!Forward(mask, v) \in Nat /\ IsFiniteSet({u \in 0..(v - 1) : mask[u] = 1})
<1> DEFINE below == {u \in 0..(v - 1) : mask[u] = 1}
<1>1. IsFiniteSet(0..(v - 1))
  <2> DEFINE w == v - 1
  <2>1. w \in Int
    OBVIOUS
  <2> HIDE DEF w
  <2>2. IsFiniteSet(0..w)
    BY <2>1, FS_Interval
  <2> QED BY <2>2 DEF w
<1>2. below \subseteq 0..(v - 1)
  OBVIOUS
<1> HIDE DEF below
<1>3. IsFiniteSet(below)
  BY <1>1, <1>2, FS_Subset
<1>4. Cardinality(below) \in Nat
  BY <1>3, FS_CardinalityType
<1>5. UV!Forward(mask, v) = Cardinality(below)
  BY SameCount DEF UV!Forward, below
<1> QED BY <1>3, <1>4, <1>5 DEF below

\* A value that occurs comes before those above it.
LEMMA ForwardGrows ==
    ASSUME NEW mask, NEW v \in Nat, mask[v] = 1, NEW w \in Nat, v < w
    PROVE  UV!Forward(mask, v) + 1 <= UV!Forward(mask, w)
<1> DEFINE S == {u \in 0..(v - 1) : mask[u] = 1}
           T == {u \in 0..(w - 1) : mask[u] = 1}
<1>1. IsFiniteSet(S) /\ IsFiniteSet(T)
  <2>1. v \in Int /\ w \in Int
    OBVIOUS
  <2> QED BY <2>1, ForwardIsNat
<1>2. v \notin S /\ S \cup {v} \subseteq T
  OBVIOUS
<1>3. UV!Forward(mask, v) = Cardinality(S) /\ UV!Forward(mask, w) = Cardinality(T)
  BY SameCount DEF UV!Forward
<1> HIDE DEF S, T
<1>4. Cardinality(S \cup {v}) = Cardinality(S) + 1
  BY <1>1, <1>2, FS_AddElement
<1>5. Cardinality(S \cup {v}) <= Cardinality(T)
  BY <1>1, <1>2, FS_Subset
<1> QED BY <1>3, <1>4, <1>5

\* Mapper: a value that occurs comes back from its number.
THEOREM ChromaReturns ==
    ASSUME NEW mask, NEW v \in UV!Values, mask[v] = 1
    PROVE  UV!Backward(mask, UV!Forward(mask, v)) = v
<1> DEFINE w == UV!Forward(mask, v)
           back == UV!Backward(mask, w)
           Fits(u) == u \in UV!Values /\ mask[u] = 1 /\ UV!Forward(mask, u) = w
<1>1. \A u \in UV!Values : u \in Nat
  BY DEF UV!Values
<1>2. Fits(v)
  OBVIOUS
<1>3. back = CHOOSE u \in UV!Values : mask[u] = 1 /\ UV!Forward(mask, u) = w
  BY DEF UV!Backward
<1> HIDE DEF w
<1>4. Fits(back)
  BY <1>2, <1>3
<1> HIDE DEF back
<1>5. ~ (back < v) /\ ~ (v < back)
  <2>1. back \in Nat /\ v \in Nat
    BY <1>1, <1>4
  <2>2. UV!Forward(mask, back) \in Nat /\ UV!Forward(mask, v) \in Nat
    <3>1. back \in Int /\ v \in Int
      BY <2>1
    <3> QED BY <3>1, ForwardIsNat
  <2>3. UV!Forward(mask, back) = UV!Forward(mask, v)
    BY <1>2, <1>4
  <2>4. ASSUME back < v PROVE FALSE
    BY <1>4, <2>1, <2>2, <2>3, <2>4, ForwardGrows
  <2>5. ASSUME v < back PROVE FALSE
    BY <1>2, <2>1, <2>2, <2>3, <2>5, ForwardGrows
  <2> QED BY <2>4, <2>5
<1>6. back = v
  BY <1>1, <1>4, <1>5
<1> QED BY <1>6 DEF back, w

\* The pixels of an image, the masks of its chroma values and the levels of its planes.
PixelsOf(rgb) == IF rgb THEN Levels3 ELSE 0..MaxY
\* The masks of its chroma values.
MasksOf(i) == IF i.rgb /\ i.near = 0 THEN [p \in {"U", "V"} |-> MaskOf(i.img, p)] ELSE <<>>
TopWith(rgb, masks) ==
    [p \in Planes(rgb) |-> CASE p = "Y" -> MaxY
                             [] p # "Y" /\ masks = <<>> -> MaxUV
                             [] OTHER -> UV!Forward(masks[p], MaxUV + 1) - 1]
TopOf(i) == TopWith(i.rgb, MasksOf(i))

\* Images of gray levels, of colours with loss and of colours without.
GrayImage(i) == i.rgb = FALSE /\ MasksOf(i) = <<>>
LossyColours(i) == i.rgb = TRUE /\ i.near \in Nat \ {0} /\ MasksOf(i) = <<>>
LosslessColours(i) ==
    /\ i.rgb = TRUE /\ i.near = 0 /\ MasksOf(i) = [p \in {"U", "V"} |-> MaskOf(i.img, p)]
    /\ MasksOf(i) # <<>>

\* There are no others.
LEMMA Kinds ==
    ASSUME NEW i, IsImage(i)
    PROVE  GrayImage(i) \/ LossyColours(i) \/ LosslessColours(i)
<1>1. i.rgb \in BOOLEAN /\ i.near \in Nat
  BY DEF IsImage
<1>2. CASE i.rgb = FALSE
  BY <1>2 DEF GrayImage, MasksOf
<1>3. CASE i.rgb = TRUE /\ i.near # 0
  BY <1>1, <1>3 DEF LossyColours, MasksOf
<1>4. CASE i.rgb = TRUE /\ i.near = 0
  <2>1. MasksOf(i) = [p \in {"U", "V"} |-> MaskOf(i.img, p)]
    BY <1>4 DEF MasksOf
  <2>2. DOMAIN MasksOf(i) = {"U", "V"} /\ DOMAIN <<>> = 1..0
    BY <2>1
  <2>3. MasksOf(i) # <<>>
    BY <2>2
  <2> QED BY <1>4, <2>1, <2>3 DEF LosslessColours
<1> QED BY <1>1, <1>2, <1>3, <1>4

\* What an image is made of.
LEMMA ImageIs ==
    ASSUME NEW i, IsImage(i)
    PROVE  /\ i.width \in Nat \ {0} /\ i.near \in Nat /\ i.img \in Seq(PixelsOf(i.rgb)) /\ i.img # <<>>
           /\ Len(i.img) \in Nat \ {0} /\ DOMAIN i.img = 1..Len(i.img)
           /\ \A k \in DOMAIN i.img : i.img[k] \in PixelsOf(i.rgb)
<1>1. i.width \in Nat \ {0} /\ i.near \in Nat /\ i.img \in Seq(PixelsOf(i.rgb)) /\ i.img # <<>>
  BY DEF IsImage, PixelsOf, Levels3
<1> DEFINE S == PixelsOf(i.rgb)
<1> HIDE DEF S
<1>2. i.img \in Seq(S) /\ i.img # <<>>
  BY <1>1 DEF S
<1>3. Len(i.img) \in Nat \ {0} /\ DOMAIN i.img = 1..Len(i.img) /\ \A k \in DOMAIN i.img : i.img[k] \in S
  BY <1>2
<1> QED BY <1>1, <1>3 DEF S

\* to_YUV by its fields.
LEMMA ColourIs ==
    ASSUME NEW px \in Levels3
    PROVE  /\ ToYUV(px) = [Y |-> ToYUV(px).Y, U |-> ToYUV(px).U, V |-> ToYUV(px).V]
           /\ ToYUV(px).Y \in 0..MaxY /\ ToYUV(px).U \in 0..MaxUV /\ ToYUV(px).V \in 0..MaxUV
           /\ ToRGB(ToYUV(px)) = px
BY ColoursReturn DEF ToYUV

\* The mask of the values that occur has them.
LEMMA MaskHas ==
    ASSUME NEW img, NEW k \in DOMAIN img, NEW plane, ToYUV(img[k])[plane] \in UV!Values
    PROVE  MaskOf(img, plane)[ToYUV(img[k])[plane]] = 1
BY DEF MaskOf

\* The chroma values.
LEMMA MaxUVIs == MaxUV \in Nat /\ UV!Values = 0..MaxUV /\ MaxY \in Nat
BY MaxYAssumption DEF MaxUV, UV!Values

\* Of each chroma plane of an image without loss, the numbers of the values that occur are
\* below their count, and they come back.
LEMMA ChromaFits ==
    ASSUME NEW i, IsImage(i), LosslessColours(i), NEW k \in DOMAIN i.img, NEW plane \in {"U", "V"}
    PROVE  LET v == ToYUV(i.img[k])[plane]
               mask == MasksOf(i)[plane]
           IN  /\ UV!Forward(mask, v) \in Nat /\ UV!Forward(mask, MaxUV + 1) \in Nat
               /\ UV!Forward(mask, v) + 1 <= UV!Forward(mask, MaxUV + 1)
               /\ UV!Backward(mask, UV!Forward(mask, v)) = v
<1> DEFINE v == ToYUV(i.img[k])[plane]
           mask == MasksOf(i)[plane]
<1>1. i.img[k] \in Levels3
  BY ImageIs DEF LosslessColours, PixelsOf
<1>2. v \in 0..MaxUV
  BY <1>1, ColoursReturn
<1>3. v \in UV!Values /\ v \in Nat /\ v < MaxUV + 1 /\ MaxUV + 1 \in Nat
  BY <1>2, MaxUVIs
<1>4. mask = MaskOf(i.img, plane)
  BY DEF LosslessColours
<1>5. mask[v] = 1
  BY <1>3, <1>4, MaskHas
<1> HIDE DEF v, mask
<1>6. UV!Forward(mask, v) \in Nat /\ UV!Forward(mask, MaxUV + 1) \in Nat
  <2>1. v \in Int /\ MaxUV + 1 \in Int
    BY <1>3
  <2> QED BY <2>1, ForwardIsNat
<1>7. UV!Forward(mask, v) + 1 <= UV!Forward(mask, MaxUV + 1)
  BY <1>3, <1>5, ForwardGrows
<1>8. UV!Backward(mask, UV!Forward(mask, v)) = v
  BY <1>3, <1>5, ChromaReturns
<1> QED BY <1>6, <1>7, <1>8 DEF v, mask

\* The levels of the planes.
LEMMA TopIs ==
    ASSUME NEW i, IsImage(i)
    PROVE  TopOf(i) \in Tops /\ DOMAIN TopOf(i) = Planes(i.rgb) /\ TopOf(i) = TopWith(i.rgb, MasksOf(i))
<1> DEFINE top == TopOf(i)
<1>1. top = TopWith(i.rgb, MasksOf(i))
  BY DEF TopOf
<1>2. top = [p \in Planes(i.rgb) |-> top[p]] /\ DOMAIN top = Planes(i.rgb)
  BY <1>1 DEF TopWith
<1>3. Planes(i.rgb) \in PlaneSets
  BY DEF Planes, PlaneSets
<1>4. ASSUME NEW p \in Planes(i.rgb) PROVE top[p] \in Nat
  <2>1. CASE p = "Y"
    BY <1>1, <2>1, MaxUVIs DEF TopWith
  <2>2. CASE p # "Y" /\ MasksOf(i) = <<>>
    BY <1>1, <2>2, MaxUVIs DEF TopWith
  <2>3. CASE p # "Y" /\ MasksOf(i) # <<>>
    <3>1. LosslessColours(i)
      BY <2>3, Kinds DEF GrayImage, LossyColours
    <3>2. p \in {"U", "V"}
      BY <2>3 DEF Planes
    <3>3. 1 \in DOMAIN i.img
      BY ImageIs
    <3>4. top[p] = UV!Forward(MasksOf(i)[p], MaxUV + 1) - 1
      BY <1>1, <2>3 DEF TopWith
    <3> DEFINE mask == MasksOf(i)[p]
               v == ToYUV(i.img[1])[p]
    <3>5. /\ UV!Forward(mask, v) \in Nat /\ UV!Forward(mask, MaxUV + 1) \in Nat
          /\ UV!Forward(mask, v) + 1 <= UV!Forward(mask, MaxUV + 1)
      BY <3>1, <3>2, <3>3, ChromaFits
    <3> HIDE DEF mask, v
    <3> QED BY <3>4, <3>5 DEF mask
  <2> QED BY <2>1, <2>2, <2>3
<1>5. top \in [Planes(i.rgb) -> Nat]
  <2> HIDE DEF top
  <2> QED BY <1>2, <1>4
<1> QED BY <1>1, <1>2, <1>3, <1>5 DEF Tops

\* What a coder knows of its image.
Frame(st, i) == st.rgb = i.rgb /\ st.width = i.width /\ st.masks = MasksOf(i)

\* load_YUV_with_map, by its fields.
Numbered(c, masks) == [c EXCEPT !.U = UV!Forward(masks.U, @), !.V = UV!Forward(masks.V, @)]
\* store_YUV_with_map: the values of the numbers.
Named(c, masks) == [c EXCEPT !.U = UV!Backward(masks.U, @), !.V = UV!Backward(masks.V, @)]

\* load and store, of the three kinds of images.
LEMMA LoadKinds ==
    ASSUME NEW i, NEW st, Frame(st, i), NEW px, NEW c
    PROVE  /\ GrayImage(i) => Load(st, px) = [Y |-> px] /\ Store(st, c) = c.Y
           /\ LossyColours(i) => Load(st, px) = ToYUV(px) /\ Store(st, c) = ToRGB(c)
           /\ LosslessColours(i) => Load(st, px) = Numbered(ToYUV(px), MasksOf(i))
                              /\ Store(st, c) = ToRGB(Named(c, MasksOf(i)))
<1>1. ASSUME GrayImage(i) PROVE Load(st, px) = [Y |-> px] /\ Store(st, c) = c.Y
  BY <1>1 DEF GrayImage, Frame, Load, Store
<1>2. ASSUME LossyColours(i) PROVE Load(st, px) = ToYUV(px) /\ Store(st, c) = ToRGB(c)
  BY <1>2 DEF LossyColours, Frame, Load, Store
<1>3. ASSUME LosslessColours(i)
      PROVE  Load(st, px) = Numbered(ToYUV(px), MasksOf(i)) /\ Store(st, c) = ToRGB(Named(c, MasksOf(i)))
  <2>1. st.rgb = TRUE /\ st.masks = MasksOf(i) /\ MasksOf(i) # <<>>
    BY <1>3 DEF LosslessColours, Frame
  <2>2. Load(st, px) = Numbered(ToYUV(px), st.masks)
    BY <2>1 DEF Load, Numbered
  <2>3. Store(st, c) = ToRGB(Named(c, st.masks))
    BY <2>1 DEF Store, Named
  <2> QED BY <2>1, <2>2, <2>3
<1> QED BY <1>1, <1>2, <1>3

\* The samples with numbered chroma values.
LEMMA NumberedParts ==
    ASSUME NEW y, NEW u, NEW v, NEW masks
    PROVE  /\ DOMAIN Numbered([Y |-> y, U |-> u, V |-> v], masks) = Colourful
           /\ Numbered([Y |-> y, U |-> u, V |-> v], masks)["Y"] = y
           /\ Numbered([Y |-> y, U |-> u, V |-> v], masks)["U"] = UV!Forward(masks.U, u)
           /\ Numbered([Y |-> y, U |-> u, V |-> v], masks)["V"] = UV!Forward(masks.V, v)
<1> DEFINE c == [Y |-> y, U |-> u, V |-> v]
           fu == UV!Forward(masks.U, c.U)
           c1 == [c EXCEPT !.U = fu]
           fv == UV!Forward(masks.V, c1.V)
           c2 == [c1 EXCEPT !.V = fv]
<1>1. Numbered(c, masks) = c2
  BY DEF Numbered
<1>2. c.U = u /\ c1.V = v
  OBVIOUS
<1>3. fu = UV!Forward(masks.U, u) /\ fv = UV!Forward(masks.V, v)
  BY <1>2
<1> HIDE DEF fu, fv
<1>4. DOMAIN c2 = Colourful /\ c2["Y"] = y /\ c2["U"] = fu /\ c2["V"] = fv
  BY DEF Colourful
<1> QED BY <1>1, <1>3, <1>4

\* The samples with the values of these numbers.
NamedOf(y, u, v, masks) ==
    [p \in Colourful |-> CASE p = "Y" -> y [] p = "U" -> UV!Backward(masks.U, u) [] OTHER -> UV!Backward(masks.V, v)]

\* The samples with the values of their numbers.
LEMMA NamedParts ==
    ASSUME NEW c, DOMAIN c = Colourful, NEW masks
    PROVE  Named(c, masks) = NamedOf(c.Y, c.U, c.V, masks)
<1> DEFINE fu == UV!Backward(masks.U, c.U)
           c1 == [c EXCEPT !.U = fu]
           fv == UV!Backward(masks.V, c1.V)
           c2 == [c1 EXCEPT !.V = fv]
           r == [p \in Colourful |-> CASE p = "Y" -> c.Y [] p = "U" -> fu [] OTHER -> fv]
<1>1. Named(c, masks) = c2
  BY DEF Named
<1>2. c1.V = c.V
  BY DEF Colourful
<1>3. fv = UV!Backward(masks.V, c.V)
  BY <1>2
<1> HIDE DEF fu, fv
<1>4. c2 = r
  BY DEF Colourful
<1> QED BY <1>1, <1>3, <1>4 DEF fu, NamedOf

\* Colours are made of three samples, whatever the record.
LEMMA ToRGBOf ==
    ASSUME NEW c, NEW k, c.Y = k.Y, c.U = k.U, c.V = k.V
    PROVE  ToRGB(c) = ToRGB(k)
BY DEF ToRGB

\* Any pixel as samples.
LEMMA LoadIsInt ==
    ASSUME NEW i, IsImage(i), NEW st, Frame(st, i), NEW px \in PixelsOf(i.rgb)
    PROVE  DOMAIN Load(st, px) = Planes(i.rgb) /\ \A p \in Planes(i.rgb) : Load(st, px)[p] \in Int
<1>1. CASE GrayImage(i)
  <2>1. Load(st, px) = [Y |-> px]
    BY <1>1, LoadKinds
  <2>2. Planes(i.rgb) = {"Y"} /\ px \in Int
    BY <1>1, MaxUVIs DEF GrayImage, Planes, PixelsOf
  <2> QED BY <2>1, <2>2
<1>2. CASE LossyColours(i) \/ LosslessColours(i)
  <2>1. px \in Levels3 /\ Planes(i.rgb) = Colourful
    BY <1>2 DEF LossyColours, LosslessColours, PixelsOf, Planes, Colourful
  <2> DEFINE y == ToYUV(px).Y
             u == ToYUV(px).U
             v == ToYUV(px).V
  <2>2. y \in Int /\ u \in Int /\ v \in Int /\ ToYUV(px) = [Y |-> y, U |-> u, V |-> v]
    BY <2>1, ColourIs, MaxUVIs
  <2> HIDE DEF y, u, v
  <2>3. CASE LossyColours(i)
    <3>1. Load(st, px) = [Y |-> y, U |-> u, V |-> v]
      BY <2>2, <2>3, LoadKinds
    <3> QED BY <2>1, <2>2, <3>1 DEF Colourful
  <2>4. CASE LosslessColours(i)
    <3> DEFINE masks == MasksOf(i)
    <3>1. Load(st, px) = Numbered([Y |-> y, U |-> u, V |-> v], masks)
      BY <2>2, <2>4, LoadKinds
    <3> HIDE DEF masks
    <3>2. UV!Forward(masks.U, u) \in Int /\ UV!Forward(masks.V, v) \in Int
      <4> DEFINE mu == masks.U
                 mv == masks.V
      <4> HIDE DEF mu, mv
      <4>1. UV!Forward(mu, u) \in Nat
        BY <2>2, ForwardIsNat
      <4>2. UV!Forward(mv, v) \in Nat
        BY <2>2, ForwardIsNat
      <4> QED BY <4>1, <4>2 DEF mu, mv
    <3>3. /\ DOMAIN Load(st, px) = Colourful /\ Load(st, px)["Y"] \in Int
          /\ Load(st, px)["U"] \in Int /\ Load(st, px)["V"] \in Int
      BY <2>2, <3>1, <3>2, NumberedParts
    <3> QED BY <2>1, <3>3 DEF Colourful
  <2> QED BY <1>2, <2>3, <2>4
<1> QED BY <1>1, <1>2, Kinds

\* A pixel of the image is within the levels.
LEMMA LoadFits ==
    ASSUME NEW i, IsImage(i), NEW st, Frame(st, i), NEW k \in DOMAIN i.img
    PROVE  SampleFits(Load(st, i.img[k]), TopOf(i))
<1> DEFINE px == i.img[k]
           top == TopOf(i)
           x == Load(st, px)
<1>1. px \in PixelsOf(i.rgb)
  BY ImageIs
<1>2. DOMAIN x = Planes(i.rgb) /\ DOMAIN top = Planes(i.rgb) /\ top = TopWith(i.rgb, MasksOf(i))
  BY <1>1, LoadIsInt, TopIs
<1>3. CASE GrayImage(i)
  <2>1. x = [Y |-> px]
    BY <1>3, LoadKinds
  <2>2. Planes(i.rgb) = {"Y"} /\ px \in 0..MaxY
    BY <1>1, <1>3 DEF GrayImage, Planes, PixelsOf
  <2>3. top["Y"] = MaxY
    BY <1>2, <2>2 DEF TopWith
  <2> QED BY <1>2, <2>1, <2>2, <2>3 DEF SampleFits
<1>4. CASE LossyColours(i) \/ LosslessColours(i)
  <2>1. px \in Levels3 /\ Planes(i.rgb) = Colourful
    BY <1>1, <1>4 DEF LossyColours, LosslessColours, PixelsOf, Planes, Colourful
  <2> DEFINE y == ToYUV(px).Y
             u == ToYUV(px).U
             v == ToYUV(px).V
  <2>2. y \in 0..MaxY /\ u \in 0..MaxUV /\ v \in 0..MaxUV /\ ToYUV(px) = [Y |-> y, U |-> u, V |-> v]
    BY <2>1, ColourIs
  <2>3. u = ToYUV(i.img[k])["U"] /\ v = ToYUV(i.img[k])["V"]
    OBVIOUS
  <2> HIDE DEF y, u, v
  <2>4. CASE LossyColours(i)
    <3>1. x = [Y |-> y, U |-> u, V |-> v]
      BY <2>2, <2>4, LoadKinds
    <3>2. top["Y"] = MaxY /\ top["U"] = MaxUV /\ top["V"] = MaxUV
      BY <1>2, <2>1, <2>4 DEF TopWith, LossyColours, Colourful
    <3> QED BY <1>2, <2>1, <2>2, <3>1, <3>2 DEF Colourful, SampleFits
  <2>5. CASE LosslessColours(i)
    <3> DEFINE masks == MasksOf(i)
               fu == UV!Forward(masks["U"], u)
               fv == UV!Forward(masks["V"], v)
               hu == UV!Forward(masks["U"], MaxUV + 1)
               hv == UV!Forward(masks["V"], MaxUV + 1)
    <3>1. x = Numbered([Y |-> y, U |-> u, V |-> v], masks)
      BY <2>2, <2>5, LoadKinds
    <3>2. top["Y"] = MaxY /\ top["U"] = hu - 1 /\ top["V"] = hv - 1
      BY <1>2, <2>1, <2>5 DEF TopWith, LosslessColours, Colourful
    <3>3. fu \in Nat /\ hu \in Nat /\ fu + 1 <= hu /\ fv \in Nat /\ hv \in Nat /\ fv + 1 <= hv
      BY <2>3, <2>5, ChromaFits
    <3>4. x["Y"] = y /\ x["U"] = fu /\ x["V"] = fv
      BY <3>1, NumberedParts
    <3> HIDE DEF fu, fv, hu, hv, x, top
    <3>5. x["Y"] \in 0..top["Y"] /\ x["U"] \in 0..top["U"] /\ x["V"] \in 0..top["V"]
      BY <2>2, <3>2, <3>3, <3>4
    <3> QED BY <1>2, <2>1, <3>5 DEF Colourful, SampleFits, x, top
  <2> QED BY <1>4, <2>4, <2>5
<1> QED BY <1>3, <1>4, Kinds

\* What PixelsSurvive grants.
Allowed(i) == IF i.rgb /\ i.near > 0 THEN 2 * i.near + 1 ELSE i.near
PixelNear(i, x, y) == IF i.rgb THEN \A c \in 1..3 : Gap(x[c], y[c]) <= Allowed(i) ELSE Gap(x, y) <= Allowed(i)

\* What is not apart is the same.
LEMMA GapZero ==
    ASSUME NEW x \in Int, NEW y \in Int, Gap(x, y) <= 0
    PROVE  x = y
BY DEF Gap

\* to_RGB: any samples make a colour.
LEMMA ColourClips ==
    ASSUME NEW c \in [Y : Int, U : Int, V : Int]
    PROVE  ToRGB(c) \in Levels3
<1> DEFINE u == c.U - MaxY
           q == u \div 4
           v == c.V - MaxY + q
           z == (u + v + 2) \div 4
           y == c.Y - z
<1>1. MaxY \in Nat /\ u \in Int
  BY MaxYAssumption
<1>2. q \in Int
  <2> HIDE DEF u
  <2> QED BY <1>1
<1> HIDE DEF q
<1>3. v \in Int
  BY <1>1, <1>2
<1>4. z \in Int
  <2> HIDE DEF u, v
  <2> QED BY <1>1, <1>3
<1> HIDE DEF z
<1>5. y \in Int
  BY <1>4
<1>6. ToRGB(c) = <<Clip(u + y, 0, MaxY), Clip(y, 0, MaxY), Clip(v + y, 0, MaxY)>>
  BY DEF ToRGB, q, z
<1> HIDE DEF u, v, y
<1>7. \A x \in Int : Clip(x, 0, MaxY) \in 0..MaxY
  BY <1>1 DEF Clip
<1>8. u + y \in Int /\ v + y \in Int
  BY <1>1, <1>3, <1>5
<1>9. Clip(u + y, 0, MaxY) \in 0..MaxY /\ Clip(y, 0, MaxY) \in 0..MaxY /\ Clip(v + y, 0, MaxY) \in 0..MaxY
  BY <1>5, <1>7, <1>8
<1> QED BY <1>6, <1>9 DEF Levels3

\* A pixel made of samples that are near enough to those of the image.
LEMMA StoreIs ==
    ASSUME NEW i, IsImage(i), NEW st, Frame(st, i), NEW k \in DOMAIN i.img,
           NEW c, SampleFits(c, TopOf(i)),
           \A p \in Planes(i.rgb) : Gap(c[p], Load(st, i.img[k])[p]) <= i.near
    PROVE  Store(st, c) \in PixelsOf(i.rgb) /\ PixelNear(i, Store(st, c), i.img[k])
<1> DEFINE px == i.img[k]
           top == TopOf(i)
           x == Load(st, px)
           new == Store(st, c)
<1>1. px \in PixelsOf(i.rgb) /\ i.near \in Nat
  BY ImageIs
<1>2. DOMAIN c = Planes(i.rgb) /\ top \in Tops /\ top = TopWith(i.rgb, MasksOf(i))
      /\ \A p \in Planes(i.rgb) : c[p] \in 0..top[p] /\ top[p] \in Nat
  <2>1. top \in Tops /\ DOMAIN top = Planes(i.rgb) /\ top = TopWith(i.rgb, MasksOf(i))
    BY TopIs
  <2> HIDE DEF top
  <2>2. \A p \in DOMAIN top : top[p] \in Nat
    BY <2>1 DEF Tops
  <2> QED BY <2>1, <2>2 DEF SampleFits, top
<1>3. CASE GrayImage(i)
  <2>1. x = [Y |-> px] /\ new = c.Y
    BY <1>3, LoadKinds
  <2>4. Planes(i.rgb) = {"Y"}
    BY <1>3 DEF GrayImage, Planes
  <2>5. top["Y"] = MaxY
    BY <1>2, <2>4 DEF TopWith
  <2>2. new \in 0..MaxY
    BY <1>2, <2>1, <2>4, <2>5
  <2>3. Gap(new, px) <= i.near
    BY <2>1, <2>4
  <2> QED BY <1>3, <2>2, <2>3 DEF GrayImage, PixelsOf, PixelNear, Allowed
<1>4. ASSUME LossyColours(i) \/ LosslessColours(i)
      PROVE  px \in Levels3 /\ Planes(i.rgb) = Colourful /\ c["Y"] \in Int /\ c["U"] \in Int /\ c["V"] \in Int
  <2>1. px \in Levels3 /\ Planes(i.rgb) = Colourful
    BY <1>1, <1>4 DEF LossyColours, LosslessColours, PixelsOf, Planes, Colourful
  <2>2. \A p \in Planes(i.rgb) : c[p] \in Int
    BY <1>2
  <2> QED BY <2>1, <2>2 DEF Colourful
<1>5. CASE LossyColours(i)
  <2> DEFINE t == [Y |-> c["Y"], U |-> c["U"], V |-> c["V"]]
  <2>1. x = ToYUV(px) /\ new = ToRGB(c)
    BY <1>5, LoadKinds
  <2>2. t \in [Y : Int, U : Int, V : Int] /\ new = ToRGB(t)
    BY <1>4, <1>5, <2>1, ToRGBOf
  <2>3. \A plane \in {"Y", "U", "V"} : Gap(t[plane], ToYUV(px)[plane]) <= i.near
    BY <1>4, <1>5, <2>1 DEF Colourful
  <2>4. i.near \in Nat \ {0} /\ px \in Levels3
    BY <1>4, <1>5 DEF LossyColours
  <2> HIDE DEF t, px, new
  <2>5. \A j \in 1..3 : Gap(ToRGB(t)[j], px[j]) <= 2 * i.near + 1
    BY <2>2, <2>3, <2>4, ColoursStayNear
  <2>6. new \in Levels3
    BY <2>2, ColourClips
  <2>7. i.rgb = TRUE /\ Allowed(i) = 2 * i.near + 1
    BY <1>5, <2>4 DEF LossyColours, Allowed
  <2> QED BY <2>2, <2>5, <2>6, <2>7 DEF PixelsOf, PixelNear, px, new
<1>6. CASE LosslessColours(i)
  <2> DEFINE masks == MasksOf(i)
             y == ToYUV(px).Y
             u == ToYUV(px).U
             v == ToYUV(px).V
             fu == UV!Forward(masks["U"], u)
             fv == UV!Forward(masks["V"], v)
             bu == UV!Backward(masks.U, c.U)
             bv == UV!Backward(masks.V, c.V)
             named == Named(c, masks)
  <2>1. px \in Levels3 /\ Planes(i.rgb) = Colourful
    BY <1>4, <1>6
  <2>2. y \in 0..MaxY /\ u \in 0..MaxUV /\ v \in 0..MaxUV /\ ToYUV(px) = [Y |-> y, U |-> u, V |-> v]
        /\ ToRGB(ToYUV(px)) = px
    BY <2>1, ColourIs
  <2>3. UV!Backward(masks["U"], fu) = u /\ UV!Backward(masks["V"], fv) = v /\ fu \in Nat /\ fv \in Nat
    BY <1>6, ChromaFits
  <2> HIDE DEF y, u, v
  <2>4. x["Y"] = y /\ x["U"] = fu /\ x["V"] = fv
    <3>1. x = Numbered([Y |-> y, U |-> u, V |-> v], masks)
      BY <1>6, <2>2, LoadKinds
    <3> QED BY <3>1, NumberedParts
  <2> HIDE DEF fu, fv
  <2>5. c["Y"] = y /\ c["U"] = fu /\ c["V"] = fv
    <3>1. Gap(c["Y"], x["Y"]) <= 0 /\ Gap(c["U"], x["U"]) <= 0 /\ Gap(c["V"], x["V"]) <= 0
      BY <1>6, <2>1 DEF LosslessColours, Colourful
    <3>2. c["Y"] \in Int /\ c["U"] \in Int /\ c["V"] \in Int /\ y \in Int
      BY <1>4, <1>6, <2>2, MaxUVIs
    <3> HIDE DEF x
    <3> QED BY <2>3, <2>4, <3>1, <3>2, GapZero
  <2>6. bu = u /\ bv = v
    BY <2>3, <2>5
  <2>7. named.Y = y /\ named.U = u /\ named.V = v
    <3>1. named = [p \in Colourful |-> CASE p = "Y" -> c.Y [] p = "U" -> bu [] OTHER -> bv]
      <4>1. DOMAIN c = Colourful
        BY <1>2, <2>1
      <4>2. named = NamedOf(c.Y, c.U, c.V, masks)
        BY <4>1, NamedParts
      <4> HIDE DEF named
      <4> QED BY <4>2 DEF NamedOf
    <3> HIDE DEF named, bu, bv
    <3> QED BY <2>5, <2>6, <3>1 DEF Colourful
  <2>8. new = ToRGB(named)
    BY <1>6, LoadKinds
  <2>9. new = px
    <3> DEFINE t == [Y |-> y, U |-> u, V |-> v]
    <3>1. named.Y = t.Y /\ named.U = t.U /\ named.V = t.V /\ ToRGB(t) = px
      BY <2>2, <2>7
    <3> HIDE DEF named, t
    <3> QED BY <2>8, <3>1, ToRGBOf
  <2>10. \A j \in 1..3 : Gap(px[j], px[j]) <= 0
    <3>1. \A j \in 1..3 : px[j] \in Int
      BY <2>1, MaxUVIs DEF Levels3
    <3> QED BY <3>1 DEF Gap
  <2>11. i.rgb = TRUE /\ Allowed(i) = 0
    BY <1>6 DEF LosslessColours, Allowed
  <2> HIDE DEF px, new
  <2> QED BY <2>1, <2>9, <2>10, <2>11 DEF PixelsOf, PixelNear, px, new
<1> QED BY <1>3, <1>5, <1>6, Kinds

-----------------------------------------------------------------------------
(* One pixel.                                                              *)

\* Where the pixels above to the right are.
LEMMA PlaceIs ==
    ASSUME NEW z \in Nat, NEW w \in Nat \ {0}
    PROVE  LET row == z \div w
               col == z % w
           IN  /\ row \in Nat /\ col \in 0..(w - 1)
               /\ (row - 0) * w + col + 0 + 1 = z + 1
               /\ row > 0 /\ col + 1 < w => (row - 1) * w + col + 1 + 1 \in 1..z
               /\ row > 1 /\ col + 2 < w => (row - 2) * w + col + 2 + 1 \in 1..z
<1> DEFINE row == z \div w
           col == z % w
<1>1. row \in Nat /\ col \in 0..(w - 1) /\ z = w * row + col
  BY SMT
<1> HIDE DEF row, col
<1>2. w * row = row * w /\ row * w \in Nat
  BY <1>1
<1>3. (row - 1) * w = row * w - w /\ (row - 2) * w = row * w - 2 * w
  BY <1>1
<1>4. row > 0 => w <= row * w
  <2>1. row > 0 => w * 1 <= w * row
    BY <1>1, Product
  <2> QED BY <1>2, <2>1
<1>5. row > 1 => 2 * w <= row * w
  <2>1. row > 1 => w * 2 <= w * row
    BY <1>1, Product
  <2> QED BY <1>2, <2>1
<1> DEFINE area == row * w
           up1 == (row - 1) * w
           up2 == (row - 2) * w
<1>6. z = area + col /\ area \in Nat /\ up1 = area - w /\ up2 = area - 2 * w
      /\ (row > 0 => w <= area) /\ (row > 1 => 2 * w <= area)
  BY <1>1, <1>2, <1>3, <1>4, <1>5
<1>7. (row - 0) * w = area
  BY <1>1
<1> DEFINE up0 == (row - 0) * w
<1> HIDE DEF area, up1, up2
<1>8. area + col + 0 + 1 = z + 1
  BY <1>1, <1>6
<1>9. row > 0 /\ col + 1 < w => up1 + col + 1 + 1 \in 1..z
  BY <1>1, <1>6
<1>10. row > 1 /\ col + 2 < w => up2 + col + 2 + 1 \in 1..z
  BY <1>1, <1>6
<1> QED BY <1>1, <1>7, <1>8, <1>9, <1>10 DEF row, col, up1, up2

\* Other models and samples, all else the same.
IsModels(f, st, m, x) ==
    /\ DOMAIN f = Nine /\ Stays(st, f) /\ f.code = st.code /\ f.lost = st.lost /\ f.m = m /\ f.x = x

\* They are so when they are set.
LEMMA ModelsSet ==
    ASSUME NEW st, DOMAIN st = Nine, NEW m, NEW x
    PROVE  IsModels([st EXCEPT !.m = m], st, m, st.x) /\ IsModels([st EXCEPT !.m = m, !.x = x], st, m, x)
<1> DEFINE f == [st EXCEPT !.m = m]
           h == [f EXCEPT !.x = x]
<1>1. /\ DOMAIN f = Nine /\ f.enc = st.enc /\ f.rgb = st.rgb /\ f.buf = st.buf
      /\ f.width = st.width /\ f.masks = st.masks /\ f.code = st.code /\ f.x = st.x /\ f.lost = st.lost
      /\ f.m = m
  BY DEF Nine
<1>2. [st EXCEPT !.m = m, !.x = x] = h
  OBVIOUS
<1> HIDE DEF f
<1>3. /\ DOMAIN h = Nine /\ h.enc = st.enc /\ h.rgb = st.rgb /\ h.buf = st.buf
      /\ h.width = st.width /\ h.masks = st.masks /\ h.code = st.code /\ h.x = x /\ h.lost = st.lost
      /\ h.m = m
  BY <1>1 DEF Nine
<1> HIDE DEF h
<1> QED BY <1>1, <1>2, <1>3 DEF IsModels, Stays, f

\* The encoder goes from e to f without coding, and a decoder that was with e is with f.
Shifts(e, f, d, h, T, done, more, top, near) ==
    /\ Encoding(f, top, near) /\ Stays(e, f) /\ f.code = e.code
    /\ Follower(e, d, T, done) => Follower(f, h, T, more) /\ h.buf = d.buf

\* prepareAtStartOfLine() of every plane.
LEMMA StartShifts ==
    ASSUME NEW top \in Tops, NEW near, NEW e, Encoding(e, top, near), DOMAIN top = Planes(e.rgb),
           NEW T, NEW d, NEW col \in Int
    PROVE  Shifts(e, StartOfLine(e, col), d, StartOfLine(d, col), T, {}, {}, top, near)
<1> DEFINE f == StartOfLine(e, col)
           h == StartOfLine(d, col)
<1>1. CASE col > 0
  <2>1. f = e /\ h = d
    BY <1>1 DEF StartOfLine
  <2> QED BY <2>1 DEF Shifts, Stays
<1>2. CASE ~ (col > 0)
  <2> DEFINE m == [p \in Planes(e.rgb) |-> AtStartOfLine(e.m[p])]
  <2>1. f = [e EXCEPT !.m = m]
    BY <1>2 DEF StartOfLine
  <2>2. IsModels(f, e, m, e.x)
    BY <2>1, ModelsSet DEF Encoding
  <2>3. ModelsFit(m, top, near)
    <3>1. \A p \in DOMAIN top : ModelFits(AtStartOfLine(e.m[p]), top[p], near)
      BY StartFits DEF Encoding, ModelsFit
    <3> QED BY <3>1 DEF ModelsFit
  <2> HIDE DEF f, m
  <2>4. Encoding(f, top, near) /\ Stays(e, f) /\ f.code = e.code
    BY <2>2, <2>3 DEF Encoding, IsModels, Stays
  <2>5. ASSUME Follower(e, d, T, {}) PROVE Follower(f, h, T, {}) /\ h.buf = d.buf
    <3>1. d.rgb = e.rgb /\ d.m = e.m /\ DOMAIN d = Nine
      BY <2>5 DEF Follower
    <3>2. h = [d EXCEPT !.m = m]
      BY <1>2, <3>1 DEF StartOfLine, m
    <3>3. IsModels(h, d, m, d.x)
      BY <3>1, <3>2, ModelsSet
    <3> HIDE DEF h
    <3> QED BY <2>2, <2>5, <3>3 DEF IsModels, Follower, Stays
  <2> QED BY <2>4, <2>5 DEF Shifts, f
<1> QED BY <1>1, <1>2

\* The neighbours to the upper right of a pixel, and further right.
UpperRight(st, row, col) ==
    IF row > 0 /\ col + 1 < st.width THEN Load(st, st.buf[(row - 1) * st.width + col + 1 + 1])
    ELSE [p \in Planes(st.rgb) |-> st.m[p].a]
FurtherRight(st, row, col) ==
    IF row > 1 /\ col + 2 < st.width THEN Load(st, st.buf[(row - 2) * st.width + col + 2 + 1])
    ELSE UpperRight(st, row, col)
\* The models with these neighbours, and the samples to begin with.
WithRight(st, u, v) == [p \in Planes(st.rgb) |-> [st.m[p] EXCEPT !.d = u[p], !.r = v[p]]]
OwnSample(st, row, col) ==
    IF st.enc THEN Load(st, st.buf[(row - 0) * st.width + col + 0 + 1]) ELSE [p \in Planes(st.rgb) |-> 0]

\* Neighbours, with names for its parts.
LEMMA NeighboursIs ==
    ASSUME NEW st, NEW row, NEW col
    PROVE  Neighbours(st, row, col) =
              [st EXCEPT !.m = WithRight(st, UpperRight(st, row, col), FurtherRight(st, row, col)),
                         !.x = OwnSample(st, row, col)]
BY DEF Neighbours, UpperRight, FurtherRight, WithRight, OwnSample

\* They are numbers, and the same for a decoder with the same pixels before this one.
LEMMA RightsAre ==
    ASSUME NEW i, IsImage(i), NEW e, Frame(e, i), Encoding(e, TopOf(i), i.near), NEW k \in 1..Len(i.img),
           \A q \in 1..(k - 1) : e.buf[q] \in PixelsOf(i.rgb), NEW d
    PROVE  LET row == (k - 1) \div i.width
               col == (k - 1) % i.width
               Ints(x) == \A p \in Planes(i.rgb) : x[p] \in Int
               same == /\ d.rgb = e.rgb /\ d.width = e.width /\ d.masks = e.masks /\ d.m = e.m
                       /\ \A q \in 1..(k - 1) : d.buf[q] = e.buf[q]
           IN  /\ Ints(UpperRight(e, row, col)) /\ Ints(FurtherRight(e, row, col))
               /\ same => /\ UpperRight(d, row, col) = UpperRight(e, row, col)
                          /\ FurtherRight(d, row, col) = FurtherRight(e, row, col)
<1> DEFINE z == k - 1
           w == i.width
           row == z \div w
           col == z % w
           Ints(x) == \A p \in Planes(i.rgb) : x[p] \in Int
           same == /\ d.rgb = e.rgb /\ d.width = e.width /\ d.masks = e.masks /\ d.m = e.m
                   /\ \A q \in 1..(k - 1) : d.buf[q] = e.buf[q]
           at1 == (row - 1) * w + col + 1 + 1
           at2 == (row - 2) * w + col + 2 + 1
<1>1. w \in Nat \ {0} /\ Len(i.img) \in Nat
  BY ImageIs
<1>2. z \in Nat
  BY <1>1
<1> HIDE DEF z, w
<1>3. (row > 0 /\ col + 1 < w => at1 \in 1..z) /\ (row > 1 /\ col + 2 < w => at2 \in 1..z)
  BY <1>1, <1>2, PlaceIs
<1> HIDE DEF row, col
<1>4. e.width = w /\ e.rgb = i.rgb
  BY DEF Frame, w
<1>5. /\ UpperRight(e, row, col) =
            IF row > 0 /\ col + 1 < w THEN Load(e, e.buf[at1]) ELSE [p \in Planes(i.rgb) |-> e.m[p].a]
      /\ FurtherRight(e, row, col) = IF row > 1 /\ col + 2 < w THEN Load(e, e.buf[at2]) ELSE UpperRight(e, row, col)
  BY <1>4 DEF UpperRight, FurtherRight
<1>6. same => /\ UpperRight(d, row, col) =
                    IF row > 0 /\ col + 1 < w THEN Load(d, d.buf[at1]) ELSE [p \in Planes(i.rgb) |-> e.m[p].a]
              /\ FurtherRight(d, row, col) =
                    IF row > 1 /\ col + 2 < w THEN Load(d, d.buf[at2]) ELSE UpperRight(d, row, col)
  BY <1>4 DEF UpperRight, FurtherRight
<1> HIDE DEF at1, at2
<1>7. ASSUME NEW q \in 1..z PROVE Ints(Load(e, e.buf[q])) /\ (same => Load(d, d.buf[q]) = Load(e, e.buf[q]))
  <2>1. e.buf[q] \in PixelsOf(i.rgb)
    BY DEF z
  <2>2. Ints(Load(e, e.buf[q]))
    BY <2>1, LoadIsInt
  <2>3. same => d.buf[q] = e.buf[q]
    BY DEF z
  <2>4. same => Load(d, d.buf[q]) = Load(e, e.buf[q])
    BY <2>3 DEF Load
  <2> QED BY <2>2, <2>4
<1>8. Ints([p \in Planes(i.rgb) |-> e.m[p].a])
  <2>1. DOMAIN TopOf(i) = Planes(i.rgb)
    BY TopIs
  <2>2. \A p \in Planes(i.rgb) : e.m[p].a \in Int
    BY <2>1, NumbersOf DEF Encoding, ModelsFit
  <2> QED BY <2>2
<1> HIDE DEF Ints, same
<1>9. Ints(UpperRight(e, row, col)) /\ (same => UpperRight(d, row, col) = UpperRight(e, row, col))
  <2>1. CASE row > 0 /\ col + 1 < w
    <3>1. Ints(Load(e, e.buf[at1])) /\ (same => Load(d, d.buf[at1]) = Load(e, e.buf[at1]))
      BY <1>3, <1>7, <2>1
    <3> QED BY <1>5, <1>6, <2>1, <3>1
  <2>2. CASE ~ (row > 0 /\ col + 1 < w)
    BY <1>5, <1>6, <1>8, <2>2
  <2> QED BY <2>1, <2>2
<1>10. Ints(FurtherRight(e, row, col)) /\ (same => FurtherRight(d, row, col) = FurtherRight(e, row, col))
  <2>1. CASE row > 1 /\ col + 2 < w
    <3>1. Ints(Load(e, e.buf[at2])) /\ (same => Load(d, d.buf[at2]) = Load(e, e.buf[at2]))
      BY <1>3, <1>7, <2>1
    <3> QED BY <1>5, <1>6, <2>1, <3>1
  <2>2. CASE ~ (row > 1 /\ col + 2 < w)
    BY <1>5, <1>6, <1>9, <2>2
  <2> QED BY <2>1, <2>2
<1> QED BY <1>9, <1>10 DEF Ints, same, row, col, z, w

\* The pixel k and its neighbours to the right.
Surrounds(i, k, e, f, d, h, T) ==
    /\ Encoding(f, TopOf(i), i.near) /\ Stays(e, f) /\ f.code = e.code /\ f.x = Load(e, i.img[k])
    /\ Follower(e, d, T, {}) /\ (\A q \in 1..(k - 1) : d.buf[q] = e.buf[q]) =>
          Follower(f, h, T, {}) /\ h.buf = d.buf

\* The neighbours of encoder and decoder.
LEMMA NeighboursShift ==
    ASSUME NEW i, IsImage(i), NEW e, Frame(e, i), Encoding(e, TopOf(i), i.near), NEW k \in 1..Len(i.img),
           \A q \in 1..(k - 1) : e.buf[q] \in PixelsOf(i.rgb), e.buf[k] = i.img[k], NEW d, NEW T
    PROVE  Surrounds(i, k, e, Neighbours(e, (k - 1) \div i.width, (k - 1) % i.width),
                     d, Neighbours(d, (k - 1) \div i.width, (k - 1) % i.width), T)
<1> DEFINE row == (k - 1) \div i.width
           col == (k - 1) % i.width
           f == Neighbours(e, row, col)
           h == Neighbours(d, row, col)
           u == UpperRight(e, row, col)
           v == FurtherRight(e, row, col)
           m == WithRight(e, u, v)
           x == Load(e, i.img[k])
           top == TopOf(i)
           same == /\ d.rgb = e.rgb /\ d.width = e.width /\ d.masks = e.masks /\ d.m = e.m
                   /\ \A q \in 1..(k - 1) : d.buf[q] = e.buf[q]
<1>1. /\ \A p \in Planes(i.rgb) : u[p] \in Int /\ v[p] \in Int
      /\ same => UpperRight(d, row, col) = u /\ FurtherRight(d, row, col) = v
  BY RightsAre
<1>2. (row - 0) * i.width + col + 0 + 1 = k
  <2>1. i.width \in Nat \ {0} /\ Len(i.img) \in Nat
    BY ImageIs
  <2> DEFINE z == k - 1
             w == i.width
  <2>2. z \in Nat /\ w \in Nat \ {0} /\ z + 1 = k
    BY <2>1
  <2> HIDE DEF z, w
  <2>3. ((z \div w) - 0) * w + (z % w) + 0 + 1 = z + 1
    BY <2>2, PlaceIs
  <2> QED BY <2>2, <2>3 DEF z, w
<1> HIDE DEF row, col
<1>3. DOMAIN top = Planes(i.rgb) /\ k \in DOMAIN i.img
  BY TopIs, ImageIs
<1>4. e.rgb = i.rgb /\ e.width = i.width /\ DOMAIN e = Nine /\ e.enc = TRUE
  BY DEF Frame, Encoding
<1>5. OwnSample(e, row, col) = x
  BY <1>2, <1>4 DEF OwnSample
<1>6. SampleFits(x, top)
  BY <1>3, LoadFits
<1> HIDE DEF x
<1>7. IsModels(f, e, m, x)
  <2>1. f = [e EXCEPT !.m = m, !.x = x]
    BY <1>5, NeighboursIs
  <2> HIDE DEF f, m
  <2> QED BY <1>4, <2>1, ModelsSet
<1>8. ModelsFit(m, top, i.near)
  <2>1. ASSUME NEW p \in Planes(i.rgb) PROVE ModelFits([e.m[p] EXCEPT !.d = u[p], !.r = v[p]], top[p], i.near)
    <3>1. ModelFits(e.m[p], top[p], i.near)
      BY <1>3 DEF Encoding, ModelsFit
    <3> DEFINE up == u[p]
               vp == v[p]
    <3>2. up \in Int /\ vp \in Int
      BY <1>1
    <3> HIDE DEF up, vp
    <3>3. ModelFits([e.m[p] EXCEPT !.d = up, !.r = vp], top[p], i.near)
      BY <3>1, <3>2, RightSetFits
    <3> QED BY <3>3 DEF up, vp
  <2> HIDE DEF u, v
  <2>2. m = [p \in Planes(i.rgb) |-> [e.m[p] EXCEPT !.d = u[p], !.r = v[p]]]
    BY <1>4 DEF WithRight
  <2> QED BY <1>3, <2>1, <2>2 DEF ModelsFit
<1> HIDE DEF f, m, u, v
<1>9. Encoding(f, top, i.near) /\ Stays(e, f) /\ f.code = e.code /\ f.x = x
  BY <1>6, <1>7, <1>8 DEF IsModels, Encoding, Stays
<1>10. ASSUME Follower(e, d, T, {}), \A q \in 1..(k - 1) : d.buf[q] = e.buf[q]
       PROVE  Follower(f, h, T, {}) /\ h.buf = d.buf
  <2>1. same /\ DOMAIN d = Nine /\ d.enc = FALSE
    BY <1>10 DEF Follower
  <2> DEFINE blank == [p \in Planes(i.rgb) |-> 0]
  <2>2. WithRight(d, UpperRight(d, row, col), FurtherRight(d, row, col)) = m /\ OwnSample(d, row, col) = blank
    BY <1>1, <1>4, <2>1 DEF WithRight, m, OwnSample
  <2>3. h = [d EXCEPT !.m = m, !.x = blank]
    BY <2>2, NeighboursIs
  <2>4. DOMAIN blank = DOMAIN x
    BY <1>3, <1>6 DEF SampleFits
  <2> HIDE DEF h, blank
  <2>5. IsModels(h, d, m, blank)
    BY <2>1, <2>3, ModelsSet
  <2> QED BY <1>7, <1>10, <2>4, <2>5 DEF IsModels, Follower, Stays
<1> HIDE DEF h
<1>11. Surrounds(i, k, e, f, d, h, T)
  BY <1>9, <1>10 DEF Surrounds, x, top
<1> QED BY <1>11 DEF f, h, row, col

\* The same samples make the same pixel.
LEMMA SameStored ==
    ASSUME NEW i, IsImage(i), NEW e, Frame(e, i), NEW d, Frame(d, i), NEW x, NEW y,
           DOMAIN x = Planes(i.rgb), DOMAIN y = Planes(i.rgb), \A p \in Planes(i.rgb) : y[p] = x[p]
    PROVE  Store(d, y) = Store(e, x)
<1>1. CASE GrayImage(i)
  <2>1. Store(e, x) = x.Y /\ Store(d, y) = y.Y
    BY <1>1, LoadKinds
  <2>2. "Y" \in Planes(i.rgb)
    BY DEF Planes
  <2> QED BY <2>1, <2>2
<1>2. CASE LossyColours(i)
  <2>1. Store(e, x) = ToRGB(x) /\ Store(d, y) = ToRGB(y)
    BY <1>2, LoadKinds
  <2>2. Planes(i.rgb) = {"U", "V", "Y"}
    BY <1>2 DEF LossyColours, Planes
  <2>3. y.Y = x.Y /\ y.U = x.U /\ y.V = x.V
    BY <2>2
  <2>4. ToRGB(y) = ToRGB(x)
    BY <2>3, ToRGBOf
  <2> QED BY <2>1, <2>4
<1>3. CASE LosslessColours(i)
  <2> DEFINE masks == MasksOf(i)
  <2>1. Store(e, x) = ToRGB(Named(x, masks)) /\ Store(d, y) = ToRGB(Named(y, masks))
    BY <1>3, LoadKinds
  <2>2. Planes(i.rgb) = Colourful
    BY <1>3 DEF LosslessColours, Planes, Colourful
  <2> HIDE DEF masks
  <2>3. Named(x, masks) = NamedOf(x.Y, x.U, x.V, masks) /\ Named(y, masks) = NamedOf(y.Y, y.U, y.V, masks)
    BY <2>2, NamedParts
  <2>4. y.Y = x.Y /\ y.U = x.U /\ y.V = x.V
    BY <2>2 DEF Colourful
  <2>5. Named(y, masks) = Named(x, masks)
    BY <2>3, <2>4
  <2> QED BY <2>1, <2>5
<1> QED BY <1>1, <1>2, <1>3, Kinds

\* A pixel and the models after it.
IsWritten(f, st, k, px, m) ==
    /\ DOMAIN f = Nine /\ f.enc = st.enc /\ f.rgb = st.rgb /\ f.width = st.width /\ f.masks = st.masks
    /\ f.code = st.code /\ f.x = st.x /\ f.lost = st.lost
    /\ f.buf = [st.buf EXCEPT ![k] = px] /\ f.m = m

\* Written, one field after the other.
LEMMA WrittenParts ==
    ASSUME NEW st, DOMAIN st = Nine, NEW k
    PROVE  IsWritten(Written(st, k), st, k, Store(st, st.x), [p \in Planes(st.rgb) |-> Moved(st.m[p], st.x[p])])
<1> DEFINE px == Store(st, st.x)
           buf == [st.buf EXCEPT ![k] = px]
           f == [st EXCEPT !.buf = buf]
           m == [p \in Planes(f.rgb) |-> Moved(f.m[p], f.x[p])]
           h == [f EXCEPT !.m = m]
<1>1. /\ DOMAIN f = Nine /\ f.enc = st.enc /\ f.rgb = st.rgb /\ f.width = st.width /\ f.masks = st.masks
      /\ f.code = st.code /\ f.x = st.x /\ f.lost = st.lost /\ f.m = st.m /\ f.buf = buf
  <2> HIDE DEF buf
  <2> QED BY DEF Nine
<1>2. m = [p \in Planes(st.rgb) |-> Moved(st.m[p], st.x[p])]
  <2>1. f.rgb = st.rgb /\ f.m = st.m /\ f.x = st.x
    BY <1>1
  <2> HIDE DEF f
  <2> QED BY <2>1
<1>3. Written(st, k) = [st EXCEPT !.buf[k] = px, !.m = m]
  BY <1>2 DEF Written
<1>4. Written(st, k) = h
  <2> HIDE DEF m, px
  <2>1. [st EXCEPT !.buf[k] = px, !.m = m] = [f EXCEPT !.m = m]
    OBVIOUS
  <2> QED BY <1>3, <2>1
<1> HIDE DEF f, m
<1>5. /\ DOMAIN h = Nine /\ h.enc = st.enc /\ h.rgb = st.rgb /\ h.width = st.width /\ h.masks = st.masks
      /\ h.code = st.code /\ h.x = st.x /\ h.lost = st.lost /\ h.buf = buf /\ h.m = m
  <2> HIDE DEF buf
  <2> QED BY <1>1 DEF Nine
<1> HIDE DEF h
<1> QED BY <1>2, <1>4, <1>5 DEF IsWritten

\* The encoder puts px in the place of pixel k, and so does a decoder that has its samples.
Writes(i, k, e, f, d, h, T, px) ==
    /\ Encoding(f, TopOf(i), i.near) /\ Frame(f, i) /\ f.code = e.code
    /\ px \in PixelsOf(i.rgb) /\ PixelNear(i, px, i.img[k])
    /\ f.buf = [e.buf EXCEPT ![k] = px]
    /\ Follower(e, d, T, Planes(i.rgb)) => Follower(f, h, T, {}) /\ h.buf = [d.buf EXCEPT ![k] = px]

\* Both put what is near enough to the image.
LEMMA WrittenGoes ==
    ASSUME NEW i, IsImage(i), NEW e, Frame(e, i), Encoding(e, TopOf(i), i.near), NEW k \in 1..Len(i.img),
           \A p \in Planes(i.rgb) : Gap(e.x[p], Load(e, i.img[k])[p]) <= i.near, NEW d, NEW T
    PROVE  Writes(i, k, e, Written(e, k), d, Written(d, k), T, Store(e, e.x))
<1> DEFINE f == Written(e, k)
           h == Written(d, k)
           px == Store(e, e.x)
           m == [p \in Planes(i.rgb) |-> Moved(e.m[p], e.x[p])]
           top == TopOf(i)
<1>1. DOMAIN top = Planes(i.rgb) /\ top \in Tops /\ k \in DOMAIN i.img
  BY TopIs, ImageIs
<1>2. e.rgb = i.rgb /\ DOMAIN e = Nine /\ SampleFits(e.x, top)
  BY DEF Frame, Encoding
<1>3. px \in PixelsOf(i.rgb) /\ PixelNear(i, px, i.img[k])
  BY <1>1, <1>2, StoreIs
<1>4. IsWritten(f, e, k, px, m)
  BY <1>2, WrittenParts
<1>5. ModelsFit(m, top, i.near)
  <2>1. ASSUME NEW p \in DOMAIN top PROVE ModelFits(Moved(e.m[p], e.x[p]), top[p], i.near)
    <3>1. ModelFits(e.m[p], top[p], i.near)
      BY DEF Encoding, ModelsFit
    <3>2. e.x[p] \in Int
      <4>1. top[p] \in Nat /\ e.x[p] \in 0..top[p]
        BY <1>1, <1>2 DEF Tops, SampleFits
      <4> QED BY <4>1
    <3> DEFINE x == e.x[p]
    <3> HIDE DEF x, top
    <3>3. ModelFits(Moved(e.m[p], x), top[p], i.near)
      BY <3>1, <3>2, MovedFits DEF x
    <3> QED BY <3>3 DEF x
  <2> HIDE DEF top
  <2> QED BY <1>1, <2>1 DEF ModelsFit
<1> HIDE DEF f, m, px
<1>6. Encoding(f, top, i.near) /\ Frame(f, i) /\ f.code = e.code /\ f.buf = [e.buf EXCEPT ![k] = px]
  BY <1>4, <1>5 DEF IsWritten, Encoding, Frame
<1>7. ASSUME Follower(e, d, T, Planes(i.rgb))
      PROVE  Follower(f, h, T, {}) /\ h.buf = [d.buf EXCEPT ![k] = px]
  <2>1. /\ DOMAIN d = Nine /\ d.rgb = e.rgb /\ d.width = e.width /\ d.masks = e.masks /\ d.m = e.m
        /\ DOMAIN d.x = DOMAIN e.x /\ \A p \in Planes(i.rgb) : d.x[p] = e.x[p]
    BY <1>7 DEF Follower
  <2>2. DOMAIN e.x = Planes(i.rgb)
    BY <1>1, <1>2 DEF SampleFits
  <2>3. Frame(d, i)
    BY <2>1 DEF Frame
  <2>4. Store(d, d.x) = px
    BY <2>1, <2>2, <2>3, SameStored DEF px
  <2>5. [p \in Planes(d.rgb) |-> Moved(d.m[p], d.x[p])] = m
    BY <1>2, <2>1 DEF m
  <2>6. IsWritten(h, d, k, px, m)
    BY <2>1, <2>4, <2>5, WrittenParts
  <2> HIDE DEF h
  <2> QED BY <1>4, <1>7, <2>6 DEF IsWritten, Follower
<1> HIDE DEF h
<1>8. Writes(i, k, e, f, d, h, T, px)
  BY <1>3, <1>6, <1>7 DEF Writes, px, top
<1> QED BY <1>8 DEF f, h, px

\* The encoder after k pixels: the rest of its buffer is the image.
Whole(buf, i) == buf = [q \in 1..Len(i.img) |-> buf[q]]
EncodedTo(i, e, k) ==
    /\ Encoding(e, TopOf(i), i.near) /\ Frame(e, i) /\ Whole(e.buf, i)
    /\ \A q \in 1..k : e.buf[q] \in PixelsOf(i.rgb) /\ PixelNear(i, e.buf[q], i.img[q])
    /\ \A q \in (k + 1)..Len(i.img) : e.buf[q] = i.img[q]

\* And the decoder of T.
DecodedTo(i, e, d, T, k) ==
    Begins(e.code, T) => /\ Follower(e, d, T, {}) /\ Whole(d.buf, i)
                         /\ \A q \in 1..k : d.buf[q] = e.buf[q]

\* The codes of an image.
CodesOf(i) == Seq(PlaneNumbers(DOMAIN TopOf(i), TopOf(i)))

\* The steps of a pixel.
LEMMA PixelIs ==
    ASSUME NEW st, NEW w, st.width = w, NEW k
    PROVE  CodePixel(st, k) =
              Written(CodePlanes(Neighbours(StartOfLine(st, (k - 1) % w), (k - 1) \div w, (k - 1) % w)), k)
BY DEF CodePixel

\* One pixel, of encoder and decoder.
LEMMA PixelGoes ==
    ASSUME NEW i, IsImage(i), NEW k \in 1..Len(i.img), NEW T \in CodesOf(i), NEW e, NEW d,
           EncodedTo(i, e, k - 1), DecodedTo(i, e, d, T, k - 1)
    PROVE  EncodedTo(i, CodePixel(e, k), k) /\ DecodedTo(i, CodePixel(e, k), CodePixel(d, k), T, k)
<1> DEFINE top == TopOf(i)
           near == i.near
           N == Len(i.img)
           row == (k - 1) \div i.width
           col == (k - 1) % i.width
           e1 == StartOfLine(e, col)
           e2 == Neighbours(e1, row, col)
           e3 == CodePlanes(e2)
           e4 == Written(e3, k)
           d1 == StartOfLine(d, col)
           d2 == Neighbours(d1, row, col)
           d3 == CodePlanes(d2)
           d4 == Written(d3, k)
           px == Store(e3, e3.x)
<1>1. /\ N \in Nat /\ k \in Nat /\ i.rgb \in BOOLEAN /\ top \in Tops /\ DOMAIN top = Planes(i.rgb)
      /\ near \in Nat /\ i.width \in Nat \ {0} /\ T \in Seq(PlaneNumbers(DOMAIN top, top))
  <2>1. i.rgb \in BOOLEAN
    BY DEF IsImage
  <2>2. N \in Nat /\ k \in Nat /\ near \in Nat /\ i.width \in Nat \ {0}
    BY ImageIs
  <2>3. top \in Tops /\ DOMAIN top = Planes(i.rgb)
    BY TopIs
  <2>4. T \in Seq(PlaneNumbers(DOMAIN top, top))
    BY DEF CodesOf
  <2> QED BY <2>1, <2>2, <2>3, <2>4
<1>2. /\ Encoding(e, top, near) /\ Frame(e, i) /\ Whole(e.buf, i)
      /\ \A q \in 1..(k - 1) : e.buf[q] \in PixelsOf(i.rgb) /\ PixelNear(i, e.buf[q], i.img[q])
      /\ \A q \in k..N : e.buf[q] = i.img[q]
  BY <1>1 DEF EncodedTo
<1>3. e.rgb = i.rgb /\ e.width = i.width /\ e.masks = MasksOf(i)
  BY <1>2 DEF Frame
<1>4. CodePixel(e, k) = e4
  <2> DEFINE w == i.width
  <2>1. e.width = w
    BY <1>3
  <2> HIDE DEF w
  <2>2. CodePixel(e, k) =
           Written(CodePlanes(Neighbours(StartOfLine(e, (k - 1) % w), (k - 1) \div w, (k - 1) % w)), k)
    BY <2>1, PixelIs
  <2> QED BY <2>2 DEF w
<1>5. col \in Int
  <2> DEFINE z == k - 1
             w == i.width
  <2>1. z \in Nat /\ w \in Nat \ {0}
    BY <1>1
  <2> HIDE DEF z, w
  <2>2. z % w \in 0..(w - 1)
    BY <2>1, PlaceIs
  <2>3. z % w \in Int
    BY <2>1, <2>2
  <2> QED BY <2>3 DEF z, w
<1>6. Shifts(e, e1, d, d1, T, {}, {}, top, near)
  <2> HIDE DEF top, near, col
  <2>1. DOMAIN top = Planes(e.rgb)
    BY <1>1, <1>3
  <2> QED BY <1>1, <1>2, <1>5, <2>1, StartShifts
<1> HIDE DEF e1, d1
<1>7. Encoding(e1, top, near) /\ Stays(e, e1) /\ e1.code = e.code /\ Frame(e1, i) /\ e1.buf = e.buf
  BY <1>2, <1>6 DEF Shifts, Stays, Frame
<1>8. /\ Encoding(e2, top, near) /\ Stays(e1, e2) /\ e2.code = e1.code /\ e2.x = Load(e1, i.img[k])
      /\ Follower(e1, d1, T, {}) /\ (\A q \in 1..(k - 1) : d1.buf[q] = e1.buf[q]) =>
            Follower(e2, d2, T, {}) /\ d2.buf = d1.buf
  <2>1. (\A q \in 1..(k - 1) : e1.buf[q] \in PixelsOf(i.rgb)) /\ e1.buf[k] = i.img[k]
    BY <1>1, <1>2, <1>7
  <2>2. Encoding(e1, TopOf(i), i.near) /\ Frame(e1, i)
    BY <1>7
  <2> HIDE DEF e3, d3
  <2>3. Surrounds(i, k, e1, Neighbours(e1, (k - 1) \div i.width, (k - 1) % i.width),
                  d1, Neighbours(d1, (k - 1) \div i.width, (k - 1) % i.width), T)
    BY <2>1, <2>2, NeighboursShift
  <2>4. Surrounds(i, k, e1, e2, d1, d2, T)
    BY <2>3
  <2> HIDE DEF e2, d2
  <2> QED BY <2>4 DEF Surrounds
<1> HIDE DEF e2, d2
<1>9. AllGo(e2, e3, d2, d3, T, top, near)
  <2>1. e2.rgb \in BOOLEAN /\ DOMAIN top = Planes(e2.rgb)
    BY <1>1, <1>3, <1>7, <1>8 DEF Stays
  <2>2. top \in Tops /\ near \in Nat /\ Encoding(e2, top, near) /\ T \in Seq(PlaneNumbers(DOMAIN top, top))
    BY <1>1, <1>8
  <2> HIDE DEF top, near
  <2>3. AllGo(e2, CodePlanes(e2), d2, CodePlanes(d2), T, top, near)
    BY <2>1, <2>2, PlanesGo
  <2> QED BY <2>3
<1> HIDE DEF e3, d3
<1>10. /\ Encoding(e3, top, near) /\ Frame(e3, i) /\ e3.buf = e.buf
       /\ \A p \in Planes(i.rgb) : Gap(e3.x[p], Load(e3, i.img[k])[p]) <= near
  <2>1. Stays(e1, e2) /\ Stays(e2, e3)
    BY <1>8, <1>9 DEF AllGo
  <2>2. Frame(e3, i) /\ e3.buf = e.buf /\ Load(e3, i.img[k]) = Load(e1, i.img[k])
    BY <1>7, <2>1 DEF Stays, Frame, Load
  <2>3. \A p \in Planes(i.rgb) : Gap(e3.x[p], e2.x[p]) <= near
    BY <1>1, <1>9 DEF AllGo
  <2>4. \A p \in Planes(i.rgb) : Gap(e3.x[p], Load(e3, i.img[k])[p]) <= near
    BY <1>8, <2>2, <2>3
  <2> QED BY <1>9, <2>2, <2>4 DEF AllGo
<1>11. /\ Encoding(e4, top, near) /\ Frame(e4, i) /\ e4.code = e3.code
       /\ px \in PixelsOf(i.rgb) /\ PixelNear(i, px, i.img[k])
       /\ e4.buf = [e.buf EXCEPT ![k] = px]
       /\ Follower(e3, d3, T, Planes(i.rgb)) => Follower(e4, d4, T, {}) /\ d4.buf = [d3.buf EXCEPT ![k] = px]
  <2>1. Encoding(e3, TopOf(i), i.near) /\ Frame(e3, i)
        /\ \A p \in Planes(i.rgb) : Gap(e3.x[p], Load(e3, i.img[k])[p]) <= i.near
    BY <1>10
  <2>2. Writes(i, k, e3, Written(e3, k), d3, Written(d3, k), T, Store(e3, e3.x))
    BY <2>1, WrittenGoes
  <2>3. Writes(i, k, e3, e4, d3, d4, T, px)
    BY <2>2
  <2> HIDE DEF e4, d4, px
  <2> QED BY <1>10, <2>3 DEF Writes
<1> HIDE DEF e4, d4, px
<1>12. Whole(e4.buf, i) /\ e4.buf[k] = px /\ \A q \in 1..N : q # k => e4.buf[q] = e.buf[q]
  BY <1>2, <1>11 DEF Whole
<1>13. EncodedTo(i, e4, k)
  <2>1. \A q \in 1..k : e4.buf[q] \in PixelsOf(i.rgb) /\ PixelNear(i, e4.buf[q], i.img[q])
    <3> TAKE q \in 1..k
    <3>1. CASE q = k
      BY <1>11, <1>12, <3>1
    <3>2. CASE q # k
      <4>1. q \in 1..(k - 1) /\ q \in 1..N
        BY <1>1, <3>2
      <4> QED BY <1>2, <1>12, <3>2, <4>1
    <3> QED BY <3>1, <3>2
  <2>2. \A q \in (k + 1)..N : e4.buf[q] = i.img[q]
    <3> TAKE q \in (k + 1)..N
    <3>1. q \in k..N /\ q \in 1..N /\ q # k
      BY <1>1
    <3> QED BY <1>2, <1>12, <3>1
  <2> QED BY <1>11, <1>12, <2>1, <2>2 DEF EncodedTo
<1>14. ASSUME Begins(e4.code, T)
       PROVE  CodePixel(d, k) = d4 /\ Follower(e4, d4, T, {}) /\ Whole(d4.buf, i)
              /\ \A q \in 1..k : d4.buf[q] = e4.buf[q]
  <2>1. Leads(e2, e3, d2, d3, T, {}, Planes(i.rgb))
    BY <1>1, <1>9 DEF AllGo
  <2>2. Begins(e3.code, T)
    BY <1>11, <1>14
  <2>3. Begins(e2.code, T) /\ Begins(e.code, T)
    BY <1>7, <1>8, <2>1, <2>2 DEF Leads
  <2>4. Follower(e, d, T, {}) /\ Whole(d.buf, i) /\ \A q \in 1..(k - 1) : d.buf[q] = e.buf[q]
    BY <2>3 DEF DecodedTo
  <2>5. Follower(e1, d1, T, {}) /\ d1.buf = d.buf
    BY <1>6, <2>4 DEF Shifts
  <2>6. Follower(e2, d2, T, {}) /\ d2.buf = d.buf
    BY <1>7, <1>8, <2>4, <2>5
  <2>7. Follower(e3, d3, T, Planes(i.rgb)) /\ d3.buf = d.buf
    BY <2>1, <2>2, <2>6 DEF Leads
  <2>8. Follower(e4, d4, T, {}) /\ d4.buf = [d.buf EXCEPT ![k] = px]
    BY <1>11, <2>7
  <2>9. Whole(d4.buf, i) /\ d4.buf[k] = px /\ \A q \in 1..N : q # k => d4.buf[q] = d.buf[q]
    BY <2>4, <2>8 DEF Whole
  <2>10. \A q \in 1..k : d4.buf[q] = e4.buf[q]
    <3> TAKE q \in 1..k
    <3>1. CASE q = k
      BY <1>12, <2>9, <3>1
    <3>2. CASE q # k
      <4>1. q \in 1..(k - 1) /\ q \in 1..N
        BY <1>1, <3>2
      <4> QED BY <1>12, <2>4, <2>9, <3>2, <4>1
    <3> QED BY <3>1, <3>2
  <2>11. d.width = i.width
    BY <1>3, <2>4 DEF Follower
  <2>12. CodePixel(d, k) = d4
    <3> DEFINE w == i.width
    <3>1. d.width = w
      BY <2>11
    <3> HIDE DEF w
    <3>2. CodePixel(d, k) =
             Written(CodePlanes(Neighbours(StartOfLine(d, (k - 1) % w), (k - 1) \div w, (k - 1) % w)), k)
      BY <3>1, PixelIs
    <3> QED BY <3>2 DEF w, d4, d3, d2, d1
  <2> QED BY <2>8, <2>9, <2>10, <2>12
<1>15. DecodedTo(i, e4, CodePixel(d, k), T, k)
  BY <1>14 DEF DecodedTo
<1> QED BY <1>4, <1>13, <1>15 DEF e4, e3, e2, e1

-----------------------------------------------------------------------------
(* An image.                                                               *)

\* The loop over the pixels, as a function of the number of pixels done.
PixelLoop(f, st) ==
    f = [k \in 0..Len(st.buf) |-> IF k = 0 THEN st ELSE CodePixel(f[k - 1], k)]

\* There is such a function.
LEMMA PixelLoopExists ==
    ASSUME NEW st, Len(st.buf) \in Nat
    PROVE  \E f : PixelLoop(f, st)
<1> DEFINE To(m, f) == f = [k \in 0..m |-> IF k = 0 THEN st ELSE CodePixel(f[k - 1], k)]
           T == {m \in Nat : \E f : To(m, f)}
<1>1. 0 \in T
  <2> DEFINE f == [k \in 0..0 |-> st]
  <2>1. To(0, f)
    OBVIOUS
  <2> QED BY <2>1
<1>2. ASSUME NEW m \in Nat, m \in T PROVE m + 1 \in T
  <2>1. PICK f : To(m, f)
    BY <1>2
  <2> DEFINE h == [k \in 0..(m + 1) |-> IF k <= m THEN f[k] ELSE CodePixel(f[m], m + 1)]
  <2>2. \A k \in 0..m : h[k] = f[k]
    OBVIOUS
  <2>3. h[m + 1] = CodePixel(h[m], m + 1)
    BY <2>2
  <2>4. \A k \in 0..(m + 1) : h[k] = IF k = 0 THEN st ELSE CodePixel(h[k - 1], k)
    <3> TAKE k \in 0..(m + 1)
    <3>1. CASE k = m + 1
      BY <2>3, <3>1
    <3>2. CASE k \in 0..m
      <4>1. f[k] = IF k = 0 THEN st ELSE CodePixel(f[k - 1], k)
        BY <2>1, <3>2
      <4>2. k # 0 => f[k - 1] = h[k - 1]
        BY <2>2, <3>2
      <4> QED BY <2>2, <3>2, <4>1, <4>2
    <3> QED BY <3>1, <3>2
  <2> HIDE DEF h
  <2>5. h = [k \in 0..(m + 1) |-> h[k]]
    BY DEF h
  <2>6. To(m + 1, h)
    BY <2>4, <2>5
  <2> QED BY <2>6
<1> HIDE DEF To
<1>3. T = Nat
  <2> HIDE DEF T
  <2>1. T \in SUBSET Nat
    BY DEF T
  <2> QED BY <1>1, <1>2, <2>1, Induction
<1>4. \E f : To(Len(st.buf), f)
  BY <1>3
<1> QED BY <1>4 DEF To, PixelLoop

\* CodedImage is the last value of it.
LEMMA CodedImageIs ==
    ASSUME NEW st, Len(st.buf) \in Nat
    PROVE  \E f : PixelLoop(f, st) /\ CodedImage(st) = f[Len(st.buf)]
<1> DEFINE run == CHOOSE f : PixelLoop(f, st)
<1>1. PixelLoop(run, st)
  BY PixelLoopExists
<1>2. CodedImage(st) = run[Len(st.buf)]
  BY DEF CodedImage, PixelLoop
<1> QED BY <1>1, <1>2

\* The loop, pixel by pixel.
LoopsTo(f, st, N) == f[0] = st /\ \A k \in 1..N : f[k] = CodePixel(f[k - 1], k)

\* The loop has these values.
LEMMA LoopsAt ==
    ASSUME NEW f, NEW st, NEW N \in Nat, Len(st.buf) = N, PixelLoop(f, st)
    PROVE  LoopsTo(f, st, N)
BY DEF PixelLoop, LoopsTo

\* Before the first pixel.
LEMMA BeginIs ==
    ASSUME NEW enc, NEW rgb, NEW buf, NEW width, NEW near, NEW masks, NEW code
    PROVE  Begin(enc, rgb, buf, width, near, masks, code) =
              [enc |-> enc, rgb |-> rgb, buf |-> buf, width |-> width, masks |-> masks, code |-> code,
               m |-> [p \in Planes(rgb) |-> Fresh(TopWith(rgb, masks)[p], near)],
               x |-> [p \in Planes(rgb) |-> 0], lost |-> FALSE]
BY DEF Begin, TopWith

\* Both sides before the first pixel.
FirstEncoder(i) == Begin(TRUE, i.rgb, i.img, i.width, i.near, MasksOf(i), <<>>)
FirstDecoder(i, blank, T) == Begin(FALSE, i.rgb, blank, i.width, i.near, MasksOf(i), T)

\* What they are then.
Starts(i, st, enc, buf, code) ==
    /\ DOMAIN st = Nine /\ Frame(st, i) /\ st.enc = enc /\ st.buf = buf /\ st.code = code
    /\ st.m = [p \in Planes(i.rgb) |-> Fresh(TopOf(i)[p], i.near)]
    /\ st.x = [p \in Planes(i.rgb) |-> 0] /\ st.lost = FALSE

\* Begin, one field after the other.
LEMMA BeginParts ==
    ASSUME NEW i, NEW enc, NEW buf, NEW code
    PROVE  Starts(i, Begin(enc, i.rgb, buf, i.width, i.near, MasksOf(i), code), enc, buf, code)
<1> DEFINE st == Begin(enc, i.rgb, buf, i.width, i.near, MasksOf(i), code)
           m == [p \in Planes(i.rgb) |-> Fresh(TopOf(i)[p], i.near)]
           x == [p \in Planes(i.rgb) |-> 0]
<1>1. st = [enc |-> enc, rgb |-> i.rgb, buf |-> buf, width |-> i.width, masks |-> MasksOf(i), code |-> code,
            m |-> m, x |-> x, lost |-> FALSE]
  BY BeginIs DEF TopOf
<1> HIDE DEF st, m, x
<1>2. /\ DOMAIN st = Nine /\ st.rgb = i.rgb /\ st.width = i.width /\ st.masks = MasksOf(i)
      /\ st.enc = enc /\ st.buf = buf /\ st.code = code /\ st.m = m /\ st.x = x /\ st.lost = FALSE
  BY <1>1 DEF Nine
<1>3. Starts(i, st, enc, buf, code)
  BY <1>2 DEF Starts, Frame, m, x
<1> QED BY <1>3 DEF st

\* The encoder.
LEMMA EncoderStarts ==
    ASSUME NEW i
    PROVE  Starts(i, FirstEncoder(i), TRUE, i.img, <<>>)
<1> DEFINE buf == i.img
           code == <<>>
<1> HIDE DEF buf, code
<1>1. Starts(i, Begin(TRUE, i.rgb, buf, i.width, i.near, MasksOf(i), code), TRUE, buf, code)
  BY BeginParts
<1> QED BY <1>1 DEF FirstEncoder, buf, code

\* The decoder, with any buffer and any code.
LEMMA DecoderStarts ==
    ASSUME NEW i, NEW blank, NEW T
    PROVE  Starts(i, FirstDecoder(i, blank, T), FALSE, blank, T)
BY BeginParts DEF FirstDecoder

\* The encoder has coded no pixel yet.
LEMMA BeginFits ==
    ASSUME NEW i, IsImage(i)
    PROVE  EncodedTo(i, FirstEncoder(i), 0)
<1> DEFINE e == FirstEncoder(i)
           top == TopOf(i)
           m == [p \in Planes(i.rgb) |-> Fresh(top[p], i.near)]
           x == [p \in Planes(i.rgb) |-> 0]
           N == Len(i.img)
<1>1. /\ DOMAIN e = Nine /\ Frame(e, i) /\ e.enc = TRUE /\ e.buf = i.img /\ e.code = <<>>
      /\ e.m = m /\ e.x = x
  BY EncoderStarts DEF Starts
<1>2. top \in Tops /\ DOMAIN top = Planes(i.rgb) /\ i.near \in Nat /\ N \in Nat /\ DOMAIN i.img = 1..N
  BY TopIs, ImageIs
<1> HIDE DEF e, top
<1>3. \A p \in Planes(i.rgb) : top[p] \in Nat
  BY <1>2 DEF Tops
<1>4. ModelsFit(m, top, i.near)
  <2>1. \A p \in DOMAIN top : ModelFits(Fresh(top[p], i.near), top[p], i.near)
    BY <1>2, <1>3, FreshFits
  <2> QED BY <1>2, <2>1 DEF ModelsFit
<1>5. SampleFits(x, top)
  BY <1>2, <1>3 DEF SampleFits
<1>6. Encoding(e, top, i.near)
  <2>1. <<>> \in Seq(PlaneNumbers(DOMAIN top, top))
    OBVIOUS
  <2> QED BY <1>1, <1>4, <1>5, <2>1 DEF Encoding
<1>7. Whole(i.img, i)
  <2> DEFINE S == PixelsOf(i.rgb)
  <2>1. i.img \in Seq(S)
    BY ImageIs
  <2> HIDE DEF S
  <2>2. i.img = [q \in 1..Len(i.img) |-> i.img[q]]
    BY <2>1
  <2> QED BY <2>2 DEF Whole
<1>8. (0 + 1)..N = 1..N /\ \A q \in 1..0 : FALSE
  BY <1>2
<1> QED BY <1>1, <1>6, <1>7, <1>8 DEF EncodedTo, e, top

\* And the decoder of any code is with it.
LEMMA DecoderBegins ==
    ASSUME NEW i, IsImage(i), NEW T \in CodesOf(i), NEW blank, Whole(blank, i)
    PROVE  DecodedTo(i, FirstEncoder(i), FirstDecoder(i, blank, T), T, 0)
<1> DEFINE e == FirstEncoder(i)
           d == FirstDecoder(i, blank, T)
           m == [p \in Planes(i.rgb) |-> Fresh(TopOf(i)[p], i.near)]
           x == [p \in Planes(i.rgb) |-> 0]
<1>1. /\ DOMAIN e = Nine /\ Frame(e, i) /\ e.enc = TRUE /\ e.buf = i.img /\ e.code = <<>>
      /\ e.m = m /\ e.x = x
  BY EncoderStarts DEF Starts
<1>2. /\ DOMAIN d = Nine /\ Frame(d, i) /\ d.enc = FALSE /\ d.buf = blank /\ d.code = T
      /\ d.m = m /\ d.x = x /\ d.lost = FALSE
  <2>1. Starts(i, d, FALSE, blank, T)
    BY DecoderStarts
  <2> HIDE DEF d
  <2> QED BY <2>1 DEF Starts
<1> HIDE DEF e, d, m, x
<1>3. T = SubSeq(T, Len(<<>>) + 1, Len(T))
  <2> DEFINE S == PlaneNumbers(DOMAIN TopOf(i), TopOf(i))
  <2>1. T \in Seq(S)
    BY DEF CodesOf
  <2> HIDE DEF S
  <2>2. \A c \in Seq(S) : c = SubSeq(c, 1, Len(c))
    OBVIOUS
  <2>3. Len(<<>>) + 1 = 1
    OBVIOUS
  <2> QED BY <2>1, <2>2, <2>3
<1>4. Follower(e, d, T, {})
  BY <1>1, <1>2, <1>3 DEF Follower, Frame
<1>5. \A q \in 1..0 : FALSE
  OBVIOUS
<1> QED BY <1>2, <1>4, <1>5 DEF DecodedTo, e, d

\* All pixels, of encoder and decoder.
LEMMA AllPixels ==
    ASSUME NEW i, IsImage(i), NEW T \in CodesOf(i), NEW blank, Whole(blank, i),
           NEW E, LoopsTo(E, FirstEncoder(i), Len(i.img)), NEW D, LoopsTo(D, FirstDecoder(i, blank, T), Len(i.img))
    PROVE  EncodedTo(i, E[Len(i.img)], Len(i.img)) /\ DecodedTo(i, E[Len(i.img)], D[Len(i.img)], T, Len(i.img))
<1> DEFINE N == Len(i.img)
           Both(k) == EncodedTo(i, E[k], k) /\ DecodedTo(i, E[k], D[k], T, k)
           S == {k \in Nat : k <= N => Both(k)}
<1>1. N \in Nat
  BY ImageIs
<1>2. /\ E[0] = FirstEncoder(i) /\ \A k \in 1..N : E[k] = CodePixel(E[k - 1], k)
      /\ D[0] = FirstDecoder(i, blank, T) /\ \A k \in 1..N : D[k] = CodePixel(D[k - 1], k)
  BY DEF LoopsTo
<1> HIDE DEF N
<1>3. 0 \in S
  <2>1. Both(0)
    BY <1>2, BeginFits, DecoderBegins
  <2> QED BY <2>1
<1>4. ASSUME NEW k \in Nat, k \in S PROVE k + 1 \in S
  <2> SUFFICES ASSUME k + 1 <= N PROVE Both(k + 1)
    OBVIOUS
  <2>1. Both(k)
    BY <1>1, <1>4
  <2> DEFINE j == k + 1
  <2>2. j \in 1..N /\ j - 1 = k
    BY <1>1
  <2> HIDE DEF j
  <2>3. E[j] = CodePixel(E[k], j) /\ D[j] = CodePixel(D[k], j)
    BY <1>2, <2>2
  <2>4. EncodedTo(i, E[k], j - 1) /\ DecodedTo(i, E[k], D[k], T, j - 1)
    BY <2>1, <2>2
  <2> DEFINE e == E[k]
             d == D[k]
  <2> HIDE DEF e, d
  <2>5. EncodedTo(i, CodePixel(e, j), j) /\ DecodedTo(i, CodePixel(e, j), CodePixel(d, j), T, j)
    BY <2>2, <2>4, PixelGoes DEF N, e, d
  <2> QED BY <2>3, <2>5 DEF e, d, j
<1> HIDE DEF Both
<1>5. S = Nat
  <2> HIDE DEF S
  <2>1. S \in SUBSET Nat
    BY DEF S
  <2> QED BY <1>3, <1>4, <2>1, Induction
<1>6. Both(N)
  BY <1>1, <1>5
<1> QED BY <1>6 DEF Both, N

\* What PixelsSurvive says of both sides.
ImageSurvives(i, e, d) ==
    /\ ~d.lost /\ d.code = <<>> /\ d.buf = e.buf
    /\ \A k \in DOMAIN e.buf : PixelNear(i, e.buf[k], i.img[k])
    /\ \A k \in DOMAIN e.code : e.code[k].w \in 0..e.m[e.code[k].ctx[1]].maxval

\* compressNBLI, decompressNBLI: any image, of any size and any near, and whatever the
\* decoder's buffer has held: the decoder gets the pixels the encoder has put in the place
\* of the image's own, which are near enough to them, uses up the code, and all numbers are
\* within their histogram.
THEOREM ImageReturns ==
    ASSUME NEW i, IsImage(i), NEW blank, blank = [k \in DOMAIN i.img |-> blank[k]]
    PROVE  LET e == Encoded(i.img, i.rgb, i.width, i.near)
           IN  ImageSurvives(i, e, Decoded(e, blank, i.near))
<1> DEFINE e == Encoded(i.img, i.rgb, i.width, i.near)
           d == Decoded(e, blank, i.near)
           T == e.code
           N == Len(i.img)
           top == TopOf(i)
           first == FirstEncoder(i)
           start == FirstDecoder(i, blank, T)
<1>1. N \in Nat /\ DOMAIN i.img = 1..N /\ top \in Tops
  BY ImageIs, TopIs
<1>2. e = CodedImage(first)
  BY DEF Encoded, FirstEncoder, MasksOf
<1>3. first.buf = i.img
  BY EncoderStarts DEF Starts
<1>4. PICK E : LoopsTo(E, first, N) /\ e = E[N]
  <2> HIDE DEF e
  <2>1. Len(first.buf) = N
    BY <1>3
  <2> HIDE DEF first, N
  <2>2. PICK E : PixelLoop(E, first) /\ CodedImage(first) = E[N]
    BY <1>1, <2>1, CodedImageIs
  <2> QED BY <1>1, <1>2, <2>1, <2>2, LoopsAt
<1> HIDE DEF e
<1>5. Whole(blank, i)
  BY <1>1 DEF Whole
<1>6. EncodedTo(i, e, N)
  <2> DEFINE base == FirstDecoder(i, blank, <<>>)
  <2>1. <<>> \in CodesOf(i)
    BY DEF CodesOf
  <2>2. base.buf = blank
    <3>1. Starts(i, base, FALSE, blank, <<>>)
      BY DecoderStarts
    <3> HIDE DEF base
    <3> QED BY <3>1 DEF Starts
  <2>3. Len(base.buf) = N
    <3>1. blank = [k \in 1..N |-> blank[k]]
      BY <1>1
    <3>2. Len(blank) = N
      <4> HIDE DEF N
      <4>1. DOMAIN blank = 1..N
        BY <3>1
      <4>2. Len([k \in 1..N |-> blank[k]]) = N
        BY <1>1
      <4> QED BY <3>1, <4>2
    <3> QED BY <2>2, <3>2
  <2> HIDE DEF N
  <2>4. PICK F : LoopsTo(F, base, N)
    <3> HIDE DEF base
    <3>1. PICK F : PixelLoop(F, base)
      BY <1>1, <2>3, PixelLoopExists
    <3> QED BY <1>1, <2>3, <3>1, LoopsAt
  <2>5. EncodedTo(i, E[N], N)
    BY <1>4, <1>5, <2>1, <2>4, AllPixels DEF N
  <2> QED BY <1>4, <2>5
<1>7. Encoding(e, top, i.near) /\ Frame(e, i) /\ Whole(e.buf, i)
      /\ \A q \in 1..N : PixelNear(i, e.buf[q], i.img[q])
  BY <1>6 DEF EncodedTo
<1>8. T \in CodesOf(i) /\ T \in Seq(PlaneNumbers(DOMAIN top, top))
  BY <1>7 DEF Encoding, CodesOf
<1>9. d = CodedImage(start)
  BY <1>7 DEF Decoded, FirstDecoder, Frame
<1> HIDE DEF T
<1>10. PICK D : LoopsTo(D, start, N) /\ d = D[N]
  <2> HIDE DEF d
  <2>1. start.buf = blank
    <3>1. Starts(i, start, FALSE, blank, T)
      BY DecoderStarts
    <3> HIDE DEF start
    <3> QED BY <3>1 DEF Starts
  <2>2. Len(start.buf) = N
    <3>1. blank = [k \in 1..N |-> blank[k]]
      BY <1>1
    <3> HIDE DEF N
    <3>2. Len([k \in 1..N |-> blank[k]]) = N
      BY <1>1
    <3> QED BY <2>1, <3>1, <3>2
  <2> HIDE DEF start, N
  <2>3. PICK D : PixelLoop(D, start) /\ CodedImage(start) = D[N]
    BY <1>1, <2>2, CodedImageIs
  <2> QED BY <1>1, <1>9, <2>2, <2>3, LoopsAt
<1> HIDE DEF d
<1>11. DecodedTo(i, e, d, T, N)
  <2>1. DecodedTo(i, E[N], D[N], T, N)
    BY <1>4, <1>5, <1>8, <1>10, AllPixels
  <2> QED BY <1>4, <1>10, <2>1
<1> DEFINE S == PlaneNumbers(DOMAIN top, top)
<1>12. T \in Seq(S)
  BY <1>8
<1>13. Begins(e.code, T)
  <2> HIDE DEF S
  <2>1. Begins(T, T)
    BY <1>12 DEF Begins
  <2> QED BY <2>1 DEF T
<1>14. Follower(e, d, T, {}) /\ Whole(d.buf, i) /\ \A q \in 1..N : d.buf[q] = e.buf[q]
  BY <1>11, <1>13 DEF DecodedTo
<1>15. d.buf = e.buf /\ DOMAIN e.buf = 1..N
  BY <1>7, <1>14 DEF Whole
<1>16. ~d.lost /\ d.code = <<>>
  <2>1. d.code = SubSeq(T, Len(T) + 1, Len(T)) /\ d.lost = FALSE
    BY <1>14 DEF Follower, T
  <2> HIDE DEF S
  <2>2. SubSeq(T, Len(T) + 1, Len(T)) = <<>>
    BY <1>12
  <2> QED BY <2>1, <2>2
<1>17. \A k \in DOMAIN e.code : e.code[k].w \in 0..e.m[e.code[k].ctx[1]].maxval
  <2> SUFFICES ASSUME NEW k \in DOMAIN e.code PROVE e.code[k].w \in 0..e.m[e.code[k].ctx[1]].maxval
    OBVIOUS
  <2> DEFINE s == e.code[k]
  <2>1. s \in S
    <3> HIDE DEF S
    <3> QED BY <1>12 DEF T
  <2> HIDE DEF s
  <2> DEFINE dom == DOMAIN top
             ctx == s.ctx
             p == ctx[1]
  <2>2. ctx \in dom \X Nat /\ s.w \in 0..top[p]
    <3>1. s \in [ctx : dom \X Nat, w : Nat] /\ s.w \in 0..top[p]
      BY <2>1 DEF PlaneNumbers
    <3> HIDE DEF dom, p
    <3>2. s.ctx \in dom \X Nat
      BY <3>1
    <3> QED BY <3>1, <3>2
  <2> HIDE DEF dom, ctx
  <2>3. p \in dom
    BY <2>2
  <2> HIDE DEF p
  <2>4. e.m[p].maxval = top[p]
    BY <1>7, <2>3 DEF dom, Encoding, ModelsFit, ModelFits
  <2> QED BY <2>2, <2>4 DEF p, ctx, s
<1>18. ImageSurvives(i, e, d)
  BY <1>7, <1>15, <1>16, <1>17 DEF ImageSurvives
<1> QED BY <1>18 DEF e, d

\* A blank buffer is one.
LEMMA NbliSurvives ==
    ASSUME NEW i, IsImage(i)
    PROVE  LET both == NbliBothWays(i) IN ImageSurvives(i, both[1], both[2])
<1> DEFINE blank == [k \in DOMAIN i.img |-> IF i.rgb THEN <<0, 0, 0>> ELSE 0]
           e == Encoded(i.img, i.rgb, i.width, i.near)
<1>1. blank = [k \in DOMAIN i.img |-> blank[k]]
  OBVIOUS
<1>2. NbliBothWays(i) = <<e, Decoded(e, blank, i.near)>>
  BY DEF NbliBothWays
<1> HIDE DEF blank
<1>3. ImageSurvives(i, e, Decoded(e, blank, i.near))
  BY <1>1, ImageReturns
<1> HIDE DEF e
<1> QED BY <1>2, <1>3

\* A result is that of its image.
Imaged ==
    /\ kind = "nbli" => input \in Images
    /\ Has("nbli") => result = NbliBothWays(input)

\* compressNBLI, decompressNBLI: what the decoder makes of the code of any image.
THEOREM PixelsAlwaysSurvive == AlgSpec => []PixelsSurvive
<1>1. AlgInit => Imaged
  BY DEF AlgInit, Imaged, Has
<1>2. Imaged /\ [AlgNext]_algVars => Imaged'
  BY DEF AlgNext, algVars, Compute, Imaged, Has
<1>3. Imaged => PixelsSurvive
  <2> SUFFICES ASSUME Imaged, Has("nbli") PROVE PixelsSurvive
    BY DEF PixelsSurvive
  <2>1. IsImage(input)
    BY ImagesAssumption DEF Imaged, Has
  <2>2. ImageSurvives(input, NbliBothWays(input)[1], NbliBothWays(input)[2])
    BY <2>1, NbliSurvives
  <2>3. ImageSurvives(input, result[1], result[2])
    BY <2>2 DEF Imaged
  <2> QED BY <2>3 DEF ImageSurvives, PixelNear, Allowed, PixelsSurvive
<1> QED BY <1>1, <1>2, <1>3, PTL DEF AlgSpec
=============================================================================
