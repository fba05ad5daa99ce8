---------------------------- MODULE ReadBackProofs ----------------------------
(***************************************************************************)
(* What is written can be read: the codes of MCAlgorithms, one by one.     *)
(*                                                                         *)
(* The arithmetic coder, for every size of the words and every precision:  *)
(* its probability never gets certain, the interval keeps to two words and *)
(* stays large enough for the next bit, and the decoder, whose window of   *)
(* the stream lies in the interval afterwards, had it in the interval      *)
(* before and finds the bit.  Then the code trees, whose values return.    *)
(*                                                                         *)
(* The matches and the runs of lengths of deflate, the words of the tables *)
(* of fNBLI, the masks of NBLI and the rows of PNG, for every input of any *)
(* size; and with all of these, ReadBack.                                  *)
(***************************************************************************)
EXTENDS MCAlgorithms, FiniteSetTheorems, SequenceTheorems, WellFoundedInduction, TLAPS

-----------------------------------------------------------------------------
(* Quotients.                                                              *)

\* Quotient and remainder.
LEMMA Division ==
    ASSUME NEW a \in Nat, NEW m \in Nat \ {0}
    PROVE  /\ a \div m \in Nat
           /\ a % m \in 0..(m - 1)
           /\ a = m * (a \div m) + (a % m)
BY SMT

\* The quotient and the remainder are the only ones.
LEMMA DivisionUnique ==
    ASSUME NEW m \in Nat \ {0}, NEW q \in Nat, NEW r \in 0..(m - 1)
    PROVE  /\ (m * q + r) \div m = q
           /\ (m * q + r) % m = r
BY SMT

\* A product grows with its factor.
LEMMA ProductGrows ==
    ASSUME NEW a \in Nat, NEW b \in Nat, NEW c \in Nat, a <= b
    PROVE  /\ c * a <= c * b
           /\ c * a \in Nat
           /\ c * b \in Nat
BY SMT

\* A quotient is at least what fits.
LEMMA QuotientAtLeast ==
    ASSUME NEW a \in Nat, NEW m \in Nat \ {0}, NEW q \in Nat, m * q <= a
    PROVE  q <= a \div m
BY SMT

\* A quotient is below what does not fit.
LEMMA QuotientBelow ==
    ASSUME NEW a \in Nat, NEW m \in Nat \ {0}, NEW q \in Nat, a < m * q
    PROVE  a \div m < q
BY SMT

-----------------------------------------------------------------------------
(* The arithmetic coder.                                                   *)

\* The probabilities a ProbabilityModel reaches.
OpenProbs == (Rate - 1)..(One - Rate + 1)

\* What a bit may find: an interval of two words.
Interval(low, rng) == low \in Nat /\ rng \in Nat /\ rng >= MinRange /\ low + rng < Radix * Radix

\* The decoder's window before a bit, from the one after it: what was shifted
\* out is the word the encoder wrote.
Back(low, rng, sft) == IF Small(rng) THEN (low \div Radix) * Radix + sft \div Radix ELSE sft

\* The sizes of the arithmetic coder.
LEMMA AriSizes ==
    /\ One \in Nat \ {0} /\ Rate \in Nat \ {0} /\ Radix \in Nat \ {0}
    /\ MinRange \in Nat \ {0} /\ Radix * Radix \in Nat
BY AriAssumption

-----------------------------------------------------------------------------
(* Probabilities.                                                          *)

\* Moving by one part in Rate does not leave what is at least Rate - 1 below it.
LEMMA MovesLess ==
    ASSUME NEW z \in Nat, z >= Rate - 1
    PROVE  /\ z \div Rate \in Nat
           /\ z - z \div Rate >= Rate - 1
           /\ z \div Rate <= z
<1> DEFINE q == z \div Rate
           r == z % Rate
<1>1. q \in Nat /\ r \in 0..(Rate - 1) /\ z = Rate * q + r
  BY Division, AriSizes
<1> HIDE DEF q, r
<1>2. CASE q = 0
  BY <1>1, <1>2 DEF q
<1>3. CASE q >= 1
  <2>1. Rate \in Nat /\ Rate >= 2 /\ Rate - 1 \in Nat
    BY AriAssumption
  <2>2. (Rate - 1) * 1 <= (Rate - 1) * q
    BY <1>1, <1>3, <2>1, ProductGrows
  <2>3. (Rate - 1) * q = Rate * q - q /\ (Rate - 1) * 1 = Rate - 1
    BY <1>1, <2>1
  <2>4. Rate * q \in Nat
    BY <1>1, <2>1
  <2>5. z - q >= Rate - 1 /\ q <= z
    BY <1>1, <2>1, <2>2, <2>3, <2>4
  <2> QED
    BY <1>1, <2>5 DEF q
<1> QED
  BY <1>1, <1>2, <1>3

\* A probability starts open and stays so: both bits can always be coded.
THEOREM ProbabilityStaysOpen ==
    /\ Even \in OpenProbs
    /\ \A pr \in OpenProbs, bin \in BOOLEAN : Updated(pr, bin) \in OpenProbs
    /\ OpenProbs \subseteq 1..(One - 1)
<1>0. One \in Nat /\ Rate \in Nat /\ Rate >= 2 /\ One >= 2 * Rate
  BY AriAssumption
<1>1. Even \in OpenProbs
  BY <1>0 DEF Even, OpenProbs
<1>2. ASSUME NEW pr \in OpenProbs, NEW bin \in BOOLEAN
      PROVE  Updated(pr, bin) \in OpenProbs
  <2>1. /\ pr \in Nat /\ pr >= Rate - 1
        /\ One - pr \in Nat /\ One - pr >= Rate - 1
    BY <1>0 DEF OpenProbs
  <2>2. /\ pr \div Rate \in Nat /\ pr - pr \div Rate >= Rate - 1
    BY <2>1, MovesLess
  <2>3. /\ (One - pr) \div Rate \in Nat
        /\ (One - pr) - (One - pr) \div Rate >= Rate - 1
    BY <2>1, MovesLess
  <2>4. CASE bin
    BY <1>0, <2>1, <2>3, <2>4 DEF Updated, OpenProbs
  <2>5. CASE ~bin
    BY <1>0, <2>1, <2>2, <2>5 DEF Updated, OpenProbs
  <2> QED
    BY <2>4, <2>5
<1>3. OpenProbs \subseteq 1..(One - 1)
  BY <1>0 DEF OpenProbs
<1> QED
  BY <1>1, <1>2, <1>3

-----------------------------------------------------------------------------
(* The interval.                                                           *)

\* The middle is inside: neither bit gets an empty part.
LEMMA MidInside ==
    ASSUME NEW rng \in Nat, rng >= 1, NEW pr \in 1..(One - 1)
    PROVE  Mid(rng, pr) \in 0..(rng - 1)
<1>1. /\ One \in Nat \ {0} /\ pr \in Nat /\ One - 1 \in Nat
      /\ pr <= One - 1
  BY AriSizes
<1>2. pr * rng = rng * pr /\ (One - 1) * rng = rng * (One - 1) /\ pr * rng \in Nat
  BY <1>1
<1>3. rng * pr <= rng * (One - 1)
  BY <1>1, ProductGrows
<1>4. rng * (One - 1) = One * rng - rng /\ One * rng \in Nat
  BY <1>1
<1>5. pr * rng < One * rng
  BY <1>2, <1>3, <1>4
<1>6. (pr * rng) \div One < rng
  BY <1>1, <1>2, <1>5, QuotientBelow
<1>7. (pr * rng) \div One \in Nat
  BY <1>1, <1>2, Division
<1> QED
  BY <1>6, <1>7 DEF Mid

\* A bit narrows the interval.
LEMMA Narrows ==
    ASSUME NEW low, NEW rng, Interval(low, rng), NEW pr \in 1..(One - 1), NEW bin \in BOOLEAN
    PROVE  /\ Low(low, rng, pr, bin) \in Nat /\ Rng(rng, pr, bin) \in Nat
           /\ low <= Low(low, rng, pr, bin)
           /\ Low(low, rng, pr, bin) + Rng(rng, pr, bin) <= low + rng
           /\ \A sft \in Nat :
                 Low(low, rng, pr, bin) <= sft /\ sft <= Low(low, rng, pr, bin) + Rng(rng, pr, bin)
                   => Bin(sft, low, rng, pr) = bin
<1>1. low \in Nat /\ rng \in Nat /\ rng >= 1
  BY AriSizes DEF Interval
<1>2. Mid(rng, pr) \in 0..(rng - 1)
  BY <1>1, MidInside
<1> DEFINE m == Mid(rng, pr)
<1>3. m \in Nat /\ m + 1 <= rng
  BY <1>1, <1>2
<1>4. CASE bin
  <2>1. Low(low, rng, pr, bin) = low /\ Rng(rng, pr, bin) = m
    BY <1>4 DEF Low, Rng
  <2>2. \A sft \in Nat : sft <= low + m => (Bin(sft, low, rng, pr) = bin)
    BY <1>4 DEF Bin
  <2> HIDE DEF m
  <2> QED
    BY <1>1, <1>3, <2>1, <2>2
<1>5. CASE ~bin
  <2>1. Low(low, rng, pr, bin) = low + m + 1 /\ Rng(rng, pr, bin) = rng - (m + 1)
    BY <1>5 DEF Low, Rng
  <2>2. \A sft \in Nat : ~(sft <= low + m) => (Bin(sft, low, rng, pr) = bin)
    BY <1>5 DEF Bin
  <2> HIDE DEF m
  <2> QED
    BY <1>1, <1>3, <2>1, <2>2
<1> QED
  BY <1>4, <1>5

\* A capped interval fits.
LEMMA CapFits ==
    ASSUME NEW low \in Nat, NEW rng \in Nat
    PROVE  /\ Capped(low, rng) \in Nat /\ Capped(low, rng) <= rng
           /\ (low % Radix) + Capped(low, rng) <= Radix - 1
<1>1. low % Radix \in 0..(Radix - 1) /\ Radix \in Nat
  BY AriSizes, Division
<1> QED
  BY <1>1 DEF Capped

\* Interval and window of the next bit: two words, large enough, and the part
\* of the interval before that the encoder has narrowed it to.
LEMMA MovesUp ==
    ASSUME NEW low \in Nat, NEW rng \in Nat, low + rng < Radix * Radix, Small(rng)
    PROVE  /\ Interval(LowUp(low, rng), RngUp(low, rng))
           /\ \A sft \in LowUp(low, rng)..(LowUp(low, rng) + RngUp(low, rng)) :
                 LET before == Back(low, rng, sft)
                 IN  /\ before \in low..(low + rng)
                     /\ before \div Radix = low \div Radix
                     /\ Shifted(before, sft % Radix) = sft
<1> DEFINE lo == low % Radix
           hi == low \div Radix
           c  == Capped(low, rng)
<1>1. /\ Radix \in Nat \ {0} /\ Radix * Radix \in Nat
      /\ lo \in Nat /\ lo <= Radix - 1 /\ hi \in Nat /\ low = Radix * hi + lo
  <2>1. Radix \in Nat \ {0} /\ Radix * Radix \in Nat
    BY AriSizes
  <2>2. hi \in Nat /\ lo \in 0..(Radix - 1) /\ low = Radix * hi + lo
    BY <2>1, Division
  <2> HIDE DEF lo, hi
  <2> QED
    BY <2>1, <2>2
<1>2. c \in Nat /\ c <= rng /\ lo + c <= Radix - 1
  BY CapFits
<1>3. LowUp(low, rng) = lo * Radix /\ RngUp(low, rng) = c * Radix + Radix - 1
  BY DEF LowUp, RngUp
<1>4. /\ lo * Radix = Radix * lo /\ c * Radix = Radix * c /\ hi * Radix = Radix * hi
      /\ Radix * lo \in Nat /\ Radix * c \in Nat /\ Radix * hi \in Nat
  <2> HIDE DEF lo, c, hi
  <2> QED
    BY <1>1, <1>2
<1>5. /\ Radix * (lo + c) = Radix * lo + Radix * c
      /\ Radix * (lo + c + 1) = Radix * lo + Radix * c + Radix
      /\ Radix * (lo + c + 1) <= Radix * Radix
  <2> HIDE DEF lo, c
  <2>1. lo + c + 1 \in Nat /\ lo + c + 1 <= Radix
    BY <1>1, <1>2
  <2> QED
    BY <1>1, <1>2, <2>1, ProductGrows
<1>6. Interval(LowUp(low, rng), RngUp(low, rng))
  <2>1. Radix - 1 >= MinRange
    BY AriAssumption
  <2> HIDE DEF lo, c
  <2>2. lo * Radix \in Nat /\ c * Radix + Radix - 1 \in Nat
    BY <1>1, <1>4
  <2>3. c * Radix + Radix - 1 >= MinRange
    BY <1>1, <1>4, <2>1, AriSizes
  <2>4. lo * Radix + (c * Radix + Radix - 1) < Radix * Radix
    BY <1>1, <1>4, <1>5
  <2> QED
    BY <1>3, <2>2, <2>3, <2>4 DEF Interval
<1>7. ASSUME NEW sft \in LowUp(low, rng)..(LowUp(low, rng) + RngUp(low, rng))
      PROVE  LET before == Back(low, rng, sft)
             IN  /\ before \in low..(low + rng)
                 /\ before \div Radix = low \div Radix
                 /\ Shifted(before, sft % Radix) = sft
  <2> DEFINE q == sft \div Radix
             r == sft % Radix
  <2>1. sft \in Nat /\ Radix * lo <= sft /\ sft < Radix * (lo + c + 1)
    <3> HIDE DEF lo, c
    <3>1. /\ LowUp(low, rng) \in Nat /\ LowUp(low, rng) = Radix * lo
          /\ LowUp(low, rng) + RngUp(low, rng) = Radix * lo + Radix * c + Radix - 1
      BY <1>1, <1>3, <1>4
    <3> QED
      BY <1>1, <1>4, <1>5, <3>1
  <2>2. q \in Nat /\ r \in 0..(Radix - 1) /\ sft = Radix * q + r
    BY <1>1, <2>1, Division
  <2>3. lo <= q /\ q < lo + c + 1
    <3> HIDE DEF lo, c
    <3>1. lo + c + 1 \in Nat
      BY <1>1, <1>2
    <3> QED
      BY <1>1, <2>1, <3>1, QuotientBelow, QuotientAtLeast
  <2>4. Back(low, rng, sft) = Radix * hi + q
    BY <1>4 DEF Back
  <2> HIDE DEF lo, hi, c, q, r
  <2>5. q \in 0..(Radix - 1)
    BY <1>1, <1>2, <2>2, <2>3
  <2>6. (Radix * hi + q) \div Radix = hi /\ (Radix * hi + q) % Radix = q
    BY <1>1, <2>5, DivisionUnique
  <2>7. Radix * hi + q \in low..(low + rng)
    BY <1>1, <1>2, <1>4, <2>2, <2>3
  <2>8. q * Radix + r = sft
    BY <1>1, <2>2
  <2> QED
    BY <2>4, <2>6, <2>7, <2>8 DEF Shifted, hi, r
<1> QED
  BY <1>6, <1>7

\* After any bit the interval is again one of two words, with room for the
\* next bit; the first one is, too.
THEOREM IntervalStays ==
    /\ Interval(0, FirstRange)
    /\ \A low, rng \in Nat, pr \in 1..(One - 1), bin \in BOOLEAN :
          Interval(low, rng) =>
             LET l == Low(low, rng, pr, bin)
                 r == Rng(rng, pr, bin)
             IN  Interval(LowUp(l, r), RngUp(l, r))
<1>1. Interval(0, FirstRange)
  <2>1. Radix \in Nat /\ MinRange \in Nat /\ MinRange + 1 <= Radix /\ MinRange >= 1 /\ Radix >= 1
    BY AriAssumption
  <2>2. Radix * (MinRange + 1) <= Radix * Radix /\ Radix * (MinRange + 1) \in Nat /\ Radix * Radix \in Nat
    BY <2>1, ProductGrows
  <2>3. Radix * (MinRange + 1) = Radix * MinRange + Radix
    BY <2>1
  <2>4. MinRange * 1 <= MinRange * Radix /\ MinRange * Radix = Radix * MinRange
    BY <2>1, ProductGrows
  <2> QED
    BY <2>1, <2>2, <2>3, <2>4 DEF Interval, FirstRange
<1>2. ASSUME NEW low \in Nat, NEW rng \in Nat, NEW pr \in 1..(One - 1), NEW bin \in BOOLEAN,
             Interval(low, rng)
      PROVE  LET l == Low(low, rng, pr, bin)
                 r == Rng(rng, pr, bin)
             IN  Interval(LowUp(l, r), RngUp(l, r))
  <2> DEFINE l == Low(low, rng, pr, bin)
             r == Rng(rng, pr, bin)
  <2>1. l \in Nat /\ r \in Nat /\ l + r <= low + rng
    BY <1>2, Narrows
  <2>2. low + rng < Radix * Radix /\ Radix * Radix \in Nat
    BY <1>2, AriSizes DEF Interval
  <2> SUFFICES Interval(LowUp(l, r), RngUp(l, r))
    OBVIOUS
  <2> HIDE DEF l, r
  <2>3. l + r < Radix * Radix
    BY <2>1, <2>2
  <2>4. CASE Small(r)
    BY <2>1, <2>3, <2>4, MovesUp
  <2>5. CASE ~Small(r)
    <3>1. r >= MinRange
      BY <2>1, <2>5, AriSizes DEF Small
    <3>2. LowUp(l, r) = l /\ RngUp(l, r) = r
      BY <2>5 DEF LowUp, RngUp
    <3> QED
      BY <2>1, <2>3, <3>1, <3>2 DEF Interval
  <2> QED
    BY <2>4, <2>5
<1> QED
  BY <1>1, <1>2

\* The decoder's side of a bit: with the window in the interval afterwards, it
\* was in the interval before, gave the encoder's bit, and held the word the
\* encoder wrote; shifting in the next word makes the window afterwards.
THEOREM BitSurvives ==
    \A low, rng \in Nat, pr \in 1..(One - 1), bin \in BOOLEAN :
       Interval(low, rng) =>
          LET l == Low(low, rng, pr, bin)
              r == Rng(rng, pr, bin)
          IN  \A sft \in LowUp(l, r)..(LowUp(l, r) + RngUp(l, r)) :
                 LET before == Back(l, r, sft)
                 IN  /\ before \in low..(low + rng)
                     /\ Bin(before, low, rng, pr) = bin
                     /\ Small(r) => /\ before \div Radix = l \div Radix
                                    /\ Shifted(before, sft % Radix) = sft
                     /\ ~Small(r) => before = sft
<1> SUFFICES ASSUME NEW low \in Nat, NEW rng \in Nat, NEW pr \in 1..(One - 1),
                    NEW bin \in BOOLEAN, Interval(low, rng)
             PROVE  LET l == Low(low, rng, pr, bin)
                        r == Rng(rng, pr, bin)
                    IN  \A sft \in LowUp(l, r)..(LowUp(l, r) + RngUp(l, r)) :
                           LET before == Back(l, r, sft)
                           IN  /\ before \in low..(low + rng)
                               /\ Bin(before, low, rng, pr) = bin
                               /\ Small(r) => /\ before \div Radix = l \div Radix
                                              /\ Shifted(before, sft % Radix) = sft
                               /\ ~Small(r) => before = sft
  OBVIOUS
<1> DEFINE l == Low(low, rng, pr, bin)
           r == Rng(rng, pr, bin)
<1>1. /\ l \in Nat /\ r \in Nat /\ low <= l /\ l + r <= low + rng
      /\ \A sft \in Nat : l <= sft /\ sft <= l + r => Bin(sft, low, rng, pr) = bin
  BY Narrows
<1>2. l + r < Radix * Radix
  <2>1. low + rng < Radix * Radix /\ Radix * Radix \in Nat
    BY AriSizes DEF Interval
  <2> HIDE DEF l, r
  <2> QED
    BY <1>1, <2>1
<1> HIDE DEF l, r
<1>3. ASSUME NEW sft \in LowUp(l, r)..(LowUp(l, r) + RngUp(l, r))
      PROVE  LET before == Back(l, r, sft)
             IN  /\ before \in low..(low + rng)
                 /\ Bin(before, low, rng, pr) = bin
                 /\ Small(r) => /\ before \div Radix = l \div Radix
                                /\ Shifted(before, sft % Radix) = sft
                 /\ ~Small(r) => before = sft
  <2> DEFINE before == Back(l, r, sft)
  <2>1. before \in l..(l + r)
    <3>1. CASE Small(r)
      BY <1>1, <1>2, <3>1, MovesUp
    <3>2. CASE ~Small(r)
      BY <1>1, <3>2 DEF Back, LowUp, RngUp
    <3> QED
      BY <3>1, <3>2
  <2>2. Small(r) => before \div Radix = l \div Radix /\ Shifted(before, sft % Radix) = sft
    BY <1>1, <1>2, MovesUp
  <2>3. ~Small(r) => before = sft
    BY DEF Back
  <2> HIDE DEF before
  <2>4. before \in Nat /\ l <= before /\ before <= l + r /\ before \in low..(low + rng)
    BY <1>1, <2>1
  <2>5. Bin(before, low, rng, pr) = bin
    BY <1>1, <2>4
  <2> QED
    BY <2>2, <2>3, <2>4, <2>5 DEF before
<1> QED
  BY <1>3 DEF l, r

\* The order of the numbers.
LEMMA LessIsWellFounded == IsWellFoundedOn(OpToRel(<, Nat), Nat)
BY NatLessThanWellFounded

\* A set of numbers has a least one.
LEMMA LeastOf ==
    ASSUME NEW T \in SUBSET Nat, NEW x \in T
    PROVE  \E m \in T : \A k \in T : m <= k
<1> DEFINE below == {p \in Nat \X Nat : p[1] < p[2]}
<1>1. OpToRel(<, Nat) = below
  BY DEF OpToRel
<1>2. IsWellFoundedOn(below, Nat)
  BY <1>1, LessIsWellFounded
<1>3. \A a, b \in Nat : a < b => <<a, b>> \in below
  OBVIOUS
<1> HIDE DEF below
<1>4. T \subseteq Nat /\ T # {}
  OBVIOUS
<1>5. PICK m \in T : \A y \in T : ~ <<y, m>> \in below
  BY <1>2, <1>4, WFMin
<1>6. \A y \in T : m <= y
  <2> TAKE y \in T
  <2>1. m \in Nat /\ y \in Nat /\ ~ (y < m)
    BY <1>3, <1>4, <1>5
  <2> QED BY <2>1
<1> QED BY <1>6

\* A set with 0 and with the successor of each of its numbers has all numbers.
LEMMA Induction ==
    ASSUME NEW T \in SUBSET Nat, 0 \in T, \A k \in Nat : k \in T => k + 1 \in T
    PROVE  T = Nat
<1> SUFFICES ASSUME NEW x \in Nat \ T PROVE FALSE
  OBVIOUS
<1>1. PICK m \in Nat \ T : \A k \in Nat \ T : m <= k
  BY LeastOf
<1>2. m # 0 /\ m - 1 \in Nat /\ m - 1 \in T
  BY <1>1
<1> QED BY <1>1, <1>2

-----------------------------------------------------------------------------
(* Levels of the trees.                                                    *)

\* The sizes the program has.
LEMMA TreeSizes ==
    /\ NCtx \in Nat \ {0} /\ KStep \in Nat \ {0} /\ TreeSize \in Nat \ {0}
    /\ KM \in Nat
<1>1. NCtx \in Nat \ {0} /\ KStep \in Nat \ {0} /\ TreeSize \in Nat \ {0}
  BY GolombAssumption
<1>2. NCtx - 1 \in Nat
  BY <1>1
<1>3. KM \in Nat
  BY <1>1, <1>2, Division DEF KM
<1> QED BY <1>1, <1>3

\* Powers of two up to the m-th.
Doubles(u, m) == u = [k \in 0..m |-> IF k = 0 THEN 1 ELSE 2 * u[k - 1]]

\* There are these.
LEMMA DoublesExist == \E u : Doubles(u, KM)
<1> DEFINE T == {m \in Nat : \E u : Doubles(u, m)}
<1>1. 0 \in T
  <2> DEFINE u == [k \in 0..0 |-> 1]
  <2>1. u = [k \in 0..0 |-> IF k = 0 THEN 1 ELSE 2 * u[k - 1]]
    OBVIOUS
  <2> QED BY <2>1 DEF Doubles
<1>2. ASSUME NEW m \in Nat, m \in T PROVE m + 1 \in T
  <2>1. PICK u : Doubles(u, m)
    BY <1>2
  <2> DEFINE h == [k \in 0..(m + 1) |-> IF k <= m THEN u[k] ELSE 2 * u[m]]
  <2>2. \A k \in 0..m : h[k] = u[k]
    OBVIOUS
  <2>3. h[m + 1] = 2 * h[m]
    BY <2>2
  <2>4. \A k \in 0..(m + 1) : h[k] = IF k = 0 THEN 1 ELSE 2 * h[k - 1]
    <3> TAKE k \in 0..(m + 1)
    <3>1. CASE k = m + 1
      BY <2>3, <3>1
    <3>2. CASE k \in 0..m
      <4>1. u[k] = IF k = 0 THEN 1 ELSE 2 * u[k - 1]
        BY <2>1, <3>2 DEF Doubles
      <4>2. k # 0 => u[k - 1] = h[k - 1]
        BY <2>2, <3>2
      <4> QED BY <2>2, <3>2, <4>1, <4>2
    <3> QED BY <3>1, <3>2
  <2> HIDE DEF h
  <2>5. h = [k \in 0..(m + 1) |-> h[k]]
    BY DEF h
  <2>6. Doubles(h, m + 1)
    BY <2>4, <2>5 DEF Doubles
  <2> QED BY <2>6
<1>3. T = Nat
  <2> HIDE DEF T
  <2>1. T \in SUBSET Nat
    BY DEF T
  <2> QED BY <1>1, <1>2, <2>1, Induction
<1>4. KM \in T
  BY <1>3, TreeSizes
<1> QED BY <1>4

\* 1 << k.
LEMMA UnitIs ==
    /\ Unit[0] = 1
    /\ \A k \in 1..KM : Unit[k] = 2 * Unit[k - 1]
    /\ \A k \in 0..KM : Unit[k] \in Nat \ {0}
<1> DEFINE u == CHOOSE f : Doubles(f, KM)
<1>1. Doubles(u, KM)
  BY DoublesExist
<1>2. Unit = u
  BY DEF Unit, Doubles
<1> HIDE DEF u
<1>3. Unit = [k \in 0..KM |-> IF k = 0 THEN 1 ELSE 2 * Unit[k - 1]]
  BY <1>1, <1>2 DEF Doubles
<1>4. KM \in Nat
  BY TreeSizes
<1>5. Unit[0] = 1
  BY <1>3, <1>4
<1>6. \A k \in 1..KM : Unit[k] = 2 * Unit[k - 1]
  BY <1>3, <1>4
<1> DEFINE T == {k \in Nat : k <= KM => Unit[k] \in Nat \ {0}}
<1>7. T \in SUBSET Nat /\ 0 \in T
  BY <1>5
<1>8. ASSUME NEW k \in Nat, k \in T PROVE k + 1 \in T
  <2>1. CASE k + 1 <= KM
    <3>1. k + 1 \in 1..KM /\ (k + 1) - 1 = k /\ k <= KM
      BY <1>4, <2>1
    <3>2. Unit[k + 1] = 2 * Unit[k] /\ Unit[k] \in Nat \ {0}
      BY <1>6, <1>8, <3>1
    <3> QED BY <3>2
  <2>2. CASE ~ (k + 1 <= KM)
    BY <2>2
  <2> QED BY <2>1, <2>2
<1>9. T = Nat
  <2> HIDE DEF T
  <2> QED BY <1>7, <1>8, Induction
<1>10. \A k \in 0..KM : k \in T
  BY <1>4, <1>9
<1> QED BY <1>5, <1>6, <1>10

\* A tree has whole levels, at least one.
LEMMA TreeIsEven ==
    /\ Steep \in Nat \ {0}
    /\ TreeSize = Unit[KM] * Steep
<1>1. Unit[KM] \in Nat \ {0} /\ TreeSize \in Nat \ {0}
  BY UnitIs, TreeSizes
<1>2. TreeSize % Unit[KM] = 0
  BY GolombAssumption
<1>3. Steep \in Nat /\ TreeSize = Unit[KM] * Steep
  <2>1. /\ Steep \in Nat
        /\ TreeSize = Unit[KM] * Steep + (TreeSize % Unit[KM])
    BY <1>1, Division DEF Steep
  <2>2. Unit[KM] * Steep \in Nat
    BY <1>1, <2>1
  <2> QED BY <1>2, <2>1, <2>2
<1>4. Steep # 0
  <2>1. Unit[KM] * 0 = 0
    BY <1>1
  <2> QED BY <1>1, <1>3, <2>1
<1> QED BY <1>3, <1>4

\* The exponent of a context.
LEMMA KIs ==
    ASSUME NEW qd \in Nat
    PROVE  K(qd) \in 0..KM
<1>1. qd \div KStep \in Nat
  BY TreeSizes, Division
<1> QED BY <1>1, TreeSizes DEF K

\* From context to context the exponent grows by one; only the last one goes
\* on in the root of the last tree, with the same exponent.
LEMMA KGrows ==
    ASSUME NEW qd \in 0..(NCtx - 1)
    PROVE  /\ RoughQd(qd) \in Nat
           /\ RoughQd(qd) < NCtx => K(RoughQd(qd)) = K(qd) + 1 /\ K(qd) + 1 <= KM
           /\ RoughQd(qd) >= NCtx => K(qd) = KM
           /\ K(NCtx) = KM
<1> DEFINE k == K(qd)
<1>0. NCtx \in Nat \ {0} /\ KStep \in Nat \ {0} /\ KM \in Nat /\ KStep >= 1
  BY TreeSizes
<1>1. qd \in Nat /\ k \in 0..KM
  BY KIs, <1>0
<1>2. (k + 1) * KStep = KStep * (k + 1) /\ KStep * (k + 1) \in Nat
  BY <1>0, <1>1
<1>3. RoughQd(qd) = KStep * (k + 1)
  BY <1>2 DEF RoughQd
<1>4. KM = (NCtx - 1) \div KStep /\ NCtx - 1 \in Nat
  BY <1>0 DEF KM
<1> DEFINE N1 == NCtx - 1
<1> HIDE DEF k
<1>5. ASSUME RoughQd(qd) < NCtx PROVE K(RoughQd(qd)) = k + 1 /\ k + 1 <= KM
  <2>1. KStep * (k + 1) <= N1
    BY <1>0, <1>2, <1>3, <1>5
  <2>2. k + 1 <= KM
    BY <1>0, <1>1, <1>4, <2>1, QuotientAtLeast
  <2>3. (KStep * (k + 1) + 0) \div KStep = k + 1 /\ KStep * (k + 1) + 0 = KStep * (k + 1)
    BY <1>0, <1>1, <1>2, DivisionUnique
  <2>4. K(RoughQd(qd)) = k + 1
    BY <1>0, <1>1, <1>3, <2>2, <2>3 DEF K
  <2> QED BY <2>2, <2>4
<1>6. ASSUME RoughQd(qd) >= NCtx PROVE k = KM
  <2>1. N1 < KStep * (k + 1)
    BY <1>0, <1>2, <1>3, <1>6
  <2>2. KM < k + 1
    BY <1>0, <1>1, <1>4, <2>1, QuotientBelow
  <2> QED BY <1>0, <1>1, <2>2, <1>2, <1>3, <1>6
<1>7. K(NCtx) = KM
  <2>1. NCtx \div KStep \in Nat /\ KM <= NCtx \div KStep
    <3>1. KStep * KM <= N1 /\ KStep * KM \in Nat
      BY <1>0, <1>4, Division
    <3>2. KStep * KM <= NCtx
      BY <1>0, <3>1
    <3> QED BY <1>0, <3>2, QuotientAtLeast, Division
  <2> QED BY <2>1, <1>0 DEF K
<1>8. RoughQd(qd) \in Nat
  BY <1>2, <1>3
<1> QED BY <1>0, <1>2, <1>3, <1>5, <1>6, <1>7, <1>8 DEF k

-----------------------------------------------------------------------------
(* One bit, by encoder and decoder.  W is the whole stream.                *)

\* The fields of a coder.
CoderFields == {"enc", "words", "low", "rng", "sft", "prob", "bin"}
StreamWords == 0..(Radix - 1)

\* An encoder between bits.
BitEncoder(e) ==
    /\ DOMAIN e = CoderFields /\ e.enc = TRUE
    /\ e.words \in Seq(StreamWords) /\ Interval(e.low, e.rng)
    /\ \A p \in e.prob : p.pr \in OpenProbs

\* What a decoder looks at behind so many words.
Window(W, count) == W[count + 1] * Radix + W[count + 2]

\* The stream begins with the words of e and goes on within its interval.
GoesOn(e, W) ==
    /\ Len(e.words) + 2 <= Len(W)
    /\ \A k \in 1..Len(e.words) : W[k] = e.words[k]
    /\ Window(W, Len(e.words)) \in e.low..(e.low + e.rng)

\* A decoder of W that is where e is.
Shadows(e, d, W) ==
    /\ DOMAIN d = CoderFields /\ d.enc = FALSE
    /\ d.low = e.low /\ d.rng = e.rng /\ d.prob = e.prob
    /\ d.sft = Window(W, Len(e.words)) /\ d.words = SubSeq(W, Len(e.words) + 3, Len(W))

\* The probability of a node is open.
LEMMA ProbIsOpen ==
    ASSUME NEW e, BitEncoder(e), NEW node
    PROVE  Prob(e, node) \in OpenProbs /\ Prob(e, node) \in 1..(One - 1)
<1>1. Prob(e, node) \in OpenProbs
  <2>1. CASE \E p \in e.prob : p.node = node
    <3>1. (CHOOSE p \in e.prob : p.node = node) \in e.prob
      BY <2>1
    <3> QED BY <2>1, <3>1 DEF Prob, BitEncoder
  <2>2. CASE ~ \E p \in e.prob : p.node = node
    BY <2>2, ProbabilityStaysOpen DEF Prob
  <2> QED BY <2>1, <2>2
<1> QED BY <1>1, ProbabilityStaysOpen

\* The interval a bit is narrowed to.
BitLow(e, node, bit) == Low(e.low, e.rng, Prob(e, node), bit)
BitRng(e, node, bit) == Rng(e.rng, Prob(e, node), bit)
NextProb(e, node, bit) ==
    {p \in e.prob : p.node # node} \cup {[node |-> node, pr |-> Updated(Prob(e, node), bit)]}

\* CodeBit of an encoder, one field after the other.
LEMMA EncodedBitIs ==
    ASSUME NEW e, BitEncoder(e), NEW node, NEW bit \in BOOLEAN
    PROVE  LET f == CodeBit(e, node, bit)
               l == BitLow(e, node, bit)
               r == BitRng(e, node, bit)
           IN  /\ DOMAIN f = CoderFields /\ f.enc = TRUE /\ f.bin = bit
               /\ f.low = LowUp(l, r) /\ f.rng = RngUp(l, r)
               /\ f.words = IF Small(r) THEN Append(e.words, l \div Radix) ELSE e.words
               /\ f.prob = NextProb(e, node, bit)
BY DEF CodeBit, BitEncoder, CoderFields, BitLow, BitRng, NextProb

\* Its interval is one of two words.
LEMMA BitNarrows ==
    ASSUME NEW e, BitEncoder(e), NEW node, NEW bit \in BOOLEAN
    PROVE  LET l == BitLow(e, node, bit)
               r == BitRng(e, node, bit)
           IN  /\ l \in Nat /\ r \in Nat /\ l + r < Radix * Radix
               /\ Interval(LowUp(l, r), RngUp(l, r))
               /\ l \div Radix \in StreamWords
<1> DEFINE l == BitLow(e, node, bit)
           r == BitRng(e, node, bit)
           pr == Prob(e, node)
<1>1. pr \in 1..(One - 1) /\ Interval(e.low, e.rng) /\ e.low \in Nat /\ e.rng \in Nat
  BY ProbIsOpen DEF BitEncoder, Interval
<1>2. l = Low(e.low, e.rng, pr, bit) /\ r = Rng(e.rng, pr, bit)
  BY DEF BitLow, BitRng
<1> HIDE DEF pr, l, r
<1>3. l \in Nat /\ r \in Nat /\ l + r <= e.low + e.rng
  BY <1>1, <1>2, Narrows
<1>4. Interval(LowUp(l, r), RngUp(l, r))
  BY <1>1, <1>2, IntervalStays
<1>5. e.low + e.rng < Radix * Radix /\ Radix * Radix \in Nat /\ Radix \in Nat \ {0}
  BY <1>1, AriSizes DEF Interval
<1>6. l + r < Radix * Radix /\ l < Radix * Radix
  BY <1>1, <1>3, <1>5
<1>7. l \div Radix \in Nat /\ l \div Radix < Radix
  BY <1>3, <1>5, <1>6, QuotientBelow, Division
<1>8. l \div Radix \in StreamWords
  BY <1>5, <1>7 DEF StreamWords
<1> QED BY <1>3, <1>4, <1>6, <1>8 DEF l, r

\* It is an encoder again.
LEMMA EncoderStays ==
    ASSUME NEW e, BitEncoder(e), NEW node, NEW bit \in BOOLEAN
    PROVE  BitEncoder(CodeBit(e, node, bit)) /\ CodeBit(e, node, bit).bin = bit
<1> DEFINE f == CodeBit(e, node, bit)
           l == BitLow(e, node, bit)
           r == BitRng(e, node, bit)
<1>1. /\ DOMAIN f = CoderFields /\ f.enc = TRUE /\ f.bin = bit
      /\ f.low = LowUp(l, r) /\ f.rng = RngUp(l, r)
      /\ f.words = IF Small(r) THEN Append(e.words, l \div Radix) ELSE e.words
      /\ f.prob = NextProb(e, node, bit)
  BY EncodedBitIs
<1>2. Interval(LowUp(l, r), RngUp(l, r)) /\ l \div Radix \in StreamWords
  BY BitNarrows
<1> HIDE DEF f, l, r
<1>3. e.words \in Seq(StreamWords) /\ \A p \in e.prob : p.pr \in OpenProbs
  BY DEF BitEncoder
<1>4. f.words \in Seq(StreamWords)
  <2>1. Append(e.words, l \div Radix) \in Seq(StreamWords)
    BY <1>2, <1>3, AppendProperties
  <2> QED BY <1>1, <1>3, <2>1
<1>5. Updated(Prob(e, node), bit) \in OpenProbs
  BY ProbIsOpen, ProbabilityStaysOpen
<1>6. \A p \in f.prob : p.pr \in OpenProbs
  BY <1>1, <1>3, <1>5 DEF NextProb
<1>7. BitEncoder(f)
  BY <1>1, <1>2, <1>4, <1>6 DEF BitEncoder
<1> QED BY <1>1, <1>7 DEF f

\* The upper and the lower word of a window.
LEMMA WindowParts ==
    ASSUME NEW a \in StreamWords, NEW b \in StreamWords
    PROVE  (a * Radix + b) \div Radix = a /\ (a * Radix + b) % Radix = b /\ a * Radix + b \in Nat
<1>1. a \in Nat /\ b \in 0..(Radix - 1) /\ Radix \in Nat \ {0}
  BY AriSizes DEF StreamWords
<1>2. (Radix * a + b) \div Radix = a /\ (Radix * a + b) % Radix = b
  BY <1>1, DivisionUnique
<1>3. Radix * a = a * Radix /\ a * Radix \in Nat
  BY <1>1
<1> QED BY <1>1, <1>2, <1>3

\* The next symbol, and those after it.
LEMMA RestOf ==
    ASSUME NEW S, NEW T \in Seq(S), NEW m \in Nat, m < Len(T)
    PROVE  /\ Head(SubSeq(T, m + 1, Len(T))) = T[m + 1]
           /\ Tail(SubSeq(T, m + 1, Len(T))) = SubSeq(T, m + 2, Len(T))
BY SMT

\* One bit: a stream that goes on as the encoder does afterwards did so before,
\* and a decoder of it that was where the encoder was takes the bit and is again.
LEMMA BitReturns ==
    ASSUME NEW e, BitEncoder(e), NEW node, NEW bit \in BOOLEAN, NEW any,
           NEW W \in Seq(StreamWords), GoesOn(CodeBit(e, node, bit), W)
    PROVE  /\ GoesOn(e, W)
           /\ \A d : Shadows(e, d, W) =>
                  Shadows(CodeBit(e, node, bit), CodeBit(d, node, any), W) /\ CodeBit(d, node, any).bin = bit
<1> DEFINE f == CodeBit(e, node, bit)
           l == BitLow(e, node, bit)
           r == BitRng(e, node, bit)
           pr == Prob(e, node)
           count == Len(e.words)
           now == Window(W, count)
           next == Window(W, Len(f.words))
<1>1. /\ f.low = LowUp(l, r) /\ f.rng = RngUp(l, r)
      /\ f.words = IF Small(r) THEN Append(e.words, l \div Radix) ELSE e.words
      /\ f.prob = NextProb(e, node, bit)
  BY EncodedBitIs
<1>2. l \in Nat /\ r \in Nat /\ l \div Radix \in StreamWords
  BY BitNarrows
<1>3. l = Low(e.low, e.rng, pr, bit) /\ r = Rng(e.rng, pr, bit) /\ pr \in 1..(One - 1) /\ Interval(e.low, e.rng)
      /\ e.low \in Nat /\ e.rng \in Nat
  BY ProbIsOpen DEF BitLow, BitRng, BitEncoder, Interval
<1>4. count \in Nat /\ Len(W) \in Nat /\ e.words \in Seq(StreamWords)
  BY LenProperties DEF BitEncoder
<1>5. /\ Len(f.words) + 2 <= Len(W)
      /\ \A k \in 1..Len(f.words) : W[k] = f.words[k]
      /\ next \in LowUp(l, r)..(LowUp(l, r) + RngUp(l, r))
  BY <1>1 DEF GoesOn
<1>6. /\ Back(l, r, next) \in e.low..(e.low + e.rng)
      /\ Bin(Back(l, r, next), e.low, e.rng, pr) = bit
      /\ Small(r) => Shifted(Back(l, r, next), next % Radix) = next
  <2> HIDE DEF next
  <2> QED BY <1>3, <1>5, BitSurvives
<1>7. \A k \in 1..Len(W) : W[k] \in StreamWords
  BY <1>4, ElementOfSeq
<1>8. Small(r) => Len(f.words) = count + 1 /\ count + 3 <= Len(W) /\ W[count + 1] = l \div Radix
                  /\ \A k \in 1..count : W[k] = e.words[k]
  <2> SUFFICES ASSUME Small(r)
               PROVE  Len(f.words) = count + 1 /\ count + 3 <= Len(W) /\ W[count + 1] = l \div Radix
                      /\ \A k \in 1..count : W[k] = e.words[k]
    OBVIOUS
  <2> DEFINE more == Append(e.words, l \div Radix)
  <2>1. f.words = more
    BY <1>1
  <2>2. Len(more) = count + 1 /\ more[count + 1] = l \div Radix /\ \A k \in 1..count : more[k] = e.words[k]
    BY <1>2, <1>4, AppendProperties
  <2> HIDE DEF more, f, count
  <2> QED BY <1>4, <1>5, <2>1, <2>2
<1>9. Back(l, r, next) = now
  <2>1. CASE Small(r)
    <3>1. next = W[count + 2] * Radix + W[count + 3] /\ count + 1 + 1 = count + 2 /\ count + 1 + 2 = count + 3
      BY <1>4, <1>8, <2>1 DEF Window
    <3>2. W[count + 2] \in StreamWords /\ W[count + 3] \in StreamWords
      BY <1>4, <1>7, <1>8, <2>1
    <3>3. next \div Radix = W[count + 2]
      BY <3>1, <3>2, WindowParts
    <3>4. Back(l, r, next) = (l \div Radix) * Radix + next \div Radix
      BY <2>1 DEF Back
    <3> HIDE DEF next
    <3> QED BY <1>8, <2>1, <3>3, <3>4 DEF Window
  <2>2. CASE ~ Small(r)
    BY <1>1, <2>2 DEF Back
  <2> QED BY <2>1, <2>2
<1>10. GoesOn(e, W)
  <2>1. count + 2 <= Len(W) /\ \A k \in 1..count : W[k] = e.words[k]
    <3>1. CASE Small(r)
      BY <1>4, <1>8, <3>1
    <3>2. CASE ~ Small(r)
      BY <1>1, <1>5, <3>2
    <3> QED BY <3>1, <3>2
  <2>2. now \in e.low..(e.low + e.rng)
    BY <1>6, <1>9
  <2> QED BY <2>1, <2>2 DEF GoesOn
<1>11. ASSUME NEW d, Shadows(e, d, W)
       PROVE  Shadows(f, CodeBit(d, node, any), W) /\ CodeBit(d, node, any).bin = bit
  <2> DEFINE h == CodeBit(d, node, any)
  <2>1. /\ DOMAIN d = CoderFields /\ d.enc = FALSE /\ d.low = e.low /\ d.rng = e.rng /\ d.prob = e.prob
        /\ d.sft = now /\ d.words = SubSeq(W, count + 3, Len(W))
    BY <1>11 DEF Shadows
  <2>2. Prob(d, node) = pr
    BY <2>1 DEF Prob
  <2>3. bit = Bin(d.sft, d.low, d.rng, Prob(d, node))
    BY <1>6, <1>9, <2>1, <2>2
  <2>4. BitLow(d, node, bit) = l /\ BitRng(d, node, bit) = r /\ NextProb(d, node, bit) = NextProb(e, node, bit)
    BY <2>1, <2>2 DEF BitLow, BitRng, NextProb
  <2>5. /\ DOMAIN h = CoderFields /\ h.enc = FALSE /\ h.bin = bit
        /\ h.low = LowUp(l, r) /\ h.rng = RngUp(l, r)
        /\ h.sft = IF Small(r) THEN Shifted(d.sft, Head(d.words)) ELSE d.sft
        /\ h.words = IF Small(r) THEN Tail(d.words) ELSE d.words
        /\ h.prob = NextProb(e, node, bit)
    <3>1. DOMAIN d = CoderFields /\ d.enc = FALSE
      BY <2>1
    <3>2. /\ DOMAIN h = CoderFields /\ h.enc = FALSE /\ h.bin = bit
          /\ h.low = LowUp(BitLow(d, node, bit), BitRng(d, node, bit))
          /\ h.rng = RngUp(BitLow(d, node, bit), BitRng(d, node, bit))
          /\ h.sft = IF Small(BitRng(d, node, bit)) THEN Shifted(d.sft, Head(d.words)) ELSE d.sft
          /\ h.words = IF Small(BitRng(d, node, bit)) THEN Tail(d.words) ELSE d.words
          /\ h.prob = NextProb(d, node, bit)
      BY <2>3, <3>1 DEF CodeBit, CoderFields, BitLow, BitRng, NextProb
    <3> HIDE DEF h, l, r
    <3> QED BY <2>4, <3>2
  <2> HIDE DEF h
  <2>6. h.sft = next /\ h.words = SubSeq(W, Len(f.words) + 3, Len(W))
    <3>1. CASE Small(r)
      <4>1. next = W[count + 2] * Radix + W[count + 3] /\ count + 1 + 1 = count + 2 /\ count + 1 + 2 = count + 3
        BY <1>4, <1>8, <3>1 DEF Window
      <4>2. W[count + 2] \in StreamWords /\ W[count + 3] \in StreamWords
        BY <1>4, <1>7, <1>8, <3>1
      <4>3. next % Radix = W[count + 3]
        BY <4>1, <4>2, WindowParts
      <4>4. count + 2 \in Nat /\ count + 2 < Len(W) /\ (count + 2) + 1 = count + 3 /\ (count + 2) + 2 = (count + 3) + 1
        BY <1>4, <1>8, <3>1
      <4>5. Head(d.words) = W[count + 3] /\ Tail(d.words) = SubSeq(W, (count + 3) + 1, Len(W))
        BY <2>1, <4>4, RestOf
      <4>6. h.sft = next
        BY <1>6, <1>9, <2>1, <2>5, <3>1, <4>3, <4>5
      <4>7. Len(f.words) + 3 = (count + 3) + 1
        BY <1>4, <1>8, <3>1
      <4> QED BY <2>5, <3>1, <4>5, <4>6, <4>7
    <3>2. CASE ~ Small(r)
      BY <1>1, <2>1, <2>5, <3>2
    <3> QED BY <3>1, <3>2
  <2>7. Shadows(f, h, W)
    BY <1>1, <2>5, <2>6 DEF Shadows
  <2> QED BY <2>5, <2>7 DEF h
<1> QED BY <1>10, <1>11 DEF f

\* A quotient grows by one with its divisor, and one of a half is a half.
LEMMA QuotientNext ==
    ASSUME NEW a \in Nat, NEW m \in Nat \ {0}
    PROVE  (a + m) \div m = a \div m + 1
<1>1. a \div m \in Nat /\ a % m \in 0..(m - 1) /\ a = m * (a \div m) + (a % m)
  BY Division
<1> DEFINE q == a \div m
           r == a % m
<1> HIDE DEF q, r
<1>2. m * (q + 1) = m * q + m /\ m * q \in Nat
  BY <1>1 DEF q, r
<1>3. a + m = m * (q + 1) + r /\ q + 1 \in Nat /\ r \in 0..(m - 1)
  BY <1>1, <1>2 DEF q, r
<1>4. (m * (q + 1) + r) \div m = q + 1
  BY <1>3, DivisionUnique
<1> QED BY <1>3, <1>4 DEF q

\* Halves of a number.
LEMMA Halving ==
    ASSUME NEW a \in Nat
    PROVE  /\ a \div 2 \in Nat /\ a % 2 \in {0, 1} /\ a = 2 * (a \div 2) + (a % 2)
           /\ 2 * (a \div 2) <= a /\ a <= 2 * (a \div 2) + 1
BY SMT

\* To divide by m and by two is to divide by 2 * m.
LEMMA QuotientHalved ==
    ASSUME NEW a \in Nat, NEW m \in Nat \ {0}
    PROVE  /\ a \div (2 * m) = (a \div m) \div 2
           /\ a \div m = 2 * (a \div (2 * m)) + ((a \div m) % 2)
<1> DEFINE q == a \div m
           r == a % m
           h == q \div 2
           b == q % 2
<1>1. q \in Nat /\ r \in 0..(m - 1) /\ a = m * q + r
  BY Division
<1> HIDE DEF q, r
<1>2. h \in Nat /\ b \in {0, 1} /\ q = 2 * h + b
  BY <1>1, Halving
<1> HIDE DEF h, b
<1>3. 2 * m \in Nat \ {0}
  OBVIOUS
<1>4. m * q = 2 * m * h + m * b /\ m * b \in 0..m /\ m * b + r \in 0..(2 * m - 1)
  <2>1. CASE b = 0
    BY <1>1, <1>2, <2>1
  <2>2. CASE b = 1
    BY <1>1, <1>2, <2>2
  <2> QED BY <1>2, <2>1, <2>2
<1>5. 2 * m * h \in Nat /\ m * b \in Nat /\ m * q \in Nat
  BY <1>1, <1>2, <1>4
<1>6. a = 2 * m * h + (m * b + r)
  BY <1>1, <1>4, <1>5
<1>7. (2 * m * h + (m * b + r)) \div (2 * m) = h
  BY <1>2, <1>3, <1>4, DivisionUnique
<1>8. a \div (2 * m) = h
  BY <1>6, <1>7
<1> QED BY <1>2, <1>8 DEF q, h, b

-----------------------------------------------------------------------------
(* How far a walk may still climb.                                         *)

\* The steps up this tree and the rougher ones.
Height(qd, i) ==
    (IF qd >= NCtx THEN 0 ELSE Steep + (KM - K(qd)) * (Steep - Steep \div 2)) + (Steep - i \div Unit[KM])

\* Before a step up, so far.
LEMMA LevelIs ==
    ASSUME NEW qd \in 0..NCtx, NEW i \in Nat
    PROVE  /\ i \div Unit[KM] \in Nat
           /\ i < TreeSize => i \div Unit[KM] < Steep
           /\ Reached(qd, i) = (IF qd >= NCtx THEN Steep ELSE 0) + i \div Unit[KM]
<1> DEFINE u == Unit[KM]
<1>1. u \in Nat \ {0} /\ Steep \in Nat \ {0} /\ TreeSize = u * Steep /\ TreeSize \in Nat
  BY UnitIs, TreeIsEven, TreeSizes
<1> HIDE DEF u
<1>2. i \div u \in Nat /\ i % u \in 0..(u - 1) /\ i = u * (i \div u) + (i % u)
  BY <1>1, Division
<1>3. i < TreeSize => i \div u < Steep
  BY <1>1, QuotientBelow
<1>4. (TreeSize + i) \div u = Steep + i \div u
  <2> DEFINE q == i \div u
             r == i % u
  <2> HIDE DEF q, r
  <2>1. u * (Steep + q) = u * Steep + u * q /\ u * Steep \in Nat /\ u * q \in Nat
    BY <1>1, <1>2 DEF q
  <2>2. TreeSize + i = u * (Steep + q) + r /\ r \in 0..(u - 1) /\ Steep + q \in Nat
    BY <1>1, <1>2, <2>1 DEF q, r
  <2>3. (u * (Steep + q) + r) \div u = Steep + q
    BY <1>1, <2>2, DivisionUnique
  <2> QED BY <2>2, <2>3 DEF q
<1>5. (0 + i) \div u = 0 + i \div u
  BY <1>2
<1>6. CASE qd >= NCtx
  <2>1. Reached(qd, i) = (TreeSize + i) \div u
    BY <1>6, Zenon DEF Reached, u
  <2> QED BY <1>2, <1>3, <1>4, <1>6, <2>1 DEF u
<1>7. CASE ~ (qd >= NCtx)
  <2>1. Reached(qd, i) = (0 + i) \div u
    BY <1>7, Zenon DEF Reached, u
  <2> QED BY <1>2, <1>3, <1>5, <1>7, <2>1 DEF u
<1> QED BY <1>6, <1>7

\* A step up in the tree.
LEMMA UpInTree ==
    ASSUME NEW qd \in 0..NCtx, NEW i \in Nat
    PROVE  /\ Reached(qd, i + Unit[KM]) = Reached(qd, i) + 1
           /\ (i + Unit[KM]) \div Unit[KM] = i \div Unit[KM] + 1
<1>1. Unit[KM] \in Nat \ {0} /\ i + Unit[KM] \in Nat
  BY UnitIs, TreeSizes
<1>2. (i + Unit[KM]) \div Unit[KM] = i \div Unit[KM] + 1 /\ i \div Unit[KM] \in Nat
  BY <1>1, QuotientNext, LevelIs
<1>3. /\ Reached(qd, i) = (IF qd >= NCtx THEN Steep ELSE 0) + i \div Unit[KM]
      /\ Reached(qd, i + Unit[KM]) = (IF qd >= NCtx THEN Steep ELSE 0) + (i + Unit[KM]) \div Unit[KM]
  BY <1>1, LevelIs
<1>4. Steep \in Nat
  BY TreeIsEven
<1> DEFINE from == IF qd >= NCtx THEN Steep ELSE 0
           m == i \div Unit[KM]
           next == (i + Unit[KM]) \div Unit[KM]
<1>5. from \in Nat /\ m \in Nat /\ next = m + 1
  BY <1>2, <1>4
<1> HIDE DEF from, m, next
<1>6. from + next = (from + m) + 1
  BY <1>5
<1> QED BY <1>2, <1>3, <1>6 DEF from, m, next

\* The unit halves of a value.
Units(val, qd) == val \div Unit[K(qd)]

\* A step up within the tree.
LEMMA StaysInTree ==
    ASSUME NEW qd \in 0..NCtx, NEW i \in Nat, NEW val \in Nat,
           Reached(qd, i) < Units(val, qd), i + Unit[KM] < TreeSize
    PROVE  /\ Reached(qd, i + Unit[KM]) <= Units(val, qd)
           /\ Height(qd, i + Unit[KM]) = Height(qd, i) - 1
<1>1. qd \in Nat /\ K(qd) \in 0..KM
  BY TreeSizes, KIs
<1>2. Units(val, qd) \in Nat
  BY <1>1, UnitIs, Division DEF Units
<1>3. Reached(qd, i) \in Nat
  <2>1. Reached(qd, i) = (IF qd >= NCtx THEN Steep ELSE 0) + i \div Unit[KM] /\ i \div Unit[KM] \in Nat
    BY LevelIs
  <2> QED BY <2>1, TreeIsEven
<1>4. /\ Reached(qd, i + Unit[KM]) = Reached(qd, i) + 1
      /\ (i + Unit[KM]) \div Unit[KM] = i \div Unit[KM] + 1
  BY UpInTree
<1>5. i \div Unit[KM] \in Nat /\ Steep \in Nat
  BY LevelIs, TreeIsEven
<1> DEFINE before == IF qd >= NCtx THEN 0 ELSE Steep + (KM - K(qd)) * (Steep - Steep \div 2)
           m == i \div Unit[KM]
           next == (i + Unit[KM]) \div Unit[KM]
<1>6. before \in Int
  <2>1. Steep \div 2 \in Nat /\ KM - K(qd) \in Int
    BY <1>1, <1>5, Halving, TreeSizes
  <2>2. (KM - K(qd)) * (Steep - Steep \div 2) \in Int
    BY <1>5, <2>1
  <2> QED BY <1>5, <2>2
<1>7. Height(qd, i) = before + (Steep - m) /\ Height(qd, i + Unit[KM]) = before + (Steep - next)
  BY DEF Height
<1>8. m \in Nat /\ next = m + 1
  BY <1>4, <1>5
<1> HIDE DEF before, m, next
<1>9. before + (Steep - next) = (before + (Steep - m)) - 1
  BY <1>5, <1>6, <1>8
<1>10. Height(qd, i + Unit[KM]) = Height(qd, i) - 1
  BY <1>7, <1>9
<1>11. \A x, y \in Nat : x < y => x + 1 <= y
  OBVIOUS
<1>12. Reached(qd, i) + 1 <= Units(val, qd)
  BY <1>2, <1>3, <1>11
<1> QED BY <1>4, <1>10, <1>12

\* At the end of a tree exactly all of its levels are behind.
LEMMA TopOfTree ==
    ASSUME NEW i \in Nat, i < TreeSize, i + Unit[KM] >= TreeSize
    PROVE  /\ (i + Unit[KM]) \div Unit[KM] = Steep
           /\ i \div Unit[KM] = Steep - 1
           /\ i + Unit[KM] < 2 * TreeSize
<1> DEFINE u == Unit[KM]
           m == i \div u
<1>1. u \in Nat \ {0} /\ Steep \in Nat \ {0} /\ TreeSize = u * Steep /\ TreeSize \in Nat
  BY UnitIs, TreeIsEven, TreeSizes
<1>2. m \in Nat /\ m < Steep
  <2>1. NCtx \in 0..NCtx
    BY TreeSizes
  <2> QED BY <2>1, LevelIs
<1>3. (i + u) \div u = m + 1
  BY <1>1, QuotientNext
<1>4. Steep <= (i + u) \div u
  BY <1>1, QuotientAtLeast
<1>5. u <= TreeSize
  <2>1. u * 1 <= u * Steep /\ u * 1 = u
    BY <1>1, ProductGrows
  <2> QED BY <1>1, <2>1
<1> HIDE DEF u, m
<1>6. m + 1 = Steep
  BY <1>1, <1>2, <1>3, <1>4
<1> QED BY <1>1, <1>2, <1>3, <1>5, <1>6 DEF u, m

\* Half way up the next tree is as high as all the way up this one.
LEMMA HalfWayUp ==
    ASSUME NEW i \in Nat, i < TreeSize, i + Unit[KM] >= TreeSize
    PROVE  LET half == (i + Unit[KM]) \div 2
           IN  half \in Nat /\ half < TreeSize /\ half \div Unit[KM] = Steep \div 2
<1> DEFINE u == Unit[KM]
           up == i + u
           half == up \div 2
           a == half \div u
           b == Steep \div 2
<1>1. u \in Nat \ {0} /\ Steep \in Nat \ {0} /\ TreeSize = u * Steep /\ TreeSize \in Nat
  BY UnitIs, TreeIsEven, TreeSizes
<1>2. up \in Nat /\ up \div u = Steep /\ up < 2 * TreeSize /\ up >= TreeSize
  <2>1. up \in Nat
    BY <1>1
  <2>2. (i + Unit[KM]) \div Unit[KM] = Steep /\ i + Unit[KM] < 2 * TreeSize
    BY TopOfTree
  <2> QED BY <2>1, <2>2
<1> HIDE DEF u, up
<1>3. half \in Nat /\ 2 * half <= up /\ up <= 2 * half + 1
  BY <1>2, Halving
<1>4. half < TreeSize
  BY <1>1, <1>2, <1>3
<1> HIDE DEF half
<1>5. a \in Nat /\ u * a \in Nat /\ u * a <= half
  <2>1. a \in Nat /\ half % u \in 0..(u - 1) /\ half = u * a + (half % u)
    BY <1>1, <1>3, Division
  <2> HIDE DEF a
  <2>2. u * a \in Nat
    BY <1>1, <2>1
  <2> QED BY <1>1, <1>3, <2>1, <2>2
<1>6. b \in Nat /\ 2 * b <= Steep /\ Steep <= 2 * b + 1
  BY <1>1, Halving
<1> HIDE DEF a, b
<1>7. 2 * a <= Steep
  <2>1. u * (2 * a) = 2 * (u * a)
    BY <1>1, <1>5
  <2>2. u * (2 * a) <= up
    BY <1>2, <1>3, <1>5, <2>1
  <2>3. 2 * a \in Nat
    BY <1>5
  <2> QED BY <1>1, <1>2, <2>2, <2>3, QuotientAtLeast
<1>8. b <= a
  <2>1. u * (2 * b) = 2 * (u * b) /\ u * b \in Nat /\ 2 * b \in Nat
    BY <1>1, <1>6
  <2>2. u * (2 * b) <= u * Steep
    BY <1>1, <1>6, <2>1, ProductGrows
  <2>3. u * b <= half
    BY <1>1, <1>2, <1>3, <2>1, <2>2
  <2> QED BY <1>1, <1>3, <1>6, <2>3, QuotientAtLeast DEF a
<1>9. a = b
  <2>1. a \in Nat /\ b \in Nat /\ Steep \in Nat
    BY <1>1, <1>5, <1>6
  <2> QED BY <1>6, <1>7, <1>8, <2>1
<1> QED BY <1>3, <1>4, <1>9 DEF a, b, half, up, u

\* Where the next tree begins.
LEMMA NextTree ==
    ASSUME NEW qd \in 0..NCtx, NEW i \in Nat, NEW val \in 0..(2 * TreeSize - 1),
           Reached(qd, i) < Units(val, qd), i < TreeSize, i + Unit[KM] >= TreeSize
    PROVE  LET up == i + Unit[KM]
               q2 == Rough(qd, up)[1]
               i2 == Rough(qd, up)[2]
           IN  /\ qd < NCtx /\ q2 \in 0..NCtx /\ i2 \in Nat /\ i2 < TreeSize
               /\ Reached(q2, i2) <= Units(val, q2)
               /\ Height(q2, i2) <= Height(qd, i) - 1
<1> DEFINE up == i + Unit[KM]
           u == Unit[KM]
           m == i \div u
           k == K(qd)
           H == Steep - Steep \div 2
<1>1. u \in Nat \ {0} /\ Steep \in Nat \ {0} /\ TreeSize = u * Steep /\ TreeSize \in Nat /\ KM \in Nat
      /\ NCtx \in Nat \ {0}
  BY UnitIs, TreeIsEven, TreeSizes
<1>2. m = Steep - 1 /\ up \div u = Steep /\ up \in Nat
  <2>1. up \in Nat
    BY <1>1
  <2>2. (i + Unit[KM]) \div Unit[KM] = Steep /\ i \div Unit[KM] = Steep - 1
    BY TopOfTree
  <2> QED BY <2>1, <2>2
<1>3. Reached(qd, i) = (IF qd >= NCtx THEN Steep ELSE 0) + m
  BY LevelIs
<1>4. k \in 0..KM /\ Unit[k] \in Nat \ {0} /\ val \in Nat
  BY <1>1, KIs, UnitIs
<1>5. Units(val, qd) \in Nat
  BY <1>4, Division DEF Units
<1>6. Steep \div 2 \in Nat /\ H \in Nat /\ Steep \div 2 <= Steep
  BY <1>1, Halving
<1>7. qd < NCtx
  <2> SUFFICES ASSUME qd = NCtx PROVE FALSE
    BY <1>1
  <2>1. K(NCtx) = KM
    <3>1. 0 \in 0..(NCtx - 1)
      BY <1>1
    <3> QED BY <3>1, KGrows
  <2>2. Units(val, qd) = val \div u
    BY <2>1 DEF Units
  <2>3. u * (2 * Steep) = 2 * TreeSize /\ 2 * Steep \in Nat
    BY <1>1
  <2>4. val < u * (2 * Steep)
    BY <1>1, <1>4, <2>3
  <2>5. val \div u < 2 * Steep
    BY <1>1, <1>4, <2>3, <2>4, QuotientBelow
  <2>6. Reached(qd, i) = Steep + (Steep - 1)
    BY <1>1, <1>2, <1>3
  <2> HIDE DEF u
  <2> QED BY <1>1, <1>5, <2>2, <2>5, <2>6
<1>8. Steep <= Units(val, qd)
  BY <1>1, <1>2, <1>3, <1>5, <1>7
<1>9. qd \in 0..(NCtx - 1)
  BY <1>1, <1>7
<1>10. Height(qd, i) = Steep + (KM - k) * H + 1
  <2>1. Height(qd, i) = Steep + (KM - k) * H + (Steep - m)
    BY <1>1, <1>7 DEF Height
  <2>2. Steep - m = 1
    BY <1>1, <1>2
  <2> QED BY <2>1, <2>2
<1>11. /\ RoughQd(qd) \in Nat
       /\ RoughQd(qd) < NCtx => K(RoughQd(qd)) = k + 1 /\ k + 1 <= KM
       /\ RoughQd(qd) >= NCtx => k = KM
       /\ K(NCtx) = KM
  BY <1>9, KGrows
<1> DEFINE q2 == Rough(qd, up)[1]
           i2 == Rough(qd, up)[2]
<1>12. CASE RoughQd(qd) >= NCtx
  <2>1. q2 = NCtx /\ i2 = 0
    BY <1>12 DEF Rough
  <2>2. i2 \div u = 0
    <3>1. (u * 0 + 0) \div u = 0 /\ u * 0 + 0 = 0
      BY <1>1, DivisionUnique
    <3> QED BY <2>1, <3>1
  <2>3. Reached(q2, i2) = Steep
    <3>1. Reached(NCtx, 0) = (IF NCtx >= NCtx THEN Steep ELSE 0) + 0 \div u
      BY <1>1, LevelIs
    <3> QED BY <1>1, <2>1, <2>2, <3>1
  <2>4. Units(val, q2) = Units(val, qd)
    BY <1>11, <1>12, <2>1 DEF Units
  <2>5. Height(q2, i2) = Steep
    <3>1. Height(q2, i2) = 0 + (Steep - i2 \div u)
      BY <1>1, <2>1 DEF Height
    <3> QED BY <1>1, <2>2, <3>1
  <2>6. (KM - k) * H = 0
    <3>1. KM - k = 0
      BY <1>1, <1>11, <1>12
    <3>2. 0 * H = 0
      BY <1>6
    <3> QED BY <3>1, <3>2
  <2> HIDE DEF q2, i2, k, H
  <2>7. Height(q2, i2) <= Height(qd, i) - 1
    BY <1>1, <1>10, <2>5, <2>6
  <2> QED BY <1>1, <1>7, <1>8, <2>1, <2>3, <2>4, <2>7 DEF q2, i2
<1>13. CASE RoughQd(qd) < NCtx
  <2>1. q2 = RoughQd(qd) /\ i2 = up \div 2 /\ q2 \in 0..NCtx /\ ~ (q2 >= NCtx)
    BY <1>1, <1>11, <1>13 DEF Rough
  <2>2. i2 \in Nat /\ i2 < TreeSize /\ i2 \div u = Steep \div 2
    BY <2>1, HalfWayUp
  <2>3. Reached(q2, i2) = Steep \div 2
    <3>1. Reached(q2, i2) = (IF q2 >= NCtx THEN Steep ELSE 0) + i2 \div u
      BY <2>1, <2>2, LevelIs
    <3> QED BY <1>6, <2>1, <2>2, <3>1
  <2>4. K(q2) = k + 1 /\ k + 1 \in 1..KM /\ (k + 1) - 1 = k
    BY <1>1, <1>4, <1>11, <1>13, <2>1
  <2>5. Unit[k + 1] = 2 * Unit[k]
    BY <2>4, UnitIs
  <2>6. Units(val, q2) = Units(val, qd) \div 2
    <3>1. val \div (2 * Unit[k]) = (val \div Unit[k]) \div 2
      BY <1>4, QuotientHalved
    <3> QED BY <2>4, <2>5, <3>1 DEF Units
  <2>7. Steep \div 2 <= Units(val, qd) \div 2
    <3>1. \A x, y \in Nat : x <= y => x \div 2 <= y \div 2
      BY SMT
    <3> QED BY <1>1, <1>5, <1>8, <3>1
  <2>8. Height(q2, i2) = Steep + (KM - (k + 1)) * H + (Steep - Steep \div 2)
    BY <2>1, <2>2, <2>4 DEF Height
  <2>9. (KM - k) * H = (KM - (k + 1)) * H + H
    <3>1. KM - (k + 1) \in Nat /\ KM - k = KM - (k + 1) + 1
      BY <1>1, <2>4
    <3> DEFINE x == KM - (k + 1)
    <3>2. x \in Nat /\ H \in Nat
      BY <1>6, <3>1
    <3> HIDE DEF x, H
    <3>3. (x + 1) * H = x * H + H
      BY <3>2
    <3> QED BY <3>1, <3>3 DEF x
  <2>10. (KM - (k + 1)) * H \in Int
    <3>1. KM - (k + 1) \in Nat
      BY <1>1, <2>4
    <3> HIDE DEF H
    <3> QED BY <1>6, <3>1
  <2> DEFINE rest == (KM - (k + 1)) * H
  <2>11. Height(q2, i2) = Steep + rest + H /\ Height(qd, i) = Steep + (rest + H) + 1
    BY <1>10, <2>8, <2>9
  <2>12. rest \in Int /\ H \in Nat
    BY <1>6, <2>10
  <2> HIDE DEF q2, i2, k, H, rest
  <2>13. Height(q2, i2) <= Height(qd, i) - 1
    BY <1>1, <2>11, <2>12
  <2> QED BY <1>7, <2>1, <2>2, <2>3, <2>6, <2>7, <2>13 DEF q2, i2
<1> QED BY <1>1, <1>11, <1>12, <1>13

-----------------------------------------------------------------------------
(* One turn of a walk.                                                     *)

\* The fields of a walk.
WalkFields == {"s", "ctx", "i", "climbs", "low", "val"}

\* Does the encoder go up here, and is the next low bit one.
Goes(w, val) == Reached(w.ctx[2], w.i) < Units(val, w.ctx[2])
OneBit(w, val) == (val \div Unit[w.low - 1]) % 2 = 1

\* The coder after the bit of a turn.
AfterGoing(w, val) == CodeBit(w.s, <<w.ctx, w.i>>, Goes(w, val))
AfterLow(w, val) == CodeBit(w.s, <<w.ctx, w.i>>, OneBit(w, val))

\* A walk with these fields.
WalkIs(num, s, ctx, i, climbs, low, val) ==
    /\ DOMAIN num = WalkFields /\ num.s = s /\ num.ctx = ctx /\ num.i = i
    /\ num.climbs = climbs /\ num.low = low /\ num.val = val

\* Climb, field after field.
LEMMA ClimbIs ==
    ASSUME NEW w, NEW val, DOMAIN w = WalkFields
    PROVE  LET num  == Climb(w, val)
               t  == AfterGoing(w, val)
               qd == w.ctx[2]
               up == w.i + Unit[KM]
           IN  /\ ~ t.bin => WalkIs(num, t, w.ctx, w.i + 1, FALSE, K(qd), Reached(qd, w.i) * Unit[K(qd)])
               /\ t.bin /\ up < TreeSize => WalkIs(num, t, w.ctx, up, w.climbs, w.low, w.val)
               /\ t.bin /\ ~ (up < TreeSize) =>
                     WalkIs(num, t, <<w.ctx[1], Rough(qd, up)[1]>>, Rough(qd, up)[2], w.climbs, w.low, w.val)
<1> DEFINE t == AfterGoing(w, val)
           qd == w.ctx[2]
           up == w.i + Unit[KM]
<1>1. Climb(w, val) =
        CASE ~t.bin -> [w EXCEPT !.s = t, !.i = @ + 1, !.climbs = FALSE, !.low = K(qd),
                                 !.val = Reached(qd, w.i) * Unit[K(qd)]]
          [] t.bin /\ up < TreeSize -> [w EXCEPT !.s = t, !.i = up]
          [] OTHER -> [w EXCEPT !.s = t, !.ctx = <<w.ctx[1], Rough(qd, up)[1]>>, !.i = Rough(qd, up)[2]]
  BY DEF Climb, AfterGoing, Goes, Units
<1> HIDE DEF t, qd, up
<1>2. CASE ~ t.bin
  <2>1. Climb(w, val) = [w EXCEPT !.s = t, !.i = @ + 1, !.climbs = FALSE, !.low = K(qd),
                                 !.val = Reached(qd, w.i) * Unit[K(qd)]]
    BY <1>1, <1>2
  <2>2. WalkIs(Climb(w, val), t, w.ctx, w.i + 1, FALSE, K(qd), Reached(qd, w.i) * Unit[K(qd)])
    BY <2>1 DEF WalkIs, WalkFields
  <2> QED BY <1>2, <2>2 DEF t, qd
<1>3. CASE t.bin /\ up < TreeSize
  <2>1. Climb(w, val) = [w EXCEPT !.s = t, !.i = up]
    BY <1>1, <1>3
  <2>2. WalkIs(Climb(w, val), t, w.ctx, up, w.climbs, w.low, w.val)
    BY <2>1 DEF WalkIs, WalkFields
  <2> QED BY <1>3, <2>2 DEF t, up
<1>4. CASE t.bin /\ ~ (up < TreeSize)
  <2>1. Climb(w, val) = [w EXCEPT !.s = t, !.ctx = <<w.ctx[1], Rough(qd, up)[1]>>, !.i = Rough(qd, up)[2]]
    BY <1>1, <1>4
  <2>2. WalkIs(Climb(w, val), t, <<w.ctx[1], Rough(qd, up)[1]>>, Rough(qd, up)[2], w.climbs, w.low, w.val)
    BY <2>1 DEF WalkIs, WalkFields
  <2> QED BY <1>4, <2>2 DEF t, up, qd
<1> QED BY <1>2, <1>3, <1>4 DEF t, up

\* CodeLow, field after field.
LEMMA CodeLowIs ==
    ASSUME NEW w, NEW val, DOMAIN w = WalkFields
    PROVE  LET t    == AfterLow(w, val)
               half == Unit[w.low - 1]
           IN  WalkIs(CodeLow(w, val), t, w.ctx, w.i + (IF t.bin THEN half ELSE 1), w.climbs, w.low - 1,
                      w.val + (IF t.bin THEN half ELSE 0))
<1> DEFINE t == AfterLow(w, val)
           half == Unit[w.low - 1]
<1>1. CodeLow(w, val) = [w EXCEPT !.s = t, !.low = @ - 1, !.i = @ + (IF t.bin THEN half ELSE 1),
                                  !.val = @ + (IF t.bin THEN half ELSE 0)]
  BY DEF CodeLow, AfterLow, OneBit
<1> HIDE DEF t, half
<1>2. WalkIs(CodeLow(w, val), t, w.ctx, w.i + (IF t.bin THEN half ELSE 1), w.climbs, w.low - 1,
             w.val + (IF t.bin THEN half ELSE 0))
  BY <1>1 DEF WalkIs, WalkFields
<1> QED BY <1>2 DEF t, half

-----------------------------------------------------------------------------
(* A walk of the encoder, on its way to a value.                           *)

\* A walk that goes on.
Walking(w, val) ==
    /\ DOMAIN w = WalkFields
    /\ BitEncoder(w.s)
    /\ w.ctx[2] \in 0..NCtx /\ w.i \in Nat /\ w.climbs \in BOOLEAN
    /\ w.climbs => w.i < TreeSize /\ Reached(w.ctx[2], w.i) <= Units(val, w.ctx[2])
    /\ ~ w.climbs => w.low \in 0..KM /\ w.val = Unit[w.low] * (val \div Unit[w.low])

\* The turns it still takes, at most.
ToGo(w) == IF w.climbs THEN Height(w.ctx[2], w.i) + KM ELSE w.low

\* The places and values of a walk.
LEMMA WalkTypes ==
    ASSUME NEW w, NEW val \in 0..(2 * TreeSize - 1), Walking(w, val)
    PROVE  /\ w.ctx[2] \in 0..NCtx /\ w.ctx[2] \in Nat /\ w.i \in Nat
           /\ Reached(w.ctx[2], w.i) \in Nat /\ Units(val, w.ctx[2]) \in Nat
           /\ K(w.ctx[2]) \in 0..KM /\ Unit[K(w.ctx[2])] \in Nat \ {0}
           /\ Goes(w, val) \in BOOLEAN
<1> DEFINE qd == w.ctx[2]
           i == w.i
<1>1. qd \in 0..NCtx /\ i \in Nat
  BY DEF Walking
<1> HIDE DEF qd, i
<1>2. qd \in Nat
  BY <1>1, TreeSizes
<1>3. K(qd) \in 0..KM
  BY <1>2, KIs
<1>4. Unit[K(qd)] \in Nat \ {0} /\ val \in Nat
  BY <1>3, UnitIs, TreeSizes
<1>5. Units(val, qd) \in Nat
  BY <1>4, Division DEF Units
<1>6. Reached(qd, i) \in Nat
  <2>1. Reached(qd, i) = (IF qd >= NCtx THEN Steep ELSE 0) + i \div Unit[KM] /\ i \div Unit[KM] \in Nat
    BY <1>1, LevelIs
  <2> QED BY <2>1, TreeIsEven
<1>7. Goes(w, val) \in BOOLEAN
  BY <1>5, <1>6 DEF Goes, qd, i
<1> QED BY <1>1, <1>2, <1>3, <1>4, <1>5, <1>6, <1>7 DEF qd, i

\* How far a walk may still climb.
LEMMA HeightIsNat ==
    ASSUME NEW qd \in 0..NCtx, NEW i \in Nat, i < TreeSize
    PROVE  Height(qd, i) \in Nat /\ Height(qd, i) >= 1
<1> DEFINE m == i \div Unit[KM]
           rest == KM - K(qd)
           H == Steep - Steep \div 2
<1>1. m \in Nat /\ m < Steep /\ Steep \in Nat
  BY LevelIs, TreeIsEven
<1>2. rest \in Nat /\ H \in Nat
  <2>1. Steep \div 2 \in Nat /\ 2 * (Steep \div 2) <= Steep
    BY <1>1, Halving
  <2>2. qd \in Nat /\ KM \in Nat /\ K(qd) \in 0..KM
    BY TreeSizes, KIs
  <2> QED BY <1>1, <2>1, <2>2
<1>3. Height(qd, i) = (IF qd >= NCtx THEN 0 ELSE Steep + rest * H) + (Steep - m)
  BY DEF Height
<1> HIDE DEF m, rest, H
<1>4. rest * H \in Nat
  BY <1>2
<1> QED BY <1>1, <1>3, <1>4

\* A turn up or to the low bits.
LEMMA ClimbKeeps ==
    ASSUME NEW w, NEW val \in 0..(2 * TreeSize - 1), Walking(w, val), w.climbs
    PROVE  Walking(Climb(w, val), val) /\ ToGo(Climb(w, val)) <= ToGo(w) - 1
<1> DEFINE num  == Climb(w, val)
           t  == AfterGoing(w, val)
           qd == w.ctx[2]
           i  == w.i
           up == i + Unit[KM]
<1>1. /\ qd \in 0..NCtx /\ qd \in Nat /\ i \in Nat
      /\ Reached(qd, i) \in Nat /\ Units(val, qd) \in Nat
      /\ K(qd) \in 0..KM /\ Unit[K(qd)] \in Nat \ {0}
      /\ Goes(w, val) \in BOOLEAN
  BY WalkTypes
<1>2. DOMAIN w = WalkFields /\ BitEncoder(w.s) /\ i < TreeSize /\ Reached(qd, i) <= Units(val, qd)
  BY DEF Walking
<1>3. BitEncoder(t) /\ t.bin = Goes(w, val)
  BY <1>1, <1>2, EncoderStays DEF AfterGoing
<1>4. Goes(w, val) <=> Reached(qd, i) < Units(val, qd)
  BY DEF Goes
<1>5. /\ ~ t.bin => WalkIs(num, t, w.ctx, i + 1, FALSE, K(qd), Reached(qd, i) * Unit[K(qd)])
      /\ t.bin /\ up < TreeSize => WalkIs(num, t, w.ctx, up, w.climbs, w.low, w.val)
      /\ t.bin /\ ~ (up < TreeSize) =>
            WalkIs(num, t, <<w.ctx[1], Rough(qd, up)[1]>>, Rough(qd, up)[2], w.climbs, w.low, w.val)
  BY <1>2, ClimbIs
<1>6. ToGo(w) = Height(qd, i) + KM /\ Height(qd, i) \in Nat /\ Height(qd, i) >= 1 /\ KM \in Nat
  BY <1>1, <1>2, HeightIsNat, TreeSizes DEF ToGo
<1>7. TreeSize \in Nat /\ Unit[KM] \in Nat /\ up \in Nat
  <2>1. TreeSize \in Nat /\ KM \in 0..KM
    BY TreeSizes
  <2>2. Unit[KM] \in Nat
    BY <2>1, UnitIs
  <2> QED BY <1>1, <2>1, <2>2
<1>8. val \in Nat
  BY <1>7
<1> HIDE DEF num, t
<1>9. CASE ~ t.bin
  <2>1. Reached(qd, i) = Units(val, qd)
    <3> HIDE DEF qd, i
    <3> QED BY <1>1, <1>2, <1>3, <1>4, <1>9
  <2>2. Reached(qd, i) * Unit[K(qd)] = Unit[K(qd)] * (val \div Unit[K(qd)])
    <3> DEFINE a == Unit[K(qd)]
               b == val \div a
    <3>1. Reached(qd, i) = b
      BY <2>1 DEF Units
    <3>2. b \in Nat /\ a \in Nat
      BY <1>1, <1>8, Division
    <3> HIDE DEF a, b
    <3>3. b * a = a * b
      BY <3>2
    <3> QED BY <3>1, <3>3 DEF a, b
  <2>3. /\ DOMAIN num = WalkFields /\ num.s = t /\ num.ctx = w.ctx /\ num.i = i + 1 /\ num.climbs = FALSE
        /\ num.low = K(qd) /\ num.val = Reached(qd, i) * Unit[K(qd)]
    BY <1>5, <1>9 DEF WalkIs
  <2>4. num.ctx[2] \in 0..NCtx /\ num.i \in Nat
    BY <1>1, <2>3
  <2>5. Walking(num, val)
    BY <1>1, <1>3, <2>2, <2>3, <2>4 DEF Walking
  <2>6. ToGo(num) <= ToGo(w) - 1
    <3>1. ToGo(num) = K(qd)
      BY <2>3 DEF ToGo
    <3> HIDE DEF qd, i
    <3> QED BY <1>1, <1>6, <3>1
  <2> QED BY <2>5, <2>6 DEF num
<1>10. ASSUME t.bin PROVE Reached(qd, i) < Units(val, qd)
  BY <1>3, <1>4, <1>10
<1>11. CASE t.bin /\ up < TreeSize
  <2>1. Reached(qd, up) <= Units(val, qd) /\ Height(qd, up) = Height(qd, i) - 1
    BY <1>1, <1>8, <1>10, <1>11, StaysInTree
  <2>2. /\ DOMAIN num = WalkFields /\ num.s = t /\ num.ctx = w.ctx /\ num.i = up /\ num.climbs = w.climbs
    BY <1>5, <1>11 DEF WalkIs
  <2>3. num.ctx[2] = qd /\ num.climbs = TRUE
    BY <2>2 DEF Walking
  <2>4. Walking(num, val)
    <3> HIDE DEF qd, up
    <3> QED BY <1>1, <1>3, <1>7, <1>11, <2>1, <2>2, <2>3 DEF Walking
  <2>5. ToGo(num) <= ToGo(w) - 1
    <3>1. ToGo(num) = Height(qd, up) + KM
      BY <2>2, <2>3 DEF ToGo
    <3> HIDE DEF qd, i, up
    <3> QED BY <1>6, <2>1, <3>1
  <2> QED BY <2>4, <2>5 DEF num
<1>12. CASE t.bin /\ ~ (up < TreeSize)
  <2> DEFINE q2 == Rough(qd, up)[1]
             i2 == Rough(qd, up)[2]
  <2>1. /\ q2 \in 0..NCtx /\ i2 \in Nat /\ i2 < TreeSize
        /\ Reached(q2, i2) <= Units(val, q2)
        /\ Height(q2, i2) <= Height(qd, i) - 1
    <3>1. up >= TreeSize
      BY <1>7, <1>12
    <3> QED BY <1>1, <1>2, <1>10, <1>12, <3>1, NextTree
  <2>2. /\ DOMAIN num = WalkFields /\ num.s = t /\ num.ctx = <<w.ctx[1], q2>> /\ num.i = i2 /\ num.climbs = w.climbs
    BY <1>5, <1>12 DEF WalkIs
  <2>3. num.ctx[2] = q2 /\ num.climbs = TRUE
    BY <2>2 DEF Walking
  <2>4. Walking(num, val)
    <3> HIDE DEF q2, i2
    <3> QED BY <1>3, <2>1, <2>2, <2>3 DEF Walking
  <2>5. ToGo(num) <= ToGo(w) - 1
    <3>1. ToGo(num) = Height(q2, i2) + KM
      BY <2>2, <2>3 DEF ToGo
    <3>2. Height(q2, i2) \in Nat
      BY <2>1, HeightIsNat
    <3> HIDE DEF qd, i, q2, i2
    <3> QED BY <1>6, <2>1, <3>1, <3>2
  <2> QED BY <2>4, <2>5 DEF num
<1> QED BY <1>9, <1>11, <1>12

\* The lower half of a number that starts at a multiple of a unit.
LEMMA LowBitIs ==
    ASSUME NEW val \in Nat, NEW k \in 1..KM
    PROVE  /\ (val \div Unit[k - 1]) % 2 = 1 =>
                   Unit[k] * (val \div Unit[k]) + Unit[k - 1] = Unit[k - 1] * (val \div Unit[k - 1])
           /\ ~ ((val \div Unit[k - 1]) % 2 = 1) => Unit[k] * (val \div Unit[k]) = Unit[k - 1] * (val \div Unit[k - 1])
<1> DEFINE m == Unit[k - 1]
           q == val \div m
           h == val \div (2 * m)
           b == q % 2
<1>1. m \in Nat \ {0} /\ Unit[k] = 2 * m
  <2>1. k - 1 \in 0..KM
    BY TreeSizes
  <2> QED BY <2>1, UnitIs
<1> HIDE DEF m
<1>2. q = 2 * h + b /\ q \in Nat
  BY <1>1, QuotientHalved, Division
<1>3. b \in {0, 1}
  BY <1>2, Halving
<1>4. h \in Nat
  <2>1. 2 * m \in Nat \ {0}
    BY <1>1
  <2> QED BY <2>1, Division
<1> HIDE DEF q, h, b
<1>5. m * (2 * h + b) = (2 * m) * h + m * b
  BY <1>1, <1>3, <1>4
<1>6. b = 1 => (2 * m) * h + m = m * q
  <2>1. m * 1 = m
    BY <1>1
  <2> QED BY <1>2, <1>5, <2>1
<1>7. ~ (b = 1) => (2 * m) * h = m * q
  <2>1. m * 0 = 0 /\ (2 * m) * h \in Nat
    BY <1>1, <1>4
  <2> QED BY <1>2, <1>3, <1>5, <2>1
<1> QED BY <1>1, <1>6, <1>7 DEF m, q, h, b

\* A low bit.
LEMMA LowKeeps ==
    ASSUME NEW w, NEW val \in 0..(2 * TreeSize - 1), Walking(w, val), ~ w.climbs, w.low > 0
    PROVE  /\ Walking(CodeLow(w, val), val) /\ ToGo(CodeLow(w, val)) <= ToGo(w) - 1
           /\ OneBit(w, val) \in BOOLEAN
<1> DEFINE num == CodeLow(w, val)
           t == AfterLow(w, val)
           k == w.low
           half == Unit[k - 1]
<1>1. /\ DOMAIN w = WalkFields /\ BitEncoder(w.s) /\ k \in 0..KM /\ w.val = Unit[k] * (val \div Unit[k])
      /\ w.climbs = FALSE /\ w.ctx[2] \in 0..NCtx /\ w.i \in Nat
  BY DEF Walking
<1>2. k \in 1..KM /\ k - 1 \in 0..KM /\ val \in Nat /\ KM \in Nat
  BY <1>1, TreeSizes
<1>3. half \in Nat \ {0}
  BY <1>2, UnitIs
<1>4. val \div half \in Nat
  BY <1>2, <1>3, Division
<1>5. OneBit(w, val) \in BOOLEAN /\ (OneBit(w, val) <=> (val \div half) % 2 = 1)
  BY <1>4 DEF OneBit
<1>6. BitEncoder(t) /\ t.bin = OneBit(w, val)
  BY <1>1, <1>5, EncoderStays DEF AfterLow
<1>7. WalkIs(num, t, w.ctx, w.i + (IF t.bin THEN half ELSE 1), w.climbs, k - 1, w.val + (IF t.bin THEN half ELSE 0))
  BY <1>1, CodeLowIs
<1> HIDE DEF num, t
<1>8. w.val \in Nat
  <2>1. Unit[k] \in Nat \ {0}
    BY <1>1, UnitIs
  <2>2. val \div Unit[k] \in Nat
    BY <1>2, <2>1, Division
  <2> QED BY <1>1, <2>1, <2>2
<1>9. num.val = Unit[k - 1] * (val \div Unit[k - 1])
  <2>1. CASE t.bin
    <3>1. num.val = w.val + half
      BY <1>7, <2>1 DEF WalkIs
    <3> QED BY <1>1, <1>2, <1>5, <1>6, <2>1, <3>1, LowBitIs
  <2>2. CASE ~ t.bin
    <3>1. num.val = w.val + 0
      BY <1>7, <2>2 DEF WalkIs
    <3>2. num.val = w.val
      BY <1>8, <3>1
    <3> QED BY <1>1, <1>2, <1>5, <1>6, <2>2, <3>2, LowBitIs
  <2> QED BY <2>1, <2>2
<1>10. num.i \in Nat
  <2>1. num.i = w.i + (IF t.bin THEN half ELSE 1)
    BY <1>7 DEF WalkIs
  <2> HIDE DEF half
  <2> QED BY <1>1, <1>3, <2>1
<1>11. DOMAIN num = WalkFields /\ num.s = t /\ num.ctx = w.ctx /\ num.climbs = FALSE /\ num.low = k - 1
  BY <1>1, <1>7 DEF WalkIs
<1>12. Walking(num, val)
  BY <1>1, <1>2, <1>6, <1>9, <1>10, <1>11 DEF Walking
<1>13. ToGo(num) <= ToGo(w) - 1
  <2>1. ToGo(num) = k - 1 /\ ToGo(w) = k
    BY <1>1, <1>11 DEF ToGo
  <2> QED BY <1>2, <2>1
<1> QED BY <1>5, <1>12, <1>13 DEF num

\* A walk that is over.
Done(w) == ~ w.climbs /\ w.low = 0

\* The decoder's walk is where the encoder's is.
Alongside(w, v, W) ==
    /\ WalkIs(v, v.s, w.ctx, w.i, w.climbs, w.low, w.val)
    /\ Shadows(w.s, v.s, W)

\* Walks with the same fields but the coders.
LEMMA SameWalks ==
    ASSUME NEW num, NEW m, NEW s, NEW h, NEW ctx, NEW i, NEW climbs, NEW low, NEW val, NEW W,
           WalkIs(num, s, ctx, i, climbs, low, val), WalkIs(m, h, ctx, i, climbs, low, val), Shadows(s, h, W)
    PROVE  Alongside(num, m, W)
BY Zenon DEF Alongside, WalkIs

\* A turn: the walk goes on and gets nearer to its end, where it stays.
LEMMA TurnKeeps ==
    ASSUME NEW w, NEW val \in 0..(2 * TreeSize - 1), Walking(w, val)
    PROVE  LET num == Turn(w, val)
           IN  /\ Walking(num, val)
               /\ IF Done(w) THEN num = w ELSE ToGo(num) <= ToGo(w) - 1
<1>1. CASE w.climbs
  BY <1>1, ClimbKeeps DEF Turn, Done
<1>2. CASE ~ w.climbs /\ w.low > 0
  <2>1. ~ Done(w)
    <3>1. w.low \in Nat
      BY <1>2, TreeSizes DEF Walking
    <3> QED BY <1>2, <3>1 DEF Done
  <2> QED BY <1>2, <2>1, LowKeeps DEF Turn
<1>3. CASE ~ w.climbs /\ ~ (w.low > 0)
  <2>1. w.low = 0
    <3>1. w.low \in Nat
      BY <1>3, TreeSizes DEF Walking
    <3> QED BY <1>3, <3>1
  <2>2. Turn(w, val) = w
    BY <1>3 DEF Turn
  <2> QED BY <1>3, <2>1, <2>2 DEF Done
<1> QED BY <1>1, <1>2, <1>3

\* The decoder takes the same turn.
LEMMA ClimbReturns ==
    ASSUME NEW w, NEW val \in 0..(2 * TreeSize - 1), Walking(w, val), w.climbs, NEW any,
           NEW W \in Seq(StreamWords), GoesOn(Climb(w, val).s, W)
    PROVE  /\ GoesOn(w.s, W)
           /\ \A v : Alongside(w, v, W) => Alongside(Climb(w, val), Climb(v, any), W)
<1> DEFINE num  == Climb(w, val)
           t  == AfterGoing(w, val)
           qd == w.ctx[2]
           i  == w.i
           up == i + Unit[KM]
           node == <<w.ctx, w.i>>
<1>1. DOMAIN w = WalkFields /\ BitEncoder(w.s) /\ Goes(w, val) \in BOOLEAN
  BY WalkTypes DEF Walking
<1>2. t = CodeBit(w.s, node, Goes(w, val)) /\ t.bin = Goes(w, val)
  BY <1>1, EncoderStays DEF AfterGoing
<1>3. /\ ~ t.bin => WalkIs(num, t, w.ctx, i + 1, FALSE, K(qd), Reached(qd, i) * Unit[K(qd)])
      /\ t.bin /\ up < TreeSize => WalkIs(num, t, w.ctx, up, w.climbs, w.low, w.val)
      /\ t.bin /\ ~ (up < TreeSize) =>
            WalkIs(num, t, <<w.ctx[1], Rough(qd, up)[1]>>, Rough(qd, up)[2], w.climbs, w.low, w.val)
  BY <1>1, ClimbIs
<1>4. num.s = t
  <2> HIDE DEF num, t, qd, i, up
  <2> QED BY <1>3 DEF WalkIs
<1>5. GoesOn(CodeBit(w.s, node, Goes(w, val)), W)
  BY <1>2, <1>4
<1>6. GoesOn(w.s, W)
  BY <1>1, <1>5, BitReturns
<1>7. ASSUME NEW v, Alongside(w, v, W)
      PROVE  Alongside(num, Climb(v, any), W)
  <2> DEFINE m == Climb(v, any)
             h == AfterGoing(v, any)
  <2>1. /\ DOMAIN v = WalkFields /\ v.ctx = w.ctx /\ v.i = i /\ v.climbs = w.climbs /\ v.low = w.low
        /\ v.val = w.val /\ Shadows(w.s, v.s, W)
    BY <1>7 DEF Alongside, WalkIs
  <2>2. h = CodeBit(v.s, node, Goes(v, any))
    BY <2>1 DEF AfterGoing
  <2>3. Shadows(t, h, W) /\ h.bin = Goes(w, val)
    BY <1>1, <1>2, <1>5, <2>1, <2>2, BitReturns
  <2>4. /\ ~ h.bin => WalkIs(m, h, w.ctx, i + 1, FALSE, K(qd), Reached(qd, i) * Unit[K(qd)])
        /\ h.bin /\ up < TreeSize => WalkIs(m, h, w.ctx, up, w.climbs, w.low, w.val)
        /\ h.bin /\ ~ (up < TreeSize) =>
              WalkIs(m, h, <<w.ctx[1], Rough(qd, up)[1]>>, Rough(qd, up)[2], w.climbs, w.low, w.val)
    <3>1. /\ ~ h.bin => WalkIs(m, h, v.ctx, v.i + 1, FALSE, K(v.ctx[2]), Reached(v.ctx[2], v.i) * Unit[K(v.ctx[2])])
          /\ h.bin /\ v.i + Unit[KM] < TreeSize => WalkIs(m, h, v.ctx, v.i + Unit[KM], v.climbs, v.low, v.val)
          /\ h.bin /\ ~ (v.i + Unit[KM] < TreeSize) =>
                WalkIs(m, h, <<v.ctx[1], Rough(v.ctx[2], v.i + Unit[KM])[1]>>, Rough(v.ctx[2], v.i + Unit[KM])[2],
                       v.climbs, v.low, v.val)
      BY <2>1, ClimbIs
    <3> HIDE DEF m, h
    <3> QED BY <2>1, <3>1
  <2> SUFFICES Alongside(num, m, W)
    OBVIOUS
  <2> HIDE DEF m, h, num, t, qd, i, up
  <2>5. CASE ~ t.bin
    <3>1. ~ h.bin
      BY <1>2, <2>3, <2>5
    <3>2. WalkIs(num, t, w.ctx, i + 1, FALSE, K(qd), Reached(qd, i) * Unit[K(qd)])
      BY <1>3, <2>5
    <3>3. WalkIs(m, h, w.ctx, i + 1, FALSE, K(qd), Reached(qd, i) * Unit[K(qd)])
      BY <2>4, <3>1
    <3> QED BY <2>3, <3>2, <3>3, SameWalks
  <2>6. CASE t.bin /\ up < TreeSize
    <3>1. h.bin
      BY <1>2, <2>3, <2>6
    <3>2. WalkIs(num, t, w.ctx, up, w.climbs, w.low, w.val)
      BY <1>3, <2>6
    <3>3. WalkIs(m, h, w.ctx, up, w.climbs, w.low, w.val)
      BY <2>4, <2>6, <3>1
    <3> QED BY <2>3, <3>2, <3>3, SameWalks
  <2>7. CASE t.bin /\ ~ (up < TreeSize)
    <3>1. h.bin
      BY <1>2, <2>3, <2>7
    <3>2. WalkIs(num, t, <<w.ctx[1], Rough(qd, up)[1]>>, Rough(qd, up)[2], w.climbs, w.low, w.val)
      BY <1>3, <2>7
    <3>3. WalkIs(m, h, <<w.ctx[1], Rough(qd, up)[1]>>, Rough(qd, up)[2], w.climbs, w.low, w.val)
      BY <2>4, <2>7, <3>1
    <3> QED BY <2>3, <3>2, <3>3, SameWalks
  <2> QED BY <2>5, <2>6, <2>7
<1> QED BY <1>6, <1>7 DEF num

\* The low bits.
LEMMA LowReturns ==
    ASSUME NEW w, NEW val \in 0..(2 * TreeSize - 1), Walking(w, val), ~ w.climbs, w.low > 0, NEW any,
           NEW W \in Seq(StreamWords), GoesOn(CodeLow(w, val).s, W)
    PROVE  /\ GoesOn(w.s, W)
           /\ \A v : Alongside(w, v, W) => Alongside(CodeLow(w, val), CodeLow(v, any), W)
<1> DEFINE num  == CodeLow(w, val)
           t  == AfterLow(w, val)
           half == Unit[w.low - 1]
           node == <<w.ctx, w.i>>
<1>1. DOMAIN w = WalkFields /\ BitEncoder(w.s) /\ OneBit(w, val) \in BOOLEAN
  BY LowKeeps DEF Walking
<1>2. t = CodeBit(w.s, node, OneBit(w, val)) /\ t.bin = OneBit(w, val)
  BY <1>1, EncoderStays DEF AfterLow
<1>3. WalkIs(num, t, w.ctx, w.i + (IF t.bin THEN half ELSE 1), w.climbs, w.low - 1,
             w.val + (IF t.bin THEN half ELSE 0))
  BY <1>1, CodeLowIs
<1>4. GoesOn(CodeBit(w.s, node, OneBit(w, val)), W)
  <2> HIDE DEF num, t, half
  <2>1. num.s = t
    BY <1>3 DEF WalkIs
  <2>2. GoesOn(t, W)
    BY <2>1 DEF num
  <2> QED BY <1>2, <2>2
<1>5. GoesOn(w.s, W)
  BY <1>1, <1>4, BitReturns
<1>6. ASSUME NEW v, Alongside(w, v, W)
      PROVE  Alongside(num, CodeLow(v, any), W)
  <2> DEFINE m == CodeLow(v, any)
             h == AfterLow(v, any)
  <2>1. /\ DOMAIN v = WalkFields /\ v.ctx = w.ctx /\ v.i = w.i /\ v.climbs = w.climbs /\ v.low = w.low
        /\ v.val = w.val /\ Shadows(w.s, v.s, W)
    BY <1>6 DEF Alongside, WalkIs
  <2>2. h = CodeBit(v.s, node, OneBit(v, any))
    BY <2>1 DEF AfterLow
  <2>3. Shadows(t, h, W) /\ h.bin = OneBit(w, val)
    BY <1>1, <1>2, <1>4, <2>1, <2>2, BitReturns
  <2>4. WalkIs(m, h, v.ctx, v.i + (IF h.bin THEN Unit[v.low - 1] ELSE 1), v.climbs, v.low - 1,
               v.val + (IF h.bin THEN Unit[v.low - 1] ELSE 0))
    BY <2>1, CodeLowIs
  <2> SUFFICES Alongside(num, m, W)
    OBVIOUS
  <2> HIDE DEF m, h, num, t, half
  <2>5. CASE t.bin
    <3>1. h.bin
      BY <1>2, <2>3, <2>5
    <3>2. WalkIs(num, t, w.ctx, w.i + half, w.climbs, w.low - 1, w.val + half)
      BY <1>3, <2>5
    <3>3. WalkIs(m, h, w.ctx, w.i + half, w.climbs, w.low - 1, w.val + half)
      BY <2>1, <2>4, <3>1 DEF half
    <3> QED BY <2>3, <3>2, <3>3, SameWalks
  <2>6. CASE ~ t.bin
    <3>1. ~ h.bin
      BY <1>2, <2>3, <2>6
    <3>2. WalkIs(num, t, w.ctx, w.i + 1, w.climbs, w.low - 1, w.val + 0)
      BY <1>3, <2>6
    <3>3. WalkIs(m, h, w.ctx, w.i + 1, w.climbs, w.low - 1, w.val + 0)
      BY <2>1, <2>4, <3>1
    <3> QED BY <2>3, <3>2, <3>3, SameWalks
  <2> QED BY <2>5, <2>6
<1> QED BY <1>5, <1>6 DEF num

\* So does every turn.
LEMMA TurnReturns ==
    ASSUME NEW w, NEW val \in 0..(2 * TreeSize - 1), Walking(w, val), NEW any,
           NEW W \in Seq(StreamWords), GoesOn(Turn(w, val).s, W)
    PROVE  /\ GoesOn(w.s, W)
           /\ \A v : Alongside(w, v, W) => Alongside(Turn(w, val), Turn(v, any), W)
<1>0. \A v : Alongside(w, v, W) => v.climbs = w.climbs /\ v.low = w.low
  BY DEF Alongside, WalkIs
<1>1. CASE w.climbs
  <2>1. Turn(w, val) = Climb(w, val) /\ \A v : Alongside(w, v, W) => Turn(v, any) = Climb(v, any)
    BY <1>0, <1>1 DEF Turn
  <2> QED BY <1>1, <2>1, ClimbReturns
<1>2. CASE ~ w.climbs /\ w.low > 0
  <2>1. Turn(w, val) = CodeLow(w, val) /\ \A v : Alongside(w, v, W) => Turn(v, any) = CodeLow(v, any)
    BY <1>0, <1>2 DEF Turn
  <2> QED BY <1>2, <2>1, LowReturns
<1>3. CASE ~ w.climbs /\ ~ (w.low > 0)
  <2>1. Turn(w, val) = w /\ \A v : Alongside(w, v, W) => Turn(v, any) = v
    BY <1>0, <1>3 DEF Turn
  <2> QED BY <2>1
<1> QED BY <1>1, <1>2, <1>3

-----------------------------------------------------------------------------
(* A value.                                                                *)

\* The turns of a value, so many.
ValueLoop(u, start, val, m) == u = [num \in 0..m |-> IF num = 0 THEN start ELSE Turn(u[num - 1], val)]

\* There is such a function.
LEMMA ValueLoopExists ==
    ASSUME NEW start, NEW val, NEW N \in Nat
    PROVE  \E u : ValueLoop(u, start, val, N)
<1> DEFINE T == {m \in Nat : \E u : ValueLoop(u, start, val, m)}
<1>1. 0 \in T
  <2> DEFINE u == [num \in 0..0 |-> start]
  <2>1. ValueLoop(u, start, val, 0)
    BY DEF ValueLoop
  <2> QED BY <2>1
<1>2. ASSUME NEW m \in Nat, m \in T PROVE m + 1 \in T
  <2>1. PICK u : ValueLoop(u, start, val, m)
    BY <1>2
  <2> DEFINE h == [num \in 0..(m + 1) |-> IF num <= m THEN u[num] ELSE Turn(u[m], val)]
  <2>2. \A num \in 0..m : h[num] = u[num]
    OBVIOUS
  <2>3. h[m + 1] = Turn(h[m], val)
    BY <2>2
  <2>4. \A num \in 0..(m + 1) : h[num] = IF num = 0 THEN start ELSE Turn(h[num - 1], val)
    <3> TAKE num \in 0..(m + 1)
    <3>1. CASE num = m + 1
      BY <2>3, <3>1
    <3>2. CASE num \in 0..m
      <4>1. u[num] = IF num = 0 THEN start ELSE Turn(u[num - 1], val)
        BY <2>1, <3>2 DEF ValueLoop
      <4>2. num # 0 => u[num - 1] = h[num - 1]
        BY <2>2, <3>2
      <4> QED BY <2>2, <3>2, <4>1, <4>2
    <3> QED BY <3>1, <3>2
  <2> HIDE DEF h
  <2>5. h = [num \in 0..(m + 1) |-> h[num]]
    BY DEF h
  <2>6. ValueLoop(h, start, val, m + 1)
    BY <2>4, <2>5 DEF ValueLoop
  <2> QED BY <2>6
<1>3. T = Nat
  <2> HIDE DEF T
  <2>1. T \in SUBSET Nat
    BY DEF T
  <2> QED BY <1>1, <1>2, <2>1, Induction
<1> QED BY <1>3

\* Before the first turn.
WalkStart(s, e) == [s |-> s, ctx |-> <<e.ch, e.qd>>, i |-> 0, climbs |-> TRUE, low |-> 0, val |-> 0]

\* The turns of a value, and the last of them.
Turns(u, start, val) == u[0] = start /\ \A num \in 1..Longest : u[num] = Turn(u[num - 1], val)

\* A value takes so many turns.
LEMMA LongestIs ==
    /\ Longest \in Nat
    /\ \A qd \in 0..(NCtx - 1) : Height(qd, 0) + KM <= Longest
<1> DEFINE H == Steep - Steep \div 2
<1>1. Steep \in Nat /\ KM \in Nat /\ NCtx \in Nat /\ Unit[KM] \in Nat \ {0}
  BY TreeIsEven, TreeSizes, UnitIs
<1>2. H \in Nat
  BY <1>1, Halving
<1>3. Longest = 2 * Steep + KM * H + KM
  BY DEF Longest
<1> HIDE DEF H
<1>4. KM * H \in Nat
  BY <1>1, <1>2
<1>5. ASSUME NEW qd \in 0..(NCtx - 1) PROVE Height(qd, 0) + KM <= Longest
  <2>1. Height(qd, 0) = Steep + (KM - K(qd)) * H + (Steep - 0 \div Unit[KM])
    BY <1>1 DEF Height, H
  <2>2. 0 \div Unit[KM] = 0
    <3>1. (Unit[KM] * 0 + 0) \div Unit[KM] = 0 /\ Unit[KM] * 0 + 0 = 0
      BY <1>1, DivisionUnique
    <3> QED BY <3>1
  <2>3. K(qd) \in 0..KM
    BY <1>1, KIs
  <2> DEFINE k == K(qd)
             rest == KM - k
  <2>4. rest \in Nat /\ rest <= KM
    BY <1>1, <2>3
  <2> HIDE DEF k, rest
  <2>5. H * rest <= H * KM /\ H * rest \in Nat
    BY <1>1, <1>2, <2>4, ProductGrows
  <2>6. rest * H = H * rest /\ KM * H = H * KM
    BY <1>1, <1>2, <2>4
  <2>7. Height(qd, 0) = Steep + rest * H + (Steep - 0)
    BY <2>1, <2>2 DEF rest, k
  <2> QED BY <1>1, <1>3, <1>4, <2>5, <2>6, <2>7
<1> QED BY <1>1, <1>3, <1>4, <1>5

\* CodeValue is the last of them.
LEMMA CodeValueIs ==
    ASSUME NEW s, NEW e, NEW val
    PROVE  \E u : Turns(u, WalkStart(s, e), val) /\ CodeValue(s, e, val) = u[Longest]
<1> DEFINE start == WalkStart(s, e)
           u == CHOOSE f : ValueLoop(f, start, val, Longest)
<1>1. CodeValue(s, e, val) = u[Longest]
  BY DEF CodeValue, ValueLoop, WalkStart
<1> HIDE DEF start
<1>2. ValueLoop(u, start, val, Longest)
  BY LongestIs, ValueLoopExists
<1> HIDE DEF u
<1>3. Turns(u, start, val)
  BY <1>2, LongestIs DEF ValueLoop, Turns
<1> QED BY <1>1, <1>3 DEF start

\* A walk that takes no more turns has its value.
LEMMA DoneIs ==
    ASSUME NEW w, NEW val \in 0..(2 * TreeSize - 1), Walking(w, val)
    PROVE  /\ ~ Done(w) => ToGo(w) \in Nat /\ ToGo(w) >= 1
           /\ Done(w) => w.val = val
<1>1. CASE w.climbs
  <2>1. w.ctx[2] \in 0..NCtx /\ w.i \in Nat /\ w.i < TreeSize /\ KM \in Nat
    BY <1>1, TreeSizes DEF Walking
  <2>2. Height(w.ctx[2], w.i) \in Nat /\ Height(w.ctx[2], w.i) >= 1
    BY <2>1, HeightIsNat
  <2>3. ToGo(w) = Height(w.ctx[2], w.i) + KM
    BY <1>1 DEF ToGo
  <2>4. ~ Done(w)
    BY <1>1 DEF Done
  <2> QED BY <2>1, <2>2, <2>3, <2>4
<1>2. CASE ~ w.climbs
  <2>1. w.low \in 0..KM /\ w.val = Unit[w.low] * (val \div Unit[w.low]) /\ KM \in Nat /\ val \in Nat
    BY <1>2, TreeSizes DEF Walking
  <2>2. ToGo(w) = w.low /\ (Done(w) <=> w.low = 0)
    BY <1>2 DEF ToGo, Done
  <2>3. w.low = 0 => w.val = val
    <3>1. Unit[0] = 1
      BY UnitIs
    <3>2. 1 * (val \div 1) = val
      <4>1. (1 * val + 0) \div 1 = val /\ 1 * val + 0 = val
        BY <2>1, DivisionUnique
      <4> QED BY <2>1, <4>1
    <3> QED BY <2>1, <3>1, <3>2
  <2> QED BY <2>1, <2>2, <2>3
<1> QED BY <1>1, <1>2

\* What a walk keeps from turn to turn.
LEMMA TurnsKeep ==
    ASSUME NEW s, BitEncoder(s), NEW e, e.qd \in 0..(NCtx - 1), NEW val \in 0..(2 * TreeSize - 1),
           NEW u, Turns(u, WalkStart(s, e), val)
    PROVE  \A num \in 0..Longest : Walking(u[num], val) /\ (Done(u[num]) \/ ToGo(u[num]) <= Longest - num)
<1> DEFINE P(num) == Walking(u[num], val) /\ (Done(u[num]) \/ ToGo(u[num]) <= Longest - num)
           T == {num \in Nat : num <= Longest => P(num)}
           start == WalkStart(s, e)
<1>1. Longest \in Nat
  BY LongestIs
<1>2. 0 \in T
  <2>1. u[0] = start
    BY DEF Turns
  <2>2. /\ DOMAIN start = WalkFields /\ start.s = s /\ start.ctx[2] = e.qd /\ start.i = 0
        /\ start.climbs = TRUE
    BY DEF WalkStart, WalkFields
  <2> HIDE DEF start
  <2>3. /\ NCtx \in Nat \ {0} /\ TreeSize \in Nat \ {0} /\ val \in Nat
        /\ e.qd \in 0..NCtx /\ e.qd \in Nat /\ ~ (e.qd >= NCtx)
    BY TreeSizes
  <2>4. Reached(e.qd, 0) <= Units(val, e.qd)
    <3>1. Reached(e.qd, 0) = 0 + 0 \div Unit[KM]
      BY <2>3, LevelIs
    <3>2. 0 \div Unit[KM] = 0
      <4>1. Unit[KM] \in Nat \ {0}
        BY TreeSizes, UnitIs
      <4>2. (Unit[KM] * 0 + 0) \div Unit[KM] = 0 /\ Unit[KM] * 0 + 0 = 0
        BY <4>1, DivisionUnique
      <4> QED BY <4>2
    <3>3. Units(val, e.qd) \in Nat
      <4>1. Unit[K(e.qd)] \in Nat \ {0}
        BY <2>3, KIs, UnitIs
      <4> QED BY <2>3, <4>1, Division DEF Units
    <3> QED BY <3>1, <3>2, <3>3
  <2>5. Walking(start, val)
    <3>1. start.ctx[2] \in 0..NCtx /\ start.i \in Nat /\ start.i < TreeSize /\ start.climbs
      BY <2>2, <2>3
    <3>2. Reached(start.ctx[2], start.i) <= Units(val, start.ctx[2])
      BY <2>2, <2>4
    <3>3. start.climbs \in BOOLEAN /\ BitEncoder(start.s)
      BY <2>2
    <3> QED BY <2>2, <3>1, <3>2, <3>3 DEF Walking
  <2>6. ToGo(start) <= Longest - 0
    <3>1. ToGo(start) = Height(e.qd, 0) + KM
      BY <2>2 DEF ToGo
    <3> QED BY <1>1, <3>1, LongestIs
  <2> QED BY <2>1, <2>5, <2>6
<1>3. ASSUME NEW num \in Nat, num \in T PROVE num + 1 \in T
  <2> SUFFICES ASSUME num + 1 <= Longest PROVE P(num + 1)
    OBVIOUS
  <2>1. num <= Longest /\ P(num) /\ num + 1 \in 1..Longest /\ (num + 1) - 1 = num
    BY <1>1, <1>3
  <2> DEFINE w == u[num]
             z == u[num + 1]
  <2>2. z = Turn(w, val)
    BY <2>1 DEF Turns
  <2> HIDE DEF w, z
  <2>3. Walking(w, val) /\ (Done(w) \/ ToGo(w) <= Longest - num)
    BY <2>1 DEF w
  <2>4. Walking(z, val) /\ IF Done(w) THEN z = w ELSE ToGo(z) <= ToGo(w) - 1
    BY <2>2, <2>3, TurnKeeps
  <2>5. Done(z) \/ ToGo(z) <= Longest - (num + 1)
    <3>1. CASE Done(w)
      BY <2>4, <3>1
    <3>2. CASE ~ Done(w)
      <4>1. ToGo(w) \in Nat /\ ToGo(w) <= Longest - num /\ ToGo(z) <= ToGo(w) - 1
        BY <2>3, <2>4, <3>2, DoneIs
      <4>2. CASE Done(z)
        BY <4>2
      <4>3. CASE ~ Done(z)
        <5>1. ToGo(z) \in Nat
          BY <2>4, <4>3, DoneIs
        <5> QED BY <1>1, <4>1, <5>1
      <4> QED BY <4>2, <4>3
    <3> QED BY <3>1, <3>2
  <2> QED BY <2>4, <2>5 DEF z
<1>4. T = Nat
  <2> HIDE DEF P
  <2>1. T \in SUBSET Nat
    OBVIOUS
  <2> HIDE DEF T
  <2> QED BY <1>2, <1>3, <2>1, Induction
<1> QED BY <1>1, <1>4

\* The encoder codes a value, and is an encoder again.
LEMMA ValueKeeps ==
    ASSUME NEW s, BitEncoder(s), NEW e, e.qd \in 0..(NCtx - 1), NEW val \in 0..(2 * TreeSize - 1)
    PROVE  LET w == CodeValue(s, e, val) IN BitEncoder(w.s) /\ w.val = val
<1>1. PICK u : Turns(u, WalkStart(s, e), val) /\ CodeValue(s, e, val) = u[Longest]
  BY CodeValueIs
<1>2. Longest \in Nat
  BY LongestIs
<1>3. Walking(u[Longest], val) /\ (Done(u[Longest]) \/ ToGo(u[Longest]) <= Longest - Longest)
  BY <1>1, <1>2, TurnsKeep
<1> DEFINE w == u[Longest]
<1> HIDE DEF w
<1>4. Done(w)
  <2> SUFFICES ASSUME ~ Done(w) PROVE FALSE
    OBVIOUS
  <2>1. ToGo(w) \in Nat /\ ToGo(w) >= 1
    BY <1>3, DoneIs DEF w
  <2> QED BY <1>2, <1>3, <2>1 DEF w
<1>5. w.val = val
  BY <1>3, <1>4, DoneIs DEF w
<1>6. BitEncoder(w.s)
  BY <1>3 DEF Walking, w
<1> QED BY <1>1, <1>5, <1>6 DEF w

\* A value: a stream that goes on as the encoder does afterwards did so before,
\* and a decoder of it that was where the encoder was gets the value and is again.
LEMMA ValueReturns ==
    ASSUME NEW s, BitEncoder(s), NEW e, e.qd \in 0..(NCtx - 1), NEW val \in 0..(2 * TreeSize - 1), NEW any,
           NEW W \in Seq(StreamWords), GoesOn(CodeValue(s, e, val).s, W)
    PROVE  /\ GoesOn(s, W)
           /\ \A d : Shadows(s, d, W) =>
                  Shadows(CodeValue(s, e, val).s, CodeValue(d, e, any).s, W) /\ CodeValue(d, e, any).val = val
<1> DEFINE start == WalkStart(s, e)
<1>1. PICK u : Turns(u, start, val) /\ CodeValue(s, e, val) = u[Longest]
  BY CodeValueIs
<1>2. Longest \in Nat
  BY LongestIs
<1>3. \A num \in 0..Longest : Walking(u[num], val)
  BY <1>1, TurnsKeep
<1>4. u[0] = start /\ start.s = s
  BY <1>1 DEF Turns, WalkStart
<1> DEFINE final == u[Longest]
<1>5. GoesOn(final.s, W)
  BY <1>1
<1> HIDE DEF start
<1> DEFINE T == {num \in Nat : num <= Longest => (GoesOn(u[num].s, W) => GoesOn(s, W))}
<1>6. 0 \in T
  BY <1>4
<1>7. ASSUME NEW num \in Nat, num \in T PROVE num + 1 \in T
  <2> SUFFICES ASSUME num + 1 <= Longest, GoesOn(u[num + 1].s, W) PROVE GoesOn(s, W)
    OBVIOUS
  <2>1. num <= Longest /\ num \in 0..Longest /\ num + 1 \in 1..Longest /\ (num + 1) - 1 = num
    BY <1>2
  <2>2. u[num + 1] = Turn(u[num], val) /\ Walking(u[num], val)
    BY <1>1, <1>3, <2>1 DEF Turns
  <2>3. GoesOn(u[num].s, W)
    BY <2>2, TurnReturns
  <2> QED BY <1>7, <2>1, <2>3
<1>8. T = Nat
  <2>1. T \in SUBSET Nat
    OBVIOUS
  <2> HIDE DEF T
  <2> QED BY <1>6, <1>7, <2>1, Induction
<1>9. GoesOn(s, W)
  BY <1>2, <1>5, <1>8
<1> HIDE DEF T
<1>10. ASSUME NEW d, Shadows(s, d, W)
       PROVE  Shadows(final.s, CodeValue(d, e, any).s, W) /\ CodeValue(d, e, any).val = val
  <2> DEFINE dstart == WalkStart(d, e)
  <2>1. PICK v : Turns(v, dstart, any) /\ CodeValue(d, e, any) = v[Longest]
    BY CodeValueIs
  <2>2. v[0] = dstart
    BY <2>1 DEF Turns
  <2>3. Alongside(start, dstart, W)
    BY <1>10, Zenon DEF start, WalkStart, Alongside, WalkIs, WalkFields
  <2> HIDE DEF dstart
  <2> DEFINE P(num) == GoesOn(u[num].s, W) => Alongside(u[num], v[num], W)
             D == {num \in Nat : num <= Longest => P(num)}
  <2>4. 0 \in D
    BY <1>4, <2>2, <2>3
  <2>5. ASSUME NEW num \in Nat, num \in D PROVE num + 1 \in D
    <3> SUFFICES ASSUME num + 1 <= Longest, GoesOn(u[num + 1].s, W) PROVE Alongside(u[num + 1], v[num + 1], W)
      OBVIOUS
    <3>1. num <= Longest /\ num \in 0..Longest /\ num + 1 \in 1..Longest /\ (num + 1) - 1 = num
      BY <1>2
    <3>2. u[num + 1] = Turn(u[num], val) /\ Walking(u[num], val) /\ v[num + 1] = Turn(v[num], any)
      BY <1>1, <1>3, <2>1, <3>1 DEF Turns
    <3>3. GoesOn(u[num].s, W) /\ (Alongside(u[num], v[num], W) => Alongside(u[num + 1], v[num + 1], W))
      BY <3>2, TurnReturns
    <3> QED BY <2>5, <3>1, <3>3
  <2>6. D = Nat
    <3>1. D \in SUBSET Nat
      OBVIOUS
    <3> HIDE DEF D
    <3> QED BY <2>4, <2>5, <3>1, Induction
  <2>7. Alongside(final, v[Longest], W)
    BY <1>2, <1>5, <2>6
  <2>8. final.val = val
    BY <1>1, ValueKeeps
  <2> QED BY <2>1, <2>7, <2>8 DEF Alongside, WalkIs
<1> QED BY <1>1, <1>9, <1>10

-----------------------------------------------------------------------------
(* A sequence of values.                                                   *)

\* The coders before and behind each value, so many.
EncodeLoop(u, vals, m) ==
    u = [num \in 0..m |-> IF num = 0 THEN Encoder ELSE CodeValue(u[num - 1], vals[num], vals[num].val).s]
\* The next value of the decoder.
DecodeStep(before, item) ==
    LET now == CodeValue(before.s, item, 0) IN [s |-> now.s, got |-> Append(before.got, now.val)]
\* The decoder, value by value.
DecodeLoop(u, first, vals, m) == u = [num \in 0..m |-> IF num = 0 THEN first ELSE DecodeStep(u[num - 1], vals[num])]

\* There are such functions.
LEMMA EncodeLoopExists ==
    ASSUME NEW vals, NEW N \in Nat
    PROVE  \E u : EncodeLoop(u, vals, N)
<1> DEFINE T == {m \in Nat : \E u : EncodeLoop(u, vals, m)}
<1>1. 0 \in T
  <2> DEFINE u == [num \in 0..0 |-> Encoder]
  <2>1. EncodeLoop(u, vals, 0)
    BY DEF EncodeLoop
  <2> QED BY <2>1
<1>2. ASSUME NEW m \in Nat, m \in T PROVE m + 1 \in T
  <2>1. PICK u : EncodeLoop(u, vals, m)
    BY <1>2
  <2> DEFINE next(f, num) == CodeValue(f, vals[num], vals[num].val).s
             h == [num \in 0..(m + 1) |-> IF num <= m THEN u[num] ELSE next(u[m], m + 1)]
  <2>2. \A num \in 0..m : h[num] = u[num]
    OBVIOUS
  <2>3. h[m + 1] = next(h[m], m + 1)
    BY <2>2
  <2>4. \A num \in 0..(m + 1) : h[num] = IF num = 0 THEN Encoder ELSE next(h[num - 1], num)
    <3> TAKE num \in 0..(m + 1)
    <3>1. CASE num = m + 1
      BY <2>3, <3>1
    <3>2. CASE num \in 0..m
      <4>1. u[num] = IF num = 0 THEN Encoder ELSE next(u[num - 1], num)
        BY <2>1, <3>2 DEF EncodeLoop
      <4>2. num # 0 => u[num - 1] = h[num - 1]
        BY <2>2, <3>2
      <4> QED BY <2>2, <3>2, <4>1, <4>2
    <3> QED BY <3>1, <3>2
  <2> HIDE DEF h
  <2>5. h = [num \in 0..(m + 1) |-> h[num]]
    BY DEF h
  <2>6. EncodeLoop(h, vals, m + 1)
    BY <2>4, <2>5 DEF EncodeLoop
  <2> QED BY <2>6
<1>3. T = Nat
  <2> HIDE DEF T
  <2>1. T \in SUBSET Nat
    BY DEF T
  <2> QED BY <1>1, <1>2, <2>1, Induction
<1> QED BY <1>3

\* There is such a function.
LEMMA DecodeLoopExists ==
    ASSUME NEW first, NEW vals, NEW N \in Nat
    PROVE  \E u : DecodeLoop(u, first, vals, N)
<1> DEFINE T == {m \in Nat : \E u : DecodeLoop(u, first, vals, m)}
<1>1. 0 \in T
  <2> DEFINE u == [num \in 0..0 |-> first]
  <2>1. DecodeLoop(u, first, vals, 0)
    BY DEF DecodeLoop
  <2> QED BY <2>1
<1>2. ASSUME NEW m \in Nat, m \in T PROVE m + 1 \in T
  <2>1. PICK u : DecodeLoop(u, first, vals, m)
    BY <1>2
  <2> DEFINE h == [num \in 0..(m + 1) |-> IF num <= m THEN u[num] ELSE DecodeStep(u[m], vals[m + 1])]
  <2>2. \A num \in 0..m : h[num] = u[num]
    OBVIOUS
  <2>3. h[m + 1] = DecodeStep(h[m], vals[m + 1])
    BY <2>2
  <2>4. \A num \in 0..(m + 1) : h[num] = IF num = 0 THEN first ELSE DecodeStep(h[num - 1], vals[num])
    <3> TAKE num \in 0..(m + 1)
    <3>1. CASE num = m + 1
      BY <2>3, <3>1
    <3>2. CASE num \in 0..m
      <4>1. u[num] = IF num = 0 THEN first ELSE DecodeStep(u[num - 1], vals[num])
        BY <2>1, <3>2 DEF DecodeLoop
      <4>2. num # 0 => u[num - 1] = h[num - 1]
        BY <2>2, <3>2
      <4> QED BY <2>2, <3>2, <4>1, <4>2
    <3> QED BY <3>1, <3>2
  <2> HIDE DEF h
  <2>5. h = [num \in 0..(m + 1) |-> h[num]]
    BY DEF h
  <2>6. DecodeLoop(h, first, vals, m + 1)
    BY <2>4, <2>5 DEF DecodeLoop
  <2> QED BY <2>6
<1>3. T = Nat
  <2> HIDE DEF T
  <2>1. T \in SUBSET Nat
    BY DEF T
  <2> QED BY <1>1, <1>2, <2>1, Induction
<1> QED BY <1>3

\* The loops, value by value.
Encodes(u, vals) ==
    u[0] = Encoder /\ \A num \in 1..Len(vals) : u[num] = CodeValue(u[num - 1], vals[num], vals[num].val).s
\* The same, of any function.
Decodes(u, first, vals) == u[0] = first /\ \A num \in 1..Len(vals) : u[num] = DecodeStep(u[num - 1], vals[num])

\* The encoder is the last value of its loop.
LEMMA EncodeIs ==
    ASSUME NEW vals, Len(vals) \in Nat
    PROVE  \E u : Encodes(u, vals) /\ Encode(vals) = u[Len(vals)]
<1> DEFINE u == CHOOSE f : EncodeLoop(f, vals, Len(vals))
<1>1. Encode(vals) = u[Len(vals)]
  BY DEF Encode, EncodeLoop
<1>2. EncodeLoop(u, vals, Len(vals))
  BY EncodeLoopExists
<1> HIDE DEF u
<1>3. Encodes(u, vals)
  BY <1>2 DEF EncodeLoop, Encodes
<1> QED BY <1>1, <1>3

\* Before the first value.
FirstOf(W) == [s |-> Decoder(W), got |-> <<>>]

\* So is the decoder.
LEMMA DecodeIs ==
    ASSUME NEW vals, Len(vals) \in Nat, NEW W
    PROVE  \E u : Decodes(u, FirstOf(W), vals) /\ Decode(W, vals) = u[Len(vals)]
<1> DEFINE u == CHOOSE f : DecodeLoop(f, FirstOf(W), vals, Len(vals))
<1>1. Decode(W, vals) = u[Len(vals)]
  BY DEF Decode, DecodeLoop, DecodeStep, FirstOf
<1>2. DecodeLoop(u, FirstOf(W), vals, Len(vals))
  BY DecodeLoopExists
<1> HIDE DEF u
<1>3. Decodes(u, FirstOf(W), vals)
  BY <1>2 DEF DecodeLoop, Decodes
<1> QED BY <1>1, <1>3

\* Both coders before the first value.
LEMMA FirstCoders ==
    ASSUME NEW W
    PROVE  BitEncoder(Encoder) /\ Shadows(Encoder, Decoder(W), W)
<1>1. Interval(0, FirstRange)
  BY IntervalStays
<1> DEFINE e == Encoder
           d == Decoder(W)
<1>2. /\ DOMAIN e = CoderFields /\ e.enc = TRUE /\ e.words = <<>> /\ e.low = 0 /\ e.rng = FirstRange
      /\ e.prob = {}
  BY DEF Encoder, CoderFields
<1>3. BitEncoder(e)
  <2> HIDE DEF e
  <2>1. <<>> \in Seq(StreamWords)
    OBVIOUS
  <2> QED BY <1>1, <1>2, <2>1 DEF BitEncoder
<1>4. /\ DOMAIN d = CoderFields /\ d.enc = FALSE /\ d.low = e.low /\ d.rng = e.rng /\ d.prob = e.prob
      /\ d.sft = W[1] * Radix + W[2] /\ d.words = SubSeq(W, 3, Len(W))
  BY DEF Encoder, Decoder, CoderFields
<1>5. Shadows(e, d, W)
  <2>1. Len(e.words) = 0 /\ 0 + 1 = 1 /\ 0 + 2 = 2 /\ 0 + 3 = 3
    BY <1>2
  <2> HIDE DEF e, d
  <2> QED BY <1>4, <2>1 DEF Shadows, Window
<1> QED BY <1>3, <1>5

\* The whole stream.
LEMMA FlushGoesOn ==
    ASSUME NEW e, BitEncoder(e)
    PROVE  /\ Flushed(e) \in Seq(StreamWords)
           /\ GoesOn(e, Flushed(e))
           /\ Len(Flushed(e)) = Len(e.words) + 2
<1> DEFINE count == Len(e.words)
           a == e.low \div Radix
           b == e.low % Radix
           W == e.words \o <<a, b>>
<1>1. e.words \in Seq(StreamWords) /\ Interval(e.low, e.rng)
  BY DEF BitEncoder
<1>2. e.low \in Nat /\ e.rng \in Nat /\ e.low < Radix * Radix /\ Radix \in Nat \ {0}
  <2>1. e.low \in Nat /\ e.rng \in Nat /\ e.low + e.rng < Radix * Radix /\ Radix \in Nat \ {0} /\ Radix * Radix \in Nat
    BY <1>1, AriSizes DEF Interval
  <2> QED BY <2>1
<1>3. a \in Nat /\ b \in 0..(Radix - 1) /\ e.low = Radix * a + b /\ a < Radix
  BY <1>2, Division, QuotientBelow
<1>4. a \in StreamWords /\ b \in StreamWords
  BY <1>2, <1>3 DEF StreamWords
<1>5. count \in Nat
  BY <1>1, LenProperties
<1> HIDE DEF a, b
<1>6. <<a, b>> \in Seq(StreamWords) /\ Len(<<a, b>>) = 2 /\ <<a, b>>[1] = a /\ <<a, b>>[2] = b
  BY <1>4
<1> DEFINE tail == <<a, b>>
<1> HIDE DEF tail
<1>7. /\ e.words \o tail \in Seq(StreamWords) /\ Len(e.words \o tail) = count + 2
      /\ \A k \in 1..(count + 2) : (e.words \o tail)[k] = IF k <= count THEN e.words[k] ELSE tail[k - count]
  <2>1. tail \in Seq(StreamWords) /\ Len(tail) = 2
    BY <1>6 DEF tail
  <2>2. /\ e.words \o tail \in Seq(StreamWords) /\ Len(e.words \o tail) = Len(e.words) + Len(tail)
        /\ \A k \in 1..(Len(e.words) + Len(tail)) :
               (e.words \o tail)[k] = IF k <= Len(e.words) THEN e.words[k] ELSE tail[k - Len(e.words)]
    BY <1>1, <2>1, ConcatProperties
  <2>3. Len(e.words) = count
    OBVIOUS
  <2> HIDE DEF count, W
  <2> QED BY <2>1, <2>2, <2>3
<1>8. W = e.words \o tail
  BY DEF tail
<1> HIDE DEF W, count
<1>9. W[count + 1] = a /\ W[count + 2] = b /\ \A k \in 1..count : W[k] = e.words[k]
  <2>1. count + 1 \in 1..(count + 2) /\ count + 2 \in 1..(count + 2) /\ ~ (count + 1 <= count)
        /\ ~ (count + 2 <= count) /\ (count + 1) - count = 1 /\ (count + 2) - count = 2
    BY <1>5
  <2>2. W[count + 1] = tail[1] /\ W[count + 2] = tail[2]
    BY <1>7, <1>8, <2>1
  <2>3. \A k \in 1..count : k \in 1..(count + 2) /\ k <= count
    BY <1>5
  <2> QED BY <1>6, <1>7, <1>8, <2>2, <2>3 DEF tail
<1>10. Window(W, count) = e.low
  <2>1. a * Radix = Radix * a
    BY <1>2, <1>3
  <2> QED BY <1>3, <1>9, <2>1 DEF Window
<1>11. Window(W, count) \in e.low..(e.low + e.rng)
  BY <1>2, <1>10
<1>12. Len(W) = count + 2 /\ count + 2 <= Len(W)
  BY <1>5, <1>7, <1>8
<1>13. GoesOn(e, W)
  BY <1>9, <1>11, <1>12 DEF GoesOn, count
<1>14. Flushed(e) = W
  BY DEF Flushed, W, a, b
<1> QED BY <1>7, <1>8, <1>12, <1>13, <1>14 DEF count

\* Every value of a coding is one of a first tree.
LEMMA CodingParts ==
    ASSUME NEW vals, IsCoding(vals)
    PROVE  /\ Len(vals) \in Nat /\ DOMAIN vals = 1..Len(vals)
           /\ \A num \in 1..Len(vals) :
                  vals[num].qd \in 0..(NCtx - 1) /\ vals[num].val \in 0..(2 * TreeSize - 1) /\ vals[num].val \in Nat
<1> DEFINE R == [ch : Nat, qd : 0..(NCtx - 1), val : 0..(2 * TreeSize - 1)]
<1>1. vals \in Seq(R)
  BY DEF IsCoding
<1>2. \A r \in R : r.qd \in 0..(NCtx - 1) /\ r.val \in 0..(2 * TreeSize - 1) /\ r.val \in Nat
  BY TreeSizes
<1> HIDE DEF R
<1>3. Len(vals) \in Nat /\ DOMAIN vals = 1..Len(vals) /\ \A num \in 1..Len(vals) : vals[num] \in R
  BY <1>1, LenProperties, ElementOfSeq
<1> QED BY <1>2, <1>3

\* The code trees: from the flushed stream of any values the decoder gets these
\* values, uses up the words, each of which is one, and ends with the interval
\* and the probabilities of the encoder.
THEOREM TreesReturn ==
    ASSUME NEW vals, IsCoding(vals)
    PROVE  LET e == TreeBothWays(vals)[1]
               d == TreeBothWays(vals)[2]
           IN  /\ d.got = [k \in DOMAIN vals |-> vals[k].val] /\ d.s.words = <<>>
               /\ d.s.low = e.low /\ d.s.rng = e.rng /\ d.s.prob = e.prob
               /\ \A k \in DOMAIN Flushed(e) : Flushed(e)[k] \in 0..(Radix - 1)
<1> DEFINE N == Len(vals)
           e == Encode(vals)
           W == Flushed(e)
           d == Decode(W, vals)
<1>1. /\ N \in Nat /\ DOMAIN vals = 1..N
      /\ \A num \in 1..N : vals[num].qd \in 0..(NCtx - 1) /\ vals[num].val \in 0..(2 * TreeSize - 1)
                         /\ vals[num].val \in Nat
  BY CodingParts
<1>2. PICK u : Encodes(u, vals) /\ e = u[N]
  BY <1>1, EncodeIs
<1>3. PICK v : Decodes(v, FirstOf(W), vals) /\ d = v[N]
  BY <1>1, DecodeIs
<1>4. TreeBothWays(vals) = <<e, d>>
  BY DEF TreeBothWays
<1>5. /\ u[0] = Encoder /\ v[0] = FirstOf(W)
      /\ \A num \in 1..N : /\ u[num] = CodeValue(u[num - 1], vals[num], vals[num].val).s
                             /\ v[num] = DecodeStep(v[num - 1], vals[num])
  BY <1>2, <1>3 DEF Encodes, Decodes
<1> HIDE DEF N, e, W, d
<1>6. \A num \in 0..N : BitEncoder(u[num])
  <2> DEFINE T == {num \in Nat : num <= N => BitEncoder(u[num])}
  <2>1. 0 \in T
    BY <1>5, FirstCoders
  <2>2. ASSUME NEW num \in Nat, num \in T PROVE num + 1 \in T
    <3> SUFFICES ASSUME num + 1 <= N PROVE BitEncoder(u[num + 1])
      OBVIOUS
    <3>1. num <= N /\ num + 1 \in 1..N /\ (num + 1) - 1 = num
      BY <1>1
    <3>2. u[num + 1] = CodeValue(u[num], vals[num + 1], vals[num + 1].val).s /\ BitEncoder(u[num])
      BY <1>5, <2>2, <3>1
    <3> QED BY <1>1, <3>1, <3>2, ValueKeeps
  <2>3. T = Nat
    <3>1. T \in SUBSET Nat
      OBVIOUS
    <3> HIDE DEF T
    <3> QED BY <2>1, <2>2, <3>1, Induction
  <2> QED BY <1>1, <2>3
<1>7. BitEncoder(e)
  BY <1>1, <1>2, <1>6
<1>8. W \in Seq(StreamWords) /\ GoesOn(e, W) /\ Len(W) = Len(e.words) + 2
  BY <1>7, FlushGoesOn DEF W
\* From the last value back to the first one, the stream goes on.
<1>9. \A num \in 0..N : GoesOn(u[num], W)
  <2> DEFINE T == {m \in Nat : m <= N => GoesOn(u[N - m], W)}
  <2>1. 0 \in T
    <3>1. N - 0 = N
      BY <1>1
    <3> QED BY <1>2, <1>8, <3>1
  <2>2. ASSUME NEW m \in Nat, m \in T PROVE m + 1 \in T
    <3> SUFFICES ASSUME m + 1 <= N PROVE GoesOn(u[N - (m + 1)], W)
      OBVIOUS
    <3> DEFINE num == N - m
    <3>1. m <= N /\ num \in 1..N /\ num - 1 \in 0..N /\ N - (m + 1) = num - 1
      BY <1>1
    <3>2. GoesOn(u[num], W)
      BY <2>2, <3>1
    <3> HIDE DEF num
    <3>3. GoesOn(CodeValue(u[num - 1], vals[num], vals[num].val).s, W) /\ BitEncoder(u[num - 1])
      BY <1>5, <1>6, <3>1, <3>2
    <3>4. GoesOn(u[num - 1], W)
      BY <1>1, <1>8, <3>1, <3>3, ValueReturns
    <3> QED BY <3>1, <3>4
  <2>3. T = Nat
    <3>1. T \in SUBSET Nat
      OBVIOUS
    <3> HIDE DEF T
    <3> QED BY <2>1, <2>2, <3>1, Induction
  <2>4. ASSUME NEW num \in 0..N PROVE GoesOn(u[num], W)
    <3>1. N - num \in Nat /\ N - num <= N /\ N - (N - num) = num
      BY <1>1
    <3>2. N - num \in T
      BY <2>3, <3>1
    <3> QED BY <3>1, <3>2
  <2> QED BY <2>4
\* The decoder behind num values.
<1> DEFINE P(num) == /\ Shadows(u[num], v[num].s, W) /\ v[num].got \in Seq(Nat) /\ Len(v[num].got) = num
                   /\ \A k \in 1..num : v[num].got[k] = vals[k].val
<1>10. \A num \in 0..N : P(num)
  <2> DEFINE T == {num \in Nat : num <= N => P(num)}
  <2>1. 0 \in T
    <3>1. v[0].s = Decoder(W) /\ v[0].got = <<>>
      BY <1>5 DEF FirstOf
    <3>2. Shadows(u[0], v[0].s, W)
      BY <1>5, <3>1, FirstCoders
    <3> DEFINE g == v[0].got
    <3>3. g = <<>>
      BY <3>1
    <3> HIDE DEF g
    <3>4. g \in Seq(Nat) /\ Len(g) = 0 /\ \A k \in 1..0 : g[k] = vals[k].val
      BY <3>3
    <3>5. P(0)
      BY <3>2, <3>4 DEF g
    <3> HIDE DEF P
    <3> QED BY <3>5
  <2>2. ASSUME NEW num \in Nat, num \in T PROVE num + 1 \in T
    <3> SUFFICES ASSUME num + 1 <= N PROVE P(num + 1)
      OBVIOUS
    <3> DEFINE p == num + 1
               b == v[num]
               now == CodeValue(b.s, vals[p], 0)
               more == Append(b.got, now.val)
    <3>1. num <= N /\ num \in 0..N /\ p \in 1..N /\ p \in 0..N /\ p - 1 = num
      BY <1>1
    <3>2. P(num)
      BY <2>2, <3>1
    <3>3. u[p] = CodeValue(u[num], vals[p], vals[p].val).s /\ v[p] = DecodeStep(b, vals[p])
      BY <1>5, <3>1
    <3>4. GoesOn(CodeValue(u[num], vals[p], vals[p].val).s, W) /\ BitEncoder(u[num])
      BY <1>6, <1>9, <3>1, <3>3
    <3>5. Shadows(u[p], now.s, W) /\ now.val = vals[p].val
      BY <1>1, <1>8, <3>1, <3>2, <3>3, <3>4, ValueReturns
    <3>6. v[p].s = now.s /\ v[p].got = more
      BY <3>3 DEF DecodeStep
    <3>7. now.val \in Nat
      BY <1>1, <3>1, <3>5
    <3>8. b.got \in Seq(Nat) /\ Len(b.got) = num /\ \A k \in 1..num : b.got[k] = vals[k].val
      BY <3>2
    <3> HIDE DEF b, now, P
    <3>9. more \in Seq(Nat) /\ Len(more) = p /\ \A k \in 1..p : more[k] = vals[k].val
      <4>1. more \in Seq(Nat) /\ Len(more) = num + 1 /\ more[num + 1] = now.val
            /\ \A k \in 1..num : more[k] = b.got[k]
        BY <3>7, <3>8, AppendProperties
      <4>2. ASSUME NEW k \in 1..p PROVE more[k] = vals[k].val
        <5> HIDE DEF more
        <5>1. CASE k = p
          BY <3>5, <4>1, <5>1
        <5>2. CASE k \in 1..num
          BY <3>8, <4>1, <5>2
        <5> QED BY <5>1, <5>2
      <4> QED BY <4>1, <4>2
    <3> HIDE DEF more
    <3> QED BY <3>5, <3>6, <3>9 DEF P
  <2>3. T = Nat
    <3> HIDE DEF P
    <3>1. T \in SUBSET Nat
      OBVIOUS
    <3> HIDE DEF T
    <3> QED BY <2>1, <2>2, <3>1, Induction
  <2> HIDE DEF P
  <2> QED BY <1>1, <2>3
<1>11. P(N)
  BY <1>1, <1>10
<1>12. Shadows(e, d.s, W) /\ d.got \in Seq(Nat) /\ Len(d.got) = N /\ \A k \in 1..N : d.got[k] = vals[k].val
  BY <1>2, <1>3, <1>11
<1> HIDE DEF P
<1>13. d.got = [k \in DOMAIN vals |-> vals[k].val]
  <2> DEFINE g == d.got
  <2>1. DOMAIN g = 1..N /\ g = [k \in DOMAIN g |-> g[k]]
    BY <1>12
  <2> HIDE DEF g
  <2>2. g = [k \in 1..N |-> vals[k].val]
    BY <1>12, <2>1 DEF g
  <2> QED BY <1>1, <2>2 DEF g
<1>14. d.s.low = e.low /\ d.s.rng = e.rng /\ d.s.prob = e.prob /\ d.s.words = SubSeq(W, Len(e.words) + 3, Len(W))
  BY <1>12 DEF Shadows
<1>15. d.s.words = <<>>
  <2>1. Len(e.words) \in Nat
    BY <1>7, LenProperties DEF BitEncoder
  <2> DEFINE m == Len(W)
  <2>2. Len(e.words) + 3 = m + 1 /\ m \in Nat
    BY <1>8, <2>1
  <2> HIDE DEF m
  <2>3. SubSeq(W, m + 1, m) = <<>>
    BY <2>2
  <2> QED BY <1>14, <2>2, <2>3 DEF m
<1>16. \A k \in DOMAIN W : W[k] \in 0..(Radix - 1)
  <2>1. DOMAIN W = 1..Len(W)
    BY <1>8, LenProperties
  <2> QED BY <1>8, <2>1, ElementOfSeq DEF StreamWords
<1>17. TreeBothWays(vals)[1] = e /\ TreeBothWays(vals)[2] = d
  BY <1>4
<1>18. W = Flushed(e)
  BY DEF W
<1> QED BY <1>13, <1>14, <1>15, <1>16, <1>17, <1>18

-----------------------------------------------------------------------------
(* The match of a deflate block.                                           *)

\* Powers of two.
LEMMA BitsAre ==
    /\ Bit[0] = 1 /\ Bit[1] = 2 /\ Bit[2] = 4 /\ Bit[3] = 8 /\ Bit[4] = 16 /\ Bit[5] = 32 /\ Bit[6] = 64
    /\ Bit[7] = 128 /\ Bit[8] = 256 /\ Bit[9] = 512 /\ Bit[10] = 1024 /\ Bit[11] = 2048
    /\ Bit[12] = 4096 /\ Bit[13] = 8192
<1> DEFINE u == CHOOSE f : Doubles(f, 15)
           b == [k \in 0..15 |-> <<1, 2, 4, 8, 16, 32, 64, 128, 256, 512, 1024, 2048, 4096, 8192, 16384, 32768>>[k + 1]]
<1>1. \A k \in 0..15 : b[k] = IF k = 0 THEN 1 ELSE 2 * b[k - 1]
  <2> SUFFICES ASSUME NEW k \in 0..15 PROVE b[k] = IF k = 0 THEN 1 ELSE 2 * b[k - 1]
    OBVIOUS
  <2> DEFINE s == <<1, 2, 4, 8, 16, 32, 64, 128, 256, 512, 1024, 2048, 4096, 8192, 16384, 32768>>
  <2>1. \A j \in 1..15 : s[j + 1] = 2 * s[j]
    OBVIOUS
  <2>2. s[1] = 1 /\ \A j \in 0..15 : b[j] = s[j + 1]
    OBVIOUS
  <2> HIDE DEF s, b
  <2>3. CASE k = 0
    BY <2>2, <2>3
  <2>4. CASE k \in 1..15
    <3>1. k - 1 \in 0..15 /\ (k - 1) + 1 = k
      BY <2>4
    <3> QED BY <2>1, <2>2, <2>4, <3>1
  <2> QED BY <2>3, <2>4
<1>2. b = [k \in 0..15 |-> b[k]]
  OBVIOUS
<1>3. Doubles(b, 15)
  <2> HIDE DEF b
  <2> QED BY <1>1, <1>2 DEF Doubles
<1>4. Doubles(u, 15)
  BY <1>3
<1>5. Bit = u
  BY DEF Bit, Doubles
<1> HIDE DEF u, b
<1>6. Bit[0] = 1 /\ \A k \in 1..15 : Bit[k] = 2 * Bit[k - 1]
  BY <1>4, <1>5 DEF Doubles
<1>7. Bit[1] = 2 /\ Bit[2] = 4 /\ Bit[3] = 8 /\ Bit[4] = 16 /\ Bit[5] = 32 /\ Bit[6] = 64
  BY <1>6
<1>8. Bit[7] = 128 /\ Bit[8] = 256 /\ Bit[9] = 512 /\ Bit[10] = 1024
  BY <1>6, <1>7
<1>9. Bit[11] = 2048 /\ Bit[12] = 4096 /\ Bit[13] = 8192
  BY <1>6, <1>8
<1> QED BY <1>6, <1>7, <1>8, <1>9

\* What is smaller is its own remainder.
LEMMA SmallRemainder ==
    ASSUME NEW a \in Nat, NEW m \in Nat, a < m
    PROVE  a % m = a
BY SMT

\* A symbol with room for the rest of its value gives it back.
LEMMA SplitReturns ==
    ASSUME NEW base, NEW extra, NEW value \in Nat, NEW N \in Nat,
           DOMAIN base = 1..N, Len(base) = N, \A k \in 1..N : base[k] \in Nat,
           \E k \in 1..N : value >= base[k] /\ (k < N => value < base[k + 1]),
           \A k \in 1..N : value >= base[k] /\ (k < N => value < base[k + 1])
               => Bit[extra[k]] \in Nat /\ value - base[k] < Bit[extra[k]]
    PROVE  Joined(Split(value, base, extra), base) = value
<1> DEFINE k == SymbolOf(value, base)
           m == Bit[extra[k]]
           rest == value - base[k]
<1>1. k \in 1..N /\ value >= base[k] /\ (k < N => value < base[k + 1])
  BY DEF SymbolOf
<1>2. Split(value, base, extra) = <<k, rest % m>>
  BY DEF Split
<1> HIDE DEF k
<1>3. m \in Nat /\ rest < m /\ base[k] \in Nat
  BY <1>1
<1>4. rest \in Nat
  BY <1>1, <1>3
<1> HIDE DEF m, rest
<1>5. rest % m = rest
  BY <1>3, <1>4, SmallRemainder
<1>6. base[k] + rest = value
  BY <1>3 DEF rest
<1> QED BY <1>2, <1>5, <1>6 DEF Joined

\* Lengths and distances come back from their symbols.
THEOREM MatchReturns ==
    /\ \A size \in 3..258 : Joined(Split(size, LenBase, LenExtra), LenBase) = size
    /\ \A dist \in Nat :
          dist >= 1 /\ dist <= 32768 => Joined(Split(dist, DistBase, DistExtra), DistBase) = dist
<1>1. ASSUME NEW size \in 3..258
      PROVE  Joined(Split(size, LenBase, LenExtra), LenBase) = size
  <2> DEFINE base == LenBase
             extra == LenExtra
  <2>1. DOMAIN base = 1..29 /\ Len(base) = 29 /\ \A k \in 1..29 : base[k] \in Nat
    BY DEF LenBase
  <2>2. \E k \in 1..29 : size >= base[k] /\ (k < 29 => size < base[k + 1])
    BY DEF LenBase
  <2>3. \A k \in 1..29 : size >= base[k] /\ (k < 29 => size < base[k + 1])
               => Bit[extra[k]] \in Nat /\ size - base[k] < Bit[extra[k]]
    BY BitsAre DEF LenBase, LenExtra
  <2> HIDE DEF base, extra
  <2>4. size \in Nat
    OBVIOUS
  <2>5. Joined(Split(size, base, extra), base) = size
    BY <2>1, <2>2, <2>3, <2>4, SplitReturns
  <2> QED BY <2>5 DEF base, extra
<1>2. ASSUME NEW dist \in Nat, dist >= 1, dist <= 32768
      PROVE  Joined(Split(dist, DistBase, DistExtra), DistBase) = dist
  <2> DEFINE base == DistBase
             extra == DistExtra
  <2>1. DOMAIN base = 1..30 /\ Len(base) = 30 /\ \A k \in 1..30 : base[k] \in Nat
    BY DEF DistBase
  <2>2. \E k \in 1..30 : dist >= base[k] /\ (k < 30 => dist < base[k + 1])
    BY <1>2 DEF DistBase
  <2>3. \A k \in 1..29 : Bit[extra[k]] \in Nat /\ base[k] + Bit[extra[k]] >= base[k + 1]
    <3>1. ASSUME NEW k \in 1..15
          PROVE  Bit[extra[k]] \in Nat /\ base[k] + Bit[extra[k]] >= base[k + 1]
      BY BitsAre DEF DistBase, DistExtra
    <3>2. ASSUME NEW k \in 16..29
          PROVE  Bit[extra[k]] \in Nat /\ base[k] + Bit[extra[k]] >= base[k + 1]
      BY BitsAre DEF DistBase, DistExtra
    <3>3. \A k \in 1..29 : k \in 1..15 \/ k \in 16..29
      OBVIOUS
    <3> HIDE DEF base, extra
    <3> QED BY <3>1, <3>2, <3>3
  <2>4. Bit[extra[30]] \in Nat /\ dist < base[30] + Bit[extra[30]]
    <3>1. base[30] = 24577 /\ extra[30] = 13
      BY DEF DistBase, DistExtra
    <3>2. Bit[13] = 8192
      BY BitsAre
    <3>3. Bit[extra[30]] = 8192
      BY <3>1, <3>2
    <3> HIDE DEF base, extra
    <3> QED BY <1>2, <3>1, <3>3
  <2> HIDE DEF base, extra
  <2>5. dist \in Nat
    OBVIOUS
  <2>6. \A k \in 1..30 : dist >= base[k] /\ (k < 30 => dist < base[k + 1])
               => Bit[extra[k]] \in Nat /\ dist - base[k] < Bit[extra[k]]
    <3> SUFFICES ASSUME NEW k \in 1..30, k < 30 => dist < base[k + 1]
                 PROVE  Bit[extra[k]] \in Nat /\ dist - base[k] < Bit[extra[k]]
      OBVIOUS
    <3>1. CASE k = 30
      BY <2>1, <2>4, <3>1
    <3>2. CASE k \in 1..29
      <4>1. base[k] \in Nat /\ base[k + 1] \in Nat
        BY <2>1, <3>2
      <4> QED BY <2>3, <3>2, <4>1
    <3> QED BY <3>1, <3>2
  <2>7. Joined(Split(dist, base, extra), base) = dist
    BY <2>1, <2>2, <2>5, <2>6, SplitReturns
  <2> QED BY <2>7 DEF base, extra
<1> QED BY <1>1, <1>2

-----------------------------------------------------------------------------
(* The code lengths as runs.                                               *)

\* Lengths and how often.
RunPairs == Nat \X Nat

\* So many times the same number.
Copies(c, v) == [k \in 1..c |-> v]

\* Copies make a sequence, and go on as such.
LEMMA CopiesAre ==
    ASSUME NEW S, NEW c \in Nat, NEW v \in S
    PROVE  /\ Copies(c, v) \in Seq(S) /\ Len(Copies(c, v)) = c
           /\ \A k \in 1..c : Copies(c, v)[k] = v
BY DEF Copies

\* Copies after copies.
LEMMA CopiesJoin ==
    ASSUME NEW S, NEW v \in S, NEW got \in Seq(S), NEW a \in Nat, NEW b \in Nat
    PROVE  (got \o Copies(a, v)) \o Copies(b, v) = got \o Copies(a + b, v)
<1> DEFINE x == Copies(a, v)
           y == Copies(b, v)
           z == Copies(a + b, v)
<1>1. /\ x \in Seq(S) /\ Len(x) = a /\ \A k \in 1..a : x[k] = v
      /\ y \in Seq(S) /\ Len(y) = b /\ \A k \in 1..b : y[k] = v
      /\ z \in Seq(S) /\ Len(z) = a + b /\ \A k \in 1..(a + b) : z[k] = v
  BY CopiesAre
<1> HIDE DEF x, y, z
<1>2. x \o y = z
  <2>1. x \o y \in Seq(S) /\ Len(x \o y) = a + b
        /\ \A k \in 1..(a + b) : (x \o y)[k] = IF k <= a THEN x[k] ELSE y[k - a]
    BY <1>1, ConcatProperties
  <2>2. \A k \in 1..(a + b) : (x \o y)[k] = v
    <3> SUFFICES ASSUME NEW k \in 1..(a + b) PROVE (x \o y)[k] = v
      OBVIOUS
    <3>1. k <= a => k \in 1..a
      OBVIOUS
    <3>2. ~ (k <= a) => k - a \in 1..b
      OBVIOUS
    <3> QED BY <1>1, <2>1, <3>1, <3>2
  <2> DEFINE w == x \o y
  <2> HIDE DEF w
  <2>3. w \in Seq(S) /\ Len(w) = a + b /\ \A k \in 1..(a + b) : w[k] = v
    BY <2>1, <2>2 DEF w
  <2>4. w = z
    BY <1>1, <2>3, SeqEqual
  <2> QED BY <2>4 DEF w
<1>3. (got \o x) \o y = got \o (x \o y)
  BY <1>1, ConcatAssociative
<1> QED BY <1>2, <1>3 DEF x, y, z

\* A reader makes these lengths of the runs, after others.
ExpandsTo(a, runs, b) ==
    \E f : f[0] = a /\ (\A k \in 1..Len(runs) : f[k] = More(f[k - 1], runs[k])) /\ f[Len(runs)] = b

\* No runs.
LEMMA ExpandsNone ==
    ASSUME NEW a
    PROVE  ExpandsTo(a, <<>>, a)
<1> DEFINE f == [k \in 0..0 |-> a]
<1>1. f[0] = a /\ Len(<<>>) = 0 /\ \A k \in 1..0 : f[k] = More(f[k - 1], <<>>[k])
  OBVIOUS
<1> QED BY <1>1 DEF ExpandsTo

\* One run.
LEMMA ExpandsOne ==
    ASSUME NEW a, NEW run
    PROVE  ExpandsTo(a, <<run>>, More(a, run))
<1> DEFINE f == [k \in 0..1 |-> IF k = 0 THEN a ELSE More(a, run)]
           s == <<run>>
<1>1. f[0] = a /\ f[1] = More(a, run) /\ Len(s) = 1 /\ s[1] = run
  OBVIOUS
<1> HIDE DEF f, s
<1>2. \A k \in 1..Len(s) : f[k] = More(f[k - 1], s[k])
  BY <1>1
<1>3. ExpandsTo(a, s, More(a, run))
  BY <1>1, <1>2 DEF ExpandsTo
<1> QED BY <1>3 DEF s

\* Runs after runs.
LEMMA ExpandsOn ==
    ASSUME NEW a, NEW b, NEW c, NEW r \in Seq(RunPairs), NEW s \in Seq(RunPairs),
           ExpandsTo(a, r, b), ExpandsTo(b, s, c)
    PROVE  ExpandsTo(a, r \o s, c)
<1> DEFINE R == Len(r)
           S == Len(s)
           t == r \o s
<1>1. PICK f : f[0] = a /\ (\A k \in 1..R : f[k] = More(f[k - 1], r[k])) /\ f[R] = b
  BY DEF ExpandsTo
<1>2. PICK g : g[0] = b /\ (\A k \in 1..S : g[k] = More(g[k - 1], s[k])) /\ g[S] = c
  BY DEF ExpandsTo
<1>3. R \in Nat /\ S \in Nat
  BY LenProperties
<1>4. Len(t) = R + S /\ \A k \in 1..(R + S) : t[k] = IF k <= R THEN r[k] ELSE s[k - R]
  BY ConcatProperties
<1> HIDE DEF R, S, t
<1> DEFINE h == [k \in 0..(R + S) |-> IF k <= R THEN f[k] ELSE g[k - R]]
<1>5. (\A k \in 0..R : h[k] = f[k]) /\ \A k \in 0..S : h[R + k] = g[k]
  <2>1. \A k \in 0..R : h[k] = f[k]
    BY <1>3
  <2>2. ASSUME NEW k \in 0..S PROVE h[R + k] = g[k]
    <3>1. CASE k = 0
      BY <1>1, <1>2, <1>3, <3>1
    <3>2. CASE k # 0
      <4>1. R + k \in 0..(R + S) /\ ~ (R + k <= R) /\ (R + k) - R = k
        BY <1>3, <3>2
      <4> QED BY <4>1
    <3> QED BY <3>1, <3>2
  <2> QED BY <2>1, <2>2
<1> HIDE DEF h
<1>6. \A k \in 1..(R + S) : h[k] = More(h[k - 1], t[k])
  <2> SUFFICES ASSUME NEW k \in 1..(R + S) PROVE h[k] = More(h[k - 1], t[k])
    OBVIOUS
  <2>1. CASE k <= R
    <3>1. k \in 1..R /\ k \in 0..R /\ k - 1 \in 0..R
      BY <1>3, <2>1
    <3>2. h[k] = f[k] /\ h[k - 1] = f[k - 1] /\ t[k] = r[k]
      BY <1>4, <1>5, <2>1, <3>1
    <3> QED BY <1>1, <3>1, <3>2
  <2>2. CASE ~ (k <= R)
    <3> DEFINE j == k - R
    <3>1. j \in 1..S /\ j \in 0..S /\ j - 1 \in 0..S /\ R + j = k /\ R + (j - 1) = k - 1
      BY <1>3, <2>2
    <3>2. t[k] = s[j]
      BY <1>4, <2>2
    <3> HIDE DEF j
    <3>3. h[k] = g[j] /\ h[k - 1] = g[j - 1]
      BY <1>5, <3>1
    <3> QED BY <1>2, <3>1, <3>2, <3>3
  <2> QED BY <2>1, <2>2
<1>7. h[0] = a /\ h[R + S] = c
  <2>1. 0 \in 0..R /\ S \in 0..S
    BY <1>3
  <2> QED BY <1>1, <1>2, <1>5, <2>1
<1>8. Len(t) = R + S
  BY <1>4
<1>9. ExpandsTo(a, t, c)
  BY <1>6, <1>7, <1>8 DEF ExpandsTo
<1> QED BY <1>9 DEF t

\* What one run stands for.
LEMMA RunIs ==
    ASSUME NEW got
    PROVE  /\ \A r \in 11..138 : More(got, <<18, r - 11>>) = got \o Copies(r, 0)
           /\ \A r \in 3..10 : More(got, <<17, r - 3>>) = got \o Copies(r, 0)
           /\ \A r \in 3..6 : More(got, <<16, r - 3>>) = got \o Copies(r, got[Len(got)])
           /\ \A l \in 0..15 : More(got, <<l, 0>>) = got \o <<l>>
<1>1. ASSUME NEW r \in 11..138 PROVE More(got, <<18, r - 11>>) = got \o Copies(r, 0)
  <2>1. (r - 11) % 128 = r - 11 /\ (r - 11) + 11 = r
    OBVIOUS
  <2>2. More(got, <<18, r - 11>>) = got \o [i \in 1..(((r - 11) % 128) + 11) |-> 0]
    BY DEF More
  <2> QED BY <2>1, <2>2 DEF Copies
<1>2. ASSUME NEW r \in 3..10 PROVE More(got, <<17, r - 3>>) = got \o Copies(r, 0)
  <2>1. (r - 3) % 8 = r - 3 /\ (r - 3) + 3 = r
    OBVIOUS
  <2>2. More(got, <<17, r - 3>>) = got \o [i \in 1..(((r - 3) % 8) + 3) |-> 0]
    BY DEF More
  <2> QED BY <2>1, <2>2 DEF Copies
<1>3. ASSUME NEW r \in 3..6 PROVE More(got, <<16, r - 3>>) = got \o Copies(r, got[Len(got)])
  <2>1. (r - 3) % 4 = r - 3 /\ (r - 3) + 3 = r
    OBVIOUS
  <2>2. More(got, <<16, r - 3>>) = got \o [i \in 1..(((r - 3) % 4) + 3) |-> got[Len(got)]]
    BY DEF More
  <2> QED BY <2>1, <2>2 DEF Copies
<1>4. ASSUME NEW l \in 0..15 PROVE More(got, <<l, 0>>) = got \o <<l>>
  <2> DEFINE p == <<l, 0>>
  <2>1. p[1] = l /\ l # 16 /\ l # 17 /\ l # 18
    OBVIOUS
  <2> HIDE DEF p
  <2>2. More(got, p) = got \o <<p[1]>>
    BY <2>1 DEF More
  <2> QED BY <2>1, <2>2 DEF p
<1> QED BY <1>1, <1>2, <1>3, <1>4

\* The same length written so many times, without a repetition.
Plainly(c, l) == [k \in 1..c |-> <<l, 0>>]

\* Lengths, one by one.
LEMMA PlainlyExpands ==
    ASSUME NEW got \in Seq(Nat), NEW c \in Nat, NEW l \in 0..15
    PROVE  Plainly(c, l) \in Seq(RunPairs) /\ ExpandsTo(got, Plainly(c, l), got \o Copies(c, l))
<1> DEFINE s == Plainly(c, l)
           f == [k \in 0..c |-> got \o Copies(k, l)]
<1>1. s \in Seq(RunPairs) /\ Len(s) = c /\ \A k \in 1..c : s[k] = <<l, 0>>
  BY DEF Plainly, RunPairs
<1>2. f[0] = got
  <2>1. Copies(0, l) = <<>>
    BY DEF Copies
  <2>2. got \o <<>> = got
    OBVIOUS
  <2> QED BY <2>1, <2>2
<1>3. \A k \in 1..c : f[k] = More(f[k - 1], s[k])
  <2> SUFFICES ASSUME NEW k \in 1..c PROVE f[k] = More(f[k - 1], s[k])
    OBVIOUS
  <2>1. f[k] = got \o Copies(k, l) /\ f[k - 1] = got \o Copies(k - 1, l) /\ s[k] = <<l, 0>>
    BY <1>1
  <2>2. More(f[k - 1], <<l, 0>>) = f[k - 1] \o <<l>>
    BY RunIs
  <2>3. <<l>> = Copies(1, l)
    BY DEF Copies
  <2>4. (got \o Copies(k - 1, l)) \o Copies(1, l) = got \o Copies((k - 1) + 1, l)
    <3>1. k - 1 \in Nat /\ 1 \in Nat /\ l \in Nat
      OBVIOUS
    <3> QED BY <3>1, CopiesJoin
  <2>5. (k - 1) + 1 = k
    OBVIOUS
  <2> HIDE DEF f, s
  <2> QED BY <2>1, <2>2, <2>3, <2>4, <2>5
<1>4. f[c] = got \o Copies(c, l)
  OBVIOUS
<1> HIDE DEF f, s
<1>5. ExpandsTo(got, s, got \o Copies(c, l))
  BY <1>1, <1>2, <1>3, <1>4 DEF ExpandsTo
<1> QED BY <1>1, <1>5 DEF s

\* The same for numbers.
LEMMA NumbersJoin ==
    \A got \in Seq(Nat), v \in Nat, a \in Nat, b \in Nat :
        (got \o Copies(a, v)) \o Copies(b, v) = got \o Copies(a + b, v)
<1> SUFFICES ASSUME NEW got \in Seq(Nat), NEW v \in Nat, NEW a \in Nat, NEW b \in Nat
             PROVE  (got \o Copies(a, v)) \o Copies(b, v) = got \o Copies(a + b, v)
  OBVIOUS
<1> QED BY CopiesJoin

\* The lengths a run is split into.
LEMMA PlainNumbers ==
    \A c \in Nat, l \in 0..15 :
        /\ Plainly(c, l) \in Seq(RunPairs)
        /\ \A got \in Seq(Nat) : ExpandsTo(got, Plainly(c, l), got \o Copies(c, l))
<1> SUFFICES ASSUME NEW c \in Nat, NEW l \in 0..15
             PROVE  /\ Plainly(c, l) \in Seq(RunPairs)
                    /\ \A got \in Seq(Nat) : ExpandsTo(got, Plainly(c, l), got \o Copies(c, l))
  OBVIOUS
<1>1. ASSUME NEW got \in Seq(Nat)
      PROVE  Plainly(c, l) \in Seq(RunPairs) /\ ExpandsTo(got, Plainly(c, l), got \o Copies(c, l))
  BY PlainlyExpands
<1>2. Plainly(c, l) \in Seq(RunPairs)
  <2>1. <<>> \in Seq(Nat)
    OBVIOUS
  <2> QED BY <1>1, <2>1
<1> QED BY <1>1, <1>2

-----------------------------------------------------------------------------
(* Zeros.                                                                  *)

\* The runs of a number of zeros.
ZerosStep(u, k) ==
    CASE k >= 11 -> LET r == AtMost(k, 138) IN <<<<18, r - 11>>>> \o u[k - r]
      [] k \in 3..10 -> <<<<17, k - 3>>>>
      [] OTHER -> [i \in 1..k |-> <<0, 0>>]
\* Up to a number.
ZerosUpto(u, m) == u = [k \in 0..m |-> ZerosStep(u, k)]

\* Only what is shorter is asked for.
LEMMA ZerosFromShorter ==
    ASSUME NEW u, NEW h, NEW k \in Nat, \A j \in 0..(k - 1) : u[j] = h[j]
    PROVE  ZerosStep(u, k) = ZerosStep(h, k)
<1>1. CASE k >= 11
  <2> DEFINE r == AtMost(k, 138)
  <2>1. k - r \in 0..(k - 1)
    BY <1>1 DEF AtMost
  <2>2. u[k - r] = h[k - r]
    BY <2>1
  <2> QED BY <1>1, <2>2 DEF ZerosStep
<1>2. CASE ~ (k >= 11)
  BY <1>2 DEF ZerosStep
<1> QED BY <1>1, <1>2

\* There is such a function.
LEMMA ZerosExist ==
    ASSUME NEW N \in Nat
    PROVE  \E u : ZerosUpto(u, N)
<1> DEFINE T == {m \in Nat : \E u : ZerosUpto(u, m)}
<1>1. 0 \in T
  <2> DEFINE u == [k \in 0..0 |-> ZerosStep(<<>>, k)]
  <2>1. \A k \in 0..0 : ZerosStep(u, k) = ZerosStep(<<>>, k)
    <3> TAKE k \in 0..0
    <3>1. k \in Nat /\ \A j \in 0..(k - 1) : u[j] = <<>>[j]
      OBVIOUS
    <3> HIDE DEF u
    <3> QED BY <3>1, ZerosFromShorter
  <2>2. ZerosUpto(u, 0)
    BY <2>1 DEF ZerosUpto
  <2> QED BY <2>2
<1>2. ASSUME NEW m \in Nat, m \in T PROVE m + 1 \in T
  <2>1. PICK u : ZerosUpto(u, m)
    BY <1>2
  <2> DEFINE h == [k \in 0..(m + 1) |-> IF k <= m THEN u[k] ELSE ZerosStep(u, k)]
  <2>2. \A k \in 0..m : h[k] = u[k]
    OBVIOUS
  <2>3. h[m + 1] = ZerosStep(u, m + 1)
    OBVIOUS
  <2> HIDE DEF h
  <2>4. \A k \in 0..(m + 1) : h[k] = ZerosStep(h, k)
    <3> TAKE k \in 0..(m + 1)
    <3>1. k \in Nat /\ \A j \in 0..(k - 1) : u[j] = h[j]
      BY <2>2
    <3>2. ZerosStep(u, k) = ZerosStep(h, k)
      BY <3>1, ZerosFromShorter
    <3>3. CASE k = m + 1
      BY <2>3, <3>2, <3>3
    <3>4. CASE k \in 0..m
      <4>1. u[k] = ZerosStep(u, k)
        BY <2>1, <3>4 DEF ZerosUpto
      <4> QED BY <2>2, <3>2, <3>4, <4>1
    <3> QED BY <3>3, <3>4
  <2>5. h = [k \in 0..(m + 1) |-> h[k]]
    BY DEF h
  <2>6. ZerosUpto(h, m + 1)
    BY <2>4, <2>5 DEF ZerosUpto
  <2> QED BY <2>6
<1>3. T = Nat
  <2> HIDE DEF T
  <2>1. T \in SUBSET Nat
    BY DEF T
  <2> QED BY <1>1, <1>2, <2>1, Induction
<1> QED BY <1>3

\* A run of zeros is read as such.
LEMMA ZerosExpand ==
    ASSUME NEW N \in Nat
    PROVE  /\ Zeros(N) \in Seq(RunPairs)
           /\ \A got \in Seq(Nat) : ExpandsTo(got, Zeros(N), got \o Copies(N, 0))
<1> DEFINE z == CHOOSE u : ZerosUpto(u, N)
<1>1. Zeros(N) = z[N]
  BY DEF Zeros, ZerosUpto, ZerosStep
<1>2. ZerosUpto(z, N)
  BY ZerosExist
<1> HIDE DEF z
<1>3. \A k \in 0..N : z[k] = ZerosStep(z, k)
  BY <1>2 DEF ZerosUpto
<1> DEFINE Good(k) == /\ z[k] \in Seq(RunPairs)
                      /\ \A got \in Seq(Nat) : ExpandsTo(got, z[k], got \o Copies(k, 0))
           T == {m \in Nat : m <= N => \A k \in 0..m : Good(k)}
<1>4. ASSUME NEW k \in 0..N, \A j \in 0..(k - 1) : Good(j) PROVE Good(k)
  <2>1. CASE k >= 11
    <3> DEFINE r == AtMost(k, 138)
               s == << <<18, r - 11>> >>
               t == z[k - r]
    <3>1. r \in 11..138 /\ k - r \in 0..(k - 1) /\ r + (k - r) = k /\ r \in Nat /\ k - r \in Nat
      BY <2>1 DEF AtMost
    <3>2. z[k] = s \o t
      <4>1. ZerosStep(z, k) = LET q == AtMost(k, 138) IN << <<18, q - 11>> >> \o z[k - q]
        <5>1. k \notin 3..10
          BY <2>1
        <5> QED BY <2>1, <5>1, Zenon DEF ZerosStep
      <4>2. z[k] = ZerosStep(z, k)
        BY <1>3
      <4> QED BY <4>1, <4>2
    <3>3. Good(k - r)
      BY <1>4, <3>1
    <3>4. s \in Seq(RunPairs)
      BY <3>1 DEF RunPairs
    <3>5. z[k] \in Seq(RunPairs)
      BY <3>2, <3>3, <3>4
    <3>6. ASSUME NEW got \in Seq(Nat) PROVE ExpandsTo(got, z[k], got \o Copies(k, 0))
      <4>1. More(got, <<18, r - 11>>) = got \o Copies(r, 0)
        BY <3>1, RunIs
      <4>2. ExpandsTo(got, s, got \o Copies(r, 0))
        BY <4>1, ExpandsOne
      <4>3. got \o Copies(r, 0) \in Seq(Nat)
        <5>1. Copies(r, 0) \in Seq(Nat)
          BY <3>1, CopiesAre
        <5> QED BY <5>1
      <4>4. ExpandsTo(got \o Copies(r, 0), t, (got \o Copies(r, 0)) \o Copies(k - r, 0))
        BY <3>3, <4>3
      <4>5. (got \o Copies(r, 0)) \o Copies(k - r, 0) = got \o Copies(r + (k - r), 0)
        <5>1. \A a, b \in Nat : (got \o Copies(a, 0)) \o Copies(b, 0) = got \o Copies(a + b, 0)
          <6>1. 0 \in Nat
            OBVIOUS
          <6> QED BY <6>1, NumbersJoin, Zenon
        <5> HIDE DEF r
        <5> QED BY <3>1, <5>1
      <4>6. (got \o Copies(r, 0)) \o Copies(k - r, 0) = got \o Copies(k, 0)
        BY <3>1, <4>5
      <4> HIDE DEF s, t, r
      <4>7. t \in Seq(RunPairs)
        BY <3>3 DEF t
      <4>8. ExpandsTo(got, s \o t, got \o Copies(k, 0))
        BY <3>4, <4>2, <4>4, <4>6, <4>7, ExpandsOn
      <4> QED BY <3>2, <4>8
    <3> QED BY <3>5, <3>6
  <2>2. CASE k \in 3..10
    <3> DEFINE s == << <<17, k - 3>> >>
    <3>1. z[k] = s
      <4>1. ~ (k >= 11)
        BY <2>2
      <4>2. ZerosStep(z, k) = s
        BY <2>2, <4>1 DEF ZerosStep
      <4>3. z[k] = ZerosStep(z, k)
        BY <1>3
      <4> QED BY <4>2, <4>3
    <3>2. s \in Seq(RunPairs)
      BY <2>2 DEF RunPairs
    <3>3. ASSUME NEW got \in Seq(Nat) PROVE ExpandsTo(got, s, got \o Copies(k, 0))
      <4>1. More(got, <<17, k - 3>>) = got \o Copies(k, 0)
        BY <2>2, RunIs
      <4> QED BY <4>1, ExpandsOne
    <3> HIDE DEF s
    <3> QED BY <3>1, <3>2, <3>3
  <2>3. CASE ~ (k >= 11) /\ k \notin 3..10
    <3>1. z[k] = Plainly(k, 0)
      <4>1. ZerosStep(z, k) = Plainly(k, 0)
        BY <2>3 DEF ZerosStep, Plainly
      <4> QED BY <1>3, <4>1
    <3>2. k \in Nat /\ 0 \in 0..15
      OBVIOUS
    <3> DEFINE s == Plainly(k, 0)
    <3>3. s \in Seq(RunPairs) /\ \A got \in Seq(Nat) : ExpandsTo(got, s, got \o Copies(k, 0))
      BY <3>2, PlainNumbers, Zenon
    <3> HIDE DEF s
    <3>4. z[k] = s
      BY <3>1 DEF s
    <3> QED BY <3>3, <3>4
  <2> QED BY <2>1, <2>2, <2>3
<1> HIDE DEF Good
<1>5. 0 \in T
  <2>1. 0 \in 0..N /\ \A j \in 0..(0 - 1) : Good(j)
    OBVIOUS
  <2>2. Good(0)
    BY <1>4, <2>1
  <2> QED BY <2>2
<1>6. ASSUME NEW m \in Nat, m \in T PROVE m + 1 \in T
  <2>1. CASE m + 1 <= N
    <3>1. \A k \in 0..m : Good(k)
      BY <1>6, <2>1
    <3>2. Good(m + 1)
      <4>1. m + 1 \in 0..N /\ \A j \in 0..((m + 1) - 1) : Good(j)
        BY <2>1, <3>1
      <4> QED BY <1>4, <4>1
    <3>3. \A k \in 0..(m + 1) : Good(k)
      BY <3>1, <3>2
    <3> QED BY <3>3
  <2>2. CASE ~ (m + 1 <= N)
    BY <2>2
  <2> QED BY <2>1, <2>2
<1>7. T = Nat
  <2> HIDE DEF T
  <2>1. T \in SUBSET Nat
    BY DEF T
  <2> QED BY <1>5, <1>6, <2>1, Induction
<1>8. Good(N)
  BY <1>7
<1> QED BY <1>1, <1>8 DEF Good

-----------------------------------------------------------------------------
(* Repetitions.                                                            *)

\* The runs of a number of repeated lengths.
RepeatsStep(u, l, k) ==
    IF k >= 3 THEN LET r == AtMost(k, 6) IN <<<<16, r - 3>>>> \o u[k - r]
    ELSE [i \in 1..k |-> <<l, 0>>]
\* Up to a number.
RepeatsUpto(u, l, m) == u = [k \in 0..m |-> RepeatsStep(u, l, k)]

\* Only what is shorter is asked for.
LEMMA RepeatsFromShorter ==
    ASSUME NEW u, NEW h, NEW l, NEW k \in Nat, \A j \in 0..(k - 1) : u[j] = h[j]
    PROVE  RepeatsStep(u, l, k) = RepeatsStep(h, l, k)
<1>1. CASE k >= 3
  <2> DEFINE r == AtMost(k, 6)
  <2>1. k - r \in 0..(k - 1)
    BY <1>1 DEF AtMost
  <2>2. u[k - r] = h[k - r]
    BY <2>1
  <2> QED BY <1>1, <2>2 DEF RepeatsStep
<1>2. CASE ~ (k >= 3)
  BY <1>2 DEF RepeatsStep
<1> QED BY <1>1, <1>2

\* There is such a function.
LEMMA RepeatsExist ==
    ASSUME NEW l, NEW N \in Nat
    PROVE  \E u : RepeatsUpto(u, l, N)
<1> DEFINE T == {m \in Nat : \E u : RepeatsUpto(u, l, m)}
<1>1. 0 \in T
  <2> DEFINE u == [k \in 0..0 |-> RepeatsStep(<<>>, l, k)]
  <2>1. \A k \in 0..0 : RepeatsStep(u, l, k) = RepeatsStep(<<>>, l, k)
    <3> TAKE k \in 0..0
    <3>1. k \in Nat /\ \A j \in 0..(k - 1) : u[j] = <<>>[j]
      OBVIOUS
    <3> HIDE DEF u
    <3> QED BY <3>1, RepeatsFromShorter
  <2>2. RepeatsUpto(u, l, 0)
    BY <2>1 DEF RepeatsUpto
  <2> QED BY <2>2
<1>2. ASSUME NEW m \in Nat, m \in T PROVE m + 1 \in T
  <2>1. PICK u : RepeatsUpto(u, l, m)
    BY <1>2
  <2> DEFINE h == [k \in 0..(m + 1) |-> IF k <= m THEN u[k] ELSE RepeatsStep(u, l, k)]
  <2>2. \A k \in 0..m : h[k] = u[k]
    OBVIOUS
  <2>3. h[m + 1] = RepeatsStep(u, l, m + 1)
    OBVIOUS
  <2> HIDE DEF h
  <2>4. \A k \in 0..(m + 1) : h[k] = RepeatsStep(h, l, k)
    <3> TAKE k \in 0..(m + 1)
    <3>1. k \in Nat /\ \A j \in 0..(k - 1) : u[j] = h[j]
      BY <2>2
    <3>2. RepeatsStep(u, l, k) = RepeatsStep(h, l, k)
      BY <3>1, RepeatsFromShorter
    <3>3. CASE k = m + 1
      BY <2>3, <3>2, <3>3
    <3>4. CASE k \in 0..m
      <4>1. u[k] = RepeatsStep(u, l, k)
        BY <2>1, <3>4 DEF RepeatsUpto
      <4> QED BY <2>2, <3>2, <3>4, <4>1
    <3> QED BY <3>3, <3>4
  <2>5. h = [k \in 0..(m + 1) |-> h[k]]
    BY DEF h
  <2>6. RepeatsUpto(h, l, m + 1)
    BY <2>4, <2>5 DEF RepeatsUpto
  <2> QED BY <2>6
<1>3. T = Nat
  <2> HIDE DEF T
  <2>1. T \in SUBSET Nat
    BY DEF T
  <2> QED BY <1>1, <1>2, <2>1, Induction
<1> QED BY <1>3

\* Lengths that end with l, and go on with it.
EndsWith(got, l) == got \in Seq(Nat) /\ got # <<>> /\ got[Len(got)] = l

\* The last of copies.
LEMMA CopiesEnd ==
    ASSUME NEW got, NEW l \in Nat, EndsWith(got, l), NEW c \in Nat
    PROVE  EndsWith(got \o Copies(c, l), l)
<1> DEFINE x == Copies(c, l)
           t == got \o x
<1>1. x \in Seq(Nat) /\ Len(x) = c /\ \A k \in 1..c : x[k] = l
  BY CopiesAre
<1> HIDE DEF x
<1>2. got \in Seq(Nat) /\ Len(got) \in Nat /\ Len(got) # 0 /\ got[Len(got)] = l
  BY DEF EndsWith
<1>3. t \in Seq(Nat) /\ Len(t) = Len(got) + c
      /\ \A k \in 1..(Len(got) + c) : t[k] = IF k <= Len(got) THEN got[k] ELSE x[k - Len(got)]
  BY <1>1, <1>2, ConcatProperties
<1>4. t[Len(t)] = l
  <2>1. CASE c = 0
    BY <1>2, <1>3, <2>1
  <2>2. CASE c # 0
    <3>1. Len(t) \in 1..(Len(got) + c) /\ ~ (Len(t) <= Len(got)) /\ Len(t) - Len(got) = c /\ c \in 1..c
      BY <1>2, <1>3, <2>2
    <3>2. t[Len(t)] = x[c]
      BY <1>3, <3>1
    <3> QED BY <1>1, <3>1, <3>2
  <2> QED BY <2>1, <2>2
<1>5. t # <<>>
  BY <1>2, <1>3
<1> HIDE DEF t
<1>6. EndsWith(t, l)
  BY <1>3, <1>4, <1>5 DEF EndsWith
<1> QED BY <1>6 DEF t, x

\* Repetitions of the last length are read as such.
LEMMA RepeatsExpand ==
    ASSUME NEW l \in 0..15, NEW N \in Nat
    PROVE  /\ Repeats(l, N) \in Seq(RunPairs)
           /\ \A got : EndsWith(got, l) => ExpandsTo(got, Repeats(l, N), got \o Copies(N, l))
<1> DEFINE z == CHOOSE u : RepeatsUpto(u, l, N)
<1>1. Repeats(l, N) = z[N]
  BY DEF Repeats, RepeatsUpto, RepeatsStep
<1>2. RepeatsUpto(z, l, N)
  BY RepeatsExist
<1> HIDE DEF z
<1>3. \A k \in 0..N : z[k] = RepeatsStep(z, l, k)
  BY <1>2 DEF RepeatsUpto
<1> DEFINE Good(k) == /\ z[k] \in Seq(RunPairs)
                      /\ \A got : EndsWith(got, l) => ExpandsTo(got, z[k], got \o Copies(k, l))
           T == {m \in Nat : m <= N => \A k \in 0..m : Good(k)}
<1>4. ASSUME NEW k \in 0..N, \A j \in 0..(k - 1) : Good(j) PROVE Good(k)
  <2>1. CASE k >= 3
    <3> DEFINE r == AtMost(k, 6)
               s == << <<16, r - 3>> >>
               t == z[k - r]
    <3>1. r \in 3..6 /\ k - r \in 0..(k - 1) /\ r + (k - r) = k /\ r \in Nat /\ k - r \in Nat
      BY <2>1 DEF AtMost
    <3>2. z[k] = s \o t
      <4>1. RepeatsStep(z, l, k) = s \o t
        BY <2>1, Zenon DEF RepeatsStep
      <4>2. z[k] = RepeatsStep(z, l, k)
        BY <1>3
      <4> QED BY <4>1, <4>2
    <3>3. Good(k - r)
      BY <1>4, <3>1
    <3>4. s \in Seq(RunPairs)
      BY <3>1 DEF RunPairs
    <3>5. z[k] \in Seq(RunPairs)
      BY <3>2, <3>3, <3>4
    <3>6. ASSUME NEW got, EndsWith(got, l) PROVE ExpandsTo(got, z[k], got \o Copies(k, l))
      <4>1. More(got, <<16, r - 3>>) = got \o Copies(r, l)
        <5>1. got[Len(got)] = l
          BY <3>6 DEF EndsWith
        <5> HIDE DEF r
        <5> QED BY <3>1, <5>1, RunIs
      <4>2. ExpandsTo(got, s, got \o Copies(r, l))
        BY <4>1, ExpandsOne
      <4>3. EndsWith(got \o Copies(r, l), l) /\ got \in Seq(Nat)
        <5>1. l \in Nat
          OBVIOUS
        <5>2. got \in Seq(Nat)
          BY <3>6 DEF EndsWith
        <5> HIDE DEF r
        <5> QED BY <3>1, <3>6, <5>1, <5>2, CopiesEnd
      <4>4. ExpandsTo(got \o Copies(r, l), t, (got \o Copies(r, l)) \o Copies(k - r, l))
        BY <3>3, <4>3
      <4>5. (got \o Copies(r, l)) \o Copies(k - r, l) = got \o Copies(r + (k - r), l)
        <5>1. l \in Nat
          OBVIOUS
        <5> HIDE DEF r
        <5> QED BY <3>1, <4>3, <5>1, NumbersJoin
      <4>6. (got \o Copies(r, l)) \o Copies(k - r, l) = got \o Copies(k, l)
        BY <3>1, <4>5
      <4> HIDE DEF s, t, r
      <4>7. t \in Seq(RunPairs)
        BY <3>3 DEF t
      <4>8. ExpandsTo(got, s \o t, got \o Copies(k, l))
        BY <3>4, <4>2, <4>4, <4>6, <4>7, ExpandsOn
      <4> QED BY <3>2, <4>8
    <3> QED BY <3>5, <3>6
  <2>2. CASE ~ (k >= 3)
    <3>1. z[k] = Plainly(k, l)
      <4>1. RepeatsStep(z, l, k) = Plainly(k, l)
        BY <2>2 DEF RepeatsStep, Plainly
      <4> QED BY <1>3, <4>1
    <3> DEFINE s == Plainly(k, l)
    <3>2. s \in Seq(RunPairs) /\ \A got \in Seq(Nat) : ExpandsTo(got, s, got \o Copies(k, l))
      <4>1. k \in Nat
        OBVIOUS
      <4> QED BY <4>1, PlainNumbers
    <3> HIDE DEF s
    <3>3. z[k] = s
      BY <3>1 DEF s
    <3>4. \A got : EndsWith(got, l) => ExpandsTo(got, s, got \o Copies(k, l))
      BY <3>2 DEF EndsWith
    <3> QED BY <3>2, <3>3, <3>4
  <2> QED BY <2>1, <2>2
<1> HIDE DEF Good
<1>5. 0 \in T
  <2>1. 0 \in 0..N /\ \A j \in 0..(0 - 1) : Good(j)
    OBVIOUS
  <2>2. Good(0)
    BY <1>4, <2>1
  <2> QED BY <2>2
<1>6. ASSUME NEW m \in Nat, m \in T PROVE m + 1 \in T
  <2>1. CASE m + 1 <= N
    <3>1. \A k \in 0..m : Good(k)
      BY <1>6, <2>1
    <3>2. Good(m + 1)
      <4>1. m + 1 \in 0..N /\ \A j \in 0..((m + 1) - 1) : Good(j)
        BY <2>1, <3>1
      <4> QED BY <1>4, <4>1
    <3>3. \A k \in 0..(m + 1) : Good(k)
      BY <3>1, <3>2
    <3> QED BY <3>3
  <2>2. CASE ~ (m + 1 <= N)
    BY <2>2
  <2> QED BY <2>1, <2>2
<1>7. T = Nat
  <2> HIDE DEF T
  <2>1. T \in SUBSET Nat
    BY DEF T
  <2> QED BY <1>5, <1>6, <2>1, Induction
<1>8. Good(N)
  BY <1>7
<1> QED BY <1>1, <1>8 DEF Good

\* The length at i is repeated from there on.
LEMMA SameIs ==
    ASSUME NEW S, NEW lens \in Seq(S), NEW i \in 1..Len(lens)
    PROVE  /\ Same(lens, i) \in 1..(Len(lens) - i + 1)
           /\ \A k \in i..(i + Same(lens, i) - 1) : lens[k] = lens[i]
<1> DEFINE N == Len(lens)
           T == {c \in Nat : c >= 1 /\ c <= N - i + 1 /\ (i + c <= N => lens[i + c] # lens[i])}
           Is(c) == (\A k \in i..(i + c - 1) : lens[k] = lens[i]) /\ (i + c <= N => lens[i + c] # lens[i])
<1>1. N \in Nat
  OBVIOUS
<1> HIDE DEF N
<1>2. i \in 1..N
  BY DEF N
<1>3. N - i + 1 \in T
  BY <1>1, <1>2
<1>4. T \in SUBSET Nat
  OBVIOUS
<1>5. PICK c \in T : \A k \in T : c <= k
  <2> HIDE DEF T
  <2> QED BY <1>3, <1>4, LeastOf
<1>6. c \in Nat /\ c >= 1 /\ c <= N - i + 1 /\ (i + c <= N => lens[i + c] # lens[i])
  OBVIOUS
<1>7. \A k \in i..(i + c - 1) : lens[k] = lens[i]
  <2> SUFFICES ASSUME NEW k \in i..(i + c - 1), k # i PROVE lens[k] = lens[i]
    OBVIOUS
  <2> DEFINE d == k - i
  <2>1. d \in Nat /\ d >= 1 /\ ~ (c <= d) /\ d <= N - i + 1 /\ i + d = k
    BY <1>1, <1>2, <1>6
  <2>2. d \notin T
    BY <1>5, <2>1
  <2> QED BY <2>1, <2>2
<1>8. c \in 1..(N - i + 1) /\ Is(c)
  BY <1>1, <1>2, <1>6, <1>7
<1>9. Same(lens, i) = CHOOSE x \in 1..(N - i + 1) : Is(x)
  BY DEF Same, N
<1> HIDE DEF Is, T
<1>10. Same(lens, i) \in 1..(N - i + 1) /\ Is(Same(lens, i))
  BY <1>8, <1>9
<1> QED BY <1>10 DEF Is, N

\* The runs for one repeated length.
LEMMA RunFromExpands ==
    ASSUME NEW lens \in Seq(0..15), NEW i \in 1..Len(lens)
    PROVE  /\ RunFrom(lens, i) \in Seq(RunPairs)
           /\ \A got \in Seq(Nat) : ExpandsTo(got, RunFrom(lens, i), got \o Copies(Same(lens, i), lens[i]))
<1> DEFINE c == Same(lens, i)
           l == lens[i]
<1>1. c \in Nat /\ c - 1 \in Nat /\ l \in 0..15 /\ l \in Nat
  BY SameIs
<1>2. CASE l = 0
  <2>1. RunFrom(lens, i) = Zeros(c)
    BY <1>2 DEF RunFrom
  <2>2. /\ Zeros(c) \in Seq(RunPairs)
        /\ \A got \in Seq(Nat) : ExpandsTo(got, Zeros(c), got \o Copies(c, 0))
    <3> HIDE DEF c
    <3> QED BY <1>1, ZerosExpand
  <2> HIDE DEF c, l
  <2>3. \A got \in Seq(Nat) : ExpandsTo(got, RunFrom(lens, i), got \o Copies(c, l))
    BY <1>2, <2>1, <2>2
  <2>4. RunFrom(lens, i) \in Seq(RunPairs)
    BY <2>1, <2>2
  <2> QED BY <2>3, <2>4 DEF c, l
<1>3. CASE l # 0
  <2> DEFINE s == << <<l, 0>> >>
             t == Repeats(l, c - 1)
  <2>1. RunFrom(lens, i) = s \o t
    BY <1>3 DEF RunFrom
  <2>2. s \in Seq(RunPairs)
    BY <1>1 DEF RunPairs
  <2> HIDE DEF c, l
  <2>3. /\ t \in Seq(RunPairs)
        /\ \A got : EndsWith(got, l) => ExpandsTo(got, t, got \o Copies(c - 1, l))
    BY <1>1, RepeatsExpand
  <2>4. ASSUME NEW got \in Seq(Nat) PROVE ExpandsTo(got, s \o t, got \o Copies(c, l))
    <3> DEFINE one == got \o Copies(1, l)
    <3>1. More(got, <<l, 0>>) = one
      <4>1. More(got, <<l, 0>>) = got \o <<l>>
        BY <1>1, RunIs
      <4>2. <<l>> = Copies(1, l)
        BY DEF Copies
      <4> QED BY <4>1, <4>2
    <3>2. ExpandsTo(got, s, one)
      BY <3>1, ExpandsOne
    <3>3. EndsWith(one, l)
      <4> DEFINE x == Copies(1, l)
      <4>1. x \in Seq(Nat) /\ Len(x) = 1 /\ x[1] = l
        <5>1. 1 \in Nat /\ 1 \in 1..1
          OBVIOUS
        <5> QED BY <1>1, <5>1, CopiesAre
      <4> HIDE DEF x
      <4>2. Len(got) \in Nat
        OBVIOUS
      <4>3. got \o x \in Seq(Nat) /\ Len(got \o x) = Len(got) + 1 /\ (got \o x)[Len(got) + 1] = x[1]
        <5>1. /\ got \o x \in Seq(Nat) /\ Len(got \o x) = Len(got) + Len(x)
              /\ \A k \in 1..(Len(got) + Len(x)) :
                    (got \o x)[k] = IF k <= Len(got) THEN got[k] ELSE x[k - Len(got)]
          BY <4>1, ConcatProperties
        <5>2. Len(got) + 1 \in 1..(Len(got) + 1) /\ ~ (Len(got) + 1 <= Len(got)) /\ (Len(got) + 1) - Len(got) = 1
          BY <4>2
        <5> QED BY <4>1, <5>1, <5>2
      <4>4. got \o x # <<>>
        BY <4>2, <4>3
      <4>5. EndsWith(got \o x, l)
        BY <4>1, <4>3, <4>4 DEF EndsWith
      <4> QED BY <4>5 DEF x
    <3> HIDE DEF s, t
    <3>4. ExpandsTo(one, t, one \o Copies(c - 1, l))
      BY <2>3, <3>3
    <3>5. one \o Copies(c - 1, l) = got \o Copies(c, l)
      <4>1. (got \o Copies(1, l)) \o Copies(c - 1, l) = got \o Copies(1 + (c - 1), l)
        <5>1. 1 \in Nat
          OBVIOUS
        <5> QED BY <1>1, <5>1, NumbersJoin
      <4>2. 1 + (c - 1) = c
        BY <1>1
      <4> QED BY <4>1, <4>2
    <3> HIDE DEF one
    <3>6. ExpandsTo(got, s \o t, one \o Copies(c - 1, l))
      BY <2>2, <2>3, <3>2, <3>4, ExpandsOn
    <3> QED BY <3>5, <3>6
  <2>5. s \o t \in Seq(RunPairs)
    <3> HIDE DEF s, t
    <3> QED BY <2>2, <2>3
  <2> HIDE DEF s, t
  <2> QED BY <2>1, <2>4, <2>5 DEF c, l
<1> QED BY <1>2, <1>3

-----------------------------------------------------------------------------
(* All runs.                                                               *)

\* The runs from a length on.
RunsStep(u, lens, i) == IF i > Len(lens) THEN <<>> ELSE RunFrom(lens, i) \o u[i + Same(lens, i)]
RunsDown(u, lens, low) == u = [i \in low..(Len(lens) + 1) |-> RunsStep(u, lens, i)]

\* From the last length to the first.
LEMMA RunsFromBehind ==
    ASSUME NEW lens \in Seq(0..15), NEW u, NEW h, NEW i \in Nat, i >= 1, i <= Len(lens) + 1,
           \A j \in (i + 1)..(Len(lens) + 1) : u[j] = h[j]
    PROVE  RunsStep(u, lens, i) = RunsStep(h, lens, i)
<1> DEFINE N == Len(lens)
           j == i + Same(lens, i)
<1>1. N \in Nat
  OBVIOUS
<1>2. CASE i <= N
  <2>1. i \in 1..N
    BY <1>1, <1>2
  <2>2. Same(lens, i) \in 1..(N - i + 1)
    BY <2>1, SameIs
  <2>3. j \in (i + 1)..(N + 1)
    BY <1>1, <2>1, <2>2
  <2>4. u[j] = h[j]
    BY <2>3
  <2> QED BY <1>1, <1>2, <2>4 DEF RunsStep
<1>3. CASE ~ (i <= N)
  BY <1>1, <1>3 DEF RunsStep
<1> QED BY <1>2, <1>3

\* There is such a function.
LEMMA RunsExist ==
    ASSUME NEW lens \in Seq(0..15)
    PROVE  \E u : RunsDown(u, lens, 1)
<1> DEFINE N == Len(lens)
           T == {m \in Nat : m <= N => \E u : RunsDown(u, lens, N + 1 - m)}
<1>0. N \in Nat
  OBVIOUS
<1>1. 0 \in T
  <2> DEFINE u == [i \in (N + 1)..(N + 1) |-> <<>>]
  <2>1. \A i \in (N + 1)..(N + 1) : RunsStep(u, lens, i) = <<>>
    BY <1>0 DEF RunsStep
  <2>2. RunsDown(u, lens, N + 1)
    BY <2>1 DEF RunsDown
  <2>3. N + 1 - 0 = N + 1
    BY <1>0
  <2> QED BY <2>2, <2>3
<1>2. ASSUME NEW m \in Nat, m \in T PROVE m + 1 \in T
  <2> SUFFICES ASSUME m + 1 <= N PROVE \E u : RunsDown(u, lens, N + 1 - (m + 1))
    OBVIOUS
  <2> DEFINE low == N - m
  <2>0. low \in 1..N /\ N + 1 - (m + 1) = low /\ N + 1 - m = low + 1 /\ m <= N
    BY <1>0
  <2>1. PICK u : RunsDown(u, lens, low + 1)
    BY <1>2, <2>0
  <2> HIDE DEF low, N
  <2> DEFINE h == [i \in low..(N + 1) |-> IF i > low THEN u[i] ELSE RunsStep(u, lens, i)]
  <2>2. \A i \in (low + 1)..(N + 1) : h[i] = u[i]
    BY <1>0, <2>0
  <2>3. h[low] = RunsStep(u, lens, low)
    BY <1>0, <2>0
  <2>4. h = [i \in low..(N + 1) |-> h[i]]
    OBVIOUS
  <2> HIDE DEF h
  <2>5. \A i \in low..(N + 1) : h[i] = RunsStep(h, lens, i)
    <3> TAKE i \in low..(N + 1)
    <3>1. i \in Nat /\ i >= 1 /\ i <= N + 1 /\ \A j \in (i + 1)..(N + 1) : u[j] = h[j]
      BY <1>0, <2>0, <2>2
    <3>2. RunsStep(u, lens, i) = RunsStep(h, lens, i)
      BY <3>1, RunsFromBehind DEF N
    <3>3. CASE i = low
      BY <2>3, <3>2, <3>3
    <3>4. CASE i \in (low + 1)..(N + 1)
      <4>1. u[i] = RunsStep(u, lens, i)
        BY <2>1, <3>4 DEF RunsDown, N
      <4> QED BY <2>2, <3>2, <3>4, <4>1
    <3> QED BY <1>0, <2>0, <3>3, <3>4
  <2>6. RunsDown(h, lens, low)
    BY <2>4, <2>5 DEF RunsDown, N
  <2> QED BY <2>0, <2>6
<1>3. T = Nat
  <2> HIDE DEF T
  <2>1. T \in SUBSET Nat
    BY DEF T
  <2> QED BY <1>1, <1>2, <2>1, Induction
<1>4. N \in T /\ N + 1 - N = 1
  BY <1>0, <1>3
<1> QED BY <1>4

\* The first lengths.
Upto(lens, m) == [k \in 1..m |-> lens[k]]

\* What is read of the lengths goes on.
LEMMA UptoGoesOn ==
    ASSUME NEW lens \in Seq(0..15), NEW i \in 1..Len(lens)
    PROVE  /\ Upto(lens, i - 1) \in Seq(Nat)
           /\ Upto(lens, i - 1) \o Copies(Same(lens, i), lens[i]) = Upto(lens, (i + Same(lens, i)) - 1)
<1> DEFINE c == Same(lens, i)
           N == Len(lens)
           x == Upto(lens, i - 1)
           y == Copies(c, lens[i])
           z == Upto(lens, (i + c) - 1)
<1>1. N \in Nat /\ c \in 1..(N - i + 1) /\ \A k \in i..(i + c - 1) : lens[k] = lens[i]
  BY SameIs
<1>2. \A k \in 1..N : lens[k] \in Nat
  OBVIOUS
<1> HIDE DEF c, N
<1>3. i \in 1..N /\ c \in Nat
  BY <1>1 DEF N
<1>4. x \in Seq(Nat) /\ Len(x) = i - 1 /\ \A k \in 1..(i - 1) : x[k] = lens[k]
  BY <1>1, <1>2, <1>3 DEF Upto
<1>5. z \in Seq(Nat) /\ Len(z) = (i - 1) + c /\ \A k \in 1..((i - 1) + c) : z[k] = lens[k]
  <2>1. (i + c) - 1 \in Nat /\ (i + c) - 1 <= N /\ (i + c) - 1 = (i - 1) + c
    BY <1>1, <1>3
  <2> QED BY <1>1, <1>2, <1>3, <2>1 DEF Upto
<1>6. y \in Seq(Nat) /\ Len(y) = c /\ \A k \in 1..c : y[k] = lens[i]
  BY <1>2, <1>3, CopiesAre
<1> HIDE DEF x, y, z
<1>7. x \o y \in Seq(Nat) /\ Len(x \o y) = (i - 1) + c
      /\ \A k \in 1..((i - 1) + c) : (x \o y)[k] = IF k <= i - 1 THEN x[k] ELSE y[k - (i - 1)]
  <2>1. /\ x \o y \in Seq(Nat) /\ Len(x \o y) = Len(x) + Len(y)
        /\ \A k \in 1..(Len(x) + Len(y)) : (x \o y)[k] = IF k <= Len(x) THEN x[k] ELSE y[k - Len(x)]
    BY <1>4, <1>6, ConcatProperties
  <2>2. Len(x) = i - 1 /\ Len(y) = c
    BY <1>4, <1>6
  <2> QED BY <2>1, <2>2
<1>8. \A k \in 1..((i - 1) + c) : (x \o y)[k] = z[k]
  <2> SUFFICES ASSUME NEW k \in 1..((i - 1) + c) PROVE (x \o y)[k] = z[k]
    OBVIOUS
  <2>1. CASE k <= i - 1
    <3>1. k \in 1..(i - 1)
      BY <1>3, <2>1
    <3> QED BY <1>4, <1>5, <1>7, <2>1, <3>1
  <2>2. CASE ~ (k <= i - 1)
    <3>1. k - (i - 1) \in 1..c /\ k \in i..(i + c - 1)
      BY <1>3, <2>2
    <3> QED BY <1>1, <1>5, <1>6, <1>7, <2>2, <3>1
  <2> QED BY <2>1, <2>2
<1> DEFINE w == x \o y
<1>9. w \in Seq(Nat) /\ Len(w) = Len(z) /\ \A k \in 1..Len(z) : w[k] = z[k]
  BY <1>5, <1>7, <1>8
<1> HIDE DEF w
<1>10. w = z
  BY <1>5, <1>9, SeqEqual
<1> QED BY <1>4, <1>10 DEF w, x, y, z, c

\* The runs expand to the lengths.
LEMMA RunsExpand ==
    ASSUME NEW lens \in Seq(0..15)
    PROVE  Runs(lens) \in Seq(RunPairs) /\ ExpandsTo(<<>>, Runs(lens), lens)
<1> DEFINE N == Len(lens)
           u == CHOOSE f : RunsDown(f, lens, 1)
<1>1. Runs(lens) = u[1]
  BY DEF Runs, RunsDown, RunsStep
<1>2. RunsDown(u, lens, 1)
  BY RunsExist
<1>3. N \in Nat
  OBVIOUS
<1> HIDE DEF u, N
<1>4. \A i \in 1..(N + 1) : u[i] = RunsStep(u, lens, i)
  BY <1>2 DEF RunsDown, N
<1> DEFINE Good(i) == u[i] \in Seq(RunPairs) /\ ExpandsTo(Upto(lens, i - 1), u[i], lens)
           T == {m \in Nat : m <= N => \A i \in (N + 1 - m)..(N + 1) : Good(i)}
<1>5. Good(N + 1)
  <2>1. u[N + 1] = <<>>
    <3>1. N + 1 \in 1..(N + 1) /\ N + 1 > N
      BY <1>3
    <3>2. RunsStep(u, lens, N + 1) = <<>>
      BY <3>1 DEF RunsStep, N
    <3> QED BY <1>4, <3>1, <3>2
  <2>2. Upto(lens, N) = lens
    BY DEF Upto, N
  <2>3. (N + 1) - 1 = N
    BY <1>3
  <2>4. ExpandsTo(lens, <<>>, lens)
    BY ExpandsNone
  <2>5. <<>> \in Seq(RunPairs)
    OBVIOUS
  <2> QED BY <2>1, <2>2, <2>3, <2>4, <2>5
<1>6. ASSUME NEW i \in 1..N, \A j \in (i + 1)..(N + 1) : Good(j) PROVE Good(i)
  <2> DEFINE c == Same(lens, i)
             s == RunFrom(lens, i)
             t == u[i + c]
             a == Upto(lens, i - 1)
             b == Upto(lens, (i + c) - 1)
  <2>1. i \in 1..Len(lens)
    BY DEF N
  <2>2. c \in 1..(N - i + 1)
    BY <2>1, SameIs DEF N
  <2>3. u[i] = s \o t
    <3>1. ~ (i > Len(lens)) /\ i \in 1..(N + 1)
      BY <1>3 DEF N
    <3>2. RunsStep(u, lens, i) = s \o t
      BY <3>1 DEF RunsStep
    <3> QED BY <1>4, <3>1, <3>2
  <2>4. a \in Seq(Nat) /\ a \o Copies(c, lens[i]) = b
    BY <2>1, UptoGoesOn
  <2>5. s \in Seq(RunPairs) /\ ExpandsTo(a, s, b)
    <3>1. s \in Seq(RunPairs) /\ \A got \in Seq(Nat) : ExpandsTo(got, s, got \o Copies(c, lens[i]))
      BY <2>1, RunFromExpands
    <3> HIDE DEF s, a, b, c
    <3>2. ExpandsTo(a, s, a \o Copies(c, lens[i]))
      BY <2>4, <3>1
    <3> QED BY <2>4, <3>1, <3>2
  <2>6. Good(i + c)
    <3>1. i + c \in (i + 1)..(N + 1)
      BY <1>3, <2>2
    <3> QED BY <1>6, <3>1
  <2>7. t \in Seq(RunPairs) /\ ExpandsTo(b, t, lens)
    BY <2>6
  <2> HIDE DEF s, t, a, b, c
  <2>8. ExpandsTo(a, s \o t, lens)
    BY <2>5, <2>7, ExpandsOn
  <2>9. s \o t \in Seq(RunPairs)
    BY <2>5, <2>7
  <2> QED BY <2>3, <2>8, <2>9 DEF a
<1> HIDE DEF Good
<1>7. 0 \in T
  <2>1. \A i \in (N + 1 - 0)..(N + 1) : i = N + 1
    BY <1>3
  <2> QED BY <1>5, <2>1
<1>8. ASSUME NEW m \in Nat, m \in T PROVE m + 1 \in T
  <2> SUFFICES ASSUME m + 1 <= N PROVE \A i \in (N + 1 - (m + 1))..(N + 1) : Good(i)
    OBVIOUS
  <2> DEFINE i == N - m
  <2>1. i \in 1..N /\ N + 1 - (m + 1) = i /\ N + 1 - m = i + 1 /\ m <= N
    BY <1>3
  <2>2. \A j \in (i + 1)..(N + 1) : Good(j)
    BY <1>8, <2>1
  <2> HIDE DEF i
  <2>3. Good(i)
    BY <1>6, <2>1, <2>2
  <2>4. \A j \in i..(N + 1) : j = i \/ j \in (i + 1)..(N + 1)
    BY <1>3, <2>1
  <2> QED BY <2>1, <2>2, <2>3, <2>4
<1>9. T = Nat
  <2> HIDE DEF T
  <2>1. T \in SUBSET Nat
    BY DEF T
  <2> QED BY <1>7, <1>8, <2>1, Induction
<1>10. Good(1)
  <2>1. CASE N = 0
    BY <1>5, <2>1
  <2>2. CASE N # 0
    <3>1. N \in T
      <4> HIDE DEF T
      <4> QED BY <1>3, <1>9
    <3>2. (N + 1) - N = 1 /\ 1 \in 1..(N + 1)
      BY <1>3
    <3> QED BY <1>3, <3>1, <3>2
  <2> QED BY <2>1, <2>2
<1>11. Upto(lens, 1 - 1) = <<>>
  BY DEF Upto
<1> QED BY <1>1, <1>10, <1>11 DEF Good

\* The reader, run by run.
ExpandLoop(u, runs, m) == u = [k \in 0..m |-> IF k = 0 THEN <<>> ELSE More(u[k - 1], runs[k])]

\* There is such a function.
LEMMA ExpandLoopExists ==
    ASSUME NEW runs, NEW N \in Nat
    PROVE  \E u : ExpandLoop(u, runs, N)
<1> DEFINE T == {m \in Nat : \E u : ExpandLoop(u, runs, m)}
<1>1. 0 \in T
  <2> DEFINE u == [k \in 0..0 |-> <<>>]
  <2>1. ExpandLoop(u, runs, 0)
    BY DEF ExpandLoop
  <2> QED BY <2>1
<1>2. ASSUME NEW m \in Nat, m \in T PROVE m + 1 \in T
  <2>1. PICK u : ExpandLoop(u, runs, m)
    BY <1>2
  <2> DEFINE h == [k \in 0..(m + 1) |-> IF k <= m THEN u[k] ELSE More(u[m], runs[(m + 1)])]
  <2>2. \A k \in 0..m : h[k] = u[k]
    OBVIOUS
  <2>3. h[m + 1] = More(h[m], runs[(m + 1)])
    BY <2>2
  <2>4. \A k \in 0..(m + 1) : h[k] = IF k = 0 THEN <<>> ELSE More(h[k - 1], runs[k])
    <3> TAKE k \in 0..(m + 1)
    <3>1. CASE k = m + 1
      BY <2>3, <3>1
    <3>2. CASE k \in 0..m
      <4>1. u[k] = IF k = 0 THEN <<>> ELSE More(u[k - 1], runs[k])
        BY <2>1, <3>2 DEF ExpandLoop
      <4>2. k # 0 => u[k - 1] = h[k - 1]
        BY <2>2, <3>2
      <4> QED BY <2>2, <3>2, <4>1, <4>2
    <3> QED BY <3>1, <3>2
  <2> HIDE DEF h
  <2>5. h = [k \in 0..(m + 1) |-> h[k]]
    BY DEF h
  <2>6. ExpandLoop(h, runs, m + 1)
    BY <2>4, <2>5 DEF ExpandLoop
  <2> QED BY <2>6
<1>3. T = Nat
  <2> HIDE DEF T
  <2>1. T \in SUBSET Nat
    BY DEF T
  <2> QED BY <1>1, <1>2, <2>1, Induction
<1> QED BY <1>3

\* A reader has but one result.
LEMMA ExpandedIs ==
    ASSUME NEW runs \in Seq(RunPairs), NEW lens, ExpandsTo(<<>>, runs, lens)
    PROVE  Expanded(runs) = lens
<1> DEFINE N == Len(runs)
           u == CHOOSE g : ExpandLoop(g, runs, N)
<1>1. Expanded(runs) = u[N]
  BY DEF Expanded, ExpandLoop
<1>2. N \in Nat
  OBVIOUS
<1>3. ExpandLoop(u, runs, N)
  BY <1>2, ExpandLoopExists
<1>4. PICK f : f[0] = <<>> /\ (\A k \in 1..N : f[k] = More(f[k - 1], runs[k])) /\ f[N] = lens
  BY DEF ExpandsTo
<1> HIDE DEF u, N
<1>5. u[0] = <<>> /\ \A k \in 1..N : u[k] = More(u[k - 1], runs[k])
  BY <1>2, <1>3 DEF ExpandLoop
<1> DEFINE T == {k \in Nat : k <= N => u[k] = f[k]}
<1>6. T \in SUBSET Nat /\ 0 \in T
  BY <1>4, <1>5
<1>7. ASSUME NEW k \in Nat, k \in T PROVE k + 1 \in T
  <2> SUFFICES ASSUME k + 1 <= N PROVE u[k + 1] = f[k + 1]
    OBVIOUS
  <2>1. k + 1 \in 1..N /\ (k + 1) - 1 = k /\ k <= N
    BY <1>2
  <2>2. u[k] = f[k]
    BY <1>7, <2>1
  <2>3. u[k + 1] = More(u[k], runs[k + 1]) /\ f[k + 1] = More(f[k], runs[k + 1])
    BY <1>4, <1>5, <2>1
  <2> QED BY <2>2, <2>3
<1>8. T = Nat
  <2> HIDE DEF T
  <2> QED BY <1>6, <1>7, Induction
<1>9. u[N] = f[N]
  BY <1>2, <1>8
<1> QED BY <1>1, <1>4, <1>9

\* A reader gets the lengths back from their runs.
THEOREM RunsReturn ==
    ASSUME NEW lens \in Seq(0..15)
    PROVE  Expanded(Runs(lens)) = lens
BY RunsExpand, ExpandedIs

-----------------------------------------------------------------------------
(* The code words of a table.                                              *)

\* Tables of any frequencies.
Tables == [1..(NEntries - 1) -> {v \in Nat : v < TableSum}]

\* The largest of some numbers up to a bound.
LEMMA LargestOf ==
    ASSUME NEW b \in Nat, NEW S \in SUBSET (0..b), S # {}
    PROVE  Max(S) \in S /\ \A y \in S : y <= Max(S)
<1> DEFINE T == {d \in Nat : d <= b /\ b - d \in S}
<1>1. PICK x \in S : TRUE
  OBVIOUS
<1>2. x \in 0..b
  OBVIOUS
<1>3. b - x \in T /\ T \in SUBSET Nat
  BY <1>2
<1>4. PICK d \in T : \A k \in T : d <= k
  <2> HIDE DEF T
  <2> QED BY <1>3, LeastOf
<1>5. ASSUME NEW y \in S PROVE b - d >= y
  <2>1. y \in 0..b
    OBVIOUS
  <2>2. b - y \in T
    BY <2>1
  <2>3. d <= b - y
    BY <1>4, <2>2
  <2> QED BY <2>1, <2>3
<1>6. b - d \in S
  OBVIOUS
<1>7. \E m \in S : \A y \in S : m >= y
  BY <1>5, <1>6
<1>8. Max(S) \in S /\ \A y \in S : Max(S) >= y
  BY <1>7 DEF Max
<1>9. Max(S) \in 0..b /\ \A y \in S : y \in 0..b
  BY <1>8
<1> QED BY <1>8, <1>9

\* An entry is repeated at least once, and not behind the table.
LEMMA RunAtIs ==
    ASSUME NEW h \in Tables, NEW i \in 1..(NEntries - 1)
    PROVE  /\ RunAt(h, i) \in 1..(NEntries - i)
           /\ \A k \in i..(i + RunAt(h, i) - 1) : h[k] = h[i]
<1> DEFINE S == {len \in 1..(NEntries - i) : \A k \in i..(i + len - 1) : h[k] = h[i]}
<1>1. NEntries \in Nat /\ NEntries - i \in Nat /\ NEntries - i >= 1
  BY TableAssumption
<1>2. 1 \in S
  <2>1. \A k \in i..(i + 1 - 1) : k = i
    OBVIOUS
  <2> QED BY <1>1, <2>1
<1>3. S \in SUBSET (0..(NEntries - i))
  BY <1>1
<1>4. RunAt(h, i) = Max(S)
  BY DEF RunAt
<1>5. Max(S) \in S
  <2> HIDE DEF S
  <2> QED BY <1>1, <1>2, <1>3, LargestOf
<1> QED BY <1>4, <1>5

-----------------------------------------------------------------------------
(* The fields of a word.                                                   *)

\* What the four top bits choose.
ByTop(t, one, drops, two, three, four, run) ==
    CASE t \in 0..3 -> one
      [] t \in 4..7 -> drops
      [] t \in 8..11 -> two
      [] t \in 12..13 -> three
      [] t = 14 -> four
      [] OTHER -> run

\* The entry of a code word, by its top bits.
LEMMA ByTopIs ==
    ASSUME NEW t \in Int, NEW one, NEW drops, NEW two, NEW three, NEW four, NEW run
    PROVE  /\ t \in 0..3 => ByTop(t, one, drops, two, three, four, run) = one
           /\ t \in 4..7 => ByTop(t, one, drops, two, three, four, run) = drops
           /\ t \in 8..11 => ByTop(t, one, drops, two, three, four, run) = two
           /\ t \in 12..13 => ByTop(t, one, drops, two, three, four, run) = three
           /\ t = 14 => ByTop(t, one, drops, two, three, four, run) = four
           /\ t = 15 => ByTop(t, one, drops, two, three, four, run) = run
BY DEF ByTop

\* A word by its shape.
LEMMA EntriesAre ==
    ASSUME NEW w \in Nat, NEW p
    PROVE  LET top == w \div 4096
               first == (p - ((w \div 128) % 128)) % TableSum
           IN  /\ top \in 0..3 => Entries(w, p) = <<w>>
               /\ top \in 4..7 => Entries(w, p) = <<first, (first - ((w \div 1) % 128)) % TableSum>>
               /\ top \in 8..11 => Entries(w, p) = <<(w \div 128) % 128, (w \div 1) % 128>>
               /\ top \in 12..13 => Entries(w, p) = <<(w \div 256) % 32, (w \div 16) % 16, (w \div 1) % 16>>
               /\ top = 14 => Entries(w, p) = <<(w \div 512) % 8, (w \div 64) % 8, (w \div 8) % 8, (w \div 1) % 8>>
               /\ top = 15 => Entries(w, p) = [k \in 1..(((w \div 1) % 512) + 1) |-> (w \div 1024) % 4]
<1> DEFINE top == w \div 4096
           first == (p - ((w \div 128) % 128)) % TableSum
           one == <<w>>
           drops == <<first, (first - ((w \div 1) % 128)) % TableSum>>
           two == <<(w \div 128) % 128, (w \div 1) % 128>>
           three == <<(w \div 256) % 32, (w \div 16) % 16, (w \div 1) % 16>>
           four == <<(w \div 512) % 8, (w \div 64) % 8, (w \div 8) % 8, (w \div 1) % 8>>
           run == [k \in 1..(((w \div 1) % 512) + 1) |-> (w \div 1024) % 4]
           E == Entries(w, p)
<1>1. E = ByTop(top, one, drops, two, three, four, run)
  BY Zenon DEF Entries, ByTop
<1>2. top \in Int
  OBVIOUS
<1> SUFFICES /\ top \in 0..3 => E = one
             /\ top \in 4..7 => E = drops
             /\ top \in 8..11 => E = two
             /\ top \in 12..13 => E = three
             /\ top = 14 => E = four
             /\ top = 15 => E = run
  OBVIOUS
<1> HIDE DEF top, one, drops, two, three, four, run, E
<1> QED BY <1>1, <1>2, ByTopIs

\* The code word of a run.
RunOfEntries(v, r) == 61440 + v * 1024 + r
FourEntries(a, b, c, d) == 57344 + a * 512 + b * 64 + c * 8 + d
ThreeEntries(a, b, c) == 49152 + a * 256 + b * 16 + c
TwoEntries(a, b) == 32768 + a * 128 + b
TwoDrops(a, b) == 16384 + a * 128 + b

\* The code word of a run is read.
LEMMA RunWord ==
    ASSUME NEW v \in Nat, NEW r \in Nat, NEW p, NEW w,
           v < 4, r < 512, w = RunOfEntries(v, r)
    PROVE  w \in Nat /\ w <= 65535 /\ Entries(w, p) = [k \in 1..(r + 1) |-> v]
<1>0. w = 61440 + v * 1024 + r
  BY DEF RunOfEntries
<1>1. w \in Nat /\ w <= 65535
  BY <1>0
<1>2. w \div 4096 = 15 /\ (w \div 1) % 512 = r /\ (w \div 1024) % 4 = v
  BY <1>0
<1>3. Entries(w, p) = [k \in 1..(((w \div 1) % 512) + 1) |-> (w \div 1024) % 4]
  BY <1>1, <1>2, EntriesAre
<1>4. Entries(w, p) = [k \in 1..(r + 1) |-> v]
  BY <1>2, <1>3
<1> QED BY <1>1, <1>4

\* So is one of four entries.
LEMMA FourWord ==
    ASSUME NEW a \in Nat, NEW b \in Nat, NEW c \in Nat, NEW d \in Nat, NEW p, NEW w,
           a < 8, b < 8, c < 8, d < 8, w = FourEntries(a, b, c, d)
    PROVE  w \in Nat /\ w <= 65535 /\ Entries(w, p) = <<a, b, c, d>>
<1>0. w = 57344 + a * 512 + b * 64 + c * 8 + d
  BY DEF FourEntries
<1>1. w \in Nat /\ w <= 65535
  BY <1>0
<1>2. /\ w \div 4096 = 14
      /\ (w \div 512) % 8 = a /\ (w \div 64) % 8 = b /\ (w \div 8) % 8 = c /\ (w \div 1) % 8 = d
  BY <1>0
<1>3. Entries(w, p) = <<(w \div 512) % 8, (w \div 64) % 8, (w \div 8) % 8, (w \div 1) % 8>>
  <2>1. w \in Nat /\ w \div 4096 = 14
    BY <1>1, <1>2
  <2> QED BY <2>1, EntriesAre
<1>4. Entries(w, p) = <<a, b, c, d>>
  BY <1>2, <1>3
<1> QED BY <1>1, <1>4

\* Of three.
LEMMA ThreeWord ==
    ASSUME NEW a \in Nat, NEW b \in Nat, NEW c \in Nat, NEW p, NEW w,
           a < 32, b < 16, c < 16, w = ThreeEntries(a, b, c)
    PROVE  w \in Nat /\ w <= 65535 /\ Entries(w, p) = <<a, b, c>>
<1>0. w = 49152 + a * 256 + b * 16 + c
  BY DEF ThreeEntries
<1>1. w \in Nat /\ w <= 65535
  BY <1>0
<1>2. /\ w \div 4096 \in 12..13
      /\ (w \div 256) % 32 = a /\ (w \div 16) % 16 = b /\ (w \div 1) % 16 = c
  BY <1>0
<1>3. Entries(w, p) = <<(w \div 256) % 32, (w \div 16) % 16, (w \div 1) % 16>>
  <2>1. w \in Nat /\ w \div 4096 \in 12..13
    BY <1>1, <1>2
  <2> QED BY <2>1, EntriesAre
<1>4. Entries(w, p) = <<a, b, c>>
  BY <1>2, <1>3
<1> QED BY <1>1, <1>4

\* Of two.
LEMMA TwoWord ==
    ASSUME NEW a \in Nat, NEW b \in Nat, NEW p, NEW w,
           a < 128, b < 128, w = TwoEntries(a, b)
    PROVE  w \in Nat /\ w <= 65535 /\ Entries(w, p) = <<a, b>>
<1>0. w = 32768 + a * 128 + b
  BY DEF TwoEntries
<1>1. w \in Nat /\ w <= 65535
  BY <1>0
<1>2. /\ w \div 4096 \in 8..11
      /\ (w \div 128) % 128 = a /\ (w \div 1) % 128 = b
  BY <1>0
<1>3. Entries(w, p) = <<(w \div 128) % 128, (w \div 1) % 128>>
  <2>1. w \in Nat /\ w \div 4096 \in 8..11
    BY <1>1, <1>2
  <2> QED BY <2>1, EntriesAre
<1>4. Entries(w, p) = <<a, b>>
  BY <1>2, <1>3
<1> QED BY <1>1, <1>4

\* A difference taken and undone.
LEMMA DropReturns ==
    ASSUME NEW p \in Nat, NEW v \in Nat, p < TableSum, v < TableSum
    PROVE  (p - v) % TableSum \in Nat /\ (p - ((p - v) % TableSum)) % TableSum = v
BY DEF TableSum

\* What is left of an entry.
After(p, a) == (p - a) % TableSum

\* A code word of one entry below another.
LEMMA DropsWord ==
    ASSUME NEW a \in Nat, NEW b \in Nat, NEW p \in Nat, NEW x, NEW y, NEW w,
           a < 128, b < 128, w = TwoDrops(a, b),
           After(p, a) = x, After(x, b) = y
    PROVE  w \in Nat /\ w <= 65535 /\ Entries(w, p) = <<x, y>>
<1>0. w = 16384 + a * 128 + b
  BY DEF TwoDrops
<1>1. w \in Nat /\ w <= 65535
  BY <1>0
<1>2. /\ w \div 4096 \in 4..7
      /\ (w \div 128) % 128 = a /\ (w \div 1) % 128 = b
  BY <1>0
<1>3. Entries(w, p) = <<(p - ((w \div 128) % 128)) % TableSum,
                        (((p - ((w \div 128) % 128)) % TableSum) - ((w \div 1) % 128)) % TableSum>>
  BY <1>1, <1>2, EntriesAre
<1>4. (p - a) % TableSum = x /\ (x - b) % TableSum = y
  BY DEF After
<1>5. Entries(w, p) = <<x, y>>
  BY <1>2, <1>3, <1>4
<1> QED BY <1>1, <1>5

\* A code word of one entry.
LEMMA OneWord ==
    ASSUME NEW w \in Nat, NEW p, w < 16384
    PROVE  w <= 65535 /\ Entries(w, p) = <<w>>
<1>1. w \div 4096 \in 0..3 /\ w <= 65535
  OBVIOUS
<1>2. Entries(w, p) = <<w>>
  BY <1>1, EntriesAre
<1> QED BY <1>1, <1>2

-----------------------------------------------------------------------------
(* One word.                                                               *)

\* Some entries of a table.
Part(h, i, m) == [k \in 1..m |-> h[i + k - 1]]
PrevOf(h, i) == IF i = 1 THEN 0 ELSE h[i - 1]

\* What a word is good for: it is a word, has at least one entry and none behind
\* the table, and is read as these entries.
WordIsGood(h, i, c) ==
    /\ c.n \in 1..(NEntries - i) /\ c.word \in Nat /\ c.word <= 65535
    /\ Entries(c.word, PrevOf(h, i)) = Part(h, i, c.n)

\* The entries a code word stands for.
LEMMA EntryIs ==
    ASSUME NEW h \in Tables, NEW i \in Nat, i >= 1
    PROVE  /\ Entry(h, i) \in Nat
           /\ Entry(h, i) < 128 => i < NEntries /\ Entry(h, i) = h[i]
           /\ i < NEntries => Entry(h, i) = h[i] /\ h[i] \in Nat /\ h[i] < TableSum
<1>1. NEntries \in Nat
  BY TableAssumption
<1>2. CASE i < NEntries
  <2>1. i \in 1..(NEntries - 1)
    BY <1>1, <1>2
  <2>2. Entry(h, i) = h[i] /\ h[i] \in Nat /\ h[i] < TableSum
    BY <1>2, <2>1 DEF Entry, Tables
  <2> QED BY <1>2, <2>2
<1>3. CASE ~ (i < NEntries)
  <2>1. Entry(h, i) = 32767
    BY <1>3 DEF Entry, Beyond
  <2> QED BY <1>3, <2>1
<1> QED BY <1>2, <1>3

\* Every code word is read as what it was made of.
LEMMA CodedIsGood ==
    ASSUME NEW h \in Tables, NEW i \in 1..(NEntries - 1)
    PROVE  WordIsGood(h, i, Coded(h, i))
<1> DEFINE p == PrevOf(h, i)
           N == NEntries
           a == Entry(h, i)
           b == Entry(h, i + 1)
           c == Entry(h, i + 2)
           d == Entry(h, i + 3)
           r == RunAt(h, i)
<1>1. N \in Nat /\ i \in Nat /\ i >= 1 /\ i < N /\ N <= 512
  BY TableAssumption
<1>2. a = h[i] /\ h[i] \in Nat /\ h[i] < TableSum
  BY <1>1, EntryIs
<1>3. /\ a \in Nat /\ b \in Nat /\ c \in Nat /\ d \in Nat
      /\ b < 128 => i + 1 < N /\ b = h[i + 1]
      /\ c < 128 => i + 2 < N /\ c = h[i + 2]
      /\ d < 128 => i + 3 < N /\ d = h[i + 3]
  <2>1. i + 1 \in Nat /\ i + 1 >= 1 /\ i + 2 \in Nat /\ i + 2 >= 1 /\ i + 3 \in Nat /\ i + 3 >= 1
    BY <1>1
  <2> QED BY <1>1, <2>1, EntryIs
<1>4. p \in Nat /\ p < TableSum
  <2>1. CASE i = 1
    BY <2>1 DEF PrevOf, TableSum
  <2>2. CASE i # 1
    <3>1. i - 1 \in Nat /\ i - 1 >= 1 /\ i - 1 < N
      BY <1>1, <2>2
    <3> QED BY <2>2, <3>1, EntryIs DEF PrevOf
  <2> QED BY <2>1, <2>2
<1>5. r \in 1..(N - i) /\ \A k \in i..(i + r - 1) : h[k] = h[i]
  BY RunAtIs
<1>6. Coded(h, i) =
        IF r > 3 /\ h[i] < 4 THEN [word |-> 61440 + h[i] * 1024 + (r - 1), n |-> r]
        ELSE IF FourFit(h, i) THEN
            [word |-> 57344 + Entry(h, i + 0) * 512 + Entry(h, i + 1) * 64 + Entry(h, i + 2) * 8 + Entry(h, i + 3),
              n |-> 4]
        ELSE IF ThreeFit(h, i) THEN
            [word |-> 49152 + Entry(h, i + 0) * 256 + Entry(h, i + 1) * 16 + Entry(h, i + 2), n |-> 3]
        ELSE IF TwoFit(h, i) THEN
            [word |-> 32768 + Entry(h, i + 0) * 128 + Entry(h, i + 1), n |-> 2]
        ELSE IF DropsFit(h, i) THEN
            [word |-> 16384 + Drop(h, i) * 128 + NextDrop(h, i), n |-> 2]
        ELSE [word |-> h[i], n |-> 1]
  <2> HIDE DEF r
  <2> QED BY DEF Coded, r
<1>19. a = Entry(h, i + 0) /\ b = Entry(h, i + 1) /\ c = Entry(h, i + 2) /\ d = Entry(h, i + 3)
  <2>1. i + 0 = i
    BY <1>1
  <2> QED BY <2>1
<1>7. DropsFit(h, i) <=> Drop(h, i) < 128 /\ NextDrop(h, i) < 128
  BY DEF DropsFit
<1>8. Drop(h, i) = (p - h[i]) % TableSum /\ NextDrop(h, i) = IF i + 1 < N THEN (h[i] - h[i + 1]) % TableSum ELSE Beyond
  BY DEF Drop, NextDrop, PrevOf
<1>9. FourFit(h, i) => a < 8 /\ b < 8 /\ c < 8 /\ d < 8
  <2>1. i + 0 = i /\ 0 \in 0..3 /\ 1 \in 0..3 /\ 2 \in 0..3 /\ 3 \in 0..3
    BY <1>1
  <2> SUFFICES ASSUME FourFit(h, i) PROVE a < 8 /\ b < 8 /\ c < 8 /\ d < 8
    OBVIOUS
  <2>2. \A k \in 0..3 : Entry(h, i + k) < 8
    BY DEF FourFit
  <2>3. Entry(h, i + 0) < 8 /\ Entry(h, i + 1) < 8 /\ Entry(h, i + 2) < 8 /\ Entry(h, i + 3) < 8
    BY <2>1, <2>2
  <2> QED BY <2>1, <2>3
<1>10. ThreeFit(h, i) => a < 32 /\ b < 16 /\ c < 16
  BY DEF ThreeFit
<1>11. TwoFit(h, i) => a < 128 /\ b < 128
  BY DEF TwoFit
<1>12. WordIsGood(h, i, Coded(h, i)) <=>
         /\ Coded(h, i).n \in 1..(N - i) /\ Coded(h, i).word \in Nat /\ Coded(h, i).word <= 65535
         /\ Entries(Coded(h, i).word, p) = Part(h, i, Coded(h, i).n)
  BY DEF WordIsGood
<1> DEFINE x == Coded(h, i)
<1> SUFFICES /\ x.n \in 1..(N - i) /\ x.word \in Nat /\ x.word <= 65535
             /\ Entries(x.word, p) = Part(h, i, x.n)
  BY <1>12
<1> HIDE DEF p, N, a, b, c, d, r, x
<1>13. CASE r > 3 /\ h[i] < 4
  <2>1. x = [word |-> 61440 + h[i] * 1024 + (r - 1), n |-> r]
    BY <1>6, <1>19, <1>13 DEF x
  <2>2. r - 1 \in Nat /\ r - 1 < 512 /\ (r - 1) + 1 = r
    BY <1>1, <1>5
  <2>3. x.word = RunOfEntries(h[i], r - 1) /\ x.n = r
    BY <2>1 DEF RunOfEntries
  <2>4. x.word \in Nat /\ x.word <= 65535 /\ Entries(x.word, p) = [k \in 1..((r - 1) + 1) |-> h[i]]
    <3>1. h[i] \in Nat /\ h[i] < 4 /\ r - 1 \in Nat /\ r - 1 < 512
      BY <1>2, <1>13, <2>2, <2>3
    <3> QED BY <2>3, <3>1, RunWord
  <2>5. Part(h, i, r) = [k \in 1..r |-> h[i]]
    <3>1. \A k \in 1..r : i + k - 1 \in i..(i + r - 1)
      BY <1>1, <1>5
    <3> QED BY <1>5, <3>1 DEF Part
  <2> QED BY <1>5, <2>2, <2>3, <2>4, <2>5
<1>14. CASE ~ (r > 3 /\ h[i] < 4) /\ FourFit(h, i)
  <2>1. x = [word |-> 57344 + a * 512 + b * 64 + c * 8 + d, n |-> 4]
    BY <1>6, <1>19, <1>14 DEF x
  <2>2. x.word = FourEntries(a, b, c, d) /\ x.n = 4
    BY <2>1 DEF FourEntries
  <2>3. x.word \in Nat /\ x.word <= 65535 /\ Entries(x.word, p) = <<a, b, c, d>>
    <3>1. a \in Nat /\ b \in Nat /\ c \in Nat /\ d \in Nat /\ a < 8 /\ b < 8 /\ c < 8 /\ d < 8
      BY <1>3, <1>9, <1>14, <2>2
    <3> QED BY <2>2, <3>1, FourWord
  <2>4. i + 3 < N /\ b = h[i + 1] /\ c = h[i + 2] /\ d = h[i + 3]
    BY <1>1, <1>3, <1>9, <1>14
  <2>5. Part(h, i, 4) = <<a, b, c, d>>
    <3>1. i + 1 - 1 = i /\ i + 2 - 1 = i + 1 /\ i + 3 - 1 = i + 2 /\ i + 4 - 1 = i + 3
      BY <1>1
    <3>2. Part(h, i, 4) = <<h[i + 1 - 1], h[i + 2 - 1], h[i + 3 - 1], h[i + 4 - 1]>>
      BY DEF Part
    <3> QED BY <1>2, <2>4, <3>1, <3>2
  <2>6. 4 \in 1..(N - i)
    BY <1>1, <2>4
  <2> QED BY <2>2, <2>3, <2>5, <2>6
<1>15. CASE ~ (r > 3 /\ h[i] < 4) /\ ~ FourFit(h, i) /\ ThreeFit(h, i)
  <2>1. x = [word |-> 49152 + a * 256 + b * 16 + c, n |-> 3]
    BY <1>6, <1>19, <1>15 DEF x
  <2>2. x.word = ThreeEntries(a, b, c) /\ x.n = 3
    BY <2>1 DEF ThreeEntries
  <2>3. x.word \in Nat /\ x.word <= 65535 /\ Entries(x.word, p) = <<a, b, c>>
    <3>1. a \in Nat /\ b \in Nat /\ c \in Nat /\ a < 32 /\ b < 16 /\ c < 16
      BY <1>3, <1>10, <1>15, <2>2
    <3> QED BY <2>2, <3>1, ThreeWord
  <2>4. i + 2 < N /\ b = h[i + 1] /\ c = h[i + 2]
    BY <1>1, <1>3, <1>10, <1>15
  <2>5. Part(h, i, 3) = <<a, b, c>>
    <3>1. i + 1 - 1 = i /\ i + 2 - 1 = i + 1 /\ i + 3 - 1 = i + 2
      BY <1>1
    <3>2. Part(h, i, 3) = <<h[i + 1 - 1], h[i + 2 - 1], h[i + 3 - 1]>>
      BY DEF Part
    <3> QED BY <1>2, <2>4, <3>1, <3>2
  <2>6. 3 \in 1..(N - i)
    BY <1>1, <2>4
  <2> QED BY <2>2, <2>3, <2>5, <2>6
<1>16. CASE ~ (r > 3 /\ h[i] < 4) /\ ~ FourFit(h, i) /\ ~ ThreeFit(h, i) /\ TwoFit(h, i)
  <2>1. x = [word |-> 32768 + a * 128 + b, n |-> 2]
    BY <1>6, <1>19, <1>16 DEF x
  <2>2. x.word = TwoEntries(a, b) /\ x.n = 2
    BY <2>1 DEF TwoEntries
  <2>3. x.word \in Nat /\ x.word <= 65535 /\ Entries(x.word, p) = <<a, b>>
    <3>1. a \in Nat /\ b \in Nat /\ a < 128 /\ b < 128
      BY <1>3, <1>11, <1>16, <2>2
    <3> QED BY <2>2, <3>1, TwoWord
  <2>4. i + 1 < N /\ b = h[i + 1]
    BY <1>1, <1>3, <1>11, <1>16
  <2>5. Part(h, i, 2) = <<a, b>>
    <3>1. i + 1 - 1 = i /\ i + 2 - 1 = i + 1
      BY <1>1
    <3>2. Part(h, i, 2) = <<h[i + 1 - 1], h[i + 2 - 1]>>
      BY DEF Part
    <3> QED BY <1>2, <2>4, <3>1, <3>2
  <2>6. 2 \in 1..(N - i)
    BY <1>1, <2>4
  <2> QED BY <2>2, <2>3, <2>5, <2>6
<1>17. CASE ~ (r > 3 /\ h[i] < 4) /\ ~ FourFit(h, i) /\ ~ ThreeFit(h, i) /\ ~ TwoFit(h, i) /\ DropsFit(h, i)
  <2> DEFINE s == Drop(h, i)
             t == NextDrop(h, i)
  <2>1. x = [word |-> 16384 + s * 128 + t, n |-> 2]
    BY <1>6, <1>19, <1>17 DEF x
  <2>2. x.word = TwoDrops(s, t) /\ x.n = 2
    BY <2>1 DEF TwoDrops
  <2>3. s < 128 /\ t < 128
    BY <1>7, <1>17
  <2>4. i + 1 < N
    <3>1. ~ (i + 1 < N) => t = 32767
      BY <1>8 DEF Beyond
    <3> QED BY <2>3, <3>1
  <2>5. h[i + 1] \in Nat /\ h[i + 1] < TableSum
    <3>1. i + 1 \in Nat /\ i + 1 >= 1
      BY <1>1
    <3> QED BY <2>4, <3>1, EntryIs DEF N
  <2>6. s = (p - h[i]) % TableSum /\ t = (h[i] - h[i + 1]) % TableSum
    BY <1>8, <2>4
  <2>7. s \in Nat /\ (p - s) % TableSum = h[i]
    BY <1>2, <1>4, <2>6, DropReturns
  <2>8. t \in Nat /\ (h[i] - t) % TableSum = h[i + 1]
    BY <1>2, <2>5, <2>6, DropReturns
  <2> HIDE DEF s, t
  <2>9. x.word \in Nat /\ x.word <= 65535 /\ Entries(x.word, p) = <<h[i], h[i + 1]>>
    <3>1. s \in Nat /\ t \in Nat /\ p \in Nat /\ s < 128 /\ t < 128
      BY <1>4, <2>3, <2>7, <2>8
    <3>2. After(p, s) = h[i] /\ After(h[i], t) = h[i + 1]
      BY <2>7, <2>8 DEF After
    <3> DEFINE w == x.word
               y == h[i]
               z == h[i + 1]
    <3>3. w = TwoDrops(s, t) /\ After(p, s) = y /\ After(y, t) = z
      BY <2>2, <3>2
    <3> HIDE DEF w, y, z
    <3>4. w \in Nat /\ w <= 65535 /\ Entries(w, p) = <<y, z>>
      BY <3>1, <3>3, DropsWord
    <3> QED BY <3>4 DEF w, y, z
  <2>10. Part(h, i, 2) = <<h[i], h[i + 1]>>
    <3>1. i + 1 - 1 = i /\ i + 2 - 1 = i + 1
      BY <1>1
    <3>2. Part(h, i, 2) = <<h[i + 1 - 1], h[i + 2 - 1]>>
      BY DEF Part
    <3> QED BY <3>1, <3>2
  <2>11. 2 \in 1..(N - i)
    BY <1>1, <2>4
  <2> QED BY <2>2, <2>9, <2>10, <2>11
<1>18. CASE ~ (r > 3 /\ h[i] < 4) /\ ~ FourFit(h, i) /\ ~ ThreeFit(h, i) /\ ~ TwoFit(h, i) /\ ~ DropsFit(h, i)
  <2>1. x = [word |-> h[i], n |-> 1]
    BY <1>6, <1>19, <1>18 DEF x
  <2>2. x.word = h[i] /\ x.n = 1
    BY <2>1
  <2>3. x.word \in Nat /\ x.word <= 65535 /\ Entries(x.word, p) = <<h[i]>>
    <3>1. h[i] < 16384
      BY <1>2 DEF TableSum
    <3> QED BY <1>2, <2>2, <3>1, OneWord
  <2>4. Part(h, i, 1) = <<h[i]>>
    <3>1. i + 1 - 1 = i
      BY <1>1
    <3>2. Part(h, i, 1) = <<h[i + 1 - 1]>>
      BY DEF Part
    <3> QED BY <3>1, <3>2
  <2>5. 1 \in 1..(N - i)
    BY <1>1
  <2> QED BY <2>2, <2>3, <2>4, <2>5
<1> QED BY <1>13, <1>14, <1>15, <1>16, <1>17, <1>18

-----------------------------------------------------------------------------
(* All words.                                                              *)

\* Before the first word.
NothingWritten == [words |-> <<>>, i |-> 1]
NothingRead == [got |-> <<>>, used |-> 0]
WriteLoop(u, h, m) == u = [k \in 0..m |-> IF k = 0 THEN NothingWritten ELSE WriteWord(h, u[k - 1])]
ReadLoop(u, words, m) == u = [k \in 0..m |-> IF k = 0 THEN NothingRead ELSE ReadWord(u[k - 1], words[k])]

\* There is such a function.
LEMMA WriteLoopExists ==
    ASSUME NEW t, NEW N \in Nat
    PROVE  \E u : WriteLoop(u, t, N)
<1> DEFINE T == {m \in Nat : \E u : WriteLoop(u, t, m)}
<1>1. 0 \in T
  <2> DEFINE u == [k \in 0..0 |-> NothingWritten]
  <2>1. WriteLoop(u, t, 0)
    BY DEF WriteLoop
  <2> QED BY <2>1
<1>2. ASSUME NEW m \in Nat, m \in T PROVE m + 1 \in T
  <2>1. PICK u : WriteLoop(u, t, m)
    BY <1>2
  <2> DEFINE h == [k \in 0..(m + 1) |-> IF k <= m THEN u[k] ELSE WriteWord(t, u[m])]
  <2>2. \A k \in 0..m : h[k] = u[k]
    OBVIOUS
  <2>3. h[m + 1] = WriteWord(t, h[m])
    BY <2>2
  <2>4. \A k \in 0..(m + 1) : h[k] = IF k = 0 THEN NothingWritten ELSE WriteWord(t, h[k - 1])
    <3> TAKE k \in 0..(m + 1)
    <3>1. CASE k = m + 1
      BY <2>3, <3>1
    <3>2. CASE k \in 0..m
      <4>1. u[k] = IF k = 0 THEN NothingWritten ELSE WriteWord(t, u[k - 1])
        BY <2>1, <3>2 DEF WriteLoop
      <4>2. k # 0 => u[k - 1] = h[k - 1]
        BY <2>2, <3>2
      <4> QED BY <2>2, <3>2, <4>1, <4>2
    <3> QED BY <3>1, <3>2
  <2> HIDE DEF h
  <2>5. h = [k \in 0..(m + 1) |-> h[k]]
    BY DEF h
  <2>6. WriteLoop(h, t, m + 1)
    BY <2>4, <2>5 DEF WriteLoop
  <2> QED BY <2>6
<1>3. T = Nat
  <2> HIDE DEF T
  <2>1. T \in SUBSET Nat
    BY DEF T
  <2> QED BY <1>1, <1>2, <2>1, Induction
<1> QED BY <1>3

\* There is such a function.
LEMMA ReadLoopExists ==
    ASSUME NEW words, NEW N \in Nat
    PROVE  \E u : ReadLoop(u, words, N)
<1> DEFINE T == {m \in Nat : \E u : ReadLoop(u, words, m)}
<1>1. 0 \in T
  <2> DEFINE u == [k \in 0..0 |-> NothingRead]
  <2>1. ReadLoop(u, words, 0)
    BY DEF ReadLoop
  <2> QED BY <2>1
<1>2. ASSUME NEW m \in Nat, m \in T PROVE m + 1 \in T
  <2>1. PICK u : ReadLoop(u, words, m)
    BY <1>2
  <2> DEFINE h == [k \in 0..(m + 1) |-> IF k <= m THEN u[k] ELSE ReadWord(u[m], words[(m + 1)])]
  <2>2. \A k \in 0..m : h[k] = u[k]
    OBVIOUS
  <2>3. h[m + 1] = ReadWord(h[m], words[(m + 1)])
    BY <2>2
  <2>4. \A k \in 0..(m + 1) : h[k] = IF k = 0 THEN NothingRead ELSE ReadWord(h[k - 1], words[k])
    <3> TAKE k \in 0..(m + 1)
    <3>1. CASE k = m + 1
      BY <2>3, <3>1
    <3>2. CASE k \in 0..m
      <4>1. u[k] = IF k = 0 THEN NothingRead ELSE ReadWord(u[k - 1], words[k])
        BY <2>1, <3>2 DEF ReadLoop
      <4>2. k # 0 => u[k - 1] = h[k - 1]
        BY <2>2, <3>2
      <4> QED BY <2>2, <3>2, <4>1, <4>2
    <3> QED BY <3>1, <3>2
  <2> HIDE DEF h
  <2>5. h = [k \in 0..(m + 1) |-> h[k]]
    BY DEF h
  <2>6. ReadLoop(h, words, m + 1)
    BY <2>4, <2>5 DEF ReadLoop
  <2> QED BY <2>6
<1>3. T = Nat
  <2> HIDE DEF T
  <2>1. T \in SUBSET Nat
    BY DEF T
  <2> QED BY <1>1, <1>2, <2>1, Induction
<1> QED BY <1>3

\* What a reader that goes word by word has got.
LEMMA ReadIs ==
    ASSUME NEW words, NEW f, Len(words) \in Nat, f[0] = NothingRead,
           \A k \in 1..Len(words) : f[k] = ReadWord(f[k - 1], words[k])
    PROVE  LET b == f[Len(words)]
           IN  Read(words) = [table |-> b.got, used |-> b.used,
                               fail |-> Len(b.got) + 1 \notin NEntries..(NEntries + Pad)]
<1> DEFINE N == Len(words)
           u == CHOOSE g : ReadLoop(g, words, N)
           Answer(b) == [table |-> b.got, used |-> b.used, fail |-> Len(b.got) + 1 \notin NEntries..(NEntries + Pad)]
<1>1. Read(words) = Answer(u[N])
  BY DEF Read, ReadLoop, NothingRead
<1>2. ReadLoop(u, words, N)
  BY ReadLoopExists
<1> HIDE DEF u, N, Answer
<1>3. N \in Nat /\ f[0] = NothingRead /\ \A k \in 1..N : f[k] = ReadWord(f[k - 1], words[k])
  BY DEF N
<1>4. u[0] = NothingRead /\ \A k \in 1..N : u[k] = ReadWord(u[k - 1], words[k])
  BY <1>2, <1>3 DEF ReadLoop
<1> DEFINE T == {k \in Nat : k <= N => u[k] = f[k]}
<1>5. T \in SUBSET Nat /\ 0 \in T
  BY <1>3, <1>4
<1>6. ASSUME NEW k \in Nat, k \in T PROVE k + 1 \in T
  <2> SUFFICES ASSUME k + 1 <= N PROVE u[k + 1] = f[k + 1]
    OBVIOUS
  <2>1. k + 1 \in 1..N /\ (k + 1) - 1 = k /\ k <= N
    BY <1>3
  <2>2. u[k] = f[k]
    BY <1>6, <2>1
  <2>3. u[k + 1] = ReadWord(u[k], words[k + 1]) /\ f[k + 1] = ReadWord(f[k], words[k + 1])
    BY <1>3, <1>4, <2>1
  <2> QED BY <2>2, <2>3
<1>7. T = Nat
  <2> HIDE DEF T
  <2> QED BY <1>5, <1>6, Induction
<1>8. u[N] = f[N]
  BY <1>3, <1>7
<1>9. Read(words) = Answer(f[N])
  BY <1>1, <1>8
<1> QED BY <1>9 DEF Answer, N

\* A reader of these words gets the first m entries with them, and not before
\* the last one as many as there are.
GetsFirst(h, words, m) ==
    \E f : /\ f[0] = NothingRead
           /\ \A k \in 1..Len(words) : f[k] = ReadWord(f[k - 1], words[k])
           /\ \A k \in 0..(Len(words) - 1) : Len(f[k].got) \in Nat /\ Len(f[k].got) + 1 < NEntries
           /\ f[Len(words)] = [got |-> Upto(h, m), used |-> Len(words)]

\* The first entries, and some more.
LEMMA PartGoesOn ==
    ASSUME NEW h \in Tables, NEW i \in 1..(NEntries - 1), NEW m \in 1..(NEntries - i)
    PROVE  /\ Upto(h, i - 1) \in Seq(Nat) /\ Len(Upto(h, i - 1)) = i - 1
           /\ Upto(h, i - 1) \o Part(h, i, m) = Upto(h, (i + m) - 1)
           /\ Upto(h, i - 1) # <<>> <=> i # 1
           /\ i # 1 => Upto(h, i - 1)[i - 1] = h[i - 1]
<1> DEFINE x == Upto(h, i - 1)
           y == Part(h, i, m)
           z == Upto(h, (i + m) - 1)
<1>1. NEntries \in Nat /\ i \in Nat /\ m \in Nat /\ i >= 1 /\ i + m <= NEntries
  BY TableAssumption
<1>2. \A k \in Nat : k >= 1 /\ k < NEntries => h[k] \in Nat
  <2> SUFFICES ASSUME NEW k \in Nat, k >= 1, k < NEntries PROVE h[k] \in Nat
    OBVIOUS
  <2>1. k \in 1..(NEntries - 1)
    BY <1>1
  <2> QED BY <2>1 DEF Tables
<1>3. x \in Seq(Nat) /\ Len(x) = i - 1 /\ \A k \in 1..(i - 1) : x[k] = h[k]
  <2>1. \A k \in 1..(i - 1) : h[k] \in Nat
    BY <1>1, <1>2
  <2>2. i - 1 \in Nat
    BY <1>1
  <2> QED BY <2>1, <2>2 DEF Upto
<1>4. z \in Seq(Nat) /\ Len(z) = (i - 1) + m /\ \A k \in 1..((i - 1) + m) : z[k] = h[k]
  <2>1. (i + m) - 1 = (i - 1) + m /\ (i - 1) + m \in Nat
    BY <1>1
  <2>2. \A k \in 1..((i - 1) + m) : h[k] \in Nat
    BY <1>1, <1>2
  <2> QED BY <2>1, <2>2 DEF Upto
<1>5. y \in Seq(Nat) /\ Len(y) = m /\ \A k \in 1..m : y[k] = h[i + k - 1]
  <2>1. \A k \in 1..m : h[i + k - 1] \in Nat
    BY <1>1, <1>2
  <2> QED BY <1>1, <2>1 DEF Part
<1> HIDE DEF x, y, z
<1>6. x \o y \in Seq(Nat) /\ Len(x \o y) = (i - 1) + m
      /\ \A k \in 1..((i - 1) + m) : (x \o y)[k] = IF k <= i - 1 THEN x[k] ELSE y[k - (i - 1)]
  <2>1. /\ x \o y \in Seq(Nat) /\ Len(x \o y) = Len(x) + Len(y)
        /\ \A k \in 1..(Len(x) + Len(y)) : (x \o y)[k] = IF k <= Len(x) THEN x[k] ELSE y[k - Len(x)]
    BY <1>3, <1>5, ConcatProperties
  <2>2. Len(x) = i - 1 /\ Len(y) = m
    BY <1>3, <1>5
  <2> QED BY <2>1, <2>2
<1>7. \A k \in 1..((i - 1) + m) : (x \o y)[k] = z[k]
  <2> SUFFICES ASSUME NEW k \in 1..((i - 1) + m) PROVE (x \o y)[k] = z[k]
    OBVIOUS
  <2>1. CASE k <= i - 1
    <3>1. k \in 1..(i - 1)
      BY <1>1, <2>1
    <3> QED BY <1>3, <1>4, <1>6, <2>1, <3>1
  <2>2. CASE ~ (k <= i - 1)
    <3>1. k - (i - 1) \in 1..m /\ i + (k - (i - 1)) - 1 = k
      BY <1>1, <2>2
    <3>2. y[k - (i - 1)] = h[k]
      BY <1>5, <3>1
    <3> QED BY <1>4, <1>6, <2>2, <3>2
  <2> QED BY <2>1, <2>2
<1> DEFINE w == x \o y
<1>8. w \in Seq(Nat) /\ Len(w) = Len(z) /\ \A k \in 1..Len(z) : w[k] = z[k]
  BY <1>4, <1>6, <1>7
<1> HIDE DEF w
<1>9. w = z
  BY <1>4, <1>8, SeqEqual
<1>10. x # <<>> <=> i # 1
  BY <1>1, <1>3
<1>11. i # 1 => x[i - 1] = h[i - 1]
  <2>1. i # 1 => i - 1 \in 1..(i - 1)
    BY <1>1
  <2> QED BY <1>3, <2>1
<1> QED BY <1>3, <1>9, <1>10, <1>11 DEF w, x, y, z

\* One more word.
LEMMA GetsMore ==
    ASSUME NEW h \in Tables, NEW i \in 1..(NEntries - 1), NEW words \in Seq(Nat), GetsFirst(h, words, i - 1)
    PROVE  LET c == Coded(h, i) IN GetsFirst(h, Append(words, c.word), (i + c.n) - 1)
<1> DEFINE c == Coded(h, i)
           L == Len(words)
           W == Append(words, c.word)
<1>1. WordIsGood(h, i, c)
  BY CodedIsGood
<1>2. PICK f : /\ f[0] = NothingRead
               /\ \A k \in 1..L : f[k] = ReadWord(f[k - 1], words[k])
               /\ \A k \in 0..(L - 1) : Len(f[k].got) \in Nat /\ Len(f[k].got) + 1 < NEntries
               /\ f[L] = [got |-> Upto(h, i - 1), used |-> L]
  BY DEF GetsFirst
<1>3. L \in Nat
  OBVIOUS
<1> HIDE DEF c, L
<1>4. c.n \in 1..(NEntries - i) /\ c.word \in Nat /\ Entries(c.word, PrevOf(h, i)) = Part(h, i, c.n)
  BY <1>1 DEF WordIsGood
<1>5. Len(W) = L + 1 /\ W[L + 1] = c.word /\ \A k \in 1..L : W[k] = words[k]
  BY <1>4, AppendProperties DEF L
<1> HIDE DEF W
<1>6. NEntries \in Nat /\ i \in Nat /\ i >= 1 /\ i < NEntries
  BY TableAssumption
<1>7. /\ Len(Upto(h, i - 1)) = i - 1
      /\ Upto(h, i - 1) \o Part(h, i, c.n) = Upto(h, (i + c.n) - 1)
      /\ Upto(h, i - 1) # <<>> <=> i # 1
      /\ i # 1 => Upto(h, i - 1)[i - 1] = h[i - 1]
  BY <1>4, PartGoesOn
<1> DEFINE b == f[L]
           after == [got |-> Upto(h, (i + c.n) - 1), used |-> L + 1]
<1>8. ReadWord(b, c.word) = after
  <2>1. b.got = Upto(h, i - 1) /\ b.used = L
    BY <1>2
  <2> HIDE DEF b
  <2>2. ~ (Len(b.got) + 1 >= NEntries)
    BY <1>6, <1>7, <2>1
  <2>3. (IF b.got = <<>> THEN 0 ELSE b.got[Len(b.got)]) = PrevOf(h, i)
    BY <1>7, <2>1 DEF PrevOf
  <2>4. ReadWord(b, c.word) =
          [got |-> b.got \o Entries(c.word, IF b.got = <<>> THEN 0 ELSE b.got[Len(b.got)]), used |-> b.used + 1]
    BY <2>2 DEF ReadWord
  <2>5. ReadWord(b, c.word) = [got |-> b.got \o Entries(c.word, PrevOf(h, i)), used |-> b.used + 1]
    BY <2>3, <2>4
  <2> QED BY <1>4, <1>7, <2>1, <2>5
<1> HIDE DEF after
<1> DEFINE g == [k \in 0..(L + 1) |-> IF k <= L THEN f[k] ELSE after]
<1>9. (\A k \in 0..L : g[k] = f[k]) /\ g[L + 1] = after
  BY <1>3
<1> HIDE DEF g
<1>10. g[0] = NothingRead
  BY <1>2, <1>3, <1>9
<1>11. \A k \in 1..(L + 1) : g[k] = ReadWord(g[k - 1], W[k])
  <2> SUFFICES ASSUME NEW k \in 1..(L + 1) PROVE g[k] = ReadWord(g[k - 1], W[k])
    OBVIOUS
  <2>1. CASE k <= L
    <3>1. k \in 1..L /\ k \in 0..L /\ k - 1 \in 0..L
      BY <1>3, <2>1
    <3>2. g[k] = f[k] /\ g[k - 1] = f[k - 1] /\ W[k] = words[k]
      BY <1>5, <1>9, <3>1
    <3> QED BY <1>2, <3>1, <3>2
  <2>2. CASE ~ (k <= L)
    <3>1. k = L + 1 /\ k - 1 = L /\ L \in 0..L
      BY <1>3, <2>2
    <3>2. g[k] = after /\ g[k - 1] = f[L] /\ W[k] = c.word
      BY <1>5, <1>9, <3>1
    <3> QED BY <1>8, <3>2
  <2> QED BY <2>1, <2>2
<1>12. \A k \in 0..L : Len(g[k].got) \in Nat /\ Len(g[k].got) + 1 < NEntries
  <2> SUFFICES ASSUME NEW k \in 0..L PROVE Len(g[k].got) \in Nat /\ Len(g[k].got) + 1 < NEntries
    OBVIOUS
  <2>1. CASE k < L
    <3>1. k \in 0..(L - 1)
      BY <1>3, <2>1
    <3> QED BY <1>2, <1>9, <3>1
  <2>2. CASE ~ (k < L)
    <3>1. k = L
      BY <1>3, <2>2
    <3>2. g[k].got = Upto(h, i - 1)
      BY <1>2, <1>9, <3>1
    <3> QED BY <1>6, <1>7, <3>2
  <2> QED BY <2>1, <2>2
<1>13. (L + 1) - 1 = L
  BY <1>3
<1>14. GetsFirst(h, W, (i + c.n) - 1)
  <2>1. \A k \in 1..Len(W) : g[k] = ReadWord(g[k - 1], W[k])
    BY <1>5, <1>11
  <2>2. \A k \in 0..(Len(W) - 1) : Len(g[k].got) \in Nat /\ Len(g[k].got) + 1 < NEntries
    BY <1>5, <1>12, <1>13
  <2>3. g[Len(W)] = [got |-> Upto(h, (i + c.n) - 1), used |-> Len(W)]
    BY <1>5, <1>9 DEF after
  <2> QED BY <1>10, <2>1, <2>2, <2>3 DEF GetsFirst
<1> QED BY <1>14 DEF W, c

\* The words written so far are words, and what a reader makes of them are the
\* entries that need no more.
WrittenIsGood(h, b) ==
    /\ b.words \in Seq(Nat) /\ \A k \in 1..Len(b.words) : b.words[k] <= 65535
    /\ b.i \in 1..NEntries
    /\ GetsFirst(h, b.words, b.i - 1)

\* A word more.
LEMMA WriteWordIsGood ==
    ASSUME NEW h \in Tables, NEW b, WrittenIsGood(h, b)
    PROVE  /\ WrittenIsGood(h, WriteWord(h, b))
           /\ b.i < NEntries => WriteWord(h, b).i > b.i
           /\ b.i = NEntries => WriteWord(h, b).i = NEntries
<1> DEFINE c == Coded(h, b.i)
           W == Append(b.words, c.word)
           i == b.i
<1>1. NEntries \in Nat /\ i \in 1..NEntries /\ b.words \in Seq(Nat) /\ GetsFirst(h, b.words, i - 1)
      /\ \A k \in 1..Len(b.words) : b.words[k] <= 65535
  BY TableAssumption DEF WrittenIsGood
<1>2. CASE i = NEntries
  <2>1. WriteWord(h, b) = b
    BY <1>1, <1>2 DEF WriteWord
  <2> QED BY <1>2, <2>1
<1>3. CASE i # NEntries
  <2>1. i \in 1..(NEntries - 1) /\ ~ (i >= NEntries)
    BY <1>1, <1>3
  <2>2. WriteWord(h, b) = [words |-> W, i |-> i + c.n]
    BY <2>1 DEF WriteWord
  <2>3. WordIsGood(h, i, c)
    BY <2>1, CodedIsGood
  <2>4. GetsFirst(h, W, (i + c.n) - 1)
    BY <1>1, <2>1, GetsMore
  <2> DEFINE q == WriteWord(h, b)
  <2>5. q.words = W /\ q.i = i + c.n
    BY <2>2
  <2> HIDE DEF c, i, q
  <2>6. c.n \in 1..(NEntries - i) /\ c.word \in Nat /\ c.word <= 65535
    BY <2>3 DEF WordIsGood
  <2>7. i + c.n \in 1..NEntries /\ i + c.n > i
    BY <1>1, <2>1, <2>6
  <2>8. W \in Seq(Nat) /\ \A k \in 1..Len(W) : W[k] <= 65535
    <3>1. /\ W \in Seq(Nat) /\ Len(W) = Len(b.words) + 1 /\ W[Len(b.words) + 1] = c.word
          /\ \A k \in 1..Len(b.words) : W[k] = b.words[k]
      <4> DEFINE before == b.words
                 word == c.word
      <4>1. before \in Seq(Nat) /\ word \in Nat
        BY <1>1, <2>6
      <4> HIDE DEF before, word
      <4>2. /\ Append(before, word) \in Seq(Nat) /\ Len(Append(before, word)) = Len(before) + 1
            /\ Append(before, word)[Len(before) + 1] = word
            /\ \A k \in 1..Len(before) : Append(before, word)[k] = before[k]
        BY <4>1, AppendProperties
      <4> QED BY <4>2 DEF before, word
    <3> HIDE DEF W
    <3>2. Len(b.words) \in Nat
      BY <1>1
    <3>3. \A k \in 1..(Len(b.words) + 1) : k \in 1..Len(b.words) \/ k = Len(b.words) + 1
      BY <3>2
    <3>4. \A k \in 1..(Len(b.words) + 1) : W[k] <= 65535
      <4> TAKE k \in 1..(Len(b.words) + 1)
      <4>1. CASE k \in 1..Len(b.words)
        <5>1. W[k] = b.words[k] /\ b.words[k] <= 65535
          BY <1>1, <3>1, <4>1
        <5> QED BY <5>1
      <4>2. CASE k = Len(b.words) + 1
        BY <2>6, <3>1, <4>2
      <4> QED BY <3>3, <4>1, <4>2
    <3> QED BY <3>1, <3>4
  <2> HIDE DEF W
  <2>9. WrittenIsGood(h, q)
    BY <2>4, <2>5, <2>7, <2>8 DEF WrittenIsGood
  <2>10. i < NEntries /\ q.i > i
    BY <1>1, <2>1, <2>5, <2>7
  <2> QED BY <1>3, <2>9, <2>10 DEF q, i
<1> QED BY <1>2, <1>3

\* All entries are written in the end.
LEMMA WordsAreGood ==
    ASSUME NEW h \in Tables
    PROVE  WrittenIsGood(h, [words |-> Words(h), i |-> NEntries])
<1> DEFINE N == NEntries
           u == CHOOSE g : WriteLoop(g, h, N)
<1>1. N \in Nat /\ N >= 2
  BY TableAssumption
<1>2. Words(h) = u[N].words
  BY DEF Words, WriteLoop, NothingWritten
<1>3. WriteLoop(u, h, N)
  BY <1>1, WriteLoopExists
<1> HIDE DEF u
<1>4. u[0] = NothingWritten /\ \A k \in 1..N : u[k] = WriteWord(h, u[k - 1])
  BY <1>1, <1>3 DEF WriteLoop
<1> HIDE DEF N
<1>5. WrittenIsGood(h, NothingWritten)
  <2>1. GetsFirst(h, <<>>, 0)
    <3> DEFINE f == [k \in 0..0 |-> NothingRead]
               w == <<>>
    <3>1. f[0] = NothingRead /\ Len(w) = 0
      OBVIOUS
    <3>2. NothingRead = [got |-> Upto(h, 0), used |-> 0]
      BY DEF Upto, NothingRead
    <3>3. (\A k \in 1..0 : f[k] = ReadWord(f[k - 1], w[k]))
          /\ \A k \in 0..(0 - 1) : Len(f[k].got) \in Nat /\ Len(f[k].got) + 1 < NEntries
      OBVIOUS
    <3> HIDE DEF f, w
    <3>4. GetsFirst(h, w, 0)
      BY <3>1, <3>2, <3>3 DEF GetsFirst
    <3> QED BY <3>4 DEF w
  <2>2. NothingWritten.words = <<>> /\ NothingWritten.i = 1 /\ 1 - 1 = 0
    BY DEF NothingWritten
  <2>3. <<>> \in Seq(Nat) /\ Len(<<>>) = 0 /\ \A k \in 1..0 : <<>>[k] <= 65535
    OBVIOUS
  <2>4. 1 \in 1..NEntries
    BY <1>1 DEF N
  <2> QED BY <2>1, <2>2, <2>3, <2>4 DEF WrittenIsGood
<1> DEFINE T == {k \in Nat : k <= N => WrittenIsGood(h, u[k]) /\ (u[k].i > k \/ u[k].i = N)}
<1>6. T \in SUBSET Nat /\ 0 \in T
  <2>1. u[0].i = 1
    BY <1>4 DEF NothingWritten
  <2> QED BY <1>4, <1>5, <2>1
<1>7. ASSUME NEW k \in Nat, k \in T PROVE k + 1 \in T
  <2> SUFFICES ASSUME k + 1 <= N
               PROVE  WrittenIsGood(h, u[k + 1]) /\ (u[k + 1].i > k + 1 \/ u[k + 1].i = N)
    OBVIOUS
  <2>1. k + 1 \in 1..N /\ (k + 1) - 1 = k /\ k <= N
    BY <1>1
  <2> DEFINE b == u[k]
             q == u[k + 1]
  <2>2. WrittenIsGood(h, b) /\ (b.i > k \/ b.i = N)
    BY <1>7, <2>1
  <2>3. q = WriteWord(h, b)
    BY <1>4, <2>1
  <2> HIDE DEF b, q
  <2>4. WrittenIsGood(h, q) /\ (b.i < N => q.i > b.i) /\ (b.i = N => q.i = N)
    BY <2>2, <2>3, WriteWordIsGood DEF N
  <2>5. b.i \in 1..N /\ q.i \in 1..N
    BY <2>2, <2>4 DEF WrittenIsGood, N
  <2>6. q.i > k + 1 \/ q.i = N
    BY <1>1, <2>2, <2>4, <2>5
  <2> QED BY <2>4, <2>6 DEF q
<1>8. T = Nat
  <2> HIDE DEF T
  <2> QED BY <1>6, <1>7, Induction
<1>9. WrittenIsGood(h, u[N]) /\ (u[N].i > N \/ u[N].i = N)
  BY <1>1, <1>8
<1>10. u[N].i = N
  <2>1. u[N].i \in 1..N
    BY <1>9 DEF WrittenIsGood, N
  <2> QED BY <1>1, <1>9, <2>1
<1> DEFINE x == [words |-> Words(h), i |-> NEntries]
<1>11. x.words = u[N].words /\ x.i = u[N].i
  BY <1>2, <1>10 DEF N
<1> HIDE DEF x
<1>12. WrittenIsGood(h, x)
  BY <1>9, <1>11 DEF WrittenIsGood
<1> QED BY <1>12 DEF x

\* The decoder of a table gets back every entry and stops at the last word, and
\* notices a stream that ends earlier.
THEOREM TableReturns ==
    ASSUME NEW h \in Tables
    PROVE  /\ Words(h) \in Seq(Nat) /\ \A k \in 1..Len(Words(h)) : Words(h)[k] <= 65535
           /\ Read(Words(h)) = [table |-> h, used |-> Len(Words(h)), fail |-> FALSE]
           /\ \A k \in 0..(Len(Words(h)) - 1) : Read(SubSeq(Words(h), 1, k)).fail
<1> DEFINE W == Words(h)
           L == Len(W)
           x == [words |-> W, i |-> NEntries]
<1>1. WrittenIsGood(h, x)
  BY WordsAreGood
<1>2. x.words = W /\ x.i = NEntries
  OBVIOUS
<1> HIDE DEF x
<1>3. W \in Seq(Nat) /\ (\A k \in 1..L : W[k] <= 65535) /\ GetsFirst(h, W, NEntries - 1)
  BY <1>1, <1>2 DEF WrittenIsGood
<1> HIDE DEF W
<1>4. L \in Nat
  BY <1>3
<1>5. NEntries \in Nat /\ NEntries >= 2 /\ Pad \in Nat
  BY TableAssumption
<1>6. PICK f : /\ f[0] = NothingRead
               /\ \A k \in 1..L : f[k] = ReadWord(f[k - 1], W[k])
               /\ \A k \in 0..(L - 1) : Len(f[k].got) \in Nat /\ Len(f[k].got) + 1 < NEntries
               /\ f[L] = [got |-> Upto(h, NEntries - 1), used |-> L]
  <2>1. GetsFirst(h, W, NEntries - 1)
    BY <1>3
  <2> QED BY <2>1 DEF GetsFirst
<1>7. Upto(h, NEntries - 1) = h /\ Len(h) = NEntries - 1
  <2>1. h = [k \in 1..(NEntries - 1) |-> h[k]]
    BY DEF Tables
  <2>2. NEntries - 1 \in Nat
    BY <1>5
  <2>3. Len([k \in 1..(NEntries - 1) |-> h[k]]) = NEntries - 1
    BY <2>2
  <2> QED BY <2>1, <2>3 DEF Upto
<1>8. Read(W) = [table |-> h, used |-> L, fail |-> FALSE]
  <2> DEFINE b == f[L]
  <2>1. b.got = h /\ b.used = L
    BY <1>6, <1>7
  <2>2. Read(W) = [table |-> b.got, used |-> b.used, fail |-> Len(b.got) + 1 \notin NEntries..(NEntries + Pad)]
    BY <1>4, <1>6, ReadIs
  <2> HIDE DEF b
  <2>3. Len(b.got) + 1 \in NEntries..(NEntries + Pad)
    BY <1>5, <1>7, <2>1
  <2>4. (Len(b.got) + 1 \notin NEntries..(NEntries + Pad)) = FALSE
    BY <2>3
  <2> QED BY <2>1, <2>2, <2>4
<1>9. ASSUME NEW k \in 0..(L - 1) PROVE Read(SubSeq(W, 1, k)).fail
  <2> DEFINE S == SubSeq(W, 1, k)
             b == f[k]
  <2>1. k \in Nat /\ k < L
    BY <1>4
  <2>2. Len(S) = k /\ \A j \in 1..k : S[j] = W[j]
    BY <1>3, <2>1
  <2> HIDE DEF S
  <2>3. \A j \in 1..Len(S) : f[j] = ReadWord(f[j - 1], S[j])
    <3> SUFFICES ASSUME NEW j \in 1..k PROVE f[j] = ReadWord(f[j - 1], S[j])
      BY <2>2
    <3>1. j \in 1..L /\ S[j] = W[j]
      BY <1>4, <2>1, <2>2
    <3> QED BY <1>6, <3>1
  <2>4. Read(S) = [table |-> b.got, used |-> b.used, fail |-> Len(b.got) + 1 \notin NEntries..(NEntries + Pad)]
    <3>1. Len(S) \in Nat /\ f[0] = NothingRead
      BY <1>6, <2>1, <2>2
    <3> QED BY <2>2, <2>3, <3>1, ReadIs
  <2>5. Len(b.got) + 1 \notin NEntries..(NEntries + Pad)
    <3>1. Len(b.got) \in Nat /\ Len(b.got) + 1 < NEntries
      BY <1>6
    <3> HIDE DEF b
    <3> QED BY <1>5, <3>1
  <2> HIDE DEF b
  <2>6. Read(S).fail = (Len(b.got) + 1 \notin NEntries..(NEntries + Pad))
    BY <2>4
  <2> QED BY <2>5, <2>6 DEF S
<1> QED BY <1>3, <1>8, <1>9 DEF W

\* Mapper counts as the rest does.
LEMMA SameCount == ASSUME NEW S PROVE UV!Cardinality(S) = Cardinality(S)
BY DEF UV!Cardinality, Cardinality

\* The chroma values of an image without loss are numbered.
LEMMA ForwardIsNat ==
    ASSUME NEW mask, NEW v \in Int
    PROVE  UV!Forward(mask, v) \in Nat /\ IsFiniteSet({u \in 0..(v - 1) : mask[u] = 1})
<1> DEFINE below == {u \in 0..(v - 1) : mask[u] = 1}
<1>1. IsFiniteSet(0..(v - 1))
  <2> DEFINE w == v - 1
  <2>1. w \in Int
    OBVIOUS
  <2> HIDE DEF w
  <2>2. IsFiniteSet(0..w)
    BY <2>1, FS_Interval
  <2> QED BY <2>2 DEF w
<1>2. below \subseteq 0..(v - 1)
  OBVIOUS
<1> HIDE DEF below
<1>3. IsFiniteSet(below)
  BY <1>1, <1>2, FS_Subset
<1>4. Cardinality(below) \in Nat
  BY <1>3, FS_CardinalityType
<1>5. UV!Forward(mask, v) = Cardinality(below)
  BY SameCount DEF UV!Forward, below
<1> QED BY <1>3, <1>4, <1>5 DEF below

\* A value that occurs comes before those above it.
LEMMA ForwardGrows ==
    ASSUME NEW mask, NEW v \in Nat, mask[v] = 1, NEW w \in Nat, v < w
    PROVE  UV!Forward(mask, v) + 1 <= UV!Forward(mask, w)
<1> DEFINE S == {u \in 0..(v - 1) : mask[u] = 1}
           T == {u \in 0..(w - 1) : mask[u] = 1}
<1>1. IsFiniteSet(S) /\ IsFiniteSet(T)
  <2>1. v \in Int /\ w \in Int
    OBVIOUS
  <2> QED BY <2>1, ForwardIsNat
<1>2. v \notin S /\ S \cup {v} \subseteq T
  OBVIOUS
<1>3. UV!Forward(mask, v) = Cardinality(S) /\ UV!Forward(mask, w) = Cardinality(T)
  BY SameCount DEF UV!Forward
<1> HIDE DEF S, T
<1>4. Cardinality(S \cup {v}) = Cardinality(S) + 1
  BY <1>1, <1>2, FS_AddElement
<1>5. Cardinality(S \cup {v}) <= Cardinality(T)
  BY <1>1, <1>2, FS_Subset
<1> QED BY <1>3, <1>4, <1>5

-----------------------------------------------------------------------------
(* The values that occur.                                                  *)

\* Bits.
Bits01 == {0, 1}
Masks == [Values -> {0, 1}]

\* A run is as long as it gets.
LEMMA RunOfIs ==
    ASSUME NEW mask \in Masks, NEW i \in Nat, NEW b
    PROVE  LET r == RunOf(mask, i, b)
           IN  /\ r \in Nat /\ \A v \in i..(i + r - 1) : v \in Values /\ mask[v] = b
               /\ i <= MaxVal + 1 => i + r <= MaxVal + 1
               /\ i + r <= MaxVal => mask[i + r] # b
<1> DEFINE S == {0} \cup {n2 \in 1..(MaxVal + 1 - i) : \A v \in i..(i + n2 - 1) : mask[v] = b}
           r == Max(S)
<1>1. MaxVal \in Nat
  BY MapperAssumption
<1>2. RunOf(mask, i, b) = r
  BY DEF RunOf
<1>3. r \in S /\ \A y \in S : y <= r
  <2>1. S \in SUBSET (0..(MaxVal + 1)) /\ S # {}
    BY <1>1
  <2>2. MaxVal + 1 \in Nat
    BY <1>1
  <2> HIDE DEF S
  <2> QED BY <2>1, <2>2, LargestOf
<1> HIDE DEF r
<1>4. r \in Nat /\ (r # 0 => i + r <= MaxVal + 1) /\ \A v \in i..(i + r - 1) : mask[v] = b
  BY <1>1, <1>3
<1>5. \A v \in i..(i + r - 1) : v \in Values
  BY <1>1, <1>4 DEF Values
<1>6. i + r <= MaxVal => mask[i + r] # b
  <2> SUFFICES ASSUME i + r <= MaxVal, mask[i + r] = b PROVE FALSE
    OBVIOUS
  <2>1. r + 1 \in 1..(MaxVal + 1 - i)
    BY <1>1, <1>4
  <2>2. \A v \in i..(i + (r + 1) - 1) : mask[v] = b
    <3> SUFFICES ASSUME NEW v \in i..(i + (r + 1) - 1) PROVE mask[v] = b
      OBVIOUS
    <3>1. v = i + r \/ v \in i..(i + r - 1)
      BY <1>4
    <3> QED BY <1>4, <3>1
  <2>3. r + 1 \in S
    BY <2>1, <2>2
  <2> QED BY <1>3, <1>4, <2>3
<1>7. i <= MaxVal + 1 => i + r <= MaxVal + 1
  BY <1>1, <1>4
<1> QED BY <1>2, <1>4, <1>5, <1>6, <1>7

\* A word of the mask, for the values from i on: what it holds agrees with them,
\* it holds at least one, and a run fits its fields.
MaskWordIsGood(mask, i, prevb, word) ==
    /\ word.same \in Nat /\ word.flip \in Nat /\ word.bits \in Seq(Bits01)
    /\ word.same + word.flip + Len(word.bits) >= 1
    /\ \A k \in 1..word.same : i + k - 1 \in Values /\ mask[i + k - 1] = prevb
    /\ \A k \in 1..word.flip : i + word.same + k - 1 \in Values => mask[i + word.same + k - 1] = 1 - prevb
    /\ \A k \in 1..Len(word.bits) : i + k - 1 \in Values => mask[i + k - 1] = word.bits[k]
    /\ word.bits # <<>> => word.same = 0 /\ word.flip = 0 /\ Len(word.bits) = Lit
    /\ word.bits = <<>> => word.same - RunBase \in 0..(RunSpan - 1) /\ word.flip - 1 \in 0..(FlipMax - 1)

\* A word of a mask.
LEMMA MaskWordGood ==
    ASSUME NEW mask \in Masks, NEW i \in Values, NEW prevb \in Bits01
    PROVE  MaskWordIsGood(mask, i, prevb, MaskWord(mask, i, prevb))
<1> DEFINE same == RunOf(mask, i, prevb)
           after == RunOf(mask, i + same + 1, 1 - prevb)
           flip == 1 + after
           some == Min({flip, FlipMax})
           bits == [k \in 1..Lit |-> IF i + k - 1 \in Values THEN mask[i + k - 1] ELSE 0]
           w == MaskWord(mask, i, prevb)
<1>1. /\ MaxVal \in Nat /\ Lit \in Nat /\ Lit >= 1 /\ RunBase \in Nat /\ RunBase >= 1
      /\ RunSpan \in Nat /\ FlipMax \in Nat /\ FlipMax >= 1
  BY MapperAssumption
<1>2. i \in Nat /\ i <= MaxVal
  BY <1>1 DEF Values
<1>3. /\ same \in Nat /\ \A v \in i..(i + same - 1) : v \in Values /\ mask[v] = prevb
      /\ i + same <= MaxVal + 1
      /\ i + same <= MaxVal => mask[i + same] # prevb
  BY <1>1, <1>2, RunOfIs
<1> HIDE DEF same
<1>4. after \in Nat /\ \A v \in (i + same + 1)..((i + same + 1) + after - 1) : v \in Values /\ mask[v] = 1 - prevb
  <2>1. i + same + 1 \in Nat
    BY <1>2, <1>3
  <2> QED BY <2>1, RunOfIs
<1> HIDE DEF after
<1>5. w = IF same - RunBase \in 0..(RunSpan - 1) THEN [same |-> same, flip |-> some, bits |-> <<>>]
          ELSE [same |-> 0, flip |-> 0, bits |-> bits]
  BY DEF MaskWord, same, after
<1>6. some \in Nat /\ some >= 1 /\ some <= flip /\ some <= FlipMax
  <2>1. flip \in Nat /\ flip >= 1
    BY <1>4
  <2> HIDE DEF flip
  <2>2. Min({flip, FlipMax}) \in {flip, FlipMax} /\ \A y \in {flip, FlipMax} : Min({flip, FlipMax}) <= y
    <3>1. \E x \in {flip, FlipMax} : \A y \in {flip, FlipMax} : x <= y
      BY <1>1, <2>1
    <3> QED BY <3>1 DEF Min
  <2> QED BY <1>1, <2>1, <2>2
<1> SUFFICES MaskWordIsGood(mask, i, prevb, w)
  OBVIOUS
<1> HIDE DEF some, w
<1>7. CASE same - RunBase \in 0..(RunSpan - 1)
  <2>1. w.same = same /\ w.flip = some /\ w.bits = <<>>
    BY <1>5, <1>7
  <2>2. \A k \in 1..same : i + k - 1 \in Values /\ mask[i + k - 1] = prevb
    <3>1. \A k \in 1..same : i + k - 1 \in i..(i + same - 1)
      BY <1>2, <1>3
    <3> QED BY <1>3, <3>1
  <2>3. \A k \in 1..some : i + same + k - 1 \in Values => mask[i + same + k - 1] = 1 - prevb
    <3> SUFFICES ASSUME NEW k \in 1..some, i + same + k - 1 \in Values PROVE mask[i + same + k - 1] = 1 - prevb
      OBVIOUS
    <3>1. CASE k = 1
      <4>1. i + same + k - 1 = i + same
        BY <1>2, <1>3, <3>1
      <4>2. i + same <= MaxVal
        BY <1>1, <4>1 DEF Values
      <4>3. mask[i + same] \in {0, 1} /\ mask[i + same] # prevb
        BY <1>3, <4>1, <4>2 DEF Masks
      <4>4. mask[i + same] = 1 - prevb
        BY <4>3 DEF Bits01
      <4> QED BY <4>1, <4>4
    <3>2. CASE k # 1
      <4>1. i + same + k - 1 \in (i + same + 1)..((i + same + 1) + after - 1)
        BY <1>2, <1>3, <1>4, <1>6, <3>2
      <4> QED BY <1>4, <4>1
    <3> QED BY <3>1, <3>2
  <2>4. some - 1 \in 0..(FlipMax - 1)
    BY <1>1, <1>6
  <2>5. <<>> \in Seq(Bits01) /\ Len(<<>>) = 0 /\ same + some + 0 >= 1
    BY <1>3, <1>6
  <2>6. w.bits \in Seq(Bits01) /\ Len(w.bits) = 0 /\ w.same + w.flip + Len(w.bits) >= 1
    BY <2>1, <2>5
  <2> QED BY <1>3, <1>6, <1>7, <2>1, <2>2, <2>3, <2>4, <2>6 DEF MaskWordIsGood
<1>8. CASE ~ (same - RunBase \in 0..(RunSpan - 1))
  <2>1. w.same = 0 /\ w.flip = 0 /\ w.bits = bits
    BY <1>5, <1>8
  <2>2. bits \in Seq(Bits01) /\ Len(bits) = Lit
        /\ \A k \in 1..Lit : i + k - 1 \in Values => mask[i + k - 1] = bits[k]
    <3>1. \A k \in 1..Lit : (IF i + k - 1 \in Values THEN mask[i + k - 1] ELSE 0) \in Bits01
      BY DEF Masks, Bits01
    <3> QED BY <1>1, <3>1
  <2>3. bits # <<>>
    BY <1>1, <2>2
  <2> HIDE DEF bits
  <2> QED BY <1>1, <2>1, <2>2, <2>3 DEF MaskWordIsGood
<1> QED BY <1>7, <1>8

-----------------------------------------------------------------------------
(* All words of a mask.                                                    *)

\* Before the first word.
NoMask == [words |-> <<>>, i |-> 0, prevb |-> 0]
NoBits == [got |-> <<>>, used |-> 0, prevb |-> 0]
MaskLoop(u, mask, m) == u = [k \in 0..m |-> IF k = 0 THEN NoMask ELSE WriteMask(mask, u[k - 1])]
BitsLoop(u, words, m) == u = [k \in 0..m |-> IF k = 0 THEN NoBits ELSE ReadMask(u[k - 1], words[k])]

\* There is such a function.
LEMMA MaskLoopExists ==
    ASSUME NEW mask, NEW N \in Nat
    PROVE  \E u : MaskLoop(u, mask, N)
<1> DEFINE T == {m \in Nat : \E u : MaskLoop(u, mask, m)}
<1>1. 0 \in T
  <2> DEFINE u == [k \in 0..0 |-> NoMask]
  <2>1. MaskLoop(u, mask, 0)
    BY DEF MaskLoop
  <2> QED BY <2>1
<1>2. ASSUME NEW m \in Nat, m \in T PROVE m + 1 \in T
  <2>1. PICK u : MaskLoop(u, mask, m)
    BY <1>2
  <2> DEFINE h == [k \in 0..(m + 1) |-> IF k <= m THEN u[k] ELSE WriteMask(mask, u[m])]
  <2>2. \A k \in 0..m : h[k] = u[k]
    OBVIOUS
  <2>3. h[m + 1] = WriteMask(mask, h[m])
    BY <2>2
  <2>4. \A k \in 0..(m + 1) : h[k] = IF k = 0 THEN NoMask ELSE WriteMask(mask, h[k - 1])
    <3> TAKE k \in 0..(m + 1)
    <3>1. CASE k = m + 1
      BY <2>3, <3>1
    <3>2. CASE k \in 0..m
      <4>1. u[k] = IF k = 0 THEN NoMask ELSE WriteMask(mask, u[k - 1])
        BY <2>1, <3>2 DEF MaskLoop
      <4>2. k # 0 => u[k - 1] = h[k - 1]
        BY <2>2, <3>2
      <4> QED BY <2>2, <3>2, <4>1, <4>2
    <3> QED BY <3>1, <3>2
  <2> HIDE DEF h
  <2>5. h = [k \in 0..(m + 1) |-> h[k]]
    BY DEF h
  <2>6. MaskLoop(h, mask, m + 1)
    BY <2>4, <2>5 DEF MaskLoop
  <2> QED BY <2>6
<1>3. T = Nat
  <2> HIDE DEF T
  <2>1. T \in SUBSET Nat
    BY DEF T
  <2> QED BY <1>1, <1>2, <2>1, Induction
<1> QED BY <1>3

\* There is such a function.
LEMMA BitsLoopExists ==
    ASSUME NEW words, NEW N \in Nat
    PROVE  \E u : BitsLoop(u, words, N)
<1> DEFINE T == {m \in Nat : \E u : BitsLoop(u, words, m)}
<1>1. 0 \in T
  <2> DEFINE u == [k \in 0..0 |-> NoBits]
  <2>1. BitsLoop(u, words, 0)
    BY DEF BitsLoop
  <2> QED BY <2>1
<1>2. ASSUME NEW m \in Nat, m \in T PROVE m + 1 \in T
  <2>1. PICK u : BitsLoop(u, words, m)
    BY <1>2
  <2> DEFINE h == [k \in 0..(m + 1) |-> IF k <= m THEN u[k] ELSE ReadMask(u[m], words[(m + 1)])]
  <2>2. \A k \in 0..m : h[k] = u[k]
    OBVIOUS
  <2>3. h[m + 1] = ReadMask(h[m], words[(m + 1)])
    BY <2>2
  <2>4. \A k \in 0..(m + 1) : h[k] = IF k = 0 THEN NoBits ELSE ReadMask(h[k - 1], words[k])
    <3> TAKE k \in 0..(m + 1)
    <3>1. CASE k = m + 1
      BY <2>3, <3>1
    <3>2. CASE k \in 0..m
      <4>1. u[k] = IF k = 0 THEN NoBits ELSE ReadMask(u[k - 1], words[k])
        BY <2>1, <3>2 DEF BitsLoop
      <4>2. k # 0 => u[k - 1] = h[k - 1]
        BY <2>2, <3>2
      <4> QED BY <2>2, <3>2, <4>1, <4>2
    <3> QED BY <3>1, <3>2
  <2> HIDE DEF h
  <2>5. h = [k \in 0..(m + 1) |-> h[k]]
    BY DEF h
  <2>6. BitsLoop(h, words, m + 1)
    BY <2>4, <2>5 DEF BitsLoop
  <2> QED BY <2>6
<1>3. T = Nat
  <2> HIDE DEF T
  <2>1. T \in SUBSET Nat
    BY DEF T
  <2> QED BY <1>1, <1>2, <2>1, Induction
<1> QED BY <1>3

\* What a decoder that goes word by word has got.
LEMMA DecodeMaskIs ==
    ASSUME NEW words, NEW f, Len(words) \in Nat, f[0] = NoBits,
           \A k \in 1..Len(words) : f[k] = ReadMask(f[k - 1], words[k])
    PROVE  LET b == f[Len(words)]
           IN  DecodeMask(words) = [bits |-> SubSeq(b.got, 1, MaxVal + 1), used |-> b.used]
<1> DEFINE N == Len(words)
           u == CHOOSE g : BitsLoop(g, words, N)
           Answer(b) == [bits |-> SubSeq(b.got, 1, MaxVal + 1), used |-> b.used]
<1>1. DecodeMask(words) = Answer(u[N])
  BY DEF DecodeMask, BitsLoop, NoBits
<1>2. BitsLoop(u, words, N)
  BY BitsLoopExists
<1> HIDE DEF u, N, Answer
<1>3. N \in Nat /\ f[0] = NoBits /\ \A k \in 1..N : f[k] = ReadMask(f[k - 1], words[k])
  BY DEF N
<1>4. u[0] = NoBits /\ \A k \in 1..N : u[k] = ReadMask(u[k - 1], words[k])
  BY <1>2, <1>3 DEF BitsLoop
<1> DEFINE T == {k \in Nat : k <= N => u[k] = f[k]}
<1>5. T \in SUBSET Nat /\ 0 \in T
  BY <1>3, <1>4
<1>6. ASSUME NEW k \in Nat, k \in T PROVE k + 1 \in T
  <2> SUFFICES ASSUME k + 1 <= N PROVE u[k + 1] = f[k + 1]
    OBVIOUS
  <2>1. k + 1 \in 1..N /\ (k + 1) - 1 = k /\ k <= N
    BY <1>3
  <2>2. u[k] = f[k]
    BY <1>6, <2>1
  <2>3. u[k + 1] = ReadMask(u[k], words[k + 1]) /\ f[k + 1] = ReadMask(f[k], words[k + 1])
    BY <1>3, <1>4, <2>1
  <2> QED BY <2>2, <2>3
<1>7. T = Nat
  <2> HIDE DEF T
  <2> QED BY <1>5, <1>6, Induction
<1>8. u[N] = f[N]
  BY <1>3, <1>7
<1>9. DecodeMask(words) = Answer(f[N])
  BY <1>1, <1>8
<1> QED BY <1>9 DEF Answer, N

\* The bits a decoder has got are those of the mask, as far as it goes.
Agrees(mask, got) == got \in Seq(Bits01) /\ \A k \in 1..Len(got) : k - 1 \in Values => got[k] = mask[k - 1]

\* After a word: the first bits, how many, how many words they took, and what is
\* expected next.
HasRead(mask, b, i, used, prevb) == Agrees(mask, b.got) /\ Len(b.got) = i /\ b.used = used /\ b.prevb = prevb
Behind(i, word) == i + word.same + word.flip + Len(word.bits)

\* A decoder of these words has got the first i bits with them, and expects
\* what the encoder expects.
BitsRead(mask, words, i, prevb) ==
    \E f : /\ f[0] = NoBits
           /\ \A k \in 1..Len(words) : f[k] = ReadMask(f[k - 1], words[k])
           /\ HasRead(mask, f[Len(words)], i, Len(words), prevb)

\* One word, read where it was written.
LEMMA MaskWordReturns ==
    ASSUME NEW mask \in Masks, NEW b, NEW i \in Values, NEW used, NEW prevb \in Bits01, NEW word,
           MaskWordIsGood(mask, i, prevb, word), HasRead(mask, b, i, used, prevb)
    PROVE  HasRead(mask, ReadMask(b, word), Behind(i, word), used + 1, GetPrevB(prevb, word))
<1>0. Agrees(mask, b.got) /\ Len(b.got) = i /\ b.used = used /\ b.prevb = prevb
  BY DEF HasRead
<1> DEFINE A == word.same
           F == word.flip
           C == word.bits
           L == Len(C)
           x == Copies(A, prevb)
           y == Copies(F, 1 - prevb)
           g == b.got
           all == ((g \o x) \o y) \o C
<1>1. /\ A \in Nat /\ F \in Nat /\ C \in Seq(Bits01) /\ L \in Nat
      /\ \A k \in 1..A : i + k - 1 \in Values /\ mask[i + k - 1] = prevb
      /\ \A k \in 1..F : i + A + k - 1 \in Values => mask[i + A + k - 1] = 1 - prevb
      /\ \A k \in 1..L : i + k - 1 \in Values => mask[i + k - 1] = C[k]
      /\ C # <<>> => A = 0 /\ F = 0
  <2>1. /\ A \in Nat /\ F \in Nat /\ C \in Seq(Bits01)
        /\ C # <<>> => A = 0 /\ F = 0
    BY DEF MaskWordIsGood
  <2>2. \A k \in 1..A : i + k - 1 \in Values /\ mask[i + k - 1] = prevb
    BY DEF MaskWordIsGood
  <2>3. \A k \in 1..F : i + A + k - 1 \in Values => mask[i + A + k - 1] = 1 - prevb
    BY DEF MaskWordIsGood
  <2>4. \A k \in 1..L : i + k - 1 \in Values => mask[i + k - 1] = C[k]
    BY DEF MaskWordIsGood
  <2>5. L \in Nat
    BY <2>1
  <2> QED BY <2>1, <2>2, <2>3, <2>4, <2>5
<1>2. MaxVal \in Nat /\ i \in Nat /\ i <= MaxVal
  BY MapperAssumption DEF Values
<1>3. g \in Seq(Bits01) /\ Len(g) = i /\ \A k \in 1..i : k - 1 \in Values => g[k] = mask[k - 1]
  BY <1>0 DEF Agrees
<1>4. ReadMask(b, word) = [got |-> all, used |-> used + 1, prevb |-> GetPrevB(prevb, word)]
  <2>1. ~ (Len(b.got) > MaxVal)
    BY <1>2, <1>3
  <2> QED BY <1>0, <2>1 DEF ReadMask, Copies
<1> DEFINE c == ReadMask(b, word)
<1> HIDE DEF all
<1>5. c.got = all /\ c.used = used + 1 /\ c.prevb = GetPrevB(prevb, word)
  BY <1>4
<1> USE DEF all
<1> HIDE DEF A, F, C, g, c
<1>6. x \in Seq(Bits01) /\ Len(x) = A /\ \A k \in 1..A : x[k] = prevb
  BY <1>1, CopiesAre
<1>7. y \in Seq(Bits01) /\ Len(y) = F /\ \A k \in 1..F : y[k] = 1 - prevb
  <2>1. 1 - prevb \in Bits01
    BY DEF Bits01
  <2> DEFINE q == 1 - prevb
  <2> HIDE DEF q
  <2>2. Copies(F, q) \in Seq(Bits01) /\ Len(Copies(F, q)) = F /\ \A k \in 1..F : Copies(F, q)[k] = q
    <3>1. F \in Nat /\ q \in Bits01
      BY <1>1, <2>1 DEF q
    <3> QED BY <3>1, CopiesAre
  <2> QED BY <2>2 DEF q
<1> HIDE DEF x, y
<1> DEFINE gx == g \o x
           gxy == gx \o y
<1>8. /\ gx \in Seq(Bits01) /\ Len(gx) = i + A
      /\ \A k \in 1..(i + A) : gx[k] = IF k <= i THEN g[k] ELSE x[k - i]
  <2>1. /\ gx \in Seq(Bits01) /\ Len(gx) = Len(g) + Len(x)
        /\ \A k \in 1..(Len(g) + Len(x)) : gx[k] = IF k <= Len(g) THEN g[k] ELSE x[k - Len(g)]
    BY <1>3, <1>6, ConcatProperties
  <2> HIDE DEF gx
  <2> QED BY <1>3, <1>6, <2>1
<1> HIDE DEF gx
<1>9. /\ gxy \in Seq(Bits01) /\ Len(gxy) = (i + A) + F
      /\ \A k \in 1..((i + A) + F) : gxy[k] = IF k <= i + A THEN gx[k] ELSE y[k - (i + A)]
  <2>1. /\ gxy \in Seq(Bits01) /\ Len(gxy) = Len(gx) + Len(y)
        /\ \A k \in 1..(Len(gx) + Len(y)) : gxy[k] = IF k <= Len(gx) THEN gx[k] ELSE y[k - Len(gx)]
    BY <1>7, <1>8, ConcatProperties
  <2> HIDE DEF gxy
  <2> QED BY <1>7, <1>8, <2>1
<1> HIDE DEF gxy
<1>10. all = gxy \o C
  BY DEF gxy, gx
<1>11. /\ all \in Seq(Bits01) /\ Len(all) = ((i + A) + F) + L
       /\ \A k \in 1..(((i + A) + F) + L) : all[k] = IF k <= (i + A) + F THEN gxy[k] ELSE C[k - ((i + A) + F)]
  <2>1. /\ gxy \o C \in Seq(Bits01) /\ Len(gxy \o C) = Len(gxy) + Len(C)
        /\ \A k \in 1..(Len(gxy) + Len(C)) : (gxy \o C)[k] = IF k <= Len(gxy) THEN gxy[k] ELSE C[k - Len(gxy)]
    BY <1>1, <1>9, ConcatProperties
  <2> HIDE DEF all
  <2> QED BY <1>9, <1>10, <2>1
<1> HIDE DEF all
<1>12. \A k \in 1..(((i + A) + F) + L) : k - 1 \in Values => all[k] = mask[k - 1]
  <2> SUFFICES ASSUME NEW k \in 1..(((i + A) + F) + L), k - 1 \in Values PROVE all[k] = mask[k - 1]
    OBVIOUS
  <2>1. CASE k <= i
    <3>1. k \in 1..i /\ k \in 1..(i + A) /\ k \in 1..((i + A) + F) /\ k <= i + A /\ k <= (i + A) + F
      BY <1>1, <1>2, <2>1
    <3> QED BY <1>3, <1>8, <1>9, <1>11, <2>1, <3>1
  <2>2. CASE ~ (k <= i) /\ k <= i + A
    <3> DEFINE j == k - i
    <3>1. j \in 1..A /\ k \in 1..(i + A) /\ k \in 1..((i + A) + F) /\ k <= (i + A) + F /\ i + j - 1 = k - 1
      BY <1>1, <1>2, <2>2
    <3>2. all[k] = x[j]
      BY <1>8, <1>9, <1>11, <2>2, <3>1
    <3> HIDE DEF j
    <3> QED BY <1>1, <1>6, <3>1, <3>2
  <2>3. CASE ~ (k <= i + A) /\ k <= (i + A) + F
    <3> DEFINE j == k - (i + A)
    <3>1. j \in 1..F /\ k \in 1..((i + A) + F) /\ i + A + j - 1 = k - 1
      BY <1>1, <1>2, <2>3
    <3>2. all[k] = y[j]
      BY <1>9, <1>11, <2>3, <3>1
    <3> HIDE DEF j
    <3> QED BY <1>1, <1>7, <3>1, <3>2
  <2>4. CASE ~ (k <= (i + A) + F)
    <3>1. L # 0
      BY <1>1, <1>2, <2>4
    <3>2. C # <<>>
      BY <1>1, <3>1
    <3>3. A = 0 /\ F = 0
      BY <1>1, <3>2
    <3> DEFINE j == k - i
    <3>4. j \in 1..L /\ (i + A) + F = i /\ i + j - 1 = k - 1 /\ ~ (k <= i)
      BY <1>1, <1>2, <2>4, <3>3
    <3>5. all[k] = C[j]
      BY <1>11, <2>4, <3>4
    <3> HIDE DEF j
    <3> QED BY <1>1, <3>4, <3>5
  <2> QED BY <2>1, <2>2, <2>3, <2>4
<1>13. Agrees(mask, all)
  BY <1>11, <1>12 DEF Agrees
<1>14. Agrees(mask, c.got) /\ Len(c.got) = i + A + F + L /\ c.used = used + 1 /\ c.prevb = GetPrevB(prevb, word)
  BY <1>5, <1>11, <1>13
<1> QED BY <1>14 DEF HasRead, Behind, c, A, F, C

\* What fits its fields.
FitsFields(word) ==
    word.bits = <<>> => word.same - RunBase \in 0..(RunSpan - 1) /\ word.flip - 1 \in 0..(FlipMax - 1)

\* What has been written of a mask.
MaskWritten(mask, b) ==
    /\ b.i \in Nat /\ b.prevb \in Bits01 /\ Len(b.words) \in Nat
    /\ \E S : b.words \in Seq(S)
    /\ \A k \in 1..Len(b.words) : FitsFields(b.words[k])
    /\ BitsRead(mask, b.words, b.i, b.prevb)

\* What is expected after a word is a bit.
LEMMA ExpectedIsBit ==
    ASSUME NEW mask, NEW i, NEW prevb \in Bits01, NEW word, MaskWordIsGood(mask, i, prevb, word)
    PROVE  GetPrevB(prevb, word) \in Bits01
<1>1. Lit \in Nat /\ Lit >= 1
  BY MapperAssumption
<1>2. word.bits \in Seq(Bits01) /\ (word.bits # <<>> => Len(word.bits) = Lit)
  BY DEF MaskWordIsGood
<1>3. CASE word.bits # <<>>
  <2>1. Lit \in 1..Len(word.bits)
    BY <1>1, <1>2, <1>3
  <2>2. word.bits[Lit] \in Bits01
    BY <1>2, <2>1
  <2> QED BY <1>3, <2>2 DEF GetPrevB
<1>4. CASE word.bits = <<>>
  <2>1. 1 - prevb \in Bits01
    BY DEF Bits01
  <2> QED BY <1>4, <2>1 DEF GetPrevB
<1> QED BY <1>3, <1>4

\* One more word is read as well.
LEMMA WriteMaskIsGood ==
    ASSUME NEW mask \in Masks, NEW b, MaskWritten(mask, b)
    PROVE  /\ MaskWritten(mask, WriteMask(mask, b))
           /\ b.i <= MaxVal => WriteMask(mask, b).i > b.i
           /\ b.i > MaxVal => WriteMask(mask, b).i > MaxVal
<1> DEFINE i == b.i
           p == b.prevb
           w == b.words
           L == Len(w)
           word == MaskWord(mask, i, p)
           W == Append(w, word)
           more == Behind(i, word)
           q == WriteMask(mask, b)
<1>1. i \in Nat /\ p \in Bits01 /\ L \in Nat /\ (\E S : w \in Seq(S)) /\ \A k \in 1..L : FitsFields(w[k])
  BY DEF MaskWritten
<1>2. PICK f : /\ f[0] = NoBits
               /\ \A k \in 1..L : f[k] = ReadMask(f[k - 1], w[k])
               /\ HasRead(mask, f[L], i, L, p)
  <2>1. BitsRead(mask, w, i, p)
    BY DEF MaskWritten
  <2> QED BY <2>1 DEF BitsRead
<1>3. MaxVal \in Nat
  BY MapperAssumption
<1>4. CASE i > MaxVal
  <2>1. q = b
    BY <1>4 DEF WriteMask
  <2> QED BY <1>1, <1>3, <1>4, <2>1
<1>5. CASE ~ (i > MaxVal)
  <2>1. i \in Values
    BY <1>1, <1>3, <1>5 DEF Values
  <2>2. q = [words |-> W, i |-> more, prevb |-> GetPrevB(p, word)]
    BY <1>5 DEF WriteMask, Behind
  <2>3. MaskWordIsGood(mask, i, p, word)
    BY <1>1, <2>1, MaskWordGood
  <2> HIDE DEF word
  <2>4. more \in Nat /\ more > i
    <3>1. /\ word.same \in Nat /\ word.flip \in Nat /\ word.bits \in Seq(Bits01)
          /\ word.same + word.flip + Len(word.bits) >= 1
      BY <2>3 DEF MaskWordIsGood
    <3>2. Len(word.bits) \in Nat
      BY <3>1
    <3>3. i \in Nat
      BY <1>1
    <3> QED BY <3>1, <3>2, <3>3 DEF Behind
  <2>5. FitsFields(word)
    BY <2>3 DEF MaskWordIsGood, FitsFields
  <2>6. GetPrevB(p, word) \in Bits01
    BY <1>1, <2>3, ExpectedIsBit
  <2>7. /\ Len(W) = L + 1 /\ W[L + 1] = word /\ \A k \in 1..L : W[k] = w[k]
        /\ \E S : W \in Seq(S)
    <3>1. PICK S : w \in Seq(S)
      BY <1>1
    <3> DEFINE T == S \cup {word}
    <3>2. w \in Seq(T) /\ word \in T
      BY <3>1
    <3> HIDE DEF T, w
    <3>3. W \in Seq(T) /\ Len(W) = Len(w) + 1 /\ W[Len(w) + 1] = word /\ \A k \in 1..Len(w) : W[k] = w[k]
      BY <3>2, AppendProperties
    <3> QED BY <3>3
  <2> DEFINE c == ReadMask(f[L], word)
  <2>8. HasRead(mask, c, more, L + 1, GetPrevB(p, word))
    <3>1. i \in Values /\ p \in Bits01 /\ MaskWordIsGood(mask, i, p, word)
      BY <1>1, <2>1, <2>3
    <3>2. HasRead(mask, f[L], i, L, p)
      BY <1>2
    <3> HIDE DEF i, p, L
    <3> QED BY <3>1, <3>2, MaskWordReturns
  <2> HIDE DEF W, c, more, L
  <2> DEFINE g == [k \in 0..(L + 1) |-> IF k <= L THEN f[k] ELSE c]
  <2>9. (\A k \in 0..L : g[k] = f[k]) /\ g[L + 1] = c
    BY <1>1
  <2> HIDE DEF g
  <2>10. g[0] = NoBits
    BY <1>1, <1>2, <2>9
  <2>11. \A k \in 1..(L + 1) : g[k] = ReadMask(g[k - 1], W[k])
    <3> SUFFICES ASSUME NEW k \in 1..(L + 1) PROVE g[k] = ReadMask(g[k - 1], W[k])
      OBVIOUS
    <3>1. CASE k <= L
      <4>1. k \in 1..L /\ k \in 0..L /\ k - 1 \in 0..L
        BY <1>1, <3>1
      <4>2. g[k] = f[k] /\ g[k - 1] = f[k - 1] /\ W[k] = w[k]
        BY <2>7, <2>9, <4>1
      <4> QED BY <1>2, <4>1, <4>2
    <3>2. CASE ~ (k <= L)
      <4>1. k = L + 1 /\ k - 1 = L /\ L \in 0..L
        BY <1>1, <3>2
      <4>2. g[k] = c /\ g[k - 1] = f[L] /\ W[k] = word
        BY <2>7, <2>9, <4>1
      <4> QED BY <4>2 DEF c
    <3> QED BY <3>1, <3>2
  <2>12. BitsRead(mask, W, more, GetPrevB(p, word))
    <3>1. \A k \in 1..Len(W) : g[k] = ReadMask(g[k - 1], W[k])
      BY <2>7, <2>11
    <3>2. HasRead(mask, g[Len(W)], more, Len(W), GetPrevB(p, word))
      BY <2>7, <2>8, <2>9
    <3> QED BY <2>10, <3>1, <3>2 DEF BitsRead
  <2>13. \A k \in 1..Len(W) : FitsFields(W[k])
    <3> SUFFICES ASSUME NEW k \in 1..(L + 1) PROVE FitsFields(W[k])
      BY <2>7
    <3>1. k \in 1..L \/ k = L + 1
      BY <1>1
    <3> QED BY <1>1, <2>5, <2>7, <3>1
  <2>14. q.words = W /\ q.i = more /\ q.prevb = GetPrevB(p, word)
    BY <2>2
  <2>15. Len(W) \in Nat
    BY <1>1, <2>7
  <2> HIDE DEF q
  <2>16. MaskWritten(mask, q)
    BY <2>4, <2>6, <2>7, <2>12, <2>13, <2>14, <2>15 DEF MaskWritten
  <2> QED BY <1>5, <2>4, <2>14, <2>16 DEF q
<1> QED BY <1>4, <1>5

\* The whole mask is written in the end.
LEMMA MaskIsWritten ==
    ASSUME NEW mask \in Masks
    PROVE  \E b : MaskWritten(mask, b) /\ b.i > MaxVal /\ b.words = EncodeMask(mask)
<1> DEFINE N == MaxVal + 1
           u == CHOOSE g : MaskLoop(g, mask, N)
<1>1. N \in Nat /\ MaxVal \in Nat
  BY MapperAssumption
<1>2. EncodeMask(mask) = u[N].words
  BY DEF EncodeMask, MaskLoop, NoMask
<1>3. MaskLoop(u, mask, N)
  BY <1>1, MaskLoopExists
<1> HIDE DEF u
<1>4. u[0] = NoMask /\ \A k \in 1..N : u[k] = WriteMask(mask, u[k - 1])
  BY <1>1, <1>3 DEF MaskLoop
<1>5. MaskWritten(mask, NoMask)
  <2> DEFINE f == [k \in 0..0 |-> NoBits]
             w == <<>>
  <2>1. f[0] = NoBits /\ Len(w) = 0 /\ w \in Seq({})
    OBVIOUS
  <2>2. NoBits.got = <<>> /\ NoBits.used = 0 /\ NoBits.prevb = 0
    BY DEF NoBits
  <2>3. Agrees(mask, w)
    BY DEF Agrees
  <2>4. \A k \in 1..0 : f[k] = ReadMask(f[k - 1], w[k]) /\ FitsFields(w[k])
    OBVIOUS
  <2>5. NoMask.words = w /\ NoMask.i = 0 /\ NoMask.prevb = 0
    BY DEF NoMask
  <2>6. 0 \in Bits01
    BY DEF Bits01
  <2>7. f[0].got = w /\ f[0].used = 0 /\ f[0].prevb = 0
    BY <2>1, <2>2
  <2> HIDE DEF f, w
  <2>8. BitsRead(mask, w, 0, 0)
    BY <2>1, <2>3, <2>4, <2>7 DEF BitsRead, HasRead
  <2> QED BY <2>1, <2>4, <2>5, <2>6, <2>8 DEF MaskWritten
<1> DEFINE T == {k \in Nat : k <= N => MaskWritten(mask, u[k]) /\ (u[k].i >= k \/ u[k].i > MaxVal)}
<1>6. T \in SUBSET Nat /\ 0 \in T
  <2>1. u[0].i = 0
    BY <1>4 DEF NoMask
  <2> QED BY <1>4, <1>5, <2>1
<1>7. ASSUME NEW k \in Nat, k \in T PROVE k + 1 \in T
  <2> SUFFICES ASSUME k + 1 <= N
               PROVE  MaskWritten(mask, u[k + 1]) /\ (u[k + 1].i >= k + 1 \/ u[k + 1].i > MaxVal)
    OBVIOUS
  <2>1. k + 1 \in 1..N /\ (k + 1) - 1 = k /\ k <= N
    BY <1>1
  <2> DEFINE b == u[k]
             q == u[k + 1]
  <2>2. MaskWritten(mask, b) /\ (b.i >= k \/ b.i > MaxVal)
    BY <1>7, <2>1
  <2>3. q = WriteMask(mask, b)
    BY <1>4, <2>1
  <2> HIDE DEF b, q
  <2>4. MaskWritten(mask, q) /\ (b.i <= MaxVal => q.i > b.i) /\ (b.i > MaxVal => q.i > MaxVal)
    BY <2>2, <2>3, WriteMaskIsGood
  <2>5. b.i \in Nat /\ q.i \in Nat
    BY <2>2, <2>4 DEF MaskWritten
  <2>6. q.i >= k + 1 \/ q.i > MaxVal
    BY <1>1, <2>2, <2>4, <2>5
  <2> QED BY <2>4, <2>6 DEF q
<1>8. T = Nat
  <2> HIDE DEF T
  <2> QED BY <1>6, <1>7, Induction
<1>9. MaskWritten(mask, u[N]) /\ (u[N].i >= N \/ u[N].i > MaxVal)
  <2>1. N \in T
    <3> HIDE DEF T
    <3> QED BY <1>1, <1>8
  <2> QED BY <1>1, <2>1
<1>10. u[N].i > MaxVal
  <2>1. u[N].i \in Nat
    BY <1>9 DEF MaskWritten
  <2> QED BY <1>1, <1>9, <2>1
<1> QED BY <1>2, <1>9, <1>10

\* Mapper counts as the rest does.
LEMMA SameNumbers == ASSUME NEW mask, NEW v PROVE Forward(mask, v) = UV!Forward(mask, v)
BY SameCount DEF Forward, UV!Forward

\* A value that occurs comes back from its number.
LEMMA NumberReturns ==
    ASSUME NEW mask, NEW v \in Values, mask[v] = 1
    PROVE  Backward(mask, Forward(mask, v)) = v
<1> DEFINE w == Forward(mask, v)
           back == Backward(mask, w)
           Fits(u) == u \in Values /\ mask[u] = 1 /\ Forward(mask, u) = w
<1>1. \A u \in Values : u \in Nat
  BY DEF Values
<1>2. Fits(v)
  OBVIOUS
<1>3. back = CHOOSE u \in Values : mask[u] = 1 /\ Forward(mask, u) = w
  BY DEF Backward
<1> HIDE DEF w
<1>4. Fits(back)
  BY <1>2, <1>3
<1> HIDE DEF back
<1>5. ~ (back < v) /\ ~ (v < back)
  <2>1. back \in Nat /\ v \in Nat
    BY <1>1, <1>4
  <2>2. UV!Forward(mask, back) \in Nat /\ UV!Forward(mask, v) \in Nat
    <3>1. back \in Int /\ v \in Int
      BY <2>1
    <3> QED BY <3>1, ForwardIsNat
  <2>3. UV!Forward(mask, back) = UV!Forward(mask, v)
    BY <1>2, <1>4, SameNumbers
  <2>4. ASSUME back < v PROVE FALSE
    BY <1>4, <2>1, <2>2, <2>3, <2>4, ForwardGrows
  <2>5. ASSUME v < back PROVE FALSE
    BY <1>2, <2>1, <2>2, <2>3, <2>5, ForwardGrows
  <2> QED BY <2>4, <2>5
<1>6. back = v
  BY <1>1, <1>4, <1>5
<1> QED BY <1>6 DEF back, w

\* The decoder of NBLI gets the mask from the same number of words, all of which
\* fit their fields, and each value that occurs from its number.
THEOREM MaskReturns ==
    ASSUME NEW mask \in Masks
    PROVE  LET words == EncodeMask(mask)
           IN  /\ DecodeMask(words) = [bits |-> [k \in 1..(MaxVal + 1) |-> mask[k - 1]], used |-> Len(words)]
               /\ \A k \in 1..Len(words) : FitsFields(words[k])
               /\ DOMAIN words = 1..Len(words)
               /\ \A v \in Values : mask[v] = 1 => Backward(mask, Forward(mask, v)) = v
<1> DEFINE W == EncodeMask(mask)
           L == Len(W)
<1>1. PICK b : MaskWritten(mask, b) /\ b.i > MaxVal /\ b.words = W
  BY MaskIsWritten
<1> HIDE DEF W
<1>2. MaxVal \in Nat
  BY MapperAssumption
<1>3. /\ b.i \in Nat /\ L \in Nat /\ \A k \in 1..L : FitsFields(W[k])
      /\ \E S : W \in Seq(S)
      /\ BitsRead(mask, W, b.i, b.prevb)
  BY <1>1 DEF MaskWritten
<1>4. DOMAIN W = 1..L
  BY <1>3
<1>5. PICK f : /\ f[0] = NoBits
               /\ \A k \in 1..L : f[k] = ReadMask(f[k - 1], W[k])
               /\ HasRead(mask, f[L], b.i, L, b.prevb)
  <2>1. BitsRead(mask, W, b.i, b.prevb)
    BY <1>3
  <2> QED BY <2>1 DEF BitsRead
<1> DEFINE got == f[L].got
           head == SubSeq(got, 1, MaxVal + 1)
           all == [k \in 1..(MaxVal + 1) |-> mask[k - 1]]
<1>6. head = all
  <2>1. got \in Seq(Bits01) /\ Len(got) >= MaxVal + 1 /\ \A k \in 1..Len(got) : k - 1 \in Values => got[k] = mask[k - 1]
    BY <1>1, <1>2, <1>3, <1>5 DEF Agrees, HasRead
  <2> HIDE DEF got
  <2>2. Len(got) \in Nat
    BY <2>1
  <2>3. head \in Seq(Bits01) /\ Len(head) = MaxVal + 1 /\ \A k \in 1..(MaxVal + 1) : head[k] = got[k]
    BY <1>2, <2>1, <2>2
  <2>4. \A k \in 1..(MaxVal + 1) : k - 1 \in Values /\ k \in 1..Len(got)
    BY <1>2, <2>1, <2>2 DEF Values
  <2>5. \A k \in 1..(MaxVal + 1) : head[k] = mask[k - 1]
    BY <2>1, <2>3, <2>4
  <2>6. all \in Seq(Bits01) /\ Len(all) = MaxVal + 1 /\ \A k \in 1..(MaxVal + 1) : all[k] = mask[k - 1]
    <3>1. \A k \in 1..(MaxVal + 1) : mask[k - 1] \in Bits01
      BY <2>4 DEF Masks, Bits01
    <3>2. MaxVal + 1 \in Nat
      BY <1>2
    <3> QED BY <3>1, <3>2
  <2> HIDE DEF head, all
  <2> QED BY <2>3, <2>5, <2>6, SeqEqual
<1>7. DecodeMask(W) = [bits |-> head, used |-> f[L].used]
  <2>1. L \in Nat /\ f[0] = NoBits /\ \A k \in 1..L : f[k] = ReadMask(f[k - 1], W[k])
    BY <1>3, <1>5
  <2> QED BY <2>1, DecodeMaskIs
<1> HIDE DEF head, all, got
<1>8. DecodeMask(W) = [bits |-> all, used |-> L]
  <2>1. f[L].used = L
    BY <1>5 DEF HasRead
  <2> QED BY <1>6, <1>7, <2>1
<1> QED BY <1>3, <1>4, <1>8, NumberReturns DEF W, all

-----------------------------------------------------------------------------
(* The filters of the PNG writer.                                          *)

\* The rows of an image of the run, and what may be above a row.
RowOf == [1..Width -> Pixels]
Aboves == RowOf \cup {<<>>}

\* The byte a filter guesses from the left, upper and upper left neighbours.
GuessOf(f, a, b, c) ==
    CASE f = 0 -> 0
      [] f = 1 -> a
      [] f = 2 -> b
      [] f = 3 -> (a + b) \div 2
      [] f = 4 -> Paeth(a, b, c)

\* Guess by its neighbours.
LEMMA GuessIs ==
    ASSUME NEW f, NEW cur, NEW prev, NEW i
    PROVE  Guess(f, cur, prev, i) =
              GuessOf(f, IF i > Bpp THEN cur[i - Bpp] ELSE 0, IF prev # <<>> THEN prev[i] ELSE 0,
                      IF prev # <<>> /\ i > Bpp THEN prev[i - Bpp] ELSE 0)
BY DEF Guess, GuessOf

\* A guess from numbers is one.
LEMMA GuessOfIsInt ==
    ASSUME NEW f \in 0..4, NEW a \in Int, NEW b \in Int, NEW c \in Int
    PROVE  GuessOf(f, a, b, c) \in Int
<1>1. Paeth(a, b, c) \in Int
  <2> DEFINE p == (a + b) - c
             nearest == Min({AbsDiff(p, a), AbsDiff(p, b), AbsDiff(p, c)})
  <2>1. Paeth(a, b, c) = IF AbsDiff(p, a) = nearest THEN a ELSE IF AbsDiff(p, b) = nearest THEN b ELSE c
    BY DEF Paeth
  <2> HIDE DEF p, nearest
  <2> QED BY <2>1
<1>2. (a + b) \div 2 \in Int
  BY SMT
<1> DEFINE half == (a + b) \div 2
           nearer == Paeth(a, b, c)
<1>3. GuessOf(f, a, b, c) = CASE f = 0 -> 0 [] f = 1 -> a [] f = 2 -> b [] f = 3 -> half [] f = 4 -> nearer
  BY DEF GuessOf
<1> HIDE DEF half, nearer
<1>4. half \in Int /\ nearer \in Int
  BY <1>1, <1>2 DEF half, nearer
<1> QED BY <1>3, <1>4

\* The bytes of the run are numbers below Bytes.
LEMMA BytesAre ==
    /\ Bytes \in Nat \ {0} /\ Bpp \in Nat \ {0} /\ Width \in Nat \ {0}
    /\ \A x \in Pixels : x \in Nat /\ x < Bytes
<1>1. Bytes \in Nat \ {0} /\ Bpp \in Nat \ {0}
  BY PngAssumption
<1> QED BY <1>1, InputsAssumption

\* A guess within a row.
LEMMA GuessIsInt ==
    ASSUME NEW f \in 0..4, NEW cur \in RowOf, NEW prev \in Aboves, NEW i \in 1..Width
    PROVE  Guess(f, cur, prev, i) \in Int
<1> DEFINE a == IF i > Bpp THEN cur[i - Bpp] ELSE 0
           b == IF prev # <<>> THEN prev[i] ELSE 0
           c == IF prev # <<>> /\ i > Bpp THEN prev[i - Bpp] ELSE 0
<1>1. i > Bpp => i - Bpp \in 1..Width
  BY BytesAre
<1>2. prev # <<>> => prev \in RowOf
  BY DEF Aboves
<1>3. \A r \in RowOf : \A k \in 1..Width : r[k] \in Int
  BY BytesAre DEF RowOf
<1>4. a \in Int
  BY <1>1, <1>3
<1>5. b \in Int
  BY <1>2, <1>3
<1>6. c \in Int
  BY <1>1, <1>2, <1>3
<1>7. Guess(f, cur, prev, i) = GuessOf(f, a, b, c)
  BY GuessIs
<1> HIDE DEF a, b, c
<1> QED BY <1>4, <1>5, <1>6, <1>7, GuessOfIsInt

\* A difference taken and added again.
LEMMA ByteReturns ==
    ASSUME NEW m \in Nat \ {0}, NEW x \in Nat, x < m, NEW g \in Int
    PROVE  /\ (x - g) % m \in Nat /\ (x - g) % m < m
           /\ (((x - g) % m) + g) % m = x
<1> DEFINE q == (x - g) \div m
           r == (x - g) % m
<1>1. q \in Int /\ r \in Nat /\ r < m /\ x - g = m * q + r
  BY SMT
<1> HIDE DEF q, r
<1>2. m * (0 - q) = 0 - m * q /\ m * q \in Int
  BY <1>1
<1>3. r + g = m * (0 - q) + x
  BY <1>1, <1>2
<1>4. \A p \in Int : (m * p + x) % m = x
  BY SMT
<1> DEFINE p == 0 - q
<1>5. (r + g) % m = x
  <2>1. p \in Int /\ r + g = m * p + x
    BY <1>1, <1>3
  <2> HIDE DEF p
  <2> QED BY <1>4, <2>1
<1> QED BY <1>1, <1>5 DEF r

-----------------------------------------------------------------------------
(* The filter of a row.                                                    *)

\* What a byte adds to the sum of a filter.
Adds(cur, prev, level, f, i) ==
    IF i \in Sampled(cur, level) THEN FromZero((cur[i] - Guess(f, cur, prev, i)) % Bytes) ELSE 0

\* The sum of a filter, byte by byte.
ScoreLoop(u, cur, prev, level, f, m) ==
    u = [k \in 0..m |-> IF k = 0 THEN 0 ELSE u[k - 1] + Adds(cur, prev, level, f, k)]

\* There is such a function.
LEMMA ScoreLoopExists ==
    ASSUME NEW cur, NEW prev, NEW level, NEW f, NEW N \in Nat
    PROVE  \E u : ScoreLoop(u, cur, prev, level, f, N)
<1> DEFINE T == {m \in Nat : \E u : ScoreLoop(u, cur, prev, level, f, m)}
<1>1. 0 \in T
  <2> DEFINE u == [k \in 0..0 |-> 0]
  <2>1. ScoreLoop(u, cur, prev, level, f, 0)
    BY DEF ScoreLoop
  <2> QED BY <2>1
<1>2. ASSUME NEW m \in Nat, m \in T PROVE m + 1 \in T
  <2>1. PICK u : ScoreLoop(u, cur, prev, level, f, m)
    BY <1>2
  <2> DEFINE h == [k \in 0..(m + 1) |-> IF k <= m THEN u[k] ELSE u[m] + Adds(cur, prev, level, f, (m + 1))]
  <2>2. \A k \in 0..m : h[k] = u[k]
    OBVIOUS
  <2>3. h[m + 1] = h[m] + Adds(cur, prev, level, f, (m + 1))
    BY <2>2
  <2>4. \A k \in 0..(m + 1) : h[k] = IF k = 0 THEN 0 ELSE h[k - 1] + Adds(cur, prev, level, f, k)
    <3> TAKE k \in 0..(m + 1)
    <3>1. CASE k = m + 1
      BY <2>3, <3>1
    <3>2. CASE k \in 0..m
      <4>1. u[k] = IF k = 0 THEN 0 ELSE u[k - 1] + Adds(cur, prev, level, f, k)
        BY <2>1, <3>2 DEF ScoreLoop
      <4>2. k # 0 => u[k - 1] = h[k - 1]
        BY <2>2, <3>2
      <4> QED BY <2>2, <3>2, <4>1, <4>2
    <3> QED BY <3>1, <3>2
  <2> HIDE DEF h
  <2>5. h = [k \in 0..(m + 1) |-> h[k]]
    BY DEF h
  <2>6. ScoreLoop(h, cur, prev, level, f, m + 1)
    BY <2>4, <2>5 DEF ScoreLoop
  <2> QED BY <2>6
<1>3. T = Nat
  <2> HIDE DEF T
  <2>1. T \in SUBSET Nat
    BY DEF T
  <2> QED BY <1>1, <1>2, <2>1, Induction
<1> QED BY <1>3

\* The sum of a filter is a number.
LEMMA ScoreIsNat ==
    ASSUME NEW cur \in RowOf, NEW prev \in Aboves, NEW level, NEW f \in 0..4
    PROVE  Score(cur, prev, level, f) \in Nat
<1> DEFINE N == Len(cur)
           u == CHOOSE g : ScoreLoop(g, cur, prev, level, f, N)
<1>1. Score(cur, prev, level, f) = u[N]
  BY DEF Score, ScoreLoop, Adds
<1>2. N \in Nat /\ N = Width
  BY BytesAre DEF RowOf
<1>3. ScoreLoop(u, cur, prev, level, f, N)
  BY <1>2, ScoreLoopExists
<1>4. \A k \in 1..Width : Adds(cur, prev, level, f, k) \in Nat
  <2> TAKE k \in 1..Width
  <2>1. cur[k] \in Nat /\ cur[k] < Bytes
    BY BytesAre DEF RowOf
  <2> DEFINE r == (cur[k] - Guess(f, cur, prev, k)) % Bytes
  <2>2. r \in Nat /\ r < Bytes
    BY <2>1, GuessIsInt, ByteReturns, BytesAre
  <2> HIDE DEF r
  <2>3. FromZero(r) \in Nat
    BY <2>2, BytesAre DEF FromZero
  <2> QED BY <2>3 DEF Adds, r
<1> HIDE DEF u, N
<1>5. u[0] = 0 /\ \A k \in 1..N : u[k] = u[k - 1] + Adds(cur, prev, level, f, k)
  BY <1>2, <1>3 DEF ScoreLoop
<1> DEFINE T == {k \in Nat : k <= N => u[k] \in Nat}
<1>6. T \in SUBSET Nat /\ 0 \in T
  BY <1>5
<1>7. ASSUME NEW k \in Nat, k \in T PROVE k + 1 \in T
  <2> SUFFICES ASSUME k + 1 <= N PROVE u[k + 1] \in Nat
    OBVIOUS
  <2>1. k + 1 \in 1..N /\ (k + 1) - 1 = k /\ k <= N
    BY <1>2
  <2>2. u[k] \in Nat
    BY <1>7, <2>1
  <2>3. u[k + 1] = u[k] + Adds(cur, prev, level, f, k + 1)
    BY <1>5, <2>1
  <2>4. Adds(cur, prev, level, f, k + 1) \in Nat
    BY <1>2, <1>4, <2>1
  <2> QED BY <2>2, <2>3, <2>4
<1>8. T = Nat
  <2> HIDE DEF T
  <2> QED BY <1>6, <1>7, Induction
<1> QED BY <1>1, <1>2, <1>8

\* The filters of a level, the first among them.
LEMMA FiltersAre ==
    ASSUME NEW level \in Int
    PROVE  FilterMask(level) \in SUBSET (0..4) /\ 0 \in FilterMask(level)
<1>1. CASE level <= 0
  <2>1. FilterMask(level) = {0}
    BY <1>1 DEF FilterMask
  <2> QED BY <2>1
<1>2. CASE level \in 1..3
  <2>1. FilterMask(level) = {0, 2}
    BY <1>2 DEF FilterMask
  <2> QED BY <2>1
<1>3. CASE level \in 4..6
  <2>1. FilterMask(level) = {0, 1, 2, 4}
    BY <1>3 DEF FilterMask
  <2> QED BY <2>1
<1>4. CASE level >= 7
  <2>1. FilterMask(level) = 0..4
    BY <1>4 DEF FilterMask
  <2> QED BY <2>1
<1> QED BY <1>1, <1>2, <1>3, <1>4

\* There is a best filter.
LEMMA FilterIsPicked ==
    ASSUME NEW cur \in RowOf, NEW prev \in Aboves, NEW level \in Int
    PROVE  PickFilter(cur, prev, level) \in 0..4
<1> DEFINE sum(f) == Score(cur, prev, level, f)
           F == FilterMask(level)
           sums == {sum(f) : f \in F}
<1>1. F \in SUBSET (0..4) /\ 0 \in F
  BY FiltersAre
<1>2. \A f \in F : sum(f) \in Nat
  BY <1>1, ScoreIsNat
<1>3. PickFilter(cur, prev, level) =
        CHOOSE f \in F : \A g \in F \ {f} : sum(f) < sum(g) \/ (sum(f) = sum(g) /\ f < g)
  BY DEF PickFilter
<1> HIDE DEF F, sum
<1>4. sums \in SUBSET Nat /\ sum(0) \in sums
  BY <1>1, <1>2
<1> HIDE DEF sums
<1>5. PICK s \in sums : \A k \in sums : s <= k
  BY <1>4, LeastOf
<1> DEFINE best == {f \in F : sum(f) = s}
<1>6. PICK f0 \in F : sum(f0) = s
  BY <1>5 DEF sums
<1>7. best \in SUBSET Nat /\ f0 \in best
  <2>1. F \in SUBSET Nat
    BY <1>1
  <2>2. f0 \in best
    BY <1>6
  <2> QED BY <2>1, <2>2
<1> HIDE DEF best
<1>8. PICK f \in best : \A k \in best : f <= k
  BY <1>7, LeastOf
<1>9. f \in F /\ f \in 0..4
  BY <1>1, <1>8 DEF best
<1>10. \A g \in F \ {f} : sum(f) < sum(g) \/ (sum(f) = sum(g) /\ f < g)
  <2> TAKE g \in F \ {f}
  <2>1. sum(f) = s /\ sum(g) \in sums /\ sum(g) \in Nat /\ s \in Nat
    BY <1>2, <1>4, <1>5, <1>8 DEF best, sums
  <2>2. s <= sum(g)
    BY <1>5, <2>1
  <2>3. sum(g) = s => g \in best
    BY DEF best
  <2>4. g \in best => f <= g
    BY <1>8
  <2>5. g \in Nat /\ g # f /\ f \in Nat
    BY <1>1, <1>9
  <2> QED BY <2>1, <2>2, <2>3, <2>4, <2>5
<1>11. PickFilter(cur, prev, level) \in F
  BY <1>3, <1>9, <1>10
<1> QED BY <1>1, <1>11

-----------------------------------------------------------------------------
(* The rows return.                                                        *)

\* A byte more.
Unfiltering(prev, line, cur, i) == Append(cur, (line[i + 1] + Guess(line[1], cur, prev, i)) % Bytes)

\* A row, byte by byte.
UnfilterLoop(u, prev, line, m) ==
    u = [k \in 0..m |-> IF k = 0 THEN <<>> ELSE Unfiltering(prev, line, u[k - 1], k)]

\* There is such a function.
LEMMA UnfilterLoopExists ==
    ASSUME NEW prev, NEW line, NEW N \in Nat
    PROVE  \E u : UnfilterLoop(u, prev, line, N)
<1> DEFINE T == {m \in Nat : \E u : UnfilterLoop(u, prev, line, m)}
<1>1. 0 \in T
  <2> DEFINE u == [k \in 0..0 |-> <<>>]
  <2>1. UnfilterLoop(u, prev, line, 0)
    BY DEF UnfilterLoop
  <2> QED BY <2>1
<1>2. ASSUME NEW m \in Nat, m \in T PROVE m + 1 \in T
  <2>1. PICK u : UnfilterLoop(u, prev, line, m)
    BY <1>2
  <2> DEFINE h == [k \in 0..(m + 1) |-> IF k <= m THEN u[k] ELSE Unfiltering(prev, line, u[m], (m + 1))]
  <2>2. \A k \in 0..m : h[k] = u[k]
    OBVIOUS
  <2>3. h[m + 1] = Unfiltering(prev, line, h[m], (m + 1))
    BY <2>2
  <2>4. \A k \in 0..(m + 1) : h[k] = IF k = 0 THEN <<>> ELSE Unfiltering(prev, line, h[k - 1], k)
    <3> TAKE k \in 0..(m + 1)
    <3>1. CASE k = m + 1
      BY <2>3, <3>1
    <3>2. CASE k \in 0..m
      <4>1. u[k] = IF k = 0 THEN <<>> ELSE Unfiltering(prev, line, u[k - 1], k)
        BY <2>1, <3>2 DEF UnfilterLoop
      <4>2. k # 0 => u[k - 1] = h[k - 1]
        BY <2>2, <3>2
      <4> QED BY <2>2, <3>2, <4>1, <4>2
    <3> QED BY <3>1, <3>2
  <2> HIDE DEF h
  <2>5. h = [k \in 0..(m + 1) |-> h[k]]
    BY DEF h
  <2>6. UnfilterLoop(h, prev, line, m + 1)
    BY <2>4, <2>5 DEF UnfilterLoop
  <2> QED BY <2>6
<1>3. T = Nat
  <2> HIDE DEF T
  <2>1. T \in SUBSET Nat
    BY DEF T
  <2> QED BY <1>1, <1>2, <2>1, Induction
<1> QED BY <1>3

\* What is read of a row so far.
IsStart(c, row, k) == c \in Seq(Pixels) /\ Len(c) = k /\ \A j \in 1..k : c[j] = row[j]

\* A reader gets a row back from its differences, whatever filter made them.
LEMMA RowReturns ==
    ASSUME NEW row \in RowOf, NEW prev \in Aboves, NEW f \in 0..4
    PROVE  Unfilter(prev, <<f>> \o ApplyFilter(row, prev, f)) = row
<1> DEFINE diff == ApplyFilter(row, prev, f)
           line == <<f>> \o diff
           N == Len(line) - 1
           u == CHOOSE g : UnfilterLoop(g, prev, line, N)
<1>1. Unfilter(prev, line) = u[N]
  BY DEF Unfilter, UnfilterLoop, Unfiltering
<1>2. \A k \in 1..Width : row[k] \in Pixels /\ row[k] \in Nat /\ row[k] < Bytes
  BY BytesAre DEF RowOf
<1>3. diff = [k \in 1..Width |-> (row[k] - Guess(f, row, prev, k)) % Bytes]
  BY DEF ApplyFilter, RowOf
<1> HIDE DEF diff
<1>4. Width \in Nat /\ diff \in Seq(Nat) /\ Len(diff) = Width
  <2>1. \A k \in 1..Width : (row[k] - Guess(f, row, prev, k)) % Bytes \in Nat
    <3> TAKE k \in 1..Width
    <3> DEFINE g == Guess(f, row, prev, k)
    <3>1. g \in Int
      BY GuessIsInt
    <3> HIDE DEF g
    <3>2. (row[k] - g) % Bytes \in Nat
      BY <1>2, <3>1, ByteReturns, BytesAre
    <3> QED BY <3>2 DEF g
  <2> QED BY <1>3, <2>1, BytesAre
<1>5. N = Width /\ line[1] = f /\ \A k \in 1..Width : line[k + 1] = diff[k]
  <2>1. <<f>> \in Seq(Nat) /\ Len(<<f>>) = 1 /\ <<f>>[1] = f
    OBVIOUS
  <2>2. /\ Len(line) = Len(<<f>>) + Len(diff)
        /\ \A k \in 1..(Len(<<f>>) + Len(diff)) : line[k] = IF k <= Len(<<f>>) THEN <<f>>[k] ELSE diff[k - Len(<<f>>)]
    BY <1>4, <2>1, ConcatProperties
  <2> HIDE DEF line
  <2>3. \A k \in 1..(1 + Width) : line[k] = IF k <= 1 THEN f ELSE diff[k - 1]
    BY <1>4, <2>1, <2>2
  <2>4. \A k \in 1..Width : k + 1 \in 1..(1 + Width) /\ ~(k + 1 <= 1) /\ (k + 1) - 1 = k
    BY <1>4
  <2>5. 1 \in 1..(1 + Width)
    BY <1>4
  <2>6. Len(line) - 1 = Width
    BY <1>4, <2>1, <2>2
  <2>7. \A k \in 1..Width : line[k + 1] = diff[k]
    BY <2>3, <2>4
  <2>8. line[1] = f
    BY <2>3, <2>5
  <2> QED BY <2>6, <2>7, <2>8
<1>6. UnfilterLoop(u, prev, line, N)
  BY <1>4, <1>5, UnfilterLoopExists
<1> HIDE DEF u, line, N
<1>7. u[0] = <<>> /\ \A k \in 1..Width : u[k] = Unfiltering(prev, line, u[k - 1], k)
  BY <1>4, <1>5, <1>6 DEF UnfilterLoop
<1> DEFINE T == {k \in Nat : k <= Width => IsStart(u[k], row, k)}
<1>8. T \in SUBSET Nat /\ 0 \in T
  <2>1. IsStart(u[0], row, 0)
    <3>1. <<>> \in Seq(Pixels) /\ Len(<<>>) = 0
      OBVIOUS
    <3> QED BY <1>7, <3>1 DEF IsStart
  <2> QED BY <2>1
<1>9. ASSUME NEW k \in Nat, k \in T PROVE k + 1 \in T
  <2> SUFFICES ASSUME k + 1 <= Width PROVE IsStart(u[k + 1], row, k + 1)
    OBVIOUS
  <2> DEFINE i == k + 1
             c == u[k]
             g == Guess(f, row, prev, i)
  <2>1. i \in 1..Width /\ i - 1 = k /\ k <= Width
    BY <1>4
  <2>2. c \in Seq(Pixels) /\ Len(c) = k /\ \A j \in 1..k : c[j] = row[j]
    BY <1>9, <2>1 DEF IsStart
  <2>3. u[i] = Append(c, (line[i + 1] + Guess(line[1], c, prev, i)) % Bytes)
    BY <1>7, <2>1 DEF Unfiltering
  <2>4. i > Bpp => c[i - Bpp] = row[i - Bpp]
    <3>1. i > Bpp => i - Bpp \in 1..k
      BY <2>1, BytesAre
    <3> QED BY <2>2, <3>1
  <2>5. Guess(line[1], c, prev, i) = g
    BY <1>5, <2>4, GuessIs
  <2>6. g \in Int
    BY <2>1, GuessIsInt
  <2>7. line[i + 1] = (row[i] - g) % Bytes
    BY <1>3, <1>5, <2>1
  <2> DEFINE x == row[i]
  <2>8. x \in Pixels /\ x \in Nat /\ x < Bytes
    BY <1>2, <2>1
  <2>9. i \in Nat /\ \A j \in 1..i : j = i \/ j \in 1..k
    BY <2>1
  <2> HIDE DEF i, c, g
  <2>10. (((x - g) % Bytes) + g) % Bytes = x
    BY <2>6, <2>8, ByteReturns, BytesAre
  <2>11. u[i] = Append(c, x)
    BY <2>3, <2>5, <2>7, <2>10
  <2>12. /\ Append(c, x) \in Seq(Pixels) /\ Len(Append(c, x)) = k + 1
         /\ Append(c, x)[k + 1] = x /\ \A j \in 1..k : Append(c, x)[j] = c[j]
    <3> HIDE DEF x
    <3> QED BY <2>2, <2>8, AppendProperties
  <2>13. \A j \in 1..i : u[i][j] = row[j]
    BY <2>2, <2>9, <2>11, <2>12 DEF i
  <2> QED BY <2>11, <2>12, <2>13 DEF IsStart, i
<1>10. T = Nat
  <2> HIDE DEF T
  <2> QED BY <1>8, <1>9, Induction
<1>11. IsStart(u[Width], row, Width)
  BY <1>4, <1>10
<1>12. u[Width] = row
  <2>1. row \in Seq(Pixels) /\ Len(row) = Width
    BY <1>4 DEF RowOf
  <2> DEFINE c == u[Width]
  <2> HIDE DEF c
  <2>2. c \in Seq(Pixels) /\ Len(c) = Width /\ \A j \in 1..Width : c[j] = row[j]
    BY <1>11 DEF IsStart, c
  <2>3. c = row
    BY <2>1, <2>2, SeqEqual
  <2> QED BY <2>3 DEF c
<1> QED BY <1>1, <1>5, <1>12 DEF line, diff

\* A row more.
NextRow(lines, rows, y) == Append(rows, Unfilter(IF y = 1 THEN <<>> ELSE rows[y - 1], lines[y]))

\* The rows, one by one.
RowLoop(u, lines, m) == u = [k \in 0..m |-> IF k = 0 THEN <<>> ELSE NextRow(lines, u[k - 1], k)]

\* There is such a function.
LEMMA RowLoopExists ==
    ASSUME NEW lines, NEW N \in Nat
    PROVE  \E u : RowLoop(u, lines, N)
<1> DEFINE T == {m \in Nat : \E u : RowLoop(u, lines, m)}
<1>1. 0 \in T
  <2> DEFINE u == [k \in 0..0 |-> <<>>]
  <2>1. RowLoop(u, lines, 0)
    BY DEF RowLoop
  <2> QED BY <2>1
<1>2. ASSUME NEW m \in Nat, m \in T PROVE m + 1 \in T
  <2>1. PICK u : RowLoop(u, lines, m)
    BY <1>2
  <2> DEFINE h == [k \in 0..(m + 1) |-> IF k <= m THEN u[k] ELSE NextRow(lines, u[m], (m + 1))]
  <2>2. \A k \in 0..m : h[k] = u[k]
    OBVIOUS
  <2>3. h[m + 1] = NextRow(lines, h[m], (m + 1))
    BY <2>2
  <2>4. \A k \in 0..(m + 1) : h[k] = IF k = 0 THEN <<>> ELSE NextRow(lines, h[k - 1], k)
    <3> TAKE k \in 0..(m + 1)
    <3>1. CASE k = m + 1
      BY <2>3, <3>1
    <3>2. CASE k \in 0..m
      <4>1. u[k] = IF k = 0 THEN <<>> ELSE NextRow(lines, u[k - 1], k)
        BY <2>1, <3>2 DEF RowLoop
      <4>2. k # 0 => u[k - 1] = h[k - 1]
        BY <2>2, <3>2
      <4> QED BY <2>2, <3>2, <4>1, <4>2
    <3> QED BY <3>1, <3>2
  <2> HIDE DEF h
  <2>5. h = [k \in 0..(m + 1) |-> h[k]]
    BY DEF h
  <2>6. RowLoop(h, lines, m + 1)
    BY <2>4, <2>5 DEF RowLoop
  <2> QED BY <2>6
<1>3. T = Nat
  <2> HIDE DEF T
  <2>1. T \in SUBSET Nat
    BY DEF T
  <2> QED BY <1>1, <1>2, <2>1, Induction
<1> QED BY <1>3

\* Two elements make a pair.
LEMMA PairIs ==
    ASSUME NEW S, NEW a \in S, NEW b \in S
    PROVE  Append(<<a>>, b) = <<a, b>>
<1> DEFINE one == <<a>>
           two == <<a, b>>
           both == Append(one, b)
<1>1. one \in Seq(S) /\ Len(one) = 1 /\ one[1] = a
  OBVIOUS
<1>2. two \in Seq(S) /\ Len(two) = 2 /\ two[1] = a /\ two[2] = b
  OBVIOUS
<1> HIDE DEF one, two
<1>3. /\ Append(one, b) \in Seq(S) /\ Len(Append(one, b)) = Len(one) + 1
      /\ Append(one, b)[Len(one) + 1] = b /\ \A k \in 1..Len(one) : Append(one, b)[k] = one[k]
  <2>1. one \in Seq(S)
    BY <1>1
  <2> QED BY <2>1, AppendProperties
<1> HIDE DEF both
<1>4. Len(both) = 2 /\ both[1] = a /\ both[2] = b /\ both \in Seq(S)
  BY <1>1, <1>3 DEF both
<1>5. \A k \in 1..Len(both) : both[k] = two[k]
  BY <1>2, <1>4
<1>6. both = two
  BY <1>2, <1>4, <1>5, SeqEqual
<1> QED BY <1>6 DEF both, one, two

\* pngWrite: a reader gets the rows back, whatever filters were picked.
THEOREM RowsReturn ==
    ASSUME NEW rows \in [1..2 -> RowOf], NEW level \in Int
    PROVE  Unfiltered(WritePNG(rows, level)) = rows
<1> DEFINE lines == WritePNG(rows, level)
           N == Len(lines)
           u == CHOOSE g : RowLoop(g, lines, N)
           above(y) == IF y = 1 THEN <<>> ELSE rows[y - 1]
<1>1. Unfiltered(lines) = u[N]
  BY DEF Unfiltered, RowLoop, NextRow
<1>2. lines = [y \in 1..2 |->
                 <<PickFilter(rows[y], above(y), level)>> \o
                     ApplyFilter(rows[y], above(y), PickFilter(rows[y], above(y), level))]
  BY DEF WritePNG
<1>3. \A y \in 1..2 : rows[y] \in RowOf /\ above(y) \in Aboves
  BY DEF Aboves
<1> HIDE DEF lines
<1>4. N = 2
  BY <1>2
<1>5. RowLoop(u, lines, N)
  BY <1>4, RowLoopExists
<1>6. \A y \in 1..2 : Unfilter(above(y), lines[y]) = rows[y]
  <2> TAKE y \in 1..2
  <2> DEFINE a == above(y)
             r == rows[y]
             f == PickFilter(r, a, level)
  <2>1. lines[y] = <<f>> \o ApplyFilter(r, a, f)
    BY <1>2
  <2>2. r \in RowOf /\ a \in Aboves
    BY <1>3
  <2> HIDE DEF a, r
  <2>3. f \in 0..4
    BY <2>2, FilterIsPicked
  <2> HIDE DEF f
  <2>4. Unfilter(a, <<f>> \o ApplyFilter(r, a, f)) = r
    BY <2>2, <2>3, RowReturns
  <2> QED BY <2>1, <2>4 DEF a, r
<1> HIDE DEF u, N
<1>7. u[0] = <<>> /\ \A k \in 1..2 : u[k] = NextRow(lines, u[k - 1], k)
  BY <1>4, <1>5 DEF RowLoop
<1>8. u[1] = NextRow(lines, <<>>, 1) /\ u[2] = NextRow(lines, u[1], 2)
  BY <1>7
<1>9. Unfilter(<<>>, lines[1]) = rows[1] /\ Unfilter(rows[1], lines[2]) = rows[2]
  BY <1>6
<1>10. u[1] = <<rows[1]>>
  BY <1>8, <1>9 DEF NextRow
<1>11. u[2] = Append(<<rows[1]>>, rows[2])
  BY <1>8, <1>9, <1>10 DEF NextRow
<1>12. u[2] = <<rows[1], rows[2]>>
  <2> DEFINE r == rows[1]
             z == rows[2]
  <2>1. r \in RowOf /\ z \in RowOf
    OBVIOUS
  <2> HIDE DEF r, z
  <2>2. Append(<<r>>, z) = <<r, z>>
    BY <2>1, PairIs
  <2> QED BY <1>11, <2>2 DEF r, z
<1>13. rows = <<rows[1], rows[2]>>
  OBVIOUS
<1> QED BY <1>1, <1>4, <1>12, <1>13 DEF lines

\* The inputs of the run are what the algorithms are for.
LEMMA InputsFit ==
    /\ EntrySets \subseteq Tables
    /\ \A rs \in RunSets : Lens(rs) \in Seq(0..15)
    /\ \A pair \in Matches : /\ pair[1] \in 3..258 /\ pair[2] \in Nat /\ pair[2] >= 1 /\ pair[2] <= 32768
                             /\ pair = <<pair[1], pair[2]>>
<1>1. EntrySets \subseteq Tables
  <2>1. Plain \cup Sharp \subseteq {v \in Nat : v < TableSum}
    <3>1. TableSum \in Nat
      BY TableAssumption DEF TableSum
    <3> HIDE DEF TableSum
    <3> QED BY <3>1, InputsAssumption
  <2> QED BY <2>1 DEF EntrySets, Tables
<1>2. ASSUME NEW rs \in RunSets PROVE Lens(rs) \in Seq(0..15)
  <2>1. PICK p \in (0..2) \X RunCounts, q \in (0..2) \X RunCounts : rs = <<p, q>>
    BY <1>2 DEF RunSets
  <2>2. /\ p[1] \in 0..15 /\ p[2] \in Nat /\ q[1] \in 0..15 /\ q[2] \in Nat
        /\ rs[1] = p /\ rs[2] = q
    <3>1. RunCounts \subseteq Nat
      BY InputsAssumption
    <3>2. p[1] \in 0..2 /\ p[2] \in RunCounts /\ q[1] \in 0..2 /\ q[2] \in RunCounts
      OBVIOUS
    <3>3. \A c \in 0..2 : c \in 0..15
      OBVIOUS
    <3> QED BY <2>1, <3>1, <3>2, <3>3
  <2> DEFINE x == [i \in 1..p[2] |-> p[1]]
             y == [i \in 1..q[2] |-> q[1]]
  <2>3. x \in Seq(0..15) /\ y \in Seq(0..15)
    BY <2>2
  <2>4. Lens(rs) = x \o y
    BY <2>2 DEF Lens
  <2> HIDE DEF x, y
  <2> QED BY <2>3, <2>4
<1>3. ASSUME NEW pair \in Matches
      PROVE  /\ pair[1] \in 3..258 /\ pair[2] \in Nat /\ pair[2] >= 1 /\ pair[2] <= 32768
             /\ pair = <<pair[1], pair[2]>>
  <2> DEFINE dists == {d \in Nat : d >= 1 /\ d <= 32768}
  <2>1. Edges \subseteq dists
    <3>1. Furthest \in Nat /\ Furthest <= 32768
      BY DEF Furthest
    <3>2. 1..Furthest \subseteq dists
      BY <3>1
    <3> HIDE DEF dists
    <3>3. Edges \subseteq 1..Furthest
      BY DEF Edges
    <3> QED BY <3>2, <3>3
  <2>2. pair \in (3..258) \X dists
    <3>1. 1 \in dists /\ 3 \in 3..258
      OBVIOUS
    <3> HIDE DEF dists
    <3>2. pair \in (3..258) \X {1} \/ pair \in {3} \X Edges
      BY <1>3 DEF Matches
    <3>3. CASE pair \in (3..258) \X {1}
      BY <3>1, <3>3
    <3>4. CASE pair \in {3} \X Edges
      BY <2>1, <3>1, <3>4
    <3> QED BY <3>2, <3>3, <3>4
  <2> QED BY <2>2
<1> QED BY <1>1, <1>2, <1>3

-----------------------------------------------------------------------------
(* What the run computes.                                                  *)

\* A result of each algorithm is that of the input.
Made ==
    /\ kind = "table" => input \in EntrySets
    /\ kind = "runs" => input \in RunSets
    /\ kind = "match" => input \in Matches
    /\ kind = "mask" => input \in Masks
    /\ kind = "png" => input \in [rows : [1..2 -> RowOf], level : Levels]
    /\ kind = "tree" => input \in Codings
    /\ Has("table") => result = Words(input)
    /\ Has("runs") => result = Runs(Lens(input))
    /\ Has("match") =>
           result = <<Split(input[1], LenBase, LenExtra), Split(input[2], DistBase, DistExtra)>>
    /\ Has("mask") => result = EncodeMask(input)
    /\ Has("png") => result = WritePNG(input.rows, input.level)
    /\ Has("tree") => result = TreeBothWays(input)

\* The parts of ReadBack.
TableBack ==
    /\ \A k \in DOMAIN result : result[k] \in 0..WordMax
    /\ Read(result) = [table |-> input, used |-> Len(result), fail |-> FALSE]
    /\ \A k \in 0..(Len(result) - 1) : Read(SubSeq(result, 1, k)).fail
\* The code trees.
TreeBack ==
    LET e == result[1]
        d == result[2]
    IN  /\ d.got = [k \in DOMAIN input |-> input[k].val] /\ d.s.words = <<>>
        /\ d.s.low = e.low /\ d.s.rng = e.rng /\ d.s.prob = e.prob
        /\ \A k \in DOMAIN Flushed(e) : Flushed(e)[k] \in 0..(Radix - 1)
\* The masks.
MaskBack ==
    /\ DecodeMask(result) = [bits |-> [k \in 1..(MaxVal + 1) |-> input[k - 1]], used |-> Len(result)]
    /\ \A k \in DOMAIN result : result[k].bits = <<>> =>
           result[k].same - RunBase \in 0..(RunSpan - 1) /\ result[k].flip - 1 \in 0..(FlipMax - 1)
    /\ \A v \in Values : input[v] = 1 => Backward(input, Forward(input, v)) = v

\* FnbliHist::decode.
LEMMA TablesAreBack == Made /\ Has("table") => TableBack
<1> SUFFICES ASSUME Made, Has("table") PROVE TableBack
  OBVIOUS
<1>1. input \in Tables
  BY InputsFit DEF Made, Has
<1> DEFINE W == Words(input)
<1>2. result = W
  BY DEF Made
<1>3. /\ W \in Seq(Nat) /\ \A k \in 1..Len(W) : W[k] <= 65535
      /\ Read(W) = [table |-> input, used |-> Len(W), fail |-> FALSE]
      /\ \A k \in 0..(Len(W) - 1) : Read(SubSeq(W, 1, k)).fail
  BY <1>1, TableReturns
<1> HIDE DEF W
<1>4. \A k \in DOMAIN W : W[k] \in 0..WordMax
  <2>1. \A k \in DOMAIN W : k \in 1..Len(W) /\ W[k] \in Nat
    BY <1>3
  <2>2. \A k \in DOMAIN W : W[k] <= 65535
    BY <1>3, <2>1
  <2>3. WordMax \in Nat /\ \A k \in DOMAIN W : W[k] <= WordMax
    BY <2>2 DEF WordMax
  <2> QED BY <2>1, <2>3
<1>5. \A k \in DOMAIN result : result[k] \in 0..WordMax
  BY <1>2, <1>4
<1>6. Read(result) = [table |-> input, used |-> Len(result), fail |-> FALSE]
  BY <1>2, <1>3
<1>7. \A k \in 0..(Len(result) - 1) : Read(SubSeq(result, 1, k)).fail
  <2> DEFINE all(w) == \A k \in 0..(Len(w) - 1) : Read(SubSeq(w, 1, k)).fail
  <2>1. all(W)
    <3>1. \A k \in 0..(Len(W) - 1) : Read(SubSeq(W, 1, k)).fail
      BY <1>3
    <3> QED BY <3>1
  <2> HIDE DEF all
  <2>2. all(result)
    BY <1>2, <2>1
  <2> QED BY <2>2 DEF all
<1> QED BY <1>5, <1>6, <1>7, Zenon DEF TableBack

\* Mapper::decodeMask, and the numbers of the values.
LEMMA MasksAreBack == Made /\ Has("mask") => MaskBack
<1> SUFFICES ASSUME Made, Has("mask") PROVE MaskBack
  OBVIOUS
<1>1. input \in Masks
  BY DEF Made, Has
<1> DEFINE W == EncodeMask(input)
<1>2. result = W
  BY DEF Made
<1>3. /\ DecodeMask(W) = [bits |-> [k \in 1..(MaxVal + 1) |-> input[k - 1]], used |-> Len(W)]
      /\ \A k \in 1..Len(W) : FitsFields(W[k])
      /\ DOMAIN W = 1..Len(W)
      /\ \A v \in Values : input[v] = 1 => Backward(input, Forward(input, v)) = v
  BY <1>1, MaskReturns
<1> HIDE DEF W
<1>4. \A k \in DOMAIN W : W[k].bits = <<>> =>
          W[k].same - RunBase \in 0..(RunSpan - 1) /\ W[k].flip - 1 \in 0..(FlipMax - 1)
  BY <1>3 DEF FitsFields
<1> QED BY <1>2, <1>3, <1>4, Zenon DEF MaskBack

\* The code trees.
LEMMA TreesAreBack == Made /\ Has("tree") => TreeBack
<1> SUFFICES ASSUME Made, Has("tree") PROVE TreeBack
  OBVIOUS
<1>1. IsCoding(input) /\ result = TreeBothWays(input)
  BY CodingsAssumption DEF Made, Has
<1> DEFINE e == TreeBothWays(input)[1]
           d == TreeBothWays(input)[2]
<1>2. /\ d.got = [k \in DOMAIN input |-> input[k].val] /\ d.s.words = <<>>
      /\ d.s.low = e.low /\ d.s.rng = e.rng /\ d.s.prob = e.prob
      /\ \A k \in DOMAIN Flushed(e) : Flushed(e)[k] \in 0..(Radix - 1)
  BY <1>1, TreesReturn
<1>3. result[1] = e /\ result[2] = d
  BY <1>1
<1> HIDE DEF e, d
<1> QED BY <1>2, <1>3 DEF TreeBack

\* A reader of deflate has the lengths and the match, one of PNG the rows.
LEMMA FilesAreBack ==
    /\ Made /\ Has("runs") => Expanded(result) = Lens(input)
    /\ Made /\ Has("match") => input = <<Joined(result[1], LenBase), Joined(result[2], DistBase)>>
    /\ Made /\ Has("png") => Unfiltered(result) = input.rows
<1>1. ASSUME Made, Has("runs") PROVE Expanded(result) = Lens(input)
  <2>1. Lens(input) \in Seq(0..15) /\ result = Runs(Lens(input))
    BY <1>1, InputsFit DEF Made, Has
  <2> QED BY <2>1, RunsReturn
<1>2. ASSUME Made, Has("match") PROVE input = <<Joined(result[1], LenBase), Joined(result[2], DistBase)>>
  <2> DEFINE p == Split(input[1], LenBase, LenExtra)
             q == Split(input[2], DistBase, DistExtra)
  <2>1. input \in Matches /\ result = <<p, q>>
    BY <1>2 DEF Made, Has
  <2>2. /\ input[1] \in 3..258 /\ input[2] \in Nat /\ input[2] >= 1 /\ input[2] <= 32768
        /\ input = <<input[1], input[2]>>
    BY <2>1, InputsFit
  <2>3. Joined(p, LenBase) = input[1]
    BY <2>2, MatchReturns
  <2>4. Joined(q, DistBase) = input[2]
    BY <2>2, MatchReturns
  <2> HIDE DEF p, q
  <2>5. result[1] = p /\ result[2] = q
    BY <2>1
  <2> QED BY <2>2, <2>3, <2>4, <2>5
<1>3. ASSUME Made, Has("png") PROVE Unfiltered(result) = input.rows
  <2>1. input \in [rows : [1..2 -> RowOf], level : Levels] /\ result = WritePNG(input.rows, input.level)
    BY <1>3 DEF Made, Has
  <2>2. input.rows \in [1..2 -> RowOf] /\ input.level \in Int
    BY <2>1, InputsAssumption
  <2> QED BY <2>1, <2>2, RowsReturn
<1> QED BY <1>1, <1>2, <1>3

\* What is written can be read: the words of a table, runs, matches, masks, rows
\* of PNG and code trees, of all inputs of any size.
THEOREM ReadsBack == AlgSpec => []ReadBack
<1>1. AlgInit => Made
  BY DEF AlgInit, Made, Has, Masks, RowOf
<1>2. Made /\ [AlgNext]_algVars => Made'
  BY DEF AlgNext, algVars, Compute, Made, Has
<1>3. Made => ReadBack
  <2> SUFFICES ASSUME Made PROVE ReadBack
    OBVIOUS
  <2>1. Has("table") => TableBack
    BY TablesAreBack
  <2>2. Has("mask") => MaskBack
    BY MasksAreBack
  <2>3. /\ Has("runs") => Expanded(result) = Lens(input)
        /\ Has("match") => input = <<Joined(result[1], LenBase), Joined(result[2], DistBase)>>
        /\ Has("png") => Unfiltered(result) = input.rows
    BY FilesAreBack
  <2>4. Has("tree") => TreeBack
    BY TreesAreBack
  <2>5. ReadBack <=>
          /\ Has("table") => TableBack
          /\ Has("runs") => Expanded(result) = Lens(input)
          /\ Has("match") => input = <<Joined(result[1], LenBase), Joined(result[2], DistBase)>>
          /\ Has("mask") => MaskBack
          /\ Has("png") => Unfiltered(result) = input.rows
          /\ Has("tree") => TreeBack
    BY Zenon DEF ReadBack, TableBack, MaskBack, TreeBack
  <2> QED BY <2>1, <2>2, <2>3, <2>4, <2>5, Zenon
<1> QED BY <1>1, <1>2, <1>3, PTL DEF AlgSpec
=============================================================================
