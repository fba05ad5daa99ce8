----------------------------- MODULE CoderProofs -----------------------------
(***************************************************************************)
(* The rANS coder of fNBLI.                                                *)
(*                                                                         *)
(* One step, for every sum of the tables that divides the size of a word,  *)
(* every state and every symbol: the state stays in its range, writes at   *)
(* most one word, and the decoder's step undoes the encoder's, down to     *)
(* whether a word is read.  fnbli_scalar.h and nbli/rANS.h have the same   *)
(* step.                                                                   *)
(*                                                                         *)
(* The whole run, for every number of lanes, contexts, symbols and pairs:  *)
(* the tables normalize() makes are right, the decoder walks the states of *)
(* the encoder backwards and gives its symbols, a cut is noticed, and the  *)
(* words stay behind the pairs.                                            *)
(***************************************************************************)
EXTENDS Rans, FiniteSetTheorems, SequenceTheorems, WellFoundedInduction, TLAPS

-----------------------------------------------------------------------------
(* Arithmetic.                                                             *)

LEMMA Division ==
    ASSUME NEW a \in Nat, NEW m \in Nat \ {0}
    PROVE  /\ a \div m \in Nat
           /\ a % m \in 0..(m - 1)
           /\ a = m * (a \div m) + (a % m)
BY SMT

\* The quotient and the remainder are the only ones.
LEMMA DivisionUnique ==
    ASSUME NEW m \in Nat \ {0}, NEW q \in Nat, NEW r \in 0..(m - 1)
    PROVE  /\ (m * q + r) \div m = q
           /\ (m * q + r) % m = r
BY SMT

LEMMA ProductGrows ==
    ASSUME NEW a \in Nat, NEW b \in Nat, NEW c \in Nat, a <= b
    PROVE  /\ c * a <= c * b
           /\ c * a \in Nat
           /\ c * b \in Nat
BY SMT

LEMMA QuotientAtLeast ==
    ASSUME NEW a \in Nat, NEW m \in Nat \ {0}, NEW q \in Nat, m * q <= a
    PROVE  q <= a \div m
BY SMT

LEMMA QuotientBelow ==
    ASSUME NEW a \in Nat, NEW m \in Nat \ {0}, NEW q \in Nat, a < m * q
    PROVE  a \div m < q
BY SMT

-----------------------------------------------------------------------------
(* rANS.                                                                   *)

States == B..(B * B - 1)

\* The frequency and the start of a symbol in a table.
Shares == {s \in (1..NormSum) \X Nat : s[1] + s[2] <= NormSum}

K == B \div NormSum

LEMMA Sizes ==
    /\ NormSum \in Nat \ {0} /\ B \in Nat \ {0} /\ K \in Nat \ {0}
    /\ B = NormSum * K
    /\ NormSum <= B
    /\ B * K \in Nat
    /\ B * B = NormSum * (B * K)
    /\ B <= B * K
    /\ CodeHigh = B * K - 1
<1>1. PICK m \in 1..B : B = NormSum * m
  BY CodeAssumption
<1>2. NormSum \in Nat \ {0} /\ B \in Nat \ {0} /\ m \in Nat \ {0}
  BY <1>1, CodeAssumption
<1>3. B \div NormSum = m
  <2>1. B = NormSum * m + 0
    BY <1>1, <1>2
  <2> QED
    BY <1>2, <2>1, DivisionUnique
<1>4. B * m \in Nat /\ NormSum * 1 <= NormSum * m /\ B * 1 <= B * m
  BY <1>2, ProductGrows
<1>5. B * B = NormSum * (B * m)
  <2>1. B * (NormSum * m) = NormSum * (B * m)
    BY <1>2
  <2> QED
    BY <2>1, <1>1
<1> QED
  BY <1>1, <1>2, <1>3, <1>4, <1>5 DEF K, CodeHigh

-----------------------------------------------------------------------------
(* The encoder's step.                                                     *)

\* A state that has to write one word is in the lower half afterwards, and
\* never has to write a second one: `if`, and not a loop, is enough.
LEMMA OneWordIsEnough ==
    ASSUME NEW a \in States, NEW f \in 1..NormSum
    PROVE  /\ Shrunk(a, f) \in Nat
           /\ Shrunk(a, f) \div f <= CodeHigh
           /\ f * K <= Shrunk(a, f)
           /\ Shrunk(a, f) < B <=> Emits(a, f)
<1> DEFINE x == Shrunk(a, f)
<1>0. /\ f \in Nat \ {0} /\ a \in Nat /\ B <= a /\ a < B * B /\ B * B \in Nat
  BY Sizes DEF States
<1>1. f * K \in Nat /\ f * K <= B
  <2>1. K * f <= K * NormSum /\ K * f \in Nat
    BY <1>0, Sizes, ProductGrows
  <2> QED
    BY <2>1, <1>0, Sizes
<1>2. CASE Emits(a, f)
  <2>1. x = a \div B
    BY <1>2 DEF Shrunk
  <2> HIDE DEF x
  <2>2. x \in Nat /\ x < B
    BY <2>1, <1>0, Sizes, QuotientBelow, Division
  <2>3. B * (f * K) <= a
    <3>1. B * K <= a \div f
      BY <1>2, <1>0, Sizes, Division DEF Emits
    <3>2. f * (B * K) <= f * (a \div f)
      BY <3>1, <1>0, Sizes, Division, ProductGrows
    <3>3. f * (a \div f) <= a
      BY <1>0, Division
    <3>4. f * (B * K) = B * (f * K)
      BY <1>0, Sizes
    <3>5. f * (a \div f) \in Nat /\ f * (B * K) \in Nat
      <4>1. a \div f \in Nat /\ B * K \in Nat
        BY <1>0, Sizes, Division
      <4> QED
        BY <4>1, <1>0, ProductGrows
    <3> QED
      BY <3>2, <3>3, <3>4, <3>5, <1>0
  <2>4. f * K <= x
    BY <2>1, <2>3, <1>0, <1>1, Sizes, QuotientAtLeast
  <2>5. x \div f <= CodeHigh
    <3>1. x \div f <= x
      <4>1. x < f * (x + 1)
        <5>1. (x + 1) * 1 <= (x + 1) * f /\ (x + 1) * f = f * (x + 1) /\ (x + 1) * f \in Nat
          BY <2>2, <1>0, ProductGrows
        <5> QED
          BY <5>1, <2>2
      <4>2. x \div f < x + 1 /\ x \div f \in Nat
        <5>1. x \in Nat /\ x + 1 \in Nat /\ f \in Nat \ {0}
          BY <2>2, <1>0
        <5>2. x \div f < x + 1
          BY <4>1, <5>1, QuotientBelow
        <5>3. x \div f \in Nat
          BY <5>1, Division
        <5> QED
          BY <5>2, <5>3
      <4>3. \A n \in Nat : n < x + 1 => n <= x
        BY <2>2
      <4> QED
        BY <4>2, <4>3
    <3>2. x \div f \in Nat
      BY <2>2, <1>0, Division
    <3> QED
      BY <3>1, <3>2, <2>2, Sizes
  <2> QED
    BY <1>2, <2>2, <2>4, <2>5 DEF x
<1>3. CASE ~Emits(a, f)
  <2>1. x = a
    BY <1>3 DEF Shrunk
  <2>2. x \div f <= CodeHigh
    BY <2>1, <1>3, <1>0, Sizes, Division DEF Emits
  <2> QED
    BY <2>1, <2>2, <1>0, <1>1, <1>3, Sizes
<1> QED
  BY <1>2, <1>3

\* A state of the encoder stays between CODE_LOW and two words: it neither
\* overflows 32 bits nor loses what the decoder needs to find its way back.
THEOREM StateInRange ==
    ASSUME NEW a \in States, NEW s \in Shares
    PROVE  Coded(a, s[1], s[2]) \in States
<1> DEFINE f == s[1]
           c == s[2]
           x == Shrunk(a, f)
           q == x \div f
           r == x % f
<1>0. f \in 1..NormSum /\ f \in Nat \ {0} /\ c \in Nat /\ f + c <= NormSum
  BY Sizes DEF Shares
<1>1. x \in Nat /\ q <= CodeHigh /\ f * K <= x
  BY <1>0, OneWordIsEnough
<1>2. q \in Nat /\ r \in 0..(f - 1) /\ K <= q
  BY <1>0, <1>1, Sizes, Division, QuotientAtLeast
<1>3. Coded(a, f, c) = r + q * NormSum + c
  BY DEF Coded
<1> HIDE DEF f, c, x, q, r
<1>4. NormSum * K <= NormSum * q /\ NormSum * q \in Nat
  BY <1>2, Sizes, ProductGrows
<1>5. NormSum * (q + 1) <= NormSum * (B * K)
  BY <1>1, <1>2, Sizes, ProductGrows
<1>6. NormSum * (q + 1) = NormSum * q + NormSum /\ q * NormSum = NormSum * q
  BY <1>2, Sizes
<1>7. r + c < NormSum
  BY <1>0, <1>2, Sizes
<1>8. Coded(a, f, c) \in States
  BY <1>0, <1>2, <1>3, <1>4, <1>5, <1>6, <1>7, Sizes DEF States
<1> QED
  BY <1>8 DEF f, c

-----------------------------------------------------------------------------
(* The decoder's step.                                                     *)

\* What the decoder does with a state is the inverse of what the encoder did:
\* the remainder lies in the share of the symbol, a word is read exactly when
\* one was written, and it brings back the state from before.
THEOREM StepInverse ==
    ASSUME NEW a \in States, NEW s \in Shares
    PROVE  LET y == Coded(a, s[1], s[2])
               x == Uncoded(y, s[1], s[2])
           IN  /\ y % NormSum \in s[2]..(s[2] + s[1] - 1)
               /\ Wants(x) <=> Emits(a, s[1])
               /\ Refilled(x, a % B) = a
<1> DEFINE f == s[1]
           c == s[2]
           z == Shrunk(a, f)
           q == z \div f
           r == z % f
           y == Coded(a, f, c)
           x == Uncoded(y, f, c)
<1>0. f \in 1..NormSum /\ f \in Nat \ {0} /\ c \in Nat /\ f + c <= NormSum
  BY Sizes DEF Shares
<1>1. z \in Nat /\ (z < B <=> Emits(a, f))
  BY <1>0, OneWordIsEnough
<1>2. q \in Nat /\ r \in 0..(f - 1) /\ z = f * q + r
  BY <1>0, <1>1, Division
<1>3. y = r + q * NormSum + c
  BY DEF Coded
<1>4. x = (y \div NormSum) * f + (y % NormSum) - c
  BY DEF Uncoded
<1> HIDE DEF q, r, y, x
<1>5. y \div NormSum = q /\ y % NormSum = r + c
  <2>1. r + c \in 0..(NormSum - 1)
    BY <1>0, <1>2, Sizes
  <2>2. y = NormSum * q + (r + c)
    BY <1>0, <1>2, <1>3, Sizes
  <2> QED
    BY <2>1, <2>2, <1>2, Sizes, DivisionUnique
<1>6. x = z
  <2>1. q * f = f * q /\ f * q \in Nat
    BY <1>0, <1>2
  <2>2. x = q * f + (r + c) - c
    BY <1>4, <1>5
  <2> HIDE DEF z, f, c
  <2> QED
    BY <2>1, <2>2, <1>0, <1>2
<1>7. y % NormSum \in c..(c + f - 1)
  BY <1>5, <1>0, <1>2
<1>8. Wants(x) <=> Emits(a, f)
  BY <1>6, <1>1 DEF Wants
<1>9. Refilled(x, a % B) = a
  <2>1. CASE Emits(a, f)
    <3>1. x = a \div B
      BY <2>1, <1>6 DEF Shrunk
    <3>2. Refilled(x, a % B) = x * B + (a % B)
      BY <2>1, <1>8 DEF Refilled
    <3>3. a \in Nat /\ B \in Nat \ {0}
      BY Sizes DEF States
    <3>4. a = B * (a \div B) + (a % B) /\ a \div B \in Nat
      BY <3>3, Division
    <3>5. (a \div B) * B = B * (a \div B)
      BY <3>3, <3>4
    <3> QED
      BY <3>1, <3>2, <3>4, <3>5
  <2>2. CASE ~Emits(a, f)
    BY <2>2, <1>6, <1>8 DEF Shrunk, Refilled
  <2> QED
    BY <2>1, <2>2
<1> QED
  BY <1>7, <1>8, <1>9 DEF f, c, y, x

-----------------------------------------------------------------------------
(* Remainders of integers, and induction.                                  *)

LEMMA IntDivision ==
    ASSUME NEW a \in Int, NEW m \in Nat \ {0}
    PROVE  /\ a \div m \in Int
           /\ a % m \in 0..(m - 1)
           /\ a = m * (a \div m) + (a % m)
BY SMT

LEMMA IntDivisionUnique ==
    ASSUME NEW m \in Nat \ {0}, NEW q \in Int, NEW r \in 0..(m - 1)
    PROVE  (m * q + r) % m = r
BY SMT

\* A remainder may be taken before or after adding.
LEMMA ModShift ==
    ASSUME NEW a \in Int, NEW b \in Int, NEW m \in Nat \ {0}
    PROVE  /\ ((a % m) + b) % m = (a + b) % m
           /\ ((a % m) - b) % m = (a - b) % m
           /\ (b - (a % m)) % m = (b - a) % m
<1> DEFINE q == a \div m
           r == a % m
<1>1. q \in Int /\ r \in Int /\ a = m * q + r
  BY IntDivision
<1> HIDE DEF q, r
<1>2. \A x \in Int, c \in Int : (x + m * c) % m = x % m
  <2> TAKE x \in Int, c \in Int
  <2> DEFINE d == x \div m
             s == x % m
  <2>1. d \in Int /\ s \in 0..(m - 1) /\ x = m * d + s
    BY IntDivision
  <2> HIDE DEF d, s
  <2>2. x + m * c = m * (d + c) + s
    BY <2>1
  <2>3. d + c \in Int
    BY <2>1
  <2>4. (m * (d + c) + s) % m = s
    BY <2>1, <2>3, IntDivisionUnique
  <2> QED BY <2>2, <2>4 DEF s
<1>3. /\ a + b = (r + b) + m * q
      /\ a - b = (r - b) + m * q
      /\ b - a = (b - r) + m * (-q)
  BY <1>1
<1>4. r + b \in Int /\ r - b \in Int /\ b - r \in Int /\ -q \in Int
  BY <1>1
<1>5. /\ ((r + b) + m * q) % m = (r + b) % m
      /\ ((r - b) + m * q) % m = (r - b) % m
      /\ ((b - r) + m * (-q)) % m = (b - r) % m
  <2> DEFINE x == r + b
             y == r - b
             z == b - r
  <2>1. x \in Int /\ y \in Int /\ z \in Int
    BY <1>4
  <2> HIDE DEF x, y, z
  <2>2. (x + m * q) % m = x % m /\ (y + m * q) % m = y % m /\ (z + m * (-q)) % m = z % m
    BY <1>1, <1>2, <1>4, <2>1, Zenon
  <2> QED BY <2>2 DEF x, y, z
<1>6. (a + b) % m = (r + b) % m
  BY ONLY <1>3, <1>5, Zenon
<1>7. (a - b) % m = (r - b) % m
  BY ONLY <1>3, <1>5, Zenon
<1>8. (b - a) % m = (b - r) % m
  BY ONLY <1>3, <1>5, Zenon
<1> QED BY <1>6, <1>7, <1>8 DEF r

\* Small numbers are their own remainders; those just below zero wrap.
LEMMA ModSmall ==
    ASSUME NEW a \in Int, NEW m \in Nat \ {0}
    PROVE  /\ 0 <= a /\ a < m => a % m = a
           /\ a < 0 /\ -m <= a => a % m = m + a
           /\ 0 <= a => a % m <= a
BY SMT

LEMMA LessIsWellFounded == IsWellFoundedOn(OpToRel(<, Nat), Nat)
BY NatLessThanWellFounded

LEMMA LeastOf ==
    ASSUME NEW T \in SUBSET Nat, NEW x \in T
    PROVE  \E m \in T : \A k \in T : m <= k
<1> DEFINE below == {p \in Nat \X Nat : p[1] < p[2]}
<1>1. OpToRel(<, Nat) = below
  BY DEF OpToRel
<1>2. IsWellFoundedOn(below, Nat)
  BY <1>1, LessIsWellFounded
<1>3. \A a, b \in Nat : a < b => <<a, b>> \in below
  OBVIOUS
<1> HIDE DEF below
<1>4. T \subseteq Nat /\ T # {}
  OBVIOUS
<1>5. PICK m \in T : \A y \in T : ~ <<y, m>> \in below
  BY <1>2, <1>4, WFMin
<1>6. \A y \in T : m <= y
  <2> TAKE y \in T
  <2>1. m \in Nat /\ y \in Nat /\ ~ (y < m)
    BY <1>3, <1>4, <1>5
  <2> QED BY <2>1
<1> QED BY <1>6

LEMMA Induction ==
    ASSUME NEW T \in SUBSET Nat, 0 \in T, \A k \in Nat : k \in T => k + 1 \in T
    PROVE  T = Nat
<1> SUFFICES ASSUME NEW x \in Nat \ T PROVE FALSE
  OBVIOUS
<1>1. PICK m \in Nat \ T : \A k \in Nat \ T : m <= k
  BY LeastOf
<1>2. m # 0 /\ m - 1 \in Nat /\ m - 1 \in T
  BY <1>1
<1> QED BY <1>1, <1>2

LEMMA StaysIn ==
    ASSUME NEW X, NEW a \in Nat, NEW n \in Nat, NEW f, f[a] \in X,
           \A k \in (a + 1)..n : f[k - 1] \in X => f[k] \in X
    PROVE  \A k \in a..n : f[k] \in X
<1> DEFINE T == {d \in Nat : a + d <= n => f[a + d] \in X}
<1>1. 0 \in T
  OBVIOUS
<1>2. \A d \in Nat : d \in T => d + 1 \in T
  <2> SUFFICES ASSUME NEW d \in Nat, f[a + d] \in X, a + (d + 1) <= n PROVE f[a + (d + 1)] \in X
    OBVIOUS
  <2>1. a + (d + 1) \in (a + 1)..n /\ (a + (d + 1)) - 1 = a + d
    OBVIOUS
  <2> QED BY <2>1
<1>3. T \in SUBSET Nat
  OBVIOUS
<1> HIDE DEF T
<1>4. T = Nat
  BY <1>1, <1>2, <1>3, Induction
<1> SUFFICES ASSUME NEW k \in a..n PROVE f[k] \in X
  OBVIOUS
<1>5. k - a \in Nat /\ a + (k - a) = k /\ k <= n
  OBVIOUS
<1>6. k - a \in T
  BY <1>4, <1>5
<1> QED BY <1>5, <1>6 DEF T

\* f[k] is what step makes of f[k - 1].
Iterates(f, base, step, a, n) == \A k \in a..n : f[k] = IF k = a THEN base ELSE step[<<k, f[k - 1]>>]

LEMMA RecursionExists ==
    ASSUME NEW X, NEW base \in X, NEW a \in Nat, NEW n \in Nat, a <= n,
           NEW step \in [((a + 1)..n) \X X -> X]
    PROVE  \E f \in [a..n -> X] : Iterates(f, base, step, a, n)
<1> DEFINE T == {d \in Nat : a + d <= n => \E f \in [a..(a + d) -> X] : Iterates(f, base, step, a, a + d)}
<1>1. 0 \in T
  <2> DEFINE f == [k \in a..(a + 0) |-> base]
  <2>1. f \in [a..(a + 0) -> X] /\ \A k \in a..(a + 0) : k = a /\ f[k] = base
    OBVIOUS
  <2> HIDE DEF f
  <2>2. Iterates(f, base, step, a, a + 0)
    BY <2>1 DEF Iterates
  <2> QED BY <2>1, <2>2
<1>2. \A d \in Nat : d \in T => d + 1 \in T
  <2> SUFFICES ASSUME NEW d \in Nat, a + (d + 1) <= n,
                      NEW old \in [a..(a + d) -> X], Iterates(old, base, step, a, a + d)
               PROVE  \E f \in [a..(a + (d + 1)) -> X] : Iterates(f, base, step, a, a + (d + 1))
    OBVIOUS
  <2> DEFINE e == a + d + 1
             f == [k \in a..e |-> IF k = e THEN step[<<e, old[e - 1]>>] ELSE old[k]]
  <2>1. e \in (a + 1)..n /\ e - 1 = a + d /\ e = a + (d + 1) /\ e # a /\ e - 1 \in a..e /\ e \in a..e
    OBVIOUS
  <2> HIDE DEF e
  <2>2. old[e - 1] \in X
    BY <2>1
  <2>3. step[<<e, old[e - 1]>>] \in X
    BY <2>1, <2>2
  <2>4. f \in [a..e -> X]
    BY <2>1, <2>3
  <2>5. Iterates(f, base, step, a, e)
    <3> SUFFICES ASSUME NEW k \in a..e PROVE f[k] = IF k = a THEN base ELSE step[<<k, f[k - 1]>>]
      BY DEF Iterates
    <3>1. CASE k = e
      <4>1. f[k] = step[<<e, old[e - 1]>>] /\ f[e - 1] = old[e - 1]
        BY <2>1, <3>1
      <4> HIDE DEF f
      <4> QED BY <2>1, <3>1, <4>1
    <3>2. CASE k # e
      <4>1. k \in a..(a + d) /\ f[k] = old[k]
        BY <2>1, <3>2
      <4>2. k # a => k - 1 \in a..e /\ k - 1 # e /\ f[k - 1] = old[k - 1]
        BY <2>1, <4>1
      <4>3. old[k] = IF k = a THEN base ELSE step[<<k, old[k - 1]>>]
        BY <4>1 DEF Iterates
      <4> HIDE DEF f
      <4> QED BY <4>1, <4>2, <4>3
    <3> QED BY <3>1, <3>2
  <2> HIDE DEF f
  <2> QED BY <2>1, <2>4, <2>5
<1>3. T \in SUBSET Nat
  OBVIOUS
<1> HIDE DEF T
<1>4. T = Nat
  BY <1>1, <1>2, <1>3, Induction
<1>5. n - a \in Nat /\ a + (n - a) = n /\ n <= n
  OBVIOUS
<1>6. n - a \in T
  BY <1>4, <1>5
<1> QED BY <1>5, <1>6 DEF T

-----------------------------------------------------------------------------
(* Sums.  SumFunctionOnSet adds in an order of its own choice; Total adds  *)
(* in the order of the symbols, and is the same.                           *)

NumSymbols == NSymbols \in Nat /\ NSymbols >= 2 /\ NSymbols <= NormSum

LEMMA SymbolSizes == NumSymbols /\ Symbols \in SUBSET Nat /\ NormSum \in Nat /\ Lanes \in Nat \ {0} /\ Topmost \in Nat
<1>1. NSymbols \in 2..NormSum /\ NormSum \in Nat
  BY SizeAssumption, CodeAssumption
<1>2. NumSymbols
  BY <1>1 DEF NumSymbols
<1> QED BY <1>1, <1>2, SizeAssumption DEF Symbols, Topmost, NumSymbols

\* What of h counts at the place k - 1.
Addend(h, s, k) == IF k - 1 \in s THEN h[k - 1] ELSE 0

Adds(g, h, s) == g[0] = 0 /\ \A k \in 1..NSymbols : g[k] = g[k - 1] + Addend(h, s, k)

Sums(h, s) == CHOOSE g \in [0..NSymbols -> Nat] : Adds(g, h, s)
Total(h, s) == Sums(h, s)[NSymbols]

LEMMA AddendType ==
    ASSUME NEW h \in [Symbols -> Nat], NEW s \in SUBSET Symbols, NEW k
    PROVE  Addend(h, s, k) \in Nat
BY DEF Addend

LEMMA SumsExist ==
    ASSUME NEW h \in [Symbols -> Nat], NEW s \in SUBSET Symbols
    PROVE  Sums(h, s) \in [0..NSymbols -> Nat] /\ Adds(Sums(h, s), h, s)
<1> DEFINE step == [p \in ((0 + 1)..NSymbols) \X Nat |-> p[2] + Addend(h, s, p[1])]
<1>0. NSymbols \in Nat /\ 0 <= NSymbols /\ 0 \in Nat
  BY SymbolSizes DEF NumSymbols
<1>1. step \in [((0 + 1)..NSymbols) \X Nat -> Nat]
  BY AddendType
<1>2. \A k \in (0 + 1)..NSymbols, x \in Nat : step[<<k, x>>] = x + Addend(h, s, k)
  OBVIOUS
<1> HIDE DEF step
<1>3. PICK g \in [0..NSymbols -> Nat] : Iterates(g, 0, step, 0, NSymbols)
  BY <1>0, <1>1, RecursionExists
<1>4. Adds(g, h, s)
  <2>1. g[0] = 0
    <3>1. 0 \in 0..NSymbols
      BY <1>0
    <3> QED BY <1>3, <3>1 DEF Iterates
  <2>2. \A k \in 1..NSymbols : g[k] = g[k - 1] + Addend(h, s, k)
    <3> TAKE k \in 1..NSymbols
    <3>1. k \in 0..NSymbols /\ k # 0 /\ k - 1 \in 0..NSymbols /\ k \in (0 + 1)..NSymbols
      BY <1>0
    <3>2. g[k] = step[<<k, g[k - 1]>>] /\ g[k - 1] \in Nat
      BY <1>3, <3>1 DEF Iterates
    <3> QED BY <1>2, <3>1, <3>2
  <2> QED BY <2>1, <2>2 DEF Adds
<1> HIDE DEF Adds
<1> QED BY <1>4, Zenon DEF Sums

\* Taking x out of the set takes h[x] out of the sum.
LEMMA TotalRemoves ==
    ASSUME NEW h \in [Symbols -> Nat], NEW s \in SUBSET Symbols, NEW x \in s
    PROVE  Total(h, s) = h[x] + Total(h, s \ {x})
<1> DEFINE f == Sums(h, s)
           g == Sums(h, s \ {x})
           T == {n \in Nat : n <= NSymbols => f[n] = g[n] + IF x < n THEN h[x] ELSE 0}
<1>0. /\ f \in [0..NSymbols -> Nat] /\ Adds(f, h, s)
      /\ g \in [0..NSymbols -> Nat] /\ Adds(g, h, s \ {x})
  BY SumsExist
<1>1. NSymbols \in Nat /\ x \in Nat /\ x < NSymbols /\ h[x] \in Nat
  BY SymbolSizes DEF NumSymbols, Symbols
<1> HIDE DEF f, g
<1>2. 0 \in T
  BY <1>0, <1>1 DEF Adds
<1>3. \A n \in Nat : n \in T => n + 1 \in T
  <2> SUFFICES ASSUME NEW n \in Nat, n + 1 <= NSymbols, f[n] = g[n] + IF x < n THEN h[x] ELSE 0
               PROVE  f[n + 1] = g[n + 1] + IF x < n + 1 THEN h[x] ELSE 0
    BY <1>1
  <2>1. n + 1 \in 1..NSymbols /\ (n + 1) - 1 = n /\ n \in 0..NSymbols
    BY <1>1
  <2>2. f[n + 1] = f[n] + Addend(h, s, n + 1) /\ g[n + 1] = g[n] + Addend(h, s \ {x}, n + 1)
    BY <1>0, <2>1 DEF Adds
  <2>3. g[n] \in Nat /\ Addend(h, s, n + 1) \in Nat /\ Addend(h, s \ {x}, n + 1) \in Nat
    BY <1>0, <2>1, AddendType
  <2>4. CASE n = x
    <3>1. Addend(h, s, n + 1) = h[x] /\ Addend(h, s \ {x}, n + 1) = 0
      BY <2>1, <2>4 DEF Addend
    <3> QED BY <1>1, <2>2, <2>3, <2>4, <3>1
  <2>5. CASE n # x
    <3>1. Addend(h, s, n + 1) = Addend(h, s \ {x}, n + 1)
      BY <2>1, <2>5 DEF Addend
    <3> QED BY <1>1, <2>2, <2>3, <2>5, <3>1
  <2> QED BY <2>4, <2>5
<1>4. T \in SUBSET Nat
  OBVIOUS
<1> HIDE DEF T
<1>5. T = Nat
  BY <1>2, <1>3, <1>4, Induction
<1>6. f[NSymbols] = g[NSymbols] + h[x]
  <2>1. NSymbols \in T
    BY <1>1, <1>5
  <2> QED BY <1>1, <2>1 DEF T
<1>7. g[NSymbols] \in Nat
  <2>1. NSymbols \in 0..NSymbols
    BY <1>1
  <2> QED BY <1>0, <2>1
<1> QED BY <1>1, <1>6, <1>7 DEF Total, f, g

LEMMA TotalType ==
    ASSUME NEW h \in [Symbols -> Nat], NEW s \in SUBSET Symbols
    PROVE  Total(h, s) \in Nat
BY SumsExist, SymbolSizes DEF Total, NumSymbols

\* Only what is in the set counts.
LEMMA TotalAgrees ==
    ASSUME NEW h \in [Symbols -> Nat], NEW k \in [Symbols -> Nat], NEW s \in SUBSET Symbols,
           \A x \in s : h[x] = k[x]
    PROVE  Total(h, s) = Total(k, s)
<1> DEFINE f == Sums(h, s)
           g == Sums(k, s)
           T == {n \in Nat : n <= NSymbols => f[n] = g[n]}
<1>0. /\ f \in [0..NSymbols -> Nat] /\ Adds(f, h, s)
      /\ g \in [0..NSymbols -> Nat] /\ Adds(g, k, s)
  BY SumsExist
<1>1. NSymbols \in Nat
  BY SymbolSizes DEF NumSymbols
<1> HIDE DEF f, g
<1>2. 0 \in T
  BY <1>0, <1>1 DEF Adds
<1>3. \A n \in Nat : n \in T => n + 1 \in T
  <2> SUFFICES ASSUME NEW n \in Nat, n + 1 <= NSymbols, f[n] = g[n]
               PROVE  f[n + 1] = g[n + 1]
    BY <1>1
  <2>1. n + 1 \in 1..NSymbols /\ (n + 1) - 1 = n
    BY <1>1
  <2>2. f[n + 1] = f[n] + Addend(h, s, n + 1) /\ g[n + 1] = g[n] + Addend(k, s, n + 1)
    BY <1>0, <2>1 DEF Adds
  <2>3. Addend(h, s, n + 1) = Addend(k, s, n + 1)
    BY <2>1 DEF Addend
  <2> QED BY <2>2, <2>3
<1>4. T \in SUBSET Nat
  OBVIOUS
<1> HIDE DEF T
<1>5. T = Nat
  BY <1>2, <1>3, <1>4, Induction
<1> QED BY <1>1, <1>5 DEF Total, f, g, T

LEMMA TotalEmpty ==
    ASSUME NEW h \in [Symbols -> Nat]
    PROVE  Total(h, {}) = 0
<1> DEFINE g == Sums(h, {})
           T == {n \in Nat : n <= NSymbols => g[n] = 0}
<1>0. g \in [0..NSymbols -> Nat] /\ Adds(g, h, {})
  BY SumsExist
<1>1. NSymbols \in Nat
  BY SymbolSizes DEF NumSymbols
<1> HIDE DEF g
<1>2. 0 \in T
  BY <1>0, <1>1 DEF Adds
<1>3. \A n \in Nat : n \in T => n + 1 \in T
  <2> SUFFICES ASSUME NEW n \in Nat, n + 1 <= NSymbols, g[n] = 0 PROVE g[n + 1] = 0
    BY <1>1
  <2>1. n + 1 \in 1..NSymbols /\ (n + 1) - 1 = n /\ Addend(h, {}, n + 1) = 0
    BY <1>1 DEF Addend
  <2> QED BY <1>0, <2>1 DEF Adds
<1>4. T \in SUBSET Nat
  OBVIOUS
<1> HIDE DEF T
<1>5. T = Nat
  BY <1>2, <1>3, <1>4, Induction
<1> QED BY <1>1, <1>5 DEF Total, g, T

\* Entries of at most one sum up to the number of symbols at most.
LEMMA TotalSmall ==
    ASSUME NEW h \in [Symbols -> Nat], \A x \in Symbols : h[x] <= 1
    PROVE  Total(h, Symbols) <= NSymbols
<1> DEFINE g == Sums(h, Symbols)
           T == {n \in Nat : n <= NSymbols => g[n] <= n}
<1>0. g \in [0..NSymbols -> Nat] /\ Adds(g, h, Symbols)
  BY SumsExist
<1>1. NSymbols \in Nat
  BY SymbolSizes DEF NumSymbols
<1> HIDE DEF g
<1>2. 0 \in T
  BY <1>0, <1>1 DEF Adds
<1>3. \A n \in Nat : n \in T => n + 1 \in T
  <2> SUFFICES ASSUME NEW n \in Nat, n + 1 <= NSymbols, g[n] <= n PROVE g[n + 1] <= n + 1
    BY <1>1
  <2>1. n + 1 \in 1..NSymbols /\ (n + 1) - 1 = n /\ n \in 0..NSymbols /\ g[n] \in Nat
    BY <1>0, <1>1
  <2>2. Addend(h, Symbols, n + 1) <= 1 /\ Addend(h, Symbols, n + 1) \in Nat
    BY <2>1, AddendType DEF Addend
  <2>3. g[n + 1] = g[n] + Addend(h, Symbols, n + 1)
    BY <1>0, <2>1 DEF Adds
  <2> QED BY <2>1, <2>2, <2>3
<1>4. T \in SUBSET Nat
  OBVIOUS
<1> HIDE DEF T
<1>5. T = Nat
  BY <1>2, <1>3, <1>4, Induction
<1> QED BY <1>1, <1>5 DEF Total, g, T

\* The sum of the community modules.
Folds(it, h, S) ==
    it = [s \in SUBSET S |-> IF s = {} THEN 0
                             ELSE LET x == CHOOSE x \in s : TRUE IN h[x] + it[s \ {x}]]

LEMMA SumIsTotal ==
    ASSUME NEW h \in [Symbols -> Nat], NEW S \in SUBSET Symbols
    PROVE  SumFunctionOnSet(h, S) = Total(h, S)
<1> DEFINE it == CHOOSE f : Folds(f, h, S)
           all == [s \in SUBSET S |-> Total(h, s)]
<1>1. SumFunctionOnSet(h, S) = it[S]
  BY DEF SumFunctionOnSet, FoldFunctionOnSet, MapThenFoldSet, Folds
<1>2. \A s \in SUBSET S : all[s] = IF s = {} THEN 0 ELSE LET x == CHOOSE x \in s : TRUE IN h[x] + all[s \ {x}]
  <2> TAKE s \in SUBSET S
  <2>1. CASE s = {}
    BY <2>1, TotalEmpty
  <2>2. CASE s # {}
    <3> DEFINE x == CHOOSE x \in s : TRUE
    <3>1. x \in s
      BY <2>2
    <3> HIDE DEF x
    <3>2. Total(h, s) = h[x] + Total(h, s \ {x})
      BY <3>1, TotalRemoves
    <3>3. all[s] = Total(h, s) /\ all[s \ {x}] = Total(h, s \ {x})
      OBVIOUS
    <3> HIDE DEF all
    <3> QED BY <2>2, <3>2, <3>3 DEF x
  <2> QED BY <2>1, <2>2
<1>3. all = [s \in SUBSET S |-> all[s]]
  OBVIOUS
<1> HIDE DEF all
<1>4. Folds(all, h, S)
  BY <1>2, <1>3 DEF Folds
<1>5. Folds(it, h, S)
  <2> HIDE DEF Folds
  <2> QED BY <1>4, Zenon
<1> HIDE DEF it
<1>6. IsFiniteSet(S) /\ Cardinality(S) \in Nat
  <2>1. 0 \in Int /\ NSymbols - 1 \in Int
    BY SymbolSizes DEF NumSymbols
  <2>2. IsFiniteSet(Symbols)
    BY <2>1, FS_Interval DEF Symbols
  <2>3. IsFiniteSet(S)
    BY <2>2, FS_Subset
  <2> QED BY <2>3, FS_CardinalityType
<1> DEFINE T == {n \in Nat : \A s \in SUBSET S : Cardinality(s) = n => it[s] = Total(h, s)}
<1>7. 0 \in T
  <2> SUFFICES ASSUME NEW s \in SUBSET S, Cardinality(s) = 0 PROVE it[s] = Total(h, s)
    OBVIOUS
  <2>1. s = {}
    BY <1>6, FS_Subset, FS_EmptySet
  <2>2. it[s] = 0
    BY <1>5, <2>1 DEF Folds
  <2> QED BY <2>1, <2>2, TotalEmpty
<1>8. \A n \in Nat : n \in T => n + 1 \in T
  <2> SUFFICES ASSUME NEW n \in Nat, \A s \in SUBSET S : Cardinality(s) = n => it[s] = Total(h, s),
                      NEW s \in SUBSET S, Cardinality(s) = n + 1
               PROVE  it[s] = Total(h, s)
    OBVIOUS
  <2>1. IsFiniteSet(s)
    BY <1>6, FS_Subset
  <2>2. s # {}
    BY <2>1, FS_EmptySet
  <2> DEFINE x == CHOOSE x \in s : TRUE
  <2>3. x \in s
    BY <2>2
  <2>4. it[s] = h[x] + it[s \ {x}]
    BY <1>5, <2>2 DEF Folds
  <2> HIDE DEF x
  <2>5. Cardinality(s \ {x}) = n
    <3>1. Cardinality(s \ {x}) = Cardinality(s) - 1
      BY <2>1, <2>3, FS_RemoveElement
    <3> QED BY <3>1
  <2>6. it[s \ {x}] = Total(h, s \ {x})
    BY <2>5
  <2>7. Total(h, s) = h[x] + Total(h, s \ {x})
    BY <2>3, TotalRemoves
  <2> QED BY <2>4, <2>6, <2>7
<1>9. T \in SUBSET Nat
  OBVIOUS
<1> HIDE DEF T
<1>10. T = Nat
  BY <1>7, <1>8, <1>9, Induction
<1>11. Cardinality(S) \in T
  BY <1>6, <1>10
<1>12. it[S] = Total(h, S)
  BY <1>11 DEF T
<1> QED BY <1>1, <1>12

\* What follows for the sums of the model.
LEMMA SumIsAll ==
    ASSUME NEW h \in [Symbols -> Nat]
    PROVE  SumFunction(h) = Total(h, Symbols)
<1>1. DOMAIN h = Symbols
  OBVIOUS
<1> QED BY <1>1, SumIsTotal DEF SumFunction

LEMMA SumChanges ==
    ASSUME NEW h \in [Symbols -> Nat], NEW i \in Symbols, NEW d \in Nat
    PROVE  SumFunction([h EXCEPT ![i] = d]) + h[i] = SumFunction(h) + d
<1> DEFINE k == [h EXCEPT ![i] = d]
           s == Symbols \ {i}
<1>1. k \in [Symbols -> Nat] /\ k[i] = d /\ \A x \in s : k[x] = h[x]
  OBVIOUS
<1> HIDE DEF k
<1>2. Total(h, s) = Total(k, s)
  BY <1>1, TotalAgrees
<1>3. Total(h, s) \in Nat /\ h[i] \in Nat
  BY TotalType
<1>4. Total(h, Symbols) = h[i] + Total(h, s) /\ Total(k, Symbols) = k[i] + Total(k, s)
  BY <1>1, TotalRemoves
<1>5. SumFunction(h) = h[i] + Total(h, s) /\ SumFunction(k) = d + Total(h, s)
  BY <1>1, <1>2, <1>4, SumIsAll
<1> QED BY <1>3, <1>5 DEF k

LEMMA SumType ==
    ASSUME NEW h \in [Symbols -> Nat]
    PROVE  SumFunction(h) \in Nat /\ \A i \in Symbols : h[i] <= SumFunction(h)
<1>1. SumFunction(h) = Total(h, Symbols) /\ SumFunction(h) \in Nat
  BY SumIsAll, TotalType
<1> SUFFICES ASSUME NEW i \in Symbols PROVE h[i] <= SumFunction(h)
  BY <1>1
<1>2. Total(h, Symbols) = h[i] + Total(h, Symbols \ {i}) /\ Total(h, Symbols \ {i}) \in Nat /\ h[i] \in Nat
  BY TotalRemoves, TotalType
<1> QED BY <1>1, <1>2

-----------------------------------------------------------------------------
(* The tables.  normalize() goes round until the sum is right.             *)

Tallies == [Symbols -> Nat]
Places == Tallies \X Symbols

\* One entry of a round.
Moved(h, i) ==
    CASE SumFunction(h) > NormSum -> IF h[i] > 1 THEN [h EXCEPT ![i] = @ - 1] ELSE h
      [] SumFunction(h) < NormSum -> IF h[i] > 0 THEN [h EXCEPT ![i] = @ + 1] ELSE h
      [] OTHER -> h
Following(i) == (i + 1) % NSymbols

\* What Adjusted asks of its function.
Rounds(r) ==
    r = [p \in Tallies \X Symbols |->
            CASE SumFunction(p[1]) > NormSum ->
                     r[<<IF p[1][p[2]] > 1 THEN [p[1] EXCEPT ![p[2]] = @ - 1] ELSE p[1], (p[2] + 1) % NSymbols>>]
              [] SumFunction(p[1]) < NormSum ->
                     r[<<IF p[1][p[2]] > 0 THEN [p[1] EXCEPT ![p[2]] = @ + 1] ELSE p[1], (p[2] + 1) % NSymbols>>]
              [] OTHER -> p[1]]

LEMMA FollowingType == \A i \in Symbols : Following(i) \in Symbols
<1> SUFFICES ASSUME NEW i \in Symbols PROVE (i + 1) % NSymbols \in 0..(NSymbols - 1)
  BY DEF Following, Symbols
<1>1. i + 1 \in Int /\ NSymbols \in Nat \ {0}
  BY SymbolSizes DEF NumSymbols
<1> QED BY <1>1, IntDivision

LEMMA MovedType == \A h \in Tallies, i \in Symbols : Moved(h, i) \in Tallies
<1> SUFFICES ASSUME NEW h \in Tallies, NEW i \in Symbols PROVE Moved(h, i) \in Tallies
  OBVIOUS
<1>1. h[i] \in Nat /\ SumFunction(h) \in Nat /\ NormSum \in Nat
  BY SumType, SymbolSizes DEF Tallies
<1>2. h[i] > 1 => h[i] - 1 \in Nat
  BY <1>1
<1>3. [h EXCEPT ![i] = @ + 1] \in Tallies /\ (h[i] > 1 => [h EXCEPT ![i] = @ - 1] \in Tallies)
  BY <1>1, <1>2 DEF Tallies
<1> QED BY <1>1, <1>3 DEF Moved

LEMMA AdjustedIsRound ==
    ASSUME NEW count \in Tallies
    PROVE  Adjusted(count) = (CHOOSE r : Rounds(r))[<<count, 0>>]
BY DEF Adjusted, Rounds, Tallies

\* f leads from the place p to one where the sum is right, for the first time.
Leads(f, p, n) ==
    /\ f \in [0..n -> Places] /\ f[0] = p
    /\ \A k \in 1..n : /\ SumFunction(f[k - 1][1]) # NormSum
                       /\ f[k] = <<Moved(f[k - 1][1], f[k - 1][2]), Following(f[k - 1][2])>>
    /\ SumFunction(f[n][1]) = NormSum
Ends(p) == {h \in Tallies : \E n \in Nat : \E f : Leads(f, p, n) /\ h = f[n][1]}

LEMMA EndsOfRight ==
    ASSUME NEW h \in Tallies, NEW i \in Symbols, SumFunction(h) = NormSum
    PROVE  Ends(<<h, i>>) = {h}
<1> DEFINE p == <<h, i>>
<1>0. p \in Places /\ p[1] = h
  BY DEF Places
<1> HIDE DEF p
<1>1. h \in Ends(p)
  <2> DEFINE f == [k \in 0..0 |-> p]
  <2>1. f \in [0..0 -> Places] /\ f[0] = p /\ 1..0 = {} /\ 0 \in Nat
    BY <1>0
  <2> HIDE DEF f
  <2>2. Leads(f, p, 0) /\ h = f[0][1]
    BY <1>0, <2>1 DEF Leads
  <2> QED BY <2>1, <2>2 DEF Ends
<1>2. ASSUME NEW g \in Ends(p) PROVE g = h
  <2>0. PICK n \in Nat : \E f : Leads(f, p, n) /\ g = f[n][1]
    BY DEF Ends
  <2>1. PICK f : Leads(f, p, n) /\ g = f[n][1]
    BY <2>0
  <2>2. n = 0
    <3> SUFFICES ASSUME n # 0 PROVE FALSE
      OBVIOUS
    <3>1. 1 \in 1..n /\ 1 - 1 = 0
      OBVIOUS
    <3>2. SumFunction(f[0][1]) # NormSum
      BY <2>1, <3>1 DEF Leads
    <3> QED BY <1>0, <2>1, <3>2 DEF Leads
  <2> QED BY <1>0, <2>1, <2>2 DEF Leads
<1> QED BY <1>1, <1>2 DEF p

LEMMA EndsOfOther ==
    ASSUME NEW h \in Tallies, NEW i \in Symbols, SumFunction(h) # NormSum
    PROVE  Ends(<<h, i>>) = Ends(<<Moved(h, i), Following(i)>>)
<1> DEFINE p == <<h, i>>
           q == <<Moved(h, i), Following(i)>>
<1>0. p \in Places /\ p[1] = h /\ q \in Places /\ q = <<Moved(p[1], p[2]), Following(p[2])>>
  BY FollowingType, MovedType DEF Places
<1> HIDE DEF p, q
<1>1. ASSUME NEW e \in Ends(p) PROVE e \in Ends(q)
  <2>0. PICK n \in Nat : \E f : Leads(f, p, n) /\ e = f[n][1]
    BY DEF Ends
  <2>1. PICK f : Leads(f, p, n) /\ e = f[n][1]
    BY <2>0
  <2>2. n # 0
    BY <1>0, <2>1 DEF Leads
  <2> DEFINE m == n - 1
             g == [k \in 0..m |-> f[k + 1]]
  <2>3. m \in Nat /\ n = m + 1 /\ 1 \in 1..n /\ 1 - 1 = 0
    BY <2>2
  <2> HIDE DEF m
  <2>4. \A k \in 0..m : k + 1 \in 0..n /\ k + 1 \in 1..n
    BY <2>3
  <2>5. \A k \in 0..m : g[k] = f[k + 1]
    OBVIOUS
  <2>6. g \in [0..m -> Places]
    BY <2>1, <2>4 DEF Leads
  <2> HIDE DEF g
  <2>7. g[0] = q
    <3>1. f[1] = <<Moved(f[0][1], f[0][2]), Following(f[0][2])>> /\ f[0] = p
      BY <2>1, <2>3 DEF Leads
    <3>2. g[0] = f[1]
      BY <2>3, <2>5
    <3> QED BY <1>0, <3>1, <3>2
  <2>8. \A k \in 1..m : /\ SumFunction(g[k - 1][1]) # NormSum
                        /\ g[k] = <<Moved(g[k - 1][1], g[k - 1][2]), Following(g[k - 1][2])>>
    <3> TAKE k \in 1..m
    <3>1. k \in 0..m /\ k - 1 \in 0..m /\ (k - 1) + 1 = k /\ (k + 1) - 1 = k /\ k + 1 \in 1..n
      BY <2>3
    <3>2. g[k] = f[k + 1] /\ g[k - 1] = f[k]
      BY <2>5, <3>1
    <3> QED BY <2>1, <3>1, <3>2 DEF Leads
  <2>9. g[m] = f[n]
    BY <2>3, <2>5
  <2>10. Leads(g, q, m) /\ e = g[m][1]
    BY <2>1, <2>6, <2>7, <2>8, <2>9 DEF Leads
  <2> QED BY <2>3, <2>10 DEF Ends
<1>2. ASSUME NEW e \in Ends(q) PROVE e \in Ends(p)
  <2>0. PICK n \in Nat : \E f : Leads(f, q, n) /\ e = f[n][1]
    BY DEF Ends
  <2>1. PICK f : Leads(f, q, n) /\ e = f[n][1]
    BY <2>0
  <2> DEFINE m == n + 1
             g == [k \in 0..m |-> IF k = 0 THEN p ELSE f[k - 1]]
  <2>3. m \in Nat /\ n = m - 1 /\ m # 0 /\ 0 \in 0..m /\ m \in 0..m
    OBVIOUS
  <2> HIDE DEF m
  <2>4. \A k \in 0..m : k # 0 => k - 1 \in 0..n
    BY <2>3
  <2>5. \A k \in 0..m : g[k] = IF k = 0 THEN p ELSE f[k - 1]
    OBVIOUS
  <2>6. g \in [0..m -> Places]
    BY <1>0, <2>1, <2>4 DEF Leads
  <2> HIDE DEF g
  <2>7. g[0] = p /\ g[m] = f[n]
    BY <2>3, <2>5
  <2>8. \A k \in 1..m : /\ SumFunction(g[k - 1][1]) # NormSum
                        /\ g[k] = <<Moved(g[k - 1][1], g[k - 1][2]), Following(g[k - 1][2])>>
    <3> TAKE k \in 1..m
    <3>0. k \in 0..m /\ k # 0 /\ k - 1 \in 0..m
      BY <2>3
    <3>1. g[k] = f[k - 1]
      BY <2>5, <3>0
    <3>2. CASE k = 1
      <4>1. k - 1 = 0 /\ f[0] = q
        BY <2>1, <3>2 DEF Leads
      <4> QED BY <1>0, <2>7, <3>1, <4>1
    <3>3. CASE k # 1
      <4>1. k - 1 \in 1..n /\ k - 1 # 0 /\ g[k - 1] = f[(k - 1) - 1]
        BY <2>3, <2>5, <3>0, <3>3
      <4>2. /\ SumFunction(f[(k - 1) - 1][1]) # NormSum
            /\ f[k - 1] = <<Moved(f[(k - 1) - 1][1], f[(k - 1) - 1][2]), Following(f[(k - 1) - 1][2])>>
        BY <2>1, <4>1 DEF Leads
      <4> QED BY <3>1, <4>1, <4>2
    <3> QED BY <3>2, <3>3
  <2>9. Leads(g, p, m) /\ e = g[m][1]
    BY <2>1, <2>6, <2>7, <2>8 DEF Leads
  <2> QED BY <2>3, <2>9 DEF Ends
<1> QED BY <1>1, <1>2 DEF p, q

\* There is such a function: where the rounds end, or where they do not, the
\* same at all places that lead to each other.
LEMMA RoundsExist == \E r : Rounds(r)
<1> DEFINE r == [p \in Places |-> CHOOSE e \in Ends(p) : TRUE]
<1>0. \A h \in Tallies, i \in Symbols : <<h, i>> \in Places /\ r[<<h, i>>] = CHOOSE e \in Ends(<<h, i>>) : TRUE
  BY DEF Places
<1>0a. r = [p \in Places |-> r[p]]
  OBVIOUS
<1> HIDE DEF r
<1>1. ASSUME NEW h \in Tallies, NEW i \in Symbols
      PROVE  r[<<h, i>>] = CASE SumFunction(h) > NormSum -> r[<<Moved(h, i), Following(i)>>]
                             [] SumFunction(h) < NormSum -> r[<<Moved(h, i), Following(i)>>]
                             [] OTHER -> h
  <2> DEFINE m == Moved(h, i)
             j == Following(i)
  <2>0. m \in Tallies /\ j \in Symbols /\ SumFunction(h) \in Nat /\ NormSum \in Nat
    BY MovedType, FollowingType, SumType, SymbolSizes DEF Tallies
  <2>1. CASE SumFunction(h) = NormSum
    <3>1. Ends(<<h, i>>) = {h}
      BY <2>1, EndsOfRight
    <3>2. r[<<h, i>>] = h
      BY <1>0, <3>1
    <3> QED BY <2>0, <2>1, <3>2
  <2>2. CASE SumFunction(h) # NormSum
    <3>1. Ends(<<h, i>>) = Ends(<<m, j>>)
      BY <2>2, EndsOfOther
    <3> HIDE DEF m, j
    <3>2. r[<<h, i>>] = r[<<m, j>>]
      BY <1>0, <2>0, <3>1
    <3>3. SumFunction(h) > NormSum \/ SumFunction(h) < NormSum
      BY <2>0, <2>2
    <3> QED BY <3>2, <3>3 DEF m, j
  <2> QED BY <2>1, <2>2
<1>2. ASSUME NEW p \in Tallies \X Symbols
      PROVE  r[p] = CASE SumFunction(p[1]) > NormSum ->
                              r[<<IF p[1][p[2]] > 1 THEN [p[1] EXCEPT ![p[2]] = @ - 1] ELSE p[1],
                                  (p[2] + 1) % NSymbols>>]
                       [] SumFunction(p[1]) < NormSum ->
                              r[<<IF p[1][p[2]] > 0 THEN [p[1] EXCEPT ![p[2]] = @ + 1] ELSE p[1],
                                  (p[2] + 1) % NSymbols>>]
                       [] OTHER -> p[1]
  <2> DEFINE h == p[1]
             i == p[2]
  <2>1. h \in Tallies /\ i \in Symbols /\ p = <<h, i>>
    OBVIOUS
  <2> HIDE DEF h, i
  <2>2. SumFunction(h) \in Nat /\ NormSum \in Nat
    BY <2>1, SumType, SymbolSizes DEF Tallies
  <2>3. r[<<h, i>>] = CASE SumFunction(h) > NormSum ->
                              r[<<IF h[i] > 1 THEN [h EXCEPT ![i] = @ - 1] ELSE h, (i + 1) % NSymbols>>]
                       [] SumFunction(h) < NormSum ->
                              r[<<IF h[i] > 0 THEN [h EXCEPT ![i] = @ + 1] ELSE h, (i + 1) % NSymbols>>]
                       [] OTHER -> h
    <3>1. CASE SumFunction(h) > NormSum
      <4>1. Moved(h, i) = IF h[i] > 1 THEN [h EXCEPT ![i] = @ - 1] ELSE h
        BY <2>2, <3>1 DEF Moved
      <4>2. r[<<h, i>>] = r[<<Moved(h, i), Following(i)>>]
        BY <1>1, <2>1, <2>2, <3>1
      <4> QED BY <2>2, <3>1, <4>1, <4>2 DEF Following
    <3>2. CASE SumFunction(h) < NormSum
      <4>1. Moved(h, i) = IF h[i] > 0 THEN [h EXCEPT ![i] = @ + 1] ELSE h
        BY <2>2, <3>2 DEF Moved
      <4>2. r[<<h, i>>] = r[<<Moved(h, i), Following(i)>>]
        BY <1>1, <2>1, <2>2, <3>2
      <4> QED BY <2>2, <3>2, <4>1, <4>2 DEF Following
    <3>3. CASE SumFunction(h) = NormSum
      <4>0. ~(SumFunction(h) > NormSum) /\ ~(SumFunction(h) < NormSum)
        BY <2>2, <3>3
      <4>1. r[<<h, i>>] = h
        BY <1>1, <2>1, <4>0
      <4> QED BY <2>2, <3>3, <4>1
    <3> QED BY <2>2, <3>1, <3>2, <3>3
  <2> QED BY <2>1, <2>3
<1>3. Rounds(r)
  BY <1>0a, <1>2 DEF Rounds, Places
<1> QED BY <1>3

\* The function of the model.
Round == CHOOSE r : Rounds(r)

LEMMA RoundSteps ==
    ASSUME NEW h \in Tallies, NEW i \in Symbols
    PROVE  Round[<<h, i>>] = IF SumFunction(h) = NormSum THEN h ELSE Round[<<Moved(h, i), Following(i)>>]
<1>1. Rounds(Round)
  BY RoundsExist, Zenon DEF Round
<1> DEFINE p == <<h, i>>
<1>2. p \in Tallies \X Symbols /\ p[1] = h /\ p[2] = i
  OBVIOUS
<1> HIDE DEF p
<1>3. Round[p] = CASE SumFunction(h) > NormSum ->
                          Round[<<IF h[i] > 1 THEN [h EXCEPT ![i] = @ - 1] ELSE h, (i + 1) % NSymbols>>]
                   [] SumFunction(h) < NormSum ->
                          Round[<<IF h[i] > 0 THEN [h EXCEPT ![i] = @ + 1] ELSE h, (i + 1) % NSymbols>>]
                   [] OTHER -> h
  <2>1. Round[p] = CASE SumFunction(p[1]) > NormSum ->
                          Round[<<IF p[1][p[2]] > 1 THEN [p[1] EXCEPT ![p[2]] = @ - 1] ELSE p[1],
                                  (p[2] + 1) % NSymbols>>]
                     [] SumFunction(p[1]) < NormSum ->
                          Round[<<IF p[1][p[2]] > 0 THEN [p[1] EXCEPT ![p[2]] = @ + 1] ELSE p[1],
                                  (p[2] + 1) % NSymbols>>]
                     [] OTHER -> p[1]
    BY <1>1, <1>2, Zenon DEF Rounds
  <2> QED BY <1>2, <2>1, Zenon
<1>4. SumFunction(h) \in Nat /\ NormSum \in Nat
  <2>1. SumFunction(h) \in Nat
    BY SumType, Zenon DEF Tallies
  <2> QED BY <2>1, SymbolSizes
<1>5. CASE SumFunction(h) > NormSum
  <2>1. Moved(h, i) = IF h[i] > 1 THEN [h EXCEPT ![i] = @ - 1] ELSE h
    BY <1>4, <1>5 DEF Moved
  <2>2. Round[p] = Round[<<IF h[i] > 1 THEN [h EXCEPT ![i] = @ - 1] ELSE h, (i + 1) % NSymbols>>]
    BY <1>3, <1>4, <1>5
  <2> QED BY <1>4, <1>5, <2>1, <2>2 DEF p, Following
<1>6. CASE SumFunction(h) < NormSum
  <2>1. Moved(h, i) = IF h[i] > 0 THEN [h EXCEPT ![i] = @ + 1] ELSE h
    BY <1>4, <1>6 DEF Moved
  <2>2. Round[p] = Round[<<IF h[i] > 0 THEN [h EXCEPT ![i] = @ + 1] ELSE h, (i + 1) % NSymbols>>]
    BY <1>3, <1>4, <1>6
  <2> QED BY <1>4, <1>6, <2>1, <2>2 DEF p, Following
<1>7. CASE SumFunction(h) = NormSum
  <2>1. ~(SumFunction(h) > NormSum) /\ ~(SumFunction(h) < NormSum)
    BY <1>4, <1>7
  <2>2. Round[p] = h
    BY <1>3, <2>1
  <2> QED BY <1>7, <2>2 DEF p
<1> QED BY <1>4, <1>5, <1>6, <1>7

\* An entry that can give or take.
Movable(h, i) == IF SumFunction(h) > NormSum THEN h[i] > 1 ELSE h[i] > 0

\* How far the sum is off.
Off(h) == IF SumFunction(h) > NormSum THEN SumFunction(h) - NormSum ELSE NormSum - SumFunction(h)

\* No symbol that occurs loses its place.
Keeps(h, k) == \A v \in Symbols : h[v] > 0 => k[v] > 0

Normal(h, k) == k \in Tallies /\ SumFunction(k) = NormSum /\ Keeps(h, k)

LEMMA MovedGains ==
    ASSUME NEW h \in Tallies, NEW i \in Symbols, SumFunction(h) # NormSum
    PROVE  /\ Keeps(h, Moved(h, i))
           /\ Movable(h, i) => Off(h) = Off(Moved(h, i)) + 1 /\ Off(Moved(h, i)) \in Nat
           /\ ~Movable(h, i) => Moved(h, i) = h
<1>1. /\ SumFunction(h) \in Nat /\ NormSum \in Nat /\ h[i] \in Nat /\ h \in [Symbols -> Nat]
  BY SumType, SymbolSizes DEF Tallies
<1>2. CASE SumFunction(h) > NormSum
  <2>0. Movable(h, i) <=> h[i] > 1
    BY <1>2 DEF Movable
  <2>1. Moved(h, i) = IF h[i] > 1 THEN [h EXCEPT ![i] = h[i] - 1] ELSE h
    BY <1>1, <1>2 DEF Moved
  <2>2. CASE h[i] > 1
    <3> DEFINE k == [h EXCEPT ![i] = h[i] - 1]
    <3>1. h[i] - 1 \in Nat /\ h[i] - 1 > 0
      BY <1>1, <2>2
    <3>2. SumFunction(k) + h[i] = SumFunction(h) + (h[i] - 1)
      BY <1>1, <3>1, SumChanges
    <3>3. k \in [Symbols -> Nat]
      BY <1>1, <3>1
    <3>4. SumFunction(k) \in Nat
      BY <3>3, SumType
    <3>5. Keeps(h, k)
      BY <3>1 DEF Keeps
    <3> HIDE DEF k
    <3>6. SumFunction(k) = SumFunction(h) - 1
      BY <1>1, <3>2, <3>4
    <3>7. Off(h) = Off(k) + 1 /\ Off(k) \in Nat
      BY <1>1, <1>2, <3>4, <3>6 DEF Off
    <3>8. Moved(h, i) = k
      BY <2>1, <2>2 DEF k
    <3> QED BY <2>0, <2>2, <3>5, <3>7, <3>8
  <2>3. CASE ~(h[i] > 1)
    BY <2>0, <2>1, <2>3 DEF Keeps
  <2> QED BY <2>2, <2>3
<1>3. CASE SumFunction(h) < NormSum
  <2>0. Movable(h, i) <=> h[i] > 0
    BY <1>1, <1>3 DEF Movable
  <2>1. Moved(h, i) = IF h[i] > 0 THEN [h EXCEPT ![i] = h[i] + 1] ELSE h
    BY <1>1, <1>3 DEF Moved
  <2>2. CASE h[i] > 0
    <3> DEFINE k == [h EXCEPT ![i] = h[i] + 1]
    <3>1. h[i] + 1 \in Nat /\ h[i] + 1 > 0
      BY <1>1
    <3>2. SumFunction(k) + h[i] = SumFunction(h) + (h[i] + 1)
      BY <1>1, <3>1, SumChanges
    <3>3. k \in [Symbols -> Nat]
      BY <1>1, <3>1
    <3>4. SumFunction(k) \in Nat
      BY <3>3, SumType
    <3>5. Keeps(h, k)
      BY <3>1 DEF Keeps
    <3> HIDE DEF k
    <3>6. SumFunction(k) = SumFunction(h) + 1
      BY <1>1, <3>2, <3>4
    <3>7. Off(h) = Off(k) + 1 /\ Off(k) \in Nat
      BY <1>1, <1>3, <3>4, <3>6 DEF Off
    <3>8. Moved(h, i) = k
      BY <2>1, <2>2 DEF k
    <3> QED BY <2>0, <2>2, <3>5, <3>7, <3>8
  <2>3. CASE ~(h[i] > 0)
    BY <2>0, <2>1, <2>3 DEF Keeps
  <2> QED BY <2>2, <2>3
<1> QED BY <1>1, <1>2, <1>3

\* While the sum is not right, some entry can move: a sum above is above the
\* number of symbols.
LEMMA SomeMovable ==
    ASSUME NEW h \in Tallies, SumFunction(h) # NormSum, NEW v \in Symbols, h[v] > 0
    PROVE  \E i \in Symbols : Movable(h, i)
<1>1. /\ SumFunction(h) \in Nat /\ NormSum \in Nat /\ h \in [Symbols -> Nat] /\ SumFunction(h) = Total(h, Symbols)
      /\ NSymbols \in Nat /\ NSymbols <= NormSum
  BY SumType, SumIsAll, SymbolSizes DEF Tallies, NumSymbols
<1>2. CASE SumFunction(h) > NormSum
  <2> SUFFICES ASSUME \A i \in Symbols : ~(h[i] > 1) PROVE FALSE
    BY <1>2 DEF Movable
  <2>1. \A i \in Symbols : h[i] <= 1
    BY <1>1
  <2>2. Total(h, Symbols) <= NSymbols
    BY <1>1, <2>1, TotalSmall
  <2> QED BY <1>1, <1>2, <2>2
<1>3. CASE ~(SumFunction(h) > NormSum)
  BY <1>3 DEF Movable
<1> QED BY <1>2, <1>3

\* From every place, as long as any symbol occurs, the rounds get to the right sum.
LEMMA RoundIsNormal ==
    ASSUME NEW h \in Tallies, NEW i \in Symbols, NEW v \in Symbols, h[v] > 0
    PROVE  Normal(h, Round[<<h, i>>])
<1> DEFINE Good(g, j) == (\E x \in Symbols : g[x] > 0) => Normal(g, Round[<<g, j>>])
           T == {d \in Nat : \A g \in Tallies, j \in Symbols : Off(g) = d => Good(g, j)}
<1>0. NormSum \in Nat /\ NSymbols \in Nat \ {0} /\ \A g \in Tallies : SumFunction(g) \in Nat
  BY SumType, SymbolSizes DEF Tallies, NumSymbols
<1>1. \A g \in Tallies : Off(g) \in Nat /\ (Off(g) = 0 <=> SumFunction(g) = NormSum)
  BY <1>0 DEF Off
<1>2. 0 \in T
  <2> SUFFICES ASSUME NEW g \in Tallies, NEW j \in Symbols, Off(g) = 0 PROVE Normal(g, Round[<<g, j>>])
    OBVIOUS
  <2>1. Round[<<g, j>>] = g
    BY <1>1, RoundSteps
  <2> QED BY <1>1, <2>1 DEF Normal, Keeps
<1>3. \A d \in Nat : d \in T => d + 1 \in T
  <2> SUFFICES ASSUME NEW d \in Nat, d \in T PROVE d + 1 \in T
    OBVIOUS
  <2>1. \A g \in Tallies, j \in Symbols : Off(g) = d => Good(g, j)
    OBVIOUS
  <2> DEFINE D == {m \in Nat : \A g \in Tallies, j \in Symbols :
                                  Off(g) = d + 1 /\ Movable(g, (j + m) % NSymbols) => Good(g, j)}
  <2> HIDE DEF T, Good
  <2>2. ASSUME NEW g \in Tallies, NEW j \in Symbols, Off(g) = d + 1, Movable(g, j)
        PROVE  Good(g, j)
    <3> SUFFICES ASSUME NEW x \in Symbols, g[x] > 0 PROVE Normal(g, Round[<<g, j>>])
      BY DEF Good
    <3>1. SumFunction(g) # NormSum
      BY <1>1, <2>2
    <3> DEFINE k == Moved(g, j)
               l == Following(j)
    <3>2. k \in Tallies /\ l \in Symbols /\ Keeps(g, k) /\ Off(k) + 1 = d + 1 /\ Off(k) \in Nat
      BY <2>2, <3>1, MovedType, FollowingType, MovedGains
    <3>3. Round[<<g, j>>] = Round[<<k, l>>]
      BY <3>1, RoundSteps
    <3> HIDE DEF k, l
    <3>4. Off(k) = d
      BY <3>2
    <3>5. Good(k, l) /\ k[x] > 0
      BY <2>1, <3>2, <3>4 DEF Keeps
    <3>6. Normal(k, Round[<<k, l>>])
      BY <3>5 DEF Good
    <3> QED BY <3>2, <3>3, <3>6 DEF Normal, Keeps
  <2>3. 0 \in D
    <3> SUFFICES ASSUME NEW g \in Tallies, NEW j \in Symbols, Off(g) = d + 1, Movable(g, (j + 0) % NSymbols)
                 PROVE  Good(g, j)
      OBVIOUS
    <3>1. j + 0 = j /\ j \in Int /\ 0 <= j /\ j < NSymbols
      BY <1>0 DEF Symbols
    <3>2. (j + 0) % NSymbols = j
      BY <1>0, <3>1, ModSmall
    <3> QED BY <2>2, <3>2
  <2>4. \A m \in Nat : m \in D => m + 1 \in D
    <3> SUFFICES ASSUME NEW m \in Nat, m \in D,
                        NEW g \in Tallies, NEW j \in Symbols, Off(g) = d + 1, Movable(g, (j + (m + 1)) % NSymbols)
                 PROVE  Good(g, j)
      OBVIOUS
    <3>1. CASE Movable(g, j)
      BY <2>2, <3>1
    <3>2. CASE ~Movable(g, j)
      <4> SUFFICES ASSUME NEW x \in Symbols, g[x] > 0 PROVE Normal(g, Round[<<g, j>>])
        BY DEF Good
      <4>1. SumFunction(g) # NormSum
        BY <1>1
      <4> DEFINE l == Following(j)
      <4>2. l \in Symbols /\ Round[<<g, j>>] = Round[<<g, l>>]
        BY <3>2, <4>1, MovedGains, FollowingType, RoundSteps
      <4>3. (l + m) % NSymbols = (j + (m + 1)) % NSymbols
        <5>1. j + 1 \in Int /\ m \in Int /\ (j + 1) + m = j + (m + 1)
          BY DEF Symbols
        <5>2. (((j + 1) % NSymbols) + m) % NSymbols = ((j + 1) + m) % NSymbols
          BY <1>0, <5>1, ModShift, Zenon
        <5> QED BY <5>1, <5>2 DEF Following
      <4> HIDE DEF l
      <4>4. Good(g, l)
        BY <4>2, <4>3
      <4> QED BY <4>2, <4>4 DEF Good
    <3> QED BY <3>1, <3>2
  <2>5. D \in SUBSET Nat
    OBVIOUS
  <2>6. D = Nat
    <3> HIDE DEF D
    <3> QED BY <2>3, <2>4, <2>5, Induction
  <2> SUFFICES ASSUME NEW g \in Tallies, NEW j \in Symbols, Off(g) = d + 1 PROVE Good(g, j)
    BY DEF T
  <2> SUFFICES ASSUME NEW x \in Symbols, g[x] > 0 PROVE Good(g, j)
    BY DEF Good
  <2>7. SumFunction(g) # NormSum
    BY <1>1
  <2>8. PICK t \in Symbols : Movable(g, t)
    BY <2>7, SomeMovable
  <2> DEFINE m == (t - j) % NSymbols
  <2>9. m \in Nat /\ (j + m) % NSymbols = t
    <3>1. t - j \in Int /\ j \in Int /\ t \in Int /\ 0 <= t /\ t < NSymbols /\ (t - j) + j = t
      BY <1>0 DEF Symbols
    <3>2. m \in 0..(NSymbols - 1)
      BY <1>0, <3>1, IntDivision
    <3>3. (m + j) % NSymbols = ((t - j) + j) % NSymbols
      BY <1>0, <3>1, ModShift, Zenon
    <3> HIDE DEF m
    <3>4. t % NSymbols = t
      BY <1>0, <3>1, ModSmall
    <3>5. m \in Nat /\ m + j = j + m
      BY <1>0, <3>1, <3>2
    <3> QED BY <3>1, <3>3, <3>4, <3>5
  <2> HIDE DEF m
  <2>10. m \in D
    BY <2>6, <2>9
  <2> QED BY <2>8, <2>9, <2>10
<1>4. T \in SUBSET Nat
  OBVIOUS
<1> HIDE DEF T
<1>5. T = Nat
  BY <1>2, <1>3, <1>4, Induction
<1>6. Off(h) \in T
  BY <1>1, <1>5
<1> QED BY <1>6 DEF T

\* What a coder needs of a table.
Table(h) == h \in [Symbols -> 0..NormSum] /\ SumFunction(h) = NormSum

LEMMA NormalIsTable ==
    ASSUME NEW h \in Tallies, SumFunction(h) = NormSum
    PROVE  Table(h)
<1>1. \A v \in Symbols : h[v] \in Nat /\ h[v] <= NormSum
  BY SumType DEF Tallies
<1>2. \A v \in Symbols : h[v] \in 0..NormSum
  BY <1>1, SymbolSizes
<1> QED BY <1>2 DEF Table, Tallies

LEMMA ScaledCounts ==
    ASSUME NEW n \in Nat, NEW sum \in Nat \ {0}
    PROVE  Scaled(n, sum) \in Nat /\ Scaled(n, sum) > 0
<1> DEFINE d == (49 * sum + 100 * (NormSum * n)) \div (100 * sum)
<1>1. d \in Nat
  <2>1. NormSum * n \in Nat
    BY SymbolSizes
  <2> DEFINE a == NormSum * n
  <2> HIDE DEF a
  <2>2. a \in Nat
    BY <2>1 DEF a
  <2>3. 49 * sum + 100 * a \in Nat /\ 100 * sum \in Nat \ {0}
    BY <2>2
  <2>4. (49 * sum + 100 * a) \div (100 * sum) \in Nat
    BY <2>3, Division
  <2> QED BY <2>4 DEF a
<1> HIDE DEF d
<1> DEFINE m == Max({1, d})
<1>2. m \in {1, d} /\ \A y \in {1, d} : m >= y
  <2>1. \E x \in {1, d} : \A y \in {1, d} : x >= y
    BY <1>1
  <2> DEFINE P(x) == \A y \in {1, d} : x >= y
  <2>2. \E x \in {1, d} : P(x)
    BY <2>1
  <2>3. m = CHOOSE x \in {1, d} : P(x)
    BY DEF Max
  <2> HIDE DEF P, m
  <2>4. m \in {1, d} /\ P(m)
    BY <2>2, <2>3, Zenon
  <2> QED BY <2>4 DEF P
<1>3. Scaled(n, sum) = m
  BY DEF Scaled, d
<1> HIDE DEF m
<1> QED BY <1>1, <1>2, <1>3

\* normalize() for every counts: its last loops end, and leave a table of the right sum
\* in which every symbol that was counted has a place, however rare it is.
THEOREM NormalisedIsTable ==
    ASSUME NEW count \in Tallies
    PROVE  /\ Table(Normalised(count))
           /\ \A v \in Symbols : count[v] > 0 => Normalised(count)[v] > 0
<1> DEFINE used == {v \in Symbols : count[v] > 0}
           v0 == IF used = {} THEN 0 ELSE Max(used)
           sum == SumFunction(count)
           v1 == IF v0 = 0 THEN 1 ELSE 0
           two == [v \in Symbols |-> IF v = v0 THEN NormSum - 1 ELSE IF v = v1 THEN 1 ELSE 0]
           scaled == [v \in Symbols |-> IF count[v] > 0 THEN Scaled(count[v], sum) ELSE 0]
<1>0. /\ Normalised(count) = IF Cardinality(used) <= 1 THEN two ELSE Adjusted(scaled)
      /\ NSymbols \in Nat /\ NSymbols >= 2 /\ NSymbols <= NormSum /\ NormSum \in Nat
      /\ count \in [Symbols -> Nat]
  BY SymbolSizes DEF Normalised, NumSymbols, Tallies
<1>1. IsFiniteSet(used) /\ Cardinality(used) \in Nat
  <2>1. IsFiniteSet(Symbols)
    BY <1>0, FS_Interval DEF Symbols
  <2>2. IsFiniteSet(used)
    BY <2>1, FS_Subset
  <2> QED BY <2>2, FS_CardinalityType
<1>2. 0 \in Symbols /\ 1 \in Symbols
  BY <1>0 DEF Symbols
<1>3. CASE Cardinality(used) <= 1
  <2>1. \A v \in used : used = {v}
    <3> SUFFICES ASSUME NEW v \in used PROVE used = {v}
      OBVIOUS
    <3>1. Cardinality(used) # 0
      BY <1>1, FS_EmptySet
    <3>2. Cardinality(used) = 1
      BY <1>1, <1>3, <3>1
    <3> HIDE DEF used
    <3>3. \E x : used = {x}
      BY <1>1, <3>2, FS_Singleton
    <3> QED BY <3>3
  <2>2. v0 \in Symbols /\ \A v \in used : v = v0
    <3>1. CASE used = {}
      BY <1>2, <3>1
    <3>2. CASE used # {}
      <4>1. PICK v \in used : TRUE
        BY <3>2
      <4>2. used = {v} /\ v \in Nat /\ v \in Symbols
        BY <2>1, <4>1, SymbolSizes
      <4> HIDE DEF used
      <4>3. Max({v}) = v
        BY <4>2 DEF Max
      <4> QED BY <3>2, <4>2, <4>3
    <3> QED BY <3>1, <3>2
  <2> HIDE DEF used, v0
  <2>3. v1 \in Symbols /\ v1 # v0
    BY <1>2
  <2> HIDE DEF v1
  <2>4. two \in [Symbols -> Nat] /\ two[v0] = NormSum - 1 /\ two[v1] = 1 /\ \A v \in Symbols \ {v0, v1} : two[v] = 0
    BY <1>0, <2>2, <2>3
  <2> HIDE DEF two
  <2>5. SumFunction(two) = NormSum
    <3> DEFINE zero == [v \in Symbols |-> 0]
               rest == (Symbols \ {v0}) \ {v1}
    <3>1. Total(two, Symbols) = two[v0] + Total(two, Symbols \ {v0})
      BY <2>2, <2>4, TotalRemoves
    <3>2. Total(two, Symbols \ {v0}) = two[v1] + Total(two, rest)
      <4>1. v1 \in Symbols \ {v0} /\ Symbols \ {v0} \in SUBSET Symbols
        BY <2>3
      <4> QED BY <2>4, <4>1, TotalRemoves
    <3>3. Total(two, rest) = 0
      <4> DEFINE T == {n \in Nat : n <= NSymbols => Sums(two, rest)[n] = 0}
      <4>1. rest \in SUBSET Symbols /\ \A v \in rest : two[v] = 0
        BY <2>4
      <4> HIDE DEF rest
      <4>2. Adds(Sums(two, rest), two, rest)
        BY <2>4, <4>1, SumsExist
      <4>3. 0 \in T
        BY <1>0, <4>2 DEF Adds
      <4>4. \A n \in Nat : n \in T => n + 1 \in T
        <5> SUFFICES ASSUME NEW n \in Nat, n + 1 <= NSymbols, Sums(two, rest)[n] = 0
                     PROVE  Sums(two, rest)[n + 1] = 0
          BY <1>0
        <5>1. n + 1 \in 1..NSymbols /\ (n + 1) - 1 = n
          BY <1>0
        <5>2. Addend(two, rest, n + 1) = 0
          BY <4>1, <5>1 DEF Addend
        <5> QED BY <4>2, <5>1, <5>2 DEF Adds
      <4>5. T \in SUBSET Nat
        OBVIOUS
      <4> HIDE DEF T
      <4>6. T = Nat
        BY <4>3, <4>4, <4>5, Induction
      <4> QED BY <1>0, <4>6 DEF T, Total
    <3>4. Total(two, Symbols) = (NormSum - 1) + (1 + 0)
      BY <2>4, <3>1, <3>2, <3>3
    <3> QED BY <1>0, <2>4, <3>4, SumIsAll
  <2>6. Table(two)
    BY <2>4, <2>5, NormalIsTable DEF Tallies
  <2>7. \A v \in Symbols : count[v] > 0 => two[v] > 0
    <3> SUFFICES ASSUME NEW v \in Symbols, count[v] > 0 PROVE two[v] > 0
      OBVIOUS
    <3>1. v = v0
      BY <2>2 DEF used
    <3> QED BY <1>0, <2>4, <3>1
  <2> QED BY <1>0, <1>3, <2>6, <2>7
<1>4. CASE ~(Cardinality(used) <= 1)
  <2>1. PICK x \in used : TRUE
    BY <1>1, <1>4, FS_EmptySet
  <2>2. x \in Symbols /\ count[x] > 0
    BY <2>1
  <2>3. sum \in Nat \ {0}
    <3>1. sum \in Nat /\ count[x] <= sum /\ count[x] \in Nat
      BY <1>0, <2>2, SumType
    <3> HIDE DEF sum
    <3> QED BY <2>2, <3>1
  <2> HIDE DEF sum
  <2>4. /\ \A v \in Symbols : scaled[v] \in Nat
        /\ \A v \in Symbols : count[v] > 0 => scaled[v] > 0
    BY <1>0, <2>3, ScaledCounts
  <2>5. scaled \in Tallies
    BY <2>4 DEF Tallies
  <2> HIDE DEF scaled
  <2>6. Adjusted(scaled) = Round[<<scaled, 0>>]
    BY <2>5, AdjustedIsRound DEF Round
  <2>7. Normal(scaled, Round[<<scaled, 0>>])
    BY <1>2, <2>2, <2>4, <2>5, RoundIsNormal
  <2>8. Normal(scaled, Normalised(count))
    BY <1>0, <1>4, <2>6, <2>7
  <2> QED BY <2>4, <2>8, NormalIsTable DEF Normal, Keeps
<1> QED BY <1>3, <1>4

-----------------------------------------------------------------------------
(* Shares of a table, and which symbol a remainder stands for.             *)

\* What lies below the symbols, and up to what.
LEMMA BelowSums ==
    ASSUME NEW h, Table(h)
    PROVE  /\ Below(h, 0) = 0
           /\ \A v \in Symbols : /\ Below(h, v) \in Nat /\ h[v] \in Nat
                                 /\ Below(h, v + 1) = Below(h, v) + h[v]
                                 /\ Below(h, v) + h[v] <= NormSum
           /\ Below(h, NSymbols) = NormSum
<1> DEFINE P(v) == Total(h, 0..(v - 1))
<1>0. /\ h \in [Symbols -> Nat] /\ NormSum \in Nat /\ NSymbols \in Nat /\ Total(h, Symbols) = NormSum
      /\ Symbols = 0..(NSymbols - 1)
  <2>1. h \in [Symbols -> Nat] /\ SumFunction(h) = NormSum
    BY SymbolSizes DEF Table
  <2> QED BY <2>1, SymbolSizes, SumIsAll DEF NumSymbols, Symbols
<1>1. \A v \in 0..NSymbols : 0..(v - 1) \in SUBSET Symbols
  BY <1>0
<1>2. \A v \in 0..NSymbols : P(v) \in Nat
  BY <1>0, <1>1, TotalType
<1>3. \A v \in Symbols : P(v + 1) = P(v) + h[v] /\ h[v] \in Nat
  <2> SUFFICES ASSUME NEW v \in Symbols PROVE P(v + 1) = P(v) + h[v]
    BY <1>0
  <2>1. v \in 0..v /\ 0..v \in SUBSET Symbols /\ (0..v) \ {v} = 0..(v - 1) /\ (v + 1) - 1 = v /\ v \in 0..NSymbols
    BY <1>0
  <2>2. Total(h, 0..v) = h[v] + Total(h, 0..(v - 1))
    <3> DEFINE s == 0..v
    <3>1. Total(h, s) = h[v] + Total(h, s \ {v})
      <4>1. v \in s /\ s \in SUBSET Symbols
        BY <2>1
      <4> HIDE DEF s
      <4> QED BY <1>0, <4>1, TotalRemoves
    <3> QED BY <2>1, <3>1
  <2>3. P(v) \in Nat /\ h[v] \in Nat
    BY <1>0, <1>2, <2>1
  <2> QED BY <2>1, <2>2, <2>3
<1>4. P(NSymbols) = NormSum
  BY <1>0
<1>5. \A v \in 0..NSymbols : P(v) <= NormSum
  <2> DEFINE T == {n \in Nat : n <= NSymbols => P(NSymbols - n) <= NormSum}
  <2>0. 0 \in Nat /\ NSymbols - 0 = NSymbols
    BY <1>0
  <2>1. 0 \in T
    BY <1>0, <1>4, <2>0
  <2>2. \A n \in Nat : n \in T => n + 1 \in T
    <3> SUFFICES ASSUME NEW n \in Nat, n + 1 <= NSymbols, P(NSymbols - n) <= NormSum
                 PROVE  P(NSymbols - (n + 1)) <= NormSum
      BY <1>0
    <3> DEFINE v == NSymbols - (n + 1)
    <3>1. v \in Symbols /\ v \in 0..NSymbols /\ v + 1 = NSymbols - n
      BY <1>0
    <3>2. P(v + 1) = P(v) + h[v] /\ h[v] \in Nat /\ P(v) \in Nat
      BY <1>2, <1>3, <3>1
    <3>3. P(v + 1) <= NormSum
      BY <3>1
    <3> HIDE DEF v, P
    <3>4. P(v) <= NormSum
      BY <1>0, <3>2, <3>3
    <3> QED BY <3>4 DEF v
  <2>3. T \in SUBSET Nat
    OBVIOUS
  <2> HIDE DEF T
  <2>4. T = Nat
    BY <2>1, <2>2, <2>3, Induction
  <2> SUFFICES ASSUME NEW v \in 0..NSymbols PROVE P(v) <= NormSum
    OBVIOUS
  <2>5. NSymbols - v \in Nat /\ NSymbols - v <= NSymbols /\ NSymbols - (NSymbols - v) = v
    BY <1>0
  <2>6. P(NSymbols - (NSymbols - v)) <= NormSum
    BY <2>4, <2>5 DEF T
  <2> QED BY <2>5, <2>6
<1>6. \A v \in 0..NSymbols : Below(h, v) = P(v)
  <2> SUFFICES ASSUME NEW v \in 0..NSymbols PROVE Below(h, v) = P(v)
    OBVIOUS
  <2>1. SumFunctionOnSet(h, 0..(v - 1)) = P(v)
    BY <1>0, <1>1, SumIsTotal
  <2>2. P(v) \in Nat /\ P(v) <= NormSum
    BY <1>2, <1>5
  <2> HIDE DEF P
  <2>3. Min({NormSum, P(v)}) = P(v)
    BY <1>0, <2>2 DEF Min
  <2> QED BY <2>1, <2>3 DEF Below
<1>7. P(0) = 0
  <2>1. 0..(0 - 1) = {}
    OBVIOUS
  <2> QED BY <1>0, <2>1, TotalEmpty
<1>8. 0 \in 0..NSymbols /\ NSymbols \in 0..NSymbols /\ \A v \in Symbols : v \in 0..NSymbols /\ v + 1 \in 0..NSymbols
  BY <1>0
<1> HIDE DEF P
<1>9. \A v \in Symbols : /\ Below(h, v) \in Nat /\ h[v] \in Nat
                         /\ Below(h, v + 1) = Below(h, v) + h[v]
                         /\ Below(h, v) + h[v] <= NormSum
  <2> TAKE v \in Symbols
  <2>1. Below(h, v) = P(v) /\ Below(h, v + 1) = P(v + 1) /\ P(v) \in Nat /\ P(v + 1) <= NormSum
    BY <1>2, <1>5, <1>6, <1>8
  <2> QED BY <1>3, <2>1
<1> QED BY <1>4, <1>6, <1>7, <1>8, <1>9

\* The starts grow with the symbols.
LEMMA BelowGrows ==
    ASSUME NEW h, Table(h), NEW v \in Symbols, NEW w \in Symbols, v < w
    PROVE  Below(h, v) + h[v] <= Below(h, w)
<1> DEFINE T == {n \in Nat : v + 1 + n < NSymbols => Below(h, v + 1) <= Below(h, v + 1 + n)}
<1>0. /\ NSymbols \in Nat /\ Symbols = 0..(NSymbols - 1)
      /\ \A x \in Symbols : Below(h, x) \in Nat /\ h[x] \in Nat /\ Below(h, x + 1) = Below(h, x) + h[x]
  BY BelowSums, SymbolSizes DEF NumSymbols, Symbols
<1>1. 0 \in T
  <2>1. v + 1 + 0 = v + 1 /\ v + 1 \in Symbols
    BY <1>0
  <2>2. Below(h, v + 1) \in Nat
    BY <1>0, <2>1
  <2> QED BY <2>1, <2>2
<1>2. \A n \in Nat : n \in T => n + 1 \in T
  <2> SUFFICES ASSUME NEW n \in Nat, v + 1 + (n + 1) < NSymbols, Below(h, v + 1) <= Below(h, v + 1 + n)
               PROVE  Below(h, v + 1) <= Below(h, v + 1 + (n + 1))
    BY <1>0
  <2>1. v + 1 \in Symbols /\ v + 1 + n \in Symbols /\ (v + 1 + n) + 1 = v + 1 + (n + 1)
    BY <1>0
  <2>2. /\ Below(h, v + 1) \in Nat /\ Below(h, v + 1 + n) \in Nat /\ h[v + 1 + n] \in Nat
        /\ Below(h, (v + 1 + n) + 1) = Below(h, v + 1 + n) + h[v + 1 + n]
    BY <1>0, <2>1
  <2> QED BY <2>1, <2>2
<1>3. T \in SUBSET Nat
  OBVIOUS
<1> HIDE DEF T
<1>4. T = Nat
  BY <1>1, <1>2, <1>3, Induction
<1>5. w - (v + 1) \in Nat /\ v + 1 + (w - (v + 1)) = w /\ w < NSymbols
  BY <1>0
<1>6. Below(h, v + 1) <= Below(h, w)
  BY <1>4, <1>5 DEF T
<1> QED BY <1>0, <1>6

\* The remainders of a symbol lead back to it, and each remainder to one
\* symbol that has a place.
LEMMA LookupFinds ==
    ASSUME NEW h, Table(h), NEW v \in Symbols, NEW rest \in Nat,
           Below(h, v) <= rest, rest < Below(h, v) + h[v]
    PROVE  Lookup(h, rest) = v
<1> DEFINE In(x) == Below(h, x) <= rest /\ rest < Below(h, x + 1)
<1>0. /\ Symbols = 0..Topmost /\ Topmost \in Nat
      /\ \A x \in Symbols : Below(h, x) \in Nat /\ h[x] \in Nat /\ Below(h, x + 1) = Below(h, x) + h[x]
  BY BelowSums, SymbolSizes DEF NumSymbols, Symbols, Topmost
<1>1. \A x \in Symbols : In(x) => x = v
  <2> SUFFICES ASSUME NEW x \in Symbols, In(x), x # v PROVE FALSE
    OBVIOUS
  <2>0. x \in Int /\ v \in Int
    BY <1>0
  <2>1. CASE x < v
    <3>1. Below(h, x) + h[x] <= Below(h, v)
      BY <2>1, BelowGrows
    <3> QED BY <1>0, <3>1
  <2>2. CASE v < x
    <3>1. Below(h, v) + h[v] <= Below(h, x)
      BY <2>2, BelowGrows
    <3> QED BY <1>0, <3>1
  <2> QED BY <2>0, <2>1, <2>2
<1>2. In(v)
  BY <1>0
<1>3. Lookup(h, rest) = IF \E x \in 0..(Topmost - 1) : In(x) THEN CHOOSE x \in 0..(Topmost - 1) : In(x) ELSE Topmost
  BY DEF Lookup
<1>4. \A x \in 0..(Topmost - 1) : x \in Symbols
  BY <1>0
<1> HIDE DEF In
<1>5. CASE v = Topmost
  <2>1. ~ \E x \in 0..(Topmost - 1) : In(x)
    <3> SUFFICES ASSUME NEW x \in 0..(Topmost - 1), In(x) PROVE FALSE
      OBVIOUS
    <3>1. x = v
      BY <1>1, <1>4
    <3> QED BY <1>0, <1>5, <3>1
  <2> QED BY <1>3, <1>5, <2>1
<1>6. CASE v # Topmost
  <2>1. v \in 0..(Topmost - 1)
    BY <1>0, <1>6
  <2> DEFINE c == CHOOSE x \in 0..(Topmost - 1) : In(x)
  <2>2. c \in 0..(Topmost - 1) /\ In(c)
    BY <1>2, <2>1, Zenon
  <2>3. Lookup(h, rest) = c
    BY <1>2, <1>3, <2>1
  <2> HIDE DEF c
  <2> QED BY <1>1, <1>4, <2>2, <2>3
<1> QED BY <1>5, <1>6

LEMMA LookupType ==
    ASSUME NEW h, Table(h), NEW rest \in 0..(NormSum - 1)
    PROVE  /\ Lookup(h, rest) \in Symbols
           /\ Below(h, Lookup(h, rest)) <= rest /\ rest < Below(h, Lookup(h, rest)) + h[Lookup(h, rest)]
<1> DEFINE T == {n \in Nat : n <= NSymbols /\ Below(h, NSymbols - n) <= rest}
<1>0. /\ NSymbols \in Nat /\ Symbols = 0..(NSymbols - 1) /\ rest \in Nat /\ NormSum \in Nat /\ rest < NormSum
      /\ \A x \in Symbols : Below(h, x) \in Nat /\ h[x] \in Nat /\ Below(h, x + 1) = Below(h, x) + h[x]
      /\ Below(h, 0) = 0 /\ Below(h, NSymbols) = NormSum
  BY BelowSums, SymbolSizes DEF NumSymbols, Symbols
<1>1. NSymbols \in T
  <2>1. NSymbols - NSymbols = 0
    BY <1>0
  <2> QED BY <1>0, <2>1
<1>2. PICK m \in T : \A n \in T : m <= n
  <2>1. T \in SUBSET Nat
    OBVIOUS
  <2> HIDE DEF T
  <2> QED BY <1>1, <2>1, LeastOf
<1> DEFINE v == NSymbols - m
<1>3. m \in Nat /\ m <= NSymbols /\ Below(h, v) <= rest
  BY <1>2
<1>4. m # 0
  <2> SUFFICES ASSUME m = 0 PROVE FALSE
    OBVIOUS
  <2>1. v = NSymbols
    BY <1>0
  <2> HIDE DEF v
  <2> QED BY <1>0, <1>3, <2>1
<1>5. v \in Symbols /\ m - 1 \in Nat /\ m - 1 <= NSymbols /\ NSymbols - (m - 1) = v + 1 /\ ~(m <= m - 1)
  BY <1>0, <1>3, <1>4
<1>6. ~(Below(h, v + 1) <= rest)
  <2>1. m - 1 \notin T
    BY <1>2, <1>5
  <2>2. ~(Below(h, NSymbols - (m - 1)) <= rest)
    BY <1>5, <2>1
  <2> QED BY <1>5, <2>2
<1> HIDE DEF T, v
<1>7. rest < Below(h, v) + h[v]
  BY <1>0, <1>5, <1>6
<1>8. Lookup(h, rest) = v
  BY <1>0, <1>3, <1>5, <1>7, LookupFinds
<1> QED BY <1>3, <1>5, <1>7, <1>8

LEMMA ShareType ==
    ASSUME NEW h, Table(h), NEW v \in Symbols, h[v] > 0
    PROVE  <<h[v], Below(h, v)>> \in Shares
<1>1. h[v] \in Nat /\ Below(h, v) \in Nat /\ Below(h, v) + h[v] <= NormSum /\ NormSum \in Nat
  BY BelowSums, SymbolSizes
<1>2. h[v] \in 1..NormSum
  BY <1>1
<1> QED BY <1>1, <1>2 DEF Shares

-----------------------------------------------------------------------------
(* The words of a step of all lanes.                                       *)

Falling(s, S, n) == s \in [1..n -> S] /\ \A i, j \in 1..n : i < j => s[i] > s[j]

LEMMA FallingExists ==
    ASSUME NEW S \in SUBSET Nat, IsFiniteSet(S)
    PROVE  \E s : Falling(s, S, Cardinality(S))
<1> DEFINE T == {n \in Nat : \A R \in SUBSET Nat :
                    IsFiniteSet(R) /\ Cardinality(R) = n => \E s : Falling(s, R, n)}
<1>1. 0 \in T
  <2> SUFFICES ASSUME NEW R \in SUBSET Nat PROVE \E s : Falling(s, R, 0)
    OBVIOUS
  <2>1. 1..0 = {}
    OBVIOUS
  <2>2. Falling([i \in 1..0 |-> i], R, 0)
    BY <2>1 DEF Falling
  <2> QED BY <2>2
<1>2. \A n \in Nat : n \in T => n + 1 \in T
  <2> SUFFICES ASSUME NEW n \in Nat, n \in T, NEW R \in SUBSET Nat, IsFiniteSet(R), Cardinality(R) = n + 1
               PROVE  \E s : Falling(s, R, n + 1)
    OBVIOUS
  <2>1. R # {}
    BY FS_EmptySet
  <2>2. PICK m \in R : \A k \in R : m <= k
    BY <2>1, LeastOf
  <2> DEFINE Q == R \ {m}
  <2>3. IsFiniteSet(Q) /\ Cardinality(Q) = n /\ Q \in SUBSET Nat
    <3>1. IsFiniteSet(Q) /\ Cardinality(Q) = Cardinality(R) - 1
      BY FS_RemoveElement
    <3> QED BY <3>1
  <2>4. \A k \in Q : m < k
    BY <2>2
  <2>5. PICK s : Falling(s, Q, n)
    <3> HIDE DEF Q
    <3> QED BY <2>3
  <2> DEFINE r == [i \in 1..(n + 1) |-> IF i = n + 1 THEN m ELSE s[i]]
  <2>6. \A i \in 1..(n + 1) : r[i] = IF i = n + 1 THEN m ELSE s[i]
    OBVIOUS
  <2>7. \A i \in 1..(n + 1) : i # n + 1 => i \in 1..n /\ s[i] \in Q
    BY <2>5 DEF Falling
  <2>8. r \in [1..(n + 1) -> R]
    BY <2>7
  <2> HIDE DEF r
  <2>9. \A i, j \in 1..(n + 1) : i < j => r[i] > r[j]
    <3> TAKE i, j \in 1..(n + 1)
    <3> HAVE i < j
    <3>1. i # n + 1 /\ i \in 1..n /\ r[i] = s[i] /\ s[i] \in Q
      BY <2>6, <2>7
    <3>2. CASE j = n + 1
      <4>1. r[j] = m
        BY <2>6, <3>2
      <4> QED BY <2>4, <3>1, <4>1
    <3>3. CASE j # n + 1
      <4>1. j \in 1..n /\ r[j] = s[j]
        BY <2>6, <2>7, <3>3
      <4> QED BY <2>5, <3>1, <4>1 DEF Falling
    <3> QED BY <3>2, <3>3
  <2>10. Falling(r, R, n + 1)
    BY <2>8, <2>9 DEF Falling
  <2> QED BY <2>10
<1>3. T \in SUBSET Nat
  OBVIOUS
<1> HIDE DEF T
<1>4. T = Nat
  BY <1>1, <1>2, <1>3, Induction
<1>5. Cardinality(S) \in T
  BY <1>4, FS_CardinalityType
<1> QED BY <1>5 DEF T

Lower(S, k) == {j \in S : j < k}

\* Where a member stands: behind all that are above, before all that are below.
LEMMA FallingPlaces ==
    ASSUME NEW S \in SUBSET Nat, IsFiniteSet(S), NEW s, Falling(s, S, Cardinality(S)), NEW k \in S
    PROVE  /\ Cardinality(Lower(S, k)) \in Nat
           /\ Cardinality(S) - Cardinality(Lower(S, k)) \in 1..Cardinality(S)
           /\ s[Cardinality(S) - Cardinality(Lower(S, k))] = k
<1> DEFINE Stands(R, r, n, x) == /\ n - Cardinality(Lower(R, x)) \in 1..n
                                 /\ r[n - Cardinality(Lower(R, x))] = x
           T == {n \in Nat : \A R \in SUBSET Nat : \A r :
                    IsFiniteSet(R) /\ Cardinality(R) = n /\ Falling(r, R, n)
                       => \A x \in R : Stands(R, r, n, x)}
<1>0. ASSUME NEW R \in SUBSET Nat, IsFiniteSet(R), NEW x
      PROVE  IsFiniteSet(Lower(R, x)) /\ Cardinality(Lower(R, x)) \in Nat
  <2>1. Lower(R, x) \in SUBSET R
    BY DEF Lower
  <2> QED BY <1>0, <2>1, FS_Subset, FS_CardinalityType
<1>1. 0 \in T
  <2> SUFFICES ASSUME NEW R \in SUBSET Nat, NEW r, IsFiniteSet(R), Cardinality(R) = 0, NEW x \in R
               PROVE  FALSE
    OBVIOUS
  <2> QED BY FS_EmptySet
<1>2. \A n \in Nat : n \in T => n + 1 \in T
  <2> SUFFICES ASSUME NEW n \in Nat, n \in T, NEW R \in SUBSET Nat, NEW r,
                      IsFiniteSet(R), Cardinality(R) = n + 1, Falling(r, R, n + 1), NEW x \in R
               PROVE  Stands(R, r, n + 1, x)
    OBVIOUS
  <2> DEFINE m == r[n + 1]
             Q == R \ {m}
             q == [i \in 1..n |-> r[i]]
  <2>1. m \in R /\ n + 1 \in 1..(n + 1) /\ r \in [1..(n + 1) -> R]
    BY DEF Falling
  <2>2. IsFiniteSet(Q) /\ Cardinality(Q) = n /\ Q \in SUBSET Nat
    <3>1. IsFiniteSet(Q) /\ Cardinality(Q) = Cardinality(R) - 1
      <4>1. IsFiniteSet(R) /\ m \in R
        BY <2>1
      <4> HIDE DEF m
      <4> QED BY <4>1, FS_RemoveElement, Zenon
    <3>2. Q \in SUBSET Nat
      OBVIOUS
    <3>3. (n + 1) - 1 = n
      OBVIOUS
    <3> QED BY <3>1, <3>2, <3>3
  <2>3. \A i \in 1..n : r[i] > m /\ r[i] \in Q
    <3> TAKE i \in 1..n
    <3>0. i \in 1..(n + 1) /\ i < n + 1
      OBVIOUS
    <3>1. r[i] \in R /\ r[i] \in Nat /\ m \in Nat
      BY <2>1, <3>0
    <3>2. r[i] > m
      BY <2>1, <3>0 DEF Falling
    <3> QED BY <3>1, <3>2
  <2>4. Falling(q, Q, n)
    <3>1. q \in [1..n -> Q]
      BY <2>3
    <3>2. \A i, j \in 1..n : i < j => q[i] > q[j]
      <4> TAKE i, j \in 1..n
      <4>1. i \in 1..(n + 1) /\ j \in 1..(n + 1) /\ q[i] = r[i] /\ q[j] = r[j]
        OBVIOUS
      <4> QED BY <4>1 DEF Falling
    <3> QED BY <3>1, <3>2 DEF Falling
  <2>5. \A y \in Q : Stands(Q, q, n, y)
    <3> HIDE DEF Q, q, Stands
    <3> QED BY <2>2, <2>4
  <2> HIDE DEF m
  <2>6. CASE x = m
    <3>1. Lower(R, m) = {}
      <4> SUFFICES ASSUME NEW j \in R, j < m PROVE FALSE
        BY DEF Lower
      <4>1. j \in Nat /\ m \in Nat /\ j \in Q
        BY <2>1
      <4>2. n - Cardinality(Lower(Q, j)) \in 1..n /\ q[n - Cardinality(Lower(Q, j))] = j
        BY <2>5, <4>1
      <4>3. j > m
        BY <2>3, <4>2
      <4> QED BY <4>1, <4>3
    <3>2. Cardinality(Lower(R, m)) = 0
      BY <3>1, FS_EmptySet
    <3>3. (n + 1) - 0 = n + 1
      OBVIOUS
    <3> QED BY <2>1, <2>6, <3>2, <3>3 DEF m
  <2>7. CASE x # m
    <3> DEFINE c == Cardinality(Lower(Q, x))
    <3>1. x \in Q /\ n - c \in 1..n /\ q[n - c] = x
      BY <2>5, <2>7
    <3>2. x > m
      BY <2>3, <3>1
    <3>3. Lower(R, x) = Lower(Q, x) \cup {m} /\ m \notin Lower(Q, x)
      BY <2>1, <3>2 DEF Lower
    <3>4. IsFiniteSet(Lower(Q, x)) /\ c \in Nat
      BY <1>0, <2>2
    <3>5. Cardinality(Lower(R, x)) = c + 1
      BY <3>3, <3>4, FS_AddElement
    <3> HIDE DEF c
    <3>6. (n + 1) - (c + 1) = n - c /\ n - c \in 1..(n + 1) /\ q[n - c] = r[n - c]
      BY <3>1, <3>4
    <3> QED BY <3>1, <3>5, <3>6
  <2> QED BY <2>6, <2>7
<1>3. T \in SUBSET Nat
  OBVIOUS
<1> HIDE DEF T
<1>4. T = Nat
  BY <1>1, <1>2, <1>3, Induction
<1>5. Cardinality(S) \in T
  BY <1>4, FS_CardinalityType
<1>6. Stands(S, s, Cardinality(S), k)
  BY <1>5 DEF T
<1> QED BY <1>0, <1>6

LEMMA DescendingFalls ==
    ASSUME NEW S \in SUBSET Lane
    PROVE  /\ IsFiniteSet(S) /\ S \in SUBSET Nat /\ Cardinality(S) \in Nat /\ Cardinality(S) <= Lanes
           /\ Falling(Descending(S), S, Cardinality(S))
<1>1. IsFiniteSet(Lane) /\ Cardinality(Lane) = Lanes /\ Lane \in SUBSET Nat
  <2>1. Lanes \in Nat \ {0} /\ 0 \in Int /\ Lanes - 1 \in Int
    BY SymbolSizes
  <2>2. IsFiniteSet(0..(Lanes - 1)) /\ Cardinality(0..(Lanes - 1)) = IF 0 > Lanes - 1 THEN 0 ELSE (Lanes - 1) - 0 + 1
    BY <2>1, FS_Interval
  <2> QED BY <2>1, <2>2 DEF Lane
<1>2. IsFiniteSet(S) /\ Cardinality(S) <= Lanes /\ S \in SUBSET Nat /\ Cardinality(S) \in Nat
  BY <1>1, FS_Subset, FS_CardinalityType
<1>3. PICK s : Falling(s, S, Cardinality(S))
  BY <1>2, FallingExists
<1>4. s \in [1..Cardinality(S) -> S] /\ \A i, j \in DOMAIN s : i < j => s[i] > s[j]
  BY <1>3 DEF Falling
<1>5. /\ Descending(S) \in [1..Cardinality(S) -> S]
      /\ \A i, j \in DOMAIN Descending(S) : i < j => Descending(S)[i] > Descending(S)[j]
  BY <1>4, Zenon DEF Descending
<1>6. Falling(Descending(S), S, Cardinality(S))
  <2> DEFINE d == Descending(S)
  <2>1. d \in [1..Cardinality(S) -> S] /\ \A i, j \in DOMAIN d : i < j => d[i] > d[j]
    BY <1>5
  <2> HIDE DEF d
  <2>2. Falling(d, S, Cardinality(S))
    BY <2>1 DEF Falling
  <2> QED BY <2>2 DEF d
<1> QED BY <1>2, <1>6

-----------------------------------------------------------------------------
(* Steps of the coder, as functions of the states and the words.           *)

LaneStates == [Lane -> States]
Words == Seq(0..(B - 1))

FreqIn(H, e)  == H[e[1]][e[2]]
StartIn(H, e) == Below(H[e[1]], e[2])
Codable(H, e) == e \in Pair /\ Table(H[e[1]]) /\ FreqIn(H, e) > 0

\* What the decoder makes of a state whose pair has this context and symbol.
Undone(H, e, y) == Uncoded(y, FreqIn(H, e), StartIn(H, e))

LEMMA CodeBack ==
    ASSUME NEW H, NEW e, Codable(H, e), NEW a \in States
    PROVE  LET y == Coded(a, FreqIn(H, e), StartIn(H, e))
           IN  /\ y \in States
               /\ Lookup(H[e[1]], y % NormSum) = e[2]
               /\ Wants(Undone(H, e, y)) <=> Emits(a, FreqIn(H, e))
               /\ Refilled(Undone(H, e, y), a % B) = a
               /\ a % B \in 0..(B - 1)
<1> DEFINE f == FreqIn(H, e)
           c == StartIn(H, e)
           y == Coded(a, f, c)
           s == <<f, c>>
<1>1. e[1] \in Contexts /\ e[2] \in Symbols /\ Table(H[e[1]]) /\ f > 0
  BY DEF Codable, Pair
<1>2. s \in Shares
  BY <1>1, ShareType DEF FreqIn, StartIn
<1>3. s[1] = f /\ s[2] = c
  OBVIOUS
<1>4. y \in States
  <2>1. Coded(a, s[1], s[2]) \in States
    BY <1>2, StateInRange
  <2> QED BY <2>1, <1>3
<1>5. /\ y % NormSum \in c..(c + f - 1)
      /\ Wants(Undone(H, e, y)) <=> Emits(a, f)
      /\ Refilled(Undone(H, e, y), a % B) = a
  BY <1>2, StepInverse DEF Undone
<1>6. Lookup(H[e[1]], y % NormSum) = e[2]
  <2> DEFINE rest == y % NormSum
  <2>1. c \in Nat /\ f \in Nat
    BY <1>1, BelowSums DEF FreqIn, StartIn
  <2>2. rest \in c..(c + f - 1)
    BY <1>5
  <2> HIDE DEF rest, y
  <2>3. rest \in Nat /\ c <= rest /\ rest < c + f
    BY <2>1, <2>2
  <2>4. Lookup(H[e[1]], rest) = e[2]
    <3> HIDE DEF f, c
    <3>1. f = H[e[1]][e[2]] /\ c = Below(H[e[1]], e[2])
      BY DEF f, c, FreqIn, StartIn
    <3> QED BY <1>1, <2>3, <3>1, LookupFinds
  <2> QED BY <2>4 DEF rest
<1>7. a % B \in 0..(B - 1)
  BY Sizes DEF States
<1> QED
  BY <1>4, <1>5, <1>6, <1>7

StepOne(H, e, a, u, b, w) ==
    /\ b = [a EXCEPT ![0] = Coded(a[0], FreqIn(H, e), StartIn(H, e))]
    /\ w = IF Emits(a[0], FreqIn(H, e)) THEN Append(u, a[0] % B) ELSE u

LEMMA OneType ==
    ASSUME NEW H, NEW e, Codable(H, e), NEW a \in LaneStates, NEW u \in Words, NEW b, NEW w,
           StepOne(H, e, a, u, b, w)
    PROVE  b \in LaneStates /\ w \in Words
<1>1. 0 \in Lane
  BY SymbolSizes DEF Lane
<1>2. a[0] \in States
  BY <1>1 DEF LaneStates
<1>3. Coded(a[0], FreqIn(H, e), StartIn(H, e)) \in States /\ a[0] % B \in 0..(B - 1)
  BY <1>2, CodeBack
<1>4. b \in LaneStates
  BY <1>1, <1>3 DEF StepOne, LaneStates
<1>5. w \in Words
  <2> DEFINE z == a[0] % B
  <2>1. z \in 0..(B - 1) /\ w = IF Emits(a[0], FreqIn(H, e)) THEN Append(u, z) ELSE u
    BY <1>3 DEF StepOne
  <2> HIDE DEF z
  <2>2. Append(u, z) \in Words
    BY <2>1, AppendProperties DEF Words
  <2> QED BY <2>1, <2>2
<1> QED BY <1>4, <1>5

\* With this word, if it wants one, the decoder has the state again.
Restores(x, wanted, y) == \A word : (Wants(x) => word = wanted) => Refilled(x, word) = y

\* The decoder undoes a step of lane 0: with the word on top of those written,
\* if it wants one.
LEMMA OneBack ==
    ASSUME NEW H, NEW e, Codable(H, e), NEW a \in LaneStates, NEW u \in Words, NEW b, NEW w,
           StepOne(H, e, a, u, b, w)
    PROVE  LET x == Undone(H, e, b[0])
               n == IF Wants(x) THEN 1 ELSE 0
           IN  /\ Lookup(H[e[1]], b[0] % NormSum) = e[2]
               /\ Len(w) = Len(u) + n
               /\ \A i \in 1..Len(u) : w[i] = u[i]
               /\ Restores(x, w[Len(w)], a[0])
               /\ [b EXCEPT ![0] = a[0]] = a
<1> DEFINE f == FreqIn(H, e)
           y == Coded(a[0], f, StartIn(H, e))
           x == Undone(H, e, b[0])
<1>1. 0 \in Lane /\ a[0] \in States
  BY SymbolSizes DEF Lane, LaneStates
<1>2. b[0] = y /\ b = [a EXCEPT ![0] = y]
  BY <1>1 DEF StepOne, LaneStates
<1>3. /\ Lookup(H[e[1]], b[0] % NormSum) = e[2]
      /\ Wants(x) <=> Emits(a[0], f)
      /\ Refilled(x, a[0] % B) = a[0]
      /\ a[0] % B \in 0..(B - 1)
  BY <1>1, <1>2, CodeBack
<1>4. w = IF Wants(x) THEN Append(u, a[0] % B) ELSE u
  BY <1>3 DEF StepOne
<1> HIDE DEF x
<1>5. /\ Len(w) = Len(u) + IF Wants(x) THEN 1 ELSE 0
      /\ \A i \in 1..Len(u) : w[i] = u[i]
      /\ Wants(x) => w[Len(w)] = a[0] % B
  BY <1>3, <1>4 DEF Words
<1>6. ASSUME NEW word, Wants(x) => word = w[Len(w)]
      PROVE  Refilled(x, word) = a[0]
  BY <1>3, <1>5, <1>6 DEF Refilled
<1>7. [b EXCEPT ![0] = a[0]] = a
  <2>1. [[a EXCEPT ![0] = y] EXCEPT ![0] = a[0]] = a
    <3> HIDE DEF y
    <3> QED BY DEF LaneStates
  <2> QED BY <1>2, <2>1
<1> QED
  BY <1>3, <1>5, <1>6, <1>7 DEF x, Restores

Full(H, es, a) == {k \in Lane : Emits(a[k], FreqIn(H, es[k]))}
CodedAll(H, es, a) == [k \in Lane |-> Coded(a[k], FreqIn(H, es[k]), StartIn(H, es[k]))]
LowWords(a, full) == [i \in DOMAIN full |-> a[full[i]] % B]

StepAll(H, es, a, u, b, w) ==
    /\ b = CodedAll(H, es, a)
    /\ w = u \o LowWords(a, Descending(Full(H, es, a)))

AllCodable(H, es) == \A k \in Lane : Codable(H, es[k])

LEMMA FunctionIsSequence ==
    ASSUME NEW S, NEW n \in Nat, NEW f \in [1..n -> S]
    PROVE  f \in Seq(S)
<1>1. Seq(S) = UNION {[1..m -> S] : m \in Nat}
  BY SeqDef, Zenon
<1>2. f \in UNION {[1..m -> S] : m \in Nat}
  BY Zenon
<1> QED BY <1>1, <1>2, Zenon

LEMMA LowWordsType ==
    ASSUME NEW S \in SUBSET Lane, NEW a \in LaneStates
    PROVE  LET full == Descending(S)
               low  == LowWords(a, full)
           IN  /\ low \in Words /\ Len(low) = Cardinality(S) /\ Cardinality(S) \in Nat /\ Cardinality(S) <= Lanes
               /\ \A i \in 1..Cardinality(S) : full[i] \in S /\ low[i] = a[full[i]] % B
<1> DEFINE full == Descending(S)
           n    == Cardinality(S)
           low  == LowWords(a, full)
<1>1. n \in Nat /\ n <= Lanes /\ full \in [1..n -> S]
  BY DescendingFalls DEF Falling
<1> HIDE DEF full, n
<1>2. low = [i \in 1..n |-> a[full[i]] % B]
  BY <1>1 DEF LowWords
<1>3. ASSUME NEW i \in 1..n PROVE a[full[i]] % B \in 0..(B - 1)
  <2>1. full[i] \in Lane
    BY <1>1
  <2>2. a[full[i]] \in States
    BY <2>1 DEF LaneStates
  <2> QED BY <2>2, Sizes DEF States
<1> HIDE DEF low
<1>4. low \in [1..n -> 0..(B - 1)]
  BY <1>2, <1>3
<1>5. low \in Words /\ Len(low) = n
  <2>1. low \in Words
    BY <1>1, <1>4, FunctionIsSequence, Zenon DEF Words
  <2>2. DOMAIN low = 1..n /\ DOMAIN low = 1..Len(low) /\ Len(low) \in Nat
    BY <1>4, <2>1 DEF Words
  <2> QED BY <1>1, <2>1, <2>2
<1>6. \A i \in 1..n : full[i] \in S /\ low[i] = a[full[i]] % B
  BY <1>1, <1>2
<1> QED
  BY <1>1, <1>5, <1>6 DEF full, n, low

LEMMA AllType ==
    ASSUME NEW H, NEW es, AllCodable(H, es), NEW a \in LaneStates, NEW u \in Words, NEW b, NEW w,
           StepAll(H, es, a, u, b, w)
    PROVE  b \in LaneStates /\ w \in Words
<1>1. \A k \in Lane : a[k] \in States /\ Codable(H, es[k])
  BY DEF LaneStates, AllCodable
<1>2. \A k \in Lane : Coded(a[k], FreqIn(H, es[k]), StartIn(H, es[k])) \in States
  BY <1>1, CodeBack
<1>3. b \in LaneStates
  BY <1>2 DEF StepAll, CodedAll, LaneStates
<1>4. Full(H, es, a) \in SUBSET Lane
  BY DEF Full
<1>5. LowWords(a, Descending(Full(H, es, a))) \in Words
  BY <1>4, LowWordsType
<1>6. w \in Words
  <2> DEFINE low == LowWords(a, Descending(Full(H, es, a)))
  <2>1. w = u \o low /\ low \in Words
    BY <1>5 DEF StepAll
  <2> HIDE DEF low
  <2> QED BY <2>1 DEF Words
<1> QED BY <1>3, <1>6

\* The lanes before this one that want a word.
Before(H, es, b, k) == {j \in 0..(k - 1) : Wants(Undone(H, es[j], b[j]))}

\* The decoder undoes a step of all lanes: the words on top are those the lanes
\* want, that of the lowest on top.
LEMMA AllBack ==
    ASSUME NEW H, NEW es, AllCodable(H, es), NEW a \in LaneStates, NEW u \in Words, NEW b, NEW w,
           StepAll(H, es, a, u, b, w)
    PROVE  LET n(k) == Cardinality(Before(H, es, b, k))
           IN  /\ \A k \in Lane : Lookup(H[es[k][1]], b[k] % NormSum) = es[k][2]
               /\ n(Lanes) \in Nat /\ Len(w) = Len(u) + n(Lanes)
               /\ \A i \in 1..Len(u) : w[i] = u[i]
               /\ \A k \in Lane : /\ n(k) \in Nat
                                  /\ Wants(Undone(H, es[k], b[k])) => n(k) < n(Lanes)
                                  /\ Restores(Undone(H, es[k], b[k]), w[Len(w) - n(k)], a[k])
<1> DEFINE X(k) == Undone(H, es[k], b[k])
           S    == Full(H, es, a)
           N(k) == Cardinality(Before(H, es, b, k))
           full == Descending(S)
           low  == LowWords(a, full)
<1>1. \A k \in Lane : /\ a[k] \in States
                      /\ b[k] = Coded(a[k], FreqIn(H, es[k]), StartIn(H, es[k]))
  BY DEF LaneStates, StepAll, CodedAll
<1>2. ASSUME NEW k \in Lane
      PROVE  /\ Lookup(H[es[k][1]], b[k] % NormSum) = es[k][2]
             /\ Wants(X(k)) <=> Emits(a[k], FreqIn(H, es[k]))
             /\ Refilled(X(k), a[k] % B) = a[k]
  <2>1. Codable(H, es[k]) /\ a[k] \in States
    BY <1>1 DEF AllCodable
  <2> QED BY <1>1, <2>1, CodeBack
<1> HIDE DEF X
<1>3. S = {k \in Lane : Wants(X(k))}
  BY <1>2 DEF Full
<1>4. S \in SUBSET Lane
  BY DEF Full
<1>5. /\ IsFiniteSet(S) /\ S \in SUBSET Nat /\ Cardinality(S) \in Nat
      /\ Falling(full, S, Cardinality(S))
  BY <1>4, DescendingFalls
<1>6. /\ low \in Words /\ Len(low) = Cardinality(S)
      /\ \A i \in 1..Cardinality(S) : low[i] = a[full[i]] % B
  BY <1>4, LowWordsType
<1>7. w = u \o low
  BY DEF StepAll
<1>8. \A k \in Lane \cup {Lanes} : Before(H, es, b, k) = Lower(S, k)
  <2> TAKE k \in Lane \cup {Lanes}
  <2>1. \A j : j \in 0..(k - 1) <=> j \in Lane /\ j < k
    BY SymbolSizes DEF Lane
  <2>2. Before(H, es, b, k) = {j \in 0..(k - 1) : Wants(X(j))}
    BY DEF Before, X
  <2> QED BY <1>3, <2>1, <2>2 DEF Lower
<1>9. Before(H, es, b, Lanes) = S
  <2>1. Lower(S, Lanes) = S
    BY <1>4, SymbolSizes DEF Lower, Lane
  <2> QED BY <1>8, <2>1
<1> HIDE DEF S, full, low
<1>10. N(Lanes) \in Nat /\ N(Lanes) = Cardinality(S) /\ Len(w) = Len(u) + N(Lanes)
  <2>1. Len(u \o low) = Len(u) + Len(low)
    BY <1>6 DEF Words
  <2> QED BY <1>5, <1>6, <1>7, <1>9, <2>1
<1>11. /\ \A i \in 1..Len(u) : w[i] = u[i]
       /\ \A i \in 1..Len(low) : w[Len(u) + i] = low[i]
  BY <1>6, <1>7 DEF Words
<1>12. ASSUME NEW k \in Lane
       PROVE  /\ N(k) \in Nat
              /\ Wants(X(k)) => N(k) < N(Lanes) /\ w[Len(w) - N(k)] = a[k] % B
  <2>1. N(k) = Cardinality(Lower(S, k))
    BY <1>8
  <2>2. IsFiniteSet(Lower(S, k)) /\ N(k) \in Nat
    <3>1. Lower(S, k) \in SUBSET S
      BY DEF Lower
    <3> QED BY <1>5, <2>1, <3>1, FS_Subset, FS_CardinalityType
  <2>3. ASSUME Wants(X(k)) PROVE N(k) < N(Lanes) /\ w[Len(w) - N(k)] = a[k] % B
    <3>1. k \in S
      BY <1>3, <2>3
    <3> DEFINE p == Cardinality(S) - N(k)
    <3>2. p \in 1..Cardinality(S) /\ full[p] = k
      BY <1>5, <2>1, <3>1, FallingPlaces
    <3>3. Len(w) - N(k) = Len(u) + p /\ N(k) < N(Lanes)
      <4>1. Len(u) \in Nat
        BY DEF Words
      <4> HIDE DEF N
      <4> QED BY <1>5, <1>10, <2>2, <3>2, <4>1
    <3> HIDE DEF p, N
    <3>4. w[Len(u) + p] = low[p] /\ low[p] = a[full[p]] % B
      BY <1>6, <1>11, <3>2
    <3> QED BY <3>2, <3>3, <3>4
  <2> QED BY <2>2, <2>3
<1>13. ASSUME NEW k \in Lane, NEW word, Wants(X(k)) => word = w[Len(w) - N(k)]
       PROVE  Refilled(X(k), word) = a[k]
  <2>1. Wants(X(k)) => word = a[k] % B
    BY <1>12, <1>13
  <2> QED BY <1>2, <2>1 DEF Refilled
<1> QED
  BY <1>2, <1>10, <1>11, <1>12, <1>13 DEF X, Restores

-----------------------------------------------------------------------------
(* Runs of the coder.  The first entries of a run are pairs on lane 0, the   *)
(* others have a pair on every lane; the encoder takes them from the last   *)
(* to the first.                                                           *)

WidePairs == [Lane -> Pair]
Entries(os, ws) == Len(os) + Len(ws)
Fresh == [k \in Lane |-> B]

Step(H, os, ws, j, a, u, b, w) ==
    IF j <= Len(os) THEN StepOne(H, os[j], a, u, b, w)
                    ELSE StepAll(H, ws[j - Len(os)], a, u, b, w)

Usable(H, os, ws) ==
    /\ \A m \in 1..Len(os) : Codable(H, os[m])
    /\ \A m \in 1..Len(ws) : AllCodable(H, ws[m])

\* A[j] and U[j]: the states and the words when j entries are left.
Path(H, os, ws, t, A, U) ==
    /\ A \in [t..Entries(os, ws) -> LaneStates]
    /\ U \in [t..Entries(os, ws) -> Words]
    /\ A[Entries(os, ws)] = Fresh /\ U[Entries(os, ws)] = <<>>
    /\ \A j \in (t + 1)..Entries(os, ws) : Step(H, os, ws, j, A[j], U[j], A[j - 1], U[j - 1])

\* With t entries left these are the states and the words written.
CodedTo(H, os, ws, t, a, u) ==
    \E A, U : Path(H, os, ws, t, A, U) /\ a = A[t] /\ u = U[t]

LEMMA FreshType == Fresh \in LaneStates /\ <<>> \in Words
<1>1. B \in States
  <2>1. NormSum \in Nat /\ NormSum >= 2
    BY SymbolSizes DEF NumSymbols
  <2>2. B \in Nat /\ B >= 2
    BY <2>1, Sizes
  <2>3. 2 * B <= B * B /\ B * B \in Nat
    BY <2>2, ProductGrows
  <2> QED BY <2>2, <2>3 DEF States
<1>2. <<>> \in Words
  BY EmptySeq DEF Words
<1> QED BY <1>1, <1>2 DEF Fresh, LaneStates

LEMMA StepType ==
    ASSUME NEW H, NEW os \in Seq(Pair), NEW ws \in Seq(WidePairs), Usable(H, os, ws),
           NEW j \in 1..Entries(os, ws),
           NEW a \in LaneStates, NEW u \in Words, NEW b, NEW w, Step(H, os, ws, j, a, u, b, w)
    PROVE  b \in LaneStates /\ w \in Words
<1>0. Len(os) \in Nat /\ Len(ws) \in Nat
  OBVIOUS
<1>1. CASE j <= Len(os)
  <2>1. Codable(H, os[j]) /\ StepOne(H, os[j], a, u, b, w)
    BY <1>0, <1>1 DEF Usable, Step, Entries
  <2> QED BY <2>1, OneType
<1>2. CASE ~(j <= Len(os))
  <2>1. j - Len(os) \in 1..Len(ws)
    BY <1>0, <1>2 DEF Entries
  <2>2. AllCodable(H, ws[j - Len(os)]) /\ StepAll(H, ws[j - Len(os)], a, u, b, w)
    BY <1>2, <2>1 DEF Usable, Step
  <2> QED BY <2>2, AllType
<1> QED BY <1>1, <1>2

LEMMA CodingStarts ==
    ASSUME NEW H, NEW os \in Seq(Pair), NEW ws \in Seq(WidePairs)
    PROVE  CodedTo(H, os, ws, Entries(os, ws), Fresh, <<>>)
<1> DEFINE n == Entries(os, ws)
           A == [i \in n..n |-> Fresh]
           U == [i \in n..n |-> <<>>]
<1>1. n \in Nat
  BY DEF Entries
<1> HIDE DEF n
<1>2. n \in n..n /\ (n + 1)..n = {}
  BY <1>1
<1>3. A \in [n..n -> LaneStates] /\ U \in [n..n -> Words] /\ A[n] = Fresh /\ U[n] = <<>>
  BY <1>2, FreshType
<1> HIDE DEF A, U
<1>4. Path(H, os, ws, n, A, U)
  BY <1>2, <1>3 DEF Path, n
<1>5. CodedTo(H, os, ws, n, Fresh, <<>>)
  BY <1>3, <1>4 DEF CodedTo
<1> QED BY <1>5 DEF n

LEMMA CodingEnds ==
    ASSUME NEW H, NEW os \in Seq(Pair), NEW ws \in Seq(WidePairs), NEW a, NEW u,
           CodedTo(H, os, ws, Entries(os, ws), a, u)
    PROVE  a = Fresh /\ u = <<>>
BY DEF CodedTo, Path

LEMMA CodedType ==
    ASSUME NEW H, NEW os \in Seq(Pair), NEW ws \in Seq(WidePairs), NEW t \in 0..Entries(os, ws),
           NEW a, NEW u, CodedTo(H, os, ws, t, a, u)
    PROVE  a \in LaneStates /\ u \in Words
<1> DEFINE n == Entries(os, ws)
<1>1. n \in Nat
  BY DEF Entries
<1>2. PICK A, U : Path(H, os, ws, t, A, U) /\ a = A[t] /\ u = U[t]
  BY DEF CodedTo
<1>3. A \in [t..n -> LaneStates] /\ U \in [t..n -> Words]
  BY <1>2 DEF Path
<1> HIDE DEF n
<1>4. t \in t..n
  BY <1>1 DEF n
<1> QED BY <1>2, <1>3, <1>4

\* The encoder takes entry t.
LEMMA CodingGrows ==
    ASSUME NEW H, NEW os \in Seq(Pair), NEW ws \in Seq(WidePairs), Usable(H, os, ws),
           NEW t \in 1..Entries(os, ws), NEW a, NEW u, CodedTo(H, os, ws, t, a, u),
           NEW b, NEW w, Step(H, os, ws, t, a, u, b, w)
    PROVE  CodedTo(H, os, ws, t - 1, b, w)
<1> DEFINE n == Entries(os, ws)
<1>1. n \in Nat
  BY DEF Entries
<1>2. PICK A, U : Path(H, os, ws, t, A, U) /\ a = A[t] /\ u = U[t]
  BY DEF CodedTo
<1>3. a \in LaneStates /\ u \in Words
  <2>1. t \in 0..n
    BY <1>1
  <2> QED BY <2>1, CodedType
<1>4. b \in LaneStates /\ w \in Words
  BY <1>3, StepType
<1> DEFINE A2 == [j \in (t - 1)..n |-> IF j = t - 1 THEN b ELSE A[j]]
           U2 == [j \in (t - 1)..n |-> IF j = t - 1 THEN w ELSE U[j]]
<1>5. /\ A \in [t..n -> LaneStates] /\ U \in [t..n -> Words]
      /\ A[n] = Fresh /\ U[n] = <<>>
      /\ \A j \in (t + 1)..n : Step(H, os, ws, j, A[j], U[j], A[j - 1], U[j - 1])
  BY <1>2 DEF Path
<1>0. t \in 1..n /\ t \in Nat
  BY <1>1
<1> HIDE DEF n
<1>6. \A j \in (t - 1)..n : j # t - 1 => j \in t..n
  BY <1>0, <1>1
<1>7. A2 \in [(t - 1)..n -> LaneStates] /\ U2 \in [(t - 1)..n -> Words]
  BY <1>4, <1>5, <1>6
<1>8. /\ t - 1 \in (t - 1)..n /\ A2[t - 1] = b /\ U2[t - 1] = w
      /\ \A j \in t..n : A2[j] = A[j] /\ U2[j] = U[j]
  <2>1. \A j \in t..n : j \in (t - 1)..n /\ j # t - 1
    BY <1>0, <1>1
  <2>2. t - 1 \in (t - 1)..n
    BY <1>0, <1>1
  <2> QED BY <2>1, <2>2
<1> HIDE DEF A2, U2
<1>9. A2[n] = Fresh /\ U2[n] = <<>>
  <2>1. n \in t..n
    BY <1>0, <1>1
  <2> QED BY <1>5, <1>8, <2>1
<1>10. ASSUME NEW j \in ((t - 1) + 1)..n
       PROVE  Step(H, os, ws, j, A2[j], U2[j], A2[j - 1], U2[j - 1])
  <2>1. CASE j = t
    <3>1. t \in t..n
      BY <1>0, <1>1
    <3>2. A2[j] = a /\ U2[j] = u /\ A2[j - 1] = b /\ U2[j - 1] = w
      BY <1>2, <1>8, <2>1, <3>1
    <3> QED BY <2>1, <3>2
  <2>2. CASE j # t
    <3>1. j \in t..n /\ j - 1 \in t..n /\ j \in (t + 1)..n
      BY <1>0, <1>1, <2>2
    <3>2. A2[j] = A[j] /\ U2[j] = U[j] /\ A2[j - 1] = A[j - 1] /\ U2[j - 1] = U[j - 1]
      BY <1>8, <3>1
    <3> QED BY <1>5, <3>1, <3>2
  <2> QED BY <2>1, <2>2
<1>11. Path(H, os, ws, t - 1, A2, U2)
  BY <1>7, <1>9, <1>10 DEF Path, n
<1> QED BY <1>8, <1>11 DEF CodedTo

\* The decoder takes entry t + 1.
LEMMA CodingShrinks ==
    ASSUME NEW H, NEW os \in Seq(Pair), NEW ws \in Seq(WidePairs),
           NEW t \in 0..Entries(os, ws), t # Entries(os, ws),
           NEW b, NEW w, CodedTo(H, os, ws, t, b, w)
    PROVE  \E a \in LaneStates : \E u \in Words :
              CodedTo(H, os, ws, t + 1, a, u) /\ Step(H, os, ws, t + 1, a, u, b, w)
<1> DEFINE n == Entries(os, ws)
<1>1. n \in Nat
  BY DEF Entries
<1>2. PICK A, U : Path(H, os, ws, t, A, U) /\ b = A[t] /\ w = U[t]
  BY DEF CodedTo
<1>3. /\ A \in [t..n -> LaneStates] /\ U \in [t..n -> Words]
      /\ A[n] = Fresh /\ U[n] = <<>>
      /\ \A j \in (t + 1)..n : Step(H, os, ws, j, A[j], U[j], A[j - 1], U[j - 1])
  BY <1>2 DEF Path
<1> DEFINE A2 == [j \in (t + 1)..n |-> A[j]]
           U2 == [j \in (t + 1)..n |-> U[j]]
<1>0. t \in 0..n /\ t # n
  OBVIOUS
<1> HIDE DEF n
<1>4. /\ t + 1 \in (t + 1)..n /\ n \in (t + 1)..n /\ (t + 1) - 1 = t
      /\ \A j \in (t + 1)..n : j \in t..n
      /\ \A j \in ((t + 1) + 1)..n : j \in (t + 1)..n /\ j - 1 \in (t + 1)..n
  BY <1>0, <1>1
<1>5. \A j \in (t + 1)..n : A2[j] = A[j] /\ U2[j] = U[j]
  OBVIOUS
<1>6. A2 \in [(t + 1)..n -> LaneStates] /\ U2 \in [(t + 1)..n -> Words]
  BY <1>3, <1>4
<1> HIDE DEF A2, U2
<1>7. A2[n] = Fresh /\ U2[n] = <<>>
  BY <1>3, <1>4, <1>5
<1>8. \A j \in ((t + 1) + 1)..n : Step(H, os, ws, j, A2[j], U2[j], A2[j - 1], U2[j - 1])
  BY <1>3, <1>4, <1>5
<1>9. Path(H, os, ws, t + 1, A2, U2)
  BY <1>6, <1>7, <1>8 DEF Path, n
<1>10. CodedTo(H, os, ws, t + 1, A2[t + 1], U2[t + 1])
  BY <1>9 DEF CodedTo
<1>11. Step(H, os, ws, t + 1, A2[t + 1], U2[t + 1], b, w)
  <2>1. Step(H, os, ws, t + 1, A[t + 1], U[t + 1], A[(t + 1) - 1], U[(t + 1) - 1])
    BY <1>3, <1>4
  <2> QED BY <1>2, <1>4, <1>5, <2>1
<1>12. A2[t + 1] \in LaneStates /\ U2[t + 1] \in Words
  BY <1>4, <1>6
<1> QED BY <1>10, <1>11, <1>12

-----------------------------------------------------------------------------
(* The stack of the encoder: the last pairs that were pushed on top.       *)

LaidOut(s, os, n1, ws, n16) ==
    /\ s \in Seq(Pair) /\ Len(s) = n1 + Lanes * n16
    /\ \A m \in 1..n16 : \A k \in Lane : s[Lanes * (n16 - m) + (k + 1)] = ws[m][k]
    /\ \A m \in 1..n1 : s[Lanes * n16 + (n1 - m + 1)] = os[m]

LEMMA LaneProduct ==
    /\ \A x \in Nat : Lanes * x \in Nat /\ Lanes * (x + 1) = Lanes * x + Lanes
    /\ Lanes * 0 = 0
    /\ Lanes \in Nat \ {0}
<1>1. Lanes \in Nat \ {0}
  BY SymbolSizes
<1> QED BY <1>1

LEMMA LaidPush ==
    ASSUME NEW s, NEW os \in Seq(Pair), NEW ws, NEW e \in Pair, LaidOut(s, os, Len(os), ws, 0)
    PROVE  LaidOut(<<e>> \o s, Append(os, e), Len(os) + 1, ws, 0)
<1> DEFINE n == Len(os)
           r == <<e>> \o s
           p == Append(os, e)
<1>1. n \in Nat /\ s \in Seq(Pair) /\ Len(s) = n /\ \A m \in 1..n : s[n - m + 1] = os[m]
  <2>1. n \in Nat /\ Lanes * 0 = 0
    BY LaneProduct
  <2>2. s \in Seq(Pair) /\ Len(s) = n + 0
    BY <2>1 DEF LaidOut
  <2>3. ASSUME NEW m \in 1..n PROVE s[n - m + 1] = os[m]
    <3>1. s[Lanes * 0 + (n - m + 1)] = os[m]
      BY DEF LaidOut
    <3>2. Lanes * 0 + (n - m + 1) = n - m + 1
      BY <2>1
    <3> QED BY <3>1, <3>2
  <2> QED BY <2>1, <2>2, <2>3
<1>2. r \in Seq(Pair) /\ Len(r) = n + 1 /\ r[1] = e /\ \A i \in 1..n : r[i + 1] = s[i]
  BY <1>1
<1>3. p[n + 1] = e /\ \A m \in 1..n : p[m] = os[m]
  BY AppendProperties
<1> HIDE DEF r, p, n
<1>4. ASSUME NEW m \in 1..(n + 1)
      PROVE  r[(n + 1) - m + 1] = p[m]
  <2>0. n \in Nat
    BY <1>1
  <2>1. CASE m = n + 1
    <3>1. (n + 1) - m + 1 = 1
      BY <2>0, <2>1
    <3>2. r[1] = e /\ p[n + 1] = e
      BY <1>2, <1>3
    <3> QED BY <2>1, <3>1, <3>2
  <2>2. CASE m # n + 1
    <3>1. m \in 1..n /\ n - m + 1 \in 1..n /\ (n + 1) - m + 1 = (n - m + 1) + 1
      BY <2>0, <2>2
    <3>2. r[(n - m + 1) + 1] = s[n - m + 1]
      BY <1>2, <3>1
    <3>3. s[n - m + 1] = os[m] /\ p[m] = os[m]
      BY <1>1, <1>3, <3>1
    <3> QED BY <3>1, <3>2, <3>3
  <2> QED BY <2>1, <2>2
<1>5. \A m \in 1..(n + 1) : r[Lanes * 0 + ((n + 1) - m + 1)] = p[m]
  <2> TAKE m \in 1..(n + 1)
  <2>1. Lanes * 0 + ((n + 1) - m + 1) = (n + 1) - m + 1
    BY <1>1, LaneProduct
  <2> QED BY <1>4, <2>1
<1>6. Len(r) = (n + 1) + Lanes * 0
  BY <1>1, <1>2, LaneProduct
<1>7. LaidOut(r, p, n + 1, ws, 0)
  BY <1>2, <1>5, <1>6 DEF LaidOut
<1> QED BY <1>7 DEF r, p, n

LEMMA LaidPushAll ==
    ASSUME NEW s, NEW os, NEW n1 \in Nat, NEW ws \in Seq(WidePairs), NEW es \in WidePairs,
           LaidOut(s, os, n1, ws, Len(ws))
    PROVE  LaidOut([i \in 1..Lanes |-> es[i - 1]] \o s, os, n1, Append(ws, es), Len(ws) + 1)
<1> DEFINE n == Len(ws)
           top == [i \in 1..Lanes |-> es[i - 1]]
           r == top \o s
           q == Append(ws, es)
<1>1. /\ n \in Nat /\ s \in Seq(Pair) /\ Len(s) = n1 + Lanes * n
      /\ \A m \in 1..n : \A k \in Lane : s[Lanes * (n - m) + (k + 1)] = ws[m][k]
      /\ \A m \in 1..n1 : s[Lanes * n + (n1 - m + 1)] = os[m]
  BY DEF LaidOut
<1>2. Lanes \in Nat \ {0} /\ Lanes * n \in Nat /\ Lanes * (n + 1) = Lanes * n + Lanes
  BY <1>1, LaneProduct
<1>3. top \in Seq(Pair) /\ Len(top) = Lanes /\ \A i \in 1..Lanes : top[i] = es[i - 1]
  <2>1. \A i \in 1..Lanes : i - 1 \in Lane
    BY <1>2 DEF Lane
  <2>2. top \in [1..Lanes -> Pair] /\ \A i \in 1..Lanes : top[i] = es[i - 1]
    BY <2>1 DEF WidePairs
  <2> HIDE DEF top
  <2>3. top \in Seq(Pair)
    <3>1. Lanes \in Nat
      BY <1>2
    <3> QED BY <2>2, <3>1, FunctionIsSequence, Zenon
  <2>4. Len(top) = Lanes
    BY <1>2, <2>2, <2>3
  <2> QED BY <2>2, <2>3, <2>4
<1> HIDE DEF top
<1>4. /\ r \in Seq(Pair) /\ Len(r) = Lanes + Len(s)
      /\ \A i \in 1..Lanes : r[i] = es[i - 1]
      /\ \A i \in 1..Len(s) : r[Lanes + i] = s[i]
  <2>0. s \in Seq(Pair) /\ top \in Seq(Pair) /\ Len(top) = Lanes
    BY <1>1, <1>3
  <2>1. /\ r \in Seq(Pair) /\ Len(r) = Lanes + Len(s)
        /\ \A i \in 1..(Lanes + Len(s)) : r[i] = IF i <= Lanes THEN top[i] ELSE s[i - Lanes]
    <3>1. /\ top \o s \in Seq(Pair) /\ Len(top \o s) = Len(top) + Len(s)
          /\ \A i \in 1..(Len(top) + Len(s)) :
               (top \o s)[i] = IF i <= Len(top) THEN top[i] ELSE s[i - Len(top)]
      BY <2>0, ConcatProperties, Zenon
    <3> QED BY <2>0, <3>1, Zenon DEF r
  <2> HIDE DEF r
  <2>2. Len(s) \in Nat
    BY <1>1
  <2>3. \A i \in 1..Lanes : r[i] = es[i - 1]
    <3> TAKE i \in 1..Lanes
    <3>1. i \in 1..(Lanes + Len(s)) /\ i <= Lanes
      BY <1>2, <2>2
    <3> QED BY <1>3, <2>1, <3>1
  <2>4. \A i \in 1..Len(s) : r[Lanes + i] = s[i]
    <3> TAKE i \in 1..Len(s)
    <3>1. Lanes + i \in 1..(Lanes + Len(s)) /\ ~(Lanes + i <= Lanes) /\ (Lanes + i) - Lanes = i
      BY <1>2, <2>2
    <3> QED BY <2>1, <3>1
  <2> QED BY <2>1, <2>3, <2>4
<1>5. q[n + 1] = es /\ \A m \in 1..n : q[m] = ws[m]
  BY AppendProperties
<1> HIDE DEF r, q, n
<1>6. ASSUME NEW m \in 1..(n + 1), NEW k \in Lane
      PROVE  r[Lanes * ((n + 1) - m) + (k + 1)] = q[m][k]
  <2>0. k \in 0..(Lanes - 1) /\ k \in Nat
    BY <1>2 DEF Lane
  <2>1. CASE m = n + 1
    <3>1. Lanes * ((n + 1) - m) = 0
      BY <1>1, <2>1, LaneProduct
    <3>2. Lanes * ((n + 1) - m) + (k + 1) = k + 1 /\ k + 1 \in 1..Lanes /\ (k + 1) - 1 = k
      BY <1>2, <2>0, <3>1
    <3>3. r[k + 1] = es[k]
      BY <1>4, <3>2
    <3> QED BY <1>5, <2>1, <3>2, <3>3
  <2>2. CASE m # n + 1
    <3>1. m \in 1..n /\ n - m \in Nat /\ (n + 1) - m = (n - m) + 1
      BY <1>1, <2>2
    <3>2. Lanes * (n - m) \in Nat /\ Lanes * ((n + 1) - m) = Lanes * (n - m) + Lanes
      BY <3>1, LaneProduct
    <3>3. Lanes * (n - m) + (k + 1) \in 1..Len(s)
      <4>1. (n - m) + 1 <= n
        BY <1>1, <3>1
      <4>2. Lanes * ((n - m) + 1) <= Lanes * n
        BY <1>1, <1>2, <3>1, <4>1, ProductGrows
      <4>3. Lanes * (n - m) + Lanes <= Lanes * n
        BY <3>1, <4>2, LaneProduct
      <4>4. Len(s) = n1 + Lanes * n
        BY <1>1
      <4> DEFINE x == Lanes * (n - m)
                 y == Lanes * n
      <4>5. x \in Nat /\ y \in Nat /\ x + Lanes <= y /\ Len(s) = n1 + y
        BY <1>2, <3>2, <4>3, <4>4
      <4> HIDE DEF x, y
      <4>6. x + (k + 1) \in 1..Len(s)
        BY <1>2, <2>0, <4>5
      <4> QED BY <4>6 DEF x
    <3>4. Lanes * ((n + 1) - m) + (k + 1) = Lanes + (Lanes * (n - m) + (k + 1))
      BY <1>2, <2>0, <3>2
    <3> QED BY <1>1, <1>4, <1>5, <3>1, <3>3, <3>4
  <2> QED BY <2>1, <2>2
<1>7. ASSUME NEW m \in 1..n1
      PROVE  r[Lanes * (n + 1) + (n1 - m + 1)] = os[m]
  <2>1. Lanes * n + (n1 - m + 1) \in 1..Len(s)
    BY <1>1, <1>2
  <2>2. Lanes * (n + 1) + (n1 - m + 1) = Lanes + (Lanes * n + (n1 - m + 1))
    BY <1>1, <1>2
  <2> QED BY <1>1, <1>4, <2>1, <2>2
<1>8. Len(r) = n1 + Lanes * (n + 1)
  BY <1>1, <1>2, <1>4
<1>9. LaidOut(r, os, n1, q, n + 1)
  BY <1>4, <1>6, <1>7, <1>8 DEF LaidOut
<1> QED BY <1>9 DEF r, q, n, top

LEMMA LaidTakeAll ==
    ASSUME NEW s, NEW os, NEW n1 \in Nat, NEW ws, NEW n \in Nat, n > 0, LaidOut(s, os, n1, ws, n)
    PROVE  /\ \A k \in Lane : s[k + 1] = ws[n][k]
           /\ LaidOut(SubSeq(s, Lanes + 1, Len(s)), os, n1, ws, n - 1)
<1> DEFINE r == SubSeq(s, Lanes + 1, Len(s))
           p == n - 1
<1>0. p \in Nat /\ p + 1 = n
  OBVIOUS
<1>1. /\ s \in Seq(Pair) /\ Len(s) = n1 + Lanes * n
      /\ \A m \in 1..n : \A k \in Lane : s[Lanes * (n - m) + (k + 1)] = ws[m][k]
      /\ \A m \in 1..n1 : s[Lanes * n + (n1 - m + 1)] = os[m]
  BY DEF LaidOut
<1>2. Lanes \in Nat \ {0} /\ Lanes * p \in Nat /\ Lanes * n = Lanes * p + Lanes
  BY <1>0, LaneProduct
<1>3. /\ r \in Seq(Pair) /\ Len(r) = n1 + Lanes * p
      /\ \A i \in 1..Len(r) : r[i] = s[Lanes + i]
  <2>1. \A i \in (Lanes + 1)..Len(s) : s[i] \in Pair
    BY <1>1, <1>2
  <2>2. Lanes + 1 \in Int /\ Len(s) \in Int
    BY <1>1, <1>2
  <2>3. /\ r \in Seq(Pair) /\ Len(r) = IF Lanes + 1 <= Len(s) THEN Len(s) - (Lanes + 1) + 1 ELSE 0
        /\ \A i \in 1..(Len(s) - (Lanes + 1) + 1) : r[i] = s[(Lanes + 1) + i - 1]
    BY <2>1, <2>2, SubSeqProperties
  <2> HIDE DEF r, p
  <2>4. Len(s) = n1 + Lanes * p + Lanes /\ Len(r) = n1 + Lanes * p
    BY <1>1, <1>2, <2>3
  <2>5. \A i \in 1..Len(r) : i \in 1..(Len(s) - (Lanes + 1) + 1) /\ (Lanes + 1) + i - 1 = Lanes + i
    BY <1>2, <2>4
  <2> QED BY <2>3, <2>4, <2>5
<1>4. ASSUME NEW k \in Lane PROVE s[k + 1] = ws[n][k]
  <2>1. s[Lanes * (n - n) + (k + 1)] = ws[n][k]
    <3>1. n \in 1..n
      OBVIOUS
    <3> QED BY <1>1, <3>1
  <2>2. Lanes * (n - n) + (k + 1) = k + 1
    <3>1. n - n = 0 /\ k \in Nat
      BY <1>2 DEF Lane
    <3> QED BY <3>1, LaneProduct
  <2> QED BY <2>1, <2>2
<1> HIDE DEF r, p
<1>5. ASSUME NEW m \in 1..p, NEW k \in Lane
      PROVE  r[Lanes * (p - m) + (k + 1)] = ws[m][k]
  <2>0. k \in 0..(Lanes - 1) /\ k \in Nat
    BY <1>2 DEF Lane
  <2>1. p - m \in Nat /\ (p - m) + 1 <= p /\ n - m = (p - m) + 1 /\ m \in 1..n
    BY <1>0
  <2>2. Lanes * (p - m) \in Nat /\ Lanes * (n - m) = Lanes * (p - m) + Lanes
    BY <2>1, LaneProduct
  <2>3. Lanes * (p - m) + Lanes <= Lanes * p
    <3>1. Lanes * ((p - m) + 1) <= Lanes * p
      BY <1>0, <1>2, <2>1, ProductGrows
    <3> QED BY <2>1, <2>2, <3>1
  <2>4. Lanes * (p - m) + (k + 1) \in 1..Len(r)
    <3>1. Len(r) = n1 + Lanes * p /\ Lanes * p \in Nat
      BY <1>2, <1>3
    <3>2. Lanes * (p - m) + (k + 1) <= Lanes * p /\ Lanes * (p - m) + (k + 1) \in Nat \ {0}
      BY <1>2, <2>0, <2>2, <2>3
    <3> QED BY <3>1, <3>2
  <2>5. Lanes + (Lanes * (p - m) + (k + 1)) = Lanes * (n - m) + (k + 1)
    BY <1>2, <2>0, <2>2
  <2> QED BY <1>1, <1>3, <2>1, <2>4, <2>5
<1>6. ASSUME NEW m \in 1..n1
      PROVE  r[Lanes * p + (n1 - m + 1)] = os[m]
  <2>1. Lanes * p + (n1 - m + 1) \in 1..Len(r)
    BY <1>2, <1>3
  <2>2. Lanes + (Lanes * p + (n1 - m + 1)) = Lanes * n + (n1 - m + 1)
    BY <1>2
  <2> QED BY <1>1, <1>3, <2>1, <2>2
<1>7. LaidOut(r, os, n1, ws, p)
  BY <1>3, <1>5, <1>6 DEF LaidOut
<1> QED BY <1>4, <1>7 DEF r, p

LEMMA LaidTake ==
    ASSUME NEW s, NEW os, NEW n \in Nat, n > 0, NEW ws, LaidOut(s, os, n, ws, 0)
    PROVE  /\ s # <<>> /\ Head(s) = os[n]
           /\ LaidOut(Tail(s), os, n - 1, ws, 0)
<1> DEFINE r == Tail(s)
           p == n - 1
<1>1. s \in Seq(Pair) /\ Len(s) = n /\ \A m \in 1..n : s[n - m + 1] = os[m]
  BY LaneProduct DEF LaidOut
<1>2. s # <<>> /\ Head(s) = s[1]
  BY <1>1
<1>3. s[1] = os[n]
  <2>1. n \in 1..n /\ n - n + 1 = 1
    OBVIOUS
  <2> QED BY <1>1, <2>1
<1>4. r \in Seq(Pair) /\ Len(r) = p /\ \A i \in 1..p : r[i] = s[i + 1]
  BY <1>1, <1>2, HeadTailProperties
<1>0. p \in Nat /\ n = p + 1
  OBVIOUS
<1> HIDE DEF r, p
<1>5. \A m \in 1..p : r[Lanes * 0 + (p - m + 1)] = os[m]
  <2> TAKE m \in 1..p
  <2>1. Lanes * 0 + (p - m + 1) = p - m + 1 /\ p - m + 1 \in 1..p /\ (p - m + 1) + 1 = n - m + 1 /\ m \in 1..n
    BY <1>0, LaneProduct
  <2> QED BY <1>1, <1>4, <2>1
<1>6. Len(r) = p + Lanes * 0
  BY <1>0, <1>4, LaneProduct
<1>7. LaidOut(r, os, p, ws, 0)
  BY <1>4, <1>5, <1>6 DEF LaidOut
<1> QED BY <1>2, <1>3, <1>7 DEF r, p

-----------------------------------------------------------------------------
(* The words of the decoder.                                               *)

\* From here the stream, which lost its last words, holds the words from the
\* last that was written on.
Holds(str, from, lost, w) ==
    /\ from + Len(w) = Len(str) + lost
    /\ \A i \in 1..Len(w) : from + i <= Len(str) => str[from + i] = w[Len(w) - i + 1]

LEMMA ReadOn ==
    ASSUME NEW str \in Words, NEW from \in 0..Len(str), NEW lost \in Nat, NEW w \in Words, NEW u \in Words,
           NEW n \in Nat, Holds(str, from, lost, w), Len(w) = Len(u) + n, \A i \in 1..Len(u) : w[i] = u[i]
    PROVE  /\ from + n <= Len(str) =>
                 /\ Holds(str, from + n, lost, u)
                 /\ \A i \in 0..(n - 1) : from + i + 1 <= Len(str) /\ str[from + i + 1] = w[Len(w) - i]
           /\ from + n > Len(str) => lost > 0
<1> DEFINE L == Len(str)
           M == Len(w)
           N == Len(u)
<1>1. L \in Nat /\ M \in Nat /\ N \in Nat /\ M = N + n /\ from + M = L + lost /\ from \in Nat
  BY DEF Words, Holds
<1>2. \A i \in 1..M : from + i <= L => str[from + i] = w[M - i + 1]
  BY DEF Holds
<1>3. \A i \in 1..N : w[i] = u[i]
  OBVIOUS
<1> HIDE DEF L, M, N
<1>4. ASSUME from + n <= L
      PROVE  /\ (from + n) + N = L + lost
             /\ \A i \in 1..N : (from + n) + i <= L => str[(from + n) + i] = u[N - i + 1]
             /\ \A i \in 0..(n - 1) : from + i + 1 <= L /\ str[from + i + 1] = w[M - i]
  <2>1. ASSUME NEW i \in 1..N, (from + n) + i <= L
        PROVE  str[(from + n) + i] = u[N - i + 1]
    <3>1. n + i \in 1..M /\ from + (n + i) <= L /\ M - (n + i) + 1 = N - i + 1 /\ N - i + 1 \in 1..N
          /\ (from + n) + i = from + (n + i)
      BY <1>1, <2>1
    <3> QED BY <1>2, <1>3, <3>1
  <2>2. ASSUME NEW i \in 0..(n - 1)
        PROVE  from + i + 1 <= L /\ str[from + i + 1] = w[M - i]
    <3>1. i + 1 \in 1..M /\ from + (i + 1) <= L /\ M - (i + 1) + 1 = M - i /\ from + (i + 1) = from + i + 1
      BY <1>1, <1>4
    <3> QED BY <1>2, <3>1
  <2> QED BY <1>1, <2>1, <2>2
<1>5. from + n > L => lost > 0
  BY <1>1
<1> QED BY <1>4, <1>5 DEF Holds, L, M, N

\* What the decoder makes of any two words is two words.
LEMMA LostInRange ==
    ASSUME NEW h, Table(h), NEW y \in 0..(B * B - 1), NEW word \in 0..(B - 1)
    PROVE  LET v == Lookup(h, y % NormSum)
           IN  v \in Symbols /\ Refilled(Uncoded(y, h[v], Below(h, v)), word) \in 0..(B * B - 1)
<1> DEFINE r == y % NormSum
           q == y \div NormSum
           v == Lookup(h, r)
           f == h[v]
           c == Below(h, v)
           x == q * f + r - c
<1>1. B \in Nat \ {0} /\ NormSum \in Nat \ {0} /\ B * B \in Nat /\ K \in Nat /\ B * K \in Nat
      /\ B * B = NormSum * (B * K)
  BY Sizes
<1>2. y \in Nat /\ q \in Nat /\ r \in 0..(NormSum - 1) /\ y = NormSum * q + r
  <2>1. y \in Nat
    BY <1>1
  <2> QED BY <1>1, <2>1, Division
<1>3. v \in Symbols /\ c <= r /\ r < c + f
  BY <1>2, LookupType
<1>4. f \in 0..NormSum /\ c \in Nat
  BY <1>3, BelowSums DEF Table
<1>5. q < B * K
  <2>1. y < NormSum * (B * K)
    BY <1>1, <1>2
  <2> QED BY <1>1, <1>2, <2>1, QuotientBelow
<1>6. x \in 0..(B * B - 1)
  <2> HIDE DEF q, r, f, c
  <2>1. q + 1 <= B * K
    BY <1>1, <1>2, <1>5
  <2>2. f * (q + 1) <= f * (B * K) /\ f * (q + 1) \in Nat /\ f * (B * K) \in Nat
    BY <1>1, <1>2, <1>4, <2>1, ProductGrows
  <2>3. (B * K) * f <= (B * K) * NormSum /\ (B * K) * NormSum \in Nat
    BY <1>1, <1>4, ProductGrows
  <2>4. f * (B * K) = (B * K) * f /\ (B * K) * NormSum = B * B
    BY <1>1, <1>4
  <2>5. f * (q + 1) = q * f + f /\ q * f \in Nat
    BY <1>2, <1>4
  <2> DEFINE z == q * f
  <2>6. z \in Nat /\ z + f <= B * B
    <3>1. f * (q + 1) <= B * B
      BY <2>2, <2>3, <2>4, <1>1
    <3> QED BY <2>5, <3>1
  <2> HIDE DEF z
  <2>7. z + r - c \in 0..(B * B - 1)
    BY <1>1, <1>2, <1>3, <1>4, <2>6
  <2> QED BY <2>7 DEF z
<1>7. x = Uncoded(y, f, c)
  BY DEF Uncoded
<1> HIDE DEF x, f, c
<1>8. Refilled(x, word) \in 0..(B * B - 1)
  <2>1. CASE x < B
    <3>1. x \in Nat /\ x + 1 <= B
      BY <1>1, <1>6, <2>1
    <3>2. B * (x + 1) <= B * B /\ B * (x + 1) = x * B + B /\ x * B \in Nat
      BY <1>1, <3>1, ProductGrows
    <3> DEFINE z == x * B
    <3>3. z \in Nat /\ z + B <= B * B
      BY <3>2
    <3>4. Refilled(x, word) = z + word
      BY <2>1 DEF Refilled, Wants
    <3> HIDE DEF z
    <3> QED BY <1>1, <3>3, <3>4
  <2>2. CASE ~(x < B)
    BY <1>6, <2>2 DEF Refilled, Wants
  <2> QED BY <2>1, <2>2
<1> QED BY <1>3, <1>7, <1>8 DEF f, c, v, r

-----------------------------------------------------------------------------
(* The counters and the tables.                                            *)

Tallied == [Contexts -> Tallies]

Counted(c, os, ws) ==
    /\ \A m \in 1..Len(os) : c[os[m][1]][os[m][2]] > 0
    /\ \A m \in 1..Len(ws) : \A k \in Lane : c[ws[m][k][1]][ws[m][k][2]] > 0

LEMMA CountOne ==
    ASSUME NEW c \in Tallied, NEW os \in Seq(Pair), NEW ws \in Seq(WidePairs), Counted(c, os, ws), NEW e \in Pair
    PROVE  LET d == [c EXCEPT ![e[1]][e[2]] = @ + 1]
           IN  d \in Tallied /\ Counted(d, Append(os, e), ws)
<1> DEFINE d == [c EXCEPT ![e[1]][e[2]] = @ + 1]
           r == Append(os, e)
<1>1. e[1] \in Contexts /\ e[2] \in Symbols
  BY DEF Pair
<1>2. d \in Tallied
  BY <1>1 DEF Tallied, Tallies
<1>3. \A p \in Pair : d[p[1]][p[2]] = IF p[1] = e[1] /\ p[2] = e[2] THEN c[p[1]][p[2]] + 1 ELSE c[p[1]][p[2]]
  BY <1>1 DEF Pair, Tallied, Tallies
<1>4. \A p \in Pair : c[p[1]][p[2]] \in Nat
  BY DEF Pair, Tallied, Tallies
<1> HIDE DEF d
<1>5. \A p \in Pair : c[p[1]][p[2]] > 0 \/ p = e => d[p[1]][p[2]] > 0
  BY <1>3, <1>4
<1>6. Len(r) = Len(os) + 1 /\ r[Len(os) + 1] = e /\ \A m \in 1..Len(os) : r[m] = os[m] /\ os[m] \in Pair
  BY AppendProperties, ElementOfSeq
<1> HIDE DEF r
<1>7. ASSUME NEW m \in 1..Len(r) PROVE d[r[m][1]][r[m][2]] > 0
  <2>1. CASE m = Len(os) + 1
    BY <1>5, <1>6, <2>1
  <2>2. CASE m # Len(os) + 1
    <3>1. m \in 1..Len(os)
      BY <1>6, <2>2
    <3>2. r[m] \in Pair /\ c[r[m][1]][r[m][2]] > 0
      BY <1>6, <3>1 DEF Counted
    <3> QED BY <1>5, <3>2
  <2> QED BY <2>1, <2>2
<1>8. ASSUME NEW m \in 1..Len(ws), NEW k \in Lane PROVE d[ws[m][k][1]][ws[m][k][2]] > 0
  <2>1. ws[m] \in WidePairs
    BY ElementOfSeq
  <2>2. ws[m][k] \in Pair /\ c[ws[m][k][1]][ws[m][k][2]] > 0
    BY <2>1 DEF WidePairs, Counted
  <2> QED BY <1>5, <2>2
<1>9. Counted(d, r, ws)
  BY <1>7, <1>8 DEF Counted
<1> QED BY <1>2, <1>9 DEF d, r

LEMMA CountAll ==
    ASSUME NEW c \in Tallied, NEW os \in Seq(Pair), NEW ws \in Seq(WidePairs), Counted(c, os, ws), NEW es \in WidePairs
    PROVE  LET d == [x \in Contexts |-> [v \in Symbols |-> c[x][v] + Cardinality({k \in Lane : es[k] = <<x, v>>})]]
           IN  d \in Tallied /\ Counted(d, os, Append(ws, es))
<1> DEFINE N(x, v) == Cardinality({k \in Lane : es[k] = <<x, v>>})
           d == [x \in Contexts |-> [v \in Symbols |-> c[x][v] + N(x, v)]]
           r == Append(ws, es)
<1>1. \A x, v : N(x, v) \in Nat /\ ((\E k \in Lane : es[k] = <<x, v>>) => N(x, v) > 0)
  <2> TAKE x, v
  <2> DEFINE S == {k \in Lane : es[k] = <<x, v>>}
  <2>1. S \in SUBSET Lane
    OBVIOUS
  <2>2. IsFiniteSet(S) /\ Cardinality(S) \in Nat
    <3> HIDE DEF S
    <3> QED BY <2>1, DescendingFalls
  <2>3. S # {} => Cardinality(S) # 0
    <3> HIDE DEF S
    <3> QED BY <2>2, FS_EmptySet
  <2> QED BY <2>2, <2>3
<1> HIDE DEF N
<1>2. d \in Tallied
  BY <1>1 DEF Tallied, Tallies
<1>3. \A p \in Pair : /\ d[p[1]][p[2]] = c[p[1]][p[2]] + N(p[1], p[2])
                      /\ c[p[1]][p[2]] \in Nat /\ N(p[1], p[2]) \in Nat /\ p = <<p[1], p[2]>>
  BY <1>1 DEF Pair, Tallied, Tallies
<1> HIDE DEF d
<1>4. \A p \in Pair : c[p[1]][p[2]] > 0 \/ N(p[1], p[2]) > 0 => d[p[1]][p[2]] > 0
  BY <1>3
<1>5. \A k \in Lane : es[k] \in Pair
  BY DEF WidePairs
<1>6. \A k \in Lane : N(es[k][1], es[k][2]) > 0
  BY <1>1, <1>3, <1>5
<1>7. Len(r) = Len(ws) + 1 /\ r[Len(ws) + 1] = es /\ \A m \in 1..Len(ws) : r[m] = ws[m]
  BY AppendProperties
<1>8. \A m \in 1..Len(ws) : \A k \in Lane : ws[m][k] \in Pair
  <2> TAKE m \in 1..Len(ws)
  <2>1. ws[m] \in WidePairs
    BY ElementOfSeq
  <2> QED BY <2>1 DEF WidePairs
<1> HIDE DEF r
<1>9. ASSUME NEW m \in 1..Len(r), NEW k \in Lane PROVE d[r[m][k][1]][r[m][k][2]] > 0
  <2>1. CASE m = Len(ws) + 1
    BY <1>4, <1>5, <1>6, <1>7, <2>1
  <2>2. CASE m # Len(ws) + 1
    <3>1. m \in 1..Len(ws)
      BY <1>7, <2>2
    <3>2. r[m][k] \in Pair /\ c[r[m][k][1]][r[m][k][2]] > 0
      BY <1>7, <1>8, <3>1 DEF Counted
    <3> QED BY <1>4, <3>2
  <2> QED BY <2>1, <2>2
<1>10. ASSUME NEW m \in 1..Len(os) PROVE d[os[m][1]][os[m][2]] > 0
  <2>1. os[m] \in Pair /\ c[os[m][1]][os[m][2]] > 0
    BY ElementOfSeq DEF Counted
  <2> QED BY <1>4, <2>1
<1>11. Counted(d, os, r)
  BY <1>9, <1>10 DEF Counted
<1> QED BY <1>2, <1>11 DEF d, r, N

TablesOf(H) == H \in [Contexts -> [Symbols -> 0..NormSum]] /\ \A c \in Contexts : SumFunction(H[c]) = NormSum

LEMMA TablesAreUsable ==
    ASSUME NEW c \in Tallied, NEW os \in Seq(Pair), NEW ws \in Seq(WidePairs), Counted(c, os, ws)
    PROVE  LET H == [x \in Contexts |-> Normalised(c[x])]
           IN  TablesOf(H) /\ Usable(H, os, ws)
<1> DEFINE H == [x \in Contexts |-> Normalised(c[x])]
<1>1. \A x \in Contexts : /\ H[x] = Normalised(c[x]) /\ Table(H[x])
                          /\ \A v \in Symbols : c[x][v] > 0 => H[x][v] > 0
  <2> TAKE x \in Contexts
  <2>1. c[x] \in Tallies /\ H[x] = Normalised(c[x])
    BY DEF Tallied
  <2> HIDE DEF H
  <2> QED BY <2>1, NormalisedIsTable
<1>2. H \in [Contexts -> [Symbols -> 0..NormSum]]
  <2>1. \A x \in Contexts : Normalised(c[x]) \in [Symbols -> 0..NormSum]
    BY <1>1 DEF Table
  <2> QED BY <2>1
<1> HIDE DEF H
<1>3. TablesOf(H)
  BY <1>1, <1>2 DEF TablesOf, Table
<1>4. \A p \in Pair : c[p[1]][p[2]] > 0 => Codable(H, p)
  BY <1>1 DEF Pair, Codable, FreqIn
<1>5. ASSUME NEW m \in 1..Len(os) PROVE Codable(H, os[m])
  BY <1>4, ElementOfSeq DEF Counted
<1>6. ASSUME NEW m \in 1..Len(ws) PROVE AllCodable(H, ws[m])
  <2>1. ws[m] \in WidePairs
    BY ElementOfSeq
  <2>2. \A k \in Lane : ws[m][k] \in Pair /\ c[ws[m][k][1]][ws[m][k][2]] > 0
    BY <2>1 DEF WidePairs, Counted
  <2> QED BY <1>4, <2>2 DEF AllCodable
<1>7. Usable(H, os, ws)
  BY <1>5, <1>6 DEF Usable
<1> QED BY <1>3, <1>7 DEF H

-----------------------------------------------------------------------------
(* The stream: the states, and behind them the words in reverse.            *)

\* What is left of a stream that lost its last words.
Carries(str, lost, present, a, u) ==
    /\ Len(str) <= 2 * Lanes + Len(u)
    /\ lost + Len(str) + present = 2 * Lanes + Len(u) + NContexts
    /\ present < NContexts => Len(str) = 0
    /\ \A k \in Lane : /\ 2 * k + 1 <= Len(str) => str[2 * k + 1] = a[k] \div B
                       /\ 2 * k + 2 <= Len(str) => str[2 * k + 2] = a[k] % B
    /\ \A i \in 1..Len(u) : 2 * Lanes + i <= Len(str) => str[2 * Lanes + i] = u[Len(u) - i + 1]

StateWords(a) ==
    [i \in 1..(2 * Lanes) |-> LET x == a[Lanes - 1 - ((i - 1) \div 2)]
                              IN  IF i % 2 = 1 THEN x % B ELSE x \div B]

LEMMA HalvesAreWords ==
    ASSUME NEW x \in States
    PROVE  /\ x \div B \in 0..(B - 1) /\ x % B \in 0..(B - 1)
           /\ (x \div B) * B + (x % B) = x
<1>1. B \in Nat \ {0} /\ B * B \in Nat /\ x \in Nat /\ x < B * B
  BY Sizes DEF States
<1>2. x \div B \in Nat /\ x % B \in 0..(B - 1) /\ x = B * (x \div B) + (x % B)
  BY <1>1, Division
<1>3. x \div B < B
  BY <1>1, QuotientBelow
<1>4. B * (x \div B) = (x \div B) * B
  BY <1>1, <1>2
<1> QED
  BY <1>1, <1>2, <1>3, <1>4

LEMMA FlushCarries ==
    ASSUME NEW a \in LaneStates, NEW u \in Words
    PROVE  LET str == Reverse(u \o StateWords(a))
           IN  str \in Words /\ Carries(str, 0, NContexts, a, u) /\ Len(str) = 2 * Lanes + Len(u)
<1> DEFINE s == StateWords(a)
           n == 2 * Lanes
           w == u \o s
           L == Len(u)
           str == Reverse(w)
<1>1. Lanes \in Nat \ {0} /\ n \in Nat /\ L \in Nat /\ NContexts \in Nat
  BY SymbolSizes, SizeAssumption DEF Words
<1>2. ASSUME NEW i \in 1..n
      PROVE  Lanes - 1 - ((i - 1) \div 2) \in Lane
  <2>1. (i - 1) \div 2 \in 0..(Lanes - 1)
    BY <1>1
  <2> QED BY <1>1, <2>1 DEF Lane
<1>3. s \in [1..n -> 0..(B - 1)]
  <2>1. \A i \in 1..n : a[Lanes - 1 - ((i - 1) \div 2)] \in States
    BY <1>2 DEF LaneStates
  <2>2. \A i \in 1..n : s[i] \in 0..(B - 1)
    BY <2>1, HalvesAreWords DEF StateWords
  <2> QED BY <2>2 DEF StateWords
<1>4. \A k \in Lane : /\ 2 * (Lanes - k) \in 1..n /\ s[2 * (Lanes - k)] = a[k] \div B
                      /\ 2 * (Lanes - k) - 1 \in 1..n /\ s[2 * (Lanes - k) - 1] = a[k] % B
  <2> TAKE k \in Lane
  <2>1. k \in Nat /\ k < Lanes
    BY <1>1 DEF Lane
  <2>2. /\ 2 * (Lanes - k) \in 1..n /\ 2 * (Lanes - k) - 1 \in 1..n
        /\ (2 * (Lanes - k)) % 2 = 0 /\ (2 * (Lanes - k) - 1) % 2 = 1
        /\ Lanes - 1 - ((2 * (Lanes - k) - 1) \div 2) = k
        /\ Lanes - 1 - (((2 * (Lanes - k) - 1) - 1) \div 2) = k
    BY <1>1, <2>1
  <2> QED BY <2>2 DEF StateWords
<1> HIDE DEF s
<1>5. s \in Words /\ Len(s) = n
  <2>1. s \in Words
    BY <1>1, <1>3, FunctionIsSequence, Zenon DEF Words
  <2>2. DOMAIN s = 1..n /\ DOMAIN s = 1..Len(s) /\ Len(s) \in Nat
    BY <1>3, <2>1 DEF Words
  <2> QED BY <1>1, <2>1, <2>2
<1>6. /\ w \in Words /\ Len(w) = L + n
      /\ \A i \in 1..(L + n) : w[i] = IF i <= L THEN u[i] ELSE s[i - L]
  BY <1>5, ConcatProperties DEF Words
<1> HIDE DEF w, n, L
<1>7. /\ str \in Words /\ Len(str) = L + n
      /\ \A i \in 1..(L + n) : str[i] = w[(L + n) - i + 1]
  <2>1. str = [i \in 1..(L + n) |-> w[(L + n) - i + 1]]
    BY <1>6 DEF Reverse
  <2> HIDE DEF str
  <2>2. L + n \in Nat /\ \A i \in 1..(L + n) : (L + n) - i + 1 \in 1..(L + n)
    BY <1>1
  <2>3. str \in [1..(L + n) -> 0..(B - 1)]
    <3>1. \A i \in 1..(L + n) : w[i] \in 0..(B - 1)
      BY <1>6, ElementOfSeq DEF Words
    <3> QED BY <2>1, <2>2, <3>1
  <2>4. str \in Words
    BY <2>2, <2>3, FunctionIsSequence, Zenon DEF Words
  <2>5. DOMAIN str = 1..(L + n) /\ DOMAIN str = 1..Len(str) /\ Len(str) \in Nat
    BY <2>3, <2>4 DEF Words
  <2> QED BY <2>1, <2>2, <2>4, <2>5
<1> HIDE DEF str
<1>8. ASSUME NEW k \in Lane
      PROVE  str[2 * k + 1] = a[k] \div B /\ str[2 * k + 2] = a[k] % B
  <2>1. k \in Nat /\ k < Lanes
    BY <1>1 DEF Lane
  <2>2. /\ 2 * k + 1 \in 1..(L + n) /\ (L + n) - (2 * k + 1) + 1 = L + 2 * (Lanes - k)
        /\ 2 * k + 2 \in 1..(L + n) /\ (L + n) - (2 * k + 2) + 1 = L + (2 * (Lanes - k) - 1)
        /\ L + 2 * (Lanes - k) \in 1..(L + n) /\ L + (2 * (Lanes - k) - 1) \in 1..(L + n)
        /\ ~(L + 2 * (Lanes - k) <= L) /\ ~(L + (2 * (Lanes - k) - 1) <= L)
        /\ (L + 2 * (Lanes - k)) - L = 2 * (Lanes - k)
        /\ (L + (2 * (Lanes - k) - 1)) - L = 2 * (Lanes - k) - 1
    BY <1>1, <2>1 DEF n
  <2>3. str[2 * k + 1] = w[L + 2 * (Lanes - k)] /\ str[2 * k + 2] = w[L + (2 * (Lanes - k) - 1)]
    BY <1>7, <2>2
  <2>4. w[L + 2 * (Lanes - k)] = s[2 * (Lanes - k)] /\ w[L + (2 * (Lanes - k) - 1)] = s[2 * (Lanes - k) - 1]
    BY <1>6, <2>2
  <2> QED BY <1>4, <2>3, <2>4
<1>9. ASSUME NEW i \in 1..L PROVE str[n + i] = u[L - i + 1]
  <2>1. n + i \in 1..(L + n) /\ (L + n) - (n + i) + 1 = L - i + 1 /\ L - i + 1 \in 1..(L + n) /\ L - i + 1 <= L
    BY <1>1
  <2> QED BY <1>6, <1>7, <2>1
<1>10. Len(str) = n + L /\ 0 + Len(str) + NContexts = n + L + NContexts
  BY <1>1, <1>7
<1>11. Carries(str, 0, NContexts, a, u)
  BY <1>1, <1>8, <1>9, <1>10 DEF Carries, n, L
<1> QED BY <1>7, <1>10, <1>11 DEF str, w, s, n, L

LEMMA MinOfTwo ==
    ASSUME NEW x \in Int, NEW y \in Int
    PROVE  Min({x, y}) = IF x <= y THEN x ELSE y
<1> DEFINE S == {x, y}
           z == IF x <= y THEN x ELSE y
<1>1. z \in S /\ (\A v \in S : z <= v) /\ \A w \in S : (\A v \in S : w <= v) => w = z
  OBVIOUS
<1>2. Min(S) = CHOOSE w \in S : \A v \in S : w <= v
  BY DEF Min
<1> HIDE DEF z, S
<1>3. Min(S) = z
  BY <1>1, <1>2
<1> QED BY <1>3 DEF z, S

LEMMA CutCarries ==
    ASSUME NEW str \in Words, NEW a, NEW u \in Words, Carries(str, 0, NContexts, a, u),
           NEW n \in 1..(NContexts + Len(str))
    PROVE  LET rest == SubSeq(str, 1, Len(str) - n)
               left == Min({NContexts, NContexts + Len(str) - n})
           IN  /\ rest \in Words /\ Len(rest) <= Len(str) /\ left \in 0..NContexts
               /\ Carries(rest, n, left, a, u)
<1> DEFINE L == Len(str)
           rest == SubSeq(str, 1, L - n)
           left == Min({NContexts, NContexts + L - n})
<1>1. L \in Nat /\ Len(u) \in Nat /\ NContexts \in Nat /\ Lanes \in Nat /\ n \in Nat /\ n <= NContexts + L
  BY SymbolSizes, SizeAssumption DEF Words
<1>2. L <= 2 * Lanes + Len(u) /\ L = 2 * Lanes + Len(u)
  BY <1>1 DEF Carries
<1>3. left = IF n <= L THEN NContexts ELSE NContexts + L - n
  <2>1. NContexts \in Int /\ NContexts + L - n \in Int
    BY <1>1
  <2>2. left = IF NContexts <= NContexts + L - n THEN NContexts ELSE NContexts + L - n
    BY <2>1, MinOfTwo
  <2> QED BY <1>1, <2>2
<1>4. rest \in Words /\ Len(rest) = (IF n <= L THEN L - n ELSE 0) /\ \A i \in 1..Len(rest) : rest[i] = str[i]
  <2>1. \A i \in 1..(L - n) : str[i] \in 0..(B - 1)
    <3>1. \A i \in 1..L : str[i] \in 0..(B - 1)
      BY ElementOfSeq DEF Words
    <3> HIDE DEF L
    <3>2. \A i \in 1..(L - n) : i \in 1..L
      BY <1>1
    <3> QED BY <3>1, <3>2
  <2>2. 1 \in Int /\ L - n \in Int
    BY <1>1
  <2>3. /\ rest \in Seq(0..(B - 1)) /\ Len(rest) = IF 1 <= L - n THEN (L - n) - 1 + 1 ELSE 0
        /\ \A i \in 1..((L - n) - 1 + 1) : rest[i] = str[1 + i - 1]
    BY <2>1, <2>2, SubSeqProperties
  <2> HIDE DEF rest, L
  <2> QED BY <1>1, <2>3 DEF Words
<1> HIDE DEF rest, left
<1>5. left \in 0..NContexts /\ Len(rest) <= L
  BY <1>1, <1>3, <1>4
<1>6. /\ Len(rest) <= 2 * Lanes + Len(u)
      /\ n + Len(rest) + left = 2 * Lanes + Len(u) + NContexts
      /\ left < NContexts => Len(rest) = 0
  <2> HIDE DEF L
  <2> QED BY <1>1, <1>2, <1>3, <1>4
<1>7. /\ \A k \in Lane : /\ 2 * k + 1 <= L => str[2 * k + 1] = a[k] \div B
                         /\ 2 * k + 2 <= L => str[2 * k + 2] = a[k] % B
      /\ \A i \in 1..Len(u) : 2 * Lanes + i <= L => str[2 * Lanes + i] = u[Len(u) - i + 1]
  BY DEF Carries
<1> HIDE DEF L
<1>8. ASSUME NEW k \in Lane
      PROVE  /\ 2 * k + 1 <= Len(rest) => rest[2 * k + 1] = a[k] \div B
             /\ 2 * k + 2 <= Len(rest) => rest[2 * k + 2] = a[k] % B
  <2>1. k \in Nat
    BY <1>1 DEF Lane
  <2>2. /\ 2 * k + 1 <= Len(rest) => 2 * k + 1 \in 1..Len(rest) /\ 2 * k + 1 <= L
        /\ 2 * k + 2 <= Len(rest) => 2 * k + 2 \in 1..Len(rest) /\ 2 * k + 2 <= L
    BY <1>1, <1>4, <1>5, <2>1
  <2> QED BY <1>4, <1>7, <2>2
<1>9. ASSUME NEW i \in 1..Len(u), 2 * Lanes + i <= Len(rest)
      PROVE  rest[2 * Lanes + i] = u[Len(u) - i + 1]
  <2>1. 2 * Lanes + i \in 1..Len(rest) /\ 2 * Lanes + i <= L
    BY <1>1, <1>4, <1>5, <1>9
  <2> QED BY <1>4, <1>7, <2>1
<1>10. Carries(rest, n, left, a, u)
  BY <1>6, <1>8, <1>9 DEF Carries
<1> QED BY <1>4, <1>5, <1>10 DEF rest, left, L

LEMMA OpenHolds ==
    ASSUME NEW str \in Words, NEW lost \in Nat, NEW present \in 0..NContexts, NEW a \in LaneStates, NEW u \in Words,
           Carries(str, lost, present, a, u)
    PROVE  IF present < NContexts \/ 2 * Lanes > Len(str)
             THEN lost > 0
             ELSE /\ \A k \in Lane : /\ 2 * k + 2 <= Len(str)
                                     /\ str[2 * k + 1] * B + str[2 * k + 2] = a[k]
                  /\ Holds(str, 2 * Lanes, lost, u)
<1>1. /\ Len(str) \in Nat /\ Len(u) \in Nat /\ NContexts \in Nat /\ Lanes \in Nat
      /\ Len(str) <= 2 * Lanes + Len(u)
      /\ lost + Len(str) + present = 2 * Lanes + Len(u) + NContexts
  BY SymbolSizes, SizeAssumption DEF Words, Carries
<1>2. CASE present < NContexts \/ 2 * Lanes > Len(str)
  <2>1. lost > 0
    BY <1>1, <1>2
  <2> QED BY <1>2, <2>1
<1>3. CASE ~(present < NContexts \/ 2 * Lanes > Len(str))
  <2>1. ASSUME NEW k \in Lane
        PROVE  2 * k + 2 <= Len(str) /\ str[2 * k + 1] * B + str[2 * k + 2] = a[k]
    <3>1. 2 * k + 1 <= Len(str) /\ 2 * k + 2 <= Len(str)
      BY <1>1, <1>3 DEF Lane
    <3>2. str[2 * k + 1] = a[k] \div B /\ str[2 * k + 2] = a[k] % B
      BY <3>1 DEF Carries
    <3>3. a[k] \in States
      BY DEF LaneStates
    <3> QED BY <3>1, <3>2, <3>3, HalvesAreWords
  <2>2. 2 * Lanes + Len(u) = Len(str) + lost
    BY <1>1, <1>3
  <2>3. \A i \in 1..Len(u) : 2 * Lanes + i <= Len(str) => str[2 * Lanes + i] = u[Len(u) - i + 1]
    BY DEF Carries
  <2>4. Holds(str, 2 * Lanes, lost, u)
    BY <2>2, <2>3 DEF Holds
  <2> QED BY <1>3, <2>1, <2>4
<1> QED BY <1>2, <1>3

-----------------------------------------------------------------------------
(* The inductive invariant.                                                *)

Histories ==
    /\ ones \in Seq(Pair) /\ wides \in Seq(WidePairs)
    /\ count1 \in 0..Len(ones) /\ count16 \in 0..Len(wides)
    /\ got1 \in Seq(Symbols) /\ Len(got1) <= Len(ones)
    /\ got16 \in Seq([Lane -> Symbols]) /\ Len(got16) <= Len(wides)
    /\ Len(got16) > 0 => Len(got1) = Len(ones)
    /\ cut \in Nat

Laid == LaidOut(stack, ones, count1, wides, count16)

Unopened == ~fail /\ pos = 0 /\ got1 = <<>> /\ got16 = <<>>

Pushing ==
    stage = "push" =>
        /\ Unopened /\ cut = 0
        /\ count1 = Len(ones) /\ count16 = Len(wides)
        /\ ans = Fresh /\ stream = <<>>
        /\ Counted(cnt, ones, wides)

Tabled == stage # "push" => TablesOf(hist) /\ Usable(hist, ones, wides)

Encoding ==
    stage = "encode" =>
        /\ Unopened /\ cut = 0
        /\ count16 > 0 => count1 = Len(ones)
        /\ CodedTo(hist, ones, wides, count1 + count16, ans, stream)

Streaming ==
    stage = "stream" =>
        /\ Unopened
        /\ \E u \in Words : /\ CodedTo(hist, ones, wides, 0, ans, u)
                            /\ Carries(stream, cut, tables, ans, u)

Right ==
    /\ \A i \in 1..Len(got1) : got1[i] = ones[i][2]
    /\ \A i \in 1..Len(got16) : \A k \in Lane : got16[i][k] = wides[i][k][2]

Decoding ==
    stage = "decode" /\ ~fail =>
        /\ Right
        /\ \E u \in Words : /\ CodedTo(hist, ones, wides, Len(got1) + Len(got16), ans, u)
                            /\ Holds(stream, pos, cut, u)

Noticed == (fail => cut > 0) /\ (stage = "refused" => fail)

Done == stage = "decoded" => ~fail /\ Right /\ cut = 0 /\ pos = Len(stream) /\ ans = Fresh

CodingInv ==
    /\ TypeOK /\ Histories /\ Laid
    /\ Pushing /\ Tabled /\ Encoding /\ Streaming /\ Decoding
    /\ Noticed /\ Done

LEMMA StatesAre == States = B..(B * B - 1) /\ LaneStates = [Lane -> B..(B * B - 1)] /\ Words = Seq(0..(B - 1))
BY DEF States, LaneStates, Words

LEMMA CodingInit == Init => CodingInv
<1> SUFFICES ASSUME Init PROVE CodingInv
  OBVIOUS
<1>1. ans = Fresh /\ Fresh \in LaneStates /\ <<>> \in Words
  BY FreshType DEF Init, Fresh
<1>2. /\ <<>> \in Seq(Pair) /\ <<>> \in Seq(WidePairs)
      /\ <<>> \in Seq(Symbols) /\ <<>> \in Seq([Lane -> Symbols]) /\ Len(<<>>) = 0
  BY EmptySeq
<1>3. cnt \in Tallied
  BY DEF Init, Tallied, Tallies
<1>4. TypeOK
  <2>1. Len(stack) = count1 + Lanes * count16
    BY <1>2, LaneProduct DEF Init
  <2>2. NContexts \in Nat
    BY SizeAssumption
  <2>3. ans \in [Lane -> IF fail THEN 0..(B * B - 1) ELSE B..(B * B - 1)]
    <3>1. fail = FALSE
      BY DEF Init
    <3>2. ans \in [Lane -> B..(B * B - 1)]
      BY <1>1, StatesAre
    <3> QED BY <3>1, <3>2
  <2>4. stream \in Seq(0..(B - 1)) /\ stack \in Seq(Pair) /\ pos \in 0..Len(stream) /\ tables \in 0..NContexts
    BY <1>1, <1>2, <2>2, StatesAre DEF Init
  <2>5. cnt \in [Contexts -> [Symbols -> Nat]]
    BY <1>3 DEF Tallied, Tallies
  <2> QED BY <2>1, <2>3, <2>4, <2>5 DEF Init, TypeOK
<1>5. Histories
  BY <1>2 DEF Init, Histories
<1>6. Laid
  BY <1>2, LaneProduct DEF Init, Laid, LaidOut
<1>7. Pushing
  BY <1>1, <1>2 DEF Init, Pushing, Unopened, Counted
<1>8. Tabled /\ Encoding /\ Streaming /\ Decoding /\ Noticed /\ Done
  BY DEF Init, Tabled, Encoding, Streaming, Decoding, Noticed, Done
<1> QED BY <1>4, <1>5, <1>6, <1>7, <1>8 DEF CodingInv

LEMMA PushKeeps ==
    ASSUME CodingInv, NEW e \in Pair, Push(e)
    PROVE  CodingInv'
<1>1. /\ stage = "push" /\ wides = <<>>
      /\ stack' = <<e>> \o stack /\ count1' = count1 + 1
      /\ cnt' = [cnt EXCEPT ![e[1]][e[2]] = @ + 1]
      /\ ones' = Append(ones, e)
      /\ stage' = stage /\ count16' = count16 /\ ans' = ans /\ hist' = hist /\ stream' = stream /\ wides' = wides
      /\ tables' = tables /\ pos' = pos /\ fail' = fail /\ got1' = got1 /\ got16' = got16 /\ cut' = cut
  BY DEF Push, decoderVars
<1>2. /\ Unopened /\ cut = 0 /\ count1 = Len(ones) /\ count16 = 0 /\ Len(wides) = 0
      /\ ans = Fresh /\ stream = <<>> /\ Counted(cnt, ones, wides)
  BY <1>1 DEF CodingInv, Pushing
<1>3. ones \in Seq(Pair) /\ wides \in Seq(WidePairs) /\ Len(ones) \in Nat
  BY DEF CodingInv, Histories
<1>4. LaidOut(stack', ones', count1', wides', count16')
  BY <1>1, <1>2, <1>3, LaidPush DEF CodingInv, Laid
<1>5. cnt' \in Tallied /\ Counted(cnt', ones', wides')
  <2>1. cnt \in Tallied
    BY DEF CodingInv, TypeOK, Tallied, Tallies
  <2> QED BY <1>1, <1>2, <1>3, <2>1, CountOne
<1>6. ones' \in Seq(Pair) /\ Len(ones') = Len(ones) + 1
  BY <1>1, <1>3, AppendProperties
<1>7. TypeOK'
  <2>1. stack' \in Seq(Pair) /\ Len(stack') = count1' + Lanes * count16'
    BY <1>4 DEF LaidOut
  <2> QED BY <1>1, <1>5, <2>1 DEF CodingInv, TypeOK, Tallied, Tallies
<1>8. Histories'
  BY <1>1, <1>2, <1>3, <1>6 DEF CodingInv, Histories
<1>9. Laid'
  BY <1>4 DEF Laid
<1>10. Pushing'
  BY <1>1, <1>2, <1>3, <1>5, <1>6 DEF Pushing, Unopened
<1>11. Tabled' /\ Encoding' /\ Streaming' /\ Decoding' /\ Done'
  BY <1>1 DEF Tabled, Encoding, Streaming, Decoding, Done
<1>12. Noticed'
  BY <1>1 DEF CodingInv, Noticed
<1> QED BY <1>7, <1>8, <1>9, <1>10, <1>11, <1>12 DEF CodingInv

LEMMA PushAllKeeps ==
    ASSUME CodingInv, NEW es \in WidePairs, PushAll(es)
    PROVE  CodingInv'
<1>1. /\ stage = "push"
      /\ stack' = [i \in 1..Lanes |-> es[i - 1]] \o stack /\ count16' = count16 + 1
      /\ cnt' = [x \in Contexts |-> [v \in Symbols |-> cnt[x][v] + Cardinality({k \in Lane : es[k] = <<x, v>>})]]
      /\ wides' = Append(wides, es)
      /\ stage' = stage /\ count1' = count1 /\ ans' = ans /\ hist' = hist /\ stream' = stream /\ ones' = ones
      /\ tables' = tables /\ pos' = pos /\ fail' = fail /\ got1' = got1 /\ got16' = got16 /\ cut' = cut
  BY DEF PushAll, decoderVars
<1>2. /\ Unopened /\ cut = 0 /\ count1 = Len(ones) /\ count16 = Len(wides)
      /\ ans = Fresh /\ stream = <<>> /\ Counted(cnt, ones, wides)
  BY <1>1 DEF CodingInv, Pushing
<1>3. ones \in Seq(Pair) /\ wides \in Seq(WidePairs) /\ Len(ones) \in Nat /\ Len(wides) \in Nat
  BY DEF CodingInv, Histories
<1>4. LaidOut(stack', ones', count1', wides', count16')
  BY <1>1, <1>2, <1>3, LaidPushAll DEF CodingInv, Laid
<1>5. cnt' \in Tallied /\ Counted(cnt', ones', wides')
  <2>1. cnt \in Tallied
    BY DEF CodingInv, TypeOK, Tallied, Tallies
  <2> QED BY <1>1, <1>2, <1>3, <2>1, CountAll
<1>6. wides' \in Seq(WidePairs) /\ Len(wides') = Len(wides) + 1
  BY <1>1, <1>3, AppendProperties
<1>7. TypeOK'
  <2>1. stack' \in Seq(Pair) /\ Len(stack') = count1' + Lanes * count16'
    BY <1>4 DEF LaidOut
  <2> QED BY <1>1, <1>5, <2>1 DEF CodingInv, TypeOK, Tallied, Tallies
<1>8. Histories'
  BY <1>1, <1>2, <1>3, <1>6 DEF CodingInv, Histories, Unopened
<1>9. Laid'
  BY <1>4 DEF Laid
<1>10. Pushing'
  BY <1>1, <1>2, <1>3, <1>5, <1>6 DEF Pushing, Unopened
<1>11. Tabled' /\ Encoding' /\ Streaming' /\ Decoding' /\ Done'
  BY <1>1 DEF Tabled, Encoding, Streaming, Decoding, Done
<1>12. Noticed'
  BY <1>1 DEF CodingInv, Noticed
<1> QED BY <1>7, <1>8, <1>9, <1>10, <1>11, <1>12 DEF CodingInv

LEMMA NormaliseKeeps ==
    ASSUME CodingInv, Normalise
    PROVE  CodingInv'
<1>1. /\ stage = "push" /\ stage' = "encode"
      /\ hist' = [c \in Contexts |-> Normalised(cnt[c])]
      /\ stack' = stack /\ count1' = count1 /\ count16' = count16 /\ cnt' = cnt /\ ans' = ans /\ stream' = stream
      /\ ones' = ones /\ wides' = wides
      /\ tables' = tables /\ pos' = pos /\ fail' = fail /\ got1' = got1 /\ got16' = got16 /\ cut' = cut
  BY DEF Normalise, decoderVars
<1>2. /\ Unopened /\ cut = 0 /\ count1 = Len(ones) /\ count16 = Len(wides)
      /\ ans = Fresh /\ stream = <<>> /\ Counted(cnt, ones, wides)
  BY <1>1 DEF CodingInv, Pushing
<1>3. ones \in Seq(Pair) /\ wides \in Seq(WidePairs)
  BY DEF CodingInv, Histories
<1>4. TablesOf(hist') /\ Usable(hist', ones, wides)
  <2>1. cnt \in Tallied
    BY DEF CodingInv, TypeOK, Tallied, Tallies
  <2> QED BY <1>1, <1>2, <1>3, <2>1, TablesAreUsable
<1>5. TypeOK'
  BY <1>1, <1>4 DEF CodingInv, TypeOK, TablesOf
<1>6. Histories' /\ Laid' /\ Noticed'
  BY <1>1 DEF CodingInv, Histories, Laid, Noticed
<1>7. Tabled'
  BY <1>1, <1>4 DEF Tabled
<1>8. Encoding'
  <2>1. CodedTo(hist', ones, wides, Entries(ones, wides), Fresh, <<>>)
    BY <1>3, CodingStarts
  <2>2. CodedTo(hist', ones', wides', count1' + count16', ans', stream')
    BY <1>1, <1>2, <2>1 DEF Entries
  <2> QED BY <1>1, <1>2, <2>2 DEF Encoding, Unopened
<1>9. Pushing' /\ Streaming' /\ Decoding' /\ Done'
  BY <1>1 DEF Pushing, Streaming, Decoding, Done
<1> QED BY <1>5, <1>6, <1>7, <1>8, <1>9 DEF CodingInv

LEMMA EncodeAllCodes ==
    ASSUME CodingInv, EncodeAll
    PROVE  /\ StepAll(hist, wides[count16], ans, stream, ans', stream')
           /\ LaidOut(stack', ones', count1', wides', count16')
<1> DEFINE es == [k \in Lane |-> stack[k + 1]]
           top == wides[count16]
           S == {k \in Lane : Emits(ans[k], Freq(es[k]))}
           full == Descending(S)
<1>1. /\ stage = "encode" /\ count16 > 0 /\ count16' = count16 - 1
      /\ stack' = SubSeq(stack, Lanes + 1, Len(stack))
      /\ stage' = stage /\ count1' = count1 /\ cnt' = cnt /\ hist' = hist /\ ones' = ones /\ wides' = wides
      /\ tables' = tables /\ pos' = pos /\ fail' = fail /\ got1' = got1 /\ got16' = got16 /\ cut' = cut
  BY DEF EncodeAll, decoderVars
<1>2. /\ stream' = Put(stream, full)
      /\ ans' = [k \in Lane |-> Coded(ans[k], Freq(es[k]), Start(es[k]))]
  BY DEF EncodeAll
<1>3. /\ Unopened /\ cut = 0 /\ count1 = Len(ones)
      /\ CodedTo(hist, ones, wides, count1 + count16, ans, stream)
      /\ TablesOf(hist) /\ Usable(hist, ones, wides)
  BY <1>1 DEF CodingInv, Encoding, Tabled
<1>4. /\ ones \in Seq(Pair) /\ wides \in Seq(WidePairs) /\ Len(ones) \in Nat /\ Len(wides) \in Nat
      /\ count1 \in 0..Len(ones) /\ count16 \in 0..Len(wides)
  BY DEF CodingInv, Histories
<1>5. /\ \A k \in Lane : stack[k + 1] = wides[count16][k]
      /\ LaidOut(stack', ones', count1', wides', count16')
  <2>1. LaidOut(stack, ones, count1, wides, count16)
    BY DEF CodingInv, Laid
  <2>2. count1 \in Nat /\ count16 \in Nat
    BY <1>4
  <2>3. /\ \A k \in Lane : stack[k + 1] = wides[count16][k]
        /\ LaidOut(SubSeq(stack, Lanes + 1, Len(stack)), ones, count1, wides, count16 - 1)
    BY <1>1, <2>1, <2>2, LaidTakeAll
  <2> QED BY <1>1, <2>3
<1>6. es = top
  <2>1. top \in WidePairs
    BY <1>1, <1>4, ElementOfSeq
  <2>2. top = [k \in Lane |-> top[k]]
    BY <2>1 DEF WidePairs
  <2>3. \A k \in Lane : stack[k + 1] = top[k]
    BY <1>5
  <2> HIDE DEF top
  <2>4. es = [k \in Lane |-> top[k]]
    BY <2>3
  <2> QED BY <2>2, <2>4
<1>7. StepAll(hist, top, ans, stream, ans', stream')
  <2>1. S = Full(hist, top, ans)
    BY <1>6 DEF Full, Freq, FreqIn
  <2>2. ans' = CodedAll(hist, top, ans)
    BY <1>2, <1>6 DEF CodedAll, Freq, FreqIn, Start, StartIn
  <2>3. stream' = stream \o LowWords(ans, full)
    BY <1>2 DEF Put, LowWords
  <2> QED BY <2>1, <2>2, <2>3 DEF StepAll
<1> QED BY <1>5, <1>7

LEMMA EncodeAllKeeps ==
    ASSUME CodingInv, EncodeAll
    PROVE  CodingInv'
<1> DEFINE top == wides[count16]
           t == count1 + count16
<1>1. /\ stage = "encode" /\ count16 > 0 /\ count16' = count16 - 1
      /\ stack' = SubSeq(stack, Lanes + 1, Len(stack))
      /\ stage' = stage /\ count1' = count1 /\ cnt' = cnt /\ hist' = hist /\ ones' = ones /\ wides' = wides
      /\ tables' = tables /\ pos' = pos /\ fail' = fail /\ got1' = got1 /\ got16' = got16 /\ cut' = cut
  BY DEF EncodeAll, decoderVars
<1>3. /\ Unopened /\ cut = 0 /\ count1 = Len(ones)
      /\ CodedTo(hist, ones, wides, count1 + count16, ans, stream)
      /\ TablesOf(hist) /\ Usable(hist, ones, wides)
  BY <1>1 DEF CodingInv, Encoding, Tabled
<1>4. /\ ones \in Seq(Pair) /\ wides \in Seq(WidePairs) /\ Len(ones) \in Nat /\ Len(wides) \in Nat
      /\ count1 \in 0..Len(ones) /\ count16 \in 0..Len(wides)
  BY DEF CodingInv, Histories
<1>5. LaidOut(stack', ones', count1', wides', count16')
  BY EncodeAllCodes
<1>7. StepAll(hist, top, ans, stream, ans', stream')
  BY EncodeAllCodes
<1>8. Step(hist, ones, wides, t, ans, stream, ans', stream')
  <2>1. ~(t <= Len(ones)) /\ t - Len(ones) = count16
    BY <1>1, <1>3, <1>4
  <2> QED BY <1>7, <2>1 DEF Step
<1>9. CodedTo(hist, ones, wides, t - 1, ans', stream')
  <2>1. t \in 1..Entries(ones, wides)
    BY <1>1, <1>4 DEF Entries
  <2> HIDE DEF t
  <2>2. CodedTo(hist, ones, wides, t, ans, stream)
    BY <1>3 DEF t
  <2> QED BY <1>3, <1>4, <1>8, <2>1, <2>2, CodingGrows
<1>10. CodedTo(hist', ones', wides', count1' + count16', ans', stream')
  <2>1. t - 1 = count1' + count16'
    BY <1>1, <1>4
  <2> QED BY <1>1, <1>9, <2>1
<1>11. ans' \in LaneStates /\ stream' \in Words
  <2>1. t - 1 \in 0..Entries(ones, wides)
    BY <1>1, <1>4 DEF Entries
  <2> QED BY <1>4, <1>9, <2>1, CodedType
<1>12. TypeOK'
  <2>1. stack' \in Seq(Pair) /\ Len(stack') = count1' + Lanes * count16'
    BY <1>5 DEF LaidOut
  <2>2. fail' = FALSE /\ pos' = 0
    BY <1>1, <1>3 DEF Unopened
  <2>3. ans' \in [Lane -> IF fail' THEN 0..(B * B - 1) ELSE B..(B * B - 1)]
    <3>1. ans' \in [Lane -> B..(B * B - 1)]
      BY <1>11, StatesAre
    <3> QED BY <2>2, <3>1
  <2>4. stream' \in Seq(0..(B - 1)) /\ pos' \in 0..Len(stream')
    BY <1>11, <2>2, StatesAre
  <2> QED BY <1>1, <2>1, <2>2, <2>3, <2>4 DEF CodingInv, TypeOK
<1>13. Histories'
  BY <1>1, <1>4 DEF CodingInv, Histories
<1>14. Laid'
  BY <1>5 DEF Laid
<1>15. Encoding'
  BY <1>1, <1>3, <1>10 DEF Encoding, Unopened
<1>16. Tabled' /\ Noticed'
  BY <1>1 DEF CodingInv, Tabled, Noticed
<1>17. Pushing' /\ Streaming' /\ Decoding' /\ Done'
  BY <1>1 DEF Pushing, Streaming, Decoding, Done
<1> QED BY <1>12, <1>13, <1>14, <1>15, <1>16, <1>17 DEF CodingInv

LEMMA EncodeCodes ==
    ASSUME CodingInv, Encode
    PROVE  /\ StepOne(hist, ones[count1], ans, stream, ans', stream')
           /\ LaidOut(stack', ones', count1', wides', count16')
<1> DEFINE e == Head(stack)
<1>1. /\ stage = "encode" /\ count16 = 0 /\ count1 > 0 /\ count1' = count1 - 1
      /\ stack' = Tail(stack)
      /\ stage' = stage /\ count16' = count16 /\ cnt' = cnt /\ hist' = hist /\ ones' = ones /\ wides' = wides
      /\ tables' = tables /\ pos' = pos /\ fail' = fail /\ got1' = got1 /\ got16' = got16 /\ cut' = cut
  BY DEF Encode, EncodeIf, decoderVars
<1>2. /\ stream' = IF Emits(ans[0], Freq(e)) THEN Append(stream, ans[0] % B) ELSE stream
      /\ ans' = [ans EXCEPT ![0] = Coded(ans[0], Freq(e), Start(e))]
  BY DEF Encode, EncodeIf
<1>3. /\ Unopened /\ cut = 0
      /\ CodedTo(hist, ones, wides, count1 + count16, ans, stream)
      /\ TablesOf(hist) /\ Usable(hist, ones, wides)
  BY <1>1 DEF CodingInv, Encoding, Tabled
<1>4. /\ ones \in Seq(Pair) /\ wides \in Seq(WidePairs) /\ Len(ones) \in Nat /\ Len(wides) \in Nat
      /\ count1 \in 0..Len(ones) /\ count16 \in 0..Len(wides)
  BY DEF CodingInv, Histories
<1>5. /\ e = ones[count1]
      /\ LaidOut(stack', ones', count1', wides', count16')
  <2>1. LaidOut(stack, ones, count1, wides, 0)
    BY <1>1 DEF CodingInv, Laid
  <2>2. count1 \in Nat
    BY <1>4
  <2> QED BY <1>1, <2>1, <2>2, LaidTake
<1>6. StepOne(hist, ones[count1], ans, stream, ans', stream')
  BY <1>2, <1>5 DEF StepOne, Freq, FreqIn, Start, StartIn
<1> QED BY <1>5, <1>6

LEMMA EncodeKeeps ==
    ASSUME CodingInv, Encode
    PROVE  CodingInv'
<1>1. /\ stage = "encode" /\ count16 = 0 /\ count1 > 0 /\ count1' = count1 - 1
      /\ stack' = Tail(stack)
      /\ stage' = stage /\ count16' = count16 /\ cnt' = cnt /\ hist' = hist /\ ones' = ones /\ wides' = wides
      /\ tables' = tables /\ pos' = pos /\ fail' = fail /\ got1' = got1 /\ got16' = got16 /\ cut' = cut
  BY DEF Encode, EncodeIf, decoderVars
<1>3. /\ Unopened /\ cut = 0
      /\ CodedTo(hist, ones, wides, count1 + count16, ans, stream)
      /\ TablesOf(hist) /\ Usable(hist, ones, wides)
  BY <1>1 DEF CodingInv, Encoding, Tabled
<1>4. /\ ones \in Seq(Pair) /\ wides \in Seq(WidePairs) /\ Len(ones) \in Nat /\ Len(wides) \in Nat
      /\ count1 \in 0..Len(ones) /\ count16 \in 0..Len(wides)
  BY DEF CodingInv, Histories
<1>5. LaidOut(stack', ones', count1', wides', count16')
  BY EncodeCodes
<1>6. StepOne(hist, ones[count1], ans, stream, ans', stream')
  BY EncodeCodes
<1>7. Step(hist, ones, wides, count1, ans, stream, ans', stream')
  BY <1>4, <1>6 DEF Step
<1>8. CodedTo(hist, ones, wides, count1 - 1, ans', stream')
  <2>1. count1 \in 1..Entries(ones, wides)
    BY <1>1, <1>4 DEF Entries
  <2>2. count1 + count16 = count1
    BY <1>1, <1>4
  <2>3. CodedTo(hist, ones, wides, count1, ans, stream)
    BY <1>3, <2>2
  <2> QED BY <1>3, <1>4, <1>7, <2>1, <2>3, CodingGrows
<1>9. CodedTo(hist', ones', wides', count1' + count16', ans', stream')
  <2>1. count1 - 1 = count1' + count16'
    BY <1>1, <1>4
  <2> QED BY <1>1, <1>8, <2>1
<1>10. ans' \in LaneStates /\ stream' \in Words
  <2>1. count1 - 1 \in 0..Entries(ones, wides)
    BY <1>1, <1>4 DEF Entries
  <2> QED BY <1>4, <1>8, <2>1, CodedType
<1>11. TypeOK'
  <2>1. stack' \in Seq(Pair) /\ Len(stack') = count1' + Lanes * count16'
    BY <1>5 DEF LaidOut
  <2>2. fail' = FALSE /\ pos' = 0
    BY <1>1, <1>3 DEF Unopened
  <2>3. ans' \in [Lane -> IF fail' THEN 0..(B * B - 1) ELSE B..(B * B - 1)]
    <3>1. ans' \in [Lane -> B..(B * B - 1)]
      BY <1>10, StatesAre
    <3> QED BY <2>2, <3>1
  <2>4. stream' \in Seq(0..(B - 1)) /\ pos' \in 0..Len(stream')
    BY <1>10, <2>2, StatesAre
  <2> QED BY <1>1, <2>1, <2>2, <2>3, <2>4 DEF CodingInv, TypeOK
<1>12. Histories'
  BY <1>1, <1>4 DEF CodingInv, Histories
<1>13. Laid'
  BY <1>5 DEF Laid
<1>14. Encoding'
  BY <1>1, <1>3, <1>9 DEF Encoding, Unopened
<1>15. Tabled' /\ Noticed'
  BY <1>1 DEF CodingInv, Tabled, Noticed
<1>16. Pushing' /\ Streaming' /\ Decoding' /\ Done'
  BY <1>1 DEF Pushing, Streaming, Decoding, Done
<1> QED BY <1>11, <1>12, <1>13, <1>14, <1>15, <1>16 DEF CodingInv

LEMMA FlushKeeps ==
    ASSUME CodingInv, Flush
    PROVE  CodingInv'
<1>1. /\ stage = "encode" /\ count16 = 0 /\ count1 = 0 /\ stage' = "stream" /\ tables' = NContexts
      /\ stack' = stack /\ count1' = count1 /\ count16' = count16 /\ cnt' = cnt /\ ans' = ans /\ hist' = hist
      /\ ones' = ones /\ wides' = wides
      /\ pos' = pos /\ fail' = fail /\ got1' = got1 /\ got16' = got16 /\ cut' = cut
  BY DEF Flush
<1>2. stream' = Reverse(stream \o StateWords(ans))
  BY DEF Flush, StateWords
<1>3. /\ Unopened /\ cut = 0 /\ CodedTo(hist, ones, wides, 0, ans, stream)
      /\ TablesOf(hist) /\ Usable(hist, ones, wides)
  BY <1>1 DEF CodingInv, Encoding, Tabled
<1>4. /\ ones \in Seq(Pair) /\ wides \in Seq(WidePairs) /\ Len(ones) \in Nat /\ Len(wides) \in Nat
  BY DEF CodingInv, Histories
<1>5. ans \in LaneStates /\ stream \in Words
  <2>1. 0 \in 0..Entries(ones, wides)
    BY <1>4 DEF Entries
  <2> QED BY <1>3, <1>4, <2>1, CodedType
<1>6. stream' \in Words /\ Carries(stream', 0, NContexts, ans, stream)
  BY <1>2, <1>5, FlushCarries
<1>7. TypeOK'
  <2>1. fail' = FALSE /\ pos' = 0
    BY <1>1, <1>3 DEF Unopened
  <2>2. stream' \in Seq(0..(B - 1)) /\ pos' \in 0..Len(stream')
    BY <1>6, <2>1, StatesAre
  <2>3. tables' \in 0..NContexts
    BY <1>1, SizeAssumption
  <2> QED BY <1>1, <2>2, <2>3 DEF CodingInv, TypeOK
<1>8. Streaming'
  <2>1. CodedTo(hist', ones', wides', 0, ans', stream) /\ Carries(stream', cut', tables', ans', stream)
    BY <1>1, <1>3, <1>6
  <2>2. Unopened'
    BY <1>1, <1>3 DEF Unopened
  <2> QED BY <1>5, <2>1, <2>2 DEF Streaming
<1>9. Histories' /\ Laid' /\ Tabled' /\ Noticed'
  BY <1>1 DEF CodingInv, Histories, Laid, Tabled, Noticed
<1>10. Pushing' /\ Encoding' /\ Decoding' /\ Done'
  BY <1>1 DEF Pushing, Encoding, Decoding, Done
<1> QED BY <1>7, <1>8, <1>9, <1>10 DEF CodingInv

LEMMA CutKeeps ==
    ASSUME CodingInv, NEW n \in 1..(NContexts + Len(stream)), Cut(n)
    PROVE  CodingInv'
<1>1. /\ stage = "stream" /\ cut = 0 /\ cut' = n
      /\ stream' = SubSeq(stream, 1, Len(stream) - n)
      /\ tables' = Min({NContexts, NContexts + Len(stream) - n})
      /\ stage' = stage /\ stack' = stack /\ count1' = count1 /\ count16' = count16 /\ cnt' = cnt /\ ans' = ans
      /\ hist' = hist /\ ones' = ones /\ wides' = wides
      /\ pos' = pos /\ fail' = fail /\ got1' = got1 /\ got16' = got16
  BY DEF Cut
<1>2. Unopened /\ TablesOf(hist) /\ Usable(hist, ones, wides)
  BY <1>1 DEF CodingInv, Streaming, Tabled
<1>3. PICK u \in Words : CodedTo(hist, ones, wides, 0, ans, u) /\ Carries(stream, cut, tables, ans, u)
  BY <1>1 DEF CodingInv, Streaming
<1>4. stream \in Words /\ n \in Nat /\ NContexts \in Nat /\ Len(stream) \in Nat /\ Len(u) \in Nat
      /\ tables \in 0..NContexts /\ Lanes \in Nat
  BY StatesAre, SizeAssumption DEF CodingInv, TypeOK, Words
<1>5. stream' \in Words /\ tables' \in 0..NContexts /\ Carries(stream', n, tables', ans, u)
  <2>1. CASE tables = NContexts
    <3>1. Carries(stream, 0, NContexts, ans, u)
      BY <1>1, <1>3, <2>1
    <3> QED BY <1>1, <1>4, <3>1, CutCarries
  <2>2. CASE tables # NContexts
    <3>1. tables < NContexts
      BY <1>4, <2>2
    <3>2. Len(stream) = 0 /\ 0 + Len(stream) + tables = 2 * Lanes + Len(u) + NContexts
      BY <1>1, <1>3, <3>1 DEF Carries
    <3> QED BY <1>4, <3>1, <3>2
  <2> QED BY <2>1, <2>2
<1>6. TypeOK'
  <2>1. fail' = FALSE /\ pos' = 0
    BY <1>1, <1>2 DEF Unopened
  <2>2. stream' \in Seq(0..(B - 1)) /\ pos' \in 0..Len(stream')
    BY <1>5, <2>1, StatesAre
  <2> QED BY <1>1, <1>5, <2>2 DEF CodingInv, TypeOK
<1>7. Streaming'
  <2>1. CodedTo(hist', ones', wides', 0, ans', u) /\ Carries(stream', cut', tables', ans', u)
    BY <1>1, <1>3, <1>5
  <2>2. Unopened'
    BY <1>1, <1>2 DEF Unopened
  <2> QED BY <2>1, <2>2 DEF Streaming
<1>8. Histories' /\ Laid' /\ Tabled' /\ Noticed'
  BY <1>1, <1>2, <1>4 DEF CodingInv, Histories, Laid, Tabled, Noticed, Unopened
<1>9. Pushing' /\ Encoding' /\ Decoding' /\ Done'
  BY <1>1 DEF Pushing, Encoding, Decoding, Done
<1> QED BY <1>6, <1>7, <1>8, <1>9 DEF CodingInv

LEMMA DecoderTypes ==
    ASSUME CodingInv
    PROVE  /\ stream \in Words /\ pos \in 0..Len(stream) /\ Len(stream) \in Nat
           /\ fail \in BOOLEAN
           /\ ans \in [Lane -> 0..(B * B - 1)]
           /\ ones \in Seq(Pair) /\ wides \in Seq(WidePairs)
           /\ got1 \in Seq(Symbols) /\ got16 \in Seq([Lane -> Symbols])
           /\ Len(ones) \in Nat /\ Len(wides) \in Nat /\ Len(got1) \in Nat /\ Len(got16) \in Nat
           /\ cut \in Nat
<1>1. stream \in Words /\ pos \in 0..Len(stream) /\ Len(stream) \in Nat
  BY StatesAre DEF CodingInv, TypeOK, Words
<1>2. fail \in BOOLEAN
  BY DEF CodingInv, TypeOK
<1>3. ans \in [Lane -> 0..(B * B - 1)]
  <2>1. ans \in [Lane -> IF fail THEN 0..(B * B - 1) ELSE B..(B * B - 1)]
    BY DEF CodingInv, TypeOK
  <2>2. \A x \in B..(B * B - 1) : x \in 0..(B * B - 1)
    BY Sizes
  <2> QED BY <2>1, <2>2
<1>4. /\ ones \in Seq(Pair) /\ wides \in Seq(WidePairs)
      /\ got1 \in Seq(Symbols) /\ got16 \in Seq([Lane -> Symbols]) /\ cut \in Nat
  BY DEF CodingInv, Histories
<1>5. Len(ones) \in Nat /\ Len(wides) \in Nat /\ Len(got1) \in Nat /\ Len(got16) \in Nat
  BY <1>4
<1> QED BY <1>1, <1>2, <1>3, <1>4, <1>5

LEMMA DecoderReads ==
    ASSUME CodingInv
    PROVE  /\ \A i \in Nat : i > 0 => Word(i) \in 0..(B - 1)
           /\ \A n \in Nat : /\ Advanced(n) \in 0..Len(stream)
                             /\ pos + n <= Len(stream) => Advanced(n) = pos + n
<1>1. stream \in Words /\ pos \in 0..Len(stream) /\ Len(stream) \in Nat
  BY DecoderTypes
<1>2. ASSUME NEW i \in Nat, i > 0 PROVE Word(i) \in 0..(B - 1)
  <2>1. CASE pos + i <= Len(stream)
    <3>1. pos + i \in 1..Len(stream)
      BY <1>1, <1>2, <2>1
    <3>2. stream[pos + i] \in 0..(B - 1)
      BY <1>1, <3>1, ElementOfSeq DEF Words
    <3> QED BY <2>1, <3>2 DEF Word
  <2>2. CASE ~(pos + i <= Len(stream))
    BY <2>2, Sizes DEF Word
  <2> QED BY <2>1, <2>2
<1>3. ASSUME NEW n \in Nat
      PROVE  Advanced(n) \in 0..Len(stream) /\ (pos + n <= Len(stream) => Advanced(n) = pos + n)
  <2>1. Advanced(n) = IF pos + n <= Len(stream) THEN pos + n ELSE Len(stream)
    BY <1>1, MinOfTwo DEF Advanced
  <2> QED BY <1>1, <2>1
<1> QED BY <1>2, <1>3

LEMMA OpenKeeps ==
    ASSUME CodingInv, Open
    PROVE  CodingInv'
<1>1. /\ stage = "stream"
      /\ fail' = (tables < NContexts \/ Marked(2 * Lanes))
      /\ pos' = IF tables < NContexts THEN pos ELSE Advanced(2 * Lanes)
      /\ ans' = [k \in Lane |-> IF tables < NContexts \/ 2 * k > Len(stream) THEN B
                                ELSE Word(2 * k + 1) * B + Word(2 * k + 2)]
      /\ stage' = IF fail' THEN "refused" ELSE "decode"
      /\ stack' = stack /\ count1' = count1 /\ count16' = count16 /\ cnt' = cnt /\ hist' = hist /\ stream' = stream
      /\ tables' = tables /\ ones' = ones /\ wides' = wides /\ cut' = cut
      /\ got1' = got1 /\ got16' = got16
  BY DEF Open, encoderVars
<1>2. ~fail /\ pos = 0 /\ got1 = <<>> /\ got16 = <<>> /\ TablesOf(hist) /\ Usable(hist, ones, wides)
  BY <1>1 DEF CodingInv, Streaming, Tabled, Unopened
<1>3. PICK u \in Words : CodedTo(hist, ones, wides, 0, ans, u) /\ Carries(stream, cut, tables, ans, u)
  BY <1>1 DEF CodingInv, Streaming
<1>4. tables \in 0..NContexts /\ NContexts \in Nat /\ Lanes \in Nat \ {0} /\ 2 * Lanes \in Nat /\ B \in Nat \ {0}
      /\ B * B \in Nat
  BY SizeAssumption, SymbolSizes, Sizes DEF CodingInv, TypeOK
<1>5. ans \in LaneStates
  <2>1. 0 \in 0..Entries(ones, wides)
    BY DecoderTypes DEF Entries
  <2> QED BY <1>3, <2>1, CodedType, DecoderTypes
<1>6. fail' <=> (tables < NContexts \/ 2 * Lanes > Len(stream))
  <2>1. pos + 2 * Lanes = 2 * Lanes
    BY <1>2, <1>4
  <2> QED BY <1>1, <1>2, <2>1 DEF Marked
<1>7. IF fail' THEN cut > 0
               ELSE /\ \A k \in Lane : /\ 2 * k + 2 <= Len(stream)
                                       /\ stream[2 * k + 1] * B + stream[2 * k + 2] = ans[k]
                    /\ Holds(stream, 2 * Lanes, cut, u)
  BY <1>3, <1>4, <1>5, <1>6, OpenHolds, DecoderTypes
<1>8. ASSUME NEW k \in Lane PROVE ans'[k] \in 0..(B * B - 1) /\ (~fail' => ans'[k] = ans[k])
  <2>0. k \in Nat
    BY <1>4 DEF Lane
  <2>1. CASE tables < NContexts \/ 2 * k > Len(stream)
    <3>1. ans'[k] = B
      BY <1>1, <2>1
    <3>2. fail'
      <4>1. 2 * k > Len(stream) => 2 * Lanes > Len(stream)
        BY <1>4, <2>0, DecoderTypes DEF Lane
      <4> QED BY <1>6, <2>1, <4>1
    <3>3. B \in 0..(B * B - 1)
      <4>1. B \in States
        BY FreshType, SymbolSizes DEF Fresh, LaneStates, Lane
      <4> QED BY <1>4, <4>1 DEF States
    <3> QED BY <3>1, <3>2, <3>3
  <2>2. CASE ~(tables < NContexts \/ 2 * k > Len(stream))
    <3> DEFINE x == Word(2 * k + 1)
               y == Word(2 * k + 2)
    <3>1. ans'[k] = x * B + y
      BY <1>1, <2>2
    <3>2. x \in 0..(B - 1) /\ y \in 0..(B - 1)
      <4>1. 2 * k + 1 \in Nat /\ 2 * k + 1 > 0 /\ 2 * k + 2 \in Nat /\ 2 * k + 2 > 0
        BY <2>0
      <4> QED BY <4>1, DecoderReads
    <3>3. x * B + y \in 0..(B * B - 1)
      <4> HIDE DEF x, y
      <4>1. x \in Nat /\ x + 1 <= B
        BY <1>4, <3>2
      <4>2. B * (x + 1) <= B * B /\ B * (x + 1) = x * B + B /\ x * B \in Nat
        BY <1>4, <4>1, ProductGrows
      <4> DEFINE z == x * B
      <4>3. z \in Nat /\ z + B <= B * B
        BY <4>2
      <4> HIDE DEF z
      <4>4. z + y \in 0..(B * B - 1)
        BY <1>4, <3>2, <4>3
      <4> QED BY <4>4 DEF z
    <3>4. ASSUME ~fail' PROVE x * B + y = ans[k]
      <4>1. 2 * k + 2 <= Len(stream) /\ stream[2 * k + 1] * B + stream[2 * k + 2] = ans[k]
        BY <1>7, <3>4
      <4>2. x = stream[2 * k + 1] /\ y = stream[2 * k + 2]
        BY <1>2, <2>0, <4>1, DecoderTypes DEF Word
      <4> QED BY <4>1, <4>2
    <3> HIDE DEF x, y
    <3> QED BY <3>1, <3>3, <3>4
  <2> QED BY <2>1, <2>2
<1>9. ~fail' => ans' = ans /\ ans \in [Lane -> B..(B * B - 1)]
  <2>1. ans = [k \in Lane |-> ans[k]] /\ ans \in [Lane -> B..(B * B - 1)]
    BY <1>5, StatesAre
  <2>2. ans' = [k \in Lane |-> ans'[k]]
    BY <1>1
  <2> QED BY <1>8, <2>1, <2>2
<1>10. ans' \in [Lane -> 0..(B * B - 1)]
  <2>1. ans' = [k \in Lane |-> ans'[k]]
    BY <1>1
  <2> QED BY <1>8, <2>1
<1>11. TypeOK'
  <2>1. fail' \in BOOLEAN
    BY <1>1
  <2>2. ans' \in [Lane -> IF fail' THEN 0..(B * B - 1) ELSE B..(B * B - 1)]
    BY <1>9, <1>10
  <2>3. pos' \in 0..Len(stream')
    BY <1>1, <1>4, DecoderTypes, DecoderReads
  <2>4. stage' \in {"push", "encode", "stream", "decode", "decoded", "refused"}
    BY <1>1
  <2> QED BY <1>1, <1>2, <2>1, <2>2, <2>3, <2>4 DEF CodingInv, TypeOK, TablesOf
<1>12. Decoding'
  <2> SUFFICES ASSUME ~fail'
               PROVE  Right' /\ \E w \in Words :
                                  /\ CodedTo(hist, ones, wides, Len(got1') + Len(got16'), ans', w)
                                  /\ Holds(stream, pos', cut, w)
    BY <1>1 DEF Decoding
  <2>1. Len(got1') + Len(got16') = 0 /\ Len(got1') = 0 /\ Len(got16') = 0
    BY <1>1, <1>2
  <2>2. Right'
    BY <1>1, <2>1 DEF Right
  <2>3. CodedTo(hist, ones, wides, Len(got1') + Len(got16'), ans', u)
    BY <1>3, <1>9, <2>1
  <2>4. pos' = 2 * Lanes
    <3>1. ~(tables < NContexts) /\ ~(2 * Lanes > Len(stream))
      BY <1>6
    <3>2. pos' = Advanced(2 * Lanes) /\ pos + 2 * Lanes = 2 * Lanes
      BY <1>1, <1>2, <1>4, <3>1
    <3>3. pos + 2 * Lanes <= Len(stream)
      BY <1>4, <3>1, <3>2, DecoderTypes
    <3> QED BY <1>4, <3>2, <3>3, DecoderReads
  <2>5. Holds(stream, pos', cut, u)
    BY <1>7, <2>4
  <2> QED BY <2>2, <2>3, <2>5
<1>13. Noticed'
  BY <1>1, <1>7 DEF Noticed
<1>14. Tabled'
  BY <1>1, <1>2 DEF Tabled
<1>15. Histories' /\ Laid'
  BY <1>1 DEF CodingInv, Histories, Laid
<1>16. Pushing' /\ Encoding' /\ Streaming' /\ Done'
  BY <1>1 DEF Pushing, Encoding, Streaming, Done
<1> QED BY <1>11, <1>12, <1>13, <1>14, <1>15, <1>16 DEF CodingInv

LEMMA DecodeKeeps ==
    ASSUME CodingInv, Decode
    PROVE  CodingInv'
<1> DEFINE e == ones[Len(got1) + 1]
<1>1. /\ stage = "decode" /\ Len(got1) < Len(ones)
      /\ stage' = stage /\ got16' = got16
      /\ stack' = stack /\ count1' = count1 /\ count16' = count16 /\ cnt' = cnt /\ hist' = hist /\ stream' = stream
      /\ tables' = tables /\ ones' = ones /\ wides' = wides /\ cut' = cut
  BY DEF Decode, encoderVars
<1> DEFINE V(c) == Lookup(hist[c], ans[0] % NormSum)
           X(c) == Uncoded(ans[0], hist[c][V(c)], Below(hist[c], V(c)))
           N(c) == IF Wants(X(c)) THEN 1 ELSE 0
<1>2. PICK c \in ContextsOf({e[1]}) :
         /\ got1' = Append(got1, V(c))
         /\ ans' = [ans EXCEPT ![0] = Refilled(X(c), Word(1))]
         /\ fail' = Marked(N(c))
         /\ pos' = Advanced(N(c))
  BY DEF Decode
<1>3. TablesOf(hist) /\ Usable(hist, ones, wides)
  BY <1>1 DEF CodingInv, Tabled
<1>4. e \in Pair /\ Len(got16) = 0 /\ Len(got1) + 1 \in 1..Len(ones)
  <2>1. Len(got1) + 1 \in 1..Len(ones)
    <3>1. Len(got1) \in Nat /\ Len(ones) \in Nat
      BY DecoderTypes
    <3> QED BY <1>1, <3>1
  <2>2. Len(got16) = 0
    BY <1>1, DecoderTypes DEF CodingInv, Histories
  <2>3. e \in Pair
    BY <2>1, DecoderTypes, ElementOfSeq
  <2> QED BY <2>1, <2>2, <2>3
<1>5. c \in Contexts /\ (~fail => c = e[1])
  BY <1>2, <1>4 DEF ContextsOf, Pair
<1>6. V(c) \in Symbols /\ Refilled(X(c), Word(1)) \in 0..(B * B - 1)
  <2>1. Table(hist[c])
    BY <1>3, <1>5 DEF TablesOf, Table
  <2>2. 0 \in Lane
    BY SymbolSizes DEF Lane
  <2>3. ans[0] \in 0..(B * B - 1) /\ Word(1) \in 0..(B - 1)
    BY <2>2, DecoderTypes, DecoderReads
  <2> QED BY <2>1, <2>3, LostInRange
<1>7. N(c) \in Nat /\ pos' \in 0..Len(stream)
  <2>1. N(c) \in Nat
    OBVIOUS
  <2> QED BY <1>2, <2>1, DecoderReads
<1> HIDE DEF V, X, N
<1>8. ans' \in [Lane -> 0..(B * B - 1)]
  BY <1>2, <1>6, DecoderTypes
<1>9. /\ got1' \in Seq(Symbols) /\ Len(got1') = Len(got1) + 1
      /\ got1'[Len(got1) + 1] = V(c) /\ \A i \in 1..Len(got1) : got1'[i] = got1[i]
  BY <1>2, <1>6, AppendProperties, DecoderTypes
<1>10. fail' = (fail \/ pos + N(c) > Len(stream))
  BY <1>2 DEF Marked
<1>11. ASSUME ~fail
       PROVE  IF pos + N(c) > Len(stream) THEN cut > 0
              ELSE /\ ans' \in LaneStates /\ V(c) = e[2]
                   /\ \E u \in Words : /\ CodedTo(hist, ones, wides, Len(got1) + 1, ans', u)
                                        /\ Holds(stream, pos + N(c), cut, u)
  <2> DEFINE t == Len(got1)
  <2>1. PICK w \in Words : CodedTo(hist, ones, wides, t, ans, w) /\ Holds(stream, pos, cut, w)
    <3>1. PICK w \in Words : CodedTo(hist, ones, wides, Len(got1) + Len(got16), ans, w) /\ Holds(stream, pos, cut, w)
      BY <1>1, <1>11 DEF CodingInv, Decoding
    <3>2. Len(got1) + Len(got16) = t
      BY <1>4, DecoderTypes
    <3> QED BY <3>1, <3>2
  <2>2. /\ t \in 0..Entries(ones, wides) /\ t # Entries(ones, wides)
        /\ t + 1 \in 0..Entries(ones, wides) /\ t + 1 <= Len(ones)
    <3>1. Len(got1) \in Nat /\ Len(ones) \in Nat /\ Len(wides) \in Nat
      BY DecoderTypes
    <3> QED BY <1>1, <3>1 DEF Entries
  <2>3. PICK a \in LaneStates, u \in Words :
           CodedTo(hist, ones, wides, t + 1, a, u) /\ Step(hist, ones, wides, t + 1, a, u, ans, w)
    BY <2>1, <2>2, CodingShrinks, DecoderTypes
  <2>4. StepOne(hist, e, a, u, ans, w)
    BY <2>2, <2>3 DEF Step
  <2>5. Codable(hist, e)
    BY <1>3, <1>4 DEF Usable
  <2> DEFINE x == Undone(hist, e, ans[0])
             n == IF Wants(x) THEN 1 ELSE 0
  <2>6. /\ Lookup(hist[e[1]], ans[0] % NormSum) = e[2]
        /\ Len(w) = Len(u) + n
        /\ \A i \in 1..Len(u) : w[i] = u[i]
        /\ Restores(x, w[Len(w)], a[0])
        /\ [ans EXCEPT ![0] = a[0]] = a
    <3>1. a \in LaneStates /\ u \in Words
      BY <2>3
    <3> HIDE DEF e
    <3>2. /\ Lookup(hist[e[1]], ans[0] % NormSum) = e[2]
          /\ \A i \in 1..Len(u) : w[i] = u[i]
          /\ [ans EXCEPT ![0] = a[0]] = a
      BY <2>4, <2>5, <3>1, OneBack
    <3>3. Len(w) = Len(u) + n
      BY <2>4, <2>5, <3>1, OneBack
    <3>4. Restores(x, w[Len(w)], a[0])
      BY <2>4, <2>5, <3>1, OneBack
    <3> QED BY <3>2, <3>3, <3>4
  <2>7. V(c) = e[2] /\ X(c) = x
    BY <1>5, <1>11, <2>6 DEF V, X, Undone, FreqIn, StartIn
  <2>8. N(c) = n /\ n \in Nat
    BY <2>7 DEF N
  <2> HIDE DEF x
  <2>9. /\ pos + n <= Len(stream) => /\ Holds(stream, pos + n, cut, u)
                                     /\ \A i \in 0..(n - 1) : /\ pos + i + 1 <= Len(stream)
                                                              /\ stream[pos + i + 1] = w[Len(w) - i]
        /\ pos + n > Len(stream) => cut > 0
    <3>1. Len(w) = Len(u) + n /\ \A i \in 1..Len(u) : w[i] = u[i]
      BY <2>6
    <3>2. n \in Nat /\ Holds(stream, pos, cut, w)
      BY <2>1, <2>8
    <3> HIDE DEF n
    <3> QED BY <2>1, <2>3, <3>1, <3>2, ReadOn, DecoderTypes
  <2>10. ASSUME ~(pos + n > Len(stream))
         PROVE  ans' = a /\ Holds(stream, pos + n, cut, u)
    <3>1. pos + n <= Len(stream)
      BY <2>8, <2>10, DecoderTypes
    <3>2. ASSUME Wants(x) PROVE Word(1) = w[Len(w)]
      <4>1. 0 \in 0..(n - 1)
        BY <3>2
      <4>2. pos + 0 + 1 <= Len(stream) /\ stream[pos + 0 + 1] = w[Len(w) - 0]
        BY <2>9, <3>1, <4>1
      <4>3. pos + 0 + 1 = pos + 1 /\ Len(w) - 0 = Len(w)
        <5>1. Len(w) \in Nat
          BY DEF Words
        <5> QED BY <5>1, DecoderTypes
      <4> QED BY <4>2, <4>3 DEF Word
    <3>3. Refilled(x, Word(1)) = a[0]
      BY <2>6, <3>2 DEF Restores
    <3> QED BY <1>2, <2>6, <2>7, <2>9, <3>1, <3>3
  <2> HIDE DEF n
  <2> QED BY <2>3, <2>7, <2>8, <2>9, <2>10
<1>12. fail' => cut > 0
  BY <1>10, <1>11 DEF CodingInv, Noticed
<1>13. TypeOK'
  <2>1. fail' \in BOOLEAN
    BY <1>10, DecoderTypes
  <2>2. ans' \in [Lane -> IF fail' THEN 0..(B * B - 1) ELSE B..(B * B - 1)]
    <3>1. CASE fail'
      BY <1>8, <3>1
    <3>2. CASE ~fail'
      <4>1. ans' \in [Lane -> B..(B * B - 1)]
        BY <1>10, <1>11, <3>2, StatesAre
      <4> QED BY <3>2, <4>1
    <3> QED BY <3>1, <3>2
  <2> QED BY <1>1, <1>3, <1>7, <2>1, <2>2 DEF CodingInv, TypeOK, TablesOf
<1>14. Histories'
  <2>1. Len(got1') <= Len(ones') /\ Len(got16') = 0
    BY <1>1, <1>4, <1>9, DecoderTypes
  <2> QED BY <1>1, <1>9, <2>1 DEF CodingInv, Histories
<1>15. Decoding'
  <2> SUFFICES ASSUME ~fail'
               PROVE  Right' /\ \E w \in Words :
                                  /\ CodedTo(hist, ones, wides, Len(got1') + Len(got16'), ans', w)
                                  /\ Holds(stream, pos', cut, w)
    BY <1>1 DEF Decoding
  <2>1. ~fail /\ ~(pos + N(c) > Len(stream))
    BY <1>10
  <2>2. pos' = pos + N(c) /\ Len(got1') + Len(got16') = Len(got1) + 1
    <3>1. pos + N(c) <= Len(stream) /\ Len(got1) \in Nat
      BY <1>7, <2>1, DecoderTypes
    <3>2. pos' = pos + N(c)
      BY <1>2, <1>7, <3>1, DecoderReads
    <3> QED BY <1>1, <1>4, <1>9, <3>1, <3>2
  <2>3. Right
    BY <1>1, <2>1 DEF CodingInv, Decoding
  <2>4. V(c) = e[2]
    BY <1>11, <2>1
  <2>5. \A i \in 1..Len(got1') : got1'[i] = ones'[i][2]
    <3> TAKE i \in 1..Len(got1')
    <3>1. CASE i = Len(got1) + 1
      BY <1>1, <1>9, <2>4, <3>1
    <3>2. CASE i # Len(got1) + 1
      <4>1. i \in 1..Len(got1)
        BY <1>9, <3>2, DecoderTypes
      <4> QED BY <1>1, <1>9, <2>3, <4>1 DEF Right
    <3> QED BY <3>1, <3>2
  <2>6. Right'
    BY <1>1, <2>3, <2>5 DEF Right
  <2> QED BY <1>11, <2>1, <2>2, <2>6
<1>16. Noticed'
  BY <1>1, <1>12 DEF Noticed
<1>17. Laid' /\ Tabled'
  BY <1>1 DEF CodingInv, Laid, Tabled
<1>18. Pushing' /\ Encoding' /\ Streaming' /\ Done'
  BY <1>1 DEF Pushing, Encoding, Streaming, Done
<1> QED BY <1>13, <1>14, <1>15, <1>16, <1>17, <1>18 DEF CodingInv

LEMMA DecodeAllKeeps ==
    ASSUME CodingInv, DecodeAll
    PROVE  CodingInv'
<1> DEFINE es == wides[Len(got16) + 1]
           V(cs) == [k \in Lane |-> Lookup(hist[cs[k]], ans[k] % NormSum)]
           X(cs) == [k \in Lane |-> Uncoded(ans[k], hist[cs[k]][V(cs)[k]], Below(hist[cs[k]], V(cs)[k]))]
           N(cs, k) == Cardinality({j \in 0..(k - 1) : Wants(X(cs)[j])})
<1>1. /\ stage = "decode" /\ Len(got1) = Len(ones) /\ Len(got16) < Len(wides)
      /\ stage' = stage /\ got1' = got1
      /\ stack' = stack /\ count1' = count1 /\ count16' = count16 /\ cnt' = cnt /\ hist' = hist /\ stream' = stream
      /\ tables' = tables /\ ones' = ones /\ wides' = wides /\ cut' = cut
  BY DEF DecodeAll, encoderVars
<1>2. PICK cs \in [Lane -> ContextsOf({es[k][1] : k \in Lane})] :
         /\ ~fail => \A k \in Lane : cs[k] = es[k][1]
         /\ got16' = Append(got16, V(cs))
         /\ ans' = [k \in Lane |-> Refilled(X(cs)[k], Word(N(cs, k) + 1))]
         /\ fail' = Marked(N(cs, Lanes))
         /\ pos' = Advanced(N(cs, Lanes))
  BY DEF DecodeAll
<1> DEFINE v == V(cs)
           x == X(cs)
           n(k) == N(cs, k)
<1>3. TablesOf(hist) /\ Usable(hist, ones, wides)
  BY <1>1 DEF CodingInv, Tabled
<1>4. es \in WidePairs /\ Len(got16) + 1 \in 1..Len(wides)
  <2>1. Len(got16) + 1 \in 1..Len(wides)
    <3>1. Len(got16) \in Nat /\ Len(wides) \in Nat
      BY DecoderTypes
    <3> QED BY <1>1, <3>1
  <2> QED BY <2>1, DecoderTypes, ElementOfSeq
<1>5. \A k \in Lane : cs[k] \in Contexts
  <2>1. \A k \in Lane : es[k][1] \in Contexts
    BY <1>4 DEF WidePairs, Pair
  <2>2. \A c \in ContextsOf({es[k][1] : k \in Lane}) : c \in Contexts
    BY <2>1 DEF ContextsOf
  <2> QED BY <1>2, <2>2
<1>6. /\ \A k \in Lane : v[k] = Lookup(hist[cs[k]], ans[k] % NormSum)
      /\ \A k \in Lane : x[k] = Uncoded(ans[k], hist[cs[k]][v[k]], Below(hist[cs[k]], v[k]))
      /\ v = [k \in Lane |-> v[k]]
  OBVIOUS
<1>7. \A k \in Lane \cup {Lanes} : n(k) = Cardinality({j \in 0..(k - 1) : Wants(x[j])})
  OBVIOUS
<1>8. /\ got16' = Append(got16, v)
      /\ ans' = [k \in Lane |-> Refilled(x[k], Word(n(k) + 1))]
      /\ fail' = Marked(n(Lanes))
      /\ pos' = Advanced(n(Lanes))
  BY <1>2
<1> HIDE DEF v, x, n, V, X, N
<1>9. \A k \in Lane \cup {Lanes} : n(k) \in Nat
  <2> TAKE k \in Lane \cup {Lanes}
  <2> DEFINE S == {j \in 0..(k - 1) : Wants(x[j])}
  <2>1. S \in SUBSET Lane
    <3>1. 0..(k - 1) \in SUBSET Lane
      BY SymbolSizes DEF Lane
    <3> QED BY <3>1
  <2>2. n(k) = Cardinality(S)
    BY <1>7
  <2> HIDE DEF S
  <2> QED BY <2>1, <2>2, DescendingFalls
<1>10. ASSUME NEW k \in Lane
       PROVE  v[k] \in Symbols /\ ans'[k] \in 0..(B * B - 1)
  <2>1. Table(hist[cs[k]])
    BY <1>3, <1>5 DEF TablesOf, Table
  <2>2. ans[k] \in 0..(B * B - 1)
    BY DecoderTypes
  <2>3. Word(n(k) + 1) \in 0..(B - 1)
    <3>1. n(k) + 1 \in Nat /\ n(k) + 1 > 0
      BY <1>9
    <3> QED BY <3>1, DecoderReads
  <2>4. /\ Lookup(hist[cs[k]], ans[k] % NormSum) \in Symbols
        /\ Refilled(Uncoded(ans[k], hist[cs[k]][Lookup(hist[cs[k]], ans[k] % NormSum)],
                            Below(hist[cs[k]], Lookup(hist[cs[k]], ans[k] % NormSum))), Word(n(k) + 1))
             \in 0..(B * B - 1)
    BY <2>1, <2>2, <2>3, LostInRange
  <2>5. ans'[k] = Refilled(x[k], Word(n(k) + 1))
    BY <1>8
  <2> QED BY <1>6, <2>4, <2>5
<1>11. ans' \in [Lane -> 0..(B * B - 1)] /\ v \in [Lane -> Symbols]
  <2>1. ans' = [k \in Lane |-> ans'[k]]
    BY <1>8
  <2> QED BY <1>6, <1>10, <2>1
<1>12. pos' \in 0..Len(stream)
  BY <1>8, <1>9, DecoderReads
<1>13. /\ got16' \in Seq([Lane -> Symbols]) /\ Len(got16') = Len(got16) + 1
       /\ got16'[Len(got16) + 1] = v /\ \A i \in 1..Len(got16) : got16'[i] = got16[i]
  BY <1>8, <1>11, AppendProperties, DecoderTypes
<1>14. fail' = (fail \/ pos + n(Lanes) > Len(stream))
  BY <1>8 DEF Marked
<1> DEFINE t == Len(got1) + Len(got16)
<1>15. ASSUME ~fail
       PROVE  IF pos + n(Lanes) > Len(stream) THEN cut > 0
              ELSE /\ ans' \in LaneStates /\ \A k \in Lane : v[k] = es[k][2]
                   /\ \E u \in Words : /\ CodedTo(hist, ones, wides, t + 1, ans', u)
                                        /\ Holds(stream, pos + n(Lanes), cut, u)
  <2>1. PICK w \in Words : CodedTo(hist, ones, wides, t, ans, w) /\ Holds(stream, pos, cut, w)
    BY <1>1, <1>15 DEF CodingInv, Decoding
  <2>2. /\ t \in 0..Entries(ones, wides) /\ t # Entries(ones, wides) /\ t + 1 \in 0..Entries(ones, wides)
        /\ ~(t + 1 <= Len(ones)) /\ (t + 1) - Len(ones) = Len(got16) + 1
    <3>1. Len(got1) \in Nat /\ Len(ones) \in Nat /\ Len(wides) \in Nat /\ Len(got16) \in Nat
      BY DecoderTypes
    <3> QED BY <1>1, <3>1 DEF Entries
  <2> HIDE DEF t
  <2>3. PICK a \in LaneStates, u \in Words :
           CodedTo(hist, ones, wides, t + 1, a, u) /\ Step(hist, ones, wides, t + 1, a, u, ans, w)
    BY <2>1, <2>2, CodingShrinks, DecoderTypes
  <2>4. StepAll(hist, es, a, u, ans, w)
    BY <2>2, <2>3 DEF Step
  <2>5. AllCodable(hist, es)
    BY <1>3, <1>4 DEF Usable
  <2> DEFINE m(k) == Cardinality(Before(hist, es, ans, k))
  <2>6. /\ \A k \in Lane : Lookup(hist[es[k][1]], ans[k] % NormSum) = es[k][2]
        /\ m(Lanes) \in Nat /\ Len(w) = Len(u) + m(Lanes)
        /\ \A i \in 1..Len(u) : w[i] = u[i]
        /\ \A k \in Lane : /\ m(k) \in Nat
                           /\ Wants(Undone(hist, es[k], ans[k])) => m(k) < m(Lanes)
                           /\ Restores(Undone(hist, es[k], ans[k]), w[Len(w) - m(k)], a[k])
    <3>1. a \in LaneStates /\ u \in Words
      BY <2>3
    <3> HIDE DEF es
    <3> QED BY <2>4, <2>5, <3>1, AllBack
  <2>7. \A k \in Lane : v[k] = es[k][2] /\ x[k] = Undone(hist, es[k], ans[k])
    BY <1>2, <1>6, <1>15, <2>6 DEF Undone, FreqIn, StartIn
  <2>8. \A k \in Lane \cup {Lanes} : n(k) = m(k)
    <3> TAKE k \in Lane \cup {Lanes}
    <3>1. 0..(k - 1) \in SUBSET Lane
      BY SymbolSizes DEF Lane
    <3>2. {j \in 0..(k - 1) : Wants(x[j])} = Before(hist, es, ans, k)
      BY <2>7, <3>1 DEF Before
    <3> QED BY <1>7, <3>2
  <2> HIDE DEF m, es
  <2>9. /\ n(Lanes) \in Nat /\ Len(w) = Len(u) + n(Lanes)
        /\ \A k \in Lane : /\ Wants(x[k]) => n(k) < n(Lanes)
                           /\ Restores(x[k], w[Len(w) - n(k)], a[k])
    BY <2>6, <2>7, <2>8
  <2> DEFINE p == n(Lanes)
  <2>10. /\ pos + p <= Len(stream) => /\ Holds(stream, pos + p, cut, u)
                                      /\ \A i \in 0..(p - 1) : /\ pos + i + 1 <= Len(stream)
                                                               /\ stream[pos + i + 1] = w[Len(w) - i]
         /\ pos + p > Len(stream) => cut > 0
    <3>1. p \in Nat /\ Len(w) = Len(u) + p /\ \A i \in 1..Len(u) : w[i] = u[i]
      BY <2>6, <2>9
    <3>2. u \in Words /\ Holds(stream, pos, cut, w) /\ w \in Words
      BY <2>1, <2>3
    <3> HIDE DEF p
    <3> QED BY <3>1, <3>2, ReadOn, DecoderTypes
  <2>11. ASSUME ~(pos + p > Len(stream))
         PROVE  ans' = a /\ Holds(stream, pos + p, cut, u)
    <3>1. pos + p <= Len(stream)
      <4>1. p \in Nat
        BY <2>9
      <4> HIDE DEF p
      <4> QED BY <2>11, <4>1, DecoderTypes
    <3>2. ASSUME NEW k \in Lane PROVE ans'[k] = a[k]
      <4>1. ASSUME Wants(x[k]) PROVE Word(n(k) + 1) = w[Len(w) - n(k)]
        <5>1. n(k) \in 0..(p - 1)
          BY <1>9, <2>9, <4>1
        <5>2. pos + n(k) + 1 <= Len(stream) /\ stream[pos + n(k) + 1] = w[Len(w) - n(k)]
          BY <2>10, <3>1, <5>1
        <5>3. pos + (n(k) + 1) = pos + n(k) + 1
          <6>1. n(k) \in Nat /\ pos \in Nat
            BY <1>9, DecoderTypes
          <6> QED BY <6>1
        <5> QED BY <5>2, <5>3 DEF Word
      <4>2. ans'[k] = Refilled(x[k], Word(n(k) + 1))
        BY <1>8
      <4> QED BY <2>9, <4>1, <4>2 DEF Restores
    <3>3. a = [k \in Lane |-> a[k]]
      BY <2>3 DEF LaneStates
    <3>4. ans' = [k \in Lane |-> ans'[k]]
      BY <1>8
    <3>5. ans' = a
      BY <3>2, <3>3, <3>4
    <3> QED BY <2>10, <3>1, <3>5
  <2>12. CASE pos + n(Lanes) > Len(stream)
    BY <2>10, <2>12
  <2>13. CASE ~(pos + n(Lanes) > Len(stream))
    BY <2>3, <2>7, <2>11, <2>13
  <2> QED BY <2>12, <2>13
<1>16. fail' => cut > 0
  BY <1>14, <1>15 DEF CodingInv, Noticed
<1>17. TypeOK'
  <2>1. fail' \in BOOLEAN
    BY <1>14, DecoderTypes
  <2>2. ans' \in [Lane -> IF fail' THEN 0..(B * B - 1) ELSE B..(B * B - 1)]
    <3>1. CASE fail'
      BY <1>11, <3>1
    <3>2. CASE ~fail'
      <4>1. ans' \in [Lane -> B..(B * B - 1)]
        BY <1>14, <1>15, <3>2, StatesAre
      <4> QED BY <3>2, <4>1
    <3> QED BY <3>1, <3>2
  <2> QED BY <1>1, <1>3, <1>12, <2>1, <2>2 DEF CodingInv, TypeOK, TablesOf
<1>18. Histories'
  <2>1. Len(got16') <= Len(wides') /\ Len(got1') = Len(ones')
    BY <1>1, <1>13, DecoderTypes
  <2> QED BY <1>1, <1>13, <2>1 DEF CodingInv, Histories
<1>19. Decoding'
  <2> SUFFICES ASSUME ~fail'
               PROVE  Right' /\ \E w \in Words :
                                  /\ CodedTo(hist, ones, wides, Len(got1') + Len(got16'), ans', w)
                                  /\ Holds(stream, pos', cut, w)
    BY <1>1 DEF Decoding
  <2>1. ~fail /\ ~(pos + n(Lanes) > Len(stream))
    BY <1>14
  <2>2. pos' = pos + n(Lanes) /\ Len(got1') + Len(got16') = t + 1
    <3>1. n(Lanes) \in Nat
      BY <1>9
    <3>2. pos + n(Lanes) <= Len(stream) /\ Len(got1) \in Nat /\ Len(got16) \in Nat
      BY <2>1, <3>1, DecoderTypes
    <3>3. pos' = pos + n(Lanes)
      BY <1>8, <3>1, <3>2, DecoderReads
    <3>4. Len(got1') = Len(got1) /\ Len(got16') = Len(got16) + 1
      BY <1>1, <1>13
    <3> QED BY <3>2, <3>3, <3>4
  <2>3. Right
    BY <1>1, <2>1 DEF CodingInv, Decoding
  <2>4. \A k \in Lane : v[k] = es[k][2]
    BY <1>15, <2>1
  <2>5. \A i \in 1..Len(got16') : \A k \in Lane : got16'[i][k] = wides'[i][k][2]
    <3> TAKE i \in 1..Len(got16')
    <3>1. CASE i = Len(got16) + 1
      BY <1>1, <1>13, <2>4, <3>1
    <3>2. CASE i # Len(got16) + 1
      <4>1. i \in 1..Len(got16)
        BY <1>13, <3>2, DecoderTypes
      <4> QED BY <1>1, <1>13, <2>3, <4>1 DEF Right
    <3> QED BY <3>1, <3>2
  <2>6. Right'
    BY <1>1, <2>3, <2>5 DEF Right
  <2> HIDE DEF t
  <2> QED BY <1>15, <2>1, <2>2, <2>6
<1>20. Noticed'
  BY <1>1, <1>16 DEF Noticed
<1>21. Laid' /\ Tabled'
  BY <1>1 DEF CodingInv, Laid, Tabled
<1>22. Pushing' /\ Encoding' /\ Streaming' /\ Done'
  BY <1>1 DEF Pushing, Encoding, Streaming, Done
<1> QED BY <1>17, <1>18, <1>19, <1>20, <1>21, <1>22 DEF CodingInv

LEMMA FinishKeeps ==
    ASSUME CodingInv, Finish
    PROVE  CodingInv'
<1>1. /\ stage = "decode" /\ Len(got1) = Len(ones) /\ Len(got16) = Len(wides)
      /\ stage' = (IF fail THEN "refused" ELSE "decoded")
      /\ ans' = ans /\ pos' = pos /\ fail' = fail /\ got1' = got1 /\ got16' = got16
      /\ stack' = stack /\ count1' = count1 /\ count16' = count16 /\ cnt' = cnt /\ hist' = hist /\ stream' = stream
      /\ tables' = tables /\ ones' = ones /\ wides' = wides /\ cut' = cut
  BY DEF Finish, encoderVars, Verdict
<1>2. ASSUME ~fail PROVE Right /\ cut = 0 /\ pos = Len(stream) /\ ans = Fresh
  <2>1. Right /\ \E u \in Words : /\ CodedTo(hist, ones, wides, Len(got1) + Len(got16), ans, u)
                                  /\ Holds(stream, pos, cut, u)
    BY <1>1, <1>2 DEF CodingInv, Decoding
  <2>2. PICK u \in Words : CodedTo(hist, ones, wides, Entries(ones, wides), ans, u) /\ Holds(stream, pos, cut, u)
    BY <1>1, <2>1 DEF Entries
  <2>3. ans = Fresh /\ u = <<>>
    BY <2>2, CodingEnds, DecoderTypes
  <2>4. pos + 0 = Len(stream) + cut
    BY <2>2, <2>3 DEF Holds
  <2>5. pos \in 0..Len(stream) /\ Len(stream) \in Nat /\ cut \in Nat
    BY DecoderTypes
  <2> QED BY <2>1, <2>3, <2>4, <2>5
<1>3. Done' /\ Noticed'
  BY <1>1, <1>2 DEF CodingInv, Done, Noticed, Right
<1>4. TypeOK' /\ Tabled'
  <2>1. stage' \in {"push", "encode", "stream", "decode", "decoded", "refused"} /\ stage' # "push" /\ stage # "push"
    BY <1>1
  <2> QED BY <1>1, <2>1 DEF CodingInv, TypeOK, Tabled
<1>5. Histories' /\ Laid'
  BY <1>1 DEF CodingInv, Histories, Laid
<1>6. Pushing' /\ Encoding' /\ Streaming' /\ Decoding'
  BY <1>1 DEF Pushing, Encoding, Streaming, Decoding
<1> QED BY <1>3, <1>4, <1>5, <1>6 DEF CodingInv

LEMMA CodingStep ==
    ASSUME CodingInv, [Next]_vars
    PROVE  CodingInv'
<1>1. ASSUME NEW e \in Pair, Push(e) PROVE CodingInv'
  BY <1>1, PushKeeps
<1>2. ASSUME NEW es \in [Lane -> Pair], PushAll(es) PROVE CodingInv'
  BY <1>2, PushAllKeeps DEF WidePairs
<1>3. CASE Normalise
  BY <1>3, NormaliseKeeps
<1>4. CASE EncodeAll
  BY <1>4, EncodeAllKeeps
<1>5. CASE Encode
  BY <1>5, EncodeKeeps
<1>6. CASE Flush
  BY <1>6, FlushKeeps
<1>7. ASSUME NEW n \in 1..(NContexts + Len(stream)), Cut(n) PROVE CodingInv'
  BY <1>7, CutKeeps
<1>8. CASE Open
  BY <1>8, OpenKeeps
<1>9. CASE Decode
  BY <1>9, DecodeKeeps
<1>10. CASE DecodeAll
  BY <1>10, DecodeAllKeeps
<1>11. CASE Finish
  BY <1>11, FinishKeeps
<1>12. CASE UNCHANGED vars
  <2>1. /\ stage' = stage /\ stack' = stack /\ count1' = count1 /\ count16' = count16 /\ cnt' = cnt /\ ans' = ans
        /\ hist' = hist /\ stream' = stream /\ tables' = tables /\ pos' = pos /\ fail' = fail
        /\ ones' = ones /\ wides' = wides /\ got1' = got1 /\ got16' = got16 /\ cut' = cut
    BY <1>12 DEF vars
  <2>2. TypeOK' /\ Histories' /\ Laid'
    BY <2>1 DEF CodingInv, TypeOK, Histories, Laid
  <2>3. Pushing' /\ Tabled' /\ Encoding' /\ Streaming' /\ Noticed'
    BY <2>1 DEF CodingInv, Pushing, Tabled, Encoding, Streaming, Noticed, Unopened
  <2>4. Decoding' /\ Done'
    BY <2>1 DEF CodingInv, Decoding, Done, Right
  <2> QED BY <2>2, <2>3, <2>4 DEF CodingInv
<1> QED BY <1>1, <1>2, <1>3, <1>4, <1>5, <1>6, <1>7, <1>8, <1>9, <1>10, <1>11, <1>12 DEF Next

LEMMA CodingAlways == Spec => []CodingInv
<1>1. Init => CodingInv
  BY CodingInit
<1>2. CodingInv /\ [Next]_vars => CodingInv'
  BY CodingStep
<1> QED BY <1>1, <1>2, PTL DEF Spec

\* Whatever was pushed, and whatever the sum of the tables, the number of lanes and
\* of contexts: all types hold, the symbols of a decoder that read no word
\* behind the end are those of the encoder, a whole stream is never refused, and the decoder of a
\* stream that is accepted has used up every word and is back at the states
\* the encoder started with.
THEOREM CoderRoundTrip == Spec => []RoundTrip
<1>1. CodingInv => RoundTrip
  <2> SUFFICES ASSUME CodingInv PROVE RoundTrip
    OBVIOUS
  <2>1. TypeOK
    BY DEF CodingInv
  <2>2. ASSUME stage \in {"decode", "decoded"}, ~fail
        PROVE  /\ \A i \in DOMAIN got1 : got1[i] = ones[i][2]
               /\ \A i \in DOMAIN got16 : \A k \in Lane : got16[i][k] = wides[i][k][2]
    <3>1. Right
      BY <2>2 DEF CodingInv, Decoding, Done
    <3>2. DOMAIN got1 = 1..Len(got1) /\ DOMAIN got16 = 1..Len(got16)
      BY DecoderTypes
    <3> QED BY <3>1, <3>2 DEF Right
  <2>3. cut = 0 => stage # "refused"
    BY DecoderTypes DEF CodingInv, Noticed
  <2>4. stage = "decoded" => pos = Len(stream) /\ \A k \in Lane : ans[k] = B
    BY DEF CodingInv, Done, Fresh
  <2> QED BY <2>1, <2>2, <2>3, <2>4 DEF RoundTrip
<1> QED BY <1>1, CodingAlways, PTL

\* However few words are missing at the end of a stream, no decoder takes it for an image.
THEOREM EveryCutIsNoticed == Spec => []CutIsNoticed
<1>1. CodingInv => CutIsNoticed
  BY DecoderTypes DEF CodingInv, Done, CutIsNoticed
<1> QED BY <1>1, CodingAlways, PTL

-----------------------------------------------------------------------------
(* The words do not catch up with the pairs.                               *)

\* The first symbol of a lane writes no word.
LEMMA FirstIsSilent ==
    ASSUME NormSum < B, NEW H, NEW e, Codable(H, e)
    PROVE  ~Emits(B, FreqIn(H, e))
<1> DEFINE f == FreqIn(H, e)
<1>1. /\ B \in Nat \ {0} /\ NormSum \in Nat \ {0} /\ K \in Nat \ {0}
      /\ B = NormSum * K /\ B * K \in Nat /\ CodeHigh = B * K - 1
  BY Sizes
<1>2. K >= 2
  <2>1. K # 1
    BY <1>1
  <2> QED BY <1>1, <2>1
<1>3. B * 2 <= B * K
  BY <1>1, <1>2, ProductGrows
<1>4. f \in Nat \ {0}
  <2>1. e[2] \in Symbols /\ Table(H[e[1]]) /\ f > 0
    BY DEF Codable, Pair
  <2>2. f \in Nat
    BY <2>1, BelowSums DEF FreqIn
  <2> HIDE DEF f
  <2> QED BY <2>1, <2>2
<1> HIDE DEF f
<1>5. B \div f <= B
  <2>1. B < f * (B + 1)
    <3>1. (B + 1) * 1 <= (B + 1) * f /\ (B + 1) * f = f * (B + 1)
      BY <1>1, <1>4, ProductGrows
    <3> QED BY <1>1, <1>4, <3>1
  <2>2. B \div f < B + 1 /\ B \div f \in Nat
    <3>1. B \in Nat /\ B + 1 \in Nat
      BY <1>1
    <3>2. B \div f < B + 1
      BY <1>4, <2>1, <3>1, QuotientBelow
    <3>3. B \div f \in Nat
      BY <1>4, <3>1, Division
    <3> QED BY <3>2, <3>3
  <2> QED BY <1>1, <2>2
<1>6. B \div f <= CodeHigh
  <2>1. B \div f \in Nat
    BY <1>1, <1>4, Division
  <2> QED BY <1>1, <1>3, <1>5, <2>1
<1>7. ~(B \div f > CodeHigh)
  <2>1. B \div f \in Nat
    BY <1>1, <1>4, Division
  <2> QED BY <1>1, <1>6, <2>1
<1> QED BY <1>7 DEF Emits, f

Pairs == Len(ones) + Lanes * Len(wides)
FirstPairs == IF wides # <<>> THEN Lanes ELSE 1

LEMMA PairsLeft ==
    ASSUME CodingInv
    PROVE  /\ Pairs \in Nat /\ Len(stack) \in Nat /\ Len(stack) <= Pairs
           /\ Len(stack) = Pairs => count1 = Len(ones) /\ count16 = Len(wides)
           /\ Pairs > 0 => FirstPairs <= Pairs
           /\ FirstPairs \in Nat /\ FirstPairs <= Lanes
           /\ (wides = <<>> <=> Len(wides) = 0)
<1>1. /\ count1 \in 0..Len(ones) /\ count16 \in 0..Len(wides) /\ Len(ones) \in Nat /\ Len(wides) \in Nat
      /\ Len(stack) = count1 + Lanes * count16 /\ wides \in Seq(WidePairs)
  BY DEF CodingInv, TypeOK, Histories
<1>2. wides = <<>> <=> Len(wides) = 0
  BY <1>1, EmptySeq
<1>3. Lanes \in Nat \ {0} /\ Lanes * count16 \in Nat /\ Lanes * Len(wides) \in Nat
  BY <1>1, LaneProduct
<1>4. Lanes * count16 <= Lanes * Len(wides)
  BY <1>1, <1>3, ProductGrows
<1>5. count16 # Len(wides) => Lanes * count16 + Lanes <= Lanes * Len(wides)
  <2> SUFFICES ASSUME count16 # Len(wides) PROVE Lanes * count16 + Lanes <= Lanes * Len(wides)
    OBVIOUS
  <2>1. count16 \in Nat /\ count16 + 1 \in Nat /\ count16 + 1 <= Len(wides)
    BY <1>1
  <2>2. Lanes * (count16 + 1) <= Lanes * Len(wides)
    BY <1>1, <1>3, <2>1, ProductGrows
  <2> QED BY <2>1, <2>2, LaneProduct
<1>6. Len(wides) # 0 => Lanes <= Lanes * Len(wides)
  <2> SUFFICES ASSUME Len(wides) # 0 PROVE Lanes <= Lanes * Len(wides)
    OBVIOUS
  <2>1. Lanes * 1 <= Lanes * Len(wides)
    BY <1>1, <1>3, ProductGrows
  <2> QED BY <1>3, <2>1
<1> DEFINE x == Lanes * count16
           y == Lanes * Len(wides)
<1>7. /\ Pairs = Len(ones) + y /\ Len(stack) = count1 + x /\ x \in Nat /\ y \in Nat /\ x <= y
      /\ count16 # Len(wides) => x + Lanes <= y
      /\ Len(wides) # 0 => Lanes <= y
  BY <1>1, <1>3, <1>4, <1>5, <1>6 DEF Pairs
<1> HIDE DEF x, y
<1> QED BY <1>1, <1>2, <1>3, <1>7 DEF FirstPairs

Room(left, p, first, n) ==
    /\ stage = "encode" /\ p > left => n <= p - left - first
    /\ stage # "encode" /\ p > 0 => n <= p - first + 2 * Lanes

LEMMA RoomIs == StackNotOverrun <=> Room(Len(stack), Pairs, FirstPairs, Len(stream))
BY DEF StackNotOverrun, Room, Pairs, FirstPairs

LEMMA RoomWhilePushing ==
    ASSUME CodingInv, stage = "push"
    PROVE  StackNotOverrun
<1>1. Len(stream) = 0
  BY EmptySeq DEF CodingInv, Pushing
<1>2. Lanes \in Nat
  BY LaneProduct
<1> QED BY <1>1, <1>2, PairsLeft, RoomIs DEF Room

LEMMA RoomEncodeAll ==
    ASSUME NormSum < B, CodingInv, StackNotOverrun, EncodeAll
    PROVE  StackNotOverrun'
<1> DEFINE es == wides[count16]
           S == Full(hist, es, ans)
<1>1. /\ stage = "encode" /\ stage' = "encode" /\ count16 > 0 /\ count1 = Len(ones)
      /\ ones' = ones /\ wides' = wides /\ count16' = count16 - 1 /\ count1' = count1
      /\ CodedTo(hist, ones, wides, count1 + count16, ans, stream) /\ Usable(hist, ones, wides)
  BY DEF EncodeAll, CodingInv, Encoding, Tabled
<1>2. /\ count16 \in 0..Len(wides) /\ Len(wides) \in Nat /\ Len(ones) \in Nat
      /\ ones \in Seq(Pair) /\ wides \in Seq(WidePairs) /\ Len(stack) = count1 + Lanes * count16
  BY DEF CodingInv, Histories, TypeOK
<1>3. AllCodable(hist, es)
  BY <1>1, <1>2 DEF Usable
<1>4. StepAll(hist, es, ans, stream, ans', stream') /\ Len(stack') = count1 + Lanes * (count16 - 1)
  <2>1. LaidOut(stack', ones', count1', wides', count16')
    BY EncodeAllCodes
  <2> QED BY <1>1, <2>1, EncodeAllCodes DEF LaidOut
<1>5. ans \in LaneStates /\ stream \in Words
  <2>1. count1 + count16 \in 0..Entries(ones, wides)
    BY <1>1, <1>2 DEF Entries
  <2> QED BY <1>1, <1>2, <2>1, CodedType
<1>6. S \in SUBSET Lane
  BY DEF Full
<1> HIDE DEF S
<1>7. /\ Cardinality(S) \in Nat /\ Cardinality(S) <= Lanes /\ Len(stream) \in Nat
      /\ Len(stream') = Len(stream) + Cardinality(S)
  <2> DEFINE low == LowWords(ans, Descending(S))
  <2>1. low \in Words /\ Len(low) = Cardinality(S) /\ Cardinality(S) \in Nat /\ Cardinality(S) <= Lanes
    BY <1>5, <1>6, LowWordsType
  <2>2. stream' = stream \o low
    BY <1>4 DEF StepAll, S
  <2> HIDE DEF low
  <2>3. Len(stream \o low) = Len(stream) + Len(low) /\ Len(stream) \in Nat
    <3>1. stream \in Seq(0..(B - 1)) /\ low \in Seq(0..(B - 1))
      BY <1>5, <2>1 DEF Words
    <3>2. Len(stream \o low) = Len(stream) + Len(low)
      BY <3>1, ConcatProperties
    <3> QED BY <3>1, <3>2
  <2> QED BY <2>1, <2>2, <2>3
<1>8. Len(stack) = Pairs => Len(stream') = 0
  <2> SUFFICES ASSUME Len(stack) = Pairs PROVE Len(stream') = 0
    OBVIOUS
  <2>1. count1 + count16 = Entries(ones, wides)
    BY PairsLeft DEF Entries
  <2>2. ans = Fresh /\ stream = <<>>
    BY <1>1, <1>2, <2>1, CodingEnds
  <2>3. ASSUME NEW k \in S PROVE FALSE
    <3>1. k \in Lane /\ Emits(ans[k], FreqIn(hist, es[k]))
      BY <2>3 DEF S, Full
    <3>2. ans[k] = B /\ Codable(hist, es[k])
      BY <1>3, <2>2, <3>1 DEF Fresh, AllCodable
    <3> QED BY <3>1, <3>2, FirstIsSilent
  <2>4. S = {} /\ Len(stream) = 0
    BY <2>2, <2>3, EmptySeq
  <2> QED BY <1>7, <2>4, FS_EmptySet
<1>9. Lanes \in Nat \ {0} /\ Len(stack') \in Nat /\ Len(stack) = Len(stack') + Lanes
  <2>1. count16 - 1 \in Nat /\ (count16 - 1) + 1 = count16 /\ count1 \in Nat
    BY <1>1, <1>2
  <2>2. Lanes * count16 = Lanes * (count16 - 1) + Lanes /\ Lanes * (count16 - 1) \in Nat /\ Lanes \in Nat \ {0}
    BY <2>1, LaneProduct
  <2> QED BY <1>2, <1>4, <2>1, <2>2
<1>10. Pairs' = Pairs /\ FirstPairs' = FirstPairs /\ FirstPairs = Lanes
  <2>1. Len(wides) # 0
    BY <1>1, <1>2
  <2>2. wides # <<>>
    BY <2>1, PairsLeft
  <2> QED BY <1>1, <2>2 DEF Pairs, FirstPairs
<1>11. Pairs > Len(stack) => Len(stream) <= Pairs - Len(stack) - Lanes
  BY <1>1, <1>10, RoomIs DEF Room
<1>12. Len(stream') <= Pairs - Len(stack') - Lanes
  <2>1. Pairs \in Nat /\ Len(stack) \in Nat /\ Len(stack) <= Pairs
    BY PairsLeft
  <2>2. CASE Len(stack) = Pairs
    BY <1>8, <1>9, <2>1, <2>2
  <2>3. CASE Len(stack) # Pairs
    BY <1>7, <1>9, <1>11, <2>1, <2>3
  <2> QED BY <2>2, <2>3
<1> QED
  BY <1>1, <1>10, <1>12 DEF StackNotOverrun, Pairs, FirstPairs

LEMMA RoomEncode ==
    ASSUME NormSum < B, CodingInv, StackNotOverrun, Encode
    PROVE  StackNotOverrun'
<1> DEFINE e == ones[count1]
<1>1. /\ stage = "encode" /\ stage' = "encode" /\ count16 = 0 /\ count1 > 0
      /\ ones' = ones /\ wides' = wides /\ count16' = count16 /\ count1' = count1 - 1
      /\ CodedTo(hist, ones, wides, count1 + count16, ans, stream) /\ Usable(hist, ones, wides)
  BY DEF Encode, EncodeIf, CodingInv, Encoding, Tabled
<1>2. /\ count1 \in 0..Len(ones) /\ Len(wides) \in Nat /\ Len(ones) \in Nat
      /\ ones \in Seq(Pair) /\ wides \in Seq(WidePairs) /\ Len(stack) = count1 + Lanes * count16
  BY DEF CodingInv, Histories, TypeOK
<1>3. Codable(hist, e)
  BY <1>1, <1>2 DEF Usable
<1>4. StepOne(hist, e, ans, stream, ans', stream') /\ Len(stack') = (count1 - 1) + Lanes * count16
  <2>1. LaidOut(stack', ones', count1', wides', count16')
    BY EncodeCodes
  <2> QED BY <1>1, <2>1, EncodeCodes DEF LaidOut
<1>5. ans \in LaneStates /\ stream \in Words
  <2>1. count1 + count16 \in 0..Entries(ones, wides)
    BY <1>1, <1>2 DEF Entries
  <2> QED BY <1>1, <1>2, <2>1, CodedType
<1>6. Len(stream) \in Nat /\ Len(stream') \in Nat /\ Len(stream') <= Len(stream) + 1
      /\ (~Emits(ans[0], FreqIn(hist, e)) => Len(stream') = Len(stream))
  <2> DEFINE z == ans[0] % B
  <2>1. stream' = IF Emits(ans[0], FreqIn(hist, e)) THEN Append(stream, z) ELSE stream
    BY <1>4 DEF StepOne
  <2>2. z \in 0..(B - 1)
    <3>1. ans[0] \in States
      BY <1>5, SymbolSizes DEF LaneStates, Lane
    <3> QED BY <1>3, <3>1, CodeBack
  <2> HIDE DEF z
  <2>3. Len(Append(stream, z)) = Len(stream) + 1 /\ Len(stream) \in Nat
    BY <1>5, <2>2, AppendProperties DEF Words
  <2> QED BY <2>1, <2>3
<1>7. Len(stack) = Pairs => Len(stream') = 0
  <2> SUFFICES ASSUME Len(stack) = Pairs PROVE Len(stream') = 0
    OBVIOUS
  <2>1. count1 + count16 = Entries(ones, wides)
    BY PairsLeft DEF Entries
  <2>2. ans = Fresh /\ stream = <<>>
    BY <1>1, <1>2, <2>1, CodingEnds
  <2>3. ans[0] = B
    BY <2>2, SymbolSizes DEF Fresh, Lane
  <2> QED BY <1>3, <1>6, <2>2, <2>3, EmptySeq, FirstIsSilent
<1>8. Len(stack) = count1 /\ Len(stack') = count1 - 1
  BY <1>1, <1>2, <1>4, LaneProduct
<1>9. Pairs' = Pairs /\ FirstPairs' = FirstPairs
  BY <1>1 DEF Pairs, FirstPairs
<1>10. Pairs > Len(stack) => Len(stream) <= Pairs - Len(stack) - FirstPairs
  BY <1>1, RoomIs DEF Room
<1>11. Len(stream') <= Pairs - Len(stack') - FirstPairs
  <2>1. Pairs \in Nat /\ Len(stack) \in Nat /\ Len(stack) <= Pairs /\ FirstPairs \in Nat
    BY PairsLeft
  <2>2. CASE Len(stack) = Pairs
    <3>1. Len(wides) = 0
      BY <1>1, <2>2, PairsLeft
    <3>2. FirstPairs = 1
      BY <3>1, PairsLeft DEF FirstPairs
    <3> QED BY <1>1, <1>7, <1>8, <2>1, <2>2, <3>2
  <2>3. CASE Len(stack) # Pairs
    BY <1>6, <1>8, <1>10, <2>1, <2>3
  <2> QED BY <2>2, <2>3
<1> QED
  BY <1>1, <1>9, <1>11 DEF StackNotOverrun, Pairs, FirstPairs

LEMMA RoomFlush ==
    ASSUME CodingInv, StackNotOverrun, Flush
    PROVE  StackNotOverrun'
<1>1. /\ stage = "encode" /\ stage' = "stream" /\ count16 = 0 /\ count1 = 0
      /\ ones' = ones /\ wides' = wides
      /\ CodedTo(hist, ones, wides, count1 + count16, ans, stream)
  BY DEF Flush, CodingInv, Encoding
<1>2. /\ Len(wides) \in Nat /\ Len(ones) \in Nat
      /\ ones \in Seq(Pair) /\ wides \in Seq(WidePairs) /\ Len(stack) = count1 + Lanes * count16
  BY DEF CodingInv, Histories, TypeOK
<1>3. ans \in LaneStates /\ stream \in Words
  <2>1. count1 + count16 \in 0..Entries(ones, wides)
    BY <1>1, <1>2 DEF Entries
  <2> QED BY <1>1, <1>2, <2>1, CodedType
<1>4. Len(stream') = 2 * Lanes + Len(stream) /\ Len(stream) \in Nat
  <2>1. stream' = Reverse(stream \o StateWords(ans))
    BY DEF Flush, StateWords
  <2> QED BY <1>3, <2>1, FlushCarries DEF Words
<1>5. Len(stack) = 0
  BY <1>1, <1>2, LaneProduct
<1>6. Pairs' = Pairs /\ FirstPairs' = FirstPairs
  BY <1>1 DEF Pairs, FirstPairs
<1>7. Pairs > 0 => Len(stream') <= Pairs - FirstPairs + 2 * Lanes
  <2>1. Pairs > 0 => Len(stream) <= Pairs - 0 - FirstPairs
    BY <1>1, <1>5, RoomIs DEF Room
  <2> QED BY <1>4, <2>1, LaneProduct, PairsLeft
<1> QED
  BY <1>1, <1>6, <1>7 DEF StackNotOverrun, Pairs, FirstPairs

\* Where the code is reading the stack it has room for the words: the sum of a
\* table is smaller than a word (14 bits against 16), as else a rare symbol would
\* write a word before any pair is gone.
THEOREM WordsStayBehind ==
    ASSUME NormSum < B
    PROVE  Spec => []StackNotOverrun
<1>1. Init => StackNotOverrun
  BY CodingInit, RoomWhilePushing DEF Init
<1>2. CodingInv /\ StackNotOverrun /\ [Next]_vars => StackNotOverrun'
  <2> SUFFICES ASSUME CodingInv, StackNotOverrun, [Next]_vars PROVE StackNotOverrun'
    OBVIOUS
  <2>0. CodingInv'
    BY CodingStep
  <2>1. ASSUME stage' = "push" PROVE StackNotOverrun'
    <3>1. (CodingInv /\ stage = "push" => StackNotOverrun)'
      BY RoomWhilePushing, PTL
    <3> QED BY <2>0, <2>1, <3>1
  <2>2. CASE EncodeAll
    BY <2>2, RoomEncodeAll
  <2>3. CASE Encode
    BY <2>3, RoomEncode
  <2>4. CASE Flush
    BY <2>4, RoomFlush
  <2>5. CASE Normalise
    <3>1. stage = "push" /\ stage' = "encode" /\ stack' = stack /\ ones' = ones /\ wides' = wides
      BY <2>5 DEF Normalise, decoderVars
    <3>2. Len(stack) = Pairs
      BY <3>1, LaneProduct DEF CodingInv, Pushing, TypeOK, Pairs
    <3> QED BY <3>1, <3>2, PairsLeft DEF StackNotOverrun, Pairs
  <2>6. ASSUME NEW n \in 1..(NContexts + Len(stream)), Cut(n) PROVE StackNotOverrun'
    <3>1. /\ stage = "stream" /\ stage' = "stream" /\ ones' = ones /\ wides' = wides
          /\ stream' = SubSeq(stream, 1, Len(stream) - n)
      BY <2>6 DEF Cut
    <3>2. Len(stream') <= Len(stream) /\ Len(stream) \in Nat /\ Len(stream') \in Nat
      <4>1. stream \in Words /\ Len(stream) \in Nat /\ NContexts \in Nat
        BY DecoderTypes, SizeAssumption
      <4>2. \A i \in 1..(Len(stream) - n) : stream[i] \in 0..(B - 1)
        <5>1. \A i \in 1..Len(stream) : stream[i] \in 0..(B - 1)
          BY <4>1, ElementOfSeq DEF Words
        <5>2. \A i \in 1..(Len(stream) - n) : i \in 1..Len(stream)
          BY <4>1
        <5> QED BY <5>1, <5>2
      <4>3. 1 \in Int /\ Len(stream) - n \in Int
        BY <4>1
      <4>4. Len(stream') = IF 1 <= Len(stream) - n THEN (Len(stream) - n) - 1 + 1 ELSE 0
        BY <3>1, <4>2, <4>3, SubSeqProperties
      <4> QED BY <4>1, <4>4
    <3>3. Pairs > 0 => Len(stream) <= Pairs - FirstPairs + 2 * Lanes
      BY <3>1, RoomIs DEF Room
    <3>4. Pairs' = Pairs /\ FirstPairs' = FirstPairs
      BY <3>1 DEF Pairs, FirstPairs
    <3>5. Pairs > 0 => Len(stream') <= Pairs - FirstPairs + 2 * Lanes
      BY <3>2, <3>3, LaneProduct, PairsLeft
    <3> QED BY <3>1, <3>4, <3>5 DEF StackNotOverrun, Pairs, FirstPairs
  <2>7. CASE Open \/ Decode \/ DecodeAll \/ Finish
    <3>1. /\ stage # "encode" /\ stage' # "encode" /\ ones' = ones /\ wides' = wides /\ stream' = stream
      BY <2>7 DEF Open, Decode, DecodeAll, Finish, encoderVars, Verdict
    <3> QED BY <3>1 DEF StackNotOverrun
  <2>8. CASE UNCHANGED vars
    BY <2>8 DEF StackNotOverrun, vars
  <2>9. ASSUME NEW x \in Pair, Push(x) PROVE StackNotOverrun'
    BY <2>1, <2>9 DEF Push
  <2>10. ASSUME NEW x \in [Lane -> Pair], PushAll(x) PROVE StackNotOverrun'
    BY <2>1, <2>10 DEF PushAll
  <2> QED BY <2>2, <2>3, <2>4, <2>5, <2>6, <2>7, <2>8, <2>9, <2>10 DEF Next
<1> QED BY <1>1, <1>2, CodingAlways, PTL DEF Spec

=============================================================================
