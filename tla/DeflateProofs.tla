---------------------------- MODULE DeflateProofs ----------------------------
(***************************************************************************)
(* The deflate encoder for every input, every way it is cut into chunks,   *)
(* every level and all sizes of the ring, the window and the blocks: the   *)
(* ring keeps what matches need, the tokens are the input, and the blocks  *)
(* are framed.                                                             *)
(***************************************************************************)
EXTENDS Deflate, SequenceTheorems, WellFoundedInduction, TLAPS

\* The places in the ring of the positions up to q.
Seen(q) == {NIL} \cup {p % RingSize : p \in 0..q}

\* Hash chains through positions up to q.
Tables(q) == [head : [0..(HSize - 1) -> Seen(q)], prev : [Ring -> Seen(q)]]

-----------------------------------------------------------------------------
(* Arithmetic.                                                             *)

LEMMA Sizes ==
    /\ MaxMatch \in Nat /\ WSize \in Nat \ {0} /\ RingSize \in Nat \ {0} /\ HSize \in Nat \ {0}
    /\ TokMax \in Nat \ {0} /\ Chunk \in Nat \ {0} /\ StoreMax \in Nat \ {0}
    /\ MinMatch = 3 /\ MaxMatch > 3 /\ WSize + (MaxMatch - 1) + Chunk <= RingSize
BY DeflateAssumption DEF MinMatch

LEMMA Division ==
    ASSUME NEW a \in Int, NEW m \in Nat \ {0}
    PROVE  /\ a \div m \in Int
           /\ a % m \in 0..(m - 1)
           /\ a = m * (a \div m) + (a % m)
BY SMT

LEMMA DivisionUnique ==
    ASSUME NEW m \in Nat \ {0}, NEW q \in Int, NEW r \in 0..(m - 1)
    PROVE  (m * q + r) % m = r
BY SMT

\* A remainder may be taken before or after adding.
LEMMA ModShift ==
    ASSUME NEW a \in Int, NEW b \in Int, NEW m \in Nat \ {0}
    PROVE  /\ ((a % m) + b) % m = (a + b) % m
           /\ ((a % m) - b) % m = (a - b) % m
           /\ (b - (a % m)) % m = (b - a) % m
<1> DEFINE q == a \div m
           r == a % m
<1>1. q \in Int /\ r \in Int /\ a = m * q + r
  BY Division
<1> HIDE DEF q, r
<1>2. \A x \in Int, c \in Int : (x + m * c) % m = x % m
  <2> TAKE x \in Int, c \in Int
  <2> DEFINE d == x \div m
             s == x % m
  <2>1. d \in Int /\ s \in 0..(m - 1) /\ x = m * d + s
    BY Division
  <2> HIDE DEF d, s
  <2>2. x + m * c = m * (d + c) + s
    BY <2>1
  <2>3. d + c \in Int
    BY <2>1
  <2>4. (m * (d + c) + s) % m = s
    BY <2>1, <2>3, DivisionUnique
  <2> QED BY <2>2, <2>4 DEF s
<1>3. /\ a + b = (r + b) + m * q
      /\ a - b = (r - b) + m * q
      /\ b - a = (b - r) + m * (-q)
  BY <1>1
<1>4. r + b \in Int /\ r - b \in Int /\ b - r \in Int /\ -q \in Int
  BY <1>1
<1>5. /\ ((r + b) + m * q) % m = (r + b) % m
      /\ ((r - b) + m * q) % m = (r - b) % m
      /\ ((b - r) + m * (-q)) % m = (b - r) % m
  <2> DEFINE x == r + b
             y == r - b
             z == b - r
  <2>1. x \in Int /\ y \in Int /\ z \in Int
    BY <1>4
  <2> HIDE DEF x, y, z
  <2>2. (x + m * q) % m = x % m /\ (y + m * q) % m = y % m /\ (z + m * (-q)) % m = z % m
    BY <1>1, <1>2, <1>4, <2>1, Zenon
  <2> QED BY <2>2 DEF x, y, z
<1>6. (a + b) % m = (r + b) % m
  BY ONLY <1>3, <1>5, Zenon
<1>7. (a - b) % m = (r - b) % m
  BY ONLY <1>3, <1>5, Zenon
<1>8. (b - a) % m = (b - r) % m
  BY ONLY <1>3, <1>5, Zenon
<1> QED BY <1>6, <1>7, <1>8 DEF r

\* Small numbers are their own remainders; those just below zero wrap.
LEMMA ModSmall ==
    ASSUME NEW a \in Int, NEW m \in Nat \ {0}
    PROVE  /\ 0 <= a /\ a < m => a % m = a
           /\ a < 0 /\ -m <= a => a % m = m + a
           /\ 0 <= a => a % m <= a
BY SMT

-----------------------------------------------------------------------------
(* Induction.                                                              *)

LEMMA LessIsWellFounded == IsWellFoundedOn(OpToRel(<, Nat), Nat)
BY NatLessThanWellFounded

LEMMA LeastOf ==
    ASSUME NEW T \in SUBSET Nat, NEW x \in T
    PROVE  \E m \in T : \A k \in T : m <= k
<1> DEFINE below == {p \in Nat \X Nat : p[1] < p[2]}
<1>1. OpToRel(<, Nat) = below
  BY DEF OpToRel
<1>2. IsWellFoundedOn(below, Nat)
  BY <1>1, LessIsWellFounded
<1>3. \A a, b \in Nat : a < b => <<a, b>> \in below
  OBVIOUS
<1> HIDE DEF below
<1>4. T \subseteq Nat /\ T # {}
  OBVIOUS
<1>5. PICK m \in T : \A y \in T : ~ <<y, m>> \in below
  BY <1>2, <1>4, WFMin
<1>6. \A y \in T : m <= y
  <2> TAKE y \in T
  <2>1. m \in Nat /\ y \in Nat /\ ~ (y < m)
    BY <1>3, <1>4, <1>5
  <2> QED BY <2>1
<1> QED BY <1>6

LEMMA Induction ==
    ASSUME NEW T \in SUBSET Nat, 0 \in T, \A k \in Nat : k \in T => k + 1 \in T
    PROVE  T = Nat
<1> SUFFICES ASSUME NEW x \in Nat \ T PROVE FALSE
  OBVIOUS
<1>1. PICK m \in Nat \ T : \A k \in Nat \ T : m <= k
  BY LeastOf
<1>2. m # 0 /\ m - 1 \in Nat /\ m - 1 \in T
  BY <1>1
<1> QED BY <1>1, <1>2

-----------------------------------------------------------------------------
(* What a reader makes of tokens, one after the other.                     *)

\* One token, for a reader that has b.
Read(b, t) ==
    IF t.len = 0 THEN Append(b, t.sym)
    ELSE IF t.dist > Len(b) \/ t.dist > WSize THEN Append(b, NIL)
    ELSE b \o [i \in 1..t.len |-> b[(Len(b) - t.dist) + 1 + ((i - 1) % t.dist)]]

\* f[k] is what the first k tokens make of b.
Reads(f, b, tokens, n) == f = [k \in 0..n |-> IF k = 0 THEN b ELSE Read(f[k - 1], tokens[k])]

LEMMA ReadsExist ==
    ASSUME NEW b, NEW tokens, NEW n \in Nat
    PROVE  \E f : Reads(f, b, tokens, n)
<1> DEFINE T == {k \in Nat : \E f : Reads(f, b, tokens, k)}
<1>1. 0 \in T
  <2>1. Reads([k \in 0..0 |-> b], b, tokens, 0)
    BY DEF Reads
  <2> QED BY <2>1
<1>2. \A k \in Nat : k \in T => k + 1 \in T
  <2> SUFFICES ASSUME NEW k \in Nat, NEW old, Reads(old, b, tokens, k) PROVE \E f : Reads(f, b, tokens, k + 1)
    OBVIOUS
  <2> DEFINE f == [i \in 0..(k + 1) |-> IF i = k + 1 THEN Read(old[k], tokens[k + 1]) ELSE old[i]]
  <2>1. \A i \in 0..(k + 1) : f[i] = IF i = 0 THEN b ELSE Read(f[i - 1], tokens[i])
    <3> TAKE i \in 0..(k + 1)
    <3>1. CASE i = k + 1
      <4>1. i # 0 /\ i - 1 = k /\ k \in 0..(k + 1) /\ f[k] = old[k] /\ f[i] = Read(old[k], tokens[k + 1])
        BY <3>1
      <4> HIDE DEF f
      <4> QED BY <3>1, <4>1
    <3>2. CASE i # k + 1
      <4>1. i \in 0..k /\ f[i] = old[i]
        BY <3>2
      <4>2. i # 0 => i - 1 \in 0..k /\ f[i - 1] = old[i - 1]
        BY <4>1
      <4>3. old[i] = IF i = 0 THEN b ELSE Read(old[i - 1], tokens[i])
        BY <4>1 DEF Reads
      <4> HIDE DEF f
      <4> QED BY <4>1, <4>2, <4>3
    <3> QED BY <3>1, <3>2
  <2>2. f = [i \in 0..(k + 1) |-> f[i]]
    OBVIOUS
  <2> HIDE DEF f
  <2>3. Reads(f, b, tokens, k + 1)
    BY <2>1, <2>2 DEF Reads
  <2> QED BY <2>3
<1>3. T \in SUBSET Nat
  OBVIOUS
<1> HIDE DEF T
<1>4. T = Nat
  BY <1>1, <1>2, <1>3, Induction
<1> QED BY <1>4 DEF T

\* What comes after the first m tokens has no effect on what they make.
LEMMA ReadsAgree ==
    ASSUME NEW b, NEW some, NEW all, NEW m \in Nat, NEW n \in Nat, m <= n,
           \A k \in 1..m : some[k] = all[k],
           NEW f, Reads(f, b, some, m), NEW g, Reads(g, b, all, n)
    PROVE  f[m] = g[m]
<1> DEFINE T == {k \in Nat : k <= m => f[k] = g[k]}
<1>1. 0 \in T
  <2>1. 0 \in 0..m /\ 0 \in 0..n
    OBVIOUS
  <2>2. f[0] = b /\ g[0] = b
    BY <2>1 DEF Reads
  <2> QED BY <2>2
<1>2. \A k \in Nat : k \in T => k + 1 \in T
  <2> SUFFICES ASSUME NEW k \in Nat, k + 1 <= m, f[k] = g[k] PROVE f[k + 1] = g[k + 1]
    OBVIOUS
  <2>1. k + 1 \in 0..m /\ k + 1 \in 0..n /\ k + 1 # 0 /\ (k + 1) - 1 = k /\ k + 1 \in 1..m
    OBVIOUS
  <2>2. f[k + 1] = Read(f[k], some[k + 1]) /\ g[k + 1] = Read(g[k], all[k + 1])
    BY <2>1 DEF Reads
  <2> QED BY <2>1, <2>2
<1>3. T \in SUBSET Nat
  OBVIOUS
<1> HIDE DEF T
<1>4. T = Nat
  BY <1>1, <1>2, <1>3, Induction
<1> QED BY <1>4 DEF T

LEMMA InflatedReads ==
    ASSUME NEW b, NEW tokens, Len(tokens) \in Nat
    PROVE  \E f : Reads(f, b, tokens, Len(tokens)) /\ Inflated(b, tokens) = f[Len(tokens)]
<1> DEFINE g == CHOOSE f : Reads(f, b, tokens, Len(tokens))
<1>1. Reads(g, b, tokens, Len(tokens))
  BY ReadsExist, Zenon
<1>2. Inflated(b, tokens) = g[Len(tokens)]
  BY DEF Inflated, Reads, Read
<1> HIDE DEF g
<1> QED BY <1>1, <1>2

LEMMA InflatedEmpty == ASSUME NEW b PROVE Inflated(b, <<>>) = b
<1>1. Len(<<>>) = 0
  OBVIOUS
<1>2. PICK f : Reads(f, b, <<>>, 0) /\ Inflated(b, <<>>) = f[0]
  BY <1>1, InflatedReads
<1> QED BY <1>2 DEF Reads

LEMMA InflatedAppend ==
    ASSUME NEW b, NEW tokens \in Seq(Tokens), NEW t \in Tokens
    PROVE  Inflated(b, Append(tokens, t)) = Read(Inflated(b, tokens), t)
<1> DEFINE n == Len(tokens)
           all == Append(tokens, t)
<1>1. /\ n \in Nat /\ Len(all) = n + 1 /\ all[n + 1] = t
      /\ \A k \in 1..n : tokens[k] = all[k]
  BY AppendProperties, LenProperties
<1>2. PICK f : Reads(f, b, tokens, n) /\ Inflated(b, tokens) = f[n]
  BY <1>1, InflatedReads
<1> HIDE DEF n, all
<1>3. PICK g : Reads(g, b, all, n + 1) /\ Inflated(b, all) = g[n + 1]
  BY <1>1, InflatedReads
<1>4. f[n] = g[n]
  <2>1. n + 1 \in Nat /\ n <= n + 1
    BY <1>1
  <2> QED BY <1>1, <1>2, <1>3, <2>1, ReadsAgree
<1>5. g[n + 1] = Read(g[n], t)
  <2>1. n + 1 \in 0..(n + 1) /\ n + 1 # 0 /\ (n + 1) - 1 = n
    BY <1>1
  <2> QED BY <1>1, <1>3, <2>1 DEF Reads
<1> QED BY <1>2, <1>3, <1>4, <1>5 DEF all

LEMMA LiteralReads ==
    ASSUME NEW src \in Seq(Nat), NEW q \in Nat, q < Len(src)
    PROVE  /\ Literal(src[q + 1]) \in Tokens
           /\ Read(SubSeq(src, 1, q), Literal(src[q + 1])) = SubSeq(src, 1, q + 1)
<1>1. Len(src) \in Nat /\ src[q + 1] \in Nat
  BY LenProperties, ElementOfSeq
<1>2. Literal(src[q + 1]) \in Tokens
  BY <1>1 DEF Literal, Tokens
<1>3. Read(SubSeq(src, 1, q), Literal(src[q + 1])) = Append(SubSeq(src, 1, q), src[q + 1])
  BY DEF Read, Literal
<1>4. SubSeq(src, 1, q + 1) = SubSeq(src, 1, q) \o <<src[q + 1]>>
  <2>1. 1 \in 1..Len(src) /\ q + 1 \in 1..Len(src) /\ (q + 1) - 1 = q
    BY <1>1
  <2> QED BY <2>1, SubSeqRecursiveSecond
<1>5. SubSeq(src, 1, q) \in Seq(Nat)
  BY <1>1, SubSeqProperties, ElementOfSeq
<1> QED BY <1>1, <1>2, <1>3, <1>4, <1>5, AppendIsConcat

\* The n bytes from position q on are those at distance d before them.
Repeats(src, q, d, n) == \A k \in 0..(n - 1) : src[q - d + k + 1] = src[q + k + 1]

\* They come round every d bytes.
Periodic(src, q, d, n) == \A k \in 0..(n - 1) : src[q + k + 1] = src[q - d + (k % d) + 1]

\* Bytes that equal those at a distance repeat with that period, so that a
\* reader may copy from what it has, also when the match is longer than that.
LEMMA MatchIsPeriodic ==
    ASSUME NEW src, NEW q \in Nat, NEW d \in Nat \ {0}, d <= q, NEW len \in Nat,
           Repeats(src, q, d, len)
    PROVE  Periodic(src, q, d, len)
<1> DEFINE Bad == {k \in 0..(len - 1) : src[q + k + 1] # src[q - d + (k % d) + 1]}
<1> SUFFICES ASSUME NEW x \in Bad PROVE FALSE
  BY DEF Periodic
<1>1. PICK m \in Bad : \A k \in Bad : m <= k
  <2>1. Bad \in SUBSET Nat
    OBVIOUS
  <2> HIDE DEF Bad
  <2> QED BY <2>1, LeastOf
<1>2. m \in 0..(len - 1) /\ src[q + m + 1] # src[q - d + (m % d) + 1]
  OBVIOUS
<1>3. src[q - d + m + 1] = src[q + m + 1]
  BY <1>2 DEF Repeats
<1> HIDE DEF Bad
<1>4. CASE m < d
  <2>1. m \in Int /\ 0 <= m
    BY <1>2
  <2>2. m % d = m
    BY <1>4, <2>1, ModSmall
  <2> QED BY <1>2, <1>3, <2>2
<1>5. CASE m >= d
  <2>1. m - d \in 0..(len - 1) /\ ~ (m <= m - d)
    BY <1>2, <1>5
  <2>2. m - d \notin Bad
    BY <1>1, <2>1
  <2>3. src[q + (m - d) + 1] = src[q - d + ((m - d) % d) + 1]
    BY <2>1, <2>2 DEF Bad
  <2>4. (m - d) % d = m % d
    <3>1. m \in Int /\ d \in Int
      BY <1>2
    <3>2. m = d * (m \div d) + (m % d) /\ m \div d \in Int /\ m % d \in 0..(d - 1)
      BY <3>1, Division
    <3>3. m - d = d * ((m \div d) - 1) + (m % d) /\ (m \div d) - 1 \in Int
      BY <3>1, <3>2
    <3>4. (d * ((m \div d) - 1) + (m % d)) % d = m % d
      BY <3>2, <3>3, DivisionUnique
    <3> QED BY <3>3, <3>4
  <2>5. q + (m - d) + 1 = q - d + m + 1
    BY <1>2
  <2> QED BY <1>2, <1>3, <2>3, <2>4, <2>5
<1> QED BY <1>2, <1>4, <1>5

LEMMA MatchReads ==
    ASSUME NEW src \in Seq(Nat), NEW q \in Nat, NEW n \in MinMatch..MaxMatch, NEW d \in 1..WSize,
           d <= q, q + n <= Len(src),
           Repeats(src, q, d, n),
           NEW m, m.len = n, m.dist = d
    PROVE  /\ Match(m) \in Tokens
           /\ Read(SubSeq(src, 1, q), Match(m)) = SubSeq(src, 1, q + n)
<1> DEFINE b == SubSeq(src, 1, q)
<1>1. d \in Nat \ {0} /\ d <= WSize /\ n \in Nat /\ n >= 3 /\ n <= MaxMatch /\ Len(src) \in Nat
  BY Sizes, LenProperties
<1>2. Match(m) \in Tokens
  BY DEF Match, Tokens
<1>3. b \in Seq(Nat) /\ Len(b) = q /\ \A i \in 1..q : b[i] = src[i]
  <2>1. \A i \in 1..q : src[i] \in Nat
    BY <1>1, ElementOfSeq
  <2>2. /\ b \in Seq(Nat) /\ Len(b) = IF 1 <= q THEN q - 1 + 1 ELSE 0
        /\ \A i \in 1..(q - 1 + 1) : b[i] = src[1 + i - 1]
    BY <2>1, SubSeqProperties
  <2> HIDE DEF b
  <2> QED BY <2>2
<1> HIDE DEF b
<1> DEFINE t == Match(m)
           copy == [i \in 1..t.len |-> b[(Len(b) - t.dist) + 1 + ((i - 1) % t.dist)]]
<1>4. t.len = n /\ t.dist = d
  BY DEF Match
<1> HIDE DEF t
<1>4a. Read(b, t) = b \o copy
  <2>1. t.len # 0 /\ ~ (t.dist > Len(b) \/ t.dist > WSize)
    BY Sizes, <1>1, <1>3, <1>4
  <2> QED BY <2>1, Zenon DEF Read
<1>4b. \A i \in 1..n : copy[i] = b[(q - d) + 1 + ((i - 1) % d)]
  BY <1>3, <1>4
<1>4c. \A k \in 0..(n - 1) : src[q + k + 1] = src[q - d + (k % d) + 1]
  <2>1. Periodic(src, q, d, n)
    BY <1>1, MatchIsPeriodic
  <2> QED BY <2>1 DEF Periodic
<1>5. \A i \in 1..n : copy[i] = src[q + i] /\ copy[i] \in Nat
  <2> TAKE i \in 1..n
  <2> HIDE DEF copy
  <2>0. i - 1 \in Int /\ i - 1 \in 0..(n - 1)
    BY <1>1
  <2>1. (i - 1) % d \in 0..(d - 1)
    BY <1>1, <2>0, Division
  <2>2. (q - d) + 1 + ((i - 1) % d) \in 1..q
    <3> DEFINE r == (i - 1) % d
    <3>1. r \in 0..(d - 1)
      BY <2>1
    <3> HIDE DEF r
    <3>2. (q - d) + 1 + r \in 1..q
      BY <1>1, <3>1
    <3> QED BY <3>2 DEF r
  <2>4. src[q + (i - 1) + 1] = src[q - d + ((i - 1) % d) + 1]
    BY <1>4c, <2>0
  <2>5. q + (i - 1) + 1 = q + i /\ q - d + ((i - 1) % d) + 1 = (q - d) + 1 + ((i - 1) % d)
    BY <1>1, <2>0, <2>1
  <2>6. copy[i] = src[(q - d) + 1 + ((i - 1) % d)]
    BY <1>3, <1>4b, <2>2
  <2>7. src[q + i] \in Nat
    BY <1>1, ElementOfSeq
  <2> QED BY <2>4, <2>5, <2>6, <2>7
<1>6. copy \in Seq(Nat) /\ Len(copy) = n
  <2>1. copy \in [1..n -> Nat]
    BY <1>4, <1>5
  <2> HIDE DEF copy
  <2> QED BY <1>1, <2>1
<1>7. copy = SubSeq(src, q + 1, q + n)
  <2> DEFINE s == SubSeq(src, q + 1, q + n)
  <2>1. \A i \in (q + 1)..(q + n) : src[i] \in Nat
    BY <1>1, ElementOfSeq
  <2>2. /\ s \in Seq(Nat) /\ Len(s) = IF q + 1 <= q + n THEN (q + n) - (q + 1) + 1 ELSE 0
        /\ \A i \in 1..((q + n) - (q + 1) + 1) : s[i] = src[(q + 1) + i - 1]
    <3>1. q + 1 \in Int /\ q + n \in Int
      BY <1>1
    <3> QED BY <2>1, <3>1, SubSeqProperties
  <2> HIDE DEF s, copy
  <2>3. Len(s) = n /\ \A i \in 1..n : s[i] = copy[i]
    BY <1>1, <1>5, <2>2
  <2>4. copy = s
    BY <1>6, <2>2, <2>3, SeqEqual
  <2> QED BY <2>4 DEF s
<1>8. SubSeq(src, 1, q) \o SubSeq(src, q + 1, q + n) = SubSeq(src, 1, q + n)
  <2>1. 1 \in 1..(Len(src) + 1) /\ q \in (1 - 1)..Len(src) /\ q + n \in q..Len(src)
    BY <1>1
  <2> QED BY <2>1, ConcatAdjacentSubSeq
<1> HIDE DEF copy
<1> QED BY <1>2, <1>4a, <1>7, <1>8 DEF b, t

-----------------------------------------------------------------------------
(* Functions defined by recursion over a range.                            *)

LEMMA StaysIn ==
    ASSUME NEW X, NEW a \in Nat, NEW n \in Nat, NEW f, f[a] \in X,
           \A k \in (a + 1)..n : f[k - 1] \in X => f[k] \in X
    PROVE  \A k \in a..n : f[k] \in X
<1> DEFINE T == {d \in Nat : a + d <= n => f[a + d] \in X}
<1>1. 0 \in T
  OBVIOUS
<1>2. \A d \in Nat : d \in T => d + 1 \in T
  <2> SUFFICES ASSUME NEW d \in Nat, f[a + d] \in X, a + (d + 1) <= n PROVE f[a + (d + 1)] \in X
    OBVIOUS
  <2>1. a + (d + 1) \in (a + 1)..n /\ (a + (d + 1)) - 1 = a + d
    OBVIOUS
  <2> QED BY <2>1
<1>3. T \in SUBSET Nat
  OBVIOUS
<1> HIDE DEF T
<1>4. T = Nat
  BY <1>1, <1>2, <1>3, Induction
<1> SUFFICES ASSUME NEW k \in a..n PROVE f[k] \in X
  OBVIOUS
<1>5. k - a \in Nat /\ a + (k - a) = k /\ k <= n
  OBVIOUS
<1>6. k - a \in T
  BY <1>4, <1>5
<1> QED BY <1>5, <1>6 DEF T

\* f[k] is what step makes of f[k - 1].
Iterates(f, base, step, a, n) == \A k \in a..n : f[k] = IF k = a THEN base ELSE step[<<k, f[k - 1]>>]

LEMMA RecursionExists ==
    ASSUME NEW X, NEW base \in X, NEW a \in Nat, NEW n \in Nat, a <= n,
           NEW step \in [((a + 1)..n) \X X -> X]
    PROVE  \E f \in [a..n -> X] : Iterates(f, base, step, a, n)
<1> DEFINE T == {d \in Nat : a + d <= n => \E f \in [a..(a + d) -> X] : Iterates(f, base, step, a, a + d)}
<1>1. 0 \in T
  <2> DEFINE f == [k \in a..(a + 0) |-> base]
  <2>1. f \in [a..(a + 0) -> X] /\ \A k \in a..(a + 0) : k = a /\ f[k] = base
    OBVIOUS
  <2> HIDE DEF f
  <2>2. Iterates(f, base, step, a, a + 0)
    BY <2>1 DEF Iterates
  <2> QED BY <2>1, <2>2
<1>2. \A d \in Nat : d \in T => d + 1 \in T
  <2> SUFFICES ASSUME NEW d \in Nat, a + (d + 1) <= n,
                      NEW old \in [a..(a + d) -> X], Iterates(old, base, step, a, a + d)
               PROVE  \E f \in [a..(a + (d + 1)) -> X] : Iterates(f, base, step, a, a + (d + 1))
    OBVIOUS
  <2> DEFINE e == a + d + 1
             f == [k \in a..e |-> IF k = e THEN step[<<e, old[e - 1]>>] ELSE old[k]]
  <2>1. e \in (a + 1)..n /\ e - 1 = a + d /\ e = a + (d + 1) /\ e # a /\ e - 1 \in a..e /\ e \in a..e
    OBVIOUS
  <2> HIDE DEF e
  <2>2. old[e - 1] \in X
    BY <2>1
  <2>3. step[<<e, old[e - 1]>>] \in X
    BY <2>1, <2>2
  <2>4. f \in [a..e -> X]
    BY <2>1, <2>3
  <2>5. Iterates(f, base, step, a, e)
    <3> SUFFICES ASSUME NEW k \in a..e PROVE f[k] = IF k = a THEN base ELSE step[<<k, f[k - 1]>>]
      BY DEF Iterates
    <3>1. CASE k = e
      <4>1. f[k] = step[<<e, old[e - 1]>>] /\ f[e - 1] = old[e - 1]
        BY <2>1, <3>1
      <4> HIDE DEF f
      <4> QED BY <2>1, <3>1, <4>1
    <3>2. CASE k # e
      <4>1. k \in a..(a + d) /\ f[k] = old[k]
        BY <2>1, <3>2
      <4>2. k # a => k - 1 \in a..e /\ k - 1 # e /\ f[k - 1] = old[k - 1]
        BY <2>1, <4>1
      <4>3. old[k] = IF k = a THEN base ELSE step[<<k, old[k - 1]>>]
        BY <4>1 DEF Iterates
      <4> HIDE DEF f
      <4> QED BY <4>1, <4>2, <4>3
    <3> QED BY <3>1, <3>2
  <2> HIDE DEF f
  <2> QED BY <2>1, <2>4, <2>5
<1>3. T \in SUBSET Nat
  OBVIOUS
<1> HIDE DEF T
<1>4. T = Nat
  BY <1>1, <1>2, <1>3, Induction
<1>5. n - a \in Nat /\ a + (n - a) = n /\ n <= n
  OBVIOUS
<1>6. n - a \in T
  BY <1>4, <1>5
<1> QED BY <1>5, <1>6 DEF T

-----------------------------------------------------------------------------
(* The hash chains.                                                        *)

LEMMA SeenGrows ==
    ASSUME NEW p \in Int, NEW q \in Int, p <= q
    PROVE  Seen(p) \subseteq Seen(q) /\ Tables(p) \subseteq Tables(q)
<1>1. Seen(p) \subseteq Seen(q)
  BY DEF Seen
<1> QED BY <1>1 DEF Tables

LEMMA SeenPlaces ==
    ASSUME NEW q \in Int
    PROVE  /\ Seen(q) \subseteq Ring \cup {NIL} /\ NIL \in Seen(q)
           /\ \A p \in 0..q : p % RingSize \in Seen(q) /\ p % RingSize \in Ring
<1>1. \A p \in 0..q : p % RingSize \in Ring
  BY Sizes, Division DEF Ring
<1> QED BY <1>1 DEF Seen

LEMMA InsertedKeeps ==
    ASSUME ring \in [Ring -> Nat \cup {NIL}], NEW q \in Int, NEW p \in 0..q, NEW t \in Tables(q)
    PROVE  Inserted(t, p % RingSize) \in Tables(q)
<1> DEFINE i == p % RingSize
<1>1. i \in Ring /\ i \in Seen(q)
  BY SeenPlaces
<1> HIDE DEF i
<1>2. Hash(i) \in 0..(HSize - 1)
  <2>1. i + 1 \in Int /\ i + 2 \in Int
    BY <1>1, Sizes DEF Ring
  <2>2. (i + 1) % RingSize \in Ring /\ (i + 2) % RingSize \in Ring
    BY <2>1, Sizes, Division DEF Ring
  <2>3. ring[i] \in Int /\ ring[(i + 1) % RingSize] \in Int /\ ring[(i + 2) % RingSize] \in Int
    BY <1>1, <2>2 DEF NIL
  <2> DEFINE h == 4 * ring[i] + 2 * ring[(i + 1) % RingSize] + ring[(i + 2) % RingSize]
  <2>4. h \in Int
    BY <2>3
  <2> HIDE DEF h
  <2>5. h % HSize \in 0..(HSize - 1)
    BY <2>4, Sizes, Division
  <2> QED BY <2>5 DEF h, Hash
<1>3. t.head \in [0..(HSize - 1) -> Seen(q)] /\ t.prev \in [Ring -> Seen(q)]
  BY DEF Tables
<1>4. Inserted(t, i) \in Tables(q)
  BY <1>1, <1>2, <1>3 DEF Inserted, Tables
<1> QED BY <1>4 DEF i

LEMMA InsertedAllKeeps ==
    ASSUME ring \in [Ring -> Nat \cup {NIL}], NEW q \in Nat, NEW t \in Tables(q), end \in Nat,
           NEW start \in Nat, NEW from \in Nat, NEW len \in Nat, start + len <= q + 1
    PROVE  InsertedAll(t, start, from, len) \in Tables(q)
<1> SUFFICES ASSUME from < len PROVE InsertedAll(t, start, from, len) \in Tables(q)
  BY DEF InsertedAll
<1> DEFINE Add(k, x) == LET p == start + k - 1
                         IN  IF p + MinMatch <= end THEN Inserted(x, p % RingSize) ELSE x
           Upto(f) == f = [k \in from..len |-> IF k = from THEN t ELSE Add(k, f[k - 1])]
           step == [p \in ((from + 1)..len) \X Tables(q) |-> Add(p[1], p[2])]
           f == CHOOSE g : Upto(g)
<1>1. InsertedAll(t, start, from, len) = f[len]
  BY DEF InsertedAll
<1>2. \A k \in (from + 1)..len, x \in Tables(q) : Add(k, x) \in Tables(q)
  <2> TAKE k \in (from + 1)..len, x \in Tables(q)
  <2>1. start + k - 1 \in 0..q
    OBVIOUS
  <2> QED BY <2>1, InsertedKeeps
<1> HIDE DEF Add
<1>3. step \in [((from + 1)..len) \X Tables(q) -> Tables(q)]
  BY <1>2
<1>4. Upto(f)
  <2> HIDE DEF step
  <2>1. PICK g \in [from..len -> Tables(q)] : Iterates(g, t, step, from, len)
    <3>1. from <= len
      OBVIOUS
    <3> QED BY <1>3, <3>1, RecursionExists
  <2>2. \A k \in from..len : g[k] = IF k = from THEN t ELSE Add(k, g[k - 1])
    <3> TAKE k \in from..len
    <3>1. CASE k = from
      BY <2>1, <3>1 DEF Iterates
    <3>2. CASE k # from
      <4>1. k \in (from + 1)..len /\ k - 1 \in from..len /\ g[k - 1] \in Tables(q)
        BY <3>2
      <4>2. step[<<k, g[k - 1]>>] = Add(k, g[k - 1])
        BY <4>1 DEF step
      <4> QED BY <2>1, <3>2, <4>2 DEF Iterates
    <3> QED BY <3>1, <3>2
  <2>3. Upto(g)
    <3>1. g = [k \in from..len |-> g[k]]
      OBVIOUS
    <3> QED BY <2>2, <3>1
  <2> HIDE DEF Upto
  <2> QED BY <2>3, Zenon
<1>5. /\ f[from] = t
      /\ \A k \in (from + 1)..len : f[k] = Add(k, f[k - 1])
  <2> HIDE DEF f
  <2>1. from \in from..len
    OBVIOUS
  <2>2. \A k \in from..len : f[k] = IF k = from THEN t ELSE Add(k, f[k - 1])
    BY <1>4
  <2>3. \A k \in (from + 1)..len : k \in from..len /\ k # from
    OBVIOUS
  <2> QED BY <2>1, <2>2, <2>3
<1> HIDE DEF f
<1>6. \A k \in (from + 1)..len : f[k - 1] \in Tables(q) => f[k] \in Tables(q)
  BY <1>2, <1>5
<1>7. f[from] \in Tables(q)
  BY <1>5
<1>8. \A k \in from..len : f[k] \in Tables(q)
  BY <1>6, <1>7, StaysIn
<1> QED BY <1>1, <1>8

\* Every entry that is visited is one of the table.
LEMMA ChainIsSeen ==
    ASSUME NEW q \in Int, NEW t \in Tables(q), NEW ci \in Ring, o.chain \in Nat
    PROVE  LET follow == [i \in Ring \cup {NIL} |-> IF i = NIL THEN NIL ELSE t.prev[i]]
               f == CHOOSE g : g = [k \in 0..o.chain |-> IF k = 0 THEN t.prev[ci] ELSE follow[g[k - 1]]]
           IN  \A k \in 0..o.chain : f[k] \in Seen(q)
<1> DEFINE follow == [i \in Ring \cup {NIL} |-> IF i = NIL THEN NIL ELSE t.prev[i]]
           Entries(g) == g = [k \in 0..o.chain |-> IF k = 0 THEN t.prev[ci] ELSE follow[g[k - 1]]]
           f == CHOOSE g : Entries(g)
           step == [p \in ((0 + 1)..o.chain) \X Seen(q) |-> follow[p[2]]]
<1>1. t.prev \in [Ring -> Seen(q)] /\ Seen(q) \subseteq Ring \cup {NIL} /\ NIL \in Seen(q)
  BY SeenPlaces DEF Tables
<1>2. \A e \in Seen(q) : follow[e] \in Seen(q)
  BY <1>1
<1> HIDE DEF follow
<1>3. step \in [((0 + 1)..o.chain) \X Seen(q) -> Seen(q)]
  BY <1>2
<1>4. t.prev[ci] \in Seen(q)
  BY <1>1
<1>5. Entries(f)
  <2> HIDE DEF step
  <2>1. PICK g \in [0..o.chain -> Seen(q)] : Iterates(g, t.prev[ci], step, 0, o.chain)
    <3>1. 0 \in Nat /\ 0 <= o.chain
      OBVIOUS
    <3> QED BY <1>3, <1>4, <3>1, RecursionExists
  <2>2. \A k \in 0..o.chain : g[k] = IF k = 0 THEN t.prev[ci] ELSE follow[g[k - 1]]
    <3> TAKE k \in 0..o.chain
    <3>1. CASE k = 0
      BY <2>1, <3>1 DEF Iterates
    <3>2. CASE k # 0
      <4>1. k \in (0 + 1)..o.chain /\ k - 1 \in 0..o.chain /\ g[k - 1] \in Seen(q)
        BY <3>2
      <4>2. step[<<k, g[k - 1]>>] = follow[g[k - 1]]
        BY <4>1 DEF step
      <4> QED BY <2>1, <3>2, <4>2 DEF Iterates
    <3> QED BY <3>1, <3>2
  <2>3. g = [k \in 0..o.chain |-> g[k]]
    OBVIOUS
  <2>4. Entries(g)
    BY <2>2, <2>3
  <2> HIDE DEF Entries
  <2> QED BY <2>4, Zenon
<1> HIDE DEF f
<1>6. f[0] = t.prev[ci] /\ \A k \in (0 + 1)..o.chain : f[k] = follow[f[k - 1]]
  <2>1. \A k \in 0..o.chain : f[k] = IF k = 0 THEN t.prev[ci] ELSE follow[f[k - 1]]
    BY <1>5
  <2>2. 0 \in 0..o.chain /\ \A k \in (0 + 1)..o.chain : k \in 0..o.chain /\ k # 0
    OBVIOUS
  <2> QED BY <2>1, <2>2
<1>7. \A k \in (0 + 1)..o.chain : f[k - 1] \in Seen(q) => f[k] \in Seen(q)
  BY <1>2, <1>6
<1>8. \A k \in 0..o.chain : f[k] \in Seen(q)
  <2>1. 0 \in Nat /\ f[0] \in Seen(q)
    BY <1>4, <1>6
  <2> QED BY <1>7, <2>1, StaysIn
<1> QED BY <1>8 DEF f, follow

-----------------------------------------------------------------------------
(* The match finder.                                                       *)

LEMMA CommonBytes ==
    ASSUME NEW i, NEW j, NEW max \in Nat
    PROVE  /\ Common(i, j, max) \in 0..max
           /\ \A k \in 0..(Common(i, j, max) - 1) : ring[(i + k) % RingSize] = ring[(j + k) % RingSize]
<1> DEFINE Same(k) == ring[(i + k) % RingSize] = ring[(j + k) % RingSize]
           Ends(l) == (\A k \in 0..(l - 1) : Same(k)) /\ (l < max => ~Same(l))
           T == {l \in Nat : l = max \/ (l < max /\ ~Same(l))}
<1>1. PICK m \in T : \A k \in T : m <= k
  <2>1. T \in SUBSET Nat /\ max \in T
    OBVIOUS
  <2> HIDE DEF T
  <2> QED BY <2>1, LeastOf
<1> HIDE DEF Same
<1>2. m \in 0..max /\ Ends(m)
  <2>1. m \in Nat /\ m <= max /\ (m < max => ~Same(m))
    BY <1>1
  <2>2. \A k \in 0..(m - 1) : Same(k)
    <3> SUFFICES ASSUME NEW k \in 0..(m - 1), ~Same(k) PROVE FALSE
      OBVIOUS
    <3>1. k \in Nat /\ k < max /\ ~ (m <= k)
      BY <2>1
    <3>2. k \in T
      BY <3>1
    <3> HIDE DEF T
    <3> QED BY <1>1, <3>1, <3>2
  <2> QED BY <2>1, <2>2
<1>3. Common(i, j, max) = CHOOSE l \in 0..max : Ends(l)
  BY DEF Common, Same
<1> HIDE DEF Ends, T
<1>4. Common(i, j, max) \in 0..max /\ Ends(Common(i, j, max))
  BY <1>2, <1>3, Zenon
<1> QED BY <1>4 DEF Ends, Same

\* Of finitely many matches one is the longest, and the nearest of those.
LEMMA BestExists ==
    ASSUME NEW long \in SUBSET Nat, long # {}, NEW max \in Nat, NEW len \in [long -> 0..max]
    PROVE  \E k \in long : \A j \in long : len[j] < len[k] \/ (len[j] = len[k] /\ k <= j)
<1> DEFINE gaps == {max - len[k] : k \in long}
<1>0. \A k \in long : len[k] \in 0..max
  OBVIOUS
<1>1. gaps \in SUBSET Nat /\ gaps # {}
  <2>1. \A k \in long : max - len[k] \in Nat
    BY <1>0
  <2>2. PICK k \in long : TRUE
    OBVIOUS
  <2>3. max - len[k] \in gaps
    OBVIOUS
  <2> QED BY <2>1, <2>3
<1>2. PICK g \in gaps : \A x \in gaps : g <= x
  <2> HIDE DEF gaps
  <2> QED BY <1>1, LeastOf
<1>3. PICK a \in long : g = max - len[a]
  OBVIOUS
<1>4. \A k \in long : len[k] \in Nat /\ len[k] <= max /\ len[k] <= len[a]
  <2> TAKE k \in long
  <2>1. max - len[k] \in gaps
    OBVIOUS
  <2>2. max - len[a] <= max - len[k]
    BY <1>2, <1>3, <2>1
  <2> QED BY <1>0, <2>2
<1> DEFINE longest == {k \in long : len[k] = len[a]}
<1>5. PICK k \in longest : \A j \in longest : k <= j
  <2>1. longest \in SUBSET Nat /\ a \in longest
    OBVIOUS
  <2> HIDE DEF longest
  <2> QED BY <2>1, LeastOf
<1>6. \A j \in long : len[j] < len[k] \/ (len[j] = len[k] /\ k <= j)
  <2> TAKE j \in long
  <2>1. len[j] \in Nat /\ len[a] \in Nat /\ len[j] <= len[a] /\ len[k] = len[a]
    BY <1>4
  <2>2. len[j] = len[a] => k <= j
    BY <1>5
  <2> QED BY <2>1, <2>2
<1> QED BY <1>6

\* A match comes from an entry of the table, at a distance that was tested,
\* and is as long as was compared.
LEMMA MatchFromChain ==
    ASSUME NEW q \in Int, NEW t \in Tables(q), NEW ci \in Ring, NEW max \in Nat, o.chain \in Nat,
           LongestMatch(t, ci, max) # NoMatch
    PROVE  \E e \in Seen(q) \ {NIL} :
              /\ ~TooFar((ci - e) % RingSize)
              /\ Common(e, ci, max) >= MinMatch
              /\ LongestMatch(t, ci, max) = [len |-> Common(e, ci, max), dist |-> (ci - e) % RingSize]
<1> DEFINE follow == [i \in Ring \cup {NIL} |-> IF i = NIL THEN NIL ELSE t.prev[i]]
           entry == CHOOSE f : f = [k \in 0..o.chain |-> IF k = 0 THEN t.prev[ci] ELSE follow[f[k - 1]]]
           dist(k) == (ci - entry[k]) % RingSize
           len(k) == Common(entry[k], ci, max)
           usable(k) == entry[k] # NIL /\ ~TooFar(dist(k))
           visited == {k \in 0..(o.chain - 1) :
                          \A j \in 0..k : usable(j) /\ (j < k => len(j) < o.nice /\ len(j) < max)}
           long == {k \in visited : len(k) >= MinMatch}
           Best(k) == \A j \in long : len(j) < len(k) \/ (len(j) = len(k) /\ k <= j)
           best == CHOOSE k \in long : Best(k)
<1>1. LongestMatch(t, ci, max) = IF long = {} THEN NoMatch ELSE [len |-> len(best), dist |-> dist(best)]
  BY DEF LongestMatch
<1>2. \A k \in 0..o.chain : entry[k] \in Seen(q)
  BY ChainIsSeen
<1> HIDE DEF follow, entry
<1>3. long # {} /\ LongestMatch(t, ci, max) = [len |-> len(best), dist |-> dist(best)]
  BY <1>1
<1>4. \A k \in long : k \in 0..o.chain /\ k \in Nat /\ usable(k) /\ len(k) >= MinMatch
  OBVIOUS
<1>5. \A k \in long : len(k) \in 0..max
  BY CommonBytes
<1>6. best \in long
  <2> DEFINE lens == [k \in long |-> len(k)]
  <2> HIDE DEF long, len
  <2>1. long \in SUBSET Nat /\ lens \in [long -> 0..max]
    BY <1>4, <1>5
  <2> HIDE DEF lens
  <2>2. PICK k \in long : \A j \in long : lens[j] < lens[k] \/ (lens[j] = lens[k] /\ k <= j)
    BY <1>3, <2>1, BestExists
  <2>3. Best(k)
    BY <2>2 DEF lens
  <2> HIDE DEF Best
  <2> QED BY <2>3, Zenon
<1> HIDE DEF long, best
<1>7. entry[best] \in Seen(q) \ {NIL}
  BY <1>2, <1>4, <1>6
<1> QED BY <1>3, <1>4, <1>6, <1>7

\* What a reader may take for the bytes from q on, at most max of them.
IsMatch(m, q, max) ==
    /\ m.len \in MinMatch..max /\ m.dist \in 1..WSize /\ m.dist <= q
    /\ Repeats(o.src, q, m.dist, m.len)

LEMMA RingByte ==
    ASSUME ~o.stored, WindowKept, pos \in Nat, end \in Nat,
           NEW p \in Nat, p + WSize >= pos, p < end
    PROVE  ring[p % RingSize] = o.src[p + 1]
<1>1. p \in (IF pos > WSize THEN pos - WSize ELSE 0)..(end - 1)
  BY Sizes
<1> QED BY <1>1 DEF WindowKept

\* The chains lead to places of the ring, of which the position may be a whole
\* ring away; but the distance is taken modulo the ring, and what is there is
\* what was fed at that distance.
LEMMA MatchIsRight ==
    ASSUME ~o.stored, WindowKept, pos \in Nat, end \in Nat, o.chain \in Nat,
           NEW q \in Nat, q >= pos, NEW max \in Nat, q + max <= end, NEW t \in Tables(q),
           LongestMatch(t, q % RingSize, max) # NoMatch
    PROVE  IsMatch(LongestMatch(t, q % RingSize, max), q, max)
<1> DEFINE ci == q % RingSize
           m == LongestMatch(t, ci, max)
<1>0. RingSize \in Nat \ {0} /\ WSize \in Nat /\ q \in Int /\ MinMatch = 3
  BY Sizes
<1>1. ci \in Ring
  BY <1>0, Division DEF Ring
<1>2. PICK e \in Seen(q) \ {NIL} :
         /\ ~TooFar((ci - e) % RingSize)
         /\ Common(e, ci, max) >= MinMatch
         /\ m = [len |-> Common(e, ci, max), dist |-> (ci - e) % RingSize]
  BY <1>0, <1>1, MatchFromChain
<1>3. PICK p \in 0..q : e = p % RingSize
  BY DEF Seen
<1> DEFINE d == (q - p) % RingSize
<1>4. p \in Int /\ q - p \in Int /\ e \in Int
  BY <1>0, <1>3, Division
<1>5. (ci - e) % RingSize = d
  <2>1. (ci - e) % RingSize = (q - e) % RingSize
    BY <1>0, <1>4, ModShift
  <2>2. (q - e) % RingSize = (q - p) % RingSize
    <3>1. (q - (p % RingSize)) % RingSize = (q - p) % RingSize
      BY <1>0, <1>4, ModShift, Zenon
    <3> QED BY <1>3, <3>1, Zenon
  <2> QED BY <2>1, <2>2
<1>6. d \in Nat /\ d <= q
  <2>0. 0 <= q - p /\ q - p <= q
    BY <1>3
  <2>1. d \in 0..(RingSize - 1)
    BY <1>0, <1>4, Division
  <2>1a. d <= q - p
    BY <1>0, <1>4, <2>0, ModSmall
  <2> HIDE DEF d
  <2> QED BY <1>0, <1>4, <2>0, <2>1, <2>1a
<1>7. d # 0 /\ d <= WSize
  <2>1. ~TooFar(d)
    BY <1>2, <1>5
  <2> HIDE DEF d
  <2> QED BY <1>0, <1>6, <2>1 DEF TooFar
<1> DEFINE l == Common(e, ci, max)
<1>8. /\ l \in 0..max /\ l >= MinMatch
      /\ \A k \in 0..(l - 1) : ring[(e + k) % RingSize] = ring[(ci + k) % RingSize]
  BY <1>2, CommonBytes
<1>9. m.len = l /\ m.dist = d
  BY <1>2, <1>5
<1> HIDE DEF l, m
<1>10. ASSUME NEW k \in 0..(l - 1)
       PROVE  o.src[q - d + k + 1] = o.src[q + k + 1]
  <2>0. k \in Nat /\ k < max /\ k \in Int
    BY <1>8
  <2>1. (ci + k) % RingSize = (q + k) % RingSize
    BY <1>0, <2>0, ModShift
  <2>2. (e + k) % RingSize = (p + k) % RingSize
    <3>0. p \in Int /\ k \in Int /\ RingSize \in Nat \ {0}
      BY <1>0, <1>4, <2>0
    <3>1. ((p % RingSize) + k) % RingSize = (p + k) % RingSize
      BY ONLY <3>0, ModShift, Zenon
    <3> QED BY <1>3, <3>1
  <2>3. ((q + k) - d) % RingSize = (p + k) % RingSize
    <3>1. q + k \in Int /\ (q + k) - (q - p) = p + k
      BY <1>4, <2>0
    <3>2. ((q + k) - ((q - p) % RingSize)) % RingSize = ((q + k) - (q - p)) % RingSize
      BY <1>0, <1>4, <3>1, ModShift
    <3> QED BY <3>1, <3>2
  <2> HIDE DEF d, ci
  <2>4. (q + k) - d \in Nat /\ ((q + k) - d) + WSize >= pos /\ (q + k) - d < end
    BY <1>0, <1>6, <1>7, <2>0
  <2>5. q + k \in Nat /\ (q + k) + WSize >= pos /\ q + k < end
    BY <1>0, <2>0
  <2>6. ring[((q + k) - d) % RingSize] = o.src[((q + k) - d) + 1]
    BY <2>4, RingByte
  <2>7. ring[(q + k) % RingSize] = o.src[(q + k) + 1]
    BY <2>5, RingByte
  <2>8. o.src[((q + k) - d) + 1] = o.src[(q + k) + 1]
    BY <1>8, <2>1, <2>2, <2>3, <2>6, <2>7
  <2>9. ((q + k) - d) + 1 = q - d + k + 1
    BY <1>6, <2>0
  <2> QED BY <2>8, <2>9
<1>11. d \in 1..WSize /\ l \in MinMatch..max
  <2> HIDE DEF d
  <2> QED BY <1>0, <1>6, <1>7, <1>8
<1>12. Repeats(o.src, q, d, l)
  BY <1>10 DEF Repeats
<1> HIDE DEF d
<1> QED BY <1>6, <1>9, <1>11, <1>12 DEF IsMatch, m, ci

-----------------------------------------------------------------------------
(* The invariant.                                                          *)

\* The chains hold nothing that was not consumed; a level 0 has no tokens.
StateInv ==
    /\ tab \in Tables(pos - 1)
    /\ Len(tok) <= TokMax + 1
    /\ o.stored => pos = end /\ tok = <<>>
    /\ phase # "feeding" => end = Len(o.src)
    /\ phase = "done" => pos = end /\ tok = <<>> /\ lasts # <<>>

MarkedOnce == \A k \in 1..Len(lasts) : lasts[k] <=> (phase = "done" /\ k = Len(lasts))

IInv == TypeOK /\ StateInv /\ WindowKept /\ RoundTrip /\ MarkedOnce

LEMMA OptionTypes ==
    ASSUME NEW opt \in Options
    PROVE  opt.src \in Seq(Nat) /\ opt.stored \in BOOLEAN /\ opt.chain \in Nat /\ Len(opt.src) \in Nat
BY OptionsAssumption, LenProperties

LEMMA InputType ==
    ASSUME NEW n \in Nat, o.src \in Seq(Nat), n <= Len(o.src)
    PROVE  Input(n) \in Seq(Nat) /\ Len(Input(n)) = n
<1>1. \A i \in 1..n : o.src[i] \in Nat
  BY LenProperties, ElementOfSeq
<1>2. Input(n) \in Seq(Nat) /\ Len(Input(n)) = IF 1 <= n THEN n - 1 + 1 ELSE 0
  BY <1>1, SubSeqProperties DEF Input
<1> QED BY <1>2

LEMMA InitIInv == Init => IInv
<1> SUFFICES ASSUME Init PROVE IInv
  OBVIOUS
<1>0. /\ o \in Options /\ phase = "feeding" /\ pos = 0 /\ end = 0 /\ tok = <<>> /\ lasts = <<>> /\ restored = <<>>
      /\ ring = [i \in Ring |-> NIL]
      /\ tab = [head |-> [h \in 0..(HSize - 1) |-> NIL], prev |-> [i \in Ring |-> NIL]]
  BY DEF Init
<1>1. Len(o.src) \in Nat
  BY <1>0, OptionTypes
<1>2. tok \in Seq(Tokens) /\ lasts \in Seq(BOOLEAN) /\ restored \in Seq(Nat) /\ Len(tok) = 0 /\ Len(lasts) = 0
  BY <1>0
<1>3. TypeOK
  BY <1>0, <1>1, <1>2 DEF TypeOK
<1>4. tab \in Tables(pos - 1)
  BY <1>0 DEF Tables, Seen
<1>5. StateInv /\ MarkedOnce /\ WindowKept
  BY <1>0, <1>2, <1>4, Sizes DEF StateInv, MarkedOnce, WindowKept
<1>6. RoundTrip
  <2>1. SubSeq(o.src, 1, 0) = <<>>
    BY SubSeqEmpty
  <2> QED BY <1>0, <2>1, InflatedEmpty DEF RoundTrip, Input
<1> QED BY <1>3, <1>5, <1>6 DEF IInv

-----------------------------------------------------------------------------
(* The tokenizer.                                                          *)

LEMMA AppendReads ==
    ASSUME TypeOK, RoundTrip, NEW x \in Tokens
    PROVE  /\ Append(tok, x) \in Seq(Tokens) /\ tok \o <<x>> = Append(tok, x)
           /\ Inflated(restored, Append(tok, x)) = Read(Input(pos), x)
<1>1. tok \in Seq(Tokens)
  BY DEF TypeOK
<1>2. Inflated(restored, Append(tok, x)) = Read(Inflated(restored, tok), x)
  BY <1>1, InflatedAppend
<1> QED BY <1>1, <1>2, AppendIsConcat, AppendProperties DEF RoundTrip

LEMMA EmitKeeps ==
    ASSUME IInv, Steps, NEW tokens, NEW n \in Nat \ {0}, NEW t, Emit(tokens, n, t),
           tok \o tokens \in Seq(Tokens), Len(tok \o tokens) <= Len(tok) + 2,
           Inflated(restored, tok \o tokens) = Input(pos + n),
           pos + n <= end, t \in Tables(pos + n - 1)
    PROVE  IInv'
<1>1. /\ tok' = tok \o tokens /\ pos' = pos + n /\ tab' = t
      /\ UNCHANGED <<o, phase, ring, end, lasts, restored>>
  BY DEF Emit
<1>2. /\ TypeOK /\ StateInv /\ pos \in Nat /\ end \in Nat /\ Len(o.src) \in Nat /\ Len(tok) \in Nat
      /\ tok' \in Seq(Tokens) /\ Len(tok') \in Nat
  <2>1. tok' \in Seq(Tokens)
    BY <1>1
  <2>2. Len(tok) \in Nat /\ Len(tok') \in Nat
    BY <2>1, LenProperties DEF IInv, TypeOK
  <2>3. pos \in Nat /\ end \in Nat /\ Len(o.src) \in Nat
    BY OptionTypes DEF IInv, TypeOK
  <2> QED BY <2>1, <2>2, <2>3 DEF IInv
<1>3. phase # "done" /\ ~o.stored /\ Len(tok) < TokMax
  BY <1>2, Sizes DEF Steps, StateInv
<1>4. tab' \in Tables(pos' - 1)
  <2>1. pos' - 1 = pos + n - 1
    BY <1>1, <1>2
  <2> QED BY ONLY <2>1, <1>1, t \in Tables(pos + n - 1), Zenon
<1>5. TypeOK'
  <2>1. pos' - 1 \in Int /\ Seen(pos' - 1) \subseteq Ring \cup {NIL}
    BY <1>1, <1>2, SeenPlaces
  <2>2. tab'.head \in [0..(HSize - 1) -> Ring \cup {NIL}] /\ tab'.prev \in [Ring -> Ring \cup {NIL}]
    BY <1>4, <2>1 DEF Tables
  <2>3. pos' \in 0..end'
    BY <1>1, <1>2
  <2> QED BY <1>1, <1>2, <2>2, <2>3 DEF TypeOK
<1>6. StateInv'
  <2>1. Len(tok') <= TokMax + 1
    BY <1>1, <1>2, <1>3, Sizes
  <2> QED BY <1>1, <1>2, <1>3, <1>4, <2>1 DEF StateInv
<1>7. WindowKept'
  <2> SUFFICES ASSUME NEW p \in (IF pos' > WSize THEN pos' - WSize ELSE 0)..(end' - 1)
               PROVE  ring'[p % RingSize] = o'.src[p + 1]
    BY DEF WindowKept
  <2>1. p \in Nat /\ p + WSize >= pos /\ p < end
    BY <1>1, <1>2, Sizes
  <2> QED BY <1>1, <1>2, <1>3, <2>1, RingByte DEF IInv
<1>8. RoundTrip'
  BY <1>1 DEF RoundTrip, Input
<1>9. MarkedOnce'
  BY <1>1 DEF IInv, MarkedOnce
<1> QED BY <1>5, <1>6, <1>7, <1>8, <1>9 DEF IInv

LEMMA StepFacts ==
    ASSUME IInv, Steps
    PROVE  /\ ~o.stored /\ o.chain \in Nat /\ o.src \in Seq(Nat) /\ Len(o.src) \in Nat /\ end <= Len(o.src)
           /\ pos \in Nat /\ end \in Nat /\ pos < end
           /\ MaxLen \in Nat /\ MaxLen <= MaxMatch /\ pos + MaxLen <= end
           /\ Hashed \in Tables(pos)
           /\ Found = NoMatch \/ IsMatch(Found, pos, MaxLen)
           /\ ring[Cur] = o.src[pos + 1]
<1>1. /\ TypeOK /\ StateInv /\ pos \in Nat /\ end \in Nat /\ o \in Options /\ Len(o.src) \in Nat /\ end <= Len(o.src)
      /\ o.chain \in Nat /\ o.src \in Seq(Nat) /\ WindowKept
  BY OptionTypes DEF IInv, TypeOK
<1>2. pos < end /\ ~o.stored
  BY <1>1, Sizes DEF Steps, StateInv
<1>3. MaxLen \in Nat /\ MaxLen <= MaxMatch /\ pos + MaxLen <= end
  BY <1>1, <1>2, Sizes DEF MaxLen
<1>4. Hashed \in Tables(pos)
  <2>1. tab \in Tables(pos)
    <3>1. pos - 1 \in Int /\ pos \in Int /\ pos - 1 <= pos
      BY <1>1
    <3>2. Tables(pos - 1) \subseteq Tables(pos)
      BY <3>1, SeenGrows
    <3> QED BY <1>1, <3>2 DEF StateInv
  <2>2. ring \in [Ring -> Nat \cup {NIL}] /\ pos \in 0..pos /\ pos \in Int
    BY <1>1 DEF TypeOK
  <2>3. Inserted(tab, pos % RingSize) \in Tables(pos)
    BY <2>1, <2>2, InsertedKeeps
  <2> QED BY <2>1, <2>3 DEF Hashed, Cur
<1>5. Found = NoMatch \/ IsMatch(Found, pos, MaxLen)
  <2>1. LongestMatch(Hashed, Cur, MaxLen) # NoMatch => IsMatch(LongestMatch(Hashed, Cur, MaxLen), pos, MaxLen)
    <3>1. pos >= pos
      BY <1>1
    <3> HIDE DEF MaxLen, Hashed
    <3> QED BY <1>1, <1>2, <1>3, <1>4, <3>1, MatchIsRight DEF Cur
  <2> QED BY <2>1 DEF Found
<1>6. ring[Cur] = o.src[pos + 1]
  <2>1. pos + WSize >= pos
    BY <1>1, Sizes
  <2> QED BY <1>1, <1>2, <2>1, RingByte DEF Cur
<1> QED BY <1>1, <1>2, <1>3, <1>4, <1>5, <1>6

LEMMA LiteralKeeps == IInv /\ Steps /\ TakeLiteral => IInv'
<1> SUFFICES ASSUME IInv, Steps, TakeLiteral PROVE IInv'
  OBVIOUS
<1> DEFINE x == Literal(ring[Cur])
<1>1. /\ pos \in Nat /\ end \in Nat /\ pos < end /\ end <= Len(o.src) /\ Len(o.src) \in Nat
      /\ o.src \in Seq(Nat) /\ Hashed \in Tables(pos)
      /\ x = Literal(o.src[pos + 1])
  BY StepFacts
<1>2. x \in Tokens /\ Read(Input(pos), x) = Input(pos + 1)
  <2>1. pos < Len(o.src)
    BY <1>1
  <2> HIDE DEF x
  <2> QED BY <1>1, <2>1, LiteralReads DEF Input
<1> HIDE DEF x
<1>3. TypeOK /\ RoundTrip /\ tok \in Seq(Tokens)
  BY DEF IInv, TypeOK
<1>4. /\ tok \o <<x>> = Append(tok, x) /\ Append(tok, x) \in Seq(Tokens)
      /\ Inflated(restored, Append(tok, x)) = Input(pos + 1)
  BY <1>2, <1>3, AppendReads
<1>5. Len(Append(tok, x)) = Len(tok) + 1 /\ Len(tok) \in Nat
  BY <1>2, <1>3, AppendProperties, LenProperties
<1>6. Emit(<<x>>, 1, Hashed)
  BY DEF TakeLiteral, x
<1>7. pos + 1 <= end /\ Len(tok \o <<x>>) <= Len(tok) + 2 /\ 1 \in Nat \ {0}
  BY <1>1, <1>4, <1>5
<1>8. Hashed \in Tables(pos + 1 - 1)
  <2>1. pos + 1 - 1 = pos
    BY <1>1
  <2> QED BY <1>1, <2>1
<1>9. tok \o <<x>> \in Seq(Tokens) /\ Inflated(restored, tok \o <<x>>) = Input(pos + 1)
  BY <1>4
<1> QED BY <1>6, <1>7, <1>8, <1>9, EmitKeeps

LEMMA MatchAdvances ==
    ASSUME NEW q \in Nat, NEW max \in Nat, NEW m, IsMatch(m, q, max), o.src \in Seq(Nat),
           q + max <= Len(o.src), max <= MaxMatch
    PROVE  /\ m.len \in Nat /\ MinMatch <= m.len /\ m.len <= max
           /\ Match(m) \in Tokens /\ Read(Input(q), Match(m)) = Input(q + m.len)
<1> DEFINE n == m.len
           d == m.dist
<1>1. n \in MinMatch..max /\ d \in 1..WSize /\ d <= q /\ Repeats(o.src, q, d, n) /\ m.len = n /\ m.dist = d
  BY DEF IsMatch
<1>2. Len(o.src) \in Nat
  BY LenProperties
<1> HIDE DEF n, d
<1>3. n \in Nat /\ MinMatch <= n /\ n <= max /\ n \in MinMatch..MaxMatch /\ q + n <= Len(o.src)
  BY <1>1, <1>2, Sizes
<1>4. Match(m) \in Tokens /\ Read(SubSeq(o.src, 1, q), Match(m)) = SubSeq(o.src, 1, q + n)
  BY <1>1, <1>3, MatchReads
<1> QED BY <1>1, <1>3, <1>4 DEF Input

\* A match is put out alone, with the table of all that it covers.
LEMMA MatchKeeps ==
    ASSUME IInv, Steps, Found # NoMatch, NEW t, NEW from \in Nat,
           t \in Tables(pos) \/ t \in Tables(pos + 1),
           Emit(<<Match(Found)>>, Found.len, InsertedAll(t, pos, from, Found.len))
    PROVE  IInv'
<1> DEFINE m == Found
           x == Match(m)
           n == m.len
           T == InsertedAll(t, pos, from, n)
<1>1. /\ pos \in Nat /\ end \in Nat /\ end <= Len(o.src) /\ Len(o.src) \in Nat /\ o.src \in Seq(Nat)
      /\ MaxLen \in Nat /\ MaxLen <= MaxMatch /\ pos + MaxLen <= end
      /\ IsMatch(m, pos, MaxLen)
  BY StepFacts
<1> HIDE DEF m
<1>2. n \in Nat /\ 3 <= n /\ n <= MaxLen /\ x \in Tokens /\ Read(Input(pos), x) = Input(pos + n)
  <2>1. pos + MaxLen <= Len(o.src)
    BY <1>1
  <2> HIDE DEF MaxLen
  <2> QED BY <1>1, <2>1, Sizes, MatchAdvances
<1>3. TypeOK /\ RoundTrip /\ tok \in Seq(Tokens) /\ ring \in [Ring -> Nat \cup {NIL}]
  BY DEF IInv, TypeOK
<1>4. Emit(<<x>>, n, T)
  BY DEF m
<1> HIDE DEF x, n, MaxLen
<1>5. /\ tok \o <<x>> = Append(tok, x) /\ Append(tok, x) \in Seq(Tokens)
      /\ Inflated(restored, Append(tok, x)) = Input(pos + n)
  BY <1>2, <1>3, AppendReads
<1>6. Len(Append(tok, x)) = Len(tok) + 1 /\ Len(tok) \in Nat
  BY <1>2, <1>3, AppendProperties, LenProperties
<1>7. T \in Tables(pos + n - 1)
  <2> DEFINE q == pos + n - 1
  <2>1. q \in Nat /\ q \in Int /\ pos \in Int /\ pos + 1 \in Int /\ pos <= q /\ pos + 1 <= q /\ pos + n <= q + 1
    BY <1>1, <1>2
  <2> HIDE DEF q
  <2>2. t \in Tables(q)
    BY <2>1, SeenGrows
  <2>3. T \in Tables(q)
    BY <1>1, <1>2, <1>3, <2>1, <2>2, InsertedAllKeeps
  <2> QED BY <2>3 DEF q
<1> HIDE DEF T
<1>8. pos + n <= end /\ n \in Nat \ {0} /\ Len(tok \o <<x>>) <= Len(tok) + 2
  BY <1>1, <1>2, <1>5, <1>6
<1>9. tok \o <<x>> \in Seq(Tokens) /\ Inflated(restored, tok \o <<x>>) = Input(pos + n)
  BY <1>5
<1> QED BY <1>4, <1>7, <1>8, <1>9, EmitKeeps

LEMMA LazyFacts ==
    ASSUME IInv, Steps, TriesLazy(Found)
    PROVE  /\ Found # NoMatch /\ Hashed2 \in Tables(pos + 1)
           /\ MaxLen - 1 \in Nat /\ (pos + 1) + (MaxLen - 1) = pos + MaxLen
           /\ Later # NoMatch => IsMatch(Later, pos + 1, MaxLen - 1)
<1>1. /\ pos \in Nat /\ end \in Nat /\ o.chain \in Nat /\ ~o.stored /\ WindowKept
      /\ MaxLen \in Nat /\ pos + MaxLen <= end /\ Hashed \in Tables(pos) /\ ring \in [Ring -> Nat \cup {NIL}]
  BY StepFacts DEF IInv, TypeOK
<1>2. Found.len >= 3 /\ MaxLen > 3
  BY Sizes DEF TriesLazy
<1> HIDE DEF MaxLen
<1>3. Found # NoMatch
  BY <1>2 DEF NoMatch
<1>4. MaxLen - 1 \in Nat /\ (pos + 1) + (MaxLen - 1) = pos + MaxLen
  BY <1>1, <1>2
<1>5. Hashed2 \in Tables(pos + 1)
  <2>1. pos \in Int /\ pos + 1 \in Int /\ pos <= pos + 1 /\ pos + 1 \in 0..(pos + 1)
    BY <1>1
  <2>2. Hashed \in Tables(pos + 1)
    BY <1>1, <2>1, SeenGrows
  <2> HIDE DEF Hashed
  <2>3. Inserted(Hashed, (pos + 1) % RingSize) \in Tables(pos + 1)
    BY <1>1, <2>1, <2>2, InsertedKeeps
  <2> QED BY <2>3 DEF Hashed2, Next1
<1>6. Later # NoMatch => IsMatch(Later, pos + 1, MaxLen - 1)
  <2> SUFFICES ASSUME Later # NoMatch PROVE IsMatch(Later, pos + 1, MaxLen - 1)
    OBVIOUS
  <2> DEFINE q == pos + 1
             max == MaxLen - 1
  <2>1. Later = LongestMatch(Hashed2, q % RingSize, max)
    BY DEF Later, Next1
  <2>2. q \in Nat /\ q >= pos /\ max \in Nat /\ q + max <= end /\ Hashed2 \in Tables(q)
    BY <1>1, <1>4, <1>5
  <2> HIDE DEF q, max, Hashed2
  <2>3. IsMatch(LongestMatch(Hashed2, q % RingSize, max), q, max)
    BY <1>1, <2>1, <2>2, MatchIsRight
  <2> QED BY <2>1, <2>3 DEF q, max
<1> QED BY <1>3, <1>4, <1>5, <1>6

\* The literal, and the match one byte later.
LEMMA TakeLaterKeeps ==
    ASSUME IInv, Steps, TriesLazy(Found), Later.len > Found.len, TakeLater(Later)
    PROVE  IInv'
<1> DEFINE l == Later
           x == Literal(ring[Cur])
           y == Match(l)
           n == l.len
           T == InsertedAll(Hashed2, pos + 1, 1, n)
           max == MaxLen - 1
<1>1. /\ pos \in Nat /\ end \in Nat /\ pos < end /\ end <= Len(o.src) /\ Len(o.src) \in Nat /\ o.src \in Seq(Nat)
      /\ MaxLen \in Nat /\ MaxLen <= MaxMatch /\ pos + MaxLen <= end
      /\ x = Literal(o.src[pos + 1])
  BY StepFacts
<1>2. Hashed2 \in Tables(pos + 1) /\ max \in Nat /\ (pos + 1) + max = pos + MaxLen /\ max <= MaxMatch
  BY <1>1, LazyFacts, Sizes
<1>3. IsMatch(l, pos + 1, max)
  <2>1. Later # NoMatch
    <3>1. Found.len >= 3
      BY Sizes DEF TriesLazy
    <3>2. IsMatch(Found, pos, MaxLen)
      BY <3>1, StepFacts DEF NoMatch
    <3>3. Found.len \in Nat
      <4>1. Found.len \in MinMatch..MaxLen
        BY <3>2 DEF IsMatch
      <4> QED BY <4>1, Sizes
    <3> QED BY <3>1, <3>3 DEF NoMatch
  <2> QED BY <2>1, LazyFacts
<1>4. Emit(<<x, y>>, 1 + n, T)
  BY DEF TakeLater
<1>5. TypeOK /\ RoundTrip /\ tok \in Seq(Tokens) /\ ring \in [Ring -> Nat \cup {NIL}]
  BY DEF IInv, TypeOK
<1> HIDE DEF l, x, max, MaxLen, Hashed2
<1>6. n \in Nat /\ 3 <= n /\ n <= max /\ y \in Tokens /\ Read(Input(pos + 1), y) = Input((pos + 1) + n)
  <2>1. pos + 1 \in Nat /\ (pos + 1) + max <= Len(o.src)
    BY <1>1, <1>2
  <2> QED BY <1>1, <1>2, <1>3, <2>1, Sizes, MatchAdvances
<1>7. x \in Tokens /\ Read(Input(pos), x) = Input(pos + 1)
  <2>1. pos < Len(o.src)
    BY <1>1
  <2> QED BY <1>1, <2>1, LiteralReads DEF Input
<1> HIDE DEF y, n
<1> DEFINE one == Append(tok, x)
           both == Append(one, y)
<1>8. one \in Seq(Tokens) /\ Inflated(restored, one) = Input(pos + 1) /\ Len(one) = Len(tok) + 1 /\ Len(tok) \in Nat
  BY <1>5, <1>7, AppendReads, AppendProperties, LenProperties
<1>9. tok \o <<x, y>> = both
  BY <1>5, <1>6, <1>7
<1> HIDE DEF one
<1>10. both \in Seq(Tokens) /\ Inflated(restored, both) = Read(Inflated(restored, one), y) /\ Len(both) = Len(one) + 1
  BY <1>6, <1>8, InflatedAppend, AppendProperties
<1> HIDE DEF both
<1>11. Inflated(restored, both) = Input(pos + (1 + n))
  <2>1. pos + (1 + n) = (pos + 1) + n
    BY <1>1, <1>6
  <2> QED BY <1>6, <1>8, <1>10, <2>1
<1>12. T \in Tables(pos + (1 + n) - 1)
  <2> DEFINE q == pos + (1 + n) - 1
  <2>1. /\ q \in Nat /\ q \in Int /\ pos + 1 \in Int /\ pos + 1 <= q /\ (pos + 1) + n <= q + 1
        /\ pos + 1 \in Nat /\ 1 \in Nat
    BY <1>1, <1>6
  <2> HIDE DEF q
  <2>2. Hashed2 \in Tables(q)
    BY <1>2, <2>1, SeenGrows
  <2>3. T \in Tables(q)
    BY <1>1, <1>5, <1>6, <2>1, <2>2, InsertedAllKeeps
  <2> QED BY <2>3 DEF q
<1> HIDE DEF T
<1>13. pos + (1 + n) <= end /\ 1 + n \in Nat \ {0} /\ Len(both) <= Len(tok) + 2
  BY <1>1, <1>2, <1>6, <1>8, <1>10
<1> QED BY <1>4, <1>9, <1>10, <1>11, <1>12, <1>13, EmitKeeps

LEMMA StepKeeps == IInv /\ Step => IInv'
<1> SUFFICES ASSUME IInv, Step PROVE IInv'
  OBVIOUS
<1>1. Steps
  BY DEF Step
<1>2. \/ Found = NoMatch /\ TakeLiteral
      \/ Found # NoMatch /\ ~TriesLazy(Found) /\ TakeMatch(Found)
      \/ TriesLazy(Found) /\ Later.len > Found.len /\ TakeLater(Later)
      \/ TriesLazy(Found) /\ KeepMatch(Found)
  BY DEF Step
<1>3. CASE TakeLiteral
  BY <1>1, <1>3, LiteralKeeps
<1>4. CASE Found # NoMatch /\ TakeMatch(Found)
  <2>1. Hashed \in Tables(pos)
    BY <1>1, StepFacts
  <2> QED BY <1>1, <1>4, <2>1, MatchKeeps DEF TakeMatch
<1>5. CASE TriesLazy(Found) /\ Later.len > Found.len /\ TakeLater(Later)
  BY <1>1, <1>5, TakeLaterKeeps
<1>6. CASE TriesLazy(Found) /\ KeepMatch(Found)
  <2>1. Found # NoMatch /\ Hashed2 \in Tables(pos + 1)
    BY <1>1, <1>6, LazyFacts
  <2> QED BY <1>1, <1>6, <2>1, MatchKeeps DEF KeepMatch
<1> QED BY <1>2, <1>3, <1>4, <1>5, <1>6

-----------------------------------------------------------------------------
(* Blocks.                                                                 *)

LEMMA Appended ==
    ASSUME NEW b \in BOOLEAN, lasts \in Seq(BOOLEAN)
    PROVE  /\ Append(lasts, b) \in Seq(BOOLEAN) /\ Append(lasts, b) # <<>>
           /\ Len(lasts) \in Nat /\ Len(Append(lasts, b)) = Len(lasts) + 1
           /\ Append(lasts, b)[Len(lasts) + 1] = b
           /\ \A k \in 1..Len(lasts) : Append(lasts, b)[k] = lasts[k]
BY AppendProperties, LenProperties

\* What a block leaves as it is, and what the reader has then.
LEMMA BlockKeeps ==
    ASSUME IInv, NEW last \in BOOLEAN, Block(last), UNCHANGED <<o, ring, tab, pos, end>>, ~o.stored,
           phase' \in {phase, "done"}, phase # "done", phase' = "done" <=> last,
           last => pos = end /\ phase = "ending"
    PROVE  IInv'
<1>1. /\ restored' = Inflated(restored, tok) /\ tok' = <<>> /\ lasts' = Append(lasts, last)
      /\ UNCHANGED <<o, ring, tab, pos, end>>
  BY DEF Block
<1>2. /\ TypeOK /\ StateInv /\ pos \in Nat /\ end \in Nat /\ pos <= end /\ end <= Len(o.src)
      /\ o.src \in Seq(Nat) /\ Len(o.src) \in Nat /\ lasts \in Seq(BOOLEAN) /\ RoundTrip
  BY OptionTypes DEF IInv, TypeOK
<1>3. restored' = Input(pos) /\ restored' \in Seq(Nat)
  <2>1. Input(pos) \in Seq(Nat)
    BY <1>2, InputType
  <2> QED BY <1>1, <1>2, <2>1 DEF RoundTrip
<1>4. /\ lasts' \in Seq(BOOLEAN) /\ lasts' # <<>> /\ Len(lasts) \in Nat /\ Len(lasts') = Len(lasts) + 1
      /\ lasts'[Len(lasts) + 1] = last /\ \A k \in 1..Len(lasts) : lasts'[k] = lasts[k]
  BY <1>1, <1>2, Appended
<1>5. tok' \in Seq(Tokens) /\ Len(tok') = 0
  BY <1>1
<1>6. TypeOK'
  BY <1>1, <1>2, <1>3, <1>4, <1>5 DEF TypeOK
<1>7. StateInv'
  BY <1>1, <1>2, <1>4, <1>5, Sizes DEF StateInv
<1>8. WindowKept'
  BY <1>1 DEF IInv, WindowKept
<1>9. RoundTrip'
  <2>1. Inflated(restored', <<>>) = restored'
    BY InflatedEmpty
  <2> QED BY <1>1, <1>3, <2>1 DEF RoundTrip, Input
<1>10. MarkedOnce'
  <2> SUFFICES ASSUME NEW k \in 1..(Len(lasts) + 1)
               PROVE  lasts'[k] <=> (phase' = "done" /\ k = Len(lasts) + 1)
    BY <1>4 DEF MarkedOnce
  <2>1. CASE k = Len(lasts) + 1
    BY <1>4, <2>1
  <2>2. CASE k # Len(lasts) + 1
    <3>1. k \in 1..Len(lasts)
      BY <1>4, <2>2
    <3>2. ~lasts[k]
      BY <3>1 DEF IInv, MarkedOnce
    <3> QED BY <1>4, <2>2, <3>1, <3>2
  <2> QED BY <2>1, <2>2
<1> QED BY <1>6, <1>7, <1>8, <1>9, <1>10 DEF IInv

LEMMA BlockFullKeeps == IInv /\ BlockFull => IInv'
<1> SUFFICES ASSUME IInv, BlockFull PROVE IInv'
  OBVIOUS
<1>1. tok # <<>>
  <2>1. Len(<<>>) = 0
    OBVIOUS
  <2> QED BY <2>1, Sizes DEF BlockFull
<1>2. ~o.stored /\ phase # "done"
  BY <1>1 DEF IInv, StateInv
<1>3. Block(FALSE) /\ UNCHANGED <<o, phase, ring, tab, pos, end>>
  BY DEF BlockFull
<1> QED BY <1>2, <1>3, BlockKeeps

LEMMA BlockLastKeeps == IInv /\ BlockLast => IInv'
<1> SUFFICES ASSUME IInv, BlockLast PROVE IInv'
  OBVIOUS
<1>1. ~o.stored /\ phase = "ending" /\ phase' = "done" /\ pos = end /\ Block(TRUE)
      /\ UNCHANGED <<o, ring, tab, pos, end>>
  BY DEF BlockLast
<1> QED BY <1>1, BlockKeeps

\* The marks of a stored piece: none, or the last.
LEMMA StoredMarks ==
    ASSUME NEW n \in Nat, NEW last \in BOOLEAN
    PROVE  /\ StoredLasts(n, last) \in Seq(BOOLEAN) /\ Len(StoredLasts(n, last)) \in Nat \ {0}
           /\ \A k \in 1..Len(StoredLasts(n, last)) :
                 StoredLasts(n, last)[k] <=> (last /\ k = Len(StoredLasts(n, last)))
<1> DEFINE count == IF n = 0 THEN 1 ELSE (n + StoreMax - 1) \div StoreMax
           s == [k \in 1..count |-> last /\ k = count]
<1>1. StoredLasts(n, last) = s
  BY DEF StoredLasts
<1>2. count \in Nat \ {0}
  <2>1. CASE n = 0
    BY <2>1
  <2>2. CASE n # 0
    <3> DEFINE a == n + StoreMax - 1
               d == a \div StoreMax
    <3>0. StoreMax \in Nat \ {0}
      BY Sizes
    <3>1. a \in Int /\ a >= StoreMax
      BY <2>2, <3>0
    <3>2. d \in Int /\ a % StoreMax \in 0..(StoreMax - 1) /\ a = StoreMax * d + (a % StoreMax)
      BY <3>0, <3>1, Division
    <3> HIDE DEF a
    <3>3. d >= 1
      <4>1. StoreMax * d > 0
        BY <3>0, <3>1, <3>2
      <4> HIDE DEF d
      <4> QED BY <3>0, <3>2, <4>1
    <3> QED BY <2>2, <3>2, <3>3 DEF a
  <2> QED BY <2>1, <2>2
<1> HIDE DEF count
<1>3. s \in Seq(BOOLEAN) /\ Len(s) = count /\ \A k \in 1..count : s[k] = (last /\ k = count)
  <2>1. s \in [1..count -> BOOLEAN]
    OBVIOUS
  <2> QED BY <1>2, <2>1
<1> HIDE DEF s
<1> QED BY <1>1, <1>2, <1>3

\* Marks put behind the others.
LEMMA MarksJoin ==
    ASSUME lasts \in Seq(BOOLEAN), NEW s \in Seq(BOOLEAN), NEW last \in BOOLEAN, Len(s) \in Nat \ {0},
           \A k \in 1..Len(lasts) : ~lasts[k],
           \A k \in 1..Len(s) : s[k] <=> (last /\ k = Len(s))
    PROVE  /\ lasts \o s \in Seq(BOOLEAN) /\ lasts \o s # <<>>
           /\ \A k \in 1..Len(lasts \o s) : (lasts \o s)[k] <=> (last /\ k = Len(lasts \o s))
<1>1. Len(lasts) \in Nat
  BY LenProperties
<1>2. /\ lasts \o s \in Seq(BOOLEAN) /\ Len(lasts \o s) = Len(lasts) + Len(s)
      /\ \A i \in 1..(Len(lasts) + Len(s)) :
            (lasts \o s)[i] = IF i <= Len(lasts) THEN lasts[i] ELSE s[i - Len(lasts)]
  BY ConcatProperties
<1> DEFINE j == lasts \o s
<1>3. j # <<>>
  <2>1. Len(<<>>) = 0
    OBVIOUS
  <2>2. Len(j) # 0
    BY <1>1, <1>2
  <2> QED BY <2>1, <2>2
<1> HIDE DEF j
<1>4. ASSUME NEW k \in 1..(Len(lasts) + Len(s))
      PROVE  j[k] <=> (last /\ k = Len(lasts) + Len(s))
  <2>1. CASE k <= Len(lasts)
    <3>1. k \in 1..Len(lasts) /\ k # Len(lasts) + Len(s) /\ j[k] = lasts[k]
      BY <1>1, <1>2, <2>1 DEF j
    <3> QED BY <3>1
  <2>2. CASE ~(k <= Len(lasts))
    <3>1. /\ k - Len(lasts) \in 1..Len(s) /\ j[k] = s[k - Len(lasts)]
          /\ k - Len(lasts) = Len(s) <=> k = Len(lasts) + Len(s)
      BY <1>1, <1>2, <2>2 DEF j
    <3> QED BY <3>1
  <2> QED BY <2>1, <2>2
<1>5. Len(j) = Len(lasts) + Len(s) /\ j \in Seq(BOOLEAN)
  BY <1>2 DEF j
<1>6. \A k \in 1..Len(j) : j[k] <=> (last /\ k = Len(j))
  BY <1>4, <1>5
<1> QED BY <1>3, <1>5, <1>6 DEF j

-----------------------------------------------------------------------------
(* The interface.                                                          *)

\* The bytes of a chunk go where none is kept: what is still needed is at most
\* the window before the position, and the chunk fits besides.
LEMMA RingWithKeeps ==
    ASSUME IInv, ~o.stored, Ready, NEW k \in 1..Chunk, end + k <= Len(o.src),
           NEW p \in Nat, p + WSize >= pos, p < end + k
    PROVE  RingWith(end, k)[p % RingSize] = o.src[p + 1]
<1>1. /\ pos \in Nat /\ end \in Nat /\ pos <= end /\ WindowKept /\ k \in Nat /\ k <= Chunk /\ 1 <= k
      /\ pos + MaxMatch > end
  BY Sizes DEF IInv, TypeOK, Ready
<1>2. RingSize \in Nat \ {0} /\ p \in Int /\ p - end \in Int
  BY <1>1, Sizes
<1> DEFINE i == p % RingSize
           ahead == (i - end) % RingSize
<1>3. i \in Ring
  BY <1>2, Division DEF Ring
<1>4. RingWith(end, k)[i] = IF ahead < k THEN o.src[end + ahead + 1] ELSE ring[i]
  BY <1>3 DEF RingWith
<1>5. ahead = (p - end) % RingSize
  <2>1. end \in Int
    BY <1>1
  <2>2. ((p % RingSize) - end) % RingSize = (p - end) % RingSize
    BY <1>2, <2>1, ModShift
  <2> QED BY <2>2
<1>6. CASE p < end
  <2>1. p - end < 0 /\ -RingSize <= p - end
    BY <1>1, <1>6, Sizes
  <2>2. (p - end) % RingSize = RingSize + (p - end)
    BY <1>2, <2>1, ModSmall
  <2> HIDE DEF ahead
  <2>3. ~ (ahead < k)
    BY <1>1, <1>5, <2>2, Sizes
  <2>4. ring[i] = o.src[p + 1]
    BY <1>1, <1>6, RingByte
  <2> QED BY <1>4, <2>3, <2>4
<1>7. CASE p >= end
  <2>1. 0 <= p - end /\ p - end < RingSize
    BY <1>1, <1>7, Sizes
  <2>2. (p - end) % RingSize = p - end
    BY <1>2, <2>1, ModSmall
  <2> HIDE DEF ahead
  <2>3. ahead < k /\ end + ahead + 1 = p + 1
    BY <1>1, <1>5, <2>2
  <2> QED BY <1>4, <2>3
<1> QED BY <1>1, <1>6, <1>7

LEMMA WriteKeeps ==
    ASSUME IInv, NEW k \in 1..Chunk, Write(k)
    PROVE  IInv'
<1>1. /\ phase = "feeding" /\ ~o.stored /\ Ready /\ end + k <= Len(o.src)
      /\ ring' = RingWith(end, k) /\ end' = end + k
      /\ UNCHANGED <<o, phase, tab, pos, tok, lasts, restored>>
  BY DEF Write
<1>2. /\ TypeOK /\ StateInv /\ pos \in Nat /\ end \in Nat /\ pos <= end /\ o.src \in Seq(Nat) /\ Len(o.src) \in Nat
      /\ k \in Nat /\ 1 <= k /\ k <= Chunk
  BY OptionTypes, Sizes DEF IInv, TypeOK
<1>3. ring' \in [Ring -> Nat \cup {NIL}]
  <2> SUFFICES ASSUME NEW i \in Ring PROVE RingWith(end, k)[i] \in Nat \cup {NIL}
    BY <1>1 DEF RingWith
  <2> DEFINE ahead == (i - end) % RingSize
  <2>1. RingWith(end, k)[i] = IF ahead < k THEN o.src[end + ahead + 1] ELSE ring[i]
    BY DEF RingWith
  <2>2. ahead \in 0..(RingSize - 1)
    <3>1. i - end \in Int /\ RingSize \in Nat \ {0}
      BY <1>2, Sizes DEF Ring
    <3> QED BY <3>1, Division
  <2> HIDE DEF ahead
  <2>3. ahead < k => o.src[end + ahead + 1] \in Nat
    <3> SUFFICES ASSUME ahead < k PROVE o.src[end + ahead + 1] \in Nat
      OBVIOUS
    <3>1. end + ahead + 1 \in 1..Len(o.src)
      BY <1>1, <1>2, <2>2
    <3> QED BY <1>2, <3>1, ElementOfSeq
  <2>4. ring[i] \in Nat \cup {NIL}
    BY <1>2 DEF TypeOK
  <2> QED BY <2>1, <2>3, <2>4
<1>4. end' \in 0..Len(o'.src) /\ pos' \in 0..end'
  BY <1>1, <1>2
<1>5. TypeOK'
  BY <1>1, <1>2, <1>3, <1>4 DEF TypeOK
<1>6. StateInv'
  BY <1>1, <1>2 DEF StateInv
<1>7. WindowKept'
  <2> SUFFICES ASSUME NEW p \in (IF pos' > WSize THEN pos' - WSize ELSE 0)..(end' - 1)
               PROVE  ring'[p % RingSize] = o'.src[p + 1]
    BY DEF WindowKept
  <2>1. p \in Nat /\ p + WSize >= pos /\ p < end + k
    BY <1>1, <1>2, Sizes
  <2> QED BY <1>1, <2>1, RingWithKeeps
<1>8. RoundTrip' /\ MarkedOnce'
  BY <1>1 DEF IInv, RoundTrip, Input, MarkedOnce
<1> QED BY <1>5, <1>6, <1>7, <1>8 DEF IInv

LEMMA WriteStoredKeeps ==
    ASSUME IInv, NEW k \in 1..Len(o.src), WriteStored(k)
    PROVE  IInv'
<1>1. /\ phase = "feeding" /\ o.stored /\ end + k <= Len(o.src)
      /\ end' = end + k /\ pos' = end + k
      /\ restored' = restored \o SubSeq(o.src, end + 1, end + k)
      /\ lasts' = lasts \o StoredLasts(k, FALSE)
      /\ UNCHANGED <<o, phase, ring, tab, tok>>
  BY DEF WriteStored
<1>2. /\ TypeOK /\ StateInv /\ pos \in Nat /\ end \in Nat /\ pos <= end /\ o.src \in Seq(Nat) /\ Len(o.src) \in Nat
      /\ lasts \in Seq(BOOLEAN) /\ RoundTrip
  BY OptionTypes DEF IInv, TypeOK
<1>2a. k \in Nat /\ 1 <= k
  BY <1>2
<1>3. pos = end /\ tok = <<>>
  BY <1>1, <1>2 DEF StateInv
<1>4. restored' = Input(end + k)
  <2>1. restored = Input(end)
    BY <1>2, <1>3, InflatedEmpty DEF RoundTrip
  <2>2. SubSeq(o.src, 1, end) \o SubSeq(o.src, end + 1, end + k) = SubSeq(o.src, 1, end + k)
    <3>1. 1 \in 1..(Len(o.src) + 1) /\ end \in (1 - 1)..Len(o.src) /\ end + k \in end..Len(o.src)
      BY <1>1, <1>2, <1>2a
    <3> QED BY <1>2, <3>1, ConcatAdjacentSubSeq
  <2> QED BY <1>1, <2>1, <2>2 DEF Input
<1>5. restored' \in Seq(Nat)
  <2>1. end + k \in Nat
    BY <1>2, <1>2a
  <2> QED BY <1>1, <1>2, <1>4, <2>1, InputType
<1> DEFINE s == StoredLasts(k, FALSE)
<1>6. s \in Seq(BOOLEAN) /\ Len(s) \in Nat \ {0} /\ \A j \in 1..Len(s) : s[j] <=> (FALSE /\ j = Len(s))
  BY <1>2a, StoredMarks
<1> HIDE DEF s
<1>7. \A j \in 1..Len(lasts) : ~lasts[j]
  BY <1>1 DEF IInv, MarkedOnce
<1>8. lasts' \in Seq(BOOLEAN) /\ \A j \in 1..Len(lasts') : ~lasts'[j]
  <2>1. lasts' = lasts \o s
    BY <1>1 DEF s
  <2>2. lasts \o s \in Seq(BOOLEAN) /\ \A j \in 1..Len(lasts \o s) : (lasts \o s)[j] <=> (FALSE /\ j = Len(lasts \o s))
    BY <1>2, <1>6, <1>7, MarksJoin
  <2> QED BY <2>1, <2>2
<1>9. end' \in 0..Len(o'.src) /\ pos' \in 0..end' /\ pos' - 1 \in Int /\ pos - 1 \in Int /\ pos - 1 <= pos' - 1
  BY <1>1, <1>2, <1>2a
<1>10. TypeOK'
  BY <1>1, <1>2, <1>5, <1>8, <1>9 DEF TypeOK
<1>11. StateInv'
  <2>1. tab \in Tables(pos' - 1)
    BY <1>2, <1>9, SeenGrows DEF StateInv
  <2> QED BY <1>1, <1>2, <1>3, <2>1 DEF StateInv
<1>12. WindowKept'
  BY <1>1 DEF WindowKept
<1>13. RoundTrip'
  BY <1>1, <1>3, <1>4, InflatedEmpty DEF RoundTrip, Input
<1>14. MarkedOnce'
  BY <1>1, <1>8 DEF MarkedOnce
<1> QED BY <1>10, <1>11, <1>12, <1>13, <1>14 DEF IInv

LEMMA EndKeeps == IInv /\ End => IInv'
<1> SUFFICES ASSUME IInv, End PROVE IInv'
  OBVIOUS
<1>1. /\ phase = "feeding" /\ end = Len(o.src) /\ phase' = "ending"
      /\ UNCHANGED <<o, ring, tab, pos, end, tok, lasts, restored>>
  BY DEF End
<1>2. TypeOK' /\ StateInv'
  BY <1>1 DEF IInv, TypeOK, StateInv
<1>3. WindowKept' /\ RoundTrip' /\ MarkedOnce'
  BY <1>1 DEF IInv, WindowKept, RoundTrip, Input, MarkedOnce
<1> QED BY <1>2, <1>3 DEF IInv

LEMMA EndStoredKeeps == IInv /\ EndStored => IInv'
<1> SUFFICES ASSUME IInv, EndStored PROVE IInv'
  OBVIOUS
<1>1. /\ phase = "ending" /\ o.stored /\ phase' = "done" /\ lasts' = lasts \o StoredLasts(0, TRUE)
      /\ UNCHANGED <<o, ring, tab, pos, end, tok, restored>>
  BY DEF EndStored
<1>2. lasts \in Seq(BOOLEAN) /\ TypeOK /\ StateInv
  BY DEF IInv, TypeOK
<1> DEFINE s == StoredLasts(0, TRUE)
<1>3. s \in Seq(BOOLEAN) /\ Len(s) \in Nat \ {0} /\ \A j \in 1..Len(s) : s[j] <=> (TRUE /\ j = Len(s))
  BY StoredMarks
<1>4. lasts' = lasts \o s
  BY <1>1
<1> HIDE DEF s
<1>5. \A j \in 1..Len(lasts) : ~lasts[j]
  BY <1>1 DEF IInv, MarkedOnce
<1>6. /\ lasts' \in Seq(BOOLEAN) /\ lasts' # <<>>
      /\ \A j \in 1..Len(lasts') : lasts'[j] <=> j = Len(lasts')
  <2>1. /\ lasts \o s \in Seq(BOOLEAN) /\ lasts \o s # <<>>
        /\ \A j \in 1..Len(lasts \o s) : (lasts \o s)[j] <=> (TRUE /\ j = Len(lasts \o s))
    BY <1>2, <1>3, <1>5, MarksJoin
  <2> QED BY <1>4, <2>1
<1>7. TypeOK' /\ StateInv'
  BY <1>1, <1>2, <1>6 DEF TypeOK, StateInv
<1>8. WindowKept' /\ RoundTrip' /\ MarkedOnce'
  BY <1>1, <1>6 DEF IInv, WindowKept, RoundTrip, Input, MarkedOnce
<1> QED BY <1>7, <1>8 DEF IInv

LEMMA NextIInv == IInv /\ [Next]_vars => IInv'
<1> SUFFICES ASSUME IInv, [Next]_vars PROVE IInv'
  OBVIOUS
<1>1. CASE Encoder
  BY <1>1, StepKeeps, BlockFullKeeps, BlockLastKeeps, EndStoredKeeps DEF Encoder
<1>2. CASE Caller
  <2>1. CASE \E k \in 1..Chunk : Write(k)
    BY <2>1, WriteKeeps
  <2>2. CASE \E k \in 1..Len(o.src) : WriteStored(k)
    BY <2>2, WriteStoredKeeps
  <2> QED BY <1>2, <2>1, <2>2, EndKeeps DEF Caller
<1>3. CASE UNCHANGED vars
  <2>1. UNCHANGED <<o, phase, ring, tab, pos, end, tok, lasts, restored>>
    BY <1>3 DEF vars
  <2>2. TypeOK' /\ StateInv'
    BY <2>1 DEF IInv, TypeOK, StateInv
  <2>3. WindowKept' /\ RoundTrip' /\ MarkedOnce'
    BY <2>1 DEF IInv, WindowKept, RoundTrip, Input, MarkedOnce
  <2> QED BY <2>2, <2>3 DEF IInv
<1> QED BY <1>1, <1>2, <1>3 DEF Next, Terminated

-----------------------------------------------------------------------------
(* Theorems.                                                               *)

\* The inductive invariant: the types, chains that hold nothing but consumed
\* positions, the window, and the tokens, of every input and every level.
THEOREM Invariant == Spec => []IInv
BY InitIInv, NextIInv, PTL DEF Spec

\* Copying a chunk into the ring never overwrites a byte that a match may
\* still reach or that is not consumed yet (defl_copy_in and the loop of
\* mt_deflate_write).
THEOREM WindowIsKept == Spec => []WindowKept
<1>1. IInv => WindowKept
  BY DEF IInv
<1> QED BY <1>1, Invariant, PTL

\* What the tokens expand to is the input up to the position, for every match
\* that the chains lead to, stale entries and overlapping matches included
\* (defl_longest_match, defl_step).
THEOREM TokensAreTheInput == Spec => []RoundTrip
<1>1. IInv => RoundTrip
  BY DEF IInv
<1> QED BY <1>1, Invariant, PTL

\* The last block, and only it, is marked as such, and by then a reader has
\* the whole input (defl_block, defl_stored, mt_deflate_end).
THEOREM BlocksAreFramed == Spec => []WellFramed
<1>1. IInv => WellFramed
  <2> SUFFICES ASSUME IInv PROVE WellFramed
    OBVIOUS
  <2>1. TypeOK /\ StateInv /\ MarkedOnce /\ RoundTrip /\ o.src \in Seq(Nat) /\ Len(o.src) \in Nat
    BY OptionTypes DEF IInv, TypeOK
  <2>2. phase = "done" => lasts # <<>> /\ restored = o.src
    <3> SUFFICES ASSUME phase = "done" PROVE lasts # <<>> /\ restored = o.src
      OBVIOUS
    <3>1. pos = Len(o.src) /\ tok = <<>> /\ lasts # <<>>
      BY <2>1 DEF StateInv
    <3>2. restored = SubSeq(o.src, 1, Len(o.src))
      BY <2>1, <3>1, InflatedEmpty DEF RoundTrip, Input
    <3>3. SubSeq(o.src, 1, Len(o.src)) = o.src
      BY <2>1, SubSeqFull
    <3> QED BY <3>1, <3>2, <3>3
  <2> QED BY <2>1, <2>2 DEF WellFramed, MarkedOnce
<1> QED BY <1>1, Invariant, PTL

\* The token buffer holds at most one token more than DEFL_TOKMAX, which a
\* lazy step may add: the run DeflateTokens shows that it does.
THEOREM TokensOverrunByOne == Spec => [](Len(tok) <= TokMax + 1)
<1>1. IInv => Len(tok) <= TokMax + 1
  BY DEF IInv, StateInv
<1> QED BY <1>1, Invariant, PTL
=============================================================================
