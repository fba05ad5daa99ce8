------------------------------- MODULE Huffman -------------------------------
(***************************************************************************)
(* The prefix codes of a deflate block (imageio/deflate.c): huff_build     *)
(* turns frequencies into code lengths of at most MaxLen bits and those    *)
(* into codes; defl_block writes the lengths as runs, and lengths and      *)
(* distances of matches as a symbol with some bits.                        *)
(***************************************************************************)
EXTENDS Integers, SequencesExt

CONSTANTS
    NSyms,      \* symbols of the alphabet
    MaxLen,     \* the longest code: 15, or 7 for the code of the lengths
    MaxRounds   \* 40

ASSUME HuffmanAssumption ==
    /\ MaxLen \in 1..15
    /\ NSyms \in 1..2^MaxLen
    /\ MaxRounds \in Nat \ {0}

AtMost(n, most) == IF n > most THEN most ELSE n

Syms == 0..(NSyms - 1)
Used(freq) == {s \in Syms : freq[s] > 0}

-----------------------------------------------------------------------------
(* Code lengths.                                                           *)

Lighter(p, q) == p[1] < q[1] \/ (p[1] = q[1] /\ p[2] < q[2])

\* The nodes of the tree, the leaves first and lightest first, each with its
\* weight and the symbols below.  The two lightest nodes are at the head of
\* the leaves or of the inner nodes; of two equal ones the leaf is taken.
Nodes(freq) ==
    LET leaves == SetToSortSeq({<<freq[s], s>> : s \in Used(freq)}, Lighter)
        m == Len(leaves)
        leaf(nodes, a, b) == a <= m /\ (b > Len(nodes) \/ nodes[a].w <= nodes[b].w)
        take(nodes, q) == IF leaf(nodes, q.a, q.b) THEN [a |-> q.a + 1, b |-> q.b, node |-> nodes[q.a]]
                                                   ELSE [a |-> q.a, b |-> q.b + 1, node |-> nodes[q.b]]
        merged[nodes \in Seq([w : Nat, below : SUBSET Syms]), a \in Nat, b \in Nat] ==
            IF (m - a + 1) + (Len(nodes) - b + 1) <= 1 THEN nodes
            ELSE LET x == take(nodes, [a |-> a, b |-> b])
                     y == take(nodes, x)
                     node == [w |-> x.node.w + y.node.w, below |-> x.node.below \cup y.node.below]
                 IN  merged[Append(nodes, node), y.a, y.b]
    IN  merged[[i \in 1..m |-> [w |-> leaves[i][1], below |-> {leaves[i][2]}]], 1, m + 1]

\* A symbol is as deep as there are inner nodes above it; a symbol that is
\* alone still gets one bit.
Depths(freq) ==
    LET nodes == Nodes(freq)
        used == Used(freq)
        m == Cardinality(used)
    IN  [s \in Syms |-> IF used = {s} THEN 1
                        ELSE Cardinality({i \in (m + 1)..Len(nodes) : s \in nodes[i].below})]

FlatterNot(f) == f                       \* faulty: the same tree again
Flatter(f) == [s \in Syms |-> IF f[s] > 1 THEN f[s] \div 2 ELSE f[s]]

\* Too deep a tree is built again from flatter frequencies.
Lengths(freq) ==
    LET round[f \in [Syms -> Nat], iter \in Nat] ==
            LET depth == Depths(f)
            IN  IF iter = MaxRounds \/ \A s \in Syms : depth[s] <= MaxLen
                THEN [s \in Syms |-> AtMost(depth[s], MaxLen)]
                ELSE round[Flatter(f), iter + 1]
    IN  round[freq, 1]

\* The canonical codes, as the bits in the order of the stream.
Codes(lens) ==
    LET count(l) == Cardinality({s \in Syms : lens[s] = l /\ l > 0})
        first[l \in 0..MaxLen] == IF l = 0 THEN 0 ELSE 2 * (first[l - 1] + count(l - 1))
        code(s) == first[lens[s]] + Cardinality({r \in 0..(s - 1) : lens[r] = lens[s]})
    IN  [s \in Syms |-> [k \in 1..lens[s] |-> (code(s) \div 2^(lens[s] - k)) % 2]]

-----------------------------------------------------------------------------
(* The lengths as runs: pairs of a symbol and its extra bits.              *)

\* n zeros.
Zeros(n) ==
    LET zeros[k \in 0..n] ==
            CASE k >= 11 -> LET r == AtMost(k, 138) IN <<<<18, r - 11>>>> \o zeros[k - r]
              [] k \in 3..10 -> <<<<17, k - 3>>>>
              [] OTHER -> [i \in 1..k |-> <<0, 0>>]
    IN  zeros[n]

\* n more of a length that was just written.
Repeats(l, n) ==
    LET repeats[k \in 0..n] ==
            IF k >= 3 THEN LET r == AtMost(k, 6) IN <<<<16, r - 3>>>> \o repeats[k - r]
            ELSE [i \in 1..k |-> <<l, 0>>]
    IN  repeats[n]

\* How often the length at i is repeated from there on.
Same(lens, i) ==
    CHOOSE c \in 1..(Len(lens) - i + 1) :
        /\ \A k \in i..(i + c - 1) : lens[k] = lens[i]
        /\ (i + c <= Len(lens) => lens[i + c] # lens[i])

RunFrom(lens, i) ==
    IF lens[i] = 0 THEN Zeros(Same(lens, i))
    ELSE <<<<lens[i], 0>>>> \o Repeats(lens[i], Same(lens, i) - 1)

Runs(lens) ==
    LET from[i \in 1..(Len(lens) + 1)] ==
            IF i > Len(lens) THEN <<>> ELSE RunFrom(lens, i) \o from[i + Same(lens, i)]
    IN  from[1]

\* What a reader makes of one run.  The symbols 16, 17 and 18 have 2, 3 and 7 bits.
More(lens, run) ==
    lens \o
        CASE run[1] = 16 -> [i \in 1..((run[2] % 4) + 3) |-> lens[Len(lens)]]
          [] run[1] = 17 -> [i \in 1..((run[2] % 8) + 3) |-> 0]
          [] run[1] = 18 -> [i \in 1..((run[2] % 128) + 11) |-> 0]
          [] OTHER -> <<run[1]>>

Expanded(runs) ==
    LET upto[k \in 0..Len(runs)] == IF k = 0 THEN <<>> ELSE More(upto[k - 1], runs[k])
    IN  upto[Len(runs)]

-----------------------------------------------------------------------------
(* Matches.                                                                *)

LenBase == <<3, 4, 5, 6, 7, 8, 9, 10, 11, 13, 15, 17, 19, 23, 27, 31, 35, 43, 51, 59, 67, 83,
             99, 115, 131, 163, 195, 227, 258>>
LenExtra == <<0, 0, 0, 0, 0, 0, 0, 0, 1, 1, 1, 1, 2, 2, 2, 2, 3, 3, 3, 3, 4, 4, 4, 4, 5, 5, 5, 5, 0>>
DistBase == <<1, 2, 3, 4, 5, 7, 9, 13, 17, 25, 33, 49, 65, 97, 129, 193, 257, 385, 513, 769,
              1025, 1537, 2049, 3073, 4097, 6145, 8193, 12289, 16385, 24577>>
DistExtra == <<0, 0, 0, 0, 1, 1, 2, 2, 3, 3, 4, 4, 5, 5, 6, 6, 7, 7, 8, 8, 9, 9, 10, 10, 11, 11,
               12, 12, 13, 13>>

\* The last base that is not larger.
SymbolOf(value, base) == CHOOSE k \in DOMAIN base :
    value >= base[k] /\ (k < Len(base) => value < base[k + 1])

\* 1 << k.
Bit[k \in 0..15] == IF k = 0 THEN 1 ELSE 2 * Bit[k - 1]

\* The symbol and as many low bits of the rest as it has room for.
Split(value, base, extra) ==
    LET k == SymbolOf(value, base) IN <<k, (value - base[k]) % Bit[extra[k]]>>
Joined(pair, base) == base[pair[1]] + pair[2]
=============================================================================
