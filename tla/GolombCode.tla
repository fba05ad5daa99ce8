------------------------------ MODULE GolombCode ------------------------------
(***************************************************************************)
(* The second entropy coder of NBLI (nbli/GolombCodeTree.h): a value is a  *)
(* path through a binary tree of its context, up by 2^k as often as it     *)
(* takes and then its low k bits, each step a bit with a probability of    *)
(* its own for the arithmetic coder.  A value too large for the tree goes  *)
(* on in the tree of a rougher context.                                    *)
(***************************************************************************)
EXTENDS AriCode, Sequences

CONSTANTS
    NCtx,       \* N_CTX, contexts of a channel: 12
    KStep,      \* k_step: 3
    TreeSize    \* the nodes of a tree: 256

KM == (NCtx - 1) \div KStep

\* 1 << k.
Unit[k \in 0..KM] == IF k = 0 THEN 1 ELSE 2 * Unit[k - 1]

ASSUME GolombAssumption ==
    {NCtx, KStep, TreeSize} \subseteq Nat \ {0} /\ TreeSize % Unit[KM] = 0

K(qd) == IF qd \div KStep > KM THEN KM ELSE qd \div KStep

\* What the value is at least, in units of 2^k, at this node.
Reached(qd, i) == ((IF qd >= NCtx THEN TreeSize ELSE 0) + i) \div Unit[KM]

-----------------------------------------------------------------------------
(* The coder, encoder or decoder: its interval, the words written or still *)
(* to be read, the probabilities in use and the bit coded last.            *)

Encoder == [enc |-> TRUE, words |-> <<>>, low |-> 0, rng |-> FirstRange, sft |-> 0,
            prob |-> {}, bin |-> FALSE]
Decoder(words) ==
    [Encoder EXCEPT !.enc = FALSE, !.sft = words[1] * Radix + words[2],
                    !.words = SubSeq(words, 3, Len(words))]

Prob(s, node) ==
    IF \E p \in s.prob : p.node = node THEN (CHOOSE p \in s.prob : p.node = node).pr ELSE Even

\* One bit at a node.
CodeBit(s, node, bit) ==
    LET pr  == Prob(s, node)
        bin == IF s.enc THEN bit ELSE Bin(s.sft, s.low, s.rng, pr)
        low == Low(s.low, s.rng, pr, bin)
        rng == Rng(s.rng, pr, bin)
    IN  [s EXCEPT
          !.bin = bin,
          !.low = LowUp(low, rng),
          !.rng = RngUp(low, rng),
          !.sft = IF Small(rng) /\ ~s.enc THEN Shifted(@, Head(s.words)) ELSE @,
          !.words = CASE ~Small(rng) -> @
                      [] Small(rng) /\ s.enc -> Append(@, low \div Radix)
                      [] OTHER -> Tail(@),
          !.prob = {p \in @ : p.node # node} \cup {[node |-> node, pr |-> Updated(pr, bin)]}]

\* flush().
Flushed(s) == s.words \o <<s.low \div Radix, s.low % Radix>>

-----------------------------------------------------------------------------
(* A value of a context.  On its way a walk holds the coder, the node i of *)
(* the tree ctx, whether it still goes up, else how many low bits are left *)
(* to code, and what is known of the value.                                *)

RoughQd(qd) == (K(qd) + 1) * KStep
\* Half way up a tree of twice the unit, or at the root of the last one.
Rough(qd, i) == IF RoughQd(qd) >= NCtx THEN <<NCtx, 0>> ELSE <<RoughQd(qd), i \div 2>>

Climb(w, val) ==
    LET ch == w.ctx[1]
        qd == w.ctx[2]
        t  == CodeBit(w.s, <<w.ctx, w.i>>, Reached(qd, w.i) < val \div Unit[K(qd)])
        up == w.i + Unit[KM]
    IN  CASE ~t.bin -> [w EXCEPT !.s = t, !.i = @ + 1, !.climbs = FALSE, !.low = K(qd),
                                 !.val = Reached(qd, w.i) * Unit[K(qd)]]
          [] t.bin /\ up < TreeSize -> [w EXCEPT !.s = t, !.i = up]
          [] OTHER -> [w EXCEPT !.s = t, !.ctx = <<ch, Rough(qd, up)[1]>>, !.i = Rough(qd, up)[2]]

\* The low bits, from the k-th down.
CodeLow(w, val) ==
    LET half == Unit[w.low - 1]
        t    == CodeBit(w.s, <<w.ctx, w.i>>, (val \div half) % 2 = 1)
    IN  [w EXCEPT !.s = t, !.low = @ - 1, !.i = @ + (IF t.bin THEN half ELSE 1),
                  !.val = @ + (IF t.bin THEN half ELSE 0)]

Turn(w, val) == IF w.climbs THEN Climb(w, val) ELSE IF w.low > 0 THEN CodeLow(w, val) ELSE w

\* A value takes at most as many turns as there are steps up the first tree and
\* the last one and from the middle of those between, and low bits.
Steep == TreeSize \div Unit[KM]
Longest == 2 * Steep + KM * (Steep - Steep \div 2) + KM

CodeValue(s, e, val) ==
    LET start == [s |-> s, ctx |-> <<e.ch, e.qd>>, i |-> 0, climbs |-> TRUE, low |-> 0, val |-> 0]
        upto[n \in 0..Longest] == IF n = 0 THEN start ELSE Turn(upto[n - 1], val)
    IN  upto[Longest]

-----------------------------------------------------------------------------
(* A sequence of values.                                                   *)

Encode(vals) ==
    LET upto[n \in 0..Len(vals)] ==
            IF n = 0 THEN Encoder ELSE CodeValue(upto[n - 1], vals[n], vals[n].val).s
    IN  upto[Len(vals)]

\* The decoder is asked for as many values, in the same contexts.
Decode(words, vals) ==
    LET upto[n \in 0..Len(vals)] ==
            IF n = 0 THEN [s |-> Decoder(words), got |-> <<>>]
            ELSE LET before == upto[n - 1]
                     now == CodeValue(before.s, vals[n], 0)
                 IN  [s |-> now.s, got |-> Append(before.got, now.val)]
    IN  upto[Len(vals)]
=============================================================================
