-------------------------------- MODULE Mapper --------------------------------
(***************************************************************************)
(* The values of a chroma plane that occur (nbli/Mapper.h): a mask with a  *)
(* bit for each value, written as words that hold either Lit bits or a run *)
(* of the expected bit followed by a run of the other one; and the         *)
(* numbering of the values that occur.                                     *)
(***************************************************************************)
EXTENDS Integers, SequencesExt, FiniteSetsExt

CONSTANTS
    MaxVal,     \* MAXVAL, the largest value
    Lit,        \* 15 bits in a word
    RunBase,    \* 16, the shortest run
    RunSpan,    \* 512 lengths of runs
    FlipMax     \* 64, the longest run of the other bit

ASSUME MapperAssumption == MaxVal \in Nat /\ {Lit, RunBase, RunSpan, FlipMax} \subseteq Nat \ {0}

Values == 0..MaxVal

\* The bit expected after a word.
GetPrevB(prevb, word) ==
    CASE word.bits # <<>> -> word.bits[Lit]
      [] word.bits = <<>> /\ word.flip = FlipMax -> 1 - prevb
      [] OTHER -> prevb

\* How many entries from i on are b.
RunOf(mask, i, b) == Max({0} \cup {n \in 1..(MaxVal + 1 - i) : \A v \in i..(i + n - 1) : mask[v] = b})

MaskWord(mask, i, prevb) ==
    LET same == RunOf(mask, i, prevb)
        flip == 1 + RunOf(mask, i + same + 1, 1 - prevb)
    IN  IF same - RunBase \in 0..(RunSpan - 1)
        THEN [same |-> same, flip |-> Min({flip, FlipMax}), bits |-> <<>>]
        ELSE [same |-> 0, flip |-> 0,
              bits |-> [k \in 1..Lit |-> IF i + k - 1 \in Values THEN mask[i + k - 1] ELSE 0]]

\* One more word, while values are left.
WriteMask(mask, b) ==
    IF b.i > MaxVal THEN b
    ELSE LET word == MaskWord(mask, b.i, b.prevb)
         IN  [words |-> Append(b.words, word), i |-> b.i + word.same + word.flip + Len(word.bits),
              prevb |-> GetPrevB(b.prevb, word)]

EncodeMask(mask) ==
    LET upto[k \in 0..(MaxVal + 1)] ==
            IF k = 0 THEN [words |-> <<>>, i |-> 0, prevb |-> 0] ELSE WriteMask(mask, upto[k - 1])
    IN  upto[MaxVal + 1].words

\* One more word, while values are missing.
ReadMask(b, word) ==
    IF Len(b.got) > MaxVal THEN b
    ELSE [got |-> b.got \o [k \in 1..word.same |-> b.prevb] \o [k \in 1..word.flip |-> 1 - b.prevb] \o word.bits,
          used |-> b.used + 1, prevb |-> GetPrevB(b.prevb, word)]

\* The mask, as a sequence, and the number of words it took.
DecodeMask(words) ==
    LET upto[k \in 0..Len(words)] ==
            IF k = 0 THEN [got |-> <<>>, used |-> 0, prevb |-> 0] ELSE ReadMask(upto[k - 1], words[k])
        b == upto[Len(words)]
    IN  [bits |-> SubSeq(b.got, 1, MaxVal + 1), used |-> b.used]

\* The number of a value among those that occur, and the value of a number.
Forward(mask, v) == Cardinality({u \in 0..(v - 1) : mask[u] = 1})
Backward(mask, w) == CHOOSE v \in Values : mask[v] = 1 /\ Forward(mask, v) = w
=============================================================================
