------------------------------- MODULE AriCode -------------------------------
(***************************************************************************)
(* The binary arithmetic coder of nbli/GolombCodeTree.h and its adaptive   *)
(* probabilities.  The coder narrows an interval low .. low + rng for each *)
(* bit; when the interval gets small its upper word is written and low and *)
(* rng move up by one word.  The decoder keeps the same interval, and in   *)
(* sft the two words of the stream that lie in it.                         *)
(***************************************************************************)
EXTENDS Integers

CONSTANTS
    One,        \* 1 << PBIT, the probability of a certain bit: 2^14
    Rate,       \* 1 << (PBIT - 7), how slowly a probability moves: 2^7
    Radix,      \* one more than the largest word: 2^16
    MinRange    \* 0xFF, the smallest rng that codes another bit

ASSUME AriAssumption ==
    /\ One \in Nat /\ Rate \in Nat /\ Radix \in Nat /\ MinRange \in Nat
    /\ Rate >= 2 /\ One >= 2 * Rate
    /\ MinRange >= 1 /\ Radix > MinRange

-----------------------------------------------------------------------------
(* ProbabilityModel.                                                       *)

Even == One \div 2

Updated(pr, bin) == IF bin THEN pr + (One - pr) \div Rate ELSE pr - pr \div Rate

-----------------------------------------------------------------------------
(* AriCodec.                                                               *)

\* init(): the decoder reads two words, and both then set the interval.
FirstRange == Radix * (MinRange + 1) - 1

Mid(rng, pr) == (pr * rng) \div One

\* codec(): a bit that is 1 takes the lower part of the interval.
Low(low, rng, pr, bin) == IF bin THEN low ELSE low + Mid(rng, pr) + 1
Rng(rng, pr, bin) == IF bin THEN Mid(rng, pr) ELSE rng - (Mid(rng, pr) + 1)

Small(rng) == rng < MinRange

\* Where an interval would reach over the end of the word, it ends there.
Capped(low, rng) == IF (low % Radix) + rng > Radix - 1 THEN Radix - 1 - (low % Radix) ELSE rng

\* normalize(), where codec() calls it.
LowUp(low, rng) == IF Small(rng) THEN (low % Radix) * Radix ELSE low
RngUp(low, rng) == IF Small(rng) THEN Capped(low, rng) * Radix + Radix - 1 ELSE rng

\* What the decoder makes of sft.
Bin(sft, low, rng, pr) == sft <= low + Mid(rng, pr)
Shifted(sft, word) == (sft % Radix) * Radix + word
=============================================================================
