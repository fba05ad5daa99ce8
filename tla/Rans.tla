-------------------------------- MODULE Rans --------------------------------
(***************************************************************************)
(* The entropy coder of fNBLI (fnbli_scalar.h).  The encoder only counts   *)
(* and stacks its symbols; encode_all() normalises the counters, codes the *)
(* stack from its top, i.e. backwards, into the states of the lanes, and   *)
(* reverses the words it wrote, so that the decoder meets them forwards.   *)
(* Lane 0 codes the banner of an image alone, then all lanes the body.     *)
(*                                                                         *)
(* A stream is a table per context and then words of 0..(B-1).  The code   *)
(* words of the tables, the header, and the contexts' origin are left out. *)
(***************************************************************************)
EXTENDS Integers, FiniteSets, SequencesExt, FiniteSetsExt, Functions

CONSTANTS
    Lanes,      \* the number of interleaved states (FNBLI_N_LANE = 16)
    NormSum,    \* what the frequencies of a table add up to
    B,          \* one more than the largest word, and the lowest state (CODE_LOW)
    NContexts,
    NSymbols,
    MaxStack    \* bound: pairs on the stack

ASSUME CodeAssumption ==
    /\ NormSum \in Nat \ {0} /\ B \in Nat \ {0}
    /\ \E m \in 1..B : B = NormSum * m

ASSUME SizeAssumption ==
    /\ Lanes \in Nat \ {0} /\ NContexts \in Nat \ {0}
    /\ NSymbols \in 2..NormSum
    /\ MaxStack \in Nat

Lane     == 0..(Lanes - 1)
Contexts == 0..(NContexts - 1)
Symbols  == 0..(NSymbols - 1)
Topmost  == NSymbols - 1
Pair     == Contexts \X Symbols
CodeHigh == B * (B \div NormSum) - 1

VARIABLES
    stage,      \* "push", "encode", "stream", "decode", "decoded", "refused"
    stack,      \* context/symbol pairs, the top first
    count1,     \* entries pushed one by one
    count16,    \* entries pushed for all lanes
    cnt,        \* counters of the encoder's contexts
    ans,        \* the states of the lanes, the encoder's and then the decoder's
    hist,       \* normalised tables
    stream,     \* the words of the encoder; then the stream after the tables
    tables,     \* the tables of the stream that are before its end
    pos,        \* words the decoder has read
    fail,       \* the decoder's mark: it wanted to read behind the end
    ones,       \* history: what was coded on lane 0
    wides,      \* history: what was coded on all lanes
    got1,       \* the decoder's symbols
    got16,
    cut         \* history: words missing from the end of the stream

vars == <<stage, stack, count1, count16, cnt, ans, hist, stream, tables, pos, fail,
          ones, wides, got1, got16, cut>>

-----------------------------------------------------------------------------
(* Tables.                                                                 *)

\* The last two loops of normalize(): round after round, every entry gives
\* or takes one until the sum is right.
Adjusted(count) ==
    LET round[p \in [Symbols -> Nat] \X Symbols] ==
            LET h    == p[1]
                i    == p[2]
                next == (i + 1) % NSymbols
            IN  CASE SumFunction(h) > NormSum ->
                         round[<<IF h[i] > 1 THEN [h EXCEPT ![i] = @ - 1] ELSE h, next>>]
                  [] SumFunction(h) < NormSum ->
                         round[<<IF h[i] > 0 THEN [h EXCEPT ![i] = @ + 1] ELSE h, next>>]
                  [] OTHER -> h
    IN  round[<<count, 0>>]

\* (uint32_t)(0.49 + scale * count), and at least 1.
Scaled(n, sum) == Max({1, (49 * sum + 100 * (NormSum * n)) \div (100 * sum)})

\* normalize(): a context with fewer than two symbols still gets two.
Normalised(count) ==
    LET used == {v \in Symbols : count[v] > 0}
        v0   == IF used = {} THEN 0 ELSE Max(used)
        sum  == SumFunction(count)
    IN  IF Cardinality(used) <= 1
          THEN [v \in Symbols |-> IF v = v0 THEN NormSum - 1
                                  ELSE IF v = (IF v0 = 0 THEN 1 ELSE 0) THEN 1 ELSE 0]
          ELSE Adjusted([v \in Symbols |-> IF count[v] > 0 THEN Scaled(count[v], sum) ELSE 0])

\* calcAccumlate(): hsum, clamped.
Below(h, v) == Min({NormSum, SumFunctionOnSet(h, 0..(v - 1))})

\* calcDecodeLookupTable(): the symbol a remainder stands for.
Lookup(h, rest) ==
    IF \E v \in 0..(Topmost - 1) : Below(h, v) <= rest /\ rest < Below(h, v + 1)
      THEN CHOOSE v \in 0..(Topmost - 1) : Below(h, v) <= rest /\ rest < Below(h, v + 1)
      ELSE Topmost

-----------------------------------------------------------------------------
(* One step of one state, for a symbol of frequency f above c.             *)

Emits(a, f) == a \div f > CodeHigh
Shrunk(a, f) == IF Emits(a, f) THEN a \div B ELSE a
Coded(a, f, c) ==
    LET x == Shrunk(a, f)
    IN  (x % f) + (x \div f) * NormSum + c

Uncoded(a, f, c) == (a \div NormSum) * f + (a % NormSum) - c
Wants(x) == x < B
Refilled(x, word) == IF Wants(x) THEN x * B + word ELSE x

Freq(e)  == hist[e[1]][e[2]]
Start(e) == Below(hist[e[1]], e[2])

-----------------------------------------------------------------------------
(* The encoder.                                                            *)

Init ==
    /\ stage = "push"
    /\ stack = <<>> /\ count1 = 0 /\ count16 = 0
    /\ cnt = [c \in Contexts |-> [v \in Symbols |-> 0]]
    /\ ans = [k \in Lane |-> B]
    /\ hist = <<>> /\ stream = <<>> /\ tables = 0 /\ pos = 0 /\ fail = FALSE
    /\ ones = <<>> /\ wides = <<>> /\ got1 = <<>> /\ got16 = <<>> /\ cut = 0

decoderVars == <<tables, pos, fail, got1, got16, cut>>

\* codec(): the pixels of the banner come before those of the body.
Push(e) ==
    /\ stage = "push" /\ wides = <<>> /\ Len(stack) < MaxStack
    /\ stack' = <<e>> \o stack
    /\ count1' = count1 + 1
    /\ cnt' = [cnt EXCEPT ![e[1]][e[2]] = @ + 1]
    /\ ones' = Append(ones, e)
    /\ UNCHANGED <<stage, count16, ans, hist, stream, wides, decoderVars>>

\* codec_x16(): lane 0 ends up on top.
PushAll(es) ==
    /\ stage = "push" /\ Len(stack) + Lanes <= MaxStack
    /\ stack' = [i \in 1..Lanes |-> es[i - 1]] \o stack
    /\ count16' = count16 + 1
    /\ cnt' = [c \in Contexts |-> [v \in Symbols |->
                  cnt[c][v] + Cardinality({k \in Lane : es[k] = <<c, v>>})]]
    /\ wides' = Append(wides, es)
    /\ UNCHANGED <<stage, count1, ans, hist, stream, ones, decoderVars>>

\* encode_all(): the tables of all contexts, used or not.
Normalise ==
    /\ stage = "push"
    /\ hist' = [c \in Contexts |-> Normalised(cnt[c])]
    /\ stage' = "encode"
    /\ UNCHANGED <<stack, count1, count16, cnt, ans, stream, ones, wides, decoderVars>>

\* Faulty: in the order of the lanes.
DescendingNot(S) ==
    CHOOSE s \in [1..Cardinality(S) -> S] : \A i, j \in DOMAIN s : i < j => s[i] < s[j]
Descending(S) ==
    CHOOSE s \in [1..Cardinality(S) -> S] : \A i, j \in DOMAIN s : i < j => s[i] > s[j]

\* Faulty: both words of a state.
PutBoth(out, full) == out \o [i \in 1..(2 * Len(full)) |-> IF i % 2 = 1 THEN ans[full[(i + 1) \div 2]] % B
                                                          ELSE ans[full[i \div 2]] \div B]
\* The low word of each of these states.
Put(out, full) == out \o [i \in DOMAIN full |-> ans[full[i]] % B]

\* encode_x16(): the words of a step from the last lane to the first.
EncodeAll ==
    /\ stage = "encode" /\ count16 > 0
    /\ LET es   == [k \in Lane |-> stack[k + 1]]
           full == Descending({k \in Lane : Emits(ans[k], Freq(es[k]))})
       IN  /\ stream' = Put(stream, full)
           /\ ans' = [k \in Lane |-> Coded(ans[k], Freq(es[k]), Start(es[k]))]
    /\ count16' = count16 - 1
    /\ stack' = SubSeq(stack, Lanes + 1, Len(stack))
    /\ UNCHANGED <<stage, count1, cnt, hist, ones, wides, decoderVars>>

\* encode(): one symbol on lane 0, when no entry of all lanes is left.
EncodeIf(ready) ==
    /\ stage = "encode" /\ ready /\ count1 > 0
    /\ LET e == Head(stack)
       IN  /\ stream' = IF Emits(ans[0], Freq(e)) THEN Append(stream, ans[0] % B) ELSE stream
           /\ ans' = [ans EXCEPT ![0] = Coded(@, Freq(e), Start(e))]
    /\ count1' = count1 - 1
    /\ stack' = Tail(stack)
    /\ UNCHANGED <<stage, count16, cnt, hist, ones, wides, decoderVars>>

Encode == EncodeIf(count16 = 0)

\* The states go last, lane 15 first and each with its low half first; then
\* everything behind the tables is reversed.
Flush ==
    /\ stage = "encode" /\ count16 = 0 /\ count1 = 0
    /\ LET states == [i \in 1..(2 * Lanes) |->
                         LET a == ans[Lanes - 1 - ((i - 1) \div 2)]
                         IN  IF i % 2 = 1 THEN a % B ELSE a \div B]
       IN  stream' = Reverse(stream \o states)
    /\ tables' = NContexts
    /\ stage' = "stream"
    /\ UNCHANGED <<stack, count1, count16, cnt, ans, hist, ones, wides, pos, fail, got1, got16, cut>>

-----------------------------------------------------------------------------
(* The decoder.  The file may have lost its last n words.                  *)

Cut(n) ==
    /\ stage = "stream" /\ cut = 0 /\ n <= NContexts + Len(stream)
    /\ cut' = n
    /\ stream' = SubSeq(stream, 1, Len(stream) - n)
    /\ tables' = Min({NContexts, NContexts + Len(stream) - n})
    /\ UNCHANGED <<stage, stack, count1, count16, cnt, ans, hist, pos, fail,
                   ones, wides, got1, got16>>

\* rd(): the i-th word from here, or 0 behind the limit.
Word(i) == IF pos + i <= Len(stream) THEN stream[pos + i] ELSE 0
MarkedNever(n) == fail      \* faulty: a read behind the limit leaves no mark
Marked(n) == (fail \/ pos + n > Len(stream))
Advanced(n) == Min({pos + n, Len(stream)})

encoderVars == <<stack, count1, count16, cnt, hist, stream, tables, ones, wides, cut>>

\* The constructor: all tables, then the state of lane 0, 1, ..., high half
\* first.  Whatever it cannot read makes fnbliDecompress return NULL.
Open ==
    /\ stage = "stream"
    /\ fail' = (tables < NContexts \/ Marked(2 * Lanes))
    /\ pos' = IF tables < NContexts THEN pos ELSE Advanced(2 * Lanes)
    /\ ans' = [k \in Lane |-> IF tables < NContexts \/ 2 * k > Len(stream) THEN B
                            ELSE Word(2 * k + 1) * B + Word(2 * k + 2)]
    /\ stage' = IF fail' THEN "refused" ELSE "decode"
    /\ UNCHANGED <<encoderVars, got1, got16>>

\* The context comes from the pixels decoded before: that of the encoder, or
\* after a read that failed anything.
ContextsOf(cs) == IF fail THEN Contexts ELSE cs

\* codec(): one symbol of lane 0.
Decode ==
    /\ stage = "decode" /\ Len(got1) < Len(ones)
    /\ \E c \in ContextsOf({ones[Len(got1) + 1][1]}) :
          LET v == Lookup(hist[c], ans[0] % NormSum)
              x == Uncoded(ans[0], hist[c][v], Below(hist[c], v))
              n == IF Wants(x) THEN 1 ELSE 0
          IN  /\ got1' = Append(got1, v)
              /\ ans' = [ans EXCEPT ![0] = Refilled(x, Word(1))]
              /\ fail' = Marked(n)
              /\ pos' = Advanced(n)
    /\ UNCHANGED <<stage, got16, encoderVars>>

\* codec_x16(): the lanes take their words in order.
DecodeAll ==
    /\ stage = "decode" /\ Len(got1) = Len(ones) /\ Len(got16) < Len(wides)
    /\ LET es == wides[Len(got16) + 1]
       IN  \E cs \in [Lane -> ContextsOf({es[k][1] : k \in Lane})] :
             /\ ~fail => \A k \in Lane : cs[k] = es[k][1]
             /\ LET v == [k \in Lane |-> Lookup(hist[cs[k]], ans[k] % NormSum)]
                    x == [k \in Lane |-> Uncoded(ans[k], hist[cs[k]][v[k]], Below(hist[cs[k]], v[k]))]
                    n(k) == Cardinality({j \in 0..(k - 1) : Wants(x[j])})
                IN  /\ got16' = Append(got16, v)
                    /\ ans' = [k \in Lane |-> Refilled(x[k], Word(n(k) + 1))]
                    /\ fail' = Marked(n(Lanes))
                    /\ pos' = Advanced(n(Lanes))
    /\ UNCHANGED <<stage, got1, encoderVars>>

Verdict == IF fail THEN "refused" ELSE "decoded"

Finish ==
    /\ stage = "decode" /\ Len(got1) = Len(ones) /\ Len(got16) = Len(wides)
    /\ stage' = Verdict
    /\ UNCHANGED <<ans, pos, fail, got1, got16, encoderVars>>

Next ==
    \/ \E e \in Pair : Push(e)
    \/ \E es \in [Lane -> Pair] : PushAll(es)
    \/ Normalise \/ EncodeAll \/ Encode \/ Flush
    \/ \E n \in 1..(NContexts + Len(stream)) : Cut(n)
    \/ Open \/ Decode \/ DecodeAll \/ Finish

Spec == Init /\ [][Next]_vars

-----------------------------------------------------------------------------
(* Properties.                                                             *)

\* Every variable has its type; the states of the encoder, and of a decoder
\* whose words did not run out, stay between CODE_LOW and the largest number
\* of two words.
TypeOK ==
    /\ stage \in {"push", "encode", "stream", "decode", "decoded", "refused"}
    /\ stack \in Seq(Pair) /\ Len(stack) = count1 + Lanes * count16
    /\ cnt \in [Contexts -> [Symbols -> Nat]]
    /\ ans \in [Lane -> IF fail THEN 0..(B * B - 1) ELSE B..(B * B - 1)]
    /\ stage # "push" => /\ hist \in [Contexts -> [Symbols -> 0..NormSum]]
                         /\ \A c \in Contexts : SumFunction(hist[c]) = NormSum
    /\ stream \in Seq(0..(B - 1)) /\ pos \in 0..Len(stream)
    /\ tables \in 0..NContexts /\ fail \in BOOLEAN

\* The types, and: what the decoder has produced before any failed read is what was encoded,
\* and at the end of a whole stream every word is used up and the states are
\* back at the value the encoder started with.
RoundTrip ==
    /\ TypeOK
    /\ stage \in {"decode", "decoded"} /\ ~fail =>
          /\ \A i \in DOMAIN got1 : got1[i] = ones[i][2]
          /\ \A i \in DOMAIN got16 : \A k \in Lane : got16[i][k] = wides[i][k][2]
    /\ cut = 0 => stage # "refused"
    /\ stage = "decoded" => pos = Len(stream) /\ \A k \in Lane : ans[k] = B

\* fnbliCompress: the words written so far and the pairs still on the stack fit
\* the two places of the buffer per pair of which the pairs took one ("stack
\* (n_pairs words) + rANS output (<= n_pairs words)", fnbli_api.h:32): no symbol
\* writes more than one word over pairs not coded yet, and the first one of a
\* lane none at all.  The two words of each state at the end exceed this by one
\* per lane.
StackNotOverrun ==
    LET pairs == Len(ones) + Lanes * Len(wides)
        first == IF wides # <<>> THEN Lanes ELSE 1
    IN  /\ stage = "encode" /\ pairs > Len(stack) => Len(stream) <= pairs - Len(stack) - first
        /\ stage # "encode" /\ pairs > 0 => Len(stream) <= pairs - first + 2 * Lanes

\* A stream that lost words at its end is never taken for an image, however
\* few they are ("truncated or damaged stream", fnbli_api.h): without a CRC
\* nothing else would tell.
CutIsNoticed == cut > 0 => stage # "decoded"
=============================================================================
