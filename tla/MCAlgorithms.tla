----------------------------- MODULE MCAlgorithms -----------------------------
(***************************************************************************)
(* Pure algorithms over bounded inputs, one initial state for each input:  *)
(* the strips of MCTileGeometry, the code words of tables, the prefix      *)
(* codes, runs and matches of deflate, the masks, the pixels and the code  *)
(* trees of NBLI, the pixels of fNBLI, the filters of PNG rows, and the    *)
(* command line.                                                           *)
(***************************************************************************)
EXTENDS MCTileGeometry, MCPixels, MCCommandLine, TableCode, Huffman, Mapper, PngFilter

CONSTANTS
    Plain, Sharp,   \* values of table entries; of the second set at most one in a table
    Freqs,          \* frequencies of symbols
    RunCounts,      \* lengths of runs
    Pixels, Levels, \* bytes of an image, compression levels
    Width,          \* bytes in each of its two rows
    None            \* "no result yet", "no input"

ASSUME InputsAssumption ==
    /\ Plain \cup Sharp \subseteq 0..(TableSum - 1) /\ RunCounts \subseteq Nat
    /\ Pixels \subseteq 0..(Bytes - 1) /\ Levels \subseteq Int /\ Width \in Nat \ {0}

VARIABLES kind, input, result

algVars == <<choice, kind, input, result>>

\* The entries of a table.
EntrySets == {t \in [1..(NEntries - 1) -> Plain \cup Sharp] :
                  Cardinality({i \in DOMAIN t : t[i] \notin Plain}) <= 1}
\* Two runs of lengths, and the lengths themselves.
RunSets == {<<p, q>> : p, q \in (0..2) \X RunCounts}
Lens(rs) == [i \in 1..rs[1][2] |-> rs[1][1]] \o [i \in 1..rs[2][2] |-> rs[2][1]]
\* Every length, and the distances around the first one of every symbol.
Furthest == 32768
Edges == {d \in 1..Furthest : \E b \in Range(DistBase) \cup {Furthest} : d \in (b - 1)..(b + 1)}
Matches == ((3..258) \X {1}) \cup ({3} \X Edges)

NoStrips == height = 1 /\ threads = 0 /\ option = 0 /\ tiled = FALSE /\ n = 0

AlgInit ==
    /\ result = None
    /\ \/ ChoiceInit /\ kind = "strips" /\ input = None
       \/ NoStrips /\ kind = "table" /\ input \in EntrySets
       \/ NoStrips /\ kind = "freqs" /\ input \in [Syms -> Freqs]
       \/ NoStrips /\ kind = "runs" /\ input \in RunSets
       \/ NoStrips /\ kind = "match" /\ input \in Matches
       \/ NoStrips /\ kind = "mask" /\ input \in [Values -> {0, 1}]
       \/ NoStrips /\ kind = "png" /\ input \in [rows : [1..2 -> [1..Width -> Pixels]], level : Levels]
       \/ NoStrips /\ kind = "nbli" /\ input \in Images
       \/ NoStrips /\ kind = "fnbli" /\ input \in StepSeqs
       \/ NoStrips /\ kind = "tree" /\ input \in Codings
       \/ NoStrips /\ kind = "line" /\ input \in Lines

Compute(k, value) ==
    /\ kind = k /\ result = None
    /\ result' = value
    /\ UNCHANGED <<choice, kind, input>>

AlgNext ==
    \/ kind = "strips" /\ Choose /\ UNCHANGED <<kind, input, result>>
    \/ Compute("table", Words(input))
    \/ Compute("freqs", Lengths(input))
    \/ Compute("runs", Runs(Lens(input)))
    \/ Compute("match", <<Split(input[1], LenBase, LenExtra), Split(input[2], DistBase, DistExtra)>>)
    \/ Compute("mask", EncodeMask(input))
    \/ Compute("png", WritePNG(input.rows, input.level))
    \/ Compute("nbli", NbliBothWays(input))
    \/ Compute("fnbli", FnbliBothWays(input))
    \/ Compute("tree", TreeBothWays(input))
    \/ Compute("line", [jobs |-> Jobs(WholeLine(input)), set |-> Settings(WholeLine(input))])

AlgSpec == AlgInit /\ [][AlgNext]_algVars

Has(k) == kind = k /\ result # None

\* Of a word of 16 bits.
WordMax == 65535

\* What is written can be read.  The decoder of a table (FnbliHist::decode)
\* gets back every entry and stops at the last word, without a word that
\* reaches behind the table, and notices a stream that ends earlier; a reader
\* of a deflate block gets the code lengths from the runs, and the match from
\* the symbols and their extra bits; the code trees of NBLI give back each value
\* and use up the words, each of which is one, both sides ending with the same
\* interval and the same probabilities; the decoder of NBLI (Mapper::decodeMask)
\* gets the mask from the same number of words, all of which fit their fields,
\* and each value from its number; a PNG reader gets the rows.
ReadBack ==
    /\ Has("table") =>
           /\ \A k \in DOMAIN result : result[k] \in 0..WordMax
           /\ Read(result) = [table |-> input, used |-> Len(result), fail |-> FALSE]
           /\ \A k \in 0..(Len(result) - 1) : Read(SubSeq(result, 1, k)).fail
    /\ Has("runs") => Expanded(result) = Lens(input)
    /\ Has("match") => input = <<Joined(result[1], LenBase), Joined(result[2], DistBase)>>
    /\ Has("mask") =>
           /\ DecodeMask(result) = [bits |-> [k \in 1..(MaxVal + 1) |-> input[k - 1]], used |-> Len(result)]
           /\ \A k \in DOMAIN result : result[k].bits = <<>> =>
                  result[k].same - RunBase \in 0..(RunSpan - 1) /\ result[k].flip - 1 \in 0..(FlipMax - 1)
           /\ \A v \in Values : input[v] = 1 => Backward(input, Forward(input, v)) = v
    /\ Has("png") => Unfiltered(result) = input.rows
    /\ Has("tree") =>
           LET e == result[1]
               d == result[2]
           IN  /\ d.got = [k \in DOMAIN input |-> input[k].val] /\ d.s.words = <<>>
               /\ d.s.low = e.low /\ d.s.rng = e.rng /\ d.s.prob = e.prob
               /\ \A k \in DOMAIN Flushed(e) : Flushed(e)[k] \in 0..(Radix - 1)

\* huff_build: lengths within the limit that fill the code space exactly (RFC
\* 1951 allows one exception, a single symbol), and codes of which none begins
\* another.
CodeIsComplete ==
    Has("freqs") =>
        LET codes == Codes(result)
            used == Used(input)
        IN  /\ \A s \in Syms : result[s] \in 0..MaxLen /\ (result[s] > 0 <=> s \in used)
            /\ \A s, r \in used : s # r => ~IsPrefix(codes[s], codes[r])
            /\ Cardinality(used) > 1 =>
                   SumFunctionOnSet([s \in Syms |-> 2^(MaxLen - result[s])], used) = 2^MaxLen

\* NBLI (compressNBLI, decompressNBLI): the decoder uses up the code, in the
\* contexts it was made in, and gets the pixels the encoder has put in the place
\* of its own.  Without loss these are the image; otherwise no level is further
\* off than what the tests grant ("tolerance `2*near+1`", README.md:356), and no
\* gray level further than near.  All numbers are within their histogram.
PixelsSurvive ==
    Has("nbli") =>
        LET e == result[1]
            d == result[2]
            near(x, y) == Gap(x, y) <= IF input.rgb /\ input.near > 0 THEN 2 * input.near + 1 ELSE input.near
        IN  /\ ~d.lost /\ d.code = <<>> /\ d.buf = e.buf
            /\ \A k \in DOMAIN e.buf :
                   IF input.rgb THEN \A c \in 1..3 : near(e.buf[k][c], input.img[k][c])
                   ELSE near(e.buf[k], input.img[k])
            /\ \A k \in DOMAIN e.code : e.code[k].w \in 0..e.m[e.code[k].ctx[1]].maxval

Int16(c) == -32768 <= c /\ c <= 32767

\* fNBLI (fnbliCodec1, fnbliCodec16): from the symbols the decoder gets back the
\* samples of every lane, although lanes that share a context read it together
\* and overwrite each other; it asks in the contexts the symbols were made in,
\* and has learned the same.  Symbols are within their tables, errors and the
\* contexts within int16.
SamplesSurvive ==
    Has("fnbli") =>
        LET e == result[1]
            d == result[2]
        IN  /\ d.out = e.out /\ d.out = [k \in DOMAIN input |-> input[k].x]
            /\ ~d.st.lost /\ d.st.code = <<>> /\ d.st.ctxs = e.st.ctxs
            /\ \A k \in DOMAIN e.st.code : \A j \in DOMAIN e.st.code[k].w :
                   e.st.code[k].w[j] \in 0..MaxOf(e.st.code[k].plane)
            /\ \A p \in DOMAIN e.st.ctxs : \A a \in DOMAIN e.st.ctxs[p] : Int16(e.st.ctxs[p][a])

\* The command line ("mtnbli [-switches] <in1> [-o <out1>] [<in2> [-o <out2>]]",
\* USAGE): every file is a job, a name after -o goes to the last file before it
\* and to no other, wherever the switches are, and also where only some files
\* have a name.  The switches mean the same wherever they are; -d with -M, and
\* -M F with what only NBLI has, run nothing.
NamesPaired ==
    Has("line") => /\ result.jobs = IF Excluded(input) THEN <<>> ELSE Paired(input.groups)
                   /\ result.set = Settings(SwitchesOf(input))
=============================================================================
