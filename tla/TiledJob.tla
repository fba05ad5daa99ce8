------------------------------- MODULE TiledJob -------------------------------
(***************************************************************************)
(* The life of a .tnbli file: processFile compresses the strips of an      *)
(* image on a pool of threads and lays the blobs out in a container; later *)
(* decompressStream decodes the strips on a pool into one image.  In       *)
(* between, blobs of the file may be damaged.  Both pools are ForEach.     *)
(***************************************************************************)
EXTENDS TileGeometry, FiniteSets

CONSTANTS
    Height,             \* rows of the image
    N,                  \* tiles
    HeaderSize,         \* TNBLI_HEADER_SIZE, 64
    Lengths,            \* the sizes a compressed strip may have
    Options             \* the circumstances to look at

ASSUME TiledJobAssumption ==
    /\ Height \in Nat /\ N \in 1..Height /\ HeaderSize \in Nat
    /\ Lengths \subseteq Nat \ {0}

Tiles == 0..(N - 1)

\* The threads of both pools, -x (the strips and the image carry a CRC32),
\* strips whose codec may return NULL, strips where compressing or
\* decompressing may throw, strips whose blob may change in the file.
ASSUME OptionsAssumption ==
    Options \subseteq [threads : Nat \ {0}, crc : BOOLEAN, fails : SUBSET Tiles,
                      throws : SUBSET Tiles, throwsBack : SUBSET Tiles, damage : SUBSET Tiles]

Rows == 0..(Height - 1)
First(i) == TileRow(Height, N, i)
Behind(i) == First(i) + TileHeight(Height, N, i)
Strip(i) == First(i)..(Behind(i) - 1)

VARIABLES
    o,                  \* the options of this run
    stage,              \* compress, compressed, decompress, and how it ended
    call, caller,       \* the pool that compresses: see ForEach
    dcall, dcaller,     \* the pool that decompresses
    blens,              \* blens[i]: size of the blob of strip i, 0 while there is none
    nfail,              \* nfail of the loop that runs
    offs, total,        \* the offset table and the size of the container
    damaged,            \* blobs that changed
    row,                \* row[i]: the row strip i writes next
    img                 \* img[y]: what was put into row y last, and how often
                        \* strips with an undamaged blob wrote it

vars == <<o, stage, call, caller, dcall, dcaller, blens, nfail, offs, total, damaged, row, img>>
pools == <<call, caller, dcall, dcaller>>

NThreads == o.threads
Inline == NThreads = 1 \/ N = 1

Pool == INSTANCE ForEach WITH Items <- Tiles
DPool == INSTANCE ForEach WITH Items <- Tiles, call <- dcall, caller <- dcaller

Running(c) == {i \in Tiles : c[i] = "running"}

TypeOK ==
    /\ o \in Options
    /\ stage \in {"compress", "failed", "compressed", "decompress", "damaged", "mismatch", "restored"}
    /\ Pool!FETypeOK /\ DPool!FETypeOK
    /\ blens \in [Tiles -> {0} \cup Lengths]
    /\ nfail \in 0..Cardinality({i \in Tiles : call[i] = "over"})
    /\ offs \in [0..N -> Nat] /\ total \in Nat
    /\ damaged \subseteq Tiles
    /\ row \in [Tiles -> 0..Height]
    /\ img \in [Rows -> [by : {"nobody", "right", "wrong"}, times : Nat]]

Init ==
    /\ o \in Options
    /\ stage = "compress"
    /\ Pool!FEInit /\ DPool!FEInit
    /\ blens = [i \in Tiles |-> 0]
    /\ nfail = 0
    /\ offs = [i \in 0..N |-> 0] /\ total = 0
    /\ damaged = {}
    /\ row = [i \in Tiles |-> First(i)]
    /\ img = [y \in Rows |-> [by |-> "nobody", times |-> 0]]

-----------------------------------------------------------------------------
(* Compressing.                                                            *)

CompressBegins(i) ==
    /\ stage = "compress"
    /\ Cardinality(Running(call)) < NThreads
    /\ Inline => \A k \in 0..(i - 1) : call[k] = "over"
    /\ Pool!Begin(i)
    /\ UNCHANGED <<o, stage, dcall, dcaller, blens, nfail, offs, total, damaged, row, img>>

CompressEnds(i) ==
    /\ Pool!End(i)
    /\ \E len \in Lengths : blens' = [blens EXCEPT ![i] = len]
    /\ UNCHANGED <<o, stage, dcall, dcaller, nfail, offs, total, damaged, row, img>>

CompressFailsSilently(i) ==                \* faulty: NULL, but nfail stays
    /\ i \in o.fails
    /\ Pool!End(i)
    /\ UNCHANGED <<o, stage, dcall, dcaller, blens, nfail, offs, total, damaged, row, img>>

CompressFails(i) ==
    /\ i \in o.fails
    /\ Pool!End(i)
    /\ nfail' = nfail + 1
    /\ UNCHANGED <<o, stage, dcall, dcaller, blens, offs, total, damaged, row, img>>

\* An exception skips the rest of the lambda; a worker of the pool swallows it.
CompressThrows(i) ==
    /\ i \in o.throws
    /\ IF Inline THEN Pool!RaiseFrom(i) ELSE Pool!End(i)
    /\ UNCHANGED <<o, stage, dcall, dcaller, blens, nfail, offs, total, damaged, row, img>>

CompressReturns ==
    /\ Pool!Return
    /\ UNCHANGED <<o, stage, dcall, dcaller, blens, nfail, offs, total, damaged, row, img>>

GiveUp ==
    /\ stage = "compress" /\ caller = "returned" /\ nfail > 0
    /\ stage' = "failed"
    /\ UNCHANGED <<o, pools, blens, nfail, offs, total, damaged, row, img>>

\* Blobs start at multiples of 8.
Aligned(x) == 8 * ((x + 7) \div 8)
HeaderBytes == HeaderSize + 8 * (N + 1)

\* The first loop over the tiles: the size of the buffer.
TotalUnpadded ==                           \* faulty: the padding is forgotten
    LET size[k \in 0..N] == IF k = 0 THEN HeaderBytes ELSE size[k - 1] + blens[k - 1]
    IN  size[N]
Total ==
    LET size[k \in 0..N] == IF k = 0 THEN HeaderBytes ELSE Aligned(size[k - 1]) + blens[k - 1]
    IN  size[N]

\* The second one: where each blob is copied to, and the end of the last one.
Offsets ==
    LET pos[k \in 0..N] == IF k = 0 THEN HeaderBytes ELSE Aligned(pos[k - 1]) + blens[k - 1]
    IN  [k \in 0..N |-> IF k = N THEN pos[N] ELSE Aligned(pos[k])]

WriteContainer ==
    /\ stage = "compress" /\ caller = "returned" /\ nfail = 0
    /\ total' = Total
    /\ offs' = Offsets
    /\ stage' = "compressed"
    /\ UNCHANGED <<o, pools, blens, nfail, damaged, row, img>>

\* External: the file on its way from the encoder to the decoder.
FileIsDamaged ==
    /\ stage = "compressed"
    /\ \E i \in o.damage \ damaged : damaged' = damaged \cup {i}
    /\ UNCHANGED <<o, stage, pools, blens, nfail, offs, total, row, img>>

-----------------------------------------------------------------------------
(* Decompressing.                                                          *)

ReadHeader ==
    /\ stage = "compressed"
    /\ stage' = "decompress"
    /\ nfail' = 0
    /\ UNCHANGED <<o, pools, blens, offs, total, damaged, row, img>>

StripBegins(i) ==
    /\ stage = "decompress"
    /\ Cardinality(Running(dcall)) < NThreads
    /\ Inline => \A k \in 0..(i - 1) : dcall[k] = "over"
    /\ DPool!Begin(i)
    /\ UNCHANGED <<o, stage, call, caller, blens, nfail, offs, total, damaged, row, img>>

\* offs[i] and offs[i + 1] enclose something inside the file.
Enclosed(i) == offs[i] < offs[i + 1] /\ offs[i + 1] <= total

\* The rows above, which a strip is decoded from, may have become wrong.
Misled(i) == i \in damaged \/ \E y \in Rows : First(i) <= y /\ y < row[i] /\ img[y].by = "wrong"

\* One row of a strip is decoded in place (fNBLI), or copied there (NBLI, which
\* has decoded it elsewhere).  A damaged blob brings a header of its own: th
\* and tw are compared with the strip too late or not at all, and rows of the
\* strips below are overwritten.  What it writes behind the image is left out.
WriteRow(i) ==
    /\ stage = "decompress" /\ dcaller = "waiting" /\ dcall[i] = "running" /\ Enclosed(i)
    /\ row[i] < IF i \in damaged THEN Height ELSE Behind(i)
    /\ \E what \in {"right", "wrong"} :
          /\ what = "right" => i \notin damaged
          /\ what = "wrong" => Misled(i)
          /\ img' = [img EXCEPT ![row[i]] =
                       [by |-> what, times |-> IF i \in damaged THEN @.times ELSE @.times + 1]]
    /\ row' = [row EXCEPT ![i] = @ + 1]
    /\ UNCHANGED <<o, stage, pools, blens, nfail, offs, total, damaged>>

StripEnds(i) ==
    /\ DPool!End(i)
    /\ Enclosed(i) /\ i \notin damaged /\ row[i] = Behind(i)
    /\ UNCHANGED <<o, stage, call, caller, blens, nfail, offs, total, damaged, row, img>>

\* The codec finds a damaged blob out by its structure, by a memory fault that
\* the guard catches, by the size in its header or by the CRC of the strip,
\* before, while or after rows are written.
StripFails(i) ==
    /\ DPool!End(i)
    /\ ~Enclosed(i) \/ Misled(i)
    /\ nfail' = nfail + 1
    /\ UNCHANGED <<o, stage, call, caller, blens, offs, total, damaged, row, img>>

\* Or it does not, since the damage may also have hit the CRC of the strip.
StripIsWrong(i) ==
    /\ DPool!End(i)
    /\ Enclosed(i) /\ i \in damaged
    /\ UNCHANGED <<o, stage, call, caller, blens, nfail, offs, total, damaged, row, img>>

\* Memory is allocated before the first row is written; a damaged header may
\* ask for more than there is.
StripThrows(i) ==
    /\ i \in o.throwsBack \cup damaged
    /\ row[i] = First(i)
    /\ IF Inline THEN DPool!RaiseFrom(i) ELSE DPool!End(i)
    /\ UNCHANGED <<o, stage, call, caller, blens, nfail, offs, total, damaged, row, img>>

DecompressReturns ==
    /\ stage = "decompress"
    /\ DPool!Return
    /\ UNCHANGED <<o, stage, call, caller, blens, nfail, offs, total, damaged, row, img>>

ImageIsRight == \A y \in Rows : img[y].by = "right"

FinishAs(checked) ==
    /\ stage = "decompress" /\ dcaller = "returned"
    /\ stage' = IF nfail > 0 THEN "damaged"
                ELSE IF checked /\ ~ImageIsRight THEN "mismatch"
                ELSE "restored"
    /\ UNCHANGED <<o, pools, blens, nfail, offs, total, damaged, row, img>>

FinishUnchecked == FinishAs(FALSE)          \* faulty: the image's CRC is not compared
Finish == FinishAs(o.crc)

-----------------------------------------------------------------------------
Strips(i) ==
    \/ CompressBegins(i) \/ CompressEnds(i) \/ CompressFails(i) \/ CompressThrows(i)
    \/ StripBegins(i) \/ WriteRow(i) \/ StripEnds(i) \/ StripFails(i) \/ StripIsWrong(i) \/ StripThrows(i)

Caller ==
    \/ CompressReturns \/ GiveUp \/ WriteContainer \/ ReadHeader
    \/ DecompressReturns \/ Finish

Thrown == caller = "raised" \/ dcaller = "raised"
Over == stage \in {"failed", "damaged", "mismatch", "restored"} \/ Thrown
Terminated == Over /\ UNCHANGED vars

Next == (\E i \in Tiles : Strips(i)) \/ Caller \/ FileIsDamaged \/ Terminated

Spec == Init /\ [][Next]_vars

-----------------------------------------------------------------------------
(* Properties.                                                             *)

\* The types, and the offset table: every blob is aligned, lies behind the table, ends before
\* the next one begins, and the last one ends with the buffer, whose size was
\* computed by another loop.
ContainerSound ==
    /\ TypeOK
    /\ stage \in {"compressed", "decompress"} =>
          /\ \A i \in Tiles : offs[i] % 8 = 0 /\ offs[i] + blens[i] <= offs[i + 1]
          /\ offs[0] >= HeaderBytes
          /\ offs[N] = total

\* The threads share the image without a lock, and whatever their order no row
\* is written twice by strips whose blobs are undamaged.  A damaged strip, which
\* writes as many rows as its own header says, spoils no row above its own: what
\* is wrong lies at or below the first row of a damaged strip.
RowsKeptApart ==
    /\ \A y \in Rows : img[y].times <= 1
    /\ \A y \in Rows : img[y].by = "wrong" => \E i \in damaged : First(i) <= y

\* A decode that reports success has restored the image: with a CRC always,
\* also when blobs were damaged or an exception was swallowed; without one
\* when neither happened.
RestoredIsRight ==
    stage = "restored" /\ (o.crc \/ (damaged = {} /\ o.throwsBack = {})) => ImageIsRight

\* The decoder finds every strip of a container that was written and not
\* damaged: a strip whose compression failed never gets into a file that is
\* reported as good.
WrittenIsReadable == damaged = {} => stage # "damaged"
=============================================================================
