# mtnbli: TLA+ models, model checking and proofs

`mtnbli` compresses PNM and PNG images with the NBLI and fNBLI codecs and turns them back into
PNG or PNM. It runs a batch of files on a pool of threads, and it can cut one image into
horizontal strips ("tiles") that are coded in parallel and stored in a `.tnbli` container. This
directory models the parts of it that are hard to test: the threads and what they share, the
containers, the recovery from damaged streams, the order in which pixels are coded, the models of a
pixel in both codecs, the entropy coders, the deflate encoder of the PNG writer, and the command line.

Paths below are relative to `src/src/` unless they begin with `src/`.

## 1. The system

| part | source | state | operations | model |
|---|---|---|---|---|
| command line | `main`, `mtnbli.cpp:894-1000` | `g_*` switches, `srcs`, `dsts` | parse, pair `-o` names with sources, reject combinations | `CommandLine` |
| batch driver | `main`, `mtnbli.cpp:1009-1177` | `jobs`, `state`, `n_done`, `halt`, `g_tile_done/total`, the console | pool of jobs, reporter, join, clear, exit status | `Batch` |
| file job | `processFile` | one `Job`, the file system | load, code, test for an existing output, write | `Batch` |
| thread pool | `ThreadPool.h` | `next`, the threads, the caller | `run(n, n_thread, fn)`, `defaultThreadCount` | `ForEach`, `ParallelFor` |
| tile geometry | `tiles.h` | none | rows and heights of strips, number of strips | `TileGeometry` |
| `.tnbli` container | tiled branches of `processFile`, `decompressStream` | `blobs`, `blens`, `nfail`, offset table, image | compress strips, lay out, decompress strips | `TiledJob` |
| safe decode | `safedecode.h`, callers in `mtnbli.cpp`, `nbli/rANS.h:16-40` | per thread: jump buffer, `armed_`, stream limit, damage mark; per file: the mapping | `FAULT_TRY/CATCH/END`, handler, guarded buffer | `FaultGuard` |
| fNBLI pixel order | samplers and loops of `fnbli_scalar.h`, `fnbli_api.h` | position and registers of each lane, the image | banner on one lane, body on 16 | `CausalScan`, `Wavefront` |
| rANS coder | `fnbli_scalar.h:128-485`, twin in `nbli/rANS.h` | stack, counters, tables, states, words | `codec`, `codec_x16`, `encode_all`, reading with a limit | `Rans`, `TableCode` |
| fNBLI pixel model | rest of `fnbli_scalar.h` | contexts, correctors | predict, correct, quantise, colours | `FnbliPixel`, `PlaneModel` |
| NBLI codec | `nbli/` | maps, trees, models | planes of an image; code trees over an arithmetic coder | `NbliCodec`, `PlaneModel`, `GolombCode`, `AriCode`, `Mapper` |
| deflate | `imageio/deflate.c` | ring, hash chains, tokens | write, end, emit a block | `Deflate`, `Huffman` |
| PNG writer, PNM files | `imageio/imageio_png.c`, `imageio_pnm.c` | - | filter rows, frame chunks; parse | `PngFilter` for the filters |
| PNG reader | `imageio/uPNG` | vendored | - | - |

How they interact: `main` hands a lambda to `ParallelFor::run`; each call runs `processFile`, which
for a tiled image calls `ParallelFor::run` again. Jobs and the reporter share atomics and, under
`g_out_mtx`, the console. Strips of one image write into the same memory without a lock. A decode
sits between `FAULT_TRY` and `FAULT_END`, so a fault in it returns by `longjmp`; each tile has a
guard of its own, in the same thread when the pool of tiles runs inline. Inside a codec the pixel
order decides which neighbours exist, the model turns a pixel into context and symbol, and the
entropy coder writes the symbols backwards.

What makes it hard: threads that claim indices, fail to start or throw; values read one by one
while others change them; a test for a file and its creation that are two steps; `longjmp` past
destructors and thread-local state that outlives it; exceptions that a worker swallows; adaptive
coders whose two sides must see the same data; bounds that are sharp (width of a wave front, the
window inside the ring, the token buffer, the range of a state).

The correctness of each part, in a line:

- pool: every index is executed exactly once before `run` returns, whatever is thrown;
- batch: the status line is consistent, nothing is overwritten without `-f`, failures are
  reported, success means an own output, complete unless the disk was full, the run ends;
- geometry: strips partition the image, none is too low, threads respect the memory guard;
- container: blobs do not overlap, good strips keep to their rows and damaged ones spoil none above, a decode
  that succeeds is right;
- safe decode: a fault jumps to the guard of the decode that caused it, and the right file is blamed;
- pixel order: every pixel is coded, none twice; encoder and decoder see the same neighbours, and only decoded ones;
- entropy coders: what is coded is decoded, to the last word, and a stream cut short is refused;
- pixel models: the decoder ends with the encoder's samples, contexts and errors; without loss these
  are the image, with loss they are near it;
- command line: each output name goes to its file, wherever the switches are;
- deflate: the tokens are the input, however it is cut into chunks.

## 2. Modules

| module | what it is | its runs |
|---|---|---|
| `ForEach` | abstract: a parallel loop; used by `Batch` and `TiledJob` as their pool | |
| `ParallelFor`, `BatchProofs` | the pool in detail; implements `ForEach` | `pool`, `inline` |
| `Batch`, `BatchProofs` | jobs, reporter, console and files | `batch`, `batch_overwrite` |
| `TileGeometry`, `TileProofs` | the arithmetic of strips | `algorithms` |
| `TiledJob`, `TileProofs` | extends `TileGeometry`; a container there and back | `tiled`, `tiled_lost` |
| `FaultGuard`, `FaultGuardProofs` | guards, faults, limits and mappings | `fault_guard` |
| `CausalScan` | abstract: an order of pixels a decoder can follow | |
| `Wavefront`, `WavefrontProofs` | the samplers and loops; implements `CausalScan` | `wavefront` |
| `Rans`, `CoderProofs` | the entropy coder | `rans` |
| `TableCode` | the code words its tables are stored in | `algorithms` |
| `Deflate`, `DeflateProofs` | the deflate encoder up to the tokens | `deflate`, `deflate_tokens` |
| `Huffman` | the prefix codes of its blocks, the runs they are sent in, the symbols of matches | `algorithms` |
| `PngFilter` | the row filters of the PNG writer | `algorithms` |
| `Mapper` | NBLI's mask and numbering of the values of a plane | `algorithms` |
| `PlaneModel` | one plane of NBLI: prediction, contexts, from sample to number; fNBLI uses parts of it | `algorithms` |
| `NbliCodec` | extends `PlaneModel`; an image, encoder and decoder | `algorithms` |
| `FnbliPixel` | extends `PlaneModel`; the steps of fNBLI on any number of lanes | `algorithms` |
| `PixelProofs` | theorems about `NbliCodec`, `Mapper` and `FnbliPixel`, up to whole images and coding loops | |
| `AriCode`, `ReadBackProofs` | the arithmetic coder of NBLI and its probabilities | `algorithms` |
| `GolombCode` | extends `AriCode`; values as paths through code trees | `algorithms` |
| `ReadBackProofs` | theorems about `AriCode`, `GolombCode`, `TableCode`, `Huffman`, `Mapper` and `PngFilter`: what is written can be read | |
| `CommandLine` | from the arguments to the jobs and settings | `algorithms` |

`MCPixels` declares what is coded as constants: `Images`, `StepSeqs` and `Codings`. Their assumptions say only what the program gives
its coders: an image has at least one pixel and its pixels are levels or colours (`ImagesAssumption`), all steps of a loop have
the same planes and lanes (`StepSeqsAssumption`), and values are below the end of the last code tree (`CodingsAssumption`). `InputsAssumption` of
`MCAlgorithms` says the same of its inputs. `Algorithms.cfg` gives them the sets TLC runs through, `SmallImages`, `SmallStepSeqs` and `SmallCodings`.

Each module has one type invariant, which `FaultGuard`, `TiledJob`, `Deflate` and `Rans` check as part of
another property. The `MC...` modules give constants their values; where several command lines or circumstances are
looked at, they are one set `Options` from which the initial state picks. Each definition that
models code is listed with its lines in `PROJECT.json`, together with the mutants: for every
property one plausible bug (written down in the module as a "faulty" operator) that violates it.

### ForEach and ParallelFor

`ForEach` says what the callers of the pool rely on: each item is started at most once, calls
overlap freely, control comes back when all have ended; or the loop is abandoned. `ParallelFor`
has the caller (`pc`, the index `k` of its loops), the shared `next`, and for each worker its
state, its claimed index and whether it holds the mutex of the `catch` block. `Fetch` is the
`fetch_add` with the test `i >= n`; `FnReturns` and `FnThrows` end a call; `Spawn` may throw after
some threads exist, in which case `run` goes on with those. With `nt <= 1` the loop runs on the
caller's thread and an exception leaves it.

### Batch

One variable per thing the threads share: `state`, `nDone`, `tileDone`, `tileTotal`, the file
system `fs`, the console (`screen`: clean or showing a status line; `mixed`: which kinds of line were printed into
a status line that was not cleared). Result lines, the status line and the summary hold `g_out_mtx`, and the first clear a status line; the PNG loader
does neither (`LoaderRemarks`: it prints when it drops an alpha channel or refuses a format). `ScreenCleanAtExit` says that only its remarks ever get mixed up
with a status line, and when. A job goes through `Load`, `Coded`, `Check`, `Open`, `Write`, `FinishAndCount` and `Report`.
`FinishAndCount` is two steps, `state = 2` and then `n_done++`; the reporter reads `n_done`,
`g_tile_done`, `g_tile_total` and then the states, each in a step of its own. That the job stores
its state first and the reporter reads the count first is why the line adds up, and
`StatusLineConsistent` fails when the order in the job is swapped. File contents are only kinds: absent, image, RGBA image, refused image, stream, partial, mixed (two writers).

### TileGeometry and TiledJob

`TileGeometry` has the formulas of `tiles.h` and the choice of `processFile`, with `uint32_t`
products taken modulo `Word`. `TiledJob` compresses strips on a pool (a blob may be missing because
the codec failed, which is counted, or because it threw, which is not), computes the size of the
container with one loop and the offsets with another, loses or damages blobs, and decompresses on a
pool. `ForEach` supplies the order of the threads. A strip writes its rows one after the other (`WriteRow`). The header in a damaged blob may ask for other rows than
the strip has, and nothing compares them before they are written (`mtnbli.cpp:536`, `:546`), so a damaged strip may go on to the end of the image; then a
strip below, which is decoded in place from the rows above, may be `Misled`. `times` counts the writers with good blobs, `by` is what was written last.
What a damaged strip writes behind the image is left out.

### FaultGuard

Each thread has `armed`, the target of its jump buffer, the limit of its stream and its damage mark
(`tls`), and what it is doing. A fault in a decode jumps if the thread is armed and kills the process otherwise. The
pool of tiles runs inline or on helper threads. `buffer` is the life of a file's mapping.

### CausalScan and Wavefront

A pixel value is modelled by where it comes from, so "the same value" means "the same pixel". A
step first builds the templates (the neighbours of each lane, from registers and from the image)
and then codes. In a decoder a pixel not yet decoded reads as `Raw`. `CausalScan` is what an
adaptive coder needs: each pixel after its neighbours, none a second time. `coded` is a set, in which a pixel coded again would not
show; `recoded` is the set of those that were, later or by two lanes in one step (`CodePixels`), and in `CausalScan` it stays empty. `SafeSpec` is `Spec` without fairness.

### Rans

Symbols are stacked and counted (`Push`, `PushAll`); `Normalise` makes the tables with the code's own
rounding; `EncodeAll` and `Encode` take the stack from its top; `Flush` writes the states and reverses
the words. `Cut` removes words from the end of the stream, tables included. `Open`, `Decode`,
`DecodeAll` and `Finish` are the decoder. The contexts a decoder uses after a failed read are
arbitrary, as they depend on pixels that are wrong.

### Deflate

`ring` and `tab` (heads and chains) are the arrays of the encoder; a match is found by walking a chain of at most
`chain` entries; the lazy levels look one byte ahead. The input comes in chunks of any sizes.
`restored` is what a reader of the finished blocks has.

### TableCode, Huffman, Mapper and PngFilter

Pure algorithms without state. `Words` is `FnbliHist::encode` and `Read` is `decode`, which also says how
many words it took and whether it failed. `Lengths` is `huff_build` with its rebuilding from flatter
frequencies, `Codes` gives the canonical codes as bits, `Runs` is the run length code of `defl_block`, and
`Split` the symbol and extra bits of a length or distance. What a reader of a block does (`Expanded`,
`Joined`) is external. `EncodeMask` and `DecodeMask` are NBLI's with their numbers (15 bits, runs from 16,
512 lengths, 64) as constants. `WritePNG` filters the rows with the filter `PickFilter` takes for the level;
`Unfiltered` is any PNG reader. `MCAlgorithms` picks one input per initial state and computes its result in one step.

### The pixels: PlaneModel, NbliCodec and FnbliPixel

`NbliCodec` walks over a buffer of pixels with one record of state, `st`: the buffer, the models of the planes
(`st.m`: the template `a` .. `s`, the last error, the contexts in use), the sample at hand and the code. `CodePixel` is the
body of the loop for encoder and decoder alike; they differ where the code does (`IS_ENC`): the encoder loads
the sample and appends its number, the decoder takes the number. The encoder stores what the decoder will see
(`Written`), from which later pixels take their neighbours; with loss, one that forgets this drifts away.
A number stands in the code with its context, so a decoder that asks in another one is noticed (`lost`).

`FnbliPixel` takes the neighbours of each lane as given (where they come from is `Wavefront`) and has the
planes U, V and Y of a step: `Act` is `act` and `act_x16`, in which all lanes read their contexts before any
writes, and of those that share one the last lane's value stays. `CodeSteps` is the coding loop around it. fNBLI's tables, neighbour sums and context bits are
those of `PlaneModel`. 16-bit arithmetic is written as integers; that it stays within 16 bits is checked and proved
where it is not plain (`ContextFits`).

### The code trees: AriCode and GolombCode

`AriCode` has one step of the arithmetic coder: the interval `low .. low + rng`, its split, and what happens
when it becomes small. The code cuts the interval where it would reach over the end of a word (`Capped`), so
there is never a carry. `GolombCode` puts words around it: a value climbs by `2^k`, changes to the tree of a rougher context
when it is at the top, and ends with `k` low bits. The loop of `GolombCodeTree::codec` is a row of turns, as many as the longest
value can take (`Longest`: the steps up the first tree and the last one, half the steps up each tree between, which is
entered in its middle, and the low bits), of which the last ones change nothing. `Unit[k]` is `1 << k`. Numbers are constants; the run uses words of 8 bits (`Radix = 256`),
the smallest range 15, probabilities of 6 bits (`One = 64`) and trees of 128 nodes, in which the interval is cut and words are
written after a few bits. With the program's constants the products would leave TLC's integers; the theorems hold for them.

### CommandLine

An argument is a sequence of tokens: `-`, letters, the words that are compared as a whole, a value. `Argument` is one turn of
the loop in `main` and may take the next argument as well. `Jobs` are the pairs of source and name, `Settings` what
the switches mean. An argument that begins with `-0` is near 0 and nothing else, its further letters
are not looked at.

## 3. What the runs check

| run | instance | what it shows |
|---|---|---|
| `pool` | 4 indices, 3 threads (4 CPUs limited by a quota of 2.5), two indices may throw, threads may fail to start | `RaiseIsClean`, `RunFinishes`, and that the pool implements `ForEach` |
| `inline` | one thread, 40 indices, any may throw | the inline loop implements `ForEach` |
| `batch` | 3 jobs (tiled image, stream, image whose output exists; among them an RGBA PNG and one the loader refuses), 5 command lines | consistent status line, no overwriting, failures reported, successes left their own output, only the PNG loader mixes lines, the run ends |
| `batch_overwrite` | 2 sources with one output | **violation**: see finding 1 |
| `algorithms` | strips: heights to 30, threads to 12, `-T` from -1 to 8, words of 4 bits; tables of 5 entries around every bound of the code words; 6 symbols, codes of at most 3 bits; two runs of up to 150 lengths; every match length, distances at the edges of their symbols; masks of 12 values with short words and runs; images of 2 rows of 4 bytes, every level class; NBLI: gray images of 6 pixels (2 or 3 wide), colour images of 2 x 2, near 0, 1 and 7; fNBLI: two lanes, two steps and the same again, gray and colour; code trees: one or two values from all contexts; command lines of 1 to 4 groups of files with two switches anywhere | strips partition, strips are tall enough, memory guard; what is written is read back; codes are complete and prefix-free; pixels and samples survive, in the same contexts on both sides; names go to their files |
| `tiled` | 3 strips of 5 rows, 3 sets of circumstances | container sound, strips kept apart row by row, also from damaged ones above and below, decode right, what was written can be read |
| `tiled_lost` | one strip throws on a worker | **violation**: see finding 2 |
| `fault_guard` | 2 files of any kind, 2 tiles, up to 3 damaged parts | guards, blame, mapping |
| `wavefront` | 1..12 rows, 1..9 columns, 4 lanes, both sides | same neighbours, nothing undecoded, implements `CausalScan` (nothing coded twice), ends |
| `rans` | 2 lanes, 2 contexts, 3 symbols, 5 stacked pairs, any cut | round trip, states in range, cuts noticed, words never reach the stack |
| `deflate` | every input of 11 bytes over 2 symbols, ring of 10, blocks of 3 tokens | round trip, window kept, framing |
| `deflate_tokens` | the same | **violation**: see finding 3 |

Why the bounds suffice. Pool: with three workers and four indices a worker can be inside `fn`,
inside its `catch`, and past the end at once, while another index waits. Batch: two threads and three jobs
give a job that finishes, one that runs and one that starts between two reads of the reporter.
Geometry: `Word = 16` makes `2 * threads` wrap, to 0 too. Tables: five entries hold any word and what
follows it, and a word that looks behind the end (`Pad = 0`: none may be written there). Masks: 12
values with words of 3 bits and runs from 4 to 6 have runs that are too long, end the mask, or flip the expected bit. Prefix codes: many
trees of six symbols are deeper than three bits and are built again. Container: three strips of five rows are
uneven, and lengths 5 and 8 need and do not need padding. Fault guard: two files on one thread
follow each other's state, on two threads they are concurrent. Wave front: the shapes lie on both sides of every
bound of the size test, and a body has one block of lanes and several. Rans: one lane takes three symbols and the
other two, enough for both to write words in one step; tables of three symbols have to be
corrected up and down. Pixels: images of three rows and two columns, and of two rows and three, have every kind of border and
both upper right neighbours; levels at both ends make corrections clip and errors as large as they get; in four steps of two
lanes, contexts are shared within a step and met again. Code trees: the values lie at the edges of every level and reach the
rougher trees up to the last one. Command lines: four groups are what it takes for a name to follow several sources
without one. Deflate: inputs are longer than the ring, matches cross its end, blocks
end inside a lazy step, and `RingSize` is the smallest the assumption allows.

`CHECK_DEADLOCK FALSE` stands in the runs of algorithms that stop (`algorithms`, `wavefront`, `rans`).

**Fairness.** `ParallelFor` and `Batch` assume weak fairness of each thread: the operating system
keeps running threads that can run, and codecs end. Nothing is asked of the mutexes; weak fairness
of the threads is enough since each holds a mutex for a bounded number of steps. `Wavefront` is a
sequential program and assumes that it keeps running. `Deflate` has no fairness and no liveness
property; each of its steps uses up input, feeds, or puts a block out.

### Findings

1. *Two jobs with one output* (`batch_overwrite`, `mtnbli.cpp:648`). `a.pgm` and `a.ppm` both become
   `a.fnbli`; `fileExist` and `fopen` are two steps, so without `-f` both jobs can pass the test.
   Both report success and one output is lost.
2. *A strip that throws is lost* (`tiled_lost`, `mtnbli.cpp:662`). The worker swallows the exception,
   `nfail` is not incremented, and a container without the strip is written and reported as good.
3. *One token too many* (`deflate_tokens`, `imageio/deflate.c:313`). A lazy step appends a literal and a
   match to a buffer that was tested for one token.

Met while modelling, without a run of their own:

- an exception in the job lambda leaves no result line and a job that counts as running for ever
  (`mtnbli.cpp:1077`); the runs admit exceptions only where the pool is inline and the process ends;
- on decode, a strip that throws is lost with its rows; a CRC notices, without one nobody does (`mtnbli.cpp:526`);
- the exit status is the number of failures modulo 256 (`mtnbli.cpp:1177`);
- the PNG writer ignores what `fwrite` and `fclose` return (`imageio/imageio_png.c:155`); the PNG loader
  prints outside of `g_out_mtx` (`imageio/imageio_png.c:236`, `244`, `261`) and may leave parts of a status line on the console, which is
  in the model of the batch;
- the comment at `fnbli_scalar.h:121` (and `nbli/rANS.h:196`) says that the last word of a valid table may write
  behind it; `encode` never produces such a word, as `ReadBack` with `Pad = 0` shows;
- `-M MT -T 1` means automatic (`mtnbli.cpp:627`); after a failed job the summary names it only if
  some other job succeeded;
- an exception that passes a guard leaves `armed_` set (`safedecode.h:92` says it is never stale);
  `OnlyImagesKill` bounds what follows from it.

## 4. What is proved

All proofs are checked by TLAPS and hold for every value of the constants that satisfies the named
assumptions; `TLC` evaluates those assumptions in the runs.

**The pool** (`BatchProofs`, from `PoolAssumption`). The inductive invariant `PoolIInv` adds to
`PoolTypeOK` three parts: `PhaseInv` (which workers exist in which phase of the caller), `ClaimInv` (indices
below `next` were called once and either ended or are claimed by one live worker; those above were not) and
`InlineInv` (the same for the caller's own loop). `NoIndexLost` alone is not inductive: without `PhaseInv`
a worker could be missing. From it follow `PoolTypeCorrect`, `EachIndexAtMostOnce`, `AllDoneOnReturn`,
`RaiseLeavesNothing`, `NoClaimIsLost`, and `Refinement`: each step is a step of `ForEach` or a stutter.
`DefaultThreadCountBounds` shows that the thread count is at least one and within the hardware's.

**A batch** (`BatchProofs`, from `BatchAssumption`). `IInv` relates what the threads share to where each job is. `CountInv` says
that `n_done` is the number of jobs behind the increment, `TileInv` that the two tile counters are the sizes of two sets of pairs (job,
tile), the done among the announced, and both say what a reader's copies have kept of that: copies only lag behind, which is why `StatusLineFits` although
the reporter reads one counter after the other. `ControlInv` and `ThrowInv` tie the pool, the places of the jobs and `main` together, so that
`NamesOneFilePerThread` and `FailuresAreReported` follow; both hold *unless* `ExceptionSwallowed`: a worker of the pool lost a job to an exception, the
fault of the code named in section 3. `ConsoleInv` orders the reporter's last line before `main`'s clearing and says that a status line is on the screen only while `progOn` is set; with `SourceInv`
(no job writes an image the loader has something to say about) that gives `ConsoleLeftClean`. `FileInv`
follows a job from the test for the output to its last byte (`Kept`: the whole, or the beginning when the disk was full). `SuccessMeansWritten` holds while no two jobs make the same file, and
`NothingOverwritten` for names of which no two are alike (`DistinctNames`): the run `batch_overwrite` shows what happens otherwise.

**Strips** (`TileProofs`, from `TileAssumption`). `StripsAreStacked` for all heights and counts,
from the lemmas about division with remainder; then the three properties of the run for every
instance (`StripsAlwaysPartition`, `StripsAlwaysTall`, `MemoryAlwaysGuarded`) and `GuardHolds` for
every size of the memory guard. `Chosen` is the strengthening: a chosen count is `NTiles` of the inputs.

**The container** (`TileProofs`, from `TiledJobAssumption` and `OptionsAssumption`). The layout is computed by two recursive
functions, one for the size and one for the offsets. `Induction` derives induction over the naturals for a set from the well-foundedness of `<`; with it `EndsExist` and
`TotalAndOffsets` show that the functions are defined by their equations and agree, and `LayoutIsSound` that blobs are aligned, in order and within the container.
`JobIInv` says besides which strips may lack a blob (`BlobInv`), when failures are counted (`CountInv`, `FailInv`), how far a strip has
got, that it gets to its end and that its rows are right so far, unless a failure, damage or an exception is there to blame (`StripInv`), and that a wrong row has a damaged
strip at or above it (`WrongInv`). Thence `ContainerIsSound`,
`StripsKeepApart`, `SuccessMeansRestored`, and `WrittenCanBeRead`: unless an exception on a worker lost a strip, the finding of `tiled_lost`;
`CalmIsReadable` is the case without exceptions, or with one thread.

**The fault guard** (`FaultGuardProofs`, from `FaultGuardAssumption` and `OptionsAssumption`). That a reading thread is armed for its own part (`Guarded`) is not inductive: a fault
or the end of a tile leads to the frame of the worker whose tile it was, so `OwnJobs` (no two workers share a job), `WorkerInv` (a worker's
place fits its job), `ThreadInv` (who may hold a tile) and `ClaimInv` (no more tiles are out than were claimed) are needed. `BlameInv` says that a count of failures has a damaged part behind it, and
that an idle thread is armed only after an exception. Thence `ReadsAreGuarded`, `DamageDoesNotKill`, `BlameHolds`, `MappingLivesAsLongAsTheDecode`.
The first lemmas say which variables a step of one worker may touch at all, so that the others keep what is said of them.

**The wave front** (`WavefrontProofs`, from `LanesAssumption`, at least two lanes). `Inv` says which pixels are
coded at each position (`BannerPart`, `BodyPart`: a lane has passed what the lane below needs,
`OverPart`) and that no template or register is `Raw`; it gives `TypeCorrect`, `NeverRaw` and, since no active lane is at a pixel that is coded or at
that of another lane (`EachLaneItsPixel`), `Refinement` to `CausalScan`. `RegInv` describes the registers of all lanes by pixels; with it
`AlwaysSameNeighbours`: what the registers hold is what the image would have given.

**The step of the entropy coder** (`CoderProofs`, from `CodeAssumption`: the sum of a table divides the
size of a word). `OneWordIsEnough`, `StateInRange` and `StepInverse`: for every state of two words and every
symbol, one word at most is written, the state stays between `CODE_LOW` and two words, and the decoder's step finds the
symbol, reads a word exactly if one was written, and restores the state. NBLI's step is the same.

**A run of the entropy coder** (`CoderProofs`, from `SizeAssumption` too): any number of lanes, contexts, symbols and pairs.
First the tables. `NormalisedIsTable`: the correcting loop of `normalize` ends, since within a round some entry
moves the sum nearer (`Adjusted` is a recursive function, and its value the one end of the walk from place to place, `Ends`), the sum is right,
and each symbol that was counted keeps a place. `LookupFinds`: the remainders of a symbol lead back to it. Then the words: a step of all lanes
writes them from the last lane to the first, and after the reversal the decoder, which goes from the first lane to the last, reads the one
of each lane in turn. The inductive invariant `CodingInv` says, besides the types, how the stack lies (`Laid`: all-lane
steps on top, newest first) and that what remains to be decoded is coded by a *path* (`CodedTo`): a row of
states and words from `B` on all lanes and no word, in which each entry is one step of the encoder, last entry first. The encoder is at its end of
the path (`Encoding`), the stream is the path's words reversed with the cut ones missing (`Streaming`), and a decoder that noticed nothing stands on the path with
the rest of the words in front of it (`Decoding`), so each of its steps is `StepInverse`, lane by lane. `RoundTrip` alone is not inductive: a wrong
state shows only in a later symbol. Thence `CoderRoundTrip` and `EveryCutIsNoticed`: at the end of the path the states are all `B` only if every word was
there. `WordsStayBehind` is a count (`Room`): no word is written before a pair is gone. It needs that the first symbol writes none, for which the sum
of a table must be smaller than a word; the code has 14 bits against 16 (`fnbli_scalar.h:35-40`), and with equal sizes it would be false.

**The arithmetic coder** (`ReadBackProofs`, from `AriAssumption`). `ProbabilityStaysOpen`: from `Even` on a probability stays
where both of its shifts round to something (`Open`), hence strictly between 0 and 1. With it
`IntervalStays`: `Interval` (the range is at least the smallest one, and the interval ends within the words that are not
written yet) is kept by every bit, cut or not. `BitSurvives`: whatever word the decoder has from the interval after a bit,
it takes that bit and the word lies in its interval again.

**What is written can be read** (`ReadBackProofs`). One theorem for each of the codes, for inputs of any size, and together `ReadsBack`, the
property `ReadBack` of the run (with `InputsAssumption` and `CodingsAssumption`, which say that the inputs of the run are such inputs).

- *Code trees* (`TreesReturn`, from `AriAssumption` and `GolombAssumption`): the decoder gets all values from the flushed stream, uses the words up and ends with
  the interval and the probabilities of the encoder. Encoder and decoder walk through the trees in lockstep. The decoder cannot be compared with the encoder
  of the same moment only, since its window of two words is made of words the encoder writes later: a bit is decoded rightly when the final stream goes on
  from the interval after it (`EncoderStays`, `BitReturns`), and the flush ends in the last interval (`FlushGoesOn`). A turn of a walk is `TurnReturns`; each turn lowers the walk's
  *height*, the steps it may still take, so that `Longest` turns suffice (`TurnsKeep`, `ValueReturns`).
- *Matches* (`MatchReturns`) and *runs of lengths* (`RunsReturn`, from `HuffmanAssumption`): every length and distance comes back from symbol and extra bits, and a reader expands the runs
  to the lengths; runs of zeros, repeats and what is left plain are one lemma each (`ZerosExpand`, `RepeatsExpand`, `RunFromExpands`).
- *Tables* (`TableReturns`, from `TableAssumption`): entries come back and as many words are used as were written, also with nothing behind the last one; of a stream that is cut short
  at any word, `fail` is reported. Each shape of a word has a lemma; none has an entry behind the table, and all have at least one (`CodedIsGood`, `GetsMore`).
- *Masks* (`MaskReturns`, from `MapperAssumption`): the mask comes back from as many words, which fit their fields, and each value that occurs from its
  number. A word is a run of the bit expected after the word before and one of the other, or plain bits; both sides expect the same (`MaskWordReturns`).
- *Rows* (`RowsReturn`, from `PngAssumption`): whatever filter is picked, a reader who has the rows above gets the row back (`ByteReturns`, `RowReturns`).

As in the other modules recursive functions are reached by `Induction`: a lemma `...LoopExists` shows that there is such a function, and thence that the one of the model obeys its equation.

**Pixels** (`PixelProofs`, from `MaxYAssumption` and `LevelAssumption`). `ColoursReturn` and `ColoursStayNear` for NBLI's
colours: exact without loss, and with planes off by `near` at most `2 * near + 1` off, which is the tolerance the tests grant
(`src/README.md:356`). `NumberReturns`: for every prediction, sign, largest level and `near`, the number is within the histogram and
leads back to a sample within `near`; the case of the shorter side, of the longer one, and of clipping are separate lemmas.
`SymbolReturns` is its exact twin in fNBLI. `ContextFits` bounds the mean errors by induction step. `ActReturns` puts these together for any number of lanes
and any contexts, shared or not: a decoder in the state of the encoder gets the samples and ends in the state of the encoder.

*Whole coding loops of fNBLI* (from `StepSeqsAssumption`). `FnbliReturns`: whatever the steps, the decoder that is given the symbols gets every sample of
every lane, uses the symbols up, asks for each in the context it was made in, and ends with the contexts of the encoder; symbols are within their tables and
mean errors within `int16`. The argument is an induction over the steps. The encoder after `k` steps (`EncoderAt`) has a state of the right type and has only added to its
code (`Begins`); the decoder after `k` steps (`DecoderAt`, `Twins`) has the contexts, errors and templates of the encoder, and in front of it what the encoder made
from step `k + 1` on. Within a step, planes are coded U, V, Y, and the errors of one are known to the next. `SamplesAlwaysSurvive` is the property of the run for any `StepSeqs`.

*Whole images of NBLI* (from `ImagesAssumption`). `ImageReturns`: for an image of any size, gray or colour, any `near`, and *whatever the buffer of the decoder held
before* (it is not initialised, `NBLI.cpp:91-122`), the decoder asks for each number in the context it was made in, uses them up, and has the buffer of the encoder; gray
levels are within `near`, colours within `2 * near + 1`, and without loss the image is the original. Numbers are within their histograms. Again an induction
over pixels, encoder and decoder side by side: both have the same template, contexts, planes and position, the numbers left are those the encoder has
yet to make (`Encoding`, `Follower`, `EncodedTo`, `DecodedTo`), and the buffers agree *on the pixels behind the current one* only. That is where the order matters: the neighbours a pixel is predicted from must
all lie behind it, at the borders too, and the encoder must have put `Written` values, not its own, in their place. The masks come in by `ChromaReturns`:
a value that occurs is given back from its number (`Mapper`), and the numbers of U and V are below the maximum of their plane. `PixelsAlwaysSurvive` is the property of the
run for any `Images`. Both inductions are by the least counterexample in a set of numbers (`Induction`), since an
induction theorem over operators cannot be used.

**Deflate** (`DeflateProofs`, from `DeflateAssumption` and `OptionsAssumption`), for every input and every way it is cut. `RoundTrip` is not inductive: the next match must
be right, for which the ring must hold what it compares (`WindowKept`, `WindowIsKept`; a chunk fits beside the window and the bytes not
consumed, `RingWithKeeps`) and the chains must lead to places of consumed positions only (`StateInv`, by `InsertedAllKeeps` and `ChainIsSeen`), or a match could be one of the
position with itself. Such a place may have been overwritten since: `MatchIsRight` shows that this does no harm, since the distance is taken modulo the ring and the
bytes are compared. A match may overlap itself; `MatchIsPeriodic` says that a reader who copies byte by byte gets the same. The
recursive functions of the model are reached by `Induction`, as those of the container are: `InflatedAppend` (one token more is one reading
step more), `RecursionExists` and `StaysIn`. Thence `TokensAreTheInput`, `BlocksAreFramed` and `TokensOverrunByOne`, the bound of the finding of `deflate_tokens`.

**Only model-checked**: liveness (`RunFinishes`, `RunEnds`, `ScanEnds`), since the prover has neither fairness nor
`ENABLED`; that prefix codes are complete and no word begins another (`CodeIsComplete`), which needs sums over powers of two; and the
command line (`NamesPaired`), whose operators are folds over sequences. Every other invariant and action property that a passing run checks
is stated by a theorem. `TokensFit` and the other properties of the runs that expect a violation are not theorems.

## 5. What is not modelled

NBLI's advanced predictor (`nbli/AdvancedPredictor.h`, `-a`: its sums need 64 bits, which TLC does not have) and the choice
between its stream and the plain one (`nbli/NBLI.cpp:15-34`); the fields of headers; the order of fields and the bit buffer of a deflate block; PNG chunks and
PNM parsing; the second case of letters and the words `-M` takes on the command line, and what a wildcard matches: sequential computations on data.
Vendored code (`uPNG`), checksums, formatting,
Windows path handling, tests and benchmarks are outside. `AutoReorder.h` and the functions of `PlaneModel.h` that end in
`_lossless` are used nowhere. In the models: file contents are kinds, an
image of `TiledJob` and `Wavefront` is a set of rows or pixels, a damaged header of a container is not told apart from other damage, and
the memory of a process never runs out other than by an exception. `Rans` codes a symbol for every pixel of a step;
in the program lanes outside of the image code one too. Their pairs are not among the `n_pairs` of `fnbli_api.h:30`; lane 0 ends
30 steps after lane 15, which makes 1440 of them for an image of three planes, and the 2^21 words of slack hold them.

## 6. Plan

1. Proofs: that prefix codes are complete (`CodeIsComplete`); the pairing of names (`NamesPaired`).
2. `TiledJob` with a damaged header or offset table.
3. The choice of `NBLIcompressWrapper`, with the predictor as an arbitrary function of the samples before.
