----------------------------- MODULE FaultGuard -----------------------------
(***************************************************************************)
(* Memory faults while damaged streams are decoded.  Every thread has its  *)
(* own jump buffer and its own flag `armed_`; the signal handler returns   *)
(* to the jump buffer of the faulting thread if the flag is set and ends   *)
(* the process otherwise.  processFile guards the decode of a file and     *)
(* decompressStream guards each tile, on the same thread when the pool of  *)
(* tiles runs inline.  Two more variables of a thread belong to a decode:  *)
(* the end of its stream and the mark that it ran past it.                 *)
(*                                                                         *)
(* Jobs are images, which are compressed without a guard, single NBLI      *)
(* streams, and containers of NBLI strips.                                 *)
(***************************************************************************)
EXTENDS Integers, FiniteSets

CONSTANTS
    NJobs,              \* files of the batch
    NTiles,             \* strips of a container
    Options             \* the circumstances to look at

ASSUME FaultGuardAssumption == NJobs \in Nat \ {0} /\ NTiles \in Nat \ {0}

Jobs == 1..NJobs
Whole == 0                              \* the part of a stream that is no tile
Tiles == 1..NTiles
Kinds == {"image", "single", "tiled"}

\* The threads of the batch, those of a pool of tiles (one: the pool runs on
\* the thread that starts it), the kinds of the files, and the parts that are
\* damaged.  <<j, Whole>> stands for the header of a container, for a single
\* stream, or for an image on which a loader or an encoder goes wrong.
ASSUME OptionsAssumption ==
    Options \subseteq [workers : Nat \ {0}, helpers : Nat \ {0},
                       kind : [Jobs -> Kinds], bad : SUBSET (Jobs \X ({Whole} \cup Tiles))]

VARIABLES
    o,                  \* the options of this run
    next,               \* the job the batch starts next
    work,               \* work[w]: job of worker w (0: none), tiles claimed, nfail
    doing,              \* doing[t]: what thread t is at
    tile,               \* tile[t]: the tile thread t decodes, or Whole
    tls,                \* tls[t]: armed_, jmp_buf_, nbliRansLimit, nbliRansDamaged of t
    buffer,             \* buffer[j]: the GuardedBuffer of job j
    result,             \* result[j]: what the batch is told of job j
    noticed,            \* jobs of which a part was seen to be damaged
    process             \* alive, or how the process ended

vars == <<o, next, work, doing, tile, tls, buffer, result, noticed, process>>

\* Thread <<w, 0>> is worker w, <<w, k>> the k-th thread of its pool of tiles.
Workers == 1..o.workers
Worker(w) == <<w, 0>>
Helpers(w) == IF o.helpers = 1 THEN {Worker(w)} ELSE {w} \X (1..o.helpers)
Threads == Workers \X (0..o.helpers)

Nowhere == <<0, Whole>>
FreshTLS == [armed |-> FALSE, target |-> Nowhere, limit |-> Nowhere, damaged |-> FALSE]
NoWork == [job |-> 0, claimed |-> 0, nfail |-> 0]

JobOf(t) == work[t[1]].job
Part(t) == <<JobOf(t), tile[t]>>

TypeOK ==
    /\ o \in Options
    /\ next \in 1..(NJobs + 1)
    /\ work \in [Workers -> [job : 0..NJobs, claimed : 0..NTiles, nfail : 0..NTiles]]
    /\ doing \in [Threads -> {"idle", "image", "decode", "stream", "pool", "tile"}]
    /\ tile \in [Threads -> {Whole} \cup Tiles]
    /\ \A t \in Threads :
          /\ tls[t].armed \in BOOLEAN /\ tls[t].damaged \in BOOLEAN
          /\ {tls[t].target, tls[t].limit} \subseteq (0..NJobs) \X ({Whole} \cup Tiles)
    /\ buffer \in [Jobs -> {"none", "held", "freed"}]
    /\ result \in [Jobs -> {"pending", "ok", "failed", "lost"}]
    /\ noticed \subseteq Jobs
    /\ process \in {"alive", "killed", "terminated", "wild"}

Init ==
    /\ o \in Options
    /\ next = 1
    /\ work = [w \in Workers |-> NoWork]
    /\ doing = [t \in Threads |-> "idle"]
    /\ tile = [t \in Threads |-> Whole]
    /\ tls = [t \in Threads |-> FreshTLS]
    /\ buffer = [j \in Jobs |-> "none"]
    /\ result = [j \in Jobs |-> "pending"]
    /\ noticed = {}
    /\ process = "alive"

-----------------------------------------------------------------------------
(* The guard.                                                              *)

\* FAULT_TRY: setjmp and arm.
TryUnarmed(l, part) == [l EXCEPT !.target = part]         \* faulty: armed_ stays as it is
Try(l, part) == [l EXCEPT !.target = part, !.armed = TRUE]

\* FAULT_CATCH, reached from above or by the jump.
CatchArmed(l) == l                                        \* faulty: the way from above does not disarm
Catch(l) == [l EXCEPT !.armed = FALSE]

\* The start of an NBLI decode and its regular end.
LimitAnyFlag(l, part) == [l EXCEPT !.limit = part]        \* faulty: the mark is not cleared
Limit(l, part) == [l EXCEPT !.limit = part, !.damaged = FALSE]
Unlimit(l) == [l EXCEPT !.limit = Nowhere]

\* The guards whose function has not returned yet on thread t.
Live(t) == {<<JobOf(t), p>> : p \in {tile[t]} \cup (IF t[2] = 0 THEN {Whole} ELSE {})}
           \ {<<0, Whole>>}

-----------------------------------------------------------------------------
(* processFile.                                                            *)

\* The worker is done with its job and takes the next one.
Leave(w, outcome) ==
    /\ result' = [result EXCEPT ![work[w].job] = outcome]
    /\ work' = [work EXCEPT ![w] = NoWork]
    /\ doing' = [t \in Threads |-> IF t[1] = w THEN "idle" ELSE doing[t]]
    /\ tile' = [t \in Threads |-> IF t[1] = w THEN Whole ELSE tile[t]]

Take(w) ==
    /\ doing[Worker(w)] = "idle" /\ next <= NJobs
    /\ next' = next + 1
    /\ work' = [work EXCEPT ![w].job = next]

TakeImage(w) ==
    /\ Take(w)
    /\ o.kind[next] = "image"
    /\ doing' = [doing EXCEPT ![Worker(w)] = "image"]
    /\ UNCHANGED <<o, tile, tls, buffer, result, noticed, process>>

ImageDone(w) ==
    /\ doing[Worker(w)] = "image"
    /\ \E outcome \in {"ok", "failed"} : Leave(w, outcome)
    /\ UNCHANGED <<o, next, tls, buffer, noticed, process>>

\* loadFileGuarded and FAULT_TRY.
TakeStream(w) ==
    /\ Take(w)
    /\ o.kind[next] # "image"
    /\ doing' = [doing EXCEPT ![Worker(w)] = "decode"]
    /\ buffer' = [buffer EXCEPT ![next] = "held"]
    /\ tls' = [tls EXCEPT ![Worker(w)] = Try(@, <<next, Whole>>)]
    /\ UNCHANGED <<o, tile, result, noticed, process>>

CannotOpen(w) ==
    /\ doing[Worker(w)] = "idle" /\ next <= NJobs
    /\ o.kind[next] # "image" /\ <<next, Whole>> \in o.bad
    /\ next' = next + 1
    /\ result' = [result EXCEPT ![next] = "failed"]
    /\ noticed' = noticed \cup {next}
    /\ UNCHANGED <<o, work, doing, tile, tls, buffer, process>>

\* After decompressStream: the guard ends, the mapping is given back, and the
\* result is looked at.
Finish(w, outcome, l) ==
    /\ tls' = [tls EXCEPT ![Worker(w)] = Catch(l)]
    /\ buffer' = [buffer EXCEPT ![work[w].job] = "freed"]
    /\ Leave(w, outcome)
    /\ UNCHANGED <<o, next, process>>

-----------------------------------------------------------------------------
(* decompressStream: a single stream.                                      *)

HeaderRejected(w) ==
    /\ doing[Worker(w)] = "decode" /\ <<work[w].job, Whole>> \in o.bad
    /\ noticed' = noticed \cup {work[w].job}
    /\ Finish(w, "failed", tls[Worker(w)])

StreamBegins(w) ==
    /\ doing[Worker(w)] = "decode" /\ o.kind[work[w].job] = "single"
    /\ doing' = [doing EXCEPT ![Worker(w)] = "stream"]
    /\ tls' = [tls EXCEPT ![Worker(w)] = Limit(@, Part(Worker(w)))]
    /\ UNCHANGED <<o, next, work, tile, buffer, result, noticed, process>>

\* The decoder ran past the end of its stream.
RunsPast(t) ==
    /\ doing[t] \in {"stream", "tile"} /\ Part(t) \in o.bad /\ ~tls[t].damaged
    /\ tls' = [tls EXCEPT ![t].damaged = TRUE]
    /\ UNCHANGED <<o, next, work, doing, tile, buffer, result, noticed, process>>

\* The decoder returned an image, which the mark rejects.
NoticeMark(t) == noticed' = IF tls[t].damaged THEN noticed \cup {JobOf(t)} ELSE noticed

StreamEnds(w) ==
    /\ doing[Worker(w)] = "stream"
    /\ Finish(w, IF tls[Worker(w)].damaged THEN "failed" ELSE "ok", Unlimit(tls[Worker(w)]))
    /\ NoticeMark(Worker(w))

\* The decoder returns NULL: nbliRansLimit stays.
StreamIsNull(w) ==
    /\ doing[Worker(w)] = "stream" /\ <<work[w].job, Whole>> \in o.bad
    /\ noticed' = noticed \cup {work[w].job}
    /\ Finish(w, "failed", tls[Worker(w)])

-----------------------------------------------------------------------------
(* decompressStream: a container.                                          *)

PoolBegins(w) ==
    /\ doing[Worker(w)] = "decode" /\ o.kind[work[w].job] = "tiled"
    /\ doing' = [doing EXCEPT ![Worker(w)] = "pool"]
    /\ tls' = [t \in Threads |-> IF t[1] = w /\ t[2] > 0 THEN FreshTLS ELSE tls[t]]
    /\ UNCHANGED <<o, next, work, tile, buffer, result, noticed, process>>

Claimable(t) ==
    /\ doing[t] \in (IF o.helpers = 1 THEN {"pool"} ELSE {"idle"})
    /\ t \in Helpers(t[1]) /\ doing[Worker(t[1])] = "pool"
    /\ work[t[1]].claimed < NTiles

TileBegins(t) ==
    /\ Claimable(t)
    /\ LET i == work[t[1]].claimed + 1
           part == <<JobOf(t), i>>
       IN  /\ work' = [work EXCEPT ![t[1]].claimed = i]
           /\ tile' = [tile EXCEPT ![t] = i]
           /\ tls' = [tls EXCEPT ![t] = Limit(Try(@, part), part)]
    /\ doing' = [doing EXCEPT ![t] = "tile"]
    /\ UNCHANGED <<o, next, buffer, result, noticed, process>>

\* Thread t leaves its tile, counting a failure or not.
LeaveTile(t, failures) ==
    /\ work' = [work EXCEPT ![t[1]].nfail = @ + failures]
    /\ doing' = [doing EXCEPT ![t] = IF o.helpers = 1 THEN "pool" ELSE "idle"]
    /\ tile' = [tile EXCEPT ![t] = Whole]
    /\ UNCHANGED <<result, buffer>>

TileEnds(t) ==
    /\ doing[t] = "tile"
    /\ LeaveTile(t, IF tls[t].damaged THEN 1 ELSE 0)
    /\ NoticeMark(t)
    /\ tls' = [tls EXCEPT ![t] = Catch(Unlimit(@))]
    /\ UNCHANGED <<o, next, process>>

TileIsNull(t) ==
    /\ doing[t] = "tile" /\ Part(t) \in o.bad
    /\ noticed' = noticed \cup {JobOf(t)}
    /\ LeaveTile(t, 1)
    /\ tls' = [tls EXCEPT ![t] = Catch(Unlimit(@))]
    /\ UNCHANGED <<o, next, process>>

\* The pool is joined.  What is left reads no more of the file: nfail and the
\* CRC of the image.
Joined(w) ==
    /\ doing[Worker(w)] = "pool" /\ work[w].claimed = NTiles
    /\ \A t \in Helpers(w) : doing[t] # "tile"

ContainerEnds(w) ==
    /\ Joined(w)
    /\ Finish(w, IF work[w].nfail > 0 THEN "failed" ELSE "ok", tls[Worker(w)])
    /\ UNCHANGED noticed

-----------------------------------------------------------------------------
(* Faults and exceptions.                                                  *)

MayGoWrong(t) ==
    /\ doing[t] \in {"image", "decode", "stream", "tile"}
    /\ Part(t) \in o.bad

\* The jump to the guard of a file: FAULT_CATCH of processFile.
FileFaultKeeps(t) ==                       \* faulty: the mapping is not given back
    /\ tls[t].target = <<JobOf(t), Whole>>
    /\ noticed' = noticed \cup {JobOf(t)}
    /\ tls' = [tls EXCEPT ![t] = Catch(@)]
    /\ Leave(t[1], "failed")
    /\ UNCHANGED <<o, next, buffer, process>>
FileFault(t) ==
    /\ tls[t].target = <<JobOf(t), Whole>>
    /\ noticed' = noticed \cup {JobOf(t)}
    /\ Finish(t[1], "failed", tls[t])

\* The jump to the guard of a tile.
TileFault(t) ==
    /\ tls[t].target = Part(t) /\ tile[t] # Whole
    /\ noticed' = noticed \cup {JobOf(t)}
    /\ LeaveTile(t, 1)
    /\ tls' = [tls EXCEPT ![t] = Catch(@)]
    /\ UNCHANGED <<o, next, process>>

EndAs(how) ==
    /\ process' = how
    /\ UNCHANGED <<o, next, work, doing, tile, tls, buffer, result, noticed>>

\* FaultGuard::handler on thread t.
Fault(t) ==
    /\ MayGoWrong(t)
    /\ \/ tls[t].armed /\ tls[t].target \in Live(t) /\ (FileFault(t) \/ TileFault(t))
       \/ tls[t].armed /\ tls[t].target \notin Live(t) /\ EndAs("wild")
       \/ ~tls[t].armed /\ EndAs("killed")

\* An exception, bad_alloc for a size no image has, say, passes every guard on
\* its way and disarms none.  A thread of a pool swallows it.
ThrowFromTile(t) ==
    /\ doing[t] = "tile" /\ MayGoWrong(t) /\ o.helpers > 1
    /\ LeaveTile(t, 0)
    /\ UNCHANGED <<o, next, tls, noticed, process>>

ThrowFromFile(t) ==
    /\ MayGoWrong(t) /\ t[2] = 0 /\ o.workers > 1
    /\ Leave(t[1], "lost")
    /\ UNCHANGED <<o, next, tls, buffer, noticed, process>>

ThrowFromMain(t) ==
    /\ MayGoWrong(t) /\ t[2] = 0 /\ o.workers = 1
    /\ EndAs("terminated")

-----------------------------------------------------------------------------
WorkerSteps(w) ==
    \/ TakeImage(w) \/ ImageDone(w) \/ TakeStream(w) \/ CannotOpen(w)
    \/ HeaderRejected(w) \/ StreamBegins(w) \/ StreamEnds(w) \/ StreamIsNull(w)
    \/ PoolBegins(w) \/ ContainerEnds(w)

ThreadSteps(t) ==
    \/ RunsPast(t) \/ TileBegins(t) \/ TileEnds(t) \/ TileIsNull(t)
    \/ Fault(t) \/ ThrowFromTile(t) \/ ThrowFromFile(t) \/ ThrowFromMain(t)

Terminated ==
    /\ process # "alive" \/ \A j \in Jobs : result[j] # "pending"
    /\ UNCHANGED vars

Next ==
    \/ process = "alive" /\ \/ \E w \in Workers : WorkerSteps(w)
                            \/ \E t \in Threads : ThreadSteps(t)
    \/ Terminated

Spec == Init /\ [][Next]_vars

-----------------------------------------------------------------------------
(* Properties.                                                             *)

\* The types, and: a thread that reads a stream is armed, would jump to the guard around just
\* that read and to no other, has the end of that stream as its limit, and
\* its file is still mapped: also when the tiles of a container disarmed the
\* guard of the file before, and after a fault or an exception in an earlier
\* file or tile of the thread.
Guarded ==
    /\ TypeOK
    /\ \A t \in Threads :
          /\ doing[t] \in {"decode", "stream", "tile"} =>
                /\ tls[t].armed /\ tls[t].target = Part(t)
                /\ buffer[JobOf(t)] = "held"
          /\ doing[t] \in {"stream", "tile"} => tls[t].limit = Part(t)

\* Damage in a stream never ends the process by a signal: only an image can,
\* and the handler goes astray only after an exception left a thread armed.
OnlyImagesKill ==
    /\ process \in {"killed", "wild"} =>
          \E t \in Threads : doing[t] = "image" /\ <<JobOf(t), Whole>> \in o.bad
    /\ process = "wild" => \E j \in Jobs : result[j] = "lost"

\* A file of which a part was found to be damaged, by a fault or otherwise, is
\* reported as a failure, and a file without damage is not, whatever happened
\* before or at the same time on the same threads.
BlameIsRight ==
    \A j \in Jobs : o.kind[j] # "image" =>
        /\ result[j] = "ok" => j \notin noticed
        /\ result[j] = "failed" => \E p \in {Whole} \cup Tiles : <<j, p>> \in o.bad

\* The mapping of a file is given back as its decode ends, with or without a
\* fault, and not before; only an exception keeps it.
MappingReleased ==
    \A j \in Jobs : o.kind[j] # "image" =>
        /\ result[j] \in {"ok", "failed"} => buffer[j] # "held"
        /\ (\E w \in Workers : work[w].job = j) => buffer[j] = "held"
=============================================================================
