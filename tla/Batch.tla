-------------------------------- MODULE Batch --------------------------------
(***************************************************************************)
(* A run of mtnbli after the command line is parsed (main and processFile  *)
(* in mtnbli.cpp): a pool of threads works on the jobs, every job reads    *)
(* its source, codes it, checks that its output does not exist and writes  *)
(* it; a reporter thread draws a status line; main joins both and returns  *)
(* the exit status.  The pool is taken as ForEach, which ParallelFor       *)
(* implements, with at most NThreads calls at a time.                      *)
(***************************************************************************)
EXTENDS Integers, FiniteSets

CONSTANTS
    NJobs,                  \* jobs.size()
    Files,                  \* the file names that occur
    Src,                    \* Src[j]: the source of job j
    Compressed, Expanded,   \* the output of job j when it compresses / decompresses
    Tiles,                  \* Tiles[j]: number of tiles, 0 for a single stream
    PngFiles, BadSuffix,    \* output names that select the PNG writer / no writer
    CodecMayFail,           \* jobs whose codec may report an error
    Options                 \* the command lines and circumstances to look at

Jobs == 0..(NJobs - 1)

\* What a file holds, and the job that wrote it (-1: none, it was there before).
\* The PNG loader prints a line about some images: "alpha" is an RGBA image,
\* which it loads, "odd" one of a format it refuses.
Kinds == {"absent", "image", "alpha", "odd", "stream", "partial", "mixed"}
Contents == [kind : Kinds, by : {-1} \cup Jobs]
Absent == [kind |-> "absent", by |-> -1]
Remarked == {"alpha", "odd"}

\* One command line: the threads of the pool, -f, -d, -v, whether stdout is a
\* console; jobs whose codec may throw, whether the disk may be full, and the
\* file system at the start.
OptionRecords ==
    [threads : Nat \ {0}, force : BOOLEAN, decode : BOOLEAN, verbose : BOOLEAN, tty : BOOLEAN,
     throws : SUBSET Jobs, full : BOOLEAN, fs : [Files -> Contents]]

ASSUME BatchAssumption ==
    /\ NJobs \in Nat \ {0}
    /\ Options \subseteq OptionRecords
    /\ Src \in [Jobs -> Files]
    /\ Compressed \in [Jobs -> Files] /\ Expanded \in [Jobs -> Files]
    /\ Tiles \in [Jobs -> Nat]

VARIABLES
    o,                      \* the options of this run
    call, caller,           \* the pool: see ForEach
    at,                     \* at[j]: where processFile and the lambda around it are
    in,                     \* in[j]: what job j has loaded
    tiles,                  \* tiles[j]: tiles of job j that are done
    ok,                     \* jobs[j].ok
    state,                  \* state[j]: 0 waiting, 1 running, 2 finished
    nDone, tileDone, tileTotal,         \* n_done, g_tile_done, g_tile_total
    fs,                     \* the file system
    screen, progOn,         \* the console line the cursor is on; g_prog_on
    lines,                  \* the jobs that got a result line
    mixed,                  \* the kinds of line printed into a status line
    rep,                    \* the reporter thread and what it has read
    main                    \* where main is after the pool

jobVars == <<at, in, tiles, ok>>
counters == <<state, nDone, tileDone, tileTotal>>
console == <<screen, progOn, lines, mixed>>
vars == <<o, call, caller, jobVars, counters, fs, console, rep, main>>

Pool == INSTANCE ForEach WITH Items <- Jobs

Running == {j \in Jobs : call[j] = "running"}
Alive == caller \in {"waiting", "returned"}
NThreads == o.threads
Verbose == o.verbose
Tty == o.tty
Inline == NThreads = 1 \/ NJobs = 1
IsCompression(j) == in[j].kind = "image" /\ ~o.decode
Out(j) == IF IsCompression(j) THEN Compressed[j] ELSE Expanded[j]
Wholly(j) == IF IsCompression(j) THEN "stream" ELSE "image"
Exists(f) == fs[f].kind # "absent"
Restarted == [pc |-> "sleep", d |-> 0, td |-> 0, tt |-> 0, run |-> {}]

TypeOK ==
    /\ o \in Options
    /\ Pool!FETypeOK
    /\ at \in [Jobs -> {"idle", "load", "announce", "code", "check", "open", "write",
                        "finish", "count", "emit", "over", "thrown"}]
    /\ in \in [Jobs -> Contents]
    /\ tiles \in [Jobs -> Nat]
    /\ ok \in [Jobs -> BOOLEAN]
    /\ state \in [Jobs -> 0..2]
    /\ nDone \in 0..NJobs /\ tileDone \in Nat /\ tileTotal \in Nat
    /\ fs \in [Files -> Contents]
    /\ screen \in {"clean", "status"} /\ progOn \in BOOLEAN
    /\ lines \subseteq Jobs /\ mixed \subseteq {"result", "loader"}
    /\ rep \in [pc : {"start", "sleep", "done", "tileDone", "tileTotal", "state", "emit", "exited"},
                d : 0..NJobs, td : Nat, tt : Nat, run : SUBSET Jobs]
    /\ main \in {"run", "halted", "joined", "cleared", "exit"}

Init ==
    /\ o \in Options
    /\ Pool!FEInit
    /\ at = [j \in Jobs |-> "idle"]
    /\ in = [j \in Jobs |-> Absent]
    /\ tiles = [j \in Jobs |-> 0]
    /\ ok = [j \in Jobs |-> FALSE]
    /\ state = [j \in Jobs |-> 0]
    /\ nDone = 0 /\ tileDone = 0 /\ tileTotal = 0
    /\ fs = o.fs
    /\ screen = "clean" /\ progOn = FALSE /\ lines = {} /\ mixed = {}
    /\ rep = [Restarted EXCEPT !.pc = "start"]
    /\ main = "run"

-----------------------------------------------------------------------------
(* The console; its writers hold g_out_mtx, except the PNG loader.         *)

\* clearProgressLine(): wipe the status line.
Cleared == IF Tty /\ progOn THEN "clean" ELSE screen

\* A line and its newline on a screen line that holds what: a status line is
\* overwritten as far as the new text goes and its rest stays on the screen.
PrintOver(what, source) ==
    /\ screen' = "clean"
    /\ mixed' = IF what = "clean" THEN mixed ELSE mixed \cup {source}

\* emitLine(): a result line on a line of its own.
EmitLine(j) ==
    /\ PrintOver(Cleared, "result")
    /\ progOn' = (progOn /\ ~Tty)
    /\ lines' = lines \cup {j}

\* printf in the PNG loader, which knows nothing of the status line.
LoaderRemarks ==
    /\ PrintOver(screen, "loader")
    /\ UNCHANGED <<progOn, lines>>

\* emitProgress(): redrawn in place on a console, a line in a log.
EmitProgress ==
    /\ screen' = IF Tty THEN "status" ELSE screen
    /\ progOn' = (progOn \/ Tty)
    /\ UNCHANGED <<lines, mixed>>

-----------------------------------------------------------------------------
(* One job: the lambda handed to the pool and processFile inside it.       *)

\* The pool calls the lambda, which first notes that the job is running.  On
\* main's own thread the jobs are taken in their order.
Start(j) ==
    /\ Cardinality(Running) < NThreads
    /\ Inline => \A i \in 0..(j - 1) : call[i] = "over"
    /\ Pool!Begin(j)
    /\ state' = [state EXCEPT ![j] = 1]
    /\ at' = [at EXCEPT ![j] = "load"]
    /\ UNCHANGED <<o, in, tiles, ok, nDone, tileDone, tileTotal, fs, console, rep, main>>

\* An image is compressed unless -d was given; everything else, a PNG the
\* loader refuses too, is read as one of our streams, and fails here or in the
\* decoder if it is none.  The loader drops an alpha channel.
Load(j) ==
    LET c == fs[Src[j]]
        loaded == IF c.kind = "alpha" /\ ~o.decode THEN [c EXCEPT !.kind = "image"] ELSE c
        usable == (loaded.kind = "image" /\ ~o.decode) \/ c.kind = "stream"
    IN  /\ Alive /\ at[j] = "load"
        /\ in' = [in EXCEPT ![j] = loaded]
        /\ at' = [at EXCEPT ![j] = IF ~usable THEN "finish"
                                   ELSE IF Tiles[j] > 0 THEN "announce" ELSE "code"]
        /\ IF c.kind \in Remarked /\ ~o.decode THEN LoaderRemarks ELSE UNCHANGED console
        /\ UNCHANGED <<o, call, caller, tiles, ok, counters, fs, rep, main>>

\* g_tile_total grows before the tiles of the image are started.
Announce(j) ==
    /\ Alive /\ at[j] = "announce"
    /\ tileTotal' = tileTotal + Tiles[j]
    /\ at' = [at EXCEPT ![j] = "code"]
    /\ UNCHANGED <<o, call, caller, in, tiles, ok, state, nDone, tileDone, fs, console, rep, main>>

TileEnds(j) ==
    /\ Alive /\ at[j] = "code" /\ tiles[j] < Tiles[j]
    /\ tiles' = [tiles EXCEPT ![j] = @ + 1]
    /\ tileDone' = tileDone + 1
    /\ UNCHANGED <<o, call, caller, at, in, ok, state, nDone, tileTotal, fs, console, rep, main>>

\* The codec is done.  A stream is mapped, not copied: it may also turn bad
\* because another job rewrites its file.
Coded(j) ==
    /\ Alive /\ at[j] = "code" /\ tiles[j] = Tiles[j]
    /\ \/ at' = [at EXCEPT ![j] = "check"]
       \/ /\ j \in CodecMayFail \/ (~IsCompression(j) /\ fs[Src[j]] # in[j])
          /\ at' = [at EXCEPT ![j] = "finish"]
    /\ UNCHANGED <<o, call, caller, in, tiles, ok, counters, fs, console, rep, main>>

\* An exception (std::bad_alloc) leaves processFile and the lambda: the rest
\* of both is skipped.  A worker of the pool swallows it; on main's own
\* thread it ends the process (std::terminate).
CodecThrows(j) ==
    /\ j \in o.throws
    /\ at[j] = "code"
    /\ IF Inline THEN Pool!RaiseFrom(j) ELSE Pool!End(j)
    /\ at' = [at EXCEPT ![j] = "thrown"]
    /\ UNCHANGED <<o, in, tiles, ok, counters, fs, console, rep, main>>

\* if (!g_force && fileExist (dst)) : the file is not looked at again.
CheckAs(j, blocked) ==
    /\ Alive /\ at[j] = "check"
    /\ at' = [at EXCEPT ![j] = IF blocked \/ (~IsCompression(j) /\ Out(j) \in BadSuffix)
                               THEN "finish" ELSE "open"]
    /\ UNCHANGED <<o, call, caller, in, tiles, ok, counters, fs, console, rep, main>>

CheckSkipped(j) == CheckAs(j, FALSE)          \* faulty: no check
Check(j) == CheckAs(j, ~o.force /\ Exists(Out(j)))

\* fopen (dst, "wb") truncates the file.
Open(j) ==
    /\ Alive /\ at[j] = "open"
    /\ \/ /\ fs' = [fs EXCEPT ![Out(j)] = [kind |-> "partial", by |-> j]]
          /\ at' = [at EXCEPT ![j] = "write"]
       \/ /\ o.full
          /\ at' = [at EXCEPT ![j] = "finish"]
          /\ UNCHANGED fs
    /\ UNCHANGED <<o, call, caller, in, tiles, ok, counters, console, rep, main>>

WriteForgotten(j) ==       \* faulty: success is claimed before anything is written
    /\ Alive /\ at[j] = "write"
    /\ ok' = [ok EXCEPT ![j] = TRUE]
    /\ at' = [at EXCEPT ![j] = "finish"]
    /\ UNCHANGED <<o, call, caller, in, tiles, counters, fs, console, rep, main>>

\* fwrite and fclose.  When a second job has opened the same file the result
\* is a mixture.  The PNG writer ignores fwrite's result, and nobody looks at
\* fclose's, where a buffered tail is written.
Write(j) ==
    LET own == fs[Out(j)] = [kind |-> "partial", by |-> j]
    IN  /\ Alive /\ at[j] = "write"
        /\ \/ /\ fs' = [fs EXCEPT ![Out(j)] = [kind |-> IF own THEN Wholly(j) ELSE "mixed", by |-> j]]
              /\ ok' = [ok EXCEPT ![j] = TRUE]
           \/ /\ o.full
              /\ \E unnoticed \in IF ~IsCompression(j) /\ Out(j) \in PngFiles THEN {TRUE} ELSE BOOLEAN :
                    ok' = [ok EXCEPT ![j] = unnoticed]
              /\ UNCHANGED fs
        /\ at' = [at EXCEPT ![j] = "finish"]
        /\ UNCHANGED <<o, call, caller, in, tiles, counters, console, rep, main>>

\* Back in the lambda: state[j] = 2, then n_done++, then the result line.
FinishAs(j, from, to) ==
    /\ Alive /\ at[j] = from
    /\ state' = [state EXCEPT ![j] = 2]
    /\ at' = [at EXCEPT ![j] = to]
    /\ UNCHANGED <<o, call, caller, in, tiles, ok, nDone, tileDone, tileTotal, fs, console, rep, main>>

CountAs(j, from, to) ==
    /\ Alive /\ at[j] = from
    /\ nDone' = nDone + 1
    /\ at' = [at EXCEPT ![j] = to]
    /\ UNCHANGED <<o, call, caller, in, tiles, ok, state, tileDone, tileTotal, fs, console, rep, main>>

\* Faulty: n_done++ before state = 2; state = 2 left out; n_done++ twice.
FinishAndCountSwapped(j) == CountAs(j, "finish", "count") \/ FinishAs(j, "count", "emit")
StateForgotten(j) == CountAs(j, "finish", "emit")
CountedTwice(j) ==
    \/ CountAs(j, "finish", "count")
    \/ /\ Alive /\ at[j] = "count"
       /\ nDone' = nDone + 1
       /\ state' = [state EXCEPT ![j] = 2]
       /\ at' = [at EXCEPT ![j] = "emit"]
       /\ UNCHANGED <<o, call, caller, in, tiles, ok, tileDone, tileTotal, fs, console, rep, main>>

FinishAndCount(j) == FinishAs(j, "finish", "count") \/ CountAs(j, "count", "emit")

ReportAs(j, printed) ==
    /\ at[j] = "emit"
    /\ Pool!End(j)
    /\ at' = [at EXCEPT ![j] = "over"]
    /\ IF printed THEN EmitLine(j) ELSE UNCHANGED console
    /\ UNCHANGED <<o, in, tiles, ok, counters, fs, rep, main>>

ReportVerboseOnly(j) == ReportAs(j, Verbose)  \* faulty: quiet about failures
Report(j) == ReportAs(j, Verbose \/ ~ok[j])

Job(j) ==
    \/ Start(j) \/ Load(j) \/ Announce(j) \/ TileEnds(j) \/ Coded(j) \/ CodecThrows(j)
    \/ Check(j) \/ Open(j) \/ Write(j) \/ FinishAndCount(j) \/ Report(j)

-----------------------------------------------------------------------------
(* The reporter thread.                                                    *)

Halt == main # "run"

ReporterReads(from, after) ==
    /\ Alive /\ rep.pc = from
    /\ rep' = after
    /\ UNCHANGED <<o, call, caller, jobVars, counters, fs, console, main>>

WakeDeaf ==                \* faulty: halt is not looked at
    \/ ReporterReads("start", Restarted)
    \/ ReporterReads("sleep", [rep EXCEPT !.pc = "done"])

\* Without -v it ends at once; otherwise it sleeps until halt or 10 * 20 ms.
Wake ==
    \/ ReporterReads("start", IF Verbose THEN Restarted ELSE [Restarted EXCEPT !.pc = "exited"])
    \/ ReporterReads("sleep", [rep EXCEPT !.pc = IF Halt THEN "exited" ELSE "done"])

ReadDone == ReporterReads("done", [rep EXCEPT !.pc = "tileDone", !.d = nDone])
ReadTileDone == ReporterReads("tileDone", [rep EXCEPT !.pc = "tileTotal", !.td = tileDone])
ReadTileTotal == ReporterReads("tileTotal", [rep EXCEPT !.pc = "state", !.tt = tileTotal])
ReadState == ReporterReads("state", [rep EXCEPT !.pc = "emit", !.run = {j \in Jobs : state[j] = 1}])

\* A log gets the line only when five seconds have passed.
Draw ==
    /\ Alive /\ rep.pc = "emit"
    /\ EmitProgress \/ (~Tty /\ UNCHANGED console)
    /\ rep' = Restarted
    /\ UNCHANGED <<o, call, caller, jobVars, counters, fs, main>>

Reporter == Wake \/ ReadDone \/ ReadTileDone \/ ReadTileTotal \/ ReadState \/ Draw

-----------------------------------------------------------------------------
(* main() after ParallelFor::run.                                          *)

PoolReturns ==
    /\ Pool!Return
    /\ UNCHANGED <<o, jobVars, counters, fs, console, rep, main>>

MainStep(from, to) ==
    /\ caller = "returned"
    /\ main = from
    /\ main' = to
    /\ UNCHANGED <<o, call, caller, jobVars, counters, fs, rep>>

SetHalt == MainStep("run", "halted") /\ UNCHANGED console

JoinReporterNot == MainStep("halted", "joined") /\ UNCHANGED console    \* faulty: detached
JoinReporter == rep.pc = "exited" /\ MainStep("halted", "joined") /\ UNCHANGED console

ClearLineNot == MainStep("joined", "cleared") /\ UNCHANGED console      \* faulty: left on screen
ClearLine ==
    /\ MainStep("joined", "cleared")
    /\ screen' = Cleared
    /\ progOn' = (progOn /\ ~Tty)
    /\ UNCHANGED <<lines, mixed>>

\* The summary names the failed files too, when there was any success.
Summary ==
    /\ MainStep("cleared", "exit")
    /\ UNCHANGED console

Main == PoolReturns \/ SetHalt \/ JoinReporter \/ ClearLine \/ Summary

Ended == main = "exit" \/ ~Alive
Terminated == Ended /\ UNCHANGED vars

Next == (\E j \in Jobs : Job(j)) \/ Reporter \/ Main \/ Terminated

\* Every thread of the pool, the reporter and main keep running.
Fairness ==
    /\ \A j \in Jobs : WF_vars(Job(j))
    /\ WF_vars(Reporter)
    /\ WF_vars(Main)

Spec == Init /\ [][Next]_vars /\ Fairness

-----------------------------------------------------------------------------
(* Properties.                                                             *)

\* What a status line shows fits together, although its parts are read at
\* different times: finished and listed jobs are disjoint, and no more tiles
\* are done than exist ("47/115 ... tiles 892/2760 ... now: ...").
StatusLineConsistent ==
    rep.pc = "emit" => rep.d + Cardinality(rep.run) <= NJobs /\ rep.td <= rep.tt

\* The status line names at most one file per thread: a job whose thread has
\* moved on is not shown as being worked on.
OneFilePerThread == Cardinality({j \in Jobs : state[j] = 1}) <= NThreads

\* No result line is printed into a status line (mtnbli.cpp:164, 174), and the
\* summary starts on a clean line, also when the reporter was busy drawing while
\* main told it to stop.  Only the PNG loader, which prints without the lock,
\* leaves parts of a status line behind: on a console, when a source is an RGBA
\* PNG or a PNG it refuses, and not with -d.
ScreenCleanAtExit ==
    /\ main \in {"cleared", "exit"} => screen = "clean"
    /\ "result" \notin mixed
    /\ "loader" \in mixed =>
          Tty /\ ~o.decode /\ \E j \in Jobs : o.fs[Src[j]].kind \in Remarked

\* A job that failed got its result line, with and without -v.
FailureReported == main = "exit" => \A j \in Jobs : ok[j] \/ j \in lines

\* What the file of a job that counts as a success may hold: all of its output,
\* or, on a full disk, only the beginning, because nobody looks at fclose's
\* result and the PNG writer not at fwrite's either.
Kept(j) == {Wholly(j)} \cup IF o.full THEN {"partial"} ELSE {}

\* A job reported as successful has left its own output and never a mixture
\* with another job's, whatever the other jobs did in the meantime; all of it
\* unless the disk was full.
OkMeansWritten ==
    main = "exit" => \A j \in Jobs : ok[j] => fs[Out(j)].by = j /\ fs[Out(j)].kind \in Kept(j)

\* Without -f no file that exists is ever changed, except by the job that is
\* just creating it.
NoOverwrite ==
    [][~o.force => \A f \in Files :
            Exists(f) /\ fs'[f] # fs[f] =>
                \E j \in Jobs : at[j] = "write" /\ Out(j) = f /\ fs[f].by = j]_vars

\* The run comes to an end, the reporter included.
RunEnds == <>Ended
=============================================================================
