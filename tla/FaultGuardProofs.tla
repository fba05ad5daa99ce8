--------------------------- MODULE FaultGuardProofs ---------------------------
(***************************************************************************)
(* The fault guard for every number of files, strips and threads and any   *)
(* damage: who is armed, where a fault leads, which file gets the blame,   *)
(* and what becomes of the mapping of a file.                              *)
(***************************************************************************)
EXTENDS FaultGuard, FiniteSetTheorems, TLAPS

Parts == {Whole} \cup Tiles
TLS == [armed : BOOLEAN, target : (0..NJobs) \X Parts, limit : (0..NJobs) \X Parts, damaged : BOOLEAN]
Reading == {"decode", "stream", "tile"}

\* TypeOK with the whole of tls.
Typed ==
    /\ o \in Options
    /\ next \in 1..(NJobs + 1)
    /\ work \in [Workers -> [job : 0..NJobs, claimed : 0..NTiles, nfail : Nat]]
    /\ doing \in [Threads -> {"idle", "image", "decode", "stream", "pool", "tile"}]
    /\ tile \in [Threads -> Parts]
    /\ tls \in [Threads -> TLS]
    /\ buffer \in [Jobs -> {"none", "held", "freed"}]
    /\ result \in [Jobs -> {"pending", "ok", "failed", "lost"}]
    /\ noticed \subseteq Jobs
    /\ process \in {"alive", "killed", "terminated", "wild"}

\* No two workers have the same job.
OwnJobs ==
    \A v, w \in Workers : v # w /\ work[v].job # 0 => work[v].job # work[w].job

\* A worker's place fits its job, which is pending, mapped if it is a stream,
\* and without a mark unless a failed tile is counted.
WorkerInv(w) ==
    /\ work[w].job = 0 <=> doing[Worker(w)] = "idle"
    /\ work[w].job = 0 => work[w] = NoWork
    /\ work[w].job < next
    /\ work[w].job # 0 => result[work[w].job] = "pending"
    /\ doing[Worker(w)] \in {"decode", "stream", "pool", "tile"} =>
          o.kind[work[w].job] # "image" /\ buffer[work[w].job] = "held"
    /\ doing[Worker(w)] = "image" => o.kind[work[w].job] = "image"
    /\ doing[Worker(w)] = "stream" => o.kind[work[w].job] = "single"
    /\ doing[Worker(w)] \in {"pool", "tile"} => o.kind[work[w].job] = "tiled"

BlameInv(w) ==
    /\ doing[Worker(w)] \in {"decode", "stream"} => work[w].job \notin noticed
    /\ doing[Worker(w)] \in {"pool", "tile"} /\ work[w].job \in noticed => work[w].nfail > 0
    /\ work[w].nfail > 0 => \E p \in Parts : <<work[w].job, p>> \in o.bad
    /\ doing[Worker(w)] \in {"idle", "image"} /\ tls[Worker(w)].armed =>
          \E j \in Jobs : result[j] = "lost"

\* Every tile that is claimed is being decoded or was left with at most one
\* failure.
Decoding(w) == {t \in Threads : t[1] = w /\ doing[t] = "tile"}
ClaimInv(w) ==
    /\ doing[Worker(w)] \notin {"pool", "tile"} => work[w].claimed = 0
    /\ work[w].nfail + Cardinality(Decoding(w)) <= work[w].claimed

\* A thread that has a tile is the one its pool runs on, and its worker waits.
ThreadInv(t) ==
    /\ tile[t] # Whole <=> doing[t] = "tile"
    /\ t[2] > 0 => doing[t] \in {"idle", "tile"}
    /\ doing[t] = "tile" => IF o.helpers = 1 THEN t[2] = 0
                            ELSE t[2] > 0 /\ doing[Worker(t[1])] = "pool"

GuardInv(t) ==
    /\ doing[t] \in Reading => tls[t].armed /\ tls[t].target = Part(t)
    /\ doing[t] \in {"stream", "tile"} =>
          tls[t].limit = Part(t) /\ (tls[t].damaged => Part(t) \in o.bad)

JobInv(j) ==
    /\ j >= next => result[j] = "pending" /\ buffer[j] = "none" /\ j \notin noticed
    /\ o.kind[j] # "image" =>
          /\ result[j] = "ok" => j \notin noticed
          /\ result[j] = "failed" => \E p \in Parts : <<j, p>> \in o.bad
          /\ result[j] \in {"ok", "failed"} => buffer[j] # "held"

IInv ==
    /\ Typed /\ OwnJobs
    /\ \A w \in Workers : WorkerInv(w) /\ BlameInv(w) /\ ClaimInv(w)
    /\ \A t \in Threads : ThreadInv(t) /\ GuardInv(t)
    /\ \A j \in Jobs : JobInv(j)
    /\ OnlyImagesKill

-----------------------------------------------------------------------------
(* A step of one worker and its pool leaves the others alone.              *)

LEMMA Sizes ==
    /\ NJobs \in Nat \ {0} /\ NTiles \in Nat \ {0}
    /\ Whole \in Parts /\ Whole \notin Tiles /\ 0 \notin Jobs
    /\ \A opt \in Options : /\ opt.workers \in Nat \ {0} /\ opt.helpers \in Nat \ {0}
                            /\ opt.kind \in [Jobs -> Kinds] /\ opt.bad \subseteq Jobs \X Parts
BY FaultGuardAssumption, OptionsAssumption DEF Whole, Parts, Tiles, Jobs

\* A worker is a thread of its own, and every thread has a worker.
LEMMA ThreadsOfWorkers ==
    ASSUME o \in Options
    PROVE  /\ \A w \in Workers : Worker(w) \in Threads /\ Worker(w)[1] = w /\ Worker(w)[2] = 0
           /\ \A t \in Threads : t[1] \in Workers /\ t[2] \in Nat /\ (t[2] = 0 => t = Worker(t[1]))
           /\ \A w \in Workers, t \in Threads : t = Worker(w) <=> t[1] = w /\ t[2] = 0
BY Sizes DEF Workers, Worker, Threads

\* What a step of worker w, or of a thread of its pool, may touch: its own
\* threads, its own job, and the next one if it takes that.
Footprint(w) ==
    /\ o' = o
    /\ \/ next' = next /\ work'[w].job \in {work[w].job, 0}
       \/ /\ next \in Jobs /\ next' = next + 1
          /\ work[w].job = 0 /\ work'[w].job \in {0, next}
    /\ \A x \in Workers \ {w} : work'[x] = work[x]
    /\ \A t \in Threads : t[1] # w => doing'[t] = doing[t] /\ tile'[t] = tile[t] /\ tls'[t] = tls[t]
    /\ \A j \in Jobs : j # work[w].job /\ (j # next \/ next' = next) =>
          result'[j] = result[j] /\ buffer'[j] = buffer[j] /\ (j \in noticed' <=> j \in noticed)

LEMMA OthersKeep ==
    ASSUME IInv, NEW w \in Workers, Footprint(w)
    PROVE  /\ OwnJobs'
           /\ \A x \in Workers \ {w} : WorkerInv(x)' /\ BlameInv(x)' /\ ClaimInv(x)'
           /\ \A t \in Threads : t[1] # w => ThreadInv(t)' /\ GuardInv(t)'
           /\ \A j \in Jobs : j # work[w].job /\ (j # next \/ next' = next) => JobInv(j)'
           /\ \A j \in Jobs : result[j] = "lost" => result'[j] = "lost"
<1> USE DEF Footprint
<1>0. /\ o \in Options /\ next \in 1..(NJobs + 1)
      /\ work \in [Workers -> [job : 0..NJobs, claimed : 0..NTiles, nfail : Nat]]
      /\ Workers' = Workers /\ Threads' = Threads
      /\ \A x \in Workers : WorkerInv(x) /\ BlameInv(x) /\ ClaimInv(x)
      /\ \A t \in Threads : ThreadInv(t) /\ GuardInv(t)
      /\ \A j \in Jobs : JobInv(j)
      /\ OwnJobs
  BY DEF IInv, Typed, Workers, Threads
<1>1. \A x \in Workers : work[x].job \in 0..NJobs /\ work[x].job < next
  BY <1>0 DEF WorkerInv
<1>2. OwnJobs'
  BY <1>0, <1>1 DEF OwnJobs, Jobs
<1>3. \A j \in Jobs : result[j] = "lost" => result'[j] = "lost"
  <2> SUFFICES ASSUME NEW j \in Jobs, result[j] = "lost" PROVE result'[j] = "lost"
    OBVIOUS
  <2>1. j # work[w].job
    BY <1>0, Sizes DEF WorkerInv
  <2>2. j # next
    BY <1>0 DEF JobInv, Jobs
  <2> QED BY <2>1, <2>2
<1>4. \A x \in Workers \ {w} : WorkerInv(x)' /\ BlameInv(x)' /\ ClaimInv(x)'
  <2> SUFFICES ASSUME NEW x \in Workers \ {w} PROVE WorkerInv(x)' /\ BlameInv(x)' /\ ClaimInv(x)'
    OBVIOUS
  <2> DEFINE j == work[x].job
             m == Worker(x)
  <2>1. /\ m \in Threads /\ m[1] = x /\ m[1] # w /\ x \in Workers
        /\ doing'[m] = doing[m] /\ tls'[m] = tls[m] /\ work'[x] = work[x]
    BY <1>0, ThreadsOfWorkers
  <2>2. j < next /\ j \in 0..NJobs /\ (j # 0 => j # work[w].job /\ j \in Jobs)
    BY <1>0, <1>1, <2>1 DEF OwnJobs, Jobs
  <2>3. j # 0 => result'[j] = result[j] /\ buffer'[j] = buffer[j] /\ (j \in noticed' <=> j \in noticed)
    BY <1>0, <2>2
  <2>4. Decoding(x)' = Decoding(x)
    BY <1>0, <2>1 DEF Decoding
  <2>5. WorkerInv(x) /\ BlameInv(x) /\ ClaimInv(x)
    BY <1>0, <2>1
  <2>6. next' \in Nat /\ next' >= next
    BY <1>0
  <2>7. WorkerInv(x)'
    BY <1>0, <2>1, <2>2, <2>3, <2>5, <2>6 DEF WorkerInv, Worker
  <2>8. BlameInv(x)'
    BY <1>0, <1>3, <2>1, <2>2, <2>3, <2>5 DEF BlameInv, WorkerInv, Worker
  <2>9. ClaimInv(x)'
    BY <2>1, <2>4, <2>5 DEF ClaimInv, Worker
  <2> QED BY <2>7, <2>8, <2>9
<1>5. \A t \in Threads : t[1] # w => ThreadInv(t)' /\ GuardInv(t)'
  <2> SUFFICES ASSUME NEW t \in Threads, t[1] # w PROVE ThreadInv(t)' /\ GuardInv(t)'
    OBVIOUS
  <2>1. /\ t[1] \in Workers /\ Worker(t[1]) \in Threads /\ Worker(t[1])[1] # w
        /\ work'[t[1]] = work[t[1]]
    BY <1>0, ThreadsOfWorkers
  <2>2. ThreadInv(t)'
    BY <1>0, <2>1 DEF ThreadInv, Worker
  <2>3. GuardInv(t)'
    BY <1>0, <2>1 DEF GuardInv, Part, JobOf
  <2> QED BY <2>2, <2>3
<1>6. \A j \in Jobs : j # work[w].job /\ (j # next \/ next' = next) => JobInv(j)'
  BY <1>0 DEF JobInv, Jobs
<1> QED BY <1>2, <1>3, <1>4, <1>5, <1>6

\* What is left to show of a step of worker w.
Own(w) ==
    /\ WorkerInv(w) /\ BlameInv(w) /\ ClaimInv(w)
    /\ \A t \in Threads : t[1] = w => ThreadInv(t) /\ GuardInv(t)

LEMMA StepKeeps ==
    ASSUME IInv, NEW w \in Workers, Footprint(w), Typed', process' = "alive", Own(w)',
           \A j \in Jobs : j = work[w].job \/ (j = next /\ next' # next) => JobInv(j)'
    PROVE  IInv'
<1>1. o' = o /\ Workers' = Workers /\ Threads' = Threads
  BY DEF Footprint, Workers, Threads
<1>2. OnlyImagesKill'
  BY DEF OnlyImagesKill
<1>3. \A x \in Workers : WorkerInv(x)' /\ BlameInv(x)' /\ ClaimInv(x)'
  BY OthersKeep DEF Own
<1>4. \A t \in Threads : ThreadInv(t)' /\ GuardInv(t)'
  BY <1>1, OthersKeep DEF Own
<1>5. \A j \in Jobs : JobInv(j)'
  BY OthersKeep
<1> QED BY <1>1, <1>2, <1>3, <1>4, <1>5, OthersKeep DEF IInv

\* A worker leaves its job, in whatever way.
LEMMA LeaveKeeps ==
    ASSUME IInv, process' = "alive", NEW w \in Workers, NEW outcome \in {"ok", "failed", "lost"},
           work[w].job # 0, Leave(w, outcome), UNCHANGED <<o, next>>,
           noticed' = noticed \/ noticed' = noticed \cup {work[w].job},
           tls' \in [Threads -> TLS], \A t \in Threads : t[1] # w => tls'[t] = tls[t],
           tls'[Worker(w)].armed => outcome = "lost" \/ \E j \in Jobs : result[j] = "lost",
           buffer' \in [Jobs -> {"none", "held", "freed"}],
           \A j \in Jobs : j # work[w].job => buffer'[j] = buffer[j],
           o.kind[work[w].job] # "image" =>
              /\ outcome = "ok" => work[w].job \notin noticed'
              /\ outcome = "failed" => \E p \in Parts : <<work[w].job, p>> \in o.bad
              /\ outcome \in {"ok", "failed"} => buffer'[work[w].job] # "held"
    PROVE  IInv'
<1> DEFINE job == work[w].job
<1>0. /\ Typed /\ WorkerInv(w) /\ Workers' = Workers /\ Threads' = Threads
      /\ \A j \in Jobs : JobInv(j)
  BY DEF IInv, Workers, Threads
<1>1. /\ work \in [Workers -> [job : 0..NJobs, claimed : 0..NTiles, nfail : Nat]]
      /\ job \in Jobs /\ job \in 0..NJobs /\ job < next /\ next \in 1..(NJobs + 1)
      /\ result[job] = "pending"
  <2>1. work \in [Workers -> [job : 0..NJobs, claimed : 0..NTiles, nfail : Nat]] /\ next \in 1..(NJobs + 1)
    BY <1>0 DEF Typed
  <2> QED BY <1>0, <2>1 DEF WorkerInv, Jobs
<1>2. /\ work' = [work EXCEPT ![w] = NoWork] /\ work'[w] = NoWork
      /\ result' = [result EXCEPT ![job] = outcome]
      /\ \A t \in Threads : t[1] = w => doing'[t] = "idle" /\ tile'[t] = Whole
      /\ \A t \in Threads : t[1] # w => doing'[t] = doing[t] /\ tile'[t] = tile[t]
  BY <1>1 DEF Leave
<1>3. Footprint(w)
  <2>1. work'[w].job = 0 /\ \A x \in Workers \ {w} : work'[x] = work[x]
    BY <1>1, <1>2 DEF NoWork
  <2>2. \A j \in Jobs : j # job => result'[j] = result[j] /\ (j \in noticed' <=> j \in noticed)
    BY <1>0, <1>2 DEF Typed
  <2> QED BY <1>2, <2>1, <2>2 DEF Footprint
<1>4. Typed'
  <2>1. NoWork \in [job : 0..NJobs, claimed : 0..NTiles, nfail : Nat]
    BY Sizes DEF NoWork
  <2>2. work' \in [Workers -> [job : 0..NJobs, claimed : 0..NTiles, nfail : Nat]]
    BY <1>1, <1>2, <2>1
  <2>3. result' \in [Jobs -> {"pending", "ok", "failed", "lost"}]
    BY <1>0, <1>2 DEF Typed
  <2>4. doing' \in [Threads -> {"idle", "image", "decode", "stream", "pool", "tile"}]
    BY <1>0 DEF Typed, Leave
  <2>5. tile' \in [Threads -> Parts]
    BY <1>0, Sizes DEF Typed, Leave
  <2>6. noticed' \subseteq Jobs
    BY <1>0, <1>1 DEF Typed
  <2> QED BY <1>0, <2>2, <2>3, <2>4, <2>5, <2>6 DEF Typed
<1>5. Own(w)'
  <2>0. /\ Worker(w) \in Threads /\ Worker(w)[1] = w /\ doing'[Worker(w)] = "idle" /\ Worker(w)' = Worker(w)
    BY <1>0, <1>2, ThreadsOfWorkers DEF Typed, Worker
  <2>1. WorkerInv(w)'
    BY <1>1, <1>2, <2>0 DEF WorkerInv, NoWork
  <2>2. \E j \in Jobs : outcome = "lost" \/ (\E i \in Jobs : result[i] = "lost") => result'[j] = "lost"
    BY <1>0, <1>1, <1>2, <1>3, OthersKeep DEF Typed
  <2>3. BlameInv(w)'
    BY <1>1, <1>2, <2>0, <2>2 DEF BlameInv, NoWork
  <2>4. Decoding(w)' = {}
    BY <1>0, <1>2 DEF Decoding
  <2>5. ClaimInv(w)'
    BY <1>2, <2>0, <2>4, FS_EmptySet DEF ClaimInv, NoWork
  <2>6. \A t \in Threads : t[1] = w => ThreadInv(t)' /\ GuardInv(t)'
    BY <1>2 DEF ThreadInv, GuardInv, Reading
  <2> QED BY <1>0, <2>1, <2>3, <2>5, <2>6 DEF Own
<1>6. \A j \in Jobs : j = work[w].job => JobInv(j)'
  <2> SUFFICES ASSUME NEW j \in Jobs, j = work[w].job PROVE JobInv(j)'
    OBVIOUS
  <2>1. result'[j] = outcome
    BY <1>0, <1>2 DEF Typed
  <2>2. next' = next /\ next \in Nat /\ j < next /\ j \in Nat /\ o' = o
    BY <1>1, Sizes DEF Jobs
  <2> QED BY <2>1, <2>2 DEF JobInv
<1>7. next' = next
  OBVIOUS
<1> QED BY <1>3, <1>4, <1>5, <1>6, <1>7, StepKeeps

\* What the invariant says of a worker that has a job, for short.
LEMMA AtWork ==
    ASSUME IInv, NEW w \in Workers, doing[Worker(w)] # "idle"
    PROVE  /\ o \in Options /\ Worker(w) \in Threads /\ Worker(w)[1] = w /\ Worker(w)[2] = 0
           /\ work[w].job \in Jobs /\ work[w].job # 0 /\ work[w].job < next /\ next \in 1..(NJobs + 1)
           /\ result[work[w].job] = "pending"
           /\ JobOf(Worker(w)) = work[w].job
           /\ tls[Worker(w)] \in TLS /\ tls \in [Threads -> TLS]
           /\ buffer \in [Jobs -> {"none", "held", "freed"}]
           /\ WorkerInv(w) /\ BlameInv(w) /\ ClaimInv(w)
           /\ ThreadInv(Worker(w)) /\ GuardInv(Worker(w))
<1>1. /\ work \in [Workers -> [job : 0..NJobs, claimed : 0..NTiles, nfail : Nat]]
      /\ next \in 1..(NJobs + 1) /\ o \in Options /\ tls \in [Threads -> TLS]
      /\ buffer \in [Jobs -> {"none", "held", "freed"}]
  BY DEF IInv, Typed
<1>2. Worker(w) \in Threads /\ Worker(w)[1] = w /\ Worker(w)[2] = 0
  BY <1>1, ThreadsOfWorkers
<1>3. work[w].job \in Jobs
  BY <1>1 DEF IInv, WorkerInv, Jobs
<1> QED BY <1>1, <1>2, <1>3, Sizes DEF IInv, WorkerInv, JobOf

\* The ways out of processFile that pass FAULT_CATCH and give the mapping back.
LEMMA FinishKeeps ==
    ASSUME IInv, process = "alive", NEW w \in Workers, NEW outcome \in {"ok", "failed"}, NEW l \in TLS,
           doing[Worker(w)] # "idle", Finish(w, outcome, l),
           noticed' = noticed \/ noticed' = noticed \cup {work[w].job},
           o.kind[work[w].job] # "image" =>
              /\ outcome = "ok" => work[w].job \notin noticed'
              /\ outcome = "failed" => \E p \in Parts : <<work[w].job, p>> \in o.bad
    PROVE  IInv'
<1>1. Catch(l) \in TLS /\ ~Catch(l).armed
  BY DEF Catch, TLS
<1>2. /\ tls' \in [Threads -> TLS] /\ ~tls'[Worker(w)].armed
      /\ \A t \in Threads : t[1] # w => tls'[t] = tls[t]
  BY <1>1, AtWork DEF Finish
<1>3. /\ buffer' \in [Jobs -> {"none", "held", "freed"}] /\ buffer'[work[w].job] = "freed"
      /\ \A j \in Jobs : j # work[w].job => buffer'[j] = buffer[j]
  BY AtWork DEF Finish
<1>4. Leave(w, outcome) /\ UNCHANGED <<o, next, process>> /\ work[w].job # 0
  BY AtWork DEF Finish
<1> QED BY <1>2, <1>3, <1>4, LeaveKeeps

-----------------------------------------------------------------------------
(* Every action.  First the ways a worker leaves its job.                  *)

LEMMA WorkerLeaves ==
    ASSUME IInv, process = "alive", NEW w \in Workers,
           HeaderRejected(w) \/ StreamEnds(w) \/ StreamIsNull(w) \/ ContainerEnds(w) \/ ImageDone(w)
    PROVE  IInv'
<1> DEFINE m == Worker(w)
           job == work[w].job
<1>0. doing[m] # "idle"
  BY DEF HeaderRejected, StreamEnds, StreamIsNull, ContainerEnds, Joined, ImageDone
<1>1. /\ m \in Threads /\ m[1] = w /\ JobOf(m) = job /\ job \in Jobs /\ job # 0
      /\ tls[m] \in TLS /\ tls \in [Threads -> TLS] /\ buffer \in [Jobs -> {"none", "held", "freed"}]
      /\ WorkerInv(w) /\ BlameInv(w) /\ GuardInv(m) /\ ThreadInv(m)
  BY <1>0, AtWork
<1>2. Whole \in Parts
  BY Sizes
<1>3. CASE HeaderRejected(w)
  BY <1>0, <1>1, <1>2, <1>3, FinishKeeps DEF HeaderRejected
<1>4. CASE StreamIsNull(w)
  BY <1>0, <1>1, <1>2, <1>4, FinishKeeps DEF StreamIsNull
<1>5. CASE StreamEnds(w)
  <2> DEFINE outcome == IF tls[m].damaged THEN "failed" ELSE "ok"
             l == Unlimit(tls[m])
  <2>1. Finish(w, outcome, l) /\ doing[m] = "stream" /\ NoticeMark(m)
    BY <1>5 DEF StreamEnds
  <2>2. l \in TLS
    BY <1>1, <1>2, Sizes DEF Unlimit, TLS, Nowhere
  <2>3. outcome \in {"ok", "failed"} /\ (outcome = "ok" <=> ~tls[m].damaged)
    OBVIOUS
  <2>4. noticed' = IF tls[m].damaged THEN noticed \cup {job} ELSE noticed
    BY <1>1, <2>1 DEF NoticeMark
  <2>5. job \notin noticed
    BY <1>1, <2>1 DEF BlameInv
  <2>6. tls[m].damaged => \E p \in Parts : <<job, p>> \in o.bad
    <3>1. tls[m].damaged => <<job, tile[m]>> \in o.bad
      BY <1>1, <2>1 DEF GuardInv, Part
    <3>2. tile[m] \in Parts
      BY <1>1 DEF IInv, Typed
    <3> QED BY <3>1, <3>2
  <2> HIDE DEF outcome, l
  <2> QED BY <1>0, <2>1, <2>2, <2>3, <2>4, <2>5, <2>6, FinishKeeps
<1>6. CASE ContainerEnds(w)
  <2> DEFINE outcome == IF work[w].nfail > 0 THEN "failed" ELSE "ok"
  <2>1. Finish(w, outcome, tls[m]) /\ doing[m] = "pool" /\ noticed' = noticed
    BY <1>6 DEF ContainerEnds, Joined
  <2>2. outcome \in {"ok", "failed"} /\ (outcome = "ok" => ~(work[w].nfail > 0))
                                     /\ (outcome = "failed" => work[w].nfail > 0)
    OBVIOUS
  <2>3. /\ outcome = "ok" => job \notin noticed'
        /\ outcome = "failed" => \E p \in Parts : <<job, p>> \in o.bad
    BY <1>1, <2>1, <2>2 DEF BlameInv
  <2> HIDE DEF outcome
  <2> QED BY <1>0, <1>1, <2>1, <2>2, <2>3, FinishKeeps
<1>7. CASE ImageDone(w)
  <2>1. /\ doing[m] = "image" /\ UNCHANGED <<o, next, tls, buffer, noticed, process>>
        /\ o.kind[job] = "image"
    BY <1>1, <1>7 DEF ImageDone, WorkerInv
  <2>2. tls[m].armed => \E j \in Jobs : result[j] = "lost"
    BY <1>1, <2>1 DEF BlameInv
  <2>3. PICK outcome \in {"ok", "failed"} : Leave(w, outcome)
    BY <1>7 DEF ImageDone
  <2> QED BY <1>1, <2>1, <2>2, <2>3, LeaveKeeps
<1> QED BY <1>3, <1>4, <1>5, <1>6, <1>7

\* No thread of an idle worker, or of one that decodes a single stream or a
\* header, has a tile.
LEMMA NoTiles ==
    ASSUME IInv, NEW w \in Workers, doing[Worker(w)] \notin {"pool", "tile"}
    PROVE  \A t \in Threads : t[1] = w /\ t # Worker(w) => doing[t] = "idle" /\ tile[t] = Whole
<1> SUFFICES ASSUME NEW t \in Threads, t[1] = w, t # Worker(w)
             PROVE  doing[t] = "idle" /\ tile[t] = Whole
  OBVIOUS
<1>1. t[2] \in Nat /\ t[2] # 0
  BY ThreadsOfWorkers DEF IInv, Typed
<1> QED BY <1>1 DEF IInv, ThreadInv

\* A worker whose own place changes and nothing about its pool.
LEMMA PlaceKeeps ==
    ASSUME IInv, NEW w \in Workers, doing[Worker(w)] \notin {"pool", "tile"}, UNCHANGED <<o, tile>>,
           NEW place \in {"image", "decode", "stream", "pool"},
           doing' = [doing EXCEPT ![Worker(w)] = place],
           work'[w].nfail = work[w].nfail /\ work'[w].claimed = work[w].claimed,
           place \in {"decode", "stream"} => tls'[Worker(w)].armed /\ tls'[Worker(w)].target = Part(Worker(w))',
           place = "stream" => /\ tls'[Worker(w)].limit = Part(Worker(w))'
                               /\ ~tls'[Worker(w)].damaged
    PROVE  /\ doing' \in [Threads -> {"idle", "image", "decode", "stream", "pool", "tile"}]
           /\ Worker(w)' = Worker(w) /\ doing'[Worker(w)] = place
           /\ ClaimInv(w)'
           /\ \A t \in Threads : t[1] = w => ThreadInv(t)' /\ GuardInv(t)'
<1> DEFINE m == Worker(w)
<1>1. /\ m \in Threads /\ m[1] = w /\ m[2] = 0 /\ Threads' = Threads /\ m' = m
      /\ doing \in [Threads -> {"idle", "image", "decode", "stream", "pool", "tile"}]
      /\ ThreadInv(m) /\ ClaimInv(w)
  BY ThreadsOfWorkers DEF IInv, Typed, Threads, Workers, Worker
<1>2. \A t \in Threads : t[1] = w /\ t # m => doing[t] = "idle" /\ tile[t] = Whole
  BY NoTiles
<1>3. /\ doing'[m] = place /\ doing[m] # "tile" /\ tile'[m] = Whole
      /\ doing' \in [Threads -> {"idle", "image", "decode", "stream", "pool", "tile"}]
      /\ \A t \in Threads : t # m => doing'[t] = doing[t] /\ tile'[t] = tile[t]
  BY <1>1 DEF ThreadInv
<1>4. Decoding(w)' = Decoding(w)
  BY <1>1, <1>3 DEF Decoding
<1>5. ClaimInv(w)'
  BY <1>1, <1>3, <1>4 DEF ClaimInv
<1>6. \A t \in Threads : t[1] = w => ThreadInv(t)'
  BY <1>1, <1>2, <1>3 DEF ThreadInv
<1>7. \A t \in Threads : t[1] = w => GuardInv(t)'
  BY <1>1, <1>2, <1>3 DEF GuardInv, Reading
<1> QED BY <1>1, <1>3, <1>5, <1>6, <1>7

LEMMA WorkerTakes ==
    ASSUME IInv, process = "alive", NEW w \in Workers,
           TakeImage(w) \/ TakeStream(w) \/ CannotOpen(w)
    PROVE  IInv'
<1> DEFINE m == Worker(w)
<1>0. /\ Typed /\ \A j \in Jobs : JobInv(j)
      /\ WorkerInv(w) /\ BlameInv(w) /\ ClaimInv(w) /\ ThreadInv(m) /\ GuardInv(m)
      /\ m \in Threads /\ m[1] = w
  BY ThreadsOfWorkers DEF IInv, Typed
<1>1. /\ doing[m] = "idle" /\ next \in Jobs /\ next' = next + 1 /\ o' = o /\ tile' = tile /\ process' = "alive"
      /\ next \in Nat /\ next # 0 /\ next \in 0..NJobs /\ next' \in 1..(NJobs + 1)
  <2>1. doing[m] = "idle" /\ next <= NJobs /\ next' = next + 1 /\ o' = o /\ tile' = tile /\ process' = "alive"
    BY DEF TakeImage, TakeStream, CannotOpen, Take
  <2> QED BY <1>0, <2>1, Sizes DEF Typed, Jobs
<1>2. /\ work[w] = NoWork /\ work[w].job = 0
      /\ result[next] = "pending" /\ buffer[next] = "none" /\ next \notin noticed
      /\ m' = m /\ Threads' = Threads /\ Workers' = Workers
  BY <1>0, <1>1 DEF WorkerInv, JobInv, Worker, Threads, Workers
<1>3. \A x \in Workers : work[x] \in [job : 0..NJobs, claimed : 0..NTiles, nfail : Nat]
  BY <1>0 DEF Typed
<1>4. CASE TakeImage(w) \/ TakeStream(w)
  <2> DEFINE place == IF TakeImage(w) THEN "image" ELSE "decode"
  <2>1. /\ work' = [work EXCEPT ![w].job = next]
        /\ doing' = [doing EXCEPT ![m] = place]
        /\ UNCHANGED <<result, noticed>>
        /\ place \in {"image", "decode"}
        /\ (place = "image") <=> (o.kind[next] = "image")
        /\ place = "image" => UNCHANGED <<tls, buffer>>
        /\ place = "decode" => /\ buffer' = [buffer EXCEPT ![next] = "held"]
                               /\ tls' = [tls EXCEPT ![m] = Try(@, <<next, Whole>>)]
    BY <1>4 DEF TakeImage, TakeStream, Take
  <2> HIDE DEF place
  <2>2. /\ work'[w].job = next /\ work'[w].nfail = 0 /\ work'[w].claimed = 0
        /\ work[w].nfail = 0 /\ work[w].claimed = 0
        /\ work'[w] \in [job : 0..NJobs, claimed : 0..NTiles, nfail : Nat]
        /\ \A x \in Workers \ {w} : work'[x] = work[x]
        /\ work' \in [Workers -> [job : 0..NJobs, claimed : 0..NTiles, nfail : Nat]]
    BY <1>0, <1>1, <1>2, <2>1 DEF Typed, NoWork
  <2>3. /\ tls' \in [Threads -> TLS] /\ \A t \in Threads : t # m => tls'[t] = tls[t]
        /\ place = "image" => tls'[m] = tls[m]
        /\ place = "decode" => tls'[m].armed /\ tls'[m].target = <<next, Whole>>
    <3>1. tls \in [Threads -> TLS] /\ tls[m] \in TLS /\ <<next, Whole>> \in (0..NJobs) \X Parts
      BY <1>0, <1>1, Sizes DEF Typed
    <3>2. Try(tls[m], <<next, Whole>>) \in TLS /\ Try(tls[m], <<next, Whole>>).armed
          /\ Try(tls[m], <<next, Whole>>).target = <<next, Whole>>
      BY <3>1 DEF Try, TLS
    <3> HIDE DEF m
    <3> QED BY <1>0, <2>1, <3>1, <3>2
  <2>4. /\ buffer' \in [Jobs -> {"none", "held", "freed"}]
        /\ \A j \in Jobs : j # next => buffer'[j] = buffer[j]
        /\ place = "decode" => buffer'[next] = "held"
    BY <1>0, <1>1, <2>1 DEF Typed
  <2>5. tile[m] = Whole /\ Part(m)' = <<next, Whole>>
    BY <1>0, <1>1, <1>2, <2>2 DEF ThreadInv, Part, JobOf
  <2>6. /\ doing' \in [Threads -> {"idle", "image", "decode", "stream", "pool", "tile"}]
        /\ doing'[m] = place /\ ClaimInv(w)' /\ \A t \in Threads : t[1] = w => ThreadInv(t)' /\ GuardInv(t)'
    <3>1. doing[m] \notin {"pool", "tile"} /\ place # "stream" /\ place \in {"image", "decode", "stream", "pool"}
      BY <1>1, <2>1
    <3> QED BY <1>1, <2>1, <2>2, <2>3, <2>5, <3>1, PlaceKeeps
  <2>7. Footprint(w)
    <3>1. \A t \in Threads : t[1] # w => doing'[t] = doing[t] /\ tile'[t] = tile[t] /\ tls'[t] = tls[t]
      BY <1>0, <1>1, <2>1, <2>3
    <3> QED BY <1>1, <1>2, <2>1, <2>2, <2>4, <3>1 DEF Footprint
  <2>8. Typed'
    BY <1>0, <1>1, <1>2, <2>1, <2>2, <2>3, <2>4, <2>6 DEF Typed
  <2>9. WorkerInv(w)'
    BY <1>1, <1>2, <2>1, <2>2, <2>4, <2>6 DEF WorkerInv
  <2>10. BlameInv(w)'
    BY <1>0, <1>1, <1>2, <2>1, <2>2, <2>3, <2>6 DEF BlameInv
  <2>11. \A j \in Jobs : j = next => JobInv(j)'
    BY <1>1, <1>2, <2>1 DEF JobInv
  <2> QED BY <1>1, <1>2, <2>6, <2>7, <2>8, <2>9, <2>10, <2>11, Sizes, StepKeeps DEF Own
<1>5. CASE CannotOpen(w)
  <2>1. /\ UNCHANGED <<o, work, doing, tile, tls, buffer, process>>
        /\ o.kind[next] # "image" /\ <<next, Whole>> \in o.bad
        /\ result' = [result EXCEPT ![next] = "failed"]
        /\ noticed' = noticed \cup {next}
    BY <1>5 DEF CannotOpen
  <2>2. /\ result'[next] = "failed" /\ \A j \in Jobs : j # next => result'[j] = result[j]
        /\ result' \in [Jobs -> {"pending", "ok", "failed", "lost"}]
        /\ noticed' \subseteq Jobs
    BY <1>0, <1>1, <2>1 DEF Typed
  <2>3. Footprint(w)
    BY <1>1, <1>2, <2>1, <2>2 DEF Footprint
  <2>4. Typed'
    BY <1>0, <1>1, <1>2, <2>1, <2>2 DEF Typed
  <2>5. WorkerInv(w)'
    BY <1>0, <1>1, <1>2, <2>1 DEF WorkerInv, Worker
  <2>6. BlameInv(w)'
    BY <1>0, <1>1, <1>2, <2>1, <2>3, OthersKeep DEF BlameInv, Worker, NoWork
  <2>7. ClaimInv(w)' /\ \A t \in Threads : t[1] = w => ThreadInv(t)' /\ GuardInv(t)'
    <3>1. Decoding(w)' = Decoding(w)
      BY <1>2, <2>1 DEF Decoding
    <3>2. \A t \in Threads : ThreadInv(t) /\ GuardInv(t)
      BY DEF IInv
    <3> QED BY <1>0, <1>2, <2>1, <3>1, <3>2 DEF ClaimInv, ThreadInv, GuardInv, Part, JobOf, Worker
  <2>8. \A j \in Jobs : j = next => JobInv(j)'
    <3>1. next' = next + 1 /\ buffer'[next] = "none" /\ <<next, Whole>> \in o'.bad /\ Whole \in Parts
      BY <1>1, <1>2, <2>1, Sizes
    <3> QED BY <1>1, <2>2, <3>1 DEF JobInv
  <2> QED BY <1>1, <1>2, <2>3, <2>4, <2>5, <2>6, <2>7, <2>8, Sizes, StepKeeps DEF Own
<1> QED BY <1>4, <1>5

\* The decode of a single stream or of the tiles of a container begins.
LEMMA DecodeBegins ==
    ASSUME IInv, process = "alive", NEW w \in Workers, StreamBegins(w) \/ PoolBegins(w)
    PROVE  IInv'
<1> DEFINE m == Worker(w)
           place == IF StreamBegins(w) THEN "stream" ELSE "pool"
<1>1. /\ doing[m] = "decode" /\ place \in {"stream", "pool"}
      /\ doing' = [doing EXCEPT ![m] = place]
      /\ place = "stream" => o.kind[work[w].job] = "single" /\ tls' = [tls EXCEPT ![m] = Limit(@, Part(m))]
      /\ place = "pool" => /\ o.kind[work[w].job] = "tiled"
                           /\ tls' = [t \in Threads |-> IF t[1] = w /\ t[2] > 0 THEN FreshTLS ELSE tls[t]]
      /\ UNCHANGED <<o, next, work, tile, buffer, result, noticed, process>>
  BY DEF StreamBegins, PoolBegins
<1> HIDE DEF place
<1>2. /\ Typed /\ \A j \in Jobs : JobInv(j)
      /\ m \in Threads /\ m[1] = w /\ m[2] = 0 /\ m' = m /\ Threads' = Threads /\ Workers' = Workers
      /\ work[w].job \in Jobs /\ work[w].job # 0 /\ tls[m] \in TLS /\ tls \in [Threads -> TLS]
      /\ WorkerInv(w) /\ BlameInv(w) /\ ThreadInv(m) /\ GuardInv(m)
  BY <1>1, AtWork DEF IInv, Worker, Threads, Workers
<1>3. /\ Part(m)' = Part(m) /\ Part(m) \in (0..NJobs) \X Parts
      /\ tls[m].armed /\ tls[m].target = Part(m)
  <2>1. m' = m
    BY <1>2
  <2>2. tile[m] \in Parts /\ work[w].job \in 0..NJobs
    BY <1>2 DEF Typed
  <2> QED BY <1>1, <1>2, <2>1, <2>2 DEF Part, JobOf, GuardInv, Reading
<1>4. /\ tls' \in [Threads -> TLS] /\ \A t \in Threads : t[1] # w => tls'[t] = tls[t]
      /\ tls'[m].armed /\ tls'[m].target = Part(m)
      /\ place = "stream" => tls'[m].limit = Part(m) /\ ~tls'[m].damaged
  <2>1. FreshTLS \in TLS
    BY Sizes DEF FreshTLS, TLS, Nowhere
  <2>2. /\ Limit(tls[m], Part(m)) \in TLS /\ Limit(tls[m], Part(m)).limit = Part(m)
        /\ ~Limit(tls[m], Part(m)).damaged /\ Limit(tls[m], Part(m)).armed = tls[m].armed
        /\ Limit(tls[m], Part(m)).target = tls[m].target
    BY <1>2, <1>3 DEF Limit, TLS
  <2>3. CASE place = "stream"
    <3>1. tls' = [tls EXCEPT ![m] = Limit(tls[m], Part(m))]
      BY <1>1, <2>3
    <3> HIDE DEF m
    <3> QED BY <1>2, <1>3, <2>2, <3>1
  <2>4. CASE place = "pool"
    BY <1>1, <1>2, <1>3, <2>1, <2>4
  <2> QED BY <1>1, <2>3, <2>4
<1>5. /\ doing' \in [Threads -> {"idle", "image", "decode", "stream", "pool", "tile"}]
      /\ doing'[m] = place /\ ClaimInv(w)' /\ \A t \in Threads : t[1] = w => ThreadInv(t)' /\ GuardInv(t)'
  <2>1. doing[m] \notin {"pool", "tile"} /\ place \in {"image", "decode", "stream", "pool"}
    BY <1>1
  <2> QED BY <1>1, <1>3, <1>4, <2>1, PlaceKeeps
<1>6. Footprint(w)
  BY <1>1, <1>2, <1>4 DEF Footprint
<1>7. Typed'
  BY <1>1, <1>2, <1>4, <1>5 DEF Typed
<1>8. WorkerInv(w)'
  BY <1>1, <1>2, <1>5 DEF WorkerInv
<1>9. BlameInv(w)'
  BY <1>1, <1>2, <1>5 DEF BlameInv
<1>10. \A j \in Jobs : j = work[w].job => JobInv(j)'
  BY <1>1, <1>2 DEF JobInv
<1> QED BY <1>1, <1>2, <1>5, <1>6, <1>7, <1>8, <1>9, <1>10, StepKeeps DEF Own

\* A thread that is at something: itself a worker, or of the pool of one.
LEMMA AtThread ==
    ASSUME IInv, NEW t \in Threads, doing[t] # "idle"
    PROVE  /\ t[1] \in Workers /\ doing[Worker(t[1])] # "idle" /\ Worker(t[1]) \in Threads
           /\ JobOf(t) = work[t[1]].job /\ work[t[1]].job \in Jobs /\ work[t[1]].job # 0
           /\ work[t[1]].job \in 0..NJobs /\ work[t[1]].job < next /\ result[work[t[1]].job] = "pending"
           /\ t[2] = 0 => t = Worker(t[1])
           /\ t[2] # 0 => doing[t] = "tile"
           /\ ThreadInv(t) /\ GuardInv(t) /\ Part(t) \in (0..NJobs) \X Parts
           /\ WorkerInv(t[1]) /\ BlameInv(t[1]) /\ ClaimInv(t[1])
<1>1. /\ t[1] \in Workers /\ t[2] \in Nat /\ (t[2] = 0 => t = Worker(t[1])) /\ Worker(t[1]) \in Threads
      /\ Worker(t[1])[2] = 0
  BY ThreadsOfWorkers DEF IInv, Typed
<1>2. ThreadInv(t) /\ GuardInv(t)
  BY DEF IInv
<1>3. (t[2] # 0 => doing[t] = "tile") /\ doing[Worker(t[1])] # "idle"
  BY <1>1, <1>2 DEF ThreadInv
<1>4. /\ work[t[1]].job \in Jobs /\ work[t[1]].job # 0 /\ work[t[1]].job < next
      /\ result[work[t[1]].job] = "pending"
      /\ WorkerInv(t[1]) /\ BlameInv(t[1]) /\ ClaimInv(t[1])
  BY <1>1, <1>3, AtWork
<1>5. JobOf(t) = work[t[1]].job /\ work[t[1]].job \in 0..NJobs /\ tile[t] \in Parts
  BY <1>1 DEF JobOf, IInv, Typed
<1> QED BY <1>1, <1>2, <1>3, <1>4, <1>5 DEF Part

LEMMA DecodingFinite ==
    ASSUME o \in Options
    PROVE  \A w \in Workers : IsFiniteSet(Decoding(w))
<1>1. o.workers \in Nat /\ o.helpers \in Nat
  BY Sizes
<1>2. \A a, b \in Int : IsFiniteSet(a..b)
  BY FS_Interval
<1>3. IsFiniteSet(Workers) /\ IsFiniteSet(0..o.helpers)
  BY <1>1, <1>2 DEF Workers
<1>4. IsFiniteSet(Threads)
  BY <1>3, FS_Product DEF Threads
<1>5. \A w \in Workers : Decoding(w) \subseteq Threads
  BY DEF Decoding
<1> QED BY <1>4, <1>5, FS_Subset

\* The ways a thread leaves its tile.
LEMMA LeaveTileKeeps ==
    ASSUME IInv, process = "alive", NEW t \in Threads, doing[t] = "tile",
           NEW failures \in {0, 1}, LeaveTile(t, failures), UNCHANGED <<o, next, process>>,
           failures = 1 => Part(t) \in o.bad,
           noticed' = noticed \/ (failures = 1 /\ noticed' = noticed \cup {JobOf(t)}),
           tls' \in [Threads -> TLS], \A u \in Threads : u # t => tls'[u] = tls[u]
    PROVE  IInv'
<1> DEFINE w == t[1]
           m == Worker(w)
<1>1. /\ w \in Workers /\ m \in Threads /\ m[1] = w /\ JobOf(t) = work[w].job /\ work[w].job \in Jobs
      /\ work[w].job # 0 /\ work[w].job < next /\ (t[2] = 0 => t = m)
      /\ ThreadInv(t) /\ WorkerInv(w) /\ BlameInv(w) /\ ClaimInv(w)
      /\ result[work[w].job] = "pending" /\ Part(t) \in (0..NJobs) \X Parts
  BY AtThread, ThreadsOfWorkers DEF IInv, Typed
<1>2. /\ Typed /\ Threads' = Threads /\ Workers' = Workers /\ m' = m
      /\ work \in [Workers -> [job : 0..NJobs, claimed : 0..NTiles, nfail : Nat]]
      /\ \A j \in Jobs : JobInv(j)
      /\ \A u \in Threads : ThreadInv(u) /\ GuardInv(u)
  BY DEF IInv, Typed, Threads, Workers, Worker
<1>3. /\ work'[w].job = work[w].job /\ work'[w].claimed = work[w].claimed
      /\ work'[w].nfail = work[w].nfail + failures
      /\ \A x \in Workers \ {w} : work'[x] = work[x]
      /\ work' \in [Workers -> [job : 0..NJobs, claimed : 0..NTiles, nfail : Nat]]
  <2>1. work' = [work EXCEPT ![w].nfail = @ + failures] /\ failures \in Nat
    BY DEF LeaveTile
  <2> HIDE DEF w
  <2> QED BY <1>1, <1>2, <2>1
<1>4. /\ \A u \in Threads : u # t => doing'[u] = doing[u] /\ tile'[u] = tile[u]
      /\ doing'[t] = IF o.helpers = 1 THEN "pool" ELSE "idle"
      /\ tile'[t] = Whole
      /\ result' = result /\ buffer' = buffer /\ o' = o
  BY <1>2 DEF LeaveTile, Typed
<1>5. /\ doing[m] \in {"pool", "tile"} /\ doing'[m] = "pool"
      /\ o.helpers = 1 => t = m
      /\ o.helpers # 1 => t # m /\ doing[m] = "pool" /\ t[2] # 0
  <2>1. m[2] = 0
    BY <1>1, ThreadsOfWorkers DEF IInv, Typed
  <2>2. o.helpers = 1 => t = m
    BY <1>1 DEF ThreadInv
  <2>3. o.helpers # 1 => t # m /\ doing[m] = "pool" /\ t[2] # 0
    BY <1>1, <2>1, ThreadsOfWorkers DEF ThreadInv, IInv, Typed
  <2> QED BY <1>1, <1>4, <2>2, <2>3
<1>6. Typed'
  <2>1. doing' \in [Threads -> {"idle", "image", "decode", "stream", "pool", "tile"}]
    BY <1>2 DEF Typed, LeaveTile
  <2>2. tile' \in [Threads -> Parts]
    BY <1>2, Sizes DEF Typed, LeaveTile
  <2>3. noticed' \subseteq Jobs
    BY <1>1, <1>2 DEF Typed
  <2> QED BY <1>2, <1>3, <1>4, <2>1, <2>2, <2>3 DEF Typed
<1>7. Footprint(w)
  <2>1. \A u \in Threads : u[1] # w => doing'[u] = doing[u] /\ tile'[u] = tile[u] /\ tls'[u] = tls[u]
    BY <1>4
  <2>2. \A j \in Jobs : j # work[w].job => (j \in noticed' <=> j \in noticed)
    BY <1>1
  <2> QED BY <1>3, <1>4, <2>1, <2>2 DEF Footprint
<1>8. WorkerInv(w)'
  BY <1>1, <1>2, <1>3, <1>4, <1>5 DEF WorkerInv
<1>9. BlameInv(w)'
  <2>1. work[w].nfail \in Nat
    BY <1>1, <1>2
  <2>2. failures = 1 => \E p \in Parts : <<work[w].job, p>> \in o.bad
    BY <1>1 DEF Part
  <2>3. work'[w].nfail > 0 => \E p \in Parts : <<work[w].job, p>> \in o.bad
    BY <1>1, <1>3, <2>1, <2>2 DEF BlameInv
  <2>4. work[w].job \in noticed' => work'[w].nfail > 0
    BY <1>1, <1>3, <1>5, <2>1 DEF BlameInv
  <2> QED BY <1>2, <1>3, <1>4, <1>5, <2>3, <2>4 DEF BlameInv
<1>10. ClaimInv(w)'
  <2>1. IsFiniteSet(Decoding(w)) /\ t \in Decoding(w)
    <3>1. IsFiniteSet(Decoding(w))
      BY <1>1, <1>2, DecodingFinite DEF Typed
    <3> QED BY <3>1 DEF Decoding
  <2>2. Decoding(w)' = Decoding(w) \ {t}
    BY <1>2, <1>4 DEF Decoding
  <2>3. Cardinality(Decoding(w)') = Cardinality(Decoding(w)) - 1 /\ Cardinality(Decoding(w)) \in Nat
    BY <2>1, <2>2, FS_RemoveElement, FS_CardinalityType
  <2>4. work[w].nfail \in Nat /\ work[w].claimed \in Nat
    BY <1>1, <1>2, Sizes
  <2>5. Cardinality(Decoding(w))' = Cardinality(Decoding(w)')
    OBVIOUS
  <2> QED BY <1>1, <1>2, <1>3, <1>5, <2>3, <2>4, <2>5 DEF ClaimInv
<1>11. \A u \in Threads : u[1] = w => ThreadInv(u)' /\ GuardInv(u)'
  <2> SUFFICES ASSUME NEW u \in Threads, u[1] = w PROVE ThreadInv(u)' /\ GuardInv(u)'
    OBVIOUS
  <2>1. CASE u = t
    <3>1. t[2] \in Nat
      BY <1>2, ThreadsOfWorkers DEF Typed
    <3>2. m[2] = 0
      BY <1>1, ThreadsOfWorkers DEF IInv, Typed
    <3> QED BY <1>2, <1>4, <1>5, <2>1, <3>1, <3>2 DEF ThreadInv, GuardInv, Reading
  <2>2. CASE u # t
    <3>1. doing'[u] = doing[u] /\ tile'[u] = tile[u] /\ tls'[u] = tls[u] /\ ThreadInv(u) /\ GuardInv(u)
      BY <1>2, <1>4, <2>2
    <3>2. doing[u] = "tile" => o.helpers # 1
      <4> SUFFICES ASSUME doing[u] = "tile", o.helpers = 1 PROVE FALSE
        OBVIOUS
      <4>1. u[2] = 0 /\ t = m
        BY <1>5, <3>1 DEF ThreadInv
      <4> QED BY <1>2, <2>2, <4>1, ThreadsOfWorkers DEF Typed
    <3>3. ThreadInv(u)'
      BY <1>2, <1>4, <1>5, <3>1, <3>2 DEF ThreadInv
    <3>4. Part(u)' = Part(u)
      BY <1>3, <3>1 DEF Part, JobOf
    <3> QED BY <1>4, <3>1, <3>3, <3>4 DEF GuardInv
  <2> QED BY <2>1, <2>2
<1>12. \A j \in Jobs : j = work[w].job => JobInv(j)'
  <2>1. next' = next /\ next \in Nat /\ work[w].job \in Nat
    BY <1>1, <1>2 DEF Typed, Jobs
  <2> QED BY <1>1, <1>4, <2>1 DEF JobInv
<1>13. next' = next /\ process' = "alive"
  OBVIOUS
<1> QED BY <1>1, <1>2, <1>6, <1>7, <1>8, <1>9, <1>10, <1>11, <1>12, <1>13, StepKeeps DEF Own

LEMMA TileLeaves ==
    ASSUME IInv, process = "alive", NEW t \in Threads,
           TileEnds(t) \/ TileIsNull(t) \/ ThrowFromTile(t) \/ (MayGoWrong(t) /\ TileFault(t))
    PROVE  IInv'
<1>1. doing[t] = "tile"
  <2>1. CASE MayGoWrong(t) /\ TileFault(t)
    BY <2>1 DEF IInv, ThreadInv, TileFault
  <2> QED BY <2>1 DEF TileEnds, TileIsNull, ThrowFromTile
<1>2. tls \in [Threads -> TLS] /\ tls[t] \in TLS /\ GuardInv(t)
  BY DEF IInv, Typed
<1>3. /\ Catch(tls[t]) \in TLS /\ Catch(Unlimit(tls[t])) \in TLS
  <2>1. Nowhere \in (0..NJobs) \X Parts
    BY Sizes DEF Nowhere
  <2>2. Unlimit(tls[t]) \in TLS
    BY <1>2, <2>1 DEF Unlimit, TLS
  <2>3. \A l \in TLS : Catch(l) \in TLS
    BY DEF Catch, TLS
  <2> QED BY <1>2, <2>2, <2>3
<1>4. /\ [tls EXCEPT ![t] = Catch(tls[t])] \in [Threads -> TLS]
      /\ [tls EXCEPT ![t] = Catch(Unlimit(tls[t]))] \in [Threads -> TLS]
  BY <1>2, <1>3
<1>5. tls' \in [Threads -> TLS] /\ \A u \in Threads : u # t => tls'[u] = tls[u]
  <2>1. \/ tls' = tls \/ tls' = [tls EXCEPT ![t] = Catch(tls[t])]
        \/ tls' = [tls EXCEPT ![t] = Catch(Unlimit(tls[t]))]
    BY DEF TileEnds, TileIsNull, ThrowFromTile, TileFault
  <2> QED BY <1>2, <1>4, <2>1
<1>6. CASE TileEnds(t)
  <2> DEFINE n == IF tls[t].damaged THEN 1 ELSE 0
  <2>1. LeaveTile(t, n) /\ UNCHANGED <<o, next, process>>
        /\ noticed' = IF tls[t].damaged THEN noticed \cup {JobOf(t)} ELSE noticed
    BY <1>6 DEF TileEnds, NoticeMark
  <2>2. n \in {0, 1} /\ (n = 1 <=> tls[t].damaged)
    OBVIOUS
  <2>3. n = 1 => Part(t) \in o.bad
    BY <1>1, <1>2, <2>2 DEF GuardInv
  <2>4. noticed' = noticed \/ (n = 1 /\ noticed' = noticed \cup {JobOf(t)})
    BY <2>1, <2>2
  <2> HIDE DEF n
  <2> QED BY <1>1, <1>5, <2>1, <2>2, <2>3, <2>4, LeaveTileKeeps
<1>7. CASE TileIsNull(t)
  BY <1>1, <1>5, <1>7, LeaveTileKeeps DEF TileIsNull
<1>8. CASE ThrowFromTile(t)
  <2>1. LeaveTile(t, 0) /\ UNCHANGED <<o, next, process>> /\ noticed' = noticed
    BY <1>8 DEF ThrowFromTile
  <2>2. \E n \in {0, 1} : n = 0
    OBVIOUS
  <2> QED BY <1>1, <1>5, <2>1, <2>2, LeaveTileKeeps
<1>9. CASE MayGoWrong(t) /\ TileFault(t)
  BY <1>1, <1>5, <1>9, LeaveTileKeeps DEF TileFault, MayGoWrong
<1> QED BY <1>6, <1>7, <1>8, <1>9

LEMMA TileBeginsKeeps ==
    ASSUME IInv, process = "alive", NEW t \in Threads, TileBegins(t)
    PROVE  IInv'
<1> DEFINE w == t[1]
           m == Worker(w)
           i == work[w].claimed + 1
           part == <<work[w].job, i>>
<1>1. /\ doing[t] = (IF o.helpers = 1 THEN "pool" ELSE "idle")
      /\ t \in Helpers(w) /\ doing[m] = "pool" /\ work[w].claimed < NTiles
      /\ work' = [work EXCEPT ![w].claimed = i]
      /\ tile' = [tile EXCEPT ![t] = i]
      /\ tls' = [tls EXCEPT ![t] = Limit(Try(@, part), part)]
      /\ doing' = [doing EXCEPT ![t] = "tile"]
      /\ UNCHANGED <<o, next, buffer, result, noticed, process>>
  BY DEF TileBegins, Claimable, JobOf
<1>2. /\ Typed /\ Threads' = Threads /\ Workers' = Workers /\ m' = m
      /\ work \in [Workers -> [job : 0..NJobs, claimed : 0..NTiles, nfail : Nat]]
      /\ \A j \in Jobs : JobInv(j)
      /\ \A u \in Threads : ThreadInv(u) /\ GuardInv(u)
      /\ w \in Workers
  BY <1>1, ThreadsOfWorkers DEF IInv, Typed, Threads, Workers, Worker
<1>3. /\ m \in Threads /\ m[1] = w /\ m[2] = 0 /\ work[w].job \in Jobs /\ work[w].job # 0
      /\ work[w].job < next /\ result[work[w].job] = "pending"
      /\ WorkerInv(w) /\ BlameInv(w) /\ ClaimInv(w)
  BY <1>1, <1>2, AtWork
<1>4. /\ o.helpers = 1 => t = m
      /\ o.helpers # 1 => t[2] # 0 /\ t[2] \in Nat
  BY <1>1, <1>2, Sizes DEF Helpers, Typed
<1>5. /\ work[w].job \in 0..NJobs /\ i \in 1..NTiles /\ i # 0 /\ i \in Tiles /\ i \in Parts
      /\ work[w].claimed \in Nat /\ work[w].nfail \in Nat
      /\ part \in (0..NJobs) \X Parts
  <2>1. work[w].claimed \in 0..NTiles /\ work[w].nfail \in Nat /\ work[w].job \in 0..NJobs
    BY <1>2
  <2>2. i \in 1..NTiles /\ i # 0 /\ work[w].claimed \in Nat
    BY <1>1, <2>1, Sizes
  <2> QED BY <2>1, <2>2 DEF Parts, Tiles
<1>6. /\ work'[w].job = work[w].job /\ work'[w].claimed = i /\ work'[w].nfail = work[w].nfail
      /\ \A x \in Workers \ {w} : work'[x] = work[x]
      /\ work' \in [Workers -> [job : 0..NJobs, claimed : 0..NTiles, nfail : Nat]]
  <2>1. i \in 0..NTiles
    BY <1>5
  <2> HIDE DEF w, i
  <2> QED BY <1>1, <1>2, <2>1
<1>7. /\ tls' \in [Threads -> TLS] /\ \A u \in Threads : u # t => tls'[u] = tls[u]
      /\ tls'[t].armed /\ tls'[t].target = part /\ tls'[t].limit = part /\ ~tls'[t].damaged
  <2> DEFINE l == Limit(Try(tls[t], part), part)
  <2>1. tls \in [Threads -> TLS] /\ tls[t] \in TLS
    BY <1>2 DEF Typed
  <2>2. /\ Try(tls[t], part) \in TLS /\ Try(tls[t], part).armed /\ Try(tls[t], part).target = part
    BY <1>5, <2>1 DEF Try, TLS
  <2>3. l \in TLS /\ l.armed /\ l.target = part /\ l.limit = part /\ ~l.damaged
    BY <1>5, <2>2 DEF Limit, TLS
  <2>4. tls' = [tls EXCEPT ![t] = l]
    BY <1>1
  <2> HIDE DEF l, part, w, i
  <2> QED BY <2>1, <2>3, <2>4
<1>8. /\ \A u \in Threads : u # t => doing'[u] = doing[u] /\ tile'[u] = tile[u]
      /\ doing'[t] = "tile" /\ tile'[t] = i
      /\ doing' \in [Threads -> {"idle", "image", "decode", "stream", "pool", "tile"}]
      /\ tile' \in [Threads -> Parts]
  BY <1>1, <1>2, <1>5 DEF Typed
<1>9. doing'[m] \in {"pool", "tile"}
  BY <1>1, <1>3, <1>8
<1>10. Typed'
  BY <1>1, <1>2, <1>6, <1>7, <1>8 DEF Typed
<1>11. Footprint(w)
  BY <1>1, <1>6, <1>7, <1>8 DEF Footprint
<1>12. WorkerInv(w)'
  BY <1>1, <1>2, <1>3, <1>6, <1>9 DEF WorkerInv
<1>13. BlameInv(w)'
  BY <1>1, <1>2, <1>3, <1>6, <1>9 DEF BlameInv
<1>14. ClaimInv(w)'
  <2>1. IsFiniteSet(Decoding(w)) /\ t \notin Decoding(w)
    <3>1. IsFiniteSet(Decoding(w))
      BY <1>2, DecodingFinite DEF Typed
    <3> QED BY <1>1, <3>1 DEF Decoding
  <2>2. Decoding(w)' = Decoding(w) \cup {t}
    BY <1>2, <1>8 DEF Decoding
  <2>3. Cardinality(Decoding(w)') = Cardinality(Decoding(w)) + 1 /\ Cardinality(Decoding(w)) \in Nat
    BY <2>1, <2>2, FS_AddElement, FS_CardinalityType
  <2>4. Cardinality(Decoding(w))' = Cardinality(Decoding(w)')
    OBVIOUS
  <2> QED BY <1>2, <1>3, <1>5, <1>6, <1>9, <2>3, <2>4 DEF ClaimInv
<1>15. \A u \in Threads : u[1] = w => ThreadInv(u)' /\ GuardInv(u)'
  <2> SUFFICES ASSUME NEW u \in Threads, u[1] = w PROVE ThreadInv(u)' /\ GuardInv(u)'
    OBVIOUS
  <2>1. CASE u = t
    <3>1. Part(t)' = part
      BY <1>6, <1>8 DEF Part, JobOf
    <3>2. o.helpers # 1 => doing'[m] = "pool"
      BY <1>1, <1>3, <1>4, <1>8
    <3>3. ThreadInv(t)'
      <4>1. o' = o /\ Whole = 0 /\ m' = m
        BY <1>1, <1>2 DEF Whole
      <4>2. t[2] \in Nat
        BY <1>2, ThreadsOfWorkers DEF Typed
      <4>3. o.helpers = 1 => t[2] = 0
        BY <1>3, <1>4
      <4>4. o.helpers # 1 => t[2] > 0
        BY <1>4, <4>2
      <4> QED BY <1>5, <1>8, <3>2, <4>1, <4>3, <4>4 DEF ThreadInv
    <3>4. GuardInv(t)'
      BY <1>7, <3>1 DEF GuardInv
    <3> QED BY <2>1, <3>3, <3>4
  <2>2. CASE u # t
    <3>1. doing'[u] = doing[u] /\ tile'[u] = tile[u] /\ tls'[u] = tls[u] /\ ThreadInv(u) /\ GuardInv(u)
      BY <1>2, <1>7, <1>8, <2>2
    <3>2. doing[u] = "tile" => o.helpers # 1
      <4> SUFFICES ASSUME doing[u] = "tile", o.helpers = 1 PROVE FALSE
        OBVIOUS
      <4>1. u[2] = 0 /\ t = m
        BY <1>4, <3>1 DEF ThreadInv
      <4> QED BY <1>2, <2>2, <4>1, ThreadsOfWorkers DEF Typed
    <3>3. o.helpers # 1 => doing'[m] = "pool"
      BY <1>1, <1>3, <1>4, <1>8
    <3>4. ThreadInv(u)'
      BY <1>1, <1>2, <3>1, <3>2, <3>3 DEF ThreadInv
    <3>5. Part(u)' = Part(u)
      BY <1>6, <3>1 DEF Part, JobOf
    <3> QED BY <1>1, <3>1, <3>4, <3>5 DEF GuardInv
  <2> QED BY <2>1, <2>2
<1>16. \A j \in Jobs : j = work[w].job => JobInv(j)'
  <2>1. next' = next /\ next \in Nat /\ work[w].job \in Nat
    BY <1>1, <1>2, <1>3, Sizes DEF Typed, Jobs
  <2> QED BY <1>1, <1>3, <2>1 DEF JobInv
<1> QED BY <1>1, <1>2, <1>10, <1>11, <1>12, <1>13, <1>14, <1>15, <1>16, StepKeeps DEF Own

\* The mark is set: of a thread that reads a stream that is damaged.
LEMMA RunsPastKeeps ==
    ASSUME IInv, process = "alive", NEW t \in Threads, RunsPast(t)
    PROVE  IInv'
<1>1. /\ doing[t] \in {"stream", "tile"} /\ Part(t) \in o.bad
      /\ tls' = [tls EXCEPT ![t].damaged = TRUE]
      /\ UNCHANGED <<o, next, work, doing, tile, buffer, result, noticed, process>>
  BY DEF RunsPast
<1>2. /\ tls \in [Threads -> TLS] /\ Typed /\ OwnJobs
      /\ \A w \in Workers : WorkerInv(w) /\ BlameInv(w) /\ ClaimInv(w)
      /\ \A u \in Threads : ThreadInv(u) /\ GuardInv(u)
      /\ \A j \in Jobs : JobInv(j)
      /\ Threads' = Threads /\ Workers' = Workers
  BY <1>1 DEF IInv, Typed, Threads, Workers
<1>3. /\ tls' \in [Threads -> TLS]
      /\ \A u \in Threads : /\ tls'[u].armed = tls[u].armed
                            /\ tls'[u].target = tls[u].target /\ tls'[u].limit = tls[u].limit
                            /\ u # t => tls'[u] = tls[u]
  <2>1. [tls[t] EXCEPT !.damaged = TRUE] \in TLS
    BY <1>2 DEF TLS
  <2>2. tls' = [tls EXCEPT ![t] = [tls[t] EXCEPT !.damaged = TRUE]]
    BY <1>1
  <2>3. tls' \in [Threads -> TLS]
    BY <1>2, <2>1, <2>2
  <2> QED BY <1>2, <2>1, <2>2, <2>3 DEF TLS
<1>4. \A w \in Workers : Worker(w) \in Threads
  BY <1>2, ThreadsOfWorkers DEF Typed
<1>5. Typed' /\ OwnJobs'
  BY <1>1, <1>2, <1>3 DEF Typed, OwnJobs
<1>6. \A w \in Workers : WorkerInv(w)' /\ BlameInv(w)' /\ ClaimInv(w)'
  <2> SUFFICES ASSUME NEW w \in Workers PROVE WorkerInv(w)' /\ BlameInv(w)' /\ ClaimInv(w)'
    OBVIOUS
  <2>1. WorkerInv(w)'
    BY <1>1, <1>2 DEF WorkerInv, Worker
  <2>2. BlameInv(w)'
    BY <1>1, <1>2, <1>3, <1>4 DEF BlameInv, Worker
  <2>3. ClaimInv(w)'
    BY <1>1, <1>2 DEF ClaimInv, Worker, Decoding
  <2> QED BY <2>1, <2>2, <2>3
<1>7. \A u \in Threads : ThreadInv(u)' /\ GuardInv(u)'
  <2> SUFFICES ASSUME NEW u \in Threads PROVE ThreadInv(u)' /\ GuardInv(u)'
    OBVIOUS
  <2>1. ThreadInv(u) /\ GuardInv(u) /\ Part(u)' = Part(u)
    BY <1>1, <1>2 DEF Part, JobOf
  <2>2. ThreadInv(u)'
    BY <1>1, <2>1 DEF ThreadInv, Worker
  <2>3. GuardInv(u)'
    BY <1>1, <1>3, <2>1 DEF GuardInv
  <2> QED BY <2>2, <2>3
<1>8. \A j \in Jobs : JobInv(j)'
  BY <1>1, <1>2 DEF JobInv
<1>9. OnlyImagesKill'
  BY <1>1 DEF OnlyImagesKill
<1> QED BY <1>2, <1>5, <1>6, <1>7, <1>8, <1>9 DEF IInv

\* The process ends with a fault or an exception that no guard takes.
LEMMA EndsKeep ==
    ASSUME IInv, NEW t \in Threads, NEW how \in {"killed", "wild", "terminated"}, EndAs(how), MayGoWrong(t),
           how = "killed" => ~tls[t].armed,
           how = "wild" => tls[t].armed /\ tls[t].target \notin Live(t)
    PROVE  IInv'
<1> DEFINE w == t[1]
<1>1. /\ UNCHANGED <<o, next, work, doing, tile, tls, buffer, result, noticed>>
      /\ process' = how /\ doing[t] \in {"image", "decode", "stream", "tile"} /\ Part(t) \in o.bad
  BY DEF EndAs, MayGoWrong
<1>2. /\ ThreadInv(t) /\ GuardInv(t) /\ BlameInv(w) /\ w \in Workers
      /\ JobOf(t) = work[w].job /\ work[w].job # 0
      /\ t[2] # 0 => doing[t] = "tile"
      /\ t[2] = 0 => t = Worker(w)
  BY <1>1, AtThread
<1>3. Part(t) \in Live(t)
  BY <1>2 DEF Part, Live
<1>4. how \in {"killed", "wild"} => doing[t] = "image"
  BY <1>1, <1>2, <1>3 DEF GuardInv, Reading
<1>5. doing[t] = "image" => t = Worker(w) /\ <<JobOf(t), Whole>> \in o.bad
  BY <1>1, <1>2 DEF ThreadInv, Part
<1>6. how = "wild" => \E j \in Jobs : result[j] = "lost"
  BY <1>2, <1>4, <1>5 DEF BlameInv
<1>7. OnlyImagesKill'
  <2>1. Threads' = Threads /\ JobOf(t)' = JobOf(t)
    BY <1>1 DEF Threads, Workers, JobOf
  <2>2. how \in {"killed", "wild"} => \E u \in Threads' : doing'[u] = "image" /\ <<JobOf(u)', Whole>> \in o'.bad
    BY <1>1, <1>4, <1>5, <2>1
  <2> QED BY <1>1, <1>6, <2>2 DEF OnlyImagesKill
<1>8. Threads' = Threads /\ Workers' = Workers
  BY <1>1 DEF Threads, Workers
<1>9. Typed' /\ OwnJobs'
  BY <1>1, <1>8 DEF IInv, Typed, OwnJobs
<1>10. \A x \in Workers : WorkerInv(x)' /\ BlameInv(x)' /\ ClaimInv(x)'
  <2> TAKE x \in Workers
  <2>0. WorkerInv(x) /\ BlameInv(x) /\ ClaimInv(x)
    BY DEF IInv
  <2>1. WorkerInv(x)'
    BY <1>1, <2>0 DEF WorkerInv, Worker
  <2>2. BlameInv(x)'
    BY <1>1, <2>0 DEF BlameInv, Worker
  <2>3. ClaimInv(x)'
    BY <1>1, <1>8, <2>0 DEF ClaimInv, Decoding, Worker
  <2> QED BY <2>1, <2>2, <2>3
<1>11. \A u \in Threads : ThreadInv(u)' /\ GuardInv(u)'
  <2> TAKE u \in Threads
  <2>0. ThreadInv(u) /\ GuardInv(u)
    BY DEF IInv
  <2>1. ThreadInv(u)'
    BY <1>1, <2>0 DEF ThreadInv, Worker
  <2>2. GuardInv(u)'
    BY <1>1, <2>0 DEF GuardInv, Part, JobOf
  <2> QED BY <2>1, <2>2
<1>12. \A j \in Jobs : JobInv(j)'
  BY <1>1 DEF IInv, JobInv
<1> QED BY <1>7, <1>8, <1>9, <1>10, <1>11, <1>12 DEF IInv

\* The jump back to processFile is of a worker that decodes no tile.
LEMMA FileJumpKeeps ==
    ASSUME IInv, process = "alive", NEW t \in Threads, MayGoWrong(t), FileFault(t), tls[t].armed
    PROVE  IInv'
<1> DEFINE w == t[1]
<1>1. /\ doing[t] \in {"image", "decode", "stream", "tile"} /\ Part(t) \in o.bad
      /\ tls[t].target = <<JobOf(t), Whole>>
      /\ Finish(w, "failed", tls[t]) /\ noticed' = noticed \cup {JobOf(t)}
  BY DEF MayGoWrong, FileFault
<1>2. /\ ThreadInv(t) /\ GuardInv(t) /\ w \in Workers /\ JobOf(t) = work[w].job
      /\ t[2] # 0 => doing[t] = "tile"
      /\ t[2] = 0 => t = Worker(w)
  BY <1>1, AtThread
<1>3. doing[t] # "tile"
  BY <1>1, <1>2 DEF GuardInv, ThreadInv, Part, Reading
<1>4. t = Worker(w) /\ tile[t] = Whole /\ doing[Worker(w)] # "idle" /\ tls[t] \in TLS
  BY <1>1, <1>2, <1>3 DEF ThreadInv, IInv, Typed
<1>5. Whole \in Parts /\ <<work[w].job, Whole>> \in o.bad
  BY <1>1, <1>2, <1>4, Sizes DEF Part
<1> QED BY <1>1, <1>2, <1>4, <1>5, FinishKeeps

LEMMA ThrowKeeps ==
    ASSUME IInv, process = "alive", NEW t \in Threads, ThrowFromFile(t)
    PROVE  IInv'
<1> DEFINE w == t[1]
<1>1. /\ doing[t] # "idle" /\ Leave(w, "lost") /\ UNCHANGED <<o, next, tls, buffer, noticed, process>>
  BY DEF ThrowFromFile, MayGoWrong
<1>2. w \in Workers /\ work[w].job # 0
  BY <1>1, AtThread
<1>3. tls \in [Threads -> TLS] /\ buffer \in [Jobs -> {"none", "held", "freed"}]
  BY DEF IInv, Typed
<1>4. \E outcome \in {"ok", "failed", "lost"} : outcome = "lost"
  OBVIOUS
<1> QED BY <1>1, <1>2, <1>3, <1>4, LeaveKeeps

-----------------------------------------------------------------------------
(* The invariant and what it says.                                         *)

LEMMA InitIInv == Init => IInv
<1> SUFFICES ASSUME Init PROVE IInv
  OBVIOUS
<1> USE DEF Init
<1>1. /\ \A w \in Workers : work[w] = NoWork /\ Worker(w) \in Threads
      /\ NoWork \in [job : 0..NJobs, claimed : 0..NTiles, nfail : Nat]
      /\ FreshTLS \in TLS
  BY ThreadsOfWorkers, Sizes DEF NoWork, FreshTLS, TLS, Nowhere
<1>2. Typed
  BY <1>1, Sizes DEF Typed
<1>3. OwnJobs
  BY <1>1 DEF OwnJobs, NoWork
<1>4. \A w \in Workers : WorkerInv(w) /\ BlameInv(w)
  BY <1>1 DEF WorkerInv, BlameInv, NoWork, FreshTLS
<1>5. \A w \in Workers : ClaimInv(w)
  <2>1. \A w \in Workers : Decoding(w) = {}
    BY DEF Decoding
  <2> QED BY <1>1, <2>1, FS_EmptySet DEF ClaimInv, NoWork
<1>6. \A t \in Threads : ThreadInv(t) /\ GuardInv(t)
  BY DEF ThreadInv, GuardInv, Reading
<1>7. \A j \in Jobs : JobInv(j)
  BY DEF JobInv
<1>8. OnlyImagesKill
  BY DEF OnlyImagesKill
<1> QED BY <1>2, <1>3, <1>4, <1>5, <1>6, <1>7, <1>8 DEF IInv

LEMMA StutterKeeps == IInv /\ UNCHANGED vars => IInv'
<1> SUFFICES ASSUME IInv, UNCHANGED vars PROVE IInv'
  OBVIOUS
<1> USE DEF vars
<1>1. Threads' = Threads /\ Workers' = Workers
  BY DEF Threads, Workers
<1>2. Typed' /\ OwnJobs'
  BY <1>1 DEF IInv, Typed, OwnJobs
<1>3. \A x \in Workers : WorkerInv(x)' /\ BlameInv(x)' /\ ClaimInv(x)'
  BY <1>1 DEF IInv, WorkerInv, BlameInv, ClaimInv, Decoding, Worker
<1>4. \A u \in Threads : ThreadInv(u)' /\ GuardInv(u)'
  BY <1>1 DEF IInv, ThreadInv, GuardInv, Part, JobOf, Worker
<1>5. \A j \in Jobs : JobInv(j)'
  BY DEF IInv, JobInv
<1>6. OnlyImagesKill'
  BY <1>1 DEF IInv, OnlyImagesKill, JobOf
<1> QED BY <1>1, <1>2, <1>3, <1>4, <1>5, <1>6 DEF IInv

LEMMA NextIInv == IInv /\ [Next]_vars => IInv'
<1> SUFFICES ASSUME IInv, [Next]_vars PROVE IInv'
  OBVIOUS
<1>1. CASE UNCHANGED vars \/ Terminated
  BY <1>1, StutterKeeps DEF Terminated
<1>2. ASSUME process = "alive", NEW w \in Workers, WorkerSteps(w) PROVE IInv'
  BY <1>2, WorkerLeaves, WorkerTakes, DecodeBegins DEF WorkerSteps
<1>3. ASSUME process = "alive", NEW t \in Threads, ThreadSteps(t) PROVE IInv'
  <2>1. CASE RunsPast(t)
    BY <1>3, <2>1, RunsPastKeeps
  <2>2. CASE TileBegins(t)
    BY <1>3, <2>2, TileBeginsKeeps
  <2>3. CASE TileEnds(t) \/ TileIsNull(t) \/ ThrowFromTile(t)
    BY <1>3, <2>3, TileLeaves
  <2>4. CASE Fault(t)
    <3>1. MayGoWrong(t)
      BY <2>4 DEF Fault
    <3>2. CASE tls[t].armed /\ FileFault(t)
      BY <1>3, <3>1, <3>2, FileJumpKeeps
    <3>3. CASE tls[t].armed /\ TileFault(t)
      BY <1>3, <3>1, <3>3, TileLeaves
    <3>4. CASE tls[t].armed /\ tls[t].target \notin Live(t) /\ EndAs("wild")
      BY <3>1, <3>4, EndsKeep
    <3>5. CASE ~tls[t].armed /\ EndAs("killed")
      BY <3>1, <3>5, EndsKeep
    <3> QED BY <2>4, <3>2, <3>3, <3>4, <3>5 DEF Fault
  <2>5. CASE ThrowFromFile(t)
    BY <1>3, <2>5, ThrowKeeps
  <2>6. CASE ThrowFromMain(t)
    BY <2>6, EndsKeep DEF ThrowFromMain
  <2> QED BY <1>3, <2>1, <2>2, <2>3, <2>4, <2>5, <2>6 DEF ThreadSteps
<1> QED BY <1>1, <1>2, <1>3 DEF Next

\* In every reachable state: the bookkeeping of workers, pools, guards and
\* mappings agree.
THEOREM Invariant == Spec => []IInv
BY InitIInv, NextIInv, PTL DEF Spec

\* A thread that reads a stream is armed, would jump to the guard around just
\* that read and has the end of that stream as its limit, and the file is
\* mapped: FAULT_TRY, FAULT_CATCH and the limit of the decoder, on however
\* many threads.
THEOREM ReadsAreGuarded == Spec => []Guarded
<1>1. IInv => Guarded
  <2> SUFFICES ASSUME IInv PROVE Guarded
    OBVIOUS
  <2>1. work \in [Workers -> [job : 0..NJobs, claimed : 0..NTiles, nfail : 0..NTiles]]
    <3>1. work \in [Workers -> [job : 0..NJobs, claimed : 0..NTiles, nfail : Nat]] /\ o \in Options
      BY DEF IInv, Typed
    <3>2. ASSUME NEW w \in Workers PROVE work[w].nfail \in 0..NTiles
      <4>1. IsFiniteSet(Decoding(w))
        BY <3>1, DecodingFinite
      <4>2. Cardinality(Decoding(w)) \in Nat
        BY <4>1, FS_CardinalityType
      <4>3. /\ work[w].nfail + Cardinality(Decoding(w)) <= work[w].claimed
            /\ work[w].nfail \in Nat /\ work[w].claimed \in 0..NTiles
        BY <3>1 DEF IInv, ClaimInv
      <4> QED BY <4>2, <4>3, Sizes
    <3> QED BY <3>1, <3>2
  <2>2. TypeOK
    <3>1. \A t \in Threads : /\ tls[t].armed \in BOOLEAN /\ tls[t].damaged \in BOOLEAN
                             /\ {tls[t].target, tls[t].limit} \subseteq (0..NJobs) \X ({Whole} \cup Tiles)
      BY DEF IInv, Typed, TLS, Parts
    <3> QED BY <2>1, <3>1 DEF TypeOK, IInv, Typed, Parts
  <2>3. ASSUME NEW t \in Threads, doing[t] \in Reading PROVE buffer[JobOf(t)] = "held"
    <3>1. /\ t[1] \in Workers /\ WorkerInv(t[1]) /\ ThreadInv(t) /\ JobOf(t) = work[t[1]].job
          /\ (t[2] = 0 => t = Worker(t[1]))
          /\ t[2] \in Nat
      BY <2>3, AtThread, ThreadsOfWorkers DEF Reading, IInv, Typed
    <3>2. doing[Worker(t[1])] \in {"decode", "stream", "pool", "tile"}
      BY <2>3, <3>1 DEF ThreadInv, Reading
    <3> QED BY <3>1, <3>2 DEF WorkerInv
  <2> QED BY <2>2, <2>3 DEF Guarded, IInv, GuardInv, Reading
<1> QED BY <1>1, Invariant, PTL

\* The handler leaves the process to die only of an image, and goes astray
\* only after an exception left a thread armed.
THEOREM DamageDoesNotKill == Spec => []OnlyImagesKill
<1>1. IInv => OnlyImagesKill
  BY DEF IInv
<1> QED BY <1>1, Invariant, PTL

\* What the batch is told of a stream: a failure if damage was found, and no
\* failure without damage (nfail, nbliRansDamaged and the jumps together).
THEOREM BlameHolds == Spec => []BlameIsRight
<1>1. IInv => BlameIsRight
  BY DEF IInv, JobInv, BlameIsRight, Parts
<1> QED BY <1>1, Invariant, PTL

\* The GuardedBuffer of a stream lives as long as its decode.
THEOREM MappingLivesAsLongAsTheDecode == Spec => []MappingReleased
<1>1. IInv => MappingReleased
  <2> SUFFICES ASSUME IInv, NEW j \in Jobs, o.kind[j] # "image", NEW w \in Workers, work[w].job = j
               PROVE  buffer[j] = "held"
    BY DEF IInv, JobInv, MappingReleased
  <2>1. WorkerInv(w) /\ j # 0 /\ Worker(w) \in Threads
        /\ doing \in [Threads -> {"idle", "image", "decode", "stream", "pool", "tile"}]
    BY Sizes, ThreadsOfWorkers DEF IInv, Typed
  <2> QED BY <2>1 DEF WorkerInv
<1> QED BY <1>1, Invariant, PTL
=============================================================================
