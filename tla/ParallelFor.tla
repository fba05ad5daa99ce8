----------------------------- MODULE ParallelFor -----------------------------
(***************************************************************************)
(* ParallelFor::run (ThreadPool.h): fn(0) .. fn(N-1) on at most NThread    *)
(* threads.  Every worker claims an index with an atomic fetch_add and     *)
(* leaves when the claimed index is N or more; the caller joins them all.  *)
(* An exception of fn is swallowed by the worker's catch (...), but it     *)
(* reaches the caller when the loop runs inline on the caller's thread.    *)
(***************************************************************************)
EXTENDS Integers

CONSTANTS
    N,            \* number of indices
    NThread,      \* the n_thread argument, 0 = defaultThreadCount()
    HwThreads,    \* std::thread::hardware_concurrency(), 0 = unknown
    Quota,        \* CPU time quota of the cgroup and its period,
    Period,       \*   0 or less when unlimited or unreadable
    MayThrow,     \* the indices whose fn may throw
    SpawnMayFail, \* whether creating a thread may throw std::system_error
    None          \* "no thread", "no index"

ASSUME PoolAssumption ==
    /\ N \in Nat
    /\ NThread \in Nat
    /\ HwThreads \in Nat
    /\ Quota \in Int
    /\ Period \in Int
    /\ MayThrow \subseteq 0..(N - 1)
    /\ SpawnMayFail \in BOOLEAN
    /\ None \notin Int

\* The number of CPUs the cgroup lets the process use, rounded up; 0 = no limit.
CgroupCpuLimit ==
    IF Quota <= 0 \/ Period <= 0 THEN 0 ELSE (Quota + Period - 1) \div Period

DefaultThreadCount ==
    LET hw == IF HwThreads = 0 THEN 1 ELSE HwThreads
    IN  IF CgroupCpuLimit # 0 /\ CgroupCpuLimit < hw THEN CgroupCpuLimit ELSE hw

Wanted == IF NThread = 0 THEN DefaultThreadCount ELSE NThread
NT == IF Wanted < N THEN Wanted ELSE N      \* size_t nt

Indices == 0..(N - 1)
Workers == 0..(NT - 1)

VARIABLES
    pc,        \* the caller: entry, inline, spawn, join or how run() ended
    k,         \* the caller's loop counter
    next,      \* std::atomic<size_t> next
    worker,    \* worker[t]: where thread t is in its loop
    claim,     \* claim[t]: the index thread t holds
    calls,     \* calls[i]: how often fn(i) was called
    ended,     \* ended[i]: how fn(i) ended
    mtx        \* the owner of the mutex taken in catch (...)

poolVars == <<pc, k, next, worker, claim, calls, ended, mtx>>

PoolTypeOK ==
    /\ pc \in {"entry", "inline", "spawn", "join", "returned", "raised", "aborted"}
    /\ k \in 0..N
    /\ next \in Nat
    /\ worker \in [Workers -> {"unborn", "fetch", "call", "infn", "catch", "locked", "exited"}]
    /\ claim \in [Workers -> Indices \cup {None}]
    /\ calls \in [Indices -> Nat]
    /\ ended \in [Indices -> {"no", "ok", "threw"}]
    /\ mtx \in Workers \cup {None}

PoolInit ==
    /\ pc = "entry"
    /\ k = 0
    /\ next = 0
    /\ worker = [t \in Workers |-> "unborn"]
    /\ claim = [t \in Workers |-> None]
    /\ calls = [i \in Indices |-> 0]
    /\ ended = [i \in Indices |-> "no"]
    /\ mtx = None

-----------------------------------------------------------------------------
(* The caller.                                                             *)

Enter ==
    /\ pc = "entry"
    /\ pc' = IF N = 0 THEN "returned" ELSE IF NT <= 1 THEN "inline" ELSE "spawn"
    /\ UNCHANGED <<k, next, worker, claim, calls, ended, mtx>>

InlineCall ==
    /\ pc = "inline"
    /\ k < N
    /\ calls[k] = 0
    /\ calls' = [calls EXCEPT ![k] = @ + 1]
    /\ UNCHANGED <<pc, k, next, worker, claim, ended, mtx>>

InlineDone ==
    /\ pc = "inline"
    /\ k < N
    /\ calls[k] = 1
    /\ ended' = [ended EXCEPT ![k] = "ok"]
    /\ k' = k + 1
    /\ UNCHANGED <<pc, next, worker, claim, calls, mtx>>

\* There is no try block around the inline loop.
InlineThrow ==
    /\ pc = "inline"
    /\ k \in MayThrow
    /\ calls[k] = 1
    /\ ended' = [ended EXCEPT ![k] = "threw"]
    /\ pc' = "raised"
    /\ UNCHANGED <<k, next, worker, claim, calls, mtx>>

InlineReturnAt(n) ==
    /\ pc = "inline"
    /\ k = n
    /\ pc' = "returned"
    /\ UNCHANGED <<k, next, worker, claim, calls, ended, mtx>>

InlineReturnEarly == InlineReturnAt(N - 1)    \* faulty: off by one

InlineReturn == InlineReturnAt(N)

Spawn ==
    /\ pc = "spawn"
    /\ k < NT
    /\ worker' = [worker EXCEPT ![k] = "fetch"]
    /\ k' = k + 1
    /\ UNCHANGED <<pc, next, claim, calls, ended, mtx>>

\* The std::thread constructor throws: unwinding destroys `ths`, and a vector
\* that holds a joinable thread ends the process (std::terminate).
SpawnFailsAs(outcome) ==
    /\ SpawnMayFail
    /\ pc = "spawn"
    /\ k < NT
    /\ pc' = outcome
    /\ UNCHANGED <<k, next, worker, claim, calls, ended, mtx>>

\* Faulty: the exception leaves run() although threads already work.
SpawnFailsRaises == SpawnFailsAs("raised")

SpawnFails == SpawnFailsAs(IF k = 0 THEN "raised" ELSE "aborted")

StartJoin ==
    /\ pc = "spawn"
    /\ k = NT
    /\ pc' = "join"
    /\ k' = 0
    /\ UNCHANGED <<next, worker, claim, calls, ended, mtx>>

JoinRound(exited, step) ==
    /\ pc = "join"
    /\ k < NT
    /\ exited
    /\ k' = k + step
    /\ UNCHANGED <<pc, next, worker, claim, calls, ended, mtx>>

\* Faulty variants: no waiting; the loop counter does not advance.
JoinDetached   == JoinRound(TRUE, 1)
JoinNoProgress == JoinRound(worker[k] = "exited", 0)

Join == JoinRound(worker[k] = "exited", 1)

JoinedAll ==
    /\ pc = "join"
    /\ k = NT
    /\ pc' = "returned"
    /\ UNCHANGED <<k, next, worker, claim, calls, ended, mtx>>

Caller ==
    \/ Enter \/ InlineCall \/ InlineDone \/ InlineThrow \/ InlineReturn
    \/ Spawn \/ SpawnFails \/ StartJoin \/ Join \/ JoinedAll

-----------------------------------------------------------------------------
(* A worker thread.  An aborted process takes no further step.             *)

\* One round of the loop up to the test, for a claim of index i.
Take(t, i, more) ==
    /\ pc # "aborted"
    /\ worker[t] = "fetch"
    /\ IF more
       THEN /\ worker' = [worker EXCEPT ![t] = "call"]
            /\ claim' = [claim EXCEPT ![t] = i]
       ELSE /\ worker' = [worker EXCEPT ![t] = "exited"]
            /\ claim' = [claim EXCEPT ![t] = None]
    /\ UNCHANGED <<pc, k, calls, ended, mtx>>

\* Faulty: no test of i >= n.
FetchUnchecked(t)  == Take(t, next, next <= N) /\ next' = next + 1

Fetch(t) ==
    /\ Take(t, next, next < N)
    /\ next' = next + 1

Call(t) ==
    /\ pc # "aborted"
    /\ worker[t] = "call"
    /\ worker' = [worker EXCEPT ![t] = "infn"]
    /\ calls' = [calls EXCEPT ![claim[t]] = @ + 1]
    /\ UNCHANGED <<pc, k, next, claim, ended, mtx>>

FnReturns(t) ==
    /\ pc # "aborted"
    /\ worker[t] = "infn"
    /\ worker' = [worker EXCEPT ![t] = "fetch"]
    /\ ended' = [ended EXCEPT ![claim[t]] = "ok"]
    /\ UNCHANGED <<pc, k, next, claim, calls, mtx>>

FnThrows(t) ==
    /\ pc # "aborted"
    /\ worker[t] = "infn"
    /\ claim[t] \in MayThrow
    /\ worker' = [worker EXCEPT ![t] = "catch"]
    /\ ended' = [ended EXCEPT ![claim[t]] = "threw"]
    /\ UNCHANGED <<pc, k, next, claim, calls, mtx>>

LockInCatch(t) ==
    /\ pc # "aborted"
    /\ worker[t] = "catch"
    /\ mtx = None
    /\ mtx' = t
    /\ worker' = [worker EXCEPT ![t] = "locked"]
    /\ UNCHANGED <<pc, k, next, claim, calls, ended>>

UnlockInCatch(t) ==
    /\ pc # "aborted"
    /\ worker[t] = "locked"
    /\ mtx' = None
    /\ worker' = [worker EXCEPT ![t] = "fetch"]
    /\ UNCHANGED <<pc, k, next, claim, calls, ended>>

Worker(t) ==
    \/ Fetch(t) \/ Call(t) \/ FnReturns(t) \/ FnThrows(t)
    \/ LockInCatch(t) \/ UnlockInCatch(t)

Over == pc \in {"returned", "raised", "aborted"}
PoolTerminated == Over /\ UNCHANGED poolVars

PoolNext == Caller \/ (\E t \in Workers : Worker(t)) \/ PoolTerminated

\* The operating system keeps running every thread, and fn comes to an end.
\* Nothing is asked of std::mutex: each worker throws finitely often, so the
\* mutex of the catch block is free for good in the end.
PoolFairness ==
    /\ WF_poolVars(Caller)
    /\ \A t \in Workers : WF_poolVars(Worker(t))

PoolSpec == PoolInit /\ [][PoolNext]_poolVars /\ PoolFairness

-----------------------------------------------------------------------------
(* Properties.                                                             *)

\* No index is handed out twice, however the fetch_adds of the workers
\* interleave (the loop "size_t i = next.fetch_add(1)").
AtMostOnce == \A i \in Indices : calls[i] <= 1

\* When run() returns, no thread is left inside fn and every index was
\* executed to its end, in whichever thread, thrown or not: processFile's
\* `blobs`, `nfail` and the decoded image are complete and nobody writes to
\* them any more.
DoneOnReturn ==
    pc = "returned" =>
        /\ \A t \in Workers : worker[t] \in {"unborn", "exited"}
        /\ \A i \in Indices : calls[i] = 1 /\ ended[i] # "no"

\* An exception leaves run() only when nothing is running any more, and the
\* indices after the one that threw were never started; with worker threads
\* that is possible only before the first one exists.
RaiseIsClean ==
    pc = "raised" =>
        /\ \A t \in Workers : worker[t] = "unborn"
        /\ \A i \in Indices : calls[i] = 1 => ended[i] # "no"
        /\ \A i \in Indices : i > k => calls[i] = 0

\* Every index below `next` that has not ended is in the hands of exactly one
\* live worker: an exception in one call loses no other index.
NoIndexLost ==
    pc \in {"spawn", "join"} =>
        \A i \in Indices :
            i < next /\ ended[i] = "no" =>
                \E t \in Workers :
                    /\ worker[t] \in {"call", "infn"}
                    /\ claim[t] = i
                    /\ \A u \in Workers \ {t} :
                          ~ (worker[u] \in {"call", "infn"} /\ claim[u] = i)

\* The pool never deadlocks or starves: run() comes to an end when fn does.
RunFinishes == <>Over

\* ParallelFor implements ForEach.
CallView == [i \in Indices |->
                IF calls[i] = 0 THEN "idle"
                ELSE IF ended[i] = "no" THEN "running" ELSE "over"]
CallerView == IF Over THEN pc ELSE "waiting"

FE == INSTANCE ForEach WITH Items <- Indices, call <- CallView, caller <- CallerView

ImplementsForEach == FE!FESafeSpec
=============================================================================
