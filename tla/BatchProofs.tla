----------------------------- MODULE BatchProofs -----------------------------
(***************************************************************************)
(* Safety of the pool of threads for every number of indices and threads. *)
(*                                                                         *)
(* Safety of a batch run for every number of jobs and threads, every set   *)
(* of file names and every command line: what the reporter shows, what is  *)
(* left on the console, and what becomes of the files.                     *)
(***************************************************************************)
EXTENDS ParallelFor, Batch, FiniteSetTheorems, TLAPS

-----------------------------------------------------------------------------
(* The pool.                                                               *)

Busy(t) == worker[t] \in {"call", "infn"}

\* Where the threads are in each phase of the caller.  NT <= 1 is the inline
\* loop, which has no thread.
PhaseInv ==
    /\ pc = "inline" => NT <= 1
    /\ pc \in {"spawn", "join", "aborted"} => NT > 1
    /\ NT <= 1 \/ pc \in {"entry", "raised"} => \A t \in Workers : worker[t] = "unborn"
    /\ pc = "spawn" => \A t \in Workers : t >= k <=> worker[t] = "unborn"
    /\ pc \in {"spawn", "join"} => k <= NT
    /\ pc = "join" => \A t \in Workers : worker[t] # "unborn"
    /\ pc = "join" => \A t \in Workers : t < k => worker[t] = "exited"
    /\ pc = "returned" /\ NT > 1 => \A t \in Workers : worker[t] = "exited"

\* What `next` and the claims say about the indices.
ClaimInv ==
    /\ \A t \in Workers : Busy(t) =>
          /\ claim[t] \in Indices
          /\ claim[t] < next
          /\ ended[claim[t]] = "no"
          /\ calls[claim[t]] = IF worker[t] = "call" THEN 0 ELSE 1
    /\ \A t, u \in Workers : Busy(t) /\ Busy(u) /\ t # u => claim[t] # claim[u]
    /\ \A t \in Workers : worker[t] = "exited" => next >= N
    /\ \A i \in Indices : calls[i] \in {0, 1} /\ (ended[i] # "no" => calls[i] = 1)
    /\ NT > 1 => \A i \in Indices : i >= next => calls[i] = 0
    /\ NT > 1 => \A i \in Indices : i < next /\ ended[i] = "no" =>
                    \E t \in Workers : Busy(t) /\ claim[t] = i
    /\ pc \in {"entry", "raised"} /\ NT > 1 => next = 0
    /\ pc = "spawn" /\ k = 0 => next = 0

\* The inline loop has executed exactly the indices below k.
InlineInv ==
    /\ pc = "entry" => k = 0 /\ \A i \in Indices : calls[i] = 0
    /\ NT <= 1 =>
          /\ \A i \in Indices : i < k => ended[i] # "no"
          /\ \A i \in Indices : i > k => calls[i] = 0
          /\ pc = "inline" => \A i \in Indices : i >= k => ended[i] = "no"
          /\ pc = "raised" => \A i \in Indices : calls[i] = 1 => ended[i] # "no"
          /\ pc = "returned" => k = N

PoolIInv == PoolTypeOK /\ PhaseInv /\ ClaimInv /\ InlineInv

-----------------------------------------------------------------------------

\* defaultThreadCount() answers at least one thread, and never more than the
\* hardware has.
THEOREM DefaultThreadCountBounds ==
    /\ DefaultThreadCount \in Nat \ {0}
    /\ HwThreads # 0 => DefaultThreadCount <= HwThreads
<1>1. CgroupCpuLimit \in Nat
  <2>1. CASE Quota <= 0 \/ Period <= 0
    BY <2>1 DEF CgroupCpuLimit
  <2>2. CASE ~ (Quota <= 0 \/ Period <= 0)
    <3>1. Quota \in Int /\ Period \in Int /\ Quota > 0 /\ Period > 0
      BY <2>2, PoolAssumption
    <3>2. (Quota + Period - 1) \div Period \in Nat
      BY <3>1, SMT
    <3> QED BY <3>2, <2>2 DEF CgroupCpuLimit
  <2> QED BY <2>1, <2>2
<1>2. HwThreads \in Nat
  BY PoolAssumption
<1> QED BY <1>1, <1>2 DEF DefaultThreadCount

LEMMA NTNat == N \in Nat /\ NT \in Nat /\ NT <= N
<1>1. Wanted \in Nat
  BY DefaultThreadCountBounds, PoolAssumption DEF Wanted
<1> QED BY <1>1, PoolAssumption DEF NT

LEMMA PoolInitIInv == PoolInit => PoolIInv
<1> SUFFICES ASSUME PoolInit PROVE PoolIInv
  OBVIOUS
<1> USE NTNat DEF PoolInit
<1>1. PoolTypeOK
  BY DEF PoolTypeOK
<1>2. PhaseInv
  BY DEF PhaseInv
<1>3. ClaimInv
  BY DEF ClaimInv, Busy, Indices, Workers
<1>4. InlineInv
  BY DEF InlineInv, Indices
<1> QED BY <1>1, <1>2, <1>3, <1>4 DEF PoolIInv

\* The steps of the caller keep the invariant.
LEMMA CallerIInv == PoolIInv /\ Caller => PoolIInv'
<1> SUFFICES ASSUME PoolIInv, Caller PROVE PoolIInv'
  OBVIOUS
<1> USE NTNat DEF PoolIInv, PoolTypeOK, PhaseInv, ClaimInv, InlineInv, Busy, Indices, Workers
<1>1. CASE Enter
  BY <1>1 DEF Enter
<1>2. CASE InlineCall
  BY <1>2 DEF InlineCall
<1>3. CASE InlineDone
  BY <1>3 DEF InlineDone
<1>4. CASE InlineThrow
  BY <1>4, PoolAssumption DEF InlineThrow
<1>5. CASE InlineReturn
  BY <1>5 DEF InlineReturn, InlineReturnAt
<1>6. CASE Spawn
  <2> USE <1>6 DEF Spawn
  <2>1. PoolTypeOK'
    OBVIOUS
  <2>2. PhaseInv'
    OBVIOUS
  <2>3. ClaimInv'
    OBVIOUS
  <2>4. InlineInv'
    OBVIOUS
  <2> QED BY <2>1, <2>2, <2>3, <2>4
<1>7. CASE SpawnFails
  BY <1>7 DEF SpawnFails, SpawnFailsAs
<1>8. CASE StartJoin
  BY <1>8 DEF StartJoin
<1>9. CASE Join
  BY <1>9 DEF Join, JoinRound
<1>10. CASE JoinedAll
  BY <1>10 DEF JoinedAll
<1> QED
  BY <1>1, <1>2, <1>3, <1>4, <1>5, <1>6, <1>7, <1>8, <1>9, <1>10 DEF Caller

\* A step that touches neither the indices nor the worker of a claim keeps
\* ClaimInv; `next` may grow once every index is claimed.
LEMMA ClaimsUntouched ==
    ASSUME PoolTypeOK, ClaimInv, next' \in Nat, UNCHANGED <<pc, k, calls, ended>>,
           next' = next \/ (next' > next /\ next >= N),
           ~ (pc \in {"entry", "raised"} \/ (pc = "spawn" /\ k = 0)) \/ next' = next,
           \A u \in Workers : Busy(u)' <=> Busy(u),
           \A u \in Workers : Busy(u) => worker'[u] = worker[u] /\ claim'[u] = claim[u],
           \A u \in Workers : worker'[u] = "exited" => worker[u] = "exited" \/ next >= N
    PROVE  ClaimInv'
<1> USE NTNat
<1>1. \A u \in Workers : Busy(u)' =>
          /\ claim'[u] \in Indices
          /\ claim'[u] < next'
          /\ ended'[claim'[u]] = "no"
          /\ calls'[claim'[u]] = IF worker'[u] = "call" THEN 0 ELSE 1
  <2> TAKE u \in Workers
  <2> HAVE Busy(u)'
  <2>1. Busy(u) /\ worker'[u] = worker[u] /\ claim'[u] = claim[u] /\ claim[u] \in Indices
    BY DEF ClaimInv
  <2>2. claim[u] < next'
    BY <2>1 DEF ClaimInv, Indices, PoolTypeOK
  <2> QED BY <2>1, <2>2 DEF ClaimInv
<1>2. \A t, u \in Workers : Busy(t)' /\ Busy(u)' /\ t # u => claim'[t] # claim'[u]
  BY DEF ClaimInv
<1>3. \A t \in Workers : worker'[t] = "exited" => next' >= N
  BY DEF ClaimInv, PoolTypeOK
<1>4. \A i \in Indices : calls'[i] \in {0, 1} /\ (ended'[i] # "no" => calls'[i] = 1)
  BY DEF ClaimInv
<1>5. NT > 1 => \A i \in Indices : i >= next' => calls'[i] = 0
  BY DEF ClaimInv, Indices, PoolTypeOK
<1>6. NT > 1 => \A i \in Indices : i < next' /\ ended'[i] = "no" =>
                    \E t \in Workers : Busy(t)' /\ claim'[t] = i
  <2> SUFFICES ASSUME NT > 1, NEW i \in Indices, i < next', ended'[i] = "no"
               PROVE  \E t \in Workers : Busy(t)' /\ claim'[t] = i
    OBVIOUS
  <2>1. i < next
    BY DEF Indices, PoolTypeOK
  <2>2. PICK t \in Workers : Busy(t) /\ claim[t] = i
    BY <2>1 DEF ClaimInv
  <2> QED BY <2>2
<1>7. pc' \in {"entry", "raised"} /\ NT > 1 => next' = 0
  BY DEF ClaimInv
<1>8. pc' = "spawn" /\ k' = 0 => next' = 0
  BY DEF ClaimInv
<1> QED BY <1>1, <1>2, <1>3, <1>4, <1>5, <1>6, <1>7, <1>8 DEF ClaimInv

\* The steps of a worker keep the invariant.
LEMMA WorkerIInv == ASSUME PoolIInv, NEW t \in Workers, Worker(t) PROVE PoolIInv'
<1> USE NTNat DEF PoolIInv, PoolTypeOK, PhaseInv, ClaimInv, InlineInv, Busy, Indices, Workers
<1>1. CASE Fetch(t)
  <2> USE <1>1 DEF Fetch, Take
  <2>1. CASE next < N
    <3>1. next \in 0..(N - 1)
      BY <2>1
    <3>2. /\ worker' = [worker EXCEPT ![t] = "call"]
          /\ claim' = [claim EXCEPT ![t] = next]
      BY <2>1
    <3>3. PoolTypeOK'
      BY <3>1, <3>2
    <3>4. PhaseInv'
      BY <3>2
    <3>5. ClaimInv'
      <4>1. \A u \in Workers \ {t} : Busy(u)' => Busy(u) /\ claim'[u] = claim[u] /\ claim[u] < next
        BY <3>2
      <4>2. Busy(t)' /\ claim'[t] = next /\ calls[next] = 0 /\ ended[next] = "no"
        BY <3>1, <3>2
      <4> QED BY <3>1, <3>2, <4>1, <4>2
    <3>6. InlineInv'
      OBVIOUS
    <3> QED BY <3>3, <3>4, <3>5, <3>6
  <2>2. CASE ~ (next < N)
    <3>1. /\ worker' = [worker EXCEPT ![t] = "exited"]
          /\ claim' = [claim EXCEPT ![t] = None]
          /\ next' \in Nat
          /\ UNCHANGED <<pc, k, calls, ended, mtx>>
      BY <2>2
    <3>2. PoolTypeOK'
      BY <3>1
    <3>3. PhaseInv'
      BY <3>1
    <3>4. ClaimInv'
      <4>1. ~ Busy(t) /\ ~ Busy(t)'
        BY <3>1
      <4>2. \A u \in Workers \ {t} :
                worker'[u] = worker[u] /\ claim'[u] = claim[u]
        BY <3>1
      <4>3. next' > next /\ next >= N /\ N > 0 /\ worker[t] # "unborn"
        BY <2>2
      <4>4. ~ (pc \in {"entry", "raised"} \/ (pc = "spawn" /\ k = 0))
        OBVIOUS
      <4> HIDE DEF PoolIInv, PoolTypeOK, PhaseInv, ClaimInv, InlineInv, Busy, Workers, Fetch, Take
      <4>5. PoolTypeOK /\ ClaimInv
        BY DEF PoolIInv
      <4>6. \A u \in Workers : Busy(u)' <=> Busy(u)
        BY <4>1, <4>2 DEF Busy
      <4>7. \A u \in Workers : Busy(u) => worker'[u] = worker[u] /\ claim'[u] = claim[u]
        BY <4>1, <4>2
      <4>8. \A u \in Workers : worker'[u] = "exited" => worker[u] = "exited" \/ next >= N
        BY <4>3
      <4> QED BY <3>1, <4>3, <4>4, <4>5, <4>6, <4>7, <4>8, ClaimsUntouched
    <3>5. InlineInv'
      OBVIOUS
    <3> QED BY <3>2, <3>3, <3>4, <3>5
  <2> QED BY <2>1, <2>2
<1>2. CASE Call(t)
  <2> USE <1>2 DEF Call
  <2>1. PoolTypeOK'
    OBVIOUS
  <2>2. PhaseInv'
    OBVIOUS
  <2>3. ClaimInv'
    OBVIOUS
  <2>4. InlineInv'
    OBVIOUS
  <2> QED BY <2>1, <2>2, <2>3, <2>4
<1>3. CASE FnReturns(t)
  <2> USE <1>3 DEF FnReturns
  <2>1. PoolTypeOK'
    OBVIOUS
  <2>2. PhaseInv'
    OBVIOUS
  <2>3. ClaimInv'
    OBVIOUS
  <2>4. InlineInv'
    OBVIOUS
  <2> QED BY <2>1, <2>2, <2>3, <2>4
<1>4. CASE FnThrows(t)
  <2> USE <1>4 DEF FnThrows
  <2>1. PoolTypeOK'
    OBVIOUS
  <2>2. PhaseInv'
    OBVIOUS
  <2>3. ClaimInv'
    OBVIOUS
  <2>4. InlineInv'
    OBVIOUS
  <2> QED BY <2>1, <2>2, <2>3, <2>4
<1>5. CASE LockInCatch(t)
  <2> USE <1>5 DEF LockInCatch
  <2>1. PoolTypeOK'
    OBVIOUS
  <2>2. PhaseInv'
    OBVIOUS
  <2>3. ClaimInv'
    <3>1. ~ Busy(t) /\ ~ Busy(t)'
      OBVIOUS
    <3>2. \A u \in Workers \ {t} : worker'[u] = worker[u]
      OBVIOUS
    <3>3. worker'[t] # "exited" /\ UNCHANGED <<pc, k, next, claim, calls, ended>> /\ next \in Nat
      OBVIOUS
    <3> HIDE DEF PoolIInv, PoolTypeOK, PhaseInv, ClaimInv, InlineInv, Busy, Workers, LockInCatch, UnlockInCatch
    <3>4. PoolTypeOK /\ ClaimInv
      BY DEF PoolIInv
    <3>5. \A u \in Workers : Busy(u)' <=> Busy(u)
      BY <3>1, <3>2 DEF Busy
    <3>6. \A u \in Workers : worker'[u] = "exited" => worker[u] = "exited" \/ next >= N
      BY <3>2, <3>3
    <3>7. \A u \in Workers : Busy(u) => worker'[u] = worker[u] /\ claim'[u] = claim[u]
      BY <3>1, <3>2, <3>3
    <3> QED BY <3>3, <3>4, <3>5, <3>6, <3>7, ClaimsUntouched
  <2>4. InlineInv'
    OBVIOUS
  <2> QED BY <2>1, <2>2, <2>3, <2>4
<1>6. CASE UnlockInCatch(t)
  <2> USE <1>6 DEF UnlockInCatch
  <2>1. PoolTypeOK'
    OBVIOUS
  <2>2. PhaseInv'
    OBVIOUS
  <2>3. ClaimInv'
    <3>1. ~ Busy(t) /\ ~ Busy(t)'
      OBVIOUS
    <3>2. \A u \in Workers \ {t} : worker'[u] = worker[u]
      OBVIOUS
    <3>3. worker'[t] # "exited" /\ UNCHANGED <<pc, k, next, claim, calls, ended>> /\ next \in Nat
      OBVIOUS
    <3> HIDE DEF PoolIInv, PoolTypeOK, PhaseInv, ClaimInv, InlineInv, Busy, Workers, LockInCatch, UnlockInCatch
    <3>4. PoolTypeOK /\ ClaimInv
      BY DEF PoolIInv
    <3>5. \A u \in Workers : Busy(u)' <=> Busy(u)
      BY <3>1, <3>2 DEF Busy
    <3>6. \A u \in Workers : worker'[u] = "exited" => worker[u] = "exited" \/ next >= N
      BY <3>2, <3>3
    <3>7. \A u \in Workers : Busy(u) => worker'[u] = worker[u] /\ claim'[u] = claim[u]
      BY <3>1, <3>2, <3>3
    <3> QED BY <3>3, <3>4, <3>5, <3>6, <3>7, ClaimsUntouched
  <2>4. InlineInv'
    OBVIOUS
  <2> QED BY <2>1, <2>2, <2>3, <2>4
<1> QED BY <1>1, <1>2, <1>3, <1>4, <1>5, <1>6 DEF Worker

LEMMA PoolNextIInv == PoolIInv /\ [PoolNext]_poolVars => PoolIInv'
<1> SUFFICES ASSUME PoolIInv, [PoolNext]_poolVars PROVE PoolIInv'
  OBVIOUS
<1>1. CASE Caller
  BY <1>1, CallerIInv
<1>2. CASE \E t \in Workers : Worker(t)
  BY <1>2, WorkerIInv
<1>3. CASE UNCHANGED poolVars
  BY <1>3 DEF poolVars, PoolIInv, PoolTypeOK, PhaseInv, ClaimInv, InlineInv, Busy
<1> QED BY <1>1, <1>2, <1>3 DEF PoolNext, PoolTerminated

THEOREM PoolInvariant == PoolSpec => []PoolIInv
BY PoolInitIInv, PoolNextIInv, PTL DEF PoolSpec

THEOREM PoolTypeCorrect == PoolSpec => []PoolTypeOK
<1>1. PoolIInv => PoolTypeOK
  BY DEF PoolIInv
<1> QED BY <1>1, PoolInvariant, PTL

\* No index is ever handed to two calls of fn, whatever the interleaving of
\* the fetch_adds.
THEOREM EachIndexAtMostOnce == PoolSpec => []AtMostOnce
<1>1. PoolIInv => AtMostOnce
  BY DEF PoolIInv, ClaimInv, AtMostOnce
<1> QED BY <1>1, PoolInvariant, PTL

LEMMA DoneFromInv == PoolIInv => DoneOnReturn
<1> SUFFICES ASSUME PoolIInv, pc = "returned"
             PROVE  /\ \A t \in Workers : worker[t] \in {"unborn", "exited"}
                    /\ \A i \in Indices : calls[i] = 1 /\ ended[i] # "no"
  BY DEF DoneOnReturn
<1> USE NTNat DEF PoolIInv
<1>1. CASE NT <= 1
  BY <1>1 DEF InlineInv, PhaseInv, ClaimInv, Indices
<1>2. CASE NT > 1
  <2>1. 0 \in Workers /\ worker[0] = "exited" /\ next >= N
    BY <1>2 DEF PhaseInv, ClaimInv, Workers
  <2>2. \A i \in Indices : ended[i] # "no"
    BY <1>2, <2>1 DEF PhaseInv, ClaimInv, Busy, Indices, PoolTypeOK
  <2> QED BY <1>2, <2>2 DEF PhaseInv, ClaimInv
<1> QED BY <1>1, <1>2

\* When run() returns, every index was executed to its end and no thread is
\* left: what fn wrote is complete.
THEOREM AllDoneOnReturn == PoolSpec => []DoneOnReturn
<1>1. PoolIInv => DoneOnReturn
  BY DoneFromInv
<1> QED BY <1>1, PoolInvariant, PTL


\* An exception that leaves run() leaves nothing behind that still runs.
THEOREM RaiseLeavesNothing == PoolSpec => []RaiseIsClean
<1>1. PoolIInv => RaiseIsClean
  BY NTNat DEF PoolIInv, PoolTypeOK, PhaseInv, ClaimInv, InlineInv, RaiseIsClean, Indices
<1> QED BY <1>1, PoolInvariant, PTL

\* A claimed index is never lost, whatever the other calls throw.
THEOREM NoClaimIsLost == PoolSpec => []NoIndexLost
<1>1. PoolIInv => NoIndexLost
  BY NTNat DEF PoolIInv, PhaseInv, ClaimInv, NoIndexLost, Busy
<1> QED BY <1>1, PoolInvariant, PTL

-----------------------------------------------------------------------------
(* ParallelFor implements ForEach: every step is a step of ForEach or       *)
(* leaves its variables alone.                                              *)

\* A step on which neither the calls nor the end of run() change.
LEMMA Stutter ==
    ASSUME UNCHANGED <<calls, ended>>, Over' = Over, Over => pc' = pc
    PROVE  UNCHANGED FE!feVars
BY DEF FE!feVars, CallView, CallerView

\* The view changes at one index only.
LEMMA ViewChanges ==
    ASSUME NEW j \in Indices, NEW v,
           \A i \in Indices \ {j} : calls'[i] = calls[i] /\ ended'[i] = ended[i],
           v = CallView'[j]
    PROVE  CallView' = [CallView EXCEPT ![j] = v]
<1>1. \A i \in Indices : CallView'[i] = [CallView EXCEPT ![j] = v][i]
  BY DEF CallView
<1>2. /\ CallView' = [i \in Indices |-> CallView'[i]]
      /\ [CallView EXCEPT ![j] = v] = [i \in Indices |-> [CallView EXCEPT ![j] = v][i]]
  BY DEF CallView
<1> QED BY <1>1, <1>2

LEMMA CallerSimulates ==
    ASSUME PoolIInv, PoolIInv', Caller PROVE FE!FENext \/ UNCHANGED FE!feVars
<1> USE NTNat
<1> DEFINE Goal == FE!FENext \/ UNCHANGED FE!feVars
<1>0. PoolTypeOK /\ calls = [calls EXCEPT ![k] = calls[k]] /\ ended = [ended EXCEPT ![k] = ended[k]]
  BY DEF PoolIInv, PoolTypeOK
<1>1. CASE Enter
  <2>1. CASE N = 0
    <3>1. FE!Return
      BY <1>1, <2>1 DEF FE!Return, Enter, CallView, CallerView, Over, Indices
    <3> QED BY <3>1 DEF FE!FENext
  <2>2. CASE N # 0
    BY <1>1, <2>2, Stutter DEF Enter, Over
  <2> QED BY <2>1, <2>2
<1>2. CASE InlineCall
  <2>1. k \in Indices /\ calls[k] = 0 /\ ended[k] = "no"
    BY <1>2 DEF InlineCall, PoolIInv, PoolTypeOK, InlineInv, ClaimInv, Indices
  <2>2. calls' = [calls EXCEPT ![k] = 1] /\ ended' = [ended EXCEPT ![k] = "no"]
    BY <1>2, <1>0, <2>1 DEF InlineCall
  <2>3. CallView[k] = "idle" /\ CallView' = [CallView EXCEPT ![k] = "running"]
    <3>1. CallView[k] = "idle"
      BY <2>1 DEF CallView
    <3>2. \A i \in Indices \ {k} : calls'[i] = calls[i] /\ ended'[i] = ended[i]
      BY <1>0, <2>2 DEF PoolTypeOK
    <3>3. calls'[k] = 1 /\ ended'[k] = "no"
      BY <1>0, <2>1, <2>2 DEF PoolTypeOK
    <3>4. CallView'[k] = "running"
      BY <2>1, <3>3 DEF CallView
    <3> QED BY <2>1, <3>1, <3>2, <3>4, ViewChanges
  <2>4. CallerView = "waiting" /\ CallerView' = "waiting"
    BY <1>2 DEF InlineCall, CallerView, Over
  <2>5. FE!Begin(k)
    BY <2>3, <2>4 DEF FE!Begin
  <2> QED BY <2>1, <2>5 DEF FE!FENext
<1>3. CASE InlineDone
  <2>1. k \in Indices /\ calls[k] = 1 /\ ended[k] = "no"
    BY <1>3 DEF InlineDone, PoolIInv, PoolTypeOK, InlineInv, PhaseInv, Indices
  <2>2. calls' = [calls EXCEPT ![k] = 1] /\ ended' = [ended EXCEPT ![k] = "ok"]
    BY <1>3, <1>0, <2>1 DEF InlineDone
  <2>3. CallView[k] = "running" /\ CallView' = [CallView EXCEPT ![k] = "over"]
    <3>1. CallView[k] = "running"
      BY <2>1 DEF CallView
    <3>2. \A i \in Indices \ {k} : calls'[i] = calls[i] /\ ended'[i] = ended[i]
      BY <1>0, <2>2 DEF PoolTypeOK
    <3>3. calls'[k] = 1 /\ ended'[k] = "ok"
      BY <1>0, <2>1, <2>2 DEF PoolTypeOK
    <3>4. CallView'[k] = "over"
      BY <2>1, <3>3 DEF CallView
    <3> QED BY <2>1, <3>1, <3>2, <3>4, ViewChanges
  <2>4. CallerView = "waiting" /\ CallerView' = "waiting"
    BY <1>3 DEF InlineDone, CallerView, Over
  <2>5. FE!End(k)
    BY <2>3, <2>4 DEF FE!End
  <2> QED BY <2>1, <2>5 DEF FE!FENext
<1>4. CASE InlineThrow
  <2>1. k \in Indices /\ calls[k] = 1 /\ ended[k] = "no"
    BY <1>4, PoolAssumption DEF InlineThrow, PoolIInv, PoolTypeOK, InlineInv, PhaseInv, Indices
  <2>2. calls' = [calls EXCEPT ![k] = 1] /\ ended' = [ended EXCEPT ![k] = "threw"]
    BY <1>4, <1>0, <2>1 DEF InlineThrow
  <2>3. \A j \in Indices \ {k} : CallView[j] # "running"
    BY <1>4 DEF InlineThrow, PoolIInv, PoolTypeOK, InlineInv, PhaseInv, Indices, CallView
  <2>4. CallView[k] = "running" /\ CallView' = [CallView EXCEPT ![k] = "over"]
    <3>1. CallView[k] = "running"
      BY <2>1 DEF CallView
    <3>2. \A i \in Indices \ {k} : calls'[i] = calls[i] /\ ended'[i] = ended[i]
      BY <1>0, <2>2 DEF PoolTypeOK
    <3>3. calls'[k] = 1 /\ ended'[k] = "threw"
      BY <1>0, <2>1, <2>2 DEF PoolTypeOK
    <3>4. CallView'[k] = "over"
      BY <2>1, <3>3 DEF CallView
    <3> QED BY <2>1, <3>1, <3>2, <3>4, ViewChanges
  <2>5. CallerView = "waiting" /\ CallerView' = "raised"
    BY <1>4 DEF InlineThrow, CallerView, Over
  <2>6. FE!RaiseFrom(k)
    BY <2>3, <2>4, <2>5 DEF FE!RaiseFrom
  <2> QED BY <2>1, <2>6 DEF FE!FENext
<1>5. CASE InlineReturn \/ JoinedAll
  <2>1. pc' = "returned" /\ pc \in {"inline", "join"} /\ UNCHANGED <<calls, ended>>
    BY <1>5 DEF InlineReturn, InlineReturnAt, JoinedAll
  <2>2. DoneOnReturn'
    BY DoneFromInv, PTL
  <2>3. \A i \in Indices : calls[i] = 1 /\ ended[i] # "no"
    BY <2>1, <2>2 DEF DoneOnReturn
  <2>4. FE!Return
    BY <2>1, <2>3 DEF FE!Return, CallView, CallerView, Over
  <2> QED BY <2>4 DEF FE!FENext
<1>6. CASE Spawn \/ StartJoin \/ Join
  BY <1>6, Stutter DEF Spawn, StartJoin, Join, JoinRound, Over
<1>7. CASE SpawnFails
  <2>1. UNCHANGED CallView /\ pc = "spawn" /\ pc' = IF k = 0 THEN "raised" ELSE "aborted"
    BY <1>7 DEF SpawnFails, SpawnFailsAs, CallView
  <2>2. CASE k = 0
    <3>1. \A i \in Indices : calls[i] = 0
      BY <2>1, <2>2 DEF PoolIInv, ClaimInv, PhaseInv, Indices
    <3>2. FE!Raise
      BY <2>1, <2>2, <3>1 DEF FE!Raise, CallView, CallerView, Over
    <3> QED BY <3>2 DEF FE!FENext
  <2>3. CASE k # 0
    <3>1. FE!Abort
      BY <2>1, <2>3 DEF FE!Abort, CallerView, Over
    <3> QED BY <3>1 DEF FE!FENext
  <2> QED BY <2>2, <2>3
<1> QED BY <1>1, <1>2, <1>3, <1>4, <1>5, <1>6, <1>7 DEF Caller

LEMMA WorkerSimulates ==
    ASSUME PoolIInv, NEW t \in Workers, Worker(t) PROVE FE!FENext \/ UNCHANGED FE!feVars
<1>0. PoolTypeOK
  BY DEF PoolIInv
<1>1. CASE Fetch(t) \/ LockInCatch(t) \/ UnlockInCatch(t)
  BY <1>1, Stutter DEF Fetch, Take, LockInCatch, UnlockInCatch, Over
<1>2. CASE ~ (Fetch(t) \/ LockInCatch(t) \/ UnlockInCatch(t))
  <2>1. Busy(t) /\ pc # "aborted" /\ UNCHANGED pc
    BY <1>2 DEF Worker, Call, FnReturns, FnThrows, Busy
  <2>2. ~ Over
    BY <2>1, NTNat DEF Over, Busy, PoolIInv, PhaseInv
  <2>3. /\ claim[t] \in Indices
        /\ ended[claim[t]] = "no"
        /\ calls[claim[t]] = IF worker[t] = "call" THEN 0 ELSE 1
    BY <2>1 DEF PoolIInv, ClaimInv
  <2>6. CallerView = "waiting" /\ CallerView' = "waiting"
    BY <2>1, <2>2 DEF CallerView, Over
  <2>4. CASE Call(t)
    <3>1. calls' = [calls EXCEPT ![claim[t]] = 1] /\ ended' = [ended EXCEPT ![claim[t]] = "no"]
      BY <1>0, <2>3, <2>4 DEF Call, PoolTypeOK
    <3>2. CallView[claim[t]] = "idle"
      BY <2>3, <2>4 DEF Call, CallView
    <3>3. CallView' = [CallView EXCEPT ![claim[t]] = "running"]
      <4>1. \A i \in Indices \ {claim[t]} : calls'[i] = calls[i] /\ ended'[i] = ended[i]
        BY <1>0, <3>1 DEF PoolTypeOK
      <4>2. calls'[claim[t]] = 1 /\ ended'[claim[t]] = "no"
        BY <1>0, <2>3, <3>1 DEF PoolTypeOK
      <4>3. CallView'[claim[t]] = "running"
        BY <2>3, <4>2 DEF CallView
      <4> QED BY <2>3, <4>1, <4>3, ViewChanges
    <3>4. FE!Begin(claim[t])
      BY <2>6, <3>2, <3>3 DEF FE!Begin
    <3> QED BY <2>3, <3>4 DEF FE!FENext
  <2>5. CASE FnReturns(t) \/ FnThrows(t)
    <3>1. PICK e \in {"ok", "threw"} :
            calls' = [calls EXCEPT ![claim[t]] = 1] /\ ended' = [ended EXCEPT ![claim[t]] = e]
      BY <1>0, <2>3, <2>5 DEF FnReturns, FnThrows, PoolTypeOK
    <3>2. worker[t] = "infn"
      BY <2>5 DEF FnReturns, FnThrows
    <3>3. CallView[claim[t]] = "running"
      BY <2>3, <3>2 DEF CallView
    <3>4. CallView' = [CallView EXCEPT ![claim[t]] = "over"]
      <4>1. \A i \in Indices \ {claim[t]} : calls'[i] = calls[i] /\ ended'[i] = ended[i]
        BY <1>0, <3>1 DEF PoolTypeOK
      <4>2. calls'[claim[t]] = 1 /\ ended'[claim[t]] # "no"
        BY <1>0, <2>3, <3>1 DEF PoolTypeOK
      <4>3. CallView'[claim[t]] = "over"
        BY <2>3, <4>2 DEF CallView
      <4> QED BY <2>3, <4>1, <4>3, ViewChanges
    <3>5. FE!End(claim[t])
      BY <2>6, <3>3, <3>4 DEF FE!End
    <3> QED BY <2>3, <3>5 DEF FE!FENext
  <2> QED BY <1>2, <2>4, <2>5 DEF Worker
<1> QED BY <1>1, <1>2

\* run() does what ForEach promises, for every number of indices and threads.
THEOREM Refinement == PoolSpec => ImplementsForEach
<1>1. PoolInit => FE!FEInit
  BY DEF PoolInit, FE!FEInit, CallView, CallerView, Over
<1>2. PoolIInv /\ PoolIInv' /\ [PoolNext]_poolVars => [FE!FENext]_(FE!feVars)
  <2> SUFFICES ASSUME PoolIInv, PoolIInv', [PoolNext]_poolVars
               PROVE  FE!FENext \/ UNCHANGED FE!feVars
    OBVIOUS
  <2>1. CASE Caller
    BY <2>1, CallerSimulates
  <2>2. CASE \E t \in Workers : Worker(t)
    BY <2>2, WorkerSimulates
  <2>3. CASE UNCHANGED poolVars
    BY <2>3, Stutter DEF poolVars, Over
  <2> QED BY <2>1, <2>2, <2>3 DEF PoolNext, PoolTerminated
<1> QED BY <1>1, <1>2, PoolInvariant, PTL DEF PoolSpec, ImplementsForEach, FE!FESafeSpec

-----------------------------------------------------------------------------
(* The batch.                                                              *)

Places == {"idle", "load", "announce", "code", "check", "open", "write",
           "finish", "count", "emit", "over", "thrown"}
Reports == [pc : {"start", "sleep", "done", "tileDone", "tileTotal", "state", "emit", "exited"},
            d : 0..NJobs, td : Nat, tt : Nat, run : SUBSET Jobs]

\* How the pool, the place of a job, its state[] and main go together.
ControlInv ==
    /\ \A j \in Jobs : call[j] = "idle" <=> at[j] = "idle"
    /\ \A j \in Jobs : call[j] = "over" <=> at[j] \in {"over", "thrown"}
    /\ \A j \in Jobs : state[j] = 0 <=> at[j] = "idle"
    /\ \A j \in Jobs : state[j] = 2 <=> at[j] \in {"count", "emit", "over"}
    /\ caller = "returned" => \A j \in Jobs : call[j] = "over"
    /\ main # "run" => caller = "returned"

\* An exception on main's own thread ends the run while nothing else runs.
ThrowInv ==
    /\ Inline => \A j \in Jobs : at[j] = "thrown" => caller = "raised"
    /\ caller = "raised" =>
          \E j \in Jobs : at[j] = "thrown" /\ \A i \in Jobs \ {j} : state[i] # 1

ThreadInv == Cardinality(Running) <= NThreads

\* n_done counts the jobs that passed n_done++; a reader's copy lags behind.
Counted == {j \in Jobs : at[j] \in {"emit", "over"}}

CountInv ==
    /\ nDone = Cardinality(Counted)
    /\ rep.pc \in {"tileDone", "tileTotal", "state"} => rep.d <= nDone
    /\ rep.pc = "emit" => rep.d + Cardinality(rep.run) <= NJobs

\* The tiles that are done, and those that were announced, as sets of pairs
\* <<job, index>>: the two counters are their sizes.
Usable(j) == IsCompression(j) \/ in[j].kind = "stream"
Announced(j) == at[j] \notin {"idle", "load", "announce"} /\ Usable(j)
TilesDone == {p \in Jobs \X Nat : p[2] < tiles[p[1]]}
TilesAnnounced == {p \in Jobs \X Nat : Announced(p[1]) /\ p[2] < Tiles[p[1]]}

TileInv ==
    /\ \A j \in Jobs : tiles[j] <= Tiles[j] /\ (tiles[j] > 0 => Announced(j))
    /\ \A j \in Jobs : at[j] \in {"announce", "code"} => Usable(j)
    /\ IsFiniteSet(TilesDone) /\ Cardinality(TilesDone) = tileDone
    /\ IsFiniteSet(TilesAnnounced) /\ Cardinality(TilesAnnounced) = tileTotal

TileReadInv ==
    /\ rep.pc = "tileTotal" => rep.td <= tileTotal
    /\ rep.pc \in {"state", "emit"} => rep.td <= rep.tt

\* A status line on the screen is always marked as such, and only main's
\* clearing comes after the reporter's end.
ConsoleInv ==
    /\ screen = "status" => Tty /\ progOn
    /\ "result" \notin mixed
    /\ "loader" \in mixed =>
          Tty /\ ~o.decode /\ \E j \in Jobs : o.fs[Src[j]].kind \in Remarked
    /\ main \in {"joined", "cleared", "exit"} => rep.pc = "exited"
    /\ main \in {"cleared", "exit"} => screen = "clean"

\* No job writes a PNG the loader has something to say about.
SourceInv == \A f \in Files : fs[f].kind \in Remarked => fs[f] = o.fs[f]

LineInv == \A j \in Jobs : at[j] = "over" => ok[j] \/ j \in lines

\* Another job that has loaded its source has the output of j.
Clashes(j) == \E i \in Jobs \ {j} : at[i] \notin {"idle", "load"} /\ Out(i) = Out(j)

\* What a job may rely on while it makes its output, unless another job has
\* the same one.
FileInv ==
    /\ \A j \in Jobs : ok[j] => at[j] \in {"finish", "count", "emit", "over"}
    /\ \A j \in Jobs : at[j] = "open" /\ ~o.force => ~Exists(Out(j)) \/ Clashes(j)
    /\ \A j \in Jobs : at[j] = "write" =>
          fs[Out(j)] = [kind |-> "partial", by |-> j] \/ Clashes(j)
    /\ \A j \in Jobs : ok[j] =>
          \/ Clashes(j)
          \/ /\ fs[Out(j)].by = j
             /\ fs[Out(j)].kind \in Kept(j)

IInv ==
    /\ TypeOK /\ ControlInv /\ ThrowInv /\ ThreadInv /\ CountInv
    /\ TileInv /\ TileReadInv /\ ConsoleInv /\ SourceInv /\ LineInv /\ FileInv

-----------------------------------------------------------------------------
(* What each thread leaves alone.                                          *)

LEMMA JobFrame ==
    ASSUME NEW j \in Jobs, Job(j)
    PROVE  UNCHANGED <<o, rep, main>>
BY DEF Job, Start, Load, Announce, TileEnds, Coded, CodecThrows, Check, CheckAs, Open, Write,
       FinishAndCount, FinishAs, CountAs, Report, ReportAs

LEMMA ReporterFrame ==
    ASSUME Reporter
    PROVE  UNCHANGED <<o, call, caller, at, in, tiles, ok, state, nDone, tileDone, tileTotal, fs, main>>
BY DEF Reporter, Wake, ReadDone, ReadTileDone, ReadTileTotal, ReadState, ReporterReads, Draw,
       jobVars, counters

LEMMA MainFrame ==
    ASSUME Main
    PROVE  UNCHANGED <<o, call, at, in, tiles, ok, state, nDone, tileDone, tileTotal, fs, rep>>
BY DEF Main, PoolReturns, Pool!Return, SetHalt, JoinReporter, ClearLine, Summary, MainStep,
       jobVars, counters

LEMMA StutterFrame ==
    ASSUME UNCHANGED vars
    PROVE  /\ UNCHANGED <<o, call, caller, at, in, tiles, ok, state, nDone, tileDone, tileTotal>>
           /\ UNCHANGED <<fs, screen, progOn, lines, mixed, rep, main>>
BY DEF vars, jobVars, counters, console

\* A step is one of a job, of the reporter or of main, or changes nothing.
LEMMA StepCases ==
    ASSUME [Next]_vars
    PROVE  (\E j \in Jobs : Job(j)) \/ Reporter \/ Main \/ UNCHANGED vars
BY DEF Next, Terminated

-----------------------------------------------------------------------------

LEMMA ControlStep == IInv /\ [Next]_vars => ControlInv'
<1> SUFFICES ASSUME IInv, [Next]_vars PROVE ControlInv'
  OBVIOUS
<1> USE DEF IInv, TypeOK, Pool!FETypeOK, ControlInv
<1>1. ASSUME NEW j \in Jobs, Job(j) PROVE ControlInv'
  <2>1. CASE Start(j)
    BY <2>1 DEF Start, Pool!Begin
  <2>2. CASE Load(j)
    BY <2>2 DEF Load, counters
  <2>3. CASE Announce(j) \/ TileEnds(j) \/ Coded(j)
    BY <2>3 DEF Announce, TileEnds, Coded, counters
  <2>4. CASE CodecThrows(j)
    BY <2>4 DEF CodecThrows, Pool!RaiseFrom, Pool!End, counters
  <2>5. CASE Check(j)
    BY <2>5 DEF Check, CheckAs, counters
  <2>6. CASE Open(j)
    BY <2>6 DEF Open, counters
  <2>7. CASE Write(j)
    BY <2>7 DEF Write, counters
  <2>8. CASE FinishAndCount(j)
    BY <2>8 DEF FinishAndCount, FinishAs, CountAs
  <2>9. CASE Report(j)
    BY <2>9 DEF Report, ReportAs, Pool!End, counters
  <2> QED BY <1>1, <2>1, <2>2, <2>3, <2>4, <2>5, <2>6, <2>7, <2>8, <2>9 DEF Job
<1>2. CASE Reporter
  BY <1>2, ReporterFrame
<1>3. CASE Main
  BY <1>3, MainFrame DEF Main, PoolReturns, Pool!Return, SetHalt, JoinReporter, ClearLine, Summary, MainStep
<1>4. CASE UNCHANGED vars
  BY <1>4, StutterFrame
<1> QED BY <1>1, <1>2, <1>3, <1>4, StepCases

LEMMA ThrowStep == IInv /\ [Next]_vars => ThrowInv'
<1> SUFFICES ASSUME IInv, [Next]_vars PROVE ThrowInv'
  OBVIOUS
<1> USE DEF IInv, TypeOK, Pool!FETypeOK, ThrowInv, Inline, NThreads
<1>1. ASSUME NEW j \in Jobs, Job(j) PROVE ThrowInv'
  <2> USE JobFrame
  <2>1. CASE Start(j)
    BY <2>1 DEF Start, Pool!Begin
  <2>2. CASE Load(j)
    BY <2>2 DEF Load, counters, Alive
  <2>3. CASE Announce(j) \/ TileEnds(j) \/ Coded(j)
    BY <2>3 DEF Announce, TileEnds, Coded, counters, Alive
  <2>4. CASE CodecThrows(j) /\ Inline
    <3>1. caller = "waiting" /\ caller' = "raised" /\ at' = [at EXCEPT ![j] = "thrown"]
      BY <2>4 DEF CodecThrows, Pool!RaiseFrom
    <3>2. \A i \in Jobs \ {j} : call[i] # "running" /\ at[i] # "thrown" /\ state'[i] = state[i]
      BY <2>4, <3>1 DEF CodecThrows, Pool!RaiseFrom, counters
    <3>3. \A i \in Jobs \ {j} : state[i] # 1
      BY <3>2 DEF ControlInv
    <3> QED BY <1>1, <3>1, <3>2, <3>3
  <2>5. CASE CodecThrows(j) /\ ~Inline
    BY <1>1, <2>5 DEF CodecThrows, Pool!End, counters
  <2>6. CASE Check(j)
    BY <2>6 DEF Check, CheckAs, counters, Alive
  <2>7. CASE Open(j)
    BY <2>7 DEF Open, counters, Alive
  <2>8. CASE Write(j)
    BY <2>8 DEF Write, counters, Alive
  <2>9. CASE FinishAndCount(j)
    BY <2>9 DEF FinishAndCount, FinishAs, CountAs, Alive
  <2>10. CASE Report(j)
    BY <2>10 DEF Report, ReportAs, Pool!End, counters
  <2> QED BY <1>1, <2>1, <2>2, <2>3, <2>4, <2>5, <2>6, <2>7, <2>8, <2>9, <2>10 DEF Job
<1>2. CASE Reporter
  BY <1>2, ReporterFrame
<1>3. CASE Main
  <2>1. caller' # "raised" \/ caller' = caller
    BY <1>3 DEF Main, PoolReturns, Pool!Return, SetHalt, JoinReporter, ClearLine, Summary, MainStep
  <2>2. caller' = "raised" <=> caller = "raised"
    BY <1>3, <2>1 DEF Main, PoolReturns, Pool!Return, SetHalt, JoinReporter, ClearLine, Summary, MainStep
  <2> QED BY <1>3, <2>2, MainFrame
<1>4. CASE UNCHANGED vars
  BY <1>4, StutterFrame
<1> QED BY <1>1, <1>2, <1>3, <1>4, StepCases

LEMMA JobsFinite == NJobs \in Nat \ {0} /\ IsFiniteSet(Jobs) /\ Cardinality(Jobs) = NJobs
<1>1. NJobs \in Nat \ {0}
  BY BatchAssumption
<1>2. 0 \in Int /\ NJobs - 1 \in Int /\ ~ (0 > NJobs - 1) /\ (NJobs - 1) - 0 + 1 = NJobs
  BY <1>1
<1> QED BY <1>1, <1>2, FS_Interval, Zenon DEF Jobs

\* Any set of jobs is finite and has at most NJobs members.
LEMMA SomeJobs ==
    ASSUME NEW S, S \subseteq Jobs
    PROVE  IsFiniteSet(S) /\ Cardinality(S) \in 0..NJobs
<1>1. IsFiniteSet(S) /\ Cardinality(S) <= NJobs
  BY JobsFinite, FS_Subset
<1>2. Cardinality(S) \in Nat
  BY <1>1, FS_CardinalityType
<1> QED BY <1>1, <1>2, JobsFinite

LEMMA ThreadStep == IInv /\ [Next]_vars => ThreadInv'
<1> SUFFICES ASSUME IInv, [Next]_vars PROVE ThreadInv'
  OBVIOUS
<1>0. call \in [Jobs -> {"idle", "running", "over"}] /\ Cardinality(Running) <= NThreads
  BY DEF IInv, TypeOK, Pool!FETypeOK, ThreadInv
<1>a. NThreads \in Nat /\ Cardinality(Running) \in Nat /\ IsFiniteSet(Running)
  <2>1. NThreads \in Nat
    BY BatchAssumption DEF IInv, TypeOK, NThreads, OptionRecords
  <2>2. Running \subseteq Jobs
    BY DEF Running
  <2> QED BY <2>1, <2>2, SomeJobs
\* A set of running calls that did not grow is small enough.
<1>b. ASSUME NThreads' = NThreads, Running' \subseteq Running PROVE ThreadInv'
  <2>1. Cardinality(Running') <= Cardinality(Running) /\ Cardinality(Running') \in Nat
    BY <1>a, <1>b, FS_Subset, FS_CardinalityType
  <2> QED BY <1>0, <1>a, <1>b, <2>1 DEF ThreadInv
<1>1. ASSUME NEW j \in Jobs, Job(j) PROVE ThreadInv'
  <2>0. NThreads' = NThreads
    BY <1>1, JobFrame DEF NThreads
  <2>1. CASE Start(j)
    <3>1. Cardinality(Running) < NThreads /\ Running' = Running \cup {j}
      BY <1>0, <2>1 DEF Start, Pool!Begin, Running
    <3>2. Cardinality(Running') <= Cardinality(Running) + 1
      BY <1>a, <3>1, FS_AddElement
    <3>3. Cardinality(Running') \in Nat
      BY <1>a, <3>1, FS_AddElement, FS_CardinalityType
    <3> QED BY <1>a, <2>0, <3>1, <3>2, <3>3 DEF ThreadInv
  <2>2. CASE ~Start(j)
    <3>1. Running' \subseteq Running
      BY <1>0, <1>1, <2>2 DEF Running, Job, Load, Announce, TileEnds, Coded, CodecThrows, Pool!RaiseFrom,
         Pool!End, Check, CheckAs, Open, Write, FinishAndCount, FinishAs, CountAs, Report, ReportAs
    <3> QED BY <1>b, <2>0, <3>1
  <2> QED BY <2>1, <2>2
<1>2. CASE Reporter \/ Main \/ UNCHANGED vars
  <2>1. UNCHANGED <<o, call>>
    BY <1>2, ReporterFrame, MainFrame, StutterFrame
  <2> QED BY <1>b, <2>1 DEF NThreads, Running
<1> QED BY <1>1, <1>2, StepCases

LEMMA CountStep == IInv /\ [Next]_vars => CountInv'
<1> SUFFICES ASSUME IInv, [Next]_vars PROVE CountInv'
  OBVIOUS
<1> DEFINE Known(place, d, run) ==
       /\ place \in {"tileDone", "tileTotal", "state"} => d <= nDone
       /\ place = "emit" => d + Cardinality(run) <= NJobs
<1>0. /\ nDone \in Nat /\ nDone = Cardinality(Counted) /\ Known(rep.pc, rep.d, rep.run)
      /\ rep \in Reports /\ rep.d \in Nat /\ at \in [Jobs -> Places]
  <2>1. rep \in Reports /\ at \in [Jobs -> Places] /\ nDone \in Nat
    BY JobsFinite DEF IInv, TypeOK, Reports, Places
  <2>2. rep.d \in Nat
    BY <2>1, JobsFinite DEF Reports
  <2> QED BY <2>1, <2>2 DEF IInv, CountInv
<1>a. Counted \subseteq Jobs /\ IsFiniteSet(Counted)
  BY SomeJobs DEF Counted
<1>1. ASSUME NEW j \in Jobs, Job(j) PROVE CountInv'
  <2>0. rep' = rep
    BY <1>1, JobFrame
  <2>1. CASE CountAs(j, "count", "emit")
    <3>1. j \notin Counted /\ Counted' = Counted \cup {j} /\ nDone' = nDone + 1
      BY <1>0, <2>1 DEF CountAs, Counted
    <3>2. Cardinality(Counted') = nDone'
      BY <1>0, <1>a, <3>1, FS_AddElement
    <3> QED BY <1>0, <2>0, <3>1, <3>2 DEF CountInv
  <2>2. CASE ~CountAs(j, "count", "emit")
    <3>1. Counted' = Counted /\ nDone' = nDone
      <4> USE <1>0 DEF Counted, Places, counters
      <4>1. CASE Start(j) \/ Announce(j)
        BY <4>1 DEF Start, Pool!Begin, Announce, IInv, ControlInv
      <4>6. CASE Load(j)
        <5>1. at[j] = "load" /\ nDone' = nDone
          BY <4>6 DEF Load
        <5>2. \E x \in {"finish", "announce", "code"} : at' = [at EXCEPT ![j] = x]
          BY <4>6 DEF Load
        <5> QED BY <5>1, <5>2
      <4>2. CASE TileEnds(j) \/ Coded(j) \/ CodecThrows(j)
        BY <4>2 DEF TileEnds, Coded, CodecThrows
      <4>3. CASE Check(j) \/ Open(j) \/ Write(j)
        BY <4>3 DEF Check, CheckAs, Open, Write
      <4>4. CASE FinishAs(j, "finish", "count")
        BY <4>4 DEF FinishAs
      <4>5. CASE Report(j)
        BY <4>5 DEF Report, ReportAs
      <4> QED BY <1>1, <2>2, <4>1, <4>2, <4>3, <4>4, <4>5, <4>6 DEF Job, FinishAndCount
    <3> QED BY <1>0, <2>0, <3>1 DEF CountInv
  <2> QED BY <2>1, <2>2
<1>2. CASE Reporter
  <2>0. Counted' = Counted /\ nDone' = nDone
    BY <1>2, ReporterFrame DEF Counted
  <2>1. ASSUME Known(rep'.pc, rep'.d, rep'.run) PROVE CountInv'
    BY <1>0, <2>0, <2>1 DEF CountInv
  <2>2. rep \in Reports
    BY <1>0
  <2> USE DEF Reports
  <2>3. CASE Wake \/ Draw
    BY <2>1, <2>2, <2>3 DEF Wake, Draw, ReporterReads, Restarted
  <2>4. CASE ReadDone
    BY <1>0, <2>1, <2>2, <2>4 DEF ReadDone, ReporterReads
  <2>5. CASE ReadTileDone \/ ReadTileTotal
    BY <1>0, <2>1, <2>2, <2>5 DEF ReadTileDone, ReadTileTotal, ReporterReads
  <2>6. CASE ReadState
    <3> DEFINE run == {j \in Jobs : state[j] = 1}
    <3>1. rep'.pc = "emit" /\ rep'.d = rep.d /\ rep'.run = run /\ rep.d <= nDone
      BY <1>0, <2>2, <2>6 DEF ReadState, ReporterReads
    <3>2. Counted \cap run = {} /\ Counted \cup run \subseteq Jobs /\ run \subseteq Jobs
      BY DEF IInv, ControlInv, Counted
    <3>3. Cardinality(Counted \cup run) <= NJobs /\ IsFiniteSet(run) /\ Cardinality(run) \in Nat
      BY <3>2, SomeJobs, JobsFinite
    <3>4. Cardinality(Counted \cup run) = nDone + Cardinality(run) - 0
      BY <1>0, <1>a, <3>2, <3>3, FS_Union, FS_EmptySet
    <3> HIDE DEF run
    <3>5. rep.d + Cardinality(run) <= NJobs
      BY <1>0, <3>1, <3>3, <3>4, JobsFinite
    <3> QED BY <2>1, <3>1, <3>5
  <2> QED BY <1>2, <2>3, <2>4, <2>5, <2>6 DEF Reporter
<1>3. CASE Main \/ UNCHANGED vars
  <2>1. UNCHANGED <<at, nDone, rep>>
    BY <1>3, MainFrame, StutterFrame
  <2> QED BY <1>0, <2>1 DEF CountInv, Counted
<1> QED BY <1>1, <1>2, <1>3, StepCases

\* The tiles of one job, as pairs.
LEMMA JobTiles ==
    ASSUME NEW j, NEW n \in Nat
    PROVE  /\ IsFiniteSet({j} \X (0..(n - 1)))
           /\ Cardinality({j} \X (0..(n - 1))) = n
<1>1. IsFiniteSet({j}) /\ Cardinality({j}) = 1
  BY FS_Singleton
<1>2. IsFiniteSet(0..(n - 1)) /\ Cardinality(0..(n - 1)) = n
  <2>1. /\ IsFiniteSet(0..(n - 1))
        /\ Cardinality(0..(n - 1)) = IF 0 > n - 1 THEN 0 ELSE (n - 1) - 0 + 1
    BY FS_Interval
  <2> QED BY <2>1
<1> DEFINE S == {j}
           T == 0..(n - 1)
<1>3. IsFiniteSet(S) /\ Cardinality(S) = 1 /\ IsFiniteSet(T) /\ Cardinality(T) = n
  BY <1>1, <1>2
<1> HIDE DEF S, T
<1>4. IsFiniteSet(S \X T) /\ Cardinality(S \X T) = Cardinality(S) * Cardinality(T)
  BY <1>3, FS_Product, Zenon
<1>5. IsFiniteSet(S \X T) /\ Cardinality(S \X T) = n
  BY <1>3, <1>4
<1> QED BY <1>5 DEF S, T

Early == {"idle", "load", "announce"}

LEMMA TileStep == IInv /\ [Next]_vars => TileInv'
<1> SUFFICES ASSUME IInv, [Next]_vars PROVE TileInv'
  OBVIOUS
<1>0. /\ at \in [Jobs -> Places] /\ tiles \in [Jobs -> Nat] /\ Tiles \in [Jobs -> Nat]
      /\ in \in [Jobs -> Contents] /\ tileDone \in Nat /\ tileTotal \in Nat /\ TileInv
  BY BatchAssumption DEF IInv, TypeOK, Places
\* Steps that neither load, nor announce, nor end a tile.
<1>a. ASSUME UNCHANGED <<o, in, tiles, tileDone, tileTotal>>,
             \A i \in Jobs : at'[i] \in Early <=> at[i] \in Early,
             \A i \in Jobs : at'[i] \in {"announce", "code"} => at[i] \in {"announce", "code"}
      PROVE  TileInv'
  <2>1. \A i \in Jobs : (Usable(i)' <=> Usable(i)) /\ (Announced(i)' <=> Announced(i))
    BY <1>a DEF Usable, Announced, IsCompression, Early
  <2>2. TilesDone' = TilesDone
    BY <1>a DEF TilesDone
  <2>3. TilesAnnounced' = TilesAnnounced
    BY <2>1 DEF TilesAnnounced
  <2> QED BY <1>0, <1>a, <2>1, <2>2, <2>3 DEF TileInv
<1>1. ASSUME NEW j \in Jobs, Job(j) PROVE TileInv'
  <2>1. CASE Start(j)
    <3>1. at[j] = "idle" /\ at' = [at EXCEPT ![j] = "load"]
      BY <2>1 DEF Start, Pool!Begin, IInv, ControlInv
    <3> QED BY <1>0, <1>a, <2>1, <3>1 DEF Start, Early
  <2>2. CASE Load(j)
    <3> DEFINE c == IF fs[Src[j]].kind = "alpha" /\ ~o.decode THEN [fs[Src[j]] EXCEPT !.kind = "image"]
                    ELSE fs[Src[j]]
    <3>1. /\ at[j] = "load" /\ in' = [in EXCEPT ![j] = c] /\ UNCHANGED <<o, tiles, tileDone, tileTotal>>
          /\ \A i \in Jobs \ {j} : at'[i] = at[i] /\ in'[i] = in[i]
      BY <1>0, <2>2 DEF Load, counters
    <3>2. \A i \in Jobs \ {j} : (Usable(i)' <=> Usable(i)) /\ (Announced(i)' <=> Announced(i))
      BY <3>1 DEF Usable, Announced, IsCompression
    <3>3. Usable(j)' <=> (c.kind = "image" /\ ~o.decode) \/ c.kind = "stream"
      BY <1>0, <3>1 DEF Usable, IsCompression
    <3>4. at'[j] = IF ~Usable(j)' THEN "finish" ELSE IF Tiles[j] > 0 THEN "announce" ELSE "code"
      BY <1>0, <2>2, <3>3 DEF Load
    <3>5. ~Announced(j) /\ tiles[j] = 0
      BY <1>0, <3>1 DEF Announced, TileInv
    <3>6. Announced(j)' => Tiles[j] = 0
      BY <1>0, <3>4 DEF Announced
    <3>7. TilesDone' = TilesDone
      BY <3>1 DEF TilesDone
    <3>8. TilesAnnounced' = TilesAnnounced
      BY <1>0, <3>2, <3>5, <3>6 DEF TilesAnnounced
    <3>9. \A i \in Jobs : tiles'[i] <= Tiles[i] /\ (tiles'[i] > 0 => Announced(i)')
      BY <1>0, <3>1, <3>2, <3>5 DEF TileInv
    <3>10. \A i \in Jobs : at'[i] \in {"announce", "code"} => Usable(i)'
      BY <1>0, <3>1, <3>2, <3>4 DEF TileInv
    <3> QED BY <1>0, <3>1, <3>7, <3>8, <3>9, <3>10 DEF TileInv
  <2>3. CASE Announce(j)
    <3> DEFINE fresh == {j} \X (0..(Tiles[j] - 1))
    <3>1. /\ at[j] = "announce" /\ at' = [at EXCEPT ![j] = "code"] /\ UNCHANGED <<o, in, tiles, tileDone>>
          /\ tileTotal' = tileTotal + Tiles[j] /\ Usable(j)
      BY <1>0, <2>3 DEF Announce, TileInv
    <3>2. \A i \in Jobs : (Usable(i)' <=> Usable(i))
      BY <3>1 DEF Usable, IsCompression
    <3>3. Announced(j)' /\ ~Announced(j) /\ \A i \in Jobs \ {j} : Announced(i)' <=> Announced(i)
      BY <1>0, <3>1, <3>2 DEF Announced
    <3>4. TilesAnnounced' = TilesAnnounced \cup fresh /\ TilesAnnounced \cap fresh = {}
      <4>1. \A p \in Jobs \X Nat : p \in fresh <=> p[1] = j /\ p[2] < Tiles[j]
        BY <1>0
      <4>2. fresh \subseteq Jobs \X Nat
        BY <1>0
      <4> QED BY <3>3, <4>1, <4>2 DEF TilesAnnounced
    <3>5. IsFiniteSet(fresh) /\ Cardinality(fresh) = Tiles[j]
      BY <1>0, JobTiles
    <3> HIDE DEF fresh
    <3>6. IsFiniteSet(TilesAnnounced') /\ Cardinality(TilesAnnounced') = tileTotal + Tiles[j] - 0
      BY <1>0, <3>4, <3>5, FS_Union, FS_EmptySet DEF TileInv
    <3>7. Cardinality(TilesAnnounced') = tileTotal'
      BY <1>0, <3>1, <3>6
    <3>8. TilesDone' = TilesDone
      BY <3>1 DEF TilesDone
    <3>9. \A i \in Jobs : at'[i] \in {"announce", "code"} => Usable(i)'
      BY <1>0, <3>1, <3>2 DEF TileInv
    <3> QED BY <1>0, <3>1, <3>3, <3>6, <3>7, <3>8, <3>9 DEF TileInv
  <2>4. CASE TileEnds(j)
    <3>1. /\ at[j] = "code" /\ tiles[j] < Tiles[j] /\ tiles' = [tiles EXCEPT ![j] = @ + 1]
          /\ tileDone' = tileDone + 1 /\ UNCHANGED <<o, at, in, tileTotal>>
      BY <2>4 DEF TileEnds
    <3>2. \A i \in Jobs : (Usable(i)' <=> Usable(i)) /\ (Announced(i)' <=> Announced(i))
      BY <3>1 DEF Usable, Announced, IsCompression
    <3>3. Announced(j)
      BY <1>0, <3>1 DEF Announced, TileInv
    <3>4. TilesDone' = TilesDone \cup {<<j, tiles[j]>>} /\ <<j, tiles[j]>> \notin TilesDone
      BY <1>0, <3>1 DEF TilesDone
    <3>5. IsFiniteSet(TilesDone') /\ Cardinality(TilesDone') = tileDone'
      BY <1>0, <3>1, <3>4, FS_AddElement DEF TileInv
    <3>6. TilesAnnounced' = TilesAnnounced
      BY <3>2 DEF TilesAnnounced
    <3>7. \A i \in Jobs : tiles'[i] <= Tiles[i] /\ (tiles'[i] > 0 => Announced(i)')
      BY <1>0, <3>1, <3>2, <3>3 DEF TileInv
    <3> QED BY <1>0, <3>1, <3>2, <3>5, <3>6, <3>7 DEF TileInv
  <2>5. CASE Coded(j) \/ CodecThrows(j)
    BY <1>0, <1>a, <2>5 DEF Coded, CodecThrows, counters, Early
  <2>6. CASE Check(j)
    BY <1>0, <1>a, <2>6 DEF Check, CheckAs, counters, Early
  <2>7. CASE Open(j)
    BY <1>0, <1>a, <2>7 DEF Open, counters, Early
  <2>8. CASE Write(j)
    BY <1>0, <1>a, <2>8 DEF Write, counters, Early
  <2>9. CASE FinishAndCount(j)
    BY <1>0, <1>a, <2>9 DEF FinishAndCount, FinishAs, CountAs, Early
  <2>10. CASE Report(j)
    BY <1>0, <1>a, <2>10 DEF Report, ReportAs, counters, Early
  <2> QED BY <1>1, <2>1, <2>2, <2>3, <2>4, <2>5, <2>6, <2>7, <2>8, <2>9, <2>10 DEF Job
<1>2. CASE Reporter \/ Main \/ UNCHANGED vars
  <2>1. UNCHANGED <<o, at, in, tiles, tileDone, tileTotal>>
    BY <1>2, ReporterFrame, MainFrame, StutterFrame
  <2> QED BY <1>a, <2>1
<1> QED BY <1>1, <1>2, StepCases

LEMMA AnnouncedCoversDone == IInv => tileDone <= tileTotal
<1> SUFFICES ASSUME IInv PROVE tileDone <= tileTotal
  OBVIOUS
<1>1. TilesDone \subseteq TilesAnnounced
  BY BatchAssumption DEF IInv, TypeOK, TileInv, TilesDone, TilesAnnounced
<1> QED BY <1>1, FS_Subset DEF IInv, TileInv

LEMMA TileReadStep == IInv /\ [Next]_vars => TileReadInv'
<1> SUFFICES ASSUME IInv, [Next]_vars PROVE TileReadInv'
  OBVIOUS
<1>0. rep \in Reports /\ TileReadInv /\ tileDone \in Nat /\ tileTotal \in Nat /\ tileDone <= tileTotal
  BY AnnouncedCoversDone DEF IInv, TypeOK, Reports
<1>1. ASSUME NEW j \in Jobs, Job(j) PROVE TileReadInv'
  <2>1. rep' = rep
    BY <1>1, JobFrame
  <2>2. tileTotal' = tileTotal \/ tileTotal' = tileTotal + Tiles[j]
    BY <1>1 DEF Job, Start, Load, Announce, TileEnds, Coded, CodecThrows, Check, CheckAs, Open, Write,
       FinishAndCount, FinishAs, CountAs, Report, ReportAs, counters
  <2>3. tileTotal' \in Nat /\ tileTotal' >= tileTotal
    BY <1>0, <2>2, BatchAssumption
  <2> QED BY <1>0, <2>1, <2>3 DEF TileReadInv, Reports
<1>2. CASE Reporter
  <2>0. tileTotal' = tileTotal
    BY <1>2, ReporterFrame
  <2> USE <1>0, <2>0 DEF TileReadInv, Reports, ReporterReads
  <2>1. CASE Wake
    BY <2>1 DEF Wake, Restarted
  <2>2. CASE Draw
    BY <2>2 DEF Draw, Restarted
  <2>3. CASE ReadDone \/ ReadState
    BY <2>3 DEF ReadDone, ReadState
  <2>4. CASE ReadTileDone \/ ReadTileTotal
    BY <2>4 DEF ReadTileDone, ReadTileTotal
  <2> QED BY <1>2, <2>1, <2>2, <2>3, <2>4 DEF Reporter
<1>3. CASE Main \/ UNCHANGED vars
  <2>1. UNCHANGED <<rep, tileTotal>>
    BY <1>3, MainFrame, StutterFrame
  <2> QED BY <1>0, <2>1 DEF TileReadInv
<1> QED BY <1>1, <1>2, <1>3, StepCases

LEMMA ConsoleStep == IInv /\ [Next]_vars => ConsoleInv'
<1> SUFFICES ASSUME IInv, [Next]_vars PROVE ConsoleInv'
  OBVIOUS
<1>0. /\ screen \in {"clean", "status"} /\ progOn \in BOOLEAN /\ rep \in Reports
      /\ ConsoleInv /\ (main # "run" => caller = "returned")
      /\ main \in {"run", "halted", "joined", "cleared", "exit"}
  BY DEF IInv, TypeOK, Reports, ControlInv
\* Clearing the line removes whatever status was drawn.
<1>a. Cleared = "clean"
  BY <1>0 DEF ConsoleInv, Cleared
<1>1. ASSUME NEW j \in Jobs, Job(j) PROVE ConsoleInv'
  <2>1. UNCHANGED <<o, rep, main>>
    BY <1>1, JobFrame
  <2>2. CASE Report(j) /\ (Verbose \/ ~ok[j])
    BY <1>0, <1>a, <2>1, <2>2 DEF ConsoleInv, Report, ReportAs, EmitLine, PrintOver, Pool!End, Tty
  <2>3. CASE Load(j)
    <3>1. CASE UNCHANGED console
      BY <1>0, <2>1, <3>1 DEF ConsoleInv, Tty, console
    <3>2. CASE LoaderRemarks /\ fs[Src[j]].kind \in Remarked /\ ~o.decode
      <4>1. o.fs[Src[j]].kind \in Remarked
        BY <3>2, BatchAssumption DEF IInv, SourceInv
      <4>2. screen # "clean" => Tty
        BY <1>0 DEF ConsoleInv
      <4>3. /\ screen' = "clean" /\ progOn' = progOn
            /\ "loader" \in mixed' => "loader" \in mixed \/ Tty
            /\ "result" \in mixed' => "result" \in mixed
        BY <3>2, <4>2 DEF LoaderRemarks, PrintOver
      <4> QED BY <1>0, <2>1, <3>2, <4>1, <4>3 DEF ConsoleInv, Tty
    <3> QED BY <2>3, <3>1, <3>2 DEF Load
  <2>4. CASE ~ (Report(j) /\ (Verbose \/ ~ok[j])) /\ ~Load(j)
    <3>1. UNCHANGED <<screen, progOn, mixed>>
      BY <1>1, <2>4 DEF Job, Start, Announce, TileEnds, Coded, CodecThrows, Check, CheckAs, Open, Write,
         FinishAndCount, FinishAs, CountAs, Report, ReportAs, console
    <3> QED BY <1>0, <2>1, <3>1 DEF ConsoleInv, Tty
  <2> QED BY <2>2, <2>3, <2>4
<1>2. CASE Reporter
  <2>1. UNCHANGED <<o, main>>
    BY <1>2, ReporterFrame
  <2>2. CASE Draw
    <3>1. rep.pc = "emit" /\ main \notin {"joined", "cleared", "exit"}
      BY <1>0, <2>2 DEF Draw, ConsoleInv
    <3>2. CASE EmitProgress
      BY <1>0, <2>1, <3>1, <3>2 DEF EmitProgress, ConsoleInv, Tty
    <3>3. CASE UNCHANGED console
      BY <1>0, <2>1, <3>1, <3>3 DEF ConsoleInv, Tty, console
    <3> QED BY <2>2, <3>2, <3>3 DEF Draw
  <2>3. CASE ~Draw
    <3>1. UNCHANGED <<screen, progOn, mixed>> /\ rep.pc # "exited"
      BY <1>2, <2>3 DEF Reporter, Wake, ReadDone, ReadTileDone, ReadTileTotal, ReadState, ReporterReads, console
    <3> QED BY <1>0, <2>1, <3>1 DEF ConsoleInv, Tty
  <2> QED BY <2>2, <2>3
<1>3. CASE Main
  <2>1. UNCHANGED <<o, rep>>
    BY <1>3, MainFrame
  <2>2. CASE ClearLine
    BY <1>0, <1>a, <2>1, <2>2 DEF ClearLine, MainStep, ConsoleInv, Tty
  <2>3. CASE PoolReturns \/ SetHalt
    BY <1>0, <2>1, <2>3 DEF PoolReturns, SetHalt, MainStep, ConsoleInv, Tty, console
  <2>4. CASE JoinReporter \/ Summary
    BY <1>0, <2>1, <2>4 DEF JoinReporter, Summary, MainStep, ConsoleInv, Tty, console
  <2> QED BY <1>3, <2>2, <2>3, <2>4 DEF Main
<1>4. CASE UNCHANGED vars
  BY <1>0, <1>4, StutterFrame DEF ConsoleInv, Tty
<1> QED BY <1>1, <1>2, <1>3, <1>4, StepCases

LEMMA SourceStep == IInv /\ [Next]_vars => SourceInv'
<1> SUFFICES ASSUME IInv, [Next]_vars PROVE SourceInv'
  OBVIOUS
<1>0. fs \in [Files -> Contents] /\ SourceInv
  BY DEF IInv, TypeOK
<1>1. ASSUME NEW j \in Jobs, Job(j) PROVE SourceInv'
  <2>0. o' = o
    BY <1>1, JobFrame
  \* What a job writes is nothing the loader would remark on.
  <2>a. ASSUME NEW f, NEW v \in {"stream", "image", "mixed", "partial"},
               fs' = [fs EXCEPT ![f] = [kind |-> v, by |-> j]]
        PROVE  SourceInv'
    BY <1>0, <2>0, <2>a DEF SourceInv, Remarked
  <2>1. CASE fs' = fs
    BY <1>0, <2>0, <2>1 DEF SourceInv
  <2>2. CASE Open(j)
    BY <2>1, <2>2, <2>a DEF Open
  <2>3. CASE Write(j)
    <3>1. \A v : v \in {Wholly(j), "mixed"} => v \in {"stream", "image", "mixed", "partial"}
      BY DEF Wholly
    <3> QED BY <2>1, <2>3, <2>a, <3>1 DEF Write
  <2>4. CASE ~Open(j) /\ ~Write(j)
    BY <1>1, <2>1, <2>4 DEF Job, Start, Load, Announce, TileEnds, Coded, CodecThrows, Check, CheckAs,
       FinishAndCount, FinishAs, CountAs, Report, ReportAs
  <2> QED BY <2>2, <2>3, <2>4
<1>2. CASE Reporter \/ Main \/ UNCHANGED vars
  <2>1. UNCHANGED <<o, fs>>
    BY <1>2, ReporterFrame, MainFrame, StutterFrame
  <2> QED BY <1>0, <2>1 DEF SourceInv
<1> QED BY <1>1, <1>2, StepCases

LEMMA LineStep == IInv /\ [Next]_vars => LineInv'
<1> SUFFICES ASSUME IInv, [Next]_vars PROVE LineInv'
  OBVIOUS
<1>0. /\ at \in [Jobs -> Places] /\ ok \in [Jobs -> BOOLEAN] /\ LineInv
      /\ \A i \in Jobs : ok[i] => at[i] \in {"finish", "count", "emit", "over"}
  BY DEF IInv, TypeOK, Places, FileInv
<1>1. ASSUME NEW j \in Jobs, Job(j) PROVE LineInv'
  <2>1. CASE Report(j)
    BY <1>0, <2>1 DEF LineInv, Report, ReportAs, EmitLine, console
  <2>2. CASE Write(j)
    BY <1>0, <2>2 DEF LineInv, Write, console
  <2>3. CASE ~Report(j) /\ ~Write(j)
    <3>1. UNCHANGED <<ok, lines>>
      BY <1>1, <2>3 DEF Job, Start, Load, LoaderRemarks, Announce, TileEnds, Coded, CodecThrows, Check, CheckAs,
         Open, FinishAndCount, FinishAs, CountAs, console
    <3>2. \A i \in Jobs : at'[i] = "over" => at[i] = "over"
      BY <1>0, <1>1, <2>3 DEF Job, Start, Load, Announce, TileEnds, Coded, CodecThrows, Check, CheckAs, Open,
         FinishAndCount, FinishAs, CountAs
    <3> QED BY <1>0, <3>1, <3>2 DEF LineInv
  <2> QED BY <2>1, <2>2, <2>3
<1>2. CASE Reporter
  BY <1>0, <1>2, ReporterFrame DEF LineInv, Reporter, Wake, ReadDone, ReadTileDone, ReadTileTotal, ReadState,
     ReporterReads, Draw, EmitProgress, console
<1>3. CASE Main
  BY <1>0, <1>3, MainFrame DEF LineInv, Main, PoolReturns, SetHalt, JoinReporter, ClearLine, Summary, MainStep, console
<1>4. CASE UNCHANGED vars
  BY <1>0, <1>4, StutterFrame DEF LineInv
<1> QED BY <1>1, <1>2, <1>3, <1>4, StepCases

Loaded(j) == at[j] \notin {"idle", "load"}

\* A job that has loaded its source stays loaded, and keeps its output.
LEMMA LoadedStays ==
    ASSUME IInv, NEW j \in Jobs, Job(j)
    PROVE  /\ o' = o
           /\ \A i \in Jobs : i # j => at'[i] = at[i] /\ in'[i] = in[i]
           /\ \A i \in Jobs : Loaded(i) => Loaded(i)' /\ in'[i] = in[i]
<1>0. at \in [Jobs -> Places] /\ in \in [Jobs -> Contents] /\ o' = o
  BY JobFrame DEF IInv, TypeOK, Places
<1> USE DEF Loaded, Places
<1>1. CASE Start(j)
  BY <1>0, <1>1 DEF Start, Pool!Begin, IInv, ControlInv
<1>2. CASE Load(j)
  BY <1>0, <1>2 DEF Load
<1>3. CASE Announce(j) \/ TileEnds(j) \/ Coded(j) \/ CodecThrows(j)
  BY <1>0, <1>3 DEF Announce, TileEnds, Coded, CodecThrows
<1>4. CASE Check(j) \/ Open(j) \/ Write(j)
  BY <1>0, <1>4 DEF Check, CheckAs, Open, Write
<1>5. CASE FinishAndCount(j) \/ Report(j)
  BY <1>0, <1>5 DEF FinishAndCount, FinishAs, CountAs, Report, ReportAs
<1> QED BY <1>1, <1>2, <1>3, <1>4, <1>5 DEF Job

LEMMA OutStays ==
    ASSUME IInv, NEW j \in Jobs, Job(j)
    PROVE  \A i \in Jobs : Loaded(i) =>
              /\ Out(i)' = Out(i) /\ Kept(i)' = Kept(i)
              /\ Clashes(i) => Clashes(i)'
<1>1. \A i \in Jobs : Loaded(i) => Out(i)' = Out(i) /\ Kept(i)' = Kept(i)
  <2>1. \A i \in Jobs : Loaded(i) => (IsCompression(i)' <=> IsCompression(i)) /\ o' = o
    BY LoadedStays DEF IsCompression
  <2> QED BY <2>1 DEF Out, Kept, Wholly
<1>2. ASSUME NEW i \in Jobs, Loaded(i), Clashes(i) PROVE Clashes(i)'
  <2>1. PICK x \in Jobs \ {i} : Loaded(x) /\ Out(x) = Out(i)
    BY <1>2 DEF Clashes, Loaded
  <2>2. Loaded(x)' /\ Out(x)' = Out(i)'
    BY <1>1, <1>2, <2>1, LoadedStays
  <2> QED BY <2>1, <2>2 DEF Clashes, Loaded
<1> QED BY <1>1, <1>2

LEMMA OutIsFile == IInv => \A j \in Jobs : Out(j) \in Files
BY BatchAssumption DEF Out

LEMMA FileStep == IInv /\ [Next]_vars => FileInv'
<1> SUFFICES ASSUME IInv, [Next]_vars PROVE FileInv'
  OBVIOUS
<1>0. /\ at \in [Jobs -> Places] /\ ok \in [Jobs -> BOOLEAN] /\ fs \in [Files -> Contents] /\ FileInv
      /\ \A i \in Jobs : Out(i) \in Files
  BY OutIsFile DEF IInv, TypeOK, Places
<1>1. ASSUME NEW j \in Jobs, Job(j) PROVE FileInv'
  <2>0. /\ o' = o
        /\ \A i \in Jobs : i # j => at'[i] = at[i] /\ in'[i] = in[i]
        /\ \A i \in Jobs : Loaded(i) => Loaded(i)' /\ in'[i] = in[i]
    BY <1>1, LoadedStays
  <2>a. \A i \in Jobs : Loaded(i) =>
              /\ Out(i)' = Out(i) /\ Kept(i)' = Kept(i)
              /\ Clashes(i) => Clashes(i)'
    BY <1>1, OutStays
  \* A step that writes no file, and after which j claims nothing new.
  <2>b. ASSUME UNCHANGED <<fs, ok>>, at'[j] \notin {"open", "write"},
               ok[j] => at'[j] \in {"finish", "count", "emit", "over"}
        PROVE  FileInv'
    <3> USE <1>0, <2>0, <2>a, <2>b DEF FileInv, Loaded
    <3>1. \A i \in Jobs : ok'[i] => at'[i] \in {"finish", "count", "emit", "over"}
      OBVIOUS
    <3>2. \A i \in Jobs : at'[i] = "open" /\ ~o'.force => ~Exists(Out(i))' \/ Clashes(i)'
      BY DEF Exists
    <3>3. \A i \in Jobs : at'[i] = "write" =>
             fs'[Out(i)'] = [kind |-> "partial", by |-> i] \/ Clashes(i)'
      OBVIOUS
    <3>4. \A i \in Jobs : ok'[i] =>
            \/ Clashes(i)'
            \/ /\ fs'[Out(i)'].by = i
               /\ fs'[Out(i)'].kind \in Kept(i)'
      OBVIOUS
    <3> QED BY <3>1, <3>2, <3>3, <3>4
  \* What the others may rely on when j writes its own output.
  <2>c. ASSUME NEW v, fs' = [fs EXCEPT ![Out(j)] = v], Loaded(j), NEW i \in Jobs \ {j}, Loaded(i)
        PROVE  fs'[Out(i)'] = fs[Out(i)] \/ Clashes(i)'
    <3>1. CASE Out(i) = Out(j)
      BY <2>0, <2>a, <2>c, <3>1 DEF Clashes, Loaded
    <3>2. CASE Out(i) # Out(j)
      BY <1>0, <2>a, <2>c, <3>2
    <3> QED BY <3>1, <3>2
  <2>1. CASE Start(j)
    BY <1>0, <2>1, <2>b DEF Start, Pool!Begin, IInv, ControlInv, FileInv
  <2>2. CASE Load(j)
    BY <1>0, <2>2, <2>b DEF Load, FileInv
  <2>3. CASE Announce(j) \/ TileEnds(j) \/ Coded(j) \/ CodecThrows(j)
    BY <1>0, <2>3, <2>b DEF Announce, TileEnds, Coded, CodecThrows, FileInv
  <2>4. CASE Check(j)
    <3>1. /\ UNCHANGED <<fs, ok, o>> /\ at[j] = "check" /\ at'[j] \in {"finish", "open"}
          /\ at'[j] = "open" /\ ~o.force => ~Exists(Out(j))
      BY <1>0, <2>4 DEF Check, CheckAs
    <3>2. ~ok[j] /\ Loaded(j)
      BY <1>0, <3>1 DEF FileInv, Loaded
    <3> USE <1>0, <2>0, <2>a, <3>1, <3>2 DEF FileInv, Loaded
    <3>3. \A i \in Jobs : at'[i] = "open" /\ ~o'.force => ~Exists(Out(i))' \/ Clashes(i)'
      BY DEF Exists
    <3>4. \A i \in Jobs : at'[i] = "write" =>
             fs'[Out(i)'] = [kind |-> "partial", by |-> i] \/ Clashes(i)'
      OBVIOUS
    <3>5. \A i \in Jobs : ok'[i] =>
            \/ Clashes(i)'
            \/ /\ fs'[Out(i)'].by = i
               /\ fs'[Out(i)'].kind \in Kept(i)'
      OBVIOUS
    <3> QED BY <3>3, <3>4, <3>5
  <2>5. CASE Open(j)
    <3> DEFINE mine == [kind |-> "partial", by |-> j]
    <3>1. /\ at[j] = "open" /\ ok' = ok /\ Loaded(j)
          /\ \/ fs' = [fs EXCEPT ![Out(j)] = mine] /\ at' = [at EXCEPT ![j] = "write"]
             \/ fs' = fs /\ at' = [at EXCEPT ![j] = "finish"]
      BY <2>5 DEF Open, Loaded
    <3>2. ~ok[j]
      BY <1>0, <3>1 DEF FileInv
    <3>3. CASE fs' = fs /\ at' = [at EXCEPT ![j] = "finish"]
      BY <1>0, <2>b, <3>1, <3>2, <3>3
    <3>4. CASE fs' = [fs EXCEPT ![Out(j)] = mine] /\ at' = [at EXCEPT ![j] = "write"]
      <4>1. \A i \in Jobs \ {j} : Loaded(i) => fs'[Out(i)'] = fs[Out(i)] \/ Clashes(i)'
        BY <2>c, <3>1, <3>4
      <4>2. at'[j] = "write" /\ fs'[Out(j)'] = mine
        BY <1>0, <2>a, <3>1, <3>4
      <4> HIDE DEF mine
      <4> USE <1>0, <2>0, <2>a, <3>1, <3>2, <4>1, <4>2 DEF FileInv, Loaded
      <4>3. \A i \in Jobs : at'[i] = "open" /\ ~o'.force => ~Exists(Out(i))' \/ Clashes(i)'
        BY DEF Exists
      <4>4. \A i \in Jobs : at'[i] = "write" =>
               fs'[Out(i)'] = [kind |-> "partial", by |-> i] \/ Clashes(i)'
        BY DEF mine
      <4>5. \A i \in Jobs : ok'[i] =>
              \/ Clashes(i)'
              \/ /\ fs'[Out(i)'].by = i
                 /\ fs'[Out(i)'].kind \in Kept(i)'
        OBVIOUS
      <4> QED BY <4>3, <4>4, <4>5
    <3> QED BY <3>1, <3>3, <3>4
  <2>6. CASE Write(j)
    <3> DEFINE own == fs[Out(j)] = [kind |-> "partial", by |-> j]
               whole == [kind |-> IF own THEN Wholly(j) ELSE "mixed", by |-> j]
    <3>1. /\ at[j] = "write" /\ at' = [at EXCEPT ![j] = "finish"] /\ Loaded(j)
          /\ \A i \in Jobs \ {j} : ok'[i] = ok[i]
          /\ fs' = [fs EXCEPT ![Out(j)] = whole] \/ (fs' = fs /\ o.full)
      BY <1>0, <2>6 DEF Write, Loaded
    <3>2. own \/ Clashes(j)
      BY <1>0, <3>1 DEF FileInv
    <3>3. \A i \in Jobs \ {j} : Loaded(i) => fs'[Out(i)'] = fs[Out(i)] \/ Clashes(i)'
      BY <2>a, <2>c, <3>1
    <3>4. \/ Clashes(j)'
          \/ fs'[Out(j)'].by = j /\ fs'[Out(j)'].kind \in Kept(j)'
      BY <1>0, <2>a, <3>1, <3>2 DEF Kept
    <3> USE <1>0, <2>0, <2>a, <3>1, <3>3, <3>4 DEF FileInv, Loaded
    <3> HIDE DEF own, whole
    <3>5. \A i \in Jobs : ok'[i] => at'[i] \in {"finish", "count", "emit", "over"}
      OBVIOUS
    <3>6. \A i \in Jobs : at'[i] = "open" /\ ~o'.force => ~Exists(Out(i))' \/ Clashes(i)'
      BY DEF Exists
    <3>7. \A i \in Jobs : at'[i] = "write" =>
             fs'[Out(i)'] = [kind |-> "partial", by |-> i] \/ Clashes(i)'
      OBVIOUS
    <3>8. \A i \in Jobs : ok'[i] =>
            \/ Clashes(i)'
            \/ /\ fs'[Out(i)'].by = i
               /\ fs'[Out(i)'].kind \in Kept(i)'
      OBVIOUS
    <3> QED BY <3>5, <3>6, <3>7, <3>8
  <2>7. CASE FinishAndCount(j)
    BY <1>0, <2>7, <2>b DEF FinishAndCount, FinishAs, CountAs, FileInv
  <2>8. CASE Report(j)
    BY <1>0, <2>8, <2>b DEF Report, ReportAs, FileInv
  <2> QED BY <1>1, <2>1, <2>2, <2>3, <2>4, <2>5, <2>6, <2>7, <2>8 DEF Job
<1>2. CASE Reporter \/ Main \/ UNCHANGED vars
  <2>1. UNCHANGED <<o, at, in, ok, fs>>
    BY <1>2, ReporterFrame, MainFrame, StutterFrame
  <2> QED BY <1>0, <2>1 DEF FileInv, Clashes, Exists, Out, IsCompression, Kept, Wholly
<1> QED BY <1>1, <1>2, StepCases

LEMMA TypeStep == IInv /\ [Next]_vars => TypeOK'
<1> SUFFICES ASSUME IInv, [Next]_vars PROVE TypeOK'
  OBVIOUS
<1>0. TypeOK /\ at \in [Jobs -> Places] /\ rep \in Reports
  BY DEF IInv, TypeOK, Places, Reports
\* n_done stays within the number of jobs because it counts them.
<1>a. nDone' \in 0..NJobs
  <2>1. nDone' = Cardinality(Counted') /\ Counted' \subseteq Jobs
    BY CountStep DEF CountInv, Counted
  <2> QED BY <2>1, SomeJobs
<1>1. ASSUME NEW j \in Jobs, Job(j) PROVE TypeOK'
  <2> USE <1>0, <1>a, <1>1 DEF TypeOK, Pool!FETypeOK
  <2>1. CASE Start(j)
    BY <2>1 DEF Start, Pool!Begin, console
  <2>2. CASE Load(j)
    <3>1. fs[Src[j]] \in Contents /\ [fs[Src[j]] EXCEPT !.kind = "image"] \in Contents
      <4>1. Src[j] \in Files /\ fs \in [Files -> Contents]
        BY BatchAssumption
      <4>2. fs[Src[j]] \in [kind : Kinds, by : {-1} \cup Jobs] /\ "image" \in Kinds
        BY <4>1 DEF Contents, Kinds
      <4> QED BY <4>2 DEF Contents
    <3>2. in' \in [Jobs -> Contents] /\ at' \in [Jobs -> Places]
      BY <2>2, <3>1 DEF Load, Places
    <3>3. /\ UNCHANGED <<o, call, caller, tiles, ok, counters, fs, rep, main, progOn, lines>>
          /\ screen' \in {"clean", screen} /\ mixed' \subseteq mixed \cup {"loader"}
      BY <2>2 DEF Load, LoaderRemarks, PrintOver, console
    <3> QED BY <3>2, <3>3 DEF counters, Places
  <2>3. CASE Announce(j)
    <3>1. Tiles[j] \in Nat /\ tileTotal \in Nat /\ tileTotal' = tileTotal + Tiles[j]
      BY <2>3, BatchAssumption DEF Announce
    <3>2. at' \in [Jobs -> Places]
      BY <2>3 DEF Announce, Places
    <3> QED BY <2>3, <3>1, <3>2 DEF Announce, console, Places
  <2>4. CASE TileEnds(j)
    BY <2>4 DEF TileEnds, console
  <2>11. CASE Coded(j)
    <3>1. at' \in [Jobs -> Places]
      BY <2>11 DEF Coded, Places
    <3>2. UNCHANGED <<o, call, caller, in, tiles, ok, counters, fs, console, rep, main>>
      BY <2>11 DEF Coded
    <3> QED BY <3>1, <3>2 DEF counters, console, Places
  <2>5. CASE CodecThrows(j)
    BY <2>5 DEF CodecThrows, Pool!RaiseFrom, Pool!End, counters, console
  <2>6. CASE Check(j)
    BY <2>6 DEF Check, CheckAs, counters, console
  <2>7. CASE Open(j)
    <3>1. [kind |-> "partial", by |-> j] \in Contents
      BY DEF Contents, Kinds
    <3> QED BY <2>7, <3>1 DEF Open, counters, console
  <2>8. CASE Write(j)
    <3>1. \A v \in {"stream", "image", "mixed"} : [kind |-> v, by |-> j] \in Contents
      BY DEF Contents, Kinds
    <3>2. fs' \in [Files -> Contents]
      BY <2>8, <3>1 DEF Write, Wholly
    <3>3. at' \in [Jobs -> Places] /\ ok' \in [Jobs -> BOOLEAN]
      BY <2>8 DEF Write, Places
    <3>4. UNCHANGED <<o, call, caller, in, tiles, counters, console, rep, main>>
      BY <2>8 DEF Write
    <3> QED BY <3>2, <3>3, <3>4 DEF counters, console, Places
  <2>9. CASE FinishAndCount(j)
    <3>1. at' \in [Jobs -> Places] /\ state' \in [Jobs -> 0..2]
      BY <2>9 DEF FinishAndCount, FinishAs, CountAs, Places
    <3>2. UNCHANGED <<o, call, caller, in, tiles, ok, tileDone, tileTotal, fs, console, rep, main>>
      BY <2>9 DEF FinishAndCount, FinishAs, CountAs
    <3> QED BY <3>1, <3>2 DEF console, Places
  <2>10. CASE Report(j)
    <3>1. UNCHANGED <<o, in, tiles, ok, state, nDone, tileDone, tileTotal, fs, rep, main>>
      BY <2>10 DEF Report, ReportAs, counters
    <3>2. screen' \in {"clean", "status"} /\ progOn' \in BOOLEAN /\ mixed' \subseteq {"result", "loader"}
      BY <2>10 DEF Report, ReportAs, EmitLine, PrintOver, console
    <3>3. lines' \subseteq Jobs
      BY <2>10 DEF Report, ReportAs, EmitLine, console
    <3> QED BY <2>10, <3>1, <3>2, <3>3 DEF Report, ReportAs, Pool!End
  <2> QED BY <2>1, <2>2, <2>3, <2>4, <2>5, <2>6, <2>7, <2>8, <2>9, <2>10, <2>11 DEF Job
<1>2. CASE Reporter
  <2>1. UNCHANGED <<o, call, caller, at, in, tiles, ok, state, nDone, tileDone, tileTotal, fs, main>>
    BY <1>2, ReporterFrame
  <2>2. /\ screen' \in {"clean", "status"} /\ progOn' \in BOOLEAN /\ lines' \subseteq Jobs /\ mixed' = mixed
    BY <1>0, <1>2 DEF TypeOK, Reporter, Wake, ReadDone, ReadTileDone, ReadTileTotal, ReadState, ReporterReads,
       Draw, EmitProgress, console
  <2>3. rep' \in Reports
    <3> USE <1>0 DEF Reports, ReporterReads, Restarted
    <3>0. NJobs \in Nat
      BY JobsFinite
    <3>1. CASE Wake \/ Draw
      BY <3>0, <3>1 DEF Wake, Draw
    <3>2. CASE ReadDone \/ ReadTileDone \/ ReadTileTotal
      BY <3>2 DEF ReadDone, ReadTileDone, ReadTileTotal, TypeOK
    <3>3. CASE ReadState
      BY <3>3 DEF ReadState
    <3> QED BY <1>2, <3>1, <3>2, <3>3 DEF Reporter
  <2> QED BY <1>0, <2>1, <2>2, <2>3 DEF TypeOK, Pool!FETypeOK, Reports
<1>3. CASE Main
  BY <1>0, <1>3, MainFrame DEF TypeOK, Pool!FETypeOK, Main, PoolReturns, Pool!Return, SetHalt, JoinReporter,
     ClearLine, Cleared, Summary, MainStep, console
<1>4. CASE UNCHANGED vars
  BY <1>0, <1>4, StutterFrame DEF TypeOK, Pool!FETypeOK
<1> QED BY <1>1, <1>2, <1>3, <1>4, StepCases

LEMMA InitIInv == Init => IInv
<1> SUFFICES ASSUME Init PROVE IInv
  OBVIOUS
<1> USE DEF Init, Pool!FEInit
<1>0. /\ o \in OptionRecords /\ \A j \in Jobs : at[j] = "idle" /\ call[j] = "idle"
  BY BatchAssumption
<1>1. TypeOK
  <2>1. 0 \in 0..NJobs
    BY JobsFinite
  <2>2. Absent \in Contents
    BY DEF Absent, Contents, Kinds
  <2>3. rep \in Reports
    BY <2>1 DEF Reports, Restarted
  <2>4. o \in Options /\ fs \in [Files -> Contents] /\ in \in [Jobs -> Contents]
    BY <1>0, <2>2 DEF OptionRecords
  <2>5. nDone \in 0..NJobs /\ tileDone \in Nat /\ tileTotal \in Nat /\ lines \subseteq Jobs /\ mixed = {}
    BY <2>1
  <2>6. at \in [Jobs -> Places] /\ tiles \in [Jobs -> Nat] /\ ok \in [Jobs -> BOOLEAN]
    BY DEF Places
  <2>7. state \in [Jobs -> 0..2] /\ Pool!FETypeOK
    BY DEF Pool!FETypeOK
  <2>8. screen = "clean" /\ progOn = FALSE /\ main = "run"
    OBVIOUS
  <2> HIDE DEF Init, Pool!FEInit
  <2> QED BY <2>3, <2>4, <2>5, <2>6, <2>7, <2>8 DEF TypeOK, Reports, Places
<1>2. ControlInv /\ ThrowInv /\ ConsoleInv /\ SourceInv /\ LineInv /\ TileReadInv
  BY DEF ControlInv, ThrowInv, ConsoleInv, SourceInv, LineInv, TileReadInv, Restarted
<1>3. ThreadInv /\ CountInv
  <2>1. Running = {} /\ Counted = {}
    BY <1>0 DEF Running, Counted
  <2>2. Cardinality({}) = 0 /\ NThreads \in Nat
    BY <1>0, FS_EmptySet DEF NThreads, OptionRecords
  <2> QED BY <2>1, <2>2 DEF ThreadInv, CountInv, Restarted
<1>4. TileInv
  <2>1. TilesDone = {} /\ TilesAnnounced = {}
    BY <1>0 DEF TilesDone, TilesAnnounced, Announced
  <2> QED BY <1>0, <2>1, BatchAssumption, FS_EmptySet DEF TileInv
<1>5. FileInv
  BY <1>0 DEF FileInv
<1> QED BY <1>1, <1>2, <1>3, <1>4, <1>5 DEF IInv

LEMMA NextIInv == IInv /\ [Next]_vars => IInv'
BY TypeStep, ControlStep, ThrowStep, ThreadStep, CountStep, TileStep, TileReadStep, ConsoleStep, SourceStep,
   LineStep, FileStep DEF IInv

-----------------------------------------------------------------------------

\* The strengthening that all the following theorems come from.
THEOREM Invariant == Spec => []IInv
BY InitIInv, NextIInv, PTL DEF Spec

\* Every variable keeps its type; in particular n_done never exceeds the
\* number of jobs, although every worker adds to it.
THEOREM TypeCorrect == Spec => []TypeOK
<1>1. IInv => TypeOK
  BY DEF IInv
<1> QED BY <1>1, Invariant, PTL

\* What the reporter has read one counter after the other fits together when
\* it draws: finished and listed jobs are at most all jobs, and the tiles
\* that are done were announced.
THEOREM StatusLineFits == Spec => []StatusLineConsistent
<1>1. IInv => StatusLineConsistent
  BY DEF IInv, CountInv, TileReadInv, StatusLineConsistent
<1> QED BY <1>1, Invariant, PTL

\* An exception that a worker of the pool has swallowed (the hazard at
\* mtnbli.cpp:1077): the rest of that job's lambda was skipped.
ExceptionSwallowed == ~Inline /\ \E j \in Jobs : at[j] = "thrown"

\* The status line names at most one file per thread; nothing but an
\* exception swallowed by a worker can make it name more.
THEOREM NamesOneFilePerThread == Spec => [](OneFilePerThread \/ ExceptionSwallowed)
<1>1. IInv => OneFilePerThread \/ ExceptionSwallowed
  <2> SUFFICES ASSUME IInv, ~ExceptionSwallowed PROVE OneFilePerThread
    OBVIOUS
  <2> DEFINE Shown == {j \in Jobs : state[j] = 1}
  <2>0. NThreads \in Nat \ {0} /\ Shown \subseteq Jobs /\ Running \subseteq Jobs
    BY BatchAssumption DEF IInv, TypeOK, NThreads, OptionRecords, Running
  <2>1. CASE \A j \in Jobs : at[j] # "thrown"
    <3>1. Shown \subseteq Running
      BY <2>1 DEF IInv, TypeOK, Pool!FETypeOK, ControlInv, Running
    <3>2. IsFiniteSet(Running) /\ Cardinality(Running) \in 0..NJobs /\ Cardinality(Shown) \in 0..NJobs
      BY <2>0, SomeJobs
    <3>3. Cardinality(Shown) <= Cardinality(Running)
      BY <3>1, <3>2, FS_Subset
    <3> QED BY <2>0, <3>2, <3>3, JobsFinite DEF IInv, ThreadInv, OneFilePerThread
  <2>2. CASE \E j \in Jobs : at[j] = "thrown"
    <3>1. caller = "raised"
      BY <2>2 DEF IInv, ThrowInv, ExceptionSwallowed
    <3>2. PICK j \in Jobs : Shown \subseteq {j}
      BY <3>1 DEF IInv, ThrowInv
    <3>3. IsFiniteSet({j}) /\ Cardinality({j}) = 1
      BY FS_Singleton
    <3>4. Cardinality(Shown) <= 1 /\ Cardinality(Shown) \in 0..NJobs
      BY <2>0, <3>2, <3>3, FS_Subset, SomeJobs
    <3> QED BY <2>0, <3>4, JobsFinite DEF OneFilePerThread
  <2> QED BY <2>1, <2>2
<1> QED BY <1>1, Invariant, PTL

\* No result line hits a status line, and once main has cleared the line the
\* summary starts on a clean one, whatever the reporter was doing when it was
\* told to halt.  Parts of a status line stay on the console only where the PNG
\* loader printed over it, which takes a source it has something to say about.
THEOREM ConsoleLeftClean == Spec => []ScreenCleanAtExit
<1>1. IInv => ScreenCleanAtExit
  BY DEF IInv, ConsoleInv, ScreenCleanAtExit
<1> QED BY <1>1, Invariant, PTL

\* When main returns, every job that failed got its line, unless an exception
\* was swallowed by a worker.
THEOREM FailuresAreReported == Spec => [](FailureReported \/ ExceptionSwallowed)
<1>1. IInv => FailureReported \/ ExceptionSwallowed
  <2> SUFFICES ASSUME IInv, ~ExceptionSwallowed, main = "exit", NEW j \in Jobs
               PROVE  ok[j] \/ j \in lines
    BY DEF FailureReported
  <2>1. caller = "returned" /\ call[j] = "over"
    BY DEF IInv, ControlInv
  <2>2. at[j] = "over"
    BY <2>1 DEF IInv, ControlInv, ThrowInv, ExceptionSwallowed
  <2> QED BY <2>2 DEF IInv, LineInv
<1> QED BY <1>1, Invariant, PTL

\* Two jobs never make the same file.
OutputsDiffer == \A i, j \in Jobs : i # j => Out(i) # Out(j)

\* When the outputs of all jobs differ, a job reported as successful has left
\* its own output and nobody else's: all of it, or at least its beginning when
\* the disk was full (no one looks at the result of fclose).
THEOREM SuccessMeansWritten == Spec => [](OutputsDiffer => OkMeansWritten)
<1>1. IInv => (OutputsDiffer => OkMeansWritten)
  BY DEF IInv, FileInv, Clashes, OutputsDiffer, OkMeansWritten
<1> QED BY <1>1, Invariant, PTL

\* The names derived for different jobs have nothing in common, whether the
\* jobs turn out to compress or to decompress.
DistinctNames ==
    \A i, j \in Jobs : i # j =>
        {Compressed[i], Expanded[i]} \cap {Compressed[j], Expanded[j]} = {}

\* Without -f no existing file is changed except by the job that is creating
\* it, when no two jobs share an output name: then the gap between the test
\* of fileExist and fopen does no harm within the run.
THEOREM NothingOverwritten == ASSUME DistinctNames PROVE Spec => NoOverwrite
<1> DEFINE Harmless == ~o.force => \A f \in Files :
            Exists(f) /\ fs'[f] # fs[f] =>
                \E j \in Jobs : at[j] = "write" /\ Out(j) = f /\ fs[f].by = j
<1>1. ASSUME IInv, [Next]_vars PROVE [Harmless]_vars
  <2> SUFFICES ASSUME ~o.force, NEW f \in Files, Exists(f), fs'[f] # fs[f]
               PROVE  \E j \in Jobs : at[j] = "write" /\ Out(j) = f /\ fs[f].by = j
    OBVIOUS
  <2>0. fs \in [Files -> Contents] /\ \A j \in Jobs : ~Clashes(j) /\ Out(j) \in Files
    BY <1>1, OutIsFile DEF IInv, TypeOK, Clashes, Out, DistinctNames
  <2>1. PICK j \in Jobs : Job(j)
    BY <1>1, StepCases, ReporterFrame, MainFrame, StutterFrame
  <2>2. Open(j) \/ Write(j)
    BY <2>1 DEF Job, Start, Load, Announce, TileEnds, Coded, CodecThrows, Check, CheckAs,
       FinishAndCount, FinishAs, CountAs, Report, ReportAs
  <2>3. Out(j) = f
    BY <2>0, <2>2 DEF Open, Write
  <2>4. ~Open(j)
    BY <1>1, <2>0, <2>3 DEF Open, IInv, FileInv
  <2>5. at[j] = "write" /\ fs[f] = [kind |-> "partial", by |-> j]
    BY <1>1, <2>0, <2>2, <2>3, <2>4 DEF Write, IInv, FileInv
  <2> QED BY <2>3, <2>5
<1> QED BY <1>1, Invariant, PTL DEF Spec, NoOverwrite
=============================================================================
