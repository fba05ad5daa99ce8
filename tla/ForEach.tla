------------------------------- MODULE ForEach -------------------------------
(***************************************************************************)
(* What a caller may rely on when it hands `fn` to ParallelFor::run: every *)
(* index of Items is started at most once, calls may overlap in any way,   *)
(* and the caller gets control back only when every index has been         *)
(* executed.  The alternatives are that the call is abandoned: by an       *)
(* exception in the caller's thread, or by the end of the process.         *)
(***************************************************************************)
CONSTANT Items

VARIABLES
    call,      \* call[i]: fn(i) is not started, running or over
    caller     \* what the caller of run() sees

feVars == <<call, caller>>

FETypeOK ==
    /\ call \in [Items -> {"idle", "running", "over"}]
    /\ caller \in {"waiting", "returned", "raised", "aborted"}

FEInit ==
    /\ call = [i \in Items |-> "idle"]
    /\ caller = "waiting"

Begin(i) ==
    /\ caller = "waiting"
    /\ call[i] = "idle"
    /\ call' = [call EXCEPT ![i] = "running"]
    /\ UNCHANGED caller

End(i) ==
    /\ caller = "waiting"
    /\ call[i] = "running"
    /\ call' = [call EXCEPT ![i] = "over"]
    /\ UNCHANGED caller

Return ==
    /\ caller = "waiting"
    /\ \A i \in Items : call[i] = "over"
    /\ caller' = "returned"
    /\ UNCHANGED call

\* Abandoning the call: a raise comes from a call that is over, never while
\* another one still runs; an abort may come at any time.
Raise ==
    /\ caller = "waiting"
    /\ \A i \in Items : call[i] # "running"
    /\ caller' = "raised"
    /\ UNCHANGED call

RaiseFrom(i) ==
    /\ caller = "waiting"
    /\ call[i] = "running"
    /\ \A j \in Items \ {i} : call[j] # "running"
    /\ call' = [call EXCEPT ![i] = "over"]
    /\ caller' = "raised"

Abort ==
    /\ caller = "waiting"
    /\ caller' = "aborted"
    /\ UNCHANGED call

FENext ==
    \/ \E i \in Items : Begin(i) \/ End(i) \/ RaiseFrom(i)
    \/ Return \/ Raise \/ Abort

FESafeSpec == FEInit /\ [][FENext]_feVars

\* The caller is not kept waiting for ever.
FEFinishes == <>(caller # "waiting")
=============================================================================
