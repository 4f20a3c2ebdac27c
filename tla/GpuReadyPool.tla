---------------------------- MODULE GpuReadyPool ----------------------------
(***************************************************************************)
(* GpuReadyPool (ready_pool/_gpu_pool.py) over ReadyPool: one upload in      *)
(* flight; get(key) returns the batch launched by the call before it and    *)
(* launches one of the newly named config.  It is the only caller of the    *)
(* pool's get(), so a call of it is the pool's call followed by what it does*)
(* with the outcome.                                                        *)
(***************************************************************************)
EXTENDS ReadyPool

VARIABLES
    fallback,  \* _c_fallback: no copy stream, host batches
    inFlight,  \* _in_flight: a sequence of at most one uploaded batch
    gpc,       \* the call in progress: "idle", "prime" or "get"
    named,     \* history: the config each launched batch was asked from
    returned,  \* history: the batches get() returned
    failed     \* history: the batches whose upload, or pinning, raised

gpuVars == <<fallback, inFlight, gpc, named, returned, failed>>
gvars == <<poolVars, gpuVars>>

GpuInit ==
    /\ PoolInit
    /\ fallback \in BOOLEAN
    /\ inFlight = <<>> /\ gpc = "idle" /\ named = <<>> /\ returned = <<>>
    /\ failed = {}

\* "Call once before the first get()": a caller primes until it succeeds.
Prime(k) ==
    /\ ~fallback /\ gpc = "idle" /\ inFlight = <<>>
    /\ GetCall(k)
    /\ gpc' = "prime"
    /\ UNCHANGED <<fallback, inFlight, named, returned, failed>>

\* Without a primed upload get() raises and changes nothing.  The wait for
\* the copy event of the batch in flight comes before the pool is asked.
GpuGet(k) ==
    /\ gpc = "idle"
    /\ fallback \/ inFlight # <<>>
    /\ GetCall(k)
    /\ gpc' = "get"
    /\ UNCHANGED <<fallback, inFlight, named, returned, failed>>

\* Mutant of Launched: the batch that was just launched is returned.
LaunchedNewest ==
    /\ cpc = "ret" /\ cval.kind = "ok" /\ GetReturn /\ gpc' = "idle"
    /\ named' = Append(named, ckey) /\ UNCHANGED <<fallback, failed>>
    /\ inFlight' = <<cval>>
    /\ returned' = IF gpc = "get" THEN Append(returned, cval) ELSE returned

\* The pool handed a batch over: it becomes the upload in flight and get()
\* returns the one that was (the batch itself with c_fallback).
Launched ==
    /\ cpc = "ret" /\ cval.kind = "ok" /\ GetReturn /\ gpc' = "idle"
    /\ named' = Append(named, ckey) /\ UNCHANGED <<fallback, failed>>
    /\ IF fallback
         THEN inFlight' = inFlight /\ returned' = Append(returned, cval)
         ELSE /\ inFlight' = <<cval>>
              /\ returned' = returned \o (IF gpc = "get" THEN inFlight ELSE <<>>)

\* Mutant of LaunchFails: the slot is cleared before the upload.
LaunchFailsDrops ==
    /\ cpc = "ret" /\ cval.kind = "ok" /\ GetReturn /\ gpc' = "idle"
    /\ failed' = failed \cup {cval} /\ inFlight' = <<>>
    /\ UNCHANGED <<fallback, named, returned>>

\* The pool handed a batch over, and its upload raised (with c_fallback its
\* pinning): the exception leaves get() or prime() with the batch, which is
\* gone, before _in_flight is assigned.
LaunchFails ==
    /\ cpc = "ret" /\ cval.kind = "ok" /\ GetReturn /\ gpc' = "idle"
    /\ failed' = failed \cup {cval}
    /\ UNCHANGED <<fallback, inFlight, named, returned>>

\* The pool raised; the batch in flight stays for the next get().
LaunchRaised ==
    /\ cpc = "died" \/ (cpc = "ret" /\ cval.kind = "exc")
    /\ GetReturn /\ gpc' = "idle"
    /\ UNCHANGED <<fallback, inFlight, named, returned, failed>>

PoolSteps ==
    /\ LifeSteps \/ GetSteps \/ \E t \in Threads : RefillSteps(t)
    /\ UNCHANGED gpuVars

GpuNext ==
    \/ PoolSteps \/ Launched \/ LaunchFails \/ LaunchRaised
    \/ \E k \in Keys : Prime(k) \/ GpuGet(k)

GpuSpec == GpuInit /\ [][GpuNext]_gvars

(* ------------------------------ properties ------------------------------ *)

\* The types of the layer.
GpuTypeOK ==
    /\ PoolTypeOK
    /\ inFlight \in Seq(Items) /\ Len(inFlight) <= (IF fallback THEN 0 ELSE 1)
    /\ gpc \in {"idle", "prime", "get"}
    /\ named \in Seq(Keys) /\ returned \in Seq(Items) /\ failed \subseteq Items

\* What the layer has handed on, the upload in flight last.
Out == returned \o inFlight

\* The batches taken from the pool for a config, but for the one that the call
\* in progress has not launched yet, ...
Taken(k) == {j \in 1..Len(got[k]) :
               got[k][j].kind = "ok" /\ ~(cpc = "ret" /\ ckey = k /\ j = Len(got[k]))}

\* ... and those of them whose upload did not raise.
Done(k) == {j \in Taken(k) : got[k][j] \notin failed}

\* The batches taken from the pool whose upload did not raise are those
\* returned and the one in flight, of which there is at most one, each once and
\* each config's in the order they were taken.  A get() in which the pool raises
\* loses nothing; one whose upload raises (_gpu_pool.py:175) loses the batch it
\* popped and no other: the one in flight, whose event it has already waited
\* for, is returned by the next call.
OnlyFailedUploadsLost ==
    /\ GpuTypeOK
    /\ \A i, j \in 1..Len(Out) : i # j => Out[i] # Out[j]
    /\ \A i \in 1..Len(Out) : \E k \in Keys : \E j \in Done(k) : Out[i] = got[k][j]
    /\ \A k \in Keys : \A c, d \in Done(k) : c <= d =>
         \E i, j \in 1..Len(Out) : i <= j /\ Out[i] = got[k][c] /\ Out[j] = got[k][d]
    /\ \A x \in failed : \E k \in Keys : \E j \in Taken(k) : x = got[k][j]

\* The i-th batch returned comes from the config named by the i-th call that
\* launched one: naming the next never changes what the previous call named.
CollectsThePrevious ==
    \A i \in 1..Len(returned) : KeyOf[returned[i].thr] = named[i]
==============================================================================
