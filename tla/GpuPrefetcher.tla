---------------------------- MODULE GpuPrefetcher ----------------------------
(***************************************************************************)
(* GpuBatchPrefetcher (tokenizer/aligned_data/loader/gpu_prefetcher).       *)
(*                                                                          *)
(* Four kinds of thread share the prefetcher: the caller of submit(), the   *)
(* caller of get(), the main-process upload thread and the caller of        *)
(* close(); the decode workers are separate processes reached through two   *)
(* multiprocessing queues.  Every thread has a program counter, and every   *)
(* point where it can block or be overtaken is a step of its own.           *)
(*                                                                          *)
(* A batch is the number of the request it was produced for together with   *)
(* what became of it: "ok" (a batch), "err" (produce raised) or "died" (the *)
(* PrefetchWorkerDied put in the place of a batch that was given up).       *)
(***************************************************************************)
EXTENDS Integers, Sequences, FiniteSets

CONSTANTS
    Workers,      \* the decode worker processes (decode_workers of them)
    DecodeAhead,  \* decode_ahead: batches in flight from submit to get
    GpuAhead,     \* gpu_ahead: capacity of the ready queue
    MaxSubmit,    \* bound: number of submit() calls
    MaxStarts,    \* bound: number of start() calls that take effect
    Failing,      \* the requests whose produce() raises
    Faults        \* what else may go wrong, a subset of FaultKinds

FaultKinds == {"crash", "drop", "upload"}

\* The argument checks of GpuBatchPrefetcher.__init__.
ASSUME PrefetcherAssumption ==
    /\ Workers # {} /\ IsFiniteSet(Workers)
    /\ DecodeAhead \in Nat \ {0}
    /\ GpuAhead \in Nat \ {0}
    /\ GpuAhead <= DecodeAhead
    /\ MaxSubmit \in Nat /\ MaxStarts \in Nat
    /\ Faults \subseteq FaultKinds

Poison == -1  \* the None that close() puts on the request queue

VARIABLES
    slots,       \* value of the semaphore _decode_slots
    submitSeq,   \* _submit_seq
    spc,         \* the thread in submit()
    requestQ,    \* _request_q: sequence numbers and Poison
    wpc,         \* per worker: where decode_worker is
    wjob,        \* per worker: the request it is producing
    outbuf,      \* per worker: results put, not yet sent by the queue's feeder
    writing,     \* the worker whose feeder is half-way through sending a result
    torn,        \* the pipe ends in part of a result whose sender was killed
    resultQ,     \* _result_q: the results that are complete in the pipe
    pending,     \* _pending, as a set of results with distinct seq
    nextUpload,  \* _next_upload_seq
    upc,         \* the upload thread
    uret,        \* where _drain_contiguous returns to
    hold,        \* the item the upload thread is uploading or putting
    ready,       \* _ready_q
    cpc,         \* the thread in get()
    closing,     \* _closing
    started,     \* _started
    starts,      \* start() calls that took effect so far
    kpc,         \* the thread in close()
    kleft,       \* workers close() has still to poison or to join
    delivered,   \* history: the items get() took from the ready queue
    everCrashed  \* history: some worker has crashed

submitVars == <<slots, submitSeq, spc>>
pipeVars   == <<writing, torn>>
workerVars == <<wpc, wjob, outbuf, pipeVars>>
uploadVars == <<pending, nextUpload, upc, uret, hold>>
getVars    == <<cpc, delivered>>
closeVars  == <<closing, started, starts, kpc, kleft>>
vars == <<slots, submitSeq, spc, requestQ, wpc, wjob, outbuf, writing, torn,
          resultQ, pending, nextUpload, upc, uret, hold, ready, cpc, closing, started, starts,
          kpc, kleft, delivered, everCrashed>>

Seqs    == 0..(MaxSubmit - 1)
Results == [seq : Seqs, kind : {"ok", "err"}]
Items   == [seq : Seqs, kind : {"ok", "err", "died"}]
NoItem  == [seq |-> 0, kind |-> "died"]

LiveStates == {"opening", "idle", "busy", "exiting"}
GoneStates == {"new", "exited", "crashed", "terminated"}

\* One type invariant for the whole prefetcher.
TypeOK ==
    /\ slots \in 0..DecodeAhead
    /\ submitSeq \in 0..MaxSubmit
    /\ spc \in {"idle", "acquire", "acquired", "numbered"}
    /\ requestQ \in Seq(Seqs \cup {Poison})
    /\ wpc \in [Workers -> LiveStates \cup GoneStates]
    /\ wjob \in [Workers -> Seqs \cup {Poison}]
    /\ outbuf \in [Workers -> Seq(Results)]
    /\ writing \subseteq Workers /\ torn \in BOOLEAN
    /\ resultQ \in Seq(Results)
    /\ pending \subseteq Results
    /\ nextUpload \in 0..MaxSubmit
    /\ upc \in {"none", "poll", "wait", "check", "surface", "drain", "head",
                "upload", "put", "done", "dead"}
    /\ uret \in {"poll", "head"}
    /\ hold \in Items \cup {NoItem}
    /\ ready \in Seq(Items)
    /\ cpc \in {"idle", "wait", "release"}
    /\ closing \in BOOLEAN /\ started \in BOOLEAN
    /\ starts \in 0..MaxStarts
    /\ kpc \in {"idle", "poison", "join", "upload"}
    /\ kleft \subseteq Workers
    /\ delivered \in Seq(Items)
    /\ everCrashed \in BOOLEAN

Init ==
    /\ slots = DecodeAhead /\ submitSeq = 0 /\ spc = "idle"
    /\ requestQ = <<>> /\ resultQ = <<>> /\ ready = <<>>
    /\ wpc = [w \in Workers |-> "new"]
    /\ wjob = [w \in Workers |-> Poison]
    /\ outbuf = [w \in Workers |-> <<>>]
    /\ writing = {} /\ torn = FALSE
    /\ pending = {} /\ nextUpload = 0
    /\ upc = "none" /\ uret = "poll" /\ hold = NoItem
    /\ cpc = "idle" /\ delivered = <<>>
    /\ closing = FALSE /\ started = FALSE /\ starts = 0
    /\ kpc = "idle" /\ kleft = {}
    /\ everCrashed = FALSE

(* ------------------------------- start() -------------------------------- *)

\* Spawns the workers and the upload thread.  After a close() the flag
\* _closing is still set, so an upload thread started then returns at once
\* and what is left of the earlier one, if it is blocked, stays as it is.
Start ==
    /\ ~started /\ kpc = "idle" /\ starts < MaxStarts
    /\ started' = TRUE /\ starts' = starts + 1
    /\ wpc' = [w \in Workers |-> "opening"]
    /\ upc' = IF upc = "none" THEN "poll" ELSE upc
    /\ UNCHANGED <<submitVars, requestQ, wjob, outbuf, pipeVars, resultQ,
                   pending, nextUpload, uret, hold, ready, getVars, closing, kpc, kleft,
                   everCrashed>>

(* ------------------------------- submit() ------------------------------- *)

\* An unpicklable request is refused between this step and the next and
\* changes nothing, so it is not a step here.
SubmitCall ==
    /\ spc = "idle" /\ started /\ submitSeq < MaxSubmit
    /\ spc' = "acquire"
    /\ UNCHANGED <<slots, submitSeq, requestQ, workerVars, resultQ, uploadVars,
                   ready, getVars, closeVars, everCrashed>>

SubmitAcquire ==
    /\ spc = "acquire" /\ slots > 0
    /\ slots' = slots - 1 /\ spc' = "acquired"
    /\ UNCHANGED <<submitSeq, requestQ, workerVars, resultQ, uploadVars, ready,
                   getVars, closeVars, everCrashed>>

\* The number is taken, and visible to the upload thread, before the put.
SubmitNumber ==
    /\ spc = "acquired"
    /\ submitSeq' = submitSeq + 1 /\ spc' = "numbered"
    /\ UNCHANGED <<slots, requestQ, workerVars, resultQ, uploadVars, ready,
                   getVars, closeVars, everCrashed>>

SubmitPut ==
    /\ spc = "numbered"
    /\ requestQ' = Append(requestQ, submitSeq - 1) /\ spc' = "idle"
    /\ UNCHANGED <<slots, submitSeq, workerVars, resultQ, uploadVars, ready,
                   getVars, closeVars, everCrashed>>

(* ---------------------------- decode_worker ----------------------------- *)

WorkerOpen(w) ==
    /\ wpc[w] = "opening"
    /\ wpc' = [wpc EXCEPT ![w] = "idle"]
    /\ UNCHANGED <<submitVars, requestQ, wjob, outbuf, pipeVars, resultQ,
                   uploadVars, ready, getVars, closeVars, everCrashed>>

WorkerTake(w) ==
    /\ wpc[w] = "idle" /\ requestQ # <<>>
    /\ requestQ' = Tail(requestQ)
    /\ wjob' = [wjob EXCEPT ![w] = Head(requestQ)]
    /\ wpc' = [wpc EXCEPT ![w] = IF Head(requestQ) = Poison THEN "exiting"
                                                            ELSE "busy"]
    /\ UNCHANGED <<submitVars, outbuf, pipeVars, resultQ, uploadVars, ready,
                   getVars, closeVars, everCrashed>>

Outcome(s) == IF s \in Failing THEN "err" ELSE "ok"

\* produce() returns or raises; either way the result goes to result_q.put,
\* which only hands it to the feeder thread of this process.
WorkerProduce(w) ==
    /\ wpc[w] = "busy"
    /\ outbuf' = [outbuf EXCEPT
                     ![w] = Append(@, [seq  |-> wjob[w], kind |-> Outcome(wjob[w])])]
    /\ wpc' = [wpc EXCEPT ![w] = "idle"]
    /\ wjob' = [wjob EXCEPT ![w] = Poison]
    /\ UNCHANGED <<submitVars, requestQ, pipeVars, resultQ, uploadVars, ready,
                   getVars, closeVars, everCrashed>>

\* The feeder thread of multiprocessing.Queue pickles one result, takes the
\* write lock the workers share and sends it, a large one in several writes:
\* after the first of them the reader finds something in the pipe.  A killed
\* worker does not give the lock back, so nothing is written past a torn one.
FeederBegin(w) ==
    /\ wpc[w] \in LiveStates /\ outbuf[w] # <<>>
    /\ writing = {} /\ ~torn
    /\ writing' = {w}
    /\ UNCHANGED <<submitVars, requestQ, wpc, wjob, outbuf, torn, resultQ,
                   uploadVars, ready, getVars, closeVars, everCrashed>>

\* The last of the writes: the result can be read, the lock is free.
FeederSend(w) ==
    /\ w \in writing
    /\ wpc[w] \in LiveStates /\ outbuf[w] # <<>>
    /\ writing' = writing \ {w}
    /\ resultQ' = Append(resultQ, Head(outbuf[w]))
    /\ outbuf' = [outbuf EXCEPT ![w] = Tail(@)]
    /\ UNCHANGED <<submitVars, requestQ, wpc, wjob, torn, uploadVars, ready,
                   getVars, closeVars, everCrashed>>

\* A batch that does not pickle is dropped by the feeder without a word.
FeederDrop(w) ==
    /\ "drop" \in Faults /\ w \notin writing
    /\ wpc[w] \in LiveStates /\ outbuf[w] # <<>> /\ Head(outbuf[w]).kind = "ok"
    /\ outbuf' = [outbuf EXCEPT ![w] = Tail(@)]
    /\ UNCHANGED <<submitVars, requestQ, wpc, wjob, pipeVars, resultQ,
                   uploadVars, ready, getVars, closeVars, everCrashed>>

\* A worker that returns joins its feeder, so it leaves nothing behind.
WorkerExit(w) ==
    /\ wpc[w] = "exiting" /\ outbuf[w] = <<>>
    /\ wpc' = [wpc EXCEPT ![w] = "exited"]
    /\ UNCHANGED <<submitVars, requestQ, wjob, outbuf, pipeVars, resultQ,
                   uploadVars, ready, getVars, closeVars, everCrashed>>

\* A process that is gone sends nothing more: what it had not sent is lost,
\* and what it was sending stays in the pipe as far as it got.
Killed(w) ==
    /\ outbuf' = [outbuf EXCEPT ![w] = <<>>]
    /\ torn' = (torn \/ w \in writing)
    /\ writing' = writing \ {w}

\* make_source raises, a segfault, an OOM kill.
WorkerCrash(w) ==
    /\ "crash" \in Faults
    /\ wpc[w] \in LiveStates
    /\ wpc' = [wpc EXCEPT ![w] = "crashed"]
    /\ Killed(w)
    /\ everCrashed' = TRUE
    /\ UNCHANGED <<submitVars, requestQ, wjob, resultQ, uploadVars, ready,
                   getVars, closeVars>>

\* Mutant of Crashed: only a pool of dead workers counts.
AllCrashed == \A w \in Workers : wpc[w] \notin LiveStates

\* WorkerMonitor.crashed(): some worker is not alive.
Crashed == \E w \in Workers : wpc[w] \notin LiveStates

(* ------------------------------ _upload_loop ---------------------------- *)

UploadLoop ==
    /\ upc = "poll"
    /\ upc' = IF closing THEN "done" ELSE "wait"
    /\ UNCHANGED <<submitVars, requestQ, workerVars, resultQ, pending,
                   nextUpload, uret, hold, ready, getVars, closeVars,
                   everCrashed>>

\* Mutant of UploadReceive: one reorder buffer entry instead of one per seq.
UploadReceiveSingle ==
    /\ upc = "wait" /\ resultQ # <<>>
    /\ resultQ' = Tail(resultQ)
    /\ pending' = {Head(resultQ)}
    /\ upc' = "drain" /\ uret' = "poll"
    /\ UNCHANGED <<submitVars, requestQ, workerVars, nextUpload, hold, ready,
                   getVars, closeVars, everCrashed>>

\* _pending[seq] = ... replaces what the dictionary held for seq.
UploadReceive ==
    /\ upc = "wait" /\ resultQ # <<>>
    /\ resultQ' = Tail(resultQ)
    /\ pending' = {p \in pending : p.seq # Head(resultQ).seq}
                    \cup {Head(resultQ)}
    /\ upc' = "drain" /\ uret' = "poll"
    /\ UNCHANGED <<submitVars, requestQ, workerVars, nextUpload, hold, ready,
                   getVars, closeVars, everCrashed>>

\* get(timeout) gives up only while poll() finds the pipe empty.  Part of a
\* result makes poll() succeed, and recv_bytes() has no timeout: the thread
\* is then held at "wait" until the rest has come, for ever if it is torn,
\* as the parent and the other workers keep the pipe's write end open.
UploadEmpty ==
    /\ upc = "wait" /\ resultQ = <<>> /\ writing = {} /\ ~torn
    /\ upc' = "check"
    /\ UNCHANGED <<submitVars, requestQ, workerVars, resultQ, pending,
                   nextUpload, uret, hold, ready, getVars, closeVars,
                   everCrashed>>

UploadCheck ==
    /\ upc = "check"
    /\ upc' = IF Crashed THEN "surface" ELSE "poll"
    /\ UNCHANGED <<submitVars, requestQ, workerVars, resultQ, pending,
                   nextUpload, uret, hold, ready, getVars, closeVars,
                   everCrashed>>

\* Mutant of SurfaceLoop: the test of _closing is missing.
SurfaceLoopClosing ==
    /\ upc = "surface"
    /\ IF nextUpload < submitSeq
         THEN upc' = "drain" /\ uret' = "head"
         ELSE upc' = "poll" /\ UNCHANGED uret
    /\ UNCHANGED <<submitVars, requestQ, workerVars, resultQ, pending,
                   nextUpload, hold, ready, getVars, closeVars, everCrashed>>

\* The loop test of _surface_dead_workers.
SurfaceLoop ==
    /\ upc = "surface"
    /\ IF ~closing /\ nextUpload < submitSeq
         THEN upc' = "drain" /\ uret' = "head"
         ELSE upc' = "poll" /\ UNCHANGED uret
    /\ UNCHANGED <<submitVars, requestQ, workerVars, resultQ, pending,
                   nextUpload, hold, ready, getVars, closeVars, everCrashed>>

\* After the drain: give the seq at the head up, unless nothing is owed.
SurfaceHead ==
    /\ upc = "head"
    /\ IF nextUpload < submitSeq
         THEN /\ hold' = [seq |-> nextUpload, kind |-> "died"]
              /\ nextUpload' = nextUpload + 1
              /\ upc' = "put"
         ELSE /\ upc' = "poll"
              /\ UNCHANGED <<hold, nextUpload>>
    /\ UNCHANGED <<submitVars, requestQ, workerVars, resultQ, pending, uret,
                   ready, getVars, closeVars, everCrashed>>

\* Mutant of DrainPop: whatever has arrived is uploaded, in any order.
DrainPopUnordered ==
    /\ upc = "drain"
    /\ \E p \in pending :
         /\ pending' = pending \ {p}
         /\ hold' = p
         /\ upc' = IF p.kind = "err" THEN "put" ELSE "upload"
    /\ nextUpload' = nextUpload + 1
    /\ UNCHANGED <<submitVars, requestQ, workerVars, resultQ, uret, ready,
                   getVars, closeVars, everCrashed>>

\* The loop test of _drain_contiguous, and the pop.
DrainPop ==
    /\ upc = "drain"
    /\ \E p \in pending :
         /\ p.seq = nextUpload
         /\ pending' = pending \ {p}
         /\ hold' = p
         /\ upc' = IF p.kind = "err" THEN "put" ELSE "upload"
    /\ nextUpload' = nextUpload + 1
    /\ UNCHANGED <<submitVars, requestQ, workerVars, resultQ, uret, ready,
                   getVars, closeVars, everCrashed>>

DrainReturn ==
    /\ upc = "drain"
    /\ \A p \in pending : p.seq # nextUpload
    /\ upc' = uret
    /\ UNCHANGED <<submitVars, requestQ, workerVars, resultQ, pending,
                   nextUpload, uret, hold, ready, getVars, closeVars,
                   everCrashed>>

\* _upload_one moves the leaves to the device; when it raises, nothing
\* catches it and the upload thread is gone.
UploadOne ==
    /\ upc = "upload"
    /\ \/ upc' = "put"
       \/ "upload" \in Faults /\ upc' = "dead"
    /\ UNCHANGED <<submitVars, requestQ, workerVars, resultQ, pending,
                   nextUpload, uret, hold, ready, getVars, closeVars,
                   everCrashed>>

\* Mutant of ReadyPut: the slot is released by the upload thread as well.
ReadyPutReleases ==
    /\ upc = "put" /\ Len(ready) < GpuAhead
    /\ ready' = Append(ready, hold)
    /\ upc' = IF hold.kind = "died" THEN "surface" ELSE "drain"
    /\ slots' = slots + 1
    /\ UNCHANGED <<submitSeq, spc, requestQ, workerVars, resultQ, pending,
                   nextUpload, uret, hold, getVars, closeVars, everCrashed>>

\* The blocking _ready_q.put, which does not look at _closing.
ReadyPut ==
    /\ upc = "put" /\ Len(ready) < GpuAhead
    /\ ready' = Append(ready, hold)
    /\ upc' = IF hold.kind = "died" THEN "surface" ELSE "drain"
    /\ UNCHANGED <<submitVars, requestQ, workerVars, resultQ, pending,
                   nextUpload, uret, hold, getVars, closeVars, everCrashed>>

(* -------------------------------- get() --------------------------------- *)

GetCall ==
    /\ cpc = "idle" /\ started
    /\ cpc' = "wait"
    /\ UNCHANGED <<submitVars, requestQ, workerVars, resultQ, uploadVars,
                   ready, delivered, closeVars, everCrashed>>

GetPop ==
    /\ cpc = "wait" /\ ready # <<>>
    /\ ready' = Tail(ready)
    /\ delivered' = Append(delivered, Head(ready))
    /\ cpc' = "release"
    /\ UNCHANGED <<submitVars, requestQ, workerVars, resultQ, uploadVars,
                   closeVars, everCrashed>>

\* The slot is freed before an exception item is raised.
GetRelease ==
    /\ cpc = "release"
    /\ slots' = slots + 1 /\ cpc' = "idle"
    /\ UNCHANGED <<submitSeq, spc, requestQ, workerVars, resultQ, uploadVars,
                   ready, delivered, closeVars, everCrashed>>

(* ------------------------------- close() -------------------------------- *)

CloseCall ==
    /\ started /\ kpc = "idle"
    /\ closing' = TRUE /\ kpc' = "poison" /\ kleft' = Workers
    /\ UNCHANGED <<submitVars, requestQ, workerVars, resultQ, uploadVars,
                   ready, getVars, started, starts, everCrashed>>

ClosePoison ==
    /\ kpc = "poison"
    /\ \E w \in kleft :
         /\ requestQ' = Append(requestQ, Poison)
         /\ kleft' = IF kleft = {w} THEN Workers ELSE kleft \ {w}
         /\ kpc' = IF kleft = {w} THEN "join" ELSE "poison"
    /\ UNCHANGED <<submitVars, workerVars, resultQ, uploadVars, ready, getVars,
                   closing, started, starts, everCrashed>>

\* Mutant of CloseJoin: join() without a timeout and without terminate().
CloseJoinForever ==
    /\ kpc = "join"
    /\ \E w \in kleft :
         /\ wpc[w] \notin LiveStates
         /\ kleft' = kleft \ {w}
         /\ kpc' = IF kleft = {w} THEN "upload" ELSE "join"
    /\ UNCHANGED <<submitVars, requestQ, workerVars, resultQ, uploadVars, ready,
                   getVars, closing, started, starts, everCrashed>>

\* join(timeout) of one worker; one still alive after it is terminated.
CloseJoin ==
    /\ kpc = "join"
    /\ \E w \in kleft :
         /\ kleft' = kleft \ {w}
         /\ kpc' = IF kleft = {w} THEN "upload" ELSE "join"
         /\ IF wpc[w] \in LiveStates
              THEN wpc' = [wpc EXCEPT ![w] = "terminated"] /\ Killed(w)
              ELSE UNCHANGED <<wpc, outbuf, pipeVars>>
    /\ UNCHANGED <<submitVars, requestQ, wjob, resultQ, uploadVars, ready,
                   getVars, closing, started, starts, everCrashed>>

\* join(timeout) of the upload thread returns whether or not it ended.
CloseReturn ==
    /\ kpc = "upload"
    /\ started' = FALSE /\ kpc' = "idle"
    /\ UNCHANGED <<submitVars, requestQ, workerVars, resultQ, uploadVars,
                   ready, getVars, closing, starts, kleft, everCrashed>>

(* ---------------------------- specification ----------------------------- *)

SubmitSteps == SubmitAcquire \/ SubmitNumber \/ SubmitPut
WorkerSteps(w) ==
    \/ WorkerOpen(w) \/ WorkerTake(w) \/ WorkerProduce(w)
    \/ FeederBegin(w) \/ FeederSend(w) \/ FeederDrop(w) \/ WorkerExit(w)
UploadSteps ==
    \/ UploadLoop \/ UploadReceive \/ UploadEmpty \/ UploadCheck
    \/ SurfaceLoop \/ SurfaceHead \/ DrainPop \/ DrainReturn
    \/ UploadOne \/ ReadyPut
GetSteps   == GetCall \/ GetPop \/ GetRelease
CloseSteps == ClosePoison \/ CloseJoin \/ CloseReturn

Next ==
    \/ Start \/ SubmitCall \/ SubmitSteps \/ UploadSteps \/ GetSteps
    \/ CloseCall \/ CloseSteps
    \/ \E w \in Workers : WorkerSteps(w) \/ WorkerCrash(w)

Spec == Init /\ [][Next]_vars

\* What the scheduler owes: every thread that can run does, a call that was
\* made is carried through and the consumer keeps calling get().  Nothing is
\* assumed of the surviving workers once one has crashed: a process killed
\* inside request_q.get(), or before the first byte of a result, takes that
\* queue's lock with it.  Only a result half-way through the pipe is finished,
\* since its sender has the lock and the upload thread reads until close().
Fairness ==
    /\ WF_vars(SubmitSteps)
    /\ WF_vars(UploadSteps)
    /\ WF_vars(GetSteps)
    /\ WF_vars(CloseSteps)
    /\ \A w \in Workers :
         /\ WF_vars(~everCrashed /\ WorkerSteps(w))
         /\ WF_vars(~closing /\ FeederSend(w))

FairSpec == Spec /\ Fairness
(* ------------------------------ properties ------------------------------ *)

\* What the prefetcher promises: accepting a request is taking its number,
\* answering it is taking the item off the ready queue.
Service == INSTANCE PrefetchService
             WITH Capacity <- DecodeAhead, issued <- submitSeq,
                  served <- delivered, broken <- everCrashed

\* Every step of the prefetcher, with its threads, processes and crashes, is
\* a step of the sequential FIFO service or changes nothing the caller sees.
ImplementsService == Service!ServiceSpec

\* get() serves the requests in the order of submit(), each exactly once,
\* each with its own batch or an error in its place, whatever order the
\* workers finish in (_pending, _drain_contiguous, _surface_dead_workers).
FifoOnce == \A i \in 1..Len(delivered) : delivered[i].seq = i - 1

\* A slot is held from submit() to get(), never returned twice and never
\* leaked: at most decode_ahead batches are in flight (_decode_slots).
BackPressure ==
    /\ submitSeq - Len(delivered) <= DecodeAhead
    /\ spc = "idle" /\ cpc # "release"
         => slots = DecodeAhead - (submitSeq - Len(delivered))

Count(S) == Cardinality(S)
At(q, s) == Count({i \in DOMAIN q : q[i].seq = s /\ q[i].kind # "died"})

\* The places where request s, or the batch made from it, can be.
Copies(s) ==
    Count({i \in DOMAIN requestQ : requestQ[i] = s})
    + Count({w \in Workers : wpc[w] = "busy" /\ wjob[w] = s})
    + Count({wi \in UNION {{w} \X DOMAIN outbuf[w] : w \in Workers} :
                outbuf[wi[1]][wi[2]].seq = s})
    + At(resultQ, s) + Count({p \in pending : p.seq = s})
    + (IF upc \in {"upload", "put"} THEN At(<<hold>>, s) ELSE 0)
    + At(ready, s) + At(delivered, s)

\* No request is ever worked on twice or served twice, and as long as no
\* process or thread has died and nothing was dropped none is missing.
Conservation ==
    \A s \in 0..(submitSeq - 1) :
        /\ Copies(s) <= 1
        /\ \/ Copies(s) = 1
           \/ everCrashed \/ closing \/ "drop" \in Faults
           \/ upc = "dead"
           \/ spc = "numbered" /\ s = submitSeq - 1

\* PrefetchWorkerDied is only raised after a worker really crashed: a clean
\* exit in close() never turns into one, because close() sets _closing
\* before it ends a worker and _surface_dead_workers tests it.
DiedOnlyAfterCrash ==
    /\ \A i \in 1..Len(ready) : ready[i].kind = "died" => everCrashed
    /\ \A i \in 1..Len(delivered) : delivered[i].kind = "died" => everCrashed

\* "that seq is permanently owed and would park get() forever": every
\* submitted request is answered, by its batch or by an error, unless the
\* prefetcher is closed (the fail-fast path of _upload_loop).  The fail-fast
\* path is behind queue.Empty, so it does not cover a worker that is killed
\* part-way through sending a result: then the upload thread stays inside
\* _result_q.get(timeout=...), crashed() is never asked and get() does park.
NoRequestParks ==
    \A s \in Seqs : submitSeq > s ~> (Len(delivered) > s \/ closing \/ torn)

\* close() returns whatever the workers and the upload thread are doing
\* (every join has a timeout).
CloseReturns == kpc # "idle" ~> kpc = "idle"

(* -------------------------- inductive invariant ------------------------- *)

\* A number is only taken, and put on the queue, while one is left.
SubmitInv ==
    /\ spc \in {"acquire", "acquired"} => submitSeq < MaxSubmit
    /\ spc = "numbered" => submitSeq > 0

\* Every number that travels was given out by submit().
KnownSeqs ==
    /\ \A i \in 1..Len(requestQ) : requestQ[i] < submitSeq
    /\ \A w \in Workers : wjob[w] < submitSeq
    /\ \A w \in Workers : wpc[w] = "busy" => wjob[w] \in Seqs
    /\ \A w \in Workers : \A i \in 1..Len(outbuf[w]) :
          outbuf[w][i].seq < submitSeq
    /\ \A i \in 1..Len(resultQ) : resultQ[i].seq < submitSeq
    /\ \A p \in pending : p.seq < submitSeq
    /\ nextUpload <= submitSeq

\* A slot of the semaphore is free, or held by a request in flight, by a
\* submit() that has no number yet or by a get() that has not released it.
SlotInv ==
    slots + (submitSeq - Len(delivered))
      + (IF spc = "acquired" THEN 1 ELSE 0) + (IF cpc = "release" THEN 1 ELSE 0)
    = DecodeAhead

\* What get() took, what is ready and what the upload thread holds are
\* consecutive numbers that end just below _next_upload_seq.
FlowInv ==
    /\ nextUpload = Len(delivered) + Len(ready)
                     + (IF upc \in {"upload", "put", "dead"} THEN 1 ELSE 0)
    /\ upc \in {"upload", "put"} => hold \in Items /\ hold.seq = nextUpload - 1
    /\ \A i \in 1..Len(ready) : ready[i].seq = Len(delivered) + i - 1
    /\ Len(ready) <= GpuAhead

\* Where the upload thread may be when no worker has crashed: on the way to
\* a "died" only if close() has begun, and then the loop test stops it.
CrashInv ==
    /\ \A i \in 1..Len(requestQ) : requestQ[i] = Poison => closing
    /\ \A w \in Workers :
          /\ wpc[w] \in {"exiting", "exited", "terminated"} => closing
          /\ wpc[w] = "crashed" => everCrashed
          /\ wpc[w] = "new" => starts = 0
    /\ kpc \in {"poison", "join", "upload"} => closing
    /\ starts = 0 => upc = "none" /\ ~started
    /\ upc = "surface" => closing \/ everCrashed
    /\ upc = "head" => everCrashed
    /\ upc \in {"drain", "upload", "put"} /\ uret = "head" => everCrashed
    /\ upc \in {"upload", "put"} /\ hold.kind = "died" => everCrashed
    /\ \A i \in 1..Len(ready) : ready[i].kind = "died" => everCrashed
    /\ \A i \in 1..Len(delivered) : delivered[i].kind = "died" => everCrashed

IInv == TypeOK /\ SubmitInv /\ KnownSeqs /\ SlotInv /\ FlowInv /\ CrashInv
          /\ FifoOnce

(* ---------------- the places of a request, for Conservation -------------- *)

\* The requests that are at each place, in the order they pass them.
Numbered == {s \in Seqs : spc = "numbered" /\ s = submitSeq - 1}
Asked    == {s \in Seqs : \E i \in 1..Len(requestQ) : requestQ[i] = s}
Working  == {s \in Seqs : \E w \in Workers : wpc[w] = "busy" /\ wjob[w] = s}
Made     == {s \in Seqs : \E w \in Workers : \E i \in 1..Len(outbuf[w]) :
                outbuf[w][i].seq = s}
Sent     == {s \in Seqs : \E i \in 1..Len(resultQ) : resultQ[i].seq = s}
Kept     == {s \in Seqs : \E p \in pending : p.seq = s}
Answered ==
    {s \in Seqs :
        \/ upc \in {"upload", "put"} /\ hold.seq = s /\ hold.kind # "died"
        \/ \E i \in 1..Len(ready) : ready[i].seq = s /\ ready[i].kind # "died"
        \/ \E i \in 1..Len(delivered) :
              delivered[i].seq = s /\ delivered[i].kind # "died"}

Disjoint(A, B) == A \cap B = {}

\* No request is at two of the places, ...
OnePlace ==
    /\ Disjoint(Numbered, Asked \cup Working \cup Made \cup Sent \cup Kept
                          \cup Answered)
    /\ Disjoint(Asked, Working \cup Made \cup Sent \cup Kept \cup Answered)
    /\ Disjoint(Working, Made \cup Sent \cup Kept \cup Answered)
    /\ Disjoint(Made, Sent \cup Kept \cup Answered)
    /\ Disjoint(Sent, Kept \cup Answered)
    /\ Disjoint(Kept, Answered)

\* ... nor twice at one of them.  (For the answers FlowInv says so.)
OneCopy ==
    /\ \A i, j \in 1..Len(requestQ) :
          requestQ[i] = requestQ[j] => i = j \/ requestQ[i] = Poison
    /\ \A v, w \in Workers :
          wpc[v] = "busy" /\ wpc[w] = "busy" /\ wjob[v] = wjob[w] => v = w
    /\ \A v, w \in Workers :
          \A i \in 1..Len(outbuf[v]), j \in 1..Len(outbuf[w]) :
             outbuf[v][i].seq = outbuf[w][j].seq => v = w /\ i = j
    /\ \A i, j \in 1..Len(resultQ) : resultQ[i].seq = resultQ[j].seq => i = j
    /\ \A p, q \in pending : p.seq = q.seq => p = q

Lossy == everCrashed \/ closing \/ "drop" \in Faults \/ upc = "dead"

\* Without a loss every number that was taken is at some place.
NoneMissing ==
    Lossy \/ 0..(submitSeq - 1) \subseteq
                Numbered \cup Asked \cup Working \cup Made \cup Sent \cup Kept
                \cup Answered

\* start() finds no worker at work, unless the prefetcher has been closed.
StartsFresh == started \/ closing \/ \A w \in Workers : wpc[w] = "new"

PlaceInv == OnePlace /\ OneCopy /\ NoneMissing /\ StartsFresh

==============================================================================
