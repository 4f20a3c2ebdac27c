------------------------------ MODULE ReadyPool ------------------------------
(***************************************************************************)
(* ReadyPool (tokenizer/aligned_data/loader/ready_pool/_pool.py): for each  *)
(* registered config a bounded queue kept full by refill threads, a         *)
(* consumer that takes from it, and close().                                *)
(*                                                                          *)
(* An item is the n-th outcome of produce() in a thread: a batch ("ok") or  *)
(* the exception that ended the thread ("exc").                             *)
(***************************************************************************)
EXTENDS Integers, Sequences, FiniteSets

CONSTANTS
    Keys,             \* the registered configs
    Threads,          \* the refill threads, threads_per_config for each key
    KeyOf,            \* the config a thread refills
    Depth,            \* ready_depth
    MaxGets,          \* bound: number of get() calls
    MaxStarts,        \* bound: number of start() calls that take effect
    ProduceMayRaise,  \* the threads whose produce() may raise
    ConcurrentClose   \* close() may be called while another thread is in get()

\* The checks of __init__ and of PoolConfig.
ASSUME PoolAssumption ==
    /\ Keys # {} /\ IsFiniteSet(Threads)
    /\ KeyOf \in [Threads -> Keys]
    /\ \A k \in Keys : \E t \in Threads : KeyOf[t] = k
    /\ Depth \in [Keys -> Nat \ {0}]
    /\ MaxGets \in Nat /\ MaxStarts \in Nat
    /\ ProduceMayRaise \subseteq Threads
    /\ ConcurrentClose \in BOOLEAN

VARIABLES
    ready,    \* _ready: per config, the bounded queue
    tpc,      \* per thread: where _refill_loop is
    tcount,   \* per thread: produce() calls so far
    titem,    \* per thread: the item it offers
    cpc,      \* the consumer in get()
    ckey,     \* the config it asked for
    cval,     \* the item it took
    gets,     \* get() calls so far
    got,      \* history: the items get() took, per config
    closing,  \* _closing
    started,  \* _started
    starts,   \* start() calls that took effect
    kpc       \* the thread in close()

threadVars == <<tpc, tcount, titem>>
getVars    == <<cpc, ckey, cval, gets, got>>
lifeVars   == <<closing, started, starts, kpc>>
poolVars   == <<ready, tpc, tcount, titem, cpc, ckey, cval, gets, got, closing,
                started, starts, kpc>>

Items     == [thr : Threads, n : Nat, kind : {"ok", "exc"}]
NoItem    == [thr |-> CHOOSE t \in Threads : TRUE, n |-> 0, kind |-> "ok"]
Feeding(k) == {t \in Threads : KeyOf[t] = k}

\* One type invariant for the pool.
PoolTypeOK ==
    /\ ready \in [Keys -> Seq(Items)]
    /\ \A k \in Keys : Len(ready[k]) <= Depth[k]
    /\ tpc \in [Threads -> {"new", "top", "produce", "offer", "put", "close",
                      "dead"}]
    /\ tcount \in [Threads -> Nat]
    /\ titem \in [Threads -> Items]
    /\ cpc \in {"idle", "poll", "gate", "check", "ret", "died"}
    /\ ckey \in Keys
    /\ cval \in Items
    /\ gets \in 0..MaxGets
    /\ got \in [Keys -> Seq(Items)]
    /\ closing \in BOOLEAN /\ started \in BOOLEAN
    /\ starts \in 0..MaxStarts
    /\ kpc \in {"idle", "drain", "join"}

PoolInit ==
    /\ ready = [k \in Keys |-> <<>>]
    /\ tpc = [t \in Threads |-> "new"]
    /\ tcount = [t \in Threads |-> 0]
    /\ titem = [t \in Threads |-> NoItem]
    /\ cpc = "idle" /\ ckey \in Keys /\ cval = NoItem /\ gets = 0
    /\ got = [k \in Keys |-> <<>>]
    /\ closing = FALSE /\ started = FALSE /\ starts = 0 /\ kpc = "idle"

(* ------------------------------- start() -------------------------------- *)

\* Every config gets fresh threads; threads of an earlier start that have not
\* ended yet are not told apart from them.
PoolStart ==
    /\ ~started /\ kpc = "idle" /\ starts < MaxStarts
    /\ started' = TRUE /\ starts' = starts + 1
    /\ tpc' = [t \in Threads |-> IF tpc[t] \in {"new", "dead"} THEN "top"
                                                               ELSE tpc[t]]
    /\ UNCHANGED <<ready, tcount, titem, getVars, closing, kpc>>

(* ----------------------------- _refill_loop ----------------------------- *)

RefillTop(t) ==
    /\ tpc[t] = "top"
    /\ tpc' = [tpc EXCEPT ![t] = IF closing THEN "close" ELSE "produce"]
    /\ UNCHANGED <<ready, tcount, titem, getVars, lifeVars>>

\* produce() returns a batch or raises; its outcome is what _offer gets.
RefillProduce(t) ==
    /\ tpc[t] = "produce"
    /\ tcount' = [tcount EXCEPT ![t] = @ + 1]
    /\ \E kind \in {"ok", "exc"} :
         /\ kind = "exc" => t \in ProduceMayRaise
         /\ titem' = [titem EXCEPT
                        ![t] = [thr |-> t, n |-> tcount[t] + 1, kind |-> kind]]
    /\ tpc' = [tpc EXCEPT ![t] = "offer"]
    /\ UNCHANGED <<ready, getVars, lifeVars>>

AfterOffer(t) == IF titem[t].kind = "exc" THEN "close" ELSE "top"

\* Mutant of OfferTest: the offer waits for room whether or not it closes.
OfferTestDeaf(t) ==
    /\ tpc[t] = "offer"
    /\ tpc' = [tpc EXCEPT ![t] = "put"]
    /\ UNCHANGED <<ready, tcount, titem, getVars, lifeVars>>

\* The loop test of _offer: once _closing is set the item is dropped.
OfferTest(t) ==
    /\ tpc[t] = "offer"
    /\ tpc' = [tpc EXCEPT ![t] = IF closing THEN AfterOffer(t) ELSE "put"]
    /\ UNCHANGED <<ready, tcount, titem, getVars, lifeVars>>

\* Mutant of OfferPut: the bound of the queue is not honoured.
OfferPutUnbounded(t) ==
    /\ tpc[t] = "put"
    /\ ready' = [ready EXCEPT ![KeyOf[t]] = Append(@, titem[t])]
    /\ tpc' = [tpc EXCEPT ![t] = AfterOffer(t)]
    /\ UNCHANGED <<tcount, titem, getVars, lifeVars>>

\* The put finds room, possibly after close() has begun.
OfferPut(t) ==
    /\ tpc[t] = "put"
    /\ Len(ready[KeyOf[t]]) < Depth[KeyOf[t]]
    /\ ready' = [ready EXCEPT ![KeyOf[t]] = Append(@, titem[t])]
    /\ tpc' = [tpc EXCEPT ![t] = AfterOffer(t)]
    /\ UNCHANGED <<tcount, titem, getVars, lifeVars>>

\* The put times out on a full queue.
OfferFull(t) ==
    /\ tpc[t] = "put"
    /\ Len(ready[KeyOf[t]]) >= Depth[KeyOf[t]]
    /\ tpc' = [tpc EXCEPT ![t] = "offer"]
    /\ UNCHANGED <<ready, tcount, titem, getVars, lifeVars>>

\* The finally clause releases what produce() holds, then the thread ends.
RefillClose(t) ==
    /\ tpc[t] = "close"
    /\ tpc' = [tpc EXCEPT ![t] = "dead"]
    /\ UNCHANGED <<ready, tcount, titem, getVars, lifeVars>>

(* -------------------------------- get() --------------------------------- *)

GetCall(k) ==
    /\ cpc = "idle" /\ started /\ gets < MaxGets
    /\ cpc' = "poll" /\ ckey' = k /\ gets' = gets + 1
    /\ UNCHANGED <<ready, threadVars, cval, got, lifeVars>>

\* Mutant of GetPop: the newest item is taken.
GetPopNewest ==
    /\ cpc = "poll" /\ ready[ckey] # <<>>
    /\ ready' = [ready EXCEPT ![ckey] = SubSeq(@, 1, Len(@) - 1)]
    /\ cval' = ready[ckey][Len(ready[ckey])]
    /\ got' = [got EXCEPT ![ckey] = Append(@, cval')]
    /\ cpc' = "ret"
    /\ UNCHANGED <<threadVars, ckey, gets, lifeVars>>

GetPop ==
    /\ cpc = "poll" /\ ready[ckey] # <<>>
    /\ ready' = [ready EXCEPT ![ckey] = Tail(@)]
    /\ cval' = Head(ready[ckey])
    /\ got' = [got EXCEPT ![ckey] = Append(@, Head(ready[ckey]))]
    /\ cpc' = "ret"
    /\ UNCHANGED <<threadVars, ckey, gets, lifeVars>>

GetEmpty ==
    /\ cpc = "poll" /\ ready[ckey] = <<>>
    /\ cpc' = "gate"
    /\ UNCHANGED <<ready, threadVars, ckey, cval, gets, got, lifeVars>>

\* "not _closing.is_set() and ..." is read first, crashed() after it.
GetGate ==
    /\ cpc = "gate"
    /\ cpc' = IF closing THEN "poll" ELSE "check"
    /\ UNCHANGED <<ready, threadVars, ckey, cval, gets, got, lifeVars>>

\* Mutant of Crashed: a dead thread is never noticed.
CrashedNever(k) == FALSE

\* WorkerMonitor.crashed() of the config: some thread is not alive.
Crashed(k) == \E t \in Feeding(k) : tpc[t] = "dead"

GetCheck ==
    /\ cpc = "check"
    /\ cpc' = IF Crashed(ckey) THEN "died" ELSE "poll"
    /\ UNCHANGED <<ready, threadVars, ckey, cval, gets, got, lifeVars>>

\* The batch is returned, or its exception or ReadyPoolWorkerDied raised.
GetReturn ==
    /\ cpc \in {"ret", "died"}
    /\ cpc' = "idle"
    /\ UNCHANGED <<ready, threadVars, ckey, cval, gets, got, lifeVars>>

(* ------------------------------- close() -------------------------------- *)

PoolClose ==
    /\ started /\ kpc = "idle"
    /\ ConcurrentClose \/ cpc = "idle"
    /\ closing' = TRUE /\ kpc' = "drain"
    /\ UNCHANGED <<ready, threadVars, getVars, started, starts>>

\* get_nowait() once for every config.
PoolDrain ==
    /\ kpc = "drain"
    /\ ready' = [k \in Keys |-> IF ready[k] = <<>> THEN <<>> ELSE Tail(ready[k])]
    /\ kpc' = "join"
    /\ UNCHANGED <<threadVars, getVars, closing, started, starts>>

\* Every join has a timeout, so this step waits for nothing.
PoolCloseReturn ==
    /\ kpc = "join"
    /\ started' = FALSE /\ kpc' = "idle"
    /\ UNCHANGED <<ready, threadVars, getVars, closing, starts>>

(* ---------------------------- specification ----------------------------- *)

RefillSteps(t) ==
    \/ RefillTop(t) \/ RefillProduce(t) \/ OfferTest(t) \/ OfferPut(t)
    \/ OfferFull(t) \/ RefillClose(t)
GetSteps == GetPop \/ GetEmpty \/ GetGate \/ GetCheck
LifeSteps == PoolStart \/ PoolClose \/ PoolDrain \/ PoolCloseReturn

PoolNext ==
    \/ LifeSteps \/ GetSteps \/ GetReturn
    \/ \E k \in Keys : GetCall(k)
    \/ \E t \in Threads : RefillSteps(t)

PoolSpec == PoolInit /\ [][PoolNext]_poolVars

\* Every thread runs, a get() that was called goes on, a close() that began
\* goes on.  Nobody is owed a get() or a close().
PoolFairness ==
    /\ WF_poolVars(GetSteps \/ GetReturn)
    /\ WF_poolVars(PoolDrain \/ PoolCloseReturn)
    /\ \A t \in Threads : WF_poolVars(RefillSteps(t))

FairPoolSpec == PoolSpec /\ PoolFairness

(* ------------------------------ properties ------------------------------ *)

\* FIFO per config, nothing lost or repeated: get() takes a thread's outcomes
\* in the order of its produce() calls, all of them up to the close() that
\* throws one away, and an exception after all the batches before it.
FifoPerConfig ==
    \A k \in Keys : \A j \in 1..Len(got[k]) :
        LET before == {i \in 1..(j - 1) : got[k][i].thr = got[k][j].thr} IN
        /\ KeyOf[got[k][j].thr] = k
        /\ \A i \in before : got[k][i].n < got[k][j].n /\ got[k][i].kind = "ok"
        /\ closing \/ \A n \in 1..(got[k][j].n - 1) : \E i \in before : got[k][i].n = n

\* Decoded batches not yet taken, in the buffer or in the hands of a thread.
Decoded(k) ==
    Len(ready[k])
    + Cardinality({t \in Feeding(k) :
                     tpc[t] \in {"offer", "put"} /\ titem[t].kind = "ok"})

\* The bound the code keeps: ready_depth in the buffer and one batch in the
\* hands of every thread.
DecodeBound == \A k \in Keys : Decoded(k) <= Depth[k] + Cardinality(Feeding(k))

\* Every get() returns or raises while the pool is open: when the threads
\* that feed the config have died it raises instead of waiting.
GetReturns == (cpc = "poll" /\ ~closing) ~> (cpc = "idle" \/ closing)

\* After close() every thread ends, also one that waits on a full buffer
\* nobody drains ("exits promptly on close() instead of blocking forever").
ThreadsStop == closing ~> \A t \in Threads : tpc[t] \in {"new", "dead"}

==============================================================================
