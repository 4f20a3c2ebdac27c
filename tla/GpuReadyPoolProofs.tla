------------------------- MODULE GpuReadyPoolProofs -------------------------
(***************************************************************************)
(* Proofs about ReadyPool and GpuReadyPool for any configs, threads, depths *)
(* and number of calls, with close() from any thread and any restarts.      *)
(*                                                                          *)
(* FifoPerConfig is inductive only together with what is still on its way   *)
(* to get(): the queue of a config continues what was taken from it         *)
(* (LineInv), the thread that put an exception never produces again, and    *)
(* until close() every outcome of a thread is in its hands, in the queue or *)
(* taken (GapInv).                                                          *)
(***************************************************************************)
EXTENDS GpuReadyPool, FiniteSetTheorems, SequenceTheorems, TLAPS

\* Where a thread may be, and when start() meets one that is not new.
ThreadInv ==
    /\ \A t \in Threads :
         /\ tpc[t] \in {"offer", "put"} =>
              titem[t].thr = t /\ titem[t].n = tcount[t] /\ tcount[t] > 0
         /\ tpc[t] = "new" => tcount[t] = 0
    /\ kpc # "idle" => closing
    /\ ~started /\ ~closing => \A t \in Threads : tpc[t] = "new"

\* An item of config k that its thread has put: the thread is past it, and has
\* ended if it is an exception.
ItemOK(k, x) ==
    /\ KeyOf[x.thr] = k /\ x.n \in 1..tcount[x.thr]
    /\ tpc[x.thr] \in {"offer", "put"} => x.n < tcount[x.thr]
    /\ x.kind = "exc" =>
         tpc[x.thr] \in {"close", "dead"} \/ (closing /\ tpc[x.thr] = "top")

Precedes(x, y) == x.thr = y.thr => x.n < y.n /\ x.kind = "ok"

\* The taken items of a config and after them those in its queue.
LineInv ==
    \A k \in Keys :
        /\ \A j \in 1..Len(got[k]) :
             /\ ItemOK(k, got[k][j])
             /\ \A i \in 1..(j - 1) : Precedes(got[k][i], got[k][j])
        /\ \A j \in 1..Len(ready[k]) :
             /\ ItemOK(k, ready[k][j])
             /\ \A i \in 1..(j - 1) : Precedes(ready[k][i], ready[k][j])
             /\ \A i \in 1..Len(got[k]) : Precedes(got[k][i], ready[k][j])

\* Until close() no outcome of a thread is lost.
GapInv ==
    ~closing => \A t \in Threads : \A n \in 1..tcount[t] :
        \/ n = tcount[t] /\ tpc[t] \in {"offer", "put"}
        \/ \E i \in 1..Len(got[KeyOf[t]]) : got[KeyOf[t]][i].thr = t /\ got[KeyOf[t]][i].n = n
        \/ \E i \in 1..Len(ready[KeyOf[t]]) :
             ready[KeyOf[t]][i].thr = t /\ ready[KeyOf[t]][i].n = n

PoolIInv == PoolTypeOK /\ ThreadInv /\ LineInv /\ GapInv

\* The layer: a call is in progress in both or in none, the batch to launch is
\* the last one taken, and the launches have named what they launched.
LayerInv ==
    /\ cpc # "idle" => gpc \in {"prime", "get"}
    /\ gpc = "prime" => inFlight = <<>> /\ ~fallback
    /\ cpc = "ret" => Len(got[ckey]) > 0 /\ cval = got[ckey][Len(got[ckey])]
    /\ Len(named) = Len(Out)
    /\ \A i \in 1..Len(Out) : KeyOf[Out[i].thr] = named[i]

GpuIInv == PoolIInv /\ LayerInv /\ OnlyFailedUploadsLost

(* ------------------------------ sequences -------------------------------- *)

\* What Append does to a typed sequence.
LEMMA AppendFacts ==
    ASSUME NEW S, NEW q \in Seq(S), NEW e \in S
    PROVE  /\ Append(q, e) \in Seq(S)
           /\ Len(q) \in Nat /\ Len(Append(q, e)) = Len(q) + 1
           /\ \A i \in 1..Len(q) : Append(q, e)[i] = q[i]
           /\ Append(q, e)[Len(q) + 1] = e
OBVIOUS

\* What taking the head of a typed sequence does.
LEMMA TailFacts ==
    ASSUME NEW S, NEW q \in Seq(S), q # <<>>
    PROVE  /\ Tail(q) \in Seq(S) /\ Head(q) \in S /\ Head(q) = q[1]
           /\ Len(q) \in Nat /\ Len(q) > 0 /\ Len(Tail(q)) = Len(q) - 1
           /\ \A i \in 1..Len(Tail(q)) : Tail(q)[i] = q[i + 1] /\ i + 1 \in 1..Len(q)
OBVIOUS

\* The elements of a typed sequence.
LEMMA SeqFacts ==
    ASSUME NEW S, NEW q \in Seq(S)
    PROVE  Len(q) \in Nat /\ \A i \in 1..Len(q) : q[i] \in S
OBVIOUS

LEMMA ItemFields ==
    ASSUME NEW x \in Items
    PROVE  x.thr \in Threads /\ x.n \in Nat /\ x.kind \in {"ok", "exc"}
BY DEF Items

(* -------------------------------- the types ------------------------------ *)

LEMMA InitTypes == PoolInit => PoolTypeOK
<1> SUFFICES ASSUME PoolInit PROVE PoolTypeOK
  OBVIOUS
<1>1. NoItem \in Items
  <2>1. Threads # {}
    BY PoolAssumption
  <2> QED
    BY <2>1 DEF NoItem, Items
<1>2. [k \in Keys |-> <<>>] \in [Keys -> Seq(Items)]
  OBVIOUS
<1>3. \A k \in Keys : Len(ready[k]) <= Depth[k]
  <2>1. \A k \in Keys : Depth[k] \in Nat
    BY PoolAssumption
  <2>2. Len(<<>>) = 0
    OBVIOUS
  <2> QED
    BY <2>1, <2>2 DEF PoolInit
<1>4. 0 \in 0..MaxGets /\ 0 \in 0..MaxStarts
  BY PoolAssumption
<1> QED
  BY <1>1, <1>2, <1>3, <1>4 DEF PoolInit, PoolTypeOK

LEMMA NextTypes == PoolTypeOK /\ [PoolNext]_poolVars => PoolTypeOK'
<1> SUFFICES ASSUME PoolTypeOK, [PoolNext]_poolVars PROVE PoolTypeOK'
  OBVIOUS
<1> USE DEF threadVars, getVars, lifeVars
<1>1. CASE PoolStart
  BY <1>1, PoolAssumption DEF PoolStart, PoolTypeOK
<1>2. CASE PoolClose
  BY <1>2 DEF PoolClose, PoolTypeOK
<1>3. CASE PoolDrain
  <2>1. ASSUME NEW k \in Keys
        PROVE  /\ (IF ready[k] = <<>> THEN <<>> ELSE Tail(ready[k])) \in Seq(Items)
               /\ Len(IF ready[k] = <<>> THEN <<>> ELSE Tail(ready[k])) <= Depth[k]
    <3>1. ready[k] \in Seq(Items) /\ Len(ready[k]) <= Depth[k] /\ Depth[k] \in Nat
      BY PoolAssumption DEF PoolTypeOK
    <3>2. CASE ready[k] = <<>>
      BY <3>1, <3>2
    <3>3. CASE ready[k] # <<>>
      <4>1. Tail(ready[k]) \in Seq(Items) /\ Len(Tail(ready[k])) <= Depth[k]
        BY <3>1, <3>3, TailFacts
      <4> QED
        BY <3>3, <4>1
    <3> QED
      BY <3>2, <3>3
  <2> QED
    BY <1>3, <2>1 DEF PoolDrain, PoolTypeOK
<1>4. CASE PoolCloseReturn
  BY <1>4 DEF PoolCloseReturn, PoolTypeOK
<1>5. CASE GetPop
  <2>1. /\ ready[ckey] \in Seq(Items) /\ ready[ckey] # <<>> /\ ckey \in Keys
        /\ Len(ready[ckey]) <= Depth[ckey] /\ Depth[ckey] \in Nat
        /\ got[ckey] \in Seq(Items)
    BY <1>5, PoolAssumption DEF GetPop, PoolTypeOK
  <2>2. /\ Tail(ready[ckey]) \in Seq(Items) /\ Len(Tail(ready[ckey])) <= Depth[ckey]
        /\ Head(ready[ckey]) \in Items /\ Append(got[ckey], Head(ready[ckey])) \in Seq(Items)
    BY <2>1, TailFacts, AppendFacts
  <2> QED
    BY <1>5, <2>1, <2>2 DEF GetPop, PoolTypeOK
<1>6. CASE GetEmpty \/ GetGate \/ GetCheck \/ GetReturn
  BY <1>6 DEF GetEmpty, GetGate, GetCheck, GetReturn, PoolTypeOK
<1>7. ASSUME NEW k \in Keys, GetCall(k)
      PROVE  PoolTypeOK'
  BY <1>7, PoolAssumption DEF GetCall, PoolTypeOK
<1>8. ASSUME NEW t \in Threads, RefillTop(t) \/ OfferTest(t) \/ OfferFull(t) \/ RefillClose(t)
      PROVE  PoolTypeOK'
  BY <1>8 DEF RefillTop, OfferTest, OfferFull, RefillClose, AfterOffer, PoolTypeOK
<1>9. ASSUME NEW t \in Threads, RefillProduce(t)
      PROVE  PoolTypeOK'
  <2>1. PICK kind \in {"ok", "exc"} :
          titem' = [titem EXCEPT ![t] = [thr |-> t, n |-> tcount[t] + 1, kind |-> kind]]
    BY <1>9 DEF RefillProduce
  <2>2. [thr |-> t, n |-> tcount[t] + 1, kind |-> kind] \in Items
    BY DEF Items, PoolTypeOK
  <2> QED
    BY <1>9, <2>1, <2>2 DEF RefillProduce, PoolTypeOK
<1>10. ASSUME NEW t \in Threads, OfferPut(t)
       PROVE  PoolTypeOK'
  <2>1. /\ KeyOf[t] \in Keys /\ ready[KeyOf[t]] \in Seq(Items) /\ titem[t] \in Items
        /\ Depth[KeyOf[t]] \in Nat /\ Len(ready[KeyOf[t]]) < Depth[KeyOf[t]]
    BY <1>10, PoolAssumption DEF OfferPut, PoolTypeOK
  <2>2. /\ Append(ready[KeyOf[t]], titem[t]) \in Seq(Items)
        /\ Len(Append(ready[KeyOf[t]], titem[t])) <= Depth[KeyOf[t]]
    BY <2>1, AppendFacts
  <2> QED
    BY <1>10, <2>1, <2>2 DEF OfferPut, AfterOffer, PoolTypeOK
<1>11. CASE UNCHANGED poolVars
  BY <1>11 DEF poolVars, PoolTypeOK
<1> QED
  BY <1>1, <1>2, <1>3, <1>4, <1>5, <1>6, <1>7, <1>8, <1>9, <1>10, <1>11
  DEF PoolNext, LifeSteps, GetSteps, RefillSteps

(* --------------------------- the steps of the pool ------------------------ *)

\* Steps that put and take nothing: a thread that has ended does not come back
\* before close(), and until then no thread lets go of what it offers.
LEMMA QuietStep ==
    ASSUME LineInv, GapInv, UNCHANGED <<got, ready, tcount>>, closing => closing',
           \A t \in Threads :
              /\ tpc'[t] \in {"offer", "put"} => tpc[t] \in {"offer", "put"}
              /\ tpc[t] \in {"close", "dead"} \/ (closing /\ tpc[t] = "top") =>
                   tpc'[t] \in {"close", "dead"} \/ (closing' /\ tpc'[t] = "top")
              /\ tpc[t] \in {"offer", "put"} /\ ~closing' => tpc'[t] \in {"offer", "put"},
           PoolTypeOK
    PROVE  LineInv' /\ GapInv'
<1>1. ASSUME NEW k \in Keys, NEW x \in Items, ItemOK(k, x)
      PROVE  ItemOK(k, x)'
  <2>1. x.thr \in Threads
    BY ItemFields
  <2> QED
    BY <1>1, <2>1 DEF ItemOK
<1>2. LineInv'
  <2> SUFFICES ASSUME NEW k \in Keys
               PROVE  /\ \A j \in 1..Len(got[k]) :
                           /\ ItemOK(k, got[k][j])'
                           /\ \A i \in 1..(j - 1) : Precedes(got[k][i], got[k][j])
                      /\ \A j \in 1..Len(ready[k]) :
                           /\ ItemOK(k, ready[k][j])'
                           /\ \A i \in 1..(j - 1) : Precedes(ready[k][i], ready[k][j])
                           /\ \A i \in 1..Len(got[k]) : Precedes(got[k][i], ready[k][j])
    BY SMTT(30), got' = got /\ ready' = ready DEF LineInv, Precedes
  <2>1. ASSUME NEW j \in 1..Len(got[k])
        PROVE  ItemOK(k, got[k][j])'
    <3>1. PICK x : x = got[k][j]
      OBVIOUS
    <3>2. x \in Items /\ ItemOK(k, x)
      BY <3>1, SeqFacts DEF LineInv, PoolTypeOK
    <3>3. ItemOK(k, x)'
      BY <1>1, <3>2
    <3> QED
      BY <3>1, <3>3 DEF ItemOK
  <2>2. ASSUME NEW j \in 1..Len(ready[k])
        PROVE  ItemOK(k, ready[k][j])'
    <3>1. PICK x : x = ready[k][j]
      OBVIOUS
    <3>2. x \in Items /\ ItemOK(k, x)
      BY <3>1, SeqFacts DEF LineInv, PoolTypeOK
    <3>3. ItemOK(k, x)'
      BY <1>1, <3>2
    <3> QED
      BY <3>1, <3>3 DEF ItemOK
  <2> QED
    BY <2>1, <2>2 DEF LineInv
<1>3. GapInv'
  BY DEF GapInv
<1> QED
  BY <1>2, <1>3

\* produce() has an outcome: it is in the hands of the thread.
LEMMA ProduceStep ==
    ASSUME PoolTypeOK, ThreadInv, LineInv, GapInv, NEW t \in Threads, RefillProduce(t)
    PROVE  ThreadInv' /\ LineInv' /\ GapInv'
<1>1. /\ tpc[t] = "produce" /\ tpc' = [tpc EXCEPT ![t] = "offer"]
      /\ tcount' = [tcount EXCEPT ![t] = @ + 1]
      /\ UNCHANGED <<ready, got, closing, started, kpc>>
      /\ \E kind : titem' = [titem EXCEPT
                               ![t] = [thr |-> t, n |-> tcount[t] + 1, kind |-> kind]]
  BY DEF RefillProduce, getVars, lifeVars
<1>2. /\ \A u \in Threads : u # t => tpc'[u] = tpc[u] /\ tcount'[u] = tcount[u]
                                     /\ titem'[u] = titem[u]
      /\ tpc'[t] = "offer" /\ tcount'[t] = tcount[t] + 1 /\ tcount[t] \in Nat
      /\ titem'[t].thr = t /\ titem'[t].n = tcount[t] + 1
  BY <1>1 DEF PoolTypeOK
<1>3. ThreadInv'
  BY <1>1, <1>2 DEF ThreadInv
<1>4. ASSUME NEW k \in Keys, NEW x \in Items, ItemOK(k, x)
      PROVE  ItemOK(k, x)'
  <2>1. x.thr \in Threads /\ x.n \in Nat
    BY ItemFields
  <2>2. CASE x.thr = t
    BY <1>1, <1>2, <1>4, <2>1, <2>2 DEF ItemOK
  <2>3. CASE x.thr # t
    BY <1>1, <1>2, <1>4, <2>1, <2>3 DEF ItemOK
  <2> QED
    BY <2>2, <2>3
<1>5. LineInv'
  <2> SUFFICES ASSUME NEW k \in Keys
               PROVE  /\ \A j \in 1..Len(got[k]) : ItemOK(k, got[k][j])'
                      /\ \A j \in 1..Len(ready[k]) : ItemOK(k, ready[k][j])'
    BY <1>1 DEF LineInv, Precedes
  <2>1. ASSUME NEW j \in 1..Len(got[k])
        PROVE  ItemOK(k, got[k][j])'
    <3>1. PICK x : x = got[k][j]
      OBVIOUS
    <3>2. x \in Items /\ ItemOK(k, x)
      BY <3>1, SeqFacts DEF LineInv, PoolTypeOK
    <3>3. ItemOK(k, x)'
      BY <1>4, <3>2
    <3> QED
      BY <1>1, <3>1, <3>3 DEF ItemOK
  <2>2. ASSUME NEW j \in 1..Len(ready[k])
        PROVE  ItemOK(k, ready[k][j])'
    <3>1. PICK x : x = ready[k][j]
      OBVIOUS
    <3>2. x \in Items /\ ItemOK(k, x)
      BY <3>1, SeqFacts DEF LineInv, PoolTypeOK
    <3>3. ItemOK(k, x)'
      BY <1>4, <3>2
    <3> QED
      BY <1>1, <3>1, <3>3 DEF ItemOK
  <2> QED
    BY <2>1, <2>2
<1>6. GapInv'
  <2> SUFFICES ASSUME ~closing', NEW u \in Threads, NEW n \in 1..tcount'[u]
               PROVE  \/ n = tcount'[u] /\ tpc'[u] \in {"offer", "put"}
                      \/ \E i \in 1..Len(got[KeyOf[u]]) :
                           got[KeyOf[u]][i].thr = u /\ got[KeyOf[u]][i].n = n
                      \/ \E i \in 1..Len(ready[KeyOf[u]]) :
                           ready[KeyOf[u]][i].thr = u /\ ready[KeyOf[u]][i].n = n
    BY <1>1 DEF GapInv
  <2>1. CASE u = t /\ n = tcount[t] + 1
    BY <1>2, <2>1
  <2>2. CASE u = t /\ n # tcount[t] + 1
    <3>1. n \in 1..tcount[t]
      BY <1>2, <2>2
    <3> QED
      BY <1>1, <2>2, <3>1 DEF GapInv
  <2>3. CASE u # t
    BY <1>1, <1>2, <2>3 DEF GapInv
  <2> QED
    BY <2>1, <2>2, <2>3
<1> QED
  BY <1>3, <1>5, <1>6

\* A put appends the outcome in the hands of the thread to its queue.
LEMMA PutStep ==
    ASSUME PoolTypeOK, ThreadInv, LineInv, GapInv, NEW t \in Threads, OfferPut(t)
    PROVE  LineInv' /\ GapInv'
<1>h. PICK h : h = KeyOf[t]
  OBVIOUS
<1>x. PICK new : new = titem[t]
  OBVIOUS
<1>1. /\ tpc[t] = "put" /\ tpc' = [tpc EXCEPT ![t] = AfterOffer(t)]
      /\ ready' = [ready EXCEPT ![h] = Append(@, new)]
      /\ UNCHANGED <<tcount, got, closing>>
  BY <1>h, <1>x DEF OfferPut, getVars, lifeVars
<1>2. /\ h \in Keys /\ new \in Items /\ new.thr = t /\ new.n = tcount[t]
      /\ tcount[t] \in Nat /\ tcount[t] > 0 /\ ready[h] \in Seq(Items)
  BY <1>h, <1>x, <1>1, PoolAssumption DEF ThreadInv, PoolTypeOK
<1>3. /\ Len(ready[h]) \in Nat /\ Len(ready'[h]) = Len(ready[h]) + 1
      /\ \A i \in 1..Len(ready[h]) : ready'[h][i] = ready[h][i]
      /\ ready'[h][Len(ready[h]) + 1] = new
      /\ \A k \in Keys : k # h => ready'[k] = ready[k]
  <2>1. ready'[h] = Append(ready[h], new) /\ \A k \in Keys : k # h => ready'[k] = ready[k]
    BY <1>1, <1>2 DEF PoolTypeOK
  <2> QED
    BY <1>2, <2>1, AppendFacts
<1>4. /\ tpc'[t] = IF new.kind = "exc" THEN "close" ELSE "top"
      /\ \A u \in Threads : u # t => tpc'[u] = tpc[u]
  BY <1>1, <1>x DEF AfterOffer, PoolTypeOK
<1>5. ASSUME NEW k \in Keys, NEW x \in Items, ItemOK(k, x)
      PROVE  ItemOK(k, x)' /\ Precedes(x, new)
  <2>1. x.thr \in Threads /\ x.kind \in {"ok", "exc"}
    BY ItemFields
  <2> QED
    BY <1>1, <1>2, <1>4, <1>5, <2>1 DEF ItemOK, Precedes
<1>6. ItemOK(h, new)'
  BY <1>h, <1>1, <1>2, <1>4 DEF ItemOK
<1>7. ASSUME NEW k \in Keys, NEW x,
             \/ \E j \in 1..Len(got[k]) : x = got[k][j]
             \/ \E j \in 1..Len(ready[k]) : x = ready[k][j]
      PROVE  ItemOK(k, x)' /\ Precedes(x, new)
  <2>1. CASE \E j \in 1..Len(got[k]) : x = got[k][j]
    <3>1. got[k] \in Seq(Items)
      BY DEF PoolTypeOK
    <3> QED
      BY <1>5, <2>1, <3>1, SeqFacts DEF LineInv
  <2>2. CASE \E j \in 1..Len(ready[k]) : x = ready[k][j]
    <3>1. ready[k] \in Seq(Items)
      BY DEF PoolTypeOK
    <3> QED
      BY <1>5, <2>2, <3>1, SeqFacts DEF LineInv
  <2> QED
    BY <1>7, <2>1, <2>2
<1>8. ASSUME NEW k \in Keys, NEW j \in 1..Len(got'[k])
      PROVE  /\ ItemOK(k, got[k][j])'
             /\ \A i \in 1..(j - 1) : Precedes(got'[k][i], got'[k][j])
  <2>1. PICK x : x = got'[k][j]
    OBVIOUS
  <2>2. ItemOK(k, x)'
    BY <1>1, <1>7, <2>1
  <2> QED
    BY <1>1, <2>1, <2>2 DEF LineInv, ItemOK
<1>9. ASSUME NEW k \in Keys, NEW j \in 1..Len(ready'[k])
      PROVE  /\ ItemOK(k, ready[k][j])'
             /\ \A i \in 1..(j - 1) : Precedes(ready'[k][i], ready'[k][j])
             /\ \A i \in 1..Len(got'[k]) : Precedes(got'[k][i], ready'[k][j])
  <2>1. PICK x : x = ready'[k][j]
    OBVIOUS
  <2>2. CASE k = h /\ j = Len(ready[h]) + 1
    <3>1. x = new
      BY <1>3, <2>1, <2>2
    <3>2. ASSUME NEW i \in 1..(j - 1)
          PROVE  Precedes(ready'[k][i], x)
      <4>1. i \in 1..Len(ready[k]) /\ ready'[k][i] = ready[k][i]
        BY <1>3, <2>2
      <4> QED
        BY <1>7, <2>2, <3>1, <4>1
    <3>3. \A i \in 1..Len(got'[k]) : Precedes(got'[k][i], x)
      BY <1>1, <1>7, <2>2, <3>1
    <3> QED
      BY <1>6, <2>1, <2>2, <3>1, <3>2, <3>3 DEF ItemOK
  <2>3. CASE ~(k = h /\ j = Len(ready[h]) + 1)
    <3>1. /\ j \in 1..Len(ready[k])
          /\ \A i \in 1..j : ready'[k][i] = ready[k][i]
      BY <1>3, <2>3
    <3>2. x = ready[k][j]
      BY <2>1, <3>1
    <3>3. ItemOK(k, x)'
      BY <1>7, <3>1, <3>2
    <3>4. \A i \in 1..(j - 1) : Precedes(ready'[k][i], x)
      BY <3>1, <3>2 DEF LineInv
    <3>5. \A i \in 1..Len(got'[k]) : Precedes(got'[k][i], x)
      BY <1>1, <3>1, <3>2 DEF LineInv
    <3> QED
      BY <2>1, <3>3, <3>4, <3>5 DEF ItemOK
  <2> QED
    BY <2>2, <2>3
<1>10. LineInv'
  BY <1>8, <1>9 DEF LineInv
<1>11. GapInv'
  <2> SUFFICES ASSUME ~closing, NEW u \in Threads, NEW n \in 1..tcount[u]
               PROVE  \/ n = tcount[u] /\ tpc'[u] \in {"offer", "put"}
                      \/ \E i \in 1..Len(got[KeyOf[u]]) :
                           got[KeyOf[u]][i].thr = u /\ got[KeyOf[u]][i].n = n
                      \/ \E i \in 1..Len(ready'[KeyOf[u]]) :
                           ready'[KeyOf[u]][i].thr = u /\ ready'[KeyOf[u]][i].n = n
    BY <1>1 DEF GapInv
  <2>1. KeyOf[u] \in Keys
    BY PoolAssumption
  <2>2. CASE u = t /\ n = tcount[t]
    <3>1. Len(ready[h]) + 1 \in 1..Len(ready'[h])
      BY <1>3
    <3> QED
      BY <1>h, <1>2, <1>3, <2>2, <3>1
  <2>3. CASE ~(u = t /\ n = tcount[t])
    <3>1. PICK k \in Keys : k = KeyOf[u]
      BY <2>1
    <3>2. \A i \in 1..Len(ready[k]) : i \in 1..Len(ready'[k]) /\ ready'[k][i] = ready[k][i]
      <4>1. CASE k = h
        BY <1>3, <4>1
      <4>2. CASE k # h
        BY <1>3, <4>2
      <4> QED
        BY <4>1, <4>2
    <3>3. \/ n = tcount[u] /\ tpc[u] \in {"offer", "put"}
          \/ \E i \in 1..Len(got[k]) : got[k][i].thr = u /\ got[k][i].n = n
          \/ \E i \in 1..Len(ready[k]) : ready[k][i].thr = u /\ ready[k][i].n = n
      BY <3>1 DEF GapInv
    <3>4. CASE n = tcount[u] /\ tpc[u] \in {"offer", "put"}
      BY <1>4, <2>3, <3>4
    <3>5. CASE \E i \in 1..Len(ready[k]) : ready[k][i].thr = u /\ ready[k][i].n = n
      <4>1. PICK i \in 1..Len(ready[k]) : ready[k][i].thr = u /\ ready[k][i].n = n
        BY <3>5
      <4> QED
        BY <3>1, <3>2, <4>1
    <3> QED
      BY <3>1, <3>3, <3>4, <3>5
  <2> QED
    BY <2>2, <2>3
<1> QED
  BY <1>10, <1>11

\* get() takes the head of the queue.
LEMMA PopStep ==
    ASSUME PoolTypeOK, LineInv, GapInv, GetPop
    PROVE  LineInv' /\ GapInv'
<1>h. PICK h : h = ckey
  OBVIOUS
<1>x. PICK new : new = Head(ready[ckey])
  OBVIOUS
<1>1. /\ got' = [got EXCEPT ![h] = Append(@, new)]
      /\ ready' = [ready EXCEPT ![h] = Tail(ready[h])] /\ ready[h] # <<>>
      /\ UNCHANGED <<tpc, tcount, closing>>
  BY <1>h, <1>x DEF GetPop, threadVars, lifeVars
<1>2. h \in Keys /\ ready[h] \in Seq(Items) /\ got[h] \in Seq(Items) /\ new \in Items
  <2>1. h \in Keys /\ ready[h] \in Seq(Items) /\ got[h] \in Seq(Items)
    BY <1>h DEF PoolTypeOK
  <2> QED
    BY <1>h, <1>x, <1>1, <2>1, TailFacts
<1>3. /\ Len(ready[h]) \in Nat /\ Len(ready[h]) > 0 /\ Len(ready'[h]) = Len(ready[h]) - 1
      /\ \A i \in 1..Len(ready'[h]) : ready'[h][i] = ready[h][i + 1] /\ i + 1 \in 1..Len(ready[h])
      /\ new = ready[h][1]
      /\ \A k \in Keys : k # h => ready'[k] = ready[k]
  <2>1. ready'[h] = Tail(ready[h]) /\ \A k \in Keys : k # h => ready'[k] = ready[k]
    BY <1>1, <1>2 DEF PoolTypeOK
  <2>2. PICK q \in Seq(Items) : q = ready[h] /\ q # <<>>
    BY <1>1, <1>2
  <2>3. /\ Len(q) \in Nat /\ Len(q) > 0 /\ Len(Tail(q)) = Len(q) - 1 /\ Head(q) = q[1]
        /\ \A i \in 1..Len(Tail(q)) : Tail(q)[i] = q[i + 1] /\ i + 1 \in 1..Len(q)
    BY <2>2, TailFacts
  <2>4. ready'[h] = Tail(q) /\ new = Head(q)
    BY <1>h, <1>x, <2>1, <2>2
  <2> QED
    BY <2>1, <2>2, <2>3, <2>4
<1>4. /\ Len(got[h]) \in Nat /\ Len(got'[h]) = Len(got[h]) + 1
      /\ \A i \in 1..Len(got[h]) : got'[h][i] = got[h][i]
      /\ got'[h][Len(got[h]) + 1] = new
      /\ \A k \in Keys : k # h => got'[k] = got[k]
  <2>1. got'[h] = Append(got[h], new) /\ \A k \in Keys : k # h => got'[k] = got[k]
    BY <1>1, <1>2 DEF PoolTypeOK
  <2> QED
    BY <1>2, <2>1, AppendFacts
<1>5. ASSUME NEW k \in Keys, NEW x, ItemOK(k, x)
      PROVE  ItemOK(k, x)'
  BY <1>1, <1>5 DEF ItemOK
<1>6. ItemOK(h, new) /\ \A i \in 1..Len(got[h]) : Precedes(got[h][i], new)
  BY <1>2, <1>3 DEF LineInv
<1>7. ASSUME NEW k \in Keys, NEW j \in 1..Len(got'[k])
      PROVE  /\ ItemOK(k, got[k][j])'
             /\ \A i \in 1..(j - 1) : Precedes(got'[k][i], got'[k][j])
  <2>1. PICK x : x = got'[k][j]
    OBVIOUS
  <2>2. CASE k = h /\ j = Len(got[h]) + 1
    <3>1. x = new
      BY <1>4, <2>1, <2>2
    <3>2. \A i \in 1..(j - 1) : Precedes(got'[k][i], x)
      BY <1>4, <1>6, <2>2, <3>1
    <3>3. ItemOK(k, x)'
      BY <1>2, <1>5, <1>6, <2>2, <3>1
    <3> QED
      BY <2>1, <3>2, <3>3 DEF ItemOK
  <2>3. CASE ~(k = h /\ j = Len(got[h]) + 1)
    <3>1. /\ j \in 1..Len(got[k])
          /\ \A i \in 1..j : got'[k][i] = got[k][i]
      BY <1>4, <2>3
    <3>2. x = got[k][j]
      BY <2>1, <3>1
    <3>3. ItemOK(k, x)'
      BY <1>5, <3>1, <3>2 DEF LineInv
    <3>4. \A i \in 1..(j - 1) : Precedes(got'[k][i], x)
      BY <3>1, <3>2 DEF LineInv
    <3> QED
      BY <2>1, <3>3, <3>4 DEF ItemOK
  <2> QED
    BY <2>2, <2>3
<1>8. ASSUME NEW k \in Keys, NEW j \in 1..Len(ready'[k])
      PROVE  /\ ItemOK(k, ready[k][j])'
             /\ \A i \in 1..(j - 1) : Precedes(ready'[k][i], ready'[k][j])
             /\ \A i \in 1..Len(got'[k]) : Precedes(got'[k][i], ready'[k][j])
  <2>1. PICK x : x = ready'[k][j]
    OBVIOUS
  <2>2. CASE k = h
    <3>1. x = ready[h][j + 1] /\ j + 1 \in 1..Len(ready[h])
      BY <1>3, <2>1, <2>2
    <3>2. ItemOK(k, x)'
      BY <1>2, <1>5, <2>2, <3>1 DEF LineInv
    <3>3. ASSUME NEW i \in 1..(j - 1)
          PROVE  Precedes(ready'[k][i], x)
      <4>1. i \in 1..Len(ready'[h]) /\ i + 1 \in 1..((j + 1) - 1)
        <5>1. PICK n \in Nat : n = Len(ready'[h])
          BY <1>3
        <5>2. j \in 1..n
          BY <2>2, <5>1
        <5> QED
          BY <5>1, <5>2
      <4>2. ready'[k][i] = ready[h][i + 1]
        BY <1>3, <2>2, <4>1
      <4> QED
        BY <1>2, <3>1, <4>1, <4>2 DEF LineInv
    <3>4. ASSUME NEW i \in 1..Len(got'[k])
          PROVE  Precedes(got'[k][i], x)
      <4>1. CASE i = Len(got[h]) + 1
        <5>1. got'[k][i] = ready[h][1] /\ 1 \in 1..((j + 1) - 1)
          BY <1>3, <1>4, <2>2, <4>1
        <5> QED
          BY <1>2, <3>1, <5>1 DEF LineInv
      <4>2. CASE i # Len(got[h]) + 1
        <5>1. got'[k][i] = got[h][i] /\ i \in 1..Len(got[h])
          BY <1>4, <2>2, <4>2
        <5> QED
          BY <1>2, <3>1, <5>1 DEF LineInv
      <4> QED
        BY <4>1, <4>2
    <3> QED
      BY <2>1, <3>2, <3>3, <3>4 DEF ItemOK
  <2>3. CASE k # h
    <3>1. ready'[k] = ready[k] /\ got'[k] = got[k]
      BY <1>3, <1>4, <2>3
    <3>2. ItemOK(k, x)'
      BY <1>5, <2>1, <3>1 DEF LineInv
    <3> QED
      BY <2>1, <3>1, <3>2 DEF LineInv, ItemOK
  <2> QED
    BY <2>2, <2>3
<1>9. LineInv'
  BY <1>7, <1>8 DEF LineInv
<1>10. GapInv'
  <2> SUFFICES ASSUME ~closing, NEW u \in Threads, NEW n \in 1..tcount[u]
               PROVE  \/ n = tcount[u] /\ tpc[u] \in {"offer", "put"}
                      \/ \E i \in 1..Len(got'[KeyOf[u]]) :
                           got'[KeyOf[u]][i].thr = u /\ got'[KeyOf[u]][i].n = n
                      \/ \E i \in 1..Len(ready'[KeyOf[u]]) :
                           ready'[KeyOf[u]][i].thr = u /\ ready'[KeyOf[u]][i].n = n
    BY <1>1 DEF GapInv
  <2>1. KeyOf[u] \in Keys
    BY PoolAssumption
  <2>2. CASE \E i \in 1..Len(ready[KeyOf[u]]) :
               ready[KeyOf[u]][i].thr = u /\ ready[KeyOf[u]][i].n = n
    <3>1. PICK i \in 1..Len(ready[KeyOf[u]]) :
                 ready[KeyOf[u]][i].thr = u /\ ready[KeyOf[u]][i].n = n
      BY <2>2
    <3>2. CASE KeyOf[u] = h /\ i = 1
      <4>1. Len(got[h]) + 1 \in 1..Len(got'[h])
        BY <1>4
      <4> QED
        BY <1>3, <1>4, <3>1, <3>2, <4>1
    <3>3. CASE KeyOf[u] = h /\ i # 1
      <4>1. i - 1 \in 1..Len(ready'[h]) /\ (i - 1) + 1 = i
        BY <1>3, <3>3
      <4>2. ready'[h][i - 1] = ready[h][i]
        BY <1>3, <4>1
      <4> QED
        BY <3>1, <3>3, <4>1, <4>2
    <3>4. CASE KeyOf[u] # h
      BY <1>3, <2>1, <3>1, <3>4
    <3> QED
      BY <3>2, <3>3, <3>4
  <2>3. CASE \E i \in 1..Len(got[KeyOf[u]]) :
               got[KeyOf[u]][i].thr = u /\ got[KeyOf[u]][i].n = n
    <3>1. \A i \in 1..Len(got[KeyOf[u]]) :
            i \in 1..Len(got'[KeyOf[u]]) /\ got'[KeyOf[u]][i] = got[KeyOf[u]][i]
      BY <1>4, <2>1
    <3> QED
      BY <2>3, <3>1
  <2> QED
    BY <2>2, <2>3 DEF GapInv
<1> QED
  BY <1>9, <1>10

\* close() throws away at most the head of every queue.
LEMMA DrainStep ==
    ASSUME PoolTypeOK, ThreadInv, LineInv, PoolDrain
    PROVE  LineInv' /\ GapInv'
<1>1. /\ ready' = [k \in Keys |-> IF ready[k] = <<>> THEN <<>> ELSE Tail(ready[k])]
      /\ UNCHANGED <<tpc, tcount, got, closing>> /\ closing
  BY DEF PoolDrain, ThreadInv, threadVars, getVars
<1>2. ASSUME NEW k \in Keys, NEW x, ItemOK(k, x)
      PROVE  ItemOK(k, x)'
  BY <1>1, <1>2 DEF ItemOK
<1>3. ASSUME NEW k \in Keys, NEW j \in 1..Len(got'[k])
      PROVE  /\ ItemOK(k, got[k][j])'
             /\ \A i \in 1..(j - 1) : Precedes(got'[k][i], got'[k][j])
  <2>1. PICK x : x = got'[k][j]
    OBVIOUS
  <2>2. ItemOK(k, x)'
    BY <1>1, <1>2, <2>1 DEF LineInv
  <2> QED
    BY <1>1, <2>1, <2>2 DEF LineInv, ItemOK
<1>4. ASSUME NEW k \in Keys, NEW j \in 1..Len(ready'[k])
      PROVE  /\ ItemOK(k, ready[k][j])'
             /\ \A i \in 1..(j - 1) : Precedes(ready'[k][i], ready'[k][j])
             /\ \A i \in 1..Len(got'[k]) : Precedes(got'[k][i], ready'[k][j])
  <2>1. ready[k] \in Seq(Items) /\ ready[k] # <<>> /\ ready'[k] = Tail(ready[k])
    BY <1>1 DEF PoolTypeOK
  <2>2. \A i \in 1..Len(ready'[k]) : ready'[k][i] = ready[k][i + 1] /\ i + 1 \in 1..Len(ready[k])
    BY <2>1, TailFacts
  <2>3. Len(ready'[k]) \in Nat
    BY <2>1, TailFacts
  <2>4. PICK x : x = ready'[k][j]
    OBVIOUS
  <2>5. x = ready[k][j + 1] /\ j + 1 \in 1..Len(ready[k])
    BY <2>2, <2>4
  <2>6. ItemOK(k, x)'
    BY <1>2, <2>5 DEF LineInv
  <2>7. ASSUME NEW i \in 1..(j - 1)
        PROVE  Precedes(ready'[k][i], x)
    <3>1. ready'[k][i] = ready[k][i + 1] /\ i + 1 \in 1..((j + 1) - 1)
      BY <2>2, <2>3
    <3> QED
      BY <2>5, <3>1 DEF LineInv
  <2>8. \A i \in 1..Len(got'[k]) : Precedes(got'[k][i], x)
    BY <1>1, <2>5 DEF LineInv
  <2> QED
    BY <2>4, <2>6, <2>7, <2>8 DEF ItemOK
<1>5. LineInv'
  BY <1>3, <1>4 DEF LineInv
<1>6. GapInv'
  BY <1>1 DEF GapInv
<1> QED
  BY <1>5, <1>6

LEMMA InitPool == PoolInit => PoolIInv
<1> SUFFICES ASSUME PoolInit PROVE PoolIInv
  OBVIOUS
<1>1. ThreadInv
  BY DEF PoolInit, ThreadInv
<1>2. \A k \in Keys : got[k] = <<>> /\ ready[k] = <<>>
  BY DEF PoolInit
<1>3. LineInv
  BY <1>2 DEF LineInv
<1>4. GapInv
  BY DEF PoolInit, GapInv
<1> QED
  BY <1>1, <1>3, <1>4, InitTypes DEF PoolIInv

\* PoolIInv is inductive.
LEMMA NextPool == PoolIInv /\ [PoolNext]_poolVars => PoolIInv'
<1> SUFFICES ASSUME PoolIInv, [PoolNext]_poolVars PROVE PoolIInv'
  OBVIOUS
<1>0. PoolTypeOK /\ ThreadInv /\ LineInv /\ GapInv /\ PoolTypeOK'
  BY NextTypes DEF PoolIInv
<1> SUFFICES ThreadInv' /\ LineInv' /\ GapInv'
  BY <1>0 DEF PoolIInv
<1> USE DEF threadVars, getVars, lifeVars
<1>1. CASE PoolStart
  <2>1. /\ UNCHANGED <<got, ready, tcount, titem, closing, kpc>> /\ started' = TRUE
        /\ \A t \in Threads : tpc'[t] = IF tpc[t] \in {"new", "dead"} THEN "top" ELSE tpc[t]
        /\ ~started /\ kpc = "idle"
    BY <1>1 DEF PoolStart
  <2>2. ThreadInv'
    BY <1>0, <2>1 DEF ThreadInv
  <2>3. \A t \in Threads :
          /\ tpc'[t] \in {"offer", "put"} => tpc[t] \in {"offer", "put"}
          /\ tpc[t] \in {"offer", "put"} => tpc'[t] \in {"offer", "put"}
    BY <2>1
  <2>4. ASSUME NEW t \in Threads, tpc[t] \in {"close", "dead"} \/ (closing /\ tpc[t] = "top")
        PROVE  tpc'[t] \in {"close", "dead"} \/ (closing' /\ tpc'[t] = "top")
    BY <1>0, <2>1, <2>4 DEF ThreadInv
  <2> QED
    BY <1>0, <2>1, <2>2, <2>3, <2>4, QuietStep
<1>2. CASE PoolDrain
  <2>1. ThreadInv'
    BY <1>0, <1>2 DEF PoolDrain, ThreadInv
  <2> QED
    BY <1>0, <1>2, <2>1, DrainStep
<1>3. CASE PoolClose \/ PoolCloseReturn
  <2>1. /\ UNCHANGED <<got, ready, tcount, titem, tpc>> /\ (closing => closing')
    BY <1>3 DEF PoolClose, PoolCloseReturn
  <2>2. ThreadInv'
    <3>1. CASE PoolClose
      BY <1>0, <3>1 DEF PoolClose, ThreadInv
    <3>2. CASE PoolCloseReturn
      BY <1>0, <3>2 DEF PoolCloseReturn, ThreadInv
    <3> QED
      BY <1>3, <3>1, <3>2
  <2> QED
    BY <1>0, <2>1, <2>2, QuietStep
<1>4. CASE GetPop
  <2>1. ThreadInv'
    BY <1>0, <1>4 DEF GetPop, ThreadInv
  <2> QED
    BY <1>0, <1>4, <2>1, PopStep
<1>5. CASE GetEmpty \/ GetGate \/ GetCheck \/ GetReturn \/ (\E k \in Keys : GetCall(k))
            \/ UNCHANGED poolVars
  <2>1. UNCHANGED <<got, ready, tcount, titem, tpc, closing, started, kpc>>
    BY <1>5 DEF GetEmpty, GetGate, GetCheck, GetReturn, GetCall, poolVars
  <2>2. ThreadInv'
    BY <1>0, <2>1 DEF ThreadInv
  <2> QED
    BY <1>0, <2>1, <2>2, QuietStep
<1>6. ASSUME NEW t \in Threads, RefillProduce(t)
      PROVE  ThreadInv' /\ LineInv' /\ GapInv'
  BY <1>0, <1>6, ProduceStep
<1>7. ASSUME NEW t \in Threads, OfferPut(t)
      PROVE  ThreadInv' /\ LineInv' /\ GapInv'
  <2>1. /\ UNCHANGED <<tcount, titem, closing, started, kpc>> /\ tpc[t] = "put"
        /\ tpc' = [tpc EXCEPT ![t] = IF titem[t].kind = "exc" THEN "close" ELSE "top"]
    BY <1>7 DEF OfferPut, AfterOffer
  <2>2. ThreadInv'
    BY <1>0, <2>1 DEF ThreadInv, PoolTypeOK
  <2> QED
    BY <1>0, <1>7, <2>2, PutStep
<1>8. ASSUME NEW t \in Threads, RefillTop(t) \/ OfferTest(t) \/ OfferFull(t) \/ RefillClose(t)
      PROVE  ThreadInv' /\ LineInv' /\ GapInv'
  <2>1. /\ UNCHANGED <<got, ready, tcount, titem, closing, started, kpc>>
        /\ \A u \in Threads : u # t => tpc'[u] = tpc[u]
        /\ \/ tpc[t] = "top" /\ tpc'[t] = IF closing THEN "close" ELSE "produce"
           \/ /\ tpc[t] = "offer"
              /\ IF closing THEN tpc'[t] \in {"close", "top"} ELSE tpc'[t] = "put"
           \/ tpc[t] = "put" /\ tpc'[t] = "offer"
           \/ tpc[t] = "close" /\ tpc'[t] = "dead"
    <3> USE <1>0 DEF PoolTypeOK
    <3>1. CASE RefillTop(t)
      BY <3>1 DEF RefillTop
    <3>2. CASE OfferTest(t)
      BY <3>2 DEF OfferTest, AfterOffer
    <3>3. CASE OfferFull(t)
      BY <3>3 DEF OfferFull
    <3>4. CASE RefillClose(t)
      BY <3>4 DEF RefillClose
    <3> QED
      BY <1>8, <3>1, <3>2, <3>3, <3>4
  <2>2. ThreadInv'
    BY <1>0, <2>1 DEF ThreadInv
  <2>3. \A u \in Threads :
          /\ tpc'[u] \in {"offer", "put"} => tpc[u] \in {"offer", "put"}
          /\ tpc[u] \in {"close", "dead"} \/ (closing /\ tpc[u] = "top") =>
               tpc'[u] \in {"close", "dead"} \/ (closing' /\ tpc'[u] = "top")
          /\ tpc[u] \in {"offer", "put"} /\ ~closing' => tpc'[u] \in {"offer", "put"}
    BY <2>1
  <2> QED
    BY <1>0, <2>1, <2>2, <2>3, QuietStep
<1> QED
  BY <1>1, <1>2, <1>3, <1>4, <1>5, <1>6, <1>7, <1>8
  DEF PoolNext, LifeSteps, GetSteps, RefillSteps

(* ---------------------------- theorems of the pool ------------------------ *)

\* GapInv for one outcome that is not the last of its thread.
LEMMA GapAt ==
    ASSUME GapInv, ~closing, NEW u \in Threads, NEW n \in 1..tcount[u], n # tcount[u],
           NEW k, KeyOf[u] = k
    PROVE  \/ \E i \in 1..Len(got[k]) : got[k][i].thr = u /\ got[k][i].n = n
           \/ \E i \in 1..Len(ready[k]) : ready[k][i].thr = u /\ ready[k][i].n = n
BY DEF GapInv

\* What FifoPerConfig asks of the items taken is what LineInv and GapInv say of
\* them: an earlier outcome of the thread of got[k][j] can be neither in its
\* hands nor in the queue, and stands before j.
LEMMA InOrder == PoolIInv => FifoPerConfig
<1> DEFINE Before(k, j) == {i \in 1..(j - 1) : got[k][i].thr = got[k][j].thr}
<1> SUFFICES ASSUME PoolIInv, NEW k \in Keys, NEW j \in 1..Len(got[k])
             PROVE  /\ KeyOf[got[k][j].thr] = k
                    /\ \A i \in Before(k, j) : got[k][i].n < got[k][j].n /\ got[k][i].kind = "ok"
                    /\ closing \/ \A n \in 1..(got[k][j].n - 1) : \E i \in Before(k, j) : got[k][i].n = n
  BY DEF FifoPerConfig
<1>0. PoolTypeOK /\ ThreadInv /\ LineInv /\ GapInv
  BY DEF PoolIInv
<1>1. got[k] \in Seq(Items) /\ ready[k] \in Seq(Items)
  BY <1>0 DEF PoolTypeOK
<1>2. PICK x \in Items : x = got[k][j]
  BY <1>1, SeqFacts
<1>3. x.thr \in Threads /\ x.n \in Nat /\ tcount[x.thr] \in Nat
  BY <1>0, ItemFields DEF PoolTypeOK
<1>4. ItemOK(k, x) /\ \A i \in 1..(j - 1) : Precedes(got[k][i], x)
  BY <1>0, <1>2 DEF LineInv
<1>5. \A i \in Before(k, j) : got[k][i].n < x.n /\ got[k][i].kind = "ok"
  BY <1>2, <1>4 DEF Precedes
<1>6. ASSUME ~closing, NEW n \in 1..(x.n - 1)
      PROVE  \E i \in Before(k, j) : got[k][i].n = n
  <2>1. n \in 1..tcount[x.thr] /\ n # x.n /\ n < tcount[x.thr] /\ n < x.n
    BY <1>3, <1>4 DEF ItemOK
  <2>2. KeyOf[x.thr] = k
    BY <1>4 DEF ItemOK
  <2>3. ASSUME NEW i \in 1..Len(ready[k]), ready[k][i].thr = x.thr, ready[k][i].n = n
        PROVE  FALSE
    <3>1. Precedes(x, ready[k][i])
      BY <1>0, <1>2 DEF LineInv
    <3> QED
      BY <1>3, <2>1, <2>3, <3>1 DEF Precedes
  <2>4. PICK i \in 1..Len(got[k]) : got[k][i].thr = x.thr /\ got[k][i].n = n
    <3>1. PICK u \in Threads : u = x.thr /\ KeyOf[u] = k /\ n \in 1..tcount[u] /\ n # tcount[u]
      BY <1>3, <2>1, <2>2
    <3>2. \/ \E i \in 1..Len(got[k]) : got[k][i].thr = u /\ got[k][i].n = n
          \/ \E i \in 1..Len(ready[k]) : ready[k][i].thr = u /\ ready[k][i].n = n
      BY SMTT(30), <1>0, <1>6, <3>1, GapAt
    <3> QED
      BY <2>3, <3>1, <3>2
  <2>5. i # j
    BY <1>2, <2>1, <2>4
  <2>6. CASE i > j
    <3>1. j \in 1..(i - 1)
      BY <2>6
    <3>2. Precedes(x, got[k][i])
      BY <1>0, <1>2, <3>1 DEF LineInv
    <3> QED
      BY <1>3, <2>1, <2>4, <3>2 DEF Precedes
  <2>7. CASE i < j
    <3>1. i \in 1..(j - 1)
      BY <2>7
    <3> QED
      BY <1>2, <2>4, <3>1
  <2> QED
    BY <2>5, <2>6, <2>7
<1> QED
  BY <1>2, <1>4, <1>5, <1>6 DEF ItemOK

\* FIFO per config (_pool.py, _refill_loop and get): for any configs, threads
\* and depths, whoever closes and restarts the pool and whenever.
THEOREM FifoAlways == PoolSpec => []FifoPerConfig
<1>1. PoolSpec => []PoolIInv
  BY InitPool, NextPool, PTL DEF PoolSpec
<1> QED
  BY <1>1, InOrder, PTL

\* The bound on decoded batches (_pool.py, PoolConfig.ready_depth): ready_depth
\* and one in the hands of every thread, for any pool.
THEOREM BoundAlways == PoolSpec => []DecodeBound
<1>1. PoolIInv => DecodeBound
  <2> SUFFICES ASSUME PoolIInv, NEW k \in Keys
               PROVE  Decoded(k) <= Depth[k] + Cardinality(Feeding(k))
    BY DEF DecodeBound
  <2> DEFINE hands == {t \in Feeding(k) : tpc[t] \in {"offer", "put"} /\ titem[t].kind = "ok"}
  <2>1. ready[k] \in Seq(Items) /\ Len(ready[k]) <= Depth[k] /\ Depth[k] \in Nat
    BY PoolAssumption DEF PoolIInv, PoolTypeOK
  <2>2. IsFiniteSet(Feeding(k))
    BY PoolAssumption, FS_Subset DEF Feeding
  <2>3. hands \subseteq Feeding(k)
    OBVIOUS
  <2>4. /\ Cardinality(hands) <= Cardinality(Feeding(k))
        /\ Cardinality(hands) \in Nat /\ Cardinality(Feeding(k)) \in Nat
    BY <2>2, <2>3, FS_Subset, FS_CardinalityType
  <2>5. Len(ready[k]) \in Nat
    BY <2>1
  <2> HIDE DEF hands
  <2>6. Len(ready[k]) + Cardinality(hands) <= Depth[k] + Cardinality(Feeding(k))
    BY <2>1, <2>4, <2>5
  <2> QED
    BY <2>6 DEF hands, Decoded
<1>2. PoolSpec => []PoolIInv
  BY InitPool, NextPool, PTL DEF PoolSpec
<1> QED
  BY <1>1, <1>2, PTL

(* ------------------------------- the layer -------------------------------- *)

\* What concatenation does to typed sequences.
LEMMA ConcatFacts ==
    ASSUME NEW S, NEW q \in Seq(S), NEW r \in Seq(S)
    PROVE  /\ q \o r \in Seq(S) /\ Len(q) \in Nat /\ Len(r) \in Nat
           /\ Len(q \o r) = Len(q) + Len(r)
           /\ \A i \in 1..Len(q) : (q \o r)[i] = q[i]
           /\ \A i \in 1..Len(r) : (q \o r)[Len(q) + i] = r[i]
OBVIOUS

\* Batches handed on at once or after the ones before them.
LEMMA HandedOn ==
    ASSUME NEW S, NEW q \in Seq(S), NEW r \in Seq(S), NEW e \in S
    PROVE  /\ (q \o r) \o <<e>> = Append(q \o r, e)
           /\ q \o <<>> = q
           /\ Append(q, e) \o <<>> = Append(q, e)
           /\ q \o <<e>> = Append(q, e)
<1>1. q \o r \in Seq(S) /\ Append(q, e) \in Seq(S)
  OBVIOUS
<1> QED
  BY <1>1, AppendIsConcat, ConcatEmptySeq

\* A call of the layer is the call of the pool it makes.
LEMMA LayerStep == [GpuNext]_gvars => [PoolNext]_poolVars
<1> SUFFICES ASSUME [GpuNext]_gvars PROVE [PoolNext]_poolVars
  OBVIOUS
<1>1. CASE PoolSteps
  BY <1>1 DEF PoolSteps, PoolNext
<1>2. CASE Launched
  BY <1>2 DEF Launched, PoolNext
<1>3. CASE LaunchRaised
  BY <1>3 DEF LaunchRaised, PoolNext
<1>4. ASSUME NEW k \in Keys, Prime(k) \/ GpuGet(k)
      PROVE  PoolNext
  BY <1>4 DEF Prime, GpuGet, PoolNext
<1>5. CASE UNCHANGED gvars
  BY <1>5 DEF gvars
<1>6. CASE LaunchFails
  BY <1>6 DEF LaunchFails, PoolNext
<1> QED
  BY <1>1, <1>2, <1>3, <1>4, <1>5, <1>6 DEF GpuNext

\* The layer uses the pool as the pool allows: what is proved of ReadyPool
\* holds under it (_gpu_pool.py, prime and get).
THEOREM LayerKeepsThePool == GpuSpec => PoolSpec
<1>1. GpuInit => PoolInit
  BY DEF GpuInit
<1> QED
  BY <1>1, LayerStep, PTL DEF GpuSpec, PoolSpec

\* What a launch hands on is the batch just taken, after everything before it.
LEMMA LaunchedOut ==
    ASSUME GpuTypeOK, LayerInv, Launched
    PROVE  /\ Out' = Append(Out, cval) /\ Out \in Seq(Items) /\ cval \in Items
           /\ inFlight' \in Seq(Items) /\ Len(inFlight') <= (IF fallback' THEN 0 ELSE 1)
           /\ returned' \in Seq(Items)
<1>1. /\ returned \in Seq(Items) /\ inFlight \in Seq(Items) /\ cval \in Items
      /\ Len(inFlight) <= (IF fallback THEN 0 ELSE 1)
  BY DEF GpuTypeOK, PoolTypeOK
<1>2. Out \in Seq(Items)
  BY <1>1 DEF Out
<1>3. CASE fallback
  <2>1. inFlight = <<>> /\ inFlight' = <<>> /\ returned' = Append(returned, cval) /\ fallback'
    BY <1>1, <1>3 DEF Launched
  <2>2. Out = returned /\ Out' = Append(returned, cval) \o <<>>
    BY <1>1, <2>1, HandedOn DEF Out
  <2> QED
    BY <1>1, <1>2, <2>1, <2>2, HandedOn
<1>4. CASE ~fallback
  <2>1. inFlight' = <<cval>> /\ ~fallback' /\ gpc \in {"prime", "get"}
        /\ returned' = returned \o (IF gpc = "get" THEN inFlight ELSE <<>>)
    BY <1>4 DEF Launched, LayerInv
  <2>2. gpc = "prime" => inFlight = <<>>
    BY DEF LayerInv
  <2>3. returned' = Out
    <3>1. CASE gpc = "get"
      BY <2>1, <3>1 DEF Out
    <3>2. CASE gpc = "prime"
      BY <2>1, <2>2, <3>2 DEF Out
    <3> QED
      BY <2>1, <3>1, <3>2
  <2>4. Out' = Out \o <<cval>>
    BY <2>1, <2>3 DEF Out
  <2>5. <<cval>> \in Seq(Items) /\ Len(<<cval>>) = 1
    BY <1>1
  <2> QED
    BY <1>1, <1>2, <2>1, <2>3, <2>4, <2>5, HandedOn
<1> QED
  BY <1>3, <1>4

\* The types of the layer are kept.
LEMMA LayerTypes == GpuTypeOK /\ LayerInv /\ [GpuNext]_gvars => GpuTypeOK'
<1> SUFFICES ASSUME GpuTypeOK, LayerInv, [GpuNext]_gvars PROVE GpuTypeOK'
  OBVIOUS
<1>1. PoolTypeOK'
  BY NextTypes, LayerStep DEF GpuTypeOK
<1>2. CASE Launched
  <2>1. /\ ckey \in Keys /\ named \in Seq(Keys) /\ named' = Append(named, ckey)
        /\ gpc' = "idle" /\ failed \subseteq Items /\ failed' = failed
    BY <1>2 DEF Launched, GpuTypeOK, PoolTypeOK
  <2>2. named' \in Seq(Keys)
    BY <2>1, AppendFacts
  <2> QED
    BY <1>1, <1>2, <2>1, <2>2, LaunchedOut DEF GpuTypeOK
<1>3. CASE PoolSteps \/ LaunchRaised \/ (\E k \in Keys : Prime(k) \/ GpuGet(k)) \/ UNCHANGED gvars
  <2>1. /\ UNCHANGED <<inFlight, fallback, named, returned, failed>>
        /\ gpc' \in {gpc, "idle", "prime", "get"}
    BY <1>3 DEF PoolSteps, LaunchRaised, Prime, GpuGet, gvars, gpuVars
  <2> QED
    BY <1>1, <2>1 DEF GpuTypeOK
<1>4. CASE LaunchFails
  <2>1. UNCHANGED <<inFlight, fallback, named, returned>> /\ gpc' = "idle"
    BY <1>4 DEF LaunchFails
  <2>2. cval \in Items /\ failed' = failed \cup {cval}
    BY <1>4 DEF LaunchFails, GpuTypeOK, PoolTypeOK
  <2> QED
    BY <1>1, <2>1, <2>2 DEF GpuTypeOK
<1> QED
  BY <1>2, <1>3, <1>4 DEF GpuNext

\* Steps of the pool under the layer other than taking an item.
LEMMA PoolStepKinds ==
    ASSUME PoolSteps \/ UNCHANGED gvars
    PROVE  \/ GetPop
           \/ UNCHANGED <<got, cval, ckey>> /\ (cpc' = "ret" <=> cpc = "ret")
              /\ (cpc = "idle" => cpc' = "idle")
<1> USE DEF threadVars, getVars, lifeVars
<1>1. CASE PoolStart \/ PoolClose \/ PoolDrain \/ PoolCloseReturn
  BY <1>1 DEF PoolStart, PoolClose, PoolDrain, PoolCloseReturn
<1>2. CASE GetEmpty \/ GetGate \/ GetCheck
  BY <1>2 DEF GetEmpty, GetGate, GetCheck
<1>3. ASSUME NEW t \in Threads, RefillSteps(t)
      PROVE  UNCHANGED <<got, cval, ckey, cpc>>
  BY <1>3 DEF RefillSteps, RefillTop, RefillProduce, OfferTest, OfferPut, OfferFull, RefillClose
<1>4. CASE UNCHANGED gvars
  BY <1>4 DEF gvars, poolVars
<1> QED
  BY <1>1, <1>2, <1>3, <1>4 DEF PoolSteps, LifeSteps, GetSteps

\* LayerInv is kept by every step of the layer.
LEMMA NextLayer == GpuTypeOK /\ LayerInv /\ LineInv /\ [GpuNext]_gvars => LayerInv'
<1> SUFFICES ASSUME GpuTypeOK, LayerInv, LineInv, [GpuNext]_gvars PROVE LayerInv'
  OBVIOUS
<1>1. CASE PoolSteps \/ UNCHANGED gvars
  <2>1. UNCHANGED <<inFlight, fallback, gpc, named, returned>> /\ Out' = Out
    BY <1>1 DEF PoolSteps, gvars, gpuVars, Out
  <2>2. CASE GetPop
    <3>1. /\ ckey \in Keys /\ got \in [Keys -> Seq(Items)] /\ ready[ckey] \in Seq(Items)
          /\ ready[ckey] # <<>> /\ cpc = "poll" /\ cpc' = "ret" /\ ckey' = ckey
          /\ cval' = Head(ready[ckey])
          /\ got' = [got EXCEPT ![ckey] = Append(got[ckey], Head(ready[ckey]))]
      BY <2>2 DEF GetPop, GpuTypeOK, PoolTypeOK
    <3>2. PICK x \in Items : x = Head(ready[ckey])
      BY <3>1, TailFacts
    <3>3. got'[ckey] = Append(got[ckey], x) /\ got[ckey] \in Seq(Items)
      BY <3>1, <3>2
    <3>4. Len(got'[ckey]) > 0 /\ x = got'[ckey][Len(got'[ckey])]
      BY <3>3, AppendFacts
    <3> QED
      BY <2>1, <3>1, <3>2, <3>4 DEF LayerInv
  <2>3. CASE ~GetPop
    <3>1. UNCHANGED <<got, cval, ckey>> /\ (cpc' = "ret" <=> cpc = "ret")
          /\ (cpc = "idle" => cpc' = "idle")
      BY <1>1, <2>3, PoolStepKinds
    <3> QED
      BY <2>1, <3>1 DEF LayerInv
  <2> QED
    BY <2>2, <2>3
<1>2. CASE Launched
  <2>1. /\ cpc = "ret" /\ cpc' = "idle" /\ gpc' = "idle" /\ named' = Append(named, ckey)
        /\ ckey \in Keys /\ named \in Seq(Keys) /\ got[ckey] \in Seq(Items)
    BY <1>2 DEF Launched, GetReturn, GpuTypeOK, PoolTypeOK
  <2>2. Out' = Append(Out, cval) /\ Out \in Seq(Items) /\ cval \in Items
    BY <1>2, LaunchedOut
  <2>3. PICK q \in Seq(Items), c \in Items : q = Out /\ c = cval /\ Out' = Append(q, c)
    BY <2>2
  <2>4. KeyOf[c.thr] = ckey
    <3>1. PICK m \in 1..Len(got[ckey]) : c = got[ckey][m]
      <4>1. Len(got[ckey]) > 0 /\ cval = got[ckey][Len(got[ckey])]
        BY <2>1 DEF LayerInv
      <4>2. Len(got[ckey]) \in 1..Len(got[ckey])
        BY <2>1, <4>1
      <4> QED
        BY <2>3, <4>1, <4>2
    <3> QED
      BY <2>1, <3>1 DEF LineInv, ItemOK
  <2>5. /\ Len(q) \in Nat /\ Len(Append(q, c)) = Len(q) + 1 /\ Append(q, c)[Len(q) + 1] = c
        /\ \A i \in 1..Len(q) : Append(q, c)[i] = q[i]
    BY AppendFacts
  <2>6. /\ Len(named) \in Nat /\ Len(named') = Len(named) + 1 /\ named'[Len(named) + 1] = ckey
        /\ \A i \in 1..Len(named) : named'[i] = named[i]
    BY <2>1, AppendFacts
  <2>7. Len(named) = Len(q) /\ \A i \in 1..Len(q) : KeyOf[q[i].thr] = named[i]
    BY <2>3 DEF LayerInv
  <2>8. ASSUME NEW i \in 1..Len(Append(q, c))
        PROVE  KeyOf[Append(q, c)[i].thr] = named'[i]
    <3>1. CASE i = Len(q) + 1
      BY <2>4, <2>5, <2>6, <2>7, <3>1
    <3>2. CASE i # Len(q) + 1
      <4>1. i \in 1..Len(q)
        BY <2>5, <3>2
      <4> QED
        BY <2>5, <2>6, <2>7, <4>1
    <3> QED
      BY <3>1, <3>2
  <2>9. Len(named') = Len(Out') /\ \A i \in 1..Len(Out') : KeyOf[Out'[i].thr] = named'[i]
    BY <2>3, <2>5, <2>6, <2>7, <2>8
  <2> QED
    BY <2>1, <2>9 DEF LayerInv
<1>3. CASE LaunchRaised \/ LaunchFails
  <2>1. UNCHANGED <<inFlight, named, returned>> /\ cpc' = "idle" /\ gpc' = "idle" /\ Out' = Out
    BY <1>3 DEF LaunchRaised, LaunchFails, GetReturn, Out
  <2> QED
    BY <2>1 DEF LayerInv
<1>4. ASSUME NEW k \in Keys, Prime(k) \/ GpuGet(k)
      PROVE  LayerInv'
  <2>1. /\ UNCHANGED <<inFlight, fallback, named, returned>> /\ cpc' = "poll" /\ Out' = Out
        /\ \/ gpc' = "prime" /\ inFlight = <<>> /\ ~fallback
           \/ gpc' = "get"
    BY <1>4 DEF Prime, GpuGet, GetCall, Out
  <2> QED
    BY <2>1 DEF LayerInv
<1> QED
  BY <1>1, <1>2, <1>3, <1>4 DEF GpuNext

\* OnlyFailedUploadsLost is kept by a step that hands nothing on and leaves the batches
\* taken and launched as they are.
LEMMA NothingLaunched ==
    ASSUME OnlyFailedUploadsLost, GpuTypeOK', Out' = Out, failed' = failed,
           \A k \in Keys : /\ Taken(k)' = Taken(k)
                           /\ \A j \in Taken(k) : got'[k][j] = got[k][j]
    PROVE  OnlyFailedUploadsLost'
<1>0. \A k \in Keys : /\ Done(k)' = Done(k)
                     /\ \A j \in Done(k) : got'[k][j] = got[k][j]
  BY DEF Done
<1>1. \A k \in Keys : \A c, d \in Done(k) : c <= d =>
         \E i, j \in 1..Len(Out) : i <= j /\ Out[i] = got[k][c] /\ Out[j] = got[k][d]
  BY DEF OnlyFailedUploadsLost
<1>2. \A i \in 1..Len(Out) : \E k \in Keys : \E j \in Done(k) : Out[i] = got[k][j]
  BY DEF OnlyFailedUploadsLost
<1>3. \A i, j \in 1..Len(Out') : i # j => Out'[i] # Out'[j]
  BY DEF OnlyFailedUploadsLost
<1>4. \A i \in 1..Len(Out') : \E k \in Keys : \E j \in Done(k)' : Out'[i] = got'[k][j]
  BY <1>0, <1>2
<1>5. \A k \in Keys : \A c, d \in Done(k)' : c <= d =>
         \E i, j \in 1..Len(Out') : i <= j /\ Out'[i] = got'[k][c] /\ Out'[j] = got'[k][d]
  BY <1>0, <1>1
<1>6. \A x \in failed' : \E k \in Keys : \E j \in Taken(k)' : x = got'[k][j]
  BY DEF OnlyFailedUploadsLost
<1> QED
  BY <1>3, <1>4, <1>5, <1>6 DEF OnlyFailedUploadsLost

\* The batch that the call in progress took is the last of its config, and none
\* of those counted as taken before.
LEMMA TakenNow ==
    ASSUME PoolTypeOK, LineInv, LayerInv, cpc = "ret", cval.kind = "ok", GetReturn,
           NEW h \in Keys, h = ckey, NEW m, m = Len(got[h])
    PROVE  /\ cpc' = "idle" /\ got' = got /\ got[h] \in Seq(Items)
           /\ m \in 1..Len(got[h]) /\ m \in Nat /\ cval = got[h][m]
           /\ \A k \in Keys : k # h => Taken(k)' = Taken(k)
           /\ Taken(h)' = Taken(h) \cup {m}
           /\ \A j \in Taken(h) : j < m
           /\ \A k \in Keys : \A j \in Taken(k) :
                j \in 1..Len(got[k]) /\ got[k][j] # cval
<1>1. cpc' = "idle" /\ got' = got /\ got[h] \in Seq(Items)
  BY DEF GetReturn, PoolTypeOK
<1>2. m \in 1..Len(got[h]) /\ m \in Nat /\ cval = got[h][m]
  BY <1>1 DEF LayerInv
<1>3. \A k \in Keys : k # h => Taken(k)' = Taken(k)
  BY <1>1 DEF Taken
<1>4. Taken(h)' = Taken(h) \cup {m} /\ \A j \in Taken(h) : j < m
  <2>1. Taken(h) = {j \in 1..Len(got[h]) : got[h][j].kind = "ok" /\ j # m}
    BY DEF Taken
  <2>2. Taken(h)' = {j \in 1..Len(got[h]) : got[h][j].kind = "ok"}
    BY <1>1 DEF Taken
  <2> QED
    BY <1>1, <1>2, <2>1, <2>2
<1>5. ASSUME NEW k \in Keys, NEW j \in Taken(k)
      PROVE  j \in 1..Len(got[k]) /\ got[k][j] # cval
  <2>1. j \in 1..Len(got[k])
    BY DEF Taken
  <2> SUFFICES ASSUME got[k][j] = cval PROVE FALSE
    BY <2>1
  <2>2. KeyOf[cval.thr] = k
    BY <2>1 DEF LineInv, ItemOK
  <2>3. KeyOf[cval.thr] = h
    BY <1>2 DEF LineInv, ItemOK
  <2>4. j \in 1..(m - 1) /\ got[h][j] = cval
    BY <1>2, <1>4, <2>1, <2>2, <2>3
  <2>5. Precedes(cval, cval)
    BY <1>2, <2>4 DEF LineInv
  <2>6. cval \in Items
    BY DEF PoolTypeOK
  <2> QED
    BY <2>5, <2>6, ItemFields DEF Precedes
<1> QED
  BY <1>1, <1>2, <1>3, <1>4, <1>5

\* A launch hands on the batch taken last, which was not handed on before.
LEMMA LaunchStep ==
    ASSUME GpuIInv, GpuTypeOK', Launched
    PROVE  OnlyFailedUploadsLost'
<1>0. PoolTypeOK /\ LineInv /\ LayerInv /\ GpuTypeOK /\ OnlyFailedUploadsLost
  BY DEF GpuIInv, PoolIInv, OnlyFailedUploadsLost
<1>h. PICK h \in Keys : h = ckey
  BY <1>0 DEF Launched, PoolTypeOK
<1>m. PICK m : m = Len(got[h])
  OBVIOUS
<1>q. PICK q \in Seq(Items), x \in Items : q = Out /\ x = cval /\ Out' = Append(q, x)
  BY <1>0, LaunchedOut
<1>1. cpc = "ret" /\ cval.kind = "ok" /\ GetReturn /\ failed' = failed
  BY DEF Launched
<1>2. /\ got' = got /\ got[h] \in Seq(Items) /\ m \in Nat
      /\ m \in 1..Len(got[h]) /\ x = got[h][m]
      /\ \A k \in Keys : k # h => Taken(k)' = Taken(k)
      /\ Taken(h)' = Taken(h) \cup {m} /\ \A j \in Taken(h) : j < m
      /\ \A k \in Keys : \A j \in Taken(k) : j \in 1..Len(got[k]) /\ got[k][j] # x
  BY <1>0, <1>h, <1>m, <1>q, <1>1, TakenNow
<1>3. \A k \in Keys : k # h => Done(k)' = Done(k)
  BY <1>1, <1>2 DEF Done
<1>f. \A y \in failed : \E k \in Keys : \E j \in Taken(k) : y = got[k][j]
  BY <1>0 DEF OnlyFailedUploadsLost
<1>4. Done(h)' = Done(h) \cup {m} /\ \A j \in Done(h) : j \in 1..Len(got[h]) /\ j < m
  <2>1. x \notin failed
    BY <1>2, <1>f
  <2>2. Done(h)' = {j \in Taken(h) \cup {m} : got[h][j] \notin failed}
    BY <1>1, <1>2 DEF Done
  <2> QED
    BY <1>2, <2>1, <2>2 DEF Done
<1>5. /\ Len(q) \in Nat /\ Len(Append(q, x)) = Len(q) + 1 /\ Append(q, x)[Len(q) + 1] = x
      /\ \A i \in 1..Len(q) : Append(q, x)[i] = q[i]
  BY AppendFacts
<1>6. /\ \A i, j \in 1..Len(q) : i # j => q[i] # q[j]
      /\ \A i \in 1..Len(q) : \E k \in Keys : \E j \in Done(k) : q[i] = got[k][j]
      /\ \A k \in Keys : \A c, d \in Done(k) : c <= d =>
           \E i, j \in 1..Len(q) : i <= j /\ q[i] = got[k][c] /\ q[j] = got[k][d]
  BY <1>0, <1>q DEF OnlyFailedUploadsLost
<1>7. ASSUME NEW i \in 1..Len(q), q[i] = x
      PROVE  FALSE
  <2>1. PICK k \in Keys : \E j \in Done(k) : q[i] = got[k][j]
    BY <1>6
  <2>2. PICK j \in Done(k) : q[i] = got[k][j]
    BY <2>1
  <2>3. j \in Taken(k)
    BY DEF Done
  <2> QED
    BY <1>2, <1>7, <2>2, <2>3
<1>8. \A i, j \in 1..Len(Out') : i # j => Out'[i] # Out'[j]
  <2> SUFFICES ASSUME NEW i \in 1..(Len(q) + 1), NEW j \in 1..(Len(q) + 1), i # j
               PROVE  Append(q, x)[i] # Append(q, x)[j]
    BY <1>q, <1>5
  <2>1. CASE i = Len(q) + 1
    <3>1. j \in 1..Len(q)
      BY <1>5, <2>1
    <3> QED
      BY <1>5, <1>7, <2>1, <3>1
  <2>2. CASE j = Len(q) + 1
    <3>1. i \in 1..Len(q)
      BY <1>5, <2>2
    <3> QED
      BY <1>5, <1>7, <2>2, <3>1
  <2>3. CASE i # Len(q) + 1 /\ j # Len(q) + 1
    <3>1. i \in 1..Len(q) /\ j \in 1..Len(q)
      BY <1>5, <2>3
    <3> QED
      BY <1>5, <1>6, <3>1
  <2> QED
    BY <2>1, <2>2, <2>3
<1>9. \A i \in 1..Len(Out') : \E k \in Keys : \E j \in Done(k)' : Out'[i] = got'[k][j]
  <2> SUFFICES ASSUME NEW i \in 1..(Len(q) + 1)
               PROVE  \E k \in Keys : \E j \in Done(k)' : Append(q, x)[i] = got[k][j]
    BY <1>q, <1>2, <1>5
  <2>1. CASE i = Len(q) + 1
    BY <1>2, <1>4, <1>5, <2>1
  <2>2. CASE i # Len(q) + 1
    <3>1. i \in 1..Len(q)
      BY <1>5, <2>2
    <3>2. PICK k \in Keys : \E j \in Done(k) : q[i] = got[k][j]
      BY <1>6, <3>1
    <3>3. Done(k) \subseteq Done(k)'
      BY <1>3, <1>4
    <3> QED
      BY <1>5, <3>1, <3>2, <3>3
  <2> QED
    BY <2>1, <2>2
<1>10. \A k \in Keys : \A c, d \in Done(k)' : c <= d =>
         \E i, j \in 1..Len(Out') : i <= j /\ Out'[i] = got'[k][c] /\ Out'[j] = got'[k][d]
  <2> SUFFICES ASSUME NEW k \in Keys, NEW c \in Done(k)', NEW d \in Done(k)', c <= d
               PROVE  \E i, j \in 1..(Len(q) + 1) :
                        i <= j /\ Append(q, x)[i] = got[k][c] /\ Append(q, x)[j] = got[k][d]
    BY <1>q, <1>2, <1>5
  <2>1. CASE c \in Done(k) /\ d \in Done(k)
    <3>1. PICK i \in 1..Len(q), j \in 1..Len(q) : i <= j /\ q[i] = got[k][c] /\ q[j] = got[k][d]
      BY <1>6, <2>1
    <3>2. i \in 1..(Len(q) + 1) /\ j \in 1..(Len(q) + 1)
      BY <1>5
    <3> QED
      BY <1>5, <3>1, <3>2
  <2>2. CASE d \notin Done(k)
    <3>1. k = h /\ d = m
      BY <1>3, <1>4, <2>2
    <3>2. Len(q) + 1 \in 1..(Len(q) + 1) /\ Append(q, x)[Len(q) + 1] = got[k][d]
      BY <1>2, <1>5, <3>1
    <3>3. CASE c = m
      BY <1>5, <3>1, <3>2, <3>3
    <3>4. CASE c # m
      <4>1. c \in Done(k)
        BY <1>4, <3>1, <3>4
      <4>2. PICK i \in 1..Len(q) : q[i] = got[k][c]
        BY <1>4, <1>6, <3>1, <4>1
      <4>3. i \in 1..(Len(q) + 1) /\ i <= Len(q) + 1 /\ Append(q, x)[i] = got[k][c]
        BY <1>5, <4>2
      <4> QED
        BY <3>2, <4>3
    <3> QED
      BY <3>3, <3>4
  <2>3. CASE c \notin Done(k) /\ d \in Done(k)
    <3>1. k = h /\ c = m
      BY <1>3, <1>4, <2>3
    <3>2. d < m /\ d \in Nat
      BY <1>4, <2>3, <3>1
    <3> QED
      BY <1>2, <3>1, <3>2
  <2> QED
    BY <2>1, <2>2, <2>3
<1>11. \A y \in failed' : \E k \in Keys : \E j \in Taken(k)' : y = got'[k][j]
  <2> SUFFICES ASSUME NEW y \in failed
               PROVE  \E k \in Keys : \E j \in Taken(k)' : y = got[k][j]
    BY <1>1, <1>2
  <2>1. PICK k \in Keys : \E j \in Taken(k) : y = got[k][j]
    BY <1>f
  <2>2. Taken(k) \subseteq Taken(k)'
    BY <1>2
  <2> QED
    BY <2>1, <2>2
<1> QED
  BY <1>8, <1>9, <1>10, <1>11 DEF OnlyFailedUploadsLost

\* A launch that raises loses the batch taken last and nothing else.
LEMMA FailStep ==
    ASSUME GpuIInv, GpuTypeOK', LaunchFails
    PROVE  OnlyFailedUploadsLost'
<1>0. PoolTypeOK /\ LineInv /\ LayerInv /\ OnlyFailedUploadsLost
  BY DEF GpuIInv, PoolIInv
<1>h. PICK h \in Keys : h = ckey
  BY <1>0 DEF PoolTypeOK
<1>m. PICK m : m = Len(got[h])
  OBVIOUS
<1>x. PICK x : x = cval
  OBVIOUS
<1>1. /\ cpc = "ret" /\ cval.kind = "ok" /\ GetReturn
      /\ Out' = Out /\ failed' = failed \cup {x}
  BY <1>x DEF LaunchFails, Out
<1>2. /\ got' = got /\ m \in 1..Len(got[h]) /\ x = got[h][m]
      /\ \A k \in Keys : k # h => Taken(k)' = Taken(k)
      /\ Taken(h)' = Taken(h) \cup {m}
      /\ \A k \in Keys : \A j \in Taken(k) : got[k][j] # x
  BY <1>0, <1>h, <1>m, <1>x, <1>1, TakenNow
<1>3. ASSUME NEW k \in Keys PROVE Done(k)' = Done(k)
  <2>1. Done(k)' = {j \in Taken(k)' : got[k][j] \notin failed \cup {x}}
    BY <1>1, <1>2 DEF Done
  <2>2. CASE k # h
    BY <1>2, <2>1, <2>2 DEF Done
  <2>3. CASE k = h
    BY <1>2, <2>1, <2>3 DEF Done
  <2> QED
    BY <2>2, <2>3
<1>4. /\ \A i, j \in 1..Len(Out') : i # j => Out'[i] # Out'[j]
      /\ \A i \in 1..Len(Out') : \E k \in Keys : \E j \in Done(k)' : Out'[i] = got'[k][j]
      /\ \A k \in Keys : \A c, d \in Done(k)' : c <= d =>
           \E i, j \in 1..Len(Out') : i <= j /\ Out'[i] = got'[k][c] /\ Out'[j] = got'[k][d]
  BY <1>0, <1>1, <1>2, <1>3 DEF OnlyFailedUploadsLost
<1>5. ASSUME NEW y \in failed'
      PROVE  \E k \in Keys : \E j \in Taken(k)' : y = got'[k][j]
  <2>1. CASE y \in failed
    <3>1. PICK k \in Keys : \E j \in Taken(k) : y = got[k][j]
      BY <1>0, <2>1 DEF OnlyFailedUploadsLost
    <3>2. Taken(k) \subseteq Taken(k)'
      BY <1>2
    <3> QED
      BY <1>2, <3>1, <3>2
  <2>2. CASE y = x
    BY <1>2, <2>2
  <2> QED
    BY <1>1, <2>1, <2>2
<1> QED
  BY <1>4, <1>5 DEF OnlyFailedUploadsLost

\* OnlyFailedUploadsLost is kept by every step of the layer.
LEMMA NextHanded == GpuIInv /\ GpuTypeOK' /\ [GpuNext]_gvars => OnlyFailedUploadsLost'
<1> SUFFICES ASSUME GpuIInv, GpuTypeOK', [GpuNext]_gvars PROVE OnlyFailedUploadsLost'
  OBVIOUS
<1>0. PoolTypeOK /\ LayerInv /\ OnlyFailedUploadsLost
  BY DEF GpuIInv, PoolIInv
<1>1. CASE PoolSteps \/ UNCHANGED gvars
  <2>1. Out' = Out /\ failed' = failed
    BY <1>1 DEF PoolSteps, gvars, gpuVars, Out
  <2>2. ASSUME NEW k \in Keys
        PROVE  Taken(k)' = Taken(k) /\ \A j \in Taken(k) : got'[k][j] = got[k][j]
    <3>1. CASE GetPop
      <4>1. /\ ckey \in Keys /\ got[ckey] \in Seq(Items) /\ ready[ckey] \in Seq(Items)
            /\ ready[ckey] # <<>> /\ cpc = "poll" /\ cpc' = "ret" /\ ckey' = ckey
            /\ got' = [got EXCEPT ![ckey] = Append(got[ckey], Head(ready[ckey]))]
        BY <1>0, <3>1 DEF GetPop, PoolTypeOK
      <4>2. CASE k # ckey
        <5>1. got'[k] = got[k]
          BY <1>0, <4>1, <4>2 DEF PoolTypeOK
        <5> QED
          BY <4>1, <4>2, <5>1 DEF Taken
      <4>3. CASE k = ckey
        <5>1. PICK q \in Seq(Items), x \in Items : q = got[k] /\ got'[k] = Append(q, x)
          BY <1>0, <4>1, <4>3, TailFacts DEF PoolTypeOK
        <5>2. /\ Len(q) \in Nat /\ Len(Append(q, x)) = Len(q) + 1
              /\ \A i \in 1..Len(q) : Append(q, x)[i] = q[i]
          BY AppendFacts
        <5>3. Taken(k) = {j \in 1..Len(q) : q[j].kind = "ok"}
          BY <4>1, <5>1 DEF Taken
        <5>4. Taken(k)' = {j \in 1..(Len(q) + 1) : Append(q, x)[j].kind = "ok" /\ j # Len(q) + 1}
          BY <4>1, <4>3, <5>1, <5>2 DEF Taken
        <5>5. \A j : j \in 1..(Len(q) + 1) /\ j # Len(q) + 1 <=> j \in 1..Len(q)
          BY <5>2
        <5> QED
          BY <5>1, <5>2, <5>3, <5>4, <5>5
      <4> QED
        BY <4>2, <4>3
    <3>2. CASE ~GetPop
      BY <1>1, <3>2, PoolStepKinds DEF Taken
    <3> QED
      BY <3>1, <3>2
  <2> QED
    BY <1>0, <2>1, <2>2, NothingLaunched
<1>2. CASE Launched
  BY <1>2, LaunchStep
<1>3. CASE LaunchRaised
  <2>1. /\ Out' = Out /\ failed' = failed /\ got' = got /\ cpc' = "idle"
        /\ (cpc = "died" \/ (cpc = "ret" /\ cval.kind = "exc"))
    BY <1>3 DEF LaunchRaised, GetReturn, Out
  <2>2. cpc = "ret" => got[ckey][Len(got[ckey])].kind # "ok"
    BY <1>0, <2>1 DEF LayerInv
  <2>3. \A k \in Keys : Taken(k)' = Taken(k)
    BY <2>1, <2>2 DEF Taken
  <2> QED
    BY <1>0, <2>1, <2>3, NothingLaunched
<1>4. ASSUME NEW k \in Keys, Prime(k) \/ GpuGet(k)
      PROVE  OnlyFailedUploadsLost'
  <2>1. Out' = Out /\ failed' = failed /\ got' = got /\ cpc = "idle" /\ cpc' = "poll"
    BY <1>4 DEF Prime, GpuGet, GetCall, Out
  <2>2. \A c \in Keys : Taken(c)' = Taken(c)
    BY <2>1 DEF Taken
  <2> QED
    BY <1>0, <2>1, <2>2, NothingLaunched
<1>5. CASE LaunchFails
  BY <1>5, FailStep
<1> QED
  BY <1>1, <1>2, <1>3, <1>4, <1>5 DEF GpuNext

\* GpuIInv holds at the start and is kept by every step.
LEMMA LayerInvariance == GpuSpec => []GpuIInv
<1>1. GpuInit => GpuIInv
  <2> SUFFICES ASSUME GpuInit PROVE GpuIInv
    OBVIOUS
  <2>1. PoolIInv
    BY InitPool DEF GpuInit
  <2>2. /\ returned = <<>> /\ inFlight = <<>> /\ named = <<>> /\ gpc = "idle" /\ cpc = "idle"
        /\ failed = {} /\ fallback \in BOOLEAN /\ \A k \in Keys : got[k] = <<>>
    BY DEF GpuInit, PoolInit
  <2>3. Out = <<>> /\ Len(Out) = 0
    BY <2>2 DEF Out
  <2>4. \A k \in Keys : Done(k) = {}
    BY <2>2 DEF Done, Taken
  <2>5. GpuTypeOK
    <3>1. <<>> \in Seq(Items) /\ <<>> \in Seq(Keys) /\ Len(<<>>) = 0
      OBVIOUS
    <3> QED
      BY <2>1, <2>2, <3>1 DEF GpuTypeOK, PoolIInv
  <2>6. OnlyFailedUploadsLost
    BY <2>2, <2>3, <2>4, <2>5 DEF OnlyFailedUploadsLost
  <2>7. LayerInv
    BY <2>2, <2>3 DEF LayerInv
  <2> QED
    BY <2>1, <2>6, <2>7 DEF GpuIInv
<1>2. GpuIInv /\ [GpuNext]_gvars => GpuIInv'
  <2> SUFFICES ASSUME GpuIInv, [GpuNext]_gvars PROVE GpuIInv'
    OBVIOUS
  <2>1. PoolIInv /\ LayerInv /\ GpuTypeOK /\ LineInv
    BY DEF GpuIInv, OnlyFailedUploadsLost, PoolIInv
  <2> QED
    BY <2>1, NextPool, LayerStep, LayerTypes, NextLayer, NextHanded DEF GpuIInv
<1> QED
  BY <1>1, <1>2, PTL DEF GpuSpec

\* A batch is lost by the layer only if its own upload or pinning raised, and
\* none is repeated (_gpu_pool.py, get and _launch_upload): for any configs and
\* threads, with or without a copy stream, whatever the pool raises and however
\* often an upload does.
THEOREM HandedOnOnce == GpuSpec => []OnlyFailedUploadsLost
<1>1. GpuIInv => OnlyFailedUploadsLost
  BY DEF GpuIInv
<1> QED
  BY <1>1, LayerInvariance, PTL

\* get() returns what the call before it named (_gpu_pool.py, get): the config
\* named now is that of the batch launched now.
THEOREM NamesTheNext == GpuSpec => []CollectsThePrevious
<1>1. GpuIInv => CollectsThePrevious
  <2> SUFFICES ASSUME GpuIInv, NEW i \in 1..Len(returned)
               PROVE  KeyOf[returned[i].thr] = named[i]
    BY DEF CollectsThePrevious
  <2>1. returned \in Seq(Items) /\ inFlight \in Seq(Items)
    BY DEF GpuIInv, OnlyFailedUploadsLost, GpuTypeOK
  <2>2. i \in 1..Len(Out) /\ Out[i] = returned[i]
    BY <2>1, ConcatFacts DEF Out
  <2> QED
    BY <2>2 DEF GpuIInv, LayerInv
<1> QED
  BY <1>1, LayerInvariance, PTL

\* The order per config is kept under the layer too.
THEOREM FifoUnderTheLayer == GpuSpec => []FifoPerConfig
BY LayerKeepsThePool, FifoAlways, PTL

==============================================================================
