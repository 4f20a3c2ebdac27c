------------------------ MODULE GpuPrefetcherProofs ------------------------
(***************************************************************************)
(* Proofs about GpuPrefetcher for any number of workers, any decode_ahead   *)
(* and gpu_ahead that __init__ accepts, and any set of faults.              *)
(*                                                                          *)
(* The argument is one inductive invariant, IInv.  FifoOnce is inductive    *)
(* only with FlowInv (what was taken, what is ready and what the upload     *)
(* thread holds are consecutive numbers); the semaphore bound needs the     *)
(* upload thread never to run ahead of submit (KnownSeqs), because a slot   *)
(* is given back for every item that get() takes; DiedOnlyAfterCrash needs  *)
(* the way the upload thread can be on when no worker crashed (CrashInv).   *)
(* Each conjunct has a lemma: one step per action that can disturb it and   *)
(* one for the actions that cannot.                                         *)
(*                                                                          *)
(* Conservation has an invariant of its own on top, PlaceInv: the places a  *)
(* request passes hold disjoint sets of numbers (OnePlace), none twice      *)
(* (OneCopy), and together all of them unless something was lost            *)
(* (NoneMissing).  Its lemmas follow a request from place to place.         *)
(***************************************************************************)
EXTENDS GpuPrefetcher, FiniteSetTheorems, TLAPS

USE DEF submitVars, pipeVars, workerVars, uploadVars, getVars, closeVars, Killed

\* What Append does to a typed queue.
LEMMA AppendProps ==
    ASSUME NEW S, NEW q \in Seq(S), NEW e \in S
    PROVE  /\ Append(q, e) \in Seq(S)
           /\ Len(Append(q, e)) = Len(q) + 1
           /\ \A i \in 1..Len(q) : Append(q, e)[i] = q[i]
           /\ Append(q, e)[Len(q) + 1] = e
OBVIOUS

\* What Head and Tail do to a typed queue that is not empty.
LEMMA TailProps ==
    ASSUME NEW S, NEW q \in Seq(S), q # <<>>
    PROVE  /\ Tail(q) \in Seq(S) /\ Head(q) \in S /\ Head(q) = q[1]
           /\ Len(q) \in Nat \ {0}
           /\ Len(Tail(q)) = Len(q) - 1
           /\ \A i \in 1..Len(Tail(q)) : Tail(q)[i] = q[i + 1]
OBVIOUS

\* The prefetcher starts in the inductive invariant.
LEMMA InitIInv == Init => IInv
<1> SUFFICES ASSUME Init PROVE IInv  OBVIOUS
<1>1. TypeOK
  <2>1. /\ requestQ \in Seq(Seqs \cup {Poison}) /\ resultQ \in Seq(Results)
        /\ ready \in Seq(Items) /\ delivered \in Seq(Items)
        /\ outbuf \in [Workers -> Seq(Results)]
    BY DEF Init
  <2>2. /\ wpc \in [Workers -> LiveStates \cup GoneStates]
        /\ wjob \in [Workers -> Seqs \cup {Poison}]
    BY DEF Init, GoneStates
  <2>3. /\ hold \in Items \cup {NoItem} /\ pending \subseteq Results
        /\ kleft \subseteq Workers
    BY DEF Init
  <2>4. slots \in 0..DecodeAhead /\ submitSeq \in 0..MaxSubmit
        /\ nextUpload \in 0..MaxSubmit /\ starts \in 0..MaxStarts
    BY PrefetcherAssumption DEF Init
  <2> QED  BY <2>1, <2>2, <2>3, <2>4 DEF Init, TypeOK
<1>2. SubmitInv /\ SlotInv /\ FlowInv /\ FifoOnce
  BY PrefetcherAssumption DEF Init, SubmitInv, SlotInv, FlowInv, FifoOnce
<1>3. KnownSeqs
  BY DEF Init, KnownSeqs, Poison
<1>4. CrashInv
  BY DEF Init, CrashInv
<1> QED  BY <1>1, <1>2, <1>3, <1>4 DEF IInv

\* Every step keeps the types.
LEMMA TypeStep == TypeOK /\ SubmitInv /\ KnownSeqs /\ SlotInv /\ FlowInv /\
    Next => TypeOK'
<1> SUFFICES ASSUME TypeOK, SubmitInv, KnownSeqs, SlotInv, FlowInv, Next PROVE
    TypeOK'
  OBVIOUS
<1>1. CASE Start
  BY <1>1, PrefetcherAssumption DEF Start, TypeOK, LiveStates
<1>2. CASE SubmitCall
  BY <1>2 DEF SubmitCall, TypeOK
<1>3. CASE SubmitAcquire
  BY <1>3, PrefetcherAssumption DEF SubmitAcquire, TypeOK
<1>4. CASE SubmitNumber
  BY <1>4, PrefetcherAssumption DEF SubmitNumber, TypeOK, SubmitInv
<1>5. CASE SubmitPut
  BY <1>5, PrefetcherAssumption DEF SubmitPut, TypeOK, SubmitInv, Seqs
<1>6. CASE UploadLoop
  BY <1>6 DEF UploadLoop, TypeOK
<1>7. CASE UploadReceive
  BY <1>7 DEF UploadReceive, TypeOK
<1>8. CASE UploadCheck
  BY <1>8 DEF UploadCheck, TypeOK
<1>9. CASE SurfaceLoop
  BY <1>9 DEF SurfaceLoop, TypeOK
<1>10. CASE SurfaceHead
  BY <1>10, PrefetcherAssumption DEF SurfaceHead, TypeOK, Items, Seqs
<1>11. CASE DrainPop
  <2>1. PICK p \in pending : p.seq = nextUpload /\ hold' = p
                             /\ pending' = pending \ {p}
                             /\ upc' = IF p.kind = "err" THEN "put" ELSE "upload"
    BY <1>11 DEF DrainPop
  <2>2. p \in Items /\ nextUpload + 1 \in 0..MaxSubmit
    BY <2>1, PrefetcherAssumption DEF TypeOK, Results, Items, Seqs
  <2> QED  BY <1>11, <2>1, <2>2 DEF DrainPop, TypeOK
<1>12. CASE DrainReturn
  BY <1>12 DEF DrainReturn, TypeOK
<1>13. CASE UploadOne
  BY <1>13 DEF UploadOne, TypeOK
<1>14. CASE ReadyPut
  BY <1>14 DEF ReadyPut, TypeOK, FlowInv
<1>15. CASE GetPop
  BY <1>15 DEF GetPop, TypeOK
<1>16. CASE GetRelease
  BY <1>16, PrefetcherAssumption DEF GetRelease, TypeOK, SlotInv, KnownSeqs,
      FlowInv
<1>17. CASE CloseCall
  BY <1>17 DEF CloseCall, TypeOK
<1>18. CASE ClosePoison
  BY <1>18 DEF ClosePoison, TypeOK
<1>19. CASE CloseJoin
  <2>1. wpc' \in [Workers -> LiveStates \cup GoneStates]
    BY <1>19 DEF CloseJoin, TypeOK, GoneStates
  <2>2. outbuf' \in [Workers -> Seq(Results)]
    <3>1. PICK w \in Workers : \/ outbuf' = [outbuf EXCEPT ![w] = <<>>]
                              \/ outbuf' = outbuf
      BY <1>19 DEF CloseJoin, TypeOK
    <3>2. <<>> \in Seq(Results)
      OBVIOUS
    <3> QED  BY <3>1, <3>2 DEF TypeOK
  <2>3. kleft' \subseteq Workers /\ kpc' \in {"join", "upload"}
    BY <1>19 DEF CloseJoin, TypeOK
  <2>4. writing' \subseteq Workers /\ torn' \in BOOLEAN
    BY <1>19 DEF CloseJoin, TypeOK
  <2> QED  BY <1>19, <2>1, <2>2, <2>3, <2>4 DEF CloseJoin, TypeOK
<1>20. CASE CloseReturn
  <2>1. started' \in BOOLEAN /\ kpc' \in {"idle", "poison", "join", "upload"}
    BY <1>20 DEF CloseReturn
  <2>2. UNCHANGED <<submitVars, requestQ, workerVars, resultQ, uploadVars,
                    ready, getVars, closing, starts, kleft, everCrashed>>
    BY <1>20 DEF CloseReturn
  <2> QED  BY <2>1, <2>2 DEF TypeOK
<1>21. ASSUME NEW w \in Workers, WorkerOpen(w) PROVE TypeOK'
  BY <1>21 DEF WorkerOpen, TypeOK, LiveStates
<1>22. ASSUME NEW w \in Workers, WorkerTake(w) PROVE TypeOK'
  BY <1>22 DEF WorkerTake, TypeOK, LiveStates
<1>23. ASSUME NEW w \in Workers, WorkerProduce(w) PROVE TypeOK'
  <2>1. outbuf' = [outbuf EXCEPT
                     ![w] = Append(@, [seq |-> wjob[w], kind |-> Outcome(wjob[w])])]
    BY <1>23 DEF WorkerProduce
  <2>2. [seq |-> wjob[w], kind |-> Outcome(wjob[w])] \in Results
    BY <1>23 DEF KnownSeqs, WorkerProduce, Results, Outcome
  <2>3. outbuf' \in [Workers -> Seq(Results)]
    BY <2>1, <2>2 DEF TypeOK
  <2> QED  BY <1>23, <2>3 DEF WorkerProduce, TypeOK, LiveStates
<1>24. ASSUME NEW w \in Workers, FeederSend(w) PROVE TypeOK'
  BY <1>24 DEF FeederSend, TypeOK
<1>25. ASSUME NEW w \in Workers, FeederDrop(w) PROVE TypeOK'
  BY <1>25 DEF FeederDrop, TypeOK
<1>26. ASSUME NEW w \in Workers, WorkerExit(w) PROVE TypeOK'
  BY <1>26 DEF WorkerExit, TypeOK, GoneStates
<1>27. ASSUME NEW w \in Workers, WorkerCrash(w) PROVE TypeOK'
  BY <1>27 DEF WorkerCrash, TypeOK, GoneStates
<1>28. CASE UploadEmpty \/ GetCall
  BY <1>28 DEF TypeOK, UploadEmpty, GetCall
<1>29. ASSUME NEW w \in Workers, FeederBegin(w) PROVE TypeOK'
  BY <1>29 DEF FeederBegin, TypeOK
<1> QED  BY <1>1, <1>2, <1>3, <1>4, <1>5, <1>6, <1>7, <1>8, <1>9, <1>10,
    <1>11, <1>12, <1>13, <1>14, <1>15, <1>16, <1>17, <1>18, <1>19, <1>20,
    <1>21, <1>22, <1>23, <1>24, <1>25, <1>26, <1>27, <1>28, <1>29 DEF Next,
    SubmitSteps, WorkerSteps, UploadSteps, GetSteps, CloseSteps

\* submit() takes a number only while one is left.
LEMMA SubmitStep == TypeOK /\ SubmitInv /\ Next => SubmitInv'
<1> SUFFICES ASSUME TypeOK, SubmitInv, Next PROVE SubmitInv'
  OBVIOUS
<1>1. CASE SubmitCall
  BY <1>1 DEF SubmitCall, SubmitInv, TypeOK
<1>2. CASE SubmitNumber
  BY <1>2 DEF SubmitNumber, SubmitInv, TypeOK
<1>3. CASE SubmitPut
  BY <1>3 DEF SubmitPut, SubmitInv
<1>4. CASE Start \/ SubmitAcquire \/ UploadLoop \/ UploadReceive \/
    UploadEmpty \/ UploadCheck \/ SurfaceLoop \/ SurfaceHead \/ DrainPop \/
    DrainReturn \/ UploadOne \/ ReadyPut \/ GetCall \/ GetPop \/ GetRelease \/
    CloseCall \/ ClosePoison \/ CloseJoin \/ CloseReturn \/ (\E w \in Workers
    : WorkerOpen(w) \/ WorkerTake(w) \/ WorkerProduce(w) \/ FeederBegin(w) \/
    FeederSend(w) \/ FeederDrop(w) \/ WorkerExit(w) \/ WorkerCrash(w))
  <2>1. UNCHANGED submitSeq /\ (spc' = spc \/ (spc = "acquire" /\ spc' = "acquired"))
    BY <1>4 DEF Start, SubmitAcquire, UploadLoop, UploadReceive, UploadEmpty,
        UploadCheck, SurfaceLoop, SurfaceHead, DrainPop, DrainReturn,
        UploadOne, ReadyPut, GetCall, GetPop, GetRelease, CloseCall,
        ClosePoison, CloseJoin, CloseReturn, WorkerOpen, WorkerTake,
        WorkerProduce, FeederBegin, FeederSend, FeederDrop, WorkerExit,
        WorkerCrash
  <2> QED  BY <2>1 DEF SubmitInv
<1> QED  BY <1>1, <1>2, <1>3, <1>4 DEF Next, SubmitSteps, WorkerSteps,
    UploadSteps, GetSteps, CloseSteps

\* No number travels that submit() has not given out.
LEMMA KnownStep == TypeOK /\ SubmitInv /\ KnownSeqs /\ FlowInv /\ Next =>
    KnownSeqs'
<1> SUFFICES ASSUME TypeOK, SubmitInv, KnownSeqs, FlowInv, Next PROVE
    KnownSeqs'
  OBVIOUS
<1>1. CASE Start
  BY <1>1 DEF Start, KnownSeqs
<1>2. CASE SubmitNumber
  <2>1. submitSeq \in Nat /\ submitSeq' = submitSeq + 1
    BY <1>2, PrefetcherAssumption DEF SubmitNumber, TypeOK
  <2>2. /\ \A i \in 1..Len(requestQ) : requestQ[i] \in Int
        /\ \A w \in Workers : wjob[w] \in Int
    BY DEF TypeOK, Seqs, Poison
  <2>3. /\ \A w \in Workers : \A i \in 1..Len(outbuf[w]) : outbuf[w][i].seq \in Int
        /\ \A i \in 1..Len(resultQ) : resultQ[i].seq \in Int
        /\ \A p \in pending : p.seq \in Int
    <3>1. \A r \in Results : r.seq \in Int
      BY DEF Results, Seqs
    <3>2. \A w \in Workers : \A i \in 1..Len(outbuf[w]) : outbuf[w][i] \in Results
      BY DEF TypeOK
    <3> QED  BY <3>1, <3>2 DEF TypeOK
  <2>4. nextUpload \in Int
    BY PrefetcherAssumption DEF TypeOK
  <2> QED  BY <1>2, <2>1, <2>2, <2>3, <2>4 DEF SubmitNumber, KnownSeqs
<1>3. CASE SubmitPut
  BY SMTT(30), <1>3 DEF SubmitPut, KnownSeqs, TypeOK
<1>4. CASE UploadReceive
  BY <1>4 DEF UploadReceive, KnownSeqs, TypeOK
<1>5. CASE SurfaceHead
  BY <1>5 DEF SurfaceHead, KnownSeqs, TypeOK
<1>6. CASE DrainPop
  BY <1>6 DEF DrainPop, KnownSeqs, TypeOK, Results, Seqs
<1>7. CASE ClosePoison
  <2>1. /\ requestQ \in Seq(Seqs \cup {Poison}) /\ submitSeq \in Nat
        /\ requestQ' = Append(requestQ, Poison)
    BY <1>7, PrefetcherAssumption DEF ClosePoison, TypeOK
  <2>2. \A i \in 1..Len(requestQ') : requestQ'[i] < submitSeq
    <3>1. Poison \in Seqs \cup {Poison} /\ Poison < submitSeq
      BY <2>1 DEF Poison
    <3> QED  BY <2>1, <3>1, AppendProps DEF KnownSeqs
  <2>3. UNCHANGED <<submitSeq, wpc, wjob, outbuf, resultQ, pending, nextUpload>>
    BY <1>7 DEF ClosePoison
  <2> QED  BY <2>2, <2>3 DEF KnownSeqs
<1>8. CASE CloseJoin
  <2>1. PICK w \in Workers :
           \/ wpc' = [wpc EXCEPT ![w] = "terminated"]
              /\ outbuf' = [outbuf EXCEPT ![w] = <<>>]
           \/ wpc' = wpc /\ outbuf' = outbuf
    BY <1>8 DEF CloseJoin, TypeOK
  <2>2. \A v \in Workers : wpc'[v] = "busy" => wpc[v] = "busy"
    BY <2>1 DEF TypeOK
  <2>3. \A v \in Workers : outbuf'[v] = outbuf[v] \/ outbuf'[v] = <<>>
    BY <2>1 DEF TypeOK
  <2> QED  BY <1>8, <2>2, <2>3 DEF CloseJoin, KnownSeqs
<1>9. ASSUME NEW w \in Workers, WorkerOpen(w) PROVE KnownSeqs'
  BY <1>9 DEF WorkerOpen, KnownSeqs, TypeOK
<1>10. ASSUME NEW w \in Workers, WorkerTake(w) PROVE KnownSeqs'
  BY <1>10 DEF WorkerTake, KnownSeqs, TypeOK, Poison
<1>11. ASSUME NEW w \in Workers, WorkerProduce(w) PROVE KnownSeqs'
  BY <1>11 DEF WorkerProduce, KnownSeqs, TypeOK, Results, LiveStates, Poison
<1>12. ASSUME NEW w \in Workers, FeederSend(w) PROVE KnownSeqs'
  <2>1. /\ outbuf[w] \in Seq(Results) /\ outbuf[w] # <<>>
        /\ resultQ \in Seq(Results)
    BY <1>12 DEF FeederSend, TypeOK
  <2>2. Head(outbuf[w]) \in Results /\ Head(outbuf[w]).seq < submitSeq
    BY <2>1, TailProps DEF KnownSeqs
  <2>3. \A i \in 1..Len(resultQ') : resultQ'[i].seq < submitSeq
    BY <1>12, <2>1, <2>2, AppendProps DEF FeederSend, KnownSeqs
  <2>4. \A v \in Workers : \A i \in 1..Len(outbuf'[v]) :
           outbuf'[v][i].seq < submitSeq
    BY <1>12, <2>1, TailProps DEF FeederSend, KnownSeqs, TypeOK
  <2> QED  BY <1>12, <2>3, <2>4 DEF FeederSend, KnownSeqs
<1>13. ASSUME NEW w \in Workers, FeederDrop(w) PROVE KnownSeqs'
  BY <1>13 DEF FeederDrop, KnownSeqs, TypeOK
<1>14. ASSUME NEW w \in Workers, WorkerExit(w) PROVE KnownSeqs'
  BY <1>14 DEF WorkerExit, KnownSeqs, TypeOK
<1>15. ASSUME NEW w \in Workers, WorkerCrash(w) PROVE KnownSeqs'
  BY <1>15 DEF WorkerCrash, KnownSeqs, TypeOK
<1>16. CASE SubmitCall \/ SubmitAcquire \/ UploadLoop \/ UploadEmpty \/
    UploadCheck \/ SurfaceLoop \/ DrainReturn \/ UploadOne \/ ReadyPut \/
    GetCall \/ GetPop \/ GetRelease \/ CloseCall \/ CloseReturn \/ (\E w \in
    Workers : FeederBegin(w))
  BY <1>16 DEF KnownSeqs, SubmitCall, SubmitAcquire, UploadLoop, UploadEmpty,
      UploadCheck, SurfaceLoop, DrainReturn, UploadOne, ReadyPut, GetCall,
      GetPop, GetRelease, CloseCall, CloseReturn, FeederBegin
<1> QED  BY <1>1, <1>2, <1>3, <1>4, <1>5, <1>6, <1>7, <1>8, <1>9, <1>10,
    <1>11, <1>12, <1>13, <1>14, <1>15, <1>16 DEF Next, SubmitSteps,
    WorkerSteps, UploadSteps, GetSteps, CloseSteps

\* Every slot of the semaphore is accounted for.
LEMMA SlotStep == TypeOK /\ SlotInv /\ Next => SlotInv'
<1> SUFFICES ASSUME TypeOK, SlotInv, Next PROVE SlotInv'
  OBVIOUS
<1>1. CASE SubmitCall
  BY <1>1 DEF SubmitCall, SlotInv
<1>2. CASE SubmitAcquire
  BY <1>2 DEF SubmitAcquire, SlotInv, TypeOK
<1>3. CASE SubmitNumber
  BY <1>3 DEF SubmitNumber, SlotInv, TypeOK
<1>4. CASE SubmitPut
  BY <1>4 DEF SubmitPut, SlotInv
<1>5. CASE GetCall
  BY <1>5 DEF GetCall, SlotInv
<1>6. CASE GetPop
  <2>1. Len(delivered') = Len(delivered) + 1 /\ Len(delivered) \in Nat
    BY <1>6, AppendProps, TailProps DEF GetPop, TypeOK
  <2>2. slots \in Int /\ submitSeq \in Int
    BY PrefetcherAssumption DEF TypeOK
  <2>3. /\ cpc = "wait" /\ cpc' = "release" /\ spc' = spc /\ slots' = slots
        /\ submitSeq' = submitSeq
    BY <1>6 DEF GetPop
  <2> QED  BY <2>1, <2>2, <2>3, PrefetcherAssumption DEF SlotInv
<1>7. CASE GetRelease
  BY <1>7 DEF GetRelease, SlotInv, TypeOK
<1>8. CASE Start \/ UploadLoop \/ UploadReceive \/ UploadEmpty \/ UploadCheck
    \/ SurfaceLoop \/ SurfaceHead \/ DrainPop \/ DrainReturn \/ UploadOne \/
    ReadyPut \/ CloseCall \/ ClosePoison \/ CloseJoin \/ CloseReturn \/ (\E w
    \in Workers : WorkerOpen(w) \/ WorkerTake(w) \/ WorkerProduce(w) \/
    FeederBegin(w) \/ FeederSend(w) \/ FeederDrop(w) \/ WorkerExit(w) \/
    WorkerCrash(w))
  BY <1>8 DEF SlotInv, Start, UploadLoop, UploadReceive, UploadEmpty,
      UploadCheck, SurfaceLoop, SurfaceHead, DrainPop, DrainReturn, UploadOne,
      ReadyPut, CloseCall, ClosePoison, CloseJoin, CloseReturn, WorkerOpen,
      WorkerTake, WorkerProduce, FeederBegin, FeederSend, FeederDrop,
      WorkerExit, WorkerCrash
<1> QED  BY <1>1, <1>2, <1>3, <1>4, <1>5, <1>6, <1>7, <1>8 DEF Next,
    SubmitSteps, WorkerSteps, UploadSteps, GetSteps, CloseSteps

\* The numbers past the upload thread stay consecutive.
LEMMA FlowStep == TypeOK /\ FlowInv /\ KnownSeqs /\ Next => FlowInv'
<1> SUFFICES ASSUME TypeOK, FlowInv, KnownSeqs, Next PROVE FlowInv'
  OBVIOUS
<1>1. CASE Start
  BY <1>1 DEF Start, FlowInv
<1>2. CASE UploadLoop
  BY <1>2 DEF UploadLoop, FlowInv
<1>3. CASE UploadReceive
  BY <1>3 DEF UploadReceive, FlowInv
<1>4. CASE UploadEmpty
  BY <1>4 DEF UploadEmpty, FlowInv
<1>5. CASE UploadCheck
  BY <1>5 DEF UploadCheck, FlowInv
<1>6. CASE SurfaceLoop
  BY <1>6 DEF SurfaceLoop, FlowInv
<1>7. CASE SurfaceHead
  <2>1. CASE nextUpload < submitSeq
    <3>1. nextUpload \in Seqs /\ Len(ready) \in Nat /\ Len(delivered) \in Nat
      BY <2>1, PrefetcherAssumption DEF TypeOK, Seqs
    <3>2. hold' \in Items /\ hold'.seq = nextUpload
      BY <1>7, <2>1, <3>1 DEF SurfaceHead, Items
    <3>3. nextUpload' = nextUpload + 1 /\ upc = "head" /\ upc' = "put"
          /\ ready' = ready /\ delivered' = delivered
      BY <1>7, <2>1 DEF SurfaceHead
    <3> QED  BY <3>1, <3>2, <3>3 DEF FlowInv, Seqs
  <2>2. CASE ~(nextUpload < submitSeq)
    BY <1>7, <2>2 DEF SurfaceHead, FlowInv
  <2> QED  BY <2>1, <2>2
<1>8. CASE DrainPop
  BY <1>8 DEF DrainPop, FlowInv, TypeOK, Items, Results, Seqs
<1>9. CASE DrainReturn
  BY <1>9 DEF DrainReturn, FlowInv, TypeOK
<1>10. CASE UploadOne
  BY <1>10 DEF UploadOne, FlowInv
<1>11. CASE ReadyPut
  <2>1. /\ hold \in Items /\ ready \in Seq(Items) /\ Len(ready) \in Nat
        /\ Len(delivered) \in Nat /\ hold.seq = Len(delivered) + Len(ready)
        /\ nextUpload = Len(delivered) + Len(ready) + 1
    BY <1>11, PrefetcherAssumption DEF ReadyPut, TypeOK, FlowInv
  <2>2. ASSUME NEW i \in 1..Len(ready')
        PROVE  ready'[i].seq = Len(delivered) + i - 1
    <3>1. CASE i \in 1..Len(ready)
      <4>1. ready[i].seq = Len(delivered) + i - 1
        BY <3>1 DEF FlowInv
      <4>2. ready'[i] = ready[i]
        BY <1>11, <3>1, <2>1, AppendProps DEF ReadyPut
      <4> QED  BY <4>1, <4>2
    <3>2. CASE i = Len(ready) + 1
      BY <1>11, <3>2, <2>1, AppendProps DEF ReadyPut
    <3> QED  BY <1>11, <3>1, <3>2, <2>1, AppendProps DEF ReadyPut
  <2> QED
    BY <1>11, <2>1, <2>2, AppendProps, PrefetcherAssumption DEF ReadyPut, FlowInv
<1>12. CASE GetPop
  BY <1>12, PrefetcherAssumption DEF GetPop, FlowInv, TypeOK
<1>13. CASE SubmitCall \/ SubmitAcquire \/ SubmitNumber \/ SubmitPut \/
    GetCall \/ GetRelease \/ CloseCall \/ ClosePoison \/ CloseJoin \/
    CloseReturn \/ (\E w \in Workers : WorkerOpen(w) \/ WorkerTake(w) \/
    WorkerProduce(w) \/ FeederBegin(w) \/ FeederSend(w) \/ FeederDrop(w) \/
    WorkerExit(w) \/ WorkerCrash(w))
  BY <1>13 DEF FlowInv, SubmitCall, SubmitAcquire, SubmitNumber, SubmitPut,
      GetCall, GetRelease, CloseCall, ClosePoison, CloseJoin, CloseReturn,
      WorkerOpen, WorkerTake, WorkerProduce, FeederBegin, FeederSend, FeederDrop,
      WorkerExit, WorkerCrash
<1> QED  BY <1>1, <1>2, <1>3, <1>4, <1>5, <1>6, <1>7, <1>8, <1>9, <1>10,
    <1>11, <1>12, <1>13 DEF Next, SubmitSteps, WorkerSteps, UploadSteps,
    GetSteps, CloseSteps

\* The upload thread gives a request up only after a crash.
LEMMA CrashStep == TypeOK /\ SubmitInv /\ FlowInv /\ CrashInv /\ Next =>
    CrashInv'
<1> SUFFICES ASSUME TypeOK, SubmitInv, FlowInv, CrashInv, Next PROVE CrashInv'
  OBVIOUS
<1>1. CASE Start
  <2>1. starts' # 0 /\ \A w \in Workers : wpc'[w] = "opening"
    BY <1>1, PrefetcherAssumption DEF Start, TypeOK
  <2>2. upc' = upc \/ upc' = "poll"
    BY <1>1 DEF Start
  <2> QED  BY <1>1, <2>1, <2>2 DEF Start, CrashInv
<1>2. CASE SubmitPut
  BY <1>2, PrefetcherAssumption DEF SubmitPut, CrashInv, TypeOK, Poison,
      SubmitInv
<1>3. CASE UploadLoop
  BY <1>3 DEF UploadLoop, CrashInv
<1>4. CASE UploadReceive
  BY <1>4 DEF UploadReceive, CrashInv
<1>5. CASE UploadEmpty
  BY <1>5 DEF UploadEmpty, CrashInv
<1>6. CASE UploadCheck
  BY <1>6 DEF UploadCheck, CrashInv, Crashed, LiveStates, GoneStates, TypeOK
<1>7. CASE SurfaceLoop
  BY <1>7 DEF SurfaceLoop, CrashInv
<1>8. CASE SurfaceHead
  BY <1>8 DEF SurfaceHead, CrashInv
<1>9. CASE DrainPop
  BY <1>9 DEF DrainPop, CrashInv, TypeOK, Results
<1>10. CASE DrainReturn
  BY <1>10 DEF DrainReturn, CrashInv, TypeOK
<1>11. CASE UploadOne
  BY <1>11 DEF UploadOne, CrashInv
<1>12. CASE ReadyPut
  BY <1>12 DEF ReadyPut, CrashInv, TypeOK, FlowInv
<1>13. CASE GetCall
  BY <1>13 DEF GetCall, CrashInv
<1>14. CASE GetPop
  BY <1>14 DEF GetPop, CrashInv, TypeOK
<1>15. CASE CloseCall
  BY <1>15 DEF CloseCall, CrashInv
<1>16. CASE ClosePoison
  BY <1>16 DEF ClosePoison, CrashInv, TypeOK
<1>17. CASE CloseJoin
  BY <1>17 DEF CloseJoin, CrashInv, TypeOK
<1>18. CASE CloseReturn
  BY <1>18 DEF CloseReturn, CrashInv
<1>19. ASSUME NEW w \in Workers, WorkerOpen(w) PROVE CrashInv'
  BY <1>19 DEF WorkerOpen, CrashInv, TypeOK
<1>20. ASSUME NEW w \in Workers, WorkerTake(w) PROVE CrashInv'
  BY <1>20 DEF WorkerTake, CrashInv, TypeOK
<1>21. ASSUME NEW w \in Workers, WorkerProduce(w) PROVE CrashInv'
  BY <1>21 DEF WorkerProduce, CrashInv, TypeOK
<1>22. ASSUME NEW w \in Workers, WorkerExit(w) PROVE CrashInv'
  BY <1>22 DEF WorkerExit, CrashInv, TypeOK
<1>23. ASSUME NEW w \in Workers, WorkerCrash(w) PROVE CrashInv'
  BY <1>23 DEF WorkerCrash, CrashInv, TypeOK
<1>24. CASE SubmitCall \/ SubmitAcquire \/ SubmitNumber \/ GetRelease \/ (\E w
    \in Workers : FeederBegin(w) \/ FeederSend(w) \/ FeederDrop(w))
  BY <1>24 DEF CrashInv, SubmitCall, SubmitAcquire, SubmitNumber, GetRelease,
      FeederBegin, FeederSend, FeederDrop
<1> QED  BY <1>1, <1>2, <1>3, <1>4, <1>5, <1>6, <1>7, <1>8, <1>9, <1>10,
    <1>11, <1>12, <1>13, <1>14, <1>15, <1>16, <1>17, <1>18, <1>19, <1>20,
    <1>21, <1>22, <1>23, <1>24 DEF Next, SubmitSteps, WorkerSteps,
    UploadSteps, GetSteps, CloseSteps

\* What get() takes next continues the order.
LEMMA FifoStep == TypeOK /\ FlowInv /\ FifoOnce /\ Next => FifoOnce'
<1> SUFFICES ASSUME TypeOK, FlowInv, FifoOnce, Next PROVE FifoOnce'
  OBVIOUS
<1>1. CASE GetPop
  <2>1. /\ ready \in Seq(Items) /\ ready # <<>> /\ delivered \in Seq(Items)
        /\ delivered' = Append(delivered, Head(ready))
    BY <1>1 DEF GetPop, TypeOK
  <2>2. Head(ready) \in Items /\ Head(ready).seq = Len(delivered)
    BY <2>1, TailProps DEF FlowInv
  <2>3. ASSUME NEW i \in 1..Len(delivered') PROVE delivered'[i].seq = i - 1
    <3>1. CASE i \in 1..Len(delivered)
      BY <2>1, <2>2, <3>1, AppendProps DEF FifoOnce
    <3>2. CASE i = Len(delivered) + 1
      BY <2>1, <2>2, <3>2, AppendProps
    <3> QED  BY <2>1, <2>2, <3>1, <3>2, AppendProps
  <2> QED  BY <2>3 DEF FifoOnce
<1>2. CASE Start \/ SubmitCall \/ SubmitAcquire \/ SubmitNumber \/ SubmitPut
    \/ UploadLoop \/ UploadReceive \/ UploadEmpty \/ UploadCheck \/
    SurfaceLoop \/ SurfaceHead \/ DrainPop \/ DrainReturn \/ UploadOne \/
    ReadyPut \/ GetCall \/ GetRelease \/ CloseCall \/ ClosePoison \/ CloseJoin
    \/ CloseReturn \/ (\E w \in Workers : WorkerOpen(w) \/ WorkerTake(w) \/
    WorkerProduce(w) \/ FeederBegin(w) \/ FeederSend(w) \/ FeederDrop(w) \/
    WorkerExit(w) \/ WorkerCrash(w))
  BY <1>2 DEF FifoOnce, Start, SubmitCall, SubmitAcquire, SubmitNumber,
      SubmitPut, UploadLoop, UploadReceive, UploadEmpty, UploadCheck,
      SurfaceLoop, SurfaceHead, DrainPop, DrainReturn, UploadOne, ReadyPut,
      GetCall, GetRelease, CloseCall, ClosePoison, CloseJoin, CloseReturn,
      WorkerOpen, WorkerTake, WorkerProduce, FeederBegin, FeederSend, FeederDrop,
      WorkerExit, WorkerCrash
<1> QED  BY <1>1, <1>2 DEF Next, SubmitSteps, WorkerSteps, UploadSteps,
    GetSteps, CloseSteps

\* The inductive invariant is preserved.
LEMMA StepIInv == IInv /\ [Next]_vars => IInv'
<1>1. IInv /\ Next => IInv'
  BY TypeStep, SubmitStep, KnownStep, SlotStep, FlowStep, CrashStep, FifoStep
     DEF IInv
<1>2. IInv /\ UNCHANGED vars => IInv'
  <2> SUFFICES ASSUME IInv, UNCHANGED vars PROVE IInv'  OBVIOUS
  <2>1. TypeOK'  BY DEF IInv, TypeOK, vars
  <2>2. SubmitInv' /\ SlotInv' /\ FifoOnce'
    BY DEF IInv, SubmitInv, SlotInv, FifoOnce, vars
  <2>3. KnownSeqs'  BY DEF IInv, KnownSeqs, vars
  <2>4. FlowInv'  BY DEF IInv, FlowInv, vars
  <2>5. CrashInv'  BY DEF IInv, CrashInv, vars
  <2> QED  BY <2>1, <2>2, <2>3, <2>4, <2>5 DEF IInv
<1> QED  BY <1>1, <1>2

\* Every reachable state satisfies the inductive invariant.
THEOREM Inductive == Spec => []IInv
BY InitIInv, StepIInv, PTL DEF Spec

\* The types of the prefetcher's state, among them that the semaphore never
\* leaves 0..decode_ahead and _next_upload_seq never passes the requests.
THEOREM TypeCorrect == Spec => []TypeOK
<1>1. IInv => TypeOK  BY DEF IInv
<1> QED  BY Inductive, <1>1, PTL

\* get() is strictly FIFO and serves every request exactly once, for any
\* number of workers and any interleaving, crashes and close() included.
THEOREM FifoCorrect == Spec => []FifoOnce
<1>1. IInv => FifoOnce  BY DEF IInv
<1> QED  BY Inductive, <1>1, PTL

\* At most decode_ahead requests are between submit() and get(), and no slot
\* is lost: with both calls idle the free slots are exactly the unused ones.
THEOREM BackPressureCorrect == Spec => []BackPressure
<1>1. IInv => BackPressure
  <2> SUFFICES ASSUME IInv PROVE BackPressure  OBVIOUS
  <2>1. slots \in 0..DecodeAhead /\ submitSeq \in Int /\ Len(delivered) \in Nat
    BY PrefetcherAssumption DEF IInv, TypeOK
  <2> QED  BY <2>1, PrefetcherAssumption DEF IInv, SlotInv, BackPressure
<1> QED  BY Inductive, <1>1, PTL

\* PrefetchWorkerDied is raised only after a worker really crashed, never
\* because close() ended the workers.
THEOREM DiedCorrect == Spec => []DiedOnlyAfterCrash
<1>1. IInv => DiedOnlyAfterCrash
  BY DEF IInv, CrashInv, DiedOnlyAfterCrash
<1> QED  BY Inductive, <1>1, PTL

\* The step of get() that takes an item is the service's Serve.
LEMMA GetPopServes ==
    ASSUME IInv, GetPop PROVE Service!Serve
<1>1. /\ ready \in Seq(Items) /\ ready # <<>> /\ Len(ready) \in Nat
      /\ Len(delivered) \in Nat /\ submitSeq \in Int /\ nextUpload \in Int
  BY PrefetcherAssumption DEF IInv, TypeOK, GetPop
<1>2. Head(ready) \in Items /\ Head(ready).seq = Len(delivered)
  BY <1>1, TailProps DEF IInv, FlowInv
<1>3. Head(ready) = [seq |-> Len(delivered), kind |-> Head(ready).kind]
      /\ Head(ready).kind \in {"ok", "err", "died"}
  BY <1>2 DEF Items
<1>4. Head(ready).kind = "died" => everCrashed
  BY <1>1, TailProps DEF IInv, CrashInv
<1>5. Len(delivered) < submitSeq
  <2>1. Len(ready) > 0
    BY <1>1, TailProps
  <2>2. Len(delivered) + Len(ready) <= nextUpload /\ nextUpload <= submitSeq
    BY <1>1 DEF IInv, FlowInv, KnownSeqs
  <2> QED  BY <1>1, <2>1, <2>2
<1>6. delivered' = Append(delivered, [seq |-> Len(delivered),
                                      kind |-> Head(ready).kind])
  BY <1>3 DEF GetPop
<1> QED  BY <1>3, <1>4, <1>5, <1>6 DEF Service!Serve, GetPop

\* The prefetcher, with its threads, processes and faults, implements the
\* sequential FIFO service with capacity decode_ahead.
THEOREM Refinement == Spec => ImplementsService
<1>1. Init => Service!SInit
  BY DEF Init, Service!SInit
<1>2. IInv /\ [Next]_vars => [Service!SNext]_(Service!svars)
  <2> SUFFICES ASSUME IInv, [Next]_vars
               PROVE  Service!SNext \/ UNCHANGED <<submitSeq, delivered, everCrashed>>
    BY DEF Service!svars
  <2>1. CASE GetPop
    BY <2>1, GetPopServes DEF Service!SNext
  <2>2. CASE SubmitNumber
    <3>1. slots \in Nat /\ submitSeq \in Int /\ Len(delivered) \in Nat
      BY PrefetcherAssumption DEF IInv, TypeOK
    <3>2. submitSeq - Len(delivered) < DecodeAhead
      BY <2>2, <3>1, PrefetcherAssumption DEF IInv, SlotInv, SubmitNumber
    <3> QED  BY <2>2, <3>2 DEF SubmitNumber, Service!SNext, Service!Issue
  <2>3. ASSUME NEW w \in Workers, WorkerCrash(w) PROVE Service!SNext
    BY <2>3 DEF WorkerCrash, Service!SNext, Service!Break
  <2>4. CASE UNCHANGED vars
    BY <2>4 DEF vars
  <2>5. CASE Start \/ SubmitCall \/ SubmitAcquire \/ SubmitPut \/ GetCall
             \/ GetRelease \/ CloseCall \/ CloseSteps
    BY <2>5 DEF Start, SubmitCall, SubmitAcquire, SubmitPut, GetCall,
         GetRelease, CloseCall, CloseSteps, ClosePoison, CloseJoin, CloseReturn
  <2>6. CASE UploadSteps
    BY <2>6 DEF UploadSteps, UploadLoop, UploadReceive, UploadEmpty,
         UploadCheck, SurfaceLoop, SurfaceHead, DrainPop, DrainReturn,
         UploadOne, ReadyPut
  <2>7. CASE \E w \in Workers : WorkerSteps(w)
    BY <2>7 DEF WorkerSteps, WorkerOpen, WorkerTake, WorkerProduce, FeederBegin,
         FeederSend, FeederDrop, WorkerExit
  <2> QED
    BY <2>1, <2>2, <2>3, <2>4, <2>5, <2>6, <2>7 DEF Next, SubmitSteps, GetSteps
<1> QED  BY <1>1, <1>2, Inductive, PTL DEF Spec, ImplementsService,
            Service!ServiceSpec

(* ------------------- where a request is: Conservation ------------------- *)

\* No place holds a number that submit() has not given out, and an answer
\* is below _next_upload_seq.
LEMMA PlacesKnown ==
    ASSUME TypeOK, KnownSeqs, FlowInv, FifoOnce
    PROVE  /\ \A s \in Asked \cup Working \cup Made \cup Sent \cup Kept :
                 s < submitSeq
           /\ \A s \in Answered : s < nextUpload
           /\ submitSeq \in Int /\ nextUpload \in Int /\ nextUpload <= submitSeq
<1>1. submitSeq \in Int /\ nextUpload \in Int /\ nextUpload <= submitSeq
  BY PrefetcherAssumption DEF TypeOK, KnownSeqs
<1>2. \A s \in Asked \cup Sent \cup Kept : s < submitSeq
  BY DEF KnownSeqs, Asked, Sent, Kept
<1>3. \A s \in Working : s < submitSeq
  BY DEF KnownSeqs, Working
<1>4. \A s \in Made : s < submitSeq
  BY DEF KnownSeqs, Made
<1>5. Len(ready) \in Nat /\ Len(delivered) \in Nat
  BY DEF TypeOK
<1>6. ASSUME NEW s \in Answered PROVE s < nextUpload
  <2>1. CASE upc \in {"upload", "put"} /\ hold.seq = s
    BY <2>1, <1>1 DEF FlowInv
  <2>2. CASE \E i \in 1..Len(ready) : ready[i].seq = s
    BY <2>2, <1>1, <1>5 DEF FlowInv
  <2>3. CASE \E i \in 1..Len(delivered) : delivered[i].seq = s
    BY <2>3, <1>1, <1>5 DEF FlowInv, FifoOnce
  <2> QED  BY <1>6, <2>1, <2>2, <2>3 DEF Answered
<1> QED  BY <1>1, <1>2, <1>3, <1>4, <1>6

\* The prefetcher starts with every place empty.
LEMMA InitPlace == Init => PlaceInv
<1> SUFFICES ASSUME Init PROVE PlaceInv  OBVIOUS
<1>1. /\ Numbered = {} /\ Asked = {} /\ Working = {} /\ Made = {}
      /\ Sent = {} /\ Kept = {} /\ Answered = {}
  BY DEF Init, Numbered, Asked, Working, Made, Sent, Kept, Answered
<1>2. OnePlace
  BY <1>1 DEF OnePlace, Disjoint
<1>3. OneCopy
  BY DEF Init, OneCopy
<1>4. NoneMissing
  BY DEF Init, NoneMissing
<1> QED  BY <1>2, <1>3, <1>4 DEF PlaceInv, StartsFresh, Init

\* A step that moves nothing keeps what is known of the places.
LEMMA NothingMoves ==
    ASSUME OnePlace, NoneMissing, submitSeq' = submitSeq, Lossy => Lossy',
           Numbered' = Numbered, Asked' = Asked, Working' = Working,
           Made' = Made, Sent' = Sent, Kept' = Kept, Answered' = Answered
    PROVE  OnePlace' /\ NoneMissing'
BY DEF OnePlace, NoneMissing, Disjoint

\* A step that may lose something, and moves nothing, keeps it too.
LEMMA LosingStep ==
    ASSUME OnePlace, Lossy',
           Numbered' \subseteq Numbered, Asked' \subseteq Asked,
           Working' \subseteq Working, Made' \subseteq Made,
           Sent' \subseteq Sent, Kept' \subseteq Kept,
           Answered' \subseteq Answered
    PROVE  OnePlace' /\ NoneMissing'
BY DEF OnePlace, NoneMissing, Disjoint

\* submit(): a number is taken, then put on the request queue.
LEMMA SubmitPlaces ==
    ASSUME IInv, PlaceInv, SubmitNumber \/ SubmitPut
    PROVE  PlaceInv'
<1>1. TypeOK /\ submitSeq \in Int
  BY PrefetcherAssumption DEF IInv, TypeOK
<1>2. CASE SubmitNumber
  <2>1. /\ Asked' = Asked /\ Working' = Working /\ Made' = Made
        /\ Sent' = Sent /\ Kept' = Kept /\ Answered' = Answered
    BY <1>2 DEF SubmitNumber, Asked, Working, Made, Sent, Kept, Answered
  <2>2. Numbered' = {submitSeq} \cap Seqs /\ submitSeq' = submitSeq + 1
    BY <1>1, <1>2 DEF SubmitNumber, Numbered
  <2>3. submitSeq \notin Asked \cup Working \cup Made \cup Sent \cup Kept
                          \cup Answered
    BY PlacesKnown DEF IInv
  <2>4. submitSeq \in Seqs /\ Numbered = {}
    BY <1>1, <1>2, PrefetcherAssumption
       DEF SubmitNumber, Numbered, Seqs, IInv, SubmitInv, TypeOK
  <2>5. OnePlace'
    BY <2>1, <2>2, <2>3 DEF OnePlace, Disjoint, PlaceInv
  <2>6. (0..(submitSeq - 1))' = 0..(submitSeq - 1) \cup {submitSeq}
    BY <1>1, <2>2, <2>4 DEF Seqs
  <2>7. NoneMissing'
    BY <1>2, <2>1, <2>2, <2>4, <2>6
       DEF SubmitNumber, PlaceInv, NoneMissing, Lossy
  <2> QED  BY <1>2, <2>5, <2>7
              DEF SubmitNumber, PlaceInv, OneCopy, StartsFresh
<1>3. CASE SubmitPut
  <2> DEFINE s == submitSeq - 1
  <2>1. /\ Working' = Working /\ Made' = Made
        /\ Sent' = Sent /\ Kept' = Kept /\ Answered' = Answered
    BY <1>3 DEF SubmitPut, Working, Made, Sent, Kept, Answered
  <2>2. s \in Seqs /\ Numbered = {s} /\ Numbered' = {}
    <3>1. spc = "numbered" /\ spc' = "idle"
      BY <1>3 DEF SubmitPut
    <3>2. submitSeq \in 1..MaxSubmit /\ MaxSubmit \in Nat
      BY <3>1, PrefetcherAssumption DEF IInv, SubmitInv, TypeOK
    <3>3. s \in Seqs
      BY <3>2 DEF Seqs
    <3> QED  BY <3>1, <3>3 DEF Numbered
  <2>3. /\ requestQ \in Seq(Seqs \cup {Poison}) /\ s \in Seqs \cup {Poison}
        /\ requestQ' = Append(requestQ, s) /\ Len(requestQ) \in Nat
    BY <1>1, <1>3, <2>2 DEF SubmitPut, TypeOK
  <2>4. /\ Len(requestQ') = Len(requestQ) + 1
        /\ \A i \in 1..Len(requestQ) : requestQ'[i] = requestQ[i]
        /\ requestQ'[Len(requestQ) + 1] = s
    BY <2>3, AppendProps
  <2>5. Asked' = Asked \cup {s}
    BY <2>2, <2>3, <2>4 DEF Asked
  <2>6. s \notin Asked
    BY <2>2 DEF PlaceInv, OnePlace, Disjoint
  <2>7. OnePlace'
    BY <2>1, <2>2, <2>5 DEF OnePlace, Disjoint, PlaceInv
  <2>8. NoneMissing'
    BY <1>3, <2>1, <2>2, <2>5 DEF SubmitPut, PlaceInv, NoneMissing, Lossy
  <2>9. ASSUME NEW i \in 1..Len(requestQ'), NEW j \in 1..Len(requestQ'),
               requestQ'[i] = requestQ'[j]
        PROVE  i = j \/ requestQ'[i] = Poison
    <3>1. \A k \in 1..Len(requestQ) : requestQ[k] # s
      BY <2>2, <2>6 DEF Asked
    <3> QED  BY <2>3, <2>4, <2>9, <3>1 DEF PlaceInv, OneCopy
  <2> QED  BY <1>3, <2>7, <2>8, <2>9
              DEF SubmitPut, PlaceInv, OneCopy, StartsFresh
<1> QED  BY <1>2, <1>3

\* What Tail leaves of a typed queue, as a set of positions.
LEMMA TailPositions ==
    ASSUME NEW S, NEW q \in Seq(S), q # <<>>
    PROVE  /\ \A i \in 1..Len(q) :
                 i = 1 \/ (i - 1 \in 1..Len(Tail(q)) /\ Tail(q)[i - 1] = q[i])
           /\ \A i \in 1..Len(Tail(q)) : i + 1 \in 1..Len(q)
BY TailProps

\* A worker takes a request off the queue.
LEMMA TakePlaces ==
    ASSUME IInv, PlaceInv, NEW w \in Workers, WorkerTake(w)
    PROVE  PlaceInv'
<1> DEFINE s == Head(requestQ)
<1>1. /\ requestQ \in Seq(Seqs \cup {Poison}) /\ requestQ # <<>>
      /\ requestQ' = Tail(requestQ) /\ Len(requestQ) \in Nat
      /\ wpc[w] = "idle"
      /\ wpc' = [wpc EXCEPT ![w] = IF s = Poison THEN "exiting" ELSE "busy"]
      /\ wjob' = [wjob EXCEPT ![w] = s]
      /\ wpc \in [Workers -> LiveStates \cup GoneStates]
      /\ wjob \in [Workers -> Seqs \cup {Poison}]
  BY DEF IInv, TypeOK, WorkerTake
<1>2. /\ Numbered' = Numbered /\ Made' = Made
      /\ Sent' = Sent /\ Kept' = Kept /\ Answered' = Answered
      /\ submitSeq' = submitSeq
  BY DEF WorkerTake, Numbered, Made, Sent, Kept, Answered
<1>3. /\ s = requestQ[1] /\ 1 \in 1..Len(requestQ) /\ s \in Seqs \cup {Poison}
      /\ Len(Tail(requestQ)) = Len(requestQ) - 1
      /\ \A i \in 1..Len(Tail(requestQ)) : /\ Tail(requestQ)[i] = requestQ[i + 1]
                                           /\ i + 1 \in 1..Len(requestQ)
      /\ \A i \in 1..Len(requestQ) :
            i = 1 \/ (i - 1 \in 1..Len(Tail(requestQ))
                      /\ Tail(requestQ)[i - 1] = requestQ[i])
  BY <1>1, TailProps, TailPositions
<1>4. Poison \notin Seqs
  BY DEF Poison, Seqs
<1>5. Asked' = Asked \ {s}
  <2>1. ASSUME NEW t \in Asked' PROVE t \in Asked /\ t # s
    <3>1. PICK i \in 1..Len(Tail(requestQ)) : Tail(requestQ)[i] = t /\ t \in Seqs
      BY <1>1, <2>1 DEF Asked
    <3>2. requestQ[i + 1] = t /\ i + 1 \in 1..Len(requestQ) /\ i + 1 # 1
      BY <1>1, <1>3, <3>1
    <3>3. t # Poison
      BY <1>4, <3>1
    <3> QED  BY <1>3, <3>1, <3>2, <3>3 DEF Asked, PlaceInv, OneCopy
  <2>2. ASSUME NEW t \in Asked, t # s PROVE t \in Asked'
    <3>1. PICK i \in 1..Len(requestQ) : requestQ[i] = t /\ t \in Seqs
      BY <2>2 DEF Asked
    <3>2. i - 1 \in 1..Len(Tail(requestQ)) /\ Tail(requestQ)[i - 1] = t
      BY <1>3, <2>2, <3>1
    <3> QED  BY <1>1, <3>1, <3>2 DEF Asked
  <2> QED  BY <2>1, <2>2
<1>6. \A v \in Workers : wpc'[v] = "busy"
         => IF v = w THEN s # Poison /\ wjob'[v] = s
                     ELSE wpc[v] = "busy" /\ wjob'[v] = wjob[v]
  BY <1>1
<1>7. \A v \in Workers : wpc[v] = "busy"
         => v # w /\ wpc'[v] = "busy" /\ wjob'[v] = wjob[v]
  BY <1>1
<1>8. Working' = Working \cup ({s} \cap Seqs)
  <2>1. s \in Seqs => wpc'[w] = "busy" /\ wjob'[w] = s
    BY <1>1, <1>4
  <2>2. \A t \in Working' : t \in Working \/ t = s
    BY <1>6 DEF Working
  <2>3. \A t \in Working : t \in Working'
    BY <1>7 DEF Working
  <2>4. s \in Seqs => s \in Working'
    BY <2>1 DEF Working
  <2>5. Working' \subseteq Seqs
    BY DEF Working
  <2> QED  BY <2>2, <2>3, <2>4, <2>5
<1>9. s \in Seqs => s \in Asked
  BY <1>3 DEF Asked
<1>10. OnePlace'
  BY <1>2, <1>5, <1>8, <1>9 DEF OnePlace, Disjoint, PlaceInv
<1>11. NoneMissing'
  <2>1. Asked \cup Working \subseteq Asked' \cup Working'
    BY <1>5, <1>8 DEF Asked
  <2>2. Lossy' = Lossy
    BY DEF WorkerTake, Lossy
  <2> QED  BY <1>2, <2>1, <2>2 DEF PlaceInv, NoneMissing
<1>12. OneCopy'
  <2>1. \A i, j \in 1..Len(requestQ') :
           requestQ'[i] = requestQ'[j] => i = j \/ requestQ'[i] = Poison
    BY <1>1, <1>3 DEF PlaceInv, OneCopy
  <2>2. ASSUME NEW u \in Workers, NEW v \in Workers,
               wpc'[u] = "busy", wpc'[v] = "busy", wjob'[u] = wjob'[v]
        PROVE  u = v
    <3>1. s # Poison => s \in Asked
      BY <1>3, <1>9
    <3>2. \A x \in Workers : wpc[x] = "busy" /\ s # Poison => wjob[x] # s
      BY <3>1 DEF PlaceInv, OnePlace, Disjoint, Working, Asked
    <3> QED  BY <1>6, <2>2, <3>2 DEF PlaceInv, OneCopy
  <2>3. UNCHANGED <<outbuf, resultQ, pending>>
    BY DEF WorkerTake
  <2> QED  BY <2>1, <2>2, <2>3 DEF PlaceInv, OneCopy
<1>13. StartsFresh'
  BY <1>1 DEF PlaceInv, StartsFresh, WorkerTake
<1> QED  BY <1>10, <1>11, <1>12, <1>13 DEF PlaceInv

\* A worker hands the batch it has produced to its feeder.
LEMMA ProducePlaces ==
    ASSUME IInv, PlaceInv, NEW w \in Workers, WorkerProduce(w)
    PROVE  PlaceInv'
<1> DEFINE s == wjob[w]
           r == [seq |-> s, kind |-> Outcome(s)]
<1>1. /\ wpc \in [Workers -> LiveStates \cup GoneStates]
      /\ wjob \in [Workers -> Seqs \cup {Poison}]
      /\ outbuf \in [Workers -> Seq(Results)]
      /\ wpc[w] = "busy" /\ s \in Seqs
  BY DEF IInv, TypeOK, KnownSeqs, WorkerProduce
<1>2. /\ outbuf' = [outbuf EXCEPT ![w] = Append(outbuf[w], r)]
      /\ wpc' = [wpc EXCEPT ![w] = "idle"]
      /\ wjob' = [wjob EXCEPT ![w] = Poison]
  BY DEF WorkerProduce
<1>3. /\ Numbered' = Numbered /\ Asked' = Asked
      /\ Sent' = Sent /\ Kept' = Kept /\ Answered' = Answered
      /\ submitSeq' = submitSeq /\ Lossy' = Lossy
  BY DEF WorkerProduce, Numbered, Asked, Sent, Kept, Answered, Lossy
<1>4. /\ r \in Results /\ outbuf[w] \in Seq(Results) /\ r.seq = s
  BY <1>1 DEF Results, Outcome
<1>5. /\ outbuf'[w] = Append(outbuf[w], r)
      /\ \A v \in Workers : v # w => outbuf'[v] = outbuf[v]
  BY <1>1, <1>2
<1>6. /\ Len(outbuf[w]) \in Nat /\ Len(outbuf'[w]) = Len(outbuf[w]) + 1
      /\ \A i \in 1..Len(outbuf[w]) : outbuf'[w][i] = outbuf[w][i]
      /\ outbuf'[w][Len(outbuf[w]) + 1].seq = s
  BY <1>4, <1>5, AppendProps
<1>7. Made' = Made \cup {s}
  <2>1. ASSUME NEW t \in Made' PROVE t \in Made \/ t = s
    <3>1. PICK v \in Workers : \E i \in 1..Len(outbuf'[v]) : outbuf'[v][i].seq = t
      BY <2>1 DEF Made
    <3>2. PICK i \in 1..Len(outbuf'[v]) : outbuf'[v][i].seq = t
      BY <3>1
    <3>3. CASE v # w
      BY <1>5, <2>1, <3>2, <3>3 DEF Made
    <3>4. CASE v = w /\ i \in 1..Len(outbuf[w])
      BY <1>6, <2>1, <3>2, <3>4 DEF Made
    <3>5. CASE v = w /\ i = Len(outbuf[w]) + 1
      BY <1>6, <3>2, <3>5
    <3> QED  BY <1>6, <3>3, <3>4, <3>5
  <2>2. ASSUME NEW t \in Made PROVE t \in Made'
    <3>1. PICK v \in Workers : \E i \in 1..Len(outbuf[v]) : outbuf[v][i].seq = t
      BY <2>2 DEF Made
    <3>2. PICK i \in 1..Len(outbuf[v]) : outbuf[v][i].seq = t
      BY <3>1
    <3>3. i \in 1..Len(outbuf'[v]) /\ outbuf'[v][i].seq = t
      BY <1>5, <1>6, <3>2
    <3> QED  BY <2>2, <3>3 DEF Made
  <2>3. s \in Made'
    <3>1. Len(outbuf[w]) + 1 \in 1..Len(outbuf'[w])
      BY <1>6
    <3> QED  BY <1>1, <1>6, <3>1 DEF Made
  <2> QED  BY <2>1, <2>2, <2>3
<1>8. \A v \in Workers :
         wpc'[v] = "busy" <=> wpc[v] = "busy" /\ v # w
  BY <1>1, <1>2
<1>9. \A v \in Workers : v # w => wjob'[v] = wjob[v]
  BY <1>1, <1>2
<1>10. \A v \in Workers : wpc[v] = "busy" /\ wjob[v] = s => v = w
  BY <1>1 DEF PlaceInv, OneCopy
<1>11. Working' = Working \ {s} /\ s \in Working
  <2>1. s \in Working
    BY <1>1 DEF Working
  <2>2. \A t \in Seqs : t \in Working' <=> t \in Working /\ t # s
    BY <1>8, <1>9, <1>10 DEF Working
  <2> QED  BY <2>1, <2>2 DEF Working
<1>12. OnePlace'
  BY <1>3, <1>7, <1>11 DEF OnePlace, Disjoint, PlaceInv
<1>13. NoneMissing'
  <2>1. Working \cup Made \subseteq Working' \cup Made'
    BY <1>7, <1>11
  <2> QED  BY <1>3, <2>1 DEF PlaceInv, NoneMissing
<1>14. OneCopy'
  <2>1. \A u, v \in Workers :
           wpc'[u] = "busy" /\ wpc'[v] = "busy" /\ wjob'[u] = wjob'[v] => u = v
    BY <1>8, <1>9 DEF PlaceInv, OneCopy
  <2>2. s \notin Made
    BY <1>11 DEF PlaceInv, OnePlace, Disjoint
  <2>3. \A v \in Workers : \A i \in 1..Len(outbuf[v]) : outbuf[v][i].seq # s
    BY <1>1, <2>2 DEF Made
  <2>4. ASSUME NEW x \in Workers, NEW k \in 1..Len(outbuf'[x])
        PROVE  \/ k \in 1..Len(outbuf[x]) /\ outbuf'[x][k] = outbuf[x][k]
               \/ x = w /\ k = Len(outbuf[w]) + 1 /\ outbuf'[x][k].seq = s
    <3>1. CASE x # w
      BY <1>5, <3>1
    <3>2. CASE x = w
      BY <1>6, <3>2
    <3> QED  BY <3>1, <3>2
  <2>5. ASSUME NEW u \in Workers, NEW v \in Workers,
               NEW i \in 1..Len(outbuf'[u]), NEW j \in 1..Len(outbuf'[v]),
               outbuf'[u][i].seq = outbuf'[v][j].seq
        PROVE  u = v /\ i = j
    <3>1. \/ i \in 1..Len(outbuf[u]) /\ outbuf'[u][i] = outbuf[u][i]
          \/ u = w /\ i = Len(outbuf[w]) + 1 /\ outbuf'[u][i].seq = s
      BY <2>4
    <3>2. \/ j \in 1..Len(outbuf[v]) /\ outbuf'[v][j] = outbuf[v][j]
          \/ v = w /\ j = Len(outbuf[w]) + 1 /\ outbuf'[v][j].seq = s
      BY <2>4
    <3>3. CASE i \in 1..Len(outbuf[u]) /\ j \in 1..Len(outbuf[v])
      <4>1. outbuf[u][i].seq = outbuf[v][j].seq
        BY <1>6, <2>5, <3>1, <3>2, <3>3
      <4> QED  BY <3>3, <4>1 DEF PlaceInv, OneCopy
    <3>4. CASE i \notin 1..Len(outbuf[u]) \/ j \notin 1..Len(outbuf[v])
      BY <2>3, <2>5, <3>1, <3>2, <3>4
    <3> QED  BY <3>3, <3>4
  <2>6. UNCHANGED <<requestQ, resultQ, pending>>
    BY DEF WorkerProduce
  <2> QED  BY <2>1, <2>5, <2>6 DEF PlaceInv, OneCopy
<1>15. StartsFresh'
  BY <1>1 DEF PlaceInv, StartsFresh, WorkerProduce
<1> QED  BY <1>12, <1>13, <1>14, <1>15 DEF PlaceInv

\* What taking the head off a feeder's buffer does to the batches made.
LEMMA FeederTakes ==
    ASSUME IInv, PlaceInv, NEW w \in Workers, outbuf[w] # <<>>,
           outbuf' = [outbuf EXCEPT ![w] = Tail(outbuf[w])]
    PROVE  /\ Head(outbuf[w]) \in Results /\ Head(outbuf[w]).seq \in Made
           /\ Made' = Made \ {Head(outbuf[w]).seq}
           /\ \A u, v \in Workers :
                 \A i \in 1..Len(outbuf'[u]), j \in 1..Len(outbuf'[v]) :
                    outbuf'[u][i].seq = outbuf'[v][j].seq => u = v /\ i = j
<1> DEFINE q == outbuf[w]
           s == Head(q).seq
<1>1. /\ outbuf \in [Workers -> Seq(Results)] /\ q \in Seq(Results)
      /\ outbuf'[w] = Tail(q)
      /\ \A v \in Workers : v # w => outbuf'[v] = outbuf[v]
  BY DEF IInv, TypeOK
<1>2. /\ Head(q) \in Results /\ Head(q) = q[1] /\ 1 \in 1..Len(q)
      /\ Len(q) \in Nat /\ Len(Tail(q)) = Len(q) - 1
      /\ \A i \in 1..Len(Tail(q)) : Tail(q)[i] = q[i + 1] /\ i + 1 \in 1..Len(q)
      /\ \A i \in 1..Len(q) :
            i = 1 \/ (i - 1 \in 1..Len(Tail(q)) /\ Tail(q)[i - 1] = q[i])
  BY <1>1, TailProps, TailPositions
<1>3. s \in Seqs /\ s \in Made
  BY <1>2 DEF Results, Made
<1>4. ASSUME NEW t \in Made' PROVE t \in Made /\ t # s
  <2>1. PICK v \in Workers : \E i \in 1..Len(outbuf'[v]) : outbuf'[v][i].seq = t
    BY <1>4 DEF Made
  <2>2. PICK i \in 1..Len(outbuf'[v]) : outbuf'[v][i].seq = t
    BY <2>1
  <2>3. CASE v # w
    <3>1. i \in 1..Len(outbuf[v]) /\ outbuf[v][i].seq = t
      BY <1>1, <2>2, <2>3
    <3>2. t # q[1].seq
      BY <1>2, <2>3, <3>1 DEF PlaceInv, OneCopy
    <3> QED  BY <1>2, <1>4, <3>1, <3>2 DEF Made
  <2>4. CASE v = w
    <3>1. i + 1 \in 1..Len(q) /\ q[i + 1].seq = t /\ i + 1 # 1
      BY <1>1, <1>2, <2>2, <2>4
    <3>2. t # q[1].seq
      BY <1>2, <3>1 DEF PlaceInv, OneCopy
    <3> QED  BY <1>2, <1>4, <3>1, <3>2 DEF Made
  <2> QED  BY <2>3, <2>4
<1>5. ASSUME NEW t \in Made, t # s PROVE t \in Made'
  <2>1. PICK v \in Workers : \E i \in 1..Len(outbuf[v]) : outbuf[v][i].seq = t
    BY <1>5 DEF Made
  <2>2. PICK i \in 1..Len(outbuf[v]) : outbuf[v][i].seq = t
    BY <2>1
  <2>3. CASE v # w
    BY <1>1, <1>5, <2>2, <2>3 DEF Made
  <2>4. CASE v = w
    <3>1. i - 1 \in 1..Len(outbuf'[w]) /\ outbuf'[w][i - 1].seq = t
      BY <1>1, <1>2, <1>5, <2>2, <2>4
    <3> QED  BY <1>5, <3>1 DEF Made
  <2> QED  BY <2>3, <2>4
<1>6. ASSUME NEW u \in Workers, NEW v \in Workers,
             NEW i \in 1..Len(outbuf'[u]), NEW j \in 1..Len(outbuf'[v]),
             outbuf'[u][i].seq = outbuf'[v][j].seq
      PROVE  u = v /\ i = j
  <2>1. PICK a \in 1..Len(outbuf[u]) :
           a = (IF u = w THEN i + 1 ELSE i) /\ outbuf[u][a] = outbuf'[u][i]
    BY <1>1, <1>2
  <2>2. PICK b \in 1..Len(outbuf[v]) :
           b = (IF v = w THEN j + 1 ELSE j) /\ outbuf[v][b] = outbuf'[v][j]
    BY <1>1, <1>2
  <2>3. u = v /\ a = b
    <3>1. outbuf[u][a].seq = outbuf'[u][i].seq
      BY <2>1
    <3>2. outbuf[v][b].seq = outbuf'[v][j].seq
      BY <2>2
    <3>3. outbuf[u][a].seq = outbuf[v][b].seq
      BY <1>6, <3>1, <3>2
    <3> QED  BY <3>3 DEF PlaceInv, OneCopy
  <2> QED  BY <2>1, <2>2, <2>3
<1>7. Made' = Made \ {s}
  BY <1>4, <1>5
<1> HIDE DEF q
<1>8. \A u, v \in Workers :
         \A i \in 1..Len(outbuf'[u]), j \in 1..Len(outbuf'[v]) :
            outbuf'[u][i].seq = outbuf'[v][j].seq => u = v /\ i = j
  BY <1>6
<1> QED  BY <1>2, <1>3, <1>7, <1>8 DEF q

\* The feeder sends a batch to the result queue, or drops it.
LEMMA FeederPlaces ==
    ASSUME IInv, PlaceInv, NEW w \in Workers, FeederSend(w) \/ FeederDrop(w)
    PROVE  PlaceInv'
<1> DEFINE r == Head(outbuf[w])
<1>1. /\ outbuf[w] # <<>> /\ outbuf \in [Workers -> Seq(Results)]
      /\ outbuf' = [outbuf EXCEPT ![w] = Tail(outbuf[w])]
  BY DEF FeederSend, FeederDrop, IInv, TypeOK
<1>2. /\ r \in Results /\ r.seq \in Made /\ Made' = Made \ {r.seq}
      /\ \A u, v \in Workers :
            \A i \in 1..Len(outbuf'[u]), j \in 1..Len(outbuf'[v]) :
               outbuf'[u][i].seq = outbuf'[v][j].seq => u = v /\ i = j
  BY <1>1, FeederTakes
<1>3. /\ Numbered' = Numbered /\ Asked' = Asked /\ Working' = Working
      /\ Kept' = Kept /\ Answered' = Answered
      /\ submitSeq' = submitSeq /\ Lossy' = Lossy
      /\ UNCHANGED <<requestQ, wpc, wjob, pending, started, closing>>
  BY DEF FeederSend, FeederDrop, Numbered, Asked, Working, Kept, Answered,
         Lossy
<1>4. CASE FeederSend(w)
  <2>1. /\ resultQ \in Seq(Results) /\ resultQ' = Append(resultQ, r)
        /\ Len(resultQ) \in Nat
    BY <1>4 DEF FeederSend, IInv, TypeOK
  <2>2. /\ Len(resultQ') = Len(resultQ) + 1
        /\ \A i \in 1..Len(resultQ) : resultQ'[i] = resultQ[i]
        /\ resultQ'[Len(resultQ) + 1] = r
    BY <1>2, <2>1, AppendProps
  <2>3. Sent' = Sent \cup {r.seq} /\ r.seq \in Seqs
    BY <1>2, <2>1, <2>2 DEF Sent, Made
  <2>4. OnePlace'
    BY <1>2, <1>3, <2>3 DEF OnePlace, Disjoint, PlaceInv
  <2>5. NoneMissing'
    BY <1>2, <1>3, <2>3 DEF PlaceInv, NoneMissing
  <2>6. r.seq \notin Sent
    BY <1>2 DEF PlaceInv, OnePlace, Disjoint
  <2>7. ASSUME NEW i \in 1..Len(resultQ'), NEW j \in 1..Len(resultQ'),
               resultQ'[i].seq = resultQ'[j].seq
        PROVE  i = j
    <3>1. \A k \in 1..Len(resultQ) : resultQ[k].seq # r.seq
      BY <2>3, <2>6 DEF Sent
    <3> QED  BY <2>1, <2>2, <2>7, <3>1 DEF PlaceInv, OneCopy
  <2>8. OneCopy'
    BY <1>2, <1>3, <2>7 DEF PlaceInv, OneCopy
  <2> QED  BY <1>3, <2>4, <2>5, <2>8 DEF PlaceInv, StartsFresh
<1>5. CASE FeederDrop(w)
  <2>1. resultQ' = resultQ /\ Sent' = Sent /\ Lossy'
    BY <1>5 DEF FeederDrop, Sent, Lossy
  <2>2. OnePlace' /\ NoneMissing'
    BY <1>2, <1>3, <2>1, LosingStep DEF PlaceInv
  <2>3. OneCopy'
    BY <1>2, <1>3, <2>1 DEF PlaceInv, OneCopy
  <2> QED  BY <1>3, <2>2, <2>3 DEF PlaceInv, StartsFresh
<1> QED  BY <1>4, <1>5

\* Workers that open, end, crash or are terminated: nothing is moved, and
\* what a process that dies was holding is lost.
LEMMA LifePlaces ==
    ASSUME IInv, PlaceInv,
           \/ Start \/ CloseJoin
           \/ \E w \in Workers : WorkerOpen(w) \/ WorkerExit(w) \/ WorkerCrash(w)
    PROVE  PlaceInv'
<1>1. /\ wpc \in [Workers -> LiveStates \cup GoneStates]
      /\ wjob' = wjob /\ outbuf \in [Workers -> Seq(Results)]
  BY DEF IInv, TypeOK, Start, CloseJoin, WorkerOpen, WorkerExit, WorkerCrash
<1>2. /\ Numbered' = Numbered /\ Asked' = Asked /\ Sent' = Sent /\ Kept' = Kept
      /\ submitSeq' = submitSeq
      /\ UNCHANGED <<requestQ, resultQ, pending, closing>>
  BY DEF Start, CloseJoin, WorkerOpen, WorkerExit, WorkerCrash, Numbered, Asked,
         Sent, Kept
<1>3. /\ Answered' = Answered
      /\ Lossy => Lossy'
  BY DEF Start, CloseJoin, WorkerOpen, WorkerExit, WorkerCrash, Answered, Lossy
<1>4. \A v \in Workers : wpc'[v] = "busy" => wpc[v] = "busy"
  BY <1>1 DEF Start, CloseJoin, WorkerOpen, WorkerExit, WorkerCrash
<1>5. \A v \in Workers : outbuf'[v] = outbuf[v] \/ outbuf'[v] = <<>>
  BY <1>1 DEF Start, CloseJoin, WorkerOpen, WorkerExit, WorkerCrash
<1>6. Working' \subseteq Working
  BY <1>1, <1>4 DEF Working
<1>7. Made' \subseteq Made
  BY <1>5 DEF Made
<1>8. OneCopy'
  <2>1. \A u, v \in Workers :
           wpc'[u] = "busy" /\ wpc'[v] = "busy" /\ wjob'[u] = wjob'[v] => u = v
    BY <1>1, <1>4 DEF PlaceInv, OneCopy
  <2>2. ASSUME NEW u \in Workers, NEW v \in Workers,
               NEW i \in 1..Len(outbuf'[u]), NEW j \in 1..Len(outbuf'[v]),
               outbuf'[u][i].seq = outbuf'[v][j].seq
        PROVE  u = v /\ i = j
    <3>1. outbuf'[u] = outbuf[u] /\ outbuf'[v] = outbuf[v]
      BY <1>5
    <3> QED  BY <2>2, <3>1 DEF PlaceInv, OneCopy
  <2> QED  BY <1>2, <2>1, <2>2 DEF PlaceInv, OneCopy
<1>9. CASE CloseJoin \/ \E w \in Workers : WorkerCrash(w)
  <2>1. Lossy'
    BY <1>9 DEF CloseJoin, WorkerCrash, Lossy, IInv, CrashInv
  <2>2. OnePlace' /\ NoneMissing'
    BY <1>2, <1>3, <1>6, <1>7, <2>1, LosingStep DEF PlaceInv
  <2>3. CASE CloseJoin
    BY <1>2, <1>8, <2>2, <2>3 DEF CloseJoin, IInv, CrashInv, PlaceInv,
                                  StartsFresh
  <2>4. ASSUME NEW w \in Workers, WorkerCrash(w) PROVE PlaceInv'
    <3>1. wpc[w] # "new" /\ started' = started
      BY <2>4 DEF WorkerCrash, LiveStates
    <3> QED  BY <1>2, <1>8, <2>2, <3>1 DEF PlaceInv, StartsFresh
  <2> QED  BY <1>9, <2>3, <2>4
<1>10. CASE Start /\ closing
  <2>1. OnePlace' /\ NoneMissing'
    BY <1>2, <1>3, <1>6, <1>7, <1>10, LosingStep DEF PlaceInv, Lossy
  <2> QED  BY <1>2, <1>8, <1>10, <2>1 DEF PlaceInv, StartsFresh
<1>11. CASE Start /\ ~closing
  <2>1. \A w \in Workers : wpc[w] # "busy"
    BY <1>11 DEF Start, PlaceInv, StartsFresh
  <2>2. Working' = Working
    BY <1>6, <2>1 DEF Working
  <2>3. Made' = Made
    BY <1>11 DEF Start, Made
  <2>4. OnePlace' /\ NoneMissing'
    BY <1>2, <1>3, <2>2, <2>3, NothingMoves DEF PlaceInv
  <2> QED  BY <1>8, <1>11, <2>4 DEF PlaceInv, StartsFresh, Start
<1>12. ASSUME NEW w \in Workers, WorkerOpen(w) \/ WorkerExit(w)
       PROVE  PlaceInv'
  <2>1. \A v \in Workers : wpc[v] = "busy" => wpc'[v] = "busy"
    BY <1>1, <1>12 DEF WorkerOpen, WorkerExit
  <2>2. Working' = Working
    BY <1>1, <1>6, <2>1 DEF Working
  <2>3. Made' = Made
    BY <1>12 DEF WorkerOpen, WorkerExit, Made
  <2>4. OnePlace' /\ NoneMissing'
    BY <1>2, <1>3, <2>2, <2>3, NothingMoves DEF PlaceInv
  <2>5. StartsFresh'
    BY <1>1, <1>12 DEF PlaceInv, StartsFresh, WorkerOpen, WorkerExit
  <2> QED  BY <1>8, <2>4, <2>5 DEF PlaceInv
<1> QED  BY <1>9, <1>10, <1>11, <1>12

\* close() puts the poison pills on the request queue: no request.
LEMMA PoisonPlaces ==
    ASSUME IInv, PlaceInv, ClosePoison
    PROVE  PlaceInv'
<1>1. /\ requestQ \in Seq(Seqs \cup {Poison}) /\ Len(requestQ) \in Nat
      /\ requestQ' = Append(requestQ, Poison) /\ closing
      /\ Poison \in Seqs \cup {Poison} /\ Poison \notin Seqs
  BY DEF ClosePoison, IInv, TypeOK, CrashInv, Poison, Seqs
<1>2. /\ Len(requestQ') = Len(requestQ) + 1
      /\ \A i \in 1..Len(requestQ) : requestQ'[i] = requestQ[i]
      /\ requestQ'[Len(requestQ) + 1] = Poison
  BY <1>1, AppendProps
<1>3. Asked' = Asked
  BY <1>1, <1>2 DEF Asked
<1>4. /\ Numbered' = Numbered /\ Working' = Working /\ Made' = Made
      /\ Sent' = Sent /\ Kept' = Kept /\ Answered' = Answered
      /\ submitSeq' = submitSeq /\ Lossy' = Lossy
      /\ UNCHANGED <<workerVars, resultQ, pending, started, closing>>
  BY DEF ClosePoison, Numbered, Working, Made, Sent, Kept, Answered, Lossy
<1>5. OnePlace' /\ NoneMissing'
  BY <1>3, <1>4, NothingMoves DEF PlaceInv
<1>6. \A i, j \in 1..Len(requestQ') :
         requestQ'[i] = requestQ'[j] => i = j \/ requestQ'[i] = Poison
  BY <1>1, <1>2 DEF PlaceInv, OneCopy
<1>7. OneCopy'
  BY <1>4, <1>6 DEF PlaceInv, OneCopy
<1> QED  BY <1>1, <1>4, <1>5, <1>7 DEF PlaceInv, StartsFresh

\* The steps of the callers, of the upload thread and of the feeders
\* that move nothing.
LEMMA StillPlaces ==
    ASSUME IInv, PlaceInv,
           \/ SubmitCall \/ SubmitAcquire \/ GetCall \/ GetRelease
           \/ CloseCall \/ CloseReturn \/ UploadLoop \/ UploadEmpty
           \/ UploadCheck \/ SurfaceLoop \/ DrainReturn
           \/ \E w \in Workers : FeederBegin(w)
    PROVE  PlaceInv'
<1>1. /\ Asked' = Asked /\ Working' = Working /\ Made' = Made /\ Sent' = Sent
      /\ Kept' = Kept /\ submitSeq' = submitSeq
      /\ UNCHANGED <<requestQ, wpc, wjob, outbuf, resultQ, pending, hold,
                     ready, delivered>>
  BY DEF SubmitCall, SubmitAcquire, GetCall, GetRelease, CloseCall, CloseReturn,
         UploadLoop, UploadEmpty, UploadCheck, SurfaceLoop, DrainReturn, FeederBegin,
         Asked, Working, Made, Sent, Kept
<1>2. Numbered' = Numbered
  BY DEF SubmitCall, SubmitAcquire, GetCall, GetRelease, CloseCall, CloseReturn,
         UploadLoop, UploadEmpty, UploadCheck, SurfaceLoop, DrainReturn, FeederBegin,
         Numbered
<1>3. upc' \in {"upload", "put"} <=> upc \in {"upload", "put"}
  BY DEF SubmitCall, SubmitAcquire, GetCall, GetRelease, CloseCall, CloseReturn,
         UploadLoop, UploadEmpty, UploadCheck, SurfaceLoop, DrainReturn, FeederBegin,
         IInv, TypeOK
<1>4. Answered' = Answered
  BY <1>1, <1>3 DEF Answered
<1>5. Lossy => Lossy'
  BY DEF SubmitCall, SubmitAcquire, GetCall, GetRelease, CloseCall, CloseReturn,
         UploadLoop, UploadEmpty, UploadCheck, SurfaceLoop, DrainReturn, FeederBegin,
         Lossy
<1>6. OnePlace' /\ NoneMissing'
  BY <1>1, <1>2, <1>4, <1>5, NothingMoves DEF PlaceInv
<1>7. OneCopy'
  BY <1>1 DEF PlaceInv, OneCopy
<1>8. StartsFresh'
  BY DEF SubmitCall, SubmitAcquire, GetCall, GetRelease, CloseCall, CloseReturn,
         UploadLoop, UploadEmpty, UploadCheck, SurfaceLoop, DrainReturn, FeederBegin,
         PlaceInv, StartsFresh, IInv, CrashInv
<1> QED  BY <1>6, <1>7, <1>8 DEF PlaceInv

\* The upload thread moves a result from the result queue to _pending.
LEMMA ReceivePlaces ==
    ASSUME IInv, PlaceInv, UploadReceive
    PROVE  PlaceInv'
<1> DEFINE r == Head(resultQ)
<1>1. /\ resultQ \in Seq(Results) /\ resultQ # <<>> /\ resultQ' = Tail(resultQ)
      /\ pending' = {p \in pending : p.seq # r.seq} \cup {r}
      /\ pending \subseteq Results /\ Len(resultQ) \in Nat
      /\ upc \notin {"upload", "put"} /\ upc' \notin {"upload", "put", "dead"}
      /\ upc # "dead"
  BY DEF UploadReceive, IInv, TypeOK
<1>2. /\ r \in Results /\ r = resultQ[1] /\ 1 \in 1..Len(resultQ)
      /\ Len(Tail(resultQ)) = Len(resultQ) - 1
      /\ \A i \in 1..Len(Tail(resultQ)) : /\ Tail(resultQ)[i] = resultQ[i + 1]
                                          /\ i + 1 \in 1..Len(resultQ)
      /\ \A i \in 1..Len(resultQ) :
            i = 1 \/ (i - 1 \in 1..Len(Tail(resultQ))
                      /\ Tail(resultQ)[i - 1] = resultQ[i])
  BY <1>1, TailProps, TailPositions
<1>3. /\ Numbered' = Numbered /\ Asked' = Asked /\ Working' = Working
      /\ Made' = Made /\ submitSeq' = submitSeq
      /\ UNCHANGED <<requestQ, workerVars, started, closing>>
  BY DEF UploadReceive, Numbered, Asked, Working, Made
<1>4. Answered' = Answered /\ Lossy' = Lossy
  BY <1>1 DEF UploadReceive, Answered, Lossy
<1>5. Sent' = Sent \ {r.seq} /\ r.seq \in Sent
  <2>1. r.seq \in Sent
    BY <1>2 DEF Sent, Results
  <2>2. ASSUME NEW t \in Sent' PROVE t \in Sent /\ t # r.seq
    <3>1. PICK i \in 1..Len(Tail(resultQ)) : Tail(resultQ)[i].seq = t
      BY <1>1, <2>2 DEF Sent
    <3>2. resultQ[i + 1].seq = t /\ i + 1 \in 1..Len(resultQ) /\ i + 1 # 1
      BY <1>2, <3>1
    <3> QED  BY <1>2, <2>2, <3>2 DEF Sent, PlaceInv, OneCopy
  <2>3. ASSUME NEW t \in Sent, t # r.seq PROVE t \in Sent'
    <3>1. PICK i \in 1..Len(resultQ) : resultQ[i].seq = t
      BY <2>3 DEF Sent
    <3>2. i - 1 \in 1..Len(Tail(resultQ)) /\ Tail(resultQ)[i - 1].seq = t
      BY <1>2, <2>3, <3>1
    <3> QED  BY <1>1, <2>3, <3>2 DEF Sent
  <2> QED  BY <2>1, <2>2, <2>3
<1>6. Kept' = Kept \cup {r.seq}
  BY <1>1, <1>2 DEF Kept, Results
<1>7. OnePlace'
  BY <1>3, <1>4, <1>5, <1>6 DEF OnePlace, Disjoint, PlaceInv
<1>8. NoneMissing'
  BY <1>3, <1>4, <1>5, <1>6 DEF PlaceInv, NoneMissing
<1>9. \A i, j \in 1..Len(resultQ') : resultQ'[i].seq = resultQ'[j].seq => i = j
  BY <1>1, <1>2 DEF PlaceInv, OneCopy
<1>10. \A p, q \in pending' : p.seq = q.seq => p = q
  BY <1>1 DEF PlaceInv, OneCopy
<1>11. OneCopy'
  BY <1>3, <1>9, <1>10 DEF PlaceInv, OneCopy
<1> QED  BY <1>3, <1>7, <1>8, <1>11 DEF PlaceInv, StartsFresh

\* The upload thread pops the next batch off _pending, or gives it up.
LEMMA DrainPlaces ==
    ASSUME IInv, PlaceInv, DrainPop \/ SurfaceHead
    PROVE  PlaceInv'
<1>1. /\ Numbered' = Numbered /\ Asked' = Asked /\ Working' = Working
      /\ Made' = Made /\ Sent' = Sent /\ submitSeq' = submitSeq
      /\ UNCHANGED <<requestQ, workerVars, resultQ, started, closing, ready,
                     delivered>>
  BY DEF DrainPop, SurfaceHead, Numbered, Asked, Working, Made, Sent
<1>2. Lossy' = Lossy
  BY DEF DrainPop, SurfaceHead, Lossy, IInv, TypeOK
<1>3. CASE DrainPop
  <2>1. PICK p \in pending : /\ p.seq = nextUpload /\ pending' = pending \ {p}
                             /\ hold' = p /\ upc' \in {"put", "upload"}
    BY <1>3 DEF DrainPop
  <2>2. p \in Results /\ p.seq \in Seqs /\ p.kind # "died"
    BY <2>1 DEF IInv, TypeOK, Results
  <2>3. Kept' = Kept \ {p.seq} /\ p.seq \in Kept
    BY <2>1, <2>2 DEF Kept, PlaceInv, OneCopy
  <2>4. upc \notin {"upload", "put"}
    BY <1>3 DEF DrainPop
  <2>5. Answered' = Answered \cup {p.seq}
    BY <1>1, <2>1, <2>2, <2>4 DEF Answered
  <2>6. OnePlace'
    BY <1>1, <2>3, <2>5 DEF OnePlace, Disjoint, PlaceInv
  <2>7. NoneMissing'
    BY <1>1, <1>2, <2>3, <2>5 DEF PlaceInv, NoneMissing
  <2>8. OneCopy'
    BY <1>1, <2>1 DEF PlaceInv, OneCopy
  <2> QED  BY <1>1, <2>6, <2>7, <2>8 DEF PlaceInv, StartsFresh
<1>4. CASE SurfaceHead
  <2>1. /\ upc \notin {"upload", "put"} /\ pending' = pending
        /\ upc' \in {"upload", "put"} => hold'.kind = "died"
    BY <1>4 DEF SurfaceHead
  <2>2. Kept' = Kept
    BY <2>1 DEF Kept
  <2>3. Answered' = Answered
    BY <1>1, <2>1 DEF Answered
  <2>4. OnePlace' /\ NoneMissing'
    BY <1>1, <1>2, <2>2, <2>3, NothingMoves DEF PlaceInv
  <2>5. OneCopy'
    BY <1>1, <2>1 DEF PlaceInv, OneCopy
  <2> QED  BY <1>1, <2>4, <2>5 DEF PlaceInv, StartsFresh
<1> QED  BY <1>3, <1>4

\* Past _pending an answer only moves on, or is lost with the upload thread.
LEMMA AnswerPlaces ==
    ASSUME IInv, PlaceInv, UploadOne \/ ReadyPut \/ GetPop
    PROVE  PlaceInv'
<1>1. /\ Numbered' = Numbered /\ Asked' = Asked /\ Working' = Working
      /\ Made' = Made /\ Sent' = Sent /\ Kept' = Kept
      /\ submitSeq' = submitSeq
      /\ UNCHANGED <<requestQ, workerVars, resultQ, pending, started, closing>>
  BY DEF UploadOne, ReadyPut, GetPop, Numbered, Asked, Working, Made, Sent, Kept
<1>2. /\ ready \in Seq(Items) /\ delivered \in Seq(Items)
      /\ Len(ready) \in Nat /\ Len(delivered) \in Nat
  BY DEF IInv, TypeOK
<1>3. Lossy => Lossy'
  BY DEF UploadOne, ReadyPut, GetPop, Lossy
<1>4. OneCopy' /\ StartsFresh'
  BY <1>1 DEF PlaceInv, OneCopy, StartsFresh
<1>5. CASE UploadOne
  <2>1. upc = "upload" /\ upc' \in {"put", "dead"}
        /\ UNCHANGED <<hold, ready, delivered>>
    BY <1>5 DEF UploadOne
  <2>2. CASE upc' = "put"
    <3>1. Answered' = Answered
      BY <2>1, <2>2 DEF Answered
    <3> QED  BY <1>1, <1>3, <1>4, <3>1, NothingMoves DEF PlaceInv
  <2>3. CASE upc' = "dead"
    <3>1. Answered' \subseteq Answered /\ Lossy'
      BY <2>1, <2>3 DEF Answered, Lossy
    <3> QED  BY <1>1, <1>4, <3>1, LosingStep DEF PlaceInv
  <2> QED  BY <2>1, <2>2, <2>3
<1>6. CASE ReadyPut
  <2>1. /\ upc = "put" /\ upc' \notin {"upload", "put"}
        /\ ready' = Append(ready, hold) /\ hold \in Items
        /\ delivered' = delivered
    BY <1>6 DEF ReadyPut, IInv, FlowInv
  <2>2. /\ Len(ready') = Len(ready) + 1
        /\ \A i \in 1..Len(ready) : ready'[i] = ready[i]
        /\ ready'[Len(ready) + 1] = hold
    BY <1>2, <2>1, AppendProps
  <2>3. ASSUME NEW s \in Seqs
        PROVE  (\E i \in 1..Len(ready') : ready'[i].seq = s /\ ready'[i].kind # "died")
                <=> \/ hold.seq = s /\ hold.kind # "died"
                    \/ \E i \in 1..Len(ready) :
                          ready[i].seq = s /\ ready[i].kind # "died"
    BY <1>2, <2>2
  <2>4. Answered' = Answered
    BY <2>1, <2>3 DEF Answered
  <2> QED  BY <1>1, <1>3, <1>4, <2>4, NothingMoves DEF PlaceInv
<1>7. CASE GetPop
  <2>1. /\ ready # <<>> /\ ready' = Tail(ready) /\ Head(ready) \in Items
        /\ delivered' = Append(delivered, Head(ready))
        /\ UNCHANGED <<upc, hold>>
    BY <1>2, <1>7, TailProps DEF GetPop
  <2>2. /\ Len(delivered') = Len(delivered) + 1
        /\ \A i \in 1..Len(delivered) : delivered'[i] = delivered[i]
        /\ delivered'[Len(delivered) + 1] = Head(ready)
    BY <1>2, <2>1, AppendProps
  <2>3. /\ Head(ready) = ready[1] /\ 1 \in 1..Len(ready)
        /\ \A i \in 1..Len(ready') : /\ ready'[i] = ready[i + 1]
                                     /\ i + 1 \in 1..Len(ready)
        /\ \A i \in 1..Len(ready) :
              i = 1 \/ (i - 1 \in 1..Len(ready') /\ ready'[i - 1] = ready[i])
    BY <1>2, <2>1, TailProps, TailPositions
  <2>4. ASSUME NEW s \in Seqs
        PROVE  (\E i \in 1..Len(delivered') :
                   delivered'[i].seq = s /\ delivered'[i].kind # "died")
                <=> \/ Head(ready).seq = s /\ Head(ready).kind # "died"
                    \/ \E i \in 1..Len(delivered) :
                          delivered[i].seq = s /\ delivered[i].kind # "died"
    BY <1>2, <2>2
  <2>5. ASSUME NEW s \in Seqs
        PROVE  (\E i \in 1..Len(ready) : ready[i].seq = s /\ ready[i].kind # "died")
                <=> \/ Head(ready).seq = s /\ Head(ready).kind # "died"
                    \/ \E i \in 1..Len(ready') :
                          ready'[i].seq = s /\ ready'[i].kind # "died"
    <3>1. ASSUME NEW i \in 1..Len(ready), ready[i].seq = s, ready[i].kind # "died",
                 i # 1
          PROVE  \E k \in 1..Len(ready') :
                    ready'[k].seq = s /\ ready'[k].kind # "died"
      <4>1. i - 1 \in 1..Len(ready') /\ ready'[i - 1] = ready[i]
        BY <2>3, <3>1
      <4> QED  BY <3>1, <4>1
    <3>2. ASSUME NEW i \in 1..Len(ready'), ready'[i].seq = s,
                 ready'[i].kind # "died"
          PROVE  \E k \in 1..Len(ready) :
                    ready[k].seq = s /\ ready[k].kind # "died"
      <4>1. i + 1 \in 1..Len(ready) /\ ready[i + 1] = ready'[i]
        BY <2>3
      <4> QED  BY <3>2, <4>1
    <3> QED  BY <2>3, <3>1, <3>2
  <2>6. Answered' = Answered
    BY <2>1, <2>4, <2>5 DEF Answered
  <2> QED  BY <1>1, <1>3, <1>4, <2>6, NothingMoves DEF PlaceInv
<1> QED  BY <1>5, <1>6, <1>7

\* Every step keeps what is known of the places.
LEMMA PlaceStep == IInv /\ PlaceInv /\ [Next]_vars => PlaceInv'
<1> SUFFICES ASSUME IInv, PlaceInv, [Next]_vars PROVE PlaceInv'  OBVIOUS
<1>1. ASSUME NEW w \in Workers, WorkerSteps(w) \/ WorkerCrash(w) PROVE PlaceInv'
  BY <1>1, TakePlaces, ProducePlaces, FeederPlaces, LifePlaces, StillPlaces
     DEF WorkerSteps
<1>2. CASE Start \/ SubmitCall \/ SubmitSteps \/ GetSteps \/ CloseCall
             \/ CloseSteps
  BY <1>2, SubmitPlaces, LifePlaces, PoisonPlaces, StillPlaces, AnswerPlaces
     DEF SubmitSteps, GetSteps, CloseSteps
<1>3. CASE UploadSteps
  BY <1>3, StillPlaces, ReceivePlaces, DrainPlaces, AnswerPlaces DEF UploadSteps
<1>4. CASE UNCHANGED vars
  <2>1. OnePlace' /\ NoneMissing'
    <3>1. Numbered' = Numbered /\ Asked' = Asked /\ Working' = Working
      BY <1>4 DEF vars, Numbered, Asked, Working
    <3>2. Made' = Made /\ Sent' = Sent /\ Kept' = Kept
      BY <1>4 DEF vars, Made, Sent, Kept
    <3>3. Answered' = Answered
      BY <1>4 DEF vars, Answered
    <3>4. submitSeq' = submitSeq /\ (Lossy => Lossy')
      BY <1>4 DEF vars, Lossy
    <3> QED  BY <3>1, <3>2, <3>3, <3>4, NothingMoves DEF PlaceInv
  <2> QED  BY <1>4, <2>1 DEF vars, PlaceInv, OneCopy, StartsFresh
<1> QED  BY <1>1, <1>2, <1>3, <1>4 DEF Next

\* A set with no two elements has none or one.
LEMMA CountOne ==
    ASSUME NEW S, \A x, y \in S : x = y
    PROVE  Count(S) = IF S = {} THEN 0 ELSE 1
<1>1. CASE S = {}
  BY <1>1, FS_EmptySet DEF Count
<1>2. CASE S # {}
  <2>1. PICK x \in S : TRUE
    BY <1>2
  <2>2. S = {x}
    BY <2>1
  <2> QED  BY <1>2, <2>2, FS_Singleton DEF Count
<1> QED  BY <1>1, <1>2

\* The answers: the upload thread, the ready queue and get() hold disjoint
\* ranges of numbers, so a request is counted once among them.
LEMMA CountAnswered ==
    ASSUME IInv, NEW s \in Seqs
    PROVE  /\ (IF upc \in {"upload", "put"} THEN At(<<hold>>, s) ELSE 0) \in Nat
           /\ At(ready, s) \in Nat /\ At(delivered, s) \in Nat
           /\ (IF upc \in {"upload", "put"} THEN At(<<hold>>, s) ELSE 0)
                + At(ready, s) + At(delivered, s)
              = IF s \in Answered THEN 1 ELSE 0
<1> DEFINE H == upc \in {"upload", "put"} /\ hold.seq = s /\ hold.kind # "died"
           R == \E i \in 1..Len(ready) : ready[i].seq = s /\ ready[i].kind # "died"
           D == \E i \in 1..Len(delivered) :
                   delivered[i].seq = s /\ delivered[i].kind # "died"
<1>1. /\ ready \in Seq(Items) /\ delivered \in Seq(Items) /\ s \in Int
      /\ Len(ready) \in Nat /\ Len(delivered) \in Nat /\ nextUpload \in Int
      /\ DOMAIN ready = 1..Len(ready) /\ DOMAIN delivered = 1..Len(delivered)
  BY PrefetcherAssumption DEF IInv, TypeOK, Seqs
<1>2. (IF upc \in {"upload", "put"} THEN At(<<hold>>, s) ELSE 0)
        = IF H THEN 1 ELSE 0
  <2> DEFINE S == {i \in DOMAIN <<hold>> :
                     <<hold>>[i].seq = s /\ <<hold>>[i].kind # "died"}
  <2>1. S = IF hold.seq = s /\ hold.kind # "died" THEN {1} ELSE {}
    OBVIOUS
  <2>2. Count(S) = IF S = {} THEN 0 ELSE 1
    BY <2>1, CountOne
  <2>3. At(<<hold>>, s) = Count(S)
    BY DEF At
  <2> QED  BY <2>1, <2>2, <2>3
<1>3. At(ready, s) = IF R THEN 1 ELSE 0
  <2> DEFINE S == {i \in DOMAIN ready : ready[i].seq = s /\ ready[i].kind # "died"}
  <2>1. \A x, y \in S : x = y
    BY <1>1 DEF IInv, FlowInv
  <2>2. Count(S) = IF S = {} THEN 0 ELSE 1
    BY <2>1, CountOne
  <2>3. S = {} <=> ~R
    BY <1>1
  <2> QED  BY <2>2, <2>3 DEF At
<1>4. At(delivered, s) = IF D THEN 1 ELSE 0
  <2> DEFINE S == {i \in DOMAIN delivered :
                     delivered[i].seq = s /\ delivered[i].kind # "died"}
  <2>1. \A x, y \in S : x = y
    BY <1>1 DEF IInv, FifoOnce
  <2>2. Count(S) = IF S = {} THEN 0 ELSE 1
    BY <2>1, CountOne
  <2>3. S = {} <=> ~D
    BY <1>1
  <2> QED  BY <2>2, <2>3 DEF At
<1>5. /\ D => s < Len(delivered)
      /\ R => Len(delivered) <= s /\ s < Len(delivered) + Len(ready)
      /\ H => s = Len(delivered) + Len(ready)
  <2>1. D => s < Len(delivered)
    BY <1>1 DEF IInv, FifoOnce
  <2>2. R => Len(delivered) <= s /\ s < Len(delivered) + Len(ready)
    BY <1>1 DEF IInv, FlowInv
  <2>3. H => s = Len(delivered) + Len(ready)
    BY <1>1 DEF IInv, FlowInv
  <2> QED  BY <2>1, <2>2, <2>3
<1>6. s \in Answered <=> H \/ R \/ D
  BY DEF Answered
<1> QED  BY <1>1, <1>2, <1>3, <1>4, <1>5, <1>6

\* Copies counts the places that hold the request.
LEMMA CopiesAre ==
    ASSUME IInv, PlaceInv, NEW s \in Seqs
    PROVE  Copies(s) = IF s \in Asked \cup Working \cup Made \cup Sent \cup Kept
                                  \cup Answered
                         THEN 1 ELSE 0
<1>1. /\ DOMAIN requestQ = 1..Len(requestQ) /\ DOMAIN resultQ = 1..Len(resultQ)
      /\ \A w \in Workers : DOMAIN outbuf[w] = 1..Len(outbuf[w])
      /\ s # Poison /\ resultQ \in Seq(Results) /\ pending \subseteq Results
  BY DEF IInv, TypeOK, Seqs, Poison
<1>2. Count({i \in DOMAIN requestQ : requestQ[i] = s})
        = IF s \in Asked THEN 1 ELSE 0
  <2> DEFINE S == {i \in DOMAIN requestQ : requestQ[i] = s}
  <2>1. \A x, y \in S : x = y
    BY <1>1 DEF PlaceInv, OneCopy
  <2>2. S = {} <=> s \notin Asked
    BY <1>1 DEF Asked
  <2> QED  BY <2>1, <2>2, CountOne
<1>3. Count({w \in Workers : wpc[w] = "busy" /\ wjob[w] = s})
        = IF s \in Working THEN 1 ELSE 0
  <2> DEFINE S == {w \in Workers : wpc[w] = "busy" /\ wjob[w] = s}
  <2>1. \A x, y \in S : x = y
    BY DEF PlaceInv, OneCopy
  <2>2. S = {} <=> s \notin Working
    BY DEF Working
  <2> QED  BY <2>1, <2>2, CountOne
<1>4. Count({wi \in UNION {{w} \X DOMAIN outbuf[w] : w \in Workers} :
                outbuf[wi[1]][wi[2]].seq = s})
        = IF s \in Made THEN 1 ELSE 0
  <2> DEFINE U == UNION {{w} \X DOMAIN outbuf[w] : w \in Workers}
             S == {wi \in U : outbuf[wi[1]][wi[2]].seq = s}
  <2>1. \A x \in U : /\ x = <<x[1], x[2]>> /\ x[1] \in Workers
                     /\ x[2] \in 1..Len(outbuf[x[1]])
    BY <1>1
  <2>2. \A w \in Workers : \A i \in 1..Len(outbuf[w]) : <<w, i>> \in U
    BY <1>1
  <2>3. ASSUME NEW x \in S, NEW y \in S PROVE x = y
    <3>1. x[1] = y[1] /\ x[2] = y[2]
      BY <2>1 DEF PlaceInv, OneCopy
    <3> QED  BY <2>1, <3>1
  <2>4. ASSUME s \in Made PROVE S # {}
    <3>1. PICK w \in Workers : \E i \in 1..Len(outbuf[w]) : outbuf[w][i].seq = s
      BY <2>4 DEF Made
    <3>2. PICK i \in 1..Len(outbuf[w]) : outbuf[w][i].seq = s
      BY <3>1
    <3>3. <<w, i>> \in S
      BY <2>2, <3>2
    <3> QED  BY <3>3
  <2>5. ASSUME NEW x \in S PROVE s \in Made
    BY <2>1 DEF Made
  <2>6. Count(S) = IF S = {} THEN 0 ELSE 1
    BY <2>3, CountOne
  <2> QED  BY <2>4, <2>5, <2>6
<1>5. At(resultQ, s) = IF s \in Sent THEN 1 ELSE 0
  <2> DEFINE S == {i \in DOMAIN resultQ :
                     resultQ[i].seq = s /\ resultQ[i].kind # "died"}
  <2>1. \A x, y \in S : x = y
    BY <1>1 DEF PlaceInv, OneCopy
  <2>2. \A i \in 1..Len(resultQ) : resultQ[i].kind # "died"
    <3>1. \A i \in 1..Len(resultQ) : resultQ[i] \in Results
      BY <1>1
    <3> QED  BY <3>1 DEF Results
  <2>3. S = {} <=> s \notin Sent
    BY <1>1, <2>2 DEF Sent
  <2>4. Count(S) = IF S = {} THEN 0 ELSE 1
    BY <2>1, CountOne
  <2> QED  BY <2>3, <2>4 DEF At
<1>6. Count({p \in pending : p.seq = s}) = IF s \in Kept THEN 1 ELSE 0
  <2> DEFINE S == {p \in pending : p.seq = s}
  <2>1. \A x, y \in S : x = y
    BY DEF PlaceInv, OneCopy
  <2>2. S = {} <=> s \notin Kept
    BY DEF Kept
  <2> QED  BY <2>1, <2>2, CountOne
<1>7. /\ s \in Asked => s \notin Working \cup Made \cup Sent \cup Kept \cup Answered
      /\ s \in Working => s \notin Made \cup Sent \cup Kept \cup Answered
      /\ s \in Made => s \notin Sent \cup Kept \cup Answered
      /\ s \in Sent => s \notin Kept \cup Answered
      /\ s \in Kept => s \notin Answered
  BY DEF PlaceInv, OnePlace, Disjoint
<1> DEFINE one(B) == IF B THEN 1 ELSE 0
<1>8. Copies(s) = one(s \in Asked) + one(s \in Working) + one(s \in Made)
                    + one(s \in Sent) + one(s \in Kept)
                    + (IF upc \in {"upload", "put"} THEN At(<<hold>>, s) ELSE 0)
                    + At(ready, s) + At(delivered, s)
  BY <1>2, <1>3, <1>4, <1>5, <1>6 DEF Copies
<1> QED  BY <1>7, <1>8, CountAnswered

\* No request is worked on or served twice, whatever crashes, is dropped,
\* closed or restarted; and without such a loss none is missing.
THEOREM NeitherLostNorDoubled == Spec => []Conservation
<1>1. IInv /\ PlaceInv => Conservation
  <2> SUFFICES ASSUME IInv, PlaceInv, NEW s \in 0..(submitSeq - 1)
               PROVE  /\ Copies(s) <= 1
                      /\ \/ Copies(s) = 1
                         \/ everCrashed \/ closing \/ "drop" \in Faults
                         \/ upc = "dead"
                         \/ spc = "numbered" /\ s = submitSeq - 1
    BY DEF Conservation
  <2>1. s \in Seqs
    BY PrefetcherAssumption DEF IInv, TypeOK, Seqs
  <2>2. Copies(s) = IF s \in Asked \cup Working \cup Made \cup Sent \cup Kept
                                \cup Answered
                      THEN 1 ELSE 0
    BY <2>1, CopiesAre
  <2>3. s \in Numbered => spc = "numbered" /\ s = submitSeq - 1
    BY DEF Numbered
  <2>4. Lossy \/ s \in Numbered \cup Asked \cup Working \cup Made \cup Sent
                        \cup Kept \cup Answered
    BY DEF PlaceInv, NoneMissing
  <2> QED  BY <2>2, <2>3, <2>4 DEF Lossy
<1>2. Spec => []PlaceInv
  BY Inductive, InitPlace, PlaceStep, PTL DEF Spec
<1> QED  BY <1>1, <1>2, Inductive, PTL

==============================================================================
