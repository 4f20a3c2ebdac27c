------------------------- MODULE FullPipelineProofs -------------------------
(***************************************************************************)
(* Proofs about FullPipeline for any binaries and builds, any selections of *)
(* tasks and any number of runs against one output tree.                    *)
(*                                                                          *)
(* The properties speak of the end of a run, of one item or of one memmap;  *)
(* they are inductive together with what each phase of the composite leaves *)
(* to the next: which items have a verdict (FreshInv), what the finished    *)
(* ones wrote (TokenizeInv, UnifyInv, MemmapInv), and, in a container, that *)
(* a file that is there is whole (WholeInv).                                *)
(***************************************************************************)
EXTENDS FullPipeline, TLAPS

MemmapSet(b) == [gen : Gens, whole : BOOLEAN, vocab : Gens,
                 parts : SUBSET [v : {v \in Variants : BinaryOf[v] = b},
                                 csv : File, mapping : Mapping]]
RlenSet == [present : BOOLEAN, whole : BOOLEAN, over : Gens, shape : SUBSET Variants]
SidxSet == [present : BOOLEAN, whole : BOOLEAN, over : Gens, lens : Gens]

\* The types, those of the artefacts in full.
ShapeInv ==
    /\ container \in BOOLEAN /\ run \in Gens
    /\ kind \in Kinds \cup {"full"} /\ skip \in BOOLEAN
    /\ phase \in Phases \cup {"idle", "ended", "killed"}
    /\ task \in [Tasks -> Terminal \cup {"waiting", "running"}]
    /\ csv \in [Variants -> File] /\ vocab \in File
    /\ mapping \in [Variants -> Mapping]
    /\ DOMAIN memmap = Binaries /\ memmap = [b \in Binaries |-> memmap[b]]
    /\ \A b \in Binaries : memmap[b] \in MemmapSet(b)
    /\ rlen \in [Binaries -> RlenSet] /\ sidx \in [Binaries -> SidxSet]

Alive(t) == task[t] \in {"waiting", "running"}

\* The barriers, and the number of a run that has begun.
BarrierInv ==
    /\ \A t \in Tasks : Alive(t) =>
         PhaseOf(t) = phase \/ (kind = "full" /\ phase = "memmap" /\ PhaseOf(t) = "index")
    /\ phase # "idle" => run > 0
    /\ kind = "full" => phase # "index"

\* In a container what is there is whole.
WholeInv ==
    container =>
        /\ \A v \in Variants : csv[v].gen > 0 => csv[v].whole
        /\ vocab.gen > 0 => vocab.whole
        /\ \A b \in Binaries : memmap[b].gen > 0 => memmap[b].whole

\* The current run is the whole pipeline and was not killed.
InFull == kind = "full" /\ phase \in Phases \cup {"ended"}

\* The phases to come have no items yet.
FreshInv ==
    /\ InFull /\ phase = "tokenize" =>
         \A t \in Tasks : PhaseOf(t) # "tokenize" => task[t] = "none"
    /\ InFull /\ phase = "unify_vocab" =>
         \A t \in Tasks : PhaseOf(t) \in {"memmap", "index"} => task[t] = "none"

\* What the tokenize items of this run left.
TokenizeInv ==
    InFull => \A v \in Variants :
        /\ task[Tok(v)] = "done" => csv[v] = [gen |-> run, whole |-> TRUE]
        /\ ~skip => task[Tok(v)] # "none"

\* What the unification of this run left.
UnifyInv ==
    InFull /\ phase # "tokenize" =>
        /\ task[Unify] = "none" => \A v \in Variants : csv[v].gen = 0
        /\ task[Unify] = "done" =>
             /\ vocab = [gen |-> run, whole |-> TRUE]
             /\ \A v \in Variants : csv[v].whole =>
                  mapping[v] = [csv |-> csv[v].gen, vocab |-> run]

\* A binary's chain in the last phase, and what its items left.
ChainInv(b) ==
    /\ Versions(b) # {} => task[Memmap(b)] # "none"
    /\ task[Memmap(b)] # "none" => task[Rlen(b)] # "none" /\ task[Sidx(b)] # "none"
    /\ task[Memmap(b)] = "done" =>
         memmap[b] = [gen |-> run, whole |-> TRUE, vocab |-> vocab.gen, parts |-> PartsOf(b)]
    /\ task[Rlen(b)] \in {"running", "done"} => task[Memmap(b)] \in Terminal
    /\ task[Sidx(b)] \in {"running", "done"} => task[Rlen(b)] \in Terminal
    /\ task[Memmap(b)] = "done" /\ task[Rlen(b)] = "done" =>
         /\ rlen[b].over = run
         /\ task[Sidx(b)] = "done" => sidx[b].over = run /\ sidx[b].lens = run

MemmapInv ==
    InFull /\ phase \in {"memmap", "ended"} => \A b \in Binaries : ChainInv(b)

\* The invariant of the pipeline; it is inductive.
IInv ==
    /\ ShapeInv /\ BarrierInv /\ WholeInv /\ FreshInv
    /\ TokenizeInv /\ UnifyInv /\ MemmapInv

(* -------------------------------- the items ------------------------------- *)

LEMMA ItemFacts ==
    /\ Unify \in Tasks /\ Unify[1] = "unify_vocab" /\ PhaseOf(Unify) = "unify_vocab"
    /\ \A v \in Variants : Tok(v) \in Tasks /\ Tok(v)[1] = "tokenize" /\ Tok(v)[2] = v
                           /\ PhaseOf(Tok(v)) = "tokenize"
    /\ \A b \in Binaries :
         /\ Memmap(b) \in Tasks /\ Memmap(b)[1] = "memmap" /\ Memmap(b)[2] = b
         /\ PhaseOf(Memmap(b)) = "memmap"
         /\ Rlen(b) \in Tasks /\ Rlen(b)[1] = "rlen" /\ Rlen(b)[2] = b
         /\ PhaseOf(Rlen(b)) = "index"
         /\ Sidx(b) \in Tasks /\ Sidx(b)[1] = "sidx" /\ Sidx(b)[2] = b
         /\ PhaseOf(Sidx(b)) = "index"
BY DEF Tasks, Unify, Tok, Memmap, Rlen, Sidx, PhaseOf

LEMMA ItemKinds ==
    ASSUME NEW t \in Tasks
    PROVE  \/ \E v \in Variants : t = Tok(v)
           \/ t = Unify
           \/ \E b \in Binaries : t = Memmap(b) \/ t = Rlen(b) \/ t = Sidx(b)
BY DEF Tasks

\* Items of different kinds, and of different builds or binaries, differ.
LEMMA ItemsDiffer ==
    /\ \A v \in Variants, b \in Binaries :
         Tok(v) \notin {Unify, Memmap(b), Rlen(b), Sidx(b)}
    /\ \A b, c \in Binaries : /\ Unify \notin {Memmap(b), Rlen(b), Sidx(b)}
                              /\ Memmap(b) \notin {Rlen(c), Sidx(c)} /\ Rlen(b) # Sidx(c)
                              /\ (Memmap(b) = Memmap(c) \/ Rlen(b) = Rlen(c) \/ Sidx(b) = Sidx(c))
                                   => b = c
    /\ \A v, u \in Variants : Tok(v) = Tok(u) => v = u
BY ItemFacts

\* An item belongs to one of the phases.
LEMMA ItemPhases == \A t \in Tasks : PhaseOf(t) \in Phases
<1> SUFFICES ASSUME NEW t \in Tasks PROVE PhaseOf(t) \in Phases
  OBVIOUS
<1> QED
  BY ItemKinds, ItemFacts DEF Phases

LEMMA Discovered ==
    /\ \A s : /\ Discover("tokenize", s) = DiscoverTokenize(s)
              /\ Discover("unify_vocab", s) = DiscoverUnify(s)
              /\ Discover("memmap", s) = DiscoverMemmap(s)
              /\ Discover("index", s) = DiscoverIndex(s)
BY DEF Discover

\* A phase discovers items of its own.
LEMMA DiscoverOwn ==
    ASSUME NEW p \in Phases, NEW s, NEW t \in Discover(p, s)
    PROVE  t \in Tasks /\ PhaseOf(t) = p
<1>1. CASE p = "tokenize"
  BY <1>1, Discovered, ItemFacts DEF DiscoverTokenize
<1>2. CASE p = "unify_vocab"
  BY <1>2, Discovered, ItemFacts DEF DiscoverUnify
<1>3. CASE p = "memmap"
  BY <1>3, Discovered, ItemFacts DEF DiscoverMemmap
<1>4. CASE p = "index"
  BY <1>4, Discovered, ItemFacts DEF DiscoverIndex, ItemsForBinary
<1> QED
  BY <1>1, <1>2, <1>3, <1>4 DEF Phases

\* What is discovered for the parts of a memmap.
LEMMA PartsTyped ==
    ASSUME ShapeInv, NEW b \in Binaries
    PROVE  PartsOf(b) \subseteq [v : {v \in Variants : BinaryOf[v] = b}, csv : File,
                                 mapping : Mapping]
BY DEF PartsOf, Versions, ShapeInv

(* ---------------------------- the steps of an item ------------------------ *)

\* The state of one item changes.
LEMMA MoveStep ==
    ASSUME ShapeInv, BarrierInv, FreshInv, NEW t \in Tasks, Alive(t),
           NEW x \in {"running", "done", "failed"},
           task' = [task EXCEPT ![t] = x], UNCHANGED <<run, kind, phase>>
    PROVE  /\ BarrierInv' /\ FreshInv'
           /\ task' \in [Tasks -> Terminal \cup {"waiting", "running"}]
           /\ task'[t] = x /\ \A u \in Tasks : u # t => task'[u] = task[u]
<1>1. /\ task'[t] = x /\ \A u \in Tasks : u # t => task'[u] = task[u]
      /\ task' \in [Tasks -> Terminal \cup {"waiting", "running"}]
  BY DEF ShapeInv, Terminal
<1>2. BarrierInv'
  BY <1>1 DEF BarrierInv, Alive
<1>3. FreshInv'
  BY <1>1 DEF BarrierInv, FreshInv, Alive, InFull
<1> QED
  BY <1>1, <1>2, <1>3

\* Where an item can be alive.
LEMMA AliveWhere ==
    ASSUME BarrierInv
    PROVE  /\ \A v \in Variants : Alive(Tok(v)) => phase = "tokenize"
           /\ Alive(Unify) => phase = "unify_vocab"
           /\ \A b \in Binaries :
                Alive(Memmap(b)) \/ Alive(Rlen(b)) \/ Alive(Sidx(b)) =>
                  phase \notin {"tokenize", "unify_vocab", "ended"}
                  /\ (kind = "full" => phase = "memmap")
BY ItemFacts DEF BarrierInv

\* An attempt that failed leaves the disk as it is.
LEMMA FailStep ==
    ASSUME IInv, NEW t \in Tasks, Fail(t)
    PROVE  IInv'
<1>0. ShapeInv /\ BarrierInv /\ WholeInv /\ FreshInv /\ TokenizeInv /\ UnifyInv /\ MemmapInv
  BY DEF IInv
<1>1. /\ Alive(t) /\ task' = [task EXCEPT ![t] = "failed"]
      /\ UNCHANGED <<container, run, kind, skip, phase, csv, vocab, mapping, memmap, rlen, sidx>>
  BY DEF Fail, Alive
<1>2. /\ BarrierInv' /\ FreshInv' /\ task' \in [Tasks -> Terminal \cup {"waiting", "running"}]
      /\ task'[t] = "failed" /\ \A u \in Tasks : u # t => task'[u] = task[u]
  BY <1>0, <1>1, MoveStep
<1>3. ShapeInv'
  BY <1>0, <1>1, <1>2 DEF ShapeInv
<1>4. WholeInv'
  BY <1>0, <1>1 DEF WholeInv
<1>5. TokenizeInv'
  BY <1>0, <1>1, <1>2, ItemFacts DEF TokenizeInv, InFull
<1>6. UnifyInv'
  BY <1>0, <1>1, <1>2, ItemFacts DEF UnifyInv, InFull
<1>7. MemmapInv'
  <2> SUFFICES ASSUME InFull, phase \in {"memmap", "ended"}, NEW b \in Binaries
               PROVE  ChainInv(b)'
    BY <1>1 DEF MemmapInv, InFull
  <2>1. ChainInv(b)
    BY <1>0 DEF MemmapInv
  <2>2. Versions(b)' = Versions(b) /\ PartsOf(b)' = PartsOf(b)
    BY <1>1 DEF Versions, PartsOf
  <2>3. \A u \in {Memmap(b), Rlen(b), Sidx(b)} :
          task'[u] = task[u] \/ (task'[u] = "failed" /\ task[u] \in {"waiting", "running"})
    BY <1>1, <1>2, ItemFacts DEF Alive
  <2>4. UNCHANGED <<run, vocab, memmap, rlen, sidx>>
    BY <1>1
  <2> QED
    BY <2>1, <2>2, <2>3, <2>4 DEF ChainInv, Terminal
<1> QED
  BY <1>2, <1>3, <1>4, <1>5, <1>6, <1>7 DEF IInv

\* A tokenize item: only its CSV can change, and only in its phase.
LEMMA TokenizeStep ==
    ASSUME IInv, NEW v \in Variants, NEW x \in {"running", "done"}, Alive(Tok(v)),
           task' = [task EXCEPT ![Tok(v)] = x], NEW f \in File,
           csv' = [csv EXCEPT ![v] = f],
           UNCHANGED <<container, run, kind, skip, phase, vocab, mapping, memmap, rlen, sidx>>,
           x = "done" => f = [gen |-> run, whole |-> TRUE],
           container => f.whole \/ f = csv[v]
    PROVE  IInv'
<1>0. ShapeInv /\ BarrierInv /\ WholeInv /\ FreshInv /\ TokenizeInv
  BY DEF IInv
<1>1. Tok(v) \in Tasks /\ phase = "tokenize"
  BY <1>0, ItemFacts, AliveWhere
<1>2. /\ BarrierInv' /\ FreshInv' /\ task' \in [Tasks -> Terminal \cup {"waiting", "running"}]
      /\ task'[Tok(v)] = x /\ \A u \in Tasks : u # Tok(v) => task'[u] = task[u]
  BY <1>0, <1>1, MoveStep
<1>3. ShapeInv'
  BY <1>0, <1>2 DEF ShapeInv
<1>4. csv'[v] = f /\ \A u \in Variants : u # v => csv'[u] = csv[u]
  BY <1>0 DEF ShapeInv
<1>5. WholeInv'
  BY <1>0, <1>4 DEF WholeInv
<1>6. TokenizeInv'
  <2> SUFFICES ASSUME InFull, NEW u \in Variants
               PROVE  /\ task'[Tok(u)] = "done" => csv'[u] = [gen |-> run, whole |-> TRUE]
                      /\ ~skip => task'[Tok(u)] # "none"
    BY DEF TokenizeInv, InFull
  <2>1. CASE u = v
    BY <1>2, <1>4, <2>1
  <2>2. CASE u # v
    <3>1. Tok(u) \in Tasks /\ Tok(u) # Tok(v)
      BY <2>2, ItemFacts, ItemsDiffer
    <3> QED
      BY <1>0, <1>2, <1>4, <2>2, <3>1 DEF TokenizeInv
  <2> QED
    BY <2>1, <2>2
<1>7. UnifyInv' /\ MemmapInv'
  BY <1>1 DEF UnifyInv, MemmapInv
<1> QED
  BY <1>2, <1>3, <1>5, <1>6, <1>7 DEF IInv

\* The unification: the vocabulary and the mappings change, in its phase.
LEMMA UnifyStep ==
    ASSUME IInv, NEW x \in {"running", "done"}, Alive(Unify),
           task' = [task EXCEPT ![Unify] = x],
           vocab' \in File, mapping' \in [Variants -> Mapping],
           UNCHANGED <<container, run, kind, skip, phase, csv, memmap, rlen, sidx>>,
           x = "done" => /\ vocab' = [gen |-> run, whole |-> TRUE]
                         /\ \A v \in Variants : csv[v].whole =>
                              mapping'[v] = [csv |-> csv[v].gen, vocab |-> run],
           container => vocab'.whole \/ vocab' = vocab
    PROVE  IInv'
<1>0. ShapeInv /\ BarrierInv /\ WholeInv /\ FreshInv /\ TokenizeInv /\ UnifyInv
  BY DEF IInv
<1>1. Unify \in Tasks /\ phase = "unify_vocab"
  BY <1>0, ItemFacts, AliveWhere
<1>2. /\ BarrierInv' /\ FreshInv' /\ task' \in [Tasks -> Terminal \cup {"waiting", "running"}]
      /\ task'[Unify] = x /\ \A u \in Tasks : u # Unify => task'[u] = task[u]
  BY <1>0, <1>1, MoveStep
<1>3. ShapeInv'
  BY <1>0, <1>2 DEF ShapeInv
<1>4. WholeInv'
  BY <1>0 DEF WholeInv
<1>5. TokenizeInv'
  <2>1. \A v \in Variants : task'[Tok(v)] = task[Tok(v)]
    <3> SUFFICES ASSUME NEW v \in Variants, Tok(v) \in Tasks PROVE Tok(v) # Unify
      BY <1>2, ItemFacts
    <3> QED
      BY ItemFacts
  <2> QED
    BY <1>0, <2>1 DEF TokenizeInv, InFull
<1>6. UnifyInv'
  BY <1>2 DEF UnifyInv, InFull
<1>7. MemmapInv'
  BY <1>1 DEF MemmapInv
<1> QED
  BY <1>2, <1>3, <1>4, <1>5, <1>6, <1>7 DEF IInv

\* An item of the last phase: the chains of the other binaries stay as they are.
LEMMA ChainStep ==
    ASSUME IInv, NEW b \in Binaries, NEW t \in {Memmap(b), Rlen(b), Sidx(b)}, Alive(t),
           NEW x \in {"running", "done"}, task' = [task EXCEPT ![t] = x],
           UNCHANGED <<container, run, kind, skip, phase, csv, vocab, mapping>>,
           NEW m \in MemmapSet(b), NEW r \in RlenSet, NEW s \in SidxSet,
           memmap' = [memmap EXCEPT ![b] = m], rlen' = [rlen EXCEPT ![b] = r],
           sidx' = [sidx EXCEPT ![b] = s],
           container => m.whole \/ m = memmap[b],
           InFull /\ phase = "memmap" => ChainInv(b)'
    PROVE  IInv'
<1>0. ShapeInv /\ BarrierInv /\ WholeInv /\ FreshInv /\ TokenizeInv /\ UnifyInv /\ MemmapInv
  BY DEF IInv
<1>1. t \in Tasks /\ phase \notin {"tokenize", "unify_vocab", "ended"}
  BY <1>0, ItemFacts, AliveWhere
<1>2. /\ BarrierInv' /\ FreshInv' /\ task' \in [Tasks -> Terminal \cup {"waiting", "running"}]
      /\ task'[t] = x /\ \A u \in Tasks : u # t => task'[u] = task[u]
  BY <1>0, <1>1, MoveStep
<1>3. /\ memmap'[b] = m /\ rlen'[b] = r /\ sidx'[b] = s
      /\ \A c \in Binaries : c # b => memmap'[c] = memmap[c] /\ rlen'[c] = rlen[c]
                                      /\ sidx'[c] = sidx[c]
      /\ DOMAIN memmap' = Binaries /\ memmap' = [c \in Binaries |-> memmap'[c]]
  BY <1>0 DEF ShapeInv
<1>4. ShapeInv'
  <2>1. \A c \in Binaries : memmap'[c] \in MemmapSet(c)
    BY <1>0, <1>3 DEF ShapeInv
  <2>2. rlen' \in [Binaries -> RlenSet] /\ sidx' \in [Binaries -> SidxSet]
    BY <1>0 DEF ShapeInv
  <2>3. \A c \in Binaries : MemmapSet(c)' = MemmapSet(c)
    BY DEF MemmapSet
  <2> QED
    BY <1>0, <1>2, <1>3, <2>1, <2>2 DEF ShapeInv
<1>5. WholeInv'
  BY <1>0, <1>3 DEF WholeInv
<1>6. TokenizeInv' /\ UnifyInv'
  <2>1. t # Unify /\ \A v \in Variants : t # Tok(v)
    BY ItemFacts
  <2>2. task'[Unify] = task[Unify] /\ \A v \in Variants : task'[Tok(v)] = task[Tok(v)]
    BY <1>2, <2>1, ItemFacts
  <2> QED
    BY <1>0, <2>2 DEF TokenizeInv, UnifyInv, InFull
<1>7. MemmapInv'
  <2> SUFFICES ASSUME InFull, phase \in {"memmap", "ended"}, NEW c \in Binaries
               PROVE  ChainInv(c)'
    BY DEF MemmapInv, InFull
  <2>1. CASE c = b
    BY <1>1, <2>1
  <2>2. CASE c # b
    <3>1. ChainInv(c)
      BY <1>0 DEF MemmapInv
    <3>2. Versions(c)' = Versions(c) /\ PartsOf(c)' = PartsOf(c)
      BY DEF Versions, PartsOf
    <3>3. t \notin {Memmap(c), Rlen(c), Sidx(c)}
      BY <2>2, ItemsDiffer, ItemFacts
    <3>4. /\ task'[Memmap(c)] = task[Memmap(c)] /\ task'[Rlen(c)] = task[Rlen(c)]
          /\ task'[Sidx(c)] = task[Sidx(c)]
      BY <1>2, <3>3, ItemFacts
    <3> QED
      BY <1>3, <2>2, <3>1, <3>2, <3>4 DEF ChainInv
  <2> QED
    BY <2>1, <2>2
<1> QED
  BY <1>2, <1>4, <1>5, <1>6, <1>7 DEF IInv

\* An item begins: nothing is written, or, in place, what a torn attempt may
\* leave.  In the composite a length item begins when its memmap has a verdict.
LEMMA BeginStep ==
    ASSUME IInv, NEW t \in Tasks, Begin(t)
    PROVE  IInv'
<1>0. ShapeInv /\ BarrierInv /\ MemmapInv
  BY DEF IInv
<1>1. /\ Alive(t) /\ task' = [task EXCEPT ![t] = "running"] /\ task[t] = "waiting" /\ Released(t)
      /\ UNCHANGED <<container, run, kind, skip, phase>>
  BY DEF Begin, Alive
<1>2. ASSUME NEW f \in File PROVE Torn(f) \in File
  BY <1>0 DEF Torn, File, ShapeInv
<1>3. \A s : (s \in RlenSet => TornSet(s) \in RlenSet) /\ (s \in SidxSet => TornSet(s) \in SidxSet)
  BY DEF TornSet, RlenSet, SidxSet
<1>4. (container /\ InPlace(t)) => t[1] \in {"rlen", "sidx"}
  BY DEF InPlace
<1>5. ASSUME NEW v \in Variants, t = Tok(v) PROVE IInv'
  <2>1. PICK f \in File :
          /\ csv' = [csv EXCEPT ![v] = f] /\ UNCHANGED <<vocab, mapping, memmap, rlen, sidx>>
          /\ container => f = csv[v]
    <3>0. csv[v] \in File /\ csv = [csv EXCEPT ![v] = csv[v]] /\ t[1] = "tokenize" /\ t[2] = v
          /\ t # Unify
      BY <1>0, <1>5, ItemFacts DEF ShapeInv
    <3>1. CASE UNCHANGED disk
      BY <3>0, <3>1 DEF disk
    <3>2. CASE ~UNCHANGED disk
      <4>1. csv' = [csv EXCEPT ![v] = Torn(csv[v])] /\ ~container
            /\ UNCHANGED <<vocab, mapping, memmap, rlen, sidx>>
        BY <1>4, <3>0, <3>2 DEF Begin
      <4> QED
        BY <1>2, <3>0, <4>1
    <3> QED
      BY <3>1, <3>2
  <2> QED
    BY <1>1, <1>5, <2>1, TokenizeStep
<1>6. CASE t = Unify
  <2>1. /\ vocab' \in File /\ mapping' \in [Variants -> Mapping]
        /\ container => vocab' = vocab
        /\ UNCHANGED <<csv, memmap, rlen, sidx>>
    <3>0. vocab \in File /\ mapping \in [Variants -> Mapping] /\ t[1] = "unify_vocab"
          /\ csv \in [Variants -> File] /\ run \in Gens
      BY <1>0, <1>6, ItemFacts DEF ShapeInv
    <3>1. CASE UNCHANGED disk
      BY <3>0, <3>1 DEF disk
    <3>2. CASE ~UNCHANGED disk
      <4>1. /\ vocab' \in {vocab, Torn(vocab)} /\ ~container /\ UNCHANGED <<csv, memmap, rlen, sidx>>
            /\ \E V : mapping' = [v \in Variants |->
                         IF v \in V THEN [csv |-> csv[v].gen, vocab |-> run] ELSE mapping[v]]
        BY <1>4, <3>0, <3>2 DEF Begin
      <4>2. \A v \in Variants : [csv |-> csv[v].gen, vocab |-> run] \in Mapping
                                /\ mapping[v] \in Mapping
        BY <3>0 DEF Mapping, File
      <4> QED
        BY <1>2, <3>0, <4>1, <4>2
    <3> QED
      BY <3>1, <3>2
  <2> QED
    BY <1>1, <1>6, <2>1, UnifyStep
<1>7. ASSUME NEW b \in Binaries, t \in {Memmap(b), Rlen(b), Sidx(b)} PROVE IInv'
  <2>0. /\ t[1] \in {"memmap", "rlen", "sidx"} /\ t[2] = b /\ t # Unify
        /\ t[1] = "memmap" => t = Memmap(b)
        /\ t[1] = "rlen" => t = Rlen(b)
        /\ t[1] = "sidx" => t = Sidx(b)
    BY <1>7, ItemFacts
  <2>1. /\ memmap[b] \in MemmapSet(b) /\ rlen[b] \in RlenSet /\ sidx[b] \in SidxSet
        /\ memmap = [memmap EXCEPT ![b] = memmap[b]] /\ rlen = [rlen EXCEPT ![b] = rlen[b]]
        /\ sidx = [sidx EXCEPT ![b] = sidx[b]]
    BY <1>0 DEF ShapeInv
  <2>2. PICK m \in MemmapSet(b), r \in RlenSet, s \in SidxSet :
          /\ memmap' = [memmap EXCEPT ![b] = m] /\ rlen' = [rlen EXCEPT ![b] = r]
          /\ sidx' = [sidx EXCEPT ![b] = s] /\ UNCHANGED <<csv, vocab, mapping>>
          /\ container => m = memmap[b]
          /\ t # Memmap(b) => m = memmap[b]
          /\ t # Rlen(b) => r = rlen[b]
          /\ t # Sidx(b) => s = sidx[b]
    <3>1. CASE UNCHANGED disk
      BY <2>1, <3>1 DEF disk
    <3>2. CASE ~UNCHANGED disk /\ t[1] = "memmap"
      <4>1. memmap' = [memmap EXCEPT ![b] = Torn(memmap[b])] /\ ~container
            /\ UNCHANGED <<csv, vocab, mapping, rlen, sidx>>
        BY <1>4, <2>0, <3>2 DEF Begin
      <4>2. Torn(memmap[b]) \in MemmapSet(b)
        BY <1>0, <2>1 DEF Torn, MemmapSet, ShapeInv
      <4>3. PICK m \in MemmapSet(b) : m = Torn(memmap[b])
        BY <4>2
      <4>4. /\ memmap' = [memmap EXCEPT ![b] = m] /\ rlen' = [rlen EXCEPT ![b] = rlen[b]]
            /\ sidx' = [sidx EXCEPT ![b] = sidx[b]] /\ UNCHANGED <<csv, vocab, mapping>>
            /\ ~container /\ t = Memmap(b)
        BY <2>0, <2>1, <3>2, <4>1, <4>3
      <4> QED
        BY <2>1, <4>4
    <3>3. CASE ~UNCHANGED disk /\ t[1] = "rlen"
      <4>1. rlen' = [rlen EXCEPT ![b] = TornSet(rlen[b])]
            /\ UNCHANGED <<csv, vocab, mapping, memmap, sidx>>
        BY <2>0, <3>3 DEF Begin
      <4> QED
        BY <1>3, <2>0, <2>1, <3>3, <4>1
    <3>4. CASE ~UNCHANGED disk /\ t[1] = "sidx"
      <4>1. sidx' = [sidx EXCEPT ![b] = TornSet(sidx[b])]
            /\ UNCHANGED <<csv, vocab, mapping, memmap, rlen>>
        BY <2>0, <3>4 DEF Begin
      <4> QED
        BY <1>3, <2>0, <2>1, <3>4, <4>1
    <3> QED
      BY <2>0, <3>1, <3>2, <3>3, <3>4
  <2>3. ASSUME InFull, phase = "memmap"
        PROVE  ChainInv(b)'
    <3>1. ChainInv(b)
      BY <1>0, <2>3 DEF MemmapInv
    <3>2. Versions(b)' = Versions(b) /\ PartsOf(b)' = PartsOf(b)
      BY <2>2 DEF Versions, PartsOf
    <3>3. /\ task'[t] = "running"
          /\ \A u \in {Memmap(b), Rlen(b), Sidx(b)} : u # t => task'[u] = task[u]
      BY <1>0, <1>1, ItemFacts DEF ShapeInv
    <3>4. memmap'[b] = m /\ rlen'[b] = r /\ sidx'[b] = s
      BY <1>0, <2>2 DEF ShapeInv
    <3>5. CASE t = Memmap(b)
      BY <1>1, <2>2, <3>1, <3>2, <3>3, <3>4, <3>5, ItemsDiffer DEF ChainInv, Terminal
    <3>6. CASE t = Rlen(b)
      <4>1. task[Memmap(b)] \in Terminal
        BY <1>1, <2>3, <3>6, ItemFacts DEF Released, DependsOn, InFull
      <4> QED
        BY <1>1, <2>2, <3>1, <3>2, <3>3, <3>4, <3>6, <4>1, ItemsDiffer DEF ChainInv, Terminal
    <3>7. CASE t = Sidx(b)
      <4>1. task[Rlen(b)] \in Terminal
        BY <1>1, <3>7, ItemFacts DEF Released, DependsOn
      <4> QED
        BY <1>1, <2>2, <3>1, <3>2, <3>3, <3>4, <3>7, <4>1, ItemsDiffer DEF ChainInv, Terminal
    <3> QED
      BY <1>7, <3>5, <3>6, <3>7
  <2> QED
    BY <1>1, <1>7, <2>2, <2>3, ChainStep
<1> QED
  BY <1>5, <1>6, <1>7, ItemKinds

\* The five workers finish.
LEMMA CompleteStep ==
    ASSUME IInv, Complete
    PROVE  IInv'
<1>0. ShapeInv /\ BarrierInv /\ MemmapInv
  BY DEF IInv
<1>1. ASSUME NEW v \in Variants, TokenizeDone(v) PROVE IInv'
  <2>1. /\ Alive(Tok(v)) /\ task' = [task EXCEPT ![Tok(v)] = "done"]
        /\ UNCHANGED <<container, run, kind, skip, phase, vocab, mapping, memmap, rlen, sidx>>
        /\ csv' = [csv EXCEPT ![v] = [gen |-> run, whole |-> TRUE]]
    BY <1>1 DEF TokenizeDone, Finished, Alive
  <2>2. PICK f \in File : f = [gen |-> run, whole |-> TRUE]
    BY <1>0 DEF ShapeInv, File
  <2> QED
    BY <2>1, <2>2, TokenizeStep
<1>2. ASSUME UnifyDone PROVE IInv'
  <2>1. /\ Alive(Unify) /\ task' = [task EXCEPT ![Unify] = "done"]
        /\ UNCHANGED <<container, run, kind, skip, phase, csv, memmap, rlen, sidx>>
        /\ vocab' = [gen |-> run, whole |-> TRUE]
        /\ mapping' = [v \in Variants |-> IF csv[v].whole
                                          THEN [csv |-> csv[v].gen, vocab |-> run]
                                          ELSE mapping[v]]
    BY <1>2 DEF UnifyDone, Finished, Alive
  <2>2. \A v \in Variants : [csv |-> csv[v].gen, vocab |-> run] \in Mapping
                            /\ mapping[v] \in Mapping
    BY <1>0 DEF Mapping, File, ShapeInv
  <2>3. vocab' \in File /\ mapping' \in [Variants -> Mapping]
    BY <1>0, <2>1, <2>2 DEF ShapeInv, File
  <2> QED
    BY <2>1, <2>3, UnifyStep
<1>3. ASSUME NEW b \in Binaries, MemmapDone(b) PROVE IInv'
  <2>1. /\ Alive(Memmap(b)) /\ task' = [task EXCEPT ![Memmap(b)] = "done"]
        /\ UNCHANGED <<container, run, kind, skip, phase, csv, vocab, mapping, rlen, sidx>>
        /\ memmap' = [memmap EXCEPT ![b] = [gen |-> run, whole |-> TRUE, vocab |-> vocab.gen,
                                            parts |-> PartsOf(b)]]
    BY <1>3 DEF MemmapDone, Finished, Alive
  <2>2. PICK m \in MemmapSet(b) :
          m = [gen |-> run, whole |-> TRUE, vocab |-> vocab.gen, parts |-> PartsOf(b)]
    <3>1. run \in Gens /\ vocab.gen \in Gens
      BY <1>0 DEF ShapeInv, File
    <3> QED
      BY <1>0, <3>1, PartsTyped DEF MemmapSet
  <2>3. /\ rlen[b] \in RlenSet /\ sidx[b] \in SidxSet
        /\ rlen' = [rlen EXCEPT ![b] = rlen[b]] /\ sidx' = [sidx EXCEPT ![b] = sidx[b]]
    BY <1>0, <2>1 DEF ShapeInv
  <2>4. ASSUME InFull, phase = "memmap"
        PROVE  ChainInv(b)'
    <3>1. ChainInv(b) /\ task[Memmap(b)] \in {"waiting", "running"}
      BY <1>0, <2>1, <2>4 DEF MemmapInv, Alive
    <3>2. Versions(b)' = Versions(b) /\ PartsOf(b)' = PartsOf(b)
      BY <2>1 DEF Versions, PartsOf
    <3>3. /\ task'[Memmap(b)] = "done" /\ task'[Rlen(b)] = task[Rlen(b)]
          /\ task'[Sidx(b)] = task[Sidx(b)]
      BY <1>0, <2>1, ItemFacts, ItemsDiffer DEF ShapeInv
    <3>4. memmap'[b] = m
      BY <1>0, <2>1, <2>2 DEF ShapeInv
    <3> QED
      BY <2>1, <2>2, <3>1, <3>2, <3>3, <3>4 DEF ChainInv, Terminal
  <2>5. m.whole /\ memmap' = [memmap EXCEPT ![b] = m]
    BY <2>1, <2>2
  <2>6. /\ Alive(Memmap(b)) /\ task' = [task EXCEPT ![Memmap(b)] = "done"]
        /\ UNCHANGED <<container, run, kind, skip, phase, csv, vocab, mapping>>
    BY <2>1
  <2>7. PICK r \in RlenSet, s \in SidxSet :
          rlen' = [rlen EXCEPT ![b] = r] /\ sidx' = [sidx EXCEPT ![b] = s]
    BY <2>3
  <2>8. PICK t \in {Memmap(b), Rlen(b), Sidx(b)} : t = Memmap(b)
    OBVIOUS
  <2> QED
    BY <2>4, <2>5, <2>6, <2>7, <2>8, ChainStep
<1>4. ASSUME NEW b \in Binaries, RlenDone(b) PROVE IInv'
  <2>1. /\ Alive(Rlen(b)) /\ task[Rlen(b)] = "running"
        /\ task' = [task EXCEPT ![Rlen(b)] = "done"]
        /\ UNCHANGED <<container, run, kind, skip, phase, csv, vocab, mapping, memmap, sidx>>
        /\ rlen' = [rlen EXCEPT ![b] = [present |-> TRUE, whole |-> TRUE, over |-> memmap[b].gen,
                                        shape |-> Shape(memmap[b])]]
    BY <1>4 DEF RlenDone, Finished, Alive
  <2>2. /\ memmap[b] \in MemmapSet(b) /\ sidx[b] \in SidxSet
        /\ memmap' = [memmap EXCEPT ![b] = memmap[b]] /\ sidx' = [sidx EXCEPT ![b] = sidx[b]]
    BY <1>0, <2>1 DEF ShapeInv
  <2>3. PICK r \in RlenSet : r = [present |-> TRUE, whole |-> TRUE, over |-> memmap[b].gen,
                                  shape |-> Shape(memmap[b])]
    <3>1. memmap[b].gen \in Gens /\ Shape(memmap[b]) \subseteq Variants
      BY <2>2 DEF MemmapSet, Shape
    <3> QED
      BY <3>1 DEF RlenSet
  <2>4. ASSUME InFull, phase = "memmap"
        PROVE  ChainInv(b)'
    <3>1. ChainInv(b)
      BY <1>0, <2>4 DEF MemmapInv
    <3>2. Versions(b)' = Versions(b) /\ PartsOf(b)' = PartsOf(b)
      BY <2>1 DEF Versions, PartsOf
    <3>3. /\ task'[Rlen(b)] = "done" /\ task'[Memmap(b)] = task[Memmap(b)]
          /\ task'[Sidx(b)] = task[Sidx(b)]
      BY <1>0, <2>1, ItemFacts, ItemsDiffer DEF ShapeInv
    <3>4. rlen'[b].over = memmap[b].gen
      BY <1>0, <2>1 DEF ShapeInv
    <3> QED
      BY <2>1, <3>1, <3>2, <3>3, <3>4 DEF ChainInv, Terminal
  <2>5. rlen' = [rlen EXCEPT ![b] = r]
    BY <2>1, <2>3
  <2>6. /\ Alive(Rlen(b)) /\ task' = [task EXCEPT ![Rlen(b)] = "done"]
        /\ UNCHANGED <<container, run, kind, skip, phase, csv, vocab, mapping>>
    BY <2>1
  <2>7. PICK m \in MemmapSet(b), s \in SidxSet :
          /\ memmap' = [memmap EXCEPT ![b] = m] /\ sidx' = [sidx EXCEPT ![b] = s]
          /\ m = memmap[b]
    BY <2>2
  <2>8. PICK t \in {Memmap(b), Rlen(b), Sidx(b)} : t = Rlen(b)
    OBVIOUS
  <2> QED
    BY <2>4, <2>5, <2>6, <2>7, <2>8, ChainStep
<1>5. ASSUME NEW b \in Binaries, SidxDone(b) PROVE IInv'
  <2>1. /\ Alive(Sidx(b)) /\ task[Sidx(b)] = "running"
        /\ task' = [task EXCEPT ![Sidx(b)] = "done"]
        /\ UNCHANGED <<container, run, kind, skip, phase, csv, vocab, mapping, memmap, rlen>>
        /\ sidx' = [sidx EXCEPT ![b] =
                      [present |-> TRUE, whole |-> TRUE, over |-> memmap[b].gen,
                       lens |-> IF memmap[b].gen > 0 THEN rlen[b].over ELSE 0]]
    BY <1>5 DEF SidxDone, Finished, Alive
  <2>2. /\ memmap[b] \in MemmapSet(b) /\ rlen[b] \in RlenSet
        /\ memmap' = [memmap EXCEPT ![b] = memmap[b]] /\ rlen' = [rlen EXCEPT ![b] = rlen[b]]
    BY <1>0, <2>1 DEF ShapeInv
  <2>3. PICK s \in SidxSet :
          s = [present |-> TRUE, whole |-> TRUE, over |-> memmap[b].gen,
               lens |-> IF memmap[b].gen > 0 THEN rlen[b].over ELSE 0]
    <3>1. memmap[b].gen \in Gens /\ rlen[b].over \in Gens
      BY <2>2 DEF RlenSet, MemmapSet
    <3>2. (IF memmap[b].gen > 0 THEN rlen[b].over ELSE 0) \in Gens
      BY <3>1 DEF Gens
    <3> QED
      BY <3>1, <3>2 DEF SidxSet
  <2>4. ASSUME InFull, phase = "memmap"
        PROVE  ChainInv(b)'
    <3>1. ChainInv(b) /\ run > 0
      BY <1>0, <2>4 DEF MemmapInv, BarrierInv
    <3>2. Versions(b)' = Versions(b) /\ PartsOf(b)' = PartsOf(b)
      BY <2>1 DEF Versions, PartsOf
    <3>3. /\ task'[Sidx(b)] = "done" /\ task'[Memmap(b)] = task[Memmap(b)]
          /\ task'[Rlen(b)] = task[Rlen(b)]
      BY <1>0, <2>1, ItemFacts, ItemsDiffer DEF ShapeInv
    <3>4. sidx'[b] = s
      BY <1>0, <2>1, <2>3 DEF ShapeInv
    <3> QED
      BY <2>1, <2>3, <3>1, <3>2, <3>3, <3>4 DEF ChainInv, Terminal
  <2> QED
    BY <2>1, <2>2, <2>3, <2>4, ChainStep
<1> QED
  BY <1>1, <1>2, <1>3, <1>4, <1>5 DEF Complete

(* ------------------------- the steps of the scheduler --------------------- *)

\* A run begins: every item is new.
LEMMA StartStep ==
    ASSUME IInv, NEW k \in Kinds, NEW s \in BOOLEAN, StartRun(k, s)
    PROVE  IInv'
<1>0. ShapeInv /\ BarrierInv /\ WholeInv
  BY DEF IInv
<1>1. PICK first : first = IF k = "full" THEN "tokenize" ELSE k
  OBVIOUS
<1>2. first \in Phases
  BY <1>1, PipelineAssumption DEF Phases
<1>3. PICK items : items = Discover(first, s)
  OBVIOUS
<1>4. PICK R : /\ \A t \in R : t \in items /\ t[1] = "sidx"
               /\ task' = [t \in Tasks |-> IF t \in R THEN "rejected"
                                           ELSE IF t \in items THEN "waiting" ELSE "none"]
  BY <1>1, <1>3 DEF StartRun
<1>5. /\ phase' = first /\ run' = run + 1 /\ kind' = k /\ skip' = s
      /\ UNCHANGED <<container, csv, vocab, mapping, memmap, rlen, sidx>>
  BY <1>1 DEF StartRun
<1>6. \A t \in items : t \in Tasks /\ PhaseOf(t) = first
  BY <1>2, <1>3, DiscoverOwn
<1>7. run' \in Gens /\ run' > 0
  BY <1>0, <1>5 DEF ShapeInv, Gens
<1>8. ShapeInv'
  <2>1. task' \in [Tasks -> Terminal \cup {"waiting", "running"}]
    BY <1>4 DEF Terminal
  <2> QED
    BY <1>0, <1>2, <1>5, <1>7, <2>1 DEF ShapeInv, MemmapSet
<1>9. BarrierInv'
  BY <1>1, <1>4, <1>5, <1>6, <1>7 DEF BarrierInv, Alive
<1>10. WholeInv'
  BY <1>0, <1>5 DEF WholeInv
<1>11. InFull' => first = "tokenize" /\ phase' = "tokenize"
  BY <1>1, <1>5 DEF InFull
<1>12. FreshInv'
  BY <1>4, <1>5, <1>6, <1>11 DEF FreshInv
<1>13. TokenizeInv'
  <2> SUFFICES ASSUME first = "tokenize", NEW v \in Variants
               PROVE  task'[Tok(v)] # "done" /\ (~s => task'[Tok(v)] # "none")
    BY <1>5, <1>11 DEF TokenizeInv
  <2>1. Tok(v) \in Tasks /\ Tok(v) \notin R
    BY <1>4, ItemFacts
  <2>2. ~s => Tok(v) \in items
    BY <1>3, Discovered DEF DiscoverTokenize
  <2> QED
    BY <1>4, <2>1, <2>2
<1>14. UnifyInv' /\ MemmapInv'
  BY <1>11 DEF UnifyInv, MemmapInv
<1> QED
  BY <1>8, <1>9, <1>10, <1>12, <1>13, <1>14 DEF IInv

\* The next phase is spawned over what the last one left on disk.
LEMMA PhaseStep ==
    ASSUME IInv, EndPhase
    PROVE  IInv'
<1>0. ShapeInv /\ BarrierInv /\ WholeInv /\ FreshInv /\ TokenizeInv /\ UnifyInv
  BY DEF IInv
<1>1. PICK batch : batch = SpawnBatch(NextPhase(phase))
  OBVIOUS
<1>2. PICK R \in SUBSET batch :
        task' = [t \in Tasks |-> IF t \in R THEN "rejected"
                                 ELSE IF t \in batch THEN "waiting" ELSE task[t]]
  BY <1>1 DEF EndPhase, Rejectable
<1>3. /\ kind = "full" /\ phase \in {"tokenize", "unify_vocab"} /\ Drained
      /\ phase' = NextPhase(phase)
      /\ UNCHANGED <<container, run, kind, skip, csv, vocab, mapping, memmap, rlen, sidx>>
  BY DEF EndPhase
<1>4. /\ \A t \in Tasks : task'[t] \in Terminal \cup {"waiting"}
      /\ \A t \in Tasks : t \notin batch => task'[t] = task[t]
      /\ \A t \in Tasks : t \in batch => task'[t] \in {"waiting", "rejected"}
      /\ \A t \in Tasks : task[t] \in Terminal
      /\ task' \in [Tasks -> Terminal \cup {"waiting", "running"}]
  BY <1>0, <1>2, <1>3 DEF ShapeInv, Drained, Terminal
<1>5. ShapeInv'
  BY <1>0, <1>3, <1>4 DEF ShapeInv, NextPhase, Phases, MemmapSet
<1>6. WholeInv'
  BY <1>0, <1>3 DEF WholeInv
<1>7. InFull /\ InFull'
  BY <1>3 DEF InFull, Phases, NextPhase
<1>8. CASE phase = "tokenize"
  <2>1. phase' = "unify_vocab"
    BY <1>3, <1>8 DEF NextPhase
  <2>2. batch = IF \E v \in Variants : csv[v].gen > 0 THEN {Unify} ELSE {}
    BY <1>1, <1>8, Discovered DEF SpawnBatch, NextPhase, RoutedSkip, DiscoverUnify
  <2>3. \A t \in batch : t = Unify
    BY <2>2
  <2>4. BarrierInv'
    BY <1>0, <1>3, <1>4, <2>1, <2>3, ItemFacts DEF BarrierInv, Alive, Terminal
  <2>5. FreshInv'
    BY <1>0, <1>4, <1>7, <1>8, <2>1, <2>3, ItemFacts DEF FreshInv
  <2>6. TokenizeInv'
    <3>1. \A v \in Variants : task'[Tok(v)] = task[Tok(v)]
      BY <1>4, <2>3, ItemFacts
    <3> QED
      BY <1>0, <1>3, <1>7, <3>1 DEF TokenizeInv
  <2>7. UnifyInv'
    <3>1. task[Unify] = "none" /\ Unify \in Tasks
      BY <1>0, <1>7, <1>8, ItemFacts DEF FreshInv
    <3>2. task'[Unify] # "done"
      BY <1>4, <3>1
    <3>3. task'[Unify] = "none" => \A v \in Variants : csv[v].gen = 0
      <4>1. \A v \in Variants : csv[v].gen \in Nat
        BY <1>0 DEF ShapeInv, File, Gens
      <4> QED
        BY <1>4, <2>2, <3>1, <4>1
    <3> QED
      BY <1>3, <3>2, <3>3 DEF UnifyInv
  <2>8. MemmapInv'
    BY <2>1 DEF MemmapInv
  <2> QED
    BY <1>5, <1>6, <2>4, <2>5, <2>6, <2>7, <2>8 DEF IInv
<1>9. CASE phase = "unify_vocab"
  <2>1. phase' = "memmap"
    BY <1>3, <1>9 DEF NextPhase
  <2>2. PICK items : items = {Memmap(b) : b \in {c \in Binaries : Versions(c) # {}}}
    OBVIOUS
  <2>3. batch = items \cup UNION {ItemsForBinary(t[2]) : t \in items}
    <3>1. NextPhase(phase) = "memmap"
      BY <1>9 DEF NextPhase
    <3>2. Discover("memmap", FALSE) = items
      BY <2>2, Discovered DEF DiscoverMemmap
    <3> QED
      BY <1>1, <3>1, <3>2 DEF SpawnBatch, RoutedSkip
  <2>4. \A t \in batch : \E b \in Binaries :
           /\ t \in {Memmap(b), Rlen(b), Sidx(b)} /\ {Memmap(b), Rlen(b), Sidx(b)} \subseteq batch
           /\ Versions(b) # {}
    BY <2>2, <2>3, ItemFacts DEF ItemsForBinary
  <2>5. \A b \in Binaries : Versions(b) # {} => Memmap(b) \in batch
    BY <2>2, <2>3
  <2>6. BarrierInv'
    <3>1. ASSUME NEW t \in Tasks, Alive(t)'
          PROVE  PhaseOf(t) \in {"memmap", "index"}
      <4>1. t \in batch
        BY <1>4, <3>1 DEF Alive, Terminal
      <4>2. PICK b \in Binaries : t \in {Memmap(b), Rlen(b), Sidx(b)}
        BY <2>4, <4>1
      <4> QED
        BY <4>2, ItemFacts
    <3> QED
      BY <1>0, <1>3, <2>1, <3>1 DEF BarrierInv
  <2>7. FreshInv'
    BY <2>1 DEF FreshInv
  <2>8. TokenizeInv' /\ UnifyInv'
    <3>1. Unify \notin batch /\ \A v \in Variants : Tok(v) \notin batch
      <4>1. ASSUME NEW t \in batch PROVE t # Unify /\ \A v \in Variants : t # Tok(v)
        <5>1. PICK b \in Binaries : t \in {Memmap(b), Rlen(b), Sidx(b)}
          BY <2>4
        <5> QED
          BY <5>1, ItemFacts
      <4> QED
        BY <4>1
    <3>2. task'[Unify] = task[Unify] /\ \A v \in Variants : task'[Tok(v)] = task[Tok(v)]
      BY <1>4, <3>1, ItemFacts
    <3> QED
      BY <1>0, <1>3, <1>7, <1>9, <3>2 DEF TokenizeInv, UnifyInv
  <2>9. MemmapInv'
    <3> SUFFICES ASSUME NEW b \in Binaries PROVE ChainInv(b)'
      BY DEF MemmapInv
    <3>1. Versions(b)' = Versions(b)
      BY <1>3 DEF Versions
    <3>2. \A t \in {Memmap(b), Rlen(b), Sidx(b)} : t \in Tasks /\ task[t] = "none"
      BY <1>0, <1>7, <1>9, ItemFacts DEF FreshInv
    <3>3. \A t \in {Memmap(b), Rlen(b), Sidx(b)} :
            /\ task'[t] \in {"none", "waiting", "rejected"}
            /\ task'[t] = "none" <=> t \notin batch
      BY <1>4, <3>2
    <3>4. ASSUME Memmap(b) \in batch
          PROVE  Rlen(b) \in batch /\ Sidx(b) \in batch
      <4>1. PICK c \in Binaries : /\ Memmap(b) \in {Memmap(c), Rlen(c), Sidx(c)}
                                  /\ {Memmap(c), Rlen(c), Sidx(c)} \subseteq batch
        BY <2>4, <3>4
      <4>2. b = c
        BY <4>1, ItemsDiffer
      <4> QED
        BY <4>1, <4>2
    <3> QED
      BY <2>5, <3>1, <3>3, <3>4 DEF ChainInv
  <2> QED
    BY <1>5, <1>6, <2>6, <2>7, <2>8, <2>9 DEF IInv
<1> QED
  BY <1>3, <1>8, <1>9

\* The end of a run, and a kill.
LEMMA StopStep ==
    ASSUME IInv, EndRun \/ Kill
    PROVE  IInv'
<1>0. ShapeInv /\ BarrierInv /\ WholeInv /\ TokenizeInv /\ UnifyInv /\ MemmapInv
  BY DEF IInv
<1>1. /\ UNCHANGED <<container, run, kind, skip, csv, vocab, mapping, memmap, rlen, sidx>>
      /\ phase \in Phases /\ phase' \in {"ended", "killed"}
      /\ task' \in [Tasks -> Terminal]
  BY <1>0 DEF EndRun, Kill, Active, Drained, ShapeInv, Terminal
<1>2. ShapeInv'
  BY <1>0, <1>1 DEF ShapeInv, MemmapSet
<1>3. BarrierInv'
  BY <1>0, <1>1 DEF BarrierInv, Alive, Terminal, Phases
<1>4. WholeInv' /\ FreshInv'
  BY <1>0, <1>1 DEF WholeInv, FreshInv
<1>5. CASE Kill
  <2>1. ~InFull'
    BY <1>5 DEF Kill, InFull, Phases
  <2> QED
    BY <1>2, <1>3, <1>4, <2>1 DEF IInv, TokenizeInv, UnifyInv, MemmapInv
<1>6. CASE EndRun
  <2>1. task' = task /\ (kind = "full" => phase = "memmap")
    BY <1>6 DEF EndRun
  <2>2. InFull' => InFull /\ phase = "memmap"
    BY <1>1, <2>1 DEF InFull
  <2>3. TokenizeInv' /\ UnifyInv'
    BY <1>0, <1>1, <2>1, <2>2 DEF TokenizeInv, UnifyInv
  <2>4. MemmapInv'
    <3> SUFFICES ASSUME InFull, phase = "memmap", NEW b \in Binaries PROVE ChainInv(b)'
      BY <2>2 DEF MemmapInv
    <3>1. ChainInv(b)
      BY <1>0 DEF MemmapInv
    <3>2. Versions(b)' = Versions(b) /\ PartsOf(b)' = PartsOf(b)
      BY <1>1 DEF Versions, PartsOf
    <3> QED
      BY <1>1, <2>1, <3>1, <3>2 DEF ChainInv
  <2> QED
    BY <1>2, <1>3, <1>4, <2>3, <2>4 DEF IInv
<1> QED
  BY <1>5, <1>6

LEMMA InitInv == Init => IInv
<1> SUFFICES ASSUME Init PROVE IInv
  OBVIOUS
<1>1. ShapeInv
  <2>1. \A b \in Binaries : NoMemmap \in MemmapSet(b)
    BY DEF NoMemmap, MemmapSet, Gens
  <2>2. NoRlen \in RlenSet /\ NoSidx \in SidxSet /\ NoFile \in File /\ NoMapping \in Mapping
    BY DEF NoRlen, RlenSet, NoSidx, SidxSet, NoFile, File, NoMapping, Mapping, Gens
  <2> QED
    BY <2>1, <2>2 DEF Init, ShapeInv, Gens, Terminal
<1>2. \A t \in Tasks : ~Alive(t)
  BY DEF Init, Alive
<1>3. BarrierInv
  BY <1>2 DEF Init, BarrierInv
<1>4. WholeInv
  BY DEF Init, WholeInv, NoFile, NoMemmap
<1>5. ~InFull
  BY DEF Init, InFull, Phases
<1> QED
  BY <1>1, <1>3, <1>4, <1>5 DEF IInv, FreshInv, TokenizeInv, UnifyInv, MemmapInv

LEMMA NextInv == IInv /\ [Next]_vars => IInv'
<1> SUFFICES ASSUME IInv, [Next]_vars PROVE IInv'
  OBVIOUS
<1>1. ASSUME UNCHANGED vars PROVE IInv'
  <2>1. UNCHANGED <<container, run, kind, skip, phase, task, csv, vocab, mapping, memmap,
                    rlen, sidx>>
    BY <1>1 DEF vars
  <2>2. \A b \in Binaries : Versions(b)' = Versions(b) /\ PartsOf(b)' = PartsOf(b)
    BY <2>1 DEF Versions, PartsOf
  <2>3. \A b \in Binaries : ChainInv(b) => ChainInv(b)'
    BY <2>1, <2>2 DEF ChainInv
  <2>4. MemmapInv'
    BY <2>1, <2>3 DEF IInv, MemmapInv, InFull
  <2>5. ShapeInv' /\ BarrierInv' /\ WholeInv'
    BY <2>1 DEF IInv, ShapeInv, BarrierInv, WholeInv, Alive, MemmapSet
  <2>6. FreshInv' /\ TokenizeInv' /\ UnifyInv'
    BY <2>1 DEF IInv, FreshInv, TokenizeInv, UnifyInv, InFull
  <2> QED
    BY <2>4, <2>5, <2>6 DEF IInv
<1>2. ASSUME NEW t \in Tasks, Work(t) PROVE IInv'
  BY <1>2, BeginStep, FailStep DEF Work
<1> QED
  BY <1>1, <1>2, StartStep, PhaseStep, StopStep, CompleteStep DEF Next

\* IInv holds in every state of every run.
LEMMA Invariance == Spec => []IInv
BY InitInv, NextInv, PTL DEF Spec

(* -------------------------------- theorems -------------------------------- *)

\* What --skip-existing trusts is complete (csv_path.exists, vocab_path.exists
\* and the _index.bin marker in the get_tasks of the three tasks): for any
\* builds, whatever earlier runs were killed or failed, in a container.
THEOREM SkippingIsSafe == Spec => SkippedIsComplete
<1>1. IInv /\ [Next]_vars =>
        [ \A t \in Tasks :
            (/\ container /\ run' = run + 1 /\ skip'
             /\ t \in Skipped(phase', TRUE) /\ PhaseOf(t) # "index")
            => CASE t[1] = "tokenize" -> csv[t[2]].whole
                 [] t = Unify         -> vocab.whole
                 [] t[1] = "memmap"   -> memmap[t[2]].whole ]_vars
  <2> SUFFICES ASSUME IInv, [Next]_vars, NEW t \in Tasks, container, run' = run + 1,
                      t \in Skipped(phase', TRUE), PhaseOf(t) # "index"
               PROVE  CASE t[1] = "tokenize" -> csv[t[2]].whole
                        [] t = Unify         -> vocab.whole
                        [] t[1] = "memmap"   -> memmap[t[2]].whole
    OBVIOUS
  <2>0. ShapeInv /\ WholeInv
    BY DEF IInv
  <2>1. PICK p : p = phase'
    OBVIOUS
  <2>2. p \in Phases
    <3>1. run' # run
      BY <2>0 DEF ShapeInv, Gens
    <3>2. \E k \in Kinds, s \in BOOLEAN : StartRun(k, s)
      BY <3>1 DEF Next, EndPhase, EndRun, Kill, Work, Begin, Fail, Complete, TokenizeDone,
                  UnifyDone, MemmapDone, RlenDone, SidxDone, Finished, vars
    <3> QED
      BY <2>1, <3>2, PipelineAssumption DEF StartRun, Phases
  <2>3. t \in Discover(p, FALSE) /\ t \notin Discover(p, TRUE) /\ PhaseOf(t) = p
    BY <2>1, <2>2, DiscoverOwn DEF Skipped
  <2>4. ASSUME NEW v \in Variants, t = Tok(v) PROVE csv[v].whole
    <3>1. p = "tokenize"
      BY <2>3, <2>4, ItemFacts
    <3>2. csv[v].gen > 0
      BY <2>3, <2>4, <3>1, Discovered DEF DiscoverTokenize
    <3> QED
      BY <2>0, <3>2 DEF WholeInv
  <2>5. ASSUME t = Unify PROVE vocab.whole
    <3>1. p = "unify_vocab"
      BY <2>3, <2>5, ItemFacts
    <3>2. vocab.gen > 0
      BY <2>3, <2>5, <3>1, Discovered DEF DiscoverUnify
    <3> QED
      BY <2>0, <3>2 DEF WholeInv
  <2>6. ASSUME NEW b \in Binaries, t = Memmap(b) PROVE memmap[b].whole
    <3>1. p = "memmap"
      BY <2>3, <2>6, ItemFacts
    <3>2. PICK c \in Binaries : t = Memmap(c) /\ Versions(c) # {}
      <4>1. Discover("memmap", FALSE) = {Memmap(c) : c \in {d \in Binaries : Versions(d) # {}}}
        BY Discovered DEF DiscoverMemmap
      <4> QED
        BY <2>3, <3>1, <4>1
    <3>3. c = b
      BY <2>6, <3>2, ItemsDiffer
    <3>4. memmap[b].gen > 0
      BY <2>3, <2>6, <3>1, <3>2, <3>3, Discovered DEF DiscoverMemmap
    <3> QED
      BY <2>0, <3>4 DEF WholeInv
  <2>7. CASE \E v \in Variants : t = Tok(v)
    <3>1. t[1] = "tokenize" /\ csv[t[2]].whole /\ t # Unify /\ t[1] # "memmap"
      BY <2>4, <2>7, ItemFacts
    <3> QED
      BY <3>1
  <2>8. CASE t = Unify
    <3>1. t[1] # "tokenize" /\ t[1] # "memmap" /\ vocab.whole
      BY <2>5, <2>8, ItemFacts
    <3> QED
      BY <2>8, <3>1
  <2>9. CASE \E b \in Binaries : t = Memmap(b)
    <3>1. t[1] = "memmap" /\ memmap[t[2]].whole /\ t # Unify
      BY <2>6, <2>9, ItemFacts
    <3> QED
      BY <3>1
  <2>10. ~(\E b \in Binaries : t = Rlen(b) \/ t = Sidx(b))
    BY ItemFacts
  <2> QED
    BY <2>7, <2>8, <2>9, <2>10, ItemKinds
<1> QED
  BY <1>1, Invariance, PTL DEF Spec, SkippedIsComplete

\* A memmap of the composite mixes runs only when the unification was lost
\* (full_pipeline_task.py, on_phase_end): for any builds and any earlier runs.
THEOREM MixingNeedsALoss == Spec => MixedOnlyAfterLostUnify
<1>1. IInv /\ [Next]_vars =>
        [ \A b \in Binaries :
            (container /\ kind = "full" /\ memmap'[b] # memmap[b] /\ ~Coherent(memmap'[b]))
            => task[Unify] \in {"failed", "rejected"} ]_vars
  <2> SUFFICES ASSUME IInv, Next, NEW b \in Binaries, container, kind = "full",
                      memmap'[b] # memmap[b], task[Unify] \notin {"failed", "rejected"}
               PROVE  Coherent(memmap'[b])
    OBVIOUS
  <2>0. ShapeInv /\ BarrierInv /\ WholeInv /\ UnifyInv
    BY DEF IInv
  <2>1. memmap' # memmap
    OBVIOUS
  <2>2. PICK c \in Binaries : MemmapDone(c)
    <3>1. ASSUME NEW t \in Tasks, Begin(t) PROVE memmap' = memmap
      BY <3>1, ItemFacts DEF Begin, InPlace, disk
    <3> QED
      BY <2>1, <3>1 DEF Next, StartRun, EndPhase, EndRun, Kill, Work, Fail, Complete,
                        TokenizeDone, UnifyDone, RlenDone, SidxDone
  <2>3. c = b
    BY <2>0, <2>2 DEF MemmapDone, ShapeInv
  <2>4. /\ memmap'[b] = [gen |-> run, whole |-> TRUE, vocab |-> vocab.gen, parts |-> PartsOf(b)]
        /\ task[Memmap(b)] = "running"
    BY <2>0, <2>2, <2>3 DEF MemmapDone, Finished, ShapeInv
  <2>5. phase = "memmap"
    BY <2>0, <2>4, AliveWhere DEF Alive
  <2>6. task[Unify] \in {"done", "none"}
    <3>1. ~Alive(Unify) /\ Unify \in Tasks
      BY <2>0, <2>5, AliveWhere, ItemFacts
    <3> QED
      BY <2>0, <3>1 DEF Alive, ShapeInv, Terminal
  <2>7. ASSUME NEW p \in PartsOf(b)
        PROVE  p.csv.whole /\ p.mapping = [csv |-> p.csv.gen, vocab |-> vocab.gen]
    <3>1. PICK v \in Versions(b) : p = [v |-> v, csv |-> csv[v], mapping |-> mapping[v]]
      BY DEF PartsOf
    <3>2. v \in Variants /\ csv[v].gen > 0
      BY DEF Versions
    <3>3. csv[v].whole
      BY <2>0, <3>2 DEF WholeInv
    <3>4. csv[v].gen # 0
      BY <2>0, <3>2 DEF ShapeInv, File, Gens
    <3>5. task[Unify] = "done"
      BY <2>0, <2>5, <2>6, <3>2, <3>4 DEF UnifyInv, InFull, Phases
    <3>6. vocab.gen = run /\ mapping[v] = [csv |-> csv[v].gen, vocab |-> run]
      BY <2>0, <2>5, <3>2, <3>3, <3>5 DEF UnifyInv, InFull, Phases
    <3> QED
      BY <3>1, <3>3, <3>6
  <2> QED
    BY <2>4, <2>7 DEF Coherent
<1> QED
  BY <1>1, Invariance, PTL DEF Spec, MixedOnlyAfterLostUnify

\* The barriers and the edges between items (decorate_index_items_with_memmap_dep,
\* items_for_binary): whatever fails or is rejected, for any binaries.
THEOREM ChainsInOrder == Spec => []ChainInOrder
<1>1. IInv => ChainInOrder
  <2> SUFFICES ASSUME IInv PROVE ChainInOrder
    OBVIOUS
  <2>0. ShapeInv /\ BarrierInv /\ FreshInv /\ MemmapInv
    BY DEF IInv
  <2>1. TypeOK
    <3>1. ASSUME NEW b \in Binaries
          PROVE  /\ memmap[b].gen \in Gens /\ memmap[b].vocab \in Gens
                 /\ Shape(memmap[b]) \subseteq {v \in Variants : BinaryOf[v] = b}
                 /\ rlen[b].over \in Gens /\ sidx[b].over \in Gens /\ sidx[b].lens \in Gens
      <4>1. memmap[b] \in MemmapSet(b) /\ rlen[b] \in RlenSet /\ sidx[b] \in SidxSet
        BY <2>0 DEF ShapeInv
      <4> QED
        BY <4>1 DEF MemmapSet, RlenSet, SidxSet, Shape
    <3> QED
      BY <2>0, <3>1 DEF ShapeInv, BarrierInv, Alive, TypeOK
  <2>2. ASSUME kind = "full", Active, NEW b \in Binaries,
               task[Memmap(b)] = "done", task[Rlen(b)] = "done"
        PROVE  /\ rlen[b].over = run
               /\ task[Sidx(b)] = "done" => sidx[b].over = run /\ sidx[b].lens = run
    <3>1. InFull
      BY <2>2 DEF InFull, Active
    <3>2. phase = "memmap"
      BY <2>0, <2>2, <3>1, ItemFacts DEF FreshInv, BarrierInv, Active, Phases
    <3>3. ChainInv(b)
      BY <2>0, <3>1, <3>2 DEF MemmapInv
    <3> QED
      BY <2>2, <3>3 DEF ChainInv
  <2> QED
    BY <2>1, <2>2 DEF ChainInOrder
<1> QED
  BY <1>1, Invariance, PTL

\* A clean run leaves an output tree that belongs together (_route_args clears
\* skip_existing for the phases it chains): for any builds and binaries, and
\* whatever earlier runs left in it.
THEOREM CleanRunsAreFresh == Spec => []CleanRunIsFresh
<1>1. IInv => CleanRunIsFresh
  <2> SUFFICES ASSUME IInv, phase = "ended", kind = "full", container \/ ~skip,
                      \A t \in Tasks : task[t] \notin {"failed", "rejected"},
                      NEW b \in Binaries, NEW built, built # {},
                      built = {v \in Variants : BinaryOf[v] = b /\ csv[v].gen > 0}
               PROVE  /\ memmap[b].gen = run /\ memmap[b].vocab = run
                      /\ Shape(memmap[b]) = built
                      /\ \A p \in memmap[b].parts : p.csv = csv[p.v]
                      /\ Coherent(memmap[b])
                      /\ rlen[b].over = run
                      /\ sidx[b].over = run /\ sidx[b].lens = run
    BY DEF CleanRunIsFresh
  <2>0. /\ ShapeInv /\ BarrierInv /\ WholeInv /\ TokenizeInv /\ UnifyInv /\ MemmapInv /\ InFull
    BY DEF IInv, InFull
  <2>1. \A t \in Tasks : task[t] \in {"done", "none"}
    <3> SUFFICES ASSUME NEW t \in Tasks PROVE ~Alive(t)
      BY <2>0 DEF ShapeInv, Alive, Terminal
    <3>1. PhaseOf(t) \in Phases
      BY ItemPhases
    <3> QED
      BY <2>0, <3>1 DEF BarrierInv, Phases
  <2>2. \A v \in Variants : csv[v].gen \in Nat /\ (csv[v].gen > 0 => csv[v].whole)
    <3> SUFFICES ASSUME NEW v \in Variants, csv[v].gen > 0 PROVE csv[v].whole
      BY <2>0 DEF ShapeInv, File, Gens
    <3>1. CASE container
      BY <2>0, <3>1 DEF WholeInv
    <3>2. CASE ~container
      <4>1. task[Tok(v)] = "done"
        BY <2>0, <2>1, <3>2, ItemFacts DEF TokenizeInv
      <4>2. csv[v] = [gen |-> run, whole |-> TRUE]
        BY <2>0, <4>1 DEF TokenizeInv
      <4> QED
        BY <4>2
    <3> QED
      BY <3>1, <3>2
  <2>3. task[Unify] = "done"
    <3>1. PICK v \in Variants : csv[v].gen > 0
      OBVIOUS
    <3>2. csv[v].gen # 0
      BY <2>2, <3>1
    <3>3. task[Unify] # "none"
      BY <2>0, <3>2 DEF UnifyInv
    <3> QED
      BY <2>1, <3>3, ItemFacts
  <2>4. /\ vocab = [gen |-> run, whole |-> TRUE]
        /\ \A v \in built : mapping[v] = [csv |-> csv[v].gen, vocab |-> run]
    BY <2>0, <2>2, <2>3 DEF UnifyInv
  <2>5. run > 0
    BY <2>0 DEF BarrierInv
  <2>6. Versions(b) = built
    <3>1. ASSUME NEW v \in built PROVE mapping[v].vocab > 0
      <4>1. PICK g, m : m = mapping[v] /\ m = [csv |-> g, vocab |-> run]
        BY <2>4
      <4>2. m.vocab = run
        BY <4>1
      <4> QED
        BY <2>5, <4>1, <4>2
    <3> QED
      BY <3>1 DEF Versions
  <2>7. ChainInv(b)
    BY <2>0 DEF MemmapInv
  <2>8. task[Memmap(b)] = "done" /\ task[Rlen(b)] = "done" /\ task[Sidx(b)] = "done"
    BY <2>1, <2>6, <2>7, ItemFacts DEF ChainInv
  <2>9. memmap[b] = [gen |-> run, whole |-> TRUE, vocab |-> run, parts |-> PartsOf(b)]
    BY <2>4, <2>7, <2>8 DEF ChainInv
  <2>10. PartsOf(b) = {[v |-> v, csv |-> csv[v], mapping |-> mapping[v]] : v \in built}
    BY <2>6 DEF PartsOf
  <2>11. Shape(memmap[b]) = built
    <3>1. Shape(memmap[b]) = {p.v : p \in PartsOf(b)}
      BY <2>9 DEF Shape
    <3>2. \A p \in PartsOf(b) : p.v \in built
      BY <2>10
    <3>3. ASSUME NEW v \in built PROVE \E p \in PartsOf(b) : p.v = v
      <4>1. PICK p : p = [v |-> v, csv |-> csv[v], mapping |-> mapping[v]]
        OBVIOUS
      <4>2. p \in PartsOf(b) /\ p.v = v
        BY <2>10, <4>1
      <4> QED
        BY <4>2
    <3> QED
      BY <3>1, <3>2, <3>3
  <2>12. ASSUME NEW p \in memmap[b].parts
         PROVE  /\ p.csv = csv[p.v] /\ p.csv.whole
                /\ p.mapping = [csv |-> p.csv.gen, vocab |-> run]
    <3>1. PICK v \in built : p = [v |-> v, csv |-> csv[v], mapping |-> mapping[v]]
      BY <2>9, <2>10
    <3> QED
      BY <2>2, <2>4, <3>1
  <2>13. memmap[b].gen = run /\ memmap[b].vocab = run
    BY <2>9
  <2>14. Coherent(memmap[b])
    BY <2>12, <2>13 DEF Coherent
  <2>15. rlen[b].over = run /\ sidx[b].over = run /\ sidx[b].lens = run
    BY <2>7, <2>8 DEF ChainInv
  <2> QED
    BY <2>11, <2>12, <2>13, <2>14, <2>15
<1> QED
  BY <1>1, Invariance, PTL

==============================================================================
