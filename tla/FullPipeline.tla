---------------------------- MODULE FullPipeline ----------------------------
(***************************************************************************)
(* The dataset pipeline of dynrunner/: tokenize -> unify_vocab -> memmap    *)
(* -> index (realized lengths, then sorted index), as the composite task    *)
(* FullPipelineTask chains it and as its four children run alone, over      *)
(* several runs against one output tree.  Runs may re-use existing output   *)
(* (--skip-existing), lose tasks, have spawns rejected, or be killed.       *)
(*                                                                          *)
(* Every artefact carries the number of the run that wrote it, and what it  *)
(* was computed from, so that a mixture of old and new inputs is visible.   *)
(* In a container the workers stage their files and publish each set        *)
(* atomically; elsewhere they write in place.                               *)
(*                                                                          *)
(* The scheduler (dynamic_runner) is not part of the repository: a phase    *)
(* ends when its items are terminal, an item waits for its dependencies to  *)
(* be terminal, a worker may fail, a spawned item may be rejected.          *)
(***************************************************************************)
EXTENDS Naturals, FiniteSets

CONSTANTS Variants,    \* the binaries' builds: one tokenize item, one CSV each
          Binaries,    \* the memmap groups
          BinaryOf,    \* the group a variant belongs to
          Kinds,       \* the task selections a run may be started with
          MaxRuns      \* bound on the runs against one output tree, in a
                       \* container (TRUE) and in place (FALSE)

Phases == {"tokenize", "unify_vocab", "memmap", "index"}

ASSUME PipelineAssumption ==
    /\ BinaryOf \in [Variants -> Binaries]
    /\ Kinds \subseteq Phases \cup {"full"}
    /\ MaxRuns \in [BOOLEAN -> Nat]

VARIABLES container,\* /app/out-tmp exists (is_container_deployment)
          run,      \* the number of the current run (0 before the first)
          kind,     \* what it was started as: the composite, or one child
          skip,     \* its --skip-existing
          phase,    \* the phase it is in, or "idle", "ended", "killed"
          task,     \* the state of every item in this run
          csv,      \* per variant, the tokenizer's CSV on disk
          vocab,    \* unified_vocab.csv on disk
          mapping,  \* per variant, its .mapping.b64c on disk
          memmap,   \* per binary, its memmap artefact set on disk
          rlen,     \* per binary, its four realized-length sidecars
          sidx      \* per binary, its sorted indices

disk == <<csv, vocab, mapping, memmap, rlen, sidx>>
vars == <<container, run, kind, skip, phase, task, csv, vocab, mapping, memmap, rlen, sidx>>

Unify == <<"unify_vocab", "unify_vocab">>
Tok(v) == <<"tokenize", v>>
Memmap(b) == <<"memmap", b>>
Rlen(b) == <<"rlen", b>>
Sidx(b) == <<"sidx", b>>

Tasks == {Tok(v) : v \in Variants} \cup {Unify}
         \cup UNION {{Memmap(b), Rlen(b), Sidx(b)} : b \in Binaries}

PhaseOf(t) == IF t[1] \in {"rlen", "sidx"} THEN "index" ELSE t[1]

Terminal == {"done", "failed", "rejected", "none"}
Active == phase \in Phases

---------------------------------------------------------------------------
(* The artefacts.  gen = 0 is a file that is not there; whole = FALSE is    *)
(* one that a writer in place has opened and not finished.                  *)

Gens == Nat
File == [gen : Gens, whole : BOOLEAN]
NoFile == [gen |-> 0, whole |-> FALSE]

Mapping == [csv : Gens, vocab : Gens]
NoMapping == [csv |-> 0, vocab |-> 0]

NoMemmap == [gen |-> 0, whole |-> FALSE, vocab |-> 0, parts |-> {}]
NoRlen == [present |-> FALSE, whole |-> FALSE, over |-> 0, shape |-> {}]
NoSidx == [present |-> FALSE, whole |-> FALSE, over |-> 0, lens |-> 0]

\* The variants a memmap holds: what its section and variant counts are made of.
Shape(m) == {p.v : p \in m.parts}

\* The parts of a memmap of b: every version whose CSV and mapping exist.
Versions(b) == {v \in Variants : /\ BinaryOf[v] = b
                                 /\ csv[v].gen > 0
                                 /\ mapping[v].vocab > 0}
PartsOf(b) == {[v |-> v, csv |-> csv[v], mapping |-> mapping[v]] : v \in Versions(b)}

\* The directory a binary's sidecars live in: the output root in place; with
\* a container the scope's own directory, made by the first publication.
MemmapDirExists(b) == \/ ~container
                      \/ memmap[b].gen > 0
                      \/ rlen[b].present
                      \/ sidx[b].present

---------------------------------------------------------------------------
(* Item discovery of the four children.                                     *)

DiscoverTokenize(skipping) ==
    {Tok(v) : v \in {u \in Variants : ~(skipping /\ csv[u].gen > 0)}}

DiscoverUnify(skipping) ==
    IF /\ \E v \in Variants : csv[v].gen > 0
       /\ ~(skipping /\ vocab.gen > 0)
    THEN {Unify} ELSE {}

DiscoverMemmap(skipping) ==
    {Memmap(b) : b \in {c \in Binaries : /\ Versions(c) # {}
                                         /\ ~(skipping /\ memmap[c].gen > 0)}}

ItemsForBinary(b) == {Rlen(b), Sidx(b)}

\* The standalone index task: the binaries whose _index.bin is on disk, each
\* item dropped when its whole output set is there.
DiscoverIndex(skipping) ==
    {t \in UNION {ItemsForBinary(b) : b \in {c \in Binaries : memmap[c].gen > 0}} :
        ~ /\ skipping
          /\ IF t[1] = "rlen" THEN rlen[t[2]].present ELSE sidx[t[2]].present}

Discover(p, skipping) ==
    CASE p = "tokenize"    -> DiscoverTokenize(skipping)
      [] p = "unify_vocab" -> DiscoverUnify(skipping)
      [] p = "memmap"      -> DiscoverMemmap(skipping)
      [] p = "index"       -> DiscoverIndex(skipping)

\* What a child's own --skip-existing left out of a run.
Skipped(p, skipping) == Discover(p, FALSE) \ Discover(p, skipping)

\* Mutant of RoutedSkip: the clone of the arguments keeps the flag.
RoutedSkipInherited == skip

\* _route_args: the chained phases never inherit --skip-existing.
RoutedSkip == FALSE

\* Mutant of DependsOn: the index items are not decorated with the edge.
DependsOnSibling(t) == IF t[1] = "sidx" THEN {Rlen(t[2])} ELSE {}

\* task_depends_on: the sorted index waits for the lengths; in the composite
\* the lengths wait for the memmap of the same binary.
DependsOn(t) ==
    (IF t[1] = "sidx" THEN {Rlen(t[2])} ELSE {})
    \cup (IF t[1] = "rlen" /\ kind = "full" THEN {Memmap(t[2])} ELSE {})

\* Mutant of Released: only success releases a dependency.
ReleasedBySuccess(t) == \A d \in DependsOn(t) : task[d] \in {"done", "none"}

\* A dependency is released by success and by permanent failure.
Released(t) == \A d \in DependsOn(t) : task[d] \in Terminal

---------------------------------------------------------------------------
(* Runs and phases.                                                         *)

\* The framework discovers the first phase; an item that names a dependency
\* outside the batch (its sibling was skipped) may be refused.
StartRun(k, s) ==
    /\ phase \in {"idle", "ended", "killed"}
    /\ run < MaxRuns[container]
    /\ LET first == IF k = "full" THEN "tokenize" ELSE k
           items == Discover(first, s)
           orphans == {t \in items : t[1] = "sidx" /\ Rlen(t[2]) \notin items}
       IN  \E R \in SUBSET orphans :
             /\ task' = [t \in Tasks |-> IF t \in R THEN "rejected"
                                         ELSE IF t \in items THEN "waiting" ELSE "none"]
             /\ phase' = first
    /\ run' = run + 1
    /\ kind' = k
    /\ skip' = s
    /\ UNCHANGED <<container, csv, vocab, mapping, memmap, rlen, sidx>>

NextPhase(p) == IF p = "tokenize" THEN "unify_vocab" ELSE "memmap"

\* _spawn_phase_items: the batch of the next phase; the memmap batch carries
\* the index items of its binaries.
SpawnBatch(p) ==
    LET items == Discover(p, RoutedSkip)
    IN  items \cup (IF p = "memmap" THEN UNION {ItemsForBinary(t[2]) : t \in items} ELSE {})

\* The items spawn_tasks may reject together: with an item go those that
\* depend on it.  A missing primary_handle loses the whole batch.
Rejectable(batch) ==
    {R \in SUBSET batch : \A t \in R, u \in batch : t \in DependsOn(u) => u \in R}

\* The framework ends a phase when none of its items is left to run.
Drained == \A t \in Tasks : task[t] \in Terminal

\* on_phase_end of a phase the composite chains from: neither the number of
\* failed items nor a rejection stops the next phase.
EndPhase ==
    /\ kind = "full"
    /\ phase \in {"tokenize", "unify_vocab"}
    /\ Drained
    /\ phase' = NextPhase(phase)
    /\ \E R \in Rejectable(SpawnBatch(NextPhase(phase))) :
         task' = [t \in Tasks |->
                    IF t \in R THEN "rejected"
                    ELSE IF t \in SpawnBatch(NextPhase(phase)) THEN "waiting"
                    ELSE task[t]]
    /\ UNCHANGED <<container, run, kind, skip, csv, vocab, mapping, memmap, rlen, sidx>>

\* The last phase drains: memmap and index together in the composite.
EndRun ==
    /\ Active
    /\ kind = "full" => phase = "memmap"
    /\ Drained
    /\ phase' = "ended"
    /\ UNCHANGED <<container, run, kind, skip, task, csv, vocab, mapping, memmap, rlen, sidx>>

\* The coordinator and its workers are gone; the output tree stays.
Kill ==
    /\ Active
    /\ phase' = "killed"
    /\ task' = [t \in Tasks |-> "none"]
    /\ UNCHANGED <<container, run, kind, skip, csv, vocab, mapping, memmap, rlen, sidx>>

---------------------------------------------------------------------------
(* Workers.  Begin takes the item; in place, some of its files may already  *)
(* be overwritten when the attempt later fails or dies.                     *)

\* Mutant of InPlace: every worker writes at the final place.
InPlaceAlways(t) == TRUE

\* staged_publish and staged_inputs write in place outside a container; the
\* two index workers also do so when there was nothing to stage.
InPlace(t) ==
    \/ ~container
    \/ t[1] = "rlen" /\ memmap[t[2]].gen = 0 /\ MemmapDirExists(t[2])
    \/ t[1] = "sidx" /\ memmap[t[2]].gen = 0 /\ ~rlen[t[2]].present

Torn(f) == [f EXCEPT !.gen = run, !.whole = FALSE]
TornSet(s) == [s EXCEPT !.present = TRUE, !.whole = FALSE]

Begin(t) ==
    /\ task[t] = "waiting"
    /\ Released(t)
    /\ task' = [task EXCEPT ![t] = "running"]
    /\ \/ UNCHANGED disk
       \/ /\ InPlace(t)
          /\ \/ /\ t[1] = "tokenize"
                /\ csv' = [csv EXCEPT ![t[2]] = Torn(@)]
                /\ UNCHANGED <<vocab, mapping, memmap, rlen, sidx>>
             \/ /\ t = Unify
                /\ \E V \in SUBSET {v \in Variants : csv[v].whole} :
                     mapping' = [v \in Variants |->
                        IF v \in V THEN [csv |-> csv[v].gen, vocab |-> run] ELSE mapping[v]]
                /\ vocab' \in {vocab, Torn(vocab)}
                /\ UNCHANGED <<csv, memmap, rlen, sidx>>
             \/ /\ t[1] = "memmap"
                /\ memmap' = [memmap EXCEPT ![t[2]] = Torn(@)]
                /\ UNCHANGED <<csv, vocab, mapping, rlen, sidx>>
             \/ /\ t[1] = "rlen"
                /\ rlen' = [rlen EXCEPT ![t[2]] = TornSet(@)]
                /\ UNCHANGED <<csv, vocab, mapping, memmap, sidx>>
             \/ /\ t[1] = "sidx"
                /\ sidx' = [sidx EXCEPT ![t[2]] = TornSet(@)]
                /\ UNCHANGED <<csv, vocab, mapping, memmap, rlen>>
    /\ UNCHANGED <<container, run, kind, skip, phase>>

Finished(t) ==
    /\ task[t] = "running"
    /\ task' = [task EXCEPT ![t] = "done"]
    /\ UNCHANGED <<container, run, kind, skip, phase>>

Fail(t) ==
    /\ task[t] = "running"
    /\ task' = [task EXCEPT ![t] = "failed"]
    /\ UNCHANGED <<container, run, kind, skip, phase, csv, vocab, mapping, memmap, rlen, sidx>>

\* run_tokenizer: the CSV with its sidecars.
TokenizeDone(v) ==
    /\ Finished(Tok(v))
    /\ csv' = [csv EXCEPT ![v] = [gen |-> run, whole |-> TRUE]]
    /\ UNCHANGED <<vocab, mapping, memmap, rlen, sidx>>

\* unify_vocab: one vocabulary over the CSVs that load, one mapping each; a
\* CSV that does not load is passed over, whatever mapping it had stays; no
\* CSV at all is an error.
UnifyDone ==
    /\ Finished(Unify)
    /\ \E v \in Variants : csv[v].whole
    /\ vocab' = [gen |-> run, whole |-> TRUE]
    /\ mapping' = [v \in Variants |-> IF csv[v].whole
                                       THEN [csv |-> csv[v].gen, vocab |-> run]
                                       ELSE mapping[v]]
    /\ UNCHANGED <<csv, memmap, rlen, sidx>>

\* The memmap worker: the versions whose inputs exist, against the unified
\* vocabulary on disk; without that vocabulary it does not start.
MemmapDone(b) ==
    /\ Finished(Memmap(b))
    /\ vocab.whole
    /\ Versions(b) # {}
    /\ memmap' = [memmap EXCEPT ![b] =
                    [gen |-> run, whole |-> TRUE, vocab |-> vocab.gen, parts |-> PartsOf(b)]]
    /\ UNCHANGED <<csv, vocab, mapping, rlen, sidx>>

\* The realized-length worker.  A binary without a memmap has empty arms; the
\* sidecars are then written in its directory, if that exists.
RlenDone(b) ==
    /\ Finished(Rlen(b))
    /\ MemmapDirExists(b)
    /\ rlen' = [rlen EXCEPT ![b] = [present |-> TRUE, whole |-> TRUE,
                                    over |-> memmap[b].gen, shape |-> Shape(memmap[b])]]
    /\ UNCHANGED <<csv, vocab, mapping, memmap, sidx>>

\* The sorted-index worker.  Without a memmap every index is the empty one;
\* otherwise the lengths must exist and be as many as the memmap's variants.
SidxDone(b) ==
    /\ Finished(Sidx(b))
    /\ memmap[b].gen > 0 => /\ rlen[b].present
                            /\ rlen[b].shape = Shape(memmap[b])
    /\ sidx' = [sidx EXCEPT ![b] = [present |-> TRUE, whole |-> TRUE, over |-> memmap[b].gen,
                                    lens |-> IF memmap[b].gen > 0 THEN rlen[b].over ELSE 0]]
    /\ UNCHANGED <<csv, vocab, mapping, memmap, rlen>>

---------------------------------------------------------------------------
Init ==
    /\ container \in BOOLEAN
    /\ run = 0 /\ kind = "full" /\ skip = FALSE /\ phase = "idle"
    /\ task = [t \in Tasks |-> "none"]
    /\ csv = [v \in Variants |-> NoFile]
    /\ vocab = NoFile
    /\ mapping = [v \in Variants |-> NoMapping]
    /\ memmap = [b \in Binaries |-> NoMemmap]
    /\ rlen = [b \in Binaries |-> NoRlen]
    /\ sidx = [b \in Binaries |-> NoSidx]

Work(t) == Begin(t) \/ Fail(t)

Complete ==
    \/ \E v \in Variants : TokenizeDone(v)
    \/ UnifyDone
    \/ \E b \in Binaries : MemmapDone(b) \/ RlenDone(b) \/ SidxDone(b)

Next ==
    \/ \E k \in Kinds, s \in BOOLEAN : StartRun(k, s)
    \/ EndPhase \/ EndRun \/ Kill
    \/ \E t \in Tasks : Work(t)
    \/ Complete

\* The scheduler hands out what is ready and every attempt ends one way or
\* the other; nobody is obliged to start a run or to kill one.
Fairness ==
    /\ WF_vars(EndPhase) /\ WF_vars(EndRun)
    /\ \A t \in Tasks : WF_vars(Work(t))

Spec == Init /\ [][Next]_vars /\ Fairness

---------------------------------------------------------------------------
(* Properties.                                                              *)

\* The types, and the barriers: only the items of the current phase are alive,
\* with the index items beside the memmap items of the composite.
TypeOK ==
    /\ \A t \in Tasks : task[t] \in {"waiting", "running"} =>
         PhaseOf(t) = phase \/ (kind = "full" /\ phase = "memmap" /\ PhaseOf(t) = "index")
    /\ container \in BOOLEAN
    /\ run \in Gens /\ kind \in Kinds \cup {"full"} /\ skip \in BOOLEAN
    /\ phase \in Phases \cup {"idle", "ended", "killed"}
    /\ task \in [Tasks -> Terminal \cup {"waiting", "running"}]
    /\ csv \in [Variants -> File] /\ vocab \in File
    /\ mapping \in [Variants -> Mapping]
    /\ \A b \in Binaries :
         /\ memmap[b].gen \in Gens /\ memmap[b].vocab \in Gens
         /\ Shape(memmap[b]) \subseteq {v \in Variants : BinaryOf[v] = b}
         /\ rlen[b].over \in Gens /\ sidx[b].over \in Gens /\ sidx[b].lens \in Gens

\* A part was translated with the mapping of its own CSV into the vocabulary
\* of the memmap that holds it.
Coherent(m) == \A p \in m.parts : /\ p.csv.whole
                                  /\ p.mapping = [csv |-> p.csv.gen, vocab |-> m.vocab]

\* After a run of the whole pipeline in which no item failed or was rejected,
\* everything in the output tree belongs together: each binary's memmap was
\* built in this run from all the CSVs that are there, with the mappings and
\* the vocabulary of this run, and both indices were computed from that
\* memmap - whatever earlier runs left, and in a container with
\* --skip-existing too (the reason _route_args clears skip_existing).
CleanRunIsFresh ==
    (/\ phase = "ended" /\ kind = "full"
     /\ container \/ ~skip
     /\ \A t \in Tasks : task[t] \notin {"failed", "rejected"})
    => \A b \in Binaries :
         LET built == {v \in Variants : BinaryOf[v] = b /\ csv[v].gen > 0}
         IN  built # {} =>
               /\ memmap[b].gen = run /\ memmap[b].vocab = run
               /\ Shape(memmap[b]) = built
               /\ \A p \in memmap[b].parts : p.csv = csv[p.v]
               /\ Coherent(memmap[b])
               /\ rlen[b].over = run
               /\ sidx[b].over = run /\ sidx[b].lens = run

\* The phases are barriers, and whatever fails elsewhere, a binary whose memmap and lengths were both made
\* in this run has lengths of this memmap, and so has its sorted index (the
\* edges decorate_index_items_with_memmap_dep and items_for_binary add).
ChainInOrder ==
    TypeOK /\ ((kind = "full" /\ Active) =>
    \A b \in Binaries :
        (task[Memmap(b)] = "done" /\ task[Rlen(b)] = "done") =>
            /\ rlen[b].over = run
            /\ task[Sidx(b)] = "done" => sidx[b].over = run /\ sidx[b].lens = run)

\* In a container, a memmap published by the whole pipeline mixes the CSV of one run with the
\* mapping or the vocabulary of another only if the unification of that run
\* failed or never reached the cluster: kills, failed tokenizations and
\* --skip-existing cannot cause it (on_phase_end runs the next phase anyway).
MixedOnlyAfterLostUnify ==
    [][ \A b \in Binaries :
          (container /\ kind = "full" /\ memmap'[b] # memmap[b] /\ ~Coherent(memmap'[b]))
          => task[Unify] \in {"failed", "rejected"} ]_vars

\* In a container, what --skip-existing leaves out of a run is complete: the
\* file whose presence it tests was finished with its whole set (the CSV name
\* of the tokenize task, unified_vocab.csv, the _index.bin marker of memmap).
SkippedIsComplete ==
    [][ \A t \in Tasks :
          (/\ container /\ run' = run + 1 /\ skip'
           /\ t \in Skipped(phase', TRUE) /\ PhaseOf(t) # "index")
          => CASE t[1] = "tokenize" -> csv[t[2]].whole
               [] t = Unify         -> vocab.whole
               [] t[1] = "memmap"   -> memmap[t[2]].whole ]_vars

\* Every run that is not killed comes to its end: the barrier phases, the
\* edges between items and the failures release each other.
RunEnds == Active ~> ~Active

=============================================================================
