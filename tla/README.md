# Verification of asm-tokenizer

TLA+ models of the parts of asm-tokenizer whose correctness depends on order,
failure or long sequences of calls, checked with TLC on small instances and, for all
but the vocabulary unifier, proved with TLAPS for every value of the constants.

## 1. The system

Binaries are turned into a training corpus in four phases, each one a task of an
external scheduler (`dynamic_runner`), and the corpus is read by a loader.

| Part | State it keeps | Operations | Works with |
|---|---|---|---|
| Disassembly providers (`tokenizer/disasm`) | Ghidra / angr project | `iter_functions` in canonical-name order | main loop |
| Main loop (`tokenizer/main_loop.py`, `function_deduper.py`, `callee_occurrence_backfill.py`, sidecars) | deduper map, occurrence counter, CSV, range and string sidecars | one iteration per function, backfill | memmap builder, through the CSV |
| Vocabulary unifier (`tokenizer/vocab_unifier`) | unified token numbering, mapping per CSV | merge, save | memmap builder |
| Memmap builder, merge and pass 1 (`aligned_data/parsed_record_iter.py`, `memmap_builder/passes.py`) | one lookahead per CSV, duplicated names, spooled entries | merge, walk matched, walk unmatched | record store, pass 2 |
| Memmap builder, record store (`memmap_builder/_dedup.py`, `aligned_data/memmap_writer.py`, `dedup_hashmap`) | data file, primary and collision maps | `dedup_and_write`, finalize | pass 1 |
| Memmap builder, pass 2 and section writer (`_pass2.py`, `aligned_data/matched_sections_bin.py`) | section file, known sections, holes | begin / end of section and variant, finalize | the loader, through the file |
| Index builders (`sorted_index`, `realized_lengths`) | spliced length per depth and variant, index files | build | loader |
| Pipeline tasks, staging (`dynrunner`, `tokenizer/output_staging.py`) | items per phase, stage directory, published set | discover, run, publish, retry, skip | scheduler (external) |
| Splice inclusion (`dedup_hashmap/src/once_only_inclusion.rs`, `row_inclusions.rs`, `splice_inclusion`) | columns and mask of the current root | `begin_root`, `step_level` | index builder, loader |
| Loader: session, batch decode, vector batch | memory maps, lazy catalog | decode a batch | prefetcher, ready pool |
| GPU prefetcher (`loader/gpu_prefetcher`) | semaphore, request / result / ready queues, worker processes, upload thread | `start`, `submit`, `get`, `close` | training loop |
| Ready pool and its GPU layer (`loader/ready_pool`) | one bounded buffer per config, refill threads, one upload in flight | `start`, `get`, `close`, `prime` | training loop |
| Inspector, validation, scripts, preprocessing | – | – | stand-alone |

What is hard in them, and what makes each one correct:

* **Prefetcher.** Processes that crash, answer out of order or lose a result; an
  upload thread; `close()` at any moment. Correct when answers come in the order
  of the requests, once each, with at most `decode_ahead` in flight, when no
  request waits for ever, and when a death is reported only after one.
* **Ready pool.** Threads that fail, bounded buffers, `close()` from another
  thread, restart. Correct when each config is served in order, the memory is
  bounded, and neither `get()` nor a thread waits for ever.
* **Record store.** A two-tier index on a 64-bit hash, with 0 as both a sentinel
  and a number. Correct when equal offsets mean equal bodies, for *any* hash.
* **Merge and pass 1.** Several sorted streams, names repeated inside a stream,
  bodies the encoder refuses, a function that moves from one walker to the other.
  Correct when every row ends in exactly one place.
* **Section writer and pass 2.** Calls to sections that come later, earlier, in
  the same section, several times or never; two halves of a pointer filled at
  different times. Correct when what a reader follows leads to the function
  called and the variant of the caller.
* **Main loop.** Every error is caught and the loop goes on with what was assigned
  before it. Correct when the rows stay addressable and no body disappears.
* **Pipeline and staging.** Kills, failed and rejected items, partial outputs,
  several runs over one tree, lazy discovery. Correct when a run without failures
  leaves artefacts that belong together, whatever lay there before, and every run
  ends.
* **Vocabulary unifier.** One numbering from many, two eras of reserved ids, files
  written one by one over those of an earlier run. Correct when every id of a
  token stream keeps its meaning through mapping, saved row and loader.
* **Splice inclusion.** One reused mask, recursive call graphs, a lazy catalog, and
  two sides (index and loader) that walk separately. Correct when a function is
  spliced at most once per row, index and loader agree, and nothing is read before
  it is resident.

## 2. Modules

```
PrefetchService <--refines-- GpuPrefetcher --- GpuPrefetcherProofs
ReadyPool <--extends-- GpuReadyPool --- GpuReadyPoolProofs
ContentStore <--refines-- DedupStore --- DedupStoreProofs
LockstepMerge <--extends-- MemmapPass1 --- MemmapPass1Proofs
SectionWriter <--extends-- MemmapPass2 --- MemmapPass2Proofs
TokenizeLoop --- TokenizeLoopProofs
FullPipeline --- FullPipelineProofs
SpliceInclusion --- SpliceInclusionProofs
VocabUnifier
```

Each has an `MC…` module with the constants of its runs. Definitions called
*mutant* in a comment are deliberately wrong variants of the definition that
follows; they are used only to see that a property notices them.

**GpuPrefetcher.** One program counter per thread of control: the client in
`submit` (`spc`), in `get` (`cpc`), `close` (`kpc`), each worker (`wpc`) and the
upload thread (`upc`). The queues are sequences; a worker's results pass through
the buffer of its queue's feeder thread (`outbuf`). The feeder sends a large result
in several writes to the pipe, under the write lock of the queue: `FeederBegin` and
`FeederSend` are the first and the last of them, `writing` is the worker in between,
and `torn` says that one was killed there. A step is what happens between
two points where another thread can act: `SubmitAcquire`, `SubmitNumber` and
`SubmitPut` are separate, and so are the empty poll (`UploadEmpty`), the question
whether a worker crashed (`UploadCheck`) and the surfacing (`SurfaceLoop`,
`SurfaceHead`). `Faults` names what may go wrong: a worker crash (anywhere, half-way
through a send included), a result the feeder drops because it does not pickle, an
upload that raises.

**PrefetchService** is the promise: a FIFO of requests, each answered once in
order; the mapping is the identity on `submitSeq`, `delivered` and the like.

**ReadyPool** has one counter per refill thread (`tpc`) and one for the consumer
(`cpc`); `GetGate` reads `_closing` and `GetCheck` asks the monitor later, as the
code does. **GpuReadyPool** adds the batch in flight, what each call named and the
batches that were popped and whose pinning or upload then raised (`LaunchFails`,
`failed`).

**DedupStore** has the file (`bin`, from offset to record), the write position,
the counter of records and the two maps. The branches of `dedup_and_write` are
actions: `PrimaryMiss`, hit, `Promote` (first collision), `CollisionMiss`, and the
encoder's refusal. **ContentStore** is the promise: a body has one offset.

**LockstepMerge** is the k-way merge with its lookaheads, run stepwise; its result
is compared with a definition that knows neither streams nor lookaheads
(`ItemsFor`). Where the code walks the variants in order and the rows of each in
theirs, the model lists the set of rows by rank (`InRowOrder`). **MemmapPass1** feeds what it yields to the walkers. Bodies stand for
record offsets; `OffsetIsIdentity`, proved for the store, is the reason that may be
done. The refusal of one variant by the encoder, the re-route of a function whose
bodies collapse, and LOCAL labels are all there.

**SectionWriter** is the file under construction with the tables of known sections
and of sections that wait for one; **MemmapPass2** drives it with every plan that
pass 1 can leave (`SectionsAddressable` is where the two meet) and chooses the
calls of a section when it opens. The offset of a section is its number.

**TokenizeLoop** is the loop over functions: `SkipFunction`, `FoldFunction`,
`WriteFunction`, the two ways a row fails (`WriteFails` before it is in the CSV,
`RangeFails` after), the close and the backfill. An identity is the triple (name,
comment, identity_key); several may have one canonical name. `occurence` is spelt
as in the code. Only format version 2 is modelled; version 1 has no backfill.

**VocabUnifier** is `unify_vocab` step by step: `OpenCsv`, one `MergeToken` per
representative, `EndCsv` with the mapping file, then `AddVariants` or `RefuseVariant`
(a token with a space raises), the ceiling and `SaveVocabulary`, over several runs
that write one directory in place. The table
of the `VocabularyManager` is a sequence of (name, type, platform); the row on disk
is what `save_vocabulary` makes of it and `LoadUnified` reads it back, so commas,
the stripped prefix and the length check are in the model. `Kill` may tear either
file. A CSV is its tokens, its era, its ISA and what its sidecar parses to.

**FullPipeline** has the state of every item and the output tree. An artefact
carries the number of the run that wrote it and of what it was computed from; that
is all the properties need. `StartRun` is the discovery of the first phase,
`EndPhase` the callback that discovers and spawns the next. `Begin` takes an item
and, when the worker writes in place, may already have overwritten its files;
`…Done` publishes, `Fail` does not. The scheduler's rules (barrier, release of a
dependency by success *or* permanent failure, rejected spawns) are modelled from
how the tasks use them and marked external.

**SpliceInclusion** has a catalog (sections, variants, call slots), the decider and
one walk at a time, one action per level. It first builds the index over all roots
(`Build…`), then draws batches: closure, emission walk and pool walk per group,
`Geometry`, `Backfill`, `Scatter`. `resident` is the set of sections whose columns
the lazy catalog has filled. The layout of a row and its cut are operators. Where the
code walks an array in order, the model lists a set by rank (`InOrder`), as in
LockstepMerge, and where it accumulates, it sums by a recursive function (`Sums`,
`Reach`, `Backfilled`).

## 3. Runs

| Run | Asks | Bounds and why they are enough |
|---|---|---|
| `prefetcher` | slots, honest deaths, refinement of the service (FIFO, once each) | 2 workers (the least that reorder), 3 requests with `decode_ahead` 2 (the semaphore blocks), all faults, one start |
| `prefetcher_liveness` | every request is answered unless the prefetcher is closed or a half-sent result blocks its pipe, `close()` returns, none is worked on twice | the same with 2 requests and crashes, half-way through a send too |
| `pool` | decoding ahead is bounded, `get()` returns, threads stop | 2 threads on one config, both may fail, concurrent close, one restart |
| `gpu_pool` | order per config, a batch is lost only if its own upload raised, each call collects what the previous one named | 2 configs with a thread each, 3 calls, with and without fallback, any of the uploads may raise |
| `dedup` | identity of offsets, dense ordinals, refinement of the store | 6 bodies on 2 hashes: chains of three, first record at the lowest offset, one refused body |
| `pass1` | merge against its definition, every row once, aligned and addressable sections; deadlock checking shows that it gets to the end | 2 streams of up to 2 rows over 3 names (one a LOCAL label), 3 bodies, one refused: all inputs |
| `sections` | pairs resolve, the file can be sealed and a sealed file leads every call to its callee or marks it missing for want of one (`SealedResolves`), one stamp per slot, provider lines are lost only to a namesake | 3 sections over 2 names, 4 variant blocks, 2 call targets: forward, backward, self, duplicated, extern and dropped callees; sentinels at 2 and 3 |
| `tokenize_loop` | addressable rows, contiguous occurrences, folded bodies kept, calls disambiguated | 4 functions, 3 identities (two share a name), 2 bodies, one call (the entries of a cell are stamped independently) |
| `vocab` | mappings translate, stale mappings only for skipped CSVs, platform of shared mnemonics, variant records round-trip | 2 runs over one directory; 2 digit slots, 3 ISAs of 2 families, corpora of up to 3 CSVs in every order, chosen so that each early exit, each era, a shared mnemonic, a comma, a colon, a space and the ceiling occur; kills everywhere |
| `pipeline` | a clean run is fresh, index chain in order, mixing needs a lost unification, skipped is complete, runs end | 2 variants of one binary (a mixture needs two); 3 runs in a container, 2 in place, where there are more partial states (a later run meets what the earlier ones left); the composite or one of unify, memmap and index alone |
| `splice` | the mask is of this root, functions are spliced once and only where rows differ, loader equals index, residency, rows filled by backfill and cut exactly | all call graphs of a family with a root of 3 variants and 2 callees (self and mutual recursion included), all values of a slot (missing with and without fallback, extern, dangling), an empty section, a chain, a diamond; every sample of variants, 2 batches (residency carries over), 2 groups per batch on the chain, context lengths around the cut |
| `splice_resident` | *violated:* what the scatter reads is resident | the same |

`CHECK_DEADLOCK FALSE` is given where the system may stop: a client that does not
call again, a walk that is over. `pass1`, `sections` and `tokenize_loop` check deadlock
and have an explicit terminated step.

The type invariants of the prefetcher, the record store and the main loop are proved
by themselves (section 5); in the other modules `TypeOK` is a conjunct of an invariant
of the run: `OnlyFailedUploadsLost`, `SectionsAddressable`, `PairsResolve`, `ChainInOrder` (where
it includes the barriers between phases) and `MaskIsOfThisRoot`, which are proved too,
and `MappingTranslates`.

Fairness. `prefetcher_liveness`: weak fairness of the workers, the upload thread,
a `submit()` or `close()` already begun and of the consumer calling `get()`: the
operating system schedules live threads, and the consumer of a training loop keeps
asking. All waits of these threads poll with a timeout but one: once part of a result
is in the pipe, `_result_q.get(timeout=0.2)` (`gpu_prefetcher/__init__.py:354`) reads
on without one until all of it is there. A feeder that has begun to write is therefore
assumed to go on unless its worker is killed or the prefetcher is closed (until then
the upload thread keeps reading, so the write cannot block for good); when it is
killed there, `torn` excuses `NoRequestParks`, and section 4 says why. Crashes have no
fairness.
`pool`: weak fairness of the refill threads and of a `get()` already begun. The
calls of a client that are optional (`start`, `close`) have none. `pipeline`: weak fairness of the end of a
phase and of a run and, per item, of being taken or ending; an attempt may always
fail instead of finishing, which is what the scheduler's time-out enforces. Nothing
obliges anyone to start, kill or finish successfully.

## 4. What differs from the comments

`splice_resident` ends in a violation on purpose; `findings` in `PROJECT.json` quotes
the lines. `compute_batch_geometry` says that every emitted node has its section
materialised before the scatter reads it, but the nodes that backfill appends come
after that pass: a backfilled callee of the last level may lie in a section that was
never ensured, whose lazy columns are zero, and its tokens are then read from the
start of the data file.

Others were met while modelling and have no run of their own:

* A request surfaced as `PrefetchWorkerDied` can still get its result: the empty
  poll is older than the crash it is combined with. `_worker_monitor.py:61` says of
  the two together "it proves the owed result will never arrive". The late result
  stays in `_pending`; `ImplementsService` and the theorem `FifoCorrect` show that it
  is not served afterwards.
* A worker that is killed half-way through *sending* a result leaves the upload thread
  reading the rest of it: `poll()` has succeeded, and no end of file comes, because the
  parent and the other workers hold the write end too (nor do their feeders get the
  write lock the dead one held). `crashed()` is then never asked and `get()` waits for
  ever, although `_worker_monitor.py:10` gives it as the purpose of the check that a
  dead worker's request, "permanently owed", must not park `get()`. The model has this (`torn`), the safety properties hold with it, and `NoRequestParks`
  excludes it in so many words; without that disjunct TLC shows the request waiting.
* The put of that error does not look at `_closing`, although
  `gpu_prefetcher/__init__.py:396` says "``_closing`` breaks it on teardown";
  `CloseReturns` holds because `close()` joins with a time-out.
* `ReadyPoolWorkerDied` is raised when *one* thread of a config is dead; `_pool.py:173`
  says "if every thread feeding ``key`` has died silently".
* `_resolve_caller_section` patches call-target rows by name and overwrites the
  provider line of an EXTERN row of that name (`matched_sections_bin.py:1720`, against
  `:1597`). `ProviderLostToNamesake` says that nothing else does.
* The sorted-index worker calls the realized lengths "a hard precondition the
  dependency edge guarantees" (`sorted_index_worker.py`), but the edge is released by
  a permanent failure too. Without `_index.bin` an empty index is then written;
  lengths of an earlier memmap with as many variants pass the count check of
  `_builder.py`.
* Outside a container `--skip-existing` takes a partial set for complete; the
  properties about skipping are stated for containers. Tokenize items are skipped by
  the base name of the CSV alone. A sorted-index item whose lengths item was skipped
  names a dependency that is not in its batch.
* The temporary files of a killed attempt stay in the stage directory and a retry in
  the same container publishes them (`output_staging.py:137`); not in the model.
* A CSV that does not load is passed over by the unifier and keeps its old mapping,
  which means nothing under the new ids; the memmap task pairs the two by name.
  A run that raises at the ceiling, or because a variant's token has a space
  (`token_manager.py:1877`), has already rewritten all mappings.
* A variant metadata value with a comma makes the saved vocabulary unloadable
  (its length check keeps it from being misread); `variant_info.py` calls the
  metadata opaque. A colon in one sidecar key aborts the whole unification. The flag
  `--insert-neg-value` is not compared with the era of the CSVs.
* After promotion `PlatformTokenInner._from_token_ids` raises on the unified table:
  the joint name is no key of `PLATFORM_FAMILY`. `arch/__init__.py:25` says a name
  like `mips32_addu` marks a single ISA; the code always uses the family. The
  docstring of `inventory.py` places variants at low ids; they are at the tail.
* `_walker.py:19` calls the index length "a LOOSE UPPER BOUND on the emitted token
  count". With a sample of the variants it is not: a function that all sampled rows
  call is pruned and no longer hides what is reached only through it elsewhere, so
  a row can be longer (a diamond of four sections shows it). With all variants
  sampled the two are equal (`LoaderMatchesIndex`). Backfill may append another
  variant of a function the row has.
* A result that does not pickle is dropped by the feeder and its request waits for
  ever; an `_upload_one` that raises ends the upload thread.
* `start()` after `close()` of the prefetcher starts a dead one: `_closing` is never
  cleared. (The runs start once; the proofs cover any number of starts.)
* The pool decodes `ready_depth` plus one batch per thread, not `ready_depth`.
* A `get()` that overlaps `close()` may wait for ever, or report the clean exit of
  its thread as a death; `GetReturns` is about an open pool.
* An upload or `pin_host` that raises after the pop (`_gpu_pool.py:145`, `:174`) loses
  that batch: the next call pops the one after it, and the caller cannot tell from the
  error that one is missing. The batch in flight survives; `OnlyFailedUploadsLost` says
  that nothing else is lost.
* `main_loop` says that a duplicate "was already written"; the deduper records
  before the row is written, so after a failed row it was not (`FoldedIsKept` says
  exactly what is left). A divergent body that repeats is not folded, although all
  four axes match. A call to a *folded* body of a shared name gets no occurrence,
  because only written rows have one.
* After an I/O error of the range sidecar the next row of that name repeats its
  occurrence; the properties that depend on it are stated for files in step.
* The backfill says that the occurrence lets the build side resolve siblings; pass
  2 never passes `callee_occurrence`, so calls to duplicated names stay missing.
* Several inputs with one version key share a reference: a backward call takes the
  first such variant of the callee, a forward call the last.
* A duplicated name becomes sibling sections keyed by (name, occurrence), not
  variant blocks of one section; a slot for such a name points to the last sibling
  only when it was written before it.

## 5. Proofs

All proofs are for arbitrary constants; the assumptions are the named `ASSUME`s
of the modules (sets non-empty, capacities as the constructors demand, the canonical
name a function of the identity, sizes positive).

**GpuPrefetcherProofs**: `TypeCorrect`, `FifoCorrect`, `BackPressureCorrect`,
`DiedCorrect`, `Refinement`, `NeitherLostNorDoubled`. `FifoOnce` is not inductive: it needs `FlowInv` (what
was taken, what is ready and what the upload thread holds are consecutive
numbers). The semaphore needs `SlotInv`, an equation that accounts for every slot,
and `KnownSeqs` (no number travels that `submit` has not given out). Honest deaths
need `CrashInv`, the places the upload thread can be at while no worker has crashed.
`Conservation` counts copies; its invariant `PlaceInv` says where they can be: the
places a request passes, from its number to its answer, hold disjoint sets of
numbers (`OnePlace`), none twice (`OneCopy`), and all of them together unless
something was lost (`NoneMissing`). A request that was given up with an error may
still arrive; it then stays in `_pending`, and is counted once because the error in
its place is not a copy of it. `StartsFresh` is there because `start()` forgets what
a worker was doing. None of this depends on a result being sent at once: a half-sent
one is still at the head of `outbuf`, and whoever kills its worker loses it there.

**DedupStoreProofs**: `TypeCorrect`, `OffsetsIdentify`, `OrdinalsCorrect`, `Implements`. The
invariant says that records lie one after the other (`Placed`), each body once
(`StoredOnce`), that the maps lead to every record of a hash (`Indexed`), that
answers are where the body is (`Answered`), and that ordinals count (`Counted`).
Nothing is assumed of the hash, so the result includes the case in which all bodies
collide.

**TokenizeLoopProofs**: `TypeCorrect`, `Addressable`, `Contiguous`, `Kept`,
`Disambiguated`. The counter looks only at the previous row's name; that this gives
unique numbers depends on the sorted input. `OrderInv` says how: `prev_func_name`
never passes the last name yielded, no row is named after it, and while that name
is still being yielded the counter is at least the occurrence of each of its rows.
`LastRowInv` is the same with equality, while nothing fails. `SeenInv` relates the
deduper to the CSV. The backfill needs in addition that addresses are distinct.

**GpuReadyPoolProofs**: `FifoAlways`, `BoundAlways` for the pool with any client;
`LayerKeepsThePool`, `HandedOnOnce`, `NamesTheNext`, `FifoUnderTheLayer` for the upload
layer. That a queue is in order says nothing of the item a thread is about to put, nor
of those already taken. So `LineInv` speaks of the taken items and the queue of a
config as one line, in which a thread's items ascend and nothing follows its
exception; `ThreadInv` relates a thread's counter to the item it holds; `GapInv` adds
that before `close()` none is missing, which is what makes *consecutive* of
*ascending*. A step of the layer is a step of the pool or leaves the pool alone, so
the layer inherits the two theorems. `LayerInv` adds what the layer holds: a call is
inside both or neither, and each launch has named the config of what it launched.
`HandedOnOnce` says that a popped batch is launched, in the order of its config and
never twice, or is among the `failed`. For both ends of a launch the key is `TakenNow`:
the batch just popped is the last one taken of its config and was not taken before.

**MemmapPass1Proofs**: `MergeIsCorrect`, `EveryRowIsOnce`, `SectionsAreAddressable`, for
any number of streams and any sorted rows. The merge compares only lookaheads; what
makes its result right is `CursorInv`: every row that has been read has a smaller
name than every row that has not. Hence the run drained from a stream is all that
stream holds of the least name (`Run`), the rows of the matching streams are all
there is of it (`TurnRows`), and a turn yields exactly `ItemsFor` it (`TurnItems`).
`YieldInv` keeps that for all names read. Least and greatest elements and the ranks
of `InRowOrder` rest on the well-foundedness of the naturals (`Least`), used as a
property of sets. For pass 1, no row is in two items (`SharedRow`), so the invariants
of the two arms are about the *set* of items processed: one entry per item with
signal in the one, one per surviving row of every other item in the other. Sections
of one name have different occurrences because the count of equal names before a row
grows strictly along a stream (`OccurrencesDiffer`), and is 0 where the name is not
repeated (`OneRowEach`).

**MemmapPass2Proofs**: `PairsAlwaysResolve`, `SealAlwaysResolves`, `ProviderKept`,
`StampsOnce`, for any plan that pass 1 can leave (`Planned`) and any choice of calls. A
pointer that is not yet right is not wrong only if someone is still going to fill it:
`RowOK` and `SlotOK` say of every row and slot that it leads to its callee, is closed
for good, or belongs to a section that waits in `pending` for a name not yet written.
`finalize` then finds no hole because at the end every name of the plan is written.
The section that is open obeys the same, but for its calls to itself, which its own
`end_section` resolves (`SelfCall`).

**FullPipelineProofs**: `SkippingIsSafe`, `MixingNeedsALoss`, `ChainsInOrder`,
`CleanRunsAreFresh`, for any variants, binaries, runs and faults. `BarrierInv` and
`FreshInv` say in which phase an item may be alive and that later phases have none;
`TokenizeInv`, `UnifyInv` and `MemmapInv` what the items of *this* run that are done
have left behind: the freshness of a chain follows from that of what it reads,
phase by phase, and is not invariant of the artefacts alone, since any of them may be
an earlier run's. `WholeInv` (in a container only whole sets are visible) carries the
two action properties about skipping and mixing.

**SpliceInclusionProofs**: `TypeCorrect`, `MaskCorrect`, `SpliceCorrect`,
`ResidentCorrect`, `LoaderCorrect`, `ContextCorrect`, for any catalogs (recursive,
with any slots and variants), any groups, depths and context lengths.
  * `DeciderInv` speaks of the reused mask: every cell that is set lies in the region
    the decider says it uses, and the columns of its functions are distinct and below
    `cols`. It is what makes `begin_root`, which zeroes only that region, yield the
    fresh decider whatever came before (`Begun`), and `step_level` mark exactly the
    cells of the pairs it was asked about (`Stepped`). `StateInv` ties it to the walk.
  * `SpliceInv` adds that all a row has spliced is marked for it, so an included pair,
    which was not, is new to the row (`RowExtended`), and that a function just
    included is unmarked in some row, which therefore does not have it.
  * `ResidentInv` says that the sections of a frontier at level n are within n hops of
    the batch's roots; the closure has depth - 1 hops, and the last level is not
    expanded. `Reach` grows with its hops (`ReachFacts`).
  * That index and loader agree is not an invariant of either. `Full(s)` is the walk
    over all variants of `s` as a function of the level, with the lengths of the rows;
    `IndexInv` and `LoaderInv` say that each of the two programs follows it, the index
    root by root with the depths above the current level filled in ahead, the loader
    in those groups in which all variants were sampled. When a walk ends early the
    remaining levels would have added nothing (`FullLevels`).
  * `GreedyFacts` and `CutFills` are about operators: a row is gone through by
    induction over its pool, and its surviving columns are summed up to the straddler.

Numbers below a bound are enough for every induction here: `UpTo` states it for a
property given as the *set* where it holds, so that no operator is needed as a
parameter, and the recursive functions of the model are shown to satisfy their own
equations by it (`SumsFacts`, `BackfilledFacts`, `FullFacts`).

Only model-checked: all liveness (`NoRequestParks`, `CloseReturns`, `GetReturns`,
`ThreadsStop`, `RunEnds`), because the prover does not handle fairness, and the four
invariants of the unifier. Three of those (`MappingTranslates`,
`PlatformIsContributors`, `VariantsRoundTrip`) read the table through `FoldLeft`,
`FlattenSeq` and `SetToSortSeq`; what these compute for every input takes an induction
each, for which the library's theorems have an operator as parameter that the provers
cannot instantiate. It can be replaced, as in `SpliceInclusionProofs`, by recursive
functions and `UpTo`, but has not been. `StaleOnlyIfSkipped` needs none of that and is
an induction over the loop; it has no proof yet.

## 6. Not modelled

Listed with reasons under `components` in `PROJECT.json`. Decoding, encoding and
the byte layouts are data transformations without order or failure of their own;
they appear in the models as what they are used for (a body, an offset, a slot).
The scheduler, Ghidra, angr, CUDA streams and the file system are external: what
the code relies on enters as an assumption (sorted functions, FIFO queues between
processes, an atomic rename).

## 7. Plan

Done: the modules of section 2.

Next, in this order:

1. **Proofs about the unifier** – `StaleOnlyIfSkipped` (every CSV before `k` that was
   not skipped has a mapping file of this run); then that names in the table are unique
   and the mapping made so far leads to them, which is the inductive part of
   `MappingTranslates`, with the folds over sequences written as recursive functions.
2. The sampler of the sorted index, the `callee_occurrence` path of the section
   writer, and the composition of TokenizeLoop with LockstepMerge (the rows one
   writes are the input of the other).
