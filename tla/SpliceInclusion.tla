-------------------------- MODULE SpliceInclusion --------------------------
(***************************************************************************)
(* Which callee bodies are spliced into a training row.  Three users walk   *)
(* the call graph of a binary's sections level by level and ask one         *)
(* decider (once_only_inclusion.rs) which of the reached functions to       *)
(* include:                                                                 *)
(*   - the sorted index, once, over ALL variants of every section, to       *)
(*     precompute the spliced length of every variant at every depth;       *)
(*   - the loader, per batch, over the SAMPLED variants of a root, to emit; *)
(*   - the loader again over all variants, when backfill is on, for the     *)
(*     pool of functions that a row may be filled up with.                  *)
(* The loader's catalog is lazy: a section's heavy columns are all zero     *)
(* until ensure_sections parses them, so every section has to be made       *)
(* resident before the walk, or the scatter, reads it.                      *)
(*                                                                          *)
(* Variants, slots and rows count from 1; a variant index of 0 stands for   *)
(* MISSING_VARIANT_INDEX.  A node is <<section, variant>>.                   *)
(***************************************************************************)
EXTENDS Integers, FiniteSets, Sequences, SequencesExt, FiniteSetsExt

CONSTANTS Catalogs,    \* the binaries: see IsCatalog
          MaxBatches   \* bound on the batches drawn from one catalog

Missing == 0

Nodes(c) == UNION {{<<s, v>> : v \in 1..c.variants[s]} : s \in DOMAIN c.variants}

\* variants: the number of variants of each section; targets: its call-target
\* slots, [extern, ptr] with ptr 0 when absent, or a section, or an offset that
\* no section has; calls: per node, the called slots with their variant index;
\* body: the realized length of each node; the rest bounds what is drawn.
IsCatalog(c) ==
    /\ c.variants \in Seq(Nat)
    /\ c.targets \in [DOMAIN c.variants -> Seq([extern : BOOLEAN, ptr : Nat])]
    /\ DOMAIN c.calls = Nodes(c) /\ DOMAIN c.body = Nodes(c)
    /\ \A n \in Nodes(c) :
          /\ c.body[n] \in Nat
          /\ \A k \in DOMAIN c.calls[n] :
                \/ c.calls[n][k] = Missing
                \/ k \notin DOMAIN c.targets[n[1]]
                \/ c.targets[n[1]][k].ptr \notin DOMAIN c.variants
                \/ c.calls[n][k] \in 1..c.variants[c.targets[n[1]][k].ptr]
    /\ c.depths \subseteq Nat /\ c.depths # {} /\ IsFiniteSet(c.depths)
    /\ c.lengths \subseteq Nat /\ c.groups \in Nat \ {0} /\ c.prefix \in Nat

ASSUME SpliceAssumption == (\A c \in Catalogs : IsCatalog(c)) /\ MaxBatches \in Nat

VARIABLES cat,       \* the binary, fixed
          pc,        \* where the program is
          root,      \* the root section of the index build
          cum,       \* per depth and node, the index's spliced length
          dec,       \* the decider: column of each function, mask, used rows and columns
          walk,      \* the walk in progress
          resident,  \* the sections whose columns the lazy catalog has filled
          batch,     \* the batch in progress
          group,     \* the group of it that is being walked
          out,       \* per row: its emitted nodes, its pool, the backfilled nodes
          batches    \* the number of batches drawn

vars == <<cat, pc, root, cum, dec, walk, resident, batch, group, out, batches>>

Sections == DOMAIN cat.variants
VariantsOf(s) == 1..cat.variants[s]
MaxDepth == Max(cat.depths)

---------------------------------------------------------------------------
(* Listings and sums.                                                       *)

\* A finite set of pairs in lexicographic order, a finite set of numbers in
\* ascending order, and what a sequence holds at the positions K, in order.
Before(x, y) == x[1] < y[1] \/ (x[1] = y[1] /\ x[2] < y[2])
Rank(x, S) == Cardinality({y \in S : Before(y, x)})
InOrder(S) == [n \in 1..Cardinality(S) |-> CHOOSE x \in S : Rank(x, S) = n - 1]
Ascending(K) == LET q == InOrder({0} \X K) IN [n \in DOMAIN q |-> q[n][2]]
At(s, K) == LET at == Ascending(K) IN [n \in DOMAIN at |-> s[at[n]]]

\* The running sums of a sequence of numbers: entry i sums the first i of them.
Sums(f) == LET upto[i \in 0..Len(f)] == IF i = 0 THEN 0 ELSE upto[i-1] + f[i]
           IN  upto

\* own = body + 1: a body is preceded by its self token.
Own(n) == cat.body[n] + 1

\* Where the i-th of the nodes of a row ends, and what they take up together.
EndOf(nodes, i) == Sums([j \in DOMAIN nodes |-> Own(nodes[j])])[i]
Length(nodes) == EndOf(nodes, Len(nodes))

---------------------------------------------------------------------------
(* The decider (DeciderState).  The mask is a buffer that is kept: only the *)
(* cells that are TRUE are listed, those of unused columns included.        *)

NewDecider == [col |-> <<>>, mask |-> {}, rows |-> 0, cols |-> 0]

Cells(rows, cols) == (1..rows) \X (0..cols-1)

\* Mutant of BeginRoot: the reset spans the rows of the new root.
BeginRootNewRows(d, n, fid) ==
    [col  |-> [f \in {fid} |-> 0],
     mask |-> (d.mask \ Cells(n, d.cols)) \cup Cells(n, 1),
     rows |-> n, cols |-> 1]

\* begin_root: zero the region the previous root used, mark the root in column 0.
BeginRoot(d, n, fid) ==
    [col  |-> [f \in {fid} |-> 0],
     mask |-> (d.mask \ Cells(d.rows, d.cols)) \cup Cells(n, 1),
     rows |-> n, cols |-> 1]

\* _assign_columns: functions not seen before take fresh columns, ascending.
AssignColumns(d, fids) ==
    LET fresh == fids \ DOMAIN d.col
    IN  [f \in DOMAIN d.col \cup fresh |->
            IF f \in fresh THEN d.cols + Cardinality({g \in fresh : g < f}) ELSE d.col[f]]

\* Mutant of Included: the columnwise ALL is not asked.
IncludedByAll(before, after, rows, cells, i) ==
    /\ cells[i] \notin before
    /\ \A j \in 1..i-1 : cells[j] # cells[i]

\* A pair is included on the first encounter of its row with the function,
\* unless every row has met the function by now.
Included(before, after, rows, cells, i) ==
    /\ cells[i] \notin before
    /\ \A j \in 1..i-1 : cells[j] # cells[i]
    /\ \E r \in 1..rows : <<r, cells[i][2]>> \notin after

\* step_level over the pairs <<row, node>> of one level, in emission order:
\* the next decider and the pairs that are included, which also survive.
StepLevel(d, pairs) ==
    LET col   == AssignColumns(d, {pairs[i][2][1] : i \in DOMAIN pairs})
        cells == [i \in DOMAIN pairs |-> <<pairs[i][1], col[pairs[i][2][1]]>>]
        after == d.mask \cup ToSet(cells)
        kept  == {i \in DOMAIN pairs : Included(d.mask, after, d.rows, cells, i)}
    IN  [dec      |-> [col |-> col, mask |-> after, rows |-> d.rows,
                       cols |-> Cardinality(DOMAIN col)],
         included |-> At(pairs, kept)]

---------------------------------------------------------------------------
(* The call graph (LiveNodeAdjacency, resolve_frontier).                    *)

\* The variant index of the first variant of s that has a usable one for slot k.
FallbackJ(s, k) ==
    LET usable == {v \in VariantsOf(s) : /\ k \in DOMAIN cat.calls[<<s, v>>]
                                         /\ cat.calls[<<s, v>>][k] # Missing}
    IN  IF usable = {} THEN Missing ELSE cat.calls[<<s, Min(usable)>>][k]

ResolveJ(n, k) ==
    IF cat.calls[n][k] = Missing THEN FallbackJ(n[1], k) ELSE cat.calls[n][k]

\* The slots of a parent that pass the gates: in range, not EXTERN, with a
\* section pointer that is set and known, and a variant to splice.
LiveSlots(n) ==
    {k \in DOMAIN cat.calls[n] \cap DOMAIN cat.targets[n[1]] :
        /\ ~cat.targets[n[1]][k].extern
        /\ cat.targets[n[1]][k].ptr \in Sections
        /\ ResolveJ(n, k) # Missing}

Callee(n, k) == <<cat.targets[n[1]][k].ptr, ResolveJ(n, k)>>

\* The pairs of the next level, in parent and then slot order.
Calls(frontier) == UNION {{i} \X LiveSlots(frontier[i][2]) : i \in DOMAIN frontier}
Edges(frontier) ==
    LET calls == InOrder(Calls(frontier))
    IN  [e \in DOMAIN calls |-> LET p == frontier[calls[e][1]]
                                IN  <<p[1], Callee(p[2], calls[e][2])>>]

---------------------------------------------------------------------------
(* A walk from one root: the rows are variants of the root's section.  fed  *)
(* is a history variable: the pairs the decider was asked about so far.     *)

StartWalk(s, rows, depth) ==
    [root |-> s, rows |-> rows, depth |-> depth, level |-> 0,
     frontier |-> [i \in DOMAIN rows |-> <<i, <<s, rows[i]>>>>],
     fed |-> {}, reached |-> {}]

WalkEnds == walk.level >= walk.depth \/ Edges(walk.frontier) = <<>>

\* One level of any of the three walks.
Advance(step) ==
    /\ dec' = step.dec
    /\ walk' = [walk EXCEPT
                 !.level = @ + 1,
                 !.frontier = step.included,
                 !.fed = @ \cup {<<p[1], p[2][1]>> : p \in ToSet(Edges(walk.frontier))},
                 !.reached = @ \cup {p[2] : p \in ToSet(step.included)}]

ForRow(pairs, r) ==
    LET mine == At(pairs, {i \in DOMAIN pairs : pairs[i][1] = r})
    IN  [i \in DOMAIN mine |-> mine[i][2]]

NoWalk == [root |-> 0, rows |-> <<>>, depth |-> 0, level |-> 0, frontier |-> <<>>,
           fed |-> {}, reached |-> {}]
NoBatch == [groups |-> <<>>, depth |-> 0, backfill |-> FALSE, len |-> 0]

Init ==
    /\ cat \in Catalogs
    /\ pc = "build" /\ root = 1
    /\ cum = [d \in 0..MaxDepth |-> [n \in Nodes(cat) |-> Own(n)]]
    /\ dec = NewDecider /\ walk = NoWalk
    /\ resident = {} /\ batch = NoBatch /\ group = 0 /\ out = <<>> /\ batches = 0

---------------------------------------------------------------------------
(* The index build (compute_node_lengths): one decider for all roots.       *)

AllVariants(s) == [v \in VariantsOf(s) |-> v]

BuildRoot ==
    /\ pc = "build" /\ root \in Sections /\ cat.variants[root] > 0
    /\ dec' = BeginRoot(dec, cat.variants[root], root)
    /\ walk' = StartWalk(root, AllVariants(root), MaxDepth)
    /\ pc' = "build_level"
    /\ UNCHANGED <<cat, root, cum, resident, batch, group, out, batches>>

BuildSkip ==
    /\ pc = "build" /\ root \in Sections /\ cat.variants[root] = 0
    /\ root' = root + 1
    /\ UNCHANGED <<cat, pc, cum, dec, walk, resident, batch, group, out, batches>>

BuildEnd ==
    /\ pc = "build" /\ root \notin Sections
    /\ pc' = "idle" /\ dec' = NewDecider /\ walk' = NoWalk
    /\ UNCHANGED <<cat, root, cum, resident, batch, group, out, batches>>

\* Mutant of CountedAt: an inclusion counts only at its own depth.
CountedAtOwnDepth(level, d) == d = level

\* An inclusion at a level is present at every depth from that level on.
CountedAt(level, d) == d >= level

BuildLevel ==
    /\ pc = "build_level" /\ ~WalkEnds
    /\ LET step == StepLevel(dec, Edges(walk.frontier))
       IN  /\ Advance(step)
           /\ cum' = [d \in DOMAIN cum |-> [n \in DOMAIN cum[d] |->
                        IF n[1] = root /\ CountedAt(walk.level + 1, d)
                        THEN cum[d][n] + Length(ForRow(step.included, n[2]))
                        ELSE cum[d][n]]]
    /\ UNCHANGED <<cat, pc, root, resident, batch, group, out, batches>>

BuildNext ==
    /\ pc = "build_level" /\ WalkEnds
    /\ root' = root + 1 /\ pc' = "build"
    /\ UNCHANGED <<cat, cum, dec, walk, resident, batch, group, out, batches>>

---------------------------------------------------------------------------
(* A batch: closure, walks, geometry, backfill, scatter.                    *)

\* One hop of the closure: the known sections the slots of S point to, EXTERN
\* slots included.
Hop(S) == {t.ptr : t \in UNION {ToSet(cat.targets[s]) : s \in S}} \cap Sections

\* The sections within so many hops of the roots.
Reach(roots, hops) ==
    LET reach[k \in 0..hops] == IF k = 0 THEN roots ELSE reach[k-1] \cup Hop(reach[k-1])
    IN  reach[hops]

\* Mutant of Closure: one level short.
ClosureShort(roots, depth) == Reach(roots, IF depth <= 1 THEN 0 ELSE depth - 2)

\* ensure_inclusion_closure: the sections within depth - 1 hops of a root (the
\* last level's sections are never parents); only the roots at depth 0.
Closure(roots, depth) == Reach(roots, IF depth = 0 THEN 0 ELSE depth - 1)

\* The groups a batch may consist of: a root with some of its variants.
Samples(s) == {Ascending(V) : V \in (SUBSET VariantsOf(s)) \ {{}}}
Groups == UNION {{[root |-> s, rows |-> rows] : rows \in Samples(s)} : s \in Sections}

StartBatch(groups, depth, backfill, len) ==
    /\ pc = "idle" /\ batches < MaxBatches
    /\ batches' = batches + 1
    /\ batch' = [groups |-> groups, depth |-> depth, backfill |-> backfill, len |-> len]
    /\ resident' = resident \cup Closure({g.root : g \in ToSet(groups)}, depth)
    /\ dec' = NewDecider
    /\ out' = <<>> /\ group' = 1 /\ pc' = "group"
    /\ UNCHANGED <<cat, root, cum, walk>>

RowsBefore(g) == Sums([h \in DOMAIN batch.groups |-> Len(batch.groups[h].rows)])[g-1]

\* bfs_emit: seed every sampled row with its root.
BeginEmit ==
    /\ pc = "group" /\ group <= Len(batch.groups)
    /\ LET g == batch.groups[group]
       IN  /\ dec' = BeginRoot(dec, Len(g.rows), g.root)
           /\ walk' = StartWalk(g.root, g.rows, batch.depth)
           /\ out' = out \o [i \in DOMAIN g.rows |->
                        [nodes |-> <<<<g.root, g.rows[i]>>>>, pool |-> <<>>, added |-> <<>>]]
    /\ pc' = "emit"
    /\ UNCHANGED <<cat, root, cum, resident, batch, group, batches>>

EmitLevel ==
    /\ pc = "emit" /\ ~WalkEnds
    /\ LET step == StepLevel(dec, Edges(walk.frontier))
       IN  /\ Advance(step)
           /\ out' = [i \in DOMAIN out |->
                        IF i > RowsBefore(group)
                        THEN [out[i] EXCEPT !.nodes =
                                @ \o ForRow(step.included, i - RowsBefore(group))]
                        ELSE out[i]]
    /\ UNCHANGED <<cat, pc, root, cum, resident, batch, group, batches>>

\* The emission of a group is complete; with backfill its pool walk follows
\* (bfs_full_included), over all variants of the root.
EmitEnd ==
    /\ pc = "emit" /\ WalkEnds
    /\ IF batch.backfill
       THEN /\ dec' = BeginRoot(dec, cat.variants[walk.root], walk.root)
            /\ walk' = StartWalk(walk.root, AllVariants(walk.root), batch.depth)
            /\ pc' = "pool" /\ UNCHANGED group
       ELSE pc' = "group" /\ group' = group + 1 /\ UNCHANGED <<dec, walk>>
    /\ UNCHANGED <<cat, root, cum, resident, batch, out, batches>>

PoolLevel ==
    /\ pc = "pool" /\ ~WalkEnds
    /\ Advance(StepLevel(dec, Edges(walk.frontier)))
    /\ UNCHANGED <<cat, pc, root, cum, resident, batch, group, out, batches>>

\* diff_pool: what any variant includes and this row did not emit, ascending.
PoolEnd ==
    /\ pc = "pool" /\ WalkEnds
    /\ out' = [i \in DOMAIN out |->
                 IF i > RowsBefore(group)
                 THEN [out[i] EXCEPT !.pool =
                         InOrder(walk.reached \ ToSet(out[i].nodes))]
                 ELSE out[i]]
    /\ pc' = "group" /\ group' = group + 1
    /\ UNCHANGED <<cat, root, cum, dec, walk, resident, batch, batches>>

SectionsOf(nodes) == {n[1] : n \in ToSet(nodes)}

\* compute_batch_geometry: the sections of the emitted nodes become resident.
Geometry ==
    /\ pc = "group" /\ group > Len(batch.groups)
    /\ resident' = resident \cup UNION {SectionsOf(out[i].nodes) : i \in DOMAIN out}
    /\ pc' = IF batch.backfill THEN "backfill" ELSE "scatter"
    /\ UNCHANGED <<cat, root, cum, dec, walk, batch, group, out, batches>>

---------------------------------------------------------------------------
(* The layout of a row (compute_token_layout, surviving_token_counts): its  *)
(* prefix, then the columns of its nodes, cut at the context length.        *)

Total(nodes) == cat.prefix + Length(nodes)
Fits(nodes, len) == Total(nodes) <= len

\* The columns left for bodies; none when the prefix already overflows.
BodyBudget(len) == Max({len - cat.prefix, 0})

\* The first function of an overflowing row that ends beyond the cut.
Straddler(nodes, len) == Min({i \in DOMAIN nodes : EndOf(nodes, i) > BodyBudget(len)})

\* Mutant of PartialCut: the functions before the straddler are not taken off.
PartialCutOfRow(nodes, len) == Min({Own(nodes[Straddler(nodes, len)]), BodyBudget(len)})

PartialCut(nodes, len) ==
    LET i == Straddler(nodes, len)
    IN  Max({0, Min({Own(nodes[i]), BodyBudget(len) - EndOf(nodes, i - 1)})})

Surviving(nodes, len, i) ==
    IF Fits(nodes, len) \/ i < Straddler(nodes, len) THEN Own(nodes[i])
    ELSE IF i = Straddler(nodes, len) THEN PartialCut(nodes, len) ELSE 0

\* backfill_geometry, one row: the pool in order, each node that fits fully.
Backfilled(row, len) ==
    LET added[i \in 0..Len(row.pool)] ==
            IF i = 0 THEN <<>>
            ELSE LET sofar == added[i-1]
                     all == row.nodes \o sofar
                     n == row.pool[i]
                 IN  IF n \notin ToSet(all) /\ Own(n) <= len - Total(all)
                     THEN Append(sofar, n) ELSE sofar
    IN  added[Len(row.pool)]

Backfill ==
    /\ pc = "backfill"
    /\ out' = [i \in DOMAIN out |-> [out[i] EXCEPT !.added = Backfilled(out[i], batch.len)]]
    /\ pc' = "scatter"
    /\ UNCHANGED <<cat, root, cum, dec, walk, resident, batch, group, batches>>

\* scatter_batch_tokens: the surviving columns of every node of the row are
\* read from the record its section's columns point at; the batch is done.
Scatter ==
    /\ pc = "scatter"
    /\ pc' = "idle" /\ batch' = NoBatch /\ group' = 0 /\ out' = <<>>
    /\ dec' = NewDecider /\ walk' = NoWalk
    /\ UNCHANGED <<cat, root, cum, resident, batches>>

NextBatch ==
    \E size \in 1..cat.groups : \E groups \in [1..size -> Groups] :
    \E depth \in cat.depths, backfill \in BOOLEAN, len \in cat.lengths :
        StartBatch(groups, depth, backfill, len)

Next == \/ BuildRoot \/ BuildSkip \/ BuildLevel \/ BuildNext \/ BuildEnd
        \/ NextBatch
        \/ BeginEmit \/ EmitLevel \/ EmitEnd
        \/ PoolLevel \/ PoolEnd
        \/ Geometry \/ Backfill \/ Scatter

Spec == Init /\ [][Next]_vars

---------------------------------------------------------------------------
(* Properties.                                                              *)

\* Every variable has its type: in particular the walk's rows and nodes exist
\* in the catalog, and the depth a walk counts stays within the requested one
\* (step_level's range check, the DP arrays of compute_node_lengths).
TypeOK ==
    /\ pc \in {"build", "build_level", "idle", "group", "emit", "pool", "backfill", "scatter"}
    /\ root \in 1..Len(cat.variants) + 1
    /\ cum \in [0..MaxDepth -> [Nodes(cat) -> Nat]]
    /\ DOMAIN dec.col \subseteq Sections
    /\ \A f \in DOMAIN dec.col : dec.col[f] \in 0..dec.cols - 1
    /\ walk.level \in 0..walk.depth
    /\ \A p \in ToSet(walk.frontier) : p[1] \in DOMAIN walk.rows /\ p[2] \in Nodes(cat)
    /\ resident \subseteq Sections
    /\ \A i \in DOMAIN out : ToSet(out[i].nodes \o out[i].pool \o out[i].added) \subseteq Nodes(cat)
    /\ group \in 0..Len(batch.groups) + 1
    /\ batches \in 0..MaxBatches

Walking == pc \in {"build_level", "emit", "pool"}

\* The reused mask belongs to the current root: a row is marked for a function
\* exactly when this root's walk reached it (or it is the root), and no cell
\* outside the used region is left from an earlier, larger root.  begin_root
\* zeroes only what the previous root used.  (With the types of the state.)
MaskIsOfThisRoot ==
    TypeOK /\ (Walking =>
        /\ dec.mask \subseteq Cells(dec.rows, dec.cols)
        /\ \A f, g \in DOMAIN dec.col : f # g => dec.col[f] # dec.col[g]
        /\ {p \in (1..dec.rows) \X DOMAIN dec.col : <<p[1], dec.col[p[2]]>> \in dec.mask}
              = walk.fed \cup {<<r, walk.root>> : r \in DOMAIN walk.rows})

GroupRows(g) == {i \in DOMAIN out : i > RowsBefore(g) /\ i <= RowsBefore(g + 1)}

\* A row splices a function at most once, and never its own root again, however
\* the calls recurse or repeat: the walk emits no section twice into a row.
OncePerRow ==
    \A i \in DOMAIN out : \A j, k \in DOMAIN out[i].nodes :
        j # k => out[i].nodes[j][1] # out[i].nodes[k][1]

\* What the rows of a root have in common is not spliced: no function is in all
\* the rows of a group, a single sampled row splices nothing.
NothingCommonToAll ==
    \A g \in DOMAIN batch.groups : GroupRows(g) # {} =>
        \A s \in Sections \ {batch.groups[g].root} :
            \E i \in GroupRows(g) : s \notin SectionsOf(out[i].nodes)

\* The inclusion rule, over all the levels of a walk and all the rows of a root:
\* a function is spliced where the rows differ, and there once (step_level).
SplicedOnceWhereRowsDiffer == OncePerRow /\ NothingCommonToAll

\* The index and the loader agree: when all variants of a root are sampled, each
\* row is exactly as long as the index says for that depth.  The two sides have
\* their own loops, and the index keeps one decider for all the roots.
LoaderMatchesIndex ==
    pc = "scatter" =>
        \A g \in DOMAIN batch.groups :
            batch.groups[g].rows = AllVariants(batch.groups[g].root) =>
                \A i \in GroupRows(g) :
                    Length(out[i].nodes) = cum[batch.depth][out[i].nodes[1]]

\* The kernel cannot fill the catalog on the way: every section a walk expands
\* is resident before it starts (ensure_inclusion_closure), and so is every
\* section of an emitted node when the scatter reads it.
ReadsResident ==
    /\ pc \in {"emit", "pool"} /\ walk.level < walk.depth =>
          {p[2][1] : p \in ToSet(walk.frontier)} \subseteq resident
    /\ pc = "scatter" => \A i \in DOMAIN out : SectionsOf(out[i].nodes) \subseteq resident

\* Backfill fills a row without overflowing it, leaves an over-long row alone,
\* and leaves out no pool function that would still have fitted.
BackfillIsGreedy ==
    pc = "scatter" /\ batch.backfill =>
        \A i \in DOMAIN out :
            LET all == out[i].nodes \o out[i].added
            IN  /\ Total(all) <= Max({batch.len, Total(out[i].nodes)})
                /\ \A n \in ToSet(out[i].pool) \ ToSet(all) : Own(n) > batch.len - Total(all)

\* Backfill spends all of the context it can, and the surviving columns of a row
\* fill it exactly: everything when it fits, else up to the cut, whether or not
\* a function ends just there.
RowFillsContext ==
    /\ BackfillIsGreedy
    /\ pc = "scatter" =>
          \A i \in DOMAIN out :
              LET all == out[i].nodes \o out[i].added
                  cut == [j \in DOMAIN all |-> Surviving(all, batch.len, j)]
              IN  Sums(cut)[Len(cut)] = Max({0, Min({Total(all), batch.len}) - cat.prefix})

\* Every node whose tokens the scatter reads, backfilled ones included, has its
\* section resident (the geometry pass's comment on ensure_sections).
ScatterResident ==
    pc = "scatter" =>
        \A i \in DOMAIN out : SectionsOf(out[i].nodes \o out[i].added) \subseteq resident
=============================================================================
