----------------------------- MODULE MemmapPass1 -----------------------------
(***************************************************************************)
(* Pass 1 of the memmap builder (tokenizer/memmap_builder/builder.py and    *)
(* passes.py) on top of the lockstep merge: every yielded item goes through *)
(* the matched walker, the unmatched walker, or both, and what survives is  *)
(* spooled for pass 2.                                                      *)
(*                                                                          *)
(* The offset a record gets in its arm's data file is represented by the    *)
(* record's body: two rows of an arm have the same offset exactly when they *)
(* have the same body (OffsetsIdentify in DedupStoreProofs).                *)
(***************************************************************************)
EXTENDS LockstepMerge

CONSTANTS
    Bodies,       \* bodies of functions
    Oversized,    \* bodies the encoder refuses (IndexEntrySkip)
    LocalLabels   \* names that start with ".L"

ASSUME Pass1Assumption == Oversized \subseteq Bodies /\ LocalLabels \subseteq Names

VARIABLES
    body,       \* the input: per stream the bodies of its rows
    eaten,      \* number of yielded items the builder has processed
    matched,    \* matched_data_entries
    unmatched,  \* unmatched_data_entries
    matchedBin, unmatchedBin   \* the bodies in the two data files

passVars == <<body, eaten, matched, unmatched, matchedBin, unmatchedBin>>
vars == <<mergeVars, passVars>>

Init ==
    /\ MergeInit
    /\ body \in {f \in [Streams -> SeqOf(Bodies, MaxRows)] :
                   \A i \in Streams : Len(f[i]) = Len(rows[i])}
    /\ eaten = 0 /\ matched = <<>> /\ unmatched = <<>>
    /\ matchedBin = {} /\ unmatchedBin = {}

BodyOf(x) == body[x[1]][x[2]]
\* The occurrence column: how many rows of the stream have the name before.
OccurrenceOf(x) ==
    Cardinality({k \in 1..(x[2] - 1) : rows[x[1]][k] = rows[x[1]][x[2]]})

\* The rows of an item the encoder accepts, in variant order.
Surviving(item) == {x \in item.recs : BodyOf(x) \notin Oversized}
Offsets(recs) == {BodyOf(x) : x \in recs}

\* Some variant survived and they are not all the same record.
HasSignal(recs) == Cardinality(Offsets(recs)) > 1

\* Mutant of UnmatchedEntries: the occurrence is taken from the variant.
UnmatchedEntriesFirst(item) ==
    LET q == InRowOrder(Surviving(item)) IN
    [n \in DOMAIN q |-> [name |-> item.name, occ |-> 0,
                          stream |-> q[n][1], row |-> q[n][2], off |-> BodyOf(q[n])]]

\* process_unmatched_function: one entry for every surviving variant.  Its
\* vkey is that of the stream (two streams may share one).
UnmatchedEntries(item) ==
    LET q == InRowOrder(Surviving(item)) IN
    [n \in DOMAIN q |-> [name |-> item.name, occ |-> OccurrenceOf(q[n]),
                          stream |-> q[n][1], row |-> q[n][2], off |-> BodyOf(q[n])]]

ToUnmatched(item) ==
    /\ unmatched' = unmatched \o UnmatchedEntries(item)
    /\ unmatchedBin' = unmatchedBin \cup Offsets(Surviving(item))
    /\ UNCHANGED matched

Item == out[eaten + 1]

\* Names that start with ".L" are dropped by both walkers.
DropLabel ==
    /\ eaten < Len(out) /\ Item.name \in LocalLabels
    /\ eaten' = eaten + 1
    /\ UNCHANGED <<mergeVars, body, matched, unmatched, matchedBin, unmatchedBin>>

\* process_matched_function succeeds.
TakeMatched ==
    /\ eaten < Len(out) /\ Item.name \notin LocalLabels
    /\ Item.kind = "matched" /\ HasSignal(Surviving(Item))
    /\ matched' = Append(matched, [name |-> Item.name, vers |-> Surviving(Item)])
    /\ matchedBin' = matchedBin \cup Offsets(Surviving(Item))
    /\ eaten' = eaten + 1
    /\ UNCHANGED <<mergeVars, body, unmatched, unmatchedBin>>

\* Mutant of Reroute: the function is dropped.
RerouteDrops ==
    /\ eaten < Len(out) /\ Item.name \notin LocalLabels
    /\ Item.kind = "matched" /\ ~HasSignal(Surviving(Item))
    /\ matchedBin' = matchedBin \cup Offsets(Surviving(Item))
    /\ eaten' = eaten + 1
    /\ UNCHANGED <<mergeVars, body, matched, unmatched, unmatchedBin>>

\* process_matched_function returns None after it has written its records;
\* the function goes through the unmatched walker as well.
Reroute ==
    /\ eaten < Len(out) /\ Item.name \notin LocalLabels
    /\ Item.kind = "matched" /\ ~HasSignal(Surviving(Item))
    /\ matchedBin' = matchedBin \cup Offsets(Surviving(Item))
    /\ ToUnmatched(Item)
    /\ eaten' = eaten + 1
    /\ UNCHANGED <<mergeVars, body>>

TakeUnmatched ==
    /\ eaten < Len(out) /\ Item.name \notin LocalLabels
    /\ Item.kind = "unmatched"
    /\ ToUnmatched(Item)
    /\ eaten' = eaten + 1
    /\ UNCHANGED <<mergeVars, body, matchedBin>>

\* The generator goes on when the builder asks for the next item.
Advance == eaten = Len(out) /\ MergeSteps /\ UNCHANGED passVars

Finished   == pc = "done" /\ eaten = Len(out)
Terminated == Finished /\ UNCHANGED vars

Next == Advance \/ DropLabel \/ TakeMatched \/ Reroute \/ TakeUnmatched \/ Terminated
Spec == Init /\ [][Next]_vars

(* ------------------------------ properties ------------------------------- *)

\* The types of the state.
TypeOK ==
    /\ rows \in [Streams -> Seq(Names)] /\ body \in [Streams -> Seq(Bodies)]
    /\ current \in [Streams -> 0..MaxRows]
    /\ pc \in {"seed", "merge", "done"} /\ duplicated \subseteq Names
    /\ eaten \in 0..Len(out)
    /\ \A n \in DOMAIN out : out[n].kind \in {"matched", "unmatched"}
    /\ \A n \in DOMAIN matched : matched[n].vers \in SUBSET (Streams \X (1..MaxRows))
    /\ \A n \in DOMAIN unmatched : unmatched[n].occ \in 0..(MaxRows - 1)
    /\ matchedBin \cup unmatchedBin \subseteq Bodies \ Oversized

\* What pass 2 reads for each row of the input.
AsMatched(x) == {n \in DOMAIN matched : x \in matched[n].vers}
AsUnmatched(x) ==
    {n \in DOMAIN unmatched : unmatched[n].stream = x[1] /\ unmatched[n].row = x[2]}

\* Every row of the input the encoder accepts is in exactly one entry of one
\* arm, and its record is in that arm's data file.
EveryRowOnce ==
    Finished =>
        \A x \in Streams \X (1..MaxRows) :
            (x[2] <= Len(rows[x[1]])) =>
                IF rows[x[1]][x[2]] \in LocalLabels \/ BodyOf(x) \in Oversized
                  THEN AsMatched(x) = {} /\ AsUnmatched(x) = {}
                  ELSE /\ Cardinality(AsMatched(x)) + Cardinality(AsUnmatched(x)) = 1
                       /\ AsMatched(x) # {} => BodyOf(x) \in matchedBin
                       /\ AsUnmatched(x) # {} => BodyOf(x) \in unmatchedBin

\* A matched function has one row per variant, of at least two variants with
\* bodies that differ, and its name is never a duplicated one.
MatchedIsAligned ==
    \A n \in DOMAIN matched :
        /\ \A x, y \in matched[n].vers : x[1] = y[1] => x = y
        /\ Cardinality(Offsets(matched[n].vers)) >= 2
        /\ ~Repeated(matched[n].name)

\* The sections pass 2 writes: one per matched entry and, in
\* group_unmatched_entries_by_function, one per (name, occurrence).
UnmatchedSections == {[name |-> unmatched[n].name, occ |-> unmatched[n].occ] :
                        n \in DOMAIN unmatched}

\* The contract the section writer needs to resolve calls by (name, variant):
\* matched functions are aligned, two sections of the same name exist only for
\* a duplicated name, and the variants of one section come from different
\* streams.
SectionsAddressable ==
    /\ TypeOK /\ MatchedIsAligned
    /\ Finished =>
        /\ \A a, b \in DOMAIN matched : matched[a].name = matched[b].name => a = b
        /\ \A a \in DOMAIN matched : \A s \in UnmatchedSections :
               matched[a].name # s.name
        /\ \A s, t \in UnmatchedSections :
               s.name = t.name /\ s # t => s.name \in duplicated
        /\ \A a, b \in DOMAIN unmatched :
               (/\ unmatched[a].name = unmatched[b].name
                /\ unmatched[a].occ = unmatched[b].occ
                /\ unmatched[a].stream = unmatched[b].stream) => a = b

=============================================================================
