---------------------------- MODULE LockstepMerge ----------------------------
(***************************************************************************)
(* lockstep_records (tokenizer/aligned_data/parsed_record_iter.py): the     *)
(* merge of the per-variant CSV streams of one binary.  Every function name *)
(* is matched, when it is unique in at least two streams, or unmatched.     *)
(*                                                                          *)
(* A row is its name; names are numbers because only their order matters.   *)
(* The rows of a stream are told apart by their position in it.             *)
(***************************************************************************)
EXTENDS Integers, Sequences, FiniteSets, SequencesExt, FiniteSetsExt

CONSTANTS
    NStreams,   \* number of per-variant CSV files
    Names,      \* the function names
    MaxRows     \* bound: rows of a stream

ASSUME LockstepAssumption ==
    /\ NStreams \in Nat \ {0} /\ MaxRows \in Nat
    /\ Names \subseteq Nat /\ IsFiniteSet(Names)

Streams == 1..NStreams

VARIABLES
    rows,       \* the input: per stream the names of its rows
    current,    \* per stream the position of its lookahead row, 0 for none
    pc,         \* "seed", "merge" or "done"
    out,        \* the yielded items
    duplicated  \* DuplicateNameClassifier.duplicated_names

mergeVars == <<rows, current, pc, out, duplicated>>

\* "Inputs must be sorted": the tokenizer writes its rows in name order.
Sorted(q) == \A i, j \in 1..Len(q) : i < j => q[i] <= q[j]
Inputs == {q \in SeqOf(Names, MaxRows) : Sorted(q)}

MergeInit ==
    /\ rows \in [Streams -> Inputs]
    /\ current = [i \in Streams |-> 0]
    /\ pc = "seed" /\ out = <<>> /\ duplicated = {}

\* next() of stream i after n rows: the position of the next row, 0 at the end.
NextRow(i, n) == IF n < Len(rows[i]) THEN n + 1 ELSE 0

\* One lookahead row of every stream.
Seed ==
    /\ pc = "seed"
    /\ current' = [i \in Streams |-> NextRow(i, 0)]
    /\ pc' = "merge"
    /\ UNCHANGED <<rows, out, duplicated>>

Live == {i \in Streams : current[i] # 0}
NameAt(i) == rows[i][current[i]]

MinName == Min({NameAt(i) : i \in Live})
Matching == {i \in Live : NameAt(i) = MinName}

\* Mutant of GroupEnd: one row is drained, not the whole run.
GroupEndSingle(i) == current[i]

\* _drain_same_name_group: the last row of the run that starts at the
\* lookahead of stream i.
GroupEnd(i) ==
    Max({k \in current[i]..Len(rows[i]) :
           \A j \in current[i]..k : rows[i][j] = NameAt(i)})
Group(i) == current[i]..GroupEnd(i)

\* The items of one name.
MatchedItem(name, recs) == [kind |-> "matched", name |-> name, recs |-> recs]
UnmatchedItem(name, i, k) ==
    [kind |-> "unmatched", name |-> name, recs |-> {<<i, k>>}]

\* A set of rows stream by stream, and in a stream in its order.
Before(x, y) == x[1] < y[1] \/ (x[1] = y[1] /\ x[2] < y[2])
Rank(x, S) == Cardinality({y \in S : Before(y, x)})
InRowOrder(S) ==
    [n \in 1..Cardinality(S) |-> CHOOSE x \in S : Rank(x, S) = n - 1]

\* Every row of every matching stream.
MatchingRows == UNION {{i} \X Group(i) : i \in Matching}
UnmatchedItems(name) ==
    LET q == InRowOrder(MatchingRows)
    IN  [n \in DOMAIN q |-> UnmatchedItem(name, q[n][1], q[n][2])]

IsDuplicated == \E i \in Matching : Cardinality(Group(i)) >= 2

\* One turn of the loop: the rows of the least name leave all streams.
Merge ==
    /\ pc = "merge" /\ Live # {}
    /\ current' = [i \in Streams |->
                     IF i \in Matching THEN NextRow(i, GroupEnd(i))
                                       ELSE current[i]]
    /\ out' = out \o
         (IF ~IsDuplicated /\ Cardinality(Matching) >= 2
            THEN <<MatchedItem(MinName, {<<i, current[i]>> : i \in Matching})>>
            ELSE UnmatchedItems(MinName))
    /\ duplicated' = duplicated \cup (IF IsDuplicated THEN {MinName} ELSE {})
    /\ UNCHANGED <<rows, pc>>

Stop ==
    /\ pc = "merge" /\ Live = {}
    /\ pc' = "done"
    /\ UNCHANGED <<rows, current, out, duplicated>>

MergeSteps == Seed \/ Merge \/ Stop

(* ------------------------------ properties ------------------------------- *)

RowsOf(i, n) == {k \in 1..Len(rows[i]) : rows[i][k] = n}
RowsNamed(n) == {x \in Streams \X (1..MaxRows) : x[2] \in RowsOf(x[1], n)}

\* The names that stand for several functions in some stream.
Repeated(n) == \E i \in Streams : Cardinality(RowsOf(i, n)) >= 2

\* What the merge promises about one name, said without streams and
\* lookaheads.
ItemsFor(n) ==
    IF ~Repeated(n) /\ Cardinality(RowsNamed(n)) >= 2
      THEN {MatchedItem(n, RowsNamed(n))}
      ELSE {UnmatchedItem(n, x[1], x[2]) : x \in RowsNamed(n)}

\* At the end every name was yielded as its definition says, in name order,
\* no row twice and none forgotten, and exactly the repeated names are
\* classified as duplicated.
MergeCorrect ==
    pc = "done" =>
        /\ ToSet(out) = UNION {ItemsFor(n) : n \in UNION {ToSet(rows[i]) :
                                                           i \in Streams}}
        /\ IsInjective(out)
        /\ Sorted([x \in 1..Len(out) |-> out[x].name])
        /\ duplicated = {n \in Names : Repeated(n)}
==============================================================================
