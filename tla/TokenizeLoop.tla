---------------------------- MODULE TokenizeLoop ----------------------------
(***************************************************************************)
(* The tokenizer's loop over the functions of one binary                    *)
(* (tokenizer/main_loop.py, format version 2): the function deduper, the    *)
(* occurrence counter, the CSV rows, the range sidecar, and the pass that   *)
(* stamps occurrences on the calls of the finished CSV                      *)
(* (tokenizer/callee_occurrence_backfill.py).                               *)
(*                                                                          *)
(* A function is an identity (name, comment, identity_key), a token body,   *)
(* an address and the addresses it calls; addresses are the positions in    *)
(* provider order.  Every exception of the loop is caught and the loop goes *)
(* on, with what was assigned before it.                                    *)
(***************************************************************************)
EXTENDS Integers, Sequences, FiniteSets

CONSTANTS
    Identities,    \* the (name, comment, identity_key) triples
    Canonical,     \* canonical_function_name of a triple, as a sort position
    Bodies,        \* token bodies
    NoBody,        \* no body recorded for an identity
    MaxFunctions,  \* bound: functions of the binary
    MaxCalls       \* bound: local calls of all functions together

ASSUME CanonicalAssumption == Canonical \in [Identities -> Nat \ {0}]
ASSUME NoBodyAssumption == NoBody \notin Bodies
ASSUME BoundsAssumption == MaxFunctions \in Nat /\ MaxCalls \in Nat

VARIABLES
    phase,      \* "loop", "closed" (CSV closed), "done" or "failed"
    iterated,   \* functions the provider has yielded
    last,       \* canonical name of the last one
    prev,       \* prev_func_name; 0 is the empty string
    occurence,  \* the counter, spelt as in the code
    seen,       \* FunctionDeduper._seen: identity to recorded body
    rows,       \* the function rows of the CSV
    ranges,     \* the lines of the range sidecar
    folded,     \* history: <<identity, body>> folded as a duplicate
    lost        \* history: <<identity, body>> resolved but never written

input == <<iterated, last>>
counters == <<prev, occurence>>
history == <<folded, lost>>
vars == <<phase, input, counters, seen, rows, ranges, history>>

Unstamped == -1
Addresses == 1..MaxFunctions

Init ==
    /\ phase = "loop"
    /\ iterated = 0 /\ last = 0
    /\ prev = 0 /\ occurence = 0
    /\ seen = [id \in Identities |-> NoBody]
    /\ rows = <<>> /\ ranges = <<>>
    /\ folded = {} /\ lost = {}

(* ----------------------------- the deduper ------------------------------ *)

\* Mutant: the body is not compared.
IsDuplicateByIdentity(id, body) == seen[id] # NoBody

IsDuplicate(id, body) == seen[id] = body

\* Only the first body of an identity is recorded.
Recorded(id, body) ==
    IF seen[id] = NoBody THEN [seen EXCEPT ![id] = body] ELSE seen

(* ------------------------------- the loop -------------------------------- *)

\* iter_functions yields the functions sorted by canonical name.
Yielded(id) ==
    /\ phase = "loop"
    /\ iterated < MaxFunctions
    /\ Canonical[id] >= last
    /\ iterated' = iterated + 1
    /\ last' = Canonical[id]
    /\ UNCHANGED phase

CallsWritten == UNION {{i} \X DOMAIN rows[i].calls : i \in DOMAIN rows}

Callees == {c \in SUBSET Addresses : Cardinality(c) + Cardinality(CallsWritten) <= MaxCalls}

Bumped(name) == IF prev = name THEN occurence + 1 ELSE 0

Row(id, body, callees) ==
    [addr |-> iterated + 1, name |-> Canonical[id], id |-> id, body |-> body,
     occ |-> Bumped(Canonical[id]), calls |-> [a \in callees |-> Unstamped]]

\* No tokens, or an error before the counter is touched.
SkipFunction(id) ==
    /\ Yielded(id)
    /\ UNCHANGED <<counters, seen, rows, ranges, history>>

\* Mutant: the bump is not rolled back.
FoldKeepsBump(id, body) ==
    /\ Yielded(id)
    /\ IsDuplicate(id, body)
    /\ occurence' = Bumped(Canonical[id])
    /\ folded' = folded \union {<<id, body>>}
    /\ UNCHANGED <<prev, seen, rows, ranges, lost>>

\* is_duplicate: no row, and the bump is rolled back.
FoldFunction(id, body) ==
    /\ Yielded(id)
    /\ IsDuplicate(id, body)
    /\ occurence' = IF prev = Canonical[id] THEN Bumped(Canonical[id]) - 1
                                            ELSE Bumped(Canonical[id])
    /\ folded' = folded \union {<<id, body>>}
    /\ UNCHANGED <<prev, seen, rows, ranges, lost>>

\* Mutant: prev_func_name is not set.
WriteForgetsName(id, body, callees) ==
    /\ Yielded(id)
    /\ ~IsDuplicate(id, body)
    /\ seen' = Recorded(id, body)
    /\ occurence' = Bumped(Canonical[id])
    /\ rows' = Append(rows, Row(id, body, callees))
    /\ ranges' = Append(ranges, iterated + 1)
    /\ UNCHANGED <<prev, history>>

\* A fresh function, or one whose body diverges from the recorded one.
WriteFunction(id, body, callees) ==
    /\ Yielded(id)
    /\ ~IsDuplicate(id, body)
    /\ seen' = Recorded(id, body)
    /\ occurence' = Bumped(Canonical[id])
    /\ rows' = Append(rows, Row(id, body, callees))
    /\ ranges' = Append(ranges, iterated + 1)
    /\ prev' = Canonical[id]
    /\ UNCHANGED history

\* _build_v2_metadata_json or writerow raises.
WriteFails(id, body) ==
    /\ Yielded(id)
    /\ ~IsDuplicate(id, body)
    /\ seen' = Recorded(id, body)
    /\ occurence' = Bumped(Canonical[id])
    /\ lost' = lost \union {<<id, body>>}
    /\ UNCHANGED <<prev, rows, ranges, folded>>

\* range_sidecar.add raises when the row is already in the CSV.
RangeFails(id, body, callees) ==
    /\ Yielded(id)
    /\ ~IsDuplicate(id, body)
    /\ seen' = Recorded(id, body)
    /\ occurence' = Bumped(Canonical[id])
    /\ rows' = Append(rows, Row(id, body, callees))
    /\ UNCHANGED <<prev, ranges, history>>

\* The provider is exhausted, or its iteration raises: what is there is closed.
CloseCsv ==
    /\ phase = "loop"
    /\ phase' = "closed"
    /\ UNCHANGED <<input, counters, seen, rows, ranges, history>>

(* ------------------------------ the backfill ----------------------------- *)

\* Mutant: count > 2.
NamesWrittenThrice ==
    {n \in {rows[i].name : i \in DOMAIN rows} :
        Cardinality({i \in DOMAIN rows : rows[i].name = n}) > 2}

\* Names with more than one record in written_name_counts.
DuplicatedNames ==
    {n \in {rows[i].name : i \in DOMAIN rows} :
        \E i, j \in DOMAIN rows : i # j /\ rows[i].name = n /\ rows[j].name = n}

\* The records of address a that go into addr_to_occurrence.
Records(a) ==
    {i \in DOMAIN rows : rows[i].addr = a /\ rows[i].name \in DuplicatedNames}

Stamp(a) ==
    IF Records(a) = {} THEN Unstamped ELSE rows[CHOOSE i \in Records(a) : TRUE].occ

Injected(r) == [r EXCEPT !.calls = [a \in DOMAIN r.calls |-> Stamp(a)]]

\* A file beside the CSV is filled and renamed over it.
BackfillOccurrences ==
    /\ phase = "closed"
    /\ phase' = "done"
    /\ rows' = [i \in DOMAIN rows |-> Injected(rows[i])]
    /\ UNCHANGED <<input, counters, seen, ranges, history>>

\* The rewrite raises: the CSV stays as it was and the task fails.
BackfillFails ==
    /\ phase = "closed"
    /\ DuplicatedNames # {}
    /\ phase' = "failed"
    /\ UNCHANGED <<input, counters, seen, rows, ranges, history>>

Terminated == phase \in {"done", "failed"} /\ UNCHANGED vars

Next ==
    \/ \E id \in Identities : SkipFunction(id)
    \/ \E id \in Identities, body \in Bodies : FoldFunction(id, body)
    \/ \E id \in Identities, body \in Bodies, c \in Callees :
          WriteFunction(id, body, c)
    \/ \E id \in Identities, body \in Bodies : WriteFails(id, body)
    \/ \E id \in Identities, body \in Bodies, c \in Callees :
          RangeFails(id, body, c)
    \/ CloseCsv
    \/ BackfillOccurrences
    \/ BackfillFails
    \/ Terminated

Spec == Init /\ [][Next]_vars

(* ------------------------------ properties ------------------------------- *)

Stamps == Addresses \union {0, Unstamped}

RowType == [addr : Addresses, name : Nat \ {0}, id : Identities, body : Bodies,
            occ : 0..MaxFunctions, calls : UNION {[c -> Stamps] : c \in SUBSET Addresses}]

TypeOK ==
    /\ phase \in {"loop", "closed", "done", "failed"}
    /\ iterated \in 0..MaxFunctions
    /\ last \in Nat /\ prev \in Nat /\ occurence \in 0..iterated
    /\ seen \in [Identities -> Bodies \union {NoBody}]
    /\ rows \in Seq(RowType) /\ ranges \in Seq(Addresses)
    /\ folded \subseteq Identities \X Bodies
    /\ lost \subseteq Identities \X Bodies

\* No row is in the CSV without its line in the range sidecar.
Costepped == Len(ranges) = Len(rows)

\* No two rows of a CSV have the same name and occurrence, whatever was
\* skipped, folded or failed in between: pass 2 keys its sections by the pair.
\* (A row whose range line fails does not set prev_func_name, and the next
\* row of its name repeats its occurrence.)
RowsAddressable ==
    Costepped => \A i, j \in DOMAIN rows :
        rows[i].name = rows[j].name /\ rows[i].occ = rows[j].occ => i = j

\* While no row fails, the occurrences of a name are 0, 1, ... without a gap
\* in the order of the rows: a folded duplicate takes none.
OccurrencesContiguous ==
    Costepped /\ lost = {} => \A i \in DOMAIN rows :
        \/ rows[i].occ = 0 /\ \A j \in 1..(i - 1) : rows[j].name # rows[i].name
        \/ i > 1 /\ rows[i - 1].name = rows[i].name
                 /\ rows[i].occ = rows[i - 1].occ + 1

\* A function is folded only into a row of its identity and body, or after a
\* row of that identity and body failed: no body disappears unreported.
FoldedIsKept ==
    \A p \in folded :
        \/ p \in lost
        \/ \E i \in DOMAIN rows : rows[i].id = p[1] /\ rows[i].body = p[2]

\* After the backfill every call leads to one row: it carries an occurrence
\* exactly when it goes to a written function whose name several rows share,
\* and then the row with that name and occurrence is the one of the callee.
CallsDisambiguated ==
    phase = "done" /\ Costepped =>
        \A i \in DOMAIN rows : \A a \in DOMAIN rows[i].calls :
            LET target == {j \in DOMAIN rows : rows[j].addr = a}
                shared == {j \in target : \E k \in DOMAIN rows :
                              k # j /\ rows[k].name = rows[j].name}
            IN  /\ rows[i].calls[a] # Unstamped <=> shared # {}
                /\ \A j \in shared, k \in DOMAIN rows :
                      rows[k].name = rows[j].name /\ rows[k].occ = rows[i].calls[a]
                          => k = j
=============================================================================
