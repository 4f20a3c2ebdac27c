----------------------------- MODULE DedupStore -----------------------------
(***************************************************************************)
(* The content-addressed store of one arm of the memmap builder             *)
(* (tokenizer/memmap_builder/_dedup.py): function records are appended to   *)
(* <arm>_data.bin, a body that was written before is not written again.     *)
(*                                                                          *)
(* A body is what a record says apart from its entry_idx.  Offsets are in   *)
(* the 16-byte units the maps store (offset >> 4).                          *)
(***************************************************************************)
EXTENDS Integers, Sequences, FiniteSets

CONSTANTS
    Bodies,     \* the bodies the CSV rows decode to
    Hashes,     \* the values of the 64-bit content hash
    Hash,       \* content_hash of a body: bodies may share one
    Units,      \* record_total_size of a body, in 16-byte units
    Oversized   \* bodies the encoder refuses (IndexEntrySkip)

\* "SENTINEL = 0 ... consult the collision map"; the file prelude is one unit.
SENTINEL == 0
Prelude  == 1

ASSUME DedupAssumption ==
    /\ Hash \in [Bodies -> Hashes]
    /\ Units \in [Bodies -> Nat \ {0}]
    /\ Oversized \subseteq Bodies

VARIABLES
    bin,        \* the records on disk: offset -> [body, idx]
    cursor,     \* where the next record goes
    emitted,    \* _n_entries_emitted
    primary,    \* hash -> offset or SENTINEL
    collision,  \* hash -> the offsets of its bodies
    trailer,    \* total_entries, -1 until finalize
    answers     \* history: the (body, offset) pairs dedup_and_write returned

vars == <<bin, cursor, emitted, primary, collision, trailer, answers>>

\* The types of the store.
TypeOK ==
    /\ DOMAIN bin \subseteq Nat
    /\ \A o \in DOMAIN bin : bin[o] \in [body : Bodies, idx : Nat]
    /\ cursor \in Nat /\ emitted \in Nat
    /\ DOMAIN primary \subseteq Hashes
    /\ \A h \in DOMAIN primary : primary[h] \in Nat
    /\ DOMAIN collision \subseteq Hashes
    /\ \A h \in DOMAIN collision : collision[h] \in Seq(Nat)
    /\ trailer \in Nat \cup {-1}
    /\ answers \subseteq Bodies \X Nat

Init ==
    /\ bin = << >> /\ cursor = Prelude /\ emitted = 0
    /\ primary = << >> /\ collision = << >>
    /\ trailer = -1 /\ answers = {}

(* --------------------------- dedup_and_write ----------------------------- *)

\* f with x mapped to y (a dictionary assignment).
Put(f, x, y) == [z \in DOMAIN f \cup {x} |-> IF z = x THEN y ELSE f[z]]

\* writer.write of a fresh record, stamped with the next ordinal.
Write(b) ==
    /\ bin' = Put(bin, cursor, [body |-> b, idx |-> emitted])
    /\ cursor' = cursor + Units[b]
    /\ emitted' = emitted + 1

Return(b, o) == answers' = answers \cup {<<b, o>>}

\* _read_existing_record + _bytes_equal_modulo_idx: the ordinals may differ.
HoldsBody(o, b) == bin[o].body = b

PrimaryMiss(b) ==
    /\ Hash[b] \notin DOMAIN primary
    /\ Write(b)
    /\ primary' = Put(primary, Hash[b], cursor)
    /\ Return(b, cursor)
    /\ UNCHANGED collision

\* Mutant of PrimaryHit: equal hashes are taken for equal bodies.
PrimaryHitTrusting(b) ==
    /\ Hash[b] \in DOMAIN primary /\ primary[Hash[b]] # SENTINEL
    /\ Return(b, primary[Hash[b]])
    /\ UNCHANGED <<bin, cursor, emitted, primary, collision>>

\* Mutant of PrimaryHit: a hit takes an ordinal too.
PrimaryHitCounts(b) ==
    /\ Hash[b] \in DOMAIN primary /\ primary[Hash[b]] # SENTINEL
    /\ HoldsBody(primary[Hash[b]], b)
    /\ Return(b, primary[Hash[b]])
    /\ emitted' = emitted + 1
    /\ UNCHANGED <<bin, cursor, primary, collision>>

\* The one record of the hash is read back and compared.
PrimaryHit(b) ==
    /\ Hash[b] \in DOMAIN primary /\ primary[Hash[b]] # SENTINEL
    /\ HoldsBody(primary[Hash[b]], b)
    /\ Return(b, primary[Hash[b]])
    /\ UNCHANGED <<bin, cursor, emitted, primary, collision>>

\* Mutant of Promote: the record the hash had so far is not carried over.
PromoteForgets(b) ==
    /\ Hash[b] \in DOMAIN primary /\ primary[Hash[b]] # SENTINEL
    /\ ~HoldsBody(primary[Hash[b]], b)
    /\ Write(b)
    /\ collision' = Put(collision, Hash[b], <<cursor>>)
    /\ primary' = Put(primary, Hash[b], SENTINEL)
    /\ Return(b, cursor)

\* A genuine hash collision: the hash moves to the collision map.
Promote(b) ==
    /\ Hash[b] \in DOMAIN primary /\ primary[Hash[b]] # SENTINEL
    /\ ~HoldsBody(primary[Hash[b]], b)
    /\ Write(b)
    /\ collision' = Put(collision, Hash[b], <<primary[Hash[b]], cursor>>)
    /\ primary' = Put(primary, Hash[b], SENTINEL)
    /\ Return(b, cursor)

\* The first candidate that holds the body is the answer.
CollisionHit(b) ==
    /\ Hash[b] \in DOMAIN primary /\ primary[Hash[b]] = SENTINEL
    /\ \E i \in 1..Len(collision[Hash[b]]) :
         LET cands == collision[Hash[b]] IN
         /\ HoldsBody(cands[i], b)
         /\ \A j \in 1..(i - 1) : ~HoldsBody(cands[j], b)
         /\ Return(b, cands[i])
    /\ UNCHANGED <<bin, cursor, emitted, primary, collision>>

CollisionMiss(b) ==
    /\ Hash[b] \in DOMAIN primary /\ primary[Hash[b]] = SENTINEL
    /\ \A i \in 1..Len(collision[Hash[b]]) :
         ~HoldsBody(collision[Hash[b]][i], b)
    /\ Write(b)
    /\ collision' = Put(collision, Hash[b], Append(collision[Hash[b]], cursor))
    /\ Return(b, cursor)
    /\ UNCHANGED primary

\* _emit_record: the encoder refuses an oversized body before the store is
\* asked (no state changes); the writer is open until finalize.
EmitRecord(b) ==
    /\ trailer = -1 /\ b \notin Oversized
    /\ \/ PrimaryMiss(b) \/ PrimaryHit(b) \/ Promote(b)
       \/ CollisionHit(b) \/ CollisionMiss(b)
    /\ UNCHANGED trailer

\* finalize_arm_dedup_state; a second call finds the writer closed.
Finalize ==
    /\ trailer = -1
    /\ trailer' = emitted
    /\ UNCHANGED <<bin, cursor, emitted, primary, collision, answers>>

Next == Finalize \/ \E b \in Bodies : EmitRecord(b)

Spec == Init /\ [][Next]_vars

(* ------------------------- inductive invariant --------------------------- *)

\* Records lie between the prelude and the cursor: 0 is nobody's offset.
Placed ==
    /\ Prelude <= cursor
    /\ \A o \in DOMAIN bin : Prelude <= o /\ o < cursor

\* No body is stored twice.
StoredOnce ==
    \A o, p \in DOMAIN bin : bin[o].body = bin[p].body => o = p

\* The records whose body has hash h are those the two maps lead to.
WithHash(h) == {o \in DOMAIN bin : Hash[bin[o].body] = h}
Indexed ==
    /\ \A o \in DOMAIN bin : Hash[bin[o].body] \in DOMAIN primary
    /\ \A h \in DOMAIN primary :
         IF primary[h] = SENTINEL
           THEN /\ h \in DOMAIN collision
                /\ WithHash(h) =
                     {collision[h][i] : i \in 1..Len(collision[h])}
           ELSE WithHash(h) = {primary[h]}

\* What was answered is still so.
Answered ==
    \A x \in answers : x[2] \in DOMAIN bin /\ bin[x[2]].body = x[1]

\* The counter is the number of records, and the ordinals follow the offsets.
Counted ==
    /\ IsFiniteSet(DOMAIN bin) /\ emitted = Cardinality(DOMAIN bin)
    /\ \A o \in DOMAIN bin :
         bin[o].idx = Cardinality({p \in DOMAIN bin : p < o})
    /\ trailer # -1 => trailer = emitted

IInv == TypeOK /\ Placed /\ StoredOnce /\ Indexed /\ Answered /\ Counted

(* ------------------------------ properties ------------------------------- *)

\* The arm as its users see it: a store that answers a body with the one
\* offset it was given, whatever its hash collides with.
Stored == [o \in DOMAIN bin |-> bin[o].body]
Store  == INSTANCE ContentStore WITH stored <- Stored
ImplementsStore == Store!Spec

\* Two rows get the same offset if and only if their bodies are the same:
\* process_matched_function drops a function as "no inter-variant signal" by
\* comparing offsets alone.
OffsetIsIdentity ==
    \A x, y \in answers : x[1] = y[1] <=> x[2] = y[2]

\* The ordinals stamped into the records are the order they lie on disk in,
\* without gaps, and the trailer counts them.
OrdinalsDense ==
    /\ \A o \in DOMAIN bin :
         bin[o].idx = Cardinality({p \in DOMAIN bin : p < o})
    /\ trailer # -1 => trailer = Cardinality(DOMAIN bin)
==============================================================================
