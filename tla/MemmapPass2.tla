----------------------------- MODULE MemmapPass2 -----------------------------
(***************************************************************************)
(* Pass 2 of the memmap builder (tokenizer/memmap_builder/_pass2.py): the   *)
(* spooled entries of pass 1 become sections, the matched ones first, and   *)
(* their calls are resolved by the section writer.                          *)
(*                                                                          *)
(* The plan is what pass 1 leaves behind (SectionsAddressable in            *)
(* MemmapPass1): one section per matched name, one per (name, occurrence)   *)
(* of the others, each with the variants that have it.  The calls of a      *)
(* section are chosen when it is opened.                                    *)
(***************************************************************************)
EXTENDS SectionWriter, FiniteSets

CONSTANTS
    Provider,      \* line of the library that provides an extern function
    MaxSections,   \* bound: sections of a binary
    MaxVariants,   \* bound: variants of a section
    MaxBlocks,     \* bound: variants of all sections together
    MaxTargets     \* bound: rows of all call_target tables together

ASSUME Pass2Assumption ==
    /\ Provider \in [Fids -> Nat]
    /\ MaxSections \in Nat /\ MaxVariants \in Nat
    /\ MaxBlocks \in Nat /\ MaxTargets \in Nat

VARIABLES
    plan,        \* the sections to write, in order
    duplicated,  \* DuplicateNameClassifier.duplicated_names
    keys,        \* index_map of the open section: its typed callees in order
    called       \* per variant of the open section its typed callees

pass2Vars == <<plan, duplicated, keys, called>>
vars == <<writerVars, pass2Vars>>

(* ------------------------ what pass 1 leaves behind ---------------------- *)

Heads == [fid : Fids, matched : BOOLEAN,
          vrefs : UNION {[1..n -> Vrefs] : n \in 1..MaxVariants}]

\* Matched before unmatched, each arm in name order; only a duplicated name
\* has several sections, all of them unmatched.
Planned(q, dups) ==
    \A i, j \in DOMAIN q :
        /\ q[i].fid \in dups => ~q[i].matched
        /\ q[i].matched => Len(q[i].vrefs) >= 2
        /\ i < j =>
             /\ q[j].matched => q[i].matched
             /\ q[i].matched = q[j].matched => q[i].fid <= q[j].fid
             /\ q[i].fid = q[j].fid => q[i].fid \in dups

Blocks(q) == Cardinality(UNION {{i} \X DOMAIN q[i].vrefs : i \in DOMAIN q})

Init ==
    /\ WriterInit
    /\ duplicated \in SUBSET Fids
    /\ plan \in {q \in UNION {[1..n -> Heads] : n \in 1..MaxSections} :
                   Planned(q, duplicated) /\ Blocks(q) <= MaxBlocks}
    /\ keys = <<>> /\ called = <<>>

\* sectioned_func_names: the names that have a section.
Sectioned == {plan[i].fid : i \in DOMAIN plan}

(* ----------------------------- the call targets -------------------------- *)

TypedCallees == Fids \X CallTargetType

\* A callee pass 1 dropped is written as an extern one.
EffectiveType(c) == IF c[1] \in Sectioned THEN c[2] ELSE EXTERN_T

\* The line of the provider, 0 when it is unknown or the callee is demoted.
ProviderLine(c) == IF c[2] = EXTERN_T THEN Provider[c[1]] ELSE 0

\* The orders of the table: by effective type, as encountered within one.
Tables(T) ==
    {q \in UNION {[1..n -> T] : n \in 0..MaxTargets} :
        /\ \A c \in T : \E i \in DOMAIN q : q[i] = c
        /\ \A i, j \in DOMAIN q :
             i < j => q[i] # q[j] /\ EffectiveType(q[i]) <= EffectiveType(q[j])}

\* _build_call_targets_spec
Specs(q) ==
    [k \in DOMAIN q |-> [fid |-> q[k][1], type |-> EffectiveType(q[k]),
                         line |-> ProviderLine(q[k])]]

\* Bound: the rows that are left for this section.
RowsLeft ==
    MaxTargets - Cardinality(UNION {{s} \X DOMAIN bin[s].targets : s \in DOMAIN bin})

\* The callees of a section, and which variant calls which of them.
CalleeSets == {{q[i] : i \in DOMAIN q} :
                 q \in UNION {[1..m -> TypedCallees] : m \in 0..RowsLeft}}
Callings(n, T) == {f \in [1..n -> SUBSET T] : UNION {f[i] : i \in 1..n} = T}

\* begin_section and emit_call_targets for the next planned section.
Open ==
    /\ curFid = 0 /\ Len(bin) < Len(plan)
    /\ LET head == plan[Len(bin) + 1] IN
       \E T \in CalleeSets : \E f \in Callings(Len(head.vrefs), T) : \E q \in Tables(T) :
           /\ BeginSection(head.fid, Len(head.vrefs), Specs(q))
           /\ keys' = q /\ called' = f
    /\ UNCHANGED <<plan, duplicated>>

(* --------------------------- the calls of a variant ---------------------- *)

\* Mutant of Terminal: a call to a duplicated name is resolved by its name.
TerminalNone(c) == UNRESOLVED

Terminal(c) == IF c[1] \in duplicated THEN MISSING ELSE UNRESOLVED

\* _emit_variant_per_call_entries: extern callees and callees without a
\* section have no slot.
Entries(C) ==
    [k \in {j \in DOMAIN keys : /\ keys[j] \in C /\ keys[j][2] # EXTERN_T
                                /\ keys[j][1] \in Sectioned} |-> Terminal(keys[k])]

Variant ==
    /\ curFid # 0
    /\ LET i == Len(curVariants) + 1 IN
       /\ i <= Len(called)
       /\ EmitVariant(plan[Here].vrefs[i], Entries(called[i]))
    /\ UNCHANGED pass2Vars

Close == EndSection /\ keys' = <<>> /\ called' = <<>> /\ UNCHANGED <<plan, duplicated>>

\* Both arms are done.
Seal == Len(bin) = Len(plan) /\ Finalize /\ UNCHANGED pass2Vars

\* finalize has returned or raised.
Terminated == status # "open" /\ UNCHANGED vars

Next == Open \/ Variant \/ Close \/ Seal \/ Terminated
Spec == Init /\ [][Next]_vars

(* ------------------------------ properties ------------------------------- *)

\* The types of the state.
TypeOK ==
    /\ Len(bin) <= Len(plan) /\ curFid \in Fids \cup {0}
    /\ known \in [Fids -> 0..(Len(bin) + 1)]
    /\ pending \in [Fids -> SUBSET (1..(Len(bin) + 1))]
    /\ status \in {"open", "sealed", "failed"}
    /\ \A s \in DOMAIN bin :
         /\ bin[s].fid = plan[s].fid
         /\ \A k \in DOMAIN bin[s].targets : bin[s].targets[k].type \in CallTargetType
         /\ \A i, j \in DOMAIN bin[s].variants :
              i < j => bin[s].variants[i].vref <= bin[s].variants[j].vref
         /\ \A i \in DOMAIN bin[s].variants :
              \A k \in DOMAIN bin[s].variants[i].calls :
                 /\ k \in DOMAIN bin[s].targets
                 /\ bin[s].variants[i].calls[k] \in 0..MaxU16

\* What a reader gets for slot k of variant i of section s.
Row(s, k) == bin[s].targets[k]
Slot(s, i, k) == bin[s].variants[i].calls[k]
Slots3 == {x \in (1..Len(bin)) \X (1..MaxVariants) \X (1..MaxTargets) :
             /\ x[2] \in DOMAIN bin[x[1]].variants
             /\ x[3] \in DOMAIN bin[x[1]].variants[x[2]].calls}

\* A pair (function_section_ptr, section_variant_index) that a loader may
\* follow leads to a section of the function that is called, and to a variant
\* of it that is the variant of the caller, whichever of the two sections was
\* written first and however often the pair was patched.  (With the types of
\* the state.)
PairsResolve ==
    TypeOK /\ \A x \in Slots3 :
        LET s == x[1]  i == x[2]  k == x[3]  sv == Slot(s, i, k)  row == Row(s, k) IN
        sv \notin {UNRESOLVED, MISSING} =>
            /\ row.ptr \in DOMAIN bin /\ bin[row.ptr].fid = row.fid
            /\ sv + 1 \in DOMAIN bin[row.ptr].variants
            /\ bin[row.ptr].variants[sv + 1].vref = bin[s].variants[i].vref

\* In the sealed file a call is marked missing only when it has no target:
\* its callee is a duplicated name or has no body for the variant.
MissingOnlyWhenAbsent ==
    status = "sealed" =>
        \A x \in Slots3 :
            LET s == x[1]  i == x[2]  k == x[3] IN
            /\ Slot(s, i, k) # UNRESOLVED
            /\ Slot(s, i, k) = MISSING <=>
                 \/ Row(s, k).fid \in duplicated
                 \/ \A t \in DOMAIN bin : bin[t].fid = Row(s, k).fid =>
                        ~Has(bin[t].variants, bin[s].variants[i].vref)

\* Every local or PLT row of the sealed file leads to a section of its callee.
PointersLand ==
    status = "sealed" =>
        \A s \in DOMAIN bin : \A k \in DOMAIN bin[s].targets :
            Row(s, k).type # EXTERN_T =>
                /\ Row(s, k).ptr \in DOMAIN bin
                /\ bin[Row(s, k).ptr].fid = Row(s, k).fid

\* finalize never raises: no callee is left without a section and no slot
\* without a value.
FinalizeSucceeds == status # "failed"

\* The file of a plan can always be sealed, and in the sealed file every call
\* leads to its callee, or is marked missing because there is none.
SealedResolves == FinalizeSucceeds /\ PointersLand /\ MissingOnlyWhenAbsent

\* A section_variant_index is stamped once: what a slot has is never replaced
\* by another value.
StampedOnce ==
    [][\A x \in Slots3 :
         Slot(x[1], x[2], x[3]) # UNRESOLVED =>
             bin'[x[1]].variants[x[2]].calls[x[3]] = Slot(x[1], x[2], x[3])]_vars

\* An extern row holds the line of its provider, or the offset of a section
\* that has the name of the callee and was closed at or after the section of
\* the row: only the stamp of a namesake replaces the line, in whichever order
\* the sections are written.
ProviderLostToNamesake ==
    \A s \in DOMAIN bin : \A k \in DOMAIN bin[s].targets :
        Row(s, k).type = EXTERN_T /\ Row(s, k).ptr # Row(s, k).line =>
            /\ Row(s, k).ptr \in s..Len(bin)
            /\ bin[Row(s, k).ptr].fid = Row(s, k).fid
==============================================================================
