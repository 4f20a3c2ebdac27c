---------------------------- MODULE SectionWriter ----------------------------
(***************************************************************************)
(* SectionWriter (tokenizer/aligned_data/matched_sections_bin.py): writes   *)
(* <binary>_sections.bin front to back and patches what it could not know   *)
(* when it wrote it: where the section of a callee starts, and which of its *)
(* variants a call goes to.                                                 *)
(*                                                                          *)
(* The offset of a section is its position in the file, 1 for the first; 0  *)
(* is the placeholder.  A variant has its variant_ref_offset and its calls, *)
(* a function from called_idx, the position of the callee in the section's  *)
(* call_target table, to section_variant_index.  Two variants of a section  *)
(* may have the same variant_ref_offset: VariantRegistry gives one to all   *)
(* inputs with the same version key.                                        *)
(*                                                                          *)
(* The callee_vkey of a call is the variant_ref_offset of the variant that  *)
(* makes it, as in all calls of pass 2.  callee_occurrence, which no caller *)
(* outside the tests sets, is left out with the two maps that serve it.     *)
(***************************************************************************)
EXTENDS Integers, Sequences

CONSTANTS
    Fids,     \* function_name_ptr: line numbers of the function-names sidecar
    Vrefs,    \* variant_ref_offset: byte offsets in the variants sidecar
    MaxU16    \* the largest value of a u16 slot

ASSUME WriterAssumption ==
    /\ Fids \subseteq Nat \ {0}
    /\ Vrefs \subseteq Nat
    /\ MaxU16 \in Nat \ {0, 1}

LOCAL_T == 0
PLT_T == 1
EXTERN_T == 2
CallTargetType == {LOCAL_T, PLT_T, EXTERN_T}

UNRESOLVED == MaxU16        \* UNRESOLVED_VARIANT_INDEX
MISSING == MaxU16 - 1       \* MISSING_VARIANT_INDEX

VARIABLES
    bin,          \* the closed sections
    known,        \* _known_sections: offset of the last section of a fid, or 0
    pending,      \* _pending_holes: sections that wait for a fid
    curFid,       \* _current_fid, 0 when no section is open
    curDeclared,  \* _current_n_variants_declared
    curTargets,   \* the call_target table of the open section; "line" is the
                  \* extern_provider_line_no a row was written for
    curVariants,  \* _variant_buffer
    status        \* "open", "sealed", or "failed" when finalize raised

writerVars == <<bin, known, pending, curFid, curDeclared, curTargets, curVariants,
                status>>

Here == Len(bin) + 1        \* _current_section_offset

WriterInit ==
    /\ bin = <<>>
    /\ known = [f \in Fids |-> 0]
    /\ pending = [f \in Fids |-> {}]
    /\ curFid = 0 /\ curDeclared = 0 /\ curTargets = <<>> /\ curVariants = <<>>
    /\ status = "open"

\* The position of the first and of the last variant v among variants vs,
\* counted from 0 as on disk.
Has(vs, v) == \E i \in DOMAIN vs : vs[i].vref = v
First(vs, v) ==
    (CHOOSE i \in DOMAIN vs :
        vs[i].vref = v /\ \A j \in 1..(i - 1) : vs[j].vref # v) - 1
Last(vs, v) ==
    (CHOOSE i \in DOMAIN vs :
        vs[i].vref = v /\ \A j \in (i + 1)..Len(vs) : vs[j].vref # v) - 1

(* ------------------- begin_section, emit_call_targets -------------------- *)

\* Mutant of SectionPtr: an extern callee whose name has a section points to it.
SectionPtrByName(spec, kn) ==
    IF spec.type = EXTERN_T /\ kn[spec.fid] = 0 THEN spec.line ELSE kn[spec.fid]

\* _resolve_function_section_ptr, with the section itself already known.
SectionPtr(spec, kn) ==
    IF spec.type = EXTERN_T THEN spec.line ELSE kn[spec.fid]

\* A row that has to be patched when its callee is written.
Forward(spec, kn) == spec.type # EXTERN_T /\ kn[spec.fid] = 0

BeginSection(fid, n, specs) ==
    LET kn == [known EXCEPT ![fid] = Here] IN
    /\ status = "open" /\ curFid = 0
    /\ n <= MaxU16 - 1
    /\ known' = kn
    /\ curFid' = fid /\ curDeclared' = n
    /\ curTargets' = [k \in DOMAIN specs |->
                        [fid |-> specs[k].fid, type |-> specs[k].type,
                         line |-> specs[k].line, ptr |-> SectionPtr(specs[k], kn)]]
    /\ pending' = [f \in Fids |->
                     IF \E k \in DOMAIN specs : specs[k].fid = f /\ Forward(specs[k], kn)
                       THEN pending[f] \cup {Here} ELSE pending[f]]
    /\ curVariants' = <<>>
    /\ UNCHANGED <<bin, status>>

(* ------------- begin_variant, emit_per_call_entries, end_variant --------- *)

\* _resolve_backward_variant_index, UNRESOLVED for None.
Backward(f, v) ==
    IF f # curFid /\ known[f] # 0 /\ Has(bin[known[f]].variants, v)
      THEN First(bin[known[f]].variants, v) ELSE UNRESOLVED

\* entries maps the called_idx of every call to its
\* resolved_section_variant_index: MISSING, or UNRESOLVED for None.
Slots(v, entries) ==
    [k \in DOMAIN entries |->
        IF entries[k] # UNRESOLVED THEN entries[k] ELSE Backward(curTargets[k].fid, v)]

EmitVariant(v, entries) ==
    /\ status = "open" /\ curFid # 0
    /\ Len(curVariants) < curDeclared
    /\ curVariants' = Append(curVariants, [vref |-> v, calls |-> Slots(v, entries)])
    /\ pending' = [f \in Fids |->
                     IF /\ f # curFid
                        /\ \E k \in DOMAIN entries :
                             curTargets[k].fid = f /\ Slots(v, entries)[k] = UNRESOLVED
                       THEN pending[f] \cup {Here} ELSE pending[f]]
    /\ UNCHANGED <<bin, known, curFid, curDeclared, curTargets, status>>

(* ------------------------------ end_section ------------------------------ *)

\* Case A of _resolve_caller_section: the rows of a callee that starts at off.
StampTargets(targets, fid, off) ==
    [k \in DOMAIN targets |->
        IF targets[k].fid = fid THEN [targets[k] EXCEPT !.ptr = off] ELSE targets[k]]

\* Mutant of StampSlots: slots that have a value are stamped as well.
StampSlotsAll(sec, fid, vs) ==
    [i \in DOMAIN sec.variants |->
        [vref |-> sec.variants[i].vref,
         calls |-> [k \in DOMAIN sec.variants[i].calls |->
            IF sec.targets[k].fid = fid /\ Has(vs, sec.variants[i].vref)
              THEN Last(vs, sec.variants[i].vref) ELSE sec.variants[i].calls[k]]]]

\* Case B: the open slots of the calls to it from a variant it has.
StampSlots(sec, fid, vs) ==
    [i \in DOMAIN sec.variants |->
        [vref |-> sec.variants[i].vref,
         calls |-> [k \in DOMAIN sec.variants[i].calls |->
            IF /\ sec.targets[k].fid = fid
               /\ sec.variants[i].calls[k] = UNRESOLVED
               /\ Has(vs, sec.variants[i].vref)
              THEN Last(vs, sec.variants[i].vref) ELSE sec.variants[i].calls[k]]]]

ResolveCaller(sec, fid, off, vs) ==
    [fid |-> sec.fid, targets |-> StampTargets(sec.targets, fid, off),
     variants |-> StampSlots(sec, fid, vs)]

\* The orders in which flush_sorted may write the buffered variants: by
\* variant_ref_offset, equal ones in the order they were declared.
Flushes(vs) ==
    {p \in [DOMAIN vs -> DOMAIN vs] :
        \A i, j \in DOMAIN vs : i < j =>
            \/ vs[p[i]].vref < vs[p[j]].vref
            \/ vs[p[i]].vref = vs[p[j]].vref /\ p[i] < p[j]}

\* Mutant of EndSection: the waiting sections are forgotten.
EndSectionNoWaiters ==
    /\ status = "open" /\ curFid # 0 /\ Len(curVariants) = curDeclared
    /\ \E p \in Flushes(curVariants) :
         LET vs == [i \in DOMAIN p |-> curVariants[p[i]]]
             sec == [fid |-> curFid, targets |-> curTargets, variants |-> vs] IN
         bin' = [s \in 1..Here |->
                   IF s = Here THEN ResolveCaller(sec, curFid, Here, vs) ELSE bin[s]]
    /\ curFid' = 0 /\ curDeclared' = 0 /\ curTargets' = <<>> /\ curVariants' = <<>>
    /\ UNCHANGED <<known, pending, status>>

\* The section is flushed, resolves its own calls to itself, then those of
\* every section that waits for it.
EndSection ==
    /\ status = "open" /\ curFid # 0 /\ Len(curVariants) = curDeclared
    /\ \E p \in Flushes(curVariants) :
         LET vs == [i \in DOMAIN p |-> curVariants[p[i]]]
             sec == [fid |-> curFid, targets |-> curTargets, variants |-> vs] IN
         bin' = [s \in 1..Here |->
                   IF s = Here THEN ResolveCaller(sec, curFid, Here, vs)
                   ELSE IF s \in pending[curFid]
                     THEN ResolveCaller(bin[s], curFid, Here, vs)
                     ELSE bin[s]]
    /\ curFid' = 0 /\ curDeclared' = 0 /\ curTargets' = <<>> /\ curVariants' = <<>>
    /\ UNCHANGED <<known, pending, status>>

(* -------------------------------- finalize ------------------------------- *)

\* _resolve_or_stamp_remaining_holes: MISSING for what no section resolved.
StampMissing(s) ==
    [bin[s] EXCEPT !.variants =
        [i \in DOMAIN bin[s].variants |->
            [vref |-> bin[s].variants[i].vref,
             calls |-> [k \in DOMAIN bin[s].variants[i].calls |->
                IF /\ bin[s].variants[i].calls[k] = UNRESOLVED
                   /\ s \in pending[bin[s].targets[k].fid]
                  THEN MISSING ELSE bin[s].variants[i].calls[k]]]]]

NeverWritten == \E f \in Fids : pending[f] # {} /\ known[f] = 0
Leaks(b) == \E s \in DOMAIN b : \E i \in DOMAIN b[s].variants :
                \E k \in DOMAIN b[s].variants[i].calls :
                    b[s].variants[i].calls[k] = UNRESOLVED

\* Raises when a callee was never written, and after the stamps when a slot
\* is still open.
Finalize ==
    LET stamped == [s \in DOMAIN bin |-> StampMissing(s)] IN
    /\ status = "open" /\ curFid = 0
    /\ IF NeverWritten
         THEN status' = "failed" /\ UNCHANGED <<bin, pending>>
         ELSE /\ bin' = stamped
              /\ pending' = [f \in Fids |-> {}]
              /\ status' = IF Leaks(stamped) THEN "failed" ELSE "sealed"
    /\ UNCHANGED <<known, curFid, curDeclared, curTargets, curVariants>>
==============================================================================
