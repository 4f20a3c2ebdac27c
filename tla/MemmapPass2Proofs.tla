------------------------- MODULE MemmapPass2Proofs -------------------------
(***************************************************************************)
(* Proofs about MemmapPass2 for any set of functions and variants, any      *)
(* width of the slots and any size of the plan, the tables and the variants.*)
(*                                                                          *)
(* What a reader gets is right only because of what the writer remembers    *)
(* while the file is open: a row without a section is in pending and its    *)
(* callee has no section yet (RowOK), a slot without a value is in pending  *)
(* and no section written so far has the variant (SlotOK).  The section     *)
(* that is open is under the same two conditions, but for its calls to      *)
(* itself, which no map remembers: its own end_section resolves them.       *)
(***************************************************************************)
EXTENDS MemmapPass2, WellFoundedInduction, TLAPS

RowRec == [fid : Fids, type : CallTargetType, line : Nat, ptr : Nat]
CallMaps == UNION {[D -> 0..MaxU16] : D \in SUBSET (1..MaxTargets)}
VarRec == [vref : Vrefs, calls : CallMaps]
SectionRec == [fid : Fids, targets : Seq(RowRec), variants : Seq(VarRec)]

\* Every call has a row, and not an extern one.
CallsHaveRows(targets, variants) ==
    \A i \in DOMAIN variants : \A k \in DOMAIN variants[i].calls :
        k \in DOMAIN targets /\ targets[k].type # EXTERN_T

PlanInv ==
    duplicated \subseteq Fids /\ plan \in Seq(Heads) /\ Planned(plan, duplicated)

\* The closed sections are those of the plan, in its order.
ShapeInv ==
    /\ bin \in Seq(SectionRec) /\ Len(bin) <= Len(plan)
    /\ known \in [Fids -> 0..(Len(bin) + 1)]
    /\ pending \in [Fids -> SUBSET (1..(Len(bin) + 1))]
    /\ curFid \in Fids \cup {0}
    /\ status \in {"open", "sealed"}
    /\ \A s \in DOMAIN bin :
         /\ bin[s].fid = plan[s].fid
         /\ Len(bin[s].variants) <= MaxU16 - 1
         /\ \A i, j \in DOMAIN bin[s].variants :
              i < j => bin[s].variants[i].vref <= bin[s].variants[j].vref
         /\ CallsHaveRows(bin[s].targets, bin[s].variants)

\* The open section is the next one of the plan.
OpenInv ==
    curFid # 0 =>
        /\ Len(bin) < Len(plan) /\ curFid = plan[Here].fid /\ known[curFid] = Here
        /\ curDeclared = Len(plan[Here].vrefs) /\ curDeclared <= MaxU16 - 1
        /\ keys \in Seq(TypedCallees) /\ Len(keys) <= MaxTargets
        /\ DOMAIN curTargets = DOMAIN keys
        /\ curTargets \in Seq(RowRec)
        /\ \A k \in DOMAIN keys : /\ curTargets[k].fid = keys[k][1]
                                  /\ curTargets[k].type = EffectiveType(keys[k])
                                  /\ curTargets[k].type # EXTERN_T =>
                                        curTargets[k].ptr = known[keys[k][1]]
        /\ curVariants \in Seq(VarRec) /\ Len(curVariants) <= curDeclared
        /\ CallsHaveRows(curTargets, curVariants)

\* The two maps: a known name has a closed section or is the one that is open,
\* and only names with a section are waited for.
KnownInv ==
    /\ \A f \in Fids : known[f] # 0 =>
         \/ known[f] \in DOMAIN bin /\ bin[known[f]].fid = f
         \/ curFid = f /\ known[f] = Here
    /\ \A s \in DOMAIN bin : known[bin[s].fid] # 0
    /\ \A f \in Fids : pending[f] # {} => f \in Sectioned

Lands(r) == r.ptr \in DOMAIN bin /\ bin[r.ptr].fid = r.fid
Unwritten(f) == \A t \in DOMAIN bin : bin[t].fid # f
NoBody(f, v) == \A t \in DOMAIN bin : bin[t].fid = f => ~Has(bin[t].variants, v)
SelfCall(s, f) == curFid # 0 /\ s = Here /\ f = curFid

\* A row of section s leads to its callee or waits for it; the line of a
\* provider is only lost to a namesake.
RowOK(s, r) ==
    /\ r.type # EXTERN_T =>
         /\ r.fid \in Sectioned
         /\ \/ SelfCall(s, r.fid)
            \/ Lands(r)
            \/ s \in pending[r.fid] /\ Unwritten(r.fid)
    /\ r.type = EXTERN_T /\ r.ptr # r.line => r.ptr \in s..Len(bin) /\ Lands(r)

Leads(r, v, sv) ==
    /\ Lands(r) /\ sv + 1 \in DOMAIN bin[r.ptr].variants
    /\ bin[r.ptr].variants[sv + 1].vref = v

\* A slot of section s for row r and variant v is closed for a duplicated name
\* alone, leads to v, or waits for a section that has v.
SlotOK(s, r, v, sv) ==
    /\ sv = MISSING <=> r.fid \in duplicated
    /\ sv = UNRESOLVED =>
         SelfCall(s, r.fid) \/ (s \in pending[r.fid] /\ NoBody(r.fid, v))
    /\ sv \notin {MISSING, UNRESOLVED} => Leads(r, v, sv)

RowsInv ==
    /\ \A s \in DOMAIN bin : \A k \in DOMAIN bin[s].targets : RowOK(s, bin[s].targets[k])
    /\ curFid # 0 => \A k \in DOMAIN curTargets : RowOK(Here, curTargets[k])

SlotsInv ==
    /\ \A s \in DOMAIN bin : \A i \in DOMAIN bin[s].variants :
         \A k \in DOMAIN bin[s].variants[i].calls :
            SlotOK(s, bin[s].targets[k], bin[s].variants[i].vref,
                   bin[s].variants[i].calls[k])
    /\ curFid # 0 =>
         \A i \in DOMAIN curVariants : \A k \in DOMAIN curVariants[i].calls :
            SlotOK(Here, curTargets[k], curVariants[i].vref, curVariants[i].calls[k])

IInv ==
    /\ PlanInv /\ ShapeInv
    /\ status = "open" => OpenInv /\ KnownInv /\ RowsInv /\ SlotsInv
    /\ status = "sealed" => PairsResolve /\ ProviderLostToNamesake /\ SealedResolves

(* ------------------------- sequences and records ------------------------- *)

\* The natural numbers are well ordered.
LEMMA LeastElement ==
    ASSUME NEW T, T \subseteq Nat, T # {}
    PROVE  \E x \in T : \A y \in T : x <= y
<1> DEFINE R == OpToRel(<, Nat)
<1>1. \E x \in T : \A y \in T : ~ (<<y, x>> \in R)
  <2> HIDE DEF R
  <2>1. IsWellFoundedOn(R, Nat)
    BY NatLessThanWellFounded DEF R
  <2> QED
    BY <2>1, WFMin
<1>2. \A x, y \in Nat : y < x => <<y, x>> \in R
  BY DEF OpToRel
<1> HIDE DEF R
<1>3. PICK x \in T : \A y \in T : ~ (<<y, x>> \in R)
  BY <1>1
<1>4. ASSUME NEW y \in T PROVE x <= y
  <2>1. x \in Nat /\ y \in Nat /\ ~ (y < x)
    BY <1>2, <1>3
  <2> QED
    BY <2>1
<1> QED
  BY <1>3, <1>4

\* A bounded set of natural numbers has a greatest element.
LEMMA GreatestElement ==
    ASSUME NEW n \in Nat, NEW T, T \subseteq 0..n, T # {}
    PROVE  \E x \in T : \A y \in T : y <= x
<1> DEFINE U == {n - i : i \in T}
<1>1. U \subseteq Nat /\ U # {}
  <2>1. \A i \in T : n - i \in Nat
    OBVIOUS
  <2> QED
    BY <2>1
<1>2. PICK x \in U : \A y \in U : x <= y
  BY <1>1, LeastElement
<1>3. PICK i \in T : x = n - i
  OBVIOUS
<1>4. ASSUME NEW y \in T PROVE y <= i
  <2>1. n - y \in U
    OBVIOUS
  <2> QED
    BY <1>2, <1>3, <2>1
<1> QED
  BY <1>4

\* A function on 1..n is a sequence.
LEMMA FunctionIsSeq ==
    ASSUME NEW S, NEW n \in Nat, NEW f \in [1..n -> S]
    PROVE  f \in Seq(S) /\ Len(f) = n /\ DOMAIN f = 1..n
OBVIOUS

\* The elements of a typed sequence.
LEMMA SeqFacts ==
    ASSUME NEW S, NEW q \in Seq(S)
    PROVE  /\ Len(q) \in Nat /\ DOMAIN q = 1..Len(q)
           /\ \A i \in DOMAIN q : q[i] \in S
OBVIOUS

\* What Append does to a typed sequence.
LEMMA AppendFacts ==
    ASSUME NEW S, NEW q \in Seq(S), NEW e \in S
    PROVE  /\ Append(q, e) \in Seq(S)
           /\ Len(Append(q, e)) = Len(q) + 1
           /\ DOMAIN Append(q, e) = 1..(Len(q) + 1)
           /\ \A i \in 1..Len(q) : Append(q, e)[i] = q[i]
           /\ Append(q, e)[Len(q) + 1] = e
OBVIOUS

\* The fields of the records.
LEMMA RowFields ==
    ASSUME NEW r \in RowRec
    PROVE  r.fid \in Fids /\ r.type \in CallTargetType /\ r.line \in Nat /\ r.ptr \in Nat
BY DEF RowRec

LEMMA CallMapFacts ==
    ASSUME NEW m \in CallMaps
    PROVE  /\ m \in [DOMAIN m -> 0..MaxU16] /\ DOMAIN m \subseteq 1..MaxTargets
           /\ \A k \in DOMAIN m : m[k] \in 0..MaxU16
<1>1. PICK D \in SUBSET (1..MaxTargets) : m \in [D -> 0..MaxU16]
  BY DEF CallMaps
<1> QED
  BY <1>1

LEMMA VarFields ==
    ASSUME NEW x \in VarRec
    PROVE  x.vref \in Vrefs /\ x.calls \in CallMaps
BY DEF VarRec

LEMMA SectionFields ==
    ASSUME NEW sec \in SectionRec
    PROVE  /\ sec.fid \in Fids
           /\ sec.targets \in Seq(RowRec) /\ sec.variants \in Seq(VarRec)
           /\ \A k \in DOMAIN sec.targets : sec.targets[k] \in RowRec
           /\ \A i \in DOMAIN sec.variants : sec.variants[i] \in VarRec
<1>1. sec.fid \in Fids /\ sec.targets \in Seq(RowRec) /\ sec.variants \in Seq(VarRec)
  BY DEF SectionRec
<1> QED
  BY <1>1, SeqFacts

LEMMA HeadFields ==
    ASSUME NEW h \in Heads
    PROVE  h.fid \in Fids /\ h.vrefs \in Seq(Vrefs)
<1>1. h.fid \in Fids /\ h.vrefs \in UNION {[1..n -> Vrefs] : n \in 1..MaxVariants}
  BY DEF Heads
<1>2. PICK n \in 1..MaxVariants : h.vrefs \in [1..n -> Vrefs]
  BY <1>1
<1>3. n \in Nat
  BY <1>2, Pass2Assumption
<1> QED
  BY <1>1, <1>2, <1>3, FunctionIsSeq

\* First and Last find a variant that is there.
LEMMA FirstFacts ==
    ASSUME NEW vs \in Seq(VarRec), NEW v, Has(vs, v)
    PROVE  /\ First(vs, v) \in 0..(Len(vs) - 1) /\ First(vs, v) + 1 \in DOMAIN vs
           /\ vs[First(vs, v) + 1].vref = v
<1> DEFINE T == {i \in DOMAIN vs : vs[i].vref = v}
<1>1. DOMAIN vs = 1..Len(vs) /\ Len(vs) \in Nat
  OBVIOUS
<1>2. PICK x \in T : \A y \in T : x <= y
  <2>1. T \subseteq Nat /\ T # {}
    BY <1>1 DEF Has
  <2> QED
    BY <2>1, LeastElement
<1>3. \A j \in 1..(x - 1) : vs[j].vref # v
  BY <1>1, <1>2
<1>4. PICK i \in DOMAIN vs : vs[i].vref = v /\ First(vs, v) = i - 1
  BY <1>2, <1>3 DEF First
<1> QED
  BY <1>1, <1>4

LEMMA LastFacts ==
    ASSUME NEW vs \in Seq(VarRec), NEW v, Has(vs, v)
    PROVE  /\ Last(vs, v) \in 0..(Len(vs) - 1) /\ Last(vs, v) + 1 \in DOMAIN vs
           /\ vs[Last(vs, v) + 1].vref = v
<1> DEFINE T == {i \in DOMAIN vs : vs[i].vref = v}
<1>1. DOMAIN vs = 1..Len(vs) /\ Len(vs) \in Nat
  OBVIOUS
<1>2. PICK x \in T : \A y \in T : y <= x
  <2>1. T \subseteq 0..Len(vs) /\ T # {}
    BY <1>1 DEF Has
  <2> QED
    BY <1>1, <2>1, GreatestElement
<1>3. \A j \in (x + 1)..Len(vs) : vs[j].vref # v
  BY <1>1, <1>2
<1>4. PICK i \in DOMAIN vs : vs[i].vref = v /\ Last(vs, v) = i - 1
  BY <1>2, <1>3 DEF Last
<1> QED
  BY <1>1, <1>4

(* ------------------------------ the patches ------------------------------ *)

\* Section sec becomes res, row by row and slot by slot, when the sections it
\* waits for among hits are written at off with variants vs.
Patched(sec, hits, off, vs, res) ==
    /\ res \in SectionRec /\ res.fid = sec.fid
    /\ DOMAIN res.targets = DOMAIN sec.targets
    /\ \A k \in DOMAIN sec.targets :
         /\ res.targets[k].fid = sec.targets[k].fid
         /\ res.targets[k].type = sec.targets[k].type
         /\ res.targets[k].line = sec.targets[k].line
         /\ res.targets[k].ptr =
              IF sec.targets[k].fid \in hits THEN off ELSE sec.targets[k].ptr
    /\ DOMAIN res.variants = DOMAIN sec.variants
    /\ Len(res.variants) = Len(sec.variants)
    /\ \A i \in DOMAIN sec.variants :
         /\ res.variants[i].vref = sec.variants[i].vref
         /\ DOMAIN res.variants[i].calls = DOMAIN sec.variants[i].calls
         /\ \A k \in DOMAIN sec.variants[i].calls :
              res.variants[i].calls[k] =
                IF /\ sec.targets[k].fid \in hits
                   /\ sec.variants[i].calls[k] = UNRESOLVED
                   /\ Has(vs, sec.variants[i].vref)
                  THEN Last(vs, sec.variants[i].vref)
                  ELSE sec.variants[i].calls[k]

\* _resolve_caller_section patches the rows and slots of one callee.
LEMMA ResolveFacts ==
    ASSUME NEW sec \in SectionRec, NEW fid \in Fids, NEW off \in Nat,
           NEW vs \in Seq(VarRec), Len(vs) <= MaxU16 - 1,
           NEW res, res = ResolveCaller(sec, fid, off, vs)
    PROVE  Patched(sec, {fid}, off, vs, res)
<1> DEFINE T == StampTargets(sec.targets, fid, off)
<1> DEFINE V == StampSlots(sec, fid, vs)
<1>1. res = [fid |-> sec.fid, targets |-> T, variants |-> V]
  BY DEF ResolveCaller
<1>2. /\ sec.fid \in Fids /\ sec.targets \in Seq(RowRec) /\ sec.variants \in Seq(VarRec)
      /\ \A k \in DOMAIN sec.targets : sec.targets[k] \in RowRec
      /\ \A i \in DOMAIN sec.variants : sec.variants[i] \in VarRec
      /\ Len(sec.targets) \in Nat /\ DOMAIN sec.targets = 1..Len(sec.targets)
      /\ Len(sec.variants) \in Nat /\ DOMAIN sec.variants = 1..Len(sec.variants)
  BY SectionFields, SeqFacts
<1>3. /\ DOMAIN T = DOMAIN sec.targets
      /\ \A k \in DOMAIN sec.targets :
           /\ T[k] \in RowRec
           /\ T[k].fid = sec.targets[k].fid /\ T[k].type = sec.targets[k].type
           /\ T[k].line = sec.targets[k].line
           /\ T[k].ptr = IF sec.targets[k].fid = fid THEN off ELSE sec.targets[k].ptr
  <2>1. DOMAIN T = DOMAIN sec.targets
    BY DEF StampTargets
  <2>2. ASSUME NEW k \in DOMAIN sec.targets
        PROVE  /\ T[k] \in RowRec
               /\ T[k].fid = sec.targets[k].fid /\ T[k].type = sec.targets[k].type
               /\ T[k].line = sec.targets[k].line
               /\ T[k].ptr = IF sec.targets[k].fid = fid THEN off ELSE sec.targets[k].ptr
    <3>1. T[k] = IF sec.targets[k].fid = fid THEN [sec.targets[k] EXCEPT !.ptr = off]
                                             ELSE sec.targets[k]
      BY DEF StampTargets
    <3>2. sec.targets[k] \in RowRec
      BY <1>2
    <3> QED
      BY <3>1, <3>2 DEF RowRec
  <2> QED
    BY <2>1, <2>2
<1>4. T \in Seq(RowRec)
  <2>1. T \in [1..Len(sec.targets) -> RowRec]
    BY <1>2, <1>3 DEF StampTargets
  <2> QED
    BY <1>2, <2>1, FunctionIsSeq
<1>5. /\ DOMAIN V = DOMAIN sec.variants
      /\ \A i \in DOMAIN sec.variants :
           /\ V[i] \in VarRec
           /\ V[i].vref = sec.variants[i].vref
           /\ DOMAIN V[i].calls = DOMAIN sec.variants[i].calls
           /\ \A k \in DOMAIN sec.variants[i].calls :
                V[i].calls[k] = IF /\ sec.targets[k].fid = fid
                                   /\ sec.variants[i].calls[k] = UNRESOLVED
                                   /\ Has(vs, sec.variants[i].vref)
                                  THEN Last(vs, sec.variants[i].vref)
                                  ELSE sec.variants[i].calls[k]
  <2>1. DOMAIN V = DOMAIN sec.variants
    BY DEF StampSlots
  <2>2. ASSUME NEW i \in DOMAIN sec.variants
        PROVE  /\ V[i] \in VarRec
               /\ V[i].vref = sec.variants[i].vref
               /\ DOMAIN V[i].calls = DOMAIN sec.variants[i].calls
               /\ \A k \in DOMAIN sec.variants[i].calls :
                    V[i].calls[k] = IF /\ sec.targets[k].fid = fid
                                       /\ sec.variants[i].calls[k] = UNRESOLVED
                                       /\ Has(vs, sec.variants[i].vref)
                                      THEN Last(vs, sec.variants[i].vref)
                                      ELSE sec.variants[i].calls[k]
    <3> DEFINE x == sec.variants[i]
    <3> DEFINE c == [k \in DOMAIN x.calls |->
                       IF /\ sec.targets[k].fid = fid
                          /\ x.calls[k] = UNRESOLVED
                          /\ Has(vs, x.vref)
                         THEN Last(vs, x.vref) ELSE x.calls[k]]
    <3>1. V[i] = [vref |-> x.vref, calls |-> c]
      BY DEF StampSlots
    <3>2. /\ x.vref \in Vrefs /\ DOMAIN x.calls \subseteq 1..MaxTargets
          /\ \A k \in DOMAIN x.calls : x.calls[k] \in 0..MaxU16
      BY <1>2, VarFields, CallMapFacts
    <3>3. Has(vs, x.vref) => Last(vs, x.vref) \in 0..MaxU16
      <4>1. Len(vs) \in Nat /\ MaxU16 \in Nat
        BY WriterAssumption, SeqFacts
      <4> QED
        BY <4>1, LastFacts
    <3>4. c \in CallMaps
      <4>1. c \in [DOMAIN x.calls -> 0..MaxU16]
        BY <3>2, <3>3
      <4> QED
        BY <3>2, <4>1 DEF CallMaps
    <3>5. V[i] \in VarRec
      <4>1. x.vref \in Vrefs
        BY <3>2
      <4> HIDE DEF x, c, V
      <4> QED
        BY <3>1, <3>4, <4>1 DEF VarRec
    <3>6. V[i].vref = x.vref /\ V[i].calls = c
      BY <3>1
    <3> QED
      BY <3>5, <3>6
  <2> QED
    BY <2>1, <2>2
<1>6. V \in Seq(VarRec) /\ Len(V) = Len(sec.variants)
  <2>1. V \in [1..Len(sec.variants) -> VarRec]
    BY <1>2, <1>5 DEF StampSlots
  <2> QED
    BY <1>2, <2>1, FunctionIsSeq
<1>7. res \in SectionRec
  BY <1>1, <1>2, <1>4, <1>6 DEF SectionRec
<1>8. res.fid = sec.fid /\ res.targets = T /\ res.variants = V
  BY <1>1
<1> HIDE DEF T, V
<1> QED
  BY <1>3, <1>5, <1>6, <1>7, <1>8 DEF Patched

(* ------------------------------ the invariant ---------------------------- *)

LEMMA InitIInv == Init => IInv
<1> SUFFICES ASSUME Init PROVE IInv
  OBVIOUS
<1>1. PlanInv
  <2>1. /\ plan \in UNION {[1..n -> Heads] : n \in 1..MaxSections}
        /\ duplicated \in SUBSET Fids /\ Planned(plan, duplicated)
    BY DEF Init
  <2>2. PICK n \in 1..MaxSections : plan \in [1..n -> Heads]
    BY <2>1
  <2>3. n \in Nat
    BY <2>2, Pass2Assumption
  <2> QED
    BY <2>1, <2>2, <2>3, FunctionIsSeq DEF PlanInv
<1>2. bin = <<>> /\ curFid = 0 /\ status = "open"
  BY DEF Init, WriterInit
<1>3. ShapeInv
  <2>1. Len(plan) \in Nat
    BY <1>1, SeqFacts DEF PlanInv
  <2> QED
    BY <1>2, <2>1 DEF Init, WriterInit, ShapeInv
<1>4. OpenInv /\ RowsInv /\ SlotsInv
  BY <1>2 DEF OpenInv, RowsInv, SlotsInv
<1>5. KnownInv
  BY <1>2 DEF Init, WriterInit, KnownInv
<1> QED
  BY <1>1, <1>2, <1>3, <1>4, <1>5 DEF IInv

\* The types of the closed sections and of the plan.
LEMMA BinFacts ==
    ASSUME PlanInv, ShapeInv
    PROVE  /\ Len(bin) \in Nat /\ DOMAIN bin = 1..Len(bin)
           /\ Here \in Nat /\ Here = Len(bin) + 1
           /\ Len(plan) \in Nat /\ DOMAIN plan = 1..Len(plan)
           /\ \A s \in DOMAIN plan : plan[s] \in Heads /\ plan[s].fid \in Fids
           /\ \A s \in DOMAIN bin : bin[s] \in SectionRec /\ bin[s].fid \in Fids
           /\ \A f \in Fids : f \in Nat /\ f # 0
<1>1. bin \in Seq(SectionRec) /\ plan \in Seq(Heads)
  BY DEF PlanInv, ShapeInv
<1> QED
  BY <1>1, SeqFacts, SectionFields, HeadFields, WriterAssumption DEF Here

\* What begin_section and emit_call_targets find: a planned section, and a
\* table of typed callees.
LEMMA OpenFacts ==
    ASSUME PlanInv, ShapeInv, Open
    PROVE  /\ status = "open" /\ curFid = 0 /\ Len(bin) < Len(plan)
           /\ plan[Here] \in Heads /\ plan[Here].fid \in Fids
           /\ keys' \in Seq(TypedCallees) /\ Len(keys') <= MaxTargets
           /\ Len(plan[Here].vrefs) \in Nat /\ Len(plan[Here].vrefs) <= MaxU16 - 1
           /\ BeginSection(plan[Here].fid, Len(plan[Here].vrefs), Specs(keys'))
           /\ UNCHANGED <<plan, duplicated>>
<1>1. /\ curFid = 0 /\ Len(bin) < Len(plan) /\ UNCHANGED <<plan, duplicated>>
      /\ \E T \in CalleeSets : \E q \in Tables(T) :
           /\ BeginSection(plan[Here].fid, Len(plan[Here].vrefs), Specs(q))
           /\ keys' = q
  BY DEF Open, Here
<1>2. PICK T \in CalleeSets : \E q \in Tables(T) :
           /\ BeginSection(plan[Here].fid, Len(plan[Here].vrefs), Specs(q))
           /\ keys' = q
  BY <1>1
<1>3. /\ BeginSection(plan[Here].fid, Len(plan[Here].vrefs), Specs(keys'))
      /\ keys' \in Tables(T)
  BY <1>2
<1>4. T \subseteq TypedCallees
  BY <1>2 DEF CalleeSets
<1>5. keys' \in Seq(TypedCallees) /\ Len(keys') <= MaxTargets
  <2>1. PICK n \in 0..MaxTargets : keys' \in [1..n -> T]
    BY <1>3 DEF Tables
  <2>2. n \in Nat /\ keys' \in [1..n -> TypedCallees]
    BY <1>4, <2>1, Pass2Assumption
  <2>3. keys' \in Seq(TypedCallees) /\ Len(keys') = n
    BY <2>2, FunctionIsSeq
  <2> QED
    BY <2>1, <2>3
<1>6. Here \in DOMAIN plan /\ plan[Here] \in Heads
  BY <1>1, BinFacts
<1>7. plan[Here].fid \in Fids /\ Len(plan[Here].vrefs) \in Nat
  BY <1>6, HeadFields, SeqFacts
<1> QED
  BY <1>1, <1>3, <1>5, <1>6, <1>7 DEF BeginSection

\* A row or a slot is right as long as no section is closed and nothing that is
\* waited for is forgotten.
LEMMA RowKept ==
    ASSUME PlanInv, ShapeInv, UNCHANGED <<bin, plan>>,
           \A f \in Fids : pending[f] \subseteq pending'[f],
           NEW s, s \in DOMAIN bin \/ curFid' = curFid,
           NEW r, r.fid \in Fids, RowOK(s, r)
    PROVE  RowOK(s, r)'
<1>1. s \in DOMAIN bin => s # Here
  BY BinFacts
<1>2. SelfCall(s, r.fid) => SelfCall(s, r.fid)'
  BY <1>1 DEF SelfCall, Here
<1>3. /\ Lands(r) => Lands(r)'
      /\ Unwritten(r.fid) => Unwritten(r.fid)'
      /\ r.fid \in Sectioned => (r.fid \in Sectioned)'
  BY DEF Lands, Unwritten, Sectioned
<1> QED
  BY <1>2, <1>3 DEF RowOK

LEMMA SlotKept ==
    ASSUME PlanInv, ShapeInv, UNCHANGED <<bin, duplicated>>,
           \A f \in Fids : pending[f] \subseteq pending'[f],
           NEW s, s \in DOMAIN bin \/ curFid' = curFid,
           NEW r, r.fid \in Fids, NEW v, NEW sv, SlotOK(s, r, v, sv)
    PROVE  SlotOK(s, r, v, sv)'
<1>1. s \in DOMAIN bin => s # Here
  BY BinFacts
<1>2. SelfCall(s, r.fid) => SelfCall(s, r.fid)'
  BY <1>1 DEF SelfCall, Here
<1>3. /\ NoBody(r.fid, v) => NoBody(r.fid, v)'
      /\ Leads(r, v, sv) => Leads(r, v, sv)'
  BY DEF NoBody, Leads, Lands, Has
<1> QED
  BY <1>2, <1>3 DEF SlotOK

\* The closed sections in such a step.
LEMMA ClosedKept ==
    ASSUME PlanInv, ShapeInv, RowsInv, SlotsInv, UNCHANGED <<bin, plan, duplicated>>,
           \A f \in Fids : pending[f] \subseteq pending'[f],
           NEW s \in DOMAIN bin
    PROVE  /\ \A k \in DOMAIN bin[s].targets : RowOK(s, bin[s].targets[k])'
           /\ \A i \in DOMAIN bin[s].variants : \A k \in DOMAIN bin[s].variants[i].calls :
                SlotOK(s, bin[s].targets[k], bin[s].variants[i].vref,
                       bin[s].variants[i].calls[k])'
<1>1. \A k \in DOMAIN bin[s].targets : bin[s].targets[k].fid \in Fids
  BY BinFacts, SectionFields, RowFields
<1>2. ASSUME NEW k \in DOMAIN bin[s].targets
      PROVE  RowOK(s, bin[s].targets[k])'
  <2>1. PICK r : r = bin[s].targets[k]
    OBVIOUS
  <2>2. RowOK(s, r) /\ r.fid \in Fids
    BY <1>1, <2>1 DEF RowsInv
  <2>3. RowOK(s, r)'
    BY <2>2, RowKept
  <2> QED
    BY <2>1, <2>3 DEF RowOK, SelfCall, Lands, Unwritten, Sectioned
<1>3. ASSUME NEW i \in DOMAIN bin[s].variants, NEW k \in DOMAIN bin[s].variants[i].calls
      PROVE  SlotOK(s, bin[s].targets[k], bin[s].variants[i].vref,
                    bin[s].variants[i].calls[k])'
  <2>1. PICK r, v, sv : /\ r = bin[s].targets[k] /\ v = bin[s].variants[i].vref
                        /\ sv = bin[s].variants[i].calls[k]
    OBVIOUS
  <2>2. SlotOK(s, r, v, sv) /\ r.fid \in Fids
    <3>1. k \in DOMAIN bin[s].targets
      BY DEF ShapeInv, CallsHaveRows
    <3> QED
      BY <1>1, <2>1, <3>1 DEF SlotsInv
  <2>3. SlotOK(s, r, v, sv)'
    BY <2>2, SlotKept
  <2> QED
    BY <2>1, <2>3 DEF SlotOK, SelfCall, NoBody, Leads, Lands, Has
<1> QED
  BY <1>2, <1>3

\* begin_section and emit_call_targets.
LEMMA OpenIInv ==
    ASSUME IInv, Open
    PROVE  IInv'
<1> DEFINE fid == plan[Here].fid
<1> DEFINE kn == [known EXCEPT ![fid] = Here]
<1>1. PlanInv /\ ShapeInv /\ status = "open" /\ KnownInv /\ RowsInv /\ SlotsInv
  <2>1. PlanInv /\ ShapeInv
    BY DEF IInv
  <2>2. status = "open"
    BY <2>1, OpenFacts
  <2> QED
    BY <2>1, <2>2 DEF IInv
<1>2. /\ curFid = 0 /\ Len(bin) < Len(plan) /\ plan[Here] \in Heads /\ fid \in Fids
      /\ keys' \in Seq(TypedCallees) /\ Len(keys') <= MaxTargets
      /\ Len(plan[Here].vrefs) \in Nat /\ Len(plan[Here].vrefs) <= MaxU16 - 1
      /\ BeginSection(fid, Len(plan[Here].vrefs), Specs(keys'))
      /\ UNCHANGED <<plan, duplicated>>
  BY <1>1, OpenFacts
<1>3. /\ bin' = bin /\ status' = status /\ Here' = Here
      /\ known' = kn /\ curFid' = fid /\ curDeclared' = Len(plan[Here].vrefs)
      /\ curVariants' = <<>>
  BY <1>2 DEF BeginSection, Here
<1>4. /\ Len(bin) \in Nat /\ DOMAIN bin = 1..Len(bin) /\ Here = Len(bin) + 1
      /\ Len(plan) \in Nat /\ DOMAIN plan = 1..Len(plan)
      /\ \A s \in DOMAIN bin : bin[s].fid \in Fids
      /\ \A f \in Fids : f \in Nat /\ f # 0
      /\ known \in [Fids -> 0..Here] /\ pending \in [Fids -> SUBSET (1..Here)]
  BY <1>1, BinFacts DEF ShapeInv
<1>5. /\ Len(keys') \in Nat /\ DOMAIN keys' = 1..Len(keys')
      /\ \A k \in DOMAIN keys' : keys'[k][1] \in Fids /\ keys'[k][2] \in CallTargetType
  <2>1. \A k \in DOMAIN keys' : keys'[k] \in Fids \X CallTargetType
    BY <1>2, SeqFacts DEF TypedCallees
  <2> QED
    BY <1>2, <2>1, SeqFacts
<1>6. /\ DOMAIN curTargets' = DOMAIN keys'
      /\ \A k \in DOMAIN keys' :
           curTargets'[k] = [fid |-> keys'[k][1], type |-> EffectiveType(keys'[k]),
                             line |-> ProviderLine(keys'[k]),
                             ptr |-> IF EffectiveType(keys'[k]) = EXTERN_T
                                       THEN ProviderLine(keys'[k]) ELSE kn[keys'[k][1]]]
  BY <1>2 DEF BeginSection, Specs, SectionPtr
<1>7. \A f \in Fids :
         /\ pending[f] \subseteq pending'[f] /\ pending'[f] \subseteq pending[f] \cup {Here}
         /\ Here \in pending'[f] => Here \in pending[f] \/ f \in Sectioned
         /\ \A k \in DOMAIN keys' :
              /\ keys'[k][1] = f /\ EffectiveType(keys'[k]) # EXTERN_T /\ kn[f] = 0
              => Here \in pending'[f]
  <2> SUFFICES ASSUME NEW f \in Fids
               PROVE  /\ pending[f] \subseteq pending'[f]
                      /\ pending'[f] \subseteq pending[f] \cup {Here}
                      /\ Here \in pending'[f] => Here \in pending[f] \/ f \in Sectioned
                      /\ \A k \in DOMAIN keys' :
                           /\ keys'[k][1] = f /\ EffectiveType(keys'[k]) # EXTERN_T
                           /\ kn[f] = 0
                           => Here \in pending'[f]
    OBVIOUS
  <2>1. pending'[f] = IF \E k \in DOMAIN keys' :
                           /\ keys'[k][1] = f /\ EffectiveType(keys'[k]) # EXTERN_T
                           /\ kn[f] = 0
                        THEN pending[f] \cup {Here} ELSE pending[f]
    BY <1>2 DEF BeginSection, Specs, Forward
  <2>2. \A k \in DOMAIN keys' :
           keys'[k][1] = f /\ EffectiveType(keys'[k]) # EXTERN_T => f \in Sectioned
    BY DEF EffectiveType
  <2> QED
    BY <2>1, <2>2
<1>8. /\ \A f \in Fids : kn[f] = IF f = fid THEN Here ELSE known[f]
      /\ kn \in [Fids -> 0..Here]
  BY <1>2, <1>4
<1>9. \A k \in DOMAIN keys' :
         /\ EffectiveType(keys'[k]) \in CallTargetType
         /\ EffectiveType(keys'[k]) # EXTERN_T => keys'[k][1] \in Sectioned
         /\ ProviderLine(keys'[k]) \in Nat
  BY <1>5, Pass2Assumption DEF EffectiveType, ProviderLine, CallTargetType
<1> HIDE DEF fid, kn
<1>10. PlanInv'
  BY <1>1, <1>2 DEF PlanInv
<1>11. ShapeInv'
  <2>1. known' \in [Fids -> 0..(Len(bin) + 1)]
    BY <1>3, <1>4, <1>8
  <2>2. pending' \in [Fids -> SUBSET (1..(Len(bin) + 1))]
    <3>1. \A f \in Fids : pending'[f] \in SUBSET (1..(Len(bin) + 1))
      BY <1>4, <1>7
    <3>2. pending' = [f \in Fids |-> pending'[f]]
      BY <1>2 DEF BeginSection
    <3> QED
      BY <3>1, <3>2
  <2> QED
    BY <1>1, <1>2, <1>3, <2>1, <2>2 DEF ShapeInv, CallsHaveRows
<1>12. OpenInv'
  <2>1. \A k \in DOMAIN keys' : curTargets'[k] \in RowRec
    BY <1>4, <1>5, <1>6, <1>8, <1>9 DEF RowRec
  <2>2. curTargets' \in Seq(RowRec)
    <3>1. curTargets' \in [1..Len(keys') -> RowRec]
      <4>1. curTargets' = [k \in DOMAIN curTargets' |-> curTargets'[k]]
        BY <1>2 DEF BeginSection
      <4> QED
        BY <1>5, <1>6, <2>1, <4>1
    <3> QED
      BY <1>5, <3>1, FunctionIsSeq
  <2>3. \A k \in DOMAIN keys' :
           /\ curTargets'[k].fid = keys'[k][1]
           /\ curTargets'[k].type = EffectiveType(keys'[k])
           /\ curTargets'[k].type # EXTERN_T => curTargets'[k].ptr = known'[keys'[k][1]]
    BY <1>3, <1>6
  <2>4. Sectioned' = Sectioned
    BY <1>2 DEF Sectioned
  <2>5. <<>> \in Seq(VarRec) /\ Len(<<>>) = 0 /\ CallsHaveRows(curTargets', <<>>)
    BY DEF CallsHaveRows
  <2> QED
    BY <1>2, <1>3, <1>4, <1>6, <1>8, <2>2, <2>3, <2>4, <2>5
    DEF OpenInv, fid, CallsHaveRows, EffectiveType
<1>13. KnownInv'
  <2>1. \A f \in Fids : known'[f] # 0 =>
           \/ known'[f] \in DOMAIN bin' /\ bin'[known'[f]].fid = f
           \/ curFid' = f /\ known'[f] = Here'
    BY <1>1, <1>2, <1>3, <1>4, <1>8 DEF KnownInv
  <2>2. \A s \in DOMAIN bin' : known'[bin'[s].fid] # 0
    BY <1>1, <1>3, <1>4, <1>8 DEF KnownInv
  <2>3. \A f \in Fids : pending'[f] # {} => f \in Sectioned
    BY <1>1, <1>7 DEF KnownInv
  <2> QED
    BY <1>2, <2>1, <2>2, <2>3 DEF KnownInv, Sectioned
<1>14. \A f \in Fids : pending[f] \subseteq pending'[f]
  BY <1>7
<1>15. RowsInv'
  <2>1. ASSUME NEW s \in DOMAIN bin, NEW k \in DOMAIN bin[s].targets
        PROVE  RowOK(s, bin[s].targets[k])'
    BY <1>1, <1>2, <1>3, <1>14, ClosedKept
  <2>2. ASSUME NEW k \in DOMAIN curTargets'
        PROVE  RowOK(Here, curTargets[k])'
    <3> DEFINE r == curTargets'[k]
    <3>1. /\ k \in DOMAIN keys' /\ keys'[k][1] \in Fids
          /\ r.fid = keys'[k][1] /\ r.type = EffectiveType(keys'[k])
          /\ r.line = ProviderLine(keys'[k])
          /\ r.ptr = IF r.type = EXTERN_T THEN r.line ELSE kn[r.fid]
      BY <1>5, <1>6
    <3>2. CASE r.type = EXTERN_T
      BY <3>1, <3>2 DEF RowOK
    <3>3. CASE r.type # EXTERN_T
      <4>1. r.fid \in Sectioned
        BY <1>9, <3>1, <3>3
      <4>2. CASE r.fid = fid
        BY <1>2, <1>3, <1>4, <3>3, <4>1, <4>2 DEF RowOK, SelfCall, Sectioned
      <4>3. CASE r.fid # fid /\ known[r.fid] # 0
        <5>1. r.ptr = known[r.fid]
          BY <1>8, <3>1, <3>3, <4>3
        <5>2. known[r.fid] \in DOMAIN bin /\ bin[known[r.fid]].fid = r.fid
          BY <1>1, <1>2, <1>4, <3>1, <4>3 DEF KnownInv
        <5> QED
          BY <1>2, <1>3, <3>3, <4>1, <5>1, <5>2 DEF RowOK, Lands, Sectioned
      <4>4. CASE r.fid # fid /\ known[r.fid] = 0
        <5>1. Here \in pending'[r.fid]
          BY <1>7, <1>8, <3>1, <3>3, <4>4
        <5>2. \A t \in DOMAIN bin : bin[t].fid # r.fid
          BY <1>1, <4>4 DEF KnownInv
        <5> QED
          BY <1>2, <1>3, <3>3, <4>1, <5>1, <5>2 DEF RowOK, Unwritten, Sectioned
      <4> QED
        BY <4>2, <4>3, <4>4
    <3> QED
      BY <3>2, <3>3
  <2> QED
    BY <1>3, <2>1, <2>2 DEF RowsInv
<1>16. SlotsInv'
  <2>1. \A s \in DOMAIN bin : \A i \in DOMAIN bin[s].variants :
           \A k \in DOMAIN bin[s].variants[i].calls :
              SlotOK(s, bin[s].targets[k], bin[s].variants[i].vref,
                     bin[s].variants[i].calls[k])'
    BY <1>1, <1>2, <1>3, <1>14, ClosedKept
  <2> QED
    BY <1>3, <2>1 DEF SlotsInv
<1> QED
  BY <1>1, <1>3, <1>10, <1>11, <1>12, <1>13, <1>15, <1>16 DEF IInv

\* Only a duplicated name has two sections.
LEMMA OneSection ==
    ASSUME PlanInv, NEW i \in DOMAIN plan, NEW j \in DOMAIN plan,
           plan[i].fid = plan[j].fid, plan[i].fid \notin duplicated
    PROVE  i = j
<1>1. plan \in Seq(Heads) /\ Planned(plan, duplicated)
  BY DEF PlanInv
<1>2. i \in Nat /\ j \in Nat
  BY <1>1, SeqFacts
<1>3. ~(i < j) /\ ~(j < i)
  BY <1>1 DEF Planned
<1> QED
  BY <1>2, <1>3

\* The value _resolve_backward_variant_index finds: the right variant of the
\* only section of the callee, or none because no section has it.
LEMMA BackwardFacts ==
    ASSUME PlanInv, ShapeInv, KnownInv, NEW f \in Fids, f \notin duplicated, NEW v
    PROVE  /\ Backward(f, v) \in 0..MaxU16 /\ Backward(f, v) # MISSING
           /\ Backward(f, v) = UNRESOLVED => f = curFid \/ NoBody(f, v)
           /\ Backward(f, v) # UNRESOLVED =>
                /\ known[f] \in DOMAIN bin /\ bin[known[f]].fid = f
                /\ Backward(f, v) + 1 \in DOMAIN bin[known[f]].variants
                /\ bin[known[f]].variants[Backward(f, v) + 1].vref = v
<1>1. MaxU16 \in Nat /\ MaxU16 > 1
  BY WriterAssumption
<1>2. CASE f # curFid /\ known[f] # 0 /\ Has(bin[known[f]].variants, v)
  <2> DEFINE vs == bin[known[f]].variants
  <2>1. known[f] \in DOMAIN bin /\ bin[known[f]].fid = f
    BY <1>2 DEF KnownInv
  <2>2. vs \in Seq(VarRec) /\ Len(vs) \in Nat /\ Len(vs) <= MaxU16 - 1
    BY <2>1, BinFacts, SectionFields, SeqFacts DEF ShapeInv
  <2>3. Backward(f, v) = First(vs, v)
    BY <1>2 DEF Backward
  <2>4. /\ First(vs, v) \in 0..(Len(vs) - 1) /\ First(vs, v) + 1 \in DOMAIN vs
        /\ vs[First(vs, v) + 1].vref = v
    BY <1>2, <2>2, FirstFacts
  <2>5. First(vs, v) < MISSING /\ First(vs, v) < UNRESOLVED /\ First(vs, v) \in 0..MaxU16
    BY <1>1, <2>2, <2>4 DEF MISSING, UNRESOLVED
  <2> QED
    BY <1>1, <2>1, <2>3, <2>4, <2>5 DEF MISSING, UNRESOLVED
<1>3. CASE ~(f # curFid /\ known[f] # 0 /\ Has(bin[known[f]].variants, v))
  <2>1. Backward(f, v) = UNRESOLVED
    BY <1>3 DEF Backward
  <2>2. ASSUME f # curFid PROVE NoBody(f, v)
    <3>1. CASE known[f] = 0
      BY <3>1 DEF KnownInv, NoBody
    <3>2. CASE known[f] # 0
      <4>1. known[f] \in DOMAIN bin /\ bin[known[f]].fid = f
        BY <2>2, <3>2 DEF KnownInv
      <4>2. ASSUME NEW t \in DOMAIN bin, bin[t].fid = f
            PROVE  t = known[f]
        <5>1. t \in DOMAIN plan /\ known[f] \in DOMAIN plan
          BY <4>1, BinFacts DEF ShapeInv
        <5>2. plan[t].fid = f /\ plan[known[f]].fid = f
          BY <4>1, <4>2 DEF ShapeInv
        <5> QED
          BY <5>1, <5>2, OneSection
      <4>3. ~Has(bin[known[f]].variants, v)
        BY <1>3, <2>2, <3>2
      <4> QED
        BY <4>2, <4>3 DEF NoBody
    <3> QED
      BY <3>1, <3>2
  <2> QED
    BY <1>1, <2>1, <2>2 DEF MISSING, UNRESOLVED
<1> QED
  BY <1>2, <1>3

\* The calls that _emit_variant_per_call_entries writes, and what becomes of
\* them when they are emitted.
LEMMA EntriesFacts ==
    ASSUME PlanInv, ShapeInv, OpenInv, KnownInv, curFid # 0, NEW C, NEW v,
           NEW k \in DOMAIN Entries(C)
    PROVE  /\ k \in DOMAIN curTargets /\ k \in 1..MaxTargets
           /\ curTargets[k].fid \in Fids /\ curTargets[k].fid \in Sectioned
           /\ curTargets[k].type # EXTERN_T
           /\ curTargets[k].ptr = known[curTargets[k].fid]
           /\ Slots(v, Entries(C))[k] = IF curTargets[k].fid \in duplicated THEN MISSING
                                        ELSE Backward(curTargets[k].fid, v)
<1>1. /\ k \in DOMAIN keys /\ keys[k][2] # EXTERN_T /\ keys[k][1] \in Sectioned
      /\ Entries(C)[k] = Terminal(keys[k])
  BY DEF Entries
<1>2. /\ keys \in Seq(TypedCallees) /\ Len(keys) <= MaxTargets
      /\ DOMAIN curTargets = DOMAIN keys
      /\ curTargets[k].fid = keys[k][1]
      /\ curTargets[k].type = EffectiveType(keys[k])
      /\ curTargets[k].type # EXTERN_T => curTargets[k].ptr = known[keys[k][1]]
  BY <1>1 DEF OpenInv
<1>3. k \in 1..MaxTargets /\ keys[k] \in Fids \X CallTargetType
  <2>1. keys[k] \in TypedCallees /\ k \in 1..Len(keys) /\ Len(keys) \in Nat
    BY <1>1, <1>2, SeqFacts
  <2> QED
    BY <1>2, <2>1, Pass2Assumption DEF TypedCallees
<1>4. curTargets[k].type # EXTERN_T
  BY <1>1, <1>2 DEF EffectiveType
<1>5. Slots(v, Entries(C))[k] = IF Entries(C)[k] # UNRESOLVED THEN Entries(C)[k]
                                ELSE Backward(curTargets[k].fid, v)
  BY DEF Slots
<1>6. MISSING # UNRESOLVED
  BY WriterAssumption DEF MISSING, UNRESOLVED
<1> QED
  BY <1>1, <1>2, <1>3, <1>4, <1>5, <1>6 DEF Terminal

\* begin_variant, emit_per_call_entries and end_variant.
LEMMA VariantIInv ==
    ASSUME IInv, Variant
    PROVE  IInv'
<1> DEFINE n == Len(curVariants) + 1
<1> DEFINE v == plan[Here].vrefs[n]
<1> DEFINE e == Entries(called[n])
<1> DEFINE new == [vref |-> v, calls |-> Slots(v, e)]
<1>1. PlanInv /\ ShapeInv /\ status = "open" /\ OpenInv /\ KnownInv /\ RowsInv /\ SlotsInv
  BY DEF IInv, Variant, EmitVariant
<1>2. curFid # 0 /\ EmitVariant(v, e) /\ UNCHANGED <<plan, duplicated, keys, called>>
  BY DEF Variant, pass2Vars
<1>3. /\ bin' = bin /\ known' = known /\ curFid' = curFid /\ curDeclared' = curDeclared
      /\ curTargets' = curTargets /\ status' = status /\ Here' = Here
      /\ curVariants' = Append(curVariants, new) /\ Len(curVariants) < curDeclared
  BY <1>2 DEF EmitVariant, Here
<1>4. /\ Len(bin) \in Nat /\ DOMAIN bin = 1..Len(bin) /\ Here = Len(bin) + 1
      /\ Len(plan) \in Nat /\ DOMAIN plan = 1..Len(plan)
      /\ pending \in [Fids -> SUBSET (1..Here)]
  BY <1>1, BinFacts DEF ShapeInv
<1>5. /\ Len(bin) < Len(plan) /\ curDeclared = Len(plan[Here].vrefs)
      /\ curVariants \in Seq(VarRec) /\ CallsHaveRows(curTargets, curVariants)
  BY <1>1, <1>2 DEF OpenInv
<1>6. v \in Vrefs /\ Len(curVariants) \in Nat
  <2>1. plan[Here] \in Heads
    BY <1>1, <1>4, <1>5, BinFacts
  <2>2. plan[Here].vrefs \in Seq(Vrefs)
    BY <2>1, HeadFields
  <2>3. Len(plan[Here].vrefs) \in Nat /\ Len(curVariants) \in Nat
    BY <1>5, <2>2, SeqFacts
  <2>4. n \in 1..Len(plan[Here].vrefs)
    BY <1>3, <1>5, <2>3
  <2> QED
    BY <2>2, <2>3, <2>4, SeqFacts
<1>7. DOMAIN Slots(v, e) = DOMAIN e
  BY DEF Slots
<1>8. \A k \in DOMAIN e :
         /\ k \in DOMAIN curTargets /\ k \in 1..MaxTargets
         /\ curTargets[k].fid \in Fids /\ curTargets[k].fid \in Sectioned
         /\ curTargets[k].type # EXTERN_T
         /\ curTargets[k].ptr = known[curTargets[k].fid]
         /\ Slots(v, e)[k] = IF curTargets[k].fid \in duplicated THEN MISSING
                             ELSE Backward(curTargets[k].fid, v)
  BY <1>1, <1>2, EntriesFacts
<1> HIDE DEF v, e
<1>9. Slots(v, e) \in CallMaps
  <2>1. \A k \in DOMAIN e : Slots(v, e)[k] \in 0..MaxU16
    BY <1>1, <1>8, BackwardFacts, WriterAssumption DEF MISSING
  <2>2. Slots(v, e) \in [DOMAIN e -> 0..MaxU16]
    BY <2>1 DEF Slots
  <2>3. DOMAIN e \in SUBSET (1..MaxTargets)
    BY <1>8
  <2> QED
    BY <2>2, <2>3 DEF CallMaps
<1>10. /\ new \in VarRec /\ new.vref = v /\ new.calls = Slots(v, e)
  BY <1>6, <1>9 DEF VarRec
<1> HIDE DEF new
<1>11. /\ curVariants' \in Seq(VarRec) /\ Len(curVariants') = n
       /\ DOMAIN curVariants' = 1..n /\ DOMAIN curVariants = 1..Len(curVariants)
       /\ \A i \in DOMAIN curVariants : curVariants'[i] = curVariants[i]
       /\ curVariants'[n] = new
  BY <1>3, <1>5, <1>10, AppendFacts, SeqFacts
<1>12. \A i \in DOMAIN curVariants' : i \in DOMAIN curVariants \/ i = n
  BY <1>6, <1>11
<1>13. \A f \in Fids :
          /\ pending[f] \subseteq pending'[f] /\ pending'[f] \subseteq pending[f] \cup {Here}
          /\ Here \in pending'[f] => Here \in pending[f] \/ f \in Sectioned
          /\ \A k \in DOMAIN e :
               /\ f # curFid /\ curTargets[k].fid = f /\ Slots(v, e)[k] = UNRESOLVED
               => Here \in pending'[f]
  <2> SUFFICES ASSUME NEW f \in Fids
               PROVE  /\ pending[f] \subseteq pending'[f]
                      /\ pending'[f] \subseteq pending[f] \cup {Here}
                      /\ Here \in pending'[f] => Here \in pending[f] \/ f \in Sectioned
                      /\ \A k \in DOMAIN e :
                           /\ f # curFid /\ curTargets[k].fid = f
                           /\ Slots(v, e)[k] = UNRESOLVED
                           => Here \in pending'[f]
    OBVIOUS
  <2>1. pending'[f] = IF /\ f # curFid
                         /\ \E k \in DOMAIN e :
                              curTargets[k].fid = f /\ Slots(v, e)[k] = UNRESOLVED
                        THEN pending[f] \cup {Here} ELSE pending[f]
    BY <1>2 DEF EmitVariant
  <2> QED
    BY <1>8, <2>1
<1>14. PlanInv' /\ Sectioned' = Sectioned
  BY <1>1, <1>2 DEF PlanInv, Sectioned
<1>15. ShapeInv'
  <2>1. pending' \in [Fids -> SUBSET (1..(Len(bin) + 1))]
    <3>1. \A f \in Fids : pending'[f] \in SUBSET (1..(Len(bin) + 1))
      BY <1>4, <1>13
    <3>2. pending' = [f \in Fids |-> pending'[f]]
      BY <1>2 DEF EmitVariant
    <3> QED
      BY <3>1, <3>2
  <2> QED
    BY <1>1, <1>2, <1>3, <2>1 DEF ShapeInv, CallsHaveRows
<1>16. OpenInv'
  <2>1. CallsHaveRows(curTargets', curVariants')
    BY <1>3, <1>5, <1>7, <1>8, <1>10, <1>11, <1>12 DEF CallsHaveRows
  <2>2. Len(curVariants') <= curDeclared
    <3>1. curDeclared \in Nat
      BY <1>1, <1>4, <1>5, BinFacts, HeadFields, SeqFacts
    <3> QED
      BY <1>3, <1>6, <1>11, <3>1
  <2> QED
    BY <1>1, <1>2, <1>3, <1>11, <1>14, <2>1, <2>2 DEF OpenInv, EffectiveType
<1>17. KnownInv'
  BY <1>1, <1>3, <1>13, <1>14 DEF KnownInv
<1>18. \A f \in Fids : pending[f] \subseteq pending'[f]
  BY <1>13
<1>19. RowsInv'
  <2>1. ASSUME NEW s \in DOMAIN bin, NEW k \in DOMAIN bin[s].targets
        PROVE  RowOK(s, bin[s].targets[k])'
    BY <1>1, <1>2, <1>3, <1>18, ClosedKept
  <2>2. ASSUME NEW k \in DOMAIN curTargets
        PROVE  RowOK(Here, curTargets[k])'
    <3>1. PICK s, r : s = Here /\ r = curTargets[k]
      OBVIOUS
    <3>2. RowOK(s, r) /\ r.fid \in Fids
      <4>1. curTargets \in Seq(RowRec)
        BY <1>1, <1>2 DEF OpenInv
      <4> QED
        BY <1>1, <1>2, <3>1, <4>1, SeqFacts, RowFields DEF RowsInv
    <3>3. RowOK(s, r)'
      BY <1>1, <1>2, <1>3, <1>18, <3>2, RowKept
    <3> QED
      BY <1>3, <3>1, <3>3 DEF RowOK, SelfCall, Lands, Unwritten, Sectioned
  <2> QED
    BY <1>3, <2>1, <2>2 DEF RowsInv
<1>20. SlotsInv'
  <2>1. \A s \in DOMAIN bin : \A i \in DOMAIN bin[s].variants :
           \A k \in DOMAIN bin[s].variants[i].calls :
              SlotOK(s, bin[s].targets[k], bin[s].variants[i].vref,
                     bin[s].variants[i].calls[k])'
    BY <1>1, <1>2, <1>3, <1>18, ClosedKept
  <2>2. ASSUME NEW i \in DOMAIN curVariants', NEW k \in DOMAIN curVariants'[i].calls
        PROVE  SlotOK(Here, curTargets[k], curVariants[i].vref, curVariants[i].calls[k])'
    <3>1. PICK s, r, w, sv : /\ s = Here /\ r = curTargets[k]
                             /\ w = curVariants'[i].vref /\ sv = curVariants'[i].calls[k]
      OBVIOUS
    <3>2. SlotOK(s, r, w, sv)'
      <4>1. CASE i \in DOMAIN curVariants
        <5>1. k \in DOMAIN curVariants[i].calls /\ k \in DOMAIN curTargets
          BY <1>5, <1>11, <4>1 DEF CallsHaveRows
        <5>2. SlotOK(s, r, w, sv)
          BY <1>1, <1>2, <1>11, <3>1, <4>1, <5>1 DEF SlotsInv
        <5>3. r.fid \in Fids
          <6>1. curTargets \in Seq(RowRec)
            BY <1>1, <1>2 DEF OpenInv
          <6> QED
            BY <3>1, <5>1, <6>1, SeqFacts, RowFields
        <5> QED
          BY <1>1, <1>2, <1>3, <1>18, <5>2, <5>3, SlotKept
      <4>2. CASE i = n
        <5>1. /\ k \in DOMAIN e /\ w = v /\ r.fid \in Fids
              /\ r.ptr = known[r.fid]
              /\ sv = IF r.fid \in duplicated THEN MISSING ELSE Backward(r.fid, v)
          BY <1>7, <1>8, <1>10, <1>11, <3>1, <4>2
        <5>2. MISSING # UNRESOLVED
          BY WriterAssumption DEF MISSING, UNRESOLVED
        <5>3. CASE r.fid \in duplicated
          BY <1>2, <5>1, <5>2, <5>3 DEF SlotOK
        <5>4. CASE r.fid \notin duplicated /\ sv = UNRESOLVED
          <6>1. r.fid = curFid \/ NoBody(r.fid, v)
            BY <1>1, <5>1, <5>4, BackwardFacts
          <6>2. r.fid # curFid => Here \in pending'[r.fid]
            BY <1>8, <1>13, <3>1, <5>1, <5>4
          <6> QED
            BY <1>2, <1>3, <3>1, <5>1, <5>2, <5>4, <6>1, <6>2
            DEF SlotOK, SelfCall, NoBody
        <5>5. CASE r.fid \notin duplicated /\ sv # UNRESOLVED
          <6>1. /\ sv # MISSING /\ known[r.fid] \in DOMAIN bin /\ bin[known[r.fid]].fid = r.fid
                /\ sv + 1 \in DOMAIN bin[known[r.fid]].variants
                /\ bin[known[r.fid]].variants[sv + 1].vref = v
            BY <1>1, <5>1, <5>5, BackwardFacts
          <6> QED
            BY <1>2, <1>3, <5>1, <5>5, <6>1 DEF SlotOK, Leads, Lands
        <5> QED
          BY <5>3, <5>4, <5>5
      <4> QED
        BY <1>12, <4>1, <4>2
    <3> QED
      BY <1>3, <3>1, <3>2 DEF SlotOK, SelfCall, NoBody, Leads, Lands, Has
  <2> QED
    BY <1>3, <2>1, <2>2 DEF SlotsInv
<1> QED
  BY <1>1, <1>3, <1>14, <1>15, <1>16, <1>17, <1>19, <1>20 DEF IInv

\* end_section as a relation between the sections before, Before(s), the open
\* one among them with its variants in the order they are flushed, and the
\* sections after, patched for the callees in Hits(s).
FlushedAs(vs) ==
    /\ vs \in Seq(VarRec) /\ Len(vs) = Len(curVariants)
    /\ \A i, j \in DOMAIN vs : i < j => vs[i].vref <= vs[j].vref
    /\ \A i \in DOMAIN vs : \E j \in DOMAIN curVariants : vs[i] = curVariants[j]

Before(s, vs) ==
    IF s = Here THEN [fid |-> curFid, targets |-> curTargets, variants |-> vs] ELSE bin[s]

Hits(s) == IF s = Here \/ s \in pending[curFid] THEN {curFid} ELSE {}

LEMMA CloseFacts ==
    ASSUME PlanInv, ShapeInv, OpenInv, Close
    PROVE  \E vs : /\ FlushedAs(vs)
                   /\ bin' = [s \in 1..Here |->
                                IF s = Here \/ s \in pending[curFid]
                                  THEN ResolveCaller(Before(s, vs), curFid, Here, vs)
                                  ELSE Before(s, vs)]
<1>1. PICK p \in Flushes(curVariants) :
        LET vs == [i \in DOMAIN p |-> curVariants[p[i]]]
            sec == [fid |-> curFid, targets |-> curTargets, variants |-> vs] IN
        bin' = [s \in 1..Here |->
                  IF s = Here THEN ResolveCaller(sec, curFid, Here, vs)
                  ELSE IF s \in pending[curFid]
                    THEN ResolveCaller(bin[s], curFid, Here, vs)
                    ELSE bin[s]]
  BY DEF Close, EndSection
<1> DEFINE vs == [i \in DOMAIN p |-> curVariants[p[i]]]
<1>2. curVariants \in Seq(VarRec) /\ Len(curVariants) \in Nat
  BY SeqFacts DEF Close, EndSection, OpenInv
<1>3. DOMAIN curVariants = 1..Len(curVariants)
  BY <1>2, SeqFacts
<1>4. /\ p \in [DOMAIN curVariants -> DOMAIN curVariants]
      /\ \A i, j \in DOMAIN curVariants : i < j =>
            \/ curVariants[p[i]].vref < curVariants[p[j]].vref
            \/ curVariants[p[i]].vref = curVariants[p[j]].vref /\ p[i] < p[j]
  BY DEF Flushes
<1>5. DOMAIN vs = 1..Len(curVariants)
  BY <1>3, <1>4
<1>6. \A i \in DOMAIN vs : /\ p[i] \in DOMAIN curVariants /\ vs[i] = curVariants[p[i]]
                           /\ vs[i] \in VarRec /\ vs[i].vref \in Nat
  BY <1>2, <1>4, <1>5, SeqFacts, VarFields, WriterAssumption
<1>7. vs \in Seq(VarRec) /\ Len(vs) = Len(curVariants)
  <2>1. vs \in [1..Len(curVariants) -> VarRec]
    BY <1>5, <1>6
  <2> QED
    BY <1>2, <2>1, FunctionIsSeq
<1>8. \A i, j \in DOMAIN vs : i < j => vs[i].vref <= vs[j].vref
  BY <1>3, <1>4, <1>5, <1>6
<1>9. FlushedAs(vs)
  BY <1>6, <1>7, <1>8 DEF FlushedAs
<1>10. bin' = [s \in 1..Here |->
                 IF s = Here \/ s \in pending[curFid]
                   THEN ResolveCaller(Before(s, vs), curFid, Here, vs)
                   ELSE Before(s, vs)]
  BY <1>1 DEF Before
<1> QED
  BY <1>9, <1>10

\* The section that is closed obeys the invariants of the closed ones.
LEMMA BeforeFacts ==
    ASSUME PlanInv, ShapeInv, OpenInv, RowsInv, SlotsInv, curFid # 0,
           NEW vs, FlushedAs(vs), Len(curVariants) = curDeclared, NEW s \in 1..Here
    PROVE  /\ Before(s, vs) \in SectionRec /\ Before(s, vs).fid = plan[s].fid
           /\ Len(Before(s, vs).variants) <= MaxU16 - 1
           /\ \A i, j \in DOMAIN Before(s, vs).variants : i < j =>
                Before(s, vs).variants[i].vref <= Before(s, vs).variants[j].vref
           /\ CallsHaveRows(Before(s, vs).targets, Before(s, vs).variants)
           /\ \A k \in DOMAIN Before(s, vs).targets : RowOK(s, Before(s, vs).targets[k])
           /\ \A i \in DOMAIN Before(s, vs).variants :
                \A k \in DOMAIN Before(s, vs).variants[i].calls :
                   SlotOK(s, Before(s, vs).targets[k], Before(s, vs).variants[i].vref,
                          Before(s, vs).variants[i].calls[k])
<1>1. /\ Len(bin) \in Nat /\ DOMAIN bin = 1..Len(bin) /\ Here = Len(bin) + 1
      /\ \A t \in DOMAIN bin : bin[t] \in SectionRec
  BY BinFacts
<1>2. CASE s # Here
  <2>1. s \in DOMAIN bin /\ Before(s, vs) = bin[s]
    BY <1>1, <1>2 DEF Before
  <2> QED
    BY <1>1, <2>1 DEF ShapeInv, RowsInv, SlotsInv
<1>3. CASE s = Here
  <2>1. /\ curFid = plan[Here].fid /\ curFid \in Fids /\ curDeclared <= MaxU16 - 1
        /\ curTargets \in Seq(RowRec) /\ CallsHaveRows(curTargets, curVariants)
    BY DEF OpenInv, ShapeInv
  <2>2. Before(s, vs) = [fid |-> curFid, targets |-> curTargets, variants |-> vs]
    BY <1>3 DEF Before
  <2>3. /\ Before(s, vs).fid = curFid /\ Before(s, vs).targets = curTargets
        /\ Before(s, vs).variants = vs
    BY <2>2
  <2>4. Before(s, vs) \in SectionRec
    BY <2>1, <2>2 DEF SectionRec, FlushedAs
  <2>5. CallsHaveRows(curTargets, vs)
    BY <2>1 DEF CallsHaveRows, FlushedAs
  <2>6. \A k \in DOMAIN curTargets : RowOK(Here, curTargets[k])
    BY DEF RowsInv
  <2>7. \A i \in DOMAIN vs : \A k \in DOMAIN vs[i].calls :
           SlotOK(Here, curTargets[k], vs[i].vref, vs[i].calls[k])
    BY DEF SlotsInv, FlushedAs
  <2> QED
    BY <1>3, <2>1, <2>3, <2>4, <2>5, <2>6, <2>7 DEF FlushedAs
<1> QED
  BY <1>2, <1>3

LEMMA AfterFacts ==
    ASSUME PlanInv, ShapeInv, OpenInv, RowsInv, SlotsInv, Close,
           NEW vs, FlushedAs(vs), NEW s \in 1..Here,
           bin' = [t \in 1..Here |->
                     IF t = Here \/ t \in pending[curFid]
                       THEN ResolveCaller(Before(t, vs), curFid, Here, vs)
                       ELSE Before(t, vs)]
    PROVE  Patched(Before(s, vs), Hits(s), Here, vs, bin'[s])
<1>1. curFid # 0 /\ Len(curVariants) = curDeclared /\ curFid \in Fids /\ Here \in Nat
  BY BinFacts DEF Close, EndSection, ShapeInv
<1>2. /\ Before(s, vs) \in SectionRec /\ vs \in Seq(VarRec) /\ Len(vs) <= MaxU16 - 1
      /\ CallsHaveRows(Before(s, vs).targets, Before(s, vs).variants)
  BY <1>1, BeforeFacts DEF FlushedAs, OpenInv
<1>3. bin'[s] = IF s = Here \/ s \in pending[curFid]
                  THEN ResolveCaller(Before(s, vs), curFid, Here, vs)
                  ELSE Before(s, vs)
  OBVIOUS
<1>4. CASE s = Here \/ s \in pending[curFid]
  <2>1. bin'[s] = ResolveCaller(Before(s, vs), curFid, Here, vs) /\ Hits(s) = {curFid}
    BY <1>3, <1>4 DEF Hits
  <2> QED
    BY <1>1, <1>2, <2>1, ResolveFacts
<1>5. CASE ~(s = Here \/ s \in pending[curFid])
  <2>1. bin'[s] = Before(s, vs) /\ Hits(s) = {}
    BY <1>3, <1>5 DEF Hits
  <2> QED
    BY <1>2, <2>1 DEF Patched
<1> QED
  BY <1>4, <1>5

\* end_section: the open section is closed, its callers are patched.
LEMMA CloseIInv ==
    ASSUME IInv, Close
    PROVE  IInv'
<1>1. /\ PlanInv /\ ShapeInv /\ status = "open" /\ OpenInv /\ KnownInv /\ RowsInv /\ SlotsInv
      /\ curFid # 0 /\ Len(curVariants) = curDeclared
      /\ UNCHANGED <<known, pending, status, plan, duplicated>> /\ curFid' = 0
  BY DEF IInv, Close, EndSection
<1>2. PICK vs : /\ FlushedAs(vs)
                /\ bin' = [s \in 1..Here |->
                             IF s = Here \/ s \in pending[curFid]
                               THEN ResolveCaller(Before(s, vs), curFid, Here, vs)
                               ELSE Before(s, vs)]
  BY <1>1, CloseFacts
<1>3. /\ Len(bin) \in Nat /\ DOMAIN bin = 1..Len(bin) /\ Here = Len(bin) + 1
      /\ Len(plan) \in Nat /\ DOMAIN plan = 1..Len(plan)
      /\ Len(bin) < Len(plan) /\ curFid = plan[Here].fid /\ known[curFid] = Here
      /\ \A s \in DOMAIN bin : bin[s] \in SectionRec
      /\ curFid \in Fids /\ MaxU16 \in Nat /\ MISSING # UNRESOLVED
  BY <1>1, BinFacts, WriterAssumption DEF OpenInv, ShapeInv, MISSING, UNRESOLVED
<1>4. \A s \in 1..Here :
         /\ Before(s, vs) \in SectionRec /\ Before(s, vs).fid = plan[s].fid
         /\ Len(Before(s, vs).variants) <= MaxU16 - 1
         /\ \A i, j \in DOMAIN Before(s, vs).variants : i < j =>
              Before(s, vs).variants[i].vref <= Before(s, vs).variants[j].vref
         /\ CallsHaveRows(Before(s, vs).targets, Before(s, vs).variants)
         /\ Patched(Before(s, vs), Hits(s), Here, vs, bin'[s])
  BY <1>1, <1>2, BeforeFacts, AfterFacts
<1>5. /\ DOMAIN bin' = 1..Here /\ bin' \in Seq(SectionRec) /\ Len(bin') = Here
      /\ \A s \in 1..Here : bin'[s] \in SectionRec
  <2>1. \A s \in 1..Here : bin'[s] \in SectionRec
    BY <1>4 DEF Patched
  <2>2. bin' \in [1..Here -> SectionRec]
    BY <1>2, <2>1
  <2> QED
    BY <1>3, <2>1, <2>2, FunctionIsSeq
<1>6. /\ \A s \in DOMAIN bin : Before(s, vs) = bin[s] /\ s \in 1..Here /\ s # Here
      /\ Before(Here, vs).variants = vs /\ Before(Here, vs).fid = curFid /\ Here \in 1..Here
      /\ vs \in Seq(VarRec) /\ Len(vs) <= MaxU16 - 1
  BY <1>1, <1>2, <1>3 DEF Before, FlushedAs, OpenInv
<1>7. \A s \in 1..Here : bin'[s].fid = plan[s].fid /\ bin'[s].fid = Before(s, vs).fid
  BY <1>4 DEF Patched
<1>8. \A s \in 1..Here : s \in DOMAIN bin \/ s = Here
  BY <1>3
<1>9. /\ bin'[Here].fid = curFid
      /\ \A s \in DOMAIN bin : bin'[s].fid = bin[s].fid
  BY <1>6, <1>7
<1>10. /\ \A s \in 1..Here : DOMAIN bin'[s].variants = DOMAIN Before(s, vs).variants
       /\ \A s \in 1..Here : \A i \in DOMAIN Before(s, vs).variants :
             bin'[s].variants[i].vref = Before(s, vs).variants[i].vref
  BY <1>4 DEF Patched
<1>11. \A s \in 1..Here : \A w :
          Has(bin'[s].variants, w) <=> Has(Before(s, vs).variants, w)
  BY <1>10 DEF Has
<1>12. ASSUME NEW f \in Fids, NEW w
       PROVE  NoBody(f, w)' <=> NoBody(f, w) /\ (f = curFid => ~Has(vs, w))
  BY <1>5, <1>6, <1>8, <1>9, <1>11 DEF NoBody
<1>13. Sectioned' = Sectioned
  BY <1>1 DEF Sectioned
<1>14. PlanInv'
  BY <1>1 DEF PlanInv
<1>15. ShapeInv'
  <2>1. known' \in [Fids -> 0..(Len(bin') + 1)]
    <3>1. known \in [Fids -> 0..(Len(bin) + 1)] /\ known' = known
      BY <1>1 DEF ShapeInv
    <3>2. 0..(Len(bin) + 1) \subseteq 0..(Len(bin') + 1)
      BY <1>3, <1>5
    <3> QED
      BY <3>1, <3>2
  <2>2. pending' \in [Fids -> SUBSET (1..(Len(bin') + 1))]
    <3>1. pending \in [Fids -> SUBSET (1..(Len(bin) + 1))] /\ pending' = pending
      BY <1>1 DEF ShapeInv
    <3>2. 1..(Len(bin) + 1) \subseteq 1..(Len(bin') + 1)
      BY <1>3, <1>5
    <3> QED
      BY <3>1, <3>2
  <2>3. ASSUME NEW s \in 1..Here
        PROVE  /\ bin'[s].fid = plan[s].fid /\ Len(bin'[s].variants) <= MaxU16 - 1
               /\ \A i, j \in DOMAIN bin'[s].variants :
                    i < j => bin'[s].variants[i].vref <= bin'[s].variants[j].vref
               /\ CallsHaveRows(bin'[s].targets, bin'[s].variants)
    BY <1>4, <1>7 DEF Patched, CallsHaveRows
  <2>4. Len(bin') <= Len(plan)
    BY <1>3, <1>5
  <2> QED
    BY <1>1, <1>5, <2>1, <2>2, <2>3, <2>4 DEF ShapeInv, CallsHaveRows
<1>16. OpenInv'
  BY <1>1 DEF OpenInv
<1>17. KnownInv'
  <2>1. \A f \in Fids : known[f] # 0 => known[f] \in 1..Here /\ bin'[known[f]].fid = f
    BY <1>1, <1>3, <1>6, <1>9 DEF KnownInv
  <2>2. \A s \in 1..Here : known[bin'[s].fid] # 0
    BY <1>1, <1>3, <1>8, <1>9 DEF KnownInv
  <2>3. \A f \in Fids : pending[f] # {} => f \in Sectioned
    BY <1>1 DEF KnownInv
  <2> QED
    BY <1>1, <1>5, <1>13, <2>1, <2>2, <2>3 DEF KnownInv
<1>18. ASSUME NEW s \in 1..Here, NEW r, NEW q, RowOK(s, r), r.fid \in Fids,
              q.fid = r.fid, q.type = r.type, q.line = r.line,
              q.ptr = IF r.fid \in Hits(s) THEN Here ELSE r.ptr
       PROVE  RowOK(s, q)'
  <2>1. CASE r.fid \in Hits(s)
    <3>1. r.fid = curFid /\ q.ptr = Here
      BY <1>18, <2>1 DEF Hits
    <3>2. Lands(q)'
      BY <1>5, <1>6, <1>9, <1>18, <3>1 DEF Lands
    <3>3. q.ptr \in s..Len(bin')
      BY <1>3, <1>5, <3>1
    <3> QED
      BY <1>13, <1>18, <3>2, <3>3 DEF RowOK
  <2>2. CASE r.fid \notin Hits(s)
    <3>1. q.ptr = r.ptr /\ ~SelfCall(s, r.fid)
      BY <1>18, <2>2 DEF Hits, SelfCall
    <3>2. Lands(r) => Lands(q)'
      BY <1>5, <1>6, <1>9, <1>18, <3>1 DEF Lands
    <3>3. s \in pending[r.fid] /\ Unwritten(r.fid) => Unwritten(r.fid)'
      <4>1. s \in pending[r.fid] => r.fid # curFid
        BY <2>2 DEF Hits
      <4> QED
        BY <1>5, <1>8, <1>9, <4>1 DEF Unwritten
    <3>4. r.ptr \in s..Len(bin) => q.ptr \in s..Len(bin')
      BY <1>3, <1>5, <3>1
    <3> QED
      BY <1>1, <1>13, <1>18, <3>1, <3>2, <3>3, <3>4 DEF RowOK
  <2> QED
    BY <2>1, <2>2
<1>19. ASSUME NEW s \in 1..Here, NEW r, NEW q, NEW w, NEW sv, NEW sw,
              SlotOK(s, r, w, sv), r.fid \in Fids,
              q.fid = r.fid, q.ptr = IF r.fid \in Hits(s) THEN Here ELSE r.ptr,
              s = Here => Has(vs, w),
              sw = IF r.fid \in Hits(s) /\ sv = UNRESOLVED /\ Has(vs, w)
                     THEN Last(vs, w) ELSE sv
       PROVE  SlotOK(s, q, w, sw)'
  <2>1. CASE r.fid \in Hits(s) /\ sv = UNRESOLVED /\ Has(vs, w)
    <3>1. r.fid = curFid /\ q.ptr = Here /\ sw = Last(vs, w) /\ r.fid \notin duplicated
      BY <1>3, <1>19, <2>1 DEF Hits, SlotOK
    <3>2. /\ Last(vs, w) \in 0..(Len(vs) - 1) /\ Last(vs, w) + 1 \in DOMAIN vs
          /\ vs[Last(vs, w) + 1].vref = w
      BY <1>6, <2>1, LastFacts
    <3>3. Last(vs, w) # MISSING /\ Last(vs, w) # UNRESOLVED
      <4>1. Len(vs) \in Nat
        BY <1>6, SeqFacts
      <4> QED
        BY <1>3, <1>6, <3>2, <4>1 DEF MISSING, UNRESOLVED
    <3>4. Leads(q, w, sw)'
      BY <1>5, <1>6, <1>9, <1>10, <1>19, <3>1, <3>2 DEF Leads, Lands
    <3> QED
      BY <1>1, <1>19, <3>1, <3>3, <3>4 DEF SlotOK
  <2>2. CASE ~(r.fid \in Hits(s) /\ sv = UNRESOLVED /\ Has(vs, w))
    <3>1. sw = sv
      BY <1>19, <2>2
    <3>2. ASSUME sv = UNRESOLVED
          PROVE  s \in pending'[q.fid] /\ NoBody(q.fid, w)'
      <4>1. ~SelfCall(s, r.fid)
        BY <1>19, <2>2, <3>2 DEF Hits, SelfCall
      <4>2. s \in pending[r.fid] /\ NoBody(r.fid, w)
        BY <1>19, <3>2, <4>1 DEF SlotOK
      <4>3. r.fid = curFid => ~Has(vs, w)
        BY <2>2, <3>2, <4>2 DEF Hits
      <4>4. NoBody(r.fid, w)'
        BY <1>12, <1>19, <4>2, <4>3
      <4> QED
        BY <1>1, <1>19, <4>2, <4>4 DEF NoBody
    <3>3. ASSUME sv \notin {MISSING, UNRESOLVED}
          PROVE  Leads(q, w, sv)'
      <4>1. Leads(r, w, sv) /\ r.fid \notin duplicated
        BY <1>19, <3>3 DEF SlotOK
      <4>2. r.ptr \in DOMAIN bin /\ bin[r.ptr].fid = r.fid
        BY <4>1 DEF Leads, Lands
      <4>3. r.fid # curFid
        <5>1. ASSUME r.fid = curFid PROVE FALSE
          <6>1. r.ptr \in DOMAIN plan /\ Here \in DOMAIN plan
            BY <1>3, <4>2
          <6>2. plan[r.ptr].fid = r.fid /\ plan[Here].fid = r.fid
            BY <1>1, <1>3, <4>2, <5>1 DEF ShapeInv
          <6>3. r.ptr = Here
            BY <1>1, <4>1, <6>1, <6>2, OneSection
          <6> QED
            BY <1>6, <4>2, <6>3
        <5> QED
          BY <5>1
      <4>4. q.ptr = r.ptr
        BY <1>19, <4>3 DEF Hits
      <4> QED
        BY <1>5, <1>6, <1>9, <1>10, <1>19, <4>1, <4>2, <4>4 DEF Leads, Lands
    <3> QED
      BY <1>1, <1>19, <3>1, <3>2, <3>3 DEF SlotOK, NoBody, Leads, Lands
  <2> QED
    BY <2>1, <2>2
<1>20. ASSUME NEW s \in 1..Here, NEW k \in DOMAIN Before(s, vs).targets
       PROVE  Before(s, vs).targets[k].fid \in Fids
  BY <1>4, SectionFields, RowFields
<1>21. RowsInv'
  <2>1. ASSUME NEW s \in 1..Here, NEW k \in DOMAIN bin'[s].targets
        PROVE  RowOK(s, bin[s].targets[k])'
    <3>1. PICK r, q : r = Before(s, vs).targets[k] /\ q = bin'[s].targets[k]
      OBVIOUS
    <3>2. k \in DOMAIN Before(s, vs).targets
      BY <1>4 DEF Patched
    <3>3. RowOK(s, r)
      BY <1>1, <1>2, <3>1, <3>2, BeforeFacts
    <3>4. /\ q.fid = r.fid /\ q.type = r.type /\ q.line = r.line
          /\ q.ptr = IF r.fid \in Hits(s) THEN Here ELSE r.ptr
      BY <1>4, <3>1, <3>2 DEF Patched
    <3>5. RowOK(s, q)'
      BY <1>18, <1>20, <3>1, <3>2, <3>3, <3>4
    <3> QED
      BY <3>1, <3>5 DEF RowOK, SelfCall, Lands, Unwritten, Sectioned
  <2> QED
    BY <1>1, <1>5, <2>1 DEF RowsInv
<1>22. SlotsInv'
  <2>1. ASSUME NEW s \in 1..Here, NEW i \in DOMAIN bin'[s].variants,
               NEW k \in DOMAIN bin'[s].variants[i].calls
        PROVE  SlotOK(s, bin[s].targets[k], bin[s].variants[i].vref,
                      bin[s].variants[i].calls[k])'
    <3>1. PICK r, q, w, sv, sw :
            /\ r = Before(s, vs).targets[k] /\ q = bin'[s].targets[k]
            /\ w = Before(s, vs).variants[i].vref
            /\ sv = Before(s, vs).variants[i].calls[k] /\ sw = bin'[s].variants[i].calls[k]
      OBVIOUS
    <3>2. /\ i \in DOMAIN Before(s, vs).variants
          /\ k \in DOMAIN Before(s, vs).variants[i].calls
          /\ w = bin'[s].variants[i].vref
          /\ sw = IF r.fid \in Hits(s) /\ sv = UNRESOLVED /\ Has(vs, w)
                    THEN Last(vs, w) ELSE sv
      BY <1>4, <3>1 DEF Patched
    <3>3. k \in DOMAIN Before(s, vs).targets
      BY <1>4, <3>2 DEF CallsHaveRows
    <3>4. SlotOK(s, r, w, sv)
      <4>1. \A j \in DOMAIN Before(s, vs).variants :
               \A m \in DOMAIN Before(s, vs).variants[j].calls :
                  SlotOK(s, Before(s, vs).targets[m], Before(s, vs).variants[j].vref,
                         Before(s, vs).variants[j].calls[m])
        BY <1>1, <1>2, BeforeFacts
      <4> QED
        BY <3>1, <3>2, <4>1
    <3>5. q.fid = r.fid /\ q.ptr = IF r.fid \in Hits(s) THEN Here ELSE r.ptr
      BY <1>4, <3>1, <3>3 DEF Patched
    <3>6. s = Here => Has(vs, w)
      BY <1>6, <3>1, <3>2 DEF Has
    <3>7. SlotOK(s, q, w, sw)'
      BY <1>19, <1>20, <3>1, <3>2, <3>3, <3>4, <3>5, <3>6
    <3> QED
      BY <3>1, <3>2, <3>7 DEF SlotOK, SelfCall, NoBody, Leads, Lands, Has
  <2> QED
    BY <1>1, <1>5, <2>1 DEF SlotsInv
<1> QED
  BY <1>1, <1>14, <1>15, <1>16, <1>17, <1>21, <1>22 DEF IInv

\* The shape is stronger than the types.
LEMMA ShapeTypes == PlanInv /\ ShapeInv => TypeOK
<1> SUFFICES ASSUME PlanInv, ShapeInv PROVE TypeOK
  OBVIOUS
<1>1. /\ \A s \in DOMAIN bin : bin[s] \in SectionRec
      /\ Len(bin) <= Len(plan) /\ curFid \in Fids \cup {0}
  BY BinFacts DEF ShapeInv
<1>2. ASSUME NEW s \in DOMAIN bin
      PROVE  /\ bin[s].fid = plan[s].fid
             /\ \A k \in DOMAIN bin[s].targets : bin[s].targets[k].type \in CallTargetType
             /\ \A i, j \in DOMAIN bin[s].variants :
                  i < j => bin[s].variants[i].vref <= bin[s].variants[j].vref
             /\ \A i \in DOMAIN bin[s].variants :
                  \A k \in DOMAIN bin[s].variants[i].calls :
                     /\ k \in DOMAIN bin[s].targets
                     /\ bin[s].variants[i].calls[k] \in 0..MaxU16
  <2>1. \A k \in DOMAIN bin[s].targets : bin[s].targets[k].type \in CallTargetType
    BY <1>1, SectionFields, RowFields
  <2>2. \A i \in DOMAIN bin[s].variants :
           \A k \in DOMAIN bin[s].variants[i].calls :
              bin[s].variants[i].calls[k] \in 0..MaxU16
    BY <1>1, SectionFields, VarFields, CallMapFacts
  <2> QED
    BY <2>1, <2>2 DEF ShapeInv, CallsHaveRows
<1> QED
  BY <1>1, <1>2 DEF TypeOK, ShapeInv

\* _stamp_missing_in_caller, slot by slot.
LEMMA StampFacts ==
    ASSUME PlanInv, ShapeInv, NEW s \in DOMAIN bin, NEW res, res = StampMissing(s)
    PROVE  /\ res \in SectionRec /\ res.fid = bin[s].fid /\ res.targets = bin[s].targets
           /\ DOMAIN res.variants = DOMAIN bin[s].variants
           /\ Len(res.variants) = Len(bin[s].variants)
           /\ \A i \in DOMAIN bin[s].variants :
                /\ res.variants[i].vref = bin[s].variants[i].vref
                /\ DOMAIN res.variants[i].calls = DOMAIN bin[s].variants[i].calls
                /\ \A k \in DOMAIN bin[s].variants[i].calls :
                     res.variants[i].calls[k] =
                       IF /\ bin[s].variants[i].calls[k] = UNRESOLVED
                          /\ s \in pending[bin[s].targets[k].fid]
                         THEN MISSING ELSE bin[s].variants[i].calls[k]
<1> DEFINE V == [i \in DOMAIN bin[s].variants |->
                   [vref |-> bin[s].variants[i].vref,
                    calls |-> [k \in DOMAIN bin[s].variants[i].calls |->
                       IF /\ bin[s].variants[i].calls[k] = UNRESOLVED
                          /\ s \in pending[bin[s].targets[k].fid]
                         THEN MISSING ELSE bin[s].variants[i].calls[k]]]]
<1>1. /\ bin[s] \in SectionRec /\ bin[s].variants \in Seq(VarRec)
      /\ \A i \in DOMAIN bin[s].variants : bin[s].variants[i] \in VarRec
      /\ Len(bin[s].variants) \in Nat /\ DOMAIN bin[s].variants = 1..Len(bin[s].variants)
  BY BinFacts, SectionFields, SeqFacts
<1>2. /\ DOMAIN V = DOMAIN bin[s].variants
      /\ \A i \in DOMAIN bin[s].variants :
           /\ V[i] \in VarRec /\ V[i].vref = bin[s].variants[i].vref
           /\ DOMAIN V[i].calls = DOMAIN bin[s].variants[i].calls
           /\ \A k \in DOMAIN bin[s].variants[i].calls :
                V[i].calls[k] = IF /\ bin[s].variants[i].calls[k] = UNRESOLVED
                                   /\ s \in pending[bin[s].targets[k].fid]
                                  THEN MISSING ELSE bin[s].variants[i].calls[k]
  <2> SUFFICES ASSUME NEW i \in DOMAIN bin[s].variants
               PROVE  /\ V[i] \in VarRec /\ V[i].vref = bin[s].variants[i].vref
                      /\ DOMAIN V[i].calls = DOMAIN bin[s].variants[i].calls
                      /\ \A k \in DOMAIN bin[s].variants[i].calls :
                           V[i].calls[k] =
                             IF /\ bin[s].variants[i].calls[k] = UNRESOLVED
                                /\ s \in pending[bin[s].targets[k].fid]
                               THEN MISSING ELSE bin[s].variants[i].calls[k]
    OBVIOUS
  <2> DEFINE c == [k \in DOMAIN bin[s].variants[i].calls |->
                     IF /\ bin[s].variants[i].calls[k] = UNRESOLVED
                        /\ s \in pending[bin[s].targets[k].fid]
                       THEN MISSING ELSE bin[s].variants[i].calls[k]]
  <2>1. V[i] = [vref |-> bin[s].variants[i].vref, calls |-> c]
    OBVIOUS
  <2>2. /\ bin[s].variants[i].vref \in Vrefs
        /\ DOMAIN bin[s].variants[i].calls \subseteq 1..MaxTargets
        /\ \A k \in DOMAIN bin[s].variants[i].calls :
             bin[s].variants[i].calls[k] \in 0..MaxU16
    BY <1>1, VarFields, CallMapFacts
  <2>3. MISSING \in 0..MaxU16
    BY WriterAssumption DEF MISSING
  <2>4. c \in CallMaps
    <3>1. c \in [DOMAIN bin[s].variants[i].calls -> 0..MaxU16]
      BY <2>2, <2>3
    <3> QED
      BY <2>2, <3>1 DEF CallMaps
  <2>5. V[i] \in VarRec
    BY <2>1, <2>2, <2>4 DEF VarRec
  <2>6. V[i].vref = bin[s].variants[i].vref /\ V[i].calls = c
    BY <2>1
  <2> QED
    BY <2>5, <2>6
<1>3. V \in Seq(VarRec) /\ Len(V) = Len(bin[s].variants)
  <2>1. V \in [1..Len(bin[s].variants) -> VarRec]
    BY <1>1, <1>2
  <2> QED
    BY <1>1, <2>1, FunctionIsSeq
<1>4. res = [bin[s] EXCEPT !.variants = V]
  BY DEF StampMissing
<1> HIDE DEF V
<1>5. res \in SectionRec /\ res.fid = bin[s].fid /\ res.targets = bin[s].targets
      /\ res.variants = V
  BY <1>1, <1>3, <1>4 DEF SectionRec
<1> QED
  BY <1>2, <1>3, <1>5

\* finalize: every row has its section, so no callee is missing; every slot
\* that has no value is in pending, so none is left open.
LEMMA SealIInv ==
    ASSUME IInv, Seal
    PROVE  IInv' /\ PairsResolve' /\ SealedResolves' /\ ProviderLostToNamesake'
<1>1. /\ PlanInv /\ ShapeInv /\ status = "open" /\ KnownInv /\ RowsInv /\ SlotsInv
      /\ curFid = 0 /\ Len(bin) = Len(plan) /\ Finalize
      /\ UNCHANGED <<plan, duplicated, known, curFid>>
  BY DEF IInv, Seal, Finalize, pass2Vars
<1>2. /\ Len(bin) \in Nat /\ DOMAIN bin = 1..Len(bin) /\ DOMAIN plan = DOMAIN bin
      /\ \A s \in DOMAIN bin : bin[s] \in SectionRec
      /\ MISSING # UNRESOLVED
  BY <1>1, BinFacts, WriterAssumption DEF MISSING, UNRESOLVED
<1>3. \A f : f \in Sectioned => \E t \in DOMAIN bin : bin[t].fid = f
  BY <1>1, <1>2 DEF Sectioned, ShapeInv
<1>4. ~NeverWritten
  BY <1>1, <1>3 DEF NeverWritten, KnownInv
<1>5. /\ bin' = [s \in DOMAIN bin |-> StampMissing(s)]
      /\ pending' = [f \in Fids |-> {}]
      /\ status' = IF Leaks(bin') THEN "failed" ELSE "sealed"
  BY <1>1, <1>4 DEF Finalize
<1>6. /\ DOMAIN bin' = DOMAIN bin
      /\ \A s \in DOMAIN bin :
           /\ bin'[s] \in SectionRec /\ bin'[s].fid = bin[s].fid
           /\ bin'[s].targets = bin[s].targets
           /\ DOMAIN bin'[s].variants = DOMAIN bin[s].variants
           /\ Len(bin'[s].variants) = Len(bin[s].variants)
           /\ \A i \in DOMAIN bin[s].variants :
                /\ bin'[s].variants[i].vref = bin[s].variants[i].vref
                /\ DOMAIN bin'[s].variants[i].calls = DOMAIN bin[s].variants[i].calls
                /\ \A k \in DOMAIN bin[s].variants[i].calls :
                     bin'[s].variants[i].calls[k] =
                       IF /\ bin[s].variants[i].calls[k] = UNRESOLVED
                          /\ s \in pending[bin[s].targets[k].fid]
                         THEN MISSING ELSE bin[s].variants[i].calls[k]
  BY <1>1, <1>5, StampFacts
<1>7. bin' \in Seq(SectionRec) /\ Len(bin') = Len(bin)
  <2>1. bin' \in [1..Len(bin) -> SectionRec]
    BY <1>2, <1>5, <1>6
  <2> QED
    BY <1>2, <2>1, FunctionIsSeq
<1>8. \A t \in DOMAIN bin : \A w :
         Has(bin'[t].variants, w) <=> Has(bin[t].variants, w)
  BY <1>6 DEF Has
<1>9. ASSUME NEW s \in DOMAIN bin, NEW i \in DOMAIN bin[s].variants,
             NEW k \in DOMAIN bin[s].variants[i].calls
      PROVE  LET r == bin[s].targets[k]
                 w == bin[s].variants[i].vref
                 sw == bin'[s].variants[i].calls[k] IN
             /\ sw # UNRESOLVED
             /\ sw = MISSING <=> r.fid \in duplicated \/ NoBody(r.fid, w)
             /\ sw # MISSING => Leads(r, w, sw)
  <2> DEFINE r == bin[s].targets[k]
  <2> DEFINE w == bin[s].variants[i].vref
  <2> DEFINE sv == bin[s].variants[i].calls[k]
  <2> DEFINE sw == bin'[s].variants[i].calls[k]
  <2>1. SlotOK(s, r, w, sv)
    BY <1>1 DEF SlotsInv
  <2>2. ~SelfCall(s, r.fid)
    BY <1>1 DEF SelfCall
  <2>3. sw = IF sv = UNRESOLVED /\ s \in pending[r.fid] THEN MISSING ELSE sv
    BY <1>6
  <2>4. sv = UNRESOLVED => s \in pending[r.fid] /\ NoBody(r.fid, w)
    BY <2>1, <2>2 DEF SlotOK
  <2>5. sv \notin {MISSING, UNRESOLVED} => Leads(r, w, sv) /\ ~NoBody(r.fid, w)
    BY <2>1 DEF SlotOK, Leads, Lands, NoBody, Has
  <2>6. sv = MISSING <=> r.fid \in duplicated
    BY <2>1 DEF SlotOK
  <2> HIDE DEF r, w, sv, sw
  <2>7. /\ sw # UNRESOLVED
        /\ sw = MISSING <=> r.fid \in duplicated \/ NoBody(r.fid, w)
        /\ sw # MISSING => Leads(r, w, sw)
    BY <1>2, <2>3, <2>4, <2>5, <2>6
  <2> QED
    BY <2>7 DEF r, w, sw
<1>10. \A s \in DOMAIN bin : \A k \in DOMAIN bin[s].targets :
         /\ bin[s].targets[k].type # EXTERN_T => Lands(bin[s].targets[k])
         /\ bin[s].targets[k].type = EXTERN_T /\ bin[s].targets[k].ptr # bin[s].targets[k].line
            => bin[s].targets[k].ptr \in s..Len(bin) /\ Lands(bin[s].targets[k])
  <2> SUFFICES ASSUME NEW s \in DOMAIN bin, NEW k \in DOMAIN bin[s].targets
               PROVE  /\ bin[s].targets[k].type # EXTERN_T => Lands(bin[s].targets[k])
                      /\ /\ bin[s].targets[k].type = EXTERN_T
                         /\ bin[s].targets[k].ptr # bin[s].targets[k].line
                         => /\ bin[s].targets[k].ptr \in s..Len(bin)
                            /\ Lands(bin[s].targets[k])
    OBVIOUS
  <2>1. RowOK(s, bin[s].targets[k])
    BY <1>1 DEF RowsInv
  <2>2. ~SelfCall(s, bin[s].targets[k].fid)
    BY <1>1 DEF SelfCall
  <2>3. bin[s].targets[k].fid \in Sectioned => ~Unwritten(bin[s].targets[k].fid)
    BY <1>3 DEF Unwritten
  <2> QED
    BY <2>1, <2>2, <2>3 DEF RowOK
<1>11. status' = "sealed"
  <2>1. ~Leaks(bin')
    BY <1>6, <1>9 DEF Leaks
  <2> QED
    BY <1>5, <2>1
<1>12. PlanInv'
  BY <1>1 DEF PlanInv
<1>13. ShapeInv'
  <2>1. ASSUME NEW s \in DOMAIN bin
        PROVE  /\ bin'[s].fid = plan[s].fid /\ Len(bin'[s].variants) <= MaxU16 - 1
               /\ \A i, j \in DOMAIN bin'[s].variants :
                    i < j => bin'[s].variants[i].vref <= bin'[s].variants[j].vref
               /\ CallsHaveRows(bin'[s].targets, bin'[s].variants)
    <3>1. /\ bin[s].fid = plan[s].fid /\ Len(bin[s].variants) <= MaxU16 - 1
          /\ \A i, j \in DOMAIN bin[s].variants :
               i < j => bin[s].variants[i].vref <= bin[s].variants[j].vref
          /\ CallsHaveRows(bin[s].targets, bin[s].variants)
      BY <1>1 DEF ShapeInv
    <3>2. CallsHaveRows(bin'[s].targets, bin'[s].variants)
      BY <1>6, <3>1 DEF CallsHaveRows
    <3> QED
      BY <1>6, <3>1, <3>2
  <2>2. pending' \in [Fids -> SUBSET (1..(Len(bin') + 1))]
    BY <1>5
  <2> QED
    BY <1>1, <1>6, <1>7, <1>11, <2>1, <2>2 DEF ShapeInv, CallsHaveRows
<1>14. TypeOK'
  BY <1>12, <1>13, ShapeTypes, PTL
<1>15. \A x \in Slots3' : /\ x[1] \in DOMAIN bin /\ x[2] \in DOMAIN bin[x[1]].variants
                          /\ x[3] \in DOMAIN bin[x[1]].variants[x[2]].calls
  BY <1>2, <1>6, <1>7 DEF Slots3
<1>16. PairsResolve'
  <2>1. ASSUME NEW x \in Slots3', Slot(x[1], x[2], x[3])' \notin {UNRESOLVED, MISSING}
        PROVE  /\ (Row(x[1], x[3]).ptr)' \in DOMAIN bin'
               /\ bin'[(Row(x[1], x[3]).ptr)'].fid = (Row(x[1], x[3]).fid)'
               /\ Slot(x[1], x[2], x[3])' + 1
                     \in DOMAIN bin'[(Row(x[1], x[3]).ptr)'].variants
               /\ bin'[(Row(x[1], x[3]).ptr)'].variants[Slot(x[1], x[2], x[3])' + 1].vref
                     = bin'[x[1]].variants[x[2]].vref
    <3>1. /\ x[1] \in DOMAIN bin /\ x[2] \in DOMAIN bin[x[1]].variants
          /\ x[3] \in DOMAIN bin[x[1]].variants[x[2]].calls
      BY <1>15, <2>1
    <3>2. PICK r, w, sw : /\ r = bin[x[1]].targets[x[3]]
                          /\ w = bin[x[1]].variants[x[2]].vref
                          /\ sw = bin'[x[1]].variants[x[2]].calls[x[3]]
      OBVIOUS
    <3>3. Leads(r, w, sw)
      BY <1>9, <2>1, <3>1, <3>2 DEF Slot
    <3>4. /\ (Row(x[1], x[3]))' = r /\ Slot(x[1], x[2], x[3])' = sw
          /\ bin'[x[1]].variants[x[2]].vref = w
      BY <1>6, <3>1, <3>2 DEF Row, Slot
    <3>5. /\ r.ptr \in DOMAIN bin /\ bin'[r.ptr].fid = r.fid
          /\ sw + 1 \in DOMAIN bin'[r.ptr].variants
          /\ bin'[r.ptr].variants[sw + 1].vref = w
      BY <1>6, <3>3 DEF Leads, Lands
    <3> QED
      BY <1>6, <3>4, <3>5
  <2> QED
    BY <1>14, <2>1 DEF PairsResolve
<1>17. MissingOnlyWhenAbsent'
  <2>1. ASSUME NEW x \in Slots3'
        PROVE  /\ Slot(x[1], x[2], x[3])' # UNRESOLVED
               /\ Slot(x[1], x[2], x[3])' = MISSING <=>
                    \/ (Row(x[1], x[3]).fid)' \in duplicated'
                    \/ \A t \in DOMAIN bin' :
                         bin'[t].fid = (Row(x[1], x[3]).fid)' =>
                           ~Has(bin'[t].variants, bin'[x[1]].variants[x[2]].vref)
    <3>1. /\ x[1] \in DOMAIN bin /\ x[2] \in DOMAIN bin[x[1]].variants
          /\ x[3] \in DOMAIN bin[x[1]].variants[x[2]].calls
      BY <1>15, <2>1
    <3>2. PICK r, w, sw : /\ r = bin[x[1]].targets[x[3]]
                          /\ w = bin[x[1]].variants[x[2]].vref
                          /\ sw = bin'[x[1]].variants[x[2]].calls[x[3]]
      OBVIOUS
    <3>3. /\ sw # UNRESOLVED
          /\ sw = MISSING <=> r.fid \in duplicated \/ NoBody(r.fid, w)
      BY <1>9, <3>1, <3>2
    <3>4. /\ (Row(x[1], x[3]))' = r /\ Slot(x[1], x[2], x[3])' = sw
          /\ bin'[x[1]].variants[x[2]].vref = w
      BY <1>6, <3>1, <3>2 DEF Row, Slot
    <3>5. NoBody(r.fid, w) <=> \A t \in DOMAIN bin' :
                                  bin'[t].fid = r.fid => ~Has(bin'[t].variants, w)
      BY <1>6, <1>8 DEF NoBody
    <3> QED
      BY <1>1, <3>3, <3>4, <3>5
  <2> QED
    BY <2>1 DEF MissingOnlyWhenAbsent
<1>18. PointersLand'
  BY <1>6, <1>10 DEF PointersLand, Row, Lands
<1>19. SealedResolves'
  BY <1>11, <1>17, <1>18 DEF SealedResolves, FinalizeSucceeds
<1>20. ProviderLostToNamesake'
  BY SMTT(60), <1>6, <1>7, <1>10 DEF ProviderLostToNamesake, Row, Lands
<1> QED
  BY <1>11, <1>12, <1>13, <1>16, <1>19, <1>20 DEF IInv

\* What the invariant says of the file.
LEMMA IInvImplies ==
    ASSUME IInv
    PROVE  PairsResolve /\ SealedResolves /\ ProviderLostToNamesake
<1>1. PlanInv /\ ShapeInv /\ TypeOK
  BY ShapeTypes DEF IInv
<1>2. CASE status = "sealed"
  BY <1>2 DEF IInv
<1>3. CASE status = "open"
  <2>1. RowsInv /\ SlotsInv
    BY <1>3 DEF IInv
  <2>2. PairsResolve
    <3>1. ASSUME NEW x \in Slots3, Slot(x[1], x[2], x[3]) \notin {UNRESOLVED, MISSING}
          PROVE  Leads(Row(x[1], x[3]), bin[x[1]].variants[x[2]].vref,
                       Slot(x[1], x[2], x[3]))
      <4>1. /\ x[1] \in DOMAIN bin /\ x[2] \in DOMAIN bin[x[1]].variants
            /\ x[3] \in DOMAIN bin[x[1]].variants[x[2]].calls
        BY <1>1, BinFacts DEF Slots3
      <4> QED
        BY <2>1, <3>1, <4>1 DEF SlotsInv, SlotOK, Slot, Row
    <3> QED
      BY <1>1, <3>1 DEF PairsResolve, Leads, Lands
  <2>3. SealedResolves
    BY <1>3 DEF SealedResolves, FinalizeSucceeds, PointersLand, MissingOnlyWhenAbsent
  <2>4. ProviderLostToNamesake
    BY <2>1 DEF ProviderLostToNamesake, RowsInv, RowOK, Row, Lands
  <2> QED
    BY <2>2, <2>3, <2>4
<1> QED
  BY <1>1, <1>2, <1>3 DEF ShapeInv

LEMMA StutterIInv ==
    ASSUME IInv, UNCHANGED vars
    PROVE  IInv'
<1>1. /\ bin' = bin /\ known' = known /\ pending' = pending /\ curFid' = curFid
      /\ curDeclared' = curDeclared /\ curTargets' = curTargets
      /\ curVariants' = curVariants /\ status' = status /\ plan' = plan
      /\ duplicated' = duplicated /\ keys' = keys /\ called' = called
  BY DEF vars, writerVars, pass2Vars
<1>2. PlanInv' <=> PlanInv
  BY <1>1 DEF PlanInv
<1>3. ShapeInv' <=> ShapeInv
  BY <1>1 DEF ShapeInv, CallsHaveRows
<1>4. OpenInv' <=> OpenInv
  BY <1>1 DEF OpenInv, CallsHaveRows, EffectiveType, Sectioned, Here
<1>5. KnownInv' <=> KnownInv
  BY <1>1 DEF KnownInv, Sectioned, Here
<1>6. RowsInv' <=> RowsInv
  BY <1>1 DEF RowsInv, RowOK, SelfCall, Lands, Unwritten, Sectioned, Here
<1>7. SlotsInv' <=> SlotsInv
  BY <1>1 DEF SlotsInv, SlotOK, SelfCall, NoBody, Leads, Lands, Has, Here
<1>8. PairsResolve' <=> PairsResolve
  BY <1>1 DEF PairsResolve, TypeOK, Slots3, Slot, Row
<1>9. ProviderLostToNamesake' <=> ProviderLostToNamesake
  BY <1>1 DEF ProviderLostToNamesake, Row
<1>10. SealedResolves' <=> SealedResolves
  BY <1>1 DEF SealedResolves, FinalizeSucceeds, PointersLand, MissingOnlyWhenAbsent,
              Slots3, Slot, Row, Has
<1> QED
  BY <1>1, <1>2, <1>3, <1>4, <1>5, <1>6, <1>7, <1>8, <1>9, <1>10 DEF IInv

LEMMA NextIInv == IInv /\ [Next]_vars => IInv'
<1> SUFFICES ASSUME IInv, [Next]_vars PROVE IInv'
  OBVIOUS
<1>1. CASE Open
  BY <1>1, OpenIInv
<1>2. CASE Variant
  BY <1>2, VariantIInv
<1>3. CASE Close
  BY <1>3, CloseIInv
<1>4. CASE Seal
  BY <1>4, SealIInv
<1>5. CASE Terminated \/ UNCHANGED vars
  BY <1>5, StutterIInv DEF Terminated
<1> QED
  BY <1>1, <1>2, <1>3, <1>4, <1>5 DEF Next

LEMMA Invariance == Spec => []IInv
<1>1. Init => IInv
  BY InitIInv
<1>2. IInv /\ [Next]_vars => IInv'
  BY NextIInv
<1> QED
  BY <1>1, <1>2, PTL DEF Spec

(* -------------------------------- theorems ------------------------------- *)

\* A pair of a section and a variant that a loader may follow leads to a
\* section of the callee and to the caller's variant in it: end_section and
\* _resolve_backward_variant_index fill the two halves of the pair so that they
\* agree, whatever the order of the sections.
THEOREM PairsAlwaysResolve == Spec => []PairsResolve
<1>1. IInv => PairsResolve
  BY IInvImplies
<1> QED
  BY <1>1, Invariance, PTL

\* finalize never raises, and in the sealed file a call is marked missing only
\* when there is nothing to call and every row leads to its callee:
\* pending_holes names every section that still has a hole.
THEOREM SealAlwaysResolves == Spec => []SealedResolves
<1>1. IInv => SealedResolves
  BY IInvImplies
<1> QED
  BY <1>1, Invariance, PTL

\* An extern row loses the line of its provider only to a section of its own
\* name that was closed no earlier than the row's section.
THEOREM ProviderKept == Spec => []ProviderLostToNamesake
<1>1. IInv => ProviderLostToNamesake
  BY IInvImplies
<1> QED
  BY <1>1, Invariance, PTL

\* One step never replaces a section_variant_index: not the self-resolve, not
\* the patches of the callers, not the sweep of finalize.
LEMMA StepStampsOnce ==
    ASSUME IInv, [Next]_vars, NEW x \in Slots3, Slot(x[1], x[2], x[3]) # UNRESOLVED
    PROVE  bin'[x[1]].variants[x[2]].calls[x[3]] = Slot(x[1], x[2], x[3])
<1>1. /\ PlanInv /\ ShapeInv
      /\ x[1] \in DOMAIN bin /\ x[2] \in DOMAIN bin[x[1]].variants
      /\ x[3] \in DOMAIN bin[x[1]].variants[x[2]].calls
  <2>1. PlanInv /\ ShapeInv
    BY DEF IInv
  <2> QED
    BY <2>1, BinFacts DEF Slots3
<1>2. CASE bin' = bin
  BY <1>2 DEF Slot
<1>3. CASE Close
  <2>1. OpenInv /\ RowsInv /\ SlotsInv
    BY <1>3 DEF IInv, Close, EndSection
  <2>2. PICK vs : /\ FlushedAs(vs)
                  /\ bin' = [s \in 1..Here |->
                               IF s = Here \/ s \in pending[curFid]
                                 THEN ResolveCaller(Before(s, vs), curFid, Here, vs)
                                 ELSE Before(s, vs)]
    BY <1>1, <1>3, <2>1, CloseFacts
  <2>3. x[1] \in 1..Here /\ Before(x[1], vs) = bin[x[1]]
    BY <1>1, BinFacts DEF Before
  <2>4. Patched(bin[x[1]], Hits(x[1]), Here, vs, bin'[x[1]])
    BY <1>1, <1>3, <2>1, <2>2, <2>3, AfterFacts
  <2> QED
    BY <1>1, <2>4 DEF Patched, Slot
<1>4. CASE Seal
  <2>1. CASE NeverWritten
    BY <1>2, <1>4, <2>1 DEF Seal, Finalize
  <2>2. CASE ~NeverWritten
    <3>1. bin'[x[1]] = StampMissing(x[1])
      BY <1>1, <1>4, <2>2 DEF Seal, Finalize
    <3>2. bin'[x[1]].variants[x[2]].calls[x[3]] =
            IF /\ bin[x[1]].variants[x[2]].calls[x[3]] = UNRESOLVED
               /\ x[1] \in pending[bin[x[1]].targets[x[3]].fid]
              THEN MISSING ELSE bin[x[1]].variants[x[2]].calls[x[3]]
      BY SMTT(60), <1>1, <3>1, StampFacts
    <3> QED
      BY <3>2 DEF Slot
  <2> QED
    BY <2>1, <2>2
<1>5. Open \/ Variant \/ Terminated \/ UNCHANGED vars => bin' = bin
  BY DEF Open, BeginSection, Variant, EmitVariant, Terminated, vars, writerVars
<1> QED
  BY <1>2, <1>3, <1>4, <1>5 DEF Next

\* A section_variant_index is stamped once: the self-resolve, the patches of
\* the callers and finalize only fill slots that are still open.
THEOREM StampsOnce == Spec => StampedOnce
<1>1. IInv /\ [Next]_vars =>
        [\A x \in Slots3 :
           Slot(x[1], x[2], x[3]) # UNRESOLVED =>
             bin'[x[1]].variants[x[2]].calls[x[3]] = Slot(x[1], x[2], x[3])]_vars
  BY StepStampsOnce
<1> QED
  BY <1>1, Invariance, PTL DEF Spec, StampedOnce

==============================================================================
