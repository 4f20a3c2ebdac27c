------------------------- MODULE TokenizeLoopProofs -------------------------
(***************************************************************************)
(* Proofs about TokenizeLoop for any set of identities and bodies, any      *)
(* canonical names and any number of functions.                             *)
(*                                                                          *)
(* RowsAddressable is inductive only with OrderInv, which is where the      *)
(* sort of iter_functions enters: prev_func_name never passes the last name *)
(* yielded, no row is named after it, and while that name is still being    *)
(* yielded the counter is at least the occurrence of each of its rows.      *)
(***************************************************************************)
EXTENDS TokenizeLoop, TLAPS

\* The CSV is in the order of the provider, and the counter covers the rows
\* of the current name.
OrderInv ==
    /\ prev <= last
    /\ Len(ranges) <= Len(rows)
    /\ \A i \in 1..Len(rows) : rows[i].addr <= iterated
    /\ \A i, j \in 1..Len(rows) : i < j => rows[i].addr < rows[j].addr
    /\ Costepped => \A i \in 1..Len(rows) : rows[i].name <= prev
    /\ Costepped /\ prev = last =>
          \A i \in 1..Len(rows) : rows[i].name = prev => rows[i].occ <= occurence

\* What the deduper has recorded is in the CSV or its row failed.
SeenInv ==
    \A id \in Identities :
        \/ seen[id] = NoBody
        \/ <<id, seen[id]>> \in lost
        \/ \E i \in 1..Len(rows) : rows[i].id = id /\ rows[i].body = seen[id]

\* While nothing fails, the last row has the current name, and the counter
\* is at its occurrence while that name is being yielded.
LastRowInv ==
    Costepped /\ lost = {} =>
        /\ Len(rows) = 0 => prev = 0
        /\ Len(rows) > 0 =>
              /\ rows[Len(rows)].name = prev
              /\ prev = last => rows[Len(rows)].occ = occurence

IInv == TypeOK /\ OrderInv /\ SeenInv /\ LastRowInv /\ RowsAddressable
               /\ OccurrencesContiguous /\ FoldedIsKept /\ CallsDisambiguated

\* What Append does to a typed sequence.
LEMMA AppendFacts ==
    ASSUME NEW S, NEW s \in Seq(S), NEW e \in S
    PROVE  /\ Append(s, e) \in Seq(S)
           /\ Len(Append(s, e)) = Len(s) + 1 /\ Len(s) \in Nat
           /\ DOMAIN Append(s, e) = 1..(Len(s) + 1) /\ DOMAIN s = 1..Len(s)
           /\ \A i \in 1..Len(s) : Append(s, e)[i] = s[i]
           /\ Append(s, e)[Len(s) + 1] = e
OBVIOUS

\* A function on 1..n is a sequence.
LEMMA FunctionIsSeq ==
    ASSUME NEW S, NEW n \in Nat, NEW f \in [1..n -> S]
    PROVE  f \in Seq(S) /\ Len(f) = n /\ DOMAIN f = 1..n
OBVIOUS

\* The fields of a row.
LEMMA RowFields ==
    ASSUME NEW r \in RowType
    PROVE  /\ r.addr \in Addresses /\ r.name \in Nat /\ r.name # 0
           /\ r.id \in Identities /\ r.body \in Bodies
           /\ r.occ \in 0..MaxFunctions
           /\ r.calls \in UNION {[c -> Stamps] : c \in SUBSET Addresses}
BY DEF RowType

\* A fresh row is a row: the counter never passes the number of functions.
LEMMA RowTyped ==
    ASSUME TypeOK, NEW id \in Identities, NEW body \in Bodies, NEW c \in Callees,
           iterated < MaxFunctions
    PROVE  /\ Row(id, body, c) \in RowType
           /\ Bumped(Canonical[id]) \in 0..(iterated + 1)
           /\ Row(id, body, c).addr = iterated + 1
           /\ Row(id, body, c).name = Canonical[id]
           /\ Row(id, body, c).occ = Bumped(Canonical[id])
           /\ Row(id, body, c).id = id
           /\ Row(id, body, c).body = body
<1>1. MaxFunctions \in Nat /\ Canonical[id] \in Nat \ {0}
  BY BoundsAssumption, CanonicalAssumption
<1>2. iterated \in Nat /\ iterated + 1 \in Addresses
  BY <1>1 DEF TypeOK, Addresses
<1>3. Bumped(Canonical[id]) \in 0..(iterated + 1)
  BY <1>2 DEF TypeOK, Bumped
<1>4. Bumped(Canonical[id]) \in 0..MaxFunctions
  BY <1>1, <1>2, <1>3
<1>5. [a \in c |-> Unstamped] \in UNION {[d -> Stamps] : d \in SUBSET Addresses}
  <2>1. c \in SUBSET Addresses
    BY DEF Callees
  <2>2. [a \in c |-> Unstamped] \in [c -> Stamps]
    BY DEF Stamps
  <2> QED
    BY <2>1, <2>2
<1> QED
  BY <1>1, <1>2, <1>3, <1>4, <1>5 DEF Row, RowType

\* The CSV after a row was written to it.
LEMMA RowAppended ==
    ASSUME TypeOK, NEW id \in Identities, NEW body \in Bodies, NEW c \in Callees,
           iterated < MaxFunctions, rows' = Append(rows, Row(id, body, c))
    PROVE  /\ rows' \in Seq(RowType)
           /\ Len(rows) \in Nat /\ Len(rows') = Len(rows) + 1
           /\ DOMAIN rows = 1..Len(rows) /\ DOMAIN rows' = 1..(Len(rows) + 1)
           /\ \A i \in 1..Len(rows) : rows'[i] = rows[i]
           /\ rows'[Len(rows) + 1].addr = iterated + 1
           /\ rows'[Len(rows) + 1].name = Canonical[id]
           /\ rows'[Len(rows) + 1].occ = Bumped(Canonical[id])
           /\ rows'[Len(rows) + 1].id = id
           /\ rows'[Len(rows) + 1].body = body
<1>1. rows \in Seq(RowType)
  BY DEF TypeOK
<1>2. Row(id, body, c) \in RowType
  BY RowTyped
<1>3. rows'[Len(rows) + 1] = Row(id, body, c)
  BY <1>1, <1>2, AppendFacts
<1> QED
  BY <1>1, <1>2, <1>3, AppendFacts, RowTyped

\* The rows after the backfill differ only in their calls.
LEMMA RowsInjected ==
    ASSUME TypeOK, BackfillOccurrences
    PROVE  /\ rows' \in Seq(RowType)
           /\ Len(rows) \in Nat /\ Len(rows') = Len(rows)
           /\ DOMAIN rows = 1..Len(rows) /\ DOMAIN rows' = 1..Len(rows)
           /\ \A i \in 1..Len(rows) :
                 /\ rows'[i].addr = rows[i].addr /\ rows'[i].name = rows[i].name
                 /\ rows'[i].occ = rows[i].occ /\ rows'[i].id = rows[i].id
                 /\ rows'[i].body = rows[i].body
                 /\ rows'[i].calls = [a \in DOMAIN rows[i].calls |-> Stamp(a)]
<1>1. rows \in Seq(RowType) /\ Len(rows) \in Nat /\ DOMAIN rows = 1..Len(rows)
  BY DEF TypeOK
<1>2. rows' = [i \in 1..Len(rows) |-> Injected(rows[i])]
  BY <1>1 DEF BackfillOccurrences
<1>3. \A a : Stamp(a) \in Stamps
  <2> SUFFICES ASSUME NEW a PROVE Stamp(a) \in Stamps
    OBVIOUS
  <2>1. CASE Records(a) = {}
    BY <2>1 DEF Stamp, Stamps
  <2>2. CASE Records(a) # {}
    <3>1. PICK i : i = (CHOOSE k \in Records(a) : TRUE)
      OBVIOUS
    <3>2. i \in Records(a) /\ Stamp(a) = rows[i].occ
      BY <2>2, <3>1 DEF Stamp
    <3>3. i \in 1..Len(rows)
      BY <3>2, <1>1 DEF Records
    <3>4. rows[i].occ \in 0..MaxFunctions
      BY <1>1, <3>3, RowFields
    <3> QED
      BY <3>2, <3>4, BoundsAssumption DEF Stamps, Addresses
  <2> QED
    BY <2>1, <2>2
<1>4. ASSUME NEW i \in 1..Len(rows)
      PROVE  /\ Injected(rows[i]) \in RowType
             /\ Injected(rows[i]).addr = rows[i].addr
             /\ Injected(rows[i]).name = rows[i].name
             /\ Injected(rows[i]).occ = rows[i].occ
             /\ Injected(rows[i]).id = rows[i].id
             /\ Injected(rows[i]).body = rows[i].body
             /\ Injected(rows[i]).calls = [a \in DOMAIN rows[i].calls |-> Stamp(a)]
  <2>1. rows[i] \in RowType
    BY <1>1
  <2>2. PICK d \in SUBSET Addresses : rows[i].calls \in [d -> Stamps]
    BY <2>1, RowFields
  <2>3. [a \in DOMAIN rows[i].calls |-> Stamp(a)] \in [d -> Stamps]
    BY <2>2, <1>3
  <2>4. [a \in DOMAIN rows[i].calls |-> Stamp(a)]
           \in UNION {[c -> Stamps] : c \in SUBSET Addresses}
    BY <2>2, <2>3
  <2> QED
    BY <2>1, <2>4 DEF Injected, RowType
<1>5. rows' \in Seq(RowType) /\ Len(rows') = Len(rows) /\ DOMAIN rows' = 1..Len(rows)
  <2>1. rows' \in [1..Len(rows) -> RowType]
    BY <1>2, <1>4
  <2> QED
    BY <1>1, <2>1, FunctionIsSeq
<1> QED
  BY <1>1, <1>2, <1>4, <1>5

\* The loop starts in the inductive invariant.
LEMMA InitIInv == Init => IInv
<1> SUFFICES ASSUME Init PROVE IInv
  OBVIOUS
<1>1. TypeOK
  BY BoundsAssumption DEF Init, TypeOK
<1>2. Len(rows) = 0 /\ DOMAIN rows = {}
  BY DEF Init
<1>3. OrderInv /\ SeenInv /\ LastRowInv
  BY <1>2 DEF Init, OrderInv, SeenInv, LastRowInv
<1>4. /\ RowsAddressable /\ OccurrencesContiguous
      /\ FoldedIsKept /\ CallsDisambiguated
  BY <1>2 DEF Init, RowsAddressable, OccurrencesContiguous, FoldedIsKept,
              CallsDisambiguated
<1> QED
  BY <1>1, <1>3, <1>4 DEF IInv

\* Every step keeps the variables in their types.
LEMMA TypeStep == TypeOK /\ [Next]_vars => TypeOK'
<1> SUFFICES ASSUME TypeOK, [Next]_vars PROVE TypeOK'
  OBVIOUS
<1> USE DEF input, counters, history
<1>0. /\ MaxFunctions \in Nat /\ iterated \in 0..MaxFunctions
      /\ Canonical \in [Identities -> Nat \ {0}]
  BY BoundsAssumption, CanonicalAssumption DEF TypeOK
<1>1. ASSUME NEW id \in Identities, SkipFunction(id) PROVE TypeOK'
  BY <1>0, <1>1 DEF TypeOK, SkipFunction, Yielded
<1>2. ASSUME NEW id \in Identities, NEW body \in Bodies, FoldFunction(id, body)
      PROVE  TypeOK'
  <2>1. occurence' \in 0..iterated'
    BY <1>0, <1>2 DEF TypeOK, FoldFunction, Yielded, Bumped
  <2> QED
    BY <1>0, <1>2, <2>1 DEF TypeOK, FoldFunction, Yielded
<1>3. ASSUME NEW id \in Identities, NEW body \in Bodies
      PROVE  Recorded(id, body) \in [Identities -> Bodies \union {NoBody}]
  BY DEF TypeOK, Recorded
<1>4. ASSUME NEW id \in Identities, NEW body \in Bodies, NEW c \in Callees,
             WriteFunction(id, body, c)
      PROVE  TypeOK'
  <2>1. iterated < MaxFunctions /\ rows' = Append(rows, Row(id, body, c))
    BY <1>4 DEF WriteFunction, Yielded
  <2>2. rows' \in Seq(RowType) /\ Bumped(Canonical[id]) \in 0..(iterated + 1)
    BY <2>1, RowAppended, RowTyped
  <2>3. ranges' \in Seq(Addresses)
    BY <1>0, <1>4, <2>1, AppendFacts DEF TypeOK, WriteFunction, Addresses
  <2> QED
    BY <1>0, <1>3, <1>4, <2>2, <2>3 DEF TypeOK, WriteFunction, Yielded
<1>5. ASSUME NEW id \in Identities, NEW body \in Bodies, WriteFails(id, body)
      PROVE  TypeOK'
  <2>1. occurence' \in 0..iterated'
    BY <1>0, <1>5 DEF TypeOK, WriteFails, Yielded, Bumped
  <2> QED
    BY <1>0, <1>3, <1>5, <2>1 DEF TypeOK, WriteFails, Yielded
<1>6. ASSUME NEW id \in Identities, NEW body \in Bodies, NEW c \in Callees,
             RangeFails(id, body, c)
      PROVE  TypeOK'
  <2>1. iterated < MaxFunctions /\ rows' = Append(rows, Row(id, body, c))
    BY <1>6 DEF RangeFails, Yielded
  <2>2. rows' \in Seq(RowType) /\ Bumped(Canonical[id]) \in 0..(iterated + 1)
    BY <2>1, RowAppended, RowTyped
  <2> QED
    BY <1>0, <1>3, <1>6, <2>2 DEF TypeOK, RangeFails, Yielded
<1>7. CASE BackfillOccurrences
  BY <1>7, RowsInjected DEF TypeOK, BackfillOccurrences
<1>8. CASE CloseCsv \/ BackfillFails \/ Terminated \/ UNCHANGED vars
  BY <1>8 DEF TypeOK, CloseCsv, BackfillFails, Terminated, vars
<1> QED
  BY <1>1, <1>2, <1>4, <1>5, <1>6, <1>7, <1>8 DEF Next

\* A row is only written when the name is the current one or a later one.
LEMMA NameCases ==
    ASSUME TypeOK, OrderInv, NEW id \in Identities, Yielded(id)
    PROVE  \/ Canonical[id] = prev /\ prev = last /\ last' = prev
              /\ Bumped(Canonical[id]) = occurence + 1
           \/ Canonical[id] > prev /\ last' = Canonical[id] /\ last' # prev
              /\ Bumped(Canonical[id]) = 0
<1>1. Canonical[id] \in Nat /\ Canonical[id] >= last /\ last' = Canonical[id]
  BY CanonicalAssumption DEF Yielded
<1>2. prev \in Nat /\ last \in Nat /\ prev <= last
  BY DEF TypeOK, OrderInv
<1> QED
  BY <1>1, <1>2 DEF Bumped

\* Every step keeps the CSV in order and the counter above its rows.
LEMMA OrderStep == TypeOK /\ OrderInv /\ [Next]_vars => OrderInv'
<1> SUFFICES ASSUME TypeOK, OrderInv, [Next]_vars PROVE OrderInv'
  OBVIOUS
<1> USE DEF input, counters, history
<1>0. /\ rows \in Seq(RowType) /\ Len(rows) \in Nat /\ Len(ranges) \in Nat
      /\ iterated \in Nat /\ prev \in Nat /\ last \in Nat /\ occurence \in Nat
  BY BoundsAssumption DEF TypeOK
<1>f. \A i \in 1..Len(rows) :
         rows[i].addr \in Nat /\ rows[i].name \in Nat /\ rows[i].occ \in Nat
  <2> TAKE i \in 1..Len(rows)
  <2>1. rows[i] \in RowType
    BY <1>0
  <2> QED
    BY <2>1, RowFields, BoundsAssumption DEF Addresses
<1>a. ASSUME NEW id \in Identities, NEW body \in Bodies, NEW c \in Callees,
             iterated < MaxFunctions, rows' = Append(rows, Row(id, body, c)),
             iterated' = iterated + 1
      PROVE  /\ \A i \in 1..Len(rows') : rows'[i].addr <= iterated'
             /\ \A i, j \in 1..Len(rows') : i < j => rows'[i].addr < rows'[j].addr
  <2>1. /\ Len(rows') = Len(rows) + 1
        /\ \A i \in 1..Len(rows) : rows'[i] = rows[i]
        /\ rows'[Len(rows) + 1].addr = iterated + 1
    BY <1>a, RowAppended
  <2>2. \A i \in 1..Len(rows) : rows'[i].addr \in Nat /\ rows'[i].addr <= iterated
    BY <1>f, <2>1 DEF OrderInv
  <2>3. \A i, j \in 1..Len(rows) : i < j => rows'[i].addr < rows'[j].addr
    BY <2>1 DEF OrderInv
  <2>4. \A i \in 1..Len(rows') : i \in 1..Len(rows) \/ i = Len(rows) + 1
    BY <1>0, <2>1
  <2>5. \A i \in 1..Len(rows') : rows'[i].addr <= iterated'
    BY <1>0, <1>a, <2>1, <2>2, <2>4
  <2>6. ASSUME NEW i \in 1..Len(rows'), NEW j \in 1..Len(rows'), i < j
        PROVE  rows'[i].addr < rows'[j].addr
    <3>1. i \in 1..Len(rows)
      BY <1>0, <2>1, <2>6
    <3>2. CASE j \in 1..Len(rows)
      BY <2>3, <2>6, <3>1, <3>2
    <3>3. CASE j = Len(rows) + 1
      BY <1>0, <2>1, <2>2, <3>1, <3>3
    <3> QED
      BY <2>4, <3>2, <3>3
  <2> QED
    BY <2>5, <2>6
<1>1. ASSUME NEW id \in Identities, Yielded(id), UNCHANGED <<prev, rows, ranges>>,
             occurence' \in Nat,
             prev = Canonical[id] => occurence' >= occurence
      PROVE  OrderInv'
  <2>1. iterated' = iterated + 1
    BY <1>1 DEF Yielded
  <2>2. CASE Canonical[id] = prev /\ prev = last /\ last' = prev
    BY <1>0, <1>f, <1>1, <2>1, <2>2 DEF OrderInv, Costepped
  <2>3. CASE Canonical[id] > prev /\ last' = Canonical[id] /\ last' # prev
    BY <1>0, <1>f, <1>1, <2>1, <2>3, CanonicalAssumption DEF OrderInv, Costepped
  <2> QED
    BY <1>1, <2>2, <2>3, NameCases
<1>2. ASSUME NEW id \in Identities, NEW body \in Bodies, NEW c \in Callees,
             WriteFunction(id, body, c)
      PROVE  OrderInv'
  <2>1. /\ iterated < MaxFunctions /\ rows' = Append(rows, Row(id, body, c))
        /\ iterated' = iterated + 1 /\ prev' = Canonical[id] /\ last' = Canonical[id]
        /\ occurence' = Bumped(Canonical[id]) /\ Yielded(id)
    BY <1>2 DEF WriteFunction, Yielded
  <2>2. Len(ranges') = Len(ranges) + 1
    BY <1>0, <1>2, <2>1, AppendFacts DEF WriteFunction, TypeOK
  <2>3. Canonical[id] \in Nat
    BY CanonicalAssumption
  <2>4. Costepped' => Costepped
    BY <1>0, <2>1, <2>2, RowAppended DEF Costepped
  <2>5. prev' <= last' /\ Len(ranges') <= Len(rows')
    BY <1>0, <2>1, <2>2, <2>3, RowAppended DEF OrderInv
  <2>6. \A i \in 1..Len(rows') : rows'[i].addr <= iterated'
    BY <1>a, <2>1
  <2>7. \A i, j \in 1..Len(rows') : i < j => rows'[i].addr < rows'[j].addr
    BY <1>a, <2>1
  <2>8. CASE Canonical[id] = prev /\ prev = last /\ Bumped(Canonical[id]) = occurence + 1
    <3>1. Costepped' => \A i \in 1..Len(rows') : rows'[i].name <= prev'
      BY <1>0, <1>f, <2>1, <2>3, <2>4, <2>8, RowAppended DEF OrderInv
    <3>2. Costepped' => \A i \in 1..Len(rows') :
              rows'[i].name = prev' => rows'[i].occ <= occurence'
      BY <1>0, <1>f, <2>1, <2>3, <2>4, <2>8, RowAppended DEF OrderInv
    <3> QED
      BY <2>5, <2>6, <2>7, <3>1, <3>2 DEF OrderInv
  <2>9. CASE Canonical[id] > prev /\ Bumped(Canonical[id]) = 0
    <3>1. Costepped' => \A i \in 1..Len(rows') : rows'[i].name <= prev'
      BY <1>0, <1>f, <2>1, <2>3, <2>4, <2>9, RowAppended DEF OrderInv
    <3>2. Costepped' => \A i \in 1..Len(rows') :
              rows'[i].name = prev' => rows'[i].occ <= occurence'
      BY <1>0, <1>f, <2>1, <2>3, <2>4, <2>9, RowAppended DEF OrderInv
    <3> QED
      BY <2>5, <2>6, <2>7, <3>1, <3>2 DEF OrderInv
  <2> QED
    BY <2>1, <2>8, <2>9, NameCases
<1>3. ASSUME NEW id \in Identities, NEW body \in Bodies, NEW c \in Callees,
             RangeFails(id, body, c)
      PROVE  OrderInv'
  <2>1. /\ iterated < MaxFunctions /\ rows' = Append(rows, Row(id, body, c))
        /\ iterated' = iterated + 1 /\ prev' = prev /\ last' = Canonical[id]
        /\ ranges' = ranges /\ Yielded(id)
    BY <1>3 DEF RangeFails, Yielded
  <2>2. ~Costepped' /\ Len(ranges') <= Len(rows')
    BY <1>0, <2>1, RowAppended DEF Costepped, OrderInv
  <2>3. prev' <= last'
    BY <1>0, <2>1, NameCases, CanonicalAssumption
  <2>4. \A i \in 1..Len(rows') : rows'[i].addr <= iterated'
    BY <1>a, <2>1
  <2>5. \A i, j \in 1..Len(rows') : i < j => rows'[i].addr < rows'[j].addr
    BY <1>a, <2>1
  <2> QED
    BY <2>2, <2>3, <2>4, <2>5 DEF OrderInv
<1>4. ASSUME NEW id \in Identities, SkipFunction(id) PROVE OrderInv'
  BY <1>0, <1>1, <1>4 DEF SkipFunction
<1>5. ASSUME NEW id \in Identities, NEW body \in Bodies, FoldFunction(id, body)
      PROVE  OrderInv'
  BY <1>0, <1>1, <1>5 DEF FoldFunction, Bumped
<1>6. ASSUME NEW id \in Identities, NEW body \in Bodies, WriteFails(id, body)
      PROVE  OrderInv'
  BY <1>0, <1>1, <1>6 DEF WriteFails, Bumped
<1>7. CASE BackfillOccurrences
  <2>1. UNCHANGED <<iterated, last, prev, occurence, ranges>>
    BY <1>7 DEF BackfillOccurrences
  <2>2. /\ Len(rows') = Len(rows)
        /\ \A i \in 1..Len(rows) : /\ rows'[i].addr = rows[i].addr
                                   /\ rows'[i].name = rows[i].name
                                   /\ rows'[i].occ = rows[i].occ
    BY <1>7, RowsInjected
  <2> QED
    BY <2>1, <2>2 DEF OrderInv, Costepped
<1>8. CASE CloseCsv \/ BackfillFails \/ Terminated \/ UNCHANGED vars
  BY <1>8 DEF OrderInv, Costepped, CloseCsv, BackfillFails, Terminated, vars
<1> QED
  BY <1>2, <1>3, <1>4, <1>5, <1>6, <1>7, <1>8 DEF Next

\* What was recorded stays accounted for, and so does what was folded.
LEMMA SeenStep ==
    TypeOK /\ SeenInv /\ FoldedIsKept /\ [Next]_vars => SeenInv' /\ FoldedIsKept'
<1> SUFFICES ASSUME TypeOK, SeenInv, FoldedIsKept, [Next]_vars
             PROVE  SeenInv' /\ FoldedIsKept'
  OBVIOUS
<1> USE DEF input, counters, history
<1>0. /\ rows \in Seq(RowType) /\ Len(rows) \in Nat /\ DOMAIN rows = 1..Len(rows)
      /\ seen \in [Identities -> Bodies \union {NoBody}]
      /\ folded \subseteq Identities \X Bodies
  BY DEF TypeOK
<1>1. ASSUME NEW id \in Identities, SkipFunction(id) PROVE SeenInv' /\ FoldedIsKept'
  BY <1>1 DEF SkipFunction, SeenInv, FoldedIsKept
<1>2. ASSUME NEW id \in Identities, NEW body \in Bodies, FoldFunction(id, body)
      PROVE  SeenInv' /\ FoldedIsKept'
  <2>1. seen[id] = body /\ body # NoBody
    BY <1>2, NoBodyAssumption DEF FoldFunction, IsDuplicate
  <2>2. \/ <<id, body>> \in lost
        \/ \E i \in 1..Len(rows) : rows[i].id = id /\ rows[i].body = body
    BY <2>1 DEF SeenInv
  <2>3. UNCHANGED <<seen, rows, lost>> /\ folded' = folded \union {<<id, body>>}
    BY <1>2 DEF FoldFunction
  <2>4. SeenInv'
    BY <2>3 DEF SeenInv
  <2>5. FoldedIsKept'
    BY <1>0, <2>2, <2>3 DEF FoldedIsKept
  <2> QED
    BY <2>4, <2>5
<1>3. ASSUME NEW id \in Identities, NEW body \in Bodies, NEW c \in Callees,
             iterated < MaxFunctions, rows' = Append(rows, Row(id, body, c)),
             seen' = Recorded(id, body), UNCHANGED <<lost, folded>>
      PROVE  SeenInv' /\ FoldedIsKept'
  <2>1. /\ Len(rows') = Len(rows) + 1 /\ DOMAIN rows' = 1..(Len(rows) + 1)
        /\ \A i \in 1..Len(rows) : rows'[i] = rows[i] /\ i \in 1..Len(rows')
        /\ Len(rows) + 1 \in 1..Len(rows')
        /\ rows'[Len(rows) + 1].id = id /\ rows'[Len(rows) + 1].body = body
    BY <1>0, <1>3, RowAppended
  <2>2. ASSUME NEW k \in Identities
        PROVE  \/ seen'[k] = NoBody
               \/ <<k, seen'[k]>> \in lost'
               \/ \E i \in 1..Len(rows') : rows'[i].id = k /\ rows'[i].body = seen'[k]
    <3>1. CASE seen'[k] = seen[k]
      BY <1>3, <2>1, <3>1 DEF SeenInv
    <3>2. CASE k = id /\ seen'[k] = body
      BY <2>1, <3>2
    <3> QED
      BY <1>0, <1>3, <3>1, <3>2 DEF Recorded
  <2>3. SeenInv'
    BY <2>2 DEF SeenInv
  <2>4. ASSUME NEW p \in folded'
        PROVE  \/ p \in lost'
               \/ \E i \in DOMAIN rows' : rows'[i].id = p[1] /\ rows'[i].body = p[2]
    <3>1. p \in folded
      BY <1>3
    <3>2. CASE p \in lost
      BY <1>3, <3>2
    <3>3. CASE \E i \in DOMAIN rows : rows[i].id = p[1] /\ rows[i].body = p[2]
      <4>1. PICK i \in 1..Len(rows) : rows[i].id = p[1] /\ rows[i].body = p[2]
        BY <1>0, <3>3
      <4>2. i \in DOMAIN rows' /\ rows'[i] = rows[i]
        BY <1>0, <2>1
      <4> QED
        BY <4>1, <4>2
    <3> QED
      BY <3>1, <3>2, <3>3 DEF FoldedIsKept
  <2> QED
    BY <2>3, <2>4 DEF FoldedIsKept
<1>4. ASSUME NEW id \in Identities, NEW body \in Bodies, NEW c \in Callees,
             WriteFunction(id, body, c)
      PROVE  SeenInv' /\ FoldedIsKept'
  BY <1>3, <1>4 DEF WriteFunction, Yielded
<1>5. ASSUME NEW id \in Identities, NEW body \in Bodies, NEW c \in Callees,
             RangeFails(id, body, c)
      PROVE  SeenInv' /\ FoldedIsKept'
  BY <1>3, <1>5 DEF RangeFails, Yielded
<1>6. ASSUME NEW id \in Identities, NEW body \in Bodies, WriteFails(id, body)
      PROVE  SeenInv' /\ FoldedIsKept'
  <2>1. /\ UNCHANGED <<rows, folded>> /\ lost' = lost \union {<<id, body>>}
        /\ seen' = Recorded(id, body)
    BY <1>6 DEF WriteFails
  <2>2. \A k \in Identities : seen'[k] = seen[k] \/ (k = id /\ seen'[k] = body)
    BY <1>0, <2>1 DEF Recorded
  <2>3. ASSUME NEW k \in Identities
        PROVE  \/ seen'[k] = NoBody
               \/ <<k, seen'[k]>> \in lost'
               \/ \E i \in 1..Len(rows') : rows'[i].id = k /\ rows'[i].body = seen'[k]
    <3>1. CASE seen'[k] = seen[k]
      BY <2>1, <3>1 DEF SeenInv
    <3>2. CASE k = id /\ seen'[k] = body
      BY <2>1, <3>2
    <3> QED
      BY <2>2, <3>1, <3>2
  <2>4. FoldedIsKept'
    BY <2>1 DEF FoldedIsKept
  <2> QED
    BY <2>3, <2>4 DEF SeenInv
<1>7. CASE BackfillOccurrences
  <2>1. UNCHANGED <<seen, lost, folded>>
    BY <1>7 DEF BackfillOccurrences
  <2>2. /\ Len(rows') = Len(rows) /\ DOMAIN rows' = DOMAIN rows
        /\ \A i \in 1..Len(rows) : rows'[i].id = rows[i].id /\ rows'[i].body = rows[i].body
    BY <1>7, RowsInjected
  <2> QED
    BY SMTT(60), <1>0, <2>1, <2>2 DEF SeenInv, FoldedIsKept
<1>8. CASE CloseCsv \/ BackfillFails \/ Terminated \/ UNCHANGED vars
  BY <1>8 DEF SeenInv, FoldedIsKept, CloseCsv, BackfillFails, Terminated, vars
<1> QED
  BY <1>1, <1>2, <1>4, <1>5, <1>6, <1>7, <1>8 DEF Next

\* Every step keeps the rows addressable by name and occurrence.
LEMMA RowsStep ==
    TypeOK /\ OrderInv /\ RowsAddressable /\ [Next]_vars => RowsAddressable'
<1> SUFFICES ASSUME TypeOK, OrderInv, RowsAddressable, [Next]_vars
             PROVE  RowsAddressable'
  OBVIOUS
<1> USE DEF input, counters, history
<1>0. /\ rows \in Seq(RowType) /\ Len(rows) \in Nat /\ DOMAIN rows = 1..Len(rows)
      /\ prev \in Nat /\ occurence \in Nat /\ Len(ranges) \in Nat
  BY DEF TypeOK
<1>1. \A i \in 1..Len(rows) : rows[i].name \in Nat /\ rows[i].occ \in Nat
  <2> TAKE i \in 1..Len(rows)
  <2>1. rows[i] \in RowType
    BY <1>0
  <2> QED
    BY <2>1, RowFields, BoundsAssumption
<1>2. ASSUME NEW id \in Identities, NEW body \in Bodies, NEW c \in Callees,
             WriteFunction(id, body, c)
      PROVE  RowsAddressable'
  <2>1. /\ iterated < MaxFunctions /\ rows' = Append(rows, Row(id, body, c))
        /\ Yielded(id)
    BY <1>2 DEF WriteFunction, Yielded
  <2>2. /\ Len(rows') = Len(rows) + 1 /\ DOMAIN rows' = 1..(Len(rows) + 1)
        /\ \A i \in 1..Len(rows) : rows'[i] = rows[i]
        /\ rows'[Len(rows) + 1].name = Canonical[id]
        /\ rows'[Len(rows) + 1].occ = Bumped(Canonical[id])
    BY <2>1, RowAppended
  <2>3. Costepped' => Costepped
    <3>1. Len(ranges') = Len(ranges) + 1
      BY <1>2, <2>1, AppendFacts DEF WriteFunction, TypeOK
    <3> QED
      BY <1>0, <2>2, <3>1 DEF Costepped
  <2>4. Costepped => \A i \in 1..Len(rows) :
           ~(rows[i].name = Canonical[id] /\ rows[i].occ = Bumped(Canonical[id]))
    <3>1. CASE Canonical[id] = prev /\ prev = last /\ Bumped(Canonical[id]) = occurence + 1
      BY <1>0, <1>1, <3>1 DEF OrderInv
    <3>2. CASE Canonical[id] > prev
      BY <1>0, <1>1, <3>2, CanonicalAssumption DEF OrderInv
    <3> QED
      BY <2>1, <3>1, <3>2, NameCases
  <2>5. ASSUME Costepped', NEW i \in DOMAIN rows', NEW j \in DOMAIN rows',
               rows'[i].name = rows'[j].name, rows'[i].occ = rows'[j].occ
        PROVE  i = j
    <3>1. i \in 1..Len(rows) \/ i = Len(rows) + 1
      BY <1>0, <2>2
    <3>2. j \in 1..Len(rows) \/ j = Len(rows) + 1
      BY <1>0, <2>2
    <3>3. CASE i \in 1..Len(rows) /\ j \in 1..Len(rows)
      BY <1>0, <2>2, <2>3, <2>5, <3>3 DEF RowsAddressable
    <3>4. CASE i \in 1..Len(rows) /\ j = Len(rows) + 1
      BY <2>2, <2>3, <2>4, <2>5, <3>4
    <3>5. CASE i = Len(rows) + 1 /\ j \in 1..Len(rows)
      BY <2>2, <2>3, <2>4, <2>5, <3>5
    <3> QED
      BY <3>1, <3>2, <3>3, <3>4, <3>5
  <2> QED
    BY <2>5 DEF RowsAddressable
<1>3. ASSUME NEW id \in Identities, NEW body \in Bodies, NEW c \in Callees,
             RangeFails(id, body, c)
      PROVE  RowsAddressable'
  <2>1. /\ iterated < MaxFunctions /\ rows' = Append(rows, Row(id, body, c))
        /\ ranges' = ranges
    BY <1>3 DEF RangeFails, Yielded
  <2>2. ~Costepped'
    BY <1>0, <2>1, RowAppended DEF Costepped, OrderInv
  <2> QED
    BY <2>2 DEF RowsAddressable
<1>4. CASE BackfillOccurrences
  <2>1. ranges' = ranges
    BY <1>4 DEF BackfillOccurrences
  <2>2. /\ Len(rows') = Len(rows) /\ DOMAIN rows' = DOMAIN rows
        /\ \A i \in DOMAIN rows : rows'[i].name = rows[i].name /\ rows'[i].occ = rows[i].occ
    BY <1>0, <1>4, RowsInjected
  <2> QED
    BY <2>1, <2>2 DEF RowsAddressable, Costepped
<1>5. CASE UNCHANGED <<rows, ranges>>
  BY <1>5 DEF RowsAddressable, Costepped
<1> QED
  BY <1>2, <1>3, <1>4, <1>5
     DEF Next, SkipFunction, FoldFunction, WriteFails, CloseCsv, BackfillFails, Terminated, vars

\* Every step keeps the occurrences of a name without a gap.
LEMMA ContiguousStep ==
    TypeOK /\ OrderInv /\ LastRowInv /\ OccurrencesContiguous /\ [Next]_vars
        => LastRowInv' /\ OccurrencesContiguous'
<1> SUFFICES ASSUME TypeOK, OrderInv, LastRowInv, OccurrencesContiguous, [Next]_vars
             PROVE  LastRowInv' /\ OccurrencesContiguous'
  OBVIOUS
<1> USE DEF input, counters, history
<1>0. /\ rows \in Seq(RowType) /\ Len(rows) \in Nat /\ DOMAIN rows = 1..Len(rows)
      /\ prev \in Nat /\ last \in Nat /\ occurence \in Nat /\ Len(ranges) \in Nat
  BY DEF TypeOK
<1>1. \A i \in 1..Len(rows) : rows[i].name \in Nat
  <2> TAKE i \in 1..Len(rows)
  <2>1. rows[i] \in RowType
    BY <1>0
  <2> QED
    BY <2>1, RowFields
<1>2. ASSUME NEW id \in Identities, Yielded(id), UNCHANGED <<prev, rows, ranges, lost>>,
             prev = Canonical[id] => occurence' = occurence
      PROVE  LastRowInv' /\ OccurrencesContiguous'
  <2>1. OccurrencesContiguous'
    BY <1>2 DEF OccurrencesContiguous, Costepped
  <2>2. CASE Canonical[id] = prev /\ prev = last /\ last' = prev
    BY <1>2, <2>1, <2>2 DEF LastRowInv, Costepped
  <2>3. CASE last' # prev
    BY <1>2, <2>1, <2>3 DEF LastRowInv, Costepped
  <2> QED
    BY <1>2, <2>2, <2>3, NameCases
<1>3. ASSUME NEW id \in Identities, NEW body \in Bodies, NEW c \in Callees,
             WriteFunction(id, body, c)
      PROVE  LastRowInv' /\ OccurrencesContiguous'
  <2>1. /\ iterated < MaxFunctions /\ rows' = Append(rows, Row(id, body, c))
        /\ Yielded(id) /\ prev' = Canonical[id] /\ lost' = lost
        /\ occurence' = Bumped(Canonical[id])
    BY <1>3 DEF WriteFunction, Yielded
  <2>2. /\ Len(rows') = Len(rows) + 1 /\ DOMAIN rows' = 1..(Len(rows) + 1)
        /\ \A i \in 1..Len(rows) : rows'[i] = rows[i]
        /\ rows'[Len(rows) + 1].name = Canonical[id]
        /\ rows'[Len(rows) + 1].occ = Bumped(Canonical[id])
    BY <2>1, RowAppended
  <2>3. Costepped' => Costepped
    <3>1. Len(ranges') = Len(ranges) + 1
      BY <1>3, <2>1, AppendFacts DEF WriteFunction, TypeOK
    <3> QED
      BY <1>0, <2>2, <3>1 DEF Costepped
  <2>4. LastRowInv'
    BY <1>0, <2>1, <2>2 DEF LastRowInv
  <2>5. ASSUME Costepped', lost' = {}, NEW i \in DOMAIN rows'
        PROVE  \/ /\ rows'[i].occ = 0
                  /\ \A j \in 1..(i - 1) : rows'[j].name # rows'[i].name
               \/ /\ i > 1 /\ rows'[i - 1].name = rows'[i].name
                  /\ rows'[i].occ = rows'[i - 1].occ + 1
    <3>0. Costepped /\ lost = {}
      BY <2>1, <2>3, <2>5
    <3>1. CASE i \in 1..Len(rows)
      <4>1. /\ \A j \in 1..(i - 1) : rows'[j] = rows[j]
            /\ rows'[i] = rows[i]
            /\ i > 1 => rows'[i - 1] = rows[i - 1]
        BY <1>0, <2>2, <3>1
      <4> QED
        BY <1>0, <3>0, <3>1, <4>1 DEF OccurrencesContiguous
    <3>2. CASE i = Len(rows) + 1
      <4>1. CASE Canonical[id] = prev /\ prev = last /\ Bumped(Canonical[id]) = occurence + 1
        <5>1. prev # 0
          BY <4>1, CanonicalAssumption
        <5>2. Len(rows) > 0 /\ rows[Len(rows)].name = prev /\ rows[Len(rows)].occ = occurence
          BY <1>0, <3>0, <4>1, <5>1 DEF LastRowInv
        <5>3. Len(rows) \in 1..Len(rows) /\ i - 1 = Len(rows) /\ i > 1
          BY <1>0, <3>2, <5>2
        <5> QED
          BY <2>2, <3>2, <4>1, <5>2, <5>3
      <4>2. CASE Canonical[id] > prev /\ Bumped(Canonical[id]) = 0
        <5>1. \A j \in 1..Len(rows) : rows[j].name # Canonical[id]
          BY <1>0, <1>1, <3>0, <4>2, CanonicalAssumption DEF OrderInv
        <5>2. i - 1 = Len(rows)
          BY <1>0, <3>2
        <5> QED
          BY <2>2, <3>2, <4>2, <5>1, <5>2
      <4> QED
        BY <2>1, <4>1, <4>2, NameCases
    <3> QED
      BY <1>0, <2>2, <3>1, <3>2
  <2>6. OccurrencesContiguous'
    BY <2>5 DEF OccurrencesContiguous
  <2> QED
    BY <2>4, <2>6
<1>4. ASSUME NEW id \in Identities, NEW body \in Bodies, NEW c \in Callees,
             RangeFails(id, body, c)
      PROVE  LastRowInv' /\ OccurrencesContiguous'
  <2>1. /\ iterated < MaxFunctions /\ rows' = Append(rows, Row(id, body, c))
        /\ ranges' = ranges
    BY <1>4 DEF RangeFails, Yielded
  <2>2. ~Costepped'
    BY <1>0, <2>1, RowAppended DEF Costepped, OrderInv
  <2> QED
    BY <2>2 DEF LastRowInv, OccurrencesContiguous
<1>5. ASSUME NEW id \in Identities, NEW body \in Bodies, WriteFails(id, body)
      PROVE  LastRowInv' /\ OccurrencesContiguous'
  <2>1. lost' # {}
    BY <1>5 DEF WriteFails
  <2> QED
    BY <2>1 DEF LastRowInv, OccurrencesContiguous
<1>6. ASSUME NEW id \in Identities, SkipFunction(id)
      PROVE  LastRowInv' /\ OccurrencesContiguous'
  BY <1>2, <1>6 DEF SkipFunction
<1>7. ASSUME NEW id \in Identities, NEW body \in Bodies, FoldFunction(id, body)
      PROVE  LastRowInv' /\ OccurrencesContiguous'
  BY <1>0, <1>2, <1>7 DEF FoldFunction, Bumped
<1>8. CASE BackfillOccurrences
  <2>1. UNCHANGED <<ranges, lost, prev, last, occurence>>
    BY <1>8 DEF BackfillOccurrences
  <2>2. /\ Len(rows') = Len(rows) /\ DOMAIN rows' = DOMAIN rows
        /\ \A i \in 1..Len(rows) : rows'[i].name = rows[i].name /\ rows'[i].occ = rows[i].occ
    BY <1>0, <1>8, RowsInjected
  <2>3. LastRowInv'
    BY <1>0, <2>1, <2>2 DEF LastRowInv, Costepped
  <2>4. \A i \in DOMAIN rows : /\ \A j \in 1..(i - 1) : j \in 1..Len(rows)
                               /\ i > 1 => i - 1 \in 1..Len(rows)
    BY <1>0
  <2>5. OccurrencesContiguous'
    BY <1>0, <2>1, <2>2, <2>4 DEF OccurrencesContiguous, Costepped
  <2> QED
    BY <2>3, <2>5
<1>9. CASE UNCHANGED <<rows, ranges, lost, prev, last, occurence>>
  BY <1>9 DEF LastRowInv, OccurrencesContiguous, Costepped
<1> QED
  BY <1>3, <1>4, <1>5, <1>6, <1>7, <1>8, <1>9
     DEF Next, CloseCsv, BackfillFails, Terminated, vars

\* The backfill leaves every call with the occurrence that leads to its callee.
LEMMA CallsStep ==
    TypeOK /\ OrderInv /\ RowsAddressable /\ CallsDisambiguated /\ [Next]_vars
        => CallsDisambiguated'
<1> SUFFICES ASSUME TypeOK, OrderInv, RowsAddressable, CallsDisambiguated, [Next]_vars
             PROVE  CallsDisambiguated'
  OBVIOUS
<1> USE DEF input, counters, history
<1>0. /\ rows \in Seq(RowType) /\ Len(rows) \in Nat /\ DOMAIN rows = 1..Len(rows)
      /\ \A i \in 1..Len(rows) : rows[i].addr \in Nat /\ rows[i].occ \in Nat
  <2>1. rows \in Seq(RowType) /\ Len(rows) \in Nat /\ DOMAIN rows = 1..Len(rows)
    BY DEF TypeOK
  <2>2. ASSUME NEW i \in 1..Len(rows)
        PROVE  rows[i].addr \in Nat /\ rows[i].occ \in Nat
    <3>1. rows[i] \in RowType
      BY <2>1
    <3> QED
      BY <3>1, RowFields, BoundsAssumption DEF Addresses
  <2> QED
    BY <2>1, <2>2
<1>1. \A i, j \in DOMAIN rows : rows[i].addr = rows[j].addr => i = j
  BY <1>0 DEF OrderInv
<1>2. CASE BackfillOccurrences
  <2>1. /\ DOMAIN rows' = DOMAIN rows
        /\ \A i \in DOMAIN rows :
              /\ rows'[i].addr = rows[i].addr /\ rows'[i].name = rows[i].name
              /\ rows'[i].occ = rows[i].occ
              /\ rows'[i].calls = [a \in DOMAIN rows[i].calls |-> Stamp(a)]
    BY <1>0, <1>2, RowsInjected
  <2>2. Costepped' => Costepped
    <3>1. ranges' = ranges
      BY <1>2 DEF BackfillOccurrences
    <3>2. Len(rows') = Len(rows)
      BY <1>2, RowsInjected
    <3> QED
      BY <3>1, <3>2 DEF Costepped
  <2>3. ASSUME Costepped', NEW i \in DOMAIN rows', NEW a \in DOMAIN rows'[i].calls
        PROVE  LET target == {j \in DOMAIN rows' : rows'[j].addr = a}
                   shared == {j \in target : \E k \in DOMAIN rows' :
                                 k # j /\ rows'[k].name = rows'[j].name}
               IN  /\ rows'[i].calls[a] # Unstamped <=> shared # {}
                   /\ \A j \in shared, k \in DOMAIN rows' :
                         rows'[k].name = rows'[j].name /\ rows'[k].occ = rows'[i].calls[a]
                             => k = j
    <3> DEFINE shared == {j \in DOMAIN rows : /\ rows[j].addr = a
                             /\ \E k \in DOMAIN rows :
                                   k # j /\ rows[k].name = rows[j].name}
    <3>1. rows'[i].calls[a] = Stamp(a)
      <4>1. i \in DOMAIN rows /\ rows'[i].calls = [b \in DOMAIN rows[i].calls |-> Stamp(b)]
        BY <2>1, <2>3
      <4>2. a \in DOMAIN rows[i].calls
        BY <2>3, <4>1
      <4> QED
        BY <4>1, <4>2
    <3>2. shared = Records(a)
      BY DEF Records, DuplicatedNames
    <3>3. \A j \in shared : Stamp(a) = rows[j].occ
      <4> TAKE j \in shared
      <4>1. Records(a) # {} /\ j \in Records(a)
        BY <3>2
      <4>2. PICK k : k = (CHOOSE m \in Records(a) : TRUE)
        OBVIOUS
      <4>3. k \in Records(a) /\ Stamp(a) = rows[k].occ
        BY <4>1, <4>2 DEF Stamp
      <4>4. k = j
        BY <1>1, <4>1, <4>3 DEF Records
      <4> QED
        BY <4>3, <4>4
    <3>4. Stamp(a) # Unstamped <=> shared # {}
      <4>1. CASE shared = {}
        BY <3>2, <4>1 DEF Stamp
      <4>2. CASE shared # {}
        <5>1. PICK j : j \in shared
          BY <4>2
        <5>2. Stamp(a) \in Nat
          BY <1>0, <3>3, <5>1
        <5> QED
          BY <4>2, <5>2 DEF Unstamped
      <4> QED
        BY <4>1, <4>2
    <3>5. \A j \in shared, k \in DOMAIN rows :
             rows[k].name = rows[j].name /\ rows[k].occ = Stamp(a) => k = j
      BY <2>2, <2>3, <3>3 DEF RowsAddressable
    <3>6. shared = {j \in {m \in DOMAIN rows' : rows'[m].addr = a} : \E k \in DOMAIN rows' :
                       k # j /\ rows'[k].name = rows'[j].name}
      BY <2>1
    <3> HIDE DEF shared
    <3>7. /\ rows'[i].calls[a] # Unstamped <=> shared # {}
          /\ \A j \in shared, k \in DOMAIN rows' :
                rows'[k].name = rows[j].name /\ rows'[k].occ = rows'[i].calls[a]
                    => k = j
      BY <2>1, <3>1, <3>4, <3>5
    <3>8. \A j \in shared : rows'[j].name = rows[j].name
      BY <2>1, <3>6
    <3> QED
      BY <3>6, <3>7, <3>8
  <2> QED
    BY <2>3 DEF CallsDisambiguated
<1>3. CASE phase' # "done"
  BY <1>3 DEF CallsDisambiguated
<1>4. CASE UNCHANGED <<phase, rows, ranges>>
  BY <1>4 DEF CallsDisambiguated, Costepped
<1>5. ASSUME NEW id \in Identities, Yielded(id) PROVE phase' # "done"
  BY <1>5 DEF Yielded
<1> QED
  BY <1>2, <1>3, <1>4, <1>5
     DEF Next, SkipFunction, FoldFunction, WriteFunction, WriteFails, RangeFails,
         CloseCsv, BackfillFails, Terminated, vars

\* The inductive invariant holds in every state of the loop.
THEOREM Invariance == Spec => []IInv
<1>1. IInv /\ [Next]_vars => IInv'
  BY TypeStep, OrderStep, SeenStep, RowsStep, ContiguousStep, CallsStep DEF IInv
<1> QED
  BY <1>1, InitIInv, PTL DEF Spec

\* Types: the occurrence counter is never negative and never passes the
\* number of functions yielded, whatever main_loop folds or loses.
THEOREM TypeCorrect == Spec => []TypeOK
<1>1. IInv => TypeOK
  BY DEF IInv
<1> QED
  BY <1>1, Invariance, PTL

\* No two rows of the CSV share a name and an occurrence.
THEOREM Addressable == Spec => []RowsAddressable
<1>1. IInv => RowsAddressable
  BY DEF IInv
<1> QED
  BY <1>1, Invariance, PTL

\* While no row fails, the occurrences of a name are 0, 1, ... without a gap.
THEOREM Contiguous == Spec => []OccurrencesContiguous
<1>1. IInv => OccurrencesContiguous
  BY DEF IInv
<1> QED
  BY <1>1, Invariance, PTL

\* A function is folded only into a row of its identity and body, or after
\* the row of that identity and body failed.
THEOREM Kept == Spec => []FoldedIsKept
<1>1. IInv => FoldedIsKept
  BY DEF IInv
<1> QED
  BY <1>1, Invariance, PTL

\* backfill_callee_occurrence stamps exactly the ambiguous calls, and each
\* stamp leads to the callee's row.
THEOREM Disambiguated == Spec => []CallsDisambiguated
<1>1. IInv => CallsDisambiguated
  BY DEF IInv
<1> QED
  BY <1>1, Invariance, PTL
=============================================================================
