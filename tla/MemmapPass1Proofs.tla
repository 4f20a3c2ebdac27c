------------------------- MODULE MemmapPass1Proofs --------------------------
(***************************************************************************)
(* Proofs about the lockstep merge and pass 1: what the merge yields, and   *)
(* that every row of the input ends in one entry of one arm, for any number *)
(* of streams, any sorted rows, any bodies and any encoder.                 *)
(***************************************************************************)
EXTENDS MemmapPass1, FiniteSetTheorems, SequenceTheorems, TLAPS

(* ------------------------- least, greatest, order ------------------------ *)

LessThan == {ss \in Nat \X Nat : ss[1] < ss[2]}

\* A non-empty set of naturals has a least element.
LEMMA Least ==
  ASSUME NEW T, T \subseteq Nat, T # {}
  PROVE  \E x \in T : \A y \in T : x <= y
<1>1. IsWellFoundedOn(LessThan, Nat)
  BY NatLessThanWellFounded DEF OpToRel, LessThan
<1>2. PICK x \in T : \A y \in T : ~(<<y, x>> \in LessThan)
  BY <1>1, WFMin, Zenon
<1>3. \A y \in T : ~(y < x)
  BY <1>2 DEF LessThan
<1> QED BY <1>3

\* The least name of the lookaheads is one of them (Min in lockstep_records).
LEMMA MinOfNaturals ==
  ASSUME NEW T, T \subseteq Nat, T # {}
  PROVE  Min(T) \in T /\ \A y \in T : Min(T) <= y
BY Least DEF Min

\* The last row of a run exists (Max in GroupEnd).
LEMMA MaxOfNaturals ==
  ASSUME NEW n \in Nat, NEW T, T \subseteq 0..n, T # {}
  PROVE  Max(T) \in T /\ \A y \in T : y <= Max(T)
<1>1. DEFINE U == {m \in Nat : n - m \in T}
<1>2. U # {}
  <2>1. PICK x \in T : TRUE
    OBVIOUS
  <2>2. n - x \in Nat /\ n - (n - x) = x
    BY <2>1
  <2> QED BY <2>2
<1>3. PICK m \in U : \A k \in U : m <= k
  BY <1>2, Least
<1>4. \A y \in T : y <= n - m
  <2>1. ASSUME NEW y \in T PROVE y <= n - m
    <3>1. n - y \in Nat /\ n - (n - y) = y
      OBVIOUS
    <3>2. n - y \in U
      BY <3>1
    <3> QED BY <1>3, <3>1, <3>2
  <2> QED BY <2>1
<1>5. n - m \in T
  BY <1>3
<1> QED BY <1>4, <1>5 DEF Max

\* InRowOrder lists a finite set of rows, each once.
LEMMA RowOrder ==
  ASSUME NEW S, IsFiniteSet(S), S \subseteq Nat \X Nat
  PROVE  /\ Cardinality(S) \in Nat
         /\ InRowOrder(S) \in [1..Cardinality(S) -> S]
         /\ \A m, n \in 1..Cardinality(S) : InRowOrder(S)[m] = InRowOrder(S)[n] => m = n
         /\ \A x \in S : \E n \in 1..Cardinality(S) : InRowOrder(S)[n] = x
<1>1. PICK c \in Nat : c = Cardinality(S)
  BY FS_CardinalityType
<1>2. ASSUME NEW x \in S
      PROVE  /\ IsFiniteSet({y \in S : Before(y, x)})
             /\ Rank(x, S) \in Nat /\ Rank(x, S) <= c - 1
  <2>1. {y \in S : Before(y, x)} \subseteq S \ {x}
    BY DEF Before
  <2>2. IsFiniteSet(S \ {x}) /\ Cardinality(S \ {x}) = c - 1
    BY <1>1, FS_RemoveElement
  <2>3. IsFiniteSet({y \in S : Before(y, x)}) /\ Cardinality({y \in S : Before(y, x)}) <= c - 1
    BY <2>1, <2>2, FS_Subset
  <2>4. Cardinality({y \in S : Before(y, x)}) \in Nat
    BY <2>3, FS_CardinalityType
  <2> QED BY <1>1, <2>3, <2>4 DEF Rank
<1>3. ASSUME NEW x \in S, NEW y \in S, Before(x, y) PROVE Rank(x, S) < Rank(y, S)
  <2>1. {z \in S : Before(z, x)} \subseteq {z \in S : Before(z, y)}
    BY <1>3 DEF Before
  <2>2. x \in {z \in S : Before(z, y)} /\ x \notin {z \in S : Before(z, x)}
    BY <1>3 DEF Before
  <2>3. IsFiniteSet({z \in S : Before(z, y)})
    BY <1>2
  <2>4. Rank(x, S) <= Rank(y, S) /\ Rank(x, S) # Rank(y, S)
    BY <2>1, <2>2, <2>3, FS_Subset DEF Rank
  <2>5. Rank(x, S) \in Nat /\ Rank(y, S) \in Nat
    BY <1>2
  <2> QED BY <2>4, <2>5
<1>4. \A x, y \in S : x # y => Rank(x, S) # Rank(y, S)
  <2>1. ASSUME NEW x \in S, NEW y \in S, x # y PROVE Rank(x, S) # Rank(y, S)
    <3>1. Before(x, y) \/ Before(y, x)
      BY <2>1 DEF Before
    <3>2. Rank(x, S) \in Nat /\ Rank(y, S) \in Nat
      BY <1>2
    <3>3. Rank(x, S) < Rank(y, S) \/ Rank(y, S) < Rank(x, S)
      BY <1>3, <3>1
    <3> QED BY <3>2, <3>3
  <2> QED BY <2>1
<1>5. \A x \in S : Rank(x, S) \in 0..c-1
  <2>1. ASSUME NEW x \in S PROVE Rank(x, S) \in 0..c-1
    <3>1. Rank(x, S) \in Nat /\ Rank(x, S) <= c - 1
      BY <1>2
    <3> QED BY <1>1, <3>1
  <2> QED BY <2>1
<1> DEFINE f == [x \in S |-> Rank(x, S)]
<1>6. f \in Injection(S, 0..c-1)
  <2>1. f \in [S -> 0..c-1]
    BY <1>5
  <2> QED BY <1>4, <2>1 DEF Injection, IsInjective
<1>7. IsFiniteSet(0..c-1) /\ Cardinality(0..c-1) = c
  <2>1. 0 \in Int /\ c - 1 \in Int /\ (0 > c - 1 => c = 0) /\ c - 1 - 0 + 1 = c
    BY <1>1
  <2> QED BY <2>1, FS_Interval
<1>8. f \in Surjection(S, 0..c-1)
  BY <1>1, <1>6, <1>7, FS_Injection
<1>9. ASSUME NEW n \in 1..c
      PROVE  InRowOrder(S)[n] \in S /\ Rank(InRowOrder(S)[n], S) = n - 1
  <2>1. n - 1 \in 0..c-1
    BY <1>1
  <2>2. \E x \in S : Rank(x, S) = n - 1
    BY <1>8, <2>1 DEF Surjection
  <2> QED BY <1>1, <2>2 DEF InRowOrder
<1>10. InRowOrder(S) \in [1..c -> S]
  <2>1. InRowOrder(S) = [n \in 1..c |-> InRowOrder(S)[n]]
    BY <1>1 DEF InRowOrder
  <2> QED BY <1>9, <2>1
<1>11. ASSUME NEW x \in S PROVE \E n \in 1..c : InRowOrder(S)[n] = x
  <2>1. Rank(x, S) + 1 \in 1..c /\ (Rank(x, S) + 1) - 1 = Rank(x, S)
    BY <1>1, <1>5
  <2> QED BY <1>4, <1>9, <2>1
<1>12. \A m, n \in 1..c : InRowOrder(S)[m] = InRowOrder(S)[n] => m = n
  <2>1. ASSUME NEW m \in 1..c, NEW n \in 1..c, InRowOrder(S)[m] = InRowOrder(S)[n] PROVE m = n
    <3>1. m - 1 = n - 1
      BY <1>9, <2>1
    <3> QED BY <1>1, <3>1
  <2> QED BY <2>1
<1> QED BY <1>1, <1>10, <1>11, <1>12

\* What a concatenation holds.
LEMMA ConcatFacts ==
  ASSUME NEW S, NEW s \in Seq(S), NEW t \in Seq(S)
  PROVE  /\ s \o t \in Seq(S)
         /\ Len(s) \in Nat /\ Len(t) \in Nat /\ Len(s \o t) = Len(s) + Len(t)
         /\ DOMAIN (s \o t) = 1..(Len(s) + Len(t))
         /\ \A n \in 1..Len(s) : (s \o t)[n] = s[n]
         /\ \A n \in 1..Len(t) : (s \o t)[Len(s) + n] = t[n]
OBVIOUS

(* ------------------------------- the merge ------------------------------- *)

\* The rows of the input, and those that have left the streams.
InputRows == {x \in Streams \X Nat : x[2] \in 1..Len(rows[x[1]])}
NameOf(x) == rows[x[1]][x[2]]
Passed(i) == IF pc = "seed" THEN 0
             ELSE IF current[i] = 0 THEN Len(rows[i]) ELSE current[i] - 1
Read == {x \in InputRows : x[2] <= Passed(x[1])}

ItemSet == [kind : {"matched", "unmatched"}, name : Names, recs : SUBSET (Streams \X Nat)]

InputInv ==
  /\ rows \in [Streams -> Seq(Names)]
  /\ \A i \in Streams : Len(rows[i]) <= MaxRows /\ Sorted(rows[i])

\* The streams move together: what was read has smaller names than the rest.
CursorInv ==
  /\ current \in [Streams -> Nat]
  /\ \A i \in Streams : current[i] <= Len(rows[i])
  /\ pc \in {"seed", "merge", "done"}
  /\ pc = "seed" => out = <<>> /\ duplicated = {}
  /\ pc = "done" => \A i \in Streams : current[i] = 0
  /\ \A x \in Read : \A y \in InputRows \ Read : NameOf(x) < NameOf(y)

\* The items yielded are those of the names read, each once and in order.
YieldInv ==
  /\ out \in Seq(ItemSet)
  /\ \A n \in DOMAIN out : \E x \in Read : out[n] \in ItemsFor(NameOf(x))
  /\ \A x \in Read : \A it \in ItemsFor(NameOf(x)) : \E n \in DOMAIN out : out[n] = it
  /\ IsInjective(out)
  /\ \A m, n \in DOMAIN out : m < n => out[m].name <= out[n].name
  /\ duplicated = {n \in Names : Repeated(n) /\ \E x \in Read : NameOf(x) = n}

MergeInv == InputInv /\ CursorInv /\ YieldInv

\* The rows of the input with their types.
LEMMA RowFacts ==
  ASSUME InputInv
  PROVE  /\ \A i \in Streams : Len(rows[i]) \in Nat /\ rows[i] \in Seq(Names)
         /\ \A x \in InputRows :
              /\ x[1] \in Streams /\ x[2] \in 1..Len(rows[x[1]]) /\ x[2] \in 1..MaxRows
              /\ NameOf(x) \in Names /\ NameOf(x) \in Nat /\ x = <<x[1], x[2]>>
         /\ \A i \in Streams : \A k \in 1..Len(rows[i]) : <<i, k>> \in InputRows
<1>1. \A i \in Streams : Len(rows[i]) \in Nat /\ rows[i] \in Seq(Names)
  BY DEF InputInv
<1>2. ASSUME NEW x \in InputRows
      PROVE  /\ x[1] \in Streams /\ x[2] \in 1..Len(rows[x[1]]) /\ x[2] \in 1..MaxRows
             /\ NameOf(x) \in Names /\ NameOf(x) \in Nat /\ x = <<x[1], x[2]>>
  <2>1. x[1] \in Streams /\ x[2] \in 1..Len(rows[x[1]]) /\ x = <<x[1], x[2]>>
    BY DEF InputRows
  <2>2. Len(rows[x[1]]) \in Nat /\ Len(rows[x[1]]) <= MaxRows /\ rows[x[1]] \in Seq(Names)
    BY <2>1 DEF InputInv
  <2>3. x[2] \in 1..MaxRows
    BY <2>1, <2>2, LockstepAssumption
  <2>4. NameOf(x) \in Names
    BY <2>1, <2>2 DEF NameOf
  <2> QED BY <2>1, <2>3, <2>4, LockstepAssumption
<1>3. \A i \in Streams : \A k \in 1..Len(rows[i]) : <<i, k>> \in InputRows
  BY <1>1 DEF InputRows
<1> QED BY <1>1, <1>2, <1>3

\* The rows of one name.
LEMMA Named ==
  ASSUME InputInv, NEW n
  PROVE  /\ RowsNamed(n) = {x \in InputRows : NameOf(x) = n}
         /\ IsFiniteSet(RowsNamed(n)) /\ RowsNamed(n) \subseteq Nat \X Nat
         /\ \A i \in Streams : IsFiniteSet(RowsOf(i, n)) /\ RowsOf(i, n) \subseteq 1..Len(rows[i])
<1>1. RowsNamed(n) = {x \in InputRows : NameOf(x) = n}
  <2>1. ASSUME NEW x \in RowsNamed(n) PROVE x \in InputRows /\ NameOf(x) = n
    BY DEF RowsNamed, RowsOf, InputRows, NameOf
  <2>2. ASSUME NEW x \in InputRows, NameOf(x) = n PROVE x \in RowsNamed(n)
    <3>1. x[1] \in Streams /\ x[2] \in 1..Len(rows[x[1]]) /\ x[2] \in 1..MaxRows /\ x = <<x[1], x[2]>>
      BY RowFacts
    <3> QED BY <2>2, <3>1 DEF RowsNamed, RowsOf, NameOf
  <2> QED BY <2>1, <2>2
<1>2. IsFiniteSet(Streams) /\ IsFiniteSet(1..MaxRows) /\ Streams \subseteq Nat
  BY LockstepAssumption, FS_Interval DEF Streams
<1>3. IsFiniteSet(Streams \X (1..MaxRows))
  BY <1>2, FS_Product
<1>4. RowsNamed(n) \subseteq Streams \X (1..MaxRows)
  BY DEF RowsNamed
<1>5. IsFiniteSet(RowsNamed(n)) /\ RowsNamed(n) \subseteq Nat \X Nat
  <2>1. IsFiniteSet(RowsNamed(n))
    BY <1>3, <1>4, FS_Subset
  <2>2. 1..MaxRows \subseteq Nat
    BY LockstepAssumption
  <2>3. RowsNamed(n) \subseteq Nat \X Nat
    BY <1>2, <1>4, <2>2
  <2> QED BY <2>1, <2>3
<1>6. ASSUME NEW i \in Streams
      PROVE  IsFiniteSet(RowsOf(i, n)) /\ RowsOf(i, n) \subseteq 1..Len(rows[i])
  <2>1. Len(rows[i]) \in Nat
    BY RowFacts
  <2>2. IsFiniteSet(1..Len(rows[i]))
    BY <2>1, FS_Interval
  <2>3. RowsOf(i, n) \subseteq 1..Len(rows[i])
    BY DEF RowsOf
  <2> QED BY <2>2, <2>3, FS_Subset
<1> QED BY <1>1, <1>5, <1>6

\* One turn of the loop.  The unread rows are named MinName or later; the rows
\* named MinName are the runs at the lookaheads of the matching streams.
TurnFacts(m) ==
  /\ m \in Names /\ m \in Nat /\ m = MinName
  /\ Matching \subseteq Streams /\ Matching # {}
  /\ \A i \in Matching : current[i] \in 1..Len(rows[i]) /\ rows[i][current[i]] = m
  /\ \A y \in InputRows \ Read : m <= NameOf(y)
  /\ \A x \in Read : NameOf(x) < m

LEMMA Turn ==
  ASSUME InputInv, CursorInv, pc = "merge", Live # {}
  PROVE  TurnFacts(MinName)
<1>1. Live \subseteq Streams /\ \A i \in Live : current[i] \in 1..Len(rows[i])
  BY DEF Live, CursorInv, InputInv
<1>2. \A i \in Live : NameAt(i) \in Names /\ NameAt(i) \in Nat
  BY <1>1, RowFacts, LockstepAssumption DEF NameAt
<1> DEFINE T == {NameAt(i) : i \in Live}
<1>3. T \subseteq Nat /\ T # {}
  BY <1>2
<1>4. MinName \in T /\ \A t \in T : MinName <= t
  BY <1>3, MinOfNaturals DEF MinName
<1>5. PICK m \in Nat : m = MinName /\ m \in Names
  BY <1>2, <1>4
<1>6. Matching \subseteq Live /\ Matching # {} /\ \A i \in Matching : NameAt(i) = m
  BY <1>4, <1>5 DEF Matching
<1>7. \A i \in Live : m <= NameAt(i)
  BY <1>4, <1>5
<1>8. ASSUME NEW i \in Live
      PROVE  <<i, current[i]>> \in InputRows \ Read /\ NameOf(<<i, current[i]>>) = NameAt(i)
  <2>1. <<i, current[i]>> \in InputRows
    BY <1>1, RowFacts
  <2>2. Passed(i) = current[i] - 1 /\ current[i] \in Nat
    BY <1>1 DEF Passed, CursorInv
  <2> QED BY <2>1, <2>2 DEF Read, NameOf, NameAt
<1>9. ASSUME NEW y \in InputRows \ Read PROVE m <= NameOf(y)
  <2>1. PICK i \in Streams, k \in Nat : y = <<i, k>> /\ k \in 1..Len(rows[i])
    BY RowFacts
  <2>2. ~(k <= Passed(i)) /\ Len(rows[i]) \in Nat /\ current[i] \in Nat
    BY <2>1, RowFacts DEF Read, CursorInv
  <2>3. current[i] # 0 /\ current[i] <= k
    BY <2>1, <2>2 DEF Passed
  <2>4. i \in Live /\ current[i] \in 1..Len(rows[i])
    BY <1>1, <2>3 DEF Live
  <2>5. rows[i][current[i]] <= rows[i][k]
    <3>1. CASE current[i] = k
      BY <1>2, <2>4, <3>1 DEF NameAt
    <3>2. CASE current[i] < k
      BY <2>1, <2>4, <3>2 DEF InputInv, Sorted
    <3> QED BY <2>2, <2>3, <3>1, <3>2
  <2>6. NameOf(y) \in Nat /\ NameOf(y) = rows[i][k]
    BY <2>1, RowFacts DEF NameOf
  <2>7. NameAt(i) \in Nat /\ m <= NameAt(i) /\ NameAt(i) = rows[i][current[i]]
    BY <1>2, <1>7, <2>4 DEF NameAt
  <2> QED BY <2>5, <2>6, <2>7
<1>10. ASSUME NEW x \in Read PROVE NameOf(x) < m
  <2>1. PICK i \in Matching : TRUE
    BY <1>6
  <2>2. <<i, current[i]>> \in InputRows \ Read /\ NameOf(<<i, current[i]>>) = m
    BY <1>6, <1>8
  <2> QED BY <2>2 DEF CursorInv
<1>11. \A i \in Matching : current[i] \in 1..Len(rows[i]) /\ rows[i][current[i]] = m
  BY <1>1, <1>6 DEF NameAt
<1> QED BY <1>1, <1>5, <1>6, <1>9, <1>10, <1>11 DEF TurnFacts

\* A matching stream's run reaches to the last of its rows of that name.
LEMMA Run ==
  ASSUME InputInv, CursorInv, pc = "merge", Live # {}, NEW i \in Matching
  PROVE  /\ GroupEnd(i) \in current[i]..Len(rows[i])
         /\ Group(i) = RowsOf(i, MinName)
         /\ \A k \in 1..Len(rows[i]) : k > GroupEnd(i) => rows[i][k] > MinName
<1>1. PICK m : m = MinName /\ TurnFacts(m)
  BY Turn
<1>2. PICK c, n \in Nat : c = current[i] /\ n = Len(rows[i]) /\ c \in 1..n /\ rows[i][c] = m /\ i \in Streams
  BY <1>1, RowFacts DEF TurnFacts
<1> DEFINE T == {k \in c..n : \A j \in c..k : rows[i][j] = m}
<1>3. NameAt(i) = m
  BY <1>2 DEF NameAt
<1>4. GroupEnd(i) = Max(T)
  BY <1>2, <1>3 DEF GroupEnd
<1>5. c \in T /\ T \subseteq 0..n
  BY <1>2
<1>6. PICK e \in T : e = GroupEnd(i) /\ \A k \in T : k <= e
  <2> HIDE DEF T
  <2> QED BY <1>2, <1>4, <1>5, MaxOfNaturals
<1>7. \A k \in 1..n : rows[i][k] \in Nat
  BY <1>2, RowFacts, LockstepAssumption
<1>8. ASSUME NEW k \in 1..n, k < c PROVE rows[i][k] < m
  <2>1. <<i, k>> \in Read
    BY <1>2, <1>8, RowFacts DEF Read, Passed
  <2> QED BY <1>1, <2>1 DEF TurnFacts, NameOf
<1>9. ASSUME NEW k \in 1..n, k > e PROVE rows[i][k] > m
  <2>1. e + 1 \in 1..n /\ e + 1 <= k /\ e + 1 \in c..n
    BY <1>2, <1>6, <1>9
  <2>2. rows[i][e + 1] # m
    <3>1. ASSUME rows[i][e + 1] = m PROVE FALSE
      <4>1. e \in Nat /\ \A j \in c..(e + 1) : j \in c..e \/ j = e + 1
        BY <1>2, <1>6
      <4>2. e + 1 \in T
        BY <1>6, <2>1, <3>1, <4>1
      <4>3. e + 1 <= e
        BY <1>6, <4>2
      <4> QED BY <4>1, <4>3
    <3> QED BY <3>1
  <2>7. \A a, b \in 1..n : a < b => rows[i][a] <= rows[i][b]
    BY <1>2 DEF InputInv, Sorted
  <2>3. rows[i][e + 1] >= m
    <3>1. c \in 1..n /\ c < e + 1
      BY <1>2, <1>6
    <3>2. rows[i][c] <= rows[i][e + 1]
      BY <2>1, <2>7, <3>1
    <3> QED BY <1>2, <3>2
  <2>4. rows[i][e + 1] <= rows[i][k]
    <3>1. CASE e + 1 = k
      BY <1>7, <3>1
    <3>2. CASE e + 1 # k
      <4>1. e + 1 < k
        BY <1>2, <1>6, <2>1, <3>2
      <4> QED BY <2>1, <2>7, <4>1
    <3> QED BY <3>1, <3>2
  <2>5. rows[i][e + 1] \in Nat /\ rows[i][k] \in Nat /\ m \in Nat
    BY <1>1, <1>7, <2>1 DEF TurnFacts
  <2> QED BY <2>2, <2>3, <2>4, <2>5
<1>10. Group(i) = RowsOf(i, m)
  <2>1. ASSUME NEW k \in Group(i) PROVE k \in RowsOf(i, m)
    BY <1>2, <1>6 DEF Group, RowsOf
  <2>2. ASSUME NEW k \in RowsOf(i, m) PROVE k \in Group(i)
    <3>1. k \in 1..n /\ rows[i][k] = m
      BY <1>2 DEF RowsOf
    <3>2. ~(k < c) /\ ~(k > e)
      BY <1>1, <1>7, <1>8, <1>9, <3>1
    <3> QED BY <1>2, <1>6, <3>1, <3>2 DEF Group
  <2> QED BY <2>1, <2>2
<1> QED BY <1>1, <1>2, <1>6, <1>9, <1>10

\* UnmatchedItems lists the rows it is about, one item each.
LEMMA ListedOnce ==
  ASSUME NEW m \in Names, NEW R, R = MatchingRows, IsFiniteSet(R),
         R \subseteq Nat \X Nat, R \subseteq Streams \X Nat,
         NEW q, q = UnmatchedItems(m)
  PROVE  /\ q \in Seq(ItemSet)
         /\ \A n \in 1..Len(q) :
              /\ q[n].name = m
              /\ \E x \in R : q[n] = UnmatchedItem(m, x[1], x[2])
         /\ \A x \in R : \E n \in 1..Len(q) : q[n] = UnmatchedItem(m, x[1], x[2])
         /\ \A a, b \in 1..Len(q) : q[a] = q[b] => a = b
<1>1. R = MatchingRows
  OBVIOUS
<1>2. PICK c \in Nat : c = Cardinality(R)
  BY FS_CardinalityType
<1>3. PICK f \in [1..c -> R] :
        /\ f = InRowOrder(R)
        /\ \A a, b \in 1..c : f[a] = f[b] => a = b
        /\ \A x \in R : \E n \in 1..c : f[n] = x
  BY <1>1, <1>2, RowOrder
<1>4. q = [n \in 1..c |-> UnmatchedItem(m, f[n][1], f[n][2])]
  BY <1>1, <1>3 DEF UnmatchedItems
<1>5. \A n \in 1..c : f[n] \in R /\ f[n] = <<f[n][1], f[n][2]>> /\ f[n] \in Streams \X Nat
  BY <1>1, <1>3
<1>6. \A n \in 1..c : /\ q[n] = UnmatchedItem(m, f[n][1], f[n][2]) /\ q[n] \in ItemSet
                     /\ q[n].name = m /\ q[n].recs = {f[n]}
  <2>1. ASSUME NEW n \in 1..c
        PROVE  /\ q[n] = UnmatchedItem(m, f[n][1], f[n][2]) /\ q[n] \in ItemSet
               /\ q[n].name = m /\ q[n].recs = {f[n]}
    <3>1. q[n] = UnmatchedItem(m, f[n][1], f[n][2])
      BY <1>4
    <3>2. PICK x : x = f[n] /\ x = <<x[1], x[2]>> /\ x \in Streams \X Nat
      BY <1>5
    <3>3. {x} \in SUBSET (Streams \X Nat)
      BY <3>2
    <3>4. q[n] = [kind |-> "unmatched", name |-> m, recs |-> {x}]
      BY <3>1, <3>2 DEF UnmatchedItem
    <3> QED BY <3>1, <3>2, <3>3, <3>4 DEF ItemSet
  <2> QED BY <2>1
<1>7. q \in Seq(ItemSet) /\ Len(q) = c
  <2>1. DOMAIN q = 1..c /\ q = [n \in 1..c |-> q[n]]
    BY <1>4
  <2>2. \A n \in 1..c : q[n] \in ItemSet
    BY <1>6
  <2> QED BY <2>1, <2>2
<1>8. ASSUME NEW a \in 1..c, NEW b \in 1..c, q[a] = q[b] PROVE a = b
  <2>1. q[a].recs = {f[a]} /\ q[b].recs = {f[b]}
    BY <1>6
  <2>2. f[a] = f[b]
    BY <1>8, <2>1
  <2> QED BY <1>3, <2>2
<1>9. ASSUME NEW x \in R PROVE \E n \in 1..c : q[n] = UnmatchedItem(m, x[1], x[2])
  BY <1>3, <1>6
<1> QED BY <1>1, <1>5, <1>6, <1>7, <1>8, <1>9

\* What the matching streams hold of the least name is all there is of it.
LEMMA TurnRows ==
  ASSUME InputInv, CursorInv, pc = "merge", Live # {}
  PROVE  /\ MatchingRows = RowsNamed(MinName)
         /\ IsDuplicated <=> Repeated(MinName)
         /\ \A x \in RowsNamed(MinName) :
              x[1] \in Matching /\ x[2] \in Group(x[1]) /\ x = <<x[1], x[2]>>
<1>1. PICK m : m = MinName /\ TurnFacts(m)
  BY Turn
<1>2. \A i \in Matching : i \in Streams /\ Group(i) = RowsOf(i, m)
  BY <1>1, Run DEF TurnFacts
<1>3. ASSUME NEW x \in InputRows, NameOf(x) = m
      PROVE  x[1] \in Matching /\ x[2] \in Group(x[1]) /\ x = <<x[1], x[2]>>
  <2>1. x \notin Read
    BY <1>1, <1>3 DEF TurnFacts
  <2>2. x[1] \in Streams /\ x[2] \in 1..Len(rows[x[1]]) /\ x = <<x[1], x[2]>>
    BY RowFacts
  <2>3. PICK i \in Streams, k \in Nat : x = <<i, k>> /\ k \in 1..Len(rows[i])
    BY <2>2
  <2>4. ~(k <= Passed(i)) /\ Len(rows[i]) \in Nat /\ current[i] \in Nat
    BY <2>1, <2>3, RowFacts DEF Read, CursorInv
  <2>5. current[i] # 0 /\ current[i] <= k
    BY <2>3, <2>4 DEF Passed
  <2>6. current[i] \in 1..Len(rows[i])
    BY <2>3, <2>4, <2>5
  <2>7. <<i, current[i]>> \in InputRows \ Read
    <3>1. <<i, current[i]>> \in InputRows /\ Passed(i) = current[i] - 1
      BY <2>5, <2>6, RowFacts DEF Passed
    <3> QED BY <2>4, <3>1 DEF Read
  <2>8. m <= rows[i][current[i]] /\ m \in Nat
    BY <1>1, <2>7 DEF TurnFacts, NameOf
  <2>9. rows[i][current[i]] <= rows[i][k]
    <3>1. CASE current[i] = k
      BY <2>7, <3>1, RowFacts DEF NameOf
    <3>2. CASE current[i] # k
      BY <2>3, <2>4, <2>5, <2>6, <3>2 DEF InputInv, Sorted
    <3> QED BY <3>1, <3>2
  <2>10. rows[i][k] = m /\ rows[i][current[i]] \in Nat
    BY <1>3, <2>3, <2>7, RowFacts DEF NameOf
  <2>11. rows[i][current[i]] = m
    BY <2>8, <2>9, <2>10
  <2>12. i \in Matching
    BY <1>1, <2>5, <2>11 DEF Matching, Live, NameAt, TurnFacts
  <2>13. k \in RowsOf(i, m)
    BY <2>3, <2>10 DEF RowsOf
  <2> QED BY <1>2, <2>3, <2>12, <2>13
<1>4. \A x \in RowsNamed(m) : x \in InputRows /\ NameOf(x) = m
  BY Named
<1>5. ASSUME NEW x \in MatchingRows PROVE x \in RowsNamed(m)
  <2>1. PICK i \in Matching : x \in {i} \X Group(i)
    BY DEF MatchingRows
  <2>2. PICK k \in RowsOf(i, m) : x = <<i, k>>
    BY <1>2, <2>1
  <2>3. x \in InputRows /\ NameOf(x) = m
    BY <1>2, <2>1, <2>2, RowFacts DEF RowsOf, NameOf
  <2> QED BY <2>3, Named
<1>6. ASSUME NEW x \in RowsNamed(m) PROVE x \in MatchingRows
  <2>1. x[1] \in Matching /\ x[2] \in Group(x[1]) /\ x = <<x[1], x[2]>>
    BY <1>3, <1>4
  <2>2. x \in {x[1]} \X Group(x[1])
    BY <2>1
  <2> QED BY <2>1, <2>2 DEF MatchingRows
<1>7. ASSUME NEW i \in Streams, i \notin Matching PROVE RowsOf(i, m) = {}
  <2>1. SUFFICES ASSUME NEW k \in RowsOf(i, m) PROVE FALSE
    OBVIOUS
  <2>2. <<i, k>> \in InputRows /\ NameOf(<<i, k>>) = m
    BY RowFacts DEF RowsOf, NameOf
  <2> QED BY <1>3, <1>7, <2>2
<1>8. IsDuplicated <=> Repeated(m)
  <2>1. ASSUME NEW i \in Streams, i \notin Matching PROVE ~(Cardinality(RowsOf(i, m)) >= 2)
    BY <1>7, <2>1, FS_EmptySet
  <2> QED BY <1>2, <2>1 DEF IsDuplicated, Repeated
<1> QED BY <1>1, <1>3, <1>4, <1>5, <1>6, <1>8

Yielded(name) ==
  IF ~IsDuplicated /\ Cardinality(Matching) >= 2
    THEN <<MatchedItem(name, {<<i, current[i]>> : i \in Matching})>>
    ELSE UnmatchedItems(name)

\* A turn yields what ItemsFor says of its name, each item once.
LEMMA TurnItems ==
  ASSUME InputInv, CursorInv, pc = "merge", Live # {},
         NEW q, q = Yielded(MinName)
  PROVE  /\ q \in Seq(ItemSet)
         /\ \A n \in 1..Len(q) : q[n] \in ItemsFor(MinName) /\ q[n].name = MinName
         /\ \A it \in ItemsFor(MinName) : \E n \in 1..Len(q) : q[n] = it
         /\ \A a, b \in 1..Len(q) : q[a] = q[b] => a = b
<1>1. PICK m : m = MinName /\ TurnFacts(m)
  BY Turn
<1>2. PICK R : R = RowsNamed(m)
  OBVIOUS
<1>3. /\ MatchingRows = R /\ (IsDuplicated <=> Repeated(m))
      /\ \A x \in R : x[1] \in Matching /\ x[2] \in Group(x[1]) /\ x = <<x[1], x[2]>>
  BY <1>1, <1>2, TurnRows
<1>4. IsFiniteSet(R) /\ R \subseteq Nat \X Nat /\ R \subseteq Streams \X Nat
  <2>1. \A x \in R : x \in Streams \X Nat
    BY <1>2, Named DEF InputRows
  <2> QED BY <1>2, <2>1, Named
<1>5. \A i \in Matching : i \in Streams /\ <<i, current[i]>> \in R
  <2>1. ASSUME NEW i \in Matching PROVE i \in Streams /\ <<i, current[i]>> \in R
    <3>1. i \in Streams /\ current[i] \in 1..Len(rows[i]) /\ rows[i][current[i]] = m
      BY <1>1 DEF TurnFacts
    <3>2. <<i, current[i]>> \in InputRows /\ NameOf(<<i, current[i]>>) = m
      BY <3>1, RowFacts DEF NameOf
    <3> QED BY <1>2, <3>1, <3>2, Named
  <2> QED BY <2>1
<1>6. ASSUME q = UnmatchedItems(m)
      PROVE  /\ q \in Seq(ItemSet)
             /\ \A n \in 1..Len(q) :
                  /\ q[n].name = m
                  /\ \E x \in R : q[n] = UnmatchedItem(m, x[1], x[2])
             /\ \A x \in R : \E n \in 1..Len(q) : q[n] = UnmatchedItem(m, x[1], x[2])
             /\ \A a, b \in 1..Len(q) : q[a] = q[b] => a = b
  <2>1. m \in Names /\ R = MatchingRows
    BY <1>1, <1>3 DEF TurnFacts
  <2> QED BY <1>4, <1>6, <2>1, ListedOnce
<1>7. CASE ~IsDuplicated
  <2>1. ASSUME NEW x \in R PROVE x = <<x[1], current[x[1]]>>
    <3>1. x[1] \in Matching /\ x[2] \in Group(x[1]) /\ x = <<x[1], x[2]>>
      BY <1>3
    <3>2. PICK i, k : i \in Matching /\ x = <<i, k>> /\ k \in Group(i)
      BY <3>1
    <3>3. current[i] \in Group(i)
      BY <1>3, <1>5, <3>2
    <3>4. IsFiniteSet(Group(i))
      BY <1>1, <1>5, <3>2, Run, Named
    <3>5. Cardinality(Group(i)) \in Nat /\ ~(Cardinality(Group(i)) >= 2)
      BY <1>7, <3>2, <3>4, FS_CardinalityType DEF IsDuplicated
    <3>6. k = current[i]
      <4>1. ASSUME k # current[i] PROVE FALSE
        <5>1. IsFiniteSet(Group(i) \ {k}) /\ Cardinality(Group(i) \ {k}) = Cardinality(Group(i)) - 1
          BY <3>2, <3>4, FS_RemoveElement
        <5>2. Cardinality(Group(i) \ {k}) # 0
          BY <3>3, <4>1, <5>1, FS_EmptySet
        <5>3. Cardinality(Group(i) \ {k}) \in Nat
          BY <5>1, FS_CardinalityType
        <5> QED BY <3>5, <5>1, <5>2, <5>3
      <4> QED BY <4>1
    <3> QED BY <3>2, <3>6
  <2>2. R = {<<i, current[i]>> : i \in Matching}
    BY <1>3, <1>5, <2>1
  <2>3. IsFiniteSet(Matching) /\ Cardinality(Matching) = Cardinality(R)
    <3> DEFINE f == [x \in R |-> x[1]]
    <3>1. f \in Injection(R, Matching)
      <4>1. f \in [R -> Matching]
        BY <1>3
      <4>2. \A x, y \in R : x[1] = y[1] => x = y
        BY <2>1
      <4> QED BY <4>1, <4>2 DEF Injection, IsInjective
    <3>2. f \in Surjection(R, Matching)
      <4>1. f \in [R -> Matching]
        BY <1>3
      <4>2. \A i \in Matching : \E x \in R : f[x] = i
        BY <1>5
      <4> QED BY <4>1, <4>2 DEF Surjection
    <3>3. ExistsBijection(R, Matching)
      BY <3>1, <3>2 DEF ExistsBijection, Bijection
    <3> QED BY <1>4, <3>3, FS_Bijection
  <2>4. CASE Cardinality(Matching) >= 2
    <3>1. q = <<MatchedItem(m, R)>>
      BY <1>1, <1>7, <2>2, <2>4 DEF Yielded
    <3>2. ItemsFor(m) = {MatchedItem(m, R)}
      BY <1>2, <1>3, <1>7, <2>3, <2>4 DEF ItemsFor
    <3>3. MatchedItem(m, R) \in ItemSet /\ MatchedItem(m, R).name = m
      BY <1>1, <1>4 DEF MatchedItem, ItemSet, TurnFacts
    <3> QED BY <1>1, <3>1, <3>2, <3>3
  <2>5. CASE ~(Cardinality(Matching) >= 2)
    <3>1. q = UnmatchedItems(m) /\ ItemsFor(m) = {UnmatchedItem(m, x[1], x[2]) : x \in R}
      BY <1>1, <1>2, <1>3, <1>7, <2>3, <2>5 DEF ItemsFor, Yielded
    <3> QED BY <1>1, <1>6, <3>1
  <2> QED BY <2>4, <2>5
<1>8. CASE IsDuplicated
  <2>1. q = UnmatchedItems(m) /\ ItemsFor(m) = {UnmatchedItem(m, x[1], x[2]) : x \in R}
    BY <1>1, <1>2, <1>3, <1>8 DEF ItemsFor, Yielded
  <2> QED BY <1>1, <1>6, <2>1
<1> QED BY <1>7, <1>8

\* What a turn reads: the rows of the least name, and the streams stay aligned.
LEMMA MergeReads ==
  ASSUME InputInv, CursorInv, Merge
  PROVE  /\ InputInv' /\ CursorInv' /\ InputRows' = InputRows
         /\ Read' = Read \cup RowsNamed(MinName)
<1>1. PICK m : m = MinName /\ TurnFacts(m)
  BY Turn DEF Merge
<1>2. /\ pc = "merge" /\ pc' = "merge" /\ rows' = rows /\ Live # {}
      /\ current' = [i \in Streams |->
                       IF i \in Matching THEN NextRow(i, GroupEnd(i)) ELSE current[i]]
  BY DEF Merge
<1>3. InputInv' /\ InputRows' = InputRows
  BY <1>2 DEF InputInv, InputRows, Sorted
<1>4. PICK R : R = RowsNamed(m) /\ R = {x \in InputRows : NameOf(x) = m}
  BY Named
<1>5. ASSUME NEW i \in Streams, i \in Matching
      PROVE  /\ current'[i] \in Nat /\ current'[i] <= Len(rows[i])
             /\ Passed(i)' = GroupEnd(i)
  <2>1. PICK n \in Nat : n = Len(rows[i])
    BY RowFacts
  <2>2. PICK c \in 1..n : c = current[i]
    BY <1>1, <1>5, <2>1 DEF TurnFacts
  <2>3. PICK e \in c..n : e = GroupEnd(i)
    BY <1>2, <1>5, <2>1, <2>2, Run
  <2>4. current'[i] = IF e < n THEN e + 1 ELSE 0
    BY <1>2, <1>5, <2>1, <2>3 DEF NextRow
  <2>5. Passed(i)' = IF current'[i] = 0 THEN n ELSE current'[i] - 1
    BY <1>2, <2>1 DEF Passed
  <2> QED BY <2>1, <2>2, <2>3, <2>4, <2>5
<1>6. ASSUME NEW i \in Streams, i \notin Matching
      PROVE  current'[i] = current[i] /\ Passed(i)' = Passed(i)
  BY <1>2, <1>6 DEF Passed
<1>7. ASSUME NEW x \in InputRows PROVE x \in Read' <=> x \in Read \cup R
  <2>1. PICK i \in Streams, k \in Nat : x = <<i, k>> /\ k \in 1..Len(rows[i])
    BY RowFacts
  <2>2. (x \in Read <=> k <= Passed(i)) /\ (x \in Read' <=> k <= Passed(i)')
    BY <1>3, <2>1 DEF Read
  <2>3. x \in R <=> rows[i][k] = m
    BY <1>4, <2>1 DEF NameOf
  <2>4. CASE i \notin Matching
    <3>1. x \notin R
      BY <1>1, <1>2, <1>4, <2>1, <2>4, TurnRows
    <3> QED BY <1>6, <2>2, <2>4, <3>1
  <2>5. CASE i \in Matching
    <3>1. PICK n \in Nat : n = Len(rows[i])
      BY RowFacts
    <3>2. PICK c \in 1..n : c = current[i]
      BY <1>1, <2>5, <3>1 DEF TurnFacts
    <3>3. PICK e \in c..n : e = GroupEnd(i)
      BY <1>2, <2>5, <3>1, <3>2, Run
    <3>4. Group(i) = RowsOf(i, m) /\ Group(i) = c..e
      BY <1>1, <1>2, <2>5, <3>2, <3>3, Run DEF Group
    <3>5. rows[i][k] = m <=> k \in c..e
      BY <2>1, <3>4 DEF RowsOf
    <3>6. Passed(i) = c - 1 /\ Passed(i)' = e
      BY <1>2, <1>5, <2>5, <3>2, <3>3 DEF Passed
    <3> QED BY <2>1, <2>2, <2>3, <3>2, <3>3, <3>5, <3>6
  <2> QED BY <2>4, <2>5
<1>8. Read' = Read \cup R
  <2>1. Read' \subseteq InputRows /\ Read \subseteq InputRows /\ R \subseteq InputRows
    BY <1>3, <1>4 DEF Read
  <2> QED BY <1>7, <2>1
<1>9. CursorInv'
  <2>1. ASSUME NEW i \in Streams PROVE current'[i] \in Nat /\ current'[i] <= Len(rows[i])
    <3>1. CASE i \in Matching
      BY <1>5, <3>1
    <3>2. CASE i \notin Matching
      BY <1>6, <3>2 DEF CursorInv
    <3> QED BY <3>1, <3>2
  <2>2. current' \in [Streams -> Nat]
    BY <1>2, <2>1
  <2>3. ASSUME NEW x \in Read', NEW y \in (InputRows \ Read)', x \in InputRows', y \in InputRows'
        PROVE  NameOf(x)' < NameOf(y)'
    <3>1. NameOf(x)' = NameOf(x) /\ NameOf(y)' = NameOf(y)
      BY <1>2 DEF NameOf
    <3>2. y \in InputRows \ Read /\ y \notin R /\ x \in Read \cup R
      BY <1>3, <1>8, <2>3
    <3>3. m \in Nat /\ NameOf(y) \in Nat /\ m <= NameOf(y) /\ NameOf(y) # m
      BY <1>1, <1>4, <3>2, RowFacts DEF TurnFacts
    <3>4. NameOf(x) <= m
      <4>1. CASE x \in R
        BY <1>4, <3>3, <4>1
      <4>2. CASE x \in Read
        BY <1>1, <3>3, <4>2, RowFacts DEF TurnFacts, Read
      <4> QED BY <3>2, <4>1, <4>2
    <3>5. NameOf(x) \in Nat
      BY <1>3, <2>3, RowFacts
    <3> QED BY <3>1, <3>3, <3>4, <3>5
  <2>4. \A x \in Read' : \A y \in (InputRows \ Read)' : NameOf(x)' < NameOf(y)'
    BY <2>3 DEF Read
  <2> QED BY <1>2, <2>1, <2>2, <2>4 DEF CursorInv
<1> QED BY <1>1, <1>3, <1>4, <1>8, <1>9

\* An item of a name carries the name.
LEMMA ItemName ==
  ASSUME NEW n, NEW it \in ItemsFor(n)
  PROVE  it.name = n
<1>1. it = MatchedItem(n, RowsNamed(n)) \/ \E x \in RowsNamed(n) : it = UnmatchedItem(n, x[1], x[2])
  BY DEF ItemsFor
<1> QED BY <1>1 DEF MatchedItem, UnmatchedItem

\* What the input says of a name does not change while the streams are read.
LEMMA SameInput ==
  ASSUME rows' = rows
  PROVE  /\ InputRows' = InputRows
         /\ \A n : Repeated(n)' = Repeated(n) /\ RowsNamed(n)' = RowsNamed(n)
         /\ \A n : ItemsFor(n)' = ItemsFor(n)
         /\ \A x : NameOf(x)' = NameOf(x) /\ ItemsFor(NameOf(x))' = ItemsFor(NameOf(x))
<1>1. \A n : Repeated(n)' = Repeated(n) /\ RowsNamed(n)' = RowsNamed(n)
  BY DEF Repeated, RowsNamed, RowsOf
<1>2. \A n : ItemsFor(n)' = ItemsFor(n)
  BY <1>1 DEF ItemsFor
<1>3. \A x : ItemsFor(NameOf(x))' = ItemsFor(NameOf(x))
  BY DEF ItemsFor, NameOf, Repeated, RowsNamed, RowsOf
<1> QED BY <1>1, <1>2, <1>3 DEF InputRows, NameOf

\* What a turn yields: the items of its name, after all the others.
LEMMA MergeYields ==
  ASSUME MergeInv, Merge
  PROVE  YieldInv'
<1>1. InputInv /\ CursorInv /\ YieldInv
  BY DEF MergeInv
<1>2. /\ pc = "merge" /\ rows' = rows /\ Live # {}
      /\ out' = out \o Yielded(MinName)
      /\ duplicated' = duplicated \cup (IF IsDuplicated THEN {MinName} ELSE {})
  BY DEF Merge, Yielded
<1>3. PICK m : m = MinName /\ TurnFacts(m)
  BY <1>1, <1>2, Turn
<1>4. PICK q \in Seq(ItemSet) :
        /\ q = Yielded(MinName)
        /\ \A n \in 1..Len(q) : q[n] \in ItemsFor(m) /\ q[n].name = m
        /\ \A it \in ItemsFor(m) : \E n \in 1..Len(q) : q[n] = it
        /\ \A a, b \in 1..Len(q) : q[a] = q[b] => a = b
  BY <1>1, <1>2, <1>3, TurnItems
<1>5. PICK R : R = RowsNamed(m) /\ R = {x \in InputRows : NameOf(x) = m} /\ Read' = Read \cup R
  BY <1>1, <1>3, Named, MergeReads
<1>6. PICK r : r \in R
  <2>1. PICK i \in Matching : i \in Streams /\ current[i] \in 1..Len(rows[i]) /\ rows[i][current[i]] = m
    BY <1>3 DEF TurnFacts
  <2>2. <<i, current[i]>> \in R
    BY <1>1, <1>5, <2>1, RowFacts DEF NameOf
  <2> QED BY <2>2
<1>7. PICK p \in Seq(ItemSet), o \in Seq(ItemSet) : p = out /\ o = out' /\ o = p \o q
  BY <1>1, <1>2, <1>4, ConcatFacts DEF YieldInv
<1>8. /\ Len(p) \in Nat /\ Len(q) \in Nat /\ Len(o) = Len(p) + Len(q)
      /\ DOMAIN p = 1..Len(p) /\ DOMAIN o = 1..(Len(p) + Len(q))
      /\ \A n \in 1..Len(p) : o[n] = p[n]
      /\ \A n \in 1..Len(q) : o[Len(p) + n] = q[n]
  BY <1>7, ConcatFacts
<1>9. \A n \in DOMAIN o : \/ n \in 1..Len(p) /\ o[n] = p[n]
                          \/ n - Len(p) \in 1..Len(q) /\ o[n] = q[n - Len(p)] /\ n > Len(p)
  <2>1. ASSUME NEW n \in DOMAIN o, ~(n \in 1..Len(p))
        PROVE  n - Len(p) \in 1..Len(q) /\ n = Len(p) + (n - Len(p)) /\ n > Len(p)
    BY <1>8, <2>1
  <2> QED BY <1>8, <2>1
<1>10. m \in Nat /\ \A n \in 1..Len(p) : p[n].name \in Nat /\ p[n].name < m
  <2>1. ASSUME NEW n \in 1..Len(p) PROVE p[n].name \in Nat /\ p[n].name < m
    <3>1. PICK x \in Read : p[n] \in ItemsFor(NameOf(x))
      BY <1>1, <1>7, <1>8 DEF YieldInv
    <3>2. p[n].name = NameOf(x)
      BY <3>1, ItemName
    <3>3. x \in InputRows
      BY DEF Read
    <3> QED BY <1>1, <1>3, <3>2, <3>3, RowFacts DEF TurnFacts
  <2> QED BY <1>3, <2>1 DEF TurnFacts
<1>11. \A x \in R : NameOf(x) = m
  BY <1>5
<1>12. \A n \in DOMAIN o : \E x \in Read \cup R : o[n] \in ItemsFor(NameOf(x))
  <2>1. ASSUME NEW n \in DOMAIN o PROVE \E x \in Read \cup R : o[n] \in ItemsFor(NameOf(x))
    <3>1. CASE n \in 1..Len(p) /\ o[n] = p[n]
      BY <1>1, <1>7, <1>8, <3>1 DEF YieldInv
    <3>2. CASE n - Len(p) \in 1..Len(q) /\ o[n] = q[n - Len(p)]
      BY <1>4, <1>6, <1>11, <3>2
    <3> QED BY <1>9, <3>1, <3>2
  <2> QED BY <2>1
<1>13. \A x \in Read \cup R : \A it \in ItemsFor(NameOf(x)) : \E n \in DOMAIN o : o[n] = it
  <2>1. ASSUME NEW x \in Read, NEW it \in ItemsFor(NameOf(x)) PROVE \E n \in DOMAIN o : o[n] = it
    <3>1. PICK n \in DOMAIN p : p[n] = it
      BY <1>1, <1>7 DEF YieldInv
    <3> QED BY <1>8, <3>1
  <2>2. ASSUME NEW x \in R, NEW it \in ItemsFor(NameOf(x)) PROVE \E n \in DOMAIN o : o[n] = it
    <3>1. PICK n \in 1..Len(q) : q[n] = it
      BY <1>4, <1>11
    <3>2. Len(p) + n \in DOMAIN o /\ o[Len(p) + n] = it
      BY <1>8, <3>1
    <3> QED BY <3>2
  <2> QED BY <2>1, <2>2
<1>14. \A a, b \in DOMAIN o : o[a] = o[b] => a = b
  <2>1. ASSUME NEW a \in DOMAIN o, NEW b \in DOMAIN o, o[a] = o[b] PROVE a = b
    <3>1. CASE a \in 1..Len(p) /\ b \in 1..Len(p)
      BY <1>1, <1>7, <1>8, <2>1, <3>1 DEF YieldInv, IsInjective
    <3>2. CASE a \in 1..Len(p) /\ b \notin 1..Len(p)
      <4>1. o[a] = p[a] /\ p[a].name \in Nat /\ p[a].name < m
        BY <1>8, <1>10, <3>2
      <4>2. o[b].name = m
        BY SMTT(30), <1>4, <1>9, <3>2
      <4> QED BY <1>10, <2>1, <4>1, <4>2
    <3>3. CASE a \notin 1..Len(p) /\ b \in 1..Len(p)
      <4>1. o[b] = p[b] /\ p[b].name \in Nat /\ p[b].name < m
        BY <1>8, <1>10, <3>3
      <4>2. o[a].name = m
        BY <1>4, <1>9, <3>3
      <4> QED BY <1>10, <2>1, <4>1, <4>2
    <3>4. CASE a \notin 1..Len(p) /\ b \notin 1..Len(p)
      <4>1. a - Len(p) \in 1..Len(q) /\ b - Len(p) \in 1..Len(q) /\ q[a - Len(p)] = q[b - Len(p)]
        BY <1>9, <2>1, <3>4
      <4>2. a - Len(p) = b - Len(p)
        BY <1>4, <4>1
      <4> QED BY <1>8, <4>2
    <3> QED BY <3>1, <3>2, <3>3, <3>4
  <2> QED BY <2>1
<1>15. \A a, b \in DOMAIN o : a < b => o[a].name <= o[b].name
  <2>1. ASSUME NEW a \in DOMAIN o, NEW b \in DOMAIN o, a < b PROVE o[a].name <= o[b].name
    <3>1. CASE a \in 1..Len(p) /\ b \in 1..Len(p)
      BY <1>1, <1>7, <1>8, <2>1, <3>1 DEF YieldInv
    <3>2. CASE a \in 1..Len(p) /\ b \notin 1..Len(p)
      <4>1. o[a] = p[a] /\ p[a].name \in Nat /\ p[a].name < m
        BY <1>8, <1>10, <3>2
      <4>2. o[b].name = m
        BY SMTT(30), <1>4, <1>9, <3>2
      <4> QED BY <1>10, <4>1, <4>2
    <3>3. CASE a \notin 1..Len(p)
      <4>1. b \notin 1..Len(p)
        BY <1>8, <2>1, <3>3
      <4>2. o[a].name = m /\ o[b].name = m
        BY SMTT(30), <1>4, <1>9, <3>3, <4>1
      <4> QED BY <1>10, <4>2
    <3> QED BY <3>1, <3>2, <3>3
  <2> QED BY <2>1
<1>16. duplicated' = {n \in Names : Repeated(n) /\ \E x \in Read \cup R : NameOf(x) = n}
  <2>1. duplicated = {n \in Names : Repeated(n) /\ \E x \in Read : NameOf(x) = n}
    BY <1>1 DEF YieldInv
  <2>2. IsDuplicated <=> Repeated(m)
    BY <1>1, <1>2, <1>3, TurnRows
  <2>3. m \in Names /\ \E x \in R : NameOf(x) = m
    BY <1>3, <1>6, <1>11 DEF TurnFacts
  <2>4. CASE IsDuplicated
    BY <1>2, <1>3, <1>11, <2>1, <2>2, <2>3, <2>4
  <2>5. CASE ~IsDuplicated
    BY <1>2, <1>3, <1>11, <2>1, <2>2, <2>3, <2>5
  <2> QED BY <2>4, <2>5
<1>17. PICK D : D = Read' /\ D = Read \cup R
  BY <1>5
<1>18. ItemSet' = ItemSet /\ out' = o
  BY <1>7 DEF ItemSet, Streams
<1>19. \A n \in DOMAIN o : \E x \in Read' : o[n] \in ItemsFor(NameOf(x))'
  BY <1>2, <1>12, <1>17, SameInput
<1>20. \A x \in Read' : \A it \in ItemsFor(NameOf(x))' : \E n \in DOMAIN o : o[n] = it
  BY <1>2, <1>13, <1>17, SameInput
<1>21. duplicated' = {n \in Names : Repeated(n)' /\ \E x \in Read' : NameOf(x)' = n}
  BY <1>2, <1>16, <1>17, SameInput
<1> QED BY <1>7, <1>14, <1>15, <1>18, <1>19, <1>20, <1>21 DEF YieldInv, IsInjective

\* An input is a sorted sequence of at most MaxRows names.
LEMMA InputsAreSorted ==
  ASSUME NEW q \in Inputs
  PROVE  q \in Seq(Names) /\ Len(q) <= MaxRows /\ Sorted(q)
<1>1. PICK n \in 0..MaxRows : q \in [1..n -> Names] /\ Sorted(q)
  BY DEF Inputs, SeqOf
<1>2. n \in Nat /\ n <= MaxRows
  BY <1>1, LockstepAssumption
<1> QED BY <1>1, <1>2

LEMMA MergeStarts ==
  ASSUME MergeInit
  PROVE  MergeInv
<1>1. InputInv
  <2>1. rows \in [Streams -> Inputs]
    BY DEF MergeInit
  <2>2. \A i \in Streams : rows[i] \in Seq(Names) /\ Len(rows[i]) <= MaxRows /\ Sorted(rows[i])
    BY <2>1, InputsAreSorted
  <2> QED BY <2>1, <2>2 DEF InputInv
<1>2. Read = {}
  <2>1. ASSUME NEW x \in Read PROVE FALSE
    <3>1. x[2] \in 1..Len(rows[x[1]]) /\ x[2] <= 0
      BY DEF Read, InputRows, Passed, MergeInit
    <3> QED BY <3>1
  <2> QED BY <2>1
<1>3. CursorInv
  <2>1. \A i \in Streams : current[i] = 0 /\ 0 <= Len(rows[i])
    BY <1>1, RowFacts DEF MergeInit
  <2> QED BY <1>2, <2>1 DEF CursorInv, MergeInit
<1>4. YieldInv
  <2>1. out = <<>> /\ out \in Seq(ItemSet) /\ DOMAIN out = {} /\ duplicated = {}
    BY DEF MergeInit
  <2> QED BY <1>2, <2>1 DEF YieldInv, IsInjective
<1> QED BY <1>1, <1>3, <1>4 DEF MergeInv

\* YieldInv is about the rows read and what has been yielded, not the cursors.
LEMMA YieldsKept ==
  ASSUME YieldInv, rows' = rows, out' = out, duplicated' = duplicated, Read' = Read
  PROVE  YieldInv'
<1>1. PICK D : D = Read /\ D = Read'
  OBVIOUS
<1>2. \A n \in DOMAIN out : \E x \in D : out[n] \in ItemsFor(NameOf(x))
  BY <1>1 DEF YieldInv
<1>3. \A x \in D : \A it \in ItemsFor(NameOf(x)) : \E n \in DOMAIN out : out[n] = it
  BY <1>1 DEF YieldInv
<1>4. duplicated = {n \in Names : Repeated(n) /\ \E x \in D : NameOf(x) = n}
  BY <1>1 DEF YieldInv
<1>5. \A n \in DOMAIN out' : \E x \in Read' : out'[n] \in ItemsFor(NameOf(x))'
  BY <1>1, <1>2, SameInput
<1>6. \A x \in Read' : \A it \in ItemsFor(NameOf(x))' : \E n \in DOMAIN out' : out'[n] = it
  BY <1>1, <1>3, SameInput
<1>7. duplicated' = {n \in Names : Repeated(n)' /\ \E x \in Read' : NameOf(x)' = n}
  BY <1>1, <1>4, SameInput
<1>8. ItemSet' = ItemSet
  BY DEF ItemSet, Streams
<1> QED BY <1>5, <1>6, <1>7, <1>8 DEF YieldInv, IsInjective

LEMMA SeedKeeps ==
  ASSUME MergeInv, Seed
  PROVE  MergeInv'
<1>1. InputInv /\ CursorInv /\ YieldInv
  BY DEF MergeInv
<1>2. /\ pc = "seed" /\ pc' = "merge" /\ rows' = rows /\ out' = out /\ duplicated' = duplicated
      /\ current' = [i \in Streams |-> NextRow(i, 0)]
  BY DEF Seed
<1>3. InputInv' /\ InputRows' = InputRows
  BY <1>1, <1>2 DEF InputInv, InputRows, Sorted
<1>4. Read = {}
  <2>1. ASSUME NEW x \in Read PROVE FALSE
    <3>1. x[2] \in 1..Len(rows[x[1]]) /\ x[2] <= 0
      BY <1>2 DEF Read, InputRows, Passed
    <3> QED BY <3>1
  <2> QED BY <2>1
<1>5. \A i \in Streams : current'[i] \in Nat /\ current'[i] <= Len(rows[i]) /\ Passed(i)' = 0
  <2>1. ASSUME NEW i \in Streams
        PROVE  current'[i] \in Nat /\ current'[i] <= Len(rows[i]) /\ Passed(i)' = 0
    <3>1. PICK n \in Nat : n = Len(rows[i])
      BY <1>1, RowFacts
    <3>2. current'[i] = IF 0 < n THEN 1 ELSE 0
      BY <1>2, <3>1 DEF NextRow
    <3>3. Passed(i)' = IF current'[i] = 0 THEN n ELSE current'[i] - 1
      BY <1>2, <3>1 DEF Passed
    <3> QED BY <3>1, <3>2, <3>3
  <2> QED BY <2>1
<1>6. Read' = {}
  <2>1. ASSUME NEW x \in InputRows, x[2] <= Passed(x[1])' PROVE FALSE
    <3>1. x[1] \in Streams /\ x[2] \in 1..Len(rows[x[1]])
      BY DEF InputRows
    <3> QED BY <1>5, <2>1, <3>1
  <2> QED BY <1>3, <2>1 DEF Read
<1>7. CursorInv'
  <2>1. current' \in [Streams -> Nat]
    BY <1>2, <1>5
  <2> QED BY <1>2, <1>5, <1>6, <2>1 DEF CursorInv
<1> QED BY <1>1, <1>2, <1>3, <1>4, <1>6, <1>7, YieldsKept DEF MergeInv

LEMMA StopKeeps ==
  ASSUME MergeInv, Stop
  PROVE  MergeInv'
<1>1. InputInv /\ CursorInv /\ YieldInv
  BY DEF MergeInv
<1>2. /\ pc = "merge" /\ pc' = "done" /\ rows' = rows /\ out' = out /\ duplicated' = duplicated
      /\ current' = current /\ Live = {}
  BY DEF Stop
<1>3. InputInv' /\ InputRows' = InputRows /\ Read' = Read
  BY <1>1, <1>2 DEF InputInv, InputRows, Sorted, Read, Passed
<1>4. \A i \in Streams : current[i] = 0
  BY <1>2 DEF Live
<1>5. PICK D, I : D = Read /\ D = Read' /\ I = InputRows /\ I = InputRows'
  BY <1>3
<1>6. \A x \in D : \A y \in I \ D : NameOf(x)' < NameOf(y)'
  BY <1>1, <1>2, <1>5, SameInput DEF CursorInv
<1>7. CursorInv'
  BY <1>1, <1>2, <1>4, <1>5, <1>6 DEF CursorInv
<1> QED BY <1>1, <1>2, <1>3, <1>7, YieldsKept DEF MergeInv

LEMMA MergeStutters ==
  ASSUME MergeInv, UNCHANGED mergeVars
  PROVE  MergeInv'
<1>1. rows' = rows /\ out' = out /\ duplicated' = duplicated /\ pc' = pc /\ current' = current
  BY DEF mergeVars
<1>2. InputRows' = InputRows /\ Read' = Read /\ InputInv'
  BY <1>1 DEF InputInv, InputRows, Sorted, Read, Passed, MergeInv
<1>3. PICK D, I : D = Read /\ D = Read' /\ I = InputRows /\ I = InputRows'
  BY <1>2
<1>4. \A x \in D : \A y \in I \ D : NameOf(x)' < NameOf(y)'
  BY <1>1, <1>3, SameInput DEF CursorInv, MergeInv
<1>5. CursorInv'
  BY <1>1, <1>3, <1>4 DEF CursorInv, MergeInv
<1> QED BY <1>1, <1>2, <1>5, YieldsKept DEF MergeInv

\* The builder only reads what the merge yields.
LEMMA MergeInvHolds == Spec => []MergeInv
<1>1. Init => MergeInv
  BY MergeStarts DEF Init
<1>2. MergeInv /\ [Next]_vars => MergeInv'
  <2>1. ASSUME MergeInv, Merge PROVE MergeInv'
    BY <2>1, MergeReads, MergeYields DEF MergeInv
  <2>2. ASSUME MergeInv, Next PROVE MergeInv'
    <3>1. CASE Advance
      BY <2>1, <2>2, <3>1, SeedKeeps, StopKeeps DEF Advance, MergeSteps
    <3>2. CASE DropLabel
      BY <2>2, <3>2, MergeStutters DEF DropLabel
    <3>3. CASE TakeMatched
      BY <2>2, <3>3, MergeStutters DEF TakeMatched
    <3>4. CASE Reroute
      BY <2>2, <3>4, MergeStutters DEF Reroute
    <3>5. CASE TakeUnmatched
      BY <2>2, <3>5, MergeStutters DEF TakeUnmatched
    <3>6. CASE Terminated
      BY <2>2, <3>6, MergeStutters DEF Terminated, vars, mergeVars
    <3> QED BY <2>2, <3>1, <3>2, <3>3, <3>4, <3>5, <3>6 DEF Next
  <2>3. ASSUME MergeInv, UNCHANGED vars PROVE MergeInv'
    BY <2>3, MergeStutters DEF vars, mergeVars
  <2> QED BY <2>2, <2>3
<1> QED BY <1>1, <1>2, PTL DEF Spec

LEMMA MergeInvIsCorrect ==
  ASSUME MergeInv
  PROVE  MergeCorrect
<1>1. InputInv /\ CursorInv /\ YieldInv
  BY DEF MergeInv
<1>2. SUFFICES ASSUME pc = "done"
      PROVE /\ ToSet(out) = UNION {ItemsFor(n) : n \in UNION {ToSet(rows[i]) : i \in Streams}}
            /\ IsInjective(out)
            /\ Sorted([x \in 1..Len(out) |-> out[x].name])
            /\ duplicated = {n \in Names : Repeated(n)}
  BY DEF MergeCorrect
<1>3. Read = InputRows
  <2>1. \A i \in Streams : Passed(i) = Len(rows[i]) /\ Len(rows[i]) \in Nat
    BY <1>1, <1>2, RowFacts DEF Passed, CursorInv
  <2> QED BY <2>1 DEF Read, InputRows
<1> DEFINE Held == UNION {ToSet(rows[i]) : i \in Streams}
<1>4. \A n : n \in Held <=> \E x \in InputRows : NameOf(x) = n
  <2>1. ASSUME NEW n \in Held PROVE \E x \in InputRows : NameOf(x) = n
    <3>1. PICK i \in Streams : n \in ToSet(rows[i])
      OBVIOUS
    <3>2. PICK k \in 1..Len(rows[i]) : rows[i][k] = n
      BY <1>1, <3>1, RowFacts DEF ToSet
    <3> QED BY <1>1, <3>1, <3>2, RowFacts DEF NameOf
  <2>2. ASSUME NEW x \in InputRows PROVE NameOf(x) \in Held
    <3>1. PICK i \in Streams, k \in Nat :
            x = <<i, k>> /\ k \in 1..Len(rows[i]) /\ rows[i] \in Seq(Names)
      BY <1>1, RowFacts
    <3>2. NameOf(x) \in ToSet(rows[i])
      BY <3>1 DEF NameOf, ToSet
    <3> QED BY <3>2
  <2> QED BY <2>1, <2>2
<1>5. ToSet(out) = UNION {ItemsFor(n) : n \in Held}
  <2>1. ASSUME NEW it \in ToSet(out) PROVE \E n \in Held : it \in ItemsFor(n)
    <3>1. PICK a \in DOMAIN out : it = out[a]
      BY DEF ToSet
    <3>2. PICK x \in InputRows : it \in ItemsFor(NameOf(x))
      BY <1>1, <1>3, <3>1 DEF YieldInv
    <3>3. NameOf(x) \in Held
      BY <1>4, <3>2
    <3> QED BY <3>2, <3>3
  <2>2. ASSUME NEW n \in Held, NEW it \in ItemsFor(n) PROVE it \in ToSet(out)
    <3>1. PICK x \in InputRows : NameOf(x) = n
      BY <1>4
    <3>2. PICK a \in DOMAIN out : it = out[a]
      BY <1>1, <1>3, <2>2, <3>1 DEF YieldInv
    <3> QED BY <3>2 DEF ToSet
  <2> QED BY <2>1, <2>2
<1>6. Sorted([x \in 1..Len(out) |-> out[x].name])
  <2>1. out \in Seq(ItemSet) /\ Len(out) \in Nat
    BY <1>1 DEF YieldInv
  <2>2. \A m, n \in 1..Len(out) : m < n => out[m].name <= out[n].name
    BY <1>1, <2>1 DEF YieldInv
  <2>3. PICK s : s = [x \in 1..Len(out) |-> out[x].name]
    OBVIOUS
  <2>4. Len(s) = Len(out) /\ \A n \in 1..Len(out) : s[n] = out[n].name
    BY <2>1, <2>3
  <2> QED BY <2>2, <2>3, <2>4 DEF Sorted
<1>7. duplicated = {n \in Names : Repeated(n)}
  <2>1. ASSUME NEW n, Repeated(n) PROVE \E x \in InputRows : NameOf(x) = n
    <3>1. PICK i \in Streams : Cardinality(RowsOf(i, n)) >= 2
      BY <2>1 DEF Repeated
    <3>2. RowsOf(i, n) # {}
      BY <3>1, FS_EmptySet
    <3>3. PICK k \in RowsOf(i, n) : TRUE
      BY <3>2
    <3>4. k \in 1..Len(rows[i]) /\ rows[i][k] = n
      BY DEF RowsOf
    <3> QED BY <1>1, <3>1, <3>4, RowFacts DEF NameOf
  <2> QED BY <1>1, <1>3, <2>1 DEF YieldInv
<1> QED BY <1>1, <1>5, <1>6, <1>7 DEF YieldInv

\* The merge yields every name once, in order, matched exactly when it is
\* unique in at least two streams, and classifies the repeated names
\* (lockstep_records and DuplicateNameClassifier), for every sorted input.
THEOREM MergeIsCorrect == Spec => []MergeCorrect
BY MergeInvHolds, MergeInvIsCorrect, PTL

(* -------------------------------- pass 1 --------------------------------- *)

\* What an item of a name is made of.
LEMMA ItemParts ==
  ASSUME InputInv, NEW n, NEW it \in ItemsFor(n)
  PROVE  /\ it.name = n /\ it.kind \in {"matched", "unmatched"}
         /\ it.recs \subseteq RowsNamed(n)
         /\ it.kind = "matched" => it.recs = RowsNamed(n) /\ ~Repeated(n) /\ ItemsFor(n) = {it}
         /\ \A other \in ItemsFor(n) : other.recs \cap it.recs # {} => other = it
<1>1. PICK R : R = RowsNamed(n) /\ \A x \in R : x = <<x[1], x[2]>>
  BY Named, RowFacts
<1>2. CASE ~Repeated(n) /\ Cardinality(R) >= 2
  <2>1. ItemsFor(n) = {MatchedItem(n, R)}
    BY <1>1, <1>2 DEF ItemsFor
  <2> QED BY <1>1, <1>2, <2>1 DEF MatchedItem
<1>3. CASE ~(~Repeated(n) /\ Cardinality(R) >= 2)
  <2>1. ItemsFor(n) = {UnmatchedItem(n, x[1], x[2]) : x \in R}
    BY <1>1, <1>3 DEF ItemsFor
  <2>2. ASSUME NEW o \in ItemsFor(n)
        PROVE  \E x \in R : /\ o = [kind |-> "unmatched", name |-> n, recs |-> {x}]
                            /\ o.recs = {x} /\ o.kind = "unmatched" /\ o.name = n
    <3>1. PICK x \in R : o = UnmatchedItem(n, x[1], x[2])
      BY <2>1
    <3>2. <<x[1], x[2]>> = x
      BY <1>1
    <3> QED BY <3>1, <3>2 DEF UnmatchedItem
  <2>3. PICK x \in R : /\ it = [kind |-> "unmatched", name |-> n, recs |-> {x}]
                       /\ it.recs = {x} /\ it.kind = "unmatched" /\ it.name = n
    BY <2>2
  <2>4. ASSUME NEW o \in ItemsFor(n), o.recs \cap it.recs # {} PROVE o = it
    <3>1. PICK y \in R : /\ o = [kind |-> "unmatched", name |-> n, recs |-> {y}] /\ o.recs = {y}
      BY <2>2
    <3>2. x = y
      BY <2>3, <2>4, <3>1
    <3> QED BY <2>3, <3>1, <3>2
  <2> QED BY <1>1, <2>3, <2>4
<1> QED BY <1>2, <1>3

\* The items the merge has yielded: their rows, and no row in two of them.
ItemShape(it) ==
  /\ it.name \in Names /\ it.kind \in {"matched", "unmatched"} /\ it \in ItemsFor(it.name)
  /\ IsFiniteSet(it.recs) /\ it.recs \subseteq RowsNamed(it.name)
  /\ \A y \in it.recs : y \in InputRows /\ NameOf(y) = it.name
  /\ \E x \in Read : NameOf(x) = it.name
  /\ it.kind = "matched" => it.recs = RowsNamed(it.name) /\ ~Repeated(it.name)

LEMMA ItemFacts ==
  ASSUME MergeInv, NEW n \in DOMAIN out
  PROVE  ItemShape(out[n])
<1>1. PICK it : it = out[n]
  OBVIOUS
<1>2. it \in ItemSet
  BY <1>1 DEF MergeInv, YieldInv
<1>3. PICK x \in Read : it \in ItemsFor(NameOf(x))
  BY <1>1 DEF MergeInv, YieldInv
<1>4. PICK m : m = NameOf(x) /\ it \in ItemsFor(m)
  BY <1>3
<1>5. /\ it.name = m /\ it.kind \in {"matched", "unmatched"} /\ it.recs \subseteq RowsNamed(m)
      /\ it.kind = "matched" => it.recs = RowsNamed(m) /\ ~Repeated(m)
  BY <1>4, ItemParts DEF MergeInv
<1>6. /\ IsFiniteSet(it.recs)
      /\ \A y \in it.recs : y \in InputRows /\ NameOf(y) = m
  BY <1>5, Named, FS_Subset DEF MergeInv
<1>7. it.name \in Names
  BY <1>2 DEF ItemSet
<1> QED BY <1>1, <1>3, <1>4, <1>5, <1>6, <1>7 DEF ItemShape

LEMMA SharedRow ==
  ASSUME MergeInv, NEW a \in DOMAIN out, NEW b \in DOMAIN out,
         NEW y, y \in out[a].recs, y \in out[b].recs
  PROVE  a = b
<1>1. PICK m : m = NameOf(y) /\ out[a] \in ItemsFor(m) /\ out[b] \in ItemsFor(m)
  BY ItemFacts DEF ItemShape
<1>2. out[a] = out[b]
  BY <1>1, ItemParts DEF MergeInv
<1> QED BY <1>2 DEF MergeInv, YieldInv, IsInjective

\* An item that matched a name is all there is of the name.
LEMMA MatchedAlone ==
  ASSUME MergeInv, NEW a \in DOMAIN out, NEW b \in DOMAIN out,
         out[a].kind = "matched", out[a].name = out[b].name
  PROVE  a = b
<1>1. PICK m : m = out[a].name /\ out[a] \in ItemsFor(m) /\ out[b] \in ItemsFor(m)
  BY ItemFacts DEF ItemShape
<1>2. ItemsFor(m) = {out[a]}
  BY <1>1, ItemParts DEF MergeInv
<1> QED BY <1>1, <1>2 DEF MergeInv, YieldInv, IsInjective

\* No row the merge has read is missing from the items.
LEMMA RowYielded ==
  ASSUME MergeInv, NEW x \in Read
  PROVE  \E n \in DOMAIN out : x \in out[n].recs
<1>1. PICK m : m = NameOf(x)
  OBVIOUS
<1>2. PICK R : R = RowsNamed(m) /\ x \in R /\ x = <<x[1], x[2]>>
  BY <1>1, Named, RowFacts DEF Read, MergeInv
<1>3. PICK it \in ItemsFor(m) : x \in it.recs
  <2>1. CASE ~Repeated(m) /\ Cardinality(R) >= 2
    <3>1. MatchedItem(m, R) \in ItemsFor(m)
      BY <1>2, <2>1 DEF ItemsFor
    <3> QED BY <1>2, <3>1 DEF MatchedItem
  <2>2. CASE ~(~Repeated(m) /\ Cardinality(R) >= 2)
    <3>1. UnmatchedItem(m, x[1], x[2]) \in ItemsFor(m)
      BY <1>2, <2>2 DEF ItemsFor
    <3> QED BY <1>2, <3>1 DEF UnmatchedItem
  <2> QED BY <2>1, <2>2
<1> QED BY <1>1, <1>3 DEF MergeInv, YieldInv

\* The items the builder has processed, and the entries it made of them.
Eaten == {out[n] : n \in 1..eaten}
Kept(it) == it.name \notin LocalLabels
Aligned(it) == it.kind = "matched" /\ HasSignal(Surviving(it))
MatchedEntry(it) == [name |-> it.name, vers |-> Surviving(it)]
EntryOf(x) == [name |-> NameOf(x), occ |-> OccurrenceOf(x),
               stream |-> x[1], row |-> x[2], off |-> BodyOf(x)]

MatchedSet == [name : Names, vers : SUBSET (Streams \X Nat)]
UnmatchedSet == [name : Names, occ : 0..(MaxRows - 1), stream : Streams,
                 row : 1..MaxRows, off : Bodies]

BodyInv ==
  /\ body \in [Streams -> Seq(Bodies)]
  /\ \A i \in Streams : Len(body[i]) = Len(rows[i])

EatenInv == eaten \in Nat /\ eaten <= Len(out)

\* The matched arm: one entry for every kept item with signal, none else.
MatchedInv ==
  /\ matched \in Seq(MatchedSet) /\ IsInjective(matched)
  /\ \A a \in DOMAIN matched : \E it \in Eaten :
       Kept(it) /\ Aligned(it) /\ matched[a] = MatchedEntry(it)
  /\ \A it \in Eaten : Kept(it) /\ Aligned(it) =>
       \E a \in DOMAIN matched : matched[a] = MatchedEntry(it)
  /\ \A it \in Eaten : Kept(it) /\ Aligned(it) => Offsets(Surviving(it)) \subseteq matchedBin
  /\ matchedBin \subseteq Bodies \ Oversized

\* The unmatched arm: one entry for every surviving row of the other items.
UnmatchedInv ==
  /\ unmatched \in Seq(UnmatchedSet) /\ IsInjective(unmatched)
  /\ \A a \in DOMAIN unmatched : \E it \in Eaten : \E x \in Surviving(it) :
       Kept(it) /\ ~Aligned(it) /\ unmatched[a] = EntryOf(x)
  /\ \A it \in Eaten : Kept(it) /\ ~Aligned(it) => \A x \in Surviving(it) :
       \E a \in DOMAIN unmatched : unmatched[a] = EntryOf(x)
  /\ \A it \in Eaten : Kept(it) /\ ~Aligned(it) => Offsets(Surviving(it)) \subseteq unmatchedBin
  /\ unmatchedBin \subseteq Bodies \ Oversized

PassInv == BodyInv /\ EatenInv /\ MatchedInv /\ UnmatchedInv

\* The rows of an item that survive the encoder.
LEMMA Survivors ==
  ASSUME MergeInv, BodyInv, NEW n \in DOMAIN out, NEW it, it = out[n]
  PROVE  /\ Surviving(it) \subseteq it.recs /\ IsFiniteSet(Surviving(it))
         /\ Surviving(it) \subseteq Streams \X Nat /\ Surviving(it) \subseteq Nat \X Nat
         /\ \A x \in Surviving(it) : /\ x \in InputRows /\ NameOf(x) = it.name
                                     /\ BodyOf(x) \in Bodies \ Oversized
                                     /\ EntryOf(x) \in UnmatchedSet
         /\ IsFiniteSet(Offsets(Surviving(it))) /\ Offsets(Surviving(it)) \subseteq Bodies \ Oversized
         /\ Cardinality(Offsets(Surviving(it))) \in Nat
<1>1. ItemShape(it) /\ InputInv
  BY ItemFacts DEF MergeInv
<1>2. Surviving(it) \subseteq it.recs /\ IsFiniteSet(Surviving(it))
  BY <1>1, FS_Subset DEF Surviving, ItemShape
<1>3. ASSUME NEW x \in Surviving(it)
      PROVE  /\ x \in InputRows /\ NameOf(x) = it.name /\ BodyOf(x) \in Bodies \ Oversized
             /\ EntryOf(x) \in UnmatchedSet /\ x \in Streams \X Nat /\ x \in Nat \X Nat
  <2>1. x \in InputRows /\ NameOf(x) = it.name
    BY <1>1, <1>2 DEF ItemShape
  <2>2. PICK i \in Streams, k \in Nat :
          x = <<i, k>> /\ k \in 1..Len(rows[i]) /\ k \in 1..MaxRows /\ NameOf(x) \in Names
    BY <1>1, <2>1, RowFacts
  <2>3. body[i] \in Seq(Bodies) /\ Len(body[i]) = Len(rows[i])
    BY DEF BodyInv
  <2>4. BodyOf(x) \in Bodies /\ BodyOf(x) \notin Oversized
    BY <2>2, <2>3 DEF BodyOf, Surviving
  <2> DEFINE T == {j \in 1..(k - 1) : rows[i][j] = rows[i][k]}
  <2>5. IsFiniteSet(1..(k - 1)) /\ Cardinality(1..(k - 1)) = k - 1
    <3>1. 1 \in Int /\ k - 1 \in Int /\ (1 > k - 1 => k - 1 = 0) /\ k - 1 - 1 + 1 = k - 1
      BY <2>2
    <3> QED BY <3>1, FS_Interval
  <2>6. IsFiniteSet(T) /\ Cardinality(T) <= k - 1
    BY <2>5, FS_Subset
  <2>7. Cardinality(T) \in Nat
    BY <2>6, FS_CardinalityType
  <2>8. OccurrenceOf(x) = Cardinality(T)
    BY <2>2 DEF OccurrenceOf
  <2>9. OccurrenceOf(x) \in 0..(MaxRows - 1)
    BY <2>2, <2>6, <2>7, <2>8, LockstepAssumption
  <2>10. i \in Nat
    BY LockstepAssumption DEF Streams
  <2> QED BY <2>1, <2>2, <2>4, <2>9, <2>10 DEF EntryOf, UnmatchedSet
<1>4. PICK S : S = Surviving(it) /\ IsFiniteSet(S)
  BY <1>2
<1>5. IsFiniteSet(Offsets(S))
  <2> DEFINE f == [x \in S |-> BodyOf(x)]
  <2>1. f \in Surjection(S, Offsets(S))
    BY DEF Surjection, Offsets
  <2> QED BY <1>4, <2>1, FS_Surjection
<1>6. Offsets(S) \subseteq Bodies \ Oversized
  BY <1>3, <1>4 DEF Offsets
<1>7. Cardinality(Offsets(S)) \in Nat
  BY <1>5, FS_CardinalityType
<1> QED BY <1>2, <1>3, <1>4, <1>5, <1>6, <1>7

\* Items, entries and offsets depend on the input only.
LEMMA SameBodies ==
  ASSUME rows' = rows, body' = body
  PROVE  /\ BodyInv' <=> BodyInv
         /\ MatchedSet' = MatchedSet /\ UnmatchedSet' = UnmatchedSet
         /\ \A it : /\ Surviving(it)' = Surviving(it)
                    /\ Kept(it)' = Kept(it) /\ Aligned(it)' = Aligned(it)
                    /\ MatchedEntry(it)' = MatchedEntry(it)
                    /\ Offsets(Surviving(it))' = Offsets(Surviving(it))
         /\ \A x : EntryOf(x)' = EntryOf(x)
<1>1. /\ MatchedSet' = MatchedSet /\ UnmatchedSet' = UnmatchedSet
  BY DEF MatchedSet, UnmatchedSet, Streams
<1>2. \A x : BodyOf(x)' = BodyOf(x)
  BY DEF BodyOf
<1>3. \A it : Surviving(it)' = Surviving(it)
  BY <1>2 DEF Surviving
<1>4. \A it : Offsets(Surviving(it))' = Offsets(Surviving(it))
  BY <1>2 DEF Surviving, Offsets, BodyOf
<1>5. \A it : Aligned(it)' = Aligned(it) /\ Kept(it)' = Kept(it)
  BY <1>4 DEF Aligned, HasSignal, Kept
<1>6. \A it : MatchedEntry(it)' = MatchedEntry(it)
  BY <1>3 DEF MatchedEntry
<1>7. \A x : EntryOf(x)' = EntryOf(x)
  BY <1>2 DEF EntryOf, NameOf, OccurrenceOf
<1> QED BY <1>1, <1>3, <1>4, <1>5, <1>6, <1>7 DEF BodyInv, Streams

\* The entries process_unmatched_function appends: one per surviving row.
EntriesOf(q, S) ==
  /\ q \in Seq(UnmatchedSet)
  /\ \A a \in 1..Len(q) : \E x \in S : q[a] = EntryOf(x)
  /\ \A x \in S : \E a \in 1..Len(q) : q[a] = EntryOf(x)
  /\ \A a, b \in 1..Len(q) : q[a] = q[b] => a = b

LEMMA EntriesListed ==
  ASSUME MergeInv, BodyInv, NEW n \in DOMAIN out, NEW it, it = out[n],
         NEW q, q = UnmatchedEntries(it)
  PROVE  EntriesOf(q, Surviving(it))
<1>1. PICK S : /\ S = Surviving(it) /\ IsFiniteSet(S) /\ S \subseteq Nat \X Nat
               /\ \A x \in S : NameOf(x) = it.name /\ EntryOf(x) \in UnmatchedSet
  BY Survivors
<1>2. PICK c \in Nat : c = Cardinality(S)
  BY <1>1, FS_CardinalityType
<1>3. PICK f \in [1..c -> S] :
        /\ f = InRowOrder(S)
        /\ \A a, b \in 1..c : f[a] = f[b] => a = b
        /\ \A x \in S : \E k \in 1..c : f[k] = x
  BY <1>1, <1>2, RowOrder
<1>4. q = [k \in 1..c |-> [name |-> it.name, occ |-> OccurrenceOf(f[k]),
                            stream |-> f[k][1], row |-> f[k][2], off |-> BodyOf(f[k])]]
  BY <1>1, <1>3 DEF UnmatchedEntries
<1>5. \A k \in 1..c : f[k] \in S /\ q[k] = EntryOf(f[k]) /\ q[k] \in UnmatchedSet
  <2>1. ASSUME NEW k \in 1..c
        PROVE  f[k] \in S /\ q[k] = EntryOf(f[k]) /\ q[k] \in UnmatchedSet
    <3>1. f[k] \in S
      BY <1>3
    <3>2. NameOf(f[k]) = it.name /\ EntryOf(f[k]) \in UnmatchedSet
      BY <1>1, <3>1
    <3>3. q[k] = EntryOf(f[k])
      BY <1>4, <3>2 DEF EntryOf
    <3> QED BY <3>1, <3>2, <3>3
  <2> QED BY <2>1
<1>6. q \in Seq(UnmatchedSet) /\ Len(q) = c
  <2>1. DOMAIN q = 1..c /\ q = [k \in 1..c |-> q[k]]
    BY <1>4
  <2> QED BY <1>5, <2>1
<1>7. ASSUME NEW a \in 1..c, NEW b \in 1..c, q[a] = q[b] PROVE a = b
  <2>1. EntryOf(f[a]) = EntryOf(f[b]) /\ f[a] \in Nat \X Nat /\ f[b] \in Nat \X Nat
    BY <1>1, <1>5, <1>7
  <2>2. f[a][1] = f[b][1] /\ f[a][2] = f[b][2]
    BY <2>1 DEF EntryOf
  <2>3. f[a] = f[b]
    BY <2>1, <2>2
  <2> QED BY <1>3, <2>3
<1> QED BY <1>1, <1>3, <1>5, <1>6, <1>7 DEF EntriesOf

\* The merge adds items; those already processed stay what they were.
LEMMA PassWaits ==
  ASSUME PassInv, UNCHANGED passVars, rows' = rows, eaten <= Len(out'), Len(out') \in Nat,
         \A n \in 1..eaten : out'[n] = out[n]
  PROVE  PassInv'
<1>1. PICK E : E = Eaten /\ E = Eaten'
  BY DEF Eaten, passVars
<1>2. /\ body' = body /\ eaten' = eaten /\ matched' = matched /\ unmatched' = unmatched
      /\ matchedBin' = matchedBin /\ unmatchedBin' = unmatchedBin
  BY DEF passVars
<1>3. BodyInv' /\ EatenInv'
  BY <1>2, SameBodies DEF PassInv, EatenInv
<1>4. MatchedInv'
  <2>1. /\ \A a \in DOMAIN matched' : \E it \in E :
             Kept(it)' /\ Aligned(it)' /\ matched'[a] = MatchedEntry(it)'
        /\ \A it \in E : Kept(it)' /\ Aligned(it)' =>
             \E a \in DOMAIN matched' : matched'[a] = MatchedEntry(it)'
        /\ \A it \in E : Kept(it)' /\ Aligned(it)' =>
             Offsets(Surviving(it))' \subseteq matchedBin'
    BY <1>1, <1>2, SameBodies DEF PassInv, MatchedInv
  <2>2. matched' \in Seq(MatchedSet') /\ IsInjective(matched')
    BY <1>2, SameBodies DEF PassInv, MatchedInv
  <2> QED BY <1>1, <1>2, <2>1, <2>2 DEF PassInv, MatchedInv, IsInjective
<1>5. UnmatchedInv'
  <2>1. /\ \A a \in DOMAIN unmatched' : \E it \in E : \E x \in Surviving(it)' :
             Kept(it)' /\ ~Aligned(it)' /\ unmatched'[a] = EntryOf(x)'
        /\ \A it \in E : Kept(it)' /\ ~Aligned(it)' => \A x \in Surviving(it)' :
             \E a \in DOMAIN unmatched' : unmatched'[a] = EntryOf(x)'
        /\ \A it \in E : Kept(it)' /\ ~Aligned(it)' =>
             Offsets(Surviving(it))' \subseteq unmatchedBin'
    BY <1>1, <1>2, SameBodies DEF PassInv, UnmatchedInv
  <2>2. unmatched' \in Seq(UnmatchedSet') /\ IsInjective(unmatched')
    BY <1>2, SameBodies DEF PassInv, UnmatchedInv
  <2> QED BY <1>1, <1>2, <2>1, <2>2 DEF PassInv, UnmatchedInv, IsInjective
<1> QED BY <1>3, <1>4, <1>5 DEF PassInv

\* The builder takes the next item: it shares no row with those before it.
Eats == eaten < Len(out) /\ eaten' = eaten + 1 /\ UNCHANGED mergeVars /\ body' = body

LEMMA OneMore ==
  ASSUME MergeInv, EatenInv, Eats
  PROVE  /\ EatenInv' /\ Eaten' = Eaten \cup {Item} /\ rows' = rows
         /\ eaten + 1 \in DOMAIN out /\ Item = out[eaten + 1]
         /\ \A it \in Eaten : \E n \in DOMAIN out : it = out[n] /\ n # eaten + 1
         /\ \A it \in Eaten : it.recs \cap Item.recs = {}
<1>1. out \in Seq(ItemSet) /\ Len(out) \in Nat /\ DOMAIN out = 1..Len(out)
  BY DEF MergeInv, YieldInv
<1>2. eaten \in Nat /\ eaten <= Len(out) /\ eaten < Len(out) /\ eaten' = eaten + 1 /\ out' = out /\ rows' = rows
  BY DEF EatenInv, Eats, mergeVars
<1>3. eaten + 1 \in DOMAIN out /\ Item = out[eaten + 1]
  BY <1>1, <1>2 DEF Item
<1>4. EatenInv'
  BY <1>1, <1>2 DEF EatenInv
<1>5. Eaten' = Eaten \cup {Item}
  <2>1. 1..(eaten + 1) = (1..eaten) \cup {eaten + 1}
    BY <1>2
  <2>2. Eaten' = {out[n] : n \in 1..(eaten + 1)}
    BY <1>2 DEF Eaten
  <2> QED BY <1>3, <2>1, <2>2 DEF Eaten
<1>6. \A it \in Eaten : \E n \in DOMAIN out : it = out[n] /\ n # eaten + 1
  BY <1>1, <1>2 DEF Eaten
<1>7. ASSUME NEW it \in Eaten, NEW y \in it.recs, y \in Item.recs PROVE FALSE
  <2>1. PICK n \in DOMAIN out : it = out[n] /\ n # eaten + 1
    BY <1>6
  <2> QED BY <1>3, <1>7, <2>1, SharedRow
<1> QED BY <1>2, <1>3, <1>4, <1>5, <1>6, <1>7

\* process_matched_function appends one entry.
LEMMA MatchedGrows ==
  ASSUME MergeInv, PassInv, Eats, Kept(Item), Aligned(Item),
         matched' = Append(matched, MatchedEntry(Item)),
         matchedBin' = matchedBin \cup Offsets(Surviving(Item))
  PROVE  MatchedInv'
<1>1. BodyInv /\ EatenInv /\ MatchedInv /\ body' = body
  BY DEF PassInv, Eats
<1>2. PICK E : E = Eaten
  OBVIOUS
<1>3. PICK new : new = Item
  OBVIOUS
<1>4. /\ Eaten' = E \cup {new} /\ rows' = rows
      /\ eaten + 1 \in DOMAIN out /\ new = out[eaten + 1]
      /\ \A it \in E : it.recs \cap new.recs = {}
      /\ \A it \in E : \E n \in DOMAIN out : it = out[n]
  BY <1>1, <1>2, <1>3, OneMore
<1>5. PICK S : /\ S = Surviving(new) /\ S \subseteq new.recs /\ S \subseteq Streams \X Nat
               /\ IsFiniteSet(Offsets(S)) /\ Offsets(S) \subseteq Bodies \ Oversized
  BY <1>1, <1>4, Survivors
<1>6. PICK s \in S : TRUE
  <2>1. Cardinality(Offsets(S)) > 1
    BY <1>3, <1>5 DEF Aligned, HasSignal
  <2>2. Offsets(S) # {}
    BY <2>1, FS_EmptySet
  <2> QED BY <2>2 DEF Offsets
<1>7. PICK e \in MatchedSet : e = MatchedEntry(new) /\ e.vers = S
  <2>1. new.name \in Names
    BY <1>4, ItemFacts DEF ItemShape
  <2>2. MatchedEntry(new) = [name |-> new.name, vers |-> S]
    BY <1>5 DEF MatchedEntry
  <2> QED BY <1>5, <2>1, <2>2 DEF MatchedSet
<1>8. PICK p, o : p \in Seq(MatchedSet) /\ p = matched /\ o = matched' /\ o = Append(p, e)
  BY <1>1, <1>3, <1>7 DEF MatchedInv
<1>9. /\ Len(p) \in Nat /\ DOMAIN p = 1..Len(p) /\ o \in Seq(MatchedSet)
      /\ DOMAIN o = 1..(Len(p) + 1) /\ o[Len(p) + 1] = e
      /\ \A a \in 1..Len(p) : o[a] = p[a]
  BY <1>8
<1>10. \A a \in DOMAIN o : (a \in DOMAIN p /\ o[a] = p[a]) \/ (a = Len(p) + 1 /\ o[a] = e)
  BY <1>9
<1>11. \A a \in DOMAIN p : p[a] # e
  <2>1. ASSUME NEW a \in DOMAIN p, p[a] = e PROVE FALSE
    <3>1. PICK it \in E : p[a] = MatchedEntry(it)
      BY <1>1, <1>2, <1>8 DEF MatchedInv
    <3>2. Surviving(it) = S
      BY <1>7, <2>1, <3>1 DEF MatchedEntry
    <3>3. PICK n \in DOMAIN out : it = out[n]
      BY <1>4
    <3>4. S \subseteq it.recs
      BY <1>1, <3>2, <3>3, Survivors
    <3> QED BY <1>4, <1>5, <1>6, <3>4
  <2> QED BY <2>1
<1>12. \A a, b \in DOMAIN o : o[a] = o[b] => a = b
  BY <1>1, <1>8, <1>9, <1>10, <1>11 DEF MatchedInv, IsInjective
<1>13. \A a \in DOMAIN o : \E it \in E \cup {new} :
         Kept(it) /\ Aligned(it) /\ o[a] = MatchedEntry(it)
  BY <1>1, <1>2, <1>3, <1>7, <1>8, <1>10 DEF MatchedInv
<1>14. \A it \in E \cup {new} : Kept(it) /\ Aligned(it) =>
         \E a \in DOMAIN o : o[a] = MatchedEntry(it)
  <2>1. \A it \in E : Kept(it) /\ Aligned(it) => \E a \in DOMAIN p : p[a] = MatchedEntry(it)
    BY <1>1, <1>2, <1>8 DEF MatchedInv
  <2>2. \A a \in DOMAIN p : a \in DOMAIN o /\ o[a] = p[a]
    BY <1>9
  <2>3. Len(p) + 1 \in DOMAIN o /\ o[Len(p) + 1] = MatchedEntry(new)
    BY <1>7, <1>9
  <2> QED BY <2>1, <2>2, <2>3
<1>15. \A it \in E \cup {new} : Kept(it) /\ Aligned(it) =>
         Offsets(Surviving(it)) \subseteq matchedBin'
  BY <1>1, <1>2, <1>3 DEF MatchedInv
<1>16. matchedBin' \subseteq Bodies \ Oversized
  BY <1>1, <1>3, <1>5 DEF MatchedInv
<1>17. /\ \A a \in DOMAIN o : \E it \in Eaten' :
             Kept(it)' /\ Aligned(it)' /\ o[a] = MatchedEntry(it)'
       /\ \A it \in Eaten' : Kept(it)' /\ Aligned(it)' =>
             \E a \in DOMAIN o : o[a] = MatchedEntry(it)'
       /\ \A it \in Eaten' : Kept(it)' /\ Aligned(it)' =>
             Offsets(Surviving(it))' \subseteq matchedBin'
  BY <1>1, <1>4, <1>13, <1>14, <1>15, SameBodies
<1>18. o \in Seq(MatchedSet')
  BY <1>1, <1>4, <1>9, SameBodies
<1> QED BY <1>8, <1>12, <1>16, <1>17, <1>18 DEF MatchedInv, IsInjective

\* An item that does not match leaves the matched entries alone; its records
\* may still go to the matched data file (Reroute).
LEMMA MatchedStays ==
  ASSUME MergeInv, PassInv, Eats, ~(Kept(Item) /\ Aligned(Item)),
         matched' = matched, matchedBin \subseteq matchedBin',
         matchedBin' \subseteq Bodies \ Oversized
  PROVE  MatchedInv'
<1>1. BodyInv /\ EatenInv /\ MatchedInv /\ body' = body
  BY DEF PassInv, Eats
<1>2. PICK E, new : E = Eaten /\ new = Item
  OBVIOUS
<1>3. Eaten' = E \cup {new} /\ rows' = rows
  BY <1>1, <1>2, OneMore
<1>4. PICK p : p = matched /\ p = matched' /\ IsInjective(p) /\ p \in Seq(MatchedSet)
  BY <1>1 DEF MatchedInv
<1>5. \A a \in DOMAIN p : \E it \in E \cup {new} :
        Kept(it) /\ Aligned(it) /\ p[a] = MatchedEntry(it)
  BY <1>1, <1>2, <1>4 DEF MatchedInv
<1>6. \A it \in E \cup {new} : Kept(it) /\ Aligned(it) =>
        /\ \E a \in DOMAIN p : p[a] = MatchedEntry(it)
        /\ Offsets(Surviving(it)) \subseteq matchedBin'
  BY <1>1, <1>2, <1>4 DEF MatchedInv
<1>7. /\ \A a \in DOMAIN p : \E it \in Eaten' :
            Kept(it)' /\ Aligned(it)' /\ p[a] = MatchedEntry(it)'
      /\ \A it \in Eaten' : Kept(it)' /\ Aligned(it)' =>
            \E a \in DOMAIN p : p[a] = MatchedEntry(it)'
      /\ \A it \in Eaten' : Kept(it)' /\ Aligned(it)' =>
            Offsets(Surviving(it))' \subseteq matchedBin'
  BY <1>1, <1>3, <1>5, <1>6, SameBodies
<1>8. p \in Seq(MatchedSet')
  BY <1>1, <1>3, <1>4, SameBodies
<1> QED BY <1>4, <1>7, <1>8 DEF MatchedInv, IsInjective

\* An entry says which row it was made of.
LEMMA EntryNamesRow ==
  ASSUME NEW x, NEW y, EntryOf(x) = EntryOf(y)
  PROVE  x[1] = y[1] /\ x[2] = y[2]
<1>1. EntryOf(x).stream = x[1] /\ EntryOf(x).row = x[2]
  BY DEF EntryOf
<1>2. EntryOf(y).stream = y[1] /\ EntryOf(y).row = y[2]
  BY DEF EntryOf
<1> QED BY <1>1, <1>2

\* process_unmatched_function appends one entry per surviving row.
LEMMA UnmatchedGrows ==
  ASSUME MergeInv, PassInv, Eats, Kept(Item), ~Aligned(Item),
         unmatched' = unmatched \o UnmatchedEntries(Item),
         unmatchedBin' = unmatchedBin \cup Offsets(Surviving(Item))
  PROVE  UnmatchedInv'
<1>1. BodyInv /\ EatenInv /\ UnmatchedInv /\ body' = body
  BY DEF PassInv, Eats
<1>2. PICK E, new : E = Eaten /\ new = Item
  OBVIOUS
<1>3. /\ Eaten' = E \cup {new} /\ rows' = rows
      /\ eaten + 1 \in DOMAIN out /\ new = out[eaten + 1]
      /\ \A it \in E : it.recs \cap new.recs = {}
      /\ \A it \in E : \E n \in DOMAIN out : it = out[n]
  BY <1>1, <1>2, OneMore
<1>4. PICK S : /\ S = Surviving(new) /\ S \subseteq new.recs /\ S \subseteq Nat \X Nat
               /\ Offsets(S) \subseteq Bodies \ Oversized
  BY <1>1, <1>3, Survivors
<1>5. PICK q \in Seq(UnmatchedSet) :
        /\ q = UnmatchedEntries(new)
        /\ \A a \in 1..Len(q) : \E x \in S : q[a] = EntryOf(x)
        /\ \A x \in S : \E a \in 1..Len(q) : q[a] = EntryOf(x)
        /\ \A a, b \in 1..Len(q) : q[a] = q[b] => a = b
  <2>1. PICK q : q = UnmatchedEntries(new)
    OBVIOUS
  <2>2. PICK n \in DOMAIN out : new = out[n]
    BY <1>3
  <2>3. EntriesOf(q, S)
    BY <1>1, <1>4, <2>1, <2>2, EntriesListed
  <2> QED BY <2>1, <2>3 DEF EntriesOf
<1>6. PICK p \in Seq(UnmatchedSet), o \in Seq(UnmatchedSet) :
        p = unmatched /\ o = unmatched' /\ o = p \o q
  BY <1>1, <1>2, <1>5, ConcatFacts DEF UnmatchedInv
<1>7. /\ Len(p) \in Nat /\ Len(q) \in Nat /\ DOMAIN p = 1..Len(p)
      /\ DOMAIN o = 1..(Len(p) + Len(q))
      /\ \A n \in 1..Len(p) : o[n] = p[n]
      /\ \A n \in 1..Len(q) : o[Len(p) + n] = q[n]
  BY <1>6, ConcatFacts
<1>8. \A n \in DOMAIN o : \/ n \in DOMAIN p /\ o[n] = p[n]
                          \/ n - Len(p) \in 1..Len(q) /\ o[n] = q[n - Len(p)]
  <2>1. ASSUME NEW n \in DOMAIN o, ~(n \in 1..Len(p))
        PROVE  n - Len(p) \in 1..Len(q) /\ n = Len(p) + (n - Len(p))
    BY <1>7, <2>1
  <2> QED BY <1>7, <2>1
<1>9. \A a \in DOMAIN p, b \in 1..Len(q) : p[a] # q[b]
  <2>1. ASSUME NEW a \in DOMAIN p, NEW b \in 1..Len(q), p[a] = q[b] PROVE FALSE
    <3>1. PICK it \in E : \E x \in Surviving(it) : p[a] = EntryOf(x)
      BY <1>1, <1>2, <1>6 DEF UnmatchedInv
    <3>2. PICK x \in Surviving(it) : p[a] = EntryOf(x)
      BY <3>1
    <3>3. PICK y \in S : q[b] = EntryOf(y)
      BY <1>5
    <3>4. PICK n \in DOMAIN out : it = out[n]
      BY <1>3
    <3>5. x \in it.recs /\ x \in Nat \X Nat
      BY <1>1, <3>2, <3>4, Survivors
    <3>6. x[1] = y[1] /\ x[2] = y[2]
      BY <2>1, <3>2, <3>3, EntryNamesRow
    <3>7. x = y
      BY <1>4, <3>5, <3>6
    <3> QED BY <1>3, <1>4, <3>5, <3>7
  <2> QED BY <2>1
<1>10. \A a, b \in DOMAIN o : o[a] = o[b] => a = b
  <2>1. ASSUME NEW a \in DOMAIN o, NEW b \in DOMAIN o, o[a] = o[b] PROVE a = b
    <3>1. CASE a \in DOMAIN p /\ o[a] = p[a] /\ b \in DOMAIN p /\ o[b] = p[b]
      BY <1>1, <1>6, <2>1, <3>1 DEF UnmatchedInv, IsInjective
    <3>2. CASE a \in DOMAIN p /\ o[a] = p[a] /\ b - Len(p) \in 1..Len(q) /\ o[b] = q[b - Len(p)]
      BY <1>9, <2>1, <3>2
    <3>3. CASE b \in DOMAIN p /\ o[b] = p[b] /\ a - Len(p) \in 1..Len(q) /\ o[a] = q[a - Len(p)]
      BY <1>9, <2>1, <3>3
    <3>4. CASE /\ a - Len(p) \in 1..Len(q) /\ o[a] = q[a - Len(p)]
               /\ b - Len(p) \in 1..Len(q) /\ o[b] = q[b - Len(p)]
      <4>1. a - Len(p) = b - Len(p)
        BY <1>5, <2>1, <3>4
      <4> QED BY <1>7, <4>1
    <3> QED BY <1>8, <3>1, <3>2, <3>3, <3>4
  <2> QED BY <2>1
<1>11. \A a \in DOMAIN o : \E it \in E \cup {new} : \E x \in Surviving(it) :
         Kept(it) /\ ~Aligned(it) /\ o[a] = EntryOf(x)
  <2>1. ASSUME NEW a \in DOMAIN o
        PROVE  \E it \in E \cup {new} : \E x \in Surviving(it) :
                 Kept(it) /\ ~Aligned(it) /\ o[a] = EntryOf(x)
    <3>1. CASE a \in DOMAIN p /\ o[a] = p[a]
      BY <1>1, <1>2, <1>6, <3>1 DEF UnmatchedInv
    <3>2. CASE a - Len(p) \in 1..Len(q) /\ o[a] = q[a - Len(p)]
      <4>1. PICK n \in 1..Len(q) : o[a] = q[n]
        BY <3>2
      <4>2. PICK x \in S : o[a] = EntryOf(x)
        BY <1>5, <4>1
      <4>3. Kept(new) /\ ~Aligned(new) /\ x \in Surviving(new)
        BY <1>2, <1>4, <4>2
      <4> QED BY <4>2, <4>3
    <3> QED BY <1>8, <3>1, <3>2
  <2> QED BY <2>1
<1>12. \A it \in E \cup {new} : Kept(it) /\ ~Aligned(it) => \A x \in Surviving(it) :
         \E a \in DOMAIN o : o[a] = EntryOf(x)
  <2>1. ASSUME NEW x \in S PROVE \E a \in DOMAIN o : o[a] = EntryOf(x)
    <3>1. PICK n \in 1..Len(q) : q[n] = EntryOf(x)
      BY <1>5
    <3>2. Len(p) + n \in DOMAIN o /\ o[Len(p) + n] = EntryOf(x)
      BY <1>7, <3>1
    <3> QED BY <3>2
  <2>2. ASSUME NEW it \in E, Kept(it), ~Aligned(it), NEW x \in Surviving(it)
        PROVE  \E a \in DOMAIN o : o[a] = EntryOf(x)
    <3>1. PICK a \in DOMAIN p : p[a] = EntryOf(x)
      BY <1>1, <1>2, <1>6, <2>2 DEF UnmatchedInv
    <3> QED BY <1>7, <3>1
  <2> QED BY <1>4, <2>1, <2>2
<1>13. \A it \in E \cup {new} : Kept(it) /\ ~Aligned(it) =>
         Offsets(Surviving(it)) \subseteq unmatchedBin'
  BY <1>1, <1>2 DEF UnmatchedInv
<1>14. unmatchedBin' \subseteq Bodies \ Oversized
  BY <1>1, <1>2, <1>4 DEF UnmatchedInv
<1>15. /\ \A a \in DOMAIN o : \E it \in Eaten' : \E x \in Surviving(it)' :
             Kept(it)' /\ ~Aligned(it)' /\ o[a] = EntryOf(x)'
       /\ \A it \in Eaten' : Kept(it)' /\ ~Aligned(it)' => \A x \in Surviving(it)' :
             \E a \in DOMAIN o : o[a] = EntryOf(x)'
       /\ \A it \in Eaten' : Kept(it)' /\ ~Aligned(it)' =>
             Offsets(Surviving(it))' \subseteq unmatchedBin'
  <2>1. /\ \A it : /\ Surviving(it)' = Surviving(it) /\ Kept(it)' = Kept(it)
                   /\ Aligned(it)' = Aligned(it)
                   /\ Offsets(Surviving(it))' = Offsets(Surviving(it))
        /\ \A x : EntryOf(x)' = EntryOf(x)
    BY <1>1, <1>3, SameBodies
  <2>2. \A a \in DOMAIN o : \E it \in Eaten' : \E x \in Surviving(it)' :
          Kept(it)' /\ ~Aligned(it)' /\ o[a] = EntryOf(x)'
    BY <1>3, <1>11, <2>1
  <2>3. \A it \in Eaten' : Kept(it)' /\ ~Aligned(it)' => \A x \in Surviving(it)' :
          \E a \in DOMAIN o : o[a] = EntryOf(x)'
    BY <1>3, <1>12, <2>1
  <2>4. \A it \in Eaten' : Kept(it)' /\ ~Aligned(it)' =>
          Offsets(Surviving(it))' \subseteq unmatchedBin'
    BY <1>3, <1>13, <2>1
  <2> QED BY <2>2, <2>3, <2>4
<1>16. o \in Seq(UnmatchedSet')
  BY <1>1, <1>3, <1>6, SameBodies
<1>17. IsInjective(o)
  BY <1>10 DEF IsInjective
<1> QED BY SMTT(60), <1>6, <1>14, <1>15, <1>16, <1>17 DEF UnmatchedInv

LEMMA UnmatchedStays ==
  ASSUME MergeInv, PassInv, Eats, ~(Kept(Item) /\ ~Aligned(Item)),
         unmatched' = unmatched, unmatchedBin' = unmatchedBin
  PROVE  UnmatchedInv'
<1>1. BodyInv /\ EatenInv /\ UnmatchedInv /\ body' = body
  BY DEF PassInv, Eats
<1>2. PICK E, new : E = Eaten /\ new = Item
  OBVIOUS
<1>3. Eaten' = E \cup {new} /\ rows' = rows
  BY <1>1, <1>2, OneMore
<1>4. PICK p : p = unmatched /\ p = unmatched' /\ IsInjective(p) /\ p \in Seq(UnmatchedSet)
  BY <1>1 DEF UnmatchedInv
<1>5. \A a \in DOMAIN p : \E it \in E \cup {new} : \E x \in Surviving(it) :
        Kept(it) /\ ~Aligned(it) /\ p[a] = EntryOf(x)
  BY <1>1, <1>2, <1>4 DEF UnmatchedInv
<1>6. \A it \in E \cup {new} : Kept(it) /\ ~Aligned(it) =>
        /\ \A x \in Surviving(it) : \E a \in DOMAIN p : p[a] = EntryOf(x)
        /\ Offsets(Surviving(it)) \subseteq unmatchedBin'
  BY <1>1, <1>2, <1>4 DEF UnmatchedInv
<1>7. /\ \A a \in DOMAIN p : \E it \in Eaten' : \E x \in Surviving(it)' :
            Kept(it)' /\ ~Aligned(it)' /\ p[a] = EntryOf(x)'
      /\ \A it \in Eaten' : Kept(it)' /\ ~Aligned(it)' => \A x \in Surviving(it)' :
            \E a \in DOMAIN p : p[a] = EntryOf(x)'
      /\ \A it \in Eaten' : Kept(it)' /\ ~Aligned(it)' =>
            Offsets(Surviving(it))' \subseteq unmatchedBin'
  BY <1>1, <1>3, <1>5, <1>6, SameBodies
<1>8. p \in Seq(UnmatchedSet') /\ unmatchedBin' \subseteq Bodies \ Oversized
  BY <1>1, <1>3, <1>4, SameBodies DEF UnmatchedInv
<1> QED BY <1>4, <1>7, <1>8 DEF UnmatchedInv, IsInjective

LEMMA PassStarts ==
  ASSUME Init
  PROVE  PassInv
<1>1. /\ eaten = 0 /\ matched = <<>> /\ unmatched = <<>> /\ matchedBin = {} /\ unmatchedBin = {}
      /\ out = <<>>
  BY DEF Init, MergeInit
<1>2. BodyInv
  <2>1. /\ body \in [Streams -> SeqOf(Bodies, MaxRows)]
        /\ \A i \in Streams : Len(body[i]) = Len(rows[i])
    BY DEF Init
  <2>2. SeqOf(Bodies, MaxRows) \subseteq Seq(Bodies)
    <3>1. ASSUME NEW q \in SeqOf(Bodies, MaxRows) PROVE q \in Seq(Bodies)
      <4>1. PICK n \in 0..MaxRows : q \in [1..n -> Bodies]
        BY DEF SeqOf
      <4>2. n \in Nat
        BY <4>1, LockstepAssumption
      <4> QED BY <4>1, <4>2
    <3> QED BY <3>1
  <2> QED BY <2>1, <2>2 DEF BodyInv
<1>3. EatenInv /\ Eaten = {}
  <2>1. 1..0 = {}
    OBVIOUS
  <2> QED BY <1>1, <2>1 DEF EatenInv, Eaten
<1>4. MatchedInv
  <2>1. matched \in Seq(MatchedSet) /\ DOMAIN matched = {}
    BY <1>1
  <2> QED BY <1>1, <1>3, <2>1 DEF MatchedInv, IsInjective
<1>5. UnmatchedInv
  <2>1. unmatched \in Seq(UnmatchedSet) /\ DOMAIN unmatched = {}
    BY <1>1
  <2> QED BY <1>1, <1>3, <2>1 DEF UnmatchedInv, IsInjective
<1> QED BY <1>2, <1>3, <1>4, <1>5 DEF PassInv

\* Every operation keeps the entries in step with the items processed.
LEMMA PassStep ==
  ASSUME MergeInv, MergeInv', PassInv, [Next]_vars
  PROVE  PassInv'
<1>1. BodyInv /\ EatenInv /\ MatchedInv /\ UnmatchedInv
  BY DEF PassInv
<1>2. out \in Seq(ItemSet) /\ Len(out) \in Nat
  BY DEF MergeInv, YieldInv
<1>3. ASSUME UNCHANGED vars PROVE PassInv'
  <2>1. UNCHANGED passVars /\ rows' = rows /\ out' = out
    BY <1>3 DEF vars, mergeVars
  <2> QED BY <1>1, <1>2, <2>1, PassWaits DEF EatenInv
<1>4. ASSUME Advance PROVE PassInv'
  <2>1. UNCHANGED passVars /\ eaten = Len(out)
    BY <1>4 DEF Advance
  <2>2. CASE Seed
    <3>1. rows' = rows /\ out' = out
      BY <2>2 DEF Seed
    <3> QED BY <1>1, <1>2, <2>1, <3>1, PassWaits DEF EatenInv
  <2>3. CASE Stop
    <3>1. rows' = rows /\ out' = out
      BY <2>3 DEF Stop
    <3> QED BY <1>1, <1>2, <2>1, <3>1, PassWaits DEF EatenInv
  <2>4. CASE Merge
    <3>1. rows' = rows /\ out' = out \o Yielded(MinName)
      BY <2>4 DEF Merge, Yielded
    <3>2. Yielded(MinName) \in Seq(ItemSet)
      BY <2>4, TurnItems DEF Merge, MergeInv
    <3>3. /\ Len(out') \in Nat /\ Len(out) <= Len(out')
          /\ \A n \in 1..Len(out) : out'[n] = out[n]
      BY <1>2, <3>1, <3>2, ConcatFacts
    <3> QED BY <2>1, <3>1, <3>3, PassWaits
  <2> QED BY <1>4, <2>2, <2>3, <2>4 DEF Advance, MergeSteps
<1>5. ASSUME Eats PROVE EatenInv' /\ BodyInv'
  <2>1. body' = body /\ rows' = rows
    BY <1>5 DEF Eats, mergeVars
  <2> QED BY <1>1, <1>5, <2>1, OneMore, SameBodies
<1>6. ASSUME eaten < Len(out) PROVE Offsets(Surviving(Item)) \subseteq Bodies \ Oversized
  <2>1. PICK n \in DOMAIN out : Item = out[n]
    BY <1>1, <1>2, <1>6 DEF EatenInv, Item
  <2> QED BY <1>1, <2>1, Survivors
<1>7. ASSUME DropLabel PROVE PassInv'
  <2>1. /\ Eats /\ ~Kept(Item) /\ matched' = matched /\ unmatched' = unmatched
        /\ matchedBin' = matchedBin /\ unmatchedBin' = unmatchedBin
    BY <1>7 DEF DropLabel, Eats, Kept
  <2>2. MatchedInv' /\ UnmatchedInv'
    BY <1>1, <2>1, MatchedStays, UnmatchedStays DEF MatchedInv
  <2> QED BY <1>5, <2>1, <2>2 DEF PassInv
<1>8. ASSUME TakeMatched PROVE PassInv'
  <2>1. /\ Eats /\ Kept(Item) /\ Aligned(Item) /\ matched' = Append(matched, MatchedEntry(Item))
        /\ matchedBin' = matchedBin \cup Offsets(Surviving(Item))
        /\ unmatched' = unmatched /\ unmatchedBin' = unmatchedBin
    BY <1>8 DEF TakeMatched, Eats, Kept, Aligned, MatchedEntry
  <2>2. MatchedInv' /\ UnmatchedInv'
    BY <2>1, MatchedGrows, UnmatchedStays
  <2> QED BY <1>5, <2>1, <2>2 DEF PassInv
<1>9. ASSUME Reroute PROVE PassInv'
  <2>1. /\ Eats /\ Kept(Item) /\ ~Aligned(Item) /\ eaten < Len(out) /\ matched' = matched
        /\ matchedBin' = matchedBin \cup Offsets(Surviving(Item))
        /\ unmatched' = unmatched \o UnmatchedEntries(Item)
        /\ unmatchedBin' = unmatchedBin \cup Offsets(Surviving(Item))
    BY <1>9 DEF Reroute, ToUnmatched, Eats, Kept, Aligned
  <2>2. matchedBin \subseteq matchedBin' /\ matchedBin' \subseteq Bodies \ Oversized
    BY <1>1, <1>6, <2>1 DEF MatchedInv
  <2>3. MatchedInv' /\ UnmatchedInv'
    BY <2>1, <2>2, MatchedStays, UnmatchedGrows
  <2> QED BY <1>5, <2>1, <2>3 DEF PassInv
<1>10. ASSUME TakeUnmatched PROVE PassInv'
  <2>1. /\ Eats /\ Kept(Item) /\ ~Aligned(Item) /\ matched' = matched /\ matchedBin' = matchedBin
        /\ unmatched' = unmatched \o UnmatchedEntries(Item)
        /\ unmatchedBin' = unmatchedBin \cup Offsets(Surviving(Item))
    BY <1>10 DEF TakeUnmatched, ToUnmatched, Eats, Kept, Aligned
  <2>2. MatchedInv' /\ UnmatchedInv'
    BY <1>1, <2>1, MatchedStays, UnmatchedGrows DEF MatchedInv
  <2> QED BY <1>5, <2>1, <2>2 DEF PassInv
<1> QED BY <1>3, <1>4, <1>7, <1>8, <1>9, <1>10 DEF Next, Terminated

LEMMA PassInvHolds == Spec => [](MergeInv /\ PassInv)
<1>1. Init => PassInv
  BY PassStarts
<1>2. MergeInv /\ MergeInv' /\ PassInv /\ [Next]_vars => PassInv'
  BY PassStep
<1> QED BY <1>1, <1>2, MergeInvHolds, PTL DEF Spec

(* ----------------------------- the contract ------------------------------ *)

LEMMA MatchedFrom ==
  ASSUME MergeInv, PassInv, NEW a \in DOMAIN matched
  PROVE  \E n \in DOMAIN out :
           /\ out[n] \in Eaten /\ Kept(out[n]) /\ Aligned(out[n])
           /\ matched[a] = MatchedEntry(out[n])
           /\ matched[a].name = out[n].name /\ matched[a].vers = Surviving(out[n])
<1>1. PICK it \in Eaten : Kept(it) /\ Aligned(it) /\ matched[a] = MatchedEntry(it)
  BY DEF PassInv, MatchedInv
<1>2. PICK n \in DOMAIN out : it = out[n]
  <2>1. out \in Seq(ItemSet) /\ eaten \in Nat /\ eaten <= Len(out)
    BY DEF MergeInv, YieldInv, PassInv, EatenInv
  <2>2. 1..eaten \subseteq DOMAIN out
    BY <2>1
  <2> QED BY <2>2 DEF Eaten
<1>3. matched[a].name = it.name /\ matched[a].vers = Surviving(it)
  BY <1>1 DEF MatchedEntry
<1> QED BY <1>1, <1>2, <1>3

LEMMA UnmatchedFrom ==
  ASSUME MergeInv, PassInv, NEW a \in DOMAIN unmatched
  PROVE  \E n \in DOMAIN out : \E x \in Surviving(out[n]) :
           /\ out[n] \in Eaten /\ Kept(out[n]) /\ ~Aligned(out[n])
           /\ unmatched[a] = EntryOf(x) /\ x = <<x[1], x[2]>>
           /\ x \in InputRows /\ x \in out[n].recs /\ NameOf(x) = out[n].name
           /\ unmatched[a].name = out[n].name /\ unmatched[a].occ = OccurrenceOf(x)
           /\ unmatched[a].stream = x[1] /\ unmatched[a].row = x[2]
<1>1. PICK it \in Eaten : \E x \in Surviving(it) :
        Kept(it) /\ ~Aligned(it) /\ unmatched[a] = EntryOf(x)
  BY DEF PassInv, UnmatchedInv
<1>2. PICK n \in DOMAIN out : it = out[n]
  <2>1. out \in Seq(ItemSet) /\ eaten \in Nat /\ eaten <= Len(out)
    BY DEF MergeInv, YieldInv, PassInv, EatenInv
  <2>2. 1..eaten \subseteq DOMAIN out
    BY <2>1
  <2> QED BY <2>2 DEF Eaten
<1>3. PICK x \in Surviving(it) : Kept(it) /\ ~Aligned(it) /\ unmatched[a] = EntryOf(x)
  BY <1>1
<1>4. x \in InputRows /\ x \in it.recs /\ NameOf(x) = it.name
  BY <1>2, <1>3, Survivors DEF PassInv
<1>5. x = <<x[1], x[2]>>
  BY <1>4, RowFacts DEF MergeInv
<1>6. /\ unmatched[a].name = NameOf(x) /\ unmatched[a].occ = OccurrenceOf(x)
      /\ unmatched[a].stream = x[1] /\ unmatched[a].row = x[2]
  BY <1>3 DEF EntryOf
<1> QED BY <1>1, <1>2, <1>3, <1>4, <1>5, <1>6

\* Two rows of one stream and one name have different occurrences.
LEMMA OccurrencesDiffer ==
  ASSUME InputInv, NEW x \in InputRows, NEW y \in InputRows,
         x[1] = y[1], x[2] < y[2], NameOf(x) = NameOf(y)
  PROVE  OccurrenceOf(x) # OccurrenceOf(y)
<1>1. PICK i, k, l : /\ i \in Streams /\ k \in Nat /\ l \in Nat /\ x = <<i, k>> /\ y = <<i, l>>
                     /\ k \in 1..Len(rows[i]) /\ l \in 1..Len(rows[i])
                     /\ k < l /\ rows[i][k] = rows[i][l]
  <2>1. x[1] \in Streams /\ x[2] \in 1..Len(rows[x[1]]) /\ x = <<x[1], x[2]>> /\ x[2] \in Nat
    BY RowFacts
  <2>2. y[1] \in Streams /\ y[2] \in 1..Len(rows[y[1]]) /\ y = <<y[1], y[2]>> /\ y[2] \in Nat
    BY RowFacts
  <2>3. rows[x[1]][x[2]] = rows[y[1]][y[2]]
    BY DEF NameOf
  <2> QED BY <2>1, <2>2, <2>3
<1> DEFINE T(j) == {h \in 1..(j - 1) : rows[i][h] = rows[i][j]}
<1>2. OccurrenceOf(x) = Cardinality(T(k)) /\ OccurrenceOf(y) = Cardinality(T(l))
  BY <1>1 DEF OccurrenceOf
<1>3. IsFiniteSet(T(k)) /\ IsFiniteSet(T(l))
  <2>1. 1 \in Int /\ k - 1 \in Int /\ l - 1 \in Int
    BY <1>1
  <2>2. IsFiniteSet(1..(k - 1)) /\ IsFiniteSet(1..(l - 1))
    BY <2>1, FS_Interval
  <2> QED BY <2>2, FS_Subset
<1>4. T(k) \subseteq T(l) /\ k \in T(l) /\ k \notin T(k)
  BY <1>1
<1>5. T(k) # T(l)
  BY <1>4
<1> HIDE DEF T
<1>6. Cardinality(T(k)) # Cardinality(T(l))
  BY <1>3, <1>4, <1>5, FS_Subset
<1> QED BY <1>2, <1>6

\* A name no stream repeats has one row per stream, and its occurrence is 0.
LEMMA OneRowEach ==
  ASSUME InputInv, NEW x \in InputRows, ~Repeated(NameOf(x))
  PROVE  /\ OccurrenceOf(x) = 0
         /\ \A y \in InputRows : y[1] = x[1] /\ NameOf(y) = NameOf(x) => y = x
<1>1. PICK i, k : /\ i \in Streams /\ k \in Nat /\ x = <<i, k>> /\ k \in 1..Len(rows[i])
  BY RowFacts
<1>2. PICK m : m = NameOf(x) /\ m = rows[i][k]
  BY <1>1 DEF NameOf
<1>3. PICK T : T = RowsOf(i, m) /\ IsFiniteSet(T) /\ k \in T
  <2>1. IsFiniteSet(RowsOf(i, m))
    BY <1>1, Named
  <2>2. k \in RowsOf(i, m)
    BY <1>1, <1>2 DEF RowsOf
  <2> QED BY <2>1, <2>2
<1>4. Cardinality(T) \in Nat /\ ~(Cardinality(T) >= 2)
  BY <1>1, <1>2, <1>3, FS_CardinalityType DEF Repeated
<1>5. ASSUME NEW h \in T PROVE h = k
  <2>1. ASSUME h # k PROVE FALSE
    <3>1. IsFiniteSet(T \ {k}) /\ Cardinality(T \ {k}) = Cardinality(T) - 1
      BY <1>3, FS_RemoveElement
    <3>2. Cardinality(T \ {k}) # 0 /\ Cardinality(T \ {k}) \in Nat
      BY <1>5, <2>1, <3>1, FS_EmptySet, FS_CardinalityType
    <3> QED BY <1>4, <3>1, <3>2
  <2> QED BY <2>1
<1>6. ASSUME NEW y \in InputRows, y[1] = x[1], NameOf(y) = NameOf(x) PROVE y = x
  <2>1. y = <<y[1], y[2]>> /\ y[2] \in 1..Len(rows[y[1]])
    BY RowFacts
  <2>2. y[1] = i /\ rows[i][y[2]] = m
    BY <1>1, <1>2, <1>6 DEF NameOf
  <2>3. y[2] \in T
    BY <1>3, <2>1, <2>2 DEF RowsOf
  <2> QED BY <1>1, <1>5, <2>1, <2>2, <2>3
<1>7. {h \in 1..(k - 1) : rows[i][h] = rows[i][k]} = {}
  <2>1. ASSUME NEW h \in 1..(k - 1), rows[i][h] = rows[i][k] PROVE FALSE
    <3>1. Len(rows[i]) \in Nat
      BY <1>1, RowFacts
    <3>2. h \in 1..Len(rows[i]) /\ h # k
      BY <1>1, <2>1, <3>1
    <3>3. h \in T
      BY <1>2, <1>3, <2>1, <3>2 DEF RowsOf
    <3> QED BY <1>5, <3>2, <3>3
  <2> QED BY <2>1
<1>8. OccurrenceOf(x) = 0
  BY <1>1, <1>7, FS_EmptySet DEF OccurrenceOf
<1> QED BY <1>6, <1>8

LEMMA Pass1Types ==
  ASSUME MergeInv, PassInv
  PROVE  TypeOK
<1>1. InputInv /\ CursorInv /\ YieldInv /\ BodyInv /\ EatenInv /\ MatchedInv /\ UnmatchedInv
  BY DEF MergeInv, PassInv
<1>2. current \in [Streams -> 0..MaxRows]
  <2>1. ASSUME NEW i \in Streams PROVE current[i] \in 0..MaxRows
    <3>1. current[i] \in Nat /\ current[i] <= Len(rows[i]) /\ Len(rows[i]) \in Nat
          /\ Len(rows[i]) <= MaxRows
      BY <1>1, RowFacts DEF CursorInv, InputInv
    <3> QED BY <3>1, LockstepAssumption
  <2> QED BY <1>1, <2>1 DEF CursorInv
<1>3. eaten \in 0..Len(out) /\ \A n \in DOMAIN out : out[n].kind \in {"matched", "unmatched"}
  <2>1. Len(out) \in Nat
    BY <1>1 DEF YieldInv
  <2>2. \A n \in DOMAIN out : out[n].kind \in {"matched", "unmatched"}
    BY ItemFacts DEF ItemShape
  <2> QED BY <1>1, <2>1, <2>2 DEF EatenInv
<1>4. ASSUME NEW a \in DOMAIN matched
      PROVE  matched[a].vers \in SUBSET (Streams \X (1..MaxRows))
  <2>1. PICK n \in DOMAIN out : matched[a].vers = Surviving(out[n])
    BY MatchedFrom
  <2>2. ASSUME NEW x \in matched[a].vers PROVE x \in Streams \X (1..MaxRows)
    <3>1. x \in InputRows
      BY <1>1, <2>1, Survivors
    <3>2. x[1] \in Streams /\ x[2] \in 1..MaxRows /\ x = <<x[1], x[2]>>
      BY <1>1, <3>1, RowFacts
    <3> QED BY <3>2
  <2> QED BY <2>2
<1>5. \A a \in DOMAIN unmatched : unmatched[a].occ \in 0..(MaxRows - 1)
  <2>1. \A a \in DOMAIN unmatched : unmatched[a] \in UnmatchedSet
    BY <1>1 DEF UnmatchedInv
  <2> QED BY <2>1 DEF UnmatchedSet
<1>6. matchedBin \cup unmatchedBin \subseteq Bodies \ Oversized
  BY <1>1 DEF MatchedInv, UnmatchedInv
<1>7. pc \in {"seed", "merge", "done"} /\ duplicated \subseteq Names
  BY <1>1 DEF CursorInv, YieldInv
<1> QED BY <1>1, <1>2, <1>3, <1>4, <1>5, <1>6, <1>7 DEF TypeOK, InputInv, BodyInv

LEMMA MatchedAligned ==
  ASSUME MergeInv, PassInv
  PROVE  MatchedIsAligned
<1>1. SUFFICES ASSUME NEW a \in DOMAIN matched
      PROVE  /\ \A x, y \in matched[a].vers : x[1] = y[1] => x = y
             /\ Cardinality(Offsets(matched[a].vers)) >= 2
             /\ ~Repeated(matched[a].name)
  BY DEF MatchedIsAligned
<1>2. PICK n \in DOMAIN out :
        Aligned(out[n]) /\ matched[a].name = out[n].name /\ matched[a].vers = Surviving(out[n])
  BY MatchedFrom
<1>3. PICK it : it = out[n] /\ ItemShape(it)
  BY ItemFacts
<1>4. it.kind = "matched" /\ HasSignal(Surviving(it)) /\ ~Repeated(it.name)
  BY <1>2, <1>3 DEF Aligned, ItemShape
<1>5. /\ Cardinality(Offsets(Surviving(it))) \in Nat
      /\ \A x \in Surviving(it) : x \in InputRows /\ NameOf(x) = it.name
  BY <1>3, Survivors DEF PassInv
<1>6. Cardinality(Offsets(Surviving(it))) >= 2
  BY <1>4, <1>5 DEF HasSignal
<1>7. ASSUME NEW x \in Surviving(it), NEW y \in Surviving(it), x[1] = y[1] PROVE x = y
  <2>1. x \in InputRows /\ y \in InputRows /\ NameOf(x) = NameOf(y) /\ ~Repeated(NameOf(x))
    BY <1>4, <1>5
  <2> QED BY <1>7, <2>1, OneRowEach DEF MergeInv
<1> QED BY <1>2, <1>3, <1>4, <1>6, <1>7

LEMMA Addressable ==
  ASSUME MergeInv, PassInv
  PROVE  SectionsAddressable
<1>1. ASSUME NEW a \in DOMAIN matched, NEW b \in DOMAIN matched,
             matched[a].name = matched[b].name
      PROVE  a = b
  <2>1. PICK n \in DOMAIN out : /\ Aligned(out[n]) /\ matched[a].name = out[n].name
                                /\ matched[a] = MatchedEntry(out[n])
    BY MatchedFrom
  <2>2. PICK m \in DOMAIN out : /\ Aligned(out[m]) /\ matched[b].name = out[m].name
                                /\ matched[b] = MatchedEntry(out[m])
    BY MatchedFrom
  <2>3. n = m
    BY <1>1, <2>1, <2>2, MatchedAlone DEF Aligned
  <2> QED BY <2>1, <2>2, <2>3 DEF PassInv, MatchedInv, IsInjective
<1>2. ASSUME NEW a \in DOMAIN matched, NEW b \in DOMAIN unmatched
      PROVE  matched[a].name # unmatched[b].name
  <2>1. PICK n \in DOMAIN out : Aligned(out[n]) /\ matched[a].name = out[n].name
    BY MatchedFrom
  <2>2. PICK m \in DOMAIN out : ~Aligned(out[m]) /\ unmatched[b].name = out[m].name
    BY UnmatchedFrom
  <2> QED BY <2>1, <2>2, MatchedAlone DEF Aligned
<1>3. ASSUME NEW a \in DOMAIN unmatched, NEW b \in DOMAIN unmatched,
             unmatched[a].name = unmatched[b].name, unmatched[a].occ # unmatched[b].occ
      PROVE  unmatched[a].name \in duplicated
  <2>1. PICK n \in DOMAIN out : \E x \in Surviving(out[n]) :
          /\ x \in InputRows /\ NameOf(x) = out[n].name
          /\ unmatched[a].name = out[n].name /\ unmatched[a].occ = OccurrenceOf(x)
    BY UnmatchedFrom
  <2>2. PICK x \in InputRows : unmatched[a].name = NameOf(x) /\ unmatched[a].occ = OccurrenceOf(x)
    BY <2>1
  <2>3. PICK m \in DOMAIN out : \E y \in Surviving(out[m]) :
          /\ y \in InputRows /\ NameOf(y) = out[m].name
          /\ unmatched[b].name = out[m].name /\ unmatched[b].occ = OccurrenceOf(y)
    BY UnmatchedFrom
  <2>4. PICK y \in InputRows : unmatched[b].name = NameOf(y) /\ unmatched[b].occ = OccurrenceOf(y)
    BY <2>3
  <2>5. Repeated(unmatched[a].name)
    <3>1. ASSUME ~Repeated(unmatched[a].name) PROVE FALSE
      <4>1. OccurrenceOf(x) = 0 /\ OccurrenceOf(y) = 0
        BY <1>3, <2>2, <2>4, <3>1, OneRowEach DEF MergeInv
      <4> QED BY <1>3, <2>2, <2>4, <4>1
    <3> QED BY <3>1
  <2>6. unmatched[a].name \in Names /\ \E z \in Read : NameOf(z) = unmatched[a].name
    BY <2>1, ItemFacts DEF ItemShape
  <2> QED BY <2>5, <2>6 DEF MergeInv, YieldInv
<1>4. ASSUME NEW a \in DOMAIN unmatched, NEW b \in DOMAIN unmatched,
             unmatched[a].name = unmatched[b].name, unmatched[a].occ = unmatched[b].occ,
             unmatched[a].stream = unmatched[b].stream
      PROVE  a = b
  <2>1. PICK x \in InputRows : /\ unmatched[a] = EntryOf(x) /\ unmatched[a].name = NameOf(x)
                               /\ unmatched[a].occ = OccurrenceOf(x)
                               /\ unmatched[a].stream = x[1]
    <3>1. PICK n \in DOMAIN out : \E x \in Surviving(out[n]) :
            /\ unmatched[a] = EntryOf(x) /\ x \in InputRows /\ NameOf(x) = out[n].name
            /\ unmatched[a].name = out[n].name /\ unmatched[a].occ = OccurrenceOf(x)
            /\ unmatched[a].stream = x[1]
      BY UnmatchedFrom
    <3> QED BY <3>1
  <2>2. PICK y \in InputRows : /\ unmatched[b] = EntryOf(y) /\ unmatched[b].name = NameOf(y)
                               /\ unmatched[b].occ = OccurrenceOf(y)
                               /\ unmatched[b].stream = y[1]
    <3>1. PICK n \in DOMAIN out : \E z \in Surviving(out[n]) :
            /\ unmatched[b] = EntryOf(z) /\ z \in InputRows /\ NameOf(z) = out[n].name
            /\ unmatched[b].name = out[n].name /\ unmatched[b].occ = OccurrenceOf(z)
            /\ unmatched[b].stream = z[1]
      BY UnmatchedFrom
    <3> QED BY <3>1
  <2>3. /\ x[2] \in 1..Len(rows[x[1]]) /\ y[2] \in 1..Len(rows[y[1]])
        /\ x = <<x[1], x[2]>> /\ y = <<y[1], y[2]>>
    BY RowFacts DEF MergeInv
  <2>4. ~(x[2] < y[2]) /\ ~(y[2] < x[2])
    BY <1>4, <2>1, <2>2, OccurrencesDiffer DEF MergeInv
  <2>5. x[1] = y[1] /\ x[2] = y[2]
    BY <1>4, <2>1, <2>2, <2>3, <2>4
  <2>6. unmatched[a] = unmatched[b]
    BY <2>1, <2>2, <2>3, <2>5
  <2> QED BY <2>6 DEF PassInv, UnmatchedInv, IsInjective
<1>5. \A a \in DOMAIN matched : \A s \in UnmatchedSections : matched[a].name # s.name
  BY <1>2 DEF UnmatchedSections
<1>6. \A s, t \in UnmatchedSections : s.name = t.name /\ s # t => s.name \in duplicated
  <2>1. ASSUME NEW s \in UnmatchedSections, NEW t \in UnmatchedSections, s.name = t.name, s # t
        PROVE  s.name \in duplicated
    <3>1. PICK a \in DOMAIN unmatched : s = [name |-> unmatched[a].name, occ |-> unmatched[a].occ]
      BY DEF UnmatchedSections
    <3>2. PICK b \in DOMAIN unmatched : t = [name |-> unmatched[b].name, occ |-> unmatched[b].occ]
      BY DEF UnmatchedSections
    <3> QED BY <1>3, <2>1, <3>1, <3>2
  <2> QED BY <2>1
<1> QED BY <1>1, <1>4, <1>5, <1>6, Pass1Types, MatchedAligned DEF SectionsAddressable

\* The entries of one row are those of the one item that holds it.
LEMMA RowEntries ==
  ASSUME MergeInv, PassInv, NEW n \in DOMAIN out, NEW x \in out[n].recs, out[n] \in Eaten
  PROVE  /\ ~(Kept(out[n]) /\ BodyOf(x) \notin Oversized) =>
              AsMatched(x) = {} /\ AsUnmatched(x) = {}
         /\ Kept(out[n]) /\ BodyOf(x) \notin Oversized =>
              \/ /\ \E a : AsMatched(x) = {a}
                 /\ AsUnmatched(x) = {} /\ BodyOf(x) \in matchedBin
              \/ /\ \E a : AsUnmatched(x) = {a}
                 /\ AsMatched(x) = {} /\ BodyOf(x) \in unmatchedBin
<1>1. MatchedInv /\ UnmatchedInv /\ BodyInv /\ InputInv
  BY DEF PassInv, MergeInv
<1>2. PICK it : it = out[n] /\ ItemShape(it) /\ it \in Eaten
  BY ItemFacts
<1>3. x \in InputRows /\ x = <<x[1], x[2]>>
  BY <1>1, <1>2, RowFacts DEF ItemShape
<1>4. ASSUME NEW a \in AsMatched(x)
      PROVE  /\ a \in DOMAIN matched /\ x \in Surviving(it) /\ Kept(it) /\ Aligned(it)
             /\ matched[a] = MatchedEntry(it)
  <2>1. a \in DOMAIN matched /\ x \in matched[a].vers
    BY DEF AsMatched
  <2>2. PICK m \in DOMAIN out : /\ Kept(out[m]) /\ Aligned(out[m])
                                /\ matched[a] = MatchedEntry(out[m])
                                /\ matched[a].vers = Surviving(out[m])
    BY <2>1, MatchedFrom
  <2>3. x \in out[m].recs
    BY <1>1, <2>1, <2>2, Survivors
  <2>4. m = n
    BY <2>3, SharedRow
  <2> QED BY <1>2, <2>1, <2>2, <2>4
<1>5. ASSUME NEW a \in AsUnmatched(x)
      PROVE  /\ a \in DOMAIN unmatched /\ x \in Surviving(it) /\ Kept(it) /\ ~Aligned(it)
             /\ unmatched[a] = EntryOf(x)
  <2>1. a \in DOMAIN unmatched /\ unmatched[a].stream = x[1] /\ unmatched[a].row = x[2]
    BY DEF AsUnmatched
  <2>2. PICK m \in DOMAIN out : \E y \in Surviving(out[m]) :
          /\ Kept(out[m]) /\ ~Aligned(out[m]) /\ unmatched[a] = EntryOf(y)
          /\ y = <<y[1], y[2]>> /\ y \in out[m].recs
          /\ unmatched[a].stream = y[1] /\ unmatched[a].row = y[2]
    BY <2>1, UnmatchedFrom
  <2>3. PICK y \in Surviving(out[m]) :
          /\ Kept(out[m]) /\ ~Aligned(out[m]) /\ unmatched[a] = EntryOf(y)
          /\ y = <<y[1], y[2]>> /\ y \in out[m].recs
          /\ unmatched[a].stream = y[1] /\ unmatched[a].row = y[2]
    BY <2>2
  <2>4. y = x
    BY <1>3, <2>1, <2>3
  <2>5. m = n
    BY <2>3, <2>4, SharedRow
  <2> QED BY <1>2, <2>1, <2>3, <2>4, <2>5
<1>6. ASSUME ~(Kept(it) /\ BodyOf(x) \notin Oversized)
      PROVE  AsMatched(x) = {} /\ AsUnmatched(x) = {}
  <2>1. x \in Surviving(it) => BodyOf(x) \notin Oversized
    BY DEF Surviving
  <2> QED BY <1>4, <1>5, <1>6, <2>1
<1>7. ASSUME Kept(it), BodyOf(x) \notin Oversized
      PROVE  \/ /\ \E a : AsMatched(x) = {a}
                /\ AsUnmatched(x) = {} /\ BodyOf(x) \in matchedBin
             \/ /\ \E a : AsUnmatched(x) = {a}
                /\ AsMatched(x) = {} /\ BodyOf(x) \in unmatchedBin
  <2>1. x \in Surviving(it) /\ BodyOf(x) \in Offsets(Surviving(it))
    BY <1>2, <1>7 DEF Surviving, Offsets
  <2>2. CASE Aligned(it)
    <3>1. PICK a \in DOMAIN matched : matched[a] = MatchedEntry(it)
      BY <1>1, <1>2, <1>7, <2>2 DEF MatchedInv
    <3>2. a \in AsMatched(x)
      BY <2>1, <3>1 DEF AsMatched, MatchedEntry
    <3>3. \A b \in AsMatched(x) : b = a
      BY <1>1, <1>4, <3>1 DEF MatchedInv, IsInjective
    <3>4. AsMatched(x) = {a}
      BY <3>2, <3>3
    <3>5. AsUnmatched(x) = {}
      BY <1>5, <2>2
    <3>6. BodyOf(x) \in matchedBin
      BY <1>1, <1>2, <1>7, <2>1, <2>2 DEF MatchedInv
    <3> QED BY <3>4, <3>5, <3>6
  <2>3. CASE ~Aligned(it)
    <3>1. PICK a \in DOMAIN unmatched : unmatched[a] = EntryOf(x)
      BY <1>1, <1>2, <1>7, <2>1, <2>3 DEF UnmatchedInv
    <3>2. a \in AsUnmatched(x)
      BY <3>1 DEF AsUnmatched, EntryOf
    <3>3. \A b \in AsUnmatched(x) : b = a
      BY <1>1, <1>5, <3>1 DEF UnmatchedInv, IsInjective
    <3>4. AsUnmatched(x) = {a}
      BY <3>2, <3>3
    <3>5. AsMatched(x) = {}
      BY <1>4, <2>3
    <3>6. BodyOf(x) \in unmatchedBin
      BY <1>1, <1>2, <1>7, <2>1, <2>3 DEF UnmatchedInv
    <3> QED BY <3>4, <3>5, <3>6
  <2> QED BY <2>2, <2>3
<1> QED BY <1>2, <1>6, <1>7

LEMMA RowsAccounted ==
  ASSUME MergeInv, PassInv
  PROVE  EveryRowOnce
<1>1. SUFFICES ASSUME Finished, NEW x \in Streams \X (1..MaxRows), x[2] <= Len(rows[x[1]])
      PROVE  IF rows[x[1]][x[2]] \in LocalLabels \/ BodyOf(x) \in Oversized
               THEN AsMatched(x) = {} /\ AsUnmatched(x) = {}
               ELSE /\ Cardinality(AsMatched(x)) + Cardinality(AsUnmatched(x)) = 1
                    /\ AsMatched(x) # {} => BodyOf(x) \in matchedBin
                    /\ AsUnmatched(x) # {} => BodyOf(x) \in unmatchedBin
  BY DEF EveryRowOnce
<1>2. InputInv /\ CursorInv /\ YieldInv /\ pc = "done" /\ eaten = Len(out)
  BY <1>1 DEF MergeInv, Finished
<1>3. x \in Read
  <2>1. x[1] \in Streams /\ x[2] \in 1..MaxRows /\ x = <<x[1], x[2]>>
    BY <1>1
  <2>2. /\ Len(rows[x[1]]) \in Nat /\ x[2] \in 1..Len(rows[x[1]])
    BY <1>1, <1>2, <2>1, RowFacts, LockstepAssumption
  <2>3. x \in InputRows
    BY <1>2, <2>1, <2>2, RowFacts
  <2>4. Passed(x[1]) = Len(rows[x[1]])
    BY <1>2, <2>1 DEF Passed, CursorInv
  <2> QED BY <1>1, <2>3, <2>4 DEF Read
<1>4. PICK n \in DOMAIN out : x \in out[n].recs
  BY <1>3, RowYielded
<1>5. out[n] \in Eaten
  BY <1>2 DEF Eaten, YieldInv
<1>6. Kept(out[n]) <=> rows[x[1]][x[2]] \notin LocalLabels
  <2>1. out[n].name = NameOf(x)
    BY <1>4, ItemFacts DEF ItemShape
  <2> QED BY <2>1 DEF Kept, NameOf
<1>7. CASE ~(Kept(out[n]) /\ BodyOf(x) \notin Oversized)
  <2>1. AsMatched(x) = {} /\ AsUnmatched(x) = {}
    BY <1>4, <1>5, <1>7, RowEntries
  <2> QED BY <1>6, <1>7, <2>1
<1>8. CASE Kept(out[n]) /\ BodyOf(x) \notin Oversized
  <2>1. \/ /\ \E a : AsMatched(x) = {a}
           /\ AsUnmatched(x) = {} /\ BodyOf(x) \in matchedBin
        \/ /\ \E a : AsUnmatched(x) = {a}
           /\ AsMatched(x) = {} /\ BodyOf(x) \in unmatchedBin
    BY <1>4, <1>5, <1>8, RowEntries
  <2>2. Cardinality(AsMatched(x)) + Cardinality(AsUnmatched(x)) = 1
    <3>1. \A a : Cardinality({a}) = 1
      BY FS_Singleton
    <3>2. Cardinality({}) = 0
      BY FS_EmptySet
    <3>3. \/ Cardinality(AsMatched(x)) = 1 /\ Cardinality(AsUnmatched(x)) = 0
          \/ Cardinality(AsMatched(x)) = 0 /\ Cardinality(AsUnmatched(x)) = 1
      BY <2>1, <3>1, <3>2, Zenon
    <3> QED BY <3>3
  <2> QED BY <1>6, <1>8, <2>1, <2>2
<1> QED BY <1>7, <1>8

\* Every row the encoder accepts ends in exactly one entry of one arm, with its
\* record in that arm's data file, and no other row does (process_matched_function
\* and process_unmatched_function), for every input.
THEOREM EveryRowIsOnce == Spec => []EveryRowOnce
BY PassInvHolds, RowsAccounted, PTL

\* What pass 2 may rely on: matched entries are aligned and unique of their
\* name, unmatched sections share a name only when it is a duplicated one, and a
\* section has one variant per stream.
THEOREM SectionsAreAddressable == Spec => []SectionsAddressable
BY PassInvHolds, Addressable, PTL

==============================================================================
