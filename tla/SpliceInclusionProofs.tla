----------------------- MODULE SpliceInclusionProofs ------------------------
(***************************************************************************)
(* Proofs about the splice inclusion, for any catalogs, any batches and any *)
(* number of rows.                                                          *)
(***************************************************************************)
EXTENDS SpliceInclusion, FiniteSetTheorems, SequenceTheorems, TLAPS

(* ------------------------ least, greatest, induction ---------------------- *)

LessThan == {ss \in Nat \X Nat : ss[1] < ss[2]}

\* A non-empty set of naturals has a least element.
LEMMA Least ==
  ASSUME NEW T, T \subseteq Nat, T # {}
  PROVE  \E x \in T : \A y \in T : x <= y
<1>1. IsWellFoundedOn(LessThan, Nat)
  BY NatLessThanWellFounded DEF OpToRel, LessThan
<1>2. PICK x \in T : \A y \in T : ~(<<y, x>> \in LessThan)
  BY <1>1, WFMin, Zenon
<1>3. \A y \in T : ~(y < x)
  BY <1>2 DEF LessThan
<1> QED BY <1>3

\* Induction over an interval, for a property given as the set where it holds.
LEMMA UpTo ==
  ASSUME NEW n \in Nat, NEW P, 0 \in P, \A i \in 0..n-1 : i \in P => i + 1 \in P
  PROVE  \A i \in 0..n : i \in P
<1> SUFFICES ASSUME NEW j \in 0..n, j \notin P PROVE FALSE
  OBVIOUS
<1> DEFINE T == {i \in 0..n : i \notin P}
<1>1. T \subseteq Nat /\ T # {}
  OBVIOUS
<1>2. PICK m \in T : \A y \in T : m <= y
  BY <1>1, Least
<1>3. m \in 0..n /\ m \notin P /\ m # 0
  BY <1>2
<1>4. m - 1 \in 0..n-1 /\ (m - 1) + 1 = m
  BY <1>3
<1>5. m - 1 \notin T
  BY <1>2, <1>3
<1>6. m - 1 \in P
  BY <1>4, <1>5
<1> QED BY <1>3, <1>4, <1>6

\* The first straddler of a row, the first usable variant of a slot.
LEMMA MinOfNaturals ==
  ASSUME NEW T, T \subseteq Nat, T # {}
  PROVE  Min(T) \in T /\ \A y \in T : Min(T) <= y
BY Least DEF Min

\* The deepest of the depths a catalog is asked for.
LEMMA MaxOfNaturals ==
  ASSUME NEW T, T \subseteq Nat, T # {}, IsFiniteSet(T)
  PROVE  Max(T) \in T /\ \A y \in T : y <= Max(T)
<1>0. PICK n \in Nat : ExistsSurjection(1..n, T)
  BY FS_NatSurjection
<1>1. PICK f \in [1..n -> T] : f \in Surjection(1..n, T)
  BY <1>0 DEF ExistsSurjection, Surjection
<1> DEFINE P == {k \in 0..n : \E b \in Nat : \A i \in 1..k : f[i] <= b}
<1>2. 0 \in P
  <2>1. 0 \in Nat /\ \A i \in 1..0 : f[i] <= 0
    OBVIOUS
  <2>2. 0 \in 0..n
    OBVIOUS
  <2> QED BY <2>1, <2>2
<1>3. ASSUME NEW k \in 0..n-1, k \in P PROVE k + 1 \in P
  <2>1. PICK b \in Nat : \A i \in 1..k : f[i] <= b
    BY <1>3
  <2>2. f[k+1] \in Nat /\ \A i \in 1..k+1 : f[i] \in Nat
    <3>1. \A i \in 1..n : f[i] \in Nat
      OBVIOUS
    <3>2. k + 1 \in 1..n /\ \A i \in 1..k+1 : i \in 1..n
      OBVIOUS
    <3> QED BY <3>1, <3>2
  <2>3. PICK c \in Nat : b <= c /\ f[k+1] <= c
    <3>1. CASE b <= f[k+1]
      BY <2>2, <3>1
    <3>2. CASE f[k+1] <= b
      BY <3>2
    <3> QED BY <2>2, <3>1, <3>2
  <2>4. \A i \in 1..k+1 : f[i] <= c
    <3>1. ASSUME NEW i \in 1..k+1 PROVE f[i] <= c
      <4>1. f[i] \in Nat
        BY <2>2
      <4>2. CASE i = k + 1
        BY <2>3, <4>2
      <4>3. CASE i \in 1..k
        BY <2>1, <2>3, <4>1, <4>3
      <4> QED BY <4>2, <4>3
    <3> QED BY <3>1
  <2>5. k + 1 \in 0..n
    OBVIOUS
  <2> QED BY <2>4, <2>5
<1>4. n \in P
  <2> HIDE DEF P
  <2>1. \A i \in 0..n : i \in P
    BY <1>2, <1>3, UpTo
  <2> QED BY <2>1
<1>5. PICK b \in Nat : \A i \in 1..n : f[i] <= b
  BY <1>4
<1>6. \A y \in T : y <= b
  BY <1>1, <1>5 DEF Surjection
<1> DEFINE U == {m \in Nat : b - m \in T}
<1>7. U \subseteq Nat /\ U # {}
  <2>1. PICK x \in T : TRUE
    OBVIOUS
  <2>2. b - x \in Nat /\ b - (b - x) = x
    BY <1>6, <2>1
  <2> QED BY <2>2
<1>8. PICK m \in U : \A k \in U : m <= k
  BY <1>7, Least
<1>9. \A y \in T : y <= b - m
  <2>1. ASSUME NEW y \in T PROVE y <= b - m
    <3>1. b - y \in Nat /\ b - (b - y) = y
      BY <1>6
    <3>2. b - y \in U
      BY <3>1
    <3>3. m \in Nat /\ y \in Nat /\ m <= b - y
      BY <1>8, <3>2
    <3> QED BY <3>3
  <2> QED BY <2>1
<1>10. b - m \in T
  BY <1>8
<1> QED BY <1>9, <1>10 DEF Max

(* ------------------------------- listings -------------------------------- *)

\* InOrder lists pairs of a finite set, each at most once.
LEMMA Listed ==
  ASSUME NEW S, IsFiniteSet(S), S \subseteq Nat \X Nat
  PROVE  /\ Cardinality(S) \in Nat
         /\ InOrder(S) \in [1..Cardinality(S) -> S]
         /\ \A m, n \in 1..Cardinality(S) : InOrder(S)[m] = InOrder(S)[n] => m = n
<1>1. PICK c \in Nat : c = Cardinality(S)
  BY FS_CardinalityType
<1>2. ASSUME NEW x \in S
      PROVE  /\ IsFiniteSet({y \in S : Before(y, x)})
             /\ Rank(x, S) \in Nat /\ Rank(x, S) <= c - 1
  <2>1. {y \in S : Before(y, x)} \subseteq S \ {x}
    BY DEF Before
  <2>2. IsFiniteSet(S \ {x}) /\ Cardinality(S \ {x}) = c - 1
    BY <1>1, FS_RemoveElement
  <2>3. IsFiniteSet({y \in S : Before(y, x)}) /\ Cardinality({y \in S : Before(y, x)}) <= c - 1
    BY <2>1, <2>2, FS_Subset
  <2>4. Cardinality({y \in S : Before(y, x)}) \in Nat
    BY <2>3, FS_CardinalityType
  <2> QED BY <1>1, <2>3, <2>4 DEF Rank
<1>3. ASSUME NEW x \in S, NEW y \in S, Before(x, y) PROVE Rank(x, S) < Rank(y, S)
  <2>1. {z \in S : Before(z, x)} \subseteq {z \in S : Before(z, y)}
    BY <1>3 DEF Before
  <2>2. x \in {z \in S : Before(z, y)} /\ x \notin {z \in S : Before(z, x)}
    BY <1>3 DEF Before
  <2>3. IsFiniteSet({z \in S : Before(z, y)})
    BY <1>2
  <2>4. Rank(x, S) <= Rank(y, S) /\ Rank(x, S) # Rank(y, S)
    BY <2>1, <2>2, <2>3, FS_Subset DEF Rank
  <2>5. Rank(x, S) \in Nat /\ Rank(y, S) \in Nat
    BY <1>2
  <2> QED BY <2>4, <2>5
<1>4. \A x, y \in S : x # y => Rank(x, S) # Rank(y, S)
  <2>1. ASSUME NEW x \in S, NEW y \in S, x # y PROVE Rank(x, S) # Rank(y, S)
    <3>1. Before(x, y) \/ Before(y, x)
      BY <2>1 DEF Before
    <3>2. Rank(x, S) \in Nat /\ Rank(y, S) \in Nat
      BY <1>2
    <3>3. Rank(x, S) < Rank(y, S) \/ Rank(y, S) < Rank(x, S)
      BY <1>3, <3>1
    <3> QED BY <3>2, <3>3
  <2> QED BY <2>1
<1>5. \A x \in S : Rank(x, S) \in 0..c-1
  <2>1. ASSUME NEW x \in S PROVE Rank(x, S) \in 0..c-1
    <3>1. Rank(x, S) \in Nat /\ Rank(x, S) <= c - 1
      BY <1>2
    <3> QED BY <1>1, <3>1
  <2> QED BY <2>1
<1> DEFINE f == [x \in S |-> Rank(x, S)]
<1>6. f \in Injection(S, 0..c-1)
  <2>1. f \in [S -> 0..c-1]
    BY <1>5
  <2> QED BY <1>4, <2>1 DEF Injection, IsInjective
<1>7. IsFiniteSet(0..c-1) /\ Cardinality(0..c-1) = c
  <2>1. 0 \in Int /\ c - 1 \in Int /\ (0 > c - 1 => c = 0) /\ c - 1 - 0 + 1 = c
    BY <1>1
  <2> QED BY <2>1, FS_Interval
<1>8. f \in Surjection(S, 0..c-1)
  BY <1>1, <1>6, <1>7, FS_Injection
<1>9. ASSUME NEW n \in 1..c
      PROVE  InOrder(S)[n] \in S /\ Rank(InOrder(S)[n], S) = n - 1
  <2>1. n - 1 \in 0..c-1
    BY <1>1
  <2>2. \E x \in S : Rank(x, S) = n - 1
    BY <1>8, <2>1 DEF Surjection
  <2> QED BY <1>1, <2>2 DEF InOrder
<1>10. InOrder(S) \in [1..c -> S]
  <2>1. InOrder(S) = [n \in 1..c |-> InOrder(S)[n]]
    BY <1>1 DEF InOrder
  <2> QED BY <1>9, <2>1
<1>11. \A m, n \in 1..c : InOrder(S)[m] = InOrder(S)[n] => m = n
  <2>1. ASSUME NEW m \in 1..c, NEW n \in 1..c, InOrder(S)[m] = InOrder(S)[n] PROVE m = n
    <3>1. m - 1 = n - 1
      BY <1>9, <2>1
    <3> QED BY <1>1, <3>1
  <2> QED BY <2>1
<1> QED BY <1>1, <1>10, <1>11

\* Ascending lists numbers of a finite set, each at most once.
LEMMA AscendingFacts ==
  ASSUME NEW K, IsFiniteSet(K), K \subseteq Nat
  PROVE  /\ \E c \in Nat : Ascending(K) \in [1..c -> K] /\ (K # {} => c # 0)
         /\ \A m, n \in DOMAIN Ascending(K) : Ascending(K)[m] = Ascending(K)[n] => m = n
<1> DEFINE S == {0} \X K
<1>1. IsFiniteSet(S) /\ S \subseteq Nat \X Nat
  <2>1. IsFiniteSet({0})
    BY FS_Singleton
  <2>2. IsFiniteSet(S)
    BY <2>1, FS_Product
  <2>3. \A x \in S : x \in Nat \X Nat
    <3>1. \A x \in S : x[1] = 0 /\ x[2] \in K /\ x = <<x[1], x[2]>>
      OBVIOUS
    <3> HIDE DEF S
    <3>2. \A k \in K : k \in Nat
      OBVIOUS
    <3>3. \A x \in S : x[1] \in Nat /\ x[2] \in Nat
      BY <3>1, <3>2
    <3> QED BY <3>1, <3>3
  <2> QED BY <2>2, <2>3
<1>2. PICK c \in Nat : c = Cardinality(S)
  BY <1>1, FS_CardinalityType
<1>3. /\ InOrder(S) \in [1..c -> S]
      /\ \A m, n \in 1..c : InOrder(S)[m] = InOrder(S)[n] => m = n
  BY <1>1, <1>2, Listed
<1>4. Ascending(K) = [n \in 1..c |-> InOrder(S)[n][2]]
  BY <1>3 DEF Ascending
<1>5. \A n \in 1..c : InOrder(S)[n] \in S
  BY <1>3
<1>6. \A n \in 1..c : InOrder(S)[n] = <<0, InOrder(S)[n][2]>> /\ InOrder(S)[n][2] \in K
  BY <1>5
<1>7. Ascending(K) \in [1..c -> K]
  BY <1>4, <1>6
<1>8. K # {} => c # 0
  <2>1. ASSUME K # {} PROVE S # {}
    <3>1. PICK k \in K : TRUE
      BY <2>1
    <3>2. <<0, k>> \in S
      BY <3>1
    <3> QED BY <3>2
  <2> QED BY <1>1, <1>2, <2>1, FS_EmptySet
<1>9. ASSUME NEW m \in 1..c, NEW n \in 1..c, Ascending(K)[m] = Ascending(K)[n] PROVE m = n
  <2>1. InOrder(S)[m][2] = InOrder(S)[n][2]
    BY <1>4, <1>9
  <2>2. InOrder(S)[m] = InOrder(S)[n]
    BY <1>6, <2>1
  <2> QED BY <1>3, <2>2
<1> QED BY <1>7, <1>8, <1>9

\* What a sequence holds at some positions is a sequence of its elements, from
\* different positions.
LEMMA AtFacts ==
  ASSUME NEW S, NEW s \in Seq(S), NEW K, K \subseteq DOMAIN s
  PROVE  /\ At(s, K) \in Seq(S)
         /\ \E at : /\ at \in [DOMAIN At(s, K) -> K]
                    /\ \A n \in DOMAIN At(s, K) : At(s, K)[n] = s[at[n]]
                    /\ \A m, n \in DOMAIN At(s, K) : at[m] = at[n] => m = n
<1>1. Len(s) \in Nat /\ DOMAIN s = 1..Len(s)
  OBVIOUS
<1>2. IsFiniteSet(K) /\ K \subseteq Nat
  <2>1. IsFiniteSet(1..Len(s))
    BY <1>1, FS_Interval
  <2> QED BY <1>1, <2>1, FS_Subset
<1>3. PICK c \in Nat : Ascending(K) \in [1..c -> K]
  BY <1>2, AscendingFacts
<1>4. At(s, K) = [n \in 1..c |-> s[Ascending(K)[n]]]
  BY <1>3 DEF At
<1>5. \A n \in 1..c : Ascending(K)[n] \in DOMAIN s
  BY <1>3
<1>6. At(s, K) \in [1..c -> S]
  BY <1>1, <1>4, <1>5, ElementOfSeq
<1>7. At(s, K) \in Seq(S) /\ DOMAIN At(s, K) = 1..c
  BY <1>6
<1> DEFINE at == Ascending(K)
<1>8. /\ at \in [DOMAIN At(s, K) -> K]
      /\ \A n \in DOMAIN At(s, K) : At(s, K)[n] = s[at[n]]
  BY <1>3, <1>4, <1>7
<1>9. \A m, n \in DOMAIN at : at[m] = at[n] => m = n
  BY <1>2, AscendingFacts
<1>10. DOMAIN at = DOMAIN At(s, K)
  BY <1>3, <1>7
<1> QED BY <1>7, <1>8, <1>9, <1>10

(* --------------------------------- sums ---------------------------------- *)

\* Sums is the function its recursion describes.
LEMMA SumsFacts ==
  ASSUME NEW f \in Seq(Nat)
  PROVE  /\ Sums(f) \in [0..Len(f) -> Nat]
         /\ Sums(f)[0] = 0
         /\ \A i \in 1..Len(f) : Sums(f)[i] = Sums(f)[i-1] + f[i]
<1> DEFINE Upto(m, g) == g = [i \in 0..m |-> IF i = 0 THEN 0 ELSE g[i-1] + f[i]]
           P == {m \in 0..Len(f) : \E g : Upto(m, g)}
<1>1. Len(f) \in Nat /\ \A i \in 1..Len(f) : f[i] \in Nat
  OBVIOUS
<1>2. 0 \in P
  <2> DEFINE z == [i \in 0..0 |-> 0]
  <2>1. Upto(0, z)
    OBVIOUS
  <2>2. 0 \in 0..Len(f)
    BY <1>1
  <2> HIDE DEF z, Upto
  <2> QED BY <2>1, <2>2
<1>3. ASSUME NEW m \in 0..Len(f)-1, m \in P PROVE m + 1 \in P
  <2>1. PICK g : Upto(m, g)
    BY <1>3
  <2> DEFINE h == [i \in 0..m+1 |-> IF i = m + 1 THEN g[m] + f[m+1] ELSE g[i]]
  <2>2. ASSUME NEW i \in 0..m+1 PROVE h[i] = IF i = 0 THEN 0 ELSE h[i-1] + f[i]
    <3>1. CASE i = m + 1
      <4>1. i # 0 /\ i - 1 = m /\ i - 1 \in 0..m+1 /\ m # m + 1
        BY <1>1, <3>1
      <4> QED BY <3>1, <4>1
    <3>2. CASE i \in 0..m
      <4>1. i # m + 1 /\ (i # 0 => i - 1 \in 0..m /\ i - 1 # m + 1 /\ i - 1 \in 0..m+1)
        BY <1>1, <3>2
      <4> QED BY <2>1, <3>2, <4>1
    <3> QED BY <1>1, <3>1, <3>2
  <2>3. Upto(m + 1, h)
    BY <2>2
  <2>4. m + 1 \in 0..Len(f)
    BY <1>1
  <2> QED BY <2>3, <2>4
<1>4. Len(f) \in P
  <2> HIDE DEF P
  <2>1. \A i \in 0..Len(f) : i \in P
    BY <1>1, <1>2, <1>3, UpTo
  <2> QED BY <1>1, <2>1
<1>5. Sums(f) = CHOOSE g : Upto(Len(f), g)
  BY DEF Sums
<1>6. Upto(Len(f), Sums(f))
  <2> HIDE DEF Upto
  <2> QED BY <1>4, <1>5
<1>7. Sums(f)[0] = 0 /\ \A i \in 1..Len(f) : Sums(f)[i] = Sums(f)[i-1] + f[i]
  BY <1>1, <1>6
<1> DEFINE Q == {i \in 0..Len(f) : Sums(f)[i] \in Nat}
<1>8. 0 \in Q
  BY <1>1, <1>7
<1>9. ASSUME NEW i \in 0..Len(f)-1, i \in Q PROVE i + 1 \in Q
  <2>1. i + 1 \in 1..Len(f) /\ (i + 1) - 1 = i /\ f[i+1] \in Nat /\ Sums(f)[i] \in Nat
    BY <1>1, <1>9
  <2> QED BY <1>7, <2>1
<1>10. \A i \in 0..Len(f) : Sums(f)[i] \in Nat
  <2>1. \A i \in 0..Len(f) : i \in Q
    <3> HIDE DEF Q
    <3> QED BY <1>1, <1>8, <1>9, UpTo
  <2> QED BY <2>1
<1>11. Sums(f) = [i \in 0..Len(f) |-> Sums(f)[i]]
  BY <1>6
<1> QED BY <1>7, <1>10, <1>11

\* Running sums of naturals do not fall.
LEMMA SumsGrow ==
  ASSUME NEW f \in Seq(Nat), NEW i \in 0..Len(f), NEW j \in i..Len(f)
  PROVE  Sums(f)[i] \in Nat /\ Sums(f)[j] \in Nat /\ Sums(f)[i] <= Sums(f)[j]
<1> DEFINE s == Sums(f)
           n == Len(f) - i
           P == {k \in 0..n : s[i] <= s[i + k]}
<1>1. /\ \A k \in 0..Len(f) : s[k] \in Nat
      /\ \A k \in 1..Len(f) : s[k] = s[k-1] + f[k] /\ f[k] \in Nat
  <2>1. \A k \in 1..Len(f) : f[k] \in Nat
    OBVIOUS
  <2>2. /\ s \in [0..Len(f) -> Nat]
        /\ \A k \in 1..Len(f) : s[k] = s[k-1] + f[k]
    BY SumsFacts
  <2> QED BY <2>1, <2>2
<1>2. Len(f) \in Nat /\ n \in Nat /\ i \in Nat /\ i + 0 = i
  OBVIOUS
<1> HIDE DEF s
<1>3. 0 \in P
  BY <1>1, <1>2
<1>4. ASSUME NEW k \in 0..n-1, k \in P PROVE k + 1 \in P
  <2>1. i + k + 1 \in 1..Len(f) /\ (i + k + 1) - 1 = i + k /\ i + k \in 0..Len(f) /\ i + (k + 1) = i + k + 1 /\ k + 1 \in 0..n
    BY <1>2
  <2>2. s[i] <= s[i + k]
    BY <1>4
  <2>3. s[i + k + 1] = s[i + k] + f[i + k + 1] /\ f[i + k + 1] \in Nat /\ s[i + k] \in Nat
    BY <1>1, <2>1
  <2>4. s[i] <= s[i + (k + 1)]
    BY <1>1, <2>1, <2>2, <2>3
  <2> QED BY <2>1, <2>4
<1>5. \A k \in 0..n : k \in P
  <2> HIDE DEF P, n
  <2> QED BY <1>2, <1>3, <1>4, UpTo
<1>6. j - i \in 0..n /\ i + (j - i) = j /\ j \in 0..Len(f)
  BY <1>2
<1>7. s[i] <= s[j]
  BY <1>5, <1>6
<1> QED BY <1>1, <1>6, <1>7 DEF s

(* ------------------------------ the catalog ------------------------------ *)

Catalog == cat \in Catalogs

\* The sections and nodes of the binary in use.
LEMMA CatalogFacts ==
  ASSUME Catalog
  PROVE  /\ IsCatalog(cat)
         /\ cat.variants \in Seq(Nat) /\ Len(cat.variants) \in Nat
         /\ Sections = 1..Len(cat.variants) /\ Sections \subseteq Nat /\ IsFiniteSet(Sections)
         /\ \A s \in Sections : cat.variants[s] \in Nat
         /\ \A n \in Nodes(cat) : /\ n = <<n[1], n[2]>>
                                  /\ n[1] \in Sections /\ n[2] \in VariantsOf(n[1]) /\ n[2] \in Nat
         /\ \A s \in Sections : \A v \in VariantsOf(s) : <<s, v>> \in Nodes(cat)
         /\ \A n \in Nodes(cat) : cat.body[n] \in Nat /\ Own(n) \in Nat /\ Own(n) >= 1
         /\ MaxDepth \in Nat /\ \A d \in cat.depths : d \in 0..MaxDepth
<1>1. IsCatalog(cat)
  BY SpliceAssumption DEF Catalog
<1>2. cat.variants \in Seq(Nat) /\ Len(cat.variants) \in Nat
  BY <1>1 DEF IsCatalog
<1>3. Sections = 1..Len(cat.variants) /\ Sections \subseteq Nat
  BY <1>2 DEF Sections
<1>4. IsFiniteSet(Sections)
  BY <1>2, <1>3, FS_Interval
<1>5. \A s \in Sections : cat.variants[s] \in Nat
  BY <1>2, <1>3
<1>6. ASSUME NEW n \in Nodes(cat)
      PROVE  /\ n = <<n[1], n[2]>>
             /\ n[1] \in Sections /\ n[2] \in VariantsOf(n[1]) /\ n[2] \in Nat
  <2>1. PICK s \in Sections : n \in {<<s, v>> : v \in 1..cat.variants[s]}
    BY DEF Nodes, Sections
  <2>2. PICK v \in 1..cat.variants[s] : n = <<s, v>>
    BY <2>1
  <2> QED BY <1>5, <2>1, <2>2 DEF VariantsOf
<1>7. \A s \in Sections : \A v \in VariantsOf(s) : <<s, v>> \in Nodes(cat)
  BY DEF Nodes, Sections, VariantsOf
<1>8. \A n \in Nodes(cat) : cat.body[n] \in Nat
  BY <1>1 DEF IsCatalog
<1>9. \A n \in Nodes(cat) : Own(n) \in Nat /\ Own(n) >= 1
  BY <1>8 DEF Own
<1>10. MaxDepth \in Nat /\ \A d \in cat.depths : d \in 0..MaxDepth
  <2>1. cat.depths \subseteq Nat /\ cat.depths # {} /\ IsFiniteSet(cat.depths)
    BY <1>1 DEF IsCatalog
  <2>2. MaxDepth \in cat.depths /\ \A d \in cat.depths : d <= MaxDepth
    BY <2>1, MaxOfNaturals DEF MaxDepth
  <2> QED BY <2>1, <2>2
<1> QED BY <1>1, <1>2, <1>3, <1>4, <1>5, <1>6, <1>7, <1>8, <1>9, <1>10

\* The nodes of a row end one after the other.
LEMMA EndFacts ==
  ASSUME Catalog, NEW nodes \in Seq(Nodes(cat))
  PROVE  /\ [j \in DOMAIN nodes |-> Own(nodes[j])] \in Seq(Nat)
         /\ Len([j \in DOMAIN nodes |-> Own(nodes[j])]) = Len(nodes)
         /\ \A i \in 0..Len(nodes) : EndOf(nodes, i) \in Nat
         /\ EndOf(nodes, 0) = 0
         /\ \A i \in 1..Len(nodes) : EndOf(nodes, i) = EndOf(nodes, i - 1) + Own(nodes[i])
         /\ Length(nodes) \in Nat
<1> DEFINE f == [j \in DOMAIN nodes |-> Own(nodes[j])]
<1>1. Len(nodes) \in Nat /\ DOMAIN nodes = 1..Len(nodes) /\ \A j \in 1..Len(nodes) : nodes[j] \in Nodes(cat)
  OBVIOUS
<1>2. \A j \in 1..Len(nodes) : Own(nodes[j]) \in Nat
  BY <1>1, CatalogFacts
<1>3. f \in [1..Len(nodes) -> Nat]
  BY <1>1, <1>2
<1>4. f \in Seq(Nat) /\ Len(f) = Len(nodes)
  <2> HIDE DEF f
  <2> QED BY <1>1, <1>3
<1>5. \A i \in 1..Len(nodes) : f[i] = Own(nodes[i])
  BY <1>1
<1>6. /\ Sums(f) \in [0..Len(f) -> Nat]
      /\ Sums(f)[0] = 0
      /\ \A i \in 1..Len(f) : Sums(f)[i] = Sums(f)[i-1] + f[i]
  <2> HIDE DEF f
  <2> QED BY <1>4, SumsFacts
<1>7. \A i : EndOf(nodes, i) = Sums(f)[i]
  BY DEF EndOf
<1> HIDE DEF f
<1>8. /\ \A i \in 0..Len(nodes) : EndOf(nodes, i) \in Nat
      /\ EndOf(nodes, 0) = 0
      /\ \A i \in 1..Len(nodes) : EndOf(nodes, i) = EndOf(nodes, i - 1) + Own(nodes[i])
  BY <1>4, <1>5, <1>6, <1>7
<1>9. Length(nodes) \in Nat
  BY <1>1, <1>8 DEF Length
<1> QED BY <1>4, <1>8, <1>9 DEF f

\* A row that is appended to keeps its ends, and grows by what is appended.
LEMMA EndsOfConcat ==
  ASSUME Catalog, NEW s \in Seq(Nodes(cat)), NEW t \in Seq(Nodes(cat))
  PROVE  /\ s \o t \in Seq(Nodes(cat)) /\ Len(s \o t) = Len(s) + Len(t)
         /\ \A i \in 0..Len(s) : EndOf(s \o t, i) = EndOf(s, i)
         /\ Length(s \o t) = Length(s) + Length(t)
<1> DEFINE r == s \o t
           P == {i \in 0..Len(s) : EndOf(r, i) = EndOf(s, i)}
           Q == {j \in 0..Len(t) : EndOf(r, Len(s) + j) = Length(s) + EndOf(t, j)}
<1>1. /\ r \in Seq(Nodes(cat)) /\ Len(s) \in Nat /\ Len(t) \in Nat /\ Len(r) = Len(s) + Len(t)
      /\ \A i \in 1..Len(s) : r[i] = s[i]
      /\ \A j \in 1..Len(t) : r[Len(s) + j] = t[j]
  OBVIOUS
<1> HIDE DEF r
<1>2. /\ EndOf(r, 0) = 0
      /\ \A i \in 1..Len(r) : EndOf(r, i) = EndOf(r, i - 1) + Own(r[i])
  BY <1>1, EndFacts
<1>3. /\ EndOf(s, 0) = 0 /\ \A i \in 0..Len(s) : EndOf(s, i) \in Nat
      /\ \A i \in 1..Len(s) : EndOf(s, i) = EndOf(s, i - 1) + Own(s[i])
  BY EndFacts
<1>4. /\ EndOf(t, 0) = 0 /\ \A j \in 0..Len(t) : EndOf(t, j) \in Nat
      /\ \A j \in 1..Len(t) : EndOf(t, j) = EndOf(t, j - 1) + Own(t[j]) /\ Own(t[j]) \in Nat
  <2>1. \A j \in 1..Len(t) : t[j] \in Nodes(cat)
    OBVIOUS
  <2> QED BY <2>1, EndFacts, CatalogFacts
<1>5. 0 \in P
  BY <1>1, <1>2, <1>3
<1>6. ASSUME NEW i \in 0..Len(s)-1, i \in P PROVE i + 1 \in P
  <2>1. i + 1 \in 1..Len(s) /\ i + 1 \in 1..Len(r) /\ (i + 1) - 1 = i /\ i + 1 \in 0..Len(s)
    BY <1>1
  <2> QED BY <1>1, <1>2, <1>3, <1>6, <2>1
<1>7. \A i \in 0..Len(s) : EndOf(r, i) = EndOf(s, i)
  <2>1. \A i \in 0..Len(s) : i \in P
    <3> HIDE DEF P
    <3> QED BY <1>1, <1>5, <1>6, UpTo
  <2> QED BY <2>1
<1>8. Length(s) \in Nat /\ Length(s) = EndOf(s, Len(s))
  BY EndFacts DEF Length
<1>9. 0 \in Q
  BY <1>1, <1>4, <1>7, <1>8
<1>10. ASSUME NEW j \in 0..Len(t)-1, j \in Q PROVE j + 1 \in Q
  <2>1. j + 1 \in 1..Len(t) /\ Len(s) + (j + 1) \in 1..Len(r) /\ (j + 1) - 1 = j
        /\ (Len(s) + (j + 1)) - 1 = Len(s) + j /\ j + 1 \in 0..Len(t) /\ j \in 0..Len(t)
    BY <1>1
  <2>2. EndOf(r, Len(s) + (j + 1)) = EndOf(r, Len(s) + j) + Own(t[j+1])
    BY <1>1, <1>2, <2>1
  <2>3. EndOf(t, j + 1) = EndOf(t, j) + Own(t[j+1]) /\ EndOf(t, j) \in Nat /\ Own(t[j+1]) \in Nat
    BY <1>4, <2>1
  <2>4. EndOf(r, Len(s) + j) = Length(s) + EndOf(t, j)
    BY <1>10
  <2> QED BY <1>8, <2>1, <2>2, <2>3, <2>4
<1>11. Length(r) = Length(s) + Length(t)
  <2>1. \A j \in 0..Len(t) : j \in Q
    <3> HIDE DEF Q
    <3> QED BY <1>1, <1>9, <1>10, UpTo
  <2>2. Len(t) \in Q
    BY <1>1, <2>1
  <2> QED BY <1>1, <2>2 DEF Length
<1> QED BY <1>1, <1>7, <1>11 DEF r

(* ----------------------------- the call graph ----------------------------- *)

\* What a pair of the first n rows is.
Pairs(n) == (1..n) \X Nodes(cat)

\* The variant index a usable slot resolves to is one of the target's variants.
LEMMA Resolved ==
  ASSUME Catalog, NEW n \in Nodes(cat),
         NEW k \in DOMAIN cat.calls[n] \cap DOMAIN cat.targets[n[1]],
         cat.targets[n[1]][k].ptr \in Sections
  PROVE  ResolveJ(n, k) \in {Missing} \cup VariantsOf(cat.targets[n[1]][k].ptr)
<1> DEFINE t == cat.targets[n[1]][k].ptr
           usable == {v \in VariantsOf(n[1]) : /\ k \in DOMAIN cat.calls[<<n[1], v>>]
                                               /\ cat.calls[<<n[1], v>>][k] # Missing}
<1>1. n[1] \in Sections /\ t \in DOMAIN cat.variants
  BY CatalogFacts DEF Sections
<1>2. ASSUME NEW m \in Nodes(cat), m[1] = n[1], k \in DOMAIN cat.calls[m]
      PROVE  cat.calls[m][k] \in {Missing} \cup VariantsOf(t)
  <2>1. \/ cat.calls[m][k] = Missing
        \/ k \notin DOMAIN cat.targets[m[1]]
        \/ cat.targets[m[1]][k].ptr \notin DOMAIN cat.variants
        \/ cat.calls[m][k] \in 1..cat.variants[cat.targets[m[1]][k].ptr]
    BY <1>2, CatalogFacts DEF IsCatalog
  <2> QED BY <1>1, <1>2, <2>1 DEF VariantsOf
<1>3. FallbackJ(n[1], k) \in {Missing} \cup VariantsOf(t)
  <2>1. CASE usable = {}
    BY <2>1 DEF FallbackJ
  <2>2. CASE usable # {}
    <3>1. usable \subseteq Nat
      BY DEF VariantsOf
    <3>2. Min(usable) \in usable
      BY <2>2, <3>1, MinOfNaturals
    <3>3. /\ FallbackJ(n[1], k) = cat.calls[<<n[1], Min(usable)>>][k]
          /\ Min(usable) \in VariantsOf(n[1]) /\ k \in DOMAIN cat.calls[<<n[1], Min(usable)>>]
      BY <2>2, <3>2 DEF FallbackJ
    <3>4. <<n[1], Min(usable)>> \in Nodes(cat)
      BY <1>1, <3>3, CatalogFacts
    <3>5. cat.calls[<<n[1], Min(usable)>>][k] \in {Missing} \cup VariantsOf(t)
      BY <1>2, <3>3, <3>4
    <3> QED BY <3>3, <3>5
  <2> QED BY <2>1, <2>2
<1>4. cat.calls[n][k] \in {Missing} \cup VariantsOf(t)
  BY <1>2
<1> QED BY <1>3, <1>4 DEF ResolveJ

\* A live slot leads to a node, one hop away.
LEMMA CalleeFacts ==
  ASSUME Catalog, NEW n \in Nodes(cat), NEW k \in LiveSlots(n)
  PROVE  /\ Callee(n, k) \in Nodes(cat)
         /\ \A S : n[1] \in S => Callee(n, k)[1] \in Hop(S)
<1> DEFINE t == cat.targets[n[1]][k].ptr
<1>1. /\ k \in DOMAIN cat.calls[n] \cap DOMAIN cat.targets[n[1]]
      /\ t \in Sections /\ ResolveJ(n, k) # Missing
  BY DEF LiveSlots
<1>2. ResolveJ(n, k) \in VariantsOf(t)
  BY <1>1, Resolved
<1>3. Callee(n, k) = <<t, ResolveJ(n, k)>>
  BY DEF Callee
<1>4. Callee(n, k) \in Nodes(cat)
  BY <1>1, <1>2, <1>3, CatalogFacts
<1>5. ASSUME NEW S, n[1] \in S PROVE t \in Hop(S)
  <2>1. cat.targets[n[1]][k] \in ToSet(cat.targets[n[1]])
    BY <1>1 DEF ToSet
  <2>2. ToSet(cat.targets[n[1]]) \in {ToSet(cat.targets[s]) : s \in S}
    BY <1>5
  <2>3. cat.targets[n[1]][k] \in UNION {ToSet(cat.targets[s]) : s \in S}
    BY <2>1, <2>2
  <2> QED BY <1>1, <2>3 DEF Hop
<1> QED BY <1>3, <1>4, <1>5

\* The live slots of a frontier can be listed.
LEMMA CallsFinite ==
  ASSUME Catalog, NEW n \in Nat, NEW frontier \in Seq(Pairs(n))
  PROVE  /\ IsFiniteSet(Calls(frontier)) /\ Calls(frontier) \subseteq Nat \X Nat
         /\ \A c \in Calls(frontier) :
              /\ c = <<c[1], c[2]>> /\ c[1] \in DOMAIN frontier
              /\ frontier[c[1]] \in Pairs(n) /\ c[2] \in LiveSlots(frontier[c[1]][2])
<1>1. /\ DOMAIN frontier = 1..Len(frontier) /\ Len(frontier) \in Nat
      /\ \A i \in DOMAIN frontier : frontier[i] \in Pairs(n)
  OBVIOUS
<1>2. ASSUME NEW i \in DOMAIN frontier
      PROVE  IsFiniteSet(LiveSlots(frontier[i][2])) /\ LiveSlots(frontier[i][2]) \subseteq Nat
  <2>1. frontier[i][2] \in Nodes(cat)
    BY <1>1 DEF Pairs
  <2>2. frontier[i][2][1] \in Sections
    BY <2>1, CatalogFacts
  <2>3. cat.targets[frontier[i][2][1]] \in Seq([extern : BOOLEAN, ptr : Nat])
    BY <2>2, CatalogFacts DEF IsCatalog, Sections
  <2> DEFINE t == cat.targets[frontier[i][2][1]]
  <2>4. Len(t) \in Nat /\ DOMAIN t = 1..Len(t)
    BY <2>3
  <2>5. IsFiniteSet(DOMAIN t) /\ DOMAIN t \subseteq Nat
    <3> HIDE DEF t
    <3>1. IsFiniteSet(1..Len(t))
      BY <2>4, FS_Interval
    <3> QED BY <2>4, <3>1
  <2>6. LiveSlots(frontier[i][2]) \subseteq DOMAIN t
    BY DEF LiveSlots
  <2> QED BY <2>5, <2>6, FS_Subset
<1> DEFINE X == {{i} \X LiveSlots(frontier[i][2]) : i \in DOMAIN frontier}
<1>3. IsFiniteSet(X)
  <2> DEFINE f == [i \in DOMAIN frontier |-> {i} \X LiveSlots(frontier[i][2])]
  <2>1. f \in Surjection(DOMAIN frontier, X)
    BY DEF Surjection
  <2>2. IsFiniteSet(DOMAIN frontier)
    BY <1>1, FS_Interval
  <2> QED BY <2>1, <2>2, FS_Surjection
<1>4. ASSUME NEW x \in X PROVE IsFiniteSet(x)
  <2>1. PICK i \in DOMAIN frontier : x = {i} \X LiveSlots(frontier[i][2])
    OBVIOUS
  <2>2. IsFiniteSet({i}) /\ IsFiniteSet(LiveSlots(frontier[i][2]))
    BY <1>2, FS_Singleton
  <2> QED BY <2>1, <2>2, FS_Product
<1>5. Calls(frontier) = UNION X
  BY DEF Calls
<1>6. IsFiniteSet(Calls(frontier))
  <2> HIDE DEF X
  <2> QED BY <1>3, <1>4, <1>5, FS_UNION
<1>7. ASSUME NEW c \in Calls(frontier)
      PROVE  c = <<c[1], c[2]>> /\ c[1] \in DOMAIN frontier /\ c[2] \in LiveSlots(frontier[c[1]][2])
  <2>1. PICK i \in DOMAIN frontier : c \in {i} \X LiveSlots(frontier[i][2])
    BY <1>5
  <2> QED BY <2>1
<1>8. \A c \in Calls(frontier) : c[1] \in Nat /\ c[2] \in Nat
  BY <1>1, <1>2, <1>7
<1>9. Calls(frontier) \subseteq Nat \X Nat
  <2>1. ASSUME NEW c \in Calls(frontier) PROVE c \in Nat \X Nat
    BY <1>7, <1>8
  <2> QED BY <2>1
<1> QED BY <1>1, <1>6, <1>7, <1>9

\* The next level: nodes of the same rows, one hop away.
LEMMA EdgesFacts ==
  ASSUME Catalog, NEW n \in Nat, NEW frontier \in Seq(Pairs(n))
  PROVE  /\ Edges(frontier) \in Seq(Pairs(n))
         /\ \A S : (\A i \in DOMAIN frontier : frontier[i][2][1] \in S) =>
                      \A e \in DOMAIN Edges(frontier) : Edges(frontier)[e][2][1] \in Hop(S)
<1> DEFINE calls == InOrder(Calls(frontier))
<1>1. PICK c \in Nat : calls \in [1..c -> Calls(frontier)]
  BY CallsFinite, Listed
<1>2. Edges(frontier) = [e \in 1..c |-> <<frontier[calls[e][1]][1],
                                          Callee(frontier[calls[e][1]][2], calls[e][2])>>]
  BY <1>1 DEF Edges
<1>3. ASSUME NEW e \in 1..c
      PROVE  /\ Edges(frontier)[e] \in Pairs(n)
             /\ \A S : (\A i \in DOMAIN frontier : frontier[i][2][1] \in S) =>
                          Edges(frontier)[e][2][1] \in Hop(S)
  <2> DEFINE p == frontier[calls[e][1]]
             k == calls[e][2]
  <2>1. calls[e] \in Calls(frontier)
    BY <1>1
  <2>2. p \in Pairs(n) /\ calls[e][1] \in DOMAIN frontier /\ k \in LiveSlots(p[2])
    BY <2>1, CallsFinite
  <2>3. p[1] \in 1..n /\ p[2] \in Nodes(cat)
    BY <2>2 DEF Pairs
  <2>4. Callee(p[2], k) \in Nodes(cat) /\ \A S : p[2][1] \in S => Callee(p[2], k)[1] \in Hop(S)
    BY <2>2, <2>3, CalleeFacts
  <2>5. Edges(frontier)[e] = <<p[1], Callee(p[2], k)>>
    BY <1>2
  <2>6. Edges(frontier)[e] \in Pairs(n)
    <3>1. p[1] \in 1..n /\ Callee(p[2], k) \in Nodes(cat)
      BY <2>3, <2>4
    <3> HIDE DEF p, k
    <3> QED BY <2>5, <3>1 DEF Pairs
  <2>7. ASSUME NEW S, \A i \in DOMAIN frontier : frontier[i][2][1] \in S
        PROVE  Edges(frontier)[e][2][1] \in Hop(S)
    <3>1. p[2][1] \in S
      BY <2>2, <2>7
    <3>2. Edges(frontier)[e][2] = Callee(p[2], k)
      BY <2>5
    <3> QED BY <2>4, <3>1, <3>2
  <2> QED BY <2>6, <2>7
<1>4. DOMAIN Edges(frontier) = 1..c
  BY <1>2
<1>5. Edges(frontier) \in [1..c -> Pairs(n)]
  <2>1. Edges(frontier) = [e \in 1..c |-> Edges(frontier)[e]]
    BY <1>2
  <2> QED BY <1>3, <2>1
<1>6. Edges(frontier) \in Seq(Pairs(n))
  BY <1>5
<1> QED BY <1>3, <1>4, <1>6

(* ------------------------------- the decider ------------------------------ *)

\* The rows marked for each function.
Marked(d) == {p \in (1..d.rows) \X DOMAIN d.col : <<p[1], d.col[p[2]]>> \in d.mask}

\* The functions have a column each, and only the used region is marked.
DeciderInv(d) ==
  /\ DOMAIN d.col \subseteq Sections
  /\ d.cols = Cardinality(DOMAIN d.col)
  /\ \A f \in DOMAIN d.col : d.col[f] \in 0..d.cols-1
  /\ \A f, g \in DOMAIN d.col : f # g => d.col[f] # d.col[g]
  /\ d.rows \in Nat
  /\ d.mask \subseteq Cells(d.rows, d.cols)

\* Fresh functions take columns of their own behind the assigned ones.
LEMMA Assigned ==
  ASSUME Catalog, NEW d, DeciderInv(d), NEW fids, fids \subseteq Sections
  PROVE  LET col == AssignColumns(d, fids)
             cols == Cardinality(DOMAIN col)
         IN  /\ DOMAIN col = DOMAIN d.col \cup fids
             /\ \A f \in DOMAIN d.col : col[f] = d.col[f]
             /\ \A f \in DOMAIN col : col[f] \in 0..cols-1
             /\ \A f, g \in DOMAIN col : f # g => col[f] # col[g]
             /\ \A f \in DOMAIN col \ DOMAIN d.col : col[f] >= d.cols
             /\ d.cols \in Nat /\ cols \in Nat /\ d.cols <= cols
<1> DEFINE fresh == fids \ DOMAIN d.col
           col == AssignColumns(d, fids)
           cols == Cardinality(DOMAIN col)
           rank(f) == Cardinality({g \in fresh : g < f})
<1>1. fresh \subseteq Nat /\ IsFiniteSet(fresh) /\ IsFiniteSet(DOMAIN d.col)
  <2>1. IsFiniteSet(Sections) /\ Sections \subseteq Nat
    BY CatalogFacts
  <2>2. fresh \subseteq Sections /\ DOMAIN d.col \subseteq Sections
    BY DEF DeciderInv
  <2> HIDE DEF fresh
  <2> QED BY <2>1, <2>2, FS_Subset
<1>2. DOMAIN col = DOMAIN d.col \cup fresh /\ DOMAIN col = DOMAIN d.col \cup fids
  BY DEF AssignColumns
<1>3. PICK c, m \in Nat : c = d.cols /\ m = Cardinality(fresh)
  BY <1>1, FS_CardinalityType DEF DeciderInv
<1>4. cols = c + m
  <2>1. DOMAIN d.col \cap fresh = {}
    OBVIOUS
  <2>2. c = Cardinality(DOMAIN d.col)
    BY <1>3 DEF DeciderInv
  <2>3. Cardinality(DOMAIN d.col \cup fresh)
          = Cardinality(DOMAIN d.col) + Cardinality(fresh) - Cardinality(DOMAIN d.col \cap fresh)
    <3> HIDE DEF fresh
    <3> QED BY <1>1, FS_Union
  <2>4. Cardinality(DOMAIN d.col \cap fresh) = 0
    BY <2>1, FS_EmptySet
  <2> HIDE DEF fresh
  <2> QED BY <1>2, <1>3, <2>2, <2>3, <2>4
<1>5. \A f \in DOMAIN col : col[f] = IF f \in fresh THEN c + rank(f) ELSE d.col[f]
  BY <1>2, <1>3 DEF AssignColumns
<1>6. ASSUME NEW f \in fresh
      PROVE  rank(f) \in 0..m-1 /\ IsFiniteSet({g \in fresh : g < f})
  <2>1. {g \in fresh : g < f} \subseteq fresh \ {f}
    BY <1>1
  <2>2. IsFiniteSet(fresh \ {f}) /\ Cardinality(fresh \ {f}) = m - 1
    <3> HIDE DEF fresh
    <3> QED BY <1>1, <1>3, FS_RemoveElement
  <2>3. IsFiniteSet({g \in fresh : g < f}) /\ Cardinality({g \in fresh : g < f}) <= m - 1
    <3> HIDE DEF fresh
    <3> QED BY <2>1, <2>2, FS_Subset
  <2>4. Cardinality({g \in fresh : g < f}) \in Nat
    BY <2>3, FS_CardinalityType
  <2> QED BY <1>3, <2>3, <2>4
<1>7. ASSUME NEW f \in fresh, NEW g \in fresh, f < g PROVE rank(f) # rank(g)
  <2> DEFINE A == {h \in fresh : h < f}
             B == {h \in fresh : h < g}
  <2>1. A \subseteq B /\ f \in B /\ f \notin A
    BY <1>1, <1>7
  <2>2. IsFiniteSet(B)
    BY <1>6
  <2> HIDE DEF A, B
  <2>3. Cardinality(A) # Cardinality(B)
    BY <2>1, <2>2, FS_Subset
  <2> QED BY <2>3 DEF A, B
<1>8. \A f, g \in fresh : f # g => rank(f) # rank(g)
  <2>1. ASSUME NEW f \in fresh, NEW g \in fresh, f # g PROVE rank(f) # rank(g)
    <3>1. f < g \/ g < f
      BY <1>1, <2>1
    <3> QED BY <1>7, <3>1
  <2> QED BY <2>1
<1>9. \A f \in fresh : rank(f) \in 0..m-1
  BY <1>6
<1>10. \A f \in DOMAIN d.col : f \notin fresh /\ d.col[f] \in 0..c-1
  BY <1>3 DEF DeciderInv
<1>11. \A f, g \in DOMAIN d.col : f # g => d.col[f] # d.col[g]
  BY DEF DeciderInv
<1> HIDE DEF fresh, col, rank, cols
<1>12. \A f \in DOMAIN col : col[f] \in 0..cols-1
  BY <1>2, <1>3, <1>4, <1>5, <1>9, <1>10
<1>13. ASSUME NEW f \in DOMAIN col, NEW g \in DOMAIN col, f # g PROVE col[f] # col[g]
  <2>1. CASE f \in fresh /\ g \in fresh
    <3>1. rank(f) # rank(g) /\ rank(f) \in 0..m-1 /\ rank(g) \in 0..m-1
      BY <1>8, <1>9, <1>13, <2>1
    <3> QED BY <1>3, <1>5, <2>1, <3>1
  <2>2. CASE f \in fresh /\ g \notin fresh
    <3>1. rank(f) \in 0..m-1 /\ d.col[g] \in 0..c-1
      BY <1>2, <1>9, <1>10, <2>2
    <3> QED BY <1>3, <1>5, <2>2, <3>1
  <2>3. CASE f \notin fresh /\ g \in fresh
    <3>1. rank(g) \in 0..m-1 /\ d.col[f] \in 0..c-1
      BY <1>2, <1>9, <1>10, <2>3
    <3> QED BY <1>3, <1>5, <2>3, <3>1
  <2>4. CASE f \notin fresh /\ g \notin fresh
    BY <1>2, <1>5, <1>11, <1>13, <2>4
  <2> QED BY <2>1, <2>2, <2>3, <2>4
<1>14. \A f \in DOMAIN d.col : col[f] = d.col[f]
  BY <1>2, <1>5, <1>10
<1>15. d.cols \in Nat /\ cols \in Nat /\ d.cols <= cols
  BY <1>3, <1>4
<1>16. \A f \in DOMAIN col \ DOMAIN d.col : col[f] >= d.cols
  BY <1>2, <1>3, <1>5, <1>9
<1> QED BY <1>2, <1>12, <1>13, <1>14, <1>15, <1>16 DEF col, cols

\* begin_root leaves nothing of the previous root: the rows of the new one are
\* marked for the root itself, and no other cell is.
FreshDecider(n, fid) ==
  [col |-> [f \in {fid} |-> 0], mask |-> Cells(n, 1), rows |-> n, cols |-> 1]

\* begin_root yields the fresh decider, whatever was left in the mask: only the root
\* is marked, in every row.
LEMMA Begun ==
  ASSUME NEW d, DeciderInv(d), NEW n \in Nat, NEW fid \in Sections
  PROVE  /\ BeginRoot(d, n, fid) = FreshDecider(n, fid)
         /\ DeciderInv(FreshDecider(n, fid)) /\ FreshDecider(n, fid).rows = n
         /\ Marked(FreshDecider(n, fid)) = {<<r, fid>> : r \in 1..n}
<1> DEFINE e == FreshDecider(n, fid)
<1>1. BeginRoot(d, n, fid) = e
  <2>1. (d.mask \ Cells(d.rows, d.cols)) \cup Cells(n, 1) = Cells(n, 1)
    BY DEF DeciderInv
  <2> QED BY <2>1 DEF BeginRoot, FreshDecider
<1>2. /\ e.col = [f \in {fid} |-> 0] /\ e.mask = Cells(n, 1) /\ e.rows = n /\ e.cols = 1
      /\ DOMAIN e.col = {fid} /\ e.col[fid] = 0
  BY DEF FreshDecider
<1>3. Cardinality({fid}) = 1
  BY FS_Singleton
<1>4. DeciderInv(e)
  <2> HIDE DEF e
  <2> QED BY <1>2, <1>3 DEF DeciderInv
<1>5. Marked(e) = {<<r, fid>> : r \in 1..n}
  <2>1. \A r \in 1..n : <<r, 0>> \in Cells(n, 1)
    BY DEF Cells
  <2>2. Marked(e) = {p \in (1..n) \X {fid} : <<p[1], e.col[p[2]]>> \in e.mask}
    BY <1>2 DEF Marked
  <2> HIDE DEF e
  <2>3. ASSUME NEW p \in Marked(e) PROVE p \in {<<r, fid>> : r \in 1..n}
    BY <2>2
  <2>4. ASSUME NEW r \in 1..n PROVE <<r, fid>> \in Marked(e)
    BY <1>2, <2>1, <2>2
  <2> QED BY <2>3, <2>4
<1> QED BY <1>1, <1>2, <1>4, <1>5

\* The row and the function of a pair, which is what a cell of the mask stands for.
Cell(p) == <<p[1], p[2][1]>>

\* One level: what the decider was asked about is marked; a pair that is included
\* was not marked before, is not missing from the pairs, has a row that lacks its
\* function still, and is the only one of its cell.
LEMMA Stepped ==
  ASSUME Catalog, NEW d, DeciderInv(d), NEW pairs \in Seq(Pairs(d.rows))
  PROVE  LET next == StepLevel(d, pairs).dec
             inc == StepLevel(d, pairs).included
         IN  /\ DeciderInv(next) /\ next.rows = d.rows
             /\ Marked(next) = Marked(d) \cup {Cell(p) : p \in ToSet(pairs)}
             /\ inc \in Seq(Pairs(d.rows))
             /\ \A k \in DOMAIN inc :
                  /\ inc[k] \in ToSet(pairs) /\ Cell(inc[k]) \notin Marked(d)
                  /\ \E r \in 1..d.rows : <<r, inc[k][2][1]>> \notin Marked(next)
             /\ \A j, k \in DOMAIN inc : j # k => Cell(inc[j]) # Cell(inc[k])
<1> DEFINE fids == {pairs[i][2][1] : i \in DOMAIN pairs}
           col == AssignColumns(d, fids)
           cells == [i \in DOMAIN pairs |-> <<pairs[i][1], col[pairs[i][2][1]]>>]
           after == d.mask \cup ToSet(cells)
           kept == {i \in DOMAIN pairs : Included(d.mask, after, d.rows, cells, i)}
           next == StepLevel(d, pairs).dec
           inc == StepLevel(d, pairs).included
<1>1. ASSUME NEW i \in DOMAIN pairs
      PROVE  /\ pairs[i] \in Pairs(d.rows)
             /\ pairs[i][1] \in 1..d.rows /\ pairs[i][2] \in Nodes(cat)
             /\ pairs[i][2][1] \in Sections /\ pairs[i][2][1] \in fids
  <2>1. pairs[i] \in Pairs(d.rows)
    OBVIOUS
  <2>2. pairs[i][1] \in 1..d.rows /\ pairs[i][2] \in Nodes(cat)
    BY <2>1 DEF Pairs
  <2> QED BY <2>1, <2>2, CatalogFacts
<1>2. fids \subseteq Sections
  BY <1>1
<1>3. /\ DOMAIN col = DOMAIN d.col \cup fids
      /\ \A f \in DOMAIN d.col : col[f] = d.col[f]
      /\ \A f \in DOMAIN col : col[f] \in 0..Cardinality(DOMAIN col)-1
      /\ \A f, g \in DOMAIN col : f # g => col[f] # col[g]
      /\ \A f \in DOMAIN col \ DOMAIN d.col : col[f] >= d.cols
      /\ d.cols \in Nat /\ Cardinality(DOMAIN col) \in Nat /\ d.cols <= Cardinality(DOMAIN col)
  <2> HIDE DEF fids
  <2> QED BY <1>2, Assigned
<1>4. /\ next = [col |-> col, mask |-> after, rows |-> d.rows, cols |-> Cardinality(DOMAIN col)]
      /\ inc = At(pairs, kept)
  BY DEF StepLevel
<1>5. /\ next.col = col /\ next.mask = after /\ next.rows = d.rows
      /\ next.cols = Cardinality(DOMAIN col)
  <2> HIDE DEF next, inc, kept, after, col
  <2> QED BY <1>4
<1>6. /\ \A c \in ToSet(cells) : \E i \in DOMAIN pairs : c = <<pairs[i][1], col[pairs[i][2][1]]>>
      /\ \A i \in DOMAIN pairs : cells[i] \in ToSet(cells) /\ cells[i] = <<pairs[i][1], col[pairs[i][2][1]]>>
  <2>1. DOMAIN cells = DOMAIN pairs
    OBVIOUS
  <2> QED BY <2>1 DEF ToSet
<1>7. \A i \in DOMAIN pairs : pairs[i][2][1] \in DOMAIN col
  BY <1>1, <1>3
<1>8. d.rows \in Nat /\ DOMAIN d.col \subseteq Sections
  BY DEF DeciderInv
<1>9. \A c \in d.mask : c = <<c[1], c[2]>> /\ c[1] \in 1..d.rows /\ c[2] \in 0..d.cols-1
  BY DEF DeciderInv, Cells
<1>10. after = d.mask \cup ToSet(cells)
  OBVIOUS
<1>11. \A i \in kept : /\ i \in DOMAIN pairs
                       /\ cells[i] \notin d.mask
                       /\ \A j \in 1..i-1 : cells[j] # cells[i]
                       /\ \E r \in 1..d.rows : <<r, cells[i][2]>> \notin after
  BY DEF Included
<1>12. kept \subseteq DOMAIN pairs
  OBVIOUS
<1> HIDE DEF fids, col, cells, after, kept, next, inc
<1>13. DeciderInv(next)
  <2>1. ASSUME NEW c \in ToSet(cells) PROVE c \in Cells(d.rows, Cardinality(DOMAIN col))
    <3>1. PICK i \in DOMAIN pairs : c = <<pairs[i][1], col[pairs[i][2][1]]>>
      BY <1>6
    <3>2. pairs[i][1] \in 1..d.rows /\ col[pairs[i][2][1]] \in 0..Cardinality(DOMAIN col)-1
      BY <1>1, <1>3, <1>7
    <3> QED BY <3>1, <3>2 DEF Cells
  <2>2. \A c \in d.mask : c[2] \in 0..Cardinality(DOMAIN col)-1
    BY <1>3, <1>9
  <2>3. \A c \in d.mask : c \in Cells(d.rows, Cardinality(DOMAIN col))
    BY <1>9, <2>2 DEF Cells
  <2>4. after \subseteq Cells(d.rows, Cardinality(DOMAIN col))
    BY <1>10, <2>1, <2>3
  <2>5. DOMAIN col \subseteq Sections
    BY <1>2, <1>3, <1>8
  <2> QED BY <1>3, <1>5, <1>8, <2>4, <2>5 DEF DeciderInv
\* A cell of the mask stands for one row and one function.
<1>14. ASSUME NEW r \in 1..d.rows, NEW f \in DOMAIN col
       PROVE  <<r, col[f]>> \in after <=>
                 \/ <<r, f>> \in Marked(d)
                 \/ \E i \in DOMAIN pairs : Cell(pairs[i]) = <<r, f>>
  <2>1. <<r, col[f]>> \in d.mask <=> <<r, f>> \in Marked(d)
    <3>1. CASE f \in DOMAIN d.col
      BY <1>3, <3>1 DEF Marked
    <3>2. CASE f \notin DOMAIN d.col
      <4>1. col[f] >= d.cols /\ d.cols \in Nat /\ col[f] \in Nat
        BY <1>3, <3>2
      <4>2. <<r, col[f]>> \notin d.mask
        BY <1>9, <4>1
      <4> QED BY <3>2, <4>2 DEF Marked
    <3> QED BY <3>1, <3>2
  <2>2. ASSUME <<r, col[f]>> \in ToSet(cells)
        PROVE  \E i \in DOMAIN pairs : Cell(pairs[i]) = <<r, f>>
    <3>1. PICK i \in DOMAIN pairs : <<r, col[f]>> = <<pairs[i][1], col[pairs[i][2][1]]>>
      BY <1>6, <2>2
    <3>2. r = pairs[i][1] /\ f = pairs[i][2][1]
      BY <1>3, <1>7, <3>1
    <3> QED BY <3>2 DEF Cell
  <2>3. ASSUME NEW i \in DOMAIN pairs, Cell(pairs[i]) = <<r, f>>
        PROVE  <<r, col[f]>> \in ToSet(cells)
    <3>1. r = pairs[i][1] /\ f = pairs[i][2][1]
      BY <2>3 DEF Cell
    <3> QED BY <1>6, <3>1
  <2> QED BY <1>10, <2>1, <2>2, <2>3
<1>15. \A q \in Marked(d) : q = <<q[1], q[2]>> /\ q[1] \in 1..d.rows /\ q[2] \in DOMAIN d.col
  BY DEF Marked
<1>16. \A p \in ToSet(pairs) : \E i \in DOMAIN pairs : p = pairs[i]
  BY DEF ToSet
<1>17. \A i \in DOMAIN pairs : pairs[i] \in ToSet(pairs)
  BY DEF ToSet
<1>18. \A r \in 1..d.rows : \A f \in DOMAIN col : <<r, f>> \in Marked(next) <=> <<r, col[f]>> \in after
  BY <1>5 DEF Marked
<1>19. \A q \in Marked(next) : q = <<q[1], q[2]>> /\ q[1] \in 1..d.rows /\ q[2] \in DOMAIN col
  BY <1>5 DEF Marked
<1>20. Marked(next) = Marked(d) \cup {Cell(p) : p \in ToSet(pairs)}
  <2>1. ASSUME NEW q \in Marked(next) PROVE q \in Marked(d) \cup {Cell(p) : p \in ToSet(pairs)}
    <3>1. PICK r \in 1..d.rows, f \in DOMAIN col : q = <<r, f>>
      BY <1>19
    <3>2. <<r, col[f]>> \in after
      BY <1>18, <3>1
    <3>3. \/ q \in Marked(d)
          \/ \E i \in DOMAIN pairs : Cell(pairs[i]) = q
      BY <1>14, <3>1, <3>2
    <3> QED BY <1>17, <3>3
  <2>2. ASSUME NEW q \in Marked(d) PROVE q \in Marked(next)
    <3>1. PICK r \in 1..d.rows, f \in DOMAIN d.col : q = <<r, f>>
      BY <1>15
    <3>2. f \in DOMAIN col
      BY <1>3
    <3>3. <<r, col[f]>> \in after
      BY <1>14, <3>1, <3>2
    <3> QED BY <1>18, <3>1, <3>2, <3>3
  <2>3. ASSUME NEW p \in ToSet(pairs) PROVE Cell(p) \in Marked(next)
    <3>1. PICK i \in DOMAIN pairs : p = pairs[i]
      BY <1>16
    <3>2. Cell(p) = <<p[1], p[2][1]>> /\ p[1] \in 1..d.rows /\ p[2][1] \in DOMAIN col
      BY <1>1, <1>7, <3>1 DEF Cell
    <3> QED BY <1>14, <1>18, <3>1, <3>2
  <2> QED BY <2>1, <2>2, <2>3
<1>21. PICK at : /\ inc \in Seq(Pairs(d.rows))
                 /\ at \in [DOMAIN inc -> kept]
                 /\ \A k \in DOMAIN inc : inc[k] = pairs[at[k]]
                 /\ \A j, k \in DOMAIN inc : at[j] = at[k] => j = k
  BY <1>4, <1>12, AtFacts
<1>22. ASSUME NEW k \in DOMAIN inc
       PROVE  /\ inc[k] \in ToSet(pairs) /\ Cell(inc[k]) \notin Marked(d)
              /\ \E r \in 1..d.rows : <<r, inc[k][2][1]>> \notin Marked(next)
  <2>1. at[k] \in kept /\ at[k] \in DOMAIN pairs /\ inc[k] = pairs[at[k]]
    BY <1>12, <1>21
  <2> DEFINE p == pairs[at[k]]
  <2>2. p[1] \in 1..d.rows /\ p[2][1] \in DOMAIN col /\ cells[at[k]] = <<p[1], col[p[2][1]]>>
    BY <1>1, <1>6, <1>7, <2>1
  <2>3. <<p[1], col[p[2][1]]>> \notin d.mask
    BY <1>11, <2>1, <2>2
  <2>4. Cell(p) \notin Marked(d)
    <3>1. ASSUME Cell(p) \in Marked(d) PROVE FALSE
      <4>1. <<p[1], p[2][1]>> \in Marked(d)
        BY <3>1 DEF Cell
      <4>2. p[2][1] \in DOMAIN d.col /\ <<p[1], d.col[p[2][1]]>> \in d.mask
        BY <4>1 DEF Marked
      <4> QED BY <1>3, <2>3, <4>2
    <3> QED BY <3>1
  <2>5. PICK r \in 1..d.rows : <<r, col[p[2][1]]>> \notin after
    BY <1>11, <2>1, <2>2
  <2>6. <<r, p[2][1]>> \notin Marked(next)
    BY <1>18, <2>2, <2>5
  <2> QED BY <1>17, <2>1, <2>4, <2>6
<1>23. ASSUME NEW j \in DOMAIN inc, NEW k \in DOMAIN inc, j # k PROVE Cell(inc[j]) # Cell(inc[k])
  <2>1. at[j] \in kept /\ at[k] \in kept /\ at[j] # at[k] /\ inc[j] = pairs[at[j]] /\ inc[k] = pairs[at[k]]
    BY <1>21, <1>23
  <2>2. at[j] \in DOMAIN pairs /\ at[k] \in DOMAIN pairs /\ DOMAIN pairs = 1..Len(pairs) /\ Len(pairs) \in Nat
    BY <1>12, <2>1
  <2>3. at[j] \in 1..at[k]-1 \/ at[k] \in 1..at[j]-1
    BY <2>1, <2>2
  <2>4. cells[at[j]] # cells[at[k]]
    BY <1>11, <2>1, <2>3
  <2>5. /\ cells[at[j]] = <<pairs[at[j]][1], col[pairs[at[j]][2][1]]>>
        /\ cells[at[k]] = <<pairs[at[k]][1], col[pairs[at[k]][2][1]]>>
    BY <1>6, <2>2
  <2> QED BY <2>1, <2>4, <2>5 DEF Cell
<1> QED BY <1>5, <1>13, <1>20, <1>21, <1>22, <1>23 DEF next, inc

(* -------------------------- types of the state ---------------------------- *)

RowSet == [nodes : Seq(Nodes(cat)), pool : Seq(Nodes(cat)), added : Seq(Nodes(cat))]
WalkSet == [root : Nat, rows : Seq(Nat), depth : Nat, level : Nat,
            frontier : Seq(Nat \X Nodes(cat)), fed : SUBSET (Nat \X Nat),
            reached : SUBSET Nodes(cat)]

InBatch == pc \in {"group", "emit", "pool", "backfill", "scatter"}

BaseInv ==
  /\ Catalog
  /\ pc \in {"build", "build_level", "idle", "group", "emit", "pool", "backfill", "scatter"}
  /\ root \in 1..Len(cat.variants) + 1
  /\ cum \in [0..MaxDepth -> [Nodes(cat) -> Nat]]
  /\ resident \subseteq Sections
  /\ batches \in 0..MaxBatches

BatchInv ==
  /\ batch.groups \in Seq(Groups) /\ batch.depth \in 0..MaxDepth
  /\ batch.backfill \in BOOLEAN /\ batch.len \in Nat
  /\ group \in 0..Len(batch.groups) + 1
  /\ pc \in {"group", "emit", "pool"} => group >= 1
  /\ pc \in {"emit", "pool"} => group <= Len(batch.groups)
  /\ pc \in {"backfill", "scatter"} => group = Len(batch.groups) + 1

OutInv ==
  /\ out \in Seq(RowSet)
  /\ InBatch => Len(out) = IF pc \in {"emit", "pool"} THEN RowsBefore(group + 1)
                           ELSE RowsBefore(group)

\* A walk: whose it is, and what it and the decider know of it.
WalkInv ==
  /\ walk \in WalkSet /\ walk.level <= walk.depth
  /\ walk.frontier \in Seq(Pairs(Len(walk.rows)))
  /\ IsFiniteSet(walk.reached)
  /\ DeciderInv(dec)
  /\ pc = "build_level" => /\ root \in Sections /\ walk.root = root
                           /\ walk.rows = AllVariants(root) /\ walk.depth = MaxDepth
  /\ pc = "emit" => /\ walk.root = batch.groups[group].root
                    /\ walk.rows = batch.groups[group].rows /\ walk.depth = batch.depth
  /\ pc = "pool" => /\ walk.root = batch.groups[group].root
                    /\ walk.rows = AllVariants(walk.root) /\ walk.depth = batch.depth
  /\ Walking => /\ dec.rows = Len(walk.rows)
                /\ Marked(dec) = walk.fed \cup {<<r, walk.root>> : r \in DOMAIN walk.rows}

StateInv == BaseInv /\ BatchInv /\ OutInv /\ WalkInv

\* A group is a root and some of its variants.
LEMMA GroupFacts ==
  ASSUME Catalog, NEW g \in Groups
  PROVE  /\ g.root \in Sections /\ g.rows \in Seq(VariantsOf(g.root)) /\ g.rows \in Seq(Nat)
         /\ Len(g.rows) \in Nat /\ Len(g.rows) # 0
<1>1. PICK s \in Sections : g \in {[root |-> s, rows |-> rows] : rows \in Samples(s)}
  BY DEF Groups
<1>2. PICK rows \in Samples(s) : g = [root |-> s, rows |-> rows]
  BY <1>1
<1>3. PICK V \in (SUBSET VariantsOf(s)) \ {{}} : rows = Ascending(V)
  BY DEF Samples
<1>4. IsFiniteSet(V) /\ V \subseteq Nat
  <2>1. cat.variants[s] \in Nat
    BY CatalogFacts
  <2>2. VariantsOf(s) \subseteq Nat
    BY DEF VariantsOf
  <2>3. IsFiniteSet(1..cat.variants[s])
    BY <2>1, FS_Interval
  <2> QED BY <2>2, <2>3, FS_Subset DEF VariantsOf
<1>5. PICK c \in Nat : rows \in [1..c -> V] /\ c # 0
  <2>1. V # {} /\ rows = Ascending(V)
    BY <1>3
  <2>2. \E c \in Nat : Ascending(V) \in [1..c -> V] /\ (V # {} => c # 0)
    BY <1>4, AscendingFacts
  <2> QED BY <2>1, <2>2
<1>6. rows \in Seq(V) /\ Len(rows) = c
  BY <1>5
<1>7. rows \in Seq(VariantsOf(s)) /\ rows \in Seq(Nat)
  BY <1>4, <1>6, SeqMonotonic
<1> QED BY <1>2, <1>5, <1>6, <1>7

\* The rows of a batch, group by group.
LEMMA RowsBeforeFacts ==
  ASSUME Catalog, batch.groups \in Seq(Groups)
  PROVE  /\ Len(batch.groups) \in Nat /\ RowsBefore(1) = 0
         /\ \A g \in 1..Len(batch.groups) + 1 : RowsBefore(g) \in Nat
         /\ \A g \in 1..Len(batch.groups) :
               /\ batch.groups[g] \in Groups
               /\ RowsBefore(g + 1) = RowsBefore(g) + Len(batch.groups[g].rows)
         /\ \A g, h \in 1..Len(batch.groups) + 1 : g <= h => RowsBefore(g) <= RowsBefore(h)
<1> DEFINE f == [h \in DOMAIN batch.groups |-> Len(batch.groups[h].rows)]
           n == Len(batch.groups)
<1>1. n \in Nat /\ DOMAIN batch.groups = 1..n /\ \A g \in 1..n : batch.groups[g] \in Groups
  OBVIOUS
<1>2. \A g \in 1..n : Len(batch.groups[g].rows) \in Nat
  BY <1>1, GroupFacts
<1>3. f \in [1..n -> Nat]
  BY <1>1, <1>2
<1>4. \A g \in 1..n : f[g] = Len(batch.groups[g].rows)
  BY <1>1
<1>5. \A g : RowsBefore(g) = Sums(f)[g-1]
  BY DEF RowsBefore
<1> HIDE DEF f
<1>6. f \in Seq(Nat) /\ Len(f) = n
  BY <1>1, <1>3
<1>7. /\ \A g \in 0..n : Sums(f)[g] \in Nat
      /\ Sums(f)[0] = 0 /\ \A g \in 1..n : Sums(f)[g] = Sums(f)[g-1] + f[g]
  BY <1>6, SumsFacts
<1> HIDE DEF n
<1>8. \A g \in 1..n+1 : RowsBefore(g) \in Nat
  <2>1. \A g \in 1..n+1 : g - 1 \in 0..n
    BY <1>1
  <2> QED BY <1>5, <1>7, <2>1
<1>9. \A g \in 1..n : RowsBefore(g + 1) = RowsBefore(g) + Len(batch.groups[g].rows)
  <2>1. \A g \in 1..n : (g + 1) - 1 = g
    BY <1>1
  <2> QED BY <1>4, <1>5, <1>7, <2>1
<1>10. ASSUME NEW g \in 1..n+1, NEW h \in 1..n+1, g <= h PROVE RowsBefore(g) <= RowsBefore(h)
  <2>1. g - 1 \in 0..Len(f) /\ h - 1 \in (g-1)..Len(f)
    BY <1>1, <1>6, <1>10
  <2> QED BY <1>5, <1>6, <2>1, SumsGrow
<1>11. RowsBefore(1) = 0
  BY <1>5, <1>7
<1> QED BY <1>1, <1>8, <1>9, <1>10, <1>11 DEF n

\* All variants of a section, as rows.
LEMMA AllVariantsFacts ==
  ASSUME Catalog, NEW s \in Sections
  PROVE  /\ AllVariants(s) \in Seq(VariantsOf(s)) /\ AllVariants(s) \in Seq(Nat)
         /\ Len(AllVariants(s)) = cat.variants[s] /\ cat.variants[s] \in Nat
<1>1. cat.variants[s] \in Nat
  BY CatalogFacts
<1>2. AllVariants(s) \in [1..cat.variants[s] -> VariantsOf(s)]
  BY DEF AllVariants, VariantsOf
<1>3. AllVariants(s) \in Seq(VariantsOf(s)) /\ Len(AllVariants(s)) = cat.variants[s]
  BY <1>1, <1>2
<1>4. VariantsOf(s) \subseteq Nat
  BY DEF VariantsOf
<1> QED BY <1>1, <1>3, <1>4, SeqMonotonic

\* A walk starts with the root in each of its rows.
LEMMA Started ==
  ASSUME Catalog, NEW s \in Sections, NEW rows \in Seq(VariantsOf(s)), NEW depth \in Nat
  PROVE  LET w == StartWalk(s, rows, depth)
         IN  /\ w \in WalkSet /\ w.root = s /\ w.rows = rows /\ w.depth = depth /\ w.level = 0
             /\ w.frontier \in Seq(Pairs(Len(rows)))
             /\ \A i \in DOMAIN w.frontier : w.frontier[i][2][1] = s
             /\ w.fed = {} /\ w.reached = {} /\ IsFiniteSet(w.reached)
<1> DEFINE w == StartWalk(s, rows, depth)
           first == [i \in DOMAIN rows |-> <<i, <<s, rows[i]>>>>]
<1>1. /\ w = [root |-> s, rows |-> rows, depth |-> depth, level |-> 0,
              frontier |-> first, fed |-> {}, reached |-> {}]
  BY DEF StartWalk
<1>2. DOMAIN rows = 1..Len(rows) /\ Len(rows) \in Nat /\ \A i \in DOMAIN rows : rows[i] \in VariantsOf(s)
  OBVIOUS
<1>3. \A i \in 1..Len(rows) : <<i, <<s, rows[i]>>>> \in Pairs(Len(rows))
  BY <1>2, CatalogFacts DEF Pairs
<1>4. first \in [1..Len(rows) -> Pairs(Len(rows))]
  BY <1>2, <1>3
<1>5. \A i \in DOMAIN first : first[i][2][1] = s
  OBVIOUS
<1> HIDE DEF first
<1>6. first \in Seq(Pairs(Len(rows)))
  BY <1>2, <1>4
<1>7. Pairs(Len(rows)) \subseteq Nat \X Nodes(cat)
  BY <1>2 DEF Pairs
<1>8. first \in Seq(Nat \X Nodes(cat))
  BY <1>6, <1>7, SeqMonotonic
<1>9. rows \in Seq(Nat) /\ s \in Nat
  <2>1. VariantsOf(s) \subseteq Nat
    BY DEF VariantsOf
  <2> QED BY <2>1, SeqMonotonic, CatalogFacts
<1>10. IsFiniteSet({})
  BY FS_EmptySet
<1> QED BY <1>1, <1>5, <1>6, <1>8, <1>9, <1>10 DEF WalkSet

\* The nodes of one row, from different pairs.
LEMMA ForRowFacts ==
  ASSUME NEW n \in Nat, NEW pairs \in Seq(Pairs(n)), NEW r
  PROVE  /\ ForRow(pairs, r) \in Seq(Nodes(cat))
         /\ \E at : /\ at \in [DOMAIN ForRow(pairs, r) -> DOMAIN pairs]
                    /\ \A j \in DOMAIN ForRow(pairs, r) : pairs[at[j]] = <<r, ForRow(pairs, r)[j]>>
                    /\ \A j, k \in DOMAIN ForRow(pairs, r) : at[j] = at[k] => j = k
<1> DEFINE K == {i \in DOMAIN pairs : pairs[i][1] = r}
           mine == At(pairs, K)
<1>1. K \subseteq DOMAIN pairs
  OBVIOUS
<1>2. \A i \in K : i \in DOMAIN pairs /\ pairs[i] = <<r, pairs[i][2]>> /\ pairs[i][2] \in Nodes(cat)
  <2>1. \A i \in DOMAIN pairs : pairs[i] \in Pairs(n)
    OBVIOUS
  <2> QED BY <2>1 DEF Pairs
<1> HIDE DEF K
<1>3. PICK at : /\ mine \in Seq(Pairs(n))
                /\ at \in [DOMAIN mine -> K]
                /\ \A j \in DOMAIN mine : mine[j] = pairs[at[j]]
                /\ \A j, k \in DOMAIN mine : at[j] = at[k] => j = k
  BY <1>1, AtFacts
<1>4. ForRow(pairs, r) = [j \in DOMAIN mine |-> mine[j][2]]
  BY DEF ForRow, K
<1>5. DOMAIN mine = 1..Len(mine) /\ Len(mine) \in Nat
  BY <1>3
<1>6. \A j \in DOMAIN mine : /\ at[j] \in DOMAIN pairs /\ mine[j][2] \in Nodes(cat)
                             /\ pairs[at[j]] = <<r, mine[j][2]>>
  BY <1>2, <1>3
<1> HIDE DEF mine
<1>7. ForRow(pairs, r) \in [1..Len(mine) -> Nodes(cat)]
  BY <1>4, <1>5, <1>6
<1>8. ForRow(pairs, r) \in Seq(Nodes(cat)) /\ DOMAIN ForRow(pairs, r) = DOMAIN mine
  BY <1>5, <1>7
<1>9. at \in [DOMAIN ForRow(pairs, r) -> DOMAIN pairs]
  BY <1>3, <1>6, <1>8
<1>10. \A j \in DOMAIN mine : pairs[at[j]] = <<r, ForRow(pairs, r)[j]>>
  BY <1>4, <1>6
<1> QED BY <1>3, <1>8, <1>9, <1>10

\* One level of a walk, whichever of the three it is.
LEMMA Advanced ==
  ASSUME Catalog, WalkInv, Walking, ~WalkEnds, Advance(StepLevel(dec, Edges(walk.frontier)))
  PROVE  LET inc == StepLevel(dec, Edges(walk.frontier)).included
         IN  /\ dec' = StepLevel(dec, Edges(walk.frontier)).dec
             /\ walk' \in WalkSet /\ walk'.root = walk.root /\ walk'.rows = walk.rows
             /\ walk'.depth = walk.depth /\ walk'.level = walk.level + 1 /\ walk'.level <= walk.depth
             /\ walk'.frontier = inc /\ inc \in Seq(Pairs(Len(walk.rows)))
             /\ IsFiniteSet(walk'.reached)
             /\ DeciderInv(dec') /\ dec'.rows = dec.rows
             /\ Marked(dec') = walk'.fed \cup {<<r, walk.root>> : r \in DOMAIN walk.rows}
             /\ walk'.fed = walk.fed \cup {Cell(p) : p \in ToSet(Edges(walk.frontier))}
<1> DEFINE n == Len(walk.rows)
           pairs == Edges(walk.frontier)
           step == StepLevel(dec, pairs)
           inc == step.included
<1>1. /\ walk \in WalkSet /\ walk.frontier \in Seq(Pairs(n)) /\ IsFiniteSet(walk.reached)
      /\ DeciderInv(dec) /\ dec.rows = n
      /\ Marked(dec) = walk.fed \cup {<<r, walk.root>> : r \in DOMAIN walk.rows}
  BY DEF WalkInv
<1>2. n \in Nat /\ walk.level \in Nat /\ walk.depth \in Nat
  BY <1>1 DEF WalkSet
<1>3. pairs \in Seq(Pairs(n))
  <2> HIDE DEF n
  <2> QED BY <1>1, <1>2, EdgesFacts
<1>4. pairs \in Seq(Pairs(dec.rows))
  BY <1>1, <1>3
<1> HIDE DEF n, pairs
<1>5. /\ DeciderInv(step.dec) /\ step.dec.rows = dec.rows
      /\ Marked(step.dec) = Marked(dec) \cup {Cell(p) : p \in ToSet(pairs)}
      /\ inc \in Seq(Pairs(n))
  BY <1>1, <1>4, Stepped
<1> HIDE DEF step
<1>6. /\ dec' = step.dec
      /\ walk' = [walk EXCEPT
                    !.level = @ + 1,
                    !.frontier = inc,
                    !.fed = @ \cup {Cell(p) : p \in ToSet(pairs)},
                    !.reached = @ \cup {p[2] : p \in ToSet(inc)}]
  BY DEF Advance, step, pairs, Cell
<1> HIDE DEF inc
<1>7. \A p \in Pairs(n) : p[1] \in Nat /\ p[2] \in Nodes(cat) /\ p[2][1] \in Nat
  <2>1. \A p \in Pairs(n) : p[1] \in Nat /\ p[2] \in Nodes(cat)
    BY <1>2 DEF Pairs
  <2> QED BY <2>1, CatalogFacts
<1>8. \A p \in ToSet(pairs) : p \in Pairs(n)
  BY <1>3 DEF ToSet
<1>9. \A p \in ToSet(inc) : p \in Pairs(n)
  BY <1>5 DEF ToSet
<1>10. {Cell(p) : p \in ToSet(pairs)} \subseteq Nat \X Nat
  BY <1>7, <1>8 DEF Cell
<1>11. {p[2] : p \in ToSet(inc)} \subseteq Nodes(cat)
  BY <1>7, <1>9
<1>12. IsFiniteSet({p[2] : p \in ToSet(inc)})
  <2>1. ToSet(inc) = {inc[i] : i \in 1..Len(inc)} /\ Len(inc) \in Nat
    BY <1>5 DEF ToSet
  <2>2. IsFiniteSet(1..Len(inc))
    BY <2>1, FS_Interval
  <2> DEFINE f == [i \in 1..Len(inc) |-> inc[i][2]]
  <2>3. f \in Surjection(1..Len(inc), {p[2] : p \in ToSet(inc)})
    BY <2>1 DEF Surjection
  <2> QED BY <2>2, <2>3, FS_Surjection
<1>13. inc \in Seq(Nat \X Nodes(cat))
  <2>1. Pairs(n) \subseteq Nat \X Nodes(cat)
    BY <1>2 DEF Pairs
  <2> QED BY <1>5, <2>1, SeqMonotonic
<1>14. walk.level + 1 <= walk.depth
  BY <1>2 DEF WalkEnds
<1>15. IsFiniteSet(walk.reached \cup {p[2] : p \in ToSet(inc)})
  BY <1>1, <1>12, FS_Union
<1>16. /\ walk'.root = walk.root /\ walk'.rows = walk.rows
       /\ walk'.depth = walk.depth /\ walk'.level = walk.level + 1
       /\ walk'.frontier = inc
       /\ walk'.fed = walk.fed \cup {Cell(p) : p \in ToSet(pairs)}
       /\ walk'.reached = walk.reached \cup {p[2] : p \in ToSet(inc)}
  BY <1>1, <1>6 DEF WalkSet
<1>17. walk' \in WalkSet
  <2>1. walk.level + 1 \in Nat
    BY <1>2
  <2>2. /\ walk.fed \cup {Cell(p) : p \in ToSet(pairs)} \in SUBSET (Nat \X Nat)
        /\ walk.reached \cup {p[2] : p \in ToSet(inc)} \in SUBSET Nodes(cat)
    BY <1>1, <1>10, <1>11 DEF WalkSet
  <2>3. walk' = [root |-> walk.root, rows |-> walk.rows, depth |-> walk.depth,
                 level |-> walk.level + 1, frontier |-> inc,
                 fed |-> walk.fed \cup {Cell(p) : p \in ToSet(pairs)},
                 reached |-> walk.reached \cup {p[2] : p \in ToSet(inc)}]
    BY <1>1, <1>6 DEF WalkSet
  <2>4. walk.root \in Nat /\ walk.rows \in Seq(Nat) /\ walk.depth \in Nat
    BY <1>1 DEF WalkSet
  <2> QED BY <1>13, <2>1, <2>2, <2>3, <2>4 DEF WalkSet
<1>18. Marked(dec') = walk'.fed \cup {<<r, walk.root>> : r \in DOMAIN walk.rows}
  BY <1>1, <1>5, <1>6, <1>16
<1> QED BY <1>5, <1>6, <1>14, <1>15, <1>16, <1>17, <1>18 DEF n, pairs, inc, step

\* The first marks of a walk are those of its root.
LEMMA Restarted ==
  ASSUME Catalog, WalkInv, NEW s \in Sections, NEW rows \in Seq(VariantsOf(s)), NEW depth \in Nat
  PROVE  LET d == BeginRoot(dec, Len(rows), s)
             w == StartWalk(s, rows, depth)
         IN  /\ d = FreshDecider(Len(rows), s) /\ DeciderInv(d) /\ d.rows = Len(rows)
             /\ Marked(d) = w.fed \cup {<<r, s>> : r \in DOMAIN rows}
<1>1. Len(rows) \in Nat /\ DOMAIN rows = 1..Len(rows)
  OBVIOUS
<1>2. DeciderInv(dec)
  BY DEF WalkInv
<1>3. StartWalk(s, rows, depth).fed = {}
  BY Started
<1>4. {<<r, s>> : r \in 1..Len(rows)} = {<<r, s>> : r \in DOMAIN rows}
  BY <1>1
<1> QED BY <1>1, <1>2, <1>3, <1>4, Begun

\* The catalog is fixed: what the operators that read it mean does not change.
LEMMA WalkInvNext ==
  ASSUME Catalog, cat' = cat,
         walk' \in WalkSet, walk'.level <= walk'.depth,
         walk'.frontier \in Seq(Pairs(Len(walk'.rows))),
         IsFiniteSet(walk'.reached), DeciderInv(dec'),
         pc' = "build_level" => /\ root' \in Sections /\ walk'.root = root'
                                /\ walk'.rows = AllVariants(root') /\ walk'.depth = MaxDepth,
         pc' = "emit" => /\ walk'.root = batch'.groups[group'].root
                         /\ walk'.rows = batch'.groups[group'].rows /\ walk'.depth = batch'.depth,
         pc' = "pool" => /\ walk'.root = batch'.groups[group'].root
                         /\ walk'.rows = AllVariants(walk'.root) /\ walk'.depth = batch'.depth,
         pc' \in {"build_level", "emit", "pool"} =>
            /\ dec'.rows = Len(walk'.rows)
            /\ Marked(dec') = walk'.fed \cup {<<r, walk'.root>> : r \in DOMAIN walk'.rows}
  PROVE  WalkInv'
<1>1. WalkSet' = WalkSet /\ Sections' = Sections /\ MaxDepth' = MaxDepth
  BY DEF WalkSet, Sections, MaxDepth
<1>2. walk'.frontier \in Seq((1..Len(walk'.rows)) \X Nodes(cat'))
  BY DEF Pairs
<1>3. DeciderInv(dec)'
  BY DEF DeciderInv, Sections
<1>4. (pc = "build_level" => /\ root \in Sections /\ walk.root = root
                             /\ walk.rows = AllVariants(root) /\ walk.depth = MaxDepth)'
  BY <1>1 DEF AllVariants, VariantsOf
<1>5. (pc = "pool" => /\ walk.root = batch.groups[group].root
                      /\ walk.rows = AllVariants(walk.root) /\ walk.depth = batch.depth)'
  BY DEF AllVariants, VariantsOf
<1>6. (Walking => /\ dec.rows = Len(walk.rows)
                  /\ Marked(dec) = walk.fed \cup {<<r, walk.root>> : r \in DOMAIN walk.rows})'
  BY DEF Walking, Marked
<1> QED BY <1>1, <1>2, <1>3, <1>4, <1>5, <1>6 DEF WalkInv, Pairs

\* A state without a walk keeps the rest of the last one.
LEMMA WalkKept ==
  ASSUME Catalog, cat' = cat, WalkInv, walk' = walk, dec' = dec,
         pc' \notin {"build_level", "emit", "pool"}
  PROVE  WalkInv'
BY WalkInvNext DEF WalkInv

\* No walk, and a decider that was not asked yet.
LEMMA Cleared ==
  ASSUME Catalog
  PROVE  /\ DeciderInv(NewDecider) /\ NoWalk \in WalkSet /\ NoWalk.level <= NoWalk.depth
         /\ NoWalk.frontier \in Seq(Pairs(Len(NoWalk.rows))) /\ IsFiniteSet(NoWalk.reached)
<1>1. /\ NewDecider.col = <<>> /\ NewDecider.mask = {} /\ NewDecider.rows = 0 /\ NewDecider.cols = 0
  BY DEF NewDecider
<1>2. Cardinality({}) = 0 /\ IsFiniteSet({}) /\ DOMAIN <<>> = {}
  BY FS_EmptySet
<1>3. DeciderInv(NewDecider)
  BY <1>1, <1>2 DEF DeciderInv
<1>4. /\ NoWalk.rows = <<>> /\ NoWalk.frontier = <<>> /\ NoWalk.level = 0 /\ NoWalk.depth = 0
      /\ NoWalk.reached = {}
  BY DEF NoWalk
<1>5. <<>> \in Seq(Nat) /\ <<>> \in Seq(Nat \X Nodes(cat)) /\ <<>> \in Seq(Pairs(Len(<<>>)))
  OBVIOUS
<1>6. NoWalk \in WalkSet
  BY <1>5 DEF NoWalk, WalkSet
<1> QED BY <1>2, <1>3, <1>4, <1>5, <1>6

\* The build and a batch end without a walk.
LEMMA WalkCleared ==
  ASSUME Catalog, cat' = cat, walk' = NoWalk, dec' = NewDecider,
         pc' \notin {"build_level", "emit", "pool"}
  PROVE  WalkInv'
BY Cleared, WalkInvNext

\* The batch is fixed until it is done; its groups are taken in turn.
LEMMA BatchKept ==
  ASSUME cat' = cat, BatchInv, batch' = batch,
         group' \in 0..Len(batch.groups) + 1,
         pc' \in {"group", "emit", "pool"} => group' >= 1,
         pc' \in {"emit", "pool"} => group' <= Len(batch.groups),
         pc' \in {"backfill", "scatter"} => group' = Len(batch.groups) + 1
  PROVE  BatchInv'
<1>1. Groups' = Groups /\ MaxDepth' = MaxDepth
  BY DEF Groups, Samples, VariantsOf, Sections, MaxDepth
<1> QED BY <1>1 DEF BatchInv

\* The rows of the groups emitted so far.
LEMMA OutInvNext ==
  ASSUME cat' = cat, batch' = batch, out' \in Seq(RowSet),
         pc' \in {"emit", "pool"} => Len(out') = RowsBefore(group' + 1),
         pc' \in {"group", "backfill", "scatter"} => Len(out') = RowsBefore(group')
  PROVE  OutInv'
<1>1. RowSet' = RowSet
  BY DEF RowSet
<1>2. (InBatch => Len(out) = IF pc \in {"emit", "pool"} THEN RowsBefore(group + 1)
                             ELSE RowsBefore(group))'
  BY DEF InBatch, RowsBefore
<1> QED BY <1>1, <1>2 DEF OutInv

\* The index, the resident sections and the counters.
LEMMA BaseNext ==
  ASSUME BaseInv, cat' = cat,
         pc' \in {"build", "build_level", "idle", "group", "emit", "pool", "backfill", "scatter"},
         root' \in 1..Len(cat.variants) + 1, cum' \in [0..MaxDepth -> [Nodes(cat) -> Nat]],
         resident' \subseteq Sections, batches' \in 0..MaxBatches
  PROVE  BaseInv'
BY DEF BaseInv, Catalog, MaxDepth, Sections

\* The build starts with no walk and no batch.
LEMMA StateInit == Init => StateInv
<1> SUFFICES ASSUME Init PROVE StateInv
  OBVIOUS
<1>1. Catalog
  BY DEF Init, Catalog
<1>2. /\ pc = "build" /\ root = 1 /\ cum = [d \in 0..MaxDepth |-> [n \in Nodes(cat) |-> Own(n)]]
      /\ dec = NewDecider /\ walk = NoWalk /\ resident = {} /\ batch = NoBatch /\ group = 0
      /\ out = <<>> /\ batches = 0
  BY DEF Init
<1>3. BaseInv
  <2>1. cum \in [0..MaxDepth -> [Nodes(cat) -> Nat]]
    BY <1>1, <1>2, CatalogFacts
  <2>2. root \in 1..Len(cat.variants) + 1 /\ batches \in 0..MaxBatches
    BY <1>1, <1>2, CatalogFacts, SpliceAssumption
  <2> QED BY <1>1, <1>2, <2>1, <2>2 DEF BaseInv
<1>4. BatchInv
  <2>1. /\ batch.groups = <<>> /\ batch.depth = 0 /\ batch.backfill = FALSE /\ batch.len = 0
    BY <1>2 DEF NoBatch
  <2>2. MaxDepth \in Nat
    BY <1>1, CatalogFacts
  <2>3. <<>> \in Seq(Groups) /\ Len(<<>>) = 0
    OBVIOUS
  <2>4. batch.depth \in 0..MaxDepth /\ batch.backfill \in BOOLEAN /\ batch.len \in Nat
    <3>1. batch.depth \in 0..MaxDepth /\ batch.len \in Nat
      BY <2>1, <2>2
    <3>2. batch.backfill \in BOOLEAN
      BY <2>1, Zenon
    <3> QED BY <3>1, <3>2
  <2>5. group \in 0..Len(batch.groups) + 1
    BY <1>2, <2>1, <2>3
  <2>6. pc \notin {"group", "emit", "pool", "backfill", "scatter"}
    BY <1>2
  <2> QED BY <2>1, <2>3, <2>4, <2>5, <2>6 DEF BatchInv
<1>5. OutInv
  BY <1>2 DEF OutInv, InBatch
<1>6. WalkInv
  BY <1>1, <1>2, Cleared DEF WalkInv, Walking
<1> QED BY <1>3, <1>4, <1>5, <1>6 DEF StateInv

\* The steps of the index build.
LEMMA StateBuild ==
  ASSUME StateInv, BuildRoot \/ BuildSkip \/ BuildLevel \/ BuildNext \/ BuildEnd
  PROVE  StateInv'
<1>1. BaseInv /\ BatchInv /\ OutInv /\ WalkInv /\ Catalog
  BY DEF StateInv, BaseInv
<1>2. cat' = cat /\ resident' = resident /\ batch' = batch /\ group' = group /\ out' = out /\ batches' = batches
  BY DEF BuildRoot, BuildSkip, BuildLevel, BuildNext, BuildEnd
<1>3. /\ root \in 1..Len(cat.variants) + 1 /\ cum \in [0..MaxDepth -> [Nodes(cat) -> Nat]]
      /\ resident \subseteq Sections /\ batches \in 0..MaxBatches
      /\ Len(cat.variants) \in Nat /\ Sections = 1..Len(cat.variants) /\ MaxDepth \in Nat
  BY <1>1, CatalogFacts DEF BaseInv
<1>4. pc' \in {"build", "build_level", "idle"}
  BY DEF BuildRoot, BuildSkip, BuildLevel, BuildNext, BuildEnd
<1>5. BatchInv'
  BY <1>1, <1>2, <1>4, BatchKept DEF BatchInv
<1>6. OutInv'
  BY <1>1, <1>2, <1>4, OutInvNext DEF OutInv
<1>7. CASE BuildRoot
  <2>1. /\ pc = "build" /\ root \in Sections /\ dec' = BeginRoot(dec, cat.variants[root], root)
        /\ walk' = StartWalk(root, AllVariants(root), MaxDepth)
        /\ pc' = "build_level" /\ root' = root /\ cum' = cum
    BY <1>7 DEF BuildRoot
  <2>2. BaseInv'
    BY <1>1, <1>2, <1>3, <2>1, BaseNext
  <2>3. /\ AllVariants(root) \in Seq(VariantsOf(root))
        /\ Len(AllVariants(root)) = cat.variants[root]
    BY <1>1, <2>1, AllVariantsFacts
  <2>4. /\ walk' \in WalkSet /\ walk'.root = root /\ walk'.rows = AllVariants(root)
        /\ walk'.depth = MaxDepth /\ walk'.level = 0
        /\ walk'.frontier \in Seq(Pairs(Len(walk'.rows))) /\ IsFiniteSet(walk'.reached)
    BY <1>1, <1>3, <2>1, <2>3, Started
  <2>5. /\ DeciderInv(dec') /\ dec'.rows = Len(walk'.rows)
        /\ Marked(dec') = walk'.fed \cup {<<r, walk'.root>> : r \in DOMAIN walk'.rows}
    BY <1>1, <1>3, <2>1, <2>3, <2>4, Restarted
  <2>6. WalkInv'
    BY <1>1, <1>2, <1>3, <2>1, <2>4, <2>5, WalkInvNext
  <2> QED BY <1>5, <1>6, <2>2, <2>6 DEF StateInv
<1>8. CASE BuildSkip
  <2>1. /\ pc' = pc /\ pc = "build" /\ root \in Sections /\ root' = root + 1
        /\ cum' = cum /\ walk' = walk /\ dec' = dec
    BY <1>8 DEF BuildSkip
  <2>2. root' \in 1..Len(cat.variants) + 1
    BY <1>3, <2>1
  <2>3. BaseInv'
    BY <1>1, <1>2, <1>3, <2>1, <2>2, BaseNext
  <2>4. WalkInv'
    BY <1>1, <1>2, <2>1, WalkKept
  <2> QED BY <1>5, <1>6, <2>3, <2>4 DEF StateInv
<1>9. CASE BuildEnd
  <2>1. /\ pc' = "idle" /\ dec' = NewDecider /\ walk' = NoWalk /\ root' = root /\ cum' = cum
    BY <1>9 DEF BuildEnd
  <2>2. BaseInv'
    BY <1>1, <1>2, <1>3, <2>1, BaseNext
  <2>3. WalkInv'
    BY <1>1, <1>2, <2>1, WalkCleared
  <2> QED BY <1>5, <1>6, <2>2, <2>3 DEF StateInv
<1>10. CASE BuildNext
  <2>1. /\ pc = "build_level" /\ pc' = "build" /\ root' = root + 1
        /\ cum' = cum /\ walk' = walk /\ dec' = dec
    BY <1>10 DEF BuildNext
  <2>2. root \in Sections
    BY <1>1, <2>1 DEF WalkInv
  <2>3. root' \in 1..Len(cat.variants) + 1
    BY <1>3, <2>1, <2>2
  <2>4. BaseInv'
    BY <1>1, <1>2, <1>3, <2>1, <2>3, BaseNext
  <2>5. WalkInv'
    BY <1>1, <1>2, <2>1, WalkKept
  <2> QED BY <1>5, <1>6, <2>4, <2>5 DEF StateInv
<1>11. CASE BuildLevel
  <2> DEFINE inc == StepLevel(dec, Edges(walk.frontier)).included
  <2>1. /\ pc = "build_level" /\ pc' = pc /\ root' = root /\ ~WalkEnds /\ Walking
        /\ Advance(StepLevel(dec, Edges(walk.frontier)))
        /\ cum' = [d \in DOMAIN cum |-> [n \in DOMAIN cum[d] |->
                     IF n[1] = root /\ CountedAt(walk.level + 1, d)
                     THEN cum[d][n] + Length(ForRow(inc, n[2]))
                     ELSE cum[d][n]]]
    BY <1>11 DEF BuildLevel, Walking
  <2>2. /\ root \in Sections /\ walk.root = root
        /\ walk.rows = AllVariants(root) /\ walk.depth = MaxDepth
        /\ dec.rows = Len(walk.rows)
    BY <1>1, <2>1 DEF WalkInv, Walking
  <2>3. /\ walk' \in WalkSet /\ walk'.root = walk.root /\ walk'.rows = walk.rows
        /\ walk'.depth = walk.depth /\ walk'.level <= walk.depth
        /\ walk'.frontier = inc /\ inc \in Seq(Pairs(Len(walk.rows)))
        /\ IsFiniteSet(walk'.reached)
        /\ DeciderInv(dec') /\ dec'.rows = dec.rows
        /\ Marked(dec') = walk'.fed \cup {<<r, walk.root>> : r \in DOMAIN walk.rows}
    BY <1>1, <2>1, Advanced
  <2>4. WalkInv'
    BY <1>1, <1>2, <2>1, <2>2, <2>3, WalkInvNext
  <2>5. \A r : Length(ForRow(inc, r)) \in Nat
    <3>1. Len(walk.rows) \in Nat
      BY <1>1 DEF WalkInv, WalkSet
    <3>2. \A r : ForRow(inc, r) \in Seq(Nodes(cat))
      <4> HIDE DEF inc
      <4> QED BY <2>3, <3>1, ForRowFacts
    <3> QED BY <1>1, <3>2, EndFacts
  <2>6. cum' \in [0..MaxDepth -> [Nodes(cat) -> Nat]]
    <3> HIDE DEF inc
    <3> QED BY <1>3, <2>1, <2>5
  <2>7. BaseInv'
    BY <1>1, <1>2, <1>3, <1>4, <2>1, <2>6, BaseNext
  <2> QED BY <1>5, <1>6, <2>4, <2>7 DEF StateInv
<1> QED BY <1>7, <1>8, <1>9, <1>10, <1>11

\* The closure grows hop by hop and stays within the known sections.
LEMMA ReachFacts ==
  ASSUME Catalog, NEW roots, roots \subseteq Sections, NEW n \in Nat
  PROVE  /\ Reach(roots, n) \subseteq Sections /\ roots \subseteq Reach(roots, n)
         /\ Reach(roots, 0) = roots
         /\ \A k \in 0..n : Reach(roots, k) \subseteq Reach(roots, n)
         /\ \A k \in 0..n-1 : Hop(Reach(roots, k)) \subseteq Reach(roots, n)
<1> DEFINE Upto(m, g) == g = [k \in 0..m |-> IF k = 0 THEN roots ELSE g[k-1] \cup Hop(g[k-1])]
           reach(m) == CHOOSE g : Upto(m, g)
<1>1. ASSUME NEW m \in Nat PROVE Upto(m, reach(m))
  <2> DEFINE P == {k \in 0..m : \E g : Upto(k, g)}
  <2>1. 0 \in P
    <3> DEFINE z == [k \in 0..0 |-> roots]
    <3>1. Upto(0, z)
      OBVIOUS
    <3>2. 0 \in 0..m
      OBVIOUS
    <3> HIDE DEF z, Upto
    <3> QED BY <3>1, <3>2
  <2>2. ASSUME NEW k \in 0..m-1, k \in P PROVE k + 1 \in P
    <3>1. PICK g : Upto(k, g)
      BY <2>2
    <3> DEFINE h == [i \in 0..k+1 |-> IF i = k + 1 THEN g[k] \cup Hop(g[k]) ELSE g[i]]
    <3>2. ASSUME NEW i \in 0..k+1 PROVE h[i] = IF i = 0 THEN roots ELSE h[i-1] \cup Hop(h[i-1])
      <4>1. CASE i = k + 1
        <5>1. i # 0 /\ i - 1 = k /\ i - 1 \in 0..k+1 /\ k # k + 1
          BY <4>1
        <5> QED BY <4>1, <5>1
      <4>2. CASE i \in 0..k
        <5>1. i # k + 1 /\ (i # 0 => i - 1 \in 0..k /\ i - 1 # k + 1 /\ i - 1 \in 0..k+1)
          BY <4>2
        <5> QED BY <3>1, <4>2, <5>1
      <4> QED BY <4>1, <4>2
    <3>3. Upto(k + 1, h)
      BY <3>2
    <3>4. k + 1 \in 0..m
      OBVIOUS
    <3> HIDE DEF Upto
    <3> QED BY <3>3, <3>4
  <2>3. m \in P
    <3> HIDE DEF P
    <3>1. \A k \in 0..m : k \in P
      BY <2>1, <2>2, UpTo
    <3> QED BY <3>1
  <2> HIDE DEF Upto
  <2> QED BY <2>3
<1>2. \A m \in Nat : Reach(roots, m) = reach(m)[m]
  BY DEF Reach
<1> HIDE DEF reach
\* The same levels, whatever the number of hops.
<1>3. ASSUME NEW m \in Nat
      PROVE  /\ reach(m)[0] = roots
             /\ \A k \in 0..m-1 : reach(m)[k+1] = reach(m)[k] \cup Hop(reach(m)[k])
  <2>1. Upto(m, reach(m))
    BY <1>1
  <2>2. reach(m)[0] = roots
    BY <2>1
  <2>3. ASSUME NEW k \in 0..m-1 PROVE reach(m)[k+1] = reach(m)[k] \cup Hop(reach(m)[k])
    <3>1. k + 1 \in 0..m /\ k + 1 # 0 /\ (k + 1) - 1 = k
      OBVIOUS
    <3> QED BY <2>1, <3>1
  <2> QED BY <2>2, <2>3
<1> HIDE DEF Upto
<1>4. ASSUME NEW m \in Nat, NEW k \in 0..m PROVE reach(m)[k] = Reach(roots, k)
  <2> DEFINE P == {i \in 0..k : reach(m)[i] = reach(k)[i]}
  <2>1. 0 \in P
    BY <1>3
  <2>2. ASSUME NEW i \in 0..k-1, i \in P PROVE i + 1 \in P
    <3>1. i \in 0..m-1 /\ i + 1 \in 0..k /\ k \in Nat
      OBVIOUS
    <3> QED BY <1>3, <2>2, <3>1
  <2>3. k \in P
    <3> HIDE DEF P
    <3>1. \A i \in 0..k : i \in P
      BY <2>1, <2>2, UpTo
    <3> QED BY <3>1
  <2> QED BY <1>2, <2>3
<1>5. \A k \in 0..n-1 : Reach(roots, k + 1) = Reach(roots, k) \cup Hop(Reach(roots, k))
  <2>1. ASSUME NEW k \in 0..n-1 PROVE Reach(roots, k + 1) = Reach(roots, k) \cup Hop(Reach(roots, k))
    <3>1. k \in 0..n /\ k + 1 \in 0..n
      OBVIOUS
    <3> QED BY <1>3, <1>4, <3>1
  <2> QED BY <2>1
<1>6. Reach(roots, 0) = roots
  BY <1>2, <1>3
<1> HIDE DEF reach
<1>7. \A S : Hop(S) \subseteq Sections
  BY DEF Hop
<1>8. ASSUME NEW k \in 0..n PROVE Reach(roots, k) \subseteq Sections
  <2> DEFINE P == {i \in 0..n : Reach(roots, i) \subseteq Sections}
  <2>1. 0 \in P
    BY <1>6
  <2>2. ASSUME NEW i \in 0..n-1, i \in P PROVE i + 1 \in P
    <3>1. i + 1 \in 0..n
      OBVIOUS
    <3> QED BY <1>5, <1>7, <2>2, <3>1
  <2>3. \A i \in 0..n : i \in P
    <3> HIDE DEF P
    <3> QED BY <2>1, <2>2, UpTo
  <2> QED BY <2>3
<1>9. ASSUME NEW k \in 0..n PROVE Reach(roots, k) \subseteq Reach(roots, n)
  <2> DEFINE m == n - k
             P == {i \in 0..m : Reach(roots, k) \subseteq Reach(roots, k + i)}
  <2>1. m \in Nat /\ k + 0 = k /\ k + m = n
    OBVIOUS
  <2>2. 0 \in P
    BY <2>1
  <2>3. ASSUME NEW i \in 0..m-1, i \in P PROVE i + 1 \in P
    <3>1. i + 1 \in 0..m /\ k + i \in 0..n-1 /\ k + (i + 1) = (k + i) + 1
      BY <2>1
    <3>2. Reach(roots, k + i) \subseteq Reach(roots, (k + i) + 1)
      BY <1>5, <3>1
    <3> QED BY <2>3, <3>1, <3>2
  <2> HIDE DEF m
  <2>4. m \in P
    <3> HIDE DEF P
    <3>1. \A i \in 0..m : i \in P
      BY <2>1, <2>2, <2>3, UpTo
    <3> QED BY <2>1, <3>1
  <2> QED BY <2>1, <2>4
<1>10. ASSUME NEW k \in 0..n-1 PROVE Hop(Reach(roots, k)) \subseteq Reach(roots, n)
  <2>1. k + 1 \in 0..n
    OBVIOUS
  <2> QED BY <1>5, <1>9, <2>1
<1> QED BY <1>6, <1>8, <1>9, <1>10

\* A batch is drawn, and what it walks made resident.
LEMMA StateStart ==
  ASSUME StateInv, NEW groups, groups \in Seq(Groups), NEW depth \in cat.depths,
         NEW backfill \in BOOLEAN, NEW len \in Nat, StartBatch(groups, depth, backfill, len)
  PROVE  StateInv'
<1>1. BaseInv /\ BatchInv /\ OutInv /\ WalkInv /\ Catalog
  BY DEF StateInv, BaseInv
<1>2. /\ pc = "idle" /\ batches < MaxBatches /\ batches' = batches + 1
      /\ batch' = [groups |-> groups, depth |-> depth, backfill |-> backfill, len |-> len]
      /\ resident' = resident \cup Closure({g.root : g \in ToSet(groups)}, depth)
      /\ dec' = NewDecider /\ out' = <<>> /\ group' = 1 /\ pc' = "group"
      /\ cat' = cat /\ root' = root /\ cum' = cum /\ walk' = walk
  BY DEF StartBatch
<1>3. /\ batch'.groups = groups /\ batch'.depth = depth /\ batch'.backfill = backfill
      /\ batch'.len = len
  BY <1>2
<1>4. depth \in 0..MaxDepth /\ MaxDepth \in Nat /\ depth \in Nat
  BY <1>1, CatalogFacts
<1>5. BaseInv'
  <2>1. {g.root : g \in ToSet(groups)} \subseteq Sections
    <3>1. \A g \in ToSet(groups) : g \in Groups
      BY DEF ToSet
    <3> QED BY <1>1, <3>1, GroupFacts
  <2>2. Closure({g.root : g \in ToSet(groups)}, depth) \subseteq Sections
    <3> DEFINE roots == {g.root : g \in ToSet(groups)}
    <3>1. PICK hops \in Nat : Closure(roots, depth) = Reach(roots, hops)
      <4>1. CASE depth = 0
        BY <4>1 DEF Closure
      <4>2. CASE depth # 0
        <5>1. depth - 1 \in Nat
          BY <1>4, <4>2
        <5> QED BY <4>2, <5>1 DEF Closure
      <4> QED BY <4>1, <4>2
    <3> HIDE DEF roots
    <3>2. roots \subseteq Sections
      BY <2>1 DEF roots
    <3>3. Reach(roots, hops) \subseteq Sections
      BY <1>1, <3>2, ReachFacts
    <3> QED BY <3>1, <3>3 DEF roots
  <2>3. resident' \subseteq Sections
    BY <1>1, <1>2, <2>2 DEF BaseInv
  <2>4. batches' \in 0..MaxBatches
    BY <1>1, <1>2, SpliceAssumption DEF BaseInv
  <2>5. root' \in 1..Len(cat.variants) + 1 /\ cum' \in [0..MaxDepth -> [Nodes(cat) -> Nat]]
    BY <1>1, <1>2 DEF BaseInv
  <2> QED BY <1>1, <1>2, <2>3, <2>4, <2>5, BaseNext
<1>6. BatchInv'
  <2>1. Groups' = Groups /\ MaxDepth' = MaxDepth
    BY <1>2 DEF Groups, Samples, VariantsOf, Sections, MaxDepth
  <2>2. Len(groups) \in Nat
    OBVIOUS
  <2>3. (batch.backfill \in BOOLEAN)'
    BY <1>3, Zenon
  <2>4. (batch.groups \in Seq(Groups) /\ batch.depth \in 0..MaxDepth /\ batch.len \in Nat)'
    BY <1>3, <1>4, <2>1
  <2>5. group' \in 0..Len(batch'.groups) + 1 /\ group' >= 1
    BY <1>2, <1>3, <2>2
  <2> QED BY <1>2, <2>3, <2>4, <2>5 DEF BatchInv
<1>7. OutInv'
  <2>1. RowSet' = RowSet
    BY <1>2 DEF RowSet
  <2>2. (Len(out) = RowsBefore(group))'
    <3> DEFINE f == [h \in DOMAIN groups |-> Len(groups[h].rows)]
    <3>1. DOMAIN groups = 1..Len(groups) /\ Len(groups) \in Nat /\ \A h \in DOMAIN groups : groups[h] \in Groups
      OBVIOUS
    <3>2. \A h \in DOMAIN groups : Len(groups[h].rows) \in Nat
      BY <1>1, <3>1, GroupFacts
    <3>3. f \in [1..Len(groups) -> Nat]
      BY <3>1, <3>2
    <3>4. RowsBefore(group)' = Sums(f)[0]
      BY <1>2, <1>3 DEF RowsBefore
    <3> HIDE DEF f
    <3>5. f \in Seq(Nat)
      BY <3>1, <3>3
    <3>6. Sums(f)[0] = 0
      BY <3>5, SumsFacts
    <3> QED BY <1>2, <3>4, <3>6
  <2>3. (out \in Seq(RowSet))'
    BY <1>2
  <2> QED BY <1>2, <2>2, <2>3 DEF OutInv, InBatch
<1>8. WalkInv'
  BY <1>1, <1>2, Cleared, WalkInvNext DEF WalkInv
<1> QED BY <1>5, <1>6, <1>7, <1>8 DEF StateInv

\* Backfill goes through the pool once, and takes what fits at its turn.
Taken(row, len, sofar, n) ==
  n \notin ToSet(row.nodes \o sofar) /\ Own(n) <= len - Total(row.nodes \o sofar)

\* The pool is gone through in order, one function at a time.
LEMMA BackfilledFacts ==
  ASSUME Catalog, NEW row \in RowSet, NEW len
  PROVE  \E a : /\ a \in [0..Len(row.pool) -> Seq(Nodes(cat))]
                /\ a[0] = <<>> /\ Backfilled(row, len) = a[Len(row.pool)]
                /\ \A i \in 1..Len(row.pool) :
                     a[i] = IF Taken(row, len, a[i-1], row.pool[i])
                            THEN Append(a[i-1], row.pool[i]) ELSE a[i-1]
<1> DEFINE Next1(sofar, n) == IF Taken(row, len, sofar, n) THEN Append(sofar, n) ELSE sofar
           m == Len(row.pool)
           Upto(k, g) == g = [i \in 0..k |-> IF i = 0 THEN <<>> ELSE Next1(g[i-1], row.pool[i])]
           a == CHOOSE g : Upto(m, g)
<1>1. row.pool \in Seq(Nodes(cat)) /\ m \in Nat /\ \A i \in 1..m : row.pool[i] \in Nodes(cat)
  BY DEF RowSet
<1>2. Backfilled(row, len) = a[m]
  BY DEF Backfilled, Taken
<1> HIDE DEF Next1, m
<1>3. Upto(m, a)
  <2> DEFINE P == {k \in 0..m : \E g : Upto(k, g)}
  <2>1. 0 \in P
    <3> DEFINE z == [k \in 0..0 |-> <<>>]
    <3>1. Upto(0, z)
      OBVIOUS
    <3>2. 0 \in 0..m
      BY <1>1
    <3> HIDE DEF z, Upto
    <3> QED BY <3>1, <3>2
  <2>2. ASSUME NEW k \in 0..m-1, k \in P PROVE k + 1 \in P
    <3>1. PICK g : Upto(k, g)
      BY <2>2
    <3> DEFINE h == [i \in 0..k+1 |-> IF i = k + 1 THEN Next1(g[k], row.pool[k+1]) ELSE g[i]]
    <3>2. ASSUME NEW i \in 0..k+1 PROVE h[i] = IF i = 0 THEN <<>> ELSE Next1(h[i-1], row.pool[i])
      <4>1. CASE i = k + 1
        <5>1. i # 0 /\ i - 1 = k /\ i - 1 \in 0..k+1 /\ k # k + 1
          BY <1>1, <4>1
        <5> QED BY <4>1, <5>1
      <4>2. CASE i \in 0..k
        <5>1. i # k + 1 /\ (i # 0 => i - 1 \in 0..k /\ i - 1 # k + 1 /\ i - 1 \in 0..k+1)
          BY <1>1, <4>2
        <5> QED BY <3>1, <4>2, <5>1
      <4> QED BY <1>1, <4>1, <4>2
    <3>3. Upto(k + 1, h)
      BY <3>2
    <3>4. k + 1 \in 0..m
      BY <1>1
    <3> HIDE DEF Upto
    <3> QED BY <3>3, <3>4
  <2>3. m \in P
    <3> HIDE DEF P
    <3>1. \A k \in 0..m : k \in P
      BY <1>1, <2>1, <2>2, UpTo
    <3> QED BY <1>1, <3>1
  <2> HIDE DEF Upto
  <2> QED BY <2>3
<1> HIDE DEF a
<1>4. /\ a[0] = <<>> /\ \A i \in 1..m : a[i] = Next1(a[i-1], row.pool[i])
      /\ a = [i \in 0..m |-> a[i]]
  BY <1>1, <1>3
<1> HIDE DEF Upto
<1>5. \A i \in 0..m : a[i] \in Seq(Nodes(cat))
  <2> DEFINE P == {i \in 0..m : a[i] \in Seq(Nodes(cat))}
  <2>1. 0 \in P
    <3>1. <<>> \in Seq(Nodes(cat)) /\ 0 \in 0..m
      BY <1>1
    <3> QED BY <1>4, <3>1
  <2>2. ASSUME NEW i \in 0..m-1, i \in P PROVE i + 1 \in P
    <3>1. i + 1 \in 1..m /\ (i + 1) - 1 = i /\ i + 1 \in 0..m
      BY <1>1
    <3>2. a[i] \in Seq(Nodes(cat)) /\ row.pool[i+1] \in Nodes(cat)
      BY <1>1, <2>2, <3>1
    <3>3. Append(a[i], row.pool[i+1]) \in Seq(Nodes(cat))
      BY <3>2
    <3>4. a[i+1] = Next1(a[i], row.pool[i+1])
      BY <1>4, <3>1
    <3> QED BY <3>1, <3>2, <3>3, <3>4 DEF Next1
  <2>3. \A i \in 0..m : i \in P
    <3> HIDE DEF P
    <3> QED BY <1>1, <2>1, <2>2, UpTo
  <2> QED BY <2>3
<1>6. a \in [0..m -> Seq(Nodes(cat))]
  BY <1>4, <1>5
<1> QED BY <1>2, <1>4, <1>6 DEF m, Next1

\* Rows that are updated one by one.
LEMMA RowsUpdated ==
  ASSUME Catalog, out \in Seq(RowSet), NEW f, f = [i \in DOMAIN out |-> f[i]],
         \A i \in DOMAIN out : f[i] \in RowSet
  PROVE  f \in Seq(RowSet) /\ Len(f) = Len(out) /\ DOMAIN f = DOMAIN out
<1>1. DOMAIN out = 1..Len(out) /\ Len(out) \in Nat
  OBVIOUS
<1>2. f \in [1..Len(out) -> RowSet]
  BY <1>1
<1> QED BY <1>1, <1>2

\* The steps of the emission: the rows of a group are seeded, then extended.
LEMMA StateEmit ==
  ASSUME StateInv, BeginEmit \/ EmitLevel \/ EmitEnd
  PROVE  StateInv'
<1>1. BaseInv /\ BatchInv /\ OutInv /\ WalkInv /\ Catalog
  BY DEF StateInv, BaseInv
<1>2. /\ cat' = cat /\ root' = root /\ cum' = cum /\ resident' = resident /\ batch' = batch
      /\ batches' = batches
  BY DEF BeginEmit, EmitLevel, EmitEnd
<1>3. pc' \in {"emit", "pool", "group"}
  BY DEF BeginEmit, EmitLevel, EmitEnd
<1>4. BaseInv'
  <2>1. /\ root' \in 1..Len(cat.variants) + 1 /\ cum' \in [0..MaxDepth -> [Nodes(cat) -> Nat]]
        /\ resident' \subseteq Sections /\ batches' \in 0..MaxBatches
    BY <1>1, <1>2 DEF BaseInv
  <2> QED BY <1>1, <1>2, <1>3, <2>1, BaseNext
<1>5. group \in 1..Len(batch.groups) /\ batch.groups[group] \in Groups /\ Len(batch.groups) \in Nat
  <2>1. group >= 1 /\ group <= Len(batch.groups) /\ group \in 0..Len(batch.groups) + 1
    BY <1>1 DEF BatchInv, BeginEmit, EmitLevel, EmitEnd
  <2>2. batch.groups \in Seq(Groups)
    BY <1>1 DEF BatchInv
  <2> QED BY <2>1, <2>2
<1> DEFINE g == batch.groups[group]
<1>6. /\ g.root \in Sections /\ g.rows \in Seq(VariantsOf(g.root)) /\ Len(g.rows) \in Nat
      /\ batch.depth \in Nat
  <2>1. batch.depth \in Nat
    BY <1>1, CatalogFacts DEF BatchInv
  <2> QED BY <1>1, <1>5, <2>1, GroupFacts
<1>7. /\ RowsBefore(group) \in Nat /\ RowsBefore(group + 1) \in Nat
      /\ RowsBefore(group + 1) = RowsBefore(group) + Len(g.rows)
  <2>1. group \in 1..Len(batch.groups) + 1 /\ group + 1 \in 1..Len(batch.groups) + 1
    BY <1>5
  <2> QED BY <1>1, <1>5, <2>1, RowsBeforeFacts DEF BatchInv
<1>8. out \in Seq(RowSet)
  BY <1>1 DEF OutInv
<1> HIDE DEF g
<1>9. CASE BeginEmit
  <2> DEFINE new == [i \in DOMAIN g.rows |->
                        [nodes |-> <<<<g.root, g.rows[i]>>>>, pool |-> <<>>, added |-> <<>>]]
  <2>1. /\ pc = "group" /\ pc' = "emit" /\ group' = group
        /\ dec' = BeginRoot(dec, Len(g.rows), g.root)
        /\ walk' = StartWalk(g.root, g.rows, batch.depth)
        /\ out' = out \o new
    BY <1>9 DEF BeginEmit, g
  <2>2. /\ walk' \in WalkSet /\ walk'.root = g.root /\ walk'.rows = g.rows
        /\ walk'.depth = batch.depth /\ walk'.level = 0
        /\ walk'.frontier \in Seq(Pairs(Len(walk'.rows))) /\ IsFiniteSet(walk'.reached)
    BY <1>1, <1>6, <2>1, Started
  <2>3. /\ DeciderInv(dec') /\ dec'.rows = Len(walk'.rows)
        /\ Marked(dec') = walk'.fed \cup {<<r, walk'.root>> : r \in DOMAIN walk'.rows}
    BY <1>1, <1>6, <2>1, <2>2, Restarted
  <2>4. WalkInv'
    <3>1. /\ walk'.root = batch'.groups[group'].root /\ walk'.rows = batch'.groups[group'].rows
          /\ walk'.depth = batch'.depth
      BY <1>2, <2>1, <2>2 DEF g
    <3>2. walk'.level <= walk'.depth
      BY <1>6, <2>2
    <3>3. pc' = "emit" /\ cat' = cat
      BY <1>2, <2>1
    <3> HIDE DEF new
    <3> QED BY <1>1, <2>2, <2>3, <3>1, <3>2, <3>3, WalkInvNext
  <2>5. BatchInv'
    BY <1>1, <1>2, <1>5, <2>1, BatchKept
  <2>6. new \in Seq(RowSet) /\ Len(new) = Len(g.rows)
    <3>1. DOMAIN g.rows = 1..Len(g.rows) /\ \A i \in DOMAIN g.rows : g.rows[i] \in VariantsOf(g.root)
      BY <1>6
    <3>2. \A i \in DOMAIN g.rows : <<g.root, g.rows[i]>> \in Nodes(cat)
      BY <1>1, <1>6, <3>1, CatalogFacts
    <3>3. \A i \in DOMAIN g.rows : <<<<g.root, g.rows[i]>>>> \in Seq(Nodes(cat))
      BY <3>2
    <3>4. \A i \in DOMAIN g.rows : new[i] \in RowSet
      <4>1. <<>> \in Seq(Nodes(cat))
        OBVIOUS
      <4>2. \A s \in Seq(Nodes(cat)) : [nodes |-> s, pool |-> <<>>, added |-> <<>>] \in RowSet
        BY <4>1 DEF RowSet
      <4> QED BY <3>3, <4>2
    <3>5. new \in [1..Len(g.rows) -> RowSet]
      BY <3>1, <3>4
    <3> HIDE DEF new
    <3> QED BY <1>6, <3>5
  <2>7. out' \in Seq(RowSet) /\ Len(out') = RowsBefore(group' + 1)
    <3>1. Len(out) = RowsBefore(group)
      BY <1>1, <2>1 DEF OutInv, InBatch
    <3> HIDE DEF new
    <3>2. out \o new \in Seq(RowSet) /\ Len(out \o new) = Len(out) + Len(new)
      BY <1>8, <2>6
    <3> QED BY <1>7, <2>1, <2>6, <3>1, <3>2
  <2>8. OutInv'
    BY <1>2, <2>1, <2>7, OutInvNext
  <2> QED BY <1>4, <2>4, <2>5, <2>8 DEF StateInv
<1>10. CASE EmitLevel
  <2> DEFINE inc == StepLevel(dec, Edges(walk.frontier)).included
  <2>1. /\ pc = "emit" /\ pc' = pc /\ group' = group /\ ~WalkEnds /\ Walking
        /\ Advance(StepLevel(dec, Edges(walk.frontier)))
        /\ out' = [i \in DOMAIN out |->
                     IF i > RowsBefore(group)
                     THEN [out[i] EXCEPT !.nodes = @ \o ForRow(inc, i - RowsBefore(group))]
                     ELSE out[i]]
    BY <1>10 DEF EmitLevel, Walking
  <2>2. /\ walk.root = g.root /\ walk.rows = g.rows /\ walk.depth = batch.depth
        /\ dec.rows = Len(walk.rows)
    BY <1>1, <2>1 DEF WalkInv, Walking, g
  <2>3. /\ walk' \in WalkSet /\ walk'.root = walk.root /\ walk'.rows = walk.rows
        /\ walk'.depth = walk.depth /\ walk'.level <= walk.depth
        /\ walk'.frontier = inc /\ inc \in Seq(Pairs(Len(walk.rows)))
        /\ IsFiniteSet(walk'.reached)
        /\ DeciderInv(dec') /\ dec'.rows = dec.rows
        /\ Marked(dec') = walk'.fed \cup {<<r, walk.root>> : r \in DOMAIN walk.rows}
    BY <1>1, <2>1, Advanced
  <2>4. WalkInv'
    BY <1>1, <1>2, <2>1, <2>2, <2>3, WalkInvNext DEF g
  <2>5. BatchInv'
    BY <1>1, <1>2, <1>5, <2>1, BatchKept
  <2>6. \A r : ForRow(inc, r) \in Seq(Nodes(cat))
    <3>1. Len(walk.rows) \in Nat
      BY <1>6, <2>2
    <3> HIDE DEF inc
    <3> QED BY <2>3, <3>1, ForRowFacts
  <2> HIDE DEF inc
  <2>7. ASSUME NEW i \in DOMAIN out PROVE out'[i] \in RowSet
    <3>1. out[i] \in RowSet
      BY <1>8
    <3>2. out[i].nodes \o ForRow(inc, i - RowsBefore(group)) \in Seq(Nodes(cat))
      BY <2>6, <3>1 DEF RowSet
    <3> QED BY <2>1, <3>1, <3>2 DEF RowSet
  <2>8. out' \in Seq(RowSet) /\ Len(out') = Len(out)
    <3>1. out' = [i \in DOMAIN out |-> out'[i]]
      BY <2>1
    <3> QED BY <1>1, <1>8, <2>7, <3>1, RowsUpdated
  <2>9. Len(out) = RowsBefore(group + 1)
    BY <1>1, <2>1 DEF OutInv, InBatch
  <2>10. OutInv'
    BY <1>2, <2>1, <2>8, <2>9, OutInvNext
  <2> QED BY <1>4, <2>4, <2>5, <2>10 DEF StateInv
<1>11. CASE EmitEnd
  <2>1. pc = "emit" /\ out' = out
    BY <1>11 DEF EmitEnd
  <2>2. Len(out) = RowsBefore(group + 1) /\ walk.root = g.root
    BY <1>1, <2>1 DEF OutInv, InBatch, WalkInv, g
  <2>3. CASE batch.backfill
    <3>1. /\ dec' = BeginRoot(dec, cat.variants[g.root], g.root)
          /\ walk' = StartWalk(g.root, AllVariants(g.root), batch.depth)
          /\ pc' = "pool" /\ group' = group
      BY <1>11, <2>2, <2>3 DEF EmitEnd
    <3>2. /\ AllVariants(g.root) \in Seq(VariantsOf(g.root))
          /\ Len(AllVariants(g.root)) = cat.variants[g.root]
      BY <1>1, <1>6, AllVariantsFacts
    <3>3. /\ walk' \in WalkSet /\ walk'.root = g.root /\ walk'.rows = AllVariants(g.root)
          /\ walk'.depth = batch.depth /\ walk'.level = 0
          /\ walk'.frontier \in Seq(Pairs(Len(walk'.rows))) /\ IsFiniteSet(walk'.reached)
      BY <1>1, <1>6, <3>1, <3>2, Started
    <3>4. /\ DeciderInv(dec') /\ dec'.rows = Len(walk'.rows)
          /\ Marked(dec') = walk'.fed \cup {<<r, walk'.root>> : r \in DOMAIN walk'.rows}
      BY <1>1, <1>6, <3>1, <3>2, <3>3, Restarted
    <3>5. WalkInv'
      <4>1. /\ walk'.root = batch'.groups[group'].root /\ walk'.rows = AllVariants(walk'.root)
            /\ walk'.depth = batch'.depth
        BY <1>2, <3>1, <3>3 DEF g
      <4>2. walk'.level <= walk'.depth
        BY <1>6, <3>3
      <4>3. pc' = "pool" /\ cat' = cat
        BY <1>2, <3>1
      <4> QED BY <1>1, <3>3, <3>4, <4>1, <4>2, <4>3, WalkInvNext
    <3>6. BatchInv'
      BY <1>1, <1>2, <1>5, <3>1, BatchKept
    <3>7. OutInv'
      BY <1>2, <1>8, <2>1, <2>2, <3>1, OutInvNext
    <3> QED BY <1>4, <3>5, <3>6, <3>7 DEF StateInv
  <2>4. CASE ~batch.backfill
    <3>1. pc' = "group" /\ group' = group + 1 /\ dec' = dec /\ walk' = walk
      BY <1>11, <2>4 DEF EmitEnd
    <3>2. WalkInv'
      BY <1>1, <1>2, <3>1, WalkKept
    <3>3. BatchInv'
      BY <1>1, <1>2, <1>5, <3>1, BatchKept
    <3>4. OutInv'
      BY <1>2, <1>8, <2>1, <2>2, <3>1, OutInvNext
    <3> QED BY <1>4, <3>2, <3>3, <3>4 DEF StateInv
  <2> QED BY <2>3, <2>4
<1> QED BY <1>9, <1>10, <1>11

\* The other steps of a batch: the pool, the geometry, the backfill, the scatter.
LEMMA StateRest ==
  ASSUME StateInv, PoolLevel \/ PoolEnd \/ Geometry \/ Backfill \/ Scatter
  PROVE  StateInv'
<1>1. BaseInv /\ BatchInv /\ OutInv /\ WalkInv /\ Catalog
  BY DEF StateInv, BaseInv
<1>2. cat' = cat /\ root' = root /\ cum' = cum /\ batches' = batches
  BY DEF PoolLevel, PoolEnd, Geometry, Backfill, Scatter
<1>3. pc' \in {"pool", "group", "backfill", "scatter", "idle"}
  BY DEF PoolLevel, PoolEnd, Geometry, Backfill, Scatter
<1>4. resident' \subseteq Sections => BaseInv'
  <2>1. /\ root' \in 1..Len(cat.variants) + 1 /\ cum' \in [0..MaxDepth -> [Nodes(cat) -> Nat]]
        /\ batches' \in 0..MaxBatches
    BY <1>1, <1>2 DEF BaseInv
  <2> QED BY <1>1, <1>2, <1>3, <2>1, BaseNext
<1>5. resident' = resident => BaseInv'
  BY <1>1, <1>4 DEF BaseInv
<1>6. out \in Seq(RowSet) /\ Len(batch.groups) \in Nat
  BY <1>1, RowsBeforeFacts DEF OutInv, BatchInv
<1>7. ASSUME pc = "pool"
      PROVE  /\ group \in 1..Len(batch.groups) /\ Len(out) = RowsBefore(group + 1)
             /\ walk.root = batch.groups[group].root /\ walk.rows = AllVariants(walk.root)
             /\ walk.depth = batch.depth /\ dec.rows = Len(walk.rows)
  <2>1. group >= 1 /\ group <= Len(batch.groups) /\ group \in 0..Len(batch.groups) + 1
    BY <1>1, <1>7 DEF BatchInv
  <2>2. Len(out) = RowsBefore(group + 1)
    BY <1>1, <1>7 DEF OutInv, InBatch
  <2> QED BY <1>1, <1>6, <1>7, <2>1, <2>2 DEF WalkInv, Walking
<1>8. CASE PoolLevel
  <2>1. /\ pc = "pool" /\ pc' = pc /\ group' = group /\ out' = out /\ batch' = batch
        /\ resident' = resident /\ ~WalkEnds /\ Walking
        /\ Advance(StepLevel(dec, Edges(walk.frontier)))
    BY <1>8 DEF PoolLevel, Walking
  <2>2. /\ walk' \in WalkSet /\ walk'.root = walk.root /\ walk'.rows = walk.rows
        /\ walk'.depth = walk.depth /\ walk'.level <= walk.depth
        /\ walk'.frontier \in Seq(Pairs(Len(walk.rows)))
        /\ IsFiniteSet(walk'.reached)
        /\ DeciderInv(dec') /\ dec'.rows = dec.rows
        /\ Marked(dec') = walk'.fed \cup {<<r, walk.root>> : r \in DOMAIN walk.rows}
    BY <1>1, <2>1, Advanced
  <2>3. WalkInv'
    BY <1>1, <1>2, <1>7, <2>1, <2>2, WalkInvNext
  <2>4. BatchInv'
    BY <1>1, <1>2, <1>6, <1>7, <2>1, BatchKept
  <2>5. OutInv'
    BY <1>2, <1>6, <1>7, <2>1, OutInvNext
  <2> QED BY <1>5, <2>1, <2>3, <2>4, <2>5 DEF StateInv
<1>9. CASE PoolEnd
  <2> DEFINE pool(i) == InOrder(walk.reached \ ToSet(out[i].nodes))
  <2>1. /\ pc = "pool" /\ pc' = "group" /\ group' = group + 1 /\ batch' = batch
        /\ dec' = dec /\ walk' = walk /\ resident' = resident
        /\ out' = [i \in DOMAIN out |->
                     IF i > RowsBefore(group) THEN [out[i] EXCEPT !.pool = pool(i)] ELSE out[i]]
    BY <1>9 DEF PoolEnd
  <2>2. ASSUME NEW i \in DOMAIN out PROVE pool(i) \in Seq(Nodes(cat))
    <3> DEFINE rest == walk.reached \ ToSet(out[i].nodes)
    <3>1. IsFiniteSet(walk.reached) /\ walk.reached \subseteq Nodes(cat)
      BY <1>1 DEF WalkInv, WalkSet
    <3>2. rest \subseteq walk.reached
      OBVIOUS
    <3> HIDE DEF rest
    <3>3. IsFiniteSet(rest) /\ rest \subseteq Nodes(cat)
      BY <3>1, <3>2, FS_Subset
    <3>4. Nodes(cat) \subseteq Nat \X Nat
      BY <1>1, CatalogFacts
    <3>5. Cardinality(rest) \in Nat /\ InOrder(rest) \in [1..Cardinality(rest) -> rest]
      BY <3>3, <3>4, Listed
    <3>6. InOrder(rest) \in Seq(Nodes(cat))
      BY <3>3, <3>5
    <3> QED BY <3>6 DEF rest
  <2> HIDE DEF pool
  <2>3. ASSUME NEW i \in DOMAIN out PROVE out'[i] \in RowSet
    <3>1. out[i] \in RowSet
      BY <1>6
    <3> QED BY <2>1, <2>2, <3>1 DEF RowSet
  <2>4. out' \in Seq(RowSet) /\ Len(out') = Len(out)
    <3>1. out' = [i \in DOMAIN out |-> out'[i]]
      BY <2>1
    <3> QED BY <1>1, <1>6, <2>3, <3>1, RowsUpdated
  <2>5. WalkInv'
    BY <1>1, <1>2, <2>1, WalkKept
  <2>6. BatchInv'
    BY <1>1, <1>2, <1>6, <1>7, <2>1, BatchKept
  <2>7. OutInv'
    BY <1>2, <1>7, <2>1, <2>4, OutInvNext
  <2> QED BY <1>5, <2>1, <2>5, <2>6, <2>7 DEF StateInv
<1>10. CASE Geometry
  <2>1. /\ pc = "group" /\ group > Len(batch.groups) /\ batch' = batch /\ group' = group
        /\ resident' = resident \cup UNION {SectionsOf(out[i].nodes) : i \in DOMAIN out}
        /\ pc' \in {"backfill", "scatter"} /\ dec' = dec /\ walk' = walk /\ out' = out
    BY <1>10 DEF Geometry
  <2>2. group = Len(batch.groups) + 1 /\ Len(out) = RowsBefore(group)
    BY <1>1, <1>6, <2>1 DEF BatchInv, OutInv, InBatch
  <2>3. \A i \in DOMAIN out : SectionsOf(out[i].nodes) \subseteq Sections
    <3>1. ASSUME NEW i \in DOMAIN out, NEW n \in ToSet(out[i].nodes) PROVE n[1] \in Sections
      <4>1. out[i] \in RowSet
        BY <1>6
      <4>2. out[i].nodes \in Seq(Nodes(cat))
        BY <4>1 DEF RowSet
      <4>3. n \in Nodes(cat)
        BY <4>2 DEF ToSet
      <4> QED BY <1>1, <4>3, CatalogFacts
    <3> QED BY <3>1 DEF SectionsOf
  <2>4. resident' \subseteq Sections
    BY <1>1, <2>1, <2>3 DEF BaseInv
  <2>5. WalkInv'
    BY <1>1, <1>2, <2>1, WalkKept
  <2>6. BatchInv'
    BY <1>1, <1>2, <1>6, <2>1, <2>2, BatchKept
  <2>7. OutInv'
    BY <1>2, <1>6, <2>1, <2>2, OutInvNext
  <2> QED BY <1>4, <2>4, <2>5, <2>6, <2>7 DEF StateInv
<1>11. CASE Backfill
  <2>1. /\ pc = "backfill" /\ pc' = "scatter" /\ batch' = batch /\ group' = group
        /\ dec' = dec /\ walk' = walk /\ resident' = resident
        /\ out' = [i \in DOMAIN out |-> [out[i] EXCEPT !.added = Backfilled(out[i], batch.len)]]
    BY <1>11 DEF Backfill
  <2>2. group = Len(batch.groups) + 1 /\ Len(out) = RowsBefore(group)
    BY <1>1, <2>1 DEF BatchInv, OutInv, InBatch
  <2>3. ASSUME NEW i \in DOMAIN out PROVE out'[i] \in RowSet
    <3>1. out[i] \in RowSet
      BY <1>6
    <3>2. Len(out[i].pool) \in 0..Len(out[i].pool)
      BY <3>1 DEF RowSet
    <3>3. Backfilled(out[i], batch.len) \in Seq(Nodes(cat))
      BY <1>1, <3>1, <3>2, BackfilledFacts
    <3> QED BY <2>1, <3>1, <3>3 DEF RowSet
  <2>4. out' \in Seq(RowSet) /\ Len(out') = Len(out)
    <3>1. out' = [i \in DOMAIN out |-> out'[i]]
      BY <2>1
    <3> QED BY <1>1, <1>6, <2>3, <3>1, RowsUpdated
  <2>5. WalkInv'
    BY <1>1, <1>2, <2>1, WalkKept
  <2>6. BatchInv'
    BY <1>1, <1>2, <1>6, <2>1, <2>2, BatchKept
  <2>7. OutInv'
    BY <1>2, <2>1, <2>2, <2>4, OutInvNext
  <2> QED BY <1>5, <2>1, <2>5, <2>6, <2>7 DEF StateInv
<1>12. CASE Scatter
  <2>1. /\ pc' = "idle" /\ batch' = NoBatch /\ group' = 0 /\ out' = <<>>
        /\ dec' = NewDecider /\ walk' = NoWalk /\ resident' = resident
    BY <1>12 DEF Scatter
  <2>2. BatchInv'
    <3>1. /\ batch'.groups = <<>> /\ batch'.depth = 0 /\ batch'.backfill = FALSE /\ batch'.len = 0
      BY <2>1 DEF NoBatch
    <3>2. MaxDepth' \in Nat
      BY <1>1, <1>2, CatalogFacts DEF MaxDepth
    <3>3. <<>> \in Seq(Groups') /\ Len(<<>>) = 0
      OBVIOUS
    <3>4. batch'.depth \in 0..MaxDepth' /\ batch'.len \in Nat
      BY <3>1, <3>2
    <3>5. batch'.backfill \in BOOLEAN
      BY <3>1, Zenon
    <3> QED BY <2>1, <3>1, <3>3, <3>4, <3>5 DEF BatchInv
  <2>3. OutInv'
    BY <2>1 DEF OutInv, InBatch
  <2>4. WalkInv'
    BY <1>1, <1>2, <2>1, WalkCleared
  <2> QED BY <1>5, <2>1, <2>2, <2>3, <2>4 DEF StateInv
<1> QED BY <1>8, <1>9, <1>10, <1>11, <1>12

\* Every step, and a step of something else.
LEMMA StateStep == StateInv /\ [Next]_vars => StateInv'
<1> SUFFICES ASSUME StateInv, [Next]_vars PROVE StateInv'
  OBVIOUS
<1>1. CASE BuildRoot \/ BuildSkip \/ BuildLevel \/ BuildNext \/ BuildEnd
  BY <1>1, StateBuild
<1>2. CASE NextBatch
  <2>0. PICK size \in 1..cat.groups : \E groups \in [1..size -> Groups] :
           \E depth \in cat.depths, backfill \in BOOLEAN, len \in cat.lengths :
              StartBatch(groups, depth, backfill, len)
    BY <1>2 DEF NextBatch
  <2>1. PICK groups \in [1..size -> Groups], depth \in cat.depths,
             backfill \in BOOLEAN, len \in cat.lengths : StartBatch(groups, depth, backfill, len)
    BY <2>0
  <2>2. IsCatalog(cat)
    BY CatalogFacts DEF StateInv, BaseInv
  <2>3. size \in Nat /\ len \in Nat
    BY <2>2 DEF IsCatalog
  <2>4. groups \in Seq(Groups)
    BY <2>3
  <2> QED BY <2>1, <2>3, <2>4, StateStart
<1>3. CASE BeginEmit \/ EmitLevel \/ EmitEnd
  BY <1>3, StateEmit
<1>4. CASE PoolLevel \/ PoolEnd \/ Geometry \/ Backfill \/ Scatter
  BY <1>4, StateRest
<1>5. CASE UNCHANGED vars
  <2>1. /\ cat' = cat /\ pc' = pc /\ root' = root /\ cum' = cum /\ dec' = dec /\ walk' = walk
        /\ resident' = resident /\ batch' = batch /\ group' = group /\ out' = out
        /\ batches' = batches
    BY <1>5 DEF vars
  <2>2. BaseInv /\ BatchInv /\ OutInv /\ WalkInv /\ Catalog
    BY DEF StateInv, BaseInv
  <2>3. BaseInv'
    BY <2>1, <2>2 DEF BaseInv, Catalog, Sections, MaxDepth
  <2>4. BatchInv'
    BY <2>1, <2>2 DEF BatchInv, Groups, Samples, Sections, VariantsOf, MaxDepth
  <2>5. OutInv'
    BY <2>1, <2>2 DEF OutInv, RowSet, InBatch, RowsBefore
  <2>6. WalkInv'
    BY <2>1, <2>2, WalkInvNext DEF WalkInv, Walking
  <2> QED BY <2>3, <2>4, <2>5, <2>6 DEF StateInv
<1> QED BY <1>1, <1>2, <1>3, <1>4, <1>5 DEF Next

\* The state keeps its types, the walks and the decider what they know.
LEMMA StateInvariant == Spec => []StateInv
BY StateInit, StateStep, PTL DEF Spec

\* The types, and the mask, of a state of StateInv.
LEMMA StateTypes ==
  ASSUME StateInv
  PROVE  TypeOK
<1>1. BaseInv /\ BatchInv /\ OutInv /\ WalkInv /\ Catalog
  BY DEF StateInv, BaseInv
<1>2. DOMAIN dec.col \subseteq Sections /\ \A f \in DOMAIN dec.col : dec.col[f] \in 0..dec.cols - 1
  BY <1>1 DEF WalkInv, DeciderInv
<1>3. walk.level \in 0..walk.depth
  BY <1>1 DEF WalkInv, WalkSet
<1>4. \A p \in ToSet(walk.frontier) : p[1] \in DOMAIN walk.rows /\ p[2] \in Nodes(cat)
  <2>1. walk.frontier \in Seq(Pairs(Len(walk.rows))) /\ walk.rows \in Seq(Nat)
    BY <1>1 DEF WalkInv, WalkSet
  <2>2. \A p \in ToSet(walk.frontier) : p \in Pairs(Len(walk.rows))
    BY <2>1 DEF ToSet
  <2>3. DOMAIN walk.rows = 1..Len(walk.rows)
    BY <2>1
  <2> QED BY <2>2, <2>3 DEF Pairs
<1>5. ASSUME NEW i \in DOMAIN out
      PROVE  ToSet(out[i].nodes \o out[i].pool \o out[i].added) \subseteq Nodes(cat)
  <2>1. out[i] \in RowSet
    BY <1>1 DEF OutInv
  <2>2. /\ out[i].nodes \in Seq(Nodes(cat)) /\ out[i].pool \in Seq(Nodes(cat))
        /\ out[i].added \in Seq(Nodes(cat))
    BY <2>1 DEF RowSet
  <2>3. out[i].nodes \o out[i].pool \o out[i].added \in Seq(Nodes(cat))
    BY <2>2
  <2>4. \A s \in Seq(Nodes(cat)) : ToSet(s) \subseteq Nodes(cat)
    BY DEF ToSet
  <2> QED BY <2>3, <2>4
<1> QED BY <1>1, <1>2, <1>3, <1>4, <1>5 DEF TypeOK, BaseInv, BatchInv

\* Every reachable state has its types: the decider's columns and the rows' nodes
\* exist in the catalog, and a walk stays within its depth (DeciderState,
\* compute_node_lengths, step_level).
THEOREM TypeCorrect == Spec => []TypeOK
BY StateInvariant, StateTypes, PTL

\* For any catalogs and any order of roots, the decider that is kept over the
\* roots holds, in the region it uses, exactly the marks of the current root, and
\* none outside it: begin_root's reset of the previous root's region is enough.
THEOREM MaskCorrect == Spec => []MaskIsOfThisRoot
<1>1. StateInv => MaskIsOfThisRoot
  <2> SUFFICES ASSUME StateInv PROVE MaskIsOfThisRoot
    OBVIOUS
  <2>1. TypeOK
    BY StateTypes
  <2>2. ASSUME Walking
        PROVE  /\ dec.mask \subseteq Cells(dec.rows, dec.cols)
               /\ \A f, g \in DOMAIN dec.col : f # g => dec.col[f] # dec.col[g]
               /\ Marked(dec) = walk.fed \cup {<<r, walk.root>> : r \in DOMAIN walk.rows}
    BY <2>2 DEF StateInv, WalkInv, DeciderInv
  <2> QED BY <2>1, <2>2 DEF MaskIsOfThisRoot, Marked
<1> QED BY <1>1, StateInvariant, PTL

(* ------------------------- once, and where rows differ -------------------- *)

\* A row that is extended by one level: what it gets was not marked for it, is
\* marked then, and still misses a row.
LEMMA RowExtended ==
  ASSUME Catalog, NEW d, DeciderInv(d), NEW pairs \in Seq(Pairs(d.rows)), NEW r \in 1..d.rows,
         NEW nodes \in Seq(Nodes(cat)),
         \A j \in DOMAIN nodes : <<r, nodes[j][1]>> \in Marked(d),
         \A j, k \in DOMAIN nodes : j # k => nodes[j][1] # nodes[k][1]
  PROVE  LET next == StepLevel(d, pairs).dec
             all == nodes \o ForRow(StepLevel(d, pairs).included, r)
         IN  /\ \A j \in DOMAIN all : <<r, all[j][1]>> \in Marked(next)
             /\ \A j, k \in DOMAIN all : j # k => all[j][1] # all[k][1]
             /\ \A s \in SectionsOf(all) \ SectionsOf(nodes) :
                   \E q \in 1..d.rows : <<q, s>> \notin Marked(next)
<1> DEFINE next == StepLevel(d, pairs).dec
           inc == StepLevel(d, pairs).included
           mine == ForRow(inc, r)
           all == nodes \o mine
<1>1. /\ Marked(next) = Marked(d) \cup {Cell(p) : p \in ToSet(pairs)}
      /\ inc \in Seq(Pairs(d.rows))
      /\ \A k \in DOMAIN inc :
           /\ inc[k] \in ToSet(pairs) /\ Cell(inc[k]) \notin Marked(d)
           /\ \E q \in 1..d.rows : <<q, inc[k][2][1]>> \notin Marked(next)
      /\ \A j, k \in DOMAIN inc : j # k => Cell(inc[j]) # Cell(inc[k])
  BY Stepped
<1> HIDE DEF next, inc
<1>2. PICK at : /\ mine \in Seq(Nodes(cat))
                /\ at \in [DOMAIN mine -> DOMAIN inc]
                /\ \A j \in DOMAIN mine : inc[at[j]] = <<r, mine[j]>>
                /\ \A j, k \in DOMAIN mine : at[j] = at[k] => j = k
  <2>1. inc \in Seq(Pairs(d.rows))
    BY <1>1
  <2>2. d.rows \in Nat
    BY DEF DeciderInv
  <2> HIDE DEF all, mine
  <2>3. /\ ForRow(inc, r) \in Seq(Nodes(cat))
        /\ \E at : /\ at \in [DOMAIN ForRow(inc, r) -> DOMAIN inc]
                   /\ \A j \in DOMAIN ForRow(inc, r) : inc[at[j]] = <<r, ForRow(inc, r)[j]>>
                   /\ \A j, k \in DOMAIN ForRow(inc, r) : at[j] = at[k] => j = k
    BY <2>1, <2>2, ForRowFacts
  <2> QED BY <2>3 DEF mine
<1> HIDE DEF mine
<1>3. ASSUME NEW j \in DOMAIN mine
      PROVE  /\ at[j] \in DOMAIN inc /\ Cell(inc[at[j]]) = <<r, mine[j][1]>>
             /\ <<r, mine[j][1]>> \notin Marked(d) /\ <<r, mine[j][1]>> \in Marked(next)
             /\ \E q \in 1..d.rows : <<q, mine[j][1]>> \notin Marked(next)
  <2>1. at[j] \in DOMAIN inc /\ inc[at[j]] = <<r, mine[j]>>
    BY <1>2
  <2>2. Cell(inc[at[j]]) = <<r, mine[j][1]>> /\ inc[at[j]][2][1] = mine[j][1]
    BY <2>1 DEF Cell
  <2>3. inc[at[j]] \in ToSet(pairs) /\ Cell(inc[at[j]]) \notin Marked(d)
    BY <1>1, <2>1
  <2>4. \E q \in 1..d.rows : <<q, inc[at[j]][2][1]>> \notin Marked(next)
    BY <1>1, <2>1
  <2>5. <<r, mine[j][1]>> \in Marked(next)
    BY <1>1, <2>2, <2>3
  <2> QED BY <2>1, <2>2, <2>3, <2>4, <2>5
<1>4. ASSUME NEW j \in DOMAIN mine, NEW k \in DOMAIN mine, j # k PROVE mine[j][1] # mine[k][1]
  <2>1. at[j] # at[k] /\ at[j] \in DOMAIN inc /\ at[k] \in DOMAIN inc
    BY <1>2, <1>4
  <2>2. Cell(inc[at[j]]) # Cell(inc[at[k]])
    BY <1>1, <2>1
  <2> QED BY <1>3, <2>2
\* A position of the extended row is one of the old row or one of what it gets.
<1>5. /\ DOMAIN nodes = 1..Len(nodes) /\ DOMAIN mine = 1..Len(mine) /\ DOMAIN all = 1..Len(nodes) + Len(mine)
      /\ Len(nodes) \in Nat /\ Len(mine) \in Nat
      /\ \A j \in DOMAIN all : IF j \in DOMAIN nodes THEN all[j] = nodes[j]
                               ELSE j - Len(nodes) \in DOMAIN mine /\ all[j] = mine[j - Len(nodes)]
  BY <1>2
<1> HIDE DEF all
<1>6. ASSUME NEW j \in DOMAIN all PROVE <<r, all[j][1]>> \in Marked(next)
  <2>1. CASE j \in DOMAIN nodes
    BY <1>1, <1>5, <2>1
  <2>2. CASE j \notin DOMAIN nodes
    <3>1. j - Len(nodes) \in DOMAIN mine /\ all[j] = mine[j - Len(nodes)]
      BY <1>5, <2>2
    <3> QED BY <1>3, <3>1
  <2> QED BY <2>1, <2>2
<1>7. ASSUME NEW j \in DOMAIN nodes, NEW k \in DOMAIN mine PROVE nodes[j][1] # mine[k][1]
  BY <1>3
<1>8. ASSUME NEW j \in DOMAIN all, NEW k \in DOMAIN all, j # k PROVE all[j][1] # all[k][1]
  <2>1. CASE j \in DOMAIN nodes /\ k \in DOMAIN nodes
    BY <1>5, <1>8, <2>1
  <2>2. CASE j \in DOMAIN nodes /\ k \notin DOMAIN nodes
    <3>1. k - Len(nodes) \in DOMAIN mine /\ all[k] = mine[k - Len(nodes)] /\ all[j] = nodes[j]
      BY <1>5, <2>2
    <3> QED BY <1>7, <2>2, <3>1
  <2>3. CASE j \notin DOMAIN nodes /\ k \in DOMAIN nodes
    <3>1. j - Len(nodes) \in DOMAIN mine /\ all[j] = mine[j - Len(nodes)] /\ all[k] = nodes[k]
      BY <1>5, <2>3
    <3> QED BY <1>7, <2>3, <3>1
  <2>4. CASE j \notin DOMAIN nodes /\ k \notin DOMAIN nodes
    <3>1. /\ j - Len(nodes) \in DOMAIN mine /\ all[j] = mine[j - Len(nodes)]
          /\ k - Len(nodes) \in DOMAIN mine /\ all[k] = mine[k - Len(nodes)]
      BY <1>5, <2>4
    <3>2. j - Len(nodes) # k - Len(nodes)
      BY <1>5, <1>8
    <3> QED BY <1>4, <3>1, <3>2
  <2> QED BY <2>1, <2>2, <2>3, <2>4
<1>9. ASSUME NEW s \in SectionsOf(all) \ SectionsOf(nodes)
      PROVE  \E q \in 1..d.rows : <<q, s>> \notin Marked(next)
  <2>1. PICK j \in DOMAIN all : s = all[j][1]
    BY DEF SectionsOf, ToSet
  <2>2. j \notin DOMAIN nodes
    BY <1>5, <2>1 DEF SectionsOf, ToSet
  <2>3. j - Len(nodes) \in DOMAIN mine /\ all[j] = mine[j - Len(nodes)]
    BY <1>5, <2>2
  <2> QED BY <1>3, <2>1, <2>3
<1> QED BY <1>6, <1>8, <1>9 DEF all, mine, inc, next

\* What the emission keeps: the rows have a root, splice nothing twice and leave
\* something out, and what the rows in progress have is marked for them.
SpliceInv ==
  /\ OncePerRow
  /\ NothingCommonToAll
  /\ \A i \in DOMAIN out : out[i].nodes # <<>>
  /\ pc = "emit" =>
        \A r \in DOMAIN walk.rows : \A j \in DOMAIN out[RowsBefore(group) + r].nodes :
            <<r, out[RowsBefore(group) + r].nodes[j][1]>> \in Marked(dec)

\* A step that leaves the nodes of the rows alone, and one that drops the rows.
LEMMA RowsKept ==
  ASSUME SpliceInv, cat' = cat, batch' = batch, DOMAIN out' = DOMAIN out,
         \A i \in DOMAIN out : out'[i].nodes = out[i].nodes,
         pc' = "emit" => pc = "emit" /\ UNCHANGED <<dec, walk, group, out>>
  PROVE  SpliceInv'
<1>1. OncePerRow'
  BY DEF SpliceInv, OncePerRow
<1>2. NothingCommonToAll'
  <2>1. \A g : GroupRows(g)' = GroupRows(g)
    BY DEF GroupRows, RowsBefore
  <2>2. \A g : \A i \in GroupRows(g) : SectionsOf(out'[i].nodes) = SectionsOf(out[i].nodes)
    BY DEF GroupRows
  <2>3. ASSUME NEW g \in DOMAIN batch.groups, GroupRows(g) # {},
               NEW s \in Sections \ {batch.groups[g].root}
        PROVE  \E i \in GroupRows(g) : s \notin SectionsOf(out'[i].nodes)
    <3>1. PICK i \in GroupRows(g) : s \notin SectionsOf(out[i].nodes)
      BY <2>3 DEF SpliceInv, NothingCommonToAll
    <3> QED BY <2>2, <3>1
  <2> QED BY <2>1, <2>3 DEF NothingCommonToAll, Sections, SectionsOf
<1>3. \A i \in DOMAIN out' : out'[i].nodes # <<>>
  BY DEF SpliceInv
<1>4. (pc = "emit" =>
         \A r \in DOMAIN walk.rows : \A j \in DOMAIN out[RowsBefore(group) + r].nodes :
             <<r, out[RowsBefore(group) + r].nodes[j][1]>> \in Marked(dec))'
  <2>1. ASSUME pc' = "emit"
        PROVE  (\A r \in DOMAIN walk.rows : \A j \in DOMAIN out[RowsBefore(group) + r].nodes :
                  <<r, out[RowsBefore(group) + r].nodes[j][1]>> \in Marked(dec))'
    <3>1. pc = "emit" /\ dec' = dec /\ walk' = walk /\ group' = group /\ out' = out
      BY <2>1
    <3>2. (RowsBefore(group))' = RowsBefore(group) /\ Marked(dec)' = Marked(dec)
      BY <3>1 DEF RowsBefore, Marked
    <3> QED BY <3>1, <3>2 DEF SpliceInv
  <2> QED BY <2>1
<1> QED BY <1>1, <1>2, <1>3, <1>4 DEF SpliceInv

\* Without rows there is nothing to say of them.
LEMMA RowsDropped ==
  ASSUME out' = <<>>, pc' # "emit"
  PROVE  SpliceInv'
<1>1. DOMAIN out' = {}
  OBVIOUS
<1>2. OncePerRow'
  BY <1>1 DEF OncePerRow
<1>3. \A g : GroupRows(g)' = {}
  BY <1>1 DEF GroupRows
<1> QED BY <1>1, <1>2, <1>3 DEF SpliceInv, NothingCommonToAll

\* The rows of the group in progress follow those of the groups before it.
LEMMA RowsOfGroup ==
  ASSUME Catalog, batch.groups \in Seq(Groups), NEW g \in 1..Len(batch.groups),
         out \in Seq(RowSet), Len(out) = RowsBefore(g + 1)
  PROVE  /\ RowsBefore(g) \in Nat /\ Len(batch.groups[g].rows) \in Nat \ {0}
         /\ Len(out) = RowsBefore(g) + Len(batch.groups[g].rows)
         /\ \A r \in 1..Len(batch.groups[g].rows) : RowsBefore(g) + r \in GroupRows(g)
         /\ \A i \in DOMAIN out : i > RowsBefore(g) =>
               i - RowsBefore(g) \in 1..Len(batch.groups[g].rows)
         /\ \A h \in DOMAIN batch.groups : h # g =>
               /\ \A i \in GroupRows(h) : i <= RowsBefore(g)
               /\ h > g => GroupRows(h) = {}
<1> DEFINE n == Len(batch.groups[g].rows)
<1>1. /\ Len(batch.groups) \in Nat /\ DOMAIN batch.groups = 1..Len(batch.groups)
      /\ DOMAIN out = 1..Len(out) /\ Len(out) \in Nat
  BY RowsBeforeFacts
<1>2. /\ \A h \in 1..Len(batch.groups) + 1 : RowsBefore(h) \in Nat
      /\ RowsBefore(g + 1) = RowsBefore(g) + n
      /\ \A h, k \in 1..Len(batch.groups) + 1 : h <= k => RowsBefore(h) <= RowsBefore(k)
      /\ batch.groups[g] \in Groups
  BY RowsBeforeFacts
<1>3. g \in 1..Len(batch.groups) + 1 /\ g + 1 \in 1..Len(batch.groups) + 1
  BY <1>1
<1>4. n \in Nat \ {0}
  BY <1>2, GroupFacts
<1> HIDE DEF n
<1>5. RowsBefore(g) \in Nat /\ Len(out) = RowsBefore(g) + n
  BY <1>2, <1>3
<1>6. \A r \in 1..n : RowsBefore(g) + r \in GroupRows(g)
  BY <1>1, <1>2, <1>4, <1>5 DEF GroupRows
<1>7. \A i \in DOMAIN out : i > RowsBefore(g) => i - RowsBefore(g) \in 1..n
  BY <1>1, <1>4, <1>5
<1>8. ASSUME NEW h \in DOMAIN batch.groups, h # g
      PROVE  /\ \A i \in GroupRows(h) : i <= RowsBefore(g)
             /\ h > g => GroupRows(h) = {}
  <2>1. h \in 1..Len(batch.groups) + 1 /\ h + 1 \in 1..Len(batch.groups) + 1
    BY <1>1
  <2>2. CASE h < g
    <3>1. h + 1 <= g
      BY <1>1, <2>2
    <3>2. RowsBefore(h + 1) <= RowsBefore(g) /\ RowsBefore(h + 1) \in Nat
      BY <1>2, <1>3, <2>1, <3>1
    <3>3. \A i \in GroupRows(h) : i <= RowsBefore(g)
      BY <1>1, <1>5, <3>2 DEF GroupRows
    <3> QED BY <1>1, <2>2, <3>3
  <2>3. CASE h > g
    <3>1. g + 1 <= h
      BY <1>1, <2>3
    <3>2. RowsBefore(g + 1) <= RowsBefore(h) /\ RowsBefore(h) \in Nat
      BY <1>2, <1>3, <2>1, <3>1
    <3>3. GroupRows(h) = {}
      BY <1>1, <3>2 DEF GroupRows
    <3> QED BY <3>3
  <2> QED BY <1>1, <1>8, <2>2, <2>3
<1> QED BY <1>4, <1>5, <1>6, <1>7, <1>8 DEF n

\* The rows of a group are seeded with their root, behind those of the groups
\* before it.
LEMMA Seeded ==
  ASSUME StateInv, BeginEmit
  PROVE  LET g == batch.groups[group]
             b == RowsBefore(group)
         IN  /\ group \in 1..Len(batch.groups) /\ g \in Groups /\ b \in Nat
             /\ g.root \in Sections /\ g.rows \in Seq(VariantsOf(g.root))
             /\ Len(g.rows) \in Nat \ {0} /\ DOMAIN g.rows = 1..Len(g.rows)
             /\ DOMAIN out = 1..b /\ DOMAIN out' = 1..b + Len(g.rows)
             /\ \A i \in DOMAIN out : out'[i] = out[i]
             /\ \A i \in DOMAIN out' : i \notin DOMAIN out => i - b \in 1..Len(g.rows) /\ i = b + (i - b)
             /\ \A r \in 1..Len(g.rows) : out'[b + r].nodes = <<<<g.root, g.rows[r]>>>>
             /\ \A h \in DOMAIN batch.groups : h # group =>
                   GroupRows(h)' = GroupRows(h) /\ GroupRows(h) \subseteq DOMAIN out
             /\ \A h \in DOMAIN batch.groups : h = group => GroupRows(h)' = DOMAIN out' \ DOMAIN out
<1>1. BaseInv /\ BatchInv /\ OutInv /\ WalkInv /\ Catalog
  BY DEF StateInv, BaseInv
<1> DEFINE g == batch.groups[group]
           new == [i \in DOMAIN g.rows |->
                     [nodes |-> <<<<g.root, g.rows[i]>>>>, pool |-> <<>>, added |-> <<>>]]
<1>2. /\ pc = "group" /\ group' = group /\ batch' = batch
      /\ out' = out \o new /\ group \in 1..Len(batch.groups)
  <2>1. /\ pc = "group" /\ group' = group /\ batch' = batch
        /\ out' = out \o new /\ group <= Len(batch.groups)
    BY DEF BeginEmit
  <2>2. group \in 0..Len(batch.groups) + 1 /\ group >= 1
    BY <1>1, <2>1 DEF BatchInv
  <2> HIDE DEF new
  <2> QED BY <2>1, <2>2
<1>3. /\ batch.groups \in Seq(Groups) /\ Len(batch.groups) \in Nat
      /\ DOMAIN batch.groups = 1..Len(batch.groups) /\ g \in Groups
  <2>1. batch.groups \in Seq(Groups)
    BY <1>1 DEF BatchInv
  <2>2. group \in 1..Len(batch.groups)
    BY <1>2
  <2> HIDE DEF new
  <2> QED BY <2>1, <2>2
<1>4. /\ g.root \in Sections /\ g.rows \in Seq(VariantsOf(g.root)) /\ Len(g.rows) \in Nat \ {0}
      /\ DOMAIN g.rows = 1..Len(g.rows)
  <2>1. g.root \in Sections /\ g.rows \in Seq(VariantsOf(g.root)) /\ Len(g.rows) \in Nat /\ Len(g.rows) # 0
    BY <1>1, <1>3, GroupFacts
  <2> QED BY <2>1
<1>5. Len(out) = RowsBefore(group) /\ out \in Seq(RowSet)
  BY <1>1, <1>2 DEF OutInv, InBatch
<1>6. /\ DOMAIN new = 1..Len(g.rows)
      /\ \A r \in 1..Len(g.rows) : new[r].nodes = <<<<g.root, g.rows[r]>>>>
  BY <1>4
<1>7. \A h : GroupRows(h)' = {i \in DOMAIN out' : i > RowsBefore(h) /\ i <= RowsBefore(h + 1)}
  BY <1>2 DEF RowsBefore, GroupRows
<1>8. /\ RowsBefore(group) \in Nat /\ RowsBefore(group + 1) = RowsBefore(group) + Len(g.rows)
      /\ \A h \in DOMAIN batch.groups : RowsBefore(h) \in Nat /\ RowsBefore(h + 1) \in Nat
      /\ \A h \in DOMAIN batch.groups : h < group => RowsBefore(h + 1) <= RowsBefore(group)
      /\ \A h \in DOMAIN batch.groups : h > group => RowsBefore(h) >= RowsBefore(group + 1)
  <2>1. /\ \A h \in DOMAIN batch.groups : h \in 1..Len(batch.groups) + 1 /\ h + 1 \in 1..Len(batch.groups) + 1
        /\ \A h \in DOMAIN batch.groups : h < group => h + 1 <= group
        /\ \A h \in DOMAIN batch.groups : h > group => h >= group + 1
        /\ group \in 1..Len(batch.groups) + 1 /\ group + 1 \in 1..Len(batch.groups) + 1
    <3>1. group \in 1..Len(batch.groups)
      BY <1>2
    <3>2. Len(batch.groups) \in Nat /\ DOMAIN batch.groups = 1..Len(batch.groups)
      BY <1>3
    <3> HIDE DEF g, new
    <3> QED BY <3>1, <3>2
  <2>2. /\ \A h \in 1..Len(batch.groups) + 1 : RowsBefore(h) \in Nat
        /\ RowsBefore(group + 1) = RowsBefore(group) + Len(g.rows)
        /\ \A h, k \in 1..Len(batch.groups) + 1 : h <= k => RowsBefore(h) <= RowsBefore(k)
    BY <1>1, <1>2, <1>3, RowsBeforeFacts
  <2> HIDE DEF g
  <2> QED BY <2>1, <2>2
<1> HIDE DEF g, new
<1>9. /\ DOMAIN out = 1..RowsBefore(group)
      /\ DOMAIN out' = 1..RowsBefore(group) + Len(g.rows)
      /\ \A i \in DOMAIN out : out'[i] = out[i]
      /\ \A r \in 1..Len(g.rows) : out'[RowsBefore(group) + r].nodes = <<<<g.root, g.rows[r]>>>>
  <2> DEFINE S == RowSet \cup {new[i] : i \in 1..Len(g.rows)}
  <2>0. new = [i \in 1..Len(g.rows) |-> new[i]]
    BY <1>4, <1>6 DEF new
  <2>1. new \in Seq(S) /\ out \in Seq(S)
    <3>1. new \in [1..Len(g.rows) -> S]
      BY <2>0
    <3>2. RowSet \subseteq S
      OBVIOUS
    <3> HIDE DEF S
    <3>3. new \in Seq(S)
      BY <1>4, <3>1
    <3>4. out \in Seq(S)
      BY <1>5, <3>2, SeqMonotonic
    <3> QED BY <3>3, <3>4
  <2> HIDE DEF S
  <2>2. Len(new) = Len(g.rows)
    BY <1>4, <1>6, <2>1
  <2>3. /\ Len(out \o new) = Len(out) + Len(new) /\ DOMAIN (out \o new) = 1..Len(out) + Len(new)
        /\ \A i \in 1..Len(out) : (out \o new)[i] = out[i]
        /\ \A i \in 1..Len(new) : (out \o new)[Len(out) + i] = new[i]
    BY <2>1
  <2>4. DOMAIN out = 1..Len(out)
    BY <1>5
  <2> QED BY <1>2, <1>5, <1>6, <2>2, <2>3, <2>4
<1>10. \A i \in DOMAIN out' : i \notin DOMAIN out =>
          i - RowsBefore(group) \in 1..Len(g.rows) /\ i = RowsBefore(group) + (i - RowsBefore(group))
  BY <1>4, <1>8, <1>9
<1>11. ASSUME NEW h \in DOMAIN batch.groups, h # group
       PROVE  GroupRows(h)' = GroupRows(h) /\ GroupRows(h) \subseteq DOMAIN out
  <2>1. CASE h < group
    <3>1. \A i \in DOMAIN out' : i <= RowsBefore(h + 1) => i \in DOMAIN out
      BY <1>8, <1>9, <2>1
    <3>2. \A i \in DOMAIN out : i \in DOMAIN out'
      BY <1>4, <1>8, <1>9
    <3> QED BY <1>7, <3>1, <3>2 DEF GroupRows
  <2>2. CASE h > group
    <3>1. \A i \in DOMAIN out' : ~(i > RowsBefore(h))
      BY <1>4, <1>8, <1>9, <2>2
    <3>2. \A i \in DOMAIN out : i \in DOMAIN out'
      BY <1>4, <1>8, <1>9
    <3> QED BY <1>7, <3>1, <3>2 DEF GroupRows
  <2>3. h < group \/ h > group
    BY <1>2, <1>3, <1>11
  <2> QED BY <2>1, <2>2, <2>3
<1>12. ASSUME NEW h \in DOMAIN batch.groups, h = group
       PROVE  GroupRows(h)' = DOMAIN out' \ DOMAIN out
  <2>1. \A i \in DOMAIN out' : i > RowsBefore(group) /\ i <= RowsBefore(group + 1) <=> i \notin DOMAIN out
    BY <1>4, <1>8, <1>9
  <2> QED BY <1>7, <1>12, <2>1
<1> QED BY <1>2, <1>3, <1>4, <1>8, <1>9, <1>10, <1>11, <1>12 DEF g

\* A group begins with its root in every row, and nothing else.
LEMMA SpliceBegin ==
  ASSUME StateInv, SpliceInv, BeginEmit
  PROVE  SpliceInv'
<1> DEFINE g == batch.groups[group]
           b == RowsBefore(group)
<1>1. /\ pc' = "emit" /\ group' = group /\ batch' = batch /\ cat' = cat
      /\ dec' = BeginRoot(dec, Len(g.rows), g.root)
      /\ walk' = StartWalk(g.root, g.rows, batch.depth)
  BY DEF BeginEmit
<1>2. /\ g.root \in Sections /\ Len(g.rows) \in Nat \ {0} /\ DOMAIN g.rows = 1..Len(g.rows)
      /\ b \in Nat /\ DOMAIN out = 1..b /\ DOMAIN out' = 1..b + Len(g.rows)
      /\ \A i \in DOMAIN out : out'[i] = out[i]
      /\ \A i \in DOMAIN out' : i \notin DOMAIN out => i - b \in 1..Len(g.rows) /\ i = b + (i - b)
      /\ \A r \in 1..Len(g.rows) : out'[b + r].nodes = <<<<g.root, g.rows[r]>>>>
      /\ \A h \in DOMAIN batch.groups : h # group =>
            GroupRows(h)' = GroupRows(h) /\ GroupRows(h) \subseteq DOMAIN out
      /\ \A h \in DOMAIN batch.groups : h = group => GroupRows(h)' = DOMAIN out' \ DOMAIN out
  BY Seeded
<1>3. (RowsBefore(group))' = b
  BY <1>1 DEF RowsBefore
<1> HIDE DEF g, b
<1>4. ASSUME NEW i \in DOMAIN out', i \notin DOMAIN out
      PROVE  \E r \in 1..Len(g.rows) : out'[i].nodes = <<<<g.root, g.rows[r]>>>>
  <2>1. i - b \in 1..Len(g.rows) /\ i = b + (i - b)
    BY <1>2, <1>4
  <2>2. out'[b + (i - b)].nodes = <<<<g.root, g.rows[i - b]>>>>
    BY <1>2, <2>1
  <2> QED BY <2>1, <2>2
<1>5. OncePerRow'
  <2>1. ASSUME NEW i \in DOMAIN out', NEW j \in DOMAIN out'[i].nodes, NEW k \in DOMAIN out'[i].nodes, j # k
        PROVE  out'[i].nodes[j][1] # out'[i].nodes[k][1]
    <3>1. CASE i \in DOMAIN out
      BY <1>2, <2>1, <3>1 DEF SpliceInv, OncePerRow
    <3>2. CASE i \notin DOMAIN out
      BY <1>4, <2>1, <3>2
    <3> QED BY <3>1, <3>2
  <2> QED BY <2>1 DEF OncePerRow
<1>6. ASSUME NEW i \in DOMAIN out' PROVE out'[i].nodes # <<>>
  <2>1. CASE i \in DOMAIN out
    BY <1>2, <2>1 DEF SpliceInv
  <2>2. CASE i \notin DOMAIN out
    <3>1. PICK r : out'[i].nodes = <<<<g.root, g.rows[r]>>>>
      BY <1>4, <2>2
    <3> QED BY <3>1
  <2> QED BY <2>1, <2>2
<1>7. NothingCommonToAll'
  <2>1. ASSUME NEW h \in DOMAIN batch.groups, GroupRows(h)' # {},
               NEW s \in Sections \ {batch.groups[h].root}
        PROVE  \E i \in GroupRows(h)' : s \notin SectionsOf(out'[i].nodes)
    <3>1. CASE h # group
      <4>1. PICK i \in GroupRows(h) : s \notin SectionsOf(out[i].nodes)
        BY <1>2, <2>1, <3>1 DEF SpliceInv, NothingCommonToAll
      <4>2. out'[i].nodes = out[i].nodes /\ i \in GroupRows(h)'
        BY <1>2, <3>1, <4>1
      <4> QED BY <4>1, <4>2
    <3>2. CASE h = group
      <4>1. PICK i \in GroupRows(h)' : i \in DOMAIN out' /\ i \notin DOMAIN out
        BY <1>2, <2>1, <3>2
      <4>2. PICK r : out'[i].nodes = <<<<g.root, g.rows[r]>>>>
        BY <1>4, <4>1
      <4>3. SectionsOf(<<<<g.root, g.rows[r]>>>>) = {g.root}
        BY DEF SectionsOf, ToSet
      <4>4. s # g.root
        BY <2>1, <3>2 DEF g
      <4> QED BY <4>1, <4>2, <4>3, <4>4
    <3> QED BY <3>1, <3>2
  <2> QED BY <1>1, <2>1 DEF NothingCommonToAll, Sections, SectionsOf
<1>8. ASSUME NEW r \in DOMAIN walk'.rows, NEW j \in DOMAIN out'[b + r].nodes
      PROVE  <<r, out'[b + r].nodes[j][1]>> \in Marked(dec')
  <2>1. r \in 1..Len(g.rows)
    BY <1>1, <1>2 DEF StartWalk
  <2>2. Marked(dec') = {<<q, g.root>> : q \in 1..Len(g.rows)}
    <3>1. DeciderInv(dec)
      BY DEF StateInv, WalkInv
    <3>2. dec' = BeginRoot(dec, Len(g.rows), g.root)
      BY <1>1
    <3>3. /\ BeginRoot(dec, Len(g.rows), g.root) = FreshDecider(Len(g.rows), g.root)
          /\ Marked(FreshDecider(Len(g.rows), g.root)) = {<<q, g.root>> : q \in 1..Len(g.rows)}
      BY <1>2, <3>1, Begun, SMTT(60)
    <3> QED BY <3>2, <3>3
  <2>3. out'[b + r].nodes = <<<<g.root, g.rows[r]>>>>
    BY <1>2, <2>1
  <2>4. j = 1
    BY <2>3
  <2> QED BY <2>1, <2>2, <2>3, <2>4
<1>9. (pc = "emit" =>
          \A r \in DOMAIN walk.rows : \A j \in DOMAIN out[RowsBefore(group) + r].nodes :
              <<r, out[RowsBefore(group) + r].nodes[j][1]>> \in Marked(dec))'
  <2>1. Marked(dec)' = Marked(dec')
    BY DEF Marked
  <2> QED BY <1>3, <1>8, <2>1
<1> QED BY <1>5, <1>6, <1>7, <1>9 DEF SpliceInv

\* The rows of a group are extended by what a level includes.
LEMMA SpliceLevel ==
  ASSUME StateInv, SpliceInv, EmitLevel
  PROVE  SpliceInv'
<1>1. BaseInv /\ BatchInv /\ OutInv /\ WalkInv /\ Catalog
  BY DEF StateInv, BaseInv
<1> DEFINE g == batch.groups[group]
           n == Len(g.rows)
           b == RowsBefore(group)
           pairs == Edges(walk.frontier)
           step == StepLevel(dec, pairs)
           all(i) == out[i].nodes \o ForRow(step.included, i - b)
<1>2. /\ pc = "emit" /\ pc' = pc /\ group' = group /\ batch' = batch /\ cat' = cat
      /\ dec' = step.dec /\ walk'.rows = walk.rows
      /\ out' = [i \in DOMAIN out |-> IF i > b THEN [out[i] EXCEPT !.nodes = all(i)] ELSE out[i]]
      /\ ~WalkEnds /\ Walking /\ Advance(StepLevel(dec, Edges(walk.frontier)))
  BY <1>1 DEF EmitLevel, Advance, Walking
<1>3. /\ batch.groups \in Seq(Groups) /\ group \in 1..Len(batch.groups)
      /\ out \in Seq(RowSet) /\ Len(out) = RowsBefore(group + 1)
  BY <1>1, <1>2 DEF BatchInv, OutInv, InBatch
<1>4. /\ b \in Nat /\ n \in Nat \ {0} /\ Len(out) = b + n
      /\ \A r \in 1..n : b + r \in GroupRows(group)
      /\ \A i \in DOMAIN out : i > b => i - b \in 1..n
      /\ \A h \in DOMAIN batch.groups : h # group =>
            /\ \A i \in GroupRows(h) : i <= b
            /\ h > group => GroupRows(h) = {}
  BY <1>1, <1>3, RowsOfGroup
<1>5. /\ walk.rows = g.rows /\ dec.rows = n /\ DeciderInv(dec) /\ walk.root = g.root
      /\ Marked(dec) = walk.fed \cup {<<r, walk.root>> : r \in DOMAIN walk.rows}
  BY <1>1, <1>2 DEF WalkInv, Walking
<1>6. g.rows \in Seq(Nat) /\ DOMAIN g.rows = 1..n
  <2>1. g \in Groups
    BY <1>3
  <2> QED BY <1>1, <2>1, GroupFacts
<1>7. pairs \in Seq(Pairs(dec.rows))
  <2>1. walk.frontier \in Seq(Pairs(n))
    BY <1>1, <1>5 DEF WalkInv
  <2> QED BY <1>1, <1>4, <1>5, <2>1, EdgesFacts
<1> HIDE DEF g, n, pairs, b
<1>8. ASSUME NEW i \in DOMAIN out, i > b
      PROVE  /\ \A j \in DOMAIN all(i) : <<i - b, all(i)[j][1]>> \in Marked(dec')
             /\ \A j, k \in DOMAIN all(i) : j # k => all(i)[j][1] # all(i)[k][1]
             /\ \A s \in SectionsOf(all(i)) \ SectionsOf(out[i].nodes) :
                   \E q \in 1..n : <<q, s>> \notin Marked(dec')
             /\ all(i) # <<>>
  <2> DEFINE r == i - b
             nodes == out[i].nodes
  <2>1. r \in 1..dec.rows /\ r \in DOMAIN walk.rows /\ i = b + r /\ b \in Nat
    <3>1. i - b \in 1..n
      BY <1>4, <1>8
    <3>2. i \in Nat
      BY <1>3
    <3>3. i = b + (i - b)
      BY <1>4, <3>2
    <3> QED BY <1>4, <1>5, <1>6, <3>1, <3>3
  <2>2. nodes \in Seq(Nodes(cat))
    <3>1. out[i] \in RowSet
      BY <1>3
    <3> QED BY <3>1 DEF RowSet
  <2>3. \A j \in DOMAIN nodes : <<r, nodes[j][1]>> \in Marked(dec)
    <3> HIDE DEF r
    <3>1. \A j \in DOMAIN out[b + r].nodes : <<r, out[b + r].nodes[j][1]>> \in Marked(dec)
      BY <1>2, <2>1 DEF SpliceInv, b
    <3> QED BY <2>1, <3>1
  <2>4. \A j, k \in DOMAIN nodes : j # k => nodes[j][1] # nodes[k][1]
    BY DEF SpliceInv, OncePerRow
  <2>5. nodes # <<>>
    BY DEF SpliceInv
  <2> HIDE DEF r, nodes, step
  <2>6. /\ \A j \in DOMAIN (nodes \o ForRow(StepLevel(dec, pairs).included, r)) :
              <<r, (nodes \o ForRow(StepLevel(dec, pairs).included, r))[j][1]>>
                 \in Marked(StepLevel(dec, pairs).dec)
        /\ \A j, k \in DOMAIN (nodes \o ForRow(StepLevel(dec, pairs).included, r)) :
              j # k => (nodes \o ForRow(StepLevel(dec, pairs).included, r))[j][1]
                          # (nodes \o ForRow(StepLevel(dec, pairs).included, r))[k][1]
        /\ \A s \in SectionsOf(nodes \o ForRow(StepLevel(dec, pairs).included, r)) \ SectionsOf(nodes) :
              \E q \in 1..dec.rows : <<q, s>> \notin Marked(StepLevel(dec, pairs).dec)
    BY <1>1, <1>5, <1>7, <2>1, <2>2, <2>3, <2>4, RowExtended
  <2>7. nodes \o ForRow(step.included, r) # <<>>
    <3>1. ForRow(step.included, r) \in Seq(Nodes(cat))
      <4>1. step.included \in Seq(Pairs(dec.rows)) /\ dec.rows \in Nat
        BY <1>1, <1>4, <1>5, <1>7, Stepped DEF step
      <4> QED BY <4>1, ForRowFacts
    <3> QED BY <2>2, <2>5, <3>1
  <2> QED BY <1>2, <1>5, <2>6, <2>7 DEF r, nodes, step
<1> HIDE DEF all, step
<1>9. /\ DOMAIN out' = DOMAIN out
      /\ \A i \in DOMAIN out : i > b => out'[i].nodes = all(i)
      /\ \A i \in DOMAIN out : ~(i > b) => out'[i] = out[i]
  <2>1. \A i \in DOMAIN out : out[i] \in RowSet
    BY <1>3
  <2> QED BY <1>2, <2>1 DEF RowSet
<1>10. OncePerRow'
  <2>1. ASSUME NEW i \in DOMAIN out', NEW j \in DOMAIN out'[i].nodes, NEW k \in DOMAIN out'[i].nodes, j # k
        PROVE  out'[i].nodes[j][1] # out'[i].nodes[k][1]
    <3>1. CASE i > b
      BY <1>8, <1>9, <2>1, <3>1
    <3>2. CASE ~(i > b)
      BY <1>9, <2>1, <3>2 DEF SpliceInv, OncePerRow
    <3> QED BY <3>1, <3>2
  <2> QED BY <2>1 DEF OncePerRow
<1>11. ASSUME NEW i \in DOMAIN out' PROVE out'[i].nodes # <<>>
  <2>1. CASE i > b
    BY <1>8, <1>9, <2>1
  <2>2. CASE ~(i > b)
    BY <1>9, <2>2 DEF SpliceInv
  <2> QED BY <2>1, <2>2
\* What a row has is marked for it: a function with a row that is not marked is
\* not in that row.
<1>12. ASSUME NEW q \in 1..n, NEW s, <<q, s>> \notin Marked(dec')
       PROVE  b + q \in GroupRows(group) /\ s \notin SectionsOf(out'[b + q].nodes)
  <2>1. b + q \in GroupRows(group) /\ b + q \in DOMAIN out /\ b + q > b /\ (b + q) - b = q
    BY <1>4 DEF GroupRows
  <2>2. \A j \in DOMAIN all(b + q) : <<q, all(b + q)[j][1]>> \in Marked(dec')
    BY <1>8, <2>1
  <2>3. s \notin SectionsOf(all(b + q))
    BY <1>12, <2>2 DEF SectionsOf, ToSet
  <2> QED BY <1>9, <2>1, <2>3
<1>13. ASSUME NEW h \in DOMAIN batch.groups, GroupRows(h) # {},
              NEW s \in Sections \ {batch.groups[h].root}
       PROVE  \E i \in GroupRows(h) : s \notin SectionsOf(out'[i].nodes)
  <2>1. PICK i \in GroupRows(h) : s \notin SectionsOf(out[i].nodes)
    BY <1>13 DEF SpliceInv, NothingCommonToAll
  <2>2. i \in DOMAIN out
    BY <2>1 DEF GroupRows
  <2>3. CASE h # group
    <3>1. ~(i > b)
      BY <1>3, <1>4, <2>1, <2>2, <2>3
    <3> QED BY <1>9, <2>1, <2>2, <3>1
  <2>4. CASE h = group
    <3>1. CASE s \in SectionsOf(out'[i].nodes)
      <4>1. i > b
        BY <1>9, <2>1, <2>2, <3>1
      <4>2. s \in SectionsOf(all(i)) \ SectionsOf(out[i].nodes)
        BY <1>9, <2>1, <2>2, <3>1, <4>1
      <4>3. PICK q \in 1..n : <<q, s>> \notin Marked(dec')
        BY <1>8, <2>2, <4>1, <4>2
      <4> QED BY <1>12, <2>4, <4>3
    <3>2. CASE s \notin SectionsOf(out'[i].nodes)
      BY <2>1, <3>2
    <3> QED BY <3>1, <3>2
  <2> QED BY <2>3, <2>4
<1>14. NothingCommonToAll'
  <2>1. \A h : GroupRows(h)' = GroupRows(h)
    BY <1>2, <1>9 DEF GroupRows, RowsBefore
  <2> QED BY <1>2, <1>13, <2>1 DEF NothingCommonToAll, Sections, SectionsOf
<1>15. (\A r \in DOMAIN walk.rows : \A j \in DOMAIN out[RowsBefore(group) + r].nodes :
            <<r, out[RowsBefore(group) + r].nodes[j][1]>> \in Marked(dec))'
  <2>1. (RowsBefore(group))' = b /\ Marked(dec)' = Marked(dec')
    BY <1>2 DEF RowsBefore, Marked, b
  <2>2. ASSUME NEW r \in DOMAIN walk'.rows, NEW j \in DOMAIN out'[b + r].nodes
        PROVE  <<r, out'[b + r].nodes[j][1]>> \in Marked(dec')
    <3>1. r \in 1..n /\ b + r \in DOMAIN out /\ b + r > b /\ (b + r) - b = r
      BY <1>2, <1>4, <1>5, <1>6 DEF GroupRows
    <3> QED BY <1>8, <1>9, <3>1
  <2> QED BY <2>1, <2>2
<1> QED BY <1>2, <1>10, <1>11, <1>14, <1>15 DEF SpliceInv

\* Every other step leaves the nodes of the rows alone, or drops the rows.
LEMMA SpliceStep == StateInv /\ SpliceInv /\ [Next]_vars => SpliceInv'
<1> SUFFICES ASSUME StateInv, SpliceInv, [Next]_vars PROVE SpliceInv'
  OBVIOUS
<1>1. CASE BuildRoot \/ BuildSkip \/ BuildLevel \/ BuildNext \/ BuildEnd
  BY <1>1, RowsKept DEF BuildRoot, BuildSkip, BuildLevel, BuildNext, BuildEnd
<1>2. CASE NextBatch
  BY <1>2, RowsDropped DEF NextBatch, StartBatch
<1>3. CASE BeginEmit
  BY <1>3, SpliceBegin
<1>4. CASE EmitLevel
  BY <1>4, SpliceLevel
<1>5. CASE EmitEnd \/ PoolLevel \/ Geometry
  BY <1>5, RowsKept DEF EmitEnd, PoolLevel, Geometry
<1>6. CASE PoolEnd \/ Backfill
  <2>1. /\ cat' = cat /\ batch' = batch /\ pc' # "emit" /\ DOMAIN out' = DOMAIN out
    BY <1>6 DEF PoolEnd, Backfill
  <2>2. \A i \in DOMAIN out : out[i] \in RowSet
    BY DEF StateInv, OutInv
  <2>3. \A i \in DOMAIN out : out'[i].nodes = out[i].nodes
    BY <1>6, <2>2 DEF PoolEnd, Backfill, RowSet
  <2> QED BY <2>1, <2>3, RowsKept
<1>7. CASE Scatter
  BY <1>7, RowsDropped DEF Scatter
<1>8. CASE UNCHANGED vars
  BY <1>8, RowsKept DEF vars
<1> QED BY <1>1, <1>2, <1>3, <1>4, <1>5, <1>6, <1>7, <1>8 DEF Next

\* For any catalogs, however the calls repeat or recurse: a row is never given a
\* function twice, and what all the rows of a root have in common is not spliced
\* (step_level's first-encounter and columnwise-ALL rules, over all levels).
THEOREM SpliceCorrect == Spec => []SplicedOnceWhereRowsDiffer
<1>1. Init => SpliceInv
  BY DEF Init, SpliceInv, OncePerRow, NothingCommonToAll, NoBatch
<1>2. SpliceInv => SplicedOnceWhereRowsDiffer
  BY DEF SpliceInv, SplicedOnceWhereRowsDiffer
<1> QED BY <1>1, <1>2, StateInvariant, SpliceStep, PTL DEF Spec

(* ------------------------------ residency --------------------------------- *)

Roots == {g.root : g \in ToSet(batch.groups)}

\* The closure of the batch is resident, a walk stays within the sections so many
\* hops from the roots, and the geometry has made the emitted sections resident.
ResidentInv ==
  /\ InBatch => Closure(Roots, batch.depth) \subseteq resident
  /\ pc \in {"emit", "pool"} =>
        \A i \in DOMAIN walk.frontier : walk.frontier[i][2][1] \in Reach(Roots, walk.level)
  /\ pc \in {"backfill", "scatter"} => \A i \in DOMAIN out : SectionsOf(out[i].nodes) \subseteq resident

\* A batch that goes on: what is within reach of its roots stays so.
LEMMA RootsKept ==
  ASSUME cat' = cat, batch' = batch
  PROVE  /\ (Closure(Roots, batch.depth))' = Closure(Roots, batch.depth)
         /\ (Reach(Roots, walk.level))' = Reach(Roots, walk'.level)
BY DEF Reach, Closure, Hop, Sections, Roots

\* The roots of a batch are sections, and those of its groups are among them.
LEMMA RootsFacts ==
  ASSUME Catalog, batch.groups \in Seq(Groups)
  PROVE  /\ Roots \subseteq Sections
         /\ \A g \in 1..Len(batch.groups) : batch.groups[g].root \in Roots
<1>1. \A g \in ToSet(batch.groups) : g \in Groups
  BY DEF ToSet
<1>2. Roots \subseteq Sections
  BY <1>1, GroupFacts DEF Roots
<1>3. \A g \in 1..Len(batch.groups) : batch.groups[g] \in ToSet(batch.groups)
  BY DEF ToSet
<1> QED BY <1>2, <1>3 DEF Roots

\* The frontier of a walk that has just begun is its root.
LEMMA ReachBegun ==
  ASSUME Catalog, batch.groups \in Seq(Groups), NEW s \in Roots,
         NEW rows \in Seq(VariantsOf(s)), NEW depth \in Nat
  PROVE  LET w == StartWalk(s, rows, depth)
         IN  \A i \in DOMAIN w.frontier : w.frontier[i][2][1] \in Reach(Roots, w.level)
<1>1. Roots \subseteq Sections /\ s \in Sections
  BY RootsFacts
<1>2. /\ StartWalk(s, rows, depth).level = 0
      /\ \A i \in DOMAIN StartWalk(s, rows, depth).frontier :
            StartWalk(s, rows, depth).frontier[i][2][1] = s
  BY <1>1, Started
<1>3. Reach(Roots, 0) = Roots
  BY <1>1, ReachFacts
<1> QED BY <1>2, <1>3

\* One level further is one hop further.
LEMMA ReachAdvanced ==
  ASSUME Catalog, WalkInv, Walking, ~WalkEnds, Advance(StepLevel(dec, Edges(walk.frontier))),
         batch.groups \in Seq(Groups),
         \A i \in DOMAIN walk.frontier : walk.frontier[i][2][1] \in Reach(Roots, walk.level)
  PROVE  \A i \in DOMAIN walk'.frontier : walk'.frontier[i][2][1] \in Reach(Roots, walk'.level)
<1> DEFINE pairs == Edges(walk.frontier)
           inc == StepLevel(dec, pairs).included
           here == Reach(Roots, walk.level)
<1>1. /\ walk.level \in Nat /\ walk.frontier \in Seq(Pairs(dec.rows)) /\ dec.rows \in Nat
      /\ DeciderInv(dec)
  BY DEF WalkInv, WalkSet, DeciderInv, Walking
<1>2. walk'.level = walk.level + 1 /\ walk'.frontier = inc
  BY Advanced
<1> HIDE DEF here
<1>3. pairs \in Seq(Pairs(dec.rows)) /\ \A e \in DOMAIN pairs : pairs[e][2][1] \in Hop(here)
  <2>1. \A i \in DOMAIN walk.frontier : walk.frontier[i][2][1] \in here
    BY DEF here
  <2> QED BY <1>1, <2>1, EdgesFacts
<1> HIDE DEF pairs
<1>4. \A k \in DOMAIN inc : inc[k] \in ToSet(pairs)
  BY <1>1, <1>3, Stepped
<1>5. Hop(here) \subseteq Reach(Roots, walk.level + 1)
  <2>1. Roots \subseteq Sections
    BY RootsFacts
  <2>2. walk.level + 1 \in Nat /\ walk.level \in 0..(walk.level + 1) - 1
    BY <1>1
  <2> QED BY <2>1, <2>2, ReachFacts DEF here
<1> HIDE DEF inc
<1>6. ASSUME NEW i \in DOMAIN inc PROVE inc[i][2][1] \in Hop(here)
  <2>1. PICK e \in DOMAIN pairs : inc[i] = pairs[e]
    BY <1>4 DEF ToSet
  <2> QED BY <1>3, <2>1
<1> QED BY <1>2, <1>5, <1>6

\* The closure of the batch covers every section a walk expands, and the geometry
\* pass the sections of the emitted nodes; no step takes a section away.
LEMMA ResidentStep == StateInv /\ ResidentInv /\ [Next]_vars => ResidentInv'
<1> SUFFICES ASSUME StateInv, ResidentInv, [Next]_vars PROVE ResidentInv'
  OBVIOUS
<1>1. BaseInv /\ BatchInv /\ OutInv /\ WalkInv /\ Catalog
  BY DEF StateInv, BaseInv
<1>2. batch.groups \in Seq(Groups) /\ batch.depth \in Nat
  BY <1>1, CatalogFacts DEF BatchInv
<1>3. ASSUME pc' \notin {"group", "emit", "pool", "backfill", "scatter"} PROVE ResidentInv'
  BY <1>3 DEF ResidentInv, InBatch
\* A step of a batch that goes on keeps what is resident.
<1>4. ASSUME InBatch, cat' = cat, batch' = batch, resident \subseteq resident'
      PROVE  (InBatch => Closure(Roots, batch.depth) \subseteq resident)'
  <2>1. Closure(Roots, batch.depth) \subseteq resident
    BY <1>4 DEF ResidentInv
  <2>2. (Closure(Roots, batch.depth))' = Closure(Roots, batch.depth)
    BY <1>4, RootsKept
  <2> QED BY <1>4, <2>1, <2>2
<1>5. ASSUME cat' = cat, batch' = batch,
             \A i \in DOMAIN walk'.frontier : walk'.frontier[i][2][1] \in Reach(Roots, walk'.level)
      PROVE  (pc \in {"emit", "pool"} =>
                \A i \in DOMAIN walk.frontier : walk.frontier[i][2][1] \in Reach(Roots, walk.level))'
  BY <1>5, RootsKept
<1>6. CASE BuildRoot \/ BuildSkip \/ BuildLevel \/ BuildNext \/ BuildEnd \/ Scatter
  BY <1>3, <1>6 DEF BuildRoot, BuildSkip, BuildLevel, BuildNext, BuildEnd, Scatter
<1>7. CASE NextBatch
  <2>0. PICK size \in 1..cat.groups : \E groups \in [1..size -> Groups] :
           \E depth \in cat.depths, backfill \in BOOLEAN, len \in cat.lengths :
              StartBatch(groups, depth, backfill, len)
    BY <1>7 DEF NextBatch
  <2>1. PICK groups \in [1..size -> Groups], depth \in cat.depths,
             backfill \in BOOLEAN, len \in cat.lengths : StartBatch(groups, depth, backfill, len)
    BY <2>0
  <2>2. /\ resident' = resident \cup Closure({g.root : g \in ToSet(groups)}, depth)
        /\ batch'.groups = groups /\ batch'.depth = depth /\ cat' = cat /\ pc' = "group"
    BY <2>1 DEF StartBatch
  <2>3. Roots' = {g.root : g \in ToSet(groups)}
    BY <2>2 DEF Roots
  <2>4. (Closure(Roots, batch.depth))' = Closure({g.root : g \in ToSet(groups)}, depth)
    <3>1. \A S : Hop(S)' = Hop(S)
      BY <2>2 DEF Hop, Sections
    <3>2. \A R, k : Reach(R, k)' = Reach(R, k)
      BY <3>1 DEF Reach
    <3> QED BY <2>2, <2>3, <3>2 DEF Closure
  <2> QED BY <2>2, <2>4 DEF ResidentInv
<1>8. CASE BeginEmit
  <2> DEFINE g == batch.groups[group]
  <2>1. /\ pc = "group" /\ pc' = "emit" /\ batch' = batch /\ cat' = cat /\ resident' = resident
        /\ walk' = StartWalk(g.root, g.rows, batch.depth) /\ group \in 1..Len(batch.groups)
    <3>1. /\ pc = "group" /\ pc' = "emit" /\ batch' = batch /\ cat' = cat /\ resident' = resident
          /\ walk' = StartWalk(g.root, g.rows, batch.depth) /\ group <= Len(batch.groups)
      BY <1>8 DEF BeginEmit
    <3>2. group \in 0..Len(batch.groups) + 1 /\ group >= 1
      BY <1>1, <3>1 DEF BatchInv
    <3> HIDE DEF g
    <3> QED BY <3>1, <3>2
  <2>2. g.root \in Roots /\ g.rows \in Seq(VariantsOf(g.root))
    <3>1. g \in Groups
      BY <1>2, <2>1
    <3> QED BY <1>1, <1>2, <2>1, <3>1, RootsFacts, GroupFacts
  <2>3. \A i \in DOMAIN walk'.frontier : walk'.frontier[i][2][1] \in Reach(Roots, walk'.level)
    <3> HIDE DEF g
    <3> QED BY <1>1, <1>2, <2>1, <2>2, ReachBegun
  <2> QED BY <1>4, <1>5, <2>1, <2>3 DEF ResidentInv, InBatch
<1>9. CASE EmitLevel \/ PoolLevel
  <2>1. /\ pc \in {"emit", "pool"} /\ pc' = pc /\ batch' = batch /\ cat' = cat /\ resident' = resident
        /\ Advance(StepLevel(dec, Edges(walk.frontier))) /\ ~WalkEnds /\ Walking
    BY <1>9 DEF EmitLevel, PoolLevel, Walking
  <2>2. \A i \in DOMAIN walk'.frontier : walk'.frontier[i][2][1] \in Reach(Roots, walk'.level)
    BY <1>1, <1>2, <2>1, ReachAdvanced DEF ResidentInv
  <2> QED BY <1>4, <1>5, <2>1, <2>2 DEF ResidentInv, InBatch
<1>10. CASE EmitEnd
  <2>1. pc = "emit" /\ pc' \in {"pool", "group"} /\ batch' = batch /\ cat' = cat /\ resident' = resident
    BY <1>10 DEF EmitEnd
  <2>2. CASE batch.backfill
    <3>1. walk' = StartWalk(walk.root, AllVariants(walk.root), batch.depth)
      BY <1>10, <2>2 DEF EmitEnd
    <3>2. walk.root \in Roots
      <4>1. walk.root = batch.groups[group].root /\ group \in 1..Len(batch.groups)
        BY <1>1, <2>1 DEF WalkInv, BatchInv
      <4> QED BY <1>1, <1>2, <4>1, RootsFacts
    <3>3. walk.root \in Sections
      BY <1>1, <1>2, <3>2, RootsFacts
    <3>4. AllVariants(walk.root) \in Seq(VariantsOf(walk.root))
      BY <1>1, <3>3, AllVariantsFacts
    <3>5. \A i \in DOMAIN walk'.frontier : walk'.frontier[i][2][1] \in Reach(Roots, walk'.level)
      BY <1>1, <1>2, <3>1, <3>2, <3>4, ReachBegun
    <3> QED BY <1>4, <1>5, <2>1, <3>5 DEF ResidentInv, InBatch
  <2>3. CASE ~batch.backfill
    <3>1. pc' = "group"
      BY <1>10, <2>3 DEF EmitEnd
    <3> QED BY <1>4, <2>1, <3>1 DEF ResidentInv, InBatch
  <2> QED BY <2>2, <2>3
<1>11. CASE PoolEnd
  <2>1. pc = "pool" /\ pc' = "group" /\ batch' = batch /\ cat' = cat /\ resident' = resident
    BY <1>11 DEF PoolEnd
  <2> QED BY <1>4, <2>1 DEF ResidentInv, InBatch
<1>12. CASE Geometry
  <2>1. /\ pc = "group" /\ pc' \in {"backfill", "scatter"} /\ batch' = batch /\ cat' = cat /\ out' = out
        /\ resident' = resident \cup UNION {SectionsOf(out[i].nodes) : i \in DOMAIN out}
    BY <1>12 DEF Geometry
  <2>2. (\A i \in DOMAIN out : SectionsOf(out[i].nodes) \subseteq resident)'
    BY <2>1 DEF SectionsOf
  <2> QED BY <1>4, <2>1, <2>2 DEF ResidentInv, InBatch
<1>13. CASE Backfill
  <2>1. /\ pc = "backfill" /\ pc' = "scatter" /\ batch' = batch /\ cat' = cat /\ resident' = resident
        /\ out' = [i \in DOMAIN out |-> [out[i] EXCEPT !.added = Backfilled(out[i], batch.len)]]
    BY <1>13 DEF Backfill
  <2>2. \A i \in DOMAIN out : out'[i].nodes = out[i].nodes
    <3>1. \A i \in DOMAIN out : out[i] \in RowSet
      BY <1>1 DEF OutInv
    <3> QED BY <2>1, <3>1 DEF RowSet
  <2>3. \A i \in DOMAIN out : SectionsOf(out[i].nodes) \subseteq resident
    BY <2>1 DEF ResidentInv
  <2>4. (\A i \in DOMAIN out : SectionsOf(out[i].nodes) \subseteq resident)'
    BY <2>1, <2>2, <2>3 DEF SectionsOf
  <2> QED BY <1>4, <2>1, <2>4 DEF ResidentInv, InBatch
<1>14. CASE UNCHANGED vars
  <2>1. /\ cat' = cat /\ batch' = batch /\ resident' = resident /\ pc' = pc /\ out' = out /\ walk' = walk
    BY <1>14 DEF vars
  <2>2. CASE ~InBatch
    BY <1>3, <2>1, <2>2 DEF InBatch
  <2>3. CASE InBatch
    <3>1. (InBatch => Closure(Roots, batch.depth) \subseteq resident)'
      BY <1>4, <2>1, <2>3
    <3>2. (pc \in {"emit", "pool"} =>
             \A i \in DOMAIN walk.frontier : walk.frontier[i][2][1] \in Reach(Roots, walk.level))'
      BY <2>1, RootsKept DEF ResidentInv
    <3>3. (pc \in {"backfill", "scatter"} =>
             \A i \in DOMAIN out : SectionsOf(out[i].nodes) \subseteq resident)'
      BY <2>1 DEF ResidentInv, SectionsOf
    <3> QED BY <3>1, <3>2, <3>3 DEF ResidentInv
  <2> QED BY <2>2, <2>3
<1> QED BY <1>6, <1>7, <1>8, <1>9, <1>10, <1>11, <1>12, <1>13, <1>14 DEF Next

\* For any catalogs and depths: every section a walk of the batch expands was
\* made resident when the batch was drawn, and every section of an emitted node
\* before the scatter reads it (ensure_inclusion_closure, compute_batch_geometry).
THEOREM ResidentCorrect == Spec => []ReadsResident
<1>1. Init => ResidentInv
  BY DEF Init, ResidentInv, InBatch
<1>2. StateInv /\ ResidentInv => ReadsResident
  <2> SUFFICES ASSUME StateInv, ResidentInv PROVE ReadsResident
    OBVIOUS
  <2>1. BaseInv /\ BatchInv /\ OutInv /\ WalkInv /\ Catalog
    BY DEF StateInv, BaseInv
  <2>2. ASSUME pc \in {"emit", "pool"}, walk.level < walk.depth
        PROVE  {p[2][1] : p \in ToSet(walk.frontier)} \subseteq resident
    <3>1. /\ walk.depth = batch.depth /\ walk.level \in Nat /\ batch.depth \in Nat
          /\ batch.groups \in Seq(Groups)
      BY <2>1, <2>2, CatalogFacts DEF WalkInv, WalkSet, BatchInv
    <3>2. batch.depth # 0 /\ batch.depth - 1 \in Nat /\ walk.level \in 0..batch.depth - 1
      BY <2>2, <3>1
    <3>3. Closure(Roots, batch.depth) = Reach(Roots, batch.depth - 1)
      BY <3>2 DEF Closure
    <3>4. Roots \subseteq Sections
      BY <2>1, <3>1, RootsFacts
    <3>5. Reach(Roots, walk.level) \subseteq Reach(Roots, batch.depth - 1)
      BY <2>1, <3>2, <3>4, ReachFacts
    <3>6. Reach(Roots, batch.depth - 1) \subseteq resident
      BY <2>2, <3>3 DEF ResidentInv, InBatch
    <3>7. \A i \in DOMAIN walk.frontier : walk.frontier[i][2][1] \in resident
      BY <2>2, <3>5, <3>6 DEF ResidentInv
    <3> QED BY <3>7 DEF ToSet
  <2>3. pc = "scatter" => \A i \in DOMAIN out : SectionsOf(out[i].nodes) \subseteq resident
    BY DEF ResidentInv
  <2> QED BY <2>2, <2>3 DEF ReadsResident
<1> QED BY <1>1, <1>2, StateInvariant, ResidentStep, PTL DEF Spec

(* ------------------------ the index and the loader ------------------------ *)

\* The walk over all variants of a section, level by level, and how long it makes
\* the rows: what the index build and the loader both follow.
FullStart(s) ==
  [dec |-> FreshDecider(cat.variants[s], s), frontier |-> StartWalk(s, AllVariants(s), 0).frontier,
   len |-> [v \in VariantsOf(s) |-> Own(<<s, v>>)]]

FullStep(s, x) ==
  LET step == StepLevel(x.dec, Edges(x.frontier))
  IN  IF Edges(x.frontier) = <<>> THEN x
      ELSE [dec |-> step.dec, frontier |-> step.included,
            len |-> [v \in VariantsOf(s) |-> x.len[v] + Length(ForRow(step.included, v))]]

Full(s) == LET at[l \in 0..MaxDepth] == IF l = 0 THEN FullStart(s) ELSE FullStep(s, at[l-1]) IN at

\* The index build: what it has of the sections before, at and after the root.
IndexInv ==
  /\ \A d \in 0..MaxDepth : \A n \in Nodes(cat) :
        cum[d][n] = IF n[1] < root THEN Full(n[1])[d].len[n[2]]
                    ELSE IF n[1] = root /\ pc = "build_level"
                         THEN Full(n[1])[IF d <= walk.level THEN d ELSE walk.level].len[n[2]]
                         ELSE Own(n)
  /\ \A s \in Sections : s = root /\ pc = "build_level" =>
        /\ dec = Full(s)[walk.level].dec
        /\ walk.frontier = Full(s)[walk.level].frontier
  /\ pc \notin {"build", "build_level"} => root = Len(cat.variants) + 1

\* The loader: every row starts with its root, and a group of all the variants of
\* its root has the rows of the full walk.
LoaderInv ==
  /\ \A h \in DOMAIN batch.groups : \A i \in GroupRows(h) :
        out[i].nodes[1] = <<batch.groups[h].root, batch.groups[h].rows[i - RowsBefore(h)]>>
  /\ \A h \in DOMAIN batch.groups : \A s \in Sections :
        s = batch.groups[h].root /\ batch.groups[h].rows = AllVariants(s) =>
           /\ \A i \in GroupRows(h) :
                 Length(out[i].nodes)
                   = Full(s)[IF pc = "emit" /\ h = group THEN walk.level
                             ELSE batch.depth].len[i - RowsBefore(h)]
           /\ pc = "emit" /\ h = group => /\ dec = Full(s)[walk.level].dec
                                          /\ walk.frontier = Full(s)[walk.level].frontier

\* The catalog is fixed, and with it the full walks.
LEMMA FullKept ==
  ASSUME cat' = cat
  PROVE  \A s : Full(s)' = Full(s)
<1>1. ASSUME NEW s PROVE FullStart(s)' = FullStart(s)
  BY DEF FullStart, VariantsOf, AllVariants, StartWalk, Own
<1>2. ASSUME NEW f PROVE Calls(f)' = Calls(f)
  BY DEF Calls, LiveSlots, ResolveJ, FallbackJ, Sections, VariantsOf
<1>3. ASSUME NEW n, NEW k PROVE Callee(n, k)' = Callee(n, k)
  BY DEF Callee, ResolveJ, FallbackJ, VariantsOf
<1>4. ASSUME NEW f PROVE Edges(f)' = Edges(f)
  BY <1>2, <1>3 DEF Edges
<1>5. ASSUME NEW n PROVE Length(n)' = Length(n)
  BY DEF Length, EndOf, Own
<1>6. ASSUME NEW s, NEW x PROVE FullStep(s, x)' = FullStep(s, x)
  BY <1>4, <1>5 DEF FullStep, VariantsOf
<1> QED BY <1>1, <1>6 DEF Full, MaxDepth

\* The full walk is the function its recursion describes.
LEMMA FullFacts ==
  ASSUME Catalog, NEW s
  PROVE  /\ Full(s)[0] = FullStart(s)
         /\ \A l \in 0..MaxDepth-1 : Full(s)[l+1] = FullStep(s, Full(s)[l])
<1> DEFINE Upto(m, g) == g = [l \in 0..m |-> IF l = 0 THEN FullStart(s) ELSE FullStep(s, g[l-1])]
           P == {m \in 0..MaxDepth : \E g : Upto(m, g)}
           at == CHOOSE g : Upto(MaxDepth, g)
<1>1. MaxDepth \in Nat
  BY CatalogFacts
<1>2. 0 \in P
  <2> DEFINE z == [l \in 0..0 |-> FullStart(s)]
  <2>1. Upto(0, z)
    OBVIOUS
  <2>2. 0 \in 0..MaxDepth
    BY <1>1
  <2> HIDE DEF z, Upto
  <2> QED BY <2>1, <2>2
<1>3. ASSUME NEW k \in 0..MaxDepth-1, k \in P PROVE k + 1 \in P
  <2>1. PICK g : Upto(k, g)
    BY <1>3
  <2> DEFINE h == [l \in 0..k+1 |-> IF l = k + 1 THEN FullStep(s, g[k]) ELSE g[l]]
  <2>2. ASSUME NEW l \in 0..k+1 PROVE h[l] = IF l = 0 THEN FullStart(s) ELSE FullStep(s, h[l-1])
    <3>1. CASE l = k + 1
      <4>1. l # 0 /\ l - 1 = k /\ l - 1 \in 0..k+1 /\ k # k + 1
        BY <1>1, <3>1
      <4> QED BY <3>1, <4>1
    <3>2. CASE l \in 0..k
      <4>1. l # k + 1 /\ (l # 0 => l - 1 \in 0..k /\ l - 1 # k + 1 /\ l - 1 \in 0..k+1)
        BY <1>1, <3>2
      <4> QED BY <2>1, <3>2, <4>1
    <3> QED BY <1>1, <3>1, <3>2
  <2>3. Upto(k + 1, h)
    BY <2>2
  <2>4. k + 1 \in 0..MaxDepth
    BY <1>1
  <2> HIDE DEF Upto
  <2> QED BY <2>3, <2>4
<1>4. MaxDepth \in P
  <2> HIDE DEF P
  <2>1. \A k \in 0..MaxDepth : k \in P
    BY <1>1, <1>2, <1>3, UpTo
  <2> QED BY <1>1, <2>1
<1>5. Upto(MaxDepth, at)
  <2> HIDE DEF Upto
  <2> QED BY <1>4
<1>6. Full(s) = at
  BY DEF Full
<1> HIDE DEF at
<1>7. at[0] = FullStart(s)
  BY <1>1, <1>5
<1>8. ASSUME NEW l \in 0..MaxDepth-1 PROVE at[l+1] = FullStep(s, at[l])
  <2>1. l + 1 \in 0..MaxDepth /\ l + 1 # 0 /\ (l + 1) - 1 = l
    BY <1>1
  <2> QED BY <1>5, <2>1
<1> QED BY <1>6, <1>7, <1>8

\* Its first level, the level after one with calls, and those after one without.
LEMMA FullLevels ==
  ASSUME Catalog, NEW s \in Sections
  PROVE  /\ Full(s)[0].dec = FreshDecider(cat.variants[s], s)
         /\ \A depth : Full(s)[0].frontier = StartWalk(s, AllVariants(s), depth).frontier
         /\ \A v \in VariantsOf(s) : Full(s)[0].len[v] = Own(<<s, v>>)
         /\ \A l \in 0..MaxDepth-1 : Edges(Full(s)[l].frontier) # <<>> =>
              LET step == StepLevel(Full(s)[l].dec, Edges(Full(s)[l].frontier))
              IN  /\ Full(s)[l+1].dec = step.dec /\ Full(s)[l+1].frontier = step.included
                  /\ \A v \in VariantsOf(s) :
                       Full(s)[l+1].len[v] = Full(s)[l].len[v] + Length(ForRow(step.included, v))
         /\ \A l \in 0..MaxDepth : Edges(Full(s)[l].frontier) = <<>> =>
              \A k \in l..MaxDepth : Full(s)[k] = Full(s)[l]
<1>1. MaxDepth \in Nat
  BY CatalogFacts
<1>2. /\ Full(s)[0] = FullStart(s)
      /\ \A l \in 0..MaxDepth-1 : Full(s)[l+1] = FullStep(s, Full(s)[l])
  BY FullFacts
<1>3. /\ Full(s)[0].dec = FreshDecider(cat.variants[s], s)
      /\ \A depth : Full(s)[0].frontier = StartWalk(s, AllVariants(s), depth).frontier
      /\ \A v \in VariantsOf(s) : Full(s)[0].len[v] = Own(<<s, v>>)
  BY <1>2 DEF FullStart, StartWalk
<1>4. ASSUME NEW l \in 0..MaxDepth-1, Edges(Full(s)[l].frontier) # <<>>
      PROVE  LET step == StepLevel(Full(s)[l].dec, Edges(Full(s)[l].frontier))
             IN  /\ Full(s)[l+1].dec = step.dec /\ Full(s)[l+1].frontier = step.included
                 /\ \A v \in VariantsOf(s) :
                      Full(s)[l+1].len[v] = Full(s)[l].len[v] + Length(ForRow(step.included, v))
  <2> DEFINE x == Full(s)[l]
             step == StepLevel(x.dec, Edges(x.frontier))
             lens == [v \in VariantsOf(s) |-> x.len[v] + Length(ForRow(step.included, v))]
  <2>1. Full(s)[l+1] = FullStep(s, x)
    BY <1>2
  <2>2. FullStep(s, x) = [dec |-> step.dec, frontier |-> step.included, len |-> lens]
    BY <1>4 DEF FullStep
  <2>3. \A v \in VariantsOf(s) : lens[v] = x.len[v] + Length(ForRow(step.included, v))
    OBVIOUS
  <2> HIDE DEF lens, step
  <2>4. Full(s)[l+1].dec = step.dec /\ Full(s)[l+1].frontier = step.included /\ Full(s)[l+1].len = lens
    BY <2>1, <2>2
  <2> QED BY <2>3, <2>4 DEF step
<1>5. ASSUME NEW l \in 0..MaxDepth, Edges(Full(s)[l].frontier) = <<>>, NEW k \in l..MaxDepth
      PROVE  Full(s)[k] = Full(s)[l]
  <2> DEFINE m == MaxDepth - l
             P == {i \in 0..m : Full(s)[l + i] = Full(s)[l]}
  <2>1. m \in Nat /\ l + 0 = l /\ 0 \in 0..m /\ k - l \in 0..m /\ l + (k - l) = k
    BY <1>1
  <2>2. 0 \in P
    BY <2>1
  <2>3. ASSUME NEW i \in 0..m-1, i \in P PROVE i + 1 \in P
    <3>1. i + 1 \in 0..m /\ l + i \in 0..MaxDepth-1 /\ l + (i + 1) = (l + i) + 1
      BY <1>1
    <3>2. Full(s)[(l + i) + 1] = FullStep(s, Full(s)[l + i])
      BY <1>2, <3>1
    <3>3. FullStep(s, Full(s)[l]) = Full(s)[l]
      BY <1>5 DEF FullStep
    <3> QED BY <2>3, <3>1, <3>2, <3>3
  <2> HIDE DEF m
  <2>4. \A i \in 0..m : i \in P
    <3> HIDE DEF P
    <3> QED BY <2>1, <2>2, <2>3, UpTo
  <2> QED BY <2>1, <2>4
<1> QED BY <1>3, <1>4, <1>5

\* The catalog is fixed: the invariant of the next state, in terms of this one.
LEMMA IndexInvNext ==
  ASSUME cat' = cat,
         \A d \in 0..MaxDepth : \A n \in Nodes(cat) :
            cum'[d][n] = IF n[1] < root' THEN Full(n[1])[d].len[n[2]]
                         ELSE IF n[1] = root' /\ pc' = "build_level"
                              THEN Full(n[1])[IF d <= walk'.level THEN d ELSE walk'.level].len[n[2]]
                              ELSE Own(n),
         \A s \in Sections : s = root' /\ pc' = "build_level" =>
            dec' = Full(s)[walk'.level].dec /\ walk'.frontier = Full(s)[walk'.level].frontier,
         pc' \notin {"build", "build_level"} => root' = Len(cat.variants) + 1
  PROVE  IndexInv'
BY FullKept DEF IndexInv, Own, MaxDepth, Sections

\* The index build follows the full walk of every root in turn.
LEMMA IndexBuild ==
  ASSUME StateInv, IndexInv, BuildRoot \/ BuildSkip \/ BuildNext \/ BuildEnd
  PROVE  IndexInv'
<1>1. BaseInv /\ WalkInv /\ Catalog
  BY DEF StateInv, BaseInv
<1>2. cat' = cat /\ cum' = cum
  BY DEF BuildRoot, BuildSkip, BuildNext, BuildEnd
<1>3. /\ root \in 1..Len(cat.variants) + 1 /\ Len(cat.variants) \in Nat /\ MaxDepth \in Nat
      /\ Sections = 1..Len(cat.variants)
      /\ \A n \in Nodes(cat) : /\ n = <<n[1], n[2]>> /\ n[1] \in Sections
                               /\ n[2] \in VariantsOf(n[1]) /\ n[1] \in Nat
  BY <1>1, CatalogFacts DEF BaseInv
<1>4. /\ \A d \in 0..MaxDepth : \A n \in Nodes(cat) :
            cum[d][n] = IF n[1] < root THEN Full(n[1])[d].len[n[2]]
                        ELSE IF n[1] = root /\ pc = "build_level"
                             THEN Full(n[1])[IF d <= walk.level THEN d ELSE walk.level].len[n[2]]
                             ELSE Own(n)
      /\ \A s \in Sections : s = root /\ pc = "build_level" =>
            dec = Full(s)[walk.level].dec /\ walk.frontier = Full(s)[walk.level].frontier
  BY DEF IndexInv
<1>5. CASE BuildRoot
  <2>1. /\ pc = "build" /\ root \in Sections /\ dec' = BeginRoot(dec, cat.variants[root], root)
        /\ walk' = StartWalk(root, AllVariants(root), MaxDepth)
        /\ pc' = "build_level" /\ root' = root
    BY <1>5 DEF BuildRoot
  <2>2. walk'.level = 0
    BY <2>1 DEF StartWalk
  <2>3. dec' = Full(root)[0].dec /\ walk'.frontier = Full(root)[0].frontier
    <3>1. cat.variants[root] \in Nat
      BY <1>1, <2>1, CatalogFacts
    <3>2. dec' = FreshDecider(cat.variants[root], root)
      BY <1>1, <2>1, <3>1, Begun DEF WalkInv
    <3>3. Full(root)[0].frontier = StartWalk(root, AllVariants(root), MaxDepth).frontier
      BY <1>1, <2>1, FullLevels
    <3>4. Full(root)[0].dec = FreshDecider(cat.variants[root], root)
      BY <1>1, <2>1, FullLevels
    <3> QED BY <2>1, <3>2, <3>3, <3>4
  <2>4. ASSUME NEW d \in 0..MaxDepth, NEW n \in Nodes(cat)
        PROVE  cum'[d][n] = IF n[1] < root' THEN Full(n[1])[d].len[n[2]]
                            ELSE IF n[1] = root' /\ pc' = "build_level"
                                 THEN Full(n[1])[IF d <= walk'.level THEN d ELSE walk'.level].len[n[2]]
                                 ELSE Own(n)
    <3>1. CASE n[1] # root
      BY <1>2, <1>4, <2>1, <3>1
    <3>2. CASE n[1] = root
      <4>1. cum[d][n] = Own(n)
        BY <1>3, <1>4, <2>1, <3>2
      <4>2. Full(n[1])[0].len[n[2]] = Own(n)
        BY <1>1, <1>3, FullLevels
      <4>3. (IF d <= walk'.level THEN d ELSE walk'.level) = 0
        BY <1>3, <2>2
      <4>4. ~(n[1] < root')
        BY <1>3, <2>1, <3>2
      <4> QED BY <1>2, <2>1, <3>2, <4>1, <4>2, <4>3, <4>4
    <3> QED BY <3>1, <3>2
  <2> QED BY <1>2, <2>1, <2>2, <2>3, <2>4, IndexInvNext
<1>6. CASE BuildSkip
  <2>1. pc' = "build" /\ pc = "build" /\ root \in Sections /\ cat.variants[root] = 0 /\ root' = root + 1
    BY <1>6 DEF BuildSkip
  <2>2. \A n \in Nodes(cat) : n[1] # root
    BY <1>3, <2>1 DEF VariantsOf
  <2>3. \A n \in Nodes(cat) : (n[1] < root' <=> n[1] < root)
    BY <1>3, <2>1, <2>2
  <2> QED BY <1>2, <1>4, <2>1, <2>3, IndexInvNext
<1>7. CASE BuildEnd
  <2>1. pc' = "idle" /\ pc = "build" /\ root \notin Sections /\ root' = root
    BY <1>7 DEF BuildEnd
  <2>2. root = Len(cat.variants) + 1
    BY <1>3, <2>1
  <2> QED BY <1>2, <1>4, <2>1, <2>2, IndexInvNext
<1>8. CASE BuildNext
  <2>1. pc' = "build" /\ pc = "build_level" /\ root' = root + 1 /\ WalkEnds
    BY <1>8 DEF BuildNext
  <2>2. root \in Sections /\ walk.level \in Nat /\ walk.level <= MaxDepth /\ walk.depth = MaxDepth
    BY <1>1, <2>1 DEF WalkInv, WalkSet
\* The levels the walk did not take would have added nothing.
  <2>3. ASSUME NEW d \in 0..MaxDepth
        PROVE  Full(root)[IF d <= walk.level THEN d ELSE walk.level] = Full(root)[d]
    <3>1. CASE d <= walk.level
      BY <3>1
    <3>2. CASE ~(d <= walk.level)
      <4>1. Edges(Full(root)[walk.level].frontier) = <<>>
        BY <1>3, <1>4, <2>1, <2>2, <3>2 DEF WalkEnds
      <4>2. walk.level \in 0..MaxDepth /\ d \in walk.level..MaxDepth
        BY <1>3, <2>2, <3>2
      <4> QED BY <1>1, <2>2, <3>2, <4>1, <4>2, FullLevels
    <3> QED BY <3>1, <3>2
  <2>4. ASSUME NEW d \in 0..MaxDepth, NEW n \in Nodes(cat)
        PROVE  cum[d][n] = IF n[1] < root' THEN Full(n[1])[d].len[n[2]] ELSE Own(n)
    <3>1. n[1] \in Nat /\ root \in Nat
      BY <1>3
    <3>2. CASE n[1] < root
      <4>1. n[1] < root'
        BY <2>1, <3>1, <3>2
      <4> QED BY <1>4, <3>2, <4>1
    <3>3. CASE n[1] = root
      <4>1. cum[d][n] = Full(root)[IF d <= walk.level THEN d ELSE walk.level].len[n[2]]
        BY <1>3, <1>4, <2>1, <3>3
      <4>2. n[1] < root'
        BY <2>1, <3>1, <3>3
      <4> QED BY <2>3, <3>3, <4>1, <4>2
    <3>4. CASE n[1] > root
      <4>1. ~(n[1] < root') /\ ~(n[1] < root) /\ n[1] # root
        BY <2>1, <3>1, <3>4
      <4> QED BY <1>4, <4>1
    <3> QED BY <3>1, <3>2, <3>3, <3>4
  <2> QED BY <1>2, <2>1, <2>4, IndexInvNext
<1> QED BY <1>5, <1>6, <1>7, <1>8

\* One level of the index build is one level of the full walk.
LEMMA IndexLevel ==
  ASSUME StateInv, IndexInv, BuildLevel
  PROVE  IndexInv'
<1>1. BaseInv /\ WalkInv /\ Catalog
  BY DEF StateInv, BaseInv
<1> DEFINE x == Full(root)[walk.level]
           y == Full(root)[walk.level + 1]
           inc == StepLevel(dec, Edges(walk.frontier)).included
<1>2. /\ pc = "build_level" /\ pc' = pc /\ root' = root /\ cat' = cat /\ ~WalkEnds
      /\ dec' = StepLevel(dec, Edges(walk.frontier)).dec
      /\ walk'.level = walk.level + 1 /\ walk'.frontier = inc
      /\ cum' = [d \in DOMAIN cum |-> [n \in DOMAIN cum[d] |->
                   IF n[1] = root /\ CountedAt(walk.level + 1, d)
                   THEN cum[d][n] + Length(ForRow(inc, n[2])) ELSE cum[d][n]]]
  <2>1. walk \in WalkSet
    BY <1>1 DEF WalkInv
  <2> QED BY <2>1 DEF BuildLevel, Advance, WalkSet
<1>3. /\ root \in Sections /\ walk.level \in Nat /\ walk.depth = MaxDepth /\ MaxDepth \in Nat
      /\ cum \in [0..MaxDepth -> [Nodes(cat) -> Nat]]
  BY <1>1, <1>2, CatalogFacts DEF WalkInv, WalkSet, BaseInv
<1>4. walk.level \in 0..MaxDepth-1 /\ Edges(walk.frontier) # <<>>
  BY <1>2, <1>3 DEF WalkEnds
<1>5. dec = x.dec /\ walk.frontier = x.frontier
  BY <1>2, <1>3 DEF IndexInv
<1>6. /\ y.dec = StepLevel(dec, Edges(walk.frontier)).dec /\ y.frontier = inc
      /\ \A v \in VariantsOf(root) : y.len[v] = x.len[v] + Length(ForRow(inc, v))
  BY <1>1, <1>3, <1>4, <1>5, FullLevels, SMTT(60)
<1> HIDE DEF x, y, inc
<1>7. ASSUME NEW d \in 0..MaxDepth, NEW n \in Nodes(cat)
      PROVE  cum'[d][n] = IF n[1] < root' THEN Full(n[1])[d].len[n[2]]
                          ELSE IF n[1] = root' /\ pc' = "build_level"
                               THEN Full(n[1])[IF d <= walk'.level THEN d ELSE walk'.level].len[n[2]]
                               ELSE Own(n)
  <2>1. cum[d][n] = IF n[1] < root THEN Full(n[1])[d].len[n[2]]
                    ELSE IF n[1] = root /\ pc = "build_level"
                         THEN Full(n[1])[IF d <= walk.level THEN d ELSE walk.level].len[n[2]]
                         ELSE Own(n)
    BY DEF IndexInv
  <2>2. cum'[d][n] = IF n[1] = root /\ d >= walk.level + 1
                     THEN cum[d][n] + Length(ForRow(inc, n[2])) ELSE cum[d][n]
    BY <1>2, <1>3 DEF CountedAt
  <2>3. CASE n[1] # root
    BY <1>2, <2>1, <2>2, <2>3
  <2>4. CASE n[1] = root
    <3>1. ~(n[1] < root) /\ n[2] \in VariantsOf(root)
      BY <1>1, <1>3, <2>4, CatalogFacts
    <3>2. CASE d >= walk.level + 1
      <4>1. /\ (IF d <= walk.level THEN d ELSE walk.level) = walk.level
            /\ (IF d <= walk'.level THEN d ELSE walk'.level) = walk.level + 1
        BY <1>2, <1>3, <3>2
      <4>2. cum[d][n] = x.len[n[2]]
        BY <1>2, <2>1, <2>4, <3>1, <4>1 DEF x
      <4>3. cum'[d][n] = y.len[n[2]]
        BY <1>6, <2>2, <2>4, <3>1, <3>2, <4>2
      <4> QED BY <1>2, <2>4, <3>1, <4>1, <4>3 DEF y
    <3>3. CASE ~(d >= walk.level + 1)
      <4>1. /\ (IF d <= walk.level THEN d ELSE walk.level) = d
            /\ (IF d <= walk'.level THEN d ELSE walk'.level) = d
        BY <1>2, <1>3, <3>3
      <4> QED BY <1>2, <2>1, <2>2, <2>4, <3>1, <3>3, <4>1
    <3> QED BY <3>2, <3>3
  <2> QED BY <2>3, <2>4
<1>8. dec' = Full(root)[walk'.level].dec /\ walk'.frontier = Full(root)[walk'.level].frontier
  BY <1>2, <1>6 DEF y
<1> QED BY <1>2, <1>7, <1>8, IndexInvNext

\* Every step: after the build, nothing changes the index.
LEMMA IndexStep == StateInv /\ IndexInv /\ [Next]_vars => IndexInv'
<1> SUFFICES ASSUME StateInv, IndexInv, [Next]_vars PROVE IndexInv'
  OBVIOUS
<1>1. CASE BuildRoot \/ BuildSkip \/ BuildNext \/ BuildEnd
  BY <1>1, IndexBuild
<1>2. CASE BuildLevel
  BY <1>2, IndexLevel
<1>3. ASSUME cat' = cat, cum' = cum, root' = root, pc \notin {"build", "build_level"},
             pc' \notin {"build", "build_level"}
      PROVE  IndexInv'
  BY <1>3, IndexInvNext DEF IndexInv
<1>4. CASE NextBatch \/ BeginEmit \/ EmitLevel \/ EmitEnd \/ PoolLevel \/ PoolEnd \/ Geometry
            \/ Backfill \/ Scatter
  BY <1>3, <1>4 DEF NextBatch, StartBatch, BeginEmit, EmitLevel, EmitEnd, PoolLevel, PoolEnd,
                    Geometry, Backfill, Scatter
<1>5. CASE UNCHANGED vars
  BY <1>5, IndexInvNext DEF vars, IndexInv
<1> QED BY <1>1, <1>2, <1>4, <1>5 DEF Next

\* The batch is fixed while it is worked on: the invariant of the next state, in
\* terms of this one.
LEMMA LoaderInvNext ==
  ASSUME cat' = cat, batch' = batch,
         \A h \in DOMAIN batch.groups : \A i \in GroupRows(h)' :
            out'[i].nodes[1] = <<batch.groups[h].root, batch.groups[h].rows[i - RowsBefore(h)]>>,
         \A h \in DOMAIN batch.groups : \A s \in Sections :
            s = batch.groups[h].root /\ batch.groups[h].rows = AllVariants(s) =>
              /\ \A i \in GroupRows(h)' :
                    Length(out'[i].nodes)
                      = Full(s)[IF pc' = "emit" /\ h = group' THEN walk'.level
                                ELSE batch.depth].len[i - RowsBefore(h)]
              /\ pc' = "emit" /\ h = group' => /\ dec' = Full(s)[walk'.level].dec
                                               /\ walk'.frontier = Full(s)[walk'.level].frontier
  PROVE  LoaderInv'
<1>1. /\ \A s : Full(s)' = Full(s)
      /\ \A s : AllVariants(s)' = AllVariants(s)
      /\ \A h : RowsBefore(h)' = RowsBefore(h)
      /\ \A i : (Length(out[i].nodes))' = Length(out'[i].nodes)
  <2>1. \A i : (Length(out[i].nodes))' = Length(out'[i].nodes)
    BY DEF Length, EndOf, Own
  <2> QED BY <2>1, FullKept DEF RowsBefore, AllVariants, VariantsOf
<1>2. (\A h \in DOMAIN batch.groups : \A i \in GroupRows(h) :
         out[i].nodes[1] = <<batch.groups[h].root, batch.groups[h].rows[i - RowsBefore(h)]>>)'
  BY <1>1
<1>3. ASSUME NEW h \in DOMAIN batch.groups, NEW s \in Sections,
             s = batch.groups[h].root, batch.groups[h].rows = AllVariants(s)
      PROVE  (/\ \A i \in GroupRows(h) :
                   Length(out[i].nodes)
                     = Full(s)[IF pc = "emit" /\ h = group THEN walk.level
                               ELSE batch.depth].len[i - RowsBefore(h)]
              /\ pc = "emit" /\ h = group => /\ dec = Full(s)[walk.level].dec
                                             /\ walk.frontier = Full(s)[walk.level].frontier)'
  BY <1>1, <1>3
<1> QED BY <1>1, <1>2, <1>3 DEF LoaderInv, Sections

\* A step that leaves the nodes of the rows and the walk of an emission alone.
LEMMA LoaderKept ==
  ASSUME LoaderInv, cat' = cat, batch' = batch, DOMAIN out' = DOMAIN out,
         \A i \in DOMAIN out : out'[i].nodes = out[i].nodes,
         pc' = "emit" <=> pc = "emit",
         pc' = "emit" => UNCHANGED <<dec, walk, group>>
  PROVE  LoaderInv'
<1>1. \A h : GroupRows(h)' = GroupRows(h) /\ GroupRows(h) \subseteq DOMAIN out
  BY DEF GroupRows, RowsBefore
<1>2. \A h \in DOMAIN batch.groups : \A i \in GroupRows(h)' :
         out'[i].nodes[1] = <<batch.groups[h].root, batch.groups[h].rows[i - RowsBefore(h)]>>
  BY <1>1 DEF LoaderInv
<1>3. ASSUME NEW h \in DOMAIN batch.groups, NEW s \in Sections,
             s = batch.groups[h].root, batch.groups[h].rows = AllVariants(s)
      PROVE  /\ \A i \in GroupRows(h)' :
                   Length(out'[i].nodes)
                     = Full(s)[IF pc' = "emit" /\ h = group' THEN walk'.level
                               ELSE batch.depth].len[i - RowsBefore(h)]
             /\ pc' = "emit" /\ h = group' => /\ dec' = Full(s)[walk'.level].dec
                                              /\ walk'.frontier = Full(s)[walk'.level].frontier
  <2>1. /\ \A i \in GroupRows(h) :
              Length(out[i].nodes)
                = Full(s)[IF pc = "emit" /\ h = group THEN walk.level
                          ELSE batch.depth].len[i - RowsBefore(h)]
        /\ pc = "emit" /\ h = group => /\ dec = Full(s)[walk.level].dec
                                       /\ walk.frontier = Full(s)[walk.level].frontier
    BY <1>3 DEF LoaderInv
  <2> QED BY <1>1, <2>1
<1> QED BY <1>2, <1>3, LoaderInvNext

\* A step that drops the rows.
LEMMA LoaderDropped ==
  ASSUME out' = <<>>, pc' # "emit"
  PROVE  LoaderInv'
<1>1. \A h : GroupRows(h)' = {}
  BY DEF GroupRows
<1> QED BY <1>1 DEF LoaderInv

\* The emission of a group ends when the full walk has ended too.
LEMMA LoaderEnd ==
  ASSUME StateInv, LoaderInv, EmitEnd
  PROVE  LoaderInv'
<1>1. BaseInv /\ BatchInv /\ WalkInv /\ Catalog
  BY DEF StateInv, BaseInv
<1>2. pc = "emit" /\ pc' # "emit" /\ cat' = cat /\ batch' = batch /\ out' = out /\ WalkEnds
  BY DEF EmitEnd
<1>3. /\ walk.level \in Nat /\ walk.level <= walk.depth /\ walk.depth = batch.depth
      /\ batch.depth \in 0..MaxDepth /\ MaxDepth \in Nat
  BY <1>1, <1>2, CatalogFacts DEF WalkInv, WalkSet, BatchInv
<1>4. \A h : GroupRows(h)' = GroupRows(h)
  BY <1>2 DEF GroupRows, RowsBefore
<1>5. \A h \in DOMAIN batch.groups : \A i \in GroupRows(h)' :
         out'[i].nodes[1] = <<batch.groups[h].root, batch.groups[h].rows[i - RowsBefore(h)]>>
  BY <1>2, <1>4 DEF LoaderInv
<1>6. ASSUME NEW h \in DOMAIN batch.groups, NEW s \in Sections,
             s = batch.groups[h].root, batch.groups[h].rows = AllVariants(s)
      PROVE  \A i \in GroupRows(h)' :
                Length(out'[i].nodes) = Full(s)[batch.depth].len[i - RowsBefore(h)]
  <2>1. /\ \A i \in GroupRows(h) :
              Length(out[i].nodes)
                = Full(s)[IF pc = "emit" /\ h = group THEN walk.level
                          ELSE batch.depth].len[i - RowsBefore(h)]
        /\ pc = "emit" /\ h = group => /\ dec = Full(s)[walk.level].dec
                                       /\ walk.frontier = Full(s)[walk.level].frontier
    BY <1>6 DEF LoaderInv
  <2>2. CASE h # group
    BY <1>2, <1>4, <2>1, <2>2
  <2>3. CASE h = group
    <3>1. Full(s)[walk.level] = Full(s)[batch.depth]
      <4>1. CASE walk.level = batch.depth
        BY <4>1
      <4>2. CASE walk.level # batch.depth
        <5>1. ~(walk.level >= walk.depth)
          BY <1>3, <4>2
        <5>2. Edges(Full(s)[walk.level].frontier) = <<>>
          BY <1>2, <2>1, <2>3, <5>1 DEF WalkEnds
        <5>3. walk.level \in 0..MaxDepth /\ batch.depth \in walk.level..MaxDepth
          BY <1>3
        <5> QED BY <1>1, <5>2, <5>3, FullLevels
      <4> QED BY <4>1, <4>2
    <3> QED BY <1>2, <1>4, <2>1, <2>3, <3>1
  <2> QED BY <2>2, <2>3
<1> QED BY <1>2, <1>5, <1>6, LoaderInvNext

\* A group of all variants begins as the full walk does.
LEMMA LoaderBegin ==
  ASSUME StateInv, LoaderInv, BeginEmit
  PROVE  LoaderInv'
<1> DEFINE g == batch.groups[group]
           b == RowsBefore(group)
<1>1. /\ pc = "group" /\ pc' = "emit" /\ group' = group /\ batch' = batch /\ cat' = cat
      /\ dec' = BeginRoot(dec, Len(g.rows), g.root)
      /\ walk' = StartWalk(g.root, g.rows, batch.depth)
  BY DEF BeginEmit
<1>2. /\ g.root \in Sections /\ g.rows \in Seq(VariantsOf(g.root)) /\ Len(g.rows) \in Nat \ {0}
      /\ b \in Nat /\ group \in 1..Len(batch.groups)
      /\ \A i \in DOMAIN out : out'[i] = out[i]
      /\ \A i \in DOMAIN out' : i \notin DOMAIN out => i - b \in 1..Len(g.rows) /\ i = b + (i - b)
      /\ \A r \in 1..Len(g.rows) : out'[b + r].nodes = <<<<g.root, g.rows[r]>>>>
      /\ \A h \in DOMAIN batch.groups : h # group =>
            GroupRows(h)' = GroupRows(h) /\ GroupRows(h) \subseteq DOMAIN out
      /\ \A h \in DOMAIN batch.groups : h = group => GroupRows(h)' = DOMAIN out' \ DOMAIN out
  BY Seeded
<1>3. Catalog /\ DeciderInv(dec)
  BY DEF StateInv, BaseInv, WalkInv
<1>4. walk'.level = 0 /\ walk'.frontier = StartWalk(g.root, g.rows, batch.depth).frontier
  BY <1>1 DEF StartWalk
<1> HIDE DEF g, b
<1>5. ASSUME NEW i \in DOMAIN out', i \notin DOMAIN out
      PROVE  i - b \in 1..Len(g.rows) /\ out'[i].nodes = <<<<g.root, g.rows[i - b]>>>>
  <2>1. i - b \in 1..Len(g.rows) /\ i = b + (i - b)
    BY <1>2, <1>5
  <2>2. out'[b + (i - b)].nodes = <<<<g.root, g.rows[i - b]>>>>
    BY <1>2, <2>1
  <2> QED BY <2>1, <2>2
<1>6. ASSUME NEW h \in DOMAIN batch.groups, NEW i \in GroupRows(h)'
      PROVE  out'[i].nodes[1] = <<batch.groups[h].root, batch.groups[h].rows[i - RowsBefore(h)]>>
  <2>1. CASE h # group
    BY <1>2, <2>1 DEF LoaderInv
  <2>2. CASE h = group
    <3>1. i \in DOMAIN out' /\ i \notin DOMAIN out
      BY <1>2, <2>2
    <3> QED BY <1>5, <2>2, <3>1 DEF g, b
  <2> QED BY <2>1, <2>2
<1>7. ASSUME NEW h \in DOMAIN batch.groups, NEW s \in Sections,
             s = batch.groups[h].root, batch.groups[h].rows = AllVariants(s)
      PROVE  /\ \A i \in GroupRows(h)' :
                   Length(out'[i].nodes)
                     = Full(s)[IF pc' = "emit" /\ h = group' THEN walk'.level
                               ELSE batch.depth].len[i - RowsBefore(h)]
             /\ pc' = "emit" /\ h = group' => /\ dec' = Full(s)[walk'.level].dec
                                              /\ walk'.frontier = Full(s)[walk'.level].frontier
  <2>1. CASE h # group
    <3>1. \A i \in GroupRows(h) :
             Length(out[i].nodes) = Full(s)[batch.depth].len[i - RowsBefore(h)]
      BY <1>1, <1>7, <2>1 DEF LoaderInv
    <3> QED BY <1>1, <1>2, <2>1, <3>1
  <2>2. CASE h = group
    <3>1. g.root = s /\ g.rows = AllVariants(s) /\ RowsBefore(h) = b
      BY <1>7, <2>2 DEF g, b
    <3>2. /\ Len(g.rows) = cat.variants[s] /\ cat.variants[s] \in Nat
          /\ \A v \in 1..Len(g.rows) : g.rows[v] = v /\ v \in VariantsOf(s)
      BY <1>3, <3>1, AllVariantsFacts DEF AllVariants, VariantsOf
    <3>3. dec' = Full(s)[0].dec
      <4>1. dec' = FreshDecider(cat.variants[s], s)
        BY <1>1, <1>3, <3>1, <3>2, Begun
      <4>2. Full(s)[0].dec = FreshDecider(cat.variants[s], s)
        BY <1>3, FullLevels
      <4> QED BY <4>1, <4>2
    <3>4. walk'.frontier = Full(s)[0].frontier
      <4>1. Full(s)[0].frontier = StartWalk(s, AllVariants(s), batch.depth).frontier
        BY <1>3, FullLevels
      <4> QED BY <1>4, <3>1, <4>1
    <3>5. ASSUME NEW i \in GroupRows(h)'
          PROVE  Length(out'[i].nodes) = Full(s)[0].len[i - RowsBefore(h)]
      <4>1. i \in DOMAIN out' /\ i \notin DOMAIN out
        BY <1>2, <2>2, <3>5
      <4>2. i - b \in 1..Len(g.rows) /\ out'[i].nodes = <<<<s, i - b>>>>
        BY <1>5, <3>1, <3>2, <4>1
      <4>3. <<s, i - b>> \in Nodes(cat)
        BY <3>2, <4>2 DEF Nodes, VariantsOf, Sections
      <4>4. Length(<<<<s, i - b>>>>) = Own(<<s, i - b>>)
        <5> DEFINE z == <<<<s, i - b>>>>
        <5>1. z \in Seq(Nodes(cat)) /\ Len(z) = 1 /\ z[1] = <<s, i - b>>
          BY <4>3
        <5>2. Own(z[1]) \in Nat
          BY <1>3, <4>3, <5>1, CatalogFacts DEF Own
        <5> HIDE DEF z
        <5>3. /\ EndOf(z, 0) = 0
              /\ \A j \in 1..Len(z) : EndOf(z, j) = EndOf(z, j - 1) + Own(z[j])
          BY <1>3, <5>1, EndFacts
        <5>4. 1 \in 1..Len(z) /\ 1 - 1 = 0
          BY <5>1
        <5>5. EndOf(z, 1) = EndOf(z, 0) + Own(z[1])
          BY <5>3, <5>4
        <5> QED BY <5>1, <5>2, <5>3, <5>5 DEF Length, z
      <4>5. Full(s)[0].len[i - b] = Own(<<s, i - b>>)
        BY <1>3, <3>2, <4>2, FullLevels
      <4> QED BY <3>1, <4>2, <4>4, <4>5
    <3> QED BY <1>1, <1>4, <2>2, <3>3, <3>4, <3>5
  <2> QED BY <2>1, <2>2
<1> QED BY <1>1, <1>6, <1>7, LoaderInvNext

\* A level of the emission of a group of all variants is a level of the full walk.
LEMMA LoaderLevel ==
  ASSUME StateInv, SpliceInv, LoaderInv, EmitLevel
  PROVE  LoaderInv'
<1>1. BaseInv /\ BatchInv /\ OutInv /\ WalkInv /\ Catalog
  BY DEF StateInv, BaseInv
<1> DEFINE g == batch.groups[group]
           n == Len(g.rows)
           b == RowsBefore(group)
           step == StepLevel(dec, Edges(walk.frontier))
           more(i) == ForRow(step.included, i - b)
<1>2. /\ pc = "emit" /\ pc' = pc /\ group' = group /\ batch' = batch /\ cat' = cat
      /\ out' = [i \in DOMAIN out |->
                   IF i > b THEN [out[i] EXCEPT !.nodes = out[i].nodes \o more(i)] ELSE out[i]]
      /\ ~WalkEnds /\ Walking /\ Advance(StepLevel(dec, Edges(walk.frontier)))
  BY <1>1 DEF EmitLevel, Advance, Walking
<1>3. /\ batch.groups \in Seq(Groups) /\ group \in 1..Len(batch.groups)
      /\ out \in Seq(RowSet) /\ Len(out) = RowsBefore(group + 1)
  BY <1>1, <1>2 DEF BatchInv, OutInv, InBatch
<1>4. /\ b \in Nat /\ n \in Nat \ {0} /\ Len(out) = b + n
      /\ \A i \in DOMAIN out : i > b => i - b \in 1..n
      /\ \A h \in DOMAIN batch.groups : h # group => \A i \in GroupRows(h) : i <= b
  BY <1>1, <1>3, RowsOfGroup
<1>5. /\ dec' = step.dec /\ walk'.level = walk.level + 1 /\ walk'.level <= walk.depth
      /\ walk'.frontier = step.included /\ step.included \in Seq(Pairs(Len(walk.rows)))
  BY <1>1, <1>2, Advanced
<1>6. /\ walk.rows = g.rows /\ walk.depth = batch.depth /\ walk.level \in Nat
      /\ batch.depth \in 0..MaxDepth /\ MaxDepth \in Nat /\ walk.level \in 0..MaxDepth-1
      /\ Edges(walk.frontier) # <<>>
  <2>1. /\ walk.rows = g.rows /\ walk.depth = batch.depth /\ walk.level \in Nat
        /\ batch.depth \in 0..MaxDepth /\ MaxDepth \in Nat
    BY <1>1, <1>2, CatalogFacts DEF WalkInv, WalkSet, BatchInv
  <2> QED BY <1>2, <1>5, <2>1 DEF WalkEnds
<1>7. DOMAIN out' = DOMAIN out /\ \A h : GroupRows(h)' = GroupRows(h)
  BY <1>2 DEF GroupRows, RowsBefore
<1>8. ASSUME NEW i \in DOMAIN out
      PROVE  /\ out[i].nodes \in Seq(Nodes(cat)) /\ out[i].nodes # <<>>
             /\ more(i) \in Seq(Nodes(cat))
             /\ i > b => out'[i].nodes = out[i].nodes \o more(i)
             /\ ~(i > b) => out'[i] = out[i]
  <2>1. out[i] \in RowSet
    BY <1>3
  <2>2. out[i].nodes # <<>>
    BY DEF SpliceInv
  <2> HIDE DEF step
  <2>3. more(i) \in Seq(Nodes(cat))
    BY <1>4, <1>5, <1>6, ForRowFacts
  <2> HIDE DEF more
  <2> QED BY <1>2, <2>1, <2>2, <2>3 DEF RowSet
<1> HIDE DEF g, n, b, step, more
<1>9. ASSUME NEW i \in DOMAIN out
      PROVE  /\ out'[i].nodes[1] = out[i].nodes[1]
             /\ i > b => Length(out'[i].nodes) = Length(out[i].nodes) + Length(more(i))
  <2>1. CASE i > b
    <3>1. /\ out[i].nodes \in Seq(Nodes(cat)) /\ out[i].nodes # <<>>
          /\ more(i) \in Seq(Nodes(cat)) /\ out'[i].nodes = out[i].nodes \o more(i)
      BY <1>8, <2>1
    <3>2. (out[i].nodes \o more(i))[1] = out[i].nodes[1]
      BY <3>1
    <3>3. Length(out[i].nodes \o more(i)) = Length(out[i].nodes) + Length(more(i))
      BY <1>1, <3>1, EndsOfConcat
    <3> QED BY <3>1, <3>2, <3>3
  <2>2. CASE ~(i > b)
    BY <1>8, <2>2
  <2> QED BY <2>1, <2>2
<1>10. ASSUME NEW h \in DOMAIN batch.groups, NEW i \in GroupRows(h)'
       PROVE  out'[i].nodes[1] = <<batch.groups[h].root, batch.groups[h].rows[i - RowsBefore(h)]>>
  <2>1. i \in GroupRows(h) /\ i \in DOMAIN out
    BY <1>7, <1>10 DEF GroupRows
  <2> QED BY <1>9, <2>1 DEF LoaderInv
<1>11. ASSUME NEW h \in DOMAIN batch.groups, NEW s \in Sections,
              s = batch.groups[h].root, batch.groups[h].rows = AllVariants(s)
       PROVE  /\ \A i \in GroupRows(h)' :
                    Length(out'[i].nodes)
                      = Full(s)[IF pc' = "emit" /\ h = group' THEN walk'.level
                                ELSE batch.depth].len[i - RowsBefore(h)]
              /\ pc' = "emit" /\ h = group' => /\ dec' = Full(s)[walk'.level].dec
                                               /\ walk'.frontier = Full(s)[walk'.level].frontier
  <2>1. /\ \A i \in GroupRows(h) :
              Length(out[i].nodes)
                = Full(s)[IF h = group THEN walk.level ELSE batch.depth].len[i - RowsBefore(h)]
        /\ h = group => dec = Full(s)[walk.level].dec /\ walk.frontier = Full(s)[walk.level].frontier
    BY <1>2, <1>11 DEF LoaderInv
  <2>2. CASE h # group
    <3>1. ASSUME NEW i \in GroupRows(h)'
          PROVE  Length(out'[i].nodes) = Full(s)[batch.depth].len[i - RowsBefore(h)]
      <4>1. i \in GroupRows(h) /\ i \in DOMAIN out /\ i \in Nat
        BY <1>3, <1>7, <3>1 DEF GroupRows
      <4>2. ~(i > b)
        BY <1>4, <2>2, <4>1
      <4>3. out'[i].nodes = out[i].nodes
        BY <1>8, <4>1, <4>2
      <4> QED BY <2>1, <2>2, <4>1, <4>3
    <3> QED BY <1>2, <2>2, <3>1
  <2>3. CASE h = group
    <3> DEFINE x == Full(s)[walk.level]
               y == Full(s)[walk.level + 1]
    <3>1. /\ y.dec = step.dec /\ y.frontier = step.included
          /\ \A v \in VariantsOf(s) : y.len[v] = x.len[v] + Length(ForRow(step.included, v))
      BY <1>1, <1>6, <2>1, <2>3, FullLevels DEF step
    <3> HIDE DEF x, y
    <3>2. g.rows = AllVariants(s) /\ RowsBefore(h) = b
      BY <1>11, <2>3 DEF g, b
    <3>3. VariantsOf(s) = 1..n
      BY <1>1, <3>2, AllVariantsFacts DEF VariantsOf, n
    <3>4. ASSUME NEW i \in GroupRows(h)'
          PROVE  Length(out'[i].nodes) = y.len[i - RowsBefore(h)]
      <4>1. i \in GroupRows(h) /\ i \in DOMAIN out /\ i > b
        BY <1>7, <3>2, <3>4 DEF GroupRows
      <4>2. i - b \in VariantsOf(s)
        BY <1>4, <3>3, <4>1
      <4>3. Length(out[i].nodes) = x.len[i - b]
        BY <2>1, <2>3, <3>2, <4>1 DEF x
      <4>4. Length(out'[i].nodes) = Length(out[i].nodes) + Length(ForRow(step.included, i - b))
        BY <1>9, <4>1 DEF more
      <4> QED BY <3>1, <3>2, <4>2, <4>3, <4>4
    <3> QED BY <1>2, <1>5, <2>3, <3>1, <3>4 DEF y
  <2> QED BY <2>2, <2>3
<1> QED BY <1>2, <1>10, <1>11, LoaderInvNext

\* Every step keeps what the rows of a group of all variants have to do with the
\* full walk.
LEMMA LoaderStep == StateInv /\ SpliceInv /\ LoaderInv /\ [Next]_vars => LoaderInv'
<1> SUFFICES ASSUME StateInv, SpliceInv, LoaderInv, [Next]_vars PROVE LoaderInv'
  OBVIOUS
<1>1. CASE BuildRoot \/ BuildSkip \/ BuildLevel \/ BuildNext \/ BuildEnd
  BY <1>1, LoaderKept DEF BuildRoot, BuildSkip, BuildLevel, BuildNext, BuildEnd
<1>2. CASE NextBatch
  BY <1>2, LoaderDropped DEF NextBatch, StartBatch
<1>3. CASE BeginEmit
  BY <1>3, LoaderBegin
<1>4. CASE EmitLevel
  BY <1>4, LoaderLevel
<1>5. CASE EmitEnd
  BY <1>5, LoaderEnd
<1>6. CASE PoolLevel \/ Geometry
  BY <1>6, LoaderKept DEF PoolLevel, Geometry
<1>7. CASE PoolEnd \/ Backfill
  <2>1. /\ cat' = cat /\ batch' = batch /\ DOMAIN out' = DOMAIN out
        /\ pc # "emit" /\ pc' # "emit"
    BY <1>7 DEF PoolEnd, Backfill
  <2>2. \A i \in DOMAIN out : out[i] \in RowSet
    BY DEF StateInv, OutInv
  <2>3. \A i \in DOMAIN out : out'[i].nodes = out[i].nodes
    BY <1>7, <2>2 DEF PoolEnd, Backfill, RowSet
  <2> QED BY <2>1, <2>3, LoaderKept
<1>8. CASE Scatter
  BY <1>8, LoaderDropped DEF Scatter
<1>9. CASE UNCHANGED vars
  BY <1>9, LoaderKept DEF vars
<1> QED BY <1>1, <1>2, <1>3, <1>4, <1>5, <1>6, <1>7, <1>8, <1>9 DEF Next

\* When the scatter runs, the index is complete, and the rows of a group of all
\* the variants of its root are those of the full walk at the batch's depth.
LEMMA IndexMatches ==
  ASSUME StateInv, IndexInv, LoaderInv
  PROVE  LoaderMatchesIndex
<1>1. BaseInv /\ BatchInv /\ OutInv /\ Catalog
  BY DEF StateInv, BaseInv
<1> SUFFICES ASSUME pc = "scatter", NEW h \in DOMAIN batch.groups,
                    batch.groups[h].rows = AllVariants(batch.groups[h].root),
                    NEW i \in GroupRows(h)
             PROVE  Length(out[i].nodes) = cum[batch.depth][out[i].nodes[1]]
  BY DEF LoaderMatchesIndex
<1> DEFINE s == batch.groups[h].root
           v == i - RowsBefore(h)
<1>2. /\ batch.groups \in Seq(Groups) /\ h \in 1..Len(batch.groups)
      /\ batch.depth \in 0..MaxDepth /\ Len(batch.groups) \in Nat
  BY <1>1 DEF BatchInv
<1>3. s \in Sections /\ s \in Nat /\ s < root
  <2>1. batch.groups[h] \in Groups
    BY <1>2
  <2>2. s \in Sections
    BY <1>1, <2>1, GroupFacts
  <2>3. root = Len(cat.variants) + 1 /\ Sections = 1..Len(cat.variants) /\ Len(cat.variants) \in Nat
    BY <1>1, CatalogFacts DEF IndexInv
  <2> HIDE DEF s
  <2> QED BY <2>2, <2>3
<1>4. v \in VariantsOf(s) /\ batch.groups[h].rows[v] = v
  <2>1. /\ RowsBefore(h) \in Nat
        /\ RowsBefore(h + 1) = RowsBefore(h) + Len(batch.groups[h].rows)
    BY <1>1, <1>2, RowsBeforeFacts
  <2>2. Len(batch.groups[h].rows) = cat.variants[s] /\ cat.variants[s] \in Nat
    BY <1>1, <1>3, AllVariantsFacts
  <2>3. i \in Nat /\ i > RowsBefore(h) /\ i <= RowsBefore(h + 1)
    BY <1>1 DEF GroupRows, OutInv
  <2>4. v \in 1..cat.variants[s]
    BY <2>1, <2>2, <2>3
  <2> QED BY <2>4 DEF AllVariants, VariantsOf
<1>5. out[i].nodes[1] = <<s, v>>
  BY <1>4 DEF LoaderInv
<1>6. Length(out[i].nodes) = Full(s)[batch.depth].len[v]
  BY <1>3 DEF LoaderInv
<1>7. <<s, v>> \in Nodes(cat)
  BY <1>3, <1>4 DEF Nodes, Sections, VariantsOf
<1> HIDE DEF s, v
<1>8. cum[batch.depth][<<s, v>>] = Full(s)[batch.depth].len[v]
  BY <1>2, <1>3, <1>7 DEF IndexInv
<1> QED BY <1>5, <1>6, <1>8

\* For any catalogs and batches: the spliced lengths that the sorted index
\* precomputes, one root after the other with one decider, are the lengths of the
\* rows that the loader emits for all the variants of a root, at every depth
\* (compute_node_lengths and bfs_emit).
THEOREM LoaderCorrect == Spec => []LoaderMatchesIndex
<1>1. Init => IndexInv /\ LoaderInv /\ SpliceInv
  <2> SUFFICES ASSUME Init PROVE IndexInv /\ LoaderInv /\ SpliceInv
    OBVIOUS
  <2>1. StateInv
    BY StateInit
  <2>2. pc = "build" /\ root = 1 /\ out = <<>>
        /\ cum = [d \in 0..MaxDepth |-> [n \in Nodes(cat) |-> Own(n)]]
    BY DEF Init
  <2>3. \A n \in Nodes(cat) : ~(n[1] < 1)
    <3>1. Catalog
      BY <2>1 DEF StateInv, BaseInv
    <3>2. Sections = 1..Len(cat.variants) /\ Len(cat.variants) \in Nat
          /\ \A n \in Nodes(cat) : n[1] \in Sections
      BY <3>1, CatalogFacts
    <3> QED BY <3>2
  <2>4. IndexInv
    BY <2>2, <2>3 DEF IndexInv
  <2>5. LoaderInv
    BY <2>2 DEF LoaderInv, GroupRows
  <2>6. SpliceInv
    BY <2>2 DEF SpliceInv, OncePerRow, NothingCommonToAll, GroupRows
  <2> QED BY <2>4, <2>5, <2>6
<1>2. StateInv /\ (IndexInv /\ LoaderInv /\ SpliceInv) /\ [Next]_vars
        => (IndexInv /\ LoaderInv /\ SpliceInv)'
  BY IndexStep, LoaderStep, SpliceStep
<1>3. StateInv /\ (IndexInv /\ LoaderInv /\ SpliceInv) => LoaderMatchesIndex
  BY IndexMatches
<1> QED BY <1>1, <1>2, <1>3, StateInvariant, PTL DEF Spec

(* --------------------------- backfill and layout -------------------------- *)

\* The greater and the lesser of two numbers.
LEMMA OfTwo ==
  ASSUME NEW a \in Int, NEW b \in Int
  PROVE  /\ Max({a, b}) = IF a >= b THEN a ELSE b
         /\ Min({a, b}) = IF a <= b THEN a ELSE b
<1>1. Max({a, b}) = IF a >= b THEN a ELSE b
  <2> DEFINE m == IF a >= b THEN a ELSE b
             Q(x) == x \in {a, b} /\ \A y \in {a, b} : x >= y
  <2>1. Q(m)
    OBVIOUS
  <2>2. \A x : Q(x) => x = m
    OBVIOUS
  <2>3. Max({a, b}) = CHOOSE x : Q(x)
    BY DEF Max
  <2> HIDE DEF Q, m
  <2>4. Max({a, b}) = m
    BY <2>1, <2>2, <2>3
  <2> QED BY <2>4 DEF m
<1>2. Min({a, b}) = IF a <= b THEN a ELSE b
  <2> DEFINE m == IF a <= b THEN a ELSE b
             Q(x) == x \in {a, b} /\ \A y \in {a, b} : x <= y
  <2>1. Q(m)
    OBVIOUS
  <2>2. \A x : Q(x) => x = m
    OBVIOUS
  <2>3. Min({a, b}) = CHOOSE x : Q(x)
    BY DEF Min
  <2> HIDE DEF Q, m
  <2>4. Min({a, b}) = m
    BY <2>1, <2>2, <2>3
  <2> QED BY <2>4 DEF m
<1> QED BY <1>1, <1>2

\* The first function of an overflowing row that ends beyond the cut: the ones
\* before it end within the budget.
LEMMA StraddlerFacts ==
  ASSUME Catalog, NEW all \in Seq(Nodes(cat)), all # <<>>, NEW len \in Nat, ~Fits(all, len)
  PROVE  LET i == Straddler(all, len)
         IN  /\ i \in 1..Len(all) /\ EndOf(all, i) > BodyBudget(len)
             /\ EndOf(all, i - 1) <= BodyBudget(len)
             /\ BodyBudget(len) \in Nat
             /\ BodyBudget(len) = IF len >= cat.prefix THEN len - cat.prefix ELSE 0
<1> DEFINE T == {j \in DOMAIN all : EndOf(all, j) > BodyBudget(len)}
           i == Straddler(all, len)
<1>1. cat.prefix \in Nat
  BY CatalogFacts DEF IsCatalog
<1>2. /\ BodyBudget(len) \in Nat
      /\ BodyBudget(len) = IF len >= cat.prefix THEN len - cat.prefix ELSE 0
  <2>1. len - cat.prefix \in Int /\ 0 \in Int
    BY <1>1
  <2>2. BodyBudget(len) = IF len - cat.prefix >= 0 THEN len - cat.prefix ELSE 0
    BY <2>1, OfTwo DEF BodyBudget
  <2> QED BY <1>1, <2>2
<1>3. /\ EndOf(all, 0) = 0 /\ \A j \in 0..Len(all) : EndOf(all, j) \in Nat
      /\ \A j \in 1..Len(all) : EndOf(all, j) = EndOf(all, j - 1) + Own(all[j])
      /\ Length(all) \in Nat /\ Length(all) = EndOf(all, Len(all))
  BY EndFacts DEF Length
<1>4. DOMAIN all = 1..Len(all) /\ Len(all) \in Nat /\ Len(all) # 0
  OBVIOUS
<1>5. Length(all) > 0
  <2>1. Len(all) \in 1..Len(all) /\ Len(all) - 1 \in 0..Len(all)
    BY <1>4
  <2>2. Own(all[Len(all)]) \in Nat /\ Own(all[Len(all)]) >= 1
    <3>1. all[Len(all)] \in Nodes(cat)
      BY <2>1
    <3> QED BY <3>1, CatalogFacts
  <2> QED BY <1>3, <2>1, <2>2
<1>6. cat.prefix + Length(all) > len
  BY <1>1, <1>3 DEF Fits, Total
<1>7. Len(all) \in T
  BY <1>1, <1>2, <1>3, <1>4, <1>5, <1>6
<1>8. i = Min(T) /\ T \subseteq Nat
  BY <1>4 DEF Straddler
<1>9. Min(T) \in T /\ \A j \in T : Min(T) <= j
  BY <1>7, <1>8, MinOfNaturals
<1>10. i \in 1..Len(all) /\ EndOf(all, i) > BodyBudget(len)
  BY <1>4, <1>8, <1>9
<1>11. EndOf(all, i - 1) <= BodyBudget(len)
  <2>1. CASE i = 1
    BY <1>2, <1>3, <2>1
  <2>2. CASE i # 1
    <3>1. i - 1 \in 1..Len(all) /\ i - 1 \in 0..Len(all) /\ ~(i <= i - 1)
      BY <1>4, <1>10, <2>2
    <3>2. i - 1 \notin T
      BY <1>8, <1>9, <3>1
    <3> HIDE DEF i
    <3> QED BY <1>2, <1>3, <1>4, <3>1, <3>2
  <2> QED BY <2>1, <2>2
<1> QED BY <1>2, <1>10, <1>11

\* The surviving columns of a row, whatever its nodes: they fill the context up to
\* the row's end or the cut, whichever comes first.
LEMMA CutFills ==
  ASSUME Catalog, NEW all \in Seq(Nodes(cat)), all # <<>>, NEW len \in Nat
  PROVE  LET cut == [j \in DOMAIN all |-> Surviving(all, len, j)]
         IN  Sums(cut)[Len(cut)] = Max({0, Min({Total(all), len}) - cat.prefix})
<1> DEFINE cut == [j \in DOMAIN all |-> Surviving(all, len, j)]
           own == [j \in DOMAIN all |-> Own(all[j])]
           B == BodyBudget(len)
<1>1. cat.prefix \in Nat /\ Len(all) \in Nat /\ DOMAIN all = 1..Len(all)
  BY CatalogFacts, SMTT(30) DEF IsCatalog
<1>2. /\ EndOf(all, 0) = 0 /\ \A j \in 0..Len(all) : EndOf(all, j) \in Nat
      /\ \A j \in 1..Len(all) : EndOf(all, j) = EndOf(all, j - 1) + Own(all[j])
      /\ Length(all) \in Nat /\ Length(all) = EndOf(all, Len(all))
  BY EndFacts DEF Length
<1>3. \A j \in 1..Len(all) : Own(all[j]) \in Nat
  <2>1. \A j \in 1..Len(all) : all[j] \in Nodes(cat)
    OBVIOUS
  <2> QED BY <2>1, CatalogFacts
<1>4. Total(all) \in Nat /\ Total(all) = cat.prefix + Length(all)
  BY <1>1, <1>2 DEF Total
<1>5. Max({0, Min({Total(all), len}) - cat.prefix})
        = IF Total(all) <= len THEN Length(all)
          ELSE IF len >= cat.prefix THEN len - cat.prefix ELSE 0
  <2>0. Total(all) \in Int /\ len \in Int
    BY <1>4
  <2>1. Min({Total(all), len}) = IF Total(all) <= len THEN Total(all) ELSE len
    BY <2>0, OfTwo
  <2> DEFINE z == Min({Total(all), len}) - cat.prefix
  <2>2. z \in Int /\ 0 \in Int
    BY <1>1, <1>4, <2>1
  <2>3. z = IF Total(all) <= len THEN Length(all) ELSE len - cat.prefix
    BY <1>1, <1>2, <1>4, <2>1
  <2> HIDE DEF z
  <2>4. Max({0, z}) = IF 0 >= z THEN 0 ELSE z
    BY <2>2, OfTwo
  <2>5. Max({0, z}) = IF Total(all) <= len THEN Length(all)
                      ELSE IF len >= cat.prefix THEN len - cat.prefix ELSE 0
    BY <1>1, <1>2, <2>3, <2>4
  <2> QED BY <2>5 DEF z
<1>6. CASE Fits(all, len)
  <2>1. cut = own
    BY <1>6 DEF Surviving
  <2>2. Sums(own)[Len(own)] = Length(all)
    <3>1. Len(own) = Len(all)
      BY EndFacts
    <3> QED BY <3>1 DEF Length, EndOf
  <2>3. Total(all) <= len
    BY <1>6 DEF Fits
  <2> HIDE DEF cut, own
  <2>4. Sums(cut)[Len(cut)] = Max({0, Min({Total(all), len}) - cat.prefix})
    BY <1>5, <2>1, <2>2, <2>3
  <2> QED BY <2>4 DEF cut
<1>7. CASE ~Fits(all, len)
  <2> DEFINE i == Straddler(all, len)
  <2>1. /\ i \in 1..Len(all) /\ EndOf(all, i) > B /\ EndOf(all, i - 1) <= B
        /\ B \in Nat /\ B = IF len >= cat.prefix THEN len - cat.prefix ELSE 0
    BY <1>7, StraddlerFacts
  <2> HIDE DEF i, B
\* The straddler keeps the columns between the ones before it and the cut.
  <2>2. PartialCut(all, len) = B - EndOf(all, i - 1) /\ PartialCut(all, len) \in Nat
    <3>1. /\ EndOf(all, i) = EndOf(all, i - 1) + Own(all[i]) /\ Own(all[i]) \in Nat
          /\ i - 1 \in 0..Len(all)
      BY <1>1, <1>2, <1>3, <2>1
    <3>2. EndOf(all, i - 1) \in Nat
      BY <1>2, <3>1
    <3> DEFINE rest == B - EndOf(all, i - 1)
    <3>3. rest \in Nat /\ rest <= Own(all[i]) /\ rest = B - EndOf(all, i - 1)
      BY <2>1, <3>1, <3>2
    <3> HIDE DEF rest
    <3>4. Min({Own(all[i]), rest}) = rest
      <4>1. Own(all[i]) \in Int /\ rest \in Int
        BY <3>1, <3>3
      <4>2. Min({Own(all[i]), rest}) = IF Own(all[i]) <= rest THEN Own(all[i]) ELSE rest
        BY <4>1, OfTwo
      <4> QED BY <3>3, <4>1, <4>2
    <3>5. Max({0, rest}) = rest
      <4>1. 0 \in Int /\ rest \in Int
        BY <3>3
      <4>2. Max({0, rest}) = IF 0 >= rest THEN 0 ELSE rest
        BY <4>1, OfTwo
      <4> QED BY <3>3, <4>2
    <3>6. PartialCut(all, len) = Max({0, Min({Own(all[i]), B - EndOf(all, i - 1)})})
      BY DEF PartialCut, i, B
    <3> QED BY <3>3, <3>4, <3>5, <3>6
  <2>3. ASSUME NEW j \in 1..Len(all)
        PROVE  cut[j] = IF j < i THEN Own(all[j])
                        ELSE IF j = i THEN B - EndOf(all, i - 1) ELSE 0
    BY <1>1, <1>7, <2>2 DEF Surviving, i
  <2>4. cut \in Seq(Nat) /\ Len(cut) = Len(all)
    <3>2. cut = [j \in 1..Len(all) |-> cut[j]]
      BY <1>1
    <3>0. PartialCut(all, len) = B - EndOf(all, i - 1)
      BY <2>2
    <3> HIDE DEF cut
    <3>1. \A j \in 1..Len(all) : cut[j] \in Nat
      BY <1>3, <2>2, <2>3, <3>0
    <3>3. cut \in [1..Len(all) -> Nat]
      BY <3>1, <3>2
    <3> QED BY <1>1, <3>3
  <2> HIDE DEF cut
  <2> DEFINE P == {k \in 0..Len(all) : Sums(cut)[k] = IF k < i THEN EndOf(all, k) ELSE B}
  <2>5. Sums(cut)[0] = 0 /\ \A k \in 1..Len(all) : Sums(cut)[k] = Sums(cut)[k-1] + cut[k]
    BY <2>4, SumsFacts
  <2>6. 0 \in P
    BY <1>1, <1>2, <2>1, <2>5
  <2>7. ASSUME NEW k \in 0..Len(all)-1, k \in P PROVE k + 1 \in P
    <3>1. k + 1 \in 1..Len(all) /\ k + 1 \in 0..Len(all) /\ (k + 1) - 1 = k /\ k \in 0..Len(all) /\ i \in Nat
      BY <1>1, <2>1
    <3>2. Sums(cut)[k+1] = Sums(cut)[k] + cut[k+1]
      BY <2>5, <3>1
    <3>3. Sums(cut)[k] = IF k < i THEN EndOf(all, k) ELSE B
      BY <2>7
    <3>4. CASE k + 1 < i
      <4>1. cut[k+1] = Own(all[k+1]) /\ k < i
        BY <2>3, <3>1, <3>4
      <4>2. EndOf(all, k + 1) = EndOf(all, k) + Own(all[k+1])
        BY <1>2, <3>1
      <4> QED BY <3>1, <3>2, <3>3, <3>4, <4>1, <4>2
    <3>5. CASE k + 1 = i
      <4>1. cut[k+1] = B - EndOf(all, k) /\ k < i /\ ~(k + 1 < i)
        BY <2>3, <3>1, <3>5
      <4>2. EndOf(all, k) \in Nat
        BY <1>2, <3>1
      <4>3. Sums(cut)[k+1] = B
        BY <2>1, <3>2, <3>3, <4>1, <4>2
      <4> QED BY <3>1, <4>1, <4>3
    <3>6. CASE k + 1 > i
      <4>1. cut[k+1] = 0 /\ ~(k < i) /\ ~(k + 1 < i)
        BY <2>3, <3>1, <3>6
      <4>2. Sums(cut)[k+1] = B
        BY <2>1, <3>2, <3>3, <4>1
      <4> QED BY <3>1, <4>1, <4>2
    <3> QED BY <3>1, <3>4, <3>5, <3>6
  <2>8. \A k \in 0..Len(all) : k \in P
    <3> HIDE DEF P
    <3> QED BY <1>1, <2>6, <2>7, UpTo
  <2>9. Sums(cut)[Len(all)] = B
    <3>1. Len(all) \in P /\ ~(Len(all) < i)
      BY <1>1, <2>1, <2>8
    <3> QED BY <3>1
  <2>10. ~(Total(all) <= len)
    BY <1>7 DEF Fits
  <2>11. Sums(cut)[Len(cut)] = Max({0, Min({Total(all), len}) - cat.prefix})
    BY <1>5, <2>1, <2>4, <2>9, <2>10
  <2> QED BY <2>11 DEF cut
<1> QED BY <1>6, <1>7

\* What the greedy filling of a row amounts to.
LEMMA GreedyFacts ==
  ASSUME Catalog, NEW row \in RowSet, NEW len \in Nat
  PROVE  LET all == row.nodes \o Backfilled(row, len)
         IN  /\ Total(all) <= Max({len, Total(row.nodes)})
             /\ \A n \in ToSet(row.pool) \ ToSet(all) : Own(n) > len - Total(all)
<1>1. PICK a : /\ a \in [0..Len(row.pool) -> Seq(Nodes(cat))]
               /\ a[0] = <<>> /\ Backfilled(row, len) = a[Len(row.pool)]
               /\ \A i \in 1..Len(row.pool) :
                    a[i] = IF Taken(row, len, a[i-1], row.pool[i])
                           THEN Append(a[i-1], row.pool[i]) ELSE a[i-1]
  BY BackfilledFacts
<1> DEFINE m == Len(row.pool)
           all(i) == row.nodes \o a[i]
           top == IF len >= Total(row.nodes) THEN len ELSE Total(row.nodes)
<1>2. /\ m \in Nat /\ row.nodes \in Seq(Nodes(cat)) /\ row.pool \in Seq(Nodes(cat))
      /\ \A i \in 1..m : row.pool[i] \in Nodes(cat)
      /\ cat.prefix \in Nat
  <2>1. row.nodes \in Seq(Nodes(cat)) /\ row.pool \in Seq(Nodes(cat))
    BY DEF RowSet
  <2>2. cat.prefix \in Nat
    BY CatalogFacts DEF IsCatalog
  <2> HIDE DEF all, top
  <2> QED BY <2>1, <2>2
<1>3. ASSUME NEW i \in 0..m
      PROVE  all(i) \in Seq(Nodes(cat)) /\ Total(all(i)) \in Nat
  <2>1. a[i] \in Seq(Nodes(cat))
    BY <1>1
  <2>2. all(i) \in Seq(Nodes(cat))
    BY <1>2, <2>1
  <2> HIDE DEF all
  <2>3. Length(all(i)) \in Nat
    BY <2>2, EndFacts
  <2> QED BY <1>2, <2>2, <2>3 DEF Total
<1>4. ASSUME NEW i \in 1..m
      PROVE  LET n == row.pool[i]
             IN  \/ /\ n \notin ToSet(all(i-1)) /\ Own(n) <= len - Total(all(i-1))
                    /\ n \in ToSet(all(i)) /\ ToSet(all(i-1)) \subseteq ToSet(all(i))
                    /\ Total(all(i)) = Total(all(i-1)) + Own(n)
                 \/ /\ n \in ToSet(all(i-1)) \/ ~(Own(n) <= len - Total(all(i-1)))
                    /\ all(i) = all(i-1)
  <2> DEFINE n == row.pool[i]
  <2>1. i - 1 \in 0..m /\ n \in Nodes(cat)
    BY <1>2
  <2>2. a[i-1] \in Seq(Nodes(cat))
    BY <1>1, <2>1
  <2>3. CASE Taken(row, len, a[i-1], n)
    <3>1. a[i] = Append(a[i-1], n)
      BY <1>1, <2>3
    <3>2. all(i) = all(i-1) \o <<n>>
      <4> HIDE DEF n
      <4>1. row.nodes \o Append(a[i-1], n) = (row.nodes \o a[i-1]) \o <<n>>
        <5> DEFINE S == Nodes(cat)
                   s == row.nodes
                   t == a[i-1]
                   z == <<n>>
        <5>1. s \in Seq(S) /\ t \in Seq(S) /\ z \in Seq(S) /\ n \in S
          BY <1>2, <2>1, <2>2
        <5> HIDE DEF S, s, t
        <5>2. Append(t, n) = t \o z
          BY <5>1, AppendIsConcat
        <5> HIDE DEF z
        <5>3. (s \o t) \o z = s \o (t \o z)
          BY <5>1, ConcatAssociative
        <5> QED BY <5>2, <5>3 DEF s, t, z
      <4> QED BY <3>1, <4>1
    <3>3. all(i-1) \in Seq(Nodes(cat)) /\ <<n>> \in Seq(Nodes(cat)) /\ Total(all(i-1)) \in Nat
      BY <1>3, <2>1
    <3>4. Length(<<n>>) = Own(n) /\ Own(n) \in Nat
      <4> DEFINE z == <<n>>
      <4>1. z \in Seq(Nodes(cat)) /\ Len(z) = 1 /\ z[1] = n
        BY <2>1
      <4>2. Own(z[1]) \in Nat
        BY <2>1, <4>1, CatalogFacts
      <4> HIDE DEF z, n
      <4>3. /\ EndOf(z, 0) = 0
            /\ \A j \in 1..Len(z) : EndOf(z, j) = EndOf(z, j - 1) + Own(z[j])
        BY <4>1, EndFacts
      <4>4. 1 \in 1..Len(z) /\ 1 - 1 = 0
        BY <4>1
      <4>5. EndOf(z, 1) = EndOf(z, 0) + Own(z[1])
        BY <4>3, <4>4
      <4>6. Length(z) = Own(n)
        BY <4>1, <4>2, <4>3, <4>5 DEF Length
      <4> QED BY <4>1, <4>2, <4>6 DEF z
    <3> HIDE DEF all, n
    <3>5. Length(all(i-1) \o <<n>>) = Length(all(i-1)) + Length(<<n>>) /\ Length(all(i-1)) \in Nat
      BY <3>3, EndsOfConcat, EndFacts
    <3>6. Total(all(i)) = Total(all(i-1)) + Own(n)
      BY <1>2, <3>2, <3>4, <3>5 DEF Total
    <3>7. n \in ToSet(all(i)) /\ ToSet(all(i-1)) \subseteq ToSet(all(i))
      <4> DEFINE s == all(i-1)
      <4>1. s \in Seq(Nodes(cat)) /\ all(i) = s \o <<n>> /\ Len(s) \in Nat
        BY <3>2, <3>3
      <4> HIDE DEF s
      <4>2. /\ DOMAIN (s \o <<n>>) = 1..Len(s) + 1 /\ (s \o <<n>>)[Len(s) + 1] = n
            /\ DOMAIN s = 1..Len(s) /\ \A j \in 1..Len(s) : (s \o <<n>>)[j] = s[j]
        BY <4>1
      <4>3. Len(s) + 1 \in 1..Len(s) + 1 /\ 1..Len(s) \subseteq 1..Len(s) + 1
        BY <4>1
      <4>4. n \in ToSet(all(i)) /\ ToSet(s) \subseteq ToSet(all(i))
        BY <4>1, <4>2, <4>3 DEF ToSet
      <4> QED BY <4>4 DEF s
    <3>8. n \notin ToSet(all(i-1)) /\ Own(n) <= len - Total(all(i-1))
      BY <2>3 DEF Taken, all
    <3> QED BY <3>6, <3>7, <3>8 DEF n
  <2>4. CASE ~Taken(row, len, a[i-1], n)
    <3>1. a[i] = a[i-1]
      BY <1>1, <2>4
    <3>2. n \in ToSet(all(i-1)) \/ ~(Own(n) <= len - Total(all(i-1)))
      BY <2>4 DEF Taken
    <3> QED BY <3>1, <3>2
  <2> QED BY <2>3, <2>4
<1>5. all(0) = row.nodes /\ all(m) = row.nodes \o Backfilled(row, len)
  BY <1>1, <1>2
<1>6. \A i \in 1..m : Own(row.pool[i]) \in Nat
  BY <1>2, CatalogFacts
<1>7. Total(row.nodes) \in Nat
  <2>1. 0 \in 0..m
    BY <1>2
  <2> HIDE DEF all
  <2> QED BY <1>3, <1>5, <2>1
<1> HIDE DEF all, m
\* By induction over the pool: the row is within the greater of the two, and every
\* pool function so far is in it or was, and is, too long.
<1> DEFINE P == {i \in 0..m : /\ Total(all(i)) <= top
                              /\ \A j \in 1..i : \/ row.pool[j] \in ToSet(all(i))
                                                 \/ Own(row.pool[j]) > len - Total(all(i))}
<1>8. 0 \in P
  BY <1>2, <1>5, <1>7
<1>9. ASSUME NEW k \in 0..m-1, k \in P PROVE k + 1 \in P
  <2>1. k + 1 \in 1..m /\ k + 1 \in 0..m /\ (k + 1) - 1 = k /\ k \in 0..m
    BY <1>2
  <2> DEFINE n == row.pool[k+1]
             x == Total(all(k))
             y == Total(all(k+1))
  <2>2. x \in Nat /\ y \in Nat /\ Own(n) \in Nat
    BY <1>3, <1>6, <2>1
  <2>3. /\ x <= top
        /\ \A j \in 1..k : row.pool[j] \in ToSet(all(k)) \/ Own(row.pool[j]) > len - x
    BY <1>9
  <2>4. \/ /\ n \notin ToSet(all(k)) /\ Own(n) <= len - x
           /\ n \in ToSet(all(k+1)) /\ ToSet(all(k)) \subseteq ToSet(all(k+1))
           /\ y = x + Own(n)
        \/ /\ n \in ToSet(all(k)) \/ ~(Own(n) <= len - x)
           /\ all(k+1) = all(k)
    BY <1>4, <2>1
  <2>5. y <= top
    BY <1>7, <2>2, <2>3, <2>4
  <2>6. ASSUME NEW j \in 1..k+1
        PROVE  row.pool[j] \in ToSet(all(k+1)) \/ Own(row.pool[j]) > len - y
    <3>0. Own(row.pool[j]) \in Nat
      <4>1. j \in 1..m
        BY <1>2, <2>6
      <4> QED BY <1>6, <4>1
    <3> HIDE DEF x, y, n
    <3>1. CASE j = k + 1
      BY <2>2, <2>4, <3>1 DEF n, x, y
    <3>2. CASE j # k + 1
      <4>1. j \in 1..k
        BY <2>1, <3>2
      <4>2. row.pool[j] \in ToSet(all(k)) \/ Own(row.pool[j]) > len - x
        BY <2>3, <4>1
      <4>3. ToSet(all(k)) \subseteq ToSet(all(k+1)) /\ x <= y
        BY <2>2, <2>4 DEF x, y
      <4> QED BY <2>2, <3>0, <4>2, <4>3
    <3> QED BY <3>1, <3>2
  <2> QED BY <2>1, <2>5, <2>6
<1>10. m \in P
  <2> HIDE DEF P
  <2>1. \A i \in 0..m : i \in P
    BY <1>2, <1>8, <1>9, UpTo
  <2> QED BY <1>2, <2>1
<1>11. Max({len, Total(row.nodes)}) = top
  BY <1>7, OfTwo
<1>12. \A n \in ToSet(row.pool) : \E j \in 1..m : n = row.pool[j]
  BY <1>2 DEF ToSet, m
<1>13. /\ Total(all(m)) <= top
       /\ \A n \in ToSet(row.pool) : n \in ToSet(all(m)) \/ Own(n) > len - Total(all(m))
  BY <1>10, <1>12
<1> HIDE DEF top, P
<1> QED BY <1>5, <1>11, <1>13

\* Backfill leaves every row greedily filled; the other steps do not reach the
\* scatter with backfill on.
LEMMA GreedyStep == StateInv /\ BackfillIsGreedy /\ [Next]_vars => BackfillIsGreedy'
<1> SUFFICES ASSUME StateInv, BackfillIsGreedy, [Next]_vars PROVE BackfillIsGreedy'
  OBVIOUS
<1>1. CASE pc' # "scatter"
  BY <1>1 DEF BackfillIsGreedy
<1>2. CASE Backfill
  <2>1. /\ cat' = cat /\ batch' = batch /\ DOMAIN out' = DOMAIN out
        /\ out' = [i \in DOMAIN out |-> [out[i] EXCEPT !.added = Backfilled(out[i], batch.len)]]
    BY <1>2 DEF Backfill
  <2>2. Catalog /\ batch.len \in Nat /\ \A i \in DOMAIN out : out[i] \in RowSet
    BY DEF StateInv, BaseInv, BatchInv, OutInv
  <2>3. ASSUME NEW i \in DOMAIN out
        PROVE  /\ out'[i].nodes = out[i].nodes /\ out'[i].pool = out[i].pool
               /\ out'[i].added = Backfilled(out[i], batch.len)
    <3>1. out[i] \in RowSet
      BY <2>2
    <3> QED BY <2>1, <3>1 DEF RowSet
  <2>4. \A nodes : Total(nodes)' = Total(nodes) /\ \A n : Own(n)' = Own(n)
    BY <2>1 DEF Total, Length, EndOf, Own
  <2>5. ASSUME NEW i \in DOMAIN out
        PROVE  LET all == out'[i].nodes \o out'[i].added
               IN  /\ Total(all) <= Max({batch.len, Total(out'[i].nodes)})
                   /\ \A n \in ToSet(out'[i].pool) \ ToSet(all) : Own(n) > batch.len - Total(all)
    <3>1. out[i] \in RowSet
      BY <2>2
    <3>2. LET all == out[i].nodes \o Backfilled(out[i], batch.len)
          IN  /\ Total(all) <= Max({batch.len, Total(out[i].nodes)})
              /\ \A n \in ToSet(out[i].pool) \ ToSet(all) : Own(n) > batch.len - Total(all)
      BY <2>2, <3>1, GreedyFacts
    <3> QED BY <2>3, <3>2
  <2>6. ASSUME NEW i \in DOMAIN out
        PROVE  (LET all == out[i].nodes \o out[i].added
                IN  /\ Total(all) <= Max({batch.len, Total(out[i].nodes)})
                    /\ \A n \in ToSet(out[i].pool) \ ToSet(all) : Own(n) > batch.len - Total(all))'
    <3>1. /\ (Total(out[i].nodes \o out[i].added))' = Total(out'[i].nodes \o out'[i].added)
          /\ (Total(out[i].nodes))' = Total(out'[i].nodes)
      BY <2>1 DEF Total, Length, EndOf, Own
    <3> QED BY <2>1, <2>4, <2>5, <3>1
  <2> QED BY <2>1, <2>6 DEF BackfillIsGreedy
<1>3. CASE Geometry /\ pc' = "scatter"
  <2>1. ~batch'.backfill
    BY <1>3 DEF Geometry
  <2> QED BY <2>1 DEF BackfillIsGreedy
<1>4. CASE UNCHANGED vars
  <2>1. cat' = cat /\ pc' = pc /\ batch' = batch /\ out' = out
    BY <1>4 DEF vars
  <2>2. \A nodes : Total(nodes)' = Total(nodes)
    BY <2>1 DEF Total, Length, EndOf, Own
  <2>3. \A n : Own(n)' = Own(n)
    BY <2>1 DEF Own
  <2> QED BY <2>1, <2>2, <2>3 DEF BackfillIsGreedy
<1>5. CASE BuildRoot \/ BuildSkip \/ BuildLevel \/ BuildNext \/ BuildEnd
  BY <1>1, <1>5 DEF BuildRoot, BuildSkip, BuildLevel, BuildNext, BuildEnd
<1>6. CASE NextBatch \/ BeginEmit \/ EmitLevel \/ EmitEnd \/ PoolLevel \/ PoolEnd \/ Scatter
  BY <1>1, <1>6 DEF NextBatch, StartBatch, BeginEmit, EmitLevel, EmitEnd, PoolLevel, PoolEnd, Scatter
<1> QED BY <1>1, <1>2, <1>3, <1>4, <1>5, <1>6 DEF Next

\* When the scatter runs, every row has its root, and is cut as CutFills says.
LEMMA ContextFilled ==
  ASSUME StateInv, SpliceInv, BackfillIsGreedy
  PROVE  RowFillsContext
<1>1. Catalog /\ batch.len \in Nat /\ \A i \in DOMAIN out : out[i] \in RowSet
  BY DEF StateInv, BaseInv, BatchInv, OutInv
<1>2. ASSUME NEW i \in DOMAIN out
      PROVE  LET all == out[i].nodes \o out[i].added
                 cut == [j \in DOMAIN all |-> Surviving(all, batch.len, j)]
             IN  Sums(cut)[Len(cut)] = Max({0, Min({Total(all), batch.len}) - cat.prefix})
  <2> DEFINE all == out[i].nodes \o out[i].added
  <2>1. out[i] \in RowSet /\ out[i].nodes # <<>>
    BY <1>1 DEF SpliceInv
  <2>2. out[i].nodes \in Seq(Nodes(cat)) /\ out[i].added \in Seq(Nodes(cat))
    BY <2>1 DEF RowSet
  <2>3. all \in Seq(Nodes(cat)) /\ all # <<>>
    BY <2>1, <2>2
  <2> HIDE DEF all
  <2>4. LET cut == [j \in DOMAIN all |-> Surviving(all, batch.len, j)]
        IN  Sums(cut)[Len(cut)] = Max({0, Min({Total(all), batch.len}) - cat.prefix})
    BY <1>1, <2>3, CutFills
  <2> QED BY <2>4 DEF all
<1> QED BY <1>2 DEF RowFillsContext

\* For any catalogs, prefixes and context lengths: backfill never overflows a row
\* and leaves no pool function out that would still fit, and the surviving columns
\* fill the context exactly, wherever a function ends (backfill_geometry,
\* surviving_token_counts).
THEOREM ContextCorrect == Spec => []RowFillsContext
<1>1. Init => SpliceInv /\ BackfillIsGreedy
  BY DEF Init, SpliceInv, OncePerRow, NothingCommonToAll, GroupRows, BackfillIsGreedy
<1>2. StateInv /\ (SpliceInv /\ BackfillIsGreedy) /\ [Next]_vars => (SpliceInv /\ BackfillIsGreedy)'
  BY SpliceStep, GreedyStep
<1>3. StateInv /\ (SpliceInv /\ BackfillIsGreedy) => RowFillsContext
  BY ContextFilled
<1> QED BY <1>1, <1>2, <1>3, StateInvariant, PTL DEF Spec

==============================================================================
