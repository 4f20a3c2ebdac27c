-------------------------- MODULE DedupStoreProofs --------------------------
(***************************************************************************)
(* Proofs about DedupStore for every set of bodies, every hash function and *)
(* every record size: the inductive invariant IInv, the properties that     *)
(* follow from it, and that the store implements ContentStore.              *)
(***************************************************************************)
EXTENDS DedupStore, FiniteSetTheorems, TLAPS

\* A fresh record is written at the cursor.
Fresh(b) ==
    /\ b \in Bodies
    /\ \A o \in DOMAIN bin : bin[o].body # b
    /\ Write(b)

\* What Write does to the records: one more, at the cursor, the others stay.
LEMMA WriteBin ==
    ASSUME NEW b, Write(b)
    PROVE  /\ DOMAIN bin' = DOMAIN bin \cup {cursor}
           /\ bin'[cursor] = [body |-> b, idx |-> emitted]
           /\ \A o \in DOMAIN bin : o # cursor => bin'[o] = bin[o]
           /\ cursor' = cursor + Units[b]
           /\ emitted' = emitted + 1
  BY DEF Write, Put

\* In each of the branches of dedup_and_write that write, the body is new:
\* the maps lead to every record with its hash, and none of them holds it.
LEMMA WritesAreFresh ==
    ASSUME IInv, NEW b \in Bodies,
           PrimaryMiss(b) \/ Promote(b) \/ CollisionMiss(b)
    PROVE  Fresh(b)
  <1>1. ASSUME NEW o \in DOMAIN bin, bin[o].body = b PROVE FALSE
    <2>1. Hash[b] \in DOMAIN primary /\ o \in WithHash(Hash[b])
      BY <1>1 DEF IInv, Indexed, WithHash
    <2>2. CASE PrimaryMiss(b)
      BY <2>1, <2>2 DEF PrimaryMiss
    <2>3. CASE Promote(b)
      BY <1>1, <2>1, <2>3 DEF Promote, IInv, Indexed, HoldsBody
    <2>4. CASE CollisionMiss(b)
      BY <1>1, <2>1, <2>4 DEF CollisionMiss, IInv, Indexed, HoldsBody
    <2>5. QED BY <2>2, <2>3, <2>4
  <1>2. Write(b)
    BY DEF PrimaryMiss, Promote, CollisionMiss
  <1>3. QED BY <1>1, <1>2 DEF Fresh

\* A branch that does not write answers with the record that holds the body.
LEMMA HitsAreExact ==
    ASSUME IInv, NEW b \in Bodies, PrimaryHit(b) \/ CollisionHit(b)
    PROVE  \E o \in DOMAIN bin : bin[o].body = b /\ Return(b, o)
  <1>1. CASE PrimaryHit(b)
    BY <1>1 DEF PrimaryHit, HoldsBody, IInv, Indexed, WithHash
  <1>2. CASE CollisionHit(b)
    <2>1. PICK i \in 1..Len(collision[Hash[b]]) :
            /\ HoldsBody(collision[Hash[b]][i], b)
            /\ Return(b, collision[Hash[b]][i])
      BY <1>2 DEF CollisionHit
    <2>2. collision[Hash[b]][i] \in DOMAIN bin
      BY <1>2, <2>1 DEF CollisionHit, IInv, Indexed, WithHash
    <2>3. QED BY <2>1, <2>2 DEF HoldsBody
  <1>3. QED BY <1>1, <1>2

\* A write keeps what IInv says of the records alone.
LEMMA FreshRecords ==
    ASSUME IInv, NEW b, Fresh(b)
    PROVE  Placed' /\ StoredOnce'
  <1>1. cursor \in Nat /\ Units[b] \in Nat \ {0} /\ emitted \in Nat
    BY DedupAssumption DEF IInv, TypeOK, Fresh
  <1>2. cursor \notin DOMAIN bin /\ Prelude <= cursor
        /\ cursor < cursor + Units[b]
    BY <1>1 DEF IInv, Placed, TypeOK, Prelude
  <1>3. /\ DOMAIN bin' = DOMAIN bin \cup {cursor}
        /\ bin'[cursor] = [body |-> b, idx |-> emitted]
        /\ \A o \in DOMAIN bin : bin'[o] = bin[o]
        /\ cursor' = cursor + Units[b]
    BY <1>2, WriteBin DEF Fresh
  <1>4. Placed'
    BY <1>1, <1>2, <1>3 DEF IInv, Placed, TypeOK, Prelude
  <1>5. StoredOnce'
    <2>1. bin'[cursor].body = b
      BY <1>3
    <2>2. \A o \in DOMAIN bin : bin'[o].body = bin[o].body /\ bin[o].body # b
      BY <1>3 DEF Fresh
    <2>3. QED BY <1>3, <2>1, <2>2 DEF IInv, StoredOnce
  <1>6. QED BY <1>4, <1>5

\* A record of its own at the cursor, for use below.
LEMMA FreshWrite ==
    ASSUME IInv, NEW b, Fresh(b)
    PROVE  /\ cursor \notin DOMAIN bin /\ cursor \in Nat
           /\ cursor # SENTINEL
           /\ DOMAIN bin' = DOMAIN bin \cup {cursor}
           /\ bin'[cursor] = [body |-> b, idx |-> emitted]
           /\ bin'[cursor].body = b
           /\ \A o \in DOMAIN bin : bin'[o] = bin[o]
           /\ emitted \in Nat /\ emitted' = emitted + 1
           /\ cursor' \in Nat
  <1>1. /\ cursor \in Nat /\ cursor \notin DOMAIN bin /\ cursor # SENTINEL
        /\ emitted \in Nat
    BY DEF IInv, TypeOK, Placed, Prelude, SENTINEL
  <1>2. Units[b] \in Nat
    BY DedupAssumption DEF Fresh
  <1>3. QED BY <1>1, <1>2, WriteBin DEF Fresh

\* The hash index after a write: the new record joins those of its hash.
LEMMA WithHashStep ==
    ASSUME IInv, NEW b, Fresh(b), NEW h
    PROVE  WithHash(h)' = IF h = Hash[b] THEN WithHash(h) \cup {cursor}
                                         ELSE WithHash(h)
  BY FreshWrite DEF WithHash

\* Every record's hash is in a primary map that has grown to hold the new one.
LEMMA WriteHashed ==
    ASSUME IInv, NEW b, Fresh(b),
           DOMAIN primary \subseteq DOMAIN primary', Hash[b] \in DOMAIN primary'
    PROVE  \A o \in DOMAIN bin' : Hash[bin'[o].body] \in DOMAIN primary'
  <1>1. \A o \in DOMAIN bin : Hash[bin[o].body] \in DOMAIN primary
    BY DEF IInv, Indexed
  <1>2. QED BY <1>1, FreshWrite

\* The elements of a sequence that grows by one.
LEMMA AppendRange ==
    ASSUME NEW q \in Seq(Nat), NEW x \in Nat
    PROVE  /\ Append(q, x) \in Seq(Nat)
           /\ {Append(q, x)[i] : i \in 1..Len(Append(q, x))}
                = {q[i] : i \in 1..Len(q)} \cup {x}
  <1>1. /\ Len(Append(q, x)) = Len(q) + 1 /\ Len(q) \in Nat
        /\ \A i \in 1..Len(q) : Append(q, x)[i] = q[i]
        /\ Append(q, x)[Len(q) + 1] = x
    OBVIOUS
  <1>2. 1..(Len(q) + 1) = 1..Len(q) \cup {Len(q) + 1}
    BY <1>1
  <1>3. QED BY <1>1, <1>2

\* The two maps after PrimaryMiss.
LEMMA MissIndexed ==
    ASSUME IInv, NEW b \in Bodies, PrimaryMiss(b)
    PROVE  Indexed'
  <1> DEFINE h0 == Hash[b]
  <1>1. Fresh(b)
    BY WritesAreFresh
  <1>2. /\ DOMAIN primary' = DOMAIN primary \cup {h0}
        /\ primary'[h0] = cursor
        /\ \A h \in DOMAIN primary : primary'[h] = primary[h]
        /\ h0 \notin DOMAIN primary
        /\ collision' = collision
    BY DEF PrimaryMiss, Put
  <1>3. WithHash(h0) = {}
    BY <1>2 DEF IInv, Indexed, WithHash
  <1>4. \A o \in DOMAIN bin' : Hash[bin'[o].body] \in DOMAIN primary'
    BY <1>2, WriteHashed, <1>1
  <1>5. ASSUME NEW h \in DOMAIN primary'
        PROVE  IF primary'[h] = SENTINEL
                 THEN /\ h \in DOMAIN collision'
                      /\ WithHash(h)' =
                           {collision'[h][i] : i \in 1..Len(collision'[h])}
                 ELSE WithHash(h)' = {primary'[h]}
    <2>1. CASE h = h0
      BY <1>1, <1>2, <1>3, <2>1, WithHashStep, FreshWrite
    <2>2. CASE h # h0
      BY <1>1, <1>2, <2>2, WithHashStep DEF IInv, Indexed
    <2>3. QED BY <2>1, <2>2
  <1>6. QED BY <1>4, <1>5 DEF Indexed

\* The two maps after Promote.
LEMMA PromoteIndexed ==
    ASSUME IInv, NEW b \in Bodies, Promote(b)
    PROVE  Indexed'
  <1> DEFINE h0 == Hash[b]
  <1>1. Fresh(b)
    BY WritesAreFresh
  <1>2. /\ DOMAIN primary' = DOMAIN primary /\ h0 \in DOMAIN primary
        /\ primary'[h0] = SENTINEL /\ primary[h0] # SENTINEL
        /\ \A h \in DOMAIN primary : h # h0 => primary'[h] = primary[h]
        /\ DOMAIN collision' = DOMAIN collision \cup {h0}
        /\ collision'[h0] = <<primary[h0], cursor>>
        /\ \A h \in DOMAIN collision : h # h0 => collision'[h] = collision[h]
    BY DEF Promote, Put
  <1>3. WithHash(h0) = {primary[h0]}
    BY <1>2 DEF IInv, Indexed
  <1>4. \A o \in DOMAIN bin' : Hash[bin'[o].body] \in DOMAIN primary'
    BY <1>2, WriteHashed, <1>1
  <1>5. ASSUME NEW h \in DOMAIN primary'
        PROVE  IF primary'[h] = SENTINEL
                 THEN /\ h \in DOMAIN collision'
                      /\ WithHash(h)' =
                           {collision'[h][i] : i \in 1..Len(collision'[h])}
                 ELSE WithHash(h)' = {primary'[h]}
    <2>1. CASE h = h0
      <3>1. {<<primary[h0], cursor>>[i] : i \in 1..2} = {primary[h0], cursor}
        OBVIOUS
      <3>2. WithHash(h)' = {primary[h0], cursor}
        BY <1>1, <1>3, <2>1, WithHashStep
      <3>3. /\ primary'[h] = SENTINEL /\ h \in DOMAIN collision'
            /\ collision'[h] = <<primary[h0], cursor>>
        BY <1>2, <2>1
      <3>4. {collision'[h][i] : i \in 1..Len(collision'[h])} = {primary[h0], cursor}
        BY <3>1, <3>3
      <3> QED BY <3>2, <3>3, <3>4
    <2>2. CASE h # h0
      BY <1>1, <1>2, <2>2, WithHashStep DEF IInv, Indexed
    <2>3. QED BY <2>1, <2>2
  <1>6. QED BY <1>4, <1>5 DEF Indexed

\* The two maps after CollisionMiss.
LEMMA CollisionIndexed ==
    ASSUME IInv, NEW b \in Bodies, CollisionMiss(b)
    PROVE  Indexed'
  <1> DEFINE h0 == Hash[b]
  <1>1. Fresh(b)
    BY WritesAreFresh
  <1>2. /\ primary' = primary /\ h0 \in DOMAIN primary
        /\ primary[h0] = SENTINEL /\ h0 \in DOMAIN collision
        /\ DOMAIN collision' = DOMAIN collision
        /\ collision'[h0] = Append(collision[h0], cursor)
        /\ \A h \in DOMAIN collision : h # h0 => collision'[h] = collision[h]
    <2>1. h0 \in DOMAIN primary /\ primary[h0] = SENTINEL
      BY DEF CollisionMiss
    <2>2. h0 \in DOMAIN collision
      BY <2>1 DEF IInv, Indexed
    <2>3. QED BY <2>1, <2>2 DEF CollisionMiss, Put
  <1>3. WithHash(h0) = {collision[h0][i] : i \in 1..Len(collision[h0])}
    BY <1>2 DEF IInv, Indexed
  <1>4. \A o \in DOMAIN bin' : Hash[bin'[o].body] \in DOMAIN primary'
    BY <1>2, WriteHashed, <1>1
  <1>5. ASSUME NEW h \in DOMAIN primary'
        PROVE  IF primary'[h] = SENTINEL
                 THEN /\ h \in DOMAIN collision'
                      /\ WithHash(h)' =
                           {collision'[h][i] : i \in 1..Len(collision'[h])}
                 ELSE WithHash(h)' = {primary'[h]}
    <2>1. CASE h = h0
      <3>1. collision[h0] \in Seq(Nat) /\ cursor \in Nat
        BY <1>2 DEF IInv, TypeOK
      <3>2. {collision'[h0][i] : i \in 1..Len(collision'[h0])}
              = WithHash(h0) \cup {cursor}
        <4> DEFINE q == collision[h0]
        <4>1. {Append(q, cursor)[i] : i \in 1..Len(Append(q, cursor))}
                = {q[i] : i \in 1..Len(q)} \cup {cursor}
          BY <3>1, AppendRange
        <4> HIDE DEF q
        <4>2. collision'[h0] = Append(q, cursor)
              /\ WithHash(h0) = {q[i] : i \in 1..Len(q)}
          BY <1>2, <1>3 DEF q
        <4>3. QED BY <4>1, <4>2, Zenon
      <3>3. QED BY <1>1, <1>2, <2>1, <3>2, WithHashStep
    <2>2. CASE h # h0
      BY <1>1, <1>2, <2>2, WithHashStep DEF IInv, Indexed
    <2>3. QED BY <2>1, <2>2
  <1>6. QED BY <1>4, <1>5 DEF Indexed

\* The types, the answers and the ordinals after a write.
LEMMA FreshRest ==
    ASSUME IInv, NEW b \in Bodies, Fresh(b), Return(b, cursor), UNCHANGED trailer,
           trailer = -1
    PROVE  Answered' /\ Counted'
  <1>1. Answered'
    <2>1. answers' = answers \cup {<<b, cursor>>}
      BY DEF Return
    <2>2. \A x \in answers : x[2] \in DOMAIN bin /\ bin[x[2]].body = x[1]
      BY DEF IInv, Answered
    <2>3. <<b, cursor>>[1] = b /\ <<b, cursor>>[2] = cursor
      OBVIOUS
    <2>4. ASSUME NEW x \in answers'
          PROVE  x[2] \in DOMAIN bin' /\ bin'[x[2]].body = x[1]
      BY <2>1, <2>2, <2>3, FreshWrite
    <2>5. QED BY <2>4 DEF Answered
  <1>2. IsFiniteSet(DOMAIN bin') /\ emitted' = Cardinality(DOMAIN bin')
    <2>1. IsFiniteSet(DOMAIN bin) /\ emitted = Cardinality(DOMAIN bin)
      BY DEF IInv, Counted
    <2>2. DOMAIN bin' = DOMAIN bin \cup {cursor} /\ cursor \notin DOMAIN bin
          /\ emitted' = emitted + 1
      BY FreshWrite
    <2>3. IsFiniteSet(DOMAIN bin \cup {cursor})
          /\ Cardinality(DOMAIN bin \cup {cursor}) = Cardinality(DOMAIN bin) + 1
      BY <2>1, <2>2, FS_AddElement
    <2>4. QED BY <2>1, <2>2, <2>3
  <1>3. ASSUME NEW o \in DOMAIN bin'
        PROVE  bin'[o].idx = Cardinality({p \in DOMAIN bin' : p < o})
    <2>1. CASE o = cursor
      <3>1. {p \in DOMAIN bin' : p < o} = DOMAIN bin
        BY <2>1, FreshWrite DEF IInv, Placed
      <3>2. bin'[o].idx = emitted
        BY <2>1, FreshWrite
      <3>3. QED BY <3>1, <3>2 DEF IInv, Counted
    <2>2. CASE o \in DOMAIN bin
      <3>1. o < cursor /\ o \in Nat
        BY <2>2 DEF IInv, Placed, TypeOK
      <3>2. {p \in DOMAIN bin' : p < o} = {p \in DOMAIN bin : p < o}
        <4>1. DOMAIN bin' = DOMAIN bin \cup {cursor} /\ cursor \in Nat
          BY FreshWrite
        <4>2. ~(cursor < o)
          BY <3>1, <4>1
        <4>3. QED BY <4>1, <4>2
      <3>3. bin'[o] = bin[o]
        BY <2>2, FreshWrite
      <3>4. bin[o].idx = Cardinality({p \in DOMAIN bin : p < o})
        BY <2>2 DEF IInv, Counted
      <3>5. QED BY <3>2, <3>3, <3>4
    <2>3. QED BY <2>1, <2>2, FreshWrite
  <1>4. trailer' = -1
    OBVIOUS
  <1>5. Counted'
    BY <1>2, <1>3, <1>4 DEF Counted
  <1>6. QED BY <1>1, <1>5

\* The types after each branch.
LEMMA TypeStep ==
    ASSUME IInv, NEW b \in Bodies, EmitRecord(b)
    PROVE  TypeOK'
  <1>1. Hash[b] \in Hashes /\ TypeOK /\ trailer' = trailer
    BY DedupAssumption DEF IInv, EmitRecord
  <1>2. ASSUME Fresh(b), Return(b, cursor)
        PROVE  /\ DOMAIN bin' \subseteq Nat
               /\ \A o \in DOMAIN bin' : bin'[o] \in [body : Bodies, idx : Nat]
               /\ cursor' \in Nat /\ emitted' \in Nat
               /\ answers' \subseteq Bodies \X Nat
    <2>1. [body |-> b, idx |-> emitted] \in [body : Bodies, idx : Nat]
      BY <1>1 DEF TypeOK
    <2>2. <<b, cursor>> \in Bodies \X Nat
      BY <1>1 DEF TypeOK
    <2>3. \A o \in DOMAIN bin' : bin'[o] \in [body : Bodies, idx : Nat]
      BY <1>1, <1>2, <2>1, FreshWrite DEF TypeOK
    <2>4. /\ DOMAIN bin' \subseteq Nat
          /\ cursor' \in Nat /\ emitted' \in Nat
      <3>1. /\ DOMAIN bin' = DOMAIN bin \cup {cursor} /\ cursor \in Nat
            /\ cursor' \in Nat /\ emitted \in Nat /\ emitted' = emitted + 1
        BY <1>2, FreshWrite
      <3>2. QED BY <1>1, <3>1 DEF TypeOK
    <2>5. answers' \subseteq Bodies \X Nat
      BY <1>1, <1>2, <2>2 DEF TypeOK, Return
    <2>6. QED BY <2>3, <2>4, <2>5
  <1>3. CASE PrimaryMiss(b)
    <2>1. Fresh(b) /\ Return(b, cursor)
      BY <1>3, WritesAreFresh DEF PrimaryMiss
    <2>2. /\ DOMAIN primary' \subseteq Hashes
          /\ \A h \in DOMAIN primary' : primary'[h] \in Nat
          /\ collision' = collision
      BY <1>1, <1>3 DEF PrimaryMiss, Put, TypeOK
    <2>3. QED BY <1>1, <1>2, <2>1, <2>2 DEF TypeOK
  <1>4. CASE Promote(b)
    <2>1. Fresh(b) /\ Return(b, cursor)
      BY <1>4, WritesAreFresh DEF Promote
    <2>2. /\ DOMAIN primary' \subseteq Hashes
          /\ \A h \in DOMAIN primary' : primary'[h] \in Nat
      BY <1>1, <1>4 DEF Promote, Put, TypeOK, SENTINEL
    <2>3. <<primary[Hash[b]], cursor>> \in Seq(Nat)
      BY <1>1, <1>4 DEF Promote, TypeOK
    <2>4. /\ DOMAIN collision' \subseteq Hashes
          /\ \A h \in DOMAIN collision' : collision'[h] \in Seq(Nat)
      BY <1>1, <1>4, <2>3 DEF Promote, Put, TypeOK
    <2>5. QED BY <1>1, <1>2, <2>1, <2>2, <2>4 DEF TypeOK
  <1>5. CASE CollisionMiss(b)
    <2>1. Fresh(b) /\ Return(b, cursor) /\ primary' = primary
      BY <1>5, WritesAreFresh DEF CollisionMiss
    <2>2. Hash[b] \in DOMAIN collision
      BY <1>5 DEF CollisionMiss, IInv, Indexed
    <2>3. Append(collision[Hash[b]], cursor) \in Seq(Nat)
      BY <1>1, <2>2, AppendRange DEF TypeOK
    <2>4. /\ DOMAIN collision' \subseteq Hashes
          /\ \A h \in DOMAIN collision' : collision'[h] \in Seq(Nat)
      BY <1>1, <1>5, <2>2, <2>3 DEF CollisionMiss, Put, TypeOK
    <2>5. QED BY <1>1, <1>2, <2>1, <2>4 DEF TypeOK
  <1>6. CASE PrimaryHit(b) \/ CollisionHit(b)
    <2>1. PICK o \in DOMAIN bin : Return(b, o)
      BY <1>6, HitsAreExact
    <2>2. UNCHANGED <<bin, cursor, emitted, primary, collision>>
      BY <1>6 DEF PrimaryHit, CollisionHit
    <2>3. QED BY <1>1, <2>1, <2>2 DEF TypeOK, Return
  <1>7. QED BY <1>3, <1>4, <1>5, <1>6 DEF EmitRecord

\* An emitted record keeps the invariant.
LEMMA EmitStep ==
    ASSUME IInv, NEW b \in Bodies, EmitRecord(b)
    PROVE  IInv'
  <1>1. TypeOK' /\ trailer = -1 /\ trailer' = trailer
    BY TypeStep DEF EmitRecord
  <1>2. CASE PrimaryMiss(b) \/ Promote(b) \/ CollisionMiss(b)
    <2>1. Fresh(b) /\ Return(b, cursor)
      BY <1>2, WritesAreFresh DEF PrimaryMiss, Promote, CollisionMiss
    <2>2. Placed' /\ StoredOnce'
      BY <2>1, FreshRecords
    <2>3. Answered' /\ Counted'
      BY <1>1, <2>1, FreshRest
    <2>4. Indexed'
      BY <1>2, MissIndexed, PromoteIndexed, CollisionIndexed
    <2>5. QED BY <1>1, <2>2, <2>3, <2>4 DEF IInv
  <1>3. CASE PrimaryHit(b) \/ CollisionHit(b)
    <2>1. UNCHANGED <<bin, cursor, emitted, primary, collision>>
      BY <1>3 DEF PrimaryHit, CollisionHit
    <2>2. PICK o \in DOMAIN bin : bin[o].body = b /\ Return(b, o)
      BY <1>3, HitsAreExact
    <2>3. Answered'
      BY <2>1, <2>2 DEF IInv, Answered, Return
    <2>4. Placed' /\ StoredOnce'
      BY <2>1 DEF IInv, Placed, StoredOnce
    <2>5. Indexed'
      BY <2>1 DEF IInv, Indexed, WithHash
    <2>6. Counted'
      BY <1>1, <2>1 DEF IInv, Counted
    <2>7. QED BY <1>1, <2>3, <2>4, <2>5, <2>6 DEF IInv
  <1>4. QED BY <1>2, <1>3 DEF EmitRecord

\* Finalize keeps the invariant, and so does a step that changes nothing.
LEMMA FinalizeStep ==
    ASSUME IInv, Finalize \/ UNCHANGED vars
    PROVE  IInv'
  <1>1. UNCHANGED <<bin, cursor, emitted, primary, collision, answers>>
        /\ trailer' \in {trailer, emitted}
    BY DEF Finalize, vars
  <1>2. TypeOK'
    BY <1>1 DEF IInv, TypeOK
  <1>3. Placed' /\ StoredOnce' /\ Answered'
    BY <1>1 DEF IInv, Placed, StoredOnce, Answered
  <1>4. Indexed'
    BY <1>1 DEF IInv, Indexed, WithHash
  <1>5. Counted'
    BY <1>1 DEF IInv, Counted
  <1>6. QED BY <1>2, <1>3, <1>4, <1>5 DEF IInv

\* IInv holds of the empty store.
LEMMA InitIInv == Init => IInv
  <1> SUFFICES ASSUME Init PROVE IInv
    OBVIOUS
  <1>1. DOMAIN bin = {} /\ DOMAIN primary = {} /\ DOMAIN collision = {}
    BY DEF Init
  <1>2. TypeOK /\ Placed /\ StoredOnce /\ Answered
    BY <1>1 DEF Init, TypeOK, Placed, StoredOnce, Answered, Prelude
  <1>3. Indexed
    BY <1>1 DEF Indexed
  <1>4. IsFiniteSet({}) /\ Cardinality({}) = 0
    BY FS_EmptySet
  <1>5. Counted
    BY <1>1, <1>4 DEF Init, Counted
  <1>6. QED BY <1>2, <1>3, <1>5 DEF IInv

\* The inductive invariant of the store.
THEOREM Inductive == Spec => []IInv
  <1>1. IInv /\ [Next]_vars => IInv'
    BY EmitStep, FinalizeStep DEF Next
  <1>2. QED BY <1>1, InitIInv, PTL DEF Spec

\* Equal offsets mean equal bodies and the other way round, whatever the hash
\* function: what process_matched_function relies on when it compares offsets.
THEOREM OffsetsIdentify == Spec => []OffsetIsIdentity
  <1>1. IInv => OffsetIsIdentity
    BY DEF IInv, Answered, StoredOnce, OffsetIsIdentity
  <1>2. QED BY <1>1, Inductive, PTL

\* The data file, both maps and the answers keep their types, whatever collides.
THEOREM TypeCorrect == Spec => []TypeOK
  <1>1. IInv => TypeOK
    BY DEF IInv
  <1>2. QED BY <1>1, Inductive, PTL

\* entry_idx is the position of the record in the file and total_entries
\* counts the records.
THEOREM OrdinalsCorrect == Spec => []OrdinalsDense
  <1>1. IInv => OrdinalsDense
    BY DEF IInv, Counted, OrdinalsDense
  <1>2. QED BY <1>1, Inductive, PTL

\* The store implements ContentStore: a write is an Add of a new body, and
\* every other step leaves what is stored alone.
THEOREM Implements == Spec => ImplementsStore
  <1>1. Init => Store!Init
    <2> SUFFICES ASSUME Init PROVE Stored = << >>
      BY DEF Store!Init
    <2> QED BY DEF Init, Stored
  <1>2. IInv /\ [Next]_vars => [Store!Next]_Stored
    <2> SUFFICES ASSUME IInv, [Next]_vars
                 PROVE  Store!Next \/ UNCHANGED Stored
      OBVIOUS
    <2>1. ASSUME NEW b \in Bodies, EmitRecord(b),
                 PrimaryMiss(b) \/ Promote(b) \/ CollisionMiss(b)
          PROVE  Store!Next
      <3>1. Fresh(b)
        BY <2>1, WritesAreFresh
      <3>2. \A o \in DOMAIN Stored : Stored[o] # b
        BY <3>1 DEF Fresh, Stored
      <3>3. /\ cursor \in DOMAIN Stored' /\ cursor \notin DOMAIN Stored
            /\ Stored' = [o \in DOMAIN Stored \cup {cursor} |->
                            IF o = cursor THEN b ELSE Stored[o]]
        BY <3>1, FreshWrite DEF Stored
      <3>4. QED BY <3>2, <3>3 DEF Store!Next, Store!Add
    <2>2. bin' = bin => UNCHANGED Stored
      BY DEF Stored
    <2>3. \/ bin' = bin
          \/ \E b \in Bodies :
               /\ EmitRecord(b)
               /\ PrimaryMiss(b) \/ Promote(b) \/ CollisionMiss(b)
      BY DEF Next, vars, Finalize, EmitRecord, PrimaryHit, CollisionHit
    <2>4. QED BY <2>1, <2>2, <2>3
  <1>3. QED BY <1>1, <1>2, Inductive, PTL DEF Spec, ImplementsStore, Store!Spec
==============================================================================
