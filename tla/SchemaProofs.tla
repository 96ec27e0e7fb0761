---------------------------- MODULE SchemaProofs ----------------------------
(***************************************************************************)
(* Proofs about SchemaCompiler and SchemaStore.  For any tree of           *)
(* identities, any names and any set of descriptors, stable ids are unique *)
(* and permanent and the compiler accepts every schema it has written.     *)
(* For any number of commands, whatever fails, is killed or loses power,   *)
(* the bundle file is usable; and when commands do not overlap, no         *)
(* identity or id in it is lost and rendered artifacts agree.              *)
(***************************************************************************)
EXTENDS SchemaStore, SchemaCompiler, FiniteSetTheorems, FunctionTheorems, TLAPS

(***************************************************************************)
(* One compilation.                                                        *)
(***************************************************************************)

\* What the compiler starts from: no schema, or one that passes its checks.
Evolvable(nil, prev) ==
    /\ nil \in BOOLEAN
    /\ prev \in Dataset
    /\ nil => prev = NoDataset
    /\ AcceptsPrevious(prev)

\* The compiler accepts d after prev and returns next.
Evolves(nil, prev, d, last, next) ==
    /\ last \in LastIdBefore(nil, prev, d)
    /\ Accepts(nil, prev, d, last)
    /\ next = Result(nil, prev, d, last)

\* Ranks by distinct numbers count a finite set from 1 without gaps.
RankBy(key, S, i) == Cardinality({j \in S : key[j] <= key[i]})

LEMMA RanksCount ==
  ASSUME NEW S, IsFiniteSet(S), NEW key, \A i \in S : key[i] \in Nat,
         \A i, j \in S : key[i] = key[j] => i = j
  PROVE  /\ IsFiniteSet(S) /\ Cardinality(S) \in Nat
         /\ \A i \in S : RankBy(key, S, i) \in 1..Cardinality(S)
         /\ \A i, j \in S : RankBy(key, S, i) = RankBy(key, S, j) => i = j
         /\ S # {} => \E i \in S : RankBy(key, S, i) = Cardinality(S)
<1> DEFINE Upto(i) == {j \in S : key[j] <= key[i]}
<1>1. IsFiniteSet(S) /\ Cardinality(S) \in Nat
  BY FS_CardinalityType
<1>2. ASSUME NEW i \in S
      PROVE  /\ IsFiniteSet(Upto(i))
             /\ Cardinality(Upto(i)) \in Nat
             /\ Cardinality(Upto(i)) <= Cardinality(S)
             /\ Cardinality(Upto(i)) # 0
  <2>1. Upto(i) \in SUBSET S /\ i \in Upto(i)
    OBVIOUS
  <2>2. IsFiniteSet(Upto(i)) /\ Cardinality(Upto(i)) <= Cardinality(S)
    BY <1>1, <2>1, FS_Subset
  <2>3. QED
    BY <2>1, <2>2, FS_CardinalityType, FS_EmptySet, Zenon
<1>3. \A i \in S : RankBy(key, S, i) \in 1..Cardinality(S)
  BY <1>1, <1>2 DEF RankBy
<1>4. ASSUME NEW i \in S, NEW j \in S, key[i] <= key[j], RankBy(key, S, i) = RankBy(key, S, j)
      PROVE  i = j
  <2>1. Upto(i) \in SUBSET Upto(j)
    BY <1>4
  <2>2. Upto(i) = Upto(j)
    BY <1>2, <1>4, <2>1, FS_Subset DEF RankBy
  <2>3. key[j] <= key[i]
    BY <2>2
  <2>4. QED
    BY <1>4, <2>3
<1>5. \A i, j \in S : RankBy(key, S, i) = RankBy(key, S, j) => i = j
  BY <1>4
<1>6. S # {} => \E i \in S : RankBy(key, S, i) = Cardinality(S)
  <2> DEFINE n == Cardinality(S)
             f == [i \in S |-> RankBy(key, S, i)]
             R == {f[i] : i \in S}
  <2>1. R \in SUBSET (1..n)
    BY <1>3
  <2>2. f \in Bijection(S, R)
    BY <1>5 DEF Bijection, Injection, Surjection, IsInjective
  <2>3. IsFiniteSet(R) /\ Cardinality(R) = n
    BY <1>1, <2>2, FS_Bijection DEF ExistsBijection
  <2>4. IsFiniteSet(1..n) /\ Cardinality(1..n) = n
    BY <1>1, FS_Interval
  <2>5. R = 1..n
    BY <2>1, <2>3, <2>4, FS_Subset, Zenon
  <2>6. S # {} => n \in 1..n
    BY <1>1, FS_EmptySet
  <2>7. QED
    BY <2>5, <2>6
<1>7. QED
  BY <1>1, <1>3, <1>5, <1>6

\* The ranks of a set of identities in the traversal.
LEMMA RankNumbers ==
  ASSUME NEW S \in SUBSET Identity
  PROVE  /\ IsFiniteSet(S) /\ Cardinality(S) \in Nat
         /\ \A i \in S : Rank(S, i) \in 1..Cardinality(S)
         /\ \A i, j \in S : Rank(S, i) = Rank(S, j) => i = j
         /\ S # {} => \E i \in S : Rank(S, i) = Cardinality(S)
<1>1. /\ IsFiniteSet(S)
      /\ \A i \in S : Visit[i] \in Nat
      /\ \A i, j \in S : Visit[i] = Visit[j] => i = j
  BY SchemaAssumption, FS_Subset
<1>2. \A i \in S : Rank(S, i) = RankBy(Visit, S, i)
  BY DEF Rank, RankBy
<1>3. QED
  BY <1>1, <1>2, RanksCount

\* What a compilation does to the fields of the schema.
FieldsFollow(nil, prev, d, last, next) ==
    /\ next.active = d.fields
    /\ next.retired = prev.retired \cup (prev.active \ d.fields)
    /\ next.id = Allocate(nil, prev, d, last)
    /\ next.lastId = last + Cardinality(Fresh(nil, prev, d))
    /\ next.name = [i \in Identity |->
           IF i \in d.fields THEN d.name[i] ELSE prev.name[i]]
    /\ next.source = [i \in Identity |->
           IF i \in d.fields THEN SourceOf(prev, d, i) ELSE prev.source[i]]
    /\ next.shape = [i \in Identity |->
           IF i \in d.fields THEN d.shape[i] ELSE NoShape]
    /\ next = Result(nil, prev, d, last)
    /\ Known(next) = Known(prev) \cup d.fields

LEMMA EvolvedFields ==
  ASSUME NEW nil, NEW prev, NEW d, NEW last, NEW next, Evolves(nil, prev, d, last, next)
  PROVE  FieldsFollow(nil, prev, d, last, next)
  BY DEF FieldsFollow, Evolves, Result, Known

\* The types of a schema's parts, and of a descriptor's.
LEMMA EvolvedParts ==
  ASSUME NEW nil, NEW prev, Evolvable(nil, prev), NEW d \in Descriptors
  PROVE  /\ prev.active \in SUBSET Identity /\ prev.retired \in SUBSET Identity
         /\ prev.id \in [Identity -> Nat] /\ prev.lastId \in Nat
         /\ prev.name \in [Identity -> Name \cup {NoName}]
         /\ prev.source \in [Identity -> Name \cup {NoName}]
         /\ d.fields \in SUBSET Identity
         /\ d.name \in [Identity -> Name \cup {NoName}]
         /\ d.shape \in [Identity -> Shape \cup {NoShape}]
  BY SchemaAssumption DEF Evolvable, Dataset, Descriptor

\* The ids a compilation gives out.  `last' bounds the ids that were there
\* before, fresh identities are numbered above it, and others keep their ids.
IdsFollow(nil, prev, d, last, next, fresh) ==
    /\ last \in Nat /\ fresh \in SUBSET Identity
    /\ Cardinality(fresh) \in Nat
    /\ \A i \in fresh : next.id[i] = last + Rank(fresh, i)
    /\ \A i \in Known(prev) : i \notin fresh /\ next.id[i] = prev.id[i]
    /\ ~nil => last = prev.lastId /\ d.fields \ fresh \subseteq Known(prev)
    /\ nil => d.fields \ fresh = d.fields \cap Top
    /\ nil => \A i \in d.fields \cap Top :
                  next.id[i] = Number[i] /\ Number[i] \in 1..last
    /\ nil => last \in {0} \cup {Number[i] : i \in d.fields \cap Top}

LEMMA EvolvedIds ==
  ASSUME NEW nil, NEW prev, NEW next, Evolvable(nil, prev),
         NEW d \in Descriptors, NEW last, Evolves(nil, prev, d, last, next)
  PROVE  IdsFollow(nil, prev, d, last, next, Fresh(nil, prev, d))
<1> DEFINE fresh == Fresh(nil, prev, d)
<1>0. FieldsFollow(nil, prev, d, last, next)
  BY EvolvedFields
<1> USE EvolvedParts
<1>1. fresh \in SUBSET Identity /\ Cardinality(fresh) \in Nat
  BY RankNumbers DEF Fresh
<1>2. last \in LastIdBefore(nil, prev, d) /\ d.fields \cap prev.retired = {}
  BY DEF Evolves, Accepts, IdsAvailable
<1>3. nil => Known(prev) = {}
  BY DEF Evolvable, NoDataset, Known
<1>4. \A i \in Top : Number[i] \in Nat \ {0} /\ i \in Identity
  BY SchemaAssumption DEF Top, ProtoField
<1>5. nil \in BOOLEAN
  BY DEF Evolvable
<1>6. ASSUME NEW i \in Identity
      PROVE  next.id[i] = IF i \in fresh THEN last + Rank(fresh, i)
                             ELSE IF i \in d.fields /\ nil THEN Number[i]
                             ELSE prev.id[i]
  <2>1. next.id = Allocate(nil, prev, d, last)
    BY <1>0 DEF FieldsFollow
  <2>2. QED
    BY <2>1, Zenon DEF Allocate
<1>7. CASE nil
  <2>1. last \in {0} \cup {Number[i] : i \in d.fields \cap Top}
    BY <1>2, <1>7 DEF LastIdBefore
  <2>2. last \in Nat /\ \A i \in d.fields \cap Top : Number[i] \in 1..last
    BY <1>2, <1>4, <1>7, <2>1 DEF LastIdBefore
  <2>3. fresh = d.fields \ Top
    BY <1>7 DEF Fresh
  <2>4. \A i \in fresh : next.id[i] = last + Rank(fresh, i)
    BY <1>1, <1>6
  <2>5. \A i \in d.fields \cap Top : next.id[i] = Number[i]
    BY <1>4, <1>7, <1>6, <2>3, Zenon
  <2>6. QED
    BY <1>1, <1>3, <1>7, <2>1, <2>2, <2>3, <2>4, <2>5, Zenon DEF IdsFollow
<1>8. CASE ~nil
  <2>1. last = prev.lastId
    BY <1>2, <1>8 DEF LastIdBefore
  <2>2. fresh = d.fields \ prev.active
    BY <1>8 DEF Fresh
  <2>3. \A i \in fresh : next.id[i] = last + Rank(fresh, i)
    BY <1>1, <1>6
  <2>4. \A i \in Known(prev) : i \notin fresh /\ i \in Identity
    BY <1>2, <2>2 DEF Known
  <2>5. \A i \in Known(prev) : next.id[i] = prev.id[i]
    BY <1>8, <1>6, <2>4
  <2>6. QED
    BY <1>1, <1>8, <2>1, <2>2, <2>3, <2>4, <2>5, Zenon DEF Known, IdsFollow
<1>9. QED
  BY <1>5, <1>7, <1>8

\* The ids of the compiled schema are distinct, positive and at most its lastId,
\* which is attained: the part of AcceptsPrevious that is about ids.
LEMMA EvolvedIdsUnique ==
  ASSUME NEW nil, NEW prev, NEW next, Evolvable(nil, prev),
         NEW d \in Descriptors, NEW last, Evolves(nil, prev, d, last, next)
  PROVE  /\ next.lastId \in 0..MaxStableId
         /\ \A i \in Known(next) : next.id[i] \in 1..next.lastId
         /\ \A i, j \in Known(next) : next.id[i] = next.id[j] => i = j
         /\ next.lastId \in {0} \cup {next.id[i] : i \in Known(next)}
<1> DEFINE fresh == Fresh(nil, prev, d)
           n == Cardinality(fresh)
           old == Known(next) \ fresh
           id == next.id
<1>0. /\ IdsFollow(nil, prev, d, last, next, fresh)
      /\ FieldsFollow(nil, prev, d, last, next)
  BY EvolvedIds, EvolvedFields
<1>1. /\ last \in Nat /\ n \in Nat /\ fresh \in SUBSET Identity /\ fresh \subseteq d.fields
      /\ next.lastId = last + n /\ last + n <= MaxStableId
      /\ Known(next) = Known(prev) \cup d.fields
  BY <1>0, Zenon DEF Evolves, Accepts, IdsAvailable, Fresh, IdsFollow, FieldsFollow
<1>2. MaxStableId \in Nat
  BY SchemaAssumption
<1>3. \A i \in fresh : id[i] = last + Rank(fresh, i)
  BY <1>0 DEF IdsFollow
<1>4. nil => old = d.fields \cap Top
  <2>1. nil => Known(prev) = {}
    BY DEF Evolvable, NoDataset, Known
  <2>2. QED
    BY <1>0, <1>1, <2>1, Zenon DEF IdsFollow
<1>5. ~nil => old = Known(prev) /\ last = prev.lastId
  BY <1>0, <1>1, Zenon DEF IdsFollow
<1>6. \A i \in Known(prev) : id[i] = prev.id[i]
  BY <1>0 DEF IdsFollow
<1>7. /\ nil => \A i \in d.fields \cap Top : id[i] = Number[i] /\ Number[i] \in 1..last
      /\ nil => last \in {0} \cup {Number[i] : i \in d.fields \cap Top}
  BY <1>0 DEF IdsFollow
<1>8. \A i, j \in Top : Number[i] = Number[j] => i = j
  BY SchemaAssumption DEF Top, SameScope
<1>9. /\ nil \in BOOLEAN
      /\ \A i \in Known(prev) : prev.id[i] \in 1..prev.lastId
      /\ \A i, j \in Known(prev) : prev.id[i] = prev.id[j] => i = j
      /\ prev.lastId \in {0} \cup {prev.id[i] : i \in Known(prev)}
  <2>1. nil \in BOOLEAN
    BY DEF Evolvable
  <2>2. /\ \A i \in Known(prev) : prev.id[i] \in 1..MaxStableId
        /\ \A i \in Known(prev) : prev.id[i] <= prev.lastId
        /\ \A i, j \in Known(prev) : prev.id[i] = prev.id[j] => i = j
        /\ prev.lastId \in {0} \cup {prev.id[i] : i \in Known(prev)}
        /\ prev.lastId \in 0..MaxStableId
    BY Zenon DEF Evolvable, AcceptsPrevious
  <2>3. QED
    BY <1>2, <2>1, <2>2
<1> HIDE DEF fresh, id
<1>10. /\ \A i \in fresh : Rank(fresh, i) \in 1..n
       /\ \A i, j \in fresh : Rank(fresh, i) = Rank(fresh, j) => i = j
       /\ fresh # {} => \E i \in fresh : Rank(fresh, i) = n
  BY <1>1, RankNumbers
<1> HIDE DEF n, old
<1>11. /\ \A i \in fresh : id[i] \in last + 1 .. last + n
       /\ \A i, j \in fresh : id[i] = id[j] => i = j
  BY <1>1, <1>3, <1>10
<1>12. \A i \in old : id[i] \in 1..last
  <2>1. CASE nil
    BY <1>4, <1>7, <2>1
  <2>2. CASE ~nil
    BY <1>5, <1>6, <1>9, <2>2
  <2>3. QED
    BY <1>9, <2>1, <2>2
<1>13. \A i, j \in old : id[i] = id[j] => i = j
  <2>1. CASE nil
    BY <1>4, <1>7, <1>8, <2>1
  <2>2. CASE ~nil
    BY <1>5, <1>6, <1>9, <2>2
  <2>3. QED
    BY <1>9, <2>1, <2>2
<1>14. last \in {0} \cup {id[i] : i \in old}
  <2>1. CASE nil
    BY <1>4, <1>7, <2>1
  <2>2. CASE ~nil
    BY <1>5, <1>6, <1>9, <2>2
  <2>3. QED
    BY <1>9, <2>1, <2>2
<1>15. Known(next) = old \cup fresh
  BY <1>1 DEF old
<1>16. \A i, j \in Known(next) : id[i] = id[j] => i = j
  BY <1>1, <1>11, <1>12, <1>13, <1>15
<1>17. next.lastId \in {0} \cup {id[i] : i \in Known(next)}
  <2>1. CASE fresh # {}
    BY <1>1, <1>3, <1>10, <1>15, <2>1
  <2>2. CASE fresh = {}
    <3>1. n = 0
      BY <2>2, FS_EmptySet DEF n
    <3>2. QED
      BY <1>1, <1>14, <1>15, <3>1
  <2>3. QED
    BY <2>1, <2>2
<1>18. \A i \in Known(next) : id[i] \in 1..next.lastId
  BY <1>1, <1>11, <1>12, <1>15
<1>19. next.lastId \in 0..MaxStableId
  BY <1>1, <1>2
<1>20. QED
  BY <1>16, <1>17, <1>18, <1>19 DEF id

\* Storage names are not empty, and no two identities of one scope, active or
\* retired, share one.
LEMMA EvolvedNamesOwned ==
  ASSUME NEW nil, NEW prev, NEW next, Evolvable(nil, prev),
         NEW d \in Descriptors, NEW last, Evolves(nil, prev, d, last, next)
  PROVE  /\ \A i \in Known(next) \cap ProtoField : Storage[next.source[i]] # ""
         /\ \A i, j \in Known(next) \cap ProtoField :
              SameScope(i, j) => Storage[next.source[i]] # Storage[next.source[j]]
<1>0. FieldsFollow(nil, prev, d, last, next)
  BY EvolvedFields
<1>1. \A k \in Identity : next.source[k] =
        IF k \in d.fields THEN SourceOf(prev, d, k) ELSE prev.source[k]
  <2>1. next.source = [k \in Identity |->
           IF k \in d.fields THEN SourceOf(prev, d, k) ELSE prev.source[k]]
    BY <1>0, Zenon DEF FieldsFollow
  <2>2. QED
    BY <2>1, Zenon
<1>2. Known(next) = Known(prev) \cup d.fields /\ ProtoField \subseteq Identity
  BY <1>0, Zenon DEF ProtoField, FieldsFollow
<1>3. NamesUnowned(prev, d) /\ NamesDistinct(prev, d)
  BY DEF Evolves, Accepts
<1>4. ASSUME NEW i \in Known(next) \cap ProtoField
      PROVE  Storage[next.source[i]] # ""
  <2>1. CASE i \in d.fields
    <3>1. Storage[SourceOf(prev, d, i)] # ""
      BY <1>3, <2>1, Zenon DEF NamesDistinct
    <3>2. next.source[i] = SourceOf(prev, d, i)
      BY <1>1, <1>2, <2>1
    <3>3. QED
      BY <3>1, <3>2, Zenon
  <2>2. CASE i \notin d.fields
    <3>1. i \in Known(prev) \cap ProtoField
      BY <1>2, <2>2
    <3>2. Storage[prev.source[i]] # ""
      BY <3>1, Zenon DEF Evolvable, AcceptsPrevious
    <3>3. next.source[i] = prev.source[i]
      BY <1>1, <1>2, <2>2
    <3>4. QED
      BY <3>2, <3>3, Zenon
  <2>3. QED
    BY <2>1, <2>2, Zenon
<1>5. ASSUME NEW i \in Known(next) \cap ProtoField,
             NEW j \in Known(next) \cap ProtoField, SameScope(i, j)
      PROVE  Storage[next.source[i]] # Storage[next.source[j]]
  <2>1. SameScope(j, i)
    BY <1>5 DEF SameScope
  <2>2. /\ i \in d.fields => next.source[i] = SourceOf(prev, d, i)
        /\ j \in d.fields => next.source[j] = SourceOf(prev, d, j)
    BY <1>1, <1>2
  <2>3. /\ i \notin d.fields =>
              i \in Known(prev) \cap ProtoField /\ next.source[i] = prev.source[i]
        /\ j \notin d.fields =>
              j \in Known(prev) \cap ProtoField /\ next.source[j] = prev.source[j]
    BY <1>1, <1>2
  <2>4. CASE i \in d.fields /\ j \in d.fields
    <3>1. Storage[SourceOf(prev, d, i)] # Storage[SourceOf(prev, d, j)]
      BY <1>3, <1>5, <2>4, Zenon DEF NamesDistinct
    <3>2. QED
      BY <2>2, <2>4, <3>1
  <2>5. CASE i \in d.fields /\ j \notin d.fields
    <3>1. Storage[SourceOf(prev, d, i)] # Storage[prev.source[j]]
      BY <1>3, <1>5, <2>3, <2>5 DEF NamesUnowned
    <3>2. QED
      BY <2>2, <2>3, <2>5, <3>1
  <2>6. CASE i \notin d.fields /\ j \in d.fields
    <3>1. Storage[SourceOf(prev, d, j)] # Storage[prev.source[i]]
      BY <1>3, <2>1, <2>3, <2>6 DEF NamesUnowned
    <3>2. QED
      BY <2>2, <2>3, <2>6, <3>1
  <2>7. CASE i \notin d.fields /\ j \notin d.fields
    <3>1. Storage[prev.source[i]] # Storage[prev.source[j]]
      BY <1>5, <2>3, <2>7, Zenon DEF Evolvable, AcceptsPrevious
    <3>2. QED
      BY <2>3, <2>7, <3>1
  <2>8. QED
    BY <2>4, <2>5, <2>6, <2>7
<1>6. QED
  BY <1>4, <1>5, Zenon

\* A schema the compiler writes is a schema.
LEMMA EvolvedType ==
  ASSUME NEW nil, NEW prev, NEW next, Evolvable(nil, prev),
         NEW d \in Descriptors, NEW last, Evolves(nil, prev, d, last, next)
  PROVE  next \in Dataset
<1> DEFINE fresh == Fresh(nil, prev, d)
           alloc == Allocate(nil, prev, d, last)
<1>0. /\ IdsFollow(nil, prev, d, last, next, fresh)
      /\ FieldsFollow(nil, prev, d, last, next)
  BY EvolvedIds, EvolvedFields
<1>1. /\ prev.active \in SUBSET Identity /\ prev.retired \in SUBSET Identity
      /\ prev.id \in [Identity -> Nat]
      /\ prev.name \in [Identity -> Name \cup {NoName}]
      /\ prev.source \in [Identity -> Name \cup {NoName}]
      /\ d.fields \in SUBSET Identity
      /\ d.name \in [Identity -> Name \cup {NoName}]
      /\ d.shape \in [Identity -> Shape \cup {NoShape}]
  BY EvolvedParts
<1>2. /\ last \in Nat /\ fresh \in SUBSET Identity /\ Cardinality(fresh) \in Nat
      /\ \A i \in fresh : next.id[i] = last + Rank(fresh, i)
      /\ nil => d.fields \ fresh = d.fields \cap Top
      /\ nil => \A i \in d.fields \cap Top :
                     next.id[i] = Number[i] /\ Number[i] \in 1..last
  BY <1>0 DEF IdsFollow
<1>3. next.id = alloc /\ next = Result(nil, prev, d, last)
  BY <1>0, Zenon DEF FieldsFollow
<1>4. alloc \in [Identity -> Nat]
  <2> SUFFICES ASSUME NEW i \in Identity
               PROVE  alloc[i] \in Nat
    BY DEF Allocate
  <2>1. CASE i \in fresh
    <3> HIDE DEF fresh, alloc
    <3>1. Rank(fresh, i) \in 1..Cardinality(fresh)
      BY <1>2, <2>1, RankNumbers
    <3>2. QED
      BY <1>2, <1>3, <2>1, <3>1
  <2>2. CASE i \notin fresh /\ i \in d.fields /\ nil
    <3> HIDE DEF fresh, alloc
    <3>1. i \in d.fields \cap Top
      BY <1>2, <2>2
    <3>2. next.id[i] = Number[i] /\ Number[i] \in 1..last
      BY <1>2, <2>2, <3>1
    <3>3. QED
      BY <1>2, <1>3, <3>2
  <2>3. CASE i \notin fresh /\ ~(i \in d.fields /\ nil)
    <3>1. alloc[i] = prev.id[i]
      BY <2>3, Zenon DEF Allocate
    <3> HIDE DEF fresh, alloc
    <3>2. QED
      BY <1>1, <3>1
  <2>4. QED
    BY <2>1, <2>2, <2>3
<1>5. last + Cardinality(fresh) \in Nat
  <2> HIDE DEF fresh
  <2>1. QED
    BY <1>2
<1>6. \A i \in Identity : SourceOf(prev, d, i) \in Name \cup {NoName}
  BY <1>1 DEF SourceOf
<1> DEFINE name == [i \in Identity |-> IF i \in d.fields THEN d.name[i] ELSE prev.name[i]]
           source == [i \in Identity |->
                        IF i \in d.fields THEN SourceOf(prev, d, i) ELSE prev.source[i]]
           shape == [i \in Identity |-> IF i \in d.fields THEN d.shape[i] ELSE NoShape]
           retired == prev.retired \cup (prev.active \ d.fields)
           lastId == last + Cardinality(fresh)
<1>7. name \in [Identity -> Name \cup {NoName}]
  BY <1>1
<1>8. source \in [Identity -> Name \cup {NoName}]
  BY <1>1, <1>6
<1>9. shape \in [Identity -> Shape \cup {NoShape}]
  BY <1>1
<1>10. retired \in SUBSET Identity
  BY <1>1
<1>11. next = [active |-> d.fields, retired |-> retired, id |-> alloc, lastId |-> lastId,
                  name |-> name, source |-> source, shape |-> shape]
  BY <1>3 DEF Result
<1>12. lastId \in Nat
  BY <1>5
<1>13. QED
  <2> HIDE DEF fresh, alloc, name, source, shape, retired, lastId
  <2>1. QED
    BY <1>1, <1>4, <1>7, <1>8, <1>9, <1>10, <1>11, <1>12 DEF Dataset

LEMMA NothingIsEvolvable == Evolvable(TRUE, NoDataset)
<1>1. NoDataset \in Dataset
  BY DEF NoDataset, Dataset
<1>2. Known(NoDataset) = {} /\ NoDataset.lastId = 0 /\ NoDataset.active = {}
  BY DEF Known, NoDataset
<1>3. AcceptsPrevious(NoDataset)
  BY <1>2, SchemaAssumption DEF AcceptsPrevious
<1>4. QED
  BY <1>1, <1>3 DEF Evolvable

\* What the compiler writes it accepts as its previous schema.
LEMMA OutputIsEvolvable ==
  ASSUME NEW nil, NEW prev, NEW next, Evolvable(nil, prev),
         NEW d \in Descriptors, NEW last, Evolves(nil, prev, d, last, next)
  PROVE  Evolvable(FALSE, next)
<1>1. next \in Dataset
  BY EvolvedType, Zenon
<1>0. FieldsFollow(nil, prev, d, last, next)
  BY EvolvedFields
<1>2. next.active \cap next.retired = {}
  BY <1>0 DEF FieldsFollow, Evolves, Accepts, IdsAvailable
<1>3. /\ next.lastId \in 0..MaxStableId
      /\ \A i \in Known(next) : next.id[i] \in 1..next.lastId
      /\ \A i, j \in Known(next) : next.id[i] = next.id[j] => i = j
      /\ next.lastId \in {0} \cup {next.id[i] : i \in Known(next)}
  BY EvolvedIdsUnique
<1>4. /\ \A i \in Known(next) \cap ProtoField : Storage[next.source[i]] # ""
      /\ \A i, j \in Known(next) \cap ProtoField :
           SameScope(i, j) => Storage[next.source[i]] # Storage[next.source[j]]
  BY EvolvedNamesOwned, Zenon
<1>5. \A i \in Known(next) : next.id[i] \in 1..MaxStableId /\ next.id[i] <= next.lastId
  BY <1>3, SchemaAssumption
<1>6. AcceptsPrevious(next)
  BY <1>2, <1>3, <1>4, <1>5, Zenon DEF AcceptsPrevious
<1>7. QED
  BY <1>1, <1>6 DEF Evolvable

\* A compilation forgets no identity and changes no id.
LEMMA EvolutionKeeps ==
  ASSUME NEW nil, NEW prev, NEW next, Evolvable(nil, prev),
         NEW d \in Descriptors, NEW last, Evolves(nil, prev, d, last, next)
  PROVE  \A i \in Known(prev) : i \in Known(next) /\ next.id[i] = prev.id[i]
<1>1. IdsFollow(nil, prev, d, last, next, Fresh(nil, prev, d))
  BY EvolvedIds
<1>2. FieldsFollow(nil, prev, d, last, next)
  BY EvolvedFields
<1>3. QED
  BY <1>1, <1>2, Zenon DEF IdsFollow, FieldsFollow

\* The compiler always has an id to count on from: a highest top-level number,
\* or the last id of the previous schema.
LEMMA LastIdExists ==
  ASSUME NEW nil, NEW prev, NEW d \in Descriptors
  PROVE  LastIdBefore(nil, prev, d) # {}
<1> DEFINE S == d.fields \cap Top
<1>1. /\ IsFiniteSet(S)
      /\ \A i \in S : Number[i] \in Nat
      /\ \A i, j \in S : Number[i] = Number[j] => i = j
  <2>1. S \in SUBSET Identity
    BY DEF Top, ProtoField
  <2>2. IsFiniteSet(S)
    BY <2>1, SchemaAssumption, FS_Subset
  <2>3. QED
    BY <2>2, SchemaAssumption DEF Top, SameScope
<1>2. CASE S = {}
  BY <1>2 DEF LastIdBefore
<1>3. CASE S # {}
  <2>1. PICK i \in S : RankBy(Number, S, i) = Cardinality(S)
    <3> HIDE DEF S
    <3>1. QED
      BY <1>1, <1>3, RanksCount
  <2> DEFINE upto == {j \in S : Number[j] <= Number[i]}
  <2>2. upto \in SUBSET S /\ Cardinality(upto) = Cardinality(S)
    BY <2>1 DEF RankBy
  <2>3. upto = S
    BY <1>1, <2>2, FS_Subset
  <2>4. \A j \in S : Number[j] <= Number[i]
    BY <2>3
  <2>5. QED
    BY <2>4 DEF LastIdBefore
<1>4. QED
  BY <1>2, <1>3

(***************************************************************************)
(* The inductive invariant.  AcceptsPrevious is what the compiler checks   *)
(* of its input and carries the uniqueness of ids and names; it needs the  *)
(* types and the fact that there is nothing to evolve before the first     *)
(* compilation.                                                            *)
(***************************************************************************)
SchemaInv ==
    /\ SchemaTypeOK
    /\ first => schema = NoDataset
    /\ AcceptsPrevious(schema)

LEMMA InvEvolvable == SchemaInv => Evolvable(first, schema)
  BY DEF SchemaInv, SchemaTypeOK, Evolvable

LEMMA SchemaInitInv == SchemaInit => SchemaInv
  BY NothingIsEvolvable DEF SchemaInit, SchemaInv, SchemaTypeOK, Evolvable

LEMMA CompilesEvolving ==
  ASSUME NEW d, NEW last, CompileMessage(d, last)
  PROVE  Evolves(first, schema, d, last, schema')
  BY DEF CompileMessage, Evolves

\* What a compilation does to the fields of the schema.
LEMMA CompiledFields ==
  ASSUME NEW d, NEW last, CompileMessage(d, last)
  PROVE  /\ schema'.active = d.fields
         /\ schema'.retired = schema.retired \cup (schema.active \ d.fields)
         /\ schema'.id = Allocate(first, schema, d, last)
         /\ schema'.lastId = last + Cardinality(Fresh(first, schema, d))
         /\ schema'.name = [i \in Identity |->
                               IF i \in d.fields THEN d.name[i] ELSE schema.name[i]]
         /\ schema'.source = [i \in Identity |->
                IF i \in d.fields THEN SourceOf(schema, d, i) ELSE schema.source[i]]
         /\ schema'.shape = [i \in Identity |->
                IF i \in d.fields THEN d.shape[i] ELSE NoShape]
         /\ schema' = Result(first, schema, d, last)
         /\ Known(schema') = Known(schema) \cup d.fields
  BY DEF CompileMessage, Result, Known

\* The types of a schema's parts, and of a descriptor's.
LEMMA Parts ==
  ASSUME SchemaInv, NEW d \in Descriptors
  PROVE  /\ schema.active \in SUBSET Identity /\ schema.retired \in SUBSET Identity
         /\ schema.id \in [Identity -> Nat] /\ schema.lastId \in Nat
         /\ schema.name \in [Identity -> Name \cup {NoName}]
         /\ schema.source \in [Identity -> Name \cup {NoName}]
         /\ d.fields \in SUBSET Identity
         /\ d.name \in [Identity -> Name \cup {NoName}]
         /\ d.shape \in [Identity -> Shape \cup {NoShape}]
  BY SchemaAssumption DEF SchemaInv, SchemaTypeOK, Dataset, Descriptor

\* The ids a compilation gives out.  `last' bounds the ids that were there
\* before, fresh identities are numbered above it, and others keep their ids.
LEMMA AllocatedIds ==
  ASSUME SchemaInv, NEW d \in Descriptors, NEW last, CompileMessage(d, last)
  PROVE  LET fresh == Fresh(first, schema, d) IN
         /\ last \in Nat /\ fresh \in SUBSET Identity
         /\ Cardinality(fresh) \in Nat
         /\ \A i \in fresh : schema'.id[i] = last + Rank(fresh, i)
         /\ \A i \in Known(schema) : i \notin fresh /\ schema'.id[i] = schema.id[i]
         /\ ~first => last = schema.lastId /\ d.fields \ fresh \subseteq Known(schema)
         /\ first => d.fields \ fresh = d.fields \cap Top
         /\ first => \A i \in d.fields \cap Top :
                        schema'.id[i] = Number[i] /\ Number[i] \in 1..last
         /\ first => last \in {0} \cup {Number[i] : i \in d.fields \cap Top}
<1>1. IdsFollow(first, schema, d, last, schema', Fresh(first, schema, d))
  BY InvEvolvable, CompilesEvolving, EvolvedIds
<1>2. QED
  BY <1>1, Zenon DEF IdsFollow

\* A compilation preserves the inductive invariant.
LEMMA CompileMessageStep ==
  ASSUME SchemaInv, NEW d \in Descriptors, NEW last, CompileMessage(d, last)
  PROVE  SchemaInv'
<1>1. first' = FALSE /\ compiled' = d
  BY DEF CompileMessage
<1>2. Evolvable(FALSE, schema')
  BY InvEvolvable, CompilesEvolving, OutputIsEvolvable
<1>3. QED
  BY <1>1, <1>2 DEF SchemaInv, SchemaTypeOK, Evolvable

LEMMA SchemaInvStep ==
  ASSUME SchemaInv, [SchemaNext]_schemaVars
  PROVE  SchemaInv'
<1>1. CASE SchemaNext
  <2>1. PICK d \in Descriptors : \E last \in LastIdBefore(first, schema, d) :
                                    CompileMessage(d, last)
    BY <1>1 DEF SchemaNext
  <2>2. PICK last \in LastIdBefore(first, schema, d) : CompileMessage(d, last)
    BY <2>1
  <2>3. QED
    BY <2>2, CompileMessageStep
<1>2. CASE UNCHANGED schemaVars
  <2>1. first' = first /\ schema' = schema /\ compiled' = compiled
    BY <1>2 DEF schemaVars
  <2>2. SchemaTypeOK'
    BY <2>1 DEF SchemaInv, SchemaTypeOK
  <2>3. QED
    BY <2>1, <2>2 DEF SchemaInv
<1>3. QED
  BY <1>1, <1>2

\* The compiler's output always passes the checks it makes on its own previous
\* output (newDatasetCompiler, indexPreviousField): ids are unique, positive and
\* bounded by last_field_id, and no two identities of a scope, tombstones
\* included, share a storage name.
THEOREM OutputAccepted == SchemaSpec => [](SchemaTypeOK /\ AcceptsOwnOutput)
<1>1. SchemaInv => SchemaTypeOK /\ AcceptsOwnOutput
  BY DEF SchemaInv, AcceptsOwnOutput
<1>2. QED
  BY SchemaInitInv, SchemaInvStep, <1>1, PTL DEF SchemaSpec

\* No compilation forgets an identity, changes its stable id or its storage
\* name, or revives a tombstone.
THEOREM IdentitiesArePermanent == SchemaSpec => IdentitiesPermanent
<1> DEFINE Keeps(i) == /\ i \in Known(schema')
                       /\ schema'.id[i] = schema.id[i]
                       /\ schema'.source[i] = schema.source[i]
                       /\ i \in schema.retired => i \in schema'.retired
<1>1. ASSUME SchemaInv, SchemaNext, NEW i \in Known(schema)
      PROVE  Keeps(i)
  <2>1. PICK d \in Descriptors : \E last \in LastIdBefore(first, schema, d) :
                                    CompileMessage(d, last)
    BY <1>1 DEF SchemaNext
  <2>2. PICK last \in LastIdBefore(first, schema, d) : CompileMessage(d, last)
    BY <2>1
  <2>3. i \in Known(schema') /\ schema'.id[i] = schema.id[i]
    BY <1>1, <2>2, AllocatedIds, CompiledFields, Zenon
  <2>4. i \in schema.retired => i \in schema'.retired
    BY <2>2, CompiledFields, Zenon
  <2>5. d.fields \cap schema.retired = {} /\ i \in Identity
    BY <1>1, <2>2, Parts, Zenon DEF CompileMessage, Accepts, IdsAvailable, Known
  <2>6. schema'.source = [k \in Identity |->
           IF k \in d.fields THEN SourceOf(schema, d, k) ELSE schema.source[k]]
    BY <2>2, CompiledFields, Zenon
  <2>7. schema'.source[i] = IF i \in d.fields THEN SourceOf(schema, d, i)
                            ELSE schema.source[i]
    BY <2>5, <2>6, Zenon
  <2>8. i \in d.fields => SourceOf(schema, d, i) = schema.source[i]
    BY <1>1, <2>5 DEF SourceOf, Known
  <2>9. QED
    BY <2>3, <2>4, <2>7, <2>8
<1>2. ASSUME SchemaInv, [SchemaNext]_schemaVars
      PROVE  [\A i \in Known(schema) : Keeps(i)]_schemaVars
  BY <1>1, <1>2
<1>3. QED
  BY SchemaInitInv, SchemaInvStep, <1>2, PTL DEF SchemaSpec, IdentitiesPermanent

\* After the first compilation, an identity that is new to the schema gets an id
\* above every id the schema has ever given out (allocate).
THEOREM AllocationIsMonotonic == SchemaSpec => AllocatesMonotonically
<1> DEFINE Above == ~first =>
             \A i \in Known(schema') \ Known(schema) : schema'.id[i] > schema.lastId
<1>1. ASSUME SchemaInv, SchemaNext
      PROVE  Above
  <2>1. PICK d \in Descriptors : \E last \in LastIdBefore(first, schema, d) :
                                    CompileMessage(d, last)
    BY <1>1 DEF SchemaNext
  <2>2. PICK last \in LastIdBefore(first, schema, d) : CompileMessage(d, last)
    BY <2>1
  <2>3. SUFFICES ASSUME ~first, NEW i \in Known(schema') \ Known(schema)
                 PROVE  schema'.id[i] > schema.lastId
    OBVIOUS
  <2> DEFINE fresh == Fresh(first, schema, d)
  <2>4. Known(schema') = Known(schema) \cup d.fields
    BY <2>2, CompiledFields, Zenon
  <2>5. /\ last \in Nat /\ fresh \in SUBSET Identity
        /\ \A k \in fresh : schema'.id[k] = last + Rank(fresh, k)
        /\ ~first => last = schema.lastId /\ d.fields \ fresh \subseteq Known(schema)
    BY <1>1, <2>2, AllocatedIds
  <2> HIDE DEF fresh
  <2>6. i \in fresh /\ last = schema.lastId
    BY <2>3, <2>4, <2>5
  <2>7. /\ schema'.id[i] = last + Rank(fresh, i) /\ last \in Nat
        /\ fresh \in SUBSET Identity
    BY <2>6, <2>5
  <2>8. Rank(fresh, i) \in 1..Cardinality(fresh) /\ Cardinality(fresh) \in Nat
    BY <2>6, <2>7, RankNumbers
  <2>9. QED
    BY <2>6, <2>7, <2>8
<1>2. ASSUME SchemaInv, [SchemaNext]_schemaVars
      PROVE  [Above]_schemaVars
  BY <1>1, <1>2
<1>3. QED
  BY SchemaInitInv, SchemaInvStep, <1>2, PTL DEF SchemaSpec, AllocatesMonotonically

(***************************************************************************)
(* Recompiling.  What the schema last written says of the descriptor it    *)
(* was compiled from.                                                      *)
(***************************************************************************)
Mirrors ==
    ~first =>
        /\ schema.active = compiled.fields
        /\ \A i \in compiled.fields : schema.name[i] = compiled.name[i]
        /\ \A i \in Identity : schema.shape[i] =
               IF i \in compiled.fields THEN compiled.shape[i] ELSE NoShape
        /\ \A i \in compiled.fields \cap ProtoField :
               /\ schema.source[i] \in {compiled.name[i]} \cup compiled.reservedName[Parent[i]]
               /\ Storage[schema.source[i]] # ""
        /\ RetiredReserved(schema, compiled)
        /\ RefinementsFit(compiled)

LEMMA MirrorsStep ==
  ASSUME SchemaInv, NEW d \in Descriptors, NEW last, CompileMessage(d, last)
  PROVE  Mirrors'
<1>0. /\ schema.active \in SUBSET Identity /\ schema.retired \in SUBSET Identity
      /\ d.fields \in SUBSET Identity
  BY Parts
<1>1. compiled' = d /\ schema'.active = d.fields
  BY CompiledFields, Zenon DEF CompileMessage
<1>2. \A i \in Identity : schema'.name[i] =
          IF i \in d.fields THEN d.name[i] ELSE schema.name[i]
  <2>1. schema'.name = [i \in Identity |->
                           IF i \in d.fields THEN d.name[i] ELSE schema.name[i]]
    BY CompiledFields, Zenon
  <2>2. QED
    BY <2>1, Zenon
<1>3. \A i \in Identity : schema'.source[i] =
          IF i \in d.fields THEN SourceOf(schema, d, i) ELSE schema.source[i]
  <2>1. schema'.source = [i \in Identity |->
           IF i \in d.fields THEN SourceOf(schema, d, i) ELSE schema.source[i]]
    BY CompiledFields, Zenon
  <2>2. QED
    BY <2>1, Zenon
<1>4. \A i \in Identity : schema'.shape[i] =
          IF i \in d.fields THEN d.shape[i] ELSE NoShape
  <2>1. schema'.shape = [i \in Identity |->
                            IF i \in d.fields THEN d.shape[i] ELSE NoShape]
    BY CompiledFields, Zenon
  <2>2. QED
    BY <2>1, Zenon
<1>5. ASSUME NEW i \in d.fields \cap ProtoField
      PROVE  /\ schema'.source[i] \in {d.name[i]} \cup d.reservedName[Parent[i]]
             /\ Storage[schema'.source[i]] # ""
  <2>1. RenamesReserved(schema, d) /\ NamesDistinct(schema, d)
    BY DEF CompileMessage, Accepts
  <2>2. schema'.source[i] = SourceOf(schema, d, i)
    BY <1>0, <1>3
  <2>3. SourceOf(schema, d, i) \in {d.name[i]} \cup d.reservedName[Parent[i]]
    BY <2>1 DEF RenamesReserved, SourceOf
  <2>4. QED
    BY <2>1, <2>2, <2>3, Zenon DEF NamesDistinct
<1>6. RetiredReserved(schema', d)
  <2>1. RetiredReserved(schema, d)
    BY DEF CompileMessage, Accepts
  <2>2. Known(schema') \ d.fields = Known(schema) \ d.fields
    BY CompiledFields, Zenon
  <2>3. \A i \in Identity \ d.fields :
          schema'.name[i] = schema.name[i] /\ schema'.source[i] = schema.source[i]
    BY <1>2, <1>3
  <2>4. \A i \in (Known(schema') \ d.fields) \cap ProtoField : i \in Identity \ d.fields
    BY DEF ProtoField
  <2>5. QED
    BY <2>1, <2>2, <2>3, <2>4 DEF RetiredReserved
<1>7. RefinementsFit(d)
  BY DEF CompileMessage, Accepts
<1>8. QED
  BY <1>0, <1>1, <1>2, <1>4, <1>5, <1>6, <1>7, Zenon DEF Mirrors

\* A schema that mirrors its descriptor is a fixed point of the compiler.
LEMMA FixedPoint ==
  ASSUME SchemaInv, Mirrors
  PROVE  RecompileIsIdentity
<1> SUFFICES ASSUME ~first
             PROVE  /\ Accepts(FALSE, schema, compiled, schema.lastId)
                    /\ Result(FALSE, schema, compiled, schema.lastId) = schema
  BY Zenon DEF RecompileIsIdentity
<1>1. compiled \in Descriptors
  BY DEF SchemaInv, SchemaTypeOK
<1>2. PICK d \in Descriptors : d = compiled
  BY <1>1
<1>3. /\ schema.active = d.fields /\ schema.lastId \in 0..MaxStableId
      /\ d.fields \cap schema.retired = {} /\ schema.lastId \in Nat
  BY <1>2, Parts, Zenon DEF Mirrors, SchemaInv, AcceptsPrevious
<1>4. /\ Fresh(FALSE, schema, d) = {}
      /\ Cardinality(Fresh(FALSE, schema, d)) = 0
  BY <1>3, FS_EmptySet DEF Fresh
<1>5. \A i \in d.fields : SourceOf(schema, d, i) = schema.source[i]
  BY <1>3 DEF SourceOf
<1>6. IdsAvailable(FALSE, schema, d, schema.lastId)
  <2> DEFINE fresh == Fresh(FALSE, schema, d)
  <2>1. Cardinality(fresh) = 0
    BY <1>4, Zenon
  <2> HIDE DEF fresh
  <2>2. schema.lastId + Cardinality(fresh) <= MaxStableId
    BY <1>3, <2>1, SchemaAssumption
  <2>3. QED
    BY <1>3, <2>2, Zenon DEF IdsAvailable, fresh
<1>7. RenamesReserved(schema, d)
  <2>1. \A i \in d.fields \cap ProtoField :
          /\ schema.name[i] = d.name[i]
          /\ schema.source[i] \in {d.name[i]} \cup d.reservedName[Parent[i]]
    BY <1>2, Zenon DEF Mirrors
  <2>2. QED
    BY <2>1 DEF RenamesReserved
<1>8. NamesUnowned(schema, d) /\ NamesDistinct(schema, d)
  <2>1. \A i, j \in Known(schema) \cap ProtoField :
           SameScope(i, j) => Storage[schema.source[i]] # Storage[schema.source[j]]
    BY Zenon DEF SchemaInv, AcceptsPrevious
  <2>2. \A i \in d.fields \cap ProtoField :
           Storage[schema.source[i]] # "" /\ i \in Known(schema)
    BY <1>2, <1>3, Zenon DEF Mirrors, Known
  <2>3. ASSUME NEW i \in d.fields \cap ProtoField, NEW j \in Known(schema) \cap ProtoField,
               SameScope(i, j)
        PROVE  Storage[SourceOf(schema, d, i)] # Storage[schema.source[j]]
    <3>1. SourceOf(schema, d, i) = schema.source[i] /\ i \in Known(schema) \cap ProtoField
      BY <1>5, <2>2, Zenon
    <3>2. QED
      BY <2>1, <2>3, <3>1
  <2>4. \A i \in d.fields \cap ProtoField :
          i \in Known(schema) /\ SourceOf(schema, d, i) = schema.source[i]
    BY <1>5, <2>2, Zenon
  <2>5. NamesUnowned(schema, d)
    BY <2>3, Zenon DEF NamesUnowned
  <2>6. NamesDistinct(schema, d)
    <3>1. ASSUME NEW i \in d.fields \cap ProtoField, NEW j \in d.fields \cap ProtoField,
                 SameScope(i, j)
          PROVE  Storage[SourceOf(schema, d, i)] # Storage[SourceOf(schema, d, j)]
      <4>1. j \in Known(schema) \cap ProtoField /\ SourceOf(schema, d, j) = schema.source[j]
        BY <2>4
      <4>2. QED
        BY <2>3, <3>1, <4>1
    <3>2. \A i \in d.fields \cap ProtoField : Storage[SourceOf(schema, d, i)] # ""
      BY <2>2, <2>4, Zenon
    <3>3. QED
      BY <3>1, <3>2, Zenon DEF NamesDistinct
  <2>7. QED
    BY <2>5, <2>6
<1>9. ShapesEvolve(schema, d)
  <2>1. \A i \in d.fields : schema.shape[i] = d.shape[i]
    BY <1>2, Parts, Zenon DEF Mirrors
  <2>2. QED
    BY <2>1 DEF ShapesEvolve
<1>10. RetiredReserved(schema, d) /\ RefinementsFit(d)
  BY <1>2, Zenon DEF Mirrors
<1>11. Accepts(FALSE, schema, d, schema.lastId)
  BY <1>6, <1>7, <1>8, <1>9, <1>10, Zenon DEF Accepts, SchemaInv
<1>12. schema \in Dataset
  BY DEF SchemaInv, SchemaTypeOK
<1>13. Allocate(FALSE, schema, d, schema.lastId) = schema.id
  <2>1. \A i \in Identity : Allocate(FALSE, schema, d, schema.lastId)[i] = schema.id[i]
    BY <1>4, Zenon DEF Allocate
  <2>2. Allocate(FALSE, schema, d, schema.lastId) =
          [i \in Identity |-> Allocate(FALSE, schema, d, schema.lastId)[i]]
    BY DEF Allocate
  <2>3. schema.id = [i \in Identity |-> schema.id[i]]
    BY <1>2, Parts
  <2>4. QED
    BY <2>1, <2>2, <2>3, Zenon
<1>14. [i \in Identity |-> IF i \in d.fields THEN d.name[i] ELSE schema.name[i]] = schema.name
  BY <1>2, Parts, Zenon DEF Mirrors
<1>15. [i \in Identity |-> IF i \in d.fields THEN SourceOf(schema, d, i)
                           ELSE schema.source[i]] = schema.source
  BY <1>5, Parts
<1>16. [i \in Identity |-> IF i \in d.fields THEN d.shape[i] ELSE NoShape] = schema.shape
  <2>1. schema.shape \in [Identity -> Shape \cup {NoShape}]
    BY <1>12 DEF Dataset
  <2>2. QED
    BY <1>2, <2>1, Zenon DEF Mirrors
<1>17. schema.retired \cup (schema.active \ d.fields) = schema.retired
  BY <1>3
<1>18. schema.lastId + Cardinality(Fresh(FALSE, schema, d)) = schema.lastId
  <2> DEFINE fresh == Fresh(FALSE, schema, d)
  <2>1. Cardinality(fresh) = 0
    BY <1>4, Zenon
  <2> HIDE DEF fresh
  <2>2. schema.lastId + Cardinality(fresh) = schema.lastId
    BY <1>3, <2>1
  <2>3. QED
    BY <2>2, Zenon DEF fresh
<1>19. Result(FALSE, schema, d, schema.lastId) = schema
  BY <1>3, <1>12, <1>13, <1>14, <1>15, <1>16, <1>17, <1>18, Zenon DEF Result, Dataset
<1>20. QED
  BY <1>2, <1>11, <1>19, Zenon

\* Compiling the descriptor of the last compilation again is accepted and returns
\* the schema unchanged, however many evolutions led to it.
THEOREM RecompilationIsIdentity == SchemaSpec => []RecompileIsIdentity
<1>1. SchemaInit => Mirrors
  BY Zenon DEF SchemaInit, Mirrors
<1>2. ASSUME SchemaInv, Mirrors, [SchemaNext]_schemaVars
      PROVE  Mirrors'
  <2>1. CASE SchemaNext
    <3>1. PICK d \in Descriptors : \E last \in LastIdBefore(first, schema, d) :
                                      CompileMessage(d, last)
      BY <2>1 DEF SchemaNext
    <3>2. QED
      BY <1>2, <3>1, MirrorsStep
  <2>2. CASE UNCHANGED schemaVars
    BY <1>2, <2>2, Zenon DEF Mirrors, schemaVars, RetiredReserved, Known
  <2>3. QED
    BY <1>2, <2>1, <2>2
<1>3. QED
  BY SchemaInitInv, SchemaInvStep, <1>1, <1>2, FixedPoint, PTL DEF SchemaSpec

(***************************************************************************)
(* The bundle file: the inductive invariant.                               *)
(***************************************************************************)
\* The compiler can evolve every dataset of a bundle.
Evolving(b) == \A m \in DOMAIN b.datasets : AcceptsPrevious(b.datasets[m])

\* What is, or may come back as, the bundle file: never half-written bytes.
Usable(b) == b \in Bundle /\ b.bytes = "stable" /\ Evolving(b)

\* A command writes a bundle that can be evolved, synced before it is renamed.
Writes ==
    /\ pc \in [Process -> {"idle", "compiled", "written", "synced"}]
    /\ out \in [Process -> Bundle]
    /\ \A p \in Process : Evolving(out[p])
    /\ \A p \in Process : pc[p] = "synced" => out[p].bytes = "stable"

\* Bundle b has all that bundle a has.
Keeps(a, b) ==
    \A m \in DOMAIN a.datasets :
        /\ m \in DOMAIN b.datasets
        /\ \A i \in Known(a.datasets[m]) :
              /\ i \in Known(b.datasets[m])
              /\ b.datasets[m].id[i] = a.datasets[m].id[i]

\* Without overlap the one command that runs writes a successor of the file.
Serial ==
    serial => \A p \in Process : pc[p] # "idle" =>
        /\ Keeps(file, out[p])
        /\ \A q \in Process : pc[q] # "idle" => q = p

\* What artifacts say of an id, the file says.
Artifacts ==
    /\ ~serial => rendered = {}
    /\ \A r \in rendered :
          /\ r[1] \in DOMAIN file.datasets
          /\ r[2] \in Known(file.datasets[r[1]])
          /\ r[3] = file.datasets[r[1]].id[r[2]]

Inv == Usable(file) /\ Usable(disk) /\ Writes /\ Serial /\ Artifacts

(***************************************************************************)
(* Bundles.                                                                *)
(***************************************************************************)
LEMMA NothingStored ==
  /\ NoBundle \in Bundle /\ DOMAIN NoBundle.datasets = {}
  /\ Usable(NoBundle)
<1>1. DOMAIN NoBundle.datasets = {}
  BY DEF NoBundle
<1>2. NoBundle.datasets \in [{} -> Dataset]
  BY <1>1 DEF NoBundle
<1>3. {} \in SUBSET Message
  OBVIOUS
<1>4. NoBundle \in Bundle
  BY <1>2, <1>3 DEF NoBundle, Bundle
<1>5. NoBundle.bytes = "stable"
  BY DEF NoBundle
<1>6. QED
  BY <1>1, <1>4, <1>5 DEF Usable, Evolving

LEMMA BundleParts ==
  ASSUME NEW b \in Bundle
  PROVE  /\ DOMAIN b.datasets \in SUBSET Message
         /\ \A m \in DOMAIN b.datasets : b.datasets[m] \in Dataset
         /\ b.datasets = [m \in DOMAIN b.datasets |-> b.datasets[m]]
  BY DEF Bundle

\* What a compile command makes of a usable file can be evolved and has all that
\* the file has.
LEMMA CompiledBundle ==
  ASSUME NEW b, Usable(b), NEW input \in Inputs, Compiles(b, input)
  PROVE  /\ Compiled(b, input) \in Bundle
         /\ Evolving(Compiled(b, input))
         /\ Keeps(b, Compiled(b, input))
<1> DEFINE c == Compiled(b, input)
           R(m) == Result(IsFirst(b, m), Previous(b, m), input[m], LastId(b, m, input[m]))
<1>1. DOMAIN input \in SUBSET Message /\ \A m \in DOMAIN input : input[m] \in Descriptors
  BY StoreAssumption DEF Inputs
<1>2. ASSUME NEW m \in DOMAIN input
      PROVE  /\ Evolvable(IsFirst(b, m), Previous(b, m))
             /\ Evolves(IsFirst(b, m), Previous(b, m), input[m],
                        LastId(b, m, input[m]), R(m))
  <2>1. m \in DOMAIN b.datasets => Evolvable(IsFirst(b, m), Previous(b, m))
    <3> HAVE m \in DOMAIN b.datasets
    <3>1. Previous(b, m) = b.datasets[m] /\ IsFirst(b, m) = FALSE
      BY DEF Previous, IsFirst
    <3>2. b.datasets[m] \in Dataset /\ AcceptsPrevious(b.datasets[m])
      BY BundleParts DEF Usable, Evolving
    <3>3. QED
      BY <3>1, <3>2 DEF Evolvable
  <2>2. m \notin DOMAIN b.datasets => Evolvable(IsFirst(b, m), Previous(b, m))
    <3> HAVE m \notin DOMAIN b.datasets
    <3>1. Previous(b, m) = NoDataset /\ IsFirst(b, m) = TRUE
      BY DEF Previous, IsFirst
    <3>2. QED
      BY <3>1, NothingIsEvolvable
  <2>3. LastId(b, m, input[m]) \in LastIdBefore(IsFirst(b, m), Previous(b, m), input[m])
    BY <1>1, LastIdExists DEF LastId
  <2>4. Accepts(IsFirst(b, m), Previous(b, m), input[m], LastId(b, m, input[m]))
    BY DEF Compiles
  <2>5. QED
    BY <2>1, <2>2, <2>3, <2>4 DEF Evolves
<1> HIDE DEF R
<1>3. ASSUME NEW m \in DOMAIN input
      PROVE  Evolvable(FALSE, R(m))
  BY <1>1, <1>2, OutputIsEvolvable
<1>4. ASSUME NEW m \in DOMAIN input
      PROVE  \A i \in Known(Previous(b, m)) :
                i \in Known(R(m)) /\ R(m).id[i] = Previous(b, m).id[i]
  BY <1>1, <1>2, EvolutionKeeps
<1>5. /\ c = [version |-> "4/3", bytes |-> "cached", datasets |-> [m \in DOMAIN input |-> R(m)]]
      /\ c.datasets = [m \in DOMAIN input |-> R(m)]
  BY DEF Compiled, R
<1>6. \A m \in DOMAIN input : R(m) \in Dataset /\ AcceptsPrevious(R(m))
  BY <1>3 DEF Evolvable
<1>7. c \in Bundle
  <2>1. [m \in DOMAIN input |-> R(m)] \in [DOMAIN input -> Dataset]
    BY <1>6
  <2>2. QED
    BY <1>1, <1>5, <2>1, SMTT(30) DEF Bundle
<1>8. Evolving(c)
  BY <1>5, <1>6 DEF Evolving
<1>9. ASSUME NEW m \in DOMAIN b.datasets
      PROVE  /\ m \in DOMAIN c.datasets
             /\ \A i \in Known(b.datasets[m]) :
                   /\ i \in Known(c.datasets[m])
                   /\ c.datasets[m].id[i] = b.datasets[m].id[i]
  <2>1. m \in DOMAIN input
    BY DEF Compiles, RootsAppended
  <2>2. c.datasets[m] = R(m) /\ DOMAIN c.datasets = DOMAIN input
    BY <1>5, <2>1
  <2>3. Previous(b, m) = b.datasets[m]
    BY DEF Previous
  <2>4. QED
    BY <1>4, <2>1, <2>2, <2>3
<1>10. QED
  BY <1>7, <1>8, <1>9 DEF Keeps

(***************************************************************************)
(* The invariant holds.                                                    *)
(***************************************************************************)
LEMMA InitInv == Init => Inv
<1> SUFFICES ASSUME Init PROVE Inv
  OBVIOUS
<1>1. PICK m \in Message, d \in Descriptors : \E last \in LastIdBefore(TRUE, NoDataset, d) :
          /\ Accepts(TRUE, NoDataset, d, last)
          /\ file \in {NoBundle,
                       [version |-> "3/2", bytes |-> "stable",
                        datasets |-> [x \in {m} |-> Result(TRUE, NoDataset, d, last)]]}
  BY StoreAssumption DEF Init
<1>2. PICK last \in LastIdBefore(TRUE, NoDataset, d) :
          /\ Accepts(TRUE, NoDataset, d, last)
          /\ file \in {NoBundle,
                       [version |-> "3/2", bytes |-> "stable",
                        datasets |-> [x \in {m} |-> Result(TRUE, NoDataset, d, last)]]}
  BY <1>1
<1> DEFINE R == Result(TRUE, NoDataset, d, last)
           old == [version |-> "3/2", bytes |-> "stable", datasets |-> [x \in {m} |-> R]]
<1>3. Evolvable(FALSE, R)
  <2>1. Evolves(TRUE, NoDataset, d, last, R)
    BY <1>2 DEF Evolves
  <2> HIDE DEF R
  <2>2. QED
    BY <2>1, NothingIsEvolvable, OutputIsEvolvable
<1>4. file \in {NoBundle, old}
  BY <1>2
<1>5. Usable(old)
  <2> HIDE DEF R
  <2>1. R \in Dataset /\ AcceptsPrevious(R)
    BY <1>3 DEF Evolvable
  <2>2. [x \in {m} |-> R] \in [{m} -> Dataset] /\ {m} \in SUBSET Message
    BY <2>1
  <2>3. old \in Bundle
    BY <2>2 DEF Bundle
  <2>4. QED
    BY <2>1, <2>3 DEF Usable, Evolving
<1>6. Usable(file) /\ Usable(disk)
  <2> HIDE DEF old
  <2>1. QED
    BY <1>4, <1>5, NothingStored DEF Init
<1>7. Writes
  BY NothingStored DEF Init, Writes, Usable
<1>8. Serial
  BY DEF Init, Serial
<1>9. Artifacts
  BY DEF Init, Artifacts
<1>10. QED
  BY <1>6, <1>7, <1>8, <1>9 DEF Inv

\* A command that starts: it makes a bundle of the file.
LEMMA StartStep ==
  ASSUME Inv, NEW p \in Process, CanStart(p), NEW b,
         b \in Bundle, Evolving(b), Keeps(file, b),
         pc' = [pc EXCEPT ![p] = "compiled"],
         out' = [out EXCEPT ![p] = b],
         UNCHANGED <<serial, file, disk, rendered, losses>>
  PROVE  Inv'
<1>1. Usable(file)' /\ Usable(disk)'
  BY DEF Inv, Usable, Evolving
<1>2. Writes'
  BY DEF Inv, Writes
<1>3. Serial'
  BY DEF Inv, Writes, Serial, CanStart
<1>4. Artifacts'
  BY DEF Inv, Artifacts
<1>5. QED
  BY <1>1, <1>2, <1>3, <1>4 DEF Inv

\* A command that stops.
LEMMA StopStep ==
  ASSUME Inv, NEW p \in Process, Stops(p)
  PROVE  Inv'
<1>1. Usable(file)' /\ Usable(disk)'
  BY DEF Inv, Usable, Evolving, Stops
<1>2. Writes'
  BY NothingStored DEF Inv, Writes, Usable, Stops
<1>3. Serial'
  BY DEF Inv, Writes, Serial, Stops
<1>4. Artifacts'
  BY DEF Inv, Artifacts, Stops
<1>5. QED
  BY <1>1, <1>2, <1>3, <1>4 DEF Inv

LEMMA CompileStep ==
  ASSUME Inv, NEW p \in Process, NEW input \in Inputs, Compile(p, input)
  PROVE  Inv'
<1>1. Usable(file) /\ Compiles(file, input) /\ CanStart(p)
  BY DEF Inv, Compile
<1> DEFINE b == Compiled(file, input)
<1>2. b \in Bundle /\ Evolving(b) /\ Keeps(file, b)
  BY <1>1, CompiledBundle
<1>3. /\ pc' = [pc EXCEPT ![p] = "compiled"]
      /\ out' = [out EXCEPT ![p] = b]
      /\ UNCHANGED <<serial, file, disk, rendered, losses>>
  BY DEF Compile
<1> HIDE DEF b
<1>4. QED
  BY <1>1, <1>2, <1>3, StartStep

LEMMA MigrateStep ==
  ASSUME Inv, NEW p \in Process, Migrate(p)
  PROVE  Inv'
<1> DEFINE b == [file EXCEPT !.version = "4/3", !.bytes = "cached"]
<1>1. file \in Bundle /\ Evolving(file) /\ CanStart(p)
  BY DEF Inv, Usable, Migrate
<1>2. b \in Bundle /\ b.datasets = file.datasets
  BY <1>1 DEF Bundle
<1>3. /\ pc' = [pc EXCEPT ![p] = "compiled"]
      /\ out' = [out EXCEPT ![p] = b]
      /\ UNCHANGED <<serial, file, disk, rendered, losses>>
  BY DEF Migrate
<1> HIDE DEF b
<1>4. Evolving(b) /\ Keeps(file, b)
  BY <1>1, <1>2 DEF Evolving, Keeps
<1>5. QED
  BY <1>1, <1>2, <1>3, <1>4, StartStep

LEMMA WriteStep ==
  ASSUME Inv, NEW p \in Process, Write(p)
  PROVE  Inv'
<1>1. Usable(file)' /\ Usable(disk)'
  BY DEF Inv, Usable, Evolving, Write
<1>2. Writes'
  BY DEF Inv, Writes, Write
<1>3. Serial'
  BY DEF Inv, Writes, Serial, Write
<1>4. Artifacts'
  BY DEF Inv, Artifacts, Write
<1>5. QED
  BY <1>1, <1>2, <1>3, <1>4 DEF Inv

LEMMA SyncStep ==
  ASSUME Inv, NEW p \in Process, Sync(p)
  PROVE  Inv'
<1> DEFINE b == [out[p] EXCEPT !.bytes = "stable"]
<1>1. Usable(file)' /\ Usable(disk)'
  BY DEF Inv, Usable, Evolving, Sync
<1>2. /\ out' = [out EXCEPT ![p] = b]
      /\ pc' = [pc EXCEPT ![p] = "synced"]
      /\ pc[p] = "written"
      /\ UNCHANGED <<serial, file, rendered>>
  BY DEF Sync
<1>3. Writes
  BY DEF Inv
<1>4. b \in Bundle /\ b.datasets = out[p].datasets /\ b.bytes = "stable"
  BY <1>3 DEF Writes, Bundle
<1> HIDE DEF b
<1>5. Writes'
  BY <1>2, <1>3, <1>4 DEF Writes, Evolving
<1>6. Serial'
  <2>1. Keeps(file, out[p]) => Keeps(file, b)
    BY <1>4 DEF Keeps
  <2>2. Serial /\ pc \in [Process -> {"idle", "compiled", "written", "synced"}]
        /\ out \in [Process -> Bundle]
    BY <1>3 DEF Inv, Writes
  <2>3. QED
    BY <1>2, <2>1, <2>2 DEF Serial
<1>7. Artifacts'
  BY <1>2 DEF Inv, Artifacts
<1>8. QED
  BY <1>1, <1>5, <1>6, <1>7 DEF Inv

LEMMA RenameStep ==
  ASSUME Inv, NEW p \in Process, Rename(p)
  PROVE  Inv' /\ (serial => Keeps(file, file'))
<1>1. /\ pc[p] = "synced"
      /\ file' = out[p]
      /\ pc' = [pc EXCEPT ![p] = "idle"]
      /\ out' = [out EXCEPT ![p] = NoBundle]
      /\ UNCHANGED <<serial, disk, rendered>>
  BY DEF Rename
<1>2. Writes /\ Serial /\ Artifacts /\ Usable(disk)
  BY DEF Inv
<1>3. Usable(file)' /\ Usable(disk)'
  BY <1>1, <1>2 DEF Writes, Usable, Evolving
<1>4. Writes'
  BY <1>1, <1>2, NothingStored DEF Writes, Usable
<1>5. serial => Keeps(file, file') /\ \A q \in Process : pc[q] # "idle" => q = p
  BY <1>1, <1>2 DEF Serial
<1>6. Serial'
  BY <1>1, <1>2, <1>5 DEF Serial, Writes
<1>7. Artifacts'
  <2>1. CASE serial
    BY <1>1, <1>2, <1>5, <2>1 DEF Artifacts, Keeps
  <2>2. CASE ~serial
    BY <1>1, <1>2, <2>2 DEF Artifacts
  <2>3. QED
    BY <2>1, <2>2
<1>8. QED
  BY <1>3, <1>4, <1>5, <1>6, <1>7 DEF Inv

LEMMA RenderStep ==
  ASSUME Inv, NEW m \in Message, Render(m)
  PROVE  Inv'
<1>1. /\ m \in DOMAIN file.datasets
      /\ rendered' = rendered \cup
            {<<m, i, file.datasets[m].id[i]>> : i \in file.datasets[m].active}
      /\ serial
      /\ UNCHANGED <<serial, file, disk, pc, out>>
  BY DEF Render
<1>2. Usable(file)' /\ Usable(disk)'
  BY <1>1 DEF Inv, Usable, Evolving
<1>3. Writes'
  BY <1>1 DEF Inv, Writes
<1>4. Serial'
  BY <1>1 DEF Inv, Serial
<1>5. Artifacts'
  <2>1. Artifacts
    BY DEF Inv
  <2>2. file.datasets[m].active \subseteq Known(file.datasets[m])
    BY DEF Known
  <2>3. QED
    BY <1>1, <2>1, <2>2, SMTT(30) DEF Artifacts
<1>6. QED
  BY <1>2, <1>3, <1>4, <1>5 DEF Inv

\* A power failure loses nothing of a bundle that was synced before its rename.
LEMMA PowerStep ==
  ASSUME Inv, Settles \/ PowerLoss
  PROVE  Inv'
<1>1. Usable(file) /\ Usable(disk) /\ Writes /\ Artifacts
  BY DEF Inv
<1>2. CASE Settles
  <2>1. Usable(file)' /\ Usable(disk)'
    BY <1>1, <1>2 DEF Settles, Usable, Evolving
  <2>2. Writes'
    BY <1>1, <1>2 DEF Settles, Writes
  <2>3. Serial'
    BY <1>2 DEF Settles, Serial
  <2>4. Artifacts'
    BY <1>1, <1>2 DEF Settles, Artifacts
  <2>5. QED
    BY <2>1, <2>2, <2>3, <2>4 DEF Inv
<1>3. CASE PowerLoss
  <2>1. Survives(file) = file
    BY <1>1 DEF Survives, Usable
  <2>2. Usable(file)' /\ Usable(disk)'
    BY <1>1, <1>3, <2>1 DEF PowerLoss, Usable, Evolving
  <2>3. Writes'
    BY <1>3, NothingStored DEF PowerLoss, Writes, Usable
  <2>4. Serial'
    BY <1>3 DEF PowerLoss, Serial
  <2>5. Artifacts'
    BY <1>1, <1>3 DEF PowerLoss, Artifacts
  <2>6. QED
    BY <2>2, <2>3, <2>4, <2>5 DEF Inv
<1>4. QED
  BY <1>2, <1>3

LEMMA InvStep ==
  ASSUME Inv, [Next]_vars
  PROVE  Inv'
<1>1. CASE Next
  BY <1>1, CompileStep, MigrateStep, WriteStep, SyncStep, RenameStep, StopStep,
     RenderStep, PowerStep DEF Next
<1>2. CASE UNCHANGED vars
  <2>1. UNCHANGED <<serial, file, disk, pc, out, rendered>>
    BY <1>2 DEF vars
  <2>2. QED
    BY <2>1 DEF Inv, Usable, Evolving, Writes, Serial, Artifacts
<1>3. QED
  BY <1>1, <1>2

(***************************************************************************)
(* Theorems.                                                               *)
(***************************************************************************)
\* The bundle file decodes and the compiler accepts every dataset in it, however
\* many commands overlap and wherever one fails, is killed or the power goes.
THEOREM BundleIsUsable == Spec => []BundleAlwaysUsable
<1>1. Inv => BundleAlwaysUsable
  BY DEF Inv, Usable, Evolving, BundleAlwaysUsable, Readable
<1>2. QED
  BY InitInv, InvStep, <1>1, PTL DEF Spec

\* Artifacts rendered at different times from the file of serial commands never
\* give one id to two fields or two ids to one field.
THEOREM RenderedArtifactsAgree == Spec => []ArtifactsAgree
<1>1. Inv => ArtifactsAgree
  <2> SUFFICES ASSUME Inv, NEW r \in rendered, NEW s \in rendered, r[1] = s[1]
               PROVE  r[2] = s[2] <=> r[3] = s[3]
    BY DEF ArtifactsAgree
  <2> DEFINE d == file.datasets[r[1]]
  <2>1. /\ r[1] \in DOMAIN file.datasets
        /\ r[2] \in Known(d) /\ r[3] = d.id[r[2]]
        /\ s[2] \in Known(d) /\ s[3] = d.id[s[2]]
    BY DEF Inv, Artifacts
  <2>2. \A i, j \in Known(d) : d.id[i] = d.id[j] => i = j
    BY <2>1 DEF Inv, Usable, Evolving, AcceptsPrevious
  <2> HIDE DEF d
  <2>3. QED
    BY <2>1, <2>2
<1>2. QED
  BY InitInv, InvStep, <1>1, PTL DEF Spec

\* A command that replaces the file keeps every dataset, and every identity in it
\* with its id, when commands do not overlap.
THEOREM HistoryIsKept == Spec => HistoryKept
<1> DEFINE Kept == serial => \A m \in DOMAIN file.datasets :
                      /\ m \in DOMAIN file'.datasets
                      /\ \A i \in Known(file.datasets[m]) :
                            /\ i \in Known(file'.datasets[m])
                            /\ file'.datasets[m].id[i] = file.datasets[m].id[i]
<1>1. ASSUME file' = file
      PROVE  Kept
  BY <1>1
<1>2. ASSUME Inv, [Next]_vars
      PROVE  Kept
  <2>1. \/ file' = file
        \/ \E p \in Process : Rename(p)
        \/ ~serial
    BY <1>2 DEF Next, vars, Compile, Migrate, Write, Sync, Stops, Render, Settles, PowerLoss
  <2>2. ASSUME NEW p \in Process, Rename(p)
        PROVE  Kept
    <3>1. serial => Keeps(file, file')
      BY <1>2, <2>2, RenameStep
    <3>2. QED
      BY <3>1 DEF Keeps
  <2>3. QED
    BY <1>1, <2>1, <2>2
<1>3. QED
  BY InitInv, InvStep, <1>2, PTL DEF Spec, HistoryKept
==============================================================================
