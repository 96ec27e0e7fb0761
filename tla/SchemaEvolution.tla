---------------------------- MODULE SchemaEvolution ----------------------------
(***************************************************************************)
(* One compilation of one dataset: what datasetCompiler in                 *)
(* go/data/compiler.go computes from a protobuf message descriptor and the *)
(* schema of the previous compilation, and what it refuses.                *)
(*                                                                         *)
(* A compiler identity is a path of protobuf field numbers and synthetic   *)
(* segments (list element, map key, map value) from the dataset's root     *)
(* message; here it is a member of Identity with a parent.  The compiler   *)
(* visits identities in a fixed order (field numbers ascending, a field    *)
(* before what is inside it), given by Visit.                              *)
(***************************************************************************)
EXTENDS Integers, FiniteSets

CONSTANTS
    Identity,       \* compiler identities
    Root,           \* the dataset's root message (identity "")
    Parent,         \* parentCompilerIdentity
    Role,           \* "field", "element", "key" or "value" (compilerIdentityRole)
    Visit,          \* position of an identity in the compiler's traversal
    Number,         \* protobuf number of a field identity
    Name,           \* protobuf field names
    NoName,         \* storage_name_source of a synthetic identity
    Storage,        \* storageName, which maps several names to one
    Base,           \* presence, oneof, default, type: all that may not change
    KindOf,         \* of a Base: "value", "struct", "list" or "map"
    Refinement,     \* of a Base with a field option: what it refines (dataFieldOptions)
    EnumValue,      \* name and number of an enum value
    NoShape,        \* a retired field has no type
    Descriptors,    \* the message descriptors users compile
    MaxStableId     \* maxStableID

ProtoField == {i \in Identity : Role[i] = "field"}
Top == {i \in ProtoField : Parent[i] = Root}
Shape == [base : Base, values : SUBSET EnumValue]
SameScope(i, j) == i # j /\ Parent[i] = Parent[j]

(***************************************************************************)
(* A message descriptor: the identities it reaches, their names and        *)
(* shapes, and what each message in it reserves.  `reservedNumber' holds   *)
(* the field identities whose number their containing message reserves.    *)
(***************************************************************************)
Descriptor ==
    [fields : SUBSET Identity,
     name : [Identity -> Name \cup {NoName}],
     shape : [Identity -> Shape \cup {NoShape}],
     reservedName : [Identity \cup {Root} -> SUBSET Name],
     reservedNumber : SUBSET ProtoField]

\* The compiler descends into structs, list elements, map keys and map values
\* and into nothing else.
Reaches(d) ==
    \A i \in d.fields :
        /\ d.shape[i] \in Shape
        /\ i \in Top \/ (Parent[i] \in d.fields /\
             LET kind == KindOf[d.shape[Parent[i]].base] IN
             \/ kind = "struct" /\ Role[i] = "field"
             \/ kind = "list" /\ Role[i] = "element"
             \/ kind = "map" /\ Role[i] \in {"key", "value"})
        /\ \A j \in Identity \ ProtoField : Parent[j] = i =>
             (j \in d.fields <=>
                 \/ KindOf[d.shape[i].base] = "list" /\ Role[j] = "element"
                 \/ KindOf[d.shape[i].base] = "map" /\ Role[j] \in {"key", "value"})

\* What protobuf guarantees of a descriptor: names are unique in a message, and
\* its fields use neither a name nor a number that it reserves.
ProtobufAccepts(d) ==
    /\ \A i \in d.fields : d.name[i] \in (IF i \in ProtoField THEN Name ELSE {NoName})
    /\ \A i, j \in d.fields \cap ProtoField : SameScope(i, j) => d.name[i] # d.name[j]
    /\ \A i \in d.fields \cap ProtoField : d.name[i] \notin d.reservedName[Parent[i]]
    /\ d.reservedNumber \cap d.fields = {}

ASSUME SchemaAssumption ==
    /\ IsFiniteSet(Identity)
    /\ Root \notin Identity
    /\ Parent \in [Identity -> Identity \cup {Root}]
    /\ Role \in [Identity -> {"field", "element", "key", "value"}]
    /\ Visit \in [Identity -> Nat]
    /\ \A i, j \in Identity : Visit[i] = Visit[j] => i = j
    /\ Number \in [ProtoField -> Nat \ {0}]
    /\ \A i, j \in ProtoField : SameScope(i, j) => Number[i] # Number[j]
    /\ NoName \notin Name
    /\ NoShape \notin Shape
    /\ DOMAIN Refinement \subseteq Base
    /\ MaxStableId \in Nat
    /\ \A d \in Descriptors : d \in Descriptor /\ Reaches(d) /\ ProtobufAccepts(d)

(***************************************************************************)
(* A committed DatasetSchema.  `name' is the last component of             *)
(* proto_full_name and `source' the storage_name_source; a retired field   *)
(* keeps both and its stable id.                                           *)
(***************************************************************************)
Dataset ==
    [active : SUBSET Identity, retired : SUBSET Identity,
     id : [Identity -> Nat], lastId : Nat,
     name : [Identity -> Name \cup {NoName}],
     source : [Identity -> Name \cup {NoName}],
     shape : [Identity -> Shape \cup {NoShape}]]

NoDataset ==
    [active |-> {}, retired |-> {}, id |-> [i \in Identity |-> 0], lastId |-> 0,
     name |-> [i \in Identity |-> NoName], source |-> [i \in Identity |-> NoName],
     shape |-> [i \in Identity |-> NoShape]]

Known(s) == s.active \cup s.retired

(***************************************************************************)
(* What a compilation of d with the previous schema prev computes; `nil'   *)
(* says that there is no previous schema.                                  *)
(***************************************************************************)
\* Mutant: nested identities are numbered again on every compilation.
FreshNested(nil, prev, d) == d.fields \ (IF nil THEN Top ELSE prev.active \cap Top)

\* The identities allocate has to number: on the first compilation, top-level
\* fields are numbered by protobuf; later, an active identity keeps its id.
Fresh(nil, prev, d) == d.fields \ (IF nil THEN Top ELSE prev.active)

Rank(S, i) == Cardinality({j \in S : Visit[j] <= Visit[i]})

\* c.lastID before the traversal: the highest top-level number, or the last id
\* of the previous schema.
LastIdBefore(nil, prev, d) ==
    IF nil
    THEN {n \in {0} \cup {Number[i] : i \in d.fields \cap Top} :
              \A i \in d.fields \cap Top : Number[i] <= n}
    ELSE {prev.lastId}

\* allocate, over the whole traversal.
Allocate(nil, prev, d, last) ==
    LET fresh == Fresh(nil, prev, d) IN
    [i \in Identity |->
        CASE i \in fresh -> last + Rank(fresh, i)
          [] i \notin fresh /\ i \in d.fields /\ nil -> Number[i]
          [] OTHER -> prev.id[i]]

\* Mutant: a renamed field gets a new storage name.
SourceFollowsRename(prev, d, i) == d.name[i]

\* The storage_name_source of a field: a known field keeps its own.
SourceOf(prev, d, i) == IF i \in prev.active THEN prev.source[i] ELSE d.name[i]

Result(nil, prev, d, last) ==
    [active |-> d.fields,
     retired |-> prev.retired \cup (prev.active \ d.fields),
     id |-> Allocate(nil, prev, d, last),
     lastId |-> last + Cardinality(Fresh(nil, prev, d)),
     name |-> [i \in Identity |-> IF i \in d.fields THEN d.name[i] ELSE prev.name[i]],
     source |-> [i \in Identity |->
                    IF i \in d.fields THEN SourceOf(prev, d, i) ELSE prev.source[i]],
     shape |-> [i \in Identity |-> IF i \in d.fields THEN d.shape[i] ELSE NoShape]]

(***************************************************************************)
(* The checks of a compilation.                                            *)
(***************************************************************************)
\* newDatasetCompiler and indexPreviousField: the previous schema is one this
\* compiler can have written.
AcceptsPrevious(prev) ==
    /\ prev.lastId \in 0..MaxStableId
    /\ prev.active \cap prev.retired = {}
    /\ \A i \in Known(prev) : prev.id[i] \in 1..MaxStableId
    /\ \A i, j \in Known(prev) : prev.id[i] = prev.id[j] => i = j
    /\ \A i \in Known(prev) \cap ProtoField : Storage[prev.source[i]] # ""
    /\ \A i, j \in Known(prev) \cap ProtoField :
           SameScope(i, j) => Storage[prev.source[i]] # Storage[prev.source[j]]
    /\ prev.lastId \in {0} \cup {prev.id[i] : i \in Known(prev)}
    /\ \A i \in Known(prev) : prev.id[i] <= prev.lastId

\* allocate: a retired identity never comes back, and ids do not run out.
IdsAvailable(nil, prev, d, last) ==
    /\ d.fields \cap prev.retired = {}
    /\ last + Cardinality(Fresh(nil, prev, d)) <= MaxStableId

\* storageFieldName: a rename reserves the previous name, and the name that the
\* storage name comes from stays reserved.
RenamesReserved(prev, d) ==
    \A i \in d.fields \cap prev.active \cap ProtoField :
        {prev.name[i], prev.source[i]} \subseteq {d.name[i]} \cup d.reservedName[Parent[i]]

\* Mutant: only the storage names of active fields are taken.
NamesNotActive(prev, d) ==
    \A i \in d.fields \cap ProtoField, j \in prev.active \cap ProtoField :
        SameScope(i, j) => Storage[SourceOf(prev, d, i)] # Storage[prev.source[j]]

\* storageFieldName: no storage name of the scope's past goes to a new owner.
NamesUnowned(prev, d) ==
    \A i \in d.fields \cap ProtoField, j \in Known(prev) \cap ProtoField :
        SameScope(i, j) => Storage[SourceOf(prev, d, i)] # Storage[prev.source[j]]

\* validateStorageNameCollisions
NamesDistinct(prev, d) ==
    \A i \in d.fields \cap ProtoField :
        /\ Storage[SourceOf(prev, d, i)] # ""
        /\ \A j \in d.fields \cap ProtoField :
              SameScope(i, j) => Storage[SourceOf(prev, d, i)] # Storage[SourceOf(prev, d, j)]

\* validateEvolution, sameLogicalShape, compatibleEnumEvolution
ShapesEvolve(prev, d) ==
    \A i \in d.fields \cap prev.active :
        /\ prev.shape[i].base = d.shape[i].base
        /\ prev.shape[i].values \subseteq d.shape[i].values

\* validateRetiredReservation, for every retired field whose container the
\* descriptor still reaches.
RetiredReserved(prev, d) ==
    \A i \in (Known(prev) \ d.fields) \cap ProtoField :
        Parent[i] \in d.fields \cup {Root} =>
            /\ i \in d.reservedNumber
            /\ {prev.name[i], prev.source[i]} \subseteq d.reservedName[Parent[i]]

\* compileProtoField and compileRefinedValueType: a fixed list is a repeated float or
\* double with an admissible length and nothing else; any other option has a semantic
\* type that its carrier and parameters fit; a refined singular field has presence and
\* no default; a map takes no option.
RefinementFits(r) ==
    /\ r.container # "map"
    /\ r.container = "singular" => r.presence /\ ~r.default
    /\ IF r.fixedList THEN r.container = "list" /\ ~r.semantic /\ r.floating /\ r.inRange
       ELSE r.semantic /\ r.carrier /\ r.inRange

RefinementsFit(d) ==
    \A i \in d.fields :
        d.shape[i].base \in DOMAIN Refinement => RefinementFits(Refinement[d.shape[i].base])

Accepts(nil, prev, d, last) ==
    /\ RefinementsFit(d)
    /\ IdsAvailable(nil, prev, d, last)
    /\ RenamesReserved(prev, d)
    /\ NamesUnowned(prev, d)
    /\ NamesDistinct(prev, d)
    /\ ShapesEvolve(prev, d)
    /\ RetiredReserved(prev, d)
    /\ AcceptsPrevious(prev)
================================================================================
