---------------------------- MODULE LakeSchemas ----------------------------
(***************************************************************************)
(* The Arrow, Parquet and Iceberg renderers: the type, nullability, ids,   *)
(* defaults and diagnostics of every node.  Names, metadata strings and    *)
(* the wording of diagnostics are left out.                                *)
(***************************************************************************)
EXTENDS LogicalSchema

CONSTANT MaxFieldID      \* largest id Iceberg leaves to users

Node(path, compatibility) == [path |-> path, compat |-> compatibility]
Optional(T) == [t |-> "Nullable", of |-> T]

\* A oneof is not enforced by these formats: a lossless member widens.
OneofWidens(f, compatibility) ==
  IF f.oneof # "" /\ compatibility = "LOSSLESS" THEN "RANGE_WIDENED" ELSE compatibility

ArrowPrimitive ==
  [double |-> "Float64", float |-> "Float32", int64 |-> "Int64", uint64 |-> "UInt64",
   int32 |-> "Int32", uint32 |-> "UInt32", bool |-> "Bool", string |-> "Utf8", bytes |-> "Binary"]

RECURSIVE arrowField(_, _)
arrowTypeOf(t, kids) ==
  LET is(T, compatibility) ==
        [ty |-> T, compat |-> compatibility, diags |-> FlattenSeq([i \in DOMAIN kids |-> kids[i].diags])]
  IN CASE t.kind \in DOMAIN ArrowPrimitive -> is([t |-> ArrowPrimitive[t.kind]], "LOSSLESS")
       [] t.kind = "enum" -> is([t |-> "Int32"], IF t.closed THEN "RANGE_WIDENED" ELSE "LOSSLESS")
       [] t.kind = "struct" ->
            is([t |-> "Tuple", elements |-> [i \in DOMAIN kids |-> <<t.fields[i].name, kids[i].ty>>]],
               "LOSSLESS")
       [] FixedList(t) -> is([t |-> "FixedArray", of |-> kids[1].ty, length |-> t.fixed], "LOSSLESS")
       [] t.kind = "list" -> is([t |-> "Array", of |-> kids[1].ty], "LOSSLESS")
       [] t.kind = "map" ->
            is([t |-> "Map", key |-> kids[1].ty, value |-> kids[2].ty], "LOSSLESS")
       [] t.kind = "timestamp" -> is([t |-> "NanoTime"], "RANGE_REDUCED")
       [] t.kind = "duration" -> is([t |-> "NanoDuration"], "RANGE_REDUCED")
       [] t.kind = "json" -> is([t |-> "Json"], "RANGE_REDUCED")
       [] t.kind = "decimal" ->
            is([t |-> "Decimal", precision |-> t.precision, scale |-> t.scale], "REPRESENTATION_CHANGED")
       [] t.kind = "uuid" -> is([t |-> "UUID"], "REPRESENTATION_CHANGED")
       [] t.kind = "fixed_bytes" -> is([t |-> "FixedString", width |-> t.width], "LOSSLESS")
arrowType(t, path) ==
  arrowTypeOf(t, [i \in DOMAIN Children(t) |->
                  arrowField(Children(t)[i][2], Append(path, Children(t)[i][1]))])

arrowField(f, path) ==
  LET mapped == arrowType(f.type, path)
  IN [ty |-> IF f.nullable THEN Optional(mapped.ty) ELSE mapped.ty,
      diags |-> <<Node(path, OneofWidens(f, mapped.compat))>> \o mapped.diags]

ArrowSchema(fields) == [i \in DOMAIN fields |-> arrowField(fields[i], <<fields[i].name>>)]

(***************************************************************************)
(* Parquet is written from the Arrow schema: the physical LIST shape of a  *)
(* fixed list has no length, and the renderer computes its own diagnostics.*)
(***************************************************************************)
RECURSIVE compatibleArrowField(_)
compatibleArrowField(T) ==
  CASE T.t = "Nullable" -> Optional(compatibleArrowField(T.of))
    [] T.t = "Tuple" ->
         [T EXCEPT !.elements = [i \in DOMAIN @ |-> <<@[i][1], compatibleArrowField(@[i][2])>>]]
    [] T.t \in {"Array", "FixedArray"} -> [t |-> "Array", of |-> compatibleArrowField(T.of)]
    [] T.t = "Map" -> [T EXCEPT !.key = compatibleArrowField(@), !.value = compatibleArrowField(@)]
    [] T.t = "NanoDuration" -> [t |-> "Int64"]
    [] OTHER -> T

ParquetCompat(t) ==
  CASE FixedList(t) \/ (t.kind = "enum" /\ t.closed) -> "RANGE_WIDENED"
    [] t.kind \in {"timestamp", "duration", "json"} -> "RANGE_REDUCED"
    [] t.kind \in {"decimal", "uuid"} -> "REPRESENTATION_CHANGED"
    [] OTHER -> "LOSSLESS"

RECURSIVE fieldDiagnostics(_, _)
fieldDiagnostics(f, path) ==
  <<Node(path, OneofWidens(f, ParquetCompat(f.type)))>> \o
  FlattenSeq([i \in DOMAIN Children(f.type) |->
    fieldDiagnostics(Children(f.type)[i][2], Append(path, Children(f.type)[i][1]))])

ParquetSchema(fields) ==
  [i \in DOMAIN fields |->
     [ty |-> compatibleArrowField(ArrowSchema(fields)[i].ty),
      diags |-> fieldDiagnostics(fields[i], <<fields[i].name>>)]]

(***************************************************************************)
(* Iceberg: every node carries its stable id, and a field its default for  *)
(* rows written before it existed.                                         *)
(***************************************************************************)
IcebergPrimitive ==
  [double |-> <<[t |-> "Float64"], "LOSSLESS">>, float |-> <<[t |-> "Float32"], "LOSSLESS">>,
   int64 |-> <<[t |-> "Int64"], "LOSSLESS">>, int32 |-> <<[t |-> "Int32"], "LOSSLESS">>,
   uint64 |-> <<[t |-> "Decimal", precision |-> Digits64, scale |-> 0], "RANGE_WIDENED">>,
   uint32 |-> <<[t |-> "Int64"], "RANGE_WIDENED">>, bool |-> <<[t |-> "Bool"], "LOSSLESS">>,
   string |-> <<[t |-> "Utf8"], "LOSSLESS">>, bytes |-> <<[t |-> "Binary"], "LOSSLESS">>]

NoDefault == <<"none">>

\* What has no default is refused: a required field, and a field whose presence does not
\* agree with its nullability, its type or its role.
NoSafeDefault(f) ==
  CASE f.presence = "IMPLICIT" -> f.nullable
    [] f.presence = "REPEATED" -> f.nullable \/ f.type.kind # "list"
    [] f.presence = "MAP" -> f.nullable \/ f.type.kind # "map"
    [] f.presence \in {"EXPLICIT", "ONEOF"} -> ~f.nullable
    [] f.presence = "NOT_APPLICABLE" -> f.role = "PROTO_FIELD"
    [] OTHER -> TRUE

fieldDefaults(f) ==
  LET t == f.type IN
  CASE NoSafeDefault(f) -> <<"refused">>
    [] f.presence = "IMPLICIT" ->
         (CASE t.kind = "enum" -> IF t.values = <<>> THEN <<"refused">> ELSE <<"i", t.values[1]>>
            [] t.kind = "uint64" -> <<"d", 0>>
            [] t.kind \in {"double", "float"} -> <<"r", 0>>
            [] t.kind \in {"int64", "int32", "uint32"} -> <<"i", 0>>
            [] t.kind = "bool" -> <<"o", FALSE>>
            [] t.kind \in {"string", "bytes"} -> <<"s", <<>>>>
            [] OTHER -> <<"refused">>)
    [] f.presence = "REPEATED" /\ ~FixedList(t) -> <<"L", <<>>>>
    [] f.presence = "MAP" -> <<"P", <<>>>>
    [] OTHER -> NoDefault

RECURSIVE icebergField(_, _)
icebergTypeOf(t, kids) ==
  LET is(T, compatibility) ==
        [ty |-> T, compat |-> compatibility,
         ok |-> \A i \in DOMAIN kids : kids[i].ok,
         diags |-> FlattenSeq([i \in DOMAIN kids |-> kids[i].diags]),
         ids |-> FlattenSeq([i \in DOMAIN kids |-> kids[i].ids])]
  IN CASE t.kind \in DOMAIN IcebergPrimitive -> is(IcebergPrimitive[t.kind][1], IcebergPrimitive[t.kind][2])
       [] t.kind = "enum" -> is([t |-> "Int32"], IF t.closed THEN "RANGE_WIDENED" ELSE "LOSSLESS")
       [] t.kind = "struct" ->
            is([t |-> "Tuple", elements |-> [i \in DOMAIN kids |-> <<t.fields[i].name, kids[i].ty>>]],
               "LOSSLESS")
       [] t.kind = "list" ->
            is([t |-> "Array", of |-> kids[1].ty], IF FixedList(t) THEN "RANGE_WIDENED" ELSE "LOSSLESS")
       [] t.kind = "map" ->
            is([t |-> "Map", key |-> kids[1].ty, value |-> kids[2].ty], "LOSSLESS")
       [] t.kind = "timestamp" -> is([t |-> "TimestampTzNs"], "RANGE_REDUCED")
       [] t.kind = "duration" -> is([t |-> "Int64"], "RANGE_REDUCED")
       [] t.kind = "json" -> is([t |-> "Utf8"], "RANGE_REDUCED")
       [] t.kind = "decimal" ->
            is([t |-> "Decimal", precision |-> t.precision, scale |-> t.scale], "REPRESENTATION_CHANGED")
       [] t.kind = "uuid" -> is([t |-> "UUID"], "REPRESENTATION_CHANGED")
       [] t.kind = "fixed_bytes" -> is([t |-> "FixedString", width |-> t.width], "LOSSLESS")
icebergType(t, path) ==
  icebergTypeOf(t, [i \in DOMAIN Children(t) |->
                  icebergField(Children(t)[i][2], Append(path, Children(t)[i][1]))])

icebergField(f, path) ==
  LET mapped == icebergType(f.type, path)
      required == ~f.nullable /\ ~FixedList(f.type)
  IN [ok |-> mapped.ok /\ fieldDefaults(f) # <<"refused">>,
      ty |-> IF required THEN mapped.ty ELSE Optional(mapped.ty),
      diags |-> <<Node(path, OneofWidens(f, mapped.compat))>> \o mapped.diags,
      ids |-> <<[id |-> f.id, ty |-> mapped.ty]>> \o mapped.ids]

RECURSIVE StableIds(_)
StableIds(fields) ==
  FlattenSeq([i \in DOMAIN fields |-> <<fields[i].id>> \o
    StableIds([k \in DOMAIN Children(fields[i].type) |-> Children(fields[i].type)[k][2]])])

validateFieldIDs(fields, retired) ==
  LET ids == StableIds(fields) \o retired
  IN /\ \A i \in DOMAIN ids : ids[i] \in 1..MaxFieldID
     /\ \A i, k \in DOMAIN ids : ids[i] = ids[k] => i = k

icebergSchemaOf(fields, retired, mapped) ==
  [ok |-> validateFieldIDs(fields, retired) /\ \A i \in DOMAIN mapped : mapped[i].ok,
   fields |-> mapped,
   ids |-> FlattenSeq([i \in DOMAIN mapped |-> mapped[i].ids])]
IcebergSchema(fields, retired) ==
  icebergSchemaOf(fields, retired,
                  [i \in DOMAIN fields |-> icebergField(fields[i], <<fields[i].name>>)])

FindFieldByID(schema, id) == SelectInSeq(schema.ids, LAMBDA e : e.id = id)
=============================================================================
