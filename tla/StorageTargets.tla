--------------------------- MODULE StorageTargets ---------------------------
(***************************************************************************)
(* One dataset, rendered for one storage target; then a row offered to the *)
(* database that holds the rendered table, with any of its columns left    *)
(* out, or a protobuf message stored by the documented conventions; then,  *)
(* from ClickHouse, the row published to Iceberg by the emitted plan.      *)
(***************************************************************************)
EXTENDS SqlTables, ClickHouseTables

CONSTANTS Datasets        \* the compiled datasets of the instance

VARIABLES
  ds,         \* the dataset: its fields and the ids of its retired fields
  target,     \* the storage target
  table,      \* what the renderer returned
  row,        \* values offered to the columns, in column order
  sent,       \* the message stored, <<m>>, or <<>> when the row was free
  stored,     \* the row as the database completed it
  accepted,   \* the database's answer
  published,  \* the row in Iceberg
  pc
vars == <<ds, target, table, row, sent, stored, accepted, published, pc>>

Omitted == <<"omitted">>
Refused == [ok |-> FALSE]
Databases == {"sqlite", "postgres", "clickhouse"}
Lakes == {"arrow", "parquet", "iceberg"}
Fields == ds.fields

AllDiags(mapped) == FlattenSeq([i \in DOMAIN mapped |-> mapped[i].diags])

LakeTable(fields) == [ok |-> TRUE, fields |-> fields, diags |-> AllDiags(fields)]

Rendered(t) ==
  CASE t = "sqlite" -> IF SqliteRefuses(Fields) THEN Refused
                       ELSE [ok |-> TRUE, diags |-> SqliteDiagnostics(Fields)]
    [] t = "postgres" -> IF PostgresRefuses(Fields) THEN Refused
                         ELSE [ok |-> TRUE, diags |-> PostgresDiagnostics(Fields)]
    [] t = "clickhouse" -> ClickHouseSchema(Fields)
    [] t = "arrow" -> LakeTable(ArrowSchema(Fields))
    [] t = "parquet" -> LakeTable(ParquetSchema(Fields))
    [] t = "iceberg" -> LET schema == IcebergSchema(Fields, ds.retired)
                        IN IF ~schema.ok THEN Refused ELSE LakeTable(schema.fields)

\* The rows that may be offered: a value of each column's domain, or nothing.
RECURSIVE RowsOf(_)
RowsOf(sets) ==
  IF sets = <<>> THEN {<<>>} ELSE {<<v>> \o r : v \in Head(sets), r \in RowsOf(Tail(sets))}
Inputs ==
  CASE target = "sqlite" -> [i \in DOMAIN Fields |-> SqliteInputs(Fields[i])]
    [] target = "postgres" -> [i \in DOMAIN Fields |-> PostgresInputs(Fields[i])]
    [] target = "clickhouse" -> [i \in DOMAIN table.decls |-> Domain(table.decls[i].ty)]
Rows == RowsOf([i \in DOMAIN Inputs |-> Inputs[i] \cup {Omitted}])

Completed(r) ==
  CASE target = "sqlite" -> SqliteStored(Fields, r)
    [] target = "postgres" -> PostgresStored(Fields, r)
    [] target = "clickhouse" -> ClickHouseStored(table, r)
Accepts(s) ==
  CASE target = "sqlite" -> SqliteAccepts(Fields, s)
    [] target = "postgres" -> PostgresAccepts(Fields, s)
    [] target = "clickhouse" -> ClickHouseAccepts(table, s)

\* The logical row a reader finds in a stored one.
Read(s) ==
  IF target = "clickhouse" THEN ScopeMeaning(Fields, s)
  ELSE [n \in {Fields[i].name : i \in DOMAIN Fields} |->
          LET i == SelectInSeq(Fields, LAMBDA f : f.name = n)
          IN CASE target = "sqlite" -> SqliteMeaning(Fields[i].type, s[i])
               [] target = "postgres" -> PostgresMeaning(Fields[i].type, s[i])]

(***************************************************************************)
(* The documented conventions by which a writer stores a message.          *)
(***************************************************************************)
RECURSIVE ClickHouseEncode(_, _)
EncodedIn(fields, m, name) ==
  IF \E i \in DOMAIN fields : fields[i].name = name
  THEN LET f == fields[SelectInSeq(fields, LAMBDA x : x.name = name)]
           v == m[name]
           T == mapField(f, <<>>).ty
           bit(b, x) == <<"S", ("present" :> <<"o", b>>) @@ ("value" :> x)>>
       IN CASE f.presence \in {"IMPLICIT", "REPEATED", "MAP"} -> ClickHouseEncode(f.type, v)
            [] T.t = "Nullable" -> IF v = Null THEN Null ELSE ClickHouseEncode(f.type, v)
            [] v = Null -> TypeDefault(T)
            [] OTHER -> bit(TRUE, ClickHouseEncode(f.type, v))
  ELSE LET set == {i \in DOMAIN fields : oneofCaseName(fields[i].oneof) = name /\ m[fields[i].name] # Null}
       IN <<"i", IF set = {} THEN 0 ELSE fields[CHOOSE i \in set : TRUE].number>>
ClickHouseEncode(t, v) ==
  CASE t.kind \in {"uint32", "uint64"} -> <<"u", v[2]>>
    [] t.kind = "timestamp" -> <<"dt", v[2]>>
    [] t.kind = "decimal" -> <<"d", CHOOSE n \in DecimalRange(t.precision) : DecimalText(n, t.scale) = v[2]>>
    [] t.kind = "uuid" -> <<"uu", v[2]>>
    [] t.kind \in {"string", "bytes", "json"} -> <<"s", v[2]>>
    [] t.kind = "struct" /\ t.fields # <<>> ->
         LET names == mapScope(t.fields, <<>>, FALSE).decls
         IN <<"S", [n \in {names[i].name : i \in DOMAIN names} |-> EncodedIn(t.fields, v[2], n)]>>
    [] t.kind = "struct" /\ t.fields = <<>> -> TypeDefault(mapType(t, <<>>).ty)
    [] t.kind = "list" -> <<"L", [i \in DOMAIN v[2] |-> ClickHouseEncode(t.element.type, v[2][i])]>>
    [] t.kind = "map" ->
         LET keys == SetToSeq(DOMAIN v[2])
         IN <<"P", [i \in DOMAIN keys |-> <<ClickHouseEncode(t.key.type, keys[i]),
                                            ClickHouseEncode(t.value.type, v[2][keys[i]])>>]>>
    [] OTHER -> v

SqlEncode(t, v) ==
  CASE v = Null -> Null
    [] t.kind \in {"struct", "list", "map"} -> <<"j", v>>
    [] target = "sqlite" /\ t.kind = "bool" -> <<"i", IF v[2] THEN 1 ELSE 0>>
    [] target = "sqlite" /\ t.kind = "uint64" -> <<"t", Integral(v[2])>>
    [] target = "sqlite" /\ t.kind = "timestamp" -> <<"i", v[2] \div NanosPerMicro>>
    [] target = "sqlite" /\ t.kind = "json" -> <<"t", v[2]>>
    [] target = "postgres" /\ t.kind = "uint64" -> <<"d", v[2]>>
    [] target = "postgres" /\ t.kind = "json" -> v
    [] target = "postgres" /\ t.kind \in {"bytes", "fixed_bytes"} -> <<"b", v[2]>>
    [] target = "postgres" -> ClickHouseEncode(IF t.kind = "uint32" THEN [kind |-> "int32"] ELSE t, v)
    [] OTHER -> v

Encoded(m) ==
  IF target = "clickhouse"
  THEN [i \in DOMAIN table.decls |->
          IF Fields = <<>> THEN <<"o", FALSE>> ELSE EncodedIn(Fields, m, table.decls[i].name)]
  ELSE [i \in DOMAIN Fields |-> SqlEncode(Fields[i].type, m[Fields[i].name])]
Holds(r) == target = "sqlite" \/ \A i \in DOMAIN r : r[i] \in Inputs[i]

(***************************************************************************)
(* Steps.                                                                  *)
(***************************************************************************)
Init ==
  /\ ds \in Datasets
  /\ target = "" /\ table = Refused /\ row = <<>> /\ sent = <<>> /\ stored = <<>>
  /\ accepted = FALSE /\ published = Refused /\ pc = "load"

Render ==
  /\ pc = "load"
  /\ \E t \in Databases \cup Lakes : target' = t /\ table' = Rendered(t)
  /\ pc' = "rendered"
  /\ UNCHANGED <<ds, row, sent, stored, accepted, published>>

Offer(r, fits) ==
  /\ row' = r /\ stored' = Completed(r)
  /\ accepted' = (fits /\ Accepts(Completed(r)))
  /\ pc' = "inserted"
  /\ UNCHANGED <<ds, target, table, published>>

Insert ==
  /\ pc = "rendered" /\ target \in Databases /\ table.ok
  /\ \E r \in Rows : Offer(r, TRUE)
  /\ UNCHANGED sent

\* The writer has to encode the message first.
Store ==
  /\ pc = "rendered" /\ target \in Databases /\ table.ok
  /\ \E m \in {x \in Messages(Fields) : Encodable(x)} : sent' = <<m>> /\ Offer(Encoded(m), Holds(Encoded(m)))

PublishRow ==
  /\ pc = "inserted" /\ accepted /\ target = "clickhouse"
  /\ \E plan \in {ProjectToIceberg(Fields, ds.retired)} :
        published' = IF plan.ok THEN [ok |-> TRUE, row |-> PublishScope(plan.plan, stored), plan |-> plan.plan]
                     ELSE Refused
  /\ pc' = "published"
  /\ UNCHANGED <<ds, target, table, row, sent, stored, accepted>>

Next == Render \/ Insert \/ Store \/ PublishRow
Spec == Init /\ [][Next]_vars

(***************************************************************************)
(* Properties.                                                             *)
(***************************************************************************)
Compats == {table.diags[i].compat : i \in DOMAIN table.diags}
Reduced == Compats \cap {"RANGE_REDUCED", "PRECISION_REDUCED"} # {}

\* The logical rows a target can hold.  A Parquet file without columns keeps no rows.
Admitted ==
  IF target = "parquet" /\ Fields = <<>> THEN {}
  ELSE IF target \in Databases
  THEN {Read(Completed(r)) : r \in {x \in RowsOf(Inputs) : Accepts(Completed(x))}}
  ELSE LET values == [i \in DOMAIN Fields |-> {Meaning(Fields[i].type, v) : v \in Domain(table.fields[i].ty)}]
       IN {[n \in {Fields[i].name : i \in DOMAIN Fields} |-> r[SelectInSeq(Fields, LAMBDA f : f.name = n)]] :
             r \in RowsOf(values)}

\* Every renderer returns one diagnostic for every logical node, in the order
\* of the fields, and never hides a loss: a message of the dataset the target
\* cannot hold is announced as a reduced range or precision, and a row the
\* target admits that is no message is announced as something other than
\* lossless.  So every lossless column has exactly the values of its field.
\* Three losses have no such announcement.  SQLite says only in the wording of
\* a RANGE_WIDENED diagnostic that the numbers of dynamic JSON must be finite.
\* The pairs of an Arrow, Parquet or Iceberg map may repeat a key, though the
\* map is LOSSLESS (see UnenforcedReported).  A dataset without fields has no
\* node whose diagnostic could say that Parquet keeps none of its rows.
NoSilentLoss ==
  pc = "rendered" /\ table.ok =>
    LET admitted == {a \in Admitted : target \in Lakes => ~RepeatsKey(a)}
        messages == {m \in Messages(Fields) : target = "sqlite" => Encodable(m)}
    IN
    /\ [i \in DOMAIN table.diags |-> table.diags[i].path] = Nodes(Fields)
    /\ ~Reduced /\ ~(target = "parquet" /\ Fields = <<>>) => messages \subseteq admitted
    /\ Compats \subseteq {"LOSSLESS"} => admitted \subseteq messages

\* What docs/data-schemas.md says of the diagnostics: they "also cover
\* constraints that a target type does not enforce".  A target whose every
\* diagnostic is LOSSLESS admits nothing but messages.
UnenforcedReported ==
  pc = "rendered" /\ table.ok /\ Compats \subseteq {"LOSSLESS"} => Admitted \subseteq Messages(Fields)

\* What the emitted constraints let in is a message.  For ClickHouse that is
\* the whole row, checked at every depth: valid text, declared enum numbers,
\* distinct map keys, list lengths, required fields and oneofs whose case
\* agrees with the one member present; a dynamic JSON column holds any
\* document.  For the SQL databases, whose nested
\* values are JSON, it is every column that is announced as exact, and the
\* presence and oneofs of the row.
AcceptedRowsAreMessages ==
  pc = "inserted" /\ accepted =>
    LET read == Read(stored)
        exact(i) == IF target = "sqlite"
                    THEN SqliteType(Fields[i].type)[2] \in {"LOSSLESS", "REPRESENTATION_CHANGED"}
                    ELSE PostgresType(Fields[i].type)[2] = "LOSSLESS"
        anyDocument(f) == IF f.type.kind = "json" THEN [f EXCEPT !.type.json = "value"] ELSE f
    IN IF target = "clickhouse" THEN read \in Messages([i \in DOMAIN Fields |-> anyDocument(Fields[i])])
       ELSE /\ OneofsHold(Fields, read)
            /\ \A i \in DOMAIN Fields :
                 LET v == read[Fields[i].name] IN
                 IF v = Null THEN Fields[i].nullable ELSE exact(i) => v \in Values(Fields[i].type)

\* A column nobody wrote reads as protobuf reads an absent field, or the row
\* is refused: an omitted required field or fixed list is never invented.  The
\* same holds of rows written to Iceberg before the field existed, except that
\* a fixed list then reads as null.
OmissionIsAbsence ==
  /\ pc = "inserted" /\ accepted =>
       \A i \in DOMAIN Fields :
         LET column == IF target # "clickhouse" THEN i
                       ELSE SelectInSeq(table.decls, LAMBDA d : d.name = Fields[i].name)
         IN row[column] = Omitted => Read(stored)[Fields[i].name] \in Absence(Fields[i])
  /\ pc = "rendered" /\ target = "iceberg" /\ table.ok =>
       \A i \in DOMAIN Fields :
         LET default == fieldDefaults(Fields[i]) IN
         IF default = NoDefault THEN table.fields[i].ty.t = "Nullable"
         ELSE Meaning(Fields[i].type, default) \in Absence(Fields[i])

\* A message stored by the documented conventions is accepted and read back,
\* unless a diagnostic announces a reduction; and published to Iceberg by the
\* plan it arrives as the same message, every value of the type its own stable
\* id has in the Iceberg schema.
MessageSurvives ==
  /\ pc = "inserted" /\ sent # <<>> /\ ~Reduced => accepted /\ Read(stored) = sent[1]
  /\ pc = "published" /\ published.ok =>
       \A i \in DOMAIN Fields :
         LET v == published.row[Fields[i].name]
             mapped == icebergField(Fields[i], <<Fields[i].name>>)
         IN /\ v \in Domain(mapped.ty)
            /\ published.plan[i].iceberg = icebergType(Fields[i].type, <<>>).ty
            /\ sent # <<>> => Meaning(Fields[i].type, v) = sent[1][Fields[i].name]
=============================================================================
