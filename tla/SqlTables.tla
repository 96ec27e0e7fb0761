----------------------------- MODULE SqlTables -----------------------------
(***************************************************************************)
(* The SQLite and PostgreSQL renderers: the column type, NOT NULL, DEFAULT *)
(* and CHECK clauses and the diagnostic of every field, and which rows the *)
(* database then lets in.  An emitted CHECK is modelled by the predicate   *)
(* it is on a stored value; quoting and comments are left out.             *)
(***************************************************************************)
EXTENDS LogicalSchema

CONSTANTS
  Fold(_),        \* asciiLower on the names of the instance
  TextInputs      \* texts offered to TEXT columns that hold a number, a decimal or a UUID

Diag(path, compatibility) == [path |-> path, compat |-> compatibility]

(***************************************************************************)
(* SQLite as the renderer uses it: storage classes, the conversion a       *)
(* column's affinity makes before its CHECK runs, and the text functions,  *)
(* of which length and GLOB stop at an embedded NUL.                       *)
(***************************************************************************)
typeof(v) ==
  CASE v[1] = "i" -> "integer" [] v[1] = "r" -> "real" [] v[1] = "b" -> "blob"
    [] v[1] \in {"t", "j"} -> "text"

\* The integers a text may spell, those beyond 64 signed bits among them.
Spelled == -(2^Bits64) .. 2^Bits64
IntegerTexts == [w \in {Integral(n) : n \in Spelled} |-> CHOOSE n \in Spelled : Integral(n) = w]

Affinity(type, v) ==
  CASE v = <<"nan">> -> Null
    [] type = "TEXT" /\ v[1] = "i" -> <<"t", Integral(v[2])>>
    [] type = "TEXT" /\ v[1] = "r" -> <<"t", DecimalText(5 * v[2], 1)>>
    [] type \in {"INTEGER", "REAL"} /\ v[1] = "t" /\ v[2] \in DOMAIN IntegerTexts ->
         IF type = "INTEGER" /\ IntegerTexts[v[2]] \in Signed(Bits64) THEN <<"i", IntegerTexts[v[2]]>>
         ELSE <<"r", 2 * IntegerTexts[v[2]]>>
    [] type = "INTEGER" /\ v[1] = "r" /\ v[2] % 2 = 0 -> <<"i", v[2] \div 2>>
    [] type = "REAL" /\ v[1] = "i" -> <<"r", 2 * v[2]>>
    [] OTHER -> v

BeforeNUL(w) == IF NUL \in ToSet(w) THEN SubSeq(w, 1, SelectInSeq(w, LAMBDA c : c = NUL) - 1) ELSE w
length(w) == Len(BeforeNUL(w))
HasNUL(w) == NUL \in ToSet(w)
OnlyDigits(w) == ToSet(BeforeNUL(w)) \subseteq ToSet(Digit)
\* substr(w, start, count): a negative start counts from the end, and the
\* part of the range before the first character is dropped.
substr(w, start, count) ==
  LET first == IF start < 0 THEN Len(w) + start + 1 ELSE start
  IN SubSeq(w, IF first < 1 THEN 1 ELSE first, IF first + count - 1 > Len(w) THEN Len(w) ELSE first + count - 1)
\* Texts of one length compared character by character.
NotAfter(w, x) ==
  \A i \in 1..Len(w) : (\A k \in 1..(i - 1) : w[k] = x[k])
     => SelectInSeq(Digit, LAMBDA c : c = w[i]) <= SelectInSeq(Digit, LAMBDA c : c = x[i])
JsonShape(v) ==
  CASE v[1] = "j" -> (IF v[2][1] = "L" THEN "array" ELSE "object")
    [] v = <<"t", <<"{}">>>> -> "object"
    [] v = <<"t", <<"[]">>>> -> "array"
    [] v = <<"t", <<"null">>>> -> "null"
    [] v = <<"t", <<"1">>>> -> "number"
    [] OTHER -> "invalid"

unsignedText(w) ==
  /\ length(w) > 0
  /\ ~HasNUL(w)
  /\ OnlyDigits(w)
  /\ w = <<"0">> \/ w[1] # "0"

\* The CHECK of a decimal column.
decimalCheck(w, precision, scale) ==
  LET magnitude == IF substr(w, 1, 1) = <<"-">> THEN substr(w, 2, Len(w)) ELSE w
      whole == IF scale = 0 THEN magnitude ELSE substr(magnitude, 1, Len(magnitude) - (scale + 1))
      fraction == substr(magnitude, -scale, scale)
  IN /\ ~HasNUL(w)
     /\ scale > 0 => /\ substr(magnitude, -(scale + 1), 1) = <<".">>
                     /\ Len(fraction) = scale
                     /\ OnlyDigits(fraction)
     /\ unsignedText(whole)
     /\ IF precision = scale THEN whole = <<"0">> ELSE Len(whole) <= precision - scale
     /\ w # <<"-">> \o DecimalText(0, scale)

uuidCheck(w) ==
  LET hex == SelectSeq(w, LAMBDA c : c # "-")
  IN /\ length(w) = UuidLength
     /\ ~HasNUL(w)
     /\ \A i \in UuidHyphens : w[i] = "-"
     /\ Len(hex) = UuidLength - Cardinality(UuidHyphens)
     /\ ToSet(hex) \subseteq ToSet(Digit) \cup {"a"}

Between(v, low, high) == typeof(v) = "integer" /\ v[2] \in low..high
In32(v) == Between(v, -(2^(Bits32 - 1)), 2^(Bits32 - 1) - 1)

(***************************************************************************)
(* sqlite.mapping: the storage class, the diagnostic and the CHECK of one  *)
(* logical type.                                                           *)
(***************************************************************************)
SqliteType(t) ==
  CASE t.kind \in {"double", "float"} -> <<"REAL", "RANGE_REDUCED">>
    [] t.kind \in {"int64", "int32", "uint32"} -> <<"INTEGER", "LOSSLESS">>
    [] t.kind = "uint64" -> <<"TEXT", "REPRESENTATION_CHANGED">>
    [] t.kind = "bool" -> <<"INTEGER", "REPRESENTATION_CHANGED">>
    [] t.kind \in {"string", "decimal", "uuid"} -> <<"TEXT", "LOSSLESS">>
    [] t.kind \in {"bytes", "fixed_bytes"} -> <<"BLOB", "LOSSLESS">>
    [] t.kind = "enum" -> <<"INTEGER", "LOSSLESS">>
    [] t.kind = "timestamp" -> <<"INTEGER", "PRECISION_REDUCED">>
    [] t.kind = "duration" -> <<"INTEGER", "RANGE_REDUCED">>
    [] t.kind \in {"struct", "list", "map", "json"} -> <<"TEXT", "RANGE_WIDENED">>

jsonCheck(t, v) ==
  LET shape == CASE t.kind = "list" -> "array"
                 [] t.kind = "json" /\ t.json = "list_value" -> "array"
                 [] t.kind = "json" /\ t.json = "value" -> ""
                 [] OTHER -> "object"
  IN /\ v[1] = "t" => ~HasNUL(v[2])
     /\ JsonShape(v) # "invalid"
     /\ shape # "" => JsonShape(v) = shape
     /\ FixedList(t) => v[1] = "j" /\ Len(v[2][2]) = t.fixed

\* Mutant: the closed enum keeps only the bounds of its 32-bit number.
enumCheckOpen(t, v) == In32(v)

enumCheck(t, v) == In32(v) /\ (t.closed => v[2] \in ToSet(t.values))

mapping(t, v) ==
  CASE t.kind \in {"double", "float"} -> typeof(v) = "real"
    [] t.kind \in {"int64", "duration"} -> typeof(v) = "integer"
    [] t.kind = "int32" -> In32(v)
    [] t.kind = "uint32" -> Between(v, 0, 2^Bits32 - 1)
    [] t.kind = "uint64" ->
         /\ typeof(v) = "text" /\ unsignedText(v[2])
         /\ \/ length(v[2]) < Digits64
            \/ length(v[2]) = Digits64 /\ NotAfter(v[2], DigitsOf(2^Bits64 - 1))
    [] t.kind = "bool" -> Between(v, 0, 1)
    [] t.kind = "string" -> typeof(v) = "text"
    [] t.kind = "bytes" -> typeof(v) = "blob"
    [] t.kind = "enum" -> enumCheck(t, v)
    [] t.kind = "timestamp" -> Between(v, TimeMin \div NanosPerMicro, TimeMax \div NanosPerMicro)
    [] t.kind = "decimal" -> typeof(v) = "text" /\ decimalCheck(v[2], t.precision, t.scale)
    [] t.kind = "uuid" -> typeof(v) = "text" /\ uuidCheck(v[2])
    [] t.kind = "fixed_bytes" -> typeof(v) = "blob" /\ Len(v[2]) = t.width
    [] t.kind \in {"struct", "list", "map", "json"} -> typeof(v) = "text" /\ jsonCheck(t, v)

\* Mutant: the default follows the type, whatever the presence.
sqliteDefaultOfType(f) ==
  CASE f.type.kind = "list" /\ ~FixedList(f.type) -> <<"j", <<"L", <<>>>>>>
    [] f.type.kind = "map" -> <<"j", <<"M", EmptyMap>>>>
    [] f.type.kind = "string" -> <<"t", <<>>>>
    [] f.type.kind = "bytes" -> <<"b", <<>>>>
    [] f.type.kind = "uint64" -> <<"t", <<"0">>>>
    [] f.type.kind \in {"int32", "int64", "uint32", "bool", "enum", "double", "float"} -> <<"i", 0>>
    [] OTHER -> Null

\* defaultExpression of sqlite: the value an omitted column takes.
sqliteDefault(f) ==
  CASE f.presence = "REPEATED" /\ ~FixedList(f.type) -> <<"j", <<"L", <<>>>>>>
    [] f.presence = "MAP" -> <<"j", <<"M", EmptyMap>>>>
    [] f.presence = "IMPLICIT" /\ f.type.kind = "string" -> <<"t", <<>>>>
    [] f.presence = "IMPLICIT" /\ f.type.kind = "bytes" -> <<"b", <<>>>>
    [] f.presence = "IMPLICIT" /\ f.type.kind = "uint64" -> <<"t", <<"0">>>>
    [] f.presence = "IMPLICIT" -> <<"i", 0>>
    [] OTHER -> Null

\* The types with a protobuf default: enums and primitives.
Implicit(t) == t.kind \in {"double", "float", "int64", "int32", "uint32", "uint64", "bool",
                           "string", "bytes", "enum"}

SqliteRefuses(fields) ==
  \/ fields = <<>>
  \/ \E i \in DOMAIN fields : fields[i].presence = "IMPLICIT" /\ ~Implicit(fields[i].type)
  \/ \E i, k \in DOMAIN fields : i # k /\ Fold(fields[i].name) = Fold(fields[k].name)

SqliteDiagnostics(fields) ==
  FlattenSeq([i \in DOMAIN fields |->
    <<Diag(<<fields[i].name>>, SqliteType(fields[i].type)[2])>> \o
    [n \in 1..(Len(NodesUnder(fields[i], <<fields[i].name>>)) - 1) |->
       Diag(NodesUnder(fields[i], <<fields[i].name>>)[n + 1], "RANGE_WIDENED")]])

\* The row SQLite stores for the values offered, "omitted" ones by default.
SqliteStored(fields, row) ==
  [i \in DOMAIN fields |->
     Affinity(SqliteType(fields[i].type)[1],
              IF row[i] = <<"omitted">> THEN sqliteDefault(fields[i]) ELSE row[i])]

SqliteAccepts(fields, stored) ==
  /\ \A i \in DOMAIN fields : IF stored[i] = Null THEN fields[i].nullable
                              ELSE mapping(fields[i].type, stored[i])
  /\ \A g \in {fields[i].oneof : i \in DOMAIN fields} \ {""} :
       Cardinality({i \in DOMAIN fields : fields[i].oneof = g /\ stored[i] # Null}) <= 1

Blobs(t) == IF t.kind = "fixed_bytes" THEN UpTo({"x", NUL}, t.width + 1) ELSE Bytes

\* Values a client may offer a column, whatever its class; a number offered
\* to a text column only where its text is one of Strings.
SqliteInputs(f) ==
  LET t == f.type IN
  {Null, <<"nan">>}
  \cup (IF t.kind \in {"string", "json"} THEN Numbers({1})
        ELSE Numbers(Signed(Bits64)) \cup {<<"r", k>> : k \in 0..3})
  \cup {<<"b", w>> : w \in Blobs(t)}
  \cup (IF t.kind \in {"struct", "list", "map"}
        THEN {<<"j", v>> : v \in Values(t)} \cup {<<"t", <<"a">>>>, <<"j", <<"L", <<>>>>>>}
        ELSE {<<"t", w>> : w \in Strings})
  \cup (IF t.kind \in {"uint64", "decimal", "uuid"}
        THEN {<<"t", w>> : w \in TextInputs \cup DOMAIN IntegerTexts} ELSE {})
  \cup (IF t.kind \in {"decimal", "uuid"} THEN Values(t) ELSE {})

\* What a stored SQLite value means.
SqliteMeaning(t, v) ==
  CASE v = Null -> Null
    [] t.kind = "bool" -> <<"o", v[2] = 1>>
    [] t.kind = "uint64" -> <<"i", IntegerTexts[v[2]]>>
    [] t.kind = "timestamp" -> <<"i", v[2] * NanosPerMicro>>
    [] t.kind = "json" -> <<"j", v[2]>>
    [] t.kind \in {"struct", "list", "map"} /\ v[1] = "j" -> v[2]
    [] OTHER -> v

(***************************************************************************)
(* postgres: the column type and diagnostic of a logical type.             *)
(***************************************************************************)
RECURSIVE canContainNUL(_)
canContainNUL(t) ==
  \/ t.kind \in {"string", "json"}
  \/ \E i \in DOMAIN Children(t) : canContainNUL(Children(t)[i][2].type)

PostgresType(t) ==
  CASE t.kind = "double" -> <<[t |-> "DOUBLE PRECISION"], "LOSSLESS">>
    [] t.kind = "float" -> <<[t |-> "REAL"], "LOSSLESS">>
    [] t.kind = "int64" -> <<[t |-> "BIGINT"], "LOSSLESS">>
    [] t.kind = "uint64" -> <<[t |-> "Decimal", precision |-> Digits64, scale |-> 0], "RANGE_WIDENED">>
    [] t.kind = "int32" -> <<[t |-> "INTEGER"], "LOSSLESS">>
    [] t.kind = "uint32" -> <<[t |-> "BIGINT"], "RANGE_WIDENED">>
    [] t.kind = "bool" -> <<[t |-> "Bool"], "LOSSLESS">>
    [] t.kind = "string" -> <<[t |-> "TEXT"], "RANGE_REDUCED">>
    [] t.kind \in {"bytes", "fixed_bytes"} -> <<[t |-> "BYTEA"], "LOSSLESS">>
    [] t.kind = "enum" -> <<[t |-> "INTEGER"], IF t.closed THEN "RANGE_WIDENED" ELSE "LOSSLESS">>
    [] t.kind = "timestamp" -> <<[t |-> "MicroTime"], "PRECISION_REDUCED">>
    [] t.kind = "duration" -> <<[t |-> "BIGINT"], "RANGE_REDUCED">>
    [] t.kind = "decimal" ->
         <<[t |-> "Decimal", precision |-> t.precision, scale |-> t.scale], "REPRESENTATION_CHANGED">>
    [] t.kind = "uuid" -> <<[t |-> "UUID"], "REPRESENTATION_CHANGED">>
    [] t.kind = "json" -> <<[t |-> "JSONB"], "RANGE_REDUCED">>
    [] FixedList(t) -> <<[t |-> "JSONB"], "RANGE_WIDENED">>
    [] OTHER -> <<[t |-> "JSONB"], IF canContainNUL(t) THEN "RANGE_REDUCED" ELSE "REPRESENTATION_CHANGED">>

NestedDiagnostic(f) ==
  IF FixedList(f.type) THEN "RANGE_WIDENED"
  ELSE IF canContainNUL(f.type) THEN "RANGE_REDUCED" ELSE "REPRESENTATION_CHANGED"

RECURSIVE PostgresNested(_, _)
PostgresNested(t, path) ==
  FlattenSeq([i \in DOMAIN Children(t) |->
    LET child == Children(t)[i] IN
    <<Diag(Append(path, child[1]), NestedDiagnostic(child[2]))>>
      \o PostgresNested(child[2].type, Append(path, child[1]))])

PostgresDiagnostics(fields) ==
  FlattenSeq([i \in DOMAIN fields |->
    <<Diag(<<fields[i].name>>, PostgresType(fields[i].type)[2])>>
      \o PostgresNested(fields[i].type, <<fields[i].name>>)])

\* Values the server stores in a column: those of its type, and for JSONB
\* the documents with no NUL in a string.
RECURSIVE NULInside(_)
NULInside(v) ==
  CASE v[1] = "t" -> HasNUL(v[2])
    [] v[1] \in {"S", "M"} -> \E k \in DOMAIN v[2] : NULInside(v[2][k]) \/ (v[1] = "M" /\ NULInside(k))
    [] v[1] = "L" -> \E i \in DOMAIN v[2] : NULInside(v[2][i])
    [] OTHER -> FALSE
PostgresInputs(f) ==
  LET t == f.type  T == PostgresType(t)[1] IN
  {Null} \cup
  CASE T.t = "BYTEA" -> {<<"b", w>> : w \in Blobs(t)}
    [] T.t = "JSONB" /\ t.kind = "json" -> {<<"j", w>> : w \in JsonWords}
    [] T.t = "JSONB" -> {<<"j", v>> : v \in {x \in Values(t) : ~NULInside(x)} \cup {<<"L", <<>>>>, <<"S", EmptyMap>>}}
    [] OTHER -> Domain(T)

\* defaultExpression and implicitDefault of postgres, as values of the column.
postgresDefault(f) ==
  LET t == f.type IN
  CASE f.presence = "REPEATED" /\ ~FixedList(t) -> <<"j", <<"L", <<>>>>>>
    [] f.presence = "MAP" -> <<"j", <<"M", EmptyMap>>>>
    [] f.presence = "IMPLICIT" /\ t.kind = "bool" -> <<"o", FALSE>>
    [] f.presence = "IMPLICIT" /\ t.kind = "string" -> <<"s", <<>>>>
    [] f.presence = "IMPLICIT" /\ t.kind = "bytes" -> <<"b", <<>>>>
    [] f.presence = "IMPLICIT" /\ t.kind = "uint64" -> <<"d", 0>>
    [] f.presence = "IMPLICIT" /\ t.kind \in {"double", "float"} -> <<"r", 0>>
    [] f.presence = "IMPLICIT" /\ t.kind \in {"int64", "int32", "uint32", "enum"} -> <<"i", 0>>
    [] OTHER -> Null

PostgresRefuses(fields) ==
  \/ \E i, k \in DOMAIN fields : i # k /\ fields[i].name = fields[k].name
  \/ \E i \in DOMAIN fields :
       fields[i].presence = "IMPLICIT" /\ fields[i].type.kind \in {"decimal", "uuid", "fixed_bytes"}

PostgresStored(fields, row) ==
  [i \in DOMAIN fields |-> IF row[i] = <<"omitted">> THEN postgresDefault(fields[i]) ELSE row[i]]

\* num_nonnulls(members) <= 1, for every oneof of two members or more.
oneofChecks(fields, stored) ==
  \A g \in {fields[i].oneof : i \in DOMAIN fields} \ {""} :
    LET members == {i \in DOMAIN fields : fields[i].oneof = g}
    IN Cardinality(members) >= 2 => Cardinality({i \in members : stored[i] # Null}) <= 1

\* A CHECK that evaluates to NULL lets the row in; the check of a fixed list
\* never does.
PostgresAccepts(fields, stored) ==
  /\ \A i \in DOMAIN fields :
       LET t == fields[i].type  v == stored[i] IN
       /\ ~fields[i].nullable => v # Null
       /\ t.kind = "fixed_bytes" => v = Null \/ Len(v[2]) = t.width
       /\ FixedList(t) => v # Null /\ v[2][1] = "L" /\ Len(v[2][2]) = t.fixed
  /\ oneofChecks(fields, stored)

PostgresMeaning(t, v) ==
  IF v # Null /\ t.kind \in {"struct", "list", "map"} THEN v[2] ELSE Meaning(t, v)
=============================================================================
