--------------------------- MODULE LogicalSchema ---------------------------
(***************************************************************************)
(* The logical rows every storage renderer maps: the fields of a           *)
(* DatasetSchema, the protobuf messages they describe, and what a physical *)
(* value means as a logical one.  The renderers are in SqlTables,          *)
(* ClickHouseTables and LakeSchemas.                                       *)
(*                                                                         *)
(* A field is a record with name, id (its stable id), presence, nullable,  *)
(* oneof ("" when none), number (the last protobuf field number), role and *)
(* type; a type is a record with a kind and the kind's parameters.  Values *)
(* are tagged tuples: <<"i", n>> an integer, <<"t", w>> a text, which is a *)
(* sequence of characters, <<"S", m>> a message, and so on.  Integers are  *)
(* scaled: 32 stands for Bits32 bits and 64 for Bits64.                    *)
(***************************************************************************)
EXTENDS Integers, Sequences, FiniteSets, TLC, SequencesExt

CONSTANTS
  Bits32, Bits64,     \* widths of the two integer sizes
  Digits64,           \* decimal digits of the largest unsigned 64-bit integer
  TimeMin, TimeMax,   \* bounds of protobuf Timestamp and Duration, in nanoseconds
  NanosPerMicro,      \* nanoseconds of a microsecond
  UuidLength,         \* characters of a canonical UUID
  UuidHyphens,        \* positions of its hyphens
  Strings,            \* the texts a string field may hold, JSON documents among them
  MaxItems            \* bound on the length of lists and maps

Null == <<"null">>
NUL == "NUL"
Digit == <<"0", "1", "2", "3", "4", "5", "6", "7", "8", "9">>
EmptyMap == [x \in {} |-> x]
JsonWords == {<<"{}">>, <<"[]">>, <<"null">>, <<"1">>}

\* Dynamic values that ProtoJSON cannot encode: a number that is not finite, alone or
\* inside, and an Any of an unknown type.
Unencodable == {<<"NaN">>, <<"[NaN]">>, <<"{NaN}">>, <<"{?}">>}
Bytes == Strings \cup {<<"BAD">>}      \* "BAD" is a byte that is not UTF-8

Signed(bits) == -(2^(bits - 1)) .. 2^(bits - 1) - 1
Unsigned(bits) == 0 .. 2^bits - 1
Magnitude(n) == IF n < 0 THEN -n ELSE n

RECURSIVE DigitsOf(_)
DigitsOf(n) == IF n < 10 THEN <<Digit[n + 1]>> ELSE Append(DigitsOf(n \div 10), Digit[(n % 10) + 1])
Integral(n) == (IF n < 0 THEN <<"-">> ELSE <<>>) \o DigitsOf(Magnitude(n))

\* The canonical fixed-scale spelling of the decimal n / 10^scale.
DecimalText(n, scale) ==
  LET m == Magnitude(n)
      fraction == DigitsOf(m % 10^scale)
  IN (IF n < 0 THEN <<"-">> ELSE <<>>) \o DigitsOf(m \div 10^scale)
     \o (IF scale = 0 THEN <<>>
         ELSE <<".">> \o [i \in 1..(scale - Len(fraction)) |-> "0"] \o fraction)
DecimalRange(precision) == -(10^precision - 1) .. 10^precision - 1

UuidTexts ==
  {w \in [1..UuidLength -> {"0", "1", "9", "a", "-"}] :
     \A i \in 1..UuidLength : (w[i] = "-") <=> (i \in UuidHyphens)}

UpTo(S, n) == UNION {[1..k -> S] : k \in 0..n}

(***************************************************************************)
(* The logical values of a type and the messages of a list of fields: the  *)
(* reference the renderers are compared with.                              *)
(***************************************************************************)
RECURSIVE Values(_)
RECURSIVE Messages(_)
Numbers(S) == {<<"i", n>> : n \in S}
Values(t) ==
  CASE t.kind = "int32" -> Numbers(Signed(Bits32))
    [] t.kind = "int64" -> Numbers(Signed(Bits64))
    [] t.kind = "uint32" -> Numbers(Unsigned(Bits32))
    [] t.kind = "uint64" -> Numbers(Unsigned(Bits64))
    [] t.kind = "double" -> {<<"r", k>> : k \in 0..3} \cup {<<"nan">>}
    [] t.kind = "float" -> {<<"r", k>> : k \in {0, 2}} \cup {<<"nan">>}
    [] t.kind = "bool" -> {<<"o", b>> : b \in BOOLEAN}
    [] t.kind = "string" -> {<<"t", w>> : w \in Strings}
    [] t.kind = "bytes" -> {<<"b", w>> : w \in Bytes}
    [] t.kind = "enum" -> Numbers(IF t.closed THEN ToSet(t.values) ELSE Signed(Bits32))
    [] t.kind \in {"timestamp", "duration"} -> Numbers(TimeMin..TimeMax)
    [] t.kind = "decimal" -> {<<"t", DecimalText(n, t.scale)>> : n \in DecimalRange(t.precision)}
    [] t.kind = "uuid" -> {<<"t", w>> : w \in UuidTexts}
    [] t.kind = "fixed_bytes" -> {<<"b", w>> : w \in [1..t.width -> {"x", NUL}]}
    [] t.kind = "json" ->
         {<<"j", w>> : w \in CASE t.json = "value" -> JsonWords \cup {<<"NaN">>}
                              [] t.json = "list_value" -> {<<"[]">>, <<"[NaN]">>}
                              [] t.json = "struct" -> {<<"{}">>, <<"{NaN}">>}
                              [] t.json = "any" -> {<<"{}">>, <<"{?}">>}}
    [] t.kind = "struct" -> {<<"S", m>> : m \in Messages(t.fields)}
    [] t.kind = "list" ->
         {<<"L", s>> : s \in IF t.fixed # 0 THEN [1..t.fixed -> Values(t.element.type)]
                             ELSE UpTo(Values(t.element.type), MaxItems)}
    [] t.kind = "map" ->
         {<<"M", f>> : f \in UNION {[K -> Values(t.value.type)] :
            K \in {S \in SUBSET Values(t.key.type) : Cardinality(S) <= MaxItems}}}

\* At most one member of each oneof is set.
OneofsHold(fields, m) ==
  \A i, k \in 1..Len(fields) :
    i # k /\ fields[i].oneof # "" /\ fields[i].oneof = fields[k].oneof
      => Null \in {m[fields[i].name], m[fields[k].name]}

Messages(fields) ==
  IF fields = <<>> THEN {EmptyMap}
  ELSE LET f == Head(fields)
           all == {m @@ (f.name :> v) : m \in Messages(Tail(fields)),
                     v \in Values(f.type) \cup (IF f.nullable THEN {Null} ELSE {})}
       IN {m \in all : OneofsHold(fields, m)}

Zero(t) ==
  CASE t.kind \in {"double", "float"} -> <<"r", 0>>
    [] t.kind = "bool" -> <<"o", FALSE>>
    [] t.kind = "string" -> <<"t", <<>>>>
    [] t.kind = "bytes" -> <<"b", <<>>>>
    [] t.kind = "list" -> <<"L", <<>>>>
    [] t.kind = "map" -> <<"M", EmptyMap>>
    [] OTHER -> <<"i", 0>>

FixedList(t) == t.kind = "list" /\ t.fixed # 0

\* The values at the ends of a logical value: those with no parts.
RECURSIVE Leaves(_)
Leaves(v) ==
  IF v[1] \in {"S", "L", "M"} THEN UNION {Leaves(v[2][k]) : k \in DOMAIN v[2]} ELSE {v}

\* A message of which ProtoJSON can encode every dynamic value.
Encodable(m) == \A v \in Leaves(<<"S", m>>) : v[1] = "j" => v[2] \notin Unencodable

\* What protobuf reads in a field nobody wrote; a required field and a fixed
\* list have no such value.
Absence(f) ==
  IF f.nullable THEN {Null}
  ELSE IF f.presence = "REQUIRED" \/ FixedList(f.type) THEN {}
  ELSE {Zero(f.type)}

\* The logical children of a type, with the path step that names each.
Children(t) ==
  CASE t.kind = "struct" -> [i \in 1..Len(t.fields) |-> <<t.fields[i].name, t.fields[i]>>]
    [] t.kind = "list" -> <<<<"[]", t.element>>>>
    [] t.kind = "map" -> <<<<"key", t.key>>, <<"value", t.value>>>>
    [] OTHER -> <<>>

RECURSIVE NodesUnder(_, _)
NodesUnder(f, path) ==
  <<path>> \o FlattenSeq([i \in DOMAIN Children(f.type) |->
                NodesUnder(Children(f.type)[i][2], Append(path, Children(f.type)[i][1]))])
Nodes(fields) == FlattenSeq([i \in DOMAIN fields |-> NodesUnder(fields[i], <<fields[i].name>>)])

(***************************************************************************)
(* What a stored value means.  Databases and file formats tag their values *)
(* by storage class: "u" an unsigned integer, "d" a decimal, "dt" a time,  *)
(* "uu" a UUID, "s" a byte string, "P" the pairs of a map in order.  Pairs *)
(* that repeat a key mean no map: they keep the tag "P".                   *)
(***************************************************************************)
MapMeaning(pairs) ==
  IF \E i, k \in DOMAIN pairs : i # k /\ pairs[i][1] = pairs[k][1] THEN <<"P", pairs>>
  ELSE <<"M", [k \in {pairs[i][1] : i \in DOMAIN pairs} |->
                 pairs[SelectInSeq(pairs, LAMBDA p : p[1] = k)][2]]>>
RepeatsKey(m) == \E v \in Leaves(<<"S", m>>) : v[1] = "P"

RECURSIVE Meaning(_, _)
Meaning(t, v) ==
  CASE v = Null -> Null
    [] t.kind \in {"uint32", "uint64", "timestamp"} -> <<"i", v[2]>>
    [] t.kind = "decimal" -> <<"t", DecimalText(v[2], t.scale)>>
    [] t.kind \in {"uuid", "string"} -> <<"t", v[2]>>
    [] t.kind = "bytes" -> <<"b", v[2]>>
    [] t.kind = "json" -> <<"j", v[2]>>
    [] t.kind = "struct" ->
         <<"S", [n \in DOMAIN v[2] |->
                   Meaning((CHOOSE f \in ToSet(t.fields) : f.name = n).type, v[2][n])]>>
    [] t.kind = "list" -> <<"L", [i \in DOMAIN v[2] |-> Meaning(t.element.type, v[2][i])]>>
    [] t.kind = "map" ->
         MapMeaning([i \in DOMAIN v[2] |-> <<Meaning(t.key.type, v[2][i][1]),
                                             Meaning(t.value.type, v[2][i][2])>>])
    [] OTHER -> v

(***************************************************************************)
(* The values of a physical type of a typed store, as those stores define  *)
(* them.  None of them keeps a map from repeating a key by itself.         *)
(***************************************************************************)
RECURSIVE Domain(_)
RECURSIVE Tuples(_)
Tuples(elements) ==
  IF elements = <<>> THEN {EmptyMap}
  ELSE {m @@ (Head(elements)[1] :> v) : m \in Tuples(Tail(elements)), v \in Domain(Head(elements)[2])}
Domain(T) ==
  CASE T.t \in {"Int32", "INTEGER"} -> Numbers(Signed(Bits32))
    [] T.t \in {"Int64", "BIGINT", "NanoDuration", "TimestampTzNs"} -> Numbers(Signed(Bits64))
    [] T.t = "UInt32" -> {<<"u", n>> : n \in Unsigned(Bits32)}
    [] T.t = "UInt64" -> {<<"u", n>> : n \in Unsigned(Bits64)}
    [] T.t = "Decimal" -> {<<"d", n>> : n \in DecimalRange(T.precision)}
    [] T.t \in {"Float64", "DOUBLE PRECISION"} -> {<<"r", k>> : k \in 0..3} \cup {<<"nan">>}
    [] T.t \in {"Float32", "REAL"} -> {<<"r", k>> : k \in {0, 2}} \cup {<<"nan">>}
    [] T.t = "Bool" -> {<<"o", b>> : b \in BOOLEAN}
    [] T.t = "ByteString" -> {<<"s", w>> : w \in Bytes}
    [] T.t = "Utf8" -> {<<"s", w>> : w \in Strings}
    [] T.t = "Json" -> {<<"s", w>> : w \in JsonWords}
    [] T.t = "TEXT" -> {<<"s", w>> : w \in {x \in Strings : NUL \notin ToSet(x)}}
    [] T.t = "Binary" -> {<<"s", w>> : w \in Bytes}
    [] T.t = "FixedString" -> {<<"b", w>> : w \in [1..T.width -> {"x", NUL}]}
    [] T.t = "UUID" -> {<<"uu", w>> : w \in UuidTexts}
    [] T.t = "NanoTime" -> {<<"dt", n>> : n \in Signed(Bits64)}
    [] T.t = "MicroTime" ->
         {<<"dt", n>> : n \in {x \in TimeMin..TimeMax : x % NanosPerMicro = 0}}
    [] T.t = "Nullable" -> Domain(T.of) \cup {Null}
    [] T.t = "Tuple" -> {<<"S", m>> : m \in Tuples(T.elements)}
    [] T.t = "Array" -> {<<"L", s>> : s \in UpTo(Domain(T.of), MaxItems)}
    [] T.t = "FixedArray" -> {<<"L", s>> : s \in [1..T.length -> Domain(T.of)]}
    [] T.t = "Map" ->
         {<<"P", s>> : s \in UpTo(Domain(T.key) \X Domain(T.value), MaxItems)}
=============================================================================
