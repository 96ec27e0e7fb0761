---------------------------- MODULE OpenApiTypes ----------------------------
(***************************************************************************)
(* OpenAPI schemas of booleans, strings and numbers translated to protobuf *)
(* scalars and their validation rules, and the fields of a message         *)
(* (src/go/internal/openapiimport/schema.go and model.go).                 *)
(*                                                                         *)
(* A translation returns [c, type] with the converter c of OpenApiSchema,  *)
(* of which only the error is touched here.  A schema is one record with   *)
(* every keyword the importer looks at; an optional keyword is a set with  *)
(* at most one member.  Numbers are counted in halves, so that an odd one  *)
(* is not an integer.                                                      *)
(***************************************************************************)
EXTENDS Integers, Sequences, FiniteSets

CONSTANTS
    MinInt, MaxInt,              \* the int32 range, in halves
    ReservedFrom, ReservedCount  \* the field numbers protobuf reserves

ASSUME ScalarAssumption == MinInt \in Int /\ MaxInt \in Int
ASSUME ReservedAssumption == ReservedFrom \in Nat /\ ReservedCount \in Nat

The(opt) == CHOOSE x \in opt : TRUE

NoType == [kind |-> "none", name |-> <<>>, elem |-> "none", rules |-> {}, items |-> {}]
ScalarType(n, rules) ==
    [kind |-> "scalar", name |-> <<n>>, elem |-> "none", rules |-> rules, items |-> {}]
MessageType(name) ==
    [kind |-> "message", name |-> name, elem |-> "none", rules |-> {}, items |-> {}]
Timestamp == MessageType(<<"google", "protobuf", "Timestamp">>)

Ok(c, type) == [c |-> c, type |-> type]
Fail(c, e) == [c |-> [c EXCEPT !.err = e], type |-> NoType]

Rule(p, v) == [path |-> p, value |-> v]

(***************************************************************************)
(* Keywords.                                                               *)
(***************************************************************************)

\* Composition, defaults, nullability, dialects and the like are one flag.
validateCommonSchema(s) == ~s.unsupported /\ \A i \in DOMAIN s.types : s.types[i] # "null"

schemaKind(s) ==
    CASE Len(s.types) > 1 -> "union"
      [] Len(s.types) = 1 -> s.types[1]
      [] OTHER -> IF s.additional # "absent" \/ DOMAIN s.properties # {} THEN "object"
                  ELSE IF s.items # {} THEN "array" ELSE "untyped"

hasStringConstraints(s) ==
    s.minLength # {} \/ s.maxLength # {} \/ s.pattern # {} \/ s.enum # <<>>

\* The keywords of the other kinds are refused, enum except on strings and numbers
\* (numbers refuse it themselves), format except on strings and numbers.
rejectKeywords(s, allowed) ==
    \/ "string" \notin allowed /\ (s.minLength # {} \/ s.maxLength # {} \/ s.pattern # {})
    \/ {"string", "numeric"} \cap allowed = {} /\ (s.format # "" \/ s.enum # <<>>)
    \/ "numeric" \notin allowed /\ (\/ s.minimum # {} \/ s.maximum # {}
                                    \/ s.exclusiveMinimum # {} \/ s.exclusiveMaximum # {})
    \/ "array" \notin allowed /\ (s.items # {} \/ s.maxItems # {} \/ s.minItems # {} \/ s.uniqueItems)
    \/ "object" \notin allowed /\ (\/ DOMAIN s.properties # {} \/ s.additional # "absent"
                                   \/ s.required # <<>>
                                   \/ s.minProperties # {} \/ s.maxProperties # {})

(***************************************************************************)
(* Scalars.                                                                *)
(***************************************************************************)

booleanType(c, s) == IF rejectKeywords(s, {}) THEN Fail(c, "keyword") ELSE Ok(c, ScalarType("bool", {}))

Size(path, opt) == {Rule(path, v) : v \in opt}

\* Enumerations are of strings, each of them once.
stringEnum(s) ==
    [ok |-> \A i, j \in DOMAIN s.enum : s.enum[i] = s.enum[j] => i = j,
     values |-> {s.enum[i] : i \in DOMAIN s.enum}]

\* An encoded byte string or a timestamp has no length, pattern or enumeration.
stringType(c, s) ==
    CASE rejectKeywords(s, {"string"}) -> Fail(c, "keyword")
      [] s.format \in {"byte", "date-time"} /\ hasStringConstraints(s) -> Fail(c, "constraint")
      [] s.format = "byte" /\ ~hasStringConstraints(s) -> Ok(c, ScalarType("bytes", {}))
      [] s.format = "date-time" /\ ~hasStringConstraints(s) -> Ok(c, Timestamp)
      [] s.format = "unknown" -> Fail(c, "format")
      [] OTHER ->
           IF \/ \E v \in s.minLength \cup s.maxLength : v < 0
              \/ \E lo \in s.minLength, hi \in s.maxLength : lo > hi
              \/ s.pattern = {"not RE2"}
              \/ ~stringEnum(s).ok
           THEN Fail(c, "constraint")
           ELSE Ok(c, ScalarType("string",
                        Size("min_len", s.minLength) \cup Size("max_len", s.maxLength)
                        \cup {Rule("pattern", 1) : p \in s.pattern}
                        \cup {Rule(f, 1) : f \in {s.format} \ {""}}
                        \cup {Rule("in", e) : e \in stringEnum(s).values}))

\* Mutant: the weaker of the two lower bounds is kept.
looserLower(left, right) ==
    IF \/ left = {}
       \/ right.value < The(left).value
       \/ right.value = The(left).value /\ right.exclusive
    THEN {right} ELSE left

\* A bound is {} or a set with one [value, exclusive].
stricterLower(left, right) ==
    IF \/ left = {}
       \/ right.value > The(left).value
       \/ right.value = The(left).value /\ right.exclusive
    THEN {right} ELSE left

stricterUpper(left, right) ==
    IF \/ left = {}
       \/ right.value < The(left).value
       \/ right.value = The(left).value /\ right.exclusive
    THEN {right} ELSE left

\* exclusive is {} or a set with one [bool, on, value]: the Boolean of OpenAPI 3.0
\* turns the bound exclusive, the number of 3.1 is a bound of its own.
BoundOf(bound, exclusive, lower) ==
    LET b == {[value |-> v, exclusive |-> FALSE] : v \in bound}
    IN  IF exclusive = {} THEN b
        ELSE LET x == The(exclusive)
                 own == [value |-> x.value, exclusive |-> TRUE]
             IN  IF x.bool
                 THEN {[value |-> v, exclusive |-> x.on] : v \in bound}
                 ELSE IF lower THEN stricterLower(b, own) ELSE stricterUpper(b, own)

numericBounds(s) ==
    LET lower == BoundOf(s.minimum, s.exclusiveMinimum, TRUE)
        upper == BoundOf(s.maximum, s.exclusiveMaximum, FALSE)
    IN  [ok |-> /\ \A x \in s.exclusiveMinimum : x.bool /\ x.on => s.minimum # {}
                /\ \A x \in s.exclusiveMaximum : x.bool /\ x.on => s.maximum # {}
                /\ \A lo \in lower, hi \in upper :
                      /\ lo.value <= hi.value
                      /\ lo.value = hi.value => ~lo.exclusive /\ ~hi.exclusive,
         lower |-> lower, upper |-> upper]

\* float32 holds the even halves; a tie goes to the multiple of four.
ToFloat32(v) == IF v % 2 = 0 THEN v ELSE IF (v + 1) % 4 = 0 THEN v + 1 ELSE v - 1

numericLiteral(v, name) ==
    [ok |-> name = "int32" => v % 2 = 0 /\ v >= MinInt /\ v <= MaxInt,
     value |-> IF name = "float" THEN ToFloat32(v) ELSE v]

BoundRules(c, b, name, more) ==
    LET lit(x) == numericLiteral(x.value, name)
    IN  IF ~b.ok \/ \E x \in b.lower \cup b.upper : ~lit(x).ok
        THEN Fail(c, "bounds")
        ELSE Ok(c, ScalarType(name,
                     {Rule(IF x.exclusive THEN "gt" ELSE "gte", lit(x).value) : x \in b.lower}
                     \cup {Rule(IF x.exclusive THEN "lt" ELSE "lte", lit(x).value) : x \in b.upper}
                     \cup more))

numericRules(c, s, name, more) == BoundRules(c, numericBounds(s), name, more)

integerType(c, s) ==
    IF rejectKeywords(s, {"numeric"}) \/ s.format # "int32" \/ s.enum # <<>>
    THEN Fail(c, "keyword") ELSE numericRules(c, s, "int32", {})

numberType(c, s) ==
    IF rejectKeywords(s, {"numeric"}) \/ s.enum # <<>> \/ s.format \notin {"float", "double"}
    THEN Fail(c, "keyword") ELSE numericRules(c, s, s.format, {Rule("finite", 1)})

(***************************************************************************)
(* Fields.                                                                 *)
(***************************************************************************)

protobufFieldNumber(index) ==
    IF index + 1 >= ReservedFrom THEN index + 1 + ReservedCount ELSE index + 1

\* A field list [c, fields] grows by one field whose name must be new in it.
addField(acc, name, json, r, required) ==
    IF acc.c.err # "none" THEN acc
    ELSE IF \E i \in DOMAIN acc.fields : acc.fields[i].name = name
    THEN [acc EXCEPT !.c.err = "collision"]
    ELSE IF r.c.err # "none" THEN [acc EXCEPT !.c = r.c]
    ELSE IF required /\ r.type.kind \in {"list", "map"} THEN [acc EXCEPT !.c.err = "presence"]
    ELSE [acc EXCEPT !.c = r.c,
                     !.fields = Append(@, [name |-> name, json |-> json, type |-> r.type,
                                           required |-> required,
                                           number |-> protobufFieldNumber(Len(@))])]

\* Names and numbers are unique, and no number is one that protobuf reserves.
SoundFields(fields) ==
    \A i \in DOMAIN fields :
       /\ fields[i].number \notin ReservedFrom..(ReservedFrom + ReservedCount - 1)
       /\ \A j \in DOMAIN fields :
            fields[i].name = fields[j].name \/ fields[i].number = fields[j].number => i = j

(***************************************************************************)
(* What the bounds of a number mean, before and after.                     *)
(***************************************************************************)

\* What the validation rules let through.
Passes(r, v) ==
    /\ r.path = "gte" => v >= r.value
    /\ r.path = "gt" => v > r.value
    /\ r.path = "lte" => v <= r.value
    /\ r.path = "lt" => v < r.value
Admits(rules, v) == \A r \in rules : Passes(r, v)

\* What OpenAPI means by the bounds, keyword by keyword.
Allowed(s, v) ==
    /\ \A m \in s.minimum : v >= m
    /\ \A m \in s.maximum : v <= m
    /\ \A x \in s.exclusiveMinimum : IF x.bool THEN x.on => \A m \in s.minimum : v > m ELSE v > x.value
    /\ \A x \in s.exclusiveMaximum : IF x.bool THEN x.on => \A m \in s.maximum : v < m ELSE v < x.value

Bounds(s) == s.minimum \cup s.maximum
             \cup {x.value : x \in {x \in s.exclusiveMinimum \cup s.exclusiveMaximum : ~x.bool}}

\* The rules admit v if and only if the schema does, unless v is a float32 that a bound
\* was rounded to.
MeansBounds(s, name, rules, v) ==
    \/ Admits(rules, v) <=> Allowed(s, v)
    \/ name = "float" /\ \E b \in Bounds(s) : b % 2 = 1 /\ ToFloat32(b) = v
=============================================================================
