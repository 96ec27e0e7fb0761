-------------------------- MODULE MCStorageTargets --------------------------
(***************************************************************************)
(* Small compiled datasets: every logical type under every presence it can *)
(* have, oneofs, nesting in structs, lists and maps, and the shapes that   *)
(* renderers refuse.                                                       *)
(***************************************************************************)
EXTENDS StorageTargets

MCTimeMin == -10
MCStrings == {<<>>, <<"a">>, <<NUL>>} \cup JsonWords
MCTextInputs ==
  UpTo({"0", "1", "9", "-", ".", "a"}, 4) \cup {<<"1", NUL>>, <<"0", "-", NUL, "a">>, <<"-", "1", NUL>>,
     <<"A", "-", "0", "0">>}
MCFold(name) == IF name = "A" THEN "a" ELSE name

field(name, id, given, type) ==
  [name |-> name, id |-> id, presence |-> given, nullable |-> given \in {"EXPLICIT", "ONEOF"},
   oneof |-> IF given = "ONEOF" THEN "choice" ELSE "", number |-> id % 10, role |-> "PROTO_FIELD",
   type |-> type]
child(id, type) == [field("", id, "NOT_APPLICABLE", type) EXCEPT !.role = "CHILD"]
kind(k) == [kind |-> k]
enum(closed) == [kind |-> "enum", closed |-> closed, values |-> <<0, 1>>]
listOf(type, fixed) == [kind |-> "list", element |-> child(21, type), fixed |-> fixed]
mapOf(key, value) == [kind |-> "map", key |-> child(31, key), value |-> child(32, value)]
message(fields) == [kind |-> "struct", fields |-> fields]
json(j) == [kind |-> "json", json |-> j]

Scalars == {kind(k) : k \in {"int32", "int64", "uint32", "uint64", "double", "float", "bool", "string", "bytes"}}
             \cup {enum(c) : c \in BOOLEAN}
Semantic == {kind("timestamp"), kind("duration"), kind("uuid"),
             [kind |-> "decimal", precision |-> 1, scale |-> 0],
             [kind |-> "decimal", precision |-> 1, scale |-> 1],
             [kind |-> "decimal", precision |-> 2, scale |-> 1],
             [kind |-> "fixed_bytes", width |-> 1], [kind |-> "fixed_bytes", width |-> 3],
             json("value")}
Nested == {message(<<>>), message(<<field("b", 11, "IMPLICIT", kind("bool")), field("s", 12, "EXPLICIT", kind("uint32"))>>),
           message(<<field("r", 11, "REQUIRED", kind("bool"))>>),
           message(<<field("p", 11, "ONEOF", kind("bool")), field("q", 12, "ONEOF", enum(TRUE))>>),
           message(<<field("null", 11, "EXPLICIT", kind("bool"))>>),
           message(<<field("in", 11, "EXPLICIT", message(<<field("t", 13, "EXPLICIT", kind("string"))>>))>>)}
Elements == {kind("bool"), kind("string"), enum(TRUE), kind("uint32"),
             message(<<field("r", 11, "REQUIRED", kind("bool"))>>),
             message(<<field("x", 11, "EXPLICIT", enum(TRUE))>>)}

One(given, types) == {<<field("a", 1, given, t)>> : t \in types}
FieldLists ==
  One("IMPLICIT", Scalars \ {enum(TRUE)})
  \cup One("EXPLICIT", Scalars \cup Semantic \cup Nested)
  \cup One("REQUIRED", {kind("bool"), kind("string"), enum(TRUE), kind("uuid")} \cup Nested)
  \cup One("REPEATED", {listOf(t, 0) : t \in Elements}
                         \cup {listOf(kind(k), n) : k \in {"float", "double"}, n \in {0, 1, 2}})
  \cup One("MAP", {mapOf(k, v) : k \in {kind("bool"), kind("string")}, v \in {kind("bool"), enum(TRUE), kind("string")}})
  \cup One("EXPLICIT", {message(<<field("l", 11, "REPEATED", listOf(enum(TRUE), 0)),
                                  field("m", 12, "MAP", mapOf(kind("bool"), kind("bool")))>>),
                        json("list_value"), json("struct"), json("any"),
                        message(<<field("v", 11, "REPEATED", listOf(kind("float"), 1))>>)})
  \cup {<<>>,
        <<field("a", 1, "IMPLICIT", kind("bool")), field("A", 2, "EXPLICIT", kind("bool"))>>,
        <<field("__invariant_a", 1, "EXPLICIT", kind("bool"))>>,
        <<field("a", 1, "ONEOF", kind("bool"))>>,
        <<field("a", 1, "ONEOF", kind("bool")), field("b", 2, "ONEOF", kind("uint32")),
          field("c", 3, "ONEOF", message(<<field("t", 11, "EXPLICIT", kind("bool"))>>))>>,
        <<field("a", 1, "ONEOF", [kind |-> "fixed_bytes", width |-> 1]), field("b", 2, "IMPLICIT", kind("bool")),
          field("c", 3, "ONEOF", enum(TRUE))>>}
MCDatasets ==
  {[fields |-> fs, retired |-> <<40>>] : fs \in FieldLists}
  \cup {[fields |-> <<field("a", 1, "EXPLICIT", kind("bool"))>>, retired |-> r] : r \in {<<1>>, <<41>>}}
=============================================================================
