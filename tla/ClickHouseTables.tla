-------------------------- MODULE ClickHouseTables --------------------------
(***************************************************************************)
(* The ClickHouse renderer and its Iceberg publishing plan.  Columns are   *)
(* physical types with defaults; a CHECK is an expression tree the         *)
(* renderer builds from the leaves up, wrapping it for presence, tuples,   *)
(* arrays and maps by replacing the placeholder of the current value.      *)
(***************************************************************************)
EXTENDS LakeSchemas

CONSTANT MaxFixedString     \* widest FixedString the renderer emits

ReservedPrefix == "__invariant_"
Ex(op, args) == [op |-> op, args |-> args, data |-> ""]
Ex1(op, args, data) == [op |-> op, args |-> args, data |-> data]
Value == Ex("value", <<>>)
Column(name) == Ex1("column", <<>>, name)
tupleElement(e, name) == Ex1("tupleElement", <<e>>, name)
oneofCaseName(oneof) == ReservedPrefix \o "oneof_" \o oneof \o "_case"
scopeElement(name, topLevel) == IF topLevel THEN Column(name) ELSE tupleElement(Value, name)

RECURSIVE replaceValue(_, _)
replaceValue(e, r) ==
  IF e.op = "value" THEN r ELSE [e EXCEPT !.args = [i \in DOMAIN @ |-> replaceValue(@[i], r)]]

Check(path, kind, e) == [path |-> path, kind |-> kind, expr |-> e]
Rewrite(checks, Wrap(_)) == [i \in DOMAIN checks |-> [checks[i] EXCEPT !.expr = Wrap(@)]]

(***************************************************************************)
(* mapType, mapField and mapScope.  A failed mapping refuses the dataset.  *)
(***************************************************************************)
Failed == [ok |-> FALSE]
RECURSIVE mapField(_, _)
RECURSIVE mapScope(_, _, _)

ClickHousePrimitive ==
  [double |-> "Float64", float |-> "Float32", int64 |-> "Int64", uint64 |-> "UInt64",
   int32 |-> "Int32", uint32 |-> "UInt32", bool |-> "Bool", string |-> "ByteString",
   bytes |-> "ByteString"]

Leaf(T, compatibility, checks) ==
  [ok |-> TRUE, ty |-> T, compat |-> compatibility, checks |-> checks, diags |-> <<>>,
   composite |-> FALSE]
Composite(T, compatibility, checks, diags) ==
  [ok |-> TRUE, ty |-> T, compat |-> compatibility, checks |-> checks, diags |-> diags,
   composite |-> TRUE]

NamedTuple(path, scope) ==
  LET unit == "__invariant_unit"
  IN IF ~scope.ok THEN Failed
     ELSE IF scope.decls = <<>>
     THEN Composite([t |-> "Tuple", elements |-> <<<<unit, [t |-> "Bool"]>>>>], "REPRESENTATION_CHANGED",
            <<Check(path, "unit", Ex("not", <<tupleElement(Value, unit)>>))>>, <<>>)
     ELSE Composite([t |-> "Tuple", elements |-> [i \in DOMAIN scope.decls |->
                       <<scope.decls[i].name, scope.decls[i].ty>>]],
            "LOSSLESS", scope.checks, scope.diags)
structType(t, path) == NamedTuple(path, mapScope(t.fields, path, FALSE))

ArrayOf(t, path, element) ==
  LET all(e) == Ex1("arrayAll", <<replaceValue(e, Ex1("variable", <<>>, "element")), Value>>, "element")
  IN IF ~element.ok THEN Failed
     ELSE Composite([t |-> "Array", of |-> element.ty], "LOSSLESS",
            (IF t.fixed # 0 THEN <<Check(path, "fixed_list", Ex1("lengthIs", <<Value>>, t.fixed))>> ELSE <<>>)
              \o Rewrite(element.checks, all),
            element.diags)
listType(t, path) == ArrayOf(t, path, mapField(t.element, Append(path, "[]")))

MapOf(path, key, value) ==
  LET keys(e) == Ex1("arrayAll", <<replaceValue(e, Ex1("variable", <<>>, "key")), Ex("mapKeys", <<Value>>)>>, "key")
      values(e) == Ex1("arrayAll", <<replaceValue(e, Ex1("variable", <<>>, "value")), Ex("mapValues", <<Value>>)>>, "value")
  IN IF ~key.ok \/ ~value.ok \/ key.ty.t = "Nullable" THEN Failed
     ELSE Composite([t |-> "Map", key |-> key.ty, value |-> value.ty],
            "REPRESENTATION_CHANGED",
            <<Check(path, "map_keys", Ex("distinctKeys", <<Value>>))>>
              \o Rewrite(key.checks, keys) \o Rewrite(value.checks, values),
            key.diags \o value.diags)
mapTypeOf(t, path) ==
  MapOf(path, mapField(t.key, Append(path, "key")), mapField(t.value, Append(path, "value")))

mapType(t, path) ==
  CASE t.kind = "string" ->
         Leaf([t |-> "ByteString"], "LOSSLESS", <<Check(path, "utf8", Ex("isValidUTF8", <<Value>>))>>)
    [] t.kind # "string" /\ t.kind \in DOMAIN ClickHousePrimitive ->
         Leaf([t |-> ClickHousePrimitive[t.kind]], "LOSSLESS", <<>>)
    [] t.kind = "enum" ->
         IF t.values = <<>> THEN Failed
         ELSE Leaf([t |-> "Int32"], "LOSSLESS",
                IF t.closed THEN <<Check(path, "closed_enum", Ex1("in", <<Value>>, ToSet(t.values)))>> ELSE <<>>)
    [] t.kind = "struct" -> structType(t, path)
    [] t.kind = "list" -> listType(t, path)
    [] t.kind = "map" -> mapTypeOf(t, path)
    [] t.kind = "timestamp" -> Leaf([t |-> "NanoTime"], "RANGE_REDUCED", <<>>)
    [] t.kind = "duration" -> Leaf([t |-> "Int64"], "RANGE_REDUCED", <<>>)
    [] t.kind = "json" ->
         Leaf([t |-> "ByteString"], "RANGE_REDUCED", <<Check(path, "json", Ex("isValidJSON", <<Value>>))>>)
    [] t.kind = "decimal" ->
         Leaf([t |-> "Decimal", precision |-> t.precision, scale |-> t.scale], "REPRESENTATION_CHANGED", <<>>)
    [] t.kind = "uuid" -> Leaf([t |-> "UUID"], "REPRESENTATION_CHANGED", <<>>)
    [] t.kind = "fixed_bytes" ->
         IF t.width \notin 1..MaxFixedString THEN Failed
         ELSE Leaf([t |-> "FixedString", width |-> t.width], "REPRESENTATION_CHANGED", <<>>)

preserveStrongerCompatibility(c) == IF c = "LOSSLESS" THEN "REPRESENTATION_CHANGED" ELSE c

Wrapped(T) == [t |-> "Tuple", elements |-> <<<<"present", [t |-> "Bool"]>>, <<"value", T>>>>]
WhenPresent(e) ==
  Ex("or", <<Ex("not", <<tupleElement(Value, "present")>>), replaceValue(e, tupleElement(Value, "value"))>>)
WhenNotNull(e) ==
  Ex("or", <<Ex("isNull", <<Value>>), replaceValue(e, Ex("assumeNotNull", <<Value>>))>>)

ClickHouseZero(t) ==
  CASE t.kind \in {"uint32", "uint64"} -> <<"u", 0>>
    [] t.kind \in {"string", "bytes"} -> <<"s", <<>>>>
    [] OTHER -> Zero(t)

\* The field f whose value has the mapping m.
WithPresence(f, path, m) ==
  LET result(T, default, checks, compatibility) ==
        [ok |-> TRUE, ty |-> T, default |-> default, checks |-> checks,
         diags |-> <<Node(path, compatibility)>> \o m.diags]
      stronger == preserveStrongerCompatibility(m.compat)
  IN IF ~m.ok THEN Failed
     ELSE CASE f.presence = "IMPLICIT" ->
            IF f.nullable \/ ~(f.type.kind \in DOMAIN ClickHousePrimitive \cup {"enum"}) THEN Failed
            ELSE result(m.ty, ClickHouseZero(f.type), m.checks, m.compat)
       [] f.presence = "EXPLICIT" ->
            IF ~f.nullable THEN Failed
            ELSE IF m.composite
            THEN result(Wrapped(m.ty), <<"type">>, Rewrite(m.checks, WhenPresent), stronger)
            ELSE result(Optional(m.ty), Null, Rewrite(m.checks, WhenNotNull), stronger)
       [] f.presence = "REQUIRED" ->
            IF f.nullable THEN Failed
            ELSE result(Wrapped(m.ty), <<"type">>,
                   <<Check(path, "required", tupleElement(Value, "present"))>> \o Rewrite(m.checks, WhenPresent),
                   stronger)
       [] f.presence = "ONEOF" ->
            IF f.oneof = "" \/ ~f.nullable THEN Failed
            ELSE result(Wrapped(m.ty), <<"type">>, Rewrite(m.checks, WhenPresent), stronger)
       [] f.presence = "REPEATED" ->
            IF f.nullable \/ f.type.kind # "list" THEN Failed
            ELSE result(m.ty, IF FixedList(f.type) THEN <<"type">> ELSE <<"L", <<>>>>, m.checks, m.compat)
       [] f.presence = "MAP" ->
            IF f.nullable \/ f.type.kind # "map" THEN Failed
            ELSE result(m.ty, <<"P", <<>>>>, m.checks, m.compat)
       [] f.presence = "NOT_APPLICABLE" ->
            IF f.role = "PROTO_FIELD" \/ f.nullable THEN Failed
            ELSE result(m.ty, <<"type">>, m.checks, m.compat)
mapField(f, path) == WithPresence(f, path, mapType(f.type, path))

HasPrefix(s, p) == Len(s) >= Len(p) /\ SubSeq(s, 1, Len(p)) = p

ScopeRefused(fields, topLevel) ==
  \/ \E i \in DOMAIN fields :
       \/ HasPrefix(fields[i].name, ReservedPrefix)
       \/ ~topLevel /\ fields[i].name = "null"
       \/ fields[i].oneof = "" /\ fields[i].presence = "ONEOF"
       \/ fields[i].oneof # "" /\ (fields[i].presence # "ONEOF" \/ ~fields[i].nullable \/ fields[i].number = 0)
  \/ \E i, k \in DOMAIN fields :
       /\ i # k
       /\ \/ fields[i].name = fields[k].name
          \/ fields[i].oneof # "" /\ fields[i].oneof = fields[k].oneof /\ fields[i].number = fields[k].number

\* Mutant: a member need not be present for its number to be the case.
oneofPresenceOneWay(fields, i, path, topLevel) ==
  IF fields[i].oneof = "" THEN <<>>
  ELSE <<Check(Append(path, fields[i].name), "oneof_presence",
           Ex("or", <<Ex1("in", <<scopeElement(oneofCaseName(fields[i].oneof), topLevel)>>, {fields[i].number}),
                      Ex("not", <<tupleElement(scopeElement(fields[i].name, topLevel), "present")>>)>>))>>

\* A member of a oneof is present exactly when its number is the case.
oneofPresence(fields, i, path, topLevel) ==
  IF fields[i].oneof = "" THEN <<>>
  ELSE <<Check(Append(path, fields[i].name), "oneof_presence",
           Ex("same", <<Ex1("in", <<scopeElement(oneofCaseName(fields[i].oneof), topLevel)>>, {fields[i].number}),
                        tupleElement(scopeElement(fields[i].name, topLevel), "present")>>))>>

ScopeOf(fields, path, topLevel, mapped) ==
  LET case(i) == oneofCaseName(fields[i].oneof)
      group(i) == {k \in DOMAIN fields : fields[k].oneof = fields[i].oneof}
      leads(i) == fields[i].oneof # "" /\ \A k \in group(i) : i <= k
      element(i) == scopeElement(fields[i].name, topLevel)
      declare(i) ==
        (IF leads(i) THEN <<[name |-> case(i), ty |-> [t |-> "Int32"], default |-> <<"i", 0>>]>> ELSE <<>>)
        \o <<[name |-> fields[i].name, ty |-> mapped[i].ty, default |-> mapped[i].default]>>
      onElement(i) == [c \in DOMAIN mapped[i].checks |->
        [mapped[i].checks[c] EXCEPT !.expr = replaceValue(@, element(i))]]
      checksOf(i) ==
        (IF leads(i)
         THEN <<Check(Append(path, fields[i].oneof), "oneof_case",
                  Ex1("in", <<scopeElement(case(i), topLevel)>>, {0} \cup {fields[k].number : k \in group(i)}))>>
         ELSE <<>>)
        \o oneofPresence(fields, i, path, topLevel)
        \o onElement(i)
  IN IF ScopeRefused(fields, topLevel) \/ \E i \in DOMAIN fields : ~mapped[i].ok THEN Failed
     ELSE [ok |-> TRUE,
           decls |-> FlattenSeq([i \in DOMAIN fields |-> declare(i)]),
           checks |-> FlattenSeq([i \in DOMAIN fields |-> checksOf(i)]),
           diags |-> FlattenSeq([i \in DOMAIN fields |-> mapped[i].diags])]
mapScope(fields, path, topLevel) ==
  ScopeOf(fields, path, topLevel,
          [i \in DOMAIN fields |-> mapField(fields[i], Append(path, fields[i].name))])

TableOf(fields, scope) ==
  LET unit == "__invariant_unit"
  IN IF ~scope.ok THEN Failed
     ELSE IF \E i, k \in DOMAIN scope.checks :
               i # k /\ scope.checks[i].path = scope.checks[k].path /\ scope.checks[i].kind = scope.checks[k].kind
     THEN Failed
     ELSE IF fields # <<>> THEN scope
     ELSE [scope EXCEPT !.decls = <<[name |-> unit, ty |-> [t |-> "Bool"], default |-> <<"o", FALSE>>]>>,
                        !.checks = <<Check(<<>>, "unit", Ex("not", <<Column(unit)>>))>>]
ClickHouseSchema(fields) == TableOf(fields, mapScope(fields, <<>>, TRUE))

(***************************************************************************)
(* ClickHouse as the renderer uses it: defaults of types and the value of  *)
(* an expression, given the columns of the row and the lambda variables.   *)
(***************************************************************************)
RECURSIVE TypeDefault(_)
TypeDefault(T) ==
  CASE T.t \in {"Int32", "Int64"} -> <<"i", 0>>
    [] T.t \in {"UInt32", "UInt64"} -> <<"u", 0>>
    [] T.t \in {"Float32", "Float64"} -> <<"r", 0>>
    [] T.t = "Decimal" -> <<"d", 0>>
    [] T.t = "Bool" -> <<"o", FALSE>>
    [] T.t = "ByteString" -> <<"s", <<>>>>
    [] T.t = "FixedString" -> <<"b", [i \in 1..T.width |-> NUL]>>
    [] T.t = "UUID" -> <<"uu", [i \in 1..UuidLength |-> IF i \in UuidHyphens THEN "-" ELSE "0"]>>
    [] T.t = "NanoTime" -> <<"dt", 0>>
    [] T.t = "Nullable" -> Null
    [] T.t = "Array" -> <<"L", <<>>>>
    [] T.t = "Map" -> <<"P", <<>>>>
    [] T.t = "Tuple" ->
         <<"S", [n \in {T.elements[i][1] : i \in DOMAIN T.elements} |->
            TypeDefault((CHOOSE e \in ToSet(T.elements) : e[1] = n)[2])]>>

RECURSIVE Eval(_, _, _)
Eval(e, row, vars) ==
  LET arg(i) == Eval(e.args[i], row, vars)
      truth(b) == <<"o", b>>
  IN CASE e.op = "column" -> row[e.data]
       [] e.op = "variable" -> vars[e.data]
       [] e.op = "value" -> vars["{value}"]
       [] e.op = "tupleElement" -> arg(1)[2][e.data]
       [] e.op \in {"assumeNotNull", "true"} -> IF e.op = "true" THEN truth(TRUE) ELSE arg(1)
       [] e.op = "isNull" -> truth(arg(1) = Null)
       [] e.op = "not" -> truth(~arg(1)[2])
       [] e.op = "or" -> truth(IF arg(1)[2] THEN TRUE ELSE arg(2)[2])
       [] e.op = "and" -> truth(IF arg(1)[2] THEN arg(2)[2] ELSE FALSE)
       [] e.op = "same" -> truth(arg(1)[2] = arg(2)[2])
       [] e.op = "in" -> truth(arg(1)[2] \in e.data)
       [] e.op = "isValidUTF8" -> truth("BAD" \notin ToSet(arg(1)[2]))
       [] e.op = "isValidJSON" -> truth(arg(1)[2] \in JsonWords)
       [] e.op = "lengthIs" -> truth(Len(arg(1)[2]) = e.data)
       [] e.op = "mapKeys" -> <<"L", [i \in DOMAIN arg(1)[2] |-> arg(1)[2][i][1]]>>
       [] e.op = "mapValues" -> <<"L", [i \in DOMAIN arg(1)[2] |-> arg(1)[2][i][2]]>>
       [] e.op = "distinctKeys" ->
            truth(LET pairs == arg(1)[2] IN \A i, k \in DOMAIN pairs : pairs[i][1] = pairs[k][1] => i = k)
       [] e.op = "arrayAll" ->
            truth(LET items == arg(2)[2] IN
                  \A i \in DOMAIN items : Eval(e.args[1], row, (e.data :> items[i]) @@ vars)[2])
       [] e.op = "accurateCast" -> <<"d", arg(1)[2]>>
       [] e.op \in {"toInt64", "toUnixTimestamp64Nano"} -> <<"i", arg(1)[2]>>

\* The row stored for the values offered, and whether the CHECKs let it in.
ClickHouseStored(table, row) ==
  [n \in {table.decls[i].name : i \in DOMAIN table.decls} |->
     LET i == SelectInSeq(table.decls, LAMBDA d : d.name = n)
         d == table.decls[i]
     IN IF row[i] # <<"omitted">> THEN row[i]
        ELSE IF d.default = <<"type">> THEN TypeDefault(d.ty) ELSE d.default]

ClickHouseAccepts(table, stored) ==
  \A i \in DOMAIN table.checks : Eval(table.checks[i].expr, stored, EmptyMap)[2]

\* What a stored ClickHouse value means to a reader of the documented columns, who takes
\* a member of a oneof to be set when its present flag is, and a row whose case says
\* otherwise for torn.
Torn == <<"torn">>
CaseAgrees(fields, i, m) ==
  LET case == m[oneofCaseName(fields[i].oneof)][2]
      group == {k \in DOMAIN fields : fields[k].oneof = fields[i].oneof}
      set == {fields[k].number : k \in {j \in group : m[fields[j].name][2]["present"][2]}}
  IN set = IF case = 0 THEN {} ELSE {case}

RECURSIVE ClickHouseMeaning(_, _)
FieldMeaning(fields, i, m) ==
  LET f == fields[i]
      v == m[f.name]
      flagged == f.presence \in {"REQUIRED", "ONEOF"} \/ (f.presence = "EXPLICIT" /\ mapType(f.type, <<>>).composite)
  IN CASE f.oneof # "" /\ ~CaseAgrees(fields, i, m) -> Torn
       [] flagged -> IF v[2]["present"][2] THEN ClickHouseMeaning(f.type, v[2]["value"]) ELSE Null
       [] OTHER -> ClickHouseMeaning(f.type, v)
ScopeMeaning(fields, m) ==
  [n \in {fields[i].name : i \in DOMAIN fields} |->
     FieldMeaning(fields, SelectInSeq(fields, LAMBDA f : f.name = n), m)]
ClickHouseMeaning(t, v) ==
  CASE v = Null -> Null
    [] t.kind = "struct" -> <<"S", ScopeMeaning(t.fields, v[2])>>
    [] t.kind = "list" -> <<"L", [i \in DOMAIN v[2] |-> ClickHouseMeaning(t.element.type, v[2][i])]>>
    [] t.kind = "map" ->
         MapMeaning([i \in DOMAIN v[2] |-> <<ClickHouseMeaning(t.key.type, v[2][i][1]),
                                             ClickHouseMeaning(t.value.type, v[2][i][2])>>])
    [] OTHER -> Meaning(t, v)

(***************************************************************************)
(* projection.go: the plan a publisher follows from ClickHouse to Iceberg. *)
(***************************************************************************)
\* Mutant: a uint32 is published as the unsigned value it is in ClickHouse.
conversionOfWide(t, e) ==
  CASE t.kind = "uint64" -> Ex("accurateCast", <<e>>)
    [] t.kind = "timestamp" -> Ex("toUnixTimestamp64Nano", <<e>>)
    [] OTHER -> e

conversionExpression(t, e) ==
  CASE t.kind = "uint64" -> Ex("accurateCast", <<e>>)
    [] t.kind = "uint32" -> Ex("toInt64", <<e>>)
    [] t.kind = "timestamp" -> Ex("toUnixTimestamp64Nano", <<e>>)
    [] OTHER -> e

presence(f, composite) ==
  CASE f.presence = "EXPLICIT" /\ ~composite -> Ex("not", <<Ex("isNull", <<Value>>)>>)
    [] f.presence = "ONEOF" ->
         Ex("and", <<tupleElement(Value, "present"),
                     Ex1("in", <<Ex1("variable", <<>>, "{case}")>>, {f.number})>>)
    [] f.presence \in {"REQUIRED", "EXPLICIT"} -> tupleElement(Value, "present")
    [] OTHER -> Ex("true", <<>>)

RECURSIVE projectField(_, _, _)
ProjectionNode(f, path, schema, composite) ==
  LET entry == FindFieldByID(schema, f.id)
      value == CASE f.presence = "EXPLICIT" /\ ~composite -> Ex("assumeNotNull", <<Value>>)
                 [] f.presence \in {"EXPLICIT", "REQUIRED", "ONEOF"} -> tupleElement(Value, "value")
                 [] OTHER -> Value
  IN [name |-> f.name, type |-> f.type,
      iceberg |-> IF entry = 0 THEN [t |-> "missing"] ELSE schema.ids[entry].ty,
      presence |-> presence(f, composite),
      value |-> conversionExpression(f.type, value),
      discriminator |-> IF f.presence = "ONEOF" THEN oneofCaseName(f.oneof) ELSE "",
      children |-> [i \in DOMAIN Children(f.type) |->
        projectField(Children(f.type)[i][2], Append(path, Children(f.type)[i][1]), schema)]]
projectField(f, path, schema) == ProjectionNode(f, path, schema, mapType(f.type, path).composite)

PlanOf(fields, schema) ==
  IF ~ClickHouseSchema(fields).ok \/ ~schema.ok THEN Failed
  ELSE [ok |-> TRUE, plan |-> [i \in DOMAIN fields |-> projectField(fields[i], <<fields[i].name>>, schema)]]
ProjectToIceberg(fields, retired) == PlanOf(fields, IcebergSchema(fields, retired))

\* A publisher applies a node to a physical value: the value expression only
\* when the presence expression holds, then the children.
RECURSIVE Publish(_, _, _)
PublishScope(nodes, m) ==
  [n \in {nodes[i].name : i \in DOMAIN nodes} |->
     LET node == nodes[SelectInSeq(nodes, LAMBDA x : x.name = n)]
     IN Publish(node, m[n], IF node.discriminator = "" THEN Null ELSE m[node.discriminator])]
Publish(node, v, case) ==
  LET vars == ("{value}" :> v) @@ ("{case}" :> case)
  IN IF ~Eval(node.presence, EmptyMap, vars)[2] THEN Null
     ELSE LET x == Eval(node.value, EmptyMap, vars)
          IN CASE node.type.kind = "struct" -> <<"S", PublishScope(node.children, x[2])>>
               [] node.type.kind = "list" ->
                    <<"L", [i \in DOMAIN x[2] |-> Publish(node.children[1], x[2][i], Null)]>>
               [] node.type.kind = "map" ->
                    <<"P", [i \in DOMAIN x[2] |-> <<Publish(node.children[1], x[2][i][1], Null),
                                                     Publish(node.children[2], x[2][i][2], Null)>>]>>
               [] OTHER -> x
=============================================================================
