------------------------------- MODULE MCSchema -------------------------------
(***************************************************************************)
(* Instances of SchemaCompiler and SchemaStore for TLC: commands over a    *)
(* bundle, or one dataset that is compiled again and again.                *)
(***************************************************************************)
EXTENDS SchemaStore, SchemaCompiler, TLC

(***************************************************************************)
(* A message with the fields 1 and 3.  Field 1 is an enum that may grow, a *)
(* decimal that has presence or has not, or a list with its element; field *)
(* 3 is a message with one field.                                          *)
(***************************************************************************)
MCIdentity == {"1", "1/e", "3", "3/1"}
ParentOf == ("1" :> "" @@ "1/e" :> "1" @@ "3" :> "" @@ "3/1" :> "3")
RoleOf == ("1" :> "field" @@ "1/e" :> "element" @@ "3" :> "field" @@ "3/1" :> "field")
PositionOf == ("1" :> 1 @@ "1/e" :> 2 @@ "3" :> 3 @@ "3/1" :> 4)
NumberOf == ("1" :> 1 @@ "3" :> 3 @@ "3/1" :> 1)

\* fooBar and foo_bar have one storage name, "_" has none.
MCName == {"fooBar", "foo_bar", "baz", "_"}
StorageOf == ("fooBar" :> "foo_bar" @@ "foo_bar" :> "foo_bar" @@ "baz" :> "baz" @@ "_" :> "")

MCBase == {"enum", "list", "message", "decimal", "implicit_decimal"}
KindOfBase == ("enum" :> "value" @@ "list" :> "list" @@ "message" :> "struct"
             @@ "decimal" :> "value" @@ "implicit_decimal" :> "value")
MCEnumValue == {"v"}

Decimal(presence) ==
    [container |-> "singular", presence |-> presence, default |-> FALSE, fixedList |-> FALSE,
     semantic |-> TRUE, floating |-> FALSE, carrier |-> TRUE, inRange |-> TRUE]
RefinementOf == ("decimal" :> Decimal(TRUE) @@ "implicit_decimal" :> Decimal(FALSE))

Of(base) == [base |-> base, values |-> {}]
Grown == [base |-> "enum", values |-> {"v"}]

(***************************************************************************)
(* The descriptors of the dataset: every combination of how field 1 and    *)
(* field 3 can look, of names, and of names the root message reserves.     *)
(* The numbers of absent fields, and the unused names of the inner         *)
(* message, are either all reserved or not at all.                         *)
(***************************************************************************)
Field1 == {<<>>, "1" :> Of("enum"), "1" :> Grown, "1" :> Of("list") @@ "1/e" :> Of("enum"),
           "1" :> Of("decimal"), "1" :> Of("implicit_decimal")}
Field3 == {<<>>, "3" :> Of("message"), "3" :> Of("message") @@ "3/1" :> Of("enum")}

\* A refined field has one name: the names of field 1 are exercised by its other shapes.
NamesOf(i, shapes) ==
    IF i # "1" THEN {"fooBar", "baz"}
    ELSE IF shapes["1"].base \in DOMAIN RefinementOf THEN {"foo_bar"} ELSE MCName

Namings(shapes) ==
    {n \in [DOMAIN shapes \ {"1/e"} -> MCName] : \A i \in DOMAIN n : n[i] \in NamesOf(i, shapes)}

\* The names a message may still reserve, and the numbers.
Unused(n, scope) == {"fooBar", "foo_bar", "baz"} \ {n[i] : i \in DOMAIN n \cap scope}
Absent(fields) == ({"1", "3"} \cup (IF "3" \in fields THEN {"3/1"} ELSE {})) \ fields

Written(shapes, n, reservedName, reservedNumber) ==
    [fields |-> DOMAIN shapes,
     name |-> [i \in MCIdentity |-> IF i \in DOMAIN n THEN n[i] ELSE "none"],
     shape |-> [i \in MCIdentity |-> IF i \in DOMAIN shapes THEN shapes[i] ELSE NoShape],
     reservedName |-> [s \in MCIdentity \cup {""} |->
                          IF s \in DOMAIN reservedName THEN reservedName[s] ELSE {}],
     reservedNumber |-> reservedNumber]

Versions(shapes, n) ==
    {Written(shapes, n, "" :> r @@ "3" :> q, k)
        : r \in SUBSET Unused(n, {"1", "3"}),
          q \in {{}, IF "3" \in DOMAIN shapes
                     THEN Unused(n, {"3/1"}) \ {"foo_bar"} ELSE {}},
          k \in {{}, Absent(DOMAIN shapes)}}

Clash(n) == {"1", "3"} \subseteq DOMAIN n /\ n["1"] = n["3"]

(***************************************************************************)
(* The descriptors that commands are given: a list, alone or with a        *)
(* message, or nothing.  The id of its element depends on what came first. *)
(***************************************************************************)
ShapeOf == ("1" :> Of("list") @@ "1/e" :> Of("enum") @@ "3" :> Of("message"))
NameOf == ("1" :> "baz" @@ "3" :> "fooBar")
StoreDescriptors ==
    {LET absent == {"1", "3"} \ fields
     IN  Written([i \in fields |-> ShapeOf[i]], [i \in fields \ {"1/e"} |-> NameOf[i]],
                 "" :> {NameOf[i] : i \in absent}, absent)
        : fields \in {{}, {"1", "1/e"}, {"1", "1/e", "3"}}}

AllDescriptors ==
    StoreDescriptors \cup
    UNION {UNION {Versions(shapes, n) : n \in {m \in Namings(shapes) : ~Clash(m)}}
             : shapes \in {f @@ g : f \in Field1, g \in Field3}}

\* Two messages, whose tables have different names.
TableOf == ("M" :> "m" @@ "N" :> "n")

\* TLC evaluates a definition once, and a constant's replacement each time it is used.
MCParent == ParentOf
MCRole == RoleOf
MCVisit == PositionOf
MCNumber == NumberOf
MCStorage == StorageOf
MCKindOf == KindOfBase
MCRefinement == RefinementOf
MCDescriptors == AllDescriptors
MCSources == StoreDescriptors
MCTableName == TableOf

Symmetry == Permutations(Process)

(***************************************************************************)
(* Commands run before the dataset is first compiled, and the dataset is   *)
(* compiled while there is no bundle: the two parts do not meet, and their *)
(* states add up.                                                          *)
(***************************************************************************)
NoCommand ==
    /\ serial /\ file = NoBundle /\ disk = NoBundle /\ rendered = {}
    /\ \A p \in Process : pc[p] = "idle" /\ out[p] = NoBundle

MCInit == Init /\ SchemaInit
MCNext ==
    \/ first /\ Next /\ UNCHANGED schemaVars
    \/ NoCommand /\ SchemaNext /\ UNCHANGED vars
MCSpec == MCInit /\ [][MCNext]_<<vars, schemaVars>>
================================================================================
