--------------------------- MODULE OpenApiSchema ---------------------------
(***************************************************************************)
(* OpenAPI schemas translated to protobuf types and messages               *)
(* (src/go/internal/openapiimport/schema.go and model.go).                 *)
(*                                                                         *)
(* The converter c is [components, service, messages, types, building,     *)
(* err]; every translation returns [c, type], and once c.err is set        *)
(* nothing else happens.  A generated type name is the sequence of its     *)
(* words.                                                                  *)
(***************************************************************************)
EXTENDS OpenApiTypes, SequencesExt, TLC

CONSTANTS
    WireNames,      \* the names of parameters and properties, in string order
    TypeWords,      \* wire or component name -> words of protoTypeName
    FieldName       \* wire name -> protoFieldName

\* A normal form with a letter outside ASCII has the word "?".
Portable(name) == "?" \notin ToSet(name)

\* fieldConstraints keeps the rules of the elements apart from those of the field.
CollectionType(k, e, rules) ==
    [kind |-> k, name |-> e.name, elem |-> e.kind, rules |-> rules, items |-> e.rules]

(***************************************************************************)
(* Collections, objects and component references.                          *)
(***************************************************************************)

RECURSIVE typeForSchema(_, _, _)
RECURSIVE componentType(_, _)

\* A lower bound above zero, and a negative or contradictory one, is refused.
BadSize(lo, hi) == (\E v \in lo : v # 0) \/ (\E v \in hi : v < 0)

arrayType(c, s, name) ==
    IF rejectKeywords(s, {"array"}) \/ s.items = {} THEN Fail(c, "keyword")
    ELSE LET e == typeForSchema(c, The(s.items), Append(name, "Item")) IN
         CASE e.c.err # "none" -> e
           [] e.c.err = "none" /\ e.type.kind \in {"list", "map"} -> Fail(e.c, "nested")
           [] OTHER ->
                IF BadSize(s.minItems, s.maxItems) \/ (s.uniqueItems /\ e.type.kind = "message")
                THEN Fail(e.c, "constraint")
                ELSE Ok(e.c, CollectionType("list", e.type,
                               Size("max_items", s.maxItems)
                               \cup {Rule("unique", 1) : u \in {TRUE} \cap {s.uniqueItems}}))

mapType(c, s, name) ==
    LET v == typeForSchema(c, The(s.values), Append(name, "Value")) IN
    CASE v.c.err # "none" -> v
      [] v.c.err = "none" /\ v.type.kind \in {"list", "map"} -> Fail(v.c, "nested")
      [] OTHER -> IF BadSize(s.minProperties, s.maxProperties) THEN Fail(v.c, "constraint")
                  ELSE Ok(v.c, CollectionType("map", v.type, Size("max_pairs", s.maxProperties)))

\* Mutant: a second message of the same name replaces the first.
addMessageAnyway(c, name, fields) ==
    IF ~Portable(name) \/ name = c.service
    THEN [c EXCEPT !.err = "collision"]
    ELSE [c EXCEPT !.messages = (name :> fields) @@ @]

\* A message name has one owner, and is not the service's.
addMessage(c, name, fields) ==
    IF ~Portable(name) \/ name = c.service \/ name \in DOMAIN c.messages
    THEN [c EXCEPT !.err = "collision"]
    ELSE [c EXCEPT !.messages = (name :> fields) @@ @]

\* Properties in the order of their wire names.
populateMessage(c, s, name) ==
    IF \/ Cardinality(ToSet(s.required)) # Len(s.required)
       \/ ~(ToSet(s.required) \subseteq DOMAIN s.properties)
    THEN [c EXCEPT !.err = "required"]
    ELSE LET step(acc, w) ==
                 IF acc.c.err # "none" THEN acc
                 ELSE IF ~Portable(TypeWords[w]) THEN [acc EXCEPT !.c.err = "identifier"]
                 ELSE addField(acc, FieldName[w], w,
                               typeForSchema(acc.c, s.properties[w], name \o TypeWords[w]),
                               w \in ToSet(s.required))
             all == FoldLeft(step, [c |-> c, fields |-> <<>>],
                             SelectSeq(WireNames, LAMBDA w : w \in DOMAIN s.properties))
         IN  IF all.c.err # "none" THEN all.c
             ELSE [all.c EXCEPT !.messages[name] = all.fields]

\* Mutant: the message of a component is published after its fields.
objectTypeLate(c, s, name, component) ==
    CASE \/ rejectKeywords(s, {"object"})
         \/ s.additional \in {"absent", "open"}
         \/ s.additional = "typed" /\ (DOMAIN s.properties # {} \/ s.required # <<>>)
         \/ s.additional = "closed" /\ (s.minProperties # {} \/ s.maxProperties # {})
           -> Fail(c, "object")
      [] OTHER ->
           IF s.additional = "typed" THEN mapType(c, s, name)
           ELSE LET added     == addMessage(c, name, <<>>)
                    whole     == populateMessage(added, s, name)
                IN  IF added.err # "none" THEN Fail(added, added.err)
                    ELSE IF whole.err # "none" THEN Fail(whole, whole.err)
                    ELSE Ok(whole, MessageType(name))

\* The message of a component is published before its fields are walked.
objectType(c, s, name, component) ==
    CASE \/ rejectKeywords(s, {"object"})
         \/ s.additional \in {"absent", "open"}
         \/ s.additional = "typed" /\ (DOMAIN s.properties # {} \/ s.required # <<>>)
         \/ s.additional = "closed" /\ (s.minProperties # {} \/ s.maxProperties # {})
           -> Fail(c, "object")
      [] OTHER ->
           IF s.additional = "typed" THEN mapType(c, s, name)
           ELSE LET added     == addMessage(c, name, <<>>)
                    published == [added EXCEPT !.types =
                                    [k \in component |-> MessageType(name)] @@ @]
                    whole     == populateMessage(published, s, name)
                IN  IF added.err # "none" THEN Fail(added, added.err)
                    ELSE IF whole.err # "none" THEN Fail(whole, whole.err)
                    ELSE Ok(whole, MessageType(name))

\* component is {} for an inline schema, and the component's name otherwise.
typeForResolvedSchema(c, s, name, component) ==
    IF ~validateCommonSchema(s) THEN Fail(c, "keyword")
    ELSE LET kind == schemaKind(s) IN
         CASE kind = "boolean" -> booleanType(c, s)
           [] kind = "string"  -> stringType(c, s)
           [] kind = "integer" -> integerType(c, s)
           [] kind = "number"  -> numberType(c, s)
           [] kind = "array"   -> arrayType(c, s, name)
           [] kind = "object"  -> objectType(c, s, name, component)
           [] OTHER -> Fail(c, "kind")

typeForSchema(c, s, name) ==
    CASE s.ref # {} /\ s.siblings  -> Fail(c, "siblings")
      [] s.ref # {} /\ ~s.siblings -> componentType(c, The(s.ref))
      [] OTHER -> typeForResolvedSchema(c, s, name, {})

\* The type r of component n is kept for the next reference to it.
Built(n, r) ==
    IF r.c.err # "none" THEN r
    ELSE Ok([r.c EXCEPT !.building = @ \ {n}, !.types = (n :> r.type) @@ @], r.type)

\* Only an object may be met again while it is being translated.
componentType(c, n) ==
    CASE n \in DOMAIN c.types -> Ok(c, c.types[n])
      [] n \notin DOMAIN c.types /\ n \in c.building -> Fail(c, "recursive")
      [] n \notin DOMAIN c.types /\ n \notin c.building /\ n \notin DOMAIN c.components ->
           Fail(c, "missing")
      [] OTHER ->
           LET s  == c.components[n]
               c2 == [c EXCEPT !.building = @ \cup {n}]
           IN  Built(n, IF s.ref # {} THEN typeForSchema(c2, s, TypeWords[n])
                        ELSE typeForResolvedSchema(c2, s, TypeWords[n], {n}))
=============================================================================
