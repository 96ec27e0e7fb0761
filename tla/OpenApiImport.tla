--------------------------- MODULE OpenApiImport ---------------------------
(***************************************************************************)
(* An OpenAPI document imported as a protobuf service, and the imported    *)
(* service called over HTTP (src/go/cmd/invariant-openapi/main.go,         *)
(* src/go/internal/openapiimport, src/go/http_client.go).                  *)
(*                                                                         *)
(* One run of the command converts the operations in path and method       *)
(* order, renders the file and renames it into place.  A server then       *)
(* connects to the upstream the document describes: every method gets its  *)
(* HTTP binding, and calls become requests.  A contract written by hand    *)
(* skips the import.                                                       *)
(*                                                                         *)
(* The faults of a document are what the checks in front of the            *)
(* conversion look for: an empty or too large input, an unusable package   *)
(* option, no OpenAPI syntax, another version than 3.0 and 3.1, and        *)
(* references outside the document.                                        *)
(***************************************************************************)
EXTENDS OpenApiSchema, HttpCalls, Relation

CONSTANTS
    Documents,    \* the OpenAPI documents a run may be given
    Contracts,    \* hand-written methods: [rule, request, response, messages]
    Texts         \* the texts a scalar may have

VARIABLES
    doc,      \* the document being imported
    c,        \* the converter
    todo,     \* the operations not converted yet
    output    \* what the output file holds: "old", or the methods imported

vars == <<doc, c, todo, output, callVars>>

NoDocument == [title |-> <<>>, components |-> <<>>, operations |-> <<>>, webhooks |-> FALSE,
               faults |-> {}]
Converter(d, service) ==
    [components |-> d.components, service |-> service, messages |-> <<>>, types |-> <<>>,
     building |-> {}, err |-> "none", names |-> {}]

Init ==
    /\ \/ doc \in Documents /\ pc = "convert" /\ methods = <<>>
       \/ /\ doc = NoDocument /\ pc = "contract"
          /\ methods \in {<<m>> : m \in Contracts}
    /\ c = Converter(doc, <<>>) /\ todo = <<>>
    /\ output = "old" /\ bindings = <<>> /\ call = NoCall

(***************************************************************************)
(* Parameters.                                                             *)
(***************************************************************************)

SameParameter(p, q) == p.in = q.in /\ p.name = q.name
Distinct(ps) == \A i, j \in DOMAIN ps : SameParameter(ps[i], ps[j]) => i = j

\* An operation's parameter takes the place of the path item's.
mergeParameters(op) ==
    LET over(p) == SelectSeq(op.parameters, LAMBDA q : SameParameter(p, q))
    IN  [ok |-> Distinct(op.itemParameters) /\ Distinct(op.parameters),
         params |-> [i \in DOMAIN op.itemParameters |->
                       LET p == op.itemParameters[i]
                       IN  IF over(p) = <<>> THEN p ELSE over(p)[1]]
                    \o SelectSeq(op.parameters,
                         LAMBDA p : \A q \in ToSet(op.itemParameters) : ~SameParameter(p, q))]

\* r is the type of p: a scalar, or in a query a list of scalars.
WireField(acc, p, r) ==
    LET wire == \/ r.type.kind = "scalar"
                \/ p.in = "query" /\ r.type.kind = "list" /\ r.type.elem = "scalar"
    IN  IF r.c.err = "none" /\ ~wire THEN [acc EXCEPT !.c.err = "wire"]
        ELSE addField(acc, FieldName[p.name], p.name, r, p.required)

\* style stands for every serialisation other than the default one.
parameterField(acc, p, parent) ==
    CASE acc.c.err # "none" -> acc
      [] acc.c.err = "none" /\ (p.style # "default" \/ (p.in = "path" /\ ~p.required)) ->
           [acc EXCEPT !.c.err = "parameter"]
      [] acc.c.err = "none" /\ ~Portable(TypeWords[p.name]) ->
           [acc EXCEPT !.c.err = "identifier"]
      [] OTHER ->
           WireField(acc, p, typeForSchema(acc.c, p.schema, parent \o TypeWords[p.name]))

(***************************************************************************)
(* Requests and responses.                                                 *)
(***************************************************************************)

\* Exactly application/json, without encodings, with a schema.
jsonMediaSchema(content) == [ok |-> content.json, schema |-> content.schema]

requestBody(acc, op, name) ==
    CASE acc.c.err # "none" \/ op.body = {} -> acc
      [] acc.c.err = "none" /\ op.body # {} /\ op.method \in {"get", "delete"} ->
           [acc EXCEPT !.c.err = "body"]
      [] OTHER ->
           LET media == jsonMediaSchema(The(op.body)) IN
           IF ~media.ok THEN [acc EXCEPT !.c.err = "media"]
           ELSE addField(acc, "body", "body",
                         typeForSchema(acc.c, media.schema, name \o <<"Request", "Body">>),
                         The(op.body).required)

\* The placeholder of w takes the name of its field.
RenamePlaceholder(acc, w) ==
    [acc EXCEPT !.path = [i \in DOMAIN @ |->
        IF @[i].var /\ @[i].text = w THEN [@[i] EXCEPT !.text = FieldName[w]] ELSE @[i]]]

\* A request without fields is Empty.
RequestMessage(acc, parent) ==
    IF acc.c.err # "none" \/ acc.fields = <<>>
    THEN [c |-> acc.c, path |-> acc.path, input |-> <<"google", "protobuf", "Empty">>]
    ELSE [c |-> addMessage(acc.c, parent, acc.fields), path |-> acc.path, input |-> parent]

\* Path parameters in path order, the body, then query parameters by name.
buildRequest(con, op, name) ==
    LET merged  == mergeParameters(op)
        named(w, in) == SelectSeq(merged.params, LAMBDA p : p.in = in /\ p.name = w)
        variables == FoldLeft(LAMBDA seen, seg :
                                IF seg.var /\ seg.text \notin ToSet(seen)
                                THEN Append(seen, seg.text) ELSE seen, <<>>, op.path)
        parent  == Append(name, "Request")
        pathed  == FoldLeft(LAMBDA acc, w :
                              IF acc.c.err # "none" THEN acc
                              ELSE IF named(w, "path") = <<>> THEN [acc EXCEPT !.c.err = "placeholder"]
                              ELSE RenamePlaceholder(
                                     parameterField(acc, named(w, "path")[1], parent), w),
                            [c |-> con, fields |-> <<>>, path |-> op.path], variables)
        bodied  == requestBody(pathed, op, name)
        queried == FoldLeft(LAMBDA acc, w : IF named(w, "query") = <<>> THEN acc
                                            ELSE parameterField(acc, named(w, "query")[1], parent),
                            bodied, WireNames)
        bad     == \/ ~op.templateOk \/ ~merged.ok
                   \/ \E p \in ToSet(merged.params) : \/ p.in \notin {"path", "query"}
                                                      \/ p.in = "path" /\ p.name \notin ToSet(variables)
    IN  IF bad THEN [c |-> [con EXCEPT !.err = "request"], path |-> op.path, input |-> <<>>]
        ELSE RequestMessage(queried, parent)

ResponseMessage(none, name, all) ==
    IF all.c.err # "none" THEN [none EXCEPT !.c = all.c]
    ELSE [c |-> addMessage(all.c, Append(name, "Response"), all.fields),
          output |-> Append(name, "Response"), selector |-> "field"]

\* The one explicit success response; its only field is a name of the type's.
buildResponse(con, op, name) ==
    LET none == [c |-> con, output |-> <<"google", "protobuf", "Empty">>, selector |-> "none"]
    IN  CASE con.err # "none" -> none
          [] con.err = "none" /\ (op.wildcard \/ Cardinality(op.success) # 1) ->
               [none EXCEPT !.c.err = "response"]
          [] OTHER ->
               IF op.response = {} THEN none
               ELSE IF ~jsonMediaSchema(The(op.response)).ok THEN [none EXCEPT !.c.err = "media"]
               ELSE ResponseMessage(none, name,
                      addField([c |-> con, fields |-> <<>>], "value", "value",
                               typeForSchema(con, jsonMediaSchema(The(op.response)).schema,
                                             name \o <<"Response", "Body">>), FALSE))

fallbackMethodName(op) ==
    <<op.method>> \o FlattenSeq([i \in DOMAIN op.path |->
                         IF op.path[i].var THEN <<"by">> \o TypeWords[op.path[i].text]
                         ELSE TypeWords[op.path[i].text]])

\* The google.api.http option of a method.
writeMethod(op, path, selector) ==
    [segs |-> [i \in DOMAIN path |-> [var |-> path[i].var, text |-> path[i].text,
                                      field |-> <<path[i].text>>, wildcard |-> "*"]],
     slash |-> op.slash, connect |-> FALSE,
     body |-> IF op.body = {} THEN "none" ELSE "field", bodyField |-> <<"body">>,
     responseBody |-> selector, responseField |-> <<"value">>]

MethodOf(op, req, resp) ==
    [c |-> resp.c,
     method |-> [op |-> op, input |-> req.input, output |-> resp.output,
                 rule |-> writeMethod(op, req.path, resp.selector)]]

Responding(op, name, req) == MethodOf(op, req, buildResponse(req.c, op, name))

convertOperation(con, op) ==
    LET name == IF op.id = <<>> THEN fallbackMethodName(op) ELSE op.id
    IN  IF op.callbacks \/ ~Portable(name) \/ name \in con.names
        THEN [c |-> [con EXCEPT !.err = "operation"]]
        ELSE Responding(op, name, buildRequest([con EXCEPT !.names = @ \cup {name}], op, name))

(***************************************************************************)
(* The command.                                                            *)
(***************************************************************************)

Fails(con) ==
    /\ pc' = "failed" /\ c' = con
    /\ UNCHANGED <<doc, todo, methods, output, bindings, call>>

\* The components a schema refers to.
RECURSIVE Refs(_)
Refs(s) == s.ref \cup UNION {Refs(x) : x \in s.items \cup s.values}
           \cup UNION {Refs(s.properties[w]) : w \in DOMAIN s.properties}

\* n refers to itself through some of the components.
OnCycle(refs(_), names, n) ==
    LET edges == [p \in names \X names |-> p[2] \in refs(doc.components[p[1]])]
    IN  TransitiveClosure(edges, names)[<<n, n>>]

\* libopenapi may refuse a document whose components refer to each other in a circle.
BuildV3Model(d) ==
    IF \E n \in DOMAIN d.components : OnCycle(Refs, DOMAIN d.components, n) THEN BOOLEAN ELSE {TRUE}

\* Whether there is a model to convert.
Convert(d) == IF d.faults # {} THEN {FALSE} ELSE BuildV3Model(d)

\* A document lists its operations sorted by path, then method.
operations(d) ==
    [ok |-> /\ d.operations # <<>>
            /\ \A op \in ToSet(d.operations) :
                 op.method \in {"get", "post", "put", "patch", "delete"},
     specs |-> d.operations]

ServiceName(d) == IF Last(d.title) = "Service" THEN d.title ELSE Append(d.title, "Service")

\* The head of convert.
Start ==
    /\ pc = "convert" /\ c.service = <<>>
    /\ \E built \in Convert(doc) :
       IF ~built \/ ~Portable(ServiceName(doc)) \/ doc.webhooks \/ ~operations(doc).ok
       THEN Fails([c EXCEPT !.err = "document"])
       ELSE /\ c' = Converter(doc, ServiceName(doc)) /\ todo' = operations(doc).specs
            /\ UNCHANGED <<doc, methods, output, pc, bindings, call>>

ConvertOperation ==
    /\ pc = "convert" /\ c.service # <<>> /\ todo # <<>>
    /\ \E r \in {convertOperation(c, Head(todo))} :
          IF r.c.err # "none" THEN Fails(r.c)
          ELSE /\ c' = r.c /\ methods' = Append(methods, r.method) /\ todo' = Tail(todo)
               /\ UNCHANGED <<doc, output, pc, bindings, call>>

\* What the renderer checks once more of a field.
writeField(f) == f.name # "" /\ Portable(<<f.name>>) /\ f.number > 0

\* The file is rendered, or an inconsistency in what the conversion made is reported.
Render ==
    /\ pc = "convert" /\ c.service # <<>> /\ todo = <<>>
    /\ pc' = IF /\ Portable(c.service) /\ methods # <<>>
                /\ \A n \in DOMAIN c.messages :
                      n # <<>> /\ \A f \in ToSet(c.messages[n]) : writeField(f)
             THEN "write" ELSE "failed"
    /\ UNCHANGED <<doc, c, todo, methods, output, bindings, call>>

\* The temporary file is written, synced and renamed, or one of these fails.
WriteFile ==
    /\ pc = "write"
    /\ \/ pc' = "contract" /\ output' = "imported"
       \/ pc' = "failed" /\ UNCHANGED output
    /\ UNCHANGED <<doc, c, todo, methods, bindings, call>>

(***************************************************************************)
(* The client.                                                             *)
(***************************************************************************)

\* The fields under the JSON names that the file gives them.
Descriptor(fields) ==
    [p \in {<<f.name>> : f \in ToSet(fields)} |->
        LET f == CHOOSE f \in ToSet(fields) : p = <<f.name>>
        IN  [json |-> f.json, message |-> f.type.kind = "message"]]

FieldsOf(name) == IF name \in DOMAIN c.messages THEN c.messages[name] ELSE <<>>
RequestOf(m) == IF doc = NoDocument THEN m.request ELSE Descriptor(FieldsOf(m.input))
ResponseOf(m) == IF doc = NoDocument THEN m.response ELSE Descriptor(FieldsOf(m.output))

ConnectHTTP ==
    /\ Connect([i \in DOMAIN methods |-> RequestOf(methods[i])],
               [i \in DOMAIN methods |-> ResponseOf(methods[i])])
    /\ UNCHANGED <<doc, c, todo, output>>

\* What ProtoJSON writes for a populated field, as paths below it.
Written(f) ==
    CASE f.type.kind = "scalar" \/ f.type = Timestamp -> {<<>> :> Scalar(t) : t \in Texts}
      [] f.type.kind = "list" ->
           IF f.type.elem = "message" THEN {<<>> :> Objects}
           ELSE {<<>> :> ListOf(<<t>>) : t \in Texts}
      [] f.type.kind = "map" -> {<<"key">> :> Scalar(t) : t \in Texts}
      [] OTHER -> {<<>> :> EmptyObject} \cup
                  {<<g.json>> :> Scalar(t) : g \in {g \in ToSet(FieldsOf(f.type.name)) :
                                                     g.type.kind = "scalar"}, t \in Texts}

Placed(f) == {[p \in {<<f.json>> \o q : q \in DOMAIN v} |-> v[Tail(p)]] : v \in Written(f)}

MessagesOf(m) ==
    IF doc = NoDocument THEN m.messages
    ELSE FoldLeft(LAMBDA acc, f : acc \cup {a @@ v : a \in acc, v \in Placed(f)},
                  {NoFields}, FieldsOf(m.input))

\* The upstream answers with the body its document, or the contract, declares.
Replies(m) ==
    {NoReply} \cup
    {[sent |-> TRUE, value |-> v] :
        v \in IF doc = NoDocument THEN m.replies
              ELSE UNION {Written(f) : f \in ToSet(FieldsOf(m.output))}}

Call ==
    /\ \E i \in DOMAIN methods : \E args \in MessagesOf(methods[i]) :
         LET response == ResponseOf(methods[i])
         IN  callProto(i, args, Replies(methods[i]), {response[p].json : p \in DOMAIN response})
    /\ UNCHANGED <<doc, c, todo, output>>

Next == Start \/ ConvertOperation \/ Render \/ WriteFile \/ ConnectHTTP \/ Call

Spec == Init /\ [][Next]_vars

(***************************************************************************)
(* Properties.                                                             *)
(***************************************************************************)

Finished == pc \in {"write", "contract", "refused", "serving"} /\ doc # NoDocument

\* The components a schema refers to outside any object.
RECURSIVE BareRefs(_)
BareRefs(s) == s.ref \cup UNION {BareRefs(x) : x \in s.items \cup s.values}

IsObject(s) == s.additional = "closed"

Resolved(type) == \/ type.kind \notin {"message", "list", "map"}
                  \/ type.kind \in {"list", "map"} /\ type.elem # "message"
                  \/ type.name = Timestamp.name
                  \/ type.name \in DOMAIN c.messages

\* A message says what its object schema says, property by property.
Means(fields, s) ==
    /\ {f.json : f \in ToSet(fields)} = DOMAIN s.properties
    /\ \A f \in ToSet(fields) : f.required <=> f.json \in ToSet(s.required)

(***************************************************************************)
(* An imported contract means what its document says: every type a field   *)
(* names was generated, the message of an object component has exactly the *)
(* properties of that component although components, inline schemas and    *)
(* requests share one namespace of normalised names, a request has the     *)
(* operation's own parameters even where the path item declares them too,  *)
(* and field names and numbers are unique and outside the reserved range   *)
(* (addMessage, populateMessage, mergeParameters, protobufFieldNumber).    *)
(***************************************************************************)
ContractMeansDocument ==
    Finished =>
      /\ \A n \in DOMAIN c.messages :
           /\ SoundFields(c.messages[n])
           /\ \A i \in DOMAIN c.messages[n] : Resolved(c.messages[n][i].type)
      /\ \A n \in DOMAIN c.types : IsObject(doc.components[n]) /\ doc.components[n].ref = {} =>
           Means(c.messages[c.types[n].name], doc.components[n])
      /\ \A i \in DOMAIN methods : \A p \in ToSet(methods[i].op.parameters) :
           \E f \in ToSet(FieldsOf(methods[i].input)) : f.json = p.name /\ f.required = p.required

(***************************************************************************)
(* A cycle of aliases, arrays and maps alone is never imported, and a      *)
(* cycle of objects alone is never refused.  A refusal for recursion has   *)
(* met an alias, array or map that is still being translated, on a cycle   *)
(* of components that are all being translated.  Which cycles with both    *)
(* kinds are refused depends on where they are entered: B, an array of A,  *)
(* with A an object that holds a B, is imported when A is met first, as    *)
(* message A with a repeated A, and refused when B is (componentType,      *)
(* objectType).                                                            *)
(***************************************************************************)
RecursionNeedsObject ==
    /\ Finished => \A n \in DOMAIN c.types : ~OnCycle(BareRefs, DOMAIN doc.components, n)
    /\ c.err = "recursive" =>
         \E n \in c.building \ DOMAIN c.types :
            ~IsObject(doc.components[n]) /\ OnCycle(Refs, c.building, n)

Values(name) == {v \in (MinInt - 2)..(MaxInt + 2) : CASE name = "int32" -> v % 2 = 0 /\ v \in MinInt..MaxInt
                                                   [] name = "float" -> v % 2 = 0
                                                   [] OTHER -> TRUE}

(***************************************************************************)
(* The validation rules of an imported number admit exactly the values its *)
(* schema admits, whichever of the four bound keywords of OpenAPI 3.0 and  *)
(* 3.1 it combines; of a float, all but a value a bound was rounded to     *)
(* (numericBounds, stricterLower, numericLiteral).                         *)
(***************************************************************************)
NumericRulesExact ==
    Finished =>
      \A n \in DOMAIN c.types : LET s == doc.components[n]  name == c.types[n].name[1] IN
        name \in {"int32", "float", "double"} /\ c.types[n].kind = "scalar" /\ s.ref = {} =>
          \A v \in Values(name) : MeansBounds(s, name, c.types[n].rules, v)

TextAt(w) == IF <<w>> \in DOMAIN call.args THEN call.args[<<w>>].texts ELSE <<>>

(***************************************************************************)
(* A call of an imported method is the request its document describes:     *)
(* each placeholder of the document's path holds the value of the          *)
(* parameter of that name, each query parameter travels under its own      *)
(* name, and a reply body comes back in the response field.  The call is   *)
(* refused only for a path parameter that is unset, or whose name has a    *)
(* dot.  It is the request up to the percent-encoding of path values,      *)
(* which EncodedOnce is about (buildRequest, mergeParameters,              *)
(* newHTTPClientBinding).                                                  *)
(***************************************************************************)
ImportedCallAsDocumented ==
    call.made /\ doc # NoDocument =>
      LET op == methods[call.method].op
      IN  IF ~call.request.ok
          THEN \E i \in DOMAIN op.path :
                 op.path[i].var /\ (TextAt(op.path[i].text) = <<>> \/ Len(Parts[op.path[i].text]) > 1)
          ELSE /\ Len(call.request.segs) = Len(Base) + Len(op.path)
               /\ \A i \in DOMAIN op.path :
                    call.request.segs[Len(Base) + i].text =
                      IF op.path[i].var THEN TextAt(op.path[i].text)[1] ELSE <<op.path[i].text>>
               /\ call.request.query = {[key |-> Parts[w], texts |-> TextAt(w)] :
                    w \in {w \in ToSet(WireNames) : TextAt(w) # <<>> /\
                             \E p \in ToSet(op.itemParameters \o op.parameters) :
                                p.in = "query" /\ p.name = w}}
               /\ call.reply.sent => Below(call.result, <<"value">>) = call.reply.value
=============================================================================
