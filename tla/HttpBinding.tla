---------------------------- MODULE HttpBinding ----------------------------
(***************************************************************************)
(* How an outbound call becomes an HTTP request: the google.api.http path  *)
(* template, the choice of what goes into the path, the body and the query *)
(* string, and how a reply body becomes a response message                 *)
(* (src/go/http_transcoding.go, src/go/http_client.go).                    *)
(*                                                                         *)
(* A JSON object is the function from the paths of its leaves to the       *)
(* leaves; a path is a sequence of JSON names.  Every leaf is              *)
(* [kind, texts]: a scalar has one text, a list of scalars any number, a   *)
(* list of objects, an empty object and a null have none.  A text is the   *)
(* sequence of its chunks between slashes; a chunk is empty, plain, or     *)
(* contains a character that a URL path cannot carry unescaped.            *)
(***************************************************************************)
EXTENDS Naturals, Sequences

CONSTANT Parts  \* the parts a JSON name splits into at its dots

\* A part has no dots.
ASSUME BindingAssumption ==
    \A w \in DOMAIN Parts :
        /\ Parts[w] \in Seq(DOMAIN Parts)
        /\ \A i \in DOMAIN Parts[w] : Parts[Parts[w][i]] = <<Parts[w][i]>>

Scalar(t) == [kind |-> "scalar", texts |-> <<t>>]
ListOf(ts) == [kind |-> "list", texts |-> ts]
Objects == [kind |-> "objects", texts |-> <<>>]
EmptyObject == [kind |-> "empty", texts |-> <<>>]
Null == [kind |-> "null", texts |-> <<>>]

NoFields == [p \in {} |-> EmptyObject]

AtOrBelow(p, q) == Len(p) <= Len(q) /\ SubSeq(q, 1, Len(p)) = p
Parent(p) == SubSeq(p, 1, Len(p) - 1)

\* The sequences of s one after the other.
Chain(s) ==
    LET upTo[i \in 0..Len(s)] == IF i = 0 THEN <<>> ELSE upTo[i - 1] \o s[i]
    IN  upTo[Len(s)]

\* The leaves of obj at or below p, and the value found there.
Under(obj, p) == {q \in DOMAIN obj : AtOrBelow(p, q)}
Below(obj, p) ==
    [q \in {SubSeq(u, Len(p) + 1, Len(u)) : u \in Under(obj, p)} |-> obj[p \o q]]

getNestedField(obj, p) == [found |-> Under(obj, p) # {}, value |-> Below(obj, p)]

\* Deleting the last key of a nested object leaves that object, empty.
deleteNestedField(obj, p) ==
    LET rest == DOMAIN obj \ Under(obj, p)
        emptied == {u \in {Parent(p)} : /\ u # <<>>
                                       /\ rest # DOMAIN obj
                                       /\ \A q \in rest : ~AtOrBelow(u, q)}
    IN  [q \in rest \cup emptied |-> IF q \in rest THEN obj[q] ELSE EmptyObject]

(***************************************************************************)
(* Bindings.  A raw segment is [var, text, field, wildcard].               *)
(***************************************************************************)

\* A variable is one segment, or the whole rest of the path when it is last.
parsePathTemplate(rule) ==
    IF \E i \in DOMAIN rule.segs :
          LET s == rule.segs[i] IN
          s.var /\ \/ s.field = <<>>
                   \/ s.wildcard \notin {"", "*", "**"}
                   \/ s.wildcard = "**" /\ i # Len(rule.segs)
    THEN [ok |-> FALSE]
    ELSE [ok |-> TRUE,
          segments |-> [i \in DOMAIN rule.segs |->
                          [var |-> rule.segs[i].var, text |-> rule.segs[i].text,
                           field |-> IF rule.segs[i].var THEN rule.segs[i].field ELSE <<>>,
                           multi |-> rule.segs[i].wildcard = "**"]],
          slash |-> rule.slash /\ rule.segs # <<>>]

\* Mutant: the names of the fields are taken for their JSON names.
protobufFieldPath(desc, fieldPath) ==
    IF \A i \in DOMAIN fieldPath :
          /\ SubSeq(fieldPath, 1, i) \in DOMAIN desc
          /\ i < Len(fieldPath) => desc[SubSeq(fieldPath, 1, i)].message
    THEN [ok |-> TRUE, path |-> fieldPath]
    ELSE [ok |-> FALSE, path |-> <<>>]

\* The descriptor maps the path of a field to [json, message].  The JSON names
\* are joined with dots, so a dot inside a name splits it when it is looked up.
protobufJSONFieldPath(desc, fieldPath) ==
    IF \A i \in DOMAIN fieldPath :
          /\ SubSeq(fieldPath, 1, i) \in DOMAIN desc
          /\ i < Len(fieldPath) => desc[SubSeq(fieldPath, 1, i)].message
    THEN [ok |-> TRUE,
          path |-> Chain([i \in DOMAIN fieldPath |->
                                 Parts[desc[SubSeq(fieldPath, 1, i)].json]])]
    ELSE [ok |-> FALSE, path |-> <<>>]

\* body and responseBody: "none", "all", or a selector.
Selected(desc, sel, fieldPath) ==
    IF sel = "field" THEN protobufJSONFieldPath(desc, fieldPath) ELSE [ok |-> TRUE, path |-> <<>>]

newHTTPClientBinding(rule, request, response) ==
    LET t    == parsePathTemplate(rule)
        body == Selected(request, rule.body, rule.bodyField)
        resp == Selected(response, rule.responseBody, rule.responseField)
        field(i) == protobufJSONFieldPath(request, t.segments[i].field)
    IN  IF \/ ~t.ok \/ ~body.ok \/ ~resp.ok
           \/ \E i \in DOMAIN t.segments : t.segments[i].var /\ ~field(i).ok
        THEN [ok |-> FALSE]
        ELSE [ok |-> TRUE, connect |-> rule.connect,
              segments |-> [i \in DOMAIN t.segments |->
                              IF t.segments[i].var
                              THEN [t.segments[i] EXCEPT !.field = field(i).path]
                              ELSE t.segments[i]],
              slash |-> t.slash, body |-> rule.body, bodyField |-> body.path,
              responseBody |-> rule.responseBody, responseField |-> resp.path]

\* A method without a rule is called on its Connect route.
ConnectRule(method) ==
    [segs |-> [i \in 1..2 |-> [var |-> FALSE, text |-> <<"service", method>>[i],
                               field |-> <<>>, wildcard |-> ""]],
     slash |-> FALSE, connect |-> TRUE, body |-> "all", bodyField |-> <<>>,
     responseBody |-> "none", responseField |-> <<>>]

(***************************************************************************)
(* The request.  A path segment on the wire is [text, escapes], where      *)
(* escapes counts the percent-encodings applied to it.                     *)
(***************************************************************************)

\* What a path segment cannot carry as it is.
NeedsEscape(t) == Len(t) > 1 \/ \E i \in DOMAIN t : t[i] = "special"

PathEscape(t) == [text |-> t, escapes |-> IF NeedsEscape(t) THEN 1 ELSE 0]

encodePathValue(t, multi) ==
    IF multi THEN [i \in DOMAIN t |-> PathEscape(<<t[i]>>)] ELSE <<PathEscape(t)>>

Literal(s) == [text |-> <<s>>, escapes |-> 0]

\* Every variable must be present and scalar; a null is not.
expandPath(b, args) ==
    LET value(i) == getNestedField(args, b.segments[i].field)
        vars     == {i \in DOMAIN b.segments : b.segments[i].var}
    IN  IF \E i \in vars : \/ ~value(i).found
                           \/ DOMAIN value(i).value # {<<>>}
                           \/ value(i).value[<<>>].kind # "scalar"
        THEN [ok |-> FALSE]
        ELSE [ok |-> TRUE,
              segs |-> Chain([i \in DOMAIN b.segments |->
                         IF i \in vars
                         THEN encodePathValue(value(i).value[<<>>].texts[1], b.segments[i].multi)
                         ELSE <<Literal(b.segments[i].text)>>]),
              slash |-> IF b.segments = <<>> THEN TRUE ELSE b.slash]

\* A field the selector names but the message lacks sends no body; an empty
\* message sends one only on the Connect route.
encodeBody(b, args) ==
    IF b.body = "none" THEN [sent |-> FALSE, value |-> NoFields]
    ELSE IF b.body = "all" THEN [sent |-> DOMAIN args # {} \/ b.connect, value |-> args]
    ELSE [sent |-> getNestedField(args, b.bodyField).found,
          value |-> getNestedField(args, b.bodyField).value]

QueryKey(p) == Chain([i \in DOMAIN p |-> Parts[p[i]]])

\* Nested objects become dotted keys, lists repeat their key, an empty object
\* and a null add nothing; a list of objects is refused.
encodeQueryFields(args) ==
    IF \E p \in DOMAIN args : args[p].kind = "objects"
    THEN [ok |-> FALSE]
    ELSE [ok |-> TRUE,
          query |-> {[key |-> QueryKey(p), texts |-> args[p].texts] :
                        p \in {p \in DOMAIN args : args[p].kind \notin {"empty", "null"}}}]

\* url.URL.String escapes what a path cannot carry: in a text that is escaped already, the
\* percent signs.
URLString(segs) ==
    [i \in DOMAIN segs |->
        IF NeedsEscape(segs[i].text) THEN [segs[i] EXCEPT !.escapes = @ + 1] ELSE segs[i]]

\* What is left of a message when the fields of the path are taken out of it.
Remaining(b, args) ==
    LET left[i \in 0..Len(b.segments)] ==
            IF i = 0 THEN args
            ELSE IF b.segments[i].var THEN deleteNestedField(left[i - 1], b.segments[i].field)
            ELSE left[i - 1]
    IN  left[Len(b.segments)]

\* Mutant: the body's field stays in the query as well.
buildKeepingBody(b, args, base) ==
    LET path  == expandPath(b, args)
        rest  == Remaining(b, args)
        query == encodeQueryFields(IF b.body = "all" THEN NoFields ELSE rest)
    IN  IF ~path.ok \/ ~query.ok
        THEN [ok |-> FALSE]
        ELSE [ok |-> TRUE, segs |-> base \o URLString(path.segs), slash |-> path.slash,
              body |-> encodeBody(b, rest), query |-> query.query]

build(b, args, base) ==
    LET path  == expandPath(b, args)
        rest  == Remaining(b, args)
        left  == IF b.body = "field" THEN deleteNestedField(rest, b.bodyField) ELSE rest
        query == encodeQueryFields(IF b.body = "all" THEN NoFields ELSE left)
    IN  IF ~path.ok \/ ~query.ok
        THEN [ok |-> FALSE]
        ELSE [ok |-> TRUE, segs |-> base \o URLString(path.segs), slash |-> path.slash,
              body |-> encodeBody(b, rest), query |-> query.query]

(***************************************************************************)
(* The reply.                                                              *)
(***************************************************************************)

wrapResponseBody(payload, field) == [q \in {field \o p : p \in DOMAIN payload} |->
                                       payload[SubSeq(q, Len(field) + 1, Len(q))]]

\* An empty body is the empty message; fields the response lacks are dropped.
decodeHTTPResponse(b, reply, names) ==
    IF ~reply.sent THEN NoFields
    ELSE LET all == IF b.responseBody = "field"
                    THEN wrapResponseBody(reply.value, b.responseField) ELSE reply.value
         IN  [q \in {p \in DOMAIN all : p # <<>> /\ p[1] \in names} |-> all[q]]

(***************************************************************************)
(* Reading a request back.  The text of a path value is read as an         *)
(* upstream reads it that undoes every percent-encoding, as the one of     *)
(* src/go/http_client_test.go does.  Leaves that have nothing to send, an  *)
(* empty object and a null, are not asked for.                             *)
(***************************************************************************)

Entry(key, texts) == [key |-> key, texts |-> texts]
Filled(obj) == {p \in DOMAIN obj : obj[p].kind \notin {"empty", "null"}}

\* The value of variable i in the segments that follow the base.
PathText(b, segs, i) ==
    IF b.segments[i].multi
    THEN Chain([k \in 1..(Len(segs) - i + 1) |-> segs[i + k - 1].text])
    ELSE segs[i].text

FromPath(b, segs) ==
    {Entry(b.segments[i].field, <<PathText(b, segs, i)>>) :
        i \in {i \in DOMAIN b.segments : b.segments[i].var}}

FromBody(b, body) ==
    IF ~body.sent THEN {}
    ELSE {Entry(b.bodyField \o QueryKey(p), body.value[p].texts) : p \in Filled(body.value)}

Populated(args) == {Entry(QueryKey(p), args[p].texts) : p \in Filled(args)}

Keys(entries) == {e.key : e \in entries}

\* The path, the body and the query string hold the message and share no field.
CarriesMessage(b, args, base, request) ==
    LET path == FromPath(b, SubSeq(request.segs, Len(base) + 1, Len(request.segs)))
        body == FromBody(b, request.body)
    IN  /\ path \cup body \cup request.query = Populated(args)
        /\ Keys(path) \cap Keys(body \cup request.query) = {}
        /\ Keys(body) \cap Keys(request.query) = {}
=============================================================================
