------------------------------ MODULE MCOutbound ------------------------------
(***************************************************************************)
(* An instance for TLC of what leaves through ConnectHTTP: OpenApiImport,  *)
(* the contracts that it makes or that are written by hand and the calls   *)
(* through them; and HttpClient, the attempts of one call.                 *)
(*                                                                         *)
(* Four families of small OpenAPI documents and some hand-written          *)
(* contracts: two components that refer to each other in every way, names  *)
(* that collide, parameters in every place, and every combination of the   *)
(* numeric bounds.                                                         *)
(***************************************************************************)
EXTENDS OpenApiImport, HttpClient

MCWireNames == <<"body", "q", "user.id", "userId", "user_id", "~">>

MCTypeWords ==
    [body |-> <<"Body">>, q |-> <<"Q">>, A |-> <<"A">>, B |-> <<"B">>, books |-> <<"Books">>,
     userId |-> <<"User", "Id">>, user_id |-> <<"User", "Id">>, GetRequest |-> <<"Get", "Request">>]
    @@ "user.id" :> <<"User", "Id">> @@ "~" :> <<"?">>

MCFieldName ==
    [body |-> "body", q |-> "q", userId |-> "user_id", user_id |-> "user_id"]
    @@ "user.id" :> "user_id" @@ "~" :> "?"

MCParts ==
    [n \in {"body", "q", "userId", "user_id", "~", "key", "value", "book", "id", "user", "tags", "shelf"} |-> <<n>>]
    @@ "user.id" :> <<"user", "id">>

MCMinInt == -4
MCBase == <<[text |-> <<"api">>, escapes |-> 0]>>
MCTexts == {<<"plain">>, <<"special", "plain">>}

Blank == [ref |-> {}, siblings |-> FALSE, unsupported |-> FALSE, types |-> <<>>, format |-> "",
          minLength |-> {}, maxLength |-> {}, pattern |-> {}, enum |-> <<>>,
          minimum |-> {}, maximum |-> {}, exclusiveMinimum |-> {}, exclusiveMaximum |-> {},
          items |-> {}, minItems |-> {}, maxItems |-> {}, uniqueItems |-> FALSE,
          properties |-> <<>>, required |-> <<>>, additional |-> "absent", values |-> {},
          minProperties |-> {}, maxProperties |-> {}]
Str == [Blank EXCEPT !.types = <<"string">>]
Ref(n) == [Blank EXCEPT !.ref = {n}]
Arr(s) == [Blank EXCEPT !.types = <<"array">>, !.items = {s}]
MapOf(s) == [Blank EXCEPT !.types = <<"object">>, !.additional = "typed", !.values = {s}]
Obj(props, req) == [Blank EXCEPT !.types = <<"object">>, !.additional = "closed",
                                 !.properties = props, !.required = req]

Lit(s) == [var |-> FALSE, text |-> s]
Var(w) == [var |-> TRUE, text |-> w]
BodyOf(s, r) == {[json |-> TRUE, schema |-> s, required |-> r]}

Get == [method |-> "get", path |-> <<Lit("books")>>, slash |-> FALSE, templateOk |-> TRUE,
        itemParameters |-> <<>>, parameters |-> <<>>, body |-> {}, id |-> <<"Get">>,
        callbacks |-> FALSE, success |-> {200}, wildcard |-> FALSE, response |-> {}]
Post == [Get EXCEPT !.method = "post", !.id = <<"Post">>]
Param(in, w, r, s) == [in |-> in, name |-> w, required |-> r, style |-> "default", schema |-> s]

Doc(components, ops) ==
    [title |-> <<"Shelf">>, components |-> components, operations |-> ops,
     webhooks |-> FALSE, faults |-> {}]

Shapes ==
    {Str, Obj(<<>>, <<>>)} \cup
    UNION {{Ref(n), Arr(Ref(n)), MapOf(Ref(n)), Obj([q |-> Ref(n)], <<>>), Obj([q |-> Ref(n)], <<"q">>),
            Arr(Obj([q |-> Ref(n)], <<>>)), Obj([q |-> Str, userId |-> Arr(Ref(n))], <<>>)} :
             n \in {"A", "B"}} \cup {Ref("missing")}

GraphDocuments ==
    {Doc([A |-> a, B |-> b],
         <<[Post EXCEPT !.body = BodyOf(Ref(n), FALSE), !.response = BodyOf(Ref("A"), FALSE)]>>) :
        a, b \in Shapes, n \in {"A", "B"}}

Inline == Obj([userId |-> Str], <<"userId">>)

NameDocuments ==
    {Doc([n \in {x} |-> Obj([q |-> Str], <<>>)],
         <<[Get EXCEPT !.response = BodyOf(Ref(x), FALSE), !.parameters = ps],
           [Post EXCEPT !.id = id, !.body = BodyOf(s, TRUE)]>>) :
        x \in {"A", "GetRequest"}, id \in {<<>>, <<"Get">>, <<"A">>, <<"?">>},
        s \in {Inline, Obj([userId |-> Str, user_id |-> Str], <<>>), Obj(<<>>, <<"q">>), Obj("~" :> Str, <<>>),
               [Str EXCEPT !.format = "date-time"]},
        ps \in {<<>>, <<Param("query", "userId", FALSE, Str)>>}}

ParamSchemas == {Str, Arr(Str), Inline}

ParamDocuments ==
    {Doc(<<>>, <<[Post EXCEPT !.path = <<Lit("books")>> \o [i \in DOMAIN ws |-> Var(ws[i])],
                              !.slash = (Len(ws) = 1),
                              !.itemParameters = [i \in DOMAIN ws |-> Param("path", ws[i], TRUE, Str)]
                                                 \o <<Param("query", "q", ~r, Str)>>,
                              !.parameters = <<Param(in, "q", r, s)>>,
                              !.body = b, !.response = BodyOf(Inline, FALSE)]>>) :
        ws \in {<<>>, <<"user.id">>, <<"userId", "user_id">>, <<"userId", "body">>, <<"userId", "userId">>},
        in \in {"query", "path", "header"}, r \in BOOLEAN, s \in ParamSchemas,
        b \in {{}, BodyOf(Str, TRUE)} \cup {BodyOf(x, FALSE) : x \in {Str, Inline, Arr(Inline), MapOf(Str)}}}

Exclusive == {{}} \cup {{[bool |-> TRUE, on |-> x, value |-> 0]} : x \in BOOLEAN}
             \cup {{[bool |-> FALSE, on |-> FALSE, value |-> v]} : v \in {-2, 1, 2}}
Bound == {{}, {-2}, {1}, {2}, {6}}

NumericDocuments ==
    {Doc([A |-> [Blank EXCEPT !.types = <<IF f = "int32" THEN "integer" ELSE "number">>, !.format = f,
                              !.minimum = lo, !.maximum = hi,
                              !.exclusiveMinimum = xlo, !.exclusiveMaximum = xhi]],
         <<[Post EXCEPT !.body = BodyOf(Ref("A"), TRUE)]>>) :
        f \in {"int32", "float", "double"}, lo, hi \in Bound, xlo, xhi \in Exclusive}

BadSchemas ==
    {[Str EXCEPT !.minimum = {0}], [Str EXCEPT !.unsupported = TRUE], [Str EXCEPT !.types = <<"string", "null">>],
     [Str EXCEPT !.types = <<"string", "integer">>], Blank, [Str EXCEPT !.format = "byte", !.minLength = {1}],
     [Str EXCEPT !.minLength = {2}, !.maxLength = {1}], [Str EXCEPT !.format = "unknown"],
     [Str EXCEPT !.enum = <<1, 1>>], [Arr(Str) EXCEPT !.minItems = {1}], Arr(Arr(Str)), MapOf(Arr(Str)),
     [Arr(Inline) EXCEPT !.uniqueItems = TRUE], [Inline EXCEPT !.additional = "open"],
     [Inline EXCEPT !.maxProperties = {1}], [Ref("A") EXCEPT !.siblings = TRUE],
     [Blank EXCEPT !.types = <<"integer">>]}
GoodSchemas ==
    {[Str EXCEPT !.minLength = {0}, !.maxLength = {2}, !.pattern = {"RE2"}, !.enum = <<1, 2>>, !.format = "uuid"],
     [Str EXCEPT !.format = "byte"], [Blank EXCEPT !.types = <<"boolean">>], [Inline EXCEPT !.types = <<>>],
     [Arr(Str) EXCEPT !.types = <<>>, !.maxItems = {2}, !.uniqueItems = TRUE]}

OtherDocuments ==
    {Doc(<<>>, <<[Post EXCEPT !.body = BodyOf(s, FALSE)]>>) : s \in BadSchemas \cup GoodSchemas}
    \cup {Doc(<<>>, <<o>>) :
            o \in {[Get EXCEPT !.body = BodyOf(Str, FALSE)], [Get EXCEPT !.callbacks = TRUE],
                   [Get EXCEPT !.success = {200, 201}], [Get EXCEPT !.wildcard = TRUE],
                   [Get EXCEPT !.templateOk = FALSE], [Get EXCEPT !.method = "head"],
                   [Post EXCEPT !.body = {[json |-> FALSE, schema |-> Str, required |-> FALSE]}],
                   [Get EXCEPT !.path = <<Var("userId")>>],
                   [Get EXCEPT !.parameters = <<[Param("query", "q", FALSE, Str) EXCEPT !.style = "other"]>>]}}
    \cup {[Doc(<<>>, <<Get>>) EXCEPT !.faults = {x}] :
             x \in {"empty", "large", "package", "syntax", "version", "external"}}
    \cup {[Doc(<<>>, <<Get>>) EXCEPT !.webhooks = TRUE],
          Doc(<<>>, <<>>), [Doc(<<>>, <<Get>>) EXCEPT !.title = <<"Shelf", "Service">>]}

MCDocuments == GraphDocuments \cup NameDocuments \cup ParamDocuments \cup NumericDocuments \cup OtherDocuments

(***************************************************************************)
(* Hand-written contracts: a book with a nested message, every template    *)
(* and every selector.                                                     *)
(***************************************************************************)
BookDescriptor ==
    <<"book">> :> [json |-> "book", message |-> TRUE] @@ <<"book", "id">> :> [json |-> "id", message |-> FALSE]
    @@ <<"book", "tags">> :> [json |-> "tags", message |-> FALSE]
    @@ <<"shelf">> :> [json |-> "shelf", message |-> FALSE]

AllTexts == MCTexts \cup {<<"">>, <<"plain", "", "special">>}

BookMessages ==
    {i @@ t @@ s : i \in {NoFields} \cup {<<"book", "id">> :> Scalar(x) : x \in AllTexts},
                   t \in {NoFields, <<"book", "tags">> :> ListOf(<<<<"plain">>, <<"special">>>>),
                          <<"book", "tags">> :> Objects},
                   s \in {NoFields, <<"shelf">> :> Null} \cup {<<"shelf">> :> Scalar(x) : x \in MCTexts}}
    \cup {<<"book">> :> EmptyObject}

Field(f, w) == [var |-> TRUE, text |-> "", field |-> f, wildcard |-> w]
Plain(s) == [var |-> FALSE, text |-> s, field |-> <<>>, wildcard |-> ""]

Rules ==
    {[segs |-> segs, slash |-> slash, connect |-> FALSE, body |-> b[1], bodyField |-> b[2],
      responseBody |-> b[1], responseField |-> b[2]] :
        segs \in {<<>>, <<Plain("books"), Field(<<"book", "id">>, "*")>>,
                  <<Field(<<"shelf">>, ""), Field(<<"book", "id">>, "**")>>,
                  <<Field(<<"book", "id">>, "**"), Plain("books")>>, <<Field(<<>>, "*")>>,
                  <<Field(<<"shelf">>, "*.json")>>, <<Field(<<"shelf", "id">>, "*")>>, <<Field(<<"book">>, "*")>>},
        slash \in BOOLEAN,
        b \in {<<"none", <<>>>>, <<"all", <<>>>>, <<"field", <<"book">>>>, <<"field", <<"book", "tags">>>>,
               <<"field", <<"id">>>>}}

\* A contract without an HTTP rule, and one message.
Ping ==
    [rule |-> ConnectRule("Ping"), request |-> BookDescriptor, response |-> BookDescriptor,
     messages |-> {NoFields}, replies |-> {NoFields}]

MCContracts ==
    {Ping} \cup
    {[rule |-> r, request |-> BookDescriptor, response |-> BookDescriptor, messages |-> BookMessages,
      replies |-> {<<"shelf">> :> Scalar(<<"plain">>), <<"id">> :> Scalar(<<"plain">>), NoFields}] :
        r \in Rules \cup {ConnectRule("GetBook")}}

\* Nonsense, zero, a second, and a delay that the width cannot hold.
MCRetryAfter == {-1, 0, 1, 20}

(***************************************************************************)
(* The attempts of a call.  Bound: of a call of Ping, for they depend on   *)
(* the method of the request and on nothing else of it; so the states of   *)
(* the two parts add up.                                                   *)
(***************************************************************************)
AtRest == pc = "contract" /\ doc = NoDocument /\ methods = <<Ping>>

MCInit == Init /\ ClientInit /\ (method = "GET" \/ AtRest)
MCNext ==
    \/ phase = "start" /\ method = "GET" /\ ~ended /\ Next /\ UNCHANGED clientVars
    \/ AtRest /\ ClientNext /\ UNCHANGED vars
MCSpec == MCInit /\ [][MCNext]_<<vars, clientVars>> /\ ClientFairness
================================================================================
