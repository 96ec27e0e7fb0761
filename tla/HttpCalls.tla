----------------------------- MODULE HttpCalls -----------------------------
(***************************************************************************)
(* A server connected to an HTTP upstream (src/go/http_client.go): the     *)
(* connection gives every method its binding, and a call becomes a request *)
(* by the binding of its method.  Where the contract comes from is left    *)
(* open here; OpenApiImport takes it from a document or from a file.       *)
(***************************************************************************)
EXTENDS HttpBinding

CONSTANT Base  \* the path segments of the upstream's base URL

VARIABLES
    pc,       \* where the run is
    methods,  \* the methods of the contract, each with its rule
    bindings, \* the HTTP bindings of the connected methods
    call      \* the call made: [method, args, request, reply, result]

callVars == <<pc, methods, bindings, call>>

NoCall == [made |-> FALSE]
NoReply == [sent |-> FALSE, value |-> NoFields]

WireSegment == [text : Seq(STRING), escapes : Nat]
ASSUME BaseAssumption == Base \in Seq(WireSegment)

\* A rule for a request with this descriptor, and the messages ProtoJSON writes: two
\* populated fields never have the same dotted key.
Contract(rule, request) ==
    /\ rule.segs \in Seq([var : BOOLEAN, text : STRING, field : Seq(STRING), wildcard : STRING])
    /\ rule.body \in {"none", "all", "field"} /\ rule.bodyField \in Seq(STRING)
    /\ \A p \in DOMAIN request : request[p].json \in DOMAIN Parts

Message(args) ==
    /\ DOMAIN args \subseteq Seq(DOMAIN Parts)
    /\ \A p \in DOMAIN args : /\ args[p].texts \in Seq(Seq(STRING))
                              /\ args[p].kind = "scalar" => Len(args[p].texts) = 1
    /\ \A p, q \in Filled(args) : QueryKey(p) = QueryKey(q) => p = q

\* The service is registered only when every method has a binding.
Connect(requests, responses) ==
    /\ pc = "contract"
    /\ LET b == [i \in DOMAIN methods |->
                   newHTTPClientBinding(methods[i].rule, requests[i], responses[i])]
       IN  IF \E i \in DOMAIN b : ~b[i].ok
           THEN pc' = "refused" /\ UNCHANGED bindings
           ELSE pc' = "serving" /\ bindings' = b
    /\ UNCHANGED <<methods, call>>

\* A request that cannot be built is not sent; names are the fields of the response.
callProto(i, args, replies, names) ==
    /\ pc = "serving" /\ ~call.made
    /\ LET request == build(bindings[i], args, Base) IN
       \E reply \in IF request.ok THEN replies ELSE {NoReply} :
         call' = [made |-> TRUE, method |-> i, args |-> args, request |-> request, reply |-> reply,
                  result |-> IF request.ok THEN decodeHTTPResponse(bindings[i], reply, names)
                             ELSE NoFields]
    /\ UNCHANGED <<pc, methods, bindings>>

(***************************************************************************)
(* The client of any contract and any caller.                              *)
(***************************************************************************)

CallsInit == pc # "serving" /\ bindings = <<>> /\ call = NoCall

\* The contract is being made.
Prepare == pc # "serving" /\ pc' # "serving" /\ UNCHANGED <<bindings, call>>

ConnectContract ==
    \E requests, responses :
       /\ \A i \in DOMAIN methods : Contract(methods[i].rule, requests[i])
       /\ Connect(requests, responses)

CallMethod ==
    \E i \in DOMAIN methods : \E args, replies, names :
       Message(args) /\ callProto(i, args, replies, names)

CallsSpec == CallsInit /\ [][Prepare \/ ConnectContract \/ CallMethod]_callVars

Sent == call.made /\ call.request.ok

(***************************************************************************)
(* A request carries its message: every populated field leaves in exactly  *)
(* one of the path, the body and the query string, whatever the template,  *)
(* the selector and nested fields are, and reading the three places back   *)
(* gives the message (build, expandPath, encodeBody, encodeQueryFields).   *)
(* A field that is null or an empty object is not populated: a body keeps  *)
(* it, a query string does not.  How often a path value is                 *)
(* percent-encoded is the subject of EncodedOnce.                          *)
(***************************************************************************)
RequestCarriesMessage ==
    Sent => CarriesMessage(bindings[call.method], call.args, Base, call.request)

(***************************************************************************)
(* A path value is percent-encoded once, and only if it has a character    *)
(* that a URL path cannot carry, as the comments of google.api.http ask of *)
(* a client (typescript/tests/gen/google/api/http_pb.ts) and the Python    *)
(* and TypeScript clients do.  build encodes it in expandPath and again in *)
(* URL.String.                                                             *)
(***************************************************************************)
EncodedOnce ==
    Sent => \A i \in DOMAIN call.request.segs :
              call.request.segs[i].escapes = IF NeedsEscape(call.request.segs[i].text) THEN 1 ELSE 0
=============================================================================
