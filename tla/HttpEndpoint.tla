------------------------------ MODULE HttpEndpoint ------------------------------
(***************************************************************************)
(* One request to the HTTP projection: the routes of HTTPHandler, unary    *)
(* Connect calls in JSON and binary protobuf (handleHTTP, handleHTTPProto) *)
(* and one JSON-RPC message of POST /mcp (handleMCPHTTP and the dispatch   *)
(* of go/mcp.go behind it).  Calls of server-streaming methods over        *)
(* Connect go on in ConnectStream.  The body may be late, too large, cut   *)
(* short or not decode; the deadline may pass, the client may cancel or    *)
(* disconnect at any point; handlers set metadata, fail or panic.  Sizes   *)
(* are lengths of encoded bodies in small units.                           *)
(***************************************************************************)
EXTENDS ConnectStream, ConnectErrors, McpMessage

CONSTANTS
    Limit,              \* values of the response limits; 0 stands for the default and is not one
    Size,               \* sizes of encoded messages, content blocks and handlers' errors
    EmptySize,          \* of an MCP result without content
    OwnErrorSize        \* of an error of the projection itself

ASSUME EndpointAssumption ==
    /\ Limit \subseteq Nat \ {0} /\ Size \subseteq Nat \ {0}
    /\ EmptySize \in Nat \ {0} /\ OwnErrorSize \in Nat \ {0}

Method == {"GET", "POST", "PUT"}
Path == {"tools", "health", "descriptor", "mcp", "unary", "stream", "other"}
Tool == {"unary", "stream"}

\* What a unary handler returns; a panic is recovered as an internal error.
Outcome == {[kind |-> "ok"]} \cup HandlerError
NoFailure == [err |-> [kind |-> "ok"], size |-> 0]

VARIABLES
    request,            \* method and path
    limit,              \* the response limit that applies to it
    deadline,           \* it has a Connect-Timeout-Ms
    codec,              \* "json", "proto" or, for POST /mcp, "mcp", "mcp_unary", "mcp_stream"
    content,            \* of toolsCallStream: the sizes of the collected blocks
    encodedSize,        \* of toolsCallStream
    limitExceeded,      \* of toolsCallStream
    failure,            \* the error that a unary handler returned, and the size of its encoding
    late,               \* the context had ended when the handler returned
    silent              \* the MCP message is a notification or a client's response

unaryVars == <<codec, content, encodedSize, limitExceeded, failure, late, silent>>
vars == <<callVars, request, limit, deadline, unaryVars>>

Init ==
    /\ pc = "route"
    /\ StreamInit
    /\ request \in [method : Method, path : Path]
    /\ limit \in Limit
    /\ deadline = FALSE
    /\ codec = "none"
    /\ content = <<>> /\ encodedSize = 0 /\ limitExceeded = FALSE
    /\ failure = NoFailure /\ late = FALSE /\ silent = FALSE

(***************************************************************************)
(* Errors.                                                                 *)
(***************************************************************************)
\* Mutant: the error that replaces a large one is not measured.
ErrorOnceLimited(code, size, leading, trailing) ==
    LET limited == IF size > limit THEN "resource_exhausted" ELSE code IN
    Response(grpcCodeToHTTPStatus(limited), limited,
             IF size > limit THEN OwnErrorSize ELSE size, leading, trailing)

\* An error that is too large is replaced by another, or by an empty body.
HttpErrorWithLimit(code, size, leading, trailing) ==
    LET limited == IF size > limit THEN "resource_exhausted" ELSE code IN
    Response(grpcCodeToHTTPStatus(limited), limited,
             IF size <= limit THEN size ELSE IF OwnErrorSize <= limit THEN OwnErrorSize ELSE 0,
             leading, trailing)

\* The handler answers and returns.
Answer(frame) ==
    /\ pc' = "done"
    /\ wire' = Received(frame)
    /\ UNCHANGED <<ended, up, stream, committed, tried, result, wireHeader, request, limit>>

\* An error of the projection itself, before there is metadata to send.
Refuse(code) == Answer(HttpErrorWithLimit(code, OwnErrorSize, {}, {}))

\* http.Error, and the documents: plain bodies that no limit applies to, whose size is
\* not looked at.
Plain(status) == Answer([kind |-> "plain", status |-> status, code |-> "ok"])

(***************************************************************************)
(* HTTPHandler.                                                            *)
(***************************************************************************)
At(m, p) == pc = "route" /\ request = [method |-> m, path |-> p]

\* The catalog, health checks, and the descriptor set if the server has one.
ServeDocument ==
    /\ \/ At("GET", "tools") /\ Plain(200)
       \/ At("GET", "health") /\ Plain(200)
       \/ At("GET", "descriptor") /\ \E s \in {200, 404, 500} : Plain(s)
    /\ UNCHANGED <<deadline, unaryVars>>

\* No such tool, or not a POST: 404 or 405, and 403 for /mcp with an Origin.
NoHandler ==
    /\ pc = "route"
    /\ \/ /\ request.path = "mcp" /\ request.method # "POST"
          /\ \E s \in {403, 405} : Plain(s)
       \/ /\ request.path \in Tool /\ request.method # "POST"
          /\ Plain(405)
       \/ /\ request.path \notin Tool \cup {"mcp"}
          /\ request.method = "GET" => request.path = "other"
          /\ Plain(404)
    /\ UNCHANGED <<deadline, unaryVars>>

GoOn(where) ==
    /\ pc' = where
    /\ UNCHANGED <<ended, up, stream, committed, tried, result, wireHeader, wire, request, limit>>

\* applyConnectTimeout: no header, a positive number of milliseconds, or an error.
ApplyConnectTimeout ==
    /\ deadline' \in BOOLEAN
    /\ UNCHANGED <<content, encodedSize, limitExceeded, failure, late, silent>>

\* handleHTTP up to the body of the request.
HandleHTTP ==
    /\ At("POST", request.path) /\ request.path \in Tool
    /\ \/ Refuse("invalid_argument") /\ UNCHANGED <<deadline, unaryVars>>
       \/ /\ request.path = "stream"
          /\ ApplyConnectTimeout /\ GoOn("request") /\ UNCHANGED codec
       \/ /\ request.path = "unary"
          /\ ApplyConnectTimeout
          /\ \/ /\ Answer(UnsupportedMedia(IF OwnErrorSize <= limit THEN OwnErrorSize ELSE 0))
                /\ UNCHANGED codec
             \/ Refuse("unimplemented") /\ UNCHANGED codec
             \/ codec' \in {"json", "proto"} /\ GoOn("reading")

\* The media ranges of an Accept header, with no weight, a positive one, zero or nonsense.
MediaRange == [type : {"json", "event-stream", "other"}, q : {Absent, "positive", "zero", "invalid"}]
acceptsMCPResponseTypes(accept) ==
    \A t \in {"json", "event-stream"} :
        \E r \in accept : r.type = t /\ r.q \in {Absent, "positive"}
AcceptHeaders == {{}} \cup {{r1, r2} : r1, r2 \in MediaRange}

\* handleMCPHTTP up to the body: Origin, Accept, Content-Type, then the timeout.
HandleMCPHTTP ==
    /\ At("POST", "mcp")
    /\ \E origin, json \in BOOLEAN, accept \in AcceptHeaders :
          \/ origin /\ Plain(403) /\ UNCHANGED <<deadline, unaryVars>>
          \/ /\ ~origin /\ ~acceptsMCPResponseTypes(accept)
             /\ Plain(406) /\ UNCHANGED <<deadline, unaryVars>>
          \/ /\ ~origin /\ acceptsMCPResponseTypes(accept)
             /\ \/ ~json /\ Plain(415) /\ UNCHANGED <<deadline, unaryVars>>
                \/ json /\ Refuse("invalid_argument") /\ UNCHANGED <<deadline, unaryVars>>
                \/ json /\ ApplyConnectTimeout /\ codec' = "mcp" /\ GoOn("reading")

(***************************************************************************)
(* The body, which both handlers read with MaxBytesReader.                 *)
(***************************************************************************)
BodyArrives ==
    /\ pc = "reading" /\ up
    /\ GoOn("decoding")
    /\ UNCHANGED <<deadline, unaryVars>>

BodyTooLarge ==
    /\ pc = "reading"
    /\ IF ended THEN \E code \in ContextCode : Refuse(code) ELSE Refuse("resource_exhausted")
    /\ UNCHANGED <<deadline, unaryVars>>

\* Mutant: the connection has no read timeout.
BodyFailsByClient ==
    /\ pc = "reading" /\ ~up
    /\ IF ended THEN \E code \in ContextCode : Refuse(code) ELSE Refuse("invalid_argument")
    /\ UNCHANGED <<deadline, unaryVars>>

\* The client breaks off, or ReadTimeout of the server passes.  The end of the context
\* closes the body, but over HTTP/1 Close waits for a Read that is under way.
BodyFails ==
    /\ pc = "reading"
    /\ IF ended THEN \E code \in ContextCode : Refuse(code) ELSE Refuse("invalid_argument")
    /\ UNCHANGED <<deadline, unaryVars>>

(***************************************************************************)
(* Decoding, and the messages of MCP that are answered without a handler.  *)
(***************************************************************************)
\* invokeJSON up to invoke; the error of newRequest has no status of its own.
DecodeJSON ==
    /\ pc = "decoding" /\ codec = "json"
    /\ \/ GoOn("tool")
       \/ \E code \in {"unknown", "invalid_argument"}, size \in Size :
             Answer(HttpErrorWithLimit(code, size, {}, {}))
    /\ UNCHANGED <<deadline, unaryVars>>

DecodeProto ==
    /\ pc = "decoding" /\ codec = "proto"
    /\ \/ GoOn("tool")
       \/ \E size \in Size : Answer(HttpErrorWithLimit("invalid_argument", size, {}, {}))
    /\ UNCHANGED <<deadline, unaryVars>>

WriteMCPJSON(code, size) ==
    IF size > limit
    THEN HttpErrorWithLimit("resource_exhausted", OwnErrorSize, {}, {})
    ELSE Response(200, code, size, {}, {})

\* Mutant: the response is sent although the context has ended.
DispatchedAnyway(frame) == Answer(frame)

\* handleMCPHTTP after mcpDispatchWithResponseLimit.
Dispatched(frame) ==
    IF ended THEN \E code \in ContextCode : Refuse(code) ELSE Answer(frame)

\* The messages that can arrive, as the two facts about them that matter here.
Incoming == {<<Silent(m), parseMCPJSONRPC(m)>> : m \in McpMessage}

\* MCP-Protocol-Version: only initialize may leave it out.
VersionAccepted(parsed, version) ==
    \/ version = "current"
    \/ version = Absent /\ parsed.kind = "request" /\ parsed.method = "initialize"

\* handleMCPHTTP after the body, for every message that reaches no handler: an unknown
\* tool and arguments that do not decode included.
AnswerMCP ==
    /\ pc = "decoding" /\ codec = "mcp"
    /\ \E m \in Incoming, version \in {"current", "unsupported", Absent}, size \in Size :
          LET parsed == m[2]
              accepted == parsed.kind # "error" /\ VersionAccepted(parsed, version)
          IN  /\ silent' = m[1]
              /\ \/ parsed.kind = "error" /\ Answer(WriteMCPJSON("rpc_error", size))
                 \/ parsed.kind # "error" /\ ~accepted /\ Plain(400)
                 \/ accepted /\ parsed.kind = "response" /\ Plain(202)
                 \/ /\ accepted /\ parsed.kind = "request"
                    /\ \/ /\ Dispatch(parsed) = "nothing"
                          /\ Dispatched(Response(202, "ok", 0, {}, {}))
                       \/ /\ Dispatch(parsed) \in {"ok", "rpc_error"}
                          /\ Dispatched(WriteMCPJSON(Dispatch(parsed), size))
                       \/ /\ Dispatch(parsed) = "tool"
                          /\ \/ \E code \in {"rpc_error", "tool_error"} :
                                   Dispatched(WriteMCPJSON(code, size))
                             \/ /\ EmptySize > limit
                                /\ Dispatched(HttpErrorWithLimit("resource_exhausted",
                                                                 OwnErrorSize, {}, {}))
    /\ UNCHANGED <<deadline, codec, content, encodedSize, limitExceeded, failure, late>>

\* toolsCall, and toolsCallStream up to the call of the handler.
ToolsCall ==
    /\ pc = "decoding" /\ codec = "mcp"
    /\ \E m \in Incoming : m[2].kind = "request" /\ Dispatch(m[2]) = "tool" /\ silent' = m[1]
    /\ \/ codec' = "mcp_unary" /\ UNCHANGED encodedSize
       \/ /\ EmptySize <= limit
          /\ codec' = "mcp_stream"
          /\ encodedSize' = EmptySize
    /\ GoOn("tool")
    /\ UNCHANGED <<deadline, content, limitExceeded, failure, late>>

(***************************************************************************)
(* The handler, with the interceptors around it.                           *)
(***************************************************************************)
InTool(headers, trailers, sent) ==
    /\ pc = "tool"
    /\ header' = headers /\ trailer' = trailers /\ headerSent' = sent
    /\ UNCHANGED <<pc, ended, up, sendErr, committed, tried, result, wireHeader, wire>>
    /\ UNCHANGED <<request, limit, deadline, unaryVars>>

ToolSetsHeader(p) == ~headerSent /\ InTool(header \cup {p}, trailer, FALSE)
ToolSendsHeader(md) == ~headerSent /\ InTool(header \cup md, trailer, TRUE)
ToolSetsTrailer(p) == InTool(header, trailer \cup {p}, headerSent)

NextSize(size) == encodedSize + size + (IF content = <<>> THEN 0 ELSE 1)

\* A message of a server-streaming tool: SendMsg, and the function that collects it.
ToolSends(size) ==
    /\ pc = "tool" /\ codec = "mcp_stream"
    /\ tried < MaxMessages
    /\ tried' = tried + 1
    /\ \/ /\ ended \/ sendErr
          /\ UNCHANGED <<headerSent, sendErr, content, encodedSize, limitExceeded>>
       \/ /\ ~ended /\ ~sendErr
          /\ headerSent' = TRUE
          /\ \/ /\ sendErr' = TRUE       \* it does not encode
                /\ UNCHANGED <<content, encodedSize, limitExceeded>>
             \/ /\ NextSize(size) > limit
                /\ sendErr' = TRUE /\ limitExceeded' = TRUE
                /\ UNCHANGED <<content, encodedSize>>
             \/ /\ NextSize(size) <= limit
                /\ content' = Append(content, size)
                /\ encodedSize' = NextSize(size)
                /\ UNCHANGED <<sendErr, limitExceeded>>
    /\ UNCHANGED <<pc, ended, up, header, trailer, committed, result, wireHeader, wire>>
    /\ UNCHANGED <<request, limit, deadline, codec, failure, late, silent>>

\* The handler returns or panics; invoke and invokeGRPCStream look at the context, and
\* the latter at the messages that failed.  MCP reports errors without their codes.
ToolReturns(r, size) ==
    /\ pc = "tool"
    /\ pc' = "respond"
    /\ late' = ended
    /\ result' = CASE r.kind # "ok" \/ sendErr -> "error"
                   [] r.kind = "ok" /\ ~sendErr -> IF ended THEN "context" ELSE "ok"
    /\ failure' = IF r.kind # "ok" /\ codec \in {"json", "proto"}
                  THEN [err |-> r, size |-> size] ELSE failure
    /\ UNCHANGED <<ended, up, stream, committed, tried, wireHeader, wire, request, limit>>
    /\ UNCHANGED <<deadline, codec, content, encodedSize, limitExceeded, silent>>

(***************************************************************************)
(* The response.                                                           *)
(***************************************************************************)
\* A response to a unary call; writeUnaryProjectionMetadata has filled the headers.
Fail(code, size) == Answer(HttpErrorWithLimit(code, size, Encoded(header), Encoded(trailer)))
Succeed(size) ==
    IF size > limit THEN Fail("resource_exhausted", OwnErrorSize)
    ELSE Answer(Response(200, "ok", size, Encoded(header), Encoded(trailer)))

\* The error of the handler, or of its context when it returned none.
InvocationFails ==
    \/ /\ result = "context" \/ (result = "ok" /\ ended)
       /\ \E code \in ContextCode : Fail(code, OwnErrorSize)
    \/ /\ result = "error"
       /\ Fail(statusFromError(failure.err), failure.size)

\* The rest of handleHTTP; invokeJSON encodes the response before the context is looked at.
RespondJSON ==
    /\ pc = "respond" /\ codec = "json"
    /\ \/ InvocationFails
       \/ result = "ok" /\ \E size \in Size : Fail("unknown", size)   \* it does not encode
       \/ result = "ok" /\ ~ended /\ \E size \in Size : Succeed(size)
    /\ UNCHANGED <<deadline, unaryVars>>

\* The rest of handleHTTPProto.
RespondProto ==
    /\ pc = "respond" /\ codec = "proto"
    /\ \/ InvocationFails
       \/ /\ result = "ok" /\ ~ended
          /\ \E size \in Size : Fail("unknown", size) \/ Succeed(size)
    /\ UNCHANGED <<deadline, unaryVars>>

\* The sum of a sequence of sizes.
Total(sizes) ==
    LET sum[n \in 0..Len(sizes)] == IF n = 0 THEN 0 ELSE sum[n - 1] + sizes[n]
    IN  sum[Len(sizes)]

\* The length of the JSON of an MCP result with these content blocks.
Length(blocks) ==
    EmptySize + Total(blocks) + (IF blocks = <<>> THEN 0 ELSE Len(blocks) - 1)

\* The rest of toolsCall and toolsCallStream, and of handleMCPHTTP.
RespondMCP ==
    /\ pc = "respond" /\ codec \in {"mcp_unary", "mcp_stream"}
    /\ \/ /\ codec = "mcp_unary"
          /\ \E size \in Size : Dispatched(WriteMCPJSON(
                IF result = "ok" THEN "ok" ELSE "tool_error", size))
       \/ /\ codec = "mcp_stream" /\ limitExceeded
          /\ Dispatched(HttpErrorWithLimit("resource_exhausted", OwnErrorSize, {}, {}))
       \/ /\ codec = "mcp_stream" /\ ~limitExceeded /\ result = "ok"
          /\ Dispatched(WriteMCPJSON("ok", Length(content)))
       \/ /\ codec = "mcp_stream" /\ ~limitExceeded /\ result # "ok"
          /\ \E size \in Size : Dispatched(WriteMCPJSON("tool_error", Length(content) + size))
    /\ UNCHANGED <<deadline, unaryVars>>

(***************************************************************************)
(* The specification.                                                      *)
(***************************************************************************)
StreamStep == StreamNext /\ UNCHANGED <<request, limit, deadline, unaryVars>>

DeadlinePasses ==
    /\ deadline /\ ContextEnds
    /\ UNCHANGED <<request, limit, deadline, unaryVars>>

Tools ==
    \/ \E p \in HeaderPair : ToolSetsHeader(p)
    \/ \E md \in SUBSET HeaderPair : ToolSendsHeader(md)
    \/ \E p \in TrailerPair : ToolSetsTrailer(p)
    \/ \E size \in Size : ToolSends(size)
    \/ \E r \in Outcome, size \in Size : ToolReturns(r, size)

Next ==
    \/ ServeDocument \/ NoHandler \/ HandleHTTP \/ HandleMCPHTTP
    \/ BodyArrives \/ BodyTooLarge \/ BodyFails
    \/ DecodeJSON \/ DecodeProto \/ AnswerMCP \/ ToolsCall \/ Tools
    \/ RespondJSON \/ RespondProto \/ RespondMCP
    \/ StreamStep

\* The goroutine of the request runs, the handler returns once its context has ended,
\* and the clock goes on.  A body need not arrive.
ServerStep ==
    \/ ServeDocument \/ NoHandler \/ HandleHTTP \/ HandleMCPHTTP
    \/ DecodeJSON \/ DecodeProto \/ AnswerMCP \/ ToolsCall
    \/ RespondJSON \/ RespondProto \/ RespondMCP
    \/ ended /\ \E r \in Outcome, size \in Size : ToolReturns(r, size)
    \/ /\ \/ SendRefused \/ Send \/ Finish
          \/ ended /\ \E r \in {"ok", "error", "panic"} : Return(r)
       /\ UNCHANGED <<request, limit, deadline, unaryVars>>

\* HTTPHandler in a server of the application, which may have no timeouts.
HandlerSpec == Init /\ [][Next]_vars /\ WF_vars(ServerStep) /\ WF_vars(DeadlinePasses)

\* serveHTTP: ReadTimeout ends every read of a body at last.
ReadTimeout ==
    \/ BodyFails
    \/ WriteConnectStreamError /\ UNCHANGED <<request, limit, deadline, unaryVars>>

Spec == HandlerSpec /\ WF_vars(ReadTimeout)

(***************************************************************************)
(* Properties.                                                             *)
(***************************************************************************)
\* Success tells the truth: an end-of-stream without an error, or an MCP result
\* without isError, comes with every message that the handler sent, even if the
\* handler ignored the errors of SendMsg.
SuccessIsComplete ==
    \A i \in DOMAIN wire :
        /\ IsEnd(wire[i]) /\ wire[i].ok => Cardinality(Messages) = tried
        /\ codec = "mcp_stream" /\ wire[i].status = 200 /\ wire[i].code = "ok" => Len(content) = tried

\* What the transport can carry of the handler's metadata, and what a Connect client
\* reads from what is sent.
Sendable(md) ==
    {p \in md : p[1] \notin ReservedKey /\ (p[1] \in BinaryKey \/ p[2] \in Printable)}
Decoded(sent) == {IF p[1] \in BinaryKey THEN <<p[1], p[2].base64>> ELSE p : p \in sent}

\* Metadata that SetHeader, SendHeader and SetTrailer accepted reaches a Connect client,
\* of a success as of an error, as far as it can be sent: pairs with a reserved or invalid
\* name, or with a value that is neither printable ASCII nor of a "-bin" key, are dropped.
\* Headers of a stream are in the response headers, trailers in the end-of-stream
\* envelope; a stream that loses its trailers because the envelope is too large is
\* reported as an error, never as a success.  A unary response has both in its headers.
MetadataDelivered ==
    /\ committed => Decoded(wireHeader) = Sendable(header)
    /\ \A i \in DOMAIN wire :
          /\ IsEnd(wire[i]) => IF wire[i].replaced THEN ~wire[i].ok
                               ELSE Decoded(wire[i].trailer) = Sendable(trailer)
          /\ codec \in {"json", "proto"} /\ result # "none" =>
                /\ Decoded(wire[i].header) = Sendable(header)
                /\ Decoded(wire[i].trailer) = Sendable(trailer)

\* No Connect or JSON-RPC response is larger than the limit of its route, whichever way it
\* was refused or replaced; the error that replaces a large body included.  (The fixed
\* texts of http.Error are under no limit.)  toolsCallStream counts the bytes of its
\* response block by block, and the count is the size that writeMCPJSON then measures: a
\* stream it accepted is not refused at the end.
WithinLimit ==
    /\ \A i \in DOMAIN wire : wire[i].kind = "response" => wire[i].size <= limit
    /\ codec = "mcp_stream" => encodedSize = Length(content) /\ encodedSize <= limit

\* What a client of this repository makes of a response that is an error.
ClientCode(f) == httpClientError(f.status, IF f.size = 0 THEN Absent ELSE grpcCodeName(f.code))

\* What it is to make of the error that a unary handler returned.
FailureCode ==
    IF failure.size <= limit
    THEN IF failure.err.kind = "plain" \/ failure.err.code = "unregistered"
         THEN "unknown" ELSE failure.err.code
    ELSE IF OwnErrorSize <= limit THEN "resource_exhausted" ELSE "unavailable"

\* The code of the error that a unary handler returned is what a client of this repository
\* reads, through the name in the body and the HTTP status, for all codes that have a
\* name.  An error whose encoding is above the limit is the exception: its code is lost,
\* and the client reads resource_exhausted, or unavailable if even that does not fit.
CodeSurvives ==
    \A i \in DOMAIN wire :
        codec \in {"json", "proto"} /\ result = "error" => ClientCode(wire[i]) = FailureCode

\* A handler that returns after the deadline or the cancellation is never reported as
\* a success, whatever it returned and however the result was wrapped.
LateIsNoSuccess ==
    \A i \in DOMAIN wire : late => wire[i].status # 200

\* POST /mcp answers as JSON-RPC demands: a notification or a client's response gets no
\* JSON-RPC body, however wrong its parameters are, and anything else is not just
\* accepted.
RepliesAsAsked ==
    \A i \in DOMAIN wire :
        /\ silent => wire[i].status # 200
        /\ codec \in {"mcp", "mcp_unary", "mcp_stream"} /\ ~silent => wire[i].status # 202

\* Over serveHTTP, a request with a deadline is answered: the deadline ends the context
\* of a handler that waits for it, and ReadTimeout ends a body that never comes to an end.
DeadlineAnswers == deadline ~> pc = "done"

\* README.md:502: "`Connect-Timeout-Ms` is one absolute request deadline covering body
\* reads": once it is set, a body that does not arrive keeps the request only until then.
DeadlineCoversBody ==
    (deadline /\ pc \in {"reading", "request"}) ~> pc \notin {"reading", "request"}
================================================================================
