------------------------------ MODULE McpMessage ------------------------------
(***************************************************************************)
(* What one JSON-RPC message is to the MCP projection: parseMCPJSONRPC of  *)
(* go/mcp.go and the validators behind it, and the part of the dispatch    *)
(* that needs no handler.  A JSON value is the kind of value that it is.   *)
(***************************************************************************)
EXTENDS Naturals

Integer == {"int", "fraction", "unsafe_int"}     \* JSON numbers; unsafe: beyond 2^53 - 1
Absent == "absent"

\* One member of a JSON object, by the kind of its value.
McpMethod == {"initialize", "tools/list", "tools/call", "ping", "other"}
ParamsKind == {Absent, "null", "array", "object", "call", "call_bad_args", "initialize"}

McpMessage ==
    [text : {"malformed", "scalar", "object"},
     jsonrpc : {Absent, "null", "1.0", "2.0"},
     method : McpMethod \cup {Absent, "null", "int"},
     id : Integer \cup {Absent, "null", "bool", "string", "array"},
     result : {Absent, "object", "array"},
     error : {Absent, "string", "no_code", "bad_code", "bad_message", "valid"},
     params : ParamsKind]

mcpJSONObject(v) == v \in {"object", "call", "call_bad_args", "initialize",
                           "no_code", "bad_code", "bad_message", "valid"}
validMCPInteger(v) == v = "int"
validMCPID(v) == v = "string" \/ validMCPInteger(v)
validMCPError(v) == mcpJSONObject(v) /\ v = "valid"
validMCPToolCallParams(v) == mcpJSONObject(v) /\ v = "call"
validMCPInitializeParams(v) == mcpJSONObject(v) /\ v = "initialize"

mcpErr(code, id) == [kind |-> "error", code |-> code, id |-> id]
InvalidRequest == mcpErr(32600, Absent)
ClientResponse == [kind |-> "response"]
Request(m) ==
    [kind |-> "request", method |-> m.method, id |-> m.id, params |-> m.params]

\* A message without a method answers a request of the server.
parseClientResponse(m) ==
    IF \/ /\ m.result # Absent /\ m.error = Absent
          /\ validMCPID(m.id) /\ mcpJSONObject(m.result)
       \/ /\ m.error # Absent /\ m.result = Absent
          /\ (m.id = Absent \/ validMCPID(m.id)) /\ validMCPError(m.error)
    THEN ClientResponse ELSE InvalidRequest

\* Mutant: bad parameters are reported for notifications too.
parseReportsAll(m) ==
    CASE m.text = "malformed" -> mcpErr(32700, Absent)
      [] m.text = "scalar" \/ (m.text = "object" /\ m.jsonrpc # "2.0") -> InvalidRequest
      [] OTHER ->
         IF m.method = Absent THEN parseClientResponse(m)
         ELSE IF m.method = "int" \/ (m.id # Absent /\ ~validMCPID(m.id)) THEN InvalidRequest
         ELSE IF \/ m.params # Absent /\ ~mcpJSONObject(m.params)
                 \/ m.method = "tools/call" /\ ~validMCPToolCallParams(m.params)
         THEN mcpErr(32602, m.id)
         ELSE Request(m)

\* A method that is null decodes as the empty name.
parseMCPJSONRPC(m) ==
    CASE m.text = "malformed" -> mcpErr(32700, Absent)
      [] m.text = "scalar" \/ (m.text = "object" /\ m.jsonrpc # "2.0") -> InvalidRequest
      [] OTHER ->
         IF m.method = Absent THEN parseClientResponse(m)
         ELSE IF m.method = "int" \/ (m.id # Absent /\ ~validMCPID(m.id)) THEN InvalidRequest
         ELSE IF /\ m.id # Absent
                 /\ \/ m.params # Absent /\ ~mcpJSONObject(m.params)
                    \/ m.method = "tools/call" /\ ~validMCPToolCallParams(m.params)
         THEN mcpErr(32602, m.id)
         ELSE Request(m)

\* What a sender may expect: no answer to a notification or a response.
Silent(m) ==
    /\ m.text = "object" /\ m.jsonrpc = "2.0"
    /\ IF m.method = Absent THEN parseClientResponse(m) = ClientResponse
       ELSE m.method # "int" /\ m.id = Absent

\* The cases of mcpDispatchWithResponseLimit that call no tool: nothing for a
\* notification, a result, or an error.
Dispatch(req) ==
    CASE req.id = Absent -> "nothing"
      [] req.id # Absent /\ req.method = "initialize" ->
         IF validMCPInitializeParams(req.params) THEN "ok" ELSE "rpc_error"
      [] req.id # Absent /\ req.method \in {"tools/list", "ping"} -> "ok"
      [] req.id # Absent /\ req.method = "tools/call" -> "tool"
      [] req.id # Absent /\ req.method \in {"other", "null"} -> "rpc_error"
================================================================================
