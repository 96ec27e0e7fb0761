--------------------------- MODULE HttpEndpointProofs ---------------------------
(***************************************************************************)
(* Proofs about one request to the HTTP projection, for any number of      *)
(* messages, any sizes and limits and any metadata: every invariant of the *)
(* endpoint holds.  A request that has been answered is not touched again, *)
(* so Inv says of it just what the properties say, and of every earlier    *)
(* stage what the answer will have to rely on: which of the request's      *)
(* variables are still as they were, that a stream is a prefix of the      *)
(* messages without a gap, and that toolsCallStream has counted the bytes  *)
(* of what it has collected.  The first section proves what is needed of   *)
(* the sum of a sequence, by induction from the fact that every set of     *)
(* natural numbers has a least member.                                     *)
(***************************************************************************)
EXTENDS HttpEndpoint, SequenceTheorems, FiniteSetTheorems, WellFoundedInduction, TLAPS

(***************************************************************************)
(* Sums.                                                                   *)
(***************************************************************************)
\* Every set of natural numbers that is not empty has a least member.
LEMMA LeastNumber ==
  ASSUME NEW T \in SUBSET Nat, T # {}
  PROVE  \E n \in T : \A m \in T : n <= m
<1>1. PICK n \in T : \A m \in T : ~(<<m, n>> \in OpToRel(<, Nat))
  BY NatLessThanWellFounded, WFMin, Zenon
<1>2. \A m \in T : ~(m < n)
  BY <1>1, Zenon DEF OpToRel
<1>3. QED
  BY <1>2

\* Induction up to m, with a set in the place of the predicate.
LEMMA Induction ==
  ASSUME NEW m \in Nat, NEW S, 0 \in S, \A n \in 0..(m - 1) : n \in S => n + 1 \in S
  PROVE  0..m \subseteq S
<1> DEFINE Bad == {n \in 0..m : n \notin S}
<1>1. SUFFICES ASSUME Bad # {}
               PROVE  FALSE
  OBVIOUS
<1>2. Bad \in SUBSET Nat
  OBVIOUS
<1>3. PICK n \in Bad : \A k \in Bad : n <= k
  BY <1>1, <1>2, LeastNumber
<1>4. n \in 0..m /\ n # 0 /\ n \notin S
  OBVIOUS
<1>5. n - 1 \in 0..(m - 1) /\ n - 1 \in S
  BY <1>3, <1>4
<1>6. (n - 1) + 1 = n
  BY <1>4
<1>7. QED
  BY <1>4, <1>5, <1>6

\* The sums of the first members of s.
Sums(s, k, f) == f = [n \in 0..k |-> IF n = 0 THEN 0 ELSE f[n - 1] + s[n]]

\* The recursion equations of the sums.
LEMMA SumsUpTo ==
  ASSUME NEW m \in Nat, NEW s, NEW f, Sums(s, m, f)
  PROVE  f[0] = 0 /\ \A k \in 1..m : f[k] = f[k - 1] + s[k]
BY DEF Sums

\* There are such sums.
LEMMA SumsExist ==
  ASSUME NEW m \in Nat, NEW s, \A i \in 1..m : s[i] \in Nat
  PROVE  \E f \in [0..m -> Nat] : Sums(s, m, f)
<1> DEFINE Good == {k \in 0..m : \E f \in [0..k -> Nat] : Sums(s, k, f)}
<1>1. 0 \in Good
  <2> DEFINE f == [n \in 0..0 |-> 0]
  <2>1. Sums(s, 0, f) /\ f \in [0..0 -> Nat]
    BY DEF Sums
  <2>2. QED
    BY <2>1
<1>2. ASSUME NEW k \in 0..(m - 1), k \in Good
      PROVE  k + 1 \in Good
  <2> DEFINE n == k + 1
  <2>1. k \in Nat /\ n \in 1..m /\ n - 1 = k /\ n \notin 0..k /\ 0..n = 0..k \cup {n}
    OBVIOUS
  <2>2. PICK f \in [0..k -> Nat] : Sums(s, k, f)
    BY <1>2
  <2>3. f[k] + s[n] \in Nat
    BY <2>1
  <2>4. f[0] = 0 /\ \A i \in 1..k : f[i] = f[i - 1] + s[i]
    BY <2>1, <2>2 DEF Sums
  <2> DEFINE g == [i \in 0..n |-> IF i = n THEN f[k] + s[n] ELSE f[i]]
  <2>5. g \in [0..n -> Nat]
    BY <2>1, <2>3
  <2>6. ASSUME NEW i \in 0..n
        PROVE  g[i] = IF i = 0 THEN 0 ELSE g[i - 1] + s[i]
    <3>1. CASE i = n
      BY <2>1, <3>1
    <3>2. CASE i \in 1..k
      BY <2>1, <2>4, <3>2
    <3>3. CASE i = 0
      BY <2>1, <2>4, <3>3
    <3>4. QED
      BY <2>1, <3>1, <3>2, <3>3
  <2>7. Sums(s, n, g)
    BY <2>6 DEF Sums
  <2>8. QED
    BY <2>1, <2>5, <2>7
<1>3. m \in Good
  <2> HIDE DEF Good
  <2>1. 0..m \subseteq Good
    BY <1>1, <1>2, Induction
  <2>2. QED
    BY <2>1
<1>4. QED
  BY <1>3

\* Both sums are the same where both sequences have the same members.
LEMMA SumsAgree ==
  ASSUME NEW m \in Nat, NEW n \in Nat, m <= n, NEW s, NEW r, NEW f, NEW g,
         Sums(s, m, f), Sums(r, n, g), \A i \in 1..m : s[i] = r[i]
  PROVE  f[m] = g[m]
<1> DEFINE Good == {k \in 0..m : f[k] = g[k]}
<1>1. 0 \in Good
  BY SumsUpTo
<1>2. ASSUME NEW k \in 0..(m - 1), k \in Good
      PROVE  k + 1 \in Good
  <2>1. k + 1 \in 1..m /\ k + 1 \in 1..n /\ (k + 1) - 1 = k
    OBVIOUS
  <2>2. f[k + 1] = f[k] + s[k + 1]
    BY <2>1, SumsUpTo
  <2>3. g[k + 1] = g[k] + r[k + 1]
    BY <2>1, SumsUpTo
  <2>4. QED
    BY <1>2, <2>1, <2>2, <2>3
<1>3. m \in Good
  <2> HIDE DEF Good
  <2>1. 0..m \subseteq Good
    BY <1>1, <1>2, Induction
  <2>2. QED
    BY <2>1
<1>4. QED
  BY <1>3

\* Total is one of them.
LEMMA TotalIsSum ==
  ASSUME NEW s \in Seq(Nat)
  PROVE  \E f : Sums(s, Len(s), f) /\ Total(s) = f[Len(s)] /\ f[Len(s)] \in Nat
<1> DEFINE m == Len(s)
<1>1. m \in Nat /\ \A i \in 1..m : s[i] \in Nat
  BY LenProperties, ElementOfSeq
<1>2. Total(s) = (CHOOSE f : Sums(s, m, f))[m]
  BY Zenon DEF Total, Sums
<1> HIDE DEF m
<1>3. PICK g \in [0..m -> Nat] : Sums(s, m, g)
  BY <1>1, SumsExist
<1> DEFINE f == CHOOSE h : Sums(s, m, h)
<1>4. Sums(s, m, f)
  BY <1>3, Zenon
<1>5. f[m] = g[m]
  <2> HIDE DEF f
  <2>1. QED
    BY <1>1, <1>3, <1>4, SumsAgree
<1>6. g[m] \in Nat
  BY <1>1
<1>7. QED
  <2> HIDE DEF f
  <2>1. Total(s) = f[m]
    BY <1>2 DEF f
  <2>2. QED
    BY <1>4, <1>5, <1>6, <2>1 DEF m

\* The sum of a sequence, block by block.
LEMMA TotalGrows ==
  /\ Total(<<>>) = 0
  /\ \A s \in Seq(Nat), x \in Nat : Total(s) \in Nat /\ Total(Append(s, x)) = Total(s) + x
<1>1. Total(<<>>) = 0
  <2>1. <<>> \in Seq(Nat) /\ Len(<<>>) = 0
    BY EmptySeq
  <2>2. PICK f : Sums(<<>>, 0, f) /\ Total(<<>>) = f[0]
    BY <2>1, TotalIsSum
  <2>3. QED
    BY <2>2, SumsUpTo
<1>2. ASSUME NEW s \in Seq(Nat), NEW x \in Nat
      PROVE  Total(s) \in Nat /\ Total(Append(s, x)) = Total(s) + x
  <2> DEFINE r == Append(s, x)
             m == Len(s)
             n == m + 1
  <2>1. /\ m \in Nat /\ r \in Seq(Nat) /\ Len(r) = n /\ r[n] = x
        /\ \A i \in 1..m : r[i] = s[i]
    BY AppendProperties, LenProperties
  <2>2. PICK f : Sums(s, m, f) /\ Total(s) = f[m] /\ f[m] \in Nat
    BY TotalIsSum
  <2>3. PICK g : Sums(r, n, g) /\ Total(r) = g[n]
    BY <2>1, TotalIsSum
  <2> HIDE DEF r, m
  <2>4. f[m] = g[m]
    BY <2>1, <2>2, <2>3, SumsAgree
  <2>5. g[n] = g[n - 1] + r[n]
    BY <2>1, <2>3, SumsUpTo
  <2>6. QED
    BY <2>1, <2>2, <2>3, <2>4, <2>5 DEF r
<1>3. QED
  BY <1>1, <1>2

(***************************************************************************)
(* Codes, statuses and messages.                                           *)
(***************************************************************************)
\* No error is reported with a status of success.
LEMMA ErrorStatus ==
  /\ \A code \in Code : grpcCodeToHTTPStatus(code) \in Nat \ {200, 202}
  /\ grpcCodeToHTTPStatus("resource_exhausted") = 429
BY DEF Code, grpcCodeToHTTPStatus

\* The names of the codes are different, but for the code without a name.
LEMMA CodeNames ==
  ASSUME NEW code \in Code
  PROVE  connectCodeFromName(grpcCodeName(code)) =
            {IF code = "unregistered" THEN "unknown" ELSE code}
<1>1. \A c \in Code : grpcCodeName(c) = IF c = "unregistered" THEN "unknown" ELSE c
  BY DEF Code, grpcCodeName, codepbName
<1>2. connectCodeFromName(grpcCodeName(code)) \subseteq {IF code = "unregistered" THEN "unknown" ELSE code}
  BY <1>1 DEF connectCodeFromName
<1>3. (IF code = "unregistered" THEN "unknown" ELSE code) \in Code \ {"unregistered"}
  BY DEF Code
<1>4. grpcCodeName(IF code = "unregistered" THEN "unknown" ELSE code) = grpcCodeName(code)
  BY <1>1, <1>3
<1>5. QED
  BY <1>2, <1>3, <1>4 DEF connectCodeFromName

\* What a client reports for an error, from its body or from its status alone.
LEMMA ReportedCode ==
  /\ \A code \in Code, status \in Nat :
        httpClientError(status, grpcCodeName(code)) = IF code = "unregistered" THEN "unknown" ELSE code
  /\ httpClientError(429, Absent) = "unavailable"
<1>1. ASSUME NEW code \in Code, NEW status \in Nat
      PROVE  httpClientError(status, grpcCodeName(code)) = IF code = "unregistered" THEN "unknown" ELSE code
  BY CodeNames DEF httpClientError
<1>2. connectCodeFromName(Absent) = {}
  BY DEF connectCodeFromName, Code, grpcCodeName, codepbName, Absent
<1>3. httpClientError(429, Absent) = "unavailable"
  BY <1>2 DEF httpClientError, grpcCodeFromHTTPStatus
<1>4. QED
  BY <1>1, <1>3

\* parseMCPJSONRPC and the dispatch agree with what JSON-RPC lets a sender expect: a
\* message that wants no answer is a client's response or is dispatched to nothing, and
\* no other message is.
LEMMA SilentMessages ==
  ASSUME NEW m \in Incoming
  PROVE  /\ m[2].kind \in {"error", "response", "request"}
         /\ m[2].kind = "request" => Dispatch(m[2]) \in {"nothing", "ok", "rpc_error", "tool"}
         /\ m[1] <=> m[2].kind = "response" \/ (m[2].kind = "request" /\ Dispatch(m[2]) = "nothing")
<1>1. PICK msg \in McpMessage : (m[1] <=> Silent(msg)) /\ m[2] = parseMCPJSONRPC(msg)
  BY DEF Incoming
<1>2. CASE ~(msg.text = "object" /\ msg.jsonrpc = "2.0")
  <2>1. msg.text \in {"malformed", "scalar", "object"}
    BY DEF McpMessage
  <2>2. parseMCPJSONRPC(msg) = mcpErr(32700, Absent) \/ parseMCPJSONRPC(msg) = InvalidRequest
    BY <1>2, <2>1 DEF parseMCPJSONRPC
  <2>3. m[2].kind = "error"
    BY <1>1, <2>2 DEF mcpErr, InvalidRequest
  <2>4. ~Silent(msg)
    BY <1>2 DEF Silent
  <2>5. QED
    BY <1>1, <2>3, <2>4
<1>3. CASE msg.text = "object" /\ msg.jsonrpc = "2.0" /\ msg.method = Absent
  <2>1. m[2] = parseClientResponse(msg)
    BY <1>1, <1>3 DEF parseMCPJSONRPC
  <2>2. Silent(msg) <=> m[2] = ClientResponse
    BY <1>3, <2>1 DEF Silent
  <2>3. m[2] = ClientResponse \/ m[2] = InvalidRequest
    BY <2>1 DEF parseClientResponse
  <2>4. ClientResponse.kind = "response" /\ InvalidRequest.kind = "error"
    BY DEF ClientResponse, InvalidRequest, mcpErr
  <2>5. QED
    BY <1>1, <2>2, <2>3, <2>4
<1>4. CASE msg.text = "object" /\ msg.jsonrpc = "2.0" /\ msg.method # Absent
  <2>1. Silent(msg) <=> (msg.method # "int" /\ msg.id = Absent)
    BY <1>4 DEF Silent
  <2>2. m[2] = Request(msg) \/ m[2].kind = "error"
    BY <1>1, <1>4 DEF parseMCPJSONRPC, mcpErr, InvalidRequest
  <2>3. CASE m[2] = Request(msg)
    <3>1. m[2].kind = "request" /\ m[2].id = msg.id /\ m[2].method = msg.method
      BY <2>3 DEF Request
    <3>2. msg.method \in {"initialize", "tools/list", "tools/call", "ping", "other", "null"}
      BY <1>1, <1>4, <3>1 DEF parseMCPJSONRPC, mcpErr, InvalidRequest, McpMessage, McpMethod, Absent
    <3>3. /\ Dispatch(m[2]) \in {"nothing", "ok", "rpc_error", "tool"}
          /\ Dispatch(m[2]) = "nothing" <=> msg.id = Absent
      BY <3>1, <3>2 DEF Dispatch
    <3>4. QED
      BY <1>1, <2>1, <3>1, <3>2, <3>3
  <2>4. CASE m[2].kind = "error"
    <3>1. msg.method = "int" \/ msg.id # Absent
      BY <1>1, <1>4, <2>4 DEF parseMCPJSONRPC, Request
    <3>2. QED
      BY <1>1, <2>1, <2>4, <3>1
  <2>5. QED
    BY <2>2, <2>3, <2>4
<1>5. QED
  BY <1>1, <1>2, <1>3, <1>4

(***************************************************************************)
(* The invariant.                                                          *)
(***************************************************************************)
\* The stages before the answer, in which nothing has been sent, and those of a stream.
Quiet == {"route", "request", "reading", "decoding", "tool", "respond"}
Streaming == {"handling", "sending", "returned"}

\* What a client has received that has got the first n messages and nothing else.
Sent(n) == [i \in 1..n |-> Message(i)]

\* Metadata is made of pairs.
Pairs(md) == \A p \in md : p = <<p[1], p[2]>>

Typed ==
    /\ pc \in Quiet \cup Streaming \cup {"done"}
    /\ limit \in Nat \ {0} /\ tried \in Nat
    /\ content \in Seq(Nat) /\ encodedSize \in Nat
    /\ Pairs(header) /\ Pairs(trailer)

\* Of every stage: what has been sent, and which variables are still as they were.
Waiting ==
    /\ pc \in Quiet => wire = <<>> /\ ~committed
    /\ pc \in Quiet \ {"respond"} => result = "none" /\ ~late
    /\ pc \in Quiet \cup Streaming => ~silent
    /\ pc \in {"route", "request"} \cup Streaming => codec = "none" /\ ~late
    /\ pc \in {"reading", "decoding"} => codec \in {"json", "proto", "mcp"}
    /\ pc \in {"tool", "respond"} => codec \in {"json", "proto", "mcp_unary", "mcp_stream"}
    /\ pc = "respond" => result \in {"ok", "error", "context"} /\ (late => ended)
    /\ pc \in {"route", "request", "reading", "decoding"} => ~sendErr /\ trailer = {}
    /\ pc = "tool" /\ codec \in {"json", "proto"} => ~sendErr
    /\ pc = "respond" /\ codec \in {"json", "proto"} /\ result = "error" =>
          failure.err \in HandlerError /\ failure.size \in Nat \ {0}

\* A stream: the messages are there in order and, while nothing went wrong, all of them.
Flowing ==
    /\ pc \in {"route", "request", "reading", "decoding"} => tried = 0
    /\ pc \in Streaming => wire = Sent(Len(wire)) /\ Len(wire) \in Nat
    /\ pc = "handling" /\ up /\ ~ended /\ ~sendErr => tried = Len(wire)
    /\ pc = "sending" => ~sendErr /\ headerSent /\ (up => tried = Len(wire) + 1)
    /\ pc = "returned" /\ result = "ok" /\ up => tried = Len(wire)
    /\ pc \in Streaming /\ committed => headerSent /\ wireHeader = Encoded(header)

\* A streaming tool over MCP: what is collected is counted, and complete while nothing
\* went wrong.
Collecting ==
    /\ pc \in {"route", "request", "reading", "decoding"} => content = <<>>
    /\ codec = "mcp_stream" => encodedSize = Length(content) /\ encodedSize <= limit
    /\ pc = "tool" /\ codec = "mcp_stream" /\ ~ended /\ ~sendErr => Len(content) = tried
    /\ pc = "respond" /\ codec = "mcp_stream" /\ result = "ok" => Len(content) = tried

Promise ==
    /\ OneAnswer /\ SuccessIsComplete /\ MetadataDelivered /\ WithinLimit
    /\ CodeSurvives /\ LateIsNoSuccess /\ RepliesAsAsked

Inv == Typed /\ IF pc = "done" THEN Promise ELSE Waiting /\ Flowing /\ Collecting

\* What a client decodes is what could be sent.
LEMMA DecodesEncoded ==
  ASSUME NEW md, Pairs(md)
  PROVE  Decoded(Encoded(md)) = Sendable(md)
<1> DEFINE Enc(p) == IF p[1] \in BinaryKey THEN <<p[1], [base64 |-> p[2]]>> ELSE p
           Dec(p) == IF p[1] \in BinaryKey THEN <<p[1], p[2].base64>> ELSE p
<1>1. ASSUME NEW p \in md
      PROVE  Dec(Enc(p)) = p
  <2>1. p = <<p[1], p[2]>>
    BY DEF Pairs
  <2>2. CASE p[1] \in BinaryKey
    <3>1. Enc(p) = <<p[1], [base64 |-> p[2]]>>
      BY <2>2
    <3>2. Enc(p)[1] = p[1] /\ Enc(p)[2].base64 = p[2]
      BY <3>1
    <3>3. QED
      BY <2>1, <2>2, <3>2
  <2>3. CASE p[1] \notin BinaryKey
    BY <2>3
  <2>4. QED
    BY <2>2, <2>3
<1>2. Encoded(md) = {Enc(p) : p \in Sendable(md)}
  BY Zenon DEF Encoded, Sendable
<1>3. Decoded(Encoded(md)) = {Dec(q) : q \in Encoded(md)}
  BY Zenon DEF Decoded
<1>4. Sendable(md) \subseteq md
  BY DEF Sendable
<1> HIDE DEF Enc, Dec
<1>5. QED
  BY <1>1, <1>2, <1>3, <1>4

\* Nothing is sent of no metadata.
LEMMA NothingEncoded == Encoded({}) = {} /\ Decoded({}) = {} /\ Sendable({}) = {}
BY DEF Encoded, Decoded, Sendable

\* The messages that a client has received are a sequence that grows by the next one.
LEMMA SentGrows ==
  /\ Sent(0) = <<>>
  /\ \A n \in Nat : Sent(n) \in Seq({Message(i) : i \in Nat}) /\ Len(Sent(n)) = n
  /\ \A n \in Nat : Append(Sent(n), Message(n + 1)) = Sent(n + 1)
<1> DEFINE S == {Message(i) : i \in Nat}
<1>1. \A n \in Nat : Sent(n) \in Seq(S) /\ Len(Sent(n)) = n
  BY DEF Sent
<1>2. Sent(0) = <<>>
  BY DEF Sent
<1>3. ASSUME NEW n \in Nat
      PROVE  Append(Sent(n), Message(n + 1)) = Sent(n + 1)
  BY <1>1, AppendProperties, SeqEqual DEF Sent
<1>4. QED
  BY <1>1, <1>2, <1>3

\* What follows the messages is the last frame.
LEMMA LastFrame ==
  ASSUME NEW n \in Nat, NEW f
  PROVE  LET w == Append(Sent(n), f) IN
         /\ Len(w) = n + 1 /\ DOMAIN w = 1..(n + 1)
         /\ \A i \in 1..n : w[i] = Message(i)
         /\ w[n + 1] = f
<1> DEFINE S == {Message(i) : i \in Nat} \cup {f}
<1>1. Sent(n) \in Seq(S) /\ Len(Sent(n)) = n /\ f \in S
  BY SentGrows, SeqMonotonic
<1>2. \A i \in 1..n : Sent(n)[i] = Message(i)
  BY DEF Sent
<1>3. QED
  BY <1>1, <1>2, AppendProperties, LenProperties

(***************************************************************************)
(* Ends of a request.                                                      *)
(***************************************************************************)
\* What a response must be to keep the promises, given whether the message was silent.
Suits(f, quiet) ==
    /\ f.kind \in {"response", "plain"}
    /\ f.kind = "response" => f.size <= limit
    /\ late \/ quiet => f.status # 200
    /\ codec \in {"mcp", "mcp_unary", "mcp_stream"} /\ ~quiet => f.status # 202
    /\ codec \in {"json", "proto"} /\ result = "error" => ClientCode(f) = FailureCode
    /\ codec \in {"json", "proto"} /\ result # "none" =>
          f.header = Encoded(header) /\ f.trailer = Encoded(trailer)
    /\ codec = "mcp_stream" /\ f.status = 200 /\ f.code = "ok" => Len(content) = tried

\* An error within the limit, whatever was to be said at first.
IsErrorFrame(f, md1, md2) ==
    /\ f.kind = "response" /\ f.size \in Nat /\ f.size <= limit
    /\ f.code \in Code /\ f.status = grpcCodeToHTTPStatus(f.code)
    /\ f.status \notin {200, 202} /\ f.code # "ok"
    /\ f.size = 0 => f.code = "resource_exhausted"
    /\ f.header = md1 /\ f.trailer = md2

LEMMA ErrorFrame ==
  ASSUME limit \in Nat \ {0}, NEW code \in Code, NEW size \in Nat \ {0}, NEW md1, NEW md2
  PROVE  IsErrorFrame(HttpErrorWithLimit(code, size, md1, md2), md1, md2)
<1> DEFINE f == HttpErrorWithLimit(code, size, md1, md2)
           limited == IF size > limit THEN "resource_exhausted" ELSE code
<1>1. limited \in Code /\ limited # "ok" /\ (size > limit => limited = "resource_exhausted")
  BY DEF Code
<1>2. /\ f.kind = "response" /\ f.code = limited /\ f.status = grpcCodeToHTTPStatus(limited)
      /\ f.header = md1 /\ f.trailer = md2
      /\ f.size = IF size <= limit THEN size ELSE IF OwnErrorSize <= limit THEN OwnErrorSize ELSE 0
  BY DEF HttpErrorWithLimit, Response
<1>3. f.size \in Nat /\ f.size <= limit /\ (f.size = 0 => size > limit)
  BY <1>2, EndpointAssumption
<1> HIDE DEF f, limited
<1>4. f.status \notin {200, 202}
  BY <1>1, <1>2, ErrorStatus
<1>5. QED
  BY <1>1, <1>2, <1>3, <1>4 DEF f, IsErrorFrame

\* Every error of a handler is reported with a code that is not success.
LEMMA HandlerErrorCode ==
  ASSUME NEW err \in HandlerError
  PROVE  /\ statusFromError(err) \in Code
         /\ statusFromError(err) = IF err.kind = "plain" THEN "unknown" ELSE err.code
BY DEF HandlerError, statusFromError, Code, ContextCode

\* What a client makes of the response to an error of a handler.
LEMMA FailureReported ==
  ASSUME limit \in Nat \ {0}, failure.err \in HandlerError, failure.size \in Nat \ {0},
         NEW md1, NEW md2
  PROVE  ClientCode(HttpErrorWithLimit(statusFromError(failure.err), failure.size, md1, md2))
            = FailureCode
<1> DEFINE code == statusFromError(failure.err)
           limited == IF failure.size > limit THEN "resource_exhausted" ELSE code
           f == HttpErrorWithLimit(code, failure.size, md1, md2)
<1>1. code \in Code /\ code = IF failure.err.kind = "plain" THEN "unknown" ELSE failure.err.code
  BY HandlerErrorCode
<1> HIDE DEF code
<1>2. /\ f.code = limited /\ f.status = grpcCodeToHTTPStatus(limited)
      /\ f.size = IF failure.size <= limit THEN failure.size
                  ELSE IF OwnErrorSize <= limit THEN OwnErrorSize ELSE 0
  BY DEF HttpErrorWithLimit, Response
<1>3. limited \in Code /\ "resource_exhausted" \in Code
  BY <1>1 DEF Code
<1>4. grpcCodeToHTTPStatus(limited) \in Nat
  BY <1>3, ErrorStatus
<1>5. ClientCode(f) = httpClientError(f.status, IF f.size = 0 THEN Absent ELSE grpcCodeName(f.code))
  BY Zenon DEF ClientCode
<1> HIDE DEF f
<1>6. CASE failure.size <= limit
  <2>1. limited = code /\ f.size # 0
    BY <1>2, <1>6
  <2>2. ClientCode(f) = httpClientError(f.status, grpcCodeName(code))
    BY <1>2, <1>5, <2>1
  <2>3. ClientCode(f) = IF code = "unregistered" THEN "unknown" ELSE code
    BY <1>1, <1>2, <1>4, <2>1, <2>2, ReportedCode
  <2>4. QED
    BY <1>1, <1>6, <2>3 DEF FailureCode, f, code
<1>7. CASE ~(failure.size <= limit) /\ OwnErrorSize <= limit
  <2>1. limited = "resource_exhausted" /\ f.size # 0
    BY <1>2, <1>7, EndpointAssumption
  <2>2. ClientCode(f) = httpClientError(f.status, grpcCodeName("resource_exhausted"))
    BY <1>2, <1>5, <2>1
  <2>3. ClientCode(f) = "resource_exhausted"
    BY <1>2, <1>3, <1>4, <2>1, <2>2, ReportedCode
  <2>4. QED
    BY <1>7, <2>3 DEF FailureCode, f, code
<1>8. CASE ~(failure.size <= limit) /\ ~(OwnErrorSize <= limit)
  <2>1. limited = "resource_exhausted" /\ f.size = 0
    BY <1>2, <1>8, EndpointAssumption
  <2>2. f.status = 429
    BY <1>2, <2>1, ErrorStatus
  <2>3. ClientCode(f) = "unavailable"
    BY <1>5, <2>1, <2>2, ReportedCode
  <2>4. QED
    BY <1>8, <2>3 DEF FailureCode, f, code
<1>9. QED
  BY <1>6, <1>7, <1>8

\* A response that suits ends the call with all promises kept.
LEMMA AnswerKeeps ==
  ASSUME Inv, pc \in Quiet, NEW f, Answer(f), Suits(f, silent'),
         UNCHANGED <<codec, content, encodedSize, failure, late>>
  PROVE  Inv'
<1>1. wire = <<>> /\ ~committed
  BY DEF Inv, Waiting, Quiet
<1>2. /\ pc' = "done" /\ wire' = (IF up THEN <<f>> ELSE <<>>) /\ committed' = committed
      /\ up' = up /\ tried' = tried /\ result' = result /\ limit' = limit
      /\ header' = header /\ trailer' = trailer
  BY <1>1 DEF Answer, Received, stream
<1>3. Typed'
  BY <1>2 DEF Inv, Typed
<1>4. CASE ~up
  <2>1. wire' = <<>> /\ DOMAIN wire' = {} /\ ~up' /\ Messages' = {}
    BY <1>2, <1>4 DEF Messages
  <2>2. OneAnswer'
    BY <2>1 DEF OneAnswer
  <2>3. SuccessIsComplete'
    BY <2>1 DEF SuccessIsComplete
  <2>4. MetadataDelivered'
    BY <1>1, <1>2, <2>1 DEF MetadataDelivered
  <2>5. CodeSurvives'
    BY <2>1 DEF CodeSurvives
  <2>6. LateIsNoSuccess' /\ RepliesAsAsked'
    BY <2>1 DEF LateIsNoSuccess, RepliesAsAsked
  <2>7. WithinLimit'
    BY <1>2, <2>1 DEF WithinLimit, Inv, Collecting, Quiet
  <2>8. QED
    BY <1>2, <1>3, <2>2, <2>3, <2>4, <2>5, <2>6, <2>7 DEF Inv, Promise
<1>5. CASE up
  <2>1. wire' = <<f>> /\ DOMAIN wire' = {1} /\ wire'[1] = f /\ Len(wire') = 1
    BY <1>2, <1>5
  <2>2. f.kind \in {"response", "plain"} /\ Messages' = {}
    BY <2>1 DEF Suits, Messages
  <2>3. OneAnswer'
    BY <2>1, <2>2 DEF OneAnswer
  <2>4. SuccessIsComplete'
    BY <1>2, <2>1, <2>2 DEF SuccessIsComplete, IsEnd, Suits
  <2>5. MetadataDelivered'
    <3>1. Decoded(Encoded(header)) = Sendable(header) /\ Decoded(Encoded(trailer)) = Sendable(trailer)
      BY DecodesEncoded DEF Inv, Typed
    <3>2. codec \in {"json", "proto"} /\ result # "none" =>
             Decoded(f.header) = Sendable(header) /\ Decoded(f.trailer) = Sendable(trailer)
      BY <3>1 DEF Suits
    <3>3. QED
      BY <1>1, <1>2, <2>1, <2>2, <3>2 DEF MetadataDelivered, IsEnd, Sendable, Decoded
  <2>6. CodeSurvives'
    <3>1. FailureCode' = FailureCode
      BY <1>2 DEF FailureCode
    <3>2. \A g : ClientCode(g)' = ClientCode(g)
      BY DEF ClientCode
    <3>3. QED
      BY <1>2, <2>1, <3>1, <3>2 DEF CodeSurvives, Suits
  <2>7. LateIsNoSuccess'
    BY <1>2, <2>1 DEF LateIsNoSuccess, Suits
  <2>8. RepliesAsAsked'
    BY <1>2, <2>1 DEF RepliesAsAsked, Suits
  <2>9. WithinLimit'
    BY <1>2, <2>1 DEF WithinLimit, Inv, Collecting, Quiet, Suits
  <2>10. QED
    BY <1>2, <1>3, <2>3, <2>4, <2>5, <2>6, <2>7, <2>8, <2>9 DEF Inv, Promise
<1>6. QED
  BY <1>4, <1>5

\* The length of an MCP result grows by a block and, but for the first one, a comma.
LEMMA LengthGrows ==
  /\ Length(<<>>) = EmptySize
  /\ \A blocks \in Seq(Nat), size \in Nat :
        /\ Length(blocks) \in Nat
        /\ Length(Append(blocks, size)) = Length(blocks) + size + (IF blocks = <<>> THEN 0 ELSE 1)
<1>1. Length(<<>>) = EmptySize
  <2>1. Length(<<>>) = EmptySize + Total(<<>>) + 0
    BY Zenon DEF Length
  <2>2. QED
    BY <2>1, TotalGrows, EndpointAssumption
<1>2. ASSUME NEW blocks \in Seq(Nat), NEW size \in Nat
      PROVE  /\ Length(blocks) \in Nat
             /\ Length(Append(blocks, size)) = Length(blocks) + size + (IF blocks = <<>> THEN 0 ELSE 1)
  <2> DEFINE more == Append(blocks, size)
  <2>1. /\ more # <<>> /\ Len(more) = Len(blocks) + 1 /\ Len(blocks) \in Nat
        /\ blocks = <<>> => Len(blocks) = 0
        /\ blocks # <<>> => Len(blocks) > 0
    <3>1. Len(more) = Len(blocks) + 1
      OBVIOUS
    <3> HIDE DEF more
    <3>2. Len(<<>>) = 0 /\ Len(blocks) \in Nat /\ (blocks # <<>> => Len(blocks) # 0)
      BY EmptySeq, LenProperties
    <3>3. QED
      BY <3>1, <3>2
  <2>2. Total(more) = Total(blocks) + size /\ Total(blocks) \in Nat
    BY TotalGrows
  <2>3. Length(blocks) = EmptySize + Total(blocks) + (IF blocks = <<>> THEN 0 ELSE Len(blocks) - 1)
    BY Zenon DEF Length
  <2>4. Length(more) = EmptySize + Total(more) + (IF more = <<>> THEN 0 ELSE Len(more) - 1)
    BY Zenon DEF Length
  <2> HIDE DEF more
  <2>5. Length(blocks) \in Nat
    BY <2>1, <2>2, <2>3, EndpointAssumption
  <2>6. Length(more) = Length(blocks) + size + (IF blocks = <<>> THEN 0 ELSE 1)
    BY <2>1, <2>2, <2>3, <2>4, EndpointAssumption
  <2>7. QED
    BY <2>5, <2>6 DEF more
<1>3. QED
  BY <1>1, <1>2

\* The facts about the stages that the steps below need.
LEMMA Stages ==
  ASSUME Inv
  PROVE  /\ limit \in Nat \ {0}
         /\ pc \in Quiet => ~silent
         /\ pc \in Quiet \ {"respond"} => result = "none" /\ ~late
         /\ pc = "route" => codec = "none"
         /\ pc \in {"reading", "decoding"} => codec \in {"json", "proto", "mcp"}
         /\ pc \in {"tool", "respond"} => codec \in {"json", "proto", "mcp_unary", "mcp_stream"}
BY DEF Inv, Typed, Waiting, Quiet

\* An error ends the call with all promises kept, with the metadata of the handler if it
\* ran.
LEMMA ErrorKeeps ==
  ASSUME Inv, pc \in Quiet, NEW code \in Code, NEW size \in Nat \ {0}, NEW md1, NEW md2,
         Answer(HttpErrorWithLimit(code, size, md1, md2)),
         codec \in {"json", "proto"} /\ result # "none" =>
            md1 = Encoded(header) /\ md2 = Encoded(trailer),
         codec \in {"json", "proto"} /\ result = "error" =>
            /\ failure.err \in HandlerError /\ failure.size \in Nat \ {0}
            /\ code = statusFromError(failure.err) /\ size = failure.size,
         UNCHANGED <<codec, content, encodedSize, failure, late>>
  PROVE  Inv'
<1> DEFINE f == HttpErrorWithLimit(code, size, md1, md2)
<1>1. limit \in Nat \ {0}
  BY Stages
<1>2. /\ f.kind = "response" /\ f.size \in Nat /\ f.size <= limit
      /\ f.code \in Code /\ f.status = grpcCodeToHTTPStatus(f.code)
      /\ f.status \notin {200, 202}
      /\ f.size = 0 => f.code = "resource_exhausted"
      /\ f.header = md1 /\ f.trailer = md2
  <2>1. IsErrorFrame(f, md1, md2)
    BY <1>1, ErrorFrame, Zenon
  <2> HIDE DEF f
  <2>2. QED
    BY <2>1 DEF IsErrorFrame
<1>3. codec \in {"json", "proto"} /\ result = "error" => ClientCode(f) = FailureCode
  BY <1>1, FailureReported
<1> HIDE DEF f
<1>4. Suits(f, silent')
  BY <1>2, <1>3 DEF Suits
<1>5. QED
  BY <1>4, AnswerKeeps DEF f

\* An error of the projection itself, before the handler has run or for MCP.
LEMMA RefuseKeeps ==
  ASSUME Inv, pc \in Quiet, NEW code \in Code, Refuse(code),
         pc # "respond" \/ codec \in {"mcp_unary", "mcp_stream"},
         UNCHANGED <<codec, content, encodedSize, failure, late>>
  PROVE  Inv'
<1>1. codec \in {"json", "proto"} => result = "none"
  BY Stages
<1>2. OwnErrorSize \in Nat \ {0}
  BY EndpointAssumption
<1>3. QED
  BY <1>1, <1>2, ErrorKeeps DEF Refuse

\* A plain answer before any handler has run.
LEMMA PlainKeeps ==
  ASSUME Inv, pc \in {"route", "decoding"}, codec \in {"none", "mcp"}, NEW status, Plain(status),
         silent' => status # 200, codec = "mcp" /\ ~silent' => status # 202,
         UNCHANGED <<codec, content, encodedSize, failure, late>>
  PROVE  Inv'
<1> DEFINE f == [kind |-> "plain", status |-> status, code |-> "ok"]
<1>1. limit \in Nat \ {0} /\ ~late /\ pc \in Quiet
  BY Stages DEF Quiet
<1>2. f.kind = "plain" /\ f.status = status
  OBVIOUS
<1>3. Suits(f, silent')
  BY <1>1, <1>2 DEF Suits
<1>4. QED
  BY <1>1, <1>3, AnswerKeeps DEF Plain

\* A JSON-RPC response, or the error that replaces one that is too large.
LEMMA McpFrame ==
  ASSUME limit \in Nat \ {0}, NEW code, NEW size \in Nat
  PROVE  LET f == WriteMCPJSON(code, size) IN
         /\ f.kind = "response" /\ f.size <= limit /\ f.status # 202
         /\ f.status = 200 => f.code = code
<1>1. CASE size > limit
  <2> DEFINE g == HttpErrorWithLimit("resource_exhausted", OwnErrorSize, {}, {})
  <2>1. "resource_exhausted" \in Code
    BY DEF Code
  <2>2. g.kind = "response" /\ g.size <= limit /\ g.status \notin {200, 202}
    <3>1. IsErrorFrame(g, {}, {})
      BY <2>1, EndpointAssumption, ErrorFrame, Zenon
    <3> HIDE DEF g
    <3>2. QED
      BY <3>1 DEF IsErrorFrame
  <2>3. QED
    BY <1>1, <2>2 DEF WriteMCPJSON
<1>2. CASE ~(size > limit)
  BY <1>2 DEF WriteMCPJSON, Response
<1>3. QED
  BY <1>1, <1>2

\* The answer to a dispatched message, or the error of an ended context.
LEMMA DispatchedKeeps ==
  ASSUME Inv, pc \in {"decoding", "respond"}, codec \in {"mcp", "mcp_unary", "mcp_stream"},
         NEW f, Dispatched(f), ~ended => Suits(f, silent'),
         UNCHANGED <<codec, content, encodedSize, failure, late>>
  PROVE  Inv'
<1>1. pc \in Quiet /\ (pc # "respond" \/ codec \in {"mcp_unary", "mcp_stream"})
  BY Stages DEF Quiet
<1>2. CASE ended
  <2>1. PICK code \in ContextCode : Refuse(code)
    BY <1>2 DEF Dispatched
  <2>2. code \in Code
    BY DEF ContextCode, Code
  <2>3. QED
    BY <1>1, <2>1, <2>2, RefuseKeeps
<1>3. CASE ~ended
  BY <1>1, <1>3, AnswerKeeps DEF Dispatched
<1>4. QED
  BY <1>2, <1>3

(***************************************************************************)
(* The steps up to the handler.                                            *)
(***************************************************************************)
\* Documents, and requests without a handler.
LEMMA RouteStep ==
  ASSUME Inv, ServeDocument \/ NoHandler
  PROVE  Inv'
<1>1. pc = "route" /\ UNCHANGED unaryVars /\ \E s \in Nat \ {202} : Plain(s)
  BY DEF ServeDocument, NoHandler, At
<1>2. codec = "none" /\ ~silent /\ UNCHANGED <<codec, content, encodedSize, failure, late, silent>>
  BY <1>1, Stages DEF Quiet, unaryVars
<1>3. QED
  BY <1>1, <1>2, PlainKeeps

\* The request goes on to the next stage with nothing sent and nothing collected.
LEMMA GoOnKeeps ==
  ASSUME Inv, NEW where \in {"request", "reading", "decoding", "tool"}, GoOn(where),
         pc \in {"route", "reading", "decoding"},
         where = "request" => codec' = "none",
         where \in {"reading", "decoding"} => codec' \in {"json", "proto", "mcp"},
         where = "tool" => codec' \in {"json", "proto", "mcp_unary", "mcp_stream"},
         codec' = "mcp_stream" => encodedSize' = EmptySize /\ EmptySize <= limit,
         ~silent', encodedSize' \in Nat, UNCHANGED <<content, late>>
  PROVE  Inv'
<1>1. /\ wire = <<>> /\ ~committed /\ result = "none" /\ ~late /\ content = <<>> /\ tried = 0
      /\ limit \in Nat \ {0} /\ ~sendErr /\ trailer = {}
  BY DEF Inv, Typed, Waiting, Flowing, Collecting, Quiet
<1>2. /\ pc' = where /\ wire' = wire /\ committed' = committed /\ result' = result
      /\ tried' = tried /\ limit' = limit /\ UNCHANGED <<header, trailer, sendErr>>
  BY DEF GoOn, stream
<1>3. Length(<<>>) = EmptySize
  BY LengthGrows
<1>4. Typed'
  BY <1>1, <1>2 DEF Inv, Typed, Quiet, Pairs
<1>5. Waiting'
  BY <1>1, <1>2 DEF Waiting, Quiet, Streaming
<1>6. Flowing'
  BY <1>1, <1>2 DEF Flowing, Streaming
<1>7. Collecting'
  BY <1>1, <1>2, <1>3 DEF Collecting
<1>8. QED
  BY <1>2, <1>4, <1>5, <1>6, <1>7 DEF Inv

\* handleHTTP up to the body.
LEMMA HandleHTTPStep ==
  ASSUME Inv, HandleHTTP
  PROVE  Inv'
<1>1. pc = "route" /\ codec = "none" /\ ~silent /\ encodedSize \in Nat /\ limit \in Nat \ {0}
  BY Stages DEF HandleHTTP, At, Quiet, Inv, Typed
<1>2. UNCHANGED <<content, encodedSize, failure, late, silent>>
  BY DEF HandleHTTP, ApplyConnectTimeout, unaryVars
<1>3. CASE Refuse("invalid_argument") /\ UNCHANGED codec
  BY <1>1, <1>2, <1>3, RefuseKeeps DEF Code, Quiet
<1>4. CASE Refuse("unimplemented") /\ UNCHANGED codec
  BY <1>1, <1>2, <1>4, RefuseKeeps DEF Code, Quiet
<1>5. CASE Answer(UnsupportedMedia(IF OwnErrorSize <= limit THEN OwnErrorSize ELSE 0)) /\ UNCHANGED codec
  <2> DEFINE f == UnsupportedMedia(IF OwnErrorSize <= limit THEN OwnErrorSize ELSE 0)
  <2>1. f.kind = "response" /\ f.status = 415 /\ f.size <= limit
    BY <1>1, EndpointAssumption DEF UnsupportedMedia, Response
  <2> HIDE DEF f
  <2>2. Suits(f, silent')
    BY <1>1, <2>1 DEF Suits
  <2>3. QED
    BY <1>1, <1>2, <1>5, <2>2, AnswerKeeps DEF Quiet, f
<1>6. CASE GoOn("request") /\ UNCHANGED codec
  BY <1>1, <1>2, <1>6, GoOnKeeps
<1>7. CASE GoOn("reading") /\ codec' \in {"json", "proto"}
  BY <1>1, <1>2, <1>7, GoOnKeeps
<1>8. QED
  BY <1>3, <1>4, <1>5, <1>6, <1>7 DEF HandleHTTP, unaryVars

\* handleMCPHTTP up to the body.
LEMMA HandleMCPHTTPStep ==
  ASSUME Inv, HandleMCPHTTP
  PROVE  Inv'
<1>1. pc = "route" /\ codec = "none" /\ ~silent /\ encodedSize \in Nat
  BY Stages DEF HandleMCPHTTP, At, Quiet, Inv, Typed
<1>2. UNCHANGED <<content, encodedSize, failure, late, silent>>
  BY DEF HandleMCPHTTP, ApplyConnectTimeout, unaryVars
<1>3. CASE (\E s \in {403, 406, 415} : Plain(s)) /\ UNCHANGED codec
  BY <1>1, <1>2, <1>3, PlainKeeps
<1>4. CASE Refuse("invalid_argument") /\ UNCHANGED codec
  BY <1>1, <1>2, <1>4, RefuseKeeps DEF Code, Quiet
<1>5. CASE GoOn("reading") /\ codec' = "mcp"
  BY <1>1, <1>2, <1>5, GoOnKeeps
<1>6. QED
  BY <1>3, <1>4, <1>5 DEF HandleMCPHTTP, unaryVars

\* The body of the request.
LEMMA BodyStep ==
  ASSUME Inv, BodyArrives \/ BodyTooLarge \/ BodyFails
  PROVE  Inv'
<1>1. pc = "reading" /\ codec \in {"json", "proto", "mcp"} /\ ~silent /\ encodedSize \in Nat
  BY Stages DEF BodyArrives, BodyTooLarge, BodyFails, Quiet, Inv, Typed
<1>2. UNCHANGED <<codec, content, encodedSize, failure, late, silent>>
  BY DEF BodyArrives, BodyTooLarge, BodyFails, unaryVars
<1>3. CASE GoOn("decoding")
  BY <1>1, <1>2, <1>3, GoOnKeeps
<1>4. CASE \E code \in Code : Refuse(code)
  BY <1>1, <1>2, <1>4, RefuseKeeps DEF Quiet
<1>5. QED
  BY <1>3, <1>4 DEF BodyArrives, BodyTooLarge, BodyFails, Code, ContextCode

\* Unary requests that decode or do not.
LEMMA DecodeStep ==
  ASSUME Inv, DecodeJSON \/ DecodeProto
  PROVE  Inv'
<1>1. /\ pc = "decoding" /\ codec \in {"json", "proto"} /\ ~silent /\ encodedSize \in Nat
      /\ result = "none" /\ ~late /\ limit \in Nat \ {0}
  BY Stages DEF DecodeJSON, DecodeProto, Quiet, Inv, Typed
<1>2. UNCHANGED <<codec, content, encodedSize, failure, late, silent>>
  BY DEF DecodeJSON, DecodeProto, unaryVars
<1>3. CASE GoOn("tool")
  BY <1>1, <1>2, <1>3, GoOnKeeps
<1>4. ASSUME NEW code \in {"unknown", "invalid_argument"}, NEW size \in Size,
             Answer(HttpErrorWithLimit(code, size, {}, {}))
      PROVE  Inv'
  <2>1. code \in Code /\ size \in Nat \ {0}
    BY EndpointAssumption DEF Code
  <2>2. QED
    BY <1>1, <1>2, <1>4, <2>1, ErrorKeeps DEF Quiet
<1>5. QED
  BY <1>3, <1>4 DEF DecodeJSON, DecodeProto

\* A response to a message that wants one.
LEMMA ReplySuits ==
  ASSUME limit \in Nat \ {0}, ~late, codec = "mcp", NEW code, NEW size \in Nat
  PROVE  Suits(WriteMCPJSON(code, size), FALSE)
<1> DEFINE f == WriteMCPJSON(code, size)
<1>1. f.kind = "response" /\ f.size <= limit /\ f.status # 202
  BY McpFrame
<1> HIDE DEF f
<1>2. Suits(f, FALSE)
  BY <1>1 DEF Suits
<1>3. QED
  BY <1>2 DEF f

\* MCP messages that reach no handler: the reply is what the kind of the message asks for.
LEMMA AnswerMCPStep ==
  ASSUME Inv, AnswerMCP
  PROVE  Inv'
<1>1. /\ pc = "decoding" /\ codec = "mcp" /\ ~late /\ limit \in Nat \ {0} /\ pc \in Quiet
      /\ UNCHANGED <<codec, content, encodedSize, failure, late>>
  BY Stages DEF AnswerMCP, Quiet
<1>2. PICK m \in Incoming, version \in {"current", "unsupported", Absent}, size \in Size :
         LET parsed == m[2]
             accepted == parsed.kind # "error" /\ VersionAccepted(parsed, version)
         IN  /\ silent' = m[1]
             /\ \/ parsed.kind = "error" /\ Answer(WriteMCPJSON("rpc_error", size))
                \/ parsed.kind # "error" /\ ~accepted /\ Plain(400)
                \/ accepted /\ parsed.kind = "response" /\ Plain(202)
                \/ /\ accepted /\ parsed.kind = "request"
                   /\ \/ /\ Dispatch(parsed) = "nothing"
                         /\ Dispatched(Response(202, "ok", 0, {}, {}))
                      \/ /\ Dispatch(parsed) \in {"ok", "rpc_error"}
                         /\ Dispatched(WriteMCPJSON(Dispatch(parsed), size))
                      \/ /\ Dispatch(parsed) = "tool"
                         /\ \/ \E code \in {"rpc_error", "tool_error"} :
                                  Dispatched(WriteMCPJSON(code, size))
                            \/ /\ EmptySize > limit
                               /\ Dispatched(HttpErrorWithLimit("resource_exhausted",
                                                                OwnErrorSize, {}, {}))
  BY Zenon DEF AnswerMCP
<1>3. silent' <=> m[2].kind = "response" \/ (m[2].kind = "request" /\ Dispatch(m[2]) = "nothing")
  BY <1>2, SilentMessages, Zenon
<1>4. size \in Nat
  BY EndpointAssumption
<1>5. CASE m[2].kind = "error" /\ Answer(WriteMCPJSON("rpc_error", size))
  <2>1. ~silent'
    BY <1>3, <1>5
  <2>2. Suits(WriteMCPJSON("rpc_error", size), silent')
    BY <1>1, <1>4, <2>1, ReplySuits DEF Suits
  <2>3. QED
    BY <1>1, <1>5, <2>2, AnswerKeeps
<1>6. CASE Plain(400)
  BY <1>1, <1>6, PlainKeeps
<1>7. CASE m[2].kind = "response" /\ Plain(202)
  <2>1. silent'
    BY <1>3, <1>7
  <2>2. QED
    BY <1>1, <1>7, <2>1, PlainKeeps
<1>8. CASE /\ m[2].kind = "request" /\ Dispatch(m[2]) = "nothing"
           /\ Dispatched(Response(202, "ok", 0, {}, {}))
  <2> DEFINE f == Response(202, "ok", 0, {}, {})
  <2>1. silent'
    BY <1>3, <1>8
  <2>2. f.kind = "response" /\ f.status = 202 /\ f.size = 0
    BY DEF Response
  <2> HIDE DEF f
  <2>3. Suits(f, silent')
    BY <1>1, <2>1, <2>2 DEF Suits
  <2>4. QED
    BY <1>1, <1>8, <2>3, DispatchedKeeps DEF f
<1>9. ASSUME m[2].kind = "request", Dispatch(m[2]) # "nothing",
             NEW code, Dispatched(WriteMCPJSON(code, size))
      PROVE  Inv'
  <2>1. ~silent'
    BY <1>3, <1>9
  <2>2. Suits(WriteMCPJSON(code, size), silent')
    BY <1>1, <1>4, <2>1, ReplySuits DEF Suits
  <2>3. QED
    BY <1>1, <1>9, <2>2, DispatchedKeeps
<1>10. CASE Dispatched(HttpErrorWithLimit("resource_exhausted", OwnErrorSize, {}, {}))
  <2> DEFINE f == HttpErrorWithLimit("resource_exhausted", OwnErrorSize, {}, {})
  <2>1. "resource_exhausted" \in Code /\ OwnErrorSize \in Nat \ {0}
    BY EndpointAssumption DEF Code
  <2>2. f.kind = "response" /\ f.size <= limit /\ f.status \notin {200, 202}
    <3>1. IsErrorFrame(f, {}, {})
      BY <1>1, <2>1, ErrorFrame, Zenon
    <3> HIDE DEF f
    <3>2. QED
      BY <3>1 DEF IsErrorFrame
  <2> HIDE DEF f
  <2>3. Suits(f, silent')
    BY <1>1, <2>2 DEF Suits
  <2>4. QED
    BY <1>1, <1>10, <2>3, DispatchedKeeps DEF f
<1>11. QED
  BY <1>2, <1>5, <1>6, <1>7, <1>8, <1>9, <1>10

\* A tools/call that reaches a handler wants an answer.
LEMMA ToolsCallStep ==
  ASSUME Inv, ToolsCall
  PROVE  Inv'
<1>1. pc = "decoding" /\ codec = "mcp" /\ encodedSize \in Nat
  BY DEF ToolsCall, Inv, Typed
<1>2. PICK m \in Incoming : m[2].kind = "request" /\ Dispatch(m[2]) = "tool" /\ silent' = m[1]
  BY DEF ToolsCall
<1>3. ~silent'
  BY <1>2, SilentMessages
<1>4. /\ GoOn("tool") /\ UNCHANGED <<content, late>>
      /\ \/ codec' = "mcp_unary" /\ encodedSize' = encodedSize
         \/ EmptySize <= limit /\ codec' = "mcp_stream" /\ encodedSize' = EmptySize
  BY DEF ToolsCall
<1>5. encodedSize' \in Nat
  BY <1>1, <1>4, EndpointAssumption
<1>6. QED
  BY <1>1, <1>3, <1>4, <1>5, GoOnKeeps

(***************************************************************************)
(* The handler.                                                            *)
(***************************************************************************)
\* Metadata does not touch what the answer relies on.
LEMMA ToolMetadataStep ==
  ASSUME Inv, NEW headers, NEW trailers, NEW sent, InTool(headers, trailers, sent),
         Pairs(headers), Pairs(trailers)
  PROVE  Inv'
<1>1. /\ pc = "tool" /\ pc' = "tool" /\ header' = headers /\ trailer' = trailers
      /\ UNCHANGED <<ended, up, sendErr, committed, tried, result, wireHeader, wire, limit>>
      /\ UNCHANGED <<codec, content, encodedSize, failure, late, silent>>
  BY DEF InTool, unaryVars
<1>2. Typed' /\ Waiting'
  BY <1>1 DEF Inv, Typed, Waiting, Quiet, Streaming, Pairs
<1>3. Flowing' /\ Collecting'
  BY <1>1 DEF Inv, Flowing, Collecting, Quiet, Streaming
<1>4. QED
  BY <1>1, <1>2, <1>3 DEF Inv

\* A block that is accepted is counted with its comma, and is within the limit.
LEMMA ToolSendsStep ==
  ASSUME Inv, NEW size \in Size, ToolSends(size)
  PROVE  Inv'
<1>1. /\ pc = "tool" /\ pc' = "tool" /\ tried' = tried + 1 /\ codec = "mcp_stream"
      /\ UNCHANGED <<ended, up, committed, result, wireHeader, wire, limit, codec, late, silent>>
      /\ UNCHANGED <<header, trailer>>
  BY DEF ToolSends
<1>2. /\ tried \in Nat /\ content \in Seq(Nat) /\ encodedSize \in Nat /\ size \in Nat
      /\ encodedSize = Length(content) /\ encodedSize <= limit
      /\ ~ended /\ ~sendErr => Len(content) = tried
  BY <1>1, EndpointAssumption DEF Inv, Typed, Collecting
<1>3. \/ (ended \/ sendErr') /\ UNCHANGED <<content, encodedSize>>
      \/ /\ ~ended /\ ~sendErr /\ ~sendErr' /\ NextSize(size) <= limit
         /\ content' = Append(content, size) /\ encodedSize' = NextSize(size)
  BY DEF ToolSends
<1>4. /\ content' \in Seq(Nat) /\ encodedSize' \in Nat
      /\ encodedSize' = Length(content') /\ encodedSize' <= limit
      /\ ~ended /\ ~sendErr' => Len(content') = tried + 1
  <2>1. CASE (ended \/ sendErr') /\ UNCHANGED <<content, encodedSize>>
    BY <1>2, <2>1
  <2>2. CASE /\ ~ended /\ ~sendErr /\ NextSize(size) <= limit
             /\ content' = Append(content, size) /\ encodedSize' = NextSize(size)
    <3>1. content' \in Seq(Nat) /\ Len(content') = Len(content) + 1
      BY <1>2, <2>2, AppendProperties
    <3>2. Length(content') = Length(content) + size + (IF content = <<>> THEN 0 ELSE 1)
      BY <1>2, <2>2, LengthGrows
    <3>3. NextSize(size) \in Nat /\ Length(content') = NextSize(size)
      BY <1>2, <3>2 DEF NextSize
    <3>4. QED
      BY <1>2, <2>2, <3>1, <3>3
  <2>3. QED
    BY <1>3, <2>1, <2>2
<1>5. Typed' /\ Waiting'
  BY <1>1, <1>2, <1>4 DEF Inv, Typed, Waiting, Quiet, Streaming
<1>6. Flowing' /\ Collecting'
  BY <1>1, <1>4 DEF Inv, Flowing, Collecting, Quiet, Streaming
<1>7. QED
  BY <1>1, <1>5, <1>6 DEF Inv

\* A handler that lost a message, or returns late, has not succeeded.
LEMMA ToolReturnsStep ==
  ASSUME Inv, NEW r \in Outcome, NEW size \in Size, ToolReturns(r, size)
  PROVE  Inv'
<1>1. /\ pc = "tool" /\ pc' = "respond" /\ late' = ended
      /\ UNCHANGED <<ended, up, sendErr, committed, tried, wireHeader, wire, limit>>
      /\ UNCHANGED <<header, trailer, codec, content, encodedSize, silent>>
  BY DEF ToolReturns, stream
<1>2. result' \in {"ok", "error", "context"} /\ (result' = "ok" => ~sendErr /\ ~ended)
  BY DEF ToolReturns
<1>3. codec \in {"json", "proto"} /\ result' = "error" =>
         failure'.err \in HandlerError /\ failure'.size \in Nat \ {0}
  <2>1. SUFFICES ASSUME codec \in {"json", "proto"}, result' = "error"
                 PROVE  failure'.err \in HandlerError /\ failure'.size \in Nat \ {0}
    OBVIOUS
  <2>2. ~sendErr
    BY <1>1, <2>1 DEF Inv, Waiting
  <2>3. r.kind # "ok"
    BY <2>1, <2>2 DEF ToolReturns
  <2>4. failure' = [err |-> r, size |-> size]
    BY <2>1, <2>3 DEF ToolReturns
  <2>5. r \in HandlerError
    BY <2>3 DEF Outcome
  <2>6. QED
    BY <2>4, <2>5, EndpointAssumption
<1>4. Typed' /\ Waiting'
  BY <1>1, <1>2, <1>3 DEF Inv, Typed, Waiting, Quiet, Streaming
<1>5. Flowing' /\ Collecting'
  BY <1>1, <1>2 DEF Inv, Flowing, Collecting, Quiet, Streaming
<1>6. QED
  BY <1>1, <1>4, <1>5 DEF Inv

(***************************************************************************)
(* The response.                                                           *)
(***************************************************************************)
\* An error after the handler has run carries its metadata.
LEMMA FailKeeps ==
  ASSUME Inv, pc = "respond", NEW code \in Code, NEW size \in Nat \ {0}, Fail(code, size),
         codec \in {"json", "proto"} /\ result = "error" =>
            code = statusFromError(failure.err) /\ size = failure.size,
         UNCHANGED unaryVars
  PROVE  Inv'
<1>1. pc \in Quiet /\ UNCHANGED <<codec, content, encodedSize, failure, late>>
  BY DEF Quiet, unaryVars
<1>2. codec \in {"json", "proto"} /\ result = "error" =>
         failure.err \in HandlerError /\ failure.size \in Nat \ {0}
  BY DEF Inv, Waiting
<1>3. QED
  BY <1>1, <1>2, ErrorKeeps DEF Fail

\* A success is within the limit, or is replaced by an error.
LEMMA SucceedKeeps ==
  ASSUME Inv, pc = "respond", codec \in {"json", "proto"}, result = "ok", ~ended, NEW size \in Size, Succeed(size),
         UNCHANGED unaryVars
  PROVE  Inv'
<1> DEFINE f == Response(200, "ok", size, Encoded(header), Encoded(trailer))
<1>1. /\ pc \in Quiet /\ ~late /\ ~silent' /\ limit \in Nat \ {0} /\ size \in Nat
      /\ UNCHANGED <<codec, content, encodedSize, failure, late>>
  BY EndpointAssumption DEF Quiet, unaryVars, Inv, Typed, Waiting
<1>2. CASE size > limit
  BY <1>2, FailKeeps, EndpointAssumption DEF Succeed, Code
<1>3. CASE ~(size > limit)
  <2>1. /\ f.kind = "response" /\ f.code = "ok" /\ f.size <= limit /\ f.status = 200
        /\ f.header = Encoded(header) /\ f.trailer = Encoded(trailer)
    BY <1>1, <1>3 DEF Response
  <2>2. Answer(f)
    BY <1>3 DEF Succeed
  <2> HIDE DEF f
  <2>3. Suits(f, silent')
    BY <1>1, <2>1 DEF Suits
  <2>4. QED
    BY <1>1, <2>2, <2>3, AnswerKeeps
<1>4. QED
  BY <1>2, <1>3

\* The error of the handler or of its context.
LEMMA InvocationFailsStep ==
  ASSUME Inv, pc = "respond", codec \in {"json", "proto"}, InvocationFails, UNCHANGED unaryVars
  PROVE  Inv'
<1>1. OwnErrorSize \in Nat \ {0} /\ ContextCode \subseteq Code
  BY EndpointAssumption DEF ContextCode, Code
<1>2. CASE result # "error" /\ \E code \in ContextCode : Fail(code, OwnErrorSize)
  BY <1>1, <1>2, FailKeeps
<1>3. CASE result = "error" /\ Fail(statusFromError(failure.err), failure.size)
  <2>1. failure.err \in HandlerError /\ failure.size \in Nat \ {0}
    BY <1>3 DEF Inv, Waiting
  <2>2. QED
    BY <1>3, <2>1, HandlerErrorCode, FailKeeps
<1>4. QED
  BY <1>2, <1>3 DEF InvocationFails

\* The rest of handleHTTP and handleHTTPProto.
LEMMA RespondStep ==
  ASSUME Inv, RespondJSON \/ RespondProto
  PROVE  Inv'
<1>1. pc = "respond" /\ codec \in {"json", "proto"} /\ UNCHANGED unaryVars
  BY DEF RespondJSON, RespondProto
<1>2. CASE InvocationFails
  BY <1>1, <1>2, InvocationFailsStep
<1>3. CASE result = "ok" /\ \E size \in Size : Fail("unknown", size)
  BY <1>1, <1>3, FailKeeps, EndpointAssumption DEF Code
<1>4. CASE result = "ok" /\ ~ended /\ \E size \in Size : Succeed(size)
  BY <1>1, <1>4, SucceedKeeps
<1>5. QED
  BY <1>2, <1>3, <1>4 DEF RespondJSON, RespondProto

\* The rest of toolsCall and toolsCallStream.
LEMMA RespondMCPStep ==
  ASSUME Inv, RespondMCP
  PROVE  Inv'
<1>1. /\ pc = "respond" /\ codec \in {"mcp_unary", "mcp_stream"} /\ limit \in Nat \ {0}
      /\ ~ended => ~late
      /\ codec = "mcp_stream" /\ result = "ok" => Len(content) = tried
      /\ content \in Seq(Nat)
      /\ ~silent' /\ UNCHANGED <<codec, content, encodedSize, failure, late>>
  BY DEF RespondMCP, Inv, Typed, Waiting, Collecting, Quiet, unaryVars
<1>2. Size \subseteq Nat \ {0} /\ EmptySize \in Nat /\ OwnErrorSize \in Nat \ {0}
  BY EndpointAssumption
<1>3. Length(content) \in Nat
  BY <1>1, LengthGrows
<1>4. ASSUME NEW code, NEW size \in Nat, Dispatched(WriteMCPJSON(code, size)),
             codec = "mcp_stream" /\ code = "ok" => Len(content) = tried
      PROVE  Inv'
  <2> DEFINE f == WriteMCPJSON(code, size)
  <2>1. f.kind = "response" /\ f.size <= limit /\ f.status # 202 /\ (f.status = 200 => f.code = code)
    BY <1>1, McpFrame
  <2> HIDE DEF f
  <2>2. ~ended => Suits(f, silent')
    BY <1>1, <1>4, <2>1 DEF Suits
  <2>3. QED
    BY <1>1, <1>4, <2>2, DispatchedKeeps DEF f
<1>5. CASE Dispatched(HttpErrorWithLimit("resource_exhausted", OwnErrorSize, {}, {}))
  <2> DEFINE f == HttpErrorWithLimit("resource_exhausted", OwnErrorSize, {}, {})
  <2>1. "resource_exhausted" \in Code
    BY DEF Code
  <2>2. limit \in Nat \ {0} /\ OwnErrorSize \in Nat \ {0}
    BY <1>1, <1>2
  <2>3. f.kind = "response" /\ f.size <= limit /\ f.status \notin {200, 202}
    <3>1. IsErrorFrame(f, {}, {})
      BY <2>1, <2>2, ErrorFrame, Zenon
    <3> HIDE DEF f
    <3>2. QED
      BY <3>1 DEF IsErrorFrame
  <2> HIDE DEF f
  <2>4. Suits(f, silent')
    BY <1>1, <2>3 DEF Suits
  <2>5. QED
    BY <1>1, <1>5, <2>4, DispatchedKeeps DEF f
<1>6. CASE codec = "mcp_unary" /\ \E size \in Size : Dispatched(WriteMCPJSON(
                IF result = "ok" THEN "ok" ELSE "tool_error", size))
  BY <1>2, <1>4, <1>6
<1>7. CASE result = "ok" /\ Dispatched(WriteMCPJSON("ok", Length(content)))
  BY <1>1, <1>3, <1>4, <1>7
<1>8. CASE \E size \in Size : Dispatched(WriteMCPJSON("tool_error", Length(content) + size))
  <2>1. PICK size \in Size : Dispatched(WriteMCPJSON("tool_error", Length(content) + size))
    BY <1>8
  <2>2. Length(content) + size \in Nat
    BY <1>2, <1>3
  <2>3. QED
    BY <1>4, <2>1, <2>2
<1>9. QED
  BY <1>5, <1>6, <1>7, <1>8 DEF RespondMCP

(***************************************************************************)
(* A stream.                                                               *)
(***************************************************************************)
\* What a stream leaves alone.
rest == <<request, limit, deadline, unaryVars>>

\* The end of the context or of the connection breaks nothing that is promised yet.
LEMMA EnvironmentStep ==
  ASSUME Inv, ContextEnds \/ Disconnect, UNCHANGED rest
  PROVE  Inv'
<1>1. /\ pc # "done" /\ UNCHANGED <<pc, sendErr, headerSent, header, trailer, committed>>
      /\ UNCHANGED <<tried, result>>
      /\ UNCHANGED <<wireHeader, wire, limit, codec, content, encodedSize, failure, late, silent>>
      /\ ended => ended'
      /\ up' => up
  BY DEF ContextEnds, Disconnect, stream, rest, unaryVars
<1>2. Typed' /\ Waiting'
  BY <1>1 DEF Inv, Typed, Waiting
<1>3. Flowing' /\ Collecting'
  BY <1>1 DEF Inv, Flowing, Collecting
<1>4. QED
  BY <1>1, <1>2, <1>3 DEF Inv

\* A stream that is refused by its content type.
LEMMA UnsupportedMediaTypeStep ==
  ASSUME Inv, UnsupportedMediaType, UNCHANGED rest
  PROVE  Inv'
<1> DEFINE f == UnsupportedMedia(0)
<1>1. /\ pc \in Quiet /\ Answer(f) /\ UNCHANGED <<codec, content, encodedSize, failure, late, silent>>
  BY DEF UnsupportedMediaType, Answer, Quiet, rest, unaryVars
<1>2. codec = "none" /\ ~late /\ ~silent' /\ 0 <= limit
  BY <1>1 DEF UnsupportedMediaType, Inv, Typed, Waiting, Quiet
<1>3. f.kind = "response" /\ f.size = 0 /\ f.status = 415
  BY DEF UnsupportedMedia, Response
<1> HIDE DEF f
<1>4. Suits(f, silent')
  BY <1>2, <1>3 DEF Suits
<1>5. QED
  BY <1>1, <1>4, AnswerKeeps

\* What a stream may end with.
Ends(f) ==
    /\ f.kind = "end"
    /\ IF f.replaced THEN ~f.ok ELSE f.trailer = Encoded(trailer)

\* An end-of-stream envelope after the messages keeps all promises, if a success comes
\* after all messages.
LEMMA EndKeeps ==
  ASSUME Typed, pc' = "done", limit' = limit, tried' = tried, up' = up,
         UNCHANGED <<codec, content, encodedSize, failure, late, silent, header, trailer>>,
         codec = "none", ~late, ~silent,
         NEW n \in Nat, NEW f, Ends(f),
         wire' = IF up THEN Append(Sent(n), f) ELSE Sent(n),
         f.ok /\ up => tried = n,
         committed' => wireHeader' = Encoded(header)
  PROVE  Inv'
<1> DEFINE Reads == Decoded(Encoded(header)) = Sendable(header)
                    /\ Decoded(Encoded(trailer)) = Sendable(trailer)
<1>1. Typed' /\ Reads
  BY DecodesEncoded DEF Typed
<1>2. CASE ~up
  <2>1. DOMAIN wire' = 1..n /\ ~up' /\ \A i \in 1..n : wire'[i] = Message(i)
    BY <1>2 DEF Sent
  <2>2. \A i \in 1..n : wire'[i].kind = "message" /\ wire'[i].n = i
    BY <2>1 DEF Message
  <2>3. OneAnswer'
    BY <2>1, <2>2 DEF OneAnswer, Messages
  <2>4. SuccessIsComplete'
    BY <2>1, <2>2 DEF SuccessIsComplete, IsEnd
  <2>5. MetadataDelivered'
    BY <1>1, <2>1, <2>2 DEF MetadataDelivered, IsEnd, Sendable, Decoded
  <2>6. WithinLimit' /\ CodeSurvives'
    BY <2>1, <2>2 DEF WithinLimit, CodeSurvives
  <2>7. LateIsNoSuccess' /\ RepliesAsAsked'
    BY DEF LateIsNoSuccess, RepliesAsAsked
  <2>8. QED
    BY <1>1, <2>3, <2>4, <2>5, <2>6, <2>7 DEF Inv, Promise
<1>3. CASE up
  <2>1. f.kind = "end"
    BY DEF Ends
  <2>2. wire' = Append(Sent(n), f)
    BY <1>3
  <2>3. /\ Len(wire') = n + 1 /\ DOMAIN wire' = 1..(n + 1)
        /\ \A i \in 1..n : wire'[i] = Message(i)
        /\ wire'[n + 1] = f
    BY <2>2, LastFrame
  <2>4. \A i \in 1..n : wire'[i].kind = "message" /\ wire'[i].n = i
    <3>1. \A i \in 1..n : Message(i).kind = "message" /\ Message(i).n = i
      BY DEF Message
    <3>2. QED
      BY <2>3, <3>1, Zenon
  <2>5. \A i \in DOMAIN wire' : i \in 1..n \/ i = n + 1
    BY <2>3
  <2>6. Messages' = 1..n
    BY <2>1, <2>3, <2>4, <2>5 DEF Messages
  <2>7. Cardinality(1..n) = n
    BY FS_Interval
  <2>8. OneAnswer'
    <3>1. wire' # <<>> /\ wire'[Len(wire')] = f
      BY <2>3
    <3>2. QED
      BY <2>1, <2>3, <2>4, <2>5, <2>6, <3>1 DEF OneAnswer
  <2>9. SuccessIsComplete'
    BY <1>3, <2>1, <2>3, <2>4, <2>5, <2>6, <2>7 DEF SuccessIsComplete, IsEnd
  <2>10. MetadataDelivered'
    <3>1. IF f.replaced THEN ~f.ok ELSE Decoded(f.trailer) = Sendable(trailer)
      BY <1>1 DEF Ends
    <3>2. committed' => Decoded(wireHeader)' = Sendable(header)'
      BY <1>1 DEF Decoded, Sendable
    <3>3. \A i \in DOMAIN wire' : IsEnd(wire'[i]) => wire'[i] = f
      BY <2>3, <2>4, <2>5 DEF IsEnd
    <3>4. QED
      BY <3>1, <3>2, <3>3 DEF MetadataDelivered, IsEnd, Decoded, Sendable
  <2>11. WithinLimit' /\ CodeSurvives'
    BY <2>1, <2>3, <2>4, <2>5 DEF WithinLimit, CodeSurvives
  <2>12. LateIsNoSuccess' /\ RepliesAsAsked'
    BY DEF LateIsNoSuccess, RepliesAsAsked
  <2>13. QED
    BY <1>1, <2>8, <2>9, <2>10, <2>11, <2>12 DEF Inv, Promise
<1>4. QED
  BY <1>2, <1>3

\* A stream that is refused with an end-of-stream envelope.
LEMMA WriteConnectStreamErrorStep ==
  ASSUME Inv, WriteConnectStreamError, UNCHANGED rest
  PROVE  Inv'
<1> DEFINE f == End(FALSE, {})
<1>1. /\ wire = <<>> /\ ~committed /\ codec = "none" /\ ~late /\ ~silent /\ Typed /\ trailer = {}
  BY DEF WriteConnectStreamError, Inv, Waiting, Quiet
<1>2. /\ pc' = "done" /\ UNCHANGED <<limit, tried, up, codec, content, encodedSize, failure, late, silent>>
      /\ UNCHANGED <<header, trailer, committed>>
      /\ wire' = IF up THEN Append(wire, f) ELSE wire
  BY DEF WriteConnectStreamError, Received, rest, unaryVars, stream
<1>3. wire = Sent(0)
  BY <1>1, SentGrows
<1>4. ~f.ok /\ f.kind = "end" /\ ~f.replaced /\ f.trailer = {}
  BY DEF End
<1> HIDE DEF f
<1>5. Ends(f)
  BY <1>1, <1>4, NothingEncoded DEF Ends
<1>6. QED
  BY <1>1, <1>2, <1>3, <1>4, <1>5, EndKeeps

\* The end-of-stream envelope of a handler that has returned.
LEMMA FinishStep ==
  ASSUME Inv, Finish, UNCHANGED rest
  PROVE  Inv'
<1>1. /\ pc = "returned" /\ codec = "none" /\ ~late /\ ~silent /\ Typed
      /\ Len(wire) \in Nat /\ wire = Sent(Len(wire))
      /\ result = "ok" /\ up => tried = Len(wire)
      /\ committed => wireHeader = Encoded(header)
  BY DEF Finish, Inv, Waiting, Flowing, Streaming
<1>2. /\ pc' = "done" /\ UNCHANGED <<limit, tried, up, codec, content, encodedSize, failure, late, silent>>
      /\ UNCHANGED <<header, trailer>>
      /\ result' = "ok" => result = "ok"
      /\ committed' => wireHeader' = Encoded(header)
  BY <1>1 DEF Finish, Commit, rest, unaryVars, stream
<1>3. PICK f : /\ Ends(f) /\ (f.ok => result' = "ok")
               /\ wire' = IF up THEN Append(wire, f) ELSE wire
  <2>1. CASE wire' = Received(End(result' = "ok", Encoded(trailer)))
    <3> DEFINE f == End(result' = "ok", Encoded(trailer))
    <3>1. f.kind = "end" /\ ~f.replaced /\ f.trailer = Encoded(trailer) /\ (f.ok => result' = "ok")
      BY DEF End
    <3> HIDE DEF f
    <3>2. Ends(f) /\ wire' = IF up THEN Append(wire, f) ELSE wire
      BY <2>1, <3>1 DEF Ends, Received, f
    <3>3. QED
      BY <3>1, <3>2
  <2>2. CASE wire' = Received(Replacement)
    <3>1. Ends(Replacement) /\ ~Replacement.ok
      BY DEF Ends, Replacement
    <3>2. QED
      BY <2>2, <3>1 DEF Received
  <2>3. QED
    BY <2>1, <2>2 DEF Finish
<1>4. QED
  <2> DEFINE n == Len(wire)
  <2>1. /\ n \in Nat
        /\ wire' = IF up THEN Append(Sent(n), f) ELSE Sent(n)
        /\ f.ok /\ up => tried = n
    BY <1>1, <1>2, <1>3
  <2> HIDE DEF n
  <2>2. QED
    BY <1>1, <1>2, <1>3, <2>1, EndKeeps

\* While the stream goes on only Flowing is at stake.
LEMMA StreamingKeeps ==
  ASSUME Inv, pc \in {"request"} \cup Streaming, pc' \in Streaming, tried' \in Nat, UNCHANGED rest,
         Flowing',
         (header' = header /\ trailer' = trailer) \/ (Pairs(header') /\ Pairs(trailer'))
  PROVE  Inv'
<1>1. /\ pc # "done" /\ pc' # "done" /\ codec = "none" /\ ~late /\ ~silent /\ Typed
      /\ UNCHANGED <<limit, codec, content, encodedSize, failure, late, silent>>
  BY DEF Inv, Waiting, Quiet, Streaming, rest, unaryVars
<1>2. Typed'
  BY <1>1 DEF Typed, Pairs
<1>3. Waiting' /\ Collecting'
  BY <1>1 DEF Waiting, Collecting, Quiet, Streaming
<1>4. QED
  BY <1>1, <1>2, <1>3 DEF Inv

\* A stream begins with nothing sent.
LEMMA AcceptStep ==
  ASSUME Inv, Accept, UNCHANGED rest
  PROVE  Inv'
<1>1. pc = "request" /\ wire = <<>> /\ ~committed /\ tried = 0
  BY DEF Accept, Inv, Waiting, Flowing, Quiet
<1>2. pc' = "handling" /\ UNCHANGED <<tried, wire, committed, header, trailer>>
  BY DEF Accept, stream
<1>3. wire' = Sent(Len(wire')) /\ Len(wire') = 0
  BY <1>1, <1>2, SentGrows
<1>4. Flowing'
  BY <1>1, <1>2, <1>3 DEF Flowing
<1>5. QED
  BY <1>1, <1>2, <1>4, StreamingKeeps DEF Streaming

\* Headers are accepted only as long as they can still be sent.
LEMMA StreamMetadataStep ==
  ASSUME Inv, UNCHANGED rest,
         \/ \E p \in HeaderPair : SetHeader(p)
         \/ \E md \in SUBSET HeaderPair : SendHeader(md)
         \/ \E p \in TrailerPair : SetTrailer(p)
  PROVE  Inv'
<1>1. /\ pc = "handling" /\ pc' = "handling" /\ tried \in Nat
      /\ UNCHANGED <<tried, wire, up, ended, sendErr>>
  BY DEF SetHeader, SendHeader, SetTrailer, Inv, Typed
<1>2. Flowing
  BY <1>1 DEF Inv
<1>3. committed => headerSent /\ wireHeader = Encoded(header)
  BY <1>1, <1>2 DEF Flowing, Streaming
<1>4. committed' => headerSent' /\ wireHeader' = Encoded(header')
  <2>1. CASE \E p \in HeaderPair : SetHeader(p)
    BY <1>3, <2>1 DEF SetHeader
  <2>2. CASE \E md \in SUBSET HeaderPair : SendHeader(md)
    BY <1>3, <2>2 DEF SendHeader, Commit
  <2>3. CASE \E p \in TrailerPair : SetTrailer(p)
    BY <1>3, <2>3 DEF SetTrailer
  <2>4. QED
    BY <2>1, <2>2, <2>3
<1>5. Flowing'
  BY <1>1, <1>2, <1>4 DEF Flowing, Streaming
<1>6. Pairs(header') /\ Pairs(trailer')
  BY <1>1, StreamAssumption DEF SetHeader, SendHeader, SetTrailer, Inv, Typed, Pairs
<1>7. QED
  BY <1>1, <1>5, <1>6, StreamingKeeps DEF Streaming

\* SendMsg counts a message before it is sent.
LEMMA SendMsgStep ==
  ASSUME Inv, SendMsg, UNCHANGED rest
  PROVE  Inv'
<1>1. /\ pc = "handling" /\ pc' \in {"handling", "sending"} /\ tried' = tried + 1 /\ tried \in Nat
      /\ UNCHANGED <<wire, up, ended, sendErr, committed, wireHeader, header, trailer>>
      /\ pc' = "handling" => (ended \/ sendErr) /\ headerSent' = headerSent
      /\ pc' = "sending" => ~ended /\ ~sendErr /\ headerSent'
  BY DEF SendMsg, Inv, Typed
<1>2. Flowing
  BY <1>1 DEF Inv
<1>3. Flowing'
  BY <1>1, <1>2 DEF Flowing, Streaming
<1>4. QED
  BY <1>1, <1>3, StreamingKeeps DEF Streaming

\* A message is sent in its place, or its loss is remembered.
LEMMA SendStep ==
  ASSUME Inv, SendRefused \/ Send, UNCHANGED rest
  PROVE  Inv'
<1>1. /\ pc = "sending" /\ pc' = "handling" /\ tried' = tried /\ tried \in Nat
      /\ UNCHANGED <<up, ended, header, trailer, headerSent>>
  BY DEF SendRefused, Send, Inv, Typed
<1>2. /\ wire = Sent(Len(wire)) /\ Len(wire) \in Nat
      /\ headerSent /\ (up => tried = Len(wire) + 1)
      /\ committed => wireHeader = Encoded(header)
  BY <1>1 DEF Inv, Flowing, Streaming
<1>3. committed' => headerSent' /\ wireHeader' = Encoded(header')
  BY <1>1, <1>2 DEF SendRefused, Send, Commit
<1>4. CASE SendRefused \/ ~up
  <2>1. wire' = wire /\ (sendErr' \/ ~up')
    BY <1>1, <1>4 DEF SendRefused, Send, Received
  <2>2. Flowing'
    BY <1>1, <1>2, <1>3, <2>1 DEF Flowing, Streaming
  <2>3. QED
    BY <1>1, <2>2, StreamingKeeps DEF Streaming
<1>5. CASE Send /\ up
  <2> DEFINE n == Len(wire)
  <2>1. n \in Nat /\ wire = Sent(n) /\ tried = n + 1
    BY <1>2, <1>5
  <2>2. wire' = Append(wire, Message(tried))
    BY <1>5 DEF Send, Received
  <2> HIDE DEF n
  <2>3. wire' = Append(Sent(n), Message(n + 1))
    BY <2>1, <2>2
  <2>4. wire' = Sent(n + 1)
    BY <2>1, <2>3, SentGrows
  <2>5. Len(wire') = n + 1
    <3>1. n + 1 \in Nat
      BY <2>1
    <3>2. Len(Sent(n + 1)) = n + 1
      BY <3>1, SentGrows, Zenon
    <3>3. QED
      BY <2>4, <3>2, Zenon
  <2>6. wire' = Sent(Len(wire')) /\ Len(wire') \in Nat /\ tried' = Len(wire')
    BY <1>1, <2>1, <2>4, <2>5
  <2>7. Flowing'
    BY <1>1, <1>3, <2>6 DEF Flowing, Streaming
  <2>8. QED
    BY <1>1, <2>7, StreamingKeeps DEF Streaming
<1>6. QED
  BY <1>4, <1>5

\* A handler that lost a message, or whose context ended, has not succeeded.
LEMMA ReturnStep ==
  ASSUME Inv, NEW r \in {"ok", "error", "panic"}, Return(r), UNCHANGED rest
  PROVE  Inv'
<1>1. /\ pc = "handling" /\ pc' = "returned" /\ tried \in Nat
      /\ UNCHANGED <<tried, wire, up, committed, wireHeader, header, trailer, headerSent>>
      /\ result' = "ok" => ~sendErr /\ ~ended
  BY DEF Return, stream, Inv, Typed
<1>2. Flowing
  BY <1>1 DEF Inv
<1>3. Flowing'
  BY <1>1, <1>2 DEF Flowing, Streaming
<1>4. QED
  BY <1>1, <1>3, StreamingKeeps DEF Streaming

\* All steps of a stream.
LEMMA StreamStepKeeps ==
  ASSUME Inv, StreamStep
  PROVE  Inv'
<1>1. UNCHANGED rest
  BY DEF StreamStep, rest
<1>2. QED
  BY <1>1, EnvironmentStep, UnsupportedMediaTypeStep, WriteConnectStreamErrorStep, AcceptStep,
     StreamMetadataStep, SendMsgStep, SendStep, ReturnStep, FinishStep DEF StreamStep, StreamNext

(***************************************************************************)
(* All steps.                                                              *)
(***************************************************************************)
\* All steps of a unary or MCP handler.
LEMMA ToolsStep ==
  ASSUME Inv, Tools
  PROVE  Inv'
<1> Pairs(header) /\ Pairs(trailer)
  BY DEF Inv, Typed
<1>1. CASE \E p \in HeaderPair : ToolSetsHeader(p)
  <2>1. PICK p \in HeaderPair : InTool(header \cup {p}, trailer, FALSE)
    BY <1>1 DEF ToolSetsHeader
  <2>2. Pairs(header \cup {p})
    BY StreamAssumption DEF Pairs
  <2>3. QED
    BY <2>1, <2>2, ToolMetadataStep
<1>2. CASE \E md \in SUBSET HeaderPair : ToolSendsHeader(md)
  <2>1. PICK md \in SUBSET HeaderPair : InTool(header \cup md, trailer, TRUE)
    BY <1>2 DEF ToolSendsHeader
  <2>2. Pairs(header \cup md)
    BY StreamAssumption DEF Pairs
  <2>3. QED
    BY <2>1, <2>2, ToolMetadataStep
<1>3. CASE \E p \in TrailerPair : ToolSetsTrailer(p)
  <2>1. PICK p \in TrailerPair : InTool(header, trailer \cup {p}, headerSent)
    BY <1>3 DEF ToolSetsTrailer
  <2>2. Pairs(trailer \cup {p})
    BY StreamAssumption DEF Pairs
  <2>3. QED
    BY <2>1, <2>2, ToolMetadataStep
<1>4. QED
  BY <1>1, <1>2, <1>3, ToolSendsStep, ToolReturnsStep DEF Tools

\* A step that changes nothing.
LEMMA StutterStep ==
  ASSUME Inv, UNCHANGED vars
  PROVE  Inv'
<1>1. /\ UNCHANGED <<pc, ended, up, header, trailer, headerSent, sendErr, committed, tried>>
      /\ UNCHANGED <<result, wireHeader, wire, limit, codec, content, encodedSize, failure, late, silent>>
  BY DEF vars, callVars, stream, unaryVars
<1>2. Typed' /\ (Waiting' <=> Waiting) /\ (Flowing' <=> Flowing) /\ (Collecting' <=> Collecting)
  BY <1>1 DEF Inv, Typed, Waiting, Flowing, Collecting
<1>3. Promise' <=> Promise
  <2>1. (OneAnswer' <=> OneAnswer) /\ (SuccessIsComplete' <=> SuccessIsComplete)
    BY <1>1 DEF OneAnswer, SuccessIsComplete, Messages
  <2>2. (MetadataDelivered' <=> MetadataDelivered) /\ (WithinLimit' <=> WithinLimit)
    BY <1>1 DEF MetadataDelivered, WithinLimit
  <2>3. CodeSurvives' <=> CodeSurvives
    BY <1>1 DEF CodeSurvives, ClientCode, FailureCode
  <2>4. (LateIsNoSuccess' <=> LateIsNoSuccess) /\ (RepliesAsAsked' <=> RepliesAsAsked)
    BY <1>1 DEF LateIsNoSuccess, RepliesAsAsked
  <2>5. QED
    BY <2>1, <2>2, <2>3, <2>4 DEF Promise
<1>4. QED
  BY <1>1, <1>2, <1>3 DEF Inv

\* The initial states satisfy the invariant.
LEMMA InitInv ==
  ASSUME Init
  PROVE  Inv
<1>1. limit \in Nat \ {0} /\ Len(<<>>) = 0 /\ <<>> \in Seq(Nat)
  BY EndpointAssumption DEF Init
<1>2. Typed /\ Waiting
  BY <1>1 DEF Init, StreamInit, Typed, Waiting, Quiet, Streaming, Pairs
<1>3. Flowing /\ Collecting
  BY <1>1 DEF Init, StreamInit, Flowing, Collecting, Streaming
<1>4. QED
  BY <1>2, <1>3 DEF Inv, Init

\* Every step preserves the invariant.
LEMMA NextInv ==
  ASSUME Inv, [Next]_vars
  PROVE  Inv'
BY RouteStep, HandleHTTPStep, HandleMCPHTTPStep, BodyStep, DecodeStep, AnswerMCPStep, ToolsCallStep,
   ToolsStep, RespondStep, RespondMCPStep, StreamStepKeeps, StutterStep DEF Next

\* The properties hold at every stage, not only at the end.
LEMMA InvPromises ==
  ASSUME Inv
  PROVE  Promise
<1>1. CASE pc = "done"
  BY <1>1 DEF Inv
<1>2. CASE pc \in Quiet
  <2>1. pc # "done" /\ wire = <<>> /\ ~committed /\ DOMAIN wire = {} /\ Messages = {}
    BY <1>2 DEF Inv, Waiting, Quiet, Messages
  <2>2. OneAnswer /\ SuccessIsComplete /\ MetadataDelivered
    BY <2>1 DEF OneAnswer, SuccessIsComplete, MetadataDelivered
  <2>3. CodeSurvives /\ LateIsNoSuccess /\ RepliesAsAsked
    BY <2>1, Zenon DEF CodeSurvives, LateIsNoSuccess, RepliesAsAsked
  <2>4. WithinLimit
    BY <2>1 DEF WithinLimit, Inv, Collecting
  <2>5. QED
    BY <2>2, <2>3, <2>4 DEF Promise
<1>3. CASE pc \in Streaming
  <2> DEFINE n == Len(wire)
  <2>1. /\ pc # "done" /\ n \in Nat /\ wire = Sent(n) /\ codec = "none" /\ ~late /\ ~silent
        /\ committed => wireHeader = Encoded(header)
    BY <1>3 DEF Inv, Waiting, Flowing, Streaming
  <2> HIDE DEF n
  <2>2. DOMAIN wire = 1..n /\ \A i \in 1..n : wire[i] = Message(i)
    BY <2>1 DEF Sent
  <2>3. \A i \in 1..n : wire[i].kind = "message" /\ wire[i].n = i
    <3>1. \A i \in 1..n : Message(i).kind = "message" /\ Message(i).n = i
      BY DEF Message
    <3>2. QED
      BY <2>2, <3>1, Zenon
  <2>4. OneAnswer /\ SuccessIsComplete
    BY <2>1, <2>2, <2>3 DEF OneAnswer, SuccessIsComplete, Messages, IsEnd
  <2>5. MetadataDelivered /\ WithinLimit
    <3>1. Decoded(Encoded(header)) = Sendable(header)
      BY DecodesEncoded DEF Inv, Typed
    <3>2. QED
      BY <2>1, <2>2, <2>3, <3>1 DEF MetadataDelivered, WithinLimit, IsEnd
  <2>6. CodeSurvives /\ LateIsNoSuccess /\ RepliesAsAsked
    BY <2>1 DEF CodeSurvives, LateIsNoSuccess, RepliesAsAsked
  <2>7. QED
    BY <2>4, <2>5, <2>6 DEF Promise
<1>4. QED
  BY <1>1, <1>2, <1>3 DEF Inv, Typed

(***************************************************************************)
(* The theorems.                                                           *)
(***************************************************************************)
\* The inductive invariant: Promise is what a client has been promised once the call is
\* done, the rest is what handleHTTP, handleHTTPStream and handleMCPHTTP rely on before.
THEOREM EndpointInvariant == Spec => []Inv
BY InitInv, NextInv, PTL DEF Spec, HandlerSpec

\* Whatever the handler, the interceptors and the client do, a call gets one response, or
\* message envelopes in order and without a gap and one end-of-stream envelope.
THEOREM EveryCallIsAnsweredOnce == Spec => []OneAnswer
<1>1. Inv => OneAnswer
  BY InvPromises DEF Promise
<1>2. QED
  BY <1>1, EndpointInvariant, PTL

\* For any number of messages: neither handleHTTPStream nor toolsCallStream reports
\* success when a message that the handler sent is missing, ignored errors included.
THEOREM SuccessTellsTheTruth == Spec => []SuccessIsComplete
<1>1. Inv => SuccessIsComplete
  BY InvPromises DEF Promise
<1>2. QED
  BY <1>1, EndpointInvariant, PTL

\* For any metadata: what SetHeader, SendHeader and SetTrailer accepted reaches a client
\* that decodes it, whether the call succeeds or fails, except pairs with a reserved or
\* invalid name or a value that is not printable, and except the trailers of a stream
\* whose end-of-stream envelope is too large, which is then an error.
THEOREM MetadataIsDelivered == Spec => []MetadataDelivered
<1>1. Inv => MetadataDelivered
  BY InvPromises DEF Promise
<1>2. QED
  BY <1>1, EndpointInvariant, PTL

\* For any limit and any sizes: no response body is larger than the limit, and the count
\* that toolsCallStream keeps is the length of the response that writeMCPJSON measures.
THEOREM ResponsesFit == Spec => []WithinLimit
<1>1. Inv => WithinLimit
  BY InvPromises DEF Promise
<1>2. QED
  BY <1>1, EndpointInvariant, PTL

\* For any limit and sizes: the code of the error that a unary handler returned is what a
\* client of this repository reports, through statusFromError, grpcCodeName, the HTTP
\* status and httpClientError; an error above the limit is reported as
\* resource_exhausted, or as unavailable if that does not fit either.
THEOREM CodesSurvive == Spec => []CodeSurvives
<1>1. Inv => CodeSurvives
  BY InvPromises DEF Promise
<1>2. QED
  BY <1>1, EndpointInvariant, PTL

\* A handler that returns after its context has ended is not reported as a success by any
\* of handleHTTP, handleHTTPProto, toolsCall and toolsCallStream.
THEOREM LateCallsFail == Spec => []LateIsNoSuccess
<1>1. Inv => LateIsNoSuccess
  BY InvPromises DEF Promise
<1>2. QED
  BY <1>1, EndpointInvariant, PTL

\* For every JSON-RPC message: handleMCPHTTP sends a JSON-RPC body only to a message that
\* wants one, and does not merely accept one that does.
THEOREM McpRepliesAsAsked == Spec => []RepliesAsAsked
<1>1. Inv => RepliesAsAsked
  BY InvPromises DEF Promise
<1>2. QED
  BY <1>1, EndpointInvariant, PTL
=================================================================================
