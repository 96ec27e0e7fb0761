----------------------------- MODULE ConnectStream -----------------------------
(***************************************************************************)
(* One server-streaming call over Connect: handleHTTPStream in go/http.go  *)
(* and the projectedServerStream of go/stream.go that the generated        *)
(* handler and the stream interceptors see.  The handler sends headers,    *)
(* messages and trailers and returns, and may ignore the errors it gets;   *)
(* encoding and writing may fail, the context may end and the client may   *)
(* disconnect at any point.  HttpEndpoint adds the routing in front of it  *)
(* and the calls that are not streams.                                     *)
(***************************************************************************)
EXTENDS Naturals, Sequences, FiniteSets

CONSTANTS
    HeaderPair, TrailerPair,    \* metadata that the handler may set: pairs of a key and a value
    ReservedKey,                \* keys that belong to the transport or are no valid names
    BinaryKey,                  \* keys that end in "-bin"
    Printable,                  \* values of printable ASCII characters
    MaxMessages                 \* bound on the messages that the handler sends

ASSUME StreamAssumption ==
    /\ MaxMessages \in Nat
    /\ \A p \in HeaderPair \cup TrailerPair : p = <<p[1], p[2]>>

VARIABLES
    pc,             \* where the call is
    ended, up,      \* the request's context has ended; the client is connected
    header, trailer, headerSent, sendErr,   \* of the projectedServerStream
    committed,      \* of handleHTTPStream: the response headers are written
    tried,          \* messages that the handler passed to SendMsg
    result,         \* streamErr
    wireHeader,     \* the metadata in the response headers
    wire            \* the frames that the client receives

stream == <<header, trailer, headerSent, sendErr>>
callVars == <<pc, ended, up, stream, committed, tried, result, wireHeader, wire>>

Message(n) == [kind |-> "message", n |-> n]
End(ok, md) == [kind |-> "end", ok |-> ok, trailer |-> md, replaced |-> FALSE]

\* The error that replaces an end-of-stream envelope above maxConnectControlEnvelope.
Replacement == [kind |-> "end", ok |-> FALSE, trailer |-> {}, replaced |-> TRUE]

\* A response that is not a stream: its status, the gRPC code that it reports, the
\* size of its body and the metadata in its headers.
Response(status, code, size, leading, trailing) ==
    [kind |-> "response", status |-> status, code |-> code, size |-> size,
     header |-> leading, trailer |-> trailing]
UnsupportedMedia(size) == Response(415, "invalid_argument", size, {}, {})

StreamInit ==
    /\ ended = FALSE /\ up = TRUE
    /\ header = {} /\ trailer = {} /\ headerSent = FALSE /\ sendErr = FALSE
    /\ committed = FALSE
    /\ tried = 0
    /\ result = "none"
    /\ wireHeader = {}
    /\ wire = <<>>

\* A write reaches the client while it is connected.
Received(frame) == IF up THEN Append(wire, frame) ELSE wire

(***************************************************************************)
(* The environment.                                                        *)
(***************************************************************************)
ContextEnds ==
    /\ ~ended /\ pc # "done"
    /\ ended' = TRUE
    /\ UNCHANGED <<pc, up, stream, committed, tried, result, wireHeader, wire>>

Disconnect ==
    /\ up /\ pc # "done"
    /\ up' = FALSE
    /\ UNCHANGED <<pc, ended, stream, committed, tried, result, wireHeader, wire>>

(***************************************************************************)
(* The request: content type, envelope, decoding.                          *)
(***************************************************************************)
UnsupportedMediaType ==
    /\ pc = "request"
    /\ pc' = "done"
    /\ wire' = Received(UnsupportedMedia(0))
    /\ UNCHANGED <<ended, up, stream, committed, tried, result, wireHeader>>

\* What the body of the request is: an envelope with no flags set, within
\* maxStreamRequest, that arrives whole, with nothing after it, or not.
Envelope == [plain : BOOLEAN, fits : BOOLEAN, whole : BOOLEAN, alone : BOOLEAN]
readConnectEnvelope(e) == e.plain /\ e.fits /\ e.whole /\ e.alone

\* Reading fails, because of the body or because the client or a timeout ended it, or the
\* message does not decode.
WriteConnectStreamError ==
    /\ pc = "request"
    /\ \E e \in Envelope, decodes \in BOOLEAN : ~readConnectEnvelope(e) \/ ~decodes
    /\ pc' = "done"
    /\ result' = "error"
    /\ wire' = Received(End(FALSE, {}))
    /\ UNCHANGED <<ended, up, stream, committed, tried, wireHeader>>

Accept ==
    /\ pc = "request"
    /\ \E e \in Envelope : readConnectEnvelope(e)
    /\ pc' = "handling"
    /\ UNCHANGED <<ended, up, stream, committed, tried, result, wireHeader, wire>>

(***************************************************************************)
(* The handler and the interceptors.                                       *)
(***************************************************************************)
\* What of the handler's metadata is sent, and how: neither reserved keys nor invalid
\* names, values of binary keys in base64, of the others only printable ones.
Encoded(md) ==
    {IF p[1] \in BinaryKey THEN <<p[1], [base64 |-> p[2]]>> ELSE p :
        p \in {q \in md : q[1] \notin ReservedKey /\ (q[1] \in BinaryKey \/ q[2] \in Printable)}}

\* Writes the response headers with the metadata of the stream, once.
Commit(md) ==
    /\ committed' = TRUE
    /\ wireHeader' = IF committed THEN wireHeader ELSE Encoded(md)

\* Mutant: headers are accepted after they were sent.
SetHeaderLate(p) ==
    /\ pc = "handling"
    /\ header' = header \cup {p}
    /\ UNCHANGED <<pc, ended, up, trailer, headerSent, sendErr>>
    /\ UNCHANGED <<committed, tried, result, wireHeader, wire>>

\* Refused, with no effect, after the headers were sent.
SetHeader(p) ==
    /\ pc = "handling"
    /\ ~headerSent
    /\ header' = header \cup {p}
    /\ UNCHANGED <<pc, ended, up, trailer, headerSent, sendErr>>
    /\ UNCHANGED <<committed, tried, result, wireHeader, wire>>

SendHeader(md) ==
    /\ pc = "handling"
    /\ ~headerSent
    /\ headerSent' = TRUE
    /\ header' = header \cup md
    /\ Commit(header')
    /\ UNCHANGED <<pc, ended, up, trailer, sendErr, tried, result, wire>>

SetTrailer(p) ==
    /\ pc = "handling"
    /\ trailer' = trailer \cup {p}
    /\ UNCHANGED <<pc, ended, up, header, headerSent, sendErr>>
    /\ UNCHANGED <<committed, tried, result, wireHeader, wire>>

\* SendMsg up to the call of send.  It fails at once, and is forgotten, when the
\* context has ended; it fails again with the error of an earlier message.
SendMsg ==
    /\ pc = "handling"
    /\ tried < MaxMessages
    /\ tried' = tried + 1
    /\ IF ended \/ sendErr
       THEN UNCHANGED <<pc, headerSent>>
       ELSE pc' = "sending" /\ headerSent' = TRUE
    /\ UNCHANGED <<ended, up, header, trailer, sendErr, committed, result, wireHeader, wire>>

\* Mutant: the failure of a message is not remembered.
SendRefusedForgets ==
    /\ pc = "sending"
    /\ pc' = "handling"
    /\ UNCHANGED <<ended, up, stream, committed, tried, result, wireHeader, wire>>

\* The message does not encode or is larger than maxStreamResponse.
SendRefused ==
    /\ pc = "sending"
    /\ pc' = "handling"
    /\ sendErr' = TRUE
    /\ UNCHANGED <<ended, up, header, trailer, headerSent, committed, tried, result>>
    /\ UNCHANGED <<wireHeader, wire>>

\* The envelope is written; when the client is gone the write may or may not fail.
Send ==
    /\ pc = "sending"
    /\ pc' = "handling"
    /\ Commit(header)
    /\ wire' = Received(Message(tried))
    /\ sendErr' \in (IF up THEN {FALSE} ELSE BOOLEAN)
    /\ UNCHANGED <<ended, up, header, trailer, headerSent, tried, result>>

\* Mutant: what the handler returns is believed.
ReturnBelieved(r) ==
    /\ pc = "handling"
    /\ pc' = "returned"
    /\ result' = IF r = "ok" /\ ~ended THEN "ok" ELSE "error"
    /\ UNCHANGED <<ended, up, stream, committed, tried, wireHeader, wire>>

\* The interceptor chain returns, with whatever it makes of the handler's result, or
\* panics and is recovered; a failed message or an ended context overrides success.
Return(r) ==
    /\ pc = "handling"
    /\ pc' = "returned"
    /\ result' = IF r = "ok" /\ ~sendErr /\ ~ended THEN "ok" ELSE "error"
    /\ UNCHANGED <<ended, up, stream, committed, tried, wireHeader, wire>>

\* The end-of-stream envelope.  One with an error or trailers may be larger than
\* maxConnectControlEnvelope and is then replaced by an error without trailers.
Finish ==
    /\ pc = "returned"
    /\ pc' = "done"
    /\ result' = IF ended THEN "error" ELSE result
    /\ Commit(header)
    /\ \/ wire' = Received(End(result' = "ok", Encoded(trailer)))
       \/ /\ result' # "ok" \/ Encoded(trailer) # {}
          /\ wire' = Received(Replacement)
    /\ UNCHANGED <<ended, up, stream, tried>>

StreamNext ==
    \/ ContextEnds \/ Disconnect
    \/ UnsupportedMediaType \/ WriteConnectStreamError \/ Accept
    \/ \E p \in HeaderPair : SetHeader(p)
    \/ \E md \in SUBSET HeaderPair : SendHeader(md)
    \/ \E p \in TrailerPair : SetTrailer(p)
    \/ SendMsg \/ SendRefused \/ Send
    \/ \E r \in {"ok", "error", "panic"} : Return(r)
    \/ Finish

(***************************************************************************)
(* Properties.                                                             *)
(***************************************************************************)
IsEnd(frame) == frame.kind = "end"

\* The places of the message envelopes.
Messages == {i \in DOMAIN wire : wire[i].kind = "message"}

\* A call is answered once: by a response, or by message envelopes and after them one
\* end-of-stream envelope.  A client that stays connected always gets it, and gets the
\* messages in the order in which the handler sent them and without a gap, even if the
\* handler goes on after a message that failed.
OneAnswer ==
    /\ \A i \in DOMAIN wire : i < Len(wire) => wire[i].kind = "message"
    /\ \A i \in Messages : wire[i].n = i
    /\ pc = "done" /\ up => wire # <<>> /\ wire[Len(wire)].kind # "message"
================================================================================
