------------------------------ MODULE HttpClient ------------------------------
(***************************************************************************)
(* One call of a method that ConnectHTTP proxies to a remote HTTP server:  *)
(* httpDynamicHandler.callProto in go/http_client.go.  The server may not  *)
(* answer, answer late, answer with any status, cut its answer short or    *)
(* ask for a delay, and the caller's context may end at any point.  Time   *)
(* is counted in units of baseHTTPClientRetryDelay.                        *)
(***************************************************************************)
EXTENDS Integers

CONSTANTS
    MaxRetries,         \* defaultHTTPClientMaxRetries
    MaxDelay,           \* maxHTTPClientRetryDelay, in units
    PerSecond,          \* units in a second
    Width,              \* bits of a time.Duration that counts in units
    RetryAfter,         \* the values of Retry-After that the server may send, in seconds
    NoRetryAfter        \* no such header, or one that does not parse

ASSUME ClientAssumption ==
    /\ MaxRetries \in Nat
    /\ MaxDelay \in Nat \ {0} /\ PerSecond \in Nat \ {0} /\ Width \in Nat \ {0}
    /\ RetryAfter \subseteq Int /\ NoRetryAfter \notin RetryAfter

Status == {200, 404, 429, 500, 502, 503, 504}
Body == {"whole", "empty", "undecodable", "large", "cut", "timed_out"}

\* An error of client.Do: of the transport, or Client.Timeout.
Failure == {"transport_error", "timeout"}
Answer == [kind : {"response"}, status : Status, body : Body,
           retryAfter : RetryAfter \cup {NoRetryAfter}]
          \cup [kind : Failure, status : {0}, body : {"empty"}, retryAfter : {NoRetryAfter}]
NoAnswer == [kind |-> "none", status |-> 0, body |-> "empty", retryAfter |-> NoRetryAfter]

VARIABLES
    phase, method, attempt, answer, delay, result,
    ended,      \* the caller's context has ended
    sent        \* requests that went out

clientVars == <<phase, method, attempt, answer, delay, result, ended, sent>>

ClientInit ==
    /\ phase = "start"
    /\ method \in {"GET", "HEAD", "POST", "PUT", "PATCH", "DELETE"}
    /\ attempt = 0
    /\ answer = NoAnswer
    /\ delay = 0
    /\ result = "none"
    /\ ended = FALSE
    /\ sent = 0

ContextEnds ==
    /\ ~ended /\ phase # "done"
    /\ ended' = TRUE
    /\ UNCHANGED <<phase, method, attempt, answer, delay, result, sent>>

Return(r) ==
    /\ phase' = "done"
    /\ result' = r
    /\ UNCHANGED <<attempt, delay>>

(***************************************************************************)
(* Retries.                                                                *)
(***************************************************************************)
IsSafeRetryMethod == method \in {"GET", "HEAD"}
ShouldRetryHTTPStatus(status) == status \in {429, 500, 502, 503, 504}

\* Mutant: a request that got no answer is sent again whatever its method.
RetriesUnanswered(status) ==
    /\ attempt < MaxRetries
    /\ status = 0 \/ (IsSafeRetryMethod /\ ShouldRetryHTTPStatus(status))

\* Mutant: the last retry is not made.
RetriesSeldom(status) ==
    /\ attempt + 1 < MaxRetries
    /\ IsSafeRetryMethod
    /\ status = 0 \/ ShouldRetryHTTPStatus(status)

ShouldRetry(status) ==
    /\ attempt < MaxRetries
    /\ IsSafeRetryMethod
    /\ status = 0 \/ ShouldRetryHTTPStatus(status)

\* Powers of two.
TwoTo[n \in Nat] == IF n = 0 THEN 1 ELSE 2 * TwoTo[n - 1]

\* Two's complement multiplication of time.Duration.
Wrapped(n) ==
    LET m == n % TwoTo[Width] IN IF m >= TwoTo[Width - 1] THEN m - TwoTo[Width] ELSE m

ParseRetryAfterDelay(seconds) == IF seconds <= 0 THEN 0 ELSE Wrapped(seconds * PerSecond)

\* The loop of httpRetryDelay after n rounds.
Doubled[n \in Nat] ==
    IF n = 0 THEN 1
    ELSE IF Doubled[n - 1] = MaxDelay \/ 2 * Doubled[n - 1] >= MaxDelay THEN MaxDelay
    ELSE 2 * Doubled[n - 1]

\* Mutant: the limit is looked at before the delay is doubled.
DoubledFirst(n, asked) ==
    IF asked # NoRetryAfter THEN ParseRetryAfterDelay(asked)
    ELSE IF Doubled[n] = MaxDelay THEN MaxDelay ELSE 2 * Doubled[n]

HttpRetryDelay(n, asked) ==
    IF asked # NoRetryAfter THEN ParseRetryAfterDelay(asked) ELSE Doubled[n]

\* sleepWithContext begins, and the loop goes on after it.
Retry ==
    /\ phase' = "waiting"
    /\ delay' = HttpRetryDelay(attempt, answer.retryAfter)
    /\ UNCHANGED <<attempt, result>>

\* Mutant: a zero delay is waited for like the others.
WakeByTimer ==
    /\ phase = "waiting"
    /\ delay > 0
    /\ phase' = "attempt"
    /\ attempt' = attempt + 1
    /\ UNCHANGED <<method, answer, delay, result, ended, sent>>

\* The timer fires first, or there is nothing to wait for and the context is checked.
Wake ==
    /\ phase = "waiting"
    /\ delay > 0 \/ ~ended
    /\ phase' = "attempt"
    /\ attempt' = attempt + 1
    /\ UNCHANGED <<method, answer, delay, result, ended, sent>>

WaitCanceled ==
    /\ phase = "waiting"
    /\ ended
    /\ Return("context")
    /\ UNCHANGED <<method, answer, ended, sent>>

(***************************************************************************)
(* callProto.                                                              *)
(***************************************************************************)
\* The binding builds the request, or refuses it.
Build ==
    /\ phase = "start"
    /\ \/ phase' = "attempt" /\ UNCHANGED <<attempt, delay, result>>
       \/ Return("invalid_argument")
    /\ UNCHANGED <<method, answer, ended, sent>>

\* The top of the loop, up to client.Do; the header provider may fail.
Attempt ==
    /\ phase = "attempt"
    /\ IF ended THEN Return("context")
       ELSE \/ Return("unauthenticated")
            \/ phase' = "sending" /\ UNCHANGED <<attempt, delay, result>>
    /\ UNCHANGED <<method, answer, ended, sent>>

\* client.Do sends nothing when the context has ended.
Do ==
    /\ phase = "sending"
    /\ IF ended THEN Return("context") /\ UNCHANGED sent
       ELSE phase' = "sent" /\ sent' = sent + 1 /\ UNCHANGED <<attempt, delay, result>>
    /\ UNCHANGED <<method, answer, ended>>

\* client.Do and the reading of the body end: Client.Timeout bounds both.
Answered(a) ==
    /\ phase = "sent"
    /\ answer' = a
    /\ phase' = "answered"
    /\ UNCHANGED <<method, attempt, delay, result, ended, sent>>

\* Errors of the transport, then of the body, then of the status, then of decoding.
Handle ==
    /\ phase = "answered"
    /\ CASE ended \/ answer.kind = "timeout" -> Return("context")
         [] ~ended /\ answer.kind = "transport_error" ->
               IF ShouldRetry(0) THEN Retry ELSE Return("unavailable")
         [] ~ended /\ answer.kind = "response" ->
               CASE answer.body = "large" -> Return("resource_exhausted")
                 [] answer.body = "timed_out" -> Return("context")
                 [] answer.body = "cut" ->
                       IF ShouldRetry(answer.status) THEN Retry ELSE Return("unavailable")
                 [] answer.body \in {"whole", "empty", "undecodable"} ->
                       IF answer.status # 200
                       THEN IF ShouldRetry(answer.status) THEN Retry ELSE Return("status")
                       ELSE Return(IF answer.body = "undecodable" THEN "internal" ELSE "ok")
    /\ UNCHANGED <<method, answer, ended, sent>>

Step == Build \/ Attempt \/ Do \/ (\E a \in Answer : Answered(a)) \/ Handle \/ Wake \/ WaitCanceled

ClientNext == ContextEnds \/ Step

\* Nobody has to make a call; what is begun goes on, and client.Do ends.
ClientFairness == WF_clientVars(phase # "start" /\ Step)

ClientSpec == ClientInit /\ [][ClientNext]_clientVars /\ ClientFairness

(***************************************************************************)
(* Properties.                                                             *)
(***************************************************************************)
\* A request whose method is not safe is never sent twice, whatever happened to the
\* first one.
UnsafeSentOnce == ~IsSafeRetryMethod => sent <= 1

\* Retries are used up exactly: no request goes out more than MaxRetries + 1 times, and
\* a safe one that failed for a passing reason is not given up before that.
RetriesUsedUp ==
    /\ sent <= MaxRetries + 1
    /\ (/\ result \in {"unavailable", "status"}
        /\ IsSafeRetryMethod
        /\ answer.status = 0 \/ ShouldRetryHTTPStatus(answer.status))
       => sent = MaxRetries + 1

\* Between attempts the call waits as long as the server asked for, if a Duration can
\* hold it, and otherwise min(2^attempt, MaxDelay) units.
WaitsEnough ==
    phase = "waiting" =>
        IF answer.retryAfter # NoRetryAfter
        THEN answer.retryAfter * PerSecond < TwoTo[Width - 1] => delay >= answer.retryAfter * PerSecond
        ELSE delay = IF TwoTo[attempt] < MaxDelay THEN TwoTo[attempt] ELSE MaxDelay

\* A call that has begun returns: the client's timeout ends every attempt, and retries
\* are bounded.
CallReturns == phase # "start" ~> phase = "done"
================================================================================
