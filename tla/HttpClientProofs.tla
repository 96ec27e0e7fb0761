--------------------------- MODULE HttpClientProofs ---------------------------
(***************************************************************************)
(* Proofs about one call of the HTTP proxy client, for any number of       *)
(* retries and any delays.  How often a request goes out is not counted by *)
(* the code: Inv says how the number follows from the attempt and from     *)
(* where callProto is, and that only a safe request gets beyond attempt 0. *)
(***************************************************************************)
EXTENDS HttpClient, WellFoundedInduction, TLAPS

Before == phase \in {"start", "attempt", "sending"}
After == phase \in {"sent", "answered", "waiting"}

\* An answer that callProto may try again after.
Passing == answer.status = 0 \/ ShouldRetryHTTPStatus(answer.status)

Inv ==
    /\ attempt \in 0..MaxRetries /\ sent \in Nat
    /\ Before \/ After \/ phase = "done"
    /\ phase # "done" => result = "none"
    /\ Before => sent = attempt
    /\ After => sent = attempt + 1
    /\ phase = "done" => sent \in {attempt, attempt + 1}
    /\ phase = "waiting" => attempt < MaxRetries /\ IsSafeRetryMethod
    /\ attempt > 0 => IsSafeRetryMethod
    /\ phase = "answered" => answer \in Answer
    /\ result \in {"unavailable", "status"} /\ IsSafeRetryMethod /\ Passing =>
          sent = MaxRetries + 1

LEMMA InitInv == ClientInit => Inv
BY ClientAssumption DEF ClientInit, Inv, Before, After, IsSafeRetryMethod

LEMMA NoRetry ==
  ASSUME Inv, phase = "answered"
  PROVE  /\ ~ShouldRetry(answer.status) /\ IsSafeRetryMethod /\ Passing => sent = MaxRetries + 1
         /\ answer.kind \in Failure => answer.status = 0
BY ClientAssumption DEF Inv, After, ShouldRetry, Passing, Answer, Failure, IsSafeRetryMethod, ShouldRetryHTTPStatus

LEMMA HandleInv == Inv /\ Handle => Inv'
<1> SUFFICES ASSUME Inv, Handle
             PROVE  Inv'
  OBVIOUS
<1> USE ClientAssumption DEF Inv, Before, After, Passing, IsSafeRetryMethod
<1>1. /\ phase = "answered" /\ answer \in Answer /\ sent = attempt + 1
      /\ UNCHANGED <<method, answer, ended, sent>>
  BY DEF Handle
<1>2. CASE Retry /\ (ShouldRetry(0) \/ ShouldRetry(answer.status))
  BY <1>1, <1>2 DEF Retry, ShouldRetry
<1>3. CASE \E r : r \notin {"unavailable", "status"} /\ Return(r)
  BY <1>1, <1>3 DEF Return
<1>4. CASE /\ \E r \in {"unavailable", "status"} : Return(r)
           /\ ~ShouldRetry(answer.status)
  BY <1>1, <1>4, NoRetry DEF Return, ShouldRetryHTTPStatus
<1>5. \/ Retry /\ (ShouldRetry(0) \/ ShouldRetry(answer.status))
      \/ \E r : r \notin {"unavailable", "status"} /\ Return(r)
      \/ (\E r \in {"unavailable", "status"} : Return(r)) /\ ~ShouldRetry(answer.status)
  <2>1. CASE ended \/ answer.kind = "timeout"
    BY <2>1 DEF Handle
  <2>2. CASE ~ended /\ answer.kind = "transport_error"
    BY <1>1, <2>2, NoRetry DEF Handle, Failure
  <2>3. CASE ~ended /\ answer.kind = "response"
    <3>1. answer.body \in Body
      BY <1>1, <2>3 DEF Answer, Failure
    <3>2. CASE answer.body \in {"large", "timed_out"}
      BY <2>3, <3>2 DEF Handle
    <3>3. CASE answer.body = "cut"
      BY <2>3, <3>3 DEF Handle
    <3>4. CASE answer.body \in {"whole", "empty", "undecodable"}
      BY <2>3, <3>4 DEF Handle
    <3>5. QED
      BY <3>1, <3>2, <3>3, <3>4 DEF Body
  <2>4. QED
    BY <1>1, <2>1, <2>2, <2>3 DEF Answer, Failure
<1>6. QED
  BY <1>2, <1>3, <1>4, <1>5

LEMMA NextInv == Inv /\ [ClientNext]_clientVars => Inv'
<1> SUFFICES ASSUME Inv, [ClientNext]_clientVars
             PROVE  Inv'
  OBVIOUS
<1> USE ClientAssumption DEF Inv, Before, After, Passing, IsSafeRetryMethod, ShouldRetryHTTPStatus
<1>1. CASE ContextEnds
  BY <1>1 DEF ContextEnds
<1>2. CASE Build
  BY <1>2 DEF Build, Return
<1>3. CASE Attempt
  BY <1>3 DEF Attempt, Return
<1>4. CASE Do
  BY <1>4 DEF Do, Return
<1>5. ASSUME NEW a \in Answer, Answered(a)
      PROVE  Inv'
  BY <1>5 DEF Answered
<1>6. CASE Handle
  BY <1>6, HandleInv
<1>7. CASE Wake
  BY <1>7 DEF Wake
<1>8. CASE WaitCanceled
  BY <1>8 DEF WaitCanceled, Return
<1>9. CASE UNCHANGED clientVars
  BY <1>9 DEF clientVars
<1>10. QED
  BY <1>1, <1>2, <1>3, <1>4, <1>5, <1>6, <1>7, <1>8, <1>9 DEF ClientNext, Step

\* However often the server fails and in whatever way, a request whose method is not
\* safe leaves the client once.
THEOREM UnsafeIsSentOnce == ClientSpec => []UnsafeSentOnce
<1>1. Inv => UnsafeSentOnce
  BY DEF Inv, UnsafeSentOnce, Before, After
<1>2. QED
  BY <1>1, InitInv, NextInv, PTL DEF ClientSpec

\* For any MaxRetries: no request is made more than MaxRetries + 1 times, and one that
\* may be tried again is tried that often before the call fails.
THEOREM RetriesAreUsedUp == ClientSpec => []RetriesUsedUp
<1>1. Inv => RetriesUsedUp
  BY ClientAssumption DEF Inv, RetriesUsedUp, Before, After, Passing
<1>2. QED
  BY <1>1, InitInv, NextInv, PTL DEF ClientSpec

(***************************************************************************)
(* The delays.  What the loop of httpRetryDelay computes is a recursive    *)
(* function; that it exists, and what it is, is proved by induction from   *)
(* the fact that every set of natural numbers has a least member.          *)
(***************************************************************************)
\* Every set of natural numbers that is not empty has a least member.
LEMMA LeastNumber ==
  ASSUME NEW T \in SUBSET Nat, T # {}
  PROVE  \E n \in T : \A m \in T : n <= m
<1>1. PICK n \in T : \A m \in T : ~(<<m, n>> \in OpToRel(<, Nat))
  BY NatLessThanWellFounded, WFMin, Zenon
<1>2. \A m \in T : ~(m < n)
  BY <1>1, Zenon DEF OpToRel
<1>3. QED
  BY <1>2

\* Induction up to m, with a set in the place of the predicate.
LEMMA Induction ==
  ASSUME NEW m \in Nat, NEW S, 0 \in S, \A n \in 0..(m - 1) : n \in S => n + 1 \in S
  PROVE  0..m \subseteq S
<1> DEFINE Bad == {n \in 0..m : n \notin S}
<1>1. SUFFICES ASSUME Bad # {}
               PROVE  FALSE
  OBVIOUS
<1>2. Bad \in SUBSET Nat
  OBVIOUS
<1>3. PICK n \in Bad : \A k \in Bad : n <= k
  BY <1>1, <1>2, LeastNumber
<1>4. n \in 0..m /\ n # 0 /\ n \notin S
  OBVIOUS
<1>5. n - 1 \in 0..(m - 1) /\ n - 1 \in S
  BY <1>3, <1>4
<1>6. (n - 1) + 1 = n
  BY <1>4
<1>7. QED
  BY <1>4, <1>5, <1>6


\* The first m iterates of step, from a on.
Iterates(h, m, a, step, S) ==
    h \in [0..m -> S] /\ h[0] = a /\ \A i \in 1..m : h[i] = step[h[i - 1]]

\* They do not depend on how many there are.
LEMMA IteratesAgree ==
  ASSUME NEW m \in Nat, NEW k \in Nat, m <= k, NEW a, NEW step, NEW S, NEW h, NEW g,
         Iterates(h, m, a, step, S), Iterates(g, k, a, step, S)
  PROVE  h[m] = g[m]
<1> DEFINE Good == {i \in 0..m : h[i] = g[i]}
<1>1. 0 \in Good
  BY DEF Iterates
<1>2. ASSUME NEW i \in 0..(m - 1), i \in Good
      PROVE  i + 1 \in Good
  <2>1. i + 1 \in 1..m /\ i + 1 \in 1..k /\ (i + 1) - 1 = i
    OBVIOUS
  <2>2. h[i + 1] = step[h[i]]
    BY <2>1 DEF Iterates
  <2>3. g[i + 1] = step[g[i]]
    BY <2>1 DEF Iterates
  <2>4. QED
    BY <1>2, <2>1, <2>2, <2>3
<1>3. m \in Good
  <2> HIDE DEF Good
  <2>1. QED
    BY <1>1, <1>2, Induction
<1>4. QED
  BY <1>3

\* There are any number of them.
LEMMA IteratesExist ==
  ASSUME NEW m \in Nat, NEW S, NEW a \in S, NEW step \in [S -> S]
  PROVE  \E h : Iterates(h, m, a, step, S)
<1> DEFINE Good == {k \in 0..m : \E h : Iterates(h, k, a, step, S)}
<1>1. 0 \in Good
  <2>1. Iterates([i \in 0..0 |-> a], 0, a, step, S)
    BY DEF Iterates
  <2>2. QED
    BY <2>1
<1>2. ASSUME NEW k \in 0..(m - 1), k \in Good
      PROVE  k + 1 \in Good
  <2> DEFINE n == k + 1
  <2>1. k \in Nat /\ n \in 0..m /\ 0..n = 0..k \cup {n} /\ n \notin 0..k
    OBVIOUS
  <2>2. PICK h : Iterates(h, k, a, step, S)
    BY <1>2
  <2>3. h \in [0..k -> S] /\ k \in 0..k /\ step[h[k]] \in S
    BY <2>1, <2>2 DEF Iterates
  <2> DEFINE g == [i \in 0..n |-> IF i = n THEN step[h[k]] ELSE h[i]]
  <2>4. g \in [0..n -> S]
    <3>1. \A i \in 0..n : i # n => h[i] \in S
      BY <2>1, <2>3
    <3>2. QED
      BY <2>3, <3>1
  <2>5. g[0] = a
    BY <2>1, <2>2 DEF Iterates
  <2>6. ASSUME NEW i \in 1..n
        PROVE  g[i] = step[g[i - 1]]
    <3>1. CASE i = n
      BY <2>1, <3>1
    <3>2. CASE i # n
      <4>1. i \in 1..k /\ i - 1 \in 0..n /\ i - 1 # n
        BY <3>2
      <4>2. h[i] = step[h[i - 1]]
        BY <2>2, <4>1 DEF Iterates
      <4>3. QED
        BY <3>2, <4>1, <4>2
    <3>3. QED
      BY <3>1, <3>2
  <2> HIDE DEF g
  <2>7. Iterates(g, n, a, step, S)
    BY <2>4, <2>5, <2>6 DEF Iterates
  <2>8. QED
    BY <2>1, <2>7
<1>3. m \in Good
  <2> HIDE DEF Good
  <2>1. QED
    BY <1>1, <1>2, Induction
<1>4. QED
  BY <1>3

\* A function on the natural numbers can be defined by its first value and a step.
Definable(S, a, step) ==
    \E g \in [Nat -> S] : g[0] = a /\ \A n \in Nat \ {0} : g[n] = step[g[n - 1]]

LEMMA Recursion ==
  ASSUME NEW S, NEW a \in S, NEW step \in [S -> S]
  PROVE  Definable(S, a, step)
<1> DEFINE H(m) == CHOOSE h : Iterates(h, m, a, step, S)
           g == [n \in Nat |-> H(n)[n]]
<1>1. \A m \in Nat : Iterates(H(m), m, a, step, S)
  BY IteratesExist
<1> HIDE DEF H
<1>2. g \in [Nat -> S]
  <2>1. \A n \in Nat : H(n)[n] \in S
    BY <1>1 DEF Iterates
  <2>2. QED
    BY <2>1
<1>3. g[0] = a
  BY <1>1 DEF Iterates
<1>4. ASSUME NEW n \in Nat \ {0}
      PROVE  g[n] = step[g[n - 1]]
  <2>1. n \in 1..n /\ n - 1 \in Nat /\ n - 1 <= n
    OBVIOUS
  <2>2. H(n)[n] = step[H(n)[n - 1]]
    BY <1>1, <2>1 DEF Iterates
  <2>3. H(n)[n - 1] = H(n - 1)[n - 1]
    BY <1>1, <2>1, IteratesAgree
  <2>4. QED
    BY <2>1, <2>2, <2>3
<1>5. QED
  BY <1>2, <1>3, <1>4 DEF Definable

\* The recursion equations of TwoTo.
LEMMA TwoToGrows ==
  /\ TwoTo[0] = 1
  /\ \A n \in Nat : TwoTo[n] \in Nat \ {0} /\ TwoTo[n + 1] = 2 * TwoTo[n]
<1> DEFINE step == [x \in Nat |-> 2 * x]
           Is(f) == f = [n \in Nat |-> IF n = 0 THEN 1 ELSE 2 * f[n - 1]]
<1>1. 1 \in Nat /\ step \in [Nat -> Nat] /\ \A x \in Nat : step[x] = 2 * x
  OBVIOUS
<1>2. \E f : Is(f)
  <2> HIDE DEF step
  <2>1. PICK g \in [Nat -> Nat] : g[0] = 1 /\ \A n \in Nat \ {0} : g[n] = step[g[n - 1]]
    <3>1. Definable(Nat, 1, step)
      BY <1>1, Recursion
    <3>2. QED
      BY <3>1 DEF Definable
  <2>2. ASSUME NEW n \in Nat \ {0}
        PROVE  g[n] = 2 * g[n - 1]
    <3>1. n - 1 \in Nat /\ g[n - 1] \in Nat
      OBVIOUS
    <3>2. QED
      BY <1>1, <2>1, <3>1
  <2>3. Is(g)
    BY <2>1, <2>2
  <2>4. QED
    BY <2>3
<1>3. TwoTo = CHOOSE f : Is(f)
  BY DEF TwoTo
<1>4. Is(TwoTo)
  BY <1>2, <1>3, Zenon
<1>5. TwoTo[0] = 1 /\ \A n \in Nat : TwoTo[n + 1] = 2 * TwoTo[n]
  BY <1>4
<1>6. ASSUME NEW n \in Nat
      PROVE  TwoTo[n] \in Nat \ {0}
  <2> DEFINE Good == {k \in 0..n : TwoTo[k] \in Nat \ {0}}
  <2>1. 0 \in Good
    BY <1>5
  <2>2. ASSUME NEW k \in 0..(n - 1), k \in Good
        PROVE  k + 1 \in Good
    BY <1>5, <2>2
  <2>3. n \in Good
    <3> HIDE DEF Good
    <3>1. QED
      BY <2>1, <2>2, Induction
  <2>4. QED
    BY <2>3
<1>7. QED
  BY <1>5, <1>6

\* The loop of httpRetryDelay doubles the delay until it reaches MaxDelay, and stays there.
LEMMA DelayDoubles ==
  ASSUME NEW n \in Nat
  PROVE  Doubled[n] = IF TwoTo[n] < MaxDelay THEN TwoTo[n] ELSE MaxDelay
<1> DEFINE Next1(x) == IF x = MaxDelay \/ 2 * x >= MaxDelay THEN MaxDelay ELSE 2 * x
           step == [x \in Nat |-> Next1(x)]
           Is(f) == f = [k \in Nat |-> IF k = 0 THEN 1
                                       ELSE IF f[k - 1] = MaxDelay \/ 2 * f[k - 1] >= MaxDelay THEN MaxDelay
                                       ELSE 2 * f[k - 1]]
<1>1. 1 \in Nat /\ step \in [Nat -> Nat] /\ \A x \in Nat : step[x] = Next1(x)
  BY ClientAssumption
<1>2. \E f : Is(f)
  <2> HIDE DEF step
  <2>1. PICK g \in [Nat -> Nat] : g[0] = 1 /\ \A k \in Nat \ {0} : g[k] = step[g[k - 1]]
    <3>1. Definable(Nat, 1, step)
      BY <1>1, Recursion
    <3>2. QED
      BY <3>1 DEF Definable
  <2>2. ASSUME NEW k \in Nat \ {0}
        PROVE  g[k] = Next1(g[k - 1])
    <3>1. k - 1 \in Nat /\ g[k - 1] \in Nat
      OBVIOUS
    <3> HIDE DEF Next1
    <3>2. QED
      BY <1>1, <2>1, <3>1
  <2>3. Is(g)
    BY <2>1, <2>2
  <2>4. QED
    BY <2>3
<1>3. Doubled = CHOOSE f : Is(f)
  BY DEF Doubled
<1>4. Is(Doubled)
  BY <1>2, <1>3, Zenon
<1>5. Doubled[0] = 1 /\ \A k \in Nat : Doubled[k + 1] = Next1(Doubled[k])
  BY <1>4
<1> DEFINE Good == {k \in 0..n : Doubled[k] = IF TwoTo[k] < MaxDelay THEN TwoTo[k] ELSE MaxDelay}
<1>6. 0 \in Good
  BY <1>5, TwoToGrows, ClientAssumption
<1>7. ASSUME NEW k \in 0..(n - 1), k \in Good
      PROVE  k + 1 \in Good
  <2>1. k \in Nat /\ k + 1 \in 0..n
    OBVIOUS
  <2>2. TwoTo[k] \in Nat \ {0} /\ TwoTo[k + 1] = 2 * TwoTo[k]
    BY <2>1, TwoToGrows
  <2>3. Doubled[k + 1] = Next1(Doubled[k])
    BY <1>5, <2>1
  <2>4. Doubled[k] = IF TwoTo[k] < MaxDelay THEN TwoTo[k] ELSE MaxDelay
    BY <1>7
  <2>5. Doubled[k + 1] = IF TwoTo[k + 1] < MaxDelay THEN TwoTo[k + 1] ELSE MaxDelay
    BY <2>2, <2>3, <2>4, ClientAssumption
  <2>6. QED
    BY <2>1, <2>5
<1>8. n \in Good
  <2> HIDE DEF Good
  <2>1. QED
    BY <1>6, <1>7, Induction
<1>9. QED
  BY <1>8

\* A Duration holds every number below half its range.
LEMMA HeldByDuration ==
  ASSUME NEW n \in Nat, n < TwoTo[Width - 1]
  PROVE  Wrapped(n) = n
<1>1. Width - 1 \in Nat /\ (Width - 1) + 1 = Width
  BY ClientAssumption
<1>2. TwoTo[Width - 1] \in Nat \ {0} /\ TwoTo[Width] = 2 * TwoTo[Width - 1]
  BY <1>1, TwoToGrows
<1>3. n % TwoTo[Width] = n
  BY <1>2
<1>4. QED
  BY <1>2, <1>3 DEF Wrapped

\* What Retry-After asks for is waited for, if a Duration holds it.
LEMMA AskedIsEnough ==
  ASSUME NEW asked \in RetryAfter, asked * PerSecond < TwoTo[Width - 1]
  PROVE  ParseRetryAfterDelay(asked) >= asked * PerSecond
<1>1. asked \in Int /\ PerSecond \in Nat \ {0}
  BY ClientAssumption
<1>2. CASE asked <= 0
  <2>1. asked * PerSecond <= 0
    BY <1>1, <1>2
  <2>2. QED
    BY <1>2, <2>1 DEF ParseRetryAfterDelay
<1>3. CASE asked > 0
  <2>1. asked * PerSecond \in Nat
    BY <1>1, <1>3
  <2>2. QED
    BY <1>1, <1>3, <2>1, HeldByDuration DEF ParseRetryAfterDelay
<1>4. QED
  BY <1>1, <1>2, <1>3

\* What the delay was computed from is still there while the call waits.
DelayInv ==
    /\ phase \in {"answered", "waiting"} => answer \in Answer
    /\ phase = "waiting" => delay = HttpRetryDelay(attempt, answer.retryAfter)

\* Every step preserves it: only Handle begins to wait, and only Answered changes answer.
LEMMA DelayStep == DelayInv /\ [ClientNext]_clientVars => DelayInv'
<1> SUFFICES ASSUME DelayInv, [ClientNext]_clientVars
             PROVE  DelayInv'
  OBVIOUS
<1>1. CASE Handle
  <2>1. /\ phase = "answered" /\ answer' = answer
        /\ \/ Retry
           \/ \E r : Return(r)
    <3>1. phase = "answered" /\ answer' = answer /\ answer \in Answer
      BY <1>1 DEF Handle, DelayInv
    <3>2. CASE ended \/ answer.kind = "timeout"
      BY <1>1, <3>1, <3>2 DEF Handle
    <3>3. CASE ~ended /\ answer.kind = "transport_error"
      BY <1>1, <3>1, <3>3 DEF Handle
    <3>4. CASE ~ended /\ answer.kind = "response"
      <4>1. answer.body \in Body
        BY <3>1, <3>4 DEF Answer, Failure
      <4>2. QED
        BY <1>1, <3>1, <3>4, <4>1 DEF Handle, Body
    <3>5. QED
      BY <3>1, <3>2, <3>3, <3>4 DEF Answer, Failure
  <2>2. QED
    BY <2>1 DEF DelayInv, Retry, Return
<1>2. CASE Build \/ Attempt \/ Do \/ Wake \/ WaitCanceled
  <2>1. phase' \notin {"answered", "waiting"}
    BY <1>2 DEF Build, Attempt, Do, Wake, WaitCanceled, Return
  <2>2. QED
    BY <2>1 DEF DelayInv
<1>3. CASE \E a \in Answer : Answered(a)
  BY <1>3 DEF Answered, DelayInv
<1>4. CASE ContextEnds \/ UNCHANGED clientVars
  BY <1>4 DEF ContextEnds, clientVars, DelayInv
<1>5. QED
  BY <1>1, <1>2, <1>3, <1>4 DEF ClientNext, Step

\* For any delays and any width of time.Duration: callProto waits as long as Retry-After
\* asks for, if the Duration holds it, and otherwise for the power of two of the attempt,
\* up to MaxDelay.
THEOREM RetriesWaitEnough == ClientSpec => []WaitsEnough
<1>1. ClientInit => DelayInv
  BY DEF ClientInit, DelayInv
<1>2. Inv /\ DelayInv => WaitsEnough
  <2>1. SUFFICES ASSUME Inv, DelayInv, phase = "waiting"
                 PROVE  IF answer.retryAfter # NoRetryAfter
                        THEN answer.retryAfter * PerSecond < TwoTo[Width - 1] =>
                                delay >= answer.retryAfter * PerSecond
                        ELSE delay = IF TwoTo[attempt] < MaxDelay THEN TwoTo[attempt] ELSE MaxDelay
    BY DEF WaitsEnough
  <2>2. attempt \in Nat /\ delay = HttpRetryDelay(attempt, answer.retryAfter)
    BY <2>1, ClientAssumption DEF Inv, DelayInv
  <2>3. answer.retryAfter \in RetryAfter \cup {NoRetryAfter}
    BY <2>1 DEF DelayInv, Answer
  <2>4. CASE answer.retryAfter = NoRetryAfter
    BY <2>2, <2>4, DelayDoubles DEF HttpRetryDelay
  <2>5. CASE answer.retryAfter # NoRetryAfter
    BY <2>2, <2>3, <2>5, AskedIsEnough DEF HttpRetryDelay
  <2>6. QED
    BY <2>4, <2>5
<1>3. QED
  BY <1>1, <1>2, InitInv, NextInv, DelayStep, PTL DEF ClientSpec
===============================================================================
