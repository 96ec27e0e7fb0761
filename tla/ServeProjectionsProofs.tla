------------------------ MODULE ServeProjectionsProofs ------------------------
(***************************************************************************)
(* Proofs about ServeProjections, for any projections and numbers of       *)
(* calls.  ServeProjections counts results and never looks at the          *)
(* projections, so the invariant relates the channel to them: it has one   *)
(* entry for each stopped projection (Counts), and nothing was canceled    *)
(* before the first entry unless the caller did it (Causes).               *)
(***************************************************************************)
EXTENDS ServeProjections, FiniteSetTheorems, TLAPS

Stage == {"created", "starting", "serving", "draining", "stopped"}

Typed ==
    /\ stage \in [Projection -> Stage]
    /\ outcome \in [Projection -> Cause \cup Consequence \cup {"none"}]
    /\ running \in [Projection -> Nat] /\ aborted \in [Projection -> Nat]
    /\ errc \in Seq(Cause \cup Consequence)
    /\ received \in Nat
    /\ main \in {"idle", "waiting", "draining", "returned"}

Stopped == {p \in Projection : stage[p] = "stopped"}

Counts ==
    /\ Len(errc) = Cardinality(Stopped)
    /\ received <= Len(errc)
    /\ main = "returned" => Stopped = Projection
    /\ main = "idle" => \A p \in Projection : stage[p] = "created"

Causes ==
    /\ canceled => errc # <<>>
    /\ main \in {"draining", "returned"} => errc # <<>>
    /\ \A p \in Projection : outcome[p] \in Consequence => parent \/ errc # <<>>
    /\ errc # <<>> /\ errc[1] \in Consequence => parent
    /\ returned \in Consequence => errc # <<>> /\ returned = errc[1]

Calls ==
    \A p \in Projection :
        /\ stage[p] \in {"created", "starting"} => running[p] = 0
        /\ running[p] > 0 /\ stage[p] = "stopped" => outcome[p] = "accept_error"
        /\ aborted[p] > 0 => stage[p] = "stopped" /\ outcome[p] = "deadline"
        /\ stage[p] = "draining" =>
              outcome[p] = "canceled" \/ (outcome[p] = "eof" /\ Kind[p] = "mcp")

Inv == Typed /\ Counts /\ Causes /\ Calls

LEMMA StoppedFinite == IsFiniteSet(Stopped) /\ Cardinality(Stopped) \in Nat /\ N \in Nat
<1>1. Stopped \in SUBSET Projection
  BY DEF Stopped
<1>2. IsFiniteSet(Stopped)
  BY <1>1, ProjectionAssumption, FS_Subset
<1>3. QED
  BY <1>2, ProjectionAssumption, FS_CardinalityType DEF N

LEMMA InitInv == ServeInit => Inv
<1> SUFFICES ASSUME ServeInit
             PROVE  Inv
  OBVIOUS
<1>1. Typed
  BY DEF ServeInit, Typed, Stage
<1>2. Stopped = {}
  BY DEF ServeInit, Stopped
<1>3. Counts
  BY <1>2, FS_EmptySet DEF ServeInit, Counts
<1>4. Causes
  BY Zenon DEF ServeInit, Causes, Consequence
<1>5. Calls
  BY DEF ServeInit, Calls
<1>6. QED
  BY <1>1, <1>3, <1>4, <1>5 DEF Inv

LEMMA Appended ==
  ASSUME NEW S, NEW s \in Seq(S), NEW e \in S
  PROVE  /\ Append(s, e) # <<>> /\ Len(Append(s, e)) = Len(s) + 1
         /\ s # <<>> => Append(s, e)[1] = s[1]
         /\ s = <<>> => Append(s, e)[1] = e
OBVIOUS

(***************************************************************************)
(* A projection stops: the channel and the set of stopped projections both *)
(* grow by one, and the first entry stays.                                 *)
(***************************************************************************)
LEMMA StopCounts ==
  ASSUME Inv, NEW p \in Projection, stage[p] \notin {"created", "stopped"},
         NEW o \in Cause \cup Consequence, Stop(p, o),
         UNCHANGED <<parent, canceled, main, received, returned>>
  PROVE  /\ stage' \in [Projection -> Stage]
         /\ outcome' \in [Projection -> Cause \cup Consequence \cup {"none"}]
         /\ errc' \in Seq(Cause \cup Consequence)
         /\ Counts'
         /\ errc' # <<>> /\ (errc # <<>> => errc'[1] = errc[1]) /\ (errc = <<>> => errc'[1] = o)
<1> USE DEF Inv, Typed
<1>1. errc' = Append(errc, o) /\ stage' = [stage EXCEPT ![p] = "stopped"]
      /\ outcome' = [outcome EXCEPT ![p] = o]
  BY DEF Stop
<1>2. /\ stage' \in [Projection -> Stage]
      /\ outcome' \in [Projection -> Cause \cup Consequence \cup {"none"}]
      /\ errc' \in Seq(Cause \cup Consequence)
  BY <1>1 DEF Stage
<1>3. errc' # <<>> /\ (errc # <<>> => errc'[1] = errc[1]) /\ (errc = <<>> => errc'[1] = o)
      /\ Len(errc') = Len(errc) + 1
  <2>1. errc \in Seq(Cause \cup Consequence)
    OBVIOUS
  <2>2. /\ Append(errc, o) # <<>> /\ Len(Append(errc, o)) = Len(errc) + 1
        /\ errc # <<>> => Append(errc, o)[1] = errc[1]
        /\ errc = <<>> => Append(errc, o)[1] = o
    <3> HIDE DEF Inv, Typed
    <3>1. QED
      BY <2>1, Appended
  <2>3. QED
    BY <1>1, <2>2, Zenon
<1>4. p \notin Stopped /\ Stopped' = Stopped \cup {p}
  BY <1>1 DEF Stopped
<1>5. Cardinality(Stopped') = Cardinality(Stopped) + 1
  BY <1>4, StoppedFinite, FS_AddElement
<1>6. Stopped # Projection
  BY <1>4
<1>7. Counts'
  BY <1>3, <1>5, <1>6, StoppedFinite DEF Counts
<1>8. QED
  BY <1>2, <1>3, <1>7

LEMMA StopCauses ==
  ASSUME Inv, NEW p \in Projection, stage[p] \notin {"created", "stopped"},
         NEW o \in Cause \cup Consequence, Stop(p, o),
         UNCHANGED <<parent, canceled, main, received, returned>>,
         o \in Consequence => parent \/ errc # <<>>
  PROVE  Causes'
<1>1. /\ errc' # <<>> /\ (errc # <<>> => errc'[1] = errc[1]) /\ (errc = <<>> => errc'[1] = o)
  BY StopCounts
<1>2. errc'[1] \in Consequence => parent'
  BY <1>1 DEF Inv, Causes
<1>3. returned' \in Consequence => returned' = errc'[1]
  BY <1>1 DEF Inv, Causes
<1>4. QED
  BY <1>1, <1>2, <1>3, Zenon DEF Causes

\* The steps by which a projection stops, and what they have in common.
Stops(p, o) ==
    /\ o \in Cause \cup Consequence
    /\ stage[p] \notin {"created", "stopped"}
    /\ Stop(p, o)
    /\ UNCHANGED <<parent, canceled, main, received, returned>>
    /\ o \in Consequence => parent \/ errc # <<>>
    /\ \/ UNCHANGED <<running, aborted>> /\ (running[p] > 0 => o = "accept_error")
       \/ /\ o = "deadline"
          /\ running' = [running EXCEPT ![p] = 0] /\ aborted' = [aborted EXCEPT ![p] = running[p]]

LEMMA StopSteps ==
  ASSUME Inv, NEW p \in Projection,
         StartFails(p) \/ AcceptFails(p) \/ CommandDone(p) \/ Drained(p) \/ DrainTimesOut(p)
  PROVE  \E o : Stops(p, o)
<1> USE ProjectionAssumption DEF Inv, Typed, Calls, Stops, Cause, Consequence
<1>1. CASE StartFails(p)
  <2>1. Kind[p] = "http" => Stops(p, "listen_error")
    BY <1>1 DEF StartFails
  <2>2. Kind[p] # "http" => Stops(p, "done")
    BY <1>1 DEF StartFails
  <2>3. QED
    BY <2>1, <2>2
<1>2. CASE AcceptFails(p)
  <2>1. Stops(p, "accept_error")
    BY <1>2 DEF AcceptFails
  <2>2. QED
    BY <2>1
<1>3. CASE CommandDone(p)
  <2>1. Stops(p, "done")
    BY <1>3 DEF CommandDone
  <2>2. QED
    BY <2>1
<1>4. CASE Drained(p)
  <2>1. outcome[p] \in {"canceled", "eof"}
    BY <1>4 DEF Drained
  <2>2. Stops(p, outcome[p])
    BY <1>4, <2>1 DEF Drained, Causes
  <2>3. QED
    BY <2>2
<1>5. CASE DrainTimesOut(p)
  <2>1. outcome[p] = "canceled"
    BY <1>5 DEF DrainTimesOut
  <2>2. parent \/ errc # <<>>
    BY <2>1 DEF Causes
  <2>3. Stops(p, "deadline")
    BY <1>5, <2>2 DEF DrainTimesOut
  <2>4. QED
    BY <2>3
<1>6. QED
  BY <1>1, <1>2, <1>3, <1>4, <1>5

LEMMA StopsInv ==
  ASSUME Inv, NEW p \in Projection, NEW o, Stops(p, o)
  PROVE  Inv'
<1>1. /\ Counts'
      /\ stage' \in [Projection -> Stage]
      /\ outcome' \in [Projection -> Cause \cup Consequence \cup {"none"}]
      /\ errc' \in Seq(Cause \cup Consequence)
  BY StopCounts DEF Stops
<1>2. Causes'
  BY StopCauses DEF Stops
<1>3. Typed'
  <2>1. Typed
    BY DEF Inv
  <2>2. received' = received /\ main' = main
    BY DEF Stops
  <2>3. running' \in [Projection -> Nat] /\ aborted' \in [Projection -> Nat]
    <3>1. CASE UNCHANGED <<running, aborted>>
      BY <2>1, <3>1 DEF Typed
    <3>2. CASE running' = [running EXCEPT ![p] = 0] /\ aborted' = [aborted EXCEPT ![p] = running[p]]
      BY <2>1, <3>2 DEF Typed
    <3>3. QED
      BY <3>1, <3>2 DEF Stops
  <2>4. QED
    BY <1>1, <2>1, <2>2, <2>3 DEF Typed
<1>4. Calls'
  <2>1. Typed /\ Calls
    BY DEF Inv
  <2>2. stage' = [stage EXCEPT ![p] = "stopped"] /\ outcome' = [outcome EXCEPT ![p] = o] /\ stage[p] \notin {"created", "stopped"}
    BY DEF Stops, Stop
  <2>3. CASE UNCHANGED <<running, aborted>> /\ (running[p] > 0 => o = "accept_error")
    BY <2>1, <2>2, <2>3 DEF Typed, Calls
  <2>4. CASE /\ o = "deadline"
             /\ running' = [running EXCEPT ![p] = 0] /\ aborted' = [aborted EXCEPT ![p] = running[p]]
    BY <2>1, <2>2, <2>4 DEF Typed, Calls
  <2>5. QED
    BY <2>3, <2>4 DEF Stops
<1>5. QED
  BY <1>1, <1>2, <1>3, <1>4 DEF Inv

\* The other steps of a projection.
LEMMA ServesInv ==
  ASSUME Inv, NEW p \in Projection,
         \/ Starts(p) \/ Cancels(p) \/ InputEnds(p)
         \/ CallArrives(p) \/ CallEnds(p) \/ AbortedCallEnds(p)
  PROVE  Inv'
<1> USE DEF Inv
<1>1. UNCHANGED <<parent, canceled, main, errc, received, returned>>
  BY DEF Starts, Cancels, InputEnds, CallArrives, CallEnds, AbortedCallEnds
<1>2. Typed'
  <2>1. stage' \in [Projection -> Stage]
    BY DEF Typed, Stage, Starts, Cancels, InputEnds, CallArrives, CallEnds, AbortedCallEnds
  <2>2. outcome' \in [Projection -> Cause \cup Consequence \cup {"none"}]
    <3>1. \/ UNCHANGED outcome
          \/ \E o \in {"canceled", "eof"} : outcome' = [outcome EXCEPT ![p] = o]
      BY DEF Starts, Cancels, InputEnds, CallArrives, CallEnds, AbortedCallEnds
    <3>2. QED
      BY <3>1 DEF Typed, Cause, Consequence
  <2>3. running' \in [Projection -> Nat] /\ aborted' \in [Projection -> Nat]
    <3>1. CASE Starts(p) \/ Cancels(p) \/ InputEnds(p)
      BY <3>1 DEF Typed, Starts, Cancels, InputEnds
    <3>2. running[p] \in Nat /\ aborted[p] \in Nat
      BY DEF Typed
    <3>3. CASE CallArrives(p)
      BY <3>2, <3>3 DEF Typed, CallArrives
    <3>4. CASE CallEnds(p)
      <4>1. running[p] - 1 \in Nat
        BY <3>2, <3>4 DEF CallEnds
      <4>2. QED
        BY <3>4, <4>1 DEF Typed, CallEnds
    <3>5. CASE AbortedCallEnds(p)
      <4>1. aborted[p] - 1 \in Nat
        BY <3>2, <3>5 DEF AbortedCallEnds
      <4>2. QED
        BY <3>5, <4>1 DEF Typed, AbortedCallEnds
    <3>6. QED
      BY <3>1, <3>3, <3>4, <3>5
  <2>4. QED
    BY <1>1, <2>1, <2>2, <2>3 DEF Typed
<1>3. Stopped' = Stopped
  BY DEF Typed, Stopped, Starts, Cancels, InputEnds, CallArrives, CallEnds, AbortedCallEnds
<1>4. Counts'
  <2>1. stage' = stage \/ stage[p] # "created"
    BY DEF Starts, Cancels, InputEnds, CallArrives, CallEnds, AbortedCallEnds
  <2>2. main = "idle" => stage' = stage
    BY <2>1 DEF Counts
  <2>3. QED
    BY <1>1, <1>3, <2>2 DEF Counts
<1>5. \A q \in Projection : outcome'[q] \in Consequence => parent' \/ errc' # <<>>
  <2>1. CtxDone => parent \/ errc # <<>>
    BY DEF CtxDone, Causes
  <2>2. CASE Cancels(p)
    BY <1>1, <2>1, <2>2 DEF Typed, Causes, Cancels
  <2>3. CASE InputEnds(p)
    BY <1>1, <2>1, <2>3 DEF Typed, Causes, InputEnds, Consequence
  <2>4. CASE UNCHANGED outcome
    BY <1>1, <2>4 DEF Causes
  <2>5. QED
    BY <2>2, <2>3, <2>4 DEF Starts, CallArrives, CallEnds, AbortedCallEnds
<1>6. Causes'
  BY <1>1, <1>5, Zenon DEF Causes
<1>7. Calls'
  <2>1. CASE Starts(p)
    BY <2>1 DEF Typed, Calls, Starts
  <2>2. CASE Cancels(p)
    BY <2>2 DEF Typed, Calls, Cancels
  <2>3. CASE InputEnds(p)
    BY <2>3 DEF Typed, Calls, InputEnds
  <2>4. CASE CallArrives(p) \/ CallEnds(p) \/ AbortedCallEnds(p)
    BY <2>4 DEF Typed, Calls, CallArrives, CallEnds, AbortedCallEnds
  <2>5. QED
    BY <2>1, <2>2, <2>3, <2>4
<1>8. QED
  BY <1>2, <1>4, <1>6, <1>7

LEMMA LaunchInv ==
  ASSUME Inv, Launch
  PROVE  Inv'
<1> USE DEF Inv
<1>1. /\ \A p \in Projection : stage[p] = "created" /\ stage'[p] = "starting"
      /\ main = "idle" /\ main' = "waiting"
      /\ UNCHANGED <<parent, canceled, errc, received, returned, outcome, running, aborted>>
  BY DEF Counts, Launch
<1>2. Typed'
  BY <1>1 DEF Typed, Stage, Launch
<1>3. Stopped' = Stopped
  BY <1>1 DEF Stopped
<1>4. Counts'
  BY <1>1, <1>3 DEF Counts
<1>5. Causes'
  BY <1>1, Zenon DEF Causes
<1>6. Calls'
  BY <1>1 DEF Calls, Typed
<1>7. QED
  BY <1>2, <1>4, <1>5, <1>6

LEMMA MainInv ==
  ASSUME Inv, CancelParent \/ ReceiveFirst \/ ReceiveNext \/ Return
  PROVE  Inv'
<1> USE DEF Inv
<1>1. UNCHANGED <<errc, stage, outcome, running, aborted>>
  BY DEF CancelParent, ReceiveFirst, ReceiveNext, Return, proj
<1>2. Typed'
  BY <1>1 DEF Typed, CancelParent, ReceiveFirst, ReceiveNext, Return
<1>3. Stopped' = Stopped /\ Calls'
  BY <1>1 DEF Stopped, Calls
<1>4. Return => Stopped = Projection
  <2>1. Stopped \in SUBSET Projection
    BY DEF Stopped
  <2>2. Cardinality(Stopped) <= Cardinality(Projection)
        /\ (Cardinality(Projection) = Cardinality(Stopped) => Projection = Stopped)
    BY <2>1, ProjectionAssumption, FS_Subset
  <2>3. QED
    BY <2>2, StoppedFinite DEF Return, Counts, N, Typed
<1>5. Counts'
  <2>1. errc # <<>> => Len(errc) >= 1
    BY DEF Typed
  <2>2. QED
    BY <1>1, <1>3, <1>4, <2>1 DEF Counts, Typed, CancelParent, ReceiveFirst, ReceiveNext, Return
<1>6. Causes'
  <2>1. CASE CancelParent
    BY <1>1, <2>1 DEF Causes, CancelParent
  <2>2. CASE ReceiveFirst \/ ReceiveNext
    BY <1>1, <2>2 DEF Causes, ReceiveFirst, ReceiveNext
  <2>3. CASE Return
    BY <1>1, <2>3 DEF Causes, Return
  <2>4. QED
    BY <2>1, <2>2, <2>3
<1>7. QED
  BY <1>2, <1>3, <1>5, <1>6

LEMMA NextInv == Inv /\ [ServeNext]_serveVars => Inv'
<1> SUFFICES ASSUME Inv, [ServeNext]_serveVars
             PROVE  Inv'
  OBVIOUS
<1>1. CASE CancelParent \/ ReceiveFirst \/ ReceiveNext \/ Return
  BY <1>1, MainInv
<1>2. ASSUME NEW p \in Projection,
             StartFails(p) \/ AcceptFails(p) \/ CommandDone(p) \/ Drained(p) \/ DrainTimesOut(p)
      PROVE  Inv'
  BY <1>2, StopSteps, StopsInv
<1>3. ASSUME NEW p \in Projection,
             \/ Starts(p) \/ Cancels(p) \/ InputEnds(p)
             \/ CallArrives(p) \/ CallEnds(p) \/ AbortedCallEnds(p)
      PROVE  Inv'
  BY <1>3, ServesInv
<1>4. CASE Launch
  BY <1>4, LaunchInv
<1>5. CASE UNCHANGED serveVars
  BY <1>5 DEF serveVars, Inv, Typed, Counts, Causes, Calls, Stopped
<1>6. QED
  BY <1>1, <1>2, <1>3, <1>4, <1>5 DEF ServeNext, ProjectionStep

\* For any set of projections: what ServeProjections returns is a cancellation only if
\* the caller canceled; otherwise it is the result that made it end the others.
THEOREM CauseIsReported == ServeSpec => []CauseReported
<1>1. Inv => CauseReported
  BY DEF Inv, Causes, CauseReported
<1>2. QED
  BY <1>1, InitInv, NextInv, PTL DEF ServeSpec

\* For any set of projections and calls: when ServeProjections returns every projection
\* has stopped, and its calls with it, but for the two ways in which net/http leaves some.
THEOREM CallsAreFinished == ServeSpec => []CallsFinished
<1>1. Inv => CallsFinished
  BY DEF Inv, Counts, Calls, CallsFinished, Stopped
<1>2. QED
  BY <1>1, InitInv, NextInv, PTL DEF ServeSpec
===============================================================================
