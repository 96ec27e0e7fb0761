--------------------------- MODULE McpSessionProofs ---------------------------
(***************************************************************************)
(* Proofs about McpSession: the safety of the tools/call protocol for any  *)
(* number of calls, keys and lines, and that the session implements the    *)
(* contract of McpContract.                                                *)
(***************************************************************************)
EXTENDS McpSession, TLAPS

(***************************************************************************)
(* The inductive invariant.  AnsweredOnceOrSilenced alone is not           *)
(* inductive: that a flagged call is never answered depends on the flag    *)
(* being set only through the inflight map, whose entries are calls that   *)
(* have not yet decided (EntriesAreRunning), and on the count of answers   *)
(* in every earlier state of the goroutine.                                *)
(***************************************************************************)
CallInv(c) ==
    /\ state[c] = "unused" => answers[c] = 0 /\ ~canceled[c]
    /\ state[c] \in {"dispatch", "finish"} => answers[c] = 0
    /\ state[c] = "write" => answers[c] = 0 /\ ~canceled[c]
    /\ state[c] = "done" => answers[c] = IF canceled[c] THEN 0 ELSE 1

Inv ==
    /\ TypeOK
    /\ EntriesAreRunning
    /\ \A c \in Call : CallInv(c)
    /\ NoCallOutlivesRun

\* The initial state satisfies the invariant.
LEMMA InitInv == Init => Inv
<1> SUFFICES ASSUME Init
             PROVE  Inv
  OBVIOUS
<1>1. TypeOK
  <2>1. canceled \in [Call -> BOOLEAN] /\ callCtx \in [Call -> BOOLEAN]
    BY Zenon DEF Init
  <2>2. inflight \in [Key -> Call \cup {None}] /\ key \in [Call -> Key \cup {None}]
    BY DEF Init
  <2>3. closer \in {"none", "armed", "fired", "stopped"}
    BY DEF Init
  <2>4. state \in [Call -> {"unused", "dispatch", "finish", "write", "done"}]
    BY DEF Init
  <2>5. answers \in [Call -> Nat] /\ lines \in 0..MaxLines
    BY McpAssumption DEF Init
  <2>6. scanned \in {<<>>} \cup {<<r>> : r \in Line \cup End}
    BY DEF Init
  <2>7. QED
    BY <2>1, <2>2, <2>3, <2>4, <2>5, <2>6, Zenon DEF Init, TypeOK
<1>2. EntriesAreRunning
  BY DEF Init, EntriesAreRunning
<1>3. \A c \in Call : CallInv(c)
  BY DEF Init, CallInv
<1>4. NoCallOutlivesRun
  BY DEF Init, NoCallOutlivesRun
<1>5. QED
  BY <1>1, <1>2, <1>3, <1>4 DEF Inv

\* What the loop takes from the channel is a line or the end of the input.
LEMMA TakenType ==
  ASSUME TypeOK, NEW kind, LoopTakes(kind)
  PROVE  /\ Head(scanned) \in Line \cup End
         /\ Head(scanned).kind = kind
         /\ scanned' = <<>>
         /\ loop = "select"
  BY DEF TypeOK, LoopTakes

\* A line of kind "call" or "cancelled" carries a key; the end carries an error.
LEMMA LineFields ==
  ASSUME NEW r \in Line \cup End
  PROVE  /\ r.kind \in {"call", "cancelled"} => r.key \in Key
         /\ r.kind = "done" => r.err \in {"nil", "err"}
  BY DEF Line, End

\* Every step preserves the type invariant.
LEMMA TypeStep == TypeOK /\ [Next]_vars => TypeOK'
<1> SUFFICES ASSUME TypeOK, [Next]_vars
             PROVE  TypeOK'
  OBVIOUS
<1> USE McpAssumption DEF TypeOK, sessionVars, loopVars, callVars
<1>1. CASE CtxCancelled
  BY <1>1 DEF CtxCancelled
<1>2. CASE ReaderCloses
  BY <1>2 DEF ReaderCloses
<1>3. ASSUME NEW line \in Line, ScannerReads(line)
      PROVE  TypeOK'
  BY <1>3 DEF ScannerReads, Nothing, Line
<1>4. ASSUME NEW err \in {"nil", "err"}, ScannerEnds(err)
      PROVE  TypeOK'
  BY <1>4 DEF ScannerEnds, Nothing, End
<1>5. CASE ScannerSends
  BY <1>5 DEF ScannerSends
<1>6. CASE ScannerGivesUp
  BY <1>6 DEF ScannerGivesUp
<1>7. CASE LoopSeesShutdown
  BY <1>7 DEF LoopSeesShutdown
<1>8. CASE LoopSeesEnd
  BY <1>8, TakenType, LineFields DEF LoopSeesEnd, LoopTakes
<1>9. CASE LoopHandlesInline
  BY <1>9 DEF LoopHandlesInline, LoopTakes
<1>10. ASSUME NEW c \in Call, LoopStartsCall(c)
       PROVE  TypeOK'
  <2>1. Head(scanned).key \in Key
    BY <1>10, TakenType, LineFields DEF LoopStartsCall
  <2>2. QED
    BY <1>10, <2>1 DEF LoopStartsCall, LoopTakes
<1>11. CASE LoopRecordsCancel
  <2>1. Head(scanned).key \in Key
    BY <1>11, TakenType, LineFields DEF LoopRecordsCancel
  <2>2. CASE inflight[Head(scanned).key] = None
    BY <1>11, <2>2 DEF LoopRecordsCancel, LoopTakes
  <2>3. CASE inflight[Head(scanned).key] # None
    <3>1. PICK e \in Call : e = inflight[Head(scanned).key]
      BY <2>1, <2>3
    <3>2. canceled' = [canceled EXCEPT ![e] = TRUE] /\ target' = e /\ loop' = "cancel"
      BY <1>11, <2>3, <3>1 DEF LoopRecordsCancel
    <3>3. canceled' \in [Call -> BOOLEAN]
      BY <3>2, Zenon
    <3>4. QED
      BY <1>11, <3>2, <3>3 DEF LoopRecordsCancel, LoopTakes
  <2>4. QED
    BY <2>2, <2>3
<1>12. CASE LoopCancels
  BY <1>12 DEF LoopCancels
<1>13. CASE LoopReturns
  BY <1>13 DEF LoopReturns
<1>14. ASSUME NEW c \in Call, HandlerReturns(c)
       PROVE  TypeOK'
  BY <1>14 DEF HandlerReturns
<1>15. ASSUME NEW c \in Call, CallUnregisters(c)
       PROVE  TypeOK'
  <2>1. (callCtx[c] \/ canceled[c]) \in BOOLEAN
    OBVIOUS
  <2>2. callCtx' \in [Call -> BOOLEAN]
    BY <1>15, <2>1, Zenon DEF CallUnregisters, Unregisters
  <2>3. state' \in [Call -> {"unused", "dispatch", "finish", "write", "done"}]
    BY <1>15, Zenon DEF CallUnregisters, Unregisters
  <2>4. inflight' \in [Key -> Call \cup {None}]
    BY <1>15, Zenon DEF CallUnregisters, Unregisters
  <2>5. QED
    BY <1>15, <2>2, <2>3, <2>4 DEF CallUnregisters, Unregisters
<1>16. ASSUME NEW c \in Call, CallWrites(c)
       PROVE  TypeOK'
  BY <1>16 DEF CallWrites
<1>17. CASE UNCHANGED vars
  BY <1>17 DEF vars
<1>18. QED
  BY <1>1, <1>2, <1>3, <1>4, <1>5, <1>6, <1>7, <1>8, <1>9, <1>10, <1>11,
     <1>12, <1>13, <1>14, <1>15, <1>16, <1>17, Zenon
  DEF Next, ScannerNext, LoopNext, CallFinishes

\* Every step preserves the part of the invariant that is about the map and the
\* call goroutines.
LEMMA CallStep ==
  Inv /\ [Next]_vars =>
    EntriesAreRunning' /\ (\A c \in Call : CallInv(c)') /\ NoCallOutlivesRun'
<1> SUFFICES ASSUME Inv, [Next]_vars
             PROVE  /\ EntriesAreRunning'
                    /\ \A c \in Call : CallInv(c)'
                    /\ NoCallOutlivesRun'
  OBVIOUS
<1> DEFINE Goal == /\ EntriesAreRunning'
                   /\ \A c \in Call : CallInv(c)'
                   /\ NoCallOutlivesRun'
<1> TypeOK
  BY DEF Inv
<1> USE DEF Inv, EntriesAreRunning, Running, CallInv, NoCallOutlivesRun
<1>1. CASE UNCHANGED callVars /\ (loop' = loop \/ loop' # "returned")
  BY <1>1 DEF callVars
<1>2. CASE LoopSeesShutdown
  BY <1>2 DEF LoopSeesShutdown
<1>3. ASSUME NEW d \in Call, LoopStartsCall(d)
      PROVE  Goal
  <2>1. Head(scanned).key \in Key /\ loop = "select"
    BY <1>3, TakenType, LineFields DEF LoopStartsCall
  <2>2. EntriesAreRunning'
    BY <1>3, <2>1, McpAssumption DEF LoopStartsCall, TypeOK
  <2>3. \A c \in Call : CallInv(c)'
    BY <1>3 DEF LoopStartsCall, TypeOK
  <2>4. NoCallOutlivesRun'
    BY <1>3, <2>1 DEF LoopStartsCall, loopVars
  <2>5. QED
    BY <2>2, <2>3, <2>4
<1>4. CASE LoopRecordsCancel
  <2>1. Head(scanned).key \in Key /\ loop = "select"
    BY <1>4, TakenType, LineFields DEF LoopRecordsCancel
  <2>2. EntriesAreRunning'
    BY <1>4 DEF LoopRecordsCancel
  <2>3. ASSUME NEW c \in Call
        PROVE  CallInv(c)'
    <3>1. state' = state /\ answers' = answers
      BY <1>4 DEF LoopRecordsCancel
    <3>2. CASE inflight[Head(scanned).key] = None
      <4>1. canceled' = canceled
        BY <1>4, <3>2 DEF LoopRecordsCancel
      <4>2. QED
        BY <3>1, <4>1
    <3>3. CASE inflight[Head(scanned).key] # None
      <4>1. PICK e \in Call : e = inflight[Head(scanned).key]
        BY <2>1, <3>3 DEF TypeOK
      <4>2. canceled' = [canceled EXCEPT ![e] = TRUE]
        BY <1>4, <3>3, <4>1 DEF LoopRecordsCancel
      <4>3. state[e] \in {"dispatch", "finish"}
        BY <2>1, <3>3, <4>1
      <4>4. CASE c = e
        BY <3>1, <4>3, <4>4
      <4>5. CASE c # e
        <5>1. canceled'[c] = canceled[c]
          BY <4>2, <4>5 DEF TypeOK
        <5>2. QED
          BY <3>1, <5>1
      <4>6. QED
        BY <4>4, <4>5
    <3>4. QED
      BY <3>2, <3>3
  <2>4. NoCallOutlivesRun'
    BY <1>4, <2>1 DEF LoopRecordsCancel
  <2>5. QED
    BY <2>2, <2>3, <2>4
<1>5. CASE LoopCancels
  BY <1>5 DEF LoopCancels
<1>6. CASE LoopReturns
  BY <1>6 DEF LoopReturns, Accepted, callVars, TypeOK
<1>7. ASSUME NEW d \in Call, HandlerReturns(d)
      PROVE  Goal
  BY <1>7 DEF HandlerReturns, TypeOK, loopVars
<1>8. ASSUME NEW d \in Call, CallUnregisters(d)
      PROVE  Goal
  <2>1. EntriesAreRunning'
    BY <1>8 DEF CallUnregisters, Unregisters, TypeOK
  <2>2. \A c \in Call : CallInv(c)'
    BY <1>8 DEF CallUnregisters, Unregisters, TypeOK
  <2>3. NoCallOutlivesRun'
    BY <1>8 DEF CallUnregisters, Unregisters, TypeOK, loopVars
  <2>4. QED
    BY <2>1, <2>2, <2>3
<1>9. ASSUME NEW d \in Call, CallWrites(d)
      PROVE  Goal
  <2>1. EntriesAreRunning'
    BY <1>9 DEF CallWrites, TypeOK
  <2>2. \A c \in Call : CallInv(c)'
    BY <1>9 DEF CallWrites, TypeOK
  <2>3. NoCallOutlivesRun'
    BY <1>9 DEF CallWrites, TypeOK, loopVars
  <2>4. QED
    BY <2>1, <2>2, <2>3
<1>10. QED
  <2> HIDE DEF Inv, EntriesAreRunning, Running, CallInv, NoCallOutlivesRun
  <2>1. CASE CtxCancelled \/ ReaderCloses \/ ScannerNext \/ UNCHANGED vars
    BY <1>1, <2>1 DEF CtxCancelled, ReaderCloses, ScannerNext, ScannerReads,
       ScannerEnds, ScannerSends, ScannerGivesUp, vars, loopVars
  <2>2. CASE LoopSeesEnd \/ LoopHandlesInline
    BY <1>1, <2>2 DEF LoopSeesEnd, LoopHandlesInline, loopVars
  <2>3. QED
    BY <2>1, <2>2, <1>2, <1>3, <1>4, <1>5, <1>6, <1>7, <1>8, <1>9
    DEF Next, LoopNext, CallFinishes

\* The invariant is inductive and holds of every behaviour.
THEOREM SessionInvariant == Spec => []Inv
<1>1. Inv /\ [Next]_vars => Inv'
  BY TypeStep, CallStep DEF Inv
<1>2. QED
  BY InitInv, <1>1, PTL DEF Spec

\* Whatever the interleaving of loop and call goroutines, a call is answered at
\* most once and never after its cancellation was recorded; ids may be reused.
THEOREM AnsweredOnce == Spec => []AnsweredOnceOrSilenced
<1>1. Inv => AnsweredOnceOrSilenced
  BY DEF Inv, TypeOK, CallInv, AnsweredOnceOrSilenced
<1>2. QED
  BY <1>1, SessionInvariant, PTL

\* run never returns before the goroutines it started.
THEOREM RunOutlivesCalls == Spec => []NoCallOutlivesRun
<1>1. Inv => NoCallOutlivesRun
  BY DEF Inv
<1>2. QED
  BY <1>1, SessionInvariant, PTL

\* A recorded cancellation has reached the context of its call, or the loop is just about
\* to carry it out: CancelTakesEffect at the other places of the loop.
CancelPending ==
    \A c \in Call : canceled[c] => callCtx[c] \/ (loop = "cancel" /\ c = target)

LEMMA CancelStep == TypeOK /\ CancelPending /\ [Next]_vars => CancelPending'
<1> SUFFICES ASSUME TypeOK, CancelPending, [Next]_vars
             PROVE  CancelPending'
  OBVIOUS
<1>1. CASE /\ UNCHANGED canceled /\ \A c \in Call : callCtx[c] => callCtx'[c]
           /\ UNCHANGED <<loop, target>> \/ loop # "cancel"
  BY <1>1 DEF CancelPending
<1>2. CASE LoopRecordsCancel
  <2>1. Head(scanned).key \in Key /\ loop = "select" /\ callCtx' = callCtx
    BY <1>2, TakenType, LineFields DEF LoopRecordsCancel
  <2>2. CASE inflight[Head(scanned).key] = None
    BY <1>1, <1>2, <2>1, <2>2 DEF LoopRecordsCancel
  <2>3. CASE inflight[Head(scanned).key] # None
    <3>1. PICK e \in Call : e = inflight[Head(scanned).key]
      BY <2>1, <2>3 DEF TypeOK
    <3>2. canceled' = [canceled EXCEPT ![e] = TRUE] /\ target' = e /\ loop' = "cancel"
      BY <1>2, <2>3, <3>1 DEF LoopRecordsCancel
    <3>3. \A c \in Call : c # e => (canceled'[c] <=> canceled[c])
      BY <3>2 DEF TypeOK
    <3>4. QED
      BY <2>1, <3>2, <3>3 DEF CancelPending
  <2>4. QED
    BY <2>2, <2>3
<1>3. CASE LoopCancels
  <2>1. \A c \in Call : canceled'[c] <=> canceled[c]
    BY <1>3 DEF LoopCancels
  <2>2. loop = "cancel" /\ target \in Call /\ callCtx' = [callCtx EXCEPT ![target] = TRUE]
    BY <1>3 DEF LoopCancels, TypeOK
  <2>3. callCtx'[target] /\ \A c \in Call : callCtx[c] => callCtx'[c]
    BY <2>2 DEF TypeOK
  <2>4. QED
    BY <2>1, <2>3 DEF CancelPending
<1>4. CASE LoopSeesShutdown
  <2>1. \A c \in Call : callCtx'[c] <=> callCtx[c] \/ \E k \in Key : inflight[k] = c
    BY <1>4, Zenon DEF LoopSeesShutdown
  <2>2. QED
    BY <1>1, <1>4, <2>1 DEF LoopSeesShutdown
<1>5. ASSUME NEW d \in Call, CallUnregisters(d) \/ CallWrites(d)
      PROVE  CancelPending'
  <2>1. \A c \in Call : callCtx[c] => callCtx'[c]
    BY <1>5 DEF CallUnregisters, Unregisters, CallWrites, TypeOK
  <2>2. QED
    BY <1>1, <1>5, <2>1 DEF CallUnregisters, Unregisters, CallWrites, loopVars
<1>6. CASE UNCHANGED <<canceled, callCtx>> /\ (UNCHANGED <<loop, target>> \/ loop # "cancel")
  BY <1>1, <1>6
<1>7. CASE CtxCancelled \/ ReaderCloses \/ ScannerNext \/ UNCHANGED vars
  BY <1>6, <1>7 DEF CtxCancelled, ReaderCloses, ScannerNext, ScannerReads,
     ScannerEnds, ScannerSends, ScannerGivesUp, vars, loopVars, callVars
<1>8. CASE LoopSeesEnd \/ LoopHandlesInline \/ LoopReturns \/ \E c \in Call : LoopStartsCall(c)
  BY <1>6, <1>8 DEF LoopSeesEnd, LoopHandlesInline, LoopReturns, LoopStartsCall, LoopTakes,
     loopVars, callVars
<1>9. CASE \E c \in Call : HandlerReturns(c)
  BY <1>6, <1>9 DEF HandlerReturns, loopVars
<1>10. QED
  BY <1>2, <1>3, <1>4, <1>5, <1>7, <1>8, <1>9 DEF Next, LoopNext, CallFinishes

\* For any number of calls: when the loop is back at its select, the context of every
\* call that a notification has cancelled is cancelled, whichever goroutine did it.
THEOREM CancellationTakesEffect == Spec => []CancelTakesEffect
<1>1. Init => CancelPending
  BY DEF Init, CancelPending
<1>2. Inv => TypeOK
  BY DEF Inv
<1>3. CancelPending => CancelTakesEffect
  BY DEF CancelPending, CancelTakesEffect
<1>4. QED
  BY <1>1, <1>2, <1>3, CancelStep, SessionInvariant, PTL DEF Spec

\* Only the loop moves the phase, and a step that leaves the loop's and the
\* calls' visible state alone is a stutter of the contract.
LEMMA Stutter ==
  ASSUME PhaseOf' = PhaseOf, \A c \in Call : StatusOf(c)' = StatusOf(c)
  PROVE  UNCHANGED Contract!contractVars
  BY DEF Contract!contractVars

\* A step that moves one call is a move of the contract.
LEMMA CallMoves ==
  ASSUME NEW d \in Call, NEW from, NEW to,
         PhaseOf' = PhaseOf, StatusOf(d) = from, StatusOf(d)' = to,
         \A c \in Call \ {d} : StatusOf(c)' = StatusOf(c)
  PROVE  Contract!Moves(d, from, to)
  BY Zenon DEF Contract!Moves

\* The session implements its contract: every step of the goroutines is a step
\* of McpContract or leaves its state unchanged.
THEOREM SessionImplementsContract == Spec => ImplementsContract
<1>1. Init => Contract!Init
  BY DEF Init, Contract!Init, StatusOf, PhaseOf
<1>2. Inv /\ [Next]_vars => [Contract!Next]_(Contract!contractVars)
  <2> SUFFICES ASSUME Inv, [Next]_vars
               PROVE  Contract!Next \/ UNCHANGED Contract!contractVars
    OBVIOUS
  <2> TypeOK
    BY DEF Inv
  <2>1. CASE UNCHANGED <<loop, state, canceled, answers>>
    BY <2>1, Stutter DEF StatusOf, PhaseOf
  <2>2. CASE LoopSeesShutdown \/ LoopSeesEnd
    <3>1. loop = "select" /\ loop' = "wait" /\ UNCHANGED <<state, canceled, answers>>
      BY <2>2, TakenType DEF LoopSeesShutdown, LoopSeesEnd, callVars
    <3>2. Contract!Drain
      BY <3>1 DEF Contract!Drain, PhaseOf, StatusOf
    <3>3. QED
      BY <3>2 DEF Contract!Next
  <2>3. ASSUME NEW d \in Call, LoopStartsCall(d)
        PROVE  Contract!Next
    <3>1. loop = "select" /\ loop' = loop /\ answers[d] = 0 /\ ~canceled[d]
      BY <2>3, TakenType DEF LoopStartsCall, loopVars, Inv, CallInv
    <3>2. /\ state[d] = "unused" /\ state' = [state EXCEPT ![d] = "dispatch"]
          /\ UNCHANGED <<canceled, answers>>
      BY <2>3 DEF LoopStartsCall
    <3>3. PhaseOf' = PhaseOf /\ PhaseOf = "open"
      BY <3>1 DEF PhaseOf
    <3>4. StatusOf(d) = "idle" /\ StatusOf(d)' = "pending"
      BY <3>1, <3>2 DEF StatusOf, TypeOK
    <3>5. \A c \in Call \ {d} : StatusOf(c)' = StatusOf(c)
      BY <3>2 DEF StatusOf, TypeOK
    <3>6. Contract!Moves(d, "idle", "pending")
      BY <3>3, <3>4, <3>5, CallMoves
    <3>7. QED
      BY <3>3, <3>6 DEF Contract!Next, Contract!Accept
  <2>4. CASE LoopRecordsCancel
    <3> DEFINE call == inflight[Head(scanned).key]
    <3>1. Head(scanned).key \in Key /\ loop = "select"
      BY <2>4, TakenType, LineFields DEF LoopRecordsCancel
    <3>2. CASE call = None \/ canceled[call]
      <4>1. PhaseOf' = PhaseOf
        BY <2>4, <3>1 DEF LoopRecordsCancel, PhaseOf
      <4>2. \A c \in Call : StatusOf(c)' = StatusOf(c)
        BY <2>4, <3>1, <3>2 DEF LoopRecordsCancel, StatusOf, TypeOK
      <4>3. QED
        BY <4>1, <4>2, Stutter
    <3>3. CASE call # None /\ ~canceled[call]
      <4>1. PICK d \in Call : d = call
        BY <3>1, <3>3 DEF TypeOK
      <4>2. state[d] \in {"dispatch", "finish"} /\ answers[d] = 0 /\ ~canceled[d]
        BY <3>1, <3>3, <4>1 DEF Inv, EntriesAreRunning, Running, CallInv
      <4>3. /\ canceled' = [canceled EXCEPT ![d] = TRUE]
            /\ loop' = "cancel"
            /\ UNCHANGED <<state, answers>>
        BY <2>4, <3>3, <4>1 DEF LoopRecordsCancel
      <4>4. PhaseOf' = PhaseOf /\ PhaseOf = "open"
        BY <3>1, <4>3 DEF PhaseOf
      <4>5. StatusOf(d) = "pending" /\ StatusOf(d)' = "silenced"
        BY <4>2, <4>3 DEF StatusOf, TypeOK
      <4>6. \A c \in Call \ {d} : StatusOf(c)' = StatusOf(c)
        BY <4>3 DEF StatusOf, TypeOK
      <4>7. Contract!Moves(d, "pending", "silenced")
        BY <4>4, <4>5, <4>6, CallMoves
      <4>8. QED
        BY <4>4, <4>7 DEF Contract!Next, Contract!Silence
    <3>4. QED
      BY <3>2, <3>3
  <2>5. CASE LoopCancels
    BY <2>5, Stutter DEF LoopCancels, StatusOf, PhaseOf
  <2>6. CASE LoopReturns
    <3>1. \A c \in Call : StatusOf(c) # "pending" /\ StatusOf(c)' = StatusOf(c)
      BY <2>6 DEF LoopReturns, Accepted, callVars, StatusOf, Inv, CallInv
    <3>2. PhaseOf = "draining" /\ PhaseOf' = "closed"
      BY <2>6 DEF LoopReturns, PhaseOf
    <3>3. Contract!Close
      BY <3>1, <3>2 DEF Contract!Close
    <3>4. QED
      BY <3>3 DEF Contract!Next
  <2>7. ASSUME NEW d \in Call, HandlerReturns(d) \/ CallUnregisters(d)
        PROVE  UNCHANGED Contract!contractVars
    BY <2>7, Stutter DEF HandlerReturns, CallUnregisters, Unregisters,
       loopVars, StatusOf, PhaseOf, TypeOK
  <2>8. ASSUME NEW d \in Call, CallWrites(d)
        PROVE  Contract!Next
    <3>1. loop' = loop /\ loop # "returned" /\ answers[d] = 0 /\ ~canceled[d]
      BY <2>8 DEF CallWrites, loopVars, Inv, CallInv, NoCallOutlivesRun
    <3>2. StatusOf(d) = "pending" /\ StatusOf(d)' = "answered"
      BY <2>8, <3>1 DEF CallWrites, StatusOf, TypeOK
    <3>3. \A c \in Call \ {d} : StatusOf(c)' = StatusOf(c)
      BY <2>8 DEF CallWrites, StatusOf, TypeOK
    <3>4. PhaseOf' = PhaseOf /\ PhaseOf # "closed"
      BY <3>1 DEF PhaseOf, TypeOK
    <3>5. Contract!Moves(d, "pending", "answered")
      BY <3>2, <3>3, <3>4, CallMoves
    <3>6. QED
      BY <3>4, <3>5 DEF Contract!Next, Contract!Answer
  <2>9. CASE CtxCancelled \/ ReaderCloses \/ ScannerNext \/ LoopHandlesInline
    BY <2>1, <2>9 DEF CtxCancelled, ReaderCloses, ScannerNext, ScannerReads,
       ScannerEnds, ScannerSends, ScannerGivesUp, LoopHandlesInline, loopVars,
       callVars
  <2>10. CASE UNCHANGED vars
    BY <2>1, <2>10 DEF vars, loopVars, callVars
  <2>11. QED
    BY <2>2, <2>3, <2>4, <2>5, <2>6, <2>7, <2>8, <2>9, <2>10
    DEF Next, LoopNext, CallFinishes
<1>3. QED
  BY <1>1, <1>2, SessionInvariant, PTL DEF Spec, ImplementsContract, Contract!Spec
===============================================================================
