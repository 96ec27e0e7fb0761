------------------------------ MODULE McpSession ------------------------------
(***************************************************************************)
(* One MCP session over stdio: mcpSession.run in go/mcp.go.                *)
(*                                                                         *)
(* Three kinds of goroutine share the session.  The scanner goroutine      *)
(* turns stdin into lines and hands them over through the channel          *)
(* `scanned', which has room for one.  The loop takes the lines, answers   *)
(* everything but tools/call itself and starts one goroutine per           *)
(* tools/call.  A call goroutine runs the handler, then decides under      *)
(* inflightMu whether its response is still wanted.                        *)
(*                                                                         *)
(* A critical section is one step.  What happens between two critical      *)
(* sections (a cancellation recorded and not yet carried out, a response   *)
(* decided on and not yet written) is a state of its own.                  *)
(***************************************************************************)
EXTENDS Naturals, FiniteSets, Sequences

CONSTANTS
    Call,       \* tools/call requests the session can accept (goroutines)
    Key,        \* idKey of a request id, as mcpIDKey computes it
    None,       \* no call, or no key
    MaxLines,   \* bound: lines the client writes before it falls silent
    Closable    \* is the reader an io.Closer (os.Stdin, a pipe)?

ASSUME McpAssumption ==
    /\ None \notin Call \cup Key
    /\ IsFiniteSet(Call)
    /\ MaxLines \in Nat
    /\ Closable \in BOOLEAN

VARIABLES
    ctxDone,    \* the context given to run is done
    closer,     \* the AfterFunc closing the reader: "armed", "fired", "stopped"
    lines,      \* how many lines the client has written
    scanner,    \* scanner goroutine: "scan", "send" (holding held), "exited"
    held,       \* the scanResult the scanner is about to send
    scanned,    \* the channel from the scanner to the loop
    loop,       \* "select", "cancel" (call.cancel() is next), "wait", "returned"
    target,     \* in loop = "cancel": the call whose context is cancelled next
    result,     \* the error run returns: "none" until decided
    inflight,   \* m.inflight
    state,      \* a call: "unused", "dispatch", "finish", "write", "done"
    key,        \* the idKey a call was accepted under
    canceled,   \* call.canceled
    callCtx,    \* has call.cancel() been called?
    answers     \* how many responses a call has written

sessionVars == <<ctxDone, closer, lines, scanner, held, scanned>>
loopVars == <<loop, target, result>>
callVars == <<inflight, state, key, canceled, callCtx, answers>>
vars == <<sessionVars, loopVars, callVars>>

\* What a line of input can be to the loop.  "inline" is one it is done with in
\* the same iteration: an empty line, a client response, a notification that
\* cancels nothing, a protocol error, or a request it answers itself.
Line == [kind : {"inline"}] \cup [kind : {"call", "cancelled"}, key : Key]

\* The scanResult that ends the input, with scanner.Err().
End == [kind : {"done"}, err : {"nil", "err"}]

\* The scanner holds nothing.
Nothing == [kind |-> "nothing"]

Accepted == {c \in Call : state[c] # "unused"}
Running == {c \in Call : state[c] \in {"dispatch", "finish"}}

TypeOK ==
    /\ ctxDone \in BOOLEAN
    /\ closer \in {"none", "armed", "fired", "stopped"}
    /\ lines \in 0..MaxLines
    /\ scanner \in {"scan", "send", "exited"}
    /\ held \in Line \cup End \cup {Nothing}
    /\ (scanner = "send") => held # Nothing
    /\ scanned \in {<<>>} \cup {<<r>> : r \in Line \cup End}
    /\ loop \in {"select", "cancel", "wait", "returned"}
    /\ target \in Call \cup {None}
    /\ (loop = "cancel") => target \in Call
    /\ result \in {"none", "nil", "err", "ctx"}
    /\ inflight \in [Key -> Call \cup {None}]
    /\ state \in [Call -> {"unused", "dispatch", "finish", "write", "done"}]
    /\ key \in [Call -> Key \cup {None}]
    /\ canceled \in [Call -> BOOLEAN]
    /\ callCtx \in [Call -> BOOLEAN]
    /\ answers \in [Call -> Nat]

Init ==
    /\ ctxDone = FALSE
    /\ closer = IF Closable THEN "armed" ELSE "none"
    /\ lines = 0
    /\ scanner = "scan"
    /\ held = Nothing
    /\ scanned = <<>>
    /\ loop = "select"
    /\ target = None
    /\ result = "none"
    /\ inflight = [k \in Key |-> None]
    /\ state = [c \in Call |-> "unused"]
    /\ key = [c \in Call |-> None]
    /\ canceled = [c \in Call |-> FALSE]
    /\ callCtx = [c \in Call |-> FALSE]
    /\ answers = [c \in Call |-> 0]

(***************************************************************************)
(* The context and the reader's AfterFunc.  Cancelling a context closes    *)
(* its Done channel first and reaches the registered functions after that, *)
(* so the loop may act on Done before the reader is closed.                *)
(***************************************************************************)
CtxCancelled ==
    /\ ~ctxDone
    /\ ctxDone' = TRUE
    /\ UNCHANGED <<closer, lines, scanner, held, scanned, loopVars, callVars>>

ReaderCloses ==
    /\ ctxDone
    /\ closer = "armed"
    /\ closer' = "fired"
    /\ UNCHANGED <<ctxDone, lines, scanner, held, scanned, loopVars, callVars>>

(***************************************************************************)
(* The scanner goroutine.                                                  *)
(***************************************************************************)
\* The tools/call lines between the scanner and the loop.
Queued == {i \in DOMAIN scanned : scanned[i].kind = "call"}

\* What the client writes: any line, also a tools/call with an id it has used before.
\* Bound: no more tools/call lines than Call has members.
ClientWrites(line) ==
    line.kind = "call" => Cardinality(Queued) < Cardinality(Call \ Accepted)

\* scanner.Scan returns a line.  A closed reader yields none.
ScannerReads(line) ==
    /\ scanner = "scan"
    /\ lines < MaxLines
    /\ ClientWrites(line)
    /\ closer # "fired"
    /\ lines' = lines + 1
    /\ held' = line
    /\ scanner' = "send"
    /\ UNCHANGED <<ctxDone, closer, scanned, loopVars, callVars>>

\* scanner.Scan returns false: end of file, an error (an oversized line
\* included), or the reader was closed under it.
ScannerEnds(err) ==
    /\ scanner = "scan"
    /\ closer = "fired" => err = "err"
    /\ held' = [kind |-> "done", err |-> err]
    /\ scanner' = "send"
    /\ UNCHANGED <<ctxDone, closer, lines, scanned, loopVars, callVars>>

ScannerSends ==
    /\ scanner = "send"
    /\ scanned = <<>>
    /\ scanned' = <<held>>
    /\ scanner' = IF held.kind = "done" THEN "exited" ELSE "scan"
    /\ held' = Nothing
    /\ UNCHANGED <<ctxDone, closer, lines, loopVars, callVars>>

\* The select of a send that finds the channel full also watches ctx.Done().
ScannerGivesUp ==
    /\ scanner = "send"
    /\ ctxDone
    /\ scanner' = "exited"
    /\ held' = Nothing
    /\ UNCHANGED <<ctxDone, closer, lines, scanned, loopVars, callVars>>

(***************************************************************************)
(* The loop of run.                                                        *)
(***************************************************************************)
\* case <-ctx.Done(): cancel everything in flight and leave the loop.
LoopSeesShutdown ==
    /\ loop = "select"
    /\ ctxDone
    /\ callCtx' = [c \in Call |-> callCtx[c] \/ \E k \in Key : inflight[k] = c]
    /\ loop' = "wait"
    /\ result' = "ctx"
    /\ UNCHANGED <<sessionVars, target>>
    /\ UNCHANGED <<inflight, state, key, canceled, answers>>

\* case result := <-scanned
LoopTakes(kind) ==
    /\ loop = "select"
    /\ scanned # <<>>
    /\ Head(scanned).kind = kind
    /\ scanned' = <<>>
    /\ UNCHANGED <<ctxDone, closer, lines, scanner, held>>

LoopSeesEnd ==
    /\ LoopTakes("done")
    /\ loop' = "wait"
    /\ result' = IF ctxDone THEN "ctx" ELSE Head(scanned).err
    /\ UNCHANGED <<target, callVars>>

LoopHandlesInline ==
    /\ LoopTakes("inline")
    /\ UNCHANGED <<loopVars, callVars>>

\* tools/call: the call is registered, then its goroutine is started.  An
\* earlier entry under the same key is overwritten.
LoopStartsCall(c) ==
    /\ LoopTakes("call")
    /\ state[c] = "unused"
    /\ key' = [key EXCEPT ![c] = Head(scanned).key]
    /\ inflight' = [inflight EXCEPT ![Head(scanned).key] = c]
    /\ state' = [state EXCEPT ![c] = "dispatch"]
    /\ UNCHANGED <<loopVars, canceled, callCtx, answers>>

\* Mutant: the call is flagged and its context is left alone.
RecordsCancelOnly ==
    LET call == inflight[Head(scanned).key] IN
    /\ LoopTakes("cancelled")
    /\ canceled' = [c \in Call |-> canceled[c] \/ c = call]
    /\ UNCHANGED <<loopVars, inflight, state, key, callCtx, answers>>

\* notifications/cancelled: the flag is set under inflightMu ...
LoopRecordsCancel ==
    LET call == inflight[Head(scanned).key] IN
    /\ LoopTakes("cancelled")
    /\ IF call = None
       THEN UNCHANGED <<loop, target, canceled>>
       ELSE /\ canceled' = [canceled EXCEPT ![call] = TRUE]
            /\ target' = call
            /\ loop' = "cancel"
    /\ UNCHANGED result
    /\ UNCHANGED <<inflight, state, key, callCtx, answers>>

\* ... and call.cancel() runs after the lock is released.
LoopCancels ==
    /\ loop = "cancel"
    /\ callCtx' = [callCtx EXCEPT ![target] = TRUE]
    /\ target' = None
    /\ loop' = "select"
    /\ UNCHANGED <<sessionVars, result>>
    /\ UNCHANGED <<inflight, state, key, canceled, answers>>

\* Mutant: wg.Wait() is missing.
ReturnsAtOnce ==
    /\ loop = "wait"
    /\ loop' = "returned"
    /\ closer' = IF closer = "armed" THEN "stopped" ELSE closer
    /\ UNCHANGED <<ctxDone, lines, scanner, held, scanned>>
    /\ UNCHANGED <<target, result, callVars>>

\* The deferred functions, last one first: wg.Wait(), then stopReaderClose().
LoopReturns ==
    /\ loop = "wait"
    /\ \A c \in Accepted : state[c] = "done"
    /\ loop' = "returned"
    /\ closer' = IF closer = "armed" THEN "stopped" ELSE closer
    /\ UNCHANGED <<ctxDone, lines, scanner, held, scanned>>
    /\ UNCHANGED <<target, result, callVars>>

(***************************************************************************)
(* A call goroutine.                                                       *)
(***************************************************************************)
\* Mutant: the call's context is not derived from the session's.
DetachedCtxDone(c) == callCtx[c]

\* The context the handler runs under is done.
HandlerCtxDone(c) == ctxDone \/ callCtx[c]

\* m.dispatch returns: the handler has finished, for whatever reason.
HandlerReturns(c) ==
    /\ state[c] = "dispatch"
    /\ state' = [state EXCEPT ![c] = "finish"]
    /\ UNCHANGED <<sessionVars, loopVars>>
    /\ UNCHANGED <<inflight, key, canceled, callCtx, answers>>

Unregisters(c, silent) ==
    /\ state[c] = "finish"
    /\ inflight' = [inflight EXCEPT ![key[c]] = None]
    /\ state' = [state EXCEPT ![c] = IF silent THEN "done" ELSE "write"]
    /\ callCtx' = [callCtx EXCEPT ![c] = @ \/ silent]
    /\ UNCHANGED <<sessionVars, loopVars, key, canceled, answers>>

\* Mutant: the flag is not consulted.
UnregistersIgnoringFlag(c) == Unregisters(c, FALSE)

\* Under inflightMu: read the flag, delete the entry of this key.
CallUnregisters(c) == Unregisters(c, canceled[c])

\* Mutant: the response is handed to the loop, which takes none once it has left its
\* select.
WritesThroughLoop(c) ==
    /\ state[c] = "write"
    /\ loop = "select"
    /\ answers' = [answers EXCEPT ![c] = @ + 1]
    /\ state' = [state EXCEPT ![c] = "done"]
    /\ callCtx' = [callCtx EXCEPT ![c] = TRUE]
    /\ UNCHANGED <<sessionVars, loopVars, inflight, key, canceled>>

\* writeResponse, then the deferred cancel().
CallWrites(c) ==
    /\ state[c] = "write"
    /\ answers' = [answers EXCEPT ![c] = @ + 1]
    /\ state' = [state EXCEPT ![c] = "done"]
    /\ callCtx' = [callCtx EXCEPT ![c] = TRUE]
    /\ UNCHANGED <<sessionVars, loopVars, inflight, key, canceled>>

ScannerNext ==
    \/ \E line \in Line : ScannerReads(line)
    \/ \E err \in {"nil", "err"} : ScannerEnds(err)
    \/ ScannerSends
    \/ ScannerGivesUp

LoopNext ==
    \/ LoopSeesShutdown
    \/ LoopSeesEnd
    \/ LoopHandlesInline
    \/ \E c \in Call : LoopStartsCall(c)
    \/ LoopRecordsCancel
    \/ LoopCancels
    \/ LoopReturns

CallFinishes(c) == CallUnregisters(c) \/ CallWrites(c)

Next ==
    \/ CtxCancelled
    \/ ReaderCloses
    \/ ScannerNext
    \/ LoopNext
    \/ \E c \in Call : HandlerReturns(c) \/ CallFinishes(c)

Spec == Init /\ [][Next]_vars

(***************************************************************************)
(* Fairness.  Goroutines that can run do run, and a handler whose context  *)
(* is done returns.  Nothing is assumed of the client, of the parent       *)
(* context, or of a handler that nobody has cancelled.                     *)
(***************************************************************************)
Fairness ==
    /\ WF_vars(ReaderCloses)
    /\ WF_vars(ScannerSends \/ ScannerGivesUp)
    /\ WF_vars(closer = "fired" /\ ScannerEnds("err"))
    /\ WF_vars(LoopNext)
    /\ \A c \in Call : WF_vars(CallFinishes(c))
    /\ \A c \in Call : WF_vars(HandlerCtxDone(c) /\ HandlerReturns(c))

FairSpec == Spec /\ Fairness

\* Every handler returns in the end, cancelled or not: a premise of some properties.
HandlersReturn == \A c \in Call : WF_vars(HandlerReturns(c))

(***************************************************************************)
(* Properties.                                                             *)
(***************************************************************************)
\* A tools/call is answered at most once, and never once the loop has recorded
\* the client's cancellation of it: the flag is read in the critical section
\* that removes the call from m.inflight, so the two decisions cannot cross.
AnsweredOnceOrSilenced ==
    \A c \in Call :
        /\ answers[c] <= 1
        /\ canceled[c] => answers[c] = 0
        /\ state[c] = "done" => (answers[c] = 1 \/ canceled[c])

\* run returns only after every call goroutine it started has finished, so no
\* response is written to a writer its caller has taken back (wg.Wait).
NoCallOutlivesRun ==
    loop = "returned" => \A c \in Call : state[c] \in {"unused", "done"}

\* Comment at mcp.go:128: a cancellation takes effect before the next request
\* is read off the wire.  When the loop is back at its select, the context of
\* every call it has flagged is cancelled.
CancelTakesEffect ==
    loop = "select" => \A c \in Call : canceled[c] => callCtx[c]

\* Comment at mcp.go:146: the call is registered before its goroutine starts "so
\* a cancellation notification on the next read always finds it".  While a call
\* runs under a key, a cancellation of that key finds some call.
CancellationFindsCall ==
    \A c \in Running : inflight[key[c]] # None

\* The entry of a key is a call of that key that has not unregistered itself, so
\* a cancellation can never hit a call that has already decided to answer.
EntriesAreRunning ==
    \A k \in Key : inflight[k] # None =>
        inflight[k] \in Running /\ key[inflight[k]] = k

\* The refinement mapping.
StatusOf(c) ==
    IF state[c] = "unused" THEN "idle"
    ELSE IF answers[c] > 0 THEN "answered"
    ELSE IF canceled[c] THEN "silenced" ELSE "pending"

PhaseOf ==
    CASE loop = "wait" -> "draining"
      [] loop = "returned" -> "closed"
      [] OTHER -> "open"

Contract == INSTANCE McpContract WITH
    status <- [c \in Call |-> StatusOf(c)],
    phase <- PhaseOf

\* The session implements the contract of McpContract.
ImplementsContract == Contract!Spec

\* Shutdown is prompt: once the parent context is done, run returns, provided
\* handlers give up when their context does.
ShutdownReturns == ctxDone ~> (loop = "returned")

\* When handlers return, every accepted call is answered or silenced and run returns
\* after it has left its loop, also when stdin ends first (the deferred wg.Wait in run).
EveryCallResolved ==
    HandlersReturn =>
        /\ \A c \in Call : (state[c] # "unused") ~> (answers[c] = 1 \/ canceled[c])
        /\ (loop = "wait") ~> (loop = "returned")

\* Comment at mcp.go:77: closing the reader on cancellation also releases the
\* scanner goroutine.
ScannerReleased == (ctxDone /\ Closable) ~> (scanner = "exited")
===============================================================================
