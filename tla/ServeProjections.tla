--------------------------- MODULE ServeProjections ---------------------------
(***************************************************************************)
(* ServeProjections in go/server.go: several projections (HTTP, MCP over   *)
(* stdio, the CLI) are served at once, and the end of one of them, or of   *)
(* the caller's context, ends all.  HTTP drains its calls for a limited    *)
(* time, MCP cancels its calls and waits for them.  What a session or a    *)
(* call does meanwhile is the matter of other modules.                     *)
(***************************************************************************)
EXTENDS Naturals, Sequences, FiniteSets

CONSTANTS
    Projection, Kind,   \* the projections of the call, and the kind of each
    MaxCalls            \* bound on the calls in flight in a projection

ASSUME ProjectionAssumption ==
    /\ IsFiniteSet(Projection) /\ Projection # {}
    /\ Kind \in [Projection -> {"http", "mcp", "cli"}]
    /\ MaxCalls \in Nat

N == Cardinality(Projection)

VARIABLES
    parent,         \* the caller's context has ended
    canceled,       \* cancel of ServeProjections was called
    main,           \* where ServeProjections is
    errc,           \* everything sent to the channel errc, in order
    received,       \* how much of it was received
    returned,       \* what ServeProjections returns
    stage, outcome, \* of each projection: where it is, and what it is going to return
    running,        \* calls in flight
    aborted         \* calls whose connection was closed under them

serveVars ==
    <<parent, canceled, main, errc, received, returned, stage, outcome, running, aborted>>
proj == <<stage, outcome, running, aborted>>

\* What a projection returns: because of the context, or for reasons of its own.
Consequence == {"canceled", "deadline"}
Cause == {"listen_error", "accept_error", "eof", "done"}

ServeInit ==
    /\ parent = FALSE /\ canceled = FALSE
    /\ main = "idle"
    /\ errc = <<>> /\ received = 0
    /\ returned = "none"
    /\ stage = [p \in Projection |-> "created"]
    /\ outcome = [p \in Projection |-> "none"]
    /\ running = [p \in Projection |-> 0]
    /\ aborted = [p \in Projection |-> 0]

CtxDone == parent \/ canceled

\* The call starts a goroutine for each projection, once freeze has returned.
Launch ==
    /\ main = "idle"
    /\ main' = "waiting"
    /\ stage' = [p \in Projection |-> "starting"]
    /\ UNCHANGED <<parent, canceled, errc, received, returned, outcome, running, aborted>>

\* A context that ended before the call is like one that ends right after it.
CancelParent ==
    /\ ~parent /\ main \notin {"idle", "returned"}
    /\ parent' = TRUE
    /\ UNCHANGED <<canceled, main, errc, received, returned, proj>>

(***************************************************************************)
(* Projections.                                                            *)
(***************************************************************************)
Stop(p, o) ==
    /\ stage' = [stage EXCEPT ![p] = "stopped"]
    /\ outcome' = [outcome EXCEPT ![p] = o]
    /\ errc' = Append(errc, o)

\* HTTP listens, MCP reads its input, the CLI invokes a tool.
Starts(p) ==
    /\ stage[p] = "starting"
    /\ stage' = [stage EXCEPT ![p] = "serving"]
    /\ running' = [running EXCEPT ![p] = IF Kind[p] = "cli" THEN 1 ELSE 0]
    /\ UNCHANGED <<parent, canceled, main, errc, received, returned, outcome, aborted>>

\* The port is taken, or the command line is wrong.
StartFails(p) ==
    /\ stage[p] = "starting" /\ Kind[p] # "mcp"
    /\ Stop(p, IF Kind[p] = "http" THEN "listen_error" ELSE "done")
    /\ UNCHANGED <<parent, canceled, main, received, returned, running, aborted>>

\* ListenAndServe fails while it serves; serveHTTP returns at once.
AcceptFails(p) ==
    /\ stage[p] = "serving" /\ Kind[p] = "http"
    /\ Stop(p, "accept_error")
    /\ UNCHANGED <<parent, canceled, main, received, returned, running, aborted>>

CallArrives(p) ==
    /\ stage[p] = "serving" /\ Kind[p] \in {"http", "mcp"}
    /\ running[p] < MaxCalls
    /\ running' = [running EXCEPT ![p] = @ + 1]
    /\ UNCHANGED <<parent, canceled, main, errc, received, returned, stage, outcome, aborted>>

CallEnds(p) ==
    /\ running[p] > 0
    /\ running' = [running EXCEPT ![p] = @ - 1]
    /\ UNCHANGED <<parent, canceled, main, errc, received, returned, stage, outcome, aborted>>

AbortedCallEnds(p) ==
    /\ aborted[p] > 0
    /\ aborted' = [aborted EXCEPT ![p] = @ - 1]
    /\ UNCHANGED <<parent, canceled, main, errc, received, returned, stage, outcome, running>>

\* serveCLI returns after its call.
CommandDone(p) ==
    /\ stage[p] = "serving" /\ Kind[p] = "cli" /\ running[p] = 0
    /\ Stop(p, "done")
    /\ UNCHANGED <<parent, canceled, main, received, returned, running, aborted>>

\* The context ends: HTTP shuts down, MCP cancels its calls and waits for them.  The
\* CLI looks at its context only inside the call.
Cancels(p) ==
    /\ CtxDone
    /\ Kind[p] \in {"http", "mcp"}
    /\ stage[p] \in {"starting", "serving"}
    /\ stage' = [stage EXCEPT ![p] = "draining"]
    /\ outcome' = [outcome EXCEPT ![p] = "canceled"]
    /\ UNCHANGED <<parent, canceled, main, errc, received, returned, running, aborted>>

\* MCP reads the end of its input.
InputEnds(p) ==
    /\ stage[p] = "serving" /\ Kind[p] = "mcp"
    /\ stage' = [stage EXCEPT ![p] = "draining"]
    /\ outcome' = [outcome EXCEPT ![p] = IF CtxDone THEN "canceled" ELSE "eof"]
    /\ UNCHANGED <<parent, canceled, main, errc, received, returned, running, aborted>>

\* Mutant: calls in flight are not waited for.
DrainedAtOnce(p) ==
    /\ stage[p] = "draining"
    /\ Stop(p, outcome[p])
    /\ UNCHANGED <<parent, canceled, main, received, returned, running, aborted>>

\* Shutdown returns, or wg.Wait does.
Drained(p) ==
    /\ stage[p] = "draining" /\ running[p] = 0
    /\ Stop(p, outcome[p])
    /\ UNCHANGED <<parent, canceled, main, received, returned, running, aborted>>

\* The shutdown timeout of serveHTTP: Close does not wait for handlers.
DrainTimesOut(p) ==
    /\ stage[p] = "draining" /\ Kind[p] = "http" /\ running[p] > 0
    /\ running' = [running EXCEPT ![p] = 0]
    /\ aborted' = [aborted EXCEPT ![p] = running[p]]
    /\ Stop(p, "deadline")
    /\ UNCHANGED <<parent, canceled, main, received, returned>>

(***************************************************************************)
(* ServeProjections itself.                                                *)
(***************************************************************************)
\* Mutant: the others are not canceled.
ReceiveFirstOnly ==
    /\ main = "waiting" /\ errc # <<>>
    /\ main' = "draining"
    /\ received' = 1
    /\ UNCHANGED <<parent, canceled, errc, returned, proj>>

ReceiveFirst ==
    /\ main = "waiting" /\ errc # <<>>
    /\ main' = "draining"
    /\ received' = 1
    /\ canceled' = TRUE
    /\ UNCHANGED <<parent, errc, returned, proj>>

ReceiveNext ==
    /\ main = "draining" /\ received < Len(errc)
    /\ received' = received + 1
    /\ UNCHANGED <<parent, canceled, main, errc, returned, proj>>

\* Mutant: the last result is returned.
ReturnLast ==
    /\ main = "draining" /\ received = N
    /\ main' = "returned"
    /\ returned' = errc[N]
    /\ UNCHANGED <<parent, canceled, errc, received, proj>>

Return ==
    /\ main = "draining" /\ received = N
    /\ main' = "returned"
    /\ returned' = errc[1]
    /\ UNCHANGED <<parent, canceled, errc, received, proj>>

ProjectionStep(p) ==
    \/ Starts(p) \/ StartFails(p) \/ CommandDone(p) \/ Cancels(p) \/ Drained(p)
    \/ DrainTimesOut(p)

ServeNext ==
    \/ Launch \/ CancelParent
    \/ \E p \in Projection :
          \/ ProjectionStep(p)
          \/ AcceptFails(p) \/ CallArrives(p) \/ CallEnds(p) \/ AbortedCallEnds(p)
          \/ InputEnds(p)
    \/ ReceiveFirst \/ ReceiveNext \/ Return

(***************************************************************************)
(* Goroutines go on, the select of a projection takes the end of its       *)
(* context at last, and so does the timer of a shutdown.  Handlers called  *)
(* by MCP and the CLI get that context and return some time after it ends; *)
(* HTTP handlers do not get it, and nothing is assumed of them.            *)
(***************************************************************************)
ServeFairness ==
    /\ \A p \in Projection :
          /\ WF_serveVars(ProjectionStep(p))
          /\ WF_serveVars(Kind[p] # "http" /\ CtxDone /\ CallEnds(p))
          /\ WF_serveVars(Cancels(p))
    /\ WF_serveVars(ReceiveFirst) /\ WF_serveVars(ReceiveNext) /\ WF_serveVars(Return)

ServeSpec == ServeInit /\ [][ServeNext]_serveVars /\ ServeFairness

(***************************************************************************)
(* Properties.                                                             *)
(***************************************************************************)
\* ServeProjections reports why it ended: unless the caller's context ended, it
\* returns the result of the projection that ended first, never the cancellation that
\* this one caused in another.
CauseReported == returned \in Consequence => parent

\* When ServeProjections has returned, every projection has stopped and no call is in
\* flight, except under an HTTP server that ran into its shutdown timeout or whose
\* listener failed.
CallsFinished ==
    main = "returned" =>
        \A p \in Projection :
            /\ stage[p] = "stopped"
            /\ running[p] > 0 => outcome[p] = "accept_error"
            /\ aborted[p] > 0 => outcome[p] = "deadline"

\* Once the caller's context ends, or a projection does, ServeProjections returns,
\* whatever HTTP handlers do.
ShutsDown == (parent \/ errc # <<>>) ~> main = "returned"
================================================================================
