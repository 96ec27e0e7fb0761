------------------------------- MODULE MCServer -------------------------------
(***************************************************************************)
(* An instance of ServerRegistry and ServeProjections for TLC: a server is *)
(* set up, and one of its goroutines calls ServeProjections.               *)
(***************************************************************************)
EXTENDS ServerRegistry, ServeProjections, TLC

\* Two services of the descriptor, one that is infrastructure, one whose generated
\* code was built from another descriptor, and reflection.
MCService == {"A", "B", "health", "stale", "reflection"}
MCMethod == {"A.get", "A.watch", "A.push", "B.get", "stale.get"}
Owner == ("A.get" :> "A" @@ "A.watch" :> "A" @@ "A.push" :> "A" @@ "B.get" :> "B"
              @@ "stale.get" :> "stale")
MethodKind == ("A.get" :> "unary" @@ "A.watch" :> "server_stream" @@ "A.push" :> "client_stream"
             @@ "B.get" :> "unary" @@ "stale.get" :> "unary")

\* Generated registrations, and connections that offer overlapping services.
MCGroup == {"regA", "regHealth", "regStale", "regReflection", "connBA", "connB"}
MCConnection == {"connBA", "connB"}
Offered == ("regA" :> <<"A">> @@ "regHealth" :> <<"health">> @@ "regStale" :> <<"stale">>
             @@ "regReflection" :> <<"reflection">>
             @@ "connBA" :> <<"B", "A">> @@ "connB" :> <<"B">>)

MCPattern == {"A.*", "*.get"}
Matched == ("A.*" :> {"A.get", "A.watch", "A.push"}
              @@ "*.get" :> {"A.get", "B.get", "stale.get"})

\* An HTTP server, an MCP session and a command.
ProjectionKind == ("http" :> "http" @@ "mcp" :> "mcp" @@ "cli" :> "cli")

\* TLC evaluates a definition once, and a constant's replacement each time it is used.
MCOwnerOf == Owner
MCKindOf == MethodKind
MCOffers == Offered
MCMatches == Matched
MCKind == ProjectionKind

(***************************************************************************)
(* ServeProjections is called when freeze has returned.  Bound: it is      *)
(* called by one goroutine, on a server with nothing registered, while the *)
(* others are idle, for what it does depends on nothing of that.           *)
(***************************************************************************)
Caller == CHOOSE t \in Thread : TRUE
Frozen ==
    /\ frozen
    /\ pc = [t \in Thread |-> IF t = Caller THEN "serving" ELSE "idle"]
    /\ setup = <<{}, {}, DefaultCap, [m \in Method |-> 0], <<>>,
                [s \in Service |-> NoGroup], Builtin, {}>>

MCInit == Init /\ ServeInit
MCNext ==
    \/ main = "idle" /\ Next /\ UNCHANGED serveVars
    \/ Frozen /\ ServeNext /\ UNCHANGED vars
    \/ main = "returned" /\ UNCHANGED <<vars, serveVars>>
MCSpec == MCInit /\ [][MCNext]_<<vars, serveVars>> /\ Fairness /\ ServeFairness
================================================================================
