----------------------------- MODULE McpContract ------------------------------
(***************************************************************************)
(* What an MCP session promises its client about tools/call requests,      *)
(* without goroutines, locks or channels: a request that was accepted is   *)
(* either answered once or silenced by the client's own cancellation, and  *)
(* the session closes when none is left pending.                           *)
(***************************************************************************)
CONSTANT Call

VARIABLES
    status,     \* of a request: "idle", "pending", "answered", "silenced"
    phase       \* of the session: "open", "draining", "closed"

contractVars == <<status, phase>>

Init ==
    /\ status = [c \in Call |-> "idle"]
    /\ phase = "open"

Moves(c, from, to) ==
    /\ status[c] = from
    /\ status' = [status EXCEPT ![c] = to]
    /\ UNCHANGED phase

\* Requests are accepted, and cancellations heard, while the input is read.
Accept(c) == phase = "open" /\ Moves(c, "idle", "pending")
Silence(c) == phase = "open" /\ Moves(c, "pending", "silenced")

\* A response may come at any time before the session is closed.
Answer(c) == phase # "closed" /\ Moves(c, "pending", "answered")

Drain ==
    /\ phase = "open"
    /\ phase' = "draining"
    /\ UNCHANGED status

Close ==
    /\ phase = "draining"
    /\ \A c \in Call : status[c] # "pending"
    /\ phase' = "closed"
    /\ UNCHANGED status

Next ==
    \/ \E c \in Call : Accept(c) \/ Silence(c) \/ Answer(c)
    \/ Drain
    \/ Close

Spec == Init /\ [][Next]_contractVars
===============================================================================
