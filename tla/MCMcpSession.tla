---------------------------- MODULE MCMcpSession ------------------------------
(* Instances of McpSession for TLC. *)
EXTENDS McpSession, TLC

CONSTANTS c1, c2, c3, k1, k2

TwoCalls == {c1, c2}
ThreeCalls == {c1, c2, c3}
OneKey == {k1}
TwoKeys == {k1, k2}

\* Calls are interchangeable; so are keys.
Symmetry == Permutations(Call) \cup Permutations(Key)
===============================================================================
