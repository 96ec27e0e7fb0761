---------------------------- MODULE MCHttpEndpoint ----------------------------
(* Bounds for model-checking HttpEndpoint. *)
EXTENDS HttpEndpoint

\* A header that is sent, one with a value that cannot be, one with a reserved name, and
\* a binary trailer.
MCHeaderPair == {<<"x-id", "text">>, <<"x-id", "umlaut">>, <<"grpc-x", "text">>}
MCTrailerPair == {<<"x-sum-bin", "umlaut">>}

\* A limit below every error and result, one that a result with one block fills
\* exactly, and one that two blocks and their comma fill exactly.  The larger errors and
\* blocks are above the middle limit, which an error of the projection is not.
MCLimit == {1, 5, 8}
MCSize == {2, 6}
MCEmptySize == 3
MCOwnErrorSize == 4
================================================================================
