----------------------------- MODULE ConnectErrors -----------------------------
(***************************************************************************)
(* Errors on the wire: go/errors.go, which turns a Go error into a Connect *)
(* error body and an HTTP status, and the reverse in go/http_client.go.    *)
(***************************************************************************)
EXTENDS Naturals

\* The codes of google.golang.org/grpc/codes but OK, and one that has no name there.
Code == {"canceled", "unknown", "invalid_argument", "deadline_exceeded", "not_found",
         "already_exists", "permission_denied", "resource_exhausted", "failed_precondition",
         "aborted", "out_of_range", "unimplemented", "internal", "unavailable", "data_loss",
         "unauthenticated", "unregistered"}
ContextCode == {"canceled", "deadline_exceeded"}

\* An error that a handler returns: a status, a context error, possibly wrapped, or any
\* other error.
HandlerError == [kind : {"status"}, code : Code] \cup [kind : {"context"}, code : ContextCode]
                    \cup [kind : {"plain"}]

\* statusFromError, which agrees with normalizeContextError on context errors.
statusFromError(err) == IF err.kind = "plain" THEN "unknown" ELSE err.code

\* The names of google.rpc.Code in lower case.
codepbName(code) ==
    CASE code = "canceled" -> "cancelled"
      [] code = "unregistered" -> "Code("
      [] OTHER -> code

grpcCodeName(code) ==
    IF code = "canceled" THEN "canceled"
    ELSE IF codepbName(code) = "Code(" THEN "unknown" ELSE codepbName(code)

grpcCodeToHTTPStatus(code) ==
    CASE code = "canceled" -> 499
      [] code \in {"invalid_argument", "failed_precondition", "out_of_range"} -> 400
      [] code = "deadline_exceeded" -> 504
      [] code = "not_found" -> 404
      [] code \in {"already_exists", "aborted"} -> 409
      [] code = "permission_denied" -> 403
      [] code = "resource_exhausted" -> 429
      [] code = "unimplemented" -> 501
      [] code = "unavailable" -> 503
      [] code = "unauthenticated" -> 401
      [] code \in {"unknown", "internal", "data_loss", "unregistered"} -> 500

grpcCodeFromHTTPStatus(status) ==
    CASE status = 400 -> "internal"
      [] status = 404 -> "unimplemented"
      [] status = 403 -> "permission_denied"
      [] status \in {429, 502, 503, 504} -> "unavailable"
      [] status = 401 -> "unauthenticated"
      [] OTHER -> "unknown"

\* Mutant: the loop starts one code late.
connectCodeFromSecond(name) ==
    {c \in Code \ {"canceled", "unregistered"} : grpcCodeName(c) = name}

\* The codes with this name; at most one.
connectCodeFromName(name) == {c \in Code \ {"unregistered"} : grpcCodeName(c) = name}

\* The code that a client of this repository reports for a response that is an error;
\* the name is that in the body, or none.
httpClientError(status, name) ==
    IF connectCodeFromName(name) # {} THEN CHOOSE c \in connectCodeFromName(name) : TRUE
    ELSE grpcCodeFromHTTPStatus(status)
================================================================================
