--------------------------- MODULE ProviderCalls ---------------------------
(***************************************************************************)
(* One HTTP exchange as the adapters report it.  The data of requests and  *)
(* answers is abstracted to the distinctions the transport and the         *)
(* adapters make between answers:                                          *)
(*   ack         expected status, acknowledgement complete                 *)
(*   incomplete  expected status, object without the identifiers asked for *)
(*   notObject   expected status, JSON that is not an object               *)
(*   garbled     body that is not JSON, or longer than the limit           *)
(*   httpError   any other status                                          *)
(*   timeout     TimeoutError or URLError                                  *)
(*   reset       connection lost after the request was written: an OSError *)
(*               or HTTPException that urllib does not wrap in a URLError  *)
(***************************************************************************)

Providers == {"trello", "ghl", "discord"}
Replies == {"ack", "incomplete", "notObject", "garbled", "httpError",
            "timeout", "reset"}

\* Success statuses are sent by a provider that has applied the request.
AppliedReplies == {"ack", "incomplete", "notObject"}

\* What the docs call a malformed acknowledgement of a mutation.
MalformedReplies == {"incomplete", "notObject", "garbled"}

\* What an adapter call ends with: "ok" a value, "ambiguous"
\* AmbiguousEffectError, "error" any other ProviderError, "escaped" an
\* exception that is neither.
Results == {"ok", "ambiguous", "error", "escaped"}

\* Mutated form: AmbiguousEffectError is a ProviderError, and a caller that
\* tests the base class first never sees it.
AmbiguityLost(provider) == {}

\* Replies to a mutation that become AmbiguousEffectError.  A body that is
\* not an object is one only for Trello (_mutation_record); http.py itself
\* raises it for timeouts alone.
AmbiguousReplies(provider) ==
  {"timeout", "incomplete"} \cup
  (IF provider = "trello" THEN {"notObject"} ELSE {})

\* POST and PUT: HttpTransport.request, require_success and the adapter.
MutationResult(provider, reply) ==
  CASE reply = "ack" -> "ok"
    [] reply = "reset" -> "escaped"
    [] reply \in AmbiguousReplies(provider) -> "ambiguous"
    [] OTHER -> "error"

\* GET: nothing is ambiguous.
ReadResult(reply) ==
  CASE reply = "ack" -> "ok"
    [] reply = "reset" -> "escaped"
    [] OTHER -> "error"

=============================================================================
