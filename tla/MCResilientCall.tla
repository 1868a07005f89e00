---------------------------- MODULE MCResilientCall ----------------------------
(***************************************************************************)
(* Three calls of two attempts each share a breaker; one of them has a     *)
(* fallback.  The policy is shaped like _FLARE_POLICY of                   *)
(* scrape/cloudflare.py: one retryable type, one that must not be retried, *)
(* and one (a malformed envelope) that neither list names.                 *)
(***************************************************************************)
EXTENDS ResilientCall

CONSTANTS c1, c2, c3

MCCalls == {c1, c2, c3}
MCWithFallback == {c3}
MCExceptions == {"TimeoutError", "TransportError", "SolveError", "ValueError"}
MCRetryOn == {"TransportError"}
MCDoNotRetryOn == {"SolveError"}

===============================================================================
