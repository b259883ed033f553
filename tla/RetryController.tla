--------------------------- MODULE RetryController ---------------------------
(***************************************************************************)
(* The retry controller of one logical Model request                       *)
(* (M.new_retry_controller, src/src/network.lua): which attempt may start, *)
(* and what the end of an attempt leads to - a redirect, a retry, the      *)
(* fallback from streaming, or the end of the request.                     *)
(*                                                                         *)
(* A controller is a record, a method of it an operator.  Time is kept as  *)
(* what the code asks of it: `late', whether the earliest deadline has     *)
(* come, and `due', whether the wait is over.  Whether a wait fits before  *)
(* the deadline and the cap of the Runtime is left open.                   *)
(***************************************************************************)
EXTENDS Naturals

CONSTANTS
  retry_count,       \* automatic retries that the Model allows
  maximum_redirects  \* of the release manifest

ASSUME RetryAssumption == retry_count \in Nat /\ maximum_redirects \in Nat

Controller ==
  [state : {"ready", "active", "waiting", "terminal"},
   retries : Nat, redirects : Nat, fallbacks : Nat, attempts : Nat,
   canonical : BOOLEAN,   \* a canonical event was observed
   due : BOOLEAN]         \* the wait has elapsed

NewController ==
  [state |-> "ready", retries |-> 0, redirects |-> 0, fallbacks |-> 0,
   attempts |-> 0, canonical |-> FALSE, due |-> FALSE]

AttemptLimit == 2 + retry_count + maximum_redirects

\* Categories of an ended attempt.  "follow", "rejected" and "unresolved" are
\* those of a 307 or 308, by what redirect_decision makes of its Location.
Retryable == {"dns", "connect", "tls", "limited"}
Never == {"body-outcome-unknown", "outcome-unknown", "verify", "refusal", "protocol", "cancel"}
Redirecting == {"follow", "rejected", "unresolved"}

Finished(c) == [c EXCEPT !.state = "terminal", !.due = FALSE]

Waiting(c, due) == [c EXCEPT !.state = "waiting", !.due = due]

\* start_attempt.  It is admitted if the controller answers active.
StartAttempt(c, late) ==
  IF c.state \notin {"ready", "waiting"} \/ (c.state = "waiting" /\ ~ c.due) THEN c
  ELSE IF late \/ c.attempts >= AttemptLimit THEN Finished(c)
  ELSE [c EXCEPT !.state = "active", !.attempts = @ + 1, !.due = FALSE]

ObserveCanonical(c) == IF c.state = "active" THEN [c EXCEPT !.canonical = TRUE] ELSE c

\* streaming_fallback
StreamingFallback(c, late) ==
  IF c.state # "active" THEN c
  ELSE IF c.canonical \/ c.fallbacks >= 1 \/ late THEN Finished(c)
  ELSE Waiting([c EXCEPT !.fallbacks = @ + 1], TRUE)

\* finish_attempt for a 307 or 308.  A Location that does not resolve leaves the
\* attempt active.
Redirect(c, category) ==
  IF c.canonical \/ c.redirects >= maximum_redirects \/ category = "rejected" THEN {Finished(c)}
  ELSE IF category = "unresolved" THEN {c}
  ELSE {Waiting([c EXCEPT !.redirects = @ + 1], TRUE)}

\* finish_attempt for an end that may be retried, unless the wait would be too long.
Retry(c, late) ==
  {Finished(c)} \cup
    IF c.canonical \/ c.retries >= retry_count \/ late THEN {}
    ELSE {Waiting([c EXCEPT !.retries = @ + 1], FALSE)}

FinishAttempt(c, category, late) ==
  IF c.state # "active" THEN {c}
  ELSE IF category \in Redirecting THEN Redirect(c, category)
  ELSE IF category \in Retryable THEN Retry(c, late)
  ELSE {Finished(c)}

\* cancel
CancelController(c) == IF c.state = "terminal" THEN c ELSE Finished(c)
=============================================================================
