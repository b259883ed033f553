---------------------------- MODULE ModelActivity ----------------------------
(***************************************************************************)
(* One logical Model request at a time: the coordinator new_activity of    *)
(* src/src/model.lua over the retry controller and the curl attempts of    *)
(* src/src/network.lua, polled by the driver of src/src/runtime.lua for a  *)
(* loop that waits for one answer.                                         *)
(*                                                                         *)
(* A call of the service is one step; curl, the clock and the user act     *)
(* between two of them.  A call is a set of situations, the records that   *)
(* hold all it may change.  Of the output of the activity only its length  *)
(* is kept: the response is its last event.  What the Provider did with an *)
(* attempt is known to the model only, in `work'.                          *)
(*                                                                         *)
(* An operator marked `mutant' is a wrong version of the one after it, and *)
(* is used by nothing: it is put in its place to see a property fail.      *)
(***************************************************************************)
EXTENDS RetryController

CONSTANTS
  Budget,    \* model_poll_events of the driver
  MaxBurst   \* bound: events of a parsed response

ASSUME ActivityAssumption == Budget \in Nat \ {0} /\ MaxBurst \in Nat \ {0, 1}

VARIABLES
  request,   \* the loop waits for the answer of its request
  activity,  \* the active request of the service
  control,   \* its retry controller
  curl,      \* the process of the last attempt
  work,      \* what the Provider did with the last attempt
  late       \* the deadline of the request has come

vars == <<request, activity, control, curl, work, late>>

\* `session' is the response session; `output' what is queued and not yet drained.
Activity ==
  [state : {"idle", "created", "active", "waiting", "terminal"}, attempt : BOOLEAN,
   session : {"none", "open", "closed"}, cancel : BOOLEAN, try : BOOLEAN,
   fallbacks : Nat, output : Nat]

Idle ==
  [state |-> "idle", attempt |-> FALSE, session |-> "none", cancel |-> FALSE,
   try |-> FALSE, fallbacks |-> 0, output |-> 0]

Works == {"none", "open", "unsent", "refused", "redirected", "malformed", "taken"}

TypeOK ==
  /\ {request, late} \subseteq BOOLEAN
  /\ activity \in Activity /\ control \in Controller
  /\ curl \in {"none", "running", "ended"} /\ work \in Works

Now == [activity |-> activity, control |-> control, curl |-> curl, work |-> work]

Become(s) ==
  activity' = s.activity /\ control' = s.control /\ curl' = s.curl /\ work' = s.work
-------------------------------------------------------------------------------
\* What join tells of the end of curl, and what was made of its body.
Accepted == {"complete", "partial", "malformed"}
Answers == Accepted \cup Redirecting \cup {"limited", "refusal", "protocol"}
Harmless == {"unsent", "refused", "redirected"}
Unsent == {"dns", "connect", "tls"}

\* An end without an answer proves that nothing was sent only if no byte came
\* back and nothing of the attempt runs on.
Failures ==
  {r \in [exit : Unsent \cup {"verify", "other"}, end : {"exited", "cancelled", "unknown"},
          bytes : BOOLEAN, cut : BOOLEAN, answer : {"none"}, work : {"unsent", "taken"}] :
     r.exit \in Unsent /\ r.end = "exited" /\ ~ r.bytes /\ ~ r.cut => r.work = "unsent"}

WorkOf(answer) ==
  CASE answer = "limited" -> "refused"
    [] answer \in Redirecting -> "redirected"
    [] answer = "malformed" -> "malformed"
    [] OTHER -> "taken"

Completions ==
  {[exit |-> "ok", end |-> "exited", bytes |-> TRUE, cut |-> cut, answer |-> answer,
    work |-> WorkOf(answer)] : cut \in BOOLEAN, answer \in Answers}

\* mutant: an exit code is believed although bytes came back
CategoryByExit(r) ==
  CASE r.cut -> "body-outcome-unknown"
    [] ~ r.cut /\ r.end = "cancelled" -> "cancel"
    [] ~ r.cut /\ r.end = "exited" /\ r.exit = "ok" -> "completed"
    [] ~ r.cut /\ r.end = "exited" /\ r.exit \in Unsent \cup {"verify"} -> r.exit
    [] OTHER -> "outcome-unknown"

\* `cut' is a truncated body or descendants not proven stopped.
TransportCategory(r) ==
  CASE r.cut -> "body-outcome-unknown"
    [] ~ r.cut /\ r.end = "cancelled" -> "cancel"
    [] ~ r.cut /\ r.end = "exited" /\ r.exit = "ok" -> "completed"
    [] ~ r.cut /\ r.end = "exited" /\ r.exit # "ok" /\ r.bytes -> "body-outcome-unknown"
    [] ~ r.cut /\ r.end = "exited" /\ ~ r.bytes /\ r.exit \in Unsent \cup {"verify"} -> r.exit
    [] OTHER -> "outcome-unknown"
-------------------------------------------------------------------------------
\* finish_response with the n events of a terminal response.  A session that has
\* its response refuses another (ModelState), and poll drops the refusal.
Answer(s, n) ==
  IF s.activity.session = "closed" THEN s
  ELSE [s EXCEPT !.activity.state = "terminal", !.activity.session = "closed",
                 !.activity.output = n]

TransportError(s) == Answer(s, 2)
HttpError(s) == Answer(s, 2)
TerminalCancel(s) == Answer(s, 3)

\* mutant: the next attempt is given the response session of the last
SessionKept(s, c) == [s EXCEPT !.control = c, !.activity.state = "waiting"]

\* finish_retry, when the decision is to wait
Waits(s, c) ==
  [s EXCEPT !.control = c, !.activity.state = "waiting", !.activity.session = "none"]

\* start_attempt: refused before there is an attempt, failed, or running.
Attempted(s, deadline) ==
  LET c == StartAttempt(s.control, deadline)
      refused == [s EXCEPT !.control = c]
      ready == [refused EXCEPT !.activity.session = "open"]
      failed == [ready EXCEPT !.control = Finished(c), !.work = "taken"]
  IN IF c.state # "active" THEN {refused}
     ELSE {refused, ready, TransportError(failed)} \cup
            {[ready EXCEPT !.activity.state = "active", !.activity.attempt = TRUE,
                           !.curl = p, !.work = "open"] : p \in {"running", "ended"}}

\* finish_retry and the response to a decision that is not to wait
Decided(s, category, n) ==
  {IF c.state = "waiting" THEN Waits(s, c) ELSE Answer([s EXCEPT !.control = c], n) :
     c \in FinishAttempt(s.control, category, late)}

\* parse_provider_response.  A fallback that the deadline refuses comes after the
\* session has its response: nothing is queued, and the activity stays active.
MayFallBack(a, answer) ==
  answer = "malformed" /\ ~ a.cancel /\ a.try /\ a.fallbacks = 0

FallBack(s) ==
  LET c == StreamingFallback(s.control, late)
      parsed == [s EXCEPT !.activity.session = "closed"]
  IN IF c.state = "waiting"
     THEN [Waits(parsed, c) EXCEPT !.activity.fallbacks = @ + 1]
     ELSE [parsed EXCEPT !.control = c]

Parsed(s, answer) ==
  LET seen == IF answer = "malformed" THEN s.control ELSE ObserveCanonical(s.control)
      c == IF s.activity.cancel THEN s.control ELSE Finished(seen)
  IN IF MayFallBack(s.activity, answer) THEN {FallBack(s)}
     ELSE {Answer([s EXCEPT !.control = c], n) : n \in 2..MaxBurst}

\* process_http
Http(s, answer) ==
  IF answer \in Accepted THEN Parsed(s, answer)
  ELSE IF s.activity.cancel THEN {HttpError(s)}
  ELSE Decided(s, answer, 2)

\* process_terminal, once the attempt is joined and closed
Settled(s, r) ==
  LET category == TransportCategory(r)
  IN IF category = "completed" THEN Http(s, r.answer)
     ELSE IF s.activity.cancel
     THEN {IF category = "cancel" THEN TerminalCancel(s) ELSE TransportError(s)}
     ELSE Decided(s, category, IF category = "cancel" THEN 3 ELSE 2)

\* process_terminal: join and close, either of which may fail.
Terminal(s) ==
  LET closed == [s EXCEPT !.activity.attempt = FALSE, !.curl = "none", !.work = "taken"]
  IN Decided(closed, "outcome-unknown", 2) \cup
       UNION {Settled([closed EXCEPT !.work = r.work], r) : r \in Failures \cup Completions}

\* One poll of the attempt: nothing to tell, a failure, or the end.
AttemptPolled(s) ==
  {s} \cup Decided(s, "outcome-unknown", 2) \cup
    IF s.curl = "ended" THEN Terminal(s) ELSE {}

\* mutant: an attempt that may not start is not made a response
StartRefused(s) == s

\* poll, when start_attempt was refused in a wait
Resumed(s) == IF s.activity.state = "waiting" THEN TransportError(s) ELSE s

Advanced(s) ==
  LET started == IF s.activity.state = "waiting"
                 THEN {Resumed(t) : t \in Attempted(s, late)} ELSE {s}
  IN UNION {IF t.activity.state = "active" THEN AttemptPolled(t) ELSE {t} : t \in started}
-------------------------------------------------------------------------------
Init ==
  /\ request = FALSE /\ late = FALSE
  /\ activity = Idle /\ control = NewController /\ curl = "none" /\ work = "none"

\* service.start, which the loop calls when it waits for nothing.  Deadlines are
\* those of the request.  A refusal ends the turn of the loop.
Start ==
  /\ ~ request /\ activity.state = "idle"
  /\ \E try \in BOOLEAN :
       \E s \in Attempted([Now EXCEPT !.activity = [Idle EXCEPT !.state = "created", !.try = try],
                                      !.control = NewController, !.work = "none"], FALSE) :
         IF s.activity.state = "created"
         THEN UNCHANGED vars
         ELSE Become(s) /\ request' = TRUE /\ late' = FALSE

Released(s) == s.activity.state = "terminal" /\ s.activity.output = 0

\* drain of the events that are left in the budget, and the loop that takes them:
\* with the last of a terminal activity it has its answer.
Drained(s, n) ==
  [s EXCEPT !.activity.output = IF @ > n THEN @ - n ELSE 0]

Deliver(s) ==
  /\ request' = ~ Released(s)
  /\ Become(IF Released(s) THEN [s EXCEPT !.activity = Idle] ELSE s)

\* poll with a full budget of output: it returns before it looks at the state.
PollFull ==
  /\ request /\ activity.output >= Budget
  /\ LET s == Drained(Now, Budget)
     IN Become(s) /\ request' = ~ Released(s)
  /\ UNCHANGED late

\* poll of a terminal activity, which is released
PollTerminal ==
  /\ request /\ activity.state = "terminal" /\ activity.output < Budget
  /\ Deliver(Drained(Now, Budget))
  /\ UNCHANGED late

\* poll that advances the request.  A wait that is not over, and an active
\* request without an attempt, whose poll raises, change nothing.
PollActive ==
  /\ request /\ activity.output < Budget
  /\ \/ activity.state = "waiting" /\ control.due
     \/ activity.state = "active" /\ activity.attempt
  /\ \E s \in Advanced(Now) : Deliver(Drained(s, Budget - activity.output))
  /\ UNCHANGED late

\* service.cancel for the request of the loop.  Whether the attempt takes it, or
\* raises, the answer comes by poll.
Cancel ==
  /\ request
  /\ control' = CancelController(control)
  /\ IF activity.state = "waiting" \/ ~ activity.attempt
     THEN activity' = Idle /\ request' = FALSE
     ELSE activity' = [activity EXCEPT !.cancel = TRUE] /\ UNCHANGED request
  /\ UNCHANGED <<curl, work, late>>

\* curl ends: by itself, by its max-time, or killed.
CurlEnds == curl = "running" /\ curl' = "ended" /\ UNCHANGED <<request, activity, control, work, late>>

Elapse ==
  /\ control.state = "waiting" /\ ~ control.due
  /\ control' = [control EXCEPT !.due = TRUE]
  /\ UNCHANGED <<request, activity, curl, work, late>>

\* A wait ends before the deadline.
Deadline ==
  /\ request /\ ~ late /\ late' = TRUE
  /\ control' = [control EXCEPT !.due = (control.state = "waiting")]
  /\ UNCHANGED <<request, activity, curl, work>>

Poll == PollFull \/ PollTerminal \/ PollActive

Next == Start \/ Poll \/ Cancel \/ CurlEnds \/ Elapse \/ Deadline

Spec == Init /\ [][Next]_vars

\* The driver polls as long as the loop waits, and curl has a max-time.
FairSpec == Spec /\ WF_vars(Poll) /\ WF_vars(CurlEnds) /\ WF_vars(Elapse)
-------------------------------------------------------------------------------
\* The fallback was refused at the deadline: the response session has its response
\* and gives no other, the activity stays active without an attempt.
Stranded == activity.state = "active" /\ ~ activity.attempt

\* No attempt repeats what the Provider may have done: one that follows another is
\* started only if that was never sent, was refused or redirected, or was a stream
\* without one canonical event; and none is started once the user cancelled.
NoReplay ==
  [][activity.state # "idle" /\ control'.attempts > control.attempts =>
       work \in Harmless \cup {"malformed"} /\ ~ activity.cancel]_vars

\* The loop waits exactly while its response is to come, and the activity, the
\* controller and the attempt are at the same point of the request.  With the
\* response the activity is released, unless it filled the budget of its last
\* poll: it then stays terminal, and the service refuses every later request.
SamePoint ==
  /\ request <=> activity.state \in {"active", "waiting"} \/ activity.output > 0
  /\ activity.state = "waiting" <=> control.state = "waiting"
  /\ activity.attempt /\ activity.state = "active" =>
       control.state = (IF activity.cancel THEN "terminal" ELSE "active")
  /\ request => activity.fallbacks = control.fallbacks
  /\ curl # "none" /\ activity.attempt => activity.session # "none"

\* Every retry, redirect and fallback follows an attempt of its own, within its
\* limit: the limit on attempts as such is never what stops a request.
AttemptsAccounted ==
  LET again == control.retries + control.redirects + control.fallbacks
  IN /\ control.retries <= retry_count /\ control.redirects <= maximum_redirects
     /\ control.fallbacks <= 1
     /\ again <= control.attempts
     /\ control.attempts <= again + (IF control.state = "waiting" THEN 0 ELSE 1)

RequestHeld == SamePoint /\ AttemptsAccounted

\* Every request is answered, by a response or a cancellation, unless it is stranded.
RequestEnds == request ~> (~ request \/ Stranded)
=============================================================================
