----------------------------- MODULE Compaction -----------------------------
(***************************************************************************)
(* The compaction of a Context: its service (src/src/compact.lua), the     *)
(* Model port it asks for a summary (src/src/model.lua), the journal it    *)
(* writes to (src/src/session.lua), the gate that gives it the lane of the *)
(* AgentLoop (src/src/runtime.lua) and the owner and rounds of the         *)
(* coordinator that drive them (src/src/main.lua), with crashes and the    *)
(* recovery of the next open.                                              *)
(*                                                                         *)
(* Nothing runs in parallel, but a compaction lasts many rounds, the user  *)
(* acts between them, and the process may end at each of its commits.  A   *)
(* call of the coordinator is cut at its commits: `call' says what it does *)
(* next.  Of the loop only its turn is kept: idle, waiting for the user,   *)
(* deferred behind an automatic compaction, or at work.  What a commit     *)
(* appends is a number of facts; a view is the summary it begins with and  *)
(* the facts it was made from.  A generation of the Context is only ever   *)
(* compared with the present one: what the service knows of it is kept as  *)
(* whether it is stale.  The loop is halted as soon as it may be.          *)
(*                                                                         *)
(* An operator marked `mutant' is a wrong version of the one after it, and *)
(* is used by nothing: it is put in its place to see a property fail.      *)
(***************************************************************************)
EXTENDS Naturals

CONSTANTS
  MaxCompactions,    \* bound: lifecycles of the Context
  MaxFacts,          \* bound: commits of the loop for its turns
  maximum_attempts,  \* of the compaction manifest
  failure_threshold  \* automatic failures that open the circuit

ASSUME CompactionAssumption ==
  /\ MaxCompactions \in Nat /\ MaxFacts \in Nat
  /\ maximum_attempts \in Nat \ {0} /\ failure_threshold \in Nat \ {0}

VARIABLES
  context,   \* durable: facts, open turn, view, last lifecycle and count, streak
  loop,      \* the AgentLoop: its waterline, halt, turn and compaction gate
  service,   \* the compaction service
  port,      \* its Model request
  call,      \* what the call at hand commits next
  program,   \* the coordinator's lifecycle
  clock,     \* what has run out: the active time, the cooldown
  lost       \* a commit was not acknowledged

vars == <<context, loop, service, port, call, program, clock, lost>>

-----------------------------------------------------------------------------
Modes == {"manual", "automatic"}
Reasons == {"compaction-active-time", "compaction-process-recovery",
            "user-cancel", "application-close"}

InitialView == [summary |-> 0, facts |-> 0]

\* What the records of a lifecycle say while it is open; how it ended is in the
\* streak of failures and the view.
NoLife == [mode |-> "none", attempt |-> 0, response |-> FALSE, cancel |-> "none",
           view |-> InitialView, source |-> 0]

NoGate == [mode |-> "none", phase |-> "none"]
NoLoop == [halted |-> FALSE, turn |-> "idle", gate |-> NoGate]

\* state, and of its `active' the mode, attempt, cancel reason and generation of
\* the Context; failures and circuit outlive it.
NoService == [state |-> "none", mode |-> "none", attempt |-> 0, stale |-> FALSE,
              reason |-> "none", failures |-> 0, circuit |-> "closed"]

AtRest == [at |-> "rest", with |-> "none", by |-> "none"]
NotYet == [late |-> FALSE, cooled |-> FALSE]

Gated == loop.gate # NoGate

\* The last lifecycle has not ended.
Pending == context.life # NoLife

Init ==
  /\ context = [facts |-> 0, turn |-> FALSE, view |-> InitialView,
                life |-> NoLife, compactions |-> 0, failures |-> 0]
  /\ loop = NoLoop
  /\ service = NoService
  /\ port = "idle" /\ call = AtRest /\ program = "running"
  /\ clock = NotYet /\ lost = FALSE

-----------------------------------------------------------------------------
(* Errors.  What the coordinator does with one depends on who made the     *)
(* call: a command shows it, a round ends the program, a close gives up.   *)

AfterError(by) ==
  IF by = "command" THEN program
  ELSE IF program = "running" THEN "closing" ELSE "failed"

Error(by) == call' = AtRest /\ program' = AfterError(by)

\* durability_failure, and what commit of compact.lua does when the journal fails.
Barrier ==
  /\ loop' = [loop EXCEPT !.halted = TRUE]
  /\ service' = [service EXCEPT !.state = "Unknown", !.attempt = 0, !.mode = "none",
                                !.stale = FALSE, !.reason = "none"]
  /\ Error(call.by)

-----------------------------------------------------------------------------
(* The journal.                                                            *)

Current == ~service.stale

\* lifecycle_for and the conditions of each kind of record on its lifecycle.
Follows(kind) ==
  CASE kind = "request" ->
         IF service.attempt = 0 THEN ~Pending ELSE context.life.attempt = service.attempt
    [] kind = "response" -> Pending /\ ~context.life.response
    [] kind = "rejection" -> Pending
    [] kind = "cancel" -> Pending /\ context.life.cancel = "none"
    [] kind = "cancelled" -> Pending /\ context.life.cancel = service.reason
    [] kind = "publication" -> Pending /\ context.life.response

\* The phases of the gate from which adopt_compaction_receipt takes a record.
Phases == [request |-> {"opened", "retry"}, response |-> {"request"},
           rejection |-> {"request", "response"}, cancel |-> {"request"},
           cancelled |-> {"cancelling"}, publication |-> {"response"}]

Admitted(kind) == Current /\ Follows(kind)

\* adopt_compaction_receipt: the order and the waterline of what is durable.
Adopted(kind) ==
  ~loop.halted /\ loop.gate.phase \in Phases[kind] /\ ~service.stale

Commits(kind, new) ==
  /\ Admitted(kind) /\ Adopted(kind)
  /\ context' = new
  /\ UNCHANGED lost

Advances(phase) == loop' = [loop EXCEPT !.gate.phase = phase]

\* Refused, or out of order for the loop, or not acknowledged.  A journal that
\* failed before refuses every record.
Breaks(kind, new) ==
  /\ \/ /\ ~(Admitted(kind) /\ Adopted(kind))
        /\ context' \in {context} \cup (IF Admitted(kind) THEN {new} ELSE {})
        /\ UNCHANGED lost
     \/ /\ Admitted(kind) /\ ~lost /\ lost' = TRUE
        /\ context' \in {context, new}
  /\ Barrier
  /\ UNCHANGED clock

Ended(new) == [new EXCEPT !.life = NoLife]

\* automatic_failure_count, as the scan of the Facts counts it.
Counted(new, failed) ==
  [new EXCEPT !.failures = IF failed /\ context.life.mode = "automatic" THEN @ + 1 ELSE @]

\* A commit of the loop itself that is not acknowledged.
Unacknowledged(new) ==
  /\ ~lost /\ lost' = TRUE
  /\ context' \in {context, new}
  /\ loop' = [loop EXCEPT !.halted = TRUE]

-----------------------------------------------------------------------------
(* The end of a compaction: settle of the owner and finish_compaction of   *)
(* the loop.  A request deferred behind it goes out or waits for the user. *)

Ends(then) ==
  /\ loop' = [loop EXCEPT !.gate = NoGate]
  /\ call' = IF loop.gate.mode = "automatic" /\ call.by # "close"
             THEN [AtRest EXCEPT !.at = "resolve", !.with = then, !.by = call.by]
             ELSE AtRest

Inactive(s, state) ==
  [s EXCEPT !.state = state, !.mode = "none", !.attempt = 0, !.stale = FALSE,
            !.reason = "none"]

\* mark_automatic_failure: the circuit opens, for one cooldown.
Failed(s) ==
  LET counts == s.mode = "automatic" IN
  [s EXCEPT !.failures = IF counts THEN @ + 1 ELSE @,
            !.circuit = IF counts /\ s.failures + 1 >= failure_threshold
                        THEN "open" ELSE @]

Over(failed) ==
  clock' = [late |-> FALSE,
            cooled |-> clock.cooled /\ ~(failed /\ service.mode = "automatic")]

-----------------------------------------------------------------------------
(* Begin: owner:begin over ensure_service, begin_compaction and begin.     *)

NewService ==
  [NoService EXCEPT !.state = "Idle", !.failures = context.failures,
                    !.circuit = IF context.failures >= failure_threshold
                                THEN "recovered" ELSE "closed"]

EnsureService == IF service.state = "none" THEN NewService ELSE service

Admits(mode) ==
  /\ program = "running" /\ call = AtRest /\ ~loop.halted /\ ~Gated
  /\ IF mode = "automatic" THEN loop.turn = "deferred"
                           ELSE loop.turn \in {"idle", "waiting"}

Driver(mode) == IF mode = "automatic" THEN "round" ELSE "command"

\* A plan that fits, or nothing to do: the lane is given back at once.
Declines(mode, then) ==
  /\ call' = IF mode = "automatic" THEN [at |-> "resolve", with |-> then, by |-> "round"]
                                   ELSE AtRest
  /\ UNCHANGED <<context, loop, port, program, lost>>

Suppressed(s) == s.circuit = "open" /\ ~clock.cooled

\* mutant: a probe starts a streak of its own.
Forgetful(s) ==
  IF s.circuit = "recovered" THEN [s EXCEPT !.circuit = "open"]
  ELSE IF s.circuit = "open" /\ clock.cooled
  THEN [s EXCEPT !.circuit = "closed", !.failures = 0]
  ELSE s

\* The circuit as begin leaves it: a recovered one is open from now on, one
\* that has cooled lets a probe through.
Circuit(s) ==
  IF s.circuit = "recovered" THEN [s EXCEPT !.circuit = "open"]
  ELSE IF s.circuit = "open" /\ clock.cooled
  THEN [s EXCEPT !.circuit = "closed", !.failures = failure_threshold - 1]
  ELSE s

\* The prior generation of the configuration has a service that is not idle.
BeginRefused ==
  /\ Admits("automatic") /\ service.state = "replaced"
  /\ Error(Driver("automatic"))
  /\ UNCHANGED <<context, loop, service, port, clock, lost>>

\* The plan needs no request, or cannot be made, or the service is Unknown.
BeginDeclined(mode) ==
  /\ Admits(mode) /\ service.state # "replaced"
  /\ service' = EnsureService
  /\ \E then \in IF service'.state = "Idle" THEN {"go", "wait"} ELSE {"wait"} :
        Declines(mode, then)
  /\ UNCHANGED clock

BeginSuppressed ==
  /\ Admits("automatic") /\ EnsureService.state = "Idle"
  /\ EnsureService.circuit = "recovered" \/ Suppressed(EnsureService)
  /\ service' = Circuit(EnsureService)
  /\ clock' = [clock EXCEPT !.cooled = FALSE]
  /\ Declines("automatic", "wait")

BeginCompaction(mode) ==
  /\ Admits(mode) /\ EnsureService.state = "Idle" /\ context.compactions < MaxCompactions
  /\ LET s == IF mode = "automatic" THEN Circuit(EnsureService) ELSE EnsureService IN
     /\ mode = "automatic" =>
          EnsureService.circuit # "recovered" /\ ~Suppressed(EnsureService)
     /\ service' = [s EXCEPT !.mode = mode]
  /\ loop' = [loop EXCEPT !.gate = [mode |-> mode, phase |-> "opened"]]
  /\ call' = [at |-> "request", with |-> "none", by |-> Driver(mode)]
  /\ clock' = [clock EXCEPT !.late = FALSE]
  /\ UNCHANGED <<context, port, program, lost>>

-----------------------------------------------------------------------------
(* The commits of the service, one action each.                            *)

NewLife == [mode |-> service.mode, attempt |-> 1, response |-> FALSE,
            cancel |-> "none", view |-> context.view, source |-> context.facts]

Request ==
  IF service.attempt = 0
  THEN [context EXCEPT !.life = NewLife, !.compactions = @ + 1]
  ELSE [context EXCEPT !.life.attempt = @ + 1, !.life.response = FALSE]

\* start_request: the intent, then model.start.
CommitRequest ==
  /\ call.at = "request"
  /\ \/ /\ Commits("request", Request)
        /\ Advances("request")
        /\ service' = [service EXCEPT !.state = "Compacting", !.attempt = @ + 1]
        /\ \/ port = "idle" /\ port' = "active" /\ call' = AtRest
           \/ UNCHANGED port /\ call' = [call EXCEPT !.at = "rejection"]
        /\ UNCHANGED <<program, clock>>
     \/ Breaks("request", Request) /\ UNCHANGED port

\* The Context has no room for the first intent: nothing was begun.
RequestRefused ==
  /\ call.at = "request" /\ service.attempt = 0
  /\ service' = Inactive(service, "Idle")
  /\ Ends("wait")
  /\ UNCHANGED <<context, port, program, clock, lost>>

\* reject_attempt: the next attempt, or the user has to decide.
CommitRejection ==
  LET last == service.attempt >= maximum_attempts
      new == IF last THEN Counted(Ended(context), TRUE) ELSE context IN
  /\ call.at = "rejection"
  /\ \/ /\ Commits("rejection", new)
        /\ IF last
           THEN /\ service' = Inactive(Failed(service), "Idle")
                /\ Ends("wait") /\ Over(TRUE)
           ELSE /\ Advances("retry") /\ call' = [call EXCEPT !.at = "request"]
                /\ UNCHANGED <<service, clock>>
        /\ UNCHANGED <<port, program>>
     \/ Breaks("rejection", new) /\ UNCHANGED port

\* accept_response of a summary that is valid; it may still bring no benefit.
CommitResponse ==
  LET new == [context EXCEPT !.life.response = TRUE] IN
  /\ call.at = "response"
  /\ \/ /\ Commits("response", new)
        /\ Advances("response")
        /\ \E next \in {"publication", "rejection"} : call' = [call EXCEPT !.at = next]
        /\ UNCHANGED <<service, port, program, clock>>
     \/ Breaks("response", new) /\ UNCHANGED port

Summary == [summary |-> context.compactions, facts |-> context.life.source]

\* The summary and the view that begins with it, in one generation.
Publish ==
  LET new == [Ended(context) EXCEPT !.view = Summary, !.failures = 0] IN
  /\ call.at = "publication"
  /\ \/ /\ Commits("publication", new)
        /\ service' = [Inactive(service, "Idle") EXCEPT !.failures = 0,
                                                       !.circuit = "closed"]
        /\ Ends("go") /\ Over(FALSE)
        /\ UNCHANGED <<port, program>>
     \/ Breaks("publication", new) /\ UNCHANGED port

\* cancel: the intent to cancel, then model.cancel.
CommitCancel ==
  LET new == [context EXCEPT !.life.cancel = call.with] IN
  /\ call.at = "cancel"
  /\ \/ /\ Commits("cancel", new)
        /\ Advances("cancelling")
        /\ \/ /\ port = "active" /\ port' = "cancelling"
              /\ service' = [service EXCEPT !.state = "Cancelling", !.reason = call.with]
              /\ call' = AtRest
              /\ program' = IF call.by = "close" THEN "settling" ELSE program
           \/ \E outcome \in {"cancelled", "unknown"} :
                /\ outcome = "cancelled" => port = "active"
                /\ port' = IF outcome = "cancelled" THEN "idle" ELSE port
                /\ service' = [service EXCEPT !.reason = call.with]
                /\ call' = [call EXCEPT !.at = "cancelled", !.with = outcome]
                /\ UNCHANGED program
        /\ UNCHANGED clock
     \/ Breaks("cancel", new) /\ port' \in {port} \cup
          (IF port = "active" THEN {"idle", "cancelling"} ELSE {})

\* finish_cancel.  An unknown outcome leaves the service Unknown for good.
AlwaysIdle(outcome) == "Idle"   \* mutant: the service is idle whatever the outcome

FinishedState(outcome) == IF outcome = "unknown" THEN "Unknown" ELSE "Idle"

CommitCancelled ==
  LET late == service.reason = "compaction-active-time"
      new == Counted(Ended(context), late) IN
  /\ call.at = "cancelled"
  /\ \/ /\ Commits("cancelled", new)
        /\ service' = Inactive(IF late THEN Failed(service) ELSE service,
                               FinishedState(call.with))
        /\ Ends("wait") /\ Over(late)
        /\ UNCHANGED <<port, program>>
     \/ Breaks("cancelled", new) /\ UNCHANGED port

\* resolve_compaction_preflight: the deferred request, with a view of every
\* fact so far; or the turn waits for the user.
Resolve ==
  /\ call.at = "resolve"
  /\ IF call.with = "go"
     THEN LET new == [context EXCEPT !.view.facts = context.facts] IN
          \/ /\ context' = new
             /\ loop' = [loop EXCEPT !.turn = "working"]
             /\ call' = AtRest /\ UNCHANGED <<program, lost>>
          \/ /\ Unacknowledged(new)
             /\ Error(call.by)
     ELSE /\ loop' = [loop EXCEPT !.turn = "waiting"]
          /\ call' = AtRest /\ UNCHANGED <<context, program, lost>>
  /\ UNCHANGED <<service, port, clock>>

-----------------------------------------------------------------------------
(* The rounds: drive_compaction over poll of the owner, its tick first.    *)

Polls == program \in {"running", "settling"} /\ call = AtRest /\ Gated

NeverDue(state) == FALSE   \* mutant: a tick that does not look at the time

\* The active time of the compaction is over.
Due(state) == clock.late /\ service.state = state

Continues(at, with, by) == call' = [at |-> at, with |-> with, by |-> by]

\* tick: it cancels what runs out of time; a cancellation that has no answer
\* by then is unknown, and the port is not asked again.
Tick ==
  /\ Polls
  /\ \/ Due("Compacting") /\ Continues("cancel", "compaction-active-time", "round")
     \/ Due("Cancelling") /\ Continues("cancelled", "unknown", "round")
  /\ UNCHANGED <<context, loop, service, port, program, clock, lost>>

OnTime == ~Due("Compacting") /\ ~Due("Cancelling")

\* A response: valid or not, or too late; or none the service waits for.
Answer ==
  /\ Polls /\ OnTime /\ port = "active" /\ port' = "idle"
  /\ \/ /\ service.state = "Compacting"
        /\ \/ \E next \in {"response", "rejection"} : Continues(next, "none", "round")
              /\ UNCHANGED clock
           \/ /\ Continues("cancel", "compaction-active-time", "round")
              /\ clock' = [clock EXCEPT !.late = TRUE]
        /\ UNCHANGED program
     \/ service.state # "Compacting" /\ Error("round") /\ UNCHANGED clock
  /\ UNCHANGED <<context, loop, service, lost>>

\* A response to a request that is being cancelled settles the cancellation.
Settle ==
  /\ Polls /\ OnTime /\ port = "cancelling" /\ port' = "idle"
  /\ \/ /\ service.state = "Cancelling"
        /\ \E outcome \in {"cancelled", "unknown"} : Continues("cancelled", outcome, "round")
        /\ UNCHANGED program
     \/ service.state # "Cancelling" /\ Error("round")
  /\ UNCHANGED <<context, loop, service, clock, lost>>

\* The activity fails, or its response is not bound to the request.
PollFails ==
  /\ Polls /\ OnTime /\ port # "idle" /\ port' \in {port, "idle"}
  /\ Error("round")
  /\ UNCHANGED <<context, loop, service, clock, lost>>

\* cancel, typed: refused, and only that, once the request is being cancelled.
CancelCommand ==
  /\ program = "running" /\ call = AtRest /\ Gated /\ service.state = "Compacting"
  /\ Continues("cancel", "user-cancel", "command")
  /\ UNCHANGED <<context, loop, service, port, program, clock, lost>>

-----------------------------------------------------------------------------
(* What else commits to the Context.                                       *)

Refreshed(s) == s   \* mutant: the generation is read anew for each record

\* active.context_generation is the one of its own last record, and stays that.
Overtaken(s) == [s EXCEPT !.stale = TRUE]

Moves == [idle |-> {"deferred"}, deferred |-> {"idle"},
          waiting |-> {"deferred", "idle"}, working |-> {"deferred", "waiting", "idle"}]

\* A new main turn may come with a new generation of the configuration; a
\* service that is not idle stays behind with the old one.
NextService ==
  {service, [service EXCEPT !.state = IF @ \in {"Unknown", "replaced"} THEN "replaced"
                                      ELSE "none"]}

\* catalog.idle: no later turn while a port of this one is at work.
TurnAdmitted(next) == loop.turn = "idle" => port = "idle"

Turn(next) ==
  LET new == [context EXCEPT !.facts = @ + 1, !.turn = next # "idle"] IN
  /\ program = "running" /\ call = AtRest /\ ~loop.halted /\ ~Gated
  /\ next \in Moves[loop.turn] /\ TurnAdmitted(next) /\ context.facts < MaxFacts
  /\ \/ /\ context' = new
        /\ loop' = [loop EXCEPT !.turn = next]
        /\ service' \in IF loop.turn = "idle" THEN NextService ELSE {service}
        /\ UNCHANGED <<program, lost>>
     \/ /\ Unacknowledged(new)
        /\ \E by \in {"command", "round"} : program' = AfterError(by)
        /\ UNCHANGED service
  /\ UNCHANGED <<port, call, clock>>

\* A queue edit, an ask or a steer of a pasted draft or by a key: the guard of
\* route_agent_action is not on its way.
SideMessage ==
  LET new == [context EXCEPT !.facts = @ + 1] IN
  /\ program = "running" /\ call = AtRest /\ ~loop.halted /\ Gated
  /\ context.facts < MaxFacts
  /\ \/ /\ context' = new
        /\ service' = Overtaken(service) /\ UNCHANGED <<loop, lost>>
     \/ /\ Unacknowledged(new)
        /\ service' = IF context' = new THEN Overtaken(service) ELSE service
  /\ UNCHANGED <<port, call, program, clock>>

-----------------------------------------------------------------------------
(* Quit, close, crash, and the next open.                                  *)

Quit ==
  /\ program = "running" /\ call = AtRest /\ program' = "closing"
  /\ UNCHANGED <<context, loop, service, port, call, clock, lost>>

\* close_agent: the compaction first; one that is not cancellable ends the close.
CloseCompaction ==
  /\ program = "closing" /\ call = AtRest /\ Gated
  /\ IF service.state = "Compacting"
     THEN Continues("cancel", "application-close", "close") /\ UNCHANGED program
     ELSE Error("close")
  /\ UNCHANGED <<context, loop, service, port, clock, lost>>

\* close_poll_steps rounds were not enough.
CloseTimeout ==
  /\ program = "settling" /\ call = AtRest /\ Gated /\ program' = "failed"
  /\ UNCHANGED <<context, loop, service, port, call, clock, lost>>

\* The turn ends, then the loop and the writer close.
CloseSession ==
  LET new == [context EXCEPT !.turn = FALSE] IN
  /\ program \in {"closing", "settling"} /\ call = AtRest /\ ~Gated
  /\ \/ /\ loop.halted \/ loop.turn = "idle"
        /\ program' = "closed" /\ UNCHANGED <<context, loop, lost>>
     \/ /\ ~loop.halted /\ loop.turn # "idle"
        /\ context' = new
        /\ loop' = [loop EXCEPT !.turn = "idle"]
        /\ program' = "closed" /\ UNCHANGED lost
     \/ ~loop.halted /\ loop.turn # "idle" /\ Unacknowledged(new) /\ program' = "failed"
  /\ UNCHANGED <<service, port, call, clock>>

Crash ==
  /\ program \notin {"closed", "failed", "down"}
  /\ program' = "down" /\ call' = AtRest
  /\ UNCHANGED <<context, loop, service, port, clock, lost>>

Open ==
  /\ program \in {"closed", "failed", "down"} /\ program' = "opening"
  /\ loop' = NoLoop /\ service' = NoService /\ port' = "idle" /\ clock' = NotYet
  /\ UNCHANGED <<context, call, lost>>

\* recover_opened_compactions: cancelled if it was not, then over as unknown.
Recover ==
  LET counts == context.life.cancel \in {"compaction-active-time", "compaction-process-recovery"}
      new == IF context.life.cancel = "none"
             THEN [context EXCEPT !.life.cancel = "compaction-process-recovery"]
             ELSE Counted(Ended(context), counts) IN
  /\ program = "opening" /\ Pending
  /\ \/ context' = new /\ UNCHANGED <<program, lost>>
     \/ /\ ~lost /\ lost' = TRUE /\ program' = "down"
        /\ context' \in {context, new}
  /\ UNCHANGED <<loop, service, port, call, clock>>

\* A Context with an unfinished turn is opened and then not continued.
Opened ==
  /\ program = "opening" /\ ~Pending
  /\ program' = IF context.turn THEN "down" ELSE "running"
  /\ UNCHANGED <<context, loop, service, port, call, clock, lost>>

-----------------------------------------------------------------------------
(* Time, and the specification.                                            *)

TimePasses ==
  /\ Gated /\ service.state \in {"Compacting", "Cancelling"} /\ ~clock.late
  /\ clock' = [clock EXCEPT !.late = TRUE]
  /\ UNCHANGED <<context, loop, service, port, call, program, lost>>

CoolDown ==
  /\ service.circuit = "open" /\ ~clock.cooled
  /\ clock' = [clock EXCEPT !.cooled = TRUE]
  /\ UNCHANGED <<context, loop, service, port, call, program, lost>>

BeginAutomatic ==
  \/ BeginRefused \/ BeginSuppressed
  \/ BeginDeclined("automatic") \/ BeginCompaction("automatic")

Commit == CommitRequest \/ RequestRefused \/ CommitRejection \/ CommitResponse
            \/ Publish \/ CommitCancel \/ CommitCancelled \/ Resolve

Next ==
  \/ BeginAutomatic \/ BeginDeclined("manual") \/ BeginCompaction("manual")
  \/ Commit \/ Tick \/ Answer \/ Settle \/ PollFails \/ CancelCommand
  \/ \E next \in DOMAIN Moves : Turn(next)
  \/ SideMessage \/ Quit \/ CloseCompaction \/ CloseTimeout \/ CloseSession
  \/ Crash \/ Open \/ Recover \/ Opened \/ TimePasses \/ CoolDown

\* The coordinator goes on with its rounds and calls, and time passes; the user
\* and the provider owe nothing.
Fairness == /\ WF_vars(Commit) /\ WF_vars(Tick) /\ WF_vars(BeginAutomatic)
            /\ WF_vars(TimePasses)

Spec == Init /\ [][Next]_vars /\ Fairness

-----------------------------------------------------------------------------
(* Properties.                                                             *)

\* A summary becomes the view of the Context only out of a lifecycle that is
\* still open, answered and not cancelled, and only over the facts and the view
\* it was made from: nothing the loop committed meanwhile is summarized away
\* unread, whatever was cancelled, lost or late before.
ViewNeverStale ==
  [][context'.view.summary # context.view.summary =>
       /\ context.life.response /\ context.life.cancel = "none"
       /\ context.life.view = context.view /\ context.life.source = context.facts]_vars

\* An automatic compaction begins only while the durable streak of automatic
\* failures is short of the threshold, or after a whole cooldown of this process
\* since the last of them: no restart, cancellation or new configuration makes
\* the circuit forget.
CircuitHolds ==
  [][context'.compactions > context.compactions /\ service.mode = "automatic" =>
       context.failures < failure_threshold \/ clock.cooled]_vars

\* Between two calls the loop, the owner, the service, the port and the Context
\* agree: on the turn, on whether a lifecycle is open and on
\* its attempt; a service that is idle has no request at the port, and a session
\* that closed left no lifecycle open.
LaneAgrees ==
  /\ program = "running" /\ call = AtRest /\ ~loop.halted =>
       /\ context.turn <=> loop.turn # "idle"
       /\ Gated <=> Pending
       /\ Gated => /\ service.state \in {"Compacting", "Cancelling"}
                   /\ service.attempt = context.life.attempt
                   /\ loop.gate.mode = context.life.mode
                   /\ context.life.cancel # "none" <=> service.state = "Cancelling"
       /\ service.state \in {"none", "Idle"} => port = "idle"
  /\ program = "closed" => ~Pending

\* A compaction, and a request deferred behind it, comes to an end while the
\* program runs, even when the provider never answers and a cancellation is
\* never acknowledged.
CompactionEnds ==
  (Gated \/ loop.turn = "deferred")
    ~> (~Gated /\ loop.turn # "deferred") \/ loop.halted \/ program # "running"

\* "12-context-compaction.md": while a compaction is active only status, help and
\* cancel pass, so only a commit that is not acknowledged halts the loop.
HaltsOnlyOnLoss == loop.halted => lost

=============================================================================
