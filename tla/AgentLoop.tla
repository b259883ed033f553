------------------------------ MODULE AgentLoop ------------------------------
(***************************************************************************)
(* The main lane of the AgentLoop of src/src/runtime.lua (new_agent_loop): *)
(* one turn at a time, with the model request, the review or the tool it   *)
(* is waiting for, the accepted tool calls and their results, the pending  *)
(* user decision, steering, cancellation, budgets, the deferred request of *)
(* automatic compaction, and the halt after a lost durable barrier.        *)
(*                                                                         *)
(* The loop is driven by calls: every call of the Activity driver, of the  *)
(* session owner or of the coordinator runs to its end before the next one *)
(* and is one action here.  A call walks through several states; the       *)
(* operators below take the state `s' and the turn data `t' the walk has   *)
(* reached so far, as the Lua functions find them in their upvalues, and   *)
(* the last of them gives the primed variables their values.               *)
(*                                                                         *)
(* An operator marked `mutant' is a wrong version of the one after it, and *)
(* is used by nothing: it is put in its place to see a property fail.      *)
(***************************************************************************)
EXTENDS Naturals

CONSTANTS
  MaxCalls,             \* bound: tool calls in one model response
  ModelRequestLimit,    \* snapshot.model_request_limit of every turn
  MaxTurns,             \* bound: turns started in one behaviour
  MaxSteers,            \* bound: steers accepted in one turn
  AutomaticCompaction,  \* limits.automatic_compaction (TRUE in production)
  Reviews,              \* a review port is installed
  DoubleCheck,          \* snapshot.double_check
  Refusals,             \* the Context may refuse a new obligation (ContextCapacity)
  InexactCommits        \* a journal receipt may be missing or inexact

\* MaxCalls and MaxTurns only bound the model; ModelRequestLimit is validated
\* to be at least 1 (validate_turn_input).
ASSUME AgentLoopAssumption ==
  /\ MaxCalls \in Nat \ {0}
  /\ ModelRequestLimit \in Nat \ {0}
  /\ MaxTurns \in Nat
  /\ MaxSteers \in Nat
  /\ {AutomaticCompaction, Reviews, DoubleCheck, Refusals, InexactCommits}
       \subseteq BOOLEAN

VARIABLES
  state,    \* the AgentLoop state
  main,     \* the main turn in progress and what the loop keeps about it
  halted,   \* a durable barrier was lost
  closing,  \* close() was called
  fault     \* some call raised: an edge outside AGENT_TRANSITIONS, a nil index

vars == <<state, main, halted, closing, fault>>

-----------------------------------------------------------------------------
(* States, edges and the turn record.                                      *)

States == {"Idle", "Preparing", "RequestingModel", "Streaming",
           "DispatchingTools", "AwaitingApproval", "ExecutingTool",
           "EvaluatingAction", "EvaluatingTermination", "WaitingUser",
           "Finalizing", "Closing"}

\* AGENT_TRANSITIONS
NextStates ==
  [Idle                  |-> {"Preparing", "Closing"},
   Preparing             |-> {"RequestingModel", "WaitingUser"},
   RequestingModel       |-> {"Streaming", "Preparing"},
   Streaming             |-> {"Preparing", "DispatchingTools", "WaitingUser",
                              "EvaluatingTermination"},
   DispatchingTools      |-> {"AwaitingApproval", "ExecutingTool",
                              "EvaluatingAction", "Preparing",
                              "RequestingModel"},
   AwaitingApproval      |-> {"ExecutingTool", "DispatchingTools",
                              "WaitingUser", "Preparing"},
   ExecutingTool         |-> {"DispatchingTools", "RequestingModel",
                              "Preparing"},
   EvaluatingAction      |-> {"AwaitingApproval", "ExecutingTool",
                              "DispatchingTools", "WaitingUser", "Preparing"},
   EvaluatingTermination |-> {"Preparing", "RequestingModel", "WaitingUser"},
   WaitingUser           |-> {"Preparing", "RequestingModel",
                              "AwaitingApproval", "EvaluatingAction",
                              "EvaluatingTermination"},
   Finalizing            |-> {"Idle"},
   Closing               |-> {}]

\* The edges to Finalizing and Closing, which every active state has, are
\* taken by Finalize, Lost and Close only and left out of the table.
Edge(s, next)   == next \in NextStates[s]
MayBe(s, next) == s = next \/ Edge(s, next)   \* if state ~= next then transition

\* PAUSED_AGENT_STATES: no active time is charged.
Paused == {"Idle", "WaitingUser", "AwaitingApproval", "Closing"}
NoTurnStates == {"Idle", "Closing"}

\* TOOL_RESULT_KINDS by status; "none" is a call with no durable result.
\* Real results come from the tool, "skipped" is every synthetic one.
RealResults == {"ok", "error", "cancelled", "unknown"}
Results     == RealResults \cup {"none", "skipped"}

\* The gates an accepted call has still to pass before it may execute:
\* "decision" until tools.admit has answered, then what that answer asks for.
Gates == {"decision", "review", "approval"}
Call  == [side : BOOLEAN, result : Results, gates : SUBSET Gates]
NoCall == [side |-> FALSE, result |-> "none", gates |-> {"decision"}]

Outcomes == {"completed", "refused", "cancelled", "budget_exhausted", "stuck",
             "partial", "error", "unknown_side_effect"}

PendingKinds == {"none", "approval", "action-review", "termination-review",
                 "ask-user", "model-yield", "compaction-preflight",
                 "blocked-action"}   \* compaction-preflight with pending.call
HoldsCall(p) == p \in {"approval", "action-review", "blocked-action"}

Reviewed == {"none", "action", "termination"}

\* What the loop reports of the last turn that ended, and the facts of that
\* turn the outcome has to agree with.
NeverEnded == [outcome |-> "none", settled |-> TRUE, unknown |-> FALSE,
               cancel |-> FALSE, steer |-> FALSE, checked |-> FALSE,
               cut |-> FALSE]
Ended == [outcome : Outcomes \cup {"none"}, settled : BOOLEAN,
          unknown : BOOLEAN, cancel : BOOLEAN, steer : BOOLEAN,
          checked : BOOLEAN, cut : BOOLEAN]

\* initialize_main_turn, with the upvalues that live as long as a turn.
FreshTurn(serial, last) ==
  [serial    |-> serial,            \* turn_serial
   count     |-> 0,                 \* #turn.calls
   calls     |-> [k \in 1..MaxCalls |-> NoCall],  \* turn.calls
   cursor    |-> 1,                 \* turn.call_cursor
   requests  |-> 0,                 \* turn.counters.model_requests
   late      |-> FALSE,             \* active_time_ms >= hard cap
   request   |-> FALSE,             \* active_request ~= nil
   review    |-> "none",            \* active_review and its kind
   tool      |-> 0,                 \* active_tool: index of its call
   returned  |-> "none",            \* result of a tools.start still returning
   pending   |-> "none",            \* pending.kind
   preflight |-> "none",            \* pending_model_preflight: deferred kind
   steer     |-> FALSE,             \* pending_steer ~= nil
   steers    |-> 0,
   cancel    |-> "none",            \* cancel_pending and cancel_outcome
   escape    |-> FALSE,             \* detector.escape_active
   gap       |-> FALSE,             \* finish_after_review_gap
   checked   |-> FALSE,             \* a termination verdict was pass or gap
   cut       |-> FALSE,             \* it ended where open calls are not paired
   last      |-> last]              \* last_turn

Turn ==
  [serial : 0..MaxTurns, count : 0..MaxCalls, calls : [1..MaxCalls -> Call],
   cursor : 1..(MaxCalls + 1), requests : 0..ModelRequestLimit,
   late : BOOLEAN, request : BOOLEAN, review : Reviewed, tool : 0..MaxCalls,
   returned : RealResults \cup {"none"}, pending : PendingKinds,
   preflight : {"none", "main", "action", "termination"}, steer : BOOLEAN,
   steers : 0..MaxSteers, cancel : {"none", "cancelled", "budget_exhausted"},
   escape : BOOLEAN, gap : BOOLEAN, checked : BOOLEAN, cut : BOOLEAN,
   last : Ended]

-----------------------------------------------------------------------------
(* How a call ends: with a state and a turn, halted, or raising.           *)

Become(s, t) == state' = s /\ main' = t /\ UNCHANGED <<halted, fault>>

\* durability_failure: handles and unfinished Facts stay for recovery.
Lost(s, t) ==
  /\ InexactCommits
  /\ halted' = TRUE
  /\ IF s = "Idle" THEN state' = "Idle" /\ main' = FreshTurn(t.serial, t.last)
                   ELSE state' = "Finalizing" /\ main' = t
  /\ UNCHANGED fault

\* transition() raises outside AGENT_TRANSITIONS; what was assigned stays.
Raise(s, t) ==
  /\ fault' = TRUE
  /\ state' = s
  /\ main' = t
  /\ UNCHANGED halted

-----------------------------------------------------------------------------
(* Calls and results.                                                      *)

AllPaired(t)  == t.cursor > t.count

\* The turn is to end by cancellation or by its active-time cap.
IgnoringCancel(t) == t.late                                        \* mutant
Cancelling(t)     == t.cancel # "none" \/ t.late

Settled(t)    == \A k \in 1..t.count : t.calls[k].result # "none"
HasUnknown(t) == \E k \in 1..t.count : t.calls[k].side /\ t.calls[k].result = "unknown"

Advance(t, calls, cursor) == [t EXCEPT !.calls = calls, !.cursor = cursor]

\* pair_result for the call at the cursor, followed by call_cursor + 1.
PairNext(t, r) ==
  Advance(t, [t.calls EXCEPT ![t.cursor].result = r], t.cursor + 1)

\* The user decision, or the review, the turn is waiting for.
Pend(t, kind) == [t EXCEPT !.pending = kind]

\* What the call at the cursor has still to pass.
Await(t, gates) ==
  Advance(t, [t.calls EXCEPT ![t.cursor].gates = gates], t.cursor)

\* The results skip_remaining has published when it has reached call n.
SkippedTo(t, n) ==
  [k \in 1..MaxCalls |->
     IF k \in t.cursor..n /\ t.calls[k].result = "none"
     THEN [t.calls[k] EXCEPT !.result = "skipped"]
     ELSE t.calls[k]]

SkipTo(t, n) == [t EXCEPT !.calls = SkippedTo(t, n)]

SkipAllButNext(t) ==                                               \* mutant
  Advance(t, SkippedTo([t EXCEPT !.cursor = t.cursor + 1], t.count), t.count + 1)
SkipRemaining(t) == Advance(t, SkippedTo(t, t.count), t.count + 1)

\* The barrier may be lost at any of those results.
LostSkipping(s, t) == \E n \in t.cursor..t.count : Lost(s, SkipTo(t, n - 1))

-----------------------------------------------------------------------------
(* finalize                                                                *)

Summary(t, o) ==
  [outcome |-> o, settled |-> Settled(t), unknown |-> HasUnknown(t),
   cancel |-> t.cancel # "none", steer |-> t.steer, checked |-> t.checked,
   cut |-> t.cut]

\* Without the queue: the turn ends and the loop is free or closed, which
\* close() has decided before it cancels.
FinalizeIdle(t, o) ==                                              \* mutant
  \/ Become("Idle", FreshTurn(t.serial, Summary(t, o)))
  \/ Lost("Finalizing", t)

Finalize(t, o) ==
  \/ Become(IF closing' THEN "Closing" ELSE "Idle",
            FreshTurn(t.serial, Summary(t, o)))
  \/ Lost("Finalizing", t)

\* skip_remaining, then finalize.
SkipAndFinalize(s, t, o) ==
  \/ LostSkipping(s, t)
  \/ Finalize(SkipRemaining(t), o)

CapacityExhausted(s, t) == SkipAndFinalize(s, t, "budget_exhausted")

-----------------------------------------------------------------------------
(* Model and review requests.                                              *)

\* budget_reason: active time or model requests (the step and review caps
\* take the same branch).
OverBudget(t) == t.late \/ t.requests >= ModelRequestLimit

\* start_model_request
StartModel(s, t) ==
  \/ OverBudget(t) /\ Finalize(t, "budget_exhausted")
  \/ /\ ~OverBudget(t)
     /\ LET u == [t EXCEPT !.requests = t.requests + 1]
        IN \/ Refusals /\ CapacityExhausted(s, t)
           \/ Lost(s, t)
           \/ ~MayBe(s, "RequestingModel") /\ Raise(s, u)
           \/ /\ MayBe(s, "RequestingModel")
              /\ \/ Finalize(u, "error")      \* model.start failed
                 \/ Become("RequestingModel", [u EXCEPT !.request = TRUE])

\* request_model; a second deferral is refused as CompactionPreflightBusy and
\* leaves what the call has done so far.
RequestModel(s, t) ==
  \/ OverBudget(t) /\ Finalize(t, "budget_exhausted")
  \/ /\ ~OverBudget(t) /\ AutomaticCompaction
     /\ \/ ~MayBe(s, "Preparing") /\ Raise(s, t)
        \/ /\ MayBe(s, "Preparing")
           /\ Become("Preparing", IF t.preflight = "none"
                                  THEN [t EXCEPT !.preflight = "main"]
                                  ELSE t)
  \/ ~OverBudget(t) /\ ~AutomaticCompaction /\ StartModel(s, t)

\* The wait of a review that cannot start keeps its `pending', which the code
\* indexes.
WaitUnreviewed(s, t) ==
  \/ ~Edge(s, "WaitingUser") /\ Raise(s, t)
  \/ Edge(s, "WaitingUser") /\ t.pending = "none" /\ Raise("WaitingUser", t)
  \/ Edge(s, "WaitingUser") /\ t.pending # "none" /\ Become("WaitingUser", t)

\* start_review_request
StartReview(s, t, kind) ==
  \/ (~Reviews \/ OverBudget(t)) /\ WaitUnreviewed(s, t)
  \/ /\ Reviews /\ ~OverBudget(t)
     /\ LET u == [t EXCEPT !.requests = t.requests + 1]
        IN \/ Refusals /\ CapacityExhausted(s, t)
           \/ Lost(s, t)
           \/ Finalize([u EXCEPT !.cut = TRUE], "error")   \* reviews.start failed
           \/ Become(s, [u EXCEPT !.review = kind])

\* begin_review
BeginReview(s, t, kind) ==
  \/ (~Reviews \/ OverBudget(t)) /\ WaitUnreviewed(s, t)
  \/ /\ Reviews /\ ~OverBudget(t) /\ AutomaticCompaction
     /\ Become(s, IF t.preflight = "none" THEN [t EXCEPT !.preflight = kind] ELSE t)
  \/ /\ Reviews /\ ~OverBudget(t) /\ ~AutomaticCompaction
     /\ StartReview(s, t, kind)

-----------------------------------------------------------------------------
(* Ending a turn as completed starts the next queued item in the same call. *)

\* The start of a turn that follows another within one call (auto_start_queue,
\* resolve_yield): turn_started and user_message are one commit.
StartNext(t, o) ==
  LET last == Summary(t, o)
  IN \/ Lost("Idle", FreshTurn(t.serial, last))
     \/ /\ t.serial < MaxTurns
        /\ RequestModel("Preparing", FreshTurn(t.serial + 1, last))

\* Whether the queue holds an item is left open.
Complete(t) == Finalize(t, "completed") \/ (~closing' /\ StartNext(t, "completed"))

\* complete_response
CompleteResponse(t) ==
  \/ t.gap /\ Complete([t EXCEPT !.gap = FALSE])
  \/ /\ ~t.gap /\ DoubleCheck
     /\ BeginReview("EvaluatingTermination",
                    Pend(t, "termination-review"), "termination")
  \/ ~t.gap /\ ~DoubleCheck /\ Complete(t)

-----------------------------------------------------------------------------
(* Tool batches.                                                           *)

\* finish_cancelled_turn
FinishCancelled(s, t) ==
  LET u == IF t.cancel = "none" THEN [t EXCEPT !.cancel = "budget_exhausted"] ELSE t
  IN \/ ~AllPaired(u) /\ ~MayBe(s, "DispatchingTools") /\ Raise(s, u)
     \/ /\ AllPaired(u) \/ MayBe(s, "DispatchingTools")
        /\ SkipAndFinalize(s, u, u.cancel)

\* complete_batch(false) and complete_batch(after_failure)
CompleteBatch(s, t) == RequestModel(s, [t EXCEPT !.tool = 0, !.pending = "none"])
AbandonUnskipped(s, t) == CompleteBatch(s, t)                      \* mutant
AbandonBatch(s, t) ==
  \/ LostSkipping(s, t)
  \/ CompleteBatch(s, SkipRemaining(t))

\* record_detector, then the branch its answer selects: nothing repeated too
\* often, a durable warning and one escape step, or a stuck turn.  A refused
\* warning returns its error from where the call stands.
Stuck(s, t) ==
  \/ t.escape /\ SkipAndFinalize(s, t, "stuck")
  \/ /\ ~t.escape
     /\ LET u == [t EXCEPT !.escape = TRUE]
        IN \/ Lost(s, t)
           \/ Refusals /\ Become(s, t)
           \/ LostSkipping(s, u)
           \/ RequestModel(s, SkipRemaining(u))

\* inject_steer
InjectSteer(s, t) ==
  \/ ~AllPaired(t) /\ ~MayBe(s, "DispatchingTools") /\ Raise(s, t)
  \/ /\ AllPaired(t) \/ MayBe(s, "DispatchingTools")
     /\ \/ LostSkipping(s, t)
        \/ RequestModel("Preparing",
             [SkipRemaining(t) EXCEPT !.steer = FALSE, !.pending = "none"])

\* start_tool: the tool of the call at the cursor.  A start that breaks its
\* contract after the tool may have acted is an unknown outcome.  A result
\* that tools.start returns at once is accepted within the same call: until
\* AcceptReturned has taken it no other call is made.
StartTool(s, t) ==
  \/ Cancelling(t) /\ FinishCancelled(s, t)
  \/ /\ ~Cancelling(t) /\ s \notin Paused
     /\ FinishCancelled(s, [t EXCEPT !.late = TRUE])   \* this clock reading
  \/ /\ ~Cancelling(t)
     /\ \/ ~Edge(s, "ExecutingTool") /\ Raise(s, t)
        \/ /\ Edge(s, "ExecutingTool")
           /\ \/ Lost("ExecutingTool", t)              \* intent receipt
              \/ \E r \in RealResults \cup {"none"} :
                   Become("ExecutingTool", [t EXCEPT !.tool = t.cursor,
                                                     !.returned = r])

\* dispatch_next, in DispatchingTools: admission of the call at the cursor.
DispatchNext(t) ==
  LET s == "DispatchingTools"
  IN \/ t.cancel # "none" /\ FinishCancelled(s, t)
     \/ t.cancel = "none" /\ SkipAndFinalize(s, [t EXCEPT !.late = TRUE], "budget_exhausted")
     \/ /\ ~Cancelling(t)
        /\ \/ Lost(s, t)
           \/ \* recoverable admission error: the model hears of it
              LET u == PairNext(t, "error")
              IN Stuck(s, u) \/ AbandonBatch(s, u)
           \/ SkipAndFinalize(s, PairNext(t, "error"), "error")
           \/ \* deny
              AbandonBatch(s, PairNext(t, "skipped"))
           \/ \* confirm
              Become("AwaitingApproval", Pend(Await(t, {"approval"}), "approval"))
           \/ \* review, with the verdict Permission gave for after it
              \E after \in {{}, {"approval"}} :
                BeginReview("EvaluatingAction",
                            Pend(Await(t, {"review"} \cup after), "action-review"),
                            "action")
           \/ \* allow
              StartTool(s, Await(t, {}))

\* The outcome of a turn whose tool has an unknown one.
UnknownAsError(call) == "error"                                    \* mutant
UnknownOutcome(call) == IF call.side THEN "unknown_side_effect" ELSE "error"

\* accept_result for the active tool; its real progress may end an escape.
AcceptResult(t, r) ==
  LET s == "ExecutingTool"
      more == IF t.cursor < t.count THEN "DispatchingTools" ELSE s
  IN \/ Lost(s, t)
     \/ \E escape \in {FALSE, t.escape} :
        LET p == PairNext([t EXCEPT !.tool = 0, !.escape = escape], r)
        IN \/ /\ r = "unknown"
              /\ SkipAndFinalize(more, p, UnknownOutcome(t.calls[t.cursor]))
           \/ /\ r # "unknown"
              /\ \/ Cancelling(p) /\ FinishCancelled(s, p)
                 \/ /\ ~Cancelling(p)
                    /\ \/ p.steer /\ InjectSteer(s, p)
                       \/ /\ ~p.steer /\ r # "ok"
                          /\ Stuck(more, p) \/ AbandonBatch(more, p)
                       \/ /\ ~p.steer /\ r = "ok"
                          /\ IF AllPaired(p) THEN CompleteBatch(s, p)
                                             ELSE DispatchNext(p)

-----------------------------------------------------------------------------
(* The calls.  Live: the loop takes calls and none is still running.       *)

Live   == ~halted /\ main.returned = "none"
Active == main.request \/ main.review # "none" \/ main.tool # 0

Init ==
  /\ state = "Idle"
  /\ main = FreshTurn(0, NeverEnded)
  /\ halted = FALSE
  /\ closing = FALSE
  /\ fault = FALSE

\* start_main for input typed while the loop is idle; the session takes no
\* input once it is closed.
StartMain ==
  /\ UNCHANGED closing
  /\ Live /\ state = "Idle" /\ ~closing /\ main.serial < MaxTurns
  /\ \/ Lost("Idle", main)
     \/ RequestModel("Preparing",
                     FreshTurn(main.serial + 1, main.last))

\* clock_now: active time reaches its cap, in a state that is charged.
TimeExpires ==
  /\ UNCHANGED closing
  /\ ~halted /\ state \notin Paused \cup {"Finalizing"} /\ ~main.late
  /\ Become(state, [main EXCEPT !.late = TRUE])

\* resolve_compaction_preflight: the compaction owner lets the deferred
\* request proceed (completed, fits, no_op) or blocks it.
ResolvePreflight ==
  LET t == [main EXCEPT !.preflight = "none"]
  IN /\ UNCHANGED closing
     /\ Live /\ main.preflight # "none"
     /\ \/ main.preflight = "main" /\ StartModel(state, t)
        \/ main.preflight # "main" /\ StartReview(state, t, main.preflight)
        \/ ~MayBe(state, "WaitingUser") /\ Raise(state, t)
        \/ /\ MayBe(state, "WaitingUser")
           /\ Become("WaitingUser",
                [t EXCEPT !.pending =
                   IF main.preflight # "main" /\ HoldsCall(main.pending)
                   THEN "blocked-action" ELSE "compaction-preflight"])

\* accept_model_event
ModelEvent ==
  /\ UNCHANGED closing
  /\ Live /\ state = "RequestingModel" /\ main.request
  /\ Become("Streaming", main)

\* turn.calls, once a response with n calls is durable.
Accept(t, n, side) ==
  [t EXCEPT !.count = n, !.cursor = 1,
            !.calls = [k \in 1..MaxCalls |->
                         IF k \in 1..n THEN [NoCall EXCEPT !.side = side[k]]
                                       ELSE NoCall]]

\* accept_model_response.  The response is invalid, carries calls, or carries
\* none and ends one of the other ways.
ModelResponse ==
  /\ UNCHANGED closing
  /\ Live /\ state \in {"RequestingModel", "Streaming"} /\ main.request
  /\ LET s == "Streaming"
         t == [main EXCEPT !.request = FALSE,
                           !.cancel = IF main.late /\ main.cancel = "none"
                                      THEN "budget_exhausted" ELSE main.cancel]
     IN \/ Finalize(main, "error")                  \* invalid
        \/ Lost(s, main)                            \* barrier of its Facts
        \/ /\ t.cancel # "none"
           /\ \/ Finalize(t, t.cancel)
              \/ \E n \in 1..MaxCalls, side \in [1..MaxCalls -> BOOLEAN] :
                   SkipAndFinalize("DispatchingTools", Accept(t, n, side), t.cancel)
        \/ /\ t.cancel = "none" /\ t.steer
           /\ \/ InjectSteer(s, t)
              \/ \E n \in 1..MaxCalls, side \in [1..MaxCalls -> BOOLEAN] :
                   InjectSteer("DispatchingTools", Accept(t, n, side))
        \/ /\ t.cancel = "none" /\ ~t.steer
           /\ \/ \E o \in {"cancelled", "budget_exhausted", "error",  \* incomplete
                           "refused"} : Finalize(t, o)
              \/ CompleteResponse(t)                \* finish, or text stop
              \/ Become("WaitingUser", Pend(t, "ask-user"))
              \/ Become("WaitingUser", Pend(t, "model-yield"))
              \/ \E n \in 1..MaxCalls, side \in [1..MaxCalls -> BOOLEAN],
                    escape \in {FALSE, t.escape} :
                   LET u == [Accept(t, n, side) EXCEPT !.escape = escape]
                   IN \/ SkipAndFinalize("DispatchingTools", u, "budget_exhausted")
                      \/ Stuck("DispatchingTools", u)
                      \/ ~escape /\ DispatchNext(u)

\* accept_tool_result
ToolResult ==
  /\ UNCHANGED closing
  /\ Live /\ main.tool # 0
  /\ \E r \in RealResults : AcceptResult(main, r)

\* The rest of a start_tool whose tool has already answered.
AcceptReturned ==
  /\ UNCHANGED closing
  /\ ~halted /\ main.returned # "none"
  /\ AcceptResult([main EXCEPT !.returned = "none"], main.returned)

\* resolve_approval
Approval ==
  /\ UNCHANGED closing
  /\ Live /\ state \in {"AwaitingApproval", "WaitingUser"}
  /\ main.pending = "approval"
  /\ LET t == Pend(main, "none")
     IN \/ Lost(state, main)
        \/ Become("WaitingUser", main)                           \* defer
        \/ AbandonBatch("DispatchingTools", PairNext(t, "skipped"))  \* reject
        \/ StartTool("AwaitingApproval",
             Await(t, t.calls[t.cursor].gates \ {"approval"}))

\* The admission of the reviewed call still asks for an approval.
NeedsNothing(call)  == FALSE                                       \* mutant
NeedsApproval(call) == "approval" \in call.gates

\* resolve_action_review; the driver polls the review only in this state.
ActionReview ==
  /\ UNCHANGED closing
  /\ Live /\ state = "EvaluatingAction" /\ main.review = "action"
  /\ main.preflight = "none" /\ main.pending = "action-review"
  /\ LET t == [main EXCEPT !.review = "none"]
         u == Pend(Await(t, t.calls[t.cursor].gates \ {"review"}), "none")
     IN \/ Lost(state, main)
        \/ Cancelling(t) /\ FinishCancelled(state, t)
        \/ /\ ~Cancelling(t)
           /\ \/ t.steer /\ InjectSteer(state, t)
              \/ /\ ~t.steer
                 /\ \/ Become("WaitingUser", t)                  \* uncertain
                    \/ AbandonBatch("DispatchingTools", PairNext(u, "skipped"))
                    \/ /\ NeedsApproval(u.calls[u.cursor])
                       /\ Become("AwaitingApproval", Pend(u, "approval"))
                    \/ /\ ~NeedsApproval(u.calls[u.cursor])
                       /\ StartTool(state, u)

\* resolve_termination_review
TerminationReview ==
  /\ UNCHANGED closing
  /\ Live /\ state = "EvaluatingTermination" /\ main.review = "termination"
  /\ main.preflight = "none" /\ main.pending = "termination-review"
  /\ LET t == [main EXCEPT !.review = "none", !.pending = "none"]
     IN \/ Lost(state, main)
        \/ Cancelling(t) /\ FinishCancelled(state, t)
        \/ /\ ~Cancelling(t)
           /\ \/ t.steer /\ InjectSteer(state, t)
              \/ /\ ~t.steer
                 /\ \/ Complete([t EXCEPT !.checked = TRUE])     \* pass
                    \/ RequestModel(state, [t EXCEPT !.checked = TRUE, !.gap = TRUE])
                    \/ Become("WaitingUser", Pend(t, "termination-review"))

\* reply, as session submit routes it
Reply ==
  /\ UNCHANGED closing
  /\ Live /\ state = "WaitingUser"
  /\ main.pending \in {"ask-user", "termination-review"}
  /\ \/ Lost(state, main)
     \/ RequestModel(state, Pend(main, "none"))

\* resolve_yield: the old turn is partial and a new one may start.
ResolveYield ==
  /\ UNCHANGED closing
  /\ Live /\ state = "WaitingUser" /\ main.pending = "model-yield"
  /\ Finalize(main, "partial") \/ StartNext(main, "partial")

\* The cancelled request or review is forgotten.
KeptReview(t)  == [t EXCEPT !.request = FALSE]                     \* mutant
Interrupted(t) == [t EXCEPT !.request = FALSE, !.review = "none"]

\* steer, with what the port answers to the cancellation of the activity.
Steer ==
  /\ UNCHANGED closing
  /\ Live /\ state \notin NoTurnStates \cup {"Finalizing"}
  /\ main.cancel = "none" /\ ~main.steer /\ main.steers < MaxSteers
  /\ LET t == [main EXCEPT !.steer = TRUE, !.steers = main.steers + 1]
     IN \/ Lost(state, main)
        \/ ~Active /\ InjectSteer(state, t)
        \/ Active /\ Become(state, t)                    \* pending, unknown
        \/ main.tool # 0 /\ \E r \in RealResults : AcceptResult(t, r)
        \/ /\ Active /\ main.tool = 0                    \* cancelled
           /\ InjectSteer(state, Interrupted(t))

\* cancel: a durable intent, then the innermost activity, then every accepted
\* call, then the turn.
CancelTurn(outcome) ==
  LET t == [main EXCEPT !.cancel = outcome]
      u == [t EXCEPT !.review = "none"]
      callsOpen == \/ state \in {"AwaitingApproval", "DispatchingTools", "EvaluatingAction"}
                   \/ state = "WaitingUser" /\ HoldsCall(main.pending)
  IN \/ Lost(state, main)
     \/ main.review # "none" /\ Become(state, t)         \* pending, unknown
     \/ callsOpen /\ SkipAndFinalize(state, u, outcome)
     \/ ~callsOpen /\ state \in {"WaitingUser", "Preparing"} /\ Finalize(u, outcome)
     \/ /\ ~callsOpen /\ state \notin {"WaitingUser", "Preparing"}
        /\ \/ main.tool # 0 /\ \E r \in RealResults : AcceptResult(u, r)
           \/ (main.tool # 0 \/ main.request) /\ Become(state, u)
           \/ main.tool = 0 /\ Finalize(u, outcome)

Cancellable == state \notin NoTurnStates \cup {"Finalizing"} /\ main.cancel = "none"

Cancel ==
  /\ UNCHANGED closing
  /\ Live /\ Cancellable
  /\ CancelTurn("cancelled")

\* tick: the cap of active time.
Tick ==
  /\ UNCHANGED closing
  /\ Live /\ Cancellable /\ state \notin Paused /\ main.late
  /\ IF Active THEN CancelTurn("budget_exhausted")
               ELSE Finalize([main EXCEPT !.cut = TRUE], "budget_exhausted")

\* close, and close again after a halt.
Close ==
  /\ main.returned = "none"
  /\ ~closing \/ (halted /\ state # "Closing")
  /\ closing' = TRUE
  /\ \/ /\ halted \/ state \in {"Idle", "Finalizing"}
        /\ Become("Closing", main)
     \/ /\ ~halted /\ Cancellable
        /\ CancelTurn("cancelled")
     \/ /\ ~halted /\ state \notin NoTurnStates \cup {"Finalizing"}
        /\ main.cancel # "none"
        /\ Become(state, main)

Next ==
  \/ StartMain \/ TimeExpires \/ ResolvePreflight \/ ModelEvent \/ ModelResponse
  \/ ToolResult \/ AcceptReturned \/ Approval \/ ActionReview \/ TerminationReview
  \/ Reply \/ ResolveYield \/ Steer \/ Cancel \/ Tick \/ Close

Spec == Init /\ [][Next]_vars

\* The coordinator polls a started activity until it answers, accepts what a
\* tool has already returned, and drives every deferred request; nothing makes
\* the user act.
Fairness ==
  /\ WF_vars(ModelResponse) /\ WF_vars(ToolResult) /\ WF_vars(AcceptReturned)
  /\ WF_vars(ActionReview) /\ WF_vars(TerminationReview)
  /\ WF_vars(ResolvePreflight)

FairSpec == Spec /\ Fairness

-----------------------------------------------------------------------------
(* Properties.                                                             *)

\* The loop's upvalues keep their types and their bounds.
TypeOK ==
  /\ state \in States
  /\ main \in Turn
  /\ {halted, closing, fault} \subseteq BOOLEAN

\* The loop waits for at most one of a model request, a review and a tool
\* (active_request, active_review, active_tool), however a step was reached:
\* no path starts a second one while the first is still out.
OneForeground ==
  /\ main.request => main.review = "none" /\ main.tool = 0
  /\ main.review # "none" => main.tool = 0

\* The model is asked, and the termination of a turn reviewed, only when every
\* accepted tool call has its result (complete_batch, inject_steer, reply).
RequestsOweNothing ==
  main.request \/ main.review = "termination" => Settled(main)

\* A tool runs only for the call at the cursor, which has no result yet and
\* has passed every gate its admission decided: review, then approval.
GatesPassed ==
  main.tool # 0 => /\ main.tool = main.cursor
                   /\ main.calls[main.tool].result = "none"
                   /\ main.calls[main.tool].gates = {}

\* Every accepted tool call of a turn that ended had one result, real or
\* synthetic, when turn_ended was published.  Two paths end a turn where they
\* stand with calls that have none, against the contract of the loop
\* (contracts/runtime.lua:134): tick() between two activities, and a review that
\* does not start.  They are excepted.
LastTurnSettled == main.last.cut \/ main.last.settled

\* The outcome of a turn respects the precedence unknown side effects, cancel
\* intent, steer, ordinary completion, whichever of them arrived first; with
\* double_check a turn is completed only after a review of it said pass or gap.
TerminalPrecedence ==
  LET last == main.last
  IN /\ last.unknown => last.outcome = "unknown_side_effect"
     /\ last.cancel => last.outcome \notin {"completed", "partial", "refused", "stuck"}
     /\ last.steer => last.outcome \notin {"completed", "partial", "refused"}
     /\ DoubleCheck /\ last.outcome = "completed" => last.checked

\* After a durable cancel intent the same turn starts no request, review or tool.
Starts == \/ ~main.request /\ main'.request
          \/ main.review = "none" /\ main'.review # "none"
          \/ main.tool = 0 /\ main'.tool # 0
NothingStartsAfterCancel ==
  [][main.cancel # "none" /\ main'.serial = main.serial => ~Starts]_vars

\* No call raises: every walk stays on the edges of AGENT_TRANSITIONS and
\* indexes a pending decision only where there is one.
NoFault == ~fault

\* A cancel intent is settled: the turn ends, or the loop halts.  In a turn that was
\* steered it may not be (a steer can leave the loop where no edge leads on).
CancelSettles ==
  main.cancel # "none" ~> (main.cancel = "none" \/ halted \/ main.steers > 0)

\* close() ends in Closing once the activity it cancelled has answered, unless the
\* turn was steered.
CloseCompletes == closing ~> (state = "Closing" \/ halted \/ main.steers > 0)

=============================================================================
