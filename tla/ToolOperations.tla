--------------------------- MODULE ToolOperations ---------------------------
(***************************************************************************)
(* How an accepted tool call is executed: the Runtime tool port and the    *)
(* tool service (src/src/tools.lua), the operation service that puts a     *)
(* durable intent before every side effect and a durable result after it   *)
(* (src/src/context.lua), the journal under it (src/src/session.lua), and  *)
(* what the AgentLoop (src/src/runtime.lua) does with the receipts.        *)
(*                                                                         *)
(* The process is single-threaded, but it can end at any moment, so that a *)
(* call of tools.start is cut at every durable step and every effect; `pc' *)
(* says where it is.  A process tool runs beside the loop and is polled.   *)
(*                                                                         *)
(* Approval, review and the order of the calls are AgentLoop's; whether a  *)
(* publication survives is ContextStore's: here a commit is durable, or    *)
(* refused before anything was written, or lost, and then it was written   *)
(* or was not.  Identifiers, digests and result bodies are left out.       *)
(*                                                                         *)
(* An operator marked `mutant' is a wrong version of the one after it, and *)
(* is used by nothing: it is put in its place to see a property fail.      *)
(***************************************************************************)
EXTENDS Naturals

CONSTANTS
  MaxCalls,      \* bound: accepted calls of one Context
  Interrupts     \* the user cancels while a tool runs

ASSUME ToolOperationsAssumption == MaxCalls \in Nat /\ Interrupts \in BOOLEAN

VARIABLES
  journal,     \* the durable Facts of each call
  unfinished,  \* turn_started is durable and turn_ended is not
  latched,     \* journal_failure of the Session: nothing is committed any more
  effect,      \* what the call has done outside
  ops,         \* the operation service: its active operation, and blocked
  stopped,     \* `halted' of the turn's tool service
  port,        \* the process tool that runs
  pc, cur,     \* where the process is, and with which call
  back,        \* what tools.start returned, with how many receipts
  ahead,       \* Context generations the loop has not adopted
  closing,     \* the session closes: nothing new is accepted
  failed       \* some commit of this process was not durable

vars == <<journal, unfinished, latched, effect, ops, stopped, port, pc, cur,
          back, ahead, closing, failed>>

-----------------------------------------------------------------------------
Calls    == 1..MaxCalls
Tools    == {"read", "direct", "process"}
Statuses == {"ok", "error", "cancelled", "unknown"}
OPERATION_TOOLS == {"direct", "process"}   \* write, patch, rename, delete; exec, lua

NoCall   == [tool |-> "none", intent |-> FALSE, result |-> "none",
             paired |-> "none"]
Fact     == [tool : Tools \cup {"none"}, intent : BOOLEAN,
             result : Statuses \cup {"none"},
             paired : Statuses \cup {"none", "skipped"}]

Effects  == {"none", "running", "partial", "done"}

\* kill: inner.cancel was accepted.  fault: scan_fault, and what left it.
\* child: "unstarted" is an inner port whose start raised, "lost" one whose
\* supervisor died or whose descendants outlived it.  terminal, journaled: the
\* outcome was settled, and its result is durable.  gone: the adapter has
\* dropped the port, or closed it in vain.
NoPort   == [due |-> FALSE, timed |-> FALSE, cancelled |-> FALSE,
             kill |-> FALSE, fault |-> "none", child |-> "none",
             terminal |-> FALSE, journaled |-> FALSE, gone |-> FALSE]
Port     == [due : BOOLEAN, timed : BOOLEAN, cancelled : BOOLEAN,
             kill : BOOLEAN, fault : {"none", "scan", "cancel"},
             child : {"none", "unstarted", "live", "ended", "killed", "lost"},
             terminal : BOOLEAN, journaled : BOOLEAN, gone : BOOLEAN]

NoOps    == [active |-> 0, blocked |-> FALSE]
Nothing  == [status |-> "none", receipts |-> 0]

\* "raised" is a call that raised or returned nil, "async" a handle.
Answers  == Statuses \cup {"none", "raised", "async"}

\* "settling", "aborted" and "terminal" are on the way to commit_result: in
\* execute, in the start of a process port, and in its poll.
Places   == {"down", "idle", "turn", "ending", "accepted", "mint", "execute",
             "effect", "cleanup", "verify", "launch", "settling", "aborted",
             "returned", "async", "terminal", "settled", "closing", "halted"}

Side(k)  == journal[k].tool \in OPERATION_TOOLS

Init ==
  /\ journal = [k \in Calls |-> NoCall]
  /\ unfinished = FALSE /\ latched = FALSE
  /\ effect = [k \in Calls |-> "none"]
  /\ ops = NoOps /\ stopped = FALSE /\ port = NoPort
  /\ pc = "idle" /\ cur = 0 /\ back = Nothing
  /\ ahead = 0 /\ closing = FALSE /\ failed = FALSE

-----------------------------------------------------------------------------
(* Commits.                                                                *)

Commits    == {"durable", "refused", "lost", "written"}
Written(c) == c \in {"durable", "written"}

\* service.commit; after a lost publication it answers journal_failure.
Commit(c) ==
  /\ latched => c = "refused"
  /\ latched' = (latched \/ c \in {"lost", "written"})
  /\ failed' = (failed \/ c # "durable")

\* commit_events: the batch binds the generation the loop has adopted, and the
\* Session refuses it when the Context is elsewhere; that is not a commit that
\* failed.  Without a receipt the loop halts (durability_failure).
LoopCommit(c, next) ==
  IF ahead = 0
  THEN Commit(c) /\ pc' = (IF c = "durable" THEN next ELSE "halted")
  ELSE c = "refused" /\ pc' = "halted" /\ UNCHANGED <<latched, failed>>

Record(c, k, fact) ==
  journal' = IF Written(c) THEN [journal EXCEPT ![k] = fact] ELSE journal

\* The operation journal publishes beside the loop, which adopts the receipt.
OperationCommit(c, k, fact) ==
  /\ Commit(c) /\ Record(c, k, fact)
  /\ ahead' = IF Written(c) THEN ahead + 1 ELSE ahead

Go(place, status, receipts) ==
  pc' = place /\ back' = [status |-> status, receipts |-> receipts]

Return(status, receipts) == Go("returned", status, receipts)

-----------------------------------------------------------------------------
(* Turns and calls, as the loop journals them.                             *)

\* A tool service is built for every turn; the operation service is not.
StartTurn ==
  /\ pc = "idle" /\ ~closing
  /\ \E c \in Commits :
       /\ LoopCommit(c, "turn")
       /\ unfinished' = (unfinished \/ (ahead = 0 /\ Written(c)))
  /\ stopped' = FALSE
  /\ UNCHANGED <<journal, effect, ops, port, cur, back, ahead, closing>>

Accept(tool) ==
  /\ pc = "turn" /\ cur < MaxCalls /\ cur' = cur + 1
  /\ \E c \in Commits :
       /\ LoopCommit(c, "accepted")
       /\ IF ahead = 0 THEN Record(c, cur', [NoCall EXCEPT !.tool = tool])
                       ELSE UNCHANGED journal
  /\ UNCHANGED <<unfinished, effect, ops, stopped, port, back, ahead, closing>>

EndTurn ==
  /\ pc \in {"turn", "ending"}
  /\ \E c \in Commits :
       /\ LoopCommit(c, "idle")
       /\ unfinished' = (unfinished /\ ~(ahead = 0 /\ Written(c)))
  /\ UNCHANGED <<journal, effect, ops, stopped, port, cur, back, ahead,
                 closing>>

\* accept_result: an unknown outcome or a pending cancel ends the turn.
After(status) ==
  IF status = "unknown" \/ port.cancelled \/ closing THEN "ending" ELSE "turn"

\* pair_result without a receipt: the loop commits the tool_result itself.
Pair(status, next) ==
  /\ \E c \in Commits :
       /\ LoopCommit(c, next)
       /\ IF ahead = 0
          THEN Record(c, cur, [journal[cur] EXCEPT !.paired = status])
          ELSE UNCHANGED journal
  /\ UNCHANGED <<unfinished, effect, ops, stopped, ahead>>

\* A call that is cancelled, steered away or refused before tools.start.
Skip ==
  /\ pc = "accepted"
  /\ \E next \in {"turn", "ending"} : Pair("skipped", next)
  /\ UNCHANGED <<port, cur, back, closing>>

-----------------------------------------------------------------------------
(* tools.start: permission, intent, token.                                 *)

Denied ==
  /\ pc = "accepted" /\ Return("error", 0)
  /\ UNCHANGED <<journal, unfinished, latched, effect, ops, stopped, port, cur,
                 ahead, closing, failed>>

Read ==
  /\ pc = "accepted" /\ ~Side(cur) /\ pc' = "mint"
  /\ UNCHANGED <<journal, unfinished, latched, effect, ops, stopped, port, cur,
                 back, ahead, closing, failed>>

\* begin refuses while an operation is open or was left in doubt.
MayBegin == ~stopped /\ ~ops.blocked /\ ops.active = 0

Refuse ==
  /\ pc = "accepted" /\ Side(cur) /\ ~MayBegin
  /\ Return("error", 0)
  /\ UNCHANGED <<journal, unfinished, latched, effect, ops, stopped, port, cur,
                 ahead, closing, failed>>

\* A commit that is not acknowledged blocks the service if its code says that
\* the outcome is unknown; one that is refused blocks nothing.
BeginAnyway(c) == ops' = [ops EXCEPT !.active = cur] /\ pc' = "mint"   \* mutant
             /\ UNCHANGED back
Began(c) ==
  IF c = "durable"
  THEN ops' = [ops EXCEPT !.active = cur] /\ pc' = "mint" /\ UNCHANGED back
  ELSE /\ \E unknown \in BOOLEAN : ops' = [ops EXCEPT !.blocked = @ \/ unknown]
       /\ Return("error", 0)

Begin ==
  /\ pc = "accepted" /\ Side(cur) /\ MayBegin
  /\ \E c \in Commits :
       /\ OperationCommit(c, cur, [journal[cur] EXCEPT !.intent = TRUE])
       /\ Began(c)
  /\ UNCHANGED <<unfinished, effect, stopped, port, cur, closing>>

\* A token that is denied closes the intent (fail_before_effect).
Mint ==
  /\ pc = "mint"
  /\ \/ pc' = "execute" /\ UNCHANGED back
     \/ Side(cur) /\ Go("settling", "error", 0)
     \/ ~Side(cur) /\ Return("error", 0)
  /\ UNCHANGED <<journal, unfinished, latched, effect, ops, stopped, port, cur,
                 ahead, closing, failed>>

-----------------------------------------------------------------------------
(* Direct execution.                                                       *)

\* The token is used up; then authorization and boundaries are verified again,
\* and for a process the policy.  A read has no operation to close.
ExecuteRead ==
  /\ pc = "execute" /\ ~Side(cur)
  /\ IF stopped THEN Return("raised", 0)
     ELSE \E status \in {"ok", "error", "raised"} : Return(status, 0)
  /\ UNCHANGED <<journal, unfinished, latched, effect, ops, stopped, port, cur,
                 ahead, closing, failed>>

Execute ==
  /\ pc = "execute" /\ Side(cur)
  /\ \/ Go("settling", "error", 0) /\ UNCHANGED port
     \/ journal[cur].tool = "direct" /\ pc' = "effect" /\ UNCHANGED <<back, port>>
     \/ journal[cur].tool = "process" /\ pc' = "launch" /\ port' = NoPort
        /\ UNCHANGED back
  /\ UNCHANGED <<journal, unfinished, latched, effect, ops, stopped, cur, ahead,
                 closing, failed>>

Done(e) == effect' = [effect EXCEPT ![cur] = e]

\* The executors: nothing was done and it is known, or it is not known what was
\* done, or a created file is left that failed a check, or all was done.
Mutate ==
  /\ pc = "effect"
  /\ \/ Done("none") /\ Go("settling", "error", 0)
     \/ (\E e \in {"none", "partial", "done"} : Done(e))
        /\ Go("settling", "unknown", 0)
     \/ Done("partial") /\ pc' = "cleanup" /\ UNCHANGED back
     \/ Done("done") /\ pc' = "verify" /\ UNCHANGED back
  /\ UNCHANGED <<journal, unfinished, latched, ops, stopped, port, cur, ahead,
                 closing, failed>>

\* abort_created: the first error stands if the file is proven to be gone.
CleanUp ==
  /\ pc = "cleanup"
  /\ \/ Done("none") /\ Go("settling", "error", 0)
     \/ (\E e \in {"none", "partial"} : Done(e)) /\ Go("settling", "unknown", 0)
  /\ UNCHANGED <<journal, unfinished, latched, ops, stopped, port, cur, ahead,
                 closing, failed>>

\* The directory is flushed and the target read back, after the effect.
FailedCheck(proven) == IF proven THEN "ok" ELSE "error"   \* mutant
Checked(proven)     == IF proven THEN "ok" ELSE "unknown"

Verify ==
  /\ pc = "verify"
  /\ \E proven \in BOOLEAN : Go("settling", Checked(proven), 0)
  /\ UNCHANGED <<journal, unfinished, latched, effect, ops, stopped, port, cur,
                 ahead, closing, failed>>

\* make_result: the result and the tool_result are one batch.  When it is not
\* acknowledged, the operation stays open and nothing may begin after it.
Finish(c, status) ==
  /\ OperationCommit(c, cur, [journal[cur] EXCEPT !.result = status,
                                                  !.paired = status])
  /\ IF c = "durable"
     THEN ops' = [ops EXCEPT !.active = 0] /\ UNCHANGED stopped
     ELSE ops' = [ops EXCEPT !.blocked = TRUE] /\ stopped' = TRUE

Settle ==
  /\ pc = "settling"
  /\ \E c \in Commits :
       /\ Finish(c, back.status)
       /\ IF c = "durable" THEN Return(back.status, 2) ELSE Return("raised", 0)
  /\ UNCHANGED <<unfinished, effect, port, cur, closing>>

-----------------------------------------------------------------------------
(* A process: its port is started inside tools.start.                      *)

\* A handle comes with the receipt of the intent, whatever has happened since.
Handle == Return("async", 1)

\* The start of the inner port: it is not reached; it raises, and what became
\* of the process is not known; or the process runs.
Launch ==
  /\ pc = "launch"
  /\ \/ Go("aborted", "error", 0) /\ UNCHANGED <<effect, port>>
     \/ /\ Go("aborted", "unknown", 0)
        /\ port' = [port EXCEPT !.child = "unstarted"]
        /\ \E e \in {"none", "running"} : Done(e)
     \/ Handle /\ port' = [port EXCEPT !.child = "live"] /\ Done("running")
  /\ UNCHANGED <<journal, unfinished, latched, ops, stopped, cur, ahead,
                 closing, failed>>

\* settle_without_process: the result is durable before start returns.
SettleStart ==
  /\ pc = "aborted"
  /\ \E c \in Commits :
       /\ Finish(c, back.status)
       /\ port' = [port EXCEPT !.terminal = TRUE, !.journaled = (c = "durable")]
  /\ Handle
  /\ UNCHANGED <<unfinished, effect, cur, closing>>

Adopted(n) == ahead - n

\* start_tool: the loop adopts the receipts in order, or, when the port raised
\* or a read returned, commits a result of its own.
TakeStart ==
  /\ pc = "returned"
  /\ \/ /\ back.receipts = 0 /\ back.status # "async"
        /\ LET status == IF back.status # "raised" THEN back.status
                         ELSE IF Side(cur) THEN "unknown" ELSE "error"
           IN Pair(status, After(status))
     \/ /\ back.receipts > 0 \/ back.status = "async"
        /\ ahead' = Adopted(back.receipts)
        /\ pc' = IF back.status = "async" THEN "async" ELSE After(back.status)
        /\ UNCHANGED <<journal, unfinished, latched, effect, ops, stopped,
                       failed>>
  /\ back' = Nothing
  /\ UNCHANGED <<port, cur, closing>>

-----------------------------------------------------------------------------
(* A process that runs: the clock, the child, the poll.                    *)

DeadlinePasses ==
  /\ pc = "async" /\ port.child = "live" /\ ~port.due
  /\ port' = [port EXCEPT !.due = TRUE]
  /\ UNCHANGED <<journal, unfinished, latched, effect, ops, stopped, pc, cur,
                 back, ahead, closing, failed>>

\* The child ends with all its descendants, is stopped with them, or is no
\* longer accounted for.
ChildBecomes(end, effects) ==
  /\ port.child = "live" /\ port' = [port EXCEPT !.child = end]
  /\ \E e \in effects : Done(e)
  /\ UNCHANGED <<journal, unfinished, latched, ops, stopped, pc, cur, back,
                 ahead, closing, failed>>

ChildEnds   == ChildBecomes("ended", {"done"})
ChildLost   == ChildBecomes("lost", {"running"})
ChildKilled == port.kill /\ ChildBecomes("killed", {"partial", "done"})

\* What nobody watches any more ends by itself.
LeftEnds(k) ==
  /\ effect[k] = "running" /\ ~(k = cur /\ port.child = "live")
  /\ \E e \in {"partial", "done"} : effect' = [effect EXCEPT ![k] = e]
  /\ UNCHANGED <<journal, unfinished, latched, ops, stopped, port, pc, cur,
                 back, ahead, closing, failed>>

\* inner.cancel is accepted, or raises whether or not the request went out.
Asked(p) ==
  {[p EXCEPT !.kill = TRUE]}
  \cup {[p EXCEPT !.fault = "cancel", !.kill = @ \/ sent] : sent \in BOOLEAN}

OnlyNoted(p) == {IF p.due THEN [p EXCEPT !.timed = TRUE] ELSE p}   \* mutant
Expired(p) ==
  IF p.due /\ ~p.timed THEN Asked([p EXCEPT !.timed = TRUE]) ELSE {p}

\* What native join reports: the supervisor's record, or nothing proven.
Reports(child) ==
  CASE child = "ended"  -> {"completed", "failed", "unproven"}
    [] child = "killed" -> {"cancelled", "unproven"}
    [] child = "lost"   -> {"unproven"}
    [] OTHER            -> {}

\* settle_process: an unproven outcome comes before a timeout or a cancel.
TimeoutFirst(p, report) ==   \* mutant
  IF p.timed \/ p.cancelled THEN "cancelled"
  ELSE IF p.fault # "none" \/ report = "unproven" THEN "unknown"
  ELSE IF report = "completed" THEN "ok" ELSE "error"
Verdict(p, report) ==
  IF p.fault # "none" \/ report = "unproven" THEN "unknown"
  ELSE IF p.timed \/ p.cancelled \/ report = "cancelled" THEN "cancelled"
  ELSE IF report = "failed" THEN "error" ELSE "ok"

\* One poll: the deadline first, then output (the scanner may fail), then the
\* terminal event if there is one.  A start that was settled has only that.
Poll ==
  /\ pc = "async" /\ ~port.gone
  /\ \/ port.terminal /\ pc' = "settled" /\ UNCHANGED <<port, back>>
     \/ /\ ~port.terminal
        /\ \E p \in Expired(port), scan \in BOOLEAN :
             LET q == IF scan /\ p.fault = "none"
                      THEN [p EXCEPT !.fault = "scan"] ELSE p
             IN /\ port' = q
                /\ \/ UNCHANGED <<pc, back>>
                   \/ \E report \in Reports(q.child) :
                        Go("terminal", Verdict(q, report), 0)
  /\ UNCHANGED <<journal, unfinished, latched, effect, ops, stopped, cur, ahead,
                 closing, failed>>

PollRaises ==
  /\ pc = "async" /\ ~port.terminal /\ ~port.gone
  /\ port' \in Expired(port) /\ pc' = "closing"
  /\ UNCHANGED <<journal, unfinished, latched, effect, ops, stopped, cur, back,
                 ahead, closing, failed>>

SettleProcess ==
  /\ pc = "terminal"
  /\ \E c \in Commits :
       /\ Finish(c, back.status)
       /\ port' = [port EXCEPT !.terminal = TRUE, !.journaled = (c = "durable")]
  /\ Go("settled", "none", 0)
  /\ UNCHANGED <<unfinished, effect, cur, closing>>

\* adapter.poll closes the port and gives the loop the receipt of the result.
\* An inner port that was never started cannot be closed.
Adopt ==
  /\ pc = "settled" /\ port.journaled /\ port.child # "unstarted"
  /\ ahead' = Adopted(1) /\ pc' = After(journal[cur].paired)
  /\ port' = NoPort
  /\ UNCHANGED <<journal, unfinished, latched, effect, ops, stopped, cur, back,
                 closing, failed>>

CloseRaises ==
  /\ pc = "settled" /\ (port.child # "none" \/ ~port.journaled)
  /\ port' = [port EXCEPT !.gone = TRUE] /\ pc' = "closing"
  /\ UNCHANGED <<journal, unfinished, latched, effect, ops, stopped, cur, back,
                 ahead, closing, failed>>

-----------------------------------------------------------------------------
(* Cancel, close, crash, reopen.                                           *)

\* A cancel, or a quit.  The loop that halts asks the port to stop, too.
Cancel ==
  /\ Interrupts /\ pc = "async" /\ ~port.cancelled
  /\ \E c \in Commits : LoopCommit(c, "async")
  /\ \E quit \in BOOLEAN : closing' = (closing \/ quit)
  /\ port' \in IF port.terminal THEN {port}
               ELSE Asked([port EXCEPT !.cancelled = TRUE])
  /\ UNCHANGED <<journal, unfinished, effect, ops, stopped, cur, back, ahead>>

\* The step of the driver raised, and the session closes: it cancels what is
\* active, and goes on polling it unless the port is gone.
CloseAgent ==
  /\ pc = "closing" /\ ~closing /\ closing' = TRUE
  /\ \/ /\ port.cancelled /\ pc' = "async"
        /\ UNCHANGED <<journal, unfinished, latched, effect, ops, stopped, port,
                       ahead, failed>>
     \/ /\ ~port.cancelled /\ ~port.gone
        /\ \E c \in Commits : LoopCommit(c, "async")
        /\ port' \in Asked([port EXCEPT !.cancelled = TRUE])
        /\ UNCHANGED <<journal, unfinished, effect, ops, stopped, ahead>>
     \/ /\ ~port.cancelled /\ port.gone
        /\ Pair("unknown", "ending") /\ port' = NoPort
  /\ UNCHANGED <<cur, back>>

\* The process ends, and what it was running does not end with it.
End ==
  /\ pc' = "down" /\ back' = Nothing /\ port' = NoPort /\ closing' = FALSE
  /\ UNCHANGED <<journal, unfinished, latched, effect, ops, stopped, cur, ahead,
                 failed>>

\* The close loop raised again or has run out of polls.
GiveUp == closing /\ pc \in {"async", "closing"} /\ End
Crash  == pc # "down" /\ End

\* auto_continue: a Context with work open or in doubt is not continued.
Answered ==
  /\ ~unfinished
  /\ \A k \in Calls : /\ journal[k].tool # "none" => journal[k].paired # "none"
                      /\ journal[k].intent => journal[k].result # "none"
ContinuableAnswered == Answered   \* mutant
Continuable == Answered /\ \A k \in Calls : journal[k].result # "unknown"

Reopen ==
  /\ pc = "down" /\ Continuable
  /\ pc' = "idle" /\ ops' = NoOps /\ stopped' = FALSE /\ ahead' = 0
  /\ latched' = FALSE /\ failed' = FALSE
  /\ UNCHANGED <<journal, unfinished, effect, port, cur, back, closing>>

-----------------------------------------------------------------------------
Next ==
  \/ StartTurn \/ (\E tool \in Tools : Accept(tool)) \/ EndTurn \/ Skip
  \/ Denied \/ Read \/ Refuse \/ Begin \/ Mint
  \/ ExecuteRead \/ Execute \/ Mutate \/ CleanUp \/ Verify \/ Settle
  \/ Launch \/ SettleStart \/ TakeStart
  \/ DeadlinePasses \/ ChildEnds \/ ChildLost \/ ChildKilled
  \/ (\E k \in Calls : LeftEnds(k))
  \/ Poll \/ PollRaises \/ SettleProcess \/ Adopt \/ CloseRaises
  \/ Cancel \/ CloseAgent \/ GiveUp \/ Crash \/ Reopen

Spec == Init /\ [][Next]_vars

\* The driver polls, time passes, and a child that was asked to stop stops; a
\* close does not wait for ever.
Fairness ==
  /\ WF_vars(Poll) /\ WF_vars(DeadlinePasses) /\ WF_vars(ChildKilled)
  /\ WF_vars(GiveUp)

FairSpec == Spec /\ Fairness

-----------------------------------------------------------------------------
(* Properties.                                                             *)

\* The shape of the state.
TypeOK ==
  /\ journal \in [Calls -> Fact] /\ unfinished \in BOOLEAN
  /\ latched \in BOOLEAN /\ effect \in [Calls -> Effects]
  /\ ops \in [active : Calls \cup {0}, blocked : BOOLEAN]
  /\ stopped \in BOOLEAN /\ port \in Port
  /\ pc \in Places /\ cur \in Calls \cup {0}
  /\ back \in [status : Answers, receipts : 0..2]
  /\ ahead \in 0..2 /\ closing \in BOOLEAN /\ failed \in BOOLEAN

\* A durable result of a tool says what happened: "ok" only when all was done,
\* and "error" of a write, a rename or a delete only when nothing was
\* (execute, abort_created, settle_process).
ResultsTruthful ==
  \A k \in Calls :
    /\ journal[k].result = "ok" => effect[k] = "done"
    /\ journal[k].result = "error" /\ journal[k].tool = "direct"
         => effect[k] = "none"

\* Between calls nothing runs on that the history does not report as unknown
\* (settle_process).
NothingRunsUnreported ==
  pc \in {"idle", "turn", "ending", "accepted"}
    => \A k \in Calls :
         effect[k] = "running" => journal[k].paired = "unknown"

\* A Context is continued after a crash only when nothing that it started is
\* still running, and no file was left half written (auto_continue).
ContinuesAtRest ==
  pc = "down" /\ Continuable
    => \A k \in Calls : /\ effect[k] # "running"
                        /\ journal[k].tool = "direct" => effect[k] # "partial"

\* The loop knows every publication of the operation journal when it may commit
\* on its own, except while a process port is settled but not polled
\* (adopt_external_receipt).
KeepsUp ==
  pc \in {"idle", "turn", "ending", "accepted"}
      \/ (pc = "async" /\ ~port.terminal)
    => ahead = 0

\* A process reaches a settlement or the session ends, by the deadline at the
\* latest, if the request to stop it went out (port:poll).
CallSettles == pc = "async" ~> (pc # "async" \/ port.fault = "cancel")

\* Every effect has a durable intent before it, one operation is open at a time
\* and no result is untrue (context.lua, capabilities of the service).
Ledger == INSTANCE OperationLedger WITH
  Operations <- Calls,
  ledger <- [k \in Calls |->
               IF journal[k].result # "none" THEN journal[k].result
               ELSE IF journal[k].intent THEN "intended" ELSE "none"]
ImplementsLedger == Ledger!Spec

\* The loop halts only when a commit was not durable: durability_failure says
\* that it lost its durable Context barrier.
HaltsOnlyOnFailure == pc = "halted" => failed

\* A start failure that the port has captured reaches the loop as the result of
\* the call (port:start, adapter.poll).
StartFailureReported ==
  port.journaled /\ port.child \in {"none", "unstarted"} => ~port.gone
=============================================================================
