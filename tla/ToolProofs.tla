----------------------------- MODULE ToolProofs -----------------------------
(***************************************************************************)
(* Proofs about ToolOperations, for every number of calls: what a durable  *)
(* result says of an effect, what a crash leaves, that the loop keeps up   *)
(* with the operation journal, and that every step implements a step of    *)
(* OperationLedger.  The inductive invariant says of each call how its     *)
(* Facts and its effect agree, and of each place how far the loop is       *)
(* behind the journal and what the call at hand has done.                  *)
(***************************************************************************)
EXTENDS ToolOperations, TLAPS

-----------------------------------------------------------------------------
(* The inductive invariant.                                                *)

\* The intent of a call is durable and its result is not.
Opened(k) == journal[k].intent /\ journal[k].result = "none"

\* The result is one that may be followed by an effect.
InDoubt(k) == journal[k].result \in {"none", "unknown"}

\* tools.start has returned an answer without its receipts: the loop will halt.
Doomed == /\ pc = "returned" /\ back.status # "async"
          /\ back.receipts = 0 /\ ahead # 0

\* The open operation is that of the call at hand, and none was left in doubt.
Held == ops.active = cur /\ ~ops.blocked

\* The places at which the call at hand may run on.
Watching == {"aborted", "returned", "async", "terminal", "settled", "closing",
             "halted", "down"}
Watched  == pc \in Watching /\ (pc = "returned" => back.status = "async")

\* What the Facts of a call say of its effect, and who answers for it.
Agrees(k) ==
  /\ k > cur => journal[k] = NoCall /\ effect[k] = "none"
  /\ journal[k].result # "none" =>
       journal[k].intent /\ journal[k].paired \in {journal[k].result, "unknown"}
  /\ effect[k] # "none" => journal[k].intent
  /\ effect[k] = "running" => InDoubt(k)
  /\ effect[k] = "partial" /\ journal[k].tool = "direct" => InDoubt(k)
  /\ journal[k].result = "ok" => effect[k] = "done"
  /\ journal[k].result = "error" /\ journal[k].tool = "direct" => effect[k] = "none"
  /\ effect[k] = "running" => journal[k].paired = "unknown" \/ (k = cur /\ Watched)
  /\ Opened(k) => \/ ops.active = k \/ ops.blocked
                  \/ pc \in {"halted", "down"} \/ Doomed

\* The places at which there is a call at hand.
AtCall == {"accepted", "mint", "execute", "effect", "cleanup", "verify", "launch",
           "settling", "aborted", "returned", "async", "terminal", "settled",
           "closing"}
\* ... and at which the loop has adopted every publication.
AtLoop == {"idle", "turn", "ending", "accepted"}
\* ... and at which an operation is open and its intent not adopted.
AtWork == {"effect", "cleanup", "verify", "launch", "settling", "aborted"}
\* ... and at which a process port is polled.
AtPoll == {"async", "settled", "closing"}

\* The port of the call at hand, with n publications for the loop to adopt.
Attended(n) ==
  /\ journal[cur].tool = "process"
  /\ n \in 0..1
  /\ ~port.terminal => Opened(cur) /\ Held /\ n = 0
  /\ port.journaled => n = 1 /\ journal[cur].result # "none"

Placed ==
  /\ pc \in AtCall => cur \in Calls
  /\ pc \in AtLoop => ahead = 0
  /\ pc = "accepted" => ~journal[cur].intent /\ journal[cur].result = "none"
  /\ pc \in {"mint", "execute"} =>
       /\ effect[cur] = "none"
       /\ journal[cur].result = "none"
       /\ IF Side(cur) THEN Opened(cur) /\ Held /\ ahead = 1 ELSE ahead = 0
  /\ pc \in AtWork => Opened(cur) /\ Held /\ ahead = 1 /\ Side(cur)
  /\ pc \in {"effect", "cleanup", "verify"} => journal[cur].tool = "direct"
  /\ pc \in {"launch", "aborted"} => journal[cur].tool = "process"
  /\ pc \in {"effect", "launch"} => effect[cur] = "none"
  /\ pc = "cleanup" => effect[cur] # "running"
  /\ pc = "verify" => effect[cur] = "done"
  /\ pc \in {"settling", "aborted"} =>
       /\ back.status \in {"ok", "error", "unknown"}
       /\ back.status = "ok" => effect[cur] = "done"
       /\ back.status = "error" => effect[cur] = "none"
  /\ pc = "settling" => effect[cur] # "running"
  /\ pc = "returned" /\ back.status # "async" =>
       /\ effect[cur] # "running"
       /\ back.status \in {"ok", "error", "unknown", "raised"}
       /\ ahead = 0 => journal[cur].result = "none"
       /\ back.receipts > 0 => back.receipts = 2 /\ ahead = 2
  /\ pc = "returned" /\ back.status = "async" =>
       back.receipts = 1 /\ ahead \in 1..2 /\ Attended(ahead - 1)
  /\ pc \in AtPoll => Attended(ahead)
  /\ pc = "terminal" =>
       /\ Opened(cur) /\ Held /\ ahead = 0
       /\ journal[cur].tool = "process" /\ ~port.terminal
       /\ back.status \in Statuses
       /\ back.status = "ok" => effect[cur] = "done"
       /\ back.status \in {"error", "cancelled"} => effect[cur] # "running"
  /\ pc = "settled" => port.terminal

\* What the port says of the process.
PortAgrees ==
  /\ pc \in {"idle", "turn", "ending", "accepted", "mint", "execute", "effect",
             "cleanup", "verify", "settling", "launch", "down"} => port = NoPort
  /\ pc = "returned" /\ back.status # "async" => port = NoPort
  /\ pc = "aborted" => ~port.terminal /\ ~port.journaled /\ port.child \in {"none", "unstarted"}
  /\ port.child # "none" => cur \in Calls
  /\ port.child = "live" =>
       /\ Opened(cur) /\ effect[cur] = "running" /\ ~port.terminal
       /\ pc \in {"returned", "async", "closing", "halted"}
  /\ port.child = "ended" => effect[cur] = "done"
  /\ port.child = "killed" => effect[cur] \in {"partial", "done"}
  /\ port.journaled => port.terminal
  /\ port.gone => port.terminal

TInv ==
  /\ TypeOK
  /\ \A k \in Calls : Agrees(k)
  /\ Placed
  /\ PortAgrees

-----------------------------------------------------------------------------
(* What the operators the steps are made of do.                            *)

LEMMA Constants ==
  /\ NoPort \in Port /\ NoOps \in [active : Calls \cup {0}, blocked : BOOLEAN]
  /\ NoCall \in Fact /\ Nothing \in [status : Answers, receipts : 0..2]
BY DEF NoPort, Port, NoOps, NoCall, Fact, Tools, Statuses, Nothing, Answers

LEMMA FactFields ==
  ASSUME NEW f \in Fact
  PROVE  /\ \A s \in Statuses \cup {"skipped"} :
              LET g == [f EXCEPT !.paired = s]
              IN g \in Fact /\ g.tool = f.tool /\ g.intent = f.intent
                 /\ g.result = f.result /\ g.paired = s
         /\ \A s \in Statuses :
              LET g == [f EXCEPT !.result = s, !.paired = s]
              IN g \in Fact /\ g.tool = f.tool /\ g.intent = f.intent
                 /\ g.result = s /\ g.paired = s
         /\ LET g == [f EXCEPT !.intent = TRUE]
            IN g \in Fact /\ g.tool = f.tool /\ g.intent /\ g.result = f.result
               /\ g.paired = f.paired
BY DEF Fact

LEMMA Recorded ==
  ASSUME journal \in [Calls -> Fact], NEW k \in Calls, NEW fact \in Fact, NEW c,
         Record(c, k, fact)
  PROVE  /\ journal' \in [Calls -> Fact]
         /\ \A i \in Calls :
              journal'[i] = IF i = k /\ Written(c) THEN fact ELSE journal[i]
BY DEF Record

LEMMA Did ==
  ASSUME effect \in [Calls -> Effects], cur \in Calls, NEW e \in Effects, Done(e)
  PROVE  /\ effect' \in [Calls -> Effects]
         /\ \A i \in Calls : effect'[i] = IF i = cur THEN e ELSE effect[i]
BY DEF Done

LEMMA Committed ==
  ASSUME {latched, failed} \subseteq BOOLEAN, NEW c \in Commits, NEW next
  PROVE  /\ Commit(c) => latched' \in BOOLEAN /\ failed' \in BOOLEAN
         /\ LoopCommit(c, next) =>
              /\ latched' \in BOOLEAN /\ failed' \in BOOLEAN
              /\ pc' = next => (ahead = 0 /\ c = "durable") \/ next = "halted"
              /\ pc' \in {next, "halted"}
<1>1. Commit(c) => latched' \in BOOLEAN /\ failed' \in BOOLEAN
  BY DEF Commit
<1> QED BY <1>1 DEF LoopCommit

\* A call that is paired keeps the rest of its Facts.
LEMMA Paired ==
  ASSUME TypeOK, cur \in Calls, NEW s \in Statuses \cup {"skipped"}, NEW next,
         next # "halted", Pair(s, next)
  PROVE  /\ journal' \in [Calls -> Fact]
         /\ {latched', failed'} \subseteq BOOLEAN
         /\ pc' \in {next, "halted"}
         /\ pc' = next => ahead = 0 /\ journal'[cur].paired = s
         /\ \A i \in Calls :
              /\ journal'[i].tool = journal[i].tool /\ journal'[i].intent = journal[i].intent
              /\ journal'[i].result = journal[i].result
              /\ i # cur => journal'[i] = journal[i]
              /\ journal'[i].paired \in {journal[i].paired, s}
<1>1. /\ journal \in [Calls -> Fact] /\ journal[cur] \in Fact
      /\ {latched, failed} \subseteq BOOLEAN
  BY DEF TypeOK
<1> DEFINE f == [journal[cur] EXCEPT !.paired = s]
<1>2. PICK c \in Commits : /\ LoopCommit(c, next)
                           /\ IF ahead = 0 THEN Record(c, cur, f) ELSE UNCHANGED journal
  BY DEF Pair
<1>3. /\ f \in Fact /\ f.tool = journal[cur].tool /\ f.intent = journal[cur].intent
      /\ f.result = journal[cur].result /\ f.paired = s
  BY ZenonT(60), <1>1, FactFields
<1> HIDE DEF f
<1>4. /\ {latched', failed'} \subseteq BOOLEAN /\ pc' \in {next, "halted"}
      /\ pc' = next => ahead = 0 /\ c = "durable"
  BY <1>1, <1>2, Committed
<1>5. CASE ahead = 0
  <2>1. /\ journal' \in [Calls -> Fact]
        /\ \A i \in Calls : journal'[i] = IF i = cur /\ Written(c) THEN f ELSE journal[i]
    BY <1>1, <1>2, <1>3, <1>5, Recorded
  <2> QED BY <1>3, <1>4, <2>1 DEF Written
<1>6. CASE ahead # 0
  BY <1>1, <1>2, <1>4, <1>6
<1> QED BY <1>5, <1>6

\* The result of the call at hand, and what it leaves of the operation.
LEMMA Finished ==
  ASSUME TypeOK, cur \in Calls, NEW s \in Statuses, NEW c \in Commits,
         ahead \in 0..1, Finish(c, s)
  PROVE  /\ journal' \in [Calls -> Fact]
         /\ {latched', failed', stopped'} \subseteq BOOLEAN
         /\ ops' \in [active : Calls \cup {0}, blocked : BOOLEAN]
         /\ ahead' \in {ahead, ahead + 1}
         /\ IF c = "durable"
            THEN ahead' = ahead + 1 /\ ops'.active = 0 /\ ops'.blocked = ops.blocked
            ELSE ops'.blocked /\ ops'.active = ops.active
         /\ \A i \in Calls :
              /\ journal'[i].tool = journal[i].tool /\ journal'[i].intent = journal[i].intent
              /\ i # cur => journal'[i] = journal[i]
         /\ c = "durable" => journal'[cur].result = s
         /\ journal'[cur] = journal[cur] \/ (journal'[cur].result = s /\ journal'[cur].paired = s)
<1>1. /\ journal \in [Calls -> Fact] /\ journal[cur] \in Fact
      /\ {latched, failed, stopped} \subseteq BOOLEAN
      /\ ops \in [active : Calls \cup {0}, blocked : BOOLEAN]
  BY DEF TypeOK
<1> DEFINE f == [journal[cur] EXCEPT !.result = s, !.paired = s]
<1>2. Commit(c) /\ Record(c, cur, f) /\ ahead' = IF Written(c) THEN ahead + 1 ELSE ahead
  BY DEF Finish, OperationCommit
<1>3. /\ f \in Fact /\ f.tool = journal[cur].tool /\ f.intent = journal[cur].intent
      /\ f.result = s /\ f.paired = s
  BY ZenonT(60), <1>1, FactFields
<1> HIDE DEF f
<1>4. {latched', failed'} \subseteq BOOLEAN
  BY <1>1, <1>2, Committed
<1>5. /\ journal' \in [Calls -> Fact]
      /\ \A i \in Calls : journal'[i] = IF i = cur /\ Written(c) THEN f ELSE journal[i]
  BY <1>1, <1>2, <1>3, Recorded
<1>6. /\ stopped' \in BOOLEAN
      /\ ops' \in [active : Calls \cup {0}, blocked : BOOLEAN]
      /\ IF c = "durable" THEN ops'.active = 0 /\ ops'.blocked = ops.blocked
                          ELSE ops'.blocked /\ ops'.active = ops.active
  BY <1>1 DEF Finish
<1> QED BY <1>1, <1>2, <1>3, <1>4, <1>5, <1>6 DEF Written

\* Only what was asked of a port, and what went wrong with it, changes.
SamePort(p, q) ==
  /\ q.child = p.child /\ q.terminal = p.terminal
  /\ q.journaled = p.journaled /\ q.gone = p.gone

LEMMA AskedPort ==
  ASSUME NEW p \in Port, NEW q \in Asked(p) PROVE q \in Port /\ SamePort(p, q)
<1>1. CASE q = [p EXCEPT !.kill = TRUE]
  BY <1>1 DEF Port, SamePort
<1>2. ASSUME NEW sent \in BOOLEAN, q = [p EXCEPT !.fault = "cancel", !.kill = @ \/ sent]
      PROVE  q \in Port /\ SamePort(p, q)
  <2>1. (p.kill \/ sent) \in BOOLEAN
    OBVIOUS
  <2> QED BY <1>2, <2>1 DEF Port, SamePort
<1> QED BY <1>1, <1>2 DEF Asked

LEMMA ExpiredPort ==
  ASSUME NEW p \in Port, NEW q \in Expired(p) PROVE q \in Port /\ SamePort(p, q)
<1>1. CASE q = p
  BY <1>1 DEF SamePort
<1>2. CASE q \in Asked([p EXCEPT !.timed = TRUE])
  <2> DEFINE r == [p EXCEPT !.timed = TRUE]
  <2>1. r \in Port /\ SamePort(p, r)
    BY DEF Port, SamePort
  <2> HIDE DEF r
  <2>2. q \in Asked(r)
    BY <1>2 DEF r
  <2> QED BY <2>1, <2>2, AskedPort DEF SamePort
<1> QED BY <1>1, <1>2 DEF Expired

\* Of a process whose end is proven, settle_process says what was reported.
LEMMA VerdictOf ==
  ASSUME NEW p \in Port,
         NEW report \in {"completed", "failed", "unproven", "cancelled"}
  PROVE  /\ Verdict(p, report) \in Statuses
         /\ Verdict(p, report) = "ok" => report = "completed"
         /\ Verdict(p, report) \in {"error", "cancelled"} => report # "unproven"
BY DEF Verdict, Statuses, Port


-----------------------------------------------------------------------------
(* Every action keeps the invariant.                                       *)

LEMMA StartTurnKeeps == ASSUME TInv, StartTurn PROVE TInv'
<1>1. TypeOK'
  BY ZenonT(60), ToolOperationsAssumption DEF TInv, TypeOK, Placed, AtCall, AtLoop, AtWork, AtPoll,
         Attended, Calls, Places, Answers, Statuses, StartTurn, Commit, Commits, Written,
         LoopCommit
<1>2. (\A k \in Calls : Agrees(k))'
  BY ToolOperationsAssumption DEF TInv, TypeOK, Placed, PortAgrees, Agrees, Opened, InDoubt,
         Held, Watched, Watching, Doomed, AtCall, AtLoop, AtWork, AtPoll, Attended, Calls,
         Fact, Statuses, Tools, Side, OPERATION_TOOLS, StartTurn, Commit, Commits, Written,
         LoopCommit
<1>3. Placed'
  BY ToolOperationsAssumption DEF TInv, TypeOK, Agrees, Placed, PortAgrees, Opened, InDoubt,
         Held, AtCall, AtLoop, AtWork, AtPoll, Attended, Calls, Side, OPERATION_TOOLS,
         Tools, Fact, Port, NoPort, Statuses, StartTurn, Commit, Commits, Written,
         LoopCommit
<1>4. PortAgrees'
  BY ToolOperationsAssumption DEF TInv, TypeOK, Agrees, Placed, PortAgrees, Opened, Held,
         AtCall, AtLoop, AtWork, AtPoll, Attended, Calls, Port, NoPort, StartTurn, Commit,
         Commits, Written, LoopCommit
<1> QED BY <1>1, <1>2, <1>3, <1>4 DEF TInv

LEMMA AcceptKeeps == ASSUME TInv, NEW tool \in Tools, Accept(tool) PROVE TInv'
<1> DEFINE f == [NoCall EXCEPT !.tool = tool]
<1>1. /\ f \in Fact /\ f.tool = tool /\ ~f.intent /\ f.result = "none"
  BY Constants DEF NoCall, Fact
<1> HIDE DEF f
<1>2. /\ pc = "turn" /\ ahead = 0 /\ cur + 1 \in Calls /\ cur' = cur + 1
      /\ UNCHANGED <<unfinished, effect, ops, stopped, port, back, ahead, closing>>
  BY ToolOperationsAssumption DEF TInv, TypeOK, Placed, AtLoop, Accept, Calls
<1>3. PICK c \in Commits : LoopCommit(c, "accepted") /\ Record(c, cur + 1, f)
  BY <1>2 DEF Accept, f
<1>4. /\ {latched', failed'} \subseteq BOOLEAN /\ pc' \in {"accepted", "halted"}
      /\ pc' = "accepted" => Written(c)
      /\ journal' \in [Calls -> Fact]
      /\ \A i \in Calls : journal'[i] = IF i = cur + 1 /\ Written(c) THEN f ELSE journal[i]
  BY <1>1, <1>2, <1>3, Committed, Recorded DEF TInv, TypeOK, Written
<1>5. TypeOK'
  BY ToolOperationsAssumption, <1>1, <1>2, <1>4 DEF TInv, TypeOK, Places, Answers,
         Statuses
<1>6. (\A k \in Calls : Agrees(k))'
  BY ToolOperationsAssumption, <1>1, <1>2, <1>4 DEF TInv, TypeOK, Agrees, Opened, InDoubt,
         Held, Placed, PortAgrees, Watched, Watching, Doomed, AtCall, AtLoop, AtWork,
         AtPoll, Attended, Calls
<1>7. Placed'
  BY ToolOperationsAssumption, <1>1, <1>2, <1>4 DEF TInv, TypeOK, Agrees, Opened, InDoubt,
         Held, Placed, PortAgrees, AtCall, AtLoop, AtWork, AtPoll, Attended, Calls, Side,
         OPERATION_TOOLS, Statuses
<1>8. PortAgrees'
  BY ToolOperationsAssumption, <1>1, <1>2, <1>4 DEF TInv, TypeOK, Agrees, Opened, Held,
         Placed, PortAgrees, AtCall, AtLoop, AtWork, AtPoll, Attended, Calls, NoPort
<1> QED BY <1>5, <1>6, <1>7, <1>8 DEF TInv

LEMMA EndTurnKeeps == ASSUME TInv, EndTurn PROVE TInv'
<1>1. /\ pc \in {"turn", "ending"} /\ unfinished' \in BOOLEAN
      /\ UNCHANGED <<journal, effect, ops, stopped, port, cur, back, ahead, closing>>
  BY DEF EndTurn
<1>2. {latched', failed'} \subseteq BOOLEAN /\ pc' \in {"idle", "halted"}
  BY Committed DEF TInv, TypeOK, EndTurn
<1>3. TypeOK'
  BY <1>1, <1>2 DEF TInv, TypeOK, Places, Answers, Statuses
<1>4. (\A k \in Calls : Agrees(k))'
  BY <1>1, <1>2 DEF TInv, TypeOK, Agrees, Opened, InDoubt, Held, Placed, PortAgrees,
         Watched, Watching, Doomed, AtCall, AtLoop, AtWork, AtPoll, Attended, Calls
<1>5. Placed'
  BY <1>1, <1>2 DEF TInv, TypeOK, Agrees, Opened, InDoubt, Held, Placed, PortAgrees,
         AtCall, AtLoop, AtWork, AtPoll, Attended, Calls, Side, OPERATION_TOOLS, Statuses
<1>6. PortAgrees'
  BY <1>1, <1>2 DEF TInv, TypeOK, Agrees, Opened, Held, Placed, PortAgrees, AtCall,
         AtLoop, AtWork, AtPoll, Attended, Calls
<1> QED BY <1>3, <1>4, <1>5, <1>6 DEF TInv

LEMMA SkipKeeps == ASSUME TInv, Skip PROVE TInv'
<1>1. /\ pc = "accepted" /\ cur \in Calls
      /\ UNCHANGED <<port, cur, back, closing, unfinished, effect, ops, stopped, ahead>>
  BY DEF TInv, Placed, AtCall, Skip, Pair
<1>2. PICK next \in {"turn", "ending"} : Pair("skipped", next)
  BY DEF Skip
<1>3. /\ journal' \in [Calls -> Fact] /\ {latched', failed'} \subseteq BOOLEAN
      /\ pc' \in {"turn", "ending", "halted"}
      /\ \A i \in Calls :
           /\ journal'[i].tool = journal[i].tool /\ journal'[i].intent = journal[i].intent
           /\ journal'[i].result = journal[i].result
           /\ i # cur => journal'[i] = journal[i]
  BY <1>1, <1>2, Paired DEF TInv
<1>4. TypeOK'
  BY ToolOperationsAssumption, <1>1, <1>3 DEF TInv, TypeOK, Places, Answers, Statuses
<1>5. (\A k \in Calls : Agrees(k))'
  BY ToolOperationsAssumption, <1>1, <1>3 DEF TInv, TypeOK, Agrees, Opened, InDoubt, Held,
         Placed, PortAgrees, Watched, Watching, Doomed, AtCall, AtLoop, AtWork, AtPoll,
         Attended, Calls
<1>6. Placed'
  BY ToolOperationsAssumption, <1>1, <1>3 DEF TInv, TypeOK, Agrees, Opened, InDoubt, Held,
         Placed, PortAgrees, AtCall, AtLoop, AtWork, AtPoll, Attended, Calls, Side,
         OPERATION_TOOLS, Statuses
<1>7. PortAgrees'
  BY ToolOperationsAssumption, <1>1, <1>3 DEF TInv, TypeOK, Agrees, Opened, Held, Placed,
         PortAgrees, AtCall, AtLoop, AtWork, AtPoll, Attended, Calls
<1> QED BY <1>4, <1>5, <1>6, <1>7 DEF TInv

LEMMA DeniedKeeps == ASSUME TInv, Denied PROVE TInv'
<1>1. TypeOK'
  BY ToolOperationsAssumption DEF TInv, TypeOK, Placed, AtCall, AtLoop, AtWork, AtPoll,
         Attended, Calls, Places, Answers, Statuses, Denied, Return, Go
<1>2. (\A k \in Calls : Agrees(k))'
  BY ToolOperationsAssumption DEF TInv, TypeOK, Placed, PortAgrees, Agrees, Opened, InDoubt,
         Held, Watched, Watching, Doomed, AtCall, AtLoop, AtWork, AtPoll, Attended, Calls,
         Fact, Statuses, Tools, Side, OPERATION_TOOLS, Denied, Return, Go
<1>3. Placed'
  BY ToolOperationsAssumption DEF TInv, TypeOK, Agrees, Placed, PortAgrees, Opened, InDoubt,
         Held, AtCall, AtLoop, AtWork, AtPoll, Attended, Calls, Side, OPERATION_TOOLS,
         Tools, Fact, Port, NoPort, Statuses, Denied, Return, Go
<1>4. PortAgrees'
  BY ToolOperationsAssumption DEF TInv, TypeOK, Agrees, Placed, PortAgrees, Opened, Held,
         AtCall, AtLoop, AtWork, AtPoll, Attended, Calls, Port, NoPort, Denied, Return, Go
<1> QED BY <1>1, <1>2, <1>3, <1>4 DEF TInv

LEMMA ReadKeeps == ASSUME TInv, Read PROVE TInv'
<1>1. TypeOK'
  BY ToolOperationsAssumption DEF TInv, TypeOK, Placed, AtCall, AtLoop, AtWork, AtPoll,
         Attended, Calls, Places, Answers, Statuses, Read
<1>2. (\A k \in Calls : Agrees(k))'
  BY ToolOperationsAssumption DEF TInv, TypeOK, Placed, PortAgrees, Agrees, Opened, InDoubt,
         Held, Watched, Watching, Doomed, AtCall, AtLoop, AtWork, AtPoll, Attended, Calls,
         Fact, Statuses, Tools, Side, OPERATION_TOOLS, Read
<1>3. Placed'
  BY ToolOperationsAssumption DEF TInv, TypeOK, Agrees, Placed, PortAgrees, Opened, InDoubt,
         Held, AtCall, AtLoop, AtWork, AtPoll, Attended, Calls, Side, OPERATION_TOOLS,
         Tools, Fact, Port, NoPort, Statuses, Read
<1>4. PortAgrees'
  BY ToolOperationsAssumption DEF TInv, TypeOK, Agrees, Placed, PortAgrees, Opened, Held,
         AtCall, AtLoop, AtWork, AtPoll, Attended, Calls, Port, NoPort, Read
<1> QED BY <1>1, <1>2, <1>3, <1>4 DEF TInv

LEMMA RefuseKeeps == ASSUME TInv, Refuse PROVE TInv'
<1>1. TypeOK'
  BY ToolOperationsAssumption DEF TInv, TypeOK, Placed, AtCall, AtLoop, AtWork, AtPoll,
         Attended, Calls, Places, Answers, Statuses, Refuse, Return, Go
<1>2. (\A k \in Calls : Agrees(k))'
  BY ToolOperationsAssumption DEF TInv, TypeOK, Placed, PortAgrees, Agrees, Opened, InDoubt,
         Held, Watched, Watching, Doomed, AtCall, AtLoop, AtWork, AtPoll, Attended, Calls,
         Fact, Statuses, Tools, Side, OPERATION_TOOLS, Refuse, Return, Go
<1>3. Placed'
  BY ToolOperationsAssumption DEF TInv, TypeOK, Agrees, Placed, PortAgrees, Opened, InDoubt,
         Held, AtCall, AtLoop, AtWork, AtPoll, Attended, Calls, Side, OPERATION_TOOLS,
         Tools, Fact, Port, NoPort, Statuses, Refuse, Return, Go
<1>4. PortAgrees'
  BY ToolOperationsAssumption DEF TInv, TypeOK, Agrees, Placed, PortAgrees, Opened, Held,
         AtCall, AtLoop, AtWork, AtPoll, Attended, Calls, Port, NoPort, Refuse, Return, Go
<1> QED BY <1>1, <1>2, <1>3, <1>4 DEF TInv

LEMMA BeginKeeps == ASSUME TInv, Begin PROVE TInv'
<1> DEFINE f == [journal[cur] EXCEPT !.intent = TRUE]
<1>1. /\ pc = "accepted" /\ Side(cur) /\ ~ops.blocked /\ ops.active = 0
      /\ cur \in Calls /\ ahead = 0 /\ ~journal[cur].intent
      /\ UNCHANGED <<unfinished, effect, stopped, port, cur, closing>>
  BY DEF TInv, Placed, AtCall, AtLoop, Begin, MayBegin
<1>2. /\ f \in Fact /\ f.tool = journal[cur].tool /\ f.intent
      /\ f.result = journal[cur].result /\ f.paired = journal[cur].paired
  BY <1>1, FactFields DEF TInv, TypeOK
<1> HIDE DEF f
<1>3. PICK c \in Commits : Commit(c) /\ Record(c, cur, f) /\ Began(c)
                           /\ ahead' = IF Written(c) THEN ahead + 1 ELSE ahead
  BY DEF Begin, OperationCommit, f
<1>4. /\ {latched', failed'} \subseteq BOOLEAN /\ journal' \in [Calls -> Fact]
      /\ \A i \in Calls : journal'[i] = IF i = cur /\ Written(c) THEN f ELSE journal[i]
  BY SMTT(30), <1>1, <1>2, <1>3, Committed, Recorded DEF TInv, TypeOK
<1>5. /\ ops' \in [active : Calls \cup {0}, blocked : BOOLEAN]
      /\ ahead' = IF Written(c) THEN 1 ELSE 0
      /\ \/ /\ Written(c) /\ ops'.active = cur /\ ~ops'.blocked /\ pc' = "mint" /\ back' = back
         \/ pc' = "returned" /\ back' = [status |-> "error", receipts |-> 0]
  BY <1>1, <1>3 DEF TInv, TypeOK, Began, Return, Go, Written
<1>6. TypeOK'
  BY ToolOperationsAssumption, <1>1, <1>2, <1>4, <1>5 DEF TInv, TypeOK, Places, Answers,
         Statuses
<1>7. (\A k \in Calls : Agrees(k))'
  BY ToolOperationsAssumption, <1>1, <1>2, <1>4, <1>5 DEF TInv, TypeOK, Agrees, Opened,
         InDoubt, Held, Placed, PortAgrees, Watched, Watching, Doomed, AtCall, AtLoop,
         AtWork, AtPoll, Attended, Calls
<1>8. Placed'
  BY ToolOperationsAssumption, <1>1, <1>2, <1>4, <1>5 DEF TInv, TypeOK, Agrees, Opened,
         InDoubt, Held, Placed, PortAgrees, AtCall, AtLoop, AtWork, AtPoll, Attended,
         Calls, Side, OPERATION_TOOLS, Statuses
<1>9. PortAgrees'
  BY ToolOperationsAssumption, <1>1, <1>2, <1>4, <1>5 DEF TInv, TypeOK, Agrees, Opened,
         Held, Placed, PortAgrees, AtCall, AtLoop, AtWork, AtPoll, Attended, Calls
<1> QED BY <1>6, <1>7, <1>8, <1>9 DEF TInv

LEMMA MintKeeps == ASSUME TInv, Mint PROVE TInv'
<1>1. TypeOK'
  BY ToolOperationsAssumption DEF TInv, TypeOK, Placed, AtCall, AtLoop, AtWork, AtPoll,
         Attended, Calls, Places, Answers, Statuses, Mint, Return, Go
<1>2. (\A k \in Calls : Agrees(k))'
  BY ToolOperationsAssumption DEF TInv, TypeOK, Placed, PortAgrees, Agrees, Opened, InDoubt,
         Held, Watched, Watching, Doomed, AtCall, AtLoop, AtWork, AtPoll, Attended, Calls,
         Fact, Statuses, Tools, Side, OPERATION_TOOLS, Mint, Return, Go
<1>3. Placed'
  BY ToolOperationsAssumption DEF TInv, TypeOK, Agrees, Placed, PortAgrees, Opened, InDoubt,
         Held, AtCall, AtLoop, AtWork, AtPoll, Attended, Calls, Side, OPERATION_TOOLS,
         Tools, Fact, Port, NoPort, Statuses, Mint, Return, Go
<1>4. PortAgrees'
  BY ToolOperationsAssumption DEF TInv, TypeOK, Agrees, Placed, PortAgrees, Opened, Held,
         AtCall, AtLoop, AtWork, AtPoll, Attended, Calls, Port, NoPort, Mint, Return, Go
<1> QED BY <1>1, <1>2, <1>3, <1>4 DEF TInv

LEMMA ExecuteReadKeeps == ASSUME TInv, ExecuteRead PROVE TInv'
<1>1. TypeOK'
  BY ToolOperationsAssumption DEF TInv, TypeOK, Placed, AtCall, AtLoop, AtWork, AtPoll,
         Attended, Calls, Places, Answers, Statuses, ExecuteRead, Return, Go
<1>2. (\A k \in Calls : Agrees(k))'
  BY ToolOperationsAssumption DEF TInv, TypeOK, Placed, PortAgrees, Agrees, Opened, InDoubt,
         Held, Watched, Watching, Doomed, AtCall, AtLoop, AtWork, AtPoll, Attended, Calls,
         Fact, Statuses, Tools, Side, OPERATION_TOOLS, ExecuteRead, Return, Go
<1>3. Placed'
  BY ToolOperationsAssumption DEF TInv, TypeOK, Agrees, Placed, PortAgrees, Opened, InDoubt,
         Held, AtCall, AtLoop, AtWork, AtPoll, Attended, Calls, Side, OPERATION_TOOLS,
         Tools, Fact, Port, NoPort, Statuses, ExecuteRead, Return, Go
<1>4. PortAgrees'
  BY ToolOperationsAssumption DEF TInv, TypeOK, Agrees, Placed, PortAgrees, Opened, Held,
         AtCall, AtLoop, AtWork, AtPoll, Attended, Calls, Port, NoPort, ExecuteRead, Return,
         Go
<1> QED BY <1>1, <1>2, <1>3, <1>4 DEF TInv

LEMMA ExecuteKeeps == ASSUME TInv, Execute PROVE TInv'
<1>1. /\ pc = "execute" /\ Side(cur)
      /\ UNCHANGED <<journal, unfinished, latched, effect, ops, stopped, cur, ahead,
                     closing, failed>>
      /\ \/ pc' = "settling" /\ back' = [status |-> "error", receipts |-> 0] /\ port' = port
         \/ journal[cur].tool = "direct" /\ pc' = "effect" /\ back' = back /\ port' = port
         \/ journal[cur].tool = "process" /\ pc' = "launch" /\ back' = back /\ port' = NoPort
  BY DEF Execute, Go
<1>2. TypeOK'
  BY <1>1, Constants DEF TInv, TypeOK, Places, Answers, Statuses
<1>3. (\A k \in Calls : Agrees(k))'
  BY <1>1, Constants DEF TInv, TypeOK, Agrees, Opened, InDoubt, Held, Placed, PortAgrees,
         Watched, Watching, Doomed, AtCall, AtLoop, AtWork, AtPoll, Attended, Calls
<1>4. Placed'
  BY <1>1, Constants DEF TInv, TypeOK, Agrees, Opened, InDoubt, Held, Placed, PortAgrees,
         AtCall, AtLoop, AtWork, AtPoll, Attended, Calls, Side, OPERATION_TOOLS, Statuses
<1>5. PortAgrees'
  BY <1>1, Constants DEF TInv, TypeOK, Agrees, Opened, Held, Placed, PortAgrees, AtCall,
         AtLoop, AtWork, AtPoll, Attended, Calls, NoPort
<1> QED BY <1>2, <1>3, <1>4, <1>5 DEF TInv

LEMMA MutateKeeps == ASSUME TInv, Mutate PROVE TInv'
<1>1. PICK e \in {"none", "partial", "done"} :
        /\ Done(e)
        /\ \/ /\ pc' = "settling"
              /\ \/ back' = [status |-> "unknown", receipts |-> 0]
                 \/ e = "none" /\ back' = [status |-> "error", receipts |-> 0]
           \/ e = "partial" /\ pc' = "cleanup" /\ back' = back
           \/ e = "done" /\ pc' = "verify" /\ back' = back
  BY DEF Mutate, Go
<1>2. /\ pc = "effect" /\ cur \in Calls
      /\ UNCHANGED <<journal, unfinished, latched, ops, stopped, port, cur, ahead,
                     closing, failed>>
  BY DEF TInv, Placed, AtCall, Mutate
<1>3. /\ effect' \in [Calls -> Effects]
      /\ \A i \in Calls : effect'[i] = IF i = cur THEN e ELSE effect[i]
  BY <1>1, <1>2, Did DEF TInv, TypeOK, Effects
<1>4. TypeOK'
  BY <1>1, <1>2, <1>3 DEF TInv, TypeOK, Places, Answers, Statuses
<1>5. (\A k \in Calls : Agrees(k))'
  BY <1>1, <1>2, <1>3 DEF TInv, TypeOK, Agrees, Opened, InDoubt, Held, Placed, PortAgrees,
         Watched, Watching, Doomed, AtCall, AtLoop, AtWork, AtPoll, Attended, Calls
<1>6. Placed'
  BY <1>1, <1>2, <1>3 DEF TInv, TypeOK, Agrees, Opened, InDoubt, Held, Placed, PortAgrees,
         AtCall, AtLoop, AtWork, AtPoll, Attended, Calls, Side, OPERATION_TOOLS, Statuses
<1>7. PortAgrees'
  BY <1>1, <1>2, <1>3 DEF TInv, TypeOK, Agrees, Opened, Held, Placed, PortAgrees, AtCall,
         AtLoop, AtWork, AtPoll, Attended, Calls, NoPort
<1> QED BY <1>4, <1>5, <1>6, <1>7 DEF TInv

LEMMA CleanUpKeeps == ASSUME TInv, CleanUp PROVE TInv'
<1>1. PICK e \in {"none", "partial"} :
        /\ Done(e) /\ pc' = "settling"
        /\ \/ back' = [status |-> "unknown", receipts |-> 0]
           \/ e = "none" /\ back' = [status |-> "error", receipts |-> 0]
  BY DEF CleanUp, Go
<1>2. /\ pc = "cleanup" /\ cur \in Calls
      /\ UNCHANGED <<journal, unfinished, latched, ops, stopped, port, cur, ahead,
                     closing, failed>>
  BY DEF TInv, Placed, AtCall, CleanUp
<1>3. /\ effect' \in [Calls -> Effects]
      /\ \A i \in Calls : effect'[i] = IF i = cur THEN e ELSE effect[i]
  BY <1>1, <1>2, Did DEF TInv, TypeOK, Effects
<1>4. TypeOK'
  BY <1>1, <1>2, <1>3 DEF TInv, TypeOK, Places, Answers, Statuses
<1>5. (\A k \in Calls : Agrees(k))'
  BY <1>1, <1>2, <1>3 DEF TInv, TypeOK, Agrees, Opened, InDoubt, Held, Placed, PortAgrees,
         Watched, Watching, Doomed, AtCall, AtLoop, AtWork, AtPoll, Attended, Calls
<1>6. Placed'
  BY <1>1, <1>2, <1>3 DEF TInv, TypeOK, Agrees, Opened, InDoubt, Held, Placed, PortAgrees,
         AtCall, AtLoop, AtWork, AtPoll, Attended, Calls, Side, OPERATION_TOOLS, Statuses
<1>7. PortAgrees'
  BY <1>1, <1>2, <1>3 DEF TInv, TypeOK, Agrees, Opened, Held, Placed, PortAgrees, AtCall,
         AtLoop, AtWork, AtPoll, Attended, Calls, NoPort
<1> QED BY <1>4, <1>5, <1>6, <1>7 DEF TInv

LEMMA VerifyKeeps == ASSUME TInv, Verify PROVE TInv'
<1>1. TypeOK'
  BY ToolOperationsAssumption DEF TInv, TypeOK, Placed, AtCall, AtLoop, AtWork, AtPoll,
         Attended, Calls, Places, Answers, Statuses, Verify, Checked, Go
<1>2. (\A k \in Calls : Agrees(k))'
  BY ToolOperationsAssumption DEF TInv, TypeOK, Placed, PortAgrees, Agrees, Opened, InDoubt,
         Held, Watched, Watching, Doomed, AtCall, AtLoop, AtWork, AtPoll, Attended, Calls,
         Fact, Statuses, Tools, Side, OPERATION_TOOLS, Verify, Checked, Go
<1>3. Placed'
  BY ToolOperationsAssumption DEF TInv, TypeOK, Agrees, Placed, PortAgrees, Opened, InDoubt,
         Held, AtCall, AtLoop, AtWork, AtPoll, Attended, Calls, Side, OPERATION_TOOLS,
         Tools, Fact, Port, NoPort, Statuses, Verify, Checked, Go
<1>4. PortAgrees'
  BY ToolOperationsAssumption DEF TInv, TypeOK, Agrees, Placed, PortAgrees, Opened, Held,
         AtCall, AtLoop, AtWork, AtPoll, Attended, Calls, Port, NoPort, Verify, Checked, Go
<1> QED BY <1>1, <1>2, <1>3, <1>4 DEF TInv

LEMMA SettleKeeps == ASSUME TInv, Settle PROVE TInv'
<1>1. PICK c \in Commits :
        /\ Finish(c, back.status) /\ pc' = "returned"
        /\ back' = IF c = "durable" THEN [status |-> back.status, receipts |-> 2]
                                    ELSE [status |-> "raised", receipts |-> 0]
  BY DEF Settle, Return, Go
<1>2. /\ pc = "settling" /\ cur \in Calls /\ ahead = 1 /\ Opened(cur) /\ Side(cur)
      /\ back.status \in {"ok", "error", "unknown"}
      /\ UNCHANGED <<unfinished, effect, port, cur, closing>>
  BY DEF TInv, Placed, AtCall, AtWork, Settle
<1>3. /\ journal' \in [Calls -> Fact]
      /\ {latched', failed', stopped'} \subseteq BOOLEAN
      /\ ops' \in [active : Calls \cup {0}, blocked : BOOLEAN]
      /\ ahead' \in {1, 2}
      /\ IF c = "durable" THEN ahead' = 2 /\ ops'.active = 0 /\ ops'.blocked = ops.blocked
                          ELSE ops'.blocked /\ ops'.active = ops.active
      /\ \A i \in Calls :
           /\ journal'[i].tool = journal[i].tool /\ journal'[i].intent = journal[i].intent
           /\ i # cur => journal'[i] = journal[i]
      /\ c = "durable" => journal'[cur].result = back.status
      /\ \/ journal'[cur] = journal[cur]
         \/ journal'[cur].result = back.status /\ journal'[cur].paired = back.status
  BY <1>1, <1>2, Finished DEF TInv, Statuses
<1>4. TypeOK'
  BY ToolOperationsAssumption, <1>1, <1>2, <1>3 DEF TInv, TypeOK, Places, Answers,
         Statuses
<1>5. (\A k \in Calls : Agrees(k))'
  BY ToolOperationsAssumption, <1>1, <1>2, <1>3 DEF TInv, TypeOK, Agrees, Opened, InDoubt,
         Held, Placed, PortAgrees, Watched, Watching, Doomed, AtCall, AtLoop, AtWork,
         AtPoll, Attended, Calls
<1>6. Placed'
  BY ToolOperationsAssumption, <1>1, <1>2, <1>3 DEF TInv, TypeOK, Agrees, Opened, InDoubt,
         Held, Placed, PortAgrees, AtCall, AtLoop, AtWork, AtPoll, Attended, Calls, Side,
         OPERATION_TOOLS, Statuses
<1>7. PortAgrees'
  BY ToolOperationsAssumption, <1>1, <1>2, <1>3 DEF TInv, TypeOK, Agrees, Opened, Held,
         Placed, PortAgrees, AtCall, AtLoop, AtWork, AtPoll, Attended, Calls
<1> QED BY <1>4, <1>5, <1>6, <1>7 DEF TInv

LEMMA LaunchKeeps == ASSUME TInv, Launch PROVE TInv'
<1>1. /\ pc = "launch" /\ cur \in Calls /\ port = NoPort
      /\ UNCHANGED <<journal, unfinished, latched, ops, stopped, cur, ahead, closing, failed>>
  BY DEF TInv, Placed, PortAgrees, AtCall, Launch
<1>2. PICK e \in {"none", "running"} :
        /\ \/ /\ pc' = "aborted" /\ back' = [status |-> "error", receipts |-> 0]
              /\ e = "none" /\ effect' = effect /\ port' = port
           \/ /\ pc' = "aborted" /\ back' = [status |-> "unknown", receipts |-> 0]
              /\ Done(e) /\ port' = [port EXCEPT !.child = "unstarted"]
           \/ /\ pc' = "returned" /\ back' = [status |-> "async", receipts |-> 1]
              /\ e = "running" /\ Done(e) /\ port' = [port EXCEPT !.child = "live"]
  BY DEF Launch, Go, Handle, Return
<1>3. /\ effect' \in [Calls -> Effects] /\ effect'[cur] = e
      /\ \A i \in Calls : i # cur => effect'[i] = effect[i]
  <2>1. effect \in [Calls -> Effects] /\ effect[cur] = "none"
    BY <1>1 DEF TInv, TypeOK, Placed
  <2> QED BY <1>1, <1>2, <2>1, Did DEF Effects
<1>4. /\ port' \in Port /\ ~port'.terminal /\ ~port'.journaled /\ ~port'.gone
      /\ \/ pc' = "aborted" /\ port'.child \in {"none", "unstarted"}
         \/ pc' = "returned" /\ port'.child = "live"
  BY <1>1, <1>2, Constants DEF NoPort, Port
<1>5. /\ pc' \in {"aborted", "returned"} /\ back' \in [status : Answers, receipts : 0..2]
      /\ pc' = "aborted" => /\ back'.status \in {"error", "unknown"}
                            /\ back'.status = "error" => effect'[cur] = "none"
      /\ pc' = "returned" => /\ back'.status = "async" /\ back'.receipts = 1
                             /\ effect'[cur] = "running"
  BY <1>2, <1>3 DEF Answers, Statuses
<1>6. TypeOK'
  BY <1>1, <1>3, <1>4, <1>5 DEF TInv, TypeOK, Places, Answers, Statuses
<1>7. (\A k \in Calls : Agrees(k))'
  BY <1>1, <1>3, <1>4, <1>5 DEF TInv, TypeOK, Agrees, Opened, InDoubt, Held, Placed,
         PortAgrees, Watched, Watching, Doomed, AtCall, AtLoop, AtWork, AtPoll, Attended,
         Calls
<1>8. Placed'
  BY <1>1, <1>3, <1>4, <1>5 DEF TInv, TypeOK, Agrees, Opened, InDoubt, Held, Placed,
         PortAgrees, AtCall, AtLoop, AtWork, AtPoll, Attended, Calls, Side,
         OPERATION_TOOLS, Statuses
<1>9. PortAgrees'
  BY <1>1, <1>3, <1>4, <1>5 DEF TInv, TypeOK, Agrees, Opened, Held, Placed, PortAgrees,
         AtCall, AtLoop, AtWork, AtPoll, Attended, Calls
<1> QED BY <1>6, <1>7, <1>8, <1>9 DEF TInv

LEMMA SettleStartKeeps == ASSUME TInv, SettleStart PROVE TInv'
<1>1. PICK c \in Commits :
        /\ Finish(c, back.status)
        /\ port' = [port EXCEPT !.terminal = TRUE, !.journaled = (c = "durable")]
  BY DEF SettleStart
<1>2. /\ pc = "aborted" /\ cur \in Calls /\ ahead = 1 /\ Opened(cur)
      /\ journal[cur].tool = "process" /\ back.status \in {"ok", "error", "unknown"}
      /\ pc' = "returned" /\ back' = [status |-> "async", receipts |-> 1]
      /\ UNCHANGED <<unfinished, effect, cur, closing>>
  BY DEF TInv, Placed, AtCall, AtWork, SettleStart, Handle, Return, Go
<1>3. /\ journal' \in [Calls -> Fact]
      /\ {latched', failed', stopped'} \subseteq BOOLEAN
      /\ ops' \in [active : Calls \cup {0}, blocked : BOOLEAN]
      /\ ahead' \in {1, 2}
      /\ IF c = "durable" THEN ahead' = 2 /\ ops'.active = 0 /\ ops'.blocked = ops.blocked
                          ELSE ops'.blocked /\ ops'.active = ops.active
      /\ \A i \in Calls :
           /\ journal'[i].tool = journal[i].tool /\ journal'[i].intent = journal[i].intent
           /\ i # cur => journal'[i] = journal[i]
      /\ c = "durable" => journal'[cur].result = back.status
      /\ \/ journal'[cur] = journal[cur]
         \/ journal'[cur].result = back.status /\ journal'[cur].paired = back.status
  BY <1>1, <1>2, Finished DEF TInv, Statuses
<1>4. /\ port' \in Port /\ port'.terminal /\ port'.child = port.child
      /\ port'.gone = port.gone /\ (port'.journaled <=> c = "durable")
  BY <1>1 DEF TInv, TypeOK, Port
<1>5. TypeOK'
  BY ToolOperationsAssumption, <1>1, <1>2, <1>3, <1>4 DEF TInv, TypeOK, Places, Answers,
         Statuses
<1>6. (\A k \in Calls : Agrees(k))'
  BY ToolOperationsAssumption, <1>1, <1>2, <1>3, <1>4 DEF TInv, TypeOK, Agrees, Opened,
         InDoubt, Held, Placed, PortAgrees, Watched, Watching, Doomed, AtCall, AtLoop,
         AtWork, AtPoll, Attended, Calls
<1>7. Placed'
  BY ToolOperationsAssumption, <1>1, <1>2, <1>3, <1>4 DEF TInv, TypeOK, Agrees, Opened,
         InDoubt, Held, Placed, PortAgrees, AtCall, AtLoop, AtWork, AtPoll, Attended,
         Calls, Side, OPERATION_TOOLS, Statuses
<1>8. PortAgrees'
  BY ToolOperationsAssumption, <1>1, <1>2, <1>3, <1>4 DEF TInv, TypeOK, Agrees, Opened,
         Held, Placed, PortAgrees, AtCall, AtLoop, AtWork, AtPoll, Attended, Calls
<1> QED BY <1>5, <1>6, <1>7, <1>8 DEF TInv

LEMMA TakeStartKeeps == ASSUME TInv, TakeStart PROVE TInv'
<1>1. /\ pc = "returned" /\ cur \in Calls /\ back' = Nothing
      /\ UNCHANGED <<port, cur, closing>>
  BY DEF TInv, Placed, AtCall, TakeStart
<1>2. \A s : After(s) \in {"turn", "ending"}
  BY DEF After
<1>3. CASE back.receipts = 0 /\ back.status # "async"
  <2> DEFINE status == IF back.status # "raised" THEN back.status
                       ELSE IF Side(cur) THEN "unknown" ELSE "error"
  <2>1. status \in Statuses \cup {"skipped"} /\ After(status) # "halted"
    BY <1>1, <1>2, <1>3 DEF TInv, Placed, Statuses
  <2>2. Pair(status, After(status))
    BY <1>3 DEF TakeStart
  <2> HIDE DEF status
  <2>3. /\ journal' \in [Calls -> Fact] /\ {latched', failed'} \subseteq BOOLEAN
        /\ pc' \in {"turn", "ending", "halted"}
        /\ pc' # "halted" => ahead = 0
        /\ \A i \in Calls :
             /\ journal'[i].tool = journal[i].tool /\ journal'[i].intent = journal[i].intent
             /\ journal'[i].result = journal[i].result
             /\ i # cur => journal'[i] = journal[i]
    BY <1>1, <1>2, <2>1, <2>2, Paired DEF TInv
  <2>4. /\ journal[cur].result # "none" => journal' = journal
        /\ UNCHANGED <<unfinished, effect, ops, stopped, ahead>>
    BY <1>1, <1>3, <2>2 DEF Pair, TInv, Placed
  <2>5. TypeOK'
    BY <1>1, <2>3, <2>4, Constants DEF TInv, TypeOK, Places
  <2>6. (\A k \in Calls : Agrees(k))'
    BY <1>1, <1>3, <2>3, <2>4
       DEF TInv, TypeOK, Placed, Agrees, Opened, InDoubt, Watched, Watching, Doomed, Calls
  <2>7. Placed' /\ PortAgrees'
    BY <1>1, <1>3, <2>3, <2>4
       DEF TInv, TypeOK, Placed, PortAgrees, AtCall, AtLoop, AtWork, AtPoll, NoPort
  <2> QED BY <2>5, <2>6, <2>7 DEF TInv
<1>4. CASE back.receipts > 0 \/ back.status = "async"
  <2>1. /\ ahead' = ahead - back.receipts
        /\ pc' = IF back.status = "async" THEN "async" ELSE After(back.status)
        /\ UNCHANGED <<journal, unfinished, latched, effect, ops, stopped, failed>>
    BY <1>4 DEF TakeStart, Adopted, TInv, TypeOK
  <2>2. CASE back.status = "async"
    <3>1. ahead' \in 0..1 /\ ahead' = ahead - 1 /\ pc' = "async" /\ Attended(ahead')
      BY <1>1, <2>1, <2>2 DEF TInv, TypeOK, Placed
    <3>2. TypeOK'
      BY <1>1, <2>1, <3>1, Constants DEF TInv, TypeOK, Places
    <3>3. (\A k \in Calls : Agrees(k))'
      BY <1>1, <2>1, <2>2, <3>1
         DEF TInv, Agrees, Opened, InDoubt, Watched, Watching, Doomed
    <3>4. Placed' /\ PortAgrees'
      BY <1>1, <2>1, <2>2, <3>1
         DEF TInv, Placed, PortAgrees, AtCall, AtLoop, AtWork, AtPoll, Attended, Opened, Held
    <3> QED BY <3>2, <3>3, <3>4 DEF TInv
  <2>3. CASE back.status # "async"
    <3>1. ahead' = 0 /\ pc' \in {"turn", "ending"} /\ back.receipts # 0
      BY <1>1, <1>2, <1>4, <2>1, <2>3 DEF TInv, TypeOK, Placed
    <3>2. TypeOK'
      BY <1>1, <2>1, <3>1, Constants DEF TInv, TypeOK, Places
    <3>3. (\A k \in Calls : Agrees(k))'
      BY <1>1, <2>1, <2>3, <3>1
         DEF TInv, Placed, Agrees, Opened, InDoubt, Watched, Watching, Doomed
    <3>4. Placed' /\ PortAgrees'
      BY <1>1, <2>1, <2>3, <3>1
         DEF TInv, Placed, PortAgrees, AtCall, AtLoop, AtWork, AtPoll, NoPort
    <3> QED BY <3>2, <3>3, <3>4 DEF TInv
  <2> QED BY <2>2, <2>3
<1> QED BY <1>3, <1>4 DEF TakeStart

LEMMA DeadlinePassesKeeps == ASSUME TInv, DeadlinePasses PROVE TInv'
<1>1. TypeOK'
  BY ZenonT(60), ToolOperationsAssumption DEF TInv, TypeOK, Placed, AtCall, AtLoop, AtWork, AtPoll,
         Attended, Calls, Places, Answers, Statuses, DeadlinePasses, Port
<1>2. (\A k \in Calls : Agrees(k))'
  BY ToolOperationsAssumption DEF TInv, TypeOK, Placed, PortAgrees, Agrees, Opened, InDoubt,
         Held, Watched, Watching, Doomed, AtCall, AtLoop, AtWork, AtPoll, Attended, Calls,
         Fact, Statuses, Tools, Side, OPERATION_TOOLS, DeadlinePasses
<1>3. Placed'
  BY ToolOperationsAssumption DEF TInv, TypeOK, Agrees, Placed, PortAgrees, Opened, InDoubt,
         Held, AtCall, AtLoop, AtWork, AtPoll, Attended, Calls, Side, OPERATION_TOOLS,
         Tools, Fact, Port, NoPort, Statuses, DeadlinePasses
<1>4. PortAgrees'
  BY ToolOperationsAssumption DEF TInv, TypeOK, Agrees, Placed, PortAgrees, Opened, Held,
         AtCall, AtLoop, AtWork, AtPoll, Attended, Calls, Port, NoPort, DeadlinePasses
<1> QED BY <1>1, <1>2, <1>3, <1>4 DEF TInv

\* The end of a child is noted wherever the loop is.
LEMMA ChildBecomesKeeps == ASSUME TInv, NEW end, NEW effects, ChildBecomes(end, effects),
         \/ end = "ended" /\ effects = {"done"}
         \/ end = "killed" /\ effects = {"partial", "done"}
         \/ end = "lost" /\ effects = {"running"}
  PROVE TInv'
<1>1. PICK e \in effects : Done(e)
  BY DEF ChildBecomes
<1>2. /\ port.child = "live" /\ cur \in Calls /\ port' = [port EXCEPT !.child = end]
      /\ UNCHANGED <<journal, unfinished, latched, ops, stopped, pc, cur, back,
                     ahead, closing, failed>>
  BY DEF TInv, PortAgrees, ChildBecomes
<1>3. /\ effect' \in [Calls -> Effects]
      /\ \A i \in Calls : effect'[i] = IF i = cur THEN e ELSE effect[i]
  BY <1>1, <1>2, Did DEF TInv, TypeOK, Effects
<1>4. /\ port' \in Port /\ port'.child = end /\ port'.terminal = port.terminal
      /\ port'.journaled = port.journaled /\ port'.gone = port.gone
  BY <1>2 DEF TInv, TypeOK, Port
<1>5. TypeOK'
  BY <1>1, <1>2, <1>3, <1>4 DEF TInv, TypeOK, Places, Answers, Statuses
<1>6. (\A k \in Calls : Agrees(k))'
  BY <1>1, <1>2, <1>3, <1>4 DEF TInv, TypeOK, Agrees, Opened, InDoubt, Held, Placed,
         PortAgrees, Watched, Watching, Doomed, AtCall, AtLoop, AtWork, AtPoll, Attended,
         Calls
<1>7. Placed'
  BY <1>1, <1>2, <1>3, <1>4 DEF TInv, TypeOK, Agrees, Opened, InDoubt, Held, Placed,
         PortAgrees, AtCall, AtLoop, AtWork, AtPoll, Attended, Calls, Side,
         OPERATION_TOOLS, Statuses
<1>8. PortAgrees'
  BY <1>1, <1>2, <1>3, <1>4 DEF TInv, TypeOK, Agrees, Opened, Held, Placed, PortAgrees,
         AtCall, AtLoop, AtWork, AtPoll, Attended, Calls, NoPort
<1> QED BY <1>5, <1>6, <1>7, <1>8 DEF TInv

LEMMA LeftEndsKeeps == ASSUME TInv, NEW i \in Calls, LeftEnds(i) PROVE TInv'
<1>1. TypeOK'
  BY ToolOperationsAssumption DEF TInv, TypeOK, Placed, AtCall, AtLoop, AtWork, AtPoll,
         Attended, Calls, Places, Answers, Statuses, LeftEnds, Effects
<1>2. (\A k \in Calls : Agrees(k))'
  BY ToolOperationsAssumption DEF TInv, TypeOK, Placed, PortAgrees, Agrees, Opened, InDoubt,
         Held, Watched, Watching, Doomed, AtCall, AtLoop, AtWork, AtPoll, Attended, Calls,
         Fact, Statuses, Tools, Side, OPERATION_TOOLS, LeftEnds
<1>3. Placed'
  BY ToolOperationsAssumption DEF TInv, TypeOK, Agrees, Placed, PortAgrees, Opened, InDoubt,
         Held, AtCall, AtLoop, AtWork, AtPoll, Attended, Calls, Side, OPERATION_TOOLS,
         Tools, Fact, Port, NoPort, Statuses, LeftEnds
<1>4. PortAgrees'
  BY ToolOperationsAssumption DEF TInv, TypeOK, Agrees, Placed, PortAgrees, Opened, Held,
         AtCall, AtLoop, AtWork, AtPoll, Attended, Calls, Port, NoPort, LeftEnds
<1> QED BY <1>1, <1>2, <1>3, <1>4 DEF TInv

LEMMA PollKeeps == ASSUME TInv, Poll PROVE TInv'
<1>1. /\ pc = "async" /\ cur \in Calls /\ ~port.gone
      /\ UNCHANGED <<journal, unfinished, latched, effect, ops, stopped, cur, ahead,
                     closing, failed>>
  BY DEF TInv, Placed, AtCall, Poll
<1>2. CASE port.terminal /\ pc' = "settled" /\ UNCHANGED <<port, back>>
  <2>1. TypeOK'
    BY <1>1, <1>2 DEF TInv, TypeOK, Places
  <2>2. (\A k \in Calls : Agrees(k))'
    BY <1>1, <1>2 DEF TInv, Agrees, Opened, InDoubt, Held, Watched, Watching, Doomed
  <2>3. Placed' /\ PortAgrees'
    BY <1>1, <1>2 DEF TInv, Placed, PortAgrees, Opened, Held, AtCall, AtLoop, AtWork, AtPoll,
                      Attended
  <2> QED BY <2>1, <2>2, <2>3 DEF TInv
<1>3. ASSUME ~port.terminal, NEW p \in Expired(port), NEW scan \in BOOLEAN,
             port' = IF scan /\ p.fault = "none" THEN [p EXCEPT !.fault = "scan"] ELSE p,
             \/ UNCHANGED <<pc, back>>
             \/ \E report \in Reports(port'.child) :
                  Go("terminal", Verdict(port', report), 0)
      PROVE  TInv'
  <2>1. p \in Port /\ SamePort(port, p)
    BY ExpiredPort DEF TInv, TypeOK
  <2>2. port' \in Port /\ SamePort(port, port')
    BY <1>3, <2>1 DEF Port, SamePort
  <2>3. CASE UNCHANGED <<pc, back>>
    <3>1. TypeOK'
      BY <1>1, <2>2, <2>3 DEF TInv, TypeOK
    <3>2. (\A k \in Calls : Agrees(k))'
      BY <1>1, <2>3 DEF TInv, Agrees, Opened, InDoubt, Held, Watched, Watching, Doomed
    <3>3. Placed' /\ PortAgrees'
      BY <1>1, <1>3, <2>2, <2>3 DEF TInv, Placed, PortAgrees, Opened, Held, AtCall, AtLoop, AtWork,
                               AtPoll, Attended, SamePort
    <3> QED BY <3>1, <3>2, <3>3 DEF TInv
  <2>4. ASSUME NEW report \in Reports(port'.child),
               Go("terminal", Verdict(port', report), 0)
        PROVE  TInv'
    <3>1. /\ port.child \in {"ended", "killed", "lost"}
          /\ report \in {"completed", "failed", "unproven", "cancelled"}
          /\ report \in {"completed", "failed"} => port.child = "ended"
          /\ report # "unproven" => port.child \in {"ended", "killed"}
      BY <2>2, <2>4 DEF Reports, SamePort
    <3>2. /\ Verdict(port', report) \in Statuses
          /\ Verdict(port', report) = "ok" => report = "completed"
          /\ Verdict(port', report) \in {"error", "cancelled"} => report # "unproven"
      BY <2>2, <3>1, VerdictOf
    <3>3. /\ pc' = "terminal"
          /\ back'.status \in Statuses /\ back' \in [status : Answers, receipts : 0..2]
          /\ back'.status = "ok" => effect[cur] = "done"
          /\ back'.status \in {"error", "cancelled"} => effect[cur] # "running"
      BY <2>4, <3>1, <3>2 DEF Go, TInv, PortAgrees, Answers
    <3>4. TypeOK'
      BY <1>1, <2>2, <3>3 DEF TInv, TypeOK, Places
    <3>5. (\A k \in Calls : Agrees(k))'
      BY <1>1, <3>3 DEF TInv, Agrees, Opened, InDoubt, Held, Watched, Watching, Doomed
    <3>6. Placed' /\ PortAgrees'
      BY <1>1, <1>3, <2>2, <3>1, <3>3 DEF TInv, Placed, PortAgrees, Opened, Held, AtCall, AtLoop,
                               AtWork, AtPoll, Attended, SamePort
    <3> QED BY <3>4, <3>5, <3>6 DEF TInv
  <2> QED BY <1>3, <2>3, <2>4
<1> QED BY <1>2, <1>3 DEF Poll

LEMMA PollRaisesKeeps == ASSUME TInv, PollRaises PROVE TInv'
<1>1. /\ pc = "async" /\ cur \in Calls /\ ~port.terminal /\ pc' = "closing"
      /\ UNCHANGED <<journal, unfinished, latched, effect, ops, stopped, cur, back,
                     ahead, closing, failed>>
  BY DEF TInv, Placed, AtCall, PollRaises
<1>2. port' \in Port /\ SamePort(port, port')
  BY ExpiredPort DEF TInv, TypeOK, PollRaises
<1>3. TypeOK'
  BY <1>1, <1>2 DEF TInv, TypeOK, Places, Answers, Statuses
<1>4. (\A k \in Calls : Agrees(k))'
  BY <1>1, <1>2 DEF TInv, TypeOK, Agrees, Opened, InDoubt, Held, Placed, PortAgrees,
         Watched, Watching, Doomed, AtCall, AtLoop, AtWork, AtPoll, Attended, Calls
<1>5. Placed'
  BY <1>1, <1>2 DEF TInv, TypeOK, Agrees, Opened, InDoubt, Held, Placed, PortAgrees,
         AtCall, AtLoop, AtWork, AtPoll, Attended, Calls, Side, OPERATION_TOOLS, Statuses,
         SamePort
<1>6. PortAgrees'
  BY <1>1, <1>2 DEF TInv, TypeOK, Agrees, Opened, Held, Placed, PortAgrees, AtCall,
         AtLoop, AtWork, AtPoll, Attended, Calls, SamePort
<1> QED BY <1>3, <1>4, <1>5, <1>6 DEF TInv

LEMMA SettleProcessKeeps == ASSUME TInv, SettleProcess PROVE TInv'
<1>1. PICK c \in Commits :
        /\ Finish(c, back.status)
        /\ port' = [port EXCEPT !.terminal = TRUE, !.journaled = (c = "durable")]
  BY DEF SettleProcess
<1>2. /\ pc = "terminal" /\ cur \in Calls /\ ahead = 0 /\ Opened(cur) /\ Held
      /\ journal[cur].tool = "process" /\ back.status \in Statuses
      /\ pc' = "settled" /\ back' = [status |-> "none", receipts |-> 0]
      /\ UNCHANGED <<unfinished, effect, cur, closing>>
      /\ back.status = "ok" => effect[cur] = "done"
      /\ back.status \in {"error", "cancelled"} => effect[cur] # "running"
  BY DEF TInv, Placed, AtCall, SettleProcess, Go
<1>3. /\ journal' \in [Calls -> Fact]
      /\ {latched', failed', stopped'} \subseteq BOOLEAN
      /\ ops' \in [active : Calls \cup {0}, blocked : BOOLEAN]
      /\ ahead' \in {0, 1}
      /\ IF c = "durable" THEN ahead' = 1 /\ ops'.active = 0 /\ ops'.blocked = ops.blocked
                          ELSE ops'.blocked /\ ops'.active = ops.active
      /\ \A i \in Calls :
           /\ journal'[i].tool = journal[i].tool /\ journal'[i].intent = journal[i].intent
           /\ i # cur => journal'[i] = journal[i]
      /\ c = "durable" => journal'[cur].result = back.status
      /\ \/ journal'[cur] = journal[cur]
         \/ journal'[cur].result = back.status /\ journal'[cur].paired = back.status
  BY <1>1, <1>2, Finished DEF TInv
<1>4. /\ port' \in Port /\ port'.terminal /\ port'.child = port.child
      /\ port'.gone = port.gone /\ (port'.journaled <=> c = "durable")
  BY <1>1 DEF TInv, TypeOK, Port
<1>5. TypeOK'
  BY <1>2, <1>3, <1>4 DEF TInv, TypeOK, Places, Answers
<1>6. (\A k \in Calls : Agrees(k))'
  <2>1. ASSUME NEW k \in Calls, k # cur PROVE Agrees(k)'
    BY <1>2, <1>3, <2>1
       DEF TInv, Agrees, Opened, InDoubt, Watched, Watching, Doomed, Held
  <2>2. ASSUME journal'[cur] = journal[cur] PROVE Agrees(cur)'
    <3>1. ops'.blocked
      BY <1>2, <1>3, <2>2 DEF Opened, Statuses
    <3> QED BY <1>2, <1>3, <2>2, <3>1
            DEF TInv, Agrees, Opened, InDoubt, Watched, Watching
  <2>3. ASSUME journal'[cur].result = back.status, journal'[cur].paired = back.status
        PROVE  Agrees(cur)'
    <3>1. /\ effect'[cur] = "running" => back.status = "unknown"
          /\ journal'[cur].tool = "process" /\ journal'[cur].intent /\ ~(cur > cur)
          /\ back.status # "none"
      BY <1>2, <1>3 DEF TInv, TypeOK, Opened, Statuses, Calls
    <3> QED BY <1>2, <1>3, <2>3, <3>1 DEF TInv, Agrees, Opened, InDoubt, Watched, Watching
  <2> QED BY <1>2, <1>3, <2>1, <2>2, <2>3
<1>7. Placed' /\ PortAgrees'
  BY <1>2, <1>3, <1>4 DEF TInv, Placed, PortAgrees, Opened, AtCall, AtLoop, AtWork,
                          AtPoll, Attended, Statuses
<1> QED BY <1>5, <1>6, <1>7 DEF TInv

LEMMA AdoptKeeps == ASSUME TInv, Adopt PROVE TInv'
<1>1. TypeOK'
  BY ToolOperationsAssumption DEF TInv, TypeOK, Placed, AtCall, AtLoop, AtWork, AtPoll,
         Attended, Calls, Places, Answers, Statuses, Adopt, Adopted, After, NoPort, Port
<1>2. (\A k \in Calls : Agrees(k))'
  BY ToolOperationsAssumption DEF TInv, TypeOK, Placed, PortAgrees, Agrees, Opened, InDoubt,
         Held, Watched, Watching, Doomed, AtCall, AtLoop, AtWork, AtPoll, Attended, Calls,
         Fact, Statuses, Tools, Side, OPERATION_TOOLS, Adopt, Adopted, After, NoPort
<1>3. Placed'
  BY ToolOperationsAssumption DEF TInv, TypeOK, Agrees, Placed, PortAgrees, Opened, InDoubt,
         Held, AtCall, AtLoop, AtWork, AtPoll, Attended, Calls, Side, OPERATION_TOOLS,
         Tools, Fact, Port, NoPort, Statuses, Adopt, Adopted, After
<1>4. PortAgrees'
  BY ToolOperationsAssumption DEF TInv, TypeOK, Agrees, Placed, PortAgrees, Opened, Held,
         AtCall, AtLoop, AtWork, AtPoll, Attended, Calls, Port, NoPort, Adopt, Adopted,
         After
<1> QED BY <1>1, <1>2, <1>3, <1>4 DEF TInv

LEMMA CloseRaisesKeeps == ASSUME TInv, CloseRaises PROVE TInv'
<1>1. TypeOK'
  <2>1. port' \in Port
    BY DEF TInv, TypeOK, CloseRaises, Port
  <2> QED BY <2>1 DEF TInv, TypeOK, CloseRaises, Places
<1>2. (\A k \in Calls : Agrees(k))'
  BY ToolOperationsAssumption DEF TInv, TypeOK, Placed, PortAgrees, Agrees, Opened, InDoubt,
         Held, Watched, Watching, Doomed, AtCall, AtLoop, AtWork, AtPoll, Attended, Calls,
         Fact, Statuses, Tools, Side, OPERATION_TOOLS, CloseRaises
<1>3. Placed'
  BY ToolOperationsAssumption DEF TInv, TypeOK, Agrees, Placed, PortAgrees, Opened, InDoubt,
         Held, AtCall, AtLoop, AtWork, AtPoll, Attended, Calls, Side, OPERATION_TOOLS,
         Tools, Fact, Port, NoPort, Statuses, CloseRaises
<1>4. PortAgrees'
  BY ToolOperationsAssumption DEF TInv, TypeOK, Agrees, Placed, PortAgrees, Opened, Held,
         AtCall, AtLoop, AtWork, AtPoll, Attended, Calls, Port, NoPort, CloseRaises
<1> QED BY <1>1, <1>2, <1>3, <1>4 DEF TInv

LEMMA CancelKeeps == ASSUME TInv, Cancel PROVE TInv'
<1>1. /\ pc = "async" /\ cur \in Calls
      /\ UNCHANGED <<journal, unfinished, effect, ops, stopped, cur, back, ahead>>
  BY DEF TInv, Placed, AtCall, Cancel
<1>2. /\ {latched', failed'} \subseteq BOOLEAN /\ pc' \in {"async", "halted"}
      /\ closing' \in BOOLEAN
  <2>1. \E quit \in BOOLEAN : closing' = (closing \/ quit)
    BY DEF Cancel
  <2>2. closing' \in BOOLEAN
    BY <2>1
  <2> QED BY <2>2, Committed DEF TInv, TypeOK, Cancel
<1>3. port' \in Port /\ SamePort(port, port')
  <2> DEFINE p == [port EXCEPT !.cancelled = TRUE]
  <2>1. p \in Port /\ SamePort(port, p) /\ port \in Port
    BY DEF TInv, TypeOK, Port, SamePort
  <2> HIDE DEF p
  <2>2. port' = port \/ port' \in Asked(p)
    BY DEF Cancel, p
  <2> QED BY <2>1, <2>2, AskedPort DEF SamePort
<1>4. TypeOK'
  BY <1>1, <1>2, <1>3 DEF TInv, TypeOK, Places, Answers, Statuses
<1>5. (\A k \in Calls : Agrees(k))'
  BY <1>1, <1>2, <1>3 DEF TInv, TypeOK, Agrees, Opened, InDoubt, Held, Placed, PortAgrees,
         Watched, Watching, Doomed, AtCall, AtLoop, AtWork, AtPoll, Attended, Calls
<1>6. Placed'
  BY <1>1, <1>2, <1>3 DEF TInv, TypeOK, Agrees, Opened, InDoubt, Held, Placed, PortAgrees,
         AtCall, AtLoop, AtWork, AtPoll, Attended, Calls, Side, OPERATION_TOOLS, Statuses,
         SamePort
<1>7. PortAgrees'
  BY <1>1, <1>2, <1>3 DEF TInv, TypeOK, Agrees, Opened, Held, Placed, PortAgrees, AtCall,
         AtLoop, AtWork, AtPoll, Attended, Calls, SamePort
<1> QED BY <1>4, <1>5, <1>6, <1>7 DEF TInv

LEMMA CloseAgentKeeps == ASSUME TInv, CloseAgent PROVE TInv'
<1>1. /\ pc = "closing" /\ cur \in Calls /\ closing' = TRUE
      /\ UNCHANGED <<cur, back>>
  BY DEF TInv, Placed, AtCall, CloseAgent
<1>2. ASSUME UNCHANGED <<journal, unfinished, effect, ops, stopped, ahead>>,
             {latched', failed'} \subseteq BOOLEAN, pc' \in {"async", "halted"},
             port' \in Port, SamePort(port, port')
      PROVE  TInv'
  <2>1. TypeOK'
    BY <1>1, <1>2 DEF TInv, TypeOK, Places
  <2>2. (\A k \in Calls : Agrees(k))'
    BY <1>1, <1>2 DEF TInv, Agrees, Opened, InDoubt, Watched, Watching, Doomed
  <2>3. Placed' /\ PortAgrees'
    BY <1>1, <1>2 DEF TInv, Placed, PortAgrees, Opened, Held, AtCall, AtLoop, AtWork,
                      AtPoll, Attended, SamePort
  <2> QED BY <2>1, <2>2, <2>3 DEF TInv
<1>3. CASE /\ port.cancelled /\ pc' = "async"
           /\ UNCHANGED <<journal, unfinished, latched, effect, ops, stopped, port,
                          ahead, failed>>
  BY <1>2, <1>3 DEF TInv, TypeOK, SamePort
<1>4. CASE /\ \E c \in Commits : LoopCommit(c, "async")
           /\ port' \in Asked([port EXCEPT !.cancelled = TRUE])
           /\ UNCHANGED <<journal, unfinished, effect, ops, stopped, ahead>>
  <2> DEFINE p == [port EXCEPT !.cancelled = TRUE]
  <2>1. p \in Port /\ SamePort(port, p)
    BY DEF TInv, TypeOK, Port, SamePort
  <2> HIDE DEF p
  <2>2. port' \in Asked(p)
    BY <1>4 DEF p
  <2>3. port' \in Port /\ SamePort(port, port')
    BY <2>1, <2>2, AskedPort DEF SamePort
  <2>4. {latched', failed'} \subseteq BOOLEAN /\ pc' \in {"async", "halted"}
    BY <1>4, Committed DEF TInv, TypeOK
  <2> QED BY <1>2, <1>4, <2>3, <2>4
<1>5. CASE port.gone /\ Pair("unknown", "ending") /\ port' = NoPort
  <2>1. /\ journal' \in [Calls -> Fact] /\ {latched', failed'} \subseteq BOOLEAN
        /\ pc' \in {"ending", "halted"}
        /\ pc' = "ending" => ahead = 0 /\ journal'[cur].paired = "unknown"
        /\ \A i \in Calls :
             /\ journal'[i].tool = journal[i].tool /\ journal'[i].intent = journal[i].intent
             /\ journal'[i].result = journal[i].result
             /\ i # cur => journal'[i] = journal[i]
             /\ journal'[i].paired \in {journal[i].paired, "unknown"}
    BY <1>1, <1>5, Paired DEF TInv, Statuses
  <2>2. UNCHANGED <<unfinished, effect, ops, stopped, ahead>>
    BY <1>5 DEF Pair
  <2>3. TypeOK'
    BY <1>1, <1>5, <2>1, <2>2, Constants DEF TInv, TypeOK, Places
  <2>4. (\A k \in Calls : Agrees(k))'
    BY <1>1, <2>1, <2>2
       DEF TInv, TypeOK, Agrees, Opened, InDoubt, Watched, Watching, Doomed, Calls
  <2>5. Placed' /\ PortAgrees'
    BY <1>1, <1>5, <2>1, <2>2
       DEF TInv, Placed, PortAgrees, AtCall, AtLoop, AtWork, AtPoll, NoPort
  <2> QED BY <2>3, <2>4, <2>5 DEF TInv
<1> QED BY <1>3, <1>4, <1>5 DEF CloseAgent

LEMMA EndKeeps == ASSUME TInv, End PROVE TInv'
<1>1. /\ pc' = "down" /\ back' = Nothing /\ port' = NoPort /\ closing' = FALSE
      /\ UNCHANGED <<journal, unfinished, latched, effect, ops, stopped, cur, ahead,
                     failed>>
  BY DEF End
<1>2. TypeOK'
  BY <1>1, Constants DEF TInv, TypeOK, Places, Answers, Statuses
<1>3. (\A k \in Calls : Agrees(k))'
  BY <1>1, Constants DEF TInv, TypeOK, Agrees, Opened, InDoubt, Held, Placed, PortAgrees,
         Watched, Watching, Doomed, AtCall, AtLoop, AtWork, AtPoll, Attended, Calls
<1>4. Placed'
  BY <1>1, Constants DEF TInv, TypeOK, Agrees, Opened, InDoubt, Held, Placed, PortAgrees,
         AtCall, AtLoop, AtWork, AtPoll, Attended, Calls, Side, OPERATION_TOOLS, Statuses
<1>5. PortAgrees'
  BY <1>1, Constants DEF TInv, TypeOK, Agrees, Opened, Held, Placed, PortAgrees, AtCall,
         AtLoop, AtWork, AtPoll, Attended, Calls, NoPort
<1> QED BY <1>2, <1>3, <1>4, <1>5 DEF TInv

LEMMA ReopenKeeps == ASSUME TInv, Reopen PROVE TInv'
<1>1. /\ pc = "down" /\ pc' = "idle" /\ ops' = NoOps /\ ahead' = 0
      /\ stopped' = FALSE /\ latched' = FALSE /\ failed' = FALSE
      /\ UNCHANGED <<journal, unfinished, effect, port, cur, back, closing>>
  BY DEF Reopen
<1>2. TypeOK'
  <2>1. ops' \in [active : Calls \cup {0}, blocked : BOOLEAN] /\ ahead' \in 0..2
    BY <1>1, Constants
  <2> QED BY <1>1, <2>1 DEF TInv, TypeOK, Places
<1>3. \A k \in Calls : journal[k].intent => journal[k].result \notin {"none", "unknown"}
  <2>1. /\ \A k \in Calls : journal[k].intent => journal[k].result # "none"
        /\ \A k \in Calls : journal[k].result # "unknown"
    BY DEF Reopen, Continuable, Answered
  <2> QED BY <2>1
<1>4. (\A k \in Calls : Agrees(k))'
  BY <1>1, <1>3 DEF TInv, Agrees, Opened, InDoubt, Watched, Watching
<1>5. Placed' /\ PortAgrees'
  BY <1>1 DEF TInv, Placed, PortAgrees, AtCall, AtLoop, AtWork, AtPoll, NoPort
<1> QED BY <1>2, <1>4, <1>5 DEF TInv

LEMMA InitHolds == ASSUME Init PROVE TInv
<1>1. TypeOK
  <2>1. journal \in [Calls -> Fact] /\ effect \in [Calls -> Effects]
    BY Constants DEF Init, Effects
  <2>2. /\ ops \in [active : Calls \cup {0}, blocked : BOOLEAN] /\ port \in Port
        /\ back \in [status : Answers, receipts : 0..2]
    BY Constants DEF Init
  <2>3. /\ {unfinished, latched, stopped, closing, failed} \subseteq BOOLEAN
        /\ pc \in Places /\ cur = 0 /\ ahead = 0
    BY DEF Init, Places
  <2> QED BY <2>1, <2>2, <2>3 DEF TypeOK
<1>2. \A k \in Calls : Agrees(k)
  BY DEF Init, Agrees, NoCall, Opened, Calls
<1>3. Placed /\ PortAgrees
  BY DEF Init, Placed, PortAgrees, AtCall, AtLoop, AtWork, AtPoll, NoPort
<1> QED BY <1>1, <1>2, <1>3 DEF TInv

LEMMA NextKeeps == ASSUME TInv, [Next]_vars PROVE TInv'
<1>1. CASE UNCHANGED vars
  BY <1>1 DEF vars, TInv, TypeOK, Agrees, Placed, PortAgrees, Opened, InDoubt, Watched,
              Doomed, Held, Attended, Side
<1>2. ASSUME NEW tool \in Tools, Accept(tool) PROVE TInv'
  BY <1>2, AcceptKeeps
<1>3. ASSUME NEW k \in Calls, LeftEnds(k) PROVE TInv'
  BY <1>3, LeftEndsKeeps
<1>4. CASE ChildEnds \/ ChildLost \/ ChildKilled
  BY <1>4, ChildBecomesKeeps DEF ChildEnds, ChildLost, ChildKilled
<1>5. CASE GiveUp \/ Crash
  BY <1>5, EndKeeps DEF GiveUp, Crash
<1>6. CASE StartTurn \/ EndTurn \/ Skip \/ Denied \/ Read \/ Refuse \/ Begin \/ Mint
  BY <1>6, StartTurnKeeps, EndTurnKeeps, SkipKeeps, DeniedKeeps, ReadKeeps, RefuseKeeps,
     BeginKeeps, MintKeeps
<1>7. CASE ExecuteRead \/ Execute \/ Mutate \/ CleanUp \/ Verify \/ Settle \/ Launch
           \/ SettleStart \/ TakeStart
  BY <1>7, ExecuteReadKeeps, ExecuteKeeps, MutateKeeps, CleanUpKeeps, VerifyKeeps,
     SettleKeeps, LaunchKeeps, SettleStartKeeps, TakeStartKeeps
<1>8. CASE DeadlinePasses \/ Poll \/ PollRaises \/ SettleProcess \/ Adopt \/ CloseRaises
           \/ Cancel \/ CloseAgent \/ Reopen
  BY <1>8, DeadlinePassesKeeps, PollKeeps, PollRaisesKeeps, SettleProcessKeeps, AdoptKeeps,
     CloseRaisesKeeps, CancelKeeps, CloseAgentKeeps, ReopenKeeps
<1> QED BY <1>1, <1>2, <1>3, <1>4, <1>5, <1>6, <1>7, <1>8 DEF Next

-----------------------------------------------------------------------------
(* The theorems.                                                           *)

\* Wherever the process is, cut short or not: the Facts of every call agree
\* with its effect, and the loop is behind the operation journal only at the
\* places where it will still adopt a receipt (context.lua, tools.lua).
THEOREM Accounted == Spec => []TInv
<1>1. Init => TInv
  BY InitHolds
<1>2. TInv /\ [Next]_vars => TInv'
  BY NextKeeps
<1> QED BY <1>1, <1>2, PTL DEF Spec

\* The state keeps its shape, and the loop is never more than two publications
\* behind (adopt_external_receipt).
THEOREM TypeCorrect == Spec => []TypeOK
<1>1. TInv => TypeOK
  BY DEF TInv
<1> QED BY <1>1, Accounted, PTL

\* A durable result of a tool is true of what the tool did, after any number of
\* calls, failed publications and crashes (execute, settle_process).
THEOREM ResultsTruthfulHolds == Spec => []ResultsTruthful
<1>1. TInv => ResultsTruthful
  BY DEF TInv, Agrees, ResultsTruthful
<1> QED BY <1>1, Accounted, PTL

\* Between calls, nothing runs on that was not reported as unknown, also when
\* the supervisor died or a port could not be closed (settle_process).
THEOREM NothingRunsUnreportedHolds == Spec => []NothingRunsUnreported
<1>1. TInv => NothingRunsUnreported
  BY DEF TInv, Agrees, NothingRunsUnreported, Watched, Watching
<1> QED BY <1>1, Accounted, PTL

\* A Context that auto_continue accepts has nothing running and no file half
\* written, wherever the process that wrote it died.
THEOREM ContinuesAtRestHolds == Spec => []ContinuesAtRest
<1>1. TInv => ContinuesAtRest
  <2>1. ASSUME TInv, Continuable, NEW k \in Calls
        PROVE  effect[k] # "running" /\ (journal[k].tool = "direct" => effect[k] # "partial")
    <3>1. /\ journal[k].intent => journal[k].result # "none"
          /\ journal[k].result # "unknown"
      BY <2>1 DEF Continuable, Answered
    <3> QED BY <2>1, <3>1 DEF TInv, Agrees, InDoubt
  <2> QED BY <2>1 DEF ContinuesAtRest
<1> QED BY <1>1, Accounted, PTL

\* The loop has adopted every publication of the operation journal before it
\* commits on its own (adopt_external_receipt): the generation it binds is the
\* one the Context is at.
THEOREM KeepsUpHolds == Spec => []KeepsUp
<1>1. TInv => KeepsUp
  BY DEF TInv, Placed, AtLoop, AtPoll, Attended, KeepsUp
<1> QED BY <1>1, Accounted, PTL

-----------------------------------------------------------------------------
(* The refinement of OperationLedger: what each step is to the ledger.     *)

\* The entry of a call in the ledger that ToolOperations maps to.
Entry(k) == IF journal[k].result # "none" THEN journal[k].result
            ELSE IF journal[k].intent THEN "intended" ELSE "none"

LEMMA SameLedger ==
  ASSUME effect' = effect,
         \A k \in Calls : /\ journal'[k].result = journal[k].result
                          /\ journal'[k].intent = journal[k].intent
  PROVE  UNCHANGED Ledger!vars
BY DEF Ledger!vars

LEMMA SameFacts == ASSUME UNCHANGED <<journal, effect>> PROVE UNCHANGED Ledger!vars
BY SameLedger

LEMMA WorkOf ==
  ASSUME NEW k \in Calls, journal[k].intent, InDoubt(k), NEW e \in Effects,
         effect' = [effect EXCEPT ![k] = e], journal' = journal
  PROVE  Ledger!Next
<1>1. e \in Ledger!Effects
  BY DEF Effects, Ledger!Effects
<1>2. Ledger!Work(k)
  BY <1>1 DEF Ledger!Work, InDoubt
<1> QED BY <1>2 DEF Ledger!Next

LEMMA Begins == ASSUME TInv, Begin PROVE [Ledger!Next]_Ledger!vars
<1> DEFINE f == [journal[cur] EXCEPT !.intent = TRUE]
<1>1. /\ pc = "accepted" /\ ~ops.blocked /\ ops.active = 0 /\ effect' = effect
      /\ cur \in Calls /\ ~journal[cur].intent /\ journal[cur].result = "none"
  BY DEF TInv, Placed, AtCall, Begin, MayBegin
<1>2. f \in Fact /\ f.intent /\ f.result = journal[cur].result
  BY <1>1, FactFields DEF TInv, TypeOK
<1>3. PICK c \in Commits : Record(c, cur, f)
  BY DEF Begin, OperationCommit
<1> HIDE DEF f
<1>4. \A i \in Calls : journal'[i] = IF i = cur /\ Written(c) THEN f ELSE journal[i]
  BY <1>1, <1>2, <1>3, Recorded DEF TInv, TypeOK
<1>5. CASE ~Written(c)
  BY <1>1, <1>4, <1>5, SameLedger
<1>6. CASE Written(c)
  <2> PICK o \in Calls : o = cur
    BY <1>1
  <2>1. \A k \in Calls : ~Opened(k)
    BY <1>1, ToolOperationsAssumption DEF TInv, Agrees, Doomed, Calls
  <2>2. \A i \in Calls : Entry(i) # "intended"
    BY <2>1 DEF Entry, Opened, TInv, TypeOK, Fact, Statuses
  <2>3. [i \in Calls |-> Entry(i)]'
          = [[i \in Calls |-> Entry(i)] EXCEPT ![o] = "intended"]
    BY <1>1, <1>2, <1>4, <1>6 DEF Entry
  <2>4. Entry(o) = "none"
    BY <1>1 DEF Entry
  <2>5. /\ [i \in Calls |-> Entry(i)][o] = "none"
        /\ \A p \in Calls : [i \in Calls |-> Entry(i)][p] # "intended"
    BY <1>1, <2>2, <2>4
  <2>6. Ledger!Intend(o)
    BY <1>1, <2>3, <2>5, Zenon DEF Ledger!Intend, Entry
  <2> QED BY <1>1, <2>6 DEF Ledger!Next
<1> QED BY <1>5, <1>6

LEMMA Settlement ==
  ASSUME TInv, cur \in Calls, Opened(cur), ahead \in 0..1, NEW s \in Statuses,
         s = "ok" => effect[cur] = "done",
         s \in {"error", "cancelled"} => effect[cur] # "running",
         NEW c \in Commits, Finish(c, s), effect' = effect
  PROVE  [Ledger!Next]_Ledger!vars
<1>1. /\ \A i \in Calls : /\ journal'[i].intent = journal[i].intent
                          /\ i # cur => journal'[i] = journal[i]
      /\ journal'[cur] = journal[cur] \/ journal'[cur].result = s
  BY Finished DEF TInv
<1>2. CASE journal'[cur] = journal[cur]
  BY <1>1, <1>2, SameLedger
<1>3. CASE journal'[cur].result = s
  <2> PICK o \in Calls : o = cur
    OBVIOUS
  <2>1. s \in Ledger!Results /\ s # "none" /\ Ledger!Sincere(s, effect[o])
    BY DEF Statuses, Ledger!Results, Ledger!Sincere
  <2>2. [i \in Calls |-> Entry(i)]'
          = [[i \in Calls |-> Entry(i)] EXCEPT ![o] = s]
    BY <1>1, <1>3, <2>1 DEF Entry
  <2>3. Entry(o) = "intended"
    BY DEF Entry, Opened
  <2>4. [i \in Calls |-> Entry(i)][o] = "intended"
    BY <2>3
  <2>5. Ledger!Settle(o)
    BY <2>1, <2>2, <2>4, Zenon DEF Ledger!Settle, Entry
  <2> QED BY <2>5 DEF Ledger!Next
<1> QED BY <1>1, <1>2, <1>3

LEMMA Settlements ==
  ASSUME TInv, Settle \/ SettleStart \/ SettleProcess PROVE [Ledger!Next]_Ledger!vars
<1>1. PICK c \in Commits : Finish(c, back.status)
  BY DEF Settle, SettleStart, SettleProcess
<1>2. effect' = effect /\ pc \in {"settling", "aborted", "terminal"}
  BY DEF Settle, SettleStart, SettleProcess
<1>3. /\ cur \in Calls /\ Opened(cur) /\ ahead \in 0..1 /\ back.status \in Statuses
      /\ back.status = "ok" => effect[cur] = "done"
      /\ back.status \in {"error", "cancelled"} => effect[cur] # "running"
  BY <1>2 DEF TInv, Placed, AtCall, AtWork, Statuses
<1> QED BY <1>1, <1>2, <1>3, Settlement

LEMMA Effective ==
  ASSUME TInv, \/ Mutate \/ CleanUp \/ Launch \/ ChildEnds \/ ChildLost \/ ChildKilled
  PROVE  [Ledger!Next]_Ledger!vars
<1>1. /\ journal' = journal
      /\ effect' = effect \/ \E e \in Effects : Done(e)
  BY DEF Mutate, CleanUp, Launch, ChildEnds, ChildLost, ChildKilled, ChildBecomes, Effects
<1>2. cur \in Calls /\ Opened(cur)
  BY DEF TInv, Placed, PortAgrees, AtCall, AtWork, Mutate, CleanUp, Launch, ChildEnds,
         ChildLost, ChildKilled, ChildBecomes
<1>3. CASE effect' = effect
  BY <1>1, <1>3, SameFacts
<1>4. ASSUME NEW e \in Effects, Done(e) PROVE Ledger!Next
  BY <1>1, <1>2, <1>4, WorkOf DEF Done, Opened, InDoubt
<1> QED BY <1>1, <1>3, <1>4

LEMMA Leftovers ==
  ASSUME TInv, NEW k \in Calls, LeftEnds(k) PROVE Ledger!Next
<1>1. PICK e \in {"partial", "done"} : effect' = [effect EXCEPT ![k] = e]
  BY DEF LeftEnds
<1>2. journal' = journal /\ e \in Effects /\ journal[k].intent /\ InDoubt(k)
  BY DEF LeftEnds, Effects, TInv, Agrees
<1> QED BY <1>1, <1>2, WorkOf

\* What the loop commits on its own is no Fact of an operation.
LEMMA LoopFacts ==
  ASSUME TInv, \/ (\E tool \in Tools : Accept(tool)) \/ Skip \/ TakeStart \/ CloseAgent
  PROVE  UNCHANGED Ledger!vars
<1>1. ASSUME cur \in Calls, NEW s \in Statuses \cup {"skipped"},
             NEW next \in {"turn", "ending"}, Pair(s, next)
      PROVE  UNCHANGED Ledger!vars
  <2>1. /\ effect' = effect
        /\ \A i \in Calls : /\ journal'[i].intent = journal[i].intent
                            /\ journal'[i].result = journal[i].result
    BY <1>1, Paired DEF TInv, Pair
  <2> QED BY <2>1, SameLedger
<1>2. \A s : After(s) \in {"turn", "ending"}
  BY DEF After
<1>3. pc \in {"accepted", "returned", "closing"} => cur \in Calls
  BY DEF TInv, Placed, AtCall
<1>4. CASE Skip
  BY <1>1, <1>3, <1>4 DEF Skip
<1>5. CASE TakeStart
  <2>1. pc = "returned" /\ cur \in Calls
    BY <1>3, <1>5 DEF TakeStart
  <2>2. CASE UNCHANGED <<journal, effect>>
    BY <2>2, SameFacts
  <2> DEFINE status == IF back.status # "raised" THEN back.status
                       ELSE IF Side(cur) THEN "unknown" ELSE "error"
  <2>3. CASE back.status # "async" /\ Pair(status, After(status))
    <3>1. status \in Statuses \cup {"skipped"}
      BY <2>1, <2>3 DEF TInv, Placed, Statuses
    <3> HIDE DEF status
    <3> QED BY <1>1, <1>2, <2>1, <2>3, <3>1
  <2> QED BY <1>5, <2>2, <2>3 DEF TakeStart
<1>6. CASE CloseAgent
  BY <1>1, <1>3, <1>6, SameFacts DEF CloseAgent, Statuses
<1>7. ASSUME NEW tool \in Tools, Accept(tool) PROVE UNCHANGED Ledger!vars
  <2> DEFINE f == [NoCall EXCEPT !.tool = tool]
  <2>1. f \in Fact /\ ~f.intent /\ f.result = "none"
    BY Constants DEF NoCall, Fact
  <2>2. PICK c \in Commits : journal' = journal \/ Record(c, cur + 1, f)
    BY <1>7 DEF Accept
  <2> HIDE DEF f
  <2>3. effect' = effect /\ cur + 1 \in Calls /\ cur + 1 > cur
    BY <1>7, ToolOperationsAssumption DEF Accept, TInv, TypeOK, Calls
  <2>4. ~journal[cur + 1].intent /\ journal[cur + 1].result = "none"
    BY <2>3 DEF TInv, Agrees, NoCall
  <2>5. CASE Record(c, cur + 1, f)
    <3>1. \A i \in Calls :
            journal'[i] = IF i = cur + 1 /\ Written(c) THEN f ELSE journal[i]
      BY <2>1, <2>3, <2>5, Recorded DEF TInv, TypeOK
    <3>2. f.intent = journal[cur + 1].intent
      <4>1. journal[cur + 1] = NoCall
        BY <2>3 DEF TInv, Agrees
      <4> QED BY <4>1 DEF NoCall, f
    <3> QED BY <2>1, <2>3, <2>4, <3>1, <3>2, SameLedger
  <2>6. CASE journal' = journal
    BY <2>3, <2>6, SameFacts
  <2> QED BY <2>2, <2>5, <2>6
<1> QED BY <1>4, <1>5, <1>6, <1>7

LEMMA StepImplements == ASSUME TInv, [Next]_vars PROVE [Ledger!Next]_Ledger!vars
<1>1. CASE \/ UNCHANGED vars \/ StartTurn \/ EndTurn \/ Denied \/ Read \/ Refuse \/ Mint
           \/ ExecuteRead \/ Execute \/ Verify \/ DeadlinePasses \/ Poll \/ PollRaises
           \/ Adopt \/ CloseRaises \/ Cancel \/ GiveUp \/ Crash \/ Reopen
  <2>1. UNCHANGED <<journal, effect>>
    BY <1>1 DEF vars, StartTurn, EndTurn, Denied, Read, Refuse, Mint, ExecuteRead, Execute,
                Verify, DeadlinePasses, Poll, PollRaises, Adopt, CloseRaises, Cancel,
                GiveUp, Crash, End, Reopen
  <2> QED BY <2>1, SameFacts
<1>2. CASE \/ (\E tool \in Tools : Accept(tool)) \/ Skip \/ TakeStart \/ CloseAgent
  BY <1>2, LoopFacts
<1>3. CASE \/ Begin \/ Settle \/ SettleStart \/ SettleProcess \/ Mutate \/ CleanUp \/ Launch
           \/ ChildEnds \/ ChildLost \/ ChildKilled \/ (\E k \in Calls : LeftEnds(k))
  BY <1>3, Begins, Settlements, Effective, Leftovers
<1> QED BY <1>1, <1>2, <1>3 DEF Next

\* Tools implement the ledger for any number of calls and any faults: an effect
\* has a durable intent before it, one operation is open at a time, and no
\* result is untrue (context.lua, the capabilities of the service).
THEOREM LedgerImplemented == Spec => ImplementsLedger
<1>1. Init => Ledger!Init
  <2>1. ASSUME Init, NEW k \in Calls
        PROVE  journal[k].result = "none" /\ ~journal[k].intent
    BY <2>1 DEF Init, NoCall
  <2> QED BY <2>1 DEF Init, Ledger!Init
<1>2. TInv /\ [Next]_vars => [Ledger!Next]_Ledger!vars
  BY StepImplements
<1> QED BY <1>1, <1>2, Accounted, PTL DEF Spec, ImplementsLedger, Ledger!Spec

=============================================================================
