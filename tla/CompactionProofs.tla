-------------------------- MODULE CompactionProofs --------------------------
(***************************************************************************)
(* For every number of compactions, facts and attempts and every           *)
(* threshold: the view is never replaced by a stale summary, the circuit   *)
(* is not forgotten, and the five parts that know of a compaction agree    *)
(* between two calls.                                                      *)
(***************************************************************************)
EXTENDS Compaction, TLAPS

Views == [summary : Nat, facts : Nat]
Lives == [mode : Modes \cup {"none"}, attempt : Nat, response : BOOLEAN,
          cancel : Reasons \cup {"none"}, view : Views, source : Nat]
Contexts == [facts : Nat, turn : BOOLEAN, view : Views, life : Lives,
             compactions : Nat, failures : Nat]
Gates == [mode : Modes \cup {"none"},
          phase : {"none", "opened", "request", "retry", "response", "cancelling"}]
Loops == [halted : BOOLEAN, turn : {"idle", "deferred", "waiting", "working"},
          gate : Gates]
Services == [state : {"none", "Idle", "Compacting", "Cancelling", "Unknown", "replaced"},
             mode : Modes \cup {"none"}, attempt : Nat, stale : BOOLEAN,
             reason : Reasons \cup {"none"}, failures : Nat,
             circuit : {"closed", "open", "recovered"}]
Calls == [at : {"rest", "request", "response", "rejection", "publication", "cancel",
                "cancelled", "resolve"},
          with : Reasons \cup {"none", "go", "wait", "cancelled", "unknown"},
          by : {"none", "command", "round", "close"}]

TypeOK ==
  /\ context \in Contexts /\ loop \in Loops /\ service \in Services
  /\ port \in {"idle", "active", "cancelling"} /\ call \in Calls
  /\ program \in {"running", "closing", "settling", "closed", "failed", "down", "opening"}
  /\ clock \in [late : BOOLEAN, cooled : BOOLEAN] /\ lost \in BOOLEAN
  /\ call.at = "cancel" => call.with \in Reasons

\* There is a session, and no call is under way without one.
Alive == program \in {"running", "closing", "settling"}

Outside ==
  /\ ~Alive => call = AtRest
  /\ program = "opening" =>
       loop = NoLoop /\ service = NoService /\ port = "idle" /\ clock = NotYet
  /\ program = "closed" => ~Pending

\* A loop that is halted: no record is adopted any more.
Fallen ==
  /\ call.at \notin {"request", "publication", "resolve"}
  /\ ~Gated => ~Pending /\ call.at = "rest"

\* The lane is free.
Free ==
  /\ ~Gated /\ ~Pending /\ service.attempt = 0
  /\ service.state \in {"none", "Idle", "Unknown", "replaced"}
  /\ service.state \in {"none", "Idle"} => port = "idle"

\* Gate, service and Context speak of one attempt of one compaction; unless the
\* service's generation is past, its source is what the Context holds.
Bound ==
  /\ Gated /\ Pending /\ service.attempt > 0 /\ service.attempt = context.life.attempt
  /\ loop.gate.mode = context.life.mode /\ service.mode = context.life.mode
  /\ ~service.stale =>
       context.life.view = context.view /\ context.life.source = context.facts

Uncancelled == Bound /\ service.state = "Compacting" /\ context.life.cancel = "none"

Placed ==
  /\ call.at = "rest" =>
       \/ Free
       \/ Uncancelled
       \/ Bound /\ service.state = "Cancelling" /\ context.life.cancel # "none"
  /\ call.at = "resolve" => Free /\ loop.turn = "deferred"
  /\ call.at = "request" =>
       /\ Gated /\ port = "idle" /\ service.mode = loop.gate.mode
       /\ \/ Uncancelled
          \/ ~Pending /\ service.attempt = 0 /\ service.state = "Idle"
  /\ call.at \in {"response", "rejection", "publication"} => Uncancelled /\ port = "idle"
  /\ call.at = "cancel" => Uncancelled
  /\ call.at = "cancelled" =>
       /\ Bound /\ service.state \in {"Compacting", "Cancelling"}
       /\ context.life.cancel # "none" /\ call.with \in {"cancelled", "unknown"}
       /\ call.with = "cancelled" => port = "idle"

\* The gate of an automatic compaction is there for a deferred request.
Deferred ==
  /\ Gated => loop.gate.mode \in Modes
  /\ loop.gate.mode = "automatic" => loop.turn = "deferred"

\* A circuit is closed because the durable streak is short, and the service knows
\* of all of it; or for a probe, which one more failure ends.
Streak ==
  /\ service.state # "none" /\ service.circuit = "closed" =>
       \/ context.failures <= service.failures /\ service.failures < failure_threshold
       \/ clock.cooled /\ service.failures + 1 >= failure_threshold
  /\ call.at = "request" /\ service.attempt = 0 /\ service.mode = "automatic" =>
       context.failures < failure_threshold \/ clock.cooled

Agreed == (context.turn <=> loop.turn # "idle") /\ Placed /\ Deferred /\ Streak

IInv ==
  /\ TypeOK /\ Outside
  /\ Alive => IF loop.halted THEN Fallen ELSE Agreed
-----------------------------------------------------------------------------
(* The beginning, a record that breaks, one that ends and one that goes on. *)

\* No compaction has begun: the lane is free.
LEMMA InitHolds == Init => IInv
<1> SUFFICES ASSUME Init PROVE IInv
  OBVIOUS
<1>1. TypeOK
  BY DEF Init, TypeOK, Contexts, Loops, Gates, Services, Calls, Lives, Views, Modes, Reasons,
         InitialView, NoLife, NoLoop, NoGate, NoService, AtRest, NotYet
<1>2. Outside
  BY DEF Init, Outside, Alive
<1>3. ~loop.halted /\ Free
  BY DEF Init, Free, Gated, Pending, NoLoop, NoService
<1>4. Agreed
  BY <1>3 DEF Init, Agreed, Placed, Deferred, Streak, Gated, NoLoop, NoGate, NoService, AtRest
<1> QED BY <1>1, <1>2, <1>3, <1>4 DEF IInv

(* A record that breaks leaves the gate as it is and the loop halted.       *)
LEMMA BarrierHolds ==
  ASSUME IInv, Alive, Gated, NEW kind, NEW new \in Contexts, Breaks(kind, new),
         port' \in {"idle", "active", "cancelling"}
  PROVE  IInv'
<1>1. context' \in Contexts /\ lost' \in BOOLEAN /\ UNCHANGED clock
  BY DEF Breaks, IInv, TypeOK
<1>2. /\ loop' = [loop EXCEPT !.halted = TRUE] /\ loop' \in Loops
      /\ service' \in Services /\ call' = AtRest
  BY DEF Breaks, Barrier, Error, IInv, TypeOK, Loops, Services
<1>3. program' \in {"running", "closing", "settling", "failed"}
  BY DEF Breaks, Barrier, Error, AfterError, Alive
<1>4. AtRest \in Calls /\ AtRest.at = "rest"
  BY DEF AtRest, Calls
<1>5. TypeOK'
  BY <1>1, <1>2, <1>3, <1>4 DEF TypeOK, IInv
<1>6. loop'.halted /\ loop'.gate = loop.gate
  BY <1>2 DEF IInv, TypeOK, Loops
<1>7. Outside'
  BY <1>2, <1>3 DEF Outside, Alive
<1>8. Fallen'
  BY <1>2, <1>4, <1>6 DEF Fallen, Gated
<1> QED BY <1>5, <1>6, <1>7, <1>8 DEF IInv

(* A record that ends its compaction gives the lane back.                   *)
LEMMA EndsHolds ==
  ASSUME IInv, Alive, ~loop.halted, Gated, NEW then \in {"go", "wait"}, Ends(then),
         UNCHANGED program, lost' \in BOOLEAN,
         context' \in Contexts, context'.turn = context.turn, context'.life = NoLife,
         service' \in Services, service'.attempt = 0,
         service'.state \in {"Idle", "Unknown"},
         port' \in {"idle", "active", "cancelling"},
         service'.state = "Idle" => port' = "idle",
         clock' \in [late : BOOLEAN, cooled : BOOLEAN],
         service'.circuit = "closed" =>
           \/ context'.failures <= service'.failures /\ service'.failures < failure_threshold
           \/ clock'.cooled /\ service'.failures + 1 >= failure_threshold
  PROVE  IInv'
<1>1. /\ loop' \in Loops /\ loop'.gate = NoGate /\ loop'.halted = loop.halted
      /\ loop'.turn = loop.turn
  BY DEF Ends, IInv, TypeOK, Loops, Gates, NoGate
<1>2. /\ call' \in Calls
      /\ \/ call'.at = "rest"
         \/ call'.at = "resolve" /\ loop.gate.mode = "automatic"
  BY DEF Ends, IInv, TypeOK, Calls, AtRest
<1>3. TypeOK'
  BY <1>1, <1>2 DEF TypeOK, IInv
<1>4. Outside' /\ Alive'
  BY DEF Outside, Alive
<1>5. Free'
  BY <1>1 DEF Free, Gated, Pending
<1>6. Placed'
  BY <1>1, <1>2, <1>5 DEF Placed, IInv, Agreed, Deferred
<1>7. Deferred'
  BY <1>1 DEF Deferred, Gated, NoGate
<1>8. Streak'
  BY <1>2 DEF Streak
<1>9. (context.turn <=> loop.turn # "idle")'
  BY <1>1 DEF IInv, Agreed
<1> QED BY <1>1, <1>3, <1>4, <1>6, <1>7, <1>8, <1>9 DEF IInv, Agreed

(* Where a record is due, the lane is taken.                                *)
LEMMA DueIsGated ==
  ASSUME IInv, call.at \notin {"rest", "resolve"}
  PROVE  /\ Alive /\ Gated
         /\ ~loop.halted => Agreed
         /\ loop.halted => call.at \notin {"request", "publication"}
<1>1. Alive
  BY DEF IInv, Outside, AtRest
<1>2. CASE loop.halted
  BY <1>1, <1>2 DEF IInv, Fallen
<1>3. CASE ~loop.halted
  BY <1>1, <1>3 DEF IInv, Agreed, Placed, Uncancelled, Bound, TypeOK, Calls
<1> QED BY <1>1, <1>2, <1>3

(* What a call goes on with, in the rounds and from a record to the next.   *)
LEMMA AdvanceHolds ==
  ASSUME IInv, Alive, Agreed, ~loop.halted, UNCHANGED lost,
         program' \in {program, "settling"},
         NEW phase \in {"request", "retry", "response", "cancelling"}, Advances(phase),
         context' \in Contexts, context'.turn = context.turn,
         context'.failures = context.failures,
         service' \in Services, service'.circuit = service.circuit,
         service'.failures = service.failures, service'.state # "none",
         service.state # "none",
         port' \in {"idle", "active", "cancelling"}, UNCHANGED clock,
         call' \in Calls, call'.at # "cancel",
         Gated, Placed', call'.at = "request" => service'.attempt > 0
  PROVE  IInv'
<1>1. /\ loop' \in Loops /\ loop'.gate.phase = phase /\ loop'.gate.mode = loop.gate.mode
      /\ loop'.halted = loop.halted /\ loop'.turn = loop.turn
  BY DEF Advances, IInv, TypeOK, Loops, Gates
<1>2. TypeOK'
  BY <1>1 DEF TypeOK, IInv
<1>3. Outside' /\ Alive'
  BY DEF Outside, Alive
<1>4. Deferred'
  BY <1>1 DEF Deferred, Agreed
<1>5. Streak'
  <2>1. service'.attempt \in Nat
    BY DEF Services
  <2> QED BY <2>1 DEF Streak, Agreed
<1>6. (context.turn <=> loop.turn # "idle")'
  BY <1>1 DEF Agreed
<1> QED BY <1>1, <1>2, <1>3, <1>4, <1>5, <1>6 DEF IInv, Agreed

\* What the end of a lifecycle, and a failure of it, make of the Context.
LEMMA TypedContext ==
  ASSUME TypeOK
  PROVE  /\ Ended(context) \in Contexts /\ Ended(context).life = NoLife
         /\ Ended(context).turn = context.turn /\ Ended(context).view = context.view
         /\ Ended(context).facts = context.facts
         /\ Ended(context).compactions = context.compactions
         /\ Ended(context).failures = context.failures
<1>1. NoLife \in Lives
  BY DEF NoLife, Lives, Views, InitialView
<1> QED BY <1>1 DEF TypeOK, Contexts, Ended

LEMMA TypedFailure ==
  ASSUME TypeOK, NEW failed \in BOOLEAN
  PROVE  LET new == Counted(Ended(context), failed)
             counts == failed /\ context.life.mode = "automatic"
         IN /\ new \in Contexts /\ new.life = NoLife /\ new.turn = context.turn
            /\ new.view = context.view /\ new.facts = context.facts
            /\ new.compactions = context.compactions
            /\ new.failures = IF counts THEN context.failures + 1 ELSE context.failures
<1>1. Counted(Ended(context), failed)
        = [Ended(context) EXCEPT !.failures =
             IF failed /\ context.life.mode = "automatic" THEN @ + 1 ELSE @]
  BY DEF Counted
<1>2. Ended(context) \in Contexts
  BY TypedContext
<1> HIDE DEF Ended
<1> QED BY <1>1, <1>2, TypedContext DEF Contexts

\* A service, or a lifecycle, with two of its fields replaced.
LEMMA ChangedFields ==
  ASSUME NEW n \in Nat
  PROVE  /\ \A s \in Services :
              LET t == [s EXCEPT !.state = "Compacting", !.attempt = n] IN
              /\ t \in Services /\ t.state = "Compacting" /\ t.attempt = n
              /\ t.mode = s.mode /\ t.stale = s.stale /\ t.failures = s.failures
              /\ t.circuit = s.circuit
         /\ \A l \in Lives :
              LET t == [l EXCEPT !.attempt = n, !.response = FALSE] IN
              /\ t \in Lives /\ t.attempt = n /\ t.mode = l.mode /\ t.cancel = l.cancel
              /\ t.view = l.view /\ t.source = l.source
BY DEF Services, Lives

\* What a failure makes of a service: the streak grows, and opens the circuit.
LEMMA FailedService ==
  ASSUME NEW s \in Services
  PROVE  /\ Failed(s) \in Services /\ Failed(s).state = s.state
         /\ Failed(s).failures = IF s.mode = "automatic" THEN s.failures + 1 ELSE s.failures
         /\ Failed(s).circuit =
              IF s.mode = "automatic" /\ s.failures + 1 >= failure_threshold
              THEN "open" ELSE s.circuit
<1>1. PICK n \in Nat, c \in {"closed", "open", "recovered"} :
        /\ n = IF s.mode = "automatic" THEN s.failures + 1 ELSE s.failures
        /\ c = IF s.mode = "automatic" /\ s.failures + 1 >= failure_threshold
               THEN "open" ELSE s.circuit
  BY DEF Services
<1>2. Failed(s) = [s EXCEPT !.failures = n, !.circuit = c]
  BY <1>1 DEF Failed
<1>3. /\ Failed(s) \in Services /\ Failed(s).state = s.state
      /\ Failed(s).failures = n /\ Failed(s).circuit = c
  <2> DEFINE t == [s EXCEPT !.failures = n, !.circuit = c]
  <2>1. t \in Services /\ t.state = s.state /\ t.failures = n /\ t.circuit = c
    BY DEF Services
  <2> HIDE DEF t
  <2> QED BY <1>2, <2>1 DEF t
<1> QED BY <1>1, <1>3

\* What the end of a compaction makes of a service.
LEMMA InactiveService ==
  ASSUME NEW s \in Services, NEW state \in {"Idle", "Unknown"}
  PROVE  /\ Inactive(s, state) \in Services
         /\ Inactive(s, state).state = state /\ Inactive(s, state).attempt = 0
         /\ Inactive(s, state).circuit = s.circuit
         /\ Inactive(s, state).failures = s.failures
BY DEF Inactive, Services

\* What a request makes of the Context: a lifecycle, or its next attempt.
LEMMA RequestTyped ==
  ASSUME IInv
  PROVE  /\ Request \in Contexts /\ Request.turn = context.turn
         /\ Request.failures = context.failures /\ Request.view = context.view
         /\ Request.facts = context.facts
         /\ service.attempt = 0 => Request.life = NewLife
         /\ service.attempt # 0 =>
              /\ Request.compactions = context.compactions
              /\ Request.life = [context.life EXCEPT !.attempt = @ + 1, !.response = FALSE]
<1>1. NewLife \in Lives
  BY DEF IInv, TypeOK, NewLife, Lives, Services, Contexts
<1>2. [context.life EXCEPT !.attempt = @ + 1, !.response = FALSE] \in Lives
  <2>1. context.life \in Lives /\ context.life.attempt + 1 \in Nat
    BY DEF IInv, TypeOK, Contexts, Lives
  <2> QED BY <2>1, ChangedFields
<1>3. CASE service.attempt = 0
  <2>1. Request = [context EXCEPT !.life = NewLife, !.compactions = @ + 1]
    BY <1>3 DEF Request
  <2>2. context.compactions + 1 \in Nat /\ context \in Contexts
    BY DEF IInv, TypeOK, Contexts
  <2> HIDE DEF Request, NewLife
  <2> QED BY <1>1, <1>3, <2>1, <2>2 DEF Contexts
<1>4. CASE service.attempt # 0
  BY <1>2, <1>4 DEF IInv, TypeOK, Request, Contexts
<1> QED BY <1>3, <1>4

-----------------------------------------------------------------------------
(* The records, one lemma each: adopted, or broken.                         *)

LEMMA RequestHolds == ASSUME IInv, CommitRequest PROVE IInv'
<1>1. Alive /\ Gated /\ ~loop.halted /\ Agreed
  BY DueIsGated DEF CommitRequest
<1>2. CASE Breaks("request", Request) /\ UNCHANGED port
  BY <1>1, <1>2, BarrierHolds, RequestTyped DEF IInv, TypeOK
<1>3. CASE /\ Commits("request", Request) /\ Advances("request")
           /\ service' = [service EXCEPT !.state = "Compacting", !.attempt = @ + 1]
           /\ \/ port = "idle" /\ port' = "active" /\ call' = AtRest
              \/ UNCHANGED port /\ call' = [call EXCEPT !.at = "rejection"]
           /\ UNCHANGED <<program, clock>>
  <2>1. /\ context' = Request /\ UNCHANGED lost /\ ~loop.halted /\ ~service.stale
    BY <1>3 DEF Commits, Adopted
  <2>2. /\ service' \in Services /\ service'.state = "Compacting"
        /\ service'.attempt = service.attempt + 1 /\ service'.mode = service.mode
        /\ service'.stale = service.stale /\ service'.circuit = service.circuit
        /\ service'.failures = service.failures
    <3>1. service \in Services /\ service.attempt + 1 \in Nat
      BY DEF IInv, TypeOK, Services
    <3> QED BY <1>3, <3>1, ChangedFields
  <2>3. loop'.gate = [loop.gate EXCEPT !.phase = "request"] /\ Gated'
    BY <1>3 DEF Advances, IInv, TypeOK, Loops, Gates, Gated, NoGate
  <2>4. /\ call' \in Calls /\ \/ call'.at = "rest"
                              \/ call'.at = "rejection" /\ UNCHANGED port
        /\ port' \in {"idle", "active", "cancelling"}
    BY <1>3 DEF IInv, TypeOK, Calls, AtRest
  <2>5. /\ port = "idle" /\ service.mode = loop.gate.mode /\ service.state # "none"
        /\ \/ Uncancelled
           \/ ~Pending /\ service.attempt = 0
    BY <1>1, <2>1 DEF Agreed, Placed, CommitRequest, Uncancelled
  <2>6. Bound' /\ context'.life.cancel = "none"
    <3>0. service.attempt \in Nat /\ loop'.gate.mode = loop.gate.mode
      BY <2>3 DEF IInv, TypeOK, Services, Loops, Gates
    <3>1. CASE service.attempt = 0
      <4>1. context'.life = NewLife /\ context'.view = context.view
            /\ context'.facts = context.facts
        BY <3>1, <2>1, RequestTyped
      <4>2. Pending'
        BY <4>1 DEF Pending, NewLife, NoLife
      <4> QED BY <3>0, <3>1, <4>1, <4>2, <2>2, <2>3, <2>5 DEF Bound, NewLife
    <3>2. CASE service.attempt # 0
      <4>1. Uncancelled
        BY <3>2, <2>5
      <4>2. /\ context'.life.attempt = context.life.attempt + 1
            /\ context'.life.mode = context.life.mode
            /\ context'.life.cancel = context.life.cancel
            /\ context'.life.view = context.life.view
            /\ context'.life.source = context.life.source
            /\ context'.view = context.view /\ context'.facts = context.facts
        BY <3>2, <2>1, RequestTyped DEF IInv, TypeOK, Contexts, Lives
      <4>3. Pending'
        BY <3>0, <4>1, <4>2 DEF Pending, NoLife, Uncancelled, Bound
      <4> QED BY <3>0, <4>1, <4>2, <4>3, <2>2, <2>3 DEF Bound, Uncancelled
    <3> QED BY <3>1, <3>2
  <2>7. Placed'
    BY <2>2, <2>4, <2>5, <2>6 DEF Placed, Uncancelled
  <2> QED BY <1>1, <1>3, <2>1, <2>2, <2>4, <2>5, <2>7, AdvanceHolds, RequestTyped
<1> QED BY <1>2, <1>3 DEF CommitRequest

LEMMA RefusalHolds == ASSUME IInv, RequestRefused PROVE IInv'
<1>1. Alive /\ Gated /\ ~loop.halted /\ Agreed
  BY DueIsGated DEF RequestRefused
<1>2. ~Pending /\ port = "idle" /\ service.state = "Idle"
  BY <1>1 DEF RequestRefused, Agreed, Placed, Uncancelled, Bound
<1>3. /\ service' = Inactive(service, "Idle") /\ Ends("wait")
      /\ UNCHANGED <<context, port, program, clock, lost>>
  BY DEF RequestRefused
<1>4. \/ service.circuit # "closed"
      \/ context.failures <= service.failures /\ service.failures < failure_threshold
      \/ clock.cooled /\ service.failures + 1 >= failure_threshold
  BY <1>1, <1>2 DEF Agreed, Streak
<1>5. TypeOK
  BY DEF IInv
<1> QED BY <1>1, <1>2, <1>3, <1>4, <1>5, EndsHolds, InactiveService DEF TypeOK, Pending

\* A service after a failure, and at rest again.
LEMMA FailedInactive ==
  ASSUME TypeOK, NEW failed \in BOOLEAN, NEW state \in {"Idle", "Unknown"},
         NEW s, s = Inactive(IF failed THEN Failed(service) ELSE service, state)
  PROVE  /\ s \in Services /\ s.state = state /\ s.attempt = 0
         /\ s.failures = IF failed /\ service.mode = "automatic"
                         THEN service.failures + 1 ELSE service.failures
         /\ s.circuit = IF /\ failed /\ service.mode = "automatic"
                           /\ service.failures + 1 >= failure_threshold
                        THEN "open" ELSE service.circuit
<1>1. service \in Services
  BY DEF TypeOK
<1>2. CASE failed
  BY <1>1, <1>2, FailedService, InactiveService
<1>3. CASE ~failed
  BY <1>1, <1>3, InactiveService
<1> QED BY <1>2, <1>3

\* The streak after a failure that ends a compaction.
LEMMA StreakAfter ==
  ASSUME TypeOK, Streak, service.state # "none", service.mode = context.life.mode,
         NEW failed \in BOOLEAN,
         context' = Counted(Ended(context), failed),
         service'.failures = IF failed /\ service.mode = "automatic"
                             THEN service.failures + 1 ELSE service.failures,
         service'.circuit = IF /\ failed /\ service.mode = "automatic"
                               /\ service.failures + 1 >= failure_threshold
                            THEN "open" ELSE service.circuit,
         Over(failed)
  PROVE  /\ clock' \in [late : BOOLEAN, cooled : BOOLEAN]
         /\ service'.circuit = "closed" =>
              \/ context'.failures <= service'.failures /\ service'.failures < failure_threshold
              \/ clock'.cooled /\ service'.failures + 1 >= failure_threshold
<1>1. /\ context'.failures = IF failed /\ service.mode = "automatic"
                             THEN context.failures + 1 ELSE context.failures
      /\ context.failures \in Nat /\ service.failures \in Nat
  BY TypedFailure DEF TypeOK, Contexts, Services
<1>2. /\ clock'.cooled = (clock.cooled /\ ~(failed /\ service.mode = "automatic"))
      /\ clock' \in [late : BOOLEAN, cooled : BOOLEAN]
  BY DEF Over, TypeOK
<1> QED BY <1>1, <1>2, CompactionAssumption DEF Streak

LEMMA RejectionHolds == ASSUME IInv, CommitRejection PROVE IInv'
<1> DEFINE last == service.attempt >= maximum_attempts
           new == IF last THEN Counted(Ended(context), TRUE) ELSE context
<1>1. /\ Alive /\ Gated /\ TypeOK
      /\ ~loop.halted => Agreed
  BY DueIsGated DEF CommitRejection, IInv
<1>2. new \in Contexts
  BY <1>1, TypedFailure DEF TypeOK
<1>3. CASE Breaks("rejection", new) /\ UNCHANGED port
  BY <1>1, <1>2, <1>3, BarrierHolds DEF TypeOK
<1>4. CASE /\ Commits("rejection", new)
           /\ IF last
              THEN /\ service' = Inactive(Failed(service), "Idle")
                   /\ Ends("wait") /\ Over(TRUE)
              ELSE /\ Advances("retry") /\ call' = [call EXCEPT !.at = "request"]
                   /\ UNCHANGED <<service, clock>>
           /\ UNCHANGED <<port, program>>
  <2>1. /\ context' = new /\ UNCHANGED lost /\ ~loop.halted
    BY <1>4 DEF Commits, Adopted
  <2>2. Agreed /\ Uncancelled /\ port = "idle"
    BY <1>1, <2>1 DEF Agreed, Placed, CommitRejection
  <2>3. CASE last
    <3>1. /\ context'.life = NoLife /\ context'.turn = context.turn
      BY <1>1, <2>1, <2>3, TypedFailure
    <3>2. /\ service' \in Services /\ service'.state = "Idle" /\ service'.attempt = 0
          /\ service'.failures = IF service.mode = "automatic"
                                 THEN service.failures + 1 ELSE service.failures
          /\ service'.circuit = IF /\ service.mode = "automatic"
                                   /\ service.failures + 1 >= failure_threshold
                                THEN "open" ELSE service.circuit
      BY <1>1, <1>4, <2>3, FailedInactive
    <3>3. /\ clock' \in [late : BOOLEAN, cooled : BOOLEAN]
          /\ service'.circuit = "closed" =>
               \/ /\ context'.failures <= service'.failures
                  /\ service'.failures < failure_threshold
               \/ clock'.cooled /\ service'.failures + 1 >= failure_threshold
      BY <1>1, <1>4, <2>1, <2>2, <2>3, <3>2, StreakAfter DEF Agreed, Uncancelled, Bound
    <3> QED BY <1>1, <1>2, <1>4, <2>1, <2>2, <2>3, <3>1, <3>2, <3>3, EndsHolds DEF TypeOK
  <2>4. CASE ~last
    <3>1. context' = context /\ Advances("retry") /\ UNCHANGED <<service, clock, port, program>>
      BY <1>4, <2>1, <2>4
    <3>2. call' \in Calls /\ call'.at = "request"
      BY <1>1, <1>4, <2>4 DEF TypeOK, Calls
    <3>3. loop'.gate.mode = loop.gate.mode /\ Gated'
      BY <1>1, <3>1 DEF Advances, TypeOK, Loops, Gates, Gated, NoGate
    <3>4. Placed' /\ service'.attempt > 0
      BY <2>2, <3>1, <3>2, <3>3 DEF Placed, Uncancelled, Bound, Pending
    <3> QED BY <1>1, <2>1, <2>2, <3>1, <3>2, <3>4, AdvanceHolds DEF TypeOK, Uncancelled
  <2> QED BY <2>3, <2>4
<1> QED BY <1>3, <1>4 DEF CommitRejection

LEMMA ResponseHolds == ASSUME IInv, CommitResponse PROVE IInv'
<1> DEFINE new == [context EXCEPT !.life.response = TRUE]
<1>1. /\ Alive /\ Gated /\ TypeOK
      /\ ~loop.halted => Agreed
  BY DueIsGated DEF CommitResponse, IInv
<1>2. /\ new \in Contexts /\ new.turn = context.turn /\ new.failures = context.failures
      /\ new.view = context.view /\ new.facts = context.facts
      /\ new.life.mode = context.life.mode /\ new.life.attempt = context.life.attempt
      /\ new.life.cancel = context.life.cancel /\ new.life.view = context.life.view
      /\ new.life.source = context.life.source
  BY <1>1 DEF TypeOK, Contexts, Lives
<1> HIDE DEF new
<1>3. CASE Breaks("response", new) /\ UNCHANGED port
  BY <1>1, <1>2, <1>3, BarrierHolds DEF TypeOK
<1>4. CASE /\ Commits("response", new)
           /\ Advances("response")
           /\ \E next \in {"publication", "rejection"} : call' = [call EXCEPT !.at = next]
           /\ UNCHANGED <<service, port, program, clock>>
  <2>1. /\ context' = new /\ UNCHANGED <<lost, service, port, program, clock>> /\ ~loop.halted
    BY <1>4 DEF Commits, Adopted
  <2>2. Agreed /\ Uncancelled /\ port = "idle"
    BY <1>1, <2>1 DEF Agreed, Placed, CommitResponse
  <2>3. call' \in Calls /\ call'.at \in {"publication", "rejection"}
    BY <1>1, <1>4 DEF TypeOK, Calls
  <2>4. loop'.gate.mode = loop.gate.mode /\ Gated'
    BY <1>1, <1>4 DEF Advances, TypeOK, Loops, Gates, Gated, NoGate
  <2>5. Uncancelled'
    <3>1. context.life.attempt \in Nat
      BY <1>1 DEF TypeOK, Contexts, Lives
    <3> QED BY <1>2, <2>1, <2>2, <2>4, <3>1 DEF Uncancelled, Bound, Pending, NoLife
  <2>6. Placed'
    BY <2>1, <2>2, <2>3, <2>5 DEF Placed
  <2> QED BY <1>1, <1>2, <1>4, <2>1, <2>2, <2>3, <2>6, AdvanceHolds DEF TypeOK, Uncancelled
<1> QED BY <1>3, <1>4 DEF CommitResponse, new

LEMMA PublishHolds == ASSUME IInv, Publish PROVE IInv'
<1> DEFINE new == [Ended(context) EXCEPT !.view = Summary, !.failures = 0]
<1>1. Alive /\ Gated /\ TypeOK /\ ~loop.halted /\ Agreed
  BY DueIsGated DEF Publish, IInv
<1>2. /\ new \in Contexts /\ new.turn = context.turn /\ new.failures = 0 /\ new.life = NoLife
  <2>1. Ended(context) \in Contexts /\ Summary \in Views
    BY <1>1, TypedContext DEF TypeOK, Contexts, Lives, Summary, Views
  <2>2. Ended(context).turn = context.turn /\ Ended(context).life = NoLife
    BY <1>1, TypedContext
  <2> HIDE DEF Ended, Summary
  <2> QED BY <2>1, <2>2 DEF Contexts
<1> HIDE DEF new
<1>3. CASE Breaks("publication", new) /\ UNCHANGED port
  BY <1>1, <1>2, <1>3, BarrierHolds DEF TypeOK
<1>4. CASE /\ Commits("publication", new)
           /\ service' = [Inactive(service, "Idle") EXCEPT !.failures = 0,
                                                          !.circuit = "closed"]
           /\ Ends("go") /\ Over(FALSE)
           /\ UNCHANGED <<port, program>>
  <2>1. /\ context' = new /\ UNCHANGED <<lost, port, program>>
    BY <1>4 DEF Commits
  <2>2. port = "idle"
    BY <1>1 DEF Agreed, Placed, Publish
  <2>3. /\ service' \in Services /\ service'.state = "Idle" /\ service'.attempt = 0
        /\ service'.failures = 0
    <3>1. /\ Inactive(service, "Idle") \in Services
          /\ Inactive(service, "Idle").state = "Idle" /\ Inactive(service, "Idle").attempt = 0
      BY <1>1, InactiveService DEF TypeOK
    <3> QED BY <1>4, <3>1 DEF Services
  <2>4. clock' \in [late : BOOLEAN, cooled : BOOLEAN]
    BY <1>1, <1>4 DEF Over, TypeOK
  <2> QED BY <1>1, <1>2, <1>4, <2>1, <2>2, <2>3, <2>4, EndsHolds, CompactionAssumption DEF TypeOK
<1> QED BY <1>3, <1>4 DEF Publish, new

LEMMA CancelHolds == ASSUME IInv, CommitCancel PROVE IInv'
<1> DEFINE new == [context EXCEPT !.life.cancel = call.with]
<1>1. /\ Alive /\ Gated /\ TypeOK /\ call.with \in Reasons
      /\ ~loop.halted => Agreed
  BY DueIsGated DEF CommitCancel, IInv, TypeOK
<1>2. /\ new \in Contexts /\ new.turn = context.turn /\ new.failures = context.failures
      /\ new.view = context.view /\ new.facts = context.facts
      /\ new.life.mode = context.life.mode /\ new.life.attempt = context.life.attempt
      /\ new.life.cancel # "none" /\ new.life.view = context.life.view
      /\ new.life.source = context.life.source
  BY <1>1 DEF TypeOK, Contexts, Lives, Reasons
<1> HIDE DEF new
<1>3. CASE Breaks("cancel", new) /\ port' \in {port} \cup
             (IF port = "active" THEN {"idle", "cancelling"} ELSE {})
  BY <1>1, <1>2, <1>3, BarrierHolds DEF TypeOK
<1>4. CASE /\ Commits("cancel", new)
           /\ Advances("cancelling")
           /\ \/ /\ port = "active" /\ port' = "cancelling"
                 /\ service' = [service EXCEPT !.state = "Cancelling", !.reason = call.with]
                 /\ call' = AtRest
                 /\ program' = IF call.by = "close" THEN "settling" ELSE program
              \/ \E outcome \in {"cancelled", "unknown"} :
                   /\ outcome = "cancelled" => port = "active"
                   /\ port' = IF outcome = "cancelled" THEN "idle" ELSE port
                   /\ service' = [service EXCEPT !.reason = call.with]
                   /\ call' = [call EXCEPT !.at = "cancelled", !.with = outcome]
                   /\ UNCHANGED program
           /\ UNCHANGED clock
  <2>1. /\ context' = new /\ UNCHANGED <<lost, clock>> /\ ~loop.halted
    BY <1>4 DEF Commits, Adopted
  <2>2. Agreed /\ Uncancelled
    BY <1>1, <2>1 DEF Agreed, Placed, CommitCancel
  <2>3. loop'.gate.mode = loop.gate.mode /\ Gated'
    BY <1>1, <1>4 DEF Advances, TypeOK, Loops, Gates, Gated, NoGate
  <2>4. /\ service' \in Services /\ service'.state \in {"Compacting", "Cancelling"}
        /\ service'.mode = service.mode /\ service'.attempt = service.attempt
        /\ service'.stale = service.stale /\ service'.failures = service.failures
        /\ service'.circuit = service.circuit
    BY <1>1, <1>4, <2>2 DEF TypeOK, Services, Uncancelled
  <2>5. Bound'
    <3>1. context.life.attempt \in Nat
      BY <1>1 DEF TypeOK, Contexts, Lives
    <3> QED BY <1>2, <2>1, <2>2, <2>3, <2>4, <3>1 DEF Uncancelled, Bound, Pending, NoLife
  <2>6. /\ call' \in Calls /\ port' \in {"idle", "active", "cancelling"}
        /\ program' \in {program, "settling"}
        /\ \/ call'.at = "rest" /\ service'.state = "Cancelling"
           \/ /\ call'.at = "cancelled" /\ call'.with \in {"cancelled", "unknown"}
              /\ call'.with = "cancelled" => port' = "idle"
    <3>1. CASE /\ port' = "cancelling" /\ call' = AtRest
               /\ service' = [service EXCEPT !.state = "Cancelling", !.reason = call.with]
               /\ program' = IF call.by = "close" THEN "settling" ELSE program
      <4>1. AtRest \in Calls /\ AtRest.at = "rest"
        BY DEF AtRest, Calls
      <4>2. service'.state = "Cancelling"
        BY <1>1, <3>1 DEF TypeOK, Services
      <4> QED BY <3>1, <4>1, <4>2
    <3>2. ASSUME NEW outcome \in {"cancelled", "unknown"},
                 port' = IF outcome = "cancelled" THEN "idle" ELSE port,
                 call' = [call EXCEPT !.at = "cancelled", !.with = outcome],
                 UNCHANGED program
          PROVE  /\ call' \in Calls /\ port' \in {"idle", "active", "cancelling"}
                 /\ call'.at = "cancelled" /\ call'.with \in {"cancelled", "unknown"}
                 /\ call'.with = "cancelled" => port' = "idle"
      <4>1. /\ call' \in Calls /\ call'.at = "cancelled" /\ call'.with = outcome
        BY <1>1, <3>2 DEF TypeOK, Calls
      <4> QED BY <1>1, <3>2, <4>1 DEF TypeOK
    <3> QED BY <1>4, <3>1, <3>2
  <2>7. Placed'
    BY <1>2, <2>1, <2>4, <2>5, <2>6 DEF Placed
  <2> QED BY <1>1, <1>2, <1>4, <2>1, <2>2, <2>4, <2>6, <2>7, AdvanceHolds DEF Uncancelled
<1> QED BY <1>3, <1>4 DEF CommitCancel, new

LEMMA CancelledHolds == ASSUME IInv, CommitCancelled PROVE IInv'
<1> DEFINE late == service.reason = "compaction-active-time"
           new == Counted(Ended(context), late)
<1>1. /\ Alive /\ Gated /\ TypeOK
      /\ ~loop.halted => Agreed
  BY DueIsGated DEF CommitCancelled, IInv
<1>2. new \in Contexts /\ new.life = NoLife /\ new.turn = context.turn
  BY <1>1, TypedFailure
<1>3. CASE Breaks("cancelled", new) /\ UNCHANGED port
  BY <1>1, <1>2, <1>3, BarrierHolds DEF TypeOK
<1>4. CASE /\ Commits("cancelled", new)
           /\ service' = Inactive(IF late THEN Failed(service) ELSE service,
                                  FinishedState(call.with))
           /\ Ends("wait") /\ Over(late)
           /\ UNCHANGED <<port, program>>
  <2>1. /\ context' = new /\ UNCHANGED <<lost, port, program>> /\ ~loop.halted
    BY <1>4 DEF Commits, Adopted
  <2>2. /\ Agreed /\ Bound /\ service.state \in {"Compacting", "Cancelling"}
        /\ call.with \in {"cancelled", "unknown"}
        /\ call.with = "cancelled" => port = "idle"
    BY <1>1, <2>1 DEF Agreed, Placed, CommitCancelled
  <2>3. /\ FinishedState(call.with) \in {"Idle", "Unknown"}
        /\ FinishedState(call.with) = "Idle" => port = "idle"
    BY <2>2 DEF FinishedState
  <2>4. /\ service' \in Services /\ service'.state = FinishedState(call.with)
        /\ service'.attempt = 0
        /\ service'.failures = IF late /\ service.mode = "automatic"
                               THEN service.failures + 1 ELSE service.failures
        /\ service'.circuit = IF /\ late /\ service.mode = "automatic"
                                 /\ service.failures + 1 >= failure_threshold
                              THEN "open" ELSE service.circuit
    BY <1>1, <1>4, <2>3, FailedInactive
  <2>5. /\ clock' \in [late : BOOLEAN, cooled : BOOLEAN]
        /\ service'.circuit = "closed" =>
             \/ /\ context'.failures <= service'.failures
                /\ service'.failures < failure_threshold
             \/ clock'.cooled /\ service'.failures + 1 >= failure_threshold
    BY <1>1, <1>4, <2>1, <2>2, <2>4, StreakAfter DEF Agreed, Bound
  <2> HIDE DEF new
  <2> QED BY <1>1, <1>2, <1>4, <2>1, <2>2, <2>3, <2>4, <2>5, EndsHolds DEF TypeOK
<1> QED BY <1>3, <1>4 DEF CommitCancelled

LEMMA ResolveHolds == ASSUME IInv, Resolve PROVE IInv'
<1> DEFINE new == [context EXCEPT !.view.facts = context.facts]
<1>1. /\ Alive /\ TypeOK /\ ~loop.halted /\ Agreed /\ Free
      /\ UNCHANGED <<service, port, clock>>
  BY DEF Resolve, IInv, Outside, AtRest, Fallen, Agreed, Placed
<1>2. /\ new \in Contexts /\ new.turn = context.turn /\ new.life = context.life
      /\ new.failures = context.failures /\ context.turn
  BY <1>1 DEF TypeOK, Contexts, Views, Agreed, Placed, Resolve
<1> HIDE DEF new
<1>3. AtRest \in Calls /\ AtRest.at = "rest"
  BY DEF AtRest, Calls
<1>4. CASE /\ \/ context' = new /\ loop' = [loop EXCEPT !.turn = "working"]
              \/ context' = context /\ loop' = [loop EXCEPT !.turn = "waiting"]
           /\ call' = AtRest /\ UNCHANGED <<program, lost>>
  <2>1. /\ loop' \in Loops /\ loop'.gate = loop.gate /\ loop'.halted = loop.halted
        /\ loop'.turn # "idle"
    BY <1>1, <1>4 DEF TypeOK, Loops
  <2>2. /\ context' \in Contexts /\ context'.turn /\ context'.life = context.life
        /\ context'.failures = context.failures
    BY <1>1, <1>2, <1>4 DEF TypeOK
  <2>3. TypeOK'
    BY <1>1, <1>3, <1>4, <2>1, <2>2 DEF TypeOK
  <2>4. Outside' /\ Free'
    BY <1>1, <1>4, <2>1, <2>2 DEF Outside, Alive, Free, Gated, Pending
  <2>5. Placed' /\ Deferred' /\ Streak'
    BY <1>1, <1>3, <1>4, <2>1, <2>2, <2>4 DEF Placed, Deferred, Streak, Agreed, Free, Gated, NoGate
  <2> QED BY <1>1, <2>1, <2>2, <2>3, <2>4, <2>5 DEF IInv, Agreed
<1>5. CASE Unacknowledged(new) /\ Error(call.by)
  <2>1. /\ loop' \in Loops /\ loop'.gate = loop.gate /\ loop'.halted
    BY <1>1, <1>5 DEF Unacknowledged, TypeOK, Loops
  <2>2. /\ context' \in Contexts /\ context'.life = context.life /\ lost' \in BOOLEAN
        /\ call' = AtRest /\ program' \in {"running", "closing", "settling", "failed"}
    BY <1>1, <1>2, <1>5 DEF Unacknowledged, TypeOK, Error, AfterError, Alive
  <2>3. TypeOK'
    BY <1>1, <1>3, <2>1, <2>2 DEF TypeOK
  <2>4. Outside' /\ Fallen'
    BY <1>1, <1>3, <2>1, <2>2 DEF Outside, Alive, Fallen, Free, Gated, Pending
  <2> QED BY <2>1, <2>3, <2>4 DEF IInv
<1> QED BY <1>4, <1>5 DEF Resolve, new

-----------------------------------------------------------------------------
(* How a compaction begins, and the rounds that drive it.                   *)

\* A compaction is admitted on a free lane, between two calls.
LEMMA AdmittedFree ==
  ASSUME IInv, NEW mode \in Modes, Admits(mode)
  PROVE  /\ TypeOK /\ Alive
         /\ Agreed /\ Free /\ program = "running" /\ call = AtRest /\ call.at = "rest"
         /\ ~loop.halted
         /\ mode = "automatic" => loop.turn = "deferred"
BY DEF IInv, Admits, Alive, Agreed, Placed, AtRest, Uncancelled, Bound

\* The service that is there for a beginning knows what the Context has counted.
LEMMA EnsuredService ==
  ASSUME TypeOK, Free, Streak, NEW s, s = EnsureService
  PROVE  /\ s \in Services /\ s.attempt = 0 /\ s.state # "none"
         /\ s.state \in {"Idle", "Unknown", "replaced"}
         /\ s.state = "Idle" => port = "idle"
         /\ s.circuit = "closed" =>
              \/ context.failures <= s.failures /\ s.failures < failure_threshold
              \/ clock.cooled /\ s.failures + 1 >= failure_threshold
<1>1. CASE service.state = "none"
  <2>1. s = NewService /\ context.failures \in Nat
    BY <1>1 DEF EnsureService, TypeOK, Contexts
  <2>2. PICK c \in {"closed", "recovered"} :
          /\ c = IF context.failures >= failure_threshold THEN "recovered" ELSE "closed"
          /\ s = [NoService EXCEPT !.state = "Idle", !.failures = context.failures,
                                   !.circuit = c]
    BY <2>1 DEF NewService
  <2>3. NoService \in Services /\ NoService.attempt = 0
    BY DEF NoService, Services
  <2>4. /\ s \in Services /\ s.attempt = 0 /\ s.state = "Idle"
        /\ s.failures = context.failures /\ s.circuit = c
    <3> HIDE DEF NoService
    <3> QED BY <2>1, <2>2, <2>3 DEF Services
  <2> QED BY <1>1, <2>1, <2>2, <2>4, CompactionAssumption DEF Free
<1>2. CASE service.state # "none"
  BY <1>2 DEF EnsureService, TypeOK, Free, Streak
<1> QED BY <1>1, <1>2

LEMMA BeginRefusedHolds == ASSUME IInv, BeginRefused PROVE IInv'
<1>1. /\ TypeOK /\ Agreed /\ Free /\ call = AtRest /\ call.at = "rest" /\ ~loop.halted
  BY AdmittedFree DEF BeginRefused, Modes
<1>2. /\ UNCHANGED <<context, loop, service, port, clock, lost, call>>
      /\ program' = "closing"
  BY <1>1 DEF BeginRefused, Admits, Error, AfterError, Driver
<1>3. TypeOK' /\ Outside'
  BY <1>1, <1>2 DEF TypeOK, Outside, Alive
<1>4. Agreed'
  BY <1>1, <1>2 DEF Agreed, Placed, Deferred, Streak, Free, Gated, Pending, Uncancelled, Bound
<1> QED BY <1>1, <1>2, <1>3, <1>4 DEF IInv

\* Nothing is begun: the lane stays free.
LEMMA NothingBegun ==
  ASSUME IInv, NEW mode \in Modes, Admits(mode), NEW then \in {"go", "wait"},
         Declines(mode, then), service' \in Services, service'.attempt = 0,
         service'.state \in {"Idle", "Unknown", "replaced"},
         service'.state = "Idle" => port = "idle",
         service'.circuit = "closed" =>
           \/ context.failures <= service'.failures /\ service'.failures < failure_threshold
           \/ clock'.cooled /\ service'.failures + 1 >= failure_threshold,
         clock' \in [late : BOOLEAN, cooled : BOOLEAN]
  PROVE  IInv'
<1>1. /\ TypeOK /\ Agreed /\ Free /\ call = AtRest /\ ~loop.halted /\ program = "running"
      /\ mode = "automatic" => loop.turn = "deferred"
  BY AdmittedFree
<1>2. /\ UNCHANGED <<context, loop, port, program, lost>> /\ call' \in Calls
      /\ \/ call'.at = "rest"
         \/ call'.at = "resolve" /\ mode = "automatic"
  BY DEF Declines, AtRest, Calls
<1>3. TypeOK' /\ Outside' /\ Alive'
  BY <1>1, <1>2 DEF TypeOK, Outside, Alive
<1>4. Free'
  BY <1>1, <1>2 DEF Free, Gated, Pending
<1>5. Agreed'
  BY <1>1, <1>2, <1>4 DEF Agreed, Placed, Deferred, Streak, Gated, Free
<1> QED BY <1>1, <1>2, <1>3, <1>5 DEF IInv

LEMMA BeginDeclinedHolds ==
  ASSUME IInv, NEW mode \in Modes, BeginDeclined(mode) PROVE IInv'
<1>1. TypeOK /\ Free /\ Streak /\ Admits(mode)
  BY AdmittedFree DEF BeginDeclined, Agreed
<1>2. PICK then \in {"go", "wait"} : Declines(mode, then)
  BY DEF BeginDeclined
<1>3. service' = EnsureService /\ UNCHANGED clock
  BY DEF BeginDeclined
<1>4. /\ service' \in Services /\ service'.attempt = 0
      /\ service'.state \in {"Idle", "Unknown", "replaced"}
      /\ service'.state = "Idle" => port = "idle"
      /\ service'.circuit = "closed" =>
           \/ context.failures <= service'.failures /\ service'.failures < failure_threshold
           \/ clock.cooled /\ service'.failures + 1 >= failure_threshold
  BY <1>1, <1>3, EnsuredService
<1> QED BY <1>1, <1>2, <1>3, <1>4, NothingBegun DEF TypeOK

LEMMA BeginSuppressedHolds == ASSUME IInv, BeginSuppressed PROVE IInv'
<1> DEFINE s == EnsureService
<1>1. TypeOK /\ Free /\ Streak /\ Admits("automatic")
  BY AdmittedFree DEF BeginSuppressed, Agreed, Modes
<1>2. s \in Services /\ s.attempt = 0 /\ s.state = "Idle" /\ port = "idle"
  BY <1>1, EnsuredService DEF BeginSuppressed
<1>3. service' = Circuit(s) /\ (s.circuit = "recovered" \/ (s.circuit = "open" /\ ~clock.cooled))
  BY DEF BeginSuppressed, Suppressed
<1> HIDE DEF s
<1>4. /\ service' \in Services /\ service'.attempt = 0 /\ service'.state = "Idle"
      /\ service'.circuit = "open"
  BY <1>2, <1>3 DEF Circuit, Services
<1>5. clock' \in [late : BOOLEAN, cooled : BOOLEAN] /\ Declines("automatic", "wait")
  BY <1>1 DEF BeginSuppressed, TypeOK
<1> QED BY <1>1, <1>2, <1>4, <1>5, NothingBegun DEF Modes

LEMMA BeginCompactionHolds ==
  ASSUME IInv, NEW mode \in Modes, BeginCompaction(mode) PROVE IInv'
<1>1. /\ TypeOK /\ Agreed /\ Free /\ ~loop.halted /\ program = "running" /\ Streak
      /\ mode = "automatic" => loop.turn = "deferred"
  BY AdmittedFree DEF BeginCompaction, Agreed
<1>2. PICK s \in Services :
        /\ service' = [s EXCEPT !.mode = mode]
        /\ s.attempt = 0 /\ s.state = "Idle" /\ port = "idle"
        /\ s.circuit = "closed" =>
             \/ context.failures <= s.failures /\ s.failures < failure_threshold
             \/ clock.cooled /\ s.failures + 1 >= failure_threshold
        /\ mode = "automatic" => s.circuit = "closed"
  <2> DEFINE e == EnsureService
  <2>1. /\ e \in Services /\ e.attempt = 0 /\ e.state = "Idle" /\ port = "idle"
        /\ e.circuit = "closed" =>
             \/ context.failures <= e.failures /\ e.failures < failure_threshold
             \/ clock.cooled /\ e.failures + 1 >= failure_threshold
    BY <1>1, EnsuredService DEF BeginCompaction
  <2>2. /\ service' = [IF mode = "automatic" THEN Circuit(e) ELSE e EXCEPT !.mode = mode]
        /\ mode = "automatic" => e.circuit # "recovered" /\ ~Suppressed(e)
    BY DEF BeginCompaction
  <2> HIDE DEF e
  <2>3. CASE mode = "manual"
    BY <2>1, <2>2, <2>3
  <2>4. CASE mode = "automatic" /\ e.circuit = "closed"
    <3>1. Circuit(e) = e
      BY <2>4 DEF Circuit
    <3> QED BY <2>1, <2>2, <2>4, <3>1
  <2>5. CASE mode = "automatic" /\ e.circuit = "open" /\ clock.cooled
    <3>1. PICK n \in Nat : n = failure_threshold - 1
      BY CompactionAssumption
    <3>2. Circuit(e) = [e EXCEPT !.circuit = "closed", !.failures = n]
      BY <2>5, <3>1 DEF Circuit
    <3>3. /\ Circuit(e) \in Services /\ Circuit(e).attempt = 0 /\ Circuit(e).state = "Idle"
          /\ Circuit(e).circuit = "closed" /\ Circuit(e).failures = n
      BY <2>1, <3>2 DEF Services
    <3> QED BY <2>1, <2>2, <2>5, <3>1, <3>3, CompactionAssumption
  <2> QED BY <2>1, <2>2, <2>3, <2>4, <2>5 DEF Suppressed, Modes, Services
<1>3. /\ service' \in Services /\ service'.attempt = 0 /\ service'.state = "Idle"
      /\ service'.mode = mode /\ service'.failures = s.failures
      /\ service'.circuit = s.circuit
  BY <1>2 DEF Services
<1>4. /\ loop'.gate = [mode |-> mode, phase |-> "opened"] /\ loop' \in Loops
      /\ loop'.turn = loop.turn /\ ~loop'.halted
  BY <1>1 DEF BeginCompaction, TypeOK, Loops, Gates
<1>5. /\ call' \in Calls /\ call'.at = "request"
      /\ UNCHANGED <<context, port, program, lost>>
      /\ clock' = [clock EXCEPT !.late = FALSE]
  BY DEF BeginCompaction, Calls, Driver
<1>6. clock' \in [late : BOOLEAN, cooled : BOOLEAN] /\ clock'.cooled = clock.cooled
  BY <1>1, <1>5 DEF TypeOK
<1>7. TypeOK' /\ Outside' /\ Alive'
  BY <1>1, <1>3, <1>4, <1>5, <1>6 DEF TypeOK, Outside, Alive
<1>8. Gated' /\ loop'.gate.mode = mode
  BY <1>4 DEF Gated, NoGate
<1>9. Placed' /\ Deferred'
  BY <1>1, <1>2, <1>3, <1>4, <1>5, <1>8 DEF Placed, Deferred, Free, Pending
<1>10. Streak'
  BY <1>2, <1>3, <1>5, <1>6, <1>1, CompactionAssumption DEF Streak, TypeOK, Contexts, Services
<1> QED BY <1>1, <1>4, <1>5, <1>7, <1>9, <1>10 DEF IInv, Agreed

\* A step of a round, or of a command, on a lane that is taken.
LEMMA RoundHolds ==
  ASSUME IInv, Alive, call = AtRest, Gated, UNCHANGED <<context, loop, service, lost>>,
         clock' \in [late : BOOLEAN, cooled : BOOLEAN], clock'.cooled = clock.cooled,
         port' \in {"idle", "active", "cancelling"}, call' \in Calls,
         call'.at \notin {"request", "publication", "resolve"},
         call'.at = "cancel" => call'.with \in Reasons,
         \/ UNCHANGED program
         \/ call' = AtRest /\ program' \in {"closing", "failed"},
         ~loop.halted => Placed'
  PROVE  IInv'
<1>1. TypeOK'
  BY DEF IInv, TypeOK
<1>2. Outside'
  BY DEF Outside, Alive, IInv
<1>3. CASE loop.halted
  BY <1>1, <1>2, <1>3 DEF IInv, Fallen, Gated
<1>4. CASE ~loop.halted
  <2>1. Agreed
    BY <1>4 DEF IInv
  <2>2. Deferred' /\ Streak' /\ (context.turn <=> loop.turn # "idle")'
    BY <2>1 DEF Agreed, Deferred, Streak, Gated
  <2> QED BY <1>1, <1>2, <1>4, <2>2 DEF IInv, Agreed
<1> QED BY <1>3, <1>4

\* Between two calls on a lane that is taken.
LEMMA TakenRest ==
  ASSUME IInv, Alive, call = AtRest, Gated, ~loop.halted
  PROVE  \/ Uncancelled
         \/ Bound /\ service.state = "Cancelling" /\ context.life.cancel # "none"
BY DEF IInv, Agreed, Placed, AtRest, Free

LEMMA TickHolds == ASSUME IInv, Tick PROVE IInv'
<1>1. /\ Alive /\ call = AtRest /\ Gated /\ TypeOK
      /\ UNCHANGED <<context, loop, service, port, program, clock, lost>>
  BY DEF Tick, Polls, Alive, IInv
<1>2. /\ call' \in Calls
      /\ \/ call'.at = "cancel" /\ call'.with \in Reasons /\ service.state = "Compacting"
         \/ /\ call'.at = "cancelled" /\ call'.with = "unknown"
            /\ service.state = "Cancelling"
  BY DEF Tick, Due, Continues, Calls, Reasons
<1>3. ~loop.halted => Placed'
  BY <1>1, <1>2, TakenRest DEF Placed, Uncancelled, Bound, Gated, Pending
<1> QED BY <1>1, <1>2, <1>3, RoundHolds DEF TypeOK

LEMMA AnswerHolds == ASSUME IInv, Answer PROVE IInv'
<1>1. /\ Alive /\ call = AtRest /\ Gated /\ TypeOK /\ port' = "idle" /\ AtRest.at = "rest"
      /\ UNCHANGED <<context, loop, service, lost>>
  BY DEF Answer, Polls, Alive, IInv, AtRest
<1>2. clock' \in [late : BOOLEAN, cooled : BOOLEAN] /\ clock'.cooled = clock.cooled
  BY <1>1 DEF Answer, TypeOK
<1>3. CASE service.state = "Compacting"
  <2>1. /\ call' \in Calls /\ UNCHANGED program
        /\ \/ call'.at \in {"response", "rejection"}
           \/ call'.at = "cancel" /\ call'.with \in Reasons
    BY <1>3 DEF Answer, Continues, Calls, Reasons
  <2>2. ~loop.halted => Placed'
    BY <1>1, <1>3, <2>1, TakenRest DEF Placed, Uncancelled, Bound, Gated, Pending
  <2> QED BY <1>1, <1>2, <2>1, <2>2, RoundHolds
<1>4. CASE service.state # "Compacting"
  <2>1. call' = AtRest /\ call' \in Calls /\ program' \in {"closing", "failed"}
    BY <1>1, <1>4 DEF Answer, Error, AfterError, TypeOK
  <2>2. ~loop.halted => Placed'
    BY <1>1, <1>4, <2>1, TakenRest DEF Placed, Uncancelled, Bound, Gated, Pending
  <2> QED BY <1>1, <1>2, <2>1, <2>2, RoundHolds
<1> QED BY <1>3, <1>4

LEMMA SettleHolds == ASSUME IInv, Settle PROVE IInv'
<1>1. /\ Alive /\ call = AtRest /\ Gated /\ TypeOK /\ port' = "idle" /\ AtRest.at = "rest"
      /\ UNCHANGED <<context, loop, service, clock, lost>>
  BY DEF Settle, Polls, Alive, IInv, AtRest
<1>2. CASE service.state = "Cancelling"
  <2>1. /\ call' \in Calls /\ UNCHANGED program
        /\ call'.at = "cancelled" /\ call'.with \in {"cancelled", "unknown"}
    BY <1>2 DEF Settle, Continues, Calls
  <2>2. ~loop.halted => Placed'
    BY <1>1, <1>2, <2>1, TakenRest DEF Placed, Uncancelled, Bound, Gated, Pending
  <2> QED BY <1>1, <2>1, <2>2, RoundHolds DEF TypeOK
<1>3. CASE service.state # "Cancelling"
  <2>1. call' = AtRest /\ call' \in Calls /\ program' \in {"closing", "failed"}
    BY <1>1, <1>3 DEF Settle, Error, AfterError, TypeOK
  <2>2. ~loop.halted => Placed'
    BY <1>1, <1>3, <2>1, TakenRest DEF Placed, Uncancelled, Bound, Gated, Pending
  <2> QED BY <1>1, <2>1, <2>2, RoundHolds DEF TypeOK
<1> QED BY <1>2, <1>3

LEMMA PollFailsHolds == ASSUME IInv, PollFails PROVE IInv'
<1>1. /\ Alive /\ call = AtRest /\ Gated /\ TypeOK /\ AtRest.at = "rest"
      /\ port' \in {"idle", "active", "cancelling"}
      /\ UNCHANGED <<context, loop, service, clock, lost>>
  BY DEF PollFails, Polls, Alive, IInv, AtRest, TypeOK
<1>2. call' = AtRest /\ call' \in Calls /\ program' \in {"closing", "failed"}
  BY <1>1 DEF PollFails, Error, AfterError, TypeOK
<1>3. ~loop.halted => Placed'
  BY <1>1, <1>2, TakenRest DEF Placed, Uncancelled, Bound, Gated, Pending
<1> QED BY <1>1, <1>2, <1>3, RoundHolds DEF TypeOK

LEMMA CancelCommandHolds == ASSUME IInv, CancelCommand PROVE IInv'
<1>1. /\ Alive /\ call = AtRest /\ Gated /\ TypeOK /\ service.state = "Compacting"
      /\ UNCHANGED <<context, loop, service, port, program, clock, lost>>
  BY DEF CancelCommand, Alive, IInv
<1>2. call' \in Calls /\ call'.at = "cancel" /\ call'.with \in Reasons
  BY DEF CancelCommand, Continues, Calls, Reasons
<1>3. ~loop.halted => Placed'
  BY <1>1, <1>2, TakenRest DEF Placed, Uncancelled, Bound, Gated, Pending
<1> QED BY <1>1, <1>2, <1>3, RoundHolds DEF TypeOK

-----------------------------------------------------------------------------
(* The other commits, the end of a session and the next one.                *)

\* A commit of the loop that is not acknowledged: it halts, and so does the lane.
LEMMA UnacknowledgedHolds ==
  ASSUME IInv, Alive, ~loop.halted, call = AtRest, NEW new \in Contexts,
         new.life = context.life, Unacknowledged(new), UNCHANGED <<port, call, clock>>,
         service' \in Services,
         program' \in {"running", "closing", "settling", "failed"}
  PROVE  IInv'
<1>1. /\ loop' \in Loops /\ loop'.gate = loop.gate /\ loop'.halted
  BY DEF Unacknowledged, IInv, TypeOK, Loops
<1>2. context' \in Contexts /\ context'.life = context.life /\ lost' \in BOOLEAN
  BY DEF Unacknowledged, IInv, TypeOK
<1>3. TypeOK' /\ Outside'
  BY <1>1, <1>2 DEF IInv, TypeOK, Outside, Alive
<1>4. call.at = "rest" /\ Placed
  BY DEF AtRest, IInv, Agreed
<1>5. Fallen'
  BY <1>1, <1>2, <1>4 DEF Placed, Uncancelled, Bound, Free, Fallen, Gated, Pending
<1> QED BY <1>1, <1>3, <1>5 DEF IInv

LEMMA TurnHolds == ASSUME IInv, NEW next \in DOMAIN Moves, Turn(next) PROVE IInv'
<1> DEFINE new == [context EXCEPT !.facts = @ + 1, !.turn = next # "idle"]
<1>1. /\ TypeOK /\ Alive /\ Agreed /\ Free /\ call = AtRest /\ call.at = "rest" /\ ~loop.halted
      /\ program = "running" /\ next \in {"idle", "deferred", "waiting", "working"}
      /\ UNCHANGED <<port, call, clock>>
  BY DEF Turn, IInv, Alive, Agreed, Placed, AtRest, Uncancelled, Bound, Moves
<1>2. /\ new \in Contexts /\ (new.turn <=> next # "idle") /\ new.life = context.life
      /\ new.failures = context.failures
  <2>1. PICK n \in Nat : n = context.facts + 1
    BY <1>1 DEF TypeOK, Contexts
  <2>2. CASE next = "idle"
    <3>1. new = [context EXCEPT !.facts = n, !.turn = FALSE]
      BY <2>1, <2>2
    <3> HIDE DEF new
    <3> QED BY <1>1, <2>2, <3>1 DEF TypeOK, Contexts
  <2>3. CASE next # "idle"
    <3>1. new = [context EXCEPT !.facts = n, !.turn = TRUE]
      BY <2>1, <2>3
    <3> HIDE DEF new
    <3> QED BY <1>1, <2>3, <3>1 DEF TypeOK, Contexts
  <2> QED BY <2>2, <2>3
<1> HIDE DEF new
<1>3. CASE /\ context' = new
           /\ loop' = [loop EXCEPT !.turn = next]
           /\ service' \in IF loop.turn = "idle" THEN NextService ELSE {service}
           /\ UNCHANGED <<program, lost>>
  <2>1. /\ loop' \in Loops /\ loop'.gate = loop.gate /\ ~loop'.halted /\ loop'.turn = next
    BY <1>1, <1>3 DEF TypeOK, Loops
  <2>2. /\ service' \in Services /\ service'.attempt = service.attempt
        /\ service'.circuit = service.circuit /\ service'.failures = service.failures
        /\ service'.state \in {service.state, "none", "replaced"}
        /\ service' = service \/ port = "idle"
        /\ service'.state # "none" => service.state # "none"
    <3>1. CASE service' = service
      BY <1>1, <3>1 DEF TypeOK
    <3>2. CASE /\ port = "idle"
               /\ service' = [service EXCEPT
                    !.state = IF @ \in {"Unknown", "replaced"} THEN "replaced" ELSE "none"]
      BY <1>1, <3>2 DEF TypeOK, Services
    <3> QED BY <1>3, <3>1, <3>2 DEF NextService, TurnAdmitted, Turn
  <2>3. TypeOK' /\ Outside'
    BY <1>1, <1>2, <1>3, <2>1, <2>2 DEF TypeOK, Outside, Alive
  <2>4. Free'
    BY <1>1, <1>2, <1>3, <2>1, <2>2 DEF Free, Gated, Pending
  <2>5. Agreed'
    BY <1>1, <1>2, <1>3, <2>1, <2>2, <2>4
       DEF Agreed, Placed, Deferred, Streak, Gated, Free, NoGate
  <2> QED BY <2>1, <2>3, <2>5 DEF IInv
<1>4. CASE /\ Unacknowledged(new) /\ UNCHANGED service
           /\ \E by \in {"command", "round"} : program' = AfterError(by)
  <2>1. program' \in {"running", "closing"}
    BY <1>1, <1>4 DEF AfterError
  <2> QED BY <1>1, <1>2, <1>4, <2>1, UnacknowledgedHolds DEF TypeOK
<1> QED BY <1>3, <1>4 DEF Turn, new

LEMMA SideMessageHolds == ASSUME IInv, SideMessage PROVE IInv'
<1> DEFINE new == [context EXCEPT !.facts = @ + 1]
<1>1. /\ TypeOK /\ Alive /\ Agreed /\ call = AtRest /\ call.at = "rest" /\ ~loop.halted
      /\ Gated /\ program = "running" /\ UNCHANGED <<port, call, program, clock>>
  BY DEF SideMessage, IInv, Alive, AtRest
<1>2. /\ new \in Contexts /\ new.turn = context.turn /\ new.life = context.life
      /\ new.failures = context.failures
  BY <1>1 DEF TypeOK, Contexts
<1>3. /\ Overtaken(service) \in Services /\ Overtaken(service).attempt = service.attempt
      /\ Overtaken(service).circuit = service.circuit /\ Overtaken(service).stale
      /\ Overtaken(service).failures = service.failures
      /\ Overtaken(service).state = service.state /\ Overtaken(service).mode = service.mode
  BY <1>1 DEF Overtaken, TypeOK, Services
<1> HIDE DEF new
<1>4. CASE context' = new /\ service' = Overtaken(service) /\ UNCHANGED <<loop, lost>>
  <2>1. TypeOK' /\ Outside'
    BY <1>1, <1>2, <1>3, <1>4 DEF TypeOK, Outside, Alive
  <2>2. Bound => Bound'
    BY <1>1, <1>2, <1>3, <1>4 DEF Bound, Gated, Pending
  <2>3. Placed'
    BY <1>1, <1>2, <1>3, <1>4, <2>2, TakenRest DEF Placed, Uncancelled
  <2>4. Deferred' /\ Streak' /\ (context.turn <=> loop.turn # "idle")'
    BY <1>1, <1>2, <1>3, <1>4 DEF Agreed, Deferred, Streak, Gated
  <2> QED BY <1>1, <1>4, <2>1, <2>3, <2>4 DEF IInv, Agreed
<1>5. CASE /\ Unacknowledged(new)
           /\ service' = IF context' = new THEN Overtaken(service) ELSE service
  <2>1. service' \in Services
    BY <1>1, <1>3, <1>5 DEF TypeOK
  <2> QED BY <1>1, <1>2, <1>5, <2>1, UnacknowledgedHolds
<1> QED BY <1>4, <1>5 DEF SideMessage, new

\* Time, or the user who leaves: nothing but the clock and the program changes.
LEMMA ClockHolds ==
  ASSUME IInv, UNCHANGED <<context, loop, service, port, call, lost>>,
         clock' \in [late : BOOLEAN, cooled : BOOLEAN], clock.cooled => clock'.cooled,
         program = "opening" => clock' = clock,
         \/ UNCHANGED program
         \/ program = "running" /\ program' = "closing"
  PROVE  IInv'
<1>1. TypeOK' /\ Outside' /\ (Alive' <=> Alive)
  BY DEF IInv, TypeOK, Outside, Alive, Pending
<1>2. Fallen => Fallen'
  BY DEF Fallen, Gated, Pending
<1>3. Agreed => Agreed'
  <2>1. Placed => Placed'
    BY DEF Placed, Free, Uncancelled, Bound, Gated, Pending
  <2>2. Streak => Streak'
    BY DEF Streak
  <2> QED BY <2>1, <2>2 DEF Agreed, Deferred, Gated
<1> QED BY <1>1, <1>2, <1>3 DEF IInv

LEMMA ClocksHold == ASSUME IInv, TimePasses \/ CoolDown \/ Quit PROVE IInv'
<1>1. /\ UNCHANGED <<context, loop, service, port, call, lost>> /\ TypeOK
      /\ \/ UNCHANGED program
         \/ program = "running" /\ program' = "closing"
  BY DEF TimePasses, CoolDown, Quit, IInv
<1>2. /\ clock' \in [late : BOOLEAN, cooled : BOOLEAN]
      /\ clock.cooled => clock'.cooled
  BY <1>1 DEF TimePasses, CoolDown, Quit, TypeOK
<1>3. program = "opening" => clock' = clock
  BY DEF TimePasses, CoolDown, Quit, IInv, Outside, Gated, NoLoop, NoService
<1> QED BY <1>1, <1>2, <1>3, ClockHolds

LEMMA CloseCompactionHolds == ASSUME IInv, CloseCompaction PROVE IInv'
<1>1. /\ Alive /\ call = AtRest /\ call.at = "rest" /\ Gated /\ TypeOK
      /\ UNCHANGED <<context, loop, service, port, clock, lost>>
  BY DEF CloseCompaction, Alive, IInv, AtRest
<1>2. /\ call' \in Calls
      /\ \/ /\ call'.at = "cancel" /\ call'.with \in Reasons /\ UNCHANGED program
            /\ service.state = "Compacting"
         \/ call' = AtRest /\ program' = "failed"
  BY <1>1 DEF CloseCompaction, Continues, Error, AfterError, Calls, Reasons, TypeOK
<1>3. ~loop.halted => Placed'
  BY <1>1, <1>2, TakenRest DEF Placed, Uncancelled, Bound, Gated, Pending
<1> QED BY <1>1, <1>2, <1>3, RoundHolds DEF TypeOK

LEMMA CloseTimeoutHolds == ASSUME IInv, CloseTimeout PROVE IInv'
<1>1. /\ Alive /\ call = AtRest /\ call.at = "rest" /\ Gated /\ TypeOK
      /\ UNCHANGED <<context, loop, service, port, call, clock, lost>> /\ program' = "failed"
  BY DEF CloseTimeout, Alive, IInv, AtRest
<1>2. ~loop.halted => Placed'
  BY <1>1, TakenRest DEF Placed, Uncancelled, Bound, Gated, Pending
<1> QED BY <1>1, <1>2, RoundHolds DEF TypeOK

LEMMA CloseSessionHolds == ASSUME IInv, CloseSession PROVE IInv'
<1>1. /\ TypeOK /\ Alive /\ ~Gated /\ call = AtRest /\ call.at = "rest" /\ ~Pending
      /\ UNCHANGED <<service, port, call, clock>>
  BY DEF CloseSession, IInv, Alive, Fallen, Agreed, Placed, Free, Uncancelled, Bound, AtRest
<1>2. /\ context' \in Contexts /\ context'.life = context.life
      /\ loop' \in Loops /\ lost' \in BOOLEAN /\ program' \in {"closed", "failed"}
  BY <1>1 DEF CloseSession, Unacknowledged, TypeOK, Contexts, Loops
<1>3. TypeOK' /\ Outside' /\ ~Alive'
  BY <1>1, <1>2 DEF TypeOK, Outside, Alive, Pending
<1> QED BY <1>3 DEF IInv

LEMMA CrashHolds == ASSUME IInv, Crash PROVE IInv'
<1>1. AtRest \in Calls /\ AtRest.at = "rest"
  BY DEF AtRest, Calls
<1>2. TypeOK' /\ Outside' /\ ~Alive'
  BY <1>1 DEF Crash, IInv, TypeOK, Outside, Alive
<1> QED BY <1>2 DEF IInv

LEMMA OpenHolds == ASSUME IInv, Open PROVE IInv'
<1>1. NoLoop \in Loops /\ NoService \in Services /\ NotYet \in [late : BOOLEAN, cooled : BOOLEAN]
  BY DEF NoLoop, NoService, NotYet, Loops, Services, Gates, NoGate
<1>2. TypeOK' /\ Outside' /\ ~Alive'
  BY <1>1 DEF Open, IInv, TypeOK, Outside, Alive
<1> QED BY <1>2 DEF IInv

LEMMA RecoverHolds == ASSUME IInv, Recover PROVE IInv'
<1> DEFINE counts == context.life.cancel \in {"compaction-active-time",
                                              "compaction-process-recovery"}
           new == IF context.life.cancel = "none"
                  THEN [context EXCEPT !.life.cancel = "compaction-process-recovery"]
                  ELSE Counted(Ended(context), counts)
<1>1. new \in Contexts
  <2>1. TypeOK
    BY DEF IInv
  <2>2. [context EXCEPT !.life.cancel = "compaction-process-recovery"] \in Contexts
    BY <2>1 DEF TypeOK, Contexts, Lives, Reasons
  <2>3. Counted(Ended(context), counts) \in Contexts
    <3>1. counts \in BOOLEAN
      OBVIOUS
    <3> HIDE DEF counts
    <3> QED BY <2>1, <3>1, TypedFailure
  <2> QED BY <2>2, <2>3
<1>2. /\ context' \in {context, new} /\ lost' \in BOOLEAN
      /\ program = "opening" /\ program' \in {"opening", "down"}
      /\ UNCHANGED <<loop, service, port, call, clock>>
  BY DEF Recover, IInv, TypeOK
<1> HIDE DEF new
<1>3. TypeOK' /\ Outside' /\ ~Alive'
  BY <1>1, <1>2 DEF IInv, TypeOK, Outside, Alive
<1> QED BY <1>3 DEF IInv

LEMMA OpenedHolds == ASSUME IInv, Opened PROVE IInv'
<1>1. /\ TypeOK /\ loop = NoLoop /\ service = NoService /\ port = "idle" /\ call = AtRest
      /\ ~Pending /\ UNCHANGED <<context, loop, service, port, call, clock, lost>>
      /\ program' = IF context.turn THEN "down" ELSE "running"
  BY DEF Opened, IInv, Outside, Alive
<1>2. TypeOK' /\ Outside'
  BY <1>1 DEF TypeOK, Outside, Alive
<1>3. Free' /\ ~loop'.halted /\ loop'.turn = "idle" /\ call'.at = "rest"
  BY <1>1 DEF Free, Gated, Pending, NoLoop, NoService, AtRest
<1>4. ~context.turn => Agreed'
  BY <1>1, <1>3 DEF Agreed, Placed, Deferred, Streak, NoService, NoLoop, NoGate, Gated
<1> QED BY <1>1, <1>2, <1>3, <1>4 DEF IInv, Alive

\* Every step keeps the invariant.
LEMMA NextHolds == ASSUME IInv, [Next]_vars PROVE IInv'
<1>1. CASE UNCHANGED vars
  <2>1. clock \in [late : BOOLEAN, cooled : BOOLEAN]
    BY DEF IInv, TypeOK
  <2> QED BY <1>1, <2>1, ClockHolds DEF vars
<1>2. CASE BeginAutomatic \/ BeginDeclined("manual") \/ BeginCompaction("manual")
  BY <1>2, BeginRefusedHolds, BeginSuppressedHolds, BeginDeclinedHolds, BeginCompactionHolds
     DEF BeginAutomatic, Modes
<1>3. CASE Commit
  BY <1>3, RequestHolds, RefusalHolds, RejectionHolds, ResponseHolds, PublishHolds,
     CancelHolds, CancelledHolds, ResolveHolds DEF Commit
<1>4. CASE Tick \/ Answer \/ Settle \/ PollFails \/ CancelCommand
  BY <1>4, TickHolds, AnswerHolds, SettleHolds, PollFailsHolds, CancelCommandHolds
<1>5. CASE (\E next \in DOMAIN Moves : Turn(next)) \/ SideMessage
  BY <1>5, TurnHolds, SideMessageHolds
<1>6. CASE CloseCompaction \/ CloseTimeout \/ CloseSession \/ Crash \/ Open \/ Recover \/ Opened
  BY <1>6, CloseCompactionHolds, CloseTimeoutHolds, CloseSessionHolds, CrashHolds,
     OpenHolds, RecoverHolds, OpenedHolds
<1>7. CASE TimePasses \/ CoolDown \/ Quit
  BY <1>7, ClocksHold
<1> QED BY <1>1, <1>2, <1>3, <1>4, <1>5, <1>6, <1>7 DEF Next

-----------------------------------------------------------------------------
(* The theorems.                                                            *)

(* The parts of a compaction are, in every state, in one of the places that *)
(* Placed lists, whatever was cancelled, lost, late or crashed before.      *)
THEOREM InvariantHolds == Spec => []IInv
<1>1. Init => IInv
  BY InitHolds
<1>2. IInv /\ [Next]_vars => IInv'
  BY NextHolds
<1> QED BY <1>1, <1>2, PTL DEF Spec

(* Between two calls the loop, the service, the port and the Context agree, *)
(* and a session that closed left no lifecycle open, for every number of    *)
(* compactions, attempts and facts.                                         *)
THEOREM LaneAgreesHolds == Spec => []LaneAgrees
<1>1. IInv => LaneAgrees
  <2> SUFFICES ASSUME IInv PROVE LaneAgrees
    OBVIOUS
  <2>1. program = "closed" => ~Pending
    BY DEF IInv, Outside
  <2>2. ASSUME program = "running", call = AtRest, ~loop.halted
        PROVE  /\ context.turn <=> loop.turn # "idle"
               /\ \/ Free
                  \/ Uncancelled
                  \/ Bound /\ service.state = "Cancelling" /\ context.life.cancel # "none"
    BY <2>2 DEF IInv, Alive, Agreed, Placed, AtRest
  <2> QED BY <2>1, <2>2 DEF LaneAgrees, Free, Uncancelled, Bound
<1> QED BY <1>1, InvariantHolds, PTL

\* What a record makes of the Context when it breaks.
LEMMA BrokenContext ==
  ASSUME NEW kind, NEW new, Breaks(kind, new)
  PROVE  context' = context \/ (context' = new /\ Admitted(kind))
BY DEF Breaks

\* The only step that replaces the summary, and the only one that counts a
\* compaction, are the publication and the first request.
LEMMA OthersKeep ==
  ASSUME IInv, [Next]_vars
  PROVE  /\ context'.view.summary = context.view.summary \/ Publish
         /\ context'.compactions = context.compactions \/ CommitRequest
<1> USE DEF IInv, TypeOK
<1> DEFINE Kept(c) == /\ c.view.summary = context.view.summary
                      /\ c.compactions = context.compactions
<1>1. \A failed \in BOOLEAN : Kept(Counted(Ended(context), failed))
  BY TypedFailure
<1>2. /\ Kept([context EXCEPT !.life.response = TRUE])
      /\ \A reason : Kept([context EXCEPT !.life.cancel = reason])
      /\ Kept([context EXCEPT !.view.facts = context.facts])
      /\ Kept([context EXCEPT !.facts = @ + 1])
      /\ \A open : Kept([context EXCEPT !.turn = open])
      /\ \A open : Kept([context EXCEPT !.facts = @ + 1, !.turn = open])
  BY DEF Contexts, Views
<1>3. CASE CommitRequest
  <2>1. context' = context \/ context' = Request
    BY <1>3, BrokenContext DEF CommitRequest, Commits
  <2> QED BY <1>3, <2>1, RequestTyped
<1>4. CASE CommitRejection
  <2>1. \/ context' = context
        \/ context' = Counted(Ended(context), TRUE)
    BY <1>4, BrokenContext DEF CommitRejection, Commits
  <2> QED BY <1>1, <2>1
<1>5. CASE CommitResponse
  <2>1. \/ context' = context
        \/ context' = [context EXCEPT !.life.response = TRUE]
    BY <1>5, BrokenContext DEF CommitResponse, Commits
  <2> QED BY <1>2, <2>1
<1>6. CASE Publish
  <2>1. \/ context' = context
        \/ context' = [Ended(context) EXCEPT !.view = Summary, !.failures = 0]
    BY <1>6, BrokenContext DEF Publish, Commits
  <2>2. Ended(context) \in Contexts /\ Ended(context).compactions = context.compactions
    BY TypedContext
  <2>3. context'.compactions = context.compactions
    <3> HIDE DEF Ended
    <3> QED BY <2>1, <2>2 DEF Contexts
  <2> QED BY <1>6, <2>3
<1>7. CASE CommitCancel
  <2>1. \/ context' = context
        \/ context' = [context EXCEPT !.life.cancel = call.with]
    BY <1>7, BrokenContext DEF CommitCancel, Commits
  <2> QED BY ZenonT(60), <1>2, <2>1
<1>8. CASE CommitCancelled
  <2>1. \/ context' = context
        \/ context' = Counted(Ended(context), service.reason = "compaction-active-time")
    BY <1>8, BrokenContext DEF CommitCancelled, Commits
  <2> QED BY <1>1, <2>1
<1>9. CASE Resolve
  BY <1>2, <1>9 DEF Resolve, Unacknowledged
<1>10. CASE \E next \in DOMAIN Moves : Turn(next)
  <2>1. PICK next \in DOMAIN Moves : Turn(next)
    BY <1>10
  <2> DEFINE open == next # "idle"
  <2>2. \/ context' = context
        \/ context' = [context EXCEPT !.facts = @ + 1, !.turn = open]
    BY <2>1 DEF Turn, Unacknowledged
  <2> HIDE DEF open
  <2> QED BY ZenonT(60), <1>2, <2>2
<1>11. CASE SideMessage \/ CloseSession
  <2>1. \/ context' = context
        \/ context' = [context EXCEPT !.facts = @ + 1]
        \/ context' = [context EXCEPT !.turn = FALSE]
    BY <1>11 DEF SideMessage, CloseSession, Unacknowledged
  <2> QED BY ZenonT(60), <1>2, <2>1
<1>12. CASE Recover
  <2> DEFINE counts == context.life.cancel \in {"compaction-active-time",
                                                "compaction-process-recovery"}
  <2>1. counts \in BOOLEAN
    OBVIOUS
  <2>2. \/ context' = context
        \/ context' = [context EXCEPT !.life.cancel = "compaction-process-recovery"]
        \/ context' = Counted(Ended(context), counts)
    BY <1>12 DEF Recover
  <2> HIDE DEF counts
  <2>3. Kept(Counted(Ended(context), counts))
    BY <1>1, <2>1
  <2>4. Kept([context EXCEPT !.life.cancel = "compaction-process-recovery"])
    BY DEF Contexts
  <2> QED BY <2>2, <2>3, <2>4
<1>13. CASE \/ BeginAutomatic \/ BeginDeclined("manual") \/ BeginCompaction("manual")
            \/ RequestRefused \/ UNCHANGED vars
  BY <1>13 DEF BeginAutomatic, BeginRefused, BeginSuppressed, BeginDeclined, Declines,
               BeginCompaction, RequestRefused, vars
<1>14. CASE \/ Tick \/ Answer \/ Settle \/ PollFails \/ CancelCommand
            \/ Quit \/ CloseCompaction \/ CloseTimeout \/ Crash \/ Open \/ Opened
            \/ TimePasses \/ CoolDown
  BY <1>14 DEF Tick, Answer, Settle, PollFails, CancelCommand, Quit, CloseCompaction,
               CloseTimeout, Crash, Open, Opened, TimePasses, CoolDown
<1> QED BY <1>3, <1>4, <1>5, <1>6, <1>7, <1>8, <1>9, <1>10, <1>11, <1>12, <1>13, <1>14
        DEF Next, Commit

(* The view of the Context is replaced by a summary only out of a lifecycle *)
(* that is open, answered and not cancelled, over the very facts and view   *)
(* the summary was made from.                                               *)
THEOREM ViewNeverStaleHolds == Spec => ViewNeverStale
<1>1. ASSUME IInv, [Next]_vars, context'.view.summary # context.view.summary
      PROVE  /\ context.life.response /\ context.life.cancel = "none"
             /\ context.life.view = context.view /\ context.life.source = context.facts
  <2>1. Publish
    BY <1>1, OthersKeep
  <2>2. Uncancelled
    BY <1>1, <2>1, DueIsGated DEF Publish, Agreed, Placed
  <2>3. Admitted("publication")
    <3>1. context' # context
      BY <1>1
    <3> QED BY <2>1, <3>1, BrokenContext DEF Publish, Commits
  <2> QED BY <2>2, <2>3 DEF Uncancelled, Bound, Admitted, Current, Follows
<1> QED BY <1>1, InvariantHolds, PTL DEF Spec, ViewNeverStale

(* An automatic compaction begins only while the durable streak of failures *)
(* is short of the threshold, or after a whole cooldown.                    *)
THEOREM CircuitHoldsHolds == Spec => CircuitHolds
<1>1. ASSUME IInv, [Next]_vars,
             context'.compactions > context.compactions, service.mode = "automatic"
      PROVE  context.failures < failure_threshold \/ clock.cooled
  <2>1. CommitRequest
    <3>1. context.compactions \in Nat
      BY <1>1 DEF IInv, TypeOK, Contexts
    <3> QED BY <1>1, <3>1, OthersKeep
  <2>2. Streak
    BY <1>1, <2>1, DueIsGated DEF CommitRequest, Agreed
  <2>3. service.attempt = 0
    <3>1. context' = context \/ context' = Request
      BY <2>1, BrokenContext DEF CommitRequest, Commits
    <3>2. context.compactions \in Nat
      BY <1>1 DEF IInv, TypeOK, Contexts
    <3> QED BY <1>1, <3>1, <3>2, RequestTyped
  <2> QED BY <1>1, <2>1, <2>2, <2>3 DEF Streak, CommitRequest
<1> QED BY <1>1, InvariantHolds, PTL DEF Spec, CircuitHolds
=============================================================================
