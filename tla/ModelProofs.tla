------------------------------ MODULE ModelProofs ------------------------------
(***************************************************************************)
(* The request, its activity and its retry controller stay together, and   *)
(* no attempt repeats what the Provider may have done, for any number of   *)
(* retries and redirects, any budget of a poll and any length of response. *)
(*                                                                         *)
(* A call of the service goes from situation to situation.  `Held' is what *)
(* a situation may be when the call returns, `Running' what it is inside a *)
(* poll, once the attempt was polled.                                      *)
(***************************************************************************)
EXTENDS ModelActivity, TLAPS

Situation ==
  [activity : Activity, control : Controller, curl : {"none", "running", "ended"}, work : Works]

Again(c) == c.retries + c.redirects + c.fallbacks

\* Every attempt but the one under way, or the last, was followed by a retry, a
\* redirect or the fallback.
Counted(c) ==
  /\ c \in Controller
  /\ c.retries <= retry_count /\ c.redirects <= maximum_redirects /\ c.fallbacks <= 1
  /\ c.state = "ready" => Again(c) = 0 /\ c.attempts = 0
  /\ c.state = "waiting" => c.attempts = Again(c)
  /\ c.state = "active" => c.attempts = Again(c) + 1
  /\ c.state = "terminal" => Again(c) <= c.attempts /\ c.attempts <= Again(c) + 1

\* An attempt is out.
UnderWay(s) ==
  /\ s.activity.output = 0 /\ s.activity.session = "open"
  /\ s.control.state = (IF s.activity.cancel THEN "terminal" ELSE "active")

\* The next attempt waits for its time, and may be made.
Replayable(s) ==
  /\ s.activity.output = 0 /\ s.activity.session = "none"
  /\ ~ s.activity.attempt /\ ~ s.activity.cancel
  /\ s.work \in Harmless \cup {"malformed"}

Held(s) ==
  /\ s \in Situation /\ Counted(s.control)
  /\ s.activity.state \in {"active", "waiting", "terminal"}
  /\ s.activity.fallbacks = s.control.fallbacks
  /\ s.activity.attempt => s.activity.session # "none"
  /\ s.activity.state = "waiting" <=> s.control.state = "waiting"
  /\ s.activity.state = "waiting" => Replayable(s)
  /\ s.activity.state = "active" => s.activity.output = 0
  /\ s.activity.state = "active" /\ s.activity.attempt => UnderWay(s)

Running(s) ==
  /\ s \in Situation /\ Counted(s.control)
  /\ s.activity.state = "active" /\ UnderWay(s)
  /\ s.activity.fallbacks = s.control.fallbacks

\* The invariant between two calls.
IInv ==
  /\ {request, late} \subseteq BOOLEAN
  /\ Now \in Situation /\ Counted(control)
  /\ request => Held(Now)
  /\ request <=> activity.state \in {"active", "waiting"} \/ activity.output > 0
  /\ ~ request => control.state # "waiting"
  /\ activity.attempt => activity.session # "none"

-------------------------------------------------------------------------------
\* The controller: its operators keep the count.

LEMMA FinishedCounts ==
  ASSUME NEW c, Counted(c)
  PROVE  /\ Counted(Finished(c)) /\ Finished(c).state = "terminal"
         /\ Finished(c).fallbacks = c.fallbacks /\ Finished(c).attempts = c.attempts
<1> DEFINE d == Finished(c)
<1>1. c \in Controller
  BY DEF Counted
<1>2. d \in Controller
  BY <1>1 DEF Finished, Controller
<1>3. /\ d.state = "terminal" /\ d.retries = c.retries /\ d.redirects = c.redirects
      /\ d.fallbacks = c.fallbacks /\ d.attempts = c.attempts
  BY <1>1 DEF Finished, Controller
<1>4. Again(d) = Again(c)
  BY <1>3 DEF Again
<1>5. /\ Again(c) \in Nat /\ c.attempts \in Nat
      /\ Again(c) <= c.attempts /\ c.attempts <= Again(c) + 1
  <2>1. c.state \in {"ready", "waiting", "active", "terminal"} /\ Again(c) \in Nat /\ c.attempts \in Nat
    BY <1>1 DEF Controller, Again
  <2> QED BY <2>1 DEF Counted
<1> HIDE DEF d
<1>6. Counted(d)
  BY <1>2, <1>3, <1>4, <1>5 DEF Counted
<1> QED BY <1>3, <1>6 DEF d

LEMMA StartCounts ==
  ASSUME NEW c, NEW b \in BOOLEAN, Counted(c),
         c.state = "ready" \/ (c.state = "waiting" /\ c.due)
  PROVE  /\ Counted(StartAttempt(c, b)) /\ StartAttempt(c, b).state \in {"active", "terminal"}
         /\ StartAttempt(c, b).fallbacks = c.fallbacks
<1>1. /\ c \in Controller /\ Again(c) \in Nat /\ c.attempts = Again(c)
      /\ c.attempts \in Nat
  BY DEF Counted, Controller, Again
<1>2. CASE StartAttempt(c, b) = Finished(c)
  BY <1>2, FinishedCounts
<1>3. CASE StartAttempt(c, b) # Finished(c)
  <2> DEFINE d == StartAttempt(c, b)
  <2>1. d = [c EXCEPT !.state = "active", !.attempts = @ + 1, !.due = FALSE]
    BY <1>3 DEF StartAttempt
  <2> HIDE DEF d
  <2>2. d \in Controller
    <3>1. c.attempts + 1 \in Nat
      BY <1>1
    <3> QED BY <1>1, <2>1, <3>1 DEF Controller
  <2>3. /\ d.state = "active" /\ d.retries = c.retries /\ d.redirects = c.redirects
        /\ d.fallbacks = c.fallbacks /\ d.attempts = c.attempts + 1
    BY <1>1, <2>1 DEF Controller
  <2>4. Again(d) = Again(c)
    BY <2>3 DEF Again
  <2>5. Counted(d)
    BY <1>1, <2>2, <2>3, <2>4 DEF Counted
  <2> QED BY <2>3, <2>5 DEF d
<1> QED BY <1>2, <1>3

\* A wait after a retry, a redirect or the fallback, which is counted.
LEMMA WaitingCounts ==
  ASSUME NEW c, NEW d \in Controller, NEW b \in BOOLEAN, Counted(c), c.state = "active",
         d.attempts = c.attempts, Again(d) = Again(c) + 1,
         d.retries <= retry_count, d.redirects <= maximum_redirects, d.fallbacks <= 1
  PROVE  /\ Counted(Waiting(d, b)) /\ Waiting(d, b).state = "waiting"
         /\ Waiting(d, b).attempts = c.attempts /\ Waiting(d, b).fallbacks = d.fallbacks
<1> DEFINE w == Waiting(d, b)
<1>1. c \in Controller /\ c.attempts = Again(c) + 1
  BY DEF Counted
<1>4. w \in Controller
  BY DEF Waiting, Controller
<1>5. /\ w.state = "waiting" /\ w.retries = d.retries /\ w.redirects = d.redirects
      /\ w.fallbacks = d.fallbacks /\ w.attempts = d.attempts
  BY DEF Waiting, Controller
<1>6. Again(w) = Again(d)
  BY <1>5 DEF Again
<1> HIDE DEF w
<1>7. Counted(w)
  BY <1>1, <1>4, <1>5, <1>6 DEF Counted
<1> QED BY <1>5, <1>7 DEF w

LEMMA FallbackCounts ==
  ASSUME NEW c, NEW b \in BOOLEAN, Counted(c), c.state = "active"
  PROVE  LET d == StreamingFallback(c, b)
         IN /\ Counted(d) /\ d.attempts = c.attempts
            /\ \/ d.state = "waiting" /\ d.fallbacks = c.fallbacks + 1
               \/ d.state = "terminal" /\ d.fallbacks = c.fallbacks
<1>1. CASE c.canonical \/ c.fallbacks >= 1 \/ b
  BY <1>1, FinishedCounts DEF StreamingFallback
<1>2. CASE ~ (c.canonical \/ c.fallbacks >= 1 \/ b)
  <2>1. PICK d : d = [c EXCEPT !.fallbacks = @ + 1]
    OBVIOUS
  <2>2. c.fallbacks \in Nat /\ c.fallbacks < 1
    BY <1>2 DEF Counted, Controller
  <2>3. /\ d \in Controller /\ d.attempts = c.attempts /\ Again(d) = Again(c) + 1
        /\ d.retries <= retry_count /\ d.redirects <= maximum_redirects
        /\ d.fallbacks = c.fallbacks + 1 /\ d.fallbacks <= 1
    BY <2>1, <2>2 DEF Counted, Controller, Again
  <2>4. StreamingFallback(c, b) = Waiting(d, TRUE)
    BY <1>2, <2>1 DEF StreamingFallback
  <2>5. /\ Counted(Waiting(d, TRUE)) /\ Waiting(d, TRUE).state = "waiting"
        /\ Waiting(d, TRUE).attempts = c.attempts /\ Waiting(d, TRUE).fallbacks = d.fallbacks
    BY <2>3, WaitingCounts
  <2> QED BY <2>3, <2>4, <2>5
<1> QED BY <1>1, <1>2

LEMMA ObserveCounts ==
  ASSUME NEW c, Counted(c)
  PROVE  LET d == ObserveCanonical(c)
         IN /\ Counted(d) /\ d.state = c.state
            /\ d.fallbacks = c.fallbacks /\ d.attempts = c.attempts
BY DEF ObserveCanonical, Counted, Controller, Again

LEMMA CancelCounts ==
  ASSUME NEW c, Counted(c)
  PROVE  LET d == CancelController(c)
         IN /\ Counted(d) /\ d.state = "terminal"
            /\ d.fallbacks = c.fallbacks /\ d.attempts = c.attempts
BY FinishedCounts DEF CancelController

\* What the end of an attempt may lead to: a wait only if the category allows it.
LEMMA FinishCounts ==
  ASSUME NEW c, NEW b \in BOOLEAN, NEW category, Counted(c), c.state \in {"active", "terminal"},
         NEW d \in FinishAttempt(c, category, b)
  PROVE  /\ Counted(d) /\ d.fallbacks = c.fallbacks /\ d.attempts = c.attempts
         /\ d.state \in {"active", "terminal", "waiting"}
         /\ d.state = "waiting" => category \in Retryable \cup Redirecting
<1>1. CASE c.state # "active"
  BY <1>1 DEF FinishAttempt
<1>2. CASE c.state = "active" /\ d = Finished(c)
  BY <1>2, FinishedCounts
<1>3. CASE c.state = "active" /\ d = c
  BY <1>3
<1>4. CASE c.state = "active" /\ d # Finished(c) /\ d # c
  <2>1. category \in Redirecting \/ category \in Retryable
    BY <1>4 DEF FinishAttempt
  <2>2. CASE category \in Redirecting
    <3>1. d \in Redirect(c, category)
      BY <1>4, <2>2 DEF FinishAttempt
    <3>2. c.redirects < maximum_redirects
      <4>1. c.redirects \in Nat /\ maximum_redirects \in Nat
        BY RetryAssumption DEF Counted, Controller
      <4>2. ~ (c.redirects >= maximum_redirects)
        BY <1>4, <3>1 DEF Redirect
      <4> QED BY <4>1, <4>2
    <3>3. PICK e : e = [c EXCEPT !.redirects = @ + 1]
      OBVIOUS
    <3>4. d = Waiting(e, TRUE)
      BY <1>4, <3>1, <3>3 DEF Redirect
    <3>5. /\ e \in Controller /\ e.attempts = c.attempts /\ Again(e) = Again(c) + 1
          /\ e.retries <= retry_count /\ e.redirects <= maximum_redirects
          /\ e.fallbacks = c.fallbacks /\ e.fallbacks <= 1
      BY <3>2, <3>3, RetryAssumption DEF Counted, Controller, Again
    <3>6. /\ Counted(Waiting(e, TRUE)) /\ Waiting(e, TRUE).state = "waiting"
          /\ Waiting(e, TRUE).attempts = c.attempts /\ Waiting(e, TRUE).fallbacks = e.fallbacks
      BY <1>4, <3>5, WaitingCounts
    <3> QED BY <2>2, <3>4, <3>5, <3>6
  <2>3. CASE category \in Retryable /\ category \notin Redirecting
    <3>1. d \in Retry(c, b)
      BY <1>4, <2>3 DEF FinishAttempt
    <3>2. c.retries < retry_count
      <4>1. c.retries \in Nat /\ retry_count \in Nat
        BY RetryAssumption DEF Counted, Controller
      <4>2. ~ (c.retries >= retry_count)
        BY <1>4, <3>1 DEF Retry
      <4> QED BY <4>1, <4>2
    <3>3. PICK e : e = [c EXCEPT !.retries = @ + 1]
      OBVIOUS
    <3>4. d = Waiting(e, FALSE)
      BY <1>4, <3>1, <3>3 DEF Retry
    <3>5. /\ e \in Controller /\ e.attempts = c.attempts /\ Again(e) = Again(c) + 1
          /\ e.retries <= retry_count /\ e.redirects <= maximum_redirects
          /\ e.fallbacks = c.fallbacks /\ e.fallbacks <= 1
      BY <3>2, <3>3, RetryAssumption DEF Counted, Controller, Again
    <3>6. /\ Counted(Waiting(e, FALSE)) /\ Waiting(e, FALSE).state = "waiting"
          /\ Waiting(e, FALSE).attempts = c.attempts /\ Waiting(e, FALSE).fallbacks = e.fallbacks
      BY <1>4, <3>5, WaitingCounts
    <3> QED BY <2>3, <3>4, <3>5, <3>6
  <2> QED BY <2>1, <2>2, <2>3
<1> QED BY <1>1, <1>2, <1>3, <1>4
-------------------------------------------------------------------------------
\* From situation to situation within a poll.

\* A response may be given in any situation that does not wait.
LEMMA AnswerHolds ==
  ASSUME NEW s \in Situation, NEW n \in Nat, Counted(s.control),
         s.control.state # "waiting", s.activity.fallbacks = s.control.fallbacks,
         s.activity.session # "closed"
  PROVE  /\ Held(Answer(s, n)) /\ Answer(s, n).activity.state = "terminal"
         /\ Answer(s, n).control = s.control
<1>1. Answer(s, n) \in Situation
  BY DEF Answer, Situation, Activity
<1>2. /\ Answer(s, n).control = s.control
      /\ Answer(s, n).activity.state = "terminal" /\ Answer(s, n).activity.session = "closed"
      /\ Answer(s, n).activity.fallbacks = s.activity.fallbacks
  BY DEF Answer, Situation, Activity
<1> QED BY <1>1, <1>2 DEF Held

LEMMA DecidedHolds ==
  ASSUME NEW s, Running(s), late \in BOOLEAN, NEW category, NEW n \in Nat,
         category \in Retryable \cup Redirecting =>
           s.work \in Harmless /\ ~ s.activity.cancel /\ ~ s.activity.attempt,
         NEW t \in Decided(s, category, n)
  PROVE  Held(t) /\ t.control.attempts = s.control.attempts
<1>1. PICK c \in FinishAttempt(s.control, category, late) :
        t = IF c.state = "waiting" THEN Waits(s, c) ELSE Answer([s EXCEPT !.control = c], n)
  BY DEF Decided
<1>2. s.control.state \in {"active", "terminal"}
  BY DEF Running, UnderWay
<1>3. /\ Counted(c) /\ c.fallbacks = s.control.fallbacks /\ c.attempts = s.control.attempts
      /\ c.state = "waiting" => category \in Retryable \cup Redirecting
  BY <1>1, <1>2, FinishCounts DEF Running
<1>4. CASE c.state = "waiting"
  <2>1. t = Waits(s, c) /\ s.work \in Harmless /\ ~ s.activity.cancel /\ ~ s.activity.attempt
    BY <1>1, <1>3, <1>4
  <2>2. t \in Situation /\ t.control = c /\ t.work = s.work
    BY <1>3, <2>1 DEF Waits, Situation, Activity, Running, Counted
  <2>3. t.activity = [s.activity EXCEPT !.state = "waiting", !.session = "none"]
    BY <2>1 DEF Waits, Situation, Activity, Running
  <2>4. /\ t.activity.state = "waiting" /\ t.activity.session = "none" /\ t.activity.output = 0
        /\ ~ t.activity.attempt /\ ~ t.activity.cancel
        /\ t.activity.fallbacks = s.activity.fallbacks
    BY <2>1, <2>3 DEF Running, UnderWay, Situation, Activity
  <2> QED BY <1>3, <1>4, <2>1, <2>2, <2>4 DEF Held, Replayable, Running
<1>5. CASE c.state # "waiting"
  <2> DEFINE u == [s EXCEPT !.control = c]
  <2>1. /\ u \in Situation /\ u.control = c /\ u.activity = s.activity
    BY <1>3 DEF Running, Situation, Counted
  <2>2. t = Answer(u, n)
    BY <1>1, <1>5
  <2>3. /\ u.control.state # "waiting" /\ u.activity.fallbacks = u.control.fallbacks
        /\ u.activity.session # "closed" /\ Counted(u.control)
    BY <1>3, <1>5, <2>1 DEF Running, UnderWay
  <2> HIDE DEF u
  <2>4. Held(Answer(u, n)) /\ Answer(u, n).control = u.control
    BY <2>1, <2>3, AnswerHolds
  <2> QED BY <1>3, <2>1, <2>2, <2>4
<1> QED BY <1>4, <1>5

\* The fallback waits, or leaves an active request without an attempt.
LEMMA FallBackHolds ==
  ASSUME NEW s, Running(s), late \in BOOLEAN, ~ s.activity.attempt, ~ s.activity.cancel,
         s.work = "malformed"
  PROVE  Held(FallBack(s)) /\ FallBack(s).control.attempts = s.control.attempts
<1>1. PICK c : c = StreamingFallback(s.control, late)
  OBVIOUS
<1>2. PICK p : p = [s EXCEPT !.activity.session = "closed"]
  OBVIOUS
<1>3. /\ p \in Situation /\ p.control = s.control /\ p.work = s.work
      /\ p.activity = [s.activity EXCEPT !.session = "closed"]
  BY <1>2 DEF Running, Situation, Activity
<1>4. /\ p.activity.output = 0 /\ p.activity.session = "closed" /\ p.activity.state = "active"
      /\ ~ p.activity.attempt /\ ~ p.activity.cancel
      /\ p.activity.fallbacks = s.control.fallbacks
  BY <1>3 DEF Running, UnderWay, Situation, Activity
<1>5. /\ Counted(c) /\ c.attempts = s.control.attempts
      /\ \/ c.state = "waiting" /\ c.fallbacks = s.control.fallbacks + 1
         \/ c.state = "terminal" /\ c.fallbacks = s.control.fallbacks
  BY <1>1, FallbackCounts DEF Running, UnderWay
<1>6. c \in Controller
  BY <1>5 DEF Counted
<1>7. CASE c.state = "waiting"
  <2>1. PICK w : w = Waits(p, c)
    OBVIOUS
  <2>2. w \in Situation /\ w.control = c /\ w.work = p.work
    BY <1>3, <1>6, <2>1 DEF Waits, Situation, Activity
  <2>3. w.activity = [p.activity EXCEPT !.state = "waiting", !.session = "none"]
    BY <1>3, <2>1 DEF Waits, Situation, Activity
  <2>4. /\ w.activity.state = "waiting" /\ w.activity.session = "none" /\ w.activity.output = 0
        /\ ~ w.activity.attempt /\ ~ w.activity.cancel
        /\ w.activity.fallbacks = s.control.fallbacks
    BY <1>3, <1>4, <2>3 DEF Situation, Activity
  <2>5. PICK f : f = [w EXCEPT !.activity.fallbacks = @ + 1]
    OBVIOUS
  <2>6. /\ f \in Situation /\ f.control = c /\ f.work = p.work
        /\ f.activity = [w.activity EXCEPT !.fallbacks = @ + 1]
    BY <2>2, <2>5 DEF Situation, Activity
  <2>7. /\ f.activity.state = "waiting" /\ f.activity.session = "none" /\ f.activity.output = 0
        /\ ~ f.activity.attempt /\ ~ f.activity.cancel
        /\ f.activity.fallbacks = s.control.fallbacks + 1
    BY <2>2, <2>4, <2>6 DEF Situation, Activity
  <2>8. FallBack(s) = f
    BY <1>1, <1>2, <1>7, <2>1, <2>5 DEF FallBack
  <2>9. Replayable(f)
    BY <1>3, <2>6, <2>7 DEF Replayable
  <2> QED BY <1>5, <1>7, <2>6, <2>7, <2>8, <2>9 DEF Held
<1>8. CASE c.state # "waiting"
  <2>1. PICK f : f = [p EXCEPT !.control = c]
    OBVIOUS
  <2>2. f \in Situation /\ f.control = c /\ f.activity = p.activity
    BY <1>3, <1>6, <2>1 DEF Situation
  <2>3. FallBack(s) = f
    BY <1>1, <1>2, <1>8, <2>1 DEF FallBack
  <2> QED BY <1>4, <1>5, <1>8, <2>2, <2>3 DEF Held
<1> QED BY <1>7, <1>8

LEMMA ParsedHolds ==
  ASSUME NEW s, Running(s), late \in BOOLEAN, ~ s.activity.attempt, NEW answer,
         answer = "malformed" => s.work = "malformed",
         NEW t \in Parsed(s, answer)
  PROVE  Held(t) /\ t.control.attempts = s.control.attempts
<1>1. CASE MayFallBack(s.activity, answer)
  <2>1. t = FallBack(s)
    BY <1>1 DEF Parsed
  <2>2. ~ s.activity.cancel /\ s.work = "malformed"
    BY <1>1 DEF MayFallBack
  <2> QED BY <2>1, <2>2, FallBackHolds
<1>2. CASE ~ MayFallBack(s.activity, answer)
  <2>1. PICK seen : seen = IF answer = "malformed" THEN s.control ELSE ObserveCanonical(s.control)
    OBVIOUS
  <2>2. PICK c : c = IF s.activity.cancel THEN s.control ELSE Finished(seen)
    OBVIOUS
  <2>3. PICK n \in 2..MaxBurst : t = Answer([s EXCEPT !.control = c], n)
    BY <1>2, <2>1, <2>2 DEF Parsed
  <2>4. /\ Counted(seen) /\ seen.fallbacks = s.control.fallbacks
        /\ seen.attempts = s.control.attempts
    BY <2>1, ObserveCounts DEF Running
  <2>5. /\ Counted(c) /\ c.fallbacks = s.control.fallbacks /\ c.attempts = s.control.attempts
        /\ c.state = "terminal"
    BY <2>2, <2>4, FinishedCounts DEF Running, UnderWay
  <2>6. PICK u : u = [s EXCEPT !.control = c]
    OBVIOUS
  <2>7. u \in Situation /\ u.control = c /\ u.activity = s.activity
    BY <2>5, <2>6 DEF Running, Situation, Counted
  <2>8. n \in Nat
    BY ActivityAssumption
  <2>9. Held(Answer(u, n)) /\ Answer(u, n).control = c
    BY <2>5, <2>7, <2>8, AnswerHolds DEF Running, UnderWay
  <2> QED BY <2>3, <2>5, <2>6, <2>9
<1> QED BY <1>1, <1>2

\* The response of an attempt that runs, whatever it says.
LEMMA RespondHolds ==
  ASSUME NEW s, Running(s), NEW n \in Nat
  PROVE  Held(Answer(s, n)) /\ Answer(s, n).control.attempts = s.control.attempts
BY AnswerHolds DEF Running, UnderWay

LEMMA HttpHolds ==
  ASSUME NEW s, Running(s), late \in BOOLEAN, ~ s.activity.attempt,
         NEW answer \in Answers, s.work = WorkOf(answer), NEW t \in Http(s, answer)
  PROVE  Held(t) /\ t.control.attempts = s.control.attempts
<1>1. CASE answer \in Accepted
  <2>1. answer = "malformed" => s.work = "malformed"
    BY DEF WorkOf, Redirecting
  <2>2. t \in Parsed(s, answer)
    BY <1>1 DEF Http
  <2> QED BY <2>1, <2>2, ParsedHolds
<1>2. CASE answer \notin Accepted /\ s.activity.cancel
  BY <1>2, RespondHolds DEF Http, HttpError
<1>3. CASE answer \notin Accepted /\ ~ s.activity.cancel
  <2>1. t \in Decided(s, answer, 2)
    BY <1>3 DEF Http
  <2>2. answer \in Retryable \cup Redirecting => s.work \in Harmless
    BY DEF Retryable, Redirecting, WorkOf, Harmless, Answers, Accepted
  <2> QED BY <1>3, <2>1, <2>2, DecidedHolds
<1> QED BY <1>1, <1>2, <1>3

\* An end without an answer that may be tried again proves that nothing was sent.
LEMMA RetryProvesUnsent ==
  ASSUME NEW r \in Failures \cup Completions
  PROVE  /\ TransportCategory(r) = "completed" => r.answer \in Answers /\ r.work = WorkOf(r.answer)
         /\ TransportCategory(r) \in Retryable \cup Redirecting => r.work \in Harmless
<1>1. CASE r \in Failures
  <2>1. /\ r.exit \in Unsent \cup {"verify", "other"} /\ r.end \in {"exited", "cancelled", "unknown"}
        /\ r.bytes \in BOOLEAN /\ r.cut \in BOOLEAN
        /\ r.exit \in Unsent /\ r.end = "exited" /\ ~ r.bytes /\ ~ r.cut => r.work = "unsent"
    BY <1>1 DEF Failures
  <2>2. TransportCategory(r) # "completed"
    BY <2>1 DEF TransportCategory, Unsent
  <2>3. TransportCategory(r) \in Retryable \cup Redirecting =>
          r.exit \in Unsent /\ r.end = "exited" /\ ~ r.bytes /\ ~ r.cut
    BY <2>1 DEF TransportCategory, Unsent, Retryable, Redirecting
  <2> QED BY <2>1, <2>2, <2>3 DEF Harmless
<1>2. CASE r \in Completions
  <2>1. PICK cut \in BOOLEAN, answer \in Answers :
          r = [exit |-> "ok", end |-> "exited", bytes |-> TRUE, cut |-> cut, answer |-> answer,
               work |-> WorkOf(answer)]
    BY <1>2 DEF Completions
  <2>2. r.answer \in Answers /\ r.work = WorkOf(r.answer)
    BY <2>1
  <2>3. TransportCategory(r) \in {"completed", "body-outcome-unknown"}
    BY <2>1 DEF TransportCategory
  <2> QED BY <2>2, <2>3 DEF Retryable, Redirecting
<1> QED BY <1>1, <1>2

LEMMA WorkIsWorks ==
  ASSUME NEW r \in Failures \cup Completions
  PROVE  r.work \in Works
<1>1. CASE r \in Failures
  BY <1>1 DEF Failures, Works
<1>2. CASE r \in Completions
  <2>1. PICK answer \in Answers : r.work = WorkOf(answer)
    BY <1>2 DEF Completions
  <2> QED BY <2>1 DEF WorkOf, Works, Answers, Accepted, Redirecting
<1> QED BY <1>1, <1>2

LEMMA SettledHolds ==
  ASSUME NEW s, Running(s), late \in BOOLEAN, ~ s.activity.attempt,
         NEW r \in Failures \cup Completions, s.work = r.work, NEW t \in Settled(s, r)
  PROVE  Held(t) /\ t.control.attempts = s.control.attempts
<1>1. CASE TransportCategory(r) = "completed"
  <2>1. t \in Http(s, r.answer)
    BY <1>1 DEF Settled
  <2> QED BY <1>1, <2>1, RetryProvesUnsent, HttpHolds
<1>2. CASE TransportCategory(r) # "completed" /\ s.activity.cancel
  BY <1>2, RespondHolds DEF Settled, TerminalCancel, TransportError
<1>3. CASE TransportCategory(r) # "completed" /\ ~ s.activity.cancel
  <2>1. PICK n \in Nat : t \in Decided(s, TransportCategory(r), n)
    BY <1>3 DEF Settled
  <2> QED BY <1>3, <2>1, RetryProvesUnsent, DecidedHolds
<1> QED BY <1>1, <1>2, <1>3

LEMMA TerminalHolds ==
  ASSUME NEW s, Running(s), late \in BOOLEAN, NEW t \in Terminal(s)
  PROVE  Held(t) /\ t.control.attempts = s.control.attempts
<1>1. PICK p : p = [s EXCEPT !.activity.attempt = FALSE, !.curl = "none", !.work = "taken"]
  OBVIOUS
<1>2. /\ Running(p) /\ ~ p.activity.attempt /\ p.control = s.control
  <2>1. /\ p.control = s.control /\ p \in Situation
        /\ p.activity = [s.activity EXCEPT !.attempt = FALSE]
    BY <1>1 DEF Running, Situation, Activity, Works
  <2>2. /\ ~ p.activity.attempt /\ p.activity.cancel = s.activity.cancel
        /\ p.activity.output = s.activity.output /\ p.activity.session = s.activity.session
        /\ p.activity.state = s.activity.state /\ p.activity.fallbacks = s.activity.fallbacks
    BY <2>1 DEF Running, Situation, Activity
  <2> QED BY <2>1, <2>2 DEF Running, UnderWay
<1>3. CASE t \in Decided(p, "outcome-unknown", 2)
  BY <1>2, <1>3, DecidedHolds DEF Retryable, Redirecting
<1>4. ASSUME NEW r \in Failures \cup Completions, t \in Settled([p EXCEPT !.work = r.work], r)
      PROVE  Held(t) /\ t.control.attempts = s.control.attempts
  <2>1. PICK u : u = [p EXCEPT !.work = r.work]
    OBVIOUS
  <2>2. r.work \in Works
    BY WorkIsWorks
  <2>3. /\ u \in Situation /\ u.work = r.work /\ u.activity = p.activity /\ u.control = p.control
    BY <1>2, <2>1, <2>2 DEF Running, Situation
  <2>4. Running(u) /\ ~ u.activity.attempt
    BY <1>2, <2>3 DEF Running, UnderWay
  <2>5. t \in Settled(u, r)
    BY <1>4, <2>1
  <2> QED BY <1>2, <2>3, <2>4, <2>5, SettledHolds
<1> QED BY <1>1, <1>3, <1>4 DEF Terminal

LEMMA AttemptPolledHolds ==
  ASSUME NEW s, Running(s), late \in BOOLEAN, NEW t \in AttemptPolled(s)
  PROVE  Held(t) /\ t.control.attempts = s.control.attempts
<1>1. CASE t = s
  BY <1>1 DEF Running, UnderWay, Held
<1>2. CASE t \in Decided(s, "outcome-unknown", 2)
  BY <1>2, DecidedHolds DEF Retryable, Redirecting
<1>3. CASE t \in Terminal(s)
  BY <1>3, TerminalHolds
<1> QED BY <1>1, <1>2, <1>3 DEF AttemptPolled

\* A situation from which an attempt may be started.
Startable(s) ==
  /\ s \in Situation /\ Counted(s.control)
  /\ s.activity.state \in {"created", "waiting"}
  /\ s.activity.session = "none" /\ s.activity.output = 0
  /\ ~ s.activity.attempt /\ ~ s.activity.cancel
  /\ s.activity.fallbacks = s.control.fallbacks

\* An attempt that was refused before it was one.
Unstarted(t) ==
  /\ t \in Situation /\ Counted(t.control) /\ t.control.state # "waiting"
  /\ t.activity.state \in {"created", "waiting"} /\ t.activity.session # "closed"
  /\ t.activity.fallbacks = t.control.fallbacks

\* An attempt that starts is under way; one that fails has its response.
LEMMA AttemptedHolds ==
  ASSUME NEW s, Startable(s), NEW b \in BOOLEAN,
         s.control.state = "ready" \/ (s.control.state = "waiting" /\ s.control.due),
         NEW t \in Attempted(s, b)
  PROVE  \/ Running(t)
         \/ Held(t) /\ t.activity.state = "terminal" /\ t.activity.output > 0
         \/ Unstarted(t) /\ t.activity.state = s.activity.state
<1>1. PICK c : c = StartAttempt(s.control, b)
  OBVIOUS
<1>2. PICK refused : refused = [s EXCEPT !.control = c]
  OBVIOUS
<1>3. PICK ready : ready = [refused EXCEPT !.activity.session = "open"]
  OBVIOUS
<1>4. PICK failed : failed = [ready EXCEPT !.control = Finished(c), !.work = "taken"]
  OBVIOUS
<1>5. /\ Counted(c) /\ c.state \in {"active", "terminal"} /\ c.fallbacks = s.control.fallbacks
  BY <1>1, StartCounts DEF Startable
<1>6. refused \in Situation /\ refused.control = c /\ refused.activity = s.activity
  BY <1>2, <1>5 DEF Startable, Situation, Counted
<1>7. /\ ready \in Situation /\ ready.control = c
      /\ ready.activity = [s.activity EXCEPT !.session = "open"]
  BY <1>3, <1>6 DEF Situation, Activity
<1>8. /\ ready.activity.session = "open" /\ ready.activity.output = 0
      /\ ~ ready.activity.attempt /\ ~ ready.activity.cancel
      /\ ready.activity.state = s.activity.state
      /\ ready.activity.fallbacks = s.activity.fallbacks
  BY <1>7 DEF Startable, Situation, Activity
<1>9. CASE t = refused
  BY <1>5, <1>6, <1>9 DEF Unstarted, Startable
<1>10. CASE t = ready
  BY <1>5, <1>7, <1>8, <1>10 DEF Unstarted, Startable
<1>11. CASE t = TransportError(failed)
  <2>1. Counted(Finished(c)) /\ Finished(c).state = "terminal" /\ Finished(c).fallbacks = c.fallbacks
    BY <1>5, FinishedCounts
  <2>2. failed \in Situation /\ failed.control = Finished(c) /\ failed.activity = ready.activity
    BY <1>4, <1>7, <2>1 DEF Situation, Counted, Works
  <2>3. Held(Answer(failed, 2)) /\ Answer(failed, 2).activity.state = "terminal"
    BY <1>5, <1>8, <2>1, <2>2, AnswerHolds DEF Startable
  <2>4. Answer(failed, 2).activity.output = 2
    BY <1>8, <2>2 DEF Answer, Situation, Activity
  <2> QED BY <1>11, <2>3, <2>4 DEF TransportError
<1>12. CASE c.state = "active" /\
            \E p \in {"running", "ended"} :
              t = [ready EXCEPT !.activity.state = "active", !.activity.attempt = TRUE,
                                !.curl = p, !.work = "open"]
  <2>1. PICK p \in {"running", "ended"} :
          t = [ready EXCEPT !.activity.state = "active", !.activity.attempt = TRUE,
                            !.curl = p, !.work = "open"]
    BY <1>12
  <2>2. /\ t \in Situation /\ t.control = c
        /\ t.activity = [ready.activity EXCEPT !.state = "active", !.attempt = TRUE]
    BY <1>7, <2>1 DEF Situation, Activity, Works
  <2>3. /\ t.activity.state = "active" /\ t.activity.session = "open" /\ t.activity.output = 0
        /\ ~ t.activity.cancel /\ t.activity.fallbacks = s.activity.fallbacks
    BY <1>7, <1>8, <2>2 DEF Situation, Activity
  <2> QED BY <1>5, <1>12, <2>2, <2>3 DEF Running, UnderWay, Startable
<1> QED BY <1>1, <1>2, <1>3, <1>4, <1>5, <1>9, <1>10, <1>11, <1>12 DEF Attempted

\* A wait whose attempt was refused has its response.
LEMMA ResumedHolds ==
  ASSUME NEW s, Startable(s), s.activity.state = "waiting", NEW b \in BOOLEAN,
         s.control.state = "waiting", s.control.due, NEW t \in Attempted(s, b)
  PROVE  \/ Running(Resumed(t))
         \/ Held(Resumed(t)) /\ Resumed(t).activity.state = "terminal"
<1>1. CASE Running(t)
  BY <1>1 DEF Resumed, Running
<1>2. CASE Held(t) /\ t.activity.state = "terminal"
  BY <1>2 DEF Resumed
<1>3. CASE Unstarted(t) /\ t.activity.state = "waiting"
  BY <1>3, AnswerHolds DEF Resumed, TransportError, Unstarted
<1> QED BY <1>1, <1>2, <1>3, AttemptedHolds

\* What a poll makes of a request that waits or has an attempt.  Only a wait leads
\* to another attempt.
LEMMA AdvancedHolds ==
  ASSUME NEW s, Held(s), late \in BOOLEAN,
         \/ s.activity.state = "waiting" /\ s.control.due
         \/ s.activity.state = "active" /\ s.activity.attempt,
         NEW t \in Advanced(s)
  PROVE  /\ Held(t)
         /\ s.activity.state = "active" => t.control.attempts = s.control.attempts
<1>1. CASE s.activity.state = "waiting" /\ s.control.due
  <2>1. Startable(s) /\ s.control.state = "waiting"
    BY <1>1 DEF Held, Replayable, Startable
  <2>2. PICK u \in Attempted(s, late) :
          t \in IF Resumed(u).activity.state = "active" THEN AttemptPolled(Resumed(u))
                ELSE {Resumed(u)}
    BY <1>1 DEF Advanced
  <2>3. \/ Running(Resumed(u))
        \/ Held(Resumed(u)) /\ Resumed(u).activity.state = "terminal"
    BY <1>1, <2>1, ResumedHolds
  <2>4. CASE Running(Resumed(u))
    <3>1. t \in AttemptPolled(Resumed(u))
      BY <2>2, <2>4 DEF Running
    <3> QED BY <1>1, <2>4, <3>1, AttemptPolledHolds
  <2>5. CASE Held(Resumed(u)) /\ Resumed(u).activity.state = "terminal"
    BY <1>1, <2>2, <2>5
  <2> QED BY <2>3, <2>4, <2>5
<1>2. CASE s.activity.state = "active" /\ s.activity.attempt
  <2>1. Running(s)
    BY <1>2 DEF Held, Running
  <2>2. t \in AttemptPolled(s)
    BY <1>2 DEF Advanced
  <2> QED BY <2>1, <2>2, AttemptPolledHolds
<1> QED BY <1>1, <1>2
-------------------------------------------------------------------------------
\* The steps between two calls.

\* What NoReplay says of one step.
Careful ==
  activity.state # "idle" /\ control'.attempts > control.attempts =>
    work \in Harmless \cup {"malformed"} /\ ~ activity.cancel

LEMMA BecomeNow ==
  ASSUME NEW u \in Situation, Become(u)
  PROVE  Now' = u /\ activity' = u.activity /\ control' = u.control
BY DEF Become, Now, Situation

LEMMA IdleHolds ==
  /\ Idle \in Activity /\ Idle.state = "idle" /\ Idle.output = 0 /\ ~ Idle.attempt
BY DEF Idle, Activity

\* Draining changes nothing but the length of the output.
LEMMA DrainedHolds ==
  ASSUME NEW s, Held(s), NEW n \in Nat
  PROVE  /\ Held(Drained(s, n)) /\ Drained(s, n).control = s.control
         /\ ~ Released(Drained(s, n)) <=>
              \/ Drained(s, n).activity.state \in {"active", "waiting"}
              \/ Drained(s, n).activity.output > 0
<1>1. PICK d : d = Drained(s, n)
  OBVIOUS
<1>2. PICK o : o = IF s.activity.output > n THEN s.activity.output - n ELSE 0
  OBVIOUS
<1>3. s \in Situation /\ s.activity.output \in Nat
  BY DEF Held, Situation, Activity
<1>4. o \in Nat /\ (s.activity.output = 0 => o = 0)
  BY <1>2, <1>3
<1>5. /\ d \in Situation /\ d.control = s.control /\ d.work = s.work
      /\ d.activity = [s.activity EXCEPT !.output = o]
  BY <1>1, <1>2, <1>3, <1>4 DEF Drained, Situation, Activity
<1>6. /\ d.activity.output = o /\ d.activity.state = s.activity.state
      /\ d.activity.attempt = s.activity.attempt /\ d.activity.session = s.activity.session
      /\ d.activity.cancel = s.activity.cancel /\ d.activity.fallbacks = s.activity.fallbacks
  BY <1>3, <1>5 DEF Situation, Activity
<1>7. Held(d)
  BY <1>4, <1>5, <1>6 DEF Held, UnderWay, Replayable
<1>8. ~ Released(d) <=> d.activity.state \in {"active", "waiting"} \/ d.activity.output > 0
  BY <1>4, <1>6, <1>7 DEF Held, Released
<1> QED BY <1>1, <1>5, <1>7, <1>8

\* The output that fits is handed over, and with the last of it the request ends.
LEMMA DeliverHolds ==
  ASSUME NEW s, Held(s), NEW n \in Nat, Deliver(Drained(s, n)), late' \in BOOLEAN
  PROVE  IInv' /\ control' = s.control
<1>1. PICK d : d = Drained(s, n)
  OBVIOUS
<1>2. /\ Held(d) /\ d \in Situation /\ d.control = s.control
      /\ ~ Released(d) <=> d.activity.state \in {"active", "waiting"} \/ d.activity.output > 0
  BY <1>1, DrainedHolds DEF Held
<1>3. request' = ~ Released(d) /\ Become(IF Released(d) THEN [d EXCEPT !.activity = Idle] ELSE d)
  BY <1>1 DEF Deliver
<1>4. CASE Released(d)
  <2>1. PICK u : u = [d EXCEPT !.activity = Idle]
    OBVIOUS
  <2>2. u \in Situation /\ u.activity = Idle /\ u.control = s.control
    BY <1>2, <2>1, IdleHolds DEF Situation
  <2>3. Now' = u /\ activity' = u.activity /\ control' = u.control
    BY <1>3, <1>4, <2>1, <2>2, BecomeNow
  <2>4. request' = FALSE /\ Now' \in Situation /\ activity' = Idle /\ control' = s.control
    BY <1>3, <1>4, <2>2, <2>3
  <2>5. Counted(control') /\ control'.state # "waiting"
    BY <1>2, <1>4, <2>4 DEF Held, Released
  <2>6. activity'.state = "idle" /\ activity'.output = 0 /\ ~ activity'.attempt
    BY <2>4, IdleHolds
  <2>7. ~ request' /\ {request', late'} \subseteq BOOLEAN
    BY <2>4
  <2> QED BY <2>4, <2>5, <2>6, <2>7 DEF IInv
<1>5. CASE ~ Released(d)
  <2>1. Now' = d /\ activity' = d.activity /\ control' = d.control
    BY <1>2, <1>3, <1>5, BecomeNow
  <2>2. Held(Now') /\ Now' \in Situation /\ Counted(control')
        /\ (activity'.attempt => activity'.session # "none")
    BY <1>2, <2>1 DEF Held
  <2> QED BY <1>2, <1>3, <1>5, <2>1, <2>2 DEF IInv
<1> QED BY <1>4, <1>5

LEMMA StartHolds ==
  ASSUME IInv, Start
  PROVE  IInv' /\ Careful
<1>1. CASE UNCHANGED vars
  BY <1>1 DEF vars, IInv, Now, Careful, Held, UnderWay, Replayable, Situation, Counted, Controller
<1>2. CASE ~ UNCHANGED vars
  <2>1. PICK try \in BOOLEAN :
          \E s \in Attempted([Now EXCEPT !.activity = [Idle EXCEPT !.state = "created", !.try = try],
                                         !.control = NewController, !.work = "none"], FALSE) :
            s.activity.state # "created" /\ Become(s) /\ request' = TRUE /\ late' = FALSE
    BY <1>2 DEF Start
  <2>2. PICK a : a = [Idle EXCEPT !.state = "created", !.try = try]
    OBVIOUS
  <2>3. PICK u : u = [Now EXCEPT !.activity = a, !.control = NewController, !.work = "none"]
    OBVIOUS
  <2>4. PICK s \in Attempted(u, FALSE) :
          s.activity.state # "created" /\ Become(s) /\ request' = TRUE /\ late' = FALSE
    BY <2>1, <2>2, <2>3
  <2>5. /\ a \in Activity /\ a.state = "created" /\ a.session = "none" /\ a.output = 0
        /\ ~ a.attempt /\ ~ a.cancel /\ a.fallbacks = 0
    BY <2>2 DEF Idle, Activity
  <2>6. /\ NewController \in Controller /\ NewController.state = "ready"
        /\ NewController.fallbacks = 0 /\ Counted(NewController)
    BY RetryAssumption DEF NewController, Controller, Counted, Again
  <2>7. u \in Situation /\ u.activity = a /\ u.control = NewController
    BY <2>3, <2>5, <2>6 DEF IInv, Now, Situation, Works
  <2>8. Startable(u)
    BY <2>5, <2>6, <2>7 DEF Startable
  <2>9. \/ Running(s)
        \/ Held(s) /\ s.activity.state = "terminal" /\ s.activity.output > 0
    BY <2>4, <2>5, <2>6, <2>7, <2>8, AttemptedHolds
  <2>10. /\ Held(s) /\ s \in Situation
         /\ s.activity.state \in {"active", "waiting"} \/ s.activity.output > 0
    BY <2>9 DEF Running, UnderWay, Held
  <2>11. Now' = s /\ activity' = s.activity /\ control' = s.control
    BY <2>4, <2>10, BecomeNow
  <2>12. activity.state = "idle"
    BY DEF Start
  <2> QED BY <2>4, <2>10, <2>11, <2>12 DEF IInv, Held, Careful
<1> QED BY <1>1, <1>2

\* A call that leaves the controller alone starts nothing.
LEMMA SameControl ==
  ASSUME IInv, control'.attempts = control.attempts
  PROVE  Careful
BY DEF IInv, Counted, Controller, Careful

LEMMA PollFullHolds ==
  ASSUME IInv, PollFull
  PROVE  IInv' /\ Careful
<1>1. Held(Now) /\ late' \in BOOLEAN /\ Budget \in Nat /\ Now.control = control
  BY ActivityAssumption DEF IInv, PollFull, Now
<1>2. PICK d : d = Drained(Now, Budget)
  OBVIOUS
<1>3. /\ Held(d) /\ d \in Situation /\ d.control = control
      /\ ~ Released(d) <=> d.activity.state \in {"active", "waiting"} \/ d.activity.output > 0
  BY <1>1, <1>2, DrainedHolds DEF Held
<1>4. Become(d) /\ request' = ~ Released(d)
  BY <1>2 DEF PollFull
<1>5. Now' = d /\ activity' = d.activity /\ control' = d.control
  BY <1>3, <1>4, BecomeNow
<1>6. Held(Now') /\ Now' \in Situation /\ Counted(control')
      /\ (activity'.attempt => activity'.session # "none")
      /\ (activity'.state = "waiting" <=> control'.state = "waiting")
  BY <1>3, <1>5 DEF Held
<1>7. IInv'
  BY <1>1, <1>3, <1>4, <1>5, <1>6 DEF IInv
<1> QED BY <1>3, <1>5, <1>7, SameControl

LEMMA PollTerminalHolds ==
  ASSUME IInv, PollTerminal
  PROVE  IInv' /\ Careful
<1>1. Held(Now) /\ late' \in BOOLEAN /\ Budget \in Nat /\ Now.control = control
  BY ActivityAssumption DEF IInv, PollTerminal, Now
<1>2. IInv' /\ control' = control
  BY <1>1, DeliverHolds DEF PollTerminal
<1> QED BY <1>2, SameControl

LEMMA PollActiveHolds ==
  ASSUME IInv, PollActive
  PROVE  IInv' /\ Careful
<1>1. /\ Held(Now) /\ late \in BOOLEAN /\ late' \in BOOLEAN
      /\ Now.control = control /\ Now.activity = activity /\ Now.work = work
  BY DEF IInv, PollActive, Now
<1>2. /\ activity.output \in Nat /\ activity.output < Budget
      /\ \/ activity.state = "waiting" /\ control.due
         \/ activity.state = "active" /\ activity.attempt
  BY DEF PollActive, IInv, Now, Situation, Activity
<1>3. PICK s \in Advanced(Now) : Deliver(Drained(s, Budget - activity.output))
  BY DEF PollActive
<1>4. Held(s) /\ (activity.state = "active" => s.control.attempts = control.attempts)
  BY <1>1, <1>2, <1>3, AdvancedHolds
<1>5. Budget - activity.output \in Nat
  BY <1>2, ActivityAssumption
<1>6. IInv' /\ control' = s.control
  BY <1>1, <1>3, <1>4, <1>5, DeliverHolds
<1>7. CASE activity.state = "waiting"
  BY <1>1, <1>6, <1>7 DEF Held, Replayable, Careful
<1>8. CASE activity.state = "active"
  BY <1>4, <1>6, <1>8, SameControl
<1> QED BY <1>2, <1>7, <1>8

LEMMA CancelHolds ==
  ASSUME IInv, Cancel
  PROVE  IInv' /\ Careful
<1>1. /\ Held(Now) /\ Now.control = control /\ Now.activity = activity
      /\ request = TRUE /\ late' \in BOOLEAN
  BY DEF IInv, Cancel, Now
<1>2. /\ control' = CancelController(control) /\ Counted(control') /\ control'.state = "terminal"
      /\ control'.fallbacks = control.fallbacks /\ control'.attempts = control.attempts
  BY CancelCounts DEF Cancel, IInv
<1>3. CASE activity.state = "waiting" \/ ~ activity.attempt
  <2>1. activity' = Idle /\ request' = FALSE
    BY <1>3 DEF Cancel
  <2>2. Now' \in Situation
    BY <1>2, <2>1, IdleHolds DEF Cancel, IInv, Now, Situation, Counted
  <2>3. activity'.state = "idle" /\ activity'.output = 0 /\ ~ activity'.attempt
    BY <2>1, IdleHolds
  <2>4. ~ request' /\ {request', late'} \subseteq BOOLEAN
    BY <1>1, <2>1
  <2>5. IInv'
    BY <1>2, <2>2, <2>3, <2>4 DEF IInv
  <2> QED BY <1>2, <2>5, SameControl
<1>4. CASE activity.state # "waiting" /\ activity.attempt
  <2>1. activity' = [activity EXCEPT !.cancel = TRUE] /\ request' = TRUE
    BY <1>1, <1>4 DEF Cancel
  <2>2. /\ activity' \in Activity /\ activity'.cancel = TRUE /\ activity'.state = activity.state
        /\ activity'.attempt = activity.attempt /\ activity'.session = activity.session
        /\ activity'.output = activity.output /\ activity'.fallbacks = activity.fallbacks
    BY <2>1 DEF IInv, Now, Situation, Activity
  <2>3. Now' \in Situation /\ Now'.activity = activity' /\ Now'.control = control'
    BY <1>2, <2>2 DEF Cancel, IInv, Now, Situation, Counted
  <2>4. Held(Now')
    BY <1>1, <1>2, <1>4, <2>2, <2>3 DEF Held, UnderWay
  <2>5. IInv'
    BY <1>1, <1>2, <2>1, <2>2, <2>3, <2>4 DEF IInv
  <2> QED BY <1>2, <2>5, SameControl
<1> QED BY <1>3, <1>4

LEMMA CurlEndsHolds ==
  ASSUME IInv, CurlEnds
  PROVE  IInv' /\ Careful
<1>1. /\ curl' = "ended" /\ request' = request /\ activity' = activity
      /\ control' = control /\ work' = work /\ late' = late
  BY DEF CurlEnds
<1>2. /\ Now' \in Situation /\ Now'.activity = Now.activity /\ Now'.control = Now.control
      /\ Now'.work = Now.work
  BY <1>1 DEF IInv, Now, Situation
<1>3. Held(Now) => Held(Now')
  BY <1>2 DEF Held, UnderWay, Replayable
<1>4. IInv'
  BY <1>1, <1>2, <1>3 DEF IInv
<1> QED BY <1>1, <1>4, SameControl

\* Whether the wait is over is all that time changes of the controller.
LEMMA TimeHolds ==
  ASSUME IInv, Elapse \/ Deadline
  PROVE  IInv' /\ Careful
<1>1. PICK b \in BOOLEAN : control' = [control EXCEPT !.due = b]
  BY DEF Elapse, Deadline
<1>2. /\ request' = request /\ activity' = activity /\ curl' = curl /\ work' = work
      /\ late' \in BOOLEAN
  BY DEF Elapse, Deadline, IInv
<1>3. control \in Controller
  BY DEF IInv, Counted
<1>4. /\ control' \in Controller /\ control'.state = control.state
      /\ control'.retries = control.retries /\ control'.redirects = control.redirects
      /\ control'.fallbacks = control.fallbacks /\ control'.attempts = control.attempts
  BY <1>1, <1>3 DEF Controller
<1>5. Counted(control')
  BY <1>4 DEF IInv, Counted, Again
<1>6. /\ Now' \in Situation /\ Now'.activity = Now.activity /\ Now'.control = control'
      /\ Now'.work = Now.work /\ Now.control = control
  BY <1>2, <1>4 DEF IInv, Now, Situation
<1>7. Held(Now) => Held(Now')
  BY <1>4, <1>5, <1>6 DEF Held, UnderWay, Replayable
<1>8. IInv'
  BY <1>2, <1>4, <1>5, <1>6, <1>7 DEF IInv
<1> QED BY <1>4, <1>8, SameControl

LEMMA StepHolds ==
  ASSUME IInv, [Next]_vars
  PROVE  IInv' /\ (Careful \/ UNCHANGED vars)
<1>1. CASE UNCHANGED vars
  BY <1>1 DEF vars, IInv, Now, Held, UnderWay, Replayable, Situation
<1>2. CASE Next
  BY <1>2, StartHolds, PollFullHolds, PollTerminalHolds, PollActiveHolds, CancelHolds,
     CurlEndsHolds, TimeHolds DEF Next, Poll
<1> QED BY <1>1, <1>2

LEMMA InitHolds == Init => IInv
<1> SUFFICES ASSUME Init PROVE IInv
  OBVIOUS
<1>1. /\ Idle \in Activity /\ Idle.state = "idle" /\ Idle.output = 0 /\ ~ Idle.attempt
  BY IdleHolds
<1>2. Counted(NewController) /\ NewController \in Controller /\ NewController.state = "ready"
  BY RetryAssumption DEF NewController, Controller, Counted, Again
<1>3. ~ request /\ {request, late} \subseteq BOOLEAN /\ activity = Idle /\ control = NewController
  BY DEF Init
<1>4. Now \in Situation
  BY <1>1, <1>2 DEF Init, Now, Situation, Works
<1> QED BY <1>1, <1>2, <1>3, <1>4 DEF IInv

LEMMA InvariantImpliesHeld == IInv => RequestHeld
<1> SUFFICES ASSUME IInv PROVE RequestHeld
  OBVIOUS
<1>1. Now.activity = activity /\ Now.control = control
  BY DEF Now
<1>2. SamePoint
  BY <1>1 DEF IInv, SamePoint, Held, UnderWay
<1>3. AttemptsAccounted
  <2>1. Counted(control) /\ Again(control) = control.retries + control.redirects + control.fallbacks
    BY DEF IInv, Again
  <2>2. control \in Controller /\ Again(control) \in Nat /\ control.attempts \in Nat
    BY <2>1 DEF Counted, Controller, Again
  <2> QED BY <2>1, <2>2 DEF AttemptsAccounted, Counted, Controller
<1> QED BY <1>2, <1>3 DEF RequestHeld
-------------------------------------------------------------------------------
\* The strengthened invariant holds in every behaviour, whether fair or not.
THEOREM InvariantHolds == Spec => []IInv
<1>1. IInv /\ [Next]_vars => IInv'
  BY StepHolds
<1> QED BY <1>1, InitHolds, PTL DEF Spec

\* The loop waits exactly while a response is to come, its activity and controller
\* are at the same point of the request, and every attempt is accounted for: for
\* every number of retries and redirects, every budget and length of a response.
THEOREM RequestHeldHolds == Spec => []RequestHeld
BY InvariantHolds, InvariantImpliesHeld, PTL

\* No attempt repeats what the Provider may have done, and none is started for a
\* request that the user cancelled.
THEOREM NoReplayHolds == Spec => NoReplay
<1>1. IInv /\ [Next]_vars => [Careful]_vars
  BY StepHolds
<1>2. Spec => [][Careful]_vars
  BY <1>1, InvariantHolds, PTL DEF Spec
<1> QED BY <1>2 DEF NoReplay, Careful
===============================================================================
