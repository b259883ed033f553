--------------------------- MODULE AgentLoopProofs ---------------------------
(***************************************************************************)
(* Proofs about AgentLoop, for every value of its constants.  The          *)
(* inductive invariant says, of a turn between two calls, which calls have *)
(* their result and what each activity, each pending decision and each     *)
(* state implies about them.                                               *)
(***************************************************************************)
EXTENDS AgentLoop, TLAPS

-----------------------------------------------------------------------------
(* The inductive invariant.                                                *)

\* No activity is out.
Open(t) == ~t.request /\ t.review = "none" /\ t.tool = 0 /\ t.returned = "none"

\* A call still waits for its result.
Owing(t) == t.cursor <= t.count

\* Exactly the calls before the cursor have their result.
Prefix(t) ==
  /\ t.cursor <= t.count + 1
  /\ \A k \in 1..t.count : t.calls[k].result = "none" <=> k >= t.cursor

\* What the properties say of the turn t, loop halted or not.
Safe(t) ==
  /\ t.request => t.review = "none" /\ t.tool = 0
  /\ t.review # "none" => t.tool = 0
  /\ t.request \/ t.review = "termination" => Settled(t)
  /\ t.tool # 0 => /\ t.tool = t.cursor
                   /\ t.calls[t.tool].result = "none"
                   /\ t.calls[t.tool].gates = {}

Concluded(t) == t.last.cut \/ t.last.settled

RequestRests(t) ==
  t.request => /\ t.review = "none" /\ t.tool = 0
               /\ t.preflight = "none" /\ t.pending = "none"
               /\ AllPaired(t)
ReviewRests(t) ==
  /\ t.review # "none" => t.tool = 0 /\ t.preflight = "none"
  /\ t.review = "termination" => AllPaired(t)
ToolRests(t) ==
  t.tool # 0 => /\ t.tool = t.cursor
                /\ Owing(t)
                /\ t.calls[t.cursor].gates = {}
                /\ t.preflight = "none" /\ t.pending = "none"
PreflightRests(t) ==
  /\ t.preflight # "none" => AutomaticCompaction /\ Open(t)
  /\ t.preflight \in {"main", "termination"} => AllPaired(t)
  /\ t.preflight = "main" => t.pending = "none"
  /\ t.preflight = "action" /\ t.pending = "none" => AllPaired(t)
PendingRests(t) ==
  /\ t.pending = "approval" =>
       /\ Open(t) /\ t.preflight = "none"
       /\ Owing(t) /\ t.calls[t.cursor].gates = {"approval"}
  /\ t.pending = "action-review" =>
       Owing(t) /\ t.calls[t.cursor].gates \in {{"review"}, {"review", "approval"}}
  /\ t.pending \in {"ask-user", "termination-review", "model-yield",
                    "compaction-preflight"} => AllPaired(t)
StateRests(s, t) ==
  /\ s = "WaitingUser" => Open(t) /\ t.preflight = "none"
  /\ s = "WaitingUser" /\ t.pending = "none" => AllPaired(t)
  /\ s = "ExecutingTool" /\ t.tool = 0 => AllPaired(t)
  /\ t.tool # 0 => s = "ExecutingTool"
  /\ t.request => s \in {"RequestingModel", "Streaming"}
  /\ s \in {"Preparing", "RequestingModel", "Streaming", "EvaluatingTermination"} =>
       AllPaired(t)

\* A turn t in state s between two calls.
Resting(s, t) ==
  /\ Prefix(t)
  /\ RequestRests(t) /\ ReviewRests(t) /\ ToolRests(t)
  /\ t.returned # "none" => t.tool # 0
  /\ PreflightRests(t) /\ PendingRests(t)
  /\ StateRests(s, t)

IInv ==
  /\ TypeOK
  /\ Safe(main)
  /\ Concluded(main)
  /\ ~halted => Resting(state, main)

-----------------------------------------------------------------------------
(* How a call ends.                                                        *)

Flags == {halted, fault, closing'} \subseteq BOOLEAN

LEMMA FreshTurnRests ==
  ASSUME NEW n \in 0..MaxTurns, NEW last \in Ended, NEW s \in {"Idle", "Closing", "Preparing"},
         last.cut \/ last.settled
  PROVE  /\ FreshTurn(n, last) \in Turn
         /\ Safe(FreshTurn(n, last))
         /\ Concluded(FreshTurn(n, last))
         /\ Resting(s, FreshTurn(n, last))
<1> USE AgentLoopAssumption
<1>1. FreshTurn(n, last) \in Turn
  BY DEF FreshTurn, Turn, NoCall, Call, Gates, Results, RealResults, PendingKinds, Reviewed
<1>2. Safe(FreshTurn(n, last)) /\ Concluded(FreshTurn(n, last))
  BY DEF FreshTurn, Safe, Concluded, Settled
<1>3. Resting(s, FreshTurn(n, last))
  BY DEF FreshTurn, Resting, Prefix, RequestRests, ReviewRests, ToolRests,
         PreflightRests, PendingRests, StateRests, Open, AllPaired, Owing
<1> QED BY <1>1, <1>2, <1>3

LEMMA BecomeRests ==
  ASSUME Flags, NEW s \in States, NEW t \in Turn,
         Safe(t), Concluded(t), ~halted => Resting(s, t), Become(s, t)
  PROVE  IInv'
BY DEF Become, IInv, TypeOK, Flags

LEMMA RaiseRests ==
  ASSUME Flags, NEW s \in States, NEW t \in Turn,
         Safe(t), Concluded(t), ~halted => Resting(s, t), Raise(s, t)
  PROVE  IInv'
BY DEF Raise, IInv, TypeOK, Flags

LEMMA LostRests ==
  ASSUME Flags, NEW s \in States, NEW t \in Turn, Safe(t), Concluded(t), Lost(s, t)
  PROVE  IInv'
<1>1. t.serial \in 0..MaxTurns /\ t.last \in Ended
  BY DEF Turn
<1>2. CASE s = "Idle"
  BY <1>1, <1>2, FreshTurnRests DEF Lost, IInv, TypeOK, Flags, Concluded, States
<1>3. CASE s # "Idle"
  BY <1>3 DEF Lost, IInv, TypeOK, Flags, States
<1> QED BY <1>2, <1>3

-----------------------------------------------------------------------------
(* Calls and results.                                                      *)

\* A turn in the middle of a call: no activity is out.
Walking(t) ==
  /\ t \in Turn
  /\ Prefix(t) /\ Open(t) /\ Concluded(t)
  /\ t.preflight # "none" => AutomaticCompaction

\* A turn that finalize may be asked to end.
Ending(t) ==
  /\ t \in Turn
  /\ Prefix(t) /\ Safe(t) /\ Concluded(t)
  /\ AllPaired(t) \/ t.cut

LEMMA OpenIsSafe == ASSUME NEW t, Open(t) PROVE Safe(t)
BY DEF Open, Safe

LEMMA PairedIsSettled ==
  ASSUME NEW t \in Turn, Prefix(t), AllPaired(t) PROVE Settled(t)
BY DEF Turn, Prefix, AllPaired, Settled

LEMMA SkippedCalls ==
  ASSUME NEW t, Walking(t), NEW n \in Nat
  PROVE  SkippedTo(t, n) \in [1..MaxCalls -> Call]
<1>1. t.calls \in [1..MaxCalls -> Call]
  BY DEF Walking, Turn
<1>2. ASSUME NEW k \in 1..MaxCalls
      PROVE  [t.calls[k] EXCEPT !.result = "skipped"] \in Call /\ t.calls[k] \in Call
  BY <1>1 DEF Call, Results
<1> QED BY <1>2 DEF SkippedTo

LEMMA Advanced ==
  ASSUME NEW t \in Turn, NEW c \in [1..MaxCalls -> Call], NEW n \in 1..(MaxCalls + 1)
  PROVE  /\ Advance(t, c, n) \in Turn
         /\ Advance(t, c, n).calls = c
         /\ Advance(t, c, n).cursor = n
         /\ Advance(t, c, n).count = t.count
         /\ Advance(t, c, n).last = t.last
         /\ Advance(t, c, n).pending = t.pending
         /\ Advance(t, c, n).preflight = t.preflight
         /\ Open(t) => Open(Advance(t, c, n))
<1>1. Advance(t, c, n) \in Turn
  BY DEF Turn, Advance
<1>2. Open(t) => Open(Advance(t, c, n))
  BY DEF Turn, Open, Advance
<1> QED BY <1>1, <1>2 DEF Turn, Advance

LEMMA SkipToSafe ==
  ASSUME NEW t, Walking(t), NEW n \in Nat
  PROVE  /\ SkipTo(t, n) \in Turn
         /\ Safe(SkipTo(t, n))
         /\ Concluded(SkipTo(t, n))
<1>1. SkipTo(t, n) \in Turn
  BY SkippedCalls DEF SkipTo, Walking, Turn
<1>2. Open(SkipTo(t, n)) /\ Concluded(SkipTo(t, n))
  BY DEF SkipTo, Walking, Turn, Open, Concluded
<1> QED BY <1>1, <1>2, OpenIsSafe

LEMMA SkipRemainingWalks ==
  ASSUME NEW t, Walking(t)
  PROVE  /\ Walking(SkipRemaining(t))
         /\ AllPaired(SkipRemaining(t))
         /\ SkipRemaining(t).pending = t.pending
         /\ SkipRemaining(t).preflight = t.preflight
<1> DEFINE u == SkipRemaining(t)
<1>1. t \in Turn /\ t.count \in 0..MaxCalls /\ t.cursor \in 1..(MaxCalls + 1)
      /\ t.count \in Nat /\ t.count + 1 \in 1..(MaxCalls + 1)
  BY AgentLoopAssumption DEF Walking, Turn
<1>2. /\ u \in Turn
      /\ u.calls = SkippedTo(t, t.count) /\ u.cursor = t.count + 1 /\ u.count = t.count
      /\ u.last = t.last /\ u.pending = t.pending /\ u.preflight = t.preflight
      /\ Open(u)
  <2>1. SkippedTo(t, t.count) \in [1..MaxCalls -> Call]
    BY <1>1, SkippedCalls
  <2>2. u = Advance(t, SkippedTo(t, t.count), t.count + 1) /\ Open(t)
    BY DEF SkipRemaining, Walking
  <2> HIDE DEF u
  <2> QED BY <1>1, <2>1, <2>2, Advanced
<1>3. ASSUME NEW k \in 1..t.count
      PROVE  SkippedTo(t, t.count)[k].result # "none"
  <2>1. k \in 1..MaxCalls /\ t.calls[k] \in Call
    BY <1>1, AgentLoopAssumption DEF Turn
  <2>2. CASE k \in t.cursor..t.count /\ t.calls[k].result = "none"
    BY <2>1, <2>2 DEF SkippedTo, Call
  <2>3. CASE ~(k \in t.cursor..t.count /\ t.calls[k].result = "none")
    BY <1>1, <2>1, <2>3 DEF SkippedTo, Walking, Prefix
  <2> QED BY <2>2, <2>3
<1>4. Prefix(u)
  BY <1>1, <1>2, <1>3 DEF Prefix
<1> QED BY <1>1, <1>2, <1>4 DEF Walking, AllPaired, Concluded

LEMMA PairNextWalks ==
  ASSUME NEW t, Walking(t), Owing(t), NEW r \in Results \ {"none"}
  PROVE  /\ Walking(PairNext(t, r))
         /\ PairNext(t, r).pending = t.pending
         /\ PairNext(t, r).preflight = t.preflight
         /\ PairNext(t, r).count = t.count
         /\ PairNext(t, r).cursor = t.cursor + 1
<1> DEFINE u == PairNext(t, r)
           d == [t.calls[t.cursor] EXCEPT !.result = r]
           c == [t.calls EXCEPT ![t.cursor] = d]
<1>1. t \in Turn /\ t.cursor \in 1..MaxCalls /\ t.count \in 0..MaxCalls
      /\ t.calls \in [1..MaxCalls -> Call]
  BY AgentLoopAssumption DEF Walking, Turn, Owing
<1>2. d \in Call /\ d.result = r
  BY <1>1 DEF Call
<1>3. c \in [1..MaxCalls -> Call] /\ t.cursor + 1 \in 1..(MaxCalls + 1)
  BY <1>1, <1>2, AgentLoopAssumption
<1>4. u = Advance(t, c, t.cursor + 1)
  BY DEF PairNext
<1>5. /\ u \in Turn
      /\ u.calls = c /\ u.cursor = t.cursor + 1 /\ u.count = t.count
      /\ u.last = t.last /\ u.pending = t.pending /\ u.preflight = t.preflight
      /\ Open(u)
  <2> HIDE DEF c, d, u
  <2> QED BY <1>1, <1>3, <1>4, Advanced DEF Walking
<1>6. \A k \in 1..MaxCalls : c[k] = IF k = t.cursor THEN d ELSE t.calls[k]
  BY <1>1
<1> HIDE DEF c, d, u
<1>7. Prefix(u)
  <2>1. t.cursor + 1 <= t.count + 1
    BY <1>1 DEF Owing
  <2>2. ASSUME NEW k \in 1..t.count
        PROVE  c[k].result = "none" <=> k >= t.cursor + 1
    <3>1. k \in 1..MaxCalls /\ (t.calls[k].result = "none" <=> k >= t.cursor)
      BY <1>1, AgentLoopAssumption DEF Walking, Prefix
    <3> QED BY <1>1, <1>2, <1>6, <3>1
  <2> QED BY <1>5, <2>1, <2>2 DEF Prefix
<1> QED
  BY <1>5, <1>7 DEF Walking, Concluded, u

-----------------------------------------------------------------------------
(* The end of a turn, and requests.                                        *)

LEMMA ResultsSkippedLost ==
  ASSUME Flags, NEW s \in States, NEW t, Walking(t), LostSkipping(s, t)
  PROVE  IInv'
<1>1. PICK n \in t.cursor..t.count : Lost(s, SkipTo(t, n - 1))
  BY DEF LostSkipping
<1>2. n - 1 \in Nat
  BY <1>1, AgentLoopAssumption DEF Walking, Turn
<1> QED BY <1>1, <1>2, SkipToSafe, LostRests

LEMMA SummaryEnds ==
  ASSUME NEW t, Ending(t), NEW o \in Outcomes
  PROVE  Summary(t, o) \in Ended /\ (Summary(t, o).cut \/ Summary(t, o).settled)
<1>1. t.cut \in BOOLEAN /\ t.steer \in BOOLEAN /\ t.checked \in BOOLEAN
  BY DEF Ending, Turn
<1>2. Settled(t) \in BOOLEAN /\ HasUnknown(t) \in BOOLEAN
  BY DEF Settled, HasUnknown
<1>3. t.cut \/ Settled(t)
  BY PairedIsSettled DEF Ending
<1> QED BY <1>1, <1>2, <1>3 DEF Summary, Ended

LEMMA FinalizeRests ==
  ASSUME Flags, NEW t, Ending(t), NEW o \in Outcomes, Finalize(t, o)
  PROVE  IInv'
<1>1. t.serial \in 0..MaxTurns /\ t \in Turn /\ Safe(t) /\ Concluded(t)
  BY DEF Ending, Turn
<1>2. CASE Lost("Finalizing", t)
  BY <1>1, <1>2, LostRests DEF States
<1>3. CASE Become(IF closing' THEN "Closing" ELSE "Idle",
                  FreshTurn(t.serial, Summary(t, o)))
  <2> DEFINE s == IF closing' THEN "Closing" ELSE "Idle"
  <2>1. s \in States /\ s \in {"Idle", "Closing", "Preparing"}
    BY DEF States
  <2> HIDE DEF s
  <2>2. Become(s, FreshTurn(t.serial, Summary(t, o)))
    BY <1>3 DEF s
  <2> QED BY <1>1, <2>1, <2>2, SummaryEnds, FreshTurnRests, BecomeRests
<1> QED BY <1>2, <1>3 DEF Finalize

LEMMA WalkingIsEnding ==
  ASSUME NEW t, Walking(t), AllPaired(t) \/ t.cut PROVE Ending(t)
BY OpenIsSafe DEF Walking, Ending

LEMMA SkipAndFinalizeRests ==
  ASSUME Flags, NEW s \in States, NEW t, Walking(t), NEW o \in Outcomes,
         SkipAndFinalize(s, t, o)
  PROVE  IInv'
BY ResultsSkippedLost, SkipRemainingWalks, WalkingIsEnding, FinalizeRests
   DEF SkipAndFinalize

\* A walk with every call paired and no decision pending may rest anywhere.
LEMMA PairedRests ==
  ASSUME NEW s, NEW t, Walking(t), AllPaired(t), t.pending = "none",
         s = "WaitingUser" => t.preflight = "none"
  PROVE  Resting(s, t)
BY DEF Walking, Resting, RequestRests, ReviewRests, ToolRests, PreflightRests,
       PendingRests, StateRests, Open

LEMMA StartModelRests ==
  ASSUME Flags, NEW s \in States, NEW t, Walking(t), AllPaired(t),
         t.pending = "none", t.preflight = "none", StartModel(s, t)
  PROVE  IInv'
<1> DEFINE u == [t EXCEPT !.requests = t.requests + 1]
           v == [u EXCEPT !.request = TRUE]
<1>1. t \in Turn /\ Safe(t) /\ Concluded(t)
  BY OpenIsSafe DEF Walking
<1>2. CASE OverBudget(t) /\ Finalize(t, "budget_exhausted")
  BY <1>2, WalkingIsEnding, FinalizeRests DEF Outcomes
<1>3. ASSUME ~OverBudget(t)
      PROVE  /\ Walking(u) /\ AllPaired(u) /\ u.pending = "none"
             /\ u.preflight = "none"
  <2>1. t.requests + 1 \in 0..ModelRequestLimit
    BY <1>1, <1>3, AgentLoopAssumption DEF OverBudget, Turn
  <2>2. u \in Turn
    BY <1>1, <2>1 DEF Turn
  <2> QED BY ZenonT(60), <1>1, <2>2 DEF Walking, Turn, Prefix, Open, Concluded, AllPaired
<1>4. CASE CapacityExhausted(s, t)
  BY <1>4, SkipAndFinalizeRests DEF CapacityExhausted, Outcomes
<1>5. CASE Lost(s, t)
  BY <1>1, <1>5, LostRests
<1>6. CASE ~OverBudget(t) /\ Raise(s, u)
  <2> HIDE DEF u
  <2> QED BY <1>3, <1>6, PairedRests, OpenIsSafe, RaiseRests DEF Walking
<1>7. CASE ~OverBudget(t) /\ Finalize(u, "error")
  <2> HIDE DEF u
  <2> QED BY <1>3, <1>7, WalkingIsEnding, FinalizeRests DEF Outcomes
<1>8. CASE ~OverBudget(t) /\ Become("RequestingModel", v)
  <2>1. u \in Turn /\ Walking(u) /\ AllPaired(u) /\ u.pending = "none"
        /\ u.preflight = "none"
    BY <1>3, <1>8 DEF Walking
  <2> HIDE DEF u
  <2>2. /\ v \in Turn /\ v.request /\ v.review = "none" /\ v.tool = 0
        /\ v.returned = "none" /\ v.pending = "none" /\ v.preflight = "none"
        /\ v.last = u.last /\ v.calls = u.calls /\ v.count = u.count
        /\ v.cursor = u.cursor
    BY <2>1 DEF Turn, Walking, Open
  <2> HIDE DEF v
  <2>3. Prefix(v) /\ AllPaired(v) /\ Concluded(v)
    BY <2>1, <2>2 DEF Walking, Prefix, AllPaired, Concluded
  <2>4. Safe(v)
    BY <2>2, <2>3, PairedIsSettled DEF Safe
  <2>5. Resting("RequestingModel", v)
    BY <2>2, <2>3 DEF Resting, RequestRests, ReviewRests, ToolRests,
                      PreflightRests, PendingRests, StateRests
  <2> QED BY <1>8, <2>2, <2>3, <2>4, <2>5, BecomeRests DEF States
<1> QED
  BY <1>2, <1>4, <1>5, <1>6, <1>7, <1>8 DEF StartModel

LEMMA RequestModelRests ==
  ASSUME Flags, NEW s \in States, NEW t, Walking(t), AllPaired(t),
         t.pending = "none", RequestModel(s, t),
         s = "WaitingUser" => t.preflight = "none"
  PROVE  IInv'
<1> DEFINE u == [t EXCEPT !.preflight = "main"]
<1>1. t \in Turn /\ Safe(t) /\ Concluded(t)
  BY OpenIsSafe DEF Walking
<1>2. CASE OverBudget(t) /\ Finalize(t, "budget_exhausted")
  BY <1>2, WalkingIsEnding, FinalizeRests DEF Outcomes
<1>3. CASE Raise(s, t)
  BY <1>1, <1>3, PairedRests, RaiseRests
<1>4. CASE /\ AutomaticCompaction
           /\ Become("Preparing", IF t.preflight = "none" THEN u ELSE t)
  <2>1. CASE t.preflight = "none"
    <3>1. u \in Turn
      BY <1>1 DEF Turn
    <3>2. Walking(u) /\ AllPaired(u) /\ u.pending = "none"
      BY SMTT(30), <1>1, <1>4, <3>1 DEF Walking, Turn, Prefix, Open, Concluded, AllPaired
    <3> HIDE DEF u
    <3> QED BY <1>4, <2>1, <3>1, <3>2, PairedRests, OpenIsSafe, BecomeRests
            DEF Walking, States
  <2>2. CASE t.preflight # "none"
    BY <1>1, <1>4, <2>2, PairedRests, BecomeRests DEF States
  <2> QED BY <2>1, <2>2
<1>5. CASE ~AutomaticCompaction /\ StartModel(s, t)
  BY <1>5, StartModelRests DEF Walking
<1> QED
  BY <1>2, <1>3, <1>4, <1>5 DEF RequestModel

-----------------------------------------------------------------------------
(* Reviews.                                                                *)

\* What a walk must satisfy to start, defer or skip a review of a kind.
Reviewable(s, t, kind) ==
  /\ s \in States \ {"WaitingUser"}
  /\ Walking(t) /\ Resting(s, t)
  /\ t.preflight = "none" /\ t.pending # "approval"
  /\ t.pending = "none" \/ kind = "termination" => AllPaired(t)
  /\ kind \in {"action", "termination"}

LEMMA WaitUnreviewedRests ==
  ASSUME Flags, NEW s, NEW t, NEW kind, Reviewable(s, t, kind), WaitUnreviewed(s, t)
  PROVE  IInv'
<1>1. t \in Turn /\ Safe(t) /\ Concluded(t) /\ s \in States
  BY OpenIsSafe DEF Reviewable, Walking
<1>2. Resting("WaitingUser", t)
  BY DEF Reviewable, Walking, Resting, StateRests, Open
<1>3. "WaitingUser" \in States
  BY DEF States
<1>4. Resting(s, t)
  BY DEF Reviewable
<1> QED
  BY <1>1, <1>2, <1>3, <1>4, BecomeRests, RaiseRests DEF WaitUnreviewed

LEMMA StartReviewRests ==
  ASSUME Flags, NEW s, NEW t, NEW kind, Reviewable(s, t, kind), StartReview(s, t, kind)
  PROVE  IInv'
<1> DEFINE u == [t EXCEPT !.requests = t.requests + 1]
           v == [u EXCEPT !.review = kind]
           w == [u EXCEPT !.cut = TRUE]
<1>1. t \in Turn /\ Safe(t) /\ Concluded(t) /\ s \in States /\ Walking(t)
  BY OpenIsSafe DEF Reviewable, Walking
<1>2. CASE WaitUnreviewed(s, t)
  BY <1>2, WaitUnreviewedRests
<1>3. CASE CapacityExhausted(s, t)
  BY <1>1, <1>3, SkipAndFinalizeRests DEF CapacityExhausted, Outcomes
<1>4. CASE Lost(s, t)
  BY <1>1, <1>4, LostRests
<1>5. ASSUME ~OverBudget(t)
      PROVE  /\ u \in Turn /\ ~u.request /\ u.review = "none" /\ u.tool = 0
             /\ u.returned = "none" /\ u.pending = t.pending /\ u.preflight = "none"
             /\ u.last = t.last /\ u.calls = t.calls /\ u.count = t.count
             /\ u.cursor = t.cursor
  <2>1. t.requests + 1 \in 0..ModelRequestLimit
    BY <1>1, <1>5, AgentLoopAssumption DEF OverBudget, Turn
  <2>2. u \in Turn
    BY <1>1, <2>1 DEF Turn
  <2> QED BY <1>1, <2>2 DEF Reviewable, Walking, Turn, Open
<1>6. CASE ~OverBudget(t) /\ Finalize(w, "error")
  <2> HIDE DEF u
  <2>1. /\ w \in Turn /\ ~w.request /\ w.review = "none" /\ w.tool = 0 /\ w.cut
        /\ w.last = t.last /\ w.calls = t.calls /\ w.count = t.count
        /\ w.cursor = t.cursor
    BY <1>5, <1>6 DEF Turn
  <2> HIDE DEF w
  <2>2. Ending(w)
    BY <1>1, <2>1 DEF Ending, Walking, Prefix, Safe, Concluded
  <2> QED BY <1>6, <2>2, FinalizeRests DEF Outcomes
<1>7. CASE ~OverBudget(t) /\ Become(s, v)
  <2> HIDE DEF u
  <2>1. kind \in Reviewed \ {"none"}
    BY DEF Reviewable, Reviewed
  <2>2. /\ v \in Turn /\ ~v.request /\ v.review = kind /\ v.tool = 0
        /\ v.returned = "none" /\ v.pending = t.pending /\ v.preflight = "none"
        /\ v.last = t.last /\ v.calls = t.calls /\ v.count = t.count
        /\ v.cursor = t.cursor
    BY <1>5, <1>7, <2>1 DEF Turn
  <2> HIDE DEF v
  <2>3. Prefix(v) /\ Concluded(v) /\ (AllPaired(t) => AllPaired(v))
    BY <1>1, <2>2 DEF Walking, Prefix, AllPaired, Concluded
  <2>4. Safe(v)
    BY <2>1, <2>2, <2>3, PairedIsSettled DEF Safe, Reviewable
  <2>5. PendingRests(v) /\ StateRests(s, v)
    <3>1. PendingRests(t) /\ StateRests(s, t) /\ t.pending # "approval" /\ Open(t)
          /\ s # "WaitingUser"
      BY DEF Reviewable, Resting, Walking
    <3>2. PendingRests(v)
      BY <2>2, <3>1 DEF PendingRests, AllPaired, Owing
    <3>3. StateRests(s, v)
      BY <2>2, <3>1 DEF StateRests, AllPaired, Open
    <3> QED BY <3>2, <3>3
  <2>6. Resting(s, v)
    BY <2>1, <2>2, <2>3, <2>5 DEF Resting, RequestRests, ReviewRests, ToolRests,
                                  PreflightRests, Reviewable
  <2> QED BY <1>1, <1>7, <2>2, <2>3, <2>4, <2>6, BecomeRests
<1> QED
  BY <1>2, <1>3, <1>4, <1>6, <1>7 DEF StartReview

LEMMA BeginReviewRests ==
  ASSUME Flags, NEW s, NEW t, NEW kind, Reviewable(s, t, kind), BeginReview(s, t, kind)
  PROVE  IInv'
<1> DEFINE u == [t EXCEPT !.preflight = kind]
<1>1. CASE WaitUnreviewed(s, t)
  BY <1>1, WaitUnreviewedRests
<1>2. CASE StartReview(s, t, kind)
  BY <1>2, StartReviewRests
<1>3. CASE AutomaticCompaction /\ Become(s, u)
  <2>1. t \in Turn /\ s \in States /\ Walking(t)
        /\ kind \in {"none", "main", "action", "termination"}
    BY DEF Reviewable, Walking
  <2>2. /\ u \in Turn /\ Open(u) /\ u.preflight = kind /\ u.pending = t.pending
        /\ u.last = t.last /\ u.calls = t.calls /\ u.count = t.count
        /\ u.cursor = t.cursor
    BY <2>1 DEF Turn, Walking, Open
  <2> HIDE DEF u
  <2>3. Prefix(u) /\ Concluded(u) /\ (AllPaired(t) => AllPaired(u)) /\ Safe(u)
    BY <2>1, <2>2, OpenIsSafe DEF Walking, Prefix, AllPaired, Concluded
  <2>4. PendingRests(u) /\ StateRests(s, u)
    BY <2>1, <2>2 DEF Reviewable, Resting, PendingRests, StateRests, AllPaired, Owing,
                      Walking, Open
  <2>5. Resting(s, u)
    BY <1>3, <2>2, <2>3, <2>4 DEF Resting, RequestRests, ReviewRests, ToolRests,
                                  PreflightRests, Reviewable, Open
  <2> QED BY <1>3, <2>1, <2>2, <2>3, <2>5, BecomeRests
<1> QED BY <1>1, <1>2, <1>3 DEF BeginReview, Reviewable

-----------------------------------------------------------------------------
(* Completion and batches.                                                 *)

LEMMA StartNextRests ==
  ASSUME Flags, NEW t, Ending(t), NEW o \in Outcomes, StartNext(t, o)
  PROVE  IInv'
<1> DEFINE last == Summary(t, o)
           idle == FreshTurn(t.serial, last)
           next == FreshTurn(t.serial + 1, last)
<1>1. t.serial \in 0..MaxTurns /\ last \in Ended /\ (last.cut \/ last.settled)
  BY SummaryEnds DEF Ending, Turn
<1>2. CASE Lost("Idle", idle)
  <2> HIDE DEF last
  <2>1. idle \in Turn /\ Safe(idle) /\ Concluded(idle)
    BY <1>1, FreshTurnRests
  <2> QED BY <1>2, <2>1, LostRests DEF States, last
<1>3. CASE t.serial < MaxTurns /\ RequestModel("Preparing", next)
  <2> HIDE DEF last
  <2>1. t.serial + 1 \in 0..MaxTurns
    BY <1>1, <1>3, AgentLoopAssumption
  <2>3. /\ next \in Turn /\ Concluded(next) /\ Resting("Preparing", next)
        /\ Open(next) /\ AllPaired(next) /\ next.pending = "none"
        /\ next.preflight = "none"
    <3>1. next \in Turn /\ Concluded(next) /\ Resting("Preparing", next)
      BY <1>1, <2>1, FreshTurnRests
    <3>2. Open(next) /\ AllPaired(next) /\ next.pending = "none"
          /\ next.preflight = "none"
      BY DEF FreshTurn, Open, AllPaired
    <3> QED BY <3>1, <3>2
  <2>4. RequestModel("Preparing", next)
    BY <1>3
  <2> HIDE DEF next
  <2>5. Walking(next)
    BY <2>3 DEF Walking, Resting
  <2> QED BY <2>3, <2>4, <2>5, RequestModelRests DEF States
<1> QED BY <1>2, <1>3 DEF StartNext

LEMMA CompleteRests ==
  ASSUME Flags, NEW t, Ending(t), Complete(t)
  PROVE  IInv'
BY FinalizeRests, StartNextRests DEF Complete, Outcomes

\* Changing what no invariant reads keeps a walk a walk.
Alike(t, u) ==
  /\ u \in Turn
  /\ u.request = t.request /\ u.review = t.review /\ u.tool = t.tool
  /\ u.returned = t.returned /\ u.pending = t.pending /\ u.preflight = t.preflight
  /\ u.count = t.count /\ u.calls = t.calls /\ u.cursor = t.cursor
  /\ u.last = t.last

LEMMA AlikeRests ==
  ASSUME NEW t \in Turn, NEW u, Alike(t, u), NEW s
  PROVE  /\ Walking(t) => Walking(u)
         /\ Safe(t) => Safe(u)
         /\ Concluded(t) => Concluded(u)
         /\ Resting(s, t) => Resting(s, u)
         /\ AllPaired(t) <=> AllPaired(u)
         /\ Owing(t) <=> Owing(u)
<1>1. AllPaired(t) <=> AllPaired(u)
  BY DEF Alike, AllPaired
<1>2. Owing(t) <=> Owing(u)
  BY DEF Alike, Owing
<1>3. Open(t) => Open(u)
  BY DEF Alike, Open
<1>4. Prefix(t) => Prefix(u)
  BY DEF Alike, Prefix
<1>5. Safe(t) => Safe(u)
  BY DEF Alike, Safe, Settled
<1>6. Concluded(t) => Concluded(u)
  BY DEF Alike, Concluded
<1>7. Walking(t) => Walking(u)
  BY <1>3, <1>4, <1>6 DEF Alike, Walking
<1>8. Resting(s, t) => Resting(s, u)
  BY <1>1, <1>2, <1>3, <1>4
     DEF Alike, Resting, RequestRests, ReviewRests, ToolRests, PreflightRests,
         PendingRests, StateRests
<1> QED BY <1>1, <1>2, <1>5, <1>6, <1>7, <1>8

LEMMA CompleteResponseRests ==
  ASSUME Flags, NEW t, Walking(t), AllPaired(t), t.pending = "none",
         t.preflight = "none", CompleteResponse(t)
  PROVE  IInv'
<1> DEFINE u == [t EXCEPT !.gap = FALSE]
           v == Pend(t, "termination-review")
<1>1. t \in Turn
  BY DEF Walking
<1>2. CASE Complete(u)
  <2>1. Alike(t, u)
    BY <1>1 DEF Alike, Turn
  <2> HIDE DEF u
  <2> QED BY <1>1, <1>2, <2>1, AlikeRests, WalkingIsEnding, CompleteRests
<1>3. CASE Complete(t)
  BY <1>3, WalkingIsEnding, CompleteRests
<1>4. CASE BeginReview("EvaluatingTermination", v, "termination")
  <2>1. /\ v \in Turn /\ v.pending = "termination-review" /\ v.preflight = "none"
        /\ Open(v) /\ v.last = t.last /\ v.calls = t.calls /\ v.count = t.count
        /\ v.cursor = t.cursor
    BY <1>1 DEF Pend, Turn, PendingKinds, Walking, Open
  <2> HIDE DEF v
  <2>2. Walking(v) /\ AllPaired(v)
    BY <1>1, <2>1 DEF Walking, Prefix, Concluded, AllPaired
  <2>3. Resting("EvaluatingTermination", v)
    BY <2>1, <2>2 DEF Walking, Resting, RequestRests, ReviewRests, ToolRests,
                      PreflightRests, PendingRests, StateRests, Open
  <2>4. Reviewable("EvaluatingTermination", v, "termination")
    BY <2>1, <2>2, <2>3 DEF Reviewable, States
  <2> QED BY <1>4, <2>4, BeginReviewRests
<1> QED BY <1>2, <1>3, <1>4 DEF CompleteResponse

LEMMA CompleteBatchRests ==
  ASSUME Flags, NEW s \in States, NEW t, Walking(t), AllPaired(t),
         t.preflight = "none", CompleteBatch(s, t)
  PROVE  IInv'
<1> DEFINE u == [t EXCEPT !.tool = 0, !.pending = "none"]
<1>1. RequestModel(s, u)
  BY DEF CompleteBatch
<1>2. /\ u \in Turn /\ Open(u) /\ u.pending = "none" /\ u.preflight = "none"
      /\ u.last = t.last /\ u.calls = t.calls /\ u.count = t.count
      /\ u.cursor = t.cursor
  <2>1. t \in Turn /\ Open(t)
    BY DEF Walking
  <2>2. PICK v : v = [t EXCEPT !.tool = 0]
    OBVIOUS
  <2>3. /\ v \in Turn /\ Open(v) /\ v.preflight = "none"
        /\ v.last = t.last /\ v.calls = t.calls /\ v.count = t.count
        /\ v.cursor = t.cursor
    BY <2>1, <2>2, AgentLoopAssumption DEF Turn, Open
  <2>4. u = [v EXCEPT !.pending = "none"]
    BY <2>2
  <2> HIDE DEF u
  <2> QED BY <2>3, <2>4 DEF Turn, Open, PendingKinds
<1> HIDE DEF u
<1>3. Walking(u) /\ AllPaired(u)
  BY <1>2 DEF Walking, Prefix, Concluded, AllPaired
<1> QED BY <1>1, <1>2, <1>3, RequestModelRests

LEMMA AbandonBatchRests ==
  ASSUME Flags, NEW s \in States, NEW t, Walking(t), t.preflight = "none",
         AbandonBatch(s, t)
  PROVE  IInv'
BY ResultsSkippedLost, SkipRemainingWalks, CompleteBatchRests DEF AbandonBatch

LEMMA FinishCancelledRests ==
  ASSUME Flags, NEW s \in States, NEW t, Walking(t),
         Resting(s, t) \/ Edge(s, "DispatchingTools"), FinishCancelled(s, t)
  PROVE  IInv'
<1> DEFINE u == IF t.cancel = "none" THEN [t EXCEPT !.cancel = "budget_exhausted"] ELSE t
<1>1. t \in Turn
  BY DEF Walking
<1>2. Alike(t, u) /\ u.cancel \in Outcomes
  BY <1>1 DEF Alike, Turn, Outcomes
<1>3. \/ Raise(s, u) /\ ~Edge(s, "DispatchingTools")
      \/ SkipAndFinalize(s, u, u.cancel)
  BY DEF FinishCancelled, MayBe
<1> HIDE DEF u
<1>4. /\ u \in Turn /\ Walking(u) /\ Safe(u) /\ Concluded(u)
      /\ Resting(s, t) => Resting(s, u)
  BY <1>1, <1>2, AlikeRests, OpenIsSafe DEF Alike, Walking
<1> QED BY <1>2, <1>3, <1>4, RaiseRests, SkipAndFinalizeRests

LEMMA StuckRests ==
  ASSUME Flags, NEW s \in States, NEW t, Walking(t), Resting(s, t),
         t.pending = "none", t.preflight = "none", Stuck(s, t)
  PROVE  IInv'
<1> DEFINE u == [t EXCEPT !.escape = TRUE]
<1>1. t \in Turn /\ Safe(t) /\ Concluded(t)
  BY OpenIsSafe DEF Walking
<1>2. Alike(t, u)
  BY <1>1 DEF Alike, Turn
<1>3. \/ SkipAndFinalize(s, t, "stuck")
      \/ Lost(s, t)
      \/ Become(s, t)
      \/ LostSkipping(s, u)
      \/ RequestModel(s, SkipRemaining(u))
  BY DEF Stuck
<1> HIDE DEF u
<1>4. Walking(u) /\ u.pending = "none" /\ u.preflight = "none"
  BY <1>1, <1>2, AlikeRests DEF Alike
<1>5. /\ Walking(SkipRemaining(u)) /\ AllPaired(SkipRemaining(u))
      /\ SkipRemaining(u).pending = "none" /\ SkipRemaining(u).preflight = "none"
  BY <1>4, SkipRemainingWalks
<1>6. "stuck" \in Outcomes
  BY DEF Outcomes
<1> QED
  BY <1>1, <1>3, <1>4, <1>5, <1>6, SkipAndFinalizeRests, LostRests, BecomeRests,
     ResultsSkippedLost, RequestModelRests

LEMMA InjectSteerRests ==
  ASSUME Flags, NEW s \in States, NEW t, Walking(t),
         Resting(s, t) \/ Edge(s, "DispatchingTools"), InjectSteer(s, t)
  PROVE  IInv'
<1> DEFINE u == SkipRemaining(t)
           v == [u EXCEPT !.steer = FALSE, !.pending = "none"]
<1>1. t \in Turn /\ Safe(t) /\ Concluded(t)
  BY OpenIsSafe DEF Walking
<1>2. Walking(u) /\ AllPaired(u)
  BY SkipRemainingWalks
<1>3. \/ Raise(s, t) /\ ~Edge(s, "DispatchingTools")
      \/ LostSkipping(s, t)
      \/ RequestModel("Preparing", v)
  BY DEF InjectSteer, MayBe
<1> HIDE DEF u
<1>4. /\ v \in Turn /\ Open(v) /\ v.pending = "none" /\ v.preflight = u.preflight
      /\ v.last = u.last /\ v.calls = u.calls /\ v.count = u.count
      /\ v.cursor = u.cursor
  BY <1>2 DEF Walking, Turn, Open, PendingKinds
<1> HIDE DEF v
<1>5. Walking(v) /\ AllPaired(v)
  BY <1>2, <1>4 DEF Walking, Prefix, Concluded, AllPaired
<1> QED
  BY <1>1, <1>3, <1>4, <1>5, RaiseRests, ResultsSkippedLost, RequestModelRests
     DEF States

-----------------------------------------------------------------------------
(* Tools.                                                                  *)

\* The call at the cursor may run.
Runnable(s, t) ==
  /\ s \in States
  /\ Walking(t) /\ Resting(s, t) /\ Owing(t)
  /\ t.calls[t.cursor].gates = {}
  /\ t.pending = "none" /\ t.preflight = "none"

LEMMA StartToolRests ==
  ASSUME Flags, NEW s, NEW t, Runnable(s, t), StartTool(s, t)
  PROVE  IInv'
<1> DEFINE u == [t EXCEPT !.late = TRUE]
<1>1. /\ t \in Turn /\ Safe(t) /\ Concluded(t) /\ s \in States
      /\ Walking(t) /\ Resting(s, t)
  BY OpenIsSafe DEF Runnable, Walking
<1>2. CASE FinishCancelled(s, t)
  BY <1>1, <1>2, FinishCancelledRests
<1>3. CASE FinishCancelled(s, u)
  <2>1. Alike(t, u)
    BY <1>1 DEF Alike, Turn
  <2> HIDE DEF u
  <2> QED BY <1>1, <1>3, <2>1, AlikeRests, FinishCancelledRests
<1>4. CASE Raise(s, t)
  BY <1>1, <1>4, RaiseRests
<1>5. CASE Lost("ExecutingTool", t)
  BY <1>1, <1>5, LostRests DEF States
<1>6. ASSUME NEW r \in RealResults \cup {"none"},
             Become("ExecutingTool", [t EXCEPT !.tool = t.cursor, !.returned = r])
      PROVE  IInv'
  <2> DEFINE w == [t EXCEPT !.tool = t.cursor, !.returned = r]
  <2>1. t.cursor \in 1..MaxCalls
    BY <1>1, AgentLoopAssumption DEF Runnable, Owing, Turn
  <2>2. /\ w \in Turn /\ ~w.request /\ w.review = "none" /\ w.tool = t.cursor
        /\ w.returned = r /\ w.pending = "none" /\ w.preflight = "none"
        /\ w.last = t.last /\ w.calls = t.calls /\ w.count = t.count
        /\ w.cursor = t.cursor
    <3>1. w \in Turn
      <4>1. t \in Turn /\ t.cursor \in 0..MaxCalls /\ r \in RealResults \cup {"none"}
        BY <1>1, <1>6, <2>1, AgentLoopAssumption
      <4> QED BY <4>1 DEF Turn
    <3>2. Open(t) /\ t.pending = "none" /\ t.preflight = "none"
      BY DEF Runnable, Walking
    <3> QED BY <1>1, <3>1, <3>2 DEF Turn, Open
  <2>3. Become("ExecutingTool", w)
    BY <1>6
  <2> HIDE DEF w
  <2>4. Prefix(w) /\ Concluded(w) /\ Owing(w)
    BY <1>1, <2>2 DEF Runnable, Walking, Prefix, Concluded, Owing
  <2>5. w.calls[w.cursor].result = "none" /\ w.calls[w.cursor].gates = {}
    BY <1>1, <2>1, <2>2, <2>4, AgentLoopAssumption DEF Runnable, Prefix, Owing, Turn
  <2>6. Safe(w)
    BY <2>1, <2>2, <2>5 DEF Safe
  <2>7. Resting("ExecutingTool", w)
    <3>1. ToolRests(w) /\ w.tool # 0
      BY <2>1, <2>2, <2>4, <2>5 DEF ToolRests
    <3>2. StateRests("ExecutingTool", w)
      BY <2>2, <3>1 DEF StateRests
    <3> QED
      BY <2>2, <2>4, <3>1, <3>2
         DEF Resting, RequestRests, ReviewRests, PreflightRests, PendingRests
  <2> QED BY <2>2, <2>3, <2>4, <2>6, <2>7, BecomeRests DEF States
<1> QED
  BY <1>2, <1>3, <1>4, <1>5, <1>6 DEF StartTool

-----------------------------------------------------------------------------
(* Dispatch and results.                                                   *)

LEMMA AwaitWalks ==
  ASSUME NEW t, Walking(t), Owing(t), NEW g \in SUBSET Gates
  PROVE  /\ Walking(Await(t, g)) /\ Owing(Await(t, g))
         /\ Await(t, g).calls[Await(t, g).cursor].gates = g
         /\ Await(t, g).pending = t.pending
         /\ Await(t, g).preflight = t.preflight
         /\ Await(t, g).count = t.count
         /\ Await(t, g).cursor = t.cursor
<1> DEFINE u == Await(t, g)
           d == [t.calls[t.cursor] EXCEPT !.gates = g]
           c == [t.calls EXCEPT ![t.cursor] = d]
<1>1. t \in Turn /\ t.cursor \in 1..MaxCalls /\ t.count \in 0..MaxCalls
      /\ t.calls \in [1..MaxCalls -> Call] /\ t.cursor \in 1..(MaxCalls + 1)
  BY AgentLoopAssumption DEF Walking, Turn, Owing
<1>2. d \in Call /\ d.result = t.calls[t.cursor].result /\ d.gates = g
  BY <1>1 DEF Call
<1>3. c \in [1..MaxCalls -> Call]
  BY <1>1, <1>2
<1>4. u = Advance(t, c, t.cursor)
  BY DEF Await
<1>5. \A k \in 1..MaxCalls : c[k] = IF k = t.cursor THEN d ELSE t.calls[k]
  BY <1>1
<1> HIDE DEF c, d, u
<1>6. /\ u \in Turn
      /\ u.calls = c /\ u.cursor = t.cursor /\ u.count = t.count
      /\ u.last = t.last /\ u.pending = t.pending /\ u.preflight = t.preflight
      /\ Open(u)
  BY <1>1, <1>3, <1>4, Advanced DEF Walking
<1>7. Prefix(u)
  <2>1. ASSUME NEW k \in 1..t.count
        PROVE  c[k].result = "none" <=> k >= t.cursor
    <3>1. k \in 1..MaxCalls /\ (t.calls[k].result = "none" <=> k >= t.cursor)
      BY <1>1, AgentLoopAssumption DEF Walking, Prefix
    <3> QED BY <1>2, <1>5, <3>1
  <2> QED BY <1>6, <2>1 DEF Prefix, Walking
<1> QED
  BY <1>1, <1>2, <1>5, <1>6, <1>7 DEF Walking, Concluded, Owing, u

LEMMA DispatchingRests ==
  ASSUME NEW t, Walking(t), t.pending = "none", t.preflight = "none",
         NEW s \in {"DispatchingTools", "AwaitingApproval", "EvaluatingAction"}
  PROVE  Resting(s, t)
BY DEF Walking, Resting, RequestRests, ReviewRests, ToolRests, PreflightRests,
       PendingRests, StateRests, Open

\* The same turn with another pending decision.
LEMMA Pended ==
  ASSUME NEW t, Walking(t), NEW p \in PendingKinds
  PROVE  /\ Walking(Pend(t, p)) /\ Pend(t, p) \in Turn /\ Open(Pend(t, p))
         /\ Pend(t, p).pending = p
         /\ Pend(t, p).preflight = t.preflight
         /\ Pend(t, p).calls = t.calls
         /\ Pend(t, p).count = t.count
         /\ Pend(t, p).cursor = t.cursor
<1> DEFINE u == Pend(t, p)
<1>1. /\ u \in Turn /\ u.pending = p /\ u.preflight = t.preflight
      /\ u.calls = t.calls /\ u.count = t.count /\ u.cursor = t.cursor
      /\ u.last = t.last /\ Open(u)
  BY DEF Pend, Walking, Turn, Open
<1> HIDE DEF u
<1>2. Walking(u)
  BY <1>1 DEF Walking, Prefix, Concluded
<1> QED BY <1>1, <1>2 DEF u

LEMMA DispatchNextRests ==
  ASSUME Flags, NEW t, Walking(t), Owing(t), t.pending = "none",
         t.preflight = "none", DispatchNext(t)
  PROVE  IInv'
<1> DEFINE s == "DispatchingTools"
           late == [t EXCEPT !.late = TRUE]
           failed == PairNext(t, "error")
           confirm == Pend(Await(t, {"approval"}), "approval")
           review(after) == Pend(Await(t, {"review"} \cup after), "action-review")
<1>1. /\ t \in Turn /\ Safe(t) /\ Concluded(t) /\ s \in States
      /\ Resting(s, t) /\ {"error", "budget_exhausted"} \subseteq Outcomes
  BY OpenIsSafe, DispatchingRests DEF Walking, States, Outcomes
<1>2. "error" \in Results \ {"none"} /\ "skipped" \in Results \ {"none"}
  BY DEF Results, RealResults
<1>3. Walking(failed) /\ failed.pending = "none" /\ failed.preflight = "none"
      /\ Resting(s, failed)
  BY <1>2, PairNextWalks, DispatchingRests
<1>4. CASE FinishCancelled(s, t)
  BY <1>1, <1>4, FinishCancelledRests
<1>5. CASE SkipAndFinalize(s, late, "budget_exhausted")
  <2>1. Alike(t, late)
    BY <1>1 DEF Alike, Turn
  <2> HIDE DEF late
  <2> QED BY <1>1, <1>5, <2>1, AlikeRests, SkipAndFinalizeRests
<1>6. CASE Lost(s, t)
  BY <1>1, <1>6, LostRests
<1>7. CASE Stuck(s, failed) \/ AbandonBatch(s, failed) \/ SkipAndFinalize(s, failed, "error")
  BY <1>1, <1>3, <1>7, StuckRests, AbandonBatchRests, SkipAndFinalizeRests
<1>8. CASE AbandonBatch(s, PairNext(t, "skipped"))
  BY <1>1, <1>2, <1>8, PairNextWalks, AbandonBatchRests
<1>9. CASE Become("AwaitingApproval", confirm)
  <2> DEFINE u == Await(t, {"approval"})
  <2>1. /\ Walking(u) /\ Owing(u) /\ u.calls[u.cursor].gates = {"approval"}
        /\ u.preflight = "none"
    BY AwaitWalks DEF Gates
  <2>2. confirm = Pend(u, "approval")
    OBVIOUS
  <2> HIDE DEF u
  <2>3. /\ Walking(confirm) /\ confirm \in Turn /\ Open(confirm)
        /\ confirm.pending = "approval" /\ confirm.preflight = "none"
        /\ Owing(confirm) /\ confirm.calls[confirm.cursor].gates = {"approval"}
    BY <2>1, <2>2, Pended DEF PendingKinds, Owing
  <2> HIDE DEF confirm
  <2>4. Resting("AwaitingApproval", confirm) /\ Safe(confirm) /\ Concluded(confirm)
    BY <2>3, OpenIsSafe
       DEF Walking, Resting, RequestRests, ReviewRests, ToolRests, PreflightRests,
           PendingRests, StateRests, Open
  <2> QED BY <1>9, <2>3, <2>4, BecomeRests DEF States
<1>10. ASSUME NEW after \in {{}, {"approval"}},
              BeginReview("EvaluatingAction", review(after), "action")
       PROVE  IInv'
  <2> DEFINE g == {"review"} \cup after
             u == Await(t, g)
             v == Pend(u, "action-review")
  <2>1. g \in SUBSET Gates /\ g \in {{"review"}, {"review", "approval"}}
    BY DEF Gates
  <2> HIDE DEF g
  <2>2. /\ Walking(u) /\ Owing(u) /\ u.calls[u.cursor].gates = g
        /\ u.preflight = "none"
    BY <2>1, AwaitWalks
  <2> HIDE DEF u
  <2>3. /\ Walking(v) /\ v \in Turn /\ Open(v)
        /\ v.pending = "action-review" /\ v.preflight = "none"
        /\ Owing(v) /\ v.calls[v.cursor].gates = g
    BY <2>2, Pended DEF PendingKinds, Owing
  <2>4. BeginReview("EvaluatingAction", v, "action")
    BY <1>10 DEF u, g
  <2> HIDE DEF v
  <2>5. Resting("EvaluatingAction", v)
    BY <2>1, <2>3
       DEF Walking, Resting, RequestRests, ReviewRests, ToolRests, PreflightRests,
           PendingRests, StateRests, Open
  <2>6. Reviewable("EvaluatingAction", v, "action")
    BY <2>3, <2>5 DEF Reviewable, States
  <2> QED BY <2>4, <2>6, BeginReviewRests
<1>11. CASE StartTool(s, Await(t, {}))
  <2>1. Runnable(s, Await(t, {}))
    BY <1>1, AwaitWalks, DispatchingRests DEF Runnable
  <2> QED BY <1>11, <2>1, StartToolRests
<1> QED
  <2> HIDE DEF late, failed, confirm, review
  <2> QED
    BY <1>4, <1>5, <1>6, <1>7, <1>8, <1>9, <1>10, <1>11
       DEF DispatchNext, late, failed, confirm, review

\* A turn whose tool is out.
Running(t) ==
  /\ t \in Turn
  /\ Prefix(t) /\ Safe(t) /\ Concluded(t) /\ Owing(t)
  /\ t.tool = t.cursor
  /\ ~t.request /\ t.review = "none" /\ t.returned = "none"
  /\ t.pending = "none" /\ t.preflight = "none"

LEMMA AcceptResultRests ==
  ASSUME Flags, NEW t, Running(t), NEW r \in RealResults, AcceptResult(t, r)
  PROVE  IInv'
<1> DEFINE s == "ExecutingTool"
           more == IF t.cursor < t.count THEN "DispatchingTools" ELSE s
<1>1. CASE Lost(s, t)
  BY <1>1, LostRests DEF Running, States
<1>2. ASSUME NEW escape \in {FALSE, t.escape},
             LET p == PairNext([t EXCEPT !.tool = 0, !.escape = escape], r)
             IN \/ r = "unknown" /\ SkipAndFinalize(more, p, UnknownOutcome(t.calls[t.cursor]))
                \/ FinishCancelled(s, p)
                \/ InjectSteer(s, p)
                \/ Stuck(more, p)
                \/ AbandonBatch(more, p)
                \/ AllPaired(p) /\ CompleteBatch(s, p)
                \/ ~AllPaired(p) /\ DispatchNext(p)
      PROVE  IInv'
  <2> DEFINE u == [t EXCEPT !.tool = 0, !.escape = escape]
             p == PairNext(u, r)
  <2>1. escape \in BOOLEAN /\ 0 \in 0..MaxCalls /\ t \in Turn
    <3>1. t \in Turn /\ t.escape \in BOOLEAN
      BY DEF Running, Turn
    <3>2. escape \in BOOLEAN
      BY <3>1, Zenon
    <3>3. 0 \in 0..MaxCalls
      BY AgentLoopAssumption
    <3> QED BY <3>1, <3>2, <3>3
  <2>2. /\ u \in Turn /\ Open(u) /\ u.pending = "none" /\ u.preflight = "none"
        /\ u.last = t.last /\ u.calls = t.calls /\ u.count = t.count
        /\ u.cursor = t.cursor
    <3>1. u \in Turn
      BY <2>1 DEF Turn
    <3> QED BY <2>1, <3>1 DEF Running, Turn, Open
  <2>3. \/ r = "unknown" /\ SkipAndFinalize(more, p, UnknownOutcome(t.calls[t.cursor]))
        \/ FinishCancelled(s, p)
        \/ InjectSteer(s, p)
        \/ Stuck(more, p)
        \/ AbandonBatch(more, p)
        \/ AllPaired(p) /\ CompleteBatch(s, p)
        \/ ~AllPaired(p) /\ DispatchNext(p)
    BY <1>2
  <2> HIDE DEF u
  <2>4. Walking(u) /\ Owing(u)
    BY <2>2 DEF Running, Walking, Prefix, Concluded, Owing
  <2>5. /\ Walking(p) /\ p.pending = "none" /\ p.preflight = "none"
        /\ p.count = t.count /\ p.cursor = t.cursor + 1
    BY <2>2, <2>4, PairNextWalks DEF Results, RealResults
  <2> HIDE DEF p
  <2>6. more \in States /\ s \in States /\ Edge(s, "DispatchingTools")
        /\ UnknownOutcome(t.calls[t.cursor]) \in Outcomes
    BY DEF States, Edge, NextStates, UnknownOutcome, Outcomes
  <2>7. Resting(more, p)
    <3>1. CASE t.cursor < t.count
      BY <2>5, <3>1, DispatchingRests
    <3>2. CASE ~(t.cursor < t.count)
      <4>1. AllPaired(p) /\ more = "ExecutingTool"
        BY <2>1, <2>5, <3>2 DEF AllPaired, Turn
      <4> QED BY <2>5, <4>1, PairedRests
    <3> QED BY <3>1, <3>2
  <2>8. ~AllPaired(p) => Owing(p)
    BY <2>5 DEF Walking, Turn, AllPaired, Owing
  <2> HIDE DEF more
  <2> QED
    BY <2>3, <2>5, <2>6, <2>7, <2>8, SkipAndFinalizeRests, FinishCancelledRests,
       InjectSteerRests, StuckRests, AbandonBatchRests, CompleteBatchRests,
       DispatchNextRests
<1> QED
  <2> HIDE DEF more
  <2> QED BY <1>1, <1>2 DEF AcceptResult, more

-----------------------------------------------------------------------------
(* The actions preserve the invariant.                                     *)

\* What IInv says of a loop that takes calls.
LEMMA Restful ==
  ASSUME IInv, ~halted
  PROVE  /\ main \in Turn /\ state \in States
         /\ Safe(main) /\ Concluded(main) /\ Resting(state, main)
         /\ Prefix(main)
         /\ Open(main) => Walking(main)
BY DEF IInv, TypeOK, Resting, PreflightRests, Walking

LEMMA FlagsHold ==
  ASSUME IInv, closing' \in BOOLEAN \/ UNCHANGED closing
  PROVE  Flags
BY DEF IInv, TypeOK, Flags

LEMMA StartMainRests == ASSUME IInv, StartMain PROVE IInv'
<1> DEFINE next == FreshTurn(main.serial + 1, main.last)
<1>1. /\ Flags /\ main \in Turn /\ Safe(main) /\ Concluded(main)
      /\ Lost("Idle", main) \/ RequestModel("Preparing", next)
      /\ main.serial < MaxTurns
  BY FlagsHold, Restful DEF StartMain, Live
<1>2. CASE Lost("Idle", main)
  BY <1>1, <1>2, LostRests DEF States
<1>3. CASE RequestModel("Preparing", next)
  <2>1. main.serial + 1 \in 0..MaxTurns /\ main.last \in Ended
        /\ (main.last.cut \/ main.last.settled)
    BY <1>1, AgentLoopAssumption DEF Turn, Concluded
  <2>2. next \in Turn /\ Concluded(next) /\ Resting("Preparing", next)
    BY <2>1, FreshTurnRests
  <2>3. Open(next) /\ AllPaired(next) /\ next.pending = "none" /\ next.preflight = "none"
    BY DEF FreshTurn, Open, AllPaired
  <2> HIDE DEF next
  <2>4. Walking(next)
    BY <2>2, <2>3 DEF Walking, Resting
  <2> QED BY <1>1, <1>3, <2>3, <2>4, RequestModelRests DEF States
<1> QED BY <1>1, <1>2, <1>3

LEMMA TimeExpiresRests == ASSUME IInv, TimeExpires PROVE IInv'
<1> DEFINE u == [main EXCEPT !.late = TRUE]
<1>1. /\ Flags /\ main \in Turn /\ Safe(main) /\ Concluded(main)
      /\ Resting(state, main) /\ Become(state, u) /\ state \in States
  BY FlagsHold, Restful DEF TimeExpires
<1>2. Alike(main, u)
  BY <1>1 DEF Alike, Turn
<1> HIDE DEF u
<1> QED BY <1>1, <1>2, AlikeRests, BecomeRests DEF Alike

LEMMA ModelEventRests == ASSUME IInv, ModelEvent PROVE IInv'
<1>1. /\ Flags /\ main \in Turn /\ Safe(main) /\ Concluded(main)
      /\ Resting(state, main) /\ Become("Streaming", main)
      /\ main.request /\ state = "RequestingModel"
  BY FlagsHold, Restful DEF ModelEvent, Live
<1>2. Resting("Streaming", main)
  BY <1>1 DEF Resting, StateRests, RequestRests
<1> QED BY <1>1, <1>2, BecomeRests DEF States

LEMMA ReplyRests == ASSUME IInv, Reply PROVE IInv'
<1> DEFINE u == Pend(main, "none")
<1>1. /\ Flags /\ main \in Turn /\ Safe(main) /\ Concluded(main)
      /\ state \in States /\ Resting(state, main) /\ state = "WaitingUser"
      /\ main.pending \in {"ask-user", "termination-review"}
      /\ Lost(state, main) \/ RequestModel(state, u)
  BY FlagsHold, Restful DEF Reply, Live
<1>2. Walking(main) /\ AllPaired(main) /\ main.preflight = "none"
  BY <1>1, Restful DEF Reply, Live, Resting, StateRests, PendingRests
<1>3. /\ Walking(u) /\ AllPaired(u) /\ u.pending = "none" /\ u.preflight = "none"
  BY <1>2, Pended DEF PendingKinds, AllPaired
<1> HIDE DEF u
<1> QED BY <1>1, <1>3, LostRests, RequestModelRests

LEMMA ResolveYieldRests == ASSUME IInv, ResolveYield PROVE IInv'
<1>1. /\ Flags /\ main \in Turn /\ Safe(main) /\ Concluded(main)
      /\ Resting(state, main) /\ main.pending = "model-yield"
      /\ Finalize(main, "partial") \/ StartNext(main, "partial")
  BY FlagsHold, Restful DEF ResolveYield, Live
<1>2. Ending(main)
  BY <1>1 DEF Resting, PendingRests, Ending
<1> QED BY <1>1, <1>2, FinalizeRests, StartNextRests DEF Outcomes

LEMMA ResolvePreflightRests == ASSUME IInv, ResolvePreflight PROVE IInv'
<1> DEFINE t == [main EXCEPT !.preflight = "none"]
           kind == IF main.preflight # "main" /\ HoldsCall(main.pending)
                   THEN "blocked-action" ELSE "compaction-preflight"
           w == [t EXCEPT !.pending = kind]
<1>1. /\ Flags /\ main \in Turn /\ state \in States /\ Resting(state, main)
      /\ Walking(main) /\ main.preflight # "none"
  BY FlagsHold, Restful DEF ResolvePreflight, Live, Resting, PreflightRests
<1>2. /\ t \in Turn /\ Open(t) /\ t.preflight = "none" /\ t.pending = main.pending
      /\ t.last = main.last /\ t.calls = main.calls /\ t.count = main.count
      /\ t.cursor = main.cursor
  BY <1>1 DEF Walking, Turn, Open
<1>3. \/ main.preflight = "main" /\ StartModel(state, t)
      \/ main.preflight # "main" /\ StartReview(state, t, main.preflight)
      \/ Raise(state, t)
      \/ Become("WaitingUser", w)
  BY DEF ResolvePreflight
<1> HIDE DEF t
<1>4. Walking(t) /\ Safe(t) /\ Concluded(t) /\ (AllPaired(main) <=> AllPaired(t))
      /\ (Owing(main) <=> Owing(t))
  BY <1>1, <1>2, OpenIsSafe DEF Walking, Prefix, Concluded, AllPaired, Owing
<1>5. Resting(state, t)
  BY <1>1, <1>2, <1>4
     DEF Walking, Resting, RequestRests, ReviewRests, ToolRests, PreflightRests,
         PendingRests, StateRests, Open
<1>6. CASE main.preflight = "main" /\ StartModel(state, t)
  <2>1. AllPaired(t) /\ t.pending = "none"
    BY <1>1, <1>2, <1>4, <1>6 DEF Resting, PreflightRests
  <2> QED BY <1>1, <1>2, <1>4, <1>6, <2>1, StartModelRests
<1>7. CASE main.preflight # "main" /\ StartReview(state, t, main.preflight)
  <2>1. main.preflight \in {"action", "termination"}
    BY <1>1, <1>7 DEF Turn
  <2>2. state # "WaitingUser" /\ main.pending # "approval"
    BY <1>1 DEF Resting, StateRests, PendingRests
  <2>3. main.pending = "none" \/ main.preflight = "termination" => AllPaired(main)
    BY <1>1, <2>1 DEF Resting, PreflightRests
  <2>4. Reviewable(state, t, main.preflight)
    BY <1>1, <1>2, <1>4, <1>5, <2>1, <2>2, <2>3 DEF Reviewable
  <2> QED BY <1>1, <1>7, <2>4, StartReviewRests
<1>8. CASE Raise(state, t)
  BY <1>1, <1>2, <1>4, <1>5, <1>8, RaiseRests
<1>9. CASE Become("WaitingUser", w)
  <2>1. kind \in {"blocked-action", "compaction-preflight"} /\ kind \in PendingKinds
    BY DEF PendingKinds
  <2>2. kind = "compaction-preflight" => AllPaired(main)
    <3>1. CASE main.preflight = "main"
      BY <1>1, <3>1 DEF Resting, PreflightRests
    <3>2. CASE main.preflight # "main" /\ ~HoldsCall(main.pending)
      <4>1. main.preflight \in {"action", "termination"} /\ main.pending \in PendingKinds
        BY <1>1, <3>2 DEF Turn
      <4> QED BY <1>1, <3>2, <4>1
              DEF Resting, PreflightRests, PendingRests, HoldsCall, PendingKinds
    <3>3. CASE main.preflight # "main" /\ HoldsCall(main.pending)
      BY <3>3
    <3> QED BY <3>1, <3>2, <3>3
  <2> HIDE DEF kind
  <2>3. w = Pend(t, kind)
    BY DEF Pend
  <2> HIDE DEF w
  <2>4. /\ Walking(w) /\ w \in Turn /\ Open(w) /\ w.pending = kind
        /\ w.preflight = "none" /\ (AllPaired(w) <=> AllPaired(main))
    BY <1>2, <1>4, <2>1, <2>3, Pended DEF AllPaired
  <2>5. Resting("WaitingUser", w) /\ Safe(w) /\ Concluded(w)
    BY <2>1, <2>2, <2>4, OpenIsSafe
       DEF Walking, Resting, RequestRests, ReviewRests, ToolRests, PreflightRests,
           PendingRests, StateRests, Open
  <2> QED BY <1>1, <1>9, <2>4, <2>5, BecomeRests DEF States
<1> QED BY <1>3, <1>6, <1>7, <1>8, <1>9

LEMMA ToolIsRunning ==
  ASSUME NEW s, NEW t \in Turn, Resting(s, t), Safe(t), Concluded(t),
         t.tool # 0, t.returned = "none"
  PROVE  Running(t)
BY DEF Resting, RequestRests, ReviewRests, ToolRests, Running

LEMMA ToolResultRests == ASSUME IInv, ToolResult PROVE IInv'
<1>1. Flags /\ Running(main)
  BY FlagsHold, Restful, ToolIsRunning DEF ToolResult, Live
<1> QED BY <1>1, AcceptResultRests DEF ToolResult

LEMMA AcceptReturnedRests == ASSUME IInv, AcceptReturned PROVE IInv'
<1> DEFINE t == [main EXCEPT !.returned = "none"]
<1>1. /\ Flags /\ main \in Turn /\ Resting(state, main) /\ Safe(main)
      /\ Concluded(main) /\ main.returned \in RealResults
      /\ AcceptResult(t, main.returned)
  BY FlagsHold, Restful DEF AcceptReturned, Turn
<1>2. main.tool # 0
  BY <1>1 DEF Resting, AcceptReturned
<1>3. /\ t \in Turn /\ t.request = main.request /\ t.review = main.review
      /\ t.tool = main.tool /\ t.returned = "none" /\ t.pending = main.pending
      /\ t.preflight = main.preflight /\ t.last = main.last
      /\ t.calls = main.calls /\ t.count = main.count /\ t.cursor = main.cursor
  BY <1>1 DEF Turn
<1> HIDE DEF t
<1>4. Safe(t) /\ Concluded(t)
  BY <1>1, <1>3 DEF Safe, Concluded, Settled
<1>5. Running(t)
  BY <1>1, <1>2, <1>3, <1>4
     DEF Resting, Prefix, RequestRests, ReviewRests, ToolRests, Running, Owing
<1> QED BY <1>1, <1>5, AcceptResultRests

LEMMA ApprovalRests == ASSUME IInv, Approval PROVE IInv'
<1> DEFINE t == Pend(main, "none")
           u == Await(t, t.calls[t.cursor].gates \ {"approval"})
<1>1. /\ Flags /\ main \in Turn /\ Safe(main) /\ Concluded(main)
      /\ state \in States /\ Resting(state, main) /\ main.pending = "approval"
      /\ \/ Lost(state, main)
         \/ Become("WaitingUser", main)
         \/ AbandonBatch("DispatchingTools", PairNext(t, "skipped"))
         \/ StartTool("AwaitingApproval", u)
  BY FlagsHold, Restful DEF Approval, Live
<1>2. /\ Walking(main) /\ Open(main) /\ main.preflight = "none" /\ Owing(main)
      /\ main.calls[main.cursor].gates = {"approval"}
  BY <1>1, Restful DEF Approval, Live, Resting, PendingRests
<1>3. /\ Walking(t) /\ Owing(t) /\ t.pending = "none" /\ t.preflight = "none"
      /\ t.calls[t.cursor].gates = {"approval"}
  BY <1>2, Pended DEF PendingKinds, Owing
<1> HIDE DEF t
<1>4. Resting("WaitingUser", main)
  BY <1>1, <1>2 DEF Resting, StateRests, Open
<1>5. CASE AbandonBatch("DispatchingTools", PairNext(t, "skipped"))
  BY <1>1, <1>3, <1>5, PairNextWalks, AbandonBatchRests DEF States, Results
<1>6. CASE StartTool("AwaitingApproval", u)
  <2>1. t.calls[t.cursor].gates \ {"approval"} = {} /\ {} \in SUBSET Gates
    BY <1>3
  <2>2. Runnable("AwaitingApproval", u)
    BY <1>3, <2>1, AwaitWalks, DispatchingRests DEF Runnable, States
  <2> QED BY <1>1, <1>6, <2>2, StartToolRests
<1> QED BY <1>1, <1>4, <1>5, <1>6, LostRests, BecomeRests DEF States

\* A turn whose request or review is forgotten.
LEMMA ForgetRests ==
  ASSUME NEW s, NEW t \in Turn, NEW u, Resting(s, t), Concluded(t),
         t.tool = 0, t.returned = "none",
         u \in Turn, Open(u), u.pending = t.pending, u.preflight = t.preflight,
         u.last = t.last, u.calls = t.calls, u.count = t.count, u.cursor = t.cursor
  PROVE  Walking(u) /\ Resting(s, u)
<1>1. (AllPaired(t) <=> AllPaired(u)) /\ (Owing(t) <=> Owing(u))
  BY DEF AllPaired, Owing
<1>2. Walking(u)
  BY DEF Walking, Resting, Prefix, Concluded, PreflightRests
<1> QED
  BY <1>1, <1>2
     DEF Walking, Resting, RequestRests, ReviewRests, ToolRests, PreflightRests,
         PendingRests, StateRests, Open

LEMMA ActionReviewRests == ASSUME IInv, ActionReview PROVE IInv'
<1> DEFINE t == [main EXCEPT !.review = "none"]
           a == Await(t, t.calls[t.cursor].gates \ {"review"})
           u == Pend(a, "none")
           w == Pend(u, "approval")
           s == "EvaluatingAction"
<1>1. /\ Flags /\ main \in Turn /\ Safe(main) /\ Concluded(main)
      /\ Resting(s, main) /\ main.preflight = "none" /\ state = s
      /\ main.pending = "action-review" /\ main.review = "action"
      /\ main.returned = "none"
      /\ s \in States /\ {"WaitingUser", "DispatchingTools", "AwaitingApproval"} \subseteq States
  BY FlagsHold, Restful DEF ActionReview, Live, States
<1>2. \/ Lost(s, main)
      \/ FinishCancelled(s, t)
      \/ InjectSteer(s, t)
      \/ Become("WaitingUser", t)
      \/ AbandonBatch("DispatchingTools", PairNext(u, "skipped"))
      \/ NeedsApproval(u.calls[u.cursor]) /\ Become("AwaitingApproval", w)
      \/ ~NeedsApproval(u.calls[u.cursor]) /\ StartTool(s, u)
  BY <1>1 DEF ActionReview
<1>3. /\ t \in Turn /\ Open(t) /\ t.pending = "action-review" /\ t.preflight = "none"
      /\ t.last = main.last /\ t.calls = main.calls /\ t.count = main.count
      /\ t.cursor = main.cursor
  <2>1. main.tool = 0 /\ ~main.request
    BY <1>1 DEF Resting, RequestRests, ReviewRests
  <2> QED BY <1>1, <2>1 DEF Turn, Reviewed, Open
<1> HIDE DEF t
<1>4. /\ Walking(t) /\ Resting(s, t) /\ Safe(t) /\ Concluded(t) /\ Owing(t)
      /\ t.calls[t.cursor].gates \in {{"review"}, {"review", "approval"}}
  <2>1. main.tool = 0
    BY <1>1 DEF Resting, ReviewRests
  <2>2. Walking(t) /\ Resting(s, t)
    BY <1>1, <1>3, <2>1, ForgetRests
  <2> QED BY <1>3, <2>2, OpenIsSafe DEF Walking, Resting, PendingRests
<1>5. Resting("WaitingUser", t)
  BY <1>3, <1>4 DEF Resting, StateRests, Open
<1> HIDE DEF s
<1>6. /\ Walking(a) /\ Owing(a) /\ a.preflight = "none"
      /\ a.calls[a.cursor].gates = t.calls[t.cursor].gates \ {"review"}
  <2>1. t.calls[t.cursor].gates \ {"review"} \in SUBSET Gates
    BY <1>4 DEF Gates
  <2> QED BY <1>3, <1>4, <2>1, AwaitWalks
<1>7. a.calls[a.cursor].gates \in {{}, {"approval"}}
  BY <1>4, <1>6
<1> HIDE DEF a
<1>8. /\ Walking(u) /\ Owing(u) /\ u.pending = "none" /\ u.preflight = "none"
      /\ u.calls[u.cursor].gates \in {{}, {"approval"}}
  BY <1>6, <1>7, Pended DEF PendingKinds, Owing
<1> HIDE DEF u
<1>9. CASE AbandonBatch("DispatchingTools", PairNext(u, "skipped"))
  BY <1>1, <1>8, <1>9, PairNextWalks, AbandonBatchRests DEF Results
<1>10. CASE NeedsApproval(u.calls[u.cursor]) /\ Become("AwaitingApproval", w)
  <2>1. u.calls[u.cursor].gates = {"approval"}
    BY <1>8, <1>10 DEF NeedsApproval
  <2>2. /\ Walking(w) /\ w \in Turn /\ Open(w) /\ w.pending = "approval"
        /\ w.preflight = "none" /\ Owing(w)
        /\ w.calls[w.cursor].gates = {"approval"}
    BY <1>8, <2>1, Pended DEF PendingKinds, Owing
  <2> HIDE DEF w
  <2>3. Resting("AwaitingApproval", w) /\ Safe(w) /\ Concluded(w)
    BY <2>2, OpenIsSafe
       DEF Walking, Resting, RequestRests, ReviewRests, ToolRests, PreflightRests,
           PendingRests, StateRests, Open
  <2> QED BY <1>1, <1>10, <2>2, <2>3, BecomeRests
<1>11. CASE ~NeedsApproval(u.calls[u.cursor]) /\ StartTool(s, u)
  <2>1. u.calls[u.cursor].gates = {}
    BY <1>8, <1>11 DEF NeedsApproval
  <2>2. Runnable(s, u)
    BY <1>1, <1>8, <2>1, DispatchingRests DEF Runnable, s
  <2> QED BY <1>1, <1>11, <2>2, StartToolRests
<1> QED
  BY <1>1, <1>2, <1>3, <1>4, <1>5, <1>9, <1>10, <1>11, LostRests, FinishCancelledRests,
     InjectSteerRests, BecomeRests

LEMMA TerminationReviewRests == ASSUME IInv, TerminationReview PROVE IInv'
<1> DEFINE s == "EvaluatingTermination"
           t == [main EXCEPT !.review = "none", !.pending = "none"]
           pass == [t EXCEPT !.checked = TRUE]
           gap == [t EXCEPT !.checked = TRUE, !.gap = TRUE]
           w == Pend(t, "termination-review")
<1>1. /\ Flags /\ main \in Turn /\ Safe(main) /\ Concluded(main)
      /\ Resting(s, main) /\ main.preflight = "none" /\ state = s
      /\ main.review = "termination" /\ main.returned = "none"
      /\ s \in States /\ "WaitingUser" \in States
  BY FlagsHold, Restful DEF TerminationReview, Live, States
<1>2. \/ Lost(s, main)
      \/ FinishCancelled(s, t)
      \/ InjectSteer(s, t)
      \/ Complete(pass)
      \/ RequestModel(s, gap)
      \/ Become("WaitingUser", w)
  BY <1>1 DEF TerminationReview
<1>3. AllPaired(main) /\ main.tool = 0 /\ ~main.request /\ Prefix(main)
  BY <1>1 DEF Resting, RequestRests, ReviewRests
<1>4. /\ t \in Turn /\ Open(t) /\ t.pending = "none" /\ t.preflight = "none"
      /\ t.last = main.last /\ t.calls = main.calls /\ t.count = main.count
      /\ t.cursor = main.cursor
  BY ZenonT(60), <1>1, <1>3 DEF Turn, Reviewed, PendingKinds, Open
<1>5. Alike(t, pass) /\ Alike(t, gap)
  BY <1>4 DEF Alike, Turn
<1> HIDE DEF t, pass, gap
<1>6. Walking(t) /\ AllPaired(t)
  BY <1>1, <1>3, <1>4 DEF Walking, Prefix, Concluded, AllPaired
<1>7. Resting(s, t)
  BY <1>4, <1>6, PairedRests
<1>8. CASE Complete(pass)
  BY <1>1, <1>4, <1>5, <1>6, <1>8, AlikeRests, WalkingIsEnding, CompleteRests
<1>9. CASE RequestModel(s, gap)
  <2>1. Walking(gap) /\ AllPaired(gap) /\ gap.pending = "none" /\ gap.preflight = "none"
    BY <1>4, <1>5, <1>6, AlikeRests DEF Alike
  <2> QED BY <1>1, <1>9, <2>1, RequestModelRests
<1>10. CASE Become("WaitingUser", w)
  <2>1. /\ Walking(w) /\ w \in Turn /\ Open(w) /\ w.pending = "termination-review"
        /\ w.preflight = "none" /\ AllPaired(w)
    BY <1>4, <1>6, Pended DEF PendingKinds, AllPaired
  <2> HIDE DEF w
  <2>2. Resting("WaitingUser", w) /\ Safe(w) /\ Concluded(w)
    BY <2>1, OpenIsSafe
       DEF Walking, Resting, RequestRests, ReviewRests, ToolRests, PreflightRests,
           PendingRests, StateRests, Open
  <2> QED BY <1>1, <1>10, <2>1, <2>2, BecomeRests
<1> QED
  BY <1>1, <1>2, <1>6, <1>7, <1>8, <1>9, <1>10, LostRests, FinishCancelledRests,
     InjectSteerRests

LEMMA SteerRests == ASSUME IInv, Steer PROVE IInv'
<1> DEFINE t == [main EXCEPT !.steer = TRUE, !.steers = main.steers + 1]
           u == Interrupted(t)
<1>1. /\ Flags /\ main \in Turn /\ Safe(main) /\ Concluded(main)
      /\ state \in States /\ Resting(state, main) /\ main.returned = "none"
      /\ main.steers < MaxSteers
  BY FlagsHold, Restful DEF Steer, Live
<1>2. Alike(main, t)
  <2>1. main.steers + 1 \in 0..MaxSteers
    BY <1>1, AgentLoopAssumption DEF Turn
  <2> QED BY <1>1, <2>1 DEF Alike, Turn
<1>3. \/ Lost(state, main)
      \/ ~(t.request \/ t.review # "none" \/ t.tool # 0) /\ InjectSteer(state, t)
      \/ Become(state, t)
      \/ main.tool # 0 /\ \E r \in RealResults : AcceptResult(t, r)
      \/ main.tool = 0 /\ InjectSteer(state, u)
  BY <1>2 DEF Steer, Active, Alike
<1> HIDE DEF t
<1>4. /\ t \in Turn /\ Safe(t) /\ Concluded(t) /\ Resting(state, t)
      /\ t.tool = main.tool /\ t.returned = "none"
  BY <1>1, <1>2, AlikeRests DEF Alike
<1>5. CASE ~(t.request \/ t.review # "none" \/ t.tool # 0) /\ InjectSteer(state, t)
  <2>1. Walking(t)
    BY <1>4, <1>5 DEF Open, Walking, Resting, PreflightRests
  <2> QED BY <1>1, <1>4, <1>5, <2>1, InjectSteerRests
<1>6. CASE main.tool # 0 /\ \E r \in RealResults : AcceptResult(t, r)
  BY <1>1, <1>4, <1>6, ToolIsRunning, AcceptResultRests
<1>7. CASE main.tool = 0 /\ InjectSteer(state, u)
  <2>1. /\ u \in Turn /\ Open(u) /\ u.pending = t.pending /\ u.preflight = t.preflight
        /\ u.last = t.last /\ u.calls = t.calls /\ u.count = t.count
        /\ u.cursor = t.cursor
    BY ZenonT(60), <1>4, <1>7 DEF Interrupted, Turn, Reviewed, Open
  <2> HIDE DEF u
  <2>2. Walking(u) /\ Resting(state, u)
    BY <1>4, <1>7, <2>1, ForgetRests
  <2> QED BY <1>1, <1>7, <2>2, InjectSteerRests
<1> QED
  BY <1>1, <1>3, <1>4, <1>5, <1>6, <1>7, LostRests, BecomeRests

\* CancelTurn, for a cancellation, for the cap of active time and for close().
LEMMA CancelTurnRests ==
  ASSUME IInv, Flags, Live, Cancellable, NEW outcome \in {"cancelled", "budget_exhausted"},
         CancelTurn(outcome)
  PROVE  IInv'
<1> DEFINE t == [main EXCEPT !.cancel = outcome]
           u == [t EXCEPT !.review = "none"]
           callsOpen == \/ state \in {"AwaitingApproval", "DispatchingTools", "EvaluatingAction"}
                        \/ state = "WaitingUser" /\ HoldsCall(main.pending)
<1>1. /\ main \in Turn /\ Safe(main) /\ Concluded(main) /\ Prefix(main)
      /\ state \in States /\ Resting(state, main) /\ main.returned = "none"
      /\ state \notin {"Idle", "Closing", "Finalizing"}
      /\ outcome \in Outcomes
  BY Restful DEF Live, Cancellable, NoTurnStates, Outcomes
<1>2. Alike(main, t)
  BY <1>1 DEF Alike, Turn
<1>3. \/ Lost(state, main)
      \/ Become(state, t)
      \/ callsOpen /\ SkipAndFinalize(state, u, outcome)
      \/ ~callsOpen /\ state \in {"WaitingUser", "Preparing"} /\ Finalize(u, outcome)
      \/ /\ ~callsOpen /\ state \notin {"WaitingUser", "Preparing"}
         /\ \/ main.tool # 0 /\ \E r \in RealResults : AcceptResult(u, r)
            \/ (main.tool # 0 \/ main.request) /\ Become(state, u)
            \/ main.tool = 0 /\ Finalize(u, outcome)
  BY DEF CancelTurn
<1>4. t \in Turn /\ Safe(t) /\ Concluded(t) /\ Resting(state, t)
  BY <1>1, <1>2, AlikeRests DEF Alike
<1>5. /\ u \in Turn /\ u.request = main.request /\ u.review = "none"
      /\ u.tool = main.tool /\ u.returned = "none" /\ u.pending = main.pending
      /\ u.preflight = main.preflight /\ u.last = main.last
      /\ u.calls = main.calls /\ u.count = main.count /\ u.cursor = main.cursor
  BY <1>1 DEF Turn, Reviewed
<1> HIDE DEF t, u
<1>6. /\ Prefix(u) /\ Safe(u) /\ Concluded(u)
      /\ (AllPaired(u) <=> AllPaired(main))
  BY <1>1, <1>5 DEF Prefix, Safe, Concluded, Settled, AllPaired
<1>7. CASE callsOpen /\ SkipAndFinalize(state, u, outcome)
  <2>1. ~main.request /\ main.tool = 0
    BY <1>1, <1>7 DEF Resting, StateRests, Open
  <2>2. Walking(u)
    BY <1>1, <1>5, <1>6, <2>1 DEF Walking, Open, Resting, PreflightRests
  <2> QED BY <1>1, <1>7, <2>2, SkipAndFinalizeRests
<1>8. CASE ~callsOpen /\ state \in {"WaitingUser", "Preparing"} /\ Finalize(u, outcome)
  <2>1. AllPaired(main)
    <3>1. CASE state = "Preparing"
      BY <1>1, <3>1 DEF Resting, StateRests
    <3>2. CASE state = "WaitingUser"
      <4>1. main.pending \in PendingKinds
        BY <1>1 DEF Turn
      <4>2. main.pending \notin {"approval", "action-review", "blocked-action"}
        BY <1>8, <3>2 DEF HoldsCall
      <4> QED BY <1>1, <3>2, <4>1, <4>2
              DEF Resting, StateRests, PendingRests, PendingKinds
    <3> QED BY <1>8, <3>1, <3>2
  <2> QED BY <1>1, <1>5, <1>6, <1>8, <2>1, FinalizeRests DEF Ending
<1>9. CASE main.tool # 0 /\ \E r \in RealResults : AcceptResult(u, r)
  <2>1. Running(u)
    BY <1>1, <1>5, <1>6, <1>9
       DEF Resting, RequestRests, ReviewRests, ToolRests, Running, Owing
  <2> QED BY <1>9, <2>1, AcceptResultRests
<1>10. CASE (main.tool # 0 \/ main.request) /\ Become(state, u)
  <2>1. main.review = "none"
    BY <1>1, <1>10 DEF Resting, RequestRests, ReviewRests
  <2>2. Alike(main, u)
    BY <1>5, <2>1, <1>1 DEF Alike
  <2> QED BY <1>1, <1>5, <1>6, <1>10, <2>2, AlikeRests, BecomeRests
<1>11. CASE /\ ~callsOpen /\ state \notin {"WaitingUser", "Preparing"}
            /\ main.tool = 0 /\ Finalize(u, outcome)
  <2>1. AllPaired(main)
    BY <1>1, <1>11 DEF States, Resting, StateRests
  <2> QED BY <1>1, <1>5, <1>6, <1>11, <2>1, FinalizeRests DEF Ending
<1> QED
  BY <1>1, <1>3, <1>4, <1>7, <1>8, <1>9, <1>10, <1>11, LostRests, BecomeRests

LEMMA CancelRests == ASSUME IInv, Cancel PROVE IInv'
BY FlagsHold, CancelTurnRests DEF Cancel

LEMMA TickRests == ASSUME IInv, Tick PROVE IInv'
<1> DEFINE u == [main EXCEPT !.cut = TRUE]
<1>1. /\ Flags /\ Live /\ Cancellable /\ main \in Turn /\ Safe(main)
      /\ Concluded(main) /\ Prefix(main)
      /\ \/ CancelTurn("budget_exhausted")
         \/ Finalize(u, "budget_exhausted")
  BY FlagsHold, Restful DEF Tick, Live
<1>2. CASE Finalize(u, "budget_exhausted")
  <2>1. u \in Turn /\ u.cut
    BY <1>1 DEF Turn
  <2>2. Prefix(u) /\ Safe(u) /\ Concluded(u)
    BY <1>1 DEF Turn, Prefix, Safe, Concluded, Settled
  <2> QED BY <1>1, <1>2, <2>1, <2>2, FinalizeRests DEF Ending, Outcomes
<1> QED BY <1>1, <1>2, CancelTurnRests

LEMMA CloseRests == ASSUME IInv, Close PROVE IInv'
<1>1. /\ Flags /\ main \in Turn /\ Safe(main) /\ Concluded(main)
      /\ state \in States /\ "Closing" \in States
  BY FlagsHold DEF Close, IInv, TypeOK, States
<1>2. CASE /\ halted \/ state \in {"Idle", "Finalizing"}
           /\ Become("Closing", main)
  <2>1. ~halted => Resting("Closing", main)
    BY <1>2, Restful DEF Resting, StateRests
  <2> QED BY <1>1, <1>2, <2>1, BecomeRests
<1>3. CASE ~halted /\ Cancellable /\ CancelTurn("cancelled")
  BY <1>1, <1>3, CancelTurnRests DEF Close, Live
<1>4. CASE Become(state, main)
  BY <1>1, <1>4, Restful, BecomeRests
<1> QED BY <1>2, <1>3, <1>4 DEF Close

LEMMA AcceptWalks ==
  ASSUME NEW t, Walking(t), NEW n \in 1..MaxCalls, NEW side \in [1..MaxCalls -> BOOLEAN]
  PROVE  /\ Walking(Accept(t, n, side)) /\ Owing(Accept(t, n, side))
         /\ Accept(t, n, side) \in Turn
         /\ Accept(t, n, side).pending = t.pending
         /\ Accept(t, n, side).preflight = t.preflight
         /\ Accept(t, n, side).cancel = t.cancel
<1> DEFINE c == [k \in 1..MaxCalls |->
                   IF k \in 1..n THEN [NoCall EXCEPT !.side = side[k]] ELSE NoCall]
           u == Accept(t, n, side)
<1>1. ASSUME NEW k \in 1..MaxCalls
      PROVE  /\ [NoCall EXCEPT !.side = side[k]] \in Call
             /\ [NoCall EXCEPT !.side = side[k]].result = "none"
             /\ NoCall \in Call /\ NoCall.result = "none"
  <2>1. side[k] \in BOOLEAN
    OBVIOUS
  <2> QED BY <2>1 DEF NoCall, Call, Results, Gates
<1>2. c \in [1..MaxCalls -> Call] /\ \A k \in 1..MaxCalls : c[k].result = "none"
  BY <1>1
<1>3. u = [t EXCEPT !.count = n, !.cursor = 1, !.calls = c]
  BY DEF Accept
<1>4. t \in Turn /\ n \in 0..MaxCalls /\ 1 \in 1..(MaxCalls + 1) /\ n >= 1 /\ n \in Nat
  BY AgentLoopAssumption DEF Walking
<1> HIDE DEF c, u
<1>5. u \in Turn
  BY <1>2, <1>3, <1>4 DEF Turn
<1>6. /\ Open(u) /\ u.pending = t.pending /\ u.preflight = t.preflight
      /\ u.cancel = t.cancel /\ u.last = t.last
      /\ u.calls = c /\ u.count = n /\ u.cursor = 1
  BY <1>3, <1>4 DEF Walking, Turn, Open
<1>7. Prefix(u)
  <2>1. \A k \in 1..n : k \in 1..MaxCalls /\ k >= 1
    BY AgentLoopAssumption
  <2>2. 1 <= n + 1
    BY <1>4
  <2> QED BY <1>2, <1>6, <2>1, <2>2 DEF Prefix
<1> QED BY <1>4, <1>5, <1>6, <1>7 DEF Walking, Concluded, Owing, u

LEMMA ModelResponseRests == ASSUME IInv, ModelResponse PROVE IInv'
<1> DEFINE s == "Streaming"
           t == [main EXCEPT !.request = FALSE,
                             !.cancel = IF main.late /\ main.cancel = "none"
                                        THEN "budget_exhausted" ELSE main.cancel]
<1>1. /\ Flags /\ main \in Turn /\ Safe(main) /\ Concluded(main)
      /\ Resting(state, main) /\ main.request /\ main.returned = "none"
      /\ s \in States /\ {"WaitingUser", "DispatchingTools"} \subseteq States
      /\ {"cancelled", "budget_exhausted", "error", "refused"} \subseteq Outcomes
  BY FlagsHold, Restful DEF ModelResponse, Live, States, Outcomes
<1>2. /\ main.review = "none" /\ main.tool = 0 /\ main.preflight = "none"
      /\ main.pending = "none" /\ AllPaired(main) /\ Prefix(main)
  BY <1>1 DEF Resting, RequestRests
<1>3. \/ Finalize(main, "error")
      \/ Lost(s, main)
      \/ t.cancel # "none" /\ Finalize(t, t.cancel)
      \/ t.cancel # "none" /\ \E n \in 1..MaxCalls, side \in [1..MaxCalls -> BOOLEAN] :
           SkipAndFinalize("DispatchingTools", Accept(t, n, side), t.cancel)
      \/ InjectSteer(s, t)
      \/ \E n \in 1..MaxCalls, side \in [1..MaxCalls -> BOOLEAN] :
           InjectSteer("DispatchingTools", Accept(t, n, side))
      \/ \E o \in {"cancelled", "budget_exhausted", "error", "refused"} : Finalize(t, o)
      \/ CompleteResponse(t)
      \/ Become("WaitingUser", Pend(t, "ask-user"))
      \/ Become("WaitingUser", Pend(t, "model-yield"))
      \/ \E n \in 1..MaxCalls, side \in [1..MaxCalls -> BOOLEAN], escape \in {FALSE, t.escape} :
           LET u == [Accept(t, n, side) EXCEPT !.escape = escape]
           IN \/ SkipAndFinalize("DispatchingTools", u, "budget_exhausted")
              \/ Stuck("DispatchingTools", u)
              \/ DispatchNext(u)
  BY DEF ModelResponse
<1>4. /\ t \in Turn /\ Open(t) /\ t.pending = "none" /\ t.preflight = "none"
      /\ t.last = main.last /\ t.calls = main.calls /\ t.count = main.count
      /\ t.cursor = main.cursor /\ (t.cancel # "none" => t.cancel \in Outcomes)
      /\ t.escape \in BOOLEAN
  <2>1. (IF main.late /\ main.cancel = "none" THEN "budget_exhausted" ELSE main.cancel)
          \in {"none", "cancelled", "budget_exhausted"}
    BY <1>1 DEF Turn
  <2>2. t \in Turn
    BY ZenonT(60), <1>1, <2>1 DEF Turn
  <2> QED BY <1>1, <1>2, <2>1, <2>2 DEF Turn, Open
<1> HIDE DEF t
<1>5. Walking(t) /\ AllPaired(t) /\ Ending(t)
  BY <1>1, <1>2, <1>4, WalkingIsEnding DEF Walking, Prefix, Concluded, AllPaired
<1>6. Resting(s, t)
  BY <1>4, <1>5, PairedRests
<1>7. ASSUME NEW n \in 1..MaxCalls, NEW side \in [1..MaxCalls -> BOOLEAN]
      PROVE  /\ Walking(Accept(t, n, side)) /\ Owing(Accept(t, n, side))
             /\ Accept(t, n, side) \in Turn
             /\ Accept(t, n, side).pending = "none"
             /\ Accept(t, n, side).preflight = "none"
             /\ Resting("DispatchingTools", Accept(t, n, side))
  BY <1>4, <1>5, AcceptWalks, DispatchingRests
<1>8. CASE Finalize(main, "error")
  BY <1>1, <1>2, <1>8, FinalizeRests DEF Ending
<1>9. CASE t.cancel # "none" /\ \E n \in 1..MaxCalls, side \in [1..MaxCalls -> BOOLEAN] :
             SkipAndFinalize("DispatchingTools", Accept(t, n, side), t.cancel)
  BY <1>1, <1>4, <1>7, <1>9, SkipAndFinalizeRests
<1>10. CASE \E n \in 1..MaxCalls, side \in [1..MaxCalls -> BOOLEAN] :
              InjectSteer("DispatchingTools", Accept(t, n, side))
  BY <1>1, <1>7, <1>10, InjectSteerRests
<1>11. ASSUME NEW kind \in {"ask-user", "model-yield"},
              Become("WaitingUser", Pend(t, kind))
       PROVE  IInv'
  <2> DEFINE w == Pend(t, kind)
  <2>1. kind \in PendingKinds
    BY DEF PendingKinds
  <2>2. /\ Walking(w) /\ w \in Turn /\ Open(w) /\ w.pending = kind
        /\ w.preflight = "none" /\ AllPaired(w)
    BY <1>4, <1>5, <2>1, Pended DEF AllPaired
  <2>3. Become("WaitingUser", w)
    BY <1>11
  <2> HIDE DEF w
  <2>4. Resting("WaitingUser", w) /\ Safe(w) /\ Concluded(w)
    BY <2>2, OpenIsSafe
       DEF Walking, Resting, RequestRests, ReviewRests, ToolRests, PreflightRests,
           PendingRests, StateRests, Open
  <2> QED BY <1>1, <2>2, <2>3, <2>4, BecomeRests
<1>12. ASSUME NEW n \in 1..MaxCalls, NEW side \in [1..MaxCalls -> BOOLEAN],
              NEW escape \in {FALSE, t.escape},
              LET u == [Accept(t, n, side) EXCEPT !.escape = escape]
              IN \/ SkipAndFinalize("DispatchingTools", u, "budget_exhausted")
                 \/ Stuck("DispatchingTools", u)
                 \/ DispatchNext(u)
       PROVE  IInv'
  <2> DEFINE a == Accept(t, n, side)
             u == [a EXCEPT !.escape = escape]
  <2>1. escape \in BOOLEAN
    BY <1>4, Zenon
  <2>2. /\ Walking(a) /\ Owing(a) /\ a \in Turn /\ a.pending = "none"
        /\ a.preflight = "none" /\ Resting("DispatchingTools", a)
    BY <1>7
  <2>3. \/ SkipAndFinalize("DispatchingTools", u, "budget_exhausted")
        \/ Stuck("DispatchingTools", u)
        \/ DispatchNext(u)
    BY <1>12
  <2> HIDE DEF a
  <2>4. Alike(a, u)
    BY <2>1, <2>2 DEF Alike, Turn
  <2> HIDE DEF u
  <2>5. /\ Walking(u) /\ Owing(u) /\ u.pending = "none" /\ u.preflight = "none"
        /\ Resting("DispatchingTools", u)
    BY <2>2, <2>4, AlikeRests DEF Alike
  <2> QED
    BY <1>1, <2>3, <2>5, SkipAndFinalizeRests, StuckRests, DispatchNextRests
<1>13. CASE CompleteResponse(t)
  BY <1>1, <1>4, <1>5, <1>13, CompleteResponseRests
<1>14. CASE \/ t.cancel # "none" /\ Finalize(t, t.cancel)
            \/ \E o \in {"cancelled", "budget_exhausted", "error", "refused"} : Finalize(t, o)
  BY <1>1, <1>4, <1>5, <1>14, FinalizeRests
<1>15. CASE Lost(s, main) \/ InjectSteer(s, t)
  BY <1>1, <1>5, <1>6, <1>15, LostRests, InjectSteerRests
<1> QED
  BY <1>3, <1>8, <1>9, <1>10, <1>11, <1>12, <1>13, <1>14, <1>15

-----------------------------------------------------------------------------
(* The theorems.                                                           *)

LEMMA InitRests == Init => IInv
<1> SUFFICES ASSUME Init PROVE IInv
  OBVIOUS
<1>1. /\ main = FreshTurn(0, NeverEnded) /\ state = "Idle" /\ state \in States
      /\ {halted, closing, fault} \subseteq BOOLEAN
  BY DEF Init, States
<1>2. NeverEnded \in Ended /\ NeverEnded.settled /\ 0 \in 0..MaxTurns
  BY AgentLoopAssumption DEF NeverEnded, Ended
<1>3. main \in Turn /\ Safe(main) /\ Concluded(main) /\ Resting(state, main)
  BY <1>1, <1>2, FreshTurnRests
<1> QED BY <1>1, <1>3 DEF IInv, TypeOK

LEMMA NextRests == IInv /\ [Next]_vars => IInv'
<1> SUFFICES ASSUME IInv, [Next]_vars PROVE IInv'
  OBVIOUS
<1>1. CASE UNCHANGED vars
  BY <1>1 DEF vars, IInv, TypeOK
<1>2. CASE Next
  BY <1>2, StartMainRests, TimeExpiresRests, ResolvePreflightRests, ModelEventRests,
     ModelResponseRests, ToolResultRests, AcceptReturnedRests, ApprovalRests,
     ActionReviewRests, TerminationReviewRests, ReplyRests, ResolveYieldRests,
     SteerRests, CancelRests, TickRests, CloseRests DEF Next
<1> QED BY <1>1, <1>2

\* Between two calls a turn rests as IInv says, in every behaviour of the loop:
\* exactly the calls before the cursor have their result, and every activity,
\* pending decision and state implies what its handlers rely on.
THEOREM Rests == Spec => []IInv
BY InitRests, NextRests, PTL DEF Spec

\* The upvalues of new_agent_loop keep their types and bounds.
THEOREM TypeCorrect == Spec => []TypeOK
<1>1. IInv => TypeOK
  BY DEF IInv
<1> QED BY Rests, <1>1, PTL

\* No path through the handlers starts a request, a review or a tool while
\* another one of them is out.
THEOREM OneForegroundHolds == Spec => []OneForeground
<1>1. IInv => OneForeground
  BY DEF IInv, Safe, OneForeground
<1> QED BY Rests, <1>1, PTL

\* The model is asked, and a termination reviewed, only when every accepted
\* tool call of the turn has its result.
THEOREM RequestsOweNothingHolds == Spec => []RequestsOweNothing
<1>1. IInv => RequestsOweNothing
  BY DEF IInv, Safe, RequestsOweNothing
<1> QED BY Rests, <1>1, PTL

\* Only the call at the cursor runs, without a result and with every gate of
\* its admission passed.
THEOREM GatesPassedHolds == Spec => []GatesPassed
<1>1. IInv => GatesPassed
  BY DEF IInv, Safe, GatesPassed
<1> QED BY Rests, <1>1, PTL

\* A turn that ended left no accepted call without a result, unless it was cut
\* by tick() between two activities or by a review that did not start.
THEOREM LastTurnSettledHolds == Spec => []LastTurnSettled
<1>1. IInv => LastTurnSettled
  BY DEF IInv, Concluded, LastTurnSettled
<1> QED BY Rests, <1>1, PTL


-----------------------------------------------------------------------------
(***************************************************************************)
(* The second invariant: what a turn between two calls remembers of        *)
(* cancellation, steering and the termination review.  From it and the     *)
(* first, two more theorems: the outcome of a turn keeps the precedence of *)
(* what arrived in it, and nothing starts in a turn whose cancel intent is *)
(* durable.                                                                *)
(***************************************************************************)
-----------------------------------------------------------------------------
(* The second invariant.                                                   *)

\* The outcome kept in `last' respects the precedence.
Precedes(last) ==
  /\ last.unknown => last.outcome = "unknown_side_effect"
  /\ last.cancel => last.outcome \notin {"completed", "partial", "refused", "stuck"}
  /\ last.steer => last.outcome \notin {"completed", "partial", "refused"}
  /\ DoubleCheck /\ last.outcome = "completed" => last.checked

\* An activity is out.
Busy(t) == t.request \/ t.review # "none" \/ t.tool # 0

\* The turn has no unknown side effect and skips a review only after one.
Clean(t) == ~HasUnknown(t) /\ (t.gap => t.checked)

\* A cancelled turn only waits for its activity, and a model that yielded was
\* neither cancelled nor steered before the user answers.
Attends(s, t) ==
  /\ t.cancel # "none" => Busy(t) /\ s # "Idle"
  /\ t.pending = "model-yield" =>
       s = "WaitingUser" /\ t.cancel = "none" /\ ~t.steer

PInv ==
  /\ Precedes(main.last)
  /\ ~halted => Clean(main) /\ Attends(state, main)

-----------------------------------------------------------------------------
(* Turns in the middle of a call.                                          *)

\* A turn whose counters may have any value: the bounds are TypeOK's matter.
Loose ==
  [serial : Nat, count : 0..MaxCalls, calls : [1..MaxCalls -> Call],
   cursor : Nat, requests : Nat, late : BOOLEAN, request : BOOLEAN,
   review : Reviewed, tool : Nat, returned : RealResults \cup {"none"},
   pending : PendingKinds, preflight : {"none", "main", "action", "termination"},
   steer : BOOLEAN, steers : Nat, cancel : {"none", "cancelled", "budget_exhausted"},
   escape : BOOLEAN, gap : BOOLEAN, checked : BOOLEAN, cut : BOOLEAN,
   last : Ended]

\* A turn that may be ended, and one that may also go on.
Sound(t)  == t \in Loose /\ Precedes(t.last) /\ Clean(t)
Honest(t) == Sound(t) /\ t.cancel = "none" /\ t.pending # "model-yield"

\* The outcomes a sound turn may end with.
May(t, o) ==
  \/ o \in {"error", "budget_exhausted", "cancelled", "unknown_side_effect"}
  \/ o = "stuck" /\ t.cancel = "none"
  \/ o \in {"partial", "refused"} /\ t.cancel = "none" /\ ~t.steer
  \/ /\ o = "completed" /\ t.cancel = "none" /\ ~t.steer
     /\ DoubleCheck => t.checked

LEMMA MainIsLoose == ASSUME IInv PROVE main \in Loose
BY AgentLoopAssumption DEF IInv, TypeOK, Turn, Loose

LEMMA LooseSummary ==
  ASSUME NEW t \in Loose, NEW o \in Outcomes
  PROVE  Summary(t, o) \in Ended
<1>1. t.cut \in BOOLEAN /\ t.steer \in BOOLEAN /\ t.checked \in BOOLEAN
  BY DEF Loose
<1>2. Settled(t) \in BOOLEAN /\ HasUnknown(t) \in BOOLEAN
  BY DEF Settled, HasUnknown
<1> QED BY <1>1, <1>2 DEF Summary, Ended

LEMMA SoundSummary ==
  ASSUME NEW t, Sound(t), NEW o, May(t, o)
  PROVE  /\ Precedes(Summary(t, o))
         /\ Summary(t, o) \in Ended
<1>1. o \in Outcomes
  BY DEF May, Outcomes
<1>2. ~HasUnknown(t)
  BY DEF Sound, Clean
<1>3. Precedes(Summary(t, o))
  BY <1>2 DEF May, Precedes, Summary
<1> QED BY <1>1, <1>3, LooseSummary DEF Sound

LEMMA FreshTurnIsHonest ==
  ASSUME NEW n \in Nat, NEW last \in Ended, Precedes(last)
  PROVE  Honest(FreshTurn(n, last))
<1>1. FreshTurn(n, last) \in Loose
  BY AgentLoopAssumption
     DEF FreshTurn, Loose, NoCall, Call, Gates, Results, RealResults, PendingKinds, Reviewed
<1> QED BY <1>1 DEF FreshTurn, Honest, Sound, Clean, HasUnknown

-----------------------------------------------------------------------------
(* How a call ends.                                                        *)

LEMMA HonestAttends ==
  ASSUME NEW s, NEW t, Honest(t) PROVE Attends(s, t)
BY DEF Honest, Attends

LEMMA BecomeAttends ==
  ASSUME NEW s, NEW t, Sound(t), Attends(s, t), Become(s, t) PROVE PInv'
BY DEF Become, PInv, Sound

LEMMA BecomeHonest ==
  ASSUME NEW s, NEW t, Honest(t), Become(s, t) PROVE PInv'
BY HonestAttends, BecomeAttends DEF Honest

LEMMA RaiseHonest ==
  ASSUME NEW s, NEW t, Honest(t), Raise(s, t) PROVE PInv'
BY HonestAttends DEF Raise, PInv, Honest, Sound

LEMMA LostPrecedes ==
  ASSUME NEW s, NEW t, Precedes(t.last), Lost(s, t) PROVE PInv'
<1>1. FreshTurn(t.serial, t.last).last = t.last
  BY DEF FreshTurn
<1> QED BY <1>1 DEF Lost, PInv

LEMMA FinalizePrecedes ==
  ASSUME NEW t \in Loose, Precedes(t.last), NEW o,
         Summary(t, o) \in Ended, Precedes(Summary(t, o)), Finalize(t, o)
  PROVE  PInv'
<1>1. Honest(FreshTurn(t.serial, Summary(t, o)))
  BY FreshTurnIsHonest DEF Loose
<1> QED BY <1>1, BecomeHonest, LostPrecedes DEF Finalize

LEMMA FinalizeSound ==
  ASSUME NEW t, Sound(t), NEW o, May(t, o), Finalize(t, o) PROVE PInv'
BY SoundSummary, FinalizePrecedes DEF Sound

LEMMA SkippedIsLoose ==
  ASSUME NEW t \in Loose, NEW n
  PROVE  /\ SkipTo(t, n) \in Loose
         /\ SkippedTo(t, n) \in [1..MaxCalls -> Call]
         /\ \A k \in 1..MaxCalls :
              /\ SkippedTo(t, n)[k].side = t.calls[k].side
              /\ SkippedTo(t, n)[k].result \in {t.calls[k].result, "skipped"}
<1>1. t.calls \in [1..MaxCalls -> Call]
  BY DEF Loose
<1>2. ASSUME NEW k \in 1..MaxCalls
      PROVE  /\ [t.calls[k] EXCEPT !.result = "skipped"] \in Call
             /\ t.calls[k] \in Call
             /\ [t.calls[k] EXCEPT !.result = "skipped"].side = t.calls[k].side
             /\ [t.calls[k] EXCEPT !.result = "skipped"].result = "skipped"
  BY <1>1 DEF Call, Results
<1>3. SkippedTo(t, n) \in [1..MaxCalls -> Call]
  BY <1>2 DEF SkippedTo
<1>4. SkipTo(t, n) \in Loose
  BY <1>3 DEF SkipTo, Loose
<1> QED BY <1>2, <1>3, <1>4 DEF SkippedTo

\* What skip_remaining leaves alone.
SameButCalls(t, u) ==
  /\ u.count = t.count /\ u.cancel = t.cancel /\ u.pending = t.pending
  /\ u.steer = t.steer /\ u.checked = t.checked /\ u.gap = t.gap
  /\ u.last = t.last /\ u.late = t.late /\ u.escape = t.escape
  /\ u.request = t.request /\ u.review = t.review /\ u.tool = t.tool
  /\ u.serial = t.serial

LEMMA SkipRemainingKeeps ==
  ASSUME NEW t \in Loose
  PROVE  /\ SkipRemaining(t) \in Loose
         /\ SameButCalls(t, SkipRemaining(t))
         /\ HasUnknown(SkipRemaining(t)) => HasUnknown(t)
<1> DEFINE u == SkipRemaining(t)
<1>1. t.count \in Nat /\ t.count \in 0..MaxCalls /\ t.count + 1 \in Nat
  BY AgentLoopAssumption DEF Loose
<1>2. SkippedTo(t, t.count) \in [1..MaxCalls -> Call]
  BY <1>1, SkippedIsLoose
<1>3. u \in Loose /\ u.calls = SkippedTo(t, t.count) /\ SameButCalls(t, u)
  BY <1>1, <1>2 DEF SkipRemaining, Advance, Loose, SameButCalls
<1> HIDE DEF u
<1>4. HasUnknown(u) => HasUnknown(t)
  <2> SUFFICES ASSUME NEW k \in 1..u.count, u.calls[k].side, u.calls[k].result = "unknown"
               PROVE  HasUnknown(t)
    BY DEF HasUnknown
  <2>1. k \in 1..t.count /\ k \in 1..MaxCalls
    BY <1>1, <1>3, AgentLoopAssumption DEF SameButCalls
  <2>2. t.calls[k].side /\ t.calls[k].result = "unknown"
    BY <1>1, <1>3, <2>1, SkippedIsLoose
  <2> QED BY <2>1, <2>2 DEF HasUnknown
<1> QED BY <1>3, <1>4 DEF u

LEMMA SkippedIsSound ==
  ASSUME NEW t, Sound(t)
  PROVE  /\ Sound(SkipRemaining(t))
         /\ SameButCalls(t, SkipRemaining(t))
         /\ Honest(t) => Honest(SkipRemaining(t))
         /\ \A o : May(t, o) => May(SkipRemaining(t), o)
<1> DEFINE u == SkipRemaining(t)
<1>1. u \in Loose /\ SameButCalls(t, u) /\ (HasUnknown(u) => HasUnknown(t))
  BY SkipRemainingKeeps DEF Sound
<1> HIDE DEF u
<1>2. Sound(u) /\ SameButCalls(t, u) /\ (Honest(t) => Honest(u))
      /\ \A o : May(t, o) => May(u, o)
  BY <1>1 DEF Sound, Clean, SameButCalls, Honest, May
<1> QED BY <1>2 DEF u

LEMMA LostSkippingPrecedes ==
  ASSUME NEW s, NEW t \in Loose, Precedes(t.last), LostSkipping(s, t) PROVE PInv'
<1>1. PICK n \in t.cursor..t.count : Lost(s, SkipTo(t, n - 1))
  BY DEF LostSkipping
<1>2. SkipTo(t, n - 1).last = t.last
  BY DEF SkipTo, Loose
<1> QED BY <1>1, <1>2, LostPrecedes

LEMMA SkipAndFinalizeSound ==
  ASSUME NEW s, NEW t, Sound(t), NEW o, May(t, o), SkipAndFinalize(s, t, o) PROVE PInv'
<1>1. CASE LostSkipping(s, t)
  BY <1>1, LostSkippingPrecedes DEF Sound
<1>2. CASE Finalize(SkipRemaining(t), o)
  BY <1>2, SkippedIsSound, FinalizeSound
<1> QED BY <1>1, <1>2 DEF SkipAndFinalize

-----------------------------------------------------------------------------
(* Requests and reviews.                                                   *)

LEMMA StartModelHonest ==
  ASSUME NEW s, NEW t, Honest(t), StartModel(s, t) PROVE PInv'
<1> DEFINE u == [t EXCEPT !.requests = t.requests + 1]
           v == [u EXCEPT !.request = TRUE]
<1>1. t \in Loose /\ Sound(t)
  BY DEF Honest, Sound
<1> HIDE DEF v
<1>2. Honest(u) /\ u \in Loose
  <2>1. u \in Loose
    BY <1>1 DEF Loose
  <2> QED BY <1>1, <2>1 DEF Honest, Sound, Clean, HasUnknown, Loose
<1> HIDE DEF u
<1>3. Honest(v)
  <2>1. v \in Loose
    BY <1>2 DEF Loose, v
  <2> QED BY <1>2, <2>1 DEF Honest, Sound, Clean, HasUnknown, Loose, v
<1>4. Sound(u) /\ May(t, "budget_exhausted") /\ May(u, "error")
  BY <1>2 DEF Honest, May
<1>5. \/ Finalize(t, "budget_exhausted")
      \/ SkipAndFinalize(s, t, "budget_exhausted")
      \/ Lost(s, t)
      \/ Raise(s, u)
      \/ Finalize(u, "error")
      \/ Become("RequestingModel", v)
  BY DEF StartModel, CapacityExhausted, u, v
<1> QED BY <1>1, <1>2, <1>3, <1>4, <1>5, FinalizeSound, SkipAndFinalizeSound, LostPrecedes,
           RaiseHonest, BecomeHonest DEF Sound

LEMMA DeferredIsHonest ==
  ASSUME NEW t, Honest(t), NEW kind \in {"main", "action", "termination"}
  PROVE  Honest([t EXCEPT !.preflight = kind])
<1> DEFINE u == [t EXCEPT !.preflight = kind]
<1>1. t \in Loose /\ u \in Loose
  BY DEF Honest, Sound, Loose
<1> QED BY <1>1 DEF Honest, Sound, Clean, HasUnknown, Loose

LEMMA RequestModelHonest ==
  ASSUME NEW s, NEW t, Honest(t), RequestModel(s, t) PROVE PInv'
<1>1. Honest([t EXCEPT !.preflight = "main"])
  BY DeferredIsHonest
<1>2. Sound(t) /\ May(t, "budget_exhausted")
  BY DEF Honest, May
<1>3. \/ Finalize(t, "budget_exhausted")
      \/ Raise(s, t)
      \/ Become("Preparing", [t EXCEPT !.preflight = "main"])
      \/ Become("Preparing", t)
      \/ StartModel(s, t)
  BY DEF RequestModel
<1> QED BY <1>1, <1>2, <1>3, FinalizeSound, RaiseHonest, BecomeHonest, StartModelHonest

LEMMA WaitUnreviewedHonest ==
  ASSUME NEW s, NEW t, Honest(t), WaitUnreviewed(s, t) PROVE PInv'
BY RaiseHonest, BecomeHonest DEF WaitUnreviewed

LEMMA StartReviewHonest ==
  ASSUME NEW s, NEW t, Honest(t), NEW kind \in Reviewed, StartReview(s, t, kind)
  PROVE  PInv'
<1> DEFINE u == [t EXCEPT !.requests = t.requests + 1]
           v == [u EXCEPT !.review = kind]
           w == [u EXCEPT !.cut = TRUE]
<1>1. t \in Loose /\ Sound(t)
  BY DEF Honest, Sound
<1> HIDE DEF v, w
<1>2. Honest(u) /\ u \in Loose
  <2>1. u \in Loose
    BY <1>1 DEF Loose
  <2> QED BY <1>1, <2>1 DEF Honest, Sound, Clean, HasUnknown, Loose
<1> HIDE DEF u
<1>3. Honest(v) /\ Honest(w)
  <2>1. v \in Loose
    BY <1>2 DEF Loose, v
  <2>2. w \in Loose
    BY <1>2 DEF Loose, w
  <2>3. Honest(v)
    BY <1>2, <2>1 DEF Honest, Sound, Clean, HasUnknown, Loose, v
  <2>4. Honest(w)
    BY <1>2, <2>2 DEF Honest, Sound, Clean, HasUnknown, Loose, w
  <2> QED BY <2>3, <2>4
<1>4. Sound(w) /\ May(t, "budget_exhausted") /\ May(w, "error")
  BY <1>3 DEF Honest, May
<1>5. \/ WaitUnreviewed(s, t)
      \/ SkipAndFinalize(s, t, "budget_exhausted")
      \/ Lost(s, t)
      \/ Finalize(w, "error")
      \/ Become(s, v)
  BY DEF StartReview, CapacityExhausted, u, v, w
<1> QED BY <1>1, <1>2, <1>3, <1>4, <1>5, FinalizeSound, SkipAndFinalizeSound, LostPrecedes,
           WaitUnreviewedHonest, BecomeHonest DEF Sound

LEMMA BeginReviewHonest ==
  ASSUME NEW s, NEW t, Honest(t), NEW kind \in {"action", "termination"},
         BeginReview(s, t, kind)
  PROVE  PInv'
<1>1. Honest([t EXCEPT !.preflight = kind]) /\ kind \in Reviewed
  BY DeferredIsHonest DEF Reviewed
<1>2. \/ WaitUnreviewed(s, t)
      \/ Become(s, [t EXCEPT !.preflight = kind])
      \/ Become(s, t)
      \/ StartReview(s, t, kind)
  BY DEF BeginReview
<1> QED BY <1>1, <1>2, WaitUnreviewedHonest, BecomeHonest, StartReviewHonest

LEMMA StartNextHonest ==
  ASSUME NEW t, Sound(t), NEW o, May(t, o), StartNext(t, o) PROVE PInv'
<1> DEFINE last == Summary(t, o)
<1>1. last \in Ended /\ Precedes(last) /\ t.serial \in Nat /\ t.serial + 1 \in Nat
  BY SoundSummary DEF Sound, Loose
<1> HIDE DEF last
<1>2. Honest(FreshTurn(t.serial, last)) /\ Honest(FreshTurn(t.serial + 1, last))
  BY <1>1, FreshTurnIsHonest
<1>3. Lost("Idle", FreshTurn(t.serial, last))
      \/ RequestModel("Preparing", FreshTurn(t.serial + 1, last))
  BY DEF StartNext, last
<1> QED BY <1>2, <1>3, LostPrecedes, RequestModelHonest DEF Honest, Sound

LEMMA CompleteHonest ==
  ASSUME NEW t, Sound(t), May(t, "completed"), Complete(t) PROVE PInv'
BY FinalizeSound, StartNextHonest DEF Complete

LEMMA PendIsHonest ==
  ASSUME NEW t, Honest(t), NEW kind \in PendingKinds \ {"model-yield"}
  PROVE  Honest(Pend(t, kind))
<1>1. t \in Loose /\ Pend(t, kind) \in Loose
  BY DEF Honest, Sound, Loose, Pend
<1> QED BY <1>1 DEF Honest, Sound, Clean, HasUnknown, Loose, Pend

LEMMA CompleteResponseHonest ==
  ASSUME NEW t, Honest(t), ~t.steer, CompleteResponse(t) PROVE PInv'
<1> DEFINE u == [t EXCEPT !.gap = FALSE]
<1>1. t \in Loose /\ Sound(t) /\ t.cancel = "none"
  BY DEF Honest, Sound
<1>2. CASE t.gap /\ Complete(u)
  <2>1. u \in Loose
    BY <1>1 DEF Loose
  <2>2. Sound(u) /\ May(u, "completed")
    BY <1>1, <1>2, <2>1 DEF Sound, Clean, HasUnknown, Loose, May
  <2> QED BY <1>2, <2>2, CompleteHonest
<1>3. CASE BeginReview("EvaluatingTermination", Pend(t, "termination-review"), "termination")
  BY <1>3, PendIsHonest, BeginReviewHonest DEF PendingKinds
<1>4. CASE ~DoubleCheck /\ Complete(t)
  BY <1>1, <1>4, CompleteHonest DEF May
<1> QED BY <1>2, <1>3, <1>4 DEF CompleteResponse

-----------------------------------------------------------------------------
(* Tool batches.                                                           *)

\* finish_cancelled_turn does not raise where an edge leads to DispatchingTools
\* or where nothing is left to skip.
LEMMA FinishCancelledSound ==
  ASSUME NEW s, NEW t, Sound(t), AllPaired(t) \/ MayBe(s, "DispatchingTools"),
         FinishCancelled(s, t)
  PROVE  PInv'
<1> DEFINE u == IF t.cancel = "none" THEN [t EXCEPT !.cancel = "budget_exhausted"] ELSE t
<1>1. t \in Loose /\ u \in Loose
  BY DEF Sound, Loose
<1>2. /\ u.count = t.count /\ u.cursor = t.cursor /\ u.calls = t.calls /\ u.gap = t.gap
      /\ u.checked = t.checked /\ u.last = t.last
      /\ u.cancel \in {"cancelled", "budget_exhausted"}
  BY <1>1 DEF Loose
<1>3. \/ ~AllPaired(u) /\ ~MayBe(s, "DispatchingTools") /\ Raise(s, u)
      \/ SkipAndFinalize(s, u, u.cancel)
  BY DEF FinishCancelled
<1> HIDE DEF u
<1>4. Sound(u) /\ May(u, u.cancel) /\ (AllPaired(t) => AllPaired(u))
  BY <1>1, <1>2 DEF Sound, Clean, HasUnknown, May, AllPaired
<1> QED BY <1>3, <1>4, SkipAndFinalizeSound

LEMMA CompleteBatchHonest ==
  ASSUME NEW s, NEW t, Honest(t), CompleteBatch(s, t) PROVE PInv'
<1> DEFINE u == [t EXCEPT !.tool = 0, !.pending = "none"]
<1>1. t \in Loose /\ u \in Loose
  BY DEF Honest, Sound, Loose, PendingKinds
<1>2. Honest(u)
  BY <1>1 DEF Honest, Sound, Clean, HasUnknown, Loose
<1> QED BY <1>2, RequestModelHonest DEF CompleteBatch

LEMMA AbandonBatchHonest ==
  ASSUME NEW s, NEW t, Honest(t), AbandonBatch(s, t) PROVE PInv'
<1>1. t \in Loose /\ Precedes(t.last) /\ Sound(t)
  BY DEF Honest, Sound
<1> QED BY <1>1, LostSkippingPrecedes, SkippedIsSound, CompleteBatchHonest DEF AbandonBatch

LEMMA StuckHonest ==
  ASSUME NEW s, NEW t, Honest(t), Stuck(s, t) PROVE PInv'
<1> DEFINE u == [t EXCEPT !.escape = TRUE]
<1>1. t \in Loose /\ u \in Loose /\ Sound(t) /\ May(t, "stuck")
  BY DEF Honest, Sound, Loose, May
<1>2. Honest(u) /\ u \in Loose /\ Sound(u)
  BY <1>1 DEF Honest, Sound, Clean, HasUnknown, Loose
<1>3. \/ SkipAndFinalize(s, t, "stuck")
      \/ Lost(s, t)
      \/ Become(s, t)
      \/ LostSkipping(s, u)
      \/ RequestModel(s, SkipRemaining(u))
      \/ Lost(s, u)
  BY DEF Stuck
<1> HIDE DEF u
<1> QED BY <1>1, <1>2, <1>3, SkipAndFinalizeSound, LostPrecedes, BecomeHonest,
           LostSkippingPrecedes, SkippedIsSound, RequestModelHonest DEF Sound

\* A steer is injected, or raises in a state with no edge to DispatchingTools.
LEMMA InjectSteerHonest ==
  ASSUME NEW s, NEW t, Sound(t), t.cancel = "none",
         t.pending # "model-yield" \/ AllPaired(t), InjectSteer(s, t)
  PROVE  PInv'
<1> DEFINE v == [SkipRemaining(t) EXCEPT !.steer = FALSE, !.pending = "none"]
<1>1. t \in Loose /\ Precedes(t.last)
  BY DEF Sound
<1>2. CASE ~AllPaired(t) /\ Raise(s, t)
  BY <1>2, RaiseHonest DEF Honest
<1>3. CASE LostSkipping(s, t)
  BY <1>1, <1>3, LostSkippingPrecedes
<1>4. CASE RequestModel("Preparing", v)
  <2> DEFINE u == SkipRemaining(t)
  <2>1. Sound(u) /\ u.cancel = "none"
    BY SkippedIsSound DEF SameButCalls
  <2> HIDE DEF u
  <2>2. v = [u EXCEPT !.steer = FALSE, !.pending = "none"]
    BY DEF u
  <2>3. u \in Loose /\ v \in Loose
    BY ZenonT(60), <2>1, <2>2 DEF Sound, Loose, PendingKinds
  <2> HIDE DEF v
  <2>4. /\ v.count = u.count /\ v.calls = u.calls /\ v.last = u.last
        /\ v.gap = u.gap /\ v.checked = u.checked /\ v.cancel = u.cancel
        /\ v.pending = "none"
    BY <2>2, <2>3 DEF Loose
  <2>5. Honest(v)
    BY <2>1, <2>3, <2>4 DEF Honest, Sound, Clean, HasUnknown
  <2> QED BY <1>4, <2>5, RequestModelHonest
<1> QED BY <1>2, <1>3, <1>4 DEF InjectSteer

-----------------------------------------------------------------------------
(* Dispatch, execution and results of tools.                               *)

LEMMA AwaitIsHonest ==
  ASSUME NEW t, Honest(t), NEW gates \in SUBSET Gates
  PROVE  Honest(Await(t, gates)) /\ Await(t, gates).steer = t.steer
<1> DEFINE u == Await(t, gates)
           c == [t.calls EXCEPT ![t.cursor].gates = gates]
<1>1. t \in Loose /\ t.calls \in [1..MaxCalls -> Call]
  BY DEF Honest, Sound, Loose
<1>2. c \in [1..MaxCalls -> Call]
  BY <1>1 DEF Call
<1>3. \A k \in 1..MaxCalls :
        c[k].side = t.calls[k].side /\ c[k].result = t.calls[k].result
  BY <1>1 DEF Call
<1> HIDE DEF c
<1>4. u \in Loose /\ u.calls = c
  BY <1>1, <1>2 DEF Await, Advance, Loose, c
<1>5. /\ u.count = t.count /\ u.last = t.last /\ u.gap = t.gap /\ u.steer = t.steer
      /\ u.checked = t.checked /\ u.cancel = t.cancel /\ u.pending = t.pending
  BY <1>1 DEF Await, Advance, Loose
<1> HIDE DEF u
<1>6. HasUnknown(u) => HasUnknown(t)
  <2> SUFFICES ASSUME NEW k \in 1..u.count, u.calls[k].side, u.calls[k].result = "unknown"
               PROVE  HasUnknown(t)
    BY DEF HasUnknown
  <2>1. k \in 1..t.count /\ k \in 1..MaxCalls
    BY <1>1, <1>5, AgentLoopAssumption DEF Loose
  <2> QED BY <1>3, <1>4, <2>1 DEF HasUnknown
<1>7. Honest(u)
  BY <1>4, <1>5, <1>6 DEF Honest, Sound, Clean
<1> QED BY <1>5, <1>7 DEF u

\* pair_result leaves everything but the result of the call at the cursor.
LEMMA PairNextKeeps ==
  ASSUME NEW t \in Loose, NEW r \in Results
  PROVE  /\ PairNext(t, r) \in Loose
         /\ SameButCalls(t, PairNext(t, r))
         /\ HasUnknown(PairNext(t, r)) =>
              HasUnknown(t) \/ (r = "unknown" /\ t.calls[t.cursor].side)
<1> DEFINE u == PairNext(t, r)
           c == [t.calls EXCEPT ![t.cursor].result = r]
<1>1. t.calls \in [1..MaxCalls -> Call] /\ t.cursor + 1 \in Nat
  BY DEF Loose
<1>2. c \in [1..MaxCalls -> Call]
  BY <1>1 DEF Call
<1>3. \A k \in 1..MaxCalls :
        /\ c[k].side = t.calls[k].side
        /\ c[k].result = IF k = t.cursor THEN r ELSE t.calls[k].result
  BY <1>1 DEF Call
<1> HIDE DEF c
<1>4. u \in Loose /\ u.calls = c /\ SameButCalls(t, u)
  BY <1>1, <1>2 DEF PairNext, Advance, Loose, c, SameButCalls
<1> HIDE DEF u
<1>5. HasUnknown(u) => HasUnknown(t) \/ (r = "unknown" /\ t.calls[t.cursor].side)
  <2> SUFFICES ASSUME NEW k \in 1..u.count, u.calls[k].side, u.calls[k].result = "unknown"
               PROVE  HasUnknown(t) \/ (r = "unknown" /\ t.calls[t.cursor].side)
    BY DEF HasUnknown
  <2>1. k \in 1..t.count /\ k \in 1..MaxCalls
    BY <1>4, AgentLoopAssumption DEF Loose, SameButCalls
  <2> QED BY <1>3, <1>4, <2>1 DEF HasUnknown
<1> QED BY <1>4, <1>5 DEF u

LEMMA PairNextIsHonest ==
  ASSUME NEW t, Honest(t), NEW r \in Results \ {"unknown"}
  PROVE  Honest(PairNext(t, r)) /\ SameButCalls(t, PairNext(t, r))
<1>1. t \in Loose
  BY DEF Honest, Sound
<1> DEFINE u == PairNext(t, r)
<1>2. u \in Loose /\ SameButCalls(t, u) /\ (HasUnknown(u) => HasUnknown(t))
  BY <1>1, PairNextKeeps
<1> HIDE DEF u
<1>3. Honest(u) /\ SameButCalls(t, u)
  BY <1>2 DEF Honest, Sound, Clean, SameButCalls
<1> QED BY <1>3 DEF u

\* start_tool, asked in a state that has an edge to DispatchingTools or is it.
LEMMA StartToolHonest ==
  ASSUME NEW s, NEW t, Honest(t), MayBe(s, "DispatchingTools"), StartTool(s, t)
  PROVE  PInv'
<1> DEFINE late == [t EXCEPT !.late = TRUE]
           out(r) == [t EXCEPT !.tool = t.cursor, !.returned = r]
<1>1. t \in Loose /\ Sound(t) /\ Precedes(t.last)
  BY DEF Honest, Sound
<1>2. CASE FinishCancelled(s, t)
  BY <1>1, <1>2, FinishCancelledSound
<1>3. CASE FinishCancelled(s, late)
  <2>1. late \in Loose
    BY <1>1 DEF Loose
  <2>2. Sound(late)
    BY <1>1, <2>1 DEF Sound, Clean, HasUnknown, Loose
  <2> QED BY <1>3, <2>2, FinishCancelledSound
<1>4. CASE Raise(s, t)
  BY <1>4, RaiseHonest
<1>5. CASE Lost("ExecutingTool", t)
  BY <1>1, <1>5, LostPrecedes
<1>6. ASSUME NEW r \in RealResults \cup {"none"}, Become("ExecutingTool", out(r))
      PROVE  PInv'
  <2>1. out(r) \in Loose
    BY <1>1 DEF Loose
  <2>2. Honest(out(r))
    BY <1>1, <2>1 DEF Honest, Sound, Clean, HasUnknown, Loose
  <2> QED BY <1>6, <2>2, BecomeHonest
<1> QED BY <1>2, <1>3, <1>4, <1>5, <1>6 DEF StartTool

LEMMA DispatchNextHonest ==
  ASSUME NEW t, Honest(t), DispatchNext(t) PROVE PInv'
<1> DEFINE s == "DispatchingTools"
           late == [t EXCEPT !.late = TRUE]
           failed == PairNext(t, "error")
           denied == PairNext(t, "skipped")
<1>1. t \in Loose /\ Sound(t) /\ Precedes(t.last) /\ t.cancel = "none" /\ MayBe(s, s)
  BY DEF Honest, Sound, MayBe
<1>2. Honest(failed) /\ Honest(denied) /\ Sound(failed) /\ May(failed, "error")
  BY PairNextIsHonest DEF Results, RealResults, Honest, May
<1>3. Honest(Await(t, {})) /\ Honest(Await(t, {"approval"}))
      /\ Honest(Await(t, {"review"} \cup {})) /\ Honest(Await(t, {"review"} \cup {"approval"}))
  BY AwaitIsHonest DEF Gates
<1>4. CASE SkipAndFinalize(s, late, "budget_exhausted")
  <2>1. late \in Loose
    BY <1>1 DEF Loose
  <2>2. Sound(late) /\ May(late, "budget_exhausted")
    BY <1>1, <2>1 DEF Sound, Clean, HasUnknown, Loose, May
  <2> QED BY <1>4, <2>2, SkipAndFinalizeSound
<1> HIDE DEF late, failed, denied
<1>5. CASE \/ Lost(s, t)
           \/ Stuck(s, failed) \/ AbandonBatch(s, failed)
           \/ SkipAndFinalize(s, failed, "error")
           \/ AbandonBatch(s, denied)
  BY <1>1, <1>2, <1>5, LostPrecedes, StuckHonest, AbandonBatchHonest, SkipAndFinalizeSound
<1>6. CASE Become("AwaitingApproval", Pend(Await(t, {"approval"}), "approval"))
  BY <1>3, <1>6, PendIsHonest, BecomeHonest DEF PendingKinds
<1>7. ASSUME NEW after \in {{}, {"approval"}},
             BeginReview("EvaluatingAction",
               Pend(Await(t, {"review"} \cup after), "action-review"), "action")
      PROVE  PInv'
  <2>1. Honest(Await(t, {"review"} \cup after))
    BY <1>3
  <2> QED BY <1>7, <2>1, PendIsHonest, BeginReviewHonest DEF PendingKinds
<1>8. CASE StartTool(s, Await(t, {}))
  BY <1>1, <1>3, <1>8, StartToolHonest
<1> QED
  BY <1>1, <1>4, <1>5, <1>6, <1>7, <1>8 DEF DispatchNext, late, failed, denied

\* A result ends the turn, or lets a turn go on that was not cancelled.
LEMMA AcceptResultSound ==
  ASSUME NEW t, Sound(t), t.pending # "model-yield", NEW r \in RealResults,
         AcceptResult(t, r)
  PROVE  PInv'
<1> DEFINE s == "ExecutingTool"
           more == IF t.cursor < t.count THEN "DispatchingTools" ELSE s
           free(escape) == [t EXCEPT !.tool = 0, !.escape = escape]
           p(escape) == PairNext(free(escape), r)
           o == UnknownOutcome(t.calls[t.cursor])
<1>1. t \in Loose /\ Precedes(t.last)
  BY DEF Sound
<1>2. CASE Lost(s, t)
  BY <1>1, <1>2, LostPrecedes
<1>3. ASSUME NEW escape \in {FALSE, t.escape},
             \/ r = "unknown" /\ SkipAndFinalize(more, p(escape), o)
             \/ r # "unknown" /\ Cancelling(p(escape)) /\ FinishCancelled(s, p(escape))
             \/ /\ r # "unknown" /\ ~Cancelling(p(escape))
                /\ \/ InjectSteer(s, p(escape))
                   \/ Stuck(more, p(escape)) \/ AbandonBatch(more, p(escape))
                   \/ CompleteBatch(s, p(escape)) \/ DispatchNext(p(escape))
      PROVE  PInv'
  <2> DEFINE f == free(escape)
             u == PairNext(f, r)
  <2>1. f \in Loose
    BY <1>1 DEF Loose
  <2>2. /\ Sound(f) /\ f.pending # "model-yield"
        /\ f.calls[f.cursor] = t.calls[t.cursor]
    BY <1>1, <2>1 DEF Sound, Clean, HasUnknown, Loose
  <2> HIDE DEF f
  <2>3. /\ u \in Loose /\ SameButCalls(f, u)
        /\ HasUnknown(u) => r = "unknown" /\ t.calls[t.cursor].side
    <3>1. r \in Results
      BY DEF Results
    <3> QED BY <2>1, <2>2, <3>1, PairNextKeeps DEF Sound, Clean
  <2> HIDE DEF u
  <2>4. u.pending # "model-yield" /\ Precedes(u.last) /\ (u.gap => u.checked)
    BY <2>2, <2>3 DEF SameButCalls, Sound, Clean
  <2>5. CASE r = "unknown" /\ SkipAndFinalize(more, u, o)
    <3> DEFINE v == SkipRemaining(u)
    <3>1. v \in Loose /\ SameButCalls(u, v) /\ (HasUnknown(v) => t.calls[t.cursor].side)
      BY <2>3, SkipRemainingKeeps
    <3> HIDE DEF v
    <3>2. o \in {"unknown_side_effect", "error"} /\ o \in Outcomes
          /\ (HasUnknown(v) => o = "unknown_side_effect")
      BY <3>1 DEF UnknownOutcome, Outcomes
    <3> HIDE DEF o
    <3>3. Summary(v, o) \in Ended /\ Precedes(Summary(v, o)) /\ Precedes(v.last)
      BY <2>4, <3>1, <3>2, LooseSummary DEF Precedes, Summary, SameButCalls
    <3>4. CASE LostSkipping(more, u)
      BY <2>3, <2>4, <3>4, LostSkippingPrecedes
    <3>5. CASE Finalize(v, o)
      BY <3>1, <3>3, <3>5, FinalizePrecedes
    <3> QED BY <2>5, <3>4, <3>5 DEF SkipAndFinalize, v
  <2>6. ASSUME r # "unknown" PROVE Sound(u)
    BY <2>3, <2>4, <2>6 DEF Sound, Clean
  <2>7. CASE r # "unknown" /\ FinishCancelled(s, u)
    BY <2>6, <2>7, FinishCancelledSound DEF MayBe, Edge, NextStates
  <2>8. CASE /\ r # "unknown" /\ ~Cancelling(u)
             /\ \/ InjectSteer(s, u) \/ Stuck(more, u) \/ AbandonBatch(more, u)
                \/ CompleteBatch(s, u) \/ DispatchNext(u)
    <3>1. Honest(u) /\ u.cancel = "none"
      BY <2>4, <2>6, <2>8 DEF Cancelling, Honest
    <3> QED BY <2>4, <2>6, <2>8, <3>1, InjectSteerHonest, StuckHonest, AbandonBatchHonest,
               CompleteBatchHonest, DispatchNextHonest
  <2> QED BY <1>3, <2>5, <2>7, <2>8 DEF u, f
<1> QED BY <1>2, <1>3 DEF AcceptResult

-----------------------------------------------------------------------------
(* The calls keep the invariant.                                           *)

LEMMA Resumed ==
  ASSUME IInv, PInv, ~halted
  PROVE  /\ main \in Loose /\ Sound(main) /\ Precedes(main.last)
         /\ Attends(state, main) /\ Resting(state, main)
BY MainIsLoose DEF PInv, Sound, IInv

LEMMA StartMainPrecedes == ASSUME IInv, PInv, StartMain PROVE PInv'
<1>1. main.serial + 1 \in Nat /\ main.last \in Ended /\ Precedes(main.last)
  BY Resumed DEF StartMain, Live, Loose
<1>2. Honest(FreshTurn(main.serial + 1, main.last))
  BY <1>1, FreshTurnIsHonest
<1> QED BY <1>1, <1>2, LostPrecedes, RequestModelHonest DEF StartMain

LEMMA TimeExpiresPrecedes == ASSUME IInv, PInv, TimeExpires PROVE PInv'
<1> DEFINE u == [main EXCEPT !.late = TRUE]
<1>1. main \in Loose /\ Sound(main) /\ Attends(state, main) /\ Become(state, u)
  BY Resumed DEF TimeExpires
<1>2. u \in Loose
  BY <1>1 DEF Loose
<1>3. Sound(u) /\ Attends(state, u)
  BY <1>1, <1>2 DEF Sound, Clean, HasUnknown, Attends, Busy, Loose
<1> QED BY <1>1, <1>3, BecomeAttends

LEMMA ModelEventPrecedes == ASSUME IInv, PInv, ModelEvent PROVE PInv'
<1>1. /\ Sound(main) /\ Attends(state, main) /\ Become("Streaming", main)
      /\ main.request /\ main.pending = "none"
  BY Resumed DEF ModelEvent, Live, Resting, RequestRests
<1> QED BY <1>1, BecomeAttends DEF Attends

\* A deferred request means that nothing is out: the turn is not cancelled.
LEMMA ResolvePreflightPrecedes == ASSUME IInv, PInv, ResolvePreflight PROVE PInv'
<1> DEFINE t == [main EXCEPT !.preflight = "none"]
           kind == IF main.preflight # "main" /\ HoldsCall(main.pending)
                   THEN "blocked-action" ELSE "compaction-preflight"
<1>1. /\ main \in Loose /\ Sound(main) /\ Attends(state, main)
      /\ Resting(state, main) /\ main.preflight # "none"
  BY Resumed DEF ResolvePreflight, Live
<1>2. Honest(main)
  BY <1>1 DEF Resting, PreflightRests, StateRests, Open, Attends, Busy, Honest
<1>3. t \in Loose
  BY <1>1 DEF Loose
<1>4. Honest(t)
  BY <1>1, <1>2, <1>3 DEF Honest, Sound, Clean, HasUnknown, Loose
<1>5. main.preflight \in Reviewed \/ main.preflight = "main"
  BY <1>1 DEF Loose, Reviewed
<1>6. [t EXCEPT !.pending = kind] = Pend(t, kind) /\ kind \in PendingKinds \ {"model-yield"}
  BY DEF Pend, PendingKinds
<1>7. \/ StartModel(state, t)
      \/ main.preflight # "main" /\ StartReview(state, t, main.preflight)
      \/ Raise(state, t)
      \/ Become("WaitingUser", [t EXCEPT !.pending = kind])
  BY DEF ResolvePreflight
<1> HIDE DEF t, kind
<1> QED BY <1>4, <1>5, <1>6, <1>7, StartModelHonest, StartReviewHonest, RaiseHonest,
           PendIsHonest, BecomeHonest

LEMMA ToolResultPrecedes == ASSUME IInv, PInv, ToolResult PROVE PInv'
<1>1. Sound(main) /\ main.pending = "none"
  BY Resumed DEF ToolResult, Live, Resting, ToolRests
<1> QED BY <1>1, AcceptResultSound DEF ToolResult

LEMMA AcceptReturnedPrecedes == ASSUME IInv, PInv, AcceptReturned PROVE PInv'
<1> DEFINE u == [main EXCEPT !.returned = "none"]
<1>1. /\ main \in Loose /\ Sound(main) /\ main.pending = "none"
      /\ main.returned \in RealResults /\ AcceptResult(u, main.returned)
  BY Resumed DEF AcceptReturned, Resting, ToolRests, Loose
<1>2. u \in Loose
  BY <1>1 DEF Loose
<1>3. Sound(u) /\ u.pending = "none"
  BY <1>1, <1>2 DEF Sound, Clean, HasUnknown, Loose
<1> QED BY <1>1, <1>3, AcceptResultSound

\* The calls of a durable response have no result yet.
LEMMA AcceptIsClean ==
  ASSUME NEW t \in Loose, NEW n \in 1..MaxCalls, NEW side \in [1..MaxCalls -> BOOLEAN]
  PROVE  /\ Accept(t, n, side) \in Loose
         /\ ~HasUnknown(Accept(t, n, side))
         /\ Accept(t, n, side).cancel = t.cancel /\ Accept(t, n, side).steer = t.steer
         /\ Accept(t, n, side).gap = t.gap /\ Accept(t, n, side).checked = t.checked
         /\ Accept(t, n, side).pending = t.pending /\ Accept(t, n, side).last = t.last
<1> DEFINE c == [k \in 1..MaxCalls |-> IF k \in 1..n THEN [NoCall EXCEPT !.side = side[k]]
                                                     ELSE NoCall]
           u == Accept(t, n, side)
<1>1. ASSUME NEW k \in 1..MaxCalls
      PROVE  c[k] \in Call /\ c[k].result = "none"
  BY DEF NoCall, Call, Gates, Results
<1>2. c \in [1..MaxCalls -> Call]
  BY <1>1
<1> HIDE DEF c
<1>3. n \in 0..MaxCalls /\ 1 \in Nat
  BY AgentLoopAssumption
<1>4. u = [t EXCEPT !.count = n, !.cursor = 1, !.calls = c]
  BY DEF Accept, c
<1>5. /\ u \in Loose /\ u.calls = c /\ u.count = n
      /\ u.cancel = t.cancel /\ u.steer = t.steer /\ u.gap = t.gap
      /\ u.checked = t.checked /\ u.pending = t.pending /\ u.last = t.last
  BY <1>2, <1>3, <1>4 DEF Loose
<1> HIDE DEF u
<1>6. ~HasUnknown(u)
  BY <1>1, <1>3, <1>5, AgentLoopAssumption DEF HasUnknown
<1> QED BY <1>5, <1>6 DEF u

LEMMA ModelResponsePrecedes == ASSUME IInv, PInv, ModelResponse PROVE PInv'
<1> DEFINE s == "Streaming"
           cancel == IF main.late /\ main.cancel = "none"
                     THEN "budget_exhausted" ELSE main.cancel
           t == [main EXCEPT !.request = FALSE, !.cancel = cancel]
           batch(n, side) == Accept(t, n, side)
           Sides == [1..MaxCalls -> BOOLEAN]
<1>1. /\ main \in Loose /\ Sound(main) /\ Precedes(main.last) /\ main.pending = "none"
  BY Resumed DEF ModelResponse, Live, Resting, RequestRests
<1>2. t \in Loose /\ t.pending = "none"
  <2>1. cancel \in {"none", "cancelled", "budget_exhausted"}
    BY <1>1 DEF Loose
  <2> HIDE DEF cancel
  <2> QED BY <1>1, <2>1 DEF Loose
<1>3. Sound(t) /\ t.cancel \in {"none", "cancelled", "budget_exhausted"}
  BY <1>1, <1>2 DEF Sound, Clean, HasUnknown, Loose
<1>4. \/ Finalize(main, "error")
      \/ Lost(s, main)
      \/ t.cancel # "none" /\ Finalize(t, t.cancel)
      \/ t.cancel # "none" /\ \E n \in 1..MaxCalls, side \in Sides :
           SkipAndFinalize("DispatchingTools", batch(n, side), t.cancel)
      \/ t.cancel = "none" /\ InjectSteer(s, t)
      \/ t.cancel = "none" /\ \E n \in 1..MaxCalls, side \in Sides :
           InjectSteer("DispatchingTools", batch(n, side))
      \/ /\ t.cancel = "none" /\ ~t.steer
         /\ \/ \E o \in {"cancelled", "budget_exhausted", "error", "refused"} :
                 Finalize(t, o)
            \/ CompleteResponse(t)
            \/ Become("WaitingUser", Pend(t, "ask-user"))
            \/ Become("WaitingUser", Pend(t, "model-yield"))
      \/ /\ t.cancel = "none"
         /\ \E n \in 1..MaxCalls, side \in Sides, escape \in {FALSE, t.escape} :
              LET u == [batch(n, side) EXCEPT !.escape = escape]
              IN \/ SkipAndFinalize("DispatchingTools", u, "budget_exhausted")
                 \/ Stuck("DispatchingTools", u)
                 \/ DispatchNext(u)
  BY DEF ModelResponse
<1> HIDE DEF t
<1>5. ASSUME NEW n \in 1..MaxCalls, NEW side \in Sides
      PROVE  /\ Sound(batch(n, side)) /\ batch(n, side).cancel = t.cancel
             /\ batch(n, side).pending = "none"
  BY <1>2, <1>3, AcceptIsClean DEF Sound, Clean
<1> HIDE DEF batch
<1>6. CASE Finalize(main, "error")
  BY <1>1, <1>6, FinalizeSound DEF May
<1>7. CASE Lost(s, main)
  BY <1>1, <1>7, LostPrecedes
<1>8. CASE t.cancel # "none" /\ Finalize(t, t.cancel)
  BY <1>3, <1>8, FinalizeSound DEF May
<1>9. CASE t.cancel # "none" /\ \E n \in 1..MaxCalls, side \in Sides :
             SkipAndFinalize("DispatchingTools", batch(n, side), t.cancel)
  BY <1>3, <1>5, <1>9, SkipAndFinalizeSound DEF May
<1>10. CASE t.cancel = "none" /\ InjectSteer(s, t)
  BY <1>2, <1>3, <1>10, InjectSteerHonest
<1>11. CASE t.cancel = "none" /\ \E n \in 1..MaxCalls, side \in Sides :
              InjectSteer("DispatchingTools", batch(n, side))
  BY <1>5, <1>11, InjectSteerHonest
<1>12. ASSUME t.cancel = "none", ~t.steer,
              \/ \E o \in {"cancelled", "budget_exhausted", "error", "refused"} :
                   Finalize(t, o)
              \/ CompleteResponse(t)
              \/ Become("WaitingUser", Pend(t, "ask-user"))
       PROVE  PInv'
  <2>1. Honest(t) /\ Honest(Pend(t, "ask-user"))
    BY <1>2, <1>3, <1>12, PendIsHonest DEF Honest, PendingKinds
  <2> QED BY <1>3, <1>12, <2>1, FinalizeSound, CompleteResponseHonest, BecomeHonest DEF May
<1>13. ASSUME t.cancel = "none", ~t.steer, Become("WaitingUser", Pend(t, "model-yield"))
       PROVE  PInv'
  <2> DEFINE u == Pend(t, "model-yield")
  <2>1. u \in Loose
    BY <1>2 DEF Loose, Pend, PendingKinds
  <2>2. Sound(u) /\ Attends("WaitingUser", u)
    BY <1>2, <1>3, <1>13, <2>1 DEF Sound, Clean, HasUnknown, Attends, Loose, Pend
  <2> QED BY <1>13, <2>2, BecomeAttends
<1>14. ASSUME t.cancel = "none",
              NEW n \in 1..MaxCalls, NEW side \in Sides, NEW escape \in {FALSE, t.escape},
              LET u == [batch(n, side) EXCEPT !.escape = escape]
              IN \/ SkipAndFinalize("DispatchingTools", u, "budget_exhausted")
                 \/ Stuck("DispatchingTools", u)
                 \/ DispatchNext(u)
       PROVE  PInv'
  <2> DEFINE b == batch(n, side)
             u == [b EXCEPT !.escape = escape]
  <2>1. Sound(b) /\ b.cancel = "none" /\ b.pending = "none" /\ escape \in BOOLEAN
    BY <1>2, <1>5, <1>14 DEF Loose
  <2> HIDE DEF b
  <2>2. u \in Loose
    BY <2>1 DEF Sound, Loose
  <2>3. Honest(u) /\ Sound(u) /\ May(u, "budget_exhausted")
    BY <2>1, <2>2 DEF Honest, Sound, Clean, HasUnknown, Loose, May
  <2> HIDE DEF u
  <2> QED BY <1>14, <2>3, SkipAndFinalizeSound, StuckHonest, DispatchNextHonest DEF u, b
<1> QED
  BY <1>4, <1>6, <1>7, <1>8, <1>9, <1>10, <1>11, <1>12, <1>13, <1>14

\* A turn that waits with nothing out was not cancelled.
LEMMA OpenIsHonest ==
  ASSUME Sound(main), Attends(state, main), Open(main), main.pending # "model-yield"
  PROVE  Honest(main)
BY DEF Attends, Open, Busy, Honest

LEMMA ApprovalPrecedes == ASSUME IInv, PInv, Approval PROVE PInv'
<1> DEFINE t == Pend(main, "none")
           u == Await(t, t.calls[t.cursor].gates \ {"approval"})
<1>1. /\ main \in Loose /\ Sound(main) /\ Precedes(main.last) /\ Honest(main)
      /\ Owing(main)
  BY Resumed, OpenIsHonest DEF Approval, Live, Resting, PendingRests
<1>2. Honest(t)
  BY <1>1, PendIsHonest DEF PendingKinds
<1>3. t.calls[t.cursor].gates \ {"approval"} \in SUBSET Gates
  <2>1. t.calls \in [1..MaxCalls -> Call] /\ t.cursor \in 1..MaxCalls
    <3>1. t.calls = main.calls /\ t.cursor = main.cursor
      BY <1>1 DEF Pend, Loose
    <3>2. main.cursor \in 1..MaxCalls
      BY <1>1, AgentLoopAssumption DEF IInv, TypeOK, Turn, Owing
    <3> QED BY <1>1, <3>1, <3>2 DEF Loose
  <2> QED BY <2>1 DEF Call
<1>4. Honest(PairNext(t, "skipped"))
  BY <1>2, PairNextIsHonest DEF Results, RealResults
<1>5. \/ Lost(state, main)
      \/ Become("WaitingUser", main)
      \/ AbandonBatch("DispatchingTools", PairNext(t, "skipped"))
      \/ StartTool("AwaitingApproval", u)
  BY DEF Approval
<1> HIDE DEF t
<1>6. Honest(u)
  BY <1>2, <1>3, AwaitIsHonest
<1> HIDE DEF u
<1>7. MayBe("AwaitingApproval", "DispatchingTools")
  BY DEF MayBe, Edge, NextStates
<1> QED BY <1>1, <1>4, <1>5, <1>6, <1>7, LostPrecedes, BecomeHonest, AbandonBatchHonest,
           StartToolHonest

\* A review that has answered is forgotten.
LEMMA ForgetIsSound ==
  ASSUME NEW t, Sound(t)
  PROVE  LET u == [t EXCEPT !.review = "none"]
         IN /\ Sound(u) /\ u.cancel = t.cancel /\ u.pending = t.pending
            /\ u.calls = t.calls /\ u.cursor = t.cursor /\ u.count = t.count
            /\ u.steer = t.steer
<1> DEFINE u == [t EXCEPT !.review = "none"]
<1>1. t \in Loose /\ u \in Loose
  BY DEF Sound, Loose, Reviewed
<1> QED BY <1>1 DEF Sound, Clean, HasUnknown, Loose

LEMMA ActionReviewPrecedes == ASSUME IInv, PInv, ActionReview PROVE PInv'
<1> DEFINE t == [main EXCEPT !.review = "none"]
           a == Await(t, t.calls[t.cursor].gates \ {"review"})
           u == Pend(a, "none")
<1>1. /\ main \in Loose /\ Sound(main) /\ Precedes(main.last) /\ Owing(main)
      /\ state = "EvaluatingAction" /\ main.pending = "action-review"
  BY Resumed DEF ActionReview, Live, Resting, PendingRests
<1>2. /\ Sound(t) /\ t.cancel = main.cancel /\ t.pending = "action-review"
      /\ t.calls = main.calls /\ t.cursor = main.cursor
  BY <1>1, ForgetIsSound
<1>3. \/ Lost(state, main)
      \/ FinishCancelled(state, t)
      \/ /\ ~Cancelling(t)
         /\ \/ InjectSteer(state, t)
            \/ Become("WaitingUser", t)
            \/ AbandonBatch("DispatchingTools", PairNext(u, "skipped"))
            \/ Become("AwaitingApproval", Pend(u, "approval"))
            \/ StartTool(state, u)
  BY DEF ActionReview
<1>4. t.calls[t.cursor].gates \ {"review"} \in SUBSET Gates
  <2>1. t.calls \in [1..MaxCalls -> Call] /\ t.cursor \in 1..MaxCalls
    BY <1>1, <1>2, AgentLoopAssumption DEF IInv, TypeOK, Turn, Owing, Loose
  <2> QED BY <2>1 DEF Call
<1>5. MayBe(state, "DispatchingTools")
  BY <1>1 DEF MayBe, Edge, NextStates
<1> HIDE DEF t
<1>6. ASSUME ~Cancelling(t)
      PROVE  /\ Honest(t) /\ Honest(u) /\ Honest(Pend(u, "approval"))
             /\ Honest(PairNext(u, "skipped")) /\ t.cancel = "none"
  <2>1. Honest(t) /\ t.cancel = "none"
    BY <1>2, <1>6 DEF Cancelling, Honest
  <2>2. Honest(a)
    BY <1>4, <2>1, AwaitIsHonest
  <2> HIDE DEF a
  <2>3. Honest(u)
    BY <2>2, PendIsHonest DEF PendingKinds
  <2> HIDE DEF u
  <2> QED BY <2>1, <2>3, PendIsHonest, PairNextIsHonest DEF PendingKinds, Results, RealResults
<1> HIDE DEF u
<1> QED BY <1>1, <1>2, <1>3, <1>5, <1>6, LostPrecedes, FinishCancelledSound,
           InjectSteerHonest, BecomeHonest, AbandonBatchHonest, StartToolHonest

LEMMA TerminationReviewPrecedes == ASSUME IInv, PInv, TerminationReview PROVE PInv'
<1> DEFINE t == [main EXCEPT !.review = "none", !.pending = "none"]
           pass == [t EXCEPT !.checked = TRUE]
           gap == [t EXCEPT !.checked = TRUE, !.gap = TRUE]
<1>1. /\ main \in Loose /\ Sound(main) /\ Precedes(main.last) /\ AllPaired(main)
  BY Resumed DEF TerminationReview, Live, Resting, ReviewRests
<1>2. t \in Loose
  BY <1>1 DEF Loose, Reviewed, PendingKinds
<1>3. Sound(t) /\ t.pending = "none" /\ AllPaired(t)
  BY <1>1, <1>2 DEF Sound, Clean, HasUnknown, Loose, AllPaired
<1>4. \/ Lost(state, main)
      \/ FinishCancelled(state, t)
      \/ /\ ~Cancelling(t)
         /\ \/ InjectSteer(state, t)
            \/ ~t.steer /\ Complete(pass)
            \/ RequestModel(state, gap)
            \/ Become("WaitingUser", Pend(t, "termination-review"))
  BY DEF TerminationReview
<1> HIDE DEF t, pass, gap
<1>5. ASSUME ~Cancelling(t)
      PROVE  /\ t.cancel = "none" /\ Honest(gap) /\ Honest(Pend(t, "termination-review"))
             /\ Sound(pass) /\ (~t.steer => May(pass, "completed"))
  <2>1. Honest(t) /\ t.cancel = "none"
    BY <1>3, <1>5 DEF Cancelling, Honest
  <2>2. pass \in Loose
    BY <1>2 DEF Loose, pass
  <2>3. gap \in Loose
    BY <1>2 DEF Loose, gap
  <2>4. Sound(pass) /\ (~t.steer => May(pass, "completed"))
    BY <1>2, <1>3, <2>1, <2>2 DEF Sound, Clean, HasUnknown, Loose, May, pass
  <2>5. Honest(gap)
    BY <1>2, <2>1, <2>3 DEF Honest, Sound, Clean, HasUnknown, Loose, gap
  <2> QED BY <2>1, <2>4, <2>5, PendIsHonest DEF PendingKinds
<1> QED BY <1>1, <1>3, <1>4, <1>5, LostPrecedes, FinishCancelledSound, InjectSteerHonest,
           CompleteHonest, RequestModelHonest, BecomeHonest

LEMMA ReplyPrecedes == ASSUME IInv, PInv, Reply PROVE PInv'
<1>1. Sound(main) /\ Precedes(main.last) /\ Honest(main)
  BY Resumed, OpenIsHonest DEF Reply, Live, Resting, StateRests, Sound
<1>2. Honest(Pend(main, "none"))
  BY <1>1, PendIsHonest DEF PendingKinds
<1> QED BY <1>1, <1>2, LostPrecedes, RequestModelHonest DEF Reply

LEMMA ResolveYieldPrecedes == ASSUME IInv, PInv, ResolveYield PROVE PInv'
<1>1. Sound(main) /\ May(main, "partial")
  BY Resumed DEF ResolveYield, Live, Attends, May
<1> QED BY <1>1, FinalizeSound, StartNextHonest DEF ResolveYield

LEMMA SteerPrecedes == ASSUME IInv, PInv, Steer PROVE PInv'
<1> DEFINE t == [main EXCEPT !.steer = TRUE, !.steers = main.steers + 1]
           u == Interrupted(t)
<1>1. /\ main \in Loose /\ Sound(main) /\ Attends(state, main) /\ Resting(state, main)
      /\ Precedes(main.last) /\ main.cancel = "none"
  BY Resumed DEF Steer, Live
<1>2. /\ \/ Lost(state, main)
         \/ InjectSteer(state, t)
         \/ Active /\ Become(state, t)
         \/ main.tool # 0 /\ \E r \in RealResults : AcceptResult(t, r)
         \/ Active /\ InjectSteer(state, u)
  BY DEF Steer
<1>3. t \in Loose
  <2>1. main.steers + 1 \in Nat
    BY <1>1 DEF Loose
  <2> QED BY <1>1, <2>1 DEF Loose
<1>4. /\ Sound(t) /\ t.cancel = "none" /\ t.pending = main.pending
      /\ (AllPaired(main) => AllPaired(t))
  BY <1>1, <1>3 DEF Sound, Clean, HasUnknown, Loose, AllPaired
<1>5. main.pending = "model-yield" => AllPaired(main) /\ ~Active
  BY <1>1 DEF Resting, PendingRests, StateRests, Open, Attends, Active
<1>6. main.tool # 0 => main.pending = "none"
  BY <1>1 DEF Resting, ToolRests
<1>7. Active => Honest(t)
  BY <1>4, <1>5 DEF Honest
<1> HIDE DEF t
<1>8. u \in Loose
  BY <1>3 DEF Loose, Interrupted, Reviewed
<1>9. Sound(u) /\ u.cancel = "none" /\ u.pending = main.pending
  BY <1>3, <1>4, <1>8 DEF Sound, Clean, HasUnknown, Loose, Interrupted
<1> HIDE DEF u
<1>10. CASE InjectSteer(state, t)
  BY <1>4, <1>5, <1>10, InjectSteerHonest
<1>11. CASE Active /\ InjectSteer(state, u)
  BY <1>5, <1>9, <1>11, InjectSteerHonest
<1>12. CASE main.tool # 0 /\ \E r \in RealResults : AcceptResult(t, r)
  BY <1>4, <1>6, <1>12, AcceptResultSound
<1> QED BY <1>1, <1>2, <1>7, <1>10, <1>11, <1>12, LostPrecedes, BecomeHonest

LEMMA CancelTurnPrecedes ==
  ASSUME IInv, PInv, ~halted, state # "Idle", NEW outcome \in {"cancelled", "budget_exhausted"},
         CancelTurn(outcome)
  PROVE  PInv'
<1> DEFINE t == [main EXCEPT !.cancel = outcome]
           u == [t EXCEPT !.review = "none"]
<1>1. /\ main \in Loose /\ Sound(main) /\ Attends(state, main) /\ Resting(state, main)
      /\ Precedes(main.last)
  BY Resumed
<1>2. \/ Lost(state, main)
      \/ main.review # "none" /\ Become(state, t)
      \/ SkipAndFinalize(state, u, outcome)
      \/ Finalize(u, outcome)
      \/ main.tool # 0 /\ \E r \in RealResults : AcceptResult(u, r)
      \/ (main.tool # 0 \/ main.request) /\ Become(state, u)
  BY DEF CancelTurn
<1>3. t \in Loose
  BY <1>1 DEF Loose
<1>4. /\ Sound(t) /\ t.pending = main.pending /\ t.review = main.review
      /\ t.tool = main.tool /\ t.request = main.request
  BY <1>1, <1>3 DEF Sound, Clean, HasUnknown, Loose
<1> HIDE DEF t
<1>5. /\ Sound(u) /\ u.pending = main.pending /\ u.tool = main.tool
      /\ u.request = main.request
  <2>1. u \in Loose
    BY <1>3 DEF Loose, Reviewed
  <2> QED BY <1>3, <1>4, <2>1 DEF Sound, Clean, HasUnknown, Loose
<1> HIDE DEF u
<1>6. main.tool # 0 \/ main.request => main.pending = "none"
  BY <1>1 DEF Resting, ToolRests, RequestRests
<1>7. main.review # "none" => main.pending # "model-yield"
  BY <1>1 DEF Resting, StateRests, Open, Attends
<1>8. May(u, outcome)
  BY DEF May
<1>9. main.review # "none" => Attends(state, t)
  BY <1>4, <1>7 DEF Attends, Busy
<1>10. main.tool # 0 \/ main.request => Attends(state, u)
  BY <1>5, <1>6 DEF Attends, Busy
<1>11. CASE main.tool # 0 /\ \E r \in RealResults : AcceptResult(u, r)
  BY <1>5, <1>6, <1>11, AcceptResultSound
<1> QED BY <1>1, <1>2, <1>4, <1>5, <1>8, <1>9, <1>10, <1>11, LostPrecedes, BecomeAttends,
           SkipAndFinalizeSound, FinalizeSound

LEMMA CancelPrecedes == ASSUME IInv, PInv, Cancel PROVE PInv'
BY CancelTurnPrecedes DEF Cancel, Live, Cancellable, NoTurnStates

LEMMA TickPrecedes == ASSUME IInv, PInv, Tick PROVE PInv'
<1> DEFINE u == [main EXCEPT !.cut = TRUE]
<1>1. main \in Loose /\ Sound(main) /\ ~halted /\ state # "Idle"
  BY Resumed DEF Tick, Live, Cancellable, NoTurnStates
<1>2. u \in Loose
  BY <1>1 DEF Loose
<1>3. Sound(u) /\ May(u, "budget_exhausted")
  BY <1>1, <1>2 DEF Sound, Clean, HasUnknown, Loose, May
<1>4. CancelTurn("budget_exhausted") \/ Finalize(u, "budget_exhausted")
  BY DEF Tick
<1> QED BY <1>1, <1>3, <1>4, CancelTurnPrecedes, FinalizeSound

LEMMA ClosePrecedes == ASSUME IInv, PInv, Close PROVE PInv'
<1>1. CASE halted /\ Become("Closing", main)
  BY <1>1 DEF Become, PInv
<1>2. CASE ~halted /\ state \in {"Idle", "Finalizing"} /\ Become("Closing", main)
  BY <1>2, Resumed, BecomeAttends DEF Attends
<1>3. CASE ~halted /\ state # "Idle" /\ CancelTurn("cancelled")
  BY <1>3, CancelTurnPrecedes
<1>4. CASE ~halted /\ Become(state, main)
  BY <1>4, Resumed, BecomeAttends
<1> QED BY <1>1, <1>2, <1>3, <1>4 DEF Close, Cancellable, NoTurnStates

-----------------------------------------------------------------------------
(* A cancelled turn starts nothing.                                        *)

\* The turn t has out only what the last call left out.
Keeps(t) ==
  /\ t.request => main.request
  /\ t.review # "none" => main.review # "none"
  /\ t.tool # 0 => main.tool # 0

LEMMA BecomeStartsNothing ==
  ASSUME NEW s, NEW t, Keeps(t), Become(s, t) PROVE ~Starts
BY DEF Become, Keeps, Starts

LEMMA LostStartsNothing ==
  ASSUME NEW s, NEW t, Keeps(t), Lost(s, t) PROVE ~Starts
<1>1. LET f == FreshTurn(t.serial, t.last)
      IN ~f.request /\ f.review = "none" /\ f.tool = 0
  BY DEF FreshTurn
<1> QED BY <1>1 DEF Lost, Keeps, Starts

LEMMA FinalizeStartsNothing ==
  ASSUME NEW t, Keeps(t), NEW o, Finalize(t, o) PROVE ~Starts
<1>1. Keeps(FreshTurn(t.serial, Summary(t, o)))
  BY DEF FreshTurn, Keeps
<1> QED BY <1>1, BecomeStartsNothing, LostStartsNothing DEF Finalize

LEMMA SkipAndFinalizeStartsNothing ==
  ASSUME NEW s, NEW t \in Loose, Keeps(t), NEW o, SkipAndFinalize(s, t, o)
  PROVE  ~Starts
<1>1. CASE LostSkipping(s, t)
  <2>1. PICK n \in t.cursor..t.count : Lost(s, SkipTo(t, n - 1))
    BY <1>1 DEF LostSkipping
  <2>2. Keeps(SkipTo(t, n - 1))
    BY DEF SkipTo, Loose, Keeps
  <2> QED BY <2>1, <2>2, LostStartsNothing
<1>2. CASE Finalize(SkipRemaining(t), o)
  <2>1. Keeps(SkipRemaining(t))
    BY SkipRemainingKeeps DEF SameButCalls, Keeps
  <2> QED BY <1>2, <2>1, FinalizeStartsNothing
<1> QED BY <1>1, <1>2 DEF SkipAndFinalize

LEMMA FinishCancelledStartsNothing ==
  ASSUME NEW s, NEW t \in Loose, Keeps(t), t.cancel # "none", FinishCancelled(s, t)
  PROVE  ~Starts
<1>1. CASE Raise(s, t)
  BY <1>1 DEF Raise, Keeps, Starts
<1>2. CASE SkipAndFinalize(s, t, t.cancel)
  BY <1>2, SkipAndFinalizeStartsNothing
<1> QED BY <1>1, <1>2 DEF FinishCancelled

LEMMA AcceptResultStartsNothing ==
  ASSUME NEW t \in Loose, Keeps(t), t.cancel # "none", NEW r \in RealResults,
         AcceptResult(t, r)
  PROVE  ~Starts
<1> DEFINE s == "ExecutingTool"
           more == IF t.cursor < t.count THEN "DispatchingTools" ELSE s
           o == UnknownOutcome(t.calls[t.cursor])
           free(escape) == [t EXCEPT !.tool = 0, !.escape = escape]
<1>1. CASE Lost(s, t)
  BY <1>1, LostStartsNothing
<1>2. ASSUME NEW escape \in {FALSE, t.escape},
             \/ SkipAndFinalize(more, PairNext(free(escape), r), o)
             \/ FinishCancelled(s, PairNext(free(escape), r))
             \/ ~Cancelling(PairNext(free(escape), r))
      PROVE  ~Starts
  <2> DEFINE f == free(escape)
             p == PairNext(f, r)
  <2>1. f \in Loose
    BY DEF Loose
  <2>2. Keeps(f) /\ f.cancel # "none"
    BY DEF Keeps, Loose
  <2> HIDE DEF f
  <2>3. p \in Loose /\ SameButCalls(f, p)
    <3>1. r \in Results
      BY DEF Results
    <3> QED BY <2>1, <3>1, PairNextKeeps
  <2> HIDE DEF p
  <2>4. Keeps(p) /\ p.cancel # "none" /\ Cancelling(p)
    BY <2>2, <2>3 DEF SameButCalls, Keeps, Cancelling
  <2> HIDE DEF more, o
  <2>5. SkipAndFinalize(more, p, o) \/ FinishCancelled(s, p)
    BY <1>2, <2>4 DEF p, f
  <2> QED BY <2>3, <2>4, <2>5, SkipAndFinalizeStartsNothing, FinishCancelledStartsNothing
<1> QED BY <1>1, <1>2 DEF AcceptResult

\* The answer of a review to a cancelled turn.
LEMMA ReviewStartsNothing ==
  ASSUME IInv, main.cancel # "none", ActionReview \/ TerminationReview PROVE ~Starts
<1> DEFINE a == [main EXCEPT !.review = "none"]
           t == [main EXCEPT !.review = "none", !.pending = "none"]
<1>1. main \in Loose /\ Keeps(main)
  BY MainIsLoose DEF Keeps
<1>2. a \in Loose /\ t \in Loose
  BY <1>1 DEF Loose, Reviewed, PendingKinds
<1>3. Keeps(a) /\ a.cancel # "none" /\ Keeps(t) /\ t.cancel # "none"
  BY <1>1, <1>2 DEF Keeps, Loose
<1>4. Cancelling(a) /\ Cancelling(t)
  BY <1>3 DEF Cancelling
<1>5. Lost(state, main) \/ FinishCancelled(state, a) \/ FinishCancelled(state, t)
  BY <1>4 DEF ActionReview, TerminationReview
<1> HIDE DEF a, t
<1> QED BY <1>1, <1>2, <1>3, <1>5, LostStartsNothing, FinishCancelledStartsNothing

\* The answer of the model to a cancelled turn.
LEMMA ResponseStartsNothing ==
  ASSUME IInv, main.cancel # "none", ModelResponse PROVE ~Starts
<1> DEFINE cancel == IF main.late /\ main.cancel = "none"
                     THEN "budget_exhausted" ELSE main.cancel
           t == [main EXCEPT !.request = FALSE, !.cancel = cancel]
<1>1. main \in Loose /\ Keeps(main)
  BY MainIsLoose DEF Keeps
<1>2. cancel = main.cancel
  OBVIOUS
<1> HIDE DEF cancel
<1>3. t \in Loose /\ t.cancel # "none" /\ Keeps(t)
  BY <1>1, <1>2 DEF Loose, Keeps
<1>4. \/ Finalize(main, "error")
      \/ Lost("Streaming", main)
      \/ Finalize(t, t.cancel)
      \/ \E n \in 1..MaxCalls, side \in [1..MaxCalls -> BOOLEAN] :
           SkipAndFinalize("DispatchingTools", Accept(t, n, side), t.cancel)
  BY <1>3 DEF ModelResponse, cancel
<1> HIDE DEF t
<1>5. ASSUME NEW n \in 1..MaxCalls, NEW side \in [1..MaxCalls -> BOOLEAN]
      PROVE  Accept(t, n, side) \in Loose /\ Keeps(Accept(t, n, side))
  <2>1. Accept(t, n, side) \in Loose
    BY <1>3, AcceptIsClean
  <2> QED BY <1>3, <2>1 DEF Accept, Loose, Keeps
<1> QED BY <1>1, <1>3, <1>4, <1>5, LostStartsNothing, FinalizeStartsNothing,
           SkipAndFinalizeStartsNothing

\* The answer of a tool to a cancelled turn.
LEMMA ToolStartsNothing ==
  ASSUME IInv, main.cancel # "none", ToolResult \/ AcceptReturned PROVE ~Starts
<1> DEFINE u == [main EXCEPT !.returned = "none"]
<1>1. main \in Loose /\ Keeps(main)
  BY MainIsLoose DEF Keeps
<1>2. u \in Loose /\ Keeps(u) /\ u.cancel # "none"
  BY <1>1 DEF Loose, Keeps
<1>3. main.returned # "none" => main.returned \in RealResults
  BY <1>1 DEF Loose
<1>4. \/ \E r \in RealResults : AcceptResult(main, r)
      \/ main.returned # "none" /\ AcceptResult(u, main.returned)
  BY DEF ToolResult, AcceptReturned
<1> HIDE DEF u
<1> QED BY <1>1, <1>2, <1>3, <1>4, AcceptResultStartsNothing

\* Only these calls find a cancelled turn: the answers of the activity it
\* waits for, the clock, and close().
LEMMA CancelledStartsNothing ==
  ASSUME IInv, PInv, [Next]_vars, main.cancel # "none"
  PROVE  ~Starts
<1>1. main \in Loose /\ Keeps(main)
  BY MainIsLoose DEF Keeps
<1>2. ASSUME ~halted
      PROVE  /\ main.preflight = "none" /\ main.pending # "approval"
             /\ state \notin {"WaitingUser", "Idle"}
  BY <1>2, Resumed DEF Attends, Busy, Resting, PreflightRests, PendingRests, StateRests, Open
<1>3. CASE UNCHANGED vars
  BY <1>3 DEF vars, Starts
<1>4. CASE TimeExpires
  <2>1. Keeps([main EXCEPT !.late = TRUE])
    BY <1>1 DEF Keeps, Loose
  <2> QED BY <1>4, <2>1, BecomeStartsNothing DEF TimeExpires
<1>5. CASE ModelEvent
  BY <1>1, <1>5, BecomeStartsNothing DEF ModelEvent
<1>6. CASE StartMain \/ ResolvePreflight \/ Approval \/ Reply \/ ResolveYield
  BY <1>2, <1>6 DEF StartMain, ResolvePreflight, Approval, Reply, ResolveYield, Live
<1>7. CASE Steer \/ Cancel \/ Tick
  BY <1>7 DEF Steer, Cancel, Tick, Cancellable
<1>8. CASE Close
  <2>1. Become("Closing", main) \/ Become(state, main)
    BY <1>8 DEF Close, Cancellable
  <2> QED BY <1>1, <2>1, BecomeStartsNothing
<1> QED
  BY <1>3, <1>4, <1>5, <1>6, <1>7, <1>8, ReviewStartsNothing, ResponseStartsNothing,
     ToolStartsNothing DEF Next

-----------------------------------------------------------------------------
(* The theorems.                                                           *)

LEMMA InitPrecedes == Init => PInv
<1> SUFFICES ASSUME Init PROVE PInv
  OBVIOUS
<1>1. NeverEnded \in Ended /\ Precedes(NeverEnded) /\ 0 \in Nat
  BY DEF NeverEnded, Ended, Precedes
<1>2. main = FreshTurn(0, NeverEnded)
  BY DEF Init
<1>3. Honest(main)
  BY <1>1, <1>2, FreshTurnIsHonest
<1> QED BY <1>3, HonestAttends DEF PInv, Honest, Sound

LEMMA NextPrecedes == IInv /\ PInv /\ [Next]_vars => PInv'
<1> SUFFICES ASSUME IInv, PInv, [Next]_vars PROVE PInv'
  OBVIOUS
<1>1. CASE UNCHANGED vars
  BY <1>1 DEF vars, PInv, Clean, HasUnknown, Attends, Busy
<1>2. CASE Next
  BY <1>2, StartMainPrecedes, TimeExpiresPrecedes, ResolvePreflightPrecedes,
     ModelEventPrecedes, ModelResponsePrecedes, ToolResultPrecedes,
     AcceptReturnedPrecedes, ApprovalPrecedes, ActionReviewPrecedes,
     TerminationReviewPrecedes, ReplyPrecedes, ResolveYieldPrecedes, SteerPrecedes,
     CancelPrecedes, TickPrecedes, ClosePrecedes DEF Next
<1> QED BY <1>1, <1>2

\* A cancelled turn only waits for the activity it has out, in every behaviour
\* of the loop, and nothing an unknown side effect, a cancel or a steer
\* outranks is ever reported as its outcome.
THEOREM Attended == Spec => []PInv
BY Rests, InitPrecedes, NextPrecedes, PTL DEF Spec

\* The outcome of a turn respects unknown side effects, cancel intent and
\* steer, in this order, before ordinary completion; a double-checked turn is
\* completed only after its review (finalize and every handler that calls it).
THEOREM TerminalPrecedenceHolds == Spec => []TerminalPrecedence
<1>1. PInv => TerminalPrecedence
  BY DEF PInv, Precedes, TerminalPrecedence
<1> QED BY Attended, <1>1, PTL

\* A turn whose cancel intent is durable only waits for the activity that is
\* out: no call starts another request, review or tool in it.
THEOREM NothingStartsAfterCancelHolds == Spec => NothingStartsAfterCancel
<1>1. IInv /\ PInv /\ [Next]_vars =>
        [main.cancel # "none" /\ main'.serial = main.serial => ~Starts]_vars
  BY CancelledStartsNothing
<1> QED BY Rests, Attended, <1>1, PTL DEF Spec, NothingStartsAfterCancel

=============================================================================
