----------------------------- MODULE TerminalPort -----------------------------
(* The terminal calls of the native layer and the AsyncPort that is their only   *)
(* caller (new of src/src/terminal.lua): start, poll, cancel, join, restore,     *)
(* close, and the collection of a terminal nobody refers to.                     *)
(*                                                                               *)
(* A call that waits, or reads several records, is taken in steps, with the user *)
(* and the threads in between.                                                   *)
EXTENDS TerminalMode

CONSTANT Budget      \* bound: events of one poll

ASSUME BudgetAssumption == Budget \in Nat \ {0}

VARIABLES
  call,        \* the native call that runs
  port,        \* the AsyncPort
  batch        \* observations that were handed over and not used yet

portVars == <<workerVars, host, term, call, port, batch>>

NoCall == [op |-> "none", at |-> "none", left |-> 0, events |-> <<>>]

NewPort == [state |-> "created", restored |-> FALSE, cancelled |-> FALSE,
            closing |-> FALSE, asked |-> FALSE, missed |-> {}]

Event(k, id) == [kind |-> k, id |-> id]

Ids(events) == {events[i].id : i \in 1..Len(events)} \ {None}

Idle == call.op = "none"

Attached == term.worker # None

Detached(t) == [t EXCEPT !.worker = None, !.announced = FALSE, !.late = FALSE]

\* The port lets go of its record, whether or not the thread has.
LetGo == work' = IF Attached THEN [work EXCEPT ![term.worker] = Released(@)] ELSE work

Costs(o) == faults' = faults + o.cost
-------------------------------------------------------------------------------
(* terminal_start *)

StartReader(t) ==
  /\ Unowned # {}
  /\ work' = [work EXCEPT ![Fresh] = Born("reading", None)]
  /\ term' = [t EXCEPT !.worker = Fresh]

Start ==
  /\ port.state = "created" /\ Idle
  /\ \E o \in MayCost(Started) :
       /\ o.ok /\ host' = o.host /\ Costs(o)
       /\ IF o.term.cooked THEN StartReader(o.term) ELSE term' = o.term /\ UNCHANGED work
  /\ port' = [port EXCEPT !.state = "started"]
  /\ UNCHANGED <<inputVars, busy, call, batch>>

\* The terminal that start could not set up is left to the collector.
GiveUpStart(o) ==
  /\ host' = o.host /\ Costs(o)
  /\ term' = [o.term EXCEPT !.at = "garbage"]
  /\ port' = [port EXCEPT !.state = "refused"]
  /\ UNCHANGED <<inputVars, work, busy, call, batch>>

StartRefused ==
  /\ port.state = "created" /\ Idle
  /\ \/ \E o \in MayCost({x \in Started : ~ x.ok}) : GiveUpStart(o)
     \/ \E s \in {x \in Started : x.ok /\ x.term.cooked} :
          \E o \in MayCost(RolledBack(s.term, s.host)) : GiveUpStart(o)
-------------------------------------------------------------------------------
(* terminal_poll *)

\* (mutant) a restored port is never polled
PollsUnrestored ==
  /\ port.state = "started" /\ Idle /\ batch = <<>>
  /\ port.closing => port.asked
  /\ ~ port.restored

\* A port that is to end is polled only after its cancellation was asked for, and
\* a restored one only for the end that a cancellation owes.
MayPoll ==
  /\ port.state = "started" /\ Idle /\ batch = <<>>
  /\ port.closing => port.asked
  /\ port.restored => port.cancelled

Hands(events) ==
  /\ batch' = events
  /\ port' = [port EXCEPT !.missed = @ \cup
               {i \in Ids(events) : \E j \in 1..Len(events) :
                                      events[j].id = i /\ events[j].kind = "paste-rejected"}]

\* A poll that raises ends the session; what it had taken is gone with it.
Raises ==
  /\ port' = [port EXCEPT !.closing = TRUE]
  /\ UNCHANGED batch

\* The outcome is kept before the event is built: an event that cannot be built is
\* told by a later poll.
Tells(outcome) ==
  \/ /\ Hands(<<Event("terminal", None)>>)
     /\ term' = [term EXCEPT !.outcome = outcome, !.emitted = TRUE]
     /\ UNCHANGED faults
  \/ /\ Fault /\ Raises /\ term' = [term EXCEPT !.outcome = outcome]

PollTells ==
  /\ MayPoll /\ ~ term.emitted
  /\ \/ term.cancelled /\ Tells("cancelled")
     \/ ~ term.cancelled /\ term.outcome # "none" /\ Tells(term.outcome)
  /\ UNCHANGED <<inputVars, work, busy, host, call>>

PollReads == MayPoll /\ ~ term.emitted /\ ~ term.cancelled /\ term.outcome = "none"

\* A console in cooked mode: a reader at a time, and the line of one that has ended.
PollStartsReader ==
  /\ PollReads /\ term.cooked /\ ~ Attached
  /\ \/ StartReader(term) /\ UNCHANGED <<faults, port, batch>>
     \/ Fault /\ Raises /\ UNCHANGED <<work, term>>
  /\ UNCHANGED <<inputVars, busy, host, call>>

PollCooked ==
  /\ PollReads /\ term.cooked /\ Attached /\ work[term.worker].at = "gone"
  /\ LET read == work[term.worker]
         line == IF read.good THEN typed[read.holds] ELSE "error"
     IN  \/ /\ line \in {"text", "enter"}
            /\ Hands(<<Event("text", read.holds)>>)
            /\ LetGo /\ term' = Detached(term) /\ UNCHANGED faults
         \/ /\ line \in {"bad", "error"} /\ Raises
            /\ LetGo /\ term' = Detached(term) /\ UNCHANGED faults
         \/ /\ line = "end" /\ Hands(<<Event("terminal", None)>>) /\ LetGo
            /\ term' = [Detached(term) EXCEPT !.outcome = "completed", !.emitted = TRUE]
            /\ UNCHANGED faults
         \/ /\ line = "end" /\ Fault /\ Raises
            /\ term' = [term EXCEPT !.outcome = "completed"] /\ UNCHANGED work
  /\ UNCHANGED <<inputVars, busy, host, call>>

\* A descriptor or a pipe: what there is, its end, or an error.
PollStream ==
  /\ PollReads /\ kind # "console"
  /\ \/ /\ Waiting > 0 /\ typed[taken + 1] # "end"
        /\ taken' = taken + 1 /\ Hands(<<Event("text", taken + 1)>>)
        /\ UNCHANGED <<term, faults>>
     \/ /\ Waiting > 0 /\ typed[taken + 1] = "end"
        /\ Tells("completed") /\ UNCHANGED taken
     \/ Fault /\ Raises /\ UNCHANGED <<taken, term>>
  /\ UNCHANGED <<kind, raw, typed, work, busy, host, call>>

\* push_windows_paste_observation and acknowledge_windows_paste.
Asked == work[term.worker]

\* (mutant) a program that never renders its text is waited for
SettledByThread == Asked.at = "gone"

Settled == Asked.at = "gone" \/ term.late

PasteSeen ==
  CASE ~ Attached -> <<>>
    [] Attached /\ ~ term.announced -> <<Event("paste-start", Asked.holds)>>
    [] OTHER -> IF ~ Settled THEN <<>>
                ELSE IF Asked.at = "gone" /\ Asked.good
                     THEN <<Event("paste", Asked.holds)>>
                     ELSE <<Event("paste-rejected", Asked.holds)>>

\* A console in raw mode: the clipboard first, then the keys that are there.
PollConsole ==
  /\ PollReads /\ kind = "console" /\ ~ term.cooked
  /\ call' = [op |-> "poll", at |-> "keys", left |-> Waiting, events |-> PasteSeen]
  /\ IF Attached /\ term.announced /\ Settled
     THEN LetGo /\ term' = Detached(term)
     ELSE term' = [term EXCEPT !.announced = Attached] /\ UNCHANGED work
  /\ UNCHANGED <<inputVars, busy, faults, host, port, batch>>

Polling == call.op = "poll"

MoreKeys == Polling /\ call.left > 0 /\ Len(call.events) < Budget

Key == typed[taken + 1]

NextKey(events) ==
  /\ call' = [call EXCEPT !.left = @ - 1, !.events = @ \o events]
  /\ taken' = taken + 1

PollKey ==
  /\ MoreKeys /\ Key \in {"text", "enter", "escape"}
  /\ NextKey(<<Event(IF Key = "escape" THEN "cancel" ELSE "text", taken + 1)>>)
  /\ UNCHANGED <<kind, raw, typed, work, busy, faults, host, term, port, batch>>

\* push_windows_paste: one at a time in this port, one in the whole program, and
\* no more memory or threads than there are.
PollPaste ==
  /\ MoreKeys /\ Key = "paste"
  /\ \/ /\ Attached /\ NextKey(<<>>)
        /\ port' = [port EXCEPT !.missed = @ \cup {taken + 1}]
        /\ UNCHANGED <<work, busy, term, faults>>
     \/ /\ ~ Attached /\ ((busy /\ UNCHANGED faults) \/ (~ busy /\ Fault))
        /\ NextKey(<<Event("paste-rejected", taken + 1)>>)
        /\ UNCHANGED <<work, busy, term, port>>
     \/ /\ ~ Attached /\ ~ busy /\ Unowned # {}
        /\ work' = [work EXCEPT ![Fresh] = Born("rendering", taken + 1)]
        /\ term' = [term EXCEPT !.worker = Fresh, !.announced = TRUE]
        /\ busy' = TRUE /\ NextKey(<<Event("paste-start", taken + 1)>>)
        /\ UNCHANGED <<port, faults>>
  /\ UNCHANGED <<kind, raw, typed, host, batch>>

\* A key that is no character or too long, or the console fails: nothing of this
\* poll is handed over.
PollKeyFails ==
  /\ Polling /\ Fault
  /\ taken' \in taken..(taken + IF MoreKeys THEN 1 ELSE 0)
  /\ Raises /\ call' = NoCall
  /\ UNCHANGED <<kind, raw, typed, work, busy, host, term>>

PollConsoleEnds ==
  /\ Polling /\ ~ MoreKeys
  /\ Hands(call.events) /\ call' = NoCall
  /\ UNCHANGED <<workerVars, host, term>>

\* Two seconds have passed since the clipboard was asked.
ClipboardLate ==
  /\ Attached /\ ~ term.cooked /\ ~ term.late
  /\ term' = [term EXCEPT !.late = TRUE]
  /\ UNCHANGED <<workerVars, host, call, port, batch>>
-------------------------------------------------------------------------------
(* terminal_cancel, terminal_restore, terminal_close and l_terminal_gc begin    *)
(* alike: the clipboard is let go at once, a cooked reader is ended.             *)

Begins(op) ==
  /\ call' = [NoCall EXCEPT !.op = op, !.at = IF term.cooked THEN "look" ELSE "last"]
  /\ IF term.cooked THEN UNCHANGED <<work, term>> ELSE LetGo /\ term' = Detached(term)
  /\ UNCHANGED <<inputVars, busy, faults, host, batch>>

\* Someone has decided that the port is to end.
Quit ==
  /\ port.state = "started" /\ ~ port.closing
  /\ port' = [port EXCEPT !.closing = TRUE]
  /\ UNCHANGED <<workerVars, host, term, call, batch>>

\* A second one finds nothing more to do.
Cancel ==
  /\ port.state = "started" /\ port.closing /\ Idle /\ ~ term.emitted /\ ~ term.cancelled
  /\ Begins("cancel") /\ port' = [port EXCEPT !.asked = TRUE]

Restore ==
  /\ port.state \in {"started", "joined"} /\ port.closing /\ Idle /\ ~ port.restored
  /\ Begins("restore") /\ UNCHANGED port

\* terminal_restore if it is still owed, then terminal_close whatever that said.
Close ==
  /\ port.state \in {"started", "joined"} /\ port.closing /\ Idle
  /\ Begins(IF port.restored THEN "close" ELSE "closing") /\ UNCHANGED port

\* terminal_discard_paste has no further step.
Discards == LetGo /\ term' = Detached(term)

Join ==
  /\ port.state = "started" /\ port.closing /\ Idle /\ term.emitted
  /\ port' = [port EXCEPT !.state = "joined"]
  /\ UNCHANGED <<workerVars, host, term, call, batch>>

Abandon ==
  /\ port.state \in {"started", "joined"} /\ port.closing /\ Idle
  /\ term' = [term EXCEPT !.at = "garbage"]
  /\ port' = [port EXCEPT !.state = "abandoned"]
  /\ UNCHANGED <<workerVars, host, call, batch>>

Collect ==
  /\ term.at = "garbage" /\ Idle
  /\ Begins("collect") /\ UNCHANGED port

Goes(at) == call' = [call EXCEPT !.at = at]

ReaderGone == Attached /\ work[term.worker].at = "gone"

\* cancel_windows_cooked_read: look, make up an Enter, wait for five seconds.
CallLook ==
  /\ call.at \in {"look", "wait"}
  /\ \/ ~ Attached /\ Goes("last") /\ UNCHANGED <<work, term>>
     \/ ReaderGone /\ Goes("last") /\ LetGo /\ term' = Detached(term)
     \/ Attached /\ ~ ReaderGone /\ call.at = "look" /\ Goes("enter") /\ UNCHANGED <<work, term>>
  /\ UNCHANGED <<inputVars, busy, faults, host, port, batch>>

CallEnter ==
  /\ call.at = "enter"
  /\ typed' = Append(typed, "enter") /\ Goes("wait")
  /\ UNCHANGED <<kind, raw, taken, work, busy, faults, host, term, port, batch>>

\* The Enter cannot be written, or the reader does not end in time.  The collector
\* leaves the reader its record.
CallReaderStays ==
  /\ call.at = "enter" \/ (call.at = "wait" /\ ~ ReaderGone)
  /\ Fault
  /\ IF call.op = "collect"
     THEN Goes("last") /\ LetGo /\ term' = Detached(term)
     ELSE /\ call' = IF call.op = "closing" THEN [call EXCEPT !.op = "close", !.at = "look"]
                     ELSE NoCall
          /\ UNCHANGED <<work, term>>
  /\ UNCHANGED <<inputVars, busy, host, port, batch>>

CancelEnds ==
  /\ call.op = "cancel" /\ call.at = "last"
  /\ term' = [term EXCEPT !.cancelled = TRUE]
  /\ port' = [port EXCEPT !.cancelled = TRUE] /\ call' = NoCall
  /\ UNCHANGED <<workerVars, host, batch>>

RestoreEnds ==
  /\ call.op \in {"restore", "closing"} /\ call.at = "last"
  /\ \E o \in MayCost(Restored(term, host)) :
       /\ term' = o.term /\ host' = o.host /\ Costs(o)
       /\ port' = [port EXCEPT !.restored = o.ok]
  /\ call' = IF call.op = "closing" THEN [call EXCEPT !.op = "close", !.at = "look"] ELSE NoCall
  /\ UNCHANGED <<inputVars, work, busy, batch>>

CloseEnds ==
  /\ call.op = "close" /\ call.at = "last"
  /\ \E o \in MayCost(Restored(term, host)) :
       /\ term' = [o.term EXCEPT !.at = IF o.ok THEN "closed" ELSE @]
       /\ host' = o.host /\ Costs(o)
       /\ port' = [port EXCEPT !.state = IF o.ok THEN "closed" ELSE @]
  /\ call' = NoCall
  /\ UNCHANGED <<inputVars, work, busy, batch>>

CollectEnds ==
  /\ call.op = "collect" /\ call.at = "last"
  /\ \E o \in MayCost(Restored(term, host)) :
       term' = [o.term EXCEPT !.at = "collected"] /\ host' = o.host /\ Costs(o)
  /\ call' = NoCall
  /\ UNCHANGED <<inputVars, work, busy, port, batch>>
-------------------------------------------------------------------------------
PollNext ==
  \/ PollTells \/ PollStartsReader \/ PollCooked \/ PollStream \/ PollConsole
  \/ PollKey \/ PollPaste \/ PollKeyFails \/ PollConsoleEnds

CallNext ==
  \/ CallLook \/ CallEnter \/ CallReaderStays
  \/ CancelEnds \/ RestoreEnds \/ CloseEnds \/ CollectEnds

PortNext ==
  \/ Start \/ StartRefused \/ PollNext \/ CallNext
  \/ Quit \/ Cancel \/ Restore \/ Close \/ Join \/ Abandon \/ Collect \/ ClipboardLate
===============================================================================
