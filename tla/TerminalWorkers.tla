--------------------------- MODULE TerminalWorkers ---------------------------
(* Standard input on both systems and the two threads that wait for the user in *)
(* place of the terminal port: the reader of a cooked console line and the       *)
(* reader of the clipboard.  Each shares a record with the port that started it; *)
(* who lets go last frees it.                                                    *)
(*                                                                               *)
(* What the user types is a sequence of gestures; a gesture is known by its      *)
(* place in it.  The console's own buffer is what nobody has taken yet.          *)
EXTENDS Naturals, Sequences

CONSTANTS
  Worker,      \* records that may be in use at once
  MaxTyped,    \* bound: gestures of the user
  MaxFaults    \* bound: calls of the system that fail

None == 0      \* no record, no gesture

ASSUME WorkerAssumption ==
  /\ Worker \subseteq Nat \ {None}
  /\ MaxTyped \in Nat /\ MaxFaults \in Nat

VARIABLES
  kind,        \* what standard input is
  raw,         \* the mode that is asked for: raw, or cooked
  typed,       \* the gestures, and the Enters the port has made up
  taken,       \* how many of them have been taken out of the buffer
  work,        \* the records and the threads that use them
  busy,        \* windows_clipboard_busy
  faults

\* What start finds behind standard input; a Cygwin terminal is a pipe by its name.
Kinds == {"tty", "stream", "console", "pipe", "pty"}

inputVars == <<kind, raw, typed, taken>>
workerVars == <<kind, raw, typed, taken, work, busy, faults>>

Fault == faults < MaxFaults /\ faults' = faults + 1

Unused == [at |-> "unused", refs |-> 0, holds |-> None, good |-> FALSE]

Unowned == {w \in Worker : work[w] = Unused}

\* Which of them is taken makes no difference.
Fresh == CHOOSE w \in Unowned : TRUE

\* A thread until it has let go of its record.
Holding == {"reading", "rendering", "done"}

\* (mutant) the starter forgets its own share
BornShared(at, id) == [at |-> at, refs |-> 1, holds |-> id, good |-> FALSE]

\* Both shares are counted before the thread runs.
Born(at, id) == [at |-> at, refs |-> 2, holds |-> id, good |-> FALSE]

\* One share less; the last one frees the record.
Released(r) == IF r.refs = 1 /\ r.at = "gone" THEN Unused ELSE [r EXCEPT !.refs = @ - 1]
-------------------------------------------------------------------------------
(* The user *)

Gestures ==
  CASE kind = "console" -> IF raw THEN {"text", "paste", "escape"} ELSE {"text", "bad", "end"}
    [] OTHER -> {"text", "end"}

Type ==
  /\ Len(typed) < MaxTyped /\ \A i \in 1..Len(typed) : typed[i] # "end"
  /\ \E g \in Gestures : typed' = Append(typed, g)
  /\ UNCHANGED <<kind, raw, taken, work, busy, faults>>

Waiting == Len(typed) - taken
-------------------------------------------------------------------------------
(* windows_cooked_reader *)

ReaderTakesLine(w) ==
  /\ work[w].at = "reading" /\ Waiting > 0
  /\ work' = [work EXCEPT ![w].at = "done", ![w].holds = taken + 1, ![w].good = TRUE]
  /\ taken' = taken + 1
  /\ UNCHANGED <<kind, raw, typed, busy, faults>>

ReaderFails(w) ==
  /\ work[w].at = "reading" /\ Fault
  /\ work' = [work EXCEPT ![w].at = "done"]
  /\ UNCHANGED <<inputVars, busy>>

\* The port sees the end of the thread only after the thread has let go.
WorkerEnds(w) ==
  /\ work[w].at = "done"
  /\ work' = [work EXCEPT ![w] = Released([@ EXCEPT !.at = "gone"])]
  /\ UNCHANGED <<inputVars, busy, faults>>

(* windows_clipboard_reader *)

\* Another program renders the text, when it likes to; it may not be text, or be
\* too long.  Then the gate is open to the next one, though the thread has not ended.
ClipboardRead(w) ==
  /\ work[w].at = "rendering"
  /\ \E good \in BOOLEAN :
       work' = [work EXCEPT ![w].at = "done", ![w].good = good]
  /\ busy' = FALSE
  /\ UNCHANGED <<inputVars, faults>>

\* What a thread does when nobody keeps it waiting.
ThreadRuns == \E w \in Worker : ReaderTakesLine(w) \/ WorkerEnds(w)

WorkerNext == ThreadRuns \/ \E w \in Worker : ReaderFails(w) \/ ClipboardRead(w)
===============================================================================
