----------------------------- MODULE TerminalMode -----------------------------
(* The modes of standard input as the terminal port finds, sets and restores     *)
(* them: termios and the descriptor's flags on POSIX, the console mode on        *)
(* Windows, and stty of the host for a Cygwin terminal.  Each call is atomic to   *)
(* the outside, so its outcomes are a set; cost counts the failed system calls.   *)
EXTENDS TerminalWorkers

VARIABLES
  host,       \* how standard input is set
  term        \* the yaca_terminal

Found == [mode |-> "found", nonblock |-> FALSE]

NoTerminal ==
  [at |-> "none", cooked |-> FALSE, modeKept |-> FALSE, flagsKept |-> FALSE,
   pty |-> FALSE, restored |-> FALSE, cancelled |-> FALSE, emitted |-> FALSE,
   outcome |-> "none", worker |-> None, announced |-> FALSE, late |-> FALSE]

\* What a call makes of the terminal and the host.
Done(t, h, cost)   == [ok |-> TRUE, term |-> t, host |-> h, cost |-> cost]
Failed(t, h, cost) == [ok |-> FALSE, term |-> t, host |-> h, cost |-> cost]

MayCost(outcomes) == {o \in outcomes : faults + o.cost <= MaxFaults}
-------------------------------------------------------------------------------
(* restore_terminal, yaca_pty_restore *)

\* yaca_stty: an exit code of zero in time.  A stty that fails, or is stopped after
\* three seconds, may have set the mode before.
Stty(h, want) ==
  {[ok |-> TRUE, host |-> want]} \cup {[ok |-> FALSE, host |-> g] : g \in {h, want}}

PtyRestored(t, h) ==
  IF ~ t.pty THEN {Done([t EXCEPT !.restored = TRUE], h, 0)}
  ELSE {IF s.ok THEN Done([t EXCEPT !.pty = FALSE, !.restored = TRUE], s.host, 0)
                ELSE Failed(t, s.host, 1) : s \in Stty(h, Found)}

ConsoleRestored(t, h) ==
  {Done([t EXCEPT !.restored = TRUE], IF t.modeKept THEN Found ELSE h, 0)}
  \cup (IF t.modeKept THEN {Failed(t, h, 1)} ELSE {})

\* First the mode, then the flags.
PosixRestored(t, h) ==
  LET moded == IF t.modeKept THEN [h EXCEPT !.mode = "found"] ELSE h
  IN {Done([t EXCEPT !.restored = TRUE], IF t.flagsKept THEN Found ELSE moded, 0)}
     \cup {Failed(t, g, 1) : g \in (IF t.modeKept THEN {h} ELSE {}) \cup
                                    (IF t.flagsKept THEN {moded} ELSE {})}

RestoredOnce(t, h) ==
  CASE kind = "pty" -> PtyRestored(t, h)
    [] kind \in {"console", "pipe"} -> ConsoleRestored(t, h)
    [] OTHER -> PosixRestored(t, h)

\* (mutant) an attempt counts as a restoration
RestoredAnyhow(t, h) ==
  IF t.restored THEN {Done(t, h, 0)}
  ELSE {[o EXCEPT !.term.restored = TRUE] : o \in RestoredOnce(t, h)}

Restored(t, h) == IF t.restored THEN {Done(t, h, 0)} ELSE RestoredOnce(t, h)

\* A step of start fails after a mode was set; start tries to put it back.
RolledBack(t, h) == {[o EXCEPT !.ok = FALSE, !.cost = @ + 1] : o \in Restored(t, h)}
-------------------------------------------------------------------------------
(* terminal_start, without its reader *)

Opened == [NoTerminal EXCEPT !.at = "open"]

Refused(cost) == {Failed(Opened, host, cost)}

\* Cooked leaves the termios mode alone.
StartTty ==
  LET t == [Opened EXCEPT !.modeKept = TRUE, !.flagsKept = TRUE]
      h == IF raw THEN [host EXCEPT !.mode = "ours"] ELSE host
  IN {Done(t, [h EXCEPT !.nonblock = TRUE], 0)} \cup Refused(1) \cup RolledBack(t, h)

StartStream ==
  LET t == [Opened EXCEPT !.flagsKept = TRUE]
  IN IF raw THEN Refused(0)
     ELSE {Done(t, [host EXCEPT !.nonblock = TRUE], 0)} \cup Refused(1)

StartConsole ==
  LET t == [Opened EXCEPT !.modeKept = TRUE, !.cooked = ~ raw]
  IN {Done(t, [host EXCEPT !.mode = "ours"], 0), Failed(t, host, 1)}

StartPipe == IF raw THEN Refused(0) ELSE {Done(Opened, host, 0)}

\* There is no stty beside a Cygwin library, or it does not tell the mode.
NoStty == Refused(1)

\* yaca_pty_start: the mode is owned before it is changed, and as long as the
\* rollback has not been seen to work.
StartPty ==
  LET t == [Opened EXCEPT !.pty = TRUE]
      Back(h) == {[o EXCEPT !.ok = FALSE, !.cost = @ + 1, !.term.restored = FALSE] :
                    o \in PtyRestored(t, h)}
  IN NoStty \cup UNION {IF s.ok THEN {Done(t, s.host, 0)} ELSE Back(s.host) :
                         s \in Stty(host, [host EXCEPT !.mode = "ours"])}

Started ==
  CASE kind = "tty" -> StartTty
    [] kind = "stream" -> StartStream
    [] kind = "console" -> StartConsole
    [] kind = "pipe" -> StartPipe
    [] kind = "pty" -> StartPty
===============================================================================
