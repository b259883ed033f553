------------------------------ MODULE ChatInput ------------------------------
(* The chat's line editor (new_chat of src/src/terminal.lua) on the terminal     *)
(* port: what the user typed reaches the draft in the order it was typed, with   *)
(* the clipboard's text at the place where it was asked for.                     *)
EXTENDS TerminalPort, FiniteSets

CONSTANT MaxHeld     \* keys that may wait for the clipboard

ASSUME MaxHeldAssumption == MaxHeld \in Nat

VARIABLE ed          \* the editor

vars == <<portVars, ed>>

\* unheld: pastes whose start was thrown away with the keys after a refused one.
NewEditor == [waiting |-> None, keys |-> <<>>, replay |-> <<>>, got |-> <<>>,
              unheld |-> {}, ended |-> FALSE, overlap |-> FALSE]

Init ==
  /\ kind \in Kinds /\ raw \in BOOLEAN
  /\ typed = <<>> /\ taken = 0
  /\ work = [w \in Worker |-> Unused] /\ busy = FALSE /\ faults = 0
  /\ host = Found /\ term = NoTerminal
  /\ call = NoCall /\ port = NewPort /\ batch = <<>>
  /\ ed = NewEditor
-------------------------------------------------------------------------------
Waits == ed.waiting # None

\* What has been kept aside comes before what was polled later.
Fetched == IF ed.replay # <<>> THEN Head(ed.replay) ELSE Head(batch)

\* discard_following_keys: the user's own actions, never the end of the input.  A
\* start among them goes too, the paste it announced does not.  One end is like another.
Behind(k) == {i \in 2..Len(batch) : batch[i].kind = k}

Following == [n \in 1..Cardinality(Behind("terminal")) |-> Event("terminal", None)]

Unheld == {batch[i].id : i \in Behind("paste-start")}

Misses(ids) == port' = [port EXCEPT !.missed = @ \cup (ids \ ({None} \cup Unheld))]

Uses(k) ==
  /\ port.state = "started" /\ Idle
  /\ ed.replay # <<>> \/ batch # <<>>
  /\ Fetched.kind = k

\* Text, a line, a cancellation or the end, with no clipboard to wait for.
EditorUses ==
  /\ ~ Waits /\ \E k \in {"text", "cancel", "paste", "terminal"} : Uses(k)
  /\ IF ed.replay # <<>> THEN UNCHANGED batch ELSE batch' = Tail(batch)
  /\ ed' = [ed EXCEPT !.replay = IF @ = <<>> THEN @ ELSE Tail(@),
                      !.got = IF Fetched.id = None THEN @ ELSE Append(@, Fetched.id),
                      !.ended = @ \/ Fetched.kind = "terminal"]
  /\ UNCHANGED <<workerVars, host, term, call, port>>

EditorWaits ==
  /\ Uses("paste-start") /\ batch' = Tail(batch)
  /\ ed' = [ed EXCEPT !.waiting = Fetched.id, !.keys = <<>>, !.overlap = @ \/ Waits]
  /\ UNCHANGED <<workerVars, host, term, call, port>>

EditorRefused ==
  /\ Uses("paste-rejected") /\ batch' = Following
  /\ Misses({ed.waiting} \cup Ids(ed.keys) \cup Ids(Tail(batch)))
  /\ ed' = [ed EXCEPT !.waiting = None, !.keys = <<>>, !.unheld = @ \cup Unheld]
  /\ UNCHANGED <<workerVars, host, term, call>>

EditorPastes ==
  /\ Waits /\ Uses("paste")
  /\ \/ /\ ed' = [ed EXCEPT !.waiting = None, !.keys = <<>>, !.replay = ed.keys,
                            !.got = Append(@, Fetched.id)]
        /\ batch' = Tail(batch) /\ UNCHANGED port
     \* The draft is full: it is cleared, the user is told.
     \/ /\ ed' = [ed EXCEPT !.waiting = None, !.keys = <<>>, !.unheld = @ \cup Unheld]
        /\ batch' = Following
        /\ Misses({Fetched.id} \cup Ids(ed.keys) \cup Ids(Tail(batch)))
  /\ UNCHANGED <<workerVars, host, term, call>>

\* (mutant) the clipboard's text is not called off with the keys
KeepsPaste == UNCHANGED <<work, term>>

CallsOff == Discards

\* A cancellation ends the wait and clears the draft; so does the end of the input.
EditorCancels ==
  /\ Waits /\ \E k \in {"cancel", "terminal"} : Uses(k)
  /\ batch' = Tail(batch) /\ CallsOff
  /\ port' = [port EXCEPT !.missed = @ \cup (({ed.waiting, Fetched.id} \cup Ids(ed.keys)) \ {None})]
  /\ ed' = [ed EXCEPT !.waiting = None, !.keys = <<>>, !.ended = Fetched.kind = "terminal"]
  /\ UNCHANGED <<inputVars, busy, faults, host, call>>

EditorHolds ==
  /\ Waits /\ Uses("text") /\ batch' = Tail(batch)
  /\ IF Len(ed.keys) < MaxHeld
     THEN /\ ed' = [ed EXCEPT !.keys = Append(@, Fetched)]
          /\ UNCHANGED <<work, term, port>>
     ELSE /\ ed' = [ed EXCEPT !.waiting = None, !.keys = <<>>]
          /\ port' = [port EXCEPT !.closing = TRUE] /\ Discards
  /\ UNCHANGED <<inputVars, busy, faults, host, call>>

EditorNext ==
  \/ EditorUses \/ EditorWaits \/ EditorRefused \/ EditorPastes
  \/ EditorCancels \/ EditorHolds

\* What is typed when nobody reads any more is left to the next program.
Read == term.cooked \/ ~ port.closing

Outside == ((Read /\ Type) \/ WorkerNext) /\ UNCHANGED <<host, term, call, port, batch>>

Next ==
  \/ Outside /\ UNCHANGED ed
  \/ PortNext /\ UNCHANGED ed
  \/ EditorNext

\* The event loop polls in every round and the editor works off what it is handed;
\* a call and a thread that can go on do; time passes.  Neither the user nor the
\* program that owns the clipboard owes anything.
Fairness ==
  /\ WF_vars(PollNext /\ UNCHANGED ed) /\ WF_vars(EditorNext)
  /\ WF_vars(CallNext /\ UNCHANGED ed)
  /\ WF_vars(ThreadRuns /\ UNCHANGED <<host, term, call, port, batch, ed>>)
  /\ WF_vars(ClipboardLate /\ UNCHANGED ed)

Spec == Init /\ [][Next]_vars /\ Fairness
-------------------------------------------------------------------------------
\* A closed terminal leaves standard input as it was found and nobody reading the
\* console, whatever failed in between; so does the collection of one that was
\* never closed, unless a call fails then too.
CloseLeavesNothing ==
  /\ term.at = "closed" =>
       host = Found /\ ~ term.pty /\ \A w \in Worker : work[w].at # "reading"
  /\ term.at = "collected" /\ faults = 0 => host = Found

\* A record is freed when both its thread and the port have let go of it, not
\* earlier and not never, in whatever order they do.
WorkersKeepTheirMemory ==
  \A w \in Worker :
    work[w].refs = (IF term.worker = w THEN 1 ELSE 0)
                   + (IF work[w].at \in Holding THEN 1 ELSE 0)

Got == {ed.got[i] : i \in 1..Len(ed.got)}

OnTheWay ==
  Ids(batch) \cup Ids(call.events) \cup Ids(ed.keys) \cup Ids(ed.replay) \cup {ed.waiting}
  \cup {work[w].holds : w \in {x \in Worker : x = term.worker}}

\* But for a paste whose start was thrown away with other keys, the editor is given
\* what the user typed in the order it was typed, the clipboard's text where it was
\* asked for, nothing of what was called off and nothing after the end; and nothing
\* is lost but what the user is told of.
InputInOrder ==
  /\ \A i, j \in 1..Len(ed.got) :
       i < j /\ ed.got[i] \notin ed.unheld /\ ed.got[j] \notin ed.unheld => ed.got[i] < ed.got[j]
  /\ Got \cap port.missed = {} /\ ~ ed.overlap
  /\ ed.ended => batch = <<>> /\ ed.replay = <<>> /\ ed.keys = <<>>
  /\ ~ port.closing =>
       \A i \in 1..taken : typed[i] = "end" \/ i \in Got \cup port.missed \cup OnTheWay

\* A cancellation that was accepted is told as the end of the input, also after the
\* terminal was restored and when the telling has failed before, as long as the
\* port is there to be polled.
CancelTold == port.cancelled ~> (ed.ended \/ port.state # "started")

\* A paste that was announced is delivered or refused, although the program that
\* owns the clipboard may never answer.
PasteSettles == Waits ~> (~ Waits \/ port.closing)
===============================================================================
