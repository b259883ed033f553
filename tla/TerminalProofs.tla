---------------------------- MODULE TerminalProofs ----------------------------
(* For every number of records, gestures, faults, events of a poll and keys held *)
(* aside: a record that the port shares with a thread is freed when both have    *)
(* let go of it, a closed terminal leaves standard input as it was found, and the *)
(* editor is given what is typed in the order it was typed.                       *)
EXTENDS ChatInput, FiniteSetTheorems, TLAPS

\* What a share count rests on: before the port starts there is neither a terminal
\* nor a call that runs, so that start does not drop a record.
IInv ==
  /\ kind \in Kinds
  /\ taken \in Nat
  /\ work \in [Worker -> [at : Holding \cup {"unused", "gone"}, refs : Nat,
                          holds : Nat, good : BOOLEAN]]
  /\ "worker" \in DOMAIN term /\ term.worker \in Worker \cup {None}
  /\ "state" \in DOMAIN port
  /\ port.state = "created" => term = NoTerminal /\ call = NoCall
  /\ WorkersKeepTheirMemory

\* What no call does: give the terminal another record.
Keeps(o, t) ==
  /\ DOMAIN o = {"ok", "term", "host", "cost"}
  /\ DOMAIN o.term = DOMAIN t /\ o.term.worker = t.worker
-------------------------------------------------------------------------------
(* The record a reader or the clipboard is given is nobody's.                   *)
LEMMA FreshIsUnused ==
  ASSUME Unowned # {}
  PROVE  Fresh \in Worker /\ work[Fresh] = Unused
BY DEF Fresh, Unowned

(* Restoring, rolling back and setting a mode leave the record alone.           *)
LEMMA PtyRestoredKeeps ==
  ASSUME NEW t, "worker" \in DOMAIN t, NEW h, NEW o \in PtyRestored(t, h)
  PROVE  Keeps(o, t)
<1>1. CASE ~ t.pty
  BY <1>1 DEF PtyRestored, Done, Keeps
<1>2. CASE t.pty
  <2> DEFINE back == [t EXCEPT !.pty = FALSE, !.restored = TRUE]
  <2>1. PICK s \in Stty(h, Found) :
          o = IF s.ok THEN Done(back, s.host, 0) ELSE Failed(t, s.host, 1)
    BY <1>2 DEF PtyRestored
  <2>2. DOMAIN back = DOMAIN t /\ back.worker = t.worker
    OBVIOUS
  <2> HIDE DEF back
  <2> QED BY <2>1, <2>2 DEF Done, Failed, Keeps
<1> QED BY <1>1, <1>2

LEMMA RestoredOnceKeeps ==
  ASSUME NEW t, "worker" \in DOMAIN t, NEW h, NEW o \in RestoredOnce(t, h)
  PROVE  Keeps(o, t)
<1>1. CASE kind = "pty"
  BY <1>1, PtyRestoredKeeps DEF RestoredOnce
<1>2. CASE kind \in {"console", "pipe"}
  BY <1>2 DEF RestoredOnce, ConsoleRestored, Done, Failed, Keeps
<1>3. CASE kind \notin {"pty", "console", "pipe"}
  BY <1>3 DEF RestoredOnce, PosixRestored, Done, Failed, Keeps
<1> QED BY <1>1, <1>2, <1>3

LEMMA RestoredKeeps ==
  ASSUME NEW t, "worker" \in DOMAIN t, NEW h, NEW o \in Restored(t, h)
  PROVE  Keeps(o, t)
BY RestoredOnceKeeps DEF Restored, Done, Keeps

LEMMA RolledBackKeeps ==
  ASSUME NEW t, "worker" \in DOMAIN t, NEW h, NEW o \in RolledBack(t, h)
  PROVE  Keeps(o, t)
<1>1. PICK r \in Restored(t, h) : o = [r EXCEPT !.ok = FALSE, !.cost = @ + 1]
  BY DEF RolledBack
<1>2. Keeps(r, t)
  BY RestoredKeeps
<1> QED BY <1>1, <1>2 DEF Keeps

LEMMA StartedKeeps ==
  ASSUME kind \in Kinds, NEW o \in Started
  PROVE  Keeps(o, NoTerminal)
<1> DEFINE Sets(t) == DOMAIN t = DOMAIN NoTerminal /\ t.worker = None
<1>1. Sets(Opened) /\ "worker" \in DOMAIN Opened /\ Keeps(Failed(Opened, host, 0), Opened)
  BY DEF Opened, NoTerminal, Keeps, Failed
<1>2. SUFFICES \E t : Sets(t) /\ Keeps(o, t)
  BY DEF Keeps, NoTerminal
<1>3. CASE o \in StartTty
  <2> DEFINE t == [Opened EXCEPT !.modeKept = TRUE, !.flagsKept = TRUE]
             h == IF raw THEN [host EXCEPT !.mode = "ours"] ELSE host
  <2>1. Sets(t) /\ "worker" \in DOMAIN t
    BY DEF Opened, NoTerminal
  <2>2. o \in {Done(t, [h EXCEPT !.nonblock = TRUE], 0)} \cup Refused(1) \cup RolledBack(t, h)
    BY <1>3 DEF StartTty
  <2> HIDE DEF t, h
  <2>3. CASE o \in RolledBack(t, h)
    BY <2>1, <2>3, RolledBackKeeps
  <2>4. CASE o \in Refused(1)
    BY <1>1, <2>4 DEF Refused, Failed, Keeps
  <2>5. CASE o = Done(t, [h EXCEPT !.nonblock = TRUE], 0)
    BY <2>1, <2>5 DEF Done, Keeps
  <2> QED BY <2>2, <2>3, <2>4, <2>5
<1>4. CASE o \in StartStream \cup StartConsole \cup StartPipe
  <2> DEFINE Modes == {Opened, [Opened EXCEPT !.flagsKept = TRUE],
                       [Opened EXCEPT !.modeKept = TRUE, !.cooked = ~ raw]}
  <2>1. \E t \in Modes : \E h, c : o = Done(t, h, c) \/ o = Failed(t, h, c)
    <3>1. CASE o \in StartStream
      BY <3>1 DEF StartStream, Refused
    <3>2. CASE o \in StartConsole
      BY <3>2 DEF StartConsole
    <3>3. CASE o \in StartPipe
      BY <3>3 DEF StartPipe, Refused
    <3> QED BY <1>4, <3>1, <3>2, <3>3
  <2>2. \A t \in Modes : Sets(t)
    BY DEF Opened, NoTerminal
  <2> HIDE DEF Modes, Sets
  <2> QED BY <2>1, <2>2 DEF Done, Failed, Keeps
<1>5. CASE o \in StartPty
  <2> DEFINE t == [Opened EXCEPT !.pty = TRUE]
  <2>1. Sets(t) /\ "worker" \in DOMAIN t
    BY DEF Opened, NoTerminal
  <2>2. \/ o \in Refused(1)
        \/ \E h : o = Done(t, h, 0)
        \/ \E h : \E r \in PtyRestored(t, h) :
              o = [r EXCEPT !.ok = FALSE, !.cost = @ + 1, !.term.restored = FALSE]
    BY ZenonT(60), <1>5 DEF StartPty, NoStty
  <2>3. \A h : \A r \in PtyRestored(t, h) : Keeps(r, t)
    BY <2>1, PtyRestoredKeeps
  <2> HIDE DEF t
  <2>4. CASE o \in Refused(1)
    BY <1>1, <2>4 DEF Refused, Failed, Keeps
  <2>5. CASE \E h : o = Done(t, h, 0)
    BY <2>1, <2>5 DEF Done, Keeps
  <2>6. CASE \E h : \E r \in PtyRestored(t, h) :
               o = [r EXCEPT !.ok = FALSE, !.cost = @ + 1, !.term.restored = FALSE]
    BY <2>1, <2>3, <2>6 DEF Keeps
  <2> QED BY <2>2, <2>4, <2>5, <2>6
<1> QED BY <1>3, <1>4, <1>5 DEF Started, Kinds
-------------------------------------------------------------------------------
(* Steps that change a share, or may.  What each has in common is proved here.  *)
Ats == Holding \cup {"unused", "gone"}

Record == [at : Ats, refs : Nat, holds : Nat, good : BOOLEAN]

(* A thread lets go, or the port does: one share less is one user less.         *)
LEMMA ReleasedIsRecord ==
  ASSUME NEW r \in Record, r.refs # 0
  PROVE  /\ Released(r) \in Record
         /\ Released(r).refs = r.refs - 1
         /\ Released(r).at \in Holding <=> r.at \in Holding
BY DEF Released, Record, Ats, Holding, Unused, None

LEMMA LetGoKeeps ==
  ASSUME IInv, LetGo, UNCHANGED <<kind, taken>>,
         "worker" \in DOMAIN term', term'.worker = None,
         "state" \in DOMAIN port', port'.state # "created"
  PROVE  IInv'
<1> USE WorkerAssumption
<1>0. work \in [Worker -> Record] /\ term.worker \in Worker \cup {None} /\ None \notin Worker
  BY DEF IInv, Record, Ats, None
<1>1. CASE Attached
  <2> DEFINE w == term.worker
  <2>1. w \in Worker /\ work[w].refs # 0 /\ work' = [work EXCEPT ![w] = Released(@)]
    <3>1. w \in Worker /\ work' = [work EXCEPT ![w] = Released(@)]
      BY <1>0, <1>1 DEF Attached, LetGo
    <3>2. work[w].refs = 1 + (IF work[w].at \in Holding THEN 1 ELSE 0)
      BY <3>1 DEF IInv, WorkersKeepTheirMemory
    <3> QED BY <3>1, <3>2
  <2>2. work' \in [Worker -> Record]
    BY <1>0, <2>1, ReleasedIsRecord
  <2>3. \A x \in Worker : work'[x].refs = IF work'[x].at \in Holding THEN 1 ELSE 0
    <3> SUFFICES ASSUME NEW x \in Worker
                 PROVE  work'[x].refs = IF work'[x].at \in Holding THEN 1 ELSE 0
      OBVIOUS
    <3>1. CASE x = w
      BY <1>0, <2>1, <3>1, ReleasedIsRecord DEF IInv, WorkersKeepTheirMemory
    <3>2. CASE x # w
      BY <1>0, <2>1, <3>2 DEF IInv, WorkersKeepTheirMemory
    <3> QED BY <3>1, <3>2
  <2> QED BY <1>0, <2>2, <2>3 DEF IInv, WorkersKeepTheirMemory, Record, Ats
<1>2. CASE ~ Attached
  BY <1>0, <1>2 DEF LetGo, Attached, IInv, WorkersKeepTheirMemory
<1> QED BY <1>1, <1>2

LEMMA BornKeeps ==
  ASSUME IInv, NEW at \in Holding, NEW id \in Nat,
         ~ Attached, Unowned # {}, work' = [work EXCEPT ![Fresh] = Born(at, id)],
         kind' = kind, taken' \in Nat,
         "worker" \in DOMAIN term', term'.worker = Fresh,
         "state" \in DOMAIN port', port'.state # "created"
  PROVE  IInv'
<1> USE WorkerAssumption
<1>0. work \in [Worker -> Record] /\ term.worker = None /\ None \notin Worker
  BY DEF IInv, Record, Ats, None, Attached
<1>1. Fresh \in Worker /\ work[Fresh] = Unused
  BY FreshIsUnused
<1>2. Born(at, id) \in Record
  BY DEF Born, Record, Ats
<1>3. work' \in [Worker -> Record]
  BY <1>0, <1>1, <1>2
<1>4. WorkersKeepTheirMemory'
  <2> SUFFICES ASSUME NEW x \in Worker
               PROVE  work'[x].refs = (IF term'.worker = x THEN 1 ELSE 0)
                                      + (IF work'[x].at \in Holding THEN 1 ELSE 0)
    BY DEF WorkersKeepTheirMemory
  <2>1. CASE x = Fresh
    BY <1>0, <1>1, <2>1 DEF Born
  <2>2. CASE x # Fresh
    BY <1>0, <1>1, <2>2 DEF IInv, WorkersKeepTheirMemory
  <2> QED BY <2>1, <2>2
<1> QED BY <1>0, <1>1, <1>3, <1>4 DEF IInv, Record, Ats

(* A step that leaves the records and their owner alone.                        *)
LEMMA QuietKeeps ==
  ASSUME IInv, UNCHANGED <<kind, work>>, taken' \in Nat,
         "worker" \in DOMAIN term', term'.worker = term.worker,
         "state" \in DOMAIN port', port'.state # "created"
  PROVE  IInv'
BY DEF IInv, WorkersKeepTheirMemory
-------------------------------------------------------------------------------
(* A call of the terminal gives it a record only through a birth; the rest of    *)
(* the terminal may change in any way.                                           *)
LEMMA DetachedHasNone ==
  ASSUME NEW t, "worker" \in DOMAIN t
  PROVE  "worker" \in DOMAIN Detached(t) /\ Detached(t).worker = None
BY DEF Detached

LEMMA StartReaderKeeps ==
  ASSUME IInv, NEW t, "worker" \in DOMAIN t, ~ Attached, StartReader(t),
         UNCHANGED <<kind, taken>>,
         "state" \in DOMAIN port', port'.state # "created"
  PROVE  IInv'
<1>1. /\ Unowned # {} /\ work' = [work EXCEPT ![Fresh] = Born("reading", None)]
      /\ "worker" \in DOMAIN term' /\ term'.worker = Fresh
  BY DEF StartReader
<1>2. taken' \in Nat /\ None \in Nat /\ "reading" \in Holding
  BY DEF IInv, None, Holding
<1> QED BY <1>1, <1>2, BornKeeps

LEMMA WorkerNextKeeps ==
  ASSUME IInv, WorkerNext, UNCHANGED <<term, call, port>>
  PROVE  IInv'
<1>0. work \in [Worker -> Record] /\ taken \in Nat
  BY DEF IInv, Record, Ats
<1>1. PICK w \in Worker : ReaderTakesLine(w) \/ WorkerEnds(w) \/ ReaderFails(w) \/ ClipboardRead(w)
  BY DEF WorkerNext, ThreadRuns
<1>2. CASE ~ WorkerEnds(w)
  <2>1. work' \in [Worker -> Record] /\ taken' \in Nat /\ kind' = kind
    BY <1>0, <1>1, <1>2 DEF ReaderTakesLine, ReaderFails, ClipboardRead, Record, Ats, Holding,
                            inputVars
  <2>2. \A x \in Worker : /\ work'[x].refs = work[x].refs
                          /\ work'[x].at \in Holding <=> work[x].at \in Holding
    BY <1>0, <1>1, <1>2 DEF ReaderTakesLine, ReaderFails, ClipboardRead, Record, Ats, Holding
  <2> QED BY <2>1, <2>2 DEF IInv, WorkersKeepTheirMemory, Record, Ats
<1>3. CASE WorkerEnds(w)
  <2> DEFINE r == [work[w] EXCEPT !.at = "gone"]
  <2>1. /\ work[w].at = "done" /\ work' = [work EXCEPT ![w] = Released(r)]
        /\ UNCHANGED <<kind, taken>>
    BY <1>3 DEF WorkerEnds, inputVars
  <2>2. r \in Record /\ r.refs = work[w].refs /\ r.at = "gone"
    BY <1>0 DEF Record, Ats
  <2>3. work[w].refs = (IF term.worker = w THEN 1 ELSE 0) + 1
    BY <2>1 DEF IInv, WorkersKeepTheirMemory, Holding
  <2> HIDE DEF r
  <2>4. /\ Released(r) \in Record /\ Released(r).refs = r.refs - 1
        /\ Released(r).at \notin Holding
    BY <2>2, <2>3, ReleasedIsRecord DEF Holding
  <2>5. work' \in [Worker -> Record]
    BY <1>0, <2>1, <2>4
  <2>6. WorkersKeepTheirMemory'
    <3> SUFFICES ASSUME NEW x \in Worker
                 PROVE  work'[x].refs = (IF term.worker = x THEN 1 ELSE 0)
                                        + (IF work'[x].at \in Holding THEN 1 ELSE 0)
      BY DEF WorkersKeepTheirMemory
    <3>1. CASE x = w
      BY <1>0, <2>1, <2>2, <2>3, <2>4, <3>1
    <3>2. CASE x # w
      BY <1>0, <2>1, <3>2 DEF IInv, WorkersKeepTheirMemory
    <3> QED BY <3>1, <3>2
  <2> QED BY <2>1, <2>5, <2>6 DEF IInv, Record, Ats
<1> QED BY <1>2, <1>3
-------------------------------------------------------------------------------
LEMMA InitHolds == Init => IInv
<1> SUFFICES ASSUME Init PROVE IInv
  OBVIOUS
<1>1. Unused \in Record /\ Unused.refs = 0 /\ Unused.at \notin Holding
  BY DEF Unused, Record, Ats, Holding, None
<1>2. work \in [Worker -> Record] /\ \A w \in Worker : work[w] = Unused
  BY <1>1 DEF Init
<1>3. "worker" \in DOMAIN term /\ term.worker = None /\ None \notin Worker
  BY WorkerAssumption DEF Init, NoTerminal
<1>4. "state" \in DOMAIN port /\ term = NoTerminal /\ call = NoCall
  BY DEF Init, NewPort
<1>5. WorkersKeepTheirMemory
  <2> SUFFICES ASSUME NEW w \in Worker
               PROVE  work[w].refs = (IF term.worker = w THEN 1 ELSE 0)
                                     + (IF work[w].at \in Holding THEN 1 ELSE 0)
    BY DEF WorkersKeepTheirMemory
  <2>1. work[w].refs = 0 /\ work[w].at \notin Holding /\ term.worker # w
    BY <1>1, <1>2, <1>3
  <2> QED BY <2>1
<1> QED BY <1>2, <1>3, <1>4, <1>5 DEF Init, IInv, Record, Ats

LEMMA StartKeeps == ASSUME IInv, Start \/ StartRefused PROVE IInv'
<1>0. port.state = "created" /\ term.worker = None /\ "state" \in DOMAIN port /\ kind \in Kinds
      /\ taken \in Nat /\ ~ Attached
  BY DEF Start, StartRefused, IInv, Attached, NoTerminal
<1>1. \A o \in Started : "worker" \in DOMAIN o.term /\ o.term.worker = None
  BY <1>0, StartedKeeps DEF Keeps, NoTerminal
<1>2. CASE Start
  <2>1. PICK o \in Started :
          IF o.term.cooked THEN StartReader(o.term) ELSE term' = o.term /\ UNCHANGED work
    BY <1>2 DEF Start, MayCost
  <2>2. /\ UNCHANGED <<kind, taken>>
        /\ "state" \in DOMAIN port' /\ port'.state = "started"
    BY <1>0, <1>2 DEF Start, inputVars
  <2>3. CASE o.term.cooked
    BY <1>0, <1>1, <2>1, <2>2, <2>3, StartReaderKeeps
  <2>4. CASE ~ o.term.cooked
    BY <1>0, <1>1, <2>1, <2>2, <2>4, QuietKeeps
  <2> QED BY <2>3, <2>4
<1>3. CASE StartRefused
  <2>1. PICK o : GiveUpStart(o) /\ "worker" \in DOMAIN o.term /\ o.term.worker = None
    <3>1. CASE \E o \in MayCost({x \in Started : ~ x.ok}) : GiveUpStart(o)
      BY <1>1, <3>1 DEF MayCost
    <3>2. CASE \E s \in {x \in Started : x.ok /\ x.term.cooked} :
                 \E o \in MayCost(RolledBack(s.term, s.host)) : GiveUpStart(o)
      <4>1. PICK s \in Started : \E o \in RolledBack(s.term, s.host) : GiveUpStart(o)
        BY <3>2 DEF MayCost
      <4> QED BY <1>1, <4>1, RolledBackKeeps DEF Keeps
    <3> QED BY <1>3, <3>1, <3>2 DEF StartRefused
  <2>2. /\ UNCHANGED <<kind, taken, work>>
        /\ "worker" \in DOMAIN term' /\ term'.worker = None
        /\ "state" \in DOMAIN port' /\ port'.state = "refused"
    BY <1>0, <2>1 DEF GiveUpStart, inputVars
  <2> QED BY <1>0, <2>2, QuietKeeps
<1> QED BY <1>2, <1>3

(* Hands and Raises leave the state of the port alone.                          *)
LEMMA PortWorks ==
  ASSUME IInv, NEW events, Hands(events) \/ Raises \/ UNCHANGED port
  PROVE  "state" \in DOMAIN port' /\ port'.state = port.state
<1>0. "state" \in DOMAIN port
  BY DEF IInv
<1>1. CASE Hands(events)
  <2>1. \E m : port' = [port EXCEPT !.missed = m]
    BY <1>1 DEF Hands
  <2> QED BY <1>0, <2>1
<1>2. CASE Raises \/ UNCHANGED port
  BY <1>0, <1>2 DEF Raises
<1> QED BY <1>1, <1>2

(* Nothing but a start happens to a port that has not started.                  *)
LEMMA StartedBefore ==
  ASSUME IInv,
         \/ PollNext \/ CallNext \/ Quit \/ Cancel \/ Restore \/ Close \/ Join \/ Abandon
         \/ Collect \/ ClipboardLate \/ EditorNext
  PROVE  port.state # "created"
<1> SUFFICES ASSUME port.state = "created" PROVE FALSE
  OBVIOUS
<1>1. term.at = "none" /\ ~ Attached /\ call.op = "none" /\ call.at = "none"
  BY DEF IInv, NoTerminal, NoCall, Attached
<1>2. ~ PollNext
  BY <1>1 DEF PollNext, PollTells, PollStartsReader, PollCooked, PollStream, PollConsole, PollKey,
              PollPaste, PollKeyFails, PollConsoleEnds, PollReads, MayPoll, MoreKeys, Polling
<1>3. ~ CallNext
  BY <1>1 DEF CallNext, CallLook, CallEnter, CallReaderStays, CancelEnds, RestoreEnds, CloseEnds,
              CollectEnds
<1>4. ~ EditorNext
  BY DEF EditorNext, EditorUses, EditorWaits, EditorRefused, EditorPastes, EditorCancels,
         EditorHolds, Uses
<1> QED BY <1>1, <1>2, <1>3, <1>4
           DEF Quit, Cancel, Restore, Close, Join, Abandon, Collect, ClipboardLate

LEMMA PollKeeps == ASSUME IInv, PollNext PROVE IInv'
<1> port.state # "created"
  BY StartedBefore
<1>0. /\ "worker" \in DOMAIN term /\ "state" \in DOMAIN port /\ taken \in Nat
      /\ DOMAIN Detached(term) = DOMAIN term /\ Detached(term).worker = None
  BY DEF IInv, Detached
<1>1. CASE PollTells
  <2>1. "worker" \in DOMAIN term' /\ term'.worker = term.worker
    BY <1>0, <1>1 DEF PollTells, Tells
  <2>2. "state" \in DOMAIN port' /\ port'.state = port.state
    BY <1>1, PortWorks DEF PollTells, Tells
  <2>3. UNCHANGED <<kind, work, taken>>
    BY <1>1 DEF PollTells, inputVars
  <2> QED BY <1>0, <2>1, <2>2, <2>3, QuietKeeps
<1>2. CASE PollStartsReader
  <2>1. UNCHANGED <<kind, taken>> /\ ~ Attached
    BY <1>2 DEF PollStartsReader, inputVars
  <2>2. "state" \in DOMAIN port' /\ port'.state = port.state
    BY <1>2, PortWorks DEF PollStartsReader
  <2>3. CASE StartReader(term)
    BY <1>0, <2>1, <2>2, <2>3, StartReaderKeeps
  <2>4. CASE UNCHANGED <<work, term>>
    BY <1>0, <2>1, <2>2, <2>4, QuietKeeps
  <2> QED BY <1>2, <2>3, <2>4 DEF PollStartsReader
<1>3. CASE PollCooked
  <2>1. UNCHANGED <<kind, taken>>
    BY <1>3 DEF PollCooked, inputVars
  <2>2. "state" \in DOMAIN port' /\ port'.state = port.state
    BY <1>3, PortWorks DEF PollCooked
  <2>3. \/ LetGo /\ "worker" \in DOMAIN term' /\ term'.worker = None
        \/ UNCHANGED work /\ "worker" \in DOMAIN term' /\ term'.worker = term.worker
    BY <1>0, <1>3 DEF PollCooked
  <2> QED BY <1>0, <2>1, <2>2, <2>3, LetGoKeeps, QuietKeeps
<1>4. CASE PollStream
  <2>1. UNCHANGED <<kind, work>> /\ taken' \in Nat
    BY <1>0, <1>4 DEF PollStream, inputVars
  <2>2. "state" \in DOMAIN port' /\ port'.state = port.state
    BY <1>4, PortWorks DEF PollStream, Tells
  <2>3. "worker" \in DOMAIN term' /\ term'.worker = term.worker
    BY <1>0, <1>4 DEF PollStream, Tells
  <2> QED BY <2>1, <2>2, <2>3, QuietKeeps
<1>5. CASE PollConsole
  <2>1. UNCHANGED <<kind, taken, port>>
    BY <1>5 DEF PollConsole, inputVars
  <2>2. \/ LetGo /\ term' = Detached(term)
        \/ UNCHANGED work /\ "worker" \in DOMAIN term' /\ term'.worker = term.worker
    BY <1>0, <1>5 DEF PollConsole
  <2> QED BY <1>0, <2>1, <2>2, LetGoKeeps, QuietKeeps
<1>6. CASE PollKey \/ PollKeyFails \/ PollConsoleEnds
  <2>1. UNCHANGED <<kind, work, term>> /\ taken' \in Nat
    BY <1>0, <1>6 DEF PollKey, NextKey, PollKeyFails, PollConsoleEnds, workerVars
  <2>2. "state" \in DOMAIN port' /\ port'.state = port.state
    BY <1>6, PortWorks DEF PollKey, PollKeyFails, PollConsoleEnds
  <2> QED BY <1>0, <2>1, <2>2, QuietKeeps
<1>7. CASE PollPaste
  <2>1. kind' = kind /\ taken' \in Nat /\ taken + 1 \in Nat
    BY <1>0, <1>7 DEF PollPaste, NextKey
  <2>2. "state" \in DOMAIN port' /\ port'.state = port.state
    BY <1>0, <1>7 DEF PollPaste
  <2>3. CASE UNCHANGED <<work, term>>
    BY <1>0, <2>1, <2>2, <2>3, QuietKeeps
  <2>4. CASE ~ UNCHANGED <<work, term>>
    <3>1. /\ ~ Attached /\ Unowned # {}
          /\ work' = [work EXCEPT ![Fresh] = Born("rendering", taken + 1)]
          /\ "worker" \in DOMAIN term' /\ term'.worker = Fresh
      BY <1>0, <1>7, <2>4 DEF PollPaste
    <3> QED BY <2>1, <2>2, <3>1, BornKeeps DEF Holding
  <2> QED BY <2>3, <2>4
<1> QED BY <1>1, <1>2, <1>3, <1>4, <1>5, <1>6, <1>7 DEF PollNext

LEMMA CallKeeps == ASSUME IInv, CallNext PROVE IInv'
<1> port.state # "created"
  BY StartedBefore
<1>0. /\ "worker" \in DOMAIN term /\ "state" \in DOMAIN port /\ taken \in Nat
      /\ DOMAIN Detached(term) = DOMAIN term /\ Detached(term).worker = None
  BY DEF IInv, Detached
<1>1. CASE CallLook \/ CallReaderStays
  <2>1. UNCHANGED <<kind, taken, port>>
    BY <1>1 DEF CallLook, CallReaderStays, inputVars
  <2>2. (LetGo /\ term' = Detached(term)) \/ UNCHANGED <<work, term>>
    BY <1>1 DEF CallLook, CallReaderStays
  <2> QED BY <1>0, <2>1, <2>2, LetGoKeeps, QuietKeeps
<1>2. CASE CallEnter
  BY <1>0, <1>2, QuietKeeps DEF CallEnter
<1>3. CASE CancelEnds
  <2>1. /\ UNCHANGED <<kind, taken, work>>
        /\ "worker" \in DOMAIN term' /\ term'.worker = term.worker
        /\ "state" \in DOMAIN port' /\ port'.state = port.state
    BY <1>0, <1>3 DEF CancelEnds, workerVars
  <2> QED BY <1>0, <2>1, QuietKeeps
<1>4. CASE RestoreEnds \/ CloseEnds \/ CollectEnds
  <2>1. UNCHANGED <<kind, taken, work>>
    BY <1>4 DEF RestoreEnds, CloseEnds, CollectEnds, inputVars
  <2>2. PICK o \in Restored(term, host) :
          /\ term' = o.term \/ \E at : term' = [o.term EXCEPT !.at = at]
          /\ \/ UNCHANGED port
             \/ \E b : port' = [port EXCEPT !.restored = b]
             \/ port' = [port EXCEPT !.state = IF o.ok THEN "closed" ELSE @]
    BY <1>4 DEF RestoreEnds, CloseEnds, CollectEnds, MayCost
  <2>3. DOMAIN o.term = DOMAIN term /\ o.term.worker = term.worker
    BY <1>0, RestoredKeeps DEF Keeps
  <2>4. "worker" \in DOMAIN term' /\ term'.worker = term.worker
    BY <1>0, <2>2, <2>3
  <2>5. "state" \in DOMAIN port' /\ port'.state # "created"
    BY <1>0, <2>2
  <2> QED BY <1>0, <2>1, <2>4, <2>5, QuietKeeps
<1> QED BY <1>1, <1>2, <1>3, <1>4 DEF CallNext

LEMMA PortKeeps == ASSUME IInv, PortNext PROVE IInv'
<1>0. /\ "worker" \in DOMAIN term /\ "state" \in DOMAIN port /\ taken \in Nat
      /\ DOMAIN Detached(term) = DOMAIN term /\ Detached(term).worker = None
  BY DEF IInv, Detached
<1>1. CASE Start \/ StartRefused \/ PollNext \/ CallNext
  BY <1>1, StartKeeps, PollKeeps, CallKeeps
<1>2. CASE Cancel \/ Restore \/ Close \/ Collect
  <2>1. PICK op : Begins(op)
    BY <1>2 DEF Cancel, Restore, Close, Collect
  <2>2. UNCHANGED <<kind, taken>> /\ (UNCHANGED <<work, term>> \/ (LetGo /\ term' = Detached(term)))
    BY <2>1 DEF Begins, inputVars
  <2>3. "state" \in DOMAIN port' /\ port'.state = port.state /\ port.state # "created"
    BY <1>0, <1>2, StartedBefore DEF Cancel, Restore, Close, Collect
  <2> QED BY <1>0, <2>2, <2>3, LetGoKeeps, QuietKeeps
<1>3. CASE Quit \/ Join \/ Abandon \/ ClipboardLate
  <2>1. UNCHANGED <<kind, taken, work>>
    BY <1>3 DEF Quit, Join, Abandon, ClipboardLate, workerVars
  <2>2. "worker" \in DOMAIN term' /\ term'.worker = term.worker
    BY <1>0, <1>3 DEF Quit, Join, Abandon, ClipboardLate
  <2>3. "state" \in DOMAIN port' /\ port'.state # "created"
    BY <1>0, <1>3, StartedBefore DEF Quit, Join, Abandon, ClipboardLate
  <2> QED BY <1>0, <2>1, <2>2, <2>3, QuietKeeps
<1> QED BY <1>1, <1>2, <1>3 DEF PortNext

LEMMA EditorKeeps == ASSUME IInv, EditorNext PROVE IInv'
<1> port.state # "created"
  BY StartedBefore
<1>0. /\ "worker" \in DOMAIN term /\ "state" \in DOMAIN port /\ taken \in Nat
      /\ DOMAIN Detached(term) = DOMAIN term /\ Detached(term).worker = None
  BY DEF IInv, Detached
<1>1. UNCHANGED <<kind, taken>>
  BY DEF EditorNext, EditorUses, EditorWaits, EditorRefused, EditorPastes, EditorCancels,
         EditorHolds, workerVars, inputVars
<1>2. \/ UNCHANGED port
      \/ \E m : port' = [port EXCEPT !.missed = m]
      \/ port' = [port EXCEPT !.closing = TRUE]
  BY DEF EditorNext, EditorUses, EditorWaits, EditorRefused, EditorPastes, EditorCancels,
         EditorHolds, Misses
<1>3. "state" \in DOMAIN port' /\ port'.state = port.state
  BY <1>0, <1>2
<1>4. UNCHANGED <<work, term>> \/ (LetGo /\ term' = Detached(term))
  BY DEF EditorNext, EditorUses, EditorWaits, EditorRefused, EditorPastes, EditorCancels,
         EditorHolds, CallsOff, Discards, workerVars
<1> QED BY <1>0, <1>1, <1>3, <1>4, LetGoKeeps, QuietKeeps

LEMMA NextKeeps == ASSUME IInv, [Next]_vars PROVE IInv'
<1>1. CASE Outside
  <2>1. CASE WorkerNext
    BY <1>1, <2>1, WorkerNextKeeps DEF Outside
  <2>2. CASE Type
    BY <1>1, <2>2 DEF Outside, Type, IInv, WorkersKeepTheirMemory
  <2> QED BY <1>1, <2>1, <2>2 DEF Outside
<1>2. CASE PortNext
  BY <1>2, PortKeeps
<1>3. CASE EditorNext
  BY <1>3, EditorKeeps
<1>4. CASE UNCHANGED vars
  BY <1>4 DEF vars, portVars, workerVars, IInv, WorkersKeepTheirMemory
<1> QED BY <1>1, <1>2, <1>3, <1>4 DEF Next

(* A record that the terminal shares with a thread is freed by the last of the   *)
(* two to let go of it (windows_clipboard_release, windows_cooked_release), by    *)
(* whatever way the port, the editor and the collector come to let go.           *)
THEOREM MemoryIsKept == Spec => []WorkersKeepTheirMemory
<1>1. Init => IInv
  BY InitHolds
<1>2. IInv /\ [Next]_vars => IInv'
  BY NextKeeps
<1>3. IInv => WorkersKeepTheirMemory
  BY DEF IInv
<1> QED BY <1>1, <1>2, <1>3, PTL DEF Spec
-------------------------------------------------------------------------------
(* A second invariant over the first: how standard input is left.              *)

Hosts == [mode : {"found", "ours"}, nonblock : BOOLEAN]

Terms ==
  [at : {"none", "open", "garbage", "closed", "collected"}, cooked : BOOLEAN,
   modeKept : BOOLEAN, flagsKept : BOOLEAN, pty : BOOLEAN, restored : BOOLEAN,
   cancelled : BOOLEAN, emitted : BOOLEAN, outcome : {"none", "cancelled", "completed"},
   worker : Worker \cup {None}, announced : BOOLEAN, late : BOOLEAN]

\* What is not as it was found is kept to be put back, until it has been.
Kept(t, h) ==
  /\ h \in Hosts
  /\ kind \in {"console", "pipe", "pty"} => ~ h.nonblock
  /\ kind = "pty" /\ h.mode # "found" => t.pty
  /\ kind # "pty" => ~ t.pty /\ (h.mode # "found" => t.modeKept) /\ (h.nonblock => t.flagsKept)
  /\ t.restored => h = Found /\ ~ t.pty

EndOps == {"cancel", "restore", "closing", "close"}

\* Which calls a terminal is in.
Called ==
  /\ DOMAIN call = {"op", "at", "left", "events"}
  /\ call.op \in EndOps \cup {"none", "poll", "collect"}
  /\ call.op = "none" => call.at = "none"
  /\ call.op = "poll" => call.at = "keys" /\ ~ term.cooked
  /\ call.op \in EndOps => port.state \in {"started", "joined"}
  /\ call.op \in EndOps /\ call.at = "last" /\ term.cooked => ~ Attached
  /\ call.op = "collect" => term.at = "garbage"
  /\ term.at \in {"garbage", "collected"} <=> port.state \in {"abandoned", "refused"}
  /\ port.state = "created" => batch = <<>> /\ ed = NewEditor

\* A cooked console announces no paste, so nothing is thrown away with one.
CookedEvents == [kind : {"text", "terminal"}, id : Nat]

Cooked ==
  term.cooked =>
    /\ batch \in Seq(CookedEvents)
    /\ ed.waiting = None /\ ed.keys = <<>> /\ ed.replay = <<>>

\* The port knows of everyone who reads the console for it.
Readers ==
  \A w \in Worker : work[w].at = "reading" =>
    term.at \in {"garbage", "collected"} \/ (term.worker = w /\ term.cooked)

Ended ==
  /\ term.at = "closed" =>
       term.restored /\ port.state = "closed" /\ \A w \in Worker : work[w].at # "reading"
  /\ term.at = "collected" /\ faults = 0 => host = Found

MInv ==
  /\ IInv /\ faults \in Nat /\ term \in Terms /\ Kept(term, host)
  /\ Called /\ Cooked /\ Readers /\ Ended
-------------------------------------------------------------------------------
(* What the calls of the terminal make of its modes.                            *)

\* The outcome of a restoration.
Puts(o, t) ==
  /\ DOMAIN o = {"ok", "term", "host", "cost"}
  /\ o.term \in Terms /\ o.term.at = t.at /\ o.term.cooked = t.cooked /\ o.term.worker = t.worker
  /\ Kept(o.term, o.host) /\ o.cost \in Nat
  /\ o.ok => o.term.restored
  /\ o.cost = 0 => o.ok

(* Restored is what was put back: there is no way to restore that leaves a mode.  *)
LEMMA BackPuts ==
  ASSUME NEW t \in Terms, NEW h, h \in Hosts, ~ t.restored,
         NEW u, u = [t EXCEPT !.restored = TRUE] \/ u = [t EXCEPT !.pty = FALSE, !.restored = TRUE],
         ~ u.pty
  PROVE  Puts(Done(u, Found, 0), t)
<1>1. /\ u \in Terms /\ u.at = t.at /\ u.cooked = t.cooked /\ u.worker = t.worker /\ u.restored
  BY DEF Terms
<1>2. Found \in Hosts /\ Found.mode = "found" /\ ~ Found.nonblock
  BY DEF Found, Hosts
<1>3. Kept(u, Found)
  BY <1>1, <1>2 DEF Kept
<1> QED BY <1>1, <1>3 DEF Done, Puts

LEMMA StaysPuts ==
  ASSUME NEW t \in Terms, NEW h, Kept(t, h)
  PROVE  Puts(Failed(t, h, 1), t)
BY DEF Failed, Puts

LEMMA RestoredOncePuts ==
  ASSUME kind \in Kinds, NEW t \in Terms, NEW h, Kept(t, h), ~ t.restored,
         NEW o \in RestoredOnce(t, h)
  PROVE  Puts(o, t)
<1>0. h \in Hosts /\ Found \in Hosts /\ (h.mode = "found" /\ ~ h.nonblock => h = Found)
  BY DEF Kept, Hosts, Found
<1> DEFINE u == [t EXCEPT !.restored = TRUE]
           v == [t EXCEPT !.pty = FALSE, !.restored = TRUE]
<1>1. u.pty = t.pty /\ ~ v.pty
  BY DEF Terms
<1>2. CASE kind = "pty" /\ ~ t.pty
  <2>1. o = Done(u, h, 0) /\ h = Found
    BY <1>0, <1>2 DEF RestoredOnce, PtyRestored, Kept, Hosts
  <2> QED BY <1>0, <1>1, <1>2, <2>1, BackPuts
<1>3. CASE kind = "pty" /\ t.pty
  <2>1. \/ o = Done(v, Found, 0)
        \/ \E g \in {h, Found} : o = Failed(t, g, 1)
    BY <1>3 DEF RestoredOnce, PtyRestored, Stty
  <2>2. Kept(t, Found)
    BY <1>3, <1>0 DEF Kept, Found
  <2>3. CASE o = Done(v, Found, 0)
    BY <1>0, <1>1, <2>3, BackPuts
  <2> QED BY <2>1, <2>2, <2>3, StaysPuts
<1>4. CASE kind \in {"console", "pipe"}
  <2>1. \/ o = Done(u, Found, 0)
        \/ o = Failed(t, h, 1)
    BY <1>0, <1>4 DEF RestoredOnce, ConsoleRestored, Kept, Hosts
  <2>2. ~ u.pty
    BY <1>1, <1>4 DEF Kept
  <2>3. CASE o = Done(u, Found, 0)
    BY <1>0, <2>2, <2>3, BackPuts
  <2> QED BY <2>1, <2>3, StaysPuts
<1>5. CASE kind \in {"tty", "stream"}
  <2> DEFINE moded == IF t.modeKept THEN [h EXCEPT !.mode = "found"] ELSE h
  <2>1. /\ moded \in Hosts /\ moded.nonblock = h.nonblock
        /\ moded.mode = "found"
    BY <1>0, <1>5 DEF Kept, Hosts
  <2>2. Kept(t, moded)
    BY <1>5, <2>1 DEF Kept
  <2>3. ~ t.flagsKept => moded = Found
    BY <1>5, <2>1 DEF Kept, Hosts, Found
  <2>4. \/ o = Done(u, IF t.flagsKept THEN Found ELSE moded, 0)
        \/ \E g \in {h, moded} : o = Failed(t, g, 1)
    BY <1>5 DEF RestoredOnce, PosixRestored
  <2> HIDE DEF moded
  <2>5. ~ u.pty
    BY <1>1, <1>5 DEF Kept
  <2>6. CASE o = Done(u, IF t.flagsKept THEN Found ELSE moded, 0)
    <3>1. o = Done(u, Found, 0)
      BY <2>3, <2>6
    <3> QED BY <1>0, <2>5, <3>1, BackPuts
  <2> QED BY <2>2, <2>4, <2>6, StaysPuts
<1> QED BY <1>2, <1>3, <1>4, <1>5 DEF Kinds

LEMMA RestoredPuts ==
  ASSUME kind \in Kinds, NEW t \in Terms, NEW h, Kept(t, h), NEW o \in Restored(t, h)
  PROVE  Puts(o, t)
<1>1. CASE t.restored
  <2>1. o = Done(t, h, 0)
    BY <1>1 DEF Restored
  <2> QED BY <1>1, <2>1 DEF Done, Puts
<1>2. CASE ~ t.restored
  BY <1>2, RestoredOncePuts DEF Restored
<1> QED BY <1>1, <1>2

\* The outcome of a start, or of what it puts back.
Sets(o, t) ==
  /\ DOMAIN o = {"ok", "term", "host", "cost"}
  /\ o.term \in Terms /\ o.term.at = t.at /\ o.term.worker = t.worker
  /\ Kept(o.term, o.host) /\ o.cost \in Nat

LEMMA RolledBackSets ==
  ASSUME kind \in Kinds, NEW t \in Terms, NEW h, Kept(t, h), NEW o \in RolledBack(t, h)
  PROVE  Sets(o, t)
<1>1. PICK r \in Restored(t, h) : o = [r EXCEPT !.ok = FALSE, !.cost = @ + 1]
  BY DEF RolledBack
<1>2. Puts(r, t)
  BY RestoredPuts
<1> QED BY <1>1, <1>2 DEF Puts, Sets

LEMMA StartedSets ==
  ASSUME kind \in Kinds, raw \in BOOLEAN, Kept(NoTerminal, host), NEW o \in Started
  PROVE  Sets(o, Opened)
<1> USE DEF None
<1>0. host = Found
  BY DEF Kept, NoTerminal, Hosts, Found, Kinds
<1>1. /\ Opened \in Terms /\ Opened.at = "open" /\ Opened.worker = None /\ ~ Opened.restored
      /\ ~ Opened.pty /\ ~ Opened.modeKept /\ ~ Opened.flagsKept
  BY DEF Opened, NoTerminal, Terms
<1>2. Kept(Opened, host)
  BY <1>0, <1>1 DEF Kept, Found, Hosts
<1>3. \A c \in {0, 1} : Sets(Failed(Opened, host, c), Opened)
  BY <1>1, <1>2 DEF Failed, Sets
<1>4. CASE kind = "tty"
  <2> DEFINE t == [Opened EXCEPT !.modeKept = TRUE, !.flagsKept = TRUE]
             h == IF raw THEN [host EXCEPT !.mode = "ours"] ELSE host
             g == [h EXCEPT !.nonblock = TRUE]
  <2>1. /\ t \in Terms /\ t.at = "open" /\ t.worker = None /\ ~ t.restored /\ ~ t.pty
        /\ t.modeKept /\ t.flagsKept
    BY <1>1 DEF Terms
  <2>2. h \in Hosts /\ g \in Hosts
    BY <1>0 DEF Found, Hosts
  <2>3. o \in {Done(t, g, 0)} \cup Refused(1) \cup RolledBack(t, h)
    BY <1>4 DEF Started, StartTty
  <2> HIDE DEF t, h, g
  <2>4. Kept(t, h) /\ Kept(t, g)
    BY <1>4, <2>1, <2>2 DEF Kept
  <2>5. CASE o = Done(t, g, 0)
    BY <1>1, <2>1, <2>4, <2>5 DEF Done, Sets
  <2>6. CASE o \in RolledBack(t, h)
    <3>1. Sets(o, t)
      BY <2>1, <2>4, <2>6, RolledBackSets
    <3> QED BY <1>1, <2>1, <3>1 DEF Sets
  <2> QED BY <1>3, <2>3, <2>5, <2>6 DEF Refused
<1>5. CASE kind \in {"stream", "console", "pipe"}
  <2>1. \/ \E c \in {0, 1} : o = Failed(Opened, host, c)
        \/ kind = "stream" /\ o = Done([Opened EXCEPT !.flagsKept = TRUE], [host EXCEPT !.nonblock = TRUE], 0)
        \/ kind = "console" /\ o = Done([Opened EXCEPT !.modeKept = TRUE, !.cooked = ~ raw],
                                        [host EXCEPT !.mode = "ours"], 0)
        \/ kind = "console" /\ o = Failed([Opened EXCEPT !.modeKept = TRUE, !.cooked = ~ raw], host, 1)
        \/ kind = "pipe" /\ o = Done(Opened, host, 0)
    BY <1>5 DEF Started, StartStream, StartConsole, StartPipe, Refused
  <2>2. CASE kind = "stream" /\ o = Done([Opened EXCEPT !.flagsKept = TRUE], [host EXCEPT !.nonblock = TRUE], 0)
    <3> DEFINE t == [Opened EXCEPT !.flagsKept = TRUE]
               h == [host EXCEPT !.nonblock = TRUE]
    <3>1. /\ t \in Terms /\ t.at = "open" /\ t.worker = None /\ ~ t.restored /\ ~ t.pty /\ t.flagsKept
          /\ h \in Hosts /\ h.mode = "found"
      BY <1>0, <1>1 DEF Terms, Hosts, Found
    <3>2. o = Done(t, h, 0)
      BY <2>2
    <3> HIDE DEF t, h
    <3>3. Kept(t, h)
      BY <2>2, <3>1 DEF Kept
    <3> QED BY <1>1, <3>1, <3>2, <3>3 DEF Done, Sets
  <2>3. CASE /\ kind = "console"
             /\ \/ o = Done([Opened EXCEPT !.modeKept = TRUE, !.cooked = ~ raw],
                            [host EXCEPT !.mode = "ours"], 0)
                \/ o = Failed([Opened EXCEPT !.modeKept = TRUE, !.cooked = ~ raw], host, 1)
    <3> DEFINE t == [Opened EXCEPT !.modeKept = TRUE, !.cooked = ~ raw]
               h == [host EXCEPT !.mode = "ours"]
    <3>1. /\ t \in Terms /\ t.at = "open" /\ t.worker = None /\ ~ t.restored /\ ~ t.pty /\ t.modeKept
          /\ h \in Hosts /\ ~ h.nonblock /\ host \in Hosts /\ ~ host.nonblock
      BY <1>0, <1>1 DEF Terms, Hosts, Found
    <3>2. o = Done(t, h, 0) \/ o = Failed(t, host, 1)
      BY <2>3
    <3> HIDE DEF t, h
    <3>3. Kept(t, h) /\ Kept(t, host)
      BY <2>3, <3>1 DEF Kept
    <3> QED BY <1>1, <3>1, <3>2, <3>3 DEF Done, Failed, Sets
  <2>4. CASE o = Done(Opened, host, 0)
    BY <1>1, <1>2, <2>4 DEF Done, Sets
  <2> QED BY <1>3, <2>1, <2>2, <2>3, <2>4
<1>6. CASE kind = "pty"
  <2> DEFINE t == [Opened EXCEPT !.pty = TRUE]
             want == [host EXCEPT !.mode = "ours"]
             Back(r) == [r EXCEPT !.ok = FALSE, !.cost = @ + 1, !.term.restored = FALSE]
  <2>1. /\ t \in Terms /\ t.at = "open" /\ t.worker = None /\ ~ t.restored /\ t.pty
    BY <1>1 DEF Terms
  <2>2. \A h \in Hosts : ~ h.nonblock => Kept(t, h)
    BY <1>6, <2>1 DEF Kept
  <2>3. want \in Hosts /\ ~ want.nonblock /\ host \in Hosts /\ ~ host.nonblock
    BY <1>0 DEF Found, Hosts
  <2>4. \/ o \in Refused(1)
        \/ \E h \in {host, want} : o = Done(t, h, 0) \/ \E r \in PtyRestored(t, h) : o = Back(r)
    <3>1. o \in Refused(1) \/ \E s \in Stty(host, want) :
            o \in IF s.ok THEN {Done(t, s.host, 0)} ELSE {Back(r) : r \in PtyRestored(t, s.host)}
      BY <1>6 DEF Started, StartPty, NoStty
    <3>2. \A s \in Stty(host, want) : s.host \in {host, want}
      BY DEF Stty
    <3> HIDE DEF t, want, Back
    <3> QED BY <3>1, <3>2
  <2> HIDE DEF t, want
  <2>5. CASE \E h \in {host, want} : o = Done(t, h, 0)
    <3>1. PICK h \in {host, want} : o = Done(t, h, 0)
      BY <2>5
    <3>2. Kept(t, h)
      BY <2>2, <2>3
    <3> QED BY <1>1, <2>1, <3>1, <3>2 DEF Done, Sets
  <2>6. CASE \E h \in {host, want} : \E r \in PtyRestored(t, h) : o = Back(r)
    <3>0. PICK h \in {host, want} : \E r \in PtyRestored(t, h) : o = Back(r)
      BY <2>6
    <3>1. PICK r \in PtyRestored(t, h) : o = Back(r)
      BY <3>0
    <3>2. r \in RestoredOnce(t, h)
      BY <1>6, <3>1 DEF RestoredOnce
    <3>3. Kept(t, h)
      BY <2>2, <2>3, <3>0
    <3>4. Puts(r, t)
      BY <2>1, <3>2, <3>3, RestoredOncePuts
    <3>5. /\ o.term = [r.term EXCEPT !.restored = FALSE] /\ o.host = r.host /\ o.cost = r.cost + 1
          /\ DOMAIN o = {"ok", "term", "host", "cost"}
      BY <3>1, <3>4 DEF Puts
    <3>6. /\ o.term \in Terms /\ o.term.at = t.at /\ o.term.worker = t.worker
          /\ ~ o.term.restored /\ o.term.pty = r.term.pty
      BY <3>4, <3>5 DEF Puts, Terms
    <3>7. Kept(o.term, o.host)
      BY <1>6, <3>4, <3>5, <3>6 DEF Puts, Kept
    <3> QED BY <1>1, <2>1, <3>4, <3>5, <3>6, <3>7 DEF Puts, Sets
  <2> QED BY <1>3, <2>4, <2>5, <2>6 DEF Refused
<1> QED BY <1>4, <1>5, <1>6 DEF Kinds
-------------------------------------------------------------------------------
(* The steps.                                                                    *)

(* Who lets go of a record starts no reader.                                      *)
LEMMA LetGoReads ==
  ASSUME IInv, LetGo
  PROVE  \A w \in Worker : work'[w].at = "reading" => work[w].at = "reading"
<1>1. work \in [Worker -> Record] /\ term.worker \in Worker \cup {None}
  BY DEF IInv, Record, Ats
<1>2. \A r \in Record : Released(r).at = "reading" => r.at = "reading"
  BY DEF Released, Record, Unused
<1> QED BY <1>1, <1>2 DEF LetGo, Attached

(* A step that neither starts a reader nor touches the modes.                     *)
LEMMA StepModes ==
  ASSUME MInv, IInv', UNCHANGED <<kind, host>>, faults' \in Nat, faults' = 0 => faults = 0,
         term' \in Terms, term'.at = term.at, term'.cooked = term.cooked,
         term'.modeKept = term.modeKept, term'.flagsKept = term.flagsKept, term'.pty = term.pty,
         term'.restored = term.restored, port'.state = port.state,
         \A w \in Worker : work'[w].at = "reading" =>
           work[w].at = "reading" /\ (term'.worker = term.worker \/ w # term.worker \/ ~ term.cooked),
         Called', Cooked'
  PROVE  MInv'
<1>1. Kept(term, host)'
  BY DEF MInv, Kept
<1>2. Readers'
  BY DEF MInv, Readers
<1>3. Ended'
  BY DEF MInv, Ended
<1> QED BY <1>1, <1>2, <1>3 DEF MInv

(* The port does not change what it does, nor the terminal the call it is in.      *)
LEMMA SameCalled ==
  ASSUME MInv, UNCHANGED call, port.state # "created", port'.state = port.state,
         term'.at = term.at, term'.cooked = term.cooked,
         term'.worker = term.worker \/ term'.worker = None \/ call.op = "none"
  PROVE  Called'
BY DEF MInv, Called, Attached, EndOps

LEMMA RawIsCooked ==
  ASSUME ~ term'.cooked
  PROVE  Cooked'
BY DEF Cooked

LEMMA TextAndEnd ==
  ASSUME NEW id \in Nat
  PROVE  <<Event("text", id)>> \in Seq(CookedEvents) /\ <<Event("terminal", None)>> \in Seq(CookedEvents)
BY DEF CookedEvents, Event, None

(* Faults are counted.                                                            *)
LEMMA FaultCounts ==
  ASSUME faults \in Nat, Fault \/ UNCHANGED faults
  PROVE  faults' \in Nat /\ (faults' = 0 => faults = 0)
BY DEF Fault

LEMMA DetachedIsTerm ==
  ASSUME NEW t \in Terms
  PROVE  /\ Detached(t) \in Terms /\ Detached(t).worker = None
         /\ Detached(t).at = t.at /\ Detached(t).cooked = t.cooked
         /\ Detached(t).modeKept = t.modeKept /\ Detached(t).flagsKept = t.flagsKept
         /\ Detached(t).pty = t.pty /\ Detached(t).restored = t.restored
BY DEF Detached, Terms, None
-------------------------------------------------------------------------------
(* The polls.                                                                    *)

\* What a poll may change of the terminal.
SameModes(t) ==
  /\ t \in Terms /\ t.at = term.at /\ t.cooked = term.cooked
  /\ t.modeKept = term.modeKept /\ t.flagsKept = term.flagsKept
  /\ t.pty = term.pty /\ t.restored = term.restored

LEMMA TellsModes ==
  ASSUME MInv, NEW outcome \in {"cancelled", "completed"}, Tells(outcome)
  PROVE  /\ SameModes(term') /\ term'.worker = term.worker
         /\ faults' \in Nat /\ (faults' = 0 => faults = 0)
         /\ batch' = batch \/ batch' = <<Event("terminal", None)>>
<1>1. SameModes(term') /\ term'.worker = term.worker
  BY DEF Tells, SameModes, MInv, Terms
<1>2. faults' \in Nat /\ (faults' = 0 => faults = 0)
  BY FaultCounts DEF MInv, Tells
<1>3. batch' = batch \/ batch' = <<Event("terminal", None)>>
  BY DEF Tells, Hands, Raises
<1> QED BY <1>1, <1>2, <1>3

(* A poll of a terminal that is in no other call.                                  *)
LEMMA PollModes ==
  ASSUME MInv, IInv', UNCHANGED <<kind, host, call, ed>>, port.state = "started", port'.state = "started",
         Idle, SameModes(term'), faults' \in Nat, faults' = 0 => faults = 0,
         batch' = batch \/ batch' \in Seq(CookedEvents),
         \/ UNCHANGED work /\ term'.worker = term.worker
         \/ LetGo /\ (term.cooked => ReaderGone)
  PROVE  MInv'
<1>1. Called'
  BY SameCalled DEF SameModes, Idle
<1>2. Cooked'
  BY DEF MInv, Cooked, SameModes
<1>3. \A w \in Worker : work'[w].at = "reading" =>
        work[w].at = "reading" /\ (term'.worker = term.worker \/ w # term.worker \/ ~ term.cooked)
  BY LetGoReads DEF MInv, ReaderGone
<1> QED BY <1>1, <1>2, <1>3, StepModes DEF SameModes

LEMMA PollTellsModes ==
  ASSUME MInv, IInv', PollTells, UNCHANGED ed
  PROVE  MInv'
<1>1. PICK outcome \in {"cancelled", "completed"} : Tells(outcome)
  BY DEF PollTells, MInv, Terms
<1>2. /\ UNCHANGED <<kind, host, call, work>> /\ port.state = "started" /\ Idle
  BY DEF PollTells, MayPoll, inputVars
<1>3. port'.state = "started"
  BY <1>1, <1>2, PortWorks DEF Tells, MInv
<1>4. batch' = batch \/ batch' \in Seq(CookedEvents)
  BY <1>1, TellsModes, TextAndEnd DEF None
<1> QED BY <1>1, <1>2, <1>3, <1>4, TellsModes, PollModes

LEMMA PollStartsReaderModes ==
  ASSUME MInv, IInv', PollStartsReader, UNCHANGED ed
  PROVE  MInv'
<1>1. /\ UNCHANGED <<kind, host, call, batch>> /\ port.state = "started" /\ Idle /\ term.cooked
      /\ ~ Attached
  BY DEF PollStartsReader, PollReads, MayPoll, inputVars, Raises
<1>2. port'.state = "started"
  BY <1>1, PortWorks DEF PollStartsReader, MInv
<1>3. faults' \in Nat /\ (faults' = 0 => faults = 0)
  BY FaultCounts DEF PollStartsReader, MInv
<1>4. CASE UNCHANGED <<work, term>>
  BY <1>1, <1>2, <1>3, <1>4, PollModes DEF SameModes, MInv
<1>5. CASE StartReader(term)
  <2>1. /\ Fresh \in Worker /\ work' = [work EXCEPT ![Fresh] = Born("reading", None)]
        /\ term' = [term EXCEPT !.worker = Fresh]
    BY <1>5, FreshIsUnused DEF StartReader
  <2>2. SameModes(term') /\ term'.worker = Fresh
    BY <2>1 DEF SameModes, MInv, Terms
  <2>3. Called'
    BY <1>1, <1>2, <2>2, SameCalled DEF SameModes, Idle
  <2>4. Cooked'
    BY <1>1, <2>2 DEF MInv, Cooked, SameModes
  <2>5. term.at # "closed" /\ term.at \notin {"garbage", "collected"}
    BY <1>1 DEF MInv, Ended, Called
  <2>6. Readers'
    <3>1. \A w \in Worker : w # Fresh => work'[w] = work[w]
      BY <2>1 DEF MInv, IInv
    <3>2. \A w \in Worker : work[w].at # "reading"
      BY <1>1, <2>5, WorkerAssumption DEF MInv, Readers, Attached
    <3> QED BY <1>1, <2>2, <3>1, <3>2 DEF Readers, SameModes
  <2>7. Kept(term, host)' /\ Ended'
    BY <1>1, <2>2, <2>5 DEF MInv, Kept, Ended, SameModes
  <2> QED BY <1>1, <1>3, <2>2, <2>3, <2>4, <2>6, <2>7 DEF MInv, SameModes
<1> QED BY <1>4, <1>5 DEF PollStartsReader

LEMMA PollCookedModes ==
  ASSUME MInv, IInv', PollCooked, UNCHANGED ed
  PROVE  MInv'
<1>1. /\ UNCHANGED <<kind, host, call>> /\ port.state = "started" /\ Idle /\ ReaderGone
  BY DEF PollCooked, PollReads, MayPoll, inputVars, ReaderGone
<1>2. port'.state = "started"
  BY <1>1, PortWorks DEF PollCooked, MInv
<1>3. faults' \in Nat /\ (faults' = 0 => faults = 0)
  BY FaultCounts DEF PollCooked, MInv
<1>4. work[term.worker].holds \in Nat
  BY <1>1 DEF ReaderGone, Attached, MInv, IInv
<1>5. batch' = batch \/ batch' \in Seq(CookedEvents)
  <2>1. \/ batch' = batch \/ batch' = <<Event("text", work[term.worker].holds)>>
        \/ batch' = <<Event("terminal", None)>>
    BY DEF PollCooked, Hands, Raises
  <2> QED BY <1>4, <2>1, TextAndEnd
<1>6. SameModes(term') /\ ((UNCHANGED work /\ term'.worker = term.worker) \/ LetGo)
  <2>1. term \in Terms
    BY DEF MInv
  <2>2. \/ LetGo /\ term' = Detached(term)
        \/ LetGo /\ term' = [Detached(term) EXCEPT !.outcome = "completed", !.emitted = TRUE]
        \/ UNCHANGED work /\ term' = [term EXCEPT !.outcome = "completed"]
    BY DEF PollCooked
  <2>3. /\ Detached(term) \in Terms /\ Detached(term).at = term.at
        /\ Detached(term).cooked = term.cooked /\ Detached(term).modeKept = term.modeKept
        /\ Detached(term).flagsKept = term.flagsKept /\ Detached(term).pty = term.pty
        /\ Detached(term).restored = term.restored
    BY <2>1, DetachedIsTerm
  <2> HIDE DEF Detached
  <2>4. CASE LetGo /\ term' = Detached(term)
    BY <2>3, <2>4 DEF SameModes
  <2>5. CASE LetGo /\ term' = [Detached(term) EXCEPT !.outcome = "completed", !.emitted = TRUE]
    BY <2>3, <2>5 DEF SameModes, Terms
  <2>6. CASE UNCHANGED work /\ term' = [term EXCEPT !.outcome = "completed"]
    BY <2>1, <2>6 DEF SameModes, Terms
  <2> QED BY <2>2, <2>4, <2>5, <2>6
<1> QED BY <1>1, <1>2, <1>3, <1>5, <1>6, PollModes

LEMMA PollStreamModes ==
  ASSUME MInv, IInv', PollStream, UNCHANGED ed
  PROVE  MInv'
<1>1. /\ UNCHANGED <<kind, host, call, work>> /\ port.state = "started" /\ Idle
  BY DEF PollStream, PollReads, MayPoll
<1>2. port'.state = "started"
  BY <1>1, PortWorks DEF PollStream, Tells, MInv
<1>3. taken + 1 \in Nat
  BY DEF MInv, IInv
<1>4. /\ SameModes(term') /\ term'.worker = term.worker
      /\ faults' \in Nat /\ (faults' = 0 => faults = 0)
      /\ batch' = batch \/ batch' \in Seq(CookedEvents)
  <2>1. CASE Tells("completed")
    BY <2>1, TellsModes, TextAndEnd DEF None
  <2>2. CASE UNCHANGED term /\ (Fault \/ UNCHANGED faults)
             /\ (batch' = <<Event("text", taken + 1)>> \/ batch' = batch)
    BY <1>3, <2>2, FaultCounts, TextAndEnd DEF SameModes, MInv
  <2> QED BY <2>1, <2>2 DEF PollStream, Hands, Raises
<1> QED BY <1>1, <1>2, <1>4, PollModes

LEMMA PollConsoleModes ==
  ASSUME MInv, IInv', PollConsole, UNCHANGED ed
  PROVE  MInv'
<1>1. /\ UNCHANGED <<kind, host, faults, port, batch>> /\ port.state = "started"
      /\ ~ term.cooked /\ call' = [op |-> "poll", at |-> "keys", left |-> Waiting, events |-> PasteSeen]
  BY DEF PollConsole, PollReads, MayPoll, inputVars
<1>2. SameModes(term') /\ (UNCHANGED work \/ LetGo)
  <2>1. term \in Terms /\ Attached \in BOOLEAN
    BY DEF MInv, Attached
  <2>2. CASE LetGo /\ term' = Detached(term)
    BY <2>1, <2>2, DetachedIsTerm DEF SameModes
  <2>3. CASE UNCHANGED work /\ term' = [term EXCEPT !.announced = Attached]
    BY <2>1, <2>3 DEF SameModes, Terms
  <2> QED BY <2>2, <2>3 DEF PollConsole
<1>3. Called'
  BY <1>1, <1>2 DEF MInv, Called, SameModes, EndOps
<1>4. Cooked'
  BY <1>1, <1>2, RawIsCooked DEF SameModes
<1>5. \A w \in Worker : work'[w].at = "reading" => work[w].at = "reading"
  BY <1>2, LetGoReads DEF MInv
<1>6. faults' \in Nat /\ (faults' = 0 => faults = 0)
  BY <1>1 DEF MInv
<1> QED BY <1>1, <1>2, <1>3, <1>4, <1>5, <1>6, StepModes DEF SameModes

LEMMA PollKeysModes ==
  ASSUME MInv, IInv', PollKey \/ PollPaste \/ PollKeyFails \/ PollConsoleEnds, UNCHANGED ed
  PROVE  MInv'
<1>0. term \in Terms /\ work \in [Worker -> Record] /\ DOMAIN call = {"op", "at", "left", "events"}
  BY DEF MInv, IInv, Record, Ats, Called
<1>1. UNCHANGED <<kind, host>> /\ call.op = "poll" /\ ~ term.cooked
  BY DEF PollKey, PollPaste, PollKeyFails, PollConsoleEnds, Polling, MoreKeys, workerVars, MInv, Called
<1>2. port'.state = port.state
  <2>1. CASE PollPaste
    BY <2>1 DEF PollPaste, MInv, IInv
  <2>2. CASE ~ PollPaste
    BY <2>2, PortWorks DEF MInv, PollKey, PollKeyFails, PollConsoleEnds
  <2> QED BY <2>1, <2>2
<1>3. faults' \in Nat /\ (faults' = 0 => faults = 0)
  <2>1. Fault \/ UNCHANGED faults
    BY DEF PollKey, PollPaste, PollKeyFails, PollConsoleEnds, workerVars
  <2> QED BY <2>1, FaultCounts DEF MInv
<1>4. /\ \A w \in Worker : work'[w].at = "reading" => work[w].at = "reading"
      /\ SameModes(term')
  <2>1. CASE UNCHANGED <<work, term>>
    BY <1>0, <2>1 DEF SameModes
  <2>2. CASE /\ Unowned # {} /\ work' = [work EXCEPT ![Fresh] = Born("rendering", taken + 1)]
             /\ term' = [term EXCEPT !.worker = Fresh, !.announced = TRUE]
    <3>1. Fresh \in Worker
      BY <2>2, FreshIsUnused
    <3>2. SameModes(term')
      BY <1>0, <2>2, <3>1 DEF SameModes, Terms
    <3>3. \A w \in Worker : work'[w].at = "reading" => work[w].at = "reading"
      BY <1>0, <2>2, <3>1 DEF Born
    <3> QED BY <3>2, <3>3
  <2> QED BY <2>1, <2>2 DEF PollKey, PollPaste, PollKeyFails, PollConsoleEnds, workerVars
<1>5. /\ DOMAIN call' = {"op", "at", "left", "events"}
      /\ \/ call'.op = "poll" /\ call'.at = "keys"
         \/ call'.op = "none" /\ call'.at = "none"
  <2>1. CASE PollKey \/ PollPaste
    <3>1. \E n, e : call' = [call EXCEPT !.left = n, !.events = e]
      BY <2>1 DEF PollKey, PollPaste, NextKey
    <3> QED BY <1>0, <1>1, <3>1 DEF MInv, Called
  <2>2. CASE PollKeyFails \/ PollConsoleEnds
    BY <2>2 DEF PollKeyFails, PollConsoleEnds, NoCall
  <2> QED BY <2>1, <2>2
<1>6. port.state # "created"
  BY StartedBefore DEF PollNext, MInv
<1>7. Called'
  BY <1>2, <1>1, <1>4, <1>5, <1>6 DEF MInv, Called, SameModes, EndOps
<1>8. Cooked'
  BY <1>1, <1>4, RawIsCooked DEF SameModes
<1> QED BY <1>1, <1>2, <1>3, <1>4, <1>7, <1>8, StepModes DEF SameModes

LEMMA PollNextModes ==
  ASSUME MInv, IInv', PollNext, UNCHANGED ed
  PROVE  MInv'
BY PollTellsModes, PollStartsReaderModes, PollCookedModes, PollStreamModes, PollConsoleModes,
   PollKeysModes DEF PollNext
-------------------------------------------------------------------------------
(* The calls that end.                                                           *)

LEMMA BeginsModes ==
  ASSUME MInv, IInv', NEW op \in EndOps \cup {"collect"}, Begins(op), UNCHANGED ed,
         port.state # "created", port'.state = port.state,
         op \in EndOps => port.state \in {"started", "joined"},
         op = "collect" => term.at = "garbage"
  PROVE  MInv'
<1>1. /\ UNCHANGED <<kind, host, batch>> /\ faults' \in Nat /\ (faults' = 0 => faults = 0)
      /\ call' = [NoCall EXCEPT !.op = op, !.at = IF term.cooked THEN "look" ELSE "last"]
  BY DEF Begins, inputVars, MInv
<1>2. /\ SameModes(term')
      /\ UNCHANGED <<work, term>> \/ (~ term.cooked /\ LetGo)
  BY DetachedIsTerm DEF Begins, SameModes, MInv
<1>3. /\ call'.op = op /\ call'.at = (IF term.cooked THEN "look" ELSE "last")
      /\ DOMAIN call' = {"op", "at", "left", "events"}
  BY <1>1 DEF NoCall
<1>4. Called'
  BY <1>2, <1>3 DEF MInv, Called, SameModes, EndOps
<1>5. Cooked'
  BY <1>1, <1>2 DEF MInv, Cooked, SameModes
<1>6. \A w \in Worker : work'[w].at = "reading" =>
        work[w].at = "reading" /\ (term'.worker = term.worker \/ w # term.worker \/ ~ term.cooked)
  BY <1>2, LetGoReads DEF MInv
<1> QED BY <1>1, <1>2, <1>4, <1>5, <1>6, StepModes DEF SameModes

LEMMA CallReaderModes ==
  ASSUME MInv, IInv', CallLook \/ CallEnter \/ CallReaderStays, UNCHANGED ed
  PROVE  MInv'
<1>0. DOMAIN call = {"op", "at", "left", "events"} /\ port.state # "created" /\ term \in Terms
  BY StartedBefore DEF MInv, Called, CallNext
<1>1. /\ UNCHANGED <<kind, host, batch, port>> /\ call.at \in {"look", "wait", "enter"}
  BY DEF CallLook, CallEnter, CallReaderStays, inputVars
<1>2. faults' \in Nat /\ (faults' = 0 => faults = 0)
  <2>1. Fault \/ UNCHANGED faults
    BY DEF CallLook, CallEnter, CallReaderStays
  <2> QED BY <2>1, FaultCounts DEF MInv
<1>3. \/ UNCHANGED <<work, term>>
      \/ LetGo /\ term' = Detached(term) /\ (ReaderGone \/ call.op = "collect")
  BY DEF CallLook, CallEnter, CallReaderStays
<1>4. SameModes(term') /\ (term'.worker = term.worker \/ term'.worker = None)
  BY <1>0, <1>3, DetachedIsTerm DEF SameModes
<1>5. call.op \in EndOps \cup {"collect"}
  BY <1>1 DEF MInv, Called
<1>6. /\ DOMAIN call' = {"op", "at", "left", "events"}
      /\ \/ call'.op = call.op /\ call'.at \in {"enter", "wait"}
         \/ call'.op = call.op /\ call'.at = "last" /\ (term'.worker = None \/ call.op = "collect")
         \/ call.op = "closing" /\ call'.op = "close" /\ call'.at = "look"
         \/ call'.op = "none" /\ call'.at = "none"
  <2>1. CASE \E at : Goes(at) /\ (at \in {"enter", "wait"} \/ (at = "last" /\ (term'.worker = None \/ call.op = "collect")))
    BY <1>0, <2>1 DEF Goes
  <2>2. CASE call.op = "closing" /\ call' = [call EXCEPT !.op = "close", !.at = "look"]
    BY <1>0, <2>2
  <2>3. CASE call' = NoCall
    BY <2>3 DEF NoCall
  <2>4. Detached(term).worker = None
    BY <1>0, DetachedIsTerm
  <2>5. ~ Attached /\ UNCHANGED term => term'.worker = None
    BY DEF Attached
  <2> QED BY <2>1, <2>2, <2>3, <2>4, <2>5 DEF CallLook, CallEnter, CallReaderStays
<1>7. Called'
  BY <1>0, <1>1, <1>4, <1>5, <1>6 DEF MInv, Called, SameModes, EndOps, Attached
<1>8. Cooked'
  BY <1>1, <1>4 DEF MInv, Cooked, SameModes
<1>9. CASE call.op # "collect"
  <2>1. \A w \in Worker : work'[w].at = "reading" =>
          work[w].at = "reading" /\ (term'.worker = term.worker \/ w # term.worker)
    BY <1>3, <1>9, LetGoReads DEF MInv, ReaderGone
  <2> QED BY <1>1, <1>2, <1>4, <1>7, <1>8, <2>1, StepModes DEF SameModes
<1>10. CASE call.op = "collect"
  <2>1. term.at = "garbage" /\ term'.at = "garbage"
    BY <1>4, <1>10 DEF MInv, Called, SameModes
  <2>2. Readers' /\ Ended'
    BY <2>1 DEF Readers, Ended
  <2>3. Kept(term, host)'
    BY <1>1, <1>4 DEF MInv, Kept, SameModes
  <2> QED BY <1>2, <1>4, <1>7, <1>8, <2>2, <2>3 DEF MInv, SameModes
<1> QED BY <1>9, <1>10

(* A call that puts back ends.                                                    *)
LEMMA EndsModes ==
  ASSUME MInv, IInv', CancelEnds \/ RestoreEnds \/ CloseEnds \/ CollectEnds, UNCHANGED ed
  PROVE  MInv'
<1>0. /\ term \in Terms /\ faults \in Nat /\ kind \in Kinds /\ "state" \in DOMAIN port
      /\ DOMAIN call = {"op", "at", "left", "events"} /\ port.state # "created"
      /\ UNCHANGED <<kind, batch, work>> /\ call.at = "last"
  BY StartedBefore DEF MInv, IInv, Called, CallNext, CancelEnds, RestoreEnds, CloseEnds, CollectEnds,
                       workerVars, inputVars
<1>1. /\ DOMAIN call' = {"op", "at", "left", "events"}
      /\ \/ call'.op = "none" /\ call'.at = "none"
         \/ call.op = "closing" /\ call'.op = "close" /\ call'.at = "look"
  <2>1. CASE call' = NoCall
    BY <2>1 DEF NoCall
  <2>2. CASE call.op = "closing" /\ call' = [call EXCEPT !.op = "close", !.at = "look"]
    BY <1>0, <2>2
  <2> QED BY <2>1, <2>2 DEF CancelEnds, RestoreEnds, CloseEnds, CollectEnds
<1>2. CASE CancelEnds
  <2>1. /\ SameModes(term') /\ term'.worker = term.worker /\ port'.state = port.state
        /\ host' = host /\ faults' = faults /\ call' = NoCall
    BY <1>0, <1>2 DEF CancelEnds, SameModes, Terms, workerVars
  <2>2. Called'
    BY <1>0, <1>1, <2>1 DEF MInv, Called, SameModes, NoCall, EndOps
  <2>3. Cooked'
    BY <1>0, <2>1 DEF MInv, Cooked, SameModes
  <2> QED BY <1>0, <2>1, <2>2, <2>3, StepModes DEF SameModes
<1>3. CASE RestoreEnds \/ CloseEnds \/ CollectEnds
  <2>1. PICK o \in Restored(term, host) :
          /\ host' = o.host /\ faults' = faults + o.cost
          /\ \/ /\ RestoreEnds /\ term' = o.term /\ port' = [port EXCEPT !.restored = o.ok]
             \/ /\ CloseEnds /\ term' = [o.term EXCEPT !.at = IF o.ok THEN "closed" ELSE @]
                /\ port' = [port EXCEPT !.state = IF o.ok THEN "closed" ELSE @]
             \/ /\ CollectEnds /\ term' = [o.term EXCEPT !.at = "collected"] /\ UNCHANGED port
    BY <1>3 DEF RestoreEnds, CloseEnds, CollectEnds, MayCost, Costs
  <2>2. Puts(o, term)
    BY <1>0, RestoredPuts DEF MInv
  <2>3. faults' \in Nat /\ (faults' = 0 => faults = 0 /\ o.ok)
    BY <1>0, <2>1, <2>2 DEF Puts
  <2>4. /\ term' \in Terms /\ term'.cooked = term.cooked /\ term'.worker = term.worker
        /\ term'.restored = o.term.restored /\ term'.pty = o.term.pty
        /\ term'.modeKept = o.term.modeKept /\ term'.flagsKept = o.term.flagsKept
    BY <2>1, <2>2 DEF Puts, Terms
  <2>5. Kept(term, host)'
    BY <1>0, <2>1, <2>2, <2>4 DEF Puts, Kept
  <2>6. Cooked'
    BY <1>0, <2>4 DEF MInv, Cooked
  <2>7. CASE CollectEnds
    <3>1. call.op = "collect" /\ term'.at = "collected" /\ port' = port
      BY <1>0, <2>1, <2>2, <2>7 DEF CollectEnds, CloseEnds, RestoreEnds, Puts, Terms
    <3>2. Called'
      BY <1>0, <1>1, <2>4, <3>1 DEF MInv, Called, EndOps
    <3>3. Readers' /\ Ended'
      BY <2>1, <2>2, <2>3, <2>4, <2>5, <3>1 DEF Readers, Ended, Puts, Kept
    <3> QED BY <2>3, <2>4, <2>5, <2>6, <3>2, <3>3 DEF MInv
  <2>8. CASE RestoreEnds \/ (CloseEnds /\ ~ o.ok)
    <3>1. call.op \in EndOps /\ term'.at = term.at /\ port'.state = port.state
      BY <1>0, <2>1, <2>2, <2>8 DEF CollectEnds, CloseEnds, RestoreEnds, EndOps, Puts, Terms
    <3>2. Called'
      BY <1>0, <1>1, <2>4, <3>1 DEF MInv, Called, EndOps
    <3>3. Readers'
      BY <1>0, <2>4, <3>1 DEF MInv, Readers
    <3>4. term.at \notin {"closed", "garbage", "collected"}
      BY <3>1 DEF MInv, Called, Ended
    <3>5. Ended'
      BY <3>1, <3>4 DEF Ended
    <3> QED BY <2>3, <2>4, <2>5, <2>6, <3>2, <3>3, <3>5 DEF MInv
  <2>9. CASE CloseEnds /\ o.ok
    <3>1. call.op = "close" /\ term'.at = "closed" /\ port'.state = "closed" /\ term'.restored
      BY <1>0, <2>1, <2>2, <2>4, <2>9 DEF CollectEnds, CloseEnds, RestoreEnds, Puts, Terms
    <3>2. term.at \notin {"garbage", "collected"} /\ (term.cooked => ~ Attached)
      BY <1>0, <3>1 DEF MInv, Called, EndOps
    <3>3. \A w \in Worker : work[w].at # "reading"
      BY <3>2, WorkerAssumption DEF MInv, Readers, Attached
    <3>4. Called'
      BY <1>0, <1>1, <2>4, <3>1 DEF MInv, Called, EndOps
    <3>5. Readers' /\ Ended'
      BY <1>0, <3>1, <3>3 DEF Readers, Ended
    <3> QED BY <2>3, <2>4, <2>5, <2>6, <3>4, <3>5 DEF MInv
  <2> QED BY <2>1, <2>7, <2>8, <2>9
<1> QED BY <1>2, <1>3

LEMMA CallNextModes ==
  ASSUME MInv, IInv', CallNext, UNCHANGED ed
  PROVE  MInv'
BY CallReaderModes, EndsModes DEF CallNext
-------------------------------------------------------------------------------
(* What the port does between the calls.                                         *)

LEMMA StartModes ==
  ASSUME MInv, IInv', Start \/ StartRefused, raw \in BOOLEAN, UNCHANGED ed
  PROVE  MInv'
<1>0. /\ term = NoTerminal /\ call = NoCall /\ batch = <<>> /\ ed = NewEditor /\ kind \in Kinds
      /\ "state" \in DOMAIN port /\ faults \in Nat /\ work \in [Worker -> Record]
  BY DEF Start, StartRefused, MInv, IInv, Called, Record, Ats
<1>1. Kept(NoTerminal, host) /\ \A w \in Worker : work[w].at # "reading"
  BY <1>0, WorkerAssumption DEF MInv, Readers, NoTerminal
<1>2. \A o \in Started : Sets(o, Opened)
  BY <1>0, <1>1, StartedSets
<1>3. Opened.at = "open" /\ Opened.worker = None
  BY DEF Opened, NoTerminal
<1>4. UNCHANGED <<kind, call, batch>>
  BY DEF Start, StartRefused, GiveUpStart, inputVars
<1>5. DOMAIN call = {"op", "at", "left", "events"} /\ call.op = "none" /\ call.at = "none"
  BY <1>0 DEF NoCall
<1>6. Cooked'
  BY <1>0, <1>4 DEF Cooked, NewEditor, None
<1>7. CASE Start
  <2>1. PICK o \in Started :
          /\ host' = o.host /\ faults' = faults + o.cost
          /\ IF o.term.cooked THEN StartReader(o.term) ELSE term' = o.term /\ UNCHANGED work
    BY <1>7 DEF Start, MayCost, Costs
  <2>2. Sets(o, Opened) /\ faults' \in Nat
    BY <1>0, <1>2, <2>1 DEF Sets
  <2>3. port'.state = "started"
    BY <1>0, <1>7 DEF Start
  <2>4. /\ term' \in Terms /\ term'.at = "open" /\ term'.cooked = o.term.cooked
        /\ term'.restored = o.term.restored /\ term'.pty = o.term.pty
        /\ term'.modeKept = o.term.modeKept /\ term'.flagsKept = o.term.flagsKept
        /\ \A w \in Worker : work'[w].at = "reading" => term'.worker = w /\ term'.cooked
    <3>1. CASE o.term.cooked
      <4>1. /\ Fresh \in Worker /\ work' = [work EXCEPT ![Fresh] = Born("reading", None)]
            /\ term' = [o.term EXCEPT !.worker = Fresh]
        BY <2>1, <3>1, FreshIsUnused DEF StartReader
      <4>2. \A w \in Worker : w # Fresh => work'[w] = work[w]
        BY <1>0, <4>1
      <4>3. /\ term' \in Terms /\ term'.at = o.term.at /\ term'.cooked = o.term.cooked
            /\ term'.restored = o.term.restored /\ term'.pty = o.term.pty
            /\ term'.modeKept = o.term.modeKept /\ term'.flagsKept = o.term.flagsKept
            /\ term'.worker = Fresh
        BY <2>2, <4>1 DEF Sets, Terms
      <4> QED BY <1>1, <1>3, <2>2, <3>1, <4>2, <4>3 DEF Sets
    <3>2. CASE ~ o.term.cooked
      BY <1>1, <1>3, <2>1, <2>2, <3>2 DEF Sets
    <3> QED BY <3>1, <3>2
  <2>5. Kept(term, host)'
    BY <1>4, <2>1, <2>2, <2>4 DEF Sets, Kept
  <2>6. Called'
    BY <1>4, <1>5, <2>3, <2>4 DEF Called, EndOps
  <2>7. Readers' /\ Ended'
    BY <2>4 DEF Readers, Ended
  <2> QED BY <1>6, <2>2, <2>4, <2>5, <2>6, <2>7 DEF MInv
<1>8. CASE StartRefused
  <2>1. PICK o : GiveUpStart(o) /\ Sets(o, Opened)
    <3>1. CASE \E o \in MayCost({x \in Started : ~ x.ok}) : GiveUpStart(o)
      BY <1>2, <3>1 DEF MayCost
    <3>2. CASE \E s \in {x \in Started : x.ok /\ x.term.cooked} :
                 \E o \in MayCost(RolledBack(s.term, s.host)) : GiveUpStart(o)
      <4>1. PICK s \in Started : \E o \in RolledBack(s.term, s.host) : GiveUpStart(o)
        BY <3>2 DEF MayCost
      <4>2. PICK o \in RolledBack(s.term, s.host) : GiveUpStart(o)
        BY <4>1
      <4>3. Sets(s, Opened)
        BY <1>2
      <4>4. s.term \in Terms /\ Kept(s.term, s.host)
        BY <4>3 DEF Sets
      <4>5. Sets(o, s.term)
        BY <1>0, <4>4, RolledBackSets
      <4>6. Sets(o, Opened)
        BY <4>3, <4>5 DEF Sets
      <4> QED BY <4>2, <4>6
    <3> QED BY <1>8, <3>1, <3>2 DEF StartRefused
  <2>2. /\ host' = o.host /\ faults' = faults + o.cost /\ term' = [o.term EXCEPT !.at = "garbage"]
        /\ port' = [port EXCEPT !.state = "refused"] /\ work' = work
    BY <2>1 DEF GiveUpStart, Costs
  <2>3. faults' \in Nat /\ port'.state = "refused"
    BY <1>0, <2>1, <2>2 DEF Sets
  <2>4. /\ term' \in Terms /\ term'.at = "garbage"
        /\ term'.restored = o.term.restored /\ term'.pty = o.term.pty
        /\ term'.modeKept = o.term.modeKept /\ term'.flagsKept = o.term.flagsKept
    BY <2>1, <2>2 DEF Sets, Terms
  <2>5. Kept(term, host)'
    BY <1>4, <2>1, <2>2, <2>4 DEF Sets, Kept
  <2>6. Called'
    BY <1>4, <1>5, <2>3, <2>4 DEF Called, EndOps
  <2>7. Readers' /\ Ended'
    BY <2>4 DEF Readers, Ended
  <2> QED BY <1>6, <2>3, <2>4, <2>5, <2>6, <2>7 DEF MInv
<1> QED BY <1>7, <1>8

LEMMA BetweenModes ==
  ASSUME MInv, IInv', Quit \/ Join \/ Abandon \/ ClipboardLate, UNCHANGED ed
  PROVE  MInv'
<1>0. /\ term \in Terms /\ "state" \in DOMAIN port /\ faults' = faults /\ faults \in Nat
      /\ UNCHANGED <<kind, host, call, batch, work>> /\ port.state # "created"
  BY StartedBefore DEF MInv, IInv, Quit, Join, Abandon, ClipboardLate, workerVars
<1>1. CASE Quit \/ ClipboardLate
  <2>1. SameModes(term') /\ term'.worker = term.worker /\ port'.state = port.state
    BY <1>0, <1>1 DEF Quit, ClipboardLate, SameModes, Terms
  <2>2. Called'
    BY <1>0, <2>1, SameCalled DEF SameModes
  <2>3. Cooked'
    BY <1>0, <2>1 DEF MInv, Cooked, SameModes
  <2> QED BY <1>0, <2>1, <2>2, <2>3, StepModes DEF SameModes
<1>2. CASE Join
  <2>1. term' = term /\ Idle /\ port.state = "started" /\ port'.state = "joined"
    BY <1>0, <1>2 DEF Join
  <2>2. Called'
    BY <1>0, <2>1 DEF MInv, Called, Idle, EndOps
  <2>3. Kept(term, host)' /\ Cooked' /\ Readers'
    BY <1>0, <2>1 DEF MInv, Kept, Cooked, Readers
  <2>4. Ended'
    BY <1>0, <2>1 DEF MInv, Ended
  <2> QED BY <1>0, <2>1, <2>2, <2>3, <2>4 DEF MInv
<1>3. CASE Abandon
  <2>1. /\ Idle /\ port'.state = "abandoned" /\ term' = [term EXCEPT !.at = "garbage"]
    BY <1>0, <1>3 DEF Abandon
  <2>2. /\ term' \in Terms /\ term'.at = "garbage" /\ term'.cooked = term.cooked
        /\ term'.restored = term.restored /\ term'.pty = term.pty
        /\ term'.modeKept = term.modeKept /\ term'.flagsKept = term.flagsKept
    BY <1>0, <2>1 DEF Terms
  <2>3. Called'
    BY <1>0, <2>1, <2>2 DEF MInv, Called, Idle, EndOps
  <2>4. Kept(term, host)'
    BY <1>0, <2>2 DEF MInv, Kept
  <2>5. Cooked'
    BY <1>0, <2>2 DEF MInv, Cooked
  <2>6. Readers' /\ Ended'
    BY <2>2 DEF Readers, Ended
  <2> QED BY <1>0, <2>2, <2>3, <2>4, <2>5, <2>6 DEF MInv
<1> QED BY <1>1, <1>2, <1>3

LEMMA PortNextModes ==
  ASSUME MInv, IInv', PortNext, raw \in BOOLEAN, UNCHANGED ed
  PROVE  MInv'
<1>1. CASE Start \/ StartRefused
  BY <1>1, StartModes
<1>2. CASE PollNext
  BY <1>2, PollNextModes
<1>3. CASE CallNext
  BY <1>3, CallNextModes
<1>4. CASE Quit \/ Join \/ Abandon \/ ClipboardLate
  BY <1>4, BetweenModes
<1>5. CASE Cancel \/ Restore \/ Close \/ Collect
  <2>1. port.state # "created"
    BY <1>5, StartedBefore DEF MInv
  <2>2. port'.state = port.state
    BY <1>5 DEF Cancel, Restore, Close, Collect, MInv, IInv
  <2>3. PICK op \in EndOps \cup {"collect"} :
          /\ Begins(op) /\ (op \in EndOps => port.state \in {"started", "joined"})
          /\ (op = "collect" => term.at = "garbage")
    BY <1>5 DEF Cancel, Restore, Close, Collect, EndOps
  <2> QED BY <2>1, <2>2, <2>3, BeginsModes
<1> QED BY <1>1, <1>2, <1>3, <1>4, <1>5 DEF PortNext
-------------------------------------------------------------------------------
(* The editor, the threads and the user.                                         *)

EditorFields == {"waiting", "keys", "replay", "got", "unheld", "ended", "overlap"}

LEMMA EditorModes ==
  ASSUME MInv, IInv', EditorNext, DOMAIN ed = EditorFields
  PROVE  MInv'
<1>0. /\ UNCHANGED <<kind, host, call, faults>> /\ Idle /\ port.state = "started"
      /\ "state" \in DOMAIN port /\ term \in Terms /\ faults \in Nat
  BY DEF EditorNext, EditorUses, EditorWaits, EditorRefused, EditorPastes, EditorCancels,
         EditorHolds, Uses, workerVars, inputVars, MInv, IInv
<1>1. port'.state = port.state
  <2>1. \/ UNCHANGED port
        \/ \E m : port' = [port EXCEPT !.missed = m]
        \/ port' = [port EXCEPT !.closing = TRUE]
    BY DEF EditorNext, EditorUses, EditorWaits, EditorRefused, EditorPastes, EditorCancels,
           EditorHolds, Misses
  <2> QED BY <1>0, <2>1
<1>2. UNCHANGED <<work, term>> \/ (LetGo /\ term' = Detached(term))
  BY DEF EditorNext, EditorUses, EditorWaits, EditorRefused, EditorPastes, EditorCancels,
         EditorHolds, CallsOff, Discards, workerVars
<1>3. SameModes(term')
  BY <1>0, <1>2, DetachedIsTerm DEF SameModes
<1>4. Called'
  BY <1>0, <1>1, <1>3, SameCalled DEF SameModes, Idle
<1>5. CASE ~ term.cooked
  <2>1. Cooked'
    BY <1>3, <1>5, RawIsCooked DEF SameModes
  <2>2. \A w \in Worker : work'[w].at = "reading" => work[w].at = "reading"
    BY <1>2, LetGoReads DEF MInv
  <2> QED BY <1>0, <1>1, <1>3, <1>4, <1>5, <2>1, <2>2, StepModes DEF SameModes
<1>6. CASE term.cooked
  <2>1. /\ batch \in Seq(CookedEvents) /\ ~ Waits /\ ed.waiting = None /\ ed.keys = <<>>
        /\ ed.replay = <<>>
    BY <1>6 DEF MInv, Cooked, Waits
  <2>2. batch # <<>> => Fetched.kind \in {"text", "terminal"}
    <3>1. batch # <<>> => Head(batch) \in CookedEvents
      BY <2>1
    <3> QED BY <2>1, <3>1 DEF Fetched, CookedEvents
  <2>3. EditorUses
    BY <2>1, <2>2 DEF EditorNext, EditorWaits, EditorRefused, EditorPastes, EditorCancels,
                      EditorHolds, Uses
  <2>4. UNCHANGED <<work, term>> /\ batch # <<>> /\ batch' = Tail(batch)
    BY <2>1, <2>3 DEF EditorUses, Uses, workerVars
  <2>5. batch' \in Seq(CookedEvents)
    BY <2>1, <2>4
  <2>6. ed'.waiting = None /\ ed'.keys = <<>> /\ ed'.replay = <<>>
    BY <2>1, <2>3 DEF EditorUses, EditorFields
  <2>7. Cooked'
    BY <2>5, <2>6 DEF Cooked, None
  <2> QED BY <1>0, <1>1, <1>3, <1>4, <2>4, <2>7, StepModes DEF SameModes
<1> QED BY <1>5, <1>6

LEMMA OutsideModes ==
  ASSUME MInv, IInv', Outside, UNCHANGED ed
  PROVE  MInv'
<1>0. /\ UNCHANGED <<kind, host, term, call, port, batch>> /\ term \in Terms /\ faults \in Nat
      /\ work \in [Worker -> Record]
  BY DEF Outside, Type, WorkerNext, ThreadRuns, ReaderTakesLine, WorkerEnds, ReaderFails,
         ClipboardRead, inputVars, MInv, IInv, Record, Ats
<1>1. faults' \in Nat /\ (faults' = 0 => faults = 0)
  <2>1. Fault \/ UNCHANGED faults
    BY DEF Outside, Type, WorkerNext, ThreadRuns, ReaderTakesLine, WorkerEnds, ReaderFails,
           ClipboardRead
  <2> QED BY <1>0, <2>1, FaultCounts
<1>2. \A w \in Worker : work'[w].at = "reading" => work[w].at = "reading"
  <2>1. \A r \in Record : Released([r EXCEPT !.at = "gone"]).at # "reading"
    BY DEF Released, Record, Ats, Unused
  <2>2. CASE Type
    BY <2>2 DEF Type
  <2>3. CASE WorkerNext
    <3>1. PICK x \in Worker :
            ReaderTakesLine(x) \/ WorkerEnds(x) \/ ReaderFails(x) \/ ClipboardRead(x)
      BY <2>3 DEF WorkerNext, ThreadRuns
    <3>2. CASE WorkerEnds(x)
      BY <1>0, <2>1, <3>2 DEF WorkerEnds
    <3>3. CASE ~ WorkerEnds(x)
      BY <1>0, <3>1, <3>3 DEF ReaderTakesLine, ReaderFails, ClipboardRead, Record
    <3> QED BY <3>2, <3>3
  <2> QED BY <2>2, <2>3 DEF Outside
<1>3. Called' /\ Cooked'
  BY <1>0 DEF MInv, Called, Cooked, Attached
<1> QED BY <1>0, <1>1, <1>2, <1>3, StepModes

LEMMA InitModes == Init => MInv /\ raw \in BOOLEAN /\ DOMAIN ed = EditorFields
<1> SUFFICES ASSUME Init PROVE MInv /\ raw \in BOOLEAN /\ DOMAIN ed = EditorFields
  OBVIOUS
<1> USE DEF None
<1>1. NoTerminal \in Terms /\ Kept(NoTerminal, Found)
  BY DEF NoTerminal, Terms, Kept, Found, Hosts
<1>2. Called
  BY DEF Init, Called, NoCall, NoTerminal, NewPort, EndOps
<1>3. Cooked /\ Readers /\ Ended
  BY DEF Init, Cooked, Readers, Ended, NoTerminal, Unused
<1>4. DOMAIN ed = EditorFields
  BY DEF Init, NewEditor, EditorFields
<1> QED BY <1>1, <1>2, <1>3, <1>4, InitHolds DEF Init, MInv

LEMMA NextModes ==
  ASSUME MInv, raw \in BOOLEAN, DOMAIN ed = EditorFields, IInv', [Next]_vars
  PROVE  MInv' /\ raw' \in BOOLEAN /\ DOMAIN ed' = EditorFields
<1>1. DOMAIN ed' = DOMAIN ed
  BY DEF Next, EditorNext, EditorUses, EditorWaits, EditorRefused, EditorPastes, EditorCancels,
         EditorHolds, vars
<1>2. raw' = raw
  <2>1. CASE Outside
    BY <2>1 DEF Outside, Type, WorkerNext, ThreadRuns, ReaderTakesLine, WorkerEnds, ReaderFails,
                ClipboardRead, inputVars
  <2>2. CASE PollNext
    BY <2>2 DEF PollNext, PollTells, PollStartsReader, PollCooked, PollStream, PollConsole,
                PollKey, PollPaste, PollKeyFails, PollConsoleEnds, workerVars, inputVars
  <2>3. CASE PortNext /\ ~ PollNext
    BY <2>3 DEF PortNext, Start, StartRefused, GiveUpStart, CallNext, CallLook, CallEnter,
                CallReaderStays, CancelEnds, RestoreEnds, CloseEnds, CollectEnds, Quit, Cancel,
                Restore, Close, Join, Abandon, Collect, ClipboardLate, Begins, workerVars, inputVars
  <2>4. CASE EditorNext
    BY <2>4 DEF EditorNext, EditorUses, EditorWaits, EditorRefused, EditorPastes, EditorCancels,
                EditorHolds, workerVars, inputVars
  <2>5. CASE UNCHANGED vars
    BY <2>5 DEF vars, portVars, workerVars
  <2> QED BY <2>1, <2>2, <2>3, <2>4, <2>5 DEF Next
<1>3. CASE Outside /\ UNCHANGED ed
  BY <1>1, <1>2, <1>3, OutsideModes
<1>4. CASE PortNext /\ UNCHANGED ed
  BY <1>1, <1>2, <1>4, PortNextModes
<1>5. CASE EditorNext
  BY <1>1, <1>2, <1>5, EditorModes
<1>6. CASE UNCHANGED vars
  <2>1. /\ UNCHANGED <<kind, host, term, call, port, batch, work, faults, ed>>
    BY <1>6 DEF vars, portVars, workerVars
  <2>2. Called' /\ Cooked' /\ Readers' /\ Ended' /\ Kept(term, host)'
    BY <2>1 DEF MInv, Called, Cooked, Readers, Ended, Kept, Attached
  <2> QED BY <1>1, <1>2, <2>1, <2>2 DEF MInv
<1> QED BY <1>3, <1>4, <1>5, <1>6 DEF Next

(* A closed terminal leaves standard input as terminal_start found it and nobody *)
(* who reads the console, whichever calls of the system failed on the way; and so *)
(* does the collection of a terminal that was never closed, when none failed.     *)
THEOREM CloseLeavesNothingHolds == Spec => []CloseLeavesNothing
<1> DEFINE J == MInv /\ raw \in BOOLEAN /\ DOMAIN ed = EditorFields
<1>1. Init => J
  BY InitModes
<1>2. J /\ [Next]_vars => J'
  <2> SUFFICES ASSUME J, [Next]_vars PROVE J'
    OBVIOUS
  <2>1. IInv'
    BY NextKeeps DEF MInv
  <2> QED BY <2>1, NextModes
<1>3. J => CloseLeavesNothing
  BY DEF MInv, Ended, Kept, CloseLeavesNothing
<1> HIDE DEF J
<1> QED BY <1>1, <1>2, <1>3, PTL DEF Spec
-------------------------------------------------------------------------------
(* A third invariant over both: the order of what is typed.  Of each gesture that  *)
(* was taken it says where it is, among those before and behind it: given to the   *)
(* editor, replayed, waited for with the keys held since, in the events of a poll, *)
(* or with the thread that is to deliver it.                                       *)

Strings == {"text", "paste", "escape", "enter", "bad", "end"}
Results == {"paste", "paste-rejected"}
Notices == Results \cup {"paste-start"}
Typing  == {"text", "cancel"}
Events  == [kind : Typing \cup Notices \cup {"terminal"}, id : Nat]
Texts   == [kind : {"text"}, id : Nat \ {None}]

\* The events of a poll, while it runs and when they are handed over.
Stream == IF Polling THEN call.events ELSE batch

\* What the attached thread has for the port.
Held == IF Attached THEN work[term.worker].holds ELSE None

\* Nobody polls any more for what a thread has.
Loose == port.closing /\ ~ Polling

Quiet(s)  == \A i \in 1..Len(s) : s[i].kind \notin Notices
Rising(s) == \A i, j \in 1..Len(s) : i < j => s[i].id < s[j].id
Given(e)  == {e.got[i] : i \in 1..Len(e.got)}
Placed(e) == Given(e) \ e.unheld

\* The events of one poll are in order: what has become of a paste, then the keys,
\* and nothing of another paste after one has been announced.
Polled(s, n) ==
  /\ s \in Seq(Events) /\ Rising(s)
  /\ \A i \in 1..Len(s) :
       /\ s[i].kind = "terminal" => Len(s) = 1 /\ s[i].id = None
       /\ s[i].kind # "terminal" => s[i].id \in 1..n
       /\ s[i].kind = "paste" => i = 1
       /\ s[i].kind = "paste-start" => \A j \in 1..Len(s) : i < j => s[j].kind \in Typing

\* x comes after all the editor was given and keeps aside.
Later(x, e) ==
  /\ x \notin e.unheld
  /\ \A y \in Placed(e) \cup Ids(e.keys) \cup Ids(e.replay) \cup {e.waiting} : y < x

\* The paste the editor waits for, or whose start it has thrown away.
Awaited(x, e) == IF e.waiting = None THEN x \in e.unheld \ Given(e) ELSE x = e.waiting

Editor(e, m, n) ==
  /\ DOMAIN e = EditorFields
  /\ e.waiting \in 0..n /\ e.got \in Seq(1..n) /\ e.unheld \subseteq 1..n /\ ~ e.overlap
  /\ e.keys \in Seq(Texts) /\ Rising(e.keys) /\ e.replay \in Seq(Texts) /\ Rising(e.replay)
  /\ e.waiting = None => e.keys = <<>>
  /\ e.waiting # None => e.replay = <<>>
  /\ \A i, j \in 1..Len(e.got) :
       i < j /\ e.got[i] \notin e.unheld /\ e.got[j] \notin e.unheld => e.got[i] < e.got[j]
  /\ Given(e) \cap m = {} /\ m \subseteq 1..n
  /\ \A k \in Ids(e.keys) \cup Ids(e.replay) :
       k <= n /\ k \notin e.unheld \cup m /\ \A g \in Placed(e) : g < k
  /\ e.waiting # None =>
       /\ e.waiting \notin e.unheld /\ \A g \in Placed(e) : g < e.waiting
       /\ \A k \in Ids(e.keys) : e.waiting < k

Order(s, e, m) ==
  /\ \A i \in 1..Len(s) :
       /\ s[i].kind \in Typing \cup {"paste-start"} => Later(s[i].id, e) /\ s[i].id \notin m
       /\ s[i].kind = "paste" => Awaited(s[i].id, e) /\ s[i].id \notin m
       /\ s[i].kind = "paste-rejected" => Later(s[i].id, e) \/ (i = 1 /\ Awaited(s[i].id, e))
  /\ e.ended => s = <<>> /\ e.replay = <<>> /\ e.keys = <<>>

\* Where the paste is that the editor waits for, and which one the thread works at.
Pastes(s, e, m, h, loose) ==
  /\ e.waiting # None => \/ s # <<>> /\ s[1].kind \in Results /\ s[1].id = e.waiting
                         \/ Quiet(s) /\ (h = e.waiting \/ loose)
  /\ \A i \in 1..Len(s) : s[i].kind = "paste-start" => h = s[i].id \/ loose
  /\ h # None /\ ~ loose => \/ \E i \in 1..Len(s) : s[i].kind = "paste-start" /\ s[i].id = h
                            \/ Quiet(s) /\ h \notin m /\ Awaited(h, e)

\* A line that was read is behind everything.
Line(s, e, m, h) ==
  h # None => h \notin m /\ Later(h, e) /\ \A i \in 1..Len(s) : s[i].id < h

Flow(t, n, s, e, m, h, loose, cooked) ==
  /\ t \in Seq(Strings) /\ n \in Nat /\ n <= Len(t) /\ h \in 0..n
  /\ Polled(s, n) /\ Editor(e, m, n) /\ Order(s, e, m)
  /\ ~ cooked => Pastes(s, e, m, h, loose)
  /\ cooked => Line(s, e, m, h)

\* Nothing is lost but what the user is told of.
Told(t, n, s, e, m, h) ==
  \A i \in 1..n : t[i] = "end" \/ i \in Given(e) \cup m \cup Ids(s) \cup Ids(e.keys) \cup Ids(e.replay)
                                         \cup {e.waiting, h}

\* Which polls there can be.
Polls ==
  /\ Polling => /\ batch = <<>> /\ ~ term.emitted /\ port.state = "started"
                /\ call.left \in Nat /\ call.left <= Waiting
  /\ ~ Polling => call.events = <<>>
  /\ \A i \in 1..Len(batch) : batch[i].kind = "paste-rejected" => batch[i].id \in port.missed
  /\ \A i \in 1..Len(Stream) : Stream[i].kind = "terminal" => term.emitted
  /\ ed.ended => term.emitted

\* Which ends, and which threads.
Ends ==
  /\ DOMAIN port = DOMAIN NewPort /\ port.closing \in BOOLEAN
  /\ port.asked => port.closing /\ (term.cooked \/ term.cancelled \/ (call.op = "cancel" /\ call.at = "last"))
  /\ call.op \in EndOps \/ port.state = "abandoned" => port.closing
  /\ port.state = "refused" => ~ Attached
  /\ term.cooked /\ port.state # "refused" => kind = "console"
  /\ Attached /\ ~ term.cooked => term.announced /\ Held # None
  /\ \A w \in Worker :
       /\ work[w].at = "reading" => work[w].holds = None /\ term.cooked /\ (term.worker = w \/ port.closing)
       /\ work[w].at = "rendering" \/ work[w].good => work[w].holds # None

OInv ==
  /\ Flow(typed, taken, Stream, ed, port.missed, Held, Loose, term.cooked)
  /\ ~ port.closing => Told(typed, taken, Stream, ed, port.missed, Held)
  /\ Polls /\ Ends
-------------------------------------------------------------------------------
(* What the steps have in common.                                                *)

\* The first of the events is used, or one more is there.
Drops(z, s) ==
  /\ z \in Seq(Events) /\ Len(s) = Len(z) + 1
  /\ \A i \in 1..Len(z) : z[i] = s[i + 1]

Adds(z, s, x) ==
  /\ z \in Seq(Events) /\ Len(z) = Len(s) + 1 /\ z[Len(z)] = x
  /\ \A i \in 1..Len(s) : z[i] = s[i]

\* The set a has x beside what is in b.
OneMore(a, b, x) == a = b \cup {x}

\* Every field but those of what is kept aside and given.
Editors(f, waiting, keys, replay, got, unheld, ended) ==
  /\ DOMAIN f = EditorFields /\ ~ f.overlap
  /\ f.waiting = waiting /\ f.keys = keys /\ f.replay = replay /\ f.got = got
  /\ f.unheld = unheld /\ f.ended = ended

LEMMA TailDrops ==
  ASSUME NEW s \in Seq(Events), s # <<>>
  PROVE  Drops(Tail(s), s) /\ Head(s) = s[1] /\ s[1] \in Events /\ Len(s) >= 1
BY DEF Drops

LEMMA AppendAdds ==
  ASSUME NEW s \in Seq(Events), NEW x \in Events
  PROVE  Adds(Append(s, x), s, x) /\ Adds(s \o <<x>>, s, x) /\ Adds(<<x>>, <<>>, x)
<1>1. Adds(Append(s, x), s, x)
  BY DEF Adds
<1>2. Adds(s \o <<x>>, s, x)
  BY DEF Adds
<1>3. Adds(<<x>>, <<>>, x)
  BY DEF Adds
<1> QED BY <1>1, <1>2, <1>3

LEMMA EventIsEvent ==
  ASSUME NEW k \in Typing \cup Notices \cup {"terminal"}, NEW id \in Nat
  PROVE  Event(k, id) \in Events /\ Event(k, id).kind = k /\ Event(k, id).id = id
BY DEF Event, Events

LEMMA DroppedIds ==
  ASSUME NEW s \in Seq(Events), NEW z, Drops(z, s)
  PROVE  Ids(s) = Ids(z) \cup ({s[1].id} \ {None})
<1>0. Len(z) \in Nat /\ Len(s) = Len(z) + 1 /\ \A i \in 1..Len(z) : z[i] = s[i + 1]
  BY DEF Drops
<1>1. ASSUME NEW y \in Ids(s) PROVE y \in Ids(z) \cup ({s[1].id} \ {None})
  <2>1. PICK i \in 1..Len(s) : y = s[i].id /\ y # None
    BY <1>1 DEF Ids
  <2>2. CASE i = 1
    BY <2>1, <2>2
  <2>3. CASE i # 1
    <3>1. i - 1 \in 1..Len(z) /\ z[i - 1] = s[i]
      BY <1>0, <2>1, <2>3
    <3> QED BY <2>1, <3>1 DEF Ids
  <2> QED BY <2>2, <2>3
<1>2. ASSUME NEW y \in Ids(z) PROVE y \in Ids(s)
  <2>1. PICK i \in 1..Len(z) : y = z[i].id /\ y # None
    BY <1>2 DEF Ids
  <2>2. i + 1 \in 1..Len(s) /\ z[i] = s[i + 1]
    BY <1>0, <2>1
  <2> QED BY <2>1, <2>2 DEF Ids
<1>3. 1 \in 1..Len(s)
  BY <1>0
<1> QED BY <1>1, <1>2, <1>3 DEF Ids

LEMMA AddedIds ==
  ASSUME NEW s, Len(s) \in Nat, NEW x, NEW z, Len(z) = Len(s) + 1, z[Len(z)] = x,
         \A i \in 1..Len(s) : z[i] = s[i]
  PROVE  Ids(z) = Ids(s) \cup ({x.id} \ {None})
<1>1. 1..Len(z) = 1..Len(s) \cup {Len(z)}
  OBVIOUS
<1> QED BY <1>1 DEF Ids

LEMMA AppendedIds ==
  ASSUME NEW S, NEW s \in Seq(S), NEW x \in S
  PROVE  Ids(Append(s, x)) = Ids(s) \cup ({x.id} \ {None})
<1> DEFINE z == Append(s, x)
<1>1. /\ Len(s) \in Nat /\ Len(z) = Len(s) + 1 /\ z[Len(z)] = x
      /\ \A i \in 1..Len(s) : z[i] = s[i]
  OBVIOUS
<1> HIDE DEF z
<1>2. Ids(z) = Ids(s) \cup ({x.id} \ {None})
  BY <1>1, AddedIds
<1> QED BY <1>2 DEF z

LEMMA NoIds == Ids(<<>>) = {}
BY DEF Ids

(* What comes after the editor's was neither given nor kept aside nor called off.  *)
LEMMA LaterIsNew ==
  ASSUME NEW e, NEW x, Later(x, e), x \in Nat
  PROVE  x \notin Given(e) /\ x \notin Ids(e.keys) /\ x \notin Ids(e.replay) /\ x # e.waiting
<1>1. ~ (x < x)
  OBVIOUS
<1> QED BY <1>1 DEF Later, Placed

(* Events in order stay in order without the first of them.                      *)
LEMMA DropsPolled ==
  ASSUME NEW n \in Nat, NEW s, Polled(s, n), NEW z, Drops(z, s)
  PROVE  Polled(z, n)
<1>0. /\ s \in Seq(Events) /\ z \in Seq(Events) /\ Len(s) \in Nat /\ Len(z) \in Nat
      /\ Len(s) = Len(z) + 1 /\ \A i \in 1..Len(z) : i + 1 \in 1..Len(s) /\ z[i] = s[i + 1]
  BY DEF Polled, Drops
<1>1. Rising(z)
  BY <1>0 DEF Polled, Rising
<1>2. ASSUME NEW i \in 1..Len(z)
      PROVE  /\ z[i].kind # "terminal" /\ z[i].kind # "paste" /\ z[i].id \in 1..n
             /\ z[i].kind = "paste-start" => \A j \in 1..Len(z) : i < j => z[j].kind \in Typing
  <2>1. i + 1 \in 1..Len(s) /\ z[i] = s[i + 1] /\ i + 1 # 1 /\ Len(s) # 1
    BY <1>0
  <2>2. ASSUME z[i].kind = "paste-start", NEW j \in 1..Len(z), i < j PROVE z[j].kind \in Typing
    <3>1. j + 1 \in 1..Len(s) /\ i + 1 < j + 1 /\ z[j] = s[j + 1]
      BY <1>0, <2>2
    <3> QED BY <2>1, <2>2, <3>1 DEF Polled
  <2> QED BY <2>1, <2>2 DEF Polled
<1> QED BY <1>0, <1>1, <1>2 DEF Polled

LEMMA DropsOrder ==
  ASSUME NEW n \in Nat, NEW s, Polled(s, n), NEW z, Drops(z, s), NEW e, NEW m, Order(s, e, m),
         NEW f, NEW q, f.ended => z = <<>> /\ f.replay = <<>> /\ f.keys = <<>>,
         \A x \in 1..n : Later(x, e) /\ s[1].id < x => Later(x, f) /\ (x \in q => x \in m)
  PROVE  Order(z, f, q)
<1>0. /\ s \in Seq(Events) /\ z \in Seq(Events) /\ Len(s) \in Nat /\ Len(z) \in Nat
      /\ Len(s) = Len(z) + 1 /\ \A i \in 1..Len(z) : i + 1 \in 1..Len(s) /\ z[i] = s[i + 1]
  BY DEF Polled, Drops
<1>1. ASSUME NEW i \in 1..Len(z)
      PROVE  /\ z[i].kind \in Typing \cup {"paste-start"} => Later(z[i].id, f) /\ z[i].id \notin q
             /\ z[i].kind # "paste"
             /\ z[i].kind = "paste-rejected" => Later(z[i].id, f)
  <2>1. i + 1 \in 1..Len(s) /\ z[i] = s[i + 1] /\ i + 1 # 1 /\ Len(s) # 1 /\ 1 \in 1..Len(s) /\ 1 < i + 1
    BY <1>0
  <2>2. s[1].id < z[i].id /\ z[i].id \in 1..n /\ z[i].kind # "paste"
    BY <2>1 DEF Polled, Rising
  <2>3. z[i].kind \in Typing \cup {"paste-start"} => Later(z[i].id, e) /\ z[i].id \notin m
    BY <2>1 DEF Order
  <2>4. z[i].kind = "paste-rejected" => Later(z[i].id, e)
    BY <2>1 DEF Order
  <2> QED BY <2>2, <2>3, <2>4
<1> QED BY <1>1 DEF Order
-------------------------------------------------------------------------------
(* What the user, the threads and the port do to the order.                      *)

Rejected(s) == {i \in Ids(s) : \E j \in 1..Len(s) : s[j].id = i /\ s[j].kind = "paste-rejected"}

LEMMA TypedFlow ==
  ASSUME NEW t, NEW n, NEW s, NEW e, NEW m, NEW h, NEW loose, NEW cooked, NEW g \in Strings,
         Flow(t, n, s, e, m, h, loose, cooked)
  PROVE  /\ Flow(Append(t, g), n, s, e, m, h, loose, cooked)
         /\ Told(t, n, s, e, m, h) => Told(Append(t, g), n, s, e, m, h)
<1>1. /\ Append(t, g) \in Seq(Strings) /\ n <= Len(Append(t, g))
      /\ \A i \in 1..n : Append(t, g)[i] = t[i]
  BY DEF Flow
<1>2. Flow(Append(t, g), n, s, e, m, h, loose, cooked)
  BY <1>1 DEF Flow
<1>3. Told(t, n, s, e, m, h) => Told(Append(t, g), n, s, e, m, h)
  BY <1>1 DEF Told
<1> QED BY <1>2, <1>3

LEMMA LooserFlow ==
  ASSUME NEW t, NEW n, NEW s, NEW e, NEW m, NEW h, NEW loose, NEW cooked,
         Flow(t, n, s, e, m, h, loose, cooked),
         NEW p \in {h, None}, NEW looser, loose => looser, p = h \/ looser \/ cooked
  PROVE  Flow(t, n, s, e, m, p, looser, cooked)
<1>1. p \in 0..n
  BY DEF Flow, None
<1>2. ~ cooked => Pastes(s, e, m, p, looser)
  BY DEF Flow, Pastes
<1>3. cooked => Line(s, e, m, p)
  BY DEF Flow, Line
<1> QED BY <1>1, <1>2, <1>3 DEF Flow

LEMMA TextIds ==
  ASSUME NEW q \in Seq(Texts)
  PROVE  \A k \in Ids(q) : k \in Nat \ {0}
<1> SUFFICES ASSUME NEW i \in 1..Len(q) PROVE q[i].id \in Nat \ {0}
  BY DEF Ids
<1>1. q[i] \in Texts
  OBVIOUS
<1> QED BY <1>1 DEF Texts, None

LEMMA NewIsLater ==
  ASSUME NEW n \in Nat, NEW e, NEW m, Editor(e, m, n)
  PROVE  Later(n + 1, e) /\ n + 1 \notin m /\ n + 1 \notin Given(e)
<1>1. Given(e) \subseteq 1..n /\ m \subseteq 1..n /\ e.unheld \subseteq 1..n /\ e.waiting \in 0..n
  BY DEF Editor, Given
<1>2. Ids(e.keys) \subseteq 1..n /\ Ids(e.replay) \subseteq 1..n
  <2>1. ASSUME NEW q \in Seq(Texts) PROVE \A k \in Ids(q) : k \in Nat \ {0}
    BY TextIds
  <2>2. \A k \in Ids(e.keys) \cup Ids(e.replay) : k <= n /\ k \in Nat \ {0}
    BY <2>1 DEF Editor
  <2> QED BY <2>2
<1>3. \A y \in Placed(e) \cup Ids(e.keys) \cup Ids(e.replay) \cup {e.waiting} : y < n + 1
  BY <1>1, <1>2 DEF Placed
<1> QED BY <1>1, <1>3 DEF Later

LEMMA TakenFlow ==
  ASSUME NEW t, NEW n, NEW s, NEW e, NEW m, NEW h, NEW loose, NEW cooked,
         Flow(t, n, s, e, m, h, loose, cooked), n + 1 <= Len(t), NEW q \in {m, m \cup {n + 1}}
  PROVE  Flow(t, n + 1, s, e, q, h, loose, cooked)
<1>0. n \in Nat /\ n + 1 \in Nat /\ h \in 0..n /\ 1..n \subseteq 1..(n + 1) /\ 0..n \subseteq 0..(n + 1)
      /\ n + 1 \in 1..(n + 1)
  BY DEF Flow
<1>1. Later(n + 1, e) /\ n + 1 \notin m /\ n + 1 \notin Given(e)
  BY <1>0, NewIsLater DEF Flow
<1>2. Polled(s, n + 1)
  BY <1>0 DEF Flow, Polled
<1>3. Editor(e, q, n + 1)
  <2>1. n + 1 \notin Ids(e.keys) \cup Ids(e.replay)
    BY <1>0, <1>1, LaterIsNew
  <2>2. e.got \in Seq(1..(n + 1))
    BY <1>0 DEF Flow, Editor
  <2>3. \A k \in Ids(e.keys) \cup Ids(e.replay) : k <= n => k <= n + 1
    <3>1. ASSUME NEW r \in Seq(Texts) PROVE \A k \in Ids(r) : k \in Nat
      BY TextIds
    <3>2. \A k \in Ids(e.keys) \cup Ids(e.replay) : k \in Nat
      BY <3>1 DEF Flow, Editor
    <3> QED BY <1>0, <3>2
  <2>4. e.waiting \in 0..(n + 1) /\ e.unheld \subseteq 1..(n + 1) /\ q \subseteq 1..(n + 1)
        /\ Given(e) \cap q = {}
    BY <1>0, <1>1 DEF Flow, Editor
  <2> QED BY <2>1, <2>2, <2>3, <2>4 DEF Flow, Editor
<1>4. \A i \in 1..Len(s) : s[i].id # n + 1
  BY <1>0 DEF Flow, Polled, None
<1>5. Order(s, e, q)
  BY <1>4 DEF Flow, Order
<1>6. h # n + 1
  BY <1>0
<1>7. ~ cooked => Pastes(s, e, q, h, loose)
  BY <1>6 DEF Flow, Pastes
<1>8. cooked => Line(s, e, q, h)
  BY <1>6 DEF Flow, Line
<1>9. t \in Seq(Strings) /\ h \in 0..(n + 1)
  BY <1>0 DEF Flow
<1> QED BY <1>0, <1>2, <1>3, <1>5, <1>7, <1>8, <1>9 DEF Flow

(* A key, a refused paste or the start of one comes to the events of a poll.      *)
LEMMA AddedFlow ==
  ASSUME NEW t, NEW n, NEW s, NEW e, NEW m, NEW h,
         Flow(t, n, s, e, m, h, FALSE, FALSE), n + 1 <= Len(t), ~ e.ended,
         \A i \in 1..Len(s) : s[i].kind # "terminal",
         NEW k \in Typing \cup {"paste-rejected", "paste-start"}, k \in Typing \/ h = None,
         NEW z, Adds(z, s, Event(k, n + 1))
  PROVE  Flow(t, n + 1, z, e, m, IF k = "paste-start" THEN n + 1 ELSE h, FALSE, FALSE)
<1> DEFINE p == IF k = "paste-start" THEN n + 1 ELSE h
<1>0. /\ n \in Nat /\ n + 1 \in Nat /\ h \in 0..n /\ p \in 0..(n + 1) /\ n + 1 \in 1..(n + 1)
      /\ t \in Seq(Strings) /\ n + 1 # None
  BY DEF Flow, None
<1>1. Later(n + 1, e) /\ n + 1 \notin m
  BY <1>0, NewIsLater DEF Flow
<1>2. /\ z \in Seq(Events) /\ Len(s) \in Nat /\ Len(z) = Len(s) + 1 /\ z[Len(z)].kind = k
      /\ z[Len(z)].id = n + 1 /\ \A i \in 1..Len(s) : z[i] = s[i] /\ i # Len(z)
      /\ \A i \in 1..Len(z) : i = Len(z) \/ i \in 1..Len(s)
      /\ Len(z) \in 1..Len(z) /\ \A i \in 1..Len(s) : i \in 1..Len(z)
  <2>1. Event(k, n + 1).kind = k /\ Event(k, n + 1).id = n + 1
    BY DEF Event
  <2> QED BY <2>1 DEF Adds, Flow, Polled
<1>3. Flow(t, n + 1, s, e, m, h, FALSE, FALSE)
  BY TakenFlow
<1>4. h = None => \A i \in 1..Len(s) : s[i].kind # "paste-start"
  BY DEF Flow, Pastes, Polled, None
<1>5. Polled(z, n + 1)
  <2>1. \A i \in 1..Len(s) : s[i].id < n + 1
    BY <1>0 DEF Flow, Polled
  <2>2. Rising(z)
    <3> SUFFICES ASSUME NEW i \in 1..Len(z), NEW j \in 1..Len(z), i < j PROVE z[i].id < z[j].id
      BY DEF Rising
    <3>1. i \in 1..Len(s)
      BY <1>2
    <3>2. CASE j = Len(z)
      BY <1>2, <2>1, <3>1, <3>2
    <3>3. CASE j \in 1..Len(s)
      BY <1>2, <3>1, <3>3 DEF Flow, Polled, Rising
    <3> QED BY <1>2, <3>2, <3>3
  <2>3. ASSUME NEW i \in 1..Len(z)
        PROVE  /\ z[i].kind # "terminal" /\ z[i].id \in 1..(n + 1)
               /\ z[i].kind = "paste" => i = 1
               /\ z[i].kind = "paste-start" => \A j \in 1..Len(z) : i < j => z[j].kind \in Typing
    <3>1. CASE i = Len(z)
      BY <1>0, <1>2, <3>1 DEF Typing
    <3>2. CASE i \in 1..Len(s)
      <4>1. /\ z[i].kind # "terminal" /\ z[i].id \in 1..(n + 1)
            /\ z[i].kind = "paste" => i = 1
        BY <1>2, <1>3, <3>2 DEF Flow, Polled
      <4>2. ASSUME z[i].kind = "paste-start", NEW j \in 1..Len(z), i < j PROVE z[j].kind \in Typing
        <5>1. k \in Typing
          BY <1>2, <1>4, <3>2, <4>2
        <5>2. CASE j = Len(z)
          BY <1>2, <5>1, <5>2
        <5>3. CASE j \in 1..Len(s)
          BY <1>2, <3>2, <4>2, <5>3 DEF Flow, Polled
        <5> QED BY <1>2, <5>2, <5>3
      <4> QED BY <4>1, <4>2
    <3> QED BY <1>2, <3>1, <3>2
  <2> QED BY <1>2, <2>2, <2>3 DEF Polled
<1>6. Order(z, e, m)
  <2> SUFFICES ASSUME NEW i \in 1..Len(z)
               PROVE  /\ z[i].kind \in Typing \cup {"paste-start"} => Later(z[i].id, e) /\ z[i].id \notin m
                      /\ z[i].kind = "paste" => Awaited(z[i].id, e) /\ z[i].id \notin m
                      /\ z[i].kind = "paste-rejected" => Later(z[i].id, e) \/ (i = 1 /\ Awaited(z[i].id, e))
    BY DEF Order
  <2>1. CASE i = Len(z)
    BY <1>1, <1>2, <2>1 DEF Typing
  <2>2. CASE i \in 1..Len(s)
    BY <1>2, <2>2 DEF Flow, Order
  <2> QED BY <1>2, <2>1, <2>2
<1>7. Pastes(z, e, m, p, FALSE)
  <2>1. ASSUME e.waiting # None
        PROVE  \/ z # <<>> /\ z[1].kind \in Results /\ z[1].id = e.waiting
               \/ Quiet(z) /\ p = e.waiting
    <3>1. CASE s # <<>> /\ s[1].kind \in Results /\ s[1].id = e.waiting
      <4>1. 1 \in 1..Len(s) /\ z[1] = s[1] /\ z # <<>>
        BY <1>2, <3>1 DEF Flow, Polled
      <4> QED BY <3>1, <4>1
    <3>2. CASE Quiet(s) /\ h = e.waiting
      <4>1. k \in Typing
        BY <2>1, <3>2
      <4>2. Quiet(z)
        <5> SUFFICES ASSUME NEW i \in 1..Len(z) PROVE z[i].kind \notin Notices
          BY DEF Quiet
        <5>1. CASE i = Len(z)
          BY <1>2, <4>1, <5>1 DEF Typing, Notices, Results
        <5>2. CASE i \in 1..Len(s)
          BY <1>2, <3>2, <5>2 DEF Quiet
        <5> QED BY <1>2, <5>1, <5>2
      <4> QED BY <3>2, <4>1, <4>2 DEF Typing
    <3> QED BY <2>1, <3>1, <3>2 DEF Flow, Pastes
  <2>2. ASSUME NEW i \in 1..Len(z), z[i].kind = "paste-start" PROVE p = z[i].id
    <3>1. CASE i = Len(z)
      BY <1>2, <2>2, <3>1
    <3>2. CASE i \in 1..Len(s)
      <4>1. s[i].kind = "paste-start" /\ s[i].id = h /\ z[i] = s[i]
        BY <1>2, <2>2, <3>2 DEF Flow, Pastes
      <4>2. k # "paste-start"
        BY <1>4, <3>2, <4>1 DEF Typing
      <4> QED BY <4>1, <4>2
    <3> QED BY <1>2, <3>1, <3>2
  <2>3. ASSUME p # None
        PROVE  \/ \E i \in 1..Len(z) : z[i].kind = "paste-start" /\ z[i].id = p
               \/ Quiet(z) /\ p \notin m /\ Awaited(p, e)
    <3>1. CASE k = "paste-start"
      BY <1>2, <3>1
    <3>2. CASE k # "paste-start"
      <4>1. h # None /\ p = h /\ k \in Typing
        BY <2>3, <3>2
      <4>2. CASE \E i \in 1..Len(s) : s[i].kind = "paste-start" /\ s[i].id = h
        BY <1>2, <4>1, <4>2
      <4>3. CASE Quiet(s) /\ h \notin m /\ Awaited(h, e)
        <5>1. Quiet(z)
          <6> SUFFICES ASSUME NEW i \in 1..Len(z) PROVE z[i].kind \notin Notices
            BY DEF Quiet
          <6>1. CASE i = Len(z)
            BY <1>2, <4>1, <6>1 DEF Typing, Notices, Results
          <6>2. CASE i \in 1..Len(s)
            BY <1>2, <4>3, <6>2 DEF Quiet
          <6> QED BY <1>2, <6>1, <6>2
        <5> QED BY <4>1, <4>3, <5>1
      <4> QED BY <4>1, <4>2, <4>3 DEF Flow, Pastes
    <3> QED BY <3>1, <3>2
  <2> HIDE DEF p
  <2> QED BY <2>1, <2>2, <2>3 DEF Pastes
<1> HIDE DEF p
<1>8. Editor(e, m, n + 1)
  BY <1>3 DEF Flow
<1>9. Flow(t, n + 1, z, e, m, p, FALSE, FALSE)
  BY <1>0, <1>5, <1>6, <1>7, <1>8 DEF Flow
<1> QED BY <1>9 DEF p
(* A poll that finds nothing, or whose events are gone with it.                   *)
LEMMA LostFlow ==
  ASSUME NEW t, NEW n, NEW s, NEW e, NEW m, NEW h, NEW loose, NEW cooked,
         Flow(t, n, s, e, m, h, loose, cooked)
  PROVE  Flow(t, n, <<>>, e, m, h, TRUE, cooked)
<1>1. Polled(<<>>, n) /\ Order(<<>>, e, m)
  BY DEF Flow, Polled, Rising, Order
<1>2. Pastes(<<>>, e, m, h, TRUE)
  BY DEF Pastes, Quiet
<1>3. cooked => Line(<<>>, e, m, h)
  BY DEF Flow, Line
<1> QED BY <1>1, <1>2, <1>3 DEF Flow

(* The end of the input, alone in its poll.                                       *)
LEMMA EndFlow ==
  ASSUME NEW t, NEW n, NEW e, NEW m, NEW h, NEW loose, NEW cooked,
         Flow(t, n, <<>>, e, m, h, loose, cooked), ~ e.ended,
         NEW p \in {h, None}, p = h \/ cooked
  PROVE  Flow(t, n, <<Event("terminal", None)>>, e, m, p, loose, cooked)
<1> DEFINE z == <<Event("terminal", None)>>
<1>1. z \in Seq(Events) /\ Len(z) = 1 /\ z[1].kind = "terminal" /\ z[1].id = None
  BY EventIsEvent DEF None, Event
<1> HIDE DEF z
<1>2. Polled(z, n)
  BY <1>1 DEF Polled, Rising
<1>3. Order(z, e, m)
  BY <1>1 DEF Order, Typing
<1>4. ~ cooked => Pastes(z, e, m, p, loose)
  BY <1>1 DEF Flow, Pastes, Quiet, Notices, Results
<1>5. cooked => Line(z, e, m, p)
  BY <1>1 DEF Flow, Line, None
<1>6. p \in 0..n
  BY DEF Flow, None
<1>7. Flow(t, n, z, e, m, p, loose, cooked)
  BY <1>2, <1>3, <1>4, <1>5, <1>6 DEF Flow
<1> QED BY <1>7 DEF z

(* The line of a reader that has ended.                                           *)
LEMMA LineFlow ==
  ASSUME NEW t, NEW n, NEW e, NEW m, NEW h, NEW loose,
         Flow(t, n, <<>>, e, m, h, loose, TRUE), ~ e.ended, h # None
  PROVE  Flow(t, n, <<Event("text", h)>>, e, m, None, loose, TRUE)
<1> DEFINE z == <<Event("text", h)>>
<1>0. h \in 1..n /\ h \in Nat /\ n \in Nat
  BY DEF Flow, None
<1>1. z \in Seq(Events) /\ Len(z) = 1 /\ z[1].kind = "text" /\ z[1].id = h
  BY <1>0, EventIsEvent DEF Typing, Event
<1> HIDE DEF z
<1>2. Polled(z, n)
  BY <1>0, <1>1 DEF Polled, Rising
<1>3. Order(z, e, m)
  BY <1>1 DEF Order, Typing, Flow, Line
<1>4. Line(z, e, m, None) /\ None \in 0..n
  BY <1>0 DEF Line, None
<1>5. Flow(t, n, z, e, m, None, loose, TRUE)
  BY <1>2, <1>3, <1>4 DEF Flow
<1> QED BY <1>5 DEF z

(* What has become of the paste that the clipboard was asked for.                 *)
LEMMA ResultFlow ==
  ASSUME NEW t, NEW n, NEW e, NEW m, NEW h, NEW k \in Results,
         Flow(t, n, <<>>, e, m, h, FALSE, FALSE), ~ e.ended, h # None
  PROVE  Flow(t, n, <<Event(k, h)>>, e, m, None, FALSE, FALSE)
<1> DEFINE z == <<Event(k, h)>>
<1>0. h \in 1..n /\ h \in Nat /\ n \in Nat
  BY DEF Flow, None
<1>1. z \in Seq(Events) /\ Len(z) = 1 /\ z[1].kind = k /\ z[1].id = h /\ 1 \in 1..1
  BY <1>0, EventIsEvent DEF Notices, Event
<1> HIDE DEF z
<1>2. h \notin m /\ Awaited(h, e)
  BY DEF Flow, Pastes
<1>3. Polled(z, n)
  BY <1>0, <1>1 DEF Polled, Rising, Results
<1>4. Order(z, e, m)
  BY <1>1, <1>2 DEF Order, Typing, Results
<1>5. Pastes(z, e, m, None, FALSE)
  BY <1>1, <1>2 DEF Pastes, Awaited, Results
<1>6. /\ None \in 0..n /\ t \in Seq(Strings) /\ n <= Len(t) /\ Editor(e, m, n)
  BY <1>0 DEF Flow, None
<1>7. Flow(t, n, z, e, m, None, FALSE, FALSE)
  BY <1>0, <1>3, <1>4, <1>5, <1>6 DEF Flow
<1> QED BY <1>7 DEF z

(* The port notes which pastes were refused when it hands the events over.        *)
LEMMA HandedFlow ==
  ASSUME NEW t, NEW n, NEW s, NEW e, NEW m, NEW h, NEW loose, NEW cooked,
         Flow(t, n, s, e, m, h, loose, cooked)
  PROVE  Flow(t, n, s, e, m \cup Rejected(s), h, loose, cooked)
<1> DEFINE q == m \cup Rejected(s)
<1>0. n \in Nat /\ Len(s) \in Nat
  BY DEF Flow, Polled
<1>1. ASSUME NEW x \in Rejected(s)
      PROVE  /\ x \in 1..n /\ x \notin Given(e) /\ x \notin Ids(e.keys) /\ x \notin Ids(e.replay)
             /\ ~ Quiet(s)
             /\ \A i \in 1..Len(s) : s[i].kind # "paste-rejected" => s[i].id # x
             /\ cooked => h # x
  <2>1. PICK j \in 1..Len(s) : s[j].id = x /\ s[j].kind = "paste-rejected" /\ x # None
    BY <1>1 DEF Rejected, Ids
  <2>2. x \in 1..n
    BY <2>1 DEF Flow, Polled
  <2>3. ~ Quiet(s)
    BY <2>1 DEF Quiet, Notices, Results
  <2>4. \A i \in 1..Len(s) : s[i].kind # "paste-rejected" => s[i].id # x
    <3> SUFFICES ASSUME NEW i \in 1..Len(s), s[i].kind # "paste-rejected", s[i].id = x PROVE FALSE
      OBVIOUS
    <3>1. i < j \/ j < i
      BY <1>0, <2>1
    <3>2. s[i].id < s[j].id \/ s[j].id < s[i].id
      BY <3>1 DEF Flow, Polled, Rising
    <3> QED BY <2>1, <2>2, <3>2
  <2>5. cooked /\ h # None => x < h
    BY <2>1 DEF Flow, Line
  <2>6. cooked => h # x
    BY <1>0, <2>1, <2>2, <2>5
  <2>7. Later(x, e) \/ Awaited(x, e)
    BY <2>1 DEF Flow, Order
  <2>8. x \notin Given(e) /\ x \notin Ids(e.keys) /\ x \notin Ids(e.replay)
    <3>1. CASE Later(x, e)
      BY <2>2, <3>1, LaterIsNew
    <3>2. CASE Awaited(x, e) /\ e.waiting = None
      BY <3>2 DEF Awaited, Flow, Editor
    <3>3. CASE Awaited(x, e) /\ e.waiting # None
      <4>1. /\ x = e.waiting /\ x \notin e.unheld /\ \A g \in Placed(e) : g < x
            /\ \A k \in Ids(e.keys) : x < k
            /\ e.replay = <<>>
        BY <3>3 DEF Awaited, Flow, Editor
      <4>2. ~ (x < x)
        BY <2>2
      <4> QED BY <4>1, <4>2, NoIds DEF Placed
    <3> QED BY <2>7, <3>1, <3>2, <3>3
  <2> QED BY <2>2, <2>3, <2>4, <2>6, <2>8
<1>2. Editor(e, q, n)
  BY <1>1 DEF Flow, Editor
<1>3. Order(s, e, q)
  <2>1. \A i \in 1..Len(s) : s[i].kind # "paste-rejected" /\ s[i].id \notin m => s[i].id \notin q
    BY <1>1
  <2> HIDE DEF q
  <2> QED BY <2>1 DEF Flow, Order, Typing
<1>4. ~ cooked => Pastes(s, e, q, h, loose)
  <2>1. Quiet(s) => q = m
    BY <1>1
  <2> HIDE DEF q
  <2> QED BY <2>1 DEF Flow, Pastes
<1>5. cooked => Line(s, e, q, h)
  BY <1>1 DEF Flow, Line
<1> HIDE DEF q
<1>6. Flow(t, n, s, e, q, h, loose, cooked)
  BY <1>2, <1>3, <1>4, <1>5 DEF Flow
<1> QED BY <1>6 DEF q
-------------------------------------------------------------------------------
(* What the editor does to it.                                                   *)

\* What was given stays in order when x is given, behind all that was or as a paste
\* whose start was thrown away.
LEMMA GivenMore ==
  ASSUME NEW n \in Nat, NEW e, e.got \in Seq(1..n), NEW x \in 1..n,
         \A i, j \in 1..Len(e.got) :
           i < j /\ e.got[i] \notin e.unheld /\ e.got[j] \notin e.unheld => e.got[i] < e.got[j],
         x \in e.unheld \/ \A g \in Placed(e) : g < x,
         NEW f, f.got = Append(e.got, x), f.unheld = e.unheld
  PROVE  /\ f.got \in Seq(1..n) /\ Given(f) = Given(e) \cup {x}
         /\ Placed(f) = Placed(e) \cup ({x} \ e.unheld)
         /\ \A i, j \in 1..Len(f.got) :
              i < j /\ f.got[i] \notin f.unheld /\ f.got[j] \notin f.unheld => f.got[i] < f.got[j]
<1>1. /\ f.got \in Seq(1..n) /\ Len(f.got) = Len(e.got) + 1 /\ Len(e.got) \in Nat
      /\ \A i \in 1..Len(e.got) : f.got[i] = e.got[i]
      /\ f.got[Len(e.got) + 1] = x
      /\ 1..Len(f.got) = 1..Len(e.got) \cup {Len(e.got) + 1}
  OBVIOUS
<1>2. Given(f) = Given(e) \cup {x}
  BY <1>1 DEF Given
<1>3. Placed(f) = Placed(e) \cup ({x} \ e.unheld)
  BY <1>2 DEF Placed
<1>4. ASSUME NEW i \in 1..Len(f.got), NEW j \in 1..Len(f.got), i < j, f.got[i] \notin f.unheld,
             f.got[j] \notin f.unheld
      PROVE  f.got[i] < f.got[j]
  <2>1. i \in 1..Len(e.got) /\ f.got[i] = e.got[i]
    BY <1>1, <1>4
  <2>2. CASE j \in 1..Len(e.got)
    BY <1>1, <1>4, <2>1, <2>2
  <2>3. CASE j = Len(e.got) + 1
    BY <1>1, <1>4, <2>1, <2>3 DEF Placed, Given
  <2> QED BY <1>1, <2>2, <2>3
<1> QED BY <1>1, <1>2, <1>3, <1>4

(* A text that was kept aside is used.                                            *)
LEMMA ReplayFlow ==
  ASSUME NEW t, NEW n, NEW s, NEW e, NEW m, NEW h, NEW loose, NEW cooked,
         Flow(t, n, s, e, m, h, loose, cooked), e.replay # <<>>,
         NEW f, Editors(f, None, <<>>, Tail(e.replay), Append(e.got, Head(e.replay).id), e.unheld, FALSE)
  PROVE  /\ Flow(t, n, s, f, m, h, loose, cooked) /\ e.waiting = None /\ ~ e.ended
         /\ OneMore(Given(f), Given(e), Head(e.replay).id)
         /\ OneMore(Ids(e.replay), Ids(f.replay), Head(e.replay).id) /\ Ids(e.keys) = {}
<1> DEFINE x == Head(e.replay).id
<1>0. /\ n \in Nat /\ Editor(e, m, n) /\ Order(s, e, m) /\ Polled(s, n) /\ h \in 0..n
      /\ e.replay \in Seq(Texts) /\ e.waiting = None /\ e.keys = <<>> /\ ~ e.ended
  BY DEF Flow, Editor, Order
<1>1. /\ DOMAIN f = EditorFields /\ ~ f.overlap /\ f.waiting = None /\ f.keys = <<>>
      /\ f.replay = Tail(e.replay) /\ f.got = Append(e.got, x) /\ f.unheld = e.unheld /\ ~ f.ended
  BY DEF Editors
<1>2. /\ f.replay \in Seq(Texts) /\ Len(e.replay) = Len(f.replay) + 1 /\ Len(f.replay) \in Nat
      /\ \A i \in 1..Len(f.replay) : f.replay[i] = e.replay[i + 1] /\ i + 1 \in 1..Len(e.replay) /\ 1 < i + 1
      /\ x = e.replay[1].id /\ 1 \in 1..Len(e.replay)
  BY <1>0, <1>1
<1>3. /\ x \in Nat /\ x # None
  <2>1. e.replay[1] \in Texts
    BY <1>0, <1>2
  <2> QED BY <1>2, <2>1 DEF Texts
<1>4. Ids(e.replay) = Ids(f.replay) \cup {x}
  <2>1. Texts \subseteq Events
    BY DEF Texts, Events, Typing
  <2>2. f.replay \in Seq(Events) /\ e.replay \in Seq(Events)
    BY <1>0, <1>2, <2>1
  <2>3. Drops(f.replay, e.replay)
    BY <1>2, <2>2 DEF Drops
  <2>4. Ids(e.replay) = Ids(f.replay) \cup ({e.replay[1].id} \ {None})
    BY <2>2, <2>3, DroppedIds
  <2> QED BY <1>2, <1>3, <2>4
<1>5. \A k \in Ids(f.replay) : x < k
  <2> SUFFICES ASSUME NEW i \in 1..Len(f.replay) PROVE x < f.replay[i].id
    BY DEF Ids
  <2>1. e.replay[1].id < e.replay[i + 1].id
    BY <1>0, <1>2 DEF Editor, Rising
  <2> QED BY <1>2, <2>1
<1>6. x <= n /\ x \notin e.unheld \cup m /\ \A g \in Placed(e) : g < x
  BY <1>0, <1>4 DEF Editor
<1>7. x \in 1..n
  BY <1>0, <1>3, <1>6 DEF None
<1> HIDE DEF x
<1>8. /\ f.got \in Seq(1..n) /\ Given(f) = Given(e) \cup {x} /\ Placed(f) = Placed(e) \cup {x}
      /\ \A i, j \in 1..Len(f.got) :
           i < j /\ f.got[i] \notin f.unheld /\ f.got[j] \notin f.unheld => f.got[i] < f.got[j]
  <2>1. /\ e.got \in Seq(1..n)
        /\ \A i, j \in 1..Len(e.got) :
             i < j /\ e.got[i] \notin e.unheld /\ e.got[j] \notin e.unheld => e.got[i] < e.got[j]
    BY <1>0 DEF Editor
  <2>2. {x} \ e.unheld = {x} /\ f.got = Append(e.got, x) /\ f.unheld = e.unheld
    BY <1>1, <1>6
  <2>3. /\ f.got \in Seq(1..n) /\ Given(f) = Given(e) \cup {x}
        /\ Placed(f) = Placed(e) \cup ({x} \ e.unheld)
        /\ \A i, j \in 1..Len(f.got) :
             i < j /\ f.got[i] \notin f.unheld /\ f.got[j] \notin f.unheld => f.got[i] < f.got[j]
    BY <1>0, <1>6, <1>7, <2>1, <2>2, GivenMore
  <2> QED BY <2>2, <2>3
<1>9. Rising(f.replay) /\ Rising(f.keys)
  BY <1>0, <1>1, <1>2 DEF Editor, Rising
<1>10. Editor(f, m, n)
  BY <1>0, <1>1, <1>2, <1>4, <1>5, <1>6, <1>8, <1>9, NoIds DEF Editor
<1>11. ASSUME NEW y, Later(y, e) PROVE Later(y, f)
  BY <1>0, <1>1, <1>4, <1>8, <1>11, NoIds DEF Later
<1>12. ASSUME NEW y, Awaited(y, e) PROVE Awaited(y, f)
  BY <1>0, <1>1, <1>6, <1>8, <1>12 DEF Awaited
<1>13. Order(s, f, m)
  BY <1>0, <1>1, <1>11, <1>12 DEF Order
<1>14. ~ cooked => Pastes(s, f, m, h, loose)
  BY <1>1, <1>12 DEF Flow, Pastes
<1>15. cooked => Line(s, f, m, h)
  BY <1>11 DEF Flow, Line
<1> QED BY <1>0, <1>1, <1>4, <1>8, <1>10, <1>13, <1>14, <1>15, NoIds DEF Flow, OneMore, x

(* Of the events of a poll the first is used: what the other lemmas rest on.      *)
LEMMA HeadIs ==
  ASSUME NEW n \in Nat, NEW s, Polled(s, n), s # <<>>, NEW e, NEW m, Order(s, e, m)
  PROVE  /\ 1 \in 1..Len(s) /\ s[1].id \in 0..n /\ (s[1].kind # "terminal" => s[1].id \in 1..n)
         /\ s[1].kind = "terminal" => s[1].id = None /\ Len(s) = 1
         /\ ~ e.ended
         /\ s[1].kind \in Typing \cup {"paste-start"} => Later(s[1].id, e) /\ s[1].id \notin m
         /\ s[1].kind = "paste" => Awaited(s[1].id, e) /\ s[1].id \notin m
<1>1. 1 \in 1..Len(s)
  BY DEF Polled
<1> QED BY <1>1 DEF Polled, Order, None
(* A key, or a paste whose start was thrown away, is used.                        *)
LEMMA UsedFlow ==
  ASSUME NEW t, NEW n, NEW s, NEW e, NEW m, NEW h, NEW loose, NEW cooked,
         Flow(t, n, s, e, m, h, loose, cooked), s # <<>>, e.waiting = None, e.replay = <<>>,
         s[1].kind \in Typing \cup {"paste"}, s[1].kind = "paste" => ~ cooked, NEW z, Drops(z, s),
         NEW f, Editors(f, None, <<>>, <<>>, Append(e.got, s[1].id), e.unheld, FALSE)
  PROVE  Flow(t, n, z, f, m, h, loose, cooked) /\ OneMore(Given(f), Given(e), s[1].id) /\ e.keys = <<>>
<1> DEFINE x == s[1].id
<1>0. /\ n \in Nat /\ Editor(e, m, n) /\ Order(s, e, m) /\ Polled(s, n) /\ h \in 0..n
      /\ s \in Seq(Events) /\ Len(s) \in Nat /\ e.keys = <<>>
  BY DEF Flow, Editor, Polled
<1>1. /\ DOMAIN f = EditorFields /\ ~ f.overlap /\ f.waiting = None /\ f.keys = <<>>
      /\ f.replay = <<>> /\ f.got = Append(e.got, x) /\ f.unheld = e.unheld /\ ~ f.ended
  BY DEF Editors
<1>2. /\ x \in 1..n /\ x \notin m /\ 1 \in 1..Len(s)
      /\ s[1].kind \in Typing => Later(x, e)
      /\ s[1].kind = "paste" => Awaited(x, e)
  BY <1>0, HeadIs DEF Typing
<1>3. x \in e.unheld \/ \A g \in Placed(e) : g < x
  BY <1>2 DEF Later, Awaited
<1>4. x \notin Given(e)
  BY <1>2, LaterIsNew DEF Awaited
<1> HIDE DEF x
<1>5. /\ f.got \in Seq(1..n) /\ Given(f) = Given(e) \cup {x}
      /\ Placed(f) = Placed(e) \cup ({x} \ e.unheld)
      /\ \A i, j \in 1..Len(f.got) :
           i < j /\ f.got[i] \notin f.unheld /\ f.got[j] \notin f.unheld => f.got[i] < f.got[j]
  <2>1. /\ e.got \in Seq(1..n)
        /\ \A i, j \in 1..Len(e.got) :
             i < j /\ e.got[i] \notin e.unheld /\ e.got[j] \notin e.unheld => e.got[i] < e.got[j]
    BY <1>0 DEF Editor
  <2>2. f.got = Append(e.got, x) /\ f.unheld = e.unheld
    BY <1>1
  <2> QED BY <1>0, <1>2, <1>3, <2>1, <2>2, GivenMore
<1>6. Editor(f, m, n)
  <2>1. <<>> \in Seq(Texts) /\ Rising(<<>>)
    BY DEF Rising
  <2> QED BY <1>0, <1>1, <1>2, <1>5, <2>1, NoIds DEF Editor, None
<1>7. ASSUME NEW y, Later(y, e), x < y PROVE Later(y, f)
  BY <1>1, <1>5, <1>7, NoIds DEF Later
<1>8. Order(z, f, m)
  <2>1. \A y \in 1..n : Later(y, e) /\ s[1].id < y => Later(y, f) /\ (y \in m => y \in m)
    BY <1>7 DEF x
  <2> QED BY <1>0, <1>1, <2>1, DropsOrder
<1>9. /\ Len(z) \in Nat /\ Len(s) = Len(z) + 1 /\ \A i \in 1..Len(z) : z[i] = s[i + 1] /\ i + 1 \in 1..Len(s)
      /\ \A i \in 1..Len(s) : i # 1 => i - 1 \in 1..Len(z) /\ z[i - 1] = s[i]
  BY <1>0 DEF Drops
<1>10. ASSUME ~ cooked PROVE Pastes(z, f, m, h, loose)
  <2>1. \A i \in 1..Len(z) : z[i].kind = "paste-start" => h = z[i].id \/ loose
    BY <1>9, <1>10 DEF Flow, Pastes
  <2>2. ASSUME h # None, ~ loose
        PROVE  \/ \E i \in 1..Len(z) : z[i].kind = "paste-start" /\ z[i].id = h
               \/ Quiet(z) /\ h \notin m /\ Awaited(h, f)
    <3>1. CASE \E i \in 1..Len(s) : s[i].kind = "paste-start" /\ s[i].id = h
      <4>1. PICK i \in 1..Len(s) : s[i].kind = "paste-start" /\ s[i].id = h
        BY <3>1
      <4>2. i # 1
        BY <4>1 DEF Typing
      <4> QED BY <1>9, <4>1, <4>2
    <3>2. CASE Quiet(s) /\ h \notin m /\ Awaited(h, e)
      <4>1. Quiet(z)
        BY <1>9, <3>2 DEF Quiet
      <4>2. s[1].kind \in Typing
        BY <1>2, <3>2 DEF Quiet, Notices, Results
      <4>3. x # h
        BY <1>2, <3>2, <4>2 DEF Later, Awaited
      <4> QED BY <1>1, <1>5, <3>2, <4>1, <4>3 DEF Awaited
    <3> QED BY <1>10, <2>2, <3>1, <3>2 DEF Flow, Pastes
  <2> QED BY <1>1, <2>1, <2>2 DEF Pastes
<1>11. ASSUME cooked PROVE Line(z, f, m, h)
  <2>1. h # None => x < h
    BY <1>2, <1>11 DEF Flow, Line, x
  <2>2. h # None => Later(h, f)
    BY <1>7, <1>11, <2>1 DEF Flow, Line
  <2>3. h # None => \A i \in 1..Len(z) : z[i].id < h
    BY <1>9, <1>11 DEF Flow, Line
  <2> QED BY <1>11, <2>2, <2>3 DEF Flow, Line
<1>12. Polled(z, n)
  BY <1>0, DropsPolled
<1> QED BY <1>0, <1>5, <1>6, <1>8, <1>10, <1>11, <1>12 DEF Flow, OneMore, x

(* The end of the input is used.                                                  *)
LEMMA EndedFlow ==
  ASSUME NEW t, NEW n, NEW s, NEW e, NEW m, NEW h, NEW loose, NEW cooked,
         Flow(t, n, s, e, m, h, loose, cooked), s # <<>>, e.waiting = None, e.replay = <<>>,
         s[1].kind = "terminal", NEW z, Drops(z, s),
         NEW f, Editors(f, None, <<>>, <<>>, e.got, e.unheld, TRUE)
  PROVE  Flow(t, n, z, f, m, h, loose, cooked) /\ z = <<>> /\ e.keys = <<>>
<1>0. /\ n \in Nat /\ Editor(e, m, n) /\ Order(s, e, m) /\ Polled(s, n) /\ h \in 0..n
      /\ s \in Seq(Events) /\ Len(s) \in Nat /\ e.keys = <<>>
  <2>1. n \in Nat /\ Editor(e, m, n) /\ Order(s, e, m) /\ Polled(s, n) /\ h \in 0..n
    BY DEF Flow
  <2>2. e.keys = <<>>
    BY <2>1 DEF Editor
  <2> QED BY <2>1, <2>2 DEF Polled
<1>1. /\ DOMAIN f = EditorFields /\ ~ f.overlap /\ f.waiting = None /\ f.keys = <<>>
      /\ f.replay = <<>> /\ f.got = e.got /\ f.unheld = e.unheld /\ f.ended
  BY DEF Editors
<1>2. z = <<>>
  <2>1. Len(s) = 1
    BY <1>0, HeadIs
  <2>2. z \in Seq(Events) /\ Len(z) + 1 = 1
    BY <2>1 DEF Drops
  <2> QED BY <2>2
<1>3. Given(f) = Given(e) /\ Placed(f) = Placed(e)
  BY <1>1 DEF Given, Placed
<1>4. Editor(f, m, n)
  <2>1. <<>> \in Seq(Texts) /\ Rising(<<>>)
    BY DEF Rising
  <2> QED BY <1>0, <1>1, <1>3, <2>1, NoIds DEF Editor
<1>5. Order(z, f, m) /\ Polled(z, n)
  BY <1>1, <1>2 DEF Order, Polled, Rising
<1>6. ~ cooked => Pastes(z, f, m, h, loose)
  <2>1. Quiet(s) /\ Quiet(z)
    <3>1. Len(s) = 1 /\ s[1].kind = "terminal"
      BY <1>0, HeadIs
    <3> QED BY <1>2, <3>1 DEF Quiet, Notices, Results
  <2>2. \A y : Awaited(y, e) => Awaited(y, f)
    BY <1>1, <1>3 DEF Awaited
  <2>3. \A i \in 1..Len(s) : s[i].kind # "paste-start"
    BY <2>1 DEF Quiet, Notices
  <2> QED BY <1>1, <1>2, <2>1, <2>2, <2>3 DEF Flow, Pastes
<1>7. cooked => Line(z, f, m, h)
  <2>1. \A y : Later(y, e) => Later(y, f)
    BY <1>0, <1>1, <1>3 DEF Later
  <2> QED BY <1>2, <2>1 DEF Flow, Line
<1> QED BY <1>0, <1>2, <1>4, <1>5, <1>6, <1>7 DEF Flow
(* A paste was announced: the keys behind it wait for it.                         *)
LEMMA AnnouncedFlow ==
  ASSUME NEW t, NEW n, NEW s, NEW e, NEW m, NEW h, NEW loose,
         Flow(t, n, s, e, m, h, loose, FALSE), s # <<>>, e.replay = <<>>,
         s[1].kind = "paste-start", NEW z, Drops(z, s),
         NEW f, Editors(f, s[1].id, <<>>, <<>>, e.got, e.unheld, FALSE)
  PROVE  Flow(t, n, z, f, m, h, loose, FALSE) /\ e.waiting = None /\ e.keys = <<>>
<1> DEFINE x == s[1].id
<1>0. /\ n \in Nat /\ Editor(e, m, n) /\ Order(s, e, m) /\ Polled(s, n) /\ h \in 0..n
      /\ Pastes(s, e, m, h, loose)
  BY DEF Flow
<1>1. s \in Seq(Events) /\ Len(s) \in Nat
  BY <1>0 DEF Polled
<1>2. /\ x \in 1..n /\ x # None /\ x \notin m /\ Later(x, e) /\ 1 \in 1..Len(s)
  BY <1>0, HeadIs DEF None
<1>3. e.waiting = None /\ e.keys = <<>>
  <2>1. ~ Quiet(s)
    BY <1>2 DEF Quiet, Notices
  <2>2. s[1].kind \notin Results
    BY DEF Results
  <2>3. e.waiting = None
    BY <1>0, <2>1, <2>2 DEF Pastes
  <2> QED BY <1>0, <2>3 DEF Editor
<1>4. /\ DOMAIN f = EditorFields /\ ~ f.overlap /\ f.waiting = x /\ f.keys = <<>>
      /\ f.replay = <<>> /\ f.got = e.got /\ f.unheld = e.unheld /\ ~ f.ended
  BY DEF Editors
<1>5. /\ Len(z) \in Nat /\ Len(s) = Len(z) + 1
      /\ \A i \in 1..Len(z) : z[i] = s[i + 1] /\ i + 1 \in 1..Len(s) /\ 1 < i + 1
      /\ \A i \in 1..Len(s) : i # 1 => 1 < i
  BY <1>1 DEF Drops
<1>6. \A i \in 1..Len(s) : i # 1 => s[i].kind \in Typing
  BY <1>0, <1>2, <1>5 DEF Polled
<1>7. Quiet(z)
  BY <1>5, <1>6 DEF Quiet, Typing, Notices, Results
<1> HIDE DEF x
<1>8. Given(f) = Given(e) /\ Placed(f) = Placed(e)
  BY <1>4 DEF Given, Placed
<1>9. Editor(f, m, n)
  <2>1. <<>> \in Seq(Texts) /\ Rising(<<>>)
    BY DEF Rising
  <2>2. x \notin e.unheld /\ \A g \in Placed(e) : g < x
    BY <1>2 DEF Later
  <2>3. x \in 0..n
    BY <1>0, <1>2
  <2> QED BY <1>0, <1>2, <1>4, <1>8, <2>1, <2>2, <2>3, NoIds DEF Editor
<1>10. ASSUME NEW y, Later(y, e), x < y PROVE Later(y, f)
  BY <1>4, <1>8, <1>10, NoIds DEF Later
<1>11. Order(z, f, m)
  <2>1. \A y \in 1..n : Later(y, e) /\ s[1].id < y => Later(y, f) /\ (y \in m => y \in m)
    BY <1>10 DEF x
  <2> QED BY <1>0, <1>4, <2>1, DropsOrder
<1>12. h = x \/ loose
  BY <1>0, <1>2 DEF Pastes, x
<1>13. Pastes(z, f, m, h, loose)
  <2>1. h # None /\ ~ loose => h \notin m /\ Awaited(h, f)
    BY <1>2, <1>4, <1>12 DEF Awaited
  <2>2. \A i \in 1..Len(z) : z[i].kind # "paste-start"
    BY <1>7 DEF Quiet, Notices
  <2> QED BY <1>4, <1>7, <1>12, <2>1, <2>2 DEF Pastes
<1>14. Polled(z, n)
  BY <1>0, DropsPolled
<1> QED BY <1>0, <1>3, <1>9, <1>11, <1>13, <1>14 DEF Flow

(* The paste is given, and what was held since is kept aside.                     *)
LEMMA PastedFlow ==
  ASSUME NEW t, NEW n, NEW s, NEW e, NEW m, NEW h, NEW loose,
         Flow(t, n, s, e, m, h, loose, FALSE), s # <<>>, e.waiting # None,
         s[1].kind = "paste", NEW z, Drops(z, s),
         NEW f, Editors(f, None, <<>>, e.keys, Append(e.got, s[1].id), e.unheld, FALSE)
  PROVE  Flow(t, n, z, f, m, h, loose, FALSE) /\ s[1].id = e.waiting
         /\ OneMore(Given(f), Given(e), s[1].id)
<1> DEFINE x == s[1].id
<1>0. /\ n \in Nat /\ Editor(e, m, n) /\ Order(s, e, m) /\ Polled(s, n) /\ h \in 0..n
      /\ Pastes(s, e, m, h, loose)
  BY DEF Flow
<1>1. s \in Seq(Events) /\ Len(s) \in Nat /\ e.replay = <<>>
  BY <1>0 DEF Polled, Editor
<1>2. x \in 1..n /\ x \notin m /\ x = e.waiting /\ 1 \in 1..Len(s)
  BY <1>0, HeadIs DEF Awaited
<1>3. x \notin e.unheld /\ (\A g \in Placed(e) : g < x) /\ (\A k \in Ids(e.keys) : x < k)
  BY <1>0, <1>2 DEF Editor
<1>4. /\ DOMAIN f = EditorFields /\ ~ f.overlap /\ f.waiting = None /\ f.keys = <<>>
      /\ f.replay = e.keys /\ f.got = Append(e.got, x) /\ f.unheld = e.unheld /\ ~ f.ended
  BY DEF Editors
<1>5. /\ Len(z) \in Nat /\ Len(s) = Len(z) + 1
      /\ \A i \in 1..Len(z) : z[i] = s[i + 1] /\ i + 1 \in 1..Len(s)
      /\ \A i \in 1..Len(s) : i # 1 => i - 1 \in 1..Len(z) /\ z[i - 1] = s[i]
  BY <1>1 DEF Drops
<1> HIDE DEF x
<1>6. /\ f.got \in Seq(1..n) /\ Given(f) = Given(e) \cup {x} /\ Placed(f) = Placed(e) \cup {x}
      /\ \A i, j \in 1..Len(f.got) :
           i < j /\ f.got[i] \notin f.unheld /\ f.got[j] \notin f.unheld => f.got[i] < f.got[j]
  <2>1. /\ e.got \in Seq(1..n)
        /\ \A i, j \in 1..Len(e.got) :
             i < j /\ e.got[i] \notin e.unheld /\ e.got[j] \notin e.unheld => e.got[i] < e.got[j]
    BY <1>0 DEF Editor
  <2>2. {x} \ e.unheld = {x} /\ f.got = Append(e.got, x) /\ f.unheld = e.unheld
    BY <1>3, <1>4
  <2>3. /\ f.got \in Seq(1..n) /\ Given(f) = Given(e) \cup {x}
        /\ Placed(f) = Placed(e) \cup ({x} \ e.unheld)
        /\ \A i, j \in 1..Len(f.got) :
             i < j /\ f.got[i] \notin f.unheld /\ f.got[j] \notin f.unheld => f.got[i] < f.got[j]
    <3>1. n \in Nat /\ x \in 1..n /\ (x \in e.unheld \/ \A g \in Placed(e) : g < x)
      BY <1>0, <1>2, <1>3
    <3> QED BY <2>1, <2>2, <3>1, GivenMore
  <2> QED BY <2>2, <2>3
<1>7. Editor(f, m, n)
  <2>1. <<>> \in Seq(Texts) /\ Rising(<<>>)
    BY DEF Rising
  <2>2. None \in 0..n
    BY <1>0 DEF None
  <2>3. \A k \in Ids(e.keys) : k <= n /\ k \notin e.unheld \cup m /\ \A g \in Placed(e) : g < k
    BY <1>0 DEF Editor
  <2> QED BY <1>0, <1>2, <1>3, <1>4, <1>6, <2>1, <2>2, <2>3, NoIds DEF Editor
<1>8. ASSUME NEW y \in Nat, Later(y, e), x < y PROVE Later(y, f)
  <2>1. y \notin f.unheld
    BY <1>4, <1>8 DEF Later
  <2>2. \A k \in Placed(e) \cup {x} \cup Ids(e.keys) \cup {None} : k < y
    <3>1. None < y
      BY <1>2, <1>8 DEF None
    <3> QED BY <1>8, <3>1 DEF Later
  <2> QED BY <1>4, <1>6, <2>1, <2>2, NoIds DEF Later
<1>9. Order(z, f, m)
  <2>1. f.ended => z = <<>> /\ f.replay = <<>> /\ f.keys = <<>>
    BY <1>4
  <2>2. \A y \in 1..n : Later(y, e) /\ s[1].id < y => Later(y, f) /\ (y \in m => y \in m)
    BY <1>8 DEF x
  <2> QED BY <1>0, <2>1, <2>2, DropsOrder
<1>10. Pastes(z, f, m, h, loose)
  <2>1. \A i \in 1..Len(z) : z[i].kind = "paste-start" => h = z[i].id \/ loose
    BY <1>0, <1>5 DEF Pastes
  <2>2. ASSUME h # None, ~ loose
        PROVE  \E i \in 1..Len(z) : z[i].kind = "paste-start" /\ z[i].id = h
    <3>1. ~ Quiet(s)
      BY <1>2 DEF Quiet, Notices, Results
    <3>2. PICK i \in 1..Len(s) : s[i].kind = "paste-start" /\ s[i].id = h
      BY <1>0, <2>2, <3>1 DEF Pastes
    <3>3. i # 1
      BY <3>2
    <3> QED BY <1>5, <3>2, <3>3
  <2> QED BY <1>4, <2>1, <2>2 DEF Pastes
<1>11. Polled(z, n)
  BY <1>0, DropsPolled
<1> QED BY <1>0, <1>2, <1>6, <1>7, <1>9, <1>10, <1>11 DEF Flow, OneMore, x
(* A paste was refused, or does not fit: the draft is cleared, and the keys are   *)
(* thrown away with the starts among them.                                        *)
\* The pastes whose starts are behind the first event, and what is called off with it.
Announced(u, s) == u = {s[i].id : i \in {j \in 2..Len(s) : s[j].kind = "paste-start"}}

CalledOff(q, m, e, z, u) ==
  q = m \cup (({e.waiting} \cup Ids(e.keys) \cup Ids(z)) \ ({None} \cup u))

LEMMA ClearedFlow ==
  ASSUME NEW t, NEW n, NEW s, NEW e, NEW m, NEW h, NEW loose,
         Flow(t, n, s, e, m, h, loose, FALSE), s # <<>>, e.replay = <<>>,
         s[1].kind \in Results, s[1].kind = "paste" => e.waiting # None,
         s[1].kind = "paste-rejected" => s[1].id \in m, NEW z, Drops(z, s),
         NEW u, Announced(u, s), NEW q, CalledOff(q, m, e, z, u),
         NEW f, Editors(f, None, <<>>, <<>>, e.got, e.unheld \cup u, FALSE)
  PROVE  /\ Flow(t, n, <<>>, f, q, h, loose, FALSE)
         /\ loose = FALSE /\ Told(t, n, s, e, m, h) => Told(t, n, <<>>, f, q, h)
<1>s. u = {s[i].id : i \in {j \in 2..Len(s) : s[j].kind = "paste-start"}}
  BY DEF Announced
<1>q. q = m \cup (({e.waiting} \cup Ids(e.keys) \cup Ids(z)) \ ({None} \cup u))
  BY DEF CalledOff
<1>0. /\ n \in Nat /\ Editor(e, m, n) /\ Order(s, e, m) /\ Polled(s, n) /\ h \in 0..n
      /\ Pastes(s, e, m, h, loose) /\ t \in Seq(Strings)
  BY DEF Flow
<1>1. s \in Seq(Events) /\ Len(s) \in Nat
  BY <1>0 DEF Polled
<1>2. /\ DOMAIN f = EditorFields /\ ~ f.overlap /\ f.waiting = None /\ f.keys = <<>>
      /\ f.replay = <<>> /\ f.got = e.got /\ f.unheld = e.unheld \cup u /\ ~ f.ended
  BY DEF Editors
<1>3. /\ Len(z) \in Nat /\ Len(s) = Len(z) + 1
      /\ \A i \in 1..Len(z) : z[i] = s[i + 1] /\ i + 1 \in 2..Len(s)
      /\ \A i \in 2..Len(s) : i \in 1..Len(s) /\ i # 1 /\ i - 1 \in 1..Len(z) /\ z[i - 1] = s[i]
  BY <1>1 DEF Drops
<1>4. \A i \in 2..Len(s) : /\ s[i].id \in 1..n /\ s[i].id # None /\ Later(s[i].id, e)
                           /\ s[i].id \notin Given(e)
                           /\ s[i].kind = "paste-start" => s[i].id \notin m
  <2> SUFFICES ASSUME NEW i \in 2..Len(s)
               PROVE  /\ s[i].id \in 1..n /\ Later(s[i].id, e)
                      /\ s[i].kind = "paste-start" => s[i].id \notin m
    BY LaterIsNew DEF None
  <2>1. i \in 1..Len(s) /\ i # 1 /\ Len(s) # 1
    BY <1>3
  <2>2. s[i] \in Events /\ s[i].kind # "terminal" /\ s[i].kind # "paste" /\ s[i].id \in 1..n
    BY <1>0, <1>1, <2>1 DEF Polled
  <2>3. s[i].kind \in Typing \cup {"paste-start", "paste-rejected"}
    BY <2>2 DEF Events, Notices, Results
  <2> QED BY <1>0, <2>1, <2>2, <2>3 DEF Order
<1>5. u \subseteq 1..n /\ u \cap Given(e) = {} /\ u \cap m = {} /\ None \notin u
  BY <1>s, <1>4
<1>6. Ids(z) \subseteq 1..n /\ Ids(z) \cap Given(e) = {}
  BY <1>3, <1>4 DEF Ids
<1>7. Ids(e.keys) \subseteq 1..n /\ Ids(e.keys) \cap Given(e) = {}
  <2>1. \A k \in Ids(e.keys) : k \in Nat \ {0} /\ k <= n /\ k \notin e.unheld /\ \A g \in Placed(e) : g < k
    BY <1>0, TextIds DEF Editor
  <2> QED BY <1>0, <2>1 DEF Placed
<1>8. {e.waiting} \ {None} \subseteq 1..n /\ (e.waiting # None => e.waiting \notin Given(e))
  <2>1. e.waiting \in 0..n
    BY <1>0 DEF Editor
  <2>2. e.waiting # None => e.waiting \notin e.unheld /\ \A g \in Placed(e) : g < e.waiting
    BY <1>0 DEF Editor
  <2> QED BY <1>0, <2>1, <2>2 DEF None, Placed
<1>9. q \subseteq 1..n /\ Given(e) \cap q = {} /\ u \cap q = {}
  <2>1. m \subseteq 1..n /\ Given(e) \cap m = {}
    BY <1>0 DEF Editor
  <2> QED BY <1>q, <1>5, <1>6, <1>7, <1>8, <2>1
<1>10. Given(f) = Given(e) /\ Placed(f) \subseteq Placed(e)
  BY <1>2 DEF Given, Placed
<1>11. Editor(f, q, n)
  <2>1. <<>> \in Seq(Texts) /\ Rising(<<>>)
    BY DEF Rising
  <2>2. None \in 0..n /\ e.unheld \cup u \subseteq 1..n
    <3>1. None \in 0..n
      BY <1>0 DEF None
    <3>2. e.unheld \subseteq 1..n
      BY <1>0 DEF Editor
    <3> QED BY <1>5, <3>1, <3>2
  <2>3. \A i, j \in 1..Len(e.got) :
          i < j /\ e.got[i] \notin e.unheld \cup u /\ e.got[j] \notin e.unheld \cup u => e.got[i] < e.got[j]
    BY <1>0 DEF Editor
  <2>4. e.got \in Seq(1..n)
    BY <1>0 DEF Editor
  <2> QED BY <1>2, <1>9, <1>10, <2>1, <2>2, <2>3, <2>4, NoIds DEF Editor
<1>12. Order(<<>>, f, q) /\ Polled(<<>>, n)
  BY <1>2 DEF Order, Polled, Rising
<1>13. ~ loose /\ h # None => h \in u
  <2> SUFFICES ASSUME ~ loose, h # None PROVE h \in u
    OBVIOUS
  <2>1. 1 \in 1..Len(s)
    BY <1>1
  <2>2. ~ Quiet(s)
    BY <2>1 DEF Quiet, Notices
  <2>3. PICK i \in 1..Len(s) : s[i].kind = "paste-start" /\ s[i].id = h
    BY <1>0, <2>2 DEF Pastes
  <2>4. i # 1
    BY <2>3 DEF Results
  <2>5. i \in 2..Len(s)
    BY <1>1, <2>4
  <2> QED BY <1>s, <2>3, <2>5
<1>14. Pastes(<<>>, f, q, h, loose)
  <2>1. Quiet(<<>>)
    BY DEF Quiet
  <2>2. h # None /\ ~ loose => h \notin q /\ Awaited(h, f)
    BY <1>2, <1>5, <1>9, <1>10, <1>13 DEF Awaited
  <2> QED BY <1>2, <2>1, <2>2 DEF Pastes
<1>15. Flow(t, n, <<>>, f, q, h, loose, FALSE)
  BY <1>11, <1>12, <1>14 DEF Flow
<1>16. ASSUME loose = FALSE, Told(t, n, s, e, m, h) PROVE Told(t, n, <<>>, f, q, h)
  <2> SUFFICES ASSUME NEW i \in 1..n, t[i] # "end"
               PROVE  i \in Given(f) \cup q \cup Ids(<<>>) \cup Ids(f.keys) \cup Ids(f.replay)
                            \cup {f.waiting, h}
    BY DEF Told
  <2>1. i \in Given(e) \cup m \cup Ids(s) \cup Ids(e.keys) \cup {e.waiting, h} /\ i # None
    BY <1>0, <1>16, NoIds DEF Told, None
  <2>2. u \subseteq {h}
    <3>1. \A j \in 2..Len(s) : s[j].kind = "paste-start" => s[j].id = h
      BY <1>0, <1>3, <1>16 DEF Pastes
    <3> QED BY <1>s, <3>1
  <2>3. Ids(s) = Ids(z) \cup ({s[1].id} \ {None})
    BY <1>1, DroppedIds
  <2>4. s[1].id \in m \/ s[1].id = e.waiting
    BY <1>0, HeadIs DEF Awaited, Results
  <2> QED BY <1>q, <1>10, <2>1, <2>2, <2>3, <2>4
<1> QED BY <1>15, <1>16
(* A key while the editor waits: nothing behind it is about a paste.              *)
LEMMA WaitingKey ==
  ASSUME NEW t, NEW n, NEW s, NEW e, NEW m, NEW h, NEW loose,
         Flow(t, n, s, e, m, h, loose, FALSE), s # <<>>, e.waiting # None,
         s[1].kind \in Typing \cup {"terminal"}, NEW z, Drops(z, s)
  PROVE  /\ n \in Nat /\ Editor(e, m, n) /\ Order(s, e, m) /\ Polled(s, n) /\ h \in 0..n
         /\ t \in Seq(Strings) /\ n <= Len(t)
         /\ Quiet(z) /\ e.replay = <<>>
         /\ Ids(s) = Ids(z) \cup ({s[1].id} \ {None})
         /\ s[1].kind = "terminal" => z = <<>>
<1>0. /\ n \in Nat /\ Editor(e, m, n) /\ Order(s, e, m) /\ Polled(s, n) /\ h \in 0..n
      /\ t \in Seq(Strings) /\ n <= Len(t) /\ Pastes(s, e, m, h, loose)
  BY DEF Flow
<1>1. s \in Seq(Events) /\ Len(s) \in Nat /\ e.replay = <<>>
  BY <1>0 DEF Polled, Editor
<1>2. Quiet(s)
  BY <1>0 DEF Pastes, Typing, Results
<1>3. /\ z \in Seq(Events) /\ Len(z) \in Nat /\ Len(s) = Len(z) + 1
      /\ \A i \in 1..Len(z) : z[i] = s[i + 1] /\ i + 1 \in 1..Len(s)
  BY <1>1 DEF Drops
<1>4. Quiet(z)
  BY <1>2, <1>3 DEF Quiet
<1>5. Ids(s) = Ids(z) \cup ({s[1].id} \ {None})
  BY <1>1, DroppedIds
<1>6. s[1].kind = "terminal" => Len(s) = 1
  BY <1>0, HeadIs
<1>7. Len(z) = 0 => z = <<>>
  BY <1>3
<1> QED BY <1>0, <1>1, <1>2, <1>3, <1>4, <1>5, <1>6, <1>7

(* The end of the wait leaves the editor what it was given.                       *)
LEMMA WaitEnds ==
  ASSUME NEW n \in Nat, NEW e, NEW m, Editor(e, m, n), e.waiting # None,
         NEW q, m \subseteq q, q \subseteq 1..n, Given(e) \cap q = {},
         NEW f, DOMAIN f = EditorFields, ~ f.overlap, f.waiting = None, f.keys = <<>>, f.replay = <<>>,
         f.got = e.got, f.unheld = e.unheld
  PROVE  /\ Editor(f, q, n) /\ Given(f) = Given(e)
         /\ \A y : Later(y, e) /\ None < y => Later(y, f)
<1>2. /\ DOMAIN f = EditorFields /\ ~ f.overlap /\ f.waiting = None /\ f.keys = <<>>
      /\ f.replay = <<>> /\ f.got = e.got /\ f.unheld = e.unheld
  OBVIOUS
<1>3. Given(f) = Given(e) /\ Placed(f) = Placed(e)
  BY <1>2 DEF Given, Placed
<1>4. Editor(f, q, n)
  <2>1. <<>> \in Seq(Texts) /\ Rising(<<>>)
    BY DEF Rising
  <2>2. None \in 0..n
    BY DEF None
  <2> QED BY <1>2, <1>3, <2>1, <2>2, NoIds DEF Editor
<1>5. \A y : Later(y, e) /\ None < y => Later(y, f)
  BY <1>2, <1>3, NoIds DEF Later
<1> QED BY <1>3, <1>4, <1>5

(* A cancellation, or the end of the input, ends the wait.                        *)
LEMMA CancelledFlow ==
  ASSUME NEW t, NEW n, NEW s, NEW e, NEW m, NEW h, NEW loose,
         Flow(t, n, s, e, m, h, loose, FALSE), s # <<>>, e.waiting # None,
         s[1].kind \in {"cancel", "terminal"}, NEW z, Drops(z, s),
         NEW q, \A y : y \in q <=> y \in m \cup (({e.waiting, s[1].id} \cup Ids(e.keys)) \ {None}),
         NEW f, Editors(f, None, <<>>, <<>>, e.got, e.unheld, f.ended),
         f.ended <=> s[1].kind = "terminal"
  PROVE  /\ Flow(t, n, z, f, q, None, loose, FALSE)
         /\ loose = FALSE /\ Told(t, n, s, e, m, h) => Told(t, n, z, f, q, None)
<1>0. /\ n \in Nat /\ Editor(e, m, n) /\ Order(s, e, m) /\ Polled(s, n) /\ h \in 0..n
      /\ t \in Seq(Strings) /\ n <= Len(t)
      /\ Quiet(z) /\ e.replay = <<>>
      /\ Ids(s) = Ids(z) \cup ({s[1].id} \ {None})
      /\ s[1].kind = "terminal" => z = <<>>
  <2>1. s[1].kind \in Typing \cup {"terminal"}
    BY DEF Typing
  <2> QED BY <2>1, WaitingKey
<1>w. h = e.waiting \/ loose
  BY DEF Flow, Pastes, Typing, Results, Quiet, Notices
<1> DEFINE x == s[1].id
<1>1. /\ x \in 0..n /\ (s[1].kind = "terminal" => x = None)
      /\ s[1].kind = "cancel" => x \in 1..n /\ Later(x, e)
  BY <1>0, HeadIs DEF Typing
<1>2. x # None => x \in 1..n /\ Later(x, e) /\ x \notin Given(e)
  BY <1>1, LaterIsNew
<1>3. /\ e.waiting \in 1..n /\ e.waiting \notin Given(e)
      /\ Ids(e.keys) \subseteq 1..n /\ Ids(e.keys) \cap Given(e) = {}
  <2>1. \A k \in Ids(e.keys) : k \in Nat \ {0} /\ k <= n /\ k \notin e.unheld /\ \A g \in Placed(e) : g < k
    BY <1>0, TextIds DEF Editor
  <2>2. e.waiting \in 0..n /\ e.waiting \notin e.unheld /\ \A g \in Placed(e) : g < e.waiting
    BY <1>0 DEF Editor
  <2> QED BY <1>0, <2>1, <2>2 DEF Placed, None
<1>4. m \subseteq q /\ q \subseteq 1..n /\ Given(e) \cap q = {}
  <2>1. m \subseteq 1..n /\ Given(e) \cap m = {}
    BY <1>0 DEF Editor
  <2> HIDE DEF x
  <2>2. \A y : y \in q <=> y \in m \cup (({e.waiting, x} \cup Ids(e.keys)) \ {None})
    BY DEF x
  <2> QED BY <1>2, <1>3, <2>1, <2>2
<1>5. /\ Editor(f, q, n) /\ Given(f) = Given(e)
      /\ \A y : Later(y, e) /\ None < y => Later(y, f)
  <2> HIDE DEF x
  <2>1. /\ DOMAIN f = EditorFields /\ ~ f.overlap /\ f.waiting = None /\ f.keys = <<>>
        /\ f.replay = <<>> /\ f.got = e.got /\ f.unheld = e.unheld
    BY DEF Editors
  <2>2. n \in Nat /\ Editor(e, m, n)
    BY <1>0
  <2> QED BY <1>4, <2>1, <2>2, WaitEnds
<1>6. f.waiting = None /\ f.keys = <<>> /\ f.replay = <<>> /\ (f.ended <=> s[1].kind = "terminal")
  BY DEF Editors
<1>7. Order(z, f, q)
  <2>1. f.ended => z = <<>> /\ f.replay = <<>> /\ f.keys = <<>>
    BY <1>0, <1>6
  <2>2. ASSUME NEW y \in 1..n, Later(y, e), x < y PROVE Later(y, f) /\ (y \in q => y \in m)
    <3>1. None < y /\ y # x
      BY <1>1, <2>2 DEF None
    <3>2. y # e.waiting /\ y \notin Ids(e.keys)
      BY <2>2, LaterIsNew
    <3> QED BY <1>5, <2>2, <3>1, <3>2
  <2> QED BY <1>0, <2>1, <2>2, DropsOrder
<1>8. Pastes(z, f, q, None, loose)
  <2>1. \A i \in 1..Len(z) : z[i].kind # "paste-start"
    BY <1>0 DEF Quiet, Notices
  <2> QED BY <1>6, <2>1 DEF Pastes
<1>9. Polled(z, n) /\ None \in 0..n
  BY <1>0, DropsPolled DEF None
<1>10. Flow(t, n, z, f, q, None, loose, FALSE)
  BY <1>0, <1>5, <1>7, <1>8, <1>9 DEF Flow
<1>11. ASSUME loose = FALSE, Told(t, n, s, e, m, h) PROVE Told(t, n, z, f, q, None)
  <2> SUFFICES ASSUME NEW i \in 1..n, t[i] # "end"
               PROVE  i \in Given(f) \cup q \cup Ids(z)
    BY DEF Told
  <2>1. i \in Given(e) \cup m \cup Ids(s) \cup Ids(e.keys) \cup {e.waiting, h} /\ i # None
    BY <1>0, <1>11, NoIds DEF Told, None
  <2> QED BY <1>0, <1>5, <1>w, <1>11, <2>1
<1> QED BY <1>10, <1>11

(* A text while the editor waits is held.                                         *)
LEMMA HeldFlow ==
  ASSUME NEW t, NEW n, NEW s, NEW e, NEW m, NEW h, NEW loose,
         Flow(t, n, s, e, m, h, loose, FALSE), s # <<>>, e.waiting # None,
         s[1].kind = "text", NEW z, Drops(z, s),
         NEW f, Editors(f, e.waiting, Append(e.keys, s[1]), <<>>, e.got, e.unheld, FALSE)
  PROVE  /\ Flow(t, n, z, f, m, h, loose, FALSE) /\ Given(f) = Given(e)
         /\ OneMore(Ids(f.keys), Ids(e.keys), s[1].id) /\ e.replay = <<>>
<1>0. /\ n \in Nat /\ Editor(e, m, n) /\ Order(s, e, m) /\ Polled(s, n) /\ h \in 0..n
      /\ t \in Seq(Strings) /\ n <= Len(t)
      /\ Quiet(z) /\ e.replay = <<>>
  <2>1. s[1].kind \in Typing \cup {"terminal"}
    BY DEF Typing
  <2> QED BY <2>1, WaitingKey
<1>w. h = e.waiting \/ loose
  BY DEF Flow, Pastes, Typing, Results, Quiet, Notices
<1> DEFINE x == s[1].id
<1>1. x \in 1..n /\ Later(x, e) /\ x \notin m /\ x \notin e.unheld /\ x # None
  BY <1>0, HeadIs DEF Typing, Later, None
<1>2. /\ DOMAIN f = EditorFields /\ ~ f.overlap /\ f.waiting = e.waiting /\ f.keys = Append(e.keys, s[1])
      /\ f.replay = <<>> /\ f.got = e.got /\ f.unheld = e.unheld /\ ~ f.ended
  BY DEF Editors
<1>3. s[1] \in Texts
  <2>1. s[1] \in Events
    BY <1>0, HeadIs DEF Polled
  <2> QED BY <1>1, <2>1 DEF Events, Texts
<1>4. /\ f.keys \in Seq(Texts) /\ Len(f.keys) = Len(e.keys) + 1 /\ f.keys[Len(f.keys)] = s[1]
      /\ e.keys \in Seq(Texts) /\ Len(e.keys) \in Nat
      /\ \A i \in 1..Len(e.keys) : f.keys[i] = e.keys[i]
      /\ \A i \in 1..Len(f.keys) : i = Len(f.keys) \/ i \in 1..Len(e.keys)
  <2>1. e.keys \in Seq(Texts)
    BY <1>0 DEF Editor
  <2> QED BY <1>2, <1>3, <2>1
<1>5. Ids(f.keys) = Ids(e.keys) \cup {x}
  <2>1. Ids(Append(e.keys, s[1])) = Ids(e.keys) \cup ({s[1].id} \ {None})
    BY <1>3, <1>4, AppendedIds
  <2> QED BY <1>1, <1>2, <2>1
<1>6. Rising(f.keys)
  <2> SUFFICES ASSUME NEW i \in 1..Len(f.keys), NEW j \in 1..Len(f.keys), i < j
               PROVE  f.keys[i].id < f.keys[j].id
    BY DEF Rising
  <2>1. i \in 1..Len(e.keys)
    BY <1>4
  <2>2. CASE j \in 1..Len(e.keys)
    BY <1>0, <1>4, <2>1, <2>2 DEF Editor, Rising
  <2>3. CASE j = Len(f.keys)
    <3>1. e.keys[i] \in Texts
      BY <1>4, <2>1
    <3>2. e.keys[i].id \in Ids(e.keys)
      BY <2>1, <3>1 DEF Ids, Texts
    <3> QED BY <1>1, <1>4, <2>1, <2>3, <3>2 DEF Later
  <2> QED BY <1>4, <2>2, <2>3
<1> HIDE DEF x
<1>7. Given(f) = Given(e) /\ Placed(f) = Placed(e)
  BY <1>2 DEF Given, Placed
<1>8. Editor(f, m, n)
  <2>1. <<>> \in Seq(Texts) /\ Rising(<<>>)
    BY DEF Rising
  <2>2. e.waiting < x /\ \A g \in Placed(e) : g < x
    BY <1>1 DEF Later
  <2>3. x <= n /\ x \notin e.unheld \cup m
    BY <1>1, <1>0
  <2> QED BY <1>0, <1>2, <1>4, <1>5, <1>6, <1>7, <2>1, <2>2, <2>3, NoIds DEF Editor
<1>9. ASSUME NEW y, Later(y, e), x < y PROVE Later(y, f)
  BY <1>0, <1>2, <1>5, <1>7, <1>9 DEF Later
<1>10. Order(z, f, m)
  <2>1. f.ended => z = <<>> /\ f.replay = <<>> /\ f.keys = <<>>
    BY <1>2
  <2>2. \A y \in 1..n : Later(y, e) /\ s[1].id < y => Later(y, f) /\ (y \in m => y \in m)
    BY <1>9 DEF x
  <2> QED BY <1>0, <2>1, <2>2, DropsOrder
<1>11. Pastes(z, f, m, h, loose)
  <2>1. \A i \in 1..Len(z) : z[i].kind # "paste-start"
    BY <1>0 DEF Quiet, Notices
  <2>2. h # None /\ ~ loose => h \notin m /\ Awaited(h, f)
    <3>1. h # None /\ ~ loose =>
            (\E i \in 1..Len(s) : s[i].kind = "paste-start" /\ s[i].id = h) \/ h \notin m
      BY DEF Flow, Pastes
    <3>2. \A i \in 1..Len(s) : s[i].kind = "paste-start" => s[i].id \notin m
      BY <1>0 DEF Order
    <3> QED BY <1>0, <1>2, <1>w, <3>1, <3>2 DEF Awaited
  <2> QED BY <1>0, <1>2, <1>w, <2>1, <2>2 DEF Pastes
<1>12. Polled(z, n)
  BY <1>0, DropsPolled
<1>13. Flow(t, n, z, f, m, h, loose, FALSE)
  BY <1>0, <1>8, <1>10, <1>11, <1>12 DEF Flow
<1> QED BY <1>0, <1>5, <1>7, <1>13 DEF OneMore, x

(* There is no room for it: the session ends.                                     *)
LEMMA OverflowFlow ==
  ASSUME NEW t, NEW n, NEW s, NEW e, NEW m, NEW h, NEW loose,
         Flow(t, n, s, e, m, h, loose, FALSE), s # <<>>, e.waiting # None,
         s[1].kind = "text", NEW z, Drops(z, s),
         NEW f, Editors(f, None, <<>>, <<>>, e.got, e.unheld, FALSE)
  PROVE  Flow(t, n, z, f, m, None, TRUE, FALSE)
<1>0. /\ n \in Nat /\ Editor(e, m, n) /\ Order(s, e, m) /\ Polled(s, n) /\ h \in 0..n
      /\ t \in Seq(Strings) /\ n <= Len(t) /\ Quiet(z)
  <2>1. s[1].kind \in Typing \cup {"terminal"}
    BY DEF Typing
  <2> QED BY <2>1, WaitingKey
<1>1. m \subseteq 1..n /\ Given(e) \cap m = {}
  BY <1>0 DEF Editor
<1>2. Editor(f, m, n) /\ \A y : Later(y, e) /\ None < y => Later(y, f)
  <2>1. /\ DOMAIN f = EditorFields /\ ~ f.overlap /\ f.waiting = None /\ f.keys = <<>>
        /\ f.replay = <<>> /\ f.got = e.got /\ f.unheld = e.unheld
    BY DEF Editors
  <2> QED BY <1>0, <1>1, <2>1, WaitEnds
<1>3. Order(z, f, m)
  <2>1. ~ f.ended
    BY DEF Editors
  <2>2. \A y \in 1..n : None < y
    BY DEF None
  <2>3. \A y \in 1..n : Later(y, e) /\ s[1].id < y => Later(y, f) /\ (y \in m => y \in m)
    BY <1>2, <2>2
  <2> QED BY <1>0, <2>1, <2>3, DropsOrder
<1>4. Pastes(z, f, m, None, TRUE)
  BY DEF Pastes, Editors
<1>5. Polled(z, n) /\ None \in 0..n
  BY <1>0, DropsPolled DEF None
<1> QED BY <1>0, <1>2, <1>3, <1>4, <1>5 DEF Flow
-------------------------------------------------------------------------------
(* The steps.                                                                    *)

LEMMA OrderTypes ==
  ASSUME MInv, OInv
  PROVE  /\ work \in [Worker -> Record] /\ term \in Terms /\ term.worker \in Worker \cup {None}
         /\ None \notin Worker /\ None \in Nat /\ taken \in Nat /\ typed \in Seq(Strings)
         /\ taken <= Len(typed) /\ port.closing \in BOOLEAN /\ Loose \in BOOLEAN /\ term.cooked \in BOOLEAN
         /\ Attached \in BOOLEAN
<1>1. work \in [Worker -> Record] /\ term \in Terms /\ term.worker \in Worker \cup {None}
      /\ taken \in Nat
  BY DEF MInv, IInv, Record, Ats
<1>2. None \notin Worker /\ None \in Nat
  BY WorkerAssumption DEF None
<1>3. typed \in Seq(Strings) /\ taken <= Len(typed)
  BY DEF OInv, Flow
<1>4. port.closing \in BOOLEAN /\ term.cooked \in BOOLEAN
  BY <1>1 DEF OInv, Ends, Terms
<1> QED BY <1>1, <1>2, <1>3, <1>4 DEF Loose, Attached

(* Who lets go has nothing, and nobody else has less.                             *)
LEMMA LetGoWork ==
  ASSUME MInv, OInv, LetGo
  PROVE  \A w \in Worker :
           /\ work'[w].at = "reading" => work[w].at = "reading" /\ work'[w].holds = None
           /\ work'[w].at = "rendering" \/ work'[w].good => work'[w].holds # None
<1>1. work \in [Worker -> Record] /\ term.worker \in Worker \cup {None}
  BY OrderTypes
<1>2. ASSUME NEW r \in Record
      PROVE  /\ Released(r).at = "reading" => r.at = "reading" /\ Released(r).holds = r.holds
             /\ Released(r).at = "rendering" \/ Released(r).good =>
                  (r.at = "rendering" \/ r.good) /\ Released(r).holds = r.holds
  BY DEF Released, Record, Unused
<1>3. \A w \in Worker : work[w] \in Record /\ (work'[w] = work[w] \/ work'[w] = Released(work[w]))
  BY <1>1 DEF LetGo, Attached
<1> QED BY <1>2, <1>3 DEF OInv, Ends

(* A step that touches neither the events nor the editor: the port or a thread    *)
(* lets go, or somebody decides that the port is to end.                          *)
LEMMA CalmFlow ==
  ASSUME MInv, OInv, UNCHANGED <<typed, taken, ed>>, Stream' = Stream, port'.missed = port.missed,
         term'.cooked = term.cooked, Held' \in {Held, None}, Held' = Held \/ Loose' \/ term.cooked,
         Held' = Held \/ port'.closing, Loose => Loose', port.closing => port'.closing
  PROVE  /\ Flow(typed, taken, Stream, ed, port.missed, Held, Loose, term.cooked)'
         /\ ~ port'.closing => Told(typed, taken, Stream, ed, port.missed, Held)'
<1>1. Flow(typed, taken, Stream, ed, port.missed, Held, Loose, term.cooked)
  BY DEF OInv
<1>2. Flow(typed, taken, Stream, ed, port.missed, Held', Loose', term.cooked)
  BY <1>1, LooserFlow
<1>3. ~ port'.closing => Told(typed, taken, Stream, ed, port.missed, Held')
  BY DEF OInv
<1> QED BY <1>2, <1>3

LEMMA ReadFlow ==
  ASSUME NEW t, NEW n, NEW s, NEW e, NEW m, NEW loose,
         Flow(t, n, s, e, m, None, loose, TRUE), n + 1 <= Len(t)
  PROVE  Flow(t, n + 1, s, e, m, n + 1, loose, TRUE)
<1>0. n \in Nat /\ n + 1 \in 0..(n + 1)
  BY DEF Flow
<1>1. Later(n + 1, e) /\ n + 1 \notin m
  BY <1>0, NewIsLater DEF Flow
<1>2. Flow(t, n + 1, s, e, m, None, loose, TRUE)
  BY TakenFlow
<1>3. \A i \in 1..Len(s) : s[i].id < n + 1
  BY <1>0 DEF Flow, Polled, None
<1>4. Line(s, e, m, n + 1)
  BY <1>1, <1>3 DEF Line
<1> QED BY <1>0, <1>2, <1>4 DEF Flow

LEMMA OutsideOrder ==
  ASSUME MInv, OInv, Outside, UNCHANGED ed
  PROVE  OInv'
<1>0. /\ UNCHANGED <<kind, raw, host, term, call, port, batch, ed>> /\ work \in [Worker -> Record]
      /\ term \in Terms /\ term.worker \in Worker \cup {None}
      /\ None \notin Worker /\ None \in Nat /\ taken \in Nat /\ typed \in Seq(Strings)
      /\ taken <= Len(typed)
  BY OrderTypes DEF Outside, Type, WorkerNext, ThreadRuns, ReaderTakesLine, WorkerEnds, ReaderFails,
         ClipboardRead, inputVars
<1>1. Stream' = Stream /\ Loose' = Loose /\ (Attached' <=> Attached)
  BY <1>0 DEF Stream, Polling, Loose, Attached
<1>2. Flow(typed, taken, Stream, ed, port.missed, Held, Loose, term.cooked)
  BY DEF OInv
<1>3. CASE Type
  <2>1. PICK g \in Strings : typed' = Append(typed, g)
    BY <1>3 DEF Type, Gestures, Strings
  <2>2. UNCHANGED <<taken, work>>
    BY <1>3 DEF Type
  <2>3. Held' = Held
    BY <1>0, <1>1, <2>2 DEF Held
  <2>4. /\ Flow(typed, taken, Stream, ed, port.missed, Held, Loose, term.cooked)'
        /\ ~ port.closing => Told(typed, taken, Stream, ed, port.missed, Held)'
    BY <1>0, <1>1, <1>2, <2>1, <2>2, <2>3, TypedFlow DEF OInv
  <2>5. Polls'
    <3>1. Waiting' = Waiting + 1 /\ Waiting \in Int
      BY <1>0, <2>1, <2>2 DEF Waiting
    <3> QED BY <1>0, <1>1, <3>1 DEF OInv, Polls, Polling
  <2>6. Ends'
    BY <1>0, <1>1, <2>2, <2>3 DEF OInv, Ends
  <2> QED BY <1>0, <2>4, <2>5, <2>6 DEF OInv
<1>4. ASSUME NEW w \in Worker, ReaderTakesLine(w) PROVE OInv'
  <2>1. /\ work[w].at = "reading" /\ taken' = taken + 1 /\ typed' = typed /\ taken + 1 <= Len(typed)
        /\ work' = [work EXCEPT ![w].at = "done", ![w].holds = taken + 1, ![w].good = TRUE]
    BY <1>0, <1>4 DEF ReaderTakesLine, Waiting
  <2>2. work[w].holds = None /\ term.cooked /\ (term.worker = w \/ port.closing) /\ ~ Polling
    BY <2>1 DEF OInv, Ends, Polling, MInv, Called
  <2>3. /\ work'[w].at = "done" /\ work'[w].holds = taken + 1 /\ taken + 1 # None
        /\ \A x \in Worker : x # w => work'[x] = work[x]
    BY <1>0, <2>1 DEF Record, None
  <2>4. /\ Flow(typed, taken, Stream, ed, port.missed, Held, Loose, term.cooked)'
        /\ ~ port.closing => Told(typed, taken, Stream, ed, port.missed, Held)'
    <3>1. CASE term.worker = w
      <4>1. Held = None /\ Held' = taken + 1 /\ term.cooked = TRUE
        BY <1>0, <2>2, <2>3, <3>1 DEF Held, Attached
      <4>2. Flow(typed, taken + 1, Stream, ed, port.missed, taken + 1, Loose, TRUE)
        BY <1>2, <2>1, <4>1, ReadFlow
      <4>3. ~ port.closing => Told(typed, taken + 1, Stream, ed, port.missed, taken + 1)
        <5>1. \A i \in 1..(taken + 1) : i = taken + 1 \/ (i \in 1..taken /\ i # None)
          BY <1>0 DEF None
        <5> QED BY <4>1, <5>1 DEF OInv, Told
      <4> QED BY <1>0, <1>1, <2>1, <4>1, <4>2, <4>3
    <3>2. CASE term.worker # w
      <4>1. Held' = Held /\ port.closing
        BY <1>0, <2>2, <2>3, <3>2 DEF Held, Attached
      <4>2. Flow(typed, taken + 1, Stream, ed, port.missed, Held, Loose, term.cooked)
        BY <1>2, <2>1, TakenFlow
      <4> QED BY <1>0, <1>1, <2>1, <4>1, <4>2
    <3> QED BY <3>1, <3>2
  <2>5. Polls'
    BY <1>0, <1>1, <2>2 DEF OInv, Polls, Polling
  <2>6. Ends'
    <3>1. Attached /\ ~ term.cooked => Held' # None
      BY <2>2
    <3>2. \A x \in Worker :
            /\ work'[x].at = "reading" => work'[x].holds = None /\ term.cooked /\ (term.worker = x \/ port.closing)
            /\ work'[x].at = "rendering" \/ work'[x].good => work'[x].holds # None
      BY <2>3 DEF OInv, Ends
    <3> QED BY <1>0, <1>1, <3>1, <3>2 DEF OInv, Ends
  <2> QED BY <1>0, <2>4, <2>5, <2>6 DEF OInv
<1>5. ASSUME NEW w \in Worker, WorkerEnds(w) \/ ReaderFails(w) \/ ClipboardRead(w) PROVE OInv'
  <2>1. UNCHANGED <<typed, taken>>
    BY <1>5 DEF WorkerEnds, ReaderFails, ClipboardRead, inputVars
  <2>2. \A x \in Worker :
          /\ x = term.worker => work'[x].holds = work[x].holds
          /\ work'[x].at = "reading" => work[x].at = "reading" /\ work'[x].holds = work[x].holds
          /\ work'[x].at = "rendering" \/ work'[x].good => work'[x].holds # None
    <3>1. \A x \in Worker : x # w => work'[x] = work[x]
      BY <1>0, <1>5 DEF WorkerEnds, ReaderFails, ClipboardRead
    <3>2. \A x \in Worker : work[x].at = "rendering" \/ work[x].good => work[x].holds # None
      BY DEF OInv, Ends
    <3>3. CASE WorkerEnds(w)
      <4>1. work[w].at = "done" /\ work'[w] = Released([work[w] EXCEPT !.at = "gone"]) /\ work[w] \in Record
        BY <1>0, <3>3 DEF WorkerEnds
      <4>2. w = term.worker => work[w].refs = 2
        BY <1>0, <4>1 DEF MInv, IInv, WorkersKeepTheirMemory, Holding
      <4>3. /\ w = term.worker => work'[w].holds = work[w].holds
            /\ work'[w].at \in {"gone", "unused"}
            /\ work'[w].good => work[w].good /\ work'[w].holds = work[w].holds
        BY <4>1, <4>2 DEF Released, Record, Unused
      <4> QED BY <3>1, <3>2, <4>3
    <3>4. CASE ReaderFails(w)
      <4>1. work' = [work EXCEPT ![w].at = "done"] /\ work[w] \in Record
        BY <1>0, <3>4 DEF ReaderFails
      <4>2. work'[w].holds = work[w].holds /\ work'[w].at = "done" /\ work'[w].good = work[w].good
        BY <1>0, <4>1 DEF Record
      <4> QED BY <3>1, <3>2, <4>2
    <3>5. CASE ClipboardRead(w)
      <4>1. PICK good \in BOOLEAN : work' = [work EXCEPT ![w].at = "done", ![w].good = good]
        BY <3>5 DEF ClipboardRead
      <4>2. work'[w].holds = work[w].holds /\ work'[w].at = "done" /\ work[w].at = "rendering"
        BY <1>0, <3>5, <4>1 DEF ClipboardRead, Record
      <4> QED BY <3>1, <3>2, <4>2
    <3> QED BY <1>5, <3>3, <3>4, <3>5
  <2>3. Held' = Held
    BY <1>0, <1>1, <2>2 DEF Held, Attached
  <2>4. Polls'
    BY <1>0, <1>1, <2>1 DEF OInv, Polls, Polling, Waiting
  <2>5. Ends'
    <3>1. \A x \in Worker :
            /\ work'[x].at = "reading" => work'[x].holds = None /\ term.cooked /\ (term.worker = x \/ port.closing)
            /\ work'[x].at = "rendering" \/ work'[x].good => work'[x].holds # None
      BY <2>2 DEF OInv, Ends
    <3> QED BY <1>0, <1>1, <2>3, <3>1 DEF OInv, Ends
  <2>6. /\ Flow(typed, taken, Stream, ed, port.missed, Held, Loose, term.cooked)'
        /\ ~ port.closing => Told(typed, taken, Stream, ed, port.missed, Held)'
    BY <1>0, <1>1, <1>2, <2>1, <2>3 DEF OInv
  <2> QED BY <1>0, <2>4, <2>5, <2>6 DEF OInv
<1> QED BY <1>3, <1>4, <1>5 DEF Outside, WorkerNext, ThreadRuns
(* A step between polls, whatever it makes of the modes of the terminal.          *)
LEMMA CalmOrder ==
  ASSUME MInv, OInv, UNCHANGED <<typed, taken, ed, batch>>, ~ Polling, call'.op # "poll",
         call'.events = <<>>, port'.missed = port.missed, term'.cooked = term.cooked,
         term'.emitted = term.emitted, Held' \in {Held, None}, Held' = Held \/ port'.closing,
         port.closing => port'.closing, Ends'
  PROVE  OInv'
<1>1. ~ Polling' /\ Stream' = Stream /\ Stream = batch
  BY DEF Polling, Stream
<1>2. (Loose => Loose') /\ (Held' = Held \/ Loose')
  BY <1>1 DEF Loose
<1>3. /\ Flow(typed, taken, Stream, ed, port.missed, Held, Loose, term.cooked)'
      /\ ~ port'.closing => Told(typed, taken, Stream, ed, port.missed, Held)'
  BY <1>1, <1>2, CalmFlow
<1>4. Polls'
  BY <1>1 DEF OInv, Polls
<1> QED BY <1>3, <1>4 DEF OInv

\* What a call that ends makes of the terminal.
Restores(u, t) ==
  /\ u.cooked = t.cooked /\ u.emitted = t.emitted /\ u.cancelled = t.cancelled
  /\ u.worker = t.worker /\ u.announced = t.announced

LEMMA RestoredSame ==
  ASSUME NEW t \in Terms, NEW h, NEW o \in Restored(t, h)
  PROVE  Restores(o.term, t) /\ DOMAIN o.term = DOMAIN t
<1> DEFINE u == [t EXCEPT !.restored = TRUE]
           v == [t EXCEPT !.pty = FALSE, !.restored = TRUE]
<1>1. /\ Restores(u, t) /\ DOMAIN u = DOMAIN t /\ Restores(v, t) /\ DOMAIN v = DOMAIN t
      /\ Restores(t, t)
  BY DEF Terms, Restores
<1>2. o.term \in {t, u, v}
  <2>1. CASE t.restored
    BY <2>1 DEF Restored, Done
  <2>2. CASE ~ t.restored /\ kind = "pty"
    BY <2>2 DEF Restored, RestoredOnce, PtyRestored, Done, Failed
  <2>3. CASE ~ t.restored /\ kind \in {"console", "pipe"}
    BY <2>3 DEF Restored, RestoredOnce, ConsoleRestored, Done, Failed
  <2>4. CASE ~ t.restored /\ kind \notin {"pty", "console", "pipe"}
    BY <2>4 DEF Restored, RestoredOnce, PosixRestored, Done, Failed
  <2> QED BY <2>1, <2>2, <2>3, <2>4
<1> HIDE DEF u, v
<1> QED BY <1>1, <1>2

LEMMA DetachedSame ==
  ASSUME NEW t \in Terms
  PROVE  /\ Detached(t).worker = None /\ Detached(t).cooked = t.cooked
         /\ Detached(t).emitted = t.emitted /\ Detached(t).cancelled = t.cancelled
         /\ Detached(t).outcome = t.outcome /\ DOMAIN Detached(t) = DOMAIN t
BY DEF Detached, Terms

(* The calls that end the terminal begin.                                         *)
LEMMA BeginsOrder ==
  ASSUME MInv, OInv, Cancel \/ Restore \/ Close \/ Collect, UNCHANGED ed
  PROVE  OInv'
<1>0. /\ work \in [Worker -> Record] /\ term \in Terms /\ term.worker \in Worker \cup {None}
      /\ DOMAIN port = DOMAIN NewPort
  BY OrderTypes DEF OInv, Ends
<1>1. PICK op \in EndOps \cup {"collect"} :
        /\ Begins(op) /\ Idle
        /\ \/ op # "collect" /\ port.closing
           \/ op = "collect" /\ term.at = "garbage"
        /\ \/ UNCHANGED port
           \/ op = "cancel" /\ port' = [port EXCEPT !.asked = TRUE]
  BY DEF Cancel, Restore, Close, Collect, EndOps
<1>2. /\ port'.missed = port.missed /\ port'.closing = port.closing /\ port'.state = port.state
      /\ DOMAIN port' = DOMAIN port /\ (port'.asked => port.asked \/ op = "cancel")
  BY <1>0, <1>1 DEF NewPort
<1>3. /\ UNCHANGED <<kind, raw, typed, taken, batch>>
      /\ IF term.cooked THEN UNCHANGED <<work, term>> ELSE LetGo /\ term' = Detached(term)
      /\ call'.op = op /\ call'.at = (IF term.cooked THEN "look" ELSE "last") /\ call'.events = <<>>
  BY <1>1 DEF Begins, inputVars, NoCall
<1>4. /\ term'.cooked = term.cooked /\ term'.emitted = term.emitted /\ term'.cancelled = term.cancelled
      /\ ~ term.cooked => term'.worker = None /\ ~ Attached'
  <2>1. CASE term.cooked
    <3>1. term' = term
      BY <1>3, <2>1
    <3>2. term'.cooked = term.cooked /\ term'.emitted = term.emitted /\ term'.cancelled = term.cancelled
      BY <3>1
    <3> QED BY <2>1, <3>2
  <2>2. CASE ~ term.cooked
    <3>1. term' = Detached(term)
      BY <1>3, <2>2
    <3>2. term'.worker = None /\ term'.cooked = term.cooked /\ term'.emitted = term.emitted
          /\ term'.cancelled = term.cancelled
      BY <1>0, <3>1, DetachedSame
    <3> QED BY <3>2 DEF Attached
  <2> QED BY <2>1, <2>2
<1>5. port.closing \/ ~ Attached
  <2>1. CASE op = "collect"
    <3>1. port.state \in {"abandoned", "refused"}
      BY <1>1, <2>1 DEF MInv, Called
    <3> QED BY <3>1 DEF OInv, Ends
  <2> QED BY <1>1, <2>1
<1>6. Held' = Held \/ (Held' = None /\ port'.closing)
  BY <1>2, <1>3, <1>4, <1>5 DEF Held, Attached
<1>7. Ends'
  <2>1. \A w \in Worker :
          /\ work'[w].at = "reading" => work'[w].holds = None /\ term'.cooked /\ (term'.worker = w \/ port'.closing)
          /\ work'[w].at = "rendering" \/ work'[w].good => work'[w].holds # None
    <3>1. CASE term.cooked
      BY <1>2, <1>3, <3>1 DEF OInv, Ends
    <3>2. CASE ~ term.cooked
      BY <1>3, <3>2, LetGoWork DEF OInv, Ends
    <3> QED BY <3>1, <3>2
  <2>2. port'.asked => port'.closing /\ (term'.cooked \/ term'.cancelled \/ (call'.op = "cancel" /\ call'.at = "last"))
    BY <1>1, <1>2, <1>3, <1>4 DEF OInv, Ends, Idle
  <2>3. (call'.op \in EndOps \/ port'.state = "abandoned") => port'.closing
    BY <1>1, <1>2, <1>3 DEF OInv, Ends, EndOps
  <2>4. port'.state = "refused" => ~ Attached'
    BY <1>2, <1>3, <1>4 DEF OInv, Ends, Attached
  <2>5. Attached' /\ ~ term'.cooked => term'.announced /\ Held' # None
    BY <1>4
  <2>6. DOMAIN port' = DOMAIN NewPort /\ port'.closing \in BOOLEAN /\ (term'.cooked /\ port'.state # "refused" => kind' = "console")
    BY <1>0, <1>2, <1>3, <1>4 DEF OInv, Ends
  <2> QED BY <2>1, <2>2, <2>3, <2>4, <2>5, <2>6 DEF Ends
<1>8. ~ Polling /\ call'.op # "poll"
  BY <1>1, <1>3 DEF Polling, Idle, EndOps
<1> QED BY <1>2, <1>3, <1>4, <1>6, <1>7, <1>8, CalmOrder

(* A reader of the console is ended, or left to itself.                           *)
LEMMA CallReaderOrder ==
  ASSUME MInv, OInv, CallLook \/ CallEnter \/ CallReaderStays, UNCHANGED ed
  PROVE  OInv'
<1>0. /\ work \in [Worker -> Record] /\ term \in Terms /\ term.worker \in Worker \cup {None}
      /\ DOMAIN call = {"op", "at", "left", "events"}
  BY OrderTypes DEF MInv, Called
<1>1. call.at \in {"look", "enter", "wait"} /\ UNCHANGED <<kind, taken, batch, port>>
  BY DEF CallLook, CallEnter, CallReaderStays, inputVars
<1>2. /\ ~ Polling /\ call.op \in EndOps \cup {"collect"} /\ call.events = <<>>
      /\ ~ (call.op = "cancel" /\ call.at = "last")
  BY <1>1 DEF MInv, Called, Polling, OInv, Polls
<1>3. port.closing \/ ~ Attached
  <2>1. CASE call.op = "collect"
    <3>1. port.state \in {"abandoned", "refused"}
      BY <2>1 DEF MInv, Called
    <3> QED BY <3>1 DEF OInv, Ends
  <2> QED BY <1>2, <2>1 DEF OInv, Ends
<1>4. /\ call'.op \in EndOps \cup {"collect", "none"} /\ call'.events = <<>>
      /\ call'.op \in EndOps => call.op \in EndOps
  <2>1. \/ \E at : call' = [call EXCEPT !.at = at]
        \/ call.op = "closing" /\ call' = [call EXCEPT !.op = "close", !.at = "look"]
        \/ call' = NoCall
    BY DEF CallLook, CallEnter, CallReaderStays, Goes
  <2>2. CASE \E at : call' = [call EXCEPT !.at = at]
    BY <1>0, <1>2, <2>2
  <2>3. CASE call.op = "closing" /\ call' = [call EXCEPT !.op = "close", !.at = "look"]
    BY <1>0, <1>2, <2>3 DEF EndOps
  <2>4. CASE call' = NoCall
    BY <2>4 DEF NoCall, EndOps
  <2> QED BY <2>1, <2>2, <2>3, <2>4
<1>5. UNCHANGED <<work, term>> \/ (LetGo /\ term' = Detached(term))
  BY DEF CallLook, CallEnter, CallReaderStays
<1>6. /\ term'.cooked = term.cooked /\ term'.emitted = term.emitted /\ term'.cancelled = term.cancelled
      /\ UNCHANGED <<work, term>> \/ (LetGo /\ term'.worker = None /\ ~ Attached')
  BY <1>0, <1>5, DetachedSame DEF Attached
<1>7. Held' = Held \/ (Held' = None /\ port'.closing)
  BY <1>1, <1>3, <1>6 DEF Held, Attached
<1>8. Ends'
  <2>1. \A w \in Worker :
          /\ work'[w].at = "reading" => work'[w].holds = None /\ term'.cooked /\ (term'.worker = w \/ port'.closing)
          /\ work'[w].at = "rendering" \/ work'[w].good => work'[w].holds # None
    <3>1. CASE UNCHANGED <<work, term>>
      BY <1>1, <3>1 DEF OInv, Ends
    <3>2. CASE LetGo
      <4>1. \A w \in Worker : work[w].at = "reading" => term.cooked /\ port.closing
        BY <1>3, OrderTypes DEF OInv, Ends, Attached
      <4> QED BY <1>1, <1>6, <3>2, <4>1, LetGoWork
    <3> QED BY <1>6, <3>1, <3>2
  <2>2. port'.asked => port'.closing /\ (term'.cooked \/ term'.cancelled)
    BY <1>1, <1>2, <1>6 DEF OInv, Ends
  <2>3. (call'.op \in EndOps \/ port'.state = "abandoned") => port'.closing
    BY <1>1, <1>4 DEF OInv, Ends
  <2>4. (port'.state = "refused" => ~ Attached') /\ (Attached' /\ ~ term'.cooked => term'.announced /\ Held' # None)
    BY <1>1, <1>6 DEF OInv, Ends, Attached, Held
  <2>5. DOMAIN port' = DOMAIN NewPort /\ port'.closing \in BOOLEAN /\ (term'.cooked /\ port'.state # "refused" => kind' = "console")
    BY <1>1, <1>6 DEF OInv, Ends
  <2> QED BY <2>1, <2>2, <2>3, <2>4, <2>5 DEF Ends
<1>9. call'.op # "poll"
  BY <1>4 DEF EndOps
<1>10. CASE UNCHANGED typed
  BY <1>1, <1>2, <1>4, <1>6, <1>7, <1>8, <1>9, <1>10, CalmOrder
<1>11. CASE ~ UNCHANGED typed
  <2>1. typed' = Append(typed, "enter") /\ UNCHANGED <<work, term>> /\ "enter" \in Strings
    BY <1>11 DEF CallLook, CallEnter, CallReaderStays, inputVars, Strings
  <2>2. Held' = Held /\ ~ Polling' /\ Stream' = Stream /\ Loose' = Loose
    BY <1>1, <1>2, <1>9, <2>1 DEF Held, Attached, Polling, Stream, Loose
  <2>3. /\ Flow(typed, taken, Stream, ed, port.missed, Held, Loose, term.cooked)'
        /\ ~ port'.closing => Told(typed, taken, Stream, ed, port.missed, Held)'
    BY <1>1, <2>1, <2>2, TypedFlow DEF OInv
  <2>4. Polls'
    BY <1>1, <1>4, <2>1, <2>2 DEF OInv, Polls
  <2> QED BY <1>8, <2>3, <2>4 DEF OInv
<1> QED BY <1>10, <1>11

LEMMA EndsOrder ==
  ASSUME MInv, OInv, CancelEnds \/ RestoreEnds \/ CloseEnds \/ CollectEnds, UNCHANGED ed
  PROVE  OInv'
<1>0. /\ term \in Terms /\ DOMAIN port = DOMAIN NewPort /\ DOMAIN call = {"op", "at", "left", "events"}
  BY OrderTypes DEF MInv, Called, OInv, Ends
<1>1. /\ call.op \in EndOps \cup {"collect"} /\ ~ Polling /\ call.events = <<>>
      /\ UNCHANGED <<kind, typed, taken, work, batch>>
  BY DEF CancelEnds, RestoreEnds, CloseEnds, CollectEnds, workerVars, inputVars, EndOps, Polling,
         OInv, Polls
<1>2. /\ term'.cooked = term.cooked /\ term'.emitted = term.emitted /\ term'.worker = term.worker
      /\ term'.announced = term.announced
      /\ IF CancelEnds THEN term'.cancelled ELSE term'.cancelled = term.cancelled
  <2>1. CASE CancelEnds
    BY <1>0, <2>1 DEF CancelEnds, Terms
  <2>2. CASE ~ CancelEnds
    <3>1. PICK o \in Restored(term, host) : term' = o.term \/ \E at : term' = [o.term EXCEPT !.at = at]
      BY <2>2 DEF RestoreEnds, CloseEnds, CollectEnds, MayCost
    <3>2. Restores(o.term, term) /\ DOMAIN o.term = DOMAIN term
      BY <1>0, RestoredSame
    <3> QED BY <1>0, <2>2, <3>1, <3>2 DEF Restores, Terms
  <2> QED BY <2>1, <2>2
<1>3. /\ port'.missed = port.missed /\ port'.closing = port.closing /\ DOMAIN port' = DOMAIN port
      /\ port'.asked = port.asked /\ port'.state \in {port.state, "closed"}
      /\ port'.state # "refused" => port.state # "refused"
  <2>1. \/ UNCHANGED port
        \/ \E b : port' = [port EXCEPT !.restored = b]
        \/ port' = [port EXCEPT !.cancelled = TRUE]
        \/ port' = [port EXCEPT !.state = "closed"]
        \/ port' = [port EXCEPT !.state = port.state]
    BY DEF CancelEnds, RestoreEnds, CloseEnds, CollectEnds
  <2>2. call.op = "close" => port.state # "refused"
    BY DEF MInv, Called, EndOps
  <2>3. port'.state # "refused" => port.state # "refused"
    <3>1. CASE CloseEnds
      BY <2>2, <3>1 DEF CloseEnds
    <3>2. CASE ~ CloseEnds
      <4>1. \/ UNCHANGED port
            \/ \E b : port' = [port EXCEPT !.restored = b]
            \/ port' = [port EXCEPT !.cancelled = TRUE]
        BY <3>2 DEF CancelEnds, RestoreEnds, CollectEnds
      <4> QED BY <1>0, <4>1 DEF NewPort
    <3> QED BY <3>1, <3>2
  <2> QED BY <1>0, <2>1, <2>3 DEF NewPort
<1>4. /\ call'.op \in {"none", "close"} /\ call'.events = <<>>
      /\ call'.op = "close" => call.op = "closing"
  <2>1. \/ call' = NoCall
        \/ call.op = "closing" /\ call' = [call EXCEPT !.op = "close", !.at = "look"]
    BY DEF CancelEnds, RestoreEnds, CloseEnds, CollectEnds
  <2>2. CASE call' = NoCall
    BY <2>2 DEF NoCall
  <2>3. CASE call.op = "closing" /\ call' = [call EXCEPT !.op = "close", !.at = "look"]
    BY <1>0, <1>1, <2>3
  <2> QED BY <2>1, <2>2, <2>3
<1>5. Held' = Held /\ Attached' = Attached
  BY <1>1, <1>2 DEF Held, Attached
<1>6. port.asked => port.closing /\ (term'.cooked \/ term'.cancelled)
  <2>1. call.op = "cancel" => CancelEnds
    BY DEF RestoreEnds, CloseEnds, CollectEnds
  <2> QED BY <1>2, <2>1 DEF OInv, Ends
<1>7. Ends'
  <2>1. \A w \in Worker :
          /\ work'[w].at = "reading" => work'[w].holds = None /\ term'.cooked /\ (term'.worker = w \/ port'.closing)
          /\ work'[w].at = "rendering" \/ work'[w].good => work'[w].holds # None
    BY <1>1, <1>2, <1>3 DEF OInv, Ends
  <2>2. (call'.op \in EndOps \/ port'.state = "abandoned") => port'.closing
    BY <1>3, <1>4 DEF OInv, Ends, EndOps
  <2>3. (port'.state = "refused" => ~ Attached') /\ (Attached' /\ ~ term'.cooked => term'.announced /\ Held' # None)
    BY <1>2, <1>3, <1>5 DEF OInv, Ends
  <2>4. DOMAIN port' = DOMAIN NewPort /\ port'.closing \in BOOLEAN /\ (term'.cooked /\ port'.state # "refused" => kind' = "console")
    BY <1>1, <1>2, <1>3 DEF OInv, Ends
  <2> QED BY <1>3, <1>6, <2>1, <2>2, <2>3, <2>4 DEF Ends
<1>8. call'.op # "poll"
  BY <1>4
<1> QED BY <1>1, <1>2, <1>3, <1>4, <1>5, <1>7, <1>8, CalmOrder
LEMMA BetweenOrder ==
  ASSUME MInv, OInv, Quit \/ Join \/ Abandon \/ ClipboardLate, UNCHANGED ed
  PROVE  OInv'
<1>0. /\ term \in Terms /\ DOMAIN port = DOMAIN NewPort
  BY OrderTypes DEF OInv, Ends
<1>1. UNCHANGED <<kind, typed, taken, work, call, batch>>
  BY DEF Quit, Join, Abandon, ClipboardLate, workerVars, inputVars
<1>2. /\ term'.cooked = term.cooked /\ term'.emitted = term.emitted /\ term'.worker = term.worker
      /\ term'.announced = term.announced /\ term'.cancelled = term.cancelled
  BY <1>0 DEF Quit, Join, Abandon, ClipboardLate, Terms
<1>3. /\ port'.missed = port.missed /\ (port.closing => port'.closing) /\ DOMAIN port' = DOMAIN port
      /\ port'.asked = port.asked /\ port'.closing \in BOOLEAN
      /\ \/ port'.state = port.state
         \/ /\ Idle /\ port.closing /\ port.state # "refused"
            /\ port'.state \in {"joined", "abandoned"}
  <2>1. port.closing \in BOOLEAN
    BY OrderTypes
  <2> QED BY <1>0, <2>1 DEF Quit, Join, Abandon, ClipboardLate, NewPort
<1>4. /\ Held' = Held /\ Stream' = Stream /\ (Attached' <=> Attached) /\ (Polling' <=> Polling)
      /\ (Loose => Loose')
  BY <1>1, <1>2, <1>3 DEF Held, Attached, Stream, Polling, Loose
<1>5. /\ Flow(typed, taken, Stream, ed, port.missed, Held, Loose, term.cooked)'
      /\ ~ port'.closing => Told(typed, taken, Stream, ed, port.missed, Held)'
  BY <1>1, <1>2, <1>3, <1>4, CalmFlow
<1>6. Polls'
  <2>1. Waiting' = Waiting
    BY <1>1 DEF Waiting
  <2>2. Polling => port'.state = "started"
    BY <1>3 DEF OInv, Polls, Polling, Idle
  <2> QED BY <1>1, <1>2, <1>3, <1>4, <2>1, <2>2 DEF OInv, Polls
<1>7. Ends'
  <2>1. \A w \in Worker :
          /\ work'[w].at = "reading" => work'[w].holds = None /\ term'.cooked /\ (term'.worker = w \/ port'.closing)
          /\ work'[w].at = "rendering" \/ work'[w].good => work'[w].holds # None
    BY <1>1, <1>2, <1>3 DEF OInv, Ends
  <2>2. (call'.op \in EndOps \/ port'.state = "abandoned") => port'.closing
    BY <1>1, <1>3 DEF OInv, Ends
  <2>3. (port'.state = "refused" => ~ Attached') /\ (Attached' /\ ~ term'.cooked => term'.announced /\ Held' # None)
    BY <1>2, <1>3, <1>4 DEF OInv, Ends
  <2>4. DOMAIN port' = DOMAIN NewPort /\ port'.closing \in BOOLEAN /\ (term'.cooked /\ port'.state # "refused" => kind' = "console")
    BY <1>1, <1>2, <1>3 DEF OInv, Ends
  <2>5. port'.asked => port'.closing /\ (term'.cooked \/ term'.cancelled \/ (call'.op = "cancel" /\ call'.at = "last"))
    BY <1>1, <1>2, <1>3 DEF OInv, Ends
  <2> QED BY <2>1, <2>2, <2>3, <2>4, <2>5 DEF Ends
<1> QED BY <1>5, <1>6, <1>7 DEF OInv

(* A start that succeeds sets a cooked mode on a console only.                    *)
LEMMA StartedCooked ==
  ASSUME kind \in Kinds, raw \in BOOLEAN, NEW o \in Started, o.ok, o.term.cooked
  PROVE  kind = "console"
<1> SUFFICES ASSUME kind # "console" PROVE FALSE
  OBVIOUS
<1>0. /\ ~ Opened.cooked /\ "cooked" \in DOMAIN Opened /\ "worker" \in DOMAIN Opened
  BY DEF Opened, NoTerminal
<1>1. CASE kind = "tty"
  <2> DEFINE t == [Opened EXCEPT !.modeKept = TRUE, !.flagsKept = TRUE]
             h == IF raw THEN [host EXCEPT !.mode = "ours"] ELSE host
  <2>1. ~ t.cooked
    BY <1>0
  <2>2. \/ o = Done(t, [h EXCEPT !.nonblock = TRUE], 0)
        \/ o \in Refused(1)
        \/ o \in RolledBack(t, h)
    BY <1>1 DEF Started, StartTty
  <2> HIDE DEF t, h
  <2>3. CASE o = Done(t, [h EXCEPT !.nonblock = TRUE], 0)
    BY <2>1, <2>3 DEF Done
  <2>4. CASE o \in Refused(1)
    BY <2>4 DEF Refused, Failed
  <2>5. CASE o \in RolledBack(t, h)
    <3>1. PICK r \in Restored(t, h) : o = [r EXCEPT !.ok = FALSE, !.cost = @ + 1]
      BY <2>5 DEF RolledBack
    <3>2. DOMAIN r = {"ok", "term", "host", "cost"}
      BY <3>1 DEF Restored, RestoredOnce, PtyRestored, ConsoleRestored, PosixRestored, Done, Failed
    <3> QED BY <3>1, <3>2
  <2> QED BY <2>2, <2>3, <2>4, <2>5
<1>2. CASE kind = "stream"
  <2> DEFINE t == [Opened EXCEPT !.flagsKept = TRUE]
             h == [host EXCEPT !.nonblock = TRUE]
  <2>1. ~ t.cooked
    BY <1>0
  <2>2. o \in Refused(0) \/ o = Done(t, h, 0) \/ o \in Refused(1)
    BY <1>2 DEF Started, StartStream
  <2> HIDE DEF t, h
  <2> QED BY <2>1, <2>2 DEF Refused, Done, Failed
<1>3. CASE kind = "pipe"
  <2>1. o \in Refused(0) \/ o = Done(Opened, host, 0)
    BY <1>3 DEF Started, StartPipe
  <2> QED BY <1>0, <2>1 DEF Refused, Done, Failed
<1>4. CASE kind = "pty"
  <2> DEFINE t == [Opened EXCEPT !.pty = TRUE]
  <2>1. ~ t.cooked /\ "worker" \in DOMAIN t
    BY <1>0
  <2>0. o \in StartPty
    BY <1>4 DEF Started
  <2>2. \/ o \in Refused(1)
        \/ \E h : o = Done(t, h, 0)
        \/ \E h : \E r \in PtyRestored(t, h) :
              o = [r EXCEPT !.ok = FALSE, !.cost = @ + 1, !.term.restored = FALSE]
    <3> DEFINE Back(h) == {[r EXCEPT !.ok = FALSE, !.cost = @ + 1, !.term.restored = FALSE] : r \in PtyRestored(t, h)}
               Then(s) == IF s.ok THEN {Done(t, s.host, 0)} ELSE Back(s.host)
    <3>1. o \in Refused(1) \cup UNION {Then(s) : s \in Stty(host, [host EXCEPT !.mode = "ours"])}
      BY <2>0, Zenon DEF StartPty, NoStty
    <3> HIDE DEF t, Then
    <3>2. CASE o \notin Refused(1)
      <4>1. PICK s : o \in Then(s)
        BY <3>1, <3>2
      <4>2. CASE s.ok
        BY <4>1, <4>2 DEF Then
      <4>3. CASE ~ s.ok
        <5>1. o \in Back(s.host)
          BY <4>1, <4>3 DEF Then
        <5> QED BY <5>1
      <4> QED BY <4>2, <4>3
    <3> QED BY <3>2
  <2> HIDE DEF t
  <2>3. CASE o \in Refused(1)
    BY <2>3 DEF Refused, Failed
  <2>4. CASE \E h : o = Done(t, h, 0)
    BY <2>1, <2>4 DEF Done
  <2>5. CASE \E h : \E r \in PtyRestored(t, h) :
               o = [r EXCEPT !.ok = FALSE, !.cost = @ + 1, !.term.restored = FALSE]
    <3>0. PICK h : \E r \in PtyRestored(t, h) :
            o = [r EXCEPT !.ok = FALSE, !.cost = @ + 1, !.term.restored = FALSE]
      BY <2>5
    <3>1. PICK r \in PtyRestored(t, h) :
            o = [r EXCEPT !.ok = FALSE, !.cost = @ + 1, !.term.restored = FALSE]
      BY <3>0
    <3>2. Keeps(r, t)
      BY <2>1, PtyRestoredKeeps
    <3> QED BY <3>1, <3>2 DEF Keeps
  <2> QED BY <2>2, <2>3, <2>4, <2>5
<1> QED BY <1>1, <1>2, <1>3, <1>4 DEF Kinds
(* The port starts with nothing typed that it has taken.                          *)
LEMMA StartOrder ==
  ASSUME MInv, OInv, raw \in BOOLEAN, Start \/ StartRefused, UNCHANGED ed
  PROVE  OInv'
<1>0. /\ work \in [Worker -> Record] /\ DOMAIN port = DOMAIN NewPort /\ kind \in Kinds
      /\ None \notin Worker /\ port.closing \in BOOLEAN
  BY OrderTypes DEF OInv, Ends, MInv, IInv
<1>1. /\ port.state = "created" /\ term = NoTerminal /\ call = NoCall /\ batch = <<>> /\ ed = NewEditor
      /\ UNCHANGED <<kind, typed, taken, call, batch>>
  BY DEF Start, StartRefused, GiveUpStart, inputVars, MInv, IInv, Called
<1>2. /\ ~ term.cooked /\ ~ term.cancelled /\ ~ Attached /\ ~ Polling /\ call.op = "none"
      /\ call.events = <<>> /\ ~ ed.ended /\ Held = None /\ Stream = batch /\ term.cooked = FALSE
  BY <1>1 DEF NoTerminal, NoCall, NewEditor, Attached, Polling, Held, Stream
<1>3. ~ port.asked /\ \A w \in Worker : work[w].at # "reading"
  BY <1>2 DEF OInv, Ends
<1>4. /\ port' \in {[port EXCEPT !.state = "started"], [port EXCEPT !.state = "refused"]}
      /\ StartRefused <=> port' = [port EXCEPT !.state = "refused"]
  BY <1>0 DEF Start, StartRefused, GiveUpStart, NewPort
<1>5. /\ port'.missed = port.missed /\ port'.closing = port.closing /\ DOMAIN port' = DOMAIN port
      /\ port'.asked = port.asked /\ port'.state \in {"started", "refused"}
  BY <1>0, <1>4 DEF NewPort
<1>6. Kept(NoTerminal, host)
  BY <1>1 DEF MInv
<1>7. \A o \in Started : o.term \in Terms /\ o.term.worker = None /\ Kept(o.term, o.host)
  BY <1>0, <1>6, StartedSets DEF Sets, Opened, NoTerminal
<1>8. /\ term' \in Terms
      /\ \/ UNCHANGED work /\ term'.worker = None
         \/ /\ term'.cooked /\ Fresh \in Worker /\ work' = [work EXCEPT ![Fresh] = Born("reading", None)]
            /\ term'.worker = Fresh
      /\ term'.cooked /\ port'.state # "refused" => kind = "console"
      /\ port'.state = "refused" => term'.worker = None
  <2>1. CASE Start
    <3>1. PICK o \in Started :
            o.ok /\ IF o.term.cooked THEN StartReader(o.term) ELSE term' = o.term /\ UNCHANGED work
      BY <2>1 DEF Start, MayCost
    <3>2. o.term \in Terms /\ o.term.worker = None /\ (o.term.cooked => kind = "console")
      BY <1>0, <1>7, <3>1, StartedCooked
    <3>3. port'.state = "started"
      BY <1>0, <2>1 DEF Start, NewPort
    <3>4. CASE o.term.cooked
      <4>1. /\ Fresh \in Worker /\ work' = [work EXCEPT ![Fresh] = Born("reading", None)]
            /\ term' = [o.term EXCEPT !.worker = Fresh]
        BY <3>1, <3>4, FreshIsUnused DEF StartReader
      <4>2. term' \in Terms /\ term'.worker = Fresh /\ term'.cooked
        BY <3>2, <3>4, <4>1 DEF Terms
      <4> QED BY <3>2, <3>3, <3>4, <4>1, <4>2
    <3>5. CASE ~ o.term.cooked
      BY <3>1, <3>2, <3>3, <3>5
    <3> QED BY <3>4, <3>5
  <2>2. CASE StartRefused
    <3>1. PICK o : GiveUpStart(o) /\ o.term \in Terms /\ o.term.worker = None
      <4>1. CASE \E o \in MayCost({x \in Started : ~ x.ok}) : GiveUpStart(o)
        BY <1>7, <4>1 DEF MayCost
      <4>2. CASE \E s \in {x \in Started : x.ok /\ x.term.cooked} :
                   \E o \in MayCost(RolledBack(s.term, s.host)) : GiveUpStart(o)
        <5>1. PICK s \in Started : \E o \in RolledBack(s.term, s.host) : GiveUpStart(o)
          BY <4>2 DEF MayCost
        <5>2. PICK o \in RolledBack(s.term, s.host) : GiveUpStart(o)
          BY <5>1
        <5>3. Sets(o, s.term)
          BY <1>0, <1>7, RolledBackSets
        <5> QED BY <1>7, <5>2, <5>3 DEF Sets
      <4> QED BY <2>2, <4>1, <4>2 DEF StartRefused
    <3>2. /\ term' \in Terms /\ term'.worker = None /\ UNCHANGED work /\ port'.state = "refused"
      BY <1>0, <3>1 DEF GiveUpStart, Terms, NewPort
    <3> QED BY <3>2
  <2> QED BY <2>1, <2>2
<1>9. Held' = None /\ (Attached' => term'.cooked)
  BY <1>0, <1>8 DEF Held, Attached, Born
<1>10. Loose' = Loose /\ Stream' = Stream /\ ~ Polling'
  BY <1>1, <1>2, <1>5 DEF Loose, Polling, Stream
<1>11. Flow(typed, taken, Stream, ed, port.missed, None, Loose, term'.cooked)
  <2>1. Flow(typed, taken, Stream, ed, port.missed, None, Loose, FALSE)
    BY <1>2 DEF OInv
  <2> QED BY <2>1 DEF Flow, Line
<1>12. ~ port.closing => Told(typed, taken, Stream, ed, port.missed, None)
  BY <1>2 DEF OInv
<1>13. Polls'
  BY <1>1, <1>2, <1>10 DEF Polls
<1>14. Ends'
  <2>1. \A w \in Worker :
          /\ work'[w].at = "reading" => work'[w].holds = None /\ term'.cooked /\ (term'.worker = w \/ port'.closing)
          /\ work'[w].at = "rendering" \/ work'[w].good => work'[w].holds # None
    <3>1. CASE UNCHANGED work
      BY <1>3, <3>1 DEF OInv, Ends
    <3>2. CASE ~ UNCHANGED work
      <4>1. \A w \in Worker : work'[w] = IF w = Fresh THEN Born("reading", None) ELSE work[w]
        BY <1>0, <1>8, <3>2
      <4> QED BY <1>3, <1>8, <3>2, <4>1 DEF OInv, Ends, Born
    <3> QED BY <3>1, <3>2
  <2>2. call'.op \notin EndOps /\ port'.state # "abandoned"
    BY <1>1, <1>2, <1>5 DEF EndOps
  <2>3. port'.state = "refused" => ~ Attached'
    BY <1>8 DEF Attached
  <2> QED BY <1>0, <1>1, <1>3, <1>5, <1>8, <1>9, <2>1, <2>2, <2>3 DEF Ends
<1>15. /\ Flow(typed, taken, Stream, ed, port.missed, Held, Loose, term.cooked)'
       /\ ~ port'.closing => Told(typed, taken, Stream, ed, port.missed, Held)'
  BY <1>1, <1>5, <1>9, <1>10, <1>11, <1>12
<1> QED BY <1>13, <1>14, <1>15 DEF OInv
-------------------------------------------------------------------------------
(* The polls.                                                                    *)

LEMMA HandsSays ==
  ASSUME DOMAIN port = DOMAIN NewPort, NEW s, Hands(s)
  PROVE  /\ batch' = s /\ port'.missed = port.missed \cup Rejected(s)
         /\ port'.closing = port.closing /\ port'.asked = port.asked /\ port'.state = port.state
         /\ DOMAIN port' = DOMAIN port
<1>1. batch' = s /\ port' = [port EXCEPT !.missed = @ \cup Rejected(s)]
  BY DEF Hands, Rejected
<1> QED BY <1>1 DEF NewPort

LEMMA RaisesSays ==
  ASSUME DOMAIN port = DOMAIN NewPort, Raises
  PROVE  /\ batch' = batch /\ port'.missed = port.missed /\ port'.closing = TRUE
         /\ port'.asked = port.asked /\ port'.state = port.state /\ DOMAIN port' = DOMAIN port
BY DEF Raises, NewPort

(* A poll ends nothing.                                                           *)
LEMMA PollEnds ==
  ASSUME MInv, OInv, UNCHANGED kind, DOMAIN port' = DOMAIN port, port'.asked = port.asked,
         port.state = "started", port'.state = "started", port.closing => port'.closing,
         port'.closing \in BOOLEAN, term'.cooked = term.cooked, term'.cancelled = term.cancelled,
         call.op \in {"none", "poll"}, call'.op \in {"none", "poll"},
         Attached' /\ ~ term.cooked => term'.announced /\ Held' # None,
         \A w \in Worker :
           /\ work'[w].at = "reading" =>
                work'[w].holds = None /\ term.cooked /\ (term'.worker = w \/ port'.closing)
           /\ work'[w].at = "rendering" \/ work'[w].good => work'[w].holds # None
  PROVE  Ends'
<1>1. port'.asked => port'.closing /\ (term'.cooked \/ term'.cancelled)
  BY DEF OInv, Ends
<1>2. call'.op \notin EndOps
  BY DEF EndOps
<1> QED BY <1>1, <1>2 DEF OInv, Ends

(* Nobody who has decided that the port is to end reads what is typed raw.        *)
LEMMA ReadsOpen ==
  ASSUME MInv, OInv, PollReads
  PROVE  /\ port.state = "started" /\ Idle /\ call.op = "none" /\ batch = <<>> /\ Stream = <<>>
         /\ ~ Polling /\ ~ ed.ended /\ ~ term.emitted
         /\ ~ term.cooked => ~ port.closing /\ Loose = FALSE
<1>1. /\ port.state = "started" /\ Idle /\ call.op = "none" /\ batch = <<>> /\ ~ Polling
      /\ ~ term.emitted /\ ~ term.cancelled /\ (port.closing => port.asked)
  BY DEF PollReads, MayPoll, Idle, Polling
<1>2. ~ ed.ended /\ Stream = <<>>
  BY <1>1 DEF OInv, Polls, Stream
<1>3. ~ term.cooked => ~ port.closing
  BY <1>1 DEF OInv, Ends
<1> QED BY <1>1, <1>2, <1>3 DEF Loose

(* Events are handed over by a poll that has no steps.                            *)
LEMMA HandsOrder ==
  ASSUME MInv, OInv, UNCHANGED <<call, ed>>, ~ Polling, NEW s, Hands(s),
         Flow(typed', taken', s, ed, port.missed, Held', Loose, term.cooked),
         ~ port.closing => Told(typed', taken', s, ed, port.missed, Held'),
         term'.cooked = term.cooked, term.emitted => term'.emitted,
         \A i \in 1..Len(s) : s[i].kind = "terminal" => term'.emitted, Ends'
  PROVE  OInv'
<1>1. /\ batch' = s /\ port'.missed = port.missed \cup Rejected(s) /\ port'.closing = port.closing
  BY HandsSays DEF OInv, Ends
<1>2. ~ Polling' /\ Stream' = s /\ Loose' = Loose /\ call.events = <<>>
  BY <1>1 DEF Polling, Stream, Loose, OInv, Polls
<1>3. Flow(typed', taken', s, ed, port'.missed, Held', Loose, term.cooked)
  BY <1>1, HandedFlow
<1>4. ~ port.closing => Told(typed', taken', s, ed, port'.missed, Held')
  BY <1>1 DEF Told
<1>5. \A i \in 1..Len(s) : s[i].kind = "paste-rejected" => s[i].id \in port'.missed
  <2> SUFFICES ASSUME NEW i \in 1..Len(s), s[i].kind = "paste-rejected" PROVE s[i].id \in Rejected(s)
    BY <1>1
  <2>1. s[i].id # None
    BY DEF Flow, Polled, None
  <2> QED BY <2>1 DEF Rejected, Ids
<1>6. Polls'
  BY <1>1, <1>2, <1>5 DEF OInv, Polls
<1>7. /\ Flow(typed, taken, Stream, ed, port.missed, Held, Loose, term.cooked)'
      /\ ~ port'.closing => Told(typed, taken, Stream, ed, port.missed, Held)'
  BY <1>1, <1>2, <1>3, <1>4
<1> QED BY <1>6, <1>7 DEF OInv

(* The end of the input is told, or the telling fails.                            *)
LEMMA TellsOrder ==
  ASSUME MInv, OInv, MayPoll, ~ term.emitted, NEW outcome, Tells(outcome),
         UNCHANGED <<kind, typed, taken, work, call, ed>>
  PROVE  OInv'
<1>0. /\ term \in Terms /\ DOMAIN port = DOMAIN NewPort /\ port.closing \in BOOLEAN
      /\ port.state = "started" /\ call.op = "none" /\ ~ Polling /\ batch = <<>> /\ call.events = <<>>
  BY OrderTypes DEF OInv, Ends, MayPoll, Idle, Polling, Polls
<1>1. Stream = <<>> /\ ~ ed.ended
  BY <1>0 DEF Stream, OInv, Polls
<1>2. /\ term'.cooked = term.cooked /\ term'.cancelled = term.cancelled /\ term'.worker = term.worker
      /\ term'.announced = term.announced /\ term'.emitted \in {TRUE, term.emitted}
  BY <1>0 DEF Tells, Terms
<1>3. Held' = Held /\ (Attached' <=> Attached)
  BY <1>2 DEF Held, Attached
<1>4. \A w \in Worker :
        /\ work'[w].at = "reading" =>
             work'[w].holds = None /\ term.cooked /\ (term'.worker = w \/ port.closing)
        /\ work'[w].at = "rendering" \/ work'[w].good => work'[w].holds # None
  BY <1>2 DEF OInv, Ends
<1>5. Attached' /\ ~ term.cooked => term'.announced /\ Held' # None
  BY <1>2, <1>3 DEF OInv, Ends
<1>6. CASE Hands(<<Event("terminal", None)>>) /\ term'.emitted
  <2> DEFINE s == <<Event("terminal", None)>>
  <2>1. /\ port'.closing = port.closing /\ port'.asked = port.asked /\ port'.state = port.state
        /\ DOMAIN port' = DOMAIN port
    BY <1>0, <1>6, HandsSays
  <2>2. Ends'
    BY <1>0, <1>2, <1>4, <1>5, <2>1, PollEnds
  <2>3. Flow(typed, taken, s, ed, port.missed, Held, Loose, term.cooked)
    BY <1>1, EndFlow DEF OInv
  <2>4. ~ port.closing => Told(typed, taken, s, ed, port.missed, Held)
    <3>1. Ids(<<>>) \subseteq Ids(s)
      BY NoIds
    <3> QED BY <1>1, <3>1 DEF OInv, Told
  <2> HIDE DEF s
  <2>5. Hands(s)
    BY <1>6 DEF s
  <2> QED BY <1>0, <1>2, <1>3, <1>6, <2>2, <2>3, <2>4, <2>5, HandsOrder
<1>7. CASE Raises /\ term'.emitted = term.emitted
  <2>1. /\ batch' = batch /\ port'.missed = port.missed /\ port'.closing = TRUE
        /\ port'.asked = port.asked /\ port'.state = port.state /\ DOMAIN port' = DOMAIN port
    BY <1>0, <1>7, RaisesSays
  <2>2. Ends'
    BY <1>0, <1>2, <1>4, <1>5, <2>1, PollEnds
  <2> QED BY <1>0, <1>2, <1>3, <1>7, <2>1, <2>2, CalmOrder
<1>8. (Hands(<<Event("terminal", None)>>) /\ term'.emitted) \/ (Raises /\ term'.emitted = term.emitted)
  BY <1>0 DEF Tells, Terms
<1> QED BY <1>6, <1>7, <1>8

LEMMA PollTellsOrder ==
  ASSUME MInv, OInv, PollTells, UNCHANGED ed
  PROVE  OInv'
BY TellsOrder DEF PollTells, inputVars

LEMMA PollStartsReaderOrder ==
  ASSUME MInv, OInv, PollStartsReader, UNCHANGED ed
  PROVE  OInv'
<1>0. /\ term \in Terms /\ DOMAIN port = DOMAIN NewPort /\ port.closing \in BOOLEAN
      /\ port.state = "started" /\ call.op = "none" /\ ~ Polling /\ batch = <<>> /\ call.events = <<>>
      /\ term.cooked /\ ~ Attached /\ Held = None /\ work \in [Worker -> Record] /\ None \notin Worker
      /\ UNCHANGED <<kind, typed, taken, call>>
  BY OrderTypes, ReadsOpen DEF OInv, Ends, Polls, PollStartsReader, inputVars, Held
<1>1. \A w \in Worker : work[w].at = "reading" => port.closing
  BY <1>0 DEF OInv, Ends, Attached
<1>2. CASE StartReader(term) /\ UNCHANGED <<port, batch>>
  <2>1. /\ Fresh \in Worker /\ work' = [work EXCEPT ![Fresh] = Born("reading", None)]
        /\ term' = [term EXCEPT !.worker = Fresh]
    BY <1>2, FreshIsUnused DEF StartReader
  <2>2. /\ term'.cooked = term.cooked /\ term'.cancelled = term.cancelled /\ term'.worker = Fresh
        /\ term'.emitted = term.emitted
    BY <1>0, <2>1 DEF Terms
  <2>3. \A w \in Worker : work'[w] = IF w = Fresh THEN Born("reading", None) ELSE work[w]
    BY <1>0, <2>1
  <2>4. Held' = None
    BY <1>0, <2>1, <2>2, <2>3 DEF Held, Attached, Born
  <2>5. \A w \in Worker :
          /\ work'[w].at = "reading" =>
               work'[w].holds = None /\ term.cooked /\ (term'.worker = w \/ port'.closing)
          /\ work'[w].at = "rendering" \/ work'[w].good => work'[w].holds # None
    BY <1>0, <1>1, <1>2, <2>2, <2>3 DEF OInv, Ends, Born
  <2>6. Ends'
    BY <1>0, <1>2, <2>2, <2>5, PollEnds
  <2> QED BY <1>0, <1>2, <2>2, <2>4, <2>6, CalmOrder
<1>3. CASE Raises /\ UNCHANGED <<work, term>>
  <2>1. /\ batch' = batch /\ port'.missed = port.missed /\ port'.closing = TRUE
        /\ port'.asked = port.asked /\ port'.state = port.state /\ DOMAIN port' = DOMAIN port
    BY <1>0, <1>3, RaisesSays
  <2>2. Held' = Held
    BY <1>3 DEF Held, Attached
  <2>3. \A w \in Worker :
          /\ work'[w].at = "reading" =>
               work'[w].holds = None /\ term.cooked /\ (term'.worker = w \/ port'.closing)
          /\ work'[w].at = "rendering" \/ work'[w].good => work'[w].holds # None
    BY <1>0, <1>3, <2>1 DEF OInv, Ends
  <2>4. Ends'
    BY <1>0, <1>3, <2>1, <2>3, PollEnds
  <2> QED BY <1>0, <1>3, <2>1, <2>2, <2>4, CalmOrder
<1> QED BY <1>2, <1>3 DEF PollStartsReader
(* The line a reader of the console has taken, the end of the input, or neither.   *)
LEMMA PollCookedOrder ==
  ASSUME MInv, OInv, PollCooked, UNCHANGED ed
  PROVE  OInv'
<1> DEFINE read == work[term.worker]
           line == IF read.good THEN typed[read.holds] ELSE "error"
<1>0. /\ term \in Terms /\ DOMAIN port = DOMAIN NewPort /\ port.closing \in BOOLEAN
      /\ port.state = "started" /\ call.op = "none" /\ ~ Polling /\ batch = <<>> /\ call.events = <<>>
      /\ Stream = <<>> /\ ~ ed.ended /\ ~ term.emitted
      /\ term.cooked = TRUE /\ Attached /\ term.worker \in Worker /\ read.at = "gone" /\ Held = read.holds
      /\ UNCHANGED <<kind, typed, taken, call>>
  BY OrderTypes, ReadsOpen DEF OInv, Ends, Polls, PollCooked, inputVars, Held, Attached
<1>1. Flow(typed, taken, <<>>, ed, port.missed, Held, Loose, TRUE)
  BY <1>0 DEF OInv
<1>2. ~ port.closing => Told(typed, taken, <<>>, ed, port.missed, Held)
  BY <1>0 DEF OInv
<1>3. \A w \in Worker : work[w].at = "reading" => port.closing
  BY <1>0 DEF OInv, Ends
<1>4. read.good => Held # None /\ line = typed[Held]
  BY <1>0 DEF OInv, Ends
<1>5. Held \in 0..taken
  BY <1>1 DEF Flow
<1>6. ASSUME LetGo, term'.worker = None
      PROVE  /\ Held' = None /\ ~ Attached'
             /\ \A w \in Worker :
                  /\ work'[w].at = "reading" => work'[w].holds = None /\ port.closing
                  /\ work'[w].at = "rendering" \/ work'[w].good => work'[w].holds # None
  BY <1>3, <1>6, LetGoWork DEF Held, Attached
<1>7. /\ Detached(term).worker = None /\ Detached(term).cooked = term.cooked
      /\ Detached(term).emitted = term.emitted /\ Detached(term).cancelled = term.cancelled
      /\ DOMAIN Detached(term) = DOMAIN term
  BY <1>0, DetachedSame
<1> HIDE DEF read
<1>8. CASE line \in {"text", "enter"} /\ Hands(<<Event("text", Held)>>) /\ LetGo /\ term' = Detached(term)
  <2>1. Held # None /\ term'.worker = None /\ term'.cooked = term.cooked /\ term'.emitted = term.emitted
        /\ term'.cancelled = term.cancelled
    BY <1>4, <1>7, <1>8
  <2>2. /\ port'.closing = port.closing /\ port'.asked = port.asked /\ port'.state = port.state
        /\ DOMAIN port' = DOMAIN port
    BY <1>0, <1>8, HandsSays
  <2>3. Ends'
    BY <1>0, <1>6, <1>8, <2>1, <2>2, PollEnds
  <2> DEFINE s == <<Event("text", Held)>>
  <2>4. Flow(typed, taken, s, ed, port.missed, None, Loose, TRUE)
    BY <1>0, <1>1, <2>1, LineFlow
  <2>5. Len(s) = 1 /\ s[1].id = Held /\ s[1].kind = "text"
    BY DEF Event
  <2> HIDE DEF s
  <2>6. ~ port.closing => Told(typed, taken, s, ed, port.missed, None)
    <3>1. Held \in Ids(s)
      BY <2>1, <2>5 DEF Ids
    <3> QED BY <1>2, <3>1, NoIds DEF Told
  <2>7. \A i \in 1..Len(s) : s[i].kind # "terminal"
    BY <2>5
  <2>8. Hands(s) /\ Held' = None
    BY <1>6, <1>8, <2>1 DEF s
  <2> QED BY <1>0, <2>1, <2>3, <2>4, <2>6, <2>7, <2>8, HandsOrder
<1>9. CASE Raises /\ LetGo /\ term' = Detached(term)
  <2>1. term'.worker = None /\ term'.cooked = term.cooked /\ term'.emitted = term.emitted
        /\ term'.cancelled = term.cancelled
    BY <1>7, <1>9
  <2>2. /\ batch' = batch /\ port'.missed = port.missed /\ port'.closing = TRUE
        /\ port'.asked = port.asked /\ port'.state = port.state /\ DOMAIN port' = DOMAIN port
    BY <1>0, <1>9, RaisesSays
  <2>3. Ends'
    BY <1>0, <1>6, <1>9, <2>1, <2>2, PollEnds
  <2> QED BY <1>0, <1>6, <1>9, <2>1, <2>2, <2>3, CalmOrder
<1>10. CASE /\ line = "end" /\ Hands(<<Event("terminal", None)>>) /\ LetGo
            /\ term' = [Detached(term) EXCEPT !.outcome = "completed", !.emitted = TRUE]
  <2>1. term'.worker = None /\ term'.cooked = term.cooked /\ term'.emitted = TRUE
        /\ term'.cancelled = term.cancelled
    <3>1. {"worker", "cooked", "emitted", "cancelled"} \subseteq DOMAIN Detached(term)
      BY <1>0, <1>7 DEF Terms
    <3> HIDE DEF Detached
    <3> QED BY <1>7, <1>10, <3>1
  <2>2. /\ port'.closing = port.closing /\ port'.asked = port.asked /\ port'.state = port.state
        /\ DOMAIN port' = DOMAIN port
    BY <1>0, <1>10, HandsSays
  <2>3. Ends'
    BY <1>0, <1>6, <1>10, <2>1, <2>2, PollEnds
  <2> DEFINE s == <<Event("terminal", None)>>
  <2>4. Flow(typed, taken, s, ed, port.missed, None, Loose, TRUE)
    BY <1>0, <1>1, EndFlow
  <2> HIDE DEF s
  <2>5. ~ port.closing => Told(typed, taken, s, ed, port.missed, None)
    <3>1. typed[Held] = "end"
      BY <1>4, <1>10
    <3> QED BY <1>2, <3>1, NoIds DEF Told
  <2>6. Hands(s) /\ Held' = None
    BY <1>6, <1>10, <2>1 DEF s
  <2> QED BY <1>0, <2>1, <2>3, <2>4, <2>5, <2>6, HandsOrder
<1>11. CASE Raises /\ term' = [term EXCEPT !.outcome = "completed"] /\ UNCHANGED work
  <2>1. term'.worker = term.worker /\ term'.cooked = term.cooked /\ term'.emitted = term.emitted
        /\ term'.cancelled = term.cancelled
    BY <1>0, <1>11 DEF Terms
  <2>2. /\ batch' = batch /\ port'.missed = port.missed /\ port'.closing = TRUE
        /\ port'.asked = port.asked /\ port'.state = port.state /\ DOMAIN port' = DOMAIN port
    BY <1>0, <1>11, RaisesSays
  <2>3. Held' = Held
    BY <1>11, <2>1 DEF Held, Attached
  <2>4. \A w \in Worker :
          /\ work'[w].at = "reading" => work'[w].holds = None /\ term.cooked
          /\ work'[w].at = "rendering" \/ work'[w].good => work'[w].holds # None
    BY <1>11 DEF OInv, Ends
  <2>5. Ends'
    BY <1>0, <2>1, <2>2, <2>4, PollEnds
  <2> QED BY <1>0, <2>1, <2>2, <2>3, <2>5, CalmOrder
<1> QED BY <1>0, <1>8, <1>9, <1>10, <1>11 DEF PollCooked, read

(* A descriptor or a pipe.                                                        *)
LEMMA PollStreamOrder ==
  ASSUME MInv, OInv, PollStream, UNCHANGED ed
  PROVE  OInv'
<1>0. /\ term \in Terms /\ DOMAIN port = DOMAIN NewPort /\ port.closing \in BOOLEAN
      /\ port.state = "started" /\ call.op = "none" /\ ~ Polling /\ batch = <<>> /\ call.events = <<>>
      /\ Stream = <<>> /\ ~ ed.ended /\ ~ term.emitted /\ PollReads
      /\ kind # "console" /\ taken \in Nat /\ typed \in Seq(Strings) /\ taken <= Len(typed)
      /\ UNCHANGED <<kind, typed, work, call>>
  BY OrderTypes, ReadsOpen DEF OInv, Ends, Polls, PollStream
<1>1. term.cooked = FALSE /\ ~ port.closing /\ Loose = FALSE
  BY <1>0, OrderTypes, ReadsOpen DEF OInv, Ends
<1>2. Flow(typed, taken, <<>>, ed, port.missed, Held, FALSE, FALSE)
  BY <1>0, <1>1 DEF OInv
<1>3. \A w \in Worker :
        /\ work'[w].at = "reading" => work'[w].holds = None /\ term.cooked /\ (term.worker = w \/ port.closing)
        /\ work'[w].at = "rendering" \/ work'[w].good => work'[w].holds # None
  BY <1>0 DEF OInv, Ends
<1>4. CASE /\ Waiting > 0 /\ taken' = taken + 1 /\ Hands(<<Event("text", taken + 1)>>) /\ UNCHANGED term
  <2> DEFINE s == <<Event("text", taken + 1)>>
  <2>1. taken + 1 <= Len(typed) /\ taken + 1 \in Nat /\ taken + 1 # None
    BY <1>0, <1>4 DEF Waiting, None
  <2>2. Adds(s, <<>>, Event("text", taken + 1)) /\ Len(s) = 1 /\ s[1] = Event("text", taken + 1)
    <3>1. Event("text", taken + 1) \in Events
      BY <2>1, EventIsEvent DEF Typing
    <3>2. <<>> \in Seq(Events)
      OBVIOUS
    <3>3. Adds(s, <<>>, Event("text", taken + 1))
      BY <3>1, <3>2, AppendAdds
    <3> QED BY <3>3
  <2> HIDE DEF s
  <2>3. Flow(typed, taken + 1, s, ed, port.missed, Held, FALSE, FALSE)
    <3>1. \A i \in 1..Len(<<>>) : <<>>[i].kind # "terminal"
      OBVIOUS
    <3>2. "text" \in Typing
      BY DEF Typing
    <3>3. Flow(typed, taken + 1, s, ed, port.missed, IF "text" = "paste-start" THEN taken + 1 ELSE Held, FALSE, FALSE)
      BY <1>0, <1>2, <2>1, <2>2, <3>1, <3>2, AddedFlow
    <3> QED BY <3>3
  <2>4. Told(typed, taken + 1, s, ed, port.missed, Held)
    <3>1. Told(typed, taken, <<>>, ed, port.missed, Held)
      BY <1>0, <1>1 DEF OInv
    <3>2. taken + 1 \in Ids(s)
      BY <2>1, <2>2 DEF Ids, Event
    <3>3. \A i \in 1..(taken + 1) : i = taken + 1 \/ i \in 1..taken
      BY <1>0
    <3> QED BY <3>1, <3>2, <3>3, NoIds DEF Told
  <2>5. Held' = Held
    BY <1>0, <1>4 DEF Held, Attached
  <2>6. /\ port'.closing = port.closing /\ port'.asked = port.asked /\ port'.state = port.state
        /\ DOMAIN port' = DOMAIN port
    BY <1>0, <1>4, HandsSays
  <2>7. Attached' /\ ~ term.cooked => term'.announced /\ Held' # None
    BY <1>4, <2>5 DEF OInv, Ends, Attached
  <2>8. Ends'
    BY <1>0, <1>3, <1>4, <2>6, <2>7, PollEnds
  <2>9. \A i \in 1..Len(s) : s[i].kind # "terminal"
    BY <2>2 DEF Event
  <2>10. Hands(s)
    BY <1>4 DEF s
  <2> QED BY <1>0, <1>1, <1>4, <2>3, <2>4, <2>5, <2>8, <2>9, <2>10, HandsOrder
<1>5. CASE Tells("completed") /\ UNCHANGED taken
  BY <1>0, <1>5, TellsOrder DEF PollReads
<1>6. CASE Raises /\ UNCHANGED <<taken, term>>
  <2>1. /\ batch' = batch /\ port'.missed = port.missed /\ port'.closing = TRUE
        /\ port'.asked = port.asked /\ port'.state = port.state /\ DOMAIN port' = DOMAIN port
    BY <1>0, <1>6, RaisesSays
  <2>2. Held' = Held /\ (Attached' <=> Attached)
    BY <1>0, <1>6 DEF Held, Attached
  <2>3. Attached' /\ ~ term.cooked => term'.announced /\ Held' # None
    BY <1>6, <2>2 DEF OInv, Ends
  <2>4. Ends'
    BY <1>0, <1>3, <1>6, <2>1, <2>3, PollEnds
  <2> QED BY <1>0, <1>6, <2>1, <2>2, <2>4, CalmOrder
<1> QED BY <1>4, <1>5, <1>6 DEF PollStream
(* What has become of the clipboard's text, before the keys are read.             *)
LEMMA PollConsoleOrder ==
  ASSUME MInv, OInv, PollConsole, UNCHANGED ed
  PROVE  OInv'
<1>0. /\ term \in Terms /\ DOMAIN port = DOMAIN NewPort /\ port.closing = FALSE
      /\ port.state = "started" /\ call.op = "none" /\ ~ Polling /\ batch = <<>>
      /\ Stream = <<>> /\ ~ ed.ended /\ ~ term.emitted /\ Loose = FALSE
      /\ term.cooked = FALSE /\ taken \in Nat /\ typed \in Seq(Strings) /\ taken <= Len(typed)
      /\ UNCHANGED <<kind, typed, taken, port, batch>>
  BY OrderTypes, ReadsOpen DEF OInv, Ends, PollConsole, inputVars
<1>1. /\ call'.op = "poll" /\ call'.left = Waiting /\ call'.events = PasteSeen
      /\ Polling' /\ Stream' = PasteSeen /\ Loose' = FALSE /\ Waiting' = Waiting /\ Waiting \in Nat
  BY <1>0 DEF PollConsole, Polling, Stream, Loose, Waiting
<1>2. Flow(typed, taken, <<>>, ed, port.missed, Held, FALSE, FALSE)
  BY <1>0 DEF OInv
<1>3. Told(typed, taken, <<>>, ed, port.missed, Held)
  BY <1>0 DEF OInv
<1>4. Attached => term.announced /\ Held # None /\ Held = Asked.holds
  BY <1>0 DEF OInv, Ends, Held, Asked
<1>5. \A w \in Worker :
        /\ work[w].at # "reading"
        /\ work[w].at = "rendering" \/ work[w].good => work[w].holds # None
  BY <1>0 DEF OInv, Ends
<1>6. ASSUME term'.cooked = term.cooked, term'.emitted = term.emitted, term'.cancelled = term.cancelled,
             Flow(typed, taken, PasteSeen, ed, port.missed, Held', FALSE, FALSE),
             Told(typed, taken, PasteSeen, ed, port.missed, Held'),
             \A i \in 1..Len(PasteSeen) : PasteSeen[i].kind # "terminal",
             Attached' => term'.announced /\ Held' # None,
             \A w \in Worker :
               /\ work'[w].at # "reading"
               /\ work'[w].at = "rendering" \/ work'[w].good => work'[w].holds # None
      PROVE  OInv'
  <2>1. Ends'
    BY <1>0, <1>1, <1>6, PollEnds
  <2>2. Polls'
    BY <1>0, <1>1, <1>6 DEF Polls
  <2>3. /\ Flow(typed, taken, Stream, ed, port.missed, Held, Loose, term.cooked)'
        /\ ~ port'.closing => Told(typed, taken, Stream, ed, port.missed, Held)'
    BY <1>0, <1>1, <1>6
  <2> QED BY <2>1, <2>2, <2>3 DEF OInv
<1>7. CASE Attached /\ term.announced /\ Settled
  <2>1. LetGo /\ term' = Detached(term)
    BY <1>7 DEF PollConsole
  <2>2. term'.worker = None /\ term'.cooked = term.cooked /\ term'.emitted = term.emitted
        /\ term'.cancelled = term.cancelled
    BY <1>0, <2>1, DetachedSame
  <2>3. ~ Attached' /\ Held' = None
    BY <2>2 DEF Attached, Held
  <2>4. \A w \in Worker :
          /\ work'[w].at # "reading"
          /\ work'[w].at = "rendering" \/ work'[w].good => work'[w].holds # None
    BY <1>5, <2>1, LetGoWork
  <2>5. PICK k \in Results : PasteSeen = <<Event(k, Held)>>
    BY <1>4, <1>7 DEF PasteSeen, Results
  <2>6. Flow(typed, taken, <<Event(k, Held)>>, ed, port.missed, None, FALSE, FALSE)
    BY <1>0, <1>2, <1>4, <1>7, ResultFlow
  <2> DEFINE s == <<Event(k, Held)>>
  <2>7. Len(s) = 1 /\ s[1].id = Held /\ s[1].kind = k /\ k # "terminal"
    BY DEF Event, Results
  <2> HIDE DEF s
  <2>8. Told(typed, taken, s, ed, port.missed, None)
    <3>1. Held \in Ids(s)
      BY <1>4, <1>7, <2>7 DEF Ids
    <3> QED BY <1>3, <3>1, NoIds DEF Told
  <2>9. PasteSeen = s /\ Flow(typed, taken, s, ed, port.missed, None, FALSE, FALSE)
    BY <2>5, <2>6 DEF s
  <2>10. \A i \in 1..Len(s) : s[i].kind # "terminal"
    BY <2>7
  <2> QED BY <1>6, <2>2, <2>3, <2>4, <2>8, <2>9, <2>10
<1>8. CASE ~ (Attached /\ term.announced /\ Settled)
  <2>1. UNCHANGED work /\ term' = [term EXCEPT !.announced = Attached]
    BY <1>8 DEF PollConsole
  <2>2. PasteSeen = <<>>
    BY <1>4, <1>8 DEF PasteSeen
  <2>3. term'.worker = term.worker /\ term'.cooked = term.cooked /\ term'.emitted = term.emitted
        /\ term'.cancelled = term.cancelled /\ term'.announced = Attached
    BY <1>0, <2>1 DEF Terms
  <2>4. (Attached' <=> Attached) /\ Held' = Held
    BY <2>1, <2>3 DEF Attached, Held
  <2> QED BY <1>2, <1>3, <1>4, <1>5, <1>6, <2>1, <2>2, <2>3, <2>4
<1> QED BY <1>7, <1>8

\* A poll of the keys goes on.
LEMMA KeysOrder ==
  ASSUME MInv, OInv, MoreKeys, UNCHANGED <<kind, typed, batch, ed>>, NEW z, NextKey(z),
         NEW s, call.events \o z = s,
         port'.closing = port.closing, port'.asked = port.asked, port'.state = port.state,
         DOMAIN port' = DOMAIN port, term'.cooked = term.cooked, term'.emitted = term.emitted,
         term'.cancelled = term.cancelled,
         Flow(typed, taken + 1, s, ed, port'.missed, Held', FALSE, FALSE),
         ~ port.closing => Told(typed, taken + 1, s, ed, port'.missed, Held'),
         \A i \in 1..Len(s) : s[i].kind # "terminal",
         Attached' => term'.announced /\ Held' # None,
         \A w \in Worker :
           /\ work'[w].at # "reading"
           /\ work'[w].at = "rendering" \/ work'[w].good => work'[w].holds # None
  PROVE  OInv'
<1>0. /\ DOMAIN call = {"op", "at", "left", "events"} /\ term.cooked = FALSE /\ call.op = "poll"
      /\ Polling /\ batch = <<>> /\ ~ term.emitted /\ port.state = "started" /\ call.left \in Nat
      /\ call.left <= Waiting /\ call.left > 0 /\ port.closing \in BOOLEAN /\ Stream = call.events
  BY OrderTypes DEF MInv, Called, MoreKeys, Polling, OInv, Polls, Stream
<1>1. /\ call'.op = "poll" /\ call'.left = call.left - 1 /\ call'.events = s /\ taken' = taken + 1
  BY <1>0 DEF NextKey
<1>2. Polling' /\ Stream' = s /\ Loose' = FALSE
  BY <1>1 DEF Polling, Stream, Loose
<1>3. call'.left \in Nat /\ call'.left <= Waiting'
  BY <1>0, <1>1, OrderTypes DEF Waiting
<1>4. Polls'
  BY <1>0, <1>1, <1>2, <1>3 DEF OInv, Polls
<1>5. Ends'
  BY <1>0, <1>1, PollEnds
<1>6. /\ Flow(typed, taken, Stream, ed, port.missed, Held, Loose, term.cooked)'
      /\ ~ port'.closing => Told(typed, taken, Stream, ed, port.missed, Held)'
  BY <1>0, <1>1, <1>2
<1> QED BY <1>4, <1>5, <1>6 DEF OInv

\* While keys are read nothing was told yet.
LEMMA KeysOpen ==
  ASSUME MInv, OInv, Polling
  PROVE  /\ term.cooked = FALSE /\ Stream = call.events /\ Loose = FALSE /\ ~ ed.ended /\ ~ term.emitted
         /\ call.events \in Seq(Events) /\ call.op = "poll" /\ port.state = "started" /\ batch = <<>>
         /\ \A i \in 1..Len(call.events) : call.events[i].kind # "terminal"
         /\ MoreKeys => taken + 1 <= Len(typed) /\ taken + 1 \in Nat /\ taken + 1 # None
         /\ \A w \in Worker :
              /\ work[w].at # "reading"
              /\ work[w].at = "rendering" \/ work[w].good => work[w].holds # None
         /\ Attached => term.announced /\ Held # None
<1>0. /\ term.cooked = FALSE /\ Stream = call.events /\ Loose = FALSE /\ ~ term.emitted /\ ~ ed.ended
      /\ call.op = "poll" /\ port.state = "started" /\ batch = <<>> /\ call.left \in Nat /\ call.left <= Waiting
      /\ taken \in Nat
  BY OrderTypes DEF MInv, Called, Polling, Stream, Loose, OInv, Polls
<1>1. \A i \in 1..Len(call.events) : call.events[i].kind # "terminal"
  BY <1>0 DEF OInv, Polls
<1>2. call.events \in Seq(Events)
  BY <1>0 DEF OInv, Flow, Polled
<1>3. MoreKeys => taken + 1 <= Len(typed) /\ taken + 1 \in Nat /\ taken + 1 # None
  BY <1>0, OrderTypes DEF MoreKeys, Waiting, None
<1> QED BY <1>0, <1>1, <1>2, <1>3 DEF OInv, Ends

LEMMA PollKeyOrder ==
  ASSUME MInv, OInv, PollKey, UNCHANGED ed
  PROVE  OInv'
<1>0. /\ term.cooked = FALSE /\ Stream = call.events /\ Loose = FALSE /\ ~ ed.ended /\ ~ term.emitted
      /\ call.events \in Seq(Events) /\ call.op = "poll" /\ port.state = "started" /\ batch = <<>>
      /\ \A i \in 1..Len(call.events) : call.events[i].kind # "terminal"
      /\ taken + 1 <= Len(typed) /\ taken + 1 \in Nat /\ taken + 1 # None
      /\ \A w \in Worker :
           /\ work[w].at # "reading"
           /\ work[w].at = "rendering" \/ work[w].good => work[w].holds # None
      /\ Attached => term.announced /\ Held # None
      /\ taken \in Nat
  BY KeysOpen, OrderTypes DEF PollKey, MoreKeys
<1>1. PICK k \in Typing : NextKey(<<Event(k, taken + 1)>>)
  BY DEF PollKey, Typing
<1>2. MoreKeys /\ UNCHANGED <<kind, raw, typed, work, busy, faults, host, term, port, batch>>
  BY DEF PollKey
<1>3. Held' = Held /\ (Attached' <=> Attached)
  BY <1>2 DEF Held, Attached
<1> DEFINE x == Event(k, taken + 1)
           s == call.events \o <<x>>
<1>4. x \in Events /\ x.kind = k /\ x.id = taken + 1
  BY <1>0, EventIsEvent
<1> HIDE DEF x
<1>5. Adds(s, call.events, x)
  BY <1>0, <1>4, AppendAdds
<1> HIDE DEF s
<1>6. Flow(typed, taken, call.events, ed, port.missed, Held, FALSE, FALSE)
  BY <1>0 DEF OInv
<1>7. Flow(typed, taken + 1, s, ed, port.missed, Held, FALSE, FALSE)
  <2>1. k # "paste-start"
    BY DEF Typing
  <2>2. Adds(s, call.events, Event(k, taken + 1))
    BY <1>5 DEF x
  <2>3. Flow(typed, taken + 1, s, ed, port.missed, IF k = "paste-start" THEN taken + 1 ELSE Held, FALSE, FALSE)
    BY <1>0, <1>6, <2>2, AddedFlow
  <2> QED BY <2>1, <2>3
<1>8. Len(s) = Len(call.events) + 1 /\ s[Len(s)] = x /\ \A i \in 1..Len(call.events) : s[i] = call.events[i]
  BY <1>5 DEF Adds
<1>9. Ids(s) = Ids(call.events) \cup {taken + 1}
  <2>1. Len(call.events) \in Nat
    BY <1>0
  <2>2. Ids(s) = Ids(call.events) \cup ({x.id} \ {None})
    BY <1>8, <2>1, AddedIds
  <2> QED BY <1>0, <1>4, <2>2
<1>10. ~ port.closing => Told(typed, taken + 1, s, ed, port.missed, Held)
  <2>1. ~ port.closing => Told(typed, taken, call.events, ed, port.missed, Held)
    BY <1>0 DEF OInv
  <2>2. \A i \in 1..(taken + 1) : i = taken + 1 \/ i \in 1..taken
    BY <1>0
  <2> QED BY <1>9, <2>1, <2>2 DEF Told
<1>11. \A i \in 1..Len(s) : s[i].kind # "terminal"
  <2>1. \A i \in 1..Len(s) : i = Len(s) \/ i \in 1..Len(call.events)
    BY <1>0, <1>8
  <2> QED BY <1>0, <1>4, <1>8, <2>1 DEF Typing
<1>12. NextKey(<<x>>) /\ call.events \o <<x>> = s
  BY <1>1 DEF x, s
<1> QED BY <1>0, <1>2, <1>3, <1>7, <1>10, <1>11, <1>12, KeysOrder
LEMMA RefusedFlow ==
  ASSUME NEW t, NEW n, NEW s, NEW e, NEW m, NEW h, NEW loose, NEW cooked,
         Flow(t, n, s, e, m, h, loose, cooked), n + 1 <= Len(t), NEW q, q = m \cup {n + 1}
  PROVE  Flow(t, n + 1, s, e, q, h, loose, cooked)
BY TakenFlow

(* The gesture that asks for the clipboard.                                       *)
LEMMA PollPasteOrder ==
  ASSUME MInv, OInv, PollPaste, UNCHANGED ed
  PROVE  OInv'
<1>0. /\ term.cooked = FALSE /\ Stream = call.events /\ Loose = FALSE /\ ~ ed.ended /\ ~ term.emitted
      /\ call.events \in Seq(Events) /\ call.op = "poll" /\ port.state = "started" /\ batch = <<>>
      /\ \A i \in 1..Len(call.events) : call.events[i].kind # "terminal"
      /\ taken + 1 <= Len(typed) /\ taken + 1 \in Nat /\ taken + 1 # None
      /\ \A w \in Worker :
           /\ work[w].at # "reading"
           /\ work[w].at = "rendering" \/ work[w].good => work[w].holds # None
      /\ Attached => term.announced /\ Held # None
      /\ taken \in Nat /\ DOMAIN port = DOMAIN NewPort /\ term \in Terms
      /\ work \in [Worker -> Record] /\ None \notin Worker
      /\ MoreKeys /\ UNCHANGED <<kind, typed, batch>>
  BY KeysOpen, OrderTypes DEF PollPaste, MoreKeys, OInv, Ends
<1>1. Flow(typed, taken, call.events, ed, port.missed, Held, FALSE, FALSE)
  BY <1>0 DEF OInv
<1>2. \A i \in 1..(taken + 1) : i = taken + 1 \/ i \in 1..taken
  BY <1>0
<1>3. ~ port.closing => Told(typed, taken, call.events, ed, port.missed, Held)
  BY <1>0 DEF OInv
<1>4. CASE /\ Attached /\ NextKey(<<>>) /\ port' = [port EXCEPT !.missed = @ \cup {taken + 1}]
           /\ UNCHANGED <<work, term>>
  <2>1. /\ port'.missed = port.missed \cup {taken + 1} /\ port'.closing = port.closing
        /\ port'.asked = port.asked /\ port'.state = port.state /\ DOMAIN port' = DOMAIN port
    BY <1>0, <1>4 DEF NewPort
  <2>2. Held' = Held /\ (Attached' <=> Attached)
    BY <1>4 DEF Held, Attached
  <2>3. Flow(typed, taken + 1, call.events, ed, port'.missed, Held, FALSE, FALSE)
    <3>1. taken + 1 <= Len(typed)
      BY <1>0
    <3> QED BY <1>1, <2>1, <3>1, RefusedFlow
  <2>4. ~ port.closing => Told(typed, taken + 1, call.events, ed, port'.missed, Held)
    BY <1>2, <1>3, <2>1 DEF Told
  <2>5. call.events \o <<>> = call.events
    BY <1>0
  <2>6. /\ UNCHANGED <<kind, typed, batch, ed>> /\ MoreKeys /\ NextKey(<<>>)
        /\ term'.cooked = term.cooked /\ term'.emitted = term.emitted /\ term'.cancelled = term.cancelled
        /\ \A i \in 1..Len(call.events) : call.events[i].kind # "terminal"
        /\ Attached' => term'.announced /\ Held' # None
        /\ \A w \in Worker :
             /\ work'[w].at # "reading"
             /\ work'[w].at = "rendering" \/ work'[w].good => work'[w].holds # None
    BY <1>0, <1>4, <2>2
  <2>7. /\ Flow(typed, taken + 1, call.events, ed, port'.missed, Held', FALSE, FALSE)
        /\ ~ port.closing => Told(typed, taken + 1, call.events, ed, port'.missed, Held')
    BY <2>2, <2>3, <2>4
  <2> QED BY <2>1, <2>5, <2>6, <2>7, KeysOrder
<1> DEFINE x(k) == Event(k, taken + 1)
           s(k) == call.events \o <<x(k)>>
<1>5. ASSUME NEW k \in {"paste-rejected", "paste-start"}, ~ Attached
      PROVE  /\ Flow(typed, taken + 1, s(k), ed, port.missed, IF k = "paste-start" THEN taken + 1 ELSE Held,
                     FALSE, FALSE)
             /\ ~ port.closing => Told(typed, taken + 1, s(k), ed, port.missed, Held)
             /\ \A i \in 1..Len(s(k)) : s(k)[i].kind # "terminal"
             /\ Held = None
  <2>1. x(k) \in Events /\ x(k).kind = k /\ x(k).id = taken + 1
    <3>1. k \in Typing \cup Notices \cup {"terminal"}
      BY DEF Notices, Results
    <3> QED BY <1>0, <3>1, EventIsEvent
  <2> HIDE DEF x
  <2>2. Adds(s(k), call.events, x(k))
    BY <1>0, <2>1, AppendAdds
  <2> HIDE DEF s
  <2>3. Held = None
    BY <1>5 DEF Held
  <2>4. Flow(typed, taken + 1, s(k), ed, port.missed, IF k = "paste-start" THEN taken + 1 ELSE Held, FALSE, FALSE)
    <3>1. Adds(s(k), call.events, Event(k, taken + 1))
      BY <2>2 DEF x
    <3>2. k \in Typing \cup {"paste-rejected", "paste-start"}
      OBVIOUS
    <3>3. k \in Typing \/ Held = None
      BY <2>3
    <3> QED BY <1>0, <1>1, <3>1, <3>2, <3>3, AddedFlow
  <2>5. Len(s(k)) = Len(call.events) + 1 /\ s(k)[Len(s(k))] = x(k)
        /\ \A i \in 1..Len(call.events) : s(k)[i] = call.events[i]
    BY <2>2 DEF Adds
  <2>6. Ids(s(k)) = Ids(call.events) \cup {taken + 1}
    <3>1. Len(call.events) \in Nat
      BY <1>0
    <3>2. Ids(s(k)) = Ids(call.events) \cup ({x(k).id} \ {None})
      BY <2>5, <3>1, AddedIds
    <3> QED BY <1>0, <2>1, <3>2
  <2>7. ~ port.closing => Told(typed, taken + 1, s(k), ed, port.missed, Held)
    BY <1>2, <1>3, <2>6 DEF Told
  <2>8. \A i \in 1..Len(s(k)) : s(k)[i].kind # "terminal"
    <3>1. \A i \in 1..Len(s(k)) : i = Len(s(k)) \/ i \in 1..Len(call.events)
      BY <1>0, <2>5
    <3>2. x(k).kind # "terminal"
      BY <2>1
    <3> QED BY <1>0, <2>5, <3>1, <3>2
  <2> QED BY <2>3, <2>4, <2>7, <2>8
<1>6. CASE ~ Attached /\ NextKey(<<Event("paste-rejected", taken + 1)>>) /\ UNCHANGED <<work, term, port>>
  <2> DEFINE r == s("paste-rejected")
  <2>1. /\ Flow(typed, taken + 1, r, ed, port.missed, Held, FALSE, FALSE)
        /\ ~ port.closing => Told(typed, taken + 1, r, ed, port.missed, Held)
        /\ \A i \in 1..Len(r) : r[i].kind # "terminal"
    <3> HIDE DEF s
    <3> QED BY <1>5, <1>6
  <2>2. Held' = Held /\ (Attached' <=> Attached)
    BY <1>6 DEF Held, Attached
  <2> HIDE DEF r
  <2>3. call.events \o <<Event("paste-rejected", taken + 1)>> = r
    BY DEF r
  <2> QED BY <1>0, <1>6, <2>1, <2>2, <2>3, KeysOrder
<1>7. CASE /\ ~ Attached /\ Unowned # {} /\ work' = [work EXCEPT ![Fresh] = Born("rendering", taken + 1)]
           /\ term' = [term EXCEPT !.worker = Fresh, !.announced = TRUE]
           /\ NextKey(<<Event("paste-start", taken + 1)>>) /\ UNCHANGED port
  <2> DEFINE r == s("paste-start")
  <2>1. /\ Flow(typed, taken + 1, r, ed, port.missed, taken + 1, FALSE, FALSE)
        /\ ~ port.closing => Told(typed, taken + 1, r, ed, port.missed, Held)
        /\ \A i \in 1..Len(r) : r[i].kind # "terminal"
        /\ Held = None
    <3> HIDE DEF s
    <3> QED BY <1>5, <1>7
  <2> HIDE DEF r
  <2>2. /\ term'.cooked = term.cooked /\ term'.cancelled = term.cancelled /\ term'.worker = Fresh
        /\ term'.emitted = term.emitted /\ term'.announced = TRUE /\ Fresh \in Worker
    BY <1>0, <1>7, FreshIsUnused DEF Terms
  <2>3. \A w \in Worker : work'[w] = IF w = Fresh THEN Born("rendering", taken + 1) ELSE work[w]
    BY <1>0, <1>7, <2>2
  <2>4. Held' = taken + 1
    BY <1>0, <2>2, <2>3 DEF Held, Attached, Born
  <2>5. \A w \in Worker :
          /\ work'[w].at # "reading"
          /\ work'[w].at = "rendering" \/ work'[w].good => work'[w].holds # None
    BY <1>0, <2>3 DEF Born
  <2>6. ~ port.closing => Told(typed, taken + 1, r, ed, port.missed, taken + 1)
    <3>1. \A i \in 1..taken : i # None
      BY DEF None
    <3> QED BY <1>2, <2>1, <3>1 DEF Told
  <2>7. call.events \o <<Event("paste-start", taken + 1)>> = r
    BY DEF r
  <2> QED BY <1>0, <1>7, <2>1, <2>2, <2>4, <2>5, <2>6, <2>7, KeysOrder
<1> QED BY <1>4, <1>6, <1>7 DEF PollPaste

(* A poll that fails loses its events, and ends the session.                      *)
LEMMA PollKeyFailsOrder ==
  ASSUME MInv, OInv, PollKeyFails, UNCHANGED ed
  PROVE  OInv'
<1>0. /\ term.cooked = FALSE /\ Stream = call.events /\ ~ ed.ended /\ ~ term.emitted
      /\ call.op = "poll" /\ port.state = "started" /\ batch = <<>> /\ DOMAIN port = DOMAIN NewPort
      /\ taken \in Nat /\ UNCHANGED <<kind, typed, work, term>> /\ call' = NoCall
      /\ \A w \in Worker :
           /\ work[w].at # "reading"
           /\ work[w].at = "rendering" \/ work[w].good => work[w].holds # None
      /\ Attached => term.announced /\ Held # None
      /\ Polling
  BY KeysOpen, OrderTypes DEF PollKeyFails, OInv, Ends
<1>1. /\ batch' = <<>> /\ port'.missed = port.missed /\ port'.closing = TRUE
      /\ port'.asked = port.asked /\ port'.state = port.state /\ DOMAIN port' = DOMAIN port
  BY <1>0, RaisesSays DEF PollKeyFails
<1>2. taken' = taken \/ (taken' = taken + 1 /\ taken + 1 <= Len(typed))
  BY <1>0, KeysOpen DEF PollKeyFails
<1>3. Flow(typed, taken, <<>>, ed, port.missed, Held, TRUE, FALSE)
  <2>1. Flow(typed, taken, call.events, ed, port.missed, Held, Loose, FALSE)
    BY <1>0 DEF OInv
  <2> QED BY <2>1, LostFlow
<1>4. Flow(typed, taken', <<>>, ed, port.missed, Held, TRUE, FALSE)
  BY <1>2, <1>3, TakenFlow
<1>5. Held' = Held /\ (Attached' <=> Attached)
  BY <1>0 DEF Held, Attached
<1>6. ~ Polling' /\ Stream' = <<>> /\ Loose' = TRUE /\ call'.events = <<>> /\ call'.op = "none"
  BY <1>0, <1>1 DEF Polling, Stream, Loose, NoCall
<1>7. Ends'
  BY <1>0, <1>1, <1>5, <1>6, PollEnds
<1>8. Polls'
  BY <1>0, <1>1, <1>6 DEF Polls
<1>9. Flow(typed, taken, Stream, ed, port.missed, Held, Loose, term.cooked)'
  BY <1>0, <1>1, <1>4, <1>5, <1>6
<1> QED BY <1>1, <1>7, <1>8, <1>9 DEF OInv

(* The events of the poll are handed over.                                        *)
LEMMA PollConsoleEndsOrder ==
  ASSUME MInv, OInv, PollConsoleEnds, UNCHANGED ed
  PROVE  OInv'
<1>0. /\ term.cooked = FALSE /\ Stream = call.events /\ Loose = FALSE /\ ~ ed.ended /\ ~ term.emitted
      /\ call.op = "poll" /\ port.state = "started" /\ DOMAIN port = DOMAIN NewPort
      /\ port.closing \in BOOLEAN
      /\ \A i \in 1..Len(call.events) : call.events[i].kind # "terminal"
      /\ UNCHANGED <<kind, typed, taken, work, term>> /\ call' = NoCall
      /\ \A w \in Worker :
           /\ work[w].at # "reading"
           /\ work[w].at = "rendering" \/ work[w].good => work[w].holds # None
      /\ Attached => term.announced /\ Held # None
      /\ Polling
  BY KeysOpen, OrderTypes DEF PollConsoleEnds, OInv, Ends, workerVars, inputVars
<1> DEFINE s == call.events
           q == port.missed \cup Rejected(s)
<1>1. /\ batch' = s /\ port'.missed = q /\ port'.closing = port.closing
      /\ port'.asked = port.asked /\ port'.state = port.state /\ DOMAIN port' = DOMAIN port
  BY <1>0, HandsSays DEF PollConsoleEnds
<1>2. Held' = Held /\ (Attached' <=> Attached)
  BY <1>0 DEF Held, Attached
<1>3. ~ Polling' /\ Stream' = s /\ Loose' = port.closing /\ call'.events = <<>> /\ call'.op = "none"
  BY <1>0, <1>1 DEF Polling, Stream, Loose, NoCall
<1> HIDE DEF s
<1>4. Flow(typed, taken, s, ed, port.missed, Held, FALSE, FALSE)
  BY <1>0 DEF OInv, s
<1>5. Flow(typed, taken, s, ed, q, Held, FALSE, FALSE)
  BY <1>4, HandedFlow
<1> HIDE DEF q
<1>6. Flow(typed, taken, s, ed, q, Held, port.closing, FALSE)
  BY <1>5, LooserFlow
<1>7. ~ port.closing => Told(typed, taken, s, ed, q, Held)
  BY <1>0 DEF OInv, Told, s, q
<1>8. Ends'
  BY <1>0, <1>1, <1>2, <1>3, PollEnds
<1>9. \A i \in 1..Len(s) : s[i].kind = "paste-rejected" => s[i].id \in q
  <2> SUFFICES ASSUME NEW i \in 1..Len(s), s[i].kind = "paste-rejected" PROVE s[i].id \in Rejected(s)
    BY DEF q
  <2>1. s[i].id # None
    BY <1>4 DEF Flow, Polled, None
  <2> QED BY <2>1 DEF Rejected, Ids
<1>10. \A i \in 1..Len(s) : s[i].kind # "terminal"
  BY <1>0 DEF s
<1>11. Polls'
  BY <1>0, <1>1, <1>3, <1>9, <1>10 DEF Polls
<1>12. /\ Flow(typed, taken, Stream, ed, port.missed, Held, Loose, term.cooked)'
       /\ ~ port'.closing => Told(typed, taken, Stream, ed, port.missed, Held)'
  BY <1>0, <1>1, <1>2, <1>3, <1>6, <1>7
<1> QED BY <1>8, <1>11, <1>12 DEF OInv
-------------------------------------------------------------------------------
(* The editor.                                                                   *)

\* What the editor finds when it is handed something.
LEMMA EditorFinds ==
  ASSUME MInv, OInv, port.state = "started", Idle, ed.replay # <<>> \/ batch # <<>>,
         ed.ended \in BOOLEAN
  PROVE  /\ call.op = "none" /\ ~ Polling /\ Stream = batch /\ batch \in Seq(Events)
         /\ Flow(typed, taken, batch, ed, port.missed, Held, port.closing, term.cooked)
         /\ ~ port.closing => Told(typed, taken, batch, ed, port.missed, Held)
         /\ DOMAIN ed = EditorFields /\ ~ ed.overlap /\ ed.ended = FALSE
         /\ Editor(ed, port.missed, taken) /\ taken \in Nat
         /\ ed.replay # <<>> => ed.waiting = None /\ Fetched = Head(ed.replay) /\ Fetched.kind = "text"
         /\ ed.replay = <<>> => /\ Fetched = batch[1] /\ batch # <<>> /\ Drops(Tail(batch), batch)
                                /\ 1 \in 1..Len(batch)
                                /\ Ids(batch) = Ids(Tail(batch)) \cup ({batch[1].id} \ {None})
                                /\ term.cooked => batch[1].kind \in {"text", "terminal"}
                                /\ batch[1].kind = "terminal" => batch[1].id = None /\ term.emitted
                                /\ batch[1].kind # "terminal" => batch[1].id # None
                                /\ batch[1].kind = "paste-rejected" => batch[1].id \in port.missed
         /\ term.cooked => ed.waiting = None
         /\ ed.waiting = None => ed.keys = <<>>
<1>1. call.op = "none" /\ ~ Polling /\ Stream = batch /\ Loose = port.closing
  BY OrderTypes DEF Idle, Polling, Stream, Loose
<1>2. /\ Flow(typed, taken, batch, ed, port.missed, Held, port.closing, term.cooked)
      /\ ~ port.closing => Told(typed, taken, batch, ed, port.missed, Held)
  BY <1>1 DEF OInv
<1>3. batch \in Seq(Events) /\ Editor(ed, port.missed, taken) /\ taken \in Nat
      /\ Order(batch, ed, port.missed) /\ Polled(batch, taken)
  BY <1>2 DEF Flow, Polled
<1>4. DOMAIN ed = EditorFields /\ ~ ed.overlap /\ (ed.waiting = None => ed.keys = <<>>)
  BY <1>3 DEF Editor
<1>5. ed.ended = FALSE
  <2>1. ~ ed.ended
    BY <1>3 DEF Order
  <2> QED BY <2>1
<1>6. term.cooked => ed.waiting = None /\ batch \in Seq(CookedEvents)
  BY DEF MInv, Cooked
<1>7. ASSUME ed.replay # <<>>
      PROVE  ed.waiting = None /\ Fetched = Head(ed.replay) /\ Fetched.kind = "text"
  <2>1. ed.waiting = None /\ ed.replay \in Seq(Texts) /\ Fetched = Head(ed.replay)
    BY <1>3, <1>7 DEF Editor, Fetched
  <2>2. Head(ed.replay) \in Texts
    BY <1>7, <2>1
  <2> QED BY <2>1, <2>2 DEF Texts
<1>8. ASSUME ed.replay = <<>>
      PROVE  /\ Fetched = batch[1] /\ batch # <<>> /\ Drops(Tail(batch), batch) /\ 1 \in 1..Len(batch)
             /\ Ids(batch) = Ids(Tail(batch)) \cup ({batch[1].id} \ {None})
             /\ term.cooked => batch[1].kind \in {"text", "terminal"}
             /\ batch[1].kind = "terminal" => batch[1].id = None /\ term.emitted
             /\ batch[1].kind # "terminal" => batch[1].id # None
             /\ batch[1].kind = "paste-rejected" => batch[1].id \in port.missed
  <2>1. batch # <<>> /\ Fetched = Head(batch)
    BY <1>8 DEF Fetched
  <2>2. Drops(Tail(batch), batch) /\ Head(batch) = batch[1] /\ Len(batch) >= 1 /\ 1 \in 1..Len(batch)
    BY <1>3, <2>1, TailDrops
  <2>3. Ids(batch) = Ids(Tail(batch)) \cup ({batch[1].id} \ {None})
    BY <1>3, <2>2, DroppedIds
  <2>4. term.cooked => batch[1].kind \in {"text", "terminal"}
    <3>1. term.cooked => batch[1] \in CookedEvents
      BY <1>6, <2>2
    <3> QED BY <3>1 DEF CookedEvents
  <2>5. /\ batch[1].kind = "terminal" => batch[1].id = None
        /\ batch[1].kind # "terminal" => batch[1].id # None
    BY <1>3, <2>2 DEF Polled, None
  <2>6. /\ batch[1].kind = "terminal" => term.emitted
        /\ batch[1].kind = "paste-rejected" => batch[1].id \in port.missed
    BY <1>1, <2>2 DEF OInv, Polls
  <2> QED BY <2>1, <2>2, <2>3, <2>4, <2>5, <2>6
<1> QED BY <1>1, <1>2, <1>3, <1>4, <1>5, <1>6, <1>7, <1>8

\* What the editor leaves.
LEMMA EditorLeaves ==
  ASSUME MInv, OInv, port.state = "started", Idle, UNCHANGED <<kind, typed, taken, call>>,
         batch' = batch \/ Drops(batch', batch) \/ batch' = <<>>,
         port.missed \subseteq port'.missed, DOMAIN port' = DOMAIN port, port'.state = port.state,
         port'.asked = port.asked, port'.closing = port.closing \/ port'.closing = TRUE,
         \/ UNCHANGED <<work, term>>
         \/ ~ term.cooked /\ LetGo /\ term' = Detached(term),
         ed'.ended => term.emitted,
         Flow(typed, taken, batch', ed', port'.missed, Held', port'.closing, term.cooked),
         ~ port'.closing => Told(typed, taken, batch', ed', port'.missed, Held')
  PROVE  OInv'
<1>1. /\ call.op = "none" /\ ~ Polling' /\ Stream' = batch' /\ Loose' = port'.closing /\ Stream = batch
      /\ call.events = <<>> /\ port.closing \in BOOLEAN /\ term \in Terms
  BY OrderTypes DEF Idle, Polling, Stream, Loose, OInv, Polls
<1>2. /\ term'.cooked = term.cooked /\ term'.emitted = term.emitted /\ term'.cancelled = term.cancelled
      /\ Attached' /\ ~ term.cooked => term'.announced /\ Held' # None
  <2>1. CASE UNCHANGED <<work, term>>
    BY <2>1 DEF Attached, Held, OInv, Ends
  <2>2. CASE term' = Detached(term)
    BY <1>1, <2>2, DetachedSame DEF Attached
  <2> QED BY <2>1, <2>2
<1>3. \A w \in Worker :
        /\ work'[w].at = "reading" =>
             work'[w].holds = None /\ term.cooked /\ (term'.worker = w \/ port'.closing)
        /\ work'[w].at = "rendering" \/ work'[w].good => work'[w].holds # None
  <2>1. CASE UNCHANGED <<work, term>>
    BY <1>1, <2>1 DEF OInv, Ends
  <2>2. CASE ~ term.cooked /\ LetGo
    <3>1. \A w \in Worker : work[w].at # "reading"
      BY <2>2 DEF OInv, Ends
    <3> QED BY <2>2, <3>1, LetGoWork
  <2> QED BY <2>1, <2>2
<1>4. Ends'
  BY <1>1, <1>2, <1>3, PollEnds
<1>5. \A i \in 1..Len(batch') : \E j \in 1..Len(batch) : batch'[i] = batch[j]
  <2>1. CASE Drops(batch', batch)
    <3>1. Len(batch') \in Nat /\ \A i \in 1..Len(batch') : i + 1 \in 1..Len(batch) /\ batch'[i] = batch[i + 1]
      BY <2>1 DEF Drops
    <3> QED BY <3>1
  <2>2. CASE batch' = <<>>
    BY <2>2
  <2> QED BY <2>1, <2>2
<1>6. Polls'
  <2>1. \A i \in 1..Len(batch') : batch'[i].kind = "paste-rejected" => batch'[i].id \in port'.missed
    BY <1>1, <1>5 DEF OInv, Polls
  <2>2. \A i \in 1..Len(batch') : batch'[i].kind = "terminal" => term.emitted
    BY <1>1, <1>5 DEF OInv, Polls
  <2> QED BY <1>1, <1>2, <2>1, <2>2 DEF Polls
<1>7. /\ Flow(typed, taken, Stream, ed, port.missed, Held, Loose, term.cooked)'
      /\ ~ port'.closing => Told(typed, taken, Stream, ed, port.missed, Held)'
  BY <1>1, <1>2
<1> QED BY <1>4, <1>6, <1>7 DEF OInv

LEMMA AppendGiven ==
  ASSUME NEW S, NEW e, e.got \in Seq(S), NEW x, NEW f, f.got = Append(e.got, x)
  PROVE  OneMore(Given(f), Given(e), x)
<1>1. /\ Len(f.got) = Len(e.got) + 1 /\ Len(e.got) \in Nat /\ f.got[Len(e.got) + 1] = x
      /\ \A i \in 1..Len(e.got) : f.got[i] = e.got[i]
      /\ 1..Len(f.got) = 1..Len(e.got) \cup {Len(e.got) + 1}
  OBVIOUS
<1> QED BY <1>1 DEF Given, OneMore

(* Text, a line, a cancellation or the end, with no clipboard to wait for.        *)
LEMMA EditorUsesOrder ==
  ASSUME MInv, OInv, ed.ended \in BOOLEAN, EditorUses
  PROVE  OInv'
<1>0. /\ port.state = "started" /\ Idle /\ (ed.replay # <<>> \/ batch # <<>>) /\ ed.waiting = None
      /\ Fetched.kind \in {"text", "cancel", "paste", "terminal"}
      /\ UNCHANGED <<kind, typed, taken, work, term, call, port>>
  BY DEF EditorUses, Uses, Waits, workerVars, inputVars
<1>1. /\ Flow(typed, taken, batch, ed, port.missed, Held, port.closing, term.cooked)
      /\ ~ port.closing => Told(typed, taken, batch, ed, port.missed, Held)
      /\ DOMAIN ed = EditorFields /\ ~ ed.overlap /\ ed.ended = FALSE /\ ed.keys = <<>>
      /\ Editor(ed, port.missed, taken) /\ taken \in Nat
  BY <1>0, EditorFinds
<1>2. Held' = Held
  BY <1>0 DEF Held, Attached
<1>3. CASE ed.replay # <<>>
  <2>1. Fetched = Head(ed.replay) /\ Fetched.kind = "text"
    BY <1>0, <1>3, EditorFinds
  <2>2. Fetched.id # None
    <3>1. Head(ed.replay) \in Texts
      BY <1>1, <1>3 DEF Editor
    <3> QED BY <2>1, <3>1 DEF Texts
  <2>3. batch' = batch
    BY <1>3 DEF EditorUses
  <2>4. Editors(ed', None, <<>>, Tail(ed.replay), Append(ed.got, Head(ed.replay).id), ed.unheld, FALSE)
    BY <1>0, <1>1, <1>3, <2>1, <2>2 DEF EditorUses, Editors, EditorFields
  <2>5. /\ Flow(typed, taken, batch, ed', port.missed, Held, port.closing, term.cooked)
        /\ OneMore(Given(ed'), Given(ed), Head(ed.replay).id)
        /\ OneMore(Ids(ed.replay), Ids(ed'.replay), Head(ed.replay).id) /\ Ids(ed.keys) = {}
    <3>1. Flow(typed, taken, batch, ed, port.missed, Held, port.closing, term.cooked)
      BY <1>1
    <3> QED BY <1>3, <2>4, <3>1, ReplayFlow
  <2>6. ~ port.closing => Told(typed, taken, batch, ed', port.missed, Held)
    BY <1>0, <1>1, <2>4, <2>5, NoIds DEF Told, Editors, OneMore
  <2>7. ~ ed'.ended
    BY <2>4 DEF Editors
  <2> QED BY <1>0, <1>2, <2>3, <2>5, <2>6, <2>7, EditorLeaves
<1>4. CASE ed.replay = <<>>
  <2>1. /\ Fetched = batch[1] /\ batch # <<>> /\ Drops(Tail(batch), batch)
        /\ Ids(batch) = Ids(Tail(batch)) \cup ({batch[1].id} \ {None})
        /\ term.cooked => batch[1].kind \in {"text", "terminal"}
        /\ batch[1].kind = "terminal" => batch[1].id = None /\ term.emitted
        /\ batch[1].kind # "terminal" => batch[1].id # None
    BY <1>0, <1>4, EditorFinds
  <2>2. batch' = Tail(batch)
    BY <1>4 DEF EditorUses
  <2>3. CASE batch[1].kind = "terminal"
    <3>1. Editors(ed', None, <<>>, <<>>, ed.got, ed.unheld, TRUE)
      BY <1>0, <1>1, <1>4, <2>1, <2>3 DEF EditorUses, Editors, EditorFields
    <3>2. Flow(typed, taken, Tail(batch), ed', port.missed, Held, port.closing, term.cooked)
      BY <1>0, <1>1, <1>4, <2>1, <2>3, <3>1, EndedFlow
    <3>3. Given(ed') = Given(ed) /\ ed'.keys = <<>> /\ ed'.replay = <<>>
      BY <3>1 DEF Editors, Given
    <3>4. ~ port.closing => Told(typed, taken, Tail(batch), ed', port.missed, Held)
      <4>1. Ids(batch) = Ids(Tail(batch))
        BY <2>1, <2>3
      <4>2. \A i \in 1..taken : i # None
        BY DEF None
      <4> QED BY <1>0, <1>1, <1>4, <3>3, <4>1, <4>2, NoIds DEF Told
    <3> QED BY <1>0, <1>2, <2>1, <2>2, <2>3, <3>2, <3>4, EditorLeaves
  <2>4. CASE batch[1].kind # "terminal"
    <3>1. Editors(ed', None, <<>>, <<>>, Append(ed.got, batch[1].id), ed.unheld, FALSE)
      BY <1>0, <1>1, <1>4, <2>1, <2>4 DEF EditorUses, Editors, EditorFields
    <3>2. batch[1].kind \in Typing \cup {"paste"} /\ (batch[1].kind = "paste" => ~ term.cooked)
      BY <1>0, <2>1, <2>4 DEF Typing
    <3>3. /\ Flow(typed, taken, Tail(batch), ed', port.missed, Held, port.closing, term.cooked)
          /\ OneMore(Given(ed'), Given(ed), batch[1].id)
      <4>1. Flow(typed, taken, batch, ed, port.missed, Held, port.closing, term.cooked)
        BY <1>1
      <4>2. batch # <<>> /\ Drops(Tail(batch), batch) /\ ed.waiting = None
        BY <1>0, <2>1
      <4>3. Flow(typed, taken, Tail(batch), ed', port.missed, Held, port.closing, term.cooked)
        BY <1>4, <3>1, <3>2, <4>1, <4>2, UsedFlow
      <4>4. OneMore(Given(ed'), Given(ed), batch[1].id)
        <5>1. ed'.got = Append(ed.got, batch[1].id)
          BY <3>1 DEF Editors
        <5>2. ed.got \in Seq(1..taken)
          BY <1>1 DEF Editor
        <5> QED BY <5>1, <5>2, AppendGiven
      <4> QED BY <4>3, <4>4
    <3>4. ed'.keys = <<>> /\ ed'.replay = <<>> /\ ~ ed'.ended
      BY <3>1 DEF Editors
    <3>5. ~ port.closing => Told(typed, taken, Tail(batch), ed', port.missed, Held)
      <4>1. \A i \in 1..taken : i # None
        BY DEF None
      <4> QED BY <1>0, <1>1, <1>4, <2>1, <3>3, <3>4, <4>1, NoIds DEF Told, OneMore
    <3> QED BY <1>0, <1>2, <2>1, <2>2, <3>3, <3>4, <3>5, EditorLeaves
  <2> QED BY <2>3, <2>4
<1> QED BY <1>3, <1>4

(* The start of a paste.                                                          *)
LEMMA EditorWaitsOrder ==
  ASSUME MInv, OInv, ed.ended \in BOOLEAN, EditorWaits
  PROVE  OInv'
<1>0. /\ port.state = "started" /\ Idle /\ (ed.replay # <<>> \/ batch # <<>>)
      /\ Fetched.kind = "paste-start" /\ batch' = Tail(batch)
      /\ UNCHANGED <<kind, typed, taken, work, term, call, port>>
  BY DEF EditorWaits, Uses, workerVars, inputVars
<1>1. /\ Flow(typed, taken, batch, ed, port.missed, Held, port.closing, term.cooked)
      /\ ~ port.closing => Told(typed, taken, batch, ed, port.missed, Held)
      /\ DOMAIN ed = EditorFields /\ ~ ed.overlap /\ ed.ended = FALSE /\ ed.replay = <<>>
      /\ Editor(ed, port.missed, taken) /\ taken \in Nat
  BY <1>0, EditorFinds
<1>2. /\ Fetched = batch[1] /\ batch # <<>> /\ Drops(Tail(batch), batch)
      /\ Ids(batch) = Ids(Tail(batch)) \cup ({batch[1].id} \ {None})
      /\ ~ term.cooked
  BY <1>0, <1>1, EditorFinds
<1>3. term.cooked = FALSE
  BY <1>2, OrderTypes
<1>4. Held' = Held
  BY <1>0 DEF Held, Attached
<1> DEFINE g == [ed EXCEPT !.waiting = batch[1].id, !.keys = <<>>]
<1>5. Editors(g, batch[1].id, <<>>, <<>>, ed.got, ed.unheld, FALSE)
  BY <1>1 DEF Editors, EditorFields
<1> HIDE DEF g
<1>6. /\ Flow(typed, taken, Tail(batch), g, port.missed, Held, port.closing, FALSE)
      /\ ed.waiting = None /\ ed.keys = <<>>
  <2>1. Flow(typed, taken, batch, ed, port.missed, Held, port.closing, FALSE)
    BY <1>1, <1>3
  <2> QED BY <1>0, <1>1, <1>2, <1>5, <2>1, AnnouncedFlow
<1>7. Editors(ed', batch[1].id, <<>>, <<>>, ed.got, ed.unheld, FALSE)
  BY <1>1, <1>2, <1>6 DEF EditorWaits, Editors, EditorFields, Waits
<1>8. Flow(typed, taken, Tail(batch), ed', port.missed, Held, port.closing, FALSE)
  <2>1. Flow(typed, taken, batch, ed, port.missed, Held, port.closing, FALSE)
    BY <1>1, <1>3
  <2> QED BY <1>0, <1>1, <1>2, <1>7, <2>1, AnnouncedFlow
<1>9. Given(ed') = Given(ed) /\ ed'.waiting = batch[1].id /\ ed'.keys = <<>> /\ ed'.replay = <<>> /\ ~ ed'.ended
  BY <1>7 DEF Editors, Given
<1>10. ~ port.closing => Told(typed, taken, Tail(batch), ed', port.missed, Held)
  <2>1. \A i \in 1..taken : i # None
    BY DEF None
  <2> QED BY <1>1, <1>2, <1>6, <1>9, <2>1, NoIds DEF Told
<1> QED BY <1>0, <1>2, <1>3, <1>4, <1>8, <1>9, <1>10, EditorLeaves
\* The end of the input comes alone, so nothing of it is behind another event.
LEMMA NothingFollows ==
  ASSUME Polled(batch, taken), batch # <<>>, batch[1].kind # "terminal"
  PROVE  Following = <<>>
<1>1. Len(batch) \in Nat /\ 1 \in 1..Len(batch)
  BY DEF Polled
<1>2. Behind("terminal") = {}
  <2> SUFFICES ASSUME NEW i \in 2..Len(batch), batch[i].kind = "terminal" PROVE FALSE
    BY DEF Behind
  <2>1. i \in 1..Len(batch) /\ Len(batch) # 1
    BY <1>1
  <2> QED BY <2>1 DEF Polled
<1>3. Cardinality(Behind("terminal")) = 0
  BY <1>2, FS_EmptySet
<1> QED BY <1>3 DEF Following

\* The draft is cleared with what was behind the paste.
LEMMA EditorClears ==
  ASSUME MInv, OInv, ed.ended \in BOOLEAN, port.state = "started", Idle,
         UNCHANGED <<kind, typed, taken, work, term, call>>,
         ed.replay = <<>>, batch # <<>>, batch[1].kind \in Results,
         batch[1].kind = "paste" => ed.waiting # None,
         batch' = Following, Misses({ed.waiting} \cup Ids(ed.keys) \cup Ids(Tail(batch))),
         ed' = [ed EXCEPT !.waiting = None, !.keys = <<>>, !.unheld = @ \cup Unheld]
  PROVE  OInv'
<1>1. /\ Flow(typed, taken, batch, ed, port.missed, Held, port.closing, term.cooked)
      /\ ~ port.closing => Told(typed, taken, batch, ed, port.missed, Held)
      /\ DOMAIN ed = EditorFields /\ ~ ed.overlap /\ ed.ended = FALSE
  BY EditorFinds
<1>2. /\ Drops(Tail(batch), batch) /\ ~ term.cooked
      /\ batch[1].kind = "paste-rejected" => batch[1].id \in port.missed
  BY EditorFinds DEF Results
<1>3. term.cooked = FALSE
  BY <1>2, OrderTypes
<1>4. batch' = <<>>
  <2>1. Polled(batch, taken)
    BY <1>1 DEF Flow
  <2> QED BY <2>1, NothingFollows DEF Results
<1>5. Held' = Held
  BY DEF Held, Attached
<1> DEFINE q == port.missed \cup (({ed.waiting} \cup Ids(ed.keys) \cup Ids(Tail(batch))) \ ({None} \cup Unheld))
<1>6. /\ port'.missed = q /\ DOMAIN port' = DOMAIN port /\ port'.state = port.state
      /\ port'.asked = port.asked /\ port'.closing = port.closing
  <2>1. DOMAIN port = DOMAIN NewPort
    BY DEF OInv, Ends
  <2> QED BY <2>1 DEF Misses, NewPort
<1>7. Editors(ed', None, <<>>, <<>>, ed.got, ed.unheld \cup Unheld, FALSE)
  BY <1>1 DEF Editors, EditorFields
<1>8. Announced(Unheld, batch)
  BY DEF Announced, Unheld, Behind
<1>9. port.missed \subseteq q
  OBVIOUS
<1>10. CalledOff(q, port.missed, ed, Tail(batch), Unheld)
  BY DEF CalledOff
<1> HIDE DEF q
<1>11. Flow(typed, taken, batch, ed, port.missed, Held, port.closing, FALSE)
  BY <1>1, <1>3
<1>12. Flow(typed, taken, <<>>, ed', q, Held, port.closing, FALSE)
  BY <1>2, <1>7, <1>8, <1>10, <1>11, ClearedFlow
<1>13. ~ port.closing => Told(typed, taken, <<>>, ed', q, Held)
  <2> SUFFICES ASSUME ~ port.closing PROVE Told(typed, taken, <<>>, ed', q, Held)
    OBVIOUS
  <2>1. Told(typed, taken, batch, ed, port.missed, Held)
    BY <1>1
  <2>2. port.closing = FALSE
    BY OrderTypes
  <2>3. Flow(typed, taken, batch, ed, port.missed, Held, FALSE, FALSE)
    BY <1>11, <2>2
  <2>4. Drops(Tail(batch), batch) /\ (batch[1].kind = "paste-rejected" => batch[1].id \in port.missed)
    BY <1>2
  <2> QED BY <1>7, <1>8, <1>10, <2>1, <2>3, <2>4, ClearedFlow
<1>14. ~ ed'.ended
  BY <1>7 DEF Editors
<1>15. /\ Flow(typed, taken, batch', ed', port'.missed, Held', port'.closing, term.cooked)
       /\ ~ port'.closing => Told(typed, taken, batch', ed', port'.missed, Held')
  BY <1>3, <1>4, <1>5, <1>6, <1>12, <1>13
<1>16. port.missed \subseteq port'.missed
  BY <1>6, <1>9
<1> QED BY <1>4, <1>6, <1>14, <1>15, <1>16, EditorLeaves

LEMMA EditorRefusedOrder ==
  ASSUME MInv, OInv, ed.ended \in BOOLEAN, EditorRefused
  PROVE  OInv'
<1>0. /\ port.state = "started" /\ Idle /\ (ed.replay # <<>> \/ batch # <<>>)
      /\ Fetched.kind = "paste-rejected" /\ batch' = Following
      /\ UNCHANGED <<kind, typed, taken, work, term, call>>
  BY DEF EditorRefused, Uses, workerVars, inputVars
<1>1. ed.replay = <<>> /\ batch # <<>> /\ batch[1].kind = "paste-rejected"
  BY <1>0, EditorFinds
<1> QED BY <1>0, <1>1, EditorClears DEF EditorRefused, Results

LEMMA EditorPastesOrder ==
  ASSUME MInv, OInv, ed.ended \in BOOLEAN, EditorPastes
  PROVE  OInv'
<1>0. /\ port.state = "started" /\ Idle /\ (ed.replay # <<>> \/ batch # <<>>) /\ ed.waiting # None
      /\ Fetched.kind = "paste"
      /\ UNCHANGED <<kind, typed, taken, work, term, call>>
  BY DEF EditorPastes, Uses, Waits, workerVars, inputVars
<1>1. /\ ed.replay = <<>> /\ batch # <<>> /\ Fetched = batch[1] /\ batch[1].kind = "paste"
      /\ Drops(Tail(batch), batch)
      /\ Ids(batch) = Ids(Tail(batch)) \cup ({batch[1].id} \ {None})
      /\ ~ term.cooked
  BY <1>0, EditorFinds
<1>2. /\ Flow(typed, taken, batch, ed, port.missed, Held, port.closing, term.cooked)
      /\ ~ port.closing => Told(typed, taken, batch, ed, port.missed, Held)
      /\ DOMAIN ed = EditorFields /\ ~ ed.overlap /\ ed.ended = FALSE
      /\ Editor(ed, port.missed, taken) /\ taken \in Nat
  BY <1>0, EditorFinds
<1>3. term.cooked = FALSE /\ Held' = Held
  BY <1>0, <1>1, OrderTypes DEF Held, Attached
<1>4. Flow(typed, taken, batch, ed, port.missed, Held, port.closing, FALSE)
  BY <1>2, <1>3
<1>5. batch[1].id = ed.waiting
  <2>1. Awaited(batch[1].id, ed)
    <3>1. Polled(batch, taken) /\ Order(batch, ed, port.missed)
      BY <1>2 DEF Flow
    <3> QED BY <1>1, <1>2, <3>1, HeadIs
  <2> QED BY <1>0, <2>1 DEF Awaited
<1>6. CASE /\ ed' = [ed EXCEPT !.waiting = None, !.keys = <<>>, !.replay = ed.keys,
                               !.got = Append(@, Fetched.id)]
           /\ batch' = Tail(batch) /\ UNCHANGED port
  <2>1. Editors(ed', None, <<>>, ed.keys, Append(ed.got, batch[1].id), ed.unheld, FALSE)
    BY <1>1, <1>2, <1>6 DEF Editors, EditorFields
  <2>2. Flow(typed, taken, Tail(batch), ed', port.missed, Held, port.closing, FALSE)
    BY <1>0, <1>1, <1>4, <2>1, PastedFlow
  <2>3. OneMore(Given(ed'), Given(ed), batch[1].id)
    <3>1. ed'.got = Append(ed.got, batch[1].id)
      BY <2>1 DEF Editors
    <3>2. ed.got \in Seq(1..taken)
      BY <1>2 DEF Editor
    <3> QED BY <3>1, <3>2, AppendGiven
  <2>4. ed'.replay = ed.keys /\ ed'.keys = <<>> /\ ~ ed'.ended
    BY <2>1 DEF Editors
  <2>5. ~ port.closing => Told(typed, taken, Tail(batch), ed', port.missed, Held)
    <3>1. \A i \in 1..taken : i # None
      BY DEF None
    <3> QED BY <1>1, <1>2, <1>5, <2>3, <2>4, <3>1, NoIds DEF Told, OneMore
  <2> QED BY <1>0, <1>1, <1>3, <1>6, <2>2, <2>4, <2>5, EditorLeaves
<1>7. CASE /\ ed' = [ed EXCEPT !.waiting = None, !.keys = <<>>, !.unheld = @ \cup Unheld]
           /\ batch' = Following
           /\ Misses({Fetched.id} \cup Ids(ed.keys) \cup Ids(Tail(batch)))
  <2>1. Fetched.id = ed.waiting
    BY <1>1, <1>5
  <2>2. Misses({ed.waiting} \cup Ids(ed.keys) \cup Ids(Tail(batch)))
    BY <1>7, <2>1
  <2>3. batch[1].kind \in Results
    BY <1>1 DEF Results
  <2> QED BY <1>0, <1>1, <1>7, <2>2, <2>3, EditorClears
<1> QED BY <1>6, <1>7 DEF EditorPastes

(* A cancellation or the end of the input while the editor waits.                 *)
LEMMA EditorCancelsOrder ==
  ASSUME MInv, OInv, ed.ended \in BOOLEAN, EditorCancels
  PROVE  OInv'
<1>0. /\ port.state = "started" /\ Idle /\ (ed.replay # <<>> \/ batch # <<>>) /\ ed.waiting # None
      /\ Fetched.kind \in {"cancel", "terminal"} /\ batch' = Tail(batch)
      /\ LetGo /\ term' = Detached(term)
      /\ UNCHANGED <<kind, typed, taken, call>>
  BY DEF EditorCancels, Uses, Waits, CallsOff, Discards, inputVars
<1>1. /\ ed.replay = <<>> /\ batch # <<>> /\ Fetched = batch[1]
      /\ Drops(Tail(batch), batch) /\ ~ term.cooked
      /\ batch[1].kind = "terminal" => term.emitted
  BY <1>0, EditorFinds
<1>2. /\ Flow(typed, taken, batch, ed, port.missed, Held, port.closing, term.cooked)
      /\ ~ port.closing => Told(typed, taken, batch, ed, port.missed, Held)
      /\ DOMAIN ed = EditorFields /\ ~ ed.overlap
  BY <1>0, EditorFinds
<1>3. term.cooked = FALSE /\ Held' = None
  <2>1. term'.worker = None
    BY <1>0, OrderTypes, DetachedSame
  <2> QED BY <1>1, <2>1, OrderTypes DEF Held, Attached
<1>4. Flow(typed, taken, batch, ed, port.missed, Held, port.closing, FALSE)
  BY <1>2, <1>3
<1> DEFINE q == port.missed \cup (({ed.waiting, batch[1].id} \cup Ids(ed.keys)) \ {None})
<1>5. /\ port'.missed = q /\ DOMAIN port' = DOMAIN port /\ port'.state = port.state
      /\ port'.asked = port.asked /\ port'.closing = port.closing
  <2>1. DOMAIN port = DOMAIN NewPort
    BY DEF OInv, Ends
  <2> QED BY <1>1, <2>1 DEF EditorCancels, NewPort
<1>6. Editors(ed', None, <<>>, <<>>, ed.got, ed.unheld, ed'.ended)
  BY <1>1, <1>2 DEF EditorCancels, Editors, EditorFields
<1>7. ed'.ended <=> batch[1].kind = "terminal"
  BY <1>1, <1>2 DEF EditorCancels, EditorFields
<1>8. \A y : y \in q <=> y \in port.missed \cup (({ed.waiting, batch[1].id} \cup Ids(ed.keys)) \ {None})
  OBVIOUS
<1>9. port.missed \subseteq q
  OBVIOUS
<1>10. batch[1].kind \in {"cancel", "terminal"}
  BY <1>0, <1>1
<1> HIDE DEF q
<1>11. Flow(typed, taken, Tail(batch), ed', q, None, port.closing, FALSE)
  BY <1>0, <1>1, <1>4, <1>6, <1>7, <1>8, <1>10, CancelledFlow
<1>12. ~ port.closing => Told(typed, taken, Tail(batch), ed', q, None)
  <2> SUFFICES ASSUME ~ port.closing PROVE Told(typed, taken, Tail(batch), ed', q, None)
    OBVIOUS
  <2>1. Told(typed, taken, batch, ed, port.missed, Held)
    BY <1>2
  <2>2. port.closing = FALSE
    BY OrderTypes
  <2>3. Flow(typed, taken, batch, ed, port.missed, Held, FALSE, FALSE)
    BY <1>4, <2>2
  <2>4. Drops(Tail(batch), batch) /\ batch # <<>> /\ ed.waiting # None
    BY <1>0, <1>1
  <2> QED BY <1>6, <1>7, <1>8, <1>10, <2>1, <2>3, <2>4, CancelledFlow
<1>13. /\ Flow(typed, taken, batch', ed', port'.missed, Held', port'.closing, term.cooked)
       /\ ~ port'.closing => Told(typed, taken, batch', ed', port'.missed, Held')
  BY <1>0, <1>3, <1>5, <1>11, <1>12
<1>14. port.missed \subseteq port'.missed
  BY <1>5, <1>9
<1> QED BY <1>0, <1>1, <1>5, <1>7, <1>13, <1>14, EditorLeaves

(* A key while the editor waits.                                                  *)
LEMMA EditorHoldsOrder ==
  ASSUME MInv, OInv, ed.ended \in BOOLEAN, EditorHolds
  PROVE  OInv'
<1>0. /\ port.state = "started" /\ Idle /\ (ed.replay # <<>> \/ batch # <<>>) /\ ed.waiting # None
      /\ Fetched.kind = "text" /\ batch' = Tail(batch)
      /\ UNCHANGED <<kind, typed, taken, call>>
  BY DEF EditorHolds, Uses, Waits, inputVars
<1>1. /\ ed.replay = <<>> /\ batch # <<>> /\ Fetched = batch[1] /\ batch[1].kind = "text"
      /\ Drops(Tail(batch), batch) /\ ~ term.cooked
      /\ Ids(batch) = Ids(Tail(batch)) \cup ({batch[1].id} \ {None})
  BY <1>0, EditorFinds
<1>2. /\ Flow(typed, taken, batch, ed, port.missed, Held, port.closing, term.cooked)
      /\ ~ port.closing => Told(typed, taken, batch, ed, port.missed, Held)
      /\ DOMAIN ed = EditorFields /\ ~ ed.overlap /\ ed.ended = FALSE
  BY <1>0, EditorFinds
<1>3. term.cooked = FALSE
  BY <1>1, OrderTypes
<1>4. Flow(typed, taken, batch, ed, port.missed, Held, port.closing, FALSE)
  BY <1>2, <1>3
<1>5. CASE ed' = [ed EXCEPT !.keys = Append(@, Fetched)] /\ UNCHANGED <<work, term, port>>
  <2>1. Editors(ed', ed.waiting, Append(ed.keys, batch[1]), <<>>, ed.got, ed.unheld, FALSE)
    BY <1>1, <1>2, <1>5 DEF Editors, EditorFields
  <2>2. Flow(typed, taken, Tail(batch), ed', port.missed, Held, port.closing, FALSE)
    BY <1>0, <1>1, <1>4, <2>1, HeldFlow
  <2>3. Given(ed') = Given(ed) /\ ed'.waiting = ed.waiting /\ ed'.replay = <<>> /\ ~ ed'.ended
    BY <2>1 DEF Editors, Given
  <2>4. OneMore(Ids(ed'.keys), Ids(ed.keys), batch[1].id)
    BY <1>0, <1>1, <1>4, <2>1, HeldFlow
  <2>5. ~ port.closing => Told(typed, taken, Tail(batch), ed', port.missed, Held)
    BY <1>1, <1>2, <2>3, <2>4, NoIds DEF Told, OneMore
  <2>6. Held' = Held
    BY <1>5 DEF Held, Attached
  <2> QED BY <1>0, <1>3, <1>5, <1>1, <2>2, <2>3, <2>5, <2>6, EditorLeaves
<1>6. CASE /\ ed' = [ed EXCEPT !.waiting = None, !.keys = <<>>]
           /\ port' = [port EXCEPT !.closing = TRUE] /\ Discards
  <2>1. Editors(ed', None, <<>>, <<>>, ed.got, ed.unheld, FALSE)
    BY <1>1, <1>2, <1>6 DEF Editors, EditorFields
  <2>2. Flow(typed, taken, Tail(batch), ed', port.missed, None, TRUE, FALSE)
    BY <1>0, <1>1, <1>4, <2>1, OverflowFlow
  <2>3. LetGo /\ term' = Detached(term)
    BY <1>6 DEF Discards
  <2>4. Held' = None
    <3>1. term'.worker = None
      BY <2>3, OrderTypes, DetachedSame
    <3> QED BY <3>1 DEF Held, Attached
  <2>5. /\ port'.missed = port.missed /\ DOMAIN port' = DOMAIN port /\ port'.state = port.state
        /\ port'.asked = port.asked /\ port'.closing = TRUE
    <3>1. DOMAIN port = DOMAIN NewPort
      BY DEF OInv, Ends
    <3> QED BY <1>6, <3>1 DEF NewPort
  <2>6. ~ ed'.ended
    BY <2>1 DEF Editors
  <2> QED BY <1>0, <1>1, <1>3, <2>2, <2>3, <2>4, <2>5, <2>6, EditorLeaves
<1> QED BY <1>5, <1>6 DEF EditorHolds

LEMMA EditorOrder ==
  ASSUME MInv, OInv, ed.ended \in BOOLEAN, EditorNext
  PROVE  OInv'
BY EditorUsesOrder, EditorWaitsOrder, EditorRefusedOrder, EditorPastesOrder, EditorCancelsOrder,
   EditorHoldsOrder DEF EditorNext
-------------------------------------------------------------------------------
LEMMA PortOrder ==
  ASSUME MInv, OInv, raw \in BOOLEAN, PortNext, UNCHANGED ed
  PROVE  OInv'
<1>1. CASE PollNext
  BY <1>1, PollTellsOrder, PollStartsReaderOrder, PollCookedOrder, PollStreamOrder, PollConsoleOrder,
     PollKeyOrder, PollPasteOrder, PollKeyFailsOrder, PollConsoleEndsOrder DEF PollNext
<1>2. CASE CallNext
  BY <1>2, CallReaderOrder, EndsOrder DEF CallNext
<1>3. CASE Start \/ StartRefused
  BY <1>3, StartOrder
<1>4. CASE Quit \/ Join \/ Abandon \/ ClipboardLate
  BY <1>4, BetweenOrder
<1>5. CASE Cancel \/ Restore \/ Close \/ Collect
  BY <1>5, BeginsOrder
<1> QED BY <1>1, <1>2, <1>3, <1>4, <1>5 DEF PortNext

LEMMA InitOrder == Init => OInv /\ ed.ended \in BOOLEAN
<1> SUFFICES ASSUME Init PROVE OInv /\ ed.ended \in BOOLEAN
  OBVIOUS
<1>1. /\ ed.waiting = None /\ ed.keys = <<>> /\ ed.replay = <<>> /\ ed.got = <<>> /\ ed.unheld = {}
      /\ ~ ed.ended /\ ~ ed.overlap /\ DOMAIN ed = EditorFields /\ ed.ended \in BOOLEAN
  BY DEF Init, NewEditor, EditorFields
<1>2. /\ port = NewPort /\ port.state = "created" /\ port.closing = FALSE /\ port.asked = FALSE
      /\ port.missed = {}
  BY DEF Init, NewPort
<1>3. /\ term.cooked = FALSE /\ term.worker = None /\ ~ Attached /\ ~ term.emitted
      /\ call.op = "none" /\ call.events = <<>> /\ ~ Polling /\ batch = <<>> /\ typed = <<>> /\ taken = 0
  BY DEF Init, NoTerminal, NoCall, Attached, Polling
<1>4. Stream = <<>> /\ Held = None /\ Loose = FALSE
  BY <1>2, <1>3 DEF Stream, Held, Loose
<1>5. \A w \in Worker : work[w].at = "unused" /\ work[w].good = FALSE
  BY DEF Init, Unused
<1>6. Polled(<<>>, 0)
  BY DEF Polled, Rising
<1>7. Given(ed) = {} /\ Placed(ed) = {}
  BY <1>1 DEF Given, Placed
<1>8. Editor(ed, {}, 0)
  <2>1. <<>> \in Seq(Texts) /\ Rising(<<>>)
    BY DEF Rising
  <2>2. None \in 0..0
    BY DEF None
  <2>3. <<>> \in Seq(1..0)
    OBVIOUS
  <2> QED BY <1>1, <1>7, <2>1, <2>2, <2>3, NoIds DEF Editor
<1>9. Order(<<>>, ed, {})
  BY <1>1 DEF Order
<1>10. Pastes(<<>>, ed, {}, None, FALSE)
  BY <1>1 DEF Pastes
<1>11. Flow(<<>>, 0, <<>>, ed, {}, None, FALSE, FALSE)
  <2>1. <<>> \in Seq(Strings) /\ None \in 0..0
    BY DEF None
  <2>2. 0 \in Nat /\ 0 <= Len(<<>>)
    OBVIOUS
  <2> QED BY <1>6, <1>8, <1>9, <1>10, <2>1, <2>2, Zenon DEF Flow
<1>12. Told(<<>>, 0, <<>>, ed, {}, None)
  BY DEF Told
<1>13. Polls
  BY <1>1, <1>3, <1>4 DEF Polls
<1>14. Ends
  BY <1>2, <1>3, <1>5 DEF Ends, EndOps
<1> QED BY <1>1, <1>2, <1>3, <1>4, <1>11, <1>12, <1>13, <1>14 DEF OInv

LEMMA NextOrder ==
  ASSUME MInv, raw \in BOOLEAN, DOMAIN ed = EditorFields, OInv, ed.ended \in BOOLEAN, [Next]_vars
  PROVE  OInv' /\ ed'.ended \in BOOLEAN
<1>1. CASE Outside /\ UNCHANGED ed
  BY <1>1, OutsideOrder
<1>2. CASE PortNext /\ UNCHANGED ed
  BY <1>2, PortOrder
<1>3. CASE EditorNext
  <2>1. ed'.ended \in BOOLEAN
    BY <1>3 DEF EditorNext, EditorUses, EditorWaits, EditorRefused, EditorPastes, EditorCancels,
                EditorHolds, EditorFields
  <2> QED BY <1>3, <2>1, EditorOrder
<1>4. CASE UNCHANGED vars
  <2>1. UNCHANGED <<kind, typed, taken, term, call, port, batch, work, ed>>
    BY <1>4 DEF vars, portVars, workerVars, inputVars
  <2>2. Stream' = Stream /\ Held' = Held /\ Loose' = Loose /\ (Attached' <=> Attached) /\ (Polling' <=> Polling)
        /\ Waiting' = Waiting
    BY <2>1 DEF Stream, Held, Loose, Attached, Polling, Waiting
  <2>3. /\ Flow(typed, taken, Stream, ed, port.missed, Held, Loose, term.cooked)'
        /\ ~ port'.closing => Told(typed, taken, Stream, ed, port.missed, Held)'
    BY <2>1, <2>2 DEF OInv
  <2>4. Polls' /\ Ends'
    BY <2>1, <2>2 DEF OInv, Polls, Ends
  <2> QED BY <2>1, <2>3, <2>4 DEF OInv
<1> QED BY <1>1, <1>2, <1>3, <1>4 DEF Next

LEMMA OrderIsInput ==
  ASSUME MInv, OInv
  PROVE  InputInOrder
<1>0. /\ term.worker \in Worker \cup {None} /\ taken \in Nat
      /\ (Polling => batch = <<>>) /\ (~ Polling => call.events = <<>>)
  BY OrderTypes DEF OInv, Polls
<1>1. Editor(ed, port.missed, taken) /\ Order(Stream, ed, port.missed)
  BY DEF OInv, Flow
<1>2. Got = Given(ed)
  BY DEF Got, Given
<1>3. Ids(batch) \cup Ids(call.events) = Ids(Stream)
  BY <1>0, NoIds DEF Stream
<1>4. /\ \A i, j \in 1..Len(ed.got) :
           i < j /\ ed.got[i] \notin ed.unheld /\ ed.got[j] \notin ed.unheld => ed.got[i] < ed.got[j]
      /\ Given(ed) \cap port.missed = {} /\ ~ ed.overlap
  BY <1>1 DEF Editor
<1>5. ed.ended => batch = <<>> /\ ed.replay = <<>> /\ ed.keys = <<>>
  BY <1>0, <1>1 DEF Order, Stream
<1>6. ASSUME ~ port.closing, NEW i \in 1..taken, typed[i] # "end"
      PROVE  i \in Got \cup port.missed \cup OnTheWay
  <2>1. i \in Given(ed) \cup port.missed \cup Ids(Stream) \cup Ids(ed.keys) \cup Ids(ed.replay) \cup {ed.waiting, Held}
    BY <1>6 DEF OInv, Told
  <2>2. i = Held => i \in {work[w].holds : w \in {x \in Worker : x = term.worker}}
    <3>1. i # None
      BY DEF None
    <3> QED BY <1>0, <3>1 DEF Held, Attached
  <2> QED BY <1>2, <1>3, <2>1, <2>2 DEF OnTheWay
<1> QED BY <1>2, <1>4, <1>5, <1>6 DEF InputInOrder

(* What new_chat of src/src/terminal.lua does with the observations of the port:  *)
(* the editor is given what the user typed in the order it was typed, the         *)
(* clipboard's text where it was asked for, nothing of what was called off and    *)
(* nothing after the end; and until the port is to end nothing is lost but what   *)
(* the user is told of.                                                           *)
THEOREM InputInOrderHolds == Spec => []InputInOrder
<1> DEFINE J == /\ MInv /\ raw \in BOOLEAN /\ DOMAIN ed = EditorFields
                /\ OInv /\ ed.ended \in BOOLEAN
<1>1. Init => J
  BY InitModes, InitOrder
<1>2. J /\ [Next]_vars => J'
  <2> SUFFICES ASSUME J, [Next]_vars PROVE J'
    OBVIOUS
  <2>1. IInv'
    BY NextKeeps DEF MInv
  <2>2. MInv' /\ raw' \in BOOLEAN /\ DOMAIN ed' = EditorFields
    BY <2>1, NextModes
  <2>3. OInv' /\ ed'.ended \in BOOLEAN
    BY NextOrder
  <2> QED BY <2>2, <2>3
<1>3. J => InputInOrder
  BY OrderIsInput
<1> HIDE DEF J
<1> QED BY <1>1, <1>2, <1>3, PTL DEF Spec
===============================================================================
