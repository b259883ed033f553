---------------------------- MODULE ProcessProofs ----------------------------
(***************************************************************************)
(* Proofs about ProcessPort, for every set of processes, any number of     *)
(* forks, outputs and faults and any budget of a poll, on both systems: no *)
(* proof of termination is told while a process of the activity lives, the *)
(* outcome is the one that came about, and the end is told after the       *)
(* output.  The inductive invariant says what the supervisor, its record,  *)
(* the start, the outcome and the streams imply about the processes.       *)
(***************************************************************************)
EXTENDS ProcessPort, FiniteSetTheorems, TLAPS

-------------------------------------------------------------------------------
(* The inductive invariant.                                                    *)

ProcStates == {"unborn", "suspended", "live", "zombie", "gone"}

Exits == {"none", "zero", "nonzero"}

SupAts == {"none", "setup", "announce", "control", "reap", "feed", "list", "kill", "leave", "exited"}

\* The states of a port that has not become the caller's.
Unready == {"new", "request", "built", "starting", "waiting", "assign", "resume", "feed", "refused"}

PortAts == Unready \cup {"idle", "stdout", "stderr", "refresh", "drain stdout", "drain stderr",
                         "terminal", "collect", "closed", "crashed"}

Outcomes == {"none", "completed", "failed", "cancelled", "unknown"}

TreeTypes ==
  /\ system \in {"posix", "windows"}
  /\ proc \in [Process -> ProcStates] /\ parent \in [Process -> Process \cup {Reaper}]
  /\ writers \subseteq Process /\ stopped \subseteq Process /\ leaderExit \in Exits
  /\ pipe \in [Stream -> Nat]

Supervisors == [at : SupAts, leaderDone : BOOLEAN, leaderStatus : Exits, cancelled : BOOLEAN,
                interrupted : BOOLEAN, input : BOOLEAN, list : SUBSET Process, ok : BOOLEAN]

Records == [sent : BOOLEAN, exit : Exits, cancelled : BOOLEAN]

Ports == [at : PortAts, open : SUBSET Stream, room : Nat, reaped : BOOLEAN, outcome : Outcomes,
          proven : BOOLEAN, cancel : BOOLEAN, told : BOOLEAN, lost : BOOLEAN,
          writer : {"none", "writing", "done", "error"}, input : BOOLEAN]

TypeOK ==
  /\ TreeTypes
  /\ sup \in Supervisors /\ record \in Records /\ control \in BOOLEAN
  /\ port \in Ports

\* Every process has the reaper for a parent or an older one that lives, so that there
\* is a child of the reaper as long as anything lives; who can write lives.
TreeOK ==
  /\ \A p \in Process : parent[p] # Reaper => parent[p] < p /\ proc[parent[p]] = "live"
  /\ writers \subseteq Living
  /\ Posix => \A p \in Process : proc[p] # "suspended"

Unborn == \A p \in Process : proc[p] = "unborn"

\* What the supervisor knows and has done, by how far it is.
SupervisorOK ==
  /\ ~ Posix => sup.at = "none"
  /\ sup.at \in {"none", "setup"} /\ Posix => Unborn /\ startup = "empty"
  /\ sup.at \in {"none", "setup", "announce"} => ~ sup.cancelled /\ ~ sup.leaderDone
  /\ sup.at = "leave" \/ sup.ok => record.sent
  /\ sup.leaderDone => proc[Leader] = "gone" /\ sup.leaderStatus = leaderExit
  /\ Posix /\ ~ sup.cancelled => stopped = {} /\ sup.at \notin {"list", "kill"}

\* What its record proves.
RecordOK ==
  record.sent =>
    /\ Posix /\ sup.at \in {"leave", "exited"} /\ Living = {}
    /\ record.cancelled = sup.cancelled /\ record.exit = leaderExit

\* How far the start is, and what a refused one has left.
StartOK ==
  /\ port.at \in {"new", "request", "built"} => sup.at = "none" /\ Unborn
  /\ Posix /\ sup.at = "none" => port.at \in {"new", "request", "built", "refused"}
  /\ Posix /\ sup.at = "setup" => port.at \in Unready \cup {"crashed"} /\ port.outcome = "none" /\ ~ port.told
  /\ port.at \in {"assign", "resume", "feed"} => ~ Posix
  /\ port.at = "refused" => IF Posix THEN sup.at \in {"none", "exited"} ELSE Living = {}
  /\ port.at \in Unready => port.outcome = "none" /\ ~ port.proven /\ ~ port.told

\* Whoever lets go of the control pipe has cancelled, or is done with the port.
Asked == port.cancel \/ port.at \in {"waiting", "refused", "crashed", "collect", "closed"}

\* What the port says of the activity.
OutcomeOK ==
  /\ port.proven => Living = {} /\ (Posix => record.sent)
  /\ port.outcome \in {"completed", "failed", "cancelled"} => port.proven
  /\ port.outcome \in {"completed", "failed"} => stopped = {} /\ port.outcome = Outcome(leaderExit)
  /\ port.outcome = "cancelled" => port.cancel \/ sup.interrupted \/ port.at \in {"collect", "closed"}
  /\ port.at = "collect" => port.outcome = "none" /\ Posix
  /\ Posix /\ sup.at # "none" /\ (~ control \/ sup.cancelled) => Asked \/ sup.interrupted
  /\ ~ Posix /\ ~ port.cancel /\ port.at \notin {"refused", "closed", "crashed"} => stopped = {}

Dry(s) == pipe[s] = 0 /\ writers = {}

\* What is left of the streams.
StreamsOK ==
  /\ \A s \in Stream \ port.open :
       port.at \in Unready \cup {"closed", "crashed"} \/ port.outcome = "unknown" \/ Dry(s)
  /\ port.told => port.outcome # "none" /\ (port.outcome = "unknown" \/ \A s \in Stream : Dry(s))

IInv ==
  /\ TypeOK /\ TreeOK /\ SupervisorOK /\ RecordOK /\ StartOK /\ OutcomeOK /\ StreamsOK
-------------------------------------------------------------------------------
(* The processes.                                                              *)

\* What no step but the creation of the leader does: nobody comes to life where nobody
\* lives, the leader that is gone stays gone, and a stream that has ended stays ended.
Calm ==
  /\ TreeTypes' /\ TreeOK' /\ system' = system
  /\ Living = {} => Living' = {} /\ UNCHANGED <<leaderExit, stopped>>
  /\ proc[Leader] = "gone" => proc'[Leader] = "gone" /\ leaderExit' = leaderExit
  /\ \A s \in Stream : Dry(s) => Dry(s)'

(* Among some natural numbers there is a least one.                            *)
LEMMA Least ==
  ASSUME NEW S, S \subseteq Nat, S # {}
  PROVE  \E m \in S : \A n \in S : m <= n
<1> DEFINE T == {0..n : n \in S}
<1>1. T \subseteq FiniteSubsetsOf(Nat)
  <2> SUFFICES ASSUME NEW n \in S PROVE 0..n \subseteq Nat /\ IsFiniteSet(0..n)
    BY DEF FiniteSubsetsOf
  <2> QED BY FS_Interval
<1>2. T # {}
  OBVIOUS
<1>3. IsWellFoundedOn(StrictSubsetOrdering(Nat), FiniteSubsetsOf(Nat))
  BY FS_StrictSubsetOrderingWellFounded
<1>4. PICK x \in T : \A y \in T : <<y, x>> \notin StrictSubsetOrdering(Nat)
  <2> HIDE DEF T
  <2> QED BY <1>1, <1>2, <1>3, WFMin
<1>5. PICK m \in S : x = 0..m
  OBVIOUS
<1>6. ASSUME NEW n \in S, n < m PROVE FALSE
  <2>1. 0..n \subseteq 0..m /\ m \in 0..m /\ m \notin 0..n /\ 0..m \subseteq Nat
    BY <1>6
  <2>2. <<0..n, 0..m>> \in StrictSubsetOrdering(Nat)
    BY <2>1 DEF StrictSubsetOrdering
  <2> QED BY <1>4, <1>5, <2>2
<1> QED BY <1>6

(* The supervisor that has no child has no descendant either: the oldest living  *)
(* process is a child of the reaper.                                            *)
LEMMA ReaperSeesAll ==
  ASSUME TypeOK, TreeOK, Posix, Unreaped = {}
  PROVE  Living = {}
<1> SUFFICES ASSUME Living # {} PROVE FALSE
  OBVIOUS
<1>1. Living \subseteq Nat /\ Living \subseteq Process
  BY ActivityAssumption DEF Living
<1>2. PICK m \in Living : \A n \in Living : m <= n
  BY <1>1, Least
<1>3. m \in Process /\ proc[m] = "live"
  BY <1>2 DEF Living, Alive, TreeOK
<1>4. parent[m] # Reaper
  BY <1>3 DEF Unreaped
<1>5. parent[m] \in Process /\ parent[m] < m /\ proc[parent[m]] = "live"
  BY <1>3, <1>4 DEF TypeOK, TreeTypes, TreeOK
<1>6. parent[m] \in Living
  BY <1>5 DEF Living, Alive
<1>7. m <= parent[m] /\ m \in Nat /\ parent[m] \in Nat
  BY <1>1, <1>2, <1>6
<1> QED BY <1>5, <1>7

LEMMA DieIsCalm ==
  ASSUME TypeOK, TreeOK, NEW S, S \subseteq Living, NEW how \in Exits, Die(S, how),
         UNCHANGED <<system, pipe>>, stopped' \subseteq stopped \cup S, stopped \subseteq stopped'
  PROVE  Calm /\ Living' = Living \ S /\ (Unborn => Unborn')
<1>1. S \subseteq Process /\ Leader \in Process /\ Reaper \notin Process
  BY ActivityAssumption DEF Living
<1>2. \A p \in Process :
        /\ p \in S => proc'[p] \in {"gone", "zombie"} /\ (~ Posix => proc'[p] = "gone")
        /\ p \notin S => proc'[p] = proc[p] \/ (proc[p] = "zombie" /\ proc'[p] = "gone")
  BY DEF Die, Remains
<1>3. proc' \in [Process -> ProcStates]
  BY <1>2 DEF Die, Remains, TypeOK, TreeTypes, ProcStates
<1>4. \A p \in Process : parent'[p] = IF parent[p] \in S THEN Reaper ELSE parent[p]
  BY DEF Die
<1>5. parent' \in [Process -> Process \cup {Reaper}]
  BY DEF Die, TypeOK, TreeTypes
<1>6. TreeTypes'
  BY <1>1, <1>3, <1>5 DEF Die, TypeOK, TreeTypes
<1>7. Living' = Living \ S
  BY <1>2 DEF Living, Alive
<1>8. TreeOK'
  <2>1. ASSUME NEW p \in Process, parent'[p] # Reaper
        PROVE  parent'[p] < p /\ proc'[parent'[p]] = "live"
    <3>1. parent[p] \notin S /\ parent'[p] = parent[p] /\ parent[p] \in Process
      BY <1>4, <2>1 DEF TypeOK, TreeTypes
    <3>2. parent[p] < p /\ proc[parent[p]] = "live"
      BY <2>1, <3>1 DEF TreeOK
    <3> QED BY <1>2, <3>1, <3>2
  <2>2. writers' \subseteq Living'
    BY <1>7 DEF Die, TreeOK
  <2>3. Posix' => \A p \in Process : proc'[p] # "suspended"
    BY <1>2 DEF TreeOK, Posix
  <2> QED BY <2>1, <2>2, <2>3 DEF TreeOK
<1>9. Living = {} => Living' = {} /\ UNCHANGED <<leaderExit, stopped>>
  BY <1>7 DEF Die
<1>10. proc[Leader] = "gone" => proc'[Leader] = "gone" /\ leaderExit' = leaderExit
  <2>1. proc[Leader] = "gone" => Leader \notin S
    BY DEF Living, Alive
  <2> QED BY <1>1, <1>2, <2>1 DEF Die
<1>11. \A s \in Stream : Dry(s) => Dry(s)'
  BY DEF Dry, Die
<1>12. Unborn => Unborn'
  <2>1. Unborn => S = {}
    BY DEF Unborn, Living, Alive
  <2> QED BY <1>2, <2>1 DEF Unborn
<1> QED BY <1>6, <1>7, <1>8, <1>9, <1>10, <1>11, <1>12 DEF Calm

(* A step that only ends zombies, or none.                                     *)
LEMMA FadingIsCalm ==
  ASSUME TypeOK, TreeOK, UNCHANGED <<system, parent, leaderExit, stopped>>,
         writers' \subseteq writers, proc' \in [Process -> ProcStates],
         \A p \in Process : proc'[p] = proc[p] \/ (proc[p] = "zombie" /\ proc'[p] = "gone"),
         pipe' \in [Stream -> Nat], \A s \in Stream : pipe[s] = 0 => pipe'[s] = 0
  PROVE  Calm /\ Living' = Living
<1>1. Living' = Living
  BY DEF Living, Alive
<1>2. TreeTypes'
  BY DEF TypeOK, TreeTypes
<1>3. TreeOK'
  <2>1. ASSUME NEW p \in Process, parent'[p] # Reaper
        PROVE  parent'[p] < p /\ proc'[parent'[p]] = "live"
    BY <2>1 DEF TypeOK, TreeTypes, TreeOK
  <2>2. writers' \subseteq Living'
    BY <1>1 DEF TreeOK
  <2>3. Posix' => \A p \in Process : proc'[p] # "suspended"
    BY DEF TreeOK, Posix
  <2> QED BY <2>1, <2>2, <2>3 DEF TreeOK
<1>4. proc[Leader] = "gone" => proc'[Leader] = "gone"
  BY ActivityAssumption
<1>5. \A s \in Stream : Dry(s) => Dry(s)'
  BY DEF Dry
<1> QED BY <1>1, <1>2, <1>3, <1>4, <1>5 DEF Calm

LEMMA StillIsCalm ==
  ASSUME TypeOK, TreeOK, UNCHANGED treeVars
  PROVE  Calm /\ Living' = Living /\ (Unborn => Unborn')
<1>1. UNCHANGED <<system, proc, parent, writers, leaderExit, stopped, pipe>>
  BY DEF treeVars
<1>2. Calm /\ Living' = Living
  BY <1>1, FadingIsCalm DEF TypeOK, TreeTypes
<1> QED BY <1>1, <1>2 DEF Unborn

(* A process is forked by one that lives, and is younger.                       *)
LEMMA ForkIsCalm ==
  ASSUME TypeOK, TreeOK, NEW p \in Process, Fork(p)
  PROVE  Calm
<1>1. PICK q \in Process :
        /\ proc[p] = "live" /\ proc[q] = "unborn" /\ p < q
        /\ proc' = [proc EXCEPT ![q] = "live"]
        /\ parent' = [parent EXCEPT ![q] = p]
        /\ writers' = IF p \in writers THEN writers \cup {q} ELSE writers
        /\ UNCHANGED <<system, leaderExit, stopped, pipe>>
  BY DEF Fork
<1>2. TreeTypes'
  BY <1>1 DEF TypeOK, TreeTypes, ProcStates
<1>3. p \in Living /\ Living' = Living \cup {q}
  BY <1>1 DEF Living, Alive, TypeOK, TreeTypes
<1>4. TreeOK'
  <2>1. ASSUME NEW x \in Process, parent'[x] # Reaper
        PROVE  parent'[x] < x /\ proc'[parent'[x]] = "live"
    <3>1. CASE x = q
      BY <1>1, <3>1 DEF TypeOK, TreeTypes
    <3>2. CASE x # q
      <4>1. parent'[x] = parent[x] /\ parent[x] \in Process
        BY <1>1, <2>1, <3>2 DEF TypeOK, TreeTypes
      <4>2. parent[x] < x /\ proc[parent[x]] = "live"
        BY <2>1, <4>1 DEF TreeOK
      <4> QED BY <1>1, <4>1, <4>2 DEF TypeOK, TreeTypes
    <3> QED BY <3>1, <3>2
  <2>2. writers' \subseteq Living'
    BY <1>1, <1>3 DEF TreeOK
  <2>3. Posix' => \A x \in Process : proc'[x] # "suspended"
    BY <1>1 DEF TreeOK, Posix, TypeOK, TreeTypes
  <2> QED BY <2>1, <2>2, <2>3 DEF TreeOK
<1>5. proc[Leader] = "gone" => proc'[Leader] = "gone"
  BY <1>1, ActivityAssumption DEF TypeOK, TreeTypes
<1>6. \A s \in Stream : Dry(s) => Dry(s)'
  BY <1>1 DEF Dry
<1> QED BY <1>1, <1>2, <1>3, <1>4, <1>5, <1>6 DEF Calm

(* The activity's own steps: someone of it is still there.                      *)
LEMMA TreeIsCalm ==
  ASSUME TypeOK, TreeOK, TreeNext
  PROVE  Calm /\ stopped' = stopped /\ ~ Unborn
<1>1. PICK p \in Process :
        Fork(p) \/ Exit(p) \/ Wait(p) \/ CloseOutputs(p) \/ \E s \in Stream : Write(p, s)
  BY DEF TreeNext
<1>2. stopped' = stopped /\ proc[p] \in {"live", "zombie"}
  BY <1>1 DEF Fork, Exit, Wait, CloseOutputs, Write
<1>3. ~ Unborn
  BY <1>2 DEF Unborn
<1>4. CASE Fork(p)
  BY <1>2, <1>3, <1>4, ForkIsCalm
<1>5. CASE Exit(p)
  <2>1. PICK how \in {"zero", "nonzero"} : Die({p}, how)
    BY <1>5 DEF Exit
  <2>2. /\ {p} \subseteq Living /\ UNCHANGED <<system, pipe>>
        /\ stopped' \subseteq stopped \cup {p} /\ stopped \subseteq stopped'
    BY <1>2, <1>5 DEF Exit, Living, Alive
  <2>0. how \in Exits
    BY DEF Exits
  <2>3. Calm
    BY <2>0, <2>1, <2>2, DieIsCalm
  <2> QED BY <1>2, <1>3, <2>3
<1>6. CASE Wait(p)
  <2>1. /\ UNCHANGED <<system, parent, writers, leaderExit, stopped, pipe>>
        /\ proc' \in [Process -> ProcStates]
        /\ \A x \in Process : proc'[x] = proc[x] \/ (proc[x] = "zombie" /\ proc'[x] = "gone")
    BY <1>6 DEF Wait, TypeOK, TreeTypes, ProcStates
  <2>2. Calm
    BY <2>1, FadingIsCalm DEF TypeOK, TreeTypes
  <2> QED BY <1>2, <1>3, <2>2
<1>7. CASE CloseOutputs(p)
  <2>1. /\ UNCHANGED <<system, proc, parent, leaderExit, stopped, pipe>> /\ writers' \subseteq writers
    BY <1>7 DEF CloseOutputs
  <2>2. Calm
    BY <2>1, FadingIsCalm DEF TypeOK, TreeTypes
  <2> QED BY <1>2, <1>3, <2>2
<1>8. CASE \E s \in Stream : Write(p, s)
  <2>1. PICK s \in Stream : Write(p, s)
    BY <1>8
  <2>2. /\ UNCHANGED <<system, proc, parent, writers, leaderExit, stopped>>
        /\ p \in writers /\ pipe' = [pipe EXCEPT ![s] = @ + 1]
    BY <2>1 DEF Write
  <2>3. TreeTypes'
    BY <2>2 DEF TypeOK, TreeTypes
  <2>4. TreeOK' /\ Living' = Living
    BY <2>2 DEF TreeOK, Living, Alive, Posix
  <2>5. \A x \in Stream : ~ Dry(x)
    BY <2>2 DEF Dry
  <2> QED BY <1>2, <1>3, <2>2, <2>3, <2>4, <2>5 DEF Calm
<1> QED BY <1>1, <1>2, <1>3, <1>4, <1>5, <1>6, <1>7, <1>8
(* The supervisor's end: init waits for the zombies that are left.               *)
LEMMA SupervisorEndIsCalm ==
  ASSUME TypeOK, TreeOK, NEW ok, SupervisorEnds(ok)
  PROVE  Calm /\ stopped' = stopped /\ (Unborn => Unborn')
<1>1. /\ UNCHANGED <<system, parent, writers, leaderExit, stopped, pipe>>
      /\ proc' = [p \in Process |->
                    IF parent[p] = Reaper /\ proc[p] = "zombie" THEN "gone" ELSE proc[p]]
  BY DEF SupervisorEnds
<1>2. /\ proc' \in [Process -> ProcStates]
      /\ \A p \in Process : proc'[p] = proc[p] \/ (proc[p] = "zombie" /\ proc'[p] = "gone")
  BY <1>1 DEF TypeOK, TreeTypes, ProcStates
<1>3. Calm
  BY <1>1, <1>2, FadingIsCalm DEF TypeOK, TreeTypes
<1>4. Unborn => Unborn'
  BY <1>1 DEF Unborn
<1> QED BY <1>1, <1>3, <1>4

(* The leader is created where there was nobody.                                 *)
LEMMA CreateStarts ==
  ASSUME TypeOK, TreeOK, Unborn, NEW state \in {"suspended", "live"}, Create(state),
         state = "suspended" => ~ Posix, UNCHANGED <<system, leaderExit, stopped, pipe>>
  PROVE  TreeTypes' /\ TreeOK'
<1>1. Leader \in Process /\ Reaper \notin Process
  BY ActivityAssumption
<1>2. /\ proc' = [proc EXCEPT ![Leader] = state]
      /\ parent' = [parent EXCEPT ![Leader] = Reaper]
      /\ writers' = {Leader}
  BY DEF Create
<1>3. TreeTypes'
  BY <1>1, <1>2 DEF TypeOK, TreeTypes, ProcStates
<1>4. Leader \in Living'
  BY <1>1, <1>2 DEF Living, Alive, TypeOK, TreeTypes
<1>5. ASSUME NEW p \in Process, parent'[p] # Reaper PROVE FALSE
  <2>1. parent[p] # Reaper /\ parent[p] \in Process
    BY <1>1, <1>2, <1>5 DEF TypeOK, TreeTypes
  <2> QED BY <2>1 DEF TreeOK, Unborn
<1>6. Posix' => \A p \in Process : proc'[p] # "suspended"
  BY <1>1, <1>2 DEF Posix, TypeOK, TreeTypes, TreeOK
<1> QED BY <1>2, <1>3, <1>4, <1>5, <1>6 DEF TreeOK
-------------------------------------------------------------------------------
(* The supervisor.                                                              *)

(* What a step of the supervisor leaves true of the port: it grants the owner    *)
(* nothing back, and takes a cancellation from someone who has asked for it.      *)
LEMMA PortOverSupervisor ==
  ASSUME IInv, Calm, Posix, UNCHANGED <<port, control>>, SupervisorRuns,
         sup'.at # "none", sup'.at = "setup" => sup.at = "setup",
         sup.interrupted => sup'.interrupted,
         sup'.cancelled => sup.cancelled \/ ~ control \/ sup'.interrupted \/ ~ StatusRead,
         record.sent => record'.sent
  PROVE  StartOK' /\ OutcomeOK' /\ StreamsOK'
<1>1. Posix' /\ sup.at \notin {"none", "exited"} /\ (Living = {} => Living' = {})
  BY DEF Calm, Posix, SupervisorRuns
<1>2. StartOK'
  BY <1>1 DEF IInv, StartOK
<1>3. Living = {} => leaderExit' = leaderExit /\ stopped' = stopped
  BY DEF Calm
<1>4. port.outcome \in {"completed", "failed"} => stopped' = {} /\ port.outcome = Outcome(leaderExit)'
  <2> SUFFICES ASSUME port.outcome \in {"completed", "failed"}
               PROVE  stopped' = {} /\ port.outcome = Outcome(leaderExit)'
    OBVIOUS
  <2>1. Living = {} /\ stopped = {} /\ port.outcome = Outcome(leaderExit)
    BY DEF IInv, OutcomeOK
  <2> QED BY <1>3, <2>1 DEF Outcome
<1>5. ~ control' \/ sup'.cancelled => Asked' \/ sup'.interrupted
  <2>1. Asked' = Asked
    BY DEF Asked
  <2>2. ~ control \/ sup.cancelled => Asked \/ sup.interrupted
    BY <1>1 DEF IInv, OutcomeOK
  <2>3. ~ StatusRead => Asked
    BY DEF StatusRead, Asked
  <2> QED BY <2>1, <2>2, <2>3
<1>6. OutcomeOK'
  BY <1>1, <1>4, <1>5 DEF IInv, OutcomeOK
<1>7. StreamsOK'
  BY DEF IInv, StreamsOK, Calm
<1> QED BY <1>2, <1>6, <1>7

LEMMA LoopKeeps ==
  ASSUME IInv, Posix, UNCHANGED treeVars, UNCHANGED <<port, control>>,
         sup.at \notin {"none", "setup", "exited"},
         sup' \in Supervisors, record' \in Records,
         sup'.at \notin {"none", "setup", "announce", "exited"}, ~ sup'.ok,
         sup'.leaderDone = sup.leaderDone, sup'.leaderStatus = sup.leaderStatus,
         sup.interrupted => sup'.interrupted, sup.cancelled => sup'.cancelled,
         sup'.cancelled => sup.cancelled \/ ~ control \/ sup'.interrupted \/ ~ StatusRead,
         sup'.at \in {"list", "kill"} => sup'.cancelled,
         \/ UNCHANGED record /\ (sup'.at = "leave" <=> sup.at = "leave")
            /\ (record.sent => sup'.cancelled = sup.cancelled)
         \/ /\ record'.sent /\ sup'.at = "leave" /\ Living = {}
            /\ record'.cancelled = sup'.cancelled /\ record'.exit = leaderExit
  PROVE  IInv'
<1>1. Calm /\ Living' = Living /\ UNCHANGED <<system, proc, leaderExit, stopped>>
  BY StillIsCalm DEF IInv, treeVars
<1>2. TypeOK' /\ TreeOK'
  BY <1>1 DEF IInv, TypeOK, Calm
<1>3. sup.at # "leave" => ~ record.sent
  BY DEF IInv, RecordOK
<1>4. StartOK' /\ OutcomeOK' /\ StreamsOK'
  <2>1. SupervisorRuns /\ (record.sent => record'.sent)
    BY DEF SupervisorRuns
  <2> QED BY <1>1, <2>1, PortOverSupervisor
<1>5. SupervisorOK'
  BY <1>1, <1>3 DEF IInv, SupervisorOK, Posix, TypeOK, Supervisors, Records
<1>6. RecordOK'
  BY <1>1, <1>3 DEF IInv, RecordOK, Posix
<1> QED BY <1>2, <1>4, <1>5, <1>6 DEF IInv
LEMMA LoopStepKeeps ==
  ASSUME IInv, Posix, UNCHANGED <<port, control>>,
         \/ Announce(StatusRead) \/ ReadControl \/ Report \/ NothingToReap \/ ListChildren
         \/ KillRefused \/ PassEnds \/ FeedInput
  PROVE  IInv'
<1>0. sup \in Supervisors /\ record \in Records /\ TypeOK /\ TreeOK
  BY DEF IInv, TypeOK
<1>1. ~ sup.ok \/ sup.at \notin {"announce", "control", "reap", "list", "kill", "feed"}
  BY DEF IInv, SupervisorOK, RecordOK
<1>2. sup.at \in {"list", "kill"} => sup.cancelled
  BY <1>0 DEF IInv, SupervisorOK, Supervisors
<1>3. sup.at # "leave" => ~ record.sent \/ sup.at = "exited"
  BY DEF IInv, RecordOK
<1>4. CASE Announce(StatusRead)
  <2>1. /\ UNCHANGED treeVars /\ sup.at = "announce" /\ UNCHANGED record
        /\ sup' = [sup EXCEPT !.at = "control", !.cancelled = ~ StatusRead]
    BY <1>4 DEF Announce
  <2>2. ~ sup.cancelled
    BY <2>1 DEF IInv, SupervisorOK
  <2>3. /\ sup' \in Supervisors /\ ~ sup'.ok /\ sup'.at = "control"
        /\ sup'.leaderDone = sup.leaderDone /\ sup'.leaderStatus = sup.leaderStatus
        /\ sup'.interrupted = sup.interrupted /\ (sup'.cancelled <=> ~ StatusRead)
    BY <1>0, <1>1, <2>1 DEF Supervisors, SupAts, StatusRead
  <2>4. ~ record.sent
    BY <1>3, <2>1
  <2>5. sup'.at \notin {"none", "setup", "announce", "exited", "list", "kill", "leave"}
    BY <2>3
  <2> QED BY <1>0, <2>1, <2>2, <2>3, <2>4, <2>5, LoopKeeps
<1>5. CASE ReadControl
  <2>1. /\ UNCHANGED treeVars /\ sup.at = "control" /\ UNCHANGED record
        /\ sup' = [sup EXCEPT !.at = "reap", !.cancelled = @ \/ ~ control \/ sup.interrupted]
    BY <1>5 DEF ReadControl
  <2>2. /\ sup' \in Supervisors /\ sup'.at = "reap" /\ ~ sup'.ok
        /\ sup'.leaderDone = sup.leaderDone /\ sup'.leaderStatus = sup.leaderStatus
        /\ sup'.interrupted = sup.interrupted
        /\ sup'.cancelled <=> sup.cancelled \/ ~ control \/ sup.interrupted
    BY <1>0, <1>1, <2>1 DEF TypeOK, IInv, Supervisors, SupAts
  <2> QED BY <1>0, <1>3, <2>1, <2>2, LoopKeeps
<1>6. CASE Report
  <2>1. /\ UNCHANGED treeVars /\ sup.at = "reap" /\ Proven
        /\ record' = [sent |-> TRUE, exit |-> sup.leaderStatus, cancelled |-> sup.cancelled]
        /\ sup' = [sup EXCEPT !.at = "leave"]
    BY <1>6 DEF Report
  <2>2. /\ sup' \in Supervisors /\ sup'.at = "leave" /\ ~ sup'.ok
        /\ sup'.leaderDone = sup.leaderDone /\ sup'.leaderStatus = sup.leaderStatus
        /\ sup'.interrupted = sup.interrupted /\ sup'.cancelled = sup.cancelled
    BY <1>0, <1>1, <2>1 DEF Supervisors, SupAts
  <2>3. Living = {} /\ sup.leaderStatus = leaderExit
    BY <1>0, <2>1, ReaperSeesAll DEF Proven, IInv, SupervisorOK
  <2>4. record' \in Records /\ record'.sent /\ record'.cancelled = sup'.cancelled
        /\ record'.exit = leaderExit
    BY <1>0, <2>1, <2>2, <2>3 DEF Records, Supervisors
  <2> QED BY <2>1, <2>2, <2>3, <2>4, LoopKeeps
<1>7. CASE NothingToReap
  <2>1. /\ UNCHANGED treeVars /\ sup.at = "reap" /\ UNCHANGED record
        /\ sup' = [sup EXCEPT !.at = IF sup.cancelled THEN "list" ELSE "feed",
                              !.input = @ /\ ~ sup.cancelled]
    BY <1>7 DEF NothingToReap, ReapedAll
  <2>2. /\ sup' \in Supervisors /\ ~ sup'.ok
        /\ sup'.at = IF sup.cancelled THEN "list" ELSE "feed"
        /\ sup'.leaderDone = sup.leaderDone /\ sup'.leaderStatus = sup.leaderStatus
        /\ sup'.interrupted = sup.interrupted /\ sup'.cancelled = sup.cancelled
    BY <1>0, <1>1, <2>1 DEF Supervisors, SupAts
  <2> QED BY <1>0, <1>3, <2>1, <2>2, LoopKeeps
<1>8. CASE ListChildren \/ KillRefused \/ PassEnds
  <2>1. /\ UNCHANGED treeVars /\ sup.at \in {"list", "kill"} /\ UNCHANGED record
        /\ \/ \E l \in SUBSET Process : sup' = [sup EXCEPT !.at = "kill", !.list = l]
           \/ sup.at = "kill" /\ sup' = [sup EXCEPT !.list = {}]
           \/ sup' = [sup EXCEPT !.at = "control"]
    BY <1>8 DEF ListChildren, KillRefused, PassEnds, Unreaped
  <2>2. /\ sup' \in Supervisors /\ ~ sup'.ok /\ sup'.at \in {"kill", "control"}
        /\ sup'.leaderDone = sup.leaderDone /\ sup'.leaderStatus = sup.leaderStatus
        /\ sup'.interrupted = sup.interrupted /\ sup'.cancelled = sup.cancelled
    BY <1>0, <1>1, <2>1 DEF Supervisors, SupAts
  <2> QED BY <1>0, <1>2, <1>3, <2>1, <2>2, LoopKeeps
<1>9. CASE FeedInput
  <2>1. /\ UNCHANGED treeVars /\ sup.at = "feed" /\ UNCHANGED record
        /\ \E more \in BOOLEAN : sup' = [sup EXCEPT !.at = "control", !.input = more]
    BY <1>0, <1>9 DEF FeedInput, Supervisors
  <2>2. /\ sup' \in Supervisors /\ ~ sup'.ok /\ sup'.at = "control"
        /\ sup'.leaderDone = sup.leaderDone /\ sup'.leaderStatus = sup.leaderStatus
        /\ sup'.interrupted = sup.interrupted /\ sup'.cancelled = sup.cancelled
    BY <1>0, <1>1, <2>1 DEF Supervisors, SupAts
  <2> QED BY <1>0, <1>3, <2>1, <2>2, LoopKeeps
<1> QED BY <1>4, <1>5, <1>6, <1>7, <1>8, <1>9

LEMMA InterruptedKeeps ==
  ASSUME IInv, Posix, UNCHANGED <<port, control>>, Interrupted
  PROVE  IInv'
<1>0. sup \in Supervisors /\ record \in Records /\ TypeOK /\ TreeOK
  BY DEF IInv, TypeOK
<1>1. /\ UNCHANGED treeVars /\ UNCHANGED <<startup, record>> /\ SupervisorRuns
      /\ sup' = [sup EXCEPT !.interrupted = TRUE]
  BY DEF Interrupted
<1>2. /\ sup' \in Supervisors /\ sup'.at = sup.at /\ sup'.ok = sup.ok /\ sup'.interrupted
      /\ sup'.leaderDone = sup.leaderDone /\ sup'.leaderStatus = sup.leaderStatus
      /\ sup'.cancelled = sup.cancelled
  BY <1>0, <1>1 DEF Supervisors
<1>3. /\ Calm /\ Living' = Living /\ (Unborn => Unborn')
      /\ UNCHANGED <<system, proc, leaderExit, stopped>>
  BY <1>0, <1>1, StillIsCalm DEF treeVars
<1>4. TypeOK' /\ TreeOK'
  BY <1>1, <1>2, <1>3 DEF IInv, TypeOK, Calm
<1>5. StartOK' /\ OutcomeOK' /\ StreamsOK'
  <2>1. sup'.at # "none"
    BY <1>1, <1>2 DEF SupervisorRuns
  <2> QED BY <1>1, <1>2, <1>3, <2>1, PortOverSupervisor
<1>6. SupervisorOK'
  BY <1>1, <1>2, <1>3 DEF IInv, SupervisorOK, Posix
<1>7. RecordOK'
  BY <1>1, <1>2, <1>3 DEF IInv, RecordOK, Posix
<1> QED BY <1>4, <1>5, <1>6, <1>7 DEF IInv

(* The leader is created while nothing is told of it yet.                        *)
LEMMA ForkLeaderKeeps ==
  ASSUME IInv, Posix, UNCHANGED <<port, control>>, ForkLeader
  PROVE  IInv'
<1>0. sup \in Supervisors /\ record \in Records /\ TypeOK /\ TreeOK
  BY DEF IInv, TypeOK
<1>1. /\ Create("live") /\ UNCHANGED <<system, leaderExit, stopped, pipe, startup, record>>
      /\ sup.at = "setup" /\ sup' = [sup EXCEPT !.at = "announce"]
  BY DEF ForkLeader
<1>2. /\ sup' \in Supervisors /\ sup'.at = "announce" /\ sup'.ok = sup.ok
      /\ sup'.interrupted = sup.interrupted /\ sup'.leaderDone = sup.leaderDone
      /\ sup'.leaderStatus = sup.leaderStatus /\ sup'.cancelled = sup.cancelled
  BY <1>0, <1>1 DEF Supervisors, SupAts
<1>3. Unborn /\ Posix'
  BY <1>1 DEF IInv, SupervisorOK, Posix
<1>4. /\ port.at \in Unready \cup {"crashed"} /\ port.outcome = "none" /\ ~ port.told
      /\ port.at \notin {"new", "request", "built", "refused"}
      /\ ~ record.sent /\ ~ sup.cancelled /\ ~ port.proven
  BY <1>1 DEF IInv, SupervisorOK, RecordOK, StartOK, OutcomeOK
<1>5. proc[Leader] # "gone" /\ ~ sup.leaderDone
  BY <1>3, ActivityAssumption DEF Unborn, IInv, SupervisorOK
<1>6. TreeTypes' /\ TreeOK'
  BY <1>0, <1>1, <1>3, CreateStarts
<1>7. TypeOK'
  BY <1>0, <1>1, <1>2, <1>6 DEF TypeOK
<1>8. SupervisorOK'
  BY <1>0, <1>1, <1>2, <1>3, <1>4, <1>5 DEF IInv, SupervisorOK
<1>9. RecordOK'
  BY <1>1, <1>4 DEF RecordOK
<1>10. StartOK'
  BY <1>2, <1>3, <1>4 DEF StartOK, IInv
<1>11. OutcomeOK'
  <2>1. Asked' = Asked
    BY DEF Asked
  <2> QED BY <1>1, <1>2, <1>3, <1>4, <2>1 DEF OutcomeOK, IInv
<1>12. StreamsOK'
  BY <1>4 DEF StreamsOK
<1> QED BY <1>6, <1>7, <1>8, <1>9, <1>10, <1>11, <1>12 DEF IInv

LEMMA ReapChildKeeps ==
  ASSUME IInv, Posix, UNCHANGED <<port, control>>, ReapChild
  PROVE  IInv'
<1>0. sup \in Supervisors /\ record \in Records /\ TypeOK /\ TreeOK
  BY DEF IInv, TypeOK
<1>1. PICK p \in Unreaped :
        /\ proc[p] = "zombie" /\ proc' = [proc EXCEPT ![p] = "gone"]
        /\ sup' = IF p = Leader
                  THEN [sup EXCEPT !.leaderDone = TRUE, !.leaderStatus = leaderExit] ELSE sup
        /\ UNCHANGED <<system, parent, writers, leaderExit, stopped, pipe, startup, record>>
        /\ sup.at = "reap"
  BY DEF ReapChild
<1>2. p \in Process
  BY DEF Unreaped
<1>3. /\ proc' \in [Process -> ProcStates]
      /\ \A x \in Process : proc'[x] = proc[x] \/ (proc[x] = "zombie" /\ proc'[x] = "gone")
  BY <1>0, <1>1, <1>2 DEF TypeOK, TreeTypes, ProcStates
<1>4. Calm /\ Living' = Living
  BY <1>0, <1>1, <1>3, FadingIsCalm DEF TypeOK, TreeTypes
<1>5. /\ sup' \in Supervisors /\ sup'.at = "reap" /\ sup'.ok = sup.ok
      /\ sup'.interrupted = sup.interrupted /\ sup'.cancelled = sup.cancelled
  BY <1>0, <1>1 DEF Supervisors, TypeOK, TreeTypes
<1>6. sup'.leaderDone => proc'[Leader] = "gone" /\ sup'.leaderStatus = leaderExit'
  <2>1. CASE p = Leader
    BY <1>0, <1>1, <1>2, <2>1 DEF Supervisors, TypeOK, TreeTypes
  <2>2. CASE p # Leader
    BY <1>1, <1>4, <2>2 DEF IInv, SupervisorOK, Calm
  <2> QED BY <2>1, <2>2
<1>7. TypeOK' /\ TreeOK'
  BY <1>0, <1>1, <1>4, <1>5 DEF TypeOK, Calm
<1>8. StartOK' /\ OutcomeOK' /\ StreamsOK'
  BY <1>0, <1>1, <1>4, <1>5, PortOverSupervisor DEF SupervisorRuns
<1>9. SupervisorOK'
  BY <1>1, <1>5, <1>6 DEF IInv, SupervisorOK, Posix
<1>10. RecordOK'
  BY <1>1, <1>4, <1>5 DEF IInv, RecordOK, Posix
<1> QED BY <1>7, <1>8, <1>9, <1>10 DEF IInv

LEMMA KillChildKeeps ==
  ASSUME IInv, Posix, UNCHANGED <<port, control>>, KillChild
  PROVE  IInv'
<1>0. sup \in Supervisors /\ record \in Records /\ TypeOK /\ TreeOK
  BY DEF IInv, TypeOK
<1>1. PICK p \in sup.list :
        /\ sup' = [sup EXCEPT !.list = @ \ {p}]
        /\ IF proc[p] = "live"
           THEN Die({p}, "nonzero") /\ stopped' = stopped \cup {p}
           ELSE UNCHANGED <<proc, parent, writers, leaderExit, stopped>>
        /\ UNCHANGED <<system, pipe, startup, record>>
        /\ sup.at = "kill"
  BY DEF KillChild
<1>2. p \in Process
  BY <1>0 DEF Supervisors
<1>3. Calm
  <2>1. CASE proc[p] = "live"
    <3>1. {p} \subseteq Living /\ "nonzero" \in Exits
      BY <1>2, <2>1 DEF Living, Alive, Exits
    <3>2. Die({p}, "nonzero") /\ stopped' = stopped \cup {p} /\ UNCHANGED <<system, pipe>>
      BY <1>1, <2>1
    <3> QED BY <1>0, <3>1, <3>2, DieIsCalm
  <2>2. CASE proc[p] # "live"
    BY <1>0, <1>1, <2>2, FadingIsCalm DEF TypeOK, TreeTypes
  <2> QED BY <2>1, <2>2
<1>4. /\ sup' \in Supervisors /\ sup'.at = "kill" /\ sup'.ok = sup.ok
      /\ sup'.interrupted = sup.interrupted /\ sup'.leaderDone = sup.leaderDone
      /\ sup'.leaderStatus = sup.leaderStatus /\ sup'.cancelled = sup.cancelled
  BY <1>0, <1>1 DEF Supervisors
<1>5. TypeOK' /\ TreeOK'
  BY <1>0, <1>1, <1>3, <1>4 DEF TypeOK, Calm
<1>6. StartOK' /\ OutcomeOK' /\ StreamsOK'
  BY <1>0, <1>1, <1>3, <1>4, PortOverSupervisor DEF SupervisorRuns
<1>7. sup.cancelled
  BY <1>0, <1>1 DEF IInv, SupervisorOK
<1>8. SupervisorOK'
  BY <1>1, <1>3, <1>4, <1>7 DEF IInv, SupervisorOK, Posix, Calm
<1>9. RecordOK'
  BY <1>1 DEF IInv, RecordOK
<1> QED BY <1>5, <1>6, <1>8, <1>9 DEF IInv

(* SetupFails, Leave and SupervisorKilled.                                       *)
LEMMA EndKeeps ==
  ASSUME IInv, Posix, UNCHANGED <<port, control, record>>, NEW ok \in BOOLEAN, SupervisorEnds(ok),
         SupervisorRuns, ok => sup.at = "leave"
  PROVE  IInv'
<1>0. sup \in Supervisors /\ record \in Records /\ TypeOK /\ TreeOK
  BY DEF IInv, TypeOK
<1>1. Calm /\ UNCHANGED <<system, leaderExit, stopped>>
  BY <1>0, SupervisorEndIsCalm DEF SupervisorEnds
<1>2. sup' = [sup EXCEPT !.at = "exited", !.list = {}, !.ok = ok]
  BY DEF SupervisorEnds
<1>3. /\ sup' \in Supervisors /\ sup'.at = "exited" /\ sup'.ok = ok
      /\ sup'.interrupted = sup.interrupted /\ sup'.leaderDone = sup.leaderDone
      /\ sup'.leaderStatus = sup.leaderStatus /\ sup'.cancelled = sup.cancelled
  BY <1>0, <1>2 DEF Supervisors, SupAts
<1>4. TypeOK' /\ TreeOK'
  BY <1>0, <1>1, <1>3 DEF TypeOK, Calm
<1>5. StartOK' /\ OutcomeOK' /\ StreamsOK'
  BY <1>1, <1>3, PortOverSupervisor
<1>6. SupervisorOK'
  BY <1>1, <1>3 DEF IInv, SupervisorOK, Posix, Calm
<1>7. RecordOK'
  BY <1>1, <1>3 DEF IInv, RecordOK, Posix, Calm
<1> QED BY <1>4, <1>5, <1>6, <1>7 DEF IInv

LEMMA SupervisionKeeps ==
  ASSUME IInv, Supervision
  PROVE  IInv'
<1>1. UNCHANGED port
  BY DEF Supervision
<1>2. sup.at # "none" /\ UNCHANGED control
  BY DEF Supervision, SupervisorNext, SupervisorStep, ForkLeader, Announce, ReadControl, ReapChild,
         Report, Leave, NothingToReap, ReapedAll, ListChildren, KillChild, PassEnds, FeedInput,
         SetupFails, KillRefused, Interrupted, SupervisorKilled, SupervisorRuns
<1>3. Posix
  BY <1>2 DEF IInv, SupervisorOK
<1>4. CASE \/ Announce(StatusRead) \/ ReadControl \/ Report \/ NothingToReap \/ ListChildren
           \/ KillRefused \/ PassEnds \/ FeedInput
  BY <1>1, <1>2, <1>3, <1>4, LoopStepKeeps
<1>5. CASE Interrupted
  BY <1>1, <1>2, <1>3, <1>5, InterruptedKeeps
<1>6. CASE ForkLeader
  BY <1>1, <1>2, <1>3, <1>6, ForkLeaderKeeps
<1>7. CASE ReapChild
  BY <1>1, <1>2, <1>3, <1>7, ReapChildKeeps
<1>8. CASE KillChild
  BY <1>1, <1>2, <1>3, <1>8, KillChildKeeps
<1>9. CASE SetupFails \/ SupervisorKilled
  <2>1. SupervisorEnds(FALSE) /\ SupervisorRuns /\ UNCHANGED record
    BY <1>9 DEF SetupFails, SupervisorKilled, SupervisorRuns
  <2> QED BY <1>1, <1>2, <1>3, <2>1, EndKeeps
<1>10. CASE Leave
  <2>1. SupervisorEnds(TRUE) /\ SupervisorRuns /\ UNCHANGED record /\ sup.at = "leave"
    BY <1>10 DEF Leave, SupervisorRuns
  <2> QED BY <1>1, <1>2, <1>3, <2>1, EndKeeps
<1> QED BY <1>4, <1>5, <1>6, <1>7, <1>8, <1>9, <1>10
        DEF Supervision, SupervisorNext, SupervisorStep
-------------------------------------------------------------------------------
(* The port.                                                                     *)

LEMMA OutsideKeeps ==
  ASSUME IInv, Outside
  PROVE  IInv'
<1>1. UNCHANGED <<sup, control, startup, record, port>> /\ TreeNext
  BY DEF Outside, supVars
<1>2. Calm /\ stopped' = stopped /\ ~ Unborn
  BY <1>1, TreeIsCalm DEF IInv, TypeOK
<1>3. TypeOK' /\ TreeOK'
  BY <1>1, <1>2 DEF IInv, TypeOK, Calm
<1>4. /\ Posix' = Posix /\ Asked' = Asked
      /\ Living = {} => Living' = {} /\ leaderExit' = leaderExit
  BY <1>1, <1>2 DEF Calm, Posix, Asked
<1>5. SupervisorOK'
  BY <1>1, <1>2, <1>4 DEF IInv, SupervisorOK, Calm
<1>6. RecordOK'
  BY <1>1, <1>4 DEF IInv, RecordOK
<1>7. StartOK'
  BY <1>1, <1>2, <1>4 DEF IInv, StartOK
<1>8. OutcomeOK'
  BY <1>1, <1>2, <1>4 DEF IInv, OutcomeOK, Outcome
<1>9. StreamsOK'
  BY <1>1, <1>2 DEF IInv, StreamsOK, Calm
<1> QED BY <1>3, <1>5, <1>6, <1>7, <1>8, <1>9 DEF IInv

(* What a step of the owner leaves true that changes neither the supervisor nor   *)
(* its record, and whose processes nobody but a killer has touched.               *)
LEMMA OwnersStep ==
  ASSUME IInv, Calm, Unborn => Unborn', ~ Posix \/ stopped' = stopped,
         UNCHANGED <<sup, startup, record>>, port' \in Ports, control' \in BOOLEAN
  PROVE  TypeOK' /\ TreeOK' /\ SupervisorOK' /\ RecordOK' /\ Posix' = Posix
<1>1. TypeOK' /\ TreeOK' /\ Posix' = Posix
  BY DEF IInv, TypeOK, Calm, Posix
<1>2. SupervisorOK'
  BY <1>1 DEF IInv, SupervisorOK, Calm
<1>3. RecordOK'
  BY <1>1 DEF IInv, RecordOK, Calm
<1> QED BY <1>1, <1>2, <1>3

(* The port alone changes, and not what it says of the activity.                  *)
LEMMA PortAlone ==
  ASSUME IInv, UNCHANGED treeVars, UNCHANGED <<sup, startup, record, control>>,
         port' \in Ports,
         port'.outcome = port.outcome, port'.proven = port.proven, port'.cancel = port.cancel,
         port'.told = port.told, StartOK',
         port.at \in {"closed", "crashed", "collect", "waiting", "refused"} => port'.at = port.at
           \/ (port.at = "waiting" /\ port'.at = "refused"),
         port'.at = "collect" => port.at = "collect",
         StreamsOK'
  PROVE  IInv'
<1>1. Calm /\ Living' = Living /\ (Unborn => Unborn')
      /\ UNCHANGED <<system, leaderExit, stopped>>
  BY StillIsCalm DEF IInv, treeVars
<1>2. TypeOK' /\ TreeOK' /\ SupervisorOK' /\ RecordOK' /\ Posix' = Posix
  BY <1>1, OwnersStep DEF IInv, TypeOK
<1>3. Asked => Asked'
  BY DEF Asked
<1>4. OutcomeOK'
  BY <1>1, <1>2, <1>3 DEF IInv, OutcomeOK, Outcome
<1> QED BY <1>2, <1>4 DEF IInv

LEMMA WriterKeeps ==
  ASSUME IInv, WriterEnds
  PROVE  IInv'
<1>1. /\ UNCHANGED treeVars /\ UNCHANGED <<sup, startup, record, control>>
      /\ port.writer = "writing" /\ \E w \in {"done", "error"} : port' = [port EXCEPT !.writer = w]
  BY DEF WriterEnds
<1>2. /\ port' \in Ports /\ port'.outcome = port.outcome /\ port'.proven = port.proven
      /\ port'.cancel = port.cancel /\ port'.told = port.told /\ port'.at = port.at
      /\ port'.open = port.open
  BY <1>1 DEF IInv, TypeOK, Ports
<1>3. StartOK'
  BY <1>1, <1>2 DEF IInv, StartOK, treeVars, Unborn, Living, Alive, Posix
<1>4. StreamsOK'
  BY <1>1, <1>2 DEF IInv, StreamsOK, treeVars, Dry
<1> QED BY <1>1, <1>2, <1>3, <1>4, PortAlone
-------------------------------------------------------------------------------
(* The start.                                                                    *)

(* The steps of the start that only say how far it is.                           *)
LEMMA AdvanceKeeps ==
  ASSUME IInv, UNCHANGED treeVars, UNCHANGED <<sup, startup, record, control>>,
         NEW at \in Unready \cup {"idle"}, port' \in Ports, port'.at = at,
         port'.outcome = port.outcome, port'.proven = port.proven, port'.cancel = port.cancel,
         port'.told = port.told, port'.open = port.open \/ port'.open = Stream,
         \/ port.at \in {"new", "request"} /\ at \in {"request", "built", "refused"}
         \/ port.at = "built" /\ at = "refused"
         \/ port.at = "starting" /\ at = "idle" /\ startup = "ok" /\ port'.open = Stream
         \/ port.at = "waiting" /\ at = "refused" /\ sup.at = "exited"
         \/ port.at = "assign" /\ at = "resume"
         \/ port.at = "feed" /\ at = "idle" /\ port'.open = Stream
  PROVE  IInv'
<1>1. /\ UNCHANGED <<system, proc, parent, writers, leaderExit, stopped, pipe>>
      /\ Unborn' = Unborn /\ Living' = Living /\ Posix' = Posix
  BY DEF treeVars, Unborn, Living, Alive, Posix
<1>2. port.outcome = "none" /\ ~ port.proven /\ ~ port.told /\ port.at \in Unready
  BY DEF IInv, StartOK, Unready
<1>3. Unborn => Living = {}
  BY DEF Unborn, Living, Alive
<1>4. Posix /\ sup.at \in {"none", "setup"} => startup = "empty"
  BY DEF IInv, SupervisorOK
<1>5. port.at \in {"new", "request", "built"} => sup.at = "none" /\ Unborn
  BY DEF IInv, StartOK
<1>6. port.at = "waiting" => Posix
  BY DEF IInv, StartOK, SupervisorOK
<1>7. StartOK'
  BY <1>1, <1>2, <1>3, <1>4, <1>5, <1>6 DEF IInv, StartOK, Unready
<1>8. StreamsOK'
  BY <1>1, <1>2 DEF StreamsOK, Unready
<1> QED BY <1>7, <1>8, PortAlone DEF Unready

LEMMA AdvancesKeep ==
  ASSUME IInv,
         \/ CaptureRequest \/ RequestRefused \/ Built \/ Unbuildable \/ PipesFail \/ Started
         \/ WaitSupervisor \/ CreateFails \/ AssignToJob \/ StartInput
  PROVE  IInv'
<1>0. port \in Ports /\ port.at \in PortAts
  BY DEF IInv, TypeOK, Ports
<1>1. UNCHANGED treeVars /\ UNCHANGED <<sup, startup, record, control>>
  BY DEF CaptureRequest, RequestRefused, Built, Unbuildable, PipesFail, Started, WaitSupervisor,
         CreateFails, AssignToJob, StartInput, supVars
<1>2. CASE CaptureRequest
  <2>1. PICK bytes \in BOOLEAN : port' = [port EXCEPT !.at = "request", !.input = bytes]
    BY <1>2 DEF CaptureRequest, Inputs
  <2>2. /\ port' \in Ports /\ port'.at = "request" /\ port'.outcome = port.outcome
        /\ port'.proven = port.proven /\ port'.cancel = port.cancel /\ port'.told = port.told
        /\ port'.open = port.open
    BY <1>0, <2>1 DEF Ports, PortAts, Unready
  <2>3. port.at = "new"
    BY <1>2 DEF CaptureRequest
  <2> QED BY <1>1, <2>2, <2>3, AdvanceKeeps DEF Unready
<1>3. CASE \/ RequestRefused \/ Built \/ Unbuildable \/ PipesFail \/ WaitSupervisor \/ CreateFails
           \/ AssignToJob
  <2>1. PICK at \in Unready :
          /\ port' = [port EXCEPT !.at = at]
          /\ \/ port.at \in {"new", "request"} /\ at \in {"request", "built", "refused"}
             \/ port.at = "built" /\ at = "refused"
             \/ port.at = "waiting" /\ at = "refused" /\ sup.at = "exited"
             \/ port.at = "assign" /\ at = "resume"
    BY <1>3 DEF RequestRefused, Built, Unbuildable, PipesFail, WaitSupervisor, CreateFails,
                AssignToJob, Goto, Unready
  <2>2. /\ port' \in Ports /\ port'.at = at /\ port'.outcome = port.outcome
        /\ port'.proven = port.proven /\ port'.cancel = port.cancel /\ port'.told = port.told
        /\ port'.open = port.open
    BY <1>0, <2>1 DEF Ports, PortAts
  <2>3. at \in Unready \cup {"idle"}
    OBVIOUS
  <2> QED BY <1>1, <2>1, <2>2, <2>3, AdvanceKeeps
<1>4. CASE Started
  <2>1. /\ port' = [port EXCEPT !.at = "idle", !.open = Stream]
        /\ port.at = "starting" /\ startup = "ok"
    BY <1>4 DEF Started
  <2>2. /\ port' \in Ports /\ port'.at = "idle" /\ port'.outcome = port.outcome
        /\ port'.proven = port.proven /\ port'.cancel = port.cancel /\ port'.told = port.told
        /\ port'.open = Stream
    BY <1>0, <2>1 DEF Ports, PortAts
  <2> QED BY <1>1, <2>1, <2>2, AdvanceKeeps
<1>5. CASE StartInput
  <2>1. /\ port' = [port EXCEPT !.at = "idle", !.open = Stream, !.input = FALSE,
                         !.writer = IF port.input THEN "writing" ELSE "none"]
        /\ port.at = "feed"
    BY <1>5 DEF StartInput
  <2>2. /\ port' \in Ports /\ port'.at = "idle" /\ port'.outcome = port.outcome
        /\ port'.proven = port.proven /\ port'.cancel = port.cancel /\ port'.told = port.told
        /\ port'.open = Stream
    BY <1>0, <2>1 DEF Ports, PortAts
  <2> QED BY <1>1, <2>1, <2>2, AdvanceKeeps
<1> QED BY <1>2, <1>3, <1>4, <1>5

LEMMA StartSupervisorKeeps ==
  ASSUME IInv, StartSupervisor
  PROVE  IInv'
<1>0. port \in Ports /\ record \in Records /\ TreeTypes /\ TreeOK
  BY DEF IInv, TypeOK
<1>1. /\ UNCHANGED <<system, proc, parent, writers, leaderExit, stopped, pipe, startup, record>>
      /\ port.at = "built" /\ Posix /\ control' = TRUE
      /\ sup' = [NoSupervisor EXCEPT !.at = "setup", !.input = port.input]
      /\ port' = [port EXCEPT !.at = "starting", !.input = FALSE]
  BY DEF StartSupervisor
<1>2. sup.at = "none" /\ Unborn /\ port.outcome = "none" /\ ~ port.proven /\ ~ port.told
  BY <1>1 DEF IInv, StartOK, Unready
<1>3. /\ port' \in Ports /\ port'.at = "starting" /\ port'.outcome = "none" /\ ~ port'.proven
      /\ ~ port'.told /\ port'.cancel = port.cancel
  BY <1>0, <1>1, <1>2 DEF Ports, PortAts, Unready
<1>4. /\ sup' \in Supervisors /\ sup'.at = "setup" /\ ~ sup'.leaderDone /\ ~ sup'.cancelled
      /\ ~ sup'.ok
  BY <1>0, <1>1 DEF Supervisors, NoSupervisor, Ports, SupAts, Exits
<1>5. stopped = {} /\ startup = "empty" /\ ~ record.sent
  <2>1. ~ sup.cancelled
    BY <1>2 DEF IInv, SupervisorOK
  <2> QED BY <1>1, <1>2, <2>1 DEF IInv, SupervisorOK, RecordOK
<1>6. TreeTypes' /\ TreeOK' /\ Unborn' /\ Posix'
  BY <1>0, <1>1, <1>2 DEF TreeTypes, TreeOK, Unborn, Posix, Living, Alive
<1>7. TypeOK'
  BY <1>0, <1>1, <1>3, <1>4, <1>6 DEF TypeOK
<1>8. SupervisorOK'
  BY <1>1, <1>4, <1>5, <1>6 DEF SupervisorOK
<1>9. RecordOK'
  BY <1>1, <1>5 DEF RecordOK
<1>10. StartOK'
  BY <1>3, <1>4, <1>6 DEF StartOK, Unready
<1>11. OutcomeOK'
  BY <1>1, <1>3, <1>4, <1>6 DEF OutcomeOK
<1>12. StreamsOK'
  BY <1>3 DEF StreamsOK, Unready
<1> QED BY <1>6, <1>7, <1>8, <1>9, <1>10, <1>11, <1>12 DEF IInv

LEMMA StartGivenUpKeeps ==
  ASSUME IInv, StartGivenUp
  PROVE  IInv'
<1>0. port \in Ports /\ TypeOK /\ TreeOK
  BY DEF IInv, TypeOK
<1>1. /\ UNCHANGED treeVars /\ UNCHANGED <<sup, startup, record>> /\ control' = FALSE
      /\ port.at = "starting" /\ port' = [port EXCEPT !.at = "waiting"]
  BY DEF StartGivenUp, Goto
<1>2. port.outcome = "none" /\ ~ port.proven /\ ~ port.told
  BY <1>1 DEF IInv, StartOK, Unready
<1>3. /\ port' \in Ports /\ port'.at = "waiting" /\ port'.outcome = "none" /\ ~ port'.proven
      /\ ~ port'.told /\ port'.cancel = port.cancel
  BY <1>0, <1>1, <1>2 DEF Ports, PortAts, Unready
<1>4. Calm /\ (Unborn => Unborn') /\ UNCHANGED <<system, stopped>>
  BY <1>0, <1>1, StillIsCalm DEF treeVars
<1>5. TypeOK' /\ TreeOK' /\ SupervisorOK' /\ RecordOK' /\ Posix' = Posix
  BY <1>1, <1>3, <1>4, OwnersStep
<1>6. StartOK'
  BY <1>1, <1>3, <1>5 DEF IInv, StartOK, Unready
<1>7. OutcomeOK'
  BY <1>1, <1>3, <1>4, <1>5 DEF IInv, OutcomeOK, Asked
<1>8. StreamsOK'
  BY <1>3 DEF StreamsOK, Unready
<1> QED BY <1>5, <1>6, <1>7, <1>8 DEF IInv

LEMMA CreateSuspendedKeeps ==
  ASSUME IInv, CreateSuspended
  PROVE  IInv'
<1>0. port \in Ports /\ TypeOK /\ TreeOK
  BY DEF IInv, TypeOK
<1>1. /\ Create("suspended") /\ UNCHANGED <<system, leaderExit, stopped, pipe>>
      /\ UNCHANGED <<sup, startup, record, control>>
      /\ port.at = "built" /\ ~ Posix /\ port' = [port EXCEPT !.at = "assign"]
  BY DEF CreateSuspended, Goto, supVars
<1>2. sup.at = "none" /\ Unborn /\ port.outcome = "none" /\ ~ port.proven /\ ~ port.told
  BY <1>1 DEF IInv, StartOK, Unready
<1>3. /\ port' \in Ports /\ port'.at = "assign" /\ port'.outcome = "none" /\ ~ port'.proven
      /\ ~ port'.told /\ port'.cancel = port.cancel
  BY <1>0, <1>1, <1>2 DEF Ports, PortAts, Unready
<1>4. TreeTypes' /\ TreeOK' /\ ~ Posix'
  BY <1>0, <1>1, <1>2, CreateStarts DEF Posix
<1>5. TypeOK'
  BY <1>0, <1>1, <1>3, <1>4 DEF TypeOK
<1>6. SupervisorOK'
  BY <1>1, <1>2, <1>4 DEF IInv, SupervisorOK
<1>7. RecordOK'
  BY <1>1 DEF IInv, RecordOK
<1>8. StartOK'
  BY <1>3, <1>4 DEF StartOK, Unready
<1>9. OutcomeOK'
  BY <1>0, <1>1, <1>3, <1>4 DEF OutcomeOK, IInv
<1>10. StreamsOK'
  BY <1>3 DEF StreamsOK, Unready
<1> QED BY <1>4, <1>5, <1>6, <1>7, <1>8, <1>9, <1>10 DEF IInv

LEMMA ResumeKeeps ==
  ASSUME IInv, Resume
  PROVE  IInv'
<1>0. port \in Ports /\ TypeOK /\ TreeOK
  BY DEF IInv, TypeOK
<1>1. /\ proc' = [proc EXCEPT ![Leader] = "live"]
      /\ UNCHANGED <<system, parent, writers, leaderExit, stopped, pipe>>
      /\ UNCHANGED <<sup, startup, record, control>>
      /\ port.at = "resume" /\ port' = [port EXCEPT !.at = "feed"]
  BY DEF Resume, Goto, supVars
<1>2. ~ Posix /\ port.outcome = "none" /\ ~ port.proven /\ ~ port.told
  BY <1>1 DEF IInv, StartOK, Unready
<1>3. /\ port' \in Ports /\ port'.at = "feed" /\ port'.outcome = "none" /\ ~ port'.proven
      /\ ~ port'.told /\ port'.cancel = port.cancel
  BY <1>0, <1>1, <1>2 DEF Ports, PortAts, Unready
<1>4. TreeTypes' /\ ~ Posix'
  BY <1>0, <1>1, <1>2 DEF TypeOK, TreeTypes, Posix, ProcStates
<1>5. TreeOK'
  <2>1. \A p \in Process : proc'[p] = proc[p] \/ proc'[p] = "live"
    BY <1>0, <1>1 DEF TypeOK, TreeTypes
  <2>2. Living \subseteq Living'
    BY <2>1 DEF Living, Alive
  <2>3. \A p \in Process : parent[p] \in Process \cup {Reaper}
    BY <1>0 DEF TypeOK, TreeTypes
  <2> QED BY <1>0, <1>1, <1>4, <2>1, <2>2, <2>3 DEF TreeOK
<1>6. TypeOK'
  BY <1>0, <1>1, <1>3, <1>4 DEF TypeOK
<1>7. SupervisorOK'
  BY <1>1, <1>2, <1>4 DEF IInv, SupervisorOK
<1>8. RecordOK'
  BY <1>1, <1>2 DEF IInv, RecordOK
<1>9. StartOK'
  BY <1>3, <1>4 DEF StartOK, Unready
<1>10. OutcomeOK'
  BY <1>0, <1>1, <1>2, <1>3, <1>4 DEF OutcomeOK, IInv
<1>11. StreamsOK'
  BY <1>3 DEF StreamsOK, Unready
<1> QED BY <1>5, <1>6, <1>7, <1>8, <1>9, <1>10, <1>11 DEF IInv

LEMMA StartUndoneKeeps ==
  ASSUME IInv, StartUndone
  PROVE  IInv'
<1>0. port \in Ports /\ TypeOK /\ TreeOK
  BY DEF IInv, TypeOK
<1>1. /\ Die(Living, "nonzero") /\ stopped' = stopped \cup Living /\ UNCHANGED <<system, pipe>>
      /\ UNCHANGED <<sup, startup, record, control>>
      /\ port.at \in {"assign", "resume", "feed"} /\ port' = [port EXCEPT !.at = "refused"]
  BY DEF StartUndone, Goto
<1>2. ~ Posix /\ port.outcome = "none" /\ ~ port.proven /\ ~ port.told
  BY <1>1 DEF IInv, StartOK, Unready
<1>3. /\ port' \in Ports /\ port'.at = "refused" /\ port'.outcome = "none" /\ ~ port'.proven
      /\ ~ port'.told /\ port'.cancel = port.cancel
  BY <1>0, <1>1, <1>2 DEF Ports, PortAts, Unready
<1>4. Calm /\ Living' = {} /\ (Unborn => Unborn')
  <2>1. "nonzero" \in Exits /\ Living \subseteq Living /\ Living \ Living = {}
    BY DEF Exits
  <2>2. stopped' \subseteq stopped \cup Living /\ stopped \subseteq stopped'
    BY <1>1
  <2> QED BY <1>0, <1>1, <2>1, <2>2, DieIsCalm
<1>5. control' \in BOOLEAN
  BY <1>0, <1>1 DEF TypeOK
<1>6. TypeOK' /\ TreeOK' /\ SupervisorOK' /\ RecordOK' /\ Posix' = Posix
  BY <1>1, <1>2, <1>3, <1>4, <1>5, OwnersStep
<1>7. StartOK'
  BY <1>2, <1>3, <1>4, <1>6 DEF StartOK, Unready
<1>8. OutcomeOK'
  BY <1>2, <1>3, <1>6 DEF OutcomeOK
<1>9. StreamsOK'
  BY <1>3 DEF StreamsOK, Unready
<1> QED BY <1>6, <1>7, <1>8, <1>9 DEF IInv

LEMMA StartKeeps ==
  ASSUME IInv, StartNext
  PROVE  IInv'
<1>1. CASE \/ CaptureRequest \/ RequestRefused \/ PosixArguments \/ WindowsArguments \/ PipesFail
           \/ Started \/ WaitSupervisor \/ CreateFails \/ AssignToJob \/ StartInput
  BY <1>1, AdvancesKeep DEF PosixArguments, WindowsArguments
<1>2. CASE \/ StartSupervisor \/ StartGivenUp \/ CreateSuspended \/ StartUndone \/ Resume
  BY <1>2, StartSupervisorKeeps, StartGivenUpKeeps, CreateSuspendedKeeps, StartUndoneKeeps,
     ResumeKeeps
<1> QED BY <1>1, <1>2 DEF StartNext
-------------------------------------------------------------------------------
(* The poll.                                                                     *)

(* A step of a poll, or its begin, that finds out nothing about the outcome.       *)
LEMMA PollStepKeeps ==
  ASSUME IInv, UNCHANGED <<system, proc, parent, writers, leaderExit, stopped>>,
         UNCHANGED <<sup, startup, record, control>>,
         pipe' \in [Stream -> Nat], \A s \in Stream : pipe[s] = 0 => pipe'[s] = 0,
         port' \in Ports, port.at \notin Unready \cup {"closed", "crashed", "collect"},
         port'.at \notin Unready \cup {"closed", "crashed", "collect"},
         port'.outcome = port.outcome, port'.proven = port.proven, port'.cancel = port.cancel,
         port'.told => port.told \/ (port.outcome # "none" /\ port.open = {}),
         \/ port'.open = port.open
         \/ \E s \in Stream : Dry(s) /\ port'.open = port.open \ {s}
  PROVE  IInv'
<1>1. Calm /\ Living' = Living /\ (Unborn => Unborn')
  <2>1. /\ writers' \subseteq writers /\ proc' \in [Process -> ProcStates]
        /\ \A p \in Process : proc'[p] = proc[p] \/ (proc[p] = "zombie" /\ proc'[p] = "gone")
    BY DEF IInv, TypeOK, TreeTypes
  <2>2. TypeOK /\ TreeOK
    BY DEF IInv
  <2>3. Calm /\ Living' = Living
    BY <2>1, <2>2, FadingIsCalm
  <2> QED BY <2>3 DEF Unborn
<1>2. control' \in BOOLEAN
  BY DEF IInv, TypeOK
<1>3. TypeOK' /\ TreeOK' /\ SupervisorOK' /\ RecordOK' /\ Posix' = Posix
  BY <1>1, <1>2, OwnersStep
<1>4. StartOK'
  BY <1>3 DEF IInv, StartOK, Unready
<1>5. Asked => Asked'
  BY DEF Asked, Unready
<1>6. OutcomeOK'
  BY <1>1, <1>3, <1>5 DEF IInv, OutcomeOK, Outcome, Unready
<1>7. StreamsOK'
  <2>1. \A s \in Stream : Dry(s) => Dry(s)'
    BY <1>1 DEF Calm
  <2>2. \A s \in Stream \ port.open : port.outcome = "unknown" \/ Dry(s)
    BY DEF IInv, StreamsOK
  <2>3. \A s \in Stream \ port'.open : port'.outcome = "unknown" \/ Dry(s)'
    BY <2>1, <2>2
  <2>4. port'.told => port.outcome # "none" /\ (port.outcome = "unknown" \/ \A s \in Stream : Dry(s))
    BY <2>2 DEF IInv, StreamsOK
  <2> QED BY <2>1, <2>3, <2>4 DEF StreamsOK
<1> QED BY <1>3, <1>4, <1>6, <1>7 DEF IInv

LEMMA PollKeeps ==
  ASSUME IInv, Poll \/ ReadFails \/ PollEnds
  PROVE  IInv'
<1>0. port \in Ports
  BY DEF IInv, TypeOK
<1>1. /\ UNCHANGED treeVars /\ UNCHANGED <<sup, startup, record, control>>
      /\ port.at \in {"idle", "stdout", "stderr", "drain stdout", "drain stderr", "terminal"}
  BY DEF Poll, ReadFails, PollEnds, Calls, Reading, supVars
<1>2. /\ UNCHANGED <<system, proc, parent, writers, leaderExit, stopped, pipe>>
      /\ pipe' \in [Stream -> Nat]
  BY <1>1 DEF IInv, TypeOK, TreeTypes, treeVars
<1>3. /\ port' \in Ports /\ port'.at \in {"stdout", "idle"}
      /\ port'.outcome = port.outcome /\ port'.proven = port.proven
      /\ port'.cancel = port.cancel /\ port'.open = port.open
      /\ port'.told => port.told \/ (port.outcome # "none" /\ port.open = {})
  <2>1. CASE Poll
    <3>1. PICK budget \in Budgets : port' = [port EXCEPT !.at = "stdout", !.room = budget]
      BY <2>1 DEF Poll
    <3>2. budget \in Nat
      BY BudgetsAssumption
    <3> QED BY <1>0, <3>1, <3>2 DEF Ports, PortAts
  <2>2. CASE ReadFails
    BY <1>0, <2>2 DEF ReadFails, Ports, PortAts
  <2>3. CASE PollEnds
    <3>1. port' = [port EXCEPT !.at = "idle", !.room = 0, !.told = @ \/ Tells]
      BY <2>3 DEF PollEnds
    <3>2. Tells \in BOOLEAN /\ (Tells => port.outcome # "none" /\ port.open = {})
      BY DEF Tells
    <3> QED BY <1>0, <3>1, <3>2 DEF Ports, PortAts
  <2> QED BY <2>1, <2>2, <2>3
<1>4. port.at \notin Unready \cup {"closed", "crashed", "collect"}
  BY <1>1 DEF Unready
<1>5. port'.at \notin Unready \cup {"closed", "crashed", "collect"}
  BY <1>3 DEF Unready
<1> QED BY <1>1, <1>2, <1>3, <1>4, <1>5, PollStepKeeps

LEMMA ReadStreamKeeps ==
  ASSUME IInv, ReadStream
  PROVE  IInv'
<1>0. port \in Ports /\ pipe \in [Stream -> Nat]
  BY DEF IInv, TypeOK, TreeTypes
<1> DEFINE s == StreamOf(port.at)
           next == AfterRead(port.at)
<1>1. /\ UNCHANGED <<system, proc, parent, writers, leaderExit, stopped>>
      /\ UNCHANGED <<sup, startup, record, control>>
      /\ port.at \in {"stdout", "stderr", "drain stdout", "drain stderr"}
  BY DEF ReadStream, Reading, supVars
<1>2. s \in Stream /\ next \in {"stderr", "refresh", "drain stderr", "terminal"}
  BY <1>1 DEF StreamOf, AfterRead, Stream
<1>3. \/ port' = [port EXCEPT !.at = next] /\ UNCHANGED pipe
      \/ /\ port.room > 0 /\ pipe[s] > 0 /\ pipe' = [pipe EXCEPT ![s] = @ - 1]
         /\ port' = [port EXCEPT !.at = next, !.room = @ - 1]
      \/ /\ Dry(s) /\ UNCHANGED pipe
         /\ port' = [port EXCEPT !.at = next, !.open = @ \ {s}]
  BY DEF ReadStream, Goto, Chunk, Ended, Dry
<1>4. pipe' \in [Stream -> Nat] /\ \A x \in Stream : pipe[x] = 0 => pipe'[x] = 0
  <2>1. CASE UNCHANGED pipe
    BY <1>0, <2>1
  <2>2. CASE pipe[s] > 0 /\ pipe' = [pipe EXCEPT ![s] = @ - 1]
    <3>0. s \in Stream
      BY <1>2
    <3> HIDE DEF s, next
    <3>1. pipe[s] \in Nat /\ pipe[s] - 1 \in Nat
      BY <1>0, <2>2, <3>0
    <3>2. pipe' \in [Stream -> Nat]
      BY <1>0, <2>2, <3>1
    <3>3. \A x \in Stream : x # s => pipe'[x] = pipe[x]
      BY <1>0, <2>2
    <3> QED BY <2>2, <3>1, <3>2, <3>3
  <2> QED BY <1>3, <2>1, <2>2
<1>5. /\ port' \in Ports /\ port'.at = next
      /\ port'.outcome = port.outcome /\ port'.proven = port.proven
      /\ port'.cancel = port.cancel /\ port'.told = port.told
      /\ port'.open = port.open \/ (Dry(s) /\ port'.open = port.open \ {s})
  <2> HIDE DEF s, next
  <2>1. next \in PortAts
    BY <1>2 DEF PortAts, Unready
  <2>2. CASE port' = [port EXCEPT !.at = next]
    BY <1>0, <2>1, <2>2 DEF Ports
  <2>3. CASE port.room > 0 /\ port' = [port EXCEPT !.at = next, !.room = @ - 1]
    <3>1. port.room - 1 \in Nat
      BY <1>0, <2>3 DEF Ports
    <3> QED BY <1>0, <2>1, <2>3, <3>1 DEF Ports
  <2>4. CASE Dry(s) /\ port' = [port EXCEPT !.at = next, !.open = @ \ {s}]
    BY <1>0, <2>1, <2>4 DEF Ports
  <2> QED BY <1>3, <2>2, <2>3, <2>4
<1>6. port.at \notin Unready \cup {"closed", "crashed", "collect"}
  BY <1>1 DEF Unready
<1>7. port'.at \notin Unready \cup {"closed", "crashed", "collect"}
  BY <1>2, <1>5 DEF Unready
<1>8. port'.open = port.open \/ \E x \in Stream : Dry(x) /\ port'.open = port.open \ {x}
  BY <1>2, <1>5
<1> HIDE DEF s, next
<1> QED BY <1>1, <1>4, <1>5, <1>6, <1>7, <1>8, PollStepKeeps
-------------------------------------------------------------------------------
(* What a refresh finds out.                                                     *)

TrueOf(r) ==
  /\ r \in Ports /\ r.at = port.at /\ r.cancel = port.cancel /\ r.told = port.told
  /\ r.proven => Living = {} /\ (Posix => record.sent)
  /\ r.outcome \in {"completed", "failed", "cancelled"} => r.proven
  /\ r.outcome \in {"completed", "failed"} => stopped = {} /\ r.outcome = Outcome(leaderExit)
  /\ r.outcome = "cancelled" => port.cancel \/ sup.interrupted \/ port.at = "collect"
  /\ port.outcome # "none" => r.outcome = port.outcome
  /\ r.open = port.open \/ (r.open = {} /\ r.outcome = "unknown")

Ready == port.at \notin Unready \cup {"closed", "crashed"}

LEMMA PortIsTrue ==
  ASSUME IInv, Ready
  PROVE  TrueOf(port)
BY DEF IInv, TypeOK, OutcomeOK, TrueOf, Ready, Unready

LEMMA RefreshIsTrue ==
  ASSUME IInv, Ready
  PROVE  TrueOf(Refreshed)
<1>0. port \in Ports /\ record \in Records /\ TrueOf(port)
  BY PortIsTrue DEF IInv, TypeOK
<1>1. Outcome(leaderExit) \in {"completed", "failed"}
  BY DEF Outcome
<1>2. CASE Refreshed = port
  BY <1>0, <1>2
<1>3. CASE Posix /\ Refreshed # port
  <2>1. /\ port.outcome = "none" /\ sup.at = "exited"
        /\ \/ /\ record.sent
              /\ Refreshed = [port EXCEPT !.reaped = TRUE, !.proven = TRUE,
                   !.outcome = IF record.cancelled THEN "cancelled" ELSE Outcome(record.exit)]
           \/ Refreshed = [port EXCEPT !.reaped = TRUE, !.outcome = "unknown", !.open = {}]
    BY <1>3 DEF Refreshed, RefreshedPosix
  <2>2. CASE Refreshed = [port EXCEPT !.reaped = TRUE, !.outcome = "unknown", !.open = {}]
    <3>1. /\ Refreshed \in Ports /\ Refreshed.at = port.at /\ Refreshed.cancel = port.cancel
          /\ Refreshed.told = port.told /\ Refreshed.proven = port.proven
          /\ Refreshed.outcome = "unknown" /\ Refreshed.open = {}
      BY <1>0, <2>2 DEF Ports, Outcomes
    <3> QED BY <1>0, <2>1, <3>1 DEF TrueOf
  <2>3. CASE /\ record.sent
             /\ Refreshed = [port EXCEPT !.reaped = TRUE, !.proven = TRUE,
                  !.outcome = IF record.cancelled THEN "cancelled" ELSE Outcome(record.exit)]
    <3>1. Living = {} /\ record.cancelled = sup.cancelled /\ record.exit = leaderExit
      BY <2>3 DEF IInv, RecordOK
    <3>2. /\ Refreshed \in Ports /\ Refreshed.at = port.at /\ Refreshed.cancel = port.cancel
          /\ Refreshed.told = port.told /\ Refreshed.proven /\ Refreshed.open = port.open
          /\ Refreshed.outcome = IF sup.cancelled THEN "cancelled" ELSE Outcome(leaderExit)
      BY <1>0, <1>1, <2>3, <3>1 DEF Ports, Outcomes
    <3>3. ~ sup.cancelled => stopped = {}
      BY <1>3 DEF IInv, SupervisorOK
    <3>4. sup.cancelled => port.cancel \/ sup.interrupted \/ port.at = "collect"
      BY <1>3, <2>1 DEF IInv, OutcomeOK, Asked, Ready, Unready
    <3> QED BY <1>1, <2>1, <2>3, <3>1, <3>2, <3>3, <3>4 DEF TrueOf
  <2> QED BY <2>1, <2>2, <2>3
<1>4. CASE ~ Posix /\ Refreshed # port
  <2>1. /\ Refreshed = RefreshedWindows /\ proc[Leader] = "gone"
    BY <1>4 DEF Refreshed, RefreshedWindows
  <2>2. CASE port.outcome # "none"
    <3>1. Refreshed = [port EXCEPT !.reaped = TRUE]
      BY <2>1, <2>2 DEF RefreshedWindows
    <3>2. /\ Refreshed \in Ports /\ Refreshed.at = port.at /\ Refreshed.cancel = port.cancel
          /\ Refreshed.told = port.told /\ Refreshed.proven = port.proven
          /\ Refreshed.outcome = port.outcome /\ Refreshed.open = port.open
      BY <1>0, <3>1 DEF Ports
    <3> QED BY <1>0, <3>2 DEF TrueOf
  <2>3. CASE port.outcome = "none" /\ (~ JobEmpty \/ port.writer = "writing")
    <3>1. Refreshed = [port EXCEPT !.reaped = TRUE, !.proven = JobEmpty]
      BY <2>1, <2>3 DEF RefreshedWindows
    <3>2. JobEmpty \in BOOLEAN
      BY DEF JobEmpty
    <3>3. /\ Refreshed \in Ports /\ Refreshed.at = port.at /\ Refreshed.cancel = port.cancel
          /\ Refreshed.told = port.told /\ (Refreshed.proven <=> JobEmpty)
          /\ Refreshed.outcome = port.outcome /\ Refreshed.open = port.open
      BY <1>0, <3>1, <3>2 DEF Ports
    <3> QED BY <1>4, <2>3, <3>3 DEF TrueOf, JobEmpty
  <2>4. CASE port.outcome = "none" /\ JobEmpty /\ port.writer # "writing"
    <3> DEFINE outcome == IF port.writer = "error" THEN "unknown"
                          ELSE IF port.cancel THEN "cancelled" ELSE Outcome(leaderExit)
    <3>1. Refreshed = [port EXCEPT !.reaped = TRUE, !.proven = TRUE, !.outcome = outcome]
      BY <2>1, <2>4 DEF RefreshedWindows
    <3>2. outcome \in Outcomes
      BY <1>1 DEF Outcomes
    <3>3. ~ port.cancel => stopped = {}
      BY <1>4 DEF IInv, OutcomeOK, Ready, Unready
    <3>4. outcome \in {"completed", "failed"} => ~ port.cancel /\ outcome = Outcome(leaderExit)
      OBVIOUS
    <3>5. outcome = "cancelled" => port.cancel
      BY <1>1
    <3> HIDE DEF outcome
    <3>6. /\ Refreshed \in Ports /\ Refreshed.at = port.at /\ Refreshed.cancel = port.cancel
          /\ Refreshed.told = port.told /\ Refreshed.proven
          /\ Refreshed.outcome = outcome /\ Refreshed.open = port.open
      BY <1>0, <3>1, <3>2 DEF Ports
    <3> QED BY <1>4, <2>4, <3>3, <3>4, <3>5, <3>6 DEF TrueOf, JobEmpty
  <2> QED BY <2>2, <2>3, <2>4
<1> QED BY <1>2, <1>3, <1>4

(* A step of the owner that takes over what a refresh has found, or what it knew.  *)
LEMMA OwnerKeeps ==
  ASSUME IInv, Ready, Calm, Unborn => Unborn', UNCHANGED <<sup, startup, record>>,
         NEW r, TrueOf(r), port' \in Ports, control' \in BOOLEAN,
         port'.outcome = r.outcome, port'.proven = r.proven, port'.told = r.told,
         port'.open = r.open \/ port'.at = "closed",
         port'.at \notin Unready \cup {"crashed"}, port.cancel => port'.cancel,
         port'.at = "collect" => Posix /\ r.outcome = "none",
         port.at = "collect" => port'.at = "closed",
         control' = control \/ port'.cancel \/ port'.at \in {"collect", "closed"},
         \/ stopped' = stopped
         \/ ~ Posix /\ (port'.cancel \/ port'.at = "closed")
  PROVE  IInv'
<1>1. TypeOK' /\ TreeOK' /\ SupervisorOK' /\ RecordOK' /\ Posix' = Posix
  BY OwnersStep
<1>2. StartOK'
  BY <1>1 DEF IInv, StartOK, Ready, Unready
<1>3. Living = {} => Living' = {} /\ leaderExit' = leaderExit /\ stopped' = stopped
  BY DEF Calm
<1>4. r.outcome \in {"completed", "failed"} => stopped' = {} /\ r.outcome = Outcome(leaderExit)'
  BY <1>3 DEF TrueOf, Outcome
<1>5. Asked => Asked'
  BY DEF Asked, Ready, Unready
<1>6. port'.at \in {"collect", "closed"} \/ port'.cancel => Asked'
  BY DEF Asked
<1>7. OutcomeOK'
  <2>1. port'.proven => Living' = {} /\ (Posix' => record'.sent)
    BY <1>1, <1>3 DEF TrueOf
  <2>2. port'.outcome \in {"completed", "failed", "cancelled"} => port'.proven
    BY DEF TrueOf
  <2>3. port'.outcome = "cancelled" =>
          port'.cancel \/ sup'.interrupted \/ port'.at \in {"collect", "closed"}
    BY DEF TrueOf
  <2>4. port'.at = "collect" => port'.outcome = "none" /\ Posix'
    BY <1>1
  <2>5. Posix' /\ sup'.at # "none" /\ (~ control' \/ sup'.cancelled) => Asked' \/ sup'.interrupted
    BY <1>1, <1>5, <1>6 DEF IInv, OutcomeOK
  <2>6. ~ Posix' /\ ~ port'.cancel /\ port'.at \notin {"refused", "closed", "crashed"} => stopped' = {}
    BY <1>1 DEF IInv, OutcomeOK, Ready, Unready
  <2> QED BY <1>4, <2>1, <2>2, <2>3, <2>4, <2>5, <2>6 DEF OutcomeOK
<1>8. StreamsOK'
  <2>1. \A s \in Stream : Dry(s) => Dry(s)'
    BY DEF Calm
  <2>2. \A s \in Stream \ port.open : port.outcome = "unknown" \/ Dry(s)
    BY DEF IInv, StreamsOK, Ready
  <2>3. \A s \in Stream \ r.open : r.outcome = "unknown" \/ Dry(s)
    BY <2>2 DEF TrueOf
  <2>4. r.told => r.outcome # "none" /\ (r.outcome = "unknown" \/ \A s \in Stream : Dry(s))
    BY DEF IInv, StreamsOK, TrueOf
  <2> QED BY <2>1, <2>3, <2>4 DEF StreamsOK
<1> QED BY <1>1, <1>2, <1>7, <1>8 DEF IInv
-------------------------------------------------------------------------------
(* The calls.                                                                    *)

(* Those that leave the processes alone: r is what a refresh has found, or the      *)
(* port as it was.                                                               *)
LEMMA CallKeeps ==
  ASSUME IInv, Ready, UNCHANGED treeVars, UNCHANGED <<sup, startup, record>>,
         NEW r, TrueOf(r), port' \in Ports, control' \in BOOLEAN,
         port'.outcome = r.outcome, port'.proven = r.proven, port'.told = r.told,
         port'.open = r.open \/ port'.at = "closed",
         port'.at \notin Unready \cup {"crashed"}, port.cancel => port'.cancel,
         port'.at = "collect" => Posix /\ r.outcome = "none",
         port.at = "collect" => port'.at = "closed",
         control' = control \/ port'.cancel \/ port'.at \in {"collect", "closed"}
  PROVE  IInv'
<1>1. Calm /\ (Unborn => Unborn')
  BY StillIsCalm DEF IInv
<1>2. stopped' = stopped
  BY DEF treeVars
<1> QED BY <1>1, <1>2, OwnerKeeps

LEMMA RefreshKeeps ==
  ASSUME IInv, PollRefresh \/ Join \/ CancelFails \/ CollectEnds
  PROVE  IInv'
<1>1. /\ UNCHANGED treeVars /\ UNCHANGED <<sup, startup, record, control>>
      /\ port.at \in {"refresh", "idle", "collect"} /\ control' \in BOOLEAN
  BY DEF PollRefresh, Join, CancelFails, CollectEnds, Calls, supVars, IInv, TypeOK
<1>2. Ready
  BY <1>1 DEF Ready, Unready
<1>3. TrueOf(Refreshed)
  BY <1>2, RefreshIsTrue
<1>4. Refreshed \in Ports /\ Refreshed.at = port.at /\ Refreshed.cancel = port.cancel
  BY <1>3 DEF TrueOf
<1>5. CASE PollRefresh
  <2>1. PICK at \in {"drain stdout", "terminal"} : port' = [Refreshed EXCEPT !.at = at]
    BY <1>5 DEF PollRefresh
  <2>2. /\ port' \in Ports /\ port'.at = at /\ port'.outcome = Refreshed.outcome
        /\ port'.proven = Refreshed.proven /\ port'.told = Refreshed.told
        /\ port'.open = Refreshed.open /\ port'.cancel = port.cancel
    BY <1>4, <2>1 DEF Ports, PortAts
  <2>3. port'.at \notin Unready \cup {"crashed", "collect"} /\ port.at = "refresh"
    BY <1>5, <2>2 DEF Unready, PollRefresh
  <2> QED BY <1>1, <1>2, <1>3, <2>2, <2>3, CallKeeps
<1>6. CASE Join \/ CancelFails
  <2>1. port' = Refreshed /\ port.at = "idle"
    BY <1>6 DEF Join, CancelFails, Calls
  <2>2. port'.at \notin Unready \cup {"crashed", "collect"} /\ port'.cancel = port.cancel
    BY <1>4, <2>1 DEF Unready
  <2>3. port' \in Ports
    BY <1>4, <2>1
  <2> QED BY <1>1, <1>2, <1>3, <2>1, <2>2, <2>3, CallKeeps
<1>7. CASE CollectEnds
  <2>1. port' = [Refreshed EXCEPT !.at = "closed", !.open = {}]
    BY <1>7 DEF CollectEnds
  <2>2. /\ port' \in Ports /\ port'.at = "closed" /\ port'.outcome = Refreshed.outcome
        /\ port'.proven = Refreshed.proven /\ port'.told = Refreshed.told
        /\ port'.cancel = port.cancel
    BY <1>4, <2>1 DEF Ports, PortAts
  <2>3. port'.at \notin Unready \cup {"crashed", "collect"}
    BY <2>2 DEF Unready
  <2> QED BY <1>1, <1>2, <1>3, <2>2, <2>3, CallKeeps
<1> QED BY <1>5, <1>6, <1>7

LEMMA CancelPosixKeeps ==
  ASSUME IInv, CancelPosix
  PROVE  IInv'
<1>1. /\ UNCHANGED treeVars /\ UNCHANGED <<sup, startup, record>> /\ port.at = "idle"
      /\ \/ port' = Refreshed /\ UNCHANGED control
         \/ port' = [Refreshed EXCEPT !.cancel = TRUE] /\ control' = FALSE
  BY DEF CancelPosix, Calls
<1>2. Ready
  BY <1>1 DEF Ready, Unready
<1>3. TrueOf(Refreshed)
  BY <1>2, RefreshIsTrue
<1>4. Refreshed \in Ports /\ Refreshed.at = port.at /\ Refreshed.cancel = port.cancel
  BY <1>3 DEF TrueOf
<1>5. /\ port' \in Ports /\ port'.at = "idle" /\ port'.outcome = Refreshed.outcome
      /\ port'.proven = Refreshed.proven /\ port'.told = Refreshed.told
      /\ port'.open = Refreshed.open /\ (port.cancel => port'.cancel)
      /\ control' = control \/ port'.cancel
  <2>1. CASE port' = Refreshed /\ UNCHANGED control
    BY <1>1, <1>4, <2>1
  <2>2. CASE port' = [Refreshed EXCEPT !.cancel = TRUE]
    BY <1>1, <1>4, <2>2 DEF Ports
  <2> QED BY <1>1, <2>1, <2>2
<1>6. control' \in BOOLEAN
  BY <1>1 DEF IInv, TypeOK
<1>7. port'.at \notin Unready \cup {"crashed", "collect"}
  BY <1>5 DEF Unready
<1> QED BY <1>1, <1>2, <1>3, <1>5, <1>6, <1>7, CallKeeps

LEMMA CloseKeeps ==
  ASSUME IInv, Close \/ CollectPosix
  PROVE  IInv'
<1>1. /\ UNCHANGED treeVars /\ UNCHANGED <<sup, startup, record>> /\ port.at = "idle"
      /\ control' = FALSE
      /\ \/ port' = [port EXCEPT !.at = "closed", !.open = {}]
         \/ Posix /\ port.outcome = "none" /\ port' = [port EXCEPT !.at = "collect"]
  BY DEF Close, CollectPosix, CloseHandles, Calls, Goto
<1>2. Ready
  BY <1>1 DEF Ready, Unready
<1>3. TrueOf(port) /\ port \in Ports
  BY <1>2, PortIsTrue DEF IInv, TypeOK
<1>4. /\ port' \in Ports /\ port'.outcome = port.outcome
      /\ port'.proven = port.proven /\ port'.told = port.told /\ port'.cancel = port.cancel
      /\ \/ port'.at = "closed"
         \/ port'.at = "collect" /\ port'.open = port.open /\ Posix /\ port.outcome = "none"
  <2>1. CASE port' = [port EXCEPT !.at = "closed", !.open = {}]
    BY <1>3, <2>1 DEF Ports, PortAts
  <2>2. CASE Posix /\ port.outcome = "none" /\ port' = [port EXCEPT !.at = "collect"]
    BY <1>3, <2>2 DEF Ports, PortAts
  <2> QED BY <1>1, <2>1, <2>2
<1>5. control' \in BOOLEAN /\ port.at # "collect" /\ port'.at \in {"collect", "closed"}
  BY <1>1, <1>4
<1>6. port'.at \notin Unready \cup {"crashed"}
  BY <1>4 DEF Unready
<1> QED BY <1>1, <1>2, <1>3, <1>4, <1>5, <1>6, CallKeeps

LEMMA JobEndKeeps ==
  ASSUME IInv, CancelWindows \/ CollectWindows
  PROVE  IInv'
<1>0. TypeOK /\ TreeOK /\ control \in BOOLEAN
  BY DEF IInv, TypeOK
<1>1. /\ UNCHANGED <<system, pipe>> /\ UNCHANGED <<sup, startup, record, control>>
      /\ port.at = "idle" /\ ~ Posix
  BY DEF CancelWindows, CollectWindows, Calls, supVars
<1>2. Ready
  BY <1>1 DEF Ready, Unready
<1>3. TrueOf(Refreshed) /\ TrueOf(port)
  BY <1>2, RefreshIsTrue, PortIsTrue
<1>4. Refreshed \in Ports /\ Refreshed.at = port.at /\ Refreshed.cancel = port.cancel /\ port \in Ports
  BY <1>3 DEF TrueOf
<1>5. Die(Living, "nonzero") /\ stopped' = stopped \cup Living => Calm /\ (Unborn => Unborn')
  <2> SUFFICES ASSUME Die(Living, "nonzero"), stopped' = stopped \cup Living
               PROVE  Calm /\ (Unborn => Unborn')
    OBVIOUS
  <2>1. "nonzero" \in Exits /\ Living \subseteq Living
    BY DEF Exits
  <2>2. stopped' \subseteq stopped \cup Living /\ stopped \subseteq stopped'
    OBVIOUS
  <2> QED BY <1>0, <1>1, <2>1, <2>2, DieIsCalm
<1>6. CASE CollectWindows
  <2>1. /\ Die(Living, "nonzero") /\ stopped' = stopped \cup Living
        /\ port' = [port EXCEPT !.at = "closed", !.open = {}]
    BY <1>6 DEF CollectWindows, CloseHandles
  <2>2. /\ port' \in Ports /\ port'.at = "closed" /\ port'.outcome = port.outcome
        /\ port'.proven = port.proven /\ port'.told = port.told /\ port'.cancel = port.cancel
    BY <1>4, <2>1 DEF Ports, PortAts
  <2>3. port'.at \notin Unready \cup {"crashed", "collect"} /\ control' \in BOOLEAN
    BY <1>0, <1>1, <2>2 DEF Unready
  <2>4. Calm /\ (Unborn => Unborn')
    BY <1>5, <2>1
  <2> QED BY <1>1, <1>2, <1>3, <2>2, <2>3, <2>4, OwnerKeeps
<1>7. CASE CancelWindows /\ port' = Refreshed
  <2>1. \/ UNCHANGED <<proc, parent, writers, leaderExit, stopped>>
        \/ /\ port'.cancel
           /\ Die(Living, "nonzero") /\ stopped' = stopped \cup Living
    BY <1>4, <1>7 DEF CancelWindows, Ports
  <2>2. port'.at \notin Unready \cup {"crashed", "collect"} /\ control' \in BOOLEAN
    BY <1>0, <1>1, <1>4, <1>7 DEF Unready
  <2>3. port' \in Ports /\ port'.cancel = port.cancel
    BY <1>4, <1>7
  <2>4. CASE UNCHANGED <<proc, parent, writers, leaderExit, stopped>>
    <3>1. Calm
      BY <1>0, <1>1, <2>4, FadingIsCalm DEF TypeOK, TreeTypes
    <3>2. (Unborn => Unborn') /\ stopped' = stopped
      BY <2>4 DEF Unborn
    <3> QED BY <1>1, <1>2, <1>3, <1>7, <2>2, <2>3, <3>1, <3>2, OwnerKeeps
  <2>5. CASE port'.cancel /\ Die(Living, "nonzero") /\ stopped' = stopped \cup Living
    <3>1. Calm /\ (Unborn => Unborn')
      BY <1>5, <2>5
    <3> QED BY <1>1, <1>2, <1>3, <1>7, <2>2, <2>3, <2>5, <3>1, OwnerKeeps
  <2> QED BY <2>1, <2>4, <2>5
<1>8. CASE CancelWindows /\ port' # Refreshed
  <2>1. /\ port' = [Refreshed EXCEPT !.cancel = TRUE]
        /\ Die(Living, "nonzero") /\ stopped' = stopped \cup Living
    BY <1>8 DEF CancelWindows
  <2>2. /\ port' \in Ports /\ port'.at = "idle" /\ port'.outcome = Refreshed.outcome
        /\ port'.proven = Refreshed.proven /\ port'.told = Refreshed.told
        /\ port'.open = Refreshed.open /\ port'.cancel
    BY <1>1, <1>4, <2>1 DEF Ports
  <2>3. port'.at \notin Unready \cup {"crashed", "collect"} /\ control' \in BOOLEAN
    BY <1>0, <1>1, <2>2 DEF Unready
  <2>4. Calm /\ (Unborn => Unborn')
    BY <1>5, <2>1
  <2> QED BY <1>1, <1>2, <1>3, <2>2, <2>3, <2>4, OwnerKeeps
<1> QED BY <1>6, <1>7, <1>8

LEMMA CallsKeep ==
  ASSUME IInv, CallNext
  PROVE  IInv'
<1>1. CASE ReapAbandoned
  <2>1. UNCHANGED treeVars /\ UNCHANGED <<sup, startup, record, control, port>>
    BY <1>1 DEF ReapAbandoned, supVars
  <2>2. StartOK' /\ StreamsOK' /\ port' \in Ports
    BY <2>1 DEF IInv, TypeOK, treeVars, StartOK, StreamsOK, Unborn, Living, Alive, Posix, Dry
  <2> QED BY <2>1, <2>2, PortAlone
<1> QED BY <1>1, RefreshKeeps, CancelPosixKeeps, JobEndKeeps, CloseKeeps DEF CallNext
-------------------------------------------------------------------------------
(* The end of the owner, and the theorems.                                       *)

LEMMA CrashKeeps ==
  ASSUME IInv, OwnerCrashes
  PROVE  IInv'
<1>0. TypeOK /\ TreeOK /\ port \in Ports
  BY DEF IInv, TypeOK
<1>1. /\ UNCHANGED <<system, pipe>> /\ UNCHANGED <<sup, startup, record>> /\ control' = FALSE
      /\ port.at \notin {"new", "request", "built", "refused", "closed", "crashed"}
      /\ port' = [port EXCEPT !.at = "crashed", !.open = {}, !.writer = "none"]
      /\ \/ UNCHANGED <<proc, parent, writers, leaderExit, stopped>>
         \/ ~ Posix /\ Die(Living, "nonzero") /\ stopped' = stopped \cup Living
  BY DEF OwnerCrashes, OwnerRuns
<1>2. /\ port' \in Ports /\ port'.at = "crashed" /\ port'.outcome = port.outcome
      /\ port'.proven = port.proven /\ port'.told = port.told /\ port'.cancel = port.cancel
  BY <1>0, <1>1 DEF Ports, PortAts
<1>3. Calm /\ (Unborn => Unborn') /\ (~ Posix \/ stopped' = stopped)
  <2>1. CASE UNCHANGED <<proc, parent, writers, leaderExit, stopped>>
    <3>1. Calm
      BY <1>0, <1>1, <2>1, FadingIsCalm DEF TypeOK, TreeTypes
    <3> QED BY <2>1, <3>1 DEF Unborn
  <2>2. CASE ~ Posix /\ Die(Living, "nonzero") /\ stopped' = stopped \cup Living
    <3>1. "nonzero" \in Exits /\ Living \subseteq Living
      BY DEF Exits
    <3>2. stopped' \subseteq stopped \cup Living /\ stopped \subseteq stopped'
      BY <2>2
    <3> QED BY <1>0, <1>1, <2>2, <3>1, <3>2, DieIsCalm
  <2> QED BY <1>1, <2>1, <2>2
<1>4. control' \in BOOLEAN
  BY <1>1
<1>5. TypeOK' /\ TreeOK' /\ SupervisorOK' /\ RecordOK' /\ Posix' = Posix
  BY <1>1, <1>2, <1>3, <1>4, OwnersStep
<1>6. StartOK'
  BY <1>1, <1>2, <1>5 DEF IInv, StartOK, Unready
<1>7. Living = {} => Living' = {} /\ leaderExit' = leaderExit /\ stopped' = stopped
  BY <1>3 DEF Calm
<1>8. OutcomeOK'
  BY <1>1, <1>2, <1>5, <1>7 DEF IInv, OutcomeOK, Asked, Outcome
<1>9. StreamsOK'
  BY <1>2, <1>3 DEF IInv, StreamsOK, Calm
<1> QED BY <1>5, <1>6, <1>8, <1>9 DEF IInv

LEMMA InitHolds ==
  ASSUME Init
  PROVE  IInv
<1>1. /\ system \in {"posix", "windows"}
      /\ proc = [p \in Process |-> "unborn"] /\ parent = [p \in Process |-> Reaper]
      /\ writers = {} /\ leaderExit = "none" /\ stopped = {} /\ pipe = [s \in Stream |-> 0]
      /\ sup = NoSupervisor /\ control = FALSE /\ startup = "empty" /\ record = NoRecord
      /\ port = [NoPort EXCEPT !.at = "new"]
  BY DEF Init
<1>2. TreeTypes /\ TreeOK /\ Unborn
  BY <1>1 DEF TreeTypes, TreeOK, Unborn, Living, Alive, ProcStates, Exits
<1>3. /\ sup \in Supervisors /\ sup.at = "none" /\ ~ sup.ok /\ ~ sup.cancelled /\ ~ sup.leaderDone
  BY <1>1 DEF NoSupervisor, Supervisors, SupAts, Exits
<1>4. record \in Records /\ ~ record.sent
  BY <1>1 DEF NoRecord, Records, Exits
<1>5. /\ port \in Ports /\ port.at = "new" /\ port.outcome = "none" /\ ~ port.proven /\ ~ port.told
  BY <1>1 DEF NoPort, Ports, PortAts, Unready, Outcomes
<1>6. TypeOK
  BY <1>1, <1>2, <1>3, <1>4, <1>5 DEF TypeOK
<1>7. SupervisorOK /\ RecordOK
  BY <1>1, <1>2, <1>3, <1>4 DEF SupervisorOK, RecordOK
<1>8. StartOK /\ OutcomeOK /\ StreamsOK
  BY <1>1, <1>2, <1>3, <1>5 DEF StartOK, OutcomeOK, StreamsOK, Unready
<1> QED BY <1>2, <1>6, <1>7, <1>8 DEF IInv

LEMMA NextKeeps ==
  ASSUME IInv, [Next]_vars
  PROVE  IInv'
<1>1. CASE UNCHANGED vars
  <2>1. UNCHANGED treeVars /\ UNCHANGED <<sup, startup, record, control, port>>
    BY <1>1 DEF vars, supVars
  <2>2. StartOK' /\ StreamsOK' /\ port' \in Ports
    BY <2>1 DEF IInv, TypeOK, treeVars, StartOK, StreamsOK, Unborn, Living, Alive, Posix, Dry
  <2> QED BY <2>1, <2>2, PortAlone
<1>2. CASE Outside \/ Supervision \/ WriterEnds \/ StartNext
  BY <1>2, OutsideKeeps, SupervisionKeeps, WriterKeeps, StartKeeps
<1>3. CASE PollNext \/ ReadFails
  <2>1. CASE PollRefresh
    BY <2>1, RefreshKeeps
  <2> QED BY <1>3, <2>1, PollKeeps, ReadStreamKeeps DEF PollNext
<1>4. CASE CallNext \/ OwnerCrashes
  BY <1>4, CallsKeep, CrashKeeps
<1> QED BY <1>1, <1>2, <1>3, <1>4 DEF Next

LEMMA Invariance == Spec => []IInv
<1>1. Init => IInv
  BY InitHolds
<1>2. IInv /\ [Next]_vars => IInv'
  BY NextKeeps
<1> QED BY <1>1, <1>2, PTL DEF Spec

(* The variables keep their types (yaca_process, the supervisor's locals and the *)
(* words of its status pipe).                                                    *)
THEOREM TypeCorrect == Spec => []TypeOK
<1>1. IInv => TypeOK
  BY DEF IInv
<1> QED BY <1>1, Invariance, PTL

(* descendants_proven_stopped is told only when no process of the activity lives,  *)
(* however many it has forked and hidden: the supervisor reports when it has no     *)
(* child, and the oldest process alive is always its child.  A refused start has    *)
(* left nothing, unless its supervisor was killed (refresh_posix_process,           *)
(* refresh_windows_process, yaca_supervisor_run).                                   *)
THEOREM ProofHoldsAlways == Spec => []ProofHolds
<1>1. IInv => ProofHolds
  <2> SUFFICES ASSUME IInv, port.proven \/ (port.at = "refused" /\ ~ SupervisorLost)
               PROVE  Living = {}
    BY DEF ProofHolds
  <2>1. CASE port.proven
    BY <2>1 DEF IInv, OutcomeOK
  <2>2. CASE port.at = "refused" /\ ~ SupervisorLost
    <3>1. CASE ~ Posix
      BY <2>2, <3>1 DEF IInv, StartOK
    <3>2. CASE Posix /\ sup.at = "none"
      <4>1. Unborn
        BY <3>2 DEF IInv, SupervisorOK
      <4> QED BY <4>1 DEF Unborn, Living, Alive
    <3>3. CASE Posix /\ sup.at = "exited"
      <4>1. sup.ok
        BY <2>2, <3>3 DEF SupervisorLost
      <4> QED BY <4>1 DEF IInv, SupervisorOK, RecordOK
    <3> QED BY <2>2, <3>1, <3>2, <3>3 DEF IInv, StartOK
  <2> QED BY <2>1, <2>2
<1> QED BY <1>1, Invariance, PTL

(* An outcome of the leader's own is told only when nobody was stopped, and a       *)
(* cancelled one only when somebody has asked for it: the owner, who cancels or      *)
(* lets go of the control pipe, or a signal to the supervisor.                      *)
THEOREM OutcomeTruthfulAlways == Spec => []OutcomeTruthful
<1>1. IInv => OutcomeTruthful
  BY DEF IInv, OutcomeOK, OutcomeTruthful
<1> QED BY <1>1, Invariance, PTL

(* process_poll tells the end when both pipes are at their end: nothing is left in   *)
(* them and nobody is left to write to them, unless the outcome is unknown.          *)
THEOREM TerminalCompleteAlways == Spec => []TerminalComplete
<1>1. IInv => TerminalComplete
  BY DEF IInv, StreamsOK, Dry, Stream, TerminalComplete
<1> QED BY <1>1, Invariance, PTL
===============================================================================
