----------------------------- MODULE ProcessPort -----------------------------
(* The process calls of src/native on both systems, with the activity they own  *)
(* and, on POSIX, the supervisor between the two.                                *)
EXTENDS PosixSupervisor

CONSTANT Budgets          \* how many events a poll may ask for

ASSUME BudgetsAssumption == Budgets \subseteq Nat

VARIABLES port,           \* the yaca_process and the call that runs on it
          abandoned       \* the supervisor is on the list of abandoned_supervisors

vars == <<treeVars, supVars, port, abandoned>>

NoPort == [at |-> "idle", open |-> {}, room |-> 0, reaped |-> FALSE,
           outcome |-> "none", proven |-> FALSE, cancel |-> FALSE, told |-> FALSE,
           lost |-> FALSE, writer |-> "none", input |-> FALSE]

Init ==
  /\ system \in {"posix", "windows"}
  /\ proc = [p \in Process |-> "unborn"] /\ parent = [p \in Process |-> Reaper]
  /\ writers = {} /\ leaderExit = "none" /\ stopped = {}
  /\ pipe = [s \in Stream |-> 0] /\ written = 0
  /\ adopter = "init"
  /\ sup = NoSupervisor /\ control = FALSE /\ startup = "empty" /\ record = NoRecord
  /\ faults = 0
  /\ port = [NoPort EXCEPT !.at = "new"] /\ abandoned = FALSE

OwnerRuns == port.at \notin {"refused", "closed", "crashed"}

\* The owner's own steps; of the others a call may only wait.
Calls == port.at = "idle"

Goto(at) == port' = [port EXCEPT !.at = at]
-------------------------------------------------------------------------------
(* process_start: the request is captured and admitted before anything exists.  *)

\* The shell reads nothing; a component's request carries bytes, perhaps none.
Inputs == BOOLEAN

CaptureRequest ==
  /\ port.at = "new"
  /\ \E bytes \in Inputs : port' = [port EXCEPT !.at = "request", !.input = bytes]
  /\ UNCHANGED abandoned /\ UNCHANGED treeVars /\ UNCHANGED supVars

\* The mode is unknown, or one of the fields the mode asks for is not as it must be.
RequestRefused ==
  /\ port.at \in {"new", "request"} /\ Goto("refused")
  /\ UNCHANGED abandoned /\ UNCHANGED treeVars /\ UNCHANGED supVars

Built ==
  /\ port.at = "request" /\ Goto("built")
  /\ UNCHANGED abandoned /\ UNCHANGED treeVars /\ UNCHANGED supVars

\* The shell is not the fixed one, or arguments or environment cannot be built.
Unbuildable ==
  /\ port.at = "request" /\ Goto("refused")
  /\ UNCHANGED abandoned /\ UNCHANGED treeVars /\ UNCHANGED supVars

PosixArguments == Posix /\ (Built \/ Unbuildable)

WindowsArguments == ~ Posix /\ (Built \/ Unbuildable)
-------------------------------------------------------------------------------
(* process_start on POSIX *)

\* A pipe, /dev/null or fork fails; nothing exists yet.
PipesFail ==
  /\ port.at = "built" /\ Posix /\ Fault /\ Goto("refused")
  /\ UNCHANGED <<sup, control, startup, record, abandoned>> /\ UNCHANGED treeVars

StartSupervisor ==
  /\ port.at = "built" /\ Posix
  /\ sup' = [NoSupervisor EXCEPT !.at = "setup", !.input = port.input]
  /\ adopter' = "supervisor" /\ control' = TRUE
  /\ port' = [port EXCEPT !.at = "starting", !.input = FALSE]
  /\ UNCHANGED <<system, proc, parent, writers, leaderExit, stopped, pipe, written>>
  /\ UNCHANGED <<startup, record, faults, abandoned>>

\* The blocking read of the startup word has it, or the end of the status pipe.
Started ==
  /\ port.at = "starting" /\ startup = "ok"
  /\ port' = [port EXCEPT !.at = "idle", !.open = Stream]
  /\ UNCHANGED abandoned /\ UNCHANGED treeVars /\ UNCHANGED supVars

\* The start has failed, or the status pipe cannot be made nonblocking: the owner
\* closes its ends and waits for the supervisor.
StartGivenUp ==
  /\ port.at = "starting"
  /\ \/ sup.at = "exited" /\ startup # "ok" /\ UNCHANGED faults
     \/ startup = "error" /\ UNCHANGED faults
     \/ startup = "ok" /\ Fault
  /\ control' = FALSE /\ Goto("waiting")
  /\ UNCHANGED <<sup, startup, record, abandoned>> /\ UNCHANGED treeVars

WaitSupervisor ==
  /\ port.at = "waiting" /\ sup.at = "exited" /\ Goto("refused")
  /\ UNCHANGED abandoned /\ UNCHANGED treeVars /\ UNCHANGED supVars
-------------------------------------------------------------------------------
(* process_start on Windows: pipes and a job that kills on its last close, a      *)
(* suspended process, its assignment, its first instruction, its input.           *)
CreateFails ==
  /\ port.at = "built" /\ ~ Posix /\ Fault /\ Goto("refused")
  /\ UNCHANGED <<sup, control, startup, record, abandoned>> /\ UNCHANGED treeVars

CreateSuspended ==
  /\ port.at = "built" /\ ~ Posix
  /\ Create("suspended") /\ Goto("assign")
  /\ UNCHANGED <<system, leaderExit, stopped, pipe, written, adopter, abandoned>>
  /\ UNCHANGED supVars

\* TerminateProcess, or TerminateJobObject and the last handle of the job.
StartUndone ==
  /\ port.at \in {"assign", "resume", "feed"} /\ Fault
  /\ Die(Living, "nonzero") /\ stopped' = stopped \cup Living
  /\ Goto("refused")
  /\ UNCHANGED <<system, pipe, written, adopter, sup, control, startup, record, abandoned>>

AssignToJob ==
  /\ port.at = "assign" /\ Goto("resume")
  /\ UNCHANGED abandoned /\ UNCHANGED treeVars /\ UNCHANGED supVars

Resume ==
  /\ port.at = "resume"
  /\ proc' = [proc EXCEPT ![Leader] = "live"] /\ Goto("feed")
  /\ UNCHANGED <<system, parent, writers, leaderExit, stopped, pipe, written, adopter, abandoned>>
  /\ UNCHANGED supVars

StartInput ==
  /\ port.at = "feed"
  /\ port' = [port EXCEPT !.at = "idle", !.open = Stream, !.input = FALSE,
                         !.writer = IF port.input THEN "writing" ELSE "none"]
  /\ UNCHANGED abandoned /\ UNCHANGED treeVars /\ UNCHANGED supVars

\* The activity may take its input at any time; when it is gone the pipe is broken,
\* which is no error.  Any other error of WriteFile is one.
WriterEnds ==
  /\ port.writer = "writing"
  /\ \/ port' = [port EXCEPT !.writer = "done"] /\ UNCHANGED faults
     \/ Fault /\ port' = [port EXCEPT !.writer = "error"]
  /\ UNCHANGED <<sup, control, startup, record, abandoned>> /\ UNCHANGED treeVars

JobEmpty == Living = {}
-------------------------------------------------------------------------------
(* refresh_posix_process, refresh_windows_process *)

Outcome(exit) == IF exit = "zero" THEN "completed" ELSE "failed"

RefreshedPosix ==
  IF port.outcome # "none" \/ sup.at # "exited" THEN port
  ELSE IF sup.ok /\ record.sent
       THEN [port EXCEPT !.reaped = TRUE, !.proven = TRUE,
                         !.outcome = IF record.cancelled THEN "cancelled" ELSE Outcome(record.exit)]
       ELSE [port EXCEPT !.reaped = TRUE, !.outcome = "unknown", !.open = {}]

\* (mutant) the leader's exit code counts although its children were stopped
RefreshedByLeader ==
  IF proc[Leader] # "gone" THEN port
  ELSE IF port.outcome # "none" \/ ~ JobEmpty \/ port.writer = "writing"
       THEN [port EXCEPT !.reaped = TRUE]
       ELSE [port EXCEPT !.reaped = TRUE, !.proven = TRUE, !.outcome = Outcome(leaderExit)]

RefreshedWindows ==
  IF proc[Leader] # "gone" THEN port
  ELSE IF port.outcome # "none" THEN [port EXCEPT !.reaped = TRUE]
  ELSE IF ~ JobEmpty \/ port.writer = "writing"
       THEN [port EXCEPT !.reaped = TRUE, !.proven = JobEmpty]
       ELSE [port EXCEPT !.reaped = TRUE, !.proven = TRUE,
                         !.outcome = IF port.writer = "error" THEN "unknown"
                                     ELSE IF port.cancel THEN "cancelled"
                                     ELSE Outcome(leaderExit)]

Refreshed == IF Posix THEN RefreshedPosix ELSE RefreshedWindows
-------------------------------------------------------------------------------
(* process_poll *)

\* One read of each stream, then the refresh, then one more read of each.
AfterRead(at) ==
  CASE at = "stdout" -> "stderr" [] at = "stderr" -> "refresh"
    [] at = "drain stdout" -> "drain stderr" [] at = "drain stderr" -> "terminal"

\* (mutant) the second stream is never read
StdoutOnly(at) == "stdout"

StreamOf(at) == IF at \in {"stdout", "drain stdout"} THEN "stdout" ELSE "stderr"

Poll ==
  /\ Calls
  /\ \E budget \in Budgets :
       port' = [port EXCEPT !.at = "stdout", !.room = budget]
  /\ UNCHANGED abandoned /\ UNCHANGED treeVars /\ UNCHANGED supVars

Reading == port.at \in {"stdout", "stderr", "drain stdout", "drain stderr"}

\* What read, or PeekNamedPipe and ReadFile, find in a stream that is open.
Chunk(s) == pipe[s] > 0

Ended(s) == pipe[s] = 0 /\ writers = {}

\* A chunk, nothing, or the end of the stream, which closes it.
ReadStream ==
  /\ Reading
  /\ LET s == StreamOf(port.at)
         next == AfterRead(port.at)
         asked == port.room > 0 /\ s \in port.open
     IN \/ /\ ~ asked \/ ~ (Chunk(s) \/ Ended(s))
           /\ Goto(next) /\ UNCHANGED pipe
        \/ /\ asked /\ Chunk(s)
           /\ pipe' = [pipe EXCEPT ![s] = @ - 1]
           /\ port' = [port EXCEPT !.at = next, !.room = @ - 1]
        \/ /\ asked /\ Ended(s)
           /\ port' = [port EXCEPT !.at = next, !.open = @ \ {s}] /\ UNCHANGED pipe
  /\ UNCHANGED <<system, proc, parent, writers, leaderExit, stopped, written, adopter, abandoned>>
  /\ UNCHANGED supVars

\* A read error drops the events of this poll.
ReadFails ==
  /\ Reading /\ port.room > 0 /\ StreamOf(port.at) \in port.open /\ Fault
  /\ port' = [port EXCEPT !.at = "idle", !.lost = TRUE, !.room = 0]
  /\ UNCHANGED <<sup, control, startup, record, abandoned>> /\ UNCHANGED treeVars

PollRefresh ==
  /\ port.at = "refresh"
  /\ port' = [Refreshed EXCEPT !.at = IF Refreshed.reaped THEN "drain stdout" ELSE "terminal"]
  /\ UNCHANGED abandoned /\ UNCHANGED treeVars /\ UNCHANGED supVars

\* (mutant) the end is told as soon as it is known
TellsUndrained == port.reaped /\ port.outcome # "none" /\ port.room > 0

\* The end is told once, as the last event, when both streams are closed.
Tells == port.reaped /\ port.outcome # "none" /\ port.room > 0 /\ port.open = {}

PollEnds ==
  /\ port.at = "terminal"
  /\ port' = [port EXCEPT !.at = "idle", !.room = 0, !.told = @ \/ Tells]
  /\ UNCHANGED abandoned /\ UNCHANGED treeVars /\ UNCHANGED supVars
-------------------------------------------------------------------------------
(* process_cancel, process_join, process_close *)

\* Only when the refresh leaves the outcome open.
CancelPosix ==
  /\ Calls /\ Posix
  /\ IF Refreshed.outcome # "none"
     THEN port' = Refreshed /\ UNCHANGED control
     ELSE port' = [Refreshed EXCEPT !.cancel = TRUE] /\ control' = FALSE
  /\ UNCHANGED <<sup, startup, record, faults, abandoned>> /\ UNCHANGED treeVars

CancelWindows ==
  /\ Calls /\ ~ Posix
  /\ IF Refreshed.outcome # "none" \/ JobEmpty
     THEN port' = Refreshed /\ UNCHANGED <<proc, parent, writers, leaderExit, stopped>>
     ELSE /\ port' = [Refreshed EXCEPT !.cancel = TRUE]
          /\ Die(Living, "nonzero") /\ stopped' = stopped \cup Living
  /\ UNCHANGED <<system, pipe, written, adopter, abandoned>> /\ UNCHANGED supVars

\* TerminateJobObject fails: the caller is told, nothing is noted.
CancelFails ==
  /\ Calls /\ ~ Posix /\ Refreshed.outcome = "none" /\ ~ JobEmpty /\ Fault
  /\ port' = Refreshed
  /\ UNCHANGED <<sup, control, startup, record, abandoned>> /\ UNCHANGED treeVars

\* WouldBlock until both are known.
Join ==
  /\ Calls /\ port' = Refreshed
  /\ UNCHANGED abandoned /\ UNCHANGED treeVars /\ UNCHANGED supVars

CloseHandles == port' = [port EXCEPT !.at = "closed", !.open = {}]

Close ==
  /\ Calls /\ port.reaped /\ port.outcome # "none"
  /\ CloseHandles /\ control' = FALSE
  /\ UNCHANGED <<sup, startup, record, faults, abandoned>> /\ UNCHANGED treeVars
-------------------------------------------------------------------------------
(* l_process_gc, and the end of the owner *)

\* TerminateJobObject may fail, the close of the job's last handle does not.
CollectWindows ==
  /\ Calls /\ ~ Posix
  /\ Die(Living, "nonzero") /\ stopped' = stopped \cup Living
  /\ CloseHandles
  /\ UNCHANGED <<system, pipe, written, adopter, abandoned>> /\ UNCHANGED supVars

CollectPosix ==
  /\ Calls /\ Posix
  /\ IF port.outcome = "none" THEN Goto("collect") ELSE CloseHandles
  /\ control' = FALSE
  /\ UNCHANGED <<sup, startup, record, faults, abandoned>> /\ UNCHANGED treeVars

\* A hundred refreshes, then the supervisor is left to later collections.
CollectEnds ==
  /\ port.at = "collect"
  /\ port' = [Refreshed EXCEPT !.at = "closed", !.open = {}]
  /\ abandoned' = ~ Refreshed.reaped
  /\ UNCHANGED treeVars /\ UNCHANGED supVars

\* push_process of a later start; there may be no memory for the list's entry.
ReapAbandoned ==
  /\ abandoned /\ sup.at = "exited" /\ abandoned' = FALSE
  /\ UNCHANGED port /\ UNCHANGED treeVars /\ UNCHANGED supVars

\* The system closes what the owner had open: the control pipe, and the job.
OwnerCrashes ==
  /\ OwnerRuns /\ port.at \notin {"new", "request", "built"} /\ Fault
  /\ port' = [port EXCEPT !.at = "crashed", !.open = {}, !.writer = "none"]
  /\ control' = FALSE
  /\ IF Posix \/ port.at = "assign"
     THEN UNCHANGED <<proc, parent, writers, leaderExit, stopped>>
     ELSE Die(Living, "nonzero") /\ stopped' = stopped \cup Living
  /\ UNCHANGED <<system, pipe, written, adopter, sup, startup, record, abandoned>>
-------------------------------------------------------------------------------
StatusRead == port.at \notin {"crashed", "waiting", "refused", "closed"}

StartNext ==
  \/ CaptureRequest \/ RequestRefused \/ PosixArguments \/ WindowsArguments
  \/ PipesFail \/ StartSupervisor \/ Started \/ StartGivenUp \/ WaitSupervisor
  \/ CreateFails \/ CreateSuspended \/ StartUndone \/ AssignToJob \/ Resume \/ StartInput

PollNext == Poll \/ ReadStream \/ PollRefresh \/ PollEnds

CallNext ==
  \/ CancelPosix \/ CancelWindows \/ CancelFails \/ Join \/ Close
  \/ CollectWindows \/ CollectPosix \/ CollectEnds \/ ReapAbandoned

Outside == TreeNext /\ UNCHANGED supVars /\ UNCHANGED <<port, abandoned>>

Supervision == SupervisorNext(StatusRead) /\ UNCHANGED <<port, abandoned>>

Next ==
  \/ Outside \/ Supervision \/ WriterEnds \/ StartNext \/ PollNext \/ ReadFails
  \/ CallNext \/ OwnerCrashes

\* The supervisor's loop and its process run; the driver polls in every round; a
\* writer whose readers are gone gets its error.  The activity owes nothing.
Fairness ==
  /\ WF_vars(SupervisorStep(StatusRead) /\ UNCHANGED <<port, abandoned>>)
  /\ WF_vars(StartNext) /\ WF_vars(PollNext) /\ WF_vars(CollectEnds)
  /\ WF_vars(JobEmpty /\ WriterEnds)

Spec == Init /\ [][Next]_vars /\ Fairness
-------------------------------------------------------------------------------
\* The supervisor ended without a proof: killed, or it could not be set up.
SupervisorLost == sup.at = "exited" /\ ~ sup.ok

\* descendants_proven_stopped is never told while a process of the activity lives,
\* whatever was forked, orphaned or refused to be killed meanwhile; and a start
\* that was refused has left nothing behind, unless its supervisor was killed.
ProofHolds ==
  (port.proven \/ (port.at = "refused" /\ ~ SupervisorLost)) => Living = {}

\* The outcome is the leader's own end only if nobody was stopped to get it, and a
\* cancellation is reported only if something asked for one.
OutcomeTruthful ==
  /\ port.outcome \in {"completed", "failed"} =>
       stopped = {} /\ port.outcome = Outcome(leaderExit)
  /\ port.outcome = "cancelled" => port.cancel \/ sup.interrupted \/ port.at \in {"collect", "closed"}

\* When the end of the activity is told and its outcome is known, every chunk it
\* wrote has been handed over, but for the events of a poll that failed.
TerminalComplete ==
  (port.told /\ port.outcome # "unknown" /\ ~ port.lost) =>
    writers = {} /\ \A s \in Stream : pipe[s] = 0

\* A cancellation that was accepted reaches an outcome, although the activity forks
\* on, hides its children or refuses to end, and kills may be refused.
CancelSettles == port.cancel ~> (port.outcome # "none" \/ ~ OwnerRuns)

\* When its owner has closed, dropped or lost it, or died, nothing of the activity
\* goes on, unless the supervisor was killed before.
NothingOutlivesOwner ==
  ~ OwnerRuns ~> (SupervisorLost \/ {p \in Process : proc[p] = "live"} = {})

\* An activity all of whose processes have ended is told to have ended.
EndIsTold == (Calls /\ Living = {}) ~> (port.told \/ ~ OwnerRuns)
===============================================================================
