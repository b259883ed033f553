--------------------------- MODULE PosixSupervisor ---------------------------
(* yaca_supervisor_run: the forked child that adopts every orphan of the        *)
(* activity, kills what is left of it once it is cancelled, and reports only    *)
(* when it has no child any more.                                               *)
EXTENDS ActivityTree

CONSTANT MaxFaults        \* calls that fail, signals from outside, in a behaviour

VARIABLES sup,            \* the supervisor
          control,        \* the owner's end of the control pipe is open
          startup,        \* first word of the status pipe
          record,         \* the yaca_supervisor_result after it
          faults          \* faults so far

supVars == <<sup, control, startup, record, faults>>

NoRecord == [sent |-> FALSE, exit |-> "none", cancelled |-> FALSE]

NoSupervisor == [at |-> "none", leaderDone |-> FALSE, leaderStatus |-> "none",
                 cancelled |-> FALSE, interrupted |-> FALSE, input |-> FALSE,
                 list |-> {}, ok |-> FALSE]

SupervisorRuns == sup.at \notin {"none", "exited"}

Fault == faults < MaxFaults /\ faults' = faults + 1

\* _exit, or a SIGKILL: init adopts what is left and waits for its zombies.
SupervisorEnds(ok) ==
  /\ sup' = [sup EXCEPT !.at = "exited", !.list = {}, !.ok = ok]
  /\ adopter' = "init"
  /\ proc' = [p \in Process |->
                IF parent[p] = Reaper /\ proc[p] = "zombie" THEN "gone" ELSE proc[p]]
  /\ UNCHANGED <<system, parent, writers, leaderExit, stopped, pipe, written>>

\* close_inherited, PR_SET_CHILD_SUBREAPER, the children file or fork fails.
SetupFails ==
  /\ sup.at = "setup" /\ Fault
  /\ startup' = "error" /\ SupervisorEnds(FALSE)
  /\ UNCHANGED <<control, record>>

ForkLeader ==
  /\ sup.at = "setup"
  /\ Create("live")
  /\ sup' = [sup EXCEPT !.at = "announce"]
  /\ UNCHANGED <<system, leaderExit, stopped, pipe, written, adopter, control, startup, record, faults>>

\* Nobody reads the status pipe of an owner that is gone.
Announce(read) ==
  /\ sup.at = "announce"
  /\ startup' = IF read THEN "ok" ELSE startup
  /\ sup' = [sup EXCEPT !.at = "control", !.cancelled = ~ read]
  /\ UNCHANGED <<control, record, faults>> /\ UNCHANGED treeVars

\* (mutant) the end of the control pipe is not noticed
DeafToOwner ==
  /\ sup.at = "control"
  /\ sup' = [sup EXCEPT !.at = "reap", !.cancelled = @ \/ sup.interrupted]
  /\ UNCHANGED <<control, startup, record, faults>> /\ UNCHANGED treeVars

\* End of file, a byte or an error on the control pipe, or a signal.
ReadControl ==
  /\ sup.at = "control"
  /\ sup' = [sup EXCEPT !.at = "reap",
                        !.cancelled = @ \/ ~ control \/ sup.interrupted]
  /\ UNCHANGED <<control, startup, record, faults>> /\ UNCHANGED treeVars

ReapChild ==
  /\ sup.at = "reap"
  /\ \E p \in Unreaped :
       /\ proc[p] = "zombie"
       /\ proc' = [proc EXCEPT ![p] = "gone"]
       /\ sup' = IF p = Leader
                 THEN [sup EXCEPT !.leaderDone = TRUE, !.leaderStatus = leaderExit]
                 ELSE sup
  /\ UNCHANGED <<system, parent, writers, leaderExit, stopped, pipe, written, adopter>>
  /\ UNCHANGED <<control, startup, record, faults>>

\* (mutant) the activity is over when its leader is
ProvenByLeader == sup.leaderDone

\* ECHILD: every process of the activity has been waited for.
Proven == Unreaped = {} /\ sup.leaderDone

Report ==
  /\ sup.at = "reap" /\ Proven
  /\ record' = [sent |-> TRUE, exit |-> sup.leaderStatus, cancelled |-> sup.cancelled]
  /\ sup' = [sup EXCEPT !.at = "leave"]
  /\ UNCHANGED <<control, startup, faults>> /\ UNCHANGED treeVars

Leave ==
  /\ sup.at = "leave" /\ SupervisorEnds(TRUE)
  /\ UNCHANGED <<control, startup, record, faults>>

\* waitpid has returned 0: children live, none of them can be waited for.
ReapedAll ==
  /\ sup.at = "reap" /\ ~ Proven
  /\ \A p \in Unreaped : proc[p] # "zombie"

NothingToReap ==
  /\ ReapedAll
  /\ sup' = [sup EXCEPT !.at = IF sup.cancelled THEN "list" ELSE "feed",
                        !.input = @ /\ ~ sup.cancelled]
  /\ UNCHANGED <<control, startup, record, faults>> /\ UNCHANGED treeVars

\* (mutant) only the leader is killed
ListLeader ==
  /\ sup.at = "list"
  /\ sup' = [sup EXCEPT !.at = "kill", !.list = Unreaped \cap {Leader}]
  /\ UNCHANGED <<control, startup, record, faults>> /\ UNCHANGED treeVars

\* The children file names the direct children of this moment.
ListChildren ==
  /\ sup.at = "list"
  /\ sup' = [sup EXCEPT !.at = "kill", !.list = Unreaped]
  /\ UNCHANGED <<control, startup, record, faults>> /\ UNCHANGED treeVars

\* A listed child may have ended, but its identity is not reused before the wait.
KillChild ==
  /\ sup.at = "kill"
  /\ \E p \in sup.list :
       /\ sup' = [sup EXCEPT !.list = @ \ {p}]
       /\ IF proc[p] = "live"
          THEN Die({p}, "nonzero") /\ stopped' = stopped \cup {p}
          ELSE UNCHANGED <<proc, parent, writers, leaderExit, stopped>>
  /\ UNCHANGED <<system, pipe, written, adopter, control, startup, record, faults>>

\* A child that must not be signalled ends the pass; the next one tries again.
KillRefused ==
  /\ sup.at = "kill" /\ sup.list # {} /\ Fault
  /\ sup' = [sup EXCEPT !.list = {}]
  /\ UNCHANGED <<control, startup, record>> /\ UNCHANGED treeVars

PassEnds ==
  /\ sup.at = "kill" /\ sup.list = {}
  /\ sup' = [sup EXCEPT !.at = "control"]
  /\ UNCHANGED <<control, startup, record, faults>> /\ UNCHANGED treeVars

\* Some of the input is written; at its end or at an error the pipe is closed.
FeedInput ==
  /\ sup.at = "feed"
  /\ \E more \in {FALSE, sup.input} : sup' = [sup EXCEPT !.at = "control", !.input = more]
  /\ UNCHANGED <<control, startup, record, faults>> /\ UNCHANGED treeVars

\* SIGHUP, SIGINT or SIGTERM.
Interrupted ==
  /\ SupervisorRuns /\ ~ sup.interrupted /\ Fault
  /\ sup' = [sup EXCEPT !.interrupted = TRUE]
  /\ UNCHANGED <<control, startup, record>> /\ UNCHANGED treeVars

SupervisorKilled ==
  /\ SupervisorRuns /\ Fault /\ SupervisorEnds(FALSE)
  /\ UNCHANGED <<control, startup, record>>

\* One step of the loop of yaca_supervisor_run; read says somebody has the status pipe.
SupervisorStep(read) ==
  \/ ForkLeader \/ Announce(read) \/ ReadControl \/ ReapChild \/ Report \/ Leave
  \/ NothingToReap \/ ListChildren \/ KillChild \/ PassEnds \/ FeedInput

SupervisorNext(read) ==
  SupervisorStep(read) \/ SetupFails \/ KillRefused \/ Interrupted \/ SupervisorKilled
===============================================================================
