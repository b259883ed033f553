---------------------------- MODULE ActivityTree ----------------------------
(* The processes of one activity as the operating system keeps them: they fork, *)
(* write, close their outputs and end when they like.  This part is outside the *)
(* repository; the calls of src/native that act on it are in the modules below. *)
EXTENDS Naturals, FiniteSets

CONSTANTS Process,        \* identities in order of birth
          Leader,         \* the shell or component the activity was started for
          MaxOutput       \* chunks written in a behaviour

Stream == {"stdout", "stderr"}

\* Orphans go to the nearest subreaper above them: the supervisor, or init.
Reaper == 0

ASSUME ActivityAssumption ==
  /\ Process \subseteq Nat \ {Reaper} /\ Leader \in Process
  /\ \A p \in Process : Leader <= p

VARIABLES system,         \* "posix" or "windows"
          proc,           \* the state of every process
          parent,         \* who must wait for it
          writers,        \* processes that have the outputs open
          leaderExit,     \* how the leader ended
          stopped,        \* processes ended by the supervisor or the job
          pipe,           \* chunks written and not read, by stream
          written,        \* chunks written
          adopter         \* "supervisor" or "init": what Reaper stands for

treeVars == <<system, proc, parent, writers, leaderExit, stopped, pipe, written, adopter>>

Posix == system = "posix"

Alive(p) == proc[p] \in {"suspended", "live"}

Living == {p \in Process : Alive(p)}

\* What waitpid(-1) and the children file of the reaper see.
Unreaped == {p \in Process : parent[p] = Reaper /\ proc[p] \in {"live", "zombie"}}

\* A dead process stays a zombie until its parent waits for it; init does at once.
Remains(p) ==
  IF ~ Posix \/ (parent[p] = Reaper /\ adopter = "init") THEN "gone" ELSE "zombie"

\* The processes of S end; their children are the reaper's from then on.
Die(S, how) ==
  /\ proc' = [p \in Process |->
                IF p \in S THEN Remains(p)
                ELSE IF proc[p] = "zombie" /\ parent[p] \in S /\ adopter = "init" THEN "gone"
                ELSE proc[p]]
  /\ parent' = [p \in Process |-> IF parent[p] \in S THEN Reaper ELSE parent[p]]
  /\ writers' = writers \ S
  /\ leaderExit' = IF Leader \in S THEN how ELSE leaderExit

\* The leader is created by the supervisor, or suspended by CreateProcess.
Create(state) ==
  /\ proc' = [proc EXCEPT ![Leader] = state]
  /\ parent' = [parent EXCEPT ![Leader] = Reaper]
  /\ writers' = {Leader}

Fork(p) ==
  /\ proc[p] = "live"
  /\ \E q \in Process :
       /\ proc[q] = "unborn" /\ p < q
       /\ \A r \in Process : r < q => proc[r] # "unborn"
       /\ proc' = [proc EXCEPT ![q] = "live"]
       /\ parent' = [parent EXCEPT ![q] = p]
       /\ writers' = IF p \in writers THEN writers \cup {q} ELSE writers
  /\ UNCHANGED <<system, leaderExit, stopped, pipe, written, adopter>>

Exit(p) ==
  /\ proc[p] = "live"
  /\ \E how \in {"zero", "nonzero"} : Die({p}, how)
  /\ UNCHANGED <<system, stopped, pipe, written, adopter>>

\* A process waits for a child of its own.
Wait(p) ==
  /\ proc[p] = "zombie" /\ parent[p] # Reaper
  /\ proc' = [proc EXCEPT ![p] = "gone"]
  /\ UNCHANGED <<system, parent, writers, leaderExit, stopped, pipe, written, adopter>>

Write(p, s) ==
  /\ proc[p] = "live" /\ p \in writers /\ written < MaxOutput
  /\ pipe' = [pipe EXCEPT ![s] = @ + 1]
  /\ written' = written + 1
  /\ UNCHANGED <<system, proc, parent, writers, leaderExit, stopped, adopter>>

CloseOutputs(p) ==
  /\ proc[p] = "live" /\ p \in writers
  /\ writers' = writers \ {p}
  /\ UNCHANGED <<system, proc, parent, leaderExit, stopped, pipe, written, adopter>>

TreeNext ==
  \E p \in Process :
    \/ Fork(p) \/ Exit(p) \/ Wait(p) \/ CloseOutputs(p)
    \/ \E s \in Stream : Write(p, s)
===============================================================================
