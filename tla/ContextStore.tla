---------------------------- MODULE ContextStore ----------------------------
(***************************************************************************)
(* The publication protocol of one Context (new_store of                   *)
(* src/src/context.lua): writer leases, the replacement of the official    *)
(* file by a new generation with the previous one kept beside it, recovery *)
(* of the previous generation, rename to another path, repair, deletion,   *)
(* each cut short by a failed call, a crash of the process or a power loss.*)
(*                                                                         *)
(* Several processes run the operations.  A step of one of them ends with  *)
(* its next change of the directory and the flush that makes it durable; a *)
(* crash between the change and its flush is the step whose flush fails,   *)
(* followed by the crash.  Reads come with the step they guard: a process  *)
(* decides only by files it holds the lease of.                            *)
(*                                                                         *)
(* A document is the sequence of its publications (each stands for the     *)
(* Facts it adds), so that two histories of one length can differ.  The    *)
(* temporary file has a random name, is read by nobody but its writer and  *)
(* is complete and verified before the official file is touched: it is     *)
(* left out, and writing it can only fail.                                 *)
(***************************************************************************)
EXTENDS Naturals, SequencesExt

CONSTANTS
  Procs,           \* processes that use the store
  Paths,           \* official paths of the Context: its name, and renamed
  MaxFacts,        \* bound: documents written in one behaviour
  AtomicReplace,   \* a power loss leaves the old or the new file
  Uses             \* what the user may do to the Context besides: sets of them

ASSUME ContextStoreAssumption ==
  /\ MaxFacts \in Nat
  /\ "none" \notin Paths /\ Paths # {}
  /\ AtomicReplace \in BOOLEAN
  /\ Uses \subseteq SUBSET {"rename", "repair"}

VARIABLES
  dir,         \* the directory: official, .yaca-prev and .yaca-lock by path
  disks,       \* what a power loss may leave of it
  proc,        \* the operation each process is in
  facts,       \* documents written so far
  confirmed,   \* the document of the last receipt, None after a deletion
  uses         \* renames, repairs, neither or both happen in this behaviour

vars == <<dir, disks, proc, facts, confirmed, uses>>

-----------------------------------------------------------------------------
(* Files.                                                                  *)

None == <<>>                 \* no file
Torn == <<0>>                \* a file that is no Context document
IsDoc(c)  == c \notin {None, Torn}

\* The document a path stands for: the official one, else the previous one.
Kept(d, p) == CASE IsDoc(d.xml[p])  -> d.xml[p]
                [] ~IsDoc(d.xml[p]) -> IF IsDoc(d.prev[p]) THEN d.prev[p] ELSE None

SetXml(d, p, c)  == [d EXCEPT !.xml[p] = c]
SetPrev(d, p, c) == [d EXCEPT !.prev[p] = c]
Lock(d, p)       == [d EXCEPT !.lock[p] = TRUE]
UnlockAll(d, ps) == [d EXCEPT !.lock = [p \in Paths |-> FALSE]]     \* mutant
Unlock(d, ps)    == [d EXCEPT !.lock = [p \in Paths |-> d.lock[p] /\ p \notin ps]]

\* A change of the directory, flushed or not; and no change.
Durable(d) == dir' = d /\ disks' = {d}
Changed(d) == dir' = d /\ disks' = disks \cup {d}
Same       == UNCHANGED <<dir, disks>>

\* filesystem.replace onto path p, not flushed.  Where it is not atomic a power
\* loss may find the old file gone and the new one missing or not whole, and
\* the renamed one still in its place.
Replaced(d, p) ==
  /\ dir' = d
  /\ disks' = disks \cup {d} \cup
       IF AtomicReplace THEN {} ELSE {SetXml(dir, p, None), SetXml(dir, p, Torn)}

-----------------------------------------------------------------------------
(* Processes.                                                              *)

Out == [pc |-> "out", path |-> "none", to |-> "none", base |-> None,
        doc |-> None, leases |-> {}]

At(w, pc)    == proc[w].pc = pc
Step(w, r)   == proc' = [proc EXCEPT ![w] = r]
Goto(w, pc)  == proc' = [proc EXCEPT ![w].pc = pc]
NoReceipt    == UNCHANGED confirmed
NoDocument   == UNCHANGED facts

\* The document a process writes next extends the one it has.
Next1(base)  == Append(base, facts + 1)
MayWrite     == facts < MaxFacts /\ facts' = facts + 1

\* writer.status = "faulted": it can only be closed.
Fault(w) == Goto(w, "faulted") /\ NoReceipt

\* A receipt for the document of w, which later publications extend.
Based(r) == [r EXCEPT !.pc = "active"]                             \* mutant
Rebased(r) == [r EXCEPT !.pc = "active", !.base = r.doc]
Receipt(w, r) == confirmed' = proc[w].doc /\ Step(w, r)

\* acquire_lease: exclusive create, flushed.
Acquire(w, p, r) ==
  /\ ~dir.lock[p]
  /\ Durable(Lock(dir, p))
  /\ Step(w, [r EXCEPT !.leases = proc[w].leases \cup {p}])

\* acquire_lease whose flush and cleanup fail leaves a lock that is nobody's.
AcquireFails(w, p) ==
  /\ At(w, "out") /\ ~dir.lock[p]
  /\ Changed(Lock(dir, p))
  /\ UNCHANGED proc /\ NoReceipt /\ NoDocument

\* release_lease for every lease of w, as far as it succeeds: close_writer and
\* the failed ends of acquire and apply_repair.
Leave(w) ==
  /\ proc[w].pc \in {"active", "faulted", "finished", "leaving"}
  /\ \E ps \in SUBSET proc[w].leases :
       Changed(Unlock(dir, ps)) \/ Durable(Unlock(dir, ps))
  /\ Step(w, Out) /\ NoReceipt /\ NoDocument

-----------------------------------------------------------------------------
(* acquire: open_writer and create_writer.                                 *)

Open(w, p) ==
  /\ At(w, "out")
  /\ Acquire(w, p, [Out EXCEPT !.pc = "opening", !.path = p])
  /\ NoReceipt /\ NoDocument

\* The path of a new Context has neither file.  A creation beside another one
\* is a second Context, with a random name of its own, and left out.
Create(w, p) ==
  /\ At(w, "out") /\ confirmed = None
  /\ \A q \in Paths : dir.xml[q] = None /\ dir.prev[q] = None /\ ~dir.lock[q]
  /\ Acquire(w, p, [Out EXCEPT !.pc = "active", !.path = p])
  /\ NoReceipt /\ NoDocument

\* The official file is valid; a previous one beside it is removed.
OpenValid(w) ==
  LET p == proc[w].path
      r == [proc[w] EXCEPT !.pc = "active", !.base = dir.xml[p]]
  IN /\ At(w, "opening") /\ IsDoc(dir.xml[p])
     /\ \/ dir.prev[p] = None /\ Same /\ Step(w, r)
        \/ dir.prev[p] # None /\ Durable(SetPrev(dir, p, None)) /\ Step(w, r)
        \/ dir.prev[p] # None /\ Changed(SetPrev(dir, p, None)) /\ Goto(w, "leaving")
        \/ dir.prev[p] # None /\ Same /\ Goto(w, "leaving")
     /\ NoReceipt /\ NoDocument

\* recover_previous, for an official file whose body does not parse.  The
\* restored file is not the selected one, which the caller must select again;
\* an uncertain end keeps the lease file although no writer has it.
Recover(w) ==
  LET p == proc[w].path
      d == SetPrev(SetXml(dir, p, dir.prev[p]), p, None)
  IN /\ At(w, "opening") /\ dir.xml[p] = Torn /\ IsDoc(dir.prev[p])
     /\ \/ Durable(d) /\ Goto(w, "leaving")
        \/ Replaced(d, p) /\ Step(w, Out)
        \/ Same /\ Step(w, Out)
     /\ NoReceipt /\ NoDocument

\* There is no official file, or none that can be recovered.
OpenRefused(w) ==
  LET p == proc[w].path
  IN /\ At(w, "opening") /\ ~IsDoc(dir.xml[p])
     /\ dir.xml[p] = None \/ ~IsDoc(dir.prev[p])
     /\ Same /\ Goto(w, "leaving") /\ NoReceipt /\ NoDocument

-----------------------------------------------------------------------------
(* publish.                                                                *)

\* The first generation: rename_no_replace, flush, confirm.
PublishFirst(w) ==
  LET p == proc[w].path
      doc == Next1(None)
  IN /\ At(w, "active") /\ proc[w].base = None /\ dir.xml[p] = None
     /\ MayWrite
     /\ \/ /\ Durable(SetXml(dir, p, doc))
           /\ confirmed' = doc
           /\ Step(w, [proc[w] EXCEPT !.base = doc])
        \/ Changed(SetXml(dir, p, doc)) /\ Fault(w)

\* copy_file_verified creates the previous file, or finds one that an earlier
\* publication failed to remove, and refuses.
KeepPrevious(w) ==
  LET p == proc[w].path
  IN /\ At(w, "active") /\ proc[w].base # None
     /\ dir.xml[p] = proc[w].base /\ dir.prev[p] = None
     /\ MayWrite
     /\ Changed(SetPrev(dir, p, Torn))
     /\ Step(w, [proc[w] EXCEPT !.pc = "copying", !.doc = Next1(proc[w].base)])
     /\ NoReceipt

CopyPrevious(w) ==
  /\ At(w, "copying")
  /\ Durable(SetPrev(dir, proc[w].path, proc[w].base))
  /\ Goto(w, "kept") /\ NoReceipt /\ NoDocument

ReplaceUncopied(w) == proc[w].pc \in {"copying", "kept"}           \* mutant
MayReplace(w)      == At(w, "kept")
Replace(w) ==
  LET p == proc[w].path
      d == SetXml(dir, p, proc[w].doc)
  IN /\ MayReplace(w)
     /\ \/ Durable(d) /\ Goto(w, "replaced")
        \/ Replaced(d, p) /\ Goto(w, "faulted")
     /\ NoReceipt /\ NoDocument

\* An ordinary failure before the replacement removes the previous file if it
\* can, and the writer stays active.
PublishFails(w) ==
  LET d == SetPrev(dir, proc[w].path, None)
  IN /\ proc[w].pc \in {"copying", "kept"}
     /\ Durable(d) \/ Changed(d) \/ Same
     /\ Goto(w, "active") /\ NoReceipt /\ NoDocument

\* The new generation is confirmed, then the previous one removed.
CleanPrevious(w) ==
  LET d == SetPrev(dir, proc[w].path, None)
  IN /\ At(w, "replaced")
     /\ \/ Durable(d) /\ Receipt(w, Rebased(proc[w]))
        \/ (Changed(d) \/ Same) /\ Fault(w)
     /\ NoDocument

-----------------------------------------------------------------------------
(* move, within one directory.                                             *)

MoveStart(w, q) ==
  LET p == proc[w].path
  IN /\ "rename" \in uses
     /\ At(w, "active") /\ proc[w].base # None /\ q # p
     /\ dir.xml[q] = None /\ dir.prev[q] = None
     /\ dir.xml[p] = proc[w].base /\ dir.prev[p] = None
     /\ MayWrite
     /\ Acquire(w, q, [proc[w] EXCEPT !.pc = "moving", !.to = q,
                                      !.doc = Next1(proc[w].base)])
     /\ NoReceipt

\* The old official becomes the previous file of the old path.
HiddenByCopy(p) == SetPrev(dir, p, dir.xml[p])                     \* mutant
Hidden(p)       == SetPrev(SetXml(dir, p, None), p, dir.xml[p])
Hide(w) ==
  LET d == Hidden(proc[w].path)
  IN /\ At(w, "moving")
     /\ \/ Durable(d) /\ Goto(w, "hidden")
        \/ Changed(d) /\ Goto(w, "unhiding")
     /\ NoReceipt /\ NoDocument

MovePublish(w) ==
  LET d == SetXml(dir, proc[w].to, proc[w].doc)
  IN /\ At(w, "hidden")
     /\ \/ Durable(d) /\ Goto(w, "moved")
        \/ Changed(d) /\ Goto(w, "faulted")
     /\ NoReceipt /\ NoDocument

\* A failure after Hide renames the old official back.
Unhide(w) ==
  LET p == proc[w].path
      d == SetXml(SetPrev(dir, p, None), p, proc[w].base)
  IN /\ proc[w].pc \in {"hidden", "unhiding"}
     /\ \/ (Durable(d) \/ Changed(d)) /\ Goto(w, "unhidden")
        \/ Same /\ Goto(w, "faulted")
     /\ NoReceipt /\ NoDocument

\* release_destination
ReleaseDestination(w) ==
  LET d == Unlock(dir, {proc[w].to})
      r == [proc[w] EXCEPT !.to = "none", !.leases = @ \ {proc[w].to}]
  IN /\ proc[w].pc \in {"moving", "unhidden"}
     /\ \/ Durable(d) /\ Step(w, [r EXCEPT !.pc = "active"])
        \/ Changed(d) /\ Step(w, [r EXCEPT !.pc = "faulted"])
        \/ Same /\ Goto(w, "faulted")
     /\ NoReceipt /\ NoDocument

MoveClean(w) ==
  LET d == SetPrev(dir, proc[w].path, None)
  IN /\ At(w, "moved")
     /\ \/ Durable(d) /\ Receipt(w, [Rebased(proc[w]) EXCEPT !.path = proc[w].to,
                                                              !.to = "none"])
        \/ (Changed(d) \/ Same) /\ Fault(w)
     /\ NoDocument

-----------------------------------------------------------------------------
(* plan_repair and apply_repair, which verifies the plan again under the   *)
(* lease: restore the previous file, or remove an obsolete one.            *)

RepairSource(p) == IF IsDoc(dir.xml[p]) THEN dir.xml[p] ELSE dir.prev[p]

RepairStart(w, p) ==
  /\ "repair" \in uses
  /\ At(w, "out") /\ IsDoc(dir.prev[p])
  /\ IsPrefix(dir.prev[p], RepairSource(p))
  /\ MayWrite
  /\ Acquire(w, p, [Out EXCEPT !.pc = "repairing", !.path = p,
                               !.base = RepairSource(p),
                               !.doc = Next1(RepairSource(p))])
  /\ NoReceipt

RepairPublish(w) ==
  LET p == proc[w].path
      d == SetXml(dir, p, proc[w].doc)
  IN /\ At(w, "repairing")
     /\ \/ Durable(d) /\ Goto(w, "repaired")
        \/ dir.xml[p] = None /\ Changed(d) /\ Goto(w, "leaving")
        \/ dir.xml[p] # None /\ Replaced(d, p) /\ Goto(w, "leaving")
        \/ Same /\ Goto(w, "leaving")
     /\ NoReceipt /\ NoDocument

RepairClean(w) ==
  LET d == SetPrev(dir, proc[w].path, None)
  IN /\ At(w, "repaired")
     /\ \/ Durable(d) /\ Receipt(w, [proc[w] EXCEPT !.pc = "finished",
                                                    !.base = proc[w].doc])
        \/ (Changed(d) \/ Same) /\ Goto(w, "leaving") /\ NoReceipt
     /\ NoDocument

-----------------------------------------------------------------------------
(* open_delete_writer and delete: the official file, then the previous one, *)
(* each as far as it succeeds.                                             *)

DeleteStart(w, p) ==
  /\ At(w, "out") /\ dir.xml[p] # None
  /\ Acquire(w, p, [Out EXCEPT !.pc = "deleting", !.path = p])
  /\ NoReceipt /\ NoDocument

DeleteOfficial(w) ==
  LET d == SetXml(dir, proc[w].path, None)
  IN /\ At(w, "deleting")
     /\ Durable(d) \/ Changed(d) \/ Same
     /\ Goto(w, "deletingPrevious") /\ confirmed' = None /\ NoDocument

DeletePrevious(w) ==
  LET d == SetPrev(dir, proc[w].path, None)
  IN /\ At(w, "deletingPrevious")
     /\ Durable(d) \/ Changed(d) \/ Same
     /\ Goto(w, "leaving") /\ NoReceipt /\ NoDocument

-----------------------------------------------------------------------------
(* The environment.                                                        *)

\* A process ends anywhere; its lock files stay.
Crash(w) ==
  /\ ~At(w, "out")
  /\ Step(w, Out) /\ UNCHANGED <<dir, disks, facts, confirmed>>

PowerLoss ==
  /\ \E d \in disks : Durable(d)
  /\ proc' = [w \in Procs |-> Out]
  /\ UNCHANGED <<facts, confirmed>>

\* The user removes a lock file no running process has the lease of: nothing
\* in the program does.
RemoveStaleLock(p) ==
  /\ dir.lock[p] /\ \A w \in Procs : p \notin proc[w].leases
  /\ Changed(Unlock(dir, {p}))
  /\ UNCHANGED <<proc, facts, confirmed>>

Init ==
  /\ dir = [xml |-> [p \in Paths |-> None], prev |-> [p \in Paths |-> None],
            lock |-> [p \in Paths |-> FALSE]]
  /\ disks = {dir}
  /\ proc = [w \in Procs |-> Out]
  /\ facts = 0
  /\ confirmed = None
  /\ uses \in Uses

Operations ==
  \/ \E w \in Procs :
       \/ \E p \in Paths : \/ AcquireFails(w, p) \/ Open(w, p) \/ Create(w, p)
                           \/ MoveStart(w, p) \/ RepairStart(w, p) \/ DeleteStart(w, p)
       \/ Leave(w) \/ OpenValid(w) \/ Recover(w) \/ OpenRefused(w)
       \/ PublishFirst(w) \/ KeepPrevious(w) \/ CopyPrevious(w) \/ Replace(w)
       \/ PublishFails(w) \/ CleanPrevious(w)
       \/ Hide(w) \/ MovePublish(w) \/ Unhide(w) \/ ReleaseDestination(w) \/ MoveClean(w)
       \/ RepairPublish(w) \/ RepairClean(w)
       \/ DeleteOfficial(w) \/ DeletePrevious(w)
       \/ Crash(w)
  \/ PowerLoss
  \/ \E p \in Paths : RemoveStaleLock(p)

Next == Operations /\ UNCHANGED uses

Spec == Init /\ [][Next]_vars

-----------------------------------------------------------------------------
(* Properties.                                                             *)

\* Whatever a power loss leaves at any point of any operation, some path still
\* stands for a document with every confirmed Fact: the fixed order of copy,
\* replace, flush and removal in publish, move and apply_repair.
ConfirmedSurvives ==
  \A d \in disks : \E p \in Paths : IsPrefix(confirmed, Kept(d, p))

\* The steps in which a process is a writer, or about to be told it was one.
WriterPcs == {"active", "copying", "kept", "replaced", "moving", "hidden",
              "unhiding", "unhidden", "moved", "repairing", "repaired", "finished",
              "faulted"}
\* At most one process holds a lease of a path, and a Context that was renamed
\* has one writer whatever its paths.
OneWriter ==
  \A v, w \in Procs : v # w =>
    /\ proc[v].leases \cap proc[w].leases = {}
    /\ proc[v].pc \in WriterPcs => proc[w].pc \notin WriterPcs

\* The Context is never official under two paths at once (move hides the old
\* one before it publishes the new one, so that the Catalog sees one Context).
OneOfficial ==
  \A d \in disks : \A p, q \in Paths :
    IsDoc(d.xml[p]) /\ IsDoc(d.xml[q]) => p = q

\* ContextHistory, of the writers there are and the documents they extend.
Writers == {w \in Procs : proc[w].pc \in WriterPcs}
History == INSTANCE ContextHistory WITH
             writers <- Writers,
             held <- [w \in Procs |-> IF w \in Writers THEN proc[w].base ELSE None]

\* What the callers of the store (src/src/session.lua) rely on: one history that
\* only grows, which every writer is handed with all that was confirmed of it.
ImplementsHistory == History!Spec
=============================================================================
