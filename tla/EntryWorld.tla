------------------------------ MODULE EntryWorld ------------------------------
(* One directory as the native file calls and every other program see it       *)
(* (src/native/yaca_native.c).  The caller has admitted the object under the   *)
(* name "target" and asks for one call on it; other programs may change the    *)
(* directory and the files between any two system calls of that call.          *)
(*                                                                             *)
(* "other" is the second name of a call: the temporary of a replacement, the   *)
(* destination of a rename, the recovery name of a deletion.  "aside" is the   *)
(* backup name of ReplaceFileW.  An operator marked `mutant' is a wrong version *)
(* of the one after it, and takes no part in the specification.                *)
EXTENDS Naturals, FiniteSets

CONSTANTS Target,      \* the object the caller admitted
          Candidate,   \* the temporary file the caller has filled
          Foreign,     \* objects other programs may create
          MaxForeign   \* how many steps other programs take

Names   == {"target", "other", "aside"}
Objects == {Target, Candidate} \cup Foreign
Absent  == "absent"

ASSUME EntryAssumption ==
  /\ Target # Candidate
  /\ Target \notin Foreign /\ Candidate \notin Foreign
  /\ Absent \notin Objects
  /\ MaxForeign \in Nat

VARIABLES
  dir,       \* what each name leads to
  facts,     \* [data, mode, extra, auto, moves] of each object
  links,     \* hard links an object has outside these names
  bound,     \* whether the path still leads to the admitted parent directory
  call,      \* [platform, op, at, result] of the call under way
  obs,       \* what the call has observed
  admitted,  \* the identity and metadata the caller admitted
  alone,     \* the directory as other programs alone would have left it
  taken,     \* the displaced object and the new one, at the commit of the call
  gone,      \* objects whose last name the call removed
  foreign    \* steps other programs have taken

vars == <<dir, facts, links, bound, call, obs, admitted, alone, taken, gone, foreign>>
disk == <<dir, facts, links>>
rest == <<bound, admitted, alone, foreign>>
\* Everything but the call's own progress and observations.
still == <<disk, rest, taken, gone>>

Ops == {"replace", "rename", "delete", "plain_replace", "plain_rename", "plain_delete",
        "config_save", "config_new", "read", "create", "list"}

\* A save of the configuration: over the file it was read from, or a new one.
Saves == {"config_save", "config_new"}
-------------------------------------------------------------------------------
(* What a stat, a descriptor or a handle reports of an object.                 *)

NamesOf(o, d) == {n \in Names : d[n] = o}

LinkCount(o) == Cardinality(NamesOf(o, dir)) + links[o]

Stat(o) ==
  [obj |-> o, data |-> facts[o].data, mode |-> facts[o].mode, links |-> LinkCount(o),
   ctime |-> <<facts[o], LinkCount(o)>>]

NoStat == [obj |-> Absent]

Look(n) == IF dir[n] = Absent THEN NoStat ELSE Stat(dir[n])

\* same_stat_observation: everything a stat binds, the change time included.
SameObservation(a, b) ==
  /\ a.obj = b.obj /\ a.obj # Absent
  /\ a.data = b.data /\ a.links = b.links /\ a.ctime = b.ctime

SameObject(a, b) == a.obj = b.obj /\ a.obj # Absent

SameInodeOnly(a, b) == SameObject(a, b)   \* mutant

\* same_posix_published_facts: what survives a rename, whose change time is new.
SamePublished(a, b) ==
  /\ SameObject(a, b)
  /\ a.data = b.data /\ a.links = b.links /\ a.mode = b.mode

\* identity_matches_lua over identity_from_stat: "modified" holds both times.
IdentityMatches(a, b) == SameObject(a, b) /\ a.data = b.data /\ a.ctime = b.ctime

\* Mode bits come from the stat at hand, the other metadata from the open object.
Captured(s, o) == [mode |-> s.mode, extra |-> facts[o].extra, auto |-> facts[o].auto]

NoMeta == [mode |-> 0, extra |-> 0, auto |-> FALSE]
NoObs == [tgt |-> NoStat, tmp |-> NoStat, moved |-> NoStat, pub |-> NoStat,
          meta |-> NoMeta, pubmeta |-> NoMeta, movedmeta |-> NoMeta]
-------------------------------------------------------------------------------
(* The progress of a call.                                                     *)

Posix == call.platform = "posix"

At(p, o, a) == call.platform = p /\ call.op = o /\ call.at = a

Goto(a) == call' = [call EXCEPT !.at = a]

Return(r) ==
  /\ call' = [call EXCEPT !.at = "done", !.result = r]
  /\ obs' = NoObs

\* The call returns without touching the disk any more.
Answer(r) == Return(r) /\ UNCHANGED still

\* The object under name a is moved to name b: its change time moves on.
Moved(fs, o) == IF o = Absent THEN fs ELSE [fs EXCEPT ![o].moves = @ + 1]

\* Names the call removes its last name of are recorded in gone.
Unlinked(n) ==
  /\ dir' = [dir EXCEPT ![n] = Absent]
  /\ gone' = IF dir[n] # Absent /\ NamesOf(dir[n], dir') = {} /\ links[dir[n]] = 0
             THEN gone \cup {dir[n]} ELSE gone
-------------------------------------------------------------------------------
(* Other programs.  They know the names a user knows: the target, and the      *)
(* destination of a rename.  The names yaca derives for its own use are left   *)
(* alone, but a file may lie under them from an earlier call.                  *)

Public == CASE call.op = "rename" -> {"target", "other"}
            [] call.op = "create" -> {"other"}
            [] call.op \in {"replace", "delete", "read"} \cup Saves -> {"target"}
            [] OTHER -> {}

Fresh(f) == facts[f].moves = 0

Budget == foreign < MaxForeign /\ call.at # "done"

ForeignStep == foreign' = foreign + 1 /\ UNCHANGED <<call, obs, admitted, taken, gone>>

\* An editor saves: a new file is renamed over the name, or created there.
ForeignSave(f, n) ==
  /\ Budget /\ n \in Public /\ Fresh(f)
  /\ dir' = [dir EXCEPT ![n] = f]
  /\ alone' = [alone EXCEPT ![n] = f]
  /\ facts' = Moved(facts, f)
  /\ ForeignStep /\ UNCHANGED <<links, bound>>

ForeignRemove(n) ==
  /\ Budget /\ n \in Public /\ dir[n] # Absent
  /\ dir' = [dir EXCEPT ![n] = Absent]
  /\ alone' = [alone EXCEPT ![n] = Absent]
  /\ ForeignStep /\ UNCHANGED <<facts, links, bound>>

\* A program writes a file it finds under a public name, or has had open all along.
ForeignEdit(o) ==
  /\ Budget /\ Public # {} /\ o \in {dir[n] : n \in Public} \cup {Target} /\ o \in Objects
  /\ facts' = [facts EXCEPT ![o].data = @ + 1]
  /\ ForeignStep /\ UNCHANGED <<dir, links, bound, alone>>

ForeignMode(n) ==
  /\ Budget /\ n \in Public /\ dir[n] # Absent
  /\ \/ facts' = [facts EXCEPT ![dir[n]].mode = @ + 2]
     \/ facts' = [facts EXCEPT ![dir[n]].extra = @ + 2]
  /\ ForeignStep /\ UNCHANGED <<dir, links, bound, alone>>

ForeignLink(n) ==
  /\ Budget /\ n \in Public /\ dir[n] # Absent /\ links[dir[n]] = 0
  /\ links' = [links EXCEPT ![dir[n]] = 1]
  /\ ForeignStep /\ UNCHANGED <<dir, facts, bound, alone>>

ForeignMoveParent ==
  /\ Budget /\ Public # {} /\ bound
  /\ bound' = FALSE
  /\ ForeignStep /\ UNCHANGED <<dir, facts, links, alone>>

ForeignNext ==
  \/ \E f \in Foreign, n \in Names : ForeignSave(f, n)
  \/ \E n \in Names : ForeignRemove(n) \/ ForeignMode(n) \/ ForeignLink(n)
  \/ \E o \in Objects : ForeignEdit(o)
  \/ ForeignMoveParent
===============================================================================
