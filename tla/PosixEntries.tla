----------------------------- MODULE PosixEntries -----------------------------
(* The POSIX side of the verified file calls of src/native/yaca_native.c: each *)
(* is a sequence of system calls on a pinned parent directory, and every       *)
(* action below is one of them, or a group whose members commute with the      *)
(* steps of other programs.                                                    *)
EXTENDS EntryWorld

\* renameat2(RENAME_NOREPLACE): a is moved to b, which must be absent.
CanMove(a, b) == dir[a] # Absent /\ dir[b] = Absent

Renamed(a, b) ==
  /\ dir' = [dir EXCEPT ![a] = Absent, ![b] = dir[a]]
  /\ facts' = Moved(facts, dir[a])

\* renameat2(RENAME_EXCHANGE): both names must exist.
Exchanged ==
  /\ dir' = [dir EXCEPT !["target"] = dir["other"], !["other"] = dir["target"]]
  /\ facts' = Moved(Moved(facts, dir["target"]), dir["other"])
-------------------------------------------------------------------------------
(* fs_inspect_direct, which admits the object: lstat of the canonical path,    *)
(* open without following links, capture through the descriptor.               *)

InspectTarget(o) ==
  /\ At("posix", o, "inspect")
  /\ IF bound /\ dir["target"] # Absent
     THEN /\ obs' = [obs EXCEPT !.tgt = Look("target")]
          /\ Goto("inspect_open") /\ UNCHANGED still
     ELSE Answer("NotFound")

InspectOpen(o) ==
  /\ At("posix", o, "inspect_open")
  /\ \/ Answer("Storage")
     \/ /\ ~ (bound /\ SameObservation(obs.tgt, Look("target")))
        /\ Answer("Storage")
     \/ /\ bound /\ SameObservation(obs.tgt, Look("target"))
        /\ Goto("inspect_metadata") /\ UNCHANGED <<obs, still>>

InspectMetadata(o) ==
  /\ At("posix", o, "inspect_metadata")
  /\ admitted' = [id |-> obs.tgt, meta |-> Captured(obs.tgt, obs.tgt.obj)]
  /\ Goto("start") /\ obs' = NoObs
  /\ UNCHANGED <<disk, bound, alone, foreign, taken, gone>>
-------------------------------------------------------------------------------
(* fs_replace_verified: the candidate takes over the metadata of the target,   *)
(* the two names are exchanged, and what was displaced is looked at before it  *)
(* is unlinked.                                                                *)

ReplaceOpen ==
  /\ At("posix", "replace", "start")
  /\ IF /\ bound /\ dir["target"] # Absent /\ dir["other"] = Candidate
        /\ LinkCount(dir["target"]) = 1 /\ LinkCount(Candidate) = 1
        /\ IdentityMatches(Look("target"), admitted.id)
     THEN /\ obs' = [obs EXCEPT !.tgt = Look("target")]
          /\ Goto("capture") /\ UNCHANGED still
     ELSE Answer("TargetChanged")

ReplaceCapture ==
  /\ At("posix", "replace", "capture")
  /\ \/ Answer("MetadataPreservationUnsupported")
     \/ LET m == Captured(obs.tgt, obs.tgt.obj) IN
        IF m = admitted.meta
        THEN /\ obs' = [obs EXCEPT !.meta = m]
             /\ Goto("copy_mode") /\ UNCHANGED still
        ELSE Answer("MetadataPreservationUnsupported")

\* fchown and fchmod with what the stat of the target said.
ReplaceCopyMode ==
  /\ At("posix", "replace", "copy_mode")
  /\ \/ Answer("Storage")
     \/ /\ facts' = [facts EXCEPT ![Candidate].mode = obs.tgt.mode]
        /\ Goto("recheck") /\ UNCHANGED <<dir, links, obs, rest, taken, gone>>

\* The target through its descriptor is still what was captured.
TargetUnchanged ==
  LET now == Stat(obs.tgt.obj)
  IN  SameObservation(obs.tgt, now) /\ Captured(now, obs.tgt.obj) = obs.meta

ReplaceRecheck ==
  /\ At("posix", "replace", "recheck")
  /\ IF TargetUnchanged THEN Goto("copy_extra") /\ UNCHANGED <<obs, still>>
     ELSE Answer("TargetChanged")

\* Extended attributes are removed, added and rewritten until they are equal.
ReplaceCopyExtra ==
  /\ At("posix", "replace", "copy_extra")
  /\ \/ Answer("MetadataPreservationUnsupported")
     \/ Answer("Storage")
     \/ /\ facts' = [facts EXCEPT ![Candidate].extra = obs.meta.extra]
        /\ Goto("recheck_again") /\ UNCHANGED <<dir, links, obs, rest, taken, gone>>

\* fsync of the candidate, then the target once more.
ReplaceFlush ==
  /\ At("posix", "replace", "recheck_again")
  /\ \/ Answer("Storage")
     \/ IF TargetUnchanged THEN Goto("verify") /\ UNCHANGED <<obs, still>>
        ELSE Answer("TargetChanged")

ReplaceVerify ==
  /\ At("posix", "replace", "verify")
  /\ \/ Answer("MetadataPreservationUnsupported")
     \/ LET s == Stat(Candidate) IN
        IF Captured(s, Candidate) = obs.meta
        THEN /\ obs' = [obs EXCEPT !.tmp = s]
             /\ Goto("exchange") /\ UNCHANGED still
        ELSE Answer("MetadataPreservationUnsupported")

ReplaceExchange ==
  /\ At("posix", "replace", "exchange")
  /\ \/ \E r \in {"Unsupported", "Storage"} : Answer(r)
     \/ /\ dir["target"] # Absent /\ dir["other"] # Absent
        /\ Exchanged
        /\ taken' = [old |-> Look("target"), new |-> Stat(dir["other"]),
                     extra |-> facts[dir["other"]].extra]
        /\ Goto("observe") /\ UNCHANGED <<links, obs, rest, gone>>

ReplaceObserve ==
  /\ At("posix", "replace", "observe")
  /\ \E d \in {Look("other"), NoStat}, p \in {Look("target"), NoStat} :
       /\ obs' = [obs EXCEPT !.moved = d, !.pub = p]
       /\ Goto(IF SamePublished(obs.tmp, p) /\ SamePublished(obs.tgt, d)
               THEN "handles" ELSE "roll_back")
       /\ UNCHANGED still

ReplaceRollBack ==
  /\ At("posix", "replace", "roll_back")
  /\ \/ Answer("Unknown")
     \/ /\ SameObject(obs.pub, obs.tmp) /\ obs.moved # NoStat
        /\ dir["target"] # Absent /\ dir["other"] # Absent
        /\ Exchanged
        /\ Goto("rolled_back") /\ UNCHANGED <<links, obs, rest, taken, gone>>

ReplaceRolledBack ==
  /\ At("posix", "replace", "rolled_back")
  /\ \/ Answer("Unknown")
     \/ /\ SameObject(obs.tmp, Look("other")) /\ SameObject(obs.moved, Look("target"))
        /\ Answer("TargetChanged")

ReplaceHandles ==
  /\ At("posix", "replace", "handles")
  /\ \/ Answer("Unknown")
     \/ /\ SameObservation(obs.pub, Stat(Candidate))
        /\ SameObservation(obs.moved, Stat(obs.tgt.obj))
        /\ Goto("unlink") /\ UNCHANGED <<obs, still>>

ReplaceUnlink ==
  /\ At("posix", "replace", "unlink")
  /\ \/ Answer("Unknown")
     \/ /\ dir["other"] # Absent
        /\ Unlinked("other")
        /\ Return("ok") /\ UNCHANGED <<facts, links, rest, taken>>

PosixReplace ==
  \/ ReplaceOpen \/ ReplaceCapture \/ ReplaceCopyMode \/ ReplaceRecheck
  \/ ReplaceCopyExtra \/ ReplaceFlush \/ ReplaceVerify \/ ReplaceExchange
  \/ ReplaceObserve \/ ReplaceRollBack \/ ReplaceRolledBack \/ ReplaceHandles
  \/ ReplaceUnlink
-------------------------------------------------------------------------------
(* fs_rename_no_replace_verified: the admitted object goes to an absent name.  *)

RenameAdmit ==
  /\ At("posix", "rename", "start")
  /\ IF ~ bound \/ ~ IdentityMatches(Look("target"), admitted.id)
     THEN Answer("TargetChanged")
     ELSE \/ Answer("Storage")
          \/ /\ dir["other"] # Absent /\ Answer("DestinationExists")
          \/ /\ dir["other"] = Absent /\ LinkCount(dir["target"]) # 1
             /\ Answer("InvalidTargetType")
          \/ /\ dir["other"] = Absent /\ LinkCount(dir["target"]) = 1
             /\ obs' = [obs EXCEPT !.tgt = Look("target")]
             /\ Goto("move") /\ UNCHANGED still

RenameMove ==
  /\ At("posix", "rename", "move")
  /\ \/ \E r \in {"Unsupported", "Storage"} : Answer(r)
     \/ /\ dir["other"] # Absent /\ Answer("DestinationExists")
     \/ /\ CanMove("target", "other")
        /\ Renamed("target", "other")
        /\ taken' = [taken EXCEPT !.old = Look("target")]
        /\ Goto("observe") /\ UNCHANGED <<links, obs, rest, gone>>

RenameObserve ==
  /\ At("posix", "rename", "observe")
  /\ \/ Answer("Unknown")
     \/ IF dir["other"] # Absent /\ dir["target"] = Absent
        THEN IF SamePublished(obs.tgt, Look("other"))
             THEN Answer("ok")
             ELSE /\ obs' = [obs EXCEPT !.moved = Look("other")]
                  /\ Goto("roll_back") /\ UNCHANGED still
        ELSE Answer("Unknown")

RenameRollBack ==
  /\ At("posix", "rename", "roll_back")
  /\ \/ Answer("Unknown")
     \/ /\ CanMove("other", "target")
        /\ Renamed("other", "target")
        /\ Goto("rolled_back") /\ UNCHANGED <<links, obs, rest, taken, gone>>

RenameRolledBack ==
  /\ At("posix", "rename", "rolled_back")
  /\ \/ Answer("Unknown")
     \/ /\ SameObject(obs.moved, Look("target")) /\ dir["other"] = Absent
        /\ Answer("TargetChanged")

PosixRename ==
  \/ RenameAdmit \/ RenameMove \/ RenameObserve \/ RenameRollBack \/ RenameRolledBack
-------------------------------------------------------------------------------
(* fs_delete_direct_verified: the object is set aside under its recovery name, *)
(* looked at there, and unlinked, or put back.                                 *)

DeleteAdmit ==
  /\ At("posix", "delete", "start")
  /\ IF ~ bound \/ ~ IdentityMatches(Look("target"), admitted.id) \/ LinkCount(dir["target"]) # 1
     THEN Answer("TargetChanged")
     ELSE /\ obs' = [obs EXCEPT !.tgt = Look("target")]
          /\ Goto("open") /\ UNCHANGED still

DeleteOpen ==
  /\ At("posix", "delete", "open")
  /\ \/ Answer("Storage")
     \/ IF ~ SameObservation(obs.tgt, Look("target")) THEN Answer("TargetChanged")
        ELSE IF dir["other"] # Absent THEN Answer("TemporaryConflict")
        ELSE Goto("isolate") /\ UNCHANGED <<obs, still>>

DeleteIsolate ==
  /\ At("posix", "delete", "isolate")
  /\ \/ \E r \in {"Unsupported", "Storage"} : Answer(r)
     \/ /\ CanMove("target", "other")
        /\ Renamed("target", "other")
        /\ taken' = [taken EXCEPT !.old = Look("target")]
        /\ Goto("observe") /\ UNCHANGED <<links, obs, rest, gone>>

DeleteObserve ==
  /\ At("posix", "delete", "observe")
  /\ \E m \in {Look("other"), NoStat} :
       LET sound == /\ m # NoStat /\ dir["target"] = Absent
                    /\ SamePublished(obs.tgt, m) /\ SamePublished(m, Stat(obs.tgt.obj))
       IN  IF ~ sound /\ (m = NoStat \/ dir["target"] # Absent) THEN Answer("Unknown")
           ELSE /\ obs' = [obs EXCEPT !.moved = m]
                /\ Goto(IF sound THEN "unlink" ELSE "roll_back")
                /\ UNCHANGED still

DeleteLeftAside ==   \* mutant
  At("posix", "delete", "roll_back") /\ Answer("TargetChanged")

\* Both roll-backs: of an isolation that was raced and of an unlink that failed.
DeleteRollBack ==
  /\ \E a \in {"roll_back", "unlink_failed"} :
       /\ At("posix", "delete", a)
       /\ \/ Answer("Unknown")
          \/ /\ CanMove("other", "target")
             /\ Renamed("other", "target")
             /\ Goto(IF a = "roll_back" THEN "rolled_back" ELSE "put_back")
             /\ UNCHANGED <<links, obs, rest, taken, gone>>

DeleteRolledBack ==
  \/ /\ At("posix", "delete", "rolled_back")
     /\ \/ Answer("Unknown")
        \/ /\ SameObject(obs.moved, Look("target")) /\ dir["other"] = Absent
           /\ Answer("TargetChanged")
  \/ /\ At("posix", "delete", "put_back")
     /\ \/ Answer("Unknown")
        \/ /\ SamePublished(obs.moved, Look("target")) /\ dir["other"] = Absent
           /\ Answer("Storage")

DeleteUnlink ==
  /\ At("posix", "delete", "unlink")
  /\ \/ Goto("unlink_failed") /\ UNCHANGED <<obs, still>>
     \/ /\ dir["other"] # Absent
        /\ Unlinked("other")
        /\ Goto("confirm") /\ UNCHANGED <<facts, links, obs, rest, taken>>

DeleteConfirm ==
  /\ At("posix", "delete", "confirm")
  /\ \/ Answer("Unknown")
     \/ /\ dir["target"] = Absent /\ dir["other"] = Absent /\ LinkCount(obs.tgt.obj) = 0
        /\ Answer("ok")

PosixDelete ==
  \/ DeleteAdmit \/ DeleteOpen \/ DeleteIsolate \/ DeleteObserve
  \/ DeleteRollBack \/ DeleteRolledBack \/ DeleteUnlink \/ DeleteConfirm
-------------------------------------------------------------------------------
PosixNext ==
  \/ \E o \in {"replace", "rename", "delete", "read"} :
       InspectTarget(o) \/ InspectOpen(o) \/ InspectMetadata(o)
  \/ PosixReplace \/ PosixRename \/ PosixDelete
===============================================================================
