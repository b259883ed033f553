---------------------------- MODULE WindowsEntries ----------------------------
(* The Windows side of the verified file calls of src/native/yaca_native.c.    *)
(* There is no descriptor of the parent to work in: every call goes by path    *)
(* again, and attribute handles opened before a move ("pins") tell afterwards  *)
(* which object it moved.  A directory another program puts in the place of    *)
(* the parent holds none of the names.                                         *)
EXTENDS EntryWorld

Reach(n) == IF bound THEN dir[n] ELSE Absent
Seen(n) == IF Reach(n) = Absent THEN NoStat ELSE Stat(Reach(n))
MetaOf(o) == [mode |-> facts[o].mode, extra |-> facts[o].extra, auto |-> facts[o].auto]
SeenMeta(n) == IF Reach(n) = Absent THEN NoMeta ELSE MetaOf(Reach(n))

\* A file's identity holds its object, size and write time, no change time.
SameFile(a, b) == SameObject(a, b) /\ a.data = b.data

\* windows_snapshot_follows_pin: what was seen is what the pin of was leads to now.
FollowsPin(now, was) == SameFile(now, was) /\ facts[was.obj].data = now.data

\* ReplaceFileW gives the new file the descriptor of the one it replaces.
Inherited(fs, new, old) ==
  {[fs EXCEPT ![new].extra = fs[old].extra, ![new].auto = a] : a \in {TRUE, fs[old].auto}}

CanReplace == bound /\ dir["target"] # Absent /\ dir["other"] # Absent
-------------------------------------------------------------------------------
(* inspect_windows_path and push_windows_direct_snapshot, which admit.         *)

WinInspect(o) ==
  /\ At("windows", o, "inspect")
  /\ IF Reach("target") = Absent THEN Answer("NotFound")
     ELSE /\ obs' = [obs EXCEPT !.tgt = Seen("target"), !.meta = SeenMeta("target")]
          /\ Goto("inspect_open") /\ UNCHANGED still

WinAdmit(o) ==
  /\ At("windows", o, "inspect_open")
  /\ \/ Answer("Storage")
     \/ /\ admitted' = [id |-> [Stat(obs.tgt.obj) EXCEPT !.links = obs.tgt.links],
                        meta |-> obs.meta]
        /\ Goto("start") /\ obs' = NoObs
        /\ UNCHANGED <<disk, bound, alone, foreign, taken, gone>>

\* The paths of a call are inspected once more when it starts.
WinStart(o) ==
  /\ At("windows", o, "start")
  /\ \/ Answer("Storage")
     \/ /\ obs' = [obs EXCEPT !.tgt = Seen("target"), !.meta = SeenMeta("target"),
                              !.tmp = Seen("other")]
        /\ Goto("match") /\ UNCHANGED still

\* windows_snapshot_matches_lua asks the open handle again.
TargetMatches == obs.tgt # NoStat /\ SameFile(Stat(obs.tgt.obj), admitted.id)

\* windows_pin_snapshot: the path must still lead to the file of the snapshot.
CanPin(n, s) == SameFile(Seen(n), s)
-------------------------------------------------------------------------------
(* fs_replace_verified.                                                        *)

WinReplaceMatch ==
  /\ At("windows", "replace", "match")
  /\ IF ~ (TargetMatches /\ obs.tmp # NoStat /\ obs.tgt.links = 1 /\ obs.tmp.links = 1)
     THEN Answer("TargetChanged")
     ELSE \/ Answer("MetadataPreservationUnsupported")
          \/ obs.meta = admitted.meta /\ Goto("prepare") /\ UNCHANGED <<obs, still>>

\* The candidate gets the metadata of the target, is flushed and captured again.
WinReplacePrepare ==
  /\ At("windows", "replace", "prepare")
  /\ \/ \E r \in {"Storage", "TargetChanged"} : Answer(r)
     \/ /\ \/ Return("MetadataPreservationUnsupported")
           \/ dir["aside"] # Absent /\ Return("TemporaryConflict")
           \/ dir["aside"] = Absent /\ Goto("pin") /\ UNCHANGED obs
        /\ facts' = [facts EXCEPT ![Candidate].mode = obs.meta.mode,
                                  ![Candidate].extra = obs.meta.extra,
                                  ![Candidate].auto = obs.meta.auto]
        /\ UNCHANGED <<dir, links, rest, taken, gone>>

WinReplacePin ==
  /\ At("windows", "replace", "pin")
  /\ IF CanPin("target", obs.tgt) /\ CanPin("other", obs.tmp)
     THEN Goto("exchange") /\ UNCHANGED <<obs, still>>
     ELSE Answer("TargetChanged")

\* ReplaceFileW(target, candidate, backup), which can also fail half way.
WinReplaceFile ==
  /\ At("windows", "replace", "exchange")
  /\ \/ \E r \in {"Storage", "Unknown"} : Answer(r)
     \/ /\ CanReplace
        /\ \/ /\ dir' = [target |-> Absent, other |-> dir["other"], aside |-> dir["target"]]
              /\ facts' = Moved(facts, dir["target"])
              /\ Return("Unknown")
              /\ UNCHANGED <<links, rest, taken, gone>>
           \/ /\ dir' = [target |-> dir["other"], other |-> Absent, aside |-> dir["target"]]
              /\ facts' \in Inherited(Moved(Moved(facts, dir["target"]), dir["other"]),
                                      dir["other"], dir["target"])
              /\ taken' = [old |-> Seen("target"), new |-> Seen("other"),
                           extra |-> facts[dir["target"]].extra]
              /\ Goto("observe") /\ UNCHANGED <<links, obs, rest, gone>>

WinReplaceObserve ==
  /\ At("windows", "replace", "observe")
  /\ \/ Answer("Unknown")
     \/ /\ obs' = [obs EXCEPT !.pub = Seen("target"), !.pubmeta = SeenMeta("target"),
                              !.moved = Seen("aside"), !.movedmeta = SeenMeta("aside")]
        /\ Goto("restore") /\ UNCHANGED still

\* windows_metadata_added_auto_inheritance
AddedAuto(was, now) == ~ was.auto /\ now = [was EXCEPT !.auto = TRUE]

\* The inheritance bit ReplaceFileW may add is taken off again, if it is all it added.
WinReplaceRestore ==
  /\ At("windows", "replace", "restore")
  /\ IF /\ FollowsPin(obs.pub, obs.tmp) /\ FollowsPin(obs.moved, obs.tgt)
        /\ obs.movedmeta = obs.meta /\ AddedAuto(obs.meta, obs.pubmeta)
     THEN \/ Answer("Unknown")
          \/ /\ FollowsPin(Seen("target"), obs.tmp)
             /\ AddedAuto(obs.meta, MetaOf(Candidate))
             /\ facts' = [facts EXCEPT ![Candidate].auto = FALSE]
             /\ Goto("observe_again") /\ UNCHANGED <<dir, links, obs, rest, taken, gone>>
     ELSE Goto("compare") /\ UNCHANGED <<obs, still>>

WinReplaceObserveAgain ==
  /\ At("windows", "replace", "observe_again")
  /\ \/ Answer("Unknown")
     \/ /\ obs' = [obs EXCEPT !.pub = Seen("target"), !.pubmeta = SeenMeta("target")]
        /\ Goto("compare") /\ UNCHANGED still

WinTrustsBackup ==   \* mutant
  /\ At("windows", "replace", "compare")
  /\ Goto("unlink") /\ UNCHANGED <<obs, still>>

\* A capture that is not proven fails the comparison too.
WinReplaceCompare ==
  /\ At("windows", "replace", "compare")
  /\ \/ /\ FollowsPin(obs.pub, obs.tmp) /\ obs.pubmeta = admitted.meta
        /\ FollowsPin(obs.moved, obs.tgt) /\ obs.movedmeta = admitted.meta
        /\ Goto("unlink") /\ UNCHANGED <<obs, still>>
     \/ IF FollowsPin(obs.pub, obs.tmp) /\ obs.moved # NoStat
        THEN Goto("roll_back") /\ UNCHANGED <<obs, still>>
        ELSE Answer("Unknown")

WinReplaceUnlink ==
  /\ At("windows", "replace", "unlink")
  /\ \/ Answer("Unknown")
     \/ /\ Reach("aside") # Absent
        /\ Unlinked("aside")
        /\ Return("ok") /\ UNCHANGED <<facts, links, rest, taken>>

\* ReplaceFileW(target, backup) without a backup: what lies at the target is lost.
WinReplaceRollBack ==
  /\ At("windows", "replace", "roll_back")
  /\ \/ Answer("Unknown")
     \/ /\ Reach("target") # Absent /\ Reach("aside") # Absent
        /\ LET lost == dir["target"] IN
           /\ dir' = [dir EXCEPT !["target"] = dir["aside"], !["aside"] = Absent]
           /\ facts' \in Inherited(Moved(facts, dir["aside"]), dir["aside"], lost)
           /\ gone' = IF links[lost] = 0 THEN gone \cup {lost} ELSE gone
        /\ Goto("rolled_back") /\ UNCHANGED <<links, obs, rest, taken>>

WinReplaceRolledBack ==
  /\ At("windows", "replace", "rolled_back")
  /\ \/ Answer("Unknown")
     \/ /\ FollowsPin(Seen("target"), obs.tgt) /\ SeenMeta("target") = obs.meta
        /\ Answer("TargetChanged")

WindowsReplace ==
  \/ WinReplaceMatch \/ WinReplacePrepare \/ WinReplacePin \/ WinReplaceFile
  \/ WinReplaceObserve \/ WinReplaceRestore \/ WinReplaceObserveAgain
  \/ WinReplaceCompare \/ WinReplaceUnlink \/ WinReplaceRollBack \/ WinReplaceRolledBack
-------------------------------------------------------------------------------
(* fs_rename_no_replace_verified and fs_delete_direct_verified share their     *)
(* shape: admit, pin, move away, look, and move back when it was another file. *)

\* MoveFileExW without MOVEFILE_REPLACE_EXISTING.
WinMove(a, b) ==
  /\ Reach(a) # Absent /\ dir[b] = Absent
  /\ dir' = [dir EXCEPT ![a] = Absent, ![b] = dir[a]]
  /\ facts' = Moved(facts, dir[a])

WinRenameMatch ==
  /\ At("windows", "rename", "match")
  /\ IF obs.tmp # NoStat THEN Answer("DestinationExists")
     ELSE IF ~ TargetMatches \/ obs.tgt.links # 1 THEN Answer("TargetChanged")
     ELSE Goto("pin") /\ UNCHANGED <<obs, still>>

WinDeleteMatch ==
  /\ At("windows", "delete", "match")
  /\ IF ~ TargetMatches \/ obs.tgt.links # 1 THEN Answer("TargetChanged")
     ELSE IF Reach("other") # Absent THEN Answer("TemporaryConflict")
     ELSE Goto("pin") /\ UNCHANGED <<obs, still>>

WinPin(o) ==
  /\ At("windows", o, "pin")
  /\ IF CanPin("target", obs.tgt) THEN Goto("move") /\ UNCHANGED <<obs, still>>
     ELSE Answer("TargetChanged")

WinMoveAway(o) ==
  /\ At("windows", o, "move")
  /\ \/ \E r \in {"Storage", "DestinationExists"} : Answer(r)
     \/ /\ WinMove("target", "other")
        /\ taken' = [taken EXCEPT !.old = Seen("target")]
        /\ Goto("observe") /\ UNCHANGED <<links, obs, rest, gone>>

WinRenameObserve ==
  /\ At("windows", "rename", "observe")
  /\ \/ Answer("Unknown")
     \/ IF FollowsPin(Seen("other"), obs.tgt) /\ Reach("target") = Absent THEN Answer("ok")
        ELSE IF Reach("other") # Absent /\ Reach("target") = Absent
        THEN /\ obs' = [obs EXCEPT !.moved = Seen("other")]
             /\ Goto("roll_back") /\ UNCHANGED still
        ELSE Answer("Unknown")

WinDeleteObserve ==
  /\ At("windows", "delete", "observe")
  /\ \/ Answer("Unknown")
     \/ /\ obs' = [obs EXCEPT !.moved = Seen("other")]
        /\ Goto(IF FollowsPin(Seen("other"), obs.tgt) THEN "unlink" ELSE "roll_back")
        /\ UNCHANGED still

\* The moved object is pinned again before it is moved back.
WinRollBack(o) ==
  /\ At("windows", o, "roll_back")
  /\ \/ Answer("Unknown")
     \/ /\ obs.moved # NoStat /\ CanPin("other", obs.moved)
        /\ WinMove("other", "target")
        /\ Goto("rolled_back") /\ UNCHANGED <<links, obs, rest, taken, gone>>

WinRolledBack(o) ==
  /\ At("windows", o, "rolled_back")
  /\ \/ Answer("Unknown")
     \/ FollowsPin(Seen("target"), obs.moved) /\ Answer("TargetChanged")

WinDeleteUnlink ==
  /\ At("windows", "delete", "unlink")
  /\ \/ Goto("unlink_failed") /\ UNCHANGED <<obs, still>>
     \/ /\ Reach("other") # Absent
        /\ Unlinked("other")
        /\ Return("ok") /\ UNCHANGED <<facts, links, rest, taken>>

\* A file that could not be deleted goes back, unless its name is taken by now.
WinDeletePutBack ==
  /\ At("windows", "delete", "unlink_failed")
  /\ \/ Answer("Unknown")
     \/ WinMove("other", "target") /\ Return("Storage") /\ UNCHANGED <<links, rest, taken, gone>>

WindowsMoves ==
  \/ WinRenameMatch \/ WinDeleteMatch \/ WinRenameObserve \/ WinDeleteObserve
  \/ WinDeleteUnlink \/ WinDeletePutBack
  \/ \E o \in {"rename", "delete"} :
       WinPin(o) \/ WinMoveAway(o) \/ WinRollBack(o) \/ WinRolledBack(o)
-------------------------------------------------------------------------------
WindowsNext ==
  \/ \E o \in {"replace", "rename", "delete", "read"} : WinInspect(o) \/ WinAdmit(o)
  \/ \E o \in {"replace", "rename", "delete"} : WinStart(o)
  \/ WindowsReplace \/ WindowsMoves
===============================================================================
