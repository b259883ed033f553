----------------------------- MODULE PlainEntries -----------------------------
(* The file calls for yaca's own data tree (fs_replace, fs_rename_no_replace,  *)
(* fs_delete_verified): no other program works in the store, whose lease keeps *)
(* a second yaca out, but each system call may fail.  The configuration file   *)
(* is published by the same calls (ConfigSave), and that file other programs   *)
(* do edit.                                                                    *)
EXTENDS EntryWorld

Replaces == {"plain_replace", "config_save"}
Renames  == {"plain_rename", "config_new"}

Fails == Answer("Storage")

\* How a call ends: a save of the configuration still has its temporary to remove
\* (commit_draft of src/config.lua), and its directory to flush.
GiveUp(r) ==
  /\ call' = [call EXCEPT !.at = "cleanup", !.result = r]
  /\ UNCHANGED obs

Refuse(r) == IF call.op \in Saves THEN GiveUp(r) ELSE Return(r)
Refusal(r) == Refuse(r) /\ UNCHANGED still

Accomplish == IF call.op \in Saves THEN Goto("flush") /\ UNCHANGED obs ELSE Return("ok")
-------------------------------------------------------------------------------
(* fs_replace: rename over the target, or ReplaceFileW without a backup.       *)

Is(p, ops, a) == call.platform = p /\ call.op \in ops /\ call.at = a

PlainReplaceLook ==
  /\ Is("posix", Replaces, "start")
  /\ \/ Refusal("Storage")
     \/ dir["target"] = Absent /\ Refusal("NotFound")
     \/ dir["target"] # Absent /\ Goto("rename") /\ UNCHANGED <<obs, still>>

\* The displaced object, if there is one, has no name left and is gone.
PlainReplace ==
  /\ Is("posix", Replaces, "rename") \/ Is("windows", Replaces, "start")
  /\ \/ Refusal("Storage")
     \/ /\ dir["other"] # Absent
        /\ Posix \/ dir["target"] # Absent
        /\ dir' = [dir EXCEPT !["target"] = dir["other"], !["other"] = Absent]
        /\ facts' = Moved(facts, dir["other"])
        /\ gone' = IF dir["target"] # Absent /\ links[dir["target"]] = 0
                   THEN gone \cup {dir["target"]} ELSE gone
        /\ taken' = [old |-> Look("target"), new |-> Look("other"),
                     extra |-> facts[dir["other"]].extra]
        /\ Accomplish /\ UNCHANGED <<links, rest>>

\* ReplaceFileW without a backup may have removed the target when it fails.
PlainReplaceHalf ==
  /\ Is("windows", Replaces, "start")
  /\ dir["target"] # Absent /\ dir["other"] # Absent
  /\ Unlinked("target")
  /\ Refuse("Storage")
  /\ UNCHANGED <<facts, links, rest, taken>>
-------------------------------------------------------------------------------
(* fs_rename_no_replace: a second link and then the first name removed, or     *)
(* MoveFileExW.  A new configuration moves from its temporary to the target.   *)

From == IF call.op = "config_new" THEN "other" ELSE "target"
To   == IF call.op = "config_new" THEN "target" ELSE "other"

Took == taken' = [taken EXCEPT !.old = Look("target"), !.new = Look("other")]

PlainLink ==
  /\ Is("posix", Renames, "start")
  /\ \/ Refusal("Storage")
     \/ dir[To] # Absent /\ Refusal("DestinationExists")
     \/ /\ dir[From] # Absent /\ dir[To] = Absent
        /\ dir' = [dir EXCEPT ![To] = dir[From]]
        /\ Took /\ Goto("unlink") /\ UNCHANGED <<facts, links, obs, rest, gone>>

PlainUnlink ==
  /\ Is("posix", Renames, "unlink")
  /\ \/ Goto("undo") /\ UNCHANGED <<obs, still>>
     \/ Unlinked(From) /\ Accomplish /\ UNCHANGED <<facts, links, rest, taken>>

\* The roll-back removes whatever the destination leads to by now.
PlainUndo ==
  /\ Is("posix", Renames, "undo")
  /\ \/ Refusal("Unknown")
     \/ /\ dir[To] # Absent
        /\ Unlinked(To) /\ Refuse("Storage") /\ UNCHANGED <<facts, links, rest, taken>>

PlainMove ==
  /\ Is("windows", Renames, "start")
  /\ \/ Refusal("Storage")
     \/ dir[To] # Absent /\ Refusal("DestinationExists")
     \/ /\ dir[From] # Absent /\ dir[To] = Absent
        /\ dir' = [dir EXCEPT ![From] = Absent, ![To] = dir[From]]
        /\ facts' = Moved(facts, dir[From])
        /\ Took /\ Accomplish /\ UNCHANGED <<links, rest, gone>>
-------------------------------------------------------------------------------
(* fs_delete_verified: the identity is compared, then the path is unlinked.    *)

PlainDeleteMatch(p) ==
  /\ At(p, "plain_delete", "start")
  /\ \/ Fails
     \/ IF IdentityMatches(Look("target"), admitted.id)
        THEN Goto("unlink") /\ UNCHANGED <<obs, still>>
        ELSE Answer("TargetChanged")

PlainDelete(p) ==
  /\ At(p, "plain_delete", "unlink")
  /\ \/ Fails
     \/ /\ dir["target"] # Absent
        /\ taken' = [taken EXCEPT !.old = Look("target")]
        /\ Unlinked("target")
        /\ Return("ok") /\ UNCHANGED <<facts, links, rest>>
-------------------------------------------------------------------------------
PlainNext ==
  \/ PlainReplaceLook \/ PlainReplace \/ PlainReplaceHalf
  \/ PlainLink \/ PlainUnlink \/ PlainUndo \/ PlainMove
  \/ \E p \in {"posix", "windows"} : PlainDeleteMatch(p) \/ PlainDelete(p)
===============================================================================
