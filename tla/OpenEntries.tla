----------------------------- MODULE OpenEntries ------------------------------
(* The verified calls of src/native/yaca_native.c that open a file and change  *)
(* no existing entry: fs_open_read_verified and fs_create_new_verified.        *)
EXTENDS EntryWorld

\* What the path of the target leads to: another directory holds no such name.
PathLook == IF bound THEN Look("target") ELSE NoStat

\* The file is opened first and compared through its own handle afterwards.
ReadOpenFile(p) ==
  /\ At(p, "read", "start")
  /\ \/ Answer("Storage")
     \/ PathLook = NoStat /\ Answer(IF p = "posix" THEN "NotFound" ELSE "TargetChanged")
     \/ /\ PathLook # NoStat
        /\ obs' = [obs EXCEPT !.tgt = PathLook]
        /\ Goto("match") /\ UNCHANGED still

ReadMatch(p) ==
  /\ At(p, "read", "match")
  /\ LET now == Stat(obs.tgt.obj)
         same == IF p = "posix" THEN IdentityMatches(now, admitted.id)
                 ELSE SameObject(now, admitted.id) /\ now.data = admitted.id.data
     IN  IF same
         THEN /\ taken' = [taken EXCEPT !.old = now]
              /\ Return("ok") /\ UNCHANGED <<disk, rest, gone>>
         ELSE Answer("TargetChanged")

\* The parent is opened and compared; Windows also looks at the name by path.
CreateMatch(p) ==
  /\ At(p, "create", "start")
  /\ \/ Answer("Storage")
     \/ /\ p = "windows" /\ bound /\ dir["other"] # Absent
        /\ Answer("DestinationExists")
     \/ ~ bound /\ Answer("TargetChanged")
     \/ /\ bound /\ (p = "windows" => dir["other"] = Absent)
        /\ Goto("create") /\ UNCHANGED <<obs, still>>

\* O_EXCL in the opened parent, or CREATE_NEW by path, which another directory may
\* have taken by then: the file is then created there.
CreateFile(p) ==
  /\ At(p, "create", "create")
  /\ \/ Answer("Storage")
     \/ /\ dir["other"] # Absent /\ (p = "windows" => bound)
        /\ Answer("DestinationExists")
     \/ p = "windows" /\ ~ bound /\ Answer("ok")
     \/ /\ dir["other"] = Absent /\ (p = "windows" => bound)
        /\ dir' = [dir EXCEPT !["other"] = Candidate]
        /\ Return("ok") /\ UNCHANGED <<facts, links, rest, taken, gone>>

OpenNext ==
  \E p \in {"posix", "windows"} :
    ReadOpenFile(p) \/ ReadMatch(p) \/ CreateMatch(p) \/ CreateFile(p)
===============================================================================
