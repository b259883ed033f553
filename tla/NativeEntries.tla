---------------------------- MODULE NativeEntries ----------------------------
(* The file calls that change a directory, on both systems, with the other     *)
(* programs that change the same directory meanwhile.                          *)
EXTENDS PosixEntries, WindowsEntries, ConfigSave, OpenEntries, DirectoryWalk

Files == {Target, Candidate} \cup Foreign

Fact(m, x, a) == [data |-> 0, mode |-> m, extra |-> x, auto |-> a, moves |-> 0]

Verified == {"replace", "rename", "delete", "read"}

\* What an earlier call may have left under a name yaca derives.
Leftovers == {Absent} \cup {f \in Foreign : f = CHOOSE g \in Foreign : TRUE}

\* plain_delete is told the identity its caller has just read.
Init ==
  /\ \E p \in {"posix", "windows"}, o \in Ops :
       /\ call = [platform |-> p, op |-> o, result |-> "pending",
                  at |-> IF o \in Verified THEN "inspect"
                         ELSE IF o \in Saves THEN "begin"
                         ELSE IF o = "list" THEN "verify" ELSE "start"]
       /\ \E left \in IF o = "list" THEN {Absent} ELSE Leftovers :
            /\ facts = [x \in Files |->
                          IF x = Target THEN Fact(1, 1, FALSE)
                          ELSE IF x = Candidate THEN Fact(0, 0, p = "windows")
                          ELSE IF x = left THEN [Fact(3, 3, FALSE) EXCEPT !.moves = 1]
                          ELSE Fact(3, 3, FALSE)]
            /\ dir = [target |-> IF o = "config_new" THEN Absent ELSE Target,
                      other |-> IF o \in {"replace", "plain_replace"} THEN Candidate ELSE left,
                      aside |-> IF o = "replace" /\ p = "windows" THEN left ELSE Absent]
  /\ links = [x \in Files |-> 0]
  /\ bound = TRUE /\ obs = NoObs /\ gone = {} /\ foreign = 0
  /\ alone = dir
  /\ admitted = [id |-> Look("target"), meta |-> NoMeta]
  /\ taken = [old |-> NoStat, new |-> NoStat, extra |-> 0]
  /\ draft = NoDraft
  /\ WalkInit

CallNext == PosixNext \/ WindowsNext \/ PlainNext \/ OpenNext

allVars == <<vars, saveVars, walkVars>>

Over == call.at = "done" /\ UNCHANGED allVars

Next ==
  \/ (CallNext \/ ForeignNext) /\ UNCHANGED <<saveVars, walkVars>>
  \/ SaveNext /\ UNCHANGED walkVars
  \/ (WalkNext \/ TreeNext) /\ UNCHANGED saveVars
  \/ Over

Spec == Init /\ [][Next]_allVars
-------------------------------------------------------------------------------
Refused == call.at = "done" /\ call.result \notin {"ok", "Unknown"}

Succeeded == call.at = "done" /\ call.result = "ok"

\* A rename removes no file, and a replacement or a deletion removes the last
\* name of no file but the one that was admitted, whatever other programs save
\* under the same names between two of its system calls.  A new configuration
\* removes no file but its own temporary.  A save of the configuration removes
\* the file the draft was read from, its temporary, and one thing more: it
\* compares the target a last time and then replaces it by its name
\* (config.lua:2614), so a file that another program saves there in between is
\* lost, which 05-configuration.md:129 denies.  Only a file that was not saved
\* yet when the last check opened the target can be lost so.  Excepted is also
\* Windows when it rolls a replacement back: ReplaceFileW then destroys what lies
\* at the target, as the roll-back of fs_rename_no_replace does, which removes a
\* link by its name.
SavedAfterCheck == draft.last.unsaved

Removable ==
  CASE call.op \in {"replace", "plain_replace", "delete", "plain_delete"} -> {admitted.id.obj}
    [] call.op = "config_new"  -> {Candidate}
    [] call.op = "config_save" -> {admitted.id.obj, Candidate} \cup SavedAfterCheck
    [] OTHER -> {}
NothingForeignLost ==
  \/ gone \subseteq Removable
  \/ ~ Posix /\ call.op = "replace" /\ call.result # "ok"
  \/ Posix /\ call.op = "config_new" /\ call.result = "Storage"

\* The destination of a rename was saved over after the move, and the roll-back
\* takes that file to the source's name.
Misplaced ==
  /\ call.op = "rename" /\ dir["other"] \in {Absent, alone["other"]}
  /\ dir["target"] \in Foreign /\ facts[dir["target"]].moves > 1

\* A typed failure other than Unknown leaves the directory as it would be without
\* the call: every roll-back is complete before it is reported as TargetChanged.
\* Excepted are the temporary (given up by Windows and by the configuration), a
\* file another program saved while the Windows roll-back ran, a target another
\* program removed while it was isolated, a rename that is Misplaced, a plain
\* ReplaceFileW, which may fail after it has removed the target, and the roll-back
\* of fs_rename_no_replace by name.
RefusalChangesNothing ==
  Refused =>
    \/ Misplaced
    \/ /\ dir["aside"] = alone["aside"]
       /\ \/ dir["other"] = alone["other"]
          \/ call.op \in Saves
          \/ ~ Posix /\ call.op = "replace" /\ dir["other"] = Absent
       /\ \/ dir["target"] = alone["target"]
          \/ alone["target"] = Absent
          \/ ~ Posix /\ call.op \in Replaces /\ dir["target"] = Absent
          \/ ~ Posix /\ call.op = "replace" /\ alone["target"] \in Foreign
          \/ Posix /\ call.op = "config_new" /\ dir["target"] = Absent

\* A call that answers ok has acted on the very file and bytes that were admitted,
\* and on POSIX while it had no other hard link, although the admission is long
\* past and the name is resolved again by the system call that moves it.  A saved
\* configuration is the draft, its base was read from one file with one content,
\* and that file, with that content, was still the target when the last check
\* opened it.  What the replacement then displaces is not looked at any more.
CommitAdmitted ==
  /\ (Succeeded /\ call.op \in Verified \cup {"plain_delete"}) =>
       /\ taken.old.obj = admitted.id.obj /\ taken.old.data = admitted.id.data
       /\ Posix => taken.old.links = admitted.id.links
  /\ (Succeeded /\ call.op \in Saves) =>
       /\ taken.new.obj = Candidate /\ taken.new.data = Filled
       /\ \A i \in DOMAIN draft.base : draft.base[i] = admitted.id.data
       /\ call.op = "config_save" =>
            draft.last.obj = admitted.id.obj /\ draft.last.data = admitted.id.data

\* A replacement that answers ok has put a file in place that carries the mode,
\* the other metadata and the inheritance bit of the admitted one, and the
\* displaced file still had that mode when the names were exchanged.
MetadataKept ==
  (Succeeded /\ call.op = "replace") =>
    /\ taken.new.mode = admitted.meta.mode /\ taken.old.mode = admitted.meta.mode
    /\ taken.extra = admitted.meta.extra
    /\ facts[Candidate].auto = admitted.meta.auto
===============================================================================
