------------------------------ MODULE ConfigSave ------------------------------
(* The save of the configuration file (begin_edit, begin_new and commit_draft  *)
(* of src/config.lua) over the plain file handles of src/native/yaca_native.c. *)
(* The user edits the same file with other programs, at any time; the temporary *)
(* has a random name and is left alone.  Whether the text parses is left out:  *)
(* the draft is then refused, which a failed read also shows.                  *)
EXTENDS PlainEntries, Sequences

Chunks == 2       \* reads that make up a file
Filled == Chunks  \* data of the temporary with every byte of the draft

VARIABLE draft    \* [at, file, id, bytes] of the read under way, base as first read, and
                  \* of the last check, for the properties: what it opened, and the
                  \* files that other programs had not saved by then

NoRead == [at |-> "open", file |-> Absent, id |-> NoStat, bytes |-> <<>>]
NoLast == [obj |-> Absent, data |-> 0, unsaved |-> {}]
NoDraft == [read |-> NoRead, base |-> <<>>, last |-> NoLast]

saveVars == <<draft>>
-------------------------------------------------------------------------------
(* Plain handles.  A handle stays with its object whatever becomes of the name. *)

\* History: the steps of a save never ask for it.
Checked(n) == [obj |-> dir[n], data |-> facts[dir[n]].data, unsaved |-> {f \in Foreign : Fresh(f)}]

OpenRead(n) ==
  /\ dir[n] # Absent
  /\ draft' = [draft EXCEPT !.read.at = "bind", !.read.file = dir[n],
                            !.last = IF call.at = "recheck" THEN Checked(n) ELSE @]

StatHandle ==
  draft' = [draft EXCEPT !.read.at = "bytes", !.read.id = Stat(draft.read.file)]

ReadChunk ==
  draft' = [draft EXCEPT !.read.bytes = Append(@, facts[draft.read.file].data)]

CreateNew(n) ==
  /\ dir[n] = Absent
  /\ dir' = [dir EXCEPT ![n] = Candidate]

\* A write that fails may have written a part.
WriteBytes(n) == facts' = [facts EXCEPT ![Candidate].data = n]

\* What identity_equal compares: Windows has no change time.
SameIdentity(a, b) ==
  IF Posix THEN IdentityMatches(a, b) ELSE SameObject(a, b) /\ a.data = b.data
-------------------------------------------------------------------------------
(* read_file, of the target: to begin the draft, and twice to check its base.  *)

Reading == call.op = "config_save" /\ call.at \in {"begin", "check", "recheck"}
ReadAt(a) == Reading /\ draft.read.at = a

\* The second check already has a temporary to remove.
ReadFails(r) ==
  /\ IF call.at = "recheck" THEN GiveUp(r) ELSE Return(r)
  /\ draft' = [draft EXCEPT !.read = NoRead] /\ UNCHANGED still

ReadOpen ==
  /\ ReadAt("open")
  /\ \/ ReadFails("Storage")
     \/ dir["target"] = Absent /\ ReadFails("NotFound")
     \/ OpenRead("target") /\ UNCHANGED vars

ReadBind ==
  /\ ReadAt("bind")
  /\ ReadFails("Storage") \/ (StatHandle /\ UNCHANGED vars)

ReadBytes ==
  /\ ReadAt("bytes") /\ Len(draft.read.bytes) < Chunks
  /\ ReadFails("Storage") \/ (ReadChunk /\ UNCHANGED vars)

\* The handle is stated again: an edit in place during the read shows.
Stable == SameIdentity(Stat(draft.read.file), draft.read.id)

ReadDone ==
  /\ ReadAt("bytes") /\ Len(draft.read.bytes) = Chunks
  /\ Stable

ReadUnstable ==
  /\ ReadAt("bytes") /\ Len(draft.read.bytes) = Chunks
  /\ ReadFails("Storage") \/ (~ Stable /\ ReadFails("ConfigReadUnstable"))
-------------------------------------------------------------------------------
(* The draft and its checks.                                                   *)

BeginEdit ==
  /\ ReadDone /\ call.at = "begin"
  /\ admitted' = [admitted EXCEPT !.id = draft.read.id]
  /\ draft' = [draft EXCEPT !.read = NoRead, !.base = draft.read.bytes]
  /\ Goto("check") /\ UNCHANGED <<disk, obs, bound, alone, foreign, taken, gone>>

\* check_edit_base: the same bytes in the same file.
BaseUnchanged == draft.read.bytes = draft.base /\ SameIdentity(draft.read.id, admitted.id)

CheckEditBase ==
  /\ ReadDone /\ call.at \in {"check", "recheck"}
  /\ \/ ~ BaseUnchanged /\ ReadFails("ConfigStale")
     \/ /\ BaseUnchanged
        /\ Goto(IF call.at = "check" THEN "create" ELSE "restat")
        /\ draft' = [draft EXCEPT !.read = NoRead] /\ UNCHANGED <<obs, still>>

\* target_absent: of begin_new, and before the temporary is written.
TargetAbsent ==
  /\ call.op = "config_new" /\ call.at \in {"begin", "check"}
  /\ \/ Answer("Storage")
     \/ dir["target"] # Absent /\ Answer("ConfigConflict")
     \/ /\ dir["target"] = Absent
        /\ Goto(IF call.at = "begin" THEN "check" ELSE "create")
        /\ UNCHANGED <<obs, still>>
  /\ UNCHANGED draft
-------------------------------------------------------------------------------
(* write_temporary, verify_temporary, and the publication by PlainEntries.     *)

SaveAt(a) == call.op \in Saves /\ call.at = a /\ UNCHANGED draft

SaveCreate ==
  /\ SaveAt("create")
  /\ \/ Answer("Storage")
     \/ dir["other"] # Absent /\ Answer("DestinationExists")
     \/ CreateNew("other") /\ Goto("bindTemporary")
          /\ UNCHANGED <<facts, links, obs, rest, taken, gone>>

\* A temporary whose identity was not read is not removed.
SaveBind ==
  /\ SaveAt("bindTemporary")
  /\ \/ Answer("ConfigTemporaryMismatch")
     \/ Goto("write") /\ UNCHANGED <<obs, still>>

SaveWrite ==
  /\ SaveAt("write")
  /\ \/ \E n \in 0..(Filled - 1) : WriteBytes(n) /\ GiveUp("Storage")
     \/ WriteBytes(Filled) /\ Goto("verify") /\ UNCHANGED obs
  /\ UNCHANGED <<dir, links, rest, taken, gone>>

SaveTrustsFirstCheck ==   \* mutant: published without a second check
  /\ SaveAt("verify")
  /\ \/ GiveUp("Storage") /\ UNCHANGED still
     \/ Look("other").data = Filled /\ Goto("restat") /\ UNCHANGED <<obs, still>>

\* Flushed, stated and closed, then read back twice.
SaveVerify ==
  /\ SaveAt("verify")
  /\ \/ GiveUp("Storage") /\ UNCHANGED still
     \/ /\ Look("other").data = Filled
        /\ Goto(IF call.op = "config_save" THEN "recheck" ELSE "restat")
        /\ UNCHANGED <<obs, still>>

SaveRestat ==
  /\ SaveAt("restat")
  /\ \/ GiveUp("Storage") /\ UNCHANGED still
     \/ Goto("start") /\ UNCHANGED <<obs, still>>

SaveFlush ==
  /\ SaveAt("flush")
  /\ Answer("ok") \/ Answer("Unknown")

\* cleanup_temporary, as far as it succeeds.
SaveCleanUp ==
  /\ SaveAt("cleanup")
  /\ \/ Answer(call.result)
     \/ /\ dir["other"] = Candidate
        /\ Unlinked("other") /\ Return(call.result)
        /\ UNCHANGED <<facts, links, rest, taken>>

SaveNext ==
  \/ ReadOpen \/ ReadBind \/ ReadBytes \/ ReadUnstable
  \/ BeginEdit \/ CheckEditBase \/ TargetAbsent
  \/ SaveCreate \/ SaveBind \/ SaveWrite \/ SaveVerify \/ SaveRestat
  \/ SaveFlush \/ SaveCleanUp
===============================================================================
