----------------------------- MODULE EntryProofs -----------------------------
(* For every number of other programs' steps and of files they save: the file    *)
(* calls destroy no file but the one they were told of, a refusal leaves the     *)
(* directory alone, an ok speaks of the very file that was admitted, and a list  *)
(* shows what its path showed at one moment.                                     *)
EXTENDS NativeEntries, FiniteSetTheorems, SequenceTheorems, WellFoundedInduction, TLAPS

Stage(o, ats) == call.op = o /\ call.at \in ats
-------------------------------------------------------------------------------
(* Types, and what holds of every call.                                          *)

Metas == [mode : Nat, extra : Nat, auto : BOOLEAN]

Known(s) ==
  \/ s = NoStat
  \/ s.obj \in Objects /\ s.data \in Nat /\ s.mode \in Nat /\ s.links \in Nat

\* A stat tells the number of links twice.
Twice(s) == s # NoStat => s.ctime[2] = s.links

Typed ==
  /\ DOMAIN call = {"platform", "op", "result", "at"}
  /\ call.platform \in {"posix", "windows"} /\ call.op \in Ops
  /\ DOMAIN obs = DOMAIN NoObs
  /\ Known(obs.tgt) /\ Known(obs.tmp) /\ Known(obs.moved) /\ Known(obs.pub)
  /\ obs.meta \in Metas /\ obs.pubmeta \in Metas /\ obs.movedmeta \in Metas
  /\ DOMAIN admitted = {"id", "meta"} /\ Known(admitted.id) /\ admitted.meta \in Metas
  /\ DOMAIN taken = {"old", "new", "extra"}
  /\ dir \in [Names -> Objects \cup {Absent}] /\ alone \in [Names -> Objects \cup {Absent}]
  /\ facts \in [Objects -> [data : Nat, mode : Nat, extra : Nat, auto : BOOLEAN, moves : Nat]]
  /\ links \in [Objects -> Nat] /\ gone \subseteq Objects /\ bound \in BOOLEAN

\* A file another program saved has been moved to its name, so it is not saved again.
Used(o) == o \in Foreign => facts[o].moves > 0

\* A call that moves names finds no two of them lead to one file.
Apart == \A m, n \in Names : m # n /\ dir[m] = dir[n] => dir[m] = Absent

World ==
  /\ Typed /\ Twice(obs.tgt) /\ (Posix /\ call.op \in Verified => Twice(admitted.id))
  /\ \A n \in Names : Used(dir[n])
  /\ call.op \in {"replace", "rename", "delete"} => Apart
-------------------------------------------------------------------------------
(* What the stages of a call have in common.                                     *)

\* Nothing was done yet.
Untouched == dir = alone /\ gone = {}

\* s is a stat of the file that was admitted, unchanged since.
OfAdmitted(s) ==
  s # NoStat /\ s.obj = admitted.id.obj /\ s.data = admitted.id.data

Linked(s) == Posix => s.links = admitted.id.links

\* What a file holds only grows.
Grown(s) == s # NoStat => s.data <= facts[s.obj].data /\ Used(s.obj)

\* The file that was moved away is under name n, and nothing but its data changed.
MovedTo(n) ==
  /\ dir[n] \in Objects /\ taken.old # NoStat /\ taken.old.obj = dir[n] /\ Known(taken.old)
  /\ taken.old.data <= facts[dir[n]].data
  /\ taken.old.links = 1 + links[dir[n]]
  /\ taken.old.mode = facts[dir[n]].mode
  /\ taken.old.obj = obs.tgt.obj => obs.tgt.data <= taken.old.data

\* What the target would be without the call, when x was moved away from it.
Vacated(x) ==
  IF dir["target"] = Absent THEN alone["target"] \in {x, Absent}
  ELSE alone["target"] = dir["target"]

\* ... and when the candidate was put in its place.
Displaced(x) ==
  IF dir["target"] = Candidate THEN alone["target"] = x
  ELSE alone["target"] = dir["target"] /\ dir["target"] \in Foreign \cup {Absent}

\* The two properties but for what they say of the last check of a save (LastCheck).
NoneLost ==
  \/ call.op = "config_save" \/ gone \subseteq Removable
  \/ ~ Posix /\ call.op = "replace" /\ call.result # "ok"
  \/ Posix /\ call.op = "config_new" /\ call.result = "Storage"

Committed ==
  /\ (Succeeded /\ call.op \in Verified \cup {"plain_delete"}) =>
       /\ taken.old.obj = admitted.id.obj /\ taken.old.data = admitted.id.data
       /\ Posix => taken.old.links = admitted.id.links
  /\ (Succeeded /\ call.op \in Saves) =>
       /\ taken.new.obj = Candidate /\ taken.new.data = Filled
       /\ \A i \in DOMAIN draft.base : draft.base[i] = admitted.id.data

Ended == NoneLost /\ RefusalChangesNothing /\ Committed /\ MetadataKept

OnlyAdmitted == gone \subseteq {admitted.id.obj}

Admissions == {"inspect", "inspect_open", "inspect_metadata", "start", "match"}

Admission ==
  /\ call.op \in Verified /\ call.at \in Admissions => Untouched
  /\ call.op \in Verified /\ call.at \in {"inspect_open", "inspect_metadata"} => obs.tgt # NoStat

CandidateIs(m) ==
  facts[Candidate].mode = m.mode /\ facts[Candidate].extra = m.extra /\ facts[Candidate].auto = m.auto

NewTaken == taken.new.mode = admitted.meta.mode /\ taken.extra = admitted.meta.extra
            /\ facts[Candidate].auto = admitted.meta.auto

PosixReplaces ==
  Posix /\ call.op = "replace" =>
    /\ call.at # "done" => gone = {}
    /\ call.at \in Admissions \cup {"capture", "copy_mode", "recheck", "copy_extra", "recheck_again",
                                    "verify", "exchange"} =>
         Untouched /\ dir["other"] = Candidate
    /\ call.at \in {"capture", "copy_mode", "recheck", "copy_extra", "recheck_again", "verify",
                    "exchange"} => Grown(obs.tgt)
    /\ call.at \in {"capture", "copy_mode", "recheck", "copy_extra", "recheck_again", "verify",
                    "exchange", "observe", "handles", "unlink"} =>
         OfAdmitted(obs.tgt) /\ Linked(obs.tgt)
    /\ call.at \in {"copy_mode", "recheck", "copy_extra", "recheck_again", "verify", "exchange",
                    "observe", "handles", "unlink"} =>
         obs.meta = admitted.meta /\ obs.tgt.mode = admitted.meta.mode
    /\ call.at \in {"exchange", "observe", "roll_back", "rolled_back"} => obs.tmp # NoStat /\ obs.tmp.obj = Candidate
    /\ call.at = "exchange" => CandidateIs(admitted.meta)
    /\ call.at \in {"observe", "handles", "unlink"} => NewTaken
    /\ call.at \in {"observe", "handles", "unlink", "roll_back"} =>
         /\ gone = {} /\ Displaced(dir["other"]) /\ dir["other"] \in Objects \ {Candidate}
         /\ alone["other"] = Candidate /\ alone["aside"] = dir["aside"]
    /\ call.at = "observe" => MovedTo("other")
    /\ call.at \in {"handles", "unlink"} =>
         /\ OfAdmitted(taken.old) /\ Linked(taken.old) /\ taken.old.mode = admitted.meta.mode
         /\ dir["other"] = admitted.id.obj
    /\ call.at = "roll_back" /\ obs.moved # NoStat => obs.moved.obj = dir["other"]
    /\ call.at = "rolled_back" =>
         /\ gone = {} /\ alone["other"] = Candidate /\ alone["aside"] = dir["aside"]
         /\ (dir["other"] = Candidate => dir["target"] = alone["target"])

WindowsReplaces ==
  ~ Posix /\ call.op = "replace" =>
    /\ call.at \in Admissions \cup {"prepare", "pin", "exchange"} =>
         Untouched /\ dir["other"] = Candidate
    /\ call.at = "match" =>
         Grown(obs.tgt) /\ (obs.tmp # NoStat => obs.tmp.obj = Candidate)
    /\ call.at \in {"prepare", "pin"} =>
         /\ Grown(obs.tgt) /\ obs.tgt # NoStat /\ obs.tgt.obj = admitted.id.obj
         /\ obs.tgt.data <= admitted.id.data /\ admitted.id.data <= facts[obs.tgt.obj].data
    /\ call.at \in {"prepare", "pin", "exchange", "observe", "restore", "observe_again", "compare"} =>
         obs.meta = admitted.meta /\ obs.tmp # NoStat /\ obs.tmp.obj = Candidate
    /\ call.at \in {"pin", "exchange"} => CandidateIs(admitted.meta) /\ dir["aside"] = Absent
    /\ call.at = "exchange" => Grown(obs.tgt)
    /\ call.at \in {"exchange", "observe", "restore", "observe_again", "compare"} =>
         OfAdmitted(obs.tgt)
    /\ call.at \in {"observe", "restore", "observe_again", "compare", "unlink", "roll_back"} =>
         /\ Displaced(dir["aside"]) /\ dir["aside"] \in Objects \ {Candidate}
         /\ dir["other"] = Absent /\ alone["other"] = Candidate /\ alone["aside"] = Absent
         /\ gone = {} /\ taken.new.mode = admitted.meta.mode
    /\ call.at \in {"observe", "restore", "observe_again", "compare"} =>
         MovedTo("aside") /\ facts[dir["aside"]].extra = taken.extra
    /\ call.at \in {"restore", "observe_again", "compare", "roll_back"} /\ obs.moved # NoStat =>
         obs.moved.obj = dir["aside"]
    /\ call.at \in {"restore", "observe_again", "compare"} /\ obs.moved # NoStat =>
           obs.movedmeta.mode = taken.old.mode /\ obs.movedmeta.extra = taken.extra
    /\ call.at \in {"restore", "compare"} /\ obs.pub # NoStat /\ obs.pub.obj = Candidate =>
         obs.pubmeta.auto = facts[Candidate].auto
    /\ call.at = "unlink" =>
         OfAdmitted(taken.old) /\ taken.old.mode = admitted.meta.mode /\ NewTaken
         /\ dir["aside"] = admitted.id.obj
    /\ call.at = "rolled_back" =>
         /\ dir["other"] = Absent /\ alone["other"] = Candidate
         /\ dir["aside"] = Absent /\ alone["aside"] = Absent
         /\ dir["target"] = alone["target"] \/ alone["target"] \in Foreign \cup {Absent}

\* A file under the destination that the call did not bring there was saved there.
Moves ==
  call.op = "rename" =>
    /\ gone = {} /\ dir["aside"] = alone["aside"]
    /\ call.at \in Admissions \cup {"pin", "move"} => Untouched
    /\ call.at \in {"match", "pin", "move"} => Grown(obs.tgt)
    /\ call.at = "pin" =>
         /\ obs.tgt # NoStat /\ obs.tgt.obj = admitted.id.obj
         /\ obs.tgt.data <= admitted.id.data /\ admitted.id.data <= facts[obs.tgt.obj].data
    /\ call.at \in {"move", "observe"} =>
         OfAdmitted(obs.tgt) /\ (Posix => Linked(obs.tgt) /\ obs.tgt.links = 1)
    /\ call.at \in {"observe", "roll_back"} =>
         /\ taken.old # NoStat /\ taken.old.obj \in Objects /\ Vacated(taken.old.obj)
         /\ \/ dir["other"] = taken.old.obj /\ alone["other"] = Absent
            \/ dir["other"] = alone["other"] /\ dir["other"] \in Foreign \cup {Absent}
    /\ call.at = "observe" =>
         /\ Known(taken.old) /\ Grown(obs.tgt)
         /\ dir["other"] = obs.tgt.obj => taken.old.obj = obs.tgt.obj
         /\ taken.old.obj = obs.tgt.obj =>
              /\ obs.tgt.data <= taken.old.data /\ taken.old.data <= facts[obs.tgt.obj].data
              /\ 1 <= taken.old.links /\ taken.old.links <= 1 + links[obs.tgt.obj]
    /\ call.at \in {"roll_back", "rolled_back"} => obs.moved # NoStat /\ Used(obs.moved.obj)
    /\ call.at = "rolled_back" /\ dir["target"] = obs.moved.obj =>
           \/ /\ dir["other"] = alone["other"]
              /\ dir["target"] = alone["target"] \/ alone["target"] = Absent
           \/ /\ dir["target"] \in Foreign /\ facts[dir["target"]].moves > 1
              /\ dir["other"] \in {Absent, alone["other"]}

Deletes ==
  call.op = "delete" =>
    /\ dir["aside"] = alone["aside"] /\ (call.at # "done" => OnlyAdmitted)
    /\ call.at \in Admissions \cup {"open", "isolate", "pin", "move"} => Untouched
    /\ call.at \in {"match", "open", "isolate", "pin", "move"} => Grown(obs.tgt)
    /\ call.at = "pin" =>
         /\ obs.tgt # NoStat /\ obs.tgt.obj = admitted.id.obj
         /\ obs.tgt.data <= admitted.id.data /\ admitted.id.data <= facts[obs.tgt.obj].data
    /\ call.at \in {"open", "isolate", "move", "observe"} =>
         OfAdmitted(obs.tgt) /\ Linked(obs.tgt)
    /\ call.at \in {"observe", "unlink", "unlink_failed", "roll_back"} =>
         /\ gone = {} /\ dir["other"] \in Objects /\ alone["other"] = Absent /\ Vacated(dir["other"])
    /\ call.at = "observe" => MovedTo("other")
    /\ call.at \in {"unlink", "confirm"} => OfAdmitted(taken.old) /\ Linked(taken.old)
    /\ call.at = "unlink" => dir["other"] = admitted.id.obj
    /\ call.at = "confirm" => OnlyAdmitted
    /\ call.at \in {"rolled_back", "put_back"} =>
         /\ gone = {} /\ dir["other"] = alone["other"]
         /\ dir["target"] = alone["target"] \/ alone["target"] = Absent

Opens ==
  call.op \in {"read", "create", "list"} /\ call.at # "done" => Untouched

Plains ==
  /\ call.op \in {"plain_replace", "plain_rename", "plain_delete"} /\ call.at # "done" => gone = {}
  /\ Stage("plain_replace", {"start", "rename"}) =>
       Untouched /\ dir["target"] = admitted.id.obj
  /\ Stage("plain_rename", {"start"}) => Untouched
  /\ Stage("plain_rename", {"unlink", "undo"}) =>
       /\ gone = {} /\ dir["target"] # Absent /\ dir["other"] = dir["target"]
       /\ dir["target"] = alone["target"] /\ alone["other"] = Absent
       /\ dir["aside"] = alone["aside"]
  /\ Stage("plain_delete", {"start", "unlink"}) =>
       Untouched /\ Look("target") = admitted.id

Writing == {"recheck", "restat", "start", "rename"}

SaveInv ==
  call.op \in Saves =>
    /\ dir["aside"] = alone["aside"] /\ NoneLost
    /\ call.at \in {"begin", "check", "create", "bindTemporary", "write", "verify"} \cup Writing =>
         dir["target"] = alone["target"] /\ dir["target"] # Candidate
    /\ call.at \in {"bindTemporary", "write", "verify", "unlink", "undo"} \cup Writing =>
         dir["other"] = Candidate
    /\ call.at \in Writing => facts[Candidate].data = Filled
    /\ call.op = "config_new" /\ call.at \notin {"cleanup", "done"} => gone \subseteq {Candidate}
    /\ call.at \in {"unlink", "undo", "flush"} =>
         taken.new # NoStat /\ taken.new.obj = Candidate /\ taken.new.data = Filled
    /\ call.at = "cleanup" =>
         \/ call.result = "Unknown" \/ dir["target"] = alone["target"] \/ alone["target"] = Absent
         \/ dir["target"] = Absent /\ call.op = (IF Posix THEN "config_new" ELSE "config_save")
    /\ call.at = "cleanup" => call.result # "ok"

BaseInv ==
  IF call.op # "config_save" THEN draft = NoDraft ELSE
    /\ DOMAIN draft = {"read", "base", "last"} /\ DOMAIN draft.read = {"at", "file", "id", "bytes"}
    /\ draft.base \in Seq(Nat) /\ draft.read.bytes \in Seq(Nat)
    /\ \A i \in DOMAIN draft.base : draft.base[i] = admitted.id.data
    /\ Known(draft.read.id)
    /\ call.at \notin {"begin", "check", "recheck"} => draft.read.at = "open"
    /\ draft.read.at \in {"bind", "bytes"} => draft.read.file \in Objects
    /\ draft.read.at # "bytes" => draft.read.bytes = <<>>
    /\ draft.read.at = "bytes" =>
         /\ draft.read.id # NoStat /\ draft.read.id.obj = draft.read.file
         /\ draft.read.id.data <= facts[draft.read.file].data
         /\ \A i \in DOMAIN draft.read.bytes :
              draft.read.id.data <= draft.read.bytes[i]
              /\ draft.read.bytes[i] <= facts[draft.read.file].data

EInv ==
  /\ World /\ Admission /\ PosixReplaces /\ WindowsReplaces /\ Moves /\ Deletes /\ Opens
  /\ Plains /\ SaveInv /\ BaseInv
  /\ call.at = "done" => Ended

\* A call has no answer before it is over.
Waits ==
  call.at = "done" \/ (call.at = "cleanup" /\ call.op \in Saves) \/ call.result = "pending"
-------------------------------------------------------------------------------
(* Names, links and stats.                                                       *)

LEMMA NamesAreFinite == IsFiniteSet(Names)
<1>1. IsFiniteSet({"target"})
  BY FS_Singleton
<1>2. IsFiniteSet({"target"} \cup {"other"})
  BY <1>1, FS_AddElement
<1>3. IsFiniteSet(({"target"} \cup {"other"}) \cup {"aside"})
  BY <1>2, FS_AddElement
<1>4. Names = ({"target"} \cup {"other"}) \cup {"aside"}
  BY DEF Names
<1> QED BY <1>3, <1>4

LEMMA LinksCount ==
  ASSUME Typed, NEW o \in Objects
  PROVE  LinkCount(o) \in Nat
<1>1. NamesOf(o, dir) \in SUBSET Names
  BY DEF NamesOf
<1>2. Cardinality(NamesOf(o, dir)) \in Nat
  BY <1>1, NamesAreFinite, FS_Subset, FS_CardinalityType
<1> QED BY <1>2 DEF LinkCount, Typed

(* A file under one name alone has one link more than the others count.           *)
LEMMA OneName ==
  ASSUME Typed, Apart, NEW n \in Names, dir[n] # Absent
  PROVE  LinkCount(dir[n]) = 1 + links[dir[n]]
<1>1. NamesOf(dir[n], dir) = {n}
  BY DEF NamesOf, Apart
<1>2. Cardinality(NamesOf(dir[n], dir)) = 1
  BY <1>1, FS_Singleton
<1>3. dir[n] \in Objects
  BY DEF Typed
<1> QED BY <1>2, <1>3 DEF LinkCount, Typed

(* A stat is of the object it was taken of.                                       *)
LEMMA StatSays ==
  ASSUME Typed, NEW o \in Objects
  PROVE  /\ Stat(o) # NoStat /\ Stat(o).obj = o /\ Known(Stat(o)) /\ Twice(Stat(o))
         /\ Stat(o).data = facts[o].data /\ Stat(o).mode = facts[o].mode
         /\ Stat(o).links = LinkCount(o)
         /\ Stat(o).ctime = <<facts[o], LinkCount(o)>>
<1>1. LinkCount(o) \in Nat
  BY LinksCount
<1>2. o # Absent
  BY EntryAssumption
<1>3. facts[o] \in [data : Nat, mode : Nat, extra : Nat, auto : BOOLEAN, moves : Nat]
  BY DEF Typed
<1>4. Stat(o).obj = o /\ NoStat.obj = Absent
  BY DEF Stat, NoStat
<1>5. Stat(o) # NoStat
  BY <1>2, <1>4
<1>6. /\ Stat(o).data = facts[o].data /\ Stat(o).mode = facts[o].mode
      /\ Stat(o).links = LinkCount(o) /\ Stat(o).ctime = <<facts[o], LinkCount(o)>>
  BY DEF Stat
<1>7. Stat(o).ctime[2] = Stat(o).links
  BY <1>6
<1> QED BY <1>1, <1>3, <1>4, <1>5, <1>6, <1>7 DEF Known, Twice

LEMMA NoStatSays == NoStat.obj = Absent /\ Known(NoStat) /\ Twice(NoStat)
BY DEF NoStat, Known, Twice

LEMMA KnownSays ==
  ASSUME NEW s, Known(s)
  PROVE  s = NoStat <=> s.obj = Absent
BY EntryAssumption, NoStatSays DEF Known

LEMMA LookSays ==
  ASSUME Typed, NEW n \in Names
  PROVE  /\ Look(n).obj = dir[n] /\ Known(Look(n)) /\ Twice(Look(n))
         /\ Look(n) = NoStat <=> dir[n] = Absent
         /\ dir[n] # Absent => /\ Look(n) = Stat(dir[n]) /\ Look(n).data = facts[dir[n]].data
                               /\ Look(n).mode = facts[dir[n]].mode
                               /\ Look(n).links = LinkCount(dir[n]) /\ dir[n] \in Objects
<1>1. CASE dir[n] = Absent
  BY <1>1, NoStatSays DEF Look
<1>2. CASE dir[n] # Absent
  <2>1. dir[n] \in Objects
    BY <1>2 DEF Typed
  <2> QED BY <1>2, <2>1, StatSays DEF Look
<1> QED BY <1>1, <1>2

LEMMA SeenSays ==
  ASSUME Typed, NEW n \in Names
  PROVE  /\ Seen(n) = (IF bound THEN Look(n) ELSE NoStat) /\ Known(Seen(n)) /\ Twice(Seen(n))
         /\ SeenMeta(n) \in Metas
         /\ Seen(n) # NoStat => /\ bound /\ dir[n] # Absent /\ dir[n] \in Objects /\ Seen(n).obj = dir[n]
                                /\ Seen(n).data = facts[dir[n]].data
                                /\ Seen(n).mode = facts[dir[n]].mode
                                /\ Seen(n).links = LinkCount(dir[n])
                                /\ SeenMeta(n) = MetaOf(dir[n])
<1>1. Seen(n) = (IF bound THEN Look(n) ELSE NoStat)
  BY DEF Seen, Reach, Look
<1>2. NoMeta \in Metas
  BY DEF NoMeta, Metas
<1>3. dir[n] # Absent => MetaOf(dir[n]) \in Metas
  <2>1. dir[n] # Absent => facts[dir[n]] \in [data : Nat, mode : Nat, extra : Nat, auto : BOOLEAN, moves : Nat]
    BY DEF Typed
  <2> QED BY <2>1 DEF MetaOf, Metas
<1>4. SeenMeta(n) \in Metas
  BY <1>2, <1>3 DEF SeenMeta, Reach
<1>5. Seen(n) # NoStat => SeenMeta(n) = MetaOf(dir[n])
  BY DEF Seen, SeenMeta, Reach
<1>6. Known(Seen(n)) /\ Twice(Seen(n))
  BY <1>1, LookSays, NoStatSays
<1>7. Seen(n) # NoStat => bound /\ Look(n) # NoStat /\ Seen(n) = Look(n)
  BY <1>1
<1>8. Look(n) # NoStat => dir[n] # Absent
  BY LookSays
<1> QED BY <1>1, <1>4, <1>5, <1>6, <1>7, <1>8, LookSays

LEMMA CapturedSays ==
  ASSUME Typed, NEW s, Known(s), s # NoStat
  PROVE  Captured(s, s.obj) \in Metas /\ Captured(s, s.obj).mode = s.mode
<1>1. facts[s.obj] \in [data : Nat, mode : Nat, extra : Nat, auto : BOOLEAN, moves : Nat]
  BY DEF Known, Typed
<1> QED BY <1>1 DEF Known, Captured, Metas

(* Two stats that match are of one object that has not changed.                   *)
LEMMA MatchSays ==
  ASSUME NEW a, NEW b, IdentityMatches(a, b) \/ SameObservation(a, b) \/ SamePublished(a, b)
  PROVE  a.obj = b.obj /\ a.obj # Absent /\ a.data = b.data
BY DEF IdentityMatches, SameObservation, SamePublished, SameObject

LEMMA MatchLinks ==
  ASSUME NEW a, NEW b, a # NoStat, b # NoStat, Twice(a), Twice(b), IdentityMatches(a, b)
  PROVE  a.links = b.links
BY DEF IdentityMatches, Twice
-------------------------------------------------------------------------------
(* What other programs do to a call, whatever it is at.                          *)

FactsOf == [data : Nat, mode : Nat, extra : Nat, auto : BOOLEAN, moves : Nat]

\* A public name is as it was, or is what it would be without the call.
Elsewhere ==
  /\ UNCHANGED <<call, obs, admitted, taken, gone>>
  /\ dir' \in [Names -> Objects \cup {Absent}] /\ alone' \in [Names -> Objects \cup {Absent}]
  /\ facts' \in [Objects -> FactsOf] /\ links' \in [Objects -> Nat]
  /\ bound' \in BOOLEAN /\ (bound' => bound)
  /\ \A n \in Names \ Public : dir'[n] = dir[n] /\ alone'[n] = alone[n]
  /\ \A n \in Names :
       \/ dir'[n] = dir[n] /\ alone'[n] = alone[n]
       \/ dir'[n] = alone'[n] /\ dir'[n] = Absent
       \/ /\ dir'[n] = alone'[n] /\ dir'[n] \in Foreign /\ facts[dir'[n]].moves = 0
          /\ facts'[dir'[n]].moves > 0
          /\ \A m \in Names : m # n => dir'[m] = dir[m]
  /\ \A o \in Objects :
       /\ facts[o].data <= facts'[o].data /\ facts'[o].auto = facts[o].auto
       /\ facts[o].moves <= facts'[o].moves /\ links[o] <= links'[o]
       /\ (\A n \in Public : dir[n] # o) =>
            /\ facts'[o].mode = facts[o].mode /\ facts'[o].extra = facts[o].extra
            /\ links'[o] = links[o]
            /\ o # Target => facts'[o].data = facts[o].data

LEMMA PublicIsNames == Public \subseteq Names
BY DEF Public, Names

LEMMA ForeignSays ==
  ASSUME World, ForeignNext
  PROVE  Elsewhere
<1> USE DEF FactsOf
<1>0. /\ dir \in [Names -> Objects \cup {Absent}] /\ alone \in [Names -> Objects \cup {Absent}]
      /\ facts \in [Objects -> FactsOf] /\ links \in [Objects -> Nat] /\ bound \in BOOLEAN
      /\ Public \subseteq Names /\ Foreign \subseteq Objects
  BY PublicIsNames DEF World, Typed, Objects
<1>1. ASSUME NEW f \in Foreign, NEW n \in Names, ForeignSave(f, n)
      PROVE  Elsewhere
  <2>1. /\ UNCHANGED <<call, obs, admitted, taken, gone, links, bound>> /\ n \in Public
        /\ dir' = [dir EXCEPT ![n] = f] /\ alone' = [alone EXCEPT ![n] = f]
        /\ f \in Objects /\ f # Absent /\ facts[f].moves = 0
    BY <1>0, <1>1, EntryAssumption DEF ForeignSave, ForeignStep, Fresh
  <2>2. facts' = [facts EXCEPT ![f].moves = @ + 1]
    BY <1>1, <2>1 DEF ForeignSave, Moved
  <2>3. /\ facts' \in [Objects -> FactsOf]
        /\ \A o \in Objects : /\ facts'[o].data = facts[o].data /\ facts'[o].auto = facts[o].auto
                              /\ facts'[o].mode = facts[o].mode /\ facts'[o].extra = facts[o].extra
                              /\ facts[o].moves <= facts'[o].moves
        /\ facts'[f].moves > 0
    BY <1>0, <2>1, <2>2
  <2>4. /\ dir' \in [Names -> Objects \cup {Absent}] /\ alone' \in [Names -> Objects \cup {Absent}]
        /\ dir'[n] = f /\ alone'[n] = f
        /\ \A m \in Names : m # n => dir'[m] = dir[m] /\ alone'[m] = alone[m]
    BY <1>0, <2>1
  <2>5. \A o \in Objects : links[o] <= links[o] /\ facts[o].data <= facts[o].data
    BY <1>0
  <2> QED BY <1>0, <2>1, <2>3, <2>4, <2>5 DEF Elsewhere
<1>2. ASSUME NEW n \in Names, ForeignRemove(n)
      PROVE  Elsewhere
  <2>1. /\ UNCHANGED <<call, obs, admitted, taken, gone, links, bound, facts>> /\ n \in Public
        /\ dir' = [dir EXCEPT ![n] = Absent] /\ alone' = [alone EXCEPT ![n] = Absent]
    BY <1>2 DEF ForeignRemove, ForeignStep
  <2>2. \A o \in Objects : /\ links[o] <= links[o] /\ facts[o].data <= facts[o].data
                           /\ facts[o].moves <= facts[o].moves
    BY <1>0
  <2>3. /\ dir' \in [Names -> Objects \cup {Absent}] /\ alone' \in [Names -> Objects \cup {Absent}]
        /\ dir'[n] = Absent /\ alone'[n] = Absent
        /\ \A m \in Names : m # n => dir'[m] = dir[m] /\ alone'[m] = alone[m]
    BY <1>0, <2>1
  <2> QED BY <1>0, <2>1, <2>2, <2>3 DEF Elsewhere
<1>3. ASSUME NEW n \in Names, ForeignMode(n) \/ ForeignLink(n)
      PROVE  Elsewhere
  <2>1. /\ UNCHANGED <<call, obs, admitted, taken, gone, dir, alone, bound>> /\ n \in Public
        /\ dir[n] \in Objects
    BY <1>0, <1>3 DEF ForeignMode, ForeignLink, ForeignStep
  <2>2. /\ facts' \in [Objects -> FactsOf] /\ links' \in [Objects -> Nat]
        /\ \A o \in Objects : /\ facts'[o].data = facts[o].data /\ facts'[o].auto = facts[o].auto
                              /\ facts'[o].moves = facts[o].moves /\ links[o] <= links'[o]
                              /\ (o # dir[n] => facts'[o] = facts[o] /\ links'[o] = links[o])
    <3>1. CASE links' = links /\ (facts' = [facts EXCEPT ![dir[n]].mode = @ + 2] \/ facts' = [facts EXCEPT ![dir[n]].extra = @ + 2])
      BY <1>0, <2>1, <3>1
    <3>2. CASE facts' = facts /\ links' = [links EXCEPT ![dir[n]] = 1] /\ links[dir[n]] = 0
      BY <1>0, <2>1, <3>2
    <3> QED BY <1>3, <3>1, <3>2 DEF ForeignMode, ForeignLink
  <2>3. \A o \in Objects : facts[o].data <= facts[o].data /\ facts[o].moves <= facts[o].moves
    BY <1>0
  <2> QED BY <1>0, <2>1, <2>2, <2>3 DEF Elsewhere
<1>4. ASSUME NEW x \in Objects, ForeignEdit(x)
      PROVE  Elsewhere
  <2>1. /\ UNCHANGED <<call, obs, admitted, taken, gone, dir, alone, bound, links>>
        /\ facts' = [facts EXCEPT ![x].data = @ + 1]
        /\ (x = Target \/ \E n \in Public : dir[n] = x)
    BY <1>4 DEF ForeignEdit, ForeignStep
  <2>2. /\ facts' \in [Objects -> FactsOf]
        /\ \A o \in Objects : /\ facts[o].data <= facts'[o].data /\ facts'[o].auto = facts[o].auto
                              /\ facts'[o].mode = facts[o].mode /\ facts'[o].extra = facts[o].extra
                              /\ facts'[o].moves = facts[o].moves
                              /\ (o # x => facts'[o] = facts[o])
    BY <1>0, <2>1
  <2>3. \A o \in Objects : links[o] <= links[o] /\ facts[o].moves <= facts[o].moves
    BY <1>0
  <2> QED BY <1>0, <2>1, <2>2, <2>3 DEF Elsewhere
<1>5. CASE ForeignMoveParent
  <2>1. UNCHANGED <<call, obs, admitted, taken, gone, dir, facts, links, alone>> /\ bound' = FALSE
    BY <1>5 DEF ForeignMoveParent, ForeignStep
  <2>2. \A o \in Objects : /\ links[o] <= links[o] /\ facts[o].data <= facts[o].data
                           /\ facts[o].moves <= facts[o].moves
    BY <1>0
  <2> QED BY <1>0, <2>1, <2>2 DEF Elsewhere
<1> QED BY <1>1, <1>2, <1>3, <1>4, <1>5 DEF ForeignNext

\* Nobody else works where yaca works alone.
LEMMA ForeignHasPublic ==
  ASSUME ForeignNext
  PROVE  Public # {} /\ call.at # "done"
BY DEF ForeignNext, ForeignSave, ForeignRemove, ForeignMode, ForeignLink, ForeignEdit,
       ForeignMoveParent, Budget

LEMMA ElsewhereWorld ==
  ASSUME World, Elsewhere
  PROVE  World'
<1>0. \A n \in Names : dir'[n] = dir[n] \/ dir'[n] = Absent
        \/ (/\ dir'[n] \in Foreign /\ facts[dir'[n]].moves = 0 /\ facts'[dir'[n]].moves > 0
            /\ \A m \in Names : m # n => dir'[m] = dir[m])
  BY DEF Elsewhere
<1>1. Typed'
  BY DEF World, Typed, Elsewhere, FactsOf, Known, NoObs
<1>2. \A n \in Names : Used(dir[n])'
  <2> SUFFICES ASSUME NEW n \in Names, dir'[n] \in Foreign PROVE facts'[dir'[n]].moves > 0
    BY DEF Used
  <2>1. CASE dir'[n] = dir[n]
    <3>1. dir[n] \in Objects /\ facts[dir[n]].moves > 0
      BY <2>1 DEF World, Used, Objects
    <3>2. facts[dir[n]].moves <= facts'[dir[n]].moves
      BY <3>1 DEF Elsewhere
    <3>3. facts[dir[n]].moves \in Nat /\ facts'[dir[n]].moves \in Nat
      BY <3>1 DEF Elsewhere, World, Typed, FactsOf
    <3> QED BY <2>1, <3>1, <3>2, <3>3
  <2>2. CASE dir'[n] # dir[n]
    BY <1>0, <2>2, EntryAssumption DEF Objects
  <2> QED BY <2>1, <2>2
<1>3. Apart => Apart'
  <2> SUFFICES ASSUME Apart, NEW m \in Names, NEW n \in Names, m # n, dir'[m] = dir'[n],
                      dir'[m] # Absent
               PROVE  FALSE
    BY DEF Apart
  <2>1. \A k \in Names : dir[k] \in Foreign => facts[dir[k]].moves # 0
    BY DEF World, Used, Typed
  <2>2. CASE dir'[m] # dir[m]
    BY <1>0, <2>1, <2>2
  <2>3. CASE dir'[n] # dir[n]
    BY <1>0, <2>1, <2>3
  <2>4. CASE dir'[m] = dir[m] /\ dir'[n] = dir[n]
    BY <2>4 DEF Apart
  <2> QED BY <2>2, <2>3, <2>4
<1> QED BY <1>1, <1>2, <1>3 DEF World, Elsewhere, Twice, Posix

\* What was observed of a file stays below what it holds.
LEMMA ElsewhereGrown ==
  ASSUME World, Elsewhere, NEW s, Known(s), Grown(s)
  PROVE  Grown(s)'
<1> SUFFICES ASSUME s # NoStat PROVE s.data <= facts'[s.obj].data /\ Used(s.obj)'
  BY DEF Grown
<1>1. s.obj \in Objects /\ s.data <= facts[s.obj].data /\ Used(s.obj) /\ s.data \in Nat
  BY DEF Known, Grown
<1>2. facts[s.obj].data <= facts'[s.obj].data /\ facts[s.obj].moves <= facts'[s.obj].moves
  BY <1>1 DEF Elsewhere
<1>3. facts[s.obj] \in FactsOf /\ facts'[s.obj] \in FactsOf
  BY <1>1 DEF Elsewhere, World, Typed, FactsOf
<1> QED BY <1>1, <1>2, <1>3 DEF Used, FactsOf

LEMMA ElsewhereUntouched ==
  ASSUME World, Elsewhere, Untouched
  PROVE  Untouched'
<1>1. \A n \in Names : dir'[n] = alone'[n]
  BY DEF Elsewhere, Untouched
<1>2. dir' = alone'
  BY <1>1 DEF Elsewhere
<1> QED BY <1>2 DEF Elsewhere, Untouched

LEMMA ElsewhereTarget ==
  ASSUME World, Elsewhere, NEW x
  PROVE  /\ Displaced(x) => Displaced(x)'
         /\ Vacated(x) => Vacated(x)'
         /\ dir["target"] = alone["target"] \/ alone["target"] = Absent =>
              (dir["target"] = alone["target"] \/ alone["target"] = Absent)'
         /\ dir["target"] = alone["target"] => dir'["target"] = alone'["target"]
         /\ dir["target"] = alone["target"] \/ alone["target"] \in Foreign \cup {Absent} =>
              (dir["target"] = alone["target"] \/ alone["target"] \in Foreign \cup {Absent})'
<1>1. \/ dir'["target"] = dir["target"] /\ alone'["target"] = alone["target"]
      \/ dir'["target"] = alone'["target"] /\ dir'["target"] \in Foreign \cup {Absent}
  BY DEF Elsewhere, Names
<1>2. Candidate \notin Foreign \cup {Absent}
  BY EntryAssumption DEF Objects
<1> QED BY <1>1, <1>2 DEF Displaced, Vacated

\* A name that is not public is left alone, and so is the file under it.
LEMMA ElsewhereHidden ==
  ASSUME World, Elsewhere, Apart, NEW n \in Names \ Public, dir[n] # Absent
  PROVE  /\ dir'[n] = dir[n] /\ alone'[n] = alone[n] /\ dir[n] \in Objects
         /\ facts'[dir[n]].mode = facts[dir[n]].mode /\ facts'[dir[n]].extra = facts[dir[n]].extra
         /\ facts'[dir[n]].auto = facts[dir[n]].auto /\ links'[dir[n]] = links[dir[n]]
         /\ facts[dir[n]].data <= facts'[dir[n]].data
<1>1. dir[n] \in Objects /\ dir'[n] = dir[n] /\ alone'[n] = alone[n]
  BY DEF World, Typed, Elsewhere
<1>2. \A m \in Public : dir[m] # dir[n]
  BY PublicIsNames DEF Apart
<1> QED BY <1>1, <1>2 DEF Elsewhere

LEMMA ElsewhereMoved ==
  ASSUME World, Elsewhere, Apart, NEW n \in Names \ Public, MovedTo(n)
  PROVE  MovedTo(n)'
<1>1. dir[n] # Absent
  BY EntryAssumption DEF MovedTo
<1>2. taken.old.data \in Nat
  BY KnownSays, EntryAssumption DEF MovedTo, Known
<1>3. facts[dir[n]] \in FactsOf /\ facts'[dir[n]] \in FactsOf
  BY DEF MovedTo, Elsewhere, World, Typed, FactsOf
<1>4. facts[dir[n]].data \in Nat /\ facts'[dir[n]].data \in Nat
  BY <1>3 DEF FactsOf
<1>5. obs' = obs /\ taken' = taken
  BY DEF Elsewhere
<1>6. dir'[n] \in Objects /\ Known(taken'.old)
  BY <1>1, <1>5, ElsewhereHidden DEF MovedTo
<1>7. taken.old.data <= facts[dir[n]].data
  BY DEF MovedTo
<1>8. facts[dir[n]].data <= facts'[dir[n]].data
  BY <1>1, ElsewhereHidden
<1>9. taken.old.data <= facts'[dir[n]].data
  BY <1>2, <1>4, <1>7, <1>8
<1> QED BY <1>1, <1>5, <1>6, <1>9, ElsewhereHidden DEF MovedTo, Known

LEMMA CandidateHidden ==
  ASSUME World, Elsewhere, call.op = "replace", dir["other"] = Candidate
  PROVE  /\ dir'["other"] = Candidate
         /\ \A m : CandidateIs(m) => CandidateIs(m)'
<1>1. "other" \in Names \ Public /\ dir["other"] # Absent /\ Apart
  BY EntryAssumption DEF Names, Public, World, Objects
<1> QED BY <1>1, ElsewhereHidden DEF CandidateIs

LEMMA AutoKept ==
  ASSUME Elsewhere
  PROVE  facts'[Candidate].auto = facts[Candidate].auto /\ (NewTaken => NewTaken')
<1>1. Candidate \in Objects
  BY DEF Objects
<1> QED BY <1>1 DEF Elsewhere, NewTaken

LEMMA ElsewherePosixReplaces ==
  ASSUME World, Elsewhere, PosixReplaces
  PROVE  PosixReplaces'
<1>0. UNCHANGED <<call, obs, admitted, taken, gone>>
  BY DEF Elsewhere
<1> SUFFICES ASSUME Posix, call.op = "replace" PROVE PosixReplaces'
  BY <1>0 DEF PosixReplaces, Posix
<1>1. Apart /\ {"other", "aside"} \subseteq Names \ Public /\ Posix'
  BY <1>0 DEF World, Names, Public, Posix
<1>2. dir'["other"] = dir["other"] /\ alone'["other"] = alone["other"]
      /\ dir'["aside"] = dir["aside"] /\ alone'["aside"] = alone["aside"]
  BY <1>1 DEF Elsewhere
<1>3. Known(obs.tgt)
  BY DEF World, Typed
<1>4. Untouched => Untouched'
  BY ElsewhereUntouched
<1>5. Grown(obs.tgt) => Grown(obs.tgt)'
  BY <1>0, <1>3, ElsewhereGrown DEF Grown
<1>6. /\ OfAdmitted(obs.tgt) => OfAdmitted(obs.tgt)'
      /\ OfAdmitted(taken.old) => OfAdmitted(taken.old)'
      /\ Linked(obs.tgt) => Linked(obs.tgt)'
      /\ Linked(taken.old) => Linked(taken.old)'
  BY <1>0 DEF OfAdmitted, Linked, Posix
<1>7. NewTaken => NewTaken'
  BY AutoKept
<1>8. MovedTo("other") => MovedTo("other")'
  BY <1>1, ElsewhereMoved
<1>9. Displaced(dir["other"]) => Displaced(dir["other"])'
  BY <1>2, ElsewhereTarget DEF Displaced
<1>10. dir["other"] = Candidate /\ CandidateIs(admitted.meta) => CandidateIs(admitted.meta)'
  BY <1>0, CandidateHidden DEF CandidateIs
<1>11. dir["target"] = alone["target"] => dir'["target"] = alone'["target"]
  BY ElsewhereTarget
<1>12. call.at = "exchange" => dir["other"] = Candidate
  BY DEF PosixReplaces
<1> QED BY <1>0, <1>1, <1>2, <1>4, <1>5, <1>6, <1>7, <1>8, <1>9, <1>10, <1>11, <1>12
           DEF PosixReplaces

LEMMA ElsewhereWindowsReplaces ==
  ASSUME World, Elsewhere, WindowsReplaces
  PROVE  WindowsReplaces'
<1>0. UNCHANGED <<call, obs, admitted, taken, gone>>
  BY DEF Elsewhere
<1> SUFFICES ASSUME ~ Posix, call.op = "replace" PROVE WindowsReplaces'
  BY <1>0 DEF WindowsReplaces, Posix
<1>1. Apart /\ {"other", "aside"} \subseteq Names \ Public /\ ~ Posix'
  BY <1>0 DEF World, Names, Public, Posix
<1>2. dir'["other"] = dir["other"] /\ alone'["other"] = alone["other"]
      /\ dir'["aside"] = dir["aside"] /\ alone'["aside"] = alone["aside"]
  BY <1>1 DEF Elsewhere
<1>3. Known(obs.tgt) /\ Known(admitted.id)
  BY DEF World, Typed
<1>4. Untouched => Untouched'
  BY ElsewhereUntouched
<1>5. Grown(obs.tgt) => Grown(obs.tgt)'
  BY <1>0, <1>3, ElsewhereGrown DEF Grown
<1>6. /\ OfAdmitted(obs.tgt) => OfAdmitted(obs.tgt)'
      /\ OfAdmitted(taken.old) => OfAdmitted(taken.old)'
  BY <1>0 DEF OfAdmitted
<1>7. NewTaken => NewTaken'
  BY AutoKept
<1>8. MovedTo("aside") => MovedTo("aside")'
  BY <1>1, ElsewhereMoved
<1>9. Displaced(dir["aside"]) => Displaced(dir["aside"])'
  BY <1>2, ElsewhereTarget DEF Displaced
<1>10. dir["other"] = Candidate /\ CandidateIs(admitted.meta) => CandidateIs(admitted.meta)'
  BY <1>0, CandidateHidden DEF CandidateIs
<1>11. dir["target"] = alone["target"] \/ alone["target"] \in Foreign \cup {Absent} =>
         (dir["target"] = alone["target"] \/ alone["target"] \in Foreign \cup {Absent})'
  BY ElsewhereTarget
<1>12. dir["aside"] # Absent => facts'[dir["aside"]].extra = facts[dir["aside"]].extra
  BY <1>1, ElsewhereHidden
<1>13. facts'[Candidate].auto = facts[Candidate].auto
  BY AutoKept
<1>14. obs.tgt # NoStat /\ admitted.id.data <= facts[obs.tgt.obj].data /\ obs.tgt.obj = admitted.id.obj
         => admitted.id.data <= facts'[obs.tgt.obj].data
  <2> SUFFICES ASSUME obs.tgt # NoStat, admitted.id.data <= facts[obs.tgt.obj].data,
                      obs.tgt.obj = admitted.id.obj
               PROVE  admitted.id.data <= facts'[obs.tgt.obj].data
    OBVIOUS
  <2>1. obs.tgt.obj \in Objects /\ admitted.id.data \in Nat
    BY <1>3, KnownSays, NoStatSays DEF Known
  <2>2. /\ facts[obs.tgt.obj].data <= facts'[obs.tgt.obj].data
        /\ facts[obs.tgt.obj] \in FactsOf /\ facts'[obs.tgt.obj] \in FactsOf
    BY <2>1 DEF Elsewhere, World, Typed, FactsOf
  <2> QED BY <2>1, <2>2 DEF FactsOf
<1>15. call.at \in {"pin", "exchange"} => dir["other"] = Candidate
  BY DEF WindowsReplaces
<1>16. call.at \in {"observe", "restore", "observe_again", "compare"} => dir["aside"] # Absent
  BY EntryAssumption DEF WindowsReplaces, Objects
<1> QED BY <1>0, <1>1, <1>2, <1>4, <1>5, <1>6, <1>7, <1>8, <1>9, <1>10, <1>11, <1>12, <1>13, <1>14,
           <1>15, <1>16 DEF WindowsReplaces

LEMMA DataGrows ==
  ASSUME World, Elsewhere, NEW s, Known(s), s # NoStat, NEW n \in Nat
  PROVE  /\ n <= facts[s.obj].data => n <= facts'[s.obj].data
         /\ n <= 1 + links[s.obj] => n <= 1 + links'[s.obj]
         /\ Used(s.obj) => Used(s.obj)'
<1>1. s.obj \in Objects
  BY DEF Known
<1>2. /\ facts[s.obj].data <= facts'[s.obj].data /\ facts[s.obj].moves <= facts'[s.obj].moves
      /\ links[s.obj] <= links'[s.obj]
  BY <1>1 DEF Elsewhere
<1>3. /\ facts[s.obj] \in FactsOf /\ facts'[s.obj] \in FactsOf
      /\ links[s.obj] \in Nat /\ links'[s.obj] \in Nat
  BY <1>1 DEF Elsewhere, World, Typed, FactsOf
<1>4. facts[s.obj].data \in Nat /\ facts'[s.obj].data \in Nat
      /\ facts[s.obj].moves \in Nat /\ facts'[s.obj].moves \in Nat
  BY <1>3 DEF FactsOf
<1>5. n <= facts[s.obj].data => n <= facts'[s.obj].data
  BY <1>2, <1>4
<1>6. n <= 1 + links[s.obj] => n <= 1 + links'[s.obj]
  BY <1>2, <1>3
<1>7. Used(s.obj) => Used(s.obj)'
  BY <1>2, <1>4 DEF Used
<1> QED BY <1>5, <1>6, <1>7

\* The admitted file, and what was observed of it, in the stages before a move.
LEMMA ElsewherePinned ==
  ASSUME World, Elsewhere, obs.tgt # NoStat, obs.tgt.obj = admitted.id.obj,
         admitted.id.data <= facts[obs.tgt.obj].data
  PROVE  admitted.id.data <= facts'[obs.tgt.obj].data
<1>1. Known(obs.tgt) /\ Known(admitted.id)
  BY DEF World, Typed
<1>2. admitted.id.data \in Nat
  BY <1>1, KnownSays, NoStatSays DEF Known
<1> QED BY <1>1, <1>2, DataGrows

LEMMA ElsewhereMoves ==
  ASSUME World, Elsewhere, Moves
  PROVE  Moves'
<1>0. UNCHANGED <<call, obs, admitted, taken, gone>>
  BY DEF Elsewhere
<1> SUFFICES ASSUME call.op = "rename" PROVE Moves'
  BY <1>0 DEF Moves
<1>1. "aside" \in Names \ Public /\ Posix' = Posix
  BY <1>0 DEF Names, Public, Posix
<1>2. dir'["aside"] = dir["aside"] /\ alone'["aside"] = alone["aside"]
  BY <1>1 DEF Elsewhere
<1>3. Known(obs.tgt) /\ Known(admitted.id) /\ Known(obs.moved)
  BY DEF World, Typed
<1>4. Untouched => Untouched'
  BY ElsewhereUntouched
<1>5. Grown(obs.tgt) => Grown(obs.tgt)'
  BY <1>0, <1>3, ElsewhereGrown DEF Grown
<1>6. /\ OfAdmitted(obs.tgt) => OfAdmitted(obs.tgt)'
      /\ Linked(obs.tgt) => Linked(obs.tgt)'
  BY <1>0 DEF OfAdmitted, Linked, Posix
<1>7. Vacated(taken.old.obj) => Vacated(taken.old.obj)'
  BY <1>0, ElsewhereTarget DEF Vacated
<1>8. obs.tgt # NoStat /\ obs.tgt.obj = admitted.id.obj /\ admitted.id.data <= facts[obs.tgt.obj].data
        => admitted.id.data <= facts'[obs.tgt.obj].data
  BY ElsewherePinned
<1>9. /\ obs.moved # NoStat /\ Used(obs.moved.obj) => Used(obs.moved.obj)'
      /\ obs.moved # NoStat => obs.moved.obj \in Objects
  <2> SUFFICES ASSUME obs.moved # NoStat
               PROVE  (Used(obs.moved.obj) => Used(obs.moved.obj)') /\ obs.moved.obj \in Objects
    OBVIOUS
  <2>1. Used(obs.moved.obj) => facts'[obs.moved.obj].moves > 0 \/ obs.moved.obj \notin Foreign
    BY <1>3, DataGrows DEF Used
  <2> QED BY <1>0, <1>3, <2>1 DEF Used, Known
<1>10. \/ dir'["other"] = dir["other"] /\ alone'["other"] = alone["other"]
       \/ dir'["other"] = alone'["other"] /\ dir'["other"] = Absent
       \/ /\ dir'["other"] = alone'["other"] /\ dir'["other"] \in Foreign
          /\ facts[dir'["other"]].moves = 0 /\ dir'["target"] = dir["target"]
  BY DEF Elsewhere, Names
<1>11. \/ dir'["target"] = dir["target"] /\ alone'["target"] = alone["target"]
       \/ dir'["target"] = alone'["target"] /\ dir'["target"] = Absent
       \/ /\ dir'["target"] = alone'["target"] /\ dir'["target"] \in Foreign
          /\ facts[dir'["target"]].moves = 0
  BY DEF Elsewhere, Names
<1>12. CASE call.at = "observe"
  <2>1. obs.tgt # NoStat /\ Known(taken.old) /\ Grown(obs.tgt)
    BY <1>12 DEF Moves, OfAdmitted
  <2>2. obs.tgt.obj \in Objects /\ Used(obs.tgt.obj)
    BY <1>3, <2>1 DEF Grown, Known
  <2>3. taken.old # NoStat /\ taken.old.data \in Nat /\ taken.old.links \in Nat
    BY <1>12, <2>1 DEF Moves, Known
  <2>4. dir'["other"] = obs.tgt.obj => taken.old.obj = obs.tgt.obj
    <3> SUFFICES ASSUME dir'["other"] = obs.tgt.obj PROVE taken.old.obj = obs.tgt.obj
      OBVIOUS
    <3>1. dir'["other"] # Absent /\ ~ (dir'["other"] \in Foreign /\ facts[dir'["other"]].moves = 0)
      BY <2>2, EntryAssumption DEF Used
    <3>2. dir["other"] = obs.tgt.obj
      BY <1>10, <3>1
    <3> QED BY <1>12, <3>2 DEF Moves
  <2>5. taken.old.obj = obs.tgt.obj =>
          /\ obs.tgt.data <= taken.old.data /\ taken.old.data <= facts'[obs.tgt.obj].data
          /\ 1 <= taken.old.links /\ taken.old.links <= 1 + links'[obs.tgt.obj]
    BY <1>3, <1>12, <2>1, <2>3, DataGrows DEF Moves
  <2>6. \/ dir'["other"] = taken.old.obj /\ alone'["other"] = Absent
        \/ dir'["other"] = alone'["other"] /\ dir'["other"] \in Foreign \cup {Absent}
    BY <1>10, <1>12 DEF Moves
  <2>7. Known(taken.old)'
    BY <1>0, <2>1 DEF Known
  <2> QED BY <1>0, <1>1, <1>2, <1>5, <1>6, <1>7, <1>12, <2>1, <2>4, <2>5, <2>6, <2>7 DEF Moves, Admissions
<1>13. CASE call.at = "rolled_back"
  <2>1. obs.moved # NoStat /\ Used(obs.moved.obj) /\ obs.moved.obj \in Objects
    BY <1>9, <1>13 DEF Moves
  <2>2. ASSUME dir'["target"] = obs.moved.obj
        PROVE  \/ /\ dir'["other"] = alone'["other"]
                  /\ dir'["target"] = alone'["target"] \/ alone'["target"] = Absent
               \/ /\ dir'["target"] \in Foreign /\ facts'[dir'["target"]].moves > 1
                  /\ dir'["other"] \in {Absent, alone'["other"]}
    <3>1. dir'["target"] # Absent /\ ~ (dir'["target"] \in Foreign /\ facts[dir'["target"]].moves = 0)
      BY <2>1, <2>2, EntryAssumption DEF Used
    <3>2. dir'["target"] = dir["target"] /\ alone'["target"] = alone["target"]
      BY <1>11, <3>1
    <3>3. dir["target"] \in Foreign /\ facts[dir["target"]].moves > 1 => facts'[dir["target"]].moves > 1
      <4>1. obs.moved.obj \in Objects /\ facts[obs.moved.obj].moves <= facts'[obs.moved.obj].moves
        BY <2>1 DEF Elsewhere
      <4>2. facts[obs.moved.obj] \in FactsOf /\ facts'[obs.moved.obj] \in FactsOf
        BY <2>1 DEF Elsewhere, World, Typed, FactsOf
      <4> QED BY <2>2, <3>2, <4>1, <4>2 DEF FactsOf
    <3> QED BY <1>10, <1>13, <2>2, <3>2, <3>3 DEF Moves
  <2> QED BY <1>0, <1>1, <1>2, <1>9, <1>13, <2>1, <2>2 DEF Moves, Admissions
<1>14. CASE call.at \notin {"observe", "rolled_back"}
  <2>1. call.at = "roll_back" =>
          \/ dir'["other"] = taken.old.obj /\ alone'["other"] = Absent
          \/ dir'["other"] = alone'["other"] /\ dir'["other"] \in Foreign \cup {Absent}
    BY <1>10 DEF Moves
  <2> QED BY <1>0, <1>1, <1>2, <1>4, <1>5, <1>6, <1>7, <1>8, <1>9, <1>14, <2>1 DEF Moves, Admissions
<1> QED BY <1>12, <1>13, <1>14

LEMMA ElsewhereDeletes ==
  ASSUME World, Elsewhere, Deletes
  PROVE  Deletes'
<1>0. UNCHANGED <<call, obs, admitted, taken, gone>>
  BY DEF Elsewhere
<1> SUFFICES ASSUME call.op = "delete" PROVE Deletes'
  BY <1>0 DEF Deletes
<1>1. Apart /\ {"other", "aside"} \subseteq Names \ Public /\ Posix' = Posix
  BY <1>0 DEF World, Names, Public, Posix
<1>2. dir'["other"] = dir["other"] /\ alone'["other"] = alone["other"]
      /\ dir'["aside"] = dir["aside"] /\ alone'["aside"] = alone["aside"]
  BY <1>1 DEF Elsewhere
<1>3. Known(obs.tgt) /\ Known(admitted.id)
  BY DEF World, Typed
<1>4. Untouched => Untouched'
  BY ElsewhereUntouched
<1>5. Grown(obs.tgt) => Grown(obs.tgt)'
  BY <1>0, <1>3, ElsewhereGrown DEF Grown
<1>6. /\ OfAdmitted(obs.tgt) => OfAdmitted(obs.tgt)'
      /\ OfAdmitted(taken.old) => OfAdmitted(taken.old)'
      /\ Linked(obs.tgt) => Linked(obs.tgt)'
      /\ Linked(taken.old) => Linked(taken.old)'
      /\ OnlyAdmitted => OnlyAdmitted'
  BY <1>0 DEF OfAdmitted, Linked, Posix, OnlyAdmitted
<1>7. Vacated(dir["other"]) => Vacated(dir["other"])'
  BY <1>2, ElsewhereTarget DEF Vacated
<1>8. obs.tgt # NoStat /\ obs.tgt.obj = admitted.id.obj /\ admitted.id.data <= facts[obs.tgt.obj].data
        => admitted.id.data <= facts'[obs.tgt.obj].data
  BY ElsewherePinned
<1>9. MovedTo("other") => MovedTo("other")'
  BY <1>1, ElsewhereMoved
<1>10. dir["target"] = alone["target"] \/ alone["target"] = Absent =>
         dir'["target"] = alone'["target"] \/ alone'["target"] = Absent
  BY ElsewhereTarget
<1> QED BY <1>0, <1>1, <1>2, <1>4, <1>5, <1>6, <1>7, <1>8, <1>9, <1>10 DEF Deletes

LEMMA ElsewhereOpens ==
  ASSUME World, Elsewhere, Opens
  PROVE  Opens'
BY ElsewhereUntouched DEF Opens, Elsewhere

LEMMA ElsewhereSaves ==
  ASSUME World, Elsewhere, SaveInv
  PROVE  SaveInv'
<1>0. UNCHANGED <<call, obs, admitted, taken, gone>>
  BY DEF Elsewhere
<1> SUFFICES ASSUME call.op \in Saves PROVE SaveInv'
  BY <1>0 DEF SaveInv
<1>1. {"other", "aside"} \subseteq Names \ Public /\ Posix' = Posix /\ Public = {"target"}
  BY <1>0 DEF Names, Public, Posix, Saves
<1>2. dir'["other"] = dir["other"] /\ alone'["other"] = alone["other"]
      /\ dir'["aside"] = dir["aside"] /\ alone'["aside"] = alone["aside"]
  BY <1>1 DEF Elsewhere
<1>3. \/ dir'["target"] = dir["target"] /\ alone'["target"] = alone["target"]
      \/ dir'["target"] = alone'["target"] /\ dir'["target"] \in Foreign \cup {Absent}
  BY DEF Elsewhere, Names
<1>4. Candidate \notin Foreign \cup {Absent} /\ Candidate \in Objects /\ Candidate # Target
  BY EntryAssumption DEF Objects
<1>5. dir["target"] # Candidate => facts'[Candidate].data = facts[Candidate].data
  BY <1>1, <1>4 DEF Elsewhere
<1>6. NoneLost => NoneLost'
  BY <1>0, <1>1 DEF NoneLost, Removable, Saves
<1>7. call.at \in Writing => dir["target"] # Candidate
  BY DEF SaveInv
<1> QED BY <1>0, <1>1, <1>2, <1>3, <1>4, <1>5, <1>6, <1>7 DEF SaveInv

LEMMA ElsewhereBase ==
  ASSUME World, Elsewhere, BaseInv, UNCHANGED draft
  PROVE  BaseInv'
<1>0. UNCHANGED <<call, admitted>>
  BY DEF Elsewhere
<1> SUFFICES ASSUME call.op = "config_save", draft.read.at = "bytes"
             PROVE  /\ draft.read.id.data <= facts'[draft.read.file].data
                    /\ \A i \in DOMAIN draft.read.bytes :
                         draft.read.bytes[i] <= facts'[draft.read.file].data
  BY <1>0 DEF BaseInv, Known
<1>1. /\ draft.read.file = draft.read.id.obj /\ draft.read.id # NoStat /\ Known(draft.read.id)
      /\ draft.read.bytes \in Seq(Nat) /\ draft.read.id.data <= facts[draft.read.file].data
  BY DEF BaseInv
<1>2. ASSUME NEW i \in DOMAIN draft.read.bytes
      PROVE  draft.read.bytes[i] \in Nat /\ draft.read.bytes[i] <= facts[draft.read.file].data
  BY <1>1, <1>2 DEF BaseInv
<1>3. draft.read.id.data \in Nat
  BY <1>1 DEF Known
<1> QED BY <1>1, <1>2, <1>3, DataGrows

LEMMA ForeignKeeps ==
  ASSUME EInv, ForeignNext, UNCHANGED draft
  PROVE  EInv'
<1>1. World /\ Elsewhere /\ call.at # "done" /\ Public # {} /\ UNCHANGED <<call, obs, gone>>
  BY ForeignSays, ForeignHasPublic DEF EInv, Elsewhere
<1>2. World'
  BY <1>1, ElsewhereWorld
<1>3. Admission'
  BY <1>1, ElsewhereUntouched DEF EInv, Admission
<1>4. Plains'
  BY <1>1 DEF Plains, Stage, Public, Saves
<1>5. PosixReplaces' /\ WindowsReplaces' /\ Moves' /\ Deletes' /\ Opens' /\ SaveInv' /\ BaseInv'
  BY <1>1, ElsewherePosixReplaces, ElsewhereWindowsReplaces, ElsewhereMoves, ElsewhereDeletes,
     ElsewhereOpens, ElsewhereSaves, ElsewhereBase DEF EInv
<1> QED BY <1>1, <1>2, <1>3, <1>4, <1>5 DEF EInv
-------------------------------------------------------------------------------
(* Steps of the calls, whatever the call is.                                     *)

\* What a call may have observed.
Sees(x) ==
  /\ DOMAIN x = DOMAIN NoObs
  /\ Known(x.tgt) /\ Known(x.tmp) /\ Known(x.moved) /\ Known(x.pub) /\ Twice(x.tgt)
  /\ x.meta \in Metas /\ x.pubmeta \in Metas /\ x.movedmeta \in Metas

LEMMA NoObsSees == Sees(NoObs)
<1>1. NoMeta \in Metas
  BY DEF NoMeta, Metas
<1> QED BY <1>1, NoStatSays DEF NoObs, Sees

LEMMA WorldSees == World => Sees(obs)
BY DEF World, Typed, Sees

\* A call proceeds, or returns.
LEMMA GotoSays ==
  ASSUME World, NEW a, Goto(a)
  PROVE  /\ call'.at = a /\ call'.op = call.op /\ call'.platform = call.platform
         /\ call'.result = call.result /\ DOMAIN call' = DOMAIN call /\ Posix' = Posix
BY DEF World, Typed, Goto, Posix

LEMMA ReturnSays ==
  ASSUME World, NEW r, Return(r)
  PROVE  /\ call'.at = "done" /\ call'.op = call.op /\ call'.platform = call.platform
         /\ call'.result = r /\ DOMAIN call' = DOMAIN call /\ Posix' = Posix /\ Sees(obs')
BY NoObsSees DEF World, Typed, Return, Posix

\* What a step of the call itself leaves of the world.
Steps ==
  /\ call'.op = call.op /\ call'.platform = call.platform /\ DOMAIN call' = DOMAIN call
  /\ Sees(obs')

LEMMA StepWorld ==
  ASSUME World, Steps, UNCHANGED <<admitted, alone, links, bound>>,
         DOMAIN taken' = DOMAIN taken, dir' \in [Names -> Objects \cup {Absent}],
         facts' \in [Objects -> FactsOf], gone' \subseteq Objects,
         \A n \in Names : Used(dir[n])',
         call.op \in {"replace", "rename", "delete"} => Apart'
  PROVE  World'
BY DEF World, Typed, Steps, Sees, FactsOf, Posix

LEMMA StillWorld ==
  ASSUME World, Steps, UNCHANGED still
  PROVE  World' /\ UNCHANGED <<dir, facts, links, bound, admitted, alone, foreign, taken, gone>>
<1>1. UNCHANGED <<dir, facts, links, bound, admitted, alone, foreign, taken, gone>>
  BY DEF still, disk, rest
<1>2. /\ \A n \in Names : Used(dir[n])'
      /\ Apart => Apart'
      /\ facts' \in [Objects -> FactsOf]
  BY <1>1 DEF World, Typed, Used, Apart, FactsOf
<1> QED BY <1>1, <1>2, StepWorld DEF World, Typed

\* A call that proceeds and has looked at the disk, at most.
LEMMA LookWorld ==
  ASSUME World, NEW a, Goto(a), UNCHANGED still, Sees(obs')
  PROVE  /\ World' /\ UNCHANGED <<dir, facts, links, bound, admitted, alone, foreign, taken, gone>>
         /\ call'.at = a /\ call'.op = call.op /\ Posix' = Posix
BY GotoSays, StillWorld DEF Steps

LEMMA WaitWorld ==
  ASSUME World, NEW a, Goto(a), UNCHANGED <<obs, still>>
  PROVE  /\ World' /\ UNCHANGED <<dir, facts, links, bound, admitted, alone, foreign, taken, gone, obs>>
         /\ call'.at = a /\ call'.op = call.op /\ Posix' = Posix
<1>1. UNCHANGED still /\ UNCHANGED obs /\ Sees(obs')
  BY WorldSees DEF still
<1> QED BY <1>1, LookWorld

LEMMA AnswerWorld ==
  ASSUME World, NEW r, Answer(r)
  PROVE  /\ World' /\ UNCHANGED <<dir, facts, links, bound, admitted, alone, foreign, taken, gone>>
         /\ call'.at = "done" /\ call'.result = r /\ call'.op = call.op /\ Posix' = Posix
BY ReturnSays, StillWorld DEF Steps, Answer

\* A file that is moved has moved once more, and is what it was.
LEMMA MovedSays ==
  ASSUME NEW fs \in [Objects -> FactsOf], NEW o \in Objects \cup {Absent}
  PROVE  /\ Moved(fs, o) \in [Objects -> FactsOf]
         /\ \A p \in Objects :
              /\ Moved(fs, o)[p].data = fs[p].data /\ Moved(fs, o)[p].mode = fs[p].mode
              /\ Moved(fs, o)[p].extra = fs[p].extra /\ Moved(fs, o)[p].auto = fs[p].auto
              /\ Moved(fs, o)[p].moves = IF p = o THEN fs[p].moves + 1 ELSE fs[p].moves
              /\ Moved(fs, o)[p].moves \in Nat /\ Moved(fs, o)[p].moves >= fs[p].moves
<1>1. CASE o = Absent
  BY <1>1, EntryAssumption DEF Moved, FactsOf
<1>2. CASE o # Absent
  BY <1>2 DEF Moved, FactsOf
<1> QED BY <1>1, <1>2

\* A file that is only moved is used still.
LEMMA StillUsed ==
  ASSUME World, facts' \in [Objects -> FactsOf],
         \A p \in Objects : facts'[p].moves >= facts[p].moves,
         dir' \in [Names -> Objects \cup {Absent}],
         \A n \in Names : \E m \in Names : dir'[n] \in {dir[m], Absent}
  PROVE  \A n \in Names : Used(dir[n])'
<1> SUFFICES ASSUME NEW n \in Names, dir'[n] \in Foreign PROVE facts'[dir'[n]].moves > 0
  BY DEF Used
<1>1. dir'[n] \in Objects /\ dir'[n] # Absent
  BY EntryAssumption DEF Objects
<1>2. PICK m \in Names : dir'[n] = dir[m]
  BY <1>1
<1>3. facts[dir'[n]].moves > 0
  BY <1>2 DEF World, Used
<1>4. facts'[dir'[n]].moves >= facts[dir'[n]].moves /\ facts'[dir'[n]] \in FactsOf
      /\ facts[dir'[n]] \in FactsOf
  BY <1>1 DEF World, Typed, FactsOf
<1> QED BY <1>3, <1>4 DEF FactsOf

\* A move to an absent name.
LEMMA RenamedSays ==
  ASSUME World, Apart, NEW a \in Names, NEW b \in Names, a # b, dir[a] # Absent, dir[b] = Absent,
         Renamed(a, b)
  PROVE  /\ dir' \in [Names -> Objects \cup {Absent}] /\ dir'[a] = Absent /\ dir'[b] = dir[a]
         /\ \A n \in Names \ {a, b} : dir'[n] = dir[n]
         /\ facts' \in [Objects -> FactsOf]
         /\ \A p \in Objects :
              /\ facts'[p].data = facts[p].data /\ facts'[p].mode = facts[p].mode
              /\ facts'[p].extra = facts[p].extra /\ facts'[p].auto = facts[p].auto
         /\ facts'[dir[a]].moves = facts[dir[a]].moves + 1
         /\ \A n \in Names : Used(dir[n])'
         /\ Apart'
<1>1. /\ dir \in [Names -> Objects \cup {Absent}] /\ facts \in [Objects -> FactsOf]
      /\ dir[a] \in Objects
  BY DEF World, Typed, FactsOf
<1>2. dir' = [dir EXCEPT ![a] = Absent, ![b] = dir[a]] /\ facts' = Moved(facts, dir[a])
  BY DEF Renamed
<1>3. /\ dir' \in [Names -> Objects \cup {Absent}] /\ dir'[a] = Absent /\ dir'[b] = dir[a]
      /\ \A n \in Names \ {a, b} : dir'[n] = dir[n]
  BY <1>1, <1>2
<1>4. /\ facts' \in [Objects -> FactsOf]
      /\ \A p \in Objects :
           /\ facts'[p].data = facts[p].data /\ facts'[p].mode = facts[p].mode
           /\ facts'[p].extra = facts[p].extra /\ facts'[p].auto = facts[p].auto
           /\ facts'[p].moves >= facts[p].moves
      /\ facts'[dir[a]].moves = facts[dir[a]].moves + 1
  BY <1>1, <1>2, MovedSays
<1>5. \A n \in Names : \E m \in Names : dir'[n] \in {dir[m], Absent}
  BY <1>3
<1>6. \A n \in Names : Used(dir[n])'
  BY <1>3, <1>4, <1>5, StillUsed
<1>7. Apart'
  BY <1>3 DEF Apart
<1> QED BY <1>3, <1>4, <1>6, <1>7

\* A call that is done has no stage any more.
LEMMA EndKeeps ==
  ASSUME EInv, World', Ended', UNCHANGED draft, call'.at = "done", call'.op = call.op,
         call.op \notin Saves, Posix' = Posix,
         call.op = "rename" => gone' = {} /\ dir'["aside"] = alone'["aside"],
         call.op = "delete" => dir'["aside"] = alone'["aside"]
  PROVE  EInv'
<1>1. BaseInv'
  BY DEF EInv, BaseInv, Saves
<1>2. PosixReplaces' /\ WindowsReplaces'
  BY DEF PosixReplaces, WindowsReplaces, Admissions
<1>3. Admission' /\ Moves' /\ Deletes' /\ Opens' /\ Plains' /\ SaveInv'
  BY DEF Admission, Admissions, Moves, Deletes, Opens, Plains, SaveInv, Stage
<1> QED BY <1>1, <1>2, <1>3 DEF EInv

\* A refusal while nothing was done yet.
LEMMA RefuseKeeps ==
  ASSUME EInv, NEW r, Answer(r), r # "ok", Untouched, UNCHANGED draft, call.op \notin Saves
  PROVE  EInv'
<1>1. /\ World' /\ UNCHANGED <<dir, alone, gone>> /\ call'.at = "done" /\ call'.result = r
      /\ call'.op = call.op /\ Posix' = Posix
  BY AnswerWorld DEF EInv
<1>2. dir' = alone' /\ gone' = {}
  BY <1>1 DEF Untouched
<1>3. NoneLost'
  BY <1>2 DEF NoneLost
<1>4. RefusalChangesNothing'
  BY <1>2 DEF RefusalChangesNothing
<1>5. Committed' /\ MetadataKept'
  BY <1>1 DEF Committed, MetadataKept, Succeeded
<1> QED BY <1>1, <1>2, <1>3, <1>4, <1>5, EndKeeps DEF Ended

\* A call that does not know how it ended.
LEMMA UnknownKeeps ==
  ASSUME EInv, Answer("Unknown"), UNCHANGED draft, call.op \notin Saves, NoneLost',
         call.op = "rename" => gone = {} /\ dir["aside"] = alone["aside"],
         call.op = "delete" => dir["aside"] = alone["aside"]
  PROVE  EInv'
<1>1. /\ World' /\ UNCHANGED <<dir, alone, gone>> /\ call'.at = "done" /\ call'.result = "Unknown"
      /\ call'.op = call.op /\ Posix' = Posix
  BY AnswerWorld DEF EInv
<1>2. RefusalChangesNothing' /\ Committed' /\ MetadataKept'
  BY <1>1 DEF RefusalChangesNothing, Committed, MetadataKept, Succeeded, Refused
<1> QED BY <1>1, <1>2, EndKeeps DEF Ended
-------------------------------------------------------------------------------
(* The admission of a target.                                                    *)

LEMMA EarlyKeeps ==
  ASSUME EInv, World', call'.op = call.op, Posix' = Posix, call.op \in Verified,
         call.at \in Admissions, call'.at \in {"inspect_open", "inspect_metadata", "start"},
         UNCHANGED <<dir, alone, gone, draft>>,
         call'.at # "start" => obs'.tgt # NoStat
  PROVE  EInv'
<1>1. Untouched /\ Untouched'
  BY DEF EInv, Admission, Untouched
<1>2. call.op = "replace" => dir'["other"] = Candidate
  BY DEF EInv, PosixReplaces, WindowsReplaces
<1>3. Admission'
  BY <1>1 DEF Admission
<1>4. PosixReplaces' /\ WindowsReplaces'
  BY <1>1, <1>2 DEF PosixReplaces, WindowsReplaces, Admissions, Untouched
<1>5. Moves' /\ Deletes' /\ Opens'
  BY <1>1 DEF Moves, Deletes, OnlyAdmitted, Opens, Admissions, Untouched
<1>6. Plains' /\ SaveInv'
  BY DEF Plains, SaveInv, Stage, Verified, Saves
<1>7. BaseInv'
  BY DEF EInv, BaseInv, Verified
<1> QED BY <1>1, <1>3, <1>4, <1>5, <1>6, <1>7 DEF EInv

\* The identity that is admitted is one a stat may tell.
LEMMA AdmitWorld ==
  ASSUME World, UNCHANGED <<disk, bound, alone, foreign, taken, gone>>, Goto("start"), obs' = NoObs,
         DOMAIN admitted' = {"id", "meta"}, Known(admitted'.id), admitted'.meta \in Metas,
         Posix => Twice(admitted'.id)
  PROVE  /\ World' /\ UNCHANGED <<dir, alone, gone>>
         /\ call'.at = "start" /\ call'.op = call.op /\ Posix' = Posix
<1>1. UNCHANGED <<dir, facts, links, bound, alone, foreign, taken, gone>> /\ Sees(obs')
  BY NoObsSees DEF disk
<1>2. /\ call'.at = "start" /\ call'.op = call.op /\ call'.platform = call.platform
      /\ Posix' = Posix /\ DOMAIN call' = DOMAIN call
  BY GotoSays
<1>3. Typed'
  BY <1>1, <1>2 DEF World, Typed, Sees, Known
<1>4. \A n \in Names : Used(dir[n])'
  BY <1>1 DEF World, Used
<1>5. Apart => Apart'
  BY <1>1 DEF Apart
<1> QED BY <1>1, <1>2, <1>3, <1>4, <1>5 DEF World, Sees, Twice

LEMMA InspectKeeps ==
  ASSUME EInv, UNCHANGED draft, NEW o \in Verified,
         \/ InspectTarget(o) \/ InspectOpen(o) \/ InspectMetadata(o)
         \/ WinInspect(o) \/ WinAdmit(o)
  PROVE  EInv'
<1>0. /\ call.op = o /\ call.op \in Verified /\ call.op \notin Saves /\ World
      /\ call.at \in {"inspect", "inspect_open", "inspect_metadata"}
  BY DEF EInv, InspectTarget, InspectOpen, InspectMetadata, WinInspect, WinAdmit, At, Verified, Saves
<1>1. Untouched /\ call.at \in Admissions
  BY <1>0 DEF EInv, Admission, Admissions
<1>2. Typed /\ Sees(obs) /\ "target" \in Names
  BY <1>0, WorldSees DEF World, Names
<1>3. ASSUME NEW r \in {"NotFound", "Storage"}, Answer(r)
      PROVE  EInv'
  BY <1>0, <1>1, <1>3, RefuseKeeps
<1>4. CASE InspectTarget(o)
  <2>1. CASE Answer("NotFound")
    BY <1>3, <2>1
  <2>2. CASE ~ Answer("NotFound")
    <3>1. /\ dir["target"] # Absent /\ obs' = [obs EXCEPT !.tgt = Look("target")]
          /\ Goto("inspect_open") /\ UNCHANGED still
      BY <1>4, <2>2 DEF InspectTarget
    <3>2. obs'.tgt = Look("target") /\ obs'.tgt # NoStat /\ Sees(obs')
      BY <1>2, <3>1, LookSays DEF Sees, NoObs
    <3> QED BY <1>0, <1>1, <3>1, <3>2, LookWorld, EarlyKeeps
  <2> QED BY <2>1, <2>2
<1>5. CASE InspectOpen(o)
  <2>1. CASE Answer("Storage")
    BY <1>3, <2>1
  <2>2. CASE ~ Answer("Storage")
    <3>1. Goto("inspect_metadata") /\ UNCHANGED <<obs, still>> /\ call.at = "inspect_open"
      BY <1>5, <2>2 DEF InspectOpen, At
    <3>2. obs.tgt # NoStat /\ obs' = obs
      BY <1>0, <3>1 DEF EInv, Admission
    <3> QED BY <1>0, <1>1, <3>1, <3>2, WaitWorld, EarlyKeeps
  <2> QED BY <2>1, <2>2
<1>6. CASE InspectMetadata(o)
  <2>1. /\ admitted' = [id |-> obs.tgt, meta |-> Captured(obs.tgt, obs.tgt.obj)]
        /\ Goto("start") /\ obs' = NoObs /\ UNCHANGED <<disk, bound, alone, foreign, taken, gone>>
        /\ call.at = "inspect_metadata"
    BY <1>6 DEF InspectMetadata, At
  <2>2. obs.tgt # NoStat /\ Known(obs.tgt) /\ Twice(obs.tgt)
    BY <1>0, <1>2, <2>1 DEF EInv, Admission, Sees
  <2>3. /\ DOMAIN admitted' = {"id", "meta"} /\ Known(admitted'.id) /\ Twice(admitted'.id)
        /\ admitted'.meta \in Metas
    BY <1>2, <2>1, <2>2, CapturedSays
  <2> QED BY <1>0, <1>1, <2>1, <2>3, AdmitWorld, EarlyKeeps
<1>7. CASE WinInspect(o)
  <2>1. CASE Answer("NotFound")
    BY <1>3, <2>1
  <2>2. CASE ~ Answer("NotFound")
    <3>1. /\ Reach("target") # Absent
          /\ obs' = [obs EXCEPT !.tgt = Seen("target"), !.meta = SeenMeta("target")]
          /\ Goto("inspect_open") /\ UNCHANGED still
      BY <1>7, <2>2 DEF WinInspect
    <3>2. Seen("target") # NoStat
      BY <1>2, <3>1, SeenSays, LookSays DEF Reach
    <3>3. obs'.tgt = Seen("target") /\ Sees(obs')
      BY <1>2, <3>1, SeenSays DEF Sees, NoObs
    <3> QED BY <1>0, <1>1, <3>1, <3>2, <3>3, LookWorld, EarlyKeeps
  <2> QED BY <2>1, <2>2
<1>8. CASE WinAdmit(o)
  <2>1. CASE Answer("Storage")
    BY <1>3, <2>1
  <2>2. CASE ~ Answer("Storage")
    <3>1. /\ admitted' = [id |-> [Stat(obs.tgt.obj) EXCEPT !.links = obs.tgt.links], meta |-> obs.meta]
          /\ Goto("start") /\ obs' = NoObs /\ UNCHANGED <<disk, bound, alone, foreign, taken, gone>>
          /\ call.at = "inspect_open" /\ ~ Posix
      BY <1>8, <2>2 DEF WinAdmit, At, Posix
    <3>2. obs.tgt # NoStat /\ Known(obs.tgt)
      BY <1>0, <1>2, <3>1 DEF EInv, Admission, Sees
    <3>3. obs.tgt.obj \in Objects /\ obs.tgt.links \in Nat
      BY <3>2 DEF Known
    <3>4. Known(Stat(obs.tgt.obj)) /\ Stat(obs.tgt.obj) # NoStat
      BY <1>2, <3>3, StatSays
    <3>5. /\ [Stat(obs.tgt.obj) EXCEPT !.links = obs.tgt.links].obj = Stat(obs.tgt.obj).obj
          /\ [Stat(obs.tgt.obj) EXCEPT !.links = obs.tgt.links].data = Stat(obs.tgt.obj).data
          /\ [Stat(obs.tgt.obj) EXCEPT !.links = obs.tgt.links].mode = Stat(obs.tgt.obj).mode
          /\ [Stat(obs.tgt.obj) EXCEPT !.links = obs.tgt.links].links = obs.tgt.links
      BY DEF Stat
    <3>6. Known([Stat(obs.tgt.obj) EXCEPT !.links = obs.tgt.links])
      BY <3>3, <3>4, <3>5 DEF Known
    <3>7. /\ DOMAIN admitted' = {"id", "meta"} /\ Known(admitted'.id) /\ admitted'.meta \in Metas
      BY <1>2, <3>1, <3>6 DEF Sees
    <3> QED BY <1>0, <1>1, <3>1, <3>7, AdmitWorld, EarlyKeeps
  <2> QED BY <2>1, <2>2
<1> QED BY <1>4, <1>5, <1>6, <1>7, <1>8
-------------------------------------------------------------------------------
(* A verified replacement on POSIX.                                              *)

LEMMA PosixReplaceOnly ==
  ASSUME EInv, World', Posix, Posix' = Posix, call.op = "replace", call'.op = call.op,
         call'.at \notin Admissions \cup {"done"}, UNCHANGED draft, PosixReplaces'
  PROVE  EInv'
<1>1. WindowsReplaces' /\ Moves' /\ Deletes' /\ Opens' /\ Plains' /\ SaveInv'
  BY DEF WindowsReplaces, Moves, Deletes, Opens, Plains, SaveInv, Stage, Saves
<1>2. BaseInv'
  BY DEF EInv, BaseInv
<1>3. Admission'
  BY DEF Admission, Admissions
<1> QED BY <1>1, <1>2, <1>3 DEF EInv

Preparing == {"capture", "copy_mode", "recheck", "copy_extra", "recheck_again", "verify", "exchange"}

\* Until the names are exchanged the call only looks and fills its temporary.
LEMMA PreparingKeeps ==
  ASSUME EInv, World', Posix, Posix' = Posix, call.op = "replace", call'.op = call.op,
         call.at \in Preparing \cup {"start"}, call'.at \in Preparing,
         UNCHANGED <<dir, alone, gone, admitted, draft>>,
         Grown(obs.tgt)', OfAdmitted(obs.tgt)', Linked(obs.tgt)',
         call'.at # "capture" => obs'.meta = admitted.meta /\ obs'.tgt.mode = admitted.meta.mode,
         call'.at = "exchange" => obs'.tmp # NoStat /\ obs'.tmp.obj = Candidate
                                  /\ CandidateIs(admitted.meta)'
  PROVE  EInv'
<1>1. Untouched' /\ dir'["other"] = Candidate
  BY DEF EInv, PosixReplaces, Untouched, Admissions, Preparing
<1>2. call'.at \notin Admissions \cup {"done"}
  BY DEF Admissions, Preparing
<1>3. PosixReplaces'
  BY <1>1, <1>2 DEF PosixReplaces, Preparing, Untouched
<1> QED BY <1>2, <1>3, PosixReplaceOnly

\* The temporary is filled: nothing but its metadata changes.
LEMMA FillWorld ==
  ASSUME EInv, NEW a, Goto(a), UNCHANGED <<dir, links, obs, rest, taken, gone>>,
         NEW n \in Nat,
         \/ facts' = [facts EXCEPT ![Candidate].mode = n]
         \/ facts' = [facts EXCEPT ![Candidate].extra = n]
  PROVE  /\ World' /\ UNCHANGED <<dir, alone, gone, admitted, obs>>
         /\ call'.at = a /\ call'.op = call.op /\ Posix' = Posix
         /\ Grown(obs.tgt) => Grown(obs.tgt)'
<1>1. World /\ Candidate \in Objects /\ facts \in [Objects -> FactsOf]
  BY DEF EInv, World, Typed, FactsOf, Objects
<1>2. UNCHANGED <<dir, links, obs, bound, admitted, alone, foreign, taken, gone>>
  BY DEF rest
<1>3. /\ facts' \in [Objects -> FactsOf]
      /\ \A p \in Objects : facts'[p].data = facts[p].data /\ facts'[p].moves = facts[p].moves
  BY <1>1 DEF FactsOf
<1>4. /\ call'.at = a /\ call'.op = call.op /\ call'.platform = call.platform
      /\ Posix' = Posix /\ DOMAIN call' = DOMAIN call
  BY <1>1, GotoSays
<1>5. Steps
  BY <1>1, <1>2, <1>4, WorldSees DEF Steps
<1>6. \A n1 \in Names : Used(dir[n1])'
  BY <1>1, <1>2, <1>3 DEF World, Used, Objects
<1>7. World'
  BY <1>1, <1>2, <1>3, <1>5, <1>6, StepWorld DEF World, Typed, Apart
<1>8. ASSUME Grown(obs.tgt) PROVE Grown(obs.tgt)'
  <2> SUFFICES ASSUME obs.tgt # NoStat PROVE obs.tgt.data <= facts'[obs.tgt.obj].data /\ Used(obs.tgt.obj)'
    BY <1>2 DEF Grown
  <2>1. obs.tgt.obj \in Objects
    BY <1>1 DEF World, Typed, Known
  <2> QED BY <1>3, <1>8, <2>1 DEF Grown, Used
<1> QED BY <1>2, <1>4, <1>7, <1>8

LEMMA PosixPrepareKeeps ==
  ASSUME EInv, UNCHANGED draft,
         \/ ReplaceOpen \/ ReplaceCapture \/ ReplaceCopyMode \/ ReplaceRecheck
         \/ ReplaceCopyExtra \/ ReplaceFlush \/ ReplaceVerify
  PROVE  EInv'
<1>0. /\ World /\ Posix /\ call.op = "replace" /\ call.op \notin Saves
      /\ call.at \in (Preparing \ {"exchange"}) \cup {"start"}
  BY DEF EInv, ReplaceOpen, ReplaceCapture, ReplaceCopyMode, ReplaceRecheck, ReplaceCopyExtra,
         ReplaceFlush, ReplaceVerify, At, Posix, Preparing, Saves
<1>1. /\ Typed /\ Sees(obs) /\ "target" \in Names /\ Candidate \in Objects
      /\ Untouched /\ dir["other"] = Candidate /\ PosixReplaces
  BY <1>0, WorldSees DEF World, Names, EInv, PosixReplaces, Admissions, Preparing, Objects
<1>2. call.at # "start" => Grown(obs.tgt) /\ OfAdmitted(obs.tgt) /\ Linked(obs.tgt)
  BY <1>0, <1>1 DEF PosixReplaces, Preparing
<1>3. call.at \notin {"start", "capture"} => obs.meta = admitted.meta /\ obs.tgt.mode = admitted.meta.mode
  BY <1>0, <1>1 DEF PosixReplaces, Preparing
<1>4. ASSUME NEW r, r # "ok", Answer(r)
      PROVE  EInv'
  BY <1>0, <1>1, <1>4, RefuseKeeps
<1>5. CASE ReplaceOpen
  <2>1. CASE Answer("TargetChanged")
    BY <1>4, <2>1
  <2>2. CASE ~ Answer("TargetChanged")
    <3>1. /\ IdentityMatches(Look("target"), admitted.id) /\ dir["target"] # Absent
          /\ obs' = [obs EXCEPT !.tgt = Look("target")] /\ Goto("capture") /\ UNCHANGED still
      BY <1>5, <2>2 DEF ReplaceOpen
    <3>2. obs'.tgt = Look("target") /\ Sees(obs')
      BY <1>1, <3>1, LookSays DEF Sees, NoObs
    <3>3. /\ World' /\ UNCHANGED <<dir, facts, alone, admitted, gone>>
          /\ call'.at = "capture" /\ call'.op = call.op /\ Posix' = Posix
      BY <1>0, <3>1, <3>2, LookWorld
    <3>4. Look("target") # NoStat /\ Look("target").obj = dir["target"] /\ dir["target"] \in Objects
          /\ Look("target").data = facts[dir["target"]].data /\ Twice(Look("target"))
      BY <1>1, <3>1, LookSays
    <3>5. Look("target").obj = admitted.id.obj /\ Look("target").data = admitted.id.data
      BY <3>1, MatchSays
    <3>6. admitted.id # NoStat /\ Twice(admitted.id)
      BY <1>0, <3>1, <3>4, <3>5, NoStatSays DEF World, Verified
    <3>7. Look("target").links = admitted.id.links
      BY <3>1, <3>4, <3>6, MatchLinks
    <3>8. OfAdmitted(obs.tgt)' /\ Linked(obs.tgt)'
      BY <3>2, <3>3, <3>4, <3>5, <3>7 DEF OfAdmitted, Linked
    <3>9. Grown(obs.tgt)'
      <4>1. facts[dir["target"]] \in FactsOf /\ Used(dir["target"])
        BY <1>0, <1>1, <3>4 DEF World, Typed, FactsOf
      <4> QED BY <3>2, <3>3, <3>4, <4>1 DEF Grown, Used, FactsOf
    <3> QED BY <1>0, <3>3, <3>8, <3>9, PreparingKeeps DEF Preparing
  <2> QED BY <2>1, <2>2
<1>6. CASE ReplaceCapture
  <2>1. CASE Answer("MetadataPreservationUnsupported")
    BY <1>4, <2>1
  <2>2. CASE ~ Answer("MetadataPreservationUnsupported")
    <3>1. /\ call.at = "capture" /\ Captured(obs.tgt, obs.tgt.obj) = admitted.meta
          /\ obs' = [obs EXCEPT !.meta = Captured(obs.tgt, obs.tgt.obj)]
          /\ Goto("copy_mode") /\ UNCHANGED still
      BY <1>6, <2>2 DEF ReplaceCapture, At
    <3>2. obs.tgt # NoStat /\ Known(obs.tgt) /\ obs.tgt.mode = admitted.meta.mode
          /\ Captured(obs.tgt, obs.tgt.obj) \in Metas
      BY <1>1, <1>2, <3>1, CapturedSays DEF OfAdmitted, Sees
    <3>3. obs'.tgt = obs.tgt /\ obs'.meta = admitted.meta /\ Sees(obs')
      BY <1>1, <3>1, <3>2 DEF Sees, NoObs
    <3>4. /\ World' /\ UNCHANGED <<dir, facts, alone, admitted, gone>>
          /\ call'.at = "copy_mode" /\ call'.op = call.op /\ Posix' = Posix
      BY <1>0, <3>1, <3>3, LookWorld
    <3>5. OfAdmitted(obs.tgt)' /\ Linked(obs.tgt)' /\ Grown(obs.tgt)'
      BY <1>2, <3>1, <3>3, <3>4 DEF OfAdmitted, Linked, Grown, Used
    <3> QED BY <1>0, <3>2, <3>3, <3>4, <3>5, PreparingKeeps DEF Preparing
  <2> QED BY <2>1, <2>2
<1>7. CASE ReplaceCopyMode
  <2>1. CASE Answer("Storage")
    BY <1>4, <2>1
  <2>2. CASE ~ Answer("Storage")
    <3>1. /\ call.at = "copy_mode" /\ facts' = [facts EXCEPT ![Candidate].mode = obs.tgt.mode]
          /\ Goto("recheck") /\ UNCHANGED <<dir, links, obs, rest, taken, gone>>
      BY <1>7, <2>2 DEF ReplaceCopyMode, At
    <3>2. obs.tgt.mode \in Nat
      BY <1>1, <1>2, <3>1 DEF OfAdmitted, Sees, Known
    <3>3. /\ World' /\ UNCHANGED <<dir, alone, gone, admitted, obs>> /\ Grown(obs.tgt)'
          /\ call'.at = "recheck" /\ call'.op = call.op /\ Posix' = Posix
      BY <1>2, <3>1, <3>2, FillWorld
    <3>4. OfAdmitted(obs.tgt)' /\ Linked(obs.tgt)'
      BY <1>2, <3>1, <3>3 DEF OfAdmitted, Linked
    <3> QED BY <1>0, <1>3, <3>1, <3>3, <3>4, PreparingKeeps DEF Preparing
  <2> QED BY <2>1, <2>2
<1>8. CASE ReplaceCopyExtra
  <2>1. CASE Answer("MetadataPreservationUnsupported") \/ Answer("Storage")
    BY <1>4, <2>1
  <2>2. CASE ~ (Answer("MetadataPreservationUnsupported") \/ Answer("Storage"))
    <3>1. /\ call.at = "copy_extra" /\ facts' = [facts EXCEPT ![Candidate].extra = obs.meta.extra]
          /\ Goto("recheck_again") /\ UNCHANGED <<dir, links, obs, rest, taken, gone>>
      BY <1>8, <2>2 DEF ReplaceCopyExtra, At
    <3>2. obs.meta.extra \in Nat
      BY <1>1 DEF Sees, Metas
    <3>3. /\ World' /\ UNCHANGED <<dir, alone, gone, admitted, obs>> /\ Grown(obs.tgt)'
          /\ call'.at = "recheck_again" /\ call'.op = call.op /\ Posix' = Posix
      BY <1>2, <3>1, <3>2, FillWorld
    <3>4. OfAdmitted(obs.tgt)' /\ Linked(obs.tgt)'
      BY <1>2, <3>1, <3>3 DEF OfAdmitted, Linked
    <3> QED BY <1>0, <1>3, <3>1, <3>3, <3>4, PreparingKeeps DEF Preparing
  <2> QED BY <2>1, <2>2
<1>9. CASE ReplaceRecheck \/ ReplaceFlush
  <2>1. CASE Answer("TargetChanged") \/ Answer("Storage")
    BY <1>4, <2>1
  <2>2. CASE ~ (Answer("TargetChanged") \/ Answer("Storage"))
    <3>1. PICK a \in {"copy_extra", "verify"} :
            call.at # "start" /\ call.at # "capture" /\ Goto(a) /\ UNCHANGED <<obs, still>>
      BY <1>9, <2>2 DEF ReplaceRecheck, ReplaceFlush, At
    <3>2. /\ World' /\ UNCHANGED <<dir, facts, alone, admitted, gone, obs>>
          /\ call'.at = a /\ call'.op = call.op /\ Posix' = Posix
      BY <1>0, <3>1, WaitWorld
    <3>3. OfAdmitted(obs.tgt)' /\ Linked(obs.tgt)' /\ Grown(obs.tgt)'
      BY <1>2, <3>1, <3>2 DEF OfAdmitted, Linked, Grown, Used
    <3> QED BY <1>0, <1>3, <3>1, <3>2, <3>3, PreparingKeeps DEF Preparing
  <2> QED BY <2>1, <2>2
<1>10. CASE ReplaceVerify
  <2>1. CASE Answer("MetadataPreservationUnsupported")
    BY <1>4, <2>1
  <2>2. CASE ~ Answer("MetadataPreservationUnsupported")
    <3>1. /\ call.at = "verify" /\ Captured(Stat(Candidate), Candidate) = obs.meta
          /\ obs' = [obs EXCEPT !.tmp = Stat(Candidate)]
          /\ Goto("exchange") /\ UNCHANGED still
      BY <1>10, <2>2 DEF ReplaceVerify, At
    <3>2. /\ Known(Stat(Candidate)) /\ Stat(Candidate) # NoStat /\ Stat(Candidate).obj = Candidate
          /\ Stat(Candidate).mode = facts[Candidate].mode
      BY <1>1, StatSays
    <3>3. obs'.tgt = obs.tgt /\ obs'.meta = obs.meta /\ obs'.tmp = Stat(Candidate) /\ Sees(obs')
      BY <1>1, <3>1, <3>2 DEF Sees, NoObs
    <3>4. /\ World' /\ UNCHANGED <<dir, facts, alone, admitted, gone>>
          /\ call'.at = "exchange" /\ call'.op = call.op /\ Posix' = Posix
      BY <1>0, <3>1, <3>3, LookWorld
    <3>5. OfAdmitted(obs.tgt)' /\ Linked(obs.tgt)' /\ Grown(obs.tgt)'
      BY <1>2, <3>1, <3>3, <3>4 DEF OfAdmitted, Linked, Grown, Used
    <3>6. CandidateIs(admitted.meta)
      BY <1>3, <3>1, <3>2 DEF CandidateIs, Captured
    <3>7. CandidateIs(admitted.meta)'
      BY <3>4, <3>6 DEF CandidateIs
    <3> QED BY <1>0, <1>3, <3>1, <3>2, <3>3, <3>4, <3>5, <3>7, PreparingKeeps DEF Preparing
  <2> QED BY <2>1, <2>2
<1> QED BY <1>5, <1>6, <1>7, <1>8, <1>9, <1>10

\* The names of the two files change places.
LEMMA ExchangedSays ==
  ASSUME World, Apart, Exchanged, dir["target"] # Absent, dir["other"] # Absent
  PROVE  /\ dir' \in [Names -> Objects \cup {Absent}]
         /\ dir'["target"] = dir["other"] /\ dir'["other"] = dir["target"] /\ dir'["aside"] = dir["aside"]
         /\ dir["target"] \in Objects /\ dir["other"] \in Objects /\ dir["target"] # dir["other"]
         /\ facts' \in [Objects -> FactsOf]
         /\ \A p \in Objects :
              /\ facts'[p].data = facts[p].data /\ facts'[p].mode = facts[p].mode
              /\ facts'[p].extra = facts[p].extra /\ facts'[p].auto = facts[p].auto
         /\ \A n \in Names : Used(dir[n])'
         /\ Apart'
<1>1. /\ dir \in [Names -> Objects \cup {Absent}] /\ facts \in [Objects -> FactsOf]
      /\ dir["target"] \in Objects /\ dir["other"] \in Objects
      /\ "target" \in Names /\ "other" \in Names /\ "aside" \in Names
  BY DEF World, Typed, FactsOf, Names
<1>2. /\ dir' = [dir EXCEPT !["target"] = dir["other"], !["other"] = dir["target"]]
      /\ facts' = Moved(Moved(facts, dir["target"]), dir["other"])
  BY DEF Exchanged
<1>3. /\ dir' \in [Names -> Objects \cup {Absent}]
      /\ dir'["target"] = dir["other"] /\ dir'["other"] = dir["target"] /\ dir'["aside"] = dir["aside"]
  BY <1>1, <1>2
<1>4. /\ Moved(facts, dir["target"]) \in [Objects -> FactsOf]
      /\ \A p \in Objects :
           /\ Moved(facts, dir["target"])[p].data = facts[p].data
           /\ Moved(facts, dir["target"])[p].mode = facts[p].mode
           /\ Moved(facts, dir["target"])[p].extra = facts[p].extra
           /\ Moved(facts, dir["target"])[p].auto = facts[p].auto
           /\ Moved(facts, dir["target"])[p].moves >= facts[p].moves
           /\ Moved(facts, dir["target"])[p].moves \in Nat /\ facts[p].moves \in Nat
  BY <1>1, MovedSays DEF FactsOf
<1>5. /\ facts' \in [Objects -> FactsOf]
      /\ \A p \in Objects :
           /\ facts'[p].data = facts[p].data /\ facts'[p].mode = facts[p].mode
           /\ facts'[p].extra = facts[p].extra /\ facts'[p].auto = facts[p].auto
           /\ facts'[p].moves >= Moved(facts, dir["target"])[p].moves /\ facts'[p].moves \in Nat
  BY <1>1, <1>2, <1>4, MovedSays
<1>6. \A p \in Objects : facts'[p].moves >= facts[p].moves
  BY <1>4, <1>5
<1>7. \A n \in Names : \E m \in Names : dir'[n] \in {dir[m], Absent}
  BY <1>1, <1>3 DEF Names
<1>8. \A n \in Names : Used(dir[n])'
  BY <1>3, <1>5, <1>6, <1>7, StillUsed
<1>9. dir["target"] # dir["other"]
  BY <1>1 DEF Apart
<1>10. Apart'
  BY <1>3 DEF Apart, Names
<1> QED BY <1>1, <1>3, <1>5, <1>8, <1>9, <1>10

LEMMA ExchangedWorld ==
  ASSUME World, Apart, Exchanged, dir["target"] # Absent, dir["other"] # Absent,
         NEW a, Goto(a), UNCHANGED <<links, obs, rest, gone>>, DOMAIN taken' = DOMAIN taken
  PROVE  /\ World' /\ UNCHANGED <<links, obs, alone, admitted, gone>>
         /\ call'.at = a /\ call'.op = call.op /\ Posix' = Posix
<1>1. UNCHANGED <<links, obs, bound, alone, admitted, foreign, gone>>
  BY DEF rest
<1>2. /\ call'.at = a /\ call'.op = call.op /\ Posix' = Posix /\ Steps
  BY <1>1, GotoSays, WorldSees DEF Steps
<1>3. gone' \subseteq Objects
  BY <1>1 DEF World, Typed
<1> QED BY <1>1, <1>2, <1>3, ExchangedSays, StepWorld

LEMMA ReplaceExchangeKeeps ==
  ASSUME EInv, UNCHANGED draft, ReplaceExchange
  PROVE  EInv'
<1>0. /\ World /\ Posix /\ call.op = "replace" /\ call.op \notin Saves /\ call.at = "exchange" /\ Apart
      /\ Typed /\ "target" \in Names /\ "other" \in Names /\ PosixReplaces
  BY DEF EInv, ReplaceExchange, At, Posix, Saves, World, Names
<1>1. /\ Untouched /\ dir["other"] = Candidate /\ Grown(obs.tgt) /\ OfAdmitted(obs.tgt) /\ Linked(obs.tgt)
      /\ obs.meta = admitted.meta /\ obs.tgt.mode = admitted.meta.mode
      /\ obs.tmp # NoStat /\ obs.tmp.obj = Candidate /\ CandidateIs(admitted.meta)
  BY <1>0 DEF PosixReplaces
<1>2. CASE \E r \in {"Unsupported", "Storage"} : Answer(r)
  BY <1>0, <1>1, <1>2, RefuseKeeps
<1>3. CASE ~ \E r \in {"Unsupported", "Storage"} : Answer(r)
  <2>1. /\ dir["target"] # Absent /\ dir["other"] # Absent /\ Exchanged
        /\ taken' = [old |-> Look("target"), new |-> Stat(Candidate), extra |-> facts[Candidate].extra]
        /\ Goto("observe") /\ UNCHANGED <<links, obs, rest, gone>>
    BY <1>1, <1>3 DEF ReplaceExchange
  <2>2. /\ taken'.old = Look("target") /\ taken'.new = Stat(Candidate)
        /\ taken'.extra = facts[Candidate].extra /\ DOMAIN taken' = DOMAIN taken
    BY <1>0, <2>1 DEF Typed
  <2>3. /\ World' /\ UNCHANGED <<links, obs, alone, admitted, gone>>
        /\ call'.at = "observe" /\ call'.op = call.op /\ Posix' = Posix
    BY <1>0, <2>1, <2>2, ExchangedWorld
  <2>4. /\ dir'["target"] = Candidate /\ dir'["other"] = dir["target"] /\ dir'["aside"] = dir["aside"]
        /\ dir["target"] \in Objects \ {Candidate}
        /\ facts' \in [Objects -> FactsOf]
        /\ \A p \in Objects :
              /\ facts'[p].data = facts[p].data /\ facts'[p].mode = facts[p].mode
              /\ facts'[p].extra = facts[p].extra /\ facts'[p].auto = facts[p].auto
    BY <1>0, <1>1, <2>1, ExchangedSays
  <2>5. Candidate \in Objects
    BY DEF Objects
  <2>6. NewTaken'
    BY <1>1, <2>2, <2>3, <2>4, <2>5, <1>0, StatSays DEF NewTaken, CandidateIs
  <2>7. /\ alone["other"] = Candidate /\ alone["aside"] = dir["aside"]
        /\ alone["target"] = dir["target"] /\ gone = {}
    BY <1>1 DEF Untouched
  <2>8. Displaced(dir["other"])'
    BY <2>3, <2>4, <2>7 DEF Displaced
  <2>9. /\ Look("target") # NoStat /\ Look("target").obj = dir["target"] /\ Known(Look("target"))
        /\ Look("target").data = facts[dir["target"]].data
        /\ Look("target").mode = facts[dir["target"]].mode
        /\ Look("target").links = 1 + links[dir["target"]]
    BY <1>0, <2>1, LookSays, OneName
  <2>10. dir["target"] = obs.tgt.obj => obs.tgt.data <= facts[dir["target"]].data
    BY <1>1 DEF Grown, OfAdmitted
  <2>11. facts[dir["target"]].data \in Nat
    <3>1. facts[dir["target"]] \in FactsOf
      BY <1>0, <2>4 DEF Typed, FactsOf
    <3> QED BY <3>1 DEF FactsOf
  <2>12. MovedTo("other")'
    BY <2>2, <2>3, <2>4, <2>9, <2>10, <2>11 DEF MovedTo, Known
  <2>13. /\ OfAdmitted(obs.tgt)' /\ Linked(obs.tgt)' /\ obs'.meta = admitted'.meta
         /\ obs'.tgt.mode = admitted'.meta.mode /\ obs'.tmp # NoStat /\ obs'.tmp.obj = Candidate
    BY <1>1, <2>3 DEF OfAdmitted, Linked
  <2>14. PosixReplaces'
    BY <2>3, <2>4, <2>6, <2>7, <2>8, <2>12, <2>13 DEF PosixReplaces, Admissions
  <2> QED BY <1>0, <2>3, <2>14, PosixReplaceOnly DEF Admissions
<1> QED BY <1>2, <1>3

\* What was displaced is the admitted file, when the stat of it says so.
LEMMA PublishedIsAdmitted ==
  ASSUME World, Apart, MovedTo("other"), OfAdmitted(obs.tgt), Linked(obs.tgt),
         SamePublished(obs.tgt, Look("other"))
  PROVE  /\ OfAdmitted(taken.old) /\ Linked(taken.old) /\ taken.old.mode = obs.tgt.mode
         /\ dir["other"] = admitted.id.obj
<1>1. Typed /\ "other" \in Names /\ dir["other"] # Absent
  BY EntryAssumption DEF World, Names, MovedTo
<1>2. /\ Look("other").obj = dir["other"] /\ Look("other").data = facts[dir["other"]].data
      /\ Look("other").mode = facts[dir["other"]].mode
      /\ Look("other").links = 1 + links[dir["other"]]
  BY <1>1, LookSays, OneName
<1>3. /\ obs.tgt.obj = Look("other").obj /\ obs.tgt.data = Look("other").data
      /\ obs.tgt.links = Look("other").links /\ obs.tgt.mode = Look("other").mode
  BY DEF SamePublished, SameObject
<1>4. taken.old.obj = obs.tgt.obj /\ obs.tgt.data <= taken.old.data
      /\ taken.old.data <= facts[dir["other"]].data
  BY <1>2, <1>3 DEF MovedTo
<1>5. taken.old.data \in Nat /\ obs.tgt.data \in Nat
  BY <1>1 DEF MovedTo, OfAdmitted, Typed, Known
<1>6. taken.old.data = obs.tgt.data
  BY <1>2, <1>3, <1>4, <1>5
<1> QED BY <1>2, <1>3, <1>4, <1>6 DEF OfAdmitted, Linked, MovedTo

LEMMA ReplaceObserveKeeps ==
  ASSUME EInv, UNCHANGED draft, ReplaceObserve
  PROVE  EInv'
<1>0. /\ World /\ Posix /\ call.op = "replace" /\ call.op \notin Saves /\ call.at = "observe" /\ Apart
      /\ Typed /\ Sees(obs) /\ "target" \in Names /\ "other" \in Names /\ PosixReplaces
  BY WorldSees DEF EInv, ReplaceObserve, At, Posix, Saves, World, Names
<1>1. /\ OfAdmitted(obs.tgt) /\ Linked(obs.tgt) /\ obs.meta = admitted.meta
      /\ obs.tgt.mode = admitted.meta.mode /\ obs.tmp # NoStat /\ obs.tmp.obj = Candidate
      /\ NewTaken /\ gone = {} /\ Displaced(dir["other"]) /\ dir["other"] \in Objects \ {Candidate}
      /\ alone["other"] = Candidate /\ alone["aside"] = dir["aside"] /\ MovedTo("other")
  BY <1>0 DEF PosixReplaces
<1>2. PICK d \in {Look("other"), NoStat}, p \in {Look("target"), NoStat} :
        /\ obs' = [obs EXCEPT !.moved = d, !.pub = p]
        /\ Goto(IF SamePublished(obs.tmp, p) /\ SamePublished(obs.tgt, d)
                THEN "handles" ELSE "roll_back")
        /\ UNCHANGED still
  BY DEF ReplaceObserve
<1>3. Known(d) /\ Known(p) /\ (d # NoStat => d = Look("other") /\ d.obj = dir["other"])
  BY <1>0, LookSays, NoStatSays
<1>4. /\ obs'.tgt = obs.tgt /\ obs'.tmp = obs.tmp /\ obs'.meta = obs.meta /\ obs'.moved = d /\ Sees(obs')
  BY <1>0, <1>2, <1>3 DEF Sees, NoObs
<1>5. PICK a \in {"handles", "roll_back"} :
        Goto(a) /\ (a = "handles" => SamePublished(obs.tgt, d))
  BY <1>2
<1>6. /\ World' /\ UNCHANGED <<dir, facts, links, alone, admitted, taken, gone>>
      /\ call'.at = a /\ call'.op = call.op /\ Posix' = Posix
  BY <1>0, <1>2, <1>4, <1>5, LookWorld
<1>7. a = "handles" => /\ OfAdmitted(taken.old) /\ Linked(taken.old)
                       /\ taken.old.mode = admitted.meta.mode /\ dir["other"] = admitted.id.obj
  <2>1. a = "handles" => d # NoStat
    BY <1>5, NoStatSays DEF SamePublished, SameObject
  <2> QED BY <1>0, <1>1, <1>3, <1>5, <2>1, PublishedIsAdmitted
<1>8. /\ OfAdmitted(obs.tgt)' /\ Linked(obs.tgt)' /\ NewTaken' /\ Displaced(dir["other"])'
  BY <1>1, <1>4, <1>6 DEF OfAdmitted, Linked, NewTaken, Displaced
<1>9. a = "handles" => OfAdmitted(taken.old)' /\ Linked(taken.old)'
  BY <1>6, <1>7 DEF OfAdmitted, Linked
<1>10. PosixReplaces'
  BY <1>1, <1>3, <1>4, <1>5, <1>6, <1>7, <1>8, <1>9 DEF PosixReplaces, Admissions
<1> QED BY <1>0, <1>5, <1>6, <1>10, PosixReplaceOnly DEF Admissions

LEMMA ReplaceRollBackKeeps ==
  ASSUME EInv, UNCHANGED draft, ReplaceRollBack
  PROVE  EInv'
<1>0. /\ World /\ Posix /\ call.op = "replace" /\ call.op \notin Saves /\ call.at = "roll_back" /\ Apart
      /\ PosixReplaces
  BY DEF EInv, ReplaceRollBack, At, Posix, Saves, World
<1>1. /\ gone = {} /\ Displaced(dir["other"]) /\ dir["other"] \in Objects \ {Candidate}
      /\ alone["other"] = Candidate /\ alone["aside"] = dir["aside"]
  BY <1>0 DEF PosixReplaces
<1>2. CASE Answer("Unknown")
  <2>1. gone' = {}
    BY <1>0, <1>1, <1>2, AnswerWorld
  <2>2. NoneLost'
    BY <2>1 DEF NoneLost
  <2> QED BY <1>0, <1>2, <2>2, UnknownKeeps
<1>3. CASE ~ Answer("Unknown")
  <2>1. /\ SameObject(obs.pub, obs.tmp) /\ obs.moved # NoStat
        /\ dir["target"] # Absent /\ dir["other"] # Absent /\ Exchanged
        /\ Goto("rolled_back") /\ UNCHANGED <<links, obs, rest, taken, gone>>
    BY <1>3 DEF ReplaceRollBack
  <2>2. /\ World' /\ UNCHANGED <<links, obs, alone, admitted, gone>>
        /\ call'.at = "rolled_back" /\ call'.op = call.op /\ Posix' = Posix
    BY <1>0, <2>1, ExchangedWorld
  <2>3. dir'["target"] = dir["other"] /\ dir'["other"] = dir["target"] /\ dir'["aside"] = dir["aside"]
    BY <1>0, <2>1, ExchangedSays
  <2>4. obs.tmp # NoStat /\ obs.tmp.obj = Candidate
    BY <1>0, <2>1 DEF PosixReplaces
  <2>5. dir'["other"] = Candidate => dir'["target"] = alone["target"]
    BY <1>1, <2>3 DEF Displaced
  <2>6. PosixReplaces'
    BY <1>1, <2>2, <2>3, <2>4, <2>5 DEF PosixReplaces, Admissions
  <2> QED BY <1>0, <2>1, <2>2, <2>6, PosixReplaceOnly DEF Admissions
<1> QED BY <1>2, <1>3

LEMMA ReplaceRolledBackKeeps ==
  ASSUME EInv, UNCHANGED draft, ReplaceRolledBack
  PROVE  EInv'
<1>0. /\ World /\ Posix /\ call.op = "replace" /\ call.op \notin Saves /\ call.at = "rolled_back"
      /\ PosixReplaces /\ Typed /\ "other" \in Names
  BY DEF EInv, ReplaceRolledBack, At, Posix, Saves, World, Names
<1>1. /\ gone = {} /\ alone["other"] = Candidate /\ alone["aside"] = dir["aside"]
      /\ obs.tmp # NoStat /\ obs.tmp.obj = Candidate
      /\ dir["other"] = Candidate => dir["target"] = alone["target"]
  BY <1>0 DEF PosixReplaces
<1>2. PICK r : Answer(r) /\ r # "ok"
               /\ (r = "Unknown" \/ SameObject(obs.tmp, Look("other")))
  BY DEF ReplaceRolledBack
<1>3. /\ World' /\ UNCHANGED <<dir, facts, links, alone, admitted, taken, gone>>
      /\ call'.at = "done" /\ call'.op = call.op /\ call'.result = r /\ Posix' = Posix
  BY <1>0, <1>2, AnswerWorld
<1>4. NoneLost'
  BY <1>1, <1>3 DEF NoneLost
<1>5. Committed' /\ MetadataKept'
  BY <1>2, <1>3 DEF Committed, MetadataKept, Succeeded
<1>6. RefusalChangesNothing'
  <2>1. CASE r = "Unknown"
    BY <1>3, <2>1 DEF RefusalChangesNothing, Refused
  <2>2. CASE r # "Unknown"
    <3>1. dir["other"] = Candidate
      BY <1>0, <1>1, <1>2, <2>2, LookSays DEF SameObject
    <3> QED BY <1>1, <1>3, <3>1 DEF RefusalChangesNothing
  <2> QED BY <2>1, <2>2
<1> QED BY <1>0, <1>3, <1>4, <1>5, <1>6, EndKeeps DEF Ended

LEMMA ReplaceHandlesKeeps ==
  ASSUME EInv, UNCHANGED draft, ReplaceHandles
  PROVE  EInv'
<1>0. /\ World /\ Posix /\ call.op = "replace" /\ call.op \notin Saves /\ call.at = "handles"
      /\ PosixReplaces
  BY DEF EInv, ReplaceHandles, At, Posix, Saves
<1>1. /\ gone = {} /\ Displaced(dir["other"]) /\ dir["other"] \in Objects \ {Candidate}
      /\ alone["other"] = Candidate /\ alone["aside"] = dir["aside"]
      /\ OfAdmitted(obs.tgt) /\ Linked(obs.tgt) /\ obs.meta = admitted.meta
      /\ obs.tgt.mode = admitted.meta.mode /\ NewTaken
      /\ OfAdmitted(taken.old) /\ Linked(taken.old) /\ taken.old.mode = admitted.meta.mode
      /\ dir["other"] = admitted.id.obj
  BY <1>0 DEF PosixReplaces
<1>2. CASE Answer("Unknown")
  <2>1. gone' = {}
    BY <1>0, <1>1, <1>2, AnswerWorld
  <2>2. NoneLost'
    BY <2>1 DEF NoneLost
  <2> QED BY <1>0, <1>2, <2>2, UnknownKeeps
<1>3. CASE ~ Answer("Unknown")
  <2>1. Goto("unlink") /\ UNCHANGED <<obs, still>>
    BY <1>3 DEF ReplaceHandles
  <2>2. /\ World' /\ UNCHANGED <<dir, facts, links, alone, admitted, taken, gone, obs>>
        /\ call'.at = "unlink" /\ call'.op = call.op /\ Posix' = Posix
    BY <1>0, <2>1, WaitWorld
  <2>3. PosixReplaces'
    BY <1>1, <2>2 DEF PosixReplaces, Admissions, OfAdmitted, Linked, NewTaken, Displaced
  <2> QED BY <1>0, <2>1, <2>2, <2>3, PosixReplaceOnly DEF Admissions
<1> QED BY <1>2, <1>3

\* A name is removed, and with it at most the file under it.
LEMMA UnlinkedSays ==
  ASSUME World, NEW n \in Names, Unlinked(n)
  PROVE  /\ dir' \in [Names -> Objects \cup {Absent}] /\ dir'[n] = Absent
         /\ \A m \in Names : m # n => dir'[m] = dir[m]
         /\ gone' \subseteq Objects /\ (gone' = gone \/ (dir[n] \in Objects /\ gone' = gone \cup {dir[n]}))
         /\ Apart => Apart'
         /\ UNCHANGED facts => \A m \in Names : Used(dir[m])'
<1>1. dir \in [Names -> Objects \cup {Absent}] /\ gone \subseteq Objects
      /\ facts \in [Objects -> FactsOf]
  BY DEF World, Typed, FactsOf
<1>2. dir' \in [Names -> Objects \cup {Absent}] /\ dir'[n] = Absent
      /\ \A m \in Names : m # n => dir'[m] = dir[m]
  BY <1>1 DEF Unlinked
<1>3. gone' \subseteq Objects /\ (gone' = gone \/ (dir[n] \in Objects /\ gone' = gone \cup {dir[n]}))
  <2>1. gone' = gone \/ (dir[n] # Absent /\ gone' = gone \cup {dir[n]})
    BY DEF Unlinked
  <2>2. dir[n] # Absent => dir[n] \in Objects
    BY <1>1
  <2>3. gone' = gone \/ (dir[n] \in Objects /\ gone' = gone \cup {dir[n]})
    BY <2>1, <2>2
  <2>4. gone' \subseteq Objects
    BY <1>1, <2>3
  <2> QED BY <2>3, <2>4
<1>4. ASSUME UNCHANGED facts PROVE \A m \in Names : Used(dir[m])'
  <2>1. \A m \in Names : dir'[m] = Absent \/ dir'[m] = dir[m]
    BY <1>2
  <2>2. \A m \in Names : dir'[m] \in Foreign => facts'[dir'[m]].moves > 0
    BY <1>4, <2>1, EntryAssumption DEF World, Used, Objects
  <2> QED BY <2>2 DEF Used
<1>5. Apart => Apart'
  BY <1>2 DEF Apart
<1> QED BY <1>2, <1>3, <1>4, <1>5

\* The call's last system call removes a name.
LEMMA UnlinkedWorld ==
  ASSUME World, NEW n \in Names, Unlinked(n), UNCHANGED <<facts, links, rest>>,
         DOMAIN taken' = DOMAIN taken, Steps, Posix' = Posix
  PROVE  World' /\ UNCHANGED <<alone, admitted>>
<1>1. UNCHANGED <<facts, links, bound, alone, admitted, foreign>>
  BY DEF rest
<1>2. facts' \in [Objects -> FactsOf]
  BY <1>1 DEF World, Typed, FactsOf
<1> QED BY <1>1, <1>2, UnlinkedSays, StepWorld DEF World

LEMMA ReplaceUnlinkKeeps ==
  ASSUME EInv, UNCHANGED draft, ReplaceUnlink
  PROVE  EInv'
<1>0. /\ World /\ Posix /\ call.op = "replace" /\ call.op \notin Saves /\ call.at = "unlink"
      /\ PosixReplaces /\ "other" \in Names
  BY DEF EInv, ReplaceUnlink, At, Posix, Saves, Names
<1>1. /\ gone = {} /\ NewTaken /\ OfAdmitted(taken.old) /\ Linked(taken.old)
      /\ taken.old.mode = admitted.meta.mode /\ dir["other"] = admitted.id.obj
  BY <1>0 DEF PosixReplaces
<1>2. CASE Answer("Unknown")
  <2>1. gone' = {}
    BY <1>0, <1>1, <1>2, AnswerWorld
  <2>2. NoneLost'
    BY <2>1 DEF NoneLost
  <2> QED BY <1>0, <1>2, <2>2, UnknownKeeps
<1>3. CASE ~ Answer("Unknown")
  <2>1. Unlinked("other") /\ Return("ok") /\ UNCHANGED <<facts, links, rest, taken>>
    BY <1>3 DEF ReplaceUnlink
  <2>2. /\ call'.at = "done" /\ call'.op = call.op /\ call'.result = "ok" /\ Posix' = Posix /\ Steps
    BY <1>0, <2>1, ReturnSays DEF Steps
  <2>3. World' /\ UNCHANGED <<facts, alone, admitted, taken>>
    BY <1>0, <2>1, <2>2, UnlinkedWorld
  <2>4. gone' \subseteq {admitted.id.obj}
    BY <1>0, <1>1, <2>1, UnlinkedSays
  <2>5. NoneLost'
    BY <1>0, <2>2, <2>3, <2>4 DEF NoneLost, Removable
  <2>6. RefusalChangesNothing'
    BY <2>2 DEF RefusalChangesNothing, Refused
  <2>7. Committed'
    BY <1>0, <1>1, <2>2, <2>3 DEF Committed, OfAdmitted, Linked, Saves
  <2>8. MetadataKept'
    BY <1>1, <2>3 DEF MetadataKept, NewTaken
  <2> QED BY <1>0, <2>2, <2>3, <2>5, <2>6, <2>7, <2>8, EndKeeps DEF Ended
<1> QED BY <1>2, <1>3

LEMMA PosixReplaceKeeps ==
  ASSUME EInv, UNCHANGED draft, PosixReplace
  PROVE  EInv'
BY PosixPrepareKeeps, ReplaceExchangeKeeps, ReplaceObserveKeeps, ReplaceRollBackKeeps,
   ReplaceRolledBackKeeps, ReplaceHandlesKeeps, ReplaceUnlinkKeeps DEF PosixReplace
-------------------------------------------------------------------------------
(* A verified replacement on Windows.                                            *)

LEMMA WindowsReplaceOnly ==
  ASSUME EInv, World', ~ Posix, Posix' = Posix, call.op = "replace", call'.op = call.op,
         call'.at \notin Admissions \cup {"done"}, UNCHANGED draft, WindowsReplaces'
  PROVE  EInv'
<1>1. PosixReplaces' /\ Moves' /\ Deletes' /\ Opens' /\ Plains' /\ SaveInv'
  BY DEF PosixReplaces, Moves, Deletes, Opens, Plains, SaveInv, Stage, Saves
<1>2. BaseInv'
  BY DEF EInv, BaseInv
<1>3. Admission'
  BY DEF Admission, Admissions
<1> QED BY <1>1, <1>2, <1>3 DEF EInv

\* The paths are looked at once more, before anything is done.
LEMMA WinStartKeeps ==
  ASSUME EInv, UNCHANGED draft, NEW o \in {"replace", "rename", "delete"}, WinStart(o)
  PROVE  EInv'
<1>0. /\ World /\ ~ Posix /\ call.op = o /\ call.op \notin Saves /\ call.at = "start" /\ Untouched
      /\ Typed /\ Sees(obs) /\ "target" \in Names /\ "other" \in Names
  BY WorldSees DEF EInv, WinStart, At, Posix, Saves, World, Names, Admission, Verified, Admissions
<1>1. CASE Answer("Storage")
  BY <1>0, <1>1, RefuseKeeps
<1>2. CASE ~ Answer("Storage")
  <2>1. /\ obs' = [obs EXCEPT !.tgt = Seen("target"), !.meta = SeenMeta("target"), !.tmp = Seen("other")]
        /\ Goto("match") /\ UNCHANGED still
    BY <1>2 DEF WinStart
  <2>2. obs'.tgt = Seen("target") /\ obs'.tmp = Seen("other") /\ Sees(obs')
    BY <1>0, <2>1, SeenSays DEF Sees, NoObs
  <2>3. /\ World' /\ UNCHANGED <<dir, facts, links, alone, admitted, taken, gone>>
        /\ call'.at = "match" /\ call'.op = call.op /\ Posix' = Posix
    BY <1>0, <2>1, <2>2, LookWorld
  <2>4. Grown(obs.tgt)'
    <3> SUFFICES ASSUME Seen("target") # NoStat
                 PROVE  Seen("target").data <= facts[Seen("target").obj].data /\ Used(Seen("target").obj)
      BY <2>2, <2>3 DEF Grown, Used
    <3>1. /\ Seen("target").obj = dir["target"] /\ dir["target"] \in Objects
          /\ Seen("target").data = facts[dir["target"]].data
      BY <1>0, SeenSays
    <3>2. facts[dir["target"]] \in FactsOf /\ Used(dir["target"])
      BY <1>0, <3>1 DEF World, Typed, FactsOf
    <3> QED BY <3>1, <3>2 DEF FactsOf
  <2>5. Untouched' /\ Admission'
    BY <1>0, <2>3 DEF Untouched, Admission
  <2>6. WindowsReplaces'
    <3> SUFFICES ASSUME call.op = "replace" PROVE WindowsReplaces'
      BY <2>3 DEF WindowsReplaces
    <3>1. dir["other"] = Candidate
      BY <1>0 DEF EInv, WindowsReplaces, Admissions
    <3>2. Seen("other") # NoStat => Seen("other").obj = Candidate
      BY <1>0, <3>1, SeenSays
    <3> QED BY <2>2, <2>3, <2>4, <2>5, <3>1, <3>2 DEF WindowsReplaces, Admissions
  <2>7. Moves' /\ Deletes'
    BY <2>3, <2>4, <2>5 DEF Moves, Deletes, OnlyAdmitted, Admissions, Untouched
  <2>8. PosixReplaces' /\ Opens' /\ Plains' /\ SaveInv'
    BY <1>0, <2>3 DEF PosixReplaces, Opens, Plains, SaveInv, Stage
  <2>9. BaseInv'
    BY <1>0, <2>3 DEF EInv, BaseInv
  <2> QED BY <2>3, <2>5, <2>6, <2>7, <2>8, <2>9 DEF EInv
<1> QED BY <1>1, <1>2

\* A call that did nothing and does not say otherwise.
LEMMA UntouchedEnds ==
  ASSUME call'.at = "done", call'.result # "ok", Untouched'
  PROVE  Ended'
<1>1. dir' = alone' /\ gone' = {}
  BY DEF Untouched
<1>2. NoneLost' /\ RefusalChangesNothing'
  BY <1>1 DEF NoneLost, RefusalChangesNothing
<1> QED BY <1>2 DEF Ended, Committed, MetadataKept, Succeeded

\* A file that still has the bytes it was admitted with.
LEMMA SqueezedIsAdmitted ==
  ASSUME World, NEW s, Known(s), s # NoStat, Grown(obs.tgt), obs.tgt # NoStat,
         obs.tgt.obj = admitted.id.obj, obs.tgt.data <= admitted.id.data,
         admitted.id.data <= facts[obs.tgt.obj].data, SameFile(s, obs.tgt),
         s.data = facts[s.obj].data
  PROVE  OfAdmitted(obs.tgt)
<1>1. s.obj = obs.tgt.obj /\ s.data = obs.tgt.data
  BY DEF SameFile, SameObject
<1>2. Known(admitted.id) /\ Known(obs.tgt)
  BY DEF World, Typed
<1>3. admitted.id # NoStat
  BY <1>2, KnownSays
<1>4. admitted.id.data \in Nat /\ obs.tgt.data \in Nat
  BY <1>2, <1>3 DEF Known
<1>5. admitted.id.data <= obs.tgt.data
  BY <1>1
<1> QED BY <1>4, <1>5 DEF OfAdmitted

LEMMA WinReplaceMatchKeeps ==
  ASSUME EInv, UNCHANGED draft, WinReplaceMatch
  PROVE  EInv'
<1>0. /\ World /\ ~ Posix /\ call.op = "replace" /\ call.op \notin Saves /\ call.at = "match"
      /\ WindowsReplaces
  BY DEF EInv, WinReplaceMatch, At, Posix, Saves
<1>1. /\ Untouched /\ dir["other"] = Candidate /\ Grown(obs.tgt)
      /\ obs.tmp # NoStat => obs.tmp.obj = Candidate
  BY <1>0 DEF WindowsReplaces, Admissions
<1>2. CASE Answer("TargetChanged") \/ Answer("MetadataPreservationUnsupported")
  BY <1>0, <1>1, <1>2, RefuseKeeps
<1>3. CASE ~ (Answer("TargetChanged") \/ Answer("MetadataPreservationUnsupported"))
  <2>1. /\ TargetMatches /\ obs.tmp # NoStat /\ obs.meta = admitted.meta
        /\ Goto("prepare") /\ UNCHANGED <<obs, still>>
    BY <1>3 DEF WinReplaceMatch
  <2>2. /\ World' /\ UNCHANGED <<dir, facts, links, alone, admitted, taken, gone, obs>>
        /\ call'.at = "prepare" /\ call'.op = call.op /\ Posix' = Posix
    BY <1>0, <2>1, WaitWorld
  <2>3. obs.tgt # NoStat /\ obs.tgt.obj \in Objects
    BY <1>0, <2>1 DEF TargetMatches, World, Typed, Known
  <2>4. Stat(obs.tgt.obj).obj = obs.tgt.obj /\ Stat(obs.tgt.obj).data = facts[obs.tgt.obj].data
    BY <1>0, <2>3, StatSays DEF World
  <2>5. obs.tgt.obj = admitted.id.obj /\ facts[obs.tgt.obj].data = admitted.id.data
    BY <2>1, <2>4 DEF TargetMatches, SameFile, SameObject
  <2>6. obs.tgt.data <= facts[obs.tgt.obj].data /\ facts[obs.tgt.obj] \in FactsOf
    BY <1>0, <1>1, <2>3 DEF Grown, World, Typed, FactsOf
  <2>7. Grown(obs.tgt)' /\ Untouched'
    BY <1>1, <2>2 DEF Grown, Used, Untouched
  <2>8. WindowsReplaces'
    BY <1>1, <2>1, <2>2, <2>3, <2>5, <2>6, <2>7 DEF WindowsReplaces, Admissions, FactsOf
  <2> QED BY <1>0, <2>2, <2>8, WindowsReplaceOnly DEF Admissions
<1> QED BY <1>2, <1>3

LEMMA WinReplacePrepareKeeps ==
  ASSUME EInv, UNCHANGED draft, WinReplacePrepare
  PROVE  EInv'
<1>0. /\ World /\ ~ Posix /\ call.op = "replace" /\ call.op \notin Saves /\ call.at = "prepare"
      /\ WindowsReplaces
  BY DEF EInv, WinReplacePrepare, At, Posix, Saves
<1>1. /\ Untouched /\ dir["other"] = Candidate /\ Grown(obs.tgt)
      /\ obs.tgt # NoStat /\ obs.tgt.obj = admitted.id.obj
      /\ obs.tgt.data <= admitted.id.data /\ admitted.id.data <= facts[obs.tgt.obj].data
      /\ obs.meta = admitted.meta /\ obs.tmp # NoStat /\ obs.tmp.obj = Candidate
  BY <1>0 DEF WindowsReplaces, Admissions
<1>2. CASE \E r \in {"Storage", "TargetChanged"} : Answer(r)
  BY <1>0, <1>1, <1>2, RefuseKeeps
<1>3. CASE ~ \E r \in {"Storage", "TargetChanged"} : Answer(r)
  <2>1. /\ \/ Return("MetadataPreservationUnsupported")
           \/ Return("TemporaryConflict")
           \/ dir["aside"] = Absent /\ Goto("pin") /\ UNCHANGED obs
        /\ facts' = [facts EXCEPT ![Candidate].mode = obs.meta.mode,
                                  ![Candidate].extra = obs.meta.extra,
                                  ![Candidate].auto = obs.meta.auto]
        /\ UNCHANGED <<dir, links, rest, taken, gone>>
    BY <1>3 DEF WinReplacePrepare
  <2>2. /\ facts \in [Objects -> FactsOf] /\ Candidate \in Objects /\ obs.meta \in Metas
        /\ obs.tgt.obj \in Objects
    BY <1>0, <1>1 DEF World, Typed, FactsOf, Objects, Known
  <2>3. /\ facts' \in [Objects -> FactsOf]
        /\ \A p \in Objects : facts'[p].data = facts[p].data /\ facts'[p].moves = facts[p].moves
        /\ facts'[Candidate].mode = obs.meta.mode /\ facts'[Candidate].extra = obs.meta.extra
        /\ facts'[Candidate].auto = obs.meta.auto
    BY <2>1, <2>2 DEF FactsOf, Metas
  <2>4. UNCHANGED <<dir, links, bound, admitted, alone, foreign, taken, gone>>
    BY <2>1 DEF rest
  <2>5. \A n \in Names : Used(dir[n])'
    BY <1>0, <2>3, <2>4 DEF World, Used, Objects
  <2>6. CASE Return("MetadataPreservationUnsupported") \/ Return("TemporaryConflict")
    <3>1. /\ call'.at = "done" /\ call'.op = call.op /\ call'.result # "ok" /\ Posix' = Posix /\ Steps
      BY <1>0, <2>6, ReturnSays DEF Steps
    <3>2. World'
      BY <1>0, <2>3, <2>4, <2>5, <3>1, StepWorld DEF World, Typed, Apart
    <3>3. Untouched'
      BY <1>1, <2>4 DEF Untouched
    <3> QED BY <1>0, <3>1, <3>2, <3>3, UntouchedEnds, EndKeeps
  <2>7. CASE dir["aside"] = Absent /\ Goto("pin") /\ UNCHANGED obs
    <3>1. /\ call'.at = "pin" /\ call'.op = call.op /\ Posix' = Posix /\ Steps
      BY <1>0, <2>7, GotoSays, WorldSees DEF Steps
    <3>2. World'
      BY <1>0, <2>3, <2>4, <2>5, <3>1, StepWorld DEF World, Typed, Apart
    <3>3. Untouched' /\ CandidateIs(admitted.meta)' /\ Grown(obs.tgt)'
      BY <1>1, <2>2, <2>3, <2>4, <2>7 DEF Untouched, CandidateIs, Grown, Used
    <3>4. obs.tgt.data <= admitted.id.data /\ admitted.id.data <= facts'[obs.tgt.obj].data
      BY <1>1, <2>2, <2>3
    <3>5. WindowsReplaces'
      BY <1>1, <2>4, <2>7, <3>1, <3>3, <3>4 DEF WindowsReplaces, Admissions
    <3> QED BY <1>0, <3>1, <3>2, <3>5, WindowsReplaceOnly DEF Admissions
  <2> QED BY <2>1, <2>6, <2>7
<1> QED BY <1>2, <1>3

LEMMA WinReplacePinKeeps ==
  ASSUME EInv, UNCHANGED draft, WinReplacePin
  PROVE  EInv'
<1>0. /\ World /\ ~ Posix /\ call.op = "replace" /\ call.op \notin Saves /\ call.at = "pin"
      /\ WindowsReplaces /\ Typed /\ "target" \in Names
  BY DEF EInv, WinReplacePin, At, Posix, Saves, World, Names
<1>1. /\ Untouched /\ dir["other"] = Candidate /\ Grown(obs.tgt)
      /\ obs.tgt # NoStat /\ obs.tgt.obj = admitted.id.obj
      /\ obs.tgt.data <= admitted.id.data /\ admitted.id.data <= facts[obs.tgt.obj].data
      /\ obs.meta = admitted.meta /\ obs.tmp # NoStat /\ obs.tmp.obj = Candidate
      /\ CandidateIs(admitted.meta) /\ dir["aside"] = Absent
  BY <1>0 DEF WindowsReplaces, Admissions
<1>2. CASE Answer("TargetChanged")
  BY <1>0, <1>1, <1>2, RefuseKeeps
<1>3. CASE ~ Answer("TargetChanged")
  <2>1. SameFile(Seen("target"), obs.tgt) /\ Goto("exchange") /\ UNCHANGED <<obs, still>>
    BY <1>3 DEF WinReplacePin, CanPin
  <2>2. /\ World' /\ UNCHANGED <<dir, facts, links, alone, admitted, taken, gone, obs>>
        /\ call'.at = "exchange" /\ call'.op = call.op /\ Posix' = Posix
    BY <1>0, <2>1, WaitWorld
  <2>3. Seen("target") # NoStat
    BY <2>1, NoStatSays DEF SameFile, SameObject
  <2>4. Known(Seen("target")) /\ Seen("target").data = facts[Seen("target").obj].data
    BY <1>0, <2>3, SeenSays
  <2>5. OfAdmitted(obs.tgt)
    BY <1>0, <1>1, <2>1, <2>3, <2>4, SqueezedIsAdmitted
  <2>6. Untouched' /\ CandidateIs(admitted.meta)' /\ Grown(obs.tgt)' /\ OfAdmitted(obs.tgt)'
    BY <1>1, <2>2, <2>5 DEF Untouched, CandidateIs, Grown, Used, OfAdmitted
  <2>7. WindowsReplaces'
    BY <1>1, <2>2, <2>6 DEF WindowsReplaces, Admissions
  <2> QED BY <1>0, <2>2, <2>7, WindowsReplaceOnly DEF Admissions
<1> QED BY <1>2, <1>3

LEMMA WinReplaceFileKeeps ==
  ASSUME EInv, UNCHANGED draft, WinReplaceFile
  PROVE  EInv'
<1>0. /\ World /\ ~ Posix /\ call.op = "replace" /\ call.op \notin Saves /\ call.at = "exchange"
      /\ WindowsReplaces /\ Typed /\ Apart /\ "target" \in Names /\ "other" \in Names /\ "aside" \in Names
  BY DEF EInv, WinReplaceFile, At, Posix, Saves, World, Names
<1>1. /\ Untouched /\ dir["other"] = Candidate /\ Grown(obs.tgt) /\ OfAdmitted(obs.tgt)
      /\ obs.meta = admitted.meta /\ obs.tmp # NoStat /\ obs.tmp.obj = Candidate
      /\ CandidateIs(admitted.meta) /\ dir["aside"] = Absent
  BY <1>0 DEF WindowsReplaces, Admissions
<1>2. /\ alone["other"] = Candidate /\ alone["aside"] = Absent /\ alone["target"] = dir["target"]
      /\ gone = {} /\ Candidate \in Objects /\ Candidate # Absent /\ facts \in [Objects -> FactsOf]
      /\ dir \in [Names -> Objects \cup {Absent}]
  BY <1>0, <1>1, EntryAssumption DEF Untouched, Typed, FactsOf, Objects
<1>3. CASE Answer("Storage")
  BY <1>0, <1>1, <1>3, RefuseKeeps
<1>4. CASE Answer("Unknown")
  <2>1. NoneLost'
    BY <1>2, <1>0, <1>4, AnswerWorld DEF NoneLost
  <2> QED BY <1>0, <1>4, <2>1, UnknownKeeps
<1>5. CASE ~ (Answer("Storage") \/ Answer("Unknown"))
  <2>1. /\ CanReplace /\ bound /\ dir["target"] \in Objects /\ dir["target"] # Absent
        /\ dir["target"] # Candidate
    BY <1>0, <1>1, <1>2, <1>5 DEF WinReplaceFile, CanReplace, Apart
  <2>2. CASE /\ dir' = [target |-> Absent, other |-> dir["other"], aside |-> dir["target"]]
             /\ facts' = Moved(facts, dir["target"])
             /\ Return("Unknown")
             /\ UNCHANGED <<links, rest, taken, gone>>
    <3>1. dir'["target"] = Absent /\ dir'["other"] = Candidate /\ dir'["aside"] = dir["target"]
      BY <1>1, <2>2
    <3>2. dir' \in [Names -> Objects \cup {Absent}]
      BY <1>1, <1>2, <2>1, <2>2 DEF Names
    <3>3. /\ facts' \in [Objects -> FactsOf]
          /\ \A p \in Objects : facts'[p].moves >= facts[p].moves
      BY <1>2, <2>1, <2>2, MovedSays
    <3>4. \A n \in Names : \E m \in Names : dir'[n] \in {dir[m], Absent}
      BY <1>0, <1>1, <3>1 DEF Names
    <3>5. \A n \in Names : Used(dir[n])'
      BY <1>0, <3>2, <3>3, <3>4, StillUsed
    <3>6. Apart'
      BY <2>1, <3>1 DEF Apart, Names
    <3>7. /\ call'.at = "done" /\ call'.op = call.op /\ call'.result = "Unknown" /\ Posix' = Posix /\ Steps
      BY <1>0, <2>2, ReturnSays DEF Steps
    <3>8. UNCHANGED <<links, bound, admitted, alone, taken, gone>>
      BY <2>2 DEF rest
    <3>9. World'
      BY <1>0, <3>2, <3>3, <3>5, <3>6, <3>7, <3>8, StepWorld DEF Typed
    <3>10. NoneLost'
      BY <1>2, <3>8 DEF NoneLost
    <3>11. RefusalChangesNothing' /\ Committed' /\ MetadataKept'
      BY <3>7 DEF RefusalChangesNothing, Committed, MetadataKept, Succeeded, Refused
    <3> QED BY <1>0, <3>7, <3>9, <3>10, <3>11, EndKeeps DEF Ended
  <2>3. CASE /\ dir' = [target |-> dir["other"], other |-> Absent, aside |-> dir["target"]]
             /\ facts' \in Inherited(Moved(Moved(facts, dir["target"]), dir["other"]),
                                      dir["other"], dir["target"])
             /\ taken' = [old |-> Seen("target"), new |-> Seen("other"),
                           extra |-> facts[dir["target"]].extra]
             /\ Goto("observe") /\ UNCHANGED <<links, obs, rest, gone>>
    <3>1. dir'["target"] = Candidate /\ dir'["other"] = Absent /\ dir'["aside"] = dir["target"]
      BY <1>1, <2>3
    <3>2. dir' \in [Names -> Objects \cup {Absent}]
      BY <1>1, <1>2, <2>1, <2>3 DEF Names
    <3>3. PICK fs, a : /\ fs = Moved(Moved(facts, dir["target"]), Candidate) /\ a \in BOOLEAN
                       /\ facts' = [fs EXCEPT ![Candidate].extra = fs[dir["target"]].extra,
                                              ![Candidate].auto = a]
      <4> DEFINE m1 == Moved(facts, dir["target"])
                 m2 == Moved(m1, Candidate)
      <4>1. m1 \in [Objects -> FactsOf] /\ m2 \in [Objects -> FactsOf]
        BY <1>2, <2>1, MovedSays
      <4>2. m2[dir["target"]].auto \in BOOLEAN
        <5>1. m2[dir["target"]] \in FactsOf
          BY <2>1, <4>1
        <5> QED BY <5>1 DEF FactsOf
      <4>3. facts' \in Inherited(m2, Candidate, dir["target"])
        BY <1>1, <2>3
      <4> HIDE DEF m2
      <4>4. \E a \in BOOLEAN : facts' = [m2 EXCEPT ![Candidate].extra = m2[dir["target"]].extra,
                                                   ![Candidate].auto = a]
        BY <4>2, <4>3 DEF Inherited
      <4> QED BY <4>4 DEF m2
    <3>4. /\ fs \in [Objects -> FactsOf]
          /\ \A p \in Objects :
               /\ fs[p].data = facts[p].data /\ fs[p].mode = facts[p].mode
               /\ fs[p].extra = facts[p].extra /\ fs[p].moves >= facts[p].moves
      <4> DEFINE m1 == Moved(facts, dir["target"])
      <4>1. facts \in [Objects -> FactsOf] /\ dir["target"] \in Objects \cup {Absent}
        BY <1>2, <2>1
      <4>2. \A p \in Objects : facts[p].moves \in Nat
        BY <4>1 DEF FactsOf
      <4>3. /\ m1 \in [Objects -> FactsOf]
            /\ \A p \in Objects :
                 /\ m1[p].data = facts[p].data /\ m1[p].mode = facts[p].mode
                 /\ m1[p].extra = facts[p].extra /\ m1[p].moves >= facts[p].moves
                 /\ m1[p].moves \in Nat /\ facts[p].moves \in Nat
        BY <4>1, <4>2, MovedSays
      <4> HIDE DEF m1
      <4>4. fs = Moved(m1, Candidate)
        BY <3>3 DEF m1
      <4>5. /\ fs \in [Objects -> FactsOf]
            /\ \A p \in Objects :
                 /\ fs[p].data = m1[p].data /\ fs[p].mode = m1[p].mode
                 /\ fs[p].extra = m1[p].extra /\ fs[p].moves >= m1[p].moves
                 /\ fs[p].moves \in Nat
        BY <1>2, <4>3, <4>4, MovedSays
      <4> QED BY <4>3, <4>5
    <3>5. /\ facts' \in [Objects -> FactsOf]
          /\ \A p \in Objects :
               /\ facts'[p].data = facts[p].data /\ facts'[p].mode = facts[p].mode
               /\ p # Candidate => facts'[p].extra = facts[p].extra
               /\ facts'[p].moves >= facts[p].moves
      <4>1. fs[dir["target"]].extra \in Nat
        BY <2>1, <3>4 DEF FactsOf
      <4>2. facts' \in [Objects -> FactsOf]
        BY <1>2, <3>3, <3>4, <4>1 DEF FactsOf
      <4>3. \A p \in Objects :
               /\ facts'[p].data = fs[p].data /\ facts'[p].mode = fs[p].mode
               /\ p # Candidate => facts'[p].extra = fs[p].extra
               /\ facts'[p].moves = fs[p].moves
        BY <1>2, <3>3, <3>4 DEF FactsOf
      <4> QED BY <3>4, <4>2, <4>3
    <3>6. \A n \in Names : \E m \in Names : dir'[n] \in {dir[m], Absent}
      BY <1>0, <1>1, <3>1 DEF Names
    <3>7. \A n \in Names : Used(dir[n])'
      BY <1>0, <3>2, <3>5, <3>6, StillUsed
    <3>8. Apart'
      BY <2>1, <3>1 DEF Apart, Names
    <3>9. UNCHANGED <<links, obs, bound, admitted, alone, gone>>
      BY <2>3 DEF rest
    <3>10. /\ call'.at = "observe" /\ call'.op = call.op /\ Posix' = Posix /\ Steps
      BY <1>0, <2>3, <3>9, GotoSays, WorldSees DEF Steps
    <3>11. /\ taken'.old = Seen("target") /\ taken'.new = Seen("other")
           /\ taken'.extra = facts[dir["target"]].extra /\ DOMAIN taken' = DOMAIN taken
      BY <1>0, <2>3 DEF Typed
    <3>12. World'
      BY <1>0, <3>2, <3>5, <3>7, <3>8, <3>9, <3>10, <3>11, StepWorld DEF Typed
    <3>13. /\ Seen("target") = Look("target") /\ Seen("other") = Look("other")
      BY <1>0, <2>1, SeenSays
    <3>14. /\ Look("target") # NoStat /\ Look("target").obj = dir["target"] /\ Known(Look("target"))
           /\ Look("target").data = facts[dir["target"]].data
           /\ Look("target").mode = facts[dir["target"]].mode
           /\ Look("target").links = 1 + links[dir["target"]]
      BY <1>0, <2>1, LookSays, OneName
    <3>15. Look("other").mode = facts[Candidate].mode
      BY <1>0, <1>1, <1>2, LookSays
    <3>16. dir["target"] = obs.tgt.obj => obs.tgt.data <= facts[dir["target"]].data
      BY <1>1 DEF Grown, OfAdmitted
    <3>17. facts[dir["target"]].data \in Nat
      <4>1. facts[dir["target"]] \in FactsOf
        BY <1>2, <2>1
      <4> QED BY <4>1 DEF FactsOf
    <3>18. MovedTo("aside")'
      BY <2>1, <3>1, <3>5, <3>9, <3>11, <3>13, <3>14, <3>16, <3>17 DEF MovedTo, Known
    <3>19. Displaced(dir["aside"])' /\ OfAdmitted(obs.tgt)'
      BY <1>1, <1>2, <3>1, <3>9 DEF Displaced, OfAdmitted
    <3>20. taken'.new.mode = admitted'.meta.mode /\ facts'[dir'["aside"]].extra = taken'.extra
      BY <1>1, <2>1, <3>1, <3>5, <3>9, <3>11, <3>13, <3>15 DEF CandidateIs
    <3>21. WindowsReplaces'
      BY <1>1, <1>2, <2>1, <3>1, <3>9, <3>10, <3>18, <3>19, <3>20 DEF WindowsReplaces, Admissions
    <3> QED BY <1>0, <3>10, <3>12, <3>21, WindowsReplaceOnly DEF Admissions
  <2> QED BY <1>5, <2>2, <2>3 DEF WinReplaceFile
<1> QED BY <1>3, <1>4, <1>5

\* After ReplaceFileW, until the displaced file is dealt with.
SetAside ==
  /\ Displaced(dir["aside"]) /\ dir["aside"] \in Objects \ {Candidate}
  /\ dir["other"] = Absent /\ alone["other"] = Candidate /\ alone["aside"] = Absent
  /\ gone = {} /\ taken.new.mode = admitted.meta.mode

LEMMA WinUnknownKeeps ==
  ASSUME EInv, UNCHANGED draft, ~ Posix, call.op = "replace", Answer("Unknown")
  PROVE  EInv'
<1>1. call'.op = "replace" /\ ~ Posix' /\ call'.result = "Unknown"
  BY AnswerWorld DEF EInv
<1>2. NoneLost'
  BY <1>1 DEF NoneLost
<1>3. call.op \notin Saves /\ call.op # "rename" /\ call.op # "delete"
  BY DEF Saves
<1> QED BY <1>2, <1>3, UnknownKeeps

\* What is observed of the two files after ReplaceFileW.
LEMMA WinReplaceObserveKeeps ==
  ASSUME EInv, UNCHANGED draft, WinReplaceObserve
  PROVE  EInv'
<1>0. /\ World /\ ~ Posix /\ call.op = "replace" /\ call.at = "observe"
      /\ WindowsReplaces /\ Typed /\ Sees(obs) /\ "target" \in Names /\ "aside" \in Names
  BY WorldSees DEF EInv, WinReplaceObserve, At, Posix, World, Names
<1>1. /\ obs.meta = admitted.meta /\ obs.tmp # NoStat /\ obs.tmp.obj = Candidate /\ OfAdmitted(obs.tgt)
      /\ SetAside /\ MovedTo("aside") /\ facts[dir["aside"]].extra = taken.extra
  BY <1>0 DEF WindowsReplaces, SetAside
<1>2. CASE Answer("Unknown")
  BY <1>0, <1>2, WinUnknownKeeps
<1>3. CASE ~ Answer("Unknown")
  <2>1. /\ obs' = [obs EXCEPT !.pub = Seen("target"), !.pubmeta = SeenMeta("target"),
                              !.moved = Seen("aside"), !.movedmeta = SeenMeta("aside")]
        /\ Goto("restore") /\ UNCHANGED still
    BY <1>3 DEF WinReplaceObserve
  <2>2. /\ obs'.pub = Seen("target") /\ obs'.pubmeta = SeenMeta("target")
        /\ obs'.moved = Seen("aside") /\ obs'.movedmeta = SeenMeta("aside")
        /\ obs'.meta = obs.meta /\ obs'.tmp = obs.tmp /\ obs'.tgt = obs.tgt /\ Sees(obs')
    BY <1>0, <2>1, SeenSays DEF Sees, NoObs
  <2>3. /\ World' /\ UNCHANGED <<dir, facts, links, alone, admitted, taken, gone>>
        /\ call'.at = "restore" /\ call'.op = call.op /\ Posix' = Posix
    BY <1>0, <2>1, <2>2, LookWorld
  <2>4. Seen("aside") # NoStat => /\ Seen("aside").obj = dir["aside"]
                                  /\ SeenMeta("aside").mode = taken.old.mode
                                  /\ SeenMeta("aside").extra = taken.extra
    BY <1>0, <1>1, SeenSays DEF MetaOf, MovedTo
  <2>5. Seen("target") # NoStat /\ Seen("target").obj = Candidate =>
          SeenMeta("target").auto = facts[Candidate].auto
    BY <1>0, SeenSays DEF MetaOf
  <2>6. OfAdmitted(obs.tgt)' /\ Displaced(dir["aside"])' /\ MovedTo("aside")'
    BY <1>1, <2>2, <2>3 DEF OfAdmitted, Displaced, SetAside, MovedTo, Known
  <2>7. WindowsReplaces'
    BY <1>1, <2>2, <2>3, <2>4, <2>5, <2>6 DEF WindowsReplaces, Admissions, SetAside
  <2> QED BY <1>0, <2>3, <2>7, WindowsReplaceOnly DEF Admissions
<1> QED BY <1>2, <1>3

LEMMA WinReplaceObserveAgainKeeps ==
  ASSUME EInv, UNCHANGED draft, WinReplaceObserveAgain
  PROVE  EInv'
<1>0. /\ World /\ ~ Posix /\ call.op = "replace" /\ call.at = "observe_again"
      /\ WindowsReplaces /\ Typed /\ Sees(obs) /\ "target" \in Names /\ "aside" \in Names
  BY WorldSees DEF EInv, WinReplaceObserveAgain, At, Posix, World, Names
<1>1. /\ obs.meta = admitted.meta /\ obs.tmp # NoStat /\ obs.tmp.obj = Candidate /\ OfAdmitted(obs.tgt)
      /\ SetAside /\ MovedTo("aside") /\ facts[dir["aside"]].extra = taken.extra
      /\ obs.moved # NoStat => /\ obs.moved.obj = dir["aside"]
                               /\ obs.movedmeta.mode = taken.old.mode
                               /\ obs.movedmeta.extra = taken.extra
  BY <1>0 DEF WindowsReplaces, SetAside
<1>2. CASE Answer("Unknown")
  BY <1>0, <1>2, WinUnknownKeeps
<1>3. CASE ~ Answer("Unknown")
  <2>1. /\ obs' = [obs EXCEPT !.pub = Seen("target"), !.pubmeta = SeenMeta("target")]
        /\ Goto("compare") /\ UNCHANGED still
    BY <1>3 DEF WinReplaceObserveAgain
  <2>2. /\ obs'.pub = Seen("target") /\ obs'.pubmeta = SeenMeta("target")
        /\ obs'.moved = obs.moved /\ obs'.movedmeta = obs.movedmeta
        /\ obs'.meta = obs.meta /\ obs'.tmp = obs.tmp /\ obs'.tgt = obs.tgt /\ Sees(obs')
    BY <1>0, <2>1, SeenSays DEF Sees, NoObs
  <2>3. /\ World' /\ UNCHANGED <<dir, facts, links, alone, admitted, taken, gone>>
        /\ call'.at = "compare" /\ call'.op = call.op /\ Posix' = Posix
    BY <1>0, <2>1, <2>2, LookWorld
  <2>4. Seen("target") # NoStat /\ Seen("target").obj = Candidate =>
          SeenMeta("target").auto = facts[Candidate].auto
    BY <1>0, SeenSays DEF MetaOf
  <2>5. OfAdmitted(obs.tgt)' /\ Displaced(dir["aside"])' /\ MovedTo("aside")'
    BY <1>1, <2>2, <2>3 DEF OfAdmitted, Displaced, SetAside, MovedTo, Known
  <2>6. WindowsReplaces'
    BY <1>1, <2>2, <2>3, <2>4, <2>5 DEF WindowsReplaces, Admissions, SetAside
  <2> QED BY <1>0, <2>3, <2>6, WindowsReplaceOnly DEF Admissions
<1> QED BY <1>2, <1>3

LEMMA WinReplaceRestoreKeeps ==
  ASSUME EInv, UNCHANGED draft, WinReplaceRestore
  PROVE  EInv'
<1>0. /\ World /\ ~ Posix /\ call.op = "replace" /\ call.at = "restore"
      /\ WindowsReplaces /\ Typed
  BY DEF EInv, WinReplaceRestore, At, Posix, World
<1>1. /\ obs.meta = admitted.meta /\ obs.tmp # NoStat /\ obs.tmp.obj = Candidate /\ OfAdmitted(obs.tgt)
      /\ SetAside /\ MovedTo("aside") /\ facts[dir["aside"]].extra = taken.extra
      /\ obs.moved # NoStat => /\ obs.moved.obj = dir["aside"]
                               /\ obs.movedmeta.mode = taken.old.mode
                               /\ obs.movedmeta.extra = taken.extra
      /\ obs.pub # NoStat /\ obs.pub.obj = Candidate => obs.pubmeta.auto = facts[Candidate].auto
  BY <1>0 DEF WindowsReplaces, SetAside
<1>2. CASE Answer("Unknown")
  BY <1>0, <1>2, WinUnknownKeeps
<1>3. CASE Goto("compare") /\ UNCHANGED <<obs, still>>
  <2>1. /\ World' /\ UNCHANGED <<dir, facts, links, alone, admitted, taken, gone, obs>>
        /\ call'.at = "compare" /\ call'.op = call.op /\ Posix' = Posix
    BY <1>0, <1>3, WaitWorld
  <2>2. OfAdmitted(obs.tgt)' /\ Displaced(dir["aside"])' /\ MovedTo("aside")'
    BY <1>1, <2>1 DEF OfAdmitted, Displaced, SetAside, MovedTo, Known
  <2>3. WindowsReplaces'
    BY <1>1, <2>1, <2>2 DEF WindowsReplaces, Admissions, SetAside
  <2> QED BY <1>0, <2>1, <2>3, WindowsReplaceOnly DEF Admissions
<1>4. CASE /\ facts' = [facts EXCEPT ![Candidate].auto = FALSE]
           /\ Goto("observe_again") /\ UNCHANGED <<dir, links, obs, rest, taken, gone>>
  <2>1. UNCHANGED <<dir, links, obs, bound, admitted, alone, foreign, taken, gone>>
    BY <1>4 DEF rest
  <2>2. facts \in [Objects -> FactsOf] /\ Candidate \in Objects
    BY <1>0 DEF Typed, FactsOf, Objects
  <2>3. /\ facts' \in [Objects -> FactsOf]
        /\ \A p \in Objects : /\ facts'[p].data = facts[p].data /\ facts'[p].moves = facts[p].moves
                              /\ facts'[p].mode = facts[p].mode /\ facts'[p].extra = facts[p].extra
    BY <1>4, <2>2 DEF FactsOf
  <2>4. \A n \in Names : Used(dir[n])'
    BY <1>0, <2>1, <2>3 DEF World, Used, Objects
  <2>5. /\ call'.at = "observe_again" /\ call'.op = call.op /\ Posix' = Posix /\ Steps
    BY <1>0, <1>4, <2>1, GotoSays, WorldSees DEF Steps
  <2>6. World'
    BY <1>0, <2>1, <2>3, <2>4, <2>5, StepWorld DEF World, Typed, Apart
  <2>7. OfAdmitted(obs.tgt)' /\ Displaced(dir["aside"])'
    BY <1>1, <2>1 DEF OfAdmitted, Displaced, SetAside
  <2>8. MovedTo("aside")'
    BY <1>1, <2>1, <2>3 DEF MovedTo, Known
  <2>9. facts'[dir["aside"]].extra = taken.extra
    BY <1>1, <2>3 DEF SetAside
  <2>10. WindowsReplaces'
    BY <1>1, <2>1, <2>5, <2>7, <2>8, <2>9 DEF WindowsReplaces, Admissions, SetAside
  <2> QED BY <1>0, <2>5, <2>6, <2>10, WindowsReplaceOnly DEF Admissions
<1> QED BY <1>2, <1>3, <1>4 DEF WinReplaceRestore

LEMMA WinReplaceCompareKeeps ==
  ASSUME EInv, UNCHANGED draft, WinReplaceCompare
  PROVE  EInv'
<1>0. /\ World /\ ~ Posix /\ call.op = "replace" /\ call.at = "compare"
      /\ WindowsReplaces /\ Typed
  BY DEF EInv, WinReplaceCompare, At, Posix, World
<1>1. /\ obs.meta = admitted.meta /\ obs.tmp # NoStat /\ obs.tmp.obj = Candidate /\ OfAdmitted(obs.tgt)
      /\ SetAside /\ MovedTo("aside") /\ facts[dir["aside"]].extra = taken.extra
      /\ obs.moved # NoStat => /\ obs.moved.obj = dir["aside"]
                               /\ obs.movedmeta.mode = taken.old.mode
                               /\ obs.movedmeta.extra = taken.extra
      /\ obs.pub # NoStat /\ obs.pub.obj = Candidate => obs.pubmeta.auto = facts[Candidate].auto
  BY <1>0 DEF WindowsReplaces, SetAside
<1>2. CASE Answer("Unknown")
  BY <1>0, <1>2, WinUnknownKeeps
<1>3. CASE Goto("roll_back") /\ UNCHANGED <<obs, still>>
  <2>1. /\ World' /\ UNCHANGED <<dir, facts, links, alone, admitted, taken, gone, obs>>
        /\ call'.at = "roll_back" /\ call'.op = call.op /\ Posix' = Posix
    BY <1>0, <1>3, WaitWorld
  <2>2. Displaced(dir["aside"])'
    BY <1>1, <2>1 DEF Displaced, SetAside
  <2>3. WindowsReplaces'
    BY <1>1, <2>1, <2>2 DEF WindowsReplaces, Admissions, SetAside
  <2> QED BY <1>0, <2>1, <2>3, WindowsReplaceOnly DEF Admissions
<1>4. CASE /\ FollowsPin(obs.pub, obs.tmp) /\ obs.pubmeta = admitted.meta
           /\ FollowsPin(obs.moved, obs.tgt) /\ obs.movedmeta = admitted.meta
           /\ Goto("unlink") /\ UNCHANGED <<obs, still>>
  <2>1. /\ World' /\ UNCHANGED <<dir, facts, links, alone, admitted, taken, gone, obs>>
        /\ call'.at = "unlink" /\ call'.op = call.op /\ Posix' = Posix
    BY <1>0, <1>4, WaitWorld
  <2>2. /\ obs.moved # NoStat /\ obs.moved.obj = obs.tgt.obj
        /\ facts[obs.tgt.obj].data = obs.tgt.data
        /\ obs.pub # NoStat /\ obs.pub.obj = Candidate
    BY <1>1, <1>4, NoStatSays DEF FollowsPin, SameFile, SameObject
  <2>3. /\ dir["aside"] = obs.tgt.obj /\ taken.old.obj = obs.tgt.obj /\ Known(taken.old) /\ taken.old # NoStat
        /\ obs.tgt.data <= taken.old.data /\ taken.old.data <= facts[obs.tgt.obj].data
    BY <1>1, <2>2 DEF MovedTo
  <2>4. taken.old.data \in Nat /\ obs.tgt.data \in Nat
    BY <1>0, <1>1, <2>3 DEF OfAdmitted, Typed, Known
  <2>5. taken.old.data = obs.tgt.data
    BY <2>2, <2>3, <2>4
  <2>6. OfAdmitted(taken.old) /\ dir["aside"] = admitted.id.obj
    BY <1>1, <2>3, <2>5 DEF OfAdmitted
  <2>7. taken.old.mode = admitted.meta.mode /\ taken.extra = admitted.meta.extra
    BY <1>1, <1>4, <2>2
  <2>8. NewTaken
    BY <1>1, <1>4, <2>2, <2>7 DEF NewTaken, SetAside
  <2>9. Displaced(dir["aside"])' /\ OfAdmitted(taken.old)' /\ NewTaken'
    BY <1>1, <2>1, <2>6, <2>8 DEF Displaced, SetAside, OfAdmitted, NewTaken
  <2>10. WindowsReplaces'
    BY <1>1, <2>1, <2>6, <2>7, <2>9 DEF WindowsReplaces, Admissions, SetAside
  <2> QED BY <1>0, <2>1, <2>10, WindowsReplaceOnly DEF Admissions
<1> QED BY <1>2, <1>3, <1>4 DEF WinReplaceCompare

LEMMA WinReplaceUnlinkKeeps ==
  ASSUME EInv, UNCHANGED draft, WinReplaceUnlink
  PROVE  EInv'
<1>0. /\ World /\ ~ Posix /\ call.op = "replace" /\ call.op \notin Saves /\ call.at = "unlink"
      /\ WindowsReplaces /\ "aside" \in Names
  BY DEF EInv, WinReplaceUnlink, At, Posix, Saves, Names
<1>1. /\ gone = {} /\ NewTaken /\ OfAdmitted(taken.old)
      /\ taken.old.mode = admitted.meta.mode /\ dir["aside"] = admitted.id.obj
  BY <1>0 DEF WindowsReplaces
<1>2. CASE Answer("Unknown")
  BY <1>0, <1>2, WinUnknownKeeps
<1>3. CASE ~ Answer("Unknown")
  <2>1. Unlinked("aside") /\ Return("ok") /\ UNCHANGED <<facts, links, rest, taken>>
    BY <1>3 DEF WinReplaceUnlink
  <2>2. /\ call'.at = "done" /\ call'.op = call.op /\ call'.result = "ok" /\ Posix' = Posix /\ Steps
    BY <1>0, <2>1, ReturnSays DEF Steps
  <2>3. World' /\ UNCHANGED <<facts, alone, admitted, taken>>
    BY <1>0, <2>1, <2>2, UnlinkedWorld
  <2>4. gone' \subseteq {admitted.id.obj}
    BY <1>0, <1>1, <2>1, UnlinkedSays
  <2>5. NoneLost'
    BY <1>0, <2>2, <2>3, <2>4 DEF NoneLost, Removable
  <2>6. RefusalChangesNothing'
    BY <2>2 DEF RefusalChangesNothing, Refused
  <2>7. Committed'
    BY <1>0, <1>1, <2>2, <2>3 DEF Committed, OfAdmitted, Saves
  <2>8. MetadataKept'
    BY <1>1, <2>3 DEF MetadataKept, NewTaken
  <2> QED BY <1>0, <2>2, <2>3, <2>5, <2>6, <2>7, <2>8, EndKeeps DEF Ended
<1> QED BY <1>2, <1>3

LEMMA WinReplaceRollBackKeeps ==
  ASSUME EInv, UNCHANGED draft, WinReplaceRollBack
  PROVE  EInv'
<1>0. /\ World /\ ~ Posix /\ call.op = "replace" /\ call.at = "roll_back"
      /\ WindowsReplaces /\ Typed /\ Apart /\ "target" \in Names /\ "other" \in Names /\ "aside" \in Names
  BY DEF EInv, WinReplaceRollBack, At, Posix, World, Names
<1>1. SetAside
  BY <1>0 DEF WindowsReplaces, SetAside
<1>2. CASE Answer("Unknown")
  BY <1>0, <1>2, WinUnknownKeeps
<1>3. CASE ~ Answer("Unknown")
  <2> DEFINE m1 == Moved(facts, dir["aside"])
  <2>1. /\ dir["target"] # Absent /\ dir["aside"] # Absent
        /\ dir' = [dir EXCEPT !["target"] = dir["aside"], !["aside"] = Absent]
        /\ facts' \in Inherited(m1, dir["aside"], dir["target"])
        /\ (gone' = gone \/ gone' = gone \cup {dir["target"]})
        /\ Goto("rolled_back") /\ UNCHANGED <<links, obs, rest, taken>>
    BY <1>3 DEF WinReplaceRollBack, Reach
  <2>2. /\ dir \in [Names -> Objects \cup {Absent}] /\ facts \in [Objects -> FactsOf]
        /\ dir["target"] \in Objects /\ dir["aside"] \in Objects
    BY <1>0, <2>1 DEF Typed, FactsOf
  <2>3. /\ dir' \in [Names -> Objects \cup {Absent}] /\ dir'["target"] = dir["aside"]
        /\ dir'["aside"] = Absent /\ dir'["other"] = Absent
    BY <1>0, <1>1, <2>1, <2>2 DEF SetAside
  <2>4. /\ m1 \in [Objects -> FactsOf]
        /\ \A p \in Objects : m1[p].moves >= facts[p].moves
    BY <2>2, MovedSays
  <2> HIDE DEF m1
  <2>5. m1[dir["target"]].auto \in BOOLEAN /\ m1[dir["target"]].extra \in Nat
    <3>1. m1[dir["target"]] \in FactsOf
      BY <2>2, <2>4
    <3> QED BY <3>1 DEF FactsOf
  <2>6. PICK a \in BOOLEAN : facts' = [m1 EXCEPT ![dir["aside"]].extra = m1[dir["target"]].extra,
                                                 ![dir["aside"]].auto = a]
    BY <2>1, <2>5 DEF Inherited
  <2>7. facts' \in [Objects -> FactsOf] /\ \A p \in Objects : facts'[p].moves = m1[p].moves
    BY <2>2, <2>4, <2>5, <2>6 DEF FactsOf
  <2>8. \A p \in Objects : facts'[p].moves >= facts[p].moves
    BY <2>4, <2>7
  <2>9. \A n \in Names : \E m \in Names : dir'[n] \in {dir[m], Absent}
    BY <1>0, <2>3 DEF Names
  <2>10. \A n \in Names : Used(dir[n])'
    BY <1>0, <2>3, <2>7, <2>8, <2>9, StillUsed
  <2>11. Apart'
    BY <2>3 DEF Apart, Names
  <2>12. UNCHANGED <<links, obs, bound, admitted, alone, taken>>
    BY <2>1 DEF rest
  <2>13. gone' \subseteq Objects
    BY <1>0, <2>1, <2>2 DEF Typed
  <2>14. /\ call'.at = "rolled_back" /\ call'.op = call.op /\ Posix' = Posix /\ Steps
    BY <1>0, <2>1, <2>12, GotoSays, WorldSees DEF Steps
  <2>15. World'
    BY <1>0, <2>3, <2>7, <2>10, <2>11, <2>12, <2>13, <2>14, StepWorld DEF Typed
  <2>16. dir'["target"] = alone["target"] \/ alone["target"] \in Foreign \cup {Absent}
    BY <1>1, <2>3 DEF SetAside, Displaced
  <2>17. WindowsReplaces'
    BY <1>1, <2>3, <2>12, <2>14, <2>16 DEF WindowsReplaces, Admissions, SetAside
  <2> QED BY <1>0, <2>14, <2>15, <2>17, WindowsReplaceOnly DEF Admissions
<1> QED BY <1>2, <1>3

LEMMA WinReplaceRolledBackKeeps ==
  ASSUME EInv, UNCHANGED draft, WinReplaceRolledBack
  PROVE  EInv'
<1>0. /\ World /\ ~ Posix /\ call.op = "replace" /\ call.op \notin Saves /\ call.at = "rolled_back"
      /\ WindowsReplaces
  BY DEF EInv, WinReplaceRolledBack, At, Posix, Saves
<1>1. /\ dir["other"] = Absent /\ alone["other"] = Candidate
      /\ dir["aside"] = Absent /\ alone["aside"] = Absent
      /\ dir["target"] = alone["target"] \/ alone["target"] \in Foreign \cup {Absent}
  BY <1>0 DEF WindowsReplaces
<1>2. CASE Answer("Unknown")
  BY <1>0, <1>2, WinUnknownKeeps
<1>3. CASE Answer("TargetChanged")
  <2>1. /\ World' /\ UNCHANGED <<dir, facts, links, alone, admitted, taken, gone>>
        /\ call'.at = "done" /\ call'.op = call.op /\ call'.result = "TargetChanged" /\ Posix' = Posix
    BY <1>0, <1>3, AnswerWorld
  <2>2. NoneLost' /\ Committed' /\ MetadataKept'
    BY <1>0, <2>1 DEF NoneLost, Committed, MetadataKept, Succeeded
  <2>3. RefusalChangesNothing'
    BY <1>0, <1>1, <2>1 DEF RefusalChangesNothing
  <2> QED BY <1>0, <2>1, <2>2, <2>3, EndKeeps DEF Ended
<1> QED BY <1>2, <1>3 DEF WinReplaceRolledBack

LEMMA WindowsReplaceKeeps ==
  ASSUME EInv, UNCHANGED draft, WindowsReplace
  PROVE  EInv'
BY WinReplaceMatchKeeps, WinReplacePrepareKeeps, WinReplacePinKeeps, WinReplaceFileKeeps,
   WinReplaceObserveKeeps, WinReplaceRestoreKeeps, WinReplaceObserveAgainKeeps,
   WinReplaceCompareKeeps, WinReplaceUnlinkKeeps, WinReplaceRollBackKeeps,
   WinReplaceRolledBackKeeps DEF WindowsReplace
-------------------------------------------------------------------------------
(* A verified rename, on both systems.                                           *)

LEMMA MovesOnly ==
  ASSUME EInv, World', Posix' = Posix, call.op = "rename", call'.op = call.op,
         call'.at \notin Admissions \cup {"done"}, UNCHANGED draft, Moves'
  PROVE  EInv'
<1>1. PosixReplaces' /\ WindowsReplaces' /\ Deletes' /\ Opens' /\ Plains' /\ SaveInv'
  BY DEF PosixReplaces, WindowsReplaces, Deletes, Opens, Plains, SaveInv, Stage, Saves
<1>2. BaseInv'
  BY DEF EInv, BaseInv
<1>3. Admission'
  BY DEF Admission, Admissions
<1> QED BY <1>1, <1>2, <1>3 DEF EInv

\* On POSIX the name still leads to the admitted file, unchanged.
LEMMA LookIsAdmitted ==
  ASSUME World, Posix, call.op \in Verified, IdentityMatches(Look("target"), admitted.id)
  PROVE  /\ Look("target") # NoStat /\ Known(Look("target")) /\ Twice(Look("target"))
         /\ Look("target").obj = admitted.id.obj /\ Look("target").data = admitted.id.data
         /\ Look("target").links = admitted.id.links
         /\ Look("target").obj = dir["target"] /\ Look("target").links = LinkCount(dir["target"])
         /\ Look("target").data <= facts[Look("target").obj].data /\ Used(Look("target").obj)
<1>1. Typed /\ "target" \in Names
  BY DEF World, Names
<1>2. Look("target").obj = admitted.id.obj /\ Look("target").data = admitted.id.data
      /\ Look("target").obj # Absent
  BY MatchSays
<1>3. /\ Look("target") # NoStat /\ Look("target").obj = dir["target"] /\ dir["target"] \in Objects
      /\ Look("target").data = facts[dir["target"]].data /\ Twice(Look("target"))
      /\ Known(Look("target")) /\ Look("target").links = LinkCount(dir["target"])
  BY <1>1, <1>2, LookSays, NoStatSays
<1>4. admitted.id # NoStat /\ Twice(admitted.id)
  BY <1>2, <1>3, NoStatSays DEF World, Verified
<1>5. Look("target").links = admitted.id.links
  BY <1>3, <1>4, MatchLinks
<1>6. facts[dir["target"]] \in FactsOf /\ Used(dir["target"])
  BY <1>1, <1>3 DEF World, Typed, FactsOf
<1> QED BY <1>2, <1>3, <1>5, <1>6 DEF FactsOf

\* On Windows the open handle tells that the file has not been written since.
LEMMA MatchedIsAdmitted ==
  ASSUME World, TargetMatches, Grown(obs.tgt)
  PROVE  /\ obs.tgt # NoStat /\ obs.tgt.obj = admitted.id.obj
         /\ obs.tgt.data <= admitted.id.data /\ admitted.id.data <= facts[obs.tgt.obj].data
<1>1. obs.tgt # NoStat /\ obs.tgt.obj \in Objects
  BY DEF TargetMatches, World, Typed, Known
<1>2. Stat(obs.tgt.obj).obj = obs.tgt.obj /\ Stat(obs.tgt.obj).data = facts[obs.tgt.obj].data
  BY <1>1, StatSays DEF World
<1>3. obs.tgt.obj = admitted.id.obj /\ facts[obs.tgt.obj].data = admitted.id.data
  BY <1>2 DEF TargetMatches, SameFile, SameObject
<1>4. obs.tgt.data <= facts[obs.tgt.obj].data /\ facts[obs.tgt.obj] \in FactsOf
  BY <1>1 DEF Grown, World, Typed, FactsOf
<1> QED BY <1>1, <1>3, <1>4 DEF FactsOf

\* The path of the snapshot leads to the file that was admitted.
LEMMA PinnedIsAdmitted ==
  ASSUME World, CanPin("target", obs.tgt), Grown(obs.tgt), obs.tgt # NoStat,
         obs.tgt.obj = admitted.id.obj, obs.tgt.data <= admitted.id.data,
         admitted.id.data <= facts[obs.tgt.obj].data
  PROVE  OfAdmitted(obs.tgt)
<1>1. Typed /\ "target" \in Names
  BY DEF World, Names
<1>2. SameFile(Seen("target"), obs.tgt) /\ Seen("target") # NoStat
  BY NoStatSays DEF CanPin, SameFile, SameObject
<1>3. Known(Seen("target")) /\ Seen("target").data = facts[Seen("target").obj].data
  BY <1>1, <1>2, SeenSays
<1> QED BY <1>2, <1>3, SqueezedIsAdmitted

LEMMA WinMoveSays ==
  ASSUME World, NEW a \in Names, NEW b \in Names, WinMove(a, b)
  PROVE  Renamed(a, b) /\ dir[a] # Absent /\ dir[b] = Absent /\ bound /\ Seen(a) = Look(a)
<1>1. bound /\ dir[a] # Absent /\ dir[b] = Absent /\ Renamed(a, b)
  BY DEF WinMove, Reach, Renamed
<1> QED BY <1>1, SeenSays DEF World

\* A move of one name to another.
LEMMA RenamedWorld ==
  ASSUME World, Apart, NEW a \in Names, NEW b \in Names, a # b, dir[a] # Absent, dir[b] = Absent,
         Renamed(a, b), UNCHANGED <<links, rest, gone>>, DOMAIN taken' = DOMAIN taken, Steps
  PROVE  World' /\ UNCHANGED <<links, alone, admitted, gone>>
<1>1. UNCHANGED <<links, bound, alone, admitted, foreign, gone>>
  BY DEF rest
<1>2. gone' \subseteq Objects
  BY <1>1 DEF World, Typed
<1> QED BY <1>1, <1>2, RenamedSays, StepWorld

\* A move that the call makes on its way.
LEMMA RenamedGoes ==
  ASSUME World, Apart, NEW a \in Names, NEW b \in Names, a # b, dir[a] # Absent, dir[b] = Absent,
         Renamed(a, b), UNCHANGED <<links, rest, gone>>, DOMAIN taken' = DOMAIN taken,
         NEW at, Goto(at), UNCHANGED obs
  PROVE  /\ World' /\ UNCHANGED <<links, alone, admitted, gone, obs>>
         /\ call'.at = at /\ call'.op = call.op /\ Posix' = Posix
<1>1. /\ Steps /\ call'.at = at /\ call'.op = call.op /\ Posix' = Posix
  BY GotoSays, WorldSees DEF Steps
<1> QED BY <1>1, RenamedWorld

LEMMA RenameBeginKeeps ==
  ASSUME EInv, UNCHANGED draft, RenameAdmit \/ WinRenameMatch \/ WinPin("rename")
  PROVE  EInv'
<1>0. /\ World /\ call.op = "rename" /\ call.op \notin Saves /\ call.op \in Verified
      /\ call.at \in {"start", "match", "pin"} /\ Moves /\ Sees(obs)
      /\ (call.at = "start" => Posix /\ RenameAdmit)
      /\ (call.at = "match" => ~ Posix /\ WinRenameMatch)
      /\ (call.at = "pin" => ~ Posix /\ WinPin("rename"))
  BY WorldSees DEF EInv, RenameAdmit, WinRenameMatch, WinPin, At, Posix, Saves, Verified
<1>1. Untouched /\ gone = {} /\ dir["aside"] = alone["aside"]
  BY <1>0 DEF Moves, Admissions
<1>2. ASSUME NEW r, r # "ok", Answer(r)
      PROVE  EInv'
  BY <1>0, <1>1, <1>2, RefuseKeeps
<1>3. CASE call.at = "start"
  <2>1. CASE Answer("TargetChanged") \/ Answer("Storage") \/ Answer("DestinationExists")
             \/ Answer("InvalidTargetType")
    BY <1>2, <2>1
  <2>2. CASE ~ (Answer("TargetChanged") \/ Answer("Storage") \/ Answer("DestinationExists")
                \/ Answer("InvalidTargetType"))
    <3>1. /\ IdentityMatches(Look("target"), admitted.id) /\ LinkCount(dir["target"]) = 1
          /\ obs' = [obs EXCEPT !.tgt = Look("target")] /\ Goto("move") /\ UNCHANGED still
      BY <1>0, <1>3, <2>2 DEF RenameAdmit
    <3>2. /\ Look("target") # NoStat /\ Known(Look("target")) /\ Twice(Look("target"))
          /\ Look("target").obj = admitted.id.obj /\ Look("target").data = admitted.id.data
          /\ Look("target").links = admitted.id.links /\ Look("target").links = 1
          /\ Look("target").data <= facts[Look("target").obj].data /\ Used(Look("target").obj)
      BY <1>0, <1>3, <3>1, LookIsAdmitted
    <3>3. obs'.tgt = Look("target") /\ Sees(obs')
      BY <1>0, <3>1, <3>2 DEF Sees, NoObs
    <3>4. /\ World' /\ UNCHANGED <<dir, facts, alone, admitted, gone>>
          /\ call'.at = "move" /\ call'.op = call.op /\ Posix' = Posix
      BY <1>0, <3>1, <3>3, LookWorld
    <3>5. Grown(obs.tgt)' /\ OfAdmitted(obs.tgt)' /\ Linked(obs.tgt)' /\ Untouched'
      BY <1>1, <3>2, <3>3, <3>4 DEF Grown, Used, OfAdmitted, Linked, Untouched
    <3>6. Moves'
      BY <1>1, <3>2, <3>3, <3>4, <3>5 DEF Moves, Admissions
    <3> QED BY <1>0, <3>4, <3>6, MovesOnly DEF Admissions
  <2> QED BY <2>1, <2>2
<1>4. CASE call.at = "match"
  <2>1. CASE Answer("TargetChanged") \/ Answer("DestinationExists")
    BY <1>2, <2>1
  <2>2. CASE ~ (Answer("TargetChanged") \/ Answer("DestinationExists"))
    <3>1. TargetMatches /\ Goto("pin") /\ UNCHANGED <<obs, still>> /\ Grown(obs.tgt)
      BY <1>0, <1>4, <2>2 DEF WinRenameMatch, Moves
    <3>2. /\ World' /\ UNCHANGED <<dir, facts, alone, admitted, gone, obs>>
          /\ call'.at = "pin" /\ call'.op = call.op /\ Posix' = Posix
      BY <1>0, <3>1, WaitWorld
    <3>3. /\ obs.tgt # NoStat /\ obs.tgt.obj = admitted.id.obj
          /\ obs.tgt.data <= admitted.id.data /\ admitted.id.data <= facts[obs.tgt.obj].data
      BY <1>0, <3>1, MatchedIsAdmitted
    <3>4. Grown(obs.tgt)' /\ Untouched'
      BY <1>1, <3>1, <3>2 DEF Grown, Used, Untouched
    <3>5. Moves'
      BY <1>1, <3>2, <3>3, <3>4 DEF Moves, Admissions
    <3> QED BY <1>0, <3>2, <3>5, MovesOnly DEF Admissions
  <2> QED BY <2>1, <2>2
<1>5. CASE call.at = "pin"
  <2>1. CASE Answer("TargetChanged")
    BY <1>2, <2>1
  <2>2. CASE ~ Answer("TargetChanged")
    <3>1. CanPin("target", obs.tgt) /\ Goto("move") /\ UNCHANGED <<obs, still>> /\ ~ Posix
      BY <1>0, <1>5, <2>2 DEF WinPin
    <3>2. /\ World' /\ UNCHANGED <<dir, facts, alone, admitted, gone, obs>>
          /\ call'.at = "move" /\ call'.op = call.op /\ Posix' = Posix
      BY <1>0, <3>1, WaitWorld
    <3>3. /\ Grown(obs.tgt) /\ obs.tgt # NoStat /\ obs.tgt.obj = admitted.id.obj
          /\ obs.tgt.data <= admitted.id.data /\ admitted.id.data <= facts[obs.tgt.obj].data
      BY <1>0, <1>5 DEF Moves
    <3>4. OfAdmitted(obs.tgt)
      BY <1>0, <3>1, <3>3, PinnedIsAdmitted
    <3>5. Grown(obs.tgt)' /\ Untouched' /\ OfAdmitted(obs.tgt)'
      BY <1>1, <3>2, <3>3, <3>4 DEF Grown, Used, Untouched, OfAdmitted
    <3>6. Moves'
      BY <1>1, <3>1, <3>2, <3>5 DEF Moves, Admissions
    <3> QED BY <1>0, <3>2, <3>6, MovesOnly DEF Admissions
  <2> QED BY <2>1, <2>2
<1> QED BY <1>0, <1>3, <1>4, <1>5

LEMMA RenameMoveKeeps ==
  ASSUME EInv, UNCHANGED draft, RenameMove \/ WinMoveAway("rename")
  PROVE  EInv'
<1>0. /\ World /\ call.op = "rename" /\ call.op \notin Saves /\ call.at = "move"
      /\ Moves /\ Typed /\ Apart /\ "target" \in Names /\ "other" \in Names /\ "aside" \in Names
  BY DEF EInv, RenameMove, WinMoveAway, At, Saves, World, Names
<1>1. /\ Untouched /\ gone = {} /\ dir["aside"] = alone["aside"] /\ Grown(obs.tgt) /\ OfAdmitted(obs.tgt)
      /\ (Posix => Linked(obs.tgt) /\ obs.tgt.links = 1)
  BY <1>0 DEF Moves
<1>2. CASE \E r \in {"Unsupported", "Storage", "DestinationExists"} : Answer(r)
  BY <1>0, <1>1, <1>2, RefuseKeeps
<1>3. CASE ~ \E r \in {"Unsupported", "Storage", "DestinationExists"} : Answer(r)
  <2>1. /\ Renamed("target", "other") /\ dir["target"] # Absent /\ dir["other"] = Absent
        /\ taken' = [taken EXCEPT !.old = Look("target")]
        /\ Goto("observe") /\ UNCHANGED <<links, obs, rest, gone>>
    BY <1>0, <1>3, WinMoveSays DEF RenameMove, WinMoveAway, CanMove
  <2>2. taken'.old = Look("target") /\ DOMAIN taken' = DOMAIN taken
    BY <1>0, <2>1 DEF Typed
  <2>3. /\ World' /\ UNCHANGED <<links, alone, admitted, gone, obs>>
        /\ call'.at = "observe" /\ call'.op = call.op /\ Posix' = Posix
    BY <1>0, <2>1, <2>2, RenamedGoes
  <2>4. /\ dir'["target"] = Absent /\ dir'["other"] = dir["target"] /\ dir'["aside"] = dir["aside"]
        /\ facts' \in [Objects -> FactsOf]
        /\ \A p \in Objects : facts'[p].data = facts[p].data
        /\ \A n \in Names : Used(dir[n])'
    BY <1>0, <2>1, RenamedSays DEF Names
  <2>5. /\ Look("target") # NoStat /\ Look("target").obj = dir["target"] /\ Known(Look("target"))
        /\ dir["target"] \in Objects /\ Look("target").data = facts[dir["target"]].data
        /\ Look("target").links = 1 + links[dir["target"]]
    BY <1>0, <2>1, LookSays, OneName
  <2>6. facts[dir["target"]].data \in Nat /\ links[dir["target"]] \in Nat
    <3>1. facts[dir["target"]] \in FactsOf /\ links[dir["target"]] \in Nat
      BY <1>0, <2>5 DEF Typed, FactsOf
    <3> QED BY <3>1 DEF FactsOf
  <2>7. /\ alone["other"] = Absent /\ alone["target"] = dir["target"]
    BY <1>1, <2>1 DEF Untouched
  <2>8. /\ OfAdmitted(obs.tgt)' /\ (Posix' => Linked(obs.tgt)' /\ obs'.tgt.links = 1)
        /\ Vacated(taken.old.obj)' /\ Known(taken.old)'
    BY <1>1, <2>2, <2>3, <2>4, <2>5, <2>7 DEF OfAdmitted, Linked, Vacated, Known
  <2>9. Grown(obs.tgt)'
    <3>1. obs.tgt.obj \in Objects /\ obs.tgt # NoStat
      BY <1>0, <1>1 DEF Typed, Known, OfAdmitted
    <3>2. facts'[obs.tgt.obj].moves > 0 \/ obs.tgt.obj \notin Foreign
      <4>1. facts'[obs.tgt.obj].moves >= facts[obs.tgt.obj].moves
        BY <1>0, <2>1, <2>5, <3>1, MovedSays DEF Renamed, Typed, FactsOf
      <4>2. facts'[obs.tgt.obj] \in FactsOf /\ facts[obs.tgt.obj] \in FactsOf
        BY <1>0, <2>4, <3>1 DEF Typed, FactsOf
      <4> QED BY <1>1, <3>1, <4>1, <4>2 DEF Grown, Used, FactsOf
    <3> QED BY <1>1, <2>3, <2>4, <3>1, <3>2 DEF Grown, Used
  <2>10. dir["target"] = obs.tgt.obj =>
           /\ obs.tgt.data <= facts[dir["target"]].data
           /\ facts[dir["target"]].data <= facts'[obs.tgt.obj].data
           /\ 1 <= 1 + links[dir["target"]] /\ 1 + links[dir["target"]] <= 1 + links[obs.tgt.obj]
    BY <1>1, <2>4, <2>5, <2>6 DEF Grown, OfAdmitted
  <2>11. Moves'
    BY <1>1, <2>2, <2>3, <2>4, <2>5, <2>7, <2>8, <2>9, <2>10 DEF Moves, Admissions
  <2> QED BY <1>0, <2>3, <2>11, MovesOnly DEF Admissions
<1> QED BY <1>2, <1>3

\* The two moved files are one, with the bytes of the admitted one.
LEMMA RenameIsAdmitted ==
  ASSUME World, Moves, call.op = "rename", call.at = "observe", Known(obs.tgt),
         dir["other"] = obs.tgt.obj, facts[dir["other"]].data = obs.tgt.data,
         Posix => LinkCount(dir["other"]) = obs.tgt.links
  PROVE  OfAdmitted(taken.old) /\ Linked(taken.old)
<1>1. /\ OfAdmitted(obs.tgt) /\ (Posix => Linked(obs.tgt) /\ obs.tgt.links = 1)
      /\ Known(taken.old) /\ taken.old # NoStat
  BY DEF Moves
<1>2. taken.old.obj = obs.tgt.obj
  BY DEF Moves
<1>3. /\ obs.tgt.data <= taken.old.data /\ taken.old.data <= facts[obs.tgt.obj].data
      /\ 1 <= taken.old.links /\ taken.old.links <= 1 + links[obs.tgt.obj]
  BY <1>2 DEF Moves
<1>4. taken.old.data \in Nat /\ taken.old.links \in Nat /\ obs.tgt.data \in Nat
      /\ obs.tgt # NoStat /\ obs.tgt.obj \in Objects
  BY <1>1 DEF Known, OfAdmitted
<1>5. taken.old.data = obs.tgt.data
  BY <1>3, <1>4
<1>6. ASSUME Posix PROVE taken.old.links = 1
  <2>1. Apart /\ Typed /\ "other" \in Names /\ dir["other"] # Absent
    BY <1>4, EntryAssumption DEF World, Names
  <2>2. 1 + links[obs.tgt.obj] = 1
    BY <1>1, <1>6, <2>1, OneName
  <2> QED BY <1>3, <1>4, <2>2
<1> QED BY <1>1, <1>2, <1>5, <1>6 DEF OfAdmitted, Linked

LEMMA RenameObserveKeeps ==
  ASSUME EInv, UNCHANGED draft, RenameObserve \/ WinRenameObserve
  PROVE  EInv'
<1>0. /\ World /\ call.op = "rename" /\ call.op \notin Saves /\ call.at = "observe" /\ call.op \in Verified
      /\ Moves /\ Typed /\ Sees(obs) /\ Known(obs.tgt) /\ "target" \in Names /\ "other" \in Names
      /\ (RenameObserve => Posix) /\ (WinRenameObserve => ~ Posix)
  BY WorldSees DEF EInv, RenameObserve, WinRenameObserve, At, Posix, Saves, World, Names, Sees, Verified
<1>1. /\ gone = {} /\ dir["aside"] = alone["aside"]
      /\ taken.old # NoStat /\ taken.old.obj \in Objects /\ Vacated(taken.old.obj)
      /\ \/ dir["other"] = taken.old.obj /\ alone["other"] = Absent
         \/ dir["other"] = alone["other"] /\ dir["other"] \in Foreign \cup {Absent}
  BY <1>0 DEF Moves
<1>2. ASSUME NEW r, Answer(r)
      PROVE  NoneLost'
  BY <1>0, <1>1, <1>2, AnswerWorld DEF NoneLost
<1>3. CASE Answer("Unknown")
  BY <1>0, <1>1, <1>2, <1>3, UnknownKeeps
<1>4. CASE Answer("ok")
  <2>1. dir["other"] = obs.tgt.obj /\ facts[dir["other"]].data = obs.tgt.data
        /\ (Posix => LinkCount(dir["other"]) = obs.tgt.links)
    <3>1. CASE RenameObserve
      <4>1. dir["other"] # Absent /\ SamePublished(obs.tgt, Look("other"))
        <5>1. call'.result = "ok"
          BY <1>0, <1>4, AnswerWorld
        <5>2. Answer("Unknown") => call'.result = "Unknown"
          BY <1>0, AnswerWorld
        <5>3. Goto("roll_back") => call'.at = "roll_back"
          BY <1>0, GotoSays
        <5>4. call'.at = "done"
          BY <1>0, <1>4, AnswerWorld
        <5> QED BY <3>1, <5>1, <5>2, <5>3, <5>4 DEF RenameObserve
      <4>2. /\ Look("other").obj = dir["other"] /\ Look("other").data = facts[dir["other"]].data
            /\ Look("other").links = LinkCount(dir["other"])
        BY <1>0, <4>1, LookSays
      <4> QED BY <4>1, <4>2 DEF SamePublished, SameObject
    <3>2. CASE WinRenameObserve
      <4>1. FollowsPin(Seen("other"), obs.tgt)
        <5>1. call'.result = "ok" /\ call'.at = "done"
          BY <1>0, <1>4, AnswerWorld
        <5>2. Answer("Unknown") => call'.result = "Unknown"
          BY <1>0, AnswerWorld
        <5>3. Goto("roll_back") => call'.at = "roll_back"
          BY <1>0, GotoSays
        <5> QED BY <3>2, <5>1, <5>2, <5>3 DEF WinRenameObserve
      <4>2. Seen("other") # NoStat
        BY <4>1, NoStatSays DEF FollowsPin, SameFile, SameObject
      <4>3. Seen("other").obj = dir["other"] /\ Seen("other").data = facts[dir["other"]].data
        BY <1>0, <4>2, SeenSays
      <4> QED BY <1>0, <3>2, <4>1, <4>3 DEF FollowsPin, SameFile, SameObject
    <3> QED BY <3>1, <3>2
  <2>2. OfAdmitted(taken.old) /\ Linked(taken.old)
    BY <1>0, <2>1, RenameIsAdmitted
  <2>3. /\ World' /\ UNCHANGED <<dir, facts, links, alone, admitted, taken, gone>>
        /\ call'.at = "done" /\ call'.op = call.op /\ call'.result = "ok" /\ Posix' = Posix
    BY <1>0, <1>4, AnswerWorld
  <2>4. Committed'
    BY <1>0, <2>2, <2>3 DEF Committed, OfAdmitted, Linked
  <2>5. RefusalChangesNothing' /\ MetadataKept'
    BY <1>0, <2>3 DEF RefusalChangesNothing, Refused, MetadataKept
  <2> QED BY <1>0, <1>1, <1>2, <1>4, <2>3, <2>4, <2>5, EndKeeps DEF Ended
<1>5. CASE ~ (Answer("Unknown") \/ Answer("ok"))
  <2>1. PICK s \in {Look("other"), Seen("other")} :
          /\ s # NoStat /\ obs' = [obs EXCEPT !.moved = s] /\ Goto("roll_back") /\ UNCHANGED still
    <3>1. CASE RenameObserve
      <4>1. dir["other"] # Absent /\ obs' = [obs EXCEPT !.moved = Look("other")]
            /\ Goto("roll_back") /\ UNCHANGED still
        BY <1>5, <3>1 DEF RenameObserve
      <4> QED BY <1>0, <4>1, LookSays
    <3>2. CASE WinRenameObserve
      <4>1. Reach("other") # Absent /\ obs' = [obs EXCEPT !.moved = Seen("other")]
            /\ Goto("roll_back") /\ UNCHANGED still
        BY <1>5, <3>2 DEF WinRenameObserve
      <4>2. Seen("other") # NoStat
        BY <1>0, <4>1, SeenSays, LookSays DEF Reach
      <4> QED BY <4>1, <4>2
    <3> QED BY <3>1, <3>2
  <2>2. Known(s) /\ s.obj = dir["other"]
    BY <1>0, <2>1, LookSays, SeenSays
  <2>3. obs'.moved = s /\ Sees(obs')
    BY <1>0, <2>1, <2>2 DEF Sees, NoObs
  <2>4. /\ World' /\ UNCHANGED <<dir, facts, links, alone, admitted, taken, gone>>
        /\ call'.at = "roll_back" /\ call'.op = call.op /\ Posix' = Posix
    BY <1>0, <2>1, <2>3, LookWorld
  <2>5. Used(obs.moved.obj)' /\ Vacated(taken.old.obj)'
    BY <1>0, <1>1, <2>2, <2>3, <2>4 DEF World, Used, Vacated
  <2>6. Moves'
    BY <1>1, <2>1, <2>3, <2>4, <2>5 DEF Moves, Admissions
  <2> QED BY <1>0, <2>4, <2>6, MovesOnly DEF Admissions
<1> QED BY <1>3, <1>4, <1>5

LEMMA RenameRollBackKeeps ==
  ASSUME EInv, UNCHANGED draft, RenameRollBack \/ WinRollBack("rename")
  PROVE  EInv'
<1>0. /\ World /\ call.op = "rename" /\ call.op \notin Saves /\ call.at = "roll_back"
      /\ Moves /\ Typed /\ Apart /\ "target" \in Names /\ "other" \in Names /\ "aside" \in Names
  BY DEF EInv, RenameRollBack, WinRollBack, At, Saves, World, Names
<1>1. /\ gone = {} /\ dir["aside"] = alone["aside"]
      /\ taken.old.obj \in Objects /\ Vacated(taken.old.obj)
      /\ obs.moved # NoStat /\ Used(obs.moved.obj)
      /\ \/ dir["other"] = taken.old.obj /\ alone["other"] = Absent
         \/ dir["other"] = alone["other"] /\ dir["other"] \in Foreign \cup {Absent}
  BY <1>0 DEF Moves
<1>2. CASE Answer("Unknown")
  <2>1. NoneLost'
    BY <1>0, <1>1, <1>2, AnswerWorld DEF NoneLost
  <2> QED BY <1>0, <1>1, <1>2, <2>1, UnknownKeeps
<1>3. CASE ~ Answer("Unknown")
  <2>1. /\ Renamed("other", "target") /\ dir["other"] # Absent /\ dir["target"] = Absent
        /\ Goto("rolled_back") /\ UNCHANGED <<links, obs, rest, taken, gone>>
    BY <1>0, <1>3, WinMoveSays DEF RenameRollBack, WinRollBack, CanMove
  <2>2. /\ World' /\ UNCHANGED <<links, alone, admitted, gone, obs>>
        /\ call'.at = "rolled_back" /\ call'.op = call.op /\ Posix' = Posix
    BY <1>0, <2>1, RenamedGoes
  <2>3. /\ dir'["other"] = Absent /\ dir'["target"] = dir["other"] /\ dir'["aside"] = dir["aside"]
        /\ facts' \in [Objects -> FactsOf]
        /\ facts'[dir["other"]].moves = facts[dir["other"]].moves + 1
    BY <1>0, <2>1, RenamedSays DEF Names
  <2>4. dir["other"] \in Objects
    BY <1>0, <2>1 DEF Typed
  <2>5. facts[dir["other"]] \in FactsOf
    BY <1>0, <2>4 DEF Typed, FactsOf
  <2>6. dir["other"] \in Foreign => facts'[dir["other"]].moves > 1
    BY <1>0, <2>3, <2>5 DEF World, Used, FactsOf
  <2>7. obs.moved.obj \in Objects
    BY <1>0, <1>1 DEF Typed, Known
  <2>8. facts'[obs.moved.obj].moves >= facts[obs.moved.obj].moves
    BY <1>0, <2>1, <2>4, <2>7, MovedSays DEF Renamed, Typed, FactsOf
  <2>9. Used(obs.moved.obj)'
    <3>1. facts'[obs.moved.obj] \in FactsOf /\ facts[obs.moved.obj] \in FactsOf
      BY <1>0, <2>3, <2>7 DEF Typed, FactsOf
    <3> QED BY <1>1, <2>2, <2>8, <3>1 DEF Used, FactsOf
  <2>10. \/ /\ dir'["other"] = alone'["other"]
            /\ dir'["target"] = alone'["target"] \/ alone'["target"] = Absent
         \/ /\ dir'["target"] \in Foreign /\ facts'[dir'["target"]].moves > 1
            /\ dir'["other"] \in {Absent, alone'["other"]}
    BY <1>1, <2>1, <2>2, <2>3, <2>6 DEF Vacated
  <2>11. Moves'
    BY <1>1, <2>2, <2>3, <2>9, <2>10 DEF Moves, Admissions
  <2> QED BY <1>0, <2>2, <2>11, MovesOnly DEF Admissions
<1> QED BY <1>2, <1>3

LEMMA RenameRolledBackKeeps ==
  ASSUME EInv, UNCHANGED draft, RenameRolledBack \/ WinRolledBack("rename")
  PROVE  EInv'
<1>0. /\ World /\ call.op = "rename" /\ call.op \notin Saves /\ call.at = "rolled_back"
      /\ Moves /\ Typed /\ "target" \in Names
  BY DEF EInv, RenameRolledBack, WinRolledBack, At, Saves, World, Names
<1>1. /\ gone = {} /\ dir["aside"] = alone["aside"] /\ obs.moved # NoStat
      /\ dir["target"] = obs.moved.obj =>
           \/ /\ dir["other"] = alone["other"]
              /\ dir["target"] = alone["target"] \/ alone["target"] = Absent
           \/ /\ dir["target"] \in Foreign /\ facts[dir["target"]].moves > 1
              /\ dir["other"] \in {Absent, alone["other"]}
  BY <1>0 DEF Moves
<1>2. CASE Answer("Unknown")
  <2>1. NoneLost'
    BY <1>0, <1>1, <1>2, AnswerWorld DEF NoneLost
  <2> QED BY <1>0, <1>1, <1>2, <2>1, UnknownKeeps
<1>3. CASE ~ Answer("Unknown")
  <2>1. Answer("TargetChanged") /\ dir["target"] = obs.moved.obj
    <3>1. CASE RenameRolledBack
      <4>1. SameObject(obs.moved, Look("target")) /\ Answer("TargetChanged")
        BY <1>3, <3>1 DEF RenameRolledBack
      <4> QED BY <1>0, <4>1, LookSays DEF SameObject
    <3>2. CASE WinRolledBack("rename")
      <4>1. FollowsPin(Seen("target"), obs.moved) /\ Answer("TargetChanged")
        BY <1>3, <3>2 DEF WinRolledBack
      <4>2. Seen("target").obj = obs.moved.obj /\ Seen("target") # NoStat
        BY <4>1, NoStatSays DEF FollowsPin, SameFile, SameObject
      <4> QED BY <1>0, <4>1, <4>2, SeenSays
    <3> QED BY <3>1, <3>2
  <2>2. /\ World' /\ UNCHANGED <<dir, facts, links, alone, admitted, taken, gone>>
        /\ call'.at = "done" /\ call'.op = call.op /\ call'.result = "TargetChanged" /\ Posix' = Posix
    BY <1>0, <2>1, AnswerWorld
  <2>3. NoneLost' /\ Committed' /\ MetadataKept'
    BY <1>1, <2>2 DEF NoneLost, Committed, MetadataKept, Succeeded
  <2>4. RefusalChangesNothing'
    BY <1>0, <1>1, <2>1, <2>2 DEF RefusalChangesNothing, Misplaced
  <2> QED BY <1>0, <1>1, <2>2, <2>3, <2>4, EndKeeps DEF Ended
<1> QED BY <1>2, <1>3
-------------------------------------------------------------------------------
(* A verified deletion, on both systems.                                         *)

LEMMA DeletesOnly ==
  ASSUME EInv, World', Posix' = Posix, call.op = "delete", call'.op = call.op,
         call'.at \notin Admissions \cup {"done"}, UNCHANGED draft, Deletes'
  PROVE  EInv'
<1>1. PosixReplaces' /\ WindowsReplaces' /\ Moves' /\ Opens' /\ Plains' /\ SaveInv'
  BY DEF PosixReplaces, WindowsReplaces, Moves, Opens, Plains, SaveInv, Stage, Saves
<1>2. BaseInv'
  BY DEF EInv, BaseInv
<1>3. Admission'
  BY DEF Admission, Admissions
<1> QED BY <1>1, <1>2, <1>3 DEF EInv

LEMMA DeleteUnknownKeeps ==
  ASSUME EInv, UNCHANGED draft, call.op = "delete", Answer("Unknown"),
         gone \subseteq {admitted.id.obj}
  PROVE  EInv'
<1>1. call.op \notin Saves /\ dir["aside"] = alone["aside"]
  BY DEF EInv, Deletes, Saves
<1>2. gone' \subseteq {admitted'.id.obj} /\ call'.op = "delete"
  BY AnswerWorld DEF EInv
<1>3. NoneLost'
  BY <1>2 DEF NoneLost, Removable
<1> QED BY <1>1, <1>3, UnknownKeeps

LEMMA DeleteBeginKeeps ==
  ASSUME EInv, UNCHANGED draft, DeleteAdmit \/ DeleteOpen \/ WinDeleteMatch \/ WinPin("delete")
  PROVE  EInv'
<1>0. /\ World /\ call.op = "delete" /\ call.op \notin Saves /\ call.op \in Verified
      /\ call.at \in {"start", "open", "match", "pin"} /\ Deletes /\ Sees(obs)
      /\ (call.at = "start" => Posix /\ DeleteAdmit)
      /\ (call.at = "open" => DeleteOpen)
      /\ (call.at = "match" => ~ Posix /\ WinDeleteMatch)
      /\ (call.at = "pin" => ~ Posix /\ WinPin("delete"))
  BY WorldSees DEF EInv, DeleteAdmit, DeleteOpen, WinDeleteMatch, WinPin, At, Posix, Saves, Verified
<1>1. Untouched /\ dir["aside"] = alone["aside"]
  BY <1>0 DEF Deletes, Admissions
<1>2. ASSUME NEW r, r # "ok", Answer(r)
      PROVE  EInv'
  BY <1>0, <1>1, <1>2, RefuseKeeps
<1>3. CASE call.at = "start"
  <2>1. CASE Answer("TargetChanged")
    BY <1>2, <2>1
  <2>2. CASE ~ Answer("TargetChanged")
    <3>1. /\ IdentityMatches(Look("target"), admitted.id)
          /\ obs' = [obs EXCEPT !.tgt = Look("target")] /\ Goto("open") /\ UNCHANGED still
      BY <1>0, <1>3, <2>2 DEF DeleteAdmit
    <3>2. /\ Look("target") # NoStat /\ Known(Look("target")) /\ Twice(Look("target"))
          /\ Look("target").obj = admitted.id.obj /\ Look("target").data = admitted.id.data
          /\ Look("target").links = admitted.id.links
          /\ Look("target").data <= facts[Look("target").obj].data /\ Used(Look("target").obj)
      BY <1>0, <1>3, <3>1, LookIsAdmitted
    <3>3. obs'.tgt = Look("target") /\ Sees(obs')
      BY <1>0, <3>1, <3>2 DEF Sees, NoObs
    <3>4. /\ World' /\ UNCHANGED <<dir, facts, alone, admitted, gone>>
          /\ call'.at = "open" /\ call'.op = call.op /\ Posix' = Posix
      BY <1>0, <3>1, <3>3, LookWorld
    <3>5. Grown(obs.tgt)' /\ OfAdmitted(obs.tgt)' /\ Linked(obs.tgt)' /\ Untouched'
      BY <1>1, <3>2, <3>3, <3>4 DEF Grown, Used, OfAdmitted, Linked, Untouched
    <3>6. Deletes'
      BY <1>1, <3>2, <3>3, <3>4, <3>5 DEF Deletes, OnlyAdmitted, Admissions, Untouched
    <3> QED BY <1>0, <3>4, <3>6, DeletesOnly DEF Admissions
  <2> QED BY <2>1, <2>2
<1>4. CASE call.at = "open"
  <2>1. CASE Answer("TargetChanged") \/ Answer("Storage") \/ Answer("TemporaryConflict")
    BY <1>2, <2>1
  <2>2. CASE ~ (Answer("TargetChanged") \/ Answer("Storage") \/ Answer("TemporaryConflict"))
    <3>1. Goto("isolate") /\ UNCHANGED <<obs, still>>
      BY <1>0, <1>4, <2>2 DEF DeleteOpen
    <3>2. /\ World' /\ UNCHANGED <<dir, facts, alone, admitted, gone, obs>>
          /\ call'.at = "isolate" /\ call'.op = call.op /\ Posix' = Posix
      BY <1>0, <3>1, WaitWorld
    <3>3. Grown(obs.tgt) /\ OfAdmitted(obs.tgt) /\ Linked(obs.tgt)
      BY <1>0, <1>4 DEF Deletes
    <3>4. Grown(obs.tgt)' /\ OfAdmitted(obs.tgt)' /\ Linked(obs.tgt)' /\ Untouched'
      BY <1>1, <3>2, <3>3 DEF Grown, Used, OfAdmitted, Linked, Untouched
    <3>5. Deletes'
      BY <1>1, <3>2, <3>4 DEF Deletes, OnlyAdmitted, Admissions, Untouched
    <3> QED BY <1>0, <3>2, <3>5, DeletesOnly DEF Admissions
  <2> QED BY <2>1, <2>2
<1>5. CASE call.at = "match"
  <2>1. CASE Answer("TargetChanged") \/ Answer("TemporaryConflict")
    BY <1>2, <2>1
  <2>2. CASE ~ (Answer("TargetChanged") \/ Answer("TemporaryConflict"))
    <3>1. TargetMatches /\ Goto("pin") /\ UNCHANGED <<obs, still>> /\ Grown(obs.tgt)
      BY <1>0, <1>5, <2>2 DEF WinDeleteMatch, Deletes
    <3>2. /\ World' /\ UNCHANGED <<dir, facts, alone, admitted, gone, obs>>
          /\ call'.at = "pin" /\ call'.op = call.op /\ Posix' = Posix
      BY <1>0, <3>1, WaitWorld
    <3>3. /\ obs.tgt # NoStat /\ obs.tgt.obj = admitted.id.obj
          /\ obs.tgt.data <= admitted.id.data /\ admitted.id.data <= facts[obs.tgt.obj].data
      BY <1>0, <3>1, MatchedIsAdmitted
    <3>4. Grown(obs.tgt)' /\ Untouched'
      BY <1>1, <3>1, <3>2 DEF Grown, Used, Untouched
    <3>5. Deletes'
      BY <1>1, <3>2, <3>3, <3>4 DEF Deletes, OnlyAdmitted, Admissions, Untouched
    <3> QED BY <1>0, <3>2, <3>5, DeletesOnly DEF Admissions
  <2> QED BY <2>1, <2>2
<1>6. CASE call.at = "pin"
  <2>1. CASE Answer("TargetChanged")
    BY <1>2, <2>1
  <2>2. CASE ~ Answer("TargetChanged")
    <3>1. CanPin("target", obs.tgt) /\ Goto("move") /\ UNCHANGED <<obs, still>> /\ ~ Posix
      BY <1>0, <1>6, <2>2 DEF WinPin
    <3>2. /\ World' /\ UNCHANGED <<dir, facts, alone, admitted, gone, obs>>
          /\ call'.at = "move" /\ call'.op = call.op /\ Posix' = Posix
      BY <1>0, <3>1, WaitWorld
    <3>3. /\ Grown(obs.tgt) /\ obs.tgt # NoStat /\ obs.tgt.obj = admitted.id.obj
          /\ obs.tgt.data <= admitted.id.data /\ admitted.id.data <= facts[obs.tgt.obj].data
      BY <1>0, <1>6 DEF Deletes
    <3>4. OfAdmitted(obs.tgt)
      BY <1>0, <3>1, <3>3, PinnedIsAdmitted
    <3>5. Grown(obs.tgt)' /\ Untouched' /\ OfAdmitted(obs.tgt)' /\ Linked(obs.tgt)'
      BY <1>1, <3>1, <3>2, <3>3, <3>4 DEF Grown, Used, Untouched, OfAdmitted, Linked
    <3>6. Deletes'
      BY <1>1, <3>2, <3>5 DEF Deletes, OnlyAdmitted, Admissions, Untouched
    <3> QED BY <1>0, <3>2, <3>6, DeletesOnly DEF Admissions
  <2> QED BY <2>1, <2>2
<1> QED BY <1>0, <1>3, <1>4, <1>5, <1>6

LEMMA DeleteMoveKeeps ==
  ASSUME EInv, UNCHANGED draft, DeleteIsolate \/ WinMoveAway("delete")
  PROVE  EInv'
<1>0. /\ World /\ call.op = "delete" /\ call.op \notin Saves /\ call.at \in {"isolate", "move"}
      /\ Deletes /\ Typed /\ Apart /\ "target" \in Names /\ "other" \in Names /\ "aside" \in Names
  BY DEF EInv, DeleteIsolate, WinMoveAway, At, Saves, World, Names
<1>1. /\ Untouched /\ dir["aside"] = alone["aside"] /\ Grown(obs.tgt) /\ OfAdmitted(obs.tgt)
      /\ Linked(obs.tgt)
  BY <1>0 DEF Deletes
<1>2. CASE \E r \in {"Unsupported", "Storage", "DestinationExists"} : Answer(r)
  BY <1>0, <1>1, <1>2, RefuseKeeps
<1>3. CASE ~ \E r \in {"Unsupported", "Storage", "DestinationExists"} : Answer(r)
  <2>1. /\ Renamed("target", "other") /\ dir["target"] # Absent /\ dir["other"] = Absent
        /\ taken' = [taken EXCEPT !.old = Look("target")]
        /\ Goto("observe") /\ UNCHANGED <<links, obs, rest, gone>>
    BY <1>0, <1>3, WinMoveSays DEF DeleteIsolate, WinMoveAway, CanMove
  <2>2. taken'.old = Look("target") /\ DOMAIN taken' = DOMAIN taken
    BY <1>0, <2>1 DEF Typed
  <2>3. /\ World' /\ UNCHANGED <<links, alone, admitted, gone, obs>>
        /\ call'.at = "observe" /\ call'.op = call.op /\ Posix' = Posix
    BY <1>0, <2>1, <2>2, RenamedGoes
  <2>4. /\ dir'["target"] = Absent /\ dir'["other"] = dir["target"] /\ dir'["aside"] = dir["aside"]
        /\ \A p \in Objects : facts'[p].data = facts[p].data /\ facts'[p].mode = facts[p].mode
    BY <1>0, <2>1, RenamedSays DEF Names
  <2>5. /\ Look("target") # NoStat /\ Look("target").obj = dir["target"] /\ Known(Look("target"))
        /\ dir["target"] \in Objects /\ Look("target").data = facts[dir["target"]].data
        /\ Look("target").mode = facts[dir["target"]].mode
        /\ Look("target").links = 1 + links[dir["target"]]
    BY <1>0, <2>1, LookSays, OneName
  <2>6. facts[dir["target"]].data \in Nat
    <3>1. facts[dir["target"]] \in FactsOf
      BY <1>0, <2>5 DEF Typed, FactsOf
    <3> QED BY <3>1 DEF FactsOf
  <2>7. /\ alone["other"] = Absent /\ alone["target"] = dir["target"] /\ gone = {}
    BY <1>1, <2>1 DEF Untouched
  <2>8. dir["target"] = obs.tgt.obj => obs.tgt.data <= facts[dir["target"]].data
    BY <1>1 DEF Grown, OfAdmitted
  <2>9. MovedTo("other")'
    BY <2>2, <2>3, <2>4, <2>5, <2>6, <2>8 DEF MovedTo, Known
  <2>10. OfAdmitted(obs.tgt)' /\ Linked(obs.tgt)' /\ Vacated(dir["other"])'
    BY <1>1, <2>3, <2>4, <2>7 DEF OfAdmitted, Linked, Vacated
  <2>11. Deletes'
    BY <1>1, <2>3, <2>4, <2>5, <2>7, <2>9, <2>10 DEF Deletes, OnlyAdmitted, Admissions
  <2> QED BY <1>0, <2>3, <2>11, DeletesOnly DEF Admissions
<1> QED BY <1>2, <1>3

\* The deletion looks at the file it has set aside.
LEMMA DeleteLookKeeps ==
  ASSUME EInv, UNCHANGED draft, call.op = "delete", call.at = "observe",
         NEW s \in {Look("other"), Seen("other"), NoStat}, NEW a \in {"unlink", "roll_back"},
         obs' = [obs EXCEPT !.moved = s], Goto(a), UNCHANGED still,
         a = "unlink" => OfAdmitted(taken.old) /\ Linked(taken.old) /\ dir["other"] = admitted.id.obj
  PROVE  EInv'
<1>0. World /\ Deletes /\ Typed /\ Sees(obs) /\ "other" \in Names
  BY WorldSees DEF EInv, World, Names
<1>1. /\ gone = {} /\ dir["other"] \in Objects /\ alone["other"] = Absent /\ Vacated(dir["other"])
      /\ dir["aside"] = alone["aside"]
  BY <1>0 DEF Deletes
<1>2. Known(s)
  BY <1>0, LookSays, SeenSays, NoStatSays
<1>3. Sees(obs')
  BY <1>0, <1>2 DEF Sees, NoObs
<1>4. /\ World' /\ UNCHANGED <<dir, facts, links, alone, admitted, taken, gone>>
      /\ call'.at = a /\ call'.op = call.op /\ Posix' = Posix
  BY <1>0, <1>3, LookWorld
<1>5. Vacated(dir["other"])' /\ (a = "unlink" => OfAdmitted(taken.old)' /\ Linked(taken.old)')
  BY <1>1, <1>4 DEF Vacated, OfAdmitted, Linked
<1>6. Deletes'
  BY <1>1, <1>4, <1>5 DEF Deletes, OnlyAdmitted, Admissions
<1> QED BY <1>0, <1>4, <1>6, DeletesOnly DEF Admissions

LEMMA DeleteObserveKeeps ==
  ASSUME EInv, UNCHANGED draft, DeleteObserve \/ WinDeleteObserve
  PROVE  EInv'
<1>0. /\ World /\ call.op = "delete" /\ call.at = "observe" /\ Deletes /\ Typed /\ Apart
      /\ "target" \in Names /\ "other" \in Names
      /\ (DeleteObserve => Posix) /\ (WinDeleteObserve => ~ Posix)
  BY DEF EInv, DeleteObserve, WinDeleteObserve, At, Posix, World, Names
<1>1. /\ gone = {} /\ OfAdmitted(obs.tgt) /\ Linked(obs.tgt) /\ MovedTo("other")
  BY <1>0 DEF Deletes
<1>2. CASE Answer("Unknown")
  BY <1>0, <1>1, <1>2, DeleteUnknownKeeps
<1>3. CASE DeleteObserve /\ ~ Answer("Unknown")
  <2>1. PICK m \in {Look("other"), NoStat}, a \in {"unlink", "roll_back"} :
          /\ obs' = [obs EXCEPT !.moved = m] /\ Goto(a) /\ UNCHANGED still
          /\ a = "unlink" => m # NoStat /\ SamePublished(obs.tgt, m)
    BY <1>3 DEF DeleteObserve
  <2>2. a = "unlink" => OfAdmitted(taken.old) /\ Linked(taken.old) /\ dir["other"] = admitted.id.obj
    BY <1>0, <1>1, <2>1, PublishedIsAdmitted
  <2> QED BY <1>0, <2>1, <2>2, DeleteLookKeeps
<1>4. CASE WinDeleteObserve /\ ~ Answer("Unknown")
  <2>1. PICK a \in {"unlink", "roll_back"} :
          /\ obs' = [obs EXCEPT !.moved = Seen("other")] /\ Goto(a) /\ UNCHANGED still
          /\ a = "unlink" => FollowsPin(Seen("other"), obs.tgt)
    BY <1>4 DEF WinDeleteObserve
  <2>2. ASSUME a = "unlink"
        PROVE  OfAdmitted(taken.old) /\ Linked(taken.old) /\ dir["other"] = admitted.id.obj
    <3>1. /\ Seen("other") # NoStat /\ Seen("other").obj = obs.tgt.obj
          /\ Seen("other").data = obs.tgt.data
      BY <2>1, <2>2, NoStatSays DEF FollowsPin, SameFile, SameObject
    <3>2. dir["other"] = obs.tgt.obj /\ facts[dir["other"]].data = obs.tgt.data
      BY <1>0, <3>1, SeenSays
    <3>3. /\ taken.old.obj = obs.tgt.obj /\ Known(taken.old) /\ taken.old # NoStat
          /\ obs.tgt.data <= taken.old.data /\ taken.old.data <= facts[dir["other"]].data
      BY <1>1, <3>2 DEF MovedTo
    <3>4. taken.old.data \in Nat /\ obs.tgt.data \in Nat
      BY <1>0, <1>1, <3>3 DEF OfAdmitted, Typed, Known
    <3>5. taken.old.data = obs.tgt.data
      BY <3>2, <3>3, <3>4
    <3> QED BY <1>0, <1>1, <1>4, <3>2, <3>3, <3>5 DEF OfAdmitted, Linked
  <2> QED BY <1>0, <2>1, <2>2, DeleteLookKeeps
<1> QED BY <1>2, <1>3, <1>4

\* A file that was set aside goes back to its name.
LEMMA PutBackSays ==
  ASSUME World, Deletes, call.op = "delete", call.at \in {"roll_back", "unlink_failed"},
         Renamed("other", "target"), dir["other"] # Absent, dir["target"] = Absent
  PROVE  /\ dir'["other"] = Absent /\ dir'["aside"] = dir["aside"]
         /\ alone["other"] = Absent /\ dir["aside"] = alone["aside"] /\ gone = {}
         /\ dir'["target"] = alone["target"] \/ alone["target"] = Absent
<1>1. /\ gone = {} /\ alone["other"] = Absent /\ Vacated(dir["other"]) /\ dir["aside"] = alone["aside"]
      /\ Apart /\ "target" \in Names /\ "other" \in Names /\ "aside" \in Names
  BY DEF Deletes, World, Names
<1>2. dir'["other"] = Absent /\ dir'["target"] = dir["other"] /\ dir'["aside"] = dir["aside"]
  BY <1>1, RenamedSays
<1> QED BY <1>1, <1>2 DEF Vacated

\* A refusal of a deletion that has put everything back.
LEMMA DeleteRefuses ==
  ASSUME EInv, UNCHANGED draft, World', call.op = "delete", call'.op = "delete", Posix' = Posix,
         call'.at = "done", call'.result # "ok", gone' = {}, dir'["other"] = alone'["other"],
         dir'["aside"] = alone'["aside"], dir'["target"] = alone'["target"] \/ alone'["target"] = Absent
  PROVE  EInv'
<1>1. NoneLost' /\ Committed' /\ MetadataKept'
  BY DEF NoneLost, Committed, MetadataKept, Succeeded
<1>2. RefusalChangesNothing'
  BY DEF RefusalChangesNothing
<1>3. call.op \notin Saves
  BY DEF Saves
<1> QED BY <1>1, <1>2, <1>3, EndKeeps DEF Ended

LEMMA DeleteRollBackKeeps ==
  ASSUME EInv, UNCHANGED draft, DeleteRollBack \/ WinRollBack("delete") \/ WinDeletePutBack
  PROVE  EInv'
<1>0. /\ World /\ call.op = "delete" /\ call.at \in {"roll_back", "unlink_failed"}
      /\ Deletes /\ Typed /\ Apart /\ "target" \in Names /\ "other" \in Names
  BY DEF EInv, DeleteRollBack, WinRollBack, WinDeletePutBack, At, World, Names
<1>1. gone = {}
  BY <1>0 DEF Deletes
<1>2. CASE Answer("Unknown")
  BY <1>0, <1>1, <1>2, DeleteUnknownKeeps
<1>3. CASE (DeleteRollBack \/ WinRollBack("delete")) /\ ~ Answer("Unknown")
  <2>1. PICK a \in {"rolled_back", "put_back"} :
          /\ Renamed("other", "target") /\ dir["other"] # Absent /\ dir["target"] = Absent
          /\ Goto(a) /\ UNCHANGED <<links, obs, rest, taken, gone>>
    BY <1>0, <1>3, WinMoveSays DEF DeleteRollBack, WinRollBack, CanMove
  <2>2. /\ World' /\ UNCHANGED <<links, alone, admitted, gone, obs>>
        /\ call'.at = a /\ call'.op = call.op /\ Posix' = Posix
    BY <1>0, <2>1, RenamedGoes
  <2>3. /\ dir'["other"] = Absent /\ dir'["aside"] = dir["aside"]
        /\ alone["other"] = Absent /\ dir["aside"] = alone["aside"] /\ gone = {}
        /\ dir'["target"] = alone["target"] \/ alone["target"] = Absent
    BY <1>0, <2>1, PutBackSays
  <2>4. Deletes'
    BY <2>2, <2>3 DEF Deletes, OnlyAdmitted, Admissions
  <2> QED BY <1>0, <2>2, <2>4, DeletesOnly DEF Admissions
<1>4. CASE WinDeletePutBack /\ ~ Answer("Unknown")
  <2>1. WinMove("other", "target") /\ Return("Storage") /\ UNCHANGED <<links, rest, taken, gone>>
    BY <1>4 DEF WinDeletePutBack
  <2>2. Renamed("other", "target") /\ dir["other"] # Absent /\ dir["target"] = Absent
    BY <1>0, <2>1, WinMoveSays
  <2>3. /\ Steps /\ call'.at = "done" /\ call'.op = call.op /\ call'.result = "Storage" /\ Posix' = Posix
    BY <1>0, <2>1, ReturnSays DEF Steps
  <2>4. World' /\ UNCHANGED <<alone, gone>>
    BY <1>0, <2>1, <2>2, <2>3, RenamedWorld
  <2>5. /\ dir'["other"] = Absent /\ dir'["aside"] = dir["aside"]
        /\ alone["other"] = Absent /\ dir["aside"] = alone["aside"] /\ gone = {}
        /\ dir'["target"] = alone["target"] \/ alone["target"] = Absent
    BY <1>0, <2>2, PutBackSays
  <2> QED BY <1>0, <2>3, <2>4, <2>5, DeleteRefuses
<1> QED BY <1>2, <1>3, <1>4

LEMMA DeleteRolledBackKeeps ==
  ASSUME EInv, UNCHANGED draft, DeleteRolledBack \/ WinRolledBack("delete")
  PROVE  EInv'
<1>0. /\ World /\ call.op = "delete" /\ call.at \in {"rolled_back", "put_back"} /\ Deletes
  BY DEF EInv, DeleteRolledBack, WinRolledBack, At
<1>1. /\ gone = {} /\ dir["other"] = alone["other"] /\ dir["aside"] = alone["aside"]
      /\ dir["target"] = alone["target"] \/ alone["target"] = Absent
  BY <1>0 DEF Deletes
<1>2. PICK r \in {"Unknown", "TargetChanged", "Storage"} : Answer(r)
  BY DEF DeleteRolledBack, WinRolledBack
<1>3. /\ World' /\ UNCHANGED <<dir, facts, links, alone, admitted, taken, gone>>
      /\ call'.at = "done" /\ call'.op = call.op /\ call'.result = r /\ Posix' = Posix
  BY <1>0, <1>2, AnswerWorld
<1> QED BY <1>0, <1>1, <1>3, DeleteRefuses

LEMMA DeleteEnds ==
  ASSUME EInv, UNCHANGED draft, World', call.op = "delete", call'.op = "delete", Posix' = Posix,
         call'.at = "done", call'.result = "ok", gone' \subseteq {admitted'.id.obj},
         dir'["aside"] = alone'["aside"], OfAdmitted(taken.old)', Linked(taken.old)'
  PROVE  EInv'
<1>1. NoneLost'
  BY DEF NoneLost, Removable
<1>2. Committed'
  BY DEF Committed, OfAdmitted, Linked, Saves
<1>3. MetadataKept' /\ RefusalChangesNothing'
  BY DEF MetadataKept, RefusalChangesNothing, Refused
<1>4. call.op \notin Saves
  BY DEF Saves
<1> QED BY <1>1, <1>2, <1>3, <1>4, EndKeeps DEF Ended

LEMMA DeleteUnlinkKeeps ==
  ASSUME EInv, UNCHANGED draft, DeleteUnlink \/ WinDeleteUnlink \/ DeleteConfirm
  PROVE  EInv'
<1>0. /\ World /\ call.op = "delete" /\ call.at \in {"unlink", "confirm"} /\ Deletes /\ Typed
      /\ "other" \in Names /\ "aside" \in Names
      /\ (DeleteConfirm => call.at = "confirm")
      /\ (DeleteUnlink \/ WinDeleteUnlink => call.at = "unlink")
  BY DEF EInv, DeleteUnlink, WinDeleteUnlink, DeleteConfirm, At, World, Names
<1>1. OfAdmitted(taken.old) /\ Linked(taken.old) /\ dir["aside"] = alone["aside"]
  BY <1>0 DEF Deletes
<1>2. CASE DeleteConfirm
  <2>1. gone \subseteq {admitted.id.obj}
    BY <1>0, <1>2 DEF Deletes, OnlyAdmitted
  <2>2. CASE Answer("Unknown")
    BY <1>0, <2>1, <2>2, DeleteUnknownKeeps
  <2>3. CASE ~ Answer("Unknown")
    <3>1. Answer("ok")
      BY <1>2, <2>3 DEF DeleteConfirm
    <3>2. /\ World' /\ UNCHANGED <<dir, facts, links, alone, admitted, taken, gone>>
          /\ call'.at = "done" /\ call'.op = call.op /\ call'.result = "ok" /\ Posix' = Posix
      BY <1>0, <3>1, AnswerWorld
    <3>3. OfAdmitted(taken.old)' /\ Linked(taken.old)'
      BY <1>1, <3>2 DEF OfAdmitted, Linked
    <3> QED BY <1>0, <1>1, <2>1, <3>2, <3>3, DeleteEnds
  <2> QED BY <2>2, <2>3
<1>3. CASE DeleteUnlink \/ WinDeleteUnlink
  <2>0. gone = {} /\ dir["other"] = admitted.id.obj /\ dir["other"] \in Objects
        /\ alone["other"] = Absent /\ Vacated(dir["other"])
    BY <1>0, <1>3 DEF Deletes
  <2>1. CASE Goto("unlink_failed") /\ UNCHANGED <<obs, still>>
    <3>1. /\ World' /\ UNCHANGED <<dir, facts, links, alone, admitted, taken, gone, obs>>
          /\ call'.at = "unlink_failed" /\ call'.op = call.op /\ Posix' = Posix
      BY <1>0, <2>1, WaitWorld
    <3>2. Deletes'
      BY <1>1, <2>0, <3>1 DEF Deletes, OnlyAdmitted, Admissions, Vacated
    <3> QED BY <1>0, <3>1, <3>2, DeletesOnly DEF Admissions
  <2>2. CASE ~ (Goto("unlink_failed") /\ UNCHANGED <<obs, still>>)
    <3>1. Unlinked("other") /\ UNCHANGED <<facts, links, rest, taken>>
          /\ (Return("ok") \/ (Goto("confirm") /\ UNCHANGED obs))
      BY <1>3, <2>2 DEF DeleteUnlink, WinDeleteUnlink
    <3>2. /\ Steps /\ call'.op = call.op /\ Posix' = Posix
          /\ (call'.at = "done" /\ call'.result = "ok") \/ call'.at = "confirm"
      BY <1>0, <3>1, GotoSays, ReturnSays, WorldSees DEF Steps
    <3>3. World' /\ UNCHANGED <<alone, admitted, taken>>
      BY <1>0, <3>1, <3>2, UnlinkedWorld
    <3>4. gone' \subseteq {admitted.id.obj} /\ dir'["aside"] = dir["aside"]
      BY <1>0, <2>0, <3>1, UnlinkedSays
    <3>5. OfAdmitted(taken.old)' /\ Linked(taken.old)'
      BY <1>1, <3>2, <3>3 DEF OfAdmitted, Linked
    <3>6. CASE call'.at = "done" /\ call'.result = "ok"
      BY <1>0, <1>1, <3>2, <3>3, <3>4, <3>5, <3>6, DeleteEnds
    <3>7. CASE call'.at = "confirm"
      <4>1. Deletes'
        BY <1>1, <3>3, <3>4, <3>5, <3>7 DEF Deletes, Admissions, OnlyAdmitted
      <4> QED BY <1>0, <3>2, <3>3, <3>7, <4>1, DeletesOnly DEF Admissions
    <3> QED BY <3>2, <3>6, <3>7
  <2> QED BY <2>1, <2>2
<1> QED BY <1>2, <1>3

\* Every step of a verified rename or deletion.
LEMMA MovesKeep ==
  ASSUME EInv, UNCHANGED draft, PosixRename \/ PosixDelete \/ WindowsMoves
  PROVE  EInv'
<1>1. CASE PosixRename
  BY <1>1, RenameBeginKeeps, RenameMoveKeeps, RenameObserveKeeps, RenameRollBackKeeps,
     RenameRolledBackKeeps DEF PosixRename
<1>2. CASE PosixDelete
  BY <1>2, DeleteBeginKeeps, DeleteMoveKeeps, DeleteObserveKeeps, DeleteRollBackKeeps,
     DeleteRolledBackKeeps, DeleteUnlinkKeeps DEF PosixDelete
<1>3. CASE WindowsMoves
  BY <1>3, RenameBeginKeeps, RenameMoveKeeps, RenameObserveKeeps, RenameRollBackKeeps,
     RenameRolledBackKeeps, DeleteBeginKeeps, DeleteMoveKeeps, DeleteObserveKeeps,
     DeleteRollBackKeeps, DeleteRolledBackKeeps, DeleteUnlinkKeeps DEF WindowsMoves
<1> QED BY <1>1, <1>2, <1>3
-------------------------------------------------------------------------------
(* A step of something else.                                                     *)

LEMMA StutterKeeps ==
  ASSUME EInv, UNCHANGED <<vars, draft>>
  PROVE  EInv'
<1>1. UNCHANGED <<dir, facts, links, bound, call, obs, admitted, alone, taken, gone, foreign, draft>>
  BY DEF vars
<1>2. World'
  BY <1>1 DEF EInv, World, Typed, Known, Twice, Posix, Used, Apart
<1>3. Admission' /\ Opens' /\ Plains'
  BY <1>1 DEF EInv, Admission, Opens, Plains, Untouched, Stage, Look, Stat, LinkCount, NamesOf
<1>4. PosixReplaces'
  BY <1>1 DEF EInv, PosixReplaces, Posix, Untouched, Grown, Used, OfAdmitted, Linked, CandidateIs,
              NewTaken, Displaced, MovedTo, Known
<1>5. WindowsReplaces'
  BY <1>1 DEF EInv, WindowsReplaces, Posix, Untouched, Grown, Used, OfAdmitted, Linked, CandidateIs,
              NewTaken, Displaced, MovedTo, Known
<1>6. Moves' /\ Deletes'
  <2>1. Moves'
    BY <1>1 DEF EInv, Moves, Posix, Untouched, Grown, Used, OfAdmitted, Linked, Vacated, MovedTo, Known,
                OnlyAdmitted
  <2>2. Deletes'
    BY <1>1 DEF EInv, Deletes, Posix, Untouched, Grown, Used, OfAdmitted, Linked, Vacated, MovedTo, Known,
                OnlyAdmitted
  <2> QED BY <2>1, <2>2
<1>7. SaveInv' /\ BaseInv'
  BY <1>1 DEF EInv, SaveInv, BaseInv, NoneLost, Removable, Posix, Known
<1>8. Ended => Ended'
  BY <1>1 DEF Ended, NoneLost, Removable, RefusalChangesNothing, Refused, Misplaced,
              Committed, MetadataKept, Succeeded, Posix
<1> QED BY <1>1, <1>2, <1>3, <1>4, <1>5, <1>6, <1>7, <1>8 DEF EInv
-------------------------------------------------------------------------------
(* The calls that open a file, and the list.                                     *)

LEMMA OpensOnly ==
  ASSUME EInv, World', Posix' = Posix, call.op \in {"read", "create", "list"}, call'.op = call.op,
         call'.at # "done", UNCHANGED <<draft, dir, alone, gone>>,
         call.at # "done", call'.at \notin {"inspect_open", "inspect_metadata"}
  PROVE  EInv'
<1>1. Untouched'
  BY DEF EInv, Opens, Untouched
<1>2. PosixReplaces' /\ WindowsReplaces' /\ Moves' /\ Deletes' /\ Plains' /\ SaveInv'
  BY DEF PosixReplaces, WindowsReplaces, Moves, Deletes, Plains, SaveInv, Stage, Saves
<1>3. BaseInv'
  BY DEF EInv, BaseInv
<1>4. Admission' /\ Opens'
  BY <1>1 DEF Admission, Opens
<1> QED BY <1>2, <1>3, <1>4 DEF EInv

\* These calls remove nothing, and a list promises no more than that here.
LEMMA OpensEnd ==
  ASSUME EInv, World', Posix' = Posix, call.op \in {"read", "create", "list"}, call'.op = call.op,
         call'.at = "done", UNCHANGED draft, gone' = {},
         call'.result = "ok" \/ dir' = alone',
         call.op = "read" /\ call'.result = "ok" => OfAdmitted(taken.old)' /\ Linked(taken.old)'
  PROVE  EInv'
<1>1. NoneLost'
  BY DEF NoneLost
<1>2. RefusalChangesNothing'
  BY DEF RefusalChangesNothing, Refused
<1>3. Committed' /\ MetadataKept'
  BY DEF Committed, MetadataKept, Succeeded, Verified, Saves, OfAdmitted, Linked
<1> QED BY <1>1, <1>2, <1>3, EndKeeps DEF Ended, Saves

LEMMA OpenKeeps ==
  ASSUME EInv, UNCHANGED draft, OpenNext
  PROVE  EInv'
<1>0. PICK p \in {"posix", "windows"} :
        ReadOpenFile(p) \/ ReadMatch(p) \/ CreateMatch(p) \/ CreateFile(p)
  BY DEF OpenNext
<1>1. /\ World /\ call.op \in {"read", "create", "list"} /\ call.op \notin Saves /\ call.at # "done"
      /\ Untouched /\ gone = {} /\ dir = alone /\ Typed /\ Sees(obs)
      /\ "target" \in Names /\ "other" \in Names /\ Posix = (p = "posix")
  BY <1>0, WorldSees DEF EInv, ReadOpenFile, ReadMatch, CreateMatch, CreateFile, At, Posix, Saves, World,
     Names, Opens, Untouched
<1>2. ASSUME NEW r, r # "ok", Answer(r)
      PROVE  EInv'
  BY <1>1, <1>2, RefuseKeeps
<1>3. CASE ReadOpenFile(p)
  <2>1. CASE Answer("Storage") \/ Answer("NotFound") \/ Answer("TargetChanged")
    BY <1>2, <2>1
  <2>2. CASE ~ (Answer("Storage") \/ Answer("NotFound") \/ Answer("TargetChanged"))
    <3>1. /\ obs' = [obs EXCEPT !.tgt = PathLook] /\ Goto("match") /\ UNCHANGED still
      BY <1>3, <2>2 DEF ReadOpenFile
    <3>2. Known(PathLook) /\ Twice(PathLook)
      BY <1>1, LookSays, NoStatSays DEF PathLook
    <3>3. Sees(obs')
      BY <1>1, <3>1, <3>2 DEF Sees, NoObs
    <3>4. /\ World' /\ UNCHANGED <<dir, alone, gone>>
          /\ call'.at = "match" /\ call'.op = call.op /\ Posix' = Posix
      BY <1>1, <3>1, <3>3, LookWorld
    <3> QED BY <1>1, <3>4, OpensOnly
  <2> QED BY <2>1, <2>2
<1>4. CASE ReadMatch(p)
  <2> DEFINE now == Stat(obs.tgt.obj)
  <2>1. CASE Answer("TargetChanged")
    BY <1>2, <2>1
  <2>2. CASE ~ Answer("TargetChanged")
    <3>1. /\ IF p = "posix" THEN IdentityMatches(now, admitted.id)
                ELSE SameObject(now, admitted.id) /\ now.data = admitted.id.data
          /\ taken' = [taken EXCEPT !.old = now]
          /\ Return("ok") /\ UNCHANGED <<disk, rest, gone>>
      BY <1>4, <2>2 DEF ReadMatch
    <3>2. now.obj = admitted.id.obj /\ now.obj # Absent /\ now.data = admitted.id.data
          /\ now.obj = obs.tgt.obj
      BY <3>1, MatchSays DEF SameObject, Stat
    <3>3. obs.tgt.obj \in Objects
      BY <1>1, <3>2, NoStatSays DEF Sees, Known
    <3>4. now # NoStat /\ Twice(now)
      BY <1>1, <3>3, StatSays
    <3>5. Posix => now.links = admitted.id.links
      <4> SUFFICES ASSUME Posix PROVE now.links = admitted.id.links
        OBVIOUS
      <4>1. IdentityMatches(now, admitted.id) /\ admitted.id # NoStat
        BY <1>1, <3>1, <3>2, NoStatSays
      <4>2. Twice(admitted.id)
        BY <1>1, <1>4 DEF World, Verified, ReadMatch, At
      <4> QED BY <3>4, <4>1, <4>2, MatchLinks
    <3>6. /\ call'.at = "done" /\ call'.op = call.op /\ call'.result = "ok" /\ Posix' = Posix /\ Steps
      BY <1>1, <3>1, ReturnSays DEF Steps
    <3>7. /\ UNCHANGED <<dir, facts, links, bound, admitted, alone, gone>>
          /\ taken'.old = now /\ DOMAIN taken' = DOMAIN taken
      BY <1>1, <3>1 DEF disk, rest, Typed
    <3>8. \A n \in Names : Used(dir[n])'
      BY <1>1, <3>7 DEF World, Used
    <3>9. World'
      BY <1>1, <3>6, <3>7, <3>8, StepWorld DEF Typed, FactsOf
    <3>10. OfAdmitted(taken.old)' /\ Linked(taken.old)'
      BY <3>2, <3>4, <3>5, <3>6, <3>7 DEF OfAdmitted, Linked
    <3> QED BY <1>1, <3>6, <3>7, <3>9, <3>10, OpensEnd
  <2> QED BY <2>1, <2>2
<1>5. CASE CreateMatch(p)
  <2>1. CASE Answer("Storage") \/ Answer("DestinationExists") \/ Answer("TargetChanged")
    BY <1>2, <2>1
  <2>2. CASE ~ (Answer("Storage") \/ Answer("DestinationExists") \/ Answer("TargetChanged"))
    <3>1. Goto("create") /\ UNCHANGED <<obs, still>>
      BY <1>5, <2>2 DEF CreateMatch
    <3>2. /\ World' /\ UNCHANGED <<dir, alone, gone>>
          /\ call'.at = "create" /\ call'.op = call.op /\ Posix' = Posix
      BY <1>1, <3>1, WaitWorld
    <3> QED BY <1>1, <3>2, OpensOnly
  <2> QED BY <2>1, <2>2
<1>6. CASE CreateFile(p)
  <2>1. CASE Answer("Storage") \/ Answer("DestinationExists")
    BY <1>2, <2>1
  <2>2. CASE Answer("ok")
    <3>1. /\ World' /\ UNCHANGED <<dir, alone, gone>> /\ call'.at = "done" /\ call'.op = call.op
          /\ Posix' = Posix /\ call.op = "create"
      BY <1>1, <1>6, <2>2, AnswerWorld DEF CreateFile, At
    <3> QED BY <1>1, <3>1, OpensEnd
  <2>3. CASE ~ (Answer("Storage") \/ Answer("DestinationExists") \/ Answer("ok"))
    <3>1. /\ dir' = [dir EXCEPT !["other"] = Candidate] /\ call.op = "create"
          /\ Return("ok") /\ UNCHANGED <<facts, links, rest, taken, gone>>
      BY <1>6, <2>3 DEF CreateFile, At
    <3>2. /\ call'.at = "done" /\ call'.op = call.op /\ call'.result = "ok" /\ Posix' = Posix /\ Steps
      BY <1>1, <3>1, ReturnSays DEF Steps
    <3>3. UNCHANGED <<facts, links, bound, admitted, alone, taken, gone>>
      BY <3>1 DEF rest
    <3>4. /\ dir' \in [Names -> Objects \cup {Absent}]
          /\ \A n \in Names : dir'[n] = dir[n] \/ dir'[n] = Candidate
      BY <1>1, <3>1 DEF Typed, Objects
    <3>5. \A n \in Names : Used(dir[n])'
      BY <1>1, <3>3, <3>4, EntryAssumption DEF World, Used
    <3>6. World'
      BY <1>1, <3>1, <3>2, <3>3, <3>4, <3>5, StepWorld DEF Typed, FactsOf
    <3> QED BY <1>1, <3>1, <3>2, <3>3, <3>6, OpensEnd
  <2> QED BY <2>1, <2>2, <2>3
<1> QED BY <1>0, <1>3, <1>4, <1>5, <1>6

LEMMA ListSteps ==
  ASSUME WalkNext \/ TreeNext
  PROVE  \/ UNCHANGED vars
         \/ /\ call.op = "list" /\ call.at # "done" /\ call.at # "cleanup"
            /\ \/ \E a \in {"open", "scan", "read", "start", "mark", "snap", "classify", "inspect", "verify"} :
                    Goto(a) /\ UNCHANGED <<still, obs>>
               \/ \E r : Answer(r)
<1>1. CASE TreeNext
  BY <1>1 DEF TreeNext, PlaceEntry, WriteFile, Reroute, TreeStep
<1>2. CASE VerifyRoot \/ PosixStart \/ WindowsStart \/ PosixOpen \/ WindowsOpen
  BY <1>2 DEF VerifyRoot, PosixStart, WindowsStart, PosixOpen, WindowsOpen, OpenFolder, AtList,
              Proceed, Fail
<1>3. CASE PosixScan \/ WindowsScan \/ EndFolder
  BY <1>3 DEF PosixScan, WindowsScan, EndFolder, ScanFolder, CloseFolder, AtList, Proceed
<1>4. CASE \E n \in Slots : PosixRead(n) \/ WindowsRead(n)
  BY <1>4 DEF PosixRead, WindowsRead, Returns, Entered, AtList, Proceed, Fail
<1>5. CASE PosixMark \/ PosixSnapshot \/ WindowsSnapshot \/ ReturnWalk
  BY <1>5 DEF PosixMark, PosixSnapshot, WindowsSnapshot, ReturnWalk, AtList, Proceed, Fail
<1>6. CASE ReverifyEntry \/ InspectEntry \/ ConfirmList \/ AnswerList
  BY <1>6 DEF ReverifyEntry, InspectEntry, ConfirmList, AnswerList, AtList, Proceed, Fail
<1> QED BY <1>1, <1>2, <1>3, <1>4, <1>5, <1>6 DEF WalkNext

\* The walk of a list only reads, and ends in an answer.
LEMMA ListKeeps ==
  ASSUME EInv, UNCHANGED draft, WalkNext \/ TreeNext
  PROVE  EInv'
<1>0. World /\ (call.op = "list" => call.op \in {"read", "create", "list"} /\ call.op # "read")
  BY DEF EInv
<1>1. CASE UNCHANGED vars
  BY <1>1, StutterKeeps
<1>2. ASSUME call.op = "list", call.at # "done",
             NEW a \in {"open", "scan", "read", "start", "mark", "snap", "classify", "inspect", "verify"},
             Goto(a), UNCHANGED <<still, obs>>
      PROVE  EInv'
  <2>1. /\ World' /\ UNCHANGED <<dir, alone, gone>>
        /\ call'.at = a /\ call'.op = call.op /\ Posix' = Posix
    BY <1>0, <1>2, WaitWorld
  <2> QED BY <1>0, <1>2, <2>1, OpensOnly
<1>3. ASSUME call.op = "list", call.at # "done", NEW r, Answer(r)
      PROVE  EInv'
  <2>1. /\ World' /\ UNCHANGED <<dir, alone, gone>>
        /\ call'.at = "done" /\ call'.op = call.op /\ Posix' = Posix
    BY <1>0, <1>3, AnswerWorld
  <2>2. gone' = {} /\ dir' = alone'
    BY <1>3, <2>1 DEF EInv, Opens, Untouched
  <2> QED BY <1>0, <1>3, <2>1, <2>2, OpensEnd
<1> QED BY <1>1, <1>2, <1>3, ListSteps
-------------------------------------------------------------------------------
(* The calls for yaca's own files, where nobody else works.                      *)

Stores == {"plain_replace", "plain_rename", "plain_delete"}

LEMMA StoresOnly ==
  ASSUME EInv, World', call.op \in Stores, call'.op = call.op, Posix' = Posix, UNCHANGED draft,
         call'.at # "done", Plains'
  PROVE  EInv'
<1>1. PosixReplaces' /\ WindowsReplaces' /\ Moves' /\ Deletes' /\ Opens' /\ SaveInv' /\ Admission'
  BY DEF Stores, PosixReplaces, WindowsReplaces, Moves, Deletes, Opens, SaveInv, Saves, Admission,
         Verified
<1>2. BaseInv'
  BY DEF EInv, BaseInv, Stores
<1> QED BY <1>1, <1>2 DEF EInv

LEMMA StoresEnd ==
  ASSUME EInv, World', call.op \in Stores, call'.op = call.op, Posix' = Posix, UNCHANGED draft,
         call'.at = "done", NoneLost', RefusalChangesNothing', Committed'
  PROVE  EInv'
<1>1. MetadataKept'
  BY DEF MetadataKept, Stores
<1> QED BY <1>1, EndKeeps DEF Ended, Stores, Saves

\* Outside a save of the configuration a refusal is an answer.
LEMMA RefusalAnswers ==
  ASSUME call.op \notin Saves
  PROVE  /\ \A r : Refusal(r) => Answer(r)
         /\ \A r : Refuse(r) => Return(r)
         /\ Accomplish => Return("ok")
         /\ From = "target" /\ To = "other"
BY DEF Refusal, Refuse, Answer, Accomplish, From, To, Saves

LEMMA StoreReplaceKeeps ==
  ASSUME EInv, UNCHANGED draft, call.op = "plain_replace",
         PlainReplaceLook \/ PlainReplace \/ PlainReplaceHalf
  PROVE  EInv'
<1>0. /\ World /\ Typed /\ call.op \in Stores /\ call.op \notin Saves /\ call.at \in {"start", "rename"}
      /\ Untouched /\ dir["target"] = admitted.id.obj /\ gone = {} /\ dir = alone
      /\ "target" \in Names /\ "other" \in Names /\ "aside" \in Names
  BY DEF EInv, World, Stores, Saves, PlainReplaceLook, PlainReplace, PlainReplaceHalf, Is, Plains,
         Stage, Untouched, Names
<1>1. ASSUME NEW r, r # "ok", Refusal(r)
      PROVE  EInv'
  BY <1>0, <1>1, RefusalAnswers, RefuseKeeps
<1>2. CASE PlainReplaceLook
  <2>1. CASE Refusal("Storage") \/ Refusal("NotFound")
    BY <1>1, <2>1
  <2>2. CASE ~ (Refusal("Storage") \/ Refusal("NotFound"))
    <3>1. Goto("rename") /\ UNCHANGED <<obs, still>>
      BY <1>2, <2>2 DEF PlainReplaceLook
    <3>2. /\ World' /\ UNCHANGED <<dir, alone, gone, admitted>>
          /\ call'.at = "rename" /\ call'.op = call.op /\ Posix' = Posix
      BY <1>0, <3>1, WaitWorld
    <3>3. Plains'
      BY <1>0, <3>2 DEF Plains, Stage, Untouched
    <3> QED BY <1>0, <3>2, <3>3, StoresOnly
  <2> QED BY <2>1, <2>2
<1>3. CASE PlainReplace
  <2>1. CASE Refusal("Storage")
    BY <1>1, <2>1
  <2>2. CASE ~ Refusal("Storage")
    <3>1. /\ dir["other"] # Absent
          /\ dir' = [dir EXCEPT !["target"] = dir["other"], !["other"] = Absent]
          /\ facts' = Moved(facts, dir["other"])
          /\ gone' = IF dir["target"] # Absent /\ links[dir["target"]] = 0
                     THEN gone \cup {dir["target"]} ELSE gone
          /\ taken' = [old |-> Look("target"), new |-> Look("other"),
                       extra |-> facts[dir["other"]].extra]
          /\ Return("ok") /\ UNCHANGED <<links, rest>>
      BY <1>0, <1>3, <2>2, RefusalAnswers DEF PlainReplace
    <3>2. /\ call'.at = "done" /\ call'.op = call.op /\ call'.result = "ok" /\ Posix' = Posix /\ Steps
      BY <1>0, <3>1, ReturnSays DEF Steps
    <3>3. UNCHANGED <<links, bound, alone, admitted>> /\ DOMAIN taken' = DOMAIN taken
      BY <1>0, <3>1 DEF rest, Typed
    <3>4. gone' \subseteq {admitted.id.obj} /\ gone' \subseteq Objects
      BY <1>0, <3>1 DEF Typed
    <3>5. /\ dir \in [Names -> Objects \cup {Absent}] /\ facts \in [Objects -> FactsOf]
          /\ dir["other"] \in Objects
      BY <1>0, <3>1 DEF Typed, FactsOf
    <3>6. /\ dir' \in [Names -> Objects \cup {Absent}]
          /\ \A n \in Names : \E m \in Names : dir'[n] \in {dir[m], Absent}
      BY <1>0, <3>1, <3>5
    <3>7. /\ facts' \in [Objects -> FactsOf]
          /\ \A o \in Objects : facts'[o].moves >= facts[o].moves
      BY <3>1, <3>5, MovedSays
    <3>8. \A n \in Names : Used(dir[n])'
      BY <1>0, <3>6, <3>7, StillUsed
    <3>9. World'
      BY <1>0, <3>2, <3>3, <3>4, <3>6, <3>7, <3>8, StepWorld
    <3>10. NoneLost'
      BY <1>0, <3>2, <3>3, <3>4 DEF NoneLost, Removable
    <3>11. RefusalChangesNothing' /\ Committed'
      BY <1>0, <3>2 DEF RefusalChangesNothing, Refused, Committed, Verified, Saves
    <3> QED BY <1>0, <3>2, <3>9, <3>10, <3>11, StoresEnd
  <2> QED BY <2>1, <2>2
<1>4. CASE PlainReplaceHalf
  <2>1. /\ ~ Posix /\ Unlinked("target") /\ Return("Storage") /\ UNCHANGED <<facts, links, rest, taken>>
    BY <1>0, <1>4, RefusalAnswers DEF PlainReplaceHalf, Is, Posix
  <2>2. /\ call'.at = "done" /\ call'.op = call.op /\ call'.result = "Storage" /\ Posix' = Posix /\ Steps
    BY <1>0, <2>1, ReturnSays DEF Steps
  <2>3. World' /\ UNCHANGED <<alone, admitted>>
    BY <1>0, <2>1, <2>2, UnlinkedWorld
  <2>4. /\ dir'["target"] = Absent /\ dir'["other"] = dir["other"] /\ dir'["aside"] = dir["aside"]
        /\ gone' \subseteq {admitted.id.obj}
    BY <1>0, <2>1, UnlinkedSays
  <2>5. NoneLost'
    BY <1>0, <2>2, <2>3, <2>4 DEF NoneLost, Removable
  <2>6. RefusalChangesNothing'
    BY <1>0, <2>1, <2>2, <2>3, <2>4 DEF RefusalChangesNothing, Replaces
  <2>7. Committed'
    BY <2>2 DEF Committed, Succeeded
  <2> QED BY <1>0, <2>2, <2>3, <2>5, <2>6, <2>7, StoresEnd
<1> QED BY <1>2, <1>3, <1>4

LEMMA StoreRenameKeeps ==
  ASSUME EInv, UNCHANGED draft, call.op = "plain_rename",
         PlainLink \/ PlainUnlink \/ PlainUndo \/ PlainMove
  PROVE  EInv'
<1>0. /\ World /\ Typed /\ call.op \in Stores /\ call.op \notin Saves /\ Plains /\ gone = {}
      /\ From = "target" /\ To = "other" /\ call.at \in {"start", "unlink", "undo"}
      /\ "target" \in Names /\ "other" \in Names /\ "aside" \in Names
  BY RefusalAnswers
     DEF EInv, World, Stores, Saves, PlainLink, PlainUnlink, PlainUndo, PlainMove, Is, Plains,
         Stage, Untouched, Names
<1>1. ASSUME NEW r, r # "ok", Refusal(r), call.at = "start"
      PROVE  EInv'
  <2>1. Untouched
    BY <1>0, <1>1 DEF Plains, Stage
  <2> QED BY <1>0, <1>1, <2>1, RefusalAnswers, RefuseKeeps
<1>2. CASE PlainLink
  <2>0. call.at = "start" /\ dir = alone
    BY <1>0, <1>2 DEF PlainLink, Is, Plains, Stage, Untouched
  <2>1. CASE Refusal("Storage") \/ Refusal("DestinationExists")
    BY <1>1, <2>0, <2>1
  <2>2. CASE ~ (Refusal("Storage") \/ Refusal("DestinationExists"))
    <3>1. /\ dir["target"] # Absent /\ dir["other"] = Absent
          /\ dir' = [dir EXCEPT !["other"] = dir["target"]]
          /\ Took /\ Goto("unlink") /\ UNCHANGED <<facts, links, obs, rest, gone>>
      BY <1>0, <1>2, <2>2 DEF PlainLink
    <3>2. /\ call'.at = "unlink" /\ call'.op = call.op /\ Posix' = Posix /\ Steps
      BY <1>0, <3>1, GotoSays, WorldSees DEF Steps
    <3>3. UNCHANGED <<facts, links, bound, alone, admitted, gone>> /\ DOMAIN taken' = DOMAIN taken
      BY <1>0, <3>1 DEF rest, Typed, Took
    <3>4. /\ dir \in [Names -> Objects \cup {Absent}] /\ facts' \in [Objects -> FactsOf]
          /\ gone' \subseteq Objects
      BY <1>0, <3>3 DEF Typed, FactsOf
    <3>5. /\ dir' \in [Names -> Objects \cup {Absent}]
          /\ \A n \in Names : \E m \in Names : dir'[n] \in {dir[m], Absent}
          /\ dir'["other"] = dir["target"] /\ dir'["target"] = dir["target"]
          /\ dir'["aside"] = dir["aside"]
      BY <1>0, <3>1, <3>4
    <3>6. \A o \in Objects : facts'[o].moves >= facts[o].moves
      BY <1>0, <3>3 DEF Typed
    <3>7. \A n \in Names : Used(dir[n])'
      BY <1>0, <3>4, <3>5, <3>6, StillUsed
    <3>8. World'
      BY <1>0, <3>2, <3>3, <3>4, <3>5, <3>7, StepWorld DEF Stores
    <3>9. Plains'
      BY <1>0, <2>0, <3>1, <3>2, <3>3, <3>5 DEF Plains, Stage
    <3> QED BY <1>0, <3>2, <3>8, <3>9, StoresOnly
  <2> QED BY <2>1, <2>2
<1>3. ASSUME call.at \in {"unlink", "undo"}
      PROVE  /\ dir["target"] # Absent /\ dir["other"] = dir["target"]
             /\ dir["target"] = alone["target"] /\ alone["other"] = Absent
             /\ dir["aside"] = alone["aside"]
  BY <1>0, <1>3 DEF Plains, Stage
\* Two names lead to the file: one of them is removed and the file stays.
<1>4. ASSUME call.at \in {"unlink", "undo"}, NEW n \in {"target", "other"}, Unlinked(n), NEW r, Return(r),
             UNCHANGED <<facts, links, rest, taken>>
      PROVE  /\ World' /\ UNCHANGED <<alone, admitted>> /\ gone' = {}
             /\ dir'[n] = Absent /\ \A m \in Names : m # n => dir'[m] = dir[m]
             /\ call'.at = "done" /\ call'.op = call.op /\ call'.result = r /\ Posix' = Posix
  <2>1. /\ call'.at = "done" /\ call'.op = call.op /\ call'.result = r /\ Posix' = Posix /\ Steps
    BY <1>0, <1>4, ReturnSays DEF Steps
  <2>2. World' /\ UNCHANGED <<alone, admitted>>
    BY <1>0, <1>4, <2>1, UnlinkedWorld
  <2>3. /\ dir'[n] = Absent /\ \A m \in Names : m # n => dir'[m] = dir[m]
    BY <1>0, <1>4, UnlinkedSays
  <2>4. NamesOf(dir[n], dir') # {}
    <3>1. CASE n = "target"
      BY <1>0, <1>3, <1>4, <2>3, <3>1 DEF NamesOf
    <3>2. CASE n = "other"
      BY <1>0, <1>3, <1>4, <2>3, <3>2 DEF NamesOf
    <3> QED BY <3>1, <3>2
  <2>5. gone' = {}
    BY <1>0, <1>4, <2>4 DEF Unlinked
  <2> QED BY <2>1, <2>2, <2>3, <2>5
<1>5. CASE PlainUnlink
  <2>0. call.at = "unlink"
    BY <1>5 DEF PlainUnlink, Is
  <2>1. CASE Goto("undo") /\ UNCHANGED <<obs, still>>
    <3>1. /\ World' /\ UNCHANGED <<dir, alone, gone, admitted>>
          /\ call'.at = "undo" /\ call'.op = call.op /\ Posix' = Posix
      BY <1>0, <2>1, WaitWorld
    <3>2. Plains'
      BY <1>0, <1>3, <2>0, <3>1 DEF Plains, Stage
    <3> QED BY <1>0, <3>1, <3>2, StoresOnly
  <2>2. CASE Unlinked("target") /\ Return("ok") /\ UNCHANGED <<facts, links, rest, taken>>
    <3>1. /\ World' /\ gone' = {} /\ call'.at = "done" /\ call'.op = call.op /\ call'.result = "ok"
          /\ Posix' = Posix
      BY <1>4, <2>0, <2>2
    <3>2. NoneLost'
      BY <3>1 DEF NoneLost
    <3>3. RefusalChangesNothing' /\ Committed'
      BY <1>0, <3>1 DEF RefusalChangesNothing, Refused, Committed, Verified, Saves, Stores
    <3> QED BY <1>0, <3>1, <3>2, <3>3, StoresEnd
  <2> QED BY <1>0, <1>5, <2>1, <2>2, RefusalAnswers DEF PlainUnlink
<1>6. CASE PlainUndo
  <2>0. call.at = "undo"
    BY <1>6 DEF PlainUndo, Is
  <2>1. CASE Refusal("Unknown")
    <3>1. Answer("Unknown") /\ gone' = {}
      BY <1>0, <2>1, RefusalAnswers DEF Answer, still
    <3>2. NoneLost'
      BY <3>1 DEF NoneLost
    <3> QED BY <1>0, <3>1, <3>2, UnknownKeeps
  <2>2. CASE Unlinked("other") /\ Return("Storage") /\ UNCHANGED <<facts, links, rest, taken>>
    <3>1. /\ World' /\ gone' = {} /\ call'.at = "done" /\ call'.op = call.op /\ call'.result = "Storage"
          /\ Posix' = Posix /\ UNCHANGED alone
          /\ dir'["other"] = Absent /\ dir'["target"] = dir["target"] /\ dir'["aside"] = dir["aside"]
      BY <1>0, <1>4, <2>0, <2>2
    <3>2. NoneLost'
      BY <3>1 DEF NoneLost
    <3>3. RefusalChangesNothing'
      BY <1>3, <2>0, <3>1 DEF RefusalChangesNothing
    <3>4. Committed'
      BY <3>1 DEF Committed, Succeeded
    <3> QED BY <1>0, <3>1, <3>2, <3>3, <3>4, StoresEnd
  <2> QED BY <1>0, <1>6, <2>1, <2>2, RefusalAnswers DEF PlainUndo
<1>7. CASE PlainMove
  <2>0. call.at = "start"
    BY <1>7 DEF PlainMove, Is
  <2>1. CASE Refusal("Storage") \/ Refusal("DestinationExists")
    BY <1>1, <2>0, <2>1
  <2>2. CASE ~ (Refusal("Storage") \/ Refusal("DestinationExists"))
    <3>1. /\ dir["target"] # Absent /\ dir["other"] = Absent
          /\ dir' = [dir EXCEPT !["target"] = Absent, !["other"] = dir["target"]]
          /\ facts' = Moved(facts, dir["target"])
          /\ Took /\ Return("ok") /\ UNCHANGED <<links, rest, gone>>
      BY <1>0, <1>7, <2>2, RefusalAnswers DEF PlainMove
    <3>2. /\ call'.at = "done" /\ call'.op = call.op /\ call'.result = "ok" /\ Posix' = Posix /\ Steps
      BY <1>0, <3>1, ReturnSays DEF Steps
    <3>3. UNCHANGED <<links, bound, alone, admitted, gone>> /\ DOMAIN taken' = DOMAIN taken
      BY <1>0, <3>1 DEF rest, Typed, Took
    <3>4. /\ dir \in [Names -> Objects \cup {Absent}] /\ facts \in [Objects -> FactsOf]
          /\ gone' \subseteq Objects /\ dir["target"] \in Objects
      BY <1>0, <3>1, <3>3 DEF Typed, FactsOf
    <3>5. /\ dir' \in [Names -> Objects \cup {Absent}]
          /\ \A n \in Names : \E m \in Names : dir'[n] \in {dir[m], Absent}
      BY <1>0, <3>1, <3>4
    <3>6. /\ facts' \in [Objects -> FactsOf]
          /\ \A o \in Objects : facts'[o].moves >= facts[o].moves
      BY <3>1, <3>4, MovedSays
    <3>7. \A n \in Names : Used(dir[n])'
      BY <1>0, <3>5, <3>6, StillUsed
    <3>8. World'
      BY <1>0, <3>2, <3>3, <3>4, <3>5, <3>6, <3>7, StepWorld DEF Stores
    <3>9. NoneLost'
      BY <1>0, <3>3 DEF NoneLost
    <3>10. RefusalChangesNothing' /\ Committed'
      BY <1>0, <3>2 DEF RefusalChangesNothing, Refused, Committed, Verified, Saves, Stores
    <3> QED BY <1>0, <3>2, <3>8, <3>9, <3>10, StoresEnd
  <2> QED BY <2>1, <2>2
<1> QED BY <1>2, <1>5, <1>6, <1>7

LEMMA StoreDeleteKeeps ==
  ASSUME EInv, UNCHANGED draft, NEW p \in {"posix", "windows"}, PlainDeleteMatch(p) \/ PlainDelete(p)
  PROVE  EInv'
<1>0. /\ World /\ Typed /\ call.op = "plain_delete" /\ call.op \in Stores /\ call.op \notin Saves
      /\ call.at \in {"start", "unlink"} /\ Untouched /\ Look("target") = admitted.id /\ gone = {}
      /\ dir["target"] = admitted.id.obj /\ "target" \in Names
  BY LookSays DEF EInv, World, Stores, Saves, PlainDeleteMatch, PlainDelete, At, Plains, Stage, Untouched,
         Names
<1>1. ASSUME NEW r, r # "ok", Answer(r)
      PROVE  EInv'
  BY <1>0, <1>1, RefuseKeeps
<1>2. CASE PlainDeleteMatch(p)
  <2>1. CASE Answer("Storage") \/ Answer("TargetChanged")
    BY <1>1, <2>1
  <2>2. CASE ~ (Answer("Storage") \/ Answer("TargetChanged"))
    <3>1. Goto("unlink") /\ UNCHANGED <<obs, still>>
      BY <1>2, <2>2 DEF PlainDeleteMatch, Fails
    <3>2. /\ World' /\ UNCHANGED <<dir, facts, links, alone, gone, admitted>>
          /\ call'.at = "unlink" /\ call'.op = call.op /\ Posix' = Posix
      BY <1>0, <3>1, WaitWorld
    <3>3. Look("target")' = Look("target")
      BY <3>2 DEF Look, Stat, LinkCount, NamesOf
    <3>4. Plains'
      BY <1>0, <3>2, <3>3 DEF Plains, Stage, Untouched
    <3> QED BY <1>0, <3>2, <3>4, StoresOnly
  <2> QED BY <2>1, <2>2
<1>3. CASE PlainDelete(p)
  <2>1. CASE Answer("Storage")
    BY <1>1, <2>1
  <2>2. CASE ~ Answer("Storage")
    <3>1. /\ taken' = [taken EXCEPT !.old = Look("target")]
          /\ Unlinked("target") /\ Return("ok") /\ UNCHANGED <<facts, links, rest>>
      BY <1>3, <2>2 DEF PlainDelete, Fails
    <3>2. /\ call'.at = "done" /\ call'.op = call.op /\ call'.result = "ok" /\ Posix' = Posix /\ Steps
      BY <1>0, <3>1, ReturnSays DEF Steps
    <3>3. DOMAIN taken' = DOMAIN taken /\ taken'.old = admitted.id
      BY <1>0, <3>1 DEF Typed
    <3>4. World' /\ UNCHANGED <<alone, admitted>>
      BY <1>0, <3>1, <3>2, <3>3, UnlinkedWorld
    <3>5. gone' \subseteq {admitted.id.obj}
      BY <1>0, <3>1, UnlinkedSays
    <3>6. NoneLost'
      BY <1>0, <3>2, <3>4, <3>5 DEF NoneLost, Removable
    <3>7. RefusalChangesNothing' /\ Committed'
      BY <1>0, <3>2, <3>3, <3>4 DEF RefusalChangesNothing, Refused, Committed, Verified, Saves
    <3> QED BY <1>0, <3>2, <3>4, <3>6, <3>7, StoresEnd
  <2> QED BY <2>1, <2>2
<1> QED BY <1>2, <1>3
-------------------------------------------------------------------------------
(* A save of the configuration, which other programs may edit at any time.       *)

ReadStages == {"begin", "check", "recheck"}

LEMMA SavesOnly ==
  ASSUME EInv, World', call.op \in Saves, call'.op = call.op, SaveInv', BaseInv',
         call'.at = "done" => Ended'
  PROVE  EInv'
<1>1. PosixReplaces' /\ WindowsReplaces' /\ Moves' /\ Deletes' /\ Opens' /\ Plains' /\ Admission'
  BY DEF Saves, PosixReplaces, WindowsReplaces, Moves, Deletes, Opens, Plains, Stage, Admission,
         Verified
<1> QED BY <1>1 DEF EInv

\* A step that reads nothing and writes no file that is read.
LEMMA BaseStays ==
  ASSUME EInv, call'.op = call.op, UNCHANGED <<draft, admitted>>,
         \/ UNCHANGED facts /\ (call'.at \in ReadStages \/ draft.read.at = "open")
         \/ draft.read.at = "open"
  PROVE  BaseInv'
BY DEF EInv, BaseInv, ReadStages, Known

\* Only a save over the file it was read from reads, and only in three stages.
LEMMA NoReadNow ==
  ASSUME EInv, call.op = "config_save" => call.at \notin ReadStages
  PROVE  draft.read.at = "open"
<1>1. CASE call.op = "config_save"
  BY <1>1 DEF EInv, BaseInv, ReadStages
<1>2. CASE call.op # "config_save"
  BY <1>2 DEF EInv, BaseInv, NoDraft, NoRead
<1> QED BY <1>1, <1>2

\* A save that is given up has its temporary to remove yet.
LEMMA GiveUpSays ==
  ASSUME World, NEW r, GiveUp(r)
  PROVE  /\ call'.at = "cleanup" /\ call'.op = call.op /\ call'.platform = call.platform
         /\ call'.result = r /\ DOMAIN call' = DOMAIN call /\ Posix' = Posix /\ Steps
         /\ Sees(obs')
BY WorldSees DEF World, Typed, GiveUp, Posix, Steps

\* A save over the file removes what it likes, a new one its own temporary.
SaveRemoves == call.op = "config_new" => gone \subseteq {Candidate}

LEMMA SaveLosesNothing ==
  ASSUME World', call'.op \in Saves, SaveRemoves' \/ (Posix' /\ call'.result = "Storage")
  PROVE  NoneLost'
BY DEF NoneLost, Removable, Saves, SaveRemoves

Published == {"unlink", "undo", "flush"}

\* What is known of a save at each of its stages.
LEMMA SaveSays ==
  ASSUME EInv, call.op \in Saves
  PROVE  /\ World /\ Typed /\ dir["aside"] = alone["aside"]
         /\ "target" \in Names /\ "other" \in Names /\ "aside" \in Names
         /\ Candidate \in Objects /\ Candidate # Absent /\ Candidate \notin Foreign
         /\ call.at \in {"begin", "check", "create", "bindTemporary", "write", "verify"} \cup Writing =>
              dir["target"] = alone["target"] /\ dir["target"] # Candidate
         /\ call.at \in {"bindTemporary", "write", "verify", "unlink", "undo"} \cup Writing =>
              dir["other"] = Candidate
         /\ call.at \in Writing => facts[Candidate].data = Filled
         /\ call.at \notin {"cleanup", "done"} => SaveRemoves
         /\ call.at \in Published =>
              taken.new # NoStat /\ taken.new.obj = Candidate /\ taken.new.data = Filled
BY EntryAssumption DEF EInv, World, SaveInv, Names, Objects, SaveRemoves, Published

\* The save is given up before the target was touched, or does not know.
LEMMA SaveGivenUp ==
  ASSUME EInv, call.op \in Saves, call.at \notin {"cleanup", "done"}, NEW r, r # "ok", GiveUp(r),
         World', BaseInv', UNCHANGED <<dir, alone, gone>>,
         r = "Unknown" \/ dir["target"] = alone["target"]
  PROVE  EInv'
<1>1. /\ call'.at = "cleanup" /\ call'.op = call.op /\ call'.result = r
      /\ SaveRemoves /\ dir["aside"] = alone["aside"]
  BY SaveSays, GiveUpSays
<1>2. SaveRemoves'
  BY <1>1 DEF SaveRemoves
<1>3. NoneLost'
  BY <1>1, <1>2, SaveLosesNothing
<1>4. SaveInv'
  BY <1>1, <1>3 DEF SaveInv, Writing
<1> QED BY <1>1, <1>4, SavesOnly

\* The same, as the calls for yaca's own files put it.
LEMMA SaveRefused ==
  ASSUME EInv, call.op \in Saves, call.at \notin ReadStages \cup {"cleanup", "done"}, UNCHANGED draft,
         NEW r, r # "ok", GiveUp(r), UNCHANGED still,
         r = "Unknown" \/ dir["target"] = alone["target"]
  PROVE  EInv'
<1>1. /\ World' /\ UNCHANGED <<dir, alone, gone, admitted, facts>> /\ call'.op = call.op
  BY SaveSays, GiveUpSays, StillWorld
<1>2. BaseInv'
  BY <1>1, NoReadNow, BaseStays
<1> QED BY <1>1, <1>2, SaveGivenUp

\* In a save a refusal is given up, and what is accomplished is to be flushed.
LEMMA RefusalGivesUp ==
  ASSUME call.op \in Saves
  PROVE  /\ \A r : Refusal(r) => GiveUp(r) /\ UNCHANGED still
         /\ \A r : Refuse(r) => GiveUp(r)
         /\ Accomplish => Goto("flush") /\ UNCHANGED obs
         /\ call.op = "config_new" => From = "other" /\ To = "target"
BY DEF Refusal, Refuse, Accomplish, From, To

\* The temporary has come to the target.
LEMMA SavePublished ==
  ASSUME EInv, World', call.op \in Saves, call.at \notin ReadStages, UNCHANGED <<draft, admitted>>,
         call'.op = call.op, Posix' = Posix, call'.at \in Published, SaveRemoves',
         dir'["aside"] = alone'["aside"],
         call'.at \in {"unlink", "undo"} => dir'["other"] = Candidate,
         taken'.new # NoStat /\ taken'.new.obj = Candidate /\ taken'.new.data = Filled
  PROVE  EInv'
<1>1. NoneLost'
  BY SaveLosesNothing
<1>2. SaveInv'
  BY <1>1 DEF SaveInv, Writing, Published, SaveRemoves, Saves
<1>3. BaseInv'
  BY NoReadNow, BaseStays
<1> QED BY <1>2, <1>3, SavesOnly DEF Published

LEMMA SaveReplaceKeeps ==
  ASSUME EInv, UNCHANGED draft, call.op = "config_save",
         PlainReplaceLook \/ PlainReplace \/ PlainReplaceHalf
  PROVE  EInv'
<1>0. /\ World /\ Typed /\ call.op \in Saves /\ call.at \in {"start", "rename"}
      /\ call.at \notin ReadStages \cup {"cleanup", "done"}
      /\ dir["aside"] = alone["aside"] /\ dir["target"] = alone["target"] /\ dir["other"] = Candidate
      /\ facts[Candidate].data = Filled /\ SaveRemoves
      /\ Candidate \in Objects /\ Candidate # Absent
      /\ "target" \in Names /\ "other" \in Names /\ "aside" \in Names
  BY SaveSays DEF PlainReplaceLook, PlainReplace, PlainReplaceHalf, Is, Saves, ReadStages, Writing
<1>1. ASSUME NEW r, r # "ok", Refusal(r)
      PROVE  EInv'
  BY <1>0, <1>1, RefusalGivesUp, SaveRefused
<1>2. CASE PlainReplaceLook
  <2>1. CASE Refusal("Storage") \/ Refusal("NotFound")
    BY <1>1, <2>1
  <2>2. CASE ~ (Refusal("Storage") \/ Refusal("NotFound"))
    <3>1. Goto("rename") /\ UNCHANGED <<obs, still>> /\ call.at = "start"
      BY <1>2, <2>2 DEF PlainReplaceLook, Is
    <3>2. /\ World' /\ UNCHANGED <<dir, facts, alone, gone, admitted>>
          /\ call'.at = "rename" /\ call'.op = call.op /\ Posix' = Posix
      BY <1>0, <3>1, WaitWorld
    <3>3. SaveRemoves' /\ NoneLost'
      BY <1>0, <3>2, SaveLosesNothing DEF SaveRemoves
    <3>4. SaveInv'
      BY <1>0, <3>1, <3>2, <3>3, SaveSays DEF SaveInv, Writing, SaveRemoves
    <3>5. BaseInv'
      BY <1>0, <3>2, NoReadNow, BaseStays
    <3> QED BY <1>0, <3>2, <3>4, <3>5, SavesOnly
  <2> QED BY <2>1, <2>2
<1>3. CASE PlainReplace
  <2>1. CASE Refusal("Storage")
    BY <1>1, <2>1
  <2>2. CASE ~ Refusal("Storage")
    <3>1. /\ dir' = [dir EXCEPT !["target"] = dir["other"], !["other"] = Absent]
          /\ facts' = Moved(facts, dir["other"])
          /\ gone' = IF dir["target"] # Absent /\ links[dir["target"]] = 0
                     THEN gone \cup {dir["target"]} ELSE gone
          /\ taken' = [old |-> Look("target"), new |-> Look("other"),
                       extra |-> facts[dir["other"]].extra]
          /\ Goto("flush") /\ UNCHANGED <<obs, links, rest>>
      BY <1>0, <1>3, <2>2, RefusalGivesUp DEF PlainReplace
    <3>2. /\ call'.at = "flush" /\ call'.op = call.op /\ Posix' = Posix /\ Steps
      BY <1>0, <3>1, GotoSays, WorldSees DEF Steps
    <3>3. UNCHANGED <<links, bound, alone, admitted>> /\ DOMAIN taken' = DOMAIN taken
      BY <1>0, <3>1 DEF rest, Typed
    <3>4. gone' \subseteq Objects
      BY <1>0, <3>1 DEF Typed
    <3>5. /\ dir \in [Names -> Objects \cup {Absent}] /\ facts \in [Objects -> FactsOf]
      BY <1>0, <3>1 DEF Typed, FactsOf
    <3>6. /\ dir' \in [Names -> Objects \cup {Absent}] /\ dir'["aside"] = dir["aside"]
          /\ \A n \in Names : \E m \in Names : dir'[n] \in {dir[m], Absent}
      BY <1>0, <3>1, <3>5
    <3>7. /\ facts' \in [Objects -> FactsOf]
          /\ \A o \in Objects : facts'[o].moves >= facts[o].moves
      BY <1>0, <3>1, <3>5, MovedSays
    <3>8. \A n \in Names : Used(dir[n])'
      BY <1>0, <3>6, <3>7, StillUsed
    <3>9. World'
      BY <1>0, <3>2, <3>3, <3>4, <3>6, <3>7, <3>8, StepWorld DEF Saves
    <3>10. taken'.new # NoStat /\ taken'.new.obj = Candidate /\ taken'.new.data = Filled
      BY <1>0, <3>1, LookSays
    <3>11. SaveRemoves'
      BY <3>2 DEF SaveRemoves
    <3> QED BY <1>0, <3>2, <3>3, <3>6, <3>9, <3>10, <3>11, SavePublished DEF Published
  <2> QED BY <2>1, <2>2
<1>4. CASE PlainReplaceHalf
  <2>1. /\ ~ Posix /\ Unlinked("target") /\ GiveUp("Storage") /\ UNCHANGED <<facts, links, rest, taken>>
    BY <1>0, <1>4, RefusalGivesUp DEF PlainReplaceHalf, Is, Posix
  <2>2. /\ call'.at = "cleanup" /\ call'.op = call.op /\ call'.result = "Storage" /\ Posix' = Posix /\ Steps
    BY <1>0, <2>1, GiveUpSays
  <2>3. World' /\ UNCHANGED <<alone, admitted>>
    BY <1>0, <2>1, <2>2, UnlinkedWorld
  <2>4. dir'["target"] = Absent /\ dir'["aside"] = dir["aside"]
    BY <1>0, <2>1, UnlinkedSays
  <2>5. SaveRemoves' /\ NoneLost'
    BY <1>0, <2>2, <2>3, SaveLosesNothing DEF SaveRemoves
  <2>6. SaveInv'
    BY <1>0, <2>1, <2>2, <2>3, <2>4, <2>5 DEF SaveInv, Writing
  <2>7. BaseInv'
    BY <1>0, <2>2, <2>3, NoReadNow, BaseStays
  <2> QED BY <1>0, <2>2, <2>3, <2>6, <2>7, SavesOnly
<1> QED BY <1>2, <1>3, <1>4

LEMMA SaveRenameKeeps ==
  ASSUME EInv, UNCHANGED draft, call.op = "config_new",
         PlainLink \/ PlainUnlink \/ PlainUndo \/ PlainMove
  PROVE  EInv'
<1>0. /\ World /\ Typed /\ call.op \in Saves /\ call.at \in {"start", "unlink", "undo"}
      /\ call.at \notin ReadStages \cup {"cleanup", "done"}
      /\ dir["aside"] = alone["aside"] /\ dir["other"] = Candidate
      /\ call.at = "start" => dir["target"] = alone["target"] /\ facts[Candidate].data = Filled
      /\ call.at \in {"unlink", "undo"} =>
           taken.new # NoStat /\ taken.new.obj = Candidate /\ taken.new.data = Filled
      /\ SaveRemoves /\ Candidate \in Objects /\ Candidate # Absent
      /\ "target" \in Names /\ "other" \in Names /\ "aside" \in Names
      /\ From = "other" /\ To = "target"
  BY SaveSays, RefusalGivesUp
     DEF PlainLink, PlainUnlink, PlainUndo, PlainMove, Is, Saves, ReadStages, Writing, Published
<1>1. ASSUME NEW r, r # "ok", Refusal(r), r = "Unknown" \/ call.at = "start"
      PROVE  EInv'
  BY <1>0, <1>1, RefusalGivesUp, SaveRefused
\* The stat of the temporary is taken before the step that publishes it.
<1>2. ASSUME Took, call.at = "start"
      PROVE  /\ taken'.new # NoStat /\ taken'.new.obj = Candidate /\ taken'.new.data = Filled
             /\ DOMAIN taken' = DOMAIN taken
  <2>1. taken'.new = Look("other") /\ DOMAIN taken' = DOMAIN taken
    BY <1>0, <1>2 DEF Took, Typed
  <2> QED BY <1>0, <1>2, <2>1, LookSays
<1>3. CASE PlainLink
  <2>0. call.at = "start"
    BY <1>3 DEF PlainLink, Is
  <2>1. CASE Refusal("Storage") \/ Refusal("DestinationExists")
    BY <1>1, <2>0, <2>1
  <2>2. CASE ~ (Refusal("Storage") \/ Refusal("DestinationExists"))
    <3>1. /\ dir' = [dir EXCEPT !["target"] = dir["other"]]
          /\ Took /\ Goto("unlink") /\ UNCHANGED <<facts, links, obs, rest, gone>>
      BY <1>0, <1>3, <2>2 DEF PlainLink
    <3>2. /\ call'.at = "unlink" /\ call'.op = call.op /\ Posix' = Posix /\ Steps
      BY <1>0, <3>1, GotoSays, WorldSees DEF Steps
    <3>3. UNCHANGED <<facts, links, bound, alone, admitted, gone>>
      BY <3>1 DEF rest
    <3>4. /\ dir \in [Names -> Objects \cup {Absent}] /\ facts' \in [Objects -> FactsOf]
          /\ gone' \subseteq Objects
      BY <1>0, <3>3 DEF Typed, FactsOf
    <3>5. /\ dir' \in [Names -> Objects \cup {Absent}]
          /\ \A n \in Names : \E m \in Names : dir'[n] \in {dir[m], Absent}
          /\ dir'["other"] = dir["other"] /\ dir'["aside"] = dir["aside"]
      BY <1>0, <3>1, <3>4
    <3>6. \A o \in Objects : facts'[o].moves >= facts[o].moves
      BY <1>0, <3>3 DEF Typed
    <3>7. \A n \in Names : Used(dir[n])'
      BY <1>0, <3>4, <3>5, <3>6, StillUsed
    <3>8. World'
      BY <1>0, <1>2, <2>0, <3>1, <3>2, <3>3, <3>4, <3>5, <3>7, StepWorld DEF Saves
    <3>9. SaveRemoves'
      BY <1>0, <3>2, <3>3 DEF SaveRemoves
    <3> QED BY <1>0, <1>2, <2>0, <3>1, <3>2, <3>3, <3>5, <3>8, <3>9, SavePublished DEF Published
  <2> QED BY <2>1, <2>2
<1>4. CASE PlainUnlink
  <2>0. call.at = "unlink"
    BY <1>4 DEF PlainUnlink, Is
  <2>1. CASE Goto("undo") /\ UNCHANGED <<obs, still>>
    <3>1. /\ World' /\ UNCHANGED <<dir, alone, gone, admitted, taken>>
          /\ call'.at = "undo" /\ call'.op = call.op /\ Posix' = Posix
      BY <1>0, <2>1, WaitWorld
    <3>2. SaveRemoves'
      BY <1>0, <3>1 DEF SaveRemoves
    <3> QED BY <1>0, <2>0, <3>1, <3>2, SavePublished DEF Published
  <2>2. CASE ~ (Goto("undo") /\ UNCHANGED <<obs, still>>)
    <3>1. Unlinked("other") /\ Goto("flush") /\ UNCHANGED <<obs, facts, links, rest, taken>>
      BY <1>0, <1>4, <2>2, RefusalGivesUp DEF PlainUnlink
    <3>2. /\ call'.at = "flush" /\ call'.op = call.op /\ Posix' = Posix /\ Steps
      BY <1>0, <3>1, GotoSays, WorldSees DEF Steps
    <3>3. World' /\ UNCHANGED <<alone, admitted>>
      BY <1>0, <3>1, <3>2, UnlinkedWorld
    <3>4. dir'["aside"] = dir["aside"] /\ (gone' = gone \/ gone' = gone \cup {Candidate})
      BY <1>0, <3>1, UnlinkedSays
    <3>5. SaveRemoves'
      BY <1>0, <3>2, <3>4 DEF SaveRemoves
    <3> QED BY <1>0, <2>0, <3>1, <3>2, <3>3, <3>4, <3>5, SavePublished DEF Published
  <2> QED BY <2>1, <2>2
<1>5. CASE PlainUndo
  <2>1. CASE Refusal("Unknown")
    BY <1>1, <2>1
  <2>2. CASE ~ Refusal("Unknown")
    <3>1. /\ Posix /\ Unlinked("target") /\ GiveUp("Storage") /\ UNCHANGED <<facts, links, rest, taken>>
      BY <1>0, <1>5, <2>2, RefusalGivesUp DEF PlainUndo, Is, Posix
    <3>2. /\ call'.at = "cleanup" /\ call'.op = call.op /\ call'.result = "Storage" /\ Posix' = Posix
          /\ Steps
      BY <1>0, <3>1, GiveUpSays
    <3>3. World' /\ UNCHANGED <<alone, admitted>>
      BY <1>0, <3>1, <3>2, UnlinkedWorld
    <3>4. dir'["target"] = Absent /\ dir'["aside"] = dir["aside"]
      BY <1>0, <3>1, UnlinkedSays
    <3>5. NoneLost'
      BY <1>0, <3>1, <3>2, <3>3, SaveLosesNothing
    <3>6. SaveInv'
      BY <1>0, <3>1, <3>2, <3>3, <3>4, <3>5 DEF SaveInv, Writing
    <3>7. BaseInv'
      BY <1>0, <3>2, <3>3, NoReadNow, BaseStays
    <3> QED BY <1>0, <3>2, <3>3, <3>6, <3>7, SavesOnly
  <2> QED BY <2>1, <2>2
<1>6. CASE PlainMove
  <2>0. call.at = "start"
    BY <1>6 DEF PlainMove, Is
  <2>1. CASE Refusal("Storage") \/ Refusal("DestinationExists")
    BY <1>1, <2>0, <2>1
  <2>2. CASE ~ (Refusal("Storage") \/ Refusal("DestinationExists"))
    <3>1. /\ dir' = [dir EXCEPT !["other"] = Absent, !["target"] = dir["other"]]
          /\ facts' = Moved(facts, dir["other"])
          /\ Took /\ Goto("flush") /\ UNCHANGED <<obs, links, rest, gone>>
      BY <1>0, <1>6, <2>2, RefusalGivesUp DEF PlainMove
    <3>2. /\ call'.at = "flush" /\ call'.op = call.op /\ Posix' = Posix /\ Steps
      BY <1>0, <3>1, GotoSays, WorldSees DEF Steps
    <3>3. UNCHANGED <<links, bound, alone, admitted, gone>>
      BY <3>1 DEF rest
    <3>4. /\ dir \in [Names -> Objects \cup {Absent}] /\ facts \in [Objects -> FactsOf]
          /\ gone' \subseteq Objects
      BY <1>0, <3>3 DEF Typed, FactsOf
    <3>5. /\ dir' \in [Names -> Objects \cup {Absent}] /\ dir'["aside"] = dir["aside"]
          /\ \A n \in Names : \E m \in Names : dir'[n] \in {dir[m], Absent}
      BY <1>0, <3>1, <3>4
    <3>6. /\ facts' \in [Objects -> FactsOf]
          /\ \A o \in Objects : facts'[o].moves >= facts[o].moves
      BY <1>0, <3>1, <3>4, MovedSays
    <3>7. \A n \in Names : Used(dir[n])'
      BY <1>0, <3>5, <3>6, StillUsed
    <3>8. World'
      BY <1>0, <1>2, <2>0, <3>1, <3>2, <3>3, <3>4, <3>5, <3>6, <3>7, StepWorld DEF Saves
    <3>9. SaveRemoves'
      BY <1>0, <3>2, <3>3 DEF SaveRemoves
    <3> QED BY <1>0, <1>2, <2>0, <3>1, <3>2, <3>3, <3>5, <3>8, <3>9, SavePublished DEF Published
  <2> QED BY <2>1, <2>2
<1> QED BY <1>3, <1>4, <1>5, <1>6

\* Every step of a call for yaca's own files, or of the publication of a save.
LEMMA PlainKeeps ==
  ASSUME EInv, UNCHANGED draft, PlainNext
  PROVE  EInv'
<1>1. ASSUME NEW p \in {"posix", "windows"}, PlainDeleteMatch(p) \/ PlainDelete(p)
      PROVE  EInv'
  BY <1>1, StoreDeleteKeeps
<1>2. CASE PlainReplaceLook \/ PlainReplace \/ PlainReplaceHalf
  <2>1. call.op = "plain_replace" \/ call.op = "config_save"
    BY <1>2 DEF PlainReplaceLook, PlainReplace, PlainReplaceHalf, Is, Replaces
  <2> QED BY <1>2, <2>1, StoreReplaceKeeps, SaveReplaceKeeps
<1>3. CASE PlainLink \/ PlainUnlink \/ PlainUndo \/ PlainMove
  <2>1. call.op = "plain_rename" \/ call.op = "config_new"
    BY <1>3 DEF PlainLink, PlainUnlink, PlainUndo, PlainMove, Is, Renames
  <2> QED BY <1>3, <2>1, StoreRenameKeeps, SaveRenameKeeps
<1> QED BY <1>1, <1>2, <1>3 DEF PlainNext

\* What ends a save that has its target as other programs left it.
LEMMA SaveEnds ==
  ASSUME EInv, call.op \in Saves, World', BaseInv', call'.op = call.op, call'.at = "done",
         NoneLost', dir'["aside"] = alone'["aside"], RefusalChangesNothing', Committed'
  PROVE  EInv'
<1>1. SaveInv'
  BY DEF SaveInv, Writing
<1>2. MetadataKept'
  BY DEF MetadataKept, Saves
<1> QED BY <1>1, <1>2, SavesOnly DEF Ended

LEMMA SaveAnswered ==
  ASSUME EInv, call.op \in Saves, call.at \notin {"cleanup", "done"}, NEW r, r # "ok", Return(r),
         UNCHANGED still, BaseInv', dir["target"] = alone["target"]
  PROVE  EInv'
<1>0. World /\ dir["aside"] = alone["aside"] /\ SaveRemoves
  BY SaveSays
<1>1. /\ call'.at = "done" /\ call'.op = call.op /\ call'.result = r /\ Posix' = Posix /\ Steps
  BY <1>0, ReturnSays DEF Steps
<1>2. World' /\ UNCHANGED <<dir, alone, gone>>
  BY <1>0, <1>1, StillWorld
<1>3. SaveRemoves'
  BY <1>0, <1>1, <1>2 DEF SaveRemoves
<1>4. NoneLost'
  BY <1>1, <1>2, <1>3, SaveLosesNothing
<1>5. RefusalChangesNothing' /\ Committed'
  BY <1>0, <1>1, <1>2 DEF RefusalChangesNothing, Committed, Succeeded
<1> QED BY <1>0, <1>1, <1>2, <1>4, <1>5, SaveEnds

\* A save that has not touched its target goes on.
LEMMA SaveProceeds ==
  ASSUME EInv, call.op \in Saves, World', BaseInv', call'.op = call.op, Posix' = Posix,
         call.at \notin {"cleanup", "done"},
         call'.at \in {"begin", "check", "create", "bindTemporary", "write", "verify"} \cup Writing,
         UNCHANGED <<alone, gone>>, dir'["aside"] = dir["aside"], dir'["target"] = dir["target"],
         dir["target"] = alone["target"] /\ dir["target"] # Candidate,
         call'.at \in {"bindTemporary", "write", "verify"} \cup Writing => dir'["other"] = Candidate,
         call'.at \in Writing => facts'[Candidate].data = Filled
  PROVE  EInv'
<1>1. dir["aside"] = alone["aside"] /\ SaveRemoves
  BY SaveSays
<1>2. SaveRemoves'
  BY <1>1 DEF SaveRemoves
<1>3. NoneLost'
  BY <1>2, SaveLosesNothing
<1>4. SaveInv'
  BY <1>1, <1>2, <1>3 DEF SaveInv, Writing, SaveRemoves
<1> QED BY <1>4, SavesOnly DEF Writing

\* The handle is closed, and what was read of the file is no longer of interest.
LEMMA BaseUnread ==
  ASSUME EInv, call.op = "config_save", call'.op = call.op, UNCHANGED admitted,
         draft' = [draft EXCEPT !.read = NoRead]
  PROVE  BaseInv'
<1>0. /\ DOMAIN draft = {"read", "base", "last"} /\ draft.base \in Seq(Nat)
      /\ \A i \in DOMAIN draft.base : draft.base[i] = admitted.id.data
  BY DEF EInv, BaseInv
<1>1. DOMAIN draft' = {"read", "base", "last"} /\ draft'.read = NoRead /\ draft'.base = draft.base
  BY <1>0
<1>2. /\ DOMAIN NoRead = {"at", "file", "id", "bytes"} /\ NoRead.at = "open" /\ NoRead.bytes = <<>>
      /\ NoRead.id = NoStat /\ <<>> \in Seq(Nat)
  BY DEF NoRead
<1> QED BY <1>0, <1>1, <1>2, NoStatSays DEF BaseInv

\* A save that reads has not touched its target.
LEMMA ReadingSays ==
  ASSUME EInv, Reading
  PROVE  /\ call.op = "config_save" /\ call.op \in Saves /\ call.at \in ReadStages
         /\ call.at \notin {"cleanup", "done"} /\ World /\ Typed /\ BaseInv
         /\ dir["target"] = alone["target"] /\ dir["target"] # Candidate
         /\ call.at = "recheck" => dir["other"] = Candidate /\ facts[Candidate].data = Filled
<1>1. call.op = "config_save" /\ call.op \in Saves /\ call.at \in ReadStages
  BY DEF Reading, Saves, ReadStages
<1>2. call.at \notin {"cleanup", "done"}
  BY <1>1 DEF ReadStages
<1>3. BaseInv
  BY DEF EInv
<1> QED BY <1>1, <1>2, <1>3, SaveSays DEF ReadStages, Writing

LEMMA ReadFailsKeeps ==
  ASSUME EInv, Reading, NEW r, r # "ok", ReadFails(r)
  PROVE  EInv'
<1>0. /\ draft' = [draft EXCEPT !.read = NoRead] /\ UNCHANGED still
      /\ IF call.at = "recheck" THEN GiveUp(r) ELSE Return(r)
  BY DEF ReadFails
<1>1. UNCHANGED <<dir, alone, gone, admitted>>
  BY <1>0 DEF still, disk, rest
<1>2. CASE call.at = "recheck"
  <2>1. GiveUp(r)
    BY <1>0, <1>2
  <2>2. call'.op = call.op /\ Steps
    BY <2>1, ReadingSays, GiveUpSays
  <2>3. World'
    BY <1>0, <2>2, ReadingSays, StillWorld
  <2>4. BaseInv'
    BY <1>0, <1>1, <2>2, ReadingSays, BaseUnread
  <2> QED BY <1>1, <2>1, <2>3, <2>4, ReadingSays, SaveGivenUp
<1>3. CASE call.at # "recheck"
  <2>1. Return(r)
    BY <1>0, <1>3
  <2>2. call'.op = call.op
    BY <2>1, ReadingSays, ReturnSays
  <2>3. BaseInv'
    BY <1>0, <1>1, <2>2, ReadingSays, BaseUnread
  <2> QED BY <1>0, <2>1, <2>3, ReadingSays, SaveAnswered
<1> QED BY <1>2, <1>3

\* A step of the read alone.
LEMMA ReadsKeep ==
  ASSUME EInv, Reading, UNCHANGED vars, BaseInv'
  PROVE  EInv'
<1>1. UNCHANGED <<dir, facts, alone, gone, call, obs, still>>
  BY DEF vars, still, disk, rest
<1>2. Steps /\ Posix' = Posix
  BY <1>1, ReadingSays, WorldSees DEF Steps, Posix
<1>3. World'
  BY <1>1, <1>2, ReadingSays, StillWorld
<1>4. call.at = "recheck" <=> call.at \in {"bindTemporary", "write", "verify"} \cup Writing
  BY ReadingSays DEF ReadStages, Writing
<1> QED BY <1>1, <1>2, <1>3, <1>4, ReadingSays, SaveProceeds DEF ReadStages, Writing

LEMMA ReadOpenKeeps ==
  ASSUME EInv, ReadOpen
  PROVE  EInv'
<1>0. Reading /\ draft.read.at = "open"
  BY DEF ReadOpen, ReadAt
<1>1. CASE ReadFails("Storage") \/ ReadFails("NotFound")
  BY <1>0, <1>1, ReadFailsKeeps
<1>2. CASE ~ (ReadFails("Storage") \/ ReadFails("NotFound"))
  <2> DEFINE last == IF call.at = "recheck" THEN Checked("target") ELSE draft.last
  <2>1. /\ dir["target"] # Absent /\ UNCHANGED vars
        /\ draft' = [draft EXCEPT !.read.at = "bind", !.read.file = dir["target"], !.last = last]
    BY <1>2 DEF ReadOpen, OpenRead
  <2>2. UNCHANGED <<call, facts, admitted>>
    BY <2>1 DEF vars
  <2>3. dir["target"] \in Objects
    BY <1>0, <2>1, ReadingSays DEF Typed, Names
  <2>4. BaseInv /\ call.op = "config_save" /\ DOMAIN draft = {"read", "base", "last"}
        /\ DOMAIN draft.read = {"at", "file", "id", "bytes"}
    BY <1>0, ReadingSays DEF BaseInv
  <2> HIDE DEF last
  <2>5. /\ DOMAIN draft' = DOMAIN draft /\ DOMAIN draft'.read = DOMAIN draft.read
        /\ draft'.base = draft.base /\ draft'.read.at = "bind" /\ draft'.read.file = dir["target"]
        /\ draft'.read.id = draft.read.id /\ draft'.read.bytes = draft.read.bytes
    BY <2>1, <2>4
  <2>6. call.at \in ReadStages
    BY <1>0, ReadingSays
  <2>7. BaseInv'
    BY <1>0, <2>2, <2>3, <2>4, <2>5, <2>6 DEF BaseInv, Known, ReadStages
  <2> QED BY <1>0, <2>1, <2>7, ReadsKeep
<1> QED BY <1>1, <1>2

LEMMA ReadBindKeeps ==
  ASSUME EInv, ReadBind
  PROVE  EInv'
<1>0. Reading /\ draft.read.at = "bind"
  BY DEF ReadBind, ReadAt
<1>1. CASE ReadFails("Storage")
  BY <1>0, <1>1, ReadFailsKeeps
<1>2. CASE ~ ReadFails("Storage")
  <2>1. /\ UNCHANGED vars
        /\ draft' = [draft EXCEPT !.read.at = "bytes", !.read.id = Stat(draft.read.file)]
    BY <1>2 DEF ReadBind, StatHandle
  <2>2. UNCHANGED <<call, facts, admitted>>
    BY <2>1 DEF vars
  <2>3. /\ BaseInv /\ call.op = "config_save" /\ DOMAIN draft = {"read", "base", "last"}
        /\ DOMAIN draft.read = {"at", "file", "id", "bytes"}
        /\ draft.read.file \in Objects /\ draft.read.bytes = <<>> /\ Typed /\ call.at \in ReadStages
    BY <1>0, ReadingSays DEF BaseInv
  <2> DEFINE s == Stat(draft.read.file)
  <2>4. s # NoStat /\ s.obj = draft.read.file /\ Known(s) /\ s.data = facts[draft.read.file].data
    BY <2>3, StatSays
  <2>5. /\ DOMAIN draft' = DOMAIN draft /\ DOMAIN draft'.read = DOMAIN draft.read
        /\ draft'.base = draft.base /\ draft'.read.at = "bytes" /\ draft'.read.file = draft.read.file
        /\ draft'.read.id = s /\ draft'.read.bytes = <<>>
    BY <2>1, <2>3
  <2>6. facts[draft.read.file].data \in Nat
    BY <2>3 DEF Typed
  <2> HIDE DEF s
  <2>8. /\ Known(draft'.read.id) /\ s.data <= facts[draft.read.file].data
        /\ draft'.read.bytes \in Seq(Nat) /\ DOMAIN draft'.read.bytes = {}
    BY <2>4, <2>5, <2>6 DEF Known
  <2>9. BaseInv'
    BY <2>2, <2>3, <2>4, <2>5, <2>8 DEF BaseInv, Known, ReadStages
  <2> QED BY <1>0, <2>1, <2>9, ReadsKeep
<1> QED BY <1>1, <1>2

LEMMA ReadBytesKeeps ==
  ASSUME EInv, ReadBytes
  PROVE  EInv'
<1>0. Reading /\ draft.read.at = "bytes"
  BY DEF ReadBytes, ReadAt
<1>1. CASE ReadFails("Storage")
  BY <1>0, <1>1, ReadFailsKeeps
<1>2. CASE ~ ReadFails("Storage")
  <2> DEFINE byte == facts[draft.read.file].data
             bytes == draft.read.bytes
  <2>1. /\ UNCHANGED vars
        /\ draft' = [draft EXCEPT !.read.bytes = Append(@, byte)]
    BY <1>2 DEF ReadBytes, ReadChunk
  <2>2. UNCHANGED <<call, facts, admitted>>
    BY <2>1 DEF vars
  <2>3. /\ BaseInv /\ call.op = "config_save" /\ DOMAIN draft = {"read", "base", "last"}
        /\ DOMAIN draft.read = {"at", "file", "id", "bytes"}
        /\ draft.read.file \in Objects /\ bytes \in Seq(Nat) /\ Typed /\ call.at \in ReadStages
        /\ draft.read.id # NoStat /\ draft.read.id.obj = draft.read.file /\ draft.read.id.data <= byte
        /\ \A i \in DOMAIN bytes : draft.read.id.data <= bytes[i] /\ bytes[i] <= byte
    BY <1>0, ReadingSays DEF BaseInv
  <2>4. byte \in Nat
    BY <2>3 DEF Typed
  <2>5. /\ DOMAIN draft' = DOMAIN draft /\ DOMAIN draft'.read = DOMAIN draft.read
        /\ draft'.base = draft.base /\ draft'.read.at = "bytes" /\ draft'.read.file = draft.read.file
        /\ draft'.read.id = draft.read.id /\ draft'.read.bytes = Append(bytes, byte)
    BY <1>0, <2>1, <2>3
  <2>6. Append(bytes, byte) \in Seq(Nat)
    BY <2>3, <2>4
  <2>7. ASSUME NEW i \in DOMAIN Append(bytes, byte)
        PROVE  draft.read.id.data <= Append(bytes, byte)[i] /\ Append(bytes, byte)[i] <= byte
    <3>1. CASE i \in DOMAIN bytes
      <4>1. Append(bytes, byte)[i] = bytes[i]
        BY <2>3, <2>4, <3>1
      <4> QED BY <2>3, <3>1, <4>1
    <3>2. CASE i \notin DOMAIN bytes
      <4>1. Append(bytes, byte)[i] = byte
        BY <2>3, <2>4, <3>2
      <4> QED BY <2>3, <2>4, <4>1
    <3> QED BY <3>1, <3>2
  <2>8. draft'.read.file \in Objects /\ byte = facts'[draft'.read.file].data
    BY <2>2, <2>3, <2>5
  <2>9. /\ draft'.read.bytes \in Seq(Nat)
        /\ \A i \in DOMAIN draft'.read.bytes : /\ draft'.read.id.data <= draft'.read.bytes[i]
                                               /\ draft'.read.bytes[i] <= facts'[draft'.read.file].data
    BY <2>5, <2>6, <2>7, <2>8
  <2>10. draft'.read.id.data <= facts'[draft'.read.file].data
    BY <2>3, <2>5, <2>8
  <2> HIDE DEF byte, bytes
  <2>11. BaseInv'
    BY <2>2, <2>3, <2>5, <2>8, <2>9, <2>10 DEF BaseInv, Known, ReadStages
  <2> QED BY <1>0, <2>1, <2>11, ReadsKeep
<1> QED BY <1>1, <1>2

LEMMA ReadUnstableKeeps ==
  ASSUME EInv, ReadUnstable
  PROVE  EInv'
<1>0. Reading /\ (ReadFails("Storage") \/ ReadFails("ConfigReadUnstable"))
  BY DEF ReadUnstable, ReadAt
<1> QED BY <1>0, ReadFailsKeeps

\* What was read is of one file with one content: the draft's base.
LEMMA BeginEditKeeps ==
  ASSUME EInv, BeginEdit
  PROVE  EInv'
<1>0. /\ Reading /\ draft.read.at = "bytes" /\ Stable /\ call.at = "begin"
      /\ admitted' = [admitted EXCEPT !.id = draft.read.id]
      /\ draft' = [draft EXCEPT !.read = NoRead, !.base = draft.read.bytes]
      /\ Goto("check") /\ UNCHANGED <<disk, obs, bound, alone, foreign, taken, gone>>
  BY DEF BeginEdit, ReadDone, ReadAt
<1>1. UNCHANGED <<dir, facts, links, alone, gone>>
  BY <1>0 DEF disk
<1>2. World /\ Typed /\ BaseInv /\ call.op = "config_save" /\ call.op \in Saves
  BY <1>0, ReadingSays
<1>3. /\ draft.read.file \in Objects /\ draft.read.bytes \in Seq(Nat) /\ Known(draft.read.id)
      /\ draft.read.id # NoStat
      /\ \A i \in DOMAIN draft.read.bytes :
           draft.read.id.data <= draft.read.bytes[i]
           /\ draft.read.bytes[i] <= facts[draft.read.file].data
  BY <1>0, <1>2 DEF BaseInv
<1>4. facts[draft.read.file].data = draft.read.id.data
  <2>1. Stat(draft.read.file).data = draft.read.id.data
    BY <1>0, MatchSays DEF Stable, SameIdentity
  <2> QED BY <1>2, <1>3, <2>1, StatSays
<1>5. draft.read.id.data \in Nat
  BY <1>3 DEF Known
<1>6. \A i \in DOMAIN draft.read.bytes : draft.read.bytes[i] = draft.read.id.data
  <2> SUFFICES ASSUME NEW i \in DOMAIN draft.read.bytes
               PROVE  draft.read.bytes[i] = draft.read.id.data
    OBVIOUS
  <2>1. draft.read.bytes[i] \in Nat
    BY <1>3
  <2> QED BY <1>3, <1>4, <1>5, <2>1
<1>7. /\ DOMAIN admitted' = DOMAIN admitted /\ admitted'.id = draft.read.id
      /\ admitted'.meta = admitted.meta
  BY <1>0, <1>2 DEF Typed
<1>8. /\ call'.at = "check" /\ call'.op = call.op /\ call'.platform = call.platform
      /\ DOMAIN call' = DOMAIN call /\ Posix' = Posix
  BY <1>0, <1>2, GotoSays
<1>9. Typed'
  BY <1>0, <1>1, <1>2, <1>3, <1>7, <1>8 DEF Typed, Known
<1>10. World'
  BY <1>0, <1>1, <1>2, <1>8, <1>9 DEF World, Used, Twice, Saves, Verified
<1>11. /\ DOMAIN NoRead = {"at", "file", "id", "bytes"} /\ NoRead.at = "open" /\ NoRead.bytes = <<>>
       /\ NoRead.id = NoStat /\ <<>> \in Seq(Nat)
  BY DEF NoRead
<1>12. DOMAIN draft' = {"read", "base", "last"} /\ draft'.read = NoRead /\ draft'.base = draft.read.bytes
  BY <1>0, <1>2 DEF BaseInv
<1>13. BaseInv'
  BY <1>2, <1>3, <1>6, <1>7, <1>8, <1>11, <1>12, NoStatSays DEF BaseInv
<1> QED BY <1>0, <1>1, <1>2, <1>8, <1>10, <1>13, ReadingSays, SaveProceeds DEF Writing

LEMMA CheckEditBaseKeeps ==
  ASSUME EInv, CheckEditBase
  PROVE  EInv'
<1>0. Reading /\ call.at \in {"check", "recheck"}
  BY DEF CheckEditBase, ReadDone, ReadAt
<1>1. CASE ReadFails("ConfigStale")
  BY <1>0, <1>1, ReadFailsKeeps
<1>2. CASE ~ ReadFails("ConfigStale")
  <2> DEFINE next == IF call.at = "check" THEN "create" ELSE "restat"
  <2>1. /\ Goto(next) /\ draft' = [draft EXCEPT !.read = NoRead] /\ UNCHANGED <<obs, still>>
    BY <1>2 DEF CheckEditBase
  <2>2. /\ World' /\ UNCHANGED <<dir, facts, alone, gone, admitted>>
        /\ call'.at = next /\ call'.op = call.op /\ Posix' = Posix
    BY <1>0, <2>1, ReadingSays, WaitWorld
  <2>3. BaseInv'
    BY <1>0, <2>1, <2>2, ReadingSays, BaseUnread
  <2>4. /\ call'.at \in {"create", "restat"} /\ (call'.at = "restat" => call.at = "recheck")
    BY <1>0, <2>2
  <2> QED BY <1>0, <2>2, <2>3, <2>4, ReadingSays, SaveProceeds DEF Writing
<1> QED BY <1>1, <1>2

LEMMA TargetAbsentKeeps ==
  ASSUME EInv, TargetAbsent
  PROVE  EInv'
<1>0. /\ call.op = "config_new" /\ call.op \in Saves /\ call.at \in {"begin", "check"} /\ World
      /\ dir["target"] = alone["target"] /\ dir["target"] # Candidate /\ UNCHANGED draft
      /\ call.at \notin {"cleanup", "done"} /\ draft.read.at = "open"
  BY SaveSays, NoReadNow DEF TargetAbsent, Saves
<1>1. ASSUME NEW r, r # "ok", Answer(r)
      PROVE  EInv'
  <2>1. /\ Return(r) /\ UNCHANGED still /\ call'.op = call.op /\ UNCHANGED admitted
    BY <1>0, <1>1, AnswerWorld DEF Answer
  <2>2. BaseInv'
    BY <1>0, <2>1, BaseStays
  <2> QED BY <1>0, <1>1, <2>1, <2>2, SaveAnswered
<1>2. CASE Answer("Storage") \/ Answer("ConfigConflict")
  BY <1>1, <1>2
<1>3. CASE ~ (Answer("Storage") \/ Answer("ConfigConflict"))
  <2> DEFINE next == IF call.at = "begin" THEN "check" ELSE "create"
  <2>1. Goto(next) /\ UNCHANGED <<obs, still>>
    BY <1>3 DEF TargetAbsent
  <2>2. /\ World' /\ UNCHANGED <<dir, facts, alone, gone, admitted>>
        /\ call'.at = next /\ call'.op = call.op /\ Posix' = Posix
    BY <1>0, <2>1, WaitWorld
  <2>3. BaseInv'
    BY <1>0, <2>2, BaseStays
  <2>4. call'.at \in {"check", "create"}
    BY <2>2
  <2> QED BY <1>0, <2>2, <2>3, <2>4, SaveProceeds DEF Writing
<1> QED BY <1>2, <1>3

\* The stages of a save that write and check its temporary.
Temporary == {"create", "bindTemporary", "write", "verify", "restat"}

LEMMA SaveTemporaryKeeps ==
  ASSUME EInv, SaveCreate \/ SaveBind \/ SaveWrite \/ SaveVerify \/ SaveRestat
  PROVE  EInv'
<1>0. /\ call.op \in Saves /\ call.at \in Temporary /\ UNCHANGED draft /\ World /\ Typed
      /\ call.at \notin {"cleanup", "done"} /\ call.at \notin ReadStages
      /\ dir["target"] = alone["target"] /\ dir["target"] # Candidate
      /\ call.at # "create" => dir["other"] = Candidate
      /\ call.at = "restat" => facts[Candidate].data = Filled
      /\ draft.read.at = "open" /\ "target" \in Names /\ "other" \in Names /\ "aside" \in Names
      /\ Candidate \in Objects /\ Candidate # Absent /\ Candidate \notin Foreign
  <2>1. call.op \in Saves /\ call.at \in Temporary /\ UNCHANGED draft
    BY DEF SaveCreate, SaveBind, SaveWrite, SaveVerify, SaveRestat, SaveAt, Temporary
  <2>2. call.at \notin {"cleanup", "done"} /\ call.at \notin ReadStages
    BY <2>1 DEF Temporary, ReadStages
  <2> QED BY <2>1, <2>2, SaveSays, NoReadNow DEF Temporary, Writing
<1>1. ASSUME NEW r, r # "ok", Answer(r)
      PROVE  EInv'
  <2>1. /\ Return(r) /\ UNCHANGED still /\ call'.op = call.op /\ UNCHANGED admitted
    BY <1>0, <1>1, AnswerWorld DEF Answer
  <2>2. BaseInv'
    BY <1>0, <2>1, BaseStays
  <2> QED BY <1>0, <1>1, <2>1, <2>2, SaveAnswered
<1>2. ASSUME NEW r, r # "ok", GiveUp(r), UNCHANGED still
      PROVE  EInv'
  BY <1>0, <1>2, SaveRefused
<1>3. ASSUME NEW a \in {"write", "recheck", "restat", "start"}, Goto(a), UNCHANGED <<obs, still>>,
             call.at # "create", a # "write" => facts[Candidate].data = Filled
      PROVE  EInv'
  <2>1. /\ World' /\ UNCHANGED <<dir, facts, alone, gone, admitted>>
        /\ call'.at = a /\ call'.op = call.op /\ Posix' = Posix
    BY <1>0, <1>3, WaitWorld
  <2>2. BaseInv'
    BY <1>0, <2>1, BaseStays
  <2> QED BY <1>0, <1>3, <2>1, <2>2, SaveProceeds DEF Writing
<1>4. CASE SaveCreate
  <2>1. CASE Answer("Storage") \/ Answer("DestinationExists")
    BY <1>1, <2>1
  <2>2. CASE ~ (Answer("Storage") \/ Answer("DestinationExists"))
    <3>1. /\ dir' = [dir EXCEPT !["other"] = Candidate] /\ Goto("bindTemporary")
          /\ UNCHANGED <<facts, links, obs, rest, taken, gone>>
      BY <1>4, <2>2 DEF SaveCreate, CreateNew
    <3>2. /\ call'.at = "bindTemporary" /\ call'.op = call.op /\ Posix' = Posix /\ Steps
      BY <1>0, <3>1, GotoSays, WorldSees DEF Steps
    <3>3. UNCHANGED <<links, bound, alone, admitted>>
      BY <3>1 DEF rest
    <3>4. /\ dir' \in [Names -> Objects \cup {Absent}] /\ facts' \in [Objects -> FactsOf]
          /\ gone' \subseteq Objects /\ dir'["other"] = Candidate
          /\ \A n \in Names : n # "other" => dir'[n] = dir[n]
      BY <1>0, <3>1 DEF Typed, FactsOf
    <3>5. \A n \in Names : Used(dir[n])'
      BY <1>0, <3>1, <3>4 DEF World, Used
    <3>6. World'
      BY <1>0, <3>1, <3>2, <3>3, <3>4, <3>5, StepWorld DEF Saves
    <3>7. BaseInv'
      BY <1>0, <3>2, <3>3, BaseStays
    <3> QED BY <1>0, <3>1, <3>2, <3>3, <3>4, <3>6, <3>7, SaveProceeds DEF Writing
  <2> QED BY <2>1, <2>2
<1>5. CASE SaveBind
  <2>1. call.at = "bindTemporary"
    BY <1>5 DEF SaveBind, SaveAt
  <2> QED BY <1>1, <1>3, <1>5, <2>1 DEF SaveBind
<1>6. CASE SaveWrite
  <2>0. call.at = "write" /\ UNCHANGED <<dir, links, rest, taken, gone>>
    BY <1>6 DEF SaveWrite, SaveAt
  <2>1. UNCHANGED <<links, bound, alone, admitted>>
    BY <2>0 DEF rest
  <2>2. ASSUME NEW n \in Nat, WriteBytes(n), Steps
        PROVE  World' /\ facts'[Candidate].data = n
    <3>1. facts' = [facts EXCEPT ![Candidate].data = n] /\ facts \in [Objects -> FactsOf]
      BY <1>0, <2>2 DEF WriteBytes, Typed, FactsOf
    <3>2. facts[Candidate] \in FactsOf
      BY <1>0, <3>1
    <3>3. [facts[Candidate] EXCEPT !.data = n] \in FactsOf
          /\ [facts[Candidate] EXCEPT !.data = n].data = n
      BY <2>2, <3>2 DEF FactsOf
    <3>4. /\ facts' \in [Objects -> FactsOf] /\ facts'[Candidate].data = n
          /\ \A o \in Objects : o # Candidate => facts'[o] = facts[o]
      BY <1>0, <3>1, <3>3
    <3>5. \A m \in Names : Used(dir[m])'
      <4> SUFFICES ASSUME NEW m \in Names, dir[m] \in Foreign PROVE facts'[dir[m]].moves > 0
        BY <2>0 DEF Used
      <4>1. dir[m] \in Objects /\ dir[m] # Candidate
        BY <1>0 DEF Objects
      <4> QED BY <1>0, <3>4, <4>1 DEF World, Used
    <3>6. dir' \in [Names -> Objects \cup {Absent}] /\ gone' \subseteq Objects
      BY <1>0, <2>0 DEF Typed
    <3> QED BY <1>0, <2>0, <2>1, <2>2, <3>4, <3>5, <3>6, StepWorld DEF Saves
  <2>3. CASE \E n \in 0..(Filled - 1) : WriteBytes(n) /\ GiveUp("Storage")
    <3>1. PICK n \in 0..(Filled - 1) : WriteBytes(n) /\ GiveUp("Storage")
      BY <2>3
    <3>2. n \in Nat /\ Steps /\ call'.op = call.op
      BY <1>0, <3>1, GiveUpSays DEF Filled, Chunks
    <3>3. World'
      BY <2>2, <3>1, <3>2
    <3>4. BaseInv'
      BY <1>0, <2>1, <3>2, BaseStays
    <3> QED BY <1>0, <2>0, <2>1, <3>1, <3>3, <3>4, SaveGivenUp
  <2>4. CASE WriteBytes(Filled) /\ Goto("verify") /\ UNCHANGED obs
    <3>1. /\ call'.at = "verify" /\ call'.op = call.op /\ Posix' = Posix /\ Steps
      BY <1>0, <2>4, GotoSays, WorldSees DEF Steps
    <3>2. Filled \in Nat
      BY DEF Filled, Chunks
    <3>3. World'
      BY <2>2, <2>4, <3>1, <3>2
    <3>4. BaseInv'
      BY <1>0, <2>1, <3>1, BaseStays
    <3> QED BY <1>0, <2>0, <2>1, <3>1, <3>3, <3>4, SaveProceeds DEF Writing
  <2> QED BY <1>6, <2>3, <2>4 DEF SaveWrite
<1>7. CASE SaveVerify
  <2>1. call.at = "verify"
    BY <1>7 DEF SaveVerify, SaveAt
  <2>2. CASE GiveUp("Storage") /\ UNCHANGED still
    BY <1>2, <2>2
  <2>3. CASE ~ (GiveUp("Storage") /\ UNCHANGED still)
    <3>1. /\ Look("other").data = Filled
          /\ Goto(IF call.op = "config_save" THEN "recheck" ELSE "restat")
          /\ UNCHANGED <<obs, still>>
      BY <1>7, <2>3 DEF SaveVerify
    <3>2. facts[Candidate].data = Filled
      BY <1>0, <2>1, <3>1, LookSays
    <3> QED BY <1>3, <2>1, <3>1, <3>2
  <2> QED BY <2>2, <2>3
<1>8. CASE SaveRestat
  <2>1. call.at = "restat"
    BY <1>8 DEF SaveRestat, SaveAt
  <2> QED BY <1>0, <1>2, <1>3, <1>8, <2>1 DEF SaveRestat
<1> QED BY <1>4, <1>5, <1>6, <1>7, <1>8

LEMMA SaveFlushKeeps ==
  ASSUME EInv, SaveFlush
  PROVE  EInv'
<1>0. /\ call.op \in Saves /\ call.at = "flush" /\ UNCHANGED draft /\ World
      /\ dir["aside"] = alone["aside"] /\ SaveRemoves /\ draft.read.at = "open"
      /\ taken.new # NoStat /\ taken.new.obj = Candidate /\ taken.new.data = Filled
  <2>1. call.op \in Saves /\ call.at = "flush" /\ UNCHANGED draft
    BY DEF SaveFlush, SaveAt
  <2> QED BY <2>1, SaveSays, NoReadNow DEF Published, ReadStages
<1>1. PICK r \in {"ok", "Unknown"} : Answer(r)
  BY DEF SaveFlush
<1>2. /\ World' /\ UNCHANGED <<dir, alone, gone, admitted, facts, taken>>
      /\ call'.at = "done" /\ call'.result = r /\ call'.op = call.op /\ Posix' = Posix
  BY <1>0, <1>1, AnswerWorld
<1>3. BaseInv'
  BY <1>0, <1>2, BaseStays
<1>4. SaveRemoves'
  BY <1>0, <1>2 DEF SaveRemoves
<1>5. NoneLost'
  BY <1>0, <1>2, <1>4, SaveLosesNothing
<1>6. RefusalChangesNothing'
  BY <1>2 DEF RefusalChangesNothing, Refused
<1>7. \A i \in DOMAIN draft.base : draft.base[i] = admitted.id.data
  BY DEF EInv, BaseInv, NoDraft
<1>8. Committed'
  BY <1>0, <1>2, <1>7 DEF Committed, Saves, Verified
<1> QED BY <1>0, <1>2, <1>3, <1>5, <1>6, <1>8, SaveEnds

LEMMA SaveCleanUpKeeps ==
  ASSUME EInv, SaveCleanUp
  PROVE  EInv'
<1>0. /\ call.op \in Saves /\ call.at = "cleanup" /\ UNCHANGED draft /\ World
      /\ dir["aside"] = alone["aside"] /\ draft.read.at = "open" /\ call.result # "ok"
      /\ SaveRemoves \/ (Posix /\ call.result = "Storage")
      /\ \/ call.result = "Unknown" \/ dir["target"] = alone["target"] \/ alone["target"] = Absent
         \/ dir["target"] = Absent /\ call.op = (IF Posix THEN "config_new" ELSE "config_save")
      /\ "target" \in Names /\ "other" \in Names /\ "aside" \in Names
  <2>1. call.op \in Saves /\ call.at = "cleanup" /\ UNCHANGED draft
    BY DEF SaveCleanUp, SaveAt
  <2>2. draft.read.at = "open"
    BY <2>1, NoReadNow DEF ReadStages
  <2>3. SaveRemoves \/ (Posix /\ call.result = "Storage")
    BY <2>1 DEF EInv, SaveInv, NoneLost, Removable, SaveRemoves
  <2>4. /\ call.result # "ok"
        /\ \/ call.result = "Unknown" \/ dir["target"] = alone["target"] \/ alone["target"] = Absent
           \/ dir["target"] = Absent /\ call.op = (IF Posix THEN "config_new" ELSE "config_save")
    BY <2>1 DEF EInv, SaveInv
  <2> QED BY <2>1, <2>2, <2>3, <2>4, SaveSays
\* What the target is now, it was when the save was given up.
<1>1. ASSUME World', UNCHANGED <<alone, facts, admitted>>, dir'["aside"] = dir["aside"],
             dir'["target"] = dir["target"], gone' = gone \/ gone' = gone \cup {Candidate},
             call'.at = "done", call'.result = call.result, call'.op = call.op, Posix' = Posix
      PROVE  EInv'
  <2>1. BaseInv'
    BY <1>0, <1>1, BaseStays
  <2>2. SaveRemoves => SaveRemoves'
    BY <1>1 DEF SaveRemoves
  <2>3. NoneLost'
    BY <1>0, <1>1, <2>2, SaveLosesNothing
  <2>4. RefusalChangesNothing'
    BY <1>0, <1>1 DEF RefusalChangesNothing, Refused, Saves, Replaces
  <2>5. Committed'
    BY <1>0, <1>1 DEF Committed, Succeeded
  <2> QED BY <1>0, <1>1, <2>1, <2>3, <2>4, <2>5, SaveEnds
<1>2. CASE Answer(call.result)
  <2>1. /\ World' /\ UNCHANGED <<dir, alone, gone, admitted, facts>>
        /\ call'.at = "done" /\ call'.result = call.result /\ call'.op = call.op /\ Posix' = Posix
    BY <1>0, <1>2, AnswerWorld
  <2> QED BY <1>1, <2>1
<1>3. CASE ~ Answer(call.result)
  <2>1. /\ dir["other"] = Candidate /\ Unlinked("other") /\ Return(call.result)
        /\ UNCHANGED <<facts, links, rest, taken>>
    BY <1>3 DEF SaveCleanUp
  <2>2. /\ call'.at = "done" /\ call'.op = call.op /\ call'.result = call.result /\ Posix' = Posix /\ Steps
    BY <1>0, <2>1, ReturnSays DEF Steps
  <2>3. World' /\ UNCHANGED <<alone, admitted>>
    BY <1>0, <2>1, <2>2, UnlinkedWorld
  <2>4. /\ dir'["target"] = dir["target"] /\ dir'["aside"] = dir["aside"]
        /\ gone' = gone \/ gone' = gone \cup {Candidate}
    BY <1>0, <2>1, UnlinkedSays
  <2> QED BY <1>1, <2>1, <2>2, <2>3, <2>4
<1> QED BY <1>2, <1>3

LEMMA SaveKeeps ==
  ASSUME EInv, SaveNext
  PROVE  EInv'
BY ReadOpenKeeps, ReadBindKeeps, ReadBytesKeeps, ReadUnstableKeeps, BeginEditKeeps,
   CheckEditBaseKeeps, TargetAbsentKeeps, SaveTemporaryKeeps, SaveFlushKeeps, SaveCleanUpKeeps
   DEF SaveNext
-------------------------------------------------------------------------------
(* The beginning.                                                                *)

LEMMA InitEInv ==
  ASSUME Init
  PROVE  EInv /\ Waits
<1>0. PICK p \in {"posix", "windows"}, o \in Ops :
        /\ call = [platform |-> p, op |-> o, result |-> "pending",
                   at |-> IF o \in Verified THEN "inspect"
                          ELSE IF o \in Saves THEN "begin"
                          ELSE IF o = "list" THEN "verify" ELSE "start"]
        /\ \E left \in IF o = "list" THEN {Absent} ELSE Leftovers :
             /\ facts = [x \in Files |->
                           IF x = Target THEN Fact(1, 1, FALSE)
                           ELSE IF x = Candidate THEN Fact(0, 0, p = "windows")
                           ELSE IF x = left THEN [Fact(3, 3, FALSE) EXCEPT !.moves = 1]
                           ELSE Fact(3, 3, FALSE)]
             /\ dir = [target |-> IF o = "config_new" THEN Absent ELSE Target,
                       other |-> IF o \in {"replace", "plain_replace"} THEN Candidate ELSE left,
                       aside |-> IF o = "replace" /\ p = "windows" THEN left ELSE Absent]
  BY DEF Init
<1>1. PICK left \in IF o = "list" THEN {Absent} ELSE Leftovers :
        /\ facts = [x \in Files |->
                      IF x = Target THEN Fact(1, 1, FALSE)
                      ELSE IF x = Candidate THEN Fact(0, 0, p = "windows")
                      ELSE IF x = left THEN [Fact(3, 3, FALSE) EXCEPT !.moves = 1]
                      ELSE Fact(3, 3, FALSE)]
        /\ dir = [target |-> IF o = "config_new" THEN Absent ELSE Target,
                  other |-> IF o \in {"replace", "plain_replace"} THEN Candidate ELSE left,
                  aside |-> IF o = "replace" /\ p = "windows" THEN left ELSE Absent]
  BY <1>0
<1>2. /\ links = [x \in Files |-> 0] /\ bound = TRUE /\ obs = NoObs /\ gone = {} /\ alone = dir
      /\ admitted = [id |-> Look("target"), meta |-> NoMeta]
      /\ taken = [old |-> NoStat, new |-> NoStat, extra |-> 0] /\ draft = NoDraft
  BY DEF Init
<1>3. /\ call.platform = p /\ call.op = o /\ call.result = "pending"
      /\ call.at = (IF o \in Verified THEN "inspect"
                    ELSE IF o \in Saves THEN "begin"
                    ELSE IF o = "list" THEN "verify" ELSE "start")
      /\ DOMAIN call = {"platform", "op", "result", "at"}
  BY <1>0
<1>4. /\ left \in Foreign \cup {Absent} /\ Files = Objects
      /\ Target \in Objects /\ Candidate \in Objects /\ Foreign \subseteq Objects
      /\ Target # Candidate /\ Target # Absent /\ Candidate # Absent
      /\ Target \notin Foreign /\ Candidate \notin Foreign /\ Absent \notin Foreign
  BY EntryAssumption DEF Leftovers, Files, Objects
<1>5. /\ dir \in [Names -> Objects \cup {Absent}] /\ Names = {"target", "other", "aside"}
      /\ dir["target"] = (IF o = "config_new" THEN Absent ELSE Target)
      /\ dir["other"] = (IF o \in {"replace", "plain_replace"} THEN Candidate ELSE left)
      /\ dir["aside"] = (IF o = "replace" /\ p = "windows" THEN left ELSE Absent)
  <2>1. DOMAIN dir = Names
    BY <1>1 DEF Names
  <2>2. /\ dir["target"] = (IF o = "config_new" THEN Absent ELSE Target)
        /\ dir["other"] = (IF o \in {"replace", "plain_replace"} THEN Candidate ELSE left)
        /\ dir["aside"] = (IF o = "replace" /\ p = "windows" THEN left ELSE Absent)
    BY <1>1
  <2>3. \A n \in Names : dir[n] \in Objects \cup {Absent}
    BY <1>4, <2>2 DEF Names
  <2>4. dir = [n \in Names |-> dir[n]]
    BY <1>1, <2>1
  <2> QED BY <2>2, <2>3, <2>4 DEF Names
<1>6. /\ Fact(1, 1, FALSE) \in FactsOf /\ Fact(3, 3, FALSE) \in FactsOf
      /\ [Fact(3, 3, FALSE) EXCEPT !.moves = 1] \in FactsOf
      /\ [Fact(3, 3, FALSE) EXCEPT !.moves = 1].moves = 1
  BY DEF Fact, FactsOf
<1>7. facts \in [Objects -> FactsOf] /\ (left \in Foreign => facts[left].moves = 1)
  <2>1. Fact(0, 0, p = "windows") \in FactsOf
    <3>1. CASE p = "windows"
      BY <3>1 DEF Fact, FactsOf
    <3>2. CASE p # "windows"
      BY <3>2 DEF Fact, FactsOf
    <3> QED BY <3>1, <3>2
  <2>2. facts \in [Objects -> FactsOf]
    BY <1>1, <1>4, <1>6, <2>1
  <2>3. left \in Foreign => facts[left] = [Fact(3, 3, FALSE) EXCEPT !.moves = 1]
    BY <1>1, <1>4
  <2> QED BY <1>6, <2>2, <2>3
<1>8. links \in [Objects -> Nat]
  BY <1>2, <1>4
<1>9. NoMeta \in Metas /\ Sees(obs)
  BY <1>2, NoObsSees DEF NoMeta, Metas
<1>10. /\ Known(Look("target")) /\ Twice(Look("target")) /\ Look("target").obj = dir["target"]
  <2>1. "target" \in Names
    BY DEF Names
  <2>2. CASE dir["target"] = Absent
    BY <2>2, NoStatSays DEF Look
  <2>3. CASE dir["target"] # Absent
    <3>1. dir["target"] \in Objects
      BY <1>5, <2>1, <2>3
    <3>2. NamesOf(dir["target"], dir) \in SUBSET Names
      BY DEF NamesOf
    <3>3. Cardinality(NamesOf(dir["target"], dir)) \in Nat
      BY <3>2, NamesAreFinite, FS_Subset, FS_CardinalityType
    <3>4. LinkCount(dir["target"]) \in Nat
      BY <1>8, <3>1, <3>3 DEF LinkCount
    <3>5. facts[dir["target"]] \in FactsOf
      BY <1>7, <3>1
    <3>6. /\ Stat(dir["target"]).obj = dir["target"]
          /\ Stat(dir["target"]).data = facts[dir["target"]].data
          /\ Stat(dir["target"]).mode = facts[dir["target"]].mode
          /\ Stat(dir["target"]).links = LinkCount(dir["target"])
          /\ Stat(dir["target"]).ctime[2] = LinkCount(dir["target"])
      BY DEF Stat
    <3>7. Look("target") = Stat(dir["target"])
      BY <2>3 DEF Look
    <3> QED BY <3>1, <3>4, <3>5, <3>6, <3>7 DEF Known, Twice, FactsOf
  <2> QED BY <2>2, <2>3
<1>11. /\ admitted.id = Look("target") /\ DOMAIN admitted = {"id", "meta"} /\ admitted.meta = NoMeta
       /\ DOMAIN taken = {"old", "new", "extra"}
  BY <1>2
<1>12. Typed
  BY <1>2, <1>3, <1>4, <1>5, <1>7, <1>8, <1>9, <1>10, <1>11 DEF Typed, Sees, FactsOf
<1>13. \A n \in Names : Used(dir[n])
  BY <1>4, <1>5, <1>7 DEF Used
<1>14. call.op \in {"replace", "rename", "delete"} => Apart
  BY <1>3, <1>4, <1>5 DEF Apart
<1>15. World
  BY <1>9, <1>10, <1>11, <1>12, <1>13, <1>14 DEF World, Sees
<1>16. Untouched
  BY <1>2 DEF Untouched
<1>17. call.at \in {"inspect", "begin", "verify", "start"}
  BY <1>3
<1>18. /\ o \in Verified <=> call.at = "inspect"
       /\ o \in Saves <=> call.at = "begin"
       /\ o \in Verified => o \notin Saves
       /\ o = "replace" => o \in Verified /\ dir["other"] = Candidate
       /\ o \in {"rename", "delete"} => o \in Verified
  BY <1>3, <1>5 DEF Verified, Saves
<1>19. Admission
  BY <1>3, <1>16, <1>17, <1>18 DEF Admission
<1>20. PosixReplaces /\ WindowsReplaces
  BY <1>3, <1>16, <1>18 DEF PosixReplaces, WindowsReplaces, Admissions, Untouched
<1>21. Moves /\ Deletes
  BY <1>3, <1>16, <1>18 DEF Moves, Deletes, Admissions, Untouched, OnlyAdmitted
<1>22. Opens
  BY <1>16 DEF Opens
<1>23. Plains
  BY <1>10, <1>11, <1>16, <1>17 DEF Plains, Stage, Untouched
<1>24. SaveInv
  <2>1. NoneLost
    BY <1>2 DEF NoneLost
  <2> QED BY <1>2, <1>3, <1>4, <1>5, <1>18, <2>1 DEF SaveInv, Writing
<1>25. BaseInv
  <2>1. /\ DOMAIN NoRead = {"at", "file", "id", "bytes"} /\ NoRead.at = "open" /\ NoRead.bytes = <<>>
        /\ NoRead.id = NoStat /\ <<>> \in Seq(Nat)
    BY DEF NoRead
  <2>2. DOMAIN draft = {"read", "base", "last"} /\ draft.read = NoRead /\ draft.base = <<>>
    BY <1>2 DEF NoDraft
  <2>3. DOMAIN draft.base = {} /\ draft.base \in Seq(Nat)
    BY <2>2
  <2>4. Known(draft.read.id) /\ draft.read.at = "open" /\ draft.read.bytes = <<>>
        /\ draft.read.bytes \in Seq(Nat) /\ DOMAIN draft.read = {"at", "file", "id", "bytes"}
    BY <2>1, <2>2, NoStatSays
  <2> QED BY <1>2, <2>2, <2>3, <2>4 DEF BaseInv
<1> QED BY <1>3, <1>15, <1>17, <1>19, <1>20, <1>21, <1>22, <1>23, <1>24, <1>25 DEF EInv, Waits
-------------------------------------------------------------------------------
(* Every step.                                                                   *)

\* A call proceeds, gives up or returns, and is not over before.
Advances ==
  /\ call.at # "done"
  /\ \/ \E r : Return(r)
     \/ call.at # "cleanup" /\ ((\E a : Goto(a)) \/ (call.op \in Saves /\ \E r : GiveUp(r)))

LEMMA CallAdvances ==
  ASSUME PosixNext \/ WindowsNext \/ OpenNext
  PROVE  Advances /\ call.op # "config_save"
<1>1. CASE \E o \in {"replace", "rename", "delete", "read"} :
             InspectTarget(o) \/ InspectOpen(o) \/ InspectMetadata(o) \/ WinInspect(o) \/ WinAdmit(o)
  BY <1>1 DEF InspectTarget, InspectOpen, InspectMetadata, WinInspect, WinAdmit, At, Answer, Advances
<1>2. CASE PosixReplace
  BY <1>2 DEF PosixReplace, ReplaceOpen, ReplaceCapture, ReplaceCopyMode, ReplaceRecheck,
              ReplaceCopyExtra, ReplaceFlush, ReplaceVerify, ReplaceExchange, ReplaceObserve,
              ReplaceRollBack, ReplaceRolledBack, ReplaceHandles, ReplaceUnlink, At, Answer, Advances
<1>3. CASE PosixRename
  BY <1>3 DEF PosixRename, RenameAdmit, RenameMove, RenameObserve, RenameRollBack, RenameRolledBack,
              At, Answer, Advances
<1>4. CASE PosixDelete
  BY <1>4 DEF PosixDelete, DeleteAdmit, DeleteOpen, DeleteIsolate, DeleteObserve, DeleteRollBack,
              DeleteRolledBack, DeleteUnlink, DeleteConfirm, At, Answer, Advances
<1>5. CASE WindowsReplace
  BY <1>5 DEF WindowsReplace, WinReplaceMatch, WinReplacePrepare, WinReplacePin, WinReplaceFile,
              WinReplaceObserve, WinReplaceRestore, WinReplaceObserveAgain, WinReplaceCompare,
              WinReplaceUnlink, WinReplaceRollBack, WinReplaceRolledBack, At, Answer, Advances
<1>6. CASE WindowsMoves \/ \E o \in {"replace", "rename", "delete"} : WinStart(o)
  BY <1>6 DEF WindowsMoves, WinStart, WinRenameMatch, WinDeleteMatch, WinRenameObserve,
              WinDeleteObserve, WinDeleteUnlink, WinDeletePutBack, WinPin, WinMoveAway, WinRollBack,
              WinRolledBack, At, Answer, Advances
<1>7. CASE OpenNext
  BY <1>7 DEF OpenNext, ReadOpenFile, ReadMatch, CreateMatch, CreateFile, At, Answer, Advances
<1> QED BY <1>1, <1>2, <1>3, <1>4, <1>5, <1>6, <1>7 DEF PosixNext, WindowsNext

LEMMA PlainAdvances ==
  ASSUME PlainNext
  PROVE  Advances
<1>1. CASE \E p \in {"posix", "windows"} : PlainDeleteMatch(p) \/ PlainDelete(p)
  BY <1>1 DEF PlainDeleteMatch, PlainDelete, Fails, At, Answer, Advances
<1>2. CASE PlainReplaceLook \/ PlainReplace \/ PlainReplaceHalf
  BY <1>2 DEF PlainReplaceLook, PlainReplace, PlainReplaceHalf, Is, Refusal, Refuse, Accomplish, Advances
<1>3. CASE PlainLink \/ PlainUnlink \/ PlainUndo \/ PlainMove
  BY <1>3 DEF PlainLink, PlainUnlink, PlainUndo, PlainMove, Is, Refusal, Refuse, Accomplish, Advances
<1> QED BY <1>1, <1>2, <1>3 DEF PlainNext

LEMMA SaveAdvances ==
  ASSUME SaveNext
  PROVE  Advances \/ UNCHANGED call
<1>1. CASE ReadOpen \/ ReadBind \/ ReadBytes \/ ReadUnstable
  BY <1>1 DEF ReadOpen, ReadBind, ReadBytes, ReadUnstable, ReadAt, Reading, ReadFails, Saves, Advances, vars
<1>2. CASE BeginEdit \/ CheckEditBase \/ TargetAbsent
  BY <1>2 DEF BeginEdit, CheckEditBase, TargetAbsent, ReadDone, ReadAt, Reading, ReadFails, Saves, Answer,
              Advances
<1>3. CASE SaveCreate \/ SaveBind \/ SaveWrite \/ SaveVerify \/ SaveRestat
  BY <1>3 DEF SaveCreate, SaveBind, SaveWrite, SaveVerify, SaveRestat, SaveAt, Answer, Advances
<1>4. CASE SaveFlush \/ SaveCleanUp
  BY <1>4 DEF SaveFlush, SaveCleanUp, SaveAt, Answer, Advances
<1> QED BY <1>1, <1>2, <1>3, <1>4 DEF SaveNext

LEMMA NextAdvances ==
  ASSUME Typed, [Next]_allVars
  PROVE  (Advances \/ UNCHANGED call) /\ call'.op = call.op
<1>1. Advances \/ UNCHANGED call
  <2>1. CASE CallNext
    BY <2>1, CallAdvances, PlainAdvances DEF CallNext
  <2>2. CASE ForeignNext
    BY <2>2 DEF ForeignNext, ForeignSave, ForeignRemove, ForeignMode, ForeignLink, ForeignEdit,
                ForeignMoveParent, ForeignStep
  <2>3. CASE SaveNext
    BY <2>3, SaveAdvances
  <2>4. CASE WalkNext \/ TreeNext
    BY <2>4, ListSteps DEF vars, Answer, Advances
  <2>5. CASE UNCHANGED allVars
    BY <2>5 DEF allVars, vars
  <2> QED BY <2>1, <2>2, <2>3, <2>4, <2>5 DEF Next, Over
<1>2. ASSUME NEW r, Return(r) \/ Goto(r) \/ GiveUp(r)
      PROVE  call'.op = call.op
  BY <1>2 DEF Return, Goto, GiveUp, Typed
<1> QED BY <1>1, <1>2 DEF Advances

LEMMA WaitsKept ==
  ASSUME Typed, Waits, [Next]_allVars
  PROVE  Waits'
<1>1. Advances \/ UNCHANGED call
  BY NextAdvances
<1>2. CASE UNCHANGED call
  BY <1>2 DEF Waits
<1>3. CASE Advances
  <2>1. ASSUME NEW r, Return(r) \/ (call.op \in Saves /\ GiveUp(r))
        PROVE  Waits'
    BY <2>1 DEF Return, GiveUp, Typed, Waits
  <2>2. ASSUME NEW a, Goto(a), call.at \notin {"cleanup", "done"}
        PROVE  Waits'
    BY <2>2 DEF Goto, Typed, Waits
  <2> QED BY <1>3, <2>1, <2>2 DEF Advances
<1> QED BY <1>1, <1>2, <1>3

LEMMA NextKeeps ==
  ASSUME EInv, [Next]_allVars
  PROVE  EInv'
<1>1. ASSUME CallNext, UNCHANGED draft
      PROVE  EInv'
  <2>1. CASE PosixNext
    <3>1. ASSUME NEW o \in {"replace", "rename", "delete", "read"},
                 InspectTarget(o) \/ InspectOpen(o) \/ InspectMetadata(o)
          PROVE  EInv'
      BY <1>1, <3>1, InspectKeeps DEF Verified
    <3> QED BY <1>1, <2>1, <3>1, PosixReplaceKeeps, MovesKeep DEF PosixNext
  <2>2. CASE WindowsNext
    <3>1. ASSUME NEW o \in {"replace", "rename", "delete", "read"}, WinInspect(o) \/ WinAdmit(o)
          PROVE  EInv'
      BY <1>1, <3>1, InspectKeeps DEF Verified
    <3>2. ASSUME NEW o \in {"replace", "rename", "delete"}, WinStart(o)
          PROVE  EInv'
      BY <1>1, <3>2, WinStartKeeps
    <3> QED BY <1>1, <2>2, <3>1, <3>2, WindowsReplaceKeeps, MovesKeep DEF WindowsNext
  <2> QED BY <1>1, <2>1, <2>2, PlainKeeps, OpenKeeps DEF CallNext
<1>2. CASE UNCHANGED allVars
  <2>1. UNCHANGED <<vars, draft>>
    BY <1>2 DEF allVars, saveVars
  <2> QED BY <2>1, StutterKeeps
<1>3. CASE Next
  BY <1>1, <1>2, <1>3, ForeignKeeps, SaveKeeps, ListKeeps DEF Next, Over, saveVars
<1> QED BY <1>2, <1>3

-------------------------------------------------------------------------------
(* What the last check of a save opened, and what other programs have saved since. *)

Early == call.at \notin {"flush", "cleanup", "done"}

Checking == call.at = "recheck" /\ draft.read.at # "open"

Since ==
  /\ \A f \in Foreign : Fresh(f) => f \in draft.last.unsaved
  /\ dir["target"] \in {Absent, draft.last.obj} \cup draft.last.unsaved

OfBase == draft.last.obj = admitted.id.obj /\ draft.last.data = admitted.id.data

LastCheck ==
  call.op = "config_save" =>
    /\ gone \subseteq {admitted.id.obj, Candidate} \cup SavedAfterCheck
    /\ Early =>
         /\ gone = {} /\ admitted.id # NoStat /\ admitted.id.obj # Candidate
         /\ admitted.id.data <= facts[admitted.id.obj].data
         /\ draft.read.at # "open" => draft.read.file \in Objects \ {Candidate}
    /\ Checking \/ call.at \in {"restat", "start", "rename"} => Since
    /\ Checking =>
         /\ draft.last.obj = draft.read.file /\ draft.last.data \in Nat
         /\ draft.last.obj = admitted.id.obj => admitted.id.data <= draft.last.data
         /\ draft.last.data <= facts[draft.read.file].data
         /\ draft.read.at = "bytes" => draft.last.data <= draft.read.id.data
    /\ call.at \in {"restat", "start", "rename", "flush"} => OfBase
    /\ call.at = "done" /\ call.result = "ok" => OfBase

\* A save that gives up, or returns without an ok.
LEMMA LastQuits ==
  ASSUME LastCheck, call.op = "config_save", call'.op = call.op, call'.at \in {"cleanup", "done"},
         call'.at = "done" => call'.result # "ok",
         UNCHANGED admitted, draft'.last = draft.last, gone' \subseteq gone \cup {Candidate}
  PROVE  LastCheck'
BY DEF LastCheck, Early, Checking, SavedAfterCheck

\* A save that proceeds, without a read under way, and has not touched its target.
LEMMA LastProceeds ==
  ASSUME EInv, LastCheck, call.op = "config_save", call'.op = call.op, Early, Early',
         draft'.read.at = "open", draft'.last = draft.last, UNCHANGED <<admitted, gone>>,
         dir'["target"] = dir["target"],
         \A o \in Objects : /\ facts'[o].moves = facts[o].moves
                            /\ o # Candidate => facts'[o].data = facts[o].data,
         call'.at \in {"restat", "start", "rename"} => call.at \in {"restat", "start", "rename"}
  PROVE  LastCheck'
<1>1. gone' = {} /\ ~ Checking' /\ admitted.id # NoStat /\ admitted.id.obj # Candidate
  BY DEF LastCheck, Checking
<1>2. admitted.id.obj \in Objects
  BY <1>1 DEF EInv, World, Typed, Known
<1>3. admitted'.id.data <= facts'[admitted'.id.obj].data
  BY <1>1, <1>2 DEF LastCheck
<1>4. Since => Since'
  BY DEF Since, Fresh, Objects
<1>5. OfBase => OfBase'
  BY DEF OfBase
<1> QED BY <1>1, <1>3, <1>4, <1>5 DEF LastCheck, Early

\* Other programs save only what they had not saved, and what a file holds grows.
LEMMA LastElsewhere ==
  ASSUME EInv, LastCheck, ForeignNext, UNCHANGED draft
  PROVE  LastCheck'
<1>1. World /\ Elsewhere /\ UNCHANGED <<call, admitted, gone>>
  BY ForeignSays DEF EInv, Elsewhere
<1> SUFFICES ASSUME call.op = "config_save"
             PROVE  LastCheck'
  BY <1>1 DEF LastCheck
<1>2. \A f \in Foreign : Fresh(f)' => Fresh(f)
  <2> SUFFICES ASSUME NEW f \in Foreign, facts'[f].moves = 0
               PROVE  facts[f].moves = 0
    BY DEF Fresh
  <2>1. f \in Objects
    BY DEF Objects
  <2>2. facts[f].moves \in Nat /\ facts[f].moves <= facts'[f].moves
    BY <1>1, <2>1 DEF World, Typed, Elsewhere
  <2> QED BY <2>2
<1>3. \/ dir'["target"] \in {dir["target"], Absent}
      \/ dir'["target"] \in Foreign /\ Fresh(dir'["target"])
  BY <1>1 DEF Elsewhere, Fresh, Names
<1>4. Since => Since'
  BY <1>2, <1>3 DEF Since
<1>5. ASSUME NEW o \in Objects, NEW n \in Nat, n <= facts[o].data
      PROVE  n <= facts'[o].data
  <2>1. facts[o].data \in Nat /\ facts'[o].data \in Nat /\ facts[o].data <= facts'[o].data
    BY <1>1 DEF World, Typed, Elsewhere, FactsOf
  <2> QED BY <1>5, <2>1
<1>6. Early => admitted'.id.data <= facts'[admitted'.id.obj].data
  BY <1>1, <1>5 DEF LastCheck, World, Typed, Known
<1>7. Checking => draft'.last.data <= facts'[draft'.read.file].data
  BY <1>5 DEF LastCheck, Checking, Early
<1> QED BY <1>1, <1>4, <1>6, <1>7 DEF LastCheck, Early, Checking, OfBase, SavedAfterCheck

LEMMA LastReadFails ==
  ASSUME EInv, LastCheck, Reading, NEW r, r # "ok", ReadFails(r)
  PROVE  LastCheck'
<1>1. /\ draft' = [draft EXCEPT !.read = NoRead] /\ UNCHANGED still
      /\ IF call.at = "recheck" THEN GiveUp(r) ELSE Return(r)
  BY DEF ReadFails
<1>2. draft'.last = draft.last /\ World /\ call.op = "config_save"
  BY <1>1, ReadingSays DEF BaseInv
<1>3. UNCHANGED <<admitted, gone>>
  BY <1>1 DEF still, rest
<1>4. /\ call'.op = call.op /\ call'.at \in {"cleanup", "done"}
      /\ call'.at = "done" => call'.result # "ok"
  BY <1>1, <1>2, GiveUpSays, ReturnSays
<1> QED BY <1>2, <1>3, <1>4, LastQuits

\* The handle of the last check is of the file under the target when it was opened.
LEMMA LastReads ==
  ASSUME EInv, LastCheck, ReadOpen \/ ReadBind \/ ReadBytes
  PROVE  LastCheck'
<1>0. Reading
  BY DEF ReadOpen, ReadBind, ReadBytes, ReadAt
<1>1. /\ World /\ Typed /\ BaseInv /\ call.op = "config_save" /\ Early
      /\ dir["target"] # Candidate /\ call.at \in ReadStages
  BY <1>0, ReadingSays DEF Early, ReadStages
<1>2. DOMAIN draft = {"read", "base", "last"} /\ DOMAIN draft.read = {"at", "file", "id", "bytes"}
  BY <1>1 DEF BaseInv
<1>3. /\ gone = {} /\ admitted.id # NoStat /\ admitted.id.obj # Candidate
      /\ admitted.id.data <= facts[admitted.id.obj].data /\ admitted.id.obj \in Objects
  BY <1>1 DEF LastCheck, Typed, Known
<1>4. CASE ReadFails("Storage") \/ ReadFails("NotFound")
  BY <1>0, <1>4, LastReadFails
<1>5. CASE ReadOpen /\ OpenRead("target") /\ UNCHANGED vars
  <2> DEFINE last == IF call.at = "recheck" THEN Checked("target") ELSE draft.last
  <2>1. /\ dir["target"] # Absent /\ UNCHANGED <<call, dir, facts, admitted, gone>>
        /\ draft' = [draft EXCEPT !.read.at = "bind", !.read.file = dir["target"], !.last = last]
    BY <1>5 DEF OpenRead, vars
  <2> HIDE DEF last
  <2>2. draft'.read.at = "bind" /\ draft'.read.file = dir["target"] /\ draft'.last = last
    BY <1>2, <2>1
  <2>3. dir["target"] \in Objects \ {Candidate} /\ facts[dir["target"]].data \in Nat
    BY <1>1, <2>1 DEF Typed, Names
  <2>4. CASE call.at = "recheck"
    <3>1. /\ last.obj = dir["target"] /\ last.data = facts[dir["target"]].data
          /\ last.unsaved = {f \in Foreign : Fresh(f)}
      BY <2>4 DEF last, Checked
    <3>2. Since'
      BY <2>1, <2>2, <3>1 DEF Since, Fresh
    <3> QED BY <1>1, <1>3, <2>1, <2>2, <2>3, <2>4, <3>1, <3>2 DEF LastCheck, Early, Checking
  <2>5. CASE call.at # "recheck"
    BY <1>1, <1>3, <2>1, <2>2, <2>3, <2>5 DEF LastCheck, Early, Checking, ReadStages
  <2> QED BY <2>4, <2>5
<1>6. CASE ReadBind /\ StatHandle /\ UNCHANGED vars
  <2>1. /\ UNCHANGED <<call, dir, facts, admitted, gone>> /\ draft.read.at = "bind"
        /\ draft' = [draft EXCEPT !.read.at = "bytes", !.read.id = Stat(draft.read.file)]
    BY <1>6 DEF ReadBind, ReadAt, StatHandle, vars
  <2>2. /\ draft'.read.at = "bytes" /\ draft'.read.file = draft.read.file
        /\ draft'.read.id = Stat(draft.read.file) /\ draft'.last = draft.last
    BY <1>2, <2>1
  <2>3. draft.read.file \in Objects \ {Candidate}
    BY <1>1, <2>1 DEF LastCheck
  <2>4. draft'.read.id.data = facts[draft.read.file].data
    BY <1>1, <2>2, <2>3, StatSays
  <2>5. Since => Since'
    BY <2>1, <2>2 DEF Since, Fresh
  <2> QED BY <1>1, <1>3, <2>1, <2>2, <2>3, <2>4, <2>5 DEF LastCheck, Early, Checking, ReadStages
<1>7. CASE ReadBytes /\ ReadChunk /\ UNCHANGED vars
  <2>1. /\ UNCHANGED <<call, dir, facts, admitted, gone>> /\ draft.read.at = "bytes"
        /\ draft' = [draft EXCEPT !.read.bytes = Append(@, facts[draft.read.file].data)]
    BY <1>7 DEF ReadBytes, ReadAt, ReadChunk, vars
  <2>2. /\ draft'.read.at = draft.read.at /\ draft'.read.file = draft.read.file
        /\ draft'.read.id = draft.read.id /\ draft'.last = draft.last
    BY <1>2, <2>1
  <2>3. Since => Since'
    BY <2>1, <2>2 DEF Since, Fresh
  <2> QED BY <1>1, <1>3, <2>1, <2>2, <2>3 DEF LastCheck, Early, Checking, ReadStages
<1> QED BY <1>4, <1>5, <1>6, <1>7 DEF ReadOpen, ReadBind, ReadBytes

LEMMA LastBegins ==
  ASSUME EInv, LastCheck, BeginEdit
  PROVE  LastCheck'
<1>1. /\ Reading /\ draft.read.at = "bytes" /\ call.at = "begin" /\ Goto("check")
      /\ admitted' = [admitted EXCEPT !.id = draft.read.id]
      /\ draft' = [draft EXCEPT !.read = NoRead, !.base = draft.read.bytes]
      /\ UNCHANGED <<dir, facts, gone>>
  BY DEF BeginEdit, ReadDone, ReadAt, disk
<1>2. World /\ Typed /\ BaseInv /\ call.op = "config_save" /\ Early
  BY <1>1, ReadingSays DEF Early
<1>3. call'.at = "check" /\ call'.op = call.op
  BY <1>1, <1>2, GotoSays
<1>4. draft'.read.at = "open" /\ admitted'.id = draft.read.id
  BY <1>1, <1>2 DEF BaseInv, Typed, NoRead
<1>5. gone = {} /\ draft.read.file # Candidate
  BY <1>1, <1>2 DEF LastCheck
<1>6. /\ draft.read.id # NoStat /\ draft.read.id.obj = draft.read.file
      /\ draft.read.id.data <= facts[draft.read.file].data
  BY <1>1, <1>2 DEF BaseInv
<1> QED BY <1>1, <1>3, <1>4, <1>5, <1>6 DEF LastCheck, Early, Checking

\* The file of the last check is that of the draft's base, and holds the same.
LEMMA LastChecks ==
  ASSUME EInv, LastCheck, CheckEditBase
  PROVE  LastCheck'
<1>1. Reading /\ draft.read.at = "bytes" /\ call.at \in {"check", "recheck"}
  BY DEF CheckEditBase, ReadDone, ReadAt
<1>2. World /\ Typed /\ BaseInv /\ call.op = "config_save" /\ Early
  BY <1>1, ReadingSays DEF Early
<1>3. CASE ReadFails("ConfigStale")
  BY <1>1, <1>3, LastReadFails
<1>4. CASE ~ ReadFails("ConfigStale")
  <2> DEFINE next == IF call.at = "check" THEN "create" ELSE "restat"
  <2>1. /\ BaseUnchanged /\ Goto(next) /\ draft' = [draft EXCEPT !.read = NoRead]
        /\ UNCHANGED <<dir, facts, admitted, gone>>
    BY <1>4 DEF CheckEditBase, still, disk, rest
  <2>2. call'.at = next /\ call'.op = call.op
    BY <1>2, <2>1, GotoSays
  <2>3. draft'.read.at = "open" /\ draft'.last = draft.last
    BY <1>2, <2>1 DEF BaseInv, NoRead
  <2>4. CASE call.at = "check"
    <3>1. Early' /\ call'.at \notin {"restat", "start", "rename"}
      BY <2>2, <2>4 DEF Early
    <3> QED BY <1>2, <2>1, <2>2, <2>3, <3>1, LastProceeds
  <2>5. CASE call.at = "recheck"
    <3>1. draft.read.id.obj = admitted.id.obj /\ draft.read.id.data = admitted.id.data
      BY <2>1, MatchSays DEF BaseUnchanged, SameIdentity, SameObject
    <3>2. /\ draft.read.id.obj = draft.read.file /\ draft.read.id # NoStat
          /\ draft.read.id.data \in Nat
      BY <1>1, <1>2 DEF BaseInv, Known
    <3>3. Checking
      BY <1>1, <2>5 DEF Checking
    <3>4. /\ draft.last.obj = draft.read.file /\ draft.last.data \in Nat
          /\ admitted.id.data <= draft.last.data /\ draft.last.data <= draft.read.id.data
      BY <1>1, <1>2, <3>1, <3>2, <3>3 DEF LastCheck
    <3>5. OfBase
      BY <3>1, <3>2, <3>4 DEF OfBase
    <3>6. OfBase' /\ Since'
      BY <1>2, <2>1, <2>3, <3>3, <3>5 DEF LastCheck, OfBase, Since, Fresh
    <3> QED BY <1>2, <2>1, <2>2, <2>3, <2>5, <3>6 DEF LastCheck, Early, Checking
  <2> QED BY <1>1, <2>4, <2>5
<1> QED BY <1>3, <1>4

LEMMA LastWrites ==
  ASSUME EInv, LastCheck, call.op = "config_save",
         SaveCreate \/ SaveBind \/ SaveWrite \/ SaveVerify \/ SaveRestat
  PROVE  LastCheck'
<1>1. /\ call.at \in {"create", "bindTemporary", "write", "verify", "restat"}
      /\ UNCHANGED <<draft, admitted, gone>> /\ World
  BY DEF SaveCreate, SaveBind, SaveWrite, SaveVerify, SaveRestat, SaveAt, Answer, still, rest, EInv
<1>2. draft.read.at = "open" /\ Early
  BY <1>1 DEF EInv, BaseInv, Early
<1>3. ASSUME NEW r, r # "ok", GiveUp(r) \/ Return(r)
      PROVE  LastCheck'
  <2>1. /\ call'.op = call.op /\ call'.at \in {"cleanup", "done"}
        /\ call'.at = "done" => call'.result # "ok"
    BY <1>1, <1>3, GiveUpSays, ReturnSays
  <2> QED BY <1>1, <2>1, LastQuits
<1>4. ASSUME NEW a, Goto(a), a \in {"bindTemporary", "write", "verify", "recheck", "start"},
             a = "start" => call.at = "restat", dir'["target"] = dir["target"],
             \A o \in Objects : /\ facts'[o].moves = facts[o].moves
                                /\ o # Candidate => facts'[o].data = facts[o].data
      PROVE  LastCheck'
  <2>1. call'.at = a /\ call'.op = call.op
    BY <1>1, <1>4, GotoSays
  <2> QED BY <1>1, <1>2, <1>4, <2>1, LastProceeds DEF Early
<1>5. CASE SaveCreate
  <2>1. CASE CreateNew("other") /\ Goto("bindTemporary") /\ UNCHANGED facts
    <3>1. dir'["target"] = dir["target"]
      BY <1>1, <2>1 DEF CreateNew, World, Typed, Names
    <3> QED BY <1>4, <2>1, <3>1
  <2> QED BY <1>3, <1>5, <2>1 DEF SaveCreate, Answer
<1>6. CASE SaveBind \/ SaveRestat
  BY <1>3, <1>4, <1>6 DEF SaveBind, SaveRestat, SaveAt, Answer, still, disk
<1>7. CASE SaveWrite
  <2>1. CASE WriteBytes(Filled) /\ Goto("verify")
    <3>1. /\ UNCHANGED dir /\ Candidate \in Objects
          /\ facts' = [facts EXCEPT ![Candidate].data = Filled]
      BY <1>7, <2>1 DEF SaveWrite, WriteBytes, Objects
    <3>2. \A o \in Objects : /\ facts'[o].moves = facts[o].moves
                             /\ o # Candidate => facts'[o].data = facts[o].data
      BY <1>1, <3>1 DEF World, Typed
    <3> QED BY <1>4, <2>1, <3>1, <3>2
  <2> QED BY <1>3, <1>7, <2>1 DEF SaveWrite
<1>8. CASE SaveVerify
  BY <1>3, <1>4, <1>8 DEF SaveVerify, still, disk
<1> QED BY <1>1, <1>5, <1>6, <1>7, <1>8

LEMMA LastEnds ==
  ASSUME EInv, LastCheck, call.op = "config_save", SaveFlush \/ SaveCleanUp
  PROVE  LastCheck'
<1>1. World /\ UNCHANGED draft
  BY DEF SaveFlush, SaveCleanUp, SaveAt, EInv
<1>2. CASE SaveFlush
  <2>1. /\ call.at = "flush" /\ call'.at = "done" /\ call'.op = call.op
        /\ UNCHANGED <<admitted, gone>>
    BY <1>1, <1>2, ReturnSays DEF SaveFlush, SaveAt, Answer, still, rest
  <2>2. OfBase'
    BY <1>1, <2>1 DEF LastCheck, OfBase
  <2> QED BY <1>1, <2>1, <2>2 DEF LastCheck, Early, Checking, SavedAfterCheck
<1>3. CASE SaveCleanUp
  <2>1. /\ call.at = "cleanup" /\ Return(call.result) /\ UNCHANGED admitted
        /\ gone' \subseteq gone \cup {Candidate}
    BY <1>3 DEF SaveCleanUp, SaveAt, Answer, Unlinked, still, rest
  <2>2. call'.at = "done" /\ call'.op = call.op /\ call'.result = call.result
    BY <1>1, <2>1, ReturnSays
  <2>3. call.result # "ok"
    BY <2>1 DEF EInv, SaveInv, Saves
  <2> QED BY <1>1, <2>1, <2>2, <2>3, LastQuits
<1> QED BY <1>2, <1>3

\* What the replacement displaces is what the last check opened, or was saved since.
LEMMA LastPublishes ==
  ASSUME EInv, LastCheck, call.op = "config_save", UNCHANGED draft,
         PlainReplaceLook \/ PlainReplace \/ PlainReplaceHalf
  PROVE  LastCheck'
<1>1. call.at \in {"start", "rename"} /\ World /\ UNCHANGED admitted /\ call.op \in Saves
  BY DEF PlainReplaceLook, PlainReplace, PlainReplaceHalf, Is, Refusal, still, rest, EInv, Saves
<1>2. draft.read.at = "open" /\ Early
  BY <1>1 DEF EInv, BaseInv, Early
<1>3. gone = {} /\ OfBase /\ dir["target"] \in {Absent, admitted.id.obj} \cup SavedAfterCheck
  BY <1>1, <1>2 DEF LastCheck, OfBase, Since, SavedAfterCheck
<1>4. ASSUME NEW r, GiveUp(r)
      PROVE  call'.op = call.op /\ call'.at = "cleanup"
  BY <1>1, <1>4, GiveUpSays
<1>5. ASSUME NEW r, Refusal(r)
      PROVE  LastCheck'
  BY <1>1, <1>4, <1>5, LastQuits DEF Refusal, Refuse, still
<1>6. CASE Goto("rename") /\ UNCHANGED still
  <2>1. call'.at = "rename" /\ call'.op = call.op
    BY <1>1, <1>6, GotoSays
  <2> QED BY <1>1, <1>2, <1>6, <2>1, LastProceeds DEF still, disk, Early
<1>7. CASE PlainReplace /\ ~ Refusal("Storage")
  <2>1. Goto("flush") /\ gone' \subseteq gone \cup ({dir["target"]} \ {Absent})
    BY <1>1, <1>7 DEF PlainReplace, Accomplish
  <2>2. call'.at = "flush" /\ call'.op = call.op
    BY <1>1, <2>1, GotoSays
  <2>3. OfBase'
    BY <1>1, <1>3 DEF OfBase
  <2> QED BY <1>1, <1>3, <2>1, <2>2, <2>3 DEF LastCheck, Early, Checking, SavedAfterCheck
<1>8. CASE PlainReplaceHalf
  <2>1. GiveUp("Storage") /\ gone' \subseteq gone \cup ({dir["target"]} \ {Absent})
    BY <1>1, <1>8 DEF PlainReplaceHalf, Refuse, Unlinked
  <2> QED BY <1>1, <1>3, <1>4, <2>1 DEF LastCheck, Early, Checking, SavedAfterCheck
<1> QED BY <1>5, <1>6, <1>7, <1>8 DEF PlainReplaceLook

\* Of the calls that publish, a save over a file makes the replacement by name.
LEMMA SaveOnlyReplaces ==
  ASSUME CallNext, call.op = "config_save"
  PROVE  PlainReplaceLook \/ PlainReplace \/ PlainReplaceHalf
<1>1. ~ PosixNext /\ ~ WindowsNext /\ ~ OpenNext
  BY CallAdvances
<1>2. PlainNext => PlainReplaceLook \/ PlainReplace \/ PlainReplaceHalf
  BY DEF PlainNext, PlainLink, PlainUnlink, PlainUndo, PlainMove, PlainDeleteMatch, PlainDelete, Is, At,
         Renames
<1> QED BY <1>1, <1>2 DEF CallNext

LEMMA LastKept ==
  ASSUME EInv, LastCheck, [Next]_allVars
  PROVE  LastCheck'
<1>0. call'.op = call.op
  BY NextAdvances DEF EInv, World
<1> SUFFICES ASSUME call.op = "config_save"
             PROVE  LastCheck'
  BY <1>0 DEF LastCheck
<1>1. CASE CallNext /\ UNCHANGED saveVars
  BY <1>1, SaveOnlyReplaces, LastPublishes DEF saveVars
<1>2. CASE ForeignNext /\ UNCHANGED saveVars
  BY <1>2, LastElsewhere DEF saveVars
<1>3. CASE SaveNext
  <2>1. CASE ReadUnstable
    BY <2>1, LastReadFails DEF ReadUnstable, ReadAt
  <2>2. ~ TargetAbsent
    BY DEF TargetAbsent
  <2> QED BY <1>3, <2>1, <2>2, LastReads, LastBegins, LastChecks, LastWrites, LastEnds DEF SaveNext
<1>4. CASE UNCHANGED <<vars, draft>>
  BY <1>4 DEF vars, LastCheck, Early, Checking, Since, Fresh, OfBase, SavedAfterCheck
<1>5. CASE (WalkNext \/ TreeNext) /\ UNCHANGED saveVars
  BY <1>4, <1>5, ListSteps DEF saveVars
<1> QED BY <1>1, <1>2, <1>3, <1>4, <1>5 DEF Next, Over, allVars, saveVars

LEMMA InitLast ==
  ASSUME Init
  PROVE  LastCheck
<1> SUFFICES ASSUME call.op = "config_save"
             PROVE  LastCheck
  BY DEF LastCheck
<1>1. EInv
  BY InitEInv
<1>2. /\ gone = {} /\ call.at = "begin" /\ admitted.id = Look("target") /\ dir["target"] = Target
      /\ draft.read.at = "open"
  BY DEF Init, NoDraft, NoRead, Saves, Verified
<1>3. Target \in Objects /\ Target # Candidate /\ Target # Absent /\ Typed
  BY <1>1, EntryAssumption DEF Objects, EInv, World
<1>4. /\ admitted.id # NoStat /\ admitted.id.obj = Target
      /\ admitted.id.data = facts[Target].data /\ facts[Target].data \in Nat
  BY <1>2, <1>3, LookSays DEF Names, Typed
<1> QED BY <1>2, <1>3, <1>4 DEF LastCheck, Early, Checking

\* EInv says of a call that is over what the properties say, and of a
\* call that is not that it has removed no file but those it may.
LEMMA InvEnds ==
  ASSUME EInv, Waits
  PROVE  NoneLost /\ RefusalChangesNothing /\ Committed /\ MetadataKept
<1>1. CASE call.at = "done"
  BY <1>1 DEF EInv, Ended
<1>2. CASE call.at # "done"
  <2>1. RefusalChangesNothing /\ Committed /\ MetadataKept
    BY <1>2 DEF RefusalChangesNothing, Refused, Committed, Succeeded, MetadataKept
  <2> SUFFICES NoneLost
    BY <2>1
  <2>2. call.op \in Ops
    BY DEF EInv, World, Typed
  <2>3. CASE call.op \in Saves
    BY <2>3 DEF EInv, SaveInv
  <2>4. CASE call.op = "replace"
    <3>1. CASE Posix
      BY <1>2, <2>4, <3>1 DEF EInv, PosixReplaces, NoneLost
    <3>2. CASE ~ Posix
      <4>1. call.result # "ok"
        BY <1>2, <2>4, <3>2 DEF Waits, Saves
      <4> QED BY <2>4, <3>2, <4>1 DEF NoneLost
    <3> QED BY <3>1, <3>2
  <2>5. CASE call.op = "delete"
    BY <1>2, <2>5 DEF EInv, Deletes, OnlyAdmitted, NoneLost, Removable
  <2>6. CASE call.op \in {"rename", "plain_replace", "plain_rename", "plain_delete", "read", "create", "list"}
    BY <1>2, <2>6 DEF EInv, Moves, Plains, Opens, Untouched, NoneLost
  <2> QED BY <2>1, <2>2, <2>3, <2>4, <2>5, <2>6 DEF Ops, Saves
<1> QED BY <1>1, <1>2
-------------------------------------------------------------------------------
(* The theorems.                                                                 *)

(* What the stages of every call hold of the directory, of the files and of what *)
(* the call has seen of them, whatever other programs do between two system calls *)
(* (src/native/yaca_native.c; src/config.lua for a save and its last check).      *)
THEOREM EntriesInv == Spec => [](EInv /\ Waits /\ LastCheck)
<1>1. Init => EInv /\ Waits /\ LastCheck
  BY InitEInv, InitLast
<1>2. EInv /\ Waits /\ LastCheck /\ [Next]_allVars => (EInv /\ Waits /\ LastCheck)'
  BY NextKeeps, WaitsKept, LastKept DEF EInv, World
<1> QED BY <1>1, <1>2, PTL DEF Spec

(* A file call removes the last name of no file but the one it was told of, at    *)
(* no moment of the call: not of a file that an editor renames over the target    *)
(* between two system calls of fs_replace_verified or fs_delete_direct_verified.  *)
(* Not so what the property excepts: the save of the configuration, which         *)
(* replaces by name (config.lua:2614), loses a file that another program saves    *)
(* at the target after its last check has opened it, and no other; and the        *)
(* roll-backs of ReplaceFileW and of fs_rename_no_replace lose what is there.     *)
THEOREM NothingForeignLostHolds == Spec => []NothingForeignLost
<1>1. EInv /\ Waits /\ LastCheck => NothingForeignLost
  BY InvEnds DEF LastCheck, NoneLost, NothingForeignLost, Removable
<1> QED BY <1>1, EntriesInv, PTL

(* A typed failure other than Unknown leaves the directory as other programs      *)
(* alone would have left it: every roll-back of the native calls is complete      *)
(* before TargetChanged is reported, but for the exceptions the property names.   *)
THEOREM RefusalChangesNothingHolds == Spec => []RefusalChangesNothing
<1>1. EInv /\ Waits => RefusalChangesNothing
  BY InvEnds
<1> QED BY <1>1, EntriesInv, PTL

(* An ok speaks of the very file, bytes and links that were admitted, although    *)
(* the last system call goes by the name again; a saved configuration is the      *)
(* draft, over a file whose every chunk was read as it is and which still was the *)
(* target, with that content, when the last check before the publication opened   *)
(* it (check_edit_base of src/config.lua).                                        *)
THEOREM CommitAdmittedHolds == Spec => []CommitAdmitted
<1>1. EInv /\ Waits /\ LastCheck => CommitAdmitted
  BY InvEnds DEF LastCheck, OfBase, Committed, CommitAdmitted, Succeeded
<1> QED BY <1>1, EntriesInv, PTL

(* A verified replacement that answers ok has put a file in place with the mode   *)
(* and the other metadata of the one admitted: fchmod and the copy of extended    *)
(* attributes precede the exchange, and what is displaced is looked at after it.  *)
THEOREM MetadataKeptHolds == Spec => []MetadataKept
<1>1. EInv /\ Waits => MetadataKept
  BY InvEnds
<1> QED BY <1>1, EntriesInv, PTL
-------------------------------------------------------------------------------
(* The walk of a list.  What holds of a walk w at the stage a, of the tree t and *)
(* of what the path has shown, v.                                                *)

Home == [Empty EXCEPT !["a"] = "file", !["b"] = "sub"]

Above == {<<n>> : n \in Slots}
Paths == Above \cup {<<m, n>> : m \in Slots, n \in Slots}

\* A path with the identity of what it led to.
Sights == Paths \X [obj : Things, stamp : Nat]

PathsOf(ms) == {m[1] : m \in ms}

Contents == [Slots -> Things \cup {Absent}]

Trees == [route : {"root", "elsewhere", Absent}, steps : Nat, stamp : [Things -> Nat],
          entries : [Folders -> Contents]]

\* The folders that were there at the start are where they were: none but "sub" is
\* below another, and the admitted one holds what it held while its stamp stands.
Ordered(t) ==
  /\ t \in Trees /\ t.entries["elsewhere"] = Empty
  /\ \A n \in Slots : /\ t.entries["root"][n] \notin {"root", "elsewhere"}
                      /\ t.entries["sub"][n] \notin Folders
  /\ t.stamp["root"] = 0 => t.entries["root"] = Home

Frames == [path : {<<>>} \cup Above, dir : Folders, was : Contents, seen : SUBSET Slots]

Walks == [depth : {0, 1}, most : Nat, round : {1, 2}, stack : Seq(Frames), next : {<<>>} \cup Above,
          found : SUBSET Paths, cut : BOOLEAN, coarse : BOOLEAN, todo : SUBSET Paths,
          marks : SUBSET Sights, snaps : SUBSET [path : Paths, id : [obj : Things \cup {Absent}, stamp : Nat],
                                                 ancestors : Seq(Folders \cup {Absent})],
          generation : SUBSET Sights, items : SUBSET Sights, complete : BOOLEAN]

Height(w) == Len(w.stack)
Top(w)    == w.stack[1]
Base(w)   == w.stack[Len(w.stack)]

Full(w) == Cardinality(w.found) >= w.most

Resting == {"verify", "start", "mark", "snap", "classify", "inspect"}

\* The open folders: the one asked for, and at most one below it.
Shape(a, w) ==
  /\ a \in Resting => Height(w) = 0
  /\ a = "open" => \/ w.next = <<>> /\ Height(w) = 0
                   \/ w.next \in Above /\ Height(w) = 1 /\ w.depth = 1
  /\ a \in {"scan", "read"} => \/ Height(w) = 1
                               \/ Height(w) = 2 /\ Top(w).path \in Above /\ w.depth = 1
  /\ Height(w) # 0 => Base(w).path = <<>> /\ Base(w).dir \in {"root", "elsewhere"}

\* Nothing is found before the first folder is read.  A path is found below another
\* that is found: when the limit keeps the one out, it keeps out the other.
FoundOK(a, w) ==
  /\ a \in {"verify", "start", "classify", "inspect"} \/ (a = "open" /\ w.next = <<>>) => w.found = {}
  /\ a \in {"verify", "start"} \/ (a = "open" /\ w.next = <<>>) => Whole(w)
  /\ \A m, n \in Slots : <<m, n>> \in w.found => <<m>> \in w.found /\ w.depth = 1
  /\ a = "open" /\ w.next # <<>> => w.next \in w.found \/ Full(w)
  /\ Height(w) = 2 => Top(w).path \in w.found \/ Full(w)
  /\ a = "scan" => Top(w).was = Empty /\ Top(w).seen = {} /\ (Height(w) = 1 => w.found = {})

Snapped(w) == {s.path : s \in w.snaps}

\* What was found is hashed path by path, a folder before what is below it; what
\* was hashed is classified path by path.
TodoOK(a, w) ==
  /\ a \in {"verify", "start", "open", "scan", "read"} => w.marks = {} /\ w.snaps = {} /\ w.todo = {}
  /\ a \in {"mark", "snap"} =>
       /\ Snapped(w) \cup w.todo = w.found
       /\ \A m, n \in Slots : <<m>> \in w.todo => <<m, n>> \notin PathsOf(w.marks)
  /\ a = "mark" => PathsOf(w.marks) = Snapped(w)
  /\ a = "snap" => w.todo # {} /\ PathsOf(w.marks) = Snapped(w) \cup {First(w.todo)}
  /\ a \in {"classify", "inspect"} =>
       w.round = 1 /\ w.marks = {} /\ PathsOf(w.items) \cup w.todo = PathsOf(w.generation)
  /\ a = "inspect" => w.todo # {}
  /\ w.round = 1 /\ a \notin {"classify", "inspect"} => w.generation = {} /\ w.items = {}
  /\ w.round = 2 => PathsOf(w.items) = PathsOf(w.generation)

\* Marks and items taken of the admitted folder while it stood still are not newer
\* than t.  An item is not older than the mark of its path.  Where the mark of "sub"
\* is that of t, so is what the folder holds.
Agrees(t, ms, is) ==
  /\ \A m \in ms \cup is : m[2].stamp <= t.stamp[m[2].obj]
  /\ \A m \in ms, i \in is : m[1] = i[1] /\ m[2].obj = i[2].obj => m[2].stamp <= i[2].stamp
  /\ \A m \in ms \cup is : \/ \E n \in {"a", "b"} : m[1] = <<n>> /\ m[2].obj = Home[n]
                           \/ \E n \in Slots : m[1] = <<"b", n>>
  /\ <<<<"b">>, Identity(t, "sub")>> \in ms =>
       \A m \in ms \cup is, n \in Slots : m[1] = <<"b", n>> => m[2].obj = t.entries["sub"][n]

\* The path showed no folder when it was read, or all of the folder was found.
Listed(ps, whole, v) == (ps = {} /\ {} \in v) \/ (whole => {<<"a">>, <<"b">>} \subseteq ps)

FirstWalk(a, w, t, v) ==
  w.round = 1 /\ t.stamp["root"] = 0 =>
    /\ Height(w) # 0 /\ Base(w).dir = "elsewhere" =>
         /\ {} \in v /\ w.found = {} /\ Base(w).was = Empty
         /\ Height(w) = 1 /\ a # "open"
    /\ Height(w) # 0 /\ Base(w).dir = "root" =>
         /\ a # "scan" \/ Height(w) = 2 => Base(w).was = Home
         /\ ~ w.cut => \A n \in Base(w).seen : <<n>> \in w.found
    /\ a \in {"mark", "snap"} => Listed(w.found, Whole(w), v) /\ Agrees(t, w.marks, {})

Between(a, w, t, v) ==
  (a \in {"classify", "inspect"} \/ (a = "verify" /\ w.round = 2)) /\ t.stamp["root"] = 0 =>
    Listed(PathsOf(w.generation), w.complete, v) /\ Agrees(t, w.generation, w.items)

\* Of "sub", the second walk has seen what it was in u, or sees it now.
Meets(u, w, t) ==
  t.stamp["sub"] = u.stamp["sub"] \/ <<<<"b">>, Identity(u, "sub")>> \in w.marks

Below(w) == {n \in Slots : <<"b", n>> \in w.found}

Covers(u, a, w, t, posix) ==
  Meets(u, w, t) /\ Whole(w) /\ w.depth = 1 =>
    IF Height(w) = 2 /\ Top(w).path = <<"b">>
    THEN /\ Top(w).dir = "sub"
         /\ a # "scan" => Top(w).was = u.entries["sub"] /\ Top(w).seen \subseteq Below(w)
    ELSE \/ a = "open" /\ w.next = <<"b">>
         \/ (posix => <<"b">> \notin w.found) /\ Below(w) = {}
         \/ \A n \in Slots : u.entries["sub"][n] # Absent => n \in Below(w)

\* u is the tree at the moment the second walk verified its root.
Second(u, a, w, t, v, posix) ==
  /\ Ordered(u) /\ u.route = "root" /\ u.entries["root"] = Home /\ Shown(u, w.depth) \in v
  /\ Agrees(u, w.generation, w.items)
  /\ \A x \in Things : u.stamp[x] <= t.stamp[x]
  /\ t.stamp["sub"] = u.stamp["sub"] =>
       t.entries["sub"] = u.entries["sub"] /\ (posix => t.entries["root"]["b"] = "sub")
  /\ \A m \in w.marks : u.stamp[m[2].obj] <= m[2].stamp
  /\ Covers(u, a, w, t, posix)

SecondWalk(a, w, t, v, posix) ==
  w.round = 2 /\ a # "verify" =>
    /\ Listed(PathsOf(w.generation), w.complete, v)
    /\ \E u \in Trees : Second(u, a, w, t, v, posix)

Walking(a, w, t, v, posix) ==
  /\ a \in {"verify", "start", "open", "scan", "read", "mark", "snap", "classify", "inspect"}
  /\ w \in Walks /\ Ordered(t) /\ Shown(t, w.depth) \in v
  /\ Shape(a, w) /\ FoundOK(a, w) /\ TodoOK(a, w)
  /\ FirstWalk(a, w, t, v) /\ Between(a, w, t, v) /\ SecondWalk(a, w, t, v, posix)

ListInv ==
  /\ call.op = "list" /\ call.at # "done" => Walking(call.at, walk, tree, views, Posix)
  /\ ListIsASnapshot
-------------------------------------------------------------------------------
(* Paths.                                                                        *)

LEMMA PathParts ==
  ASSUME NEW m \in Slots, NEW n \in Slots
  PROVE  /\ Front(<<n>>) = <<>> /\ Front(<<m, n>>) = <<m>>
         /\ Child(<<>>, n) = <<n>> /\ Child(<<m>>, n) = <<m, n>>
         /\ Len(<<n>>) = 1 /\ Len(<<m, n>>) = 2 /\ <<n>> # <<>> /\ <<m, n>> # <<>>
<1>1. /\ <<>> \in Seq(Slots) /\ <<m>> \in Seq(Slots) /\ <<m, n>> \in Seq(Slots)
      /\ Len(<<n>>) = 1 /\ Len(<<m, n>>) = 2 /\ Len(<<>>) = 0
  OBVIOUS
<1>2. Front(<<n>>) = <<>>
  <2>1. Front(<<n>>) = SubSeq(<<n>>, 1, 0)
    BY <1>1 DEF Front
  <2> QED BY <2>1, SubSeqEmpty
<1>3. Front(<<m, n>>) = <<m>>
  <2>1. Front(<<m, n>>) = SubSeq(<<m, n>>, 1, 1)
    BY <1>1 DEF Front
  <2>2. \A i \in 1 .. 1 : <<m, n>>[i] \in Slots
    OBVIOUS
  <2>3. /\ SubSeq(<<m, n>>, 1, 1) \in Seq(Slots) /\ Len(SubSeq(<<m, n>>, 1, 1)) = 1
        /\ \A i \in 1 .. 1 : SubSeq(<<m, n>>, 1, 1)[i] = <<m, n>>[i]
    BY <2>2, SubSeqProperties, Z3
  <2> QED BY <2>1, <2>3
<1>4. Child(<<>>, n) = <<n>> /\ Child(<<m>>, n) = <<m, n>>
  <2>1. Append(<<>>, n) = <<n>>
    BY <1>1
  <2>2. Append(<<m>>, n) \in Seq(Slots) /\ Len(Append(<<m>>, n)) = 2
        /\ Append(<<m>>, n)[1] = m /\ Append(<<m>>, n)[2] = n
    BY <1>1
  <2>3. <<m, n>> \in Seq(Slots) /\ \A i \in 1 .. 2 : Append(<<m>>, n)[i] = <<m, n>>[i]
    BY <1>1, <2>2
  <2>4. Append(<<m>>, n) = <<m, n>>
    BY <1>1, <2>2, <2>3, SeqEqual
  <2> QED BY <2>1, <2>4 DEF Child
<1>5. <<n>> # <<>> /\ <<m, n>> # <<>>
  BY <1>1
<1> QED BY <1>1, <1>2, <1>3, <1>4, <1>5

\* What a path leads to, where no folder but "sub" is below another.
LEMMA PathSays ==
  ASSUME tree \in Trees, NEW m \in Slots, NEW n \in Slots
  PROVE  /\ FolderAt(<<>>) = tree.route
         /\ FolderAt(<<m>>) = IF tree.route # Absent /\ Follow(tree.entries[tree.route][m]) \in Folders
                              THEN Follow(tree.entries[tree.route][m]) ELSE Absent
         /\ EntryAt(<<n>>) = IF tree.route = Absent THEN Absent ELSE tree.entries[tree.route][n]
         /\ EntryAt(<<m, n>>) = IF FolderAt(<<m>>) = Absent THEN Absent
                                ELSE tree.entries[FolderAt(<<m>>)][n]
<1>1. FolderAt(<<>>) = tree.route
  BY DEF FolderAt, Trees, Folders, Absent
<1>2. FolderAt(<<m>>) = IF tree.route # Absent /\ Follow(tree.entries[tree.route][m]) \in Folders
                        THEN Follow(tree.entries[tree.route][m]) ELSE Absent
  BY DEF FolderAt, Folders, Absent
<1>3. EntryAt(<<n>>) = IF tree.route = Absent THEN Absent ELSE tree.entries[tree.route][n]
  BY <1>1, PathParts DEF EntryAt
<1>4. EntryAt(<<m, n>>) = IF FolderAt(<<m>>) = Absent THEN Absent
                          ELSE tree.entries[FolderAt(<<m>>)][n]
  BY PathParts DEF EntryAt
<1> QED BY <1>1, <1>2, <1>3, <1>4

\* Of the admitted folder, while it holds what it held, a path shows "a", "b" and
\* what is in "sub".
LEMMA HomeSays ==
  ASSUME Ordered(tree), tree.entries["root"] = Home, NEW p \in Paths, EntryAt(p) # Absent
  PROVE  /\ EntryAt(p) \in Things
         /\ \/ \E n \in {"a", "b"} : p = <<n>> /\ EntryAt(p) = Home[n]
            \/ \E n \in Slots : p = <<"b", n>> /\ EntryAt(p) = tree.entries["sub"][n]
<1> USE DEF Things, Folders, Plain, Absent
<1>0. /\ tree \in Trees /\ tree.entries["elsewhere"] = Empty
      /\ \A n \in Slots : Empty[n] = Absent /\ Home[n] = (IF n = "a" THEN "file" ELSE IF n = "b" THEN "sub" ELSE Absent)
      /\ tree.route \in {"root", "elsewhere", Absent}
      /\ \A n \in Slots : tree.entries["sub"][n] \in Things \cup {Absent}
  BY DEF Ordered, Trees, Empty, Home, Slots, Contents
<1>1. CASE p \in Above
  <2>1. PICK n \in Slots : p = <<n>>
    BY <1>1 DEF Above
  <2>2. EntryAt(p) = IF tree.route = Absent THEN Absent ELSE tree.entries[tree.route][n]
    BY <1>0, <2>1, PathSays
  <2>3. tree.route = "root" /\ n \in {"a", "b"}
    BY <1>0, <2>2
  <2> QED BY <1>0, <2>1, <2>2, <2>3
<1>2. CASE p \notin Above
  <2>1. PICK m \in Slots, n \in Slots : p = <<m, n>>
    BY <1>2 DEF Paths
  <2>2. /\ EntryAt(p) = IF FolderAt(<<m>>) = Absent THEN Absent ELSE tree.entries[FolderAt(<<m>>)][n]
        /\ FolderAt(<<m>>) = IF tree.route # Absent /\ Follow(tree.entries[tree.route][m]) \in Folders
                             THEN Follow(tree.entries[tree.route][m]) ELSE Absent
    BY <1>0, <2>1, PathSays
  <2>3. tree.route = "root" /\ m = "b" /\ FolderAt(<<m>>) = "sub"
    BY <1>0, <2>2 DEF Follow
  <2> QED BY <1>0, <2>1, <2>2, <2>3
<1> QED BY <1>1, <1>2

LEMMA RankSays ==
  ASSUME NEW m \in Slots, NEW n \in Slots
  PROVE  Rank(<<n>>) \in Nat /\ Rank(<<m, n>>) \in Nat /\ Rank(<<m>>) < Rank(<<m, n>>)
BY PathParts DEF Rank, Slots

(* Among some natural numbers there is a least one.                            *)
LEMMA Least ==
  ASSUME NEW S, S \subseteq Nat, S # {}
  PROVE  \E m \in S : \A n \in S : m <= n
<1> DEFINE T == {0..n : n \in S}
<1>1. T \subseteq FiniteSubsetsOf(Nat)
  <2> SUFFICES ASSUME NEW n \in S PROVE 0..n \subseteq Nat /\ IsFiniteSet(0..n)
    BY DEF FiniteSubsetsOf
  <2> QED BY FS_Interval
<1>2. T # {}
  OBVIOUS
<1>3. IsWellFoundedOn(StrictSubsetOrdering(Nat), FiniteSubsetsOf(Nat))
  BY FS_StrictSubsetOrderingWellFounded
<1>4. PICK x \in T : \A y \in T : <<y, x>> \notin StrictSubsetOrdering(Nat)
  <2> HIDE DEF T
  <2> QED BY <1>1, <1>2, <1>3, WFMin
<1>5. PICK m \in S : x = 0..m
  OBVIOUS
<1>6. ASSUME NEW n \in S, n < m PROVE FALSE
  <2>1. 0..n \subseteq 0..m /\ m \in 0..m /\ m \notin 0..n /\ 0..m \subseteq Nat
    BY <1>6
  <2>2. <<0..n, 0..m>> \in StrictSubsetOrdering(Nat)
    BY <2>1 DEF StrictSubsetOrdering
  <2> QED BY <1>4, <1>5, <2>2
<1> QED BY <1>6

\* The first of some paths is one of them, and a folder precedes what is below it.
LEMMA FirstSays ==
  ASSUME NEW ps \in SUBSET Paths, ps # {}
  PROVE  /\ First(ps) \in ps
         /\ \A m, n \in Slots : First(ps) = <<m, n>> => <<m>> \notin ps
<1>1. ASSUME NEW p \in Paths
      PROVE  Rank(p) \in Nat
  <2>1. PICK m \in Slots, n \in Slots : p = <<n>> \/ p = <<m, n>>
    BY <1>1 DEF Paths, Above
  <2>2. Rank(<<n>>) \in Nat /\ Rank(<<m, n>>) \in Nat
    BY RankSays
  <2> QED BY <2>1, <2>2
<1> DEFINE ranks == {Rank(p) : p \in ps}
<1>2. ranks \subseteq Nat /\ ranks # {}
  BY <1>1
<1>3. PICK r \in ranks : \A q \in ranks : r <= q
  BY <1>2, Least
<1>5. PICK p \in ps : r = Rank(p)
  BY <1>3
<1>6. \A q \in ps : Rank(p) <= Rank(q)
  BY <1>3, <1>5
<1>7. First(ps) \in ps /\ \A q \in ps : Rank(First(ps)) <= Rank(q)
  BY <1>6 DEF First
<1>8. ASSUME NEW m \in Slots, NEW n \in Slots, First(ps) = <<m, n>>, <<m>> \in ps
      PROVE  FALSE
  <2>1. Rank(<<m, n>>) <= Rank(<<m>>)
    BY <1>7, <1>8
  <2>2. Rank(<<m>>) \in Nat /\ Rank(<<m, n>>) \in Nat /\ Rank(<<m>>) < Rank(<<m, n>>)
    BY RankSays
  <2> QED BY <2>1, <2>2
<1> QED BY <1>7, <1>8
\* What the path shows of the admitted folder, while it holds what it held.
LEMMA ShownSays ==
  ASSUME NEW u, Ordered(u), u.route = "root", u.entries["root"] = Home, NEW d \in {0, 1}, NEW e
  PROVE  e \in Shown(u, d) <=>
           \/ \E n \in {"a", "b"} : e = <<<<n>>, Identity(u, Home[n])>>
           \/ /\ d = 1
              /\ \E m \in Slots : /\ u.entries["sub"][m] # Absent
                                  /\ e = <<<<"b", m>>, Identity(u, u.entries["sub"][m])>>
<1> DEFINE top == IF u.route = Absent THEN Empty ELSE u.entries[u.route]
           below(f) == {n \in Slots : u.entries[f][n] # Absent}
           level(k) == {<<<<k, m>>, Identity(u, u.entries[top[k]][m])>> : m \in below(top[k])}
           above == {<<<<n>>, Identity(u, top[n])>> : n \in {k \in Slots : top[k] # Absent}}
           inner == UNION {level(n) : n \in {k \in Slots : top[k] \in Folders}}
<1>1. top = Home
  BY DEF Absent
<1>2. /\ {k \in Slots : Home[k] # Absent} = {"a", "b"} /\ {k \in Slots : Home[k] \in Folders} = {"b"}
      /\ Home["b"] = "sub"
  BY DEF Home, Empty, Slots, Absent, Folders
<1>3. Shown(u, d) = above \cup IF d = 0 THEN {} ELSE inner
  BY DEF Shown
<1>4. above = {<<<<n>>, Identity(u, Home[n])>> : n \in {"a", "b"}}
  BY <1>1, <1>2
<1>5. inner = {<<<<"b", m>>, Identity(u, u.entries["sub"][m])>> : m \in below("sub")}
  <2> HIDE DEF top
  <2>1. {k \in Slots : top[k] \in Folders} = {"b"} /\ top["b"] = "sub"
    BY <1>1, <1>2
  <2>2. inner = level("b")
    <3> HIDE DEF level
    <3> QED BY <2>1
  <2> QED BY <2>1, <2>2
<1> HIDE DEF above, inner
<1>6. e \in above <=> \E n \in {"a", "b"} : e = <<<<n>>, Identity(u, Home[n])>>
  BY <1>4
<1>7. e \in inner <=> \E m \in Slots : /\ u.entries["sub"][m] # Absent
                                       /\ e = <<<<"b", m>>, Identity(u, u.entries["sub"][m])>>
  BY <1>5
<1> QED BY <1>3, <1>6, <1>7

\* What leads to the other folder, or to none, shows nothing.
LEMMA ShownNothing ==
  ASSUME NEW u, Ordered(u), u.route # "root", NEW d
  PROVE  Shown(u, d) = {}
<1> DEFINE top == IF u.route = Absent THEN Empty ELSE u.entries[u.route]
           below(f) == {n \in Slots : u.entries[f][n] # Absent}
<1>1. top = Empty
  BY DEF Ordered, Trees
<1>2. {k \in Slots : top[k] # Absent} = {} /\ {k \in Slots : top[k] \in Folders} = {}
  BY <1>1 DEF Empty, Absent, Folders
<1> HIDE DEF top
<1>3. Shown(u, d) = {<<<<n>>, Identity(u, top[n])>> : n \in {k \in Slots : top[k] # Absent}} \cup
     IF d = 0 THEN {}
     ELSE UNION {{<<<<n, m>>, Identity(u, u.entries[top[n]][m])>> : m \in below(top[n])} :
                   n \in {k \in Slots : top[k] \in Folders}}
  BY DEF Shown, top
<1> QED BY <1>2, <1>3
-------------------------------------------------------------------------------
(* Other programs.                                                               *)

\* From the tree t to the tree u: a stamp never goes back, and a folder with the same
\* stamp holds the same; on POSIX it also lies where it lay.
Onward(t, u, posix) ==
  /\ \A x \in Things : t.stamp[x] <= u.stamp[x]
  /\ \A f \in {"root", "sub"} : u.stamp[f] = t.stamp[f] => u.entries[f] = t.entries[f]
  /\ posix /\ u.stamp["sub"] = t.stamp["sub"] /\ t.entries["root"]["b"] = "sub" =>
       u.entries["root"]["b"] = "sub"

LEMMA TreeStepSays ==
  ASSUME Ordered(tree), TreeNext
  PROVE  /\ call.op = "list" /\ call.at # "done" /\ UNCHANGED <<vars, walk>>
         /\ Ordered(tree') /\ Onward(tree, tree', Posix)
         /\ views \subseteq views' /\ Shown(tree', walk.depth) \in views'
<1> USE DEF Things, Folders, Plain, Absent
<1>0. tree \in Trees /\ \A x \in Things : tree.stamp[x] \in Nat
  BY DEF Ordered, Trees
<1>1. ASSUME NEW t, TreeStep(t), Ordered(t), Onward(tree, t, Posix)
      PROVE  /\ call.op = "list" /\ call.at # "done" /\ UNCHANGED <<vars, walk>>
             /\ Ordered(tree') /\ Onward(tree, tree', Posix)
             /\ views \subseteq views' /\ Shown(tree', walk.depth) \in views'
  <2>1. /\ tree' = [t EXCEPT !.steps = @ + 1] /\ views' = views \cup {Shown(tree', walk.depth)}
        /\ call.op = "list" /\ call.at # "done" /\ UNCHANGED <<vars, walk>>
    BY <1>1 DEF TreeStep
  <2>2. tree' \in Trees /\ tree'.entries = t.entries /\ tree'.stamp = t.stamp
    BY <1>1, <2>1 DEF Ordered, Trees
  <2> QED BY <1>1, <2>1, <2>2 DEF Ordered, Onward
<1>2. ASSUME NEW f \in {"root", "sub"}, NEW n \in Slots,
             NEW o \in {Absent, "spare", "link", "sub", "file"}, PlaceEntry(f, n, o)
      PROVE  \E t : TreeStep(t) /\ Ordered(t) /\ Onward(tree, t, Posix)
  <2> DEFINE old == tree.entries[f][n]
             moved == IF Posix THEN {o, old, f} ELSE {f}
             t == [tree EXCEPT !.entries[f][n] = o,
                     !.stamp = [x \in Things |-> IF x \in moved THEN @[x] + 1 ELSE @[x]]]
  <2>1. TreeStep(t) /\ o # f
    BY <1>2 DEF PlaceEntry
  <2>2. /\ t.route = tree.route /\ t.steps = tree.steps
        /\ t.entries = [tree.entries EXCEPT ![f][n] = o]
        /\ t.stamp = [x \in Things |-> IF x \in moved THEN tree.stamp[x] + 1 ELSE tree.stamp[x]]
        /\ DOMAIN t = DOMAIN tree
    BY <1>0 DEF Trees
  <2>3. t.entries \in [Folders -> Contents] /\ t.stamp \in [Things -> Nat]
    BY <1>0, <2>2 DEF Trees, Contents
  <2>4. t \in Trees
    BY <1>0, <2>2, <2>3 DEF Trees
  <2>5. /\ \A g \in Folders : g # f => t.entries[g] = tree.entries[g]
        /\ \A k \in Slots : t.entries[f][k] = IF k = n THEN o ELSE tree.entries[f][k]
    BY <1>0, <2>2 DEF Trees, Contents
  <2>6. /\ \A x \in Things : tree.stamp[x] <= t.stamp[x]
        /\ t.stamp[f] = tree.stamp[f] + 1 /\ (Posix /\ old \in Things => t.stamp[old] = tree.stamp[old] + 1)
    BY <1>0, <2>2
  <2> HIDE DEF t
  <2>7. Ordered(t)
    BY <1>0, <2>1, <2>4, <2>5, <2>6 DEF Ordered
  <2>8. Onward(tree, t, Posix)
    <3>1. \A g \in {"root", "sub"} : t.stamp[g] = tree.stamp[g] => t.entries[g] = tree.entries[g]
      BY <1>0, <2>5, <2>6
    <3>2. Posix /\ t.stamp["sub"] = tree.stamp["sub"] /\ tree.entries["root"]["b"] = "sub" =>
            t.entries["root"]["b"] = "sub"
      BY <1>0, <2>5, <2>6 DEF Slots
    <3> QED BY <2>6, <3>1, <3>2 DEF Onward
  <2> QED BY <2>1, <2>7, <2>8
<1>3. ASSUME NEW o \in {"file", "inner"}, WriteFile(o)
      PROVE  \E t : TreeStep(t) /\ Ordered(t) /\ Onward(tree, t, Posix)
  <2> DEFINE t == [tree EXCEPT !.stamp[o] = @ + 1]
  <2>1. TreeStep(t)
    BY <1>3 DEF WriteFile
  <2>2. /\ t \in Trees /\ t.entries = tree.entries /\ t.stamp = [tree.stamp EXCEPT ![o] = @ + 1]
    BY <1>0 DEF Trees
  <2>3. \A x \in Things : t.stamp[x] = IF x = o THEN tree.stamp[x] + 1 ELSE tree.stamp[x]
    BY <1>0, <2>2 DEF Trees
  <2> HIDE DEF t
  <2>4. Ordered(t) /\ Onward(tree, t, Posix)
    BY <1>0, <2>2, <2>3 DEF Ordered, Onward
  <2> QED BY <2>1, <2>4
<1>4. ASSUME NEW r \in {"root", "elsewhere", Absent}, Reroute(r)
      PROVE  \E t : TreeStep(t) /\ Ordered(t) /\ Onward(tree, t, Posix)
  <2> DEFINE t == [tree EXCEPT !.route = r]
  <2>1. TreeStep(t)
    BY <1>4 DEF Reroute
  <2>2. t \in Trees /\ t.entries = tree.entries /\ t.stamp = tree.stamp
    BY <1>0 DEF Trees
  <2> HIDE DEF t
  <2>3. Ordered(t) /\ Onward(tree, t, Posix)
    BY <1>0, <2>2 DEF Ordered, Onward
  <2> QED BY <2>1, <2>3
<1> QED BY <1>1, <1>2, <1>3, <1>4 DEF TreeNext
-------------------------------------------------------------------------------
(* The steps of reading.                                                         *)

\* What a step of reading leaves alone of the walk.
Kept(w, x) ==
  /\ x.depth = w.depth /\ x.most = w.most /\ x.round = w.round
  /\ x.generation = w.generation /\ x.items = w.items /\ x.complete = w.complete
  /\ x.todo = w.todo /\ x.marks = w.marks /\ x.snaps = w.snaps

SameStack(w, x) == Height(x) = Height(w) /\ Top(x) = Top(w) /\ Base(x) = Base(w)

LEMMA StackSays ==
  ASSUME NEW w, w \in Walks, Height(w) # 0
  PROVE  /\ Height(w) \in Nat /\ Top(w) \in Frames /\ Base(w) \in Frames
         /\ Height(w) = 1 => Base(w) = Top(w)
BY DEF Walks, Height, Top, Base

LEMMA PushSays ==
  ASSUME NEW w, w \in Walks, Height(w) \in {0, 1}, NEW f \in Frames
  PROVE  LET x == [w EXCEPT !.stack = <<f>> \o @]
         IN /\ x \in Walks /\ Kept(w, x) /\ x.next = w.next /\ x.found = w.found
            /\ x.cut = w.cut /\ x.coarse = w.coarse
            /\ Height(x) = Height(w) + 1 /\ Top(x) = f
            /\ Base(x) = IF Height(w) = 0 THEN f ELSE Base(w)
<1> DEFINE x == [w EXCEPT !.stack = <<f>> \o @]
           s == <<f>> \o w.stack
<1>1. w.stack \in Seq(Frames) /\ <<f>> \in Seq(Frames) /\ Len(<<f>>) = 1 /\ <<f>>[1] = f
  BY DEF Walks
<1>2. s \in Seq(Frames) /\ Len(s) = 1 + Len(w.stack)
  BY <1>1
<1>3. s[1] = f /\ (Len(w.stack) = 1 => s[2] = w.stack[1])
  BY <1>1
<1>4. x.stack = s /\ x \in Walks
  BY <1>2 DEF Walks
<1>5. /\ Kept(w, x) /\ x.next = w.next /\ x.found = w.found /\ x.cut = w.cut /\ x.coarse = w.coarse
  BY DEF Walks, Kept
<1> HIDE DEF x, s
<1>6. /\ Height(x) = Height(w) + 1 /\ Top(x) = f /\ Base(x) = IF Height(w) = 0 THEN f ELSE Base(w)
  BY <1>1, <1>2, <1>3, <1>4 DEF Height, Top, Base
<1> QED BY <1>4, <1>5, <1>6 DEF x

LEMMA PopSays ==
  ASSUME NEW w, w \in Walks, Height(w) = 2
  PROVE  LET x == [w EXCEPT !.stack = Tail(@)]
         IN /\ x \in Walks /\ Kept(w, x) /\ x.next = w.next /\ x.found = w.found
            /\ x.cut = w.cut /\ x.coarse = w.coarse
            /\ Height(x) = 1 /\ Top(x) = Base(w) /\ Base(x) = Base(w)
<1> DEFINE x == [w EXCEPT !.stack = Tail(@)]
           s == Tail(w.stack)
<1>1. w.stack \in Seq(Frames) /\ w.stack # <<>> /\ Len(w.stack) = 2
  <2>1. w.stack \in Seq(Frames) /\ Len(w.stack) = 2
    BY DEF Walks, Height
  <2>2. Len(<<>>) = 0
    OBVIOUS
  <2> QED BY <2>1, <2>2
<1>2. s \in Seq(Frames) /\ Len(s) = 1 /\ s[1] = w.stack[2]
  BY <1>1
<1>3. x.stack = s /\ x \in Walks
  BY <1>2 DEF Walks
<1>4. /\ Kept(w, x) /\ x.next = w.next /\ x.found = w.found /\ x.cut = w.cut /\ x.coarse = w.coarse
  BY DEF Walks, Kept
<1> HIDE DEF x, s
<1>5. Height(x) = 1 /\ Top(x) = Base(w) /\ Base(x) = Base(w)
  BY <1>1, <1>2, <1>3 DEF Height, Top, Base
<1> QED BY <1>3, <1>4, <1>5 DEF x

LEMMA SetSays ==
  ASSUME NEW w, w \in Walks, Height(w) # 0, NEW h \in Contents, NEW ns \in SUBSET Slots
  PROVE  /\ LET x == [w EXCEPT !.stack[1].was = h]
            IN /\ x \in Walks /\ Kept(w, x) /\ x.next = w.next /\ x.found = w.found
               /\ x.cut = w.cut /\ x.coarse = w.coarse
               /\ Height(x) = Height(w) /\ Top(x) = [Top(w) EXCEPT !.was = h]
               /\ Base(x) = IF Height(w) = 1 THEN Top(x) ELSE Base(w)
         /\ LET x == [w EXCEPT !.stack[1].seen = ns]
            IN /\ x \in Walks /\ Kept(w, x) /\ x.next = w.next /\ x.found = w.found
               /\ x.cut = w.cut /\ x.coarse = w.coarse
               /\ Height(x) = Height(w) /\ Top(x) = [Top(w) EXCEPT !.seen = ns]
               /\ Base(x) = IF Height(w) = 1 THEN Top(x) ELSE Base(w)
<1>1. w.stack \in Seq(Frames) /\ Len(w.stack) \in Nat \ {0} /\ w.stack[1] \in Frames
  BY DEF Walks, Height
<1>2. ASSUME NEW g \in Frames, NEW x, x = [w EXCEPT !.stack[1] = g]
      PROVE  /\ x \in Walks /\ Kept(w, x) /\ x.next = w.next /\ x.found = w.found
             /\ x.cut = w.cut /\ x.coarse = w.coarse
             /\ Height(x) = Height(w) /\ Top(x) = g
             /\ Base(x) = IF Height(w) = 1 THEN Top(x) ELSE Base(w)
  <2> DEFINE s == [w.stack EXCEPT ![1] = g]
  <2>1. /\ s \in Seq(Frames) /\ Len(s) = Len(w.stack) /\ s[1] = g
        /\ \A i \in 1 .. Len(w.stack) : i # 1 => s[i] = w.stack[i]
    BY <1>1
  <2>2. x.stack = s /\ x \in Walks
    BY <1>2, <2>1 DEF Walks
  <2>3. /\ Kept(w, x) /\ x.next = w.next /\ x.found = w.found /\ x.cut = w.cut /\ x.coarse = w.coarse
    BY <1>2 DEF Walks, Kept
  <2> HIDE DEF s
  <2>4. Height(x) = Height(w) /\ Top(x) = g /\ Base(x) = IF Height(w) = 1 THEN Top(x) ELSE Base(w)
    <3>1. Height(x) = Height(w) /\ Top(x) = g
      BY <2>1, <2>2 DEF Height, Top
    <3>2. Base(x) = s[Len(w.stack)] /\ Base(w) = w.stack[Len(w.stack)]
      BY <2>1, <2>2 DEF Base
    <3>3. CASE Len(w.stack) = 1
      BY <2>1, <3>1, <3>2, <3>3 DEF Height
    <3>4. CASE Len(w.stack) # 1
      <4>1. Len(w.stack) \in 1 .. Len(w.stack)
        BY <1>1
      <4>2. s[Len(w.stack)] = w.stack[Len(w.stack)]
        BY <2>1, <3>4, <4>1
      <4> QED BY <3>1, <3>2, <3>4, <4>2 DEF Height
    <3> QED BY <3>1, <3>3, <3>4
  <2> QED BY <2>2, <2>3, <2>4
<1>3. [Top(w) EXCEPT !.was = h] \in Frames /\ [Top(w) EXCEPT !.seen = ns] \in Frames
  BY <1>1 DEF Frames, Top
<1>4. /\ [w EXCEPT !.stack[1].was = h] = [w EXCEPT !.stack[1] = [Top(w) EXCEPT !.was = h]]
      /\ [w EXCEPT !.stack[1].seen = ns] = [w EXCEPT !.stack[1] = [Top(w) EXCEPT !.seen = ns]]
  BY <1>1 DEF Top, Walks
<1> QED BY <1>2, <1>3, <1>4

\* A path is found unless the limit is reached, and then no other path is.
LEMMA AppendedSays ==
  ASSUME NEW w, w \in Walks, NEW p \in Paths
  PROVE  LET x == Appended(w, p)
         IN /\ x \in Walks /\ Kept(w, x) /\ x.next = w.next /\ SameStack(w, x)
            /\ x.coarse = w.coarse /\ (w.cut => x.cut)
            /\ w.found \subseteq x.found /\ x.found \subseteq w.found \cup {p}
            /\ p \in x.found \/ (x.cut /\ Full(x))
            /\ Full(w) => x.found = w.found /\ Full(x)
<1>1. CASE Full(w)
  BY <1>1 DEF Full, Appended, Walks, Kept, SameStack, Height, Top, Base
<1>2. CASE ~ Full(w)
  BY <1>2 DEF Full, Appended, Walks, Kept, SameStack, Height, Top, Base
<1> QED BY <1>1, <1>2

\* A step of reading keeps what was hashed, and what the second walk is compared with.
LEMMA ReadingKeeps ==
  ASSUME NEW a \in {"start", "open", "scan", "read"}, NEW b \in {"open", "scan", "read"},
         NEW w, NEW x, NEW t, NEW v, NEW posix, Walking(a, w, t, v, posix), x \in Walks, Kept(w, x),
         Shape(b, x), FoundOK(b, x), FirstWalk(b, x, t, v),
         \A u : Second(u, a, w, t, v, posix) => Covers(u, b, x, t, posix)
  PROVE  Walking(b, x, t, v, posix)
<1>1. TodoOK(b, x)
  BY DEF Walking, TodoOK, Kept
<1>2. Between(b, x, t, v)
  BY DEF Between
<1>3. SecondWalk(b, x, t, v, posix)
  <2>1. ASSUME NEW u, Second(u, a, w, t, v, posix)
        PROVE  Second(u, b, x, t, v, posix)
    BY <2>1 DEF Second, Kept
  <2> QED BY <2>1 DEF SecondWalk, Walking, Kept
<1> QED BY <1>1, <1>2, <1>3 DEF Walking, Kept

LEMMA StartKeeps ==
  ASSUME Walking("start", walk, tree, views, Posix)
  PROVE  Walking("open", [walk EXCEPT !.next = <<>>], tree, views, Posix)
<1> DEFINE x == [walk EXCEPT !.next = <<>>]
<1>1. /\ x \in Walks /\ Kept(walk, x) /\ SameStack(walk, x) /\ x.next = <<>> /\ x.found = walk.found
      /\ x.cut = walk.cut /\ x.coarse = walk.coarse
  BY DEF Walking, Walks, Kept, SameStack, Height, Top, Base
<1>2. Height(x) = 0 /\ x.found = {} /\ Whole(x)
  BY <1>1 DEF Walking, Shape, Resting, FoundOK, SameStack, Whole
<1> HIDE DEF x
<1>3. Shape("open", x) /\ FoundOK("open", x)
  BY <1>1, <1>2 DEF Shape, Resting, FoundOK
<1>4. FirstWalk("open", x, tree, views)
  BY <1>2 DEF FirstWalk
<1>5. ASSUME NEW u PROVE Covers(u, "open", x, tree, Posix)
  BY <1>2 DEF Covers, Below
<1> QED BY <1>1, <1>3, <1>4, <1>5, ReadingKeeps DEF x

\* A folder is opened: the one asked for, or "sub", or the one a link leads to.
LEMMA FolderOpens ==
  ASSUME Walking("open", walk, tree, views, Posix),
         FolderAt(walk.next) # Absent, ~ Posix => IsFolder(walk.next)
  PROVE  Walking("scan",
           [walk EXCEPT !.stack =
              <<[path |-> walk.next, dir |-> FolderAt(walk.next), was |-> Empty, seen |-> {}]>> \o @],
           tree, views, Posix)
<1> DEFINE f == [path |-> walk.next, dir |-> FolderAt(walk.next), was |-> Empty, seen |-> {}]
           x == [walk EXCEPT !.stack = <<f>> \o @]
<1>1. /\ walk \in Walks /\ Ordered(tree) /\ tree \in Trees /\ Shown(tree, walk.depth) \in views
      /\ \/ walk.next = <<>> /\ Height(walk) = 0 /\ walk.found = {} /\ Whole(walk)
         \/ /\ walk.next \in Above /\ Height(walk) = 1 /\ walk.depth = 1
            /\ walk.next \in walk.found \/ Full(walk)
      /\ walk.marks = {}
  BY PathParts DEF Walking, Shape, FoundOK, TodoOK, Ordered, Above
<1>2. f \in Frames /\ f.path = walk.next /\ f.dir = FolderAt(walk.next) /\ f.was = Empty /\ f.seen = {}
  <2>1. FolderAt(walk.next) \in Folders
    BY <1>1 DEF FolderAt
  <2>2. Empty \in Contents
    BY DEF Empty, Contents
  <2> QED BY <1>1, <2>1, <2>2 DEF Frames
<1>3. /\ x \in Walks /\ Kept(walk, x) /\ x.next = walk.next /\ x.found = walk.found
      /\ x.cut = walk.cut /\ x.coarse = walk.coarse
      /\ Height(x) = Height(walk) + 1 /\ Top(x) = f
      /\ Base(x) = IF Height(walk) = 0 THEN f ELSE Base(walk)
  <2>1. Height(walk) \in {0, 1}
    BY <1>1
  <2> HIDE DEF f
  <2> QED BY <1>1, <1>2, <2>1, PushSays
<1> HIDE DEF x, f
<1>4. Height(walk) = 0 => walk.next = <<>> /\ f.dir = tree.route /\ f.dir \in {"root", "elsewhere"}
  <2>1. FolderAt(<<>>) = tree.route
    BY <1>1, PathSays DEF Slots
  <2> QED BY <1>1, <1>2, <2>1 DEF Trees
<1>5. Shape("scan", x)
  BY <1>1, <1>2, <1>3, <1>4 DEF Shape, Resting, Walking, Kept
<1>6. FoundOK("scan", x)
  BY <1>1, <1>2, <1>3 DEF FoundOK, Walking, Kept, Full
<1>7. FirstWalk("scan", x, tree, views)
  <2> SUFFICES ASSUME x.round = 1, tree.stamp["root"] = 0
               PROVE  /\ Base(x).dir = "elsewhere" =>
                           /\ {} \in views /\ x.found = {} /\ Base(x).was = Empty
                           /\ Height(x) = 1
                      /\ Base(x).dir = "root" =>
                           /\ Height(x) = 2 => Base(x).was = Home
                           /\ ~ x.cut => \A n \in Base(x).seen : <<n>> \in x.found
    BY DEF FirstWalk
  <2>1. CASE Height(walk) = 0
    <3>1. Base(x) = f /\ Height(x) = 1 /\ x.found = {}
      BY <1>1, <1>3, <2>1
    <3>2. f.dir = "elsewhere" => Shown(tree, walk.depth) = {}
      BY <1>1, <1>4, <2>1, ShownNothing
    <3>3. f.dir = "elsewhere" => {} \in views
      BY <1>1, <3>2
    <3>4. \A n \in Base(x).seen : <<n>> \in x.found
      BY <1>2, <3>1
    <3> QED BY <1>2, <3>1, <3>3, <3>4
  <2>2. CASE Height(walk) = 1
    <3>1. Base(x) = Base(walk) /\ Height(x) = 2 /\ x.found = walk.found /\ x.cut = walk.cut
      BY <1>3, <2>2
    <3>2. /\ Base(walk).dir # "elsewhere"
          /\ Base(walk).dir = "root" => /\ Base(walk).was = Home
                                        /\ ~ walk.cut => \A n \in Base(walk).seen : <<n>> \in walk.found
      BY <1>3, <2>2 DEF Walking, FirstWalk, Kept
    <3> QED BY <3>1, <3>2
  <2> QED BY <1>1, <2>1, <2>2
<1>8. ASSUME NEW u, Second(u, "open", walk, tree, views, Posix)
      PROVE  Covers(u, "scan", x, tree, Posix)
  <2> SUFFICES ASSUME Meets(u, x, tree), Whole(x), x.depth = 1
               PROVE  IF Height(x) = 2 /\ Top(x).path = <<"b">>
                      THEN Top(x).dir = "sub"
                      ELSE \/ (Posix => <<"b">> \notin x.found) /\ Below(x) = {}
                           \/ \A n \in Slots : u.entries["sub"][n] # Absent => n \in Below(x)
    BY DEF Covers
  <2>1. /\ tree.stamp["sub"] = u.stamp["sub"] /\ Meets(u, walk, tree) /\ Whole(walk) /\ walk.depth = 1
        /\ Below(x) = Below(walk)
    BY <1>1, <1>3 DEF Meets, Kept, Whole, Below
  <2>2. CASE Height(walk) = 0
    <3>1. x.found = {} /\ Height(x) = 1
      BY <1>1, <1>3, <2>2
    <3> QED BY <3>1 DEF Below
  <2>3. CASE Height(walk) = 1 /\ walk.next # <<"b">>
    <3>1. \/ (Posix => <<"b">> \notin walk.found) /\ Below(walk) = {}
          \/ \A n \in Slots : u.entries["sub"][n] # Absent => n \in Below(walk)
      BY <1>8, <2>1, <2>3 DEF Second, Covers
    <3> QED BY <1>2, <1>3, <2>1, <2>3, <3>1
  <2>4. CASE Height(walk) = 1 /\ walk.next = <<"b">>
    <3>1. "b" \in Slots /\ Posix => tree.entries["root"]["b"] = "sub"
      BY <1>8, <2>1 DEF Second
    <3>2. /\ FolderAt(<<"b">>) = IF tree.route # Absent /\ Follow(tree.entries[tree.route]["b"]) \in Folders
                                 THEN Follow(tree.entries[tree.route]["b"]) ELSE Absent
          /\ EntryAt(<<"b">>) = IF tree.route = Absent THEN Absent ELSE tree.entries[tree.route]["b"]
      BY <1>1, PathSays DEF Slots
    <3>3. tree.route = "root"
      <4>1. Follow(Empty["b"]) \notin Folders
        BY DEF Empty, Slots, Follow, Absent, Folders
      <4> QED BY <1>1, <2>4, <3>2, <4>1 DEF Ordered, Trees
    <3>4. tree.entries["root"]["b"] = "sub"
      BY <1>1, <2>4, <3>1, <3>2, <3>3 DEF IsFolder, Ordered, Slots, Folders, Absent
    <3>5. f.dir = "sub"
      BY <1>2, <2>4, <3>2, <3>3, <3>4 DEF Follow, Folders, Absent
    <3> QED BY <1>2, <1>3, <2>4, <3>5
  <2> QED BY <1>1, <2>2, <2>3, <2>4
<1> QED BY <1>3, <1>5, <1>6, <1>7, <1>8, ReadingKeeps DEF x, f

\* The enumeration of an open folder begins.
LEMMA ScanKeeps ==
  ASSUME Walking("scan", walk, tree, views, Posix),
         tree.entries[Open.dir][".gitignore"] = Absent
  PROVE  Walking("read", [walk EXCEPT !.stack[1].was = tree.entries[Open.dir]], tree, views, Posix)
<1> DEFINE held == tree.entries[Open.dir]
           x == [walk EXCEPT !.stack[1].was = held]
<1>1. /\ walk \in Walks /\ Ordered(tree) /\ tree \in Trees /\ Height(walk) \in {1, 2}
      /\ Height(walk) = 2 => Top(walk).path \in Above /\ walk.depth = 1
      /\ walk.marks = {} /\ Open = Top(walk)
  BY DEF Walking, Shape, TodoOK, Ordered, Open, Top
<1>2. Top(walk) \in Frames /\ Base(walk) \in Frames /\ (Height(walk) = 1 => Base(walk) = Top(walk))
  BY <1>1, StackSays
<1>3. held \in Contents
  BY <1>1, <1>2 DEF Trees, Frames
<1>4. /\ x \in Walks /\ Kept(walk, x) /\ x.next = walk.next /\ x.found = walk.found
      /\ x.cut = walk.cut /\ x.coarse = walk.coarse
      /\ Height(x) = Height(walk) /\ Top(x) = [Top(walk) EXCEPT !.was = held]
      /\ Base(x) = IF Height(walk) = 1 THEN Top(x) ELSE Base(walk)
  <2> HIDE DEF held
  <2>1. Height(walk) # 0 /\ {} \in SUBSET Slots
    BY <1>1
  <2> QED BY <1>1, <1>3, <2>1, SetSays
<1> HIDE DEF x
<1>5. /\ Top(x).path = Top(walk).path /\ Top(x).dir = Top(walk).dir /\ Top(x).seen = Top(walk).seen
      /\ Top(x).was = held
      /\ Base(x).path = Base(walk).path /\ Base(x).dir = Base(walk).dir /\ Base(x).seen = Base(walk).seen
      /\ Base(x).was = IF Height(walk) = 1 THEN held ELSE Base(walk).was
  BY <1>1, <1>2, <1>4 DEF Frames
<1>6. Shape("read", x)
  BY <1>1, <1>4, <1>5 DEF Shape, Resting, Walking, Kept
<1>7. FoundOK("read", x)
  BY <1>1, <1>4, <1>5 DEF FoundOK, Walking, Kept, Full
<1>8. FirstWalk("read", x, tree, views)
  <2> SUFFICES ASSUME x.round = 1, tree.stamp["root"] = 0
               PROVE  /\ Base(x).dir = "elsewhere" =>
                           /\ {} \in views /\ x.found = {} /\ Base(x).was = Empty /\ Height(x) = 1
                      /\ Base(x).dir = "root" =>
                           /\ Base(x).was = Home
                           /\ ~ x.cut => \A n \in Base(x).seen : <<n>> \in x.found
    BY DEF FirstWalk
  <2>1. /\ Height(walk) # 0 /\ walk.round = 1
        /\ tree.entries["root"] = Home /\ tree.entries["elsewhere"] = Empty
    BY <1>1, <1>4 DEF Kept, Ordered
  <2>2. /\ Base(walk).dir = "elsewhere" => {} \in views /\ walk.found = {} /\ Height(walk) = 1
        /\ Base(walk).dir = "root" => /\ Height(walk) = 2 => Base(walk).was = Home
                                      /\ ~ walk.cut => \A n \in Base(walk).seen : <<n>> \in walk.found
    BY <2>1 DEF Walking, FirstWalk
  <2>3. /\ Height(walk) = 1 => held = tree.entries[Base(walk).dir]
    BY <1>1, <1>2
  <2> QED BY <1>1, <1>4, <1>5, <2>1, <2>2, <2>3
<1>9. ASSUME NEW u, Second(u, "scan", walk, tree, views, Posix)
      PROVE  Covers(u, "read", x, tree, Posix)
  <2> SUFFICES ASSUME Meets(u, x, tree), Whole(x), x.depth = 1
               PROVE  IF Height(x) = 2 /\ Top(x).path = <<"b">>
                      THEN Top(x).dir = "sub" /\ Top(x).was = u.entries["sub"] /\ Top(x).seen \subseteq Below(x)
                      ELSE \/ (Posix => <<"b">> \notin x.found) /\ Below(x) = {}
                           \/ \A n \in Slots : u.entries["sub"][n] # Absent => n \in Below(x)
    BY DEF Covers
  <2>1. /\ tree.stamp["sub"] = u.stamp["sub"] /\ Meets(u, walk, tree) /\ Whole(walk) /\ walk.depth = 1
        /\ Below(x) = Below(walk) /\ tree.entries["sub"] = u.entries["sub"]
        /\ Top(walk).seen = {}
    BY <1>1, <1>4, <1>9 DEF Meets, Kept, Whole, Below, Second, Walking, FoundOK
  <2>2. IF Height(walk) = 2 /\ Top(walk).path = <<"b">>
        THEN Top(walk).dir = "sub"
        ELSE \/ (Posix => <<"b">> \notin walk.found) /\ Below(walk) = {}
             \/ \A n \in Slots : u.entries["sub"][n] # Absent => n \in Below(walk)
    BY <1>9, <2>1 DEF Second, Covers
  <2> QED BY <1>1, <1>4, <1>5, <2>1, <2>2
<1> QED BY <1>4, <1>6, <1>7, <1>8, <1>9, ReadingKeeps DEF x

\* The path of an entry of the open folder.
LEMMA ChildSays ==
  ASSUME NEW a \in {"scan", "read"}, Walking(a, walk, tree, views, Posix), NEW n \in Slots
  PROVE  /\ walk \in Walks /\ Ordered(tree) /\ tree \in Trees /\ walk.marks = {} /\ Open = Top(walk)
         /\ Height(walk) \in {1, 2} /\ Top(walk) \in Frames /\ Base(walk) \in Frames
         /\ (Height(walk) = 1 => Base(walk) = Top(walk))
         /\ Child(Open.path, n) \in Paths
         /\ \/ Height(walk) = 1 /\ Open.path = <<>> /\ Child(Open.path, n) = <<n>>
            \/ /\ Height(walk) = 2 /\ walk.depth = 1
               /\ \E m \in Slots : Open.path = <<m>> /\ Child(Open.path, n) = <<m, n>>
<1>1. /\ walk \in Walks /\ Ordered(tree) /\ tree \in Trees /\ Height(walk) \in {1, 2}
      /\ Height(walk) = 2 => Top(walk).path \in Above /\ walk.depth = 1
      /\ walk.marks = {} /\ Open = Top(walk) /\ Base(walk).path = <<>>
  BY DEF Walking, Shape, TodoOK, Ordered, Open, Top
<1>2. Top(walk) \in Frames /\ Base(walk) \in Frames /\ (Height(walk) = 1 => Base(walk) = Top(walk))
  BY <1>1, StackSays
<1>3. CASE Height(walk) = 1
  <2>1. Child(<<>>, n) = <<n>>
    BY PathParts
  <2>2. <<n>> \in Paths
    BY DEF Paths, Above
  <2>3. Open.path = <<>>
    BY <1>1, <1>2, <1>3
  <2>4. Child(Open.path, n) = <<n>>
    BY <2>1, <2>3
  <2> QED BY <1>1, <1>2, <1>3, <2>2, <2>3, <2>4
<1>4. CASE Height(walk) = 2
  <2>1. PICK m \in Slots : Open.path = <<m>>
    BY <1>1, <1>4 DEF Above
  <2>2. Child(<<m>>, n) = <<m, n>>
    BY PathParts
  <2>3. <<m, n>> \in Paths
    BY DEF Paths
  <2>4. Child(Open.path, n) = <<m, n>>
    BY <2>1, <2>2
  <2> QED BY <1>1, <1>2, <1>4, <2>1, <2>3, <2>4
<1> QED BY <1>1, <1>3, <1>4

\* A path below a folder that the limit kept out is not found either.
LEMMA AppendedFound ==
  ASSUME NEW a \in {"scan", "read"}, Walking(a, walk, tree, views, Posix), NEW n \in Slots,
         NEW w, w \in Walks, w.found = walk.found, Kept(walk, w), Height(w) = Height(walk),
         Top(w).path = Top(walk).path
  PROVE  LET x == Appended(w, Child(Open.path, n))
         IN /\ \A i, j \in Slots : <<i, j>> \in x.found => <<i>> \in x.found /\ x.depth = 1
            /\ Height(x) = 2 => Top(x).path \in x.found \/ Full(x)
<1> DEFINE p == Child(Open.path, n)
           x == Appended(w, p)
<1>1. /\ p \in Paths /\ Open = Top(walk)
      /\ \/ Height(walk) = 1 /\ p = <<n>>
         \/ /\ Height(walk) = 2 /\ walk.depth = 1
            /\ \E m \in Slots : Open.path = <<m>> /\ p = <<m, n>>
  BY ChildSays
<1> HIDE DEF p
<1>2. /\ Kept(w, x) /\ SameStack(w, x) /\ w.found \subseteq x.found /\ x.found \subseteq w.found \cup {p}
      /\ Full(w) => x.found = w.found /\ Full(x)
  BY <1>1, AppendedSays
<1> HIDE DEF x
<1>3. /\ \A i, j \in Slots : <<i, j>> \in walk.found => <<i>> \in walk.found /\ walk.depth = 1
      /\ Height(walk) = 2 => Top(walk).path \in walk.found \/ Full(walk)
  BY DEF Walking, FoundOK
<1>4. x.depth = walk.depth /\ (Full(walk) = Full(w))
  BY <1>2 DEF Kept, Full
<1>5. ASSUME NEW i \in Slots, NEW j \in Slots, <<i, j>> \in x.found
      PROVE  <<i>> \in x.found /\ x.depth = 1
  <2>1. CASE <<i, j>> \in walk.found
    BY <1>2, <1>3, <1>4, <2>1
  <2>2. CASE <<i, j>> \notin walk.found
    <3>1. p = <<i, j>>
      BY <1>2, <1>5, <2>2
    <3>2. Height(walk) = 2 /\ walk.depth = 1 /\ Open.path = <<i>>
      BY <1>1, <3>1
    <3>3. ~ Full(w)
      BY <1>2, <1>5, <2>2
    <3> QED BY <1>1, <1>2, <1>3, <1>4, <3>2, <3>3
  <2> QED BY <2>1, <2>2
<1>6. Height(x) = 2 => Top(x).path \in x.found \/ Full(x)
  BY <1>2, <1>3, <1>4 DEF SameStack
<1> QED BY <1>5, <1>6 DEF x, p

\* A folder with a .gitignore is not the admitted one while that stands still.
LEMMA CoarseKeeps ==
  ASSUME Walking("scan", walk, tree, views, Posix),
         tree.entries[Open.dir][".gitignore"] # Absent
  PROVE  Walking("read", Appended([walk EXCEPT !.coarse = TRUE], Child(Open.path, ".gitignore")),
                 tree, views, Posix)
<1> DEFINE w == [walk EXCEPT !.coarse = TRUE]
           p == Child(Open.path, ".gitignore")
           x == Appended(w, p)
<1>0. ".gitignore" \in Slots
  BY DEF Slots
<1>1. /\ walk \in Walks /\ Ordered(tree) /\ tree \in Trees /\ Open = Top(walk)
      /\ Height(walk) \in {1, 2} /\ (Height(walk) = 1 => Base(walk) = Top(walk)) /\ p \in Paths
      /\ Height(walk) = 2 => Top(walk).path \in Above /\ walk.depth = 1
      /\ Base(walk).path = <<>> /\ Base(walk).dir \in {"root", "elsewhere"}
  BY <1>0, ChildSays DEF Walking, Shape
<1>2. w \in Walks /\ w.found = walk.found /\ Kept(walk, w) /\ SameStack(walk, w) /\ w.coarse
  BY <1>1 DEF Walks, Kept, SameStack, Height, Top, Base
<1> HIDE DEF w, p
<1>3. /\ x \in Walks /\ Kept(w, x) /\ SameStack(w, x) /\ x.coarse = w.coarse /\ (w.cut => x.cut)
      /\ w.found \subseteq x.found
  BY <1>1, <1>2, AppendedSays
<1>4. /\ \A i, j \in Slots : <<i, j>> \in x.found => <<i>> \in x.found /\ x.depth = 1
      /\ Height(x) = 2 => Top(x).path \in x.found \/ Full(x)
  BY <1>0, <1>2, AppendedFound DEF SameStack, p
<1> HIDE DEF x
<1>5. Kept(walk, x) /\ SameStack(walk, x)
  BY <1>2, <1>3 DEF Kept, SameStack
<1>6. Shape("read", x)
  BY <1>1, <1>5 DEF Shape, Resting, Kept, SameStack
<1>7. FoundOK("read", x)
  BY <1>4 DEF FoundOK
<1>8. FirstWalk("read", x, tree, views)
  <2> SUFFICES ASSUME x.round = 1, tree.stamp["root"] = 0
               PROVE  /\ Base(x).dir = "root" /\ Base(x).was = Home
                      /\ ~ x.cut => \A n \in Base(x).seen : <<n>> \in x.found
    BY <1>1, <1>5 DEF FirstWalk, SameStack
  <2>1. /\ tree.entries["root"] = Home /\ tree.entries["elsewhere"] = Empty
        /\ Home[".gitignore"] = Absent /\ Empty[".gitignore"] = Absent
    BY <1>1 DEF Ordered, Home, Empty, Slots
  <2>2. Height(walk) = 2
    BY <1>1, <2>1
  <2>3. /\ Base(walk).dir = "root" /\ Base(walk).was = Home
        /\ ~ walk.cut => \A n \in Base(walk).seen : <<n>> \in walk.found
    BY <1>1, <1>5, <2>2 DEF Walking, FirstWalk, Kept
  <2>4. walk.cut = w.cut
    BY <1>1 DEF w, Walks
  <2> QED BY <1>2, <1>3, <1>5, <2>3, <2>4 DEF SameStack
<1>9. ASSUME NEW u PROVE Covers(u, "read", x, tree, Posix)
  BY <1>2, <1>3 DEF Covers, Whole
<1> QED BY <1>3, <1>5, <1>6, <1>7, <1>8, <1>9, ReadingKeeps DEF x, w, p

\* A name is returned, and its path is found unless the limit is reached.
LEMMA NotedSays ==
  ASSUME Walking("read", walk, tree, views, Posix), NEW n \in Slots
  PROVE  LET p == Child(Open.path, n)
             x == Noted(n)
         IN /\ x \in Walks /\ Kept(walk, x) /\ x.next = walk.next /\ x.coarse = walk.coarse
            /\ Height(x) = Height(walk)
            /\ Top(x) = [Top(walk) EXCEPT !.seen = @ \cup {n}]
            /\ Base(x) = IF Height(walk) = 1 THEN Top(x) ELSE Base(walk)
            /\ walk.cut => x.cut
            /\ walk.found \subseteq x.found /\ x.found \subseteq walk.found \cup {p}
            /\ p \in x.found \/ (x.cut /\ Full(x))
            /\ \A i, j \in Slots : <<i, j>> \in x.found => <<i>> \in x.found /\ x.depth = 1
            /\ Height(x) = 2 => Top(x).path \in x.found \/ Full(x)
<1> DEFINE w == [walk EXCEPT !.stack[1].seen = @ \cup {n}]
           p == Child(Open.path, n)
           x == Appended(w, p)
<1>1. /\ walk \in Walks /\ p \in Paths /\ Top(walk) \in Frames /\ Height(walk) \in {1, 2}
  BY ChildSays
<1> HIDE DEF p
<1>2. /\ w \in Walks /\ Kept(walk, w) /\ w.next = walk.next /\ w.found = walk.found
      /\ w.cut = walk.cut /\ w.coarse = walk.coarse
      /\ Height(w) = Height(walk) /\ Top(w) = [Top(walk) EXCEPT !.seen = @ \cup {n}]
      /\ Base(w) = IF Height(walk) = 1 THEN Top(w) ELSE Base(walk)
  <2> DEFINE ns == Top(walk).seen \cup {n}
  <2>1. ns \in SUBSET Slots
    BY <1>1 DEF Frames
  <2>2. w = [walk EXCEPT !.stack[1].seen = ns]
    BY DEF Top
  <2>3. [Top(walk) EXCEPT !.seen = @ \cup {n}] = [Top(walk) EXCEPT !.seen = ns]
    OBVIOUS
  <2>4. Height(walk) # 0 /\ Empty \in Contents
    BY <1>1 DEF Empty, Contents
  <2> HIDE DEF ns
  <2> DEFINE v == [walk EXCEPT !.stack[1].seen = ns]
  <2>5. /\ v \in Walks /\ Kept(walk, v) /\ v.next = walk.next /\ v.found = walk.found
        /\ v.cut = walk.cut /\ v.coarse = walk.coarse
        /\ Height(v) = Height(walk) /\ Top(v) = [Top(walk) EXCEPT !.seen = ns]
        /\ Base(v) = IF Height(walk) = 1 THEN Top(v) ELSE Base(walk)
    BY <1>1, <2>1, <2>4, SetSays
  <2>6. w = v
    BY <2>2
  <2> HIDE DEF v, w
  <2> QED BY <2>3, <2>5, <2>6
<1> HIDE DEF w
<1>3. /\ x \in Walks /\ Kept(w, x) /\ x.next = w.next /\ SameStack(w, x)
      /\ x.coarse = w.coarse /\ (w.cut => x.cut)
      /\ w.found \subseteq x.found /\ x.found \subseteq w.found \cup {p}
      /\ p \in x.found \/ (x.cut /\ Full(x))
  BY <1>1, <1>2, AppendedSays
<1>4. Top(w).path = Top(walk).path
  BY <1>1, <1>2 DEF Frames
<1>5. /\ \A i, j \in Slots : <<i, j>> \in x.found => <<i>> \in x.found /\ x.depth = 1
      /\ Height(x) = 2 => Top(x).path \in x.found \/ Full(x)
  BY <1>2, <1>4, AppendedFound DEF p
<1>6. Noted(n) = x
  BY DEF Noted, w, p
<1> HIDE DEF x
<1>7. Kept(walk, x)
  BY <1>2, <1>3 DEF Kept
<1> QED BY <1>2, <1>3, <1>5, <1>6, <1>7 DEF SameStack, p

\* In the folder that the path shows while the admitted one stands still, the names
\* returned are "a" and "b".
LEMMA NotedFirst ==
  ASSUME Walking("read", walk, tree, views, Posix), NEW n \in Slots, Enumerated(n) # {},
         NEW b \in {"read", "open"}, NEW x, x \in Walks, Kept(walk, x), Height(x) = Height(walk),
         Top(x) = [Top(walk) EXCEPT !.seen = @ \cup {n}],
         Base(x) = (IF Height(walk) = 1 THEN Top(x) ELSE Base(walk)),
         walk.cut => x.cut, walk.found \subseteq x.found,
         Child(Open.path, n) \in x.found \/ x.cut
  PROVE  FirstWalk(b, x, tree, views)
<1>1. /\ walk \in Walks /\ Ordered(tree) /\ tree \in Trees /\ Open = Top(walk)
      /\ Height(walk) \in {1, 2} /\ Top(walk) \in Frames /\ Base(walk) \in Frames
      /\ (Height(walk) = 1 => Base(walk) = Top(walk) /\ Child(Open.path, n) = <<n>>)
      /\ Base(walk).dir \in {"root", "elsewhere"}
  <2>1. Base(walk).dir \in {"root", "elsewhere"}
    BY DEF Walking, Shape
  <2> QED BY <2>1, ChildSays
<1> SUFFICES ASSUME x.round = 1, tree.stamp["root"] = 0
             PROVE  /\ Base(x).dir = "root" /\ Base(x).was = Home
                    /\ ~ x.cut => \A k \in Base(x).seen : <<k>> \in x.found
  BY DEF FirstWalk
<1>2. walk.round = 1 /\ tree.entries["elsewhere"] = Empty /\ Empty[n] = Absent
  BY <1>1 DEF Kept, Ordered, Empty
<1>3. /\ Base(walk).dir = "elsewhere" => Base(walk).was = Empty /\ Height(walk) = 1
      /\ Base(walk).dir = "root" => /\ Base(walk).was = Home
                                    /\ ~ walk.cut => \A k \in Base(walk).seen : <<k>> \in walk.found
  BY <1>1, <1>2 DEF Walking, FirstWalk
<1>4. Base(walk).dir = "root"
  BY <1>1, <1>2, <1>3 DEF Enumerated
<1>5. CASE Height(walk) = 1
  <2>1. /\ Base(x).dir = "root" /\ Base(x).was = Home /\ Base(x).seen = Base(walk).seen \cup {n}
    BY <1>1, <1>3, <1>4, <1>5 DEF Frames
  <2> QED BY <1>1, <1>3, <1>4, <1>5, <2>1
<1>6. CASE Height(walk) = 2
  BY <1>3, <1>4, <1>6
<1> QED BY <1>1, <1>5, <1>6

\* The next name is read.
LEMMA NameReturns ==
  ASSUME Walking("read", walk, tree, views, Posix), NEW n \in Slots, Enumerated(n) # {},
         Posix => /\ EntryAt(Child(Open.path, n)) # Absent
                  /\ ~ (EntryAt(Child(Open.path, n)) \in Folders /\ Len(Open.path) < walk.depth)
  PROVE  Walking("read", Noted(n), tree, views, Posix)
<1> DEFINE p == Child(Open.path, n)
           x == Noted(n)
<1>1. /\ x \in Walks /\ Kept(walk, x) /\ x.next = walk.next /\ x.coarse = walk.coarse
      /\ Height(x) = Height(walk)
      /\ Top(x) = [Top(walk) EXCEPT !.seen = @ \cup {n}]
      /\ Base(x) = IF Height(walk) = 1 THEN Top(x) ELSE Base(walk)
      /\ walk.cut => x.cut
      /\ walk.found \subseteq x.found /\ x.found \subseteq walk.found \cup {p}
      /\ p \in x.found \/ (x.cut /\ Full(x))
      /\ \A i, j \in Slots : <<i, j>> \in x.found => <<i>> \in x.found /\ x.depth = 1
      /\ Height(x) = 2 => Top(x).path \in x.found \/ Full(x)
  BY NotedSays
<1>2. /\ walk \in Walks /\ Ordered(tree) /\ tree \in Trees /\ walk.marks = {} /\ Open = Top(walk)
      /\ Height(walk) \in {1, 2} /\ Top(walk) \in Frames /\ Base(walk) \in Frames
      /\ (Height(walk) = 1 => Base(walk) = Top(walk))
      /\ \/ Height(walk) = 1 /\ Open.path = <<>> /\ p = <<n>>
         \/ /\ Height(walk) = 2 /\ walk.depth = 1
            /\ \E m \in Slots : Open.path = <<m>> /\ p = <<m, n>>
  BY ChildSays
<1> HIDE DEF x
<1>3. /\ Top(x).path = Top(walk).path /\ Top(x).dir = Top(walk).dir /\ Top(x).was = Top(walk).was
      /\ Top(x).seen = Top(walk).seen \cup {n}
      /\ Base(x).path = Base(walk).path /\ Base(x).dir = Base(walk).dir
  BY <1>1, <1>2 DEF Frames
<1>4. Shape("read", x)
  BY <1>1, <1>2, <1>3 DEF Shape, Resting, Walking, Kept
<1>5. FoundOK("read", x)
  BY <1>1 DEF FoundOK
<1>6. FirstWalk("read", x, tree, views)
  <2> HIDE DEF p
  <2> QED BY <1>1, NotedFirst DEF p
<1>7. ASSUME NEW u, Second(u, "read", walk, tree, views, Posix)
      PROVE  Covers(u, "read", x, tree, Posix)
  <2> SUFFICES ASSUME Meets(u, x, tree), Whole(x), x.depth = 1
               PROVE  IF Height(x) = 2 /\ Top(x).path = <<"b">>
                      THEN Top(x).dir = "sub" /\ Top(x).was = u.entries["sub"] /\ Top(x).seen \subseteq Below(x)
                      ELSE \/ (Posix => <<"b">> \notin x.found) /\ Below(x) = {}
                           \/ \A k \in Slots : u.entries["sub"][k] # Absent => k \in Below(x)
    BY DEF Covers
  <2>1. /\ tree.stamp["sub"] = u.stamp["sub"] /\ Meets(u, walk, tree) /\ Whole(walk) /\ walk.depth = 1
        /\ p \in x.found /\ x.found = walk.found \cup {p}
    BY <1>1, <1>2 DEF Meets, Kept, Whole
  <2>2. IF Height(walk) = 2 /\ Top(walk).path = <<"b">>
        THEN Top(walk).dir = "sub" /\ Top(walk).was = u.entries["sub"] /\ Top(walk).seen \subseteq Below(walk)
        ELSE \/ (Posix => <<"b">> \notin walk.found) /\ Below(walk) = {}
             \/ \A k \in Slots : u.entries["sub"][k] # Absent => k \in Below(walk)
    BY <1>7, <2>1 DEF Second, Covers
  <2>3. CASE Height(walk) = 2 /\ Top(walk).path = <<"b">>
    <3>1. p = <<"b", n>>
      BY <1>2, <2>3
    <3>2. Below(walk) \cup {n} \subseteq Below(x)
      BY <2>1, <3>1 DEF Below
    <3> QED BY <1>1, <1>3, <2>2, <2>3, <3>2
  <2>4. CASE Height(walk) = 2 /\ Top(walk).path # <<"b">>
    <3>1. PICK m \in Slots : m # "b" /\ p = <<m, n>>
      BY <1>2, <2>4
    <3>2. Below(x) = Below(walk) /\ (<<"b">> \in x.found <=> <<"b">> \in walk.found)
      BY <2>1, <3>1 DEF Below
    <3> QED BY <1>1, <1>3, <2>2, <2>4, <3>2
  <2>5. CASE Height(walk) = 1
    <3>1. p = <<n>> /\ Len(Open.path) = 0
      BY <1>2, <2>5
    <3>2. Below(x) = Below(walk) /\ (n # "b" => (<<"b">> \in x.found <=> <<"b">> \in walk.found))
      BY <2>1, <3>1 DEF Below
    <3>3. CASE ~ Posix \/ n # "b"
      BY <1>1, <2>2, <2>5, <3>2, <3>3
    <3>4. CASE Posix /\ n = "b"
      <4>1. tree.entries["root"]["b"] = "sub"
        BY <1>7, <2>1, <3>4 DEF Second
      <4>2. EntryAt(<<"b">>) = IF tree.route = Absent THEN Absent ELSE tree.entries[tree.route]["b"]
        BY <1>2, PathSays DEF Slots
      <4>3. tree.entries["elsewhere"]["b"] = Absent
        BY <1>2 DEF Ordered, Empty, Slots
      <4>4. EntryAt(<<"b">>) = "sub"
        BY <1>2, <3>1, <3>4, <4>1, <4>2, <4>3 DEF Trees
      <4> QED BY <2>1, <3>1, <3>4, <4>4 DEF Folders
    <3> QED BY <3>3, <3>4
  <2> QED BY <1>2, <2>3, <2>4, <2>5
<1> QED BY <1>1, <1>4, <1>5, <1>6, <1>7, ReadingKeeps DEF x

\* A folder is returned, and is read next.
LEMMA EnterKeeps ==
  ASSUME Walking("read", walk, tree, views, Posix), NEW n \in Slots, Enumerated(n) # {},
         Len(Open.path) < walk.depth
  PROVE  Walking("open", [Noted(n) EXCEPT !.next = Child(Open.path, n)], tree, views, Posix)
<1> DEFINE p == Child(Open.path, n)
           w == Noted(n)
           x == [w EXCEPT !.next = p]
<1>1. /\ w \in Walks /\ Kept(walk, w) /\ w.coarse = walk.coarse
      /\ Height(w) = Height(walk)
      /\ Top(w) = [Top(walk) EXCEPT !.seen = @ \cup {n}]
      /\ Base(w) = IF Height(walk) = 1 THEN Top(w) ELSE Base(walk)
      /\ walk.cut => w.cut
      /\ walk.found \subseteq w.found /\ w.found \subseteq walk.found \cup {p}
      /\ p \in w.found \/ (w.cut /\ Full(w))
      /\ \A i, j \in Slots : <<i, j>> \in w.found => <<i>> \in w.found /\ w.depth = 1
  BY NotedSays
<1>2. /\ walk \in Walks /\ Ordered(tree) /\ tree \in Trees /\ walk.marks = {} /\ Open = Top(walk)
      /\ Top(walk) \in Frames /\ Base(walk) \in Frames /\ Base(walk) = Top(walk)
      /\ Height(walk) = 1 /\ p = <<n>> /\ walk.depth = 1
  <2>1. walk \in Walks /\ walk.depth \in {0, 1}
    BY DEF Walking, Walks
  <2>2. \A m \in Slots : Len(<<m>>) = 1
    OBVIOUS
  <2>3. Len(<<>>) = 0
    OBVIOUS
  <2>4. /\ Ordered(tree) /\ tree \in Trees /\ walk.marks = {} /\ Open = Top(walk)
        /\ Top(walk) \in Frames /\ Base(walk) \in Frames
        /\ (Height(walk) = 1 => Base(walk) = Top(walk))
        /\ \/ Height(walk) = 1 /\ Open.path = <<>> /\ p = <<n>>
           \/ \E m \in Slots : Open.path = <<m>>
    BY ChildSays
  <2>5. ~ \E m \in Slots : Open.path = <<m>>
    <3> SUFFICES ASSUME NEW m \in Slots, Open.path = <<m>> PROVE FALSE
      OBVIOUS
    <3>1. Len(Open.path) = 1
      BY <2>2
    <3> QED BY <2>1, <3>1
  <2>6. Len(Open.path) = 0
    BY <2>3, <2>4, <2>5
  <2> QED BY <2>1, <2>4, <2>5, <2>6
<1> HIDE DEF w
<1>3. p \in Above /\ p # <<>>
  BY <1>2 DEF Above
<1> HIDE DEF p
<1>4. /\ x \in Walks /\ Kept(w, x) /\ SameStack(w, x) /\ x.next = p /\ x.found = w.found
      /\ x.cut = w.cut /\ x.coarse = w.coarse
  BY <1>1, <1>3 DEF Walks, Kept, SameStack, Height, Top, Base
<1> HIDE DEF x
<1>5. /\ Kept(walk, x) /\ Height(x) = 1 /\ Top(x) = Top(w) /\ Base(x) = Top(w)
      /\ Full(x) = Full(w)
      /\ Top(w).path = Top(walk).path /\ Top(w).dir = Top(walk).dir
  BY <1>1, <1>2, <1>4 DEF Kept, SameStack, Full, Frames
<1>6. Shape("open", x)
  BY <1>2, <1>3, <1>4, <1>5 DEF Shape, Resting, Walking, Kept
<1>7. FoundOK("open", x)
  BY <1>1, <1>3, <1>4, <1>5 DEF FoundOK, Kept
<1>8. FirstWalk("open", x, tree, views)
  BY <1>1, <1>2, <1>4, <1>5, NotedFirst DEF p
<1>9. ASSUME NEW u, Second(u, "read", walk, tree, views, Posix)
      PROVE  Covers(u, "open", x, tree, Posix)
  <2> SUFFICES ASSUME Meets(u, x, tree), Whole(x), x.depth = 1, n # "b"
               PROVE  \/ (Posix => <<"b">> \notin x.found) /\ Below(x) = {}
                      \/ \A k \in Slots : u.entries["sub"][k] # Absent => k \in Below(x)
    BY <1>2, <1>4, <1>5 DEF Covers
  <2>1. /\ Meets(u, walk, tree) /\ Whole(walk) /\ walk.depth = 1
        /\ Below(x) = Below(walk) /\ (<<"b">> \in x.found <=> <<"b">> \in walk.found)
    BY <1>1, <1>2, <1>4, <1>5 DEF Meets, Kept, Whole, Below
  <2> QED BY <1>2, <1>9, <2>1 DEF Second, Covers
<1> QED BY <1>4, <1>5, <1>6, <1>7, <1>8, <1>9, ReadingKeeps DEF x, w, p

\* The enumeration of an open folder has come to its end.
Finished(w, t) ==
  \/ ~ Whole(w)
  \/ \A n \in Slots \ Top(w).seen : Top(w).was[n] = Absent \/ t.entries[Top(w).dir][n] = Absent

\* The folder below is closed, and the one above it is read on.
LEMMA CloseBelow ==
  ASSUME NEW w, NEW t, NEW v, NEW posix, Walking("read", w, t, v, posix), Finished(w, t), Height(w) = 2
  PROVE  Walking("read", [w EXCEPT !.stack = Tail(@)], t, v, posix)
<1> DEFINE x == [w EXCEPT !.stack = Tail(@)]
<1>1. /\ w \in Walks /\ Ordered(t) /\ Top(w).path \in Above /\ w.depth = 1 /\ w.marks = {}
      /\ Base(w).path = <<>> /\ Base(w).dir \in {"root", "elsewhere"} /\ t \in Trees
      /\ Top(w) \in Frames
  BY StackSays DEF Walking, Shape, TodoOK, Ordered
<1>2. /\ x \in Walks /\ Kept(w, x) /\ x.next = w.next /\ x.found = w.found
      /\ x.cut = w.cut /\ x.coarse = w.coarse
      /\ Height(x) = 1 /\ Top(x) = Base(w) /\ Base(x) = Base(w)
  BY <1>1, PopSays
<1> HIDE DEF x
<1>3. Shape("read", x)
  BY <1>1, <1>2 DEF Shape, Resting
<1>4. FoundOK("read", x)
  BY <1>1, <1>2 DEF FoundOK, Walking, Kept
<1>5. FirstWalk("read", x, t, v)
  BY <1>1, <1>2 DEF FirstWalk, Walking, Kept
<1>6. ASSUME NEW u, Second(u, "read", w, t, v, posix)
      PROVE  Covers(u, "read", x, t, posix)
  <2> SUFFICES ASSUME Meets(u, x, t), Whole(x), x.depth = 1
               PROVE  \/ (posix => <<"b">> \notin x.found) /\ Below(x) = {}
                      \/ \A n \in Slots : u.entries["sub"][n] # Absent => n \in Below(x)
    BY <1>2 DEF Covers
  <2>1. /\ t.stamp["sub"] = u.stamp["sub"] /\ Meets(u, w, t) /\ Whole(w)
        /\ Below(x) = Below(w) /\ t.entries["sub"] = u.entries["sub"]
    BY <1>1, <1>2, <1>6 DEF Meets, Kept, Whole, Below, Second
  <2>2. IF Top(w).path = <<"b">>
        THEN Top(w).dir = "sub" /\ Top(w).was = u.entries["sub"] /\ Top(w).seen \subseteq Below(w)
        ELSE \/ (posix => <<"b">> \notin w.found) /\ Below(w) = {}
             \/ \A n \in Slots : u.entries["sub"][n] # Absent => n \in Below(w)
    BY <1>1, <1>6, <2>1 DEF Second, Covers
  <2>3. CASE Top(w).path = <<"b">>
    <3>1. \A n \in Slots \ Top(w).seen : u.entries["sub"][n] = Absent
      BY <2>1, <2>2, <2>3 DEF Finished
    <3> QED BY <2>1, <2>2, <2>3, <3>1
  <2> QED BY <1>2, <2>1, <2>2, <2>3
<1> QED BY <1>2, <1>3, <1>4, <1>5, <1>6, ReadingKeeps DEF x

\* A step of hashing or classifying keeps what the second walk is compared with.
LEMMA SecondKeeps ==
  ASSUME NEW a, NEW b, NEW w, NEW x, NEW t, NEW v, NEW posix, SecondWalk(a, w, t, v, posix),
         w.round = 2 /\ a # "verify", x.depth = w.depth, x.generation = w.generation,
         x.items = w.items, x.complete = w.complete,
         \A u : Second(u, a, w, t, v, posix) =>
                  /\ Covers(u, b, x, t, posix)
                  /\ \A m \in x.marks : u.stamp[m[2].obj] <= m[2].stamp
  PROVE  SecondWalk(b, x, t, v, posix)
<1>1. ASSUME NEW u, Second(u, a, w, t, v, posix)
      PROVE  Second(u, b, x, t, v, posix)
  BY <1>1 DEF Second
<1> QED BY <1>1 DEF SecondWalk

\* The folder asked for is closed: what was found is to be hashed.
LEMMA CloseBase ==
  ASSUME NEW w, NEW t, NEW v, NEW posix, Walking("read", w, t, v, posix), Finished(w, t), Height(w) = 1
  PROVE  Walking("mark", [w EXCEPT !.stack = <<>>, !.todo = w.found], t, v, posix)
<1> DEFINE x == [w EXCEPT !.stack = <<>>, !.todo = w.found]
<1>1. /\ w \in Walks /\ Ordered(t) /\ t \in Trees /\ w.marks = {} /\ w.snaps = {}
      /\ Base(w).dir \in {"root", "elsewhere"} /\ Base(w) = Top(w)
  BY StackSays DEF Walking, Shape, TodoOK, Ordered
<1>2. /\ x \in Walks /\ x.found = w.found /\ x.todo = w.found /\ x.cut = w.cut /\ x.coarse = w.coarse
      /\ x.stack = <<>> /\ x.marks = {} /\ x.snaps = {}
      /\ x.depth = w.depth /\ x.round = w.round /\ x.generation = w.generation /\ x.items = w.items
      /\ x.complete = w.complete
  <2>1. <<>> \in Seq(Frames)
    OBVIOUS
  <2> QED BY <1>1, <2>1 DEF Walks
<1> HIDE DEF x
<1>3. Height(x) = 0
  BY <1>2 DEF Height
<1>4. Shape("mark", x)
  BY <1>3 DEF Shape
<1>5. FoundOK("mark", x)
  BY <1>2, <1>3 DEF FoundOK, Walking
<1>6. TodoOK("mark", x)
  BY <1>2 DEF TodoOK, Walking, Snapped, PathsOf
<1>7. FirstWalk("mark", x, t, v)
  <2> SUFFICES ASSUME x.round = 1, t.stamp["root"] = 0
               PROVE  Listed(x.found, Whole(x), v) /\ Agrees(t, x.marks, {})
    BY <1>3 DEF FirstWalk
  <2>1. Agrees(t, x.marks, {})
    BY <1>2 DEF Agrees
  <2>2. CASE Base(w).dir = "elsewhere"
    <3>1. w.round = 1 /\ Height(w) # 0
      BY <1>2
    <3>2. {} \in v /\ w.found = {}
      BY <2>2, <3>1 DEF Walking, FirstWalk
    <3> QED BY <1>2, <2>1, <3>2 DEF Listed
  <2>3. CASE Base(w).dir = "root" /\ Whole(w)
    <3>1. /\ Base(w).was = Home /\ \A n \in Base(w).seen : <<n>> \in w.found
          /\ t.entries["root"] = Home
      BY <1>1, <1>2, <2>3 DEF Walking, FirstWalk, Whole, Ordered
    <3>2. {"a", "b"} \subseteq Base(w).seen
      BY <1>1, <2>3, <3>1 DEF Finished, Home, Empty, Slots, Absent
    <3> QED BY <1>2, <2>1, <3>1, <3>2 DEF Listed
  <2>4. CASE ~ Whole(w)
    BY <1>2, <2>1, <2>4 DEF Listed, Whole
  <2> QED BY <1>1, <2>1, <2>2, <2>3, <2>4
<1>8. Between("mark", x, t, v)
  BY DEF Between
<1>9. SecondWalk("mark", x, t, v, posix)
  <2>1. ASSUME NEW u, Second(u, "read", w, t, v, posix)
        PROVE  Covers(u, "mark", x, t, posix)
    <3>1. Meets(u, x, t) = Meets(u, w, t) /\ Whole(x) = Whole(w) /\ Below(x) = Below(w)
      BY <1>1, <1>2 DEF Meets, Whole, Below
    <3> QED BY <1>2, <1>3, <2>1, <3>1 DEF Second, Covers
  <2>2. CASE w.round = 2
    BY <1>2, <2>1, <2>2, SecondKeeps DEF Walking
  <2> QED BY <1>2, <2>2 DEF SecondWalk
<1> QED BY <1>2, <1>4, <1>5, <1>6, <1>7, <1>8, <1>9 DEF Walking, x
-------------------------------------------------------------------------------
(* The steps of hashing and of classifying.                                      *)

\* What a path led to, while the admitted folder stood still, agrees with the tree.
LEMMA SightSays ==
  ASSUME Ordered(tree), NEW p \in Paths, EntryAt(p) # Absent
  PROVE  /\ EntryAt(p) \in Things
         /\ Identity(tree, EntryAt(p)) = [obj |-> EntryAt(p), stamp |-> tree.stamp[EntryAt(p)]]
         /\ <<p, Identity(tree, EntryAt(p))>> \in Sights
<1>1. tree \in Trees
  BY DEF Ordered
<1>2. EntryAt(p) \in Things
  <2>1. PICK m \in Slots, n \in Slots : p = <<n>> \/ p = <<m, n>>
    BY DEF Paths, Above
  <2>2. /\ EntryAt(<<n>>) = IF tree.route = Absent THEN Absent ELSE tree.entries[tree.route][n]
        /\ EntryAt(<<m, n>>) = IF FolderAt(<<m>>) = Absent THEN Absent
                               ELSE tree.entries[FolderAt(<<m>>)][n]
    BY <1>1, PathSays
  <2>3. FolderAt(<<m>>) \in Folders \cup {Absent} /\ tree.route \in Folders \cup {Absent}
    BY <1>1 DEF FolderAt, Trees, Folders
  <2> QED BY <1>1, <2>1, <2>2, <2>3 DEF Trees, Contents
<1>3. Identity(tree, EntryAt(p)) = [obj |-> EntryAt(p), stamp |-> tree.stamp[EntryAt(p)]]
  BY DEF Identity
<1>4. tree.stamp[EntryAt(p)] \in Nat
  BY <1>1, <1>2 DEF Trees
<1> QED BY <1>2, <1>3, <1>4 DEF Sights

\* A mark taken of the admitted folder, before the marks of what is below it.
LEMMA MarkAgrees ==
  ASSUME Ordered(tree), tree.entries["root"] = Home, NEW p \in Paths, EntryAt(p) # Absent,
         NEW ms, ms \subseteq Sights, Agrees(tree, ms, {}),
         p = <<"b">> => \A n \in Slots : <<"b", n>> \notin PathsOf(ms)
  PROVE  Agrees(tree, ms \cup {<<p, Identity(tree, EntryAt(p))>>}, {})
<1> DEFINE s == <<p, Identity(tree, EntryAt(p))>>
           all == ms \cup {s}
<1>1. /\ s[1] = p /\ s[2].obj = EntryAt(p) /\ s[2].stamp = tree.stamp[EntryAt(p)]
      /\ EntryAt(p) \in Things
  <2>1. /\ EntryAt(p) \in Things
        /\ Identity(tree, EntryAt(p)) = [obj |-> EntryAt(p), stamp |-> tree.stamp[EntryAt(p)]]
    BY SightSays
  <2> QED BY <2>1
<1>2. \/ \E n \in {"a", "b"} : p = <<n>> /\ EntryAt(p) = Home[n]
      \/ \E n \in Slots : p = <<"b", n>> /\ EntryAt(p) = tree.entries["sub"][n]
  BY HomeSays
<1>3. tree \in Trees /\ \A x \in Things : tree.stamp[x] \in Nat
  BY DEF Ordered, Trees
<1>4. \A m \in all : m[2].stamp <= tree.stamp[m[2].obj]
  BY <1>1, <1>3 DEF Agrees
<1>5. \A m \in all : \/ \E n \in {"a", "b"} : m[1] = <<n>> /\ m[2].obj = Home[n]
                     \/ \E n \in Slots : m[1] = <<"b", n>>
  BY <1>1, <1>2 DEF Agrees
<1>6. ASSUME <<<<"b">>, Identity(tree, "sub")>> \in all, NEW m \in all, NEW n \in Slots, m[1] = <<"b", n>>
      PROVE  m[2].obj = tree.entries["sub"][n]
  <2>0. \A k, j \in Slots : <<k>> # <<"b", j>>
    OBVIOUS
  <2>1. CASE m = s
    <3>1. p = <<"b", n>>
      BY <1>1, <1>6, <2>1
    <3> QED BY <1>1, <1>2, <2>0, <2>1, <3>1 DEF Slots
  <2>2. CASE m # s
    <3>1. m \in ms /\ <<"b", n>> \in PathsOf(ms)
      BY <1>6, <2>2 DEF PathsOf
    <3>2. p # <<"b">>
      BY <3>1
    <3>3. <<<<"b">>, Identity(tree, "sub")>> \in ms
      BY <1>1, <1>6, <3>2
    <3> QED BY <1>6, <3>1, <3>3 DEF Agrees
  <2> QED BY <2>1, <2>2
<1> HIDE DEF all
<1> QED BY <1>4, <1>5, <1>6 DEF Agrees, all

\* A mark: what was hashed so far is joined by the first path of those to hash.
LEMMA MarkedWalk ==
  ASSUME Walking("mark", walk, tree, views, Posix), walk.todo # {},
         EntryAt(First(walk.todo)) # Absent,
         NEW b \in {"mark", "snap"}, NEW x, x \in Walks,
         x.depth = walk.depth, x.round = walk.round, x.stack = walk.stack, x.found = walk.found,
         x.cut = walk.cut, x.coarse = walk.coarse, x.generation = walk.generation,
         x.items = walk.items, x.complete = walk.complete,
         x.marks = walk.marks \cup {Mark(First(walk.todo))},
         TodoOK(b, x)
  PROVE  Walking(b, x, tree, views, Posix)
<1> DEFINE p == First(walk.todo)
<1>1. walk \in Walks /\ Ordered(tree) /\ tree \in Trees /\ walk.todo \in SUBSET Paths /\ Height(walk) = 0
  BY DEF Walking, Walks, Shape, Resting, Ordered
<1>2. p \in walk.todo /\ p \in Paths
  BY <1>1, FirstSays
<1>3. Height(x) = 0
  BY <1>1 DEF Height
<1>4. Mark(p) = <<p, Identity(tree, EntryAt(p))>>
  BY DEF Mark
<1>5. /\ Mark(p)[1] = p /\ Mark(p)[2].obj = EntryAt(p) /\ Mark(p)[2].stamp = tree.stamp[EntryAt(p)]
      /\ EntryAt(p) \in Things
  BY <1>1, <1>2, <1>4, SightSays
<1>6. Shape(b, x)
  BY <1>3 DEF Shape
<1>7. FoundOK(b, x)
  BY <1>3 DEF FoundOK, Walking
<1>8. FirstWalk(b, x, tree, views)
  <2> SUFFICES ASSUME x.round = 1, tree.stamp["root"] = 0
               PROVE  Listed(x.found, Whole(x), views) /\ Agrees(tree, x.marks, {})
    BY <1>3 DEF FirstWalk
  <2>1. Listed(walk.found, Whole(walk), views) /\ Agrees(tree, walk.marks, {})
    BY DEF Walking, FirstWalk
  <2>2. tree.entries["root"] = Home /\ walk.marks \subseteq Sights
    BY <1>1 DEF Ordered, Walks
  <2>3. p = <<"b">> => \A n \in Slots : <<"b", n>> \notin PathsOf(walk.marks)
    BY <1>2 DEF Walking, TodoOK, Slots
  <2>4. Agrees(tree, walk.marks \cup {<<p, Identity(tree, EntryAt(p))>>}, {})
    <3> HIDE DEF p
    <3> QED BY <1>1, <1>2, <2>1, <2>2, <2>3, MarkAgrees DEF p
  <2> QED BY <1>4, <2>1, <2>4 DEF Whole
<1>9. Between(b, x, tree, views)
  BY DEF Between
<1>10. SecondWalk(b, x, tree, views, Posix)
  <2>1. ASSUME NEW u, Second(u, "mark", walk, tree, views, Posix)
        PROVE  /\ Covers(u, b, x, tree, Posix)
               /\ \A m \in x.marks : u.stamp[m[2].obj] <= m[2].stamp
    <3>1. \A m \in x.marks : u.stamp[m[2].obj] <= m[2].stamp
      BY <1>5, <2>1 DEF Second
    <3>2. Meets(u, x, tree) => Meets(u, walk, tree)
      <4> SUFFICES ASSUME <<<<"b">>, Identity(u, "sub")>> = Mark(p)
                   PROVE  tree.stamp["sub"] = u.stamp["sub"]
        BY DEF Meets
      <4>1. Identity(u, "sub") = [obj |-> "sub", stamp |-> u.stamp["sub"]]
        BY DEF Identity, Absent
      <4>2. Mark(p)[2] = Identity(u, "sub")
        OBVIOUS
      <4> QED BY <1>5, <4>1, <4>2
    <3>3. Whole(x) = Whole(walk) /\ Below(x) = Below(walk)
      BY DEF Whole, Below
    <3> QED BY <1>1, <1>3, <2>1, <3>1, <3>2, <3>3 DEF Second, Covers
  <2>2. CASE walk.round = 2
    BY <2>1, <2>2, SecondKeeps DEF Walking
  <2>3. walk.round # 2 => x.round # 2
    OBVIOUS
  <2> QED BY <2>2, <2>3 DEF SecondWalk
<1> QED BY <1>6, <1>7, <1>8, <1>9, <1>10 DEF Walking

LEMMA InspectSays ==
  ASSUME tree \in Trees, NEW p \in Paths
  PROVE  /\ Inspect(p).path = p /\ Inspect(p).id = Identity(tree, EntryAt(p))
         /\ Inspect(p) \in [path : Paths, id : [obj : Things \cup {Absent}, stamp : Nat],
                            ancestors : Seq(Folders \cup {Absent})]
<1>1. EntryAt(p) \in Things \cup {Absent}
  <2>1. PICK m \in Slots, n \in Slots : p = <<n>> \/ p = <<m, n>>
    BY DEF Paths, Above
  <2>2. /\ EntryAt(<<n>>) = IF tree.route = Absent THEN Absent ELSE tree.entries[tree.route][n]
        /\ EntryAt(<<m, n>>) = IF FolderAt(<<m>>) = Absent THEN Absent
                               ELSE tree.entries[FolderAt(<<m>>)][n]
    BY PathSays
  <2>3. FolderAt(<<m>>) \in Folders \cup {Absent} /\ tree.route \in Folders \cup {Absent}
    BY DEF FolderAt, Trees, Folders
  <2> QED BY <2>1, <2>2, <2>3 DEF Trees, Contents
<1>2. Identity(tree, EntryAt(p)) \in [obj : Things \cup {Absent}, stamp : Nat]
  BY <1>1 DEF Identity, Trees
<1>3. Ancestors(p) \in Seq(Folders \cup {Absent})
  <2>1. Len(p) \in Nat
    BY PathParts DEF Paths, Above
  <2>2. \A q : FolderAt(q) \in Folders \cup {Absent}
    BY DEF FolderAt
  <2>3. Ancestors(p) \in [1 .. Len(p) -> Folders \cup {Absent}]
    BY <2>2 DEF Ancestors
  <2> QED BY <2>1, <2>3, SeqDef
<1> QED BY <1>2, <1>3 DEF Inspect

LEMMA TakenSays ==
  ASSUME walk \in Walks, Ordered(tree), NEW p \in walk.todo
  PROVE  /\ Taken(p) \in Walks /\ Snapped(Taken(p)) = Snapped(walk) \cup {p}
         /\ Taken(p) = [walk EXCEPT !.todo = walk.todo \ {p}, !.snaps = walk.snaps \cup {Inspect(p)}]
<1>1. p \in Paths /\ tree \in Trees
  BY DEF Walks, Ordered
<1>2. /\ Inspect(p).path = p
      /\ Inspect(p) \in [path : Paths, id : [obj : Things \cup {Absent}, stamp : Nat],
                         ancestors : Seq(Folders \cup {Absent})]
  BY <1>1, InspectSays
<1>3. Taken(p) = [walk EXCEPT !.todo = walk.todo \ {p}, !.snaps = walk.snaps \cup {Inspect(p)}]
  BY DEF Taken
<1>4. Taken(p) \in Walks
  <2> DEFINE Shots == [path : Paths, id : [obj : Things \cup {Absent}, stamp : Nat],
                       ancestors : Seq(Folders \cup {Absent})]
             ss == walk.snaps \cup {Inspect(p)}
             ps == walk.todo \ {p}
  <2>1. ss \in SUBSET Shots /\ ps \in SUBSET Paths
    BY <1>2 DEF Walks
  <2>2. Taken(p) = [walk EXCEPT !.todo = ps, !.snaps = ss]
    BY <1>3
  <2> HIDE DEF ss, ps
  <2> QED BY <2>1, <2>2 DEF Walks
<1>5. Taken(p).snaps = walk.snaps \cup {Inspect(p)}
  BY <1>3 DEF Walks
<1> QED BY <1>2, <1>3, <1>4, <1>5 DEF Snapped

\* POSIX hashes a stat of the path.
LEMMA PosixMarkKeeps ==
  ASSUME Walking("mark", walk, tree, views, Posix), walk.todo # {}, EntryAt(First(walk.todo)) # Absent
  PROVE  Walking("snap", [walk EXCEPT !.marks = @ \cup {Mark(First(walk.todo))}], tree, views, Posix)
<1> DEFINE p == First(walk.todo)
           x == [walk EXCEPT !.marks = @ \cup {Mark(p)}]
<1>1. walk \in Walks /\ Ordered(tree) /\ walk.todo \in SUBSET Paths
  BY DEF Walking, Walks
<1>2. p \in walk.todo /\ p \in Paths /\ \A m, n \in Slots : p = <<m, n>> => <<m>> \notin walk.todo
  BY <1>1, FirstSays
<1> HIDE DEF p
<1>3. Mark(p) \in Sights /\ Mark(p)[1] = p
  BY <1>1, <1>2, SightSays DEF Mark, p
<1>4. /\ x \in Walks /\ x.marks = walk.marks \cup {Mark(p)}
      /\ x.depth = walk.depth /\ x.round = walk.round /\ x.stack = walk.stack /\ x.found = walk.found
      /\ x.cut = walk.cut /\ x.coarse = walk.coarse /\ x.generation = walk.generation
      /\ x.items = walk.items /\ x.complete = walk.complete
      /\ x.todo = walk.todo /\ x.snaps = walk.snaps
  BY <1>1, <1>3 DEF Walks
<1> HIDE DEF x
<1>5. PathsOf(x.marks) = PathsOf(walk.marks) \cup {p}
  BY <1>3, <1>4 DEF PathsOf
<1>6. TodoOK("snap", x)
  <2>1. /\ Snapped(x) \cup x.todo = x.found
        /\ \A m, n \in Slots : <<m>> \in x.todo => <<m, n>> \notin PathsOf(x.marks)
    BY <1>2, <1>4, <1>5 DEF Walking, TodoOK, Snapped
  <2>2. x.todo # {} /\ PathsOf(x.marks) = Snapped(x) \cup {First(x.todo)}
    BY <1>4, <1>5 DEF Walking, TodoOK, Snapped, p
  <2> QED BY <1>4, <2>1, <2>2 DEF Walking, TodoOK
<1> QED BY <1>4, <1>6, MarkedWalk DEF x, p

\* POSIX takes the snapshot afterwards.
LEMMA PosixSnapshotKeeps ==
  ASSUME Walking("snap", walk, tree, views, Posix)
  PROVE  Walking("mark", Taken(First(walk.todo)), tree, views, Posix)
<1> DEFINE p == First(walk.todo)
           x == Taken(p)
<1>1. walk \in Walks /\ Ordered(tree) /\ walk.todo \in SUBSET Paths /\ walk.todo # {} /\ Height(walk) = 0
  BY DEF Walking, Walks, TodoOK, Shape, Resting
<1>2. p \in walk.todo
  BY <1>1, FirstSays
<1> HIDE DEF p
<1>3. /\ x \in Walks /\ Snapped(x) = Snapped(walk) \cup {p}
      /\ x = [walk EXCEPT !.todo = walk.todo \ {p}, !.snaps = walk.snaps \cup {Inspect(p)}]
  BY <1>1, <1>2, TakenSays
<1>4. /\ x.depth = walk.depth /\ x.round = walk.round /\ x.stack = walk.stack /\ x.found = walk.found
      /\ x.cut = walk.cut /\ x.coarse = walk.coarse /\ x.generation = walk.generation
      /\ x.items = walk.items /\ x.complete = walk.complete
      /\ x.todo = walk.todo \ {p} /\ x.marks = walk.marks
  BY <1>1, <1>3 DEF Walks
<1> HIDE DEF x
<1>5. Height(x) = 0
  BY <1>1, <1>4 DEF Height
<1>6. TodoOK("mark", x)
  <2>1. /\ Snapped(x) \cup x.todo = x.found
        /\ \A m, n \in Slots : <<m>> \in x.todo => <<m, n>> \notin PathsOf(x.marks)
    BY <1>2, <1>3, <1>4 DEF Walking, TodoOK
  <2>2. PathsOf(x.marks) = Snapped(x)
    BY <1>3, <1>4 DEF Walking, TodoOK, p
  <2> QED BY <1>4, <2>1, <2>2 DEF Walking, TodoOK
<1>7. Shape("mark", x) /\ FoundOK("mark", x)
  BY <1>4, <1>5 DEF Shape, FoundOK, Walking
<1>8. FirstWalk("mark", x, tree, views) /\ Between("mark", x, tree, views)
  BY <1>1, <1>4, <1>5 DEF FirstWalk, Between, Walking, Whole
<1>9. SecondWalk("mark", x, tree, views, Posix)
  <2>1. ASSUME NEW u, Second(u, "snap", walk, tree, views, Posix)
        PROVE  /\ Covers(u, "mark", x, tree, Posix)
               /\ \A m \in x.marks : u.stamp[m[2].obj] <= m[2].stamp
    BY <1>1, <1>4, <1>5, <2>1 DEF Second, Covers, Meets, Whole, Below
  <2>2. CASE walk.round = 2
    BY <1>4, <2>1, <2>2, SecondKeeps DEF Walking
  <2> QED BY <1>4, <2>2 DEF SecondWalk
<1> QED BY <1>3, <1>4, <1>6, <1>7, <1>8, <1>9 DEF Walking, x, p

\* Windows hashes the fields of the snapshot.
LEMMA WindowsSnapshotKeeps ==
  ASSUME Walking("mark", walk, tree, views, Posix), walk.todo # {}, EntryAt(First(walk.todo)) # Absent
  PROVE  Walking("mark", [Taken(First(walk.todo)) EXCEPT
                            !.marks = @ \cup {WindowsMark(Inspect(First(walk.todo)))}],
                 tree, views, Posix)
<1> DEFINE p == First(walk.todo)
           w == Taken(p)
           x == [w EXCEPT !.marks = @ \cup {WindowsMark(Inspect(p))}]
<1>1. walk \in Walks /\ Ordered(tree) /\ walk.todo \in SUBSET Paths /\ tree \in Trees
  BY DEF Walking, Walks, Ordered
<1>2. p \in walk.todo /\ p \in Paths
  BY <1>1, FirstSays
<1> HIDE DEF p
<1>3. Mark(p) \in Sights /\ Mark(p)[1] = p
  BY <1>1, <1>2, SightSays DEF Mark, p
<1>4. WindowsMark(Inspect(p)) = Mark(p)
  <2>1. Inspect(p).path = p /\ Inspect(p).id = Identity(tree, EntryAt(p))
    BY <1>1, <1>2, InspectSays
  <2> QED BY <2>1 DEF WindowsMark, Mark
<1>5. /\ w \in Walks /\ Snapped(w) = Snapped(walk) \cup {p}
      /\ w = [walk EXCEPT !.todo = walk.todo \ {p}, !.snaps = walk.snaps \cup {Inspect(p)}]
  BY <1>1, <1>2, TakenSays
<1>6. /\ x \in Walks /\ x.marks = walk.marks \cup {Mark(p)}
      /\ x.depth = walk.depth /\ x.round = walk.round /\ x.stack = walk.stack /\ x.found = walk.found
      /\ x.cut = walk.cut /\ x.coarse = walk.coarse /\ x.generation = walk.generation
      /\ x.items = walk.items /\ x.complete = walk.complete
      /\ x.todo = walk.todo \ {p} /\ x.snaps = w.snaps
  <2> DEFINE ms == walk.marks \cup {Mark(p)}
  <2>1. ms \in SUBSET Sights /\ w \in Walks
    BY <1>1, <1>3, <1>5 DEF Walks
  <2>2. /\ w.marks = walk.marks /\ w.todo = walk.todo \ {p}
        /\ w.depth = walk.depth /\ w.round = walk.round /\ w.stack = walk.stack /\ w.found = walk.found
        /\ w.cut = walk.cut /\ w.coarse = walk.coarse /\ w.generation = walk.generation
        /\ w.items = walk.items /\ w.complete = walk.complete
    BY <1>1, <1>5 DEF Walks
  <2>3. x = [w EXCEPT !.marks = ms]
    BY <1>4, <2>2
  <2> HIDE DEF ms, w, x
  <2>4. /\ x \in Walks /\ x.marks = ms
        /\ x.depth = w.depth /\ x.round = w.round /\ x.stack = w.stack /\ x.found = w.found
        /\ x.cut = w.cut /\ x.coarse = w.coarse /\ x.generation = w.generation
        /\ x.items = w.items /\ x.complete = w.complete /\ x.todo = w.todo /\ x.snaps = w.snaps
    BY <2>1, <2>3 DEF Walks
  <2> QED BY <2>2, <2>4 DEF ms
<1> HIDE DEF x, w
<1>7. PathsOf(x.marks) = PathsOf(walk.marks) \cup {p} /\ Snapped(x) = Snapped(walk) \cup {p}
  BY <1>3, <1>5, <1>6 DEF PathsOf, Snapped
<1>8. \A m, n \in Slots : p = <<m, n>> => <<m>> \notin walk.todo
  BY <1>1, FirstSays DEF p
<1>9. TodoOK("mark", x)
  <2>1. /\ Snapped(walk) \cup walk.todo = walk.found /\ PathsOf(walk.marks) = Snapped(walk)
        /\ \A m, n \in Slots : <<m>> \in walk.todo => <<m, n>> \notin PathsOf(walk.marks)
        /\ walk.round = 1 => walk.generation = {} /\ walk.items = {}
        /\ walk.round = 2 => PathsOf(walk.items) = PathsOf(walk.generation)
    BY DEF Walking, TodoOK
  <2>2. x.todo = walk.todo \ {p} /\ x.found = walk.found /\ x.round = walk.round
        /\ x.generation = walk.generation /\ x.items = walk.items
    BY <1>6
  <2>3. Snapped(x) \cup x.todo = x.found /\ PathsOf(x.marks) = Snapped(x)
    BY <1>2, <1>7, <2>1, <2>2
  <2>4. ASSUME NEW m \in Slots, NEW n \in Slots, <<m>> \in x.todo
        PROVE  <<m, n>> \notin PathsOf(x.marks)
    <3>1. <<m>> \in walk.todo
      BY <2>2, <2>4
    <3>2. <<m, n>> # p
      BY <1>8, <3>1
    <3> QED BY <1>7, <2>1, <3>1, <3>2
  <2> QED BY <2>1, <2>2, <2>3, <2>4 DEF TodoOK
<1> QED BY <1>6, <1>9, MarkedWalk DEF x, w, p

\* The first walk has come to its end.
LEMMA ReturnKeeps ==
  ASSUME Walking("mark", walk, tree, views, Posix), walk.todo = {}, walk.round = 1
  PROVE  Walking("classify",
           [walk EXCEPT !.generation = walk.marks, !.marks = {}, !.found = {},
                        !.todo = {s.path : s \in walk.snaps}, !.complete = Whole(walk)],
           tree, views, Posix)
<1> DEFINE x == [walk EXCEPT !.generation = walk.marks, !.marks = {}, !.found = {},
                             !.todo = {s.path : s \in walk.snaps}, !.complete = Whole(walk)]
<1>1. walk \in Walks /\ Ordered(tree) /\ Height(walk) = 0 /\ walk.items = {}
      /\ PathsOf(walk.marks) = Snapped(walk) /\ Snapped(walk) = walk.found
  BY DEF Walking, Shape, Resting, TodoOK
<1>2. Snapped(walk) \in SUBSET Paths /\ Whole(walk) \in BOOLEAN
  BY <1>1 DEF Walks, Whole
<1>3. /\ x \in Walks /\ x.generation = walk.marks /\ x.marks = {} /\ x.found = {}
      /\ x.todo = Snapped(walk) /\ x.complete = Whole(walk) /\ x.items = {}
      /\ x.depth = walk.depth /\ x.round = 1 /\ x.stack = walk.stack
  BY <1>1, <1>2 DEF Walks, Snapped
<1> HIDE DEF x
<1>4. Height(x) = 0
  BY <1>1, <1>3 DEF Height
<1>5. Shape("classify", x) /\ FoundOK("classify", x)
  BY <1>3, <1>4 DEF Shape, FoundOK
<1>6. TodoOK("classify", x)
  BY <1>1, <1>3 DEF TodoOK, PathsOf
<1>7. FirstWalk("classify", x, tree, views)
  BY <1>4 DEF FirstWalk
<1>8. Between("classify", x, tree, views)
  BY <1>1, <1>3 DEF Between, Walking, FirstWalk
<1>9. SecondWalk("classify", x, tree, views, Posix)
  BY <1>3 DEF SecondWalk
<1> QED BY <1>3, <1>5, <1>6, <1>7, <1>8, <1>9 DEF Walking, x

\* A snapshot is verified.
LEMMA ReverifyKeeps ==
  ASSUME Walking("classify", walk, tree, views, Posix), walk.todo # {}
  PROVE  Walking("inspect", walk, tree, views, Posix)
<1>1. Height(walk) = 0 /\ walk.round = 1
  BY DEF Walking, Shape, Resting, TodoOK
<1>2. Shape("inspect", walk) /\ FoundOK("inspect", walk) /\ TodoOK("inspect", walk)
  BY <1>1 DEF Walking, Shape, FoundOK, TodoOK
<1>3. FirstWalk("inspect", walk, tree, views) /\ Between("inspect", walk, tree, views)
  BY <1>1 DEF Walking, FirstWalk, Between
<1> QED BY <1>1, <1>2, <1>3 DEF Walking, SecondWalk

\* An item is not older than the mark of its path.
LEMMA ItemAgrees ==
  ASSUME Ordered(tree), tree.entries["root"] = Home, NEW p \in Paths, EntryAt(p) # Absent,
         NEW ms, ms \subseteq Sights, NEW is, Agrees(tree, ms, is)
  PROVE  Agrees(tree, ms, is \cup {<<p, Identity(tree, EntryAt(p))>>})
<1> DEFINE s == <<p, Identity(tree, EntryAt(p))>>
           js == is \cup {s}
<1>1. /\ s[1] = p /\ s[2].obj = EntryAt(p) /\ s[2].stamp = tree.stamp[EntryAt(p)]
      /\ EntryAt(p) \in Things
  <2>1. /\ EntryAt(p) \in Things
        /\ Identity(tree, EntryAt(p)) = [obj |-> EntryAt(p), stamp |-> tree.stamp[EntryAt(p)]]
    BY SightSays
  <2> QED BY <2>1
<1>2. \/ \E n \in {"a", "b"} : p = <<n>> /\ EntryAt(p) = Home[n]
      \/ \E n \in Slots : p = <<"b", n>> /\ EntryAt(p) = tree.entries["sub"][n]
  BY HomeSays
<1>3. tree \in Trees /\ \A x \in Things : tree.stamp[x] \in Nat
  BY DEF Ordered, Trees
<1> HIDE DEF s
<1>4. \A m \in ms \cup js : m[2].stamp <= tree.stamp[m[2].obj]
  BY <1>1, <1>3 DEF Agrees
<1>5. \A m \in ms \cup js : \/ \E n \in {"a", "b"} : m[1] = <<n>> /\ m[2].obj = Home[n]
                            \/ \E n \in Slots : m[1] = <<"b", n>>
  BY <1>1, <1>2 DEF Agrees
<1>6. ASSUME NEW m \in ms, NEW i \in js, m[1] = i[1], m[2].obj = i[2].obj
      PROVE  m[2].stamp <= i[2].stamp
  <2>1. CASE i = s
    BY <1>1, <1>6, <2>1 DEF Agrees
  <2>2. CASE i # s
    BY <1>6, <2>2 DEF Agrees
  <2> QED BY <2>1, <2>2
<1>7. ASSUME <<<<"b">>, Identity(tree, "sub")>> \in ms, NEW m \in ms \cup js, NEW n \in Slots,
             m[1] = <<"b", n>>
      PROVE  m[2].obj = tree.entries["sub"][n]
  <2>1. CASE m = s
    <3>0. \A k, j \in Slots : <<k>> # <<"b", j>>
      OBVIOUS
    <3>1. p = <<"b", n>>
      BY <1>1, <1>7, <2>1
    <3> QED BY <1>1, <1>2, <2>1, <3>0, <3>1 DEF Slots
  <2>2. CASE m # s
    BY <1>7, <2>2 DEF Agrees
  <2> QED BY <2>1, <2>2
<1> HIDE DEF js
<1> QED BY <1>4, <1>5, <1>6, <1>7 DEF Agrees, js, s

\* A path is inspected once more, and becomes an item of the list.
LEMMA ItemKeeps ==
  ASSUME Walking("inspect", walk, tree, views, Posix), EntryAt(First(walk.todo)) # Absent
  PROVE  Walking("classify",
           [walk EXCEPT !.todo = @ \ {First(walk.todo)},
                        !.items = @ \cup {<<First(walk.todo),
                                            Identity(tree, EntryAt(First(walk.todo)))>>}],
           tree, views, Posix)
<1> DEFINE p == First(walk.todo)
           s == <<p, Identity(tree, EntryAt(p))>>
           x == [walk EXCEPT !.todo = @ \ {p}, !.items = @ \cup {s}]
<1>1. /\ walk \in Walks /\ Ordered(tree) /\ Height(walk) = 0 /\ walk.round = 1 /\ walk.marks = {}
      /\ walk.todo # {} /\ walk.todo \in SUBSET Paths /\ walk.found = {}
      /\ PathsOf(walk.items) \cup walk.todo = PathsOf(walk.generation)
  BY DEF Walking, Shape, Resting, TodoOK, FoundOK, Walks
<1>2. p \in walk.todo /\ p \in Paths
  BY <1>1, FirstSays
<1> HIDE DEF p
<1>3. s \in Sights /\ s[1] = p
  BY <1>1, <1>2, SightSays DEF p
<1>4. /\ x \in Walks /\ x.items = walk.items \cup {s} /\ x.todo = walk.todo \ {p}
      /\ x.depth = walk.depth /\ x.round = 1 /\ x.stack = walk.stack /\ x.found = {}
      /\ x.marks = {} /\ x.generation = walk.generation /\ x.complete = walk.complete
  <2> HIDE DEF s
  <2> QED BY <1>1, <1>3 DEF Walks
<1>5. PathsOf(x.items) = PathsOf(walk.items) \cup {p}
  BY <1>3, <1>4 DEF PathsOf
<1>6. Between("classify", x, tree, views)
  <2> SUFFICES ASSUME tree.stamp["root"] = 0
               PROVE  Listed(PathsOf(x.generation), x.complete, views) /\ Agrees(tree, x.generation, x.items)
    BY DEF Between
  <2>1. Listed(PathsOf(walk.generation), walk.complete, views) /\ Agrees(tree, walk.generation, walk.items)
    BY DEF Walking, Between
  <2>2. tree.entries["root"] = Home /\ walk.generation \subseteq Sights /\ EntryAt(p) # Absent
    BY <1>1 DEF Ordered, Walks, p
  <2>3. Agrees(tree, walk.generation, walk.items \cup {s})
    BY <1>1, <1>2, <2>1, <2>2, ItemAgrees
  <2> HIDE DEF s, x
  <2> QED BY <1>4, <2>1, <2>3
<1> HIDE DEF x
<1>7. Height(x) = 0
  BY <1>1, <1>4 DEF Height
<1>8. Shape("classify", x) /\ FoundOK("classify", x)
  BY <1>4, <1>7 DEF Shape, FoundOK
<1>9. TodoOK("classify", x)
  <2>1. PathsOf(x.items) \cup x.todo = PathsOf(x.generation)
    BY <1>1, <1>2, <1>4, <1>5
  <2>2. x.round = 1 /\ x.marks = {}
    BY <1>4
  <2> QED BY <2>1, <2>2 DEF TodoOK
<1>10. FirstWalk("classify", x, tree, views) /\ SecondWalk("classify", x, tree, views, Posix)
  BY <1>4, <1>7 DEF FirstWalk, SecondWalk
<1> QED BY <1>4, <1>6, <1>8, <1>9, <1>10 DEF Walking, x, p

\* The same folder is walked again.
LEMMA ConfirmKeeps ==
  ASSUME Walking("classify", walk, tree, views, Posix), walk.todo = {}
  PROVE  Walking("verify", [walk EXCEPT !.round = 2, !.snaps = {}, !.cut = FALSE, !.coarse = FALSE],
                 tree, views, Posix)
<1> DEFINE x == [walk EXCEPT !.round = 2, !.snaps = {}, !.cut = FALSE, !.coarse = FALSE]
<1>1. /\ walk \in Walks /\ Height(walk) = 0 /\ walk.marks = {} /\ walk.found = {}
      /\ PathsOf(walk.items) = PathsOf(walk.generation)
  BY DEF Walking, Shape, Resting, TodoOK, FoundOK
<1>2. /\ x \in Walks /\ x.round = 2 /\ x.snaps = {} /\ x.todo = {} /\ x.marks = {} /\ x.found = {}
      /\ ~ x.cut /\ ~ x.coarse /\ x.stack = walk.stack /\ x.depth = walk.depth
      /\ x.items = walk.items /\ x.generation = walk.generation /\ x.complete = walk.complete
  BY <1>1 DEF Walks
<1> HIDE DEF x
<1>3. Height(x) = 0
  BY <1>1, <1>2 DEF Height
<1>4. Shape("verify", x) /\ FoundOK("verify", x) /\ TodoOK("verify", x)
  BY <1>1, <1>2, <1>3 DEF Shape, FoundOK, TodoOK, Whole
<1>5. FirstWalk("verify", x, tree, views) /\ SecondWalk("verify", x, tree, views, Posix)
  BY <1>2 DEF FirstWalk, SecondWalk
<1>6. Between("verify", x, tree, views)
  BY <1>2 DEF Between, Walking
<1> QED BY <1>2, <1>4, <1>5, <1>6 DEF Walking, x

\* The root is verified: what it is at that moment, the second walk is measured by.
LEMMA VerifyKeeps ==
  ASSUME Walking("verify", walk, tree, views, Posix), Inspect(<<>>).id = [obj |-> "root", stamp |-> 0]
  PROVE  Walking("start", walk, tree, views, Posix)
<1>1. /\ walk \in Walks /\ Height(walk) = 0 /\ walk.marks = {} /\ walk.found = {} /\ Whole(walk)
      /\ Ordered(tree) /\ tree \in Trees /\ Shown(tree, walk.depth) \in views
  BY DEF Walking, Shape, Resting, TodoOK, FoundOK, Ordered
<1>2. tree.route = "root" /\ tree.stamp["root"] = 0 /\ tree.entries["root"] = Home
  <2>1. EntryAt(<<>>) = tree.route
    BY DEF EntryAt
  <2>2. Identity(tree, tree.route).obj = "root" /\ Identity(tree, tree.route).stamp = 0
    BY <2>1 DEF Inspect
  <2> QED BY <1>1, <2>2 DEF Identity, Ordered, Absent
<1>3. Shape("start", walk) /\ FoundOK("start", walk) /\ TodoOK("start", walk)
  BY <1>1 DEF Walking, Shape, FoundOK, TodoOK
<1>4. FirstWalk("start", walk, tree, views) /\ Between("start", walk, tree, views)
  BY <1>1 DEF FirstWalk, Between
<1>5. SecondWalk("start", walk, tree, views, Posix)
  <2> SUFFICES ASSUME walk.round = 2
               PROVE  /\ Listed(PathsOf(walk.generation), walk.complete, views)
                      /\ Second(tree, "start", walk, tree, views, Posix)
    BY <1>1 DEF SecondWalk
  <2>1. /\ Listed(PathsOf(walk.generation), walk.complete, views)
        /\ Agrees(tree, walk.generation, walk.items)
    BY <1>2 DEF Walking, Between
  <2>2. \A x \in Things : tree.stamp[x] <= tree.stamp[x]
    BY <1>1 DEF Trees
  <2>3. tree.entries["root"]["b"] = "sub"
    BY <1>2 DEF Home, Empty, Slots
  <2>4. Covers(tree, "start", walk, tree, Posix)
    BY <1>1 DEF Covers, Below
  <2> QED BY <1>1, <1>2, <2>1, <2>2, <2>3, <2>4 DEF Second
<1> QED BY <1>3, <1>4, <1>5 DEF Walking
-------------------------------------------------------------------------------
(* What other programs do to a walk.                                             *)

LEMMA OnwardAgrees ==
  ASSUME NEW t, NEW u, Ordered(t), Ordered(u), NEW posix, Onward(t, u, posix),
         NEW ms, NEW is, ms \subseteq Sights, is \subseteq Sights, Agrees(t, ms, is)
  PROVE  Agrees(u, ms, is)
<1>1. /\ \A x \in Things : t.stamp[x] \in Nat /\ u.stamp[x] \in Nat /\ t.stamp[x] <= u.stamp[x]
      /\ u.stamp["sub"] = t.stamp["sub"] => u.entries["sub"] = t.entries["sub"]
  BY DEF Ordered, Trees, Onward
<1>2. \A m \in ms \cup is : m[2].obj \in Things /\ m[2].stamp \in Nat
  BY DEF Sights
<1>3. \A m \in ms \cup is : m[2].stamp <= u.stamp[m[2].obj]
  <2> SUFFICES ASSUME NEW m \in ms \cup is PROVE m[2].stamp <= u.stamp[m[2].obj]
    OBVIOUS
  <2>1. m[2].stamp <= t.stamp[m[2].obj]
    BY DEF Agrees
  <2> QED BY <1>1, <1>2, <2>1
<1>4. <<<<"b">>, Identity(u, "sub")>> \in ms =>
        <<<<"b">>, Identity(t, "sub")>> \in ms /\ u.entries["sub"] = t.entries["sub"]
  <2> SUFFICES ASSUME <<<<"b">>, Identity(u, "sub")>> \in ms
               PROVE  <<<<"b">>, Identity(t, "sub")>> \in ms /\ u.entries["sub"] = t.entries["sub"]
    OBVIOUS
  <2>1. /\ Identity(u, "sub") = [obj |-> "sub", stamp |-> u.stamp["sub"]]
        /\ Identity(t, "sub") = [obj |-> "sub", stamp |-> t.stamp["sub"]]
    BY DEF Identity, Absent
  <2>2. u.stamp["sub"] <= t.stamp["sub"]
    <3>1. \A m \in ms : m[2].stamp <= t.stamp[m[2].obj]
      BY DEF Agrees
    <3> QED BY <2>1, <3>1
  <2>3. u.stamp["sub"] = t.stamp["sub"]
    BY <1>1, <2>2 DEF Things, Folders
  <2> QED BY <1>1, <2>1, <2>3
<1> QED BY <1>3, <1>4 DEF Agrees

LEMMA TreeKeeps ==
  ASSUME NEW a, NEW w, NEW t, NEW u, NEW v, NEW vs, NEW posix, Walking(a, w, t, v, posix),
         Ordered(u), Onward(t, u, posix), v \subseteq vs, Shown(u, w.depth) \in vs
  PROVE  Walking(a, w, u, vs, posix)
<1>1. /\ w \in Walks /\ Ordered(t)
      /\ w.marks \subseteq Sights /\ w.generation \subseteq Sights /\ w.items \subseteq Sights
  BY DEF Walking, Walks
<1>2. /\ \A x \in Things : t.stamp[x] \in Nat /\ u.stamp[x] \in Nat /\ t.stamp[x] <= u.stamp[x]
      /\ u.stamp["sub"] = t.stamp["sub"] => u.entries["sub"] = t.entries["sub"]
      /\ "sub" \in Things /\ "root" \in Things
  BY <1>1 DEF Ordered, Trees, Onward, Things, Folders
<1>3. u.stamp["root"] = 0 => t.stamp["root"] = 0
  BY <1>2
<1>4. \A ps, whole : Listed(ps, whole, v) => Listed(ps, whole, vs)
  BY DEF Listed
<1>5. FirstWalk(a, w, u, vs)
  <2> SUFFICES ASSUME w.round = 1, u.stamp["root"] = 0
               PROVE  FirstWalk(a, w, u, vs)
    BY DEF FirstWalk
  <2>1. Agrees(t, w.marks, {}) => Agrees(u, w.marks, {})
    BY <1>1, OnwardAgrees
  <2> QED BY <1>3, <1>4, <2>1 DEF FirstWalk, Walking
<1>6. Between(a, w, u, vs)
  <2>1. Agrees(t, w.generation, w.items) => Agrees(u, w.generation, w.items)
    BY <1>1, OnwardAgrees
  <2> QED BY <1>3, <1>4, <2>1 DEF Between, Walking
<1>7. SecondWalk(a, w, u, vs, posix)
  <2>1. ASSUME NEW s \in Trees, Second(s, a, w, t, v, posix)
        PROVE  Second(s, a, w, u, vs, posix)
    <3>1. \A x \in Things : s.stamp[x] \in Nat /\ s.stamp[x] <= t.stamp[x]
      BY <2>1 DEF Trees, Second
    <3>2. u.stamp["sub"] = s.stamp["sub"] => t.stamp["sub"] = s.stamp["sub"] /\ u.stamp["sub"] = t.stamp["sub"]
      BY <1>2, <3>1
    <3>3. \A x \in Things : s.stamp[x] <= u.stamp[x]
      BY <1>2, <3>1
    <3>4. u.stamp["sub"] = s.stamp["sub"] =>
            u.entries["sub"] = s.entries["sub"] /\ (posix => u.entries["root"]["b"] = "sub")
      BY <1>2, <2>1, <3>2 DEF Second, Onward
    <3>5. Meets(s, w, u) => Meets(s, w, t)
      BY <3>2 DEF Meets
    <3>6. Covers(s, a, w, u, posix)
      BY <2>1, <3>5 DEF Second, Covers
    <3> QED BY <2>1, <3>3, <3>4, <3>6 DEF Second
  <2> QED BY <1>4, <2>1 DEF SecondWalk, Walking
<1> QED BY <1>5, <1>6, <1>7 DEF Walking
-------------------------------------------------------------------------------
(* The answer of a list.                                                         *)

\* Between the first walk's stamp and the second's, which are the same, an entry is
\* what the tree held when the second walk verified its root.
LEMMA ItemsShown ==
  ASSUME Walking("mark", walk, tree, views, Posix), walk.todo = {}, walk.marks = walk.generation,
         walk.round = 2, NEW u \in Trees, Second(u, "mark", walk, tree, views, Posix)
  PROVE  walk.items \subseteq Shown(u, walk.depth)
<1> SUFFICES ASSUME NEW i \in walk.items PROVE i \in Shown(u, walk.depth)
  OBVIOUS
<1>1. /\ walk \in Walks /\ walk.depth \in {0, 1} /\ i \in Sights /\ walk.marks \subseteq Sights
      /\ PathsOf(walk.marks) = walk.found /\ PathsOf(walk.items) = PathsOf(walk.marks)
      /\ \A m, n \in Slots : <<m, n>> \in walk.found => <<m>> \in walk.found /\ walk.depth = 1
  BY DEF Walking, Walks, TodoOK, FoundOK, Snapped
<1>2. /\ Ordered(u) /\ u.route = "root" /\ u.entries["root"] = Home
      /\ Agrees(u, walk.marks, walk.items)
      /\ \A m \in walk.marks : u.stamp[m[2].obj] <= m[2].stamp
  BY DEF Second
<1>3. \A x \in Things : u.stamp[x] \in Nat
  BY DEF Trees
<1>4. \A m \in walk.marks : m[2].stamp = u.stamp[m[2].obj] /\ m[2].obj \in Things
  <2> SUFFICES ASSUME NEW m \in walk.marks
               PROVE  m[2].stamp = u.stamp[m[2].obj] /\ m[2].obj \in Things
    OBVIOUS
  <2>1. m[2].stamp \in Nat /\ m[2].obj \in Things
    BY <1>1 DEF Sights
  <2>2. m[2].stamp <= u.stamp[m[2].obj] /\ u.stamp[m[2].obj] <= m[2].stamp
    BY <1>2 DEF Agrees
  <2> QED BY <1>3, <2>1, <2>2
<1>5. PICK g \in walk.marks : g[1] = i[1]
  BY <1>1 DEF PathsOf
<1>6. g[2].obj = i[2].obj => i = <<i[1], Identity(u, i[2].obj)>>
  <2> SUFFICES ASSUME g[2].obj = i[2].obj PROVE i = <<i[1], Identity(u, i[2].obj)>>
    OBVIOUS
  <2>1. i[2] \in [obj : Things, stamp : Nat] /\ i = <<i[1], i[2]>>
    BY <1>1 DEF Sights
  <2>2. g[2].stamp <= i[2].stamp /\ i[2].stamp <= u.stamp[i[2].obj]
    BY <1>2, <1>5 DEF Agrees
  <2>3. i[2].stamp = u.stamp[i[2].obj]
    BY <1>3, <1>4, <2>1, <2>2
  <2>4. i[2] = [obj |-> i[2].obj, stamp |-> u.stamp[i[2].obj]] /\ i[2].obj # Absent
    BY <2>1, <2>3 DEF Things, Folders, Plain, Absent
  <2>5. i[2] = Identity(u, i[2].obj)
    BY <2>4 DEF Identity
  <2> QED BY <2>1, <2>5
<1>7. \A k, j \in Slots : \A l \in Slots : <<k>> # <<l, j>>
  OBVIOUS
<1>8. ASSUME NEW n \in {"a", "b"}, i[1] = <<n>>, i[2].obj = Home[n]
      PROVE  i \in Shown(u, walk.depth)
  <2>1. g[2].obj = Home[n]
    <3>1. \/ \E k \in {"a", "b"} : g[1] = <<k>> /\ g[2].obj = Home[k]
          \/ \E k \in Slots : g[1] = <<"b", k>>
      BY <1>2 DEF Agrees
    <3> QED BY <1>5, <1>7, <1>8, <3>1 DEF Slots
  <2>2. i = <<<<n>>, Identity(u, Home[n])>>
    BY <1>6, <1>8, <2>1
  <2> QED BY <1>1, <1>2, <2>2, ShownSays
<1>9. ASSUME NEW n \in Slots, i[1] = <<"b", n>>
      PROVE  i \in Shown(u, walk.depth)
  <2>1. <<"b", n>> \in walk.found
    BY <1>1, <1>5, <1>9 DEF PathsOf
  <2>2. walk.depth = 1 /\ <<"b">> \in PathsOf(walk.marks)
    BY <1>1, <2>1 DEF Slots
  <2>3. PICK h \in walk.marks : h[1] = <<"b">>
    BY <2>2 DEF PathsOf
  <2>4. h[2].obj = "sub"
    <3>1. \/ \E k \in {"a", "b"} : h[1] = <<k>> /\ h[2].obj = Home[k]
          \/ \E k \in Slots : h[1] = <<"b", k>>
      BY <1>2 DEF Agrees
    <3>2. h[2].obj = Home["b"]
      BY <1>7, <2>3, <3>1 DEF Slots
    <3> QED BY <3>2 DEF Home, Empty, Slots
  <2>5. h = <<<<"b">>, Identity(u, "sub")>>
    <3>1. h = <<h[1], h[2]>> /\ h[2] = [obj |-> h[2].obj, stamp |-> h[2].stamp]
      BY <1>1 DEF Sights
    <3>2. h[2] = [obj |-> "sub", stamp |-> u.stamp["sub"]]
      BY <1>4, <2>4, <3>1
    <3> QED BY <2>3, <3>1, <3>2 DEF Identity, Absent
  <2>6. g[2].obj = u.entries["sub"][n] /\ i[2].obj = u.entries["sub"][n]
    BY <1>2, <1>5, <1>9, <2>5 DEF Agrees
  <2>7. i = <<<<"b", n>>, Identity(u, u.entries["sub"][n])>>
    BY <1>6, <1>9, <2>6
  <2>8. u.entries["sub"][n] # Absent
    BY <1>1, <2>6 DEF Sights, Things, Folders, Plain, Absent
  <2> QED BY <1>1, <1>2, <2>2, <2>7, <2>8, ShownSays
<1>10. \/ \E n \in {"a", "b"} : i[1] = <<n>> /\ i[2].obj = Home[n]
       \/ \E n \in Slots : i[1] = <<"b", n>>
  BY <1>2 DEF Agrees
<1> QED BY <1>8, <1>9, <1>10

\* What a complete list leaves out of a whole second walk lies below a folder that
\* walk did not enter, which POSIX does.
LEMMA AllListed ==
  ASSUME Walking("mark", walk, tree, views, Posix), walk.todo = {}, walk.marks = walk.generation,
         walk.round = 2, walk.complete, Whole(walk), {<<"a">>, <<"b">>} \subseteq PathsOf(walk.generation),
         NEW u \in Trees, Second(u, "mark", walk, tree, views, Posix),
         NEW e \in Shown(u, walk.depth) \ walk.items
  PROVE  ~ Posix /\ Len(e[1]) = 2 /\ Bare(e[1][1])
<1>1. /\ walk \in Walks /\ walk.depth \in {0, 1} /\ walk.items \subseteq Sights /\ Height(walk) = 0
      /\ PathsOf(walk.marks) = walk.found /\ PathsOf(walk.items) = walk.found
  BY DEF Walking, Walks, TodoOK, Snapped, Shape, Resting
<1>2. /\ Ordered(u) /\ u.route = "root" /\ u.entries["root"] = Home
      /\ Agrees(u, walk.marks, walk.items)
      /\ \A m \in walk.marks : u.stamp[m[2].obj] <= m[2].stamp
      /\ Covers(u, "mark", walk, tree, Posix)
  BY DEF Second
<1>3. walk.items \subseteq Shown(u, walk.depth)
  BY ItemsShown
<1>4. \A i \in walk.items : i[1] = e[1] => i = e
  <2> SUFFICES ASSUME NEW i \in walk.items, i[1] = e[1] PROVE i = e
    OBVIOUS
  <2>1. \A k, j \in Slots : \A l \in Slots : <<k>> # <<l, j>>
    OBVIOUS
  <2>2. \/ \E n \in {"a", "b"} : i = <<<<n>>, Identity(u, Home[n])>>
        \/ \E m \in Slots : i = <<<<"b", m>>, Identity(u, u.entries["sub"][m])>>
    BY <1>1, <1>2, <1>3, ShownSays
  <2>3. \/ \E n \in {"a", "b"} : e = <<<<n>>, Identity(u, Home[n])>>
        \/ \E m \in Slots : e = <<<<"b", m>>, Identity(u, u.entries["sub"][m])>>
    BY <1>1, <1>2, ShownSays
  <2> QED BY <2>1, <2>2, <2>3 DEF Slots
<1>5. e[1] \notin walk.found
  BY <1>1, <1>4 DEF PathsOf
<1>6. PICK m \in Slots : /\ walk.depth = 1 /\ u.entries["sub"][m] # Absent
                         /\ e = <<<<"b", m>>, Identity(u, u.entries["sub"][m])>>
  <2>1. \A n \in {"a", "b"} : <<n>> \in walk.found
    BY <1>1
  <2>2. ~ \E n \in {"a", "b"} : e = <<<<n>>, Identity(u, Home[n])>>
    BY <1>5, <2>1
  <2> QED BY <1>1, <1>2, <2>2, ShownSays
<1>7. m \notin Below(walk)
  BY <1>5, <1>6 DEF Below
<1>8. Meets(u, walk, tree)
  <2>1. PICK h \in walk.marks : h[1] = <<"b">>
    BY DEF PathsOf
  <2>2. h \in Sights
    BY <1>1 DEF Walks
  <2>3. h[2].obj = "sub"
    <3>1. \/ \E k \in {"a", "b"} : h[1] = <<k>> /\ h[2].obj = Home[k]
          \/ \E k \in Slots : h[1] = <<"b", k>>
      BY <1>2 DEF Agrees
    <3>2. \A k, j \in Slots : <<k>> # <<"b", j>>
      OBVIOUS
    <3>3. h[2].obj = Home["b"]
      BY <2>1, <3>1, <3>2 DEF Slots
    <3> QED BY <3>3 DEF Home, Empty, Slots
  <2>4. h[2].stamp = u.stamp["sub"]
    <3>1. h[2].stamp <= u.stamp["sub"] /\ u.stamp["sub"] <= h[2].stamp
      BY <1>2, <2>3 DEF Agrees
    <3>2. h[2].stamp \in Nat /\ u.stamp["sub"] \in Nat
      BY <2>2 DEF Sights, Trees, Things, Folders
    <3> QED BY <3>1, <3>2
  <2>5. h = <<<<"b">>, Identity(u, "sub")>>
    <3>1. h = <<h[1], h[2]>> /\ h[2] = [obj |-> h[2].obj, stamp |-> h[2].stamp]
      BY <2>2 DEF Sights
    <3>2. h[2] = [obj |-> "sub", stamp |-> u.stamp["sub"]]
      BY <2>3, <2>4, <3>1
    <3> QED BY <2>1, <3>1, <3>2 DEF Identity, Absent
  <2> QED BY <2>5 DEF Meets
<1>9. (Posix => <<"b">> \notin walk.found) /\ Below(walk) = {}
  BY <1>1, <1>2, <1>6, <1>7, <1>8 DEF Covers
<1>10. ~ Posix
  BY <1>1, <1>9
<1>11. Len(e[1]) = 2 /\ e[1][1] = "b"
  <2>1. e[1] = <<"b", m>>
    BY <1>6
  <2> QED BY <2>1
<1>12. Bare("b")
  <2> SUFFICES ASSUME NEW i \in walk.items, Len(i[1]) = 2, i[1][1] = "b" PROVE FALSE
    BY DEF Bare
  <2>1. i[1] \in Paths /\ i[1] \in walk.found
    BY <1>1 DEF Sights, PathsOf
  <2>2. PICK n \in Slots : i[1] = <<"b", n>>
    <3>1. \A n \in Slots : Len(<<n>>) = 1
      OBVIOUS
    <3> QED BY <2>1, <3>1 DEF Paths, Above
  <2> QED BY <1>9, <2>1, <2>2 DEF Below
<1> QED BY <1>10, <1>11, <1>12

LEMMA AnswerSays ==
  ASSUME Walking("mark", walk, tree, views, Posix), walk.todo = {}, walk.marks = walk.generation,
         walk.round = 2
  PROVE  \E v \in views :
           /\ walk.items \subseteq v
           /\ walk.complete /\ Whole(walk) =>
                \A e \in v \ walk.items : ~ Posix /\ Len(e[1]) = 2 /\ Bare(e[1][1])
<1>1. /\ Listed(PathsOf(walk.generation), walk.complete, views)
      /\ \E u \in Trees : Second(u, "mark", walk, tree, views, Posix)
      /\ PathsOf(walk.items) = PathsOf(walk.generation)
  BY DEF Walking, SecondWalk, TodoOK
<1>2. CASE PathsOf(walk.generation) = {} /\ {} \in views
  <2>1. walk.items = {}
    BY <1>1, <1>2 DEF PathsOf
  <2> QED BY <1>2, <2>1
<1>3. CASE walk.complete => {<<"a">>, <<"b">>} \subseteq PathsOf(walk.generation)
  <2>1. PICK u \in Trees : Second(u, "mark", walk, tree, views, Posix)
    BY <1>1
  <2>2. Shown(u, walk.depth) \in views
    BY <2>1 DEF Second
  <2>3. walk.items \subseteq Shown(u, walk.depth)
    BY <2>1, ItemsShown
  <2>4. walk.complete /\ Whole(walk) =>
          \A e \in Shown(u, walk.depth) \ walk.items : ~ Posix /\ Len(e[1]) = 2 /\ Bare(e[1][1])
    BY <1>3, <2>1, AllListed
  <2> QED BY <2>2, <2>3, <2>4
<1> QED BY <1>1, <1>2, <1>3 DEF Listed
-------------------------------------------------------------------------------
(* Every step keeps the invariant of a list.                                     *)

LEMMA ProceedKeeps ==
  ASSUME World, call.op = "list", NEW a, NEW x, Proceed(a, x), a # "done",
         Walking(a, x, tree, views, Posix)
  PROVE  ListInv'
<1>1. call'.at = a /\ Posix' = Posix
  BY GotoSays DEF Proceed
<1>2. walk' = x /\ UNCHANGED <<tree, views>>
  BY DEF Proceed
<1>3. Walking(call'.at, walk', tree', views', Posix')
  BY <1>1, <1>2
<1>4. ListIsASnapshot'
  BY <1>1 DEF ListIsASnapshot
<1> QED BY <1>3, <1>4 DEF ListInv

LEMMA FailKeeps ==
  ASSUME World, NEW r, Fail(r), r # "ok"
  PROVE  ListInv'
<1>1. call'.at = "done" /\ call'.result = r
  BY ReturnSays DEF Fail, Answer
<1> QED BY <1>1 DEF ListInv, ListIsASnapshot

LEMMA WalkKeeps ==
  ASSUME World, ListInv, WalkNext
  PROVE  ListInv'
<1>1. call.op = "list" /\ call.at # "done"
  BY DEF WalkNext, VerifyRoot, PosixStart, WindowsStart, PosixOpen, WindowsOpen, PosixScan, WindowsScan,
         EndFolder, PosixRead, WindowsRead, Returns, PosixMark, PosixSnapshot, WindowsSnapshot, ReturnWalk,
         ReverifyEntry, InspectEntry, ConfirmList, AnswerList, AtList
<1>2. Walking(call.at, walk, tree, views, Posix)
  BY <1>1 DEF ListInv
<1>3. ASSUME NEW a, NEW x, Proceed(a, x), a # "done", Walking(a, x, tree, views, Posix)
      PROVE  ListInv'
  BY <1>1, <1>3, ProceedKeeps
<1>4. ASSUME NEW r, Fail(r), r # "ok"
      PROVE  ListInv'
  BY <1>4, FailKeeps
<1>5. CASE VerifyRoot
  BY <1>2, <1>3, <1>4, <1>5, VerifyKeeps DEF VerifyRoot, AtList
<1>6. CASE PosixStart \/ WindowsStart
  BY <1>2, <1>3, <1>4, <1>6, StartKeeps DEF PosixStart, WindowsStart, AtList
<1>7. CASE PosixOpen \/ WindowsOpen
  <2>1. call.at = "open"
    BY <1>7 DEF PosixOpen, WindowsOpen, AtList
  <2>2. CASE Fail("Io")
    BY <1>4, <2>2
  <2>3. CASE ~ Fail("Io")
    <3>1. FolderAt(walk.next) # Absent /\ (~ Posix => IsFolder(walk.next)) /\ OpenFolder
      <4>1. CASE PosixOpen
        BY <2>3, <4>1 DEF PosixOpen
      <4>2. CASE WindowsOpen
        <5>1. ~ Posix /\ IsFolder(walk.next) /\ OpenFolder
          BY <2>3, <4>2 DEF WindowsOpen
        <5>2. FolderAt(walk.next) # Absent
          <6>1. walk.next \in {<<>>} \cup Above /\ tree \in Trees
            BY <1>2 DEF Walking, Walks, Ordered
          <6>2. CASE walk.next = <<>>
            <7>1. tree.route \in Folders
              BY <5>1, <6>2 DEF IsFolder, EntryAt
            <7> QED BY <6>2, <7>1 DEF FolderAt, Folders, Absent
          <6>3. CASE walk.next # <<>>
            <7>1. PICK n \in Slots : walk.next = <<n>>
              BY <6>1, <6>3 DEF Above
            <7>2. /\ EntryAt(<<n>>) = IF tree.route = Absent THEN Absent ELSE tree.entries[tree.route][n]
                  /\ FolderAt(<<n>>) = IF tree.route # Absent /\ Follow(tree.entries[tree.route][n]) \in Folders
                                       THEN Follow(tree.entries[tree.route][n]) ELSE Absent
              BY <6>1, PathSays
            <7> QED BY <5>1, <7>1, <7>2 DEF IsFolder, Follow, Folders, Absent
          <6> QED BY <6>2, <6>3
        <5> QED BY <5>1, <5>2
      <4> QED BY <1>7, <4>1, <4>2
    <3>2. Walking("scan",
           [walk EXCEPT !.stack =
              <<[path |-> walk.next, dir |-> FolderAt(walk.next), was |-> Empty, seen |-> {}]>> \o @],
           tree, views, Posix)
      BY <1>2, <2>1, <3>1, FolderOpens
    <3> QED BY <1>3, <3>1, <3>2 DEF OpenFolder
  <2> QED BY <2>2, <2>3
<1>8. ASSUME NEW w, Walking("read", w, tree, views, Posix), Finished(w, tree), CloseFolder(w)
      PROVE  ListInv'
  <2>1. Height(w) \in {1, 2}
    BY <1>8 DEF Walking, Shape
  <2>2. CASE Height(w) = 1
    <3>1. Proceed("mark", [w EXCEPT !.stack = <<>>, !.todo = w.found])
      BY <1>8, <2>2 DEF CloseFolder, Height
    <3> QED BY <1>3, <1>8, <2>2, <3>1, CloseBase
  <2>3. CASE Height(w) = 2
    <3>1. Proceed("read", [w EXCEPT !.stack = Tail(@)])
      BY <1>8, <2>3 DEF CloseFolder, Height
    <3> QED BY <1>3, <1>8, <2>3, <3>1, CloseBelow
  <2> QED BY <2>1, <2>2, <2>3
<1>9. CASE PosixScan \/ WindowsScan
  <2>1. call.at = "scan" /\ ScanFolder
    BY <1>9 DEF PosixScan, WindowsScan, AtList
  <2>2. CASE tree.entries[Open.dir][".gitignore"] = Absent
    <3>1. Proceed("read", [walk EXCEPT !.stack[1].was = tree.entries[Open.dir]])
      BY <2>1, <2>2 DEF ScanFolder
    <3> QED BY <1>2, <1>3, <2>1, <2>2, <3>1, ScanKeeps
  <2>3. CASE tree.entries[Open.dir][".gitignore"] # Absent
    <3> DEFINE w == [walk EXCEPT !.coarse = TRUE]
               x == Appended(w, Child(Open.path, ".gitignore"))
    <3>1. CloseFolder(x)
      BY <2>1, <2>3 DEF ScanFolder
    <3>2. Walking("read", x, tree, views, Posix)
      BY <1>2, <2>1, <2>3, CoarseKeeps
    <3>3. x.coarse
      <4>1. w \in Walks /\ w.coarse
        BY <1>2 DEF Walking, Walks
      <4>2. x.coarse = w.coarse
        BY <4>1 DEF Appended, Walks
      <4> QED BY <4>1, <4>2
    <3> HIDE DEF x
    <3> QED BY <1>8, <3>1, <3>2, <3>3 DEF Finished, Whole
  <2> QED BY <2>2, <2>3
<1>10. CASE EndFolder
  <2>1. call.at = "read" /\ CloseFolder(walk) /\ Finished(walk, tree)
    BY <1>10 DEF EndFolder, AtList, Finished, Whole, Open, Top
  <2> QED BY <1>2, <1>8, <2>1
<1>11. ASSUME NEW n \in Slots, PosixRead(n) \/ WindowsRead(n)
       PROVE  ListInv'
  <2> DEFINE p == Child(Open.path, n)
  <2>1. call.at = "read" /\ Enumerated(n) # {}
    BY <1>11 DEF PosixRead, WindowsRead, Returns, AtList
  <2>2. CASE Fail("NotFound")
    BY <1>4, <2>2
  <2>3. ASSUME NEW descend, Entered(p, Noted(n), descend),
               descend => Len(Open.path) < walk.depth,
               Posix /\ ~ descend => EntryAt(p) # Absent
                                     /\ ~ (EntryAt(p) \in Folders /\ Len(Open.path) < walk.depth)
        PROVE  ListInv'
    <3>1. CASE descend
      <4>1. Proceed("open", [Noted(n) EXCEPT !.next = p])
        BY <2>3, <3>1 DEF Entered
      <4>2. Walking("open", [Noted(n) EXCEPT !.next = p], tree, views, Posix)
        BY <1>2, <2>1, <2>3, <3>1, EnterKeeps
      <4> QED BY <1>3, <4>1, <4>2
    <3>2. CASE ~ descend
      <4>1. Proceed("read", Noted(n))
        BY <2>3, <3>2 DEF Entered
      <4>2. Walking("read", Noted(n), tree, views, Posix)
        BY <1>2, <2>1, <2>3, <3>2, NameReturns
      <4> QED BY <1>3, <4>1, <4>2
    <3> QED BY <3>1, <3>2
  <2>4. CASE PosixRead(n) /\ ~ Fail("NotFound")
    <3>1. /\ EntryAt(p) # Absent
          /\ Entered(p, Noted(n), EntryAt(p) \in Folders /\ Len(Open.path) < walk.depth)
      BY <2>4 DEF PosixRead
    <3> HIDE DEF p
    <3> QED BY <2>3, <3>1
  <2>5. CASE WindowsRead(n)
    <3>1. PICK o \in Enumerated(n) :
            Entered(p, Noted(n), o \in Folders /\ Len(Open.path) < walk.depth /\ ~ Noted(n).cut)
      BY <2>5 DEF WindowsRead
    <3>2. ~ Posix
      BY <2>5 DEF WindowsRead
    <3> HIDE DEF p
    <3> QED BY <2>3, <3>1, <3>2
  <2> QED BY <1>11, <2>2, <2>4, <2>5
<1>12. CASE PosixMark \/ PosixSnapshot
  BY <1>2, <1>3, <1>4, <1>12, PosixMarkKeeps, PosixSnapshotKeeps DEF PosixMark, PosixSnapshot, AtList
<1>13. CASE WindowsSnapshot
  BY <1>2, <1>3, <1>4, <1>13, WindowsSnapshotKeeps DEF WindowsSnapshot, AtList
<1>14. CASE ReturnWalk
  BY <1>2, <1>3, <1>14, ReturnKeeps DEF ReturnWalk, AtList
<1>15. CASE ReverifyEntry \/ InspectEntry
  BY <1>2, <1>3, <1>4, <1>15, ReverifyKeeps, ItemKeeps DEF ReverifyEntry, InspectEntry, AtList
<1>16. CASE ConfirmList
  BY <1>2, <1>3, <1>16, ConfirmKeeps DEF ConfirmList, AtList
<1>17. CASE AnswerList
  <2>1. CASE Fail("TargetChanged")
    BY <1>4, <2>1
  <2>2. CASE ~ Fail("TargetChanged")
    <3>1. /\ call.at = "mark" /\ walk.todo = {} /\ walk.round = 2 /\ walk.marks = walk.generation
          /\ Answer("ok") /\ UNCHANGED walkVars
      BY <1>17, <2>2 DEF AnswerList, AtList
    <3>2. /\ call'.at = "done" /\ Posix' = Posix /\ UNCHANGED <<walk, views>>
      BY <3>1, ReturnSays DEF Answer, walkVars
    <3>3. \E v \in views :
           /\ walk.items \subseteq v
           /\ walk.complete /\ Whole(walk) =>
                \A e \in v \ walk.items : ~ Posix /\ Len(e[1]) = 2 /\ Bare(e[1][1])
      BY <1>2, <3>1, AnswerSays
    <3>4. ListIsASnapshot'
      BY <3>2, <3>3 DEF ListIsASnapshot, Bare, Whole
    <3> QED BY <3>2, <3>4 DEF ListInv
  <2> QED BY <2>1, <2>2
<1> QED BY <1>5, <1>6, <1>7, <1>9, <1>10, <1>11, <1>12, <1>13, <1>14, <1>15, <1>16, <1>17 DEF WalkNext

\* Walking says nothing of the number of other programs' steps.
LEMMA TreeNextKeeps ==
  ASSUME ListInv, TreeNext
  PROVE  ListInv'
<1>1. call.op = "list" /\ call.at # "done"
  BY DEF TreeNext, PlaceEntry, WriteFile, Reroute, TreeStep
<1>2. Walking(call.at, walk, tree, views, Posix) /\ Ordered(tree)
  BY <1>1 DEF ListInv, Walking
<1>3. /\ UNCHANGED <<vars, walk>> /\ Ordered(tree') /\ Onward(tree, tree', Posix)
      /\ views \subseteq views' /\ Shown(tree', walk.depth) \in views'
  BY <1>2, TreeStepSays
<1>4. call' = call /\ Posix' = Posix /\ walk' = walk
  BY <1>3 DEF vars, Posix
<1>5. Walking(call.at, walk, tree', views', Posix)
  BY <1>2, <1>3, TreeKeeps
<1>6. ListInv' <=> /\ call.op = "list" /\ call.at # "done" => Walking(call.at, walk, tree', views', Posix)
                   /\ ListIsASnapshot'
  BY <1>4 DEF ListInv
<1>7. ListIsASnapshot'
  BY <1>1, <1>4 DEF ListIsASnapshot
<1> QED BY <1>5, <1>6, <1>7

\* No other call is a list, nor becomes one.
LEMMA OthersAreNoList ==
  ASSUME Typed, CallNext \/ SaveNext
  PROVE  call.op # "list" /\ call'.op # "list"
<1>1. call.op # "list"
  <2>1. CASE PosixNext
    BY <2>1 DEF PosixNext, PosixReplace, PosixRename, PosixDelete, InspectTarget, InspectOpen,
                InspectMetadata, ReplaceOpen, ReplaceCapture, ReplaceCopyMode, ReplaceRecheck,
                ReplaceCopyExtra, ReplaceFlush, ReplaceVerify, ReplaceExchange, ReplaceObserve,
                ReplaceRollBack, ReplaceRolledBack, ReplaceHandles, ReplaceUnlink, RenameAdmit,
                RenameMove, RenameObserve, RenameRollBack, RenameRolledBack, DeleteAdmit, DeleteOpen,
                DeleteIsolate, DeleteObserve, DeleteRollBack, DeleteRolledBack, DeleteUnlink,
                DeleteConfirm, At
  <2>2. CASE WindowsNext
    BY <2>2 DEF WindowsNext, WinInspect, WinAdmit, WindowsReplace, WinReplaceMatch, WinReplacePrepare,
                WinReplacePin, WinReplaceFile, WinReplaceObserve, WinReplaceRestore,
                WinReplaceObserveAgain, WinReplaceCompare, WinReplaceUnlink, WinReplaceRollBack,
                WinReplaceRolledBack, WindowsMoves, WinStart, WinRenameMatch, WinDeleteMatch,
                WinRenameObserve, WinDeleteObserve, WinDeleteUnlink, WinDeletePutBack, WinPin,
                WinMoveAway, WinRollBack, WinRolledBack, At
  <2>3. CASE PlainNext
    BY <2>3 DEF PlainNext, PlainDeleteMatch, PlainDelete, At, PlainReplaceLook, PlainReplace,
                PlainReplaceHalf, Is, PlainLink, PlainUnlink, PlainUndo, PlainMove, Replaces, Renames
  <2>4. CASE OpenNext
    BY <2>4 DEF OpenNext, ReadOpenFile, ReadMatch, CreateMatch, CreateFile, At
  <2>5. CASE SaveNext
    BY <2>5 DEF SaveNext, ReadOpen, ReadBind, ReadBytes, ReadUnstable, BeginEdit, CheckEditBase,
                TargetAbsent, ReadAt, Reading, ReadDone, ReadFails, SaveCreate, SaveBind, SaveWrite,
                SaveVerify, SaveRestat, SaveFlush, SaveCleanUp, SaveAt, Saves
  <2> QED BY <2>1, <2>2, <2>3, <2>4, <2>5 DEF CallNext
<1>2. Advances \/ UNCHANGED call
  BY CallAdvances, PlainAdvances, SaveAdvances DEF CallNext
<1>3. call'.op = call.op
  BY <1>2 DEF Advances, Return, Goto, GiveUp, Typed
<1> QED BY <1>1, <1>3

LEMMA ListNextKeeps ==
  ASSUME World, ListInv, [Next]_allVars
  PROVE  ListInv'
<1>1. CASE CallNext \/ SaveNext
  BY <1>1, OthersAreNoList DEF World, ListInv, ListIsASnapshot
<1>2. CASE (ForeignNext /\ UNCHANGED <<saveVars, walkVars>>) \/ UNCHANGED allVars
  <2>1. UNCHANGED <<call, tree, walk, views>>
    BY <1>2 DEF ForeignNext, ForeignSave, ForeignRemove, ForeignMode, ForeignLink, ForeignEdit,
                ForeignMoveParent, ForeignStep, allVars, walkVars, vars
  <2>2. Posix' = Posix /\ (ListIsASnapshot' <=> ListIsASnapshot)
    BY <2>1 DEF Posix, ListIsASnapshot, Whole, Bare
  <2> QED BY <2>1, <2>2 DEF ListInv
<1>3. CASE WalkNext \/ TreeNext
  BY <1>3, WalkKeeps, TreeNextKeeps
<1> QED BY <1>1, <1>2, <1>3 DEF Next, Over

LEMMA InitListInv ==
  ASSUME Init
  PROVE  ListInv
<1>1. /\ call.at # "done" /\ (call.op = "list" => call.at = "verify")
      /\ call \in [platform : {"posix", "windows"}, op : Ops, result : {"pending"},
                   at : {"inspect", "begin", "verify", "start"}]
  <2>1. PICK p \in {"posix", "windows"}, o \in Ops :
          call = [platform |-> p, op |-> o, result |-> "pending",
                  at |-> IF o \in Verified THEN "inspect"
                         ELSE IF o \in Saves THEN "begin"
                         ELSE IF o = "list" THEN "verify" ELSE "start"]
    BY DEF Init
  <2> QED BY <2>1 DEF Verified, Saves
<1>2. ListIsASnapshot
  BY <1>1 DEF ListIsASnapshot
<1> SUFFICES ASSUME call.op = "list"
             PROVE  Walking("verify", walk, tree, views, Posix)
  BY <1>1, <1>2 DEF ListInv
<1>3. PICK d \in Depths, most \in Limits : walk = [NoWalk EXCEPT !.depth = d, !.most = most]
  BY DEF Init, WalkInit
<1>4. d \in {0, 1} /\ most \in Nat
  BY WalkAssumption
<1>5. walk = [depth |-> d, most |-> most, round |-> 1, stack |-> <<>>, next |-> <<>>,
              found |-> {}, cut |-> FALSE, coarse |-> FALSE, todo |-> {}, marks |-> {},
              snaps |-> {}, generation |-> {}, items |-> {}, complete |-> FALSE]
  BY <1>3 DEF NoWalk
<1>6. walk \in Walks
  <2>1. <<>> \in Seq(Frames)
    OBVIOUS
  <2> QED BY <1>4, <1>5, <2>1 DEF Walks
<1>7. PICK ignore \in {Absent, "outer"} :
        tree = [route |-> "root", steps |-> 0, stamp |-> [x \in Things |-> 0],
                entries |-> [f \in Folders |->
                  CASE f = "root" -> [Empty EXCEPT !["a"] = "file", !["b"] = "sub"]
                    [] f = "sub" -> [Empty EXCEPT !["a"] = "inner", ![".gitignore"] = ignore]
                    [] f = "elsewhere" -> Empty]]
  <2>1. WalkInit
    BY DEF Init
  <2>2. (IF walk.depth = 0 THEN {Absent} ELSE {Absent, "outer"}) \subseteq {Absent, "outer"}
    OBVIOUS
  <2> QED BY <2>1, <2>2, Zenon DEF WalkInit
<1>8. /\ tree.route = "root" /\ tree.steps = 0 /\ tree.stamp = [x \in Things |-> 0]
      /\ DOMAIN tree = {"route", "steps", "stamp", "entries"}
      /\ tree.entries = [f \in Folders |->
                  CASE f = "root" -> [Empty EXCEPT !["a"] = "file", !["b"] = "sub"]
                    [] f = "sub" -> [Empty EXCEPT !["a"] = "inner", ![".gitignore"] = ignore]
                    [] f = "elsewhere" -> Empty]
  BY <1>7
<1>9. /\ tree.entries["root"] = Home /\ tree.entries["elsewhere"] = Empty
      /\ tree.entries["sub"] = [Empty EXCEPT !["a"] = "inner", ![".gitignore"] = ignore]
      /\ DOMAIN tree.entries = Folders
  BY <1>8 DEF Folders, Home
<1>10. /\ Home \in Contents /\ Empty \in Contents /\ tree.entries["sub"] \in Contents
       /\ \A n \in Slots : Home[n] \notin {"root", "elsewhere"} /\ tree.entries["sub"][n] \notin Folders
  BY <1>9 DEF Contents, Home, Empty, Slots, Things, Folders, Plain, Absent
<1>11. tree \in Trees
  <2>1. tree.entries \in [Folders -> Contents]
    <3>1. \A f \in Folders : tree.entries[f] \in Contents
      BY <1>9, <1>10 DEF Folders
    <3>2. tree.entries = [f \in Folders |-> tree.entries[f]]
      BY <1>8
    <3> QED BY <3>1, <3>2
  <2>2. tree = [route |-> tree.route, steps |-> tree.steps, stamp |-> tree.stamp, entries |-> tree.entries]
    BY <1>7
  <2>3. tree.stamp \in [Things -> Nat]
    BY <1>8
  <2>4. tree.route \in {"root", "elsewhere", Absent} /\ tree.steps \in Nat
    BY <1>8
  <2> QED BY <2>1, <2>2, <2>3, <2>4, Zenon DEF Trees
<1>12. Ordered(tree)
  BY <1>9, <1>10, <1>11 DEF Ordered
<1>13. Shown(tree, walk.depth) \in views
  BY DEF Init, WalkInit
<1>14. Shape("verify", walk) /\ FoundOK("verify", walk) /\ TodoOK("verify", walk)
  BY <1>5 DEF Shape, Resting, FoundOK, Whole, TodoOK, Height
<1>15. /\ FirstWalk("verify", walk, tree, views) /\ Between("verify", walk, tree, views)
       /\ SecondWalk("verify", walk, tree, views, Posix)
  BY <1>5 DEF FirstWalk, Between, SecondWalk, Height
<1> QED BY <1>6, <1>12, <1>13, <1>14, <1>15 DEF Walking

(* A list that answers ok shows what the path showed at one moment of the call,   *)
(* however long the walk, whatever its depth and limit and however many steps     *)
(* other programs take: execute_list (src/src/tools.lua) walks twice, and         *)
(* confirm_walk_generation answers when the second l_fs_walk_direct                *)
(* (src/native/yaca_native.c) has hashed the paths the first one has.             *)
THEOREM ListIsASnapshotHolds == Spec => []ListIsASnapshot
<1>1. Init => ListInv
  BY InitListInv
<1>2. (EInv /\ Waits) /\ ListInv /\ [Next]_allVars => ListInv'
  BY ListNextKeeps DEF EInv
<1>3. ListInv => ListIsASnapshot
  BY DEF ListInv
<1> QED BY <1>1, <1>2, <1>3, EntriesInv, PTL DEF Spec
===============================================================================
