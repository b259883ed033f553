---------------------------- MODULE ContextProofs ----------------------------
(***************************************************************************)
(* Proofs about ContextStore, for every set of processes and of paths and  *)
(* any number of documents, with and without an atomic replacement.  Where *)
(* the user renames or repairs, but not both, a Context has one official   *)
(* file and one writer, in every state that a crash or a power loss can    *)
(* leave.                                                                  *)
(***************************************************************************)
EXTENDS ContextStore, TLAPS, SequenceTheorems

-----------------------------------------------------------------------------
(* The inductive invariant.                                                *)

\* A file from which a process could become a writer.
Place(d, p) == d.xml[p] # None \/ ("repair" \in uses /\ d.prev[p] # None)

\* The paths that have one, whatever a power loss leaves.
Places == {p \in Paths : \E d \in disks : Place(d, p)}

Pcs == WriterPcs \cup {"out", "opening", "deleting", "deletingPrevious", "leaving"}

Dirs == [xml : [Paths -> Seq(Nat)], prev : [Paths -> Seq(Nat)], lock : [Paths -> BOOLEAN]]

Recs == [pc : Pcs, path : Paths \cup {"none"}, to : Paths \cup {"none"},
         base : Seq(Nat), doc : Seq(Nat), leases : SUBSET Paths]

MovePcs == {"moving", "hidden", "unhiding", "unhidden", "moved"}

\* Steps that write the official file again, or must find it where it was.
HomePcs == {"copying", "kept", "moving", "unhiding", "unhidden", "repairing"}

\* Steps at which the next document extends an earlier one.
BasedPcs == {"copying", "kept", "replaced"} \cup MovePcs

\* What the step of a process says of the places P and of the uses u.
Sound(r, P, u) ==
  /\ r.pc # "out" => r.path \in r.leases
  /\ r.pc \in WriterPcs => P \subseteq r.leases
  /\ r.pc \in HomePcs => P \subseteq {r.path}
  /\ r.pc = "hidden" \/ (r.pc = "active" /\ r.base = None) => P = {}
  /\ r.pc \in BasedPcs => r.base # None /\ r.doc # None
  /\ r.pc \in MovePcs => "rename" \in u /\ r.to \in r.leases /\ r.to # r.path

Types ==
  /\ facts \in Nat /\ dir \in disks /\ disks \subseteq Dirs
  /\ proc \in [Procs -> Recs]

\* Who has a lease has the lock file, and alone.
Held ==
  \A w \in Procs : \A p \in proc[w].leases :
    dir.lock[p] /\ \A v \in Procs \ {w} : p \notin proc[v].leases

IInv ==
  /\ Types /\ Held
  /\ ~ {"rename", "repair"} \subseteq uses
  /\ \A p, q \in Places : p = q
  /\ \A w \in Procs : Sound(proc[w], Places, uses)
  /\ \A v, w \in Procs : v # w => proc[v].pc \notin WriterPcs \/ proc[w].pc \notin WriterPcs
-----------------------------------------------------------------------------
(* Changes of the directory.                                               *)

LEMMA FileFacts ==
  /\ None \in Seq(Nat) /\ Torn \in Seq(Nat) /\ Torn # None
  /\ \A s \in Seq(Nat), n \in Nat : Append(s, n) \in Seq(Nat) /\ Append(s, n) # None
BY DEF None, Torn

LEMMA SetXmlIs ==
  ASSUME NEW d \in Dirs, NEW p \in Paths, NEW c \in Seq(Nat)
  PROVE  /\ SetXml(d, p, c) \in Dirs
         /\ SetXml(d, p, c).lock = d.lock /\ SetXml(d, p, c).prev = d.prev
         /\ SetXml(d, p, c).xml = [d.xml EXCEPT ![p] = c]
BY DEF SetXml, Dirs

LEMMA SetPrevIs ==
  ASSUME NEW d \in Dirs, NEW p \in Paths, NEW c \in Seq(Nat)
  PROVE  /\ SetPrev(d, p, c) \in Dirs
         /\ SetPrev(d, p, c).lock = d.lock /\ SetPrev(d, p, c).xml = d.xml
         /\ SetPrev(d, p, c).prev = [d.prev EXCEPT ![p] = c]
BY DEF SetPrev, Dirs

LEMMA LockIs ==
  ASSUME NEW d \in Dirs, NEW p \in Paths
  PROVE  /\ Lock(d, p) \in Dirs
         /\ Lock(d, p).xml = d.xml /\ Lock(d, p).prev = d.prev
         /\ Lock(d, p).lock = [d.lock EXCEPT ![p] = TRUE]
BY DEF Lock, Dirs

LEMMA UnlockIs ==
  ASSUME NEW d \in Dirs, NEW ps
  PROVE  /\ Unlock(d, ps) \in Dirs
         /\ Unlock(d, ps).xml = d.xml /\ Unlock(d, ps).prev = d.prev
         /\ Unlock(d, ps).lock = [p \in Paths |-> d.lock[p] /\ p \notin ps]
BY DEF Unlock, Dirs

(* Whatever becomes of a change, the paths stay among P if it stays there.  *)
LEMMA ChangeIs ==
  ASSUME Types, uses' = uses, NEW d \in Dirs, NEW q, NEW P,
         \/ Durable(d)
         \/ Places \subseteq P
              /\ (Changed(d) \/ Same \/ (Replaced(d, q) /\ q \in P \cap Paths)),
         \A p \in Paths : Place(d, p) => p \in P
  PROVE  dir' \in disks' /\ disks' \subseteq Dirs /\ dir' \in {dir, d} /\ Places' \subseteq P
<1>0. dir \in Dirs /\ dir \in disks /\ disks \subseteq Dirs
  BY DEF Types
<1>1. CASE Durable(d)
  BY <1>0, <1>1 DEF Durable, Places, Place
<1>2. CASE Places \subseteq P /\ (Changed(d) \/ Same)
  <2>1. dir' \in disks' /\ disks' \subseteq disks \cup {d} /\ dir' \in {dir, d}
    BY <1>0, <1>2 DEF Changed, Same
  <2>2. ASSUME NEW p \in Paths, NEW e \in disks', Place(e, p)'
        PROVE  p \in P
    BY <1>0, <1>2, <2>1, <2>2 DEF Places, Place
  <2> QED BY <1>0, <2>1, <2>2 DEF Places
<1>3. CASE Places \subseteq P /\ Replaced(d, q) /\ q \in P \cap Paths
  <2> DEFINE half == {SetXml(dir, q, None), SetXml(dir, q, Torn)}
  <2>1. dir' = d /\ d \in disks' /\ disks' \subseteq disks \cup {d} \cup half
    BY <1>3 DEF Replaced
  <2>2. half \subseteq Dirs /\ \A e \in half : \A p \in Paths \ {q} :
                                 e.xml[p] = dir.xml[p] /\ e.prev[p] = dir.prev[p]
    <3>1. ASSUME NEW c \in {None, Torn}
          PROVE  SetXml(dir, q, c) \in Dirs /\ \A p \in Paths \ {q} :
                    /\ SetXml(dir, q, c).xml[p] = dir.xml[p]
                    /\ SetXml(dir, q, c).prev[p] = dir.prev[p]
      <4>1. c \in Seq(Nat) /\ dir.xml \in [Paths -> Seq(Nat)]
        BY <1>0, FileFacts DEF Dirs
      <4>2. /\ SetXml(dir, q, c) \in Dirs /\ SetXml(dir, q, c).prev = dir.prev
            /\ SetXml(dir, q, c).xml = [dir.xml EXCEPT ![q] = c]
        BY <1>0, <1>3, <4>1, SetXmlIs
      <4> QED BY <4>1, <4>2
    <3> QED BY <3>1
  <2> HIDE DEF half
  <2>3. \A e \in half : \A p \in Paths : Place(e, p) => p \in Places \cup {q}
    BY <1>0, <2>2 DEF Places, Place
  <2>4. ASSUME NEW p \in Paths, NEW e \in disks', Place(e, p)'
        PROVE  p \in P
    BY <1>0, <1>3, <2>1, <2>3, <2>4 DEF Places, Place
  <2> QED BY <1>0, <2>1, <2>2, <2>4 DEF Places
<1> QED BY <1>1, <1>2, <1>3

-----------------------------------------------------------------------------
(* One process takes a step.                                               *)

LEMMA StepKeeps ==
  ASSUME IInv, NEW w \in Procs, NEW r \in Recs,
         proc' = [proc EXCEPT ![w] = r], facts' \in Nat, uses' = uses,
         dir' \in disks', disks' \subseteq Dirs,
         \A p \in r.leases : dir'.lock[p] /\ (p \in proc[w].leases \/ ~ dir.lock[p]),
         \A p \in Paths : dir.lock[p] /\ p \notin proc[w].leases => dir'.lock[p],
         \A p, q \in Places' : p = q,
         Sound(r, Places', uses),
         \A v \in Procs \ {w} :
           proc[v].pc \in WriterPcs => r.pc \notin WriterPcs /\ Places' \subseteq Places
  PROVE  IInv'
<1>0. proc \in [Procs -> Recs] /\ \A v \in Procs : proc[v].leases \subseteq Paths
  BY DEF IInv, Types, Recs
<1>1. proc' \in [Procs -> Recs] /\ proc'[w] = r /\ \A v \in Procs \ {w} : proc'[v] = proc[v]
  BY <1>0
<1>2. Types'
  BY <1>1 DEF Types
<1>3. Held'
  <2> SUFFICES ASSUME NEW v \in Procs, NEW p \in proc'[v].leases
               PROVE  dir'.lock[p] /\ \A u \in Procs \ {v} : p \notin proc'[u].leases
    BY DEF Held
  <2>1. CASE v = w
    BY <1>1, <2>1 DEF IInv, Held
  <2>2. CASE v # w
    BY <1>0, <1>1, <2>2 DEF IInv, Held
  <2> QED BY <2>1, <2>2
<1>4. ASSUME NEW v \in Procs
      PROVE  Sound(proc'[v], Places', uses)
  <2>1. CASE v = w
    BY <1>1, <2>1
  <2>2. CASE v # w
    <3>1. Sound(proc[v], Places, uses) /\ proc'[v] = proc[v]
      BY <1>1, <2>2 DEF IInv
    <3>2. CASE proc[v].pc \in WriterPcs
      <4>1. Places' \subseteq Places
        BY <2>2, <3>2
      <4> QED BY <3>1, <4>1 DEF Sound
    <3>3. CASE proc[v].pc \notin WriterPcs
      BY <3>1, <3>3 DEF Sound, WriterPcs, HomePcs, BasedPcs, MovePcs
    <3> QED BY <3>2, <3>3
  <2> QED BY <2>1, <2>2
<1>5. ASSUME NEW v \in Procs, NEW u \in Procs, v # u
      PROVE  proc'[v].pc \notin WriterPcs \/ proc'[u].pc \notin WriterPcs
  BY <1>1, <1>5 DEF IInv
<1> QED BY <1>2, <1>3, <1>4, <1>5 DEF IInv

(* A step that writes, but takes no lease.                                 *)
LEMMA WriteKeeps ==
  ASSUME IInv, NEW w \in Procs, NEW r \in Recs, NEW d \in Dirs, NEW q \in Paths, NEW P,
         proc' = [proc EXCEPT ![w] = r], facts' \in Nat, uses' = uses,
         r.leases \subseteq proc[w].leases,
         \/ Durable(d)
         \/ Places \subseteq P /\ (Changed(d) \/ Same \/ (Replaced(d, q) /\ q \in P)),
         d.lock = dir.lock, \A p \in Paths : Place(d, p) => p \in P,
         \A p, x \in P : p = x,
         \A Q \in SUBSET P : Sound(r, Q, uses),
         \/ proc[w].pc \in WriterPcs
         \/ r.pc \notin WriterPcs /\ P \subseteq Places
         \/ \A v \in Procs \ {w} : proc[v].pc \notin WriterPcs
  PROVE  IInv'
<1>1. dir' \in disks' /\ disks' \subseteq Dirs /\ dir' \in {dir, d} /\ Places' \subseteq P
  BY ChangeIs DEF IInv
<1>2. \A p \in r.leases : dir'.lock[p] /\ p \in proc[w].leases
  BY <1>1 DEF IInv, Held
<1>3. (\A p, x \in Places' : p = x) /\ Sound(r, Places', uses)
  BY <1>1
<1>4. \A v \in Procs \ {w} :
        proc[v].pc \in WriterPcs => r.pc \notin WriterPcs /\ Places' \subseteq Places
  BY <1>1 DEF IInv
<1> QED BY <1>1, <1>2, <1>3, <1>4, StepKeeps

LEMMA XmlPlaces ==
  ASSUME NEW d \in Dirs, NEW p \in Paths, NEW c \in Seq(Nat), NEW P, p \in P \/ c = None,
         d.lock = dir.lock, \A x \in Paths : Place(d, x) => x \in P
  PROVE  /\ SetXml(d, p, c) \in Dirs /\ SetXml(d, p, c).lock = dir.lock
         /\ \A x \in Paths : Place(SetXml(d, p, c), x) => x \in P
<1> DEFINE e == SetXml(d, p, c)
<1>1. /\ e \in Dirs /\ e.lock = d.lock /\ e.prev = d.prev
      /\ e.xml = [d.xml EXCEPT ![p] = c]
  BY SetXmlIs
<1>0. d.xml \in [Paths -> Seq(Nat)]
  BY DEF Dirs
<1> HIDE DEF e
<1>2. \A x \in Paths : Place(e, x) => x \in P
  BY <1>0, <1>1 DEF Place
<1> QED BY <1>1, <1>2 DEF e

LEMMA PrevPlaces ==
  ASSUME NEW d \in Dirs, NEW p \in Paths, NEW c \in Seq(Nat), NEW P,
         p \in P \/ c = None \/ "repair" \notin uses,
         d.lock = dir.lock, \A x \in Paths : Place(d, x) => x \in P
  PROVE  /\ SetPrev(d, p, c) \in Dirs /\ SetPrev(d, p, c).lock = dir.lock
         /\ \A x \in Paths : Place(SetPrev(d, p, c), x) => x \in P
<1> DEFINE e == SetPrev(d, p, c)
<1>1. /\ e \in Dirs /\ e.lock = d.lock /\ e.xml = d.xml
      /\ e.prev = [d.prev EXCEPT ![p] = c]
  BY SetPrevIs
<1>0. d.prev \in [Paths -> Seq(Nat)]
  BY DEF Dirs
<1> HIDE DEF e
<1>2. ASSUME NEW x \in Paths, Place(e, x)
      PROVE  x \in P
  <2>1. CASE x # p
    BY <1>0, <1>1, <1>2, <2>1 DEF Place
  <2>2. CASE x = p
    <3>1. e.xml[p] = d.xml[p] /\ e.prev[p] = c
      BY <1>0, <1>1
    <3> QED BY <1>2, <2>2, <3>1 DEF Place
  <2> QED BY <2>1, <2>2
<1> QED BY <1>1, <1>2 DEF e

LEMMA DirPlaces ==
  ASSUME IInv
  PROVE  dir \in Dirs /\ dir \in disks /\ \A x \in Paths : Place(dir, x) => x \in Places
BY DEF IInv, Types, Places

(* What the step of a process tells of it.                                 *)
LEMMA ProcIs ==
  ASSUME IInv, NEW w \in Procs, ~ At(w, "out")
  PROVE  /\ proc[w] \in Recs /\ proc[w].path \in proc[w].leases /\ proc[w].path \in Paths
         /\ proc[w].base \in Seq(Nat) /\ proc[w].doc \in Seq(Nat)
         /\ Sound(proc[w], Places, uses)
BY DEF IInv, Types, Recs, Sound, At

LEMMA GotoIs ==
  ASSUME IInv, NEW w \in Procs, NEW pc \in Pcs, Goto(w, pc)
  PROVE  \E r \in Recs :
           /\ r = [proc[w] EXCEPT !.pc = pc] /\ proc' = [proc EXCEPT ![w] = r]
           /\ r.pc = pc /\ r.path = proc[w].path /\ r.to = proc[w].to
           /\ r.base = proc[w].base /\ r.doc = proc[w].doc /\ r.leases = proc[w].leases
<1>1. proc \in [Procs -> Recs] /\ proc[w] \in Recs
  BY DEF IInv, Types
<1> DEFINE r == [proc[w] EXCEPT !.pc = pc]
<1>2. r \in Recs /\ proc' = [proc EXCEPT ![w] = r]
  BY <1>1 DEF Goto, Recs
<1>3. /\ r.pc = pc /\ r.path = proc[w].path /\ r.to = proc[w].to
      /\ r.base = proc[w].base /\ r.doc = proc[w].doc /\ r.leases = proc[w].leases
  BY <1>1 DEF Recs
<1> QED BY <1>2, <1>3

(* A step that leaves the paths with a file among those there were.        *)
LEMMA ShrinkKeeps ==
  ASSUME IInv, NEW w \in Procs, NEW r \in Recs, NEW d \in Dirs,
         proc' = [proc EXCEPT ![w] = r], facts' \in Nat, uses' = uses,
         r.leases = proc[w].leases,
         Durable(d) \/ Changed(d) \/ Same,
         d.lock = dir.lock, \A p \in Paths : Place(d, p) => p \in Places,
         \A Q \in SUBSET Places : Sound(r, Q, uses),
         \/ proc[w].pc \in WriterPcs
         \/ r.pc \notin WriterPcs
         \/ \A v \in Procs \ {w} : proc[v].pc \notin WriterPcs,
         ~ At(w, "out")
  PROVE  IInv'
<1>1. proc[w].path \in Paths
  BY ProcIs
<1>2. \A p, x \in Places : p = x
  BY DEF IInv
<1> QED BY <1>1, <1>2, WriteKeeps

(* A step that writes where its process is, and no file is elsewhere.      *)
LEMMA HomeKeeps ==
  ASSUME IInv, NEW w \in Procs, NEW r \in Recs, NEW d \in Dirs,
         proc' = [proc EXCEPT ![w] = r], facts' \in Nat, uses' = uses,
         r.leases = proc[w].leases,
         Durable(d) \/ Changed(d) \/ Same \/ Replaced(d, proc[w].path),
         d.lock = dir.lock, \A p \in Paths : Place(d, p) => p \in {proc[w].path},
         Places \subseteq {proc[w].path},
         \A Q \in SUBSET {proc[w].path} : Sound(r, Q, uses),
         proc[w].pc \in WriterPcs,
         ~ At(w, "out")
  PROVE  IInv'
<1> DEFINE P == {proc[w].path}
<1>1. proc[w].path \in Paths /\ proc[w].path \in P
  BY ProcIs
<1>2. /\ \A p \in Paths : Place(d, p) => p \in P
      /\ \A p, x \in P : p = x
      /\ \A Q \in SUBSET P : Sound(r, Q, uses)
      /\ Places \subseteq P
  OBVIOUS
<1> HIDE DEF P
<1> QED BY <1>1, <1>2, WriteKeeps

-----------------------------------------------------------------------------
(* publish                                                                 *)

LEMMA PublishFirstKeeps ==
  ASSUME IInv, NEW w \in Procs, PublishFirst(w), uses' = uses
  PROVE  IInv'
<1> DEFINE p == proc[w].path
           doc == Append(None, facts + 1)
           d == SetXml(dir, p, doc)
<1>1. At(w, "active") /\ proc[w].base = None /\ facts' = facts + 1
  BY DEF PublishFirst, MayWrite
<1>2. /\ proc[w] \in Recs /\ p \in proc[w].leases /\ p \in Paths /\ Places = {}
      /\ ~ At(w, "out") /\ proc[w].pc \in WriterPcs
  BY <1>1, ProcIs DEF Sound, At, WriterPcs
<1>3. doc \in Seq(Nat) /\ doc # None /\ facts' \in Nat
  BY <1>1, FileFacts DEF IInv, Types
<1>4. PICK r \in Recs :
        /\ proc' = [proc EXCEPT ![w] = r] /\ r.path = p /\ r.leases = proc[w].leases
        /\ (r.pc = "active" /\ r.base = doc) \/ r.pc = "faulted"
  <2>1. CASE Step(w, [proc[w] EXCEPT !.base = doc])
    <3>1. [proc[w] EXCEPT !.base = doc] \in Recs
      BY <1>2, <1>3 DEF Recs
    <3> QED BY <1>1, <1>2, <2>1, <3>1 DEF Step, Recs, At
  <2>2. CASE Goto(w, "faulted")
    BY <2>2, GotoIs DEF Pcs, WriterPcs
  <2> QED BY <2>1, <2>2 DEF PublishFirst, Fault, Next1
<1>5. Durable(d) \/ Changed(d)
  BY DEF PublishFirst, Next1
<1>6. d \in Dirs /\ d.lock = dir.lock /\ \A x \in Paths : Place(d, x) => x \in {p}
  <2>1. \A x \in Paths : Place(dir, x) => x \in {p}
    BY <1>2, DirPlaces
  <2> QED BY <1>2, <1>3, <2>1, DirPlaces, XmlPlaces
<1>7. \A Q \in SUBSET {p} : Sound(r, Q, uses)
  BY <1>2, <1>3, <1>4 DEF Sound, WriterPcs, HomePcs, BasedPcs, MovePcs
<1> HIDE DEF d, doc
<1> QED BY <1>2, <1>3, <1>4, <1>5, <1>6, <1>7, HomeKeeps

LEMMA KeepPreviousKeeps ==
  ASSUME IInv, NEW w \in Procs, KeepPrevious(w), uses' = uses
  PROVE  IInv'
<1> DEFINE p == proc[w].path
           doc == Append(proc[w].base, facts + 1)
           d == SetPrev(dir, p, Torn)
           r == [proc[w] EXCEPT !.pc = "copying", !.doc = doc]
<1>1. /\ At(w, "active") /\ proc[w].base # None /\ facts' = facts + 1
      /\ dir.xml[p] = proc[w].base
      /\ Changed(d) /\ proc' = [proc EXCEPT ![w] = r]
  BY DEF KeepPrevious, MayWrite, Next1, Step
<1>2. /\ proc[w] \in Recs /\ p \in proc[w].leases /\ p \in Paths /\ proc[w].base \in Seq(Nat)
      /\ ~ At(w, "out") /\ proc[w].pc \in WriterPcs
  BY <1>1, ProcIs DEF At, WriterPcs
<1>3. p \in Places /\ Places \subseteq {p}
  <2>1. Place(dir, p)
    BY <1>1 DEF Place
  <2> QED BY <1>2, <2>1, DirPlaces DEF IInv
<1>4. doc \in Seq(Nat) /\ doc # None /\ facts' \in Nat
  <2>1. facts \in Nat /\ facts + 1 \in Nat
    BY DEF IInv, Types
  <2> QED BY <1>1, <1>2, <2>1, FileFacts
<1>5. /\ r \in Recs /\ r.path = p /\ r.leases = proc[w].leases /\ r.pc = "copying"
      /\ r.base = proc[w].base /\ r.doc = doc
  BY <1>2, <1>4 DEF Recs, Pcs, WriterPcs
<1>6. d \in Dirs /\ d.lock = dir.lock /\ \A x \in Paths : Place(d, x) => x \in {p}
  <2>1. \A x \in Paths : Place(dir, x) => x \in {p}
    BY <1>3, DirPlaces
  <2> QED BY <1>2, <2>1, DirPlaces, PrevPlaces, FileFacts
<1> HIDE DEF d, doc, r
<1>7. \A Q \in SUBSET {p} : Sound(r, Q, uses)
  BY <1>1, <1>2, <1>4, <1>5 DEF Sound, WriterPcs, HomePcs, BasedPcs, MovePcs
<1> QED BY <1>1, <1>2, <1>3, <1>4, <1>5, <1>6, <1>7, HomeKeeps

LEMMA PublishStepKeeps ==
  ASSUME IInv, NEW w \in Procs, uses' = uses,
         CopyPrevious(w) \/ Replace(w) \/ PublishFails(w)
  PROVE  IInv'
<1> DEFINE p == proc[w].path
           d == IF Replace(w) THEN SetXml(dir, p, proc[w].doc)
                ELSE IF CopyPrevious(w) THEN SetPrev(dir, p, proc[w].base)
                ELSE SetPrev(dir, p, None)
<1>1. proc[w].pc \in {"copying", "kept"} /\ facts' = facts /\ facts \in Nat
  BY DEF CopyPrevious, Replace, MayReplace, PublishFails, At, NoDocument, IInv, Types
<1>2. PICK pc \in {"kept", "replaced", "faulted", "active"} : Goto(w, pc)
  BY DEF CopyPrevious, Replace, PublishFails
<1>3. /\ proc[w] \in Recs /\ p \in proc[w].leases /\ p \in Paths /\ Places \subseteq {p}
      /\ proc[w].base \in Seq(Nat) /\ proc[w].doc \in Seq(Nat)
      /\ proc[w].base # None /\ proc[w].doc # None
      /\ ~ At(w, "out") /\ proc[w].pc \in WriterPcs
  BY <1>1, ProcIs DEF Sound, At, WriterPcs, HomePcs, BasedPcs
<1>4. PICK r \in Recs : /\ proc' = [proc EXCEPT ![w] = r] /\ r.pc = pc /\ r.path = p
                        /\ r.base = proc[w].base /\ r.doc = proc[w].doc
                        /\ r.leases = proc[w].leases
  BY <1>2, GotoIs DEF Pcs, WriterPcs
<1>5. Durable(d) \/ Changed(d) \/ Same \/ Replaced(d, p)
  BY DEF CopyPrevious, Replace, PublishFails
<1>6. d \in Dirs /\ d.lock = dir.lock /\ \A x \in Paths : Place(d, x) => x \in {p}
  <2>1. dir \in Dirs /\ \A x \in Paths : Place(dir, x) => x \in {p}
    BY <1>3, DirPlaces
  <2> DEFINE Good(e) == e \in Dirs /\ e.lock = dir.lock /\ \A x \in Paths : Place(e, x) => x \in {p}
  <2>2. Good(SetXml(dir, p, proc[w].doc))
    BY <1>3, <2>1, XmlPlaces
  <2>3. Good(SetPrev(dir, p, proc[w].base)) /\ Good(SetPrev(dir, p, None))
    BY <1>3, <2>1, PrevPlaces, FileFacts
  <2> HIDE DEF Good
  <2>4. Good(d)
    BY <2>2, <2>3
  <2> QED BY <2>4 DEF Good
<1> HIDE DEF d
<1>7. \A Q \in SUBSET {p} : Sound(r, Q, uses)
  BY <1>1, <1>2, <1>3, <1>4 DEF Sound, WriterPcs, HomePcs, BasedPcs, MovePcs
<1> QED BY <1>1, <1>3, <1>4, <1>5, <1>6, <1>7, HomeKeeps

(* The steps that only remove: the previous file at the end of publish, of  *)
(* move and of apply_repair, and both files in delete.                      *)
LEMMA CleanKeeps ==
  ASSUME IInv, NEW w \in Procs, uses' = uses,
         CleanPrevious(w) \/ MoveClean(w) \/ RepairClean(w) \/ DeleteOfficial(w)
           \/ DeletePrevious(w)
  PROVE  IInv'
<1> DEFINE p == proc[w].path
           d == IF DeleteOfficial(w) THEN SetXml(dir, p, None) ELSE SetPrev(dir, p, None)
<1>1. proc[w].pc \in {"replaced", "moved", "repaired", "deleting", "deletingPrevious"}
      /\ facts' = facts /\ facts \in Nat
  BY DEF CleanPrevious, MoveClean, RepairClean, DeleteOfficial, DeletePrevious, At, NoDocument,
         IInv, Types
<1>2. /\ proc[w] \in Recs /\ p \in proc[w].leases /\ p \in Paths
      /\ Sound(proc[w], Places, uses) /\ ~ At(w, "out")
      /\ proc[w].pc \in MovePcs => proc[w].to \in proc[w].leases
  BY <1>1, ProcIs DEF At, Sound
<1>3. PICK r \in Recs :
        /\ proc' = [proc EXCEPT ![w] = r] /\ r.leases = proc[w].leases /\ r.path \in r.leases
        /\ \/ r.pc = "active" /\ r.base = proc[w].doc /\ proc[w].pc \in BasedPcs
           \/ r.pc \in {"finished", "faulted"} /\ proc[w].pc \in WriterPcs
           \/ r.pc \in {"deletingPrevious", "leaving"}
  <2>1. CASE CleanPrevious(w) /\ Receipt(w, Rebased(proc[w]))
    <3> DEFINE r == [proc[w] EXCEPT !.pc = "active", !.base = proc[w].doc]
    <3>1. /\ proc' = [proc EXCEPT ![w] = r] /\ proc[w].pc \in BasedPcs
      BY <2>1 DEF Receipt, Rebased, Step, CleanPrevious, At, BasedPcs
    <3>2. /\ r \in Recs /\ r.pc = "active" /\ r.base = proc[w].doc
          /\ r.leases = proc[w].leases /\ r.path = p
      BY <1>2 DEF Recs, Pcs, WriterPcs
    <3> QED BY <1>2, <3>1, <3>2
  <2>2. CASE MoveClean(w) /\ ~ Fault(w)
    <3> DEFINE r == [[[proc[w] EXCEPT !.pc = "active", !.base = proc[w].doc]
                       EXCEPT !.path = proc[w].to] EXCEPT !.to = "none"]
    <3>1. /\ proc' = [proc EXCEPT ![w] = r] /\ proc[w].pc \in BasedPcs \cap MovePcs
      BY <2>2 DEF Receipt, Rebased, Step, MoveClean, At, BasedPcs, MovePcs
    <3>2. /\ r \in Recs /\ r.pc = "active" /\ r.base = proc[w].doc
          /\ r.leases = proc[w].leases /\ r.path = proc[w].to
      BY <1>2 DEF Recs, Pcs, WriterPcs
    <3> QED BY <1>2, <3>1, <3>2
  <2>3. CASE RepairClean(w) /\ ~ Goto(w, "leaving")
    <3> DEFINE r == [proc[w] EXCEPT !.pc = "finished", !.base = proc[w].doc]
    <3>1. /\ proc' = [proc EXCEPT ![w] = r] /\ proc[w].pc \in WriterPcs
      BY <2>3 DEF Receipt, Step, RepairClean, At, WriterPcs
    <3>2. /\ r \in Recs /\ r.pc = "finished" /\ r.leases = proc[w].leases /\ r.path = p
      BY <1>2 DEF Recs, Pcs, WriterPcs
    <3> QED BY <1>2, <3>1, <3>2
  <2>4. CASE (CleanPrevious(w) \/ MoveClean(w)) /\ Fault(w)
    <3>1. Goto(w, "faulted") /\ proc[w].pc \in WriterPcs
      BY <2>4 DEF Fault, CleanPrevious, MoveClean, At, WriterPcs
    <3> QED BY <1>2, <3>1, GotoIs DEF Pcs, WriterPcs
  <2>5. CASE Goto(w, "leaving") \/ Goto(w, "deletingPrevious")
    BY <1>2, <2>5, GotoIs DEF Pcs
  <2> QED BY <2>1, <2>2, <2>3, <2>4, <2>5
          DEF CleanPrevious, MoveClean, RepairClean, DeleteOfficial, DeletePrevious
<1>4. Durable(d) \/ Changed(d) \/ Same
  BY DEF CleanPrevious, MoveClean, RepairClean, DeleteOfficial, DeletePrevious
<1>5. d \in Dirs /\ d.lock = dir.lock /\ \A x \in Paths : Place(d, x) => x \in Places
  <2> DEFINE Good(e) == e \in Dirs /\ e.lock = dir.lock /\ \A x \in Paths : Place(e, x) => x \in Places
  <2>1. Good(SetXml(dir, p, None)) /\ Good(SetPrev(dir, p, None))
    BY <1>2, DirPlaces, XmlPlaces, PrevPlaces, FileFacts
  <2> HIDE DEF Good
  <2>2. Good(d)
    BY <2>1
  <2> QED BY <2>2 DEF Good
<1> HIDE DEF d
<1>6. \A Q \in SUBSET Places : Sound(r, Q, uses)
  BY <1>1, <1>2, <1>3 DEF Sound, WriterPcs, HomePcs, BasedPcs, MovePcs
<1>7. proc[w].pc \in WriterPcs \/ r.pc \notin WriterPcs
  BY <1>1, <1>3 DEF WriterPcs, BasedPcs, MovePcs
<1> QED BY <1>1, <1>2, <1>3, <1>4, <1>5, <1>6, <1>7, ShrinkKeeps

-----------------------------------------------------------------------------
(* move                                                                    *)

LEMMA MoveStepKeeps ==
  ASSUME IInv, NEW w \in Procs, uses' = uses,
         Hide(w) \/ MovePublish(w) \/ Unhide(w)
  PROVE  IInv'
<1> DEFINE p == proc[w].path
           to == proc[w].to
<1>1. proc[w].pc \in MovePcs /\ facts' = facts /\ facts \in Nat
  BY DEF Hide, MovePublish, Unhide, At, NoDocument, IInv, Types, MovePcs
<1>2. /\ proc[w] \in Recs /\ p \in proc[w].leases /\ p \in Paths /\ to \in proc[w].leases
      /\ to \in Paths /\ to # p /\ proc[w].leases \subseteq Paths
      /\ proc[w].base \in Seq(Nat) /\ proc[w].doc \in Seq(Nat)
      /\ proc[w].base # None /\ proc[w].doc # None
      /\ "rename" \in uses /\ "repair" \notin uses
      /\ proc[w].pc \in {"moving", "unhiding", "unhidden"} => Places \subseteq {p}
      /\ proc[w].pc = "hidden" => Places = {}
      /\ ~ At(w, "out") /\ proc[w].pc \in WriterPcs
  <2>1. proc[w] \in Recs /\ Sound(proc[w], Places, uses) /\ ~ At(w, "out")
    BY <1>1, ProcIs DEF At, MovePcs
  <2>2. proc[w].leases \subseteq Paths /\ proc[w].base \in Seq(Nat) /\ proc[w].doc \in Seq(Nat)
    BY <2>1 DEF Recs
  <2> QED BY <1>1, <2>1, <2>2 DEF IInv, Sound, MovePcs, WriterPcs, HomePcs, BasedPcs
<1>3. dir \in Dirs /\ dir.xml \in [Paths -> Seq(Nat)] /\ \A x \in Paths : Place(dir, x) => x \in Places
  BY DirPlaces DEF Dirs
<1>4. ASSUME NEW pc \in {"hidden", "unhiding", "moved", "faulted", "unhidden"}, Goto(w, pc)
      PROVE  \E r \in Recs : /\ proc' = [proc EXCEPT ![w] = r] /\ r.pc = pc /\ r.path = p
                             /\ r.to = to /\ r.base = proc[w].base /\ r.doc = proc[w].doc
                             /\ r.leases = proc[w].leases
  BY <1>4, GotoIs DEF Pcs, WriterPcs
<1>5. CASE Hide(w)
  <2> DEFINE d == Hidden(p)
             e == SetXml(dir, p, None)
  <2>1. At(w, "moving") /\ Places \subseteq {p}
    BY <1>2, <1>5 DEF Hide, At
  <2> DEFINE P == {}
  <2>0. (\A x, y \in P : x = y) /\ \A x : x \notin P
    OBVIOUS
  <2> HIDE DEF P
  <2>2. e \in Dirs /\ e.lock = dir.lock /\ \A x \in Paths : Place(e, x) => x \in P
    <3>1. e \in Dirs /\ e.lock = dir.lock /\ e.xml = [dir.xml EXCEPT ![p] = None]
      BY <1>2, <1>3, FileFacts, SetXmlIs
    <3>2. \A x \in Paths : e.xml[x] = None
      BY <1>3, <2>1, <3>1 DEF Place
    <3> QED BY <1>2, <3>1, <3>2 DEF Place
  <2>3. d \in Dirs /\ d.lock = dir.lock /\ \A x \in Paths : Place(d, x) => x \in P
    <3>1. d = SetPrev(e, p, dir.xml[p]) /\ dir.xml[p] \in Seq(Nat)
      BY <1>2, <1>3 DEF Hidden
    <3> HIDE DEF e, d
    <3> QED BY <1>2, <2>2, <3>1, PrevPlaces
  <2> HIDE DEF e, d
  <2>4. CASE Durable(d) /\ Goto(w, "hidden")
    <3>1. PICK r \in Recs : /\ proc' = [proc EXCEPT ![w] = r] /\ r.pc = "hidden" /\ r.path = p
                            /\ r.to = to /\ r.base = proc[w].base /\ r.doc = proc[w].doc
                            /\ r.leases = proc[w].leases
      BY <1>4, <2>4
    <3>2. \A Q \in SUBSET P : Sound(r, Q, uses)
      BY <1>2, <2>0, <3>1 DEF Sound, WriterPcs, HomePcs, BasedPcs, MovePcs
    <3>3. proc[w].pc \in WriterPcs /\ facts' \in Nat /\ p \in Paths
      BY <1>1, <1>2
    <3> QED BY <2>0, <2>3, <2>4, <3>1, <3>2, <3>3, WriteKeeps
  <2>5. CASE Changed(d) /\ Goto(w, "unhiding")
    <3>1. PICK r \in Recs : /\ proc' = [proc EXCEPT ![w] = r] /\ r.pc = "unhiding" /\ r.path = p
                            /\ r.to = to /\ r.base = proc[w].base /\ r.doc = proc[w].doc
                            /\ r.leases = proc[w].leases
      BY <1>4, <2>5
    <3>2. \A Q \in SUBSET {p} : Sound(r, Q, uses)
      BY <1>2, <3>1 DEF Sound, WriterPcs, HomePcs, BasedPcs, MovePcs
    <3>3. proc[w].pc \in WriterPcs /\ facts' \in Nat /\ ~ At(w, "out")
      BY <1>1, <1>2
    <3>4. d \in Dirs /\ d.lock = dir.lock /\ \A x \in Paths : Place(d, x) => x \in {p}
      BY <2>0, <2>3
    <3>5. Changed(d) /\ Places \subseteq {p}
      BY <2>1, <2>5
    <3> QED BY <3>1, <3>2, <3>3, <3>4, <3>5, HomeKeeps
  <2> QED BY <1>5, <2>4, <2>5 DEF Hide, d
<1>6. CASE MovePublish(w)
  <2> DEFINE d == SetXml(dir, to, proc[w].doc)
             P == {to}
  <2>1. Places = {} /\ Places \subseteq P /\ to \in P /\ \A x, y \in P : x = y
    BY <1>2, <1>6 DEF MovePublish, At
  <2>2. PICK pc \in {"moved", "faulted"} : Goto(w, pc) /\ (Durable(d) \/ Changed(d))
    BY <1>6 DEF MovePublish
  <2>3. PICK r \in Recs : /\ proc' = [proc EXCEPT ![w] = r] /\ r.pc = pc /\ r.path = p
                          /\ r.to = to /\ r.base = proc[w].base /\ r.doc = proc[w].doc
                          /\ r.leases = proc[w].leases
    BY <1>4, <2>2
  <2>4. \A Q \in SUBSET P : Sound(r, Q, uses)
    BY <1>2, <2>2, <2>3 DEF Sound, WriterPcs, HomePcs, BasedPcs, MovePcs
  <2> HIDE DEF P
  <2>5. d \in Dirs /\ d.lock = dir.lock /\ \A x \in Paths : Place(d, x) => x \in P
    BY <1>2, <1>3, <2>1, XmlPlaces
  <2> HIDE DEF d
  <2>6. proc[w].pc \in WriterPcs /\ facts' \in Nat /\ to \in Paths
    BY <1>1, <1>2
  <2> QED BY <2>1, <2>2, <2>3, <2>4, <2>5, <2>6, WriteKeeps
<1>7. CASE Unhide(w)
  <2> DEFINE e == SetPrev(dir, p, None)
             d == SetXml(e, p, proc[w].base)
  <2>1. Places \subseteq {p}
    BY <1>2, <1>7 DEF Unhide, At
  <2>2. PICK pc \in {"unhidden", "faulted"} : Goto(w, pc) /\ (Durable(d) \/ Changed(d) \/ Same)
    BY <1>7 DEF Unhide
  <2>3. PICK r \in Recs : /\ proc' = [proc EXCEPT ![w] = r] /\ r.pc = pc /\ r.path = p
                          /\ r.to = to /\ r.base = proc[w].base /\ r.doc = proc[w].doc
                          /\ r.leases = proc[w].leases
    BY <1>4, <2>2
  <2>4. \A Q \in SUBSET {p} : Sound(r, Q, uses)
    BY <1>2, <2>2, <2>3 DEF Sound, WriterPcs, HomePcs, BasedPcs, MovePcs
  <2>5. e \in Dirs /\ e.lock = dir.lock /\ \A x \in Paths : Place(e, x) => x \in {p}
    BY <1>2, <1>3, <2>1, PrevPlaces, FileFacts
  <2> HIDE DEF e
  <2>6. d \in Dirs /\ d.lock = dir.lock /\ \A x \in Paths : Place(d, x) => x \in {p}
    BY <1>2, <2>5, XmlPlaces
  <2> HIDE DEF d
  <2> QED BY <1>1, <1>2, <2>1, <2>2, <2>3, <2>4, <2>6, HomeKeeps
<1> QED BY <1>5, <1>6, <1>7

-----------------------------------------------------------------------------
(* acquire, recover_previous and apply_repair                              *)

LEMMA OutIs == Out \in Recs /\ \A P, u : Sound(Out, P, u)
BY FileFacts DEF Out, Recs, Pcs, Sound, WriterPcs, HomePcs, BasedPcs, MovePcs, None

(* Who has a lease where a file is, or could have it, knows no writer.     *)
LEMMA NoOtherWriter ==
  ASSUME IInv, NEW w \in Procs, NEW p \in Places, p \in proc[w].leases \/ ~ dir.lock[p]
  PROVE  \A v \in Procs \ {w} : proc[v].pc \notin WriterPcs
BY DEF IInv, Sound, Held

LEMMA OpenValidKeeps ==
  ASSUME IInv, NEW w \in Procs, OpenValid(w), uses' = uses
  PROVE  IInv'
<1> DEFINE p == proc[w].path
           d == SetPrev(dir, p, None)
           active == [proc[w] EXCEPT !.pc = "active", !.base = dir.xml[p]]
<1>1. At(w, "opening") /\ dir.xml[p] # None /\ facts' = facts /\ facts \in Nat
  BY DEF OpenValid, IsDoc, NoDocument, IInv, Types
<1>2. /\ proc[w] \in Recs /\ p \in proc[w].leases /\ p \in Paths /\ ~ At(w, "out")
      /\ dir.xml[p] \in Seq(Nat)
  <2>1. proc[w] \in Recs /\ p \in proc[w].leases /\ p \in Paths /\ ~ At(w, "out")
    BY <1>1, ProcIs DEF At
  <2> QED BY <2>1, DirPlaces DEF Dirs
<1>3. p \in Places /\ \A x \in Places : x = p
  <2>1. Place(dir, p)
    BY <1>1 DEF Place
  <2> QED BY <1>2, <2>1, DirPlaces DEF IInv
<1>4. \A v \in Procs \ {w} : proc[v].pc \notin WriterPcs
  BY <1>2, <1>3, NoOtherWriter
<1>5. PICK r \in Recs :
        /\ proc' = [proc EXCEPT ![w] = r] /\ r.leases = proc[w].leases /\ r.path = p
        /\ (r.pc = "active" /\ r.base = dir.xml[p]) \/ r.pc = "leaving"
  <2>1. CASE Step(w, active)
    <3>1. /\ active \in Recs /\ active.pc = "active" /\ active.base = dir.xml[p]
          /\ active.leases = proc[w].leases /\ active.path = p
      BY <1>2 DEF Recs, Pcs, WriterPcs
    <3> QED BY <2>1, <3>1 DEF Step
  <2>2. CASE Goto(w, "leaving")
    BY <2>2, GotoIs DEF Pcs
  <2> QED BY <2>1, <2>2 DEF OpenValid
<1>6. Durable(d) \/ Changed(d) \/ Same
  BY DEF OpenValid
<1>7. d \in Dirs /\ d.lock = dir.lock /\ \A x \in Paths : Place(d, x) => x \in Places
  BY <1>2, DirPlaces, PrevPlaces, FileFacts
<1> HIDE DEF d, active
<1>8. \A Q \in SUBSET Places : Sound(r, Q, uses)
  BY <1>1, <1>2, <1>3, <1>5 DEF Sound, WriterPcs, HomePcs, BasedPcs, MovePcs
<1>9. facts' \in Nat /\ ~ At(w, "out")
  BY <1>1, <1>2
<1> QED BY <1>4, <1>5, <1>6, <1>7, <1>8, <1>9, ShrinkKeeps

LEMMA RecoverKeeps ==
  ASSUME IInv, NEW w \in Procs, Recover(w) \/ OpenRefused(w), uses' = uses
  PROVE  IInv'
<1> DEFINE p == proc[w].path
           P == Places
<1>1. At(w, "opening") /\ facts' = facts /\ facts \in Nat
  BY DEF Recover, OpenRefused, NoDocument, IInv, Types
<1>2. /\ proc[w] \in Recs /\ p \in proc[w].leases /\ p \in Paths /\ ~ At(w, "out")
      /\ dir \in Dirs /\ dir.prev[p] \in Seq(Nat)
  <2>1. proc[w] \in Recs /\ p \in proc[w].leases /\ p \in Paths /\ ~ At(w, "out")
    BY <1>1, ProcIs DEF At
  <2> QED BY <2>1, DirPlaces DEF Dirs
<1>3. PICK r \in Recs : /\ proc' = [proc EXCEPT ![w] = r] /\ r.leases \subseteq proc[w].leases
                        /\ r.pc \notin WriterPcs /\ \A Q : Sound(r, Q, uses)
  <2>1. CASE Step(w, Out)
    BY <2>1, OutIs DEF Step, Out, WriterPcs
  <2>2. CASE Goto(w, "leaving")
    <3>1. PICK r \in Recs : /\ proc' = [proc EXCEPT ![w] = r] /\ r.pc = "leaving"
                            /\ r.path = p /\ r.leases = proc[w].leases
      BY <2>2, GotoIs DEF Pcs
    <3>2. r.pc \notin WriterPcs /\ \A Q : Sound(r, Q, uses)
      BY <1>2, <3>1 DEF Sound, WriterPcs, HomePcs, BasedPcs, MovePcs
    <3> QED BY <3>1, <3>2
  <2> QED BY <2>1, <2>2 DEF Recover, OpenRefused
<1>4. P \subseteq Places /\ Places \subseteq P /\ (\A x, y \in P : x = y)
      /\ \A x \in Paths : Place(dir, x) => x \in P
  BY DirPlaces DEF IInv
<1> HIDE DEF P
<1>5. CASE Recover(w)
  <2> DEFINE e == SetXml(dir, p, dir.prev[p])
             d == SetPrev(e, p, None)
  <2>1. p \in P
    BY <1>2, <1>4, <1>5, FileFacts DEF Recover, Place
  <2>2. e \in Dirs /\ e.lock = dir.lock /\ \A x \in Paths : Place(e, x) => x \in P
    BY <1>2, <1>4, <2>1, XmlPlaces
  <2> HIDE DEF e
  <2>3. d \in Dirs /\ d.lock = dir.lock /\ \A x \in Paths : Place(d, x) => x \in P
    BY <1>2, <2>2, PrevPlaces, FileFacts
  <2>4. Durable(d) \/ Replaced(d, p) \/ Same
    BY <1>5 DEF Recover, e
  <2> HIDE DEF d
  <2>5. facts' \in Nat /\ p \in Paths
    BY <1>1, <1>2
  <2> QED BY <1>3, <1>4, <2>1, <2>3, <2>4, <2>5, WriteKeeps
<1>6. CASE OpenRefused(w)
  <2>1. Same /\ facts' \in Nat /\ p \in Paths
    BY <1>1, <1>2, <1>6 DEF OpenRefused
  <2> DEFINE d == dir
  <2>2. d \in Dirs /\ d.lock = dir.lock /\ \A x \in Paths : Place(d, x) => x \in P
    BY <1>2, <1>4
  <2> HIDE DEF d
  <2> QED BY <1>3, <1>4, <2>1, <2>2, WriteKeeps
<1> QED BY <1>5, <1>6

LEMMA RepairPublishKeeps ==
  ASSUME IInv, NEW w \in Procs, RepairPublish(w), uses' = uses
  PROVE  IInv'
<1> DEFINE p == proc[w].path
           d == SetXml(dir, p, proc[w].doc)
<1>1. At(w, "repairing") /\ facts' = facts /\ facts \in Nat
  BY DEF RepairPublish, NoDocument, IInv, Types
<1>2. /\ proc[w] \in Recs /\ p \in proc[w].leases /\ p \in Paths /\ ~ At(w, "out")
      /\ proc[w].doc \in Seq(Nat) /\ Places \subseteq {p} /\ proc[w].pc \in WriterPcs
  BY <1>1, ProcIs DEF At, Sound, HomePcs, WriterPcs
<1>3. PICK pc \in {"repaired", "leaving"} : Goto(w, pc)
  BY DEF RepairPublish
<1>4. PICK r \in Recs : /\ proc' = [proc EXCEPT ![w] = r] /\ r.pc = pc /\ r.path = p
                        /\ r.leases = proc[w].leases
  BY <1>3, GotoIs DEF Pcs, WriterPcs
<1>5. Durable(d) \/ Changed(d) \/ Same \/ Replaced(d, p)
  BY DEF RepairPublish
<1>6. d \in Dirs /\ d.lock = dir.lock /\ \A x \in Paths : Place(d, x) => x \in {p}
  <2>1. dir \in Dirs /\ \A x \in Paths : Place(dir, x) => x \in {p}
    BY <1>2, DirPlaces
  <2> QED BY <1>2, <2>1, XmlPlaces
<1> HIDE DEF d
<1>7. \A Q \in SUBSET {p} : Sound(r, Q, uses)
  BY <1>2, <1>3, <1>4 DEF Sound, WriterPcs, HomePcs, BasedPcs, MovePcs
<1> QED BY <1>1, <1>2, <1>4, <1>5, <1>6, <1>7, HomeKeeps

-----------------------------------------------------------------------------
(* Leases                                                                  *)

\* The paths with a file in the directory as it is.
Here == {p \in Paths : Place(dir, p)}

(* A process takes the lease of p: the lock file is its own, and durable.  *)
LEMMA AcquireKeeps ==
  ASSUME IInv, NEW w \in Procs, NEW p \in Paths, NEW r \in Recs,
         ~ dir.lock[p], Durable(Lock(dir, p)),
         proc' = [proc EXCEPT ![w] = r], facts' \in Nat, uses' = uses,
         r.leases = proc[w].leases \cup {p},
         \A Q \in SUBSET Here : Sound(r, Q, uses),
         \/ proc[w].pc \in WriterPcs
         \/ r.pc \notin WriterPcs
         \/ \A v \in Procs \ {w} : proc[v].pc \notin WriterPcs
  PROVE  IInv'
<1> DEFINE d == Lock(dir, p)
           P == Here
<1>1. /\ d \in Dirs /\ d.xml = dir.xml /\ d.prev = dir.prev
      /\ d.lock = [dir.lock EXCEPT ![p] = TRUE]
  BY DirPlaces, LockIs
<1>2. \A x \in Paths : Place(d, x) => x \in P
  BY <1>1 DEF Place, Here
<1>3. dir' = d /\ dir.lock \in [Paths -> BOOLEAN] /\ proc[w].leases \subseteq Paths
  BY DirPlaces DEF Durable, Dirs, IInv, Types, Recs
<1> HIDE DEF d, P
<1>4. dir' \in disks' /\ disks' \subseteq Dirs /\ Places' \subseteq P
        /\ P \subseteq Places
  <2>1. P \subseteq Places
    BY DirPlaces DEF P, Here
  <2> QED BY <1>1, <1>2, <2>1, ChangeIs DEF IInv, d
<1>5. \A x \in r.leases : dir'.lock[x] /\ (x \in proc[w].leases \/ ~ dir.lock[x])
  <2> SUFFICES ASSUME NEW x \in r.leases
               PROVE  dir'.lock[x] /\ (x \in proc[w].leases \/ ~ dir.lock[x])
    OBVIOUS
  <2>1. CASE x = p
    BY <1>1, <1>3, <2>1
  <2>2. CASE x # p
    <3>1. x \in proc[w].leases /\ x \in Paths /\ dir.lock[x]
      BY <1>3, <2>2 DEF IInv, Held
    <3> QED BY <1>1, <1>3, <2>2, <3>1
  <2> QED BY <2>1, <2>2
<1>6. \A x \in Paths : dir.lock[x] /\ x \notin proc[w].leases => dir'.lock[x]
  BY <1>1, <1>3
<1>7. (\A x, y \in Places' : x = y) /\ Sound(r, Places', uses)
  BY <1>4 DEF IInv, P
<1>8. \A v \in Procs \ {w} :
        proc[v].pc \in WriterPcs => r.pc \notin WriterPcs /\ Places' \subseteq Places
  BY <1>4 DEF IInv, P
<1> QED BY <1>4, <1>5, <1>6, <1>7, <1>8, StepKeeps

(* A process lets go of leases, or only of its operation.                  *)
LEMMA UnlockKeeps ==
  ASSUME IInv, NEW w \in Procs, NEW r \in Recs, NEW ps \in SUBSET proc[w].leases,
         Durable(Unlock(dir, ps)) \/ Changed(Unlock(dir, ps)) \/ Same,
         proc' = [proc EXCEPT ![w] = r], facts' \in Nat, uses' = uses,
         r.leases \subseteq proc[w].leases, Same \/ r.leases \cap ps = {},
         \A Q \in SUBSET Places : Sound(r, Q, uses),
         proc[w].pc \in WriterPcs \/ r.pc \notin WriterPcs
  PROVE  IInv'
<1> DEFINE d == Unlock(dir, ps)
           P == Places
<1>1. /\ d \in Dirs /\ d.xml = dir.xml /\ d.prev = dir.prev
      /\ d.lock = [p \in Paths |-> dir.lock[p] /\ p \notin ps]
  BY DirPlaces, UnlockIs
<1>2. \A x \in Paths : Place(d, x) => x \in P
  BY <1>1, DirPlaces DEF Place
<1>3. /\ dir' = d \/ (Same /\ dir' = dir)
      /\ dir.lock \in [Paths -> BOOLEAN] /\ proc[w].leases \subseteq Paths
  BY DirPlaces DEF Durable, Changed, Same, Dirs, IInv, Types, Recs
<1> HIDE DEF d, P
<1>4. dir' \in disks' /\ disks' \subseteq Dirs /\ Places' \subseteq P
  BY <1>1, <1>2, ChangeIs DEF IInv, d, P
<1>5. ASSUME NEW x \in r.leases
      PROVE  dir'.lock[x] /\ x \in proc[w].leases
  <2>1. x \in proc[w].leases /\ x \in Paths /\ dir.lock[x]
    BY <1>3 DEF IInv, Held
  <2>2. CASE Same /\ dir' = dir
    BY <2>1, <2>2
  <2>3. CASE dir' = d /\ x \notin ps
    BY <1>1, <2>1, <2>3
  <2>4. dir' = d /\ ~ Same => x \notin ps
    OBVIOUS
  <2> QED BY <1>3, <2>2, <2>3, <2>4 DEF Same
<1>6. \A x \in Paths : dir.lock[x] /\ x \notin proc[w].leases => dir'.lock[x]
  BY <1>1, <1>3
<1>7. (\A x, y \in Places' : x = y) /\ Sound(r, Places', uses)
  BY <1>4 DEF IInv, P
<1>8. \A v \in Procs \ {w} :
        proc[v].pc \in WriterPcs => r.pc \notin WriterPcs /\ Places' \subseteq Places
  BY <1>4 DEF IInv, P
<1> QED BY <1>4, <1>5, <1>6, <1>7, <1>8, StepKeeps

(* A step of nobody, that leaves the lock files of the leases.             *)
LEMMA IdleKeeps ==
  ASSUME IInv, UNCHANGED <<proc, facts, uses>>, dir' \in disks', disks' \subseteq Dirs,
         Places' \subseteq Places,
         \A w \in Procs : \A p \in proc[w].leases : dir'.lock[p]
  PROVE  IInv'
<1>1. Types' /\ Held'
  BY DEF IInv, Types, Held
<1>2. ASSUME NEW w \in Procs
      PROVE  Sound(proc[w], Places', uses)
  <2>1. Sound(proc[w], Places, uses)
    BY DEF IInv
  <2> QED BY <2>1 DEF Sound
<1> QED BY <1>1, <1>2 DEF IInv

LEMMA EnvironmentKeeps ==
  ASSUME IInv, uses' = uses,
         (\E w \in Procs, p \in Paths : AcquireFails(w, p)) \/ PowerLoss
           \/ (\E p \in Paths : RemoveStaleLock(p))
  PROVE  IInv'
<1>0. /\ dir \in Dirs /\ dir \in disks /\ disks \subseteq Dirs /\ facts \in Nat
      /\ dir.lock \in [Paths -> BOOLEAN] /\ \A w \in Procs : proc[w].leases \subseteq Paths
      /\ \A w \in Procs : \A p \in proc[w].leases : dir.lock[p]
  BY DEF IInv, Types, Held, Dirs, Recs
<1>1. ASSUME NEW w \in Procs, NEW p \in Paths, AcquireFails(w, p)
      PROVE  IInv'
  <2> DEFINE d == Lock(dir, p)
  <2>1. /\ d \in Dirs /\ d.xml = dir.xml /\ d.prev = dir.prev
        /\ d.lock = [dir.lock EXCEPT ![p] = TRUE]
    BY <1>0, LockIs
  <2>2. Changed(d) /\ UNCHANGED <<proc, facts>>
    BY <1>1 DEF AcquireFails, NoDocument
  <2> HIDE DEF d
  <2>3. \A x \in Paths : Place(d, x) => x \in Places
    BY <2>1, DirPlaces DEF Place
  <2>4. dir' \in disks' /\ disks' \subseteq Dirs /\ dir' \in {dir, d} /\ Places' \subseteq Places
    BY <2>1, <2>2, <2>3, ChangeIs DEF IInv
  <2>5. \A v \in Procs : \A x \in proc[v].leases : dir'.lock[x]
    BY <1>0, <2>1, <2>4
  <2> QED BY <2>2, <2>4, <2>5, IdleKeeps
<1>2. ASSUME NEW p \in Paths, RemoveStaleLock(p)
      PROVE  IInv'
  <2> DEFINE d == Unlock(dir, {p})
  <2>1. /\ d \in Dirs /\ d.xml = dir.xml /\ d.prev = dir.prev
        /\ d.lock = [x \in Paths |-> dir.lock[x] /\ x \notin {p}]
    BY <1>0, UnlockIs
  <2>2. Changed(d) /\ UNCHANGED <<proc, facts>> /\ \A w \in Procs : p \notin proc[w].leases
    BY <1>2 DEF RemoveStaleLock
  <2> HIDE DEF d
  <2>3. \A x \in Paths : Place(d, x) => x \in Places
    BY <2>1, DirPlaces DEF Place
  <2>4. dir' \in disks' /\ disks' \subseteq Dirs /\ dir' \in {dir, d} /\ Places' \subseteq Places
    BY <2>1, <2>2, <2>3, ChangeIs DEF IInv
  <2>5. \A v \in Procs : \A x \in proc[v].leases : dir'.lock[x]
    BY <1>0, <2>1, <2>2, <2>4
  <2> QED BY <2>2, <2>4, <2>5, IdleKeeps
<1>3. CASE PowerLoss
  <2>1. PICK d \in disks : dir' = d /\ disks' = {d}
    BY <1>3 DEF PowerLoss, Durable
  <2>2. proc' = [w \in Procs |-> Out] /\ facts' = facts
    BY <1>3 DEF PowerLoss
  <2>3. Types'
    BY <1>0, <2>1, <2>2, OutIs DEF Types
  <2>4. Places' \subseteq Places
    BY <2>1 DEF Places, Place
  <2>5. \A w \in Procs : proc'[w] = Out /\ proc'[w].leases = {} /\ proc'[w].pc \notin WriterPcs
    BY <2>2 DEF Out, WriterPcs
  <2>6. Held'
    BY <2>5 DEF Held
  <2>7. \A w \in Procs : Sound(proc'[w], Places', uses)
    BY <2>5, OutIs
  <2> QED BY <2>3, <2>4, <2>5, <2>6, <2>7 DEF IInv
<1> QED BY <1>1, <1>2, <1>3

(* An operation begins with its lease.                                     *)
LEMMA BeginKeeps ==
  ASSUME IInv, NEW w \in Procs, NEW p \in Paths, uses' = uses,
         Open(w, p) \/ Create(w, p) \/ RepairStart(w, p) \/ DeleteStart(w, p)
  PROVE  IInv'
<1> DEFINE L == proc[w].leases \cup {p}
<1>0. L \subseteq Paths /\ facts \in Nat /\ facts + 1 \in Nat /\ p \in L
      /\ (p \in Here => p \in Places) /\ dir \in Dirs
  BY DirPlaces DEF IInv, Types, Recs, Here
<1>1. ~ dir.lock[p] /\ Durable(Lock(dir, p)) /\ facts' \in Nat
  BY <1>0 DEF Open, Create, RepairStart, DeleteStart, Acquire, NoDocument, MayWrite
<1>2. CASE Open(w, p) \/ DeleteStart(w, p)
  <2> DEFINE r(pc) == [[Out EXCEPT !.pc = pc, !.path = p] EXCEPT !.leases = L]
  <2>1. PICK pc \in {"opening", "deleting"} : proc' = [proc EXCEPT ![w] = r(pc)]
    BY <1>2 DEF Open, DeleteStart, Acquire, Step
  <2>2. r(pc) \in Recs /\ r(pc).pc = pc /\ r(pc).path = p /\ r(pc).leases = L
    BY <1>0, FileFacts DEF Out, Recs, Pcs
  <2> HIDE DEF r
  <2>3. r(pc).pc \notin WriterPcs /\ \A Q \in SUBSET Here : Sound(r(pc), Q, uses)
    BY <1>0, <2>2 DEF Sound, WriterPcs, HomePcs, BasedPcs, MovePcs
  <2> QED BY <1>1, <2>1, <2>2, <2>3, AcquireKeeps
<1>3. CASE Create(w, p)
  <2> DEFINE r == [[Out EXCEPT !.pc = "active", !.path = p] EXCEPT !.leases = L]
  <2>1. proc' = [proc EXCEPT ![w] = r]
    BY <1>3 DEF Create, Acquire, Step
  <2>2. r \in Recs /\ r.pc = "active" /\ r.path = p /\ r.leases = L
    BY <1>0, FileFacts DEF Out, Recs, Pcs, WriterPcs
  <2> HIDE DEF r
  <2>3. Here = {}
    BY <1>3 DEF Create, Here, Place
  <2>4. \A Q \in SUBSET Here : Sound(r, Q, uses)
    BY <1>0, <2>2, <2>3 DEF Sound, WriterPcs, HomePcs, BasedPcs, MovePcs
  <2>5. \A v \in Procs \ {w} : proc[v].pc \notin WriterPcs
    <3> SUFFICES ASSUME NEW v \in Procs, proc[v].pc \in WriterPcs PROVE FALSE
      OBVIOUS
    <3>1. ~ At(v, "out")
      BY DEF At, WriterPcs
    <3>2. proc[v].path \in Paths /\ dir.lock[proc[v].path]
      BY <3>1, ProcIs DEF IInv, Held
    <3> QED BY <1>3, <3>2 DEF Create
  <2> QED BY <1>1, <2>1, <2>2, <2>4, <2>5, AcquireKeeps
<1>4. CASE RepairStart(w, p)
  <2> DEFINE source == RepairSource(p)
             doc == Append(source, facts + 1)
             r == [[Out EXCEPT !.pc = "repairing", !.path = p, !.base = source, !.doc = doc]
                    EXCEPT !.leases = L]
  <2>1. proc' = [proc EXCEPT ![w] = r] /\ "repair" \in uses /\ dir.prev[p] # None
    BY <1>4 DEF RepairStart, Acquire, Step, Next1, IsDoc
  <2>2. source \in Seq(Nat)
    BY <1>0 DEF RepairSource, Dirs
  <2>3. doc \in Seq(Nat)
    BY <1>0, <2>2, FileFacts
  <2> HIDE DEF source, doc
  <2>4. r \in Recs /\ r.pc = "repairing" /\ r.path = p /\ r.leases = L
    BY <1>0, <2>2, <2>3, FileFacts DEF Out, Recs, Pcs, WriterPcs
  <2> HIDE DEF r
  <2>5. p \in Places /\ \A x \in Here : x = p
    <3>1. p \in Here
      BY <2>1 DEF Here, Place
    <3> QED BY <1>0, <3>1, DirPlaces DEF IInv, Here
  <2>6. \A Q \in SUBSET Here : Sound(r, Q, uses)
    BY <1>0, <2>4, <2>5 DEF Sound, WriterPcs, HomePcs, BasedPcs, MovePcs
  <2>7. \A v \in Procs \ {w} : proc[v].pc \notin WriterPcs
    BY <1>1, <2>5, NoOtherWriter
  <2> QED BY <1>1, <2>1, <2>4, <2>6, <2>7, AcquireKeeps
<1> QED BY <1>2, <1>3, <1>4

LEMMA MoveStartKeeps ==
  ASSUME IInv, NEW w \in Procs, NEW q \in Paths, uses' = uses, MoveStart(w, q)
  PROVE  IInv'
<1> DEFINE p == proc[w].path
           L == proc[w].leases \cup {q}
           doc == Append(proc[w].base, facts + 1)
           r == [[proc[w] EXCEPT !.pc = "moving", !.to = q, !.doc = doc] EXCEPT !.leases = L]
<1>1. /\ At(w, "active") /\ proc[w].base # None /\ q # p /\ "rename" \in uses
      /\ dir.xml[p] = proc[w].base /\ proc' = [proc EXCEPT ![w] = r]
      /\ ~ dir.lock[q] /\ Durable(Lock(dir, q)) /\ facts' = facts + 1
  BY DEF MoveStart, Acquire, Step, Next1, MayWrite
<1>2. /\ proc[w] \in Recs /\ p \in proc[w].leases /\ p \in Paths /\ proc[w].base \in Seq(Nat)
      /\ proc[w].pc \in WriterPcs
  BY <1>1, ProcIs DEF At, WriterPcs
<1>3. L \subseteq Paths /\ p \in L /\ q \in L
  BY <1>2 DEF Recs
<1>4. \A x \in Here : x = p
  <2>1. Place(dir, p)
    BY <1>1 DEF Place
  <2> QED BY <1>2, <2>1, DirPlaces DEF IInv, Here
<1>5. facts + 1 \in Nat
  BY DEF IInv, Types
<1>6. doc \in Seq(Nat) /\ doc # None
  BY <1>2, <1>5, FileFacts
<1> HIDE DEF doc, L
<1>7. /\ r \in Recs /\ r.pc = "moving" /\ r.path = p /\ r.to = q /\ r.leases = L
      /\ r.base = proc[w].base /\ r.doc = doc
  BY <1>2, <1>3, <1>6 DEF Recs, Pcs, WriterPcs
<1> HIDE DEF r
<1>8. \A Q \in SUBSET Here : Sound(r, Q, uses)
  BY <1>1, <1>3, <1>4, <1>6, <1>7 DEF Sound, WriterPcs, HomePcs, BasedPcs, MovePcs
<1> QED BY <1>1, <1>2, <1>5, <1>7, <1>8, AcquireKeeps DEF L

(* An operation ends, or its process.                                      *)
LEMMA EndKeeps ==
  ASSUME IInv, NEW w \in Procs, uses' = uses, Leave(w) \/ Crash(w)
  PROVE  IInv'
<1>1. proc' = [proc EXCEPT ![w] = Out] /\ facts' \in Nat
  BY DEF Leave, Crash, Step, NoDocument, IInv, Types
<1>2. PICK ps \in SUBSET proc[w].leases :
        Durable(Unlock(dir, ps)) \/ Changed(Unlock(dir, ps)) \/ Same
  BY DEF Leave, Crash, Same
<1>3. Out.leases = {} /\ Out.pc \notin WriterPcs
  BY DEF Out, WriterPcs
<1> HIDE DEF Out
<1> QED BY <1>1, <1>2, <1>3, OutIs, UnlockKeeps

LEMMA ReleaseDestinationKeeps ==
  ASSUME IInv, NEW w \in Procs, uses' = uses, ReleaseDestination(w)
  PROVE  IInv'
<1> DEFINE p == proc[w].path
           to == proc[w].to
           L == proc[w].leases \ {to}
           r(pc) == [[proc[w] EXCEPT !.to = "none", !.leases = L] EXCEPT !.pc = pc]
<1>1. proc[w].pc \in {"moving", "unhidden"} /\ facts' \in Nat
  BY DEF ReleaseDestination, NoDocument, IInv, Types
<1>2. /\ proc[w] \in Recs /\ p \in L /\ to \in proc[w].leases /\ Places \subseteq {p}
      /\ proc[w].base # None /\ proc[w].pc \in WriterPcs
  <2>1. proc[w] \in Recs /\ p \in proc[w].leases /\ Sound(proc[w], Places, uses)
    BY <1>1, ProcIs DEF At
  <2> QED BY <1>1, <2>1 DEF Sound, MovePcs, HomePcs, BasedPcs, WriterPcs
<1>3. ASSUME NEW x \in Recs, NEW ps \in SUBSET {to},
             proc' = [proc EXCEPT ![w] = x], x.path = p, x.pc \in {"active", "faulted"},
             x.leases = L \/ (Same /\ x.leases = proc[w].leases),
             x.pc = "active" => x.base = proc[w].base,
             Durable(Unlock(dir, ps)) \/ Changed(Unlock(dir, ps)) \/ Same,
             Same \/ ps \cap L = {}
      PROVE  IInv'
  <2>1. \A Q \in SUBSET Places : Sound(x, Q, uses)
    BY <1>2, <1>3 DEF Sound, WriterPcs, HomePcs, BasedPcs, MovePcs
  <2>2. ps \in SUBSET proc[w].leases /\ x.leases \subseteq proc[w].leases
    BY <1>2, <1>3
  <2>3. Same \/ x.leases \cap ps = {}
    BY <1>3
  <2>4. facts' \in Nat /\ proc[w].pc \in WriterPcs
    BY <1>1, <1>2
  <2>5. Durable(Unlock(dir, ps)) \/ Changed(Unlock(dir, ps)) \/ Same
    BY <1>3
  <2>6. proc' = [proc EXCEPT ![w] = x]
    BY <1>3
  <2> HIDE DEF L, p, to
  <2> QED BY <2>1, <2>2, <2>3, <2>4, <2>5, <2>6, UnlockKeeps
<1>4. CASE Goto(w, "faulted") /\ Same
  <2>1. PICK x \in Recs : /\ proc' = [proc EXCEPT ![w] = x] /\ x.pc = "faulted" /\ x.path = p
                          /\ x.leases = proc[w].leases
    BY <1>4, GotoIs DEF Pcs, WriterPcs
  <2>2. {} \in SUBSET {to}
    OBVIOUS
  <2> HIDE DEF L, p, to
  <2> QED BY <1>3, <1>4, <2>1, <2>2
<1>5. CASE ~ (Goto(w, "faulted") /\ Same)
  <2>1. PICK pc \in {"active", "faulted"} :
          /\ proc' = [proc EXCEPT ![w] = r(pc)]
          /\ Durable(Unlock(dir, {to})) \/ Changed(Unlock(dir, {to}))
    BY <1>5 DEF ReleaseDestination, Step
  <2>2. /\ r(pc) \in Recs /\ r(pc).pc = pc /\ r(pc).path = p /\ r(pc).leases = L
        /\ r(pc).base = proc[w].base
    BY <1>2 DEF Recs, Pcs, WriterPcs
  <2>3. {to} \in SUBSET {to} /\ {to} \cap L = {}
    OBVIOUS
  <2> HIDE DEF r, L, p, to
  <2> QED BY <1>3, <2>1, <2>2, <2>3
<1> QED BY <1>4, <1>5

-----------------------------------------------------------------------------
(* The theorems.                                                           *)

\* No Context is both renamed and repaired, as the last of its processes may do.
NeverBoth == \A u \in Uses : ~ {"rename", "repair"} \subseteq u

LEMMA InitKeeps ==
  ASSUME Init, NeverBoth
  PROVE  IInv
<1>1. /\ dir \in Dirs /\ disks = {dir} /\ facts = 0 /\ uses \in Uses
      /\ \A p \in Paths : ~ Place(dir, p)
  BY FileFacts DEF Init, Dirs, Place
<1>2. proc = [w \in Procs |-> Out] /\ Out \in Recs
  BY FileFacts DEF Init, Out, Recs, Pcs
<1>3. Out.leases = {} /\ Out.pc = "out"
  BY DEF Out
<1>4. Places = {}
  BY <1>1 DEF Places
<1> HIDE DEF Out
<1>5. \A w \in Procs : proc[w] = Out
  BY <1>2
<1>6. Types /\ Held
  BY <1>1, <1>2, <1>3, <1>5 DEF Types, Held
<1>7. \A w \in Procs : Sound(proc[w], Places, uses) /\ proc[w].pc \notin WriterPcs
  BY <1>3, <1>5 DEF Sound, WriterPcs, HomePcs, BasedPcs, MovePcs
<1> QED BY <1>1, <1>4, <1>6, <1>7 DEF IInv, NeverBoth

LEMMA StutterKeeps ==
  ASSUME IInv, UNCHANGED vars
  PROVE  IInv'
BY DEF vars, IInv, Types, Held, Places, Place

LEMMA NextKeeps ==
  ASSUME IInv, [Next]_vars
  PROVE  IInv'
<1>1. CASE UNCHANGED vars
  BY <1>1, StutterKeeps
<1>2. CASE Next
  <2>1. uses' = uses /\ Operations
    BY <1>2 DEF Next
  <2>2. ASSUME NEW w \in Procs, NEW p \in Paths,
               \/ Open(w, p) \/ Create(w, p) \/ RepairStart(w, p) \/ DeleteStart(w, p)
               \/ MoveStart(w, p)
        PROVE  IInv'
    BY <2>1, <2>2, BeginKeeps, MoveStartKeeps
  <2>3. ASSUME NEW w \in Procs,
               \/ PublishFirst(w) \/ KeepPrevious(w) \/ CopyPrevious(w) \/ Replace(w)
               \/ PublishFails(w)
        PROVE  IInv'
    BY <2>1, <2>3, PublishFirstKeeps, KeepPreviousKeeps, PublishStepKeeps
  <2>4. ASSUME NEW w \in Procs,
               \/ CleanPrevious(w) \/ MoveClean(w) \/ RepairClean(w) \/ DeleteOfficial(w)
               \/ DeletePrevious(w) \/ RepairPublish(w)
        PROVE  IInv'
    BY <2>1, <2>4, CleanKeeps, RepairPublishKeeps
  <2>5. ASSUME NEW w \in Procs,
               Hide(w) \/ MovePublish(w) \/ Unhide(w) \/ ReleaseDestination(w)
        PROVE  IInv'
    BY <2>1, <2>5, MoveStepKeeps, ReleaseDestinationKeeps
  <2>6. ASSUME NEW w \in Procs,
               OpenValid(w) \/ Recover(w) \/ OpenRefused(w) \/ Leave(w) \/ Crash(w)
        PROVE  IInv'
    BY <2>1, <2>6, OpenValidKeeps, RecoverKeeps, EndKeeps
  <2>7. CASE \/ (\E w \in Procs, p \in Paths : AcquireFails(w, p)) \/ PowerLoss
             \/ (\E p \in Paths : RemoveStaleLock(p))
    BY <2>1, <2>7, EnvironmentKeeps
  <2> QED BY <2>1, <2>2, <2>3, <2>4, <2>5, <2>6, <2>7 DEF Operations
<1> QED BY <1>1, <1>2

(* A process becomes a writer only at the path of the document, and only    *)
(* with its lease, which nobody else has: acquire_lease creates the lock    *)
(* file exclusively, and move takes the lease of the new path before it     *)
(* hides the document and keeps both until its end.                         *)
THEOREM OneWriterHolds == Spec /\ NeverBoth => []OneWriter
<1>1. Init /\ NeverBoth => IInv
  BY InitKeeps
<1>2. IInv /\ [Next]_vars => IInv'
  BY NextKeeps
<1>3. ASSUME IInv
      PROVE  OneWriter
  <2> SUFFICES ASSUME NEW v \in Procs, NEW w \in Procs, v # w
               PROVE  /\ proc[v].leases \cap proc[w].leases = {}
                      /\ proc[v].pc \in WriterPcs => proc[w].pc \notin WriterPcs
    BY DEF OneWriter
  <2>1. proc[v].leases \cap proc[w].leases = {}
    BY <1>3 DEF IInv, Held
  <2>2. proc[v].pc \in WriterPcs => proc[w].pc \notin WriterPcs
    BY <1>3 DEF IInv
  <2> QED BY <2>1, <2>2
<1>4. IInv => OneWriter
  BY <1>3
<1> QED BY <1>1, <1>2, <1>4, PTL DEF Spec

(* Neither a running program nor what a power loss leaves shows the Context *)
(* at two paths: move hides the old file before it publishes the new one,   *)
(* and what was begun at a path is only ever finished or undone there.      *)
THEOREM OneOfficialHolds == Spec /\ NeverBoth => []OneOfficial
<1>1. Init /\ NeverBoth => IInv
  BY InitKeeps
<1>2. IInv /\ [Next]_vars => IInv'
  BY NextKeeps
<1>3. ASSUME IInv
      PROVE  OneOfficial
  <2> SUFFICES ASSUME NEW d \in disks, NEW p \in Paths, NEW q \in Paths,
                      IsDoc(d.xml[p]), IsDoc(d.xml[q])
               PROVE  p = q
    BY DEF OneOfficial
  <2>1. p \in Places /\ q \in Places
    BY DEF IsDoc, Places, Place
  <2> QED BY <1>3, <2>1 DEF IInv
<1>4. IInv => OneOfficial
  BY <1>3
<1> QED BY <1>1, <1>2, <1>4, PTL DEF Spec

-----------------------------------------------------------------------------
(***************************************************************************)
(* What is in the files: every confirmed Fact survives, and ContextStore   *)
(* implements ContextHistory, over the places and leases above.            *)
(***************************************************************************)
-----------------------------------------------------------------------------
(* The inductive invariant.                                                *)

\* The document after b.
Extends(b, c) == IsDoc(c) /\ IsPrefix(b, c) /\ Len(c) = Len(b) + 1

\* No document of d at path p is older than the confirmed one, c.
FreshAt(d, p, c) ==
  (IsDoc(d.xml[p]) => IsPrefix(c, d.xml[p])) /\ (IsDoc(d.prev[p]) => IsPrefix(c, d.prev[p]))

Fresh == \A d \in disks : \A p \in Places : FreshAt(d, p, confirmed)

\* The same files at p in two directories.
Alike(e, d, p) == e.xml[p] = d.xml[p] /\ e.prev[p] = d.prev[p]

\* What a directory d has for a process in record r.
Stands(d, r) ==
  /\ r.pc \in {"active", "copying", "kept", "moving"} => d.xml[r.path] = r.base
  /\ r.pc = "active" /\ r.base = None => d.prev[r.path] = None
  /\ r.pc = "kept" => d.prev[r.path] = r.base
  /\ r.pc = "moving" => d.prev[r.path] = None
  /\ r.pc \in {"replaced", "repaired"} => d.xml[r.path] = r.doc
  /\ r.pc = "hidden" => d.xml[r.path] = None /\ d.prev[r.path] = r.base
  /\ r.pc = "unhiding" => {d.xml[r.path], d.prev[r.path]} = {None, r.base}
  /\ r.pc \in {"unhidden", "repairing"} => Kept(d, r.path) = r.base
  /\ r.pc = "repairing" => IsDoc(d.prev[r.path])
  /\ r.pc = "moved" => d.xml[r.to] = r.doc
  /\ r.pc \in {"moving", "hidden", "moved"} => d.prev[r.to] = None

DocPcs == BasedPcs \cup {"repairing", "repaired"}

\* What a process in record r has in hand, and in the files: c is confirmed, d the
\* directory and ds what a power loss may leave of it.
Has(r, c, d, ds) ==
  /\ r.pc \in DocPcs \cup {"active"} => IsPrefix(c, r.base)
  /\ r.pc \in DocPcs => IsDoc(r.base) /\ Extends(r.base, r.doc)
  /\ r.pc = "active" => r.base = None \/ IsDoc(r.base)
  /\ \A e \in ds : Stands(e, r)
  /\ r.pc = "unhidden" => d.xml[r.path] = r.base
  /\ r.pc = "deleting" => d.xml[r.path] # None
  /\ r.pc = "opening" => \A e \in ds : Alike(e, d, r.path)
  /\ r.pc = "repairing" => \A e \in ds : FreshAt(e, r.path, c)

HInv ==
  /\ confirmed \in Seq(Nat)
  /\ Fresh /\ ConfirmedSurvives
  /\ \A w \in Procs : Has(proc[w], confirmed, dir, disks)

\* While the previous file is being deleted nothing is confirmed, and nobody can
\* become a writer: no file is anywhere else.
Deleted ==
  \A w \in Procs : At(w, "deletingPrevious") =>
    /\ confirmed = None /\ Places \subseteq {proc[w].path}
    /\ \A v \in Procs : proc[v].pc \notin WriterPcs

-----------------------------------------------------------------------------
(* Prefixes.                                                               *)

LEMMA PrefixIs ==
  ASSUME NEW s \in Seq(Nat), NEW t \in Seq(Nat)
  PROVE  IsPrefix(s, t) <=> Len(s) <= Len(t) /\ \A i \in 1..Len(s) : s[i] = t[i]
<1> SUFFICES ASSUME Len(s) <= Len(t)
             PROVE  SubSeq(s, 1, Len(s)) = SubSeq(t, 1, Len(s)) <=>
                      \A i \in 1..Len(s) : s[i] = t[i]
  BY DEF IsPrefix
<1>1. Len(s) \in Nat /\ Len(t) \in Nat /\ 1 \in Int /\ Len(s) \in Int
  OBVIOUS
<1>2. \A i \in 1..Len(s) : s[i] \in Nat /\ t[i] \in Nat
  BY <1>1
<1>3. PICK u : u = SubSeq(s, 1, Len(s))
  OBVIOUS
<1>4. PICK v : v = SubSeq(t, 1, Len(s))
  OBVIOUS
<1>5. u \in Seq(Nat) /\ Len(u) = Len(s) /\ \A i \in 1..Len(s) : u[i] = s[i]
  BY <1>1, <1>2, <1>3, SubSeqProperties
<1>6. v \in Seq(Nat) /\ Len(v) = Len(s) /\ \A i \in 1..Len(s) : v[i] = t[i]
  BY <1>1, <1>2, <1>4, SubSeqProperties
<1>7. ASSUME \A i \in 1..Len(s) : s[i] = t[i] PROVE u = v
  BY <1>5, <1>6, <1>7, SeqEqual
<1>8. ASSUME u = v, NEW i \in 1..Len(s) PROVE s[i] = t[i]
  BY <1>5, <1>6, <1>8
<1> QED BY <1>3, <1>4, <1>7, <1>8

LEMMA PrefixFacts ==
  /\ \A s \in Seq(Nat) : IsPrefix(s, s) /\ IsPrefix(None, s) /\ (IsPrefix(s, None) => s = None)
  /\ \A s, t, u \in Seq(Nat) : IsPrefix(s, t) /\ IsPrefix(t, u) => IsPrefix(s, u)
<1>1. None \in Seq(Nat) /\ Len(None) = 0 /\ \A s \in Seq(Nat) : Len(s) \in Nat
  BY DEF None
<1>2. ASSUME NEW s \in Seq(Nat)
      PROVE  IsPrefix(s, s) /\ IsPrefix(None, s) /\ (IsPrefix(s, None) => s = None)
  <2>0. PICK n : n = None
    OBVIOUS
  <2>a. n \in Seq(Nat) /\ Len(n) = 0 /\ Len(s) \in Nat
    BY <1>1, <2>0
  <2>b. IsPrefix(s, s) /\ IsPrefix(n, s)
    <3>1. IsPrefix(s, s) <=> Len(s) <= Len(s) /\ \A i \in 1..Len(s) : s[i] = s[i]
      BY PrefixIs
    <3>2. IsPrefix(n, s) <=> Len(n) <= Len(s) /\ \A i \in 1..Len(n) : n[i] = s[i]
      BY <2>a, PrefixIs
    <3> QED BY <2>a, <3>1, <3>2
  <2>1. IsPrefix(s, s) /\ IsPrefix(None, s)
    BY <2>0, <2>b
  <2>2. IsPrefix(s, None) => Len(s) = 0
    <3>1. IsPrefix(s, n) <=> Len(s) <= Len(n) /\ \A i \in 1..Len(s) : s[i] = n[i]
      BY <2>a, PrefixIs
    <3> QED BY <2>0, <2>a, <3>1
  <2>3. Len(s) = 0 => s = None
    BY EmptySeq DEF None
  <2> QED BY <2>1, <2>2, <2>3
<1>3. ASSUME NEW s \in Seq(Nat), NEW t \in Seq(Nat), NEW u \in Seq(Nat),
             IsPrefix(s, t), IsPrefix(t, u)
      PROVE  IsPrefix(s, u)
  BY <1>1, <1>3, PrefixIs
<1> QED BY <1>2, <1>3

\* A publication adds to the document, and is one.
LEMMA NextExtends ==
  ASSUME NEW b \in Seq(Nat), facts \in Nat
  PROVE  Next1(b) \in Seq(Nat) /\ Extends(b, Next1(b))
<1>1. facts + 1 \in Nat
  OBVIOUS
<1>2. PICK c : c = Append(b, facts + 1)
  OBVIOUS
<1>3. /\ c \in Seq(Nat) /\ c # <<>> /\ Len(c) = Len(b) + 1
      /\ \A i \in 1..Len(b) : c[i] = b[i]
      /\ c[Len(b) + 1] = facts + 1
  BY <1>1, <1>2, AppendProperties
<1>4. Len(b) \in Nat
  OBVIOUS
<1>5. IsPrefix(b, c)
  BY <1>3, <1>4, PrefixIs
<1>6. c # Torn
  <2>1. SUFFICES ASSUME c = Torn PROVE FALSE
    OBVIOUS
  <2>2. Len(c) = 1 /\ c[1] = 0
    BY <2>1 DEF Torn
  <2>3. Len(b) = 0
    BY <1>3, <1>4, <2>2
  <2> QED BY <1>1, <1>3, <2>2, <2>3
<1> QED BY <1>2, <1>3, <1>5, <1>6 DEF Next1, Extends, IsDoc, None

\* The document a path stands for.
LEMMA KeptIs ==
  ASSUME NEW d, NEW p
  PROVE  /\ IsDoc(d.xml[p]) => Kept(d, p) = d.xml[p]
         /\ ~ IsDoc(d.xml[p]) /\ IsDoc(d.prev[p]) => Kept(d, p) = d.prev[p]
         /\ ~ IsDoc(d.xml[p]) /\ ~ IsDoc(d.prev[p]) => Kept(d, p) = None
BY DEF Kept

-----------------------------------------------------------------------------
(* Steps that leave files alone.                                           *)

LEMMA StandsAlike ==
  ASSUME NEW d, NEW e, NEW r, Stands(d, r),
         r.pc # "out" => Alike(e, d, r.path),
         r.pc \in MovePcs => Alike(e, d, r.to)
  PROVE  Stands(e, r)
<1>1. r.pc # "out" => Kept(e, r.path) = Kept(d, r.path)
  BY DEF Alike, Kept
<1> QED BY <1>1 DEF Stands, Alike, MovePcs

\* The files are sequences.
LEMMA FilesOf ==
  ASSUME Types, NEW d \in disks, NEW p \in Paths
  PROVE  d.xml[p] \in Seq(Nat) /\ d.prev[p] \in Seq(Nat) /\ Kept(d, p) \in Seq(Nat)
<1>1. d.xml[p] \in Seq(Nat) /\ d.prev[p] \in Seq(Nat)
  BY DEF Types, Dirs
<1> QED BY <1>1, KeptIs, FileFacts

\* A process is not concerned by what happens to paths it has no lease of.
LEMMA OtherHas ==
  ASSUME IInv, HInv, NEW v \in Procs, NEW c \in Seq(Nat), NEW d, NEW ds,
         \A p \in proc[v].leases : Alike(d, dir, p),
         \A e \in ds : \E f \in disks : \A p \in proc[v].leases : Alike(e, f, p),
         c \in {confirmed, None} \/ proc[v].pc \notin WriterPcs
  PROVE  Has(proc[v], c, d, ds)
<1>1. Has(proc[v], confirmed, dir, disks) /\ Sound(proc[v], Places, uses)
  BY DEF HInv, IInv
<1>2. /\ proc[v].pc # "out" => proc[v].path \in proc[v].leases
      /\ proc[v].pc \in MovePcs => proc[v].to \in proc[v].leases
  BY <1>1 DEF Sound
<1>3. \A e \in ds : Stands(e, proc[v])
  <2>1. SUFFICES ASSUME NEW e \in ds PROVE Stands(e, proc[v])
    OBVIOUS
  <2>2. PICK f \in disks : \A p \in proc[v].leases : Alike(e, f, p)
    OBVIOUS
  <2> QED BY <1>1, <1>2, <2>2, StandsAlike DEF Has
<1>4. proc[v].pc \in DocPcs \cup {"active"} => IsPrefix(c, proc[v].base)
  <2>1. SUFFICES ASSUME proc[v].pc \in DocPcs \cup {"active"} PROVE IsPrefix(c, proc[v].base)
    OBVIOUS
  <2>2. proc[v].pc \in WriterPcs /\ proc[v].base \in Seq(Nat)
    BY <2>1 DEF DocPcs, BasedPcs, MovePcs, WriterPcs, IInv, Types, Recs
  <2> QED BY <1>1, <2>1, <2>2, PrefixFacts DEF Has
<1>5. proc[v].pc \in {"unhidden", "deleting"} => d.xml[proc[v].path] = dir.xml[proc[v].path]
  BY <1>2 DEF Alike
<1>6. ASSUME proc[v].pc = "opening", NEW e \in ds PROVE Alike(e, d, proc[v].path)
  BY <1>1, <1>2, <1>6 DEF Has, Alike
<1>7. ASSUME proc[v].pc = "repairing", NEW e \in ds PROVE FreshAt(e, proc[v].path, c)
  <2>1. PICK f \in disks : Alike(e, f, proc[v].path)
    BY <1>2, <1>7
  <2>2. FreshAt(f, proc[v].path, confirmed) /\ c \in {confirmed, None}
    BY <1>1, <1>7 DEF Has, WriterPcs
  <2>3. proc[v].path \in Paths
    BY <1>7, ProcIs DEF At
  <2>4. f.xml[proc[v].path] \in Seq(Nat) /\ f.prev[proc[v].path] \in Seq(Nat)
    BY <2>3, FilesOf DEF IInv
  <2> QED BY <2>1, <2>2, <2>4, PrefixFacts DEF FreshAt, Alike
<1> QED BY <1>1, <1>3, <1>4, <1>5, <1>6, <1>7 DEF Has

\* A step of one process, which changes files only at the paths X of its leases.
LEMMA StepHas ==
  ASSUME IInv, HInv, NEW w \in Procs, NEW r, proc' = [proc EXCEPT ![w] = r],
         NEW X \in SUBSET proc[w].leases,
         \A p \in Paths \ X : Alike(dir', dir, p),
         \A e \in disks' : e \in disks \/ \A p \in Paths \ X : Alike(e, dir, p),
         confirmed' \in Seq(Nat),
         confirmed' \in {confirmed, None} \/ proc[w].pc \in WriterPcs,
         Has(r, confirmed', dir', disks'), Fresh', ConfirmedSurvives'
  PROVE  HInv'
<1>1. proc \in [Procs -> Recs] /\ dir \in disks
  BY DEF IInv, Types
<1>2. proc'[w] = r /\ \A v \in Procs \ {w} : proc'[v] = proc[v]
  BY <1>1
<1>3. ASSUME NEW v \in Procs \ {w}
      PROVE  Has(proc[v], confirmed', dir', disks')
  <2>1. proc[v].leases \subseteq Paths \ X
    <3>1. proc[v].leases \subseteq Paths
      BY <1>1 DEF Recs
    <3>2. \A p \in proc[w].leases : p \notin proc[v].leases
      BY DEF IInv, Held
    <3> QED BY <3>1, <3>2
  <2>2. \A p \in proc[v].leases : Alike(dir', dir, p)
    BY <2>1
  <2>3. \A e \in disks' : \E f \in disks : \A p \in proc[v].leases : Alike(e, f, p)
    <3>1. SUFFICES ASSUME NEW e \in disks'
                   PROVE  \E f \in disks : \A p \in proc[v].leases : Alike(e, f, p)
      OBVIOUS
    <3>2. CASE e \in disks
      BY <3>2 DEF Alike
    <3>3. CASE \A p \in Paths \ X : Alike(e, dir, p)
      BY <1>1, <2>1, <3>3
    <3> QED BY <3>2, <3>3
  <2>4. confirmed' \in {confirmed, None} \/ proc[v].pc \notin WriterPcs
    BY DEF IInv
  <2> QED BY <2>2, <2>3, <2>4, OtherHas
<1>4. \A v \in Procs : Has(proc[v], confirmed, dir, disks)'
  BY <1>2, <1>3
<1> QED BY <1>4 DEF HInv

\* Where no file changed, nothing is lost.
LEMMA SameFiles ==
  ASSUME IInv, HInv, uses' = uses, confirmed' \in {confirmed, None},
         \A e \in disks' : \E d \in disks : \A p \in Paths : Alike(e, d, p)
  PROVE  confirmed' \in Seq(Nat) /\ Fresh' /\ ConfirmedSurvives'
<1>1. confirmed' \in Seq(Nat) /\ confirmed \in Seq(Nat) /\ Types
  BY FileFacts DEF HInv, IInv
<1>2. ASSUME NEW s \in Seq(Nat), IsPrefix(confirmed, s) PROVE IsPrefix(confirmed', s)
  BY <1>1, <1>2, PrefixFacts
<1>3. ASSUME NEW e \in disks', NEW p \in Places' PROVE FreshAt(e, p, confirmed')
  <2>1. PICK d \in disks : \A q \in Paths : Alike(e, d, q)
    OBVIOUS
  <2>2. p \in Places
    <3>1. p \in Paths /\ \E f \in disks' : Place(f, p)'
      BY DEF Places
    <3>2. PICK f \in disks' : f.xml[p] # None \/ ("repair" \in uses /\ f.prev[p] # None)
      BY <3>1 DEF Place
    <3>3. PICK g \in disks : Alike(f, g, p)
      BY <3>1
    <3> QED BY <3>1, <3>2, <3>3 DEF Alike, Places, Place
  <2>3. FreshAt(d, p, confirmed) /\ p \in Paths
    BY <2>2 DEF HInv, Fresh, Places
  <2>4. d.xml[p] \in Seq(Nat) /\ d.prev[p] \in Seq(Nat)
    BY <1>1, <2>3, FilesOf
  <2> QED BY <1>2, <2>1, <2>3, <2>4 DEF FreshAt, Alike
<1>4. ASSUME NEW e \in disks' PROVE \E p \in Paths : IsPrefix(confirmed', Kept(e, p))
  <2>1. PICK d \in disks : \A q \in Paths : Alike(e, d, q)
    OBVIOUS
  <2>2. PICK p \in Paths : IsPrefix(confirmed, Kept(d, p))
    BY DEF HInv, ConfirmedSurvives
  <2>3. Kept(e, p) = Kept(d, p)
    BY <2>1 DEF Alike, Kept
  <2> QED BY <1>1, <1>2, <2>2, <2>3, FilesOf
<1> QED BY <1>1, <1>3, <1>4 DEF Fresh, ConfirmedSurvives

\* A change that is not one of files.
LEMMA LockFiles ==
  ASSUME Types, NEW d, d.xml = dir.xml, d.prev = dir.prev,
         Durable(d) \/ Changed(d) \/ Same
  PROVE  /\ \A p \in Paths : Alike(dir', dir, p)
         /\ \A e \in disks' : e \in disks \/ \A p \in Paths : Alike(e, dir, p)
         /\ \A e \in disks' : \E f \in disks : \A p \in Paths : Alike(e, f, p)
BY DEF Types, Durable, Changed, Same, Alike

LEMMA LockStep ==
  ASSUME IInv, HInv, uses' = uses, NEW w \in Procs, NEW r, proc' = [proc EXCEPT ![w] = r],
         confirmed' \in {confirmed, None},
         NEW d, d.xml = dir.xml, d.prev = dir.prev, Durable(d) \/ Changed(d) \/ Same,
         Has(r, confirmed', dir', disks')
  PROVE  HInv'
<1>1. /\ \A p \in Paths : Alike(dir', dir, p)
      /\ \A e \in disks' : e \in disks \/ \A p \in Paths : Alike(e, dir, p)
      /\ \A e \in disks' : \E f \in disks : \A p \in Paths : Alike(e, f, p)
  BY LockFiles DEF IInv
<1>2. confirmed' \in Seq(Nat) /\ Fresh' /\ ConfirmedSurvives'
  BY <1>1, SameFiles
<1>3. PICK X : X = {}
  OBVIOUS
<1>4. /\ X \in SUBSET proc[w].leases
      /\ \A p \in Paths \ X : Alike(dir', dir, p)
      /\ \A e \in disks' : e \in disks \/ \A p \in Paths \ X : Alike(e, dir, p)
  BY <1>1, <1>3
<1> QED BY <1>2, <1>4, StepHas

\* A process that has nothing in hand.
IdlePcs == {"out", "deletingPrevious", "leaving", "faulted", "finished"}

LEMMA IdleHas ==
  ASSUME NEW r, r.pc \in IdlePcs, NEW c, NEW d, NEW ds
  PROVE  Has(r, c, d, ds)
BY DEF Has, Stands, DocPcs, BasedPcs, MovePcs, IdlePcs

LEMMA EnvironmentHas ==
  ASSUME IInv, HInv, uses' = uses,
         \/ \E w \in Procs, p \in Paths : AcquireFails(w, p)
         \/ \E p \in Paths : RemoveStaleLock(p)
         \/ PowerLoss
         \/ UNCHANGED vars
  PROVE  HInv'
<1>1. dir \in Dirs /\ Types
  BY DEF IInv, Types
<1>2. CASE \/ \E w \in Procs, p \in Paths : AcquireFails(w, p)
           \/ \E p \in Paths : RemoveStaleLock(p)
           \/ UNCHANGED vars
  <2>1. PICK d : /\ d.xml = dir.xml /\ d.prev = dir.prev
                 /\ Durable(d) \/ Changed(d) \/ Same
                 /\ proc' = proc /\ confirmed' = confirmed
    <3>1. CASE \E w \in Procs, p \in Paths : AcquireFails(w, p)
      BY <1>1, <3>1, LockIs DEF AcquireFails, NoReceipt
    <3>2. CASE \E p \in Paths : RemoveStaleLock(p)
      BY <1>1, <3>2, UnlockIs DEF RemoveStaleLock
    <3>3. CASE UNCHANGED vars
      BY <3>3 DEF vars, Same
    <3> QED BY <1>2, <3>1, <3>2, <3>3
  <2>2. /\ \A p \in Paths : Alike(dir', dir, p)
        /\ \A e \in disks' : \E f \in disks : \A p \in Paths : Alike(e, f, p)
    BY <1>1, <2>1, LockFiles
  <2>3. confirmed' \in Seq(Nat) /\ Fresh' /\ ConfirmedSurvives'
    BY <2>1, <2>2, SameFiles
  <2>4. ASSUME NEW v \in Procs PROVE Has(proc[v], confirmed', dir', disks')
    <3>1. proc[v].leases \subseteq Paths
      BY <1>1 DEF Types, Recs
    <3> QED BY <2>1, <2>2, <2>3, <3>1, OtherHas
  <2>5. \A v \in Procs : Has(proc[v], confirmed, dir, disks)'
    BY <2>1, <2>4
  <2> QED BY <2>3, <2>5 DEF HInv
<1>3. CASE PowerLoss
  <2>1. PICK d \in disks : dir' = d /\ disks' = {d}
    BY <1>3 DEF PowerLoss, Durable
  <2>2. confirmed' = confirmed /\ proc' = [w \in Procs |-> Out]
    BY <1>3 DEF PowerLoss
  <2>3. \A e \in disks' : \E f \in disks : \A p \in Paths : Alike(e, f, p)
    BY <2>1 DEF Alike
  <2>4. confirmed' \in Seq(Nat) /\ Fresh' /\ ConfirmedSurvives'
    BY <2>2, <2>3, SameFiles
  <2>5. \A v \in Procs : proc'[v].pc \in IdlePcs
    BY <2>2 DEF Out, IdlePcs
  <2>6. \A v \in Procs : Has(proc[v], confirmed, dir, disks)'
    BY <2>5, IdleHas
  <2> QED BY <2>4, <2>6 DEF HInv
<1> QED BY <1>2, <1>3

-----------------------------------------------------------------------------
(* Steps that take or give back leases.                                    *)

LEMMA AcquireIs ==
  ASSUME IInv, NEW w \in Procs, NEW p \in Paths, NEW q \in Recs, Acquire(w, p, q)
  PROVE  /\ dir'.xml = dir.xml /\ dir'.prev = dir.prev /\ disks' = {dir'}
         /\ Durable(Lock(dir, p)) /\ Lock(dir, p).xml = dir.xml /\ Lock(dir, p).prev = dir.prev
         /\ \E r \in Recs :
              /\ proc' = [proc EXCEPT ![w] = r]
              /\ r.pc = q.pc /\ r.path = q.path /\ r.to = q.to
              /\ r.base = q.base /\ r.doc = q.doc
<1>1. dir \in Dirs /\ proc[w].leases \cup {p} \subseteq Paths
  BY DEF IInv, Types, Recs
<1>2. /\ Lock(dir, p).xml = dir.xml /\ Lock(dir, p).prev = dir.prev
      /\ dir' = Lock(dir, p) /\ disks' = {dir'}
  BY <1>1, LockIs DEF Acquire, Durable
<1>3. PICK r : r = [q EXCEPT !.leases = proc[w].leases \cup {p}]
  OBVIOUS
<1>4. /\ r \in Recs /\ r.pc = q.pc /\ r.path = q.path /\ r.to = q.to
      /\ r.base = q.base /\ r.doc = q.doc
  BY <1>1, <1>3 DEF Recs
<1>5. proc' = [proc EXCEPT ![w] = r]
  BY <1>3 DEF Acquire, Step
<1> QED BY <1>2, <1>4, <1>5 DEF Acquire

LEMMA BeginHas ==
  ASSUME IInv, HInv, uses' = uses, NEW w \in Procs, NEW p \in Paths,
         Open(w, p) \/ Create(w, p) \/ DeleteStart(w, p) \/ RepairStart(w, p) \/ MoveStart(w, p)
  PROVE  HInv'
<1>1. /\ Out \in Recs /\ dir \in disks /\ dir \in Dirs /\ facts \in Nat /\ proc[w] \in Recs
      /\ confirmed \in Seq(Nat) /\ confirmed' = confirmed
      /\ None \in Seq(Nat)
  BY OutIs, FileFacts DEF IInv, Types, HInv, NoReceipt, Open, Create, DeleteStart, RepairStart,
                          MoveStart
<1>2. CASE Open(w, p)
  <2>1. PICK q : q = [Out EXCEPT !.pc = "opening", !.path = p]
    OBVIOUS
  <2>2. q \in Recs /\ q.pc = "opening"
    BY <1>1, <2>1 DEF Recs, Pcs
  <2>3. Acquire(w, p, q)
    BY <1>2, <2>1 DEF Open
  <2>4. PICK r \in Recs : proc' = [proc EXCEPT ![w] = r] /\ r.pc = "opening"
    BY <2>2, <2>3, AcquireIs
  <2>5. \A e \in disks' : Stands(e, r) /\ Alike(e, dir', r.path)
    <3>1. disks' = {dir'}
      BY <2>2, <2>3, AcquireIs
    <3> QED BY <2>4, <3>1 DEF Stands, Alike
  <2>6. Has(r, confirmed', dir', disks')
    BY <2>4, <2>5 DEF Has, DocPcs, BasedPcs, MovePcs
  <2> QED BY <1>1, <2>2, <2>3, <2>4, <2>6, AcquireIs, LockStep
<1>3. CASE Create(w, p)
  <2>1. PICK q : q = [Out EXCEPT !.pc = "active", !.path = p]
    OBVIOUS
  <2>2. q \in Recs /\ q.pc = "active" /\ q.path = p /\ q.base = None
    <3>1. Out.base = None
      BY DEF Out
    <3> QED BY <1>1, <2>1, <3>1 DEF Recs, Pcs, WriterPcs
  <2>3. Acquire(w, p, q)
    BY <1>3, <2>1 DEF Create
  <2>4. PICK r \in Recs : /\ proc' = [proc EXCEPT ![w] = r]
                          /\ r.pc = "active" /\ r.path = p /\ r.base = None
    BY <2>2, <2>3, AcquireIs
  <2>5. dir'.xml[p] = None /\ dir'.prev[p] = None /\ disks' = {dir'}
    BY <1>3, <2>2, <2>3, AcquireIs DEF Create
  <2>6. IsPrefix(confirmed', None)
    BY <1>1, <1>3, PrefixFacts DEF Create
  <2>7. \A e \in disks' : Stands(e, r)
    BY <2>4, <2>5 DEF Stands
  <2>8. Has(r, confirmed', dir', disks')
    BY <2>4, <2>6, <2>7 DEF Has, DocPcs, BasedPcs, MovePcs
  <2> QED BY <1>1, <2>2, <2>3, <2>4, <2>8, AcquireIs, LockStep
<1>4. CASE DeleteStart(w, p)
  <2>1. PICK q : q = [Out EXCEPT !.pc = "deleting", !.path = p]
    OBVIOUS
  <2>2. q \in Recs /\ q.pc = "deleting" /\ q.path = p
    BY <1>1, <2>1 DEF Recs, Pcs
  <2>3. Acquire(w, p, q)
    BY <1>4, <2>1 DEF DeleteStart
  <2>4. PICK r \in Recs : proc' = [proc EXCEPT ![w] = r] /\ r.pc = "deleting" /\ r.path = p
    BY <2>2, <2>3, AcquireIs
  <2>5. dir'.xml[p] # None
    BY <1>4, <2>2, <2>3, AcquireIs DEF DeleteStart
  <2>6. \A e \in disks' : Stands(e, r)
    BY <2>4 DEF Stands
  <2>7. Has(r, confirmed', dir', disks')
    BY <2>4, <2>5, <2>6 DEF Has, DocPcs, BasedPcs, MovePcs
  <2> QED BY <1>1, <2>2, <2>3, <2>4, <2>7, AcquireIs, LockStep
<1>5. CASE RepairStart(w, p)
  <2>1. PICK b : b = RepairSource(p)
    OBVIOUS
  <2>2. PICK q : q = [Out EXCEPT !.pc = "repairing", !.path = p, !.base = b, !.doc = Next1(b)]
    OBVIOUS
  <2>3. dir.xml[p] \in Seq(Nat) /\ dir.prev[p] \in Seq(Nat) /\ IsDoc(dir.prev[p])
    BY <1>1, <1>5 DEF Dirs, RepairStart
  <2>4. p \in Places
    BY <1>1, <1>5, <2>3 DEF RepairStart, Places, Place, IsDoc
  <2>5. FreshAt(dir, p, confirmed)
    BY <1>1, <2>4 DEF HInv, Fresh
  <2>6. b \in Seq(Nat) /\ IsDoc(b) /\ b = Kept(dir, p) /\ IsPrefix(confirmed, b)
    BY <2>1, <2>3, <2>5, KeptIs DEF RepairSource, FreshAt
  <2>7. Next1(b) \in Seq(Nat) /\ Extends(b, Next1(b))
    BY <1>1, <2>6, NextExtends
  <2>8. /\ q \in Recs /\ q.pc = "repairing" /\ q.path = p /\ q.base = b
        /\ q.doc = Next1(b)
    BY <1>1, <2>2, <2>6, <2>7 DEF Recs, Pcs, WriterPcs
  <2>9. Acquire(w, p, q)
    BY <1>5, <2>1, <2>2 DEF RepairStart
  <2>10. PICK r \in Recs : /\ proc' = [proc EXCEPT ![w] = r]
                           /\ r.pc = "repairing" /\ r.path = p /\ r.base = b /\ r.doc = Next1(b)
    BY <2>8, <2>9, AcquireIs
  <2>11. /\ dir'.xml = dir.xml /\ dir'.prev = dir.prev /\ disks' = {dir'}
    BY <2>8, <2>9, AcquireIs
  <2>12. Kept(dir', p) = b
    BY <2>6, <2>11 DEF Kept
  <2>13. \A e \in disks' : Stands(e, r)
    BY <2>3, <2>10, <2>11, <2>12 DEF Stands
  <2>14. \A e \in disks' : FreshAt(e, r.path, confirmed')
    BY <1>1, <2>5, <2>10, <2>11 DEF FreshAt
  <2>15. Has(r, confirmed', dir', disks')
    BY <1>1, <2>6, <2>7, <2>10, <2>13, <2>14 DEF Has, DocPcs, BasedPcs, MovePcs
  <2> QED BY <1>1, <2>8, <2>9, <2>10, <2>15, AcquireIs, LockStep
<1>6. CASE MoveStart(w, p)
  <2>1. PICK b : b = proc[w].base
    OBVIOUS
  <2>2. PICK q : q = [proc[w] EXCEPT !.pc = "moving", !.to = p, !.doc = Next1(b)]
    OBVIOUS
  <2>3. /\ At(w, "active") /\ b # None /\ dir.xml[proc[w].path] = b /\ dir.prev[p] = None
        /\ dir.prev[proc[w].path] = None /\ b \in Seq(Nat)
    BY <1>1, <1>6, <2>1 DEF MoveStart, Recs
  <2>4. IsDoc(b) /\ IsPrefix(confirmed, b)
    BY <2>1, <2>3 DEF HInv, Has, At
  <2>5. Next1(b) \in Seq(Nat) /\ Extends(b, Next1(b))
    BY <1>1, <2>3, NextExtends
  <2>6. /\ q \in Recs /\ q.pc = "moving" /\ q.path = proc[w].path /\ q.to = p
        /\ q.base = b /\ q.doc = Next1(b)
    BY <1>1, <2>1, <2>2, <2>5 DEF Recs, Pcs, WriterPcs
  <2>7. Acquire(w, p, q)
    BY <1>6, <2>1, <2>2 DEF MoveStart
  <2>8. PICK r \in Recs : /\ proc' = [proc EXCEPT ![w] = r]
                          /\ r.pc = "moving" /\ r.path = proc[w].path /\ r.to = p
                          /\ r.base = b /\ r.doc = Next1(b)
    BY <2>6, <2>7, AcquireIs
  <2>9. /\ dir'.xml = dir.xml /\ dir'.prev = dir.prev /\ disks' = {dir'}
    BY <2>6, <2>7, AcquireIs
  <2>10. \A e \in disks' : Stands(e, r)
    BY <2>3, <2>8, <2>9 DEF Stands
  <2>11. Has(r, confirmed', dir', disks')
    BY <1>1, <2>4, <2>5, <2>8, <2>10 DEF Has, DocPcs, BasedPcs, MovePcs
  <2> QED BY <1>1, <2>6, <2>7, <2>8, <2>11, AcquireIs, LockStep
<1> QED BY <1>2, <1>3, <1>4, <1>5, <1>6

\* What is given back, and how a process ends.
LEMMA EndHas ==
  ASSUME IInv, HInv, uses' = uses, NEW w \in Procs,
         Leave(w) \/ Crash(w) \/ OpenRefused(w)
  PROVE  HInv'
<1>1. dir \in Dirs /\ confirmed' = confirmed /\ Out.pc = "out"
  BY DEF IInv, Types, Leave, Crash, OpenRefused, NoReceipt, Out
<1>2. PICK r : proc' = [proc EXCEPT ![w] = r] /\ r.pc \in IdlePcs
  <2>1. CASE Step(w, Out)
    BY <1>1, <2>1 DEF Step, IdlePcs
  <2>2. CASE Goto(w, "leaving")
    BY <2>2, GotoIs DEF Pcs, IdlePcs
  <2> QED BY <2>1, <2>2 DEF Leave, Crash, OpenRefused
<1>3. PICK d : d.xml = dir.xml /\ d.prev = dir.prev /\ (Durable(d) \/ Changed(d) \/ Same)
  BY <1>1, UnlockIs DEF Leave, Crash, OpenRefused, Same
<1>4. Has(r, confirmed', dir', disks')
  BY <1>2, IdleHas
<1> QED BY <1>1, <1>2, <1>3, <1>4, LockStep

LEMMA ReleaseDestinationHas ==
  ASSUME IInv, HInv, uses' = uses, NEW w \in Procs, ReleaseDestination(w)
  PROVE  HInv'
<1>1. /\ dir \in Dirs /\ dir \in disks /\ confirmed' = confirmed /\ confirmed \in Seq(Nat)
      /\ proc[w] \in Recs /\ proc[w].pc \in {"moving", "unhidden"}
  BY DEF IInv, Types, ReleaseDestination, NoReceipt, HInv
<1>2. /\ IsDoc(proc[w].base) /\ IsPrefix(confirmed, proc[w].base)
      /\ dir.xml[proc[w].path] = proc[w].base
  BY <1>1 DEF HInv, Has, Stands, DocPcs, BasedPcs, MovePcs
<1>3. PICK d : d = Unlock(dir, {proc[w].to})
  OBVIOUS
<1>4. d.xml = dir.xml /\ d.prev = dir.prev /\ (Durable(d) \/ Changed(d) \/ Same)
  BY <1>1, <1>3, UnlockIs DEF ReleaseDestination
<1>5. PICK q : q = [proc[w] EXCEPT !.to = "none", !.leases = @ \ {proc[w].to}]
  OBVIOUS
<1>6. q \in Recs /\ q.path = proc[w].path /\ q.base = proc[w].base
  BY <1>1, <1>5 DEF Recs
<1>7. CASE Durable(d) /\ Step(w, [q EXCEPT !.pc = "active"])
  <2>1. PICK r : r = [q EXCEPT !.pc = "active"]
    OBVIOUS
  <2>2. /\ r.pc = "active" /\ r.path = proc[w].path /\ r.base = proc[w].base
        /\ proc' = [proc EXCEPT ![w] = r]
    BY <1>6, <1>7, <2>1 DEF Recs, Step
  <2>3. dir' = d /\ disks' = {d} /\ r.base # None
    BY <1>2, <1>7, <2>2 DEF Durable, IsDoc
  <2>4. \A e \in disks' : Stands(e, r)
    BY <1>2, <1>4, <2>2, <2>3 DEF Stands
  <2>5. Has(r, confirmed', dir', disks')
    BY <1>1, <1>2, <2>2, <2>4 DEF Has, DocPcs, BasedPcs, MovePcs
  <2> QED BY <1>1, <1>4, <2>2, <2>5, LockStep
<1>8. CASE Step(w, [q EXCEPT !.pc = "faulted"]) \/ Goto(w, "faulted")
  <2>1. PICK r : proc' = [proc EXCEPT ![w] = r] /\ r.pc \in IdlePcs
    <3>1. CASE Step(w, [q EXCEPT !.pc = "faulted"])
      <4>1. PICK r : r = [q EXCEPT !.pc = "faulted"]
        OBVIOUS
      <4>2. r.pc = "faulted" /\ proc' = [proc EXCEPT ![w] = r]
        BY <1>6, <3>1, <4>1 DEF Recs, Step
      <4> QED BY <4>2 DEF IdlePcs
    <3>2. CASE Goto(w, "faulted")
      BY <3>2, GotoIs DEF Pcs, WriterPcs, IdlePcs
    <3> QED BY <1>8, <3>1, <3>2
  <2>2. Has(r, confirmed', dir', disks')
    BY <2>1, IdleHas
  <2> QED BY <1>1, <1>4, <2>1, <2>2, LockStep
<1> QED BY <1>3, <1>5, <1>7, <1>8 DEF ReleaseDestination

-----------------------------------------------------------------------------
(* Steps that write a file.                                                *)

LEMMA XmlAlike ==
  ASSUME NEW d \in Dirs, NEW x \in Paths, NEW c
  PROVE  /\ SetXml(d, x, c).xml[x] = c /\ SetXml(d, x, c).prev = d.prev
         /\ \A q \in Paths \ {x} : Alike(SetXml(d, x, c), d, q)
<1>1. SetXml(d, x, c).xml = [d.xml EXCEPT ![x] = c] /\ SetXml(d, x, c).prev = d.prev
  BY DEF SetXml, Dirs
<1>2. d.xml \in [Paths -> Seq(Nat)]
  BY DEF Dirs
<1> QED BY <1>1, <1>2 DEF Alike

LEMMA PrevAlike ==
  ASSUME NEW d \in Dirs, NEW x \in Paths, NEW c
  PROVE  /\ SetPrev(d, x, c).prev[x] = c /\ SetPrev(d, x, c).xml = d.xml
         /\ \A q \in Paths \ {x} : Alike(SetPrev(d, x, c), d, q)
<1>1. SetPrev(d, x, c).prev = [d.prev EXCEPT ![x] = c] /\ SetPrev(d, x, c).xml = d.xml
  BY DEF SetPrev, Dirs
<1>2. d.prev \in [Paths -> Seq(Nat)]
  BY DEF Dirs
<1> QED BY <1>1, <1>2 DEF Alike

\* What a power loss makes of a replacement at x that is not atomic.
Half(e, x) == e.xml[x] \in {None, Torn} /\ e.prev[x] = dir.prev[x]

\* What there may be after a change at x.
LEMMA Outcomes ==
  ASSUME Types, NEW d, NEW x \in Paths, \A p \in Paths \ {x} : Alike(d, dir, p),
         Durable(d) \/ Changed(d) \/ Same \/ Replaced(d, x)
  PROVE  /\ \A p \in Paths \ {x} : Alike(dir', dir, p)
         /\ \A e \in disks' :
              \/ e \in disks
              \/ /\ \A p \in Paths \ {x} : Alike(e, dir, p)
                 /\ e = d \/ (Replaced(d, x) /\ Half(e, x))
<1>1. dir \in Dirs
  BY DEF Types
<1>2. dir' \in {dir, d}
  BY DEF Durable, Changed, Same, Replaced
<1>3. \A p \in Paths \ {x} : Alike(dir', dir, p)
  BY <1>2 DEF Alike
<1>4. ASSUME NEW e \in disks', e \notin disks, e # d
      PROVE  (\A p \in Paths \ {x} : Alike(e, dir, p)) /\ Replaced(d, x) /\ Half(e, x)
  <2>1. Replaced(d, x)
    BY <1>4 DEF Durable, Changed, Same
  <2>2. PICK c \in {None, Torn} : e = SetXml(dir, x, c)
    BY <1>4, <2>1 DEF Replaced
  <2> QED BY <1>1, <2>1, <2>2, XmlAlike DEF Half
<1> QED BY <1>3, <1>4

\* A document that is official is the Context, and nothing else is.
LEMMA Homed ==
  ASSUME IInv', NEW x \in Paths, dir'.xml[x] # None
  PROVE  Places' \subseteq {x}
<1>1. x \in Places'
  BY DEF IInv, Types, Places, Place
<1> QED BY <1>1 DEF IInv

\* What must hold of an outcome e when the files of the Context are at h.
Survives(e, h, c) == FreshAt(e, h, c) /\ \E p \in Paths : IsPrefix(c, Kept(e, p))

\* A process writes at x, and the Context is at h.
LEMMA WriteHas ==
  ASSUME IInv, HInv, NEW w \in Procs, NEW r, proc' = [proc EXCEPT ![w] = r],
         NEW x \in proc[w].leases, NEW h, Places' \subseteq {h},
         NEW d, \A p \in Paths \ {x} : Alike(d, dir, p),
         Durable(d) \/ Changed(d) \/ Same \/ Replaced(d, x),
         confirmed' \in Seq(Nat),
         confirmed' \in {confirmed, None} \/ proc[w].pc \in WriterPcs,
         \A e \in disks' : Survives(e, h, confirmed'),
         Has(r, confirmed', dir', disks')
  PROVE  HInv'
<1>1. Types /\ x \in Paths
  BY DEF IInv, Types, Recs
<1>2. PICK X : X = {x}
  OBVIOUS
<1>3. /\ \A p \in Paths \ X : Alike(dir', dir, p)
      /\ \A e \in disks' : e \in disks \/ \A p \in Paths \ X : Alike(e, dir, p)
  <2>1. /\ \A p \in Paths \ {x} : Alike(dir', dir, p)
        /\ \A e \in disks' : e \in disks \/ \A p \in Paths \ {x} : Alike(e, dir, p)
    BY <1>1, Outcomes
  <2> QED BY <1>2, <2>1
<1>4. Fresh' /\ ConfirmedSurvives'
  BY DEF Fresh, ConfirmedSurvives, Survives
<1> QED BY <1>2, <1>3, <1>4, StepHas

\* What survives at the path of the Context, and in an outcome there was.
LEMMA SurvivesAt ==
  ASSUME NEW e, NEW p \in Paths, NEW c, FreshAt(e, p, c), IsDoc(e.xml[p]) \/ IsDoc(e.prev[p])
  PROVE  Survives(e, p, c)
BY KeptIs DEF Survives, FreshAt

\* What the step of a process tells of the files, and of its documents.
LEMMA FactsOf ==
  ASSUME IInv, HInv, NEW w \in Procs, ~ At(w, "out")
  PROVE  /\ Types /\ dir \in Dirs /\ dir \in disks /\ confirmed \in Seq(Nat)
         /\ proc[w] \in Recs /\ proc[w].path \in proc[w].leases /\ proc[w].path \in Paths
         /\ proc[w].base \in Seq(Nat) /\ proc[w].doc \in Seq(Nat)
         /\ Sound(proc[w], Places, uses) /\ Has(proc[w], confirmed, dir, disks)
         /\ \A e \in disks : \E p \in Paths : IsPrefix(confirmed, Kept(e, p))
         /\ proc[w].pc \in DocPcs => /\ IsPrefix(confirmed, proc[w].base)
                                     /\ IsPrefix(confirmed, proc[w].doc)
                                     /\ IsDoc(proc[w].base) /\ IsDoc(proc[w].doc)
                                     /\ Extends(proc[w].base, proc[w].doc)
<1>1. /\ Types /\ dir \in Dirs /\ dir \in disks /\ confirmed \in Seq(Nat)
      /\ proc[w] \in Recs /\ proc[w].path \in proc[w].leases /\ proc[w].path \in Paths
      /\ proc[w].base \in Seq(Nat) /\ proc[w].doc \in Seq(Nat)
      /\ Sound(proc[w], Places, uses) /\ Has(proc[w], confirmed, dir, disks)
      /\ \A e \in disks : \E p \in Paths : IsPrefix(confirmed, Kept(e, p))
  BY ProcIs, DirPlaces DEF IInv, HInv, ConfirmedSurvives
<1>2. proc[w].pc \in DocPcs => /\ IsPrefix(confirmed, proc[w].base)
                               /\ IsDoc(proc[w].base) /\ Extends(proc[w].base, proc[w].doc)
  BY <1>1 DEF Has
<1> QED BY <1>1, <1>2, PrefixFacts DEF Extends


-----------------------------------------------------------------------------
(* publish                                                                 *)

LEMMA PublishFirstHas ==
  ASSUME IInv, HInv, IInv', NEW w \in Procs, PublishFirst(w)
  PROVE  HInv'
<1>1. PICK p \in Paths : p = proc[w].path
  BY FactsOf DEF PublishFirst, At
<1>2. PICK doc : doc = Next1(None)
  OBVIOUS
<1>3. PICK d : d = SetXml(dir, p, doc)
  OBVIOUS
<1>4. /\ At(w, "active") /\ proc[w].base = None
      /\ \/ /\ Durable(d) /\ confirmed' = doc
            /\ Step(w, [proc[w] EXCEPT !.base = doc])
         \/ Changed(d) /\ Fault(w)
  BY <1>1, <1>2, <1>3 DEF PublishFirst
<1>5. /\ dir \in Dirs /\ confirmed \in Seq(Nat) /\ proc[w] \in Recs /\ p \in proc[w].leases
      /\ Has(proc[w], confirmed, dir, disks) /\ facts \in Nat /\ ~ At(w, "out")
      /\ \A e \in disks : \E q \in Paths : IsPrefix(confirmed, Kept(e, q))
  BY <1>1, <1>4, FactsOf DEF At, Types
<1>6. doc \in Seq(Nat) /\ IsDoc(doc) /\ IsPrefix(confirmed, doc)
  <2>1. None \in Seq(Nat) /\ IsPrefix(confirmed, None)
    BY <1>4, <1>5, FileFacts DEF Has, At
  <2>2. doc \in Seq(Nat) /\ Extends(None, doc)
    BY <1>2, <1>5, <2>1, NextExtends
  <2> QED BY <1>5, <2>1, <2>2, PrefixFacts DEF Extends
<1>7. /\ d.xml[p] = doc /\ d.prev = dir.prev /\ \A q \in Paths \ {p} : Alike(d, dir, q)
  BY <1>3, <1>5, XmlAlike
<1>8. \A e \in disks : e.xml[p] = None /\ e.prev[p] = None
  BY <1>1, <1>4, <1>5 DEF Has, Stands, At
<1>9. dir' = d /\ Places' \subseteq {p} /\ d.prev[p] = None
  <2>1. dir' = d
    BY <1>4 DEF Durable, Changed
  <2>2. dir \in disks
    BY <1>4, FactsOf DEF At
  <2> QED BY <1>6, <1>7, <1>8, <2>1, <2>2, Homed DEF IsDoc
<1>10. ASSUME NEW c, IsPrefix(c, doc) PROVE Survives(d, p, c)
  <2>1. FreshAt(d, p, c)
    BY <1>7, <1>9, <1>10 DEF FreshAt, IsDoc
  <2> QED BY <1>6, <1>7, <2>1, SurvivesAt
<1>11. CASE Durable(d) /\ confirmed' = doc /\ Step(w, [proc[w] EXCEPT !.base = doc])
  <2>1. PICK r : r = [proc[w] EXCEPT !.base = doc]
    OBVIOUS
  <2>2. /\ proc' = [proc EXCEPT ![w] = r] /\ r.pc = "active" /\ r.path = p /\ r.base = doc
    BY <1>1, <1>4, <1>5, <1>11, <2>1 DEF Recs, Step, At
  <2>3. disks' = {d} /\ IsPrefix(doc, doc)
    BY <1>6, <1>11, PrefixFacts DEF Durable
  <2>4. Stands(d, r)
    BY <1>6, <1>7, <2>2 DEF Stands, IsDoc
  <2>5. Has(r, confirmed', dir', disks')
    BY <1>6, <1>11, <2>2, <2>3, <2>4 DEF Has, DocPcs, BasedPcs, MovePcs
  <2>6. \A e \in disks' : Survives(e, p, confirmed')
    BY <1>10, <1>11, <2>3
  <2>7. proc[w].pc \in WriterPcs /\ confirmed' \in Seq(Nat)
    BY <1>4, <1>6, <1>11 DEF At, WriterPcs
  <2> QED BY <1>5, <1>7, <1>9, <1>11, <2>2, <2>5, <2>6, <2>7, WriteHas
<1>12. CASE Changed(d) /\ Fault(w)
  <2>1. confirmed' = confirmed /\ Goto(w, "faulted")
    BY <1>12 DEF Fault, NoReceipt
  <2>2. PICK r : proc' = [proc EXCEPT ![w] = r] /\ r.pc = "faulted"
    BY <2>1, GotoIs DEF Pcs, WriterPcs
  <2>3. Has(r, confirmed', dir', disks')
    BY <2>2, IdleHas DEF IdlePcs
  <2>4. ASSUME NEW e \in disks' PROVE Survives(e, p, confirmed')
    <3>1. CASE e = d
      BY <1>6, <1>10, <2>1, <3>1
    <3>2. CASE e \in disks
      BY <1>5, <1>8, <2>1, <3>2 DEF Survives, FreshAt, IsDoc
    <3> QED BY <1>12, <3>1, <3>2 DEF Changed
  <2> QED BY <1>5, <1>7, <1>9, <1>12, <2>1, <2>2, <2>3, <2>4, WriteHas
<1> QED BY <1>4, <1>11, <1>12

\* The official file is the one the process has opened, and the change, at its
\* path, leaves it or writes the next document over it.
LEMMA AtHome ==
  ASSUME IInv, HInv, IInv', NEW w \in Procs, NEW p \in Paths, p = proc[w].path,
         NEW r, proc' = [proc EXCEPT ![w] = r], proc[w].pc # "out",
         confirmed' = confirmed,
         NEW d, \A q \in Paths \ {p} : Alike(d, dir, q),
         Durable(d) \/ Changed(d) \/ Same \/ (Replaced(d, p) /\ IsDoc(dir.prev[p])),
         dir'.xml[p] # None,
         \A e \in disks : FreshAt(e, p, confirmed),
         FreshAt(d, p, confirmed), IsDoc(d.xml[p]) \/ IsDoc(d.prev[p]),
         Has(r, confirmed', dir', disks')
  PROVE  HInv'
<1>1. /\ Types /\ dir \in disks /\ confirmed \in Seq(Nat) /\ p \in proc[w].leases
      /\ \A e \in disks : \E q \in Paths : IsPrefix(confirmed, Kept(e, q))
  BY FactsOf DEF At
<1>2. Places' \subseteq {p}
  BY Homed
<1>3. ASSUME NEW e \in disks' PROVE Survives(e, p, confirmed)
  <2>1. CASE e \in disks
    BY <1>1, <2>1 DEF Survives
  <2>2. CASE e = d
    BY <2>2, SurvivesAt
  <2>3. CASE e \notin disks /\ e # d
    <3>0. Half(e, p) /\ IsDoc(dir.prev[p])
      BY <1>1, <2>3, Outcomes DEF Durable, Changed, Same
    <3>1. FreshAt(e, p, confirmed) /\ IsDoc(e.prev[p])
      BY <1>1, <3>0 DEF FreshAt, Half, IsDoc
    <3> QED BY <3>1, SurvivesAt
  <2> QED BY <2>1, <2>2, <2>3
<1> QED BY <1>1, <1>2, <1>3, WriteHas

LEMMA KeepPreviousHas ==
  ASSUME IInv, HInv, IInv', NEW w \in Procs, KeepPrevious(w)
  PROVE  HInv'
<1>1. PICK p \in Paths : p = proc[w].path
  BY FactsOf DEF KeepPrevious, At
<1>2. PICK b : b = proc[w].base
  OBVIOUS
<1>3. PICK d : d = SetPrev(dir, p, Torn)
  OBVIOUS
<1>4. PICK r : r = [proc[w] EXCEPT !.pc = "copying", !.doc = Next1(b)]
  OBVIOUS
<1>5. /\ At(w, "active") /\ b # None /\ dir.xml[p] = b /\ Changed(d)
      /\ proc' = [proc EXCEPT ![w] = r] /\ confirmed' = confirmed
  BY <1>1, <1>2, <1>3, <1>4 DEF KeepPrevious, Step, NoReceipt
<1>6. /\ dir \in Dirs /\ dir \in disks /\ confirmed \in Seq(Nat) /\ proc[w] \in Recs
      /\ b \in Seq(Nat) /\ facts \in Nat /\ Has(proc[w], confirmed, dir, disks)
  BY <1>1, <1>2, <1>5, FactsOf DEF At, Types
<1>7. /\ IsDoc(b) /\ IsPrefix(confirmed, b) /\ \A e \in disks : e.xml[p] = b
  BY <1>1, <1>2, <1>5, <1>6 DEF Has, Stands, At
<1>8. Next1(b) \in Seq(Nat) /\ Extends(b, Next1(b))
  BY <1>6, NextExtends
<1>9. r.pc = "copying" /\ r.path = p /\ r.base = b /\ r.doc = Next1(b)
  BY <1>1, <1>2, <1>4, <1>6, <1>8 DEF Recs
<1>10. /\ d.prev[p] = Torn /\ d.xml = dir.xml /\ \A q \in Paths \ {p} : Alike(d, dir, q)
  BY <1>3, <1>6, PrevAlike
<1>11. dir' = d /\ disks' = disks \cup {d}
  BY <1>5 DEF Changed
<1>12. \A e \in disks' : Stands(e, r)
  BY <1>5, <1>7, <1>9, <1>10, <1>11 DEF Stands
<1>13. Has(r, confirmed', dir', disks')
  BY <1>5, <1>7, <1>8, <1>9, <1>12 DEF Has, DocPcs, BasedPcs, MovePcs
<1>14. \A e \in disks : FreshAt(e, p, confirmed)
  <2>1. p \in Places
    BY <1>5, <1>6 DEF Places, Place
  <2> QED BY <2>1 DEF HInv, Fresh
<1>15. FreshAt(d, p, confirmed) /\ IsDoc(d.xml[p])
  BY <1>5, <1>7, <1>10 DEF FreshAt, IsDoc
<1>16. dir'.xml[p] # None /\ proc[w].pc # "out"
  BY <1>5, <1>7, <1>10, <1>11 DEF IsDoc, At
<1> QED BY <1>1, <1>5, <1>10, <1>13, <1>14, <1>15, <1>16, AtHome

\* The steps after it, until the new generation is there.
LEMMA PublishStepHas ==
  ASSUME IInv, HInv, IInv', NEW w \in Procs,
         CopyPrevious(w) \/ Replace(w) \/ PublishFails(w)
  PROVE  HInv'
<1>1. PICK p \in Paths : p = proc[w].path
  BY FactsOf DEF CopyPrevious, Replace, MayReplace, PublishFails, At
<1>2. PICK b : b = proc[w].base
  OBVIOUS
<1>3. PICK doc : doc = proc[w].doc
  OBVIOUS
<1>4. proc[w].pc \in {"copying", "kept"} /\ confirmed' = confirmed
  BY DEF CopyPrevious, Replace, MayReplace, PublishFails, At, NoReceipt
<1>5. /\ dir \in Dirs /\ dir \in disks /\ confirmed \in Seq(Nat)
      /\ b \in Seq(Nat) /\ Has(proc[w], confirmed, dir, disks)
      /\ IsDoc(b) /\ IsPrefix(confirmed, b) /\ IsDoc(doc) /\ IsPrefix(confirmed, doc)
      /\ Extends(b, doc)
  BY <1>1, <1>2, <1>3, <1>4, FactsOf DEF At, DocPcs, BasedPcs
<1>6. \A e \in disks : e.xml[p] = b /\ (proc[w].pc = "kept" => e.prev[p] = b)
  BY <1>1, <1>2, <1>4, <1>5 DEF Has, Stands
<1>7. \A e \in disks : FreshAt(e, p, confirmed)
  <2>1. p \in Places
    BY <1>5, <1>6 DEF Places, Place, IsDoc
  <2> QED BY <2>1 DEF HInv, Fresh
<1>8. ASSUME NEW pc \in {"kept", "replaced", "faulted", "active"}, Goto(w, pc), NEW d,
             Durable(d) \/ Changed(d) \/ Same \/ (Replaced(d, p) /\ IsDoc(dir.prev[p])),
             \A q \in Paths \ {p} : Alike(d, dir, q), d.xml[p] \in {b, doc},
             IsDoc(d.prev[p]) => IsPrefix(confirmed, d.prev[p]),
             \A e \in disks' :
               /\ pc \in {"kept", "active"} => e.xml[p] = b
               /\ pc = "kept" => e.prev[p] = b
               /\ pc = "replaced" => e.xml[p] = doc
      PROVE  HInv'
  <2>1. PICK r : /\ proc' = [proc EXCEPT ![w] = r] /\ r.pc = pc /\ r.path = p
                 /\ r.base = b /\ r.doc = doc
    BY <1>1, <1>2, <1>3, <1>8, GotoIs DEF Pcs, WriterPcs
  <2>2. \A e \in disks' : Stands(e, r)
    BY <1>5, <1>8, <2>1 DEF Stands, IsDoc
  <2>3. Has(r, confirmed', dir', disks')
    BY <1>4, <1>5, <1>8, <2>1, <2>2 DEF Has, DocPcs, BasedPcs, MovePcs
  <2>4. dir' \in {dir, d} /\ dir'.xml[p] # None /\ proc[w].pc # "out"
    BY <1>4, <1>5, <1>6, <1>8 DEF Durable, Changed, Same, Replaced, IsDoc
  <2>5. FreshAt(d, p, confirmed) /\ IsDoc(d.xml[p])
    BY <1>5, <1>8 DEF FreshAt
  <2> QED BY <1>1, <1>4, <1>7, <1>8, <2>1, <2>3, <2>4, <2>5, AtHome
<1>9. CASE CopyPrevious(w)
  <2>1. PICK d : d = SetPrev(dir, p, b)
    OBVIOUS
  <2>2. Durable(d) /\ Goto(w, "kept")
    BY <1>1, <1>2, <1>9, <2>1 DEF CopyPrevious
  <2>3. d.prev[p] = b /\ d.xml = dir.xml /\ \A q \in Paths \ {p} : Alike(d, dir, q)
    BY <1>5, <2>1, PrevAlike
  <2>4. disks' = {d} /\ d.xml[p] = b
    BY <1>5, <1>6, <2>2, <2>3 DEF Durable
  <2> QED BY <1>5, <1>8, <2>2, <2>3, <2>4
<1>10. CASE Replace(w)
  <2>1. PICK d : d = SetXml(dir, p, doc)
    OBVIOUS
  <2>2. /\ proc[w].pc = "kept"
        /\ (Durable(d) /\ Goto(w, "replaced")) \/ (Replaced(d, p) /\ Goto(w, "faulted"))
    BY <1>1, <1>3, <1>10, <2>1 DEF Replace, MayReplace, At
  <2>3. d.xml[p] = doc /\ d.prev = dir.prev /\ \A q \in Paths \ {p} : Alike(d, dir, q)
    BY <1>5, <2>1, XmlAlike
  <2>4. IsDoc(dir.prev[p]) /\ d.prev[p] = b
    BY <1>5, <1>6, <2>2, <2>3
  <2>5. CASE Durable(d) /\ Goto(w, "replaced")
    <3>1. disks' = {d}
      BY <2>5 DEF Durable
    <3> QED BY <1>5, <1>8, <2>3, <2>4, <2>5, <3>1
  <2>6. CASE Replaced(d, p) /\ Goto(w, "faulted")
    BY <1>5, <1>8, <2>3, <2>4, <2>6
  <2> QED BY <2>2, <2>5, <2>6
<1>11. CASE PublishFails(w)
  <2>1. PICK d : d = SetPrev(dir, p, None)
    OBVIOUS
  <2>2. Goto(w, "active") /\ (Durable(d) \/ Changed(d) \/ Same)
    BY <1>1, <1>11, <2>1 DEF PublishFails
  <2>3. d.prev[p] = None /\ d.xml = dir.xml /\ \A q \in Paths \ {p} : Alike(d, dir, q)
    BY <1>5, <2>1, PrevAlike
  <2>4. d.xml[p] = b /\ \A e \in disks' : e \in disks \cup {d}
    BY <1>5, <1>6, <2>2, <2>3 DEF Durable, Changed, Same
  <2> QED BY <1>5, <1>6, <1>8, <2>2, <2>3, <2>4 DEF IsDoc
<1> QED BY <1>9, <1>10, <1>11

\* A step of w that leaves the files, and ends its operation.
LEMMA FileKept ==
  ASSUME IInv, HInv, uses' = uses, NEW w \in Procs, Same, confirmed' = confirmed,
         Step(w, Out) \/ Goto(w, "faulted") \/ Goto(w, "leaving")
  PROVE  HInv'
<1>1. PICK r : proc' = [proc EXCEPT ![w] = r] /\ r.pc \in {"out", "faulted", "leaving"}
  <2>1. CASE Step(w, Out)
    <3>1. Out.pc = "out"
      BY DEF Out
    <3> QED BY <2>1, <3>1 DEF Step
  <2>2. CASE Goto(w, "faulted") \/ Goto(w, "leaving")
    BY <2>2, GotoIs DEF Pcs, WriterPcs
  <2> QED BY <2>1, <2>2
<1>2. Has(r, confirmed', dir', disks')
  BY <1>1, IdleHas DEF IdlePcs
<1>3. PICK d : d = dir
  OBVIOUS
<1> QED BY <1>1, <1>2, <1>3, LockStep

\* A receipt, when the file beside the new generation at h is removed.
LEMMA ReceiptHas ==
  ASSUME IInv, HInv, IInv', NEW w \in Procs, NEW h \in Paths, NEW r,
         proc' = [proc EXCEPT ![w] = r], proc[w].pc \in {"replaced", "moved", "repaired"},
         NEW d, d.prev[proc[w].path] = None, d.xml = dir.xml,
         \A q \in Paths \ {proc[w].path} : Alike(d, dir, q), Durable(d),
         confirmed' = proc[w].doc,
         dir.xml[h] = proc[w].doc, h = proc[w].path \/ dir.prev[h] = None,
         r.pc \in {"active", "finished"},
         r.pc = "active" => r.path = h /\ r.base = proc[w].doc
  PROVE  HInv'
<1>1. PICK p \in Paths : p = proc[w].path
  BY FactsOf DEF At
<1>2. PICK doc : doc = proc[w].doc
  OBVIOUS
<1>3. dir \in Dirs /\ IsDoc(doc) /\ doc \in Seq(Nat) /\ p \in proc[w].leases
  BY <1>1, <1>2, FactsOf DEF At, DocPcs, BasedPcs, MovePcs
<1>4. d.prev[p] = None /\ d.xml = dir.xml /\ \A q \in Paths \ {p} : Alike(d, dir, q)
  BY <1>1
<1>5. d.xml[h] = doc /\ d.prev[h] = None
  BY <1>1, <1>2, <1>4 DEF Alike
<1>6. dir' = d /\ disks' = {d} /\ Places' \subseteq {h}
  BY <1>3, <1>5, Homed DEF Durable, IsDoc
<1>7. Survives(d, h, doc)
  <2>1. FreshAt(d, h, doc)
    BY <1>3, <1>5, PrefixFacts DEF FreshAt, IsDoc
  <2> QED BY <1>3, <1>5, <2>1, SurvivesAt
<1>8. Stands(d, r)
  BY <1>2, <1>3, <1>5 DEF Stands, IsDoc
<1>9. Has(r, confirmed', dir', disks')
  BY <1>2, <1>3, <1>6, <1>8, PrefixFacts DEF Has, DocPcs, BasedPcs, MovePcs
<1>10. proc[w].pc \in WriterPcs /\ confirmed' \in Seq(Nat)
       /\ \A e \in disks' : Survives(e, h, confirmed')
  BY <1>2, <1>3, <1>6, <1>7 DEF WriterPcs
<1>11. Durable(d) \/ Changed(d) \/ Same \/ Replaced(d, p)
  OBVIOUS
<1> QED BY <1>3, <1>4, <1>6, <1>9, <1>10, <1>11, WriteHas

\* The file beside the new generation is removed, or is not.
LEMMA CleanHas ==
  ASSUME IInv, HInv, IInv', NEW w \in Procs, uses' = uses,
         CleanPrevious(w) \/ MoveClean(w) \/ RepairClean(w)
  PROVE  HInv'
<1>1. PICK p \in Paths : p = proc[w].path
  BY FactsOf DEF CleanPrevious, MoveClean, RepairClean, At
<1>2. PICK doc : doc = proc[w].doc
  OBVIOUS
<1>3. PICK d : d = SetPrev(dir, p, None)
  OBVIOUS
<1>4. PICK h : h = IF At(w, "moved") THEN proc[w].to ELSE p
  OBVIOUS
<1>5. /\ proc[w].pc \in {"replaced", "moved", "repaired"}
      /\ proc[w].pc = "moved" <=> MoveClean(w)
      /\ proc[w].pc = "replaced" <=> CleanPrevious(w)
      /\ proc[w].pc = "repaired" <=> RepairClean(w)
  BY DEF CleanPrevious, MoveClean, RepairClean, At
<1>6. /\ dir \in Dirs /\ dir \in disks /\ confirmed \in Seq(Nat) /\ IsDoc(doc) /\ doc \in Seq(Nat)
      /\ IsPrefix(confirmed, doc) /\ proc[w] \in Recs /\ p \in proc[w].leases /\ h \in Paths
      /\ Has(proc[w], confirmed, dir, disks) /\ ~ At(w, "out")
      /\ \A e \in disks : \E q \in Paths : IsPrefix(confirmed, Kept(e, q))
  <2>1. /\ dir \in Dirs /\ dir \in disks /\ confirmed \in Seq(Nat) /\ proc[w] \in Recs
        /\ doc \in Seq(Nat) /\ p \in proc[w].leases
        /\ Has(proc[w], confirmed, dir, disks) /\ ~ At(w, "out")
        /\ Sound(proc[w], Places, uses)
        /\ \A e \in disks : \E q \in Paths : IsPrefix(confirmed, Kept(e, q))
    BY <1>1, <1>2, <1>5, FactsOf DEF At
  <2>2. IsDoc(doc) /\ IsPrefix(confirmed, doc)
    BY <1>2, <1>5, FactsOf DEF At, DocPcs, BasedPcs, MovePcs
  <2>3. h \in Paths
    BY <1>1, <1>4, <2>1 DEF Sound, At, MovePcs, Recs
  <2> QED BY <2>1, <2>2, <2>3
<1>7. \A e \in disks : e.xml[h] = doc /\ (h # p => e.prev[h] = None)
  BY <1>1, <1>2, <1>4, <1>5, <1>6 DEF Has, Stands, At
<1>8. \/ /\ Durable(d) /\ confirmed' = doc
         /\ \E r : /\ proc' = [proc EXCEPT ![w] = r] /\ r.pc \in {"active", "finished"}
                   /\ r.pc = "active" => r.path = h /\ r.base = doc
      \/ /\ (Changed(d) \/ Same) /\ confirmed' = confirmed
         /\ Goto(w, "faulted") \/ Goto(w, "leaving")
  <2>1. CASE CleanPrevious(w)
    <3>1. \/ Durable(d) /\ Receipt(w, Rebased(proc[w]))
          \/ (Changed(d) \/ Same) /\ Fault(w)
      BY <1>1, <1>3, <2>1 DEF CleanPrevious
    <3>2. PICK r : r = Rebased(proc[w])
      OBVIOUS
    <3>3. r.pc = "active" /\ r.path = p /\ r.base = doc
      BY <1>1, <1>2, <1>6, <3>2 DEF Rebased, Recs
    <3>4. h = p
      BY <1>4, <1>5, <2>1 DEF At
    <3> QED BY <1>2, <3>1, <3>2, <3>3, <3>4 DEF Receipt, Step, Fault, NoReceipt
  <2>2. CASE MoveClean(w)
    <3>1. PICK r : r = [Rebased(proc[w]) EXCEPT !.path = proc[w].to, !.to = "none"]
      OBVIOUS
    <3>2. \/ Durable(d) /\ Receipt(w, r)
          \/ (Changed(d) \/ Same) /\ Fault(w)
      BY <1>1, <1>3, <2>2, <3>1 DEF MoveClean
    <3>3. r.pc = "active" /\ r.path = proc[w].to /\ r.base = doc
      BY <1>1, <1>2, <1>6, <3>1 DEF Rebased, Recs
    <3>4. h = proc[w].to
      BY <1>4, <1>5, <2>2 DEF At
    <3> QED BY <1>2, <3>2, <3>3, <3>4 DEF Receipt, Step, Fault, NoReceipt
  <2>3. CASE RepairClean(w)
    <3>1. PICK r : r = [proc[w] EXCEPT !.pc = "finished", !.base = proc[w].doc]
      OBVIOUS
    <3>2. \/ Durable(d) /\ Receipt(w, r)
          \/ (Changed(d) \/ Same) /\ Goto(w, "leaving") /\ NoReceipt
      BY <1>1, <1>3, <2>3, <3>1 DEF RepairClean
    <3>3. r.pc = "finished"
      BY <1>6, <3>1 DEF Recs
    <3> QED BY <1>2, <3>2, <3>3 DEF Receipt, Step, NoReceipt
  <2> QED BY <2>1, <2>2, <2>3
<1>9. CASE /\ Durable(d) /\ confirmed' = doc
           /\ \E r : /\ proc' = [proc EXCEPT ![w] = r] /\ r.pc \in {"active", "finished"}
                     /\ r.pc = "active" => r.path = h /\ r.base = doc
  <2>1. d.prev[p] = None /\ d.xml = dir.xml /\ \A q \in Paths \ {p} : Alike(d, dir, q)
    BY <1>3, <1>6, PrevAlike
  <2> QED BY <1>1, <1>2, <1>5, <1>6, <1>7, <1>9, <2>1, ReceiptHas
<1>10. CASE Same /\ confirmed' = confirmed /\ (Goto(w, "faulted") \/ Goto(w, "leaving"))
  BY <1>10, FileKept
<1>11. CASE Changed(d) /\ confirmed' = confirmed /\ (Goto(w, "faulted") \/ Goto(w, "leaving"))
  <2>1. PICK r : proc' = [proc EXCEPT ![w] = r] /\ r.pc \in {"faulted", "leaving"}
    BY <1>11, GotoIs DEF Pcs, WriterPcs
  <2>2. Has(r, confirmed', dir', disks')
    BY <2>1, IdleHas DEF IdlePcs
  <2>3. d.prev[p] = None /\ d.xml = dir.xml /\ \A q \in Paths \ {p} : Alike(d, dir, q)
    BY <1>3, <1>6, PrevAlike
  <2>4. dir' = d /\ disks' = disks \cup {d} /\ d.xml[h] = doc /\ d.prev[h] = None
    <3>1. d.prev[h] = None
      BY <1>6, <1>7, <2>3 DEF Alike
    <3> QED BY <1>6, <1>7, <1>11, <2>3, <3>1 DEF Changed
  <2>5. Places' \subseteq {h}
    BY <1>6, <2>4, Homed DEF IsDoc
  <2>6. \A e \in disks : FreshAt(e, h, confirmed)
    <3>1. h \in Places
      BY <1>6, <1>7 DEF Places, Place, IsDoc
    <3> QED BY <3>1 DEF HInv, Fresh
  <2>7. FreshAt(d, h, confirmed)
    BY <1>6, <2>4 DEF FreshAt, IsDoc
  <2>8. ASSUME NEW e \in disks' PROVE Survives(e, h, confirmed)
    <3>1. FreshAt(e, h, confirmed) /\ IsDoc(e.xml[h])
      BY <1>6, <1>7, <2>4, <2>6, <2>7
    <3> QED BY <1>6, <3>1, SurvivesAt
  <2> QED BY <1>6, <1>11, <2>1, <2>2, <2>3, <2>5, <2>8, WriteHas
<1> QED BY <1>8, <1>9, <1>10, <1>11

-----------------------------------------------------------------------------
(* acquire                                                                 *)

LEMMA OpenValidHas ==
  ASSUME IInv, HInv, IInv', uses' = uses, NEW w \in Procs, OpenValid(w)
  PROVE  HInv'
<1>1. PICK p \in Paths : p = proc[w].path
  BY FactsOf DEF OpenValid, At
<1>2. PICK b : b = dir.xml[p]
  OBVIOUS
<1>3. PICK d : d = SetPrev(dir, p, None)
  OBVIOUS
<1>4. PICK r : r = [proc[w] EXCEPT !.pc = "active", !.base = b]
  OBVIOUS
<1>5. /\ At(w, "opening") /\ IsDoc(b) /\ confirmed' = confirmed
      /\ \/ dir.prev[p] = None /\ Same /\ Step(w, r)
         \/ Durable(d) /\ Step(w, r)
         \/ Changed(d) /\ Goto(w, "leaving")
         \/ Same /\ Goto(w, "leaving")
  BY <1>1, <1>2, <1>3, <1>4 DEF OpenValid, NoReceipt
<1>6. /\ dir \in Dirs /\ dir \in disks /\ confirmed \in Seq(Nat) /\ proc[w] \in Recs
      /\ Has(proc[w], confirmed, dir, disks) /\ Types
  BY <1>5, FactsOf DEF At
<1>7. \A e \in disks : FreshAt(e, p, confirmed)
  <2>1. p \in Places
    BY <1>2, <1>5, <1>6 DEF Places, Place, IsDoc
  <2> QED BY <2>1 DEF HInv, Fresh
<1>8. b \in Seq(Nat) /\ IsPrefix(confirmed, b) /\ \A e \in disks : Alike(e, dir, p)
  BY <1>1, <1>2, <1>5, <1>6, <1>7, FilesOf DEF FreshAt, Has, At
<1>9. r.pc = "active" /\ r.path = p /\ r.base = b
  BY <1>1, <1>4, <1>6, <1>8 DEF Recs
<1>10. /\ d.prev[p] = None /\ d.xml = dir.xml /\ \A q \in Paths \ {p} : Alike(d, dir, q)
  BY <1>3, <1>6, PrevAlike
<1>11. FreshAt(d, p, confirmed) /\ IsDoc(d.xml[p])
  BY <1>2, <1>5, <1>8, <1>10 DEF FreshAt, IsDoc
<1>12. ASSUME \A e \in disks' : e.xml[p] = b, dir' \in disks' PROVE Has(r, confirmed', dir', disks')
  <2>1. \A e \in disks' : Stands(e, r)
    BY <1>5, <1>9, <1>12 DEF Stands, IsDoc
  <2> QED BY <1>5, <1>8, <1>9, <2>1 DEF Has, DocPcs, BasedPcs, MovePcs
<1>13. CASE Same /\ Goto(w, "leaving")
  BY <1>5, <1>13, FileKept
<1>14. CASE Same /\ Step(w, r)
  <2>1. dir' = dir /\ disks' = disks /\ proc' = [proc EXCEPT ![w] = r]
    BY <1>14 DEF Same, Step
  <2>2. Has(r, confirmed', dir', disks')
    BY <1>2, <1>6, <1>8, <1>12, <2>1 DEF Alike
  <2>3. PICK e : e = dir
    OBVIOUS
  <2> QED BY <1>5, <1>14, <2>1, <2>2, <2>3, LockStep
<1>15. CASE (Durable(d) /\ Step(w, r)) \/ (Changed(d) /\ Goto(w, "leaving"))
  <2>1. PICK x : proc' = [proc EXCEPT ![w] = x] /\ Has(x, confirmed', dir', disks')
    <3>1. CASE Durable(d) /\ Step(w, r)
      <4>1. Has(r, confirmed', dir', disks')
        BY <1>2, <1>10, <1>12, <3>1 DEF Durable
      <4> QED BY <3>1, <4>1 DEF Step
    <3>2. CASE Goto(w, "leaving")
      <4>1. PICK x : proc' = [proc EXCEPT ![w] = x] /\ x.pc = "leaving"
        BY <3>2, GotoIs DEF Pcs
      <4>2. Has(x, confirmed', dir', disks')
        BY <4>1, IdleHas DEF IdlePcs
      <4> QED BY <4>1, <4>2
    <3> QED BY <1>15, <3>1, <3>2
  <2>2. dir' = d /\ d.xml[p] # None /\ proc[w].pc # "out"
    BY <1>5, <1>11, <1>15 DEF Durable, Changed, IsDoc, At
  <2> QED BY <1>1, <1>5, <1>7, <1>10, <1>11, <1>15, <2>1, <2>2, AtHome
<1> QED BY <1>5, <1>13, <1>14, <1>15

LEMMA RecoverHas ==
  ASSUME IInv, HInv, IInv', uses' = uses, NEW w \in Procs, Recover(w)
  PROVE  HInv'
<1>1. PICK p \in Paths : p = proc[w].path
  BY FactsOf DEF Recover, At
<1>2. PICK b : b = dir.prev[p]
  OBVIOUS
<1>3. PICK x : x = SetXml(dir, p, b)
  OBVIOUS
<1>4. PICK d : d = SetPrev(x, p, None)
  OBVIOUS
<1>5. /\ At(w, "opening") /\ IsDoc(b) /\ confirmed' = confirmed /\ dir.xml[p] = Torn
      /\ \/ (Durable(d) /\ Goto(w, "leaving")) \/ (Replaced(d, p) /\ Step(w, Out))
         \/ Same /\ Step(w, Out)
  BY <1>1, <1>2, <1>3, <1>4 DEF Recover, NoReceipt
<1>6. /\ dir \in Dirs /\ dir \in disks /\ confirmed \in Seq(Nat) /\ Types
  BY <1>5, FactsOf DEF At
<1>7. \A e \in disks : FreshAt(e, p, confirmed)
  <2>1. p \in Places
    BY <1>5, <1>6, FileFacts DEF Places, Place
  <2> QED BY <2>1 DEF HInv, Fresh
<1>8. IsPrefix(confirmed, b)
  BY <1>2, <1>5, <1>6, <1>7 DEF FreshAt
<1>9. /\ d.xml[p] = b /\ d.prev[p] = None /\ \A q \in Paths \ {p} : Alike(d, dir, q)
  <2>1. x \in Dirs /\ x.xml[p] = b /\ \A q \in Paths \ {p} : Alike(x, dir, q)
    <3>1. b \in Seq(Nat)
      BY <1>2, <1>6, FilesOf
    <3>2. x \in Dirs
      BY <1>3, <1>6, <3>1, SetXmlIs
    <3>3. x.xml[p] = b /\ \A q \in Paths \ {p} : Alike(x, dir, q)
      BY <1>3, <1>6, XmlAlike
    <3> QED BY <3>2, <3>3
  <2>2. d.prev[p] = None /\ d.xml = x.xml /\ \A q \in Paths \ {p} : Alike(d, x, q)
    BY <1>4, <2>1, PrevAlike
  <2> QED BY <2>1, <2>2 DEF Alike
<1>10. FreshAt(d, p, confirmed) /\ IsDoc(d.xml[p])
  BY <1>5, <1>8, <1>9 DEF FreshAt, IsDoc
<1>11. CASE Same /\ Step(w, Out)
  BY <1>5, <1>11, FileKept
<1>12. CASE (Durable(d) /\ Goto(w, "leaving")) \/ (Replaced(d, p) /\ Step(w, Out))
  <2>1. PICK r : proc' = [proc EXCEPT ![w] = r] /\ r.pc \in {"leaving", "out"}
    <3>1. CASE Goto(w, "leaving")
      BY <3>1, GotoIs DEF Pcs
    <3>2. CASE Step(w, Out)
      <4>1. Out.pc = "out"
        BY DEF Out
      <4> QED BY <3>2, <4>1 DEF Step
    <3> QED BY <1>12, <3>1, <3>2
  <2>2. Has(r, confirmed', dir', disks')
    BY <2>1, IdleHas DEF IdlePcs
  <2>3. dir' = d /\ d.xml[p] # None /\ proc[w].pc # "out"
    BY <1>5, <1>10, <1>12 DEF Durable, Replaced, IsDoc, At
  <2>4. Durable(d) \/ (Replaced(d, p) /\ IsDoc(dir.prev[p]))
    BY <1>2, <1>5, <1>12
  <2> QED BY <1>1, <1>5, <1>7, <1>9, <1>10, <2>1, <2>2, <2>3, <2>4, AtHome
<1> QED BY <1>5, <1>11, <1>12

-----------------------------------------------------------------------------
(* move                                                                    *)

LEMMA HideHas ==
  ASSUME IInv, HInv, IInv', NEW w \in Procs, Hide(w)
  PROVE  HInv'
<1>1. PICK p \in Paths : p = proc[w].path
  BY FactsOf DEF Hide, At
<1>2. PICK b : b = proc[w].base
  OBVIOUS
<1>3. PICK x : x = SetXml(dir, p, None)
  OBVIOUS
<1>4. PICK d : d = SetPrev(x, p, dir.xml[p])
  OBVIOUS
<1>5. /\ At(w, "moving") /\ confirmed' = confirmed
      /\ (Durable(d) /\ Goto(w, "hidden")) \/ (Changed(d) /\ Goto(w, "unhiding"))
  BY <1>1, <1>3, <1>4 DEF Hide, Hidden, NoReceipt
<1>6. /\ dir \in Dirs /\ dir \in disks /\ confirmed \in Seq(Nat) /\ Types /\ ~ At(w, "out")
      /\ proc[w] \in Recs /\ p \in proc[w].leases /\ proc[w].to \in Paths \ {p}
      /\ Has(proc[w], confirmed, dir, disks)
      /\ \A e \in disks : \E q \in Paths : IsPrefix(confirmed, Kept(e, q))
  <2>1. /\ dir \in Dirs /\ dir \in disks /\ confirmed \in Seq(Nat) /\ Types /\ ~ At(w, "out")
        /\ proc[w] \in Recs /\ p \in proc[w].leases
        /\ Sound(proc[w], Places, uses) /\ Has(proc[w], confirmed, dir, disks)
        /\ \A e \in disks : \E q \in Paths : IsPrefix(confirmed, Kept(e, q))
    BY <1>1, <1>5, FactsOf DEF At
  <2>2. proc[w].to \in proc[w].leases /\ proc[w].to # p
    BY <1>1, <1>5, <2>1 DEF Sound, MovePcs, At
  <2> QED BY <2>1, <2>2 DEF Recs
<1>7. /\ IsDoc(b) /\ IsPrefix(confirmed, b) /\ Extends(b, proc[w].doc)
      /\ \A e \in disks : e.xml[p] = b /\ e.prev[p] = None /\ e.prev[proc[w].to] = None
  BY <1>1, <1>2, <1>5, <1>6 DEF Has, Stands, DocPcs, BasedPcs, MovePcs, At
<1>8. d.xml[p] = None /\ d.prev[p] = b /\ \A q \in Paths \ {p} : Alike(d, dir, q)
  <2>1. x \in Dirs /\ x.xml[p] = None /\ \A q \in Paths \ {p} : Alike(x, dir, q)
    <3>1. None \in Seq(Nat)
      BY FileFacts
    <3>2. x \in Dirs
      BY <1>3, <1>6, <3>1, SetXmlIs
    <3>3. x.xml[p] = None /\ \A q \in Paths \ {p} : Alike(x, dir, q)
      BY <1>3, <1>6, XmlAlike
    <3> QED BY <3>2, <3>3
  <2>2. d.prev[p] = dir.xml[p] /\ d.xml = x.xml /\ \A q \in Paths \ {p} : Alike(d, x, q)
    BY <1>4, <2>1, PrevAlike
  <2> QED BY <1>6, <1>7, <2>1, <2>2 DEF Alike
<1>9. PICK pc \in {"hidden", "unhiding"} :
        /\ pc = "hidden" => Durable(d) /\ Goto(w, "hidden")
        /\ pc = "unhiding" => Changed(d) /\ Goto(w, "unhiding")
  BY <1>5
<1>10. PICK r : /\ proc' = [proc EXCEPT ![w] = r] /\ r.pc = pc /\ r.path = p /\ r.base = b
                /\ r.doc = proc[w].doc /\ r.to = proc[w].to
  BY <1>1, <1>2, <1>9, GotoIs DEF Pcs, WriterPcs
<1>11. Places' \subseteq {p}
  <2>1. proc'[w].pc = pc /\ proc'[w].path = p
    BY <1>10 DEF IInv, Types
  <2>2. Sound(proc[w], Places, uses)'
    BY DEF IInv
  <2> QED BY <2>1, <2>2, <1>9 DEF Sound, HomePcs
<1>12. \A e \in disks' : e \in disks \/ e = d
  BY <1>5 DEF Durable, Changed
<1>13. d.prev[proc[w].to] = None
  BY <1>6, <1>7, <1>8 DEF Alike
<1>14. ASSUME NEW e \in disks' PROVE Stands(e, r)
  <2>1. CASE pc = "hidden"
    BY <1>8, <1>9, <1>10, <1>13, <2>1 DEF Stands, Durable
  <2>2. CASE pc = "unhiding"
    <3>1. {e.xml[p], e.prev[p]} = {None, b}
      BY <1>7, <1>8, <1>12
    <3> QED BY <1>10, <2>2, <3>1 DEF Stands
  <2> QED BY <1>9, <2>1, <2>2
<1>15. Has(r, confirmed', dir', disks')
  BY <1>5, <1>7, <1>9, <1>10, <1>14 DEF Has, DocPcs, BasedPcs, MovePcs
<1>16. ASSUME NEW e \in disks' PROVE Survives(e, p, confirmed')
  <2>1. \/ e.xml[p] = b /\ e.prev[p] = None
        \/ e.xml[p] = None /\ e.prev[p] = b
    BY <1>7, <1>8, <1>12
  <2>2. FreshAt(e, p, confirmed') /\ (IsDoc(e.xml[p]) \/ IsDoc(e.prev[p]))
    BY <1>5, <1>7, <2>1 DEF FreshAt, IsDoc
  <2> QED BY <2>2, SurvivesAt
<1>17. confirmed' \in Seq(Nat) /\ confirmed' \in {confirmed, None} /\ (Durable(d) \/ Changed(d))
  BY <1>5, <1>6
<1> QED BY <1>6, <1>8, <1>10, <1>11, <1>15, <1>16, <1>17, WriteHas

LEMMA MovePublishHas ==
  ASSUME IInv, HInv, IInv', NEW w \in Procs, MovePublish(w)
  PROVE  HInv'
<1>1. PICK p \in Paths : p = proc[w].path
  BY FactsOf DEF MovePublish, At
<1>2. PICK t : t = proc[w].to
  OBVIOUS
<1>3. PICK doc : doc = proc[w].doc
  OBVIOUS
<1>4. PICK d : d = SetXml(dir, t, doc)
  OBVIOUS
<1>5. /\ At(w, "hidden") /\ confirmed' = confirmed
      /\ (Durable(d) /\ Goto(w, "moved")) \/ (Changed(d) /\ Goto(w, "faulted"))
  BY <1>2, <1>3, <1>4 DEF MovePublish, NoReceipt
<1>6. /\ dir \in Dirs /\ dir \in disks /\ confirmed \in Seq(Nat) /\ ~ At(w, "out")
      /\ proc[w] \in Recs /\ t \in proc[w].leases /\ t \in Paths \ {p} /\ Places = {}
      /\ Has(proc[w], confirmed, dir, disks)
      /\ IsDoc(doc) /\ IsPrefix(confirmed, doc) /\ Extends(proc[w].base, doc)
      /\ \A e \in disks : \E q \in Paths : IsPrefix(confirmed, Kept(e, q))
  <2>1. /\ dir \in Dirs /\ dir \in disks /\ confirmed \in Seq(Nat) /\ ~ At(w, "out")
        /\ proc[w] \in Recs
        /\ Sound(proc[w], Places, uses) /\ Has(proc[w], confirmed, dir, disks)
        /\ \A e \in disks : \E q \in Paths : IsPrefix(confirmed, Kept(e, q))
    BY <1>5, FactsOf DEF At
  <2>2. IsDoc(doc) /\ IsPrefix(confirmed, doc) /\ Extends(proc[w].base, doc)
    BY <1>3, <1>5, FactsOf DEF At, DocPcs, BasedPcs, MovePcs
  <2>3. t \in proc[w].leases /\ t # p /\ Places = {}
    BY <1>1, <1>2, <1>5, <2>1 DEF Sound, MovePcs, At
  <2> QED BY <2>1, <2>2, <2>3 DEF Recs
<1>7. /\ IsDoc(proc[w].base) /\ IsPrefix(confirmed, proc[w].base)
      /\ \A e \in disks : e.xml[t] = None /\ e.prev[t] = None
  <2>1. \A e \in disks : e.xml[t] = None
    BY <1>6 DEF Places, Place
  <2> QED BY <1>2, <1>5, <1>6, <2>1 DEF Has, Stands, DocPcs, BasedPcs, MovePcs, At
<1>8. d.xml[t] = doc /\ d.prev = dir.prev /\ \A q \in Paths \ {t} : Alike(d, dir, q)
  BY <1>4, <1>6, XmlAlike
<1>9. d.prev[t] = None
  BY <1>6, <1>7, <1>8
<1>10. Places' \subseteq {t}
  <2>1. dir' = d
    BY <1>5 DEF Durable, Changed
  <2> QED BY <1>6, <1>8, <2>1, Homed DEF IsDoc
<1>11. PICK pc \in {"moved", "faulted"} :
         /\ Goto(w, pc)
         /\ pc = "moved" => Durable(d)
  BY <1>5
<1>12. PICK r : /\ proc' = [proc EXCEPT ![w] = r] /\ r.pc = pc /\ r.path = p
                /\ r.base = proc[w].base /\ r.doc = doc /\ r.to = t
  BY <1>1, <1>2, <1>3, <1>11, GotoIs DEF Pcs, WriterPcs
<1>13. ASSUME NEW e \in disks' PROVE Stands(e, r)
  BY <1>8, <1>9, <1>11, <1>12 DEF Stands, Durable
<1>14. Has(r, confirmed', dir', disks')
  BY <1>5, <1>6, <1>7, <1>11, <1>12, <1>13 DEF Has, DocPcs, BasedPcs, MovePcs
<1>15. ASSUME NEW e \in disks' PROVE Survives(e, t, confirmed')
  <2>1. CASE e \in disks
    BY <1>5, <1>6, <1>7, <2>1 DEF Survives, FreshAt, IsDoc
  <2>2. CASE e = d
    <3>1. FreshAt(d, t, confirmed') /\ IsDoc(d.xml[t])
      BY <1>5, <1>6, <1>8, <1>9 DEF FreshAt, IsDoc
    <3> QED BY <1>6, <2>2, <3>1, SurvivesAt
  <2> QED BY <1>5, <2>1, <2>2 DEF Durable, Changed
<1>16. confirmed' \in Seq(Nat) /\ confirmed' \in {confirmed, None} /\ (Durable(d) \/ Changed(d))
  BY <1>5, <1>6
<1> QED BY <1>6, <1>8, <1>10, <1>12, <1>14, <1>15, <1>16, WriteHas

LEMMA UnhideHas ==
  ASSUME IInv, HInv, IInv', uses' = uses, NEW w \in Procs, Unhide(w)
  PROVE  HInv'
<1>1. PICK p \in Paths : p = proc[w].path
  BY FactsOf DEF Unhide, At
<1>2. PICK b : b = proc[w].base
  OBVIOUS
<1>3. PICK x : x = SetPrev(dir, p, None)
  OBVIOUS
<1>4. PICK d : d = SetXml(x, p, b)
  OBVIOUS
<1>5. /\ proc[w].pc \in {"hidden", "unhiding"} /\ confirmed' = confirmed
      /\ ((Durable(d) \/ Changed(d)) /\ Goto(w, "unhidden")) \/ (Same /\ Goto(w, "faulted"))
  BY <1>1, <1>2, <1>3, <1>4 DEF Unhide, NoReceipt
<1>6. /\ dir \in Dirs /\ dir \in disks /\ confirmed \in Seq(Nat) /\ b \in Seq(Nat)
      /\ proc[w] \in Recs /\ Has(proc[w], confirmed, dir, disks) /\ proc[w].pc # "out"
  BY <1>2, <1>5, FactsOf DEF At
<1>7. /\ IsDoc(b) /\ IsPrefix(confirmed, b) /\ Extends(b, proc[w].doc)
      /\ \A e \in disks : Stands(e, proc[w])
  BY <1>2, <1>5, <1>6 DEF Has, DocPcs, BasedPcs, MovePcs
<1>8. \A e \in disks : \/ e.xml[p] = b /\ e.prev[p] = None
                       \/ e.xml[p] = None /\ e.prev[p] = b
  <2>1. SUFFICES ASSUME NEW e \in disks
                 PROVE  \/ e.xml[p] = b /\ e.prev[p] = None
                        \/ e.xml[p] = None /\ e.prev[p] = b
    OBVIOUS
  <2>2. CASE proc[w].pc = "hidden"
    BY <1>1, <1>2, <1>7, <2>2 DEF Stands
  <2>3. CASE proc[w].pc = "unhiding"
    <3>1. {e.xml[p], e.prev[p]} = {None, b} /\ b # None
      BY <1>1, <1>2, <1>7, <2>3 DEF Stands, IsDoc
    <3> QED BY <3>1
  <2> QED BY <1>5, <2>2, <2>3
<1>9. d.xml[p] = b /\ d.prev[p] = None /\ \A q \in Paths \ {p} : Alike(d, dir, q)
  <2>1. x \in Dirs /\ x.prev[p] = None /\ \A q \in Paths \ {p} : Alike(x, dir, q)
    <3>1. None \in Seq(Nat)
      BY FileFacts
    <3>2. x \in Dirs
      BY <1>3, <1>6, <3>1, SetPrevIs
    <3>3. x.prev[p] = None /\ \A q \in Paths \ {p} : Alike(x, dir, q)
      BY <1>3, <1>6, PrevAlike
    <3> QED BY <3>2, <3>3
  <2>2. d.xml[p] = b /\ d.prev = x.prev /\ \A q \in Paths \ {p} : Alike(d, x, q)
    BY <1>4, <2>1, XmlAlike
  <2> QED BY <2>1, <2>2 DEF Alike
<1>10. CASE Same /\ Goto(w, "faulted")
  BY <1>5, <1>10, FileKept
<1>11. CASE (Durable(d) \/ Changed(d)) /\ Goto(w, "unhidden")
  <2>1. PICK r : /\ proc' = [proc EXCEPT ![w] = r] /\ r.pc = "unhidden" /\ r.path = p
                 /\ r.base = b /\ r.doc = proc[w].doc
    BY <1>1, <1>2, <1>11, GotoIs DEF Pcs, WriterPcs
  <2>2. dir' = d /\ \A e \in disks' : e \in disks \/ e = d
    BY <1>11 DEF Durable, Changed
  <2>3. ASSUME NEW e \in disks' PROVE Stands(e, r)
    <3>1. \/ e.xml[p] = b /\ e.prev[p] = None
          \/ e.xml[p] = None /\ e.prev[p] = b
      BY <1>8, <1>9, <2>2
    <3>2. Kept(e, p) = b
      BY <1>7, <3>1, KeptIs DEF IsDoc
    <3> QED BY <2>1, <3>2 DEF Stands
  <2>4. Has(r, confirmed', dir', disks')
    BY <1>5, <1>7, <1>9, <2>1, <2>2, <2>3 DEF Has, DocPcs, BasedPcs, MovePcs
  <2>5. \A e \in disks : FreshAt(e, p, confirmed)
    BY <1>7, <1>8 DEF FreshAt, IsDoc
  <2>6. FreshAt(d, p, confirmed) /\ IsDoc(d.xml[p]) /\ dir'.xml[p] # None
    BY <1>7, <1>9, <2>2 DEF FreshAt, IsDoc
  <2> QED BY <1>1, <1>5, <1>6, <1>9, <1>11, <2>1, <2>4, <2>5, <2>6, AtHome
<1> QED BY <1>5, <1>10, <1>11

-----------------------------------------------------------------------------
(* apply_repair                                                            *)

LEMMA RepairPublishHas ==
  ASSUME IInv, HInv, IInv', uses' = uses, NEW w \in Procs, RepairPublish(w)
  PROVE  HInv'
<1>1. PICK p \in Paths : p = proc[w].path
  BY FactsOf DEF RepairPublish, At
<1>2. PICK doc : doc = proc[w].doc
  OBVIOUS
<1>3. PICK d : d = SetXml(dir, p, doc)
  OBVIOUS
<1>4. /\ At(w, "repairing") /\ confirmed' = confirmed
      /\ \/ Durable(d) /\ Goto(w, "repaired")
         \/ Changed(d) /\ Goto(w, "leaving")
         \/ Replaced(d, p) /\ Goto(w, "leaving")
         \/ Same /\ Goto(w, "leaving")
  BY <1>1, <1>2, <1>3 DEF RepairPublish, NoReceipt
<1>5. /\ dir \in Dirs /\ dir \in disks /\ confirmed \in Seq(Nat)
      /\ Has(proc[w], confirmed, dir, disks)
      /\ IsDoc(proc[w].base) /\ IsPrefix(confirmed, proc[w].base)
      /\ IsDoc(doc) /\ IsPrefix(confirmed, doc) /\ Extends(proc[w].base, doc)
  BY <1>1, <1>2, <1>4, FactsOf DEF At, DocPcs
<1>6. /\ \A e \in disks : FreshAt(e, p, confirmed)
      /\ IsDoc(dir.prev[p])
  BY <1>1, <1>4, <1>5 DEF Has, Stands, At
<1>7. d.xml[p] = doc /\ d.prev = dir.prev /\ \A q \in Paths \ {p} : Alike(d, dir, q)
  BY <1>3, <1>5, XmlAlike
<1>8. FreshAt(d, p, confirmed) /\ IsDoc(d.xml[p])
  BY <1>5, <1>6, <1>7 DEF FreshAt
<1>9. CASE Same /\ Goto(w, "leaving")
  BY <1>4, <1>9, FileKept
<1>10. CASE \/ Durable(d) /\ Goto(w, "repaired")
            \/ (Changed(d) \/ Replaced(d, p)) /\ Goto(w, "leaving")
  <2>1. PICK pc \in {"repaired", "leaving"} : Goto(w, pc) /\ (pc = "repaired" => Durable(d))
    BY <1>10
  <2>2. PICK r : /\ proc' = [proc EXCEPT ![w] = r] /\ r.pc = pc /\ r.path = p
                 /\ r.base = proc[w].base /\ r.doc = doc
    BY <1>1, <1>2, <2>1, GotoIs DEF Pcs, WriterPcs
  <2>3. \A e \in disks' : Stands(e, r)
    BY <1>7, <2>1, <2>2 DEF Stands, Durable
  <2>4. Has(r, confirmed', dir', disks')
    BY <1>4, <1>5, <2>1, <2>2, <2>3 DEF Has, DocPcs, BasedPcs, MovePcs
  <2>5. dir' = d /\ d.xml[p] # None /\ proc[w].pc # "out"
    BY <1>4, <1>8, <1>10 DEF Durable, Changed, Replaced, IsDoc, At
  <2> QED BY <1>1, <1>4, <1>6, <1>7, <1>8, <1>10, <2>2, <2>4, <2>5, AtHome
<1> QED BY <1>4, <1>9, <1>10

-----------------------------------------------------------------------------
(* delete                                                                  *)

\* Where nothing is confirmed nothing can be lost.
LEMMA NothingConfirmed ==
  ASSUME IInv', confirmed' = None
  PROVE  confirmed' \in Seq(Nat) /\ Fresh' /\ ConfirmedSurvives'
<1>1. ASSUME NEW e \in disks', NEW p \in Paths
      PROVE  e.xml[p] \in Seq(Nat) /\ e.prev[p] \in Seq(Nat) /\ Kept(e, p) \in Seq(Nat)
  <2>1. e.xml[p] \in Seq(Nat) /\ e.prev[p] \in Seq(Nat)
    BY DEF IInv, Types, Dirs
  <2> QED BY <2>1, KeptIs, FileFacts
<1>2. Fresh'
  BY <1>1, PrefixFacts DEF Fresh, FreshAt, Places
<1>3. ConfirmedSurvives'
  <2>1. \E p : p \in Paths
    BY ContextStoreAssumption
  <2> QED BY <1>1, <2>1, PrefixFacts DEF ConfirmedSurvives
<1> QED BY <1>2, <1>3, FileFacts

LEMMA DeleteHas ==
  ASSUME IInv, HInv, IInv', Deleted, NEW w \in Procs, DeleteOfficial(w) \/ DeletePrevious(w)
  PROVE  HInv'
<1>1. PICK p \in Paths : p = proc[w].path
  BY FactsOf DEF DeleteOfficial, DeletePrevious, At
<1>2. dir \in Dirs /\ Types /\ p \in proc[w].leases
  BY <1>1, FactsOf DEF DeleteOfficial, DeletePrevious, At
<1>3. PICK d : /\ \A q \in Paths \ {p} : Alike(d, dir, q)
               /\ Durable(d) \/ Changed(d) \/ Same
  BY <1>1, <1>2, XmlAlike, PrevAlike DEF DeleteOfficial, DeletePrevious
<1>4. confirmed' = None
  BY DEF Deleted, DeleteOfficial, DeletePrevious, NoReceipt
<1>5. confirmed' \in Seq(Nat) /\ Fresh' /\ ConfirmedSurvives'
  BY <1>4, NothingConfirmed
<1>6. PICK r : proc' = [proc EXCEPT ![w] = r] /\ r.pc \in IdlePcs
  BY GotoIs DEF DeleteOfficial, DeletePrevious, Pcs, IdlePcs
<1>7. Has(r, confirmed', dir', disks')
  BY <1>6, IdleHas
<1>8. PICK X : X = {p}
  OBVIOUS
<1>9. /\ X \in SUBSET proc[w].leases
      /\ \A q \in Paths \ X : Alike(dir', dir, q)
      /\ \A e \in disks' : e \in disks \/ \A q \in Paths \ X : Alike(e, dir, q)
  <2>1. /\ \A q \in Paths \ {p} : Alike(dir', dir, q)
        /\ \A e \in disks' : e \in disks \/ \A q \in Paths \ {p} : Alike(e, dir, q)
    BY <1>2, <1>3, Outcomes
  <2> QED BY <1>2, <1>8, <2>1
<1> QED BY <1>4, <1>5, <1>6, <1>7, <1>9, StepHas

\* No path gets a file where none is written.
LEMMA SamePlaces ==
  ASSUME uses' = uses, \A e \in disks' : \E f \in disks : \A p \in Paths : Alike(e, f, p)
  PROVE  Places' \subseteq Places
BY DEF Places, Place, Alike

\* What another process can do while w deletes the previous file.
LEMMA OthersWait ==
  ASSUME IInv, HInv, uses' = uses, NEW w \in Procs, At(w, "deletingPrevious"),
         confirmed = None, Places \subseteq {proc[w].path},
         \A v \in Procs : proc[v].pc \notin WriterPcs,
         NEW u \in Procs \ {w}, NEW p \in Paths,
         \/ Open(u, p) \/ Create(u, p) \/ MoveStart(u, p) \/ RepairStart(u, p)
         \/ DeleteStart(u, p)
         \/ Leave(u) \/ OpenValid(u) \/ Recover(u) \/ OpenRefused(u)
         \/ DeleteOfficial(u) \/ DeletePrevious(u) \/ Crash(u)
  PROVE  /\ confirmed' = None /\ Places' \subseteq Places
         /\ \E r : proc' = [proc EXCEPT ![u] = r] /\ r.pc \notin WriterPcs
<1>1. /\ dir \in Dirs /\ dir \in disks /\ Types /\ proc[w].path \in proc[w].leases
      /\ proc[w].path \in Paths
  BY FactsOf DEF At
<1>2. dir.lock[proc[w].path] /\ proc[w].path \notin proc[u].leases
  BY <1>1 DEF IInv, Held
<1>3. ASSUME proc[u].pc # "out" PROVE dir.xml[proc[u].path] = None
  <2>1. proc[u].path \in proc[u].leases /\ proc[u].path \in Paths
    BY <1>3, ProcIs DEF At
  <2>2. proc[u].path \notin Places
    BY <1>2, <2>1
  <2> QED BY <1>1, <2>1, <2>2 DEF Places, Place
<1>4. ~ Create(u, p)
  BY <1>1, <1>2 DEF Create
<1>5. ~ MoveStart(u, p)
  BY DEF MoveStart, At, WriterPcs
<1>6. ~ RepairStart(u, p)
  <2>1. SUFFICES ASSUME RepairStart(u, p) PROVE FALSE
    OBVIOUS
  <2>2. p \in Places
    BY <1>1, <2>1 DEF RepairStart, Places, Place, IsDoc
  <2> QED BY <1>2, <2>1, <2>2 DEF RepairStart, Acquire
<1>7. ~ OpenValid(u) /\ ~ Recover(u)
  BY <1>3, FileFacts DEF OpenValid, Recover, IsDoc, At
<1>8. ~ DeleteOfficial(u)
  BY <1>3 DEF DeleteOfficial, At, HInv, Has
<1>9. CASE Open(u, p) \/ DeleteStart(u, p)
  <2>1. PICK q \in Recs : q.pc \in {"opening", "deleting"} /\ Acquire(u, p, q)
    <3>1. Out \in Recs
      BY OutIs
    <3>2. CASE Open(u, p)
      <4>1. PICK q : q = [Out EXCEPT !.pc = "opening", !.path = p]
        OBVIOUS
      <4>2. q \in Recs /\ q.pc = "opening"
        BY <3>1, <4>1 DEF Recs, Pcs
      <4> QED BY <3>2, <4>1, <4>2 DEF Open
    <3>3. CASE DeleteStart(u, p)
      <4>1. PICK q : q = [Out EXCEPT !.pc = "deleting", !.path = p]
        OBVIOUS
      <4>2. q \in Recs /\ q.pc = "deleting"
        BY <3>1, <4>1 DEF Recs, Pcs
      <4> QED BY <3>3, <4>1, <4>2 DEF DeleteStart
    <3> QED BY <1>9, <3>2, <3>3
  <2>2. PICK r \in Recs : proc' = [proc EXCEPT ![u] = r] /\ r.pc = q.pc
    BY <2>1, AcquireIs
  <2>3. \A e \in disks' : \E f \in disks : \A x \in Paths : Alike(e, f, x)
    BY <1>1, <2>1, AcquireIs DEF Alike
  <2>4. Places' \subseteq Places /\ confirmed' = None
    BY <1>9, <2>3, SamePlaces DEF Open, DeleteStart, NoReceipt
  <2> QED BY <2>1, <2>2, <2>4 DEF WriterPcs
<1>10. CASE Leave(u) \/ Crash(u) \/ OpenRefused(u)
  <2>1. PICK r : proc' = [proc EXCEPT ![u] = r] /\ r.pc \in {"out", "leaving"}
    <3>1. CASE Step(u, Out)
      <4>1. Out.pc = "out"
        BY DEF Out
      <4> QED BY <3>1, <4>1 DEF Step
    <3>2. CASE Goto(u, "leaving")
      BY <3>2, GotoIs DEF Pcs
    <3> QED BY <1>10, <3>1, <3>2 DEF Leave, Crash, OpenRefused
  <2>2. PICK d : d.xml = dir.xml /\ d.prev = dir.prev /\ (Durable(d) \/ Changed(d) \/ Same)
    BY <1>1, <1>10, UnlockIs DEF Leave, Crash, OpenRefused, Same
  <2>3. Places' \subseteq Places
    BY <1>1, <2>2, LockFiles, SamePlaces
  <2>4. confirmed' = None
    BY <1>10 DEF Leave, Crash, OpenRefused, NoReceipt
  <2> QED BY <2>1, <2>3, <2>4 DEF WriterPcs
<1>11. CASE DeletePrevious(u)
  <2>1. PICK x \in Paths : x = proc[u].path
    BY <1>11, ProcIs DEF DeletePrevious, At
  <2>2. PICK d : d = SetPrev(dir, x, None)
    OBVIOUS
  <2>3. /\ Durable(d) \/ Changed(d) \/ Same
        /\ Goto(u, "leaving") /\ confirmed' = None
    BY <1>11, <2>1, <2>2 DEF DeletePrevious, NoReceipt
  <2>4. PICK P : P = Places
    OBVIOUS
  <2>5. d \in Dirs /\ \A y \in Paths : Place(d, y) => y \in P
    BY <1>1, <2>1, <2>2, <2>4, DirPlaces, PrevPlaces, FileFacts
  <2>6. Places' \subseteq P
    BY <1>1, <2>3, <2>4, <2>5, ChangeIs
  <2>7. PICK r : proc' = [proc EXCEPT ![u] = r] /\ r.pc = "leaving"
    BY <2>3, GotoIs DEF Pcs
  <2> QED BY <2>3, <2>4, <2>6, <2>7 DEF WriterPcs
<1> QED BY <1>4, <1>5, <1>6, <1>7, <1>8, <1>9, <1>10, <1>11

\* Only one step begins to delete the previous file.
LEMMA DeletesAfter ==
  ASSUME IInv, NEW u \in Procs, NEW p \in Paths,
         \/ Open(u, p) \/ Create(u, p) \/ MoveStart(u, p) \/ RepairStart(u, p)
         \/ DeleteStart(u, p)
         \/ Leave(u) \/ OpenValid(u) \/ Recover(u) \/ OpenRefused(u)
         \/ PublishFirst(u) \/ KeepPrevious(u) \/ CopyPrevious(u) \/ Replace(u)
         \/ PublishFails(u) \/ CleanPrevious(u)
         \/ Hide(u) \/ MovePublish(u) \/ Unhide(u) \/ ReleaseDestination(u) \/ MoveClean(u)
         \/ RepairPublish(u) \/ RepairClean(u)
         \/ DeletePrevious(u) \/ Crash(u)
  PROVE  \E r : proc' = [proc EXCEPT ![u] = r] /\ r.pc # "deletingPrevious"
<1>1. /\ proc[u] \in Recs /\ Out \in Recs /\ Out.pc = "out"
      /\ proc[u].base \in Seq(Nat) /\ proc[u].doc \in Seq(Nat)
  <2>1. Out \in Recs /\ Out.pc = "out"
    BY OutIs DEF Out
  <2> QED BY <2>1 DEF IInv, Types, Recs
<1> HIDE DEF Out
<1>2. ASSUME NEW x, Step(u, x), x.pc # "deletingPrevious"
      PROVE  \E r : proc' = [proc EXCEPT ![u] = r] /\ r.pc # "deletingPrevious"
  BY <1>2 DEF Step
<1>3. ASSUME NEW pc \in Pcs \ {"deletingPrevious"}, Goto(u, pc)
      PROVE  \E r : proc' = [proc EXCEPT ![u] = r] /\ r.pc # "deletingPrevious"
  BY <1>3, GotoIs
<1>4. CASE Open(u, p) \/ Create(u, p) \/ MoveStart(u, p) \/ RepairStart(u, p) \/ DeleteStart(u, p)
  <2>1. ASSUME NEW x \in Recs, x.pc # "deletingPrevious",
               Step(u, [x EXCEPT !.leases = proc[u].leases \cup {p}])
        PROVE  \E r : proc' = [proc EXCEPT ![u] = r] /\ r.pc # "deletingPrevious"
    <3>1. PICK y : y = [x EXCEPT !.leases = proc[u].leases \cup {p}]
      OBVIOUS
    <3>2. y.pc = x.pc
      BY <3>1 DEF Recs
    <3> QED BY <1>2, <2>1, <3>1, <3>2
  <2>2. ASSUME NEW pc \in {"opening", "active", "deleting"},
               Acquire(u, p, [Out EXCEPT !.pc = pc, !.path = p])
        PROVE  \E r : proc' = [proc EXCEPT ![u] = r] /\ r.pc # "deletingPrevious"
    <3>1. PICK x : x = [Out EXCEPT !.pc = pc, !.path = p]
      OBVIOUS
    <3>2. x \in Recs /\ x.pc = pc
      BY <1>1, <3>1 DEF Recs, Pcs, WriterPcs
    <3> QED BY <2>1, <2>2, <3>1, <3>2 DEF Acquire
  <2>3. CASE MoveStart(u, p)
    <3>1. PICK doc : doc = Next1(proc[u].base)
      OBVIOUS
    <3>2. PICK x : x = [proc[u] EXCEPT !.pc = "moving", !.to = p, !.doc = doc]
      OBVIOUS
    <3>3. doc \in Seq(Nat)
      BY <1>1, <3>1, NextExtends DEF IInv, Types
    <3>4. x \in Recs /\ x.pc = "moving"
      BY <1>1, <3>2, <3>3 DEF Recs, Pcs, WriterPcs
    <3> QED BY <2>1, <2>3, <3>1, <3>2, <3>4 DEF MoveStart, Acquire
  <2>4. CASE RepairStart(u, p)
    <3>1. PICK b : b = RepairSource(p)
      OBVIOUS
    <3>2. PICK doc : doc = Next1(b)
      OBVIOUS
    <3>3. PICK x : x = [Out EXCEPT !.pc = "repairing", !.path = p, !.base = b, !.doc = doc]
      OBVIOUS
    <3>4. b \in Seq(Nat)
      BY <3>1, FilesOf DEF IInv, Types, RepairSource
    <3>5. doc \in Seq(Nat)
      BY <3>2, <3>4, NextExtends DEF IInv, Types
    <3>6. x \in Recs /\ x.pc = "repairing"
      BY <1>1, <3>3, <3>4, <3>5 DEF Recs, Pcs, WriterPcs
    <3> QED BY <2>1, <2>4, <3>1, <3>2, <3>3, <3>6 DEF RepairStart, Acquire
  <2> QED BY <1>4, <2>2, <2>3, <2>4 DEF Open, Create, DeleteStart
<1>5. CASE \/ Leave(u) \/ Recover(u) \/ OpenRefused(u) \/ CopyPrevious(u) \/ Replace(u)
           \/ PublishFails(u) \/ Hide(u) \/ MovePublish(u) \/ Unhide(u) \/ RepairPublish(u)
           \/ DeletePrevious(u) \/ Crash(u)
  BY <1>1, <1>2, <1>3, <1>5 DEF Leave, Recover, OpenRefused, CopyPrevious, Replace, PublishFails,
     Hide, MovePublish, Unhide, RepairPublish, DeletePrevious, Crash, Pcs, WriterPcs
<1>6. CASE OpenValid(u)
  <2>1. PICK b : b = dir.xml[proc[u].path]
    OBVIOUS
  <2>2. PICK x : x = [proc[u] EXCEPT !.pc = "active", !.base = b]
    OBVIOUS
  <2>3. x.pc = "active"
    BY <1>1, <2>2 DEF Recs
  <2>4. Step(u, x) \/ Goto(u, "leaving")
    BY <1>6, <2>1, <2>2 DEF OpenValid
  <2> QED BY <1>2, <1>3, <2>3, <2>4 DEF Pcs
<1>7. CASE PublishFirst(u)
  <2>1. PICK doc : doc = Next1(None)
    OBVIOUS
  <2>2. PICK x : x = [proc[u] EXCEPT !.base = doc]
    OBVIOUS
  <2>3. x.pc = "active"
    BY <1>1, <1>7, <2>2 DEF Recs, PublishFirst, At
  <2>4. Step(u, x) \/ Goto(u, "faulted")
    BY <1>7, <2>1, <2>2 DEF PublishFirst, Fault
  <2> QED BY <1>2, <1>3, <2>3, <2>4 DEF Pcs, WriterPcs
<1>8. CASE KeepPrevious(u)
  <2>1. PICK doc : doc = Next1(proc[u].base)
    OBVIOUS
  <2>2. PICK x : x = [proc[u] EXCEPT !.pc = "copying", !.doc = doc]
    OBVIOUS
  <2>3. x.pc = "copying" /\ Step(u, x)
    BY <1>1, <1>8, <2>1, <2>2 DEF Recs, KeepPrevious
  <2> QED BY <1>2, <2>3
<1>9. CASE CleanPrevious(u) \/ MoveClean(u) \/ RepairClean(u)
  <2>1. PICK x : x = Rebased(proc[u])
    OBVIOUS
  <2>2. PICK y : y = [Rebased(proc[u]) EXCEPT !.path = proc[u].to, !.to = "none"]
    OBVIOUS
  <2>3. PICK z : z = [proc[u] EXCEPT !.pc = "finished", !.base = proc[u].doc]
    OBVIOUS
  <2>4. x.pc = "active" /\ y.pc = "active" /\ z.pc = "finished"
    BY <1>1, <2>1, <2>2, <2>3 DEF Rebased, Recs
  <2>5. Step(u, x) \/ Step(u, y) \/ Step(u, z) \/ Goto(u, "faulted") \/ Goto(u, "leaving")
    BY <1>9, <2>1, <2>2, <2>3 DEF CleanPrevious, MoveClean, RepairClean, Receipt, Fault
  <2> QED BY <1>2, <1>3, <2>4, <2>5 DEF Pcs, WriterPcs
<1>10. CASE ReleaseDestination(u)
  <2>1. PICK q : q = [proc[u] EXCEPT !.to = "none", !.leases = @ \ {proc[u].to}]
    OBVIOUS
  <2>2. PICK x : x = [q EXCEPT !.pc = "active"]
    OBVIOUS
  <2>3. PICK y : y = [q EXCEPT !.pc = "faulted"]
    OBVIOUS
  <2>4. x.pc = "active" /\ y.pc = "faulted"
    BY <1>1, <2>1, <2>2, <2>3 DEF Recs
  <2>5. Step(u, x) \/ Step(u, y) \/ Goto(u, "faulted")
    BY <1>10, <2>1, <2>2, <2>3 DEF ReleaseDestination
  <2> QED BY <1>2, <1>3, <2>4, <2>5 DEF Pcs, WriterPcs
<1> QED BY <1>4, <1>5, <1>6, <1>7, <1>8, <1>9, <1>10

LEMMA DeletedKeeps ==
  ASSUME IInv, HInv, IInv', Deleted, [Next]_vars
  PROVE  Deleted'
<1> SUFFICES ASSUME NEW w \in Procs, proc'[w].pc = "deletingPrevious"
             PROVE  /\ confirmed' = None /\ Places' \subseteq {proc'[w].path}
                    /\ \A v \in Procs : proc'[v].pc \notin WriterPcs
  BY DEF Deleted, At
<1>1. proc \in [Procs -> Recs] /\ Types /\ dir \in Dirs /\ dir \in disks
  BY DEF IInv, Types
<1>2. CASE UNCHANGED vars
  BY <1>2 DEF vars, Deleted, At, Places, Place
<1>3. CASE PowerLoss
  BY <1>3 DEF PowerLoss, Out
<1>4. ASSUME uses' = uses,
             \/ \E u \in Procs, p \in Paths : AcquireFails(u, p)
             \/ \E p \in Paths : RemoveStaleLock(p)
      PROVE  /\ confirmed' = None /\ Places' \subseteq {proc'[w].path}
             /\ \A v \in Procs : proc'[v].pc \notin WriterPcs
  <2>1. PICK d : /\ d.xml = dir.xml /\ d.prev = dir.prev
                 /\ Changed(d) /\ proc' = proc /\ confirmed' = confirmed
    <3>1. CASE \E u \in Procs, p \in Paths : AcquireFails(u, p)
      BY <1>1, <3>1, LockIs DEF AcquireFails, NoReceipt
    <3>2. CASE \E p \in Paths : RemoveStaleLock(p)
      BY <1>1, <3>2, UnlockIs DEF RemoveStaleLock
    <3> QED BY <1>4, <3>1, <3>2
  <2>2. Places' \subseteq Places
    BY <1>1, <1>4, <2>1, LockFiles, SamePlaces
  <2> QED BY <2>1, <2>2 DEF Deleted, At
<1>5. ASSUME uses' = uses, NEW u \in Procs, NEW p \in Paths,
             \/ Open(u, p) \/ Create(u, p) \/ MoveStart(u, p) \/ RepairStart(u, p)
             \/ DeleteStart(u, p)
             \/ Leave(u) \/ OpenValid(u) \/ Recover(u) \/ OpenRefused(u)
             \/ PublishFirst(u) \/ KeepPrevious(u) \/ CopyPrevious(u) \/ Replace(u)
             \/ PublishFails(u) \/ CleanPrevious(u)
             \/ Hide(u) \/ MovePublish(u) \/ Unhide(u) \/ ReleaseDestination(u) \/ MoveClean(u)
             \/ RepairPublish(u) \/ RepairClean(u)
             \/ DeletePrevious(u) \/ Crash(u)
      PROVE  /\ confirmed' = None /\ Places' \subseteq {proc'[w].path}
             /\ \A v \in Procs : proc'[v].pc \notin WriterPcs
  <2>1. u # w /\ proc'[w] = proc[w]
    <3>1. PICK r : proc' = [proc EXCEPT ![u] = r] /\ r.pc # "deletingPrevious"
      BY <1>5, DeletesAfter
    <3> QED BY <1>1, <3>1
  <2>2. /\ At(w, "deletingPrevious") /\ confirmed = None /\ Places \subseteq {proc[w].path}
        /\ \A v \in Procs : proc[v].pc \notin WriterPcs
    BY <2>1 DEF Deleted, At
  <2>3. ~ \/ PublishFirst(u) \/ KeepPrevious(u) \/ CopyPrevious(u) \/ Replace(u)
          \/ PublishFails(u) \/ CleanPrevious(u)
          \/ Hide(u) \/ MovePublish(u) \/ Unhide(u) \/ ReleaseDestination(u) \/ MoveClean(u)
          \/ RepairPublish(u) \/ RepairClean(u)
    BY <2>2 DEF PublishFirst, KeepPrevious, CopyPrevious, Replace, MayReplace, PublishFails,
       CleanPrevious, Hide, MovePublish, Unhide, ReleaseDestination, MoveClean, RepairPublish,
       RepairClean, At, WriterPcs
  <2>4. /\ confirmed' = None /\ Places' \subseteq Places
        /\ \E r : proc' = [proc EXCEPT ![u] = r] /\ r.pc \notin WriterPcs
    BY <1>5, <2>1, <2>2, <2>3, OthersWait
  <2> QED BY <1>1, <2>1, <2>2, <2>4
<1>6. ASSUME uses' = uses, NEW u \in Procs, DeleteOfficial(u)
      PROVE  /\ confirmed' = None /\ Places' \subseteq {proc'[w].path}
             /\ \A v \in Procs : proc'[v].pc \notin WriterPcs
  <2>1. PICK p \in Paths : p = proc[u].path
    BY <1>6, ProcIs DEF DeleteOfficial, At
  <2>2. p \in proc[u].leases /\ dir.xml[p] # None /\ p \in Places /\ proc[u].pc = "deleting"
    BY <1>1, <1>6, <2>1, FactsOf DEF DeleteOfficial, At, Has, Places, Place
  <2>3. \A v \in Procs : proc[v].pc \notin WriterPcs
    BY <2>2, NoOtherWriter DEF WriterPcs
  <2>4. Places \subseteq {p}
    BY <2>2 DEF IInv
  <2>5. PICK d : d = SetXml(dir, p, None)
    OBVIOUS
  <2>6. PICK P : P = Places
    OBVIOUS
  <2>7. d \in Dirs /\ \A x \in Paths : Place(d, x) => x \in P
    BY <1>1, <2>1, <2>5, <2>6, DirPlaces, XmlPlaces, FileFacts
  <2>8. Durable(d) \/ Changed(d) \/ Same
    BY <1>6, <2>1, <2>5 DEF DeleteOfficial
  <2>9. Places' \subseteq P
    BY <1>1, <1>6, <2>6, <2>7, <2>8, ChangeIs
  <2>10. PICK r : proc' = [proc EXCEPT ![u] = r] /\ r.pc = "deletingPrevious" /\ r.path = p
    BY <1>6, <2>1, GotoIs DEF DeleteOfficial, Pcs
  <2>11. w = u
    <3>1. SUFFICES ASSUME w # u PROVE FALSE
      OBVIOUS
    <3>2. At(w, "deletingPrevious")
      BY <1>1, <2>10, <3>1 DEF At
    <3>3. Places \subseteq {proc[w].path} /\ proc[w].path \in proc[w].leases
      BY <3>2, ProcIs DEF Deleted, At
    <3> QED BY <2>2, <3>1, <3>3 DEF IInv, Held
  <2>12. confirmed' = None
    BY <1>6 DEF DeleteOfficial
  <2> QED BY <1>1, <2>3, <2>4, <2>6, <2>9, <2>10, <2>11, <2>12 DEF WriterPcs
<1>7. CASE Next
  <2>1. uses' = uses /\ Operations
    BY <1>7 DEF Next
  <2>2. \E p : p \in Paths
    BY ContextStoreAssumption
  <2> QED BY <1>3, <1>4, <1>5, <1>6, <2>1, <2>2 DEF Operations
<1> QED BY <1>2, <1>7

-----------------------------------------------------------------------------
(* Every step.                                                             *)

LEMMA InitHas ==
  ASSUME Init, NeverBoth
  PROVE  IInv /\ HInv /\ Deleted
<1>1. IInv
  BY InitKeeps
<1>2. /\ confirmed = None /\ disks = {dir} /\ proc = [w \in Procs |-> Out]
      /\ \A p \in Paths : dir.xml[p] = None /\ dir.prev[p] = None
  BY DEF Init
<1>3. confirmed \in Seq(Nat) /\ IsPrefix(None, None)
  BY <1>2, FileFacts, PrefixFacts
<1>4. Fresh
  BY <1>2 DEF Fresh, FreshAt, Places, IsDoc
<1>5. ConfirmedSurvives
  <2>1. \E p : p \in Paths
    BY ContextStoreAssumption
  <2>2. \A p \in Paths : Kept(dir, p) = None
    BY <1>2, KeptIs DEF IsDoc
  <2> QED BY <1>2, <1>3, <2>1, <2>2 DEF ConfirmedSurvives
<1>6. \A w \in Procs : proc[w].pc = "out"
  BY <1>2 DEF Out
<1>7. \A w \in Procs : Has(proc[w], confirmed, dir, disks)
  BY <1>6, IdleHas DEF IdlePcs
<1> QED BY <1>1, <1>3, <1>4, <1>5, <1>6, <1>7 DEF HInv, Deleted, At

LEMMA NextHas ==
  ASSUME IInv, HInv, Deleted, [Next]_vars
  PROVE  IInv' /\ HInv' /\ Deleted'
<1>1. IInv'
  BY NextKeeps
<1>2. HInv'
  <2>1. CASE UNCHANGED vars
    BY <2>1, EnvironmentHas DEF vars
  <2>2. CASE Next
    <3>1. uses' = uses /\ Operations
      BY <2>2 DEF Next
    <3>2. ASSUME \/ \E w \in Procs, p \in Paths : AcquireFails(w, p)
                 \/ PowerLoss
                 \/ \E p \in Paths : RemoveStaleLock(p)
          PROVE  HInv'
      BY <3>1, <3>2, EnvironmentHas
    <3>3. ASSUME NEW w \in Procs, NEW p \in Paths,
                 \/ Open(w, p) \/ Create(w, p) \/ MoveStart(w, p) \/ RepairStart(w, p)
                 \/ DeleteStart(w, p)
          PROVE  HInv'
      BY <3>1, <3>3, BeginHas
    <3>4. ASSUME NEW w \in Procs,
                 \/ Leave(w) \/ OpenValid(w) \/ Recover(w) \/ OpenRefused(w) \/ Crash(w)
                 \/ DeleteOfficial(w) \/ DeletePrevious(w)
          PROVE  HInv'
      BY <1>1, <3>1, <3>4, EndHas, OpenValidHas, RecoverHas, DeleteHas
    <3>5. ASSUME NEW w \in Procs,
                 \/ PublishFirst(w) \/ KeepPrevious(w) \/ CopyPrevious(w) \/ Replace(w)
                 \/ PublishFails(w) \/ CleanPrevious(w)
          PROVE  HInv'
      BY <1>1, <3>1, <3>5, PublishFirstHas, KeepPreviousHas, PublishStepHas, CleanHas
    <3>6. ASSUME NEW w \in Procs,
                 \/ Hide(w) \/ MovePublish(w) \/ Unhide(w) \/ ReleaseDestination(w)
                 \/ MoveClean(w) \/ RepairPublish(w) \/ RepairClean(w)
          PROVE  HInv'
      BY <1>1, <3>1, <3>6, HideHas, MovePublishHas, UnhideHas, ReleaseDestinationHas, CleanHas,
         RepairPublishHas
    <3> QED BY <3>1, <3>2, <3>3, <3>4, <3>5, <3>6 DEF Operations
  <2> QED BY <2>1, <2>2
<1> QED BY <1>1, <1>2, DeletedKeeps

\* Whatever a power loss leaves at any point of a publication, a rename or a
\* repair, some path stands for a document with every confirmed Fact: the order
\* of copy, replace, flush and removal in publish, move and apply_repair
\* (src/src/context.lua), for every number of processes, paths and documents.
THEOREM ConfirmedSurvivesHolds == Spec /\ NeverBoth => []ConfirmedSurvives
<1>1. Init /\ NeverBoth => IInv /\ HInv /\ Deleted
  BY InitHas
<1>2. IInv /\ HInv /\ Deleted /\ [Next]_vars => IInv' /\ HInv' /\ Deleted'
  BY NextHas
<1>3. HInv => ConfirmedSurvives
  BY DEF HInv
<1> QED BY <1>1, <1>2, <1>3, PTL DEF Spec

-----------------------------------------------------------------------------
(* The refinement of ContextHistory: what each step is to the history.     *)

\* The document of each writer.
HeldNow == [w \in Procs |-> IF w \in Writers THEN proc[w].base ELSE None]

LEMMA SamePrefix ==
  ASSUME NEW s, NEW t, IsPrefix(s, t)
  PROVE  History!IsPrefix(s, t)
BY DEF IsPrefix, History!IsPrefix

\* Steps that are no concern of the history.
LEMMA Unseen ==
  ASSUME confirmed' = confirmed,
         \A v \in Procs : /\ proc'[v].pc \in WriterPcs <=> proc[v].pc \in WriterPcs
                          /\ proc[v].pc \in WriterPcs => proc'[v].base = proc[v].base
  PROVE  UNCHANGED History!vars
<1>1. Writers' = Writers
  BY DEF Writers
<1>2. HeldNow' = HeldNow
  BY <1>1 DEF HeldNow, Writers
<1> QED BY <1>1, <1>2 DEF HeldNow, History!vars

\* A process becomes a writer.
LEMMA Opens ==
  ASSUME IInv, HInv', IInv', confirmed' = confirmed, NEW u \in Procs, NEW r,
         proc' = [proc EXCEPT ![u] = r], proc[u].pc \notin WriterPcs,
         r.pc \in {"active", "repairing"}
  PROVE  History!Next
<1>1. /\ proc \in [Procs -> Recs] /\ proc'[u] = r
      /\ \A v \in Procs \ {u} : proc'[v] = proc[v]
  BY DEF IInv, Types
<1>2. r.pc \in WriterPcs
  BY DEF WriterPcs
<1>3. \A v \in Procs \ {u} : proc[v].pc \notin WriterPcs
  BY <1>1, <1>2 DEF IInv
<1>4. Writers = {} /\ Writers' = {u}
  BY <1>1, <1>2, <1>3 DEF Writers
<1>5. IsPrefix(confirmed, r.base)
  <2>1. Has(proc[u], confirmed, dir, disks)'
    BY DEF HInv
  <2> QED BY <1>1, <2>1 DEF Has, DocPcs
<1>6. HeldNow'[u] = r.base /\ HeldNow' = [HeldNow EXCEPT ![u] = HeldNow'[u]]
  BY <1>1, <1>4 DEF HeldNow
<1>7. History!IsPrefix(confirmed, HeldNow'[u])
  BY <1>5, <1>6, SamePrefix
<1>8. History!Open(u)
  BY <1>4, <1>6, <1>7, Zenon DEF History!Open, HeldNow
<1> QED BY <1>8 DEF History!Next

\* A writer has a receipt for the document after its own.
LEMMA Confirms ==
  ASSUME IInv, NEW u \in Procs, NEW r, proc' = [proc EXCEPT ![u] = r],
         proc[u].pc \in WriterPcs, r.pc \in WriterPcs,
         confirmed' = r.base, Extends(proc[u].base, r.base)
  PROVE  History!Next
<1>1. /\ proc \in [Procs -> Recs] /\ proc'[u] = r
      /\ \A v \in Procs \ {u} : proc'[v] = proc[v]
  BY DEF IInv, Types
<1>2. \A v \in Procs \ {u} : proc[v].pc \notin WriterPcs
  BY DEF IInv
<1>3. Writers = {u} /\ Writers' = {u}
  BY <1>1, <1>2 DEF Writers
<1>4. /\ HeldNow'[u] = r.base /\ HeldNow[u] = proc[u].base
      /\ HeldNow' = [HeldNow EXCEPT ![u] = HeldNow'[u]]
  BY <1>1, <1>3 DEF HeldNow
<1>5. History!IsPrefix(HeldNow[u], HeldNow'[u]) /\ Len(HeldNow'[u]) = Len(HeldNow[u]) + 1
  BY <1>4, SamePrefix DEF Extends
<1>6. u \in Writers /\ Writers' = Writers /\ confirmed' = HeldNow'[u]
  BY <1>3, <1>4
<1>7. History!Confirm(u)
  BY <1>4, <1>5, <1>6, Zenon DEF History!Confirm, HeldNow
<1> QED BY <1>7 DEF History!Next

\* There was a writer, and there is none.
LEMMA Leaves ==
  ASSUME confirmed' = confirmed, Writers # {}, \A v \in Procs : proc'[v].pc \notin WriterPcs
  PROVE  History!Next
<1>1. Writers' = {}
  BY DEF Writers
<1>2. HeldNow' = [w \in Procs |-> <<>>]
  BY <1>1 DEF HeldNow, None
<1>3. History!Leave
  BY <1>1, <1>2, Zenon DEF History!Leave, HeldNow
<1> QED BY <1>3 DEF History!Next

\* The step of a process that neither opens the Context nor has a receipt.
LEMMA Ordinary ==
  ASSUME IInv, confirmed' = confirmed, NEW u \in Procs, NEW r,
         proc' = [proc EXCEPT ![u] = r],
         r.pc \in WriterPcs => proc[u].pc \in WriterPcs /\ r.base = proc[u].base
  PROVE  [History!Next]_History!vars
<1>1. /\ proc \in [Procs -> Recs] /\ proc'[u] = r
      /\ \A v \in Procs \ {u} : proc'[v] = proc[v]
  BY DEF IInv, Types
<1>2. CASE r.pc \in WriterPcs \/ proc[u].pc \notin WriterPcs
  BY <1>1, <1>2, Unseen
<1>3. CASE r.pc \notin WriterPcs /\ proc[u].pc \in WriterPcs
  <2>1. Writers # {}
    BY <1>3 DEF Writers
  <2>2. \A v \in Procs : proc'[v].pc \notin WriterPcs
    BY <1>1, <1>3 DEF IInv
  <2> QED BY <2>1, <2>2, Leaves
<1> QED BY <1>2, <1>3

LEMMA Goes ==
  ASSUME IInv, confirmed' = confirmed, NEW u \in Procs, NEW pc \in Pcs, Goto(u, pc),
         pc \in WriterPcs => proc[u].pc \in WriterPcs
  PROVE  [History!Next]_History!vars
<1>1. PICK r : proc' = [proc EXCEPT ![u] = r] /\ r.pc = pc /\ r.base = proc[u].base
  BY GotoIs
<1> QED BY <1>1, Ordinary

LEMMA Ends ==
  ASSUME IInv, confirmed' = confirmed, NEW u \in Procs, Step(u, Out)
  PROVE  [History!Next]_History!vars
<1>1. Out.pc \notin WriterPcs
  BY DEF Out, WriterPcs
<1>2. PICK r : r = Out
  OBVIOUS
<1> QED BY <1>1, <1>2, Ordinary DEF Step

LEMMA BeginImplements ==
  ASSUME IInv, HInv, IInv', HInv', NEW u \in Procs, NEW p \in Paths,
         \/ Open(u, p) \/ Create(u, p) \/ MoveStart(u, p) \/ RepairStart(u, p)
         \/ DeleteStart(u, p)
  PROVE  [History!Next]_History!vars
<1>1. Out \in Recs /\ proc[u] \in Recs /\ confirmed' = confirmed /\ facts \in Nat
  BY OutIs DEF IInv, Types, Open, Create, MoveStart, RepairStart, DeleteStart, NoReceipt
<1> HIDE DEF Out
<1>2. CASE Open(u, p) \/ DeleteStart(u, p) \/ Create(u, p)
  <2>1. PICK pc \in {"opening", "deleting", "active"} :
          Acquire(u, p, [Out EXCEPT !.pc = pc, !.path = p])
    BY <1>2 DEF Open, DeleteStart, Create
  <2>2. PICK q : q = [Out EXCEPT !.pc = pc, !.path = p]
    OBVIOUS
  <2>3. q \in Recs /\ q.pc = pc
    BY <1>1, <2>2 DEF Recs, Pcs, WriterPcs
  <2>4. Acquire(u, p, q)
    BY <2>1, <2>2
  <2>5. PICK r : proc' = [proc EXCEPT ![u] = r] /\ r.pc = pc
    BY <2>3, <2>4, AcquireIs
  <2>6. proc[u].pc \notin WriterPcs
    BY <1>2 DEF Open, DeleteStart, Create, At, WriterPcs
  <2>7. CASE pc = "active"
    BY <1>1, <2>5, <2>6, <2>7, Opens
  <2>8. CASE pc \in {"opening", "deleting"}
    <3>1. r.pc \notin WriterPcs
      BY <2>5, <2>8 DEF WriterPcs
    <3> QED BY <1>1, <2>5, <3>1, Ordinary
  <2> QED BY <2>7, <2>8
<1>3. CASE MoveStart(u, p)
  <2>1. PICK doc : doc = Next1(proc[u].base)
    OBVIOUS
  <2>2. PICK q : q = [proc[u] EXCEPT !.pc = "moving", !.to = p, !.doc = doc]
    OBVIOUS
  <2>3. doc \in Seq(Nat)
    BY <1>1, <2>1, NextExtends DEF Recs
  <2>4. q \in Recs /\ q.base = proc[u].base
    BY <1>1, <2>2, <2>3 DEF Recs, Pcs, WriterPcs
  <2>5. Acquire(u, p, q) /\ proc[u].pc \in WriterPcs
    BY <1>3, <2>1, <2>2 DEF MoveStart, At, WriterPcs
  <2>6. PICK r : proc' = [proc EXCEPT ![u] = r] /\ r.base = proc[u].base
    BY <2>4, <2>5, AcquireIs
  <2> QED BY <1>1, <2>5, <2>6, Ordinary
<1>4. CASE RepairStart(u, p)
  <2>1. PICK b : b = RepairSource(p)
    OBVIOUS
  <2>2. PICK doc : doc = Next1(b)
    OBVIOUS
  <2>3. PICK q : q = [Out EXCEPT !.pc = "repairing", !.path = p, !.base = b, !.doc = doc]
    OBVIOUS
  <2>4. b \in Seq(Nat)
    BY <2>1, FilesOf DEF IInv, Types, RepairSource
  <2>5. doc \in Seq(Nat)
    BY <1>1, <2>2, <2>4, NextExtends
  <2>6. q \in Recs /\ q.pc = "repairing"
    BY <1>1, <2>3, <2>4, <2>5 DEF Recs, Pcs, WriterPcs
  <2>7. Acquire(u, p, q) /\ proc[u].pc \notin WriterPcs
    BY <1>4, <2>1, <2>2, <2>3 DEF RepairStart, At, WriterPcs
  <2>8. PICK r : proc' = [proc EXCEPT ![u] = r] /\ r.pc = "repairing"
    BY <2>6, <2>7, AcquireIs
  <2> QED BY <1>1, <2>7, <2>8, Opens
<1> QED BY <1>2, <1>3, <1>4

LEMMA OpenImplements ==
  ASSUME IInv, HInv, IInv', HInv', NEW u \in Procs,
         Leave(u) \/ OpenValid(u) \/ Recover(u) \/ OpenRefused(u) \/ Crash(u)
  PROVE  [History!Next]_History!vars
<1>1. confirmed' = confirmed /\ proc[u] \in Recs
  BY DEF IInv, Types, Leave, OpenValid, Recover, OpenRefused, Crash, NoReceipt
<1>2. CASE Step(u, Out)
  BY <1>1, <1>2, Ends
<1>3. CASE Goto(u, "leaving")
  <2>1. "leaving" \in Pcs /\ "leaving" \notin WriterPcs
    BY DEF Pcs, WriterPcs
  <2> QED BY <1>1, <1>3, <2>1, Goes
<1>4. CASE OpenValid(u) /\ ~ Goto(u, "leaving")
  <2>1. PICK b : b = dir.xml[proc[u].path]
    OBVIOUS
  <2>2. PICK r : r = [proc[u] EXCEPT !.pc = "active", !.base = b]
    OBVIOUS
  <2>3. r.pc = "active"
    BY <1>1, <2>2 DEF Recs
  <2>4. proc' = [proc EXCEPT ![u] = r] /\ proc[u].pc \notin WriterPcs
    BY <1>4, <2>1, <2>2 DEF OpenValid, Step, At, WriterPcs
  <2> QED BY <1>1, <2>3, <2>4, Opens
<1> QED BY <1>2, <1>3, <1>4 DEF Leave, Recover, OpenRefused, Crash

LEMMA WriteImplements ==
  ASSUME IInv, HInv, NEW u \in Procs,
         \/ PublishFirst(u) \/ KeepPrevious(u) \/ CopyPrevious(u) \/ Replace(u)
         \/ PublishFails(u) \/ Hide(u) \/ MovePublish(u) \/ Unhide(u)
         \/ ReleaseDestination(u) \/ RepairPublish(u)
  PROVE  [History!Next]_History!vars
<1>1. proc[u] \in Recs /\ proc[u].pc \in WriterPcs /\ facts \in Nat
  BY DEF IInv, Types, PublishFirst, KeepPrevious, CopyPrevious, Replace, MayReplace,
         PublishFails, Hide, MovePublish, Unhide, ReleaseDestination, RepairPublish, At, WriterPcs
<1>2. ASSUME NEW pc \in Pcs, Goto(u, pc), confirmed' = confirmed
      PROVE  [History!Next]_History!vars
  BY <1>1, <1>2, Goes
<1>3. CASE PublishFirst(u)
  <2>1. PICK doc : doc = Next1(None)
    OBVIOUS
  <2>2. PICK r : r = [proc[u] EXCEPT !.base = doc]
    OBVIOUS
  <2>3. doc \in Seq(Nat) /\ Extends(None, doc) /\ proc[u].base = None
    BY <1>1, <1>3, <2>1, FileFacts, NextExtends DEF PublishFirst
  <2>4. r.pc = proc[u].pc /\ r.base = doc
    BY <1>1, <2>2, <2>3 DEF Recs
  <2>5. \/ confirmed' = doc /\ Step(u, r)
        \/ Goto(u, "faulted") /\ confirmed' = confirmed
    BY <1>3, <2>1, <2>2 DEF PublishFirst, Fault, NoReceipt
  <2>6. CASE confirmed' = doc /\ Step(u, r)
    BY <1>1, <2>3, <2>4, <2>6, Confirms DEF Step
  <2> QED BY <1>2, <2>5, <2>6 DEF Pcs, WriterPcs
<1>4. CASE KeepPrevious(u)
  <2>1. PICK doc : doc = Next1(proc[u].base)
    OBVIOUS
  <2>2. PICK r : r = [proc[u] EXCEPT !.pc = "copying", !.doc = doc]
    OBVIOUS
  <2>3. r.base = proc[u].base
    BY <1>1, <2>2 DEF Recs
  <2>4. proc' = [proc EXCEPT ![u] = r] /\ confirmed' = confirmed
    BY <1>4, <2>1, <2>2 DEF KeepPrevious, Step, NoReceipt
  <2> QED BY <1>1, <2>3, <2>4, Ordinary
<1>5. CASE ReleaseDestination(u)
  <2>1. PICK q : q = [proc[u] EXCEPT !.to = "none", !.leases = @ \ {proc[u].to}]
    OBVIOUS
  <2>2. PICK x : x = [q EXCEPT !.pc = "active"]
    OBVIOUS
  <2>3. PICK y : y = [q EXCEPT !.pc = "faulted"]
    OBVIOUS
  <2>4. x.base = proc[u].base /\ y.base = proc[u].base
    BY <1>1, <2>1, <2>2, <2>3 DEF Recs
  <2>5. confirmed' = confirmed /\ (Step(u, x) \/ Step(u, y) \/ Goto(u, "faulted"))
    BY <1>5, <2>1, <2>2, <2>3 DEF ReleaseDestination, NoReceipt
  <2>6. CASE Step(u, x) \/ Step(u, y)
    BY <1>1, <2>4, <2>5, <2>6, Ordinary DEF Step
  <2> QED BY <1>2, <2>5, <2>6 DEF Pcs, WriterPcs
<1>6. CASE \/ CopyPrevious(u) \/ Replace(u) \/ PublishFails(u) \/ Hide(u) \/ MovePublish(u)
           \/ Unhide(u) \/ RepairPublish(u)
  <2>1. PICK pc \in {"kept", "replaced", "faulted", "active", "hidden", "unhiding", "moved",
                     "unhidden", "repaired", "leaving"} : Goto(u, pc)
    BY <1>6 DEF CopyPrevious, Replace, PublishFails, Hide, MovePublish, Unhide, RepairPublish
  <2>2. confirmed' = confirmed
    BY <1>6 DEF CopyPrevious, Replace, PublishFails, Hide, MovePublish, Unhide, RepairPublish,
                NoReceipt
  <2> QED BY <1>2, <2>1, <2>2 DEF Pcs, WriterPcs
<1> QED BY <1>3, <1>4, <1>5, <1>6

LEMMA CleanImplements ==
  ASSUME IInv, HInv, NEW u \in Procs, CleanPrevious(u) \/ MoveClean(u) \/ RepairClean(u)
  PROVE  [History!Next]_History!vars
<1>1. proc[u] \in Recs /\ proc[u].pc \in {"replaced", "moved", "repaired"}
  BY DEF IInv, Types, CleanPrevious, MoveClean, RepairClean, At
<1>2. Extends(proc[u].base, proc[u].doc) /\ proc[u].pc \in WriterPcs
  BY <1>1 DEF HInv, Has, DocPcs, BasedPcs, MovePcs, WriterPcs
<1>3. ASSUME NEW r, Receipt(u, r), r.pc \in {"active", "finished"}, r.base = proc[u].doc
      PROVE  [History!Next]_History!vars
  <2>1. r.pc \in WriterPcs
    BY <1>3 DEF WriterPcs
  <2> QED BY <1>2, <1>3, <2>1, Confirms DEF Receipt, Step
<1>4. PICK x : x = Rebased(proc[u])
  OBVIOUS
<1>5. PICK y : y = [Rebased(proc[u]) EXCEPT !.path = proc[u].to, !.to = "none"]
  OBVIOUS
<1>6. PICK z : z = [proc[u] EXCEPT !.pc = "finished", !.base = proc[u].doc]
  OBVIOUS
<1>7. /\ x.pc = "active" /\ y.pc = "active" /\ z.pc = "finished"
      /\ x.base = proc[u].doc /\ y.base = proc[u].doc /\ z.base = proc[u].doc
  BY <1>1, <1>4, <1>5, <1>6 DEF Rebased, Recs
<1>8. \/ Receipt(u, x) \/ Receipt(u, y) \/ Receipt(u, z)
      \/ confirmed' = confirmed /\ (Goto(u, "faulted") \/ Goto(u, "leaving"))
  BY <1>4, <1>5, <1>6 DEF CleanPrevious, MoveClean, RepairClean, Fault, NoReceipt
<1>9. CASE confirmed' = confirmed /\ (Goto(u, "faulted") \/ Goto(u, "leaving"))
  BY <1>2, <1>9, Goes DEF Pcs, WriterPcs
<1> QED BY <1>3, <1>7, <1>8, <1>9

LEMMA DeleteImplements ==
  ASSUME IInv, HInv, Deleted, NEW u \in Procs, DeleteOfficial(u) \/ DeletePrevious(u)
  PROVE  [History!Next]_History!vars
<1>1. /\ dir \in disks /\ proc[u].path \in proc[u].leases /\ proc[u].path \in Paths
      /\ Has(proc[u], confirmed, dir, disks) /\ proc \in [Procs -> Recs]
  BY FactsOf DEF DeleteOfficial, DeletePrevious, At, IInv, Types
<1>2. CASE DeleteOfficial(u)
  <2>1. PICK p \in Paths : p = proc[u].path
    BY <1>1
  <2>2. p \in Places /\ p \in proc[u].leases /\ proc[u].pc \notin WriterPcs
    BY <1>1, <1>2, <2>1 DEF DeleteOfficial, Has, At, Places, Place, WriterPcs
  <2>3. \A v \in Procs : proc[v].pc \notin WriterPcs
    BY <2>2, NoOtherWriter
  <2>4. PICK r : proc' = [proc EXCEPT ![u] = r] /\ r.pc = "deletingPrevious"
    BY <1>2, GotoIs DEF DeleteOfficial, Pcs
  <2>5. \A v \in Procs : proc'[v].pc \notin WriterPcs
    BY <1>1, <2>3, <2>4 DEF WriterPcs
  <2>6. Writers = {} /\ Writers' = {} /\ confirmed' = <<>>
    BY <1>2, <2>3, <2>5 DEF Writers, DeleteOfficial, None
  <2>7. HeldNow' = HeldNow
    BY <2>6 DEF HeldNow
  <2>8. History!Delete
    BY <2>6, <2>7, Zenon DEF History!Delete, HeldNow
  <2> QED BY <2>8 DEF History!Next
<1>3. CASE DeletePrevious(u)
  <2>1. Goto(u, "leaving") /\ confirmed' = confirmed
    BY <1>3 DEF DeletePrevious, NoReceipt
  <2> QED BY <2>1, Goes DEF Pcs, WriterPcs
<1> QED BY <1>2, <1>3

LEMMA StepImplements ==
  ASSUME IInv, HInv, Deleted, IInv', HInv', [Next]_vars
  PROVE  [History!Next]_History!vars
<1>1. CASE UNCHANGED vars
  BY <1>1, Unseen DEF vars
<1>2. CASE Next
  <2>1. Operations
    BY <1>2 DEF Next
  <2>2. CASE \/ \E w \in Procs, p \in Paths : AcquireFails(w, p)
             \/ \E p \in Paths : RemoveStaleLock(p)
    BY <2>2, Unseen DEF AcquireFails, RemoveStaleLock, NoReceipt
  <2>3. CASE PowerLoss
    <3>1. confirmed' = confirmed /\ \A v \in Procs : proc'[v].pc \notin WriterPcs
      BY <2>3 DEF PowerLoss, Out, WriterPcs
    <3>2. CASE Writers = {}
      BY <3>1, <3>2, Unseen DEF Writers
    <3> QED BY <3>1, <3>2, Leaves
  <2>4. ASSUME NEW w \in Procs, NEW p \in Paths,
               \/ Open(w, p) \/ Create(w, p) \/ MoveStart(w, p) \/ RepairStart(w, p)
               \/ DeleteStart(w, p)
        PROVE  [History!Next]_History!vars
    BY <2>4, BeginImplements
  <2>5. ASSUME NEW w \in Procs,
               \/ Leave(w) \/ OpenValid(w) \/ Recover(w) \/ OpenRefused(w) \/ Crash(w)
               \/ DeleteOfficial(w) \/ DeletePrevious(w)
        PROVE  [History!Next]_History!vars
    BY <2>5, OpenImplements, DeleteImplements
  <2>6. ASSUME NEW w \in Procs,
               \/ PublishFirst(w) \/ KeepPrevious(w) \/ CopyPrevious(w) \/ Replace(w)
               \/ PublishFails(w) \/ CleanPrevious(w)
               \/ Hide(w) \/ MovePublish(w) \/ Unhide(w) \/ ReleaseDestination(w)
               \/ MoveClean(w) \/ RepairPublish(w) \/ RepairClean(w)
        PROVE  [History!Next]_History!vars
    BY <2>6, WriteImplements, CleanImplements
  <2> QED BY <2>1, <2>2, <2>3, <2>4, <2>5, <2>6 DEF Operations
<1> QED BY <1>1, <1>2

\* The callers of the store (src/src/session.lua) see one history that only
\* grows, and that every writer is handed with all that was confirmed of it:
\* each step of the store is a step of ContextHistory or none.
THEOREM HistoryImplemented == Spec /\ NeverBoth => ImplementsHistory
<1>1. Init /\ NeverBoth => IInv /\ HInv /\ Deleted
  BY InitHas
<1>2. IInv /\ HInv /\ Deleted /\ [Next]_vars => IInv' /\ HInv' /\ Deleted'
  BY NextHas
<1>3. Init => History!Init
  <2>1. SUFFICES ASSUME Init PROVE History!Init
    OBVIOUS
  <2>2. \A w \in Procs : proc[w].pc \notin WriterPcs
    BY <2>1 DEF Init, Out, WriterPcs
  <2>3. Writers = {} /\ confirmed = <<>>
    BY <2>1, <2>2 DEF Writers, Init, None
  <2>4. HeldNow = [w \in Procs |-> <<>>]
    BY <2>3 DEF HeldNow, None
  <2> QED BY <2>3, <2>4, Zenon DEF History!Init, HeldNow
<1>4. IInv /\ HInv /\ Deleted /\ [Next]_vars => [History!Next]_History!vars
  BY NextHas, StepImplements
<1> QED BY <1>1, <1>2, <1>3, <1>4, PTL DEF Spec, ImplementsHistory, History!Spec
=============================================================================
