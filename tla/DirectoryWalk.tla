---------------------------- MODULE DirectoryWalk ----------------------------
(* The list tool over the bounded walk of the native layer: execute_list       *)
(* (src/src/tools.lua), direct_walk (src/src/fs.lua) and l_fs_walk_direct      *)
(* (src/native/yaca_native.c, one body per system).  The tree is read path by  *)
(* path while other programs change it, and nothing locks it on POSIX; a list  *)
(* is walked twice and answered when both walks have the same generation.      *)
(*                                                                             *)
(* The path "list" is asked for leads to the folder tree.route: "root", which  *)
(* was admitted, or "elsewhere" or none once another program has moved one of  *)
(* its ancestors.  "link" is a symbolic link to "elsewhere".  A stamp stands for   *)
(* size and "modified", which POSIX takes from both times, so a move shows in  *)
(* it, and Windows from the last write alone.                                  *)
EXTENDS EntryWorld, Sequences

CONSTANTS MaxTree,     \* how many steps other programs take in the tree
          Depths,      \* depths a list asks for, 0 being the folder alone
          Limits       \* entry limits of a walk

ASSUME WalkAssumption ==
  MaxTree \in Nat /\ Depths \subseteq {0, 1} /\ Limits \subseteq Nat \ {0}

VARIABLES tree, walk, views

walkVars == <<tree, walk, views>>

Folders == {"root", "elsewhere", "sub"}
Plain   == {"file", "inner", "outer", "spare"}
Things  == Folders \cup Plain \cup {"link"}
Slots   == {".gitignore", "a", "b"}

Empty == [n \in Slots |-> Absent]

NoWalk == [depth |-> 0, most |-> 1, round |-> 1, stack |-> <<>>, next |-> <<>>,
           found |-> {}, cut |-> FALSE, coarse |-> FALSE, todo |-> {}, marks |-> {},
           snaps |-> {}, generation |-> {}, items |-> {}, complete |-> FALSE]
-------------------------------------------------------------------------------
(* What a path of at most two names leads to.                                  *)

\* A path through a link is followed by POSIX and refused by Windows.
Follow(o) == IF Posix /\ o = "link" THEN "elsewhere" ELSE o

\* Where the relative path of a folder leads from the canonical root.
FolderAt(p) ==
  LET o == IF p = <<>> THEN tree.route
           ELSE IF tree.route = Absent THEN Absent
           ELSE Follow(tree.entries[tree.route][p[1]])
  IN IF o \in Folders THEN o ELSE Absent

Front(p) == SubSeq(p, 1, Len(p) - 1)

Child(p, n) == Append(p, n)

EntryAt(p) ==
  IF p = <<>> THEN tree.route
  ELSE IF FolderAt(Front(p)) = Absent THEN Absent
  ELSE tree.entries[FolderAt(Front(p))][p[Len(p)]]

\* Not so with a link that leads to a folder.
IsFolder(p) == EntryAt(p) \in Folders

Identity(t, o) == [obj |-> o, stamp |-> IF o = Absent THEN 0 ELSE t.stamp[o]]

Ancestors(p) == [i \in 1..Len(p) |-> FolderAt(SubSeq(p, 1, i - 1))]

Inspectable(p) == \A i \in 1..Len(p) : Ancestors(p)[i] # Absent

Inspect(p) == [path |-> p, id |-> Identity(tree, EntryAt(p)), ancestors |-> Ancestors(p)]

\* direct_snapshot_equal: an ancestor is compared by its object alone.
Current(s) == Inspectable(s.path) /\ Inspect(s.path) = s

\* strcmp order of relative paths.
Rank(p) ==
  LET r == [n \in Slots |-> CASE n = ".gitignore" -> 1 [] n = "a" -> 2 [] n = "b" -> 3]
  IN 4 * r[p[1]] + IF Len(p) = 2 THEN r[p[2]] ELSE 0

First(paths) == CHOOSE p \in paths : \A q \in paths : Rank(p) <= Rank(q)
-------------------------------------------------------------------------------
(* The walk.  A frame of the stack is an open directory: what it held when its *)
(* enumeration began, and the names already returned.                          *)

AtList(a) == call.op = "list" /\ call.at = a

Proceed(a, w) == Goto(a) /\ walk' = w /\ UNCHANGED <<still, obs, tree, views>>

Fail(r) == Answer(r) /\ walk' = NoWalk /\ UNCHANGED <<tree, views>>

Open == walk.stack[1]

\* The entry limit is noticed by the first path that no longer fits.
Appended(w, p) ==
  IF Cardinality(w.found) >= w.most THEN [w EXCEPT !.cut = TRUE]
  ELSE [w EXCEPT !.found = @ \cup {p}]

CloseFolder(w) ==
  IF Len(w.stack) = 1
  THEN Proceed("mark", [w EXCEPT !.stack = <<>>, !.todo = w.found])
  ELSE Proceed("read", [w EXCEPT !.stack = Tail(@)])

\* direct_walk re-inspects the root it is given, then calls the native walk.
VerifyRoot ==
  /\ AtList("verify")
  /\ IF Inspect(<<>>).id = [obj |-> "root", stamp |-> 0]
     THEN Proceed("start", walk)
     ELSE Fail("TargetChanged")

\* The native walk looks the root up once more, by its path, and takes any folder.
PosixStart ==
  /\ Posix /\ AtList("start")
  /\ IF FolderAt(<<>>) = Absent THEN Fail("InvalidTargetType")
     ELSE Proceed("open", [walk EXCEPT !.next = <<>>])

WindowsStart ==
  /\ ~ Posix /\ AtList("start")
  /\ IF ~ IsFolder(<<>>) THEN Fail("InvalidTargetType")
     ELSE Proceed("open", [walk EXCEPT !.next = <<>>])

OpenFolder ==
  Proceed("scan", [walk EXCEPT !.stack =
    <<[path |-> walk.next, dir |-> FolderAt(walk.next), was |-> Empty, seen |-> {}]>> \o @])

\* opendir follows a link that took the folder's place.
PosixOpen ==
  /\ Posix /\ AtList("open")
  /\ IF FolderAt(walk.next) = Absent THEN Fail("Io") ELSE OpenFolder

\* The handle refuses a link, and keeps the folder from being moved while it is open.
WindowsOpen ==
  /\ ~ Posix /\ AtList("open")
  /\ IF ~ IsFolder(walk.next) THEN Fail("Io") ELSE OpenFolder

\* A folder with a .gitignore is reported by that file alone.
ScanFolder ==
  LET held == tree.entries[Open.dir]
  IN IF held[".gitignore"] # Absent
     THEN CloseFolder(Appended([walk EXCEPT !.coarse = TRUE], Child(Open.path, ".gitignore")))
     ELSE Proceed("read", [walk EXCEPT !.stack[1].was = held])

PosixScan == Posix /\ AtList("scan") /\ ScanFolder

WindowsScan == ~ Posix /\ AtList("scan") /\ ScanFolder

\* An enumeration may return a name that is gone since, and may return a new one.
Enumerated(n) == {Open.was[n], tree.entries[Open.dir][n]} \ {Absent}

Returns(n) == AtList("read") /\ ~ walk.cut /\ n \notin Open.seen /\ Enumerated(n) # {}

Entered(p, w, descend) ==
  IF descend THEN Proceed("open", [w EXCEPT !.next = p]) ELSE Proceed("read", w)

Noted(n) == Appended([walk EXCEPT !.stack[1].seen = @ \cup {n}], Child(Open.path, n))

\* The child is looked up again by its path, and a folder is entered even when the
\* limit has just been reached.
PosixRead(n) ==
  /\ Posix /\ Returns(n)
  /\ LET p == Child(Open.path, n)
     IN IF EntryAt(p) = Absent THEN Fail("NotFound")
        ELSE Entered(p, Noted(n), EntryAt(p) \in Folders /\ Len(Open.path) < walk.depth)

\* The attributes that were enumerated decide, and the limit ends the enumeration.
WindowsRead(n) ==
  /\ ~ Posix /\ Returns(n)
  /\ \E o \in Enumerated(n) :
       Entered(Child(Open.path, n), Noted(n),
               o \in Folders /\ Len(Open.path) < walk.depth /\ ~ Noted(n).cut)

\* What stood in the folder all along has been returned when the enumeration ends.
EndFolder ==
  /\ AtList("read")
  /\ \/ walk.cut
     \/ \A n \in Slots \ Open.seen : Open.was[n] = Absent \/ tree.entries[Open.dir][n] = Absent
  /\ CloseFolder(walk)

MarkSkipsTimes(p) == <<p, EntryAt(p)>>   \* mutant

\* What the generation's digest takes from one entry.
Mark(p) == <<p, Identity(tree, EntryAt(p))>>

Taken(p) == [walk EXCEPT !.todo = @ \ {p}, !.snaps = @ \cup {Inspect(p)}]

\* POSIX hashes a stat of its own, and takes the snapshot afterwards.
PosixMark ==
  /\ Posix /\ AtList("mark") /\ walk.todo # {}
  /\ LET p == First(walk.todo)
     IN IF EntryAt(p) = Absent THEN Fail("TargetChanged")
        ELSE Proceed("snap", [walk EXCEPT !.marks = @ \cup {Mark(p)}])

\* The snapshot may be one of a path that no longer exists.
PosixSnapshot ==
  /\ AtList("snap")
  /\ LET p == First(walk.todo)
     IN IF ~ Inspectable(p) THEN Fail("NotFound") ELSE Proceed("mark", Taken(p))

\* Windows hashes the fields of the snapshot itself.
WindowsMark(s) == <<s.path, s.id>>

WindowsSnapshot ==
  /\ ~ Posix /\ AtList("mark") /\ walk.todo # {}
  /\ LET p == First(walk.todo)
     IN IF EntryAt(p) = Absent THEN Fail("Storage")
        ELSE Proceed("mark", [Taken(p) EXCEPT !.marks = @ \cup {WindowsMark(Inspect(p))}])

Whole(w) == ~ w.cut /\ ~ w.coarse

\* The first walk's result: its snapshots, its generation, whether it is complete.
ReturnWalk ==
  /\ AtList("mark") /\ walk.todo = {} /\ walk.round = 1
  /\ Proceed("classify", [walk EXCEPT !.generation = walk.marks, !.marks = {}, !.found = {},
                            !.todo = {s.path : s \in walk.snaps}, !.complete = Whole(walk)])

SnapshotOf(p) == CHOOSE s \in walk.snaps : s.path = p

\* classify_walk_entry verifies the snapshot, then inspects the path once more.
ReverifyEntry ==
  /\ AtList("classify") /\ walk.todo # {}
  /\ IF Current(SnapshotOf(First(walk.todo))) THEN Proceed("inspect", walk)
     ELSE Fail("TargetChanged")

\* An entry that does not exist has no identity to read the item's fields from.
InspectEntry ==
  /\ AtList("inspect")
  /\ LET p == First(walk.todo)
     IN IF ~ Inspectable(p) THEN Fail("NotFound")
        ELSE IF EntryAt(p) = Absent THEN Fail("Raised")
        ELSE Proceed("classify", [walk EXCEPT !.todo = @ \ {p},
                                    !.items = @ \cup {<<p, Identity(tree, EntryAt(p))>>}])

\* confirm_walk_generation walks the same root again.
ConfirmList ==
  /\ AtList("classify") /\ walk.todo = {}
  /\ Proceed("verify", [walk EXCEPT !.round = 2, !.snaps = {}, !.cut = FALSE, !.coarse = FALSE])

AnswerList ==
  /\ AtList("mark") /\ walk.todo = {} /\ walk.round = 2
  /\ IF walk.marks = walk.generation THEN Answer("ok") /\ UNCHANGED walkVars
     ELSE Fail("TargetChanged")

WalkNext ==
  \/ VerifyRoot \/ PosixStart \/ WindowsStart \/ PosixOpen \/ WindowsOpen
  \/ PosixScan \/ WindowsScan \/ EndFolder
  \/ \E n \in Slots : PosixRead(n) \/ WindowsRead(n)
  \/ PosixMark \/ PosixSnapshot \/ WindowsSnapshot \/ ReturnWalk
  \/ ReverifyEntry \/ InspectEntry \/ ConfirmList \/ AnswerList
-------------------------------------------------------------------------------
(* Other programs, and what the path shows to them.                            *)

\* The entries below the path, to the depth asked for, with a link left unfollowed.
Shown(t, depth) ==
  LET top == IF t.route = Absent THEN Empty ELSE t.entries[t.route]
      below(f) == {n \in Slots : t.entries[f][n] # Absent}
  IN {<<<<n>>, Identity(t, top[n])>> : n \in {k \in Slots : top[k] # Absent}} \cup
     IF depth = 0 THEN {}
     ELSE UNION {{<<<<n, m>>, Identity(t, t.entries[top[n]][m])>> : m \in below(top[n])} :
                   n \in {k \in Slots : top[k] \in Folders}}

Placed == UNION {{tree.entries[f][n] : n \in Slots} : f \in Folders}

\* Windows keeps a folder from being moved while the walk has it open.
Held == IF Posix THEN {} ELSE {walk.stack[i].dir : i \in 1..Len(walk.stack)}

TreeStep(t) ==
  /\ call.op = "list" /\ call.at # "done" /\ tree.steps < MaxTree
  /\ tree' = [t EXCEPT !.steps = @ + 1]
  /\ views' = views \cup {Shown(tree', walk.depth)}
  /\ UNCHANGED <<vars, walk>>

\* An entry is created, removed, moved in or out, or renamed over.
PlaceEntry(f, n, o) ==
  LET old == tree.entries[f][n]
      moved == IF Posix THEN {o, old, f} ELSE {f}
  IN /\ o # old /\ o # f /\ o \notin Placed \ {Absent} /\ old \notin Held
     /\ TreeStep([tree EXCEPT !.entries[f][n] = o,
                    !.stamp = [x \in Things |-> IF x \in moved THEN @[x] + 1 ELSE @[x]]])

WriteFile(o) == o \in Placed /\ TreeStep([tree EXCEPT !.stamp[o] = @ + 1])

\* An ancestor of the path is renamed away, and another one may take its place.
Reroute(r) == Held = {} /\ r # tree.route /\ TreeStep([tree EXCEPT !.route = r])

TreeNext ==
  \/ \E f \in {"root", "sub"}, n \in Slots, o \in {Absent, "spare", "link", "sub", "file"} :
       PlaceEntry(f, n, o)
  \/ \E o \in {"file", "inner"} : WriteFile(o)
  \/ \E r \in {"root", "elsewhere", Absent} : Reroute(r)

\* A list begins with the inspection that admitted its root.
WalkInit ==
  /\ IF call.op = "list"
     THEN \E d \in Depths, most \in Limits : walk = [NoWalk EXCEPT !.depth = d, !.most = most]
     ELSE walk = NoWalk
  /\ \E ignore \in IF walk.depth = 0 THEN {Absent} ELSE {Absent, "outer"} :
       tree = [route |-> "root", steps |-> 0, stamp |-> [x \in Things |-> 0],
               entries |-> [f \in Folders |->
                 CASE f = "root" -> [Empty EXCEPT !["a"] = "file", !["b"] = "sub"]
                   [] f = "sub" -> [Empty EXCEPT !["a"] = "inner", ![".gitignore"] = ignore]
                   [] f = "elsewhere" -> Empty]]
  /\ views = {Shown(tree, walk.depth)}
-------------------------------------------------------------------------------
\* A folder below which nothing is listed.
Bare(n) == \A e \in walk.items : Len(e[1]) = 2 => e[1][1] # n

\* A list that answers ok shows what the path showed at one moment of the call:
\* every item is the entry's identity of that moment, and a list that says it is
\* complete leaves out none, though each path was read at a moment of its own.
\* Not so when the second walk was cut off or met a .gitignore, since "complete"
\* is the first walk's word and the generation says nothing of either; nor on
\* Windows of a folder below which nothing is listed, where one that was empty to
\* the first walk may be moved away while the second passes and show no trace.
ListIsASnapshot ==
  (call.op = "list" /\ call.at = "done" /\ call.result = "ok") =>
    \E v \in views :
      /\ walk.items \subseteq v
      /\ walk.complete /\ Whole(walk) =>
           \A e \in v \ walk.items : ~ Posix /\ Len(e[1]) = 2 /\ Bare(e[1][1])
===============================================================================
