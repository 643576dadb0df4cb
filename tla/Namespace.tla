------------------------------ MODULE Namespace ------------------------------
(***************************************************************************)
(* The namespace operations of Async/kfs_coroutine_core.cpp over the locks *)
(* and caches of Async/namespace_coordinator.cpp.                          *)
(*                                                                         *)
(* A task is one request.  It walks its path with one directory locked at  *)
(* a time, locks the directories it will change in ascending order, looks  *)
(* everything up again, takes the state lock of an inode whose open count  *)
(* matters and commits one journal transaction, which takes effect as a    *)
(* whole or not at all.  A step of the model ends where the task waits for *)
(* a lock or for the journal; locks are dropped with the last step that    *)
(* needs them.                                                             *)
(*                                                                         *)
(* The cached inode of a deleted file keeps its number and type until the  *)
(* number is allocated again, and a deleted directory its entries: kind    *)
(* and entry are what a lookup finds, used is what is allocated.           *)
(***************************************************************************)
EXTENDS Integers, Sequences, FiniteSets, FiniteSetsExt

CONSTANTS
    Tasks,      \* requests that run together
    Inodes,     \* inode numbers
    Root,       \* the root directory
    Names,      \* the names of files
    Scenes      \* what they meet: [kind, entry, ops, opens, tries, crashes]

AllNames == Names \cup {".."}

(***************************************************************************)
(* A scene is a tree to begin with (the type of each inode and the entries *)
(* of each directory), the operations that are tried, and bounds: the open *)
(* handles, the attempts of a rename (8 in the code), and whether the      *)
(* server may crash.                                                       *)
(***************************************************************************)
ASSUME NamespaceAssumption ==
    /\ Inodes \subseteq Nat \ {0}
    /\ IsFiniteSet(Inodes)
    /\ Root \in Inodes
    /\ ".." \notin Names
    /\ \A s \in Scenes : /\ s.kind[Root] = "dir" /\ s.opens \in Nat
                         /\ s.tries \in Nat \ {0} /\ s.crashes \in BOOLEAN

VARIABLES
    scene,      \* the tree to begin with and the operations
    up,         \* the server runs
    kind,       \* type in the cached inode: "none" if never in use
    used,       \* the allocated inode numbers
    marked,     \* inodes with the persistent orphan flag
    entry,      \* the entries of each directory, 0 for a free name
    cached,     \* the dentry cache
    refs,       \* open references of each inode
    orphaned,   \* inodes known to be unlinked and open
    handles,    \* open handles that clients hold
    held,       \* the locks that are held
    task        \* where each task is

disk == <<used, marked>>
vars == <<scene, up, kind, used, marked, entry, cached, refs, orphaned, handles,
          held, task>>

NoEntry == 0
NotDir == -1
NoNames == [n \in AllNames |-> NoEntry]
Uncached == [complete |-> FALSE, names |-> NoNames]
NoNode == [ino |-> NoEntry, kind |-> "none"]
Idle == [pc |-> "idle", op |-> [kind |-> "none"], at |-> Root, rest |-> <<>>,
         dir |-> Root, ndir |-> Root, src |-> NoNode, dst |-> NoNode,
         seen |-> {}, need |-> {}, node |-> NoEntry, tries |-> 0]

Dirs == {i \in used : kind[i] = "dir"}
Live == used \ marked

Init ==
    /\ scene \in Scenes
    /\ up = TRUE
    /\ kind = scene.kind
    /\ used = {i \in Inodes : kind[i] # "none"}
    /\ marked = {} /\ orphaned = {}
    /\ entry = scene.entry
    /\ cached = [i \in Inodes |-> Uncached]
    /\ refs = [i \in Inodes |-> 0] /\ handles = refs
    /\ held = {}
    /\ task = [t \in Tasks |-> Idle]
-----------------------------------------------------------------------------
(***************************************************************************)
(* Locks.  A directory and a file are locked by the same range arbiter of  *)
(* the inode; RangeArbiter shows that it keeps the exclusion used here.    *)
(***************************************************************************)
RangeOf(i) == <<"range", i>>
StateOf(i) == <<"state", i>>
Topology == <<"topology", 0>>

Free(lock, mode) ==
    \A h \in held : h.lock = lock => mode = "read" /\ h.mode = "read"

Hold(t, lock, mode) == [task |-> t, lock |-> lock, mode |-> mode]
Drop(t) == {h \in held : h.task # t}
HasTopology(t) == Hold(t, Topology, "write") \in held

Move(t, r) == task' = [task EXCEPT ![t] = r]
At(t, pc) == up /\ task[t].pc = pc

\* The request is answered: everything it holds is released.
Finish(t) ==
    /\ Move(t, Idle)
    /\ held' = Drop(t)

(***************************************************************************)
(* find_child_locked: the cache answers if it has the name, or if it is    *)
(* complete; otherwise the directory is scanned and cached as a whole.     *)
(***************************************************************************)
Find(d, n) ==
    CASE kind[d] = "none" -> NoEntry
      [] kind[d] = "file" -> NotDir
      [] OTHER -> IF cached[d].names[n] # NoEntry \/ cached[d].complete
                  THEN cached[d].names[n] ELSE entry[d][n]

Misses(d, n) ==
    kind[d] = "dir" /\ cached[d].names[n] = NoEntry /\ ~cached[d].complete

Scan(d) ==
    [complete |-> TRUE,
     names |-> [n \in AllNames |-> IF entry[d][n] # NoEntry THEN entry[d][n]
                                   ELSE cached[d].names[n]]]

\* The cache after the lookups L, a set of pairs of a directory and a name.  It
\* stays as it is if there is no memory for more.
Lookup(L) ==
    cached' \in {cached,
                 [d \in Inodes |-> IF \E l \in L : l[1] = d /\ Misses(d, l[2])
                                   THEN Scan(d) ELSE cached[d]]}

\* Mistake: an allocation failure leaves the directory complete.
CacheOrLose(c, d, n, i) ==
    {[c EXCEPT ![d].names[n] = i]} \cup
    (IF c[d].names[n] = NoEntry THEN {c} ELSE {})

\* cache_dentry: a new name needs memory; without it the directory is not
\* complete any more.
CacheDentry(c, d, n, i) ==
    {[c EXCEPT ![d].names[n] = i]} \cup
    (IF c[d].names[n] = NoEntry THEN {[c EXCEPT ![d].complete = FALSE]}
     ELSE {})

Node(i) == IF i > 0 THEN [ino |-> i, kind |-> kind[i]] ELSE NoNode
Empty(d) == \A n \in Names : entry[d][n] = NoEntry
-----------------------------------------------------------------------------
(***************************************************************************)
(* The first half of a request: it resolves its path, or both.             *)
(***************************************************************************)
Name(op) == op.path[Len(op.path)]
NewName(op) == op.to[Len(op.to)]
Opens(op) == op.kind \in {"open", "creat", "trunc"}
Mode(op) == IF op.kind \in {"open", "trunc"} THEN "read" ELSE "write"

\* resolve_parent stops before the last component; what comes next.
Arrive(r) ==
    CASE r.op.kind = "stat" -> r
      [] r.pc = "walk" /\ Len(r.rest) = 1 ->
           CASE r.op.kind = "rename" ->
                  [r EXCEPT !.dir = r.at, !.at = Root, !.rest = r.op.to,
                            !.pc = IF Len(r.op.to) = 1 THEN "source"
                                   ELSE "walkto",
                            !.ndir = Root]
             [] r.op.kind = "rmdir" -> [r EXCEPT !.dir = r.at, !.pc = "source"]
             [] OTHER -> [r EXCEPT !.dir = r.at, !.need = {r.at},
                                   !.pc = "lock"]
      [] r.pc = "walkto" /\ Len(r.rest) = 1 ->
           [r EXCEPT !.ndir = r.at, !.pc = "source"]
      [] OTHER -> r

Walking(op, at, tries) ==
    Arrive([Idle EXCEPT !.pc = "walk", !.op = op, !.at = at, !.rest = op.path,
                        !.node = IF op.rel THEN at ELSE NoEntry,
                        !.tries = tries])
Gated(op, tries) == [Idle EXCEPT !.pc = "topology", !.op = op, !.tries = tries]

\* A handle that a running request uses is not closed under it.
InUse(i) == Cardinality({t \in Tasks : task[t].pc # "idle" /\ task[t].op.rel
                                       /\ task[t].node = i})
Opened == Cardinality({p \in Inodes \X (1 .. scene.opens) : p[2] <= refs[p[1]]})
          + Cardinality({t \in Tasks : task[t].pc # "idle"
                                       /\ Opens(task[t].op)})

Begin(t) ==
    /\ At(t, "idle")
    /\ \E op \in scene.ops :
         /\ Opens(op) => Opened < scene.opens
         /\ \E d \in IF op.rel THEN {i \in Inodes : handles[i] > InUse(i)
                                                    /\ kind[i] = "dir"}
                     ELSE {Root} :
              Move(t, IF op.kind = "rmdir" THEN Gated(op, 0)
                      ELSE Walking(op, d, 0))
    /\ UNCHANGED <<scene, up, kind, disk, entry, cached, refs, orphaned, handles,
                   held>>

\* acquire_topology_change
AcquireTopology(t) ==
    /\ At(t, "topology")
    /\ Free(Topology, "write")
    /\ held' = held \cup {Hold(t, Topology, "write")}
    /\ Move(t, Walking(task[t].op, Root, task[t].tries))
    /\ UNCHANGED <<scene, up, kind, disk, entry, cached, refs, orphaned, handles>>

\* find_child: the directory is locked for the lookup alone.
Walk(t) ==
    LET r == task[t]
        c == Find(r.at, Head(r.rest))
    IN  /\ At(t, "walk") \/ At(t, "walkto")
        /\ Free(RangeOf(r.at), "read")
        /\ Lookup({<<r.at, Head(r.rest)>>})
        /\ IF c <= 0 \/ (r.op.kind = "stat" /\ Len(r.rest) = 1)
                     \/ (r.op.kind # "stat" /\ kind[c] # "dir")
           THEN Finish(t)
           ELSE /\ Move(t, Arrive([r EXCEPT !.at = c, !.rest = Tail(r.rest)]))
                /\ UNCHANGED held
        /\ UNCHANGED <<scene, up, kind, disk, entry, refs, orphaned, handles>>

\* Mistake: directories are moved without the topology gate.
FindSourceUngated(t) ==
    LET r == task[t]
        c == Find(r.dir, Name(r.op))
    IN  /\ At(t, "source")
        /\ Free(RangeOf(r.dir), "read")
        /\ Lookup({<<r.dir, Name(r.op)>>})
        /\ CASE c <= 0 -> Finish(t)
             [] c > 0 /\ r.op.kind = "rmdir" ->
                  /\ Move(t, [r EXCEPT !.src = Node(c), !.need = {r.dir, c},
                                       !.pc = "lock"])
                  /\ UNCHANGED held
             [] OTHER ->
                  /\ Move(t, [r EXCEPT !.src = Node(c), !.pc = "target"])
                  /\ UNCHANGED held
        /\ UNCHANGED <<scene, up, kind, disk, entry, refs, orphaned, handles>>

\* Mistake: a rename of a directory starts over without the gate, and without
\* counting the attempt.
FindSourceAgain(t) ==
    LET r == task[t]
        c == Find(r.dir, Name(r.op))
    IN  /\ At(t, "source")
        /\ Free(RangeOf(r.dir), "read")
        /\ Lookup({<<r.dir, Name(r.op)>>})
        /\ CASE c <= 0 -> Finish(t)
             [] c > 0 /\ r.op.kind = "rmdir" ->
                  /\ Move(t, [r EXCEPT !.src = Node(c), !.need = {r.dir, c},
                                       !.pc = "lock"])
                  /\ UNCHANGED held
             [] c > 0 /\ r.op.kind = "rename" /\ kind[c] = "dir"
                      /\ ~HasTopology(t) ->
                  /\ Move(t, Walking(r.op, Root, r.tries))
                  /\ UNCHANGED held
             [] OTHER ->
                  /\ Move(t, [r EXCEPT !.src = Node(c), !.pc = "target"])
                  /\ UNCHANGED held
        /\ UNCHANGED <<scene, up, kind, disk, entry, refs, orphaned, handles>>

\* The child that rmdir or rename expects to find again under its locks.  A
\* rename of a directory starts over behind the topology gate.
FindSource(t) ==
    LET r == task[t]
        c == Find(r.dir, Name(r.op))
    IN  /\ At(t, "source")
        /\ Free(RangeOf(r.dir), "read")
        /\ Lookup({<<r.dir, Name(r.op)>>})
        /\ CASE c <= 0 -> Finish(t)
             [] c > 0 /\ r.op.kind = "rmdir" ->
                  /\ Move(t, [r EXCEPT !.src = Node(c), !.need = {r.dir, c},
                                       !.pc = "lock"])
                  /\ UNCHANGED held
             [] c > 0 /\ r.op.kind = "rename" /\ kind[c] = "dir"
                      /\ ~HasTopology(t) ->
                  /\ IF r.tries + 1 = scene.tries THEN Move(t, Idle)
                     ELSE Move(t, Gated(r.op, r.tries + 1))
                  /\ UNCHANGED held
             [] OTHER ->
                  /\ Move(t, [r EXCEPT !.src = Node(c), !.pc = "target"])
                  /\ UNCHANGED held
        /\ UNCHANGED <<scene, up, kind, disk, entry, refs, orphaned, handles>>

\* The directories a rename locks.
RenameSet(r, dst) ==
    {r.dir, r.ndir} \cup {x.ino : x \in {y \in {r.src, dst} : y.kind = "dir"}}

FindTarget(t) ==
    LET r == task[t]
        c == Find(r.ndir, NewName(r.op))
    IN  /\ At(t, "target")
        /\ Free(RangeOf(r.ndir), "read")
        /\ Lookup({<<r.ndir, NewName(r.op)>>})
        /\ IF c = NotDir THEN Finish(t)
           ELSE /\ Move(t, [r EXCEPT !.dst = Node(c), !.at = r.ndir,
                                     !.need = RenameSet(r, Node(c)),
                                     !.pc = IF r.src.kind = "dir"
                                               /\ r.dir # r.ndir
                                            THEN "below" ELSE "lock"])
                /\ UNCHANGED held
        /\ UNCHANGED <<scene, up, kind, disk, entry, refs, orphaned, handles>>

\* parent_is_below climbs from the new parent to the root.
Below(t) ==
    LET r == task[t]
        c == Find(r.at, "..")
    IN  /\ At(t, "below")
        /\ CASE r.at = r.src.ino \/ r.at \in r.seen ->
                  Finish(t) /\ UNCHANGED cached
             [] r.at # r.src.ino /\ r.at = Root ->
                  /\ Move(t, [r EXCEPT !.pc = "lock", !.seen = {}])
                  /\ UNCHANGED <<held, cached>>
             [] OTHER ->
                  /\ Free(RangeOf(r.at), "read")
                  /\ Lookup({<<r.at, "..">>})
                  /\ IF c <= 0 \/ c = r.at \/ kind[c] # "dir" THEN Finish(t)
                     ELSE /\ Move(t, [r EXCEPT !.at = c,
                                               !.seen = @ \cup {r.at}])
                          /\ UNCHANGED held
        /\ UNCHANGED <<scene, up, kind, disk, entry, refs, orphaned, handles>>

\* acquire_ordered
Lock(t) ==
    LET r == task[t]
        i == Min(r.need)
    IN  /\ At(t, "lock")
        /\ Free(RangeOf(i), Mode(r.op))
        /\ held' = held \cup {Hold(t, RangeOf(i), Mode(r.op))}
        /\ Move(t, [r EXCEPT !.need = @ \ {i},
                             !.pc = IF r.need = {i} THEN "work" ELSE "lock"])
        /\ UNCHANGED <<scene, up, kind, disk, entry, cached, refs, orphaned, handles>>
-----------------------------------------------------------------------------
(***************************************************************************)
(* The second half, under the locks.                                       *)
(***************************************************************************)
\* open_child_locked and the checks of finish_open_locked
WorkOpen(t) ==
    LET r == task[t]
        c == Find(r.dir, Name(r.op))
    IN  /\ At(t, "work")
        /\ Opens(r.op)
        /\ Lookup({<<r.dir, Name(r.op)>>})
        /\ IF \/ c = NotDir
              \/ c = NoEntry /\ r.op.kind # "creat"
              \/ c > 0 /\ r.op.kind = "trunc" /\ kind[c] = "dir"
           THEN Finish(t)
           ELSE /\ Move(t, [r EXCEPT !.src = Node(c),
                                     !.pc = CASE c = NoEntry -> "commit"
                                              [] r.op.kind = "trunc" -> "range"
                                              [] OTHER -> "retain"])
                /\ UNCHANGED held
        /\ UNCHANGED <<scene, up, kind, disk, entry, refs, orphaned, handles>>

\* make_directory: create_node_locked refuses a name that exists.
WorkMkdir(t) ==
    LET r == task[t]
        c == Find(r.dir, Name(r.op))
    IN  /\ At(t, "work")
        /\ r.op.kind = "mkdir"
        /\ Lookup({<<r.dir, Name(r.op)>>})
        /\ IF c # NoEntry THEN Finish(t)
           ELSE Move(t, [r EXCEPT !.pc = "commit"]) /\ UNCHANGED held
        /\ UNCHANGED <<scene, up, kind, disk, entry, refs, orphaned, handles>>

\* remove_child_locked up to the state lock of the child
WorkRemove(t) ==
    LET r == task[t]
        c == Find(r.dir, Name(r.op))
    IN  /\ At(t, "work")
        /\ r.op.kind \in {"unlink", "rmdir"}
        /\ Lookup({<<r.dir, Name(r.op)>>})
        /\ IF \/ c <= 0
              \/ r.op.kind = "unlink" /\ kind[c] = "dir"
              \/ r.op.kind = "rmdir" /\ (c # r.src.ino \/ kind[c] # "dir"
                                         \/ ~Empty(c))
           THEN Finish(t)
           ELSE /\ Move(t, [r EXCEPT !.src = Node(c), !.pc = "state"])
                /\ UNCHANGED held
        /\ UNCHANGED <<scene, up, kind, disk, entry, refs, orphaned, handles>>

\* EAGAIN of rename_locked: the next attempt starts without the gate.
Retry(t) ==
    LET r == task[t]
    IN  /\ held' = Drop(t)
        /\ IF r.tries + 1 = scene.tries THEN Move(t, Idle)
           ELSE Move(t, Walking(r.op, Root, r.tries + 1))

\* rename_locked up to the state lock of the file that is replaced
WorkRename(t) ==
    LET r == task[t]
        s == Find(r.dir, Name(r.op))
        d == Find(r.ndir, NewName(r.op))
        moved == r.src.kind = "dir" /\ r.dir # r.ndir
    IN  /\ At(t, "work")
        /\ r.op.kind = "rename"
        /\ Lookup({<<r.dir, Name(r.op)>>, <<r.ndir, NewName(r.op)>>}
                           \cup (IF moved THEN {<<r.src.ino, "..">>} ELSE {}))
        /\ CASE s <= 0 -> Finish(t)
             [] s > 0 /\ Node(s) # r.src -> Retry(t)
             [] OTHER ->
                  IF \/ r.dir = r.ndir /\ Name(r.op) = NewName(r.op)
                     \/ d = NotDir
                  THEN Finish(t)
                  ELSE IF Node(d) # r.dst THEN Retry(t)
                  ELSE IF \/ d > 0 /\ (d = s \/ kind[d] # kind[s])
                          \/ d > 0 /\ kind[d] = "dir" /\ ~Empty(d)
                  THEN Finish(t)
                  ELSE /\ Move(t, [r EXCEPT !.pc = IF d = NoEntry
                                                   THEN "commit" ELSE "state"])
                       /\ UNCHANGED held
        /\ UNCHANGED <<scene, up, kind, disk, entry, refs, orphaned, handles>>

\* O_TRUNC waits for the readers and writers of the file, under the lock of
\* its directory.
TruncateRange(t) ==
    /\ At(t, "range")
    /\ Free(RangeOf(task[t].src.ino), "write")
    /\ Move(t, [task[t] EXCEPT !.pc = "retain"])
    /\ UNCHANGED <<scene, up, kind, disk, entry, cached, refs, orphaned, handles,
                   held>>

\* The inode that the request replaces or removes.
Victim(r) == IF r.op.kind = "rename" THEN r.dst.ino ELSE r.src.ino

\* acquire_inode_state and mark_orphan_if_open_locked
AcquireState(t) ==
    LET i == Victim(task[t])
    IN  /\ At(t, "state")
        /\ Free(StateOf(i), "write")
        /\ held' = held \cup {Hold(t, StateOf(i), "write")}
        /\ orphaned' = IF refs[i] > 0 THEN orphaned \cup {i} ELSE orphaned
        /\ Move(t, [task[t] EXCEPT !.pc = "commit"])
        /\ UNCHANGED <<scene, up, kind, disk, entry, cached, refs, handles>>

\* What the transaction does with an inode that loses its name: it keeps its
\* number while it is open.
Unlinked(i) ==
    IF i \in orphaned THEN marked' = marked \cup {i} /\ UNCHANGED used
                      ELSE used' = used \ {i} /\ UNCHANGED marked

Committed(t, r) == Move(t, [r EXCEPT !.pc = "publish"])

\* create_node_locked from the allocation on
CommitCreate(t) ==
    LET r == task[t]
        new == IF r.op.kind = "mkdir" THEN "dir" ELSE "file"
    IN  /\ At(t, "commit")
        /\ r.op.kind \in {"creat", "mkdir"}
        /\ \E i \in Inodes \ used :
             /\ used' = used \cup {i}
             /\ kind' = [kind EXCEPT ![i] = new]
             /\ entry' = [entry EXCEPT ![i] = [NoNames EXCEPT ![".."] =
                                                 IF new = "dir" THEN r.dir
                                                 ELSE NoEntry],
                                       ![r.dir][Name(r.op)] = i]
             /\ Committed(t, [r EXCEPT !.src = [ino |-> i, kind |-> new]])
        /\ UNCHANGED <<scene, up, marked, cached, refs, orphaned, handles, held>>

CommitRemove(t) ==
    LET r == task[t]
    IN  /\ At(t, "commit")
        /\ r.op.kind \in {"unlink", "rmdir"}
        /\ entry' = [entry EXCEPT ![r.dir][Name(r.op)] = NoEntry]
        /\ Unlinked(r.src.ino)
        /\ Committed(t, r)
        /\ UNCHANGED <<scene, up, kind, cached, refs, orphaned, handles, held>>

\* commit_rename_locked up to the commit
CommitRename(t) ==
    LET r == task[t]
    IN  /\ At(t, "commit")
        /\ r.op.kind = "rename"
        /\ entry' = [entry EXCEPT ![r.dir][Name(r.op)] = NoEntry,
                                  ![r.ndir][NewName(r.op)] = r.src.ino,
                                  ![r.src.ino][".."] =
                                    IF r.src.kind = "dir" THEN r.ndir ELSE @]
        /\ IF r.dst = NoNode THEN UNCHANGED disk ELSE Unlinked(r.dst.ino)
        /\ Committed(t, r)
        /\ UNCHANGED <<scene, up, kind, cached, refs, orphaned, handles, held>>

\* The task resumes and brings the cache up to date, still under its locks.
PublishCreate(t) ==
    LET r == task[t]
        i == r.src.ino
        c == IF r.op.kind = "creat" THEN cached
             ELSE [cached EXCEPT ![i].complete = TRUE,
                                 ![i].names[".."] = r.dir]
    IN  /\ At(t, "publish")
        /\ r.op.kind \in {"creat", "mkdir"}
        /\ cached' \in CacheDentry(c, r.dir, Name(r.op), i)
        /\ IF r.op.kind = "mkdir" THEN Finish(t)
           ELSE Move(t, [r EXCEPT !.pc = "retain"]) /\ UNCHANGED held
        /\ UNCHANGED <<scene, up, kind, disk, entry, refs, orphaned, handles>>

\* erase_inode_state_locked and erase_snapshot, for an inode that is gone
Erase(i, c) ==
    IF i = NoEntry \/ i \in orphaned THEN cached' \in c /\ UNCHANGED refs
    ELSE /\ cached' \in {[x EXCEPT ![i] = Uncached] : x \in c}
         /\ refs' = [refs EXCEPT ![i] = 0]

PublishRemove(t) ==
    LET r == task[t]
    IN  /\ At(t, "publish")
        /\ r.op.kind \in {"unlink", "rmdir"}
        /\ Erase(r.src.ino,
                 {[cached EXCEPT ![r.dir].names[Name(r.op)] = NoEntry]})
        /\ Finish(t)
        /\ UNCHANGED <<scene, up, kind, disk, entry, orphaned, handles>>

PublishRename(t) ==
    LET r == task[t]
        o == [cached EXCEPT ![r.dir].names[Name(r.op)] = NoEntry]
        c == IF r.src.kind = "dir" /\ r.dir # r.ndir
             THEN [o EXCEPT ![r.src.ino].names[".."] = r.ndir] ELSE o
    IN  /\ At(t, "publish")
        /\ r.op.kind = "rename"
        /\ Erase(r.dst.ino, CacheDentry(c, r.ndir, NewName(r.op), r.src.ino))
        /\ Finish(t)
        /\ UNCHANGED <<scene, up, kind, disk, entry, orphaned, handles>>

\* Mistake: the orphan mark of a failed removal stays.
CommitFailsMarked(t) ==
    /\ At(t, "commit")
    /\ Finish(t)
    /\ UNCHANGED <<scene, up, kind, disk, entry, cached, refs, orphaned, handles>>

\* A device or journal error, or no free inode: the transaction is aborted
\* and rollback_orphan_locked takes back the mark.
CommitFails(t) ==
    LET r == task[t]
    IN  /\ At(t, "commit")
        /\ orphaned' = IF r.op.kind \in {"unlink", "rmdir", "rename"}
                       THEN orphaned \ {Victim(r)} ELSE orphaned
        /\ Finish(t)
        /\ UNCHANGED <<scene, up, kind, disk, entry, cached, refs, handles>>
-----------------------------------------------------------------------------
(***************************************************************************)
(* Open handles.                                                           *)
(***************************************************************************)
\* The end of finish_open_locked
Retain(t) ==
    LET i == task[t].src.ino
    IN  /\ At(t, "retain")
        /\ Free(StateOf(i), "write")
        /\ refs' = [refs EXCEPT ![i] = @ + 1]
        /\ handles' = [handles EXCEPT ![i] = @ + 1]
        /\ Finish(t)
        /\ UNCHANGED <<scene, up, kind, disk, entry, cached, orphaned>>

\* open_directory of an open handle
Reopen(t) ==
    /\ At(t, "idle")
    /\ Opened < scene.opens
    /\ \E i \in Inodes :
         /\ handles[i] > 0
         /\ kind[i] = "dir"
         /\ Free(StateOf(i), "write")
         /\ refs' = [refs EXCEPT ![i] = @ + 1]
         /\ handles' = [handles EXCEPT ![i] = @ + 1]
    /\ UNCHANGED <<scene, up, kind, disk, entry, cached, orphaned, held, task>>

BeginClose(t) ==
    /\ At(t, "idle")
    /\ \E i \in Inodes :
         /\ handles[i] > InUse(i)
         /\ handles' = [handles EXCEPT ![i] = @ - 1]
         /\ Move(t, [Idle EXCEPT !.pc = "release",
                                 !.op = [kind |-> "close", rel |-> FALSE],
                                 !.node = i])
    /\ UNCHANGED <<scene, up, kind, disk, entry, cached, refs, orphaned, held>>

\* release and release_reference_locked: the last reference of an orphan
\* stays until its inode is deleted.
ReleaseReference(t) ==
    LET i == task[t].node
    IN  /\ At(t, "release")
        /\ Free(StateOf(i), "write")
        /\ IF refs[i] = 1 /\ i \in orphaned
           THEN /\ Move(t, [task[t] EXCEPT !.pc = "delete"])
                /\ held' = held \cup {Hold(t, StateOf(i), "write")}
                /\ UNCHANGED refs
           ELSE /\ refs' = [refs EXCEPT ![i] = IF @ > 0 THEN @ - 1 ELSE 0]
                /\ Finish(t)
        /\ UNCHANGED <<scene, up, kind, disk, entry, cached, orphaned, handles>>

DeleteOrphan(t) ==
    LET i == task[t].node
    IN  /\ At(t, "delete")
        /\ used' = used \ {i}
        /\ marked' = marked \ {i}
        /\ Committed(t, task[t])
        /\ UNCHANGED <<scene, up, kind, entry, cached, refs, orphaned, handles, held>>

\* finish_orphan_release_locked and erase_snapshot
FinishOrphan(t) ==
    LET i == task[t].node
    IN  /\ At(t, "publish")
        /\ task[t].op.kind = "close"
        /\ orphaned' = orphaned \ {i}
        /\ refs' = [refs EXCEPT ![i] = 0]
        /\ cached' = [cached EXCEPT ![i] = Uncached]
        /\ Finish(t)
        /\ UNCHANGED <<scene, up, kind, disk, entry, handles>>

\* The handle stays open, and may be closed again.
DeleteFails(t) ==
    /\ At(t, "delete")
    /\ handles' = [handles EXCEPT ![task[t].node] = @ + 1]
    /\ Finish(t)
    /\ UNCHANGED <<scene, up, kind, disk, entry, cached, refs, orphaned>>
-----------------------------------------------------------------------------
(***************************************************************************)
(* A crash leaves what was committed; the next start deletes the orphans.  *)
(***************************************************************************)
Crash ==
    /\ scene.crashes
    /\ up' = FALSE
    /\ cached' = [i \in Inodes |-> Uncached]
    /\ refs' = [i \in Inodes |-> 0]
    /\ handles' = [i \in Inodes |-> 0]
    /\ orphaned' = {}
    /\ held' = {}
    /\ task' = [t \in Tasks |-> Idle]
    /\ UNCHANGED <<scene, kind, disk, entry>>

\* reap_persistent_orphans, one transaction for each
Reap(i) ==
    /\ ~up
    /\ i \in marked
    /\ used' = used \ {i}
    /\ marked' = marked \ {i}
    /\ UNCHANGED <<scene, up, kind, entry, cached, refs, orphaned, handles, held,
                   task>>

Start ==
    /\ ~up
    /\ marked = {}
    /\ up' = TRUE
    /\ UNCHANGED <<scene, kind, disk, entry, cached, refs, orphaned, handles, held,
                   task>>

\* The steps of a request that is under way.
Step(t) ==
    \/ AcquireTopology(t) \/ Walk(t) \/ FindSource(t) \/ FindTarget(t)
    \/ Below(t) \/ Lock(t)
    \/ WorkOpen(t) \/ WorkMkdir(t) \/ WorkRemove(t) \/ WorkRename(t)
    \/ TruncateRange(t) \/ AcquireState(t)
    \/ CommitCreate(t) \/ CommitRemove(t) \/ CommitRename(t) \/ CommitFails(t)
    \/ PublishCreate(t) \/ PublishRemove(t) \/ PublishRename(t)
    \/ Retain(t) \/ ReleaseReference(t) \/ DeleteOrphan(t) \/ DeleteFails(t)
    \/ FinishOrphan(t)

Next ==
    \/ \E t \in Tasks : Begin(t) \/ BeginClose(t) \/ Reopen(t) \/ Step(t)
    \/ Crash
    \/ \E i \in Inodes : Reap(i)
    \/ Start

Spec == Init /\ [][Next]_vars

\* A runnable task is resumed, and an arbiter grants its waiters in order
\* (NoOvertake of RangeArbiter), so a request that can go on again and again
\* does.
LiveSpec == Spec /\ \A t \in Tasks : SF_vars(Step(t))
-----------------------------------------------------------------------------
(***************************************************************************)
(* Properties.                                                             *)
(***************************************************************************)
Nodes == [ino : Inodes \cup {NoEntry}, kind : {"none", "dir", "file"}]

\* Locks belong to running tasks, and the caches and counters stay within
\* the inodes there are.
TypeOK ==
    /\ scene \in Scenes
    /\ kind \in [Inodes -> {"none", "dir", "file"}]
    /\ used \subseteq Inodes /\ marked \subseteq used
    /\ orphaned \subseteq Inodes
    /\ \A i \in Inodes : \A n \in AllNames :
         /\ entry[i][n] \in Inodes \cup {NoEntry}
         /\ cached[i].names[n] \in Inodes \cup {NoEntry}
    /\ refs \in [Inodes -> 0 .. scene.opens] /\ handles \in [Inodes -> 0 .. scene.opens]
    /\ \A h \in held : h.task \in Tasks /\ task[h.task].pc # "idle"
    /\ \A t \in Tasks : task[t].src \in Nodes /\ task[t].dst \in Nodes
                        /\ task[t].need \subseteq Inodes

NamesOf(i) ==
    {p \in (Live \cap Dirs) \X Names : entry[p[1]][p[2]] = i}

\* Whatever runs together and whatever fails, an inode that is allocated has
\* exactly one name in a directory that is there, or none and then the orphan
\* flag by which it is deleted on the last close or the next start; and no
\* name leads to an inode that is not allocated.
Linked ==
    /\ \A i \in used \ {Root} :
         Cardinality(NamesOf(i)) = IF i \in marked THEN 0 ELSE 1
    /\ \A d \in Live \cap Dirs, n \in Names : entry[d][n] \in Live \cup {NoEntry}

\* The directories are a tree: ".." leads to the directory that has the name,
\* and no set of directories is its own way up (two renames that run together
\* never put each directory below the other).
Rooted ==
    /\ \A d \in Live \cap Dirs, n \in Names :
         LET c == entry[d][n] IN
         (c \in Dirs) => entry[c][".."] = d
    /\ \A S \in SUBSET ((Live \cap Dirs) \ {Root}) :
         S # {} => \E d \in S : entry[d][".."] \notin S

\* The directories that a task is about to bring up to date in the cache.
Publishing ==
    UNION {{task[t].dir, task[t].ndir, task[t].src.ino} :
           t \in {u \in Tasks : task[u].pc = "publish"}}

\* What the dentry cache holds of a directory is what the directory holds,
\* and if it is complete it holds everything, so that a miss is an absence.
CacheAgrees ==
    up => \A d \in Dirs \ Publishing, n \in AllNames :
            /\ cached[d].names[n] # NoEntry => cached[d].names[n] = entry[d][n]
            /\ cached[d].complete => cached[d].names[n] = entry[d][n]

\* An inode with an open handle stays allocated and counted, and while the
\* server runs an unlinked inode is one whose last close will delete it.
OpenKept ==
    /\ \A i \in Inodes : handles[i] > 0 => i \in used /\ refs[i] >= handles[i]
    /\ up => \A i \in marked : i \in orphaned /\ refs[i] > 0

\* An orphan mark in memory belongs to an unlinked inode, or to one that a
\* running removal is about to unlink.
OrphanMarks ==
    \A i \in orphaned \ marked :
        \E h \in held : h.lock = StateOf(i)
                        /\ task[h.task].pc \in {"commit", "publish"}

\* Every request is answered: locks are taken in an order that nobody waits
\* in a circle, and a rename tries a bounded number of times.
Answered ==
    \A t \in Tasks : task[t].pc # "idle" ~> task[t].pc = "idle"

\* The names are a tree over exactly the allocated inodes that are not waiting
\* for their last close.
Tree == TypeOK /\ Linked /\ Rooted

\* Unlinking a file that is open defers its deletion to the last close, and
\* nothing else marks an inode for it, also when the commit fails.
OrphansRight == OpenKept /\ OrphanMarks
==============================================================================
