------------------------------ MODULE FbFileset ------------------------------
(***************************************************************************)
(* The filesets of filebench (filebench/fileset.c) and the file flowops    *)
(* that work on them (filebench/flowop_library.c).  A fileset is a pool of *)
(* files, of leaf directories and of directories.  An entry is busy while  *)
(* one thread works on it; picking an entry waits until something is idle, *)
(* and releasing it signals one waiter.  First the master creates the      *)
(* entries that are to exist, serially or with a detached thread per file; *)
(* then every worker thread runs its list of flowops again and again.      *)
(*                                                                         *)
(* The pick lock is held for each step here.  Sizes and contents are left  *)
(* out; which of the idle entries a pick prefers (a random index, a rotor  *)
(* or a given index) is a free choice among the idle entries of the tree.  *)
(***************************************************************************)
EXTENDS Integers, FiniteSets, Sequences, TLC

CONSTANTS
  FbScenes,      \* what is run; see FilesInit for the fields
  MaxParalloc,   \* MAX_PARALLOC_THREADS
  MaxFd          \* THREADFLOW_MAXFD

VARIABLES
  scene,     \* the scene of this behaviour
  at,        \* the tree an entry is in: none, free, noex, exist or dirs
  busy,      \* the entries with FSE_BUSY
  wanted,    \* the entries with FSE_THRD_WAITNG
  opens,     \* fse_open_cnt
  idle,      \* fs_idle_files, fs_idle_leafdirs, fs_idle_dirs
  disk,      \* the entries that exist in the file system
  asleep,    \* threads in pthread_cond_wait
  cpc,       \* the master: where it is in fileset_createsets
  cheld,     \* the entry the master is allocating
  alloc,     \* detached allocation threads: entry -> io, ok, failed or none
  count,     \* shm_fsparalloc_count
  failed,    \* some allocation failed (for the properties)
  pc,        \* a worker: begin, pick, grab, io, release, transfer, done
  at_op,     \* the flowop it is at, and the laps it has made
  cur_fd,    \* the descriptor of the current flowop
  held,      \* the entry it works on
  outcome,   \* whether the file system call succeeded
  fd_open,   \* tf_fd: is the descriptor open
  fse,       \* tf_fse: the entry of a descriptor
  rotor,     \* tf_fdrotor
  f_abort    \* shm_f_abort

create_vars == <<cpc, cheld, alloc, count, failed>>
worker_vars == <<pc, at_op, cur_fd, held, outcome, fd_open, fse, rotor, f_abort>>
entry_vars  == <<at, busy, wanted, opens, idle, asleep>>
files_vars  == <<scene, disk, entry_vars, create_vars, worker_vars>>

Master == 0
NoEntry == "none"
Fds == 0..(MaxFd - 1)
Entries == DOMAIN scene.pool
Workers == DOMAIN scene.flowops
InPool(p) == {e \in Entries : scene.pool[e] = p}

(***************************************************************************)
(* A scene: pool, the pool of every entry; reuse, whether the tree of an   *)
(* earlier run is kept, and old, what it holds; some, whether only a part  *)
(* is preallocated; paralloc; faults, whether file system calls may fail;  *)
(* mode, how the run ends; flowops, the list of each worker, every flowop  *)
(* with its descriptor, whether it rotates and its source descriptor;      *)
(* laps, a bound on how often a worker runs its list.                      *)
(***************************************************************************)
FilesInit ==
  /\ scene \in FbScenes
  /\ at = [e \in Entries |-> "none"]
  /\ busy = {} /\ wanted = {} /\ asleep = {}
  /\ opens = [e \in Entries |-> 0]
  /\ idle = [p \in {"file", "leaf", "dir"} |-> 0]
  /\ disk = scene.old
  /\ cpc = "populate" /\ cheld = NoEntry /\ count = 0 /\ failed = FALSE
  /\ alloc = [e \in Entries |-> "none"]
  /\ pc = [t \in Workers |-> "begin"]
  /\ at_op = [t \in Workers |-> [i |-> 1, lap |-> 1]]
  /\ cur_fd = [t \in Workers |-> 0]
  /\ held = [t \in Workers |-> NoEntry]
  /\ outcome = [t \in Workers |-> TRUE]
  /\ fd_open = [t \in Workers |-> [f \in Fds |-> FALSE]]
  /\ fse = [t \in Workers |-> [f \in Fds |-> NoEntry]]
  /\ rotor = [t \in Workers |-> 0]
  /\ f_abort = "no"

(***************************************************************************)
(* Flowops.  What a flowop is, as far as filesets are concerned: what it   *)
(* does first (fail, pick an entry, grab the entry of its descriptor or    *)
(* transfer on an open file), where it picks from, whether it opens what   *)
(* it picked, what its call does in the file system and may it fail, how   *)
(* the open count changes, whether the entry moves to another tree, and    *)
(* what comes then.                                                        *)
(***************************************************************************)
Op(t) == scene.flowops[t][at_op[t].i]

Plain == [first |-> "pick", pool |-> "file", tree |-> "exist", opens |-> FALSE,
          disk |-> "same", fails |-> FALSE, moves |-> "stays", then |-> "return"]

Opener == [Plain EXCEPT !.opens = TRUE, !.fails = TRUE]

flowoplib_openfile_common(t, fd) ==
  [Opener EXCEPT !.first = IF fd_open[t][fd] THEN "error" ELSE "pick"]

flowoplib_openfile(t, fd) == flowoplib_openfile_common(t, fd)

flowoplib_createfile(t, fd) ==
  [Opener EXCEPT !.first = IF fd_open[t][fd] THEN "error" ELSE "pick",
                 !.tree = "noex", !.disk = "made", !.moves = "exist"]

(* An operation on a descriptor that is not open opens a file first. *)
flowoplib_filesetup(t, fd) ==
  [Opener EXCEPT !.first = IF fd_open[t][fd] THEN "transfer" ELSE "pick",
                 !.then = "transfer"]

flowoplib_read(t, fd) == flowoplib_filesetup(t, fd)
flowoplib_write(t, fd) == flowoplib_filesetup(t, fd)
flowoplib_readwholefile(t, fd) == flowoplib_filesetup(t, fd)
flowoplib_appendfile(t, fd) == flowoplib_filesetup(t, fd)
flowoplib_appendfilerand(t, fd) == flowoplib_filesetup(t, fd)

(* A whole file is written as large as that of the source descriptor.      *)
flowoplib_writewholefile(t, fd) ==
  [flowoplib_filesetup(t, fd) EXCEPT
     !.then = IF Op(t).src # 0 /\ fse[t][Op(t).src] = NoEntry
              THEN "nosrc" ELSE "transfer"]

flowoplib_closefile(t, fd) ==
  [Plain EXCEPT !.first = IF fd_open[t][fd] THEN "grab" ELSE "error"]

flowoplib_deletefile(t, fd) ==
  [Plain EXCEPT !.first = IF fd > 0 /\ fse[t][fd] # NoEntry THEN "grab" ELSE "pick",
                !.disk = "gone", !.moves = "noex"]

flowoplib_statfile(t, fd) ==
  [Plain EXCEPT !.first = IF ~(fd > 0 /\ fd_open[t][fd]) THEN "pick"
                          ELSE IF fse[t][fd] = NoEntry THEN "error" ELSE "transfer"]

flowoplib_fsync(t, fd) ==
  [Plain EXCEPT !.first = IF fd_open[t][fd] /\ fse[t][fd] # NoEntry
                          THEN "transfer" ELSE "error"]

flowoplib_fsyncset(t, fd) == [Plain EXCEPT !.first = "transfer"]

LeafDir == [Plain EXCEPT !.pool = "leaf"]

flowoplib_makedir(t, fd) ==
  [LeafDir EXCEPT !.tree = "noex", !.disk = "made", !.moves = "exist"]

flowoplib_removedir(t, fd) == [LeafDir EXCEPT !.disk = "gone", !.moves = "noex"]

flowoplib_listdir(t, fd) ==
  [Plain EXCEPT !.pool = "dir", !.tree = "dirs", !.fails = TRUE]

Flow(t, fd) ==
  LET op == Op(t).op
  IN CASE op = "openfile" -> flowoplib_openfile(t, fd)
       [] op = "createfile" -> flowoplib_createfile(t, fd)
       [] op = "read" -> flowoplib_read(t, fd)
       [] op = "write" -> flowoplib_write(t, fd)
       [] op = "readwholefile" -> flowoplib_readwholefile(t, fd)
       [] op = "writewholefile" -> flowoplib_writewholefile(t, fd)
       [] op = "appendfile" -> flowoplib_appendfile(t, fd)
       [] op = "appendfilerand" -> flowoplib_appendfilerand(t, fd)
       [] op = "closefile" -> flowoplib_closefile(t, fd)
       [] op = "deletefile" -> flowoplib_deletefile(t, fd)
       [] op = "statfile" -> flowoplib_statfile(t, fd)
       [] op = "fsync" -> flowoplib_fsync(t, fd)
       [] op = "fsyncset" -> flowoplib_fsyncset(t, fd)
       [] op = "makedir" -> flowoplib_makedir(t, fd)
       [] op = "removedir" -> flowoplib_removedir(t, fd)
       [] op = "listdir" -> flowoplib_listdir(t, fd)

(* flowoplib_fdnum: a set descriptor, the default one, or the next in turn. *)
flowoplib_fdnum(t) ==
  IF Op(t).fd > 0 \/ ~Op(t).rotate THEN Op(t).fd
  ELSE (IF rotor[t] = 0 THEN MaxFd ELSE rotor[t]) - 1

(***************************************************************************)
(* fileset_pick and fileset_unbusy.                                        *)
(***************************************************************************)
Waiting(p) == {t \in asleep : \/ t = Master /\ cpc = p
                              \/ t # Master /\ pc[t] = "pick" /\ Flow(t, cur_fd[t]).pool = p}

(* Pick from a tree: t sleeps, comes away with nothing, or holds an entry. *)
MustWait(p) == InPool(p) # {} /\ idle[p] = 0
Pickable(p, tr) == {e \in InPool(p) : at[e] = tr /\ e \notin busy}

Take(p, e) ==
  /\ busy' = busy \cup {e}
  /\ idle' = [idle EXCEPT ![p] = @ - 1]
  /\ UNCHANGED <<at, wanted, opens, asleep>>

Sleep(t) ==
  /\ asleep' = asleep \cup {t}
  /\ UNCHANGED <<at, busy, wanted, opens, idle>>

(* Mistake: the flag is cleared and nobody is woken. *)
WaitersOfNone(e) == {}

(* Those that wait for the entry to be released are all woken. *)
WaitersOf(e) ==
  IF e \in wanted
  THEN {t \in asleep : t # Master /\ pc[t] = "grab"} ELSE {}

fileset_unbusy(e, update_exist, new_exist, incr) ==
  LET p == scene.pool[e]
  IN /\ at' = [at EXCEPT ![e] = IF ~update_exist \/ p = "dir" THEN @
                                ELSE IF new_exist THEN "exist" ELSE "noex"]
     /\ opens' = [opens EXCEPT ![e] = @ + incr]
     /\ busy' = busy \ {e}
     /\ wanted' = wanted \ {e}
     /\ idle' = [idle EXCEPT ![p] = @ + 1]
     /\ IF Waiting(p) = {} THEN asleep' = asleep \ WaitersOf(e)
        ELSE \E t \in Waiting(p) : asleep' = asleep \ (WaitersOf(e) \cup {t})

(***************************************************************************)
(* The master: fileset_createsets.                                         *)
(***************************************************************************)
CreatorOn == Master \notin asleep /\ UNCHANGED <<scene, worker_vars>>

(* What populating makes of the entries: files and leaf directories are to  *)
(* be allocated, the directories above them are there to be listed.         *)
fileset_populate_file == [e \in InPool("file") |-> "free"]
fileset_populate_leafdir == [e \in InPool("leaf") |-> "free"]
fileset_populate_subdir == [e \in InPool("dir") |-> "dirs"]

(* Entries come from a shared memory pool that may be exhausted. *)
fileset_populate ==
  /\ CreatorOn
  /\ cpc = "populate"
  /\ \/ cpc' = "error" /\ UNCHANGED <<at, idle>>
     \/ /\ cpc' = "tree"
        /\ at' = fileset_populate_file @@ fileset_populate_leafdir
                   @@ fileset_populate_subdir
        /\ idle' = [p \in DOMAIN idle |-> Cardinality(InPool(p))]
  /\ UNCHANGED <<disk, busy, wanted, opens, asleep, cheld, alloc, count, failed>>

(* The directories of an empty tree are made, or some of them. *)
fileset_create_subdirs ==
  {[ok |-> TRUE, left |-> InPool("dir")]} \cup
  IF scene.faults THEN {[ok |-> FALSE, left |-> s] : s \in SUBSET InPool("dir")} ELSE {}

(* An old tree is kept, or removed and its directories made anew. *)
CreateTree ==
  /\ CreatorOn
  /\ cpc = "tree"
  /\ \/ /\ scene.reuse
        /\ cpc' = "file"
        /\ UNCHANGED <<disk, failed>>
     \/ /\ ~scene.reuse
        /\ \E r \in fileset_create_subdirs :
              /\ disk' = r.left
              /\ cpc' = IF r.ok THEN "file" ELSE "error"
              /\ failed' = ~r.ok
  /\ UNCHANGED <<entry_vars, cheld, alloc, count>>

(* fileset_create takes one free entry after the other, first files, then   *)
(* leaf directories; nothing left to take ends the loop.                    *)
CreatePick ==
  /\ CreatorOn
  /\ cpc \in {"file", "leaf"}
  /\ cheld = NoEntry
  /\ \/ /\ MustWait(cpc)
        /\ Sleep(Master)
        /\ UNCHANGED <<cpc, cheld>>
     \/ /\ ~MustWait(cpc)
        /\ Pickable(cpc, "free") = {}
        /\ cpc' = IF cpc = "file" THEN "leaf" ELSE "wait"
        /\ UNCHANGED <<entry_vars, cheld>>
     \/ /\ ~MustWait(cpc)
        /\ \E e \in Pickable(cpc, "free") : Take(cpc, e) /\ cheld' = e
        /\ UNCHANGED cpc
  /\ UNCHANGED <<disk, alloc, count, failed>>

(* The draw says this entry is not to exist. *)
CreateSkip ==
  /\ CreatorOn
  /\ cheld # NoEntry
  /\ scene.some
  /\ fileset_unbusy(cheld, TRUE, FALSE, 0)
  /\ cheld' = NoEntry
  /\ UNCHANGED <<disk, cpc, alloc, count, failed>>

(* What an attempt to allocate a file leaves.  A file that is reused is     *)
(* opened and cut or filled up to its size; an attempt that fails on the    *)
(* way may leave the file behind.                                           *)
fileset_alloc_file(e) ==
  {[ok |-> TRUE, left |-> {e}]} \cup
  IF scene.faults THEN {[ok |-> FALSE, left |-> s] : s \in SUBSET {e}} ELSE {}

fileset_alloc_leafdir(e) ==
  {[ok |-> TRUE, left |-> {e}]} \cup
  IF scene.faults /\ ~(scene.reuse /\ e \in disk) THEN {[ok |-> FALSE, left |-> {}]}
  ELSE {}

CreateHere ==
  /\ CreatorOn
  /\ cheld # NoEntry
  /\ cpc = "leaf" \/ ~scene.paralloc
  /\ \E r \in IF cpc = "leaf" THEN fileset_alloc_leafdir(cheld)
              ELSE fileset_alloc_file(cheld) :
        /\ disk' = disk \cup r.left
        /\ fileset_unbusy(cheld, TRUE, r.ok, 0)
        /\ cpc' = IF r.ok THEN cpc ELSE "error"
        /\ failed' = (failed \/ ~r.ok)
  /\ cheld' = NoEntry
  /\ UNCHANGED <<alloc, count>>

(* One detached thread per file, at most MaxParalloc of them.  A thread     *)
(* that cannot be created shuts filebench down.                             *)
CreateSpawn ==
  /\ CreatorOn
  /\ cpc = "file"
  /\ cheld # NoEntry
  /\ scene.paralloc
  /\ \/ /\ count >= MaxParalloc
        /\ Sleep(Master)
        /\ UNCHANGED <<cpc, cheld, alloc, count>>
     \/ /\ count < 0
        /\ cpc' = "error"
        /\ UNCHANGED <<entry_vars, cheld, alloc, count>>
     \/ /\ count \in 0..(MaxParalloc - 1)
        /\ count' = count + 1
        /\ \/ /\ alloc' = [alloc EXCEPT ![cheld] = "io"]
              /\ cheld' = NoEntry
              /\ UNCHANGED cpc
           \/ /\ scene.faults
              /\ cpc' = "error"
              /\ UNCHANGED <<cheld, alloc>>
        /\ UNCHANGED entry_vars
  /\ UNCHANGED <<disk, failed>>

(* fileset_alloc_thread: the file, then the count. *)
AllocFile(e) ==
  /\ alloc[e] = "io"
  /\ \E r \in fileset_alloc_file(e) :
        /\ disk' = disk \cup r.left
        /\ fileset_unbusy(e, TRUE, r.ok, 0)
        /\ alloc' = [alloc EXCEPT ![e] = IF r.ok THEN "ok" ELSE "failed"]
        /\ failed' = (failed \/ ~r.ok)
  /\ UNCHANGED <<scene, cpc, cheld, count, worker_vars>>

(* An error makes the count -1; the master, if it waits, is woken. *)
NewCount(e) == IF alloc[e] = "failed" THEN -1 ELSE count - 1

AllocCount(e) ==
  /\ alloc[e] \in {"ok", "failed"}
  /\ count' = NewCount(e)
  /\ alloc' = [alloc EXCEPT ![e] = "none"]
  /\ asleep' = IF cpc = "wait" \/ cheld # NoEntry THEN asleep \ {Master} ELSE asleep
  /\ UNCHANGED <<scene, disk, at, busy, wanted, opens, idle, cpc, cheld, failed,
                 worker_vars>>

(* The master waits until no thread is allocating; a failure is an error. *)
CreateWait ==
  /\ CreatorOn
  /\ cpc = "wait"
  /\ \/ /\ count > 0
        /\ Sleep(Master)
        /\ UNCHANGED cpc
     \/ /\ count <= 0
        /\ cpc' = IF count < 0 THEN "error" ELSE "ok"
        /\ UNCHANGED entry_vars
  /\ UNCHANGED <<disk, cheld, alloc, count, failed>>

(***************************************************************************)
(* Workers.  flowop_start runs the list until the run is aborted.          *)
(***************************************************************************)
WorkerOn(t) ==
  /\ cpc = "ok"
  /\ t \notin asleep
  /\ UNCHANGED <<scene, create_vars>>

(* The next flowop, or the first one again. *)
Advance(t) ==
  /\ at_op' = [at_op EXCEPT ![t] = IF @.i < Len(scene.flowops[t])
                                   THEN [@ EXCEPT !.i = @ + 1]
                                   ELSE [i |-> 1, lap |-> @.lap + 1]]
  /\ pc' = [pc EXCEPT ![t] = "begin"]
  /\ UNCHANGED f_abort

(* A flowop that is out of files ends its thread, and the run unless all    *)
(* threads are to finish; one that fails ends the run.                      *)
Quit(t, ret) ==
  /\ pc' = [pc EXCEPT ![t] = "done"]
  /\ f_abort' = IF ret = "error" \/ scene.mode = "timeout" THEN "error"
                ELSE IF scene.mode = "q1stdone" THEN "rsrc" ELSE f_abort
  /\ UNCHANGED at_op

Return(t, ret) == IF ret = "ok" THEN Advance(t) ELSE Quit(t, ret)

(* The worker stops before a flowop when the run is over (or it has made    *)
(* its laps here).                                                          *)
Stop(t) ==
  /\ WorkerOn(t)
  /\ pc[t] = "begin"
  /\ f_abort # "no" \/ at_op[t].lap > scene.laps
  /\ pc' = [pc EXCEPT ![t] = "done"]
  /\ UNCHANGED <<disk, entry_vars, at_op, cur_fd, held, outcome, fd_open, fse,
                 rotor, f_abort>>

Begin(t) ==
  LET fd == flowoplib_fdnum(t)
      first == Flow(t, fd).first
  IN /\ WorkerOn(t)
     /\ pc[t] = "begin"
     /\ f_abort = "no"
     /\ at_op[t].lap <= scene.laps
     /\ cur_fd' = [cur_fd EXCEPT ![t] = fd]
     /\ rotor' = IF Op(t).fd > 0 \/ ~Op(t).rotate THEN rotor
                 ELSE [rotor EXCEPT ![t] = fd]
     /\ \/ /\ first = "error"
           /\ Quit(t, "error")
           /\ UNCHANGED <<held, fse>>
        \/ /\ first # "error"
           /\ pc' = [pc EXCEPT ![t] = first]
           /\ held' = [held EXCEPT ![t] = IF first = "grab" THEN fse[t][fd]
                                          ELSE NoEntry]
           /\ fse' = IF Op(t).op = "deletefile" /\ first = "grab"
                     THEN [fse EXCEPT ![t][fd] = NoEntry] ELSE fse
           /\ UNCHANGED <<at_op, f_abort>>
     /\ UNCHANGED <<disk, entry_vars, outcome, fd_open>>

(* An append of a random size may draw no bytes at all. *)
AppendNothing(t) ==
  /\ WorkerOn(t)
  /\ pc[t] = "begin"
  /\ f_abort = "no"
  /\ at_op[t].lap <= scene.laps
  /\ Op(t).op = "appendfilerand"
  /\ Advance(t)
  /\ UNCHANGED <<disk, entry_vars, cur_fd, held, outcome, fd_open, fse, rotor>>

(* flowoplib_pickfile and flowoplib_pickleafdir. *)
Pick(t) ==
  LET op == Flow(t, cur_fd[t])
      p == op.pool
      ready == Pickable(p, op.tree)
  IN /\ WorkerOn(t)
     /\ pc[t] = "pick"
     /\ \/ /\ MustWait(p)
           /\ Sleep(t)
           /\ UNCHANGED <<pc, at_op, f_abort, held, fse>>
        \/ /\ ~MustWait(p) /\ ready = {}
           /\ Quit(t, IF p = "dir" THEN "error" ELSE "norsc")
           /\ UNCHANGED <<entry_vars, held, fse>>
        \/ /\ ~MustWait(p)
           /\ \E e \in ready :
                /\ Take(p, e)
                /\ held' = [held EXCEPT ![t] = e]
                /\ fse' = IF op.opens THEN [fse EXCEPT ![t][cur_fd[t]] = e] ELSE fse
           /\ pc' = [pc EXCEPT ![t] = "io"]
           /\ UNCHANGED <<at_op, f_abort>>
     /\ UNCHANGED <<disk, cur_fd, outcome, fd_open, rotor>>

(* Close and delete of a given file wait until nobody works on it.  Closing *)
(* counts it out of the idle files only for the last descriptor.            *)
Grab(t) ==
  LET e == held[t]
  IN /\ WorkerOn(t)
     /\ pc[t] = "grab"
     /\ \/ /\ e \in busy
           /\ wanted' = wanted \cup {e}
           /\ asleep' = asleep \cup {t}
           /\ UNCHANGED <<busy, idle, pc>>
        \/ /\ e \notin busy
           /\ busy' = busy \cup {e}
           /\ idle' = IF Op(t).op = "closefile" /\ opens[e] # 1 THEN idle
                      ELSE [idle EXCEPT !["file"] = @ - 1]
           /\ pc' = [pc EXCEPT ![t] = "io"]
           /\ UNCHANGED <<wanted, asleep>>
     /\ UNCHANGED <<disk, at, opens, at_op, cur_fd, held, outcome, fd_open, fse,
                    rotor, f_abort>>

(* Mistake: not looking whether somebody has the file open. *)
MayDeleteAny(t) == TRUE

(* deletefile leaves alone a file that another descriptor has open. *)
MayDelete(t) ==
  LET fd == cur_fd[t]
  IN opens[held[t]] <= IF fd > 0 /\ fd_open[t][fd] THEN 1 ELSE 0

(* The file system call on the picked entry.  Only a file that exists can   *)
(* be opened, and makedir and removedir do not look at the result.  A file  *)
(* whose read-ahead cannot be turned off stays open although the open fails.*)
Call(t) ==
  LET fd == cur_fd[t]
      op == Flow(t, fd)
      e  == held[t]
      deletes == Op(t).op = "deletefile"
      results == IF scene.faults /\ op.fails THEN BOOLEAN ELSE {TRUE}
  IN /\ WorkerOn(t)
     /\ pc[t] = "io"
     /\ \E ok \in results, advised \in IF op.opens THEN results ELSE {TRUE} :
          LET done == ok /\ (op.opens => op.disk = "made" \/ e \in disk)
          IN /\ outcome' = [outcome EXCEPT ![t] = IF deletes THEN MayDelete(t) ELSE done /\ advised]
             /\ disk' = CASE op.disk = "made" /\ ok -> disk \cup {e}
                          [] op.disk = "gone" /\ outcome'[t] -> disk \ {e}
                          [] OTHER -> disk
             /\ fd_open' = IF op.opens \/ Op(t).op = "closefile"
                           THEN [fd_open EXCEPT ![t][fd] = op.opens /\ done]
                           ELSE fd_open
     /\ pc' = [pc EXCEPT ![t] = "release"]
     /\ UNCHANGED <<entry_vars, at_op, cur_fd, held, fse, rotor, f_abort>>

(* How the open count of the entry changes with the call. *)
Count(t) ==
  CASE Op(t).op = "closefile" -> -1
    [] Op(t).op = "deletefile" /\ outcome[t] -> -opens[held[t]]
    [] Flow(t, cur_fd[t]).opens /\ outcome[t] -> 1
    [] OTHER -> 0

(* listdir keeps the directory it could not open busy, and a create the     *)
(* file whose parent directory it could not make.                           *)
StaysBusy(t) ==
  LET op == Flow(t, cur_fd[t])
  IN /\ ~outcome[t]
     /\ op.pool = "dir" \/ (op.opens /\ op.disk = "made" /\ ~fd_open[t][cur_fd[t]])

(* The entry is released, and the flowop returns or goes on to transfer.    *)
Release(t) ==
  LET op == Flow(t, cur_fd[t])
      ok == outcome[t]
  IN /\ WorkerOn(t)
     /\ pc[t] = "release"
     /\ \/ /\ StaysBusy(t)
           /\ UNCHANGED <<entry_vars, held>>
        \/ /\ StaysBusy(t) => op.pool # "dir"
           /\ fileset_unbusy(held[t], ok /\ op.moves # "stays", op.moves = "exist", Count(t))
           /\ held' = [held EXCEPT ![t] = NoEntry]
     /\ IF op.then # "return" /\ ok
        THEN pc' = [pc EXCEPT ![t] = "transfer"] /\ UNCHANGED <<at_op, f_abort>>
        ELSE Return(t, IF ok \/ Op(t).op = "deletefile" THEN "ok" ELSE "error")
     /\ UNCHANGED <<disk, cur_fd, outcome, fd_open, fse, rotor>>

(* Reads, writes, syncs and stats on an open descriptor. *)
Transfer(t) ==
  LET op == Flow(t, cur_fd[t])
  IN /\ WorkerOn(t)
     /\ pc[t] = "transfer"
     /\ \E ok \in IF scene.faults /\ op.opens THEN BOOLEAN ELSE {TRUE} :
           Return(t, IF ok /\ op.then # "nosrc" THEN "ok" ELSE "error")
     /\ UNCHANGED <<disk, entry_vars, cur_fd, held, outcome, fd_open, fse, rotor>>

CreateStep == \/ fileset_populate \/ CreateTree \/ CreatePick \/ CreateSkip \/ CreateHere
              \/ CreateSpawn \/ CreateWait
AllocStep(e) == AllocFile(e) \/ AllocCount(e)
WorkerStep(t) == \/ Stop(t) \/ Begin(t) \/ AppendNothing(t) \/ Pick(t) \/ Grab(t)
                 \/ Call(t) \/ Release(t) \/ Transfer(t)

FilesNext == \/ CreateStep
             \/ \E e \in Entries : AllocStep(e)
             \/ \E t \in Workers : WorkerStep(t)

(* Every thread that can run does. *)
FilesFair == /\ WF_files_vars(CreateStep)
             /\ \A e \in UNION {DOMAIN s.pool : s \in FbScenes} :
                   WF_files_vars(e \in Entries /\ AllocStep(e))
             /\ \A t \in UNION {DOMAIN s.flowops : s \in FbScenes} :
                   WF_files_vars(t \in Workers /\ WorkerStep(t))

FilesSpec == FilesInit /\ [][FilesNext]_files_vars /\ FilesFair

(***************************************************************************)
(* Properties.                                                             *)
(***************************************************************************)
Holders(e) == {t \in Workers : held[t] = e /\ pc[t] \in {"io", "release", "done"}}
              \cup (IF cheld = e THEN {Master} ELSE {})
              \cup (IF alloc[e] = "io" THEN {"alloc"} ELSE {})

(* A descriptor that an open left behind when it failed; its thread is done *)
(* and the run is over.                                                     *)
LeftOpen == {<<t, cur_fd[t]>> : t \in {u \in Workers : pc[u] = "done" /\ ~outcome[u]}}

OpenOn(e) == {<<t, f>> \in (Workers \X Fds) \ LeftOpen : fd_open[t][f] /\ fse[t][f] = e}

(* An entry is busy exactly while one thread works on it. *)
OneHolder == \A e \in Entries : /\ Cardinality(Holders(e)) <= 1
                                /\ e \in busy <=> Holders(e) # {}

(* Whoever has a file open keeps it: no other thread deletes it, and its    *)
(* open count is the number of descriptors, but for those of failed opens.  *)
OpenFilesStay ==
  \A e \in Entries \ busy : /\ opens[e] = Cardinality(OpenOn(e))
                            /\ (OpenOn(e) # {}) => (e \in disk)

(* What a flowop may pick as existing exists. *)
TreesRight == \A e \in Entries \ busy : (at[e] \in {"exist", "dirs"} /\ cpc = "ok")
                                           => (e \in disk)

(* The idle count never hides an idle entry from those that wait for one,   *)
(* and is exact as long as the fileset is being created.                    *)
IdleCounts == \A p \in DOMAIN idle :
                 LET n == Cardinality({e \in InPool(p) \ busy : at[e] # "none"})
                 IN idle[p] >= n /\ (cpc # "ok" => idle[p] = n)

(* Creation reports success only when no allocation has failed, every       *)
(* allocation thread has finished and every entry has been decided on.      *)
CreatedAll ==
  (cpc = "ok") => /\ ~failed
                  /\ \A e \in Entries : alloc[e] = "none" /\ at[e] \notin {"none", "free"}

(* The bookkeeping of a fileset agrees with the threads and the file        *)
(* system, whatever threads pick, open, close, create and delete at once.   *)
FilesSafe == OneHolder /\ OpenFilesStay /\ TreesRight /\ IdleCounts /\ CreatedAll

FilesOver ==
  \/ cpc = "error"
  \/ cpc = "ok" /\ (f_abort # "no" \/ \A t \in Workers : pc[t] = "done")

(* Creation ends, and then every worker finishes or the run is aborted:     *)
(* no pick, close or delete waits for ever.                                 *)
FilesEnd == <>[]FilesOver
==============================================================================
