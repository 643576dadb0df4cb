----------------------------- MODULE MCFilebench -----------------------------
(***************************************************************************)
(* The vendored filebench, part by part: its AVL trees, its filesets with  *)
(* the threads that use them, a run from fork to shutdown, and the limits, *)
(* semaphores and wakeups between threads.  A behaviour is one of one      *)
(* part; the others stay in their initial state.                           *)
(***************************************************************************)
EXTENDS FbRun, Sequences, TLC

CONSTANTS AvlNodes, AvlSetups, FbScenes, MaxParalloc, MaxFd, SyncLoads, Unit

VARIABLES part,
  avlsetup, tree, key, cookie, given,
  scene, at, busy, wanted, opens, idle, disk, asleep, cpc, cheld, alloc, count, failed,
  pc, at_op, cur_fd, held, outcome, fd_open, fse, rotor, file_abort,
  sload, q, total, last, bucket, need, lw, hw, posting, late, waiting, spc, lap

A == INSTANCE FbAvl
F == INSTANCE FbFileset WITH f_abort <- file_abort
S == INSTANCE FbSync

avars == <<avlsetup, tree, key, cookie, given>>
fvars == <<scene, at, busy, wanted, opens, idle, disk, asleep, cpc, cheld, alloc, count,
           failed, pc, at_op, cur_fd, held, outcome, fd_open, fse, rotor, file_abort>>
svars == <<sload, q, total, last, bucket, need, lw, hw, posting, late, waiting, spc, lap>>
AllVars == <<part, run_vars, avars, fvars, svars>>

-----------------------------------------------------------------------------
\* Four objects with any of five keys; ten for a tree of height four; seven
\* that are handed out again.
MCAvlSetups ==
  { [keys |-> [n \in 1..4 |-> 1..5], dismantle |-> TRUE],
    [keys |-> [n \in 1..10 |-> {n}], dismantle |-> FALSE],
    [keys |-> [n \in 1..7 |-> {n}], dismantle |-> TRUE] }

File(op, fd) == [op |-> op, fd |-> fd, rotate |-> FALSE, src |-> 0]
Rotating(op) == [op |-> op, fd |-> 0, rotate |-> TRUE, src |-> 0]
Whole(fd, src) == [op |-> "writewholefile", fd |-> fd, rotate |-> FALSE, src |-> src]
Pool(files, leafs, dirs) ==
  [e \in files |-> "file"] @@ [e \in leafs |-> "leaf"] @@ [e \in dirs |-> "dir"]
Quiet == [pool |-> Pool({"f1", "f2"}, {}, {}), reuse |-> FALSE, old |-> {}, some |-> FALSE,
          paralloc |-> FALSE, faults |-> FALSE, mode |-> "timeout", flowops |-> <<>>,
          laps |-> 1]

MCScenes ==
  { \* creation by parallel threads, and over what an earlier run has left
    [Quiet EXCEPT !.pool = Pool({"f1", "f2", "f3"}, {"l1"}, {"d1"}), !.paralloc = TRUE,
                  !.faults = TRUE, !.some = TRUE],
    [Quiet EXCEPT !.pool = Pool({"f1", "f2"}, {"l1"}, {"d1"}), !.reuse = TRUE,
                  !.old = {"f1", "d1"}, !.faults = TRUE, !.some = TRUE],
    \* opening against creating and deleting
    [Quiet EXCEPT !.some = TRUE, !.mode = "q1stdone", !.laps = 2,
                  !.flowops = << <<File("openfile", 1), File("closefile", 1), File("deletefile", 1)>>,
                                 <<File("createfile", 2), File("read", 2), File("closefile", 2)>> >>],
    [Quiet EXCEPT !.pool = Pool({"f1"}, {}, {}),
                  !.flowops = << <<File("openfile", 1), File("closefile", 1)>>,
                                 <<File("openfile", 1), File("closefile", 1)>>,
                                 <<File("deletefile", 0), File("statfile", 0)>> >>],
    \* leaf directories
    [Quiet EXCEPT !.pool = Pool({"f1"}, {"l1", "l2"}, {"d1"}), !.mode = "qalldone", !.some = TRUE,
                  !.flowops = << <<File("makedir", 0), File("listdir", 0)>>,
                                 <<File("removedir", 0), File("listdir", 0)>> >>],
    \* transfers through descriptors that flowops open for themselves
    [Quiet EXCEPT !.pool = Pool({"f1", "f2"}, {}, {"d1"}), !.faults = TRUE,
                  !.flowops = << <<Rotating("appendfilerand"), File("fsyncset", 0), Whole(1, 0),
                                   File("statfile", 1), File("fsync", 1), File("closefile", 1),
                                   File("listdir", 0)>>,
                                 <<Whole(1, 2)>> >>],
    \* creating and opening that fail half way
    [Quiet EXCEPT !.faults = TRUE, !.some = TRUE,
                  !.flowops = << <<File("createfile", 1), File("closefile", 1)>>,
                                 <<File("openfile", 1), File("closefile", 1)>> >>] }

Three == [procs |-> {"p1", "p2"}, of |-> ("t1" :> "p1" @@ "t2" :> "p1" @@ "t3" :> "p2"),
          mode |-> "timeout", rets |-> {"ok"}, crash |-> FALSE, slow |-> FALSE,
          interrupt |-> FALSE, snaps |-> 0, ism |-> FALSE]
Two == [Three EXCEPT !.of = ("t1" :> "p1" @@ "t3" :> "p2")]

MCRuns ==
  { [Three EXCEPT !.rets = {"ok", "error"}],
    [Two EXCEPT !.rets = {"ok", "error", "done", "norsc"}, !.mode = "q1stdone", !.snaps = 1],
    [Two EXCEPT !.rets = {"ok", "norsc"}, !.mode = "qalldone", !.slow = TRUE],
    [Two EXCEPT !.ism = TRUE], [Two EXCEPT !.rets = {"done"}, !.mode = "q1stdone", !.ism = TRUE],
    [Two EXCEPT !.crash = TRUE, !.interrupt = TRUE, !.snaps = 1] }

Laps(a, b, c, d) == ("t1" :> a @@ "t2" :> b @@ "t3" :> c @@ "t4" :> d)
Load == [role |-> ("t1" :> "event"), cost |-> 1, rate |-> 1, highwater |-> 1, value |-> 1,
         blocking |-> FALSE, timeouts |-> FALSE, goal |-> 3, laps |-> Laps(2, 2, 2, 2)]

MCLoads ==
  { [Load EXCEPT !.role = ("t1" :> "event" @@ "t2" :> "ops" @@ "t3" :> "iops"),
                 !.laps = Laps(1, 2, 2, 1)],
    [Load EXCEPT !.role = ("t1" :> "event" @@ "t2" :> "bw"), !.cost = 3],
    [Load EXCEPT !.role = ("t1" :> "sempost" @@ "t2" :> "semblock" @@ "t3" :> "semblock"),
                 !.laps = Laps(3, 3, 3, 3), !.blocking = TRUE],
    [Load EXCEPT !.role = ("t1" :> "sempost" @@ "t2" :> "semblock" @@ "t3" :> "semblock"),
                 !.laps = Laps(2, 3, 3, 3), !.blocking = TRUE, !.timeouts = TRUE],
    [Load EXCEPT !.role = ("t1" :> "sempost" @@ "t2" :> "semblock" @@ "t3" :> "sempost"),
                 !.laps = Laps(2, 4, 2, 3)],
    [Load EXCEPT !.role = ("t1" :> "sempost" @@ "t2" :> "semblock" @@ "t3" :> "sempost"
                             @@ "t4" :> "semblock"),
                 !.highwater = 2, !.value = 2, !.blocking = TRUE, !.laps = Laps(1, 3, 2, 3)],
    [Load EXCEPT !.role = ("t1" :> "wakeup" @@ "t2" :> "block" @@ "t3" :> "block")],
    [Load EXCEPT !.role = ("t1" :> "count" @@ "t2" :> "count" @@ "t3" :> "count")],
    [Load EXCEPT !.role = ("t1" :> "bytes" @@ "t2" :> "bytes"), !.cost = 3] }

-----------------------------------------------------------------------------
Avl == part = "avl" /\ A!AvlNext /\ UNCHANGED <<part, run_vars, fvars, svars>>
Files == part = "files" /\ F!FilesNext /\ UNCHANGED <<part, run_vars, avars, svars>>
Run == part = "run" /\ RunNext /\ UNCHANGED <<part, avars, fvars, svars>>
Sync == part = "sync" /\ S!SyncNext /\ UNCHANGED <<part, run_vars, avars, fvars>>

\* One setup stands for a part that does not run.
MCInit ==
  /\ part \in {"avl", "files", "run", "sync"}
  /\ A!AvlInit /\ (part = "avl" \/ avlsetup = CHOOSE x \in AvlSetups : TRUE)
  /\ F!FilesInit /\ (part = "files" \/ scene = CHOOSE x \in FbScenes : TRUE)
  /\ RunInit /\ (part = "run" \/ rscene = CHOOSE x \in FbRuns : TRUE)
  /\ S!SyncInit /\ (part = "sync" \/ sload = CHOOSE x \in SyncLoads : TRUE)

MCNext == Avl \/ Files \/ Run \/ Sync

\* The fairness of FilesFair, RunFair and SyncFair, for the part that runs.
MCFairness ==
  /\ WF_fvars(part = "files" /\ F!CreateStep)
  /\ \A e \in UNION {DOMAIN s.pool : s \in FbScenes} :
        WF_fvars(part = "files" /\ e \in F!Entries /\ F!AllocStep(e))
  /\ \A t \in UNION {DOMAIN s.flowops : s \in FbScenes} :
        WF_fvars(part = "files" /\ t \in F!Workers /\ F!WorkerStep(t))
  /\ WF_run_vars(part = "run" /\ MainStep)
  /\ WF_run_vars(part = "run" /\ CreatorStep)
  /\ \A p \in UNION {r.procs : r \in FbRuns} :
        WF_run_vars(part = "run" /\ p \in Procs /\ ProcStep(p))
  /\ \A t \in UNION {DOMAIN r.of : r \in FbRuns} :
        /\ WF_run_vars(part = "run" /\ t \in Threads /\ tpc[t] # "flowop" /\ ThreadStep(t))
        /\ SF_run_vars(/\ part = "run" /\ t \in Threads /\ rscene.mode # "timeout"
                       /\ \E ret \in rscene.rets \ {"ok"} : ThreadOp(t, ret))
  /\ WF_svars(part = "sync" /\ S!eventgen_thread)
  /\ \A t \in UNION {DOMAIN l.role : l \in SyncLoads} :
        WF_svars(part = "sync" /\ t \in S!Users /\ S!UserStep(t))

MCSpec == MCInit /\ [][MCNext]_AllVars /\ MCFairness

-----------------------------------------------------------------------------
\* The bookkeeping of a fileset (trees, busy flags, open counts, idle counts) agrees with
\* its threads and with the file system, whatever fileset_pick, fileset_unbusy and the
\* file flowops do at once, and fileset_create succeeds only when everything is there.
\* The AVL trees that hold the entries are ordered, balanced and linked both ways after any
\* avl_add, avl_insert_here, avl_remove and avl_update calls, avl_find, avl_nearest and
\* avl_walk find what was put in, and avl_destroy_nodes hands out every node once.
FilesSafe == A!AvlRight /\ F!FilesSafe

\* Threads are kept in step: no thread of a run starts before the master has let all of
\* them start (shm_run_lock), the master ends only when no process is left and counts
\* processes as long as a thread works; a limit lets its thread go on only with what is paid
\* for in events, no post of a sempost is lost and a blocking one gets no further ahead of
\* a semblock than its high water and the waits that timed out, and
\* flowoplib_finishoncount and flowoplib_finishonbytes end threads neither early nor late.
BenchSafe == RunSafe /\ S!RatesKept /\ S!WaterKept /\ S!EnoughDone

\* Everything ends: the creation of a fileset and then every worker (or the run is
\* aborted), a run whatever its flowops return (unless it has no time limit and proc_create
\* could not get its shared memory), a wait for a limit or a semaphore.
BenchEnds ==
  /\ <>[](part = "files" => F!FilesOver)
  /\ <>[](part = "run" => RunOver \/ Stranded)
  /\ (part = "sync") => S!SyncEnds
=============================================================================
