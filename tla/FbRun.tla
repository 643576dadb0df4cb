-------------------------------- MODULE FbRun --------------------------------
(***************************************************************************)
(* A run of filebench: the master (filebench/procflow.c and the run        *)
(* commands of parser_gram.y), the creator thread that forks the worker    *)
(* processes and waits for them to die, the worker processes               *)
(* (filebench/threadflow.c) and their threads (flowop_start in             *)
(* filebench/flowop.c).  They share flags and counters in shared memory.   *)
(* A section under one of the locks is one step; the procflow lock, which  *)
(* is kept across sleeps, is a variable.                                   *)
(*                                                                         *)
(* The workers are exec'd, so SIGUSR1 has its default effect in them and   *)
(* kills the process at once.                                              *)
(***************************************************************************)
EXTENDS Integers, FiniteSets

CONSTANT
  FbRuns     \* what is run; see RunInit for the fields

VARIABLES
  rscene,        \* the run of this behaviour
  mpc,           \* where the main thread is
  creator,       \* where the creator thread is
  todo,          \* procflows still to be looked at by whoever walks the list
  lock,          \* who holds shm_procflow_lock
  run_lock,      \* is shm_run_lock held by the master as a reader
  f_abort,       \* shm_f_abort: no, error, done, rsrc or fini
  procs_running, \* shm_procs_running
  bequiet,       \* shm_bequiet
  results,       \* what the master has reported: none, printed or invalid
  defined,       \* shm_procflows_defined_flag
  listed,        \* procflows on shm_procflowlist
  ppc,           \* a worker process: where its main thread is
  died,          \* processes that crashed
  threads_defined, \* pf_threads_defined_flag
  pf_running,
  tpc,           \* a worker thread: where it is
  tf_running,
  tf_abort,
  gave_up,       \* the master stopped waiting for a thread to start
  closing,       \* the main thread is ending filebench
  periods        \* snapshots still to be taken

shm_vars  == <<lock, run_lock, f_abort, procs_running, bequiet, defined, listed>>
proc_vars == <<ppc, died, threads_defined, pf_running>>
thrd_vars == <<tpc, tf_running, tf_abort>>
main_vars == <<mpc, creator, todo, results, gave_up, closing, periods>>
run_vars  == <<rscene, shm_vars, proc_vars, thrd_vars, main_vars>>

Procs == rscene.procs
Threads == DOMAIN rscene.of
ThreadsOf(p) == {t \in Threads : rscene.of[t] = p}

(***************************************************************************)
(* A run: procs, the worker processes; of, the process of every thread;    *)
(* mode, how the run ends; rets, what a flowop may return (a blocked one   *)
(* never does); crash, may a process die during the run; slow, may a       *)
(* thread take longer to start than the master waits; interrupt, may the   *)
(* user interrupt the run; snaps, a bound on the snapshots during a run;   *)
(* ism, does the run need shared memory of its own, which may not be had.  *)
(***************************************************************************)
RunInit ==
  /\ rscene \in FbRuns
  /\ mpc = "create" /\ creator = "none" /\ todo = {} /\ lock = "free"
  /\ run_lock = FALSE /\ f_abort = "no" /\ procs_running = 0 /\ bequiet = FALSE
  /\ results = "none" /\ defined = FALSE /\ listed = {} /\ died = {}
  /\ gave_up = FALSE /\ closing = FALSE /\ periods = rscene.snaps
  /\ ppc = [p \in Procs |-> "none"]
  /\ threads_defined = [p \in Procs |-> FALSE]
  /\ pf_running = [p \in Procs |-> FALSE]
  /\ tpc = [t \in Threads |-> "none"]
  /\ tf_running = [t \in Threads |-> FALSE]
  /\ tf_abort = [t \in Threads |-> FALSE]

(***************************************************************************)
(* The creator thread: procflow_createnwait.                               *)
(***************************************************************************)
Fork(p) ==
  /\ creator = "fork"
  /\ ppc[p] = "none"
  /\ ppc' = [ppc EXCEPT ![p] = "forked"]
  /\ listed' = listed \cup {p}
  /\ pf_running' = [pf_running EXCEPT ![p] = FALSE]
  /\ threads_defined' = [threads_defined EXCEPT ![p] = FALSE]
  /\ UNCHANGED <<rscene, lock, run_lock, f_abort, procs_running, bequiet, defined,
                 died, thrd_vars, main_vars>>

(* All processes have defined their threads: the main thread may go on. *)
CreatorDefined ==
  /\ creator = "fork"
  /\ \A p \in Procs : ppc[p] # "none" /\ threads_defined[p]
  /\ defined' = TRUE
  /\ creator' = "wait"
  /\ UNCHANGED <<rscene, lock, run_lock, f_abort, procs_running, bequiet, listed,
                 proc_vars, thrd_vars, mpc, todo, results, gave_up, closing,
                 periods>>

(* waitid: a child that has exited, or no child left. *)
CreatorWait ==
  /\ creator = "wait"
  /\ \/ \E p \in Procs : /\ ppc[p] = "zombie"
                         /\ ppc' = [ppc EXCEPT ![p] = "gone"]
                         /\ creator' = IF p \in died THEN "saw_crash" ELSE "saw_exit"
     \/ /\ \A p \in Procs : ppc[p] = "gone"
        /\ creator' = "gone"
        /\ UNCHANGED ppc
  /\ UNCHANGED <<rscene, shm_vars, died, threads_defined, pf_running, thrd_vars,
                 mpc, todo, results, gave_up, closing, periods>>

(* Mistake: the creator does not look whether it was the last process. *)
AfterExitBlind ==
  IF f_abort # "no" THEN [next |-> "gone", abort |-> f_abort]
  ELSE [next |-> IF creator = "saw_crash" THEN "error" ELSE "wait", abort |-> f_abort]

(* A child's death in a run that is over, or of the last process, ends the  *)
(* creator; an unexpected one ends filebench.                               *)
AfterExit ==
  IF f_abort # "no" THEN [next |-> "gone", abort |-> f_abort]
  ELSE IF procs_running = 0 THEN [next |-> "gone", abort |-> "rsrc"]
  ELSE [next |-> IF creator = "saw_crash" THEN "error" ELSE "wait", abort |-> f_abort]

CreatorSaw ==
  /\ creator \in {"saw_exit", "saw_crash"}
  /\ lock = "free"
  /\ creator' = AfterExit.next
  /\ f_abort' = AfterExit.abort
  /\ UNCHANGED <<rscene, lock, run_lock, procs_running, bequiet, defined, listed,
                 proc_vars, thrd_vars, mpc, todo, results, gave_up, closing,
                 periods>>

(***************************************************************************)
(* Shutting down: filebench_shutdown, procflow_shutdown and exit, by the   *)
(* main thread or by the creator.                                          *)
(***************************************************************************)
At(who) == IF who = "main" THEN mpc ELSE creator

Goto(who, label) ==
  IF who = "main" THEN mpc' = label /\ UNCHANGED <<creator, closing>>
  ELSE creator' = label /\ UNCHANGED <<mpc, closing>>

(* exit ends both threads of the master. *)
Exit == mpc' = "exit" /\ creator' = "gone" /\ UNCHANGED closing

(* filebench_shutdown(1): it returns when the run is shut down already, and *)
(* then the creator goes on waiting.                                        *)
ShutdownError(who) ==
  /\ At(who) = "error"
  /\ lock = "free"
  /\ IF f_abort = "fini"
     THEN /\ IF who = "main" THEN Exit ELSE Goto(who, "wait")
          /\ UNCHANGED f_abort
     ELSE f_abort' = "error" /\ Goto(who, "stop")
  /\ UNCHANGED <<rscene, lock, run_lock, procs_running, bequiet, defined, listed,
                 proc_vars, thrd_vars, todo, results, gave_up, periods>>

(* procflow_shutdown returns: to parser_run the first time, else to exit. *)
ShutdownReturn(who) ==
  IF who = "main" /\ ~closing
  THEN mpc' = "final" /\ closing' = TRUE /\ UNCHANGED creator
  ELSE Exit

ShutdownCheck(who) ==
  /\ At(who) = "stop"
  /\ IF procs_running <= 0 THEN ShutdownReturn(who) ELSE Goto(who, "stop_lock")
  /\ UNCHANGED <<rscene, shm_vars, proc_vars, thrd_vars, todo, results, gave_up,
                 periods>>

ShutdownLock(who) ==
  /\ At(who) = "stop_lock"
  /\ lock = "free"
  /\ IF f_abort = "fini"
     THEN ShutdownReturn(who) /\ UNCHANGED <<lock, f_abort, todo>>
     ELSE /\ lock' = who
          /\ f_abort' = IF f_abort = "no" THEN "done" ELSE f_abort
          /\ todo' = listed
          /\ Goto(who, "stop_list")
  /\ UNCHANGED <<rscene, run_lock, procs_running, bequiet, defined, listed,
                 proc_vars, thrd_vars, results, gave_up, periods>>

(* SIGUSR1 ends the process with its threads. *)
Kill(p) ==
  /\ ppc' = [ppc EXCEPT ![p] = IF @ \in {"zombie", "gone"} THEN @ ELSE "zombie"]
  /\ tpc' = [t \in Threads |-> IF rscene.of[t] = p THEN "gone" ELSE tpc[t]]

(* Mistake: a process that is still running is only taken off the list. *)
ShutdownProcUnlist(who, p) ==
  /\ At(who) = "stop_list"
  /\ p \in todo
  /\ todo' = todo \ {p}
  /\ listed' = listed \ {p}
  /\ pf_running' = [pf_running EXCEPT ![p] = FALSE]
  /\ UNCHANGED <<rscene, lock, run_lock, f_abort, procs_running, bequiet, defined,
                 ppc, died, threads_defined, thrd_vars, mpc, creator, closing,
                 results, gave_up, periods>>

(* A process still marked running after the grace period is signalled; the  *)
(* procflow is removed once it has been waited for.                         *)
ShutdownProc(who, p) ==
  /\ At(who) = "stop_list"
  /\ p \in todo
  /\ \/ /\ pf_running[p] /\ ppc[p] # "gone"
        /\ IF ppc[p] = "zombie" THEN ppc' = [ppc EXCEPT ![p] = "gone"] /\ UNCHANGED tpc
           ELSE Kill(p)
        /\ UNCHANGED <<todo, listed, pf_running>>
     \/ /\ ~pf_running[p] \/ ppc[p] = "gone"
        /\ todo' = todo \ {p}
        /\ listed' = listed \ {p}
        /\ pf_running' = [pf_running EXCEPT ![p] = FALSE]
        /\ UNCHANGED <<ppc, tpc>>
  /\ UNCHANGED <<rscene, lock, run_lock, f_abort, procs_running, bequiet, defined,
                 died, threads_defined, tf_running, tf_abort, mpc, creator, closing,
                 results, gave_up, periods>>

ShutdownFini(who) ==
  /\ At(who) = "stop_list"
  /\ todo = {}
  /\ f_abort' = "fini"
  /\ lock' = "free"
  /\ Goto(who, "stop_done")
  /\ UNCHANGED <<rscene, run_lock, procs_running, bequiet, defined, listed,
                 proc_vars, thrd_vars, todo, results, gave_up, periods>>

ShutdownDone(who) ==
  /\ At(who) = "stop_done"
  /\ procs_running' = 0
  /\ ShutdownReturn(who)
  /\ UNCHANGED <<rscene, lock, run_lock, f_abort, bequiet, defined, listed,
                 proc_vars, thrd_vars, todo, results, gave_up, periods>>

(***************************************************************************)
(* The main thread: parser_run and proc_create.                            *)
(***************************************************************************)
proc_create ==
  /\ mpc = "create"
  /\ f_abort' = "no"
  /\ run_lock' = TRUE
  /\ defined' = FALSE
  /\ creator' = "fork"
  /\ mpc' = "defined"
  /\ UNCHANGED <<rscene, lock, procs_running, bequiet, listed, proc_vars,
                 thrd_vars, todo, results, gave_up, closing, periods>>

(* procflow_allstarted holds the procflow lock except while it sleeps. *)
AllStarted ==
  /\ mpc = "defined"
  /\ defined
  /\ lock = "free"
  /\ lock' = "main"
  /\ todo' = listed
  /\ mpc' = "starting"
  /\ UNCHANGED <<rscene, run_lock, f_abort, procs_running, bequiet, defined, listed,
                 proc_vars, thrd_vars, creator, results, gave_up, closing, periods>>

(* A process is running, and so are its threads, or the master has waited   *)
(* long enough for them.                                                    *)
StartedProc(p) ==
  /\ mpc = "starting"
  /\ p \in todo
  /\ pf_running[p]
  /\ \/ (\A t \in ThreadsOf(p) : tf_running[t]) /\ UNCHANGED gave_up
     \/ rscene.slow /\ gave_up' = TRUE
  /\ todo' = todo \ {p}
  /\ UNCHANGED <<rscene, shm_vars, proc_vars, thrd_vars, mpc, creator, results,
                 closing, periods>>

StartedAll ==
  /\ mpc = "starting"
  /\ todo = {}
  /\ procs_running' = Cardinality(listed)
  /\ lock' = "free"
  /\ mpc' = "release"
  /\ UNCHANGED <<rscene, run_lock, f_abort, bequiet, defined, listed, proc_vars,
                 thrd_vars, creator, todo, results, gave_up, closing, periods>>

(* The run lock is released; nothing has been aborted yet, so it runs.      *)
(* Without its shared memory proc_create returns with the lock held and     *)
(* aborts nothing: the run goes on, and no thread starts.                   *)
ReleaseRun ==
  /\ mpc = "release"
  /\ run_lock' \in (IF rscene.ism THEN BOOLEAN ELSE {FALSE})
  /\ mpc' = IF f_abort = "no" THEN "run" ELSE "final"
  /\ closing' = (f_abort # "no")
  /\ UNCHANGED <<rscene, lock, f_abort, procs_running, bequiet, defined, listed,
                 proc_vars, thrd_vars, creator, todo, results, gave_up, periods>>

(* parser_pause: the time is over (if the run is timed) or the run aborted; *)
(* parser_psrun also takes snapshots on the way.                            *)
Pause ==
  /\ mpc = "run"
  /\ \/ /\ f_abort # "no" \/ rscene.mode = "timeout"
        /\ mpc' = "last_snap"
        /\ UNCHANGED periods
     \/ /\ f_abort = "no" /\ periods > 0
        /\ mpc' = "snap"
        /\ periods' = periods - 1
  /\ UNCHANGED <<rscene, shm_vars, proc_vars, thrd_vars, creator, todo, results,
                 gave_up, closing>>

(* stats_snap: no results after an error; the threads are told to be quiet  *)
(* while the statistics are summed up.                                      *)
SnapBegin ==
  /\ mpc \in {"snap", "last_snap"}
  /\ ~bequiet
  /\ IF f_abort = "error"
     THEN /\ results' = "invalid"
          /\ mpc' = IF mpc = "snap" THEN "run" ELSE "stop"
          /\ UNCHANGED bequiet
     ELSE bequiet' = TRUE /\ UNCHANGED <<results, mpc>>
  /\ UNCHANGED <<rscene, lock, run_lock, f_abort, procs_running, defined, listed,
                 proc_vars, thrd_vars, creator, todo, gave_up, closing, periods>>

SnapEnd ==
  /\ mpc \in {"snap", "last_snap"}
  /\ bequiet
  /\ bequiet' = FALSE
  /\ results' = "printed"
  /\ mpc' = IF mpc = "snap" THEN "run" ELSE "stop"
  /\ UNCHANGED <<rscene, lock, run_lock, f_abort, procs_running, defined, listed,
                 proc_vars, thrd_vars, creator, todo, gave_up, closing, periods>>

(* parser_filebench_shutdown, after proc_shutdown. *)
Final ==
  /\ mpc = "final"
  /\ mpc' = IF f_abort = "error" THEN "error" ELSE "stop"
  /\ UNCHANGED <<rscene, shm_vars, proc_vars, thrd_vars, creator, todo, results,
                 gave_up, closing, periods>>

(* parser_abort: an interrupt during the run ends filebench. *)
Interrupt ==
  /\ mpc = "run"
  /\ rscene.interrupt
  /\ mpc' = "error"
  /\ closing' = TRUE
  /\ UNCHANGED <<rscene, shm_vars, proc_vars, thrd_vars, creator, todo, results,
                 gave_up, periods>>

(***************************************************************************)
(* A worker process: procflow_exec and threadflow_init.                    *)
(***************************************************************************)
procflow_exec(p) ==
  /\ ppc[p] = "forked"
  /\ pf_running' = [pf_running EXCEPT ![p] = TRUE]
  /\ ppc' = [ppc EXCEPT ![p] = "create"]
  /\ UNCHANGED <<rscene, shm_vars, died, threads_defined, thrd_vars, main_vars>>

threadflow_createthread(p, t) ==
  /\ ppc[p] = "create"
  /\ t \in ThreadsOf(p)
  /\ tpc[t] = "none"
  /\ tpc' = [tpc EXCEPT ![t] = "start"]
  /\ UNCHANGED <<rscene, shm_vars, proc_vars, tf_running, tf_abort, main_vars>>

ThreadsDefined(p) ==
  /\ ppc[p] = "create"
  /\ \A t \in ThreadsOf(p) : tpc[t] # "none"
  /\ threads_defined' = [threads_defined EXCEPT ![p] = TRUE]
  /\ ppc' = [ppc EXCEPT ![p] = "join"]
  /\ UNCHANGED <<rscene, shm_vars, died, pf_running, thrd_vars, main_vars>>

Join(p) ==
  /\ ppc[p] = "join"
  /\ \A t \in ThreadsOf(p) : tpc[t] = "gone"
  /\ pf_running' = [pf_running EXCEPT ![p] = FALSE]
  /\ ppc' = [ppc EXCEPT ![p] = "leave"]
  /\ UNCHANGED <<rscene, shm_vars, died, threads_defined, thrd_vars, main_vars>>

Leave(p) ==
  /\ ppc[p] = "leave"
  /\ procs_running' = procs_running - 1
  /\ pf_running' = [pf_running EXCEPT ![p] = FALSE]
  /\ ppc' = [ppc EXCEPT ![p] = "zombie"]
  /\ UNCHANGED <<rscene, lock, run_lock, f_abort, bequiet, defined, listed, died,
                 threads_defined, thrd_vars, main_vars>>

(* A worker process dies while the run is on. *)
Crash(p) ==
  /\ rscene.crash
  /\ died = {}
  /\ mpc \in {"run", "snap", "last_snap"}
  /\ ppc[p] = "join"
  /\ Kill(p)
  /\ died' = died \cup {p}
  /\ UNCHANGED <<rscene, shm_vars, threads_defined, pf_running, tf_running,
                 tf_abort,
                 main_vars>>

(***************************************************************************)
(* A worker thread: flowop_start.                                          *)
(***************************************************************************)
ThreadStart(t) ==
  /\ tpc[t] = "start"
  /\ tpc' = [tpc EXCEPT ![t] = "barrier"]
  /\ tf_abort' = [tf_abort EXCEPT ![t] = FALSE]
  /\ tf_running' = [tf_running EXCEPT ![t] = TRUE]
  /\ UNCHANGED <<rscene, shm_vars, proc_vars, main_vars>>

(* The run lock can be had as a writer when the master has released it. *)
ThreadPass(t) ==
  /\ tpc[t] = "barrier"
  /\ ~run_lock
  /\ tpc' = [tpc EXCEPT ![t] = "loop"]
  /\ UNCHANGED <<rscene, shm_vars, proc_vars, tf_running, tf_abort, main_vars>>

(* Before every flowop: stop if asked, wait while the statistics are taken  *)
(* and until everyone is ready to go.                                       *)
ThreadLoop(t) ==
  /\ tpc[t] = "loop"
  /\ \/ /\ tf_abort[t] \/ f_abort # "no"
        /\ tpc' = [tpc EXCEPT ![t] = "destruct"]
     \/ /\ ~tf_abort[t] /\ f_abort = "no" /\ ~bequiet /\ procs_running # 0
        /\ tpc' = [tpc EXCEPT ![t] = "flowop"]
  /\ UNCHANGED <<rscene, shm_vars, proc_vars, tf_running, tf_abort, main_vars>>

(* A flowop returns.  One that blocks does not. *)
ThreadOp(t, ret) ==
  /\ tpc[t] = "flowop"
  /\ tpc' = [tpc EXCEPT ![t] = IF ret = "ok" THEN "loop" ELSE "destruct"]
  /\ tf_abort' = [tf_abort EXCEPT ![t] = (ret # "ok")]
  /\ f_abort' = CASE ret = "ok"    -> f_abort
                  [] ret = "error" -> "error"
                  [] ret = "done"  -> "done"
                  [] ret = "norsc" -> IF rscene.mode = "q1stdone" THEN "rsrc"
                                      ELSE IF rscene.mode = "qalldone" THEN f_abort
                                      ELSE "error"
  /\ UNCHANGED <<rscene, lock, run_lock, procs_running, bequiet, defined, listed,
                 proc_vars, tf_running, main_vars>>

(* flowop_destruct_all_flows and the end of the thread. *)
ThreadEnd(t) ==
  /\ tpc[t] = "destruct"
  /\ tpc' = [tpc EXCEPT ![t] = "gone"]
  /\ tf_running' = [tf_running EXCEPT ![t] = FALSE]
  /\ UNCHANGED <<rscene, shm_vars, proc_vars, tf_abort, main_vars>>

Shutdown(who) ==
  \/ ShutdownError(who) \/ ShutdownCheck(who) \/ ShutdownLock(who)
  \/ ShutdownFini(who) \/ ShutdownDone(who)
  \/ \E p \in Procs : ShutdownProc(who, p)

MainStep == \/ proc_create \/ AllStarted \/ StartedAll \/ ReleaseRun \/ Pause
            \/ SnapBegin \/ SnapEnd \/ Final \/ Shutdown("main")
            \/ \E p \in Procs : StartedProc(p)

CreatorStep == \/ CreatorDefined \/ CreatorWait \/ CreatorSaw \/ Shutdown("creator")
               \/ \E p \in Procs : Fork(p)

ProcStep(p) == \/ procflow_exec(p) \/ ThreadsDefined(p) \/ Join(p) \/ Leave(p)
               \/ \E t \in Threads : threadflow_createthread(p, t)

ThreadStep(t) == \/ ThreadStart(t) \/ ThreadPass(t) \/ ThreadLoop(t) \/ ThreadEnd(t)
                 \/ \E ret \in rscene.rets : ThreadOp(t, ret)

RunNext == \/ MainStep \/ CreatorStep \/ Interrupt
           \/ \E p \in Procs : ProcStep(p) \/ Crash(p)
           \/ \E t \in Threads : ThreadStep(t)

(* Every thread that can run does.  Whether a flowop returns is up to it,   *)
(* except in the modes that run until there is no work left: there the      *)
(* workload of every thread runs out in the end.                            *)
RunFair ==
  /\ WF_run_vars(MainStep)
  /\ WF_run_vars(CreatorStep)
  /\ \A p \in UNION {r.procs : r \in FbRuns} :
        WF_run_vars(p \in Procs /\ ProcStep(p))
  /\ \A t \in UNION {DOMAIN r.of : r \in FbRuns} :
        /\ WF_run_vars(t \in Threads /\ tpc[t] # "flowop" /\ ThreadStep(t))
        /\ SF_run_vars(/\ t \in Threads
                       /\ rscene.mode # "timeout"
                       /\ \E ret \in rscene.rets \ {"ok"} : ThreadOp(t, ret))

RunSpec == RunInit /\ [][RunNext]_run_vars /\ RunFair

(***************************************************************************)
(* Properties.                                                             *)
(***************************************************************************)
(* No thread works on its flowops before every thread of every process has  *)
(* started, unless the master gave up waiting for one.                      *)
StartTogether ==
  (\E t \in Threads : tpc[t] \in {"flowop", "loop"}) =>
    \/ gave_up
    \/ \A t \in Threads : tpc[t] \notin {"none", "start"}

(* When filebench ends, no worker is left behind with work to do: every     *)
(* process has been killed or has joined all of its threads.                *)
NobodyLeft ==
  (mpc = "exit") => \A p \in Procs : ppc[p] \in {"leave", "zombie", "gone"}

(* As long as a thread may still execute flowops, the count of running      *)
(* processes says that there is something to shut down.                     *)
CountedIn ==
  (/\ mpc \in {"run", "snap", "last_snap", "stop"}
   /\ \E t \in Threads : tpc[t] \in {"loop", "flowop"}) => procs_running > 0

(* A run starts all of its threads together and leaves none behind.         *)
RunSafe == StartTogether /\ NobodyLeft /\ CountedIn

(* A run without a time limit whose threads are never let go.               *)
Stranded == mpc = "run" /\ run_lock /\ rscene.mode # "timeout"

RunOver == mpc = "exit" /\ \A p \in Procs : ppc[p] \in {"zombie", "gone"}

(* Every run ends, whatever its flowops return or block on: the master      *)
(* exits and all worker processes are gone.  The exception is a run without *)
(* a time limit that lacks its shared memory (proc_create).                 *)
RunEnds == <>[](RunOver \/ Stranded)
==============================================================================
