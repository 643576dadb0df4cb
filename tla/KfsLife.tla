------------------------------ MODULE KfsLife ------------------------------
(***************************************************************************)
(* The life of the server process: main, init_kernelFS and close_kernelFS  *)
(* (KernelFS/kernel_main.c, kernel_func.c), the start and stop of the      *)
(* Runtime and the server (KernelFS/async_server_bridge.cpp), the core     *)
(* (LibFS/kfs_core_api.c), and the scheduler of migrations that runs       *)
(* beside the requests (async_server_bridge.cpp, LibFS/migrate.c).         *)
(*                                                                         *)
(* A request adds a candidate for migration and may start a run; a run is  *)
(* a coroutine on the Runtime.  What a migration does to a file is in      *)
(* FileCore; here it succeeds, finds its candidate stale, or fails.        *)
(***************************************************************************)
EXTENDS Naturals, Sequences, FiniteSets, SequencesExt

CONSTANTS
  Writers,    \* requests, each of which adds one candidate, named after it
  Runners,    \* coroutines of run_migration
  MigrateNum, \* DEFAULT_MIGRATE_NUM: candidates a run takes
  Threshold,  \* mig_threshold
  MaxFaults   \* bound on the failures of a migration, of a submission and of a start

\* The parts of the process in the order in which they start.
Parts == <<"runtime", "device", "bitmaps", "log", "cache", "memlog", "migration", "core", "server">>

\* And that in which close_kernelFS takes them down.
Closing == <<"server", "migration", "cache", "memlog", "core", "log", "bitmaps", "device", "runtime">>

VARIABLES
  main,      \* what the main thread does
  up,        \* the parts that are up
  asked,     \* stop_requested, which the signal handler sets
  stopping,  \* migration_stopping
  active,    \* migration_active
  bound,     \* migration_runtime and migration_filesystem are set
  inbox,     \* migration_inbox, a stack
  localq,    \* migration_local
  used,      \* nvm_page_used, in candidates
  pc,        \* what a request or a run does
  plan,      \* the candidate a run works on
  taken,     \* how many it has taken
  retry,     \* its retry_more
  added, migrated, stale, discarded,  \* candidates so far
  faults

vars == <<main, up, asked, stopping, active, bound, inbox, localq, used, pc, plan, taken, retry,
          added, migrated, stale, discarded, faults>>

life == <<main, up, asked>>
gate == <<stopping, active, bound>>
runs == <<plan, taken, retry>>
ends == <<migrated, stale, discarded>>

Actors == Writers \cup Runners
Nobody == "nobody"

Init ==
  /\ main = "start" /\ up = {} /\ asked = FALSE
  /\ stopping = TRUE /\ active = FALSE /\ bound = FALSE
  /\ inbox = <<>> /\ localq = <<>> /\ used = 0
  /\ pc = [a \in Actors |-> "idle"]
  /\ plan = [r \in Runners |-> Nobody]
  /\ taken = [r \in Runners |-> 0]
  /\ retry = [r \in Runners |-> FALSE]
  /\ added = {} /\ migrated = {} /\ stale = {} /\ discarded = {}
  /\ faults = 0

Goto(a, l) == pc' = [pc EXCEPT ![a] = l]

-----------------------------------------------------------------------------
(* The main thread.                                                        *)

NextPart == Parts[Cardinality(up) + 1]

\* One part starts.  orchfs_migration_initialize opens the scheduler.
StartPart ==
  /\ main = "start" /\ "server" \notin up
  /\ up' = up \cup {NextPart}
  /\ main' = IF NextPart = "server" THEN "check" ELSE "start"
  /\ IF NextPart = "migration"
     THEN bound' = TRUE /\ stopping' = FALSE
     ELSE UNCHANGED <<bound, stopping>>
  /\ UNCHANGED <<asked, active, inbox, localq, used, pc, runs, added, ends, faults>>

\* It, or the check before it, fails: whatever is up is closed and the process exits.
\* (The format is checked before the bitmaps are read, the log is replayed before the
\* cache, and the orphans are reaped before the core counts as initialized; a device or
\* a log that cannot be opened ends the process on the spot.)
FailPart ==
  /\ main = "start"
  /\ NextPart \notin {"device", "log"}
  /\ faults < MaxFaults
  /\ faults' = faults + 1
  /\ main' = "close"
  /\ UNCHANGED <<up, asked, gate, inbox, localq, used, pc, runs, added, ends>>

\* The loop of main looks at stop_requested and then pauses: a signal in between is
\* noticed only when the next one interrupts the pause.
CheckStop ==
  /\ main = "check"
  /\ main' = IF asked THEN "close" ELSE "to_pause"
  /\ UNCHANGED <<up, asked, gate, inbox, localq, used, pc, runs, added, ends, faults>>

pause ==
  /\ main = "to_pause"
  /\ main' = "paused"
  /\ UNCHANGED <<up, asked, gate, inbox, localq, used, pc, runs, added, ends, faults>>

\* request_stop, the handler of SIGINT and SIGTERM.
request_stop ==
  /\ main \in {"start", "check", "to_pause", "paused"}
  /\ asked' = TRUE
  /\ main' = IF main = "paused" THEN "check" ELSE main
  /\ UNCHANGED <<up, gate, inbox, localq, used, pc, runs, added, ends, faults>>

\* request_snapshot, the handler of SIGUSR1: it interrupts the pause, main records
\* a snapshot of the allocation (diagnostics, left out) and looks at stop_requested again.
request_snapshot ==
  /\ main = "paused"
  /\ main' = "check"
  /\ UNCHANGED <<up, asked, gate, inbox, localq, used, pc, runs, added, ends, faults>>

\* The next part to close: in the order of close_kernelFS once the core is initialized,
\* in the opposite order of the start before that.
Order == IF "core" \in up THEN Closing ELSE Reverse(Parts)
Doomed == Order[CHOOSE i \in DOMAIN Order :
                  Order[i] \in up /\ \A j \in 1..(i - 1) : Order[j] \notin up]

\* Mistake: the stop of the scheduler does not wait for a run.
QuietAtOnce == TRUE

\* orchfs_async_migration_stop waits for migration_active to be cleared.
Quiet == ~active

\* The stop first closes the gate ...
CloseGate ==
  /\ main = "close" /\ up # {} /\ Doomed = "migration"
  /\ ~stopping
  /\ stopping' = TRUE
  /\ UNCHANGED <<life, active, bound, inbox, localq, used, pc, runs, added, ends, faults>>

\* ... and then unbinds the Runtime and throws the candidates away.
StopMigration ==
  /\ main = "close" /\ up # {} /\ Doomed = "migration"
  /\ stopping /\ Quiet
  /\ up' = up \ {"migration"}
  /\ bound' = FALSE
  /\ discarded' = discarded \cup Range(inbox) \cup Range(localq)
  /\ inbox' = <<>> /\ localq' = <<>>
  /\ UNCHANGED <<main, asked, stopping, active, used, pc, runs, added, migrated, stale, faults>>

\* The server drains and joins its sessions: no request is left (Handshake).  The
\* Runtime joins its workers when no coroutine is left.
ClosePart ==
  /\ main = "close" /\ up # {} /\ Doomed # "migration"
  /\ Doomed = "server" => \A w \in Writers : pc[w] \in {"idle", "done"}
  /\ Doomed = "runtime" => \A a \in Actors : pc[a] \in {"idle", "done"}
  /\ up' = up \ {Doomed}
  /\ UNCHANGED <<main, asked, gate, inbox, localq, used, pc, runs, added, ends, faults>>

Exit ==
  /\ main = "close" /\ up = {}
  /\ main' = "exited"
  /\ UNCHANGED <<up, asked, gate, inbox, localq, used, pc, runs, added, ends, faults>>

-----------------------------------------------------------------------------
(* A request adds a candidate and schedules a run when too much is used.   *)

orchfs_async_migration_enqueue_candidate(w) ==
  /\ pc[w] = "idle" /\ w \in Writers
  /\ "server" \in up /\ main # "start"
  /\ \/ /\ inbox' = <<w>> \o inbox
        /\ added' = added \cup {w}
        /\ Goto(w, "count")
        /\ UNCHANGED faults
     \/ /\ faults < MaxFaults
        /\ faults' = faults + 1
        /\ Goto(w, "done")
        /\ UNCHANGED <<inbox, added>>
  /\ UNCHANGED <<life, gate, localq, used, runs, ends>>

add_migrate_node(w) ==
  /\ pc[w] = "count"
  /\ used' = used + 1
  /\ Goto(w, IF used' > Threshold THEN "gate" ELSE "done")
  /\ UNCHANGED <<life, gate, inbox, localq, runs, added, ends, faults>>

Finished(a) == IF a \in Writers THEN "done" ELSE "idle"

\* orchfs_async_schedule_migration: the gate, the one winner, the gate again ...
PassGate(a) ==
  /\ pc[a] = "gate"
  /\ Goto(a, IF stopping THEN Finished(a) ELSE "win")
  /\ UNCHANGED <<life, gate, inbox, localq, used, runs, added, ends, faults>>

\* Mistake: the winner is found with a load and a store.
WinByStore(a) ==
  /\ pc[a] = "win"
  /\ active' = TRUE
  /\ Goto(a, "again")
  /\ UNCHANGED <<life, stopping, bound, inbox, localq, used, runs, added, ends, faults>>

Win(a) ==
  /\ pc[a] = "win"
  /\ active' = TRUE
  /\ Goto(a, IF active THEN Finished(a) ELSE "again")
  /\ UNCHANGED <<life, stopping, bound, inbox, localq, used, runs, added, ends, faults>>

\* Mistake: the winner that finds the gate closed forgets to step back.
GateAgainKept(a) ==
  /\ pc[a] = "again"
  /\ Goto(a, IF stopping THEN Finished(a) ELSE "submit")
  /\ UNCHANGED <<life, gate, inbox, localq, used, runs, added, ends, faults>>

GateAgain(a) ==
  /\ pc[a] = "again"
  /\ active' = ~stopping
  /\ Goto(a, IF stopping THEN Finished(a) ELSE "submit")
  /\ UNCHANGED <<life, stopping, bound, inbox, localq, used, runs, added, ends, faults>>

\* ... and the submission, which the Runtime may refuse.
Submit(a) ==
  /\ pc[a] = "submit"
  /\ \/ /\ bound
        /\ \E r \in Runners :
             /\ pc[r] = "idle"
             /\ pc' = [pc EXCEPT ![a] = Finished(a), ![r] = "begin"]
        /\ UNCHANGED <<active, faults>>
     \/ /\ ~bound \/ faults < MaxFaults
        /\ active' = FALSE
        /\ faults' = IF bound THEN faults + 1 ELSE faults
        /\ Goto(a, Finished(a))
  /\ UNCHANGED <<life, stopping, bound, inbox, localq, used, runs, added, ends>>

-----------------------------------------------------------------------------
(* run_migration and KfsCoroutineCore::migrate.                            *)

Begin(r) ==
  /\ pc[r] = "begin"
  /\ taken' = [taken EXCEPT ![r] = 0]
  /\ retry' = [retry EXCEPT ![r] = FALSE]
  /\ Goto(r, IF stopping THEN "publish" ELSE "take")
  /\ UNCHANGED <<life, gate, inbox, localq, used, plan, added, ends, faults>>

\* drain_migration_inbox: the stack goes, oldest first, before the local list.
Drained == IF localq = <<>> THEN Reverse(inbox) ELSE localq

\* orchfs_prepare_migration finds no memory for a plan.
NoPlan(r) ==
  /\ pc[r] = "take" /\ taken[r] < MigrateNum
  /\ faults < MaxFaults
  /\ faults' = faults + 1
  /\ Goto(r, "publish")
  /\ UNCHANGED <<life, gate, inbox, localq, used, runs, added, ends>>

\* take_migration_candidate, on the worker that owns the local list.
take_migration_candidate(r) ==
  /\ pc[r] = "take" /\ taken[r] < MigrateNum
  /\ inbox' = IF localq = <<>> THEN <<>> ELSE inbox
  /\ IF Drained = <<>>
     THEN /\ Goto(r, "publish")
          /\ UNCHANGED <<localq, plan>>
     ELSE /\ localq' = Tail(Drained)
          /\ plan' = [plan EXCEPT ![r] = Head(Drained)]
          /\ Goto(r, "work")
  /\ UNCHANGED <<life, gate, used, taken, retry, added, ends, faults>>

Pending == localq # <<>> \/ inbox # <<>>

\* The run has taken its share: it asks for another one if candidates are left.
TookAll(r) ==
  /\ pc[r] = "take" /\ taken[r] = MigrateNum
  /\ retry' = [retry EXCEPT ![r] = Pending]
  /\ Goto(r, "publish")
  /\ UNCHANGED <<life, gate, inbox, localq, used, plan, taken, added, ends, faults>>

\* The candidate is gone from the plan and the run goes on, or ends with an error.
Leave(r, next) ==
  /\ pc[r] = "work"
  /\ plan' = [plan EXCEPT ![r] = Nobody]
  /\ taken' = [taken EXCEPT ![r] = @ + 1]
  /\ Goto(r, next)
  /\ UNCHANGED <<life, gate, localq, retry, added>>

\* orchfs_finish_migration maps the block to its new place; the commit may still fail.
Migrated(r) ==
  \E next \in {"take", "publish"} :
    /\ Leave(r, next)
    /\ migrated' = migrated \cup {plan[r]}
    /\ used' = used - 1
    /\ next = "publish" => faults < MaxFaults
    /\ faults' = IF next = "publish" THEN faults + 1 ELSE faults
    /\ UNCHANGED <<inbox, stale, discarded>>

\* The file has other pages by now (orchfs_prepare_migration_io).
Stale(r) ==
  /\ Leave(r, "take")
  /\ stale' = stale \cup {plan[r]}
  /\ UNCHANGED <<inbox, used, migrated, discarded, faults>>

\* requeue puts the candidate back, or drops it when there is no memory for that.
requeue(r) ==
  \/ inbox' = <<plan[r]>> \o inbox /\ UNCHANGED discarded
  \/ discarded' = discarded \cup {plan[r]} /\ UNCHANGED inbox

\* The inode, the memory, the block, the device or the worker is not to be had: the
\* candidate goes back.  Only an inode that cannot be loaded (ESTALE) keeps the run going.
Failed(r) ==
  \E next \in {"take", "publish"} :
    /\ Leave(r, next)
    /\ faults < MaxFaults
    /\ faults' = faults + 1
    /\ requeue(r)
    /\ UNCHANGED <<used, migrated, stale>>

publish_migration_idle(r) ==
  /\ pc[r] = "publish"
  /\ active' = FALSE
  /\ Goto(r, IF retry[r] THEN "tail" ELSE "idle")
  /\ UNCHANGED <<life, stopping, bound, inbox, localq, used, runs, added, ends, faults>>

\* The end of run_migration looks at the gate and then at the lists, while the stop may
\* be throwing them away.
TailGate(r) ==
  /\ pc[r] = "tail"
  /\ Goto(r, IF stopping THEN "idle" ELSE "pending")
  /\ UNCHANGED <<life, gate, inbox, localq, used, runs, added, ends, faults>>

migration_candidates_pending(r) ==
  /\ pc[r] = "pending"
  /\ Goto(r, IF Pending THEN "gate" ELSE "idle")
  /\ UNCHANGED <<life, gate, inbox, localq, used, runs, added, ends, faults>>

-----------------------------------------------------------------------------
Main == StartPart \/ FailPart \/ CheckStop \/ pause \/ CloseGate \/ StopMigration \/ ClosePart \/ Exit
Schedule(a) == PassGate(a) \/ Win(a) \/ GateAgain(a) \/ Submit(a)
Request(w) == orchfs_async_migration_enqueue_candidate(w) \/ add_migrate_node(w)
Run(r) ==
  \/ Begin(r) \/ NoPlan(r) \/ take_migration_candidate(r) \/ TookAll(r)
  \/ Migrated(r) \/ Stale(r) \/ Failed(r)
  \/ publish_migration_idle(r) \/ TailGate(r) \/ migration_candidates_pending(r)

Next ==
  \/ Main \/ request_stop \/ request_snapshot
  \/ \E w \in Writers : Request(w)
  \/ \E a \in Actors : Schedule(a)
  \/ \E r \in Runners : Run(r)

\* The main thread, the workers of the Runtime and the requests they run keep running.
\* Nobody need send a signal, or a second one.
Going(w) == add_migrate_node(w) \/ Schedule(w)
Running(r) == Run(r) \/ Schedule(r)
Fairness ==
  /\ WF_vars(Main)
  /\ \A w \in Writers : WF_vars(Going(w))
  /\ \A r \in Runners : WF_vars(Running(r))

Spec == Init /\ [][Next]_vars /\ Fairness

-----------------------------------------------------------------------------
Held == {plan[r] : r \in Runners} \ {Nobody}

\* orchfs_async_migration_enqueue_candidate, take_migration_candidate, requeue (with memory
\* for it) and discard_migration_candidates: every candidate is in one place, and none is left or
\* forgotten when the process exits.
EachCandidateOnce ==
  /\ Len(inbox) + Len(localq) + Cardinality(Held)
       = Cardinality(added \ (migrated \cup stale \cup discarded))
  /\ Range(inbox) \cup Range(localq) \cup Held = added \ (migrated \cup stale \cup discarded)
  /\ \A r, q \in Runners : r # q /\ plan[r] # Nobody => plan[r] # plan[q]
  /\ main = "exited" => Range(inbox) \cup Range(localq) \cup Held = {}

\* orchfs_async_schedule_migration: one run at a time works on the list that belongs to
\* one worker, and migration_active says so.
OneRun ==
  /\ Cardinality({r \in Runners : pc[r] \in {"begin", "take", "work", "publish"}}
                   \cup {a \in Actors : pc[a] \in {"again", "submit"}}) <= 1
  /\ \A r \in Runners : pc[r] \in {"begin", "take", "work", "publish"} => active

\* close_kernelFS and orchfs_core_initialize: whoever runs finds everything it uses up,
\* whichever part failed to start and whenever the stop came.
NeededUp ==
  /\ \A w \in Writers : pc[w] \notin {"idle", "done"} => Range(Parts) \subseteq up
  /\ \A r \in Runners :
       /\ pc[r] \in {"take", "work"} => Range(Parts) \ {"server"} \subseteq up
       /\ pc[r] # "idle" => "runtime" \in up
  /\ "log" \in up => "device" \in up
  /\ "cache" \in up => {"device", "log", "bitmaps"} \subseteq up

LifeSafe == EachCandidateOnce /\ OneRun /\ NeededUp

\* Main is through with its start and with its end, it is not on its way from a
\* stop_requested it will see, and no request and no run is left.
LifeOver ==
  /\ main \notin {"start", "close"} /\ ~(asked /\ main = "check")
  /\ \A a \in Actors : pc[a] \in {"idle", "done"}

\* close_kernelFS: the start of a part that fails, and a stop_requested that main looks at
\* (a signal before its look or in pause()), lead to the exit of the process, although
\* runs schedule further runs; and requests and runs end.
LifeEnds == <>[]LifeOver

\* What the description of the server says of SIGINT and SIGTERM: either stops it.  A
\* signal that main gets after its look at stop_requested and before pause() does not.
StopHeeded == asked ~> main = "exited"

=============================================================================
