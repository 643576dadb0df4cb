------------------------------ MODULE Runtime ------------------------------
(***************************************************************************)
(* The coroutine Runtime (Async/runtime.cpp): worker threads that run      *)
(* coroutines from their own queues, threads that submit coroutines or     *)
(* resume suspended ones, the stop request, and the protocol by which      *)
(* worker 0 decides that everything is drained and the workers may exit.   *)
(*                                                                         *)
(* Roots are submitted with submit (submit_root) or block_on               *)
(* (submit_blocking_root) and counted in pending_roots.  Foreign           *)
(* coroutines are handed to schedule(), the completion entry point, by a   *)
(* thread outside the runtime, and are counted only while they are queued  *)
(* or running.                                                             *)
(***************************************************************************)
EXTENDS Integers, Sequences, FiniteSets

CONSTANTS Workers,      \* worker numbers
          Closer,       \* worker 0
          Coroutines,
          Nobody,
          Setups        \* the programs: [workers, roots, blocking, foreign, moves]

(* A program has some of the workers; it gives roots to submit, blocking roots
   to block_on and foreign coroutines to schedule, and each of them suspends or
   changes worker a bounded number of times. *)
ASSUME RuntimeAssumption ==
  /\ Closer \in Workers /\ Nobody \notin Coroutines
  /\ \A s \in Setups :
       /\ Closer \in s.workers /\ s.workers \subseteq Workers /\ s.moves \in Nat
       /\ s.roots \cup s.blocking \cup s.foreign \subseteq Coroutines
       /\ s.roots \cap s.blocking = {} /\ (s.roots \cup s.blocking) \cap s.foreign = {}

VARIABLES
  setup,          \* the program that runs
  accepting, stopRequested, closed, joined,  \* the flags (closed: scheduling_closed)
  submitters, pending, items,  \* root_submitters, pending_roots, scheduled_items
  inbox, local,   \* worker -> coroutines pushed by others, by itself
  woken,          \* worker -> wake_epoch has moved since the worker read it
  wpc,            \* worker -> step of worker_loop
  running,        \* worker -> the coroutine it is resuming, or Nobody
  tpc,            \* coroutine -> step of the outside thread that submits, then resumes it
  call,           \* thread or worker -> step of its schedule_internal, "none" outside it
  goal,           \* thread or worker -> the worker it schedules on
  home,           \* coroutine -> worker that resumes it after a suspension
  pinned,         \* coroutines that hold a range permit (tls_pin_depth # 0)
  suspended,      \* coroutines waiting for an event
  moves,          \* coroutine -> suspensions and changes of worker so far
  ready,          \* roots whose completion is published
  spc             \* step of the thread in join()

Roots == setup.roots
BlockingRoots == setup.blocking
Foreign == setup.foreign
AllRoots == Roots \cup BlockingRoots

flagVars == <<setup, accepting, stopRequested, closed, joined>>
countVars == <<submitters, pending, items>>
queueVars == <<inbox, local, woken>>
coVars == <<home, pinned, suspended, moves, ready>>
callVars == <<call, goal>>
vars == <<flagVars, countVars, queueVars, wpc, running, tpc, callVars, coVars, spc>>

Init ==
  /\ setup \in Setups
  /\ accepting = TRUE /\ stopRequested = FALSE /\ closed = FALSE /\ joined = FALSE
  /\ submitters = 0 /\ pending = 0 /\ items = 0
  /\ inbox = [w \in Workers |-> <<>>] /\ local = [w \in Workers |-> <<>>]
  /\ woken = [w \in Workers |-> FALSE]
  /\ wpc = [w \in Workers |-> IF w \in setup.workers THEN "observe" ELSE "exited"]
  /\ running = [w \in Workers |-> Nobody]
  /\ tpc = [c \in Coroutines |-> "new"]
  /\ call = [a \in Coroutines \cup Workers |-> "none"]
  /\ goal = [a \in Coroutines \cup Workers |-> Closer]
  /\ home = [c \in Coroutines |-> Closer] /\ pinned = {} /\ suspended = {}
  /\ moves = [c \in Coroutines |-> 0] /\ ready = {}
  /\ spc = "idle"

Wake(ws) == woken' = [w \in Workers |-> woken[w] \/ w \in ws]
WGoto(w, step) == wpc' = [wpc EXCEPT ![w] = step]
TGoto(c, step) == tpc' = [tpc EXCEPT ![c] = step]

----------------------------------------------------------------------------
(***************************************************************************)
(* schedule_internal, run by an outside thread (a coroutine's own) or by a *)
(* worker for the coroutine it is resuming.  It ends in "yes" or "no".     *)
(***************************************************************************)
Subject(a) == IF a \in Workers THEN running[a] ELSE a

Call(a, w) == call' = [call EXCEPT ![a] = "check"] /\ goal' = [goal EXCEPT ![a] = w]
CGoto(a, step) == call' = [call EXCEPT ![a] = step] /\ UNCHANGED goal

ScheduleCheck(a) ==
  /\ call[a] = "check" /\ CGoto(a, IF closed THEN "no" ELSE "count")
  /\ UNCHANGED <<flagVars, countVars, queueVars, wpc, running, tpc, coVars, spc>>

ScheduleCount(a) ==
  /\ call[a] = "count" /\ CGoto(a, "recheck") /\ items' = items + 1
  /\ UNCHANGED <<flagVars, submitters, pending, queueVars, wpc, running, tpc, coVars, spc>>

(* Mistake: the item is not looked at again once it is counted *)
ScheduleRecheckNever(a) ==
  /\ call[a] = "recheck" /\ CGoto(a, "push")
  /\ UNCHANGED <<flagVars, countVars, queueVars, wpc, running, tpc, coVars, spc>>

(* the second look: an item that was counted too late is taken back *)
ScheduleRecheck(a) ==
  /\ call[a] = "recheck"
  /\ \/ closed /\ CGoto(a, "no") /\ items' = items - 1
     \/ ~closed /\ CGoto(a, "push") /\ UNCHANGED items
  /\ UNCHANGED <<flagVars, submitters, pending, queueVars, wpc, running, tpc, coVars, spc>>

SchedulePush(a) ==
  LET w == goal[a] IN
  /\ call[a] = "push" /\ CGoto(a, "wake")
  /\ IF a = w
       THEN local' = [local EXCEPT ![w] = Append(@, Subject(a))] /\ UNCHANGED inbox
       ELSE inbox' = [inbox EXCEPT ![w] = Append(@, Subject(a))] /\ UNCHANGED local
  /\ UNCHANGED <<flagVars, countVars, woken, wpc, running, tpc, coVars, spc>>

ScheduleWake(a) ==
  /\ call[a] = "wake" /\ CGoto(a, "yes") /\ Wake({goal[a]})
  /\ UNCHANGED <<flagVars, countVars, inbox, local, wpc, running, tpc, coVars, spc>>

Schedule(a) ==
  ScheduleCheck(a) \/ ScheduleCount(a) \/ ScheduleRecheck(a) \/ SchedulePush(a) \/ ScheduleWake(a)
----------------------------------------------------------------------------
(***************************************************************************)
(* The outside thread of a coroutine: submit_root and submit_blocking_root *)
(* for roots, schedule for foreign coroutines, and later the event that    *)
(* resumes a suspended root (schedule_resume).                             *)
(***************************************************************************)
SubmitBegin(c) ==
  /\ c \in AllRoots /\ tpc[c] = "new" /\ TGoto(c, "gate")
  /\ submitters' = submitters + 1
  /\ UNCHANGED <<flagVars, pending, items, queueVars, wpc, running, callVars, coVars, spc>>

SubmitGate(c) ==
  /\ tpc[c] = "gate"
  /\ \/ accepting /\ TGoto(c, "admit") /\ UNCHANGED submitters
     \/ ~accepting /\ TGoto(c, "rejected") /\ submitters' = submitters - 1
  /\ UNCHANGED <<flagVars, pending, items, queueVars, wpc, running, callVars, coVars, spc>>

SubmitAdmit(c) ==
  /\ tpc[c] = "admit" /\ TGoto(c, "leave") /\ pending' = pending + 1
  /\ UNCHANGED <<flagVars, submitters, items, queueVars, wpc, running, callVars, coVars, spc>>

SubmitLeave(c) ==
  /\ tpc[c] = "leave" /\ TGoto(c, "submit") /\ submitters' = submitters - 1
  /\ \E w \in setup.workers : Call(c, w)                        \* round_robin
  /\ UNCHANGED <<flagVars, pending, items, queueVars, wpc, running, coVars, spc>>

ForeignBegin(c) ==
  /\ c \in Foreign /\ tpc[c] = "new" /\ TGoto(c, "submit")
  /\ \E w \in setup.workers : Call(c, w)
  /\ UNCHANGED <<flagVars, countVars, queueVars, wpc, running, coVars, spc>>

SubmitEnd(c) ==
  /\ tpc[c] = "submit" /\ CGoto(c, "none")
  /\ \/ call[c] = "yes" /\ TGoto(c, "submitted") /\ UNCHANGED <<pending, woken>>
     \/ /\ call[c] = "no" /\ TGoto(c, "rejected")
        /\ pending' = IF c \in AllRoots THEN pending - 1 ELSE pending
        /\ Wake(IF c \in BlockingRoots THEN Workers ELSE {})
  /\ UNCHANGED <<flagVars, submitters, items, inbox, local, wpc, running, coVars, spc>>

Event(c) ==
  /\ c \in suspended /\ tpc[c] = "submitted" /\ TGoto(c, "resume")
  /\ suspended' = suspended \ {c} /\ Call(c, home[c])
  /\ UNCHANGED <<flagVars, countVars, queueVars, wpc, running, home, pinned, moves, ready, spc>>

(* a resumption that is refused ends the process (std::terminate) *)
EventEnd(c) ==
  /\ tpc[c] = "resume" /\ CGoto(c, "none")
  /\ \/ call[c] = "yes" /\ TGoto(c, "submitted")
     \/ call[c] = "no" /\ TGoto(c, "terminated")
  /\ UNCHANGED <<flagVars, countVars, queueVars, wpc, running, coVars, spc>>

ThreadStep(c) ==
  \/ SubmitGate(c) \/ SubmitAdmit(c) \/ SubmitLeave(c) \/ SubmitEnd(c)
  \/ Event(c) \/ EventEnd(c) \/ Schedule(c)

----------------------------------------------------------------------------
(***************************************************************************)
(* worker_loop.  The wake epoch is read before the queues are looked at,   *)
(* so that a push in between is seen by the futex.                         *)
(***************************************************************************)
Observe(w) ==
  /\ wpc[w] = "observe" /\ WGoto(w, "pop") /\ woken' = [woken EXCEPT ![w] = FALSE]
  /\ UNCHANGED <<flagVars, countVars, inbox, local, running, tpc, callVars, coVars, spc>>

(* drain_inbox and pop_local *)
Pop(w) ==
  LET queue == local[w] \o inbox[w] IN
  /\ wpc[w] = "pop"
  /\ IF queue = <<>>
       THEN WGoto(w, "drained") /\ UNCHANGED <<inbox, local, running>>
       ELSE /\ WGoto(w, "run") /\ running' = [running EXCEPT ![w] = Head(queue)]
            /\ local' = [local EXCEPT ![w] = Tail(queue)] /\ inbox' = [inbox EXCEPT ![w] = <<>>]
  /\ UNCHANGED <<flagVars, countVars, woken, tpc, callVars, coVars, spc>>

(* The coroutine runs: it finishes, ... *)
Finish(w) ==
  LET c == running[w] IN
  /\ wpc[w] = "run" /\ c \notin pinned
  /\ \/ c \in Roots /\ WGoto(w, "completed") /\ ready' = ready \cup {c}
     \/ c \in BlockingRoots /\ WGoto(w, "deferred") /\ UNCHANGED ready
     \/ c \in Foreign /\ WGoto(w, "after") /\ UNCHANGED ready
  /\ UNCHANGED <<flagVars, countVars, queueVars, running, tpc, callVars, home, pinned,
                 suspended, moves, spc>>

(* on_root_completed *)
RootCompleted(w) ==
  /\ wpc[w] = "completed" /\ WGoto(w, "after")
  /\ pending' = pending - 1 /\ Wake(Workers)
  /\ UNCHANGED <<flagVars, submitters, items, inbox, local, running, tpc, callVars, coVars, spc>>

(* publish_deferred_completions, for a blocking root: the caller owns the
   completion once it is ready *)
PublishDeferred(w) ==
  /\ \/ /\ wpc[w] = "deferred" /\ WGoto(w, "publish")
        /\ pending' = pending - 1 /\ Wake(Workers) /\ UNCHANGED ready
     \/ /\ wpc[w] = "publish" /\ WGoto(w, "after")
        /\ ready' = ready \cup {running[w]} /\ UNCHANGED <<pending, woken>>
  /\ UNCHANGED <<flagVars, submitters, items, inbox, local, running, tpc, callVars, home,
                 pinned, suspended, moves, spc>>

Moving(c) == moves[c] < setup.moves /\ moves' = [moves EXCEPT ![c] = @ + 1]

(* ... waits for an event, ... *)
Suspend(w) ==
  LET c == running[w] IN
  /\ wpc[w] = "run" /\ c \in AllRoots /\ Moving(c) /\ WGoto(w, "after")
  /\ suspended' = suspended \cup {c} /\ home' = [home EXCEPT ![c] = w]
  /\ UNCHANGED <<flagVars, countVars, queueVars, running, tpc, callVars, pinned, ready, spc>>

(* ... yields, or goes to another worker unless it is pinned here, ... *)
Move(w) ==
  LET c == running[w] IN
  /\ wpc[w] = "run" /\ Moving(c) /\ WGoto(w, "move")
  /\ \E v \in setup.workers : (c \in pinned => v = w) /\ Call(w, v)
  /\ UNCHANGED <<flagVars, countVars, queueVars, running, tpc, home, pinned, suspended, ready, spc>>

(* a refused move is an error the coroutine sees *)
MoveEnd(w) ==
  /\ wpc[w] = "move" /\ CGoto(w, "none")
  /\ \/ call[w] = "yes" /\ WGoto(w, "after")
     \/ call[w] = "no" /\ WGoto(w, "run")
  /\ UNCHANGED <<flagVars, countVars, queueVars, running, tpc, coVars, spc>>

(* ... takes a range permit or gives it back. *)
Pin(w) ==
  LET c == running[w] IN
  /\ wpc[w] = "run"
  /\ \/ /\ c \notin pinned /\ Moving(c)
        /\ pinned' = pinned \cup {c} /\ home' = [home EXCEPT ![c] = w]
     \/ c \in pinned /\ pinned' = pinned \ {c} /\ UNCHANGED <<moves, home>>
  /\ UNCHANGED <<flagVars, countVars, queueVars, wpc, running, tpc, callVars, suspended, ready, spc>>

(* Mistake: the item stays counted *)
AfterUncounted(w) ==
  /\ wpc[w] = "after" /\ WGoto(w, "observe")
  /\ running' = [running EXCEPT ![w] = Nobody]
  /\ UNCHANGED <<flagVars, countVars, queueVars, tpc, callVars, coVars, spc>>

After(w) ==
  /\ wpc[w] = "after" /\ WGoto(w, "observe")
  /\ running' = [running EXCEPT ![w] = Nobody] /\ items' = items - 1
  /\ UNCHANGED <<flagVars, submitters, pending, queueVars, tpc, callVars, coVars, spc>>
----------------------------------------------------------------------------
(***************************************************************************)
(* An idle worker: worker 0 closes the scheduling if everything is drained *)
(* (close_scheduling_if_drained, one load at a time), the others leave     *)
(* when it is closed, and everybody else spins or sleeps.                  *)
(***************************************************************************)
Idle(w, from, to) ==
  /\ wpc[w] = from /\ WGoto(w, to)
  /\ UNCHANGED <<countVars, inbox, local, running, tpc, callVars, coVars, spc>>

Keep == UNCHANGED <<flagVars, woken>>

(* stop_requested never goes back, so it is read together with submitters *)
CloseUnless(w, from, busy, next, other) == Idle(w, from, IF busy THEN other ELSE next) /\ Keep

CloseTest(w) ==
  /\ w = Closer
  /\ \/ CloseUnless(w, "drained", ~stopRequested \/ submitters # 0, "pending", "park")
     \/ CloseUnless(w, "pending", pending # 0, "items", "park")
     \/ CloseUnless(w, "items", items # 0, "close", "park")

CloseScheduling(w) ==
  /\ Idle(w, "close", "pending2") /\ closed' = TRUE
  /\ UNCHANGED <<setup, accepting, stopRequested, joined, woken>>

CloseAgain(w) ==
  \/ CloseUnless(w, "pending2", pending # 0, "submitters2", "reopen")
  \/ CloseUnless(w, "submitters2", submitters # 0, "items2", "reopen")
  \/ CloseUnless(w, "items2", items # 0, "announce", "reopen")

Reopen(w) ==
  /\ Idle(w, "reopen", "park") /\ closed' = FALSE
  /\ UNCHANGED <<setup, accepting, stopRequested, joined, woken>>

Announce(w) == Idle(w, "announce", "exited") /\ Wake(Workers) /\ UNCHANGED flagVars

Leave(w) == w # Closer /\ CloseUnless(w, "drained", closed, "park", "exited")

(* Mistake: the epoch is read just before the sleep *)
ParkLate(w) ==
  Idle(w, "park", "parked") /\ woken' = [woken EXCEPT ![w] = FALSE] /\ UNCHANGED flagVars

Park(w) ==
  /\ Keep
  /\ \/ Idle(w, "park", "observe")                              \* spin, or a poller is busy
     \/ Idle(w, "park", IF woken[w] THEN "observe" ELSE "parked")

(* woken up, or timed out after 10 ms *)
Unpark(w) == Idle(w, "parked", "observe") /\ Keep

WorkerStep(w) ==
  \/ Observe(w) \/ Pop(w) \/ Finish(w) \/ RootCompleted(w) \/ PublishDeferred(w) \/ Suspend(w)
  \/ Move(w) \/ MoveEnd(w) \/ Pin(w) \/ After(w) \/ Schedule(w)
  \/ CloseTest(w) \/ CloseScheduling(w) \/ CloseAgain(w) \/ Reopen(w) \/ Announce(w) \/ Leave(w)
  \/ Park(w) \/ Unpark(w)

----------------------------------------------------------------------------
(* request_stop and join *)
SGoto(from, to) ==
  /\ spc = from /\ spc' = to
  /\ UNCHANGED <<closed, countVars, inbox, local, wpc, running, tpc, callVars, coVars>>

StopAccepting ==
  SGoto("idle", "stop") /\ accepting' = FALSE /\ UNCHANGED <<setup, stopRequested, joined, woken>>

StopRequest ==
  SGoto("stop", "wake") /\ stopRequested' = TRUE /\ UNCHANGED <<setup, accepting, joined, woken>>

StopWake ==
  SGoto("wake", "join") /\ Wake(Workers) /\ UNCHANGED <<setup, accepting, stopRequested, joined>>

Join ==
  /\ \A w \in Workers : wpc[w] = "exited"
  /\ SGoto("join", "done") /\ joined' = TRUE /\ UNCHANGED <<setup, accepting, stopRequested, woken>>

StopStep == StopRequest \/ StopWake \/ Join

Ended == joined /\ UNCHANGED vars

Next == \/ \E c \in Coroutines : SubmitBegin(c) \/ ForeignBegin(c) \/ ThreadStep(c)
        \/ \E w \in Workers : WorkerStep(w)
        \/ StopAccepting \/ StopStep \/ Ended

Spec == Init /\ [][Next]_vars

(* Threads run, events happen, a futex sleep ends after 10 ms, and a thread
   that has begun to stop the runtime goes on. *)
LiveSpec ==
  /\ Spec
  /\ \A w \in Workers : WF_vars(WorkerStep(w))
  /\ \A c \in Coroutines : WF_vars(ThreadStep(c))
  /\ WF_vars(StopStep)

----------------------------------------------------------------------------
(* Properties *)

Queued(w) == {local[w][i] : i \in DOMAIN local[w]} \cup {inbox[w][i] : i \in DOMAIN inbox[w]}

(* Every part of the runtime's state has its type. *)
TypeOK ==
  /\ setup \in Setups
  /\ {accepting, stopRequested, closed, joined} \subseteq BOOLEAN
  /\ {submitters, pending, items} \subseteq Nat
  /\ inbox \in [Workers -> Seq(Coroutines)] /\ local \in [Workers -> Seq(Coroutines)]
  /\ woken \in [Workers -> BOOLEAN]
  /\ wpc \in [Workers -> {"observe", "pop", "run", "completed", "deferred", "publish", "move",
                          "after", "drained", "pending", "items", "close", "pending2",
                          "submitters2", "items2", "announce", "reopen", "park", "parked",
                          "exited"}]
  /\ running \in [Workers -> Coroutines \cup {Nobody}]
  /\ tpc \in [Coroutines -> {"new", "gate", "admit", "leave", "submit", "submitted", "resume",
                             "rejected", "terminated"}]
  /\ call \in [Coroutines \cup Workers -> {"none", "check", "count", "recheck", "push", "wake",
                                           "yes", "no"}]
  /\ goal \in [Coroutines \cup Workers -> Workers] /\ home \in [Coroutines -> Workers]
  /\ pinned \subseteq Coroutines /\ suspended \subseteq AllRoots
  /\ moves \in [Coroutines -> 0 .. setup.moves] /\ ready \subseteq AllRoots
  /\ spc \in {"idle", "stop", "wake", "join", "done"}

(* No work is left on a worker that has exited, and nobody is about to put
   some there: what schedule_internal accepts is run. *)
NothingStranded == \A w \in Workers : wpc[w] = "exited" =>
  /\ Queued(w) = {}
  /\ \A a \in DOMAIN call : call[a] = "push" => goal[a] # w

(* A submitted root is resumed for as long as it needs: resuming it never
   finds the scheduling closed, which would end the process. *)
NeverTerminated == \A c \in Coroutines : tpc[c] # "terminated"

(* join returns only when every accepted root has completed and nothing is
   counted any more but what a late schedule is about to take back. *)
JoinedDrained == joined =>
  /\ pending = 0 /\ suspended = {}
  /\ items = Cardinality({a \in DOMAIN call : call[a] = "recheck"})
  /\ \A c \in AllRoots : tpc[c] = "submitted" => c \in ready

(* A coroutine runs in one place at a time: it is queued once, and neither
   running nor suspended while it is queued, but for the worker that has just
   queued it and is still inside schedule_internal. *)
OnePlace ==
  /\ \A v, w \in Workers : v # w => Queued(v) \cap Queued(w) = {}
  /\ \A w \in Workers :
       /\ Cardinality(Queued(w)) = Len(local[w]) + Len(inbox[w])
       /\ Queued(w) \cap suspended = {}
       /\ \A v \in Workers : running[v] \in Queued(w) => wpc[v] \in {"move", "after"}

(* Work waiting for a sleeping worker has moved its wake epoch, or is about
   to: the futex wakes up at once and not after its timeout. *)
NoLostWake == \A w \in Workers : wpc[w] = "parked" /\ ~woken[w] =>
  /\ local[w] = <<>>
  /\ inbox[w] # <<>> => \E a \in DOMAIN call : call[a] = "wake" /\ goal[a] = w

(* A coroutine that holds a range permit stays on the worker where it took
   it, across yields, suspensions and resumptions. *)
PinnedStays == \A c \in pinned, w \in Workers :
  (running[w] = c /\ wpc[w] = "run") \/ c \in Queued(w) => w = home[c]

(* Every accepted root completes, ... *)
RootsComplete == \A c \in Coroutines : c \in AllRoots /\ tpc[c] = "submitted" ~> c \in ready

(* ... and join returns. *)
JoinReturns == spc = "stop" ~> joined

(* A coroutine is in one place, on the worker it must be on, in a queue that
   the worker will look at, and never meets a closed scheduler; join returns
   only when all of them are through. *)
Scheduled ==
  TypeOK /\ OnePlace /\ PinnedStays /\ NoLostWake /\ NeverTerminated /\ JoinedDrained

(* Accepted roots complete, and then join returns. *)
Completes == RootsComplete /\ JoinReturns
============================================================================
