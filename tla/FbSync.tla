------------------------------- MODULE FbSync -------------------------------
(***************************************************************************)
(* The flowops of filebench that make threads wait for each other or for   *)
(* time (filebench/flowop_library.c): rate limits, which take events from  *)
(* the event generator (filebench/eventgen.c); semaphores, where a post    *)
(* feeds every target and, when it is a blocking one, waits while a target *)
(* is a high water mark behind; and block with wakeup.  A limit runs after an operation of its  *)
(* thread, and so does a flowop that ends its thread when enough has been  *)
(* done; what the operations are is left out.                              *)
(***************************************************************************)
EXTENDS Integers, FiniteSets, FiniteSetsExt

CONSTANTS
  SyncLoads,  \* what is run; see SyncInit for the fields
  Unit        \* MB, in the units operations are counted in

VARIABLES
  sload,     \* the load of this behaviour
  q,         \* shm_eventgen_q
  total,     \* controlstats: operations (or bytes) of all threads
  last,      \* fo_tputlast of a limit
  bucket,    \* fo_tputbucket of a limit
  need,      \* events a limit waits for
  lw, hw,    \* the two semaphores of a semblock
  posting,   \* targets a sempost has yet to post to
  late,      \* for a target, the posts to it and the waits of it that timed out
  waiting,   \* threads in pthread_cond_wait
  spc,       \* a thread: op, limit, take, raise, lower, post, block, wake or done
  lap        \* the laps it has made

sync_vars == <<sload, q, total, last, bucket, need, lw, hw, posting, late,
               waiting, spc, lap>>
rate_vars == <<q, total, last, bucket, need>>
sem_vars  == <<lw, hw, posting, late>>

Users == DOMAIN sload.role
Having(roles) == {t \in Users : sload.role[t] \in roles}
Limits == Having({"event", "iops", "ops", "bw"})
Finishers == Having({"count", "bytes"})
Targets == Having({"semblock"})

FirstStep(role) == CASE role = "semblock" -> "raise"
                     [] role = "sempost" -> "post"
                     [] role \in {"block", "wakeup"} -> role
                     [] OTHER -> "op"

(***************************************************************************)
(* A load: role, what each thread does; cost, what one operation of it     *)
(* adds to the total; rate, eventgen_hz; highwater and value, of the       *)
(* semaphores; blocking, fo_blocking of the semposts (FALSE when it is not *)
(* given); timeouts, whether waits of 600 seconds are possible (there are  *)
(* none in a build without semtimedop); goal, what is enough; laps, the    *)
(* rounds of each thread (a bound).                                        *)
(***************************************************************************)
SyncInit ==
  /\ sload \in SyncLoads
  /\ q = 0 /\ total = 0 /\ waiting = {}
  /\ last = [t \in Limits |-> 0]
  /\ bucket = [t \in Limits |-> 0]
  /\ need = [t \in Limits |-> 0]
  /\ lw = [t \in Targets |-> 0]
  /\ hw = [t \in Targets |-> sload.highwater]
  /\ posting = [t \in Having({"sempost"}) |-> Targets]
  /\ late = [t \in Targets |-> [posts |-> 0, waits |-> 0]]
  /\ spc = [t \in Users |-> FirstStep(sload.role[t])]
  /\ lap = [t \in Users |-> 1]

Endless == Having({"block", "wakeup"}) \cup Finishers

(* The flowop returns and its thread starts over, or has made its laps.     *)
(* block and wakeup go on for ever, and others until enough has been done.  *)
Round(t) ==
  LET more == t \in Endless \/ lap[t] < sload.laps[t]
  IN /\ spc' = [spc EXCEPT ![t] = IF more THEN FirstStep(sload.role[t]) ELSE "done"]
     /\ lap' = [lap EXCEPT ![t] = IF more /\ t \notin Endless THEN @ + 1 ELSE @]

Goto(t, label) == spc' = [spc EXCEPT ![t] = label] /\ UNCHANGED lap

(***************************************************************************)
(* Events: eventgen_thread adds what has accrued unless five seconds worth *)
(* is in the queue, and wakes one limit.                                   *)
(***************************************************************************)
eventgen_thread ==
  /\ Limits # {}
  /\ \E count \in 1..sload.rate : q' = IF q < 5 * sload.rate THEN q + count ELSE q
  /\ IF waiting = {} THEN UNCHANGED waiting
     ELSE \E t \in waiting : waiting' = waiting \ {t}
  /\ UNCHANGED <<sload, total, last, bucket, need, sem_vars, spc, lap>>

(* An operation of the thread is counted. *)
flowop_endop(t) ==
  /\ spc[t] = "op"
  /\ total' = total + sload.cost
  /\ Goto(t, "limit")
  /\ UNCHANGED <<sload, q, last, bucket, need, sem_vars, waiting>>

(* Mistake: a debt short of a whole megabyte is not paid. *)
EventsForFloor(role, debt) == IF role = "bw" THEN debt \div Unit ELSE debt

(* The events that pay for what the bucket lacks. *)
EventsFor(role, debt) == IF role = "bw" THEN debt \div Unit + 1 ELSE debt
Paid(role, events) == IF role = "bw" THEN events * Unit ELSE events

LimitOn(t, role) ==
  /\ spc[t] = "limit"
  /\ sload.role[t] = role
  /\ UNCHANGED <<sload, q, total, sem_vars, waiting>>

(* One event per call. *)
flowoplib_eventlimit(t) ==
  /\ LimitOn(t, "event")
  /\ need' = [need EXCEPT ![t] = 1]
  /\ Goto(t, "take")
  /\ UNCHANGED <<last, bucket>>

(* The other limits charge their bucket with all that was done since they   *)
(* were last called, and wait when it is overdrawn.  The first call only    *)
(* looks.                                                                   *)
Charge(t) ==
  LET left == bucket[t] - (total - last[t])
  IN /\ last' = [last EXCEPT ![t] = total]
     /\ \/ last[t] = 0 /\ Round(t) /\ UNCHANGED <<bucket, need>>
        \/ /\ last[t] # 0
           /\ bucket' = [bucket EXCEPT ![t] = left]
           /\ IF left >= 0 THEN Round(t) /\ UNCHANGED need
              ELSE /\ need' = [need EXCEPT ![t] = EventsFor(sload.role[t], -left)]
                   /\ Goto(t, "take")

flowoplib_iopslimit(t) == LimitOn(t, "iops") /\ Charge(t)
flowoplib_opslimit(t) == LimitOn(t, "ops") /\ Charge(t)
flowoplib_bwlimit(t) == LimitOn(t, "bw") /\ Charge(t)

(* The thread ends when the operations of all have reached the goal, or     *)
(* their bytes have passed it.                                              *)
Finish(t, enough) ==
  /\ IF enough THEN Goto(t, "done") ELSE Round(t)
  /\ UNCHANGED <<last, bucket, need>>

flowoplib_finishoncount(t) == LimitOn(t, "count") /\ Finish(t, total >= sload.goal)
flowoplib_finishonbytes(t) == LimitOn(t, "bytes") /\ Finish(t, total > sload.goal)

TakeEvents(t) ==
  LET role == sload.role[t]
  IN /\ spc[t] = "take"
     /\ t \notin waiting
     /\ \/ /\ q >= need[t]
           /\ q' = q - need[t]
           /\ bucket' = IF role = "event" THEN bucket
                        ELSE [bucket EXCEPT ![t] = @ + Paid(role, need[t])]
           /\ Round(t)
           /\ UNCHANGED waiting
        \/ /\ q < need[t]
           /\ waiting' = waiting \cup {t}
           /\ UNCHANGED <<q, bucket, spc, lap>>
     /\ UNCHANGED <<sload, total, last, need, sem_vars>>

(***************************************************************************)
(* Semaphores.  flowoplib_semblock makes room, then takes what was posted; *)
(* it goes on when that has not come in 600 seconds.                       *)
(***************************************************************************)
SemRaise(t) ==
  /\ spc[t] = "raise"
  /\ hw' = [hw EXCEPT ![t] = @ + sload.value]
  /\ Goto(t, "lower")
  /\ UNCHANGED <<sload, rate_vars, lw, posting, late, waiting>>

SemLower(t) ==
  /\ spc[t] = "lower"
  /\ \/ /\ lw[t] >= sload.value
        /\ lw' = [lw EXCEPT ![t] = @ - sload.value]
        /\ UNCHANGED late
     \/ /\ lw[t] < sload.value /\ sload.timeouts
        /\ late' = [late EXCEPT ![t].waits = @ + 1]
        /\ UNCHANGED lw
  /\ Round(t)
  /\ UNCHANGED <<sload, rate_vars, hw, posting, waiting>>

(* Mistake: a post takes room only if it finds some. *)
SemOpEager(g) ==
  /\ lw' = [lw EXCEPT ![g] = @ + sload.value]
  /\ hw' = [hw EXCEPT ![g] = IF @ >= sload.value THEN @ - sload.value ELSE @]
  /\ UNCHANGED late

(* The semop of a post: it adds, and a blocking one takes the room with it  *)
(* or nothing; EAGAIN, after 600 seconds, is no error.                      *)
SemOp(g) ==
  \/ /\ ~sload.blocking
     /\ lw' = [lw EXCEPT ![g] = @ + sload.value]
     /\ UNCHANGED <<hw, late>>
  \/ /\ sload.blocking /\ hw[g] >= sload.value
     /\ lw' = [lw EXCEPT ![g] = @ + sload.value]
     /\ hw' = [hw EXCEPT ![g] = @ - sload.value]
     /\ UNCHANGED late
  \/ /\ sload.blocking /\ hw[g] < sload.value /\ sload.timeouts
     /\ late' = [late EXCEPT ![g].posts = @ + 1]
     /\ UNCHANGED <<lw, hw>>

(* flowoplib_sempost posts target by target. *)
SemPost(t, g) ==
  /\ spc[t] = "post"
  /\ g \in posting[t]
  /\ SemOp(g)
  /\ IF posting[t] = {g} THEN posting' = [posting EXCEPT ![t] = Targets] /\ Round(t)
     ELSE posting' = [posting EXCEPT ![t] = @ \ {g}] /\ UNCHANGED <<spc, lap>>
  /\ UNCHANGED <<sload, rate_vars, waiting>>

(***************************************************************************)
(* flowoplib_block waits for the next wakeup of its flowop;                *)
(* flowoplib_wakeup wakes all that are waiting.                            *)
(***************************************************************************)
Block(t) ==
  /\ spc[t] = "block"
  /\ waiting' = waiting \cup {t}
  /\ Goto(t, "blocked")
  /\ UNCHANGED <<sload, rate_vars, sem_vars>>

Unblock(t) ==
  /\ spc[t] = "blocked"
  /\ t \notin waiting
  /\ Round(t)
  /\ UNCHANGED <<sload, rate_vars, sem_vars, waiting>>

Wakeup(t) ==
  /\ spc[t] = "wakeup"
  /\ waiting' = waiting \ {u \in waiting : spc[u] = "blocked"}
  /\ Round(t)
  /\ UNCHANGED <<sload, rate_vars, sem_vars>>

UserStep(t) == \/ flowop_endop(t) \/ flowoplib_eventlimit(t) \/ flowoplib_iopslimit(t)
               \/ flowoplib_opslimit(t) \/ flowoplib_bwlimit(t) \/ TakeEvents(t)
               \/ flowoplib_finishoncount(t) \/ flowoplib_finishonbytes(t)
               \/ SemRaise(t) \/ SemLower(t) \/ Block(t) \/ Unblock(t) \/ Wakeup(t)
               \/ \E g \in Targets : SemPost(t, g)

SyncNext == eventgen_thread \/ \E t \in Users : UserStep(t)

(* The generator runs for ever, and so does every thread that can. *)
SyncFair ==
  /\ WF_sync_vars(eventgen_thread)
  /\ \A t \in UNION {DOMAIN l.role : l \in SyncLoads} :
        WF_sync_vars(t \in Users /\ UserStep(t))

SyncSpec == SyncInit /\ [][SyncNext]_sync_vars /\ SyncFair

(***************************************************************************)
(* Properties.                                                             *)
(***************************************************************************)
(* A limit lets its thread go on only when everything done since its first  *)
(* call is paid for with events.                                            *)
RatesKept == \A t \in Limits : (spc[t] \in {"op", "done"}) => (bucket[t] >= 0)

(* The rounds a thread has completed, and the posts made to a target. *)
Rounds(t) == lap[t] - (IF spc[t] = "done" THEN 0 ELSE 1)
PostsTo(g) == MapThenSumSet(LAMBDA t : Rounds(t) + (IF g \in posting[t] THEN 0 ELSE 1),
                            Having({"sempost"}))

(* No post is lost or taken twice: what a semblock may still take is what   *)
(* was posted to it and did not time out, less what it has taken.  Blocking *)
(* posts and the room add up to the high water mark, so that posts get no   *)
(* further ahead of a target, but for each wait that timed out: its room    *)
(* stays.  A sempost that is not blocking takes no room (flowoplib_sempost, *)
(* flowoplib_semblock).                                                     *)
WaterKept ==
  \A g \in Targets :
    /\ lw[g] = sload.value * ((PostsTo(g) - late[g].posts) - (Rounds(g) - late[g].waits))
    /\ sload.blocking =>
         lw[g] + hw[g] = sload.highwater
                           + sload.value * (late[g].waits + (IF spc[g] = "lower" THEN 1 ELSE 0))

(* A thread that stops when enough has been done stops neither early nor    *)
(* late: when it ends the goal is reached, and past the goal every other    *)
(* such thread completes at most the operation it is in.                    *)
EnoughDone ==
  LET slack == sload.cost * Cardinality(Finishers)
  IN Finishers # {} =>
        /\ (\E t \in Finishers : spc[t] = "done") => total >= sload.goal
        /\ total <= sload.goal + slack

(* Every limit and every semaphore lets its thread go on, also where no     *)
(* wait times out: a thread makes all of its laps, and one that blocks is   *)
(* woken by a later wakeup.                                                 *)
SyncEnds ==
  /\ <>(\A t \in Users : sload.role[t] \in {"block", "wakeup"} \/ spc[t] = "done")
  /\ \A t \in UNION {{u \in DOMAIN l.role : l.role[u] = "block"} : l \in SyncLoads} :
        (t \in Users /\ spc[t] = "blocked") ~> (t \in Users /\ spc[t] # "blocked")
=============================================================================
