----------------------------- MODULE MCServices -----------------------------
(***************************************************************************)
(* The services a coroutine of the server leans on, each on an instance of *)
(* its own: the range arbiter (blocks of four bytes, three blocks, one     *)
(* coroutine with a worker of its own and two without), the pollers of a   *)
(* worker, the block device (addresses 0 and 1 are persistent memory, 2    *)
(* and above the SSD), the start and stop of the SPDK service, and the     *)
(* creation of the runtime.  A behaviour is one of one service; the others *)
(* stay in their initial state.                                            *)
(***************************************************************************)
EXTENDS RangeArbiter

CONSTANTS p1, p2, p3, Pollers, Batches, PmemLen, MergeLimit, MaxOffset, MaxFaults,
  Callers, Workers, MaxCalls, Parents, Children, Size

VARIABLES part,
  list, current, dirty, polled, owner, epoch, wpc, reading, unvisited, calling, exited,
  requests, step, at, outstanding, err, bytes, state, cb, answer, resumed, copied, faults,
  guard, caller, how, calls, published, held, stuck, svc, registered, pol, dfaults,
  runtimes, word, creator, thread, gate, abort, forked, rfaults

P == INSTANCE RuntimePollers WITH active <- polled, pc <- owner, moved <- epoch

B == INSTANCE BlockDevice WITH
       batch <- requests, pc <- step, scheduled <- resumed, moved <- copied

D == INSTANCE DeviceStart WITH pc <- caller, faults <- dfaults

R == INSTANCE RuntimeCreate WITH
       active <- runtimes, pc <- creator, worker <- thread, faults <- rfaults, MaxFaults <- 1

Call(o, n, m) == [offset |-> o, length |-> n, mode |-> m]

\* A write across blocks 0 and 1; a write of a part of block 0 or a read of one of
\* block 1; a read of block 1 too, an empty range and one that runs past the last byte.
MCCalls ==
    [p \in Procs |->
        CASE p = p1 -> {Call(2, 3, "write")}
          [] p = p2 -> {Call(0, 2, "write"), Call(4, 1, "read")}
          [] p = p3 -> {Call(4, 2, "read"), Call(0, 0, "read"), Call(11, 2, "write")}]

Transfer(off, buf, len) == [off |-> off, buf |-> buf, len |-> len, sync |-> FALSE]
Several(rs) == [batched |-> TRUE, requests |-> rs]
Single(q) == [batched |-> FALSE, requests |-> <<q>>]

MCBatches ==
  { Several(<<>>),
    Several(<<Transfer(0, 10, 1), Transfer(1, 11, 1), Transfer(2, 12, 1)>>),  \* merges to a split one
    Several(<<Transfer(0, 10, 1), Transfer(1, 21, 1)>>),    \* adjacent on the device only
    Several(<<Transfer(2, 10, 1), Transfer(4, 20, 1)>>),
    Several(<<Transfer(2, 10, 2), Transfer(4, 12, 2), Transfer(1, 30, 1)>>),  \* above the merge limit
    Several(<<Transfer(4, 10, 1), Transfer(9, 20, 1), Transfer(2, 30, 1)>>),  \* the second is outside
    Several(<<Transfer(2, 10, 1), Transfer(3, 20, 0), Transfer(6, 30, 1)>>),  \* one of no length
    Single(Transfer(1, 10, 2)), Single(Transfer(0, 10, 1)),
    Single(Transfer(9, 10, 1)), Single(Transfer(3, 10, 0)),
    Single([Transfer(0, 10, 0) EXCEPT !.sync = TRUE]) }     \* a flush

pvars == <<list, current, dirty, polled, owner, epoch, wpc, reading, unvisited, calling, exited>>
bvars == <<requests, step, at, outstanding, err, bytes, state, cb, answer, resumed, copied, faults>>
dvars == <<guard, caller, how, calls, published, held, stuck, svc, registered, pol, dfaults>>
rvars == <<runtimes, word, creator, thread, gate, abort, forked, rfaults>>
AllVars == <<part, vars, pvars, bvars, dvars, rvars>>

Arbiter == part = "arbiter" /\ Next /\ UNCHANGED <<part, pvars, bvars, dvars, rvars>>
Poller == part = "pollers" /\ P!Next /\ UNCHANGED <<part, vars, bvars, dvars, rvars>>
Device == part = "device" /\ B!Next /\ UNCHANGED <<part, vars, pvars, dvars, rvars>>
Starting == part = "start" /\ D!Next /\ UNCHANGED <<part, vars, pvars, bvars, rvars>>
Creating == part = "create" /\ R!Next /\ UNCHANGED <<part, vars, pvars, bvars, dvars>>

\* A worker may leave and a call may have returned: these services may stop.
Stopped == part # "arbiter" /\ UNCHANGED AllVars

MCInit ==
  /\ part \in {"arbiter", "pollers", "device", "start", "create"}
  /\ Init /\ P!Init /\ B!Init /\ D!Init /\ R!Init

MCNext == Arbiter \/ Poller \/ Device \/ Starting \/ Creating \/ Stopped

\* The fairness of the five modules.  Nothing of the arbiter, of the owners of pollers,
\* of the device or of a start is enabled in the initial state, where a service that is
\* not the one that runs stays; the worker's loop is, so it is fair only when it runs.
MCFairness ==
  /\ Fairness
  /\ B!Fairness
  /\ D!Fairness
  /\ R!Fairness
  /\ P!OwnersFair
  /\ WF_pvars(part = "pollers" /\ P!Worker)

MCSpec == MCInit /\ [][MCNext]_AllVars /\ MCFairness

-----------------------------------------------------------------------------
\* Services are there for as long as they are used, and no longer.  A poller whose
\* PollRegistration::reset has returned is not running and will not run, the worker goes
\* through no list that has been freed and a registered poller stays listed; a coroutine
\* that awaits transfers (await_suspend) goes on once, when no completion can touch its
\* frame any more, with a result that says what happened to the bytes it asked for; a
\* start of the SPDK service that fails on the way leaves nothing behind and one that
\* succeeds left no poller out (DeviceService::create, SpdkNvmeBackend::open); a process
\* has one Runtime, whatever its threads and a fork do (Runtime::create).
ServicesSafe == P!PollersSafe /\ B!ResumedRight /\ D!StartSafe /\ R!OneRuntime

\* Nobody waits for a service in vain: reset returns, also when the worker leaves; so
\* does every call of the block device, whichever of the submitter and the last completion
\* comes first; so do the start and the stop of the SPDK service, also when a poller could
\* not be set up; so does Runtime::create, next to other creators and after a fork.
ServicesEnd == P!ResetReturns /\ B!Returns /\ D!StartEnds /\ R!CreateReturns
=============================================================================
