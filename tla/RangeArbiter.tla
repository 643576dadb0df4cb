---------------------------- MODULE RangeArbiter ----------------------------
(***************************************************************************)
(* The per-inode range lock of Async/range_arbiter.cpp.                    *)
(*                                                                         *)
(* A coroutine asks for a byte range in read or write mode.  The request   *)
(* is rounded to blocks and decided on one owner worker.  A coroutine that *)
(* already runs there is decided in place.  Any other one pushes its       *)
(* request into the arbiter's inbox and races with the owner: the          *)
(* coroutine exchanges the request's phase to "parked" while the owner     *)
(* exchanges it to "granted", and whoever comes second acts.  Releases     *)
(* travel the same way.                                                    *)
(*                                                                         *)
(* The owner worker is one thread.  While it works through a drained batch *)
(* of the inbox no coroutine runs on it, so every step of a coroutine on   *)
(* the owner has the guard batch = <<>>.                                   *)
(***************************************************************************)
EXTENDS Naturals, Sequences

CONSTANTS
    Procs,          \* coroutines that use the arbiter
    Affine,         \* those with an owner worker or a pin of their own
    Calls,          \* Calls[p]: what p may ask for, records offset, length, mode
    Granularity,    \* bytes of a block (32 KiB in the code)
    MaxByte         \* the largest byte offset (2^64 - 1 in the code)

Modes == {"read", "write"}

ASSUME ConstantsAssumption ==
    /\ Affine \subseteq Procs
    /\ Calls \in [Procs -> SUBSET [offset : Nat, length : Nat, mode : Modes]]
    /\ Granularity \in Nat \ {0}
    /\ MaxByte \in Nat

Requests == [offset : Nat, length : Nat \ {0}, mode : Modes]

VARIABLES
    pc,         \* where the coroutine of each request is
    req,        \* its RangeRequest: the range and the mode
    worker,     \* "owner" or "other": the worker it runs on
    phase,      \* RangeWaitPhase of its request
    failed,     \* its request carries an error
    inbox,      \* requests pushed and not drained
    batch,      \* requests drained and not processed
    active,     \* requests that hold their range
    waiting,    \* requests in the waiting deque
    ahead,      \* for each waiting request, the waiting requests before it
    scheduled,  \* coroutines handed to the Runtime to be resumed
    aborted     \* std::terminate was reached

vars == <<pc, req, worker, phase, failed, inbox, batch, active, waiting,
          ahead, scheduled, aborted>>
-----------------------------------------------------------------------------
\* RangeAcquireAwaiter: the ranges it accepts and the blocks they cover.
ValidRange(r) ==
    /\ r.length # 0
    /\ r.offset + (r.length - 1) <= MaxByte
FirstBlock(r) == r.offset \div Granularity
\* Mistake: the length is rounded by itself.
LastBlockOfLength(r) == FirstBlock(r) + (r.length - 1) \div Granularity
LastBlock(r) == (r.offset + r.length - 1) \div Granularity

Overlaps(r, s) ==
    /\ FirstBlock(r) <= LastBlock(s)
    /\ FirstBlock(s) <= LastBlock(r)

Conflicts(r, s) ==
    /\ Overlaps(r, s)
    /\ r.mode = "write" \/ s.mode = "write"

\* A request is granted at once only when it conflicts with no holder and
\* with no waiter: a newcomer never overtakes.
CanGrantImmediately(r) ==
    \A q \in active \cup waiting : ~Conflicts(r, req[q])

\* What grant_waiters hands out after "left" gave its range back.  The scan
\* blocks a waiter that conflicts with a holder, with a waiter it has just
\* granted or with an earlier one it left in the deque.
Grantable(left) ==
    {p \in waiting : \A q \in (active \ {left}) \cup ahead[p] :
                        ~Conflicts(req[p], req[q])}

\* wake_granted moves an unpinned coroutine without an owner to the owner.
WorkerAfterGrant(p) == IF p \in Affine THEN worker[p] ELSE "owner"
-----------------------------------------------------------------------------
\* A RangeRequest before its fields are set.
FirstRequest == [offset |-> 0, length |-> 1, mode |-> "read"]

Init ==
    /\ pc = [p \in Procs |-> "idle"]
    /\ req = [p \in Procs |-> FirstRequest]
    /\ worker = [p \in Procs |-> "other"]
    /\ phase = [p \in Procs |-> "installing"]
    /\ failed = [p \in Procs |-> FALSE]
    /\ inbox = <<>>
    /\ batch = <<>>
    /\ active = {}
    /\ waiting = {}
    /\ ahead = [p \in Procs |-> {}]
    /\ scheduled = {}
    /\ aborted = FALSE

\* The exchange of a set of requests to "granted": a parked coroutine is
\* scheduled, one still installing finds out by itself, a request that was
\* granted before is a broken protocol.
Wake(P) ==
    /\ phase' = [p \in Procs |-> IF p \in P THEN "granted" ELSE phase[p]]
    /\ aborted' = (aborted \/ \E p \in P : phase[p] = "granted")

Parked(P) == {p \in P : phase[p] = "parked"}

NewRequest(p, r) ==
    /\ ValidRange(r)
    /\ req' = [req EXCEPT ![p] = r]
    /\ failed' = [failed EXCEPT ![p] = FALSE]

Enqueue(p) ==
    /\ inbox' = Append(inbox, p)
    /\ phase' = [phase EXCEPT ![p] = "installing"]

\* acquire() on the owner worker: decided in place, without a race.
AcquireOnOwner(p, r) ==
    /\ pc[p] = "idle"
    /\ batch = <<>>
    /\ NewRequest(p, r)
    /\ worker' = [worker EXCEPT ![p] = "owner"]
    /\ IF CanGrantImmediately(r)
       THEN /\ active' = active \cup {p}
            /\ phase' = [phase EXCEPT ![p] = "granted"]
            /\ pc' = [pc EXCEPT ![p] = "holding"]
            /\ UNCHANGED <<waiting, ahead>>
       ELSE /\ waiting' = waiting \cup {p}
            /\ ahead' = [ahead EXCEPT ![p] = waiting]
            /\ phase' = [phase EXCEPT ![p] = "parked"]
            /\ pc' = [pc EXCEPT ![p] = "suspended"]
            /\ UNCHANGED active
    /\ UNCHANGED <<inbox, batch, scheduled, aborted>>

\* acquire() elsewhere: the request is pushed and the owner notified.
AcquireOffOwner(p, r) ==
    /\ pc[p] = "idle"
    /\ NewRequest(p, r)
    /\ Enqueue(p)
    /\ worker' = [worker EXCEPT ![p] = "other"]
    /\ pc' = [pc EXCEPT ![p] = "installing"]
    /\ UNCHANGED <<batch, active, waiting, ahead, scheduled, aborted>>

\* Where a coroutine goes on after its request was decided.
Continuation(p) ==
    IF pc[p] \in {"installing", "suspended"} /\ ~failed[p]
    THEN "holding" ELSE "idle"

\* Mistake: the phase is stored, not exchanged.
ParkByStore(p) ==
    /\ pc[p] \in {"installing", "releasing"}
    /\ phase' = [phase EXCEPT ![p] = "parked"]
    /\ pc' = [pc EXCEPT ![p] = IF pc[p] = "installing"
                               THEN "suspended" ELSE "draining"]
    /\ UNCHANGED <<req, worker, failed, inbox, batch, active, waiting, ahead,
                   scheduled, aborted>>

\* The exchange to "parked" that ends await_suspend.
Park(p) ==
    /\ pc[p] \in {"installing", "releasing"}
    /\ IF phase[p] = "granted"
       THEN /\ pc' = [pc EXCEPT ![p] = Continuation(p)]
            /\ UNCHANGED <<phase, aborted>>
       ELSE /\ phase' = [phase EXCEPT ![p] = "parked"]
            /\ pc' = [pc EXCEPT ![p] = IF pc[p] = "installing"
                                       THEN "suspended" ELSE "draining"]
            /\ aborted' = (aborted \/ phase[p] # "installing")
    /\ UNCHANGED <<req, worker, failed, inbox, batch, active, waiting, ahead,
                   scheduled>>

\* The Runtime resumes a coroutine that was scheduled.
Resume(p) ==
    /\ p \in scheduled
    /\ worker[p] = "owner" => batch = <<>>
    /\ scheduled' = scheduled \ {p}
    /\ pc' = [pc EXCEPT ![p] = Continuation(p)]
    /\ UNCHANGED <<req, worker, phase, failed, inbox, batch, active, waiting,
                   ahead, aborted>>
-----------------------------------------------------------------------------
\* poll_once takes everything that was pushed, in push order.
Drain ==
    /\ batch = <<>>
    /\ inbox # <<>>
    /\ batch' = inbox
    /\ inbox' = <<>>
    /\ UNCHANGED <<pc, req, worker, phase, failed, active, waiting, ahead,
                   scheduled, aborted>>

NextInBatch(p, operation) ==
    /\ batch # <<>>
    /\ p = Head(batch)
    /\ pc[p] \in operation
    /\ batch' = Tail(batch)
    /\ UNCHANGED inbox

Acquiring == {"installing", "suspended"}
Releasing == {"releasing", "draining"}

\* Mistake: a request that must wait is pushed again instead of queued.
PollAcquireRetried(p) ==
    /\ batch # <<>> /\ p = Head(batch) /\ pc[p] \in Acquiring
    /\ batch' = Tail(batch)
    /\ IF CanGrantImmediately(req[p])
       THEN /\ active' = active \cup {p}
            /\ Wake({p})
            /\ scheduled' = scheduled \cup Parked({p})
            /\ worker' = [worker EXCEPT ![p] =
                            IF phase[p] = "parked" THEN WorkerAfterGrant(p)
                                                   ELSE @]
            /\ UNCHANGED inbox
       ELSE /\ inbox' = Append(inbox, p)
            /\ UNCHANGED <<active, phase, aborted, scheduled, worker>>
    /\ UNCHANGED <<pc, req, failed, waiting, ahead>>

\* poll_once on an acquire.
PollAcquire(p) ==
    /\ NextInBatch(p, Acquiring)
    /\ IF CanGrantImmediately(req[p])
       THEN /\ active' = active \cup {p}
            /\ Wake({p})
            /\ scheduled' = scheduled \cup Parked({p})
            /\ worker' = [worker EXCEPT ![p] =
                            IF phase[p] = "parked" THEN WorkerAfterGrant(p)
                                                   ELSE @]
            /\ UNCHANGED <<waiting, ahead>>
       ELSE /\ waiting' = waiting \cup {p}
            /\ ahead' = [ahead EXCEPT ![p] = waiting]
            /\ UNCHANGED <<active, phase, aborted, scheduled, worker>>
    /\ UNCHANGED <<pc, req, failed>>

\* poll_once on an acquire that runs out of memory: the request fails.
PollAcquireFails(p) ==
    /\ NextInBatch(p, Acquiring)
    /\ failed' = [failed EXCEPT ![p] = TRUE]
    /\ Wake({p})
    /\ scheduled' = scheduled \cup Parked({p})
    /\ UNCHANGED <<pc, req, worker, active, waiting, ahead>>

\* Mistake: a range nobody waits for is not given back.
GrantWaitersIfAny(p, G) ==
    /\ active' = IF G = {} THEN active ELSE (active \ {p}) \cup G
    /\ waiting' = waiting \ G
    /\ ahead' = [q \in Procs |-> IF q \in G THEN {} ELSE ahead[q] \ G]
    /\ worker' = [q \in Procs |-> IF q \in Parked(G) THEN WorkerAfterGrant(q)
                                                     ELSE worker[q]]

\* What grant_waiters and its wake-ups do, after p gave its range back.
GrantWaiters(p, G) ==
    /\ active' = (active \ {p}) \cup G
    /\ waiting' = waiting \ G
    /\ ahead' = [q \in Procs |-> IF q \in G THEN {} ELSE ahead[q] \ G]
    /\ worker' = [q \in Procs |-> IF q \in Parked(G) THEN WorkerAfterGrant(q)
                                                     ELSE worker[q]]

\* poll_once on a release: waiters first, then the releaser itself.
PollRelease(p) ==
    /\ NextInBatch(p, Releasing)
    /\ LET G == Grantable(p) IN
        /\ GrantWaiters(p, G)
        /\ Wake(G \cup {p})
        /\ scheduled' = scheduled \cup Parked(G \cup {p})
    /\ UNCHANGED <<pc, req, failed>>

\* The waiter that takes over the releaser's thread: the first granted one
\* that is parked and bound to the owner worker.
DirectHeirs(G) ==
    LET C == {q \in Parked(G) : WorkerAfterGrant(q) = "owner"}
    IN  {q \in C : ahead[q] \cap C = {}}

\* release() on the owner worker.  With a direct heir the releaser is
\* scheduled and the heir runs at once.
ReleaseOnOwner(p) ==
    /\ pc[p] = "holding"
    /\ worker[p] = "owner"
    /\ batch = <<>>
    /\ LET G == Grantable(p)
           H == DirectHeirs(G)
       IN  /\ GrantWaiters(p, G)
           /\ phase' = [q \in Procs |-> IF q \in G THEN "granted" ELSE
                                        IF q = p THEN "installing" ELSE phase[q]]
           /\ aborted' = (aborted \/ \E q \in G : phase[q] = "granted")
           /\ pc' = [q \in Procs |-> IF q \in H THEN Continuation(q) ELSE
                                     IF q # p THEN pc[q] ELSE
                                     IF H = {} THEN "idle" ELSE "handing_over"]
           /\ scheduled' = (scheduled \cup Parked(G) \cup
                              (IF H = {} THEN {} ELSE {p})) \ H
    /\ UNCHANGED <<req, failed, inbox, batch>>

\* release() elsewhere.
ReleaseOffOwner(p) ==
    /\ pc[p] = "holding"
    /\ worker[p] = "other"
    /\ Enqueue(p)
    /\ pc' = [pc EXCEPT ![p] = "releasing"]
    /\ UNCHANGED <<req, worker, failed, batch, active, waiting, ahead,
                   scheduled, aborted>>
-----------------------------------------------------------------------------
\* The arguments of acquire(); an invalid range is refused at once.
Input(p) == Calls[p]

Next ==
    \/ \E p \in Procs : \E r \in Input(p) : AcquireOnOwner(p, r)
    \/ \E p \in Procs : \E r \in Input(p) : AcquireOffOwner(p, r)
    \/ \E p \in Procs : Park(p)
    \/ \E p \in Procs : Resume(p)
    \/ Drain
    \/ \E p \in Procs : PollAcquire(p)
    \/ \E p \in Procs : PollAcquireFails(p)
    \/ \E p \in Procs : PollRelease(p)
    \/ \E p \in Procs : ReleaseOnOwner(p)
    \/ \E p \in Procs : ReleaseOffOwner(p)

Spec == Init /\ [][Next]_vars

\* A coroutine inside await_suspend runs on and the owner works its batch off
\* (weak fairness).  The worker loop polls once and then runs one coroutine,
\* so polls cannot keep a coroutine of the owner from running for ever (strong
\* fairness), and a holder gives its permit back: a permit destroyed while it
\* is owned ends the process.
Fairness ==
    /\ WF_vars(Drain)
    /\ \A p \in Procs :
        /\ WF_vars(Park(p))
        /\ WF_vars(PollAcquire(p) \/ PollAcquireFails(p) \/ PollRelease(p))
        /\ SF_vars(Resume(p))
        /\ SF_vars(ReleaseOnOwner(p) \/ ReleaseOffOwner(p))

-----------------------------------------------------------------------------
\* The variables keep their types.
TypeOK ==
    /\ pc \in [Procs -> {"idle", "installing", "suspended", "holding",
                        "releasing", "draining", "handing_over"}]
    /\ req \in [Procs -> Requests]
    /\ worker \in [Procs -> {"owner", "other"}]
    /\ phase \in [Procs -> {"installing", "parked", "granted"}]
    /\ failed \in [Procs -> BOOLEAN]
    /\ inbox \in Seq(Procs)
    /\ batch \in Seq(Procs)
    /\ active \subseteq Procs
    /\ waiting \subseteq Procs
    /\ ahead \in [Procs -> SUBSET Procs]
    /\ scheduled \subseteq Procs
    /\ aborted \in BOOLEAN

SharesBytes(r, s) ==
    /\ r.offset <= s.offset + s.length - 1
    /\ s.offset <= r.offset + r.length - 1

\* Two permits held at the same time never cover a common byte unless both
\* are reads, whichever workers acquired them and however the rounding to
\* blocks falls (conflicts, can_grant_immediately, grant_waiters).
MutualExclusion ==
    \A p, q \in active :
        p # q /\ SharesBytes(req[p], req[q])
            => req[p].mode = "read" /\ req[q].mode = "read"

\* A coroutine in possession of a permit is in the active list, up to the
\* moment its release is processed: release never fails with invalid_handle.
PermitIsActive ==
    \A p \in Procs :
        (pc[p] = "holding" \/ (pc[p] \in Releasing /\ phase[p] # "granted"))
            => p \in active

\* No std::terminate of the park/grant protocol is ever reached.
NoTerminate == ~aborted

\* The Runtime is asked to resume a coroutine only while it is suspended: not
\* while it still runs in await_suspend, and not a second time.
ResumeOnlySuspended ==
    \A p \in scheduled : pc[p] \in {"suspended", "draining", "handing_over"}

InQueue(p) ==
    \/ \E i \in 1 .. Len(inbox) : inbox[i] = p
    \/ \E i \in 1 .. Len(batch) : batch[i] = p

\* A suspended coroutine is resumed or still has its request to be decided:
\* the two exchanges of the phase lose no wake-up.
NoLostWakeup ==
    \A p \in Procs :
        /\ pc[p] = "suspended" => p \in scheduled \cup waiting \/ InQueue(p)
        /\ pc[p] = "draining" => p \in scheduled \/ InQueue(p)
        /\ pc[p] = "handing_over" => p \in scheduled

\* A request stays in the deque only behind a request it conflicts with: every
\* release hands out everything that it makes free.
WaitersAreBlocked ==
    \A p \in waiting :
        \E q \in active \cup ahead[p] : Conflicts(req[p], req[q])

\* A request is never granted past a conflicting one that came before it.
NoOvertake ==
    [][\A p \in active' \ active, q \in waiting \cap waiting' :
            Conflicts(req'[p], req'[q]) => p \in ahead[q]]_vars

\* Every request is decided: nobody starves behind a stream of newcomers.
EveryRequestDecided ==
    \A p \in Procs : pc[p] \in Acquiring ~> pc[p] \in {"holding", "idle"}
-----------------------------------------------------------------------------
\* The state of the abstract lock: a request is held from the moment the owner
\* puts it into the active list, and free again once it leaves it.
LockState ==
    [p \in Procs |->
        CASE p \in active -> "held"
          [] p \notin active /\ pc[p] \in Acquiring /\ ~failed[p] -> "wanted"
          [] OTHER -> "free"]

AllRequests == {FirstRequest} \cup UNION {Input(p) : p \in Procs}

Lock == INSTANCE RangeLock WITH Requests <- AllRequests,
                                state <- LockState, range <- req

\* The arbiter implements a reader/writer lock on byte ranges.
ImplementsRangeLock == Lock!Spec
=============================================================================
