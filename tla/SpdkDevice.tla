----------------------------- MODULE SpdkDevice -----------------------------
(***************************************************************************)
(* The NVMe device of KFS: the service that admits requests and stops the  *)
(* device (KernelFS/spdk_device_service.cpp) on the backend that runs them *)
(* (KernelFS/spdk_nvme_backend.cpp).  Any worker submits; each queue pair  *)
(* is polled by one worker, which takes requests from its inbox, issues    *)
(* their commands one at a time and calls back.  WriteCoordinator gives    *)
(* every write a ticket, so that overlapping writes run in the order of    *)
(* acceptance and a flush waits for the writes accepted before it.         *)
(*                                                                         *)
(* Data: the media is a function from byte to the write that wrote it.     *)
(* Each request is submitted once, by a worker of its own.                 *)
(***************************************************************************)
EXTENDS NvmePlan, FiniteSets

CONSTANTS
  Requests, QueuePairs, AdminPoller,
  Kind, PollerOf,  \* request -> "read", "write", "flush"; its poller
  Reachable,       \* requests whose buffer the device can reach directly
  Capacity,        \* bytes of the namespace
  Buffers,         \* bounce buffers of a poller
  QueueDepth,      \* commands a queue pair takes
  Persistent,      \* writes are durable when they complete (completion, fua)
  None,            \* no write
  Loads,           \* the loads: [pollers, requests, offset, length, stop, faults]
  MaxFaults

ASSUME SpdkAssumption ==
  /\ AdminPoller \in QueuePairs /\ None \notin Requests
  /\ Buffers \in Nat \ {0} /\ QueueDepth \in Nat \ {0} /\ MaxFaults \in Nat
  /\ \A l \in Loads : /\ AdminPoller \in l.pollers /\ l.pollers \subseteq QueuePairs
                       /\ l.requests \subseteq Requests /\ l.stop \in BOOLEAN
                       /\ \A r \in l.requests : PollerOf[r] \in l.pollers /\ l.offset[r] \in 0..Top /\ l.length[r] \in 0..Top

VARIABLES
  load,        \* what is submitted, whether the device is stopped, which faults happen
  accepting_, life, registered, closed,   \* DeviceService
  accepting, stopping,                    \* the backend
  spc,         \* request -> step of its submission
  before,      \* flush -> writes accepted before it was called
  inbox, active,  \* poller -> requests
  pol,         \* poller -> step of poll() and state of the queue pair
  rq,          \* request -> stage, current segment, error, bounce buffer, callback
  tickets, seqno, last_sequence, fence,   \* WriteCoordinator
  dev,         \* request -> its command at the controller
  held,        \* request -> what its bounce buffer holds
  bytes,       \* byte -> the write that wrote it last
  unflushed,   \* <<write, segment>> still in a volatile cache
  faults

service == <<load, accepting_, life, registered, closed>>
backend == <<accepting, stopping>>
submission == <<spc, before>>
queues == <<inbox, active>>
writes == <<tickets, seqno, last_sequence, fence>>
media == <<held, bytes, unflushed>>
vars == <<service, backend, submission, queues, pol, rq, writes, dev, media, faults>>

Pollers == load.pollers
Offset == load.offset
Length == load.length
Plans == [isWrite \in BOOLEAN, offset \in 0..Top, length \in 0..Top |->
            plan_io(isWrite, offset, length)]
PlanOf(r) == Plans[Kind[r] = "write", Offset[r], Length[r]]
Segs(r) == IF Kind[r] = "flush" THEN <<>> ELSE PlanOf(r).segments
Seg(r) == Segs(r)[rq[r].seg]
DeviceBytes(s) == s.device_offset..(s.device_offset + s.device_length - 1)
UserBytes(r, s) == (Offset[r] + s.user_offset)..(Offset[r] + s.user_offset + s.user_length - 1)
Touched(r) == PlanOf(r).physical_begin..(PlanOf(r).physical_end - 1)

Elements(q) == {q[i] : i \in DOMAIN q}
Without(q, r) == SelectSeq(q, LAMBDA x : x # r)

Init ==
  /\ load \in Loads
  /\ accepting_ = TRUE /\ life = "running" /\ registered = TRUE /\ closed = FALSE
  /\ accepting = TRUE /\ stopping = FALSE
  /\ spc = [r \in Requests |-> "idle"] /\ before = [r \in Requests |-> {}]
  /\ inbox = [p \in Pollers |-> <<>>] /\ active = [p \in Pollers |-> <<>>]
  /\ pol = [p \in Pollers |-> [pc |-> "out", at |-> 1, error |-> FALSE, hasty |-> FALSE,
                               ready |-> FALSE, failed |-> FALSE, stopped |-> FALSE,
                               reported |-> FALSE]]
  /\ rq = [r \in Requests |-> [stage |-> "ready", seg |-> 1, bad |-> FALSE,
                               bounce |-> FALSE, called |-> "no"]]
  /\ tickets = <<>> /\ seqno = [r \in Requests |-> 0] /\ last_sequence = 0
  /\ fence = [r \in Requests |-> 0]
  /\ dev = [r \in Requests |-> "none"]
  /\ held = [r \in Requests |-> <<>>] /\ bytes = [b \in 0..(Capacity - 1) |-> None]
  /\ unflushed = {} /\ faults = 0

Fault(kind) == kind \in load.faults /\ faults < MaxFaults /\ faults' = faults + 1

----------------------------------------------------------------------------
(***************************************************************************)
(* submit_read, submit_write, submit_flush: submit_admitted of the service *)
(* around the submission to the backend.                                   *)
(***************************************************************************)
Goto(r, step) == spc' = [spc EXCEPT ![r] = step]

\* inside submit_admitted (active_submitters_) and inside enqueue (submitting)
ActiveSubmitters ==
  {r \in Requests : spc[r] \in {"counted", "inside", "checked", "ticketed", "entered", "pushing", "pushed"}}
Submitting == {r \in Requests : spc[r] \in {"entered", "pushing", "pushed"}}

LoadAccepting(r) ==
  /\ r \in load.requests /\ spc[r] = "idle" /\ Goto(r, IF accepting_ THEN "loaded" ELSE "refused")
  /\ before' = [before EXCEPT ![r] = {w \in Requests : Kind[w] = "write" /\ spc[w] = "queued"}]
  /\ UNCHANGED <<service, backend, queues, pol, rq, writes, dev, media, faults>>

CountSubmitter(r) ==
  /\ spc[r] = "loaded" /\ Goto(r, "counted")
  /\ UNCHANGED <<service, backend, before, queues, pol, rq, writes, dev, media, faults>>

RecheckAccepting(r) ==
  /\ spc[r] = "counted" /\ Goto(r, IF accepting_ THEN "inside" ELSE "refused")
  /\ UNCHANGED <<service, backend, before, queues, pol, rq, writes, dev, media, faults>>

Valid(r) ==
  \/ Kind[r] = "flush"
  \/ PlanOf(r).ok /\ (Length[r] = 0 \/ PlanOf(r).physical_end <= Capacity)

(* the checks of the backend, and plan_io *)
CheckBackend(r) ==
  /\ spc[r] = "inside"
  /\ Goto(r, IF accepting /\ ~pol[PollerOf[r]].failed /\ Valid(r) THEN "checked" ELSE "refused")
  /\ UNCHANGED <<service, backend, before, queues, pol, rq, writes, dev, media, faults>>

HasTicket(r) == Kind[r] = "write" /\ Length[r] > 0

(* Mistake: a flush takes no fence *)
TakeTicketFence(r) ==
  /\ spc[r] = "checked" /\ Goto(r, "ticketed")
  /\ IF HasTicket(r)
     THEN /\ last_sequence' = last_sequence + 1 /\ seqno' = [seqno EXCEPT ![r] = last_sequence + 1]
          /\ tickets' = Append(tickets, r) /\ UNCHANGED fence
     ELSE UNCHANGED <<tickets, seqno, last_sequence, fence>>
  /\ UNCHANGED <<service, backend, before, queues, pol, rq, dev, media, faults>>

(* WriteCoordinator::accept for a write, capture_fence for a flush *)
TakeTicket(r) ==
  /\ spc[r] = "checked" /\ Goto(r, "ticketed")
  /\ IF HasTicket(r)
     THEN /\ last_sequence' = last_sequence + 1 /\ seqno' = [seqno EXCEPT ![r] = last_sequence + 1]
          /\ tickets' = Append(tickets, r) /\ UNCHANGED fence
     ELSE /\ fence' = [fence EXCEPT ![r] = IF Kind[r] = "flush" THEN last_sequence ELSE 0]
          /\ UNCHANGED <<tickets, seqno, last_sequence>>
  /\ UNCHANGED <<service, backend, before, queues, pol, rq, dev, media, faults>>

EnterEnqueue(r) ==
  /\ spc[r] = "ticketed" /\ Goto(r, "entered")
  /\ UNCHANGED <<service, backend, before, queues, pol, rq, writes, dev, media, faults>>

(* a request that enqueue refuses gives its ticket back *)
AdmitEnqueue(r) ==
  /\ spc[r] = "entered" /\ Goto(r, IF accepting THEN "pushing" ELSE "refused")
  /\ tickets' = IF accepting THEN tickets ELSE Without(tickets, r)
  /\ UNCHANGED <<service, backend, before, queues, pol, rq, seqno, last_sequence, fence, dev, media, faults>>

PushInbox(r) ==
  /\ spc[r] = "pushing" /\ Goto(r, "pushed")
  /\ inbox' = [inbox EXCEPT ![PollerOf[r]] = Append(@, r)]
  /\ UNCHANGED <<service, backend, before, active, pol, rq, writes, dev, media, faults>>

LeaveSubmit(r) ==
  /\ spc[r] = "pushed" /\ Goto(r, "queued")
  /\ UNCHANGED <<service, backend, before, queues, pol, rq, writes, dev, media, faults>>

Submit(r) ==
  \/ LoadAccepting(r) \/ CountSubmitter(r) \/ RecheckAccepting(r) \/ CheckBackend(r)
  \/ TakeTicket(r) \/ EnterEnqueue(r) \/ AdmitEnqueue(r) \/ PushInbox(r) \/ LeaveSubmit(r)

----------------------------------------------------------------------------
(***************************************************************************)
(* The controller executes a command at any time after it was issued.      *)
(***************************************************************************)
Inflight == {"read_inflight", "direct_read_inflight", "rmw_read_inflight", "write_inflight",
             "direct_write_inflight", "flush_inflight"}

WriteBytes(r) ==
  LET s == Seg(r) IN
  [b \in DOMAIN bytes |-> IF b \notin DeviceBytes(s) THEN bytes[b]
                          ELSE IF b \in UserBytes(r, s) THEN r ELSE held[r][b]]

Execute(r) ==
  /\ dev[r] = "sent" /\ dev' = [dev EXCEPT ![r] = "posted"]
  /\ CASE rq[r].stage = "rmw_read_inflight" ->
            held' = [held EXCEPT ![r] = [b \in DeviceBytes(Seg(r)) |-> bytes[b]]]
            /\ UNCHANGED <<bytes, unflushed>>
       [] rq[r].stage \in {"write_inflight", "direct_write_inflight"} ->
            bytes' = WriteBytes(r) /\ UNCHANGED held
            /\ unflushed' = IF Persistent THEN unflushed ELSE unflushed \cup {<<r, rq[r].seg>>}
       [] rq[r].stage = "flush_inflight" -> unflushed' = {} /\ UNCHANGED <<held, bytes>>
       [] OTHER -> UNCHANGED media
  /\ UNCHANGED <<service, backend, submission, queues, pol, rq, writes, faults>>

ExecuteBadly(r) ==
  /\ dev[r] = "sent" /\ Fault("status") /\ dev' = [dev EXCEPT ![r] = "bad"]
  /\ UNCHANGED <<service, backend, submission, queues, pol, rq, writes, media>>

----------------------------------------------------------------------------
(***************************************************************************)
(* poll() of one poller.                                                   *)
(***************************************************************************)
Step(p, step) == pol' = [pol EXCEPT ![p].pc = step]

(* Mistake: a failed request keeps its bounce buffer *)
FailRequestHolding(x) == [x EXCEPT !.bad = TRUE, !.stage = "done"]

FailRequest(x) == [x EXCEPT !.bounce = FALSE, !.bad = TRUE, !.stage = "done"]

FinishSegment(r, x) ==
  [x EXCEPT !.bounce = FALSE, !.seg = @ + 1,
            !.stage = IF x.seg = Len(Segs(r)) THEN "done" ELSE "ready"]

(* command_complete *)
CommandComplete(r) ==
  IF dev[r] = "bad" THEN FailRequest(rq[r])
  ELSE CASE rq[r].stage = "rmw_read_inflight" -> [rq[r] EXCEPT !.stage = "rmw_write_ready"]
         [] rq[r].stage = "flush_inflight" -> [rq[r] EXCEPT !.stage = "done"]
         [] OTHER -> FinishSegment(r, rq[r])

(* process_completions: everything the controller has posted *)
Posted(p) == {r \in Elements(active[p]) : dev[r] \in {"posted", "bad"}}
Reaped(p) == [r \in Requests |-> IF r \in Posted(p) THEN CommandComplete(r) ELSE rq[r]]
ReapedDev(p) == [r \in Requests |-> IF r \in Posted(p) THEN "none" ELSE dev[r]]

(* fail_poller: freeing the queue pair aborts what is in flight; fail_all *)
FailAll(p) == [r \in Requests |-> IF r \in Elements(active[p]) THEN FailRequest(rq[r]) ELSE rq[r]]
Aborted(p) == [r \in Requests |-> IF r \in Elements(active[p]) THEN "none" ELSE dev[r]]

FailPoller(p, hasty) ==
  /\ rq' = FailAll(p) /\ dev' = Aborted(p)
  /\ pol' = [pol EXCEPT ![p].pc = "finish", ![p].error = TRUE, ![p].hasty = hasty,
                        ![p].failed = TRUE, ![p].ready = FALSE]

(* drain_incoming; a stopped poller returns at once *)
PollEnter(p) ==
  /\ registered /\ pol[p].pc = "out"
  /\ IF pol[p].stopped THEN Step(p, "report") /\ UNCHANGED queues
     ELSE /\ Step(p, IF pol[p].failed THEN "failed" ELSE IF pol[p].ready THEN "reap" ELSE "init")
          /\ active' = [active EXCEPT ![p] = @ \o inbox[p]] /\ inbox' = [inbox EXCEPT ![p] = <<>>]
  /\ UNCHANGED <<service, backend, submission, rq, writes, dev, media, faults>>

(* a poller that has failed fails what it finds *)
PollFailed(p) ==
  /\ pol[p].pc = "failed" /\ rq' = FailAll(p)
  /\ pol' = [pol EXCEPT ![p].pc = "finish", ![p].error = TRUE, ![p].hasty = TRUE]
  /\ UNCHANGED <<service, backend, submission, queues, writes, dev, media, faults>>

StopPoller(p, step) == pol' = [pol EXCEPT ![p].pc = step, ![p].ready = FALSE, ![p].stopped = TRUE]

(* no_pending_work looks at the queues first and at submitting afterwards *)
QueuesEmpty(p) == active[p] = <<>> /\ inbox[p] = <<>>

PollInit(p) ==
  /\ pol[p].pc = "init" /\ Step(p, IF stopping /\ QueuesEmpty(p) THEN "initlast" ELSE "setup")
  /\ UNCHANGED <<service, backend, submission, queues, rq, writes, dev, media, faults>>

PollInitLast(p) ==
  /\ pol[p].pc = "initlast"
  /\ IF Submitting = {} THEN StopPoller(p, "report") ELSE Step(p, "setup")
  /\ UNCHANGED <<service, backend, submission, queues, rq, writes, dev, media, faults>>

(* initialize_poller *)
PollSetup(p) ==
  /\ pol[p].pc = "setup"
  /\ \/ pol' = [pol EXCEPT ![p].pc = "reap", ![p].ready = TRUE] /\ UNCHANGED <<rq, dev, faults>>
     \/ Fault("init") /\ FailPoller(p, TRUE)
  /\ UNCHANGED <<service, backend, submission, queues, writes, media>>

(* admin completions on poller 0, then the completions of the queue pair *)
PollReap(p) ==
  /\ pol[p].pc = "reap"
  /\ \/ /\ p = AdminPoller /\ Fault("admin") /\ FailPoller(p, FALSE)
        /\ accepting' = FALSE /\ stopping' = TRUE
     \/ Fault("qpair") /\ FailPoller(p, FALSE) /\ UNCHANGED backend
     \/ /\ rq' = Reaped(p) /\ dev' = ReapedDev(p)
        /\ pol' = [pol EXCEPT ![p].pc = "drive", ![p].at = 1] /\ UNCHANGED <<backend, faults>>
  /\ UNCHANGED <<service, submission, queues, writes, media>>

----------------------------------------------------------------------------
(***************************************************************************)
(* drive_request for the request at position at of the active list.        *)
(***************************************************************************)
Overlap(r, w) == Touched(r) \cap Touched(w) # {}

(* Mistake: every ticket is granted at once *)
TryGrantAny(r) == TRUE

(* try_grant: no earlier ticket overlaps.  A granted ticket stays so. *)
TryGrant(r) ==
  \A i, j \in DOMAIN tickets : tickets[j] = r /\ i < j => ~Overlap(r, tickets[i])

FenceReady(r) == \A i \in DOMAIN tickets : seqno[tickets[i]] > fence[r]

MayDrive(r) ==
  /\ rq[r].stage \in {"ready", "rmw_write_ready"}
  /\ Kind[r] = "flush" => FenceReady(r)
  /\ HasTicket(r) => TryGrant(r)

Direct(r) == LET s == Seg(r) IN
  ~s.read_before_write /\ s.bounce_offset = 0 /\ s.user_length = s.device_length /\ r \in Reachable

NextStage(r) ==
  CASE Kind[r] = "flush" -> "flush_inflight"
    [] Kind[r] = "read" -> IF Direct(r) THEN "direct_read_inflight" ELSE "read_inflight"
    [] OTHER -> IF Direct(r) THEN "direct_write_inflight"
                ELSE IF rq[r].stage = "ready" /\ Seg(r).read_before_write THEN "rmw_read_inflight"
                ELSE "write_inflight"

UsesBounce(r) == Kind[r] # "flush" /\ ~Direct(r)

(* Mistake: one bounce buffer too few is given out *)
BounceFreeSpare(p) == Cardinality({q \in Elements(active[p]) : rq[q].bounce}) < Buffers - 1

BounceFree(p) == Cardinality({q \in Elements(active[p]) : rq[q].bounce}) < Buffers
Commands(p, d) == Cardinality({q \in Elements(active[p]) : d[q] # "none"})

(* submit_with_retry: a full queue pair is reaped once; when it is still full
   the request keeps its bounce buffer and waits for the next poll. *)
Issue(p, r) ==
  LET full == Commands(p, dev) >= QueueDepth
      base == IF full THEN Reaped(p) ELSE rq
      slots == IF full THEN ReapedDev(p) ELSE dev
      held_ == [base EXCEPT ![r].bounce = UsesBounce(r)]
  IN IF Commands(p, slots) < QueueDepth
     THEN rq' = [held_ EXCEPT ![r].stage = NextStage(r)] /\ dev' = [slots EXCEPT ![r] = "sent"]
     ELSE rq' = held_ /\ dev' = slots

DriveOne(p, r) ==
  CASE ~MayDrive(r) -> UNCHANGED <<rq, dev, faults>>
    [] MayDrive(r) /\ Kind[r] # "flush" /\ rq[r].seg > Len(Segs(r)) ->
         rq' = [rq EXCEPT ![r].stage = "done"] /\ UNCHANGED <<dev, faults>>
    [] OTHER ->
         IF UsesBounce(r) /\ ~rq[r].bounce /\ ~BounceFree(p) THEN UNCHANGED <<rq, dev, faults>>
         ELSE \/ Issue(p, r) /\ UNCHANGED faults
              \/ /\ Fault("submit") /\ UNCHANGED dev
                 /\ rq' = [rq EXCEPT ![r] = FailRequest(rq[r])]

PollDrive(p) ==
  /\ pol[p].pc = "drive"
  /\ IF pol[p].at > Len(active[p])
     THEN Step(p, "finish") /\ UNCHANGED <<rq, dev, faults>>
     ELSE \/ DriveOne(p, active[p][pol[p].at]) /\ pol' = [pol EXCEPT ![p].at = @ + 1]
          \/ Commands(p, dev) >= QueueDepth /\ Fault("qpair") /\ FailPoller(p, FALSE)
  /\ UNCHANGED <<service, backend, submission, queues, writes, media>>

----------------------------------------------------------------------------
Done(p) == {i \in DOMAIN active[p] : rq[active[p][i]].stage = "done"}

(* finish_requests, one request: give back its ticket, call back *)
FinishOne(p) ==
  LET i == CHOOSE k \in Done(p) : \A m \in Done(p) : k <= m
      r == active[p][i]
  IN /\ active' = [active EXCEPT ![p] = Without(@, r)] /\ tickets' = Without(tickets, r)
     /\ rq' = [rq EXCEPT ![r].called = IF rq[r].bad THEN "error" ELSE "ok"]

(* the failed paths stop without looking for pending work *)
PollFinish(p) ==
  /\ pol[p].pc = "finish"
  /\ IF Done(p) # {} THEN FinishOne(p) /\ UNCHANGED pol
     ELSE /\ IF pol[p].hasty
             THEN IF stopping THEN StopPoller(p, "report") ELSE Step(p, "report")
             ELSE Step(p, "stop")
          /\ UNCHANGED <<active, tickets, rq>>
  /\ UNCHANGED <<service, backend, submission, inbox, seqno, last_sequence, fence, dev, media, faults>>

PollStop(p) ==
  /\ pol[p].pc = "stop" /\ Step(p, IF stopping /\ QueuesEmpty(p) THEN "last" ELSE "report")
  /\ UNCHANGED <<service, backend, submission, queues, rq, writes, dev, media, faults>>

PollLast(p) ==
  /\ pol[p].pc = "last"
  /\ IF Submitting = {} THEN StopPoller(p, "report") ELSE Step(p, "report")
  /\ UNCHANGED <<service, backend, submission, queues, rq, writes, dev, media, faults>>

(* poll_from_runtime: an error closes the device to new requests *)
PollReport(p) ==
  /\ pol[p].pc = "report"
  /\ pol' = [pol EXCEPT ![p].pc = "out", ![p].error = FALSE, ![p].hasty = FALSE,
                        ![p].reported = pol[p].stopped]
  /\ IF pol[p].error THEN accepting_' = FALSE /\ accepting' = FALSE /\ stopping' = TRUE
                     ELSE UNCHANGED <<accepting_, accepting, stopping>>
  /\ UNCHANGED <<load, life, registered, closed, submission, queues, rq, writes, dev, media, faults>>

Poll(p) ==
  \/ PollEnter(p) \/ PollFailed(p) \/ PollInit(p) \/ PollInitLast(p) \/ PollSetup(p) \/ PollReap(p)
  \/ PollDrive(p) \/ PollFinish(p) \/ PollStop(p) \/ PollLast(p) \/ PollReport(p)

----------------------------------------------------------------------------
(***************************************************************************)
(* orchfs_spdk_device_stop.                                                *)
(***************************************************************************)
StopBegin ==
  /\ load.stop /\ life = "running" /\ life' = "draining" /\ accepting_' = FALSE
  /\ UNCHANGED <<load, registered, closed, backend, submission, queues, pol, rq, writes, dev, media, faults>>

(* after the last active submitter: request_stop *)
StopDrained ==
  /\ life = "draining" /\ ActiveSubmitters = {} /\ life' = "waiting"
  /\ accepting' = FALSE /\ stopping' = TRUE
  /\ UNCHANGED <<load, accepting_, registered, closed, submission, queues, pol, rq, writes, dev, media, faults>>

(* every poller has reported: runtime_registrations_.clear() *)
StopUnregister ==
  /\ life = "waiting" /\ \A p \in Pollers : pol[p].reported
  /\ life' = "quiescing" /\ registered' = FALSE
  /\ UNCHANGED <<load, accepting_, closed, backend, submission, queues, pol, rq, writes, dev, media, faults>>

(* which waits for the callbacks that are running *)
StopQuiesced ==
  /\ life = "quiescing" /\ life' = "closing"
  /\ \A p \in Pollers : pol[p].pc = "out"
  /\ UNCHANGED <<load, accepting_, registered, closed, backend, submission, queues, pol, rq, writes, dev, media, faults>>

(* close detaches the controller, or fails; either way stop is over for good *)
StopClose ==
  /\ life = "closing" /\ life' = "stopped"
  /\ \/ closed' = TRUE /\ UNCHANGED faults
     \/ Fault("detach") /\ UNCHANGED closed
  /\ UNCHANGED <<load, accepting_, registered, backend, submission, queues, pol, rq, writes, dev, media>>

Stop == StopBegin \/ StopDrained \/ StopUnregister \/ StopQuiesced \/ StopClose

Next ==
  \/ \E r \in Requests : Submit(r) \/ Execute(r) \/ ExecuteBadly(r)
  \/ \E p \in Pollers : Poll(p)
  \/ Stop

Spec == Init /\ [][Next]_vars

(* workers run, the controller answers, and the one that has begun to stop goes on;
   submissions and commands are finitely many, so none of them is left out *)
LiveSpec ==
  /\ Spec
  /\ WF_vars(\E r \in Requests : Submit(r)) /\ WF_vars(\E r \in Requests : Execute(r))
  /\ \A p \in QueuePairs : WF_vars(p \in Pollers /\ Poll(p))
  /\ WF_vars(StopDrained \/ StopUnregister \/ StopQuiesced \/ StopClose)

----------------------------------------------------------------------------
(* Properties *)

Stages == Inflight \cup {"ready", "rmw_write_ready", "done"}

(* Submitters, pollers, requests and the service are in legal states, and a
   request is in one queue of its poller at most. *)
TypeOK ==
  /\ life \in {"running", "draining", "waiting", "quiescing", "closing", "stopped"}
  /\ \A r \in Requests :
       /\ rq[r].stage \in Stages /\ rq[r].seg \in 1..(Len(Segs(r)) + 1)
       /\ rq[r].called \in {"no", "ok", "error"}
       /\ dev[r] # "none" => rq[r].stage \in Inflight
       /\ fence[r] <= last_sequence /\ seqno[r] <= last_sequence
  /\ \A p \in Pollers :
       /\ pol[p].reported => pol[p].stopped
       /\ LET q == active[p] \o inbox[p] IN
            \A i, j \in DOMAIN q : PollerOf[q[i]] = p /\ (q[i] = q[j] => i = j)

Accepted == {w \in Requests : seqno[w] > 0 /\ spc[w] # "refused"}
Writers(b) == {w \in Accepted : b \in Offset[w]..(Offset[w] + Length[w] - 1)}

(* Overlapping writes serialize in the order of acceptance, read-modify-write
   included: when all accepted writes of an LBA have succeeded, each of its
   bytes holds the last write of that byte, whatever the writes of its
   neighbours did. *)
LastAcceptedWins ==
  \A b \in DOMAIN bytes :
    Writers(b) # {} /\ (\A w \in Accepted : b \in Touched(w) => rq[w].called = "ok")
      => bytes[b] = CHOOSE w \in Writers(b) : \A x \in Writers(b) : seqno[x] <= seqno[w]

(* A flush that succeeds has made every write durable whose submission was
   accepted before the flush was called, whichever poller the write is on. *)
FlushCovers ==
  \A f \in Requests : Kind[f] = "flush" /\ rq[f].called = "ok" =>
    \A w \in before[f] :
      /\ rq[w].called # "no"
      /\ \A i \in DOMAIN Segs(w) : <<w, i>> \notin unflushed

(* What a success of a write or of a flush promises of the device. *)
WritesKept == LastAcceptedWins /\ FlushCovers

(* A request that has been called back has returned its bounce buffer, its
   ticket and its command slot, however it ended. *)
NothingKept ==
  \A r \in Requests : rq[r].called # "no" =>
    ~rq[r].bounce /\ r \notin Elements(tickets) /\ dev[r] = "none"

(* A ticket belongs to a request that is being submitted or will be polled. *)
TicketsOwned ==
  \A r \in Elements(tickets) :
    r \in Submitting \/ spc[r] = "ticketed"
      \/ r \in Elements(active[PollerOf[r]]) \cup Elements(inbox[PollerOf[r]])

(* Nobody is in the backend when it is destroyed. *)
CloseAlone ==
  closed => /\ \A r \in ActiveSubmitters : spc[r] = "counted"
            /\ \A p \in Pollers : pol[p].pc = "out"

(* While no queue pair has failed, a poller that has stopped has called back
   every request it was given: nothing reaches its inbox afterwards. *)
DrainedWhenStopped ==
  (\A p \in Pollers : ~pol[p].failed) => \A p \in Pollers : pol[p].stopped => QueuesEmpty(p)

(* The commands of a request move every byte of its range once, in order: none
   is dropped or moved twice, and each goes to its own place on the device. *)
MovesRange == \A r \in load.requests : PlanOf(r).ok =>
  LET segs == Segs(r)
      Begin(i) == IF i = 1 THEN 0 ELSE segs[i-1].user_offset + segs[i-1].user_length
  IN /\ \A i \in DOMAIN segs :
          /\ segs[i].user_length > 0 /\ segs[i].user_offset = Begin(i)
          /\ segs[i].device_offset + segs[i].bounce_offset = Offset[r] + segs[i].user_offset
     /\ Kind[r] # "flush" => Begin(Len(segs) + 1) = Length[r]

(* They are whole LBAs, none above the transfer limit, and together exactly
   the range that the write ticket reserves (physical_begin, physical_end),
   which does not pass the largest offset. *)
CoversReserved == \A r \in load.requests : PlanOf(r).ok /\ Segs(r) # <<>> =>
  LET segs == Segs(r)
      End(i) == IF i = 0 THEN PlanOf(r).physical_begin
                ELSE segs[i].device_offset + segs[i].device_length
  IN /\ \A i \in DOMAIN segs :
          /\ segs[i].device_offset % Lba = 0 /\ segs[i].device_length % Lba = 0
          /\ segs[i].device_length \in Lba..MaxTransfer
          /\ segs[i].device_offset = End(i - 1)
     /\ End(Len(segs)) = PlanOf(r).physical_end /\ PlanOf(r).physical_end <= Top

(* A write reads first exactly the LBAs that hold bytes it must not change. *)
ReadsPartial == \A r \in load.requests : \A i \in DOMAIN Segs(r) :
  LET s == Segs(r)[i]
  IN s.read_before_write <=> Kind[r] = "write" /\ DeviceBytes(s) # UserBytes(r, s)

Outstanding == {r \in Requests : spc[r] = "queued" /\ rq[r].called = "no"}

(* Every accepted request is called back, unless a queue pair fails. *)
CalledBack == Outstanding # {} ~> Outstanding = {} \/ \E p \in Pollers : pol[p].failed

(* A stop of the device ends, whatever fails. *)
StopEnds == life = "draining" ~> life = "stopped"

(* What a request held is given back when it is called back, whether it
   succeeds, fails or is stopped, and a poller or a backend goes away only
   when nobody needs it any more. *)
Released == TypeOK /\ NothingKept /\ TicketsOwned /\ CloseAlone /\ DrainedWhenStopped

(* The commands that plan_io makes of a range: each byte once and in place, whole
   LBAs within the limit that the write's ticket covers, and a read first
   exactly where bytes must be kept. *)
PlanRight == MovesRange /\ CoversReserved /\ ReadsPartial

(* Every accepted request is called back and every stop ends. *)
Ends == CalledBack /\ StopEnds
============================================================================
