------------------------------ MODULE IpcLane ------------------------------
(***************************************************************************)
(* One SQ/CQ lane between a client Session (Async/client.cpp) and its      *)
(* ServerSession (Async/server.cpp), with the session-wide flags that stop *)
(* them.  The threads are                                                  *)
(*   - client threads that enqueue a request on the lane (the lane owner's *)
(*     own coroutines, or others through the inbox), and blocking callers  *)
(*     that drive the lane themselves while they hold its transport gate,  *)
(*   - the client's lane poller and control poller,                        *)
(*   - the server's lane poller, request coroutines and control poller.    *)
(* A poller's callback is a sequence of steps (cpc, spc), one per ring     *)
(* operation; between any two of them every other thread may run.          *)
(* Either process may die at any point.                                    *)
(***************************************************************************)
EXTENDS ShmRing, Sequences, FiniteSets

CONSTANTS Calls,
          Shutdown,   \* the request that ends the session
          Setups      \* the situations: [owner, inbox, directs, mishaps]

(***************************************************************************)
(* In a situation, requests are enqueued by coroutines on the lane's owner *)
(* (owner) and by other threads (inbox), blocking calls drive the lane     *)
(* themselves (directs), and some mishaps may happen.                      *)
(***************************************************************************)
Mishaps == {"server stops", "server dies", "client dies"}

ASSUME SetupsAssumption == \A s \in Setups :
  /\ s.owner \cup s.inbox \cup s.directs \subseteq Calls
  /\ s.owner \cap s.inbox = {} /\ (s.owner \cup s.inbox) \cap s.directs = {}
  /\ Shutdown \notin s.directs /\ s.mishaps \subseteq Mishaps

VARIABLES
  setup,           \* the situation
  sq, cq,          \* the two rings, in shared memory
  active,          \* SessionState::active, and the control socket is open
  \* ---- client
  call,            \* call -> where it is on the client
  outcome,         \* call -> its result
  answer,          \* call -> the request whose completion it was given
  resumed,         \* call -> how often its caller was resumed
  id,              \* call -> request_id
  nextId,          \* next_request_id_ of the Session, and of the transport
  inbox, outbound, \* lane.inbox, lane.outbound
  gate, waiters,   \* lane.transport_gate, lane.direct_waiters
  cpc,             \* step of the client's lane poller
  client,          \* the Session's flags
  \* ---- server
  srv,             \* call -> where it is on the server
  heldAt, resvAt,  \* call -> its SQ slot and its CQ slot (positions)
  completions,     \* lane.completions
  spc,             \* step of the server's lane poller
  server           \* the ServerSession's flags

OwnerCalls == setup.owner
InboxCalls == setup.inbox
Directs == setup.directs
Requests == OwnerCalls \cup InboxCalls

clientVars == <<setup, call, outcome, answer, resumed, id, nextId, inbox, outbound,
                gate, waiters, cpc, client>>
serverVars == <<setup, srv, heldAt, resvAt, completions, spc, server>>
vars == <<sq, cq, active, clientVars, serverVars>>

InSubmit == {c \in Calls : call[c] = "submitting"}   \* lane.active_submitters

(* lane.pending: emplaced when the request leaves the inbox *)
Pending == {c \in Requests : call[c] \in {"outbound", "sent"}}

Init ==
  /\ setup \in Setups
  /\ sq = EmptyRing /\ cq = EmptyRing /\ active = TRUE
  /\ call = [c \in Calls |-> "new"]
  /\ outcome = [c \in Calls |-> "none"]
  /\ answer = [c \in Calls |-> NoItem]
  /\ resumed = [c \in Calls |-> 0]
  /\ id = [c \in Calls |-> 0]
  /\ nextId = [session |-> 1, transport |-> 1]
  /\ inbox = <<>> /\ outbound = <<>>
  /\ gate = "free" /\ waiters = 0 /\ cpc = "idle"
  /\ client = [up |-> TRUE, accepting |-> TRUE, stop |-> FALSE,
               peerFailed |-> FALSE, failureChecked |-> FALSE,
               drained |-> FALSE, finished |-> FALSE]
  /\ srv = [c \in Calls |-> "none"]
  /\ heldAt = [c \in Calls |-> -1] /\ resvAt = [c \in Calls |-> -1]
  /\ completions = <<>> /\ spc = "idle"
  /\ server = [up |-> TRUE, closing |-> FALSE, stop |-> FALSE, flush |-> FALSE,
               shutdown |-> FALSE, drained |-> FALSE, finished |-> FALSE]

(***************************************************************************)
(* request_stop, and the end of a call: finish_pending (or the failure a   *)
(* caller of enqueue sees) records the result and resumes the caller; the  *)
(* end of the shutdown request, whatever its result, stops the Session.    *)
(***************************************************************************)
Stopped(flags) == [flags EXCEPT !.stop = TRUE, !.accepting = FALSE]

Finish(S, result, from) ==
  /\ call' = [c \in Calls |-> IF c \in S THEN "done" ELSE call[c]]
  /\ outcome' = [c \in Calls |-> IF c \in S THEN result ELSE outcome[c]]
  /\ answer' = [c \in Calls |-> IF c \in S THEN from ELSE answer[c]]
  /\ resumed' = [c \in Calls |-> IF c \in S THEN resumed[c] + 1 ELSE resumed[c]]
  /\ client' = IF Shutdown \in S THEN Stopped(client) ELSE client

Move(c, where) ==
  /\ call' = [call EXCEPT ![c] = where]
  /\ UNCHANGED <<outcome, answer, resumed, client>>

TakeId(c, counter) ==
  /\ id' = [id EXCEPT ![c] = nextId[counter]]
  /\ nextId' = [nextId EXCEPT ![counter] = @ + 1]

----------------------------------------------------------------------------
(* Client threads *)

(* enqueue on the lane owner's worker: the poller of the lane is not running *)
EnqueueOwner(c) ==
  /\ client.up /\ call[c] = "new" /\ cpc = "idle"
  /\ \/ /\ ~client.accepting
        /\ Finish({c}, "not_connected", NoItem)
        /\ UNCHANGED <<sq, id, nextId, outbound>>
     \/ /\ client.accepting
        /\ TakeId(c, "session")
        /\ \/ /\ ~active
              /\ Finish({c}, "peer_closed", NoItem)
              /\ UNCHANGED <<sq, outbound>>
           \/ /\ active /\ Writable(sq)
              /\ sq' = Push(sq, c) /\ Move(c, "sent")
              /\ UNCHANGED outbound
           \/ /\ active /\ ~Writable(sq)
              /\ outbound' = Append(outbound, c) /\ Move(c, "outbound")
              /\ UNCHANGED sq
  /\ UNCHANGED <<cq, active, inbox, gate, waiters, cpc, serverVars>>

(* enqueue on any other thread: it counts in active_submitters from its first
   test of accepting_ until it has pushed to the inbox or has failed the second *)
EnqueueBegin(c) ==
  /\ client.up /\ call[c] = "new"
  /\ \/ ~client.accepting /\ Finish({c}, "not_connected", NoItem) /\ UNCHANGED <<id, nextId>>
     \/ client.accepting /\ TakeId(c, "session") /\ Move(c, "submitting")
  /\ UNCHANGED <<sq, cq, active, inbox, outbound, gate, waiters, cpc, serverVars>>

EnqueuePush(c) ==
  /\ client.up /\ call[c] = "submitting"
  /\ \/ inbox' = Append(inbox, c) /\ Move(c, "inbox")
     \/ ~client.accepting /\ Finish({c}, "not_connected", NoItem) /\ UNCHANGED inbox
  /\ UNCHANGED <<sq, cq, active, id, nextId, outbound, gate, waiters, cpc, serverVars>>

(* rpc_header_direct_blocking: wait for the gate, submit, poll the CQ *)
DirectBegin(d) ==
  /\ client.up /\ call[d] = "new"
  /\ Move(d, "waiting") /\ waiters' = waiters + 1
  /\ UNCHANGED <<sq, cq, active, id, nextId, inbox, outbound, gate, cpc, serverVars>>

(* Mistake: the gate is not taken. *)
DirectGateOpen(d) ==
  /\ client.up /\ call[d] = "waiting" /\ client.accepting
  /\ waiters' = waiters - 1 /\ Move(d, "pushing")
  /\ UNCHANGED <<sq, cq, active, id, nextId, inbox, outbound, gate, cpc, serverVars>>

DirectGate(d) ==
  /\ client.up /\ call[d] = "waiting"
  /\ waiters' = waiters - 1
  /\ \/ ~client.accepting /\ Finish({d}, "not_connected", NoItem) /\ UNCHANGED gate
     \/ client.accepting /\ gate = "free" /\ gate' = "direct" /\ Move(d, "pushing")
  /\ UNCHANGED <<sq, cq, active, id, nextId, inbox, outbound, cpc, serverVars>>

(* the transport numbers these requests itself *)
DirectPush(d) ==
  /\ client.up /\ call[d] = "pushing"
  /\ \/ /\ active /\ Writable(sq)
        /\ sq' = Push(sq, d) /\ TakeId(d, "transport") /\ Move(d, "receiving")
        /\ UNCHANGED gate
     \/ /\ ~active \/ (~Writable(sq) /\ ~client.accepting)
        /\ Finish({d}, "not_sent", NoItem) /\ gate' = "free"
        /\ UNCHANGED <<sq, id, nextId>>
  /\ UNCHANGED <<cq, active, inbox, outbound, waiters, cpc, serverVars>>

(* the completion is kept, in its CQ slot, until the caller has copied it *)
DirectReceive(d) ==
  /\ client.up /\ call[d] = "receiving" /\ Readable(cq)
  /\ LET r == Front(cq)
     IN \/ /\ id[r] = id[d]
           /\ cq' = Acquire(cq)
           /\ call' = [call EXCEPT ![d] = "holding"]
           /\ answer' = [answer EXCEPT ![d] = r]
           /\ UNCHANGED <<outcome, resumed, client>>
        \/ /\ id[r] # id[d]
           /\ cq' = Pop(cq)
           /\ Finish({d}, "protocol_error", NoItem)
  /\ gate' = "free"
  /\ UNCHANGED <<sq, active, id, nextId, inbox, outbound, waiters, cpc, serverVars>>

(* the peer is found dead after an empty CQ was seen *)
DirectReset(d) ==
  /\ client.up /\ call[d] = "receiving" /\ ~active
  /\ Finish({d}, "connection_reset", NoItem) /\ gate' = "free"
  /\ UNCHANGED <<sq, cq, active, id, nextId, inbox, outbound, waiters, cpc, serverVars>>

DirectRelease(d) ==
  /\ client.up /\ call[d] = "holding"
  /\ cq' = Release(cq, resvAt[answer[d]])
  /\ Finish({d}, "ok", answer[d])
  /\ UNCHANGED <<sq, active, id, nextId, inbox, outbound, gate, waiters, cpc, serverVars>>

----------------------------------------------------------------------------
(* The client's lane poller, poll_lane_once *)

PollBegin ==
  /\ client.up /\ cpc = "idle" /\ ~client.drained
  /\ waiters = 0 /\ gate = "free"
  /\ gate' = "poller" /\ cpc' = "drain"
  /\ UNCHANGED <<sq, cq, active, call, outcome, answer, resumed, id, nextId, inbox,
                 outbound, waiters, client, serverVars>>

DrainInbox ==
  /\ client.up /\ cpc = "drain" /\ inbox # <<>>
  /\ inbox' = Tail(inbox)
  /\ \/ /\ client.accepting
        /\ outbound' = Append(outbound, Head(inbox)) /\ Move(Head(inbox), "outbound")
     \/ /\ ~client.accepting
        /\ Finish({Head(inbox)}, "not_connected", NoItem) /\ UNCHANGED outbound
  /\ UNCHANGED <<sq, cq, active, id, nextId, gate, waiters, cpc, serverVars>>

PumpSubmissions ==
  /\ client.up /\ cpc = "submit" /\ outbound # <<>>
  /\ outbound' = Tail(outbound)
  /\ \/ /\ active /\ Writable(sq)
        /\ sq' = Push(sq, Head(outbound)) /\ Move(Head(outbound), "sent")
     \/ /\ ~active
        /\ Finish({Head(outbound)}, "peer_closed", NoItem) /\ UNCHANGED sq
  /\ UNCHANGED <<cq, active, id, nextId, inbox, gate, waiters, cpc, serverVars>>

(* a completion is looked up by its request_id, and dropped if unknown *)
PumpCompletions ==
  /\ client.up /\ cpc \in {"complete", "recheck"} /\ Readable(cq)
  /\ cq' = Pop(cq)
  /\ LET r == Front(cq)
     IN  Finish({c \in Pending : id[c] = id[r]}, "ok", r)
  /\ UNCHANGED <<sq, active, id, nextId, inbox, outbound, gate, waiters, cpc, serverVars>>

(* between the loops; after the first receive pass a peer failure that is
   already known asks for a second one *)
AfterCompletions ==
  IF client.peerFailed /\ ~client.failureChecked THEN "recheck" ELSE "stop"

(* Mistake: a peer failure is acknowledged without the second receive pass. *)
PollNextOnce ==
  /\ client.up
  /\ \/ cpc = "drain" /\ inbox = <<>> /\ cpc' = "submit" /\ UNCHANGED client
     \/ /\ cpc = "submit" /\ (outbound = <<>> \/ (active /\ ~Writable(sq)))
        /\ cpc' = "complete" /\ UNCHANGED client
     \/ cpc = "complete" /\ ~Readable(cq) /\ cpc' = "failure" /\ UNCHANGED client
     \/ /\ cpc = "failure" /\ cpc' = "stop"
        /\ client' = [client EXCEPT !.failureChecked = client.peerFailed]
  /\ UNCHANGED <<sq, cq, active, call, outcome, answer, resumed, id, nextId, inbox,
                 outbound, gate, waiters, serverVars>>

PollNext ==
  /\ client.up
  /\ \/ cpc = "drain" /\ inbox = <<>> /\ cpc' = "submit" /\ UNCHANGED client
     \/ /\ cpc = "submit" /\ (outbound = <<>> \/ (active /\ ~Writable(sq)))
        /\ cpc' = "complete" /\ UNCHANGED client
     \/ cpc = "complete" /\ ~Readable(cq) /\ cpc' = "failure" /\ UNCHANGED client
     \/ cpc = "failure" /\ cpc' = AfterCompletions /\ UNCHANGED client
     \/ /\ cpc = "recheck" /\ ~Readable(cq)
        /\ cpc' = "stop" /\ client' = [client EXCEPT !.failureChecked = TRUE]
  /\ UNCHANGED <<sq, cq, active, call, outcome, answer, resumed, id, nextId, inbox,
                 outbound, gate, waiters, serverVars>>

(* the end of a pass when no stop is requested *)
PollEnd ==
  /\ client.up /\ cpc = "stop" /\ ~client.stop
  /\ cpc' = "idle" /\ gate' = "free"
  /\ UNCHANGED <<sq, cq, active, call, outcome, answer, resumed, id, nextId, inbox,
                 outbound, waiters, client, serverVars>>

InboxSet == {inbox[i] : i \in 1 .. Len(inbox)}

FailLane ==
  Finish(Pending, IF client.peerFailed THEN "connection_reset" ELSE "not_connected", NoItem)

(* Mistake: pending requests are kept when the lane stops. *)
StopFailInbox ==
  /\ client.up /\ cpc = "stop" /\ client.stop /\ cpc' = "empty"
  /\ Finish(InboxSet, "not_connected", NoItem) /\ inbox' = <<>>
  /\ UNCHANGED <<sq, cq, active, id, nextId, outbound, gate, waiters, serverVars>>

(* with a stop requested: if no submitter is active, fail what the inbox holds
   and what is pending *)
StopFail ==
  /\ client.up /\ cpc = "stop" /\ client.stop
  /\ \/ /\ InSubmit # {}
        /\ cpc' = "empty"
        /\ client' = [client EXCEPT !.accepting = FALSE]
        /\ UNCHANGED <<call, outcome, answer, resumed, inbox, outbound>>
     \/ /\ InSubmit = {} /\ inbox # <<>>
        /\ Finish(InboxSet, "not_connected", NoItem)
        /\ inbox' = <<>> /\ UNCHANGED <<cpc, outbound>>
     \/ /\ InSubmit = {} /\ inbox = <<>>
        /\ FailLane
        /\ outbound' = <<>> /\ cpc' = "empty" /\ UNCHANGED inbox
  /\ UNCHANGED <<sq, cq, active, id, nextId, gate, waiters, serverVars>>

NothingQueued == Pending = {} /\ outbound = <<>> /\ inbox = <<>>

(* lane_empty: pending, outbound and inbox are read first, active_submitters
   last; an empty lane has drained and its poller never runs again *)
LaneEmpty ==
  /\ client.up
  /\ \/ /\ cpc = "empty" /\ NothingQueued
        /\ cpc' = "submitters" /\ UNCHANGED <<gate, client>>
     \/ /\ \/ cpc = "empty" /\ ~NothingQueued
           \/ cpc = "submitters" /\ InSubmit # {}
        /\ cpc' = "idle" /\ gate' = "free" /\ UNCHANGED client
     \/ /\ cpc = "submitters" /\ InSubmit = {}
        /\ cpc' = "idle" /\ gate' = "free"
        /\ client' = [client EXCEPT !.drained = TRUE]
  /\ UNCHANGED <<sq, cq, active, call, outcome, answer, resumed, id, nextId, inbox,
                 outbound, waiters, serverVars>>

(* The client's control poller, poll_control_once; once it has finished, the
   last owner of the Session closes the transport *)
ControlPoll ==
  /\ client.up
  /\ \/ /\ ~client.finished /\ ~active /\ ~client.peerFailed
        /\ client' = [client EXCEPT !.peerFailed = TRUE] /\ UNCHANGED active
     \/ /\ ~client.finished /\ client.peerFailed /\ client.failureChecked /\ ~client.stop
        /\ client' = Stopped(client) /\ UNCHANGED active
     \/ /\ ~client.finished /\ client.stop /\ client.drained
        /\ client' = [client EXCEPT !.finished = TRUE] /\ UNCHANGED active
     \/ client.finished /\ active /\ active' = FALSE /\ UNCHANGED client
  /\ UNCHANGED <<sq, cq, call, outcome, answer, resumed, id, nextId, inbox, outbound,
                 gate, waiters, cpc, serverVars>>

----------------------------------------------------------------------------
(* The server's lane poller, poll_lane_once *)

Inflight == {c \in Calls : srv[c] \in {"running", "executed"}}   \* lane.inflight
QueueSet == {completions[i] : i \in 1 .. Len(completions)}

(* discard_completions: every queued completion abandons its reservation *)
Discard ==
  /\ completions' = <<>>
  /\ srv' = [c \in Calls |-> IF c \in QueueSet THEN "discarded" ELSE srv[c]]
  /\ cq' = [cq EXCEPT !.gen = [s \in Slots |->
       IF \E c \in QueueSet : SlotOf(resvAt[c]) = s
         THEN LET c == CHOOSE c \in QueueSet : SlotOf(resvAt[c]) = s
              IN  Abandon(cq, resvAt[c]).gen[s]
         ELSE @[s]]]

ServePoll ==
  /\ server.up /\ spc = "idle" /\ ~server.drained
  /\ \/ ~server.stop /\ spc' = "accept" /\ UNCHANGED <<cq, srv, completions>>
     \/ server.stop /\ spc' = "settle" /\ Discard
  /\ UNCHANGED <<sq, active, clientVars, heldAt, resvAt, server>>

(* submit_incoming refuses new work once the session is closing *)
Rejected(c) == IF c = Shutdown THEN server.stop \/ server.shutdown ELSE server.closing

(* Mistake: a submission slot is handed back before dispatch has read it. *)
AcceptReleased ==
  /\ server.up /\ spc = "accept" /\ Readable(sq) /\ Writable(cq)
  /\ LET c == Front(sq)
     IN /\ heldAt' = [heldAt EXCEPT ![c] = sq.consumer]
        /\ resvAt' = [resvAt EXCEPT ![c] = cq.producer]
        /\ cq' = Reserve(cq) /\ sq' = Pop(sq)
        /\ srv' = [srv EXCEPT ![c] = IF Rejected(c) THEN "queued" ELSE "running"]
        /\ completions' = IF Rejected(c) THEN Append(completions, c) ELSE completions
  /\ UNCHANGED <<active, clientVars, spc, server>>

(* one turn of pump_submissions: a CQ slot is reserved before the SQ slot is
   taken; the request is read in place, in its SQ slot *)
Accept ==
  /\ server.up /\ spc = "accept" /\ Readable(sq) /\ Writable(cq)
  /\ LET c == Front(sq)
     IN /\ heldAt' = [heldAt EXCEPT ![c] = sq.consumer]
        /\ resvAt' = [resvAt EXCEPT ![c] = cq.producer]
        /\ cq' = Reserve(cq)
        /\ \/ /\ Rejected(c)
              /\ sq' = Pop(sq)
              /\ completions' = Append(completions, c)
              /\ srv' = [srv EXCEPT ![c] = "queued"]
           \/ /\ ~Rejected(c)
              /\ sq' = Acquire(sq)
              /\ srv' = [srv EXCEPT ![c] = "running"]
              /\ UNCHANGED completions
  /\ UNCHANGED <<active, clientVars, spc, server>>

PublishOne ==
  /\ server.up /\ spc = "publish" /\ completions # <<>>
  /\ LET c == Head(completions)
     IN /\ cq' = Publish(cq, resvAt[c], c)
        /\ srv' = [srv EXCEPT ![c] = "published"]
  /\ completions' = Tail(completions)
  /\ UNCHANGED <<sq, active, clientVars, heldAt, resvAt, spc, server>>

ServeNext ==
  /\ server.up
  /\ \/ spc = "accept" /\ ~(Readable(sq) /\ Writable(cq)) /\ spc' = "publish"
     \/ spc = "publish" /\ completions = <<>> /\ spc' = "settle"
  /\ UNCHANGED <<sq, cq, active, clientVars, srv, heldAt, resvAt, completions, server>>

(* the lane has drained when a stop or a flush is requested and nothing it
   accepted is in flight *)
Settle ==
  /\ server.up /\ spc = "settle" /\ spc' = "idle"
  /\ IF server.stop THEN Discard ELSE UNCHANGED <<cq, srv, completions>>
  /\ server' = [server EXCEPT !.drained = (server.stop \/ server.flush) /\ Inflight = {}]
  /\ UNCHANGED <<sq, active, clientVars, heldAt, resvAt>>

(* run_request: dispatch ends, and with it the use of the SQ slot; do_shutdown *)
Execute(c) ==
  /\ server.up /\ srv[c] = "running"
  /\ srv' = [srv EXCEPT ![c] = "executed"]
  /\ sq' = Release(sq, heldAt[c])
  /\ server' = IF c = Shutdown
                 THEN [server EXCEPT !.shutdown = TRUE, !.closing = TRUE, !.flush = TRUE]
                 ELSE server
  /\ UNCHANGED <<cq, active, clientVars, heldAt, resvAt, completions, spc>>

(* ... then, back on the lane's owner, enqueue_completion *)
Enqueue(c) ==
  /\ server.up /\ srv[c] = "executed" /\ spc = "idle"
  /\ srv' = [srv EXCEPT ![c] = "queued"]
  /\ completions' = Append(completions, c)
  /\ UNCHANGED <<sq, cq, active, clientVars, heldAt, resvAt, spc, server>>

(* The server's control poller, poll_control_once *)
RequestStop == server' = [server EXCEPT !.closing = TRUE, !.stop = TRUE]

ServerControl ==
  /\ server.up /\ ~server.finished
  /\ \/ ~active /\ ~server.stop /\ RequestStop /\ UNCHANGED active
     \/ /\ (server.stop \/ server.flush) /\ server.drained /\ Inflight = {}
        /\ server' = [server EXCEPT !.finished = TRUE]
        /\ active' = FALSE
  /\ UNCHANGED <<sq, cq, clientVars, srv, heldAt, resvAt, completions, spc>>

(* Server::request_stop, from outside *)
ServerStop ==
  /\ "server stops" \in setup.mishaps /\ server.up /\ ~server.stop /\ RequestStop
  /\ UNCHANGED <<sq, cq, active, clientVars, srv, heldAt, resvAt, completions, spc>>

----------------------------------------------------------------------------
(* Process death: the kernel closes the control socket *)
ClientDies ==
  /\ "client dies" \in setup.mishaps /\ client.up
  /\ client' = [client EXCEPT !.up = FALSE] /\ active' = FALSE
  /\ UNCHANGED <<sq, cq, call, outcome, answer, resumed, id, nextId, inbox, outbound,
                 gate, waiters, cpc, serverVars>>

ServerDies ==
  /\ "server dies" \in setup.mishaps /\ server.up
  /\ server' = [server EXCEPT !.up = FALSE] /\ active' = FALSE
  /\ UNCHANGED <<sq, cq, clientVars, srv, heldAt, resvAt, completions, spc>>

ClientPoller == PollBegin \/ DrainInbox \/ PumpSubmissions \/ PumpCompletions \/ PollNext
                \/ PollEnd \/ StopFail \/ LaneEmpty
ServerPoller == ServePoll \/ Accept \/ PublishOne \/ ServeNext \/ Settle
DirectStep(d) == DirectGate(d) \/ DirectPush(d) \/ DirectReceive(d) \/ DirectReset(d)
                 \/ DirectRelease(d)

Next ==
  \/ \E c \in OwnerCalls : EnqueueOwner(c)
  \/ \E c \in InboxCalls : EnqueueBegin(c) \/ EnqueuePush(c)
  \/ \E d \in Directs : DirectBegin(d) \/ DirectStep(d)
  \/ ClientPoller \/ ControlPoll
  \/ ServerPoller \/ ServerControl \/ ServerStop
  \/ \E c \in Calls : Execute(c) \/ Enqueue(c)
  \/ ClientDies \/ ServerDies

Spec == Init /\ [][Next]_vars

(***************************************************************************)
(* Both Runtimes poll every registered service on every turn of their      *)
(* worker loop and resume what is scheduled, so each of these is always    *)
(* taken eventually; a blocking caller runs on its own thread.  A call     *)
(* takes each of its steps once, so fairness of the calls together is      *)
(* fairness to each.                                                       *)
(***************************************************************************)
Fairness ==
  /\ WF_vars(ClientPoller) /\ WF_vars(ControlPoll)
  /\ WF_vars(ServerPoller) /\ WF_vars(ServerControl)
  /\ WF_vars(\E c \in Calls : Execute(c)) /\ SF_vars(\E c \in Calls : Enqueue(c))
  /\ WF_vars(\E c \in Calls : EnqueuePush(c) \/ DirectStep(c))
  /\ SF_vars(\E d \in Calls : DirectGate(d))

LiveSpec == Spec /\ Fairness

----------------------------------------------------------------------------
(* Properties *)

(* The state of both processes has the shape the code gives it. *)
TypeOK ==
  /\ setup \in Setups
  /\ sq \in Rings(Calls) /\ cq \in Rings(Calls) /\ active \in BOOLEAN
  /\ call \in [Calls -> {"new", "submitting", "inbox", "outbound", "sent", "waiting",
                         "pushing", "receiving", "holding", "done"}]
  /\ outcome \in [Calls -> {"none", "ok", "not_connected", "peer_closed", "not_sent",
                            "protocol_error", "connection_reset"}]
  /\ answer \in [Calls -> Calls \cup {NoItem}]
  /\ resumed \in [Calls -> Nat] /\ id \in [Calls -> Nat]
  /\ nextId \in [session : Nat, transport : Nat]
  /\ inbox \in Seq(InboxCalls) /\ outbound \in Seq(Requests)
  /\ gate \in {"free", "poller", "direct"} /\ waiters \in Nat
  /\ cpc \in {"idle", "drain", "submit", "complete", "failure", "recheck", "stop", "empty",
             "submitters"}
  /\ client \in [up : BOOLEAN, accepting : BOOLEAN, stop : BOOLEAN, peerFailed : BOOLEAN,
                 failureChecked : BOOLEAN, drained : BOOLEAN, finished : BOOLEAN]
  /\ srv \in [Calls -> {"none", "running", "executed", "queued", "published", "discarded"}]
  /\ heldAt \in [Calls -> Nat \cup {-1}] /\ resvAt \in [Calls -> Nat \cup {-1}]
  /\ completions \in Seq(Calls)
  /\ spc \in {"idle", "accept", "publish", "settle"}
  /\ server \in [up : BOOLEAN, closing : BOOLEAN, stop : BOOLEAN, flush : BOOLEAN,
                 shutdown : BOOLEAN, drained : BOOLEAN, finished : BOOLEAN]

(* A slot that is read in place is never written under its reader: a request
   that dispatch still works on is in its SQ slot (Incoming::payload), and a
   completion a blocking caller still copies is in its CQ slot. *)
InPlace ==
  /\ \A c \in Calls : srv[c] = "running" => sq.item[SlotOf(heldAt[c])] = c
  /\ \A d \in Directs :
       call[d] = "holding" => cq.item[SlotOf(resvAt[answer[d]])] = answer[d]

(* A caller is resumed with the completion of its own request, which the
   server has carried out, and never twice (a second resumption of a
   coroutine handle is undefined behaviour). *)
OwnAnswer ==
  /\ \A c \in Calls : answer[c] # NoItem => answer[c] = c /\ srv[c] = "published"
  /\ \A c \in Calls : resumed[c] = (IF call[c] = "done" THEN 1 ELSE 0)

(* The server's bounded completion queue, which terminates the process on
   overflow, always has room: whatever is in flight holds a CQ slot. *)
CompletionsFit == Len(completions) + Cardinality(Inflight) =< Capacity

(* A request whose completion, and every completion before it in the CQ, the
   server published before it went away is not reported as a connection reset
   (poll_lane_once gives every lane one more receive pass), unless the client
   had ended the session itself. *)
PublishedDelivered ==
  \A c \in Requests :
    outcome[c] = "connection_reset" /\ (Shutdown \in Requests => outcome[Shutdown] # "ok")
      => \/ srv[c] # "published"
         \/ \E b \in Calls : resvAt[b] \in 0 .. resvAt[c] /\ srv[b] # "published"

(* A session that ends by a shutdown request, not by force, has published the
   completion of every request it accepted before it marks itself dead. *)
FlushedBeforeDead ==
  server.finished /\ ~server.stop =>
    \A c \in Calls : srv[c] \in {"none", "published"}

(* A blocking caller never receives another caller's completion. *)
DirectServed == \A d \in Directs : outcome[d] # "protocol_error"

(* A call that has ended, with its completion, or with an error once either
   side stops, dies or drains; or one that a drained lane has left behind. *)
Ended(c) ==
  call[c] \in {"new", "done"} \/ ~client.up \/ (client.drained /\ c \in InboxSet)

(* A server session whose client has ended, or that was asked to stop, has
   finished. *)
SessionOver == (server.stop \/ server.flush \/ ~active) => (server.finished \/ ~server.up)

(* The slots of the rings: none is written under its reader, and whatever is
   in flight has one for its completion, so that the queue that would end the
   server when it is full never is. *)
SlotsSafe == TypeOK /\ InPlace /\ CompletionsFit

(* No completion is lost when a side goes away: the client reports no request
   as reset whose completion was there, and a server that was asked to shut
   down has published every completion before it is dead. *)
NothingLost == PublishedDelivered /\ FlushedBeforeDead

(* A caller gets the completion of its own request, once, blocking callers too. *)
Answers == OwnAnswer /\ DirectServed

(* Every call ends, and so does every session that has to: what is made once
   ends for good. *)
AllEnds == <>[]((\A c \in Calls : Ended(c)) /\ SessionOver)
============================================================================
