----------------------------- MODULE BlockDevice -----------------------------
(***************************************************************************)
(* AsyncBlockDevice: one coroutine awaits device transfers, one or a batch *)
(* at a time.  Adjacent requests are merged, every merged request is       *)
(* submitted to the device layer (persistent memory below PmemLen, copied  *)
(* before the call returns, the SSD above it, answered later by a callback *)
(* on any thread), and the coroutine goes on once nothing is outstanding.  *)
(* The steps of the submitting worker and of the callbacks interleave at   *)
(* the atomics of the awaiter they share.                                  *)
(***************************************************************************)
EXTENDS Integers, Sequences, FiniteSets, SequencesExt, FiniteSetsExt

CONSTANTS Batches,     \* the request lists a caller may pass, each with its kind
          PmemLen,     \* the first device address that lies on the SSD
          MergeLimit,  \* kMaximumMergedTransfer
          MaxOffset,   \* the largest device offset
          MaxFaults    \* bound: failures of the device per call

VARIABLES batch,       \* the call: [batched, requests merged so far, todo, asked]
          pc,          \* the coroutine: idle, collect, check, call, inline, refused, drop,
                       \* exchange, suspended, resumed
          at,          \* the loop index
          outstanding, \* BatchCompletionState::outstanding, the sentinel included
          err,         \* the first error recorded
          bytes,       \* BatchCompletionState::bytes
          state,       \* submission_state_
          cb,          \* the callback of each request
          answer,      \* what the callback was given: [err, bytes]
          scheduled,   \* times the continuation was handed to the runtime
          moved,       \* <<device address, buffer address>> pairs transferred
          faults       \* device failures so far

call == <<batch, pc, at>>
awaiter == <<outstanding, err, bytes, state>>
vars == <<call, awaiter, cb, answer, scheduled, moved, faults>>

(* A request is [off, buf, len, sync]; the bytes it asks for, one by one.  A flush
   is the request with sync set, which moves nothing. *)
Pairs(q) == {<<q.off + k, q.buf + k>> : k \in 0..q.len - 1}

AllPairs(rs) == UNION {Pairs(rs[i]) : i \in DOMAIN rs}

(* Mistake: requests are merged that are adjacent on the device only. *)
MergeableAnyBuffer(p, q) ==
  /\ q.len # 0
  /\ p.off + p.len = q.off
  /\ p.len + q.len <= MergeLimit

Mergeable(p, q) ==
  /\ q.len # 0
  /\ p.off + p.len = q.off
  /\ p.buf + p.len = q.buf
  /\ p.len + q.len <= MergeLimit

AppendMerged(list, q) ==
  IF list # <<>> /\ Mergeable(Last(list), q)
  THEN Front(list) \o <<[Last(list) EXCEPT !.len = @ + q.len]>>
  ELSE Append(list, q)

Requests == batch.requests
Indices == DOMAIN cb
Request == Requests[at]

Valid(q) == q.off <= MaxOffset /\ q.len <= MaxOffset - q.off

(* submit_*_data_*_devs: the bytes below PmemLen move during the call. *)
OnSsd(q) == q.sync \/ (q.len # 0 /\ q.off + q.len > PmemLen)
PmemPairs(q) == {p \in Pairs(q) : p[1] < PmemLen}
SsdPairs(q) == Pairs(q) \ PmemPairs(q)
Prefix(q) == IF q.off < PmemLen THEN PmemLen - q.off ELSE 0

NoError == "none"

Init ==
  /\ batch = [batched |-> TRUE, requests |-> <<>>, todo |-> <<>>, asked |-> {}]
  /\ pc = "idle" /\ at = 1
  /\ outstanding = 1 /\ err = NoError /\ bytes = 0 /\ state = "submitting"
  /\ cb = <<>> /\ answer = <<>> /\ scheduled = 0 /\ moved = {} /\ faults = 0

(* A call.  submit_batch builds its merged list one request after the other. *)
Await(b) ==
  /\ pc \in {"idle", "resumed"} /\ pc' = "collect"
  /\ batch' = [batched |-> b.batched, requests |-> <<>>, todo |-> b.requests,
               asked |-> AllPairs(b.requests)]
  /\ cb' = <<>> /\ answer' = <<>> /\ at' = 1
  /\ outstanding' = 1 /\ err' = NoError /\ bytes' = 0 /\ state' = "submitting"
  /\ scheduled' = 0 /\ moved' = {} /\ faults' = 0

(* submit_batch appends the next request; an empty batch is ready at once. *)
Collect ==
  /\ pc = "collect"
  /\ IF batch.todo # <<>>
     THEN /\ batch' = [batch EXCEPT !.requests = AppendMerged(@, Head(batch.todo)),
                                    !.todo = Tail(@)]
          /\ UNCHANGED <<pc, cb, answer>>
     ELSE /\ pc' = IF Requests = <<>> THEN "resumed" ELSE "check"
          /\ cb' = [i \in DOMAIN Requests |-> "none"]
          /\ answer' = [i \in DOMAIN Requests |-> [err |-> NoError, bytes |-> 0]]
          /\ UNCHANGED batch
  /\ UNCHANGED <<at, awaiter, scheduled, moved, faults>>

record_error(e) == err' = IF err = NoError THEN e ELSE err

(* The loop of await_suspend: test the next request and count it. *)
Check ==
  /\ pc = "check"
  /\ IF at > Len(Requests)
     THEN pc' = "drop" /\ UNCHANGED <<outstanding, err>>
     ELSE IF Valid(Request)
     THEN /\ pc' = "call" /\ UNCHANGED err
          /\ outstanding' = IF batch.batched THEN outstanding + 1 ELSE outstanding
     ELSE /\ pc' = IF batch.batched THEN "drop" ELSE "resumed"
          /\ record_error("EINVAL") /\ UNCHANGED outstanding
  /\ UNCHANGED <<batch, at, bytes, state, cb, answer, scheduled, moved, faults>>

AfterSubmit == IF batch.batched THEN "check" ELSE "exchange"

(* submit: a transfer within persistent memory calls back before it returns;
   the SSD takes the request, or refuses it with an error. *)
SubmitPmem ==
  /\ pc = "call" /\ ~OnSsd(Request)
  /\ pc' = "inline" /\ moved' = moved \cup Pairs(Request)
  /\ cb' = [cb EXCEPT ![at] = "called"]
  /\ answer' = [answer EXCEPT ![at] = [err |-> NoError, bytes |-> Request.len]]
  /\ UNCHANGED <<batch, at, awaiter, scheduled, faults>>

InlineReturned ==
  /\ pc = "inline" /\ cb[at] = "returned"
  /\ pc' = AfterSubmit /\ at' = at + 1
  /\ UNCHANGED <<batch, awaiter, cb, answer, scheduled, moved, faults>>

SubmitSsd ==
  /\ pc = "call" /\ OnSsd(Request)
  /\ moved' = moved \cup PmemPairs(Request)
  /\ cb' = [cb EXCEPT ![at] = "accepted"]
  /\ pc' = AfterSubmit /\ at' = at + 1
  /\ UNCHANGED <<batch, awaiter, answer, scheduled, faults>>

SubmitRefused ==
  /\ pc = "call" /\ OnSsd(Request) /\ faults < MaxFaults
  /\ moved' = moved \cup PmemPairs(Request)
  /\ faults' = faults + 1 /\ pc' = "refused"
  /\ UNCHANGED <<batch, at, awaiter, cb, answer, scheduled>>

(* A refused request is no longer outstanding; those before it still are. *)
Refused ==
  /\ pc = "refused" /\ record_error("refused")
  /\ IF batch.batched
     THEN pc' = "drop" /\ outstanding' = outstanding - 1
     ELSE pc' = "resumed" /\ UNCHANGED outstanding
  /\ UNCHANGED <<batch, at, bytes, state, cb, answer, scheduled, moved, faults>>

(* The submission sentinel is dropped once nothing more will be submitted. *)
DropSentinel ==
  /\ pc = "drop" /\ outstanding' = outstanding - 1
  /\ IF outstanding = 1
     THEN pc' = "resumed" /\ state' = "completed"
     ELSE pc' = "exchange" /\ UNCHANGED state
  /\ UNCHANGED <<batch, at, err, bytes, cb, answer, scheduled, moved, faults>>

(* Mistake: the submitter suspends without looking at what it exchanged. *)
ExchangeBlind ==
  /\ pc = "exchange" /\ state' = "suspended"
  /\ pc' = "suspended"
  /\ UNCHANGED <<batch, at, outstanding, err, bytes, cb, answer, scheduled, moved, faults>>

(* submission_state_.exchange(suspended): whoever comes second goes on. *)
Exchange ==
  /\ pc = "exchange" /\ state' = "suspended"
  /\ pc' = IF state = "completed" THEN "resumed" ELSE "suspended"
  /\ UNCHANGED <<batch, at, outstanding, err, bytes, cb, answer, scheduled, moved, faults>>

(* The runtime runs the continuation it was handed. *)
Resume ==
  /\ pc = "suspended" /\ scheduled > 0 /\ pc' = "resumed"
  /\ UNCHANGED <<batch, at, awaiter, cb, answer, scheduled, moved, faults>>

(* The SSD answers an accepted request: done, failed, or fewer bytes than asked. *)
Answer(i) ==
  /\ cb[i] = "accepted" /\ cb' = [cb EXCEPT ![i] = "called"]
  /\ \/ /\ moved' = moved \cup SsdPairs(Requests[i])
        /\ answer' = [answer EXCEPT ![i].bytes = Requests[i].len]
        /\ UNCHANGED faults
     \/ /\ faults < MaxFaults /\ faults' = faults + 1
        /\ \/ answer' = [answer EXCEPT ![i].err = "device"]
           \/ answer' = [answer EXCEPT ![i].bytes = Prefix(Requests[i])]
        /\ UNCHANGED moved
  /\ UNCHANGED <<call, awaiter, scheduled>>

ErrorOf(i) ==
  IF answer[i].err = NoError /\ answer[i].bytes # Requests[i].len THEN "EIO" ELSE answer[i].err

(* complete: record the error or the bytes first, then count down. *)
Record(i) ==
  /\ cb[i] = "called"
  /\ record_error(ErrorOf(i))
  /\ bytes' = IF ErrorOf(i) = NoError THEN bytes + answer[i].bytes ELSE bytes
  /\ cb' = [cb EXCEPT ![i] = IF batch.batched THEN "recorded" ELSE "last"]
  /\ UNCHANGED <<call, outstanding, state, answer, scheduled, moved, faults>>

CountDown(i) ==
  /\ cb[i] = "recorded" /\ outstanding' = outstanding - 1
  /\ cb' = [cb EXCEPT ![i] = IF outstanding = 1 THEN "last" ELSE "returned"]
  /\ UNCHANGED <<call, err, bytes, state, answer, scheduled, moved, faults>>

(* The last callback publishes completed, and wakes only a suspended coroutine. *)
Completed(i) ==
  /\ cb[i] = "last" /\ state' = "completed"
  /\ cb' = [cb EXCEPT ![i] = IF state = "suspended" THEN "wake" ELSE "returned"]
  /\ UNCHANGED <<call, outstanding, err, bytes, answer, scheduled, moved, faults>>

Wake(i) ==
  /\ cb[i] = "wake" /\ scheduled' = scheduled + 1
  /\ cb' = [cb EXCEPT ![i] = "returned"]
  /\ UNCHANGED <<call, awaiter, answer, moved, faults>>

Submitter ==
  Collect \/ Check \/ SubmitPmem \/ InlineReturned \/ SubmitSsd \/ SubmitRefused \/ Refused
    \/ DropSentinel \/ Exchange

Callback(i) == Record(i) \/ CountDown(i) \/ Completed(i) \/ Wake(i)

Next ==
  \/ \E b \in Batches : Await(b)
  \/ Submitter \/ Resume
  \/ \E i \in Indices : Answer(i) \/ Callback(i)

Spec == Init /\ [][Next]_vars

(* Threads and the SSD keep running; a caller need not call again. *)
Going == Submitter \/ Resume \/ \E i \in Indices : Answer(i) \/ Callback(i)

Fairness == WF_vars(Going)


------------------------------------------------------------------------------
TypeOK ==
  /\ pc \in {"idle", "collect", "check", "call", "inline", "refused", "drop", "exchange",
             "suspended", "resumed"}
  /\ at \in 1..Len(Requests) + 1
  /\ outstanding \in 0..Len(Requests) + 1
  /\ state \in {"submitting", "suspended", "completed"}
  /\ \A i \in Indices : cb[i] \in {"none", "accepted", "called", "recorded", "last", "wake",
                                   "returned"}

(* Once the coroutine goes on, its frame, the awaiter and the completion array
   in it may be gone: no request is still with the device and no callback
   still has a step to take on them, the one that woke it included. *)
FrameReleased ==
  pc = "resumed" => \A i \in Indices : cb[i] \in {"none", "returned"}

(* await_resume reports success only when every byte the caller asked for, before
   merging and before the split at PmemLen, went to or came from its own place,
   and reports their number. *)
ResultHonest ==
  (pc = "resumed" /\ err = NoError) =>
    moved = batch.asked /\ bytes = Cardinality(batch.asked)

(* The continuation is handed to the runtime at most once, and never when
   await_suspend answered "do not suspend". *)
WokenOnce ==
  /\ scheduled <= 1
  /\ scheduled = 1 => pc \in {"suspended", "resumed"}

(* A call whose device failed on no request succeeds: errors come from the
   device or from a request outside the device. *)
ErrorsEarned ==
  err # NoError => faults > 0 \/ \E i \in Indices : ~Valid(Requests[i])

(* Every call on the device returns: the wake-up is not lost between the exchange
   of the submitter and the exchange of the last callback. *)
Returns == (pc = "collect") ~> (pc = "resumed")

(* The coroutine goes on once, when nothing can touch its frame any more, with a
   result that says what happened to the bytes it asked for. *)
ResumedRight == TypeOK /\ FrameReleased /\ WokenOnce /\ ResultHonest /\ ErrorsEarned
==============================================================================
