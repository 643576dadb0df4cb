------------------------- MODULE RangeArbiterProofs -------------------------
(***************************************************************************)
(* Proofs about RangeArbiter for every set of coroutines, every set of     *)
(* ranges and every block size.                                            *)
(***************************************************************************)
EXTENDS RangeArbiter, TLAPS

\* No request is in the inbox and the batch twice.
QueuesDistinct ==
    /\ \A i, j \in 1 .. Len(inbox) : inbox[i] = inbox[j] => i = j
    /\ \A i, j \in 1 .. Len(batch) : batch[i] = batch[j] => i = j
    /\ \A i \in 1 .. Len(inbox), j \in 1 .. Len(batch) : inbox[i] # batch[j]

\* A queued request is undecided.
QueuedUndecided ==
    \A p \in Procs : InQueue(p) =>
        /\ pc[p] \in Acquiring \cup Releasing
        /\ phase[p] # "granted"
        /\ pc[p] \in Acquiring => p \notin active /\ p \notin waiting /\ ~failed[p]

\* Where a coroutine can be while its request is in the active list.
ActiveState ==
    \A p \in active :
        /\ pc[p] \in Acquiring \cup Releasing \cup {"holding"}
        /\ pc[p] \in Acquiring => phase[p] = "granted" /\ ~failed[p]
        /\ pc[p] \in Releasing => phase[p] # "granted"

\* Where a coroutine can be while its request is in the waiting deque.
WaitingState ==
    \A p \in waiting :
        /\ pc[p] \in Acquiring
        /\ phase[p] # "granted"
        /\ ~failed[p]
        /\ p \notin active

\* The deque is totally ordered.
DequeOrder ==
    /\ \A p \in waiting : ahead[p] \subseteq waiting \ {p}
    /\ \A p, q \in waiting : p # q => p \in ahead[q] \/ q \in ahead[p]

\* The phase follows the coroutine through await_suspend.
PhaseState ==
    \A p \in Procs :
        /\ pc[p] \in {"installing", "releasing"} => phase[p] # "parked"
        /\ pc[p] \in {"suspended", "draining"} => phase[p] # "installing"

\* The undecided requests are queued or waiting, the decided ones active.
DecidedState ==
    \A p \in Procs :
        /\ pc[p] = "holding" => p \in active
        /\ pc[p] \in Acquiring /\ phase[p] = "granted" /\ ~failed[p] => p \in active
        /\ pc[p] \in Acquiring /\ phase[p] # "granted" => p \in waiting \/ InQueue(p)
        /\ pc[p] \in Releasing /\ phase[p] # "granted" => p \in active /\ InQueue(p)

\* Exactly the suspended coroutines of decided requests are scheduled.
ScheduledState ==
    \A p \in Procs :
        p \in scheduled <=>
            \/ pc[p] \in {"suspended", "draining"} /\ phase[p] = "granted"
            \/ pc[p] = "handing_over"

\* The holders conflict with each other nowhere.
BlockExclusion ==
    \A p, q \in active : p # q => ~Conflicts(req[p], req[q])

IInv ==
    /\ TypeOK
    /\ NoTerminate
    /\ QueuesDistinct
    /\ QueuedUndecided
    /\ ActiveState
    /\ WaitingState
    /\ DequeOrder
    /\ PhaseState
    /\ DecidedState
    /\ ScheduledState
    /\ BlockExclusion
    /\ WaitersAreBlocked
-----------------------------------------------------------------------------
\* Division by the block size keeps the order of byte offsets.
LEMMA DivisionMonotone ==
    ASSUME NEW a \in Nat, NEW b \in Nat, a <= b
    PROVE  a \div Granularity <= b \div Granularity
  BY ConstantsAssumption

\* The order of the two requests does not matter to a conflict.
LEMMA ConflictsSymmetric ==
    ASSUME NEW r, NEW s
    PROVE  Conflicts(r, s) <=> Conflicts(s, r)
  BY DEF Conflicts, Overlaps

\* What a push into the inbox does to the queues.
LEMMA PushQueue ==
    ASSUME TypeOK, QueuesDistinct, NEW p \in Procs, ~InQueue(p),
           inbox' = Append(inbox, p), batch' = batch
    PROVE  /\ QueuesDistinct'
           /\ \A q \in Procs : InQueue(q)' <=> InQueue(q) \/ q = p
           /\ inbox' \in Seq(Procs)
  <1>1. inbox \in Seq(Procs) /\ batch \in Seq(Procs)  BY DEF TypeOK
  <1>2. /\ Len(inbox') = Len(inbox) + 1
        /\ inbox'[Len(inbox) + 1] = p
        /\ \A i \in 1 .. Len(inbox) : inbox'[i] = inbox[i]
        /\ Len(inbox) \in Nat /\ Len(batch) \in Nat
        /\ inbox' \in Seq(Procs)
    BY <1>1
  <1>3. QueuesDistinct'
    BY <1>1, <1>2 DEF QueuesDistinct, InQueue
  <1>4. \A q \in Procs : InQueue(q)' <=> InQueue(q) \/ q = p
    BY <1>1, <1>2 DEF InQueue
  <1> QED  BY <1>2, <1>3, <1>4

\* What poll_once's drain does to the queues.
LEMMA DrainQueue ==
    ASSUME TypeOK, QueuesDistinct, Drain
    PROVE  /\ QueuesDistinct'
           /\ \A q \in Procs : InQueue(q)' <=> InQueue(q)
           /\ inbox' \in Seq(Procs) /\ batch' \in Seq(Procs)
  <1>1. /\ inbox \in Seq(Procs) /\ batch = <<>>
        /\ batch' = inbox /\ inbox' = <<>>
    BY DEF TypeOK, Drain
  <1>2. Len(batch) = 0 /\ Len(inbox') = 0 /\ Len(inbox) \in Nat
    BY <1>1
  <1> QED  BY <1>1, <1>2 DEF QueuesDistinct, InQueue

\* What taking the head of the batch does to the queues.
LEMMA PopQueue ==
    ASSUME TypeOK, QueuesDistinct, NEW p \in Procs, NEW S, NextInBatch(p, S)
    PROVE  /\ QueuesDistinct'
           /\ InQueue(p)
           /\ \A q \in Procs : InQueue(q)' <=> InQueue(q) /\ q # p
           /\ inbox' \in Seq(Procs) /\ batch' \in Seq(Procs)
  <1>1. /\ inbox \in Seq(Procs) /\ batch \in Seq(Procs)
        /\ batch # <<>> /\ p = Head(batch)
        /\ batch' = Tail(batch) /\ inbox' = inbox
    BY DEF TypeOK, NextInBatch
  <1>2. /\ Len(batch) \in Nat \ {0} /\ batch[1] = p
        /\ Len(batch') = Len(batch) - 1
        /\ \A i \in 1 .. Len(batch') : batch'[i] = batch[i + 1]
        /\ batch' \in Seq(Procs)
        /\ Len(inbox) \in Nat
    BY <1>1
  <1>3. InQueue(p)
    BY <1>2 DEF InQueue
  <1>4. ASSUME NEW q \in Procs, InQueue(q), q # p
        PROVE  InQueue(q)'
    <2>1. CASE \E i \in 1 .. Len(inbox) : inbox[i] = q
      BY <2>1, <1>1 DEF InQueue
    <2>2. CASE \E i \in 1 .. Len(batch) : batch[i] = q
      <3>1. PICK i \in 1 .. Len(batch) : batch[i] = q  BY <2>2
      <3>2. i - 1 \in 1 .. Len(batch') /\ batch'[i - 1] = q
        BY <3>1, <1>2, <1>4
      <3> QED  BY <3>2 DEF InQueue
    <2> QED  BY <2>1, <2>2, <1>4 DEF InQueue
  <1>5. ASSUME NEW q \in Procs, InQueue(q)'
        PROVE  InQueue(q) /\ q # p
    BY <1>1, <1>2, <1>5 DEF InQueue, QueuesDistinct
  <1>6. QueuesDistinct'
    BY <1>1, <1>2 DEF QueuesDistinct
  <1> QED  BY <1>2, <1>1, <1>3, <1>4, <1>5, <1>6
-----------------------------------------------------------------------------
USE DEF Acquiring, Releasing

\* acquire() asks for a well-formed range.
LEMMA InputIsRequest ==
    ASSUME NEW p \in Procs, NEW r \in Input(p), ValidRange(r)
    PROVE  r \in Requests
  BY ConstantsAssumption DEF Input, ValidRange, Requests, Modes

\* The initial state satisfies the invariant.
LEMMA InitIInv == Init => IInv
  <1> SUFFICES ASSUME Init PROVE IInv  OBVIOUS
  <1> USE DEF Init
  <1>1. TypeOK
    <2>1. FirstRequest \in Requests  BY DEF FirstRequest, Requests, Modes
    <2>2. <<>> \in Seq(Procs)  OBVIOUS
    <2> QED  BY <2>1, <2>2 DEF TypeOK
  <1>2. /\ Len(inbox) = 0 /\ Len(batch) = 0
        /\ \A p \in Procs : ~InQueue(p)
    BY DEF InQueue
  <1>3. /\ NoTerminate /\ QueuesDistinct /\ QueuedUndecided
        /\ ActiveState /\ WaitingState /\ DequeOrder
    BY <1>2 DEF NoTerminate, QueuesDistinct, QueuedUndecided, ActiveState,
                WaitingState, DequeOrder
  <1>4. PhaseState /\ DecidedState /\ ScheduledState
    BY <1>2 DEF PhaseState, DecidedState, ScheduledState
  <1>5. BlockExclusion /\ WaitersAreBlocked
    BY DEF BlockExclusion, WaitersAreBlocked
  <1> QED  BY <1>1, <1>3, <1>4, <1>5 DEF IInv

\* An idle coroutine has no request in the arbiter.
LEMMA IdleHasNoRequest ==
    ASSUME IInv, NEW p \in Procs, pc[p] = "idle"
    PROVE  /\ p \notin active
           /\ p \notin waiting
           /\ p \notin scheduled
           /\ ~InQueue(p)
           /\ \A q \in waiting : p \notin ahead[q]
  BY DEF IInv, ActiveState, WaitingState, ScheduledState, QueuedUndecided,
         DequeOrder

\* acquire() on the owner worker preserves the invariant.
LEMMA AcquireOnOwnerStep ==
    ASSUME IInv, NEW p \in Procs, NEW r \in Input(p), AcquireOnOwner(p, r)
    PROVE  IInv'
  <1>1. /\ p \notin active /\ p \notin waiting /\ p \notin scheduled
        /\ ~InQueue(p)
        /\ \A q \in waiting : p \notin ahead[q]
        /\ r \in Requests
    BY IdleHasNoRequest, InputIsRequest DEF AcquireOnOwner, NewRequest
  <1>2. /\ \A q \in Procs : InQueue(q)' <=> InQueue(q)
        /\ inbox' = inbox /\ batch' = batch
    BY DEF AcquireOnOwner, InQueue
  <1>3. CASE CanGrantImmediately(r)
    <2> USE <1>1, <1>2, <1>3 DEF IInv, AcquireOnOwner, NewRequest
    <2>1. TypeOK'  BY DEF TypeOK
    <2>2. NoTerminate'  BY DEF NoTerminate
    <2>3. QueuesDistinct'  BY DEF QueuesDistinct
    <2>4. QueuedUndecided'  BY DEF QueuedUndecided, TypeOK
    <2>5. ActiveState'  BY DEF ActiveState, TypeOK
    <2>6. WaitingState'  BY DEF WaitingState, TypeOK
    <2>7. DequeOrder'  BY DEF DequeOrder, TypeOK
    <2>8. PhaseState'  BY DEF PhaseState, TypeOK
    <2>9. DecidedState'  BY DEF DecidedState, TypeOK
    <2>10. ScheduledState'  BY DEF ScheduledState, TypeOK
    <2>11. BlockExclusion'
      BY ConflictsSymmetric DEF BlockExclusion, TypeOK, CanGrantImmediately
    <2>12. WaitersAreBlocked'
      BY DEF WaitersAreBlocked, TypeOK, DequeOrder
    <2> QED  BY <2>1, <2>2, <2>3, <2>4, <2>5, <2>6, <2>7, <2>8, <2>9, <2>10,
                <2>11, <2>12
  <1>4. CASE ~CanGrantImmediately(r)
    <2> USE <1>1, <1>2, <1>4 DEF IInv, AcquireOnOwner, NewRequest
    <2>1. TypeOK'  BY DEF TypeOK
    <2>2. NoTerminate'  BY DEF NoTerminate
    <2>3. QueuesDistinct'  BY DEF QueuesDistinct
    <2>4. QueuedUndecided'  BY DEF QueuedUndecided, TypeOK
    <2>5. ActiveState'  BY DEF ActiveState, TypeOK
    <2>6. WaitingState'  BY DEF WaitingState, TypeOK
    <2>7. DequeOrder'  BY DEF DequeOrder, TypeOK
    <2>8. PhaseState'  BY DEF PhaseState, TypeOK
    <2>9. DecidedState'  BY DEF DecidedState, TypeOK
    <2>10. ScheduledState'  BY DEF ScheduledState, TypeOK
    <2>11. BlockExclusion'  BY DEF BlockExclusion, TypeOK
    <2>12. WaitersAreBlocked'
      BY DEF WaitersAreBlocked, TypeOK, DequeOrder, CanGrantImmediately
    <2> QED  BY <2>1, <2>2, <2>3, <2>4, <2>5, <2>6, <2>7, <2>8, <2>9, <2>10,
                <2>11, <2>12
  <1> QED  BY <1>3, <1>4
\* acquire() elsewhere preserves the invariant.
LEMMA AcquireOffOwnerStep ==
    ASSUME IInv, NEW p \in Procs, NEW r \in Input(p), AcquireOffOwner(p, r)
    PROVE  IInv'
  <1>1. /\ p \notin active /\ p \notin waiting /\ p \notin scheduled
        /\ ~InQueue(p)
        /\ \A q \in waiting : p \notin ahead[q]
        /\ r \in Requests
    BY IdleHasNoRequest, InputIsRequest DEF AcquireOffOwner, NewRequest
  <1>2. /\ QueuesDistinct'
        /\ \A q \in Procs : InQueue(q)' <=> InQueue(q) \/ q = p
        /\ inbox' \in Seq(Procs)
    BY <1>1, PushQueue DEF IInv, AcquireOffOwner, Enqueue
  <1> USE <1>1, <1>2 DEF IInv, AcquireOffOwner, NewRequest, Enqueue
  <1>3. TypeOK'  BY DEF TypeOK
  <1>4. NoTerminate'  BY DEF NoTerminate
  <1>5. QueuesDistinct'  BY <1>2
  <1>6. QueuedUndecided'  BY DEF QueuedUndecided, TypeOK
  <1>7. ActiveState'  BY DEF ActiveState, TypeOK
  <1>8. WaitingState'  BY DEF WaitingState, TypeOK
  <1>9. DequeOrder'  BY DEF DequeOrder, TypeOK
  <1>10. PhaseState'  BY DEF PhaseState, TypeOK
  <1>11. DecidedState'  BY DEF DecidedState, TypeOK
  <1>12. ScheduledState'  BY DEF ScheduledState, TypeOK
  <1>13. BlockExclusion'  BY DEF BlockExclusion, TypeOK
  <1>14. WaitersAreBlocked'  BY DEF WaitersAreBlocked, TypeOK
  <1> QED  BY <1>3, <1>4, <1>5, <1>6, <1>7, <1>8, <1>9, <1>10, <1>11, <1>12,
              <1>13, <1>14

\* The end of await_suspend preserves the invariant.
LEMMA ParkStep ==
    ASSUME IInv, NEW p \in Procs, Park(p)
    PROVE  IInv'
  <1>1. \A q \in Procs : InQueue(q)' <=> InQueue(q)
    BY DEF Park, InQueue
  <1> USE <1>1 DEF IInv, Park, Continuation
  <1>2. TypeOK'  BY DEF TypeOK
  <1>3. NoTerminate'  BY DEF NoTerminate, PhaseState, TypeOK
  <1>4. QueuesDistinct'  BY DEF QueuesDistinct
  <1>5. QueuedUndecided'  BY DEF QueuedUndecided, TypeOK
  <1>6. ActiveState'  BY DEF ActiveState, TypeOK, DecidedState
  <1>7. WaitingState'  BY DEF WaitingState, TypeOK
  <1>8. DequeOrder'  BY DEF DequeOrder, TypeOK
  <1>9. PhaseState'  BY DEF PhaseState, TypeOK
  <1>10. DecidedState'  BY DEF DecidedState, TypeOK
  <1>11. ScheduledState'  BY DEF ScheduledState, TypeOK, PhaseState
  <1>12. BlockExclusion'  BY DEF BlockExclusion, TypeOK
  <1>13. WaitersAreBlocked'  BY DEF WaitersAreBlocked, TypeOK
  <1> QED  BY <1>2, <1>3, <1>4, <1>5, <1>6, <1>7, <1>8, <1>9, <1>10, <1>11,
              <1>12, <1>13

\* Resuming a scheduled coroutine preserves the invariant.
LEMMA ResumeStep ==
    ASSUME IInv, NEW p \in Procs, Resume(p)
    PROVE  IInv'
  <1>1. \A q \in Procs : InQueue(q)' <=> InQueue(q)
    BY DEF Resume, InQueue
  <1>2. \/ pc[p] \in {"suspended", "draining"} /\ phase[p] = "granted"
        \/ pc[p] = "handing_over"
    BY DEF IInv, ScheduledState, Resume
  <1>3. p \notin waiting /\ ~InQueue(p)
    BY <1>2 DEF IInv, WaitingState, QueuedUndecided
  <1> USE <1>1, <1>2, <1>3 DEF IInv, Resume, Continuation
  <1>4. TypeOK'  BY DEF TypeOK
  <1>5. NoTerminate'  BY DEF NoTerminate
  <1>6. QueuesDistinct'  BY DEF QueuesDistinct
  <1>7. QueuedUndecided'  BY DEF QueuedUndecided, TypeOK
  <1>8. ActiveState'  BY DEF ActiveState, TypeOK
  <1>9. WaitingState'  BY DEF WaitingState, TypeOK
  <1>10. DequeOrder'  BY DEF DequeOrder, TypeOK
  <1>11. PhaseState'  BY DEF PhaseState, TypeOK
  <1>12. DecidedState'  BY DEF DecidedState, TypeOK
  <1>13. ScheduledState'  BY DEF ScheduledState, TypeOK
  <1>14. BlockExclusion'  BY DEF BlockExclusion, TypeOK
  <1>15. WaitersAreBlocked'  BY DEF WaitersAreBlocked, TypeOK
  <1> QED  BY <1>4, <1>5, <1>6, <1>7, <1>8, <1>9, <1>10, <1>11, <1>12, <1>13,
              <1>14, <1>15

\* Draining the inbox preserves the invariant.
LEMMA DrainStep ==
    ASSUME IInv, Drain
    PROVE  IInv'
  <1>1. /\ QueuesDistinct'
        /\ \A q \in Procs : InQueue(q)' <=> InQueue(q)
        /\ inbox' \in Seq(Procs) /\ batch' \in Seq(Procs)
    BY DrainQueue DEF IInv
  <1> USE <1>1 DEF IInv
  <1>2. TypeOK'  BY DEF Drain, TypeOK
  <1>3. NoTerminate'  BY DEF Drain, NoTerminate
  <1>4. QueuesDistinct'  BY <1>1
  <1>5. QueuedUndecided'  BY DEF Drain, QueuedUndecided, TypeOK
  <1>6. ActiveState'  BY DEF Drain, ActiveState, TypeOK
  <1>7. WaitingState'  BY DEF Drain, WaitingState, TypeOK
  <1>8. DequeOrder'  BY DEF Drain, DequeOrder, TypeOK
  <1>9. PhaseState'  BY DEF Drain, PhaseState, TypeOK
  <1>10. DecidedState'  BY DEF Drain, DecidedState, TypeOK
  <1>11. ScheduledState'  BY DEF Drain, ScheduledState, TypeOK
  <1>12. BlockExclusion'  BY DEF Drain, BlockExclusion, TypeOK
  <1>13. WaitersAreBlocked'  BY DEF Drain, WaitersAreBlocked, TypeOK
  <1> QED  BY <1>2, <1>3, <1>4, <1>5, <1>6, <1>7, <1>8, <1>9, <1>10, <1>11,
              <1>12, <1>13
\* Deciding a queued acquire preserves the invariant.
LEMMA PollAcquireStep ==
    ASSUME IInv, NEW p \in Procs, PollAcquire(p)
    PROVE  IInv'
  <1>1. /\ QueuesDistinct'
        /\ InQueue(p)
        /\ \A q \in Procs : InQueue(q)' <=> InQueue(q) /\ q # p
        /\ inbox' \in Seq(Procs) /\ batch' \in Seq(Procs)
    BY PopQueue DEF IInv, PollAcquire
  <1>2. /\ pc[p] \in Acquiring /\ phase[p] # "granted" /\ ~failed[p]
        /\ p \notin active /\ p \notin waiting
    BY <1>1 DEF IInv, QueuedUndecided, PollAcquire, NextInBatch
  <1>3. CASE CanGrantImmediately(req[p])
    <2> USE <1>1, <1>2, <1>3 DEF IInv, PollAcquire, Wake, Parked
    <2>1. TypeOK'  BY DEF TypeOK, WorkerAfterGrant
    <2>2. NoTerminate'  BY DEF NoTerminate
    <2>3. QueuesDistinct'  BY <1>1
    <2>4. QueuedUndecided'  BY DEF QueuedUndecided, TypeOK
    <2>5. ActiveState'  BY DEF ActiveState, TypeOK
    <2>6. WaitingState'  BY DEF WaitingState, TypeOK
    <2>7. DequeOrder'  BY DEF DequeOrder, TypeOK
    <2>8. PhaseState'  BY DEF PhaseState, TypeOK
    <2>9. DecidedState'  BY DEF DecidedState, TypeOK
    <2>10. ScheduledState'  BY DEF ScheduledState, TypeOK, PhaseState
    <2>11. BlockExclusion'
      BY ConflictsSymmetric DEF BlockExclusion, TypeOK, CanGrantImmediately
    <2>12. WaitersAreBlocked'  BY DEF WaitersAreBlocked, TypeOK, DequeOrder
    <2> QED  BY <2>1, <2>2, <2>3, <2>4, <2>5, <2>6, <2>7, <2>8, <2>9, <2>10,
                <2>11, <2>12
  <1>4. CASE ~CanGrantImmediately(req[p])
    <2> USE <1>1, <1>2, <1>4 DEF IInv, PollAcquire
    <2>1. TypeOK'  BY DEF TypeOK
    <2>2. NoTerminate'  BY DEF NoTerminate
    <2>3. QueuesDistinct'  BY <1>1
    <2>4. QueuedUndecided'  BY DEF QueuedUndecided, TypeOK
    <2>5. ActiveState'  BY DEF ActiveState, TypeOK
    <2>6. WaitingState'  BY DEF WaitingState, TypeOK
    <2>7. DequeOrder'  BY DEF DequeOrder, TypeOK
    <2>8. PhaseState'  BY DEF PhaseState, TypeOK
    <2>9. DecidedState'  BY DEF DecidedState, TypeOK
    <2>10. ScheduledState'  BY DEF ScheduledState, TypeOK
    <2>11. BlockExclusion'  BY DEF BlockExclusion, TypeOK
    <2>12. WaitersAreBlocked'
      BY DEF WaitersAreBlocked, TypeOK, DequeOrder, CanGrantImmediately
    <2> QED  BY <2>1, <2>2, <2>3, <2>4, <2>5, <2>6, <2>7, <2>8, <2>9, <2>10,
                <2>11, <2>12
  <1> QED  BY <1>3, <1>4

\* Failing a queued acquire preserves the invariant.
LEMMA PollAcquireFailsStep ==
    ASSUME IInv, NEW p \in Procs, PollAcquireFails(p)
    PROVE  IInv'
  <1>1. /\ QueuesDistinct'
        /\ InQueue(p)
        /\ \A q \in Procs : InQueue(q)' <=> InQueue(q) /\ q # p
        /\ inbox' \in Seq(Procs) /\ batch' \in Seq(Procs)
    BY PopQueue DEF IInv, PollAcquireFails
  <1>2. /\ pc[p] \in Acquiring /\ phase[p] # "granted" /\ ~failed[p]
        /\ p \notin active /\ p \notin waiting
    BY <1>1 DEF IInv, QueuedUndecided, PollAcquireFails, NextInBatch
  <1> USE <1>1, <1>2 DEF IInv, PollAcquireFails, Wake, Parked
  <1>3. TypeOK'  BY DEF TypeOK
  <1>4. NoTerminate'  BY DEF NoTerminate
  <1>5. QueuesDistinct'  BY <1>1
  <1>6. QueuedUndecided'  BY DEF QueuedUndecided, TypeOK
  <1>7. ActiveState'  BY DEF ActiveState, TypeOK
  <1>8. WaitingState'  BY DEF WaitingState, TypeOK
  <1>9. DequeOrder'  BY DEF DequeOrder, TypeOK
  <1>10. PhaseState'  BY DEF PhaseState, TypeOK
  <1>11. DecidedState'  BY DEF DecidedState, TypeOK
  <1>12. ScheduledState'  BY DEF ScheduledState, TypeOK, PhaseState
  <1>13. BlockExclusion'  BY DEF BlockExclusion, TypeOK
  <1>14. WaitersAreBlocked'  BY DEF WaitersAreBlocked, TypeOK
  <1> QED  BY <1>3, <1>4, <1>5, <1>6, <1>7, <1>8, <1>9, <1>10, <1>11, <1>12,
              <1>13, <1>14

\* What handing out the free ranges does: stated once for both releases.
LEMMA GrantWaitersFacts ==
    ASSUME IInv, NEW p \in active, NEW G, G = Grantable(p), GrantWaiters(p, G),
           req' = req
    PROVE  /\ BlockExclusion'
           /\ WaitersAreBlocked'
           /\ DequeOrder'
           /\ G \subseteq waiting
           /\ p \notin waiting
           /\ active' \subseteq Procs /\ waiting' \subseteq Procs
           /\ ahead' \in [Procs -> SUBSET Procs]
           /\ worker' \in [Procs -> {"owner", "other"}]
  <1> USE DEF IInv, GrantWaiters, TypeOK
  <1>1. G \subseteq waiting /\ p \notin waiting
    BY DEF Grantable, WaitingState
  <1>2. BlockExclusion'
    <2> SUFFICES ASSUME NEW a \in (active \ {p}) \cup G,
                        NEW b \in (active \ {p}) \cup G, a # b
                 PROVE  ~Conflicts(req[a], req[b])
      BY DEF BlockExclusion
    <2>1. CASE a \in G /\ b \in G
      BY <2>1, <1>1, ConflictsSymmetric DEF Grantable, DequeOrder
    <2>2. CASE a \in active \ {p} \/ b \in active \ {p}
      BY <2>2, <1>1, ConflictsSymmetric DEF Grantable, BlockExclusion
    <2> QED  BY <2>1, <2>2
  <1>3. WaitersAreBlocked'
    <2> SUFFICES ASSUME NEW w \in waiting \ G
                 PROVE  \E q \in (active \ {p}) \cup G \cup (ahead[w] \ G) :
                            Conflicts(req[w], req[q])
      BY <1>1 DEF WaitersAreBlocked
    <2>1. PICK q \in (active \ {p}) \cup ahead[w] : Conflicts(req[w], req[q])
      BY DEF Grantable
    <2> QED  BY <2>1
  <1>4. DequeOrder'
    BY <1>1 DEF DequeOrder
  <1>5. /\ active' \subseteq Procs /\ waiting' \subseteq Procs
        /\ ahead' \in [Procs -> SUBSET Procs]
        /\ worker' \in [Procs -> {"owner", "other"}]
    BY <1>1 DEF WorkerAfterGrant
  <1> QED  BY <1>1, <1>2, <1>3, <1>4, <1>5

\* Processing a queued release preserves the invariant.
LEMMA PollReleaseStep ==
    ASSUME IInv, NEW p \in Procs, PollRelease(p)
    PROVE  IInv'
  <1> DEFINE G == Grantable(p)
  <1>1. /\ QueuesDistinct'
        /\ InQueue(p)
        /\ \A q \in Procs : InQueue(q)' <=> InQueue(q) /\ q # p
        /\ inbox' \in Seq(Procs) /\ batch' \in Seq(Procs)
    BY PopQueue DEF IInv, PollRelease
  <1>2. pc[p] \in Releasing /\ phase[p] # "granted" /\ p \in active
    BY <1>1 DEF IInv, QueuedUndecided, DecidedState, PollRelease, NextInBatch
  <1>3. /\ BlockExclusion' /\ WaitersAreBlocked' /\ DequeOrder'
        /\ G \subseteq waiting /\ p \notin waiting
        /\ active' \subseteq Procs /\ waiting' \subseteq Procs
        /\ ahead' \in [Procs -> SUBSET Procs]
        /\ worker' \in [Procs -> {"owner", "other"}]
    BY <1>2, GrantWaitersFacts DEF PollRelease
  <1>4. /\ active' = (active \ {p}) \cup G /\ waiting' = waiting \ G
        /\ phase' = [q \in Procs |-> IF q \in G \cup {p} THEN "granted"
                                                       ELSE phase[q]]
        /\ aborted' = (aborted \/ \E q \in G \cup {p} : phase[q] = "granted")
        /\ scheduled' = scheduled \cup {q \in G \cup {p} : phase[q] = "parked"}
        /\ pc' = pc /\ req' = req /\ failed' = failed
    BY DEF PollRelease, GrantWaiters, Wake, Parked
  <1> HIDE DEF G
  <1> USE <1>1, <1>2, <1>3, <1>4 DEF IInv
  <1>5. TypeOK'  BY DEF TypeOK
  <1>6. NoTerminate'  BY DEF NoTerminate, WaitingState
  <1>7. QueuesDistinct'  BY <1>1
  <1>8. QueuedUndecided'  BY DEF QueuedUndecided, TypeOK, WaitingState
  <1>9. ActiveState'  BY DEF ActiveState, TypeOK, WaitingState
  <1>10. WaitingState'  BY DEF WaitingState, TypeOK
  <1>11. DequeOrder'  BY <1>3
  <1>12. PhaseState'  BY DEF PhaseState, TypeOK
  <1>13. DecidedState'  BY DEF DecidedState, TypeOK, WaitingState
  <1>14. ScheduledState'
    BY DEF ScheduledState, TypeOK, PhaseState, WaitingState
  <1>15. BlockExclusion'  BY <1>3
  <1>16. WaitersAreBlocked'  BY <1>3
  <1> QED  BY <1>5, <1>6, <1>7, <1>8, <1>9, <1>10, <1>11, <1>12, <1>13, <1>14,
              <1>15, <1>16
\* A release on the owner worker preserves the invariant.
LEMMA ReleaseOnOwnerStep ==
    ASSUME IInv, NEW p \in Procs, ReleaseOnOwner(p)
    PROVE  IInv'
  <1> DEFINE G == Grantable(p)
             H == DirectHeirs(G)
  <1>1. pc[p] = "holding" /\ p \in active /\ ~InQueue(p)
    BY DEF IInv, DecidedState, QueuedUndecided, ReleaseOnOwner
  <1>2. /\ BlockExclusion' /\ WaitersAreBlocked' /\ DequeOrder'
        /\ G \subseteq waiting /\ p \notin waiting
        /\ active' \subseteq Procs /\ waiting' \subseteq Procs
        /\ ahead' \in [Procs -> SUBSET Procs]
        /\ worker' \in [Procs -> {"owner", "other"}]
    BY <1>1, GrantWaitersFacts DEF ReleaseOnOwner
  <1>3. /\ H \subseteq G
        /\ \A q \in H : pc[q] = "suspended" /\ phase[q] = "parked"
    BY <1>2 DEF DirectHeirs, Parked, IInv, WaitingState, PhaseState, TypeOK
  <1>4. \A q \in H : Continuation(q) = "holding"
    BY <1>2, <1>3 DEF Continuation, IInv, WaitingState
  <1>5. /\ active' = (active \ {p}) \cup G /\ waiting' = waiting \ G
        /\ phase' = [q \in Procs |-> IF q \in G THEN "granted" ELSE
                                     IF q = p THEN "installing" ELSE phase[q]]
        /\ aborted' = (aborted \/ \E q \in G : phase[q] = "granted")
        /\ scheduled' = (scheduled \cup {q \in G : phase[q] = "parked"} \cup
                              (IF H = {} THEN {} ELSE {p})) \ H
        /\ pc' \in [Procs -> {"idle", "installing", "suspended", "holding",
                              "releasing", "draining", "handing_over"}]
        /\ \A q \in H : pc'[q] = "holding"
        /\ \A q \in Procs \ (H \cup {p}) : pc'[q] = pc[q]
        /\ pc'[p] = IF H = {} THEN "idle" ELSE "handing_over"
        /\ req' = req /\ failed' = failed /\ inbox' = inbox /\ batch' = batch
    BY <1>1, <1>2, <1>3, <1>4 DEF ReleaseOnOwner, GrantWaiters, Parked, IInv, TypeOK
  <1>6. \A q \in Procs : InQueue(q)' <=> InQueue(q)
    BY <1>5 DEF InQueue
  <1> HIDE DEF G, H
  <1> USE <1>1, <1>2, <1>3, <1>5, <1>6 DEF IInv
  <1>7. TypeOK'  BY DEF TypeOK
  <1>8. NoTerminate'  BY DEF NoTerminate, WaitingState
  <1>9. QueuesDistinct'  BY DEF QueuesDistinct
  <1>10. QueuedUndecided'  BY DEF QueuedUndecided, TypeOK, WaitingState
  <1>11. ActiveState'  BY DEF ActiveState, TypeOK, WaitingState
  <1>12. WaitingState'  BY DEF WaitingState, TypeOK
  <1>13. DequeOrder'  BY <1>2
  <1>14. PhaseState'  BY DEF PhaseState, TypeOK, WaitingState
  <1>15. DecidedState'  BY DEF DecidedState, TypeOK, WaitingState
  <1>16. ScheduledState'
    BY DEF ScheduledState, TypeOK, PhaseState, WaitingState
  <1>17. BlockExclusion'  BY <1>2
  <1>18. WaitersAreBlocked'  BY <1>2
  <1> QED  BY <1>7, <1>8, <1>9, <1>10, <1>11, <1>12, <1>13, <1>14, <1>15,
              <1>16, <1>17, <1>18

\* A release elsewhere preserves the invariant.
LEMMA ReleaseOffOwnerStep ==
    ASSUME IInv, NEW p \in Procs, ReleaseOffOwner(p)
    PROVE  IInv'
  <1>1. ~InQueue(p)
    BY DEF IInv, QueuedUndecided, ReleaseOffOwner
  <1>2. /\ QueuesDistinct'
        /\ \A q \in Procs : InQueue(q)' <=> InQueue(q) \/ q = p
        /\ inbox' \in Seq(Procs)
    BY <1>1, PushQueue DEF IInv, ReleaseOffOwner, Enqueue
  <1> USE <1>1, <1>2 DEF IInv, ReleaseOffOwner, Enqueue
  <1>3. TypeOK'  BY DEF TypeOK
  <1>4. NoTerminate'  BY DEF NoTerminate
  <1>5. QueuesDistinct'  BY <1>2
  <1>6. QueuedUndecided'  BY DEF QueuedUndecided, TypeOK
  <1>7. ActiveState'  BY DEF ActiveState, TypeOK
  <1>8. WaitingState'  BY DEF WaitingState, TypeOK
  <1>9. DequeOrder'  BY DEF DequeOrder, TypeOK
  <1>10. PhaseState'  BY DEF PhaseState, TypeOK
  <1>11. DecidedState'  BY DEF DecidedState, TypeOK
  <1>12. ScheduledState'  BY DEF ScheduledState, TypeOK
  <1>13. BlockExclusion'  BY DEF BlockExclusion, TypeOK
  <1>14. WaitersAreBlocked'  BY DEF WaitersAreBlocked, TypeOK
  <1> QED  BY <1>3, <1>4, <1>5, <1>6, <1>7, <1>8, <1>9, <1>10, <1>11, <1>12,
              <1>13, <1>14
-----------------------------------------------------------------------------
\* The invariant is inductive: every step of acquire, release and poll_once
\* keeps it.
THEOREM Inductive == IInv /\ [Next]_vars => IInv'
  <1> SUFFICES ASSUME IInv, [Next]_vars  PROVE IInv'
    OBVIOUS
  <1>1. ASSUME NEW p \in Procs, NEW r \in Input(p), AcquireOnOwner(p, r)
        PROVE  IInv'
    BY <1>1, AcquireOnOwnerStep
  <1>2. ASSUME NEW p \in Procs, NEW r \in Input(p), AcquireOffOwner(p, r)
        PROVE  IInv'
    BY <1>2, AcquireOffOwnerStep
  <1>3. ASSUME NEW p \in Procs, Park(p)  PROVE IInv'
    BY <1>3, ParkStep
  <1>4. ASSUME NEW p \in Procs, Resume(p)  PROVE IInv'
    BY <1>4, ResumeStep
  <1>5. ASSUME Drain  PROVE IInv'
    BY <1>5, DrainStep
  <1>6. ASSUME NEW p \in Procs, PollAcquire(p)  PROVE IInv'
    BY <1>6, PollAcquireStep
  <1>7. ASSUME NEW p \in Procs, PollAcquireFails(p)  PROVE IInv'
    BY <1>7, PollAcquireFailsStep
  <1>8. ASSUME NEW p \in Procs, PollRelease(p)  PROVE IInv'
    BY <1>8, PollReleaseStep
  <1>9. ASSUME NEW p \in Procs, ReleaseOnOwner(p)  PROVE IInv'
    BY <1>9, ReleaseOnOwnerStep
  <1>10. ASSUME NEW p \in Procs, ReleaseOffOwner(p)  PROVE IInv'
    BY <1>10, ReleaseOffOwnerStep
  <1>11. CASE UNCHANGED vars
    <2>0. \A q \in Procs : InQueue(q)' <=> InQueue(q)
      BY <1>11 DEF vars, InQueue
    <2> USE <1>11, <2>0 DEF IInv, vars
    <2>1. TypeOK'  BY DEF TypeOK
    <2>2. NoTerminate'  BY DEF NoTerminate
    <2>3. QueuesDistinct'  BY DEF QueuesDistinct
    <2>4. QueuedUndecided'  BY DEF QueuedUndecided
    <2>5. ActiveState'  BY DEF ActiveState
    <2>6. WaitingState'  BY DEF WaitingState
    <2>7. DequeOrder'  BY DEF DequeOrder
    <2>8. PhaseState'  BY DEF PhaseState
    <2>9. DecidedState'  BY DEF DecidedState
    <2>10. ScheduledState'  BY DEF ScheduledState
    <2>11. BlockExclusion'  BY DEF BlockExclusion
    <2>12. WaitersAreBlocked'  BY DEF WaitersAreBlocked
    <2> QED  BY <2>1, <2>2, <2>3, <2>4, <2>5, <2>6, <2>7, <2>8, <2>9, <2>10,
                <2>11, <2>12
  <1> QED
    BY <1>1, <1>2, <1>3, <1>4, <1>5, <1>6, <1>7, <1>8, <1>9, <1>10, <1>11
       DEF Next

\* The inductive invariant holds in every reachable state.
THEOREM Invariance == Spec => []IInv
  BY InitIInv, Inductive, PTL DEF Spec

\* Two requests with a common byte share a block, so the rounding of
\* FirstBlock and LastBlock hides no conflict.
LEMMA BytesShareBlock ==
    ASSUME NEW r \in Requests, NEW s \in Requests, SharesBytes(r, s)
    PROVE  Overlaps(r, s)
  <1>1. /\ r.offset \in Nat /\ r.offset + r.length - 1 \in Nat
        /\ s.offset \in Nat /\ s.offset + s.length - 1 \in Nat
    BY DEF Requests
  <1>2. /\ r.offset <= s.offset + s.length - 1
        /\ s.offset <= r.offset + r.length - 1
    BY DEF SharesBytes
  <1> QED  BY <1>1, <1>2, DivisionMonotone DEF Overlaps, FirstBlock, LastBlock

\* Permits held together never share a byte that one of them writes.
THEOREM Exclusion == Spec => []MutualExclusion
  <1>1. IInv => MutualExclusion
    BY BytesShareBlock
       DEF IInv, BlockExclusion, MutualExclusion, Conflicts, TypeOK, Requests, Modes
  <1> QED  BY <1>1, Invariance, PTL

\* The variables keep their types.
THEOREM TypeCorrect == Spec => []TypeOK
  <1>1. IInv => TypeOK  BY DEF IInv
  <1> QED  BY <1>1, Invariance, PTL

\* The park/grant exchange never reaches std::terminate, and a permit in hand
\* is always found in the active list.
THEOREM ProtocolSafe == Spec => [](NoTerminate /\ PermitIsActive)
  <1>1. IInv => NoTerminate /\ PermitIsActive
    BY DEF IInv, PermitIsActive, DecidedState
  <1> QED  BY <1>1, Invariance, PTL

\* A coroutine is resumed only while it is suspended, and a suspended one
\* always has its wake-up to come.
THEOREM WakeupsExact == Spec => [](ResumeOnlySuspended /\ NoLostWakeup)
  <1>1. IInv => ResumeOnlySuspended
    BY DEF IInv, ResumeOnlySuspended, ScheduledState, TypeOK
  <1>2. IInv => NoLostWakeup
    BY DEF IInv, NoLostWakeup, ScheduledState, DecidedState
  <1> QED  BY <1>1, <1>2, Invariance, PTL

\* A request waits only behind one it conflicts with.
THEOREM NoIdleWaiting == Spec => []WaitersAreBlocked
  <1>1. IInv => WaitersAreBlocked  BY DEF IInv
  <1> QED  BY <1>1, Invariance, PTL

\* No request is granted past a conflicting one that came before it.
THEOREM Fifo == Spec => NoOvertake
  <1> DEFINE Step == \A p \in active' \ active, q \in waiting \cap waiting' :
                        Conflicts(req'[p], req'[q]) => p \in ahead[q]
  <1>1. ASSUME IInv, Next  PROVE Step
    <2> SUFFICES ASSUME NEW a \in active' \ active, NEW b \in waiting \cap waiting',
                        Conflicts(req'[a], req'[b])
                 PROVE  a \in ahead[b]
      OBVIOUS
    <2> USE <1>1 DEF IInv
    <2>1. ASSUME NEW p \in Procs, NEW r \in Input(p), AcquireOnOwner(p, r)
          PROVE  a \in ahead[b]
      BY <2>1, ConflictsSymmetric
         DEF AcquireOnOwner, NewRequest, CanGrantImmediately, TypeOK, WaitingState
    <2>2. ASSUME NEW p \in Procs, PollAcquire(p)  PROVE a \in ahead[b]
      BY <2>2 DEF PollAcquire, CanGrantImmediately, TypeOK
    <2>3. ASSUME NEW p \in Procs,
                 GrantWaiters(p, Grantable(p)), req' = req
          PROVE  a \in ahead[b]
      BY <2>3, ConflictsSymmetric DEF GrantWaiters, Grantable, DequeOrder
    <2>4. CASE active' = active
      BY <2>4
    <2> QED
      BY <2>1, <2>2, <2>3, <2>4
         DEF Next, AcquireOffOwner, Park, Resume, Drain, PollAcquireFails,
             PollRelease, ReleaseOnOwner, ReleaseOffOwner
  <1>2. IInv /\ [Next]_vars => [Step]_vars
    BY <1>1
  <1> QED  BY <1>2, Invariance, PTL DEF Spec, NoOvertake
-----------------------------------------------------------------------------
\* The abstract state of each coroutine, read off the invariant.
LEMMA AbstractState ==
    ASSUME IInv
    PROVE  /\ \A p \in Procs : LockState[p] = "held" <=> p \in active
           /\ \A p \in Procs : LockState[p] = "wanted" <=>
                    p \notin active /\ pc[p] \in Acquiring /\ ~failed[p]
           /\ \A p \in Procs : LockState[p] \in {"free", "wanted", "held"}
           /\ Lock!Holders = active
           /\ waiting \subseteq Lock!Seekers
           /\ LockState = [p \in Procs |-> LockState[p]]
  <1>1. /\ \A p \in Procs : LockState[p] = "held" <=> p \in active
        /\ \A p \in Procs : LockState[p] = "wanted" <=>
                p \notin active /\ pc[p] \in Acquiring /\ ~failed[p]
        /\ \A p \in Procs : LockState[p] \in {"free", "wanted", "held"}
        /\ LockState = [p \in Procs |-> LockState[p]]
    BY DEF LockState
  <1> QED
    BY <1>1 DEF Lock!Holders, Lock!Seekers, IInv, TypeOK, WaitingState

\* Holders that conflict in no block clash in no byte.
LEMMA ExclusiveHolders ==
    ASSUME NEW S \in SUBSET Procs, NEW rng \in [Procs -> Requests],
           \A p, q \in S : p # q => ~Conflicts(rng[p], rng[q])
    PROVE  Lock!Exclusive(S, rng)
  BY BytesShareBlock DEF Lock!Exclusive, Lock!Clash, Conflicts, SharesBytes

\* Every step of the arbiter is a step of the byte-range lock or changes
\* nothing that its users see.
LEMMA StepRefines ==
    ASSUME IInv, IInv', Next
    PROVE  Lock!Next \/ UNCHANGED <<LockState, req>>
  <1>1. /\ \A p \in Procs : LockState[p] = "held" <=> p \in active
        /\ \A p \in Procs : LockState[p] = "wanted" <=>
                p \notin active /\ pc[p] \in Acquiring /\ ~failed[p]
        /\ \A p \in Procs : LockState[p] \in {"free", "wanted", "held"}
        /\ Lock!Holders = active
        /\ waiting \subseteq Lock!Seekers
        /\ LockState = [p \in Procs |-> LockState[p]]
    BY AbstractState
  <1>2. /\ \A p \in Procs : LockState'[p] = "held" <=> p \in active'
        /\ \A p \in Procs : LockState'[p] = "wanted" <=>
                p \notin active' /\ pc'[p] \in Acquiring /\ ~failed'[p]
        /\ \A p \in Procs : LockState'[p] \in {"free", "wanted", "held"}
        /\ LockState' = [p \in Procs |-> LockState'[p]]
    BY DEF LockState
  <1>3. Lock!Exclusive(active', req')
    BY ExclusiveHolders DEF IInv, TypeOK, BlockExclusion
  <1>4. ASSUME NEW p \in Procs, NEW r \in Input(p), AcquireOnOwner(p, r)
        PROVE  Lock!Next
    <2>0. r \in AllRequests  BY DEF AllRequests
    <2>1. LockState[p] = "free" /\ p \notin active
      BY <1>1, <1>4, IdleHasNoRequest DEF AcquireOnOwner
    <2>2. req' = [req EXCEPT ![p] = r] /\ failed' = [failed EXCEPT ![p] = FALSE]
      BY <1>4 DEF AcquireOnOwner, NewRequest
    <2>3. CASE active' = active \cup {p}
      <3>1. LockState' = [LockState EXCEPT ![p] = "held"]
        BY <1>1, <1>2, <2>1, <2>2, <2>3, <1>4 DEF AcquireOnOwner, IInv, TypeOK, ActiveState
      <3> QED  BY <1>1, <1>3, <2>0, <2>1, <2>2, <2>3, <3>1 DEF Lock!Next, Lock!Ask
    <2>4. CASE active' = active /\ pc' = [pc EXCEPT ![p] = "suspended"]
      <3>1. LockState' = [LockState EXCEPT ![p] = "wanted"]
        <4>1. \A q \in Procs \ {p} : pc'[q] = pc[q] /\ failed'[q] = failed[q]
          BY <2>2, <2>4 DEF IInv, TypeOK
        <4>2. pc'[p] = "suspended" /\ ~failed'[p]
          BY <2>2, <2>4 DEF IInv, TypeOK
        <4>3. \A q \in Procs \ {p} : LockState'[q] = LockState[q]
          BY <1>1, <1>2, <2>4, <4>1
        <4> QED  BY <1>1, <1>2, <2>1, <2>4, <4>2, <4>3
      <3> QED  BY <2>0, <2>1, <2>2, <3>1 DEF Lock!Next, Lock!Ask
    <2> QED  BY <1>4, <2>3, <2>4 DEF AcquireOnOwner
  <1>5. ASSUME NEW p \in Procs, NEW r \in Input(p), AcquireOffOwner(p, r)
        PROVE  Lock!Next
    <2>0. r \in AllRequests  BY DEF AllRequests
    <2>1. LockState[p] = "free" /\ p \notin active
      BY <1>1, <1>5, IdleHasNoRequest DEF AcquireOffOwner
    <2>2. req' = [req EXCEPT ![p] = r] /\ failed' = [failed EXCEPT ![p] = FALSE]
      BY <1>5 DEF AcquireOffOwner, NewRequest
    <2>3. LockState' = [LockState EXCEPT ![p] = "wanted"]
      <3>1. active' = active /\ pc' = [pc EXCEPT ![p] = "installing"]
        BY <1>5 DEF AcquireOffOwner
      <3>2. \A q \in Procs \ {p} : pc'[q] = pc[q] /\ failed'[q] = failed[q]
        BY <2>2, <3>1 DEF IInv, TypeOK
      <3>3. pc'[p] = "installing" /\ ~failed'[p]
        BY <2>2, <3>1 DEF IInv, TypeOK
      <3>4. \A q \in Procs \ {p} : LockState'[q] = LockState[q]
        BY <1>1, <1>2, <3>1, <3>2
      <3> QED  BY <1>1, <1>2, <2>1, <3>1, <3>3, <3>4
    <2> QED  BY <2>0, <2>1, <2>2, <2>3 DEF Lock!Next, Lock!Ask
  <1>6. ASSUME NEW p \in Procs, Park(p) \/ Resume(p) \/ ReleaseOffOwner(p)
        PROVE  UNCHANGED <<LockState, req>>
    <2>1. req' = req /\ active' = active /\ failed' = failed
      BY <1>6 DEF Park, Resume, ReleaseOffOwner
    <2>2. \A q \in Procs : \/ q \in active \/ failed[q]
                           \/ pc[q] \in Acquiring <=> pc'[q] \in Acquiring
      BY <1>6 DEF Park, Resume, ReleaseOffOwner, Continuation, IInv,
                  TypeOK, DecidedState, ScheduledState
    <2> QED  BY <1>1, <1>2, <2>1, <2>2
  <1>7. ASSUME NEW p \in Procs, PollAcquire(p)
        PROVE  Lock!Next \/ UNCHANGED <<LockState, req>>
    <2>1. req' = req /\ pc' = pc /\ failed' = failed
      BY <1>7 DEF PollAcquire
    <2>2. pc[p] \in Acquiring /\ p \notin active /\ ~failed[p]
      BY <1>7, PopQueue DEF IInv, QueuedUndecided, PollAcquire, NextInBatch
    <2>3. CASE active' = active
      BY <1>1, <1>2, <2>1, <2>3
    <2>4. CASE active' = active \cup {p}
      <3>1. {p} \subseteq Lock!Seekers
        BY <1>1, <2>2 DEF Lock!Seekers
      <3>2. LockState' = [q \in Procs |-> IF q \in {p} THEN "held" ELSE LockState[q]]
        BY <1>1, <1>2, <2>1, <2>2, <2>4
      <3>3. Lock!Grant({p})
        BY <1>1, <1>3, <2>1, <2>4, <3>1, <3>2 DEF Lock!Grant
      <3> QED  BY <3>3 DEF Lock!Next
    <2> QED  BY <1>7, <2>3, <2>4 DEF PollAcquire
  <1>8. ASSUME NEW p \in Procs, PollAcquireFails(p)
        PROVE  Lock!Next
    <2>1. pc[p] \in Acquiring /\ p \notin active /\ ~failed[p]
      BY <1>8, PopQueue DEF IInv, QueuedUndecided, PollAcquireFails, NextInBatch
    <2>2. LockState' = [LockState EXCEPT ![p] = "free"]
      <3>1. /\ pc' = pc /\ active' = active /\ failed'[p]
            /\ \A q \in Procs \ {p} : failed'[q] = failed[q]
        BY <1>8 DEF PollAcquireFails, IInv, TypeOK
      <3>2. \A q \in Procs \ {p} : LockState'[q] = LockState[q]
        BY <1>1, <1>2, <3>1
      <3>3. LockState'[p] = "free"
        BY <1>2, <2>1, <3>1
      <3> QED  BY <1>1, <1>2, <3>2, <3>3
    <2> QED  BY <1>1, <1>8, <2>1, <2>2 DEF Lock!Next, Lock!Refuse, PollAcquireFails
  <1>9. ASSUME NEW p \in active, NEW G \in SUBSET waiting,
               active' = (active \ {p}) \cup G, pc'[p] \notin Acquiring,
               req' = req, failed' = failed,
               \A q \in Procs \ {p} : pc'[q] = pc[q] \/ q \in active'
        PROVE  Lock!Next
    <2>1. p \in Procs /\ p \notin waiting /\ G \subseteq Procs
      BY <1>9 DEF IInv, TypeOK, WaitingState
    <2>2. LockState' = [q \in Procs |-> IF q \in G THEN "held" ELSE
                                        IF q = p THEN "free" ELSE LockState[q]]
      BY <1>1, <1>2, <1>9, <2>1 DEF IInv, WaitingState
    <2>3. Lock!Release(p, G)
      BY <1>1, <1>3, <1>9, <2>1, <2>2 DEF Lock!Release
    <2> QED  BY <2>1, <2>3 DEF Lock!Next
  <1>10. ASSUME NEW p \in Procs, PollRelease(p)
         PROVE  Lock!Next
    <2>1. p \in active /\ pc[p] \notin Acquiring
      BY <1>10, PopQueue DEF IInv, QueuedUndecided, DecidedState, PollRelease, NextInBatch
    <2> QED  BY <1>9, <1>10, <2>1 DEF PollRelease, GrantWaiters, Grantable
  <1>11. ASSUME NEW p \in Procs, ReleaseOnOwner(p)
         PROVE  Lock!Next
    <2> DEFINE G == Grantable(p)
               H == DirectHeirs(G)
    <2>1. p \in active /\ G \in SUBSET waiting /\ p \notin waiting
      BY <1>11 DEF ReleaseOnOwner, IInv, DecidedState, WaitingState, Grantable
    <2>2. H \subseteq G
      BY DEF DirectHeirs, Parked
    <2>3. /\ active' = (active \ {p}) \cup G /\ req' = req /\ failed' = failed
          /\ pc'[p] \notin Acquiring
          /\ \A q \in Procs \ {p} : pc'[q] = pc[q] \/ q \in H
      BY <1>11, <2>1, <2>2 DEF ReleaseOnOwner, GrantWaiters, IInv, TypeOK
    <2> QED  BY <1>9, <2>1, <2>2, <2>3
  <1>12. ASSUME Drain  PROVE UNCHANGED <<LockState, req>>
    BY <1>12 DEF Drain, LockState
  <1> QED
    BY <1>4, <1>5, <1>6, <1>7, <1>8, <1>10, <1>11, <1>12 DEF Next

\* The arbiter implements the reader/writer lock on byte ranges.
THEOREM Refinement == Spec => ImplementsRangeLock
  <1>1. Init => Lock!Init
    <2> SUFFICES ASSUME Init  PROVE Lock!Init
      OBVIOUS
    <2>1. LockState = [p \in Procs |-> "free"]
      BY DEF Init, LockState
    <2>2. FirstRequest \in AllRequests
      BY DEF AllRequests
    <2>3. req \in [Procs -> AllRequests]
      BY <2>2 DEF Init
    <2> QED  BY <2>1, <2>3 DEF Lock!Init
  <1>2. IInv /\ IInv' /\ [Next]_vars => [Lock!Next]_Lock!vars
    <2>1. UNCHANGED vars => UNCHANGED <<LockState, req>>
      BY DEF vars, LockState
    <2> QED  BY <2>1, StepRefines DEF Lock!vars
  <1> QED  BY <1>1, <1>2, Invariance, PTL DEF Spec, ImplementsRangeLock, Lock!Spec
=============================================================================
