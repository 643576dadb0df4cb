----------------------- MODULE RuntimePollersProofs -----------------------
(***************************************************************************)
(* Proofs about RuntimePollers for every set of pollers.                   *)
(***************************************************************************)
EXTENDS RuntimePollers, TLAPS

\* A poller that is being retired is inactive.
RetiredInactive ==
    \A p \in Pollers : pc[p] \in {"observe", "wait", "done", "retired"} => p \notin active

\* Callbacks run only while the worker goes through a list.
CallsWhilePolling == calling # {} => wpc = "poll"

\* An owner that may leave reset waits for a callback that is over.
WaitedQuiet ==
    \A p \in Pollers : pc[p] = "wait" /\ (p \in moved \/ exited) => p \notin calling

\* A worker that has left is not polling.
ExitedGone == exited => wpc = "gone"

IInv ==
    /\ TypeOK
    /\ ResetQuiet
    /\ ListAlive
    /\ StaysListed
    /\ RetiredInactive
    /\ CallsWhilePolling
    /\ WaitedQuiet
    /\ ExitedGone

-----------------------------------------------------------------------------
\* The invariant holds before anything is registered.
LEMMA InitIInv == Init => IInv
  <1> SUFFICES ASSUME Init PROVE IInv
    OBVIOUS
  <1>1. TypeOK
    <2>1. gens = {0} /\ list \in [gens -> SUBSET Pollers]
      BY DEF Init, gens
    <2>2. pc \in [Pollers -> {"new", "registered", "observe", "wait", "done", "retired"}]
      BY DEF Init
    <2>3. dirty \in BOOLEAN /\ exited \in BOOLEAN
      BY DEF Init
    <2>4. current \in {0} /\ reading \in Nat /\ {0} \subseteq Nat
      BY DEF Init
    <2>5. active \subseteq Pollers /\ moved \subseteq Pollers /\ unvisited \subseteq Pollers
      BY DEF Init
    <2>6. calling \in {{}} \cup {{p} : p \in Pollers} /\ wpc \in {"load", "poll", "reclaim", "work", "gone"}
      BY DEF Init
    <2> QED
      BY <2>1, <2>2, <2>3, <2>4, <2>5, <2>6 DEF TypeOK
  <1>2. ResetQuiet /\ ListAlive /\ StaysListed
    BY DEF Init, ResetQuiet, ListAlive, StaysListed
  <1>3. RetiredInactive /\ CallsWhilePolling /\ WaitedQuiet /\ ExitedGone
    BY DEF Init, RetiredInactive, CallsWhilePolling, WaitedQuiet, ExitedGone
  <1> QED
    BY <1>1, <1>2, <1>3 DEF IInv

\* Registering a poller (register_poller) keeps the invariant: the old lists
\* stay, and the new one has every active poller of the old.
LEMMA RegisterStep ==
    ASSUME IInv, NEW p \in Pollers, Register(p)
    PROVE  IInv'
  <1>1. TypeOK'
    BY DEF IInv, TypeOK, Register, workerVars, Goto, gens
  <1>2. ListAlive'
    BY DEF IInv, TypeOK, ListAlive, Register, workerVars, gens
  <1>3. StaysListed'
    BY DEF IInv, TypeOK, StaysListed, Register, workerVars, Goto, gens
  <1>4. ResetQuiet' /\ WaitedQuiet' /\ RetiredInactive'
    BY DEF IInv, TypeOK, ResetQuiet, WaitedQuiet, RetiredInactive, Register, workerVars, Goto
  <1>5. CallsWhilePolling' /\ ExitedGone'
    BY DEF IInv, CallsWhilePolling, ExitedGone, Register, workerVars
  <1> QED
    BY <1>1, <1>2, <1>3, <1>4, <1>5 DEF IInv

\* The steps of reset, from another thread or from the callback itself.
LEMMA OwnerStep ==
    ASSUME IInv, NEW p \in Pollers, Owner(p) \/ RetireSelf(p)
    PROVE  IInv'
  <1> USE DEF IInv, TypeOK, ResetQuiet, ListAlive, StaysListed, RetiredInactive,
              CallsWhilePolling, WaitedQuiet, ExitedGone, listVars, workerVars, Goto, gens
  <1>1. CASE Deactivate(p)
    BY <1>1 DEF Deactivate
  <1>2. CASE ObserveEpoch(p)
    BY <1>2 DEF ObserveEpoch
  <1>3. CASE WaitEpoch(p)
    BY <1>3 DEF WaitEpoch
  <1>4. CASE RetireSelf(p)
    BY <1>4 DEF RetireSelf
  <1> QED
    BY <1>1, <1>2, <1>3, <1>4 DEF Owner

\* The steps of the worker.  The epoch moves when no callback is running, and
\* lists are freed when none is being read.
LEMMA WorkerStep ==
    ASSUME IInv, Worker
    PROVE  IInv'
  <1> USE DEF IInv, TypeOK, ResetQuiet, ListAlive, StaysListed, RetiredInactive,
              CallsWhilePolling, WaitedQuiet, ExitedGone, listVars, gens
  <1>1. CASE LoadList
    BY <1>1 DEF LoadList
  <1>2. CASE Return
    BY <1>2 DEF Return
  <1>3. CASE EndPoll
    BY <1>3 DEF EndPoll
  <1>4. CASE Reclaim
    <2>1. list' \in [gens' -> SUBSET Pollers] /\ gens' \subseteq Nat /\ current \in gens'
      BY <1>4 DEF Reclaim
    <2>2. list'[current] = list[current]
      BY <1>4 DEF Reclaim
    <2> QED
      BY <1>4, <2>1, <2>2 DEF Reclaim
  <1>5. CASE Work
    <2>1. calling = {} /\ ~exited
      BY <1>5 DEF Work
    <2>2. CASE wpc' = "load" /\ UNCHANGED exited
      BY <1>5, <2>1, <2>2 DEF Work
    <2>3. CASE wpc' = "gone" /\ exited' = TRUE
      BY <1>5, <2>1, <2>3 DEF Work
    <2> QED
      BY <1>5, <2>2, <2>3 DEF Work
  <1>6. ASSUME NEW p \in Pollers, Visit(p)
        PROVE  IInv'
    BY <1>6 DEF Visit
  <1> QED
    BY <1>1, <1>2, <1>3, <1>4, <1>5, <1>6 DEF Worker

\* The invariant is inductive.
THEOREM PollersInvariant == Spec => []IInv
  <1>1. ASSUME IInv, [Next]_vars
        PROVE  IInv'
    <2>1. CASE Worker
      BY <1>1, <2>1, WorkerStep
    <2>2. ASSUME NEW p \in Pollers, Register(p) \/ Owner(p) \/ RetireSelf(p)
          PROVE  IInv'
      BY <1>1, <2>2, RegisterStep, OwnerStep
    <2>3. CASE UNCHANGED vars
      BY <1>1, <2>3 DEF IInv, TypeOK, ResetQuiet, ListAlive, StaysListed, RetiredInactive,
                        CallsWhilePolling, WaitedQuiet, ExitedGone, vars, gens
    <2> QED
      BY <1>1, <2>1, <2>2, <2>3 DEF Next
  <1> QED
    BY InitIInv, <1>1, PTL DEF Spec

\* Once PollRegistration::reset has returned, the callback is not running.
THEOREM ResetIsQuiet == Spec => []ResetQuiet
  BY PollersInvariant, PTL DEF IInv

\* poll_services never goes through a list that reclaim_poller_generations freed.
THEOREM ListsAlive == Spec => []ListAlive
  BY PollersInvariant, PTL DEF IInv

\* register_poller loses no registration made before.
THEOREM RegistrationsKept == Spec => []StaysListed
  BY PollersInvariant, PTL DEF IInv

\* What an owner of a poller and the worker rely on, together.
THEOREM PollersAreSafe == Spec => []PollersSafe
  BY PollersInvariant, PTL DEF IInv, PollersSafe

\* The lists and the steps of worker and owners keep their types.
THEOREM PollersTyped == Spec => []TypeOK
  BY PollersInvariant, PTL DEF IInv
============================================================================
