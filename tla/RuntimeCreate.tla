--------------------------- MODULE RuntimeCreate ---------------------------
(***************************************************************************)
(* Runtime::create, Runtime::start and ~Runtime (Async/runtime.cpp): the   *)
(* process keeps at most one Runtime, found through two global words, the  *)
(* pointer active_runtime and the process it was recorded for              *)
(* (active_runtime_pid).  fork() copies both words and none of the worker  *)
(* threads, so a child has to replace what it inherits, whatever its       *)
(* threads do at the same time.                                            *)
(***************************************************************************)
EXTENDS Naturals, FiniteSets

CONSTANTS Parents, Children,   \* threads of the process and of its child
          Size,                \* workers of a runtime
          MaxFaults            \* bound on failures of allocation, threads and affinity

NONE == "none"
Threads == Parents \cup Children
Processes == {"parent", "child"}
Proc(t) == IF t \in Parents THEN "parent" ELSE "child"

VARIABLES
  active,   \* process -> active_runtime: the thread that made the Runtime, or NONE
  word,     \* process -> active_runtime_pid: whose, and whether it is being replaced
  pc,       \* thread -> step
  worker,   \* thread -> worker of its Runtime -> "none", "gate", "run" or "out"
  gate,     \* threads whose start_gate is open
  abort,    \* threads whose start failed (abort_start), or that want to stop
  forked,   \* whether there is a child yet
  faults

vars == <<active, word, pc, worker, gate, abort, forked, faults>>

Settled(p) == [of |-> p, replacing |-> FALSE]
Replacing(p) == [of |-> p, replacing |-> TRUE]
Idle == [i \in 1..Size |-> "none"]

Init ==
  /\ active = [p \in Processes |-> NONE] /\ word = [p \in Processes |-> Settled(NONE)]
  /\ pc = [t \in Threads |-> "new"] /\ worker = [t \in Threads |-> Idle]
  /\ gate = {} /\ abort = {} /\ forked = FALSE /\ faults = 0

Goto(t, step) == pc' = [pc EXCEPT ![t] = step]
Fault == faults < MaxFaults /\ faults' = faults + 1

\* active_runtime.compare_exchange_strong(this, nullptr)
Forget(t) == active' = IF active[Proc(t)] = t THEN [active EXCEPT ![Proc(t)] = NONE] ELSE active

----------------------------------------------------------------------------
(* fork() by any thread: the child starts with a copy of both words and no worker *)
Fork ==
  /\ ~forked /\ forked' = TRUE
  /\ active' = [active EXCEPT !["child"] = active["parent"]]
  /\ word' = [word EXCEPT !["child"] = word["parent"]]
  /\ UNCHANGED <<pc, worker, gate, abort, faults>>

\* Every thread creates a Runtime once, at any time and next to or after the others.
Call(t) ==
  /\ pc[t] = "new" /\ (t \in Children => forked) /\ Goto(t, "look")
  /\ UNCHANGED <<active, word, worker, gate, abort, forked, faults>>

\* Mistake: a word under replacement is taken over like any other.
LookOnce(t) ==
  LET p == Proc(t) IN
  /\ pc[t] = "look"
  /\ IF word[p] = Settled(p) THEN Goto(t, "check") /\ UNCHANGED word
     ELSE Goto(t, "clear") /\ word' = [word EXCEPT ![p] = Replacing(p)]
  /\ UNCHANGED <<active, worker, gate, abort, forked, faults>>

(* another process's word is taken over by one thread, the others yield meanwhile *)
Look(t) ==
  LET p == Proc(t) IN
  /\ pc[t] = "look" /\ word[p] # Replacing(p)
  /\ IF word[p] = Settled(p) THEN Goto(t, "check") /\ UNCHANGED word
     ELSE Goto(t, "clear") /\ word' = [word EXCEPT ![p] = Replacing(p)]
  /\ UNCHANGED <<active, worker, gate, abort, forked, faults>>

Clear(t) ==
  /\ pc[t] = "clear" /\ active' = [active EXCEPT ![Proc(t)] = NONE] /\ Goto(t, "settle")
  /\ UNCHANGED <<word, worker, gate, abort, forked, faults>>

Settle(t) ==
  /\ pc[t] = "settle" /\ word' = [word EXCEPT ![Proc(t)] = Settled(Proc(t))] /\ Goto(t, "check")
  /\ UNCHANGED <<active, worker, gate, abort, forked, faults>>

(* runtime_already_exists *)
Check(t) ==
  /\ pc[t] = "check" /\ Goto(t, IF active[Proc(t)] = NONE THEN "make" ELSE "out")
  /\ UNCHANGED <<active, word, worker, gate, abort, forked, faults>>

(* make_impl: no processor, options that do not fit them, no memory *)
make_impl(t) ==
  /\ pc[t] = "make"
  /\ \/ Fault /\ Goto(t, "out")
     \/ Goto(t, "install") /\ UNCHANGED faults
  /\ UNCHANGED <<active, word, worker, gate, abort, forked>>

(* the Runtime that loses the exchange is destroyed without ever having started *)
Install(t) ==
  LET p == Proc(t) IN
  /\ pc[t] = "install"
  /\ IF active[p] = NONE THEN active' = [active EXCEPT ![p] = t] /\ Goto(t, "record")
     ELSE UNCHANGED active /\ Goto(t, "out")
  /\ UNCHANGED <<word, worker, gate, abort, forked, faults>>

Record(t) ==
  /\ pc[t] = "record" /\ word' = [word EXCEPT ![Proc(t)] = Settled(Proc(t))] /\ Goto(t, "start")
  /\ UNCHANGED <<active, worker, gate, abort, forked, faults>>

(* start: the threads wait at the gate; a thread or an affinity that fails ends the loop *)
Start(t) ==
  /\ pc[t] = "start"
  /\ \/ Fault /\ abort' = abort \cup {t}
        /\ \E k \in 0..Size : worker' = [worker EXCEPT ![t] = [i \in 1..Size |-> IF i <= k THEN "gate" ELSE "none"]]
     \/ worker' = [worker EXCEPT ![t] = [i \in 1..Size |-> "gate"]] /\ UNCHANGED <<abort, faults>>
  /\ Goto(t, "open") /\ UNCHANGED <<active, word, gate, forked>>

OpenGate(t) ==
  /\ pc[t] = "open" /\ gate' = gate \cup {t}
  /\ Goto(t, IF t \in abort THEN "unstart" ELSE "has")
  /\ UNCHANGED <<active, word, worker, abort, forked, faults>>

(* worker_loop behind its gate; it runs until it is stopped, or leaves at once *)
Worker(t, i) ==
  /\ \/ worker[t][i] = "gate" /\ t \in gate
        /\ worker' = [worker EXCEPT ![t][i] = IF t \in abort THEN "out" ELSE "run"]
     \/ worker[t][i] = "run" /\ t \in abort /\ worker' = [worker EXCEPT ![t][i] = "out"]
  /\ UNCHANGED <<active, word, pc, gate, abort, forked, faults>>

Joined(t) == \A i \in 1..Size : worker[t][i] \in {"none", "out"}

(* the threads that did start are joined, and the pointer is taken back *)
Unstart(t) ==
  /\ pc[t] = "unstart" /\ Joined(t) /\ Forget(t) /\ Goto(t, "out")
  /\ UNCHANGED <<word, worker, gate, abort, forked, faults>>

(* ~Runtime: request_stop, join, and the pointer is taken back *)
Destroy(t) ==
  /\ pc[t] = "has" /\ abort' = abort \cup {t} /\ Goto(t, "join")
  /\ UNCHANGED <<active, word, worker, gate, forked, faults>>

Destroyed(t) ==
  /\ pc[t] = "join" /\ Joined(t) /\ Forget(t) /\ Goto(t, "out")
  /\ UNCHANGED <<word, worker, gate, abort, forked, faults>>

Step(t) ==
  \/ Look(t) \/ Clear(t) \/ Settle(t) \/ Check(t) \/ make_impl(t) \/ Install(t) \/ Record(t)
  \/ Start(t) \/ OpenGate(t) \/ Unstart(t) \/ Destroyed(t) \/ \E i \in 1..Size : Worker(t, i)

Next == Fork \/ \E t \in Threads : Call(t) \/ Destroy(t) \/ Step(t)

(***************************************************************************)
(* Some thread that can go on does; nobody has to destroy a Runtime.  The  *)
(* steps of a bounded number of calls are bounded, so this is all that the *)
(* scheduler has to give.                                                  *)
(***************************************************************************)
Fairness == WF_vars(\E t \in Threads : Step(t))

----------------------------------------------------------------------------
\* A process has one Runtime: the one whose workers run is the one active_runtime
\* names, no other thread of the process takes that pointer away (the comment in
\* Runtime::create on creators that would "clear a Runtime that was just installed"),
\* and the pointer that a settled word vouches for is never the parent's.
OneRuntime ==
  /\ \A t \in Threads :
       pc[t] \in {"record", "start", "open", "has", "unstart", "join"} => active[Proc(t)] = t
  /\ \A t \in Threads : Joined(t) \/ active[Proc(t)] = t
  /\ \A p \in Processes :
       word[p] = Settled(p) => active[p] = NONE \/ Proc(active[p]) = p

\* Runtime::create returns, with a Runtime or with an error, and so does ~Runtime.
CreateReturns == <>[](\A t \in Threads : pc[t] \in {"new", "out", "has"})
=============================================================================
