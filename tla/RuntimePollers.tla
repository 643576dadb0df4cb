--------------------------- MODULE RuntimePollers ---------------------------
(***************************************************************************)
(* The pollers of one worker (Async/runtime.cpp): other threads register   *)
(* and retire callbacks while the worker goes through an immutable list of *)
(* them, the list generations that the worker frees, and the quiescence    *)
(* wait by which PollRegistration::reset makes sure that a callback is no  *)
(* longer running.  Every poller is owned by one thread.                   *)
(***************************************************************************)
EXTENDS Naturals

CONSTANT Pollers

VARIABLES
  list,       \* generation not freed yet -> the pollers in it (poller_generations)
  current,    \* the published generation (pollers)
  dirty,      \* poller_generations_dirty
  active,     \* pollers whose lifecycle has kActive
  pc,         \* poller -> step of its owner
  moved,      \* owners since whose observation poll_epoch has moved
  wpc,        \* step of the worker
  reading,    \* the generation the worker goes through
  unvisited,  \* pollers of it still to be visited
  calling,    \* the poller whose callback the worker is in, at most one
  exited

vars == <<list, current, dirty, active, pc, moved, wpc, reading, unvisited, calling, exited>>
listVars == <<list, current, dirty>>
workerVars == <<wpc, reading, unvisited, calling, exited>>

gens == DOMAIN list

Init ==
  /\ list = [g \in {0} |-> {}] /\ current = 0 /\ dirty = FALSE
  /\ active = {} /\ pc = [p \in Pollers |-> "new"] /\ moved = {}
  /\ wpc = "load" /\ reading = 0 /\ unvisited = {} /\ calling = {} /\ exited = FALSE

Goto(p, step) == pc' = [pc EXCEPT ![p] = step]

----------------------------------------------------------------------------
(* register_poller, under poller_update: the new list drops retired pollers *)
Register(p) ==
  /\ pc[p] = "new" /\ Goto(p, "registered") /\ active' = active \cup {p}
  /\ current' = current + 1 /\ dirty' = TRUE
  /\ list' = [g \in gens \cup {current + 1} |->
                IF g = current + 1 THEN (list[current] \cap active) \cup {p} ELSE list[g]]
  /\ UNCHANGED <<moved, workerVars>>

(***************************************************************************)
(* PollRegistration::reset from another thread: deactivate, read the poll  *)
(* epoch, and wait until it moves or the worker is gone.                   *)
(***************************************************************************)
Deactivate(p) ==
  /\ pc[p] = "registered" /\ Goto(p, "observe") /\ active' = active \ {p}
  /\ UNCHANGED <<listVars, moved, workerVars>>

ObserveEpoch(p) ==
  /\ pc[p] = "observe" /\ Goto(p, IF exited THEN "done" ELSE "wait")
  /\ moved' = moved \ {p}
  /\ UNCHANGED <<listVars, active, workerVars>>

WaitEpoch(p) ==
  /\ pc[p] = "wait" /\ (p \in moved \/ exited)
  /\ Goto(p, "done")
  /\ UNCHANGED <<listVars, active, moved, workerVars>>

----------------------------------------------------------------------------
(* poll_services: the list is loaded once *)
LoadList ==
  /\ wpc = "load" /\ wpc' = "poll" /\ reading' = current /\ unvisited' = list[current]
  /\ UNCHANGED <<listVars, active, pc, moved, calling, exited>>

(* the order of the list does not matter: callbacks are independent *)
Visit(p) ==
  /\ wpc = "poll" /\ calling = {} /\ p \in unvisited
  /\ unvisited' = unvisited \ {p} /\ calling' = {p} \cap active
  /\ UNCHANGED <<listVars, active, pc, moved, wpc, reading, exited>>

Return ==
  /\ calling # {} /\ calling' = {}
  /\ UNCHANGED <<listVars, active, pc, moved, wpc, reading, unvisited, exited>>

(* a callback may retire its own poller, without waiting for itself *)
RetireSelf(p) ==
  /\ p \in calling /\ pc[p] = "registered" /\ Goto(p, "retired") /\ active' = active \ {p}
  /\ UNCHANGED <<listVars, moved, workerVars>>

(* poll_epoch moves after the last callback has returned *)
EndPoll ==
  /\ wpc = "poll" /\ calling = {} /\ unvisited = {}
  /\ wpc' = "reclaim" /\ moved' = Pollers
  /\ UNCHANGED <<listVars, active, pc, reading, unvisited, calling, exited>>

(* reclaim_poller_generations, under poller_update *)
Reclaim ==
  /\ wpc = "reclaim" /\ wpc' = "work"
  /\ dirty' = FALSE /\ list' = IF dirty THEN [g \in {current} |-> list[g]] ELSE list
  /\ UNCHANGED <<current, active, pc, moved, reading, unvisited, calling, exited>>

(* the rest of worker_loop: run what is queued, and go on or leave *)
Work ==
  /\ wpc = "work"
  /\ \/ wpc' = "load" /\ UNCHANGED exited
     \/ wpc' = "gone" /\ exited' = TRUE
  /\ UNCHANGED <<listVars, active, pc, moved, reading, unvisited, calling>>

Owner(p) == Deactivate(p) \/ ObserveEpoch(p) \/ WaitEpoch(p)

Worker == LoadList \/ Return \/ EndPoll \/ Reclaim \/ Work \/ \E p \in Pollers : Visit(p)

Next == Worker \/ \E p \in Pollers : Register(p) \/ Owner(p) \/ RetireSelf(p)

Spec == Init /\ [][Next]_vars

(* Threads run and callbacks return: the worker is fair (WF_vars(Worker)), and so are the owners. *)
OwnersFair == \A p \in Pollers : WF_vars(ObserveEpoch(p) \/ WaitEpoch(p))


----------------------------------------------------------------------------
(* Properties *)

(* The lists, the worker and the owners are in legal states. *)
TypeOK ==
  /\ gens \subseteq Nat /\ list \in [gens -> SUBSET Pollers]
  /\ current \in gens /\ dirty \in BOOLEAN /\ active \subseteq Pollers
  /\ pc \in [Pollers -> {"new", "registered", "observe", "wait", "done", "retired"}]
  /\ moved \subseteq Pollers /\ wpc \in {"load", "poll", "reclaim", "work", "gone"}
  /\ reading \in Nat /\ unvisited \subseteq Pollers
  /\ calling \in {{}} \cup {{p} : p \in Pollers} /\ exited \in BOOLEAN

(* Once reset has returned, the callback is not running and will not run: its
   context may be destroyed. *)
ResetQuiet == \A p \in Pollers : pc[p] = "done" => p \notin calling

(* The worker never goes through a list that has been freed. *)
ListAlive == wpc = "poll" => reading \in gens

(* A registered poller stays in the published list, whoever registers or
   retires another one. *)
StaysListed == \A p \in Pollers : pc[p] = "registered" => p \in list[current] \cap active

(* The three together: what a poller's owner and the worker rely on. *)
PollersSafe == ResetQuiet /\ ListAlive /\ StaysListed

(* reset always returns, also when the worker leaves. *)
ResetReturns == \A p \in Pollers : pc[p] = "observe" ~> pc[p] = "done"
============================================================================
