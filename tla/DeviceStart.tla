---------------------------- MODULE DeviceStart ----------------------------
(***************************************************************************)
(* Starting and stopping the SPDK device service of a process: the global  *)
(* lifecycle lock and service pointer of spdk_device_service.cpp, the      *)
(* chain of things SpdkNvmeBackend::open takes (the claim on the one       *)
(* controller, the environment, the controller), the pollers that become   *)
(* ready on the workers of the runtime, and the way back when any of it    *)
(* fails.  What a poll does with requests is in SpdkDevice; here a poll is *)
(* one step and nothing is submitted.                                      *)
(***************************************************************************)
EXTENDS Naturals, FiniteSets

CONSTANTS Callers,    \* threads that start and stop the service
          Workers,    \* workers of the runtime, each the place of one poller
          MaxCalls,   \* bound on the calls made
          MaxFaults   \* bound on the failures of the environment

NONE == "none"

VARIABLES
  guard,       \* the caller that holds global_lifecycle
  pc, how,     \* caller -> step; caller -> "runtime" or "standalone"
  calls, faults,
  published,   \* global_service points to the service
  held,        \* what the backend holds: "claim", "env", "ctrl"
  stuck,       \* a controller could not be detached
  svc,         \* the service object, while there is one
  registered,  \* pollers the workers of the runtime call
  pol          \* poller -> "cold", "ready", "failed" or "stopped"

vars == <<guard, pc, how, calls, faults, published, held, stuck, svc, registered, pol>>
chain == <<held, stuck, svc, registered, pol>>
caller == <<guard, pc, how, calls, published>>

Absent == [on |-> NONE, pollers |-> {}, ready |-> {}, counted |-> {}, error |-> FALSE,
           stopping |-> FALSE, life |-> NONE]

Init ==
  /\ guard = NONE /\ pc = [c \in Callers |-> "idle"] /\ how = [c \in Callers |-> NONE]
  /\ calls = 0 /\ faults = 0 /\ published = FALSE /\ held = {} /\ stuck = FALSE
  /\ svc = Absent /\ registered = {} /\ pol = [w \in Workers |-> "cold"]

Goto(c, step) == pc' = [pc EXCEPT ![c] = step] /\ UNCHANGED <<guard, how, calls, published>>
Fault == faults < MaxFaults /\ faults' = faults + 1

\* The lifecycle guard goes out of scope as the call returns.
Return(c) ==
  /\ pc' = [pc EXCEPT ![c] = "idle"] /\ guard' = NONE /\ UNCHANGED <<how, calls>>

Fail(c) == Return(c) /\ UNCHANGED published

----------------------------------------------------------------------------
Call(c) ==
  /\ pc[c] = "idle" /\ calls < MaxCalls /\ calls' = calls + 1
  /\ \E h \in {"runtime", "standalone", "stop"} :
       how' = [how EXCEPT ![c] = h] /\ pc' = [pc EXCEPT ![c] = "lock"]
  /\ UNCHANGED <<guard, published, chain, faults>>

LifecycleGuard(c) ==
  /\ pc[c] = "lock" /\ guard = NONE /\ guard' = c
  /\ pc' = [pc EXCEPT ![c] = IF how[c] = "stop" THEN "stop" ELSE "start"]
  /\ UNCHANGED <<how, calls, published, chain, faults>>

(* orchfs_spdk_device_start: EALREADY when there is a service *)
device_start(c) ==
  /\ pc[c] = "start" /\ how[c] = "standalone"
  /\ IF published THEN Fail(c) ELSE Goto(c, "config")
  /\ UNCHANGED <<chain, faults>>

(* orchfs_spdk_device_start_on_runtime *)
device_start_on_runtime(c) ==
  /\ pc[c] = "start" /\ how[c] = "runtime"
  /\ IF published THEN Fail(c) ELSE Goto(c, "config")
  /\ UNCHANGED <<chain, faults>>

(* load_config: a setting that does not parse, or as many pollers as it asks for *)
load_config(c) ==
  /\ pc[c] = "config"
  /\ \/ Fault /\ Fail(c) /\ UNCHANGED svc
     \/ /\ Goto(c, "claim") /\ UNCHANGED faults
        /\ \E ps \in SUBSET Workers \ {{}} : svc' = [Absent EXCEPT !.on = how[c], !.pollers = ps]
  /\ UNCHANGED <<held, stuck, registered, pol>>

----------------------------------------------------------------------------
(***************************************************************************)
(* SpdkNvmeBackend::open: every error path gives back what was taken.      *)
(***************************************************************************)
\* Mistake: the claim is released only by a close.
UnwindKeeping(c) == Fail(c) /\ held' = held \cap {"claim"} /\ svc' = Absent

Unwind(c) == Fail(c) /\ held' = {} /\ svc' = Absent

(* an address that does not parse, or global_backend_active: controller_busy *)
Claim(c) ==
  /\ pc[c] = "claim"
  /\ \/ Fault /\ Fail(c) /\ svc' = Absent /\ UNCHANGED held
     \/ "claim" \in held /\ Fail(c) /\ svc' = Absent /\ UNCHANGED <<held, faults>>
     \/ "claim" \notin held /\ held' = {"claim"} /\ Goto(c, "env") /\ UNCHANGED <<svc, faults>>
  /\ UNCHANGED <<stuck, registered, pol>>

(* the affinity of the thread is kept over spdk_env_init: either may fail *)
EnvInit(c) ==
  /\ pc[c] = "env"
  /\ \/ Fault /\ Unwind(c)
     \/ Goto(c, "connect") /\ held' = held \cup {"env"} /\ UNCHANGED <<svc, faults>>
  /\ UNCHANGED <<stuck, registered, pol>>

Connect(c) ==
  /\ pc[c] = "connect"
  /\ \/ Fault /\ Unwind(c)
     \/ Goto(c, "identify") /\ held' = held \cup {"ctrl"} /\ UNCHANGED <<svc, faults>>
  /\ UNCHANGED <<stuck, registered, pol>>

(* an inactive namespace, a transfer size below a block, completion as the      *)
(* durability of a controller with a volatile cache; the queues it grants       *)
Identify(c) ==
  /\ pc[c] = "identify"
  /\ \/ Fault /\ Unwind(c)
     \/ /\ Goto(c, "construct") /\ UNCHANGED <<held, faults>>
        /\ \E ps \in SUBSET svc.pollers \ {{}} : svc' = [svc EXCEPT !.pollers = ps]
  /\ UNCHANGED <<stuck, registered, pol>>

(* SpdkNvmeBackend::close, once every poller has stopped *)
close ==
  \/ held' = {} /\ UNCHANGED <<stuck, faults>>
  \/ Fault /\ stuck' = TRUE /\ UNCHANGED held

(* every poller, none of them set up yet, is polled until it has stopped *)
close_unowned_backend(c) == close /\ Fail(c) /\ svc' = Absent /\ UNCHANGED pol

(* DeviceService::create: the service is made, or there is no memory for it *)
Construct(c) ==
  /\ pc[c] = "construct"
  /\ \/ /\ Goto(c, IF how[c] = "runtime" THEN "register" ELSE "publish")
        /\ svc' = [svc EXCEPT !.life = "running"] /\ pol' = [w \in Workers |-> "cold"]
        /\ UNCHANGED <<held, stuck, faults>>
     \/ close_unowned_backend(c)
  /\ UNCHANGED registered

----------------------------------------------------------------------------
(***************************************************************************)
(* start_runtime_pollers: one poller after the other is registered, and    *)
(* every one must have been polled once.                                   *)
(***************************************************************************)
Register(c) ==
  /\ pc[c] = "register"
  /\ \/ \E w \in svc.pollers \ registered :
          registered' = registered \cup {w} /\ Goto(c, "register") /\ UNCHANGED <<svc, faults>>
     \/ registered = svc.pollers /\ Goto(c, "ready") /\ UNCHANGED <<registered, svc, faults>>
     \/ /\ registered # svc.pollers /\ Fault /\ Goto(c, "unwind") /\ UNCHANGED registered
        /\ \/ svc' = [svc EXCEPT !.error = TRUE, !.stopping = TRUE]  \* register_poller refuses
           \/ UNCHANGED svc                                          \* no memory for the lists
  /\ UNCHANGED <<held, stuck, pol>>

AwaitReady(c) ==
  /\ pc[c] = "ready" /\ svc.ready = svc.pollers
  /\ Goto(c, IF svc.error THEN "unwind" ELSE "publish")
  /\ UNCHANGED <<chain, faults>>

Publish(c) ==
  /\ pc[c] = "publish" /\ Return(c) /\ published' = TRUE
  /\ UNCHANGED <<chain, faults>>

(* SpdkNvmeBackend::poll of a poller without requests: what it becomes *)
Polled(w) ==
  CASE pol[w] = "stopped" -> pol' = pol /\ UNCHANGED faults
    [] svc.stopping /\ pol[w] # "stopped" -> pol' = [pol EXCEPT ![w] = "stopped"] /\ UNCHANGED faults
    [] OTHER ->
         \/ pol[w] # "failed" /\ pol' = [pol EXCEPT ![w] = "ready"] /\ UNCHANGED faults
         \/ pol[w] # "failed" /\ Fault /\ pol' = [pol EXCEPT ![w] = "failed"]

(* poll_from_runtime: a failure stops the backend, the first poll counts as ready *)
poll_from_runtime(w) ==
  /\ w \in registered /\ Polled(w)
  /\ svc' = [svc EXCEPT !.error = @ \/ pol'[w] = "failed", !.stopping = @ \/ pol'[w] = "failed",
                        !.ready = @ \cup {w},
                        !.counted = IF pol'[w] = "stopped" THEN @ \cup {w} ELSE @]
  /\ UNCHANGED <<caller, held, stuck, registered>>

(* poll_standalone_once, by the formatter that waits for its own transfer *)
poll_standalone_once(w) ==
  /\ published /\ guard = NONE /\ svc.on = "standalone" /\ svc.life = "running" /\ w \in svc.pollers
  /\ Polled(w) /\ svc' = [svc EXCEPT !.error = @ \/ pol'[w] = "failed"]
  /\ UNCHANGED <<caller, held, stuck, registered>>

----------------------------------------------------------------------------
(***************************************************************************)
(* DeviceService::stop, called by orchfs_spdk_device_stop and by a create  *)
(* that failed.                                                            *)
(***************************************************************************)
device_stop(c) ==
  /\ pc[c] = "stop"
  /\ IF published /\ svc.life = "running"
     THEN pc' = [pc EXCEPT ![c] = "unwind"] /\ published' = FALSE /\ UNCHANGED <<guard, how, calls>>
     ELSE Fail(c)
  /\ UNCHANGED <<chain, faults>>

(* no submitter is left: the backend is asked to stop *)
StopRequest(c) ==
  /\ pc[c] = "unwind" /\ Goto(c, "quiesce")
  /\ svc' = [svc EXCEPT !.life = "stopping", !.stopping = TRUE]
  /\ UNCHANGED <<held, stuck, registered, pol, faults>>

(* every poller of the runtime has reported that it stopped; their registrations go *)
StopRegistered(c) ==
  /\ pc[c] = "quiesce" /\ svc.on = "runtime" /\ svc.counted = registered
  /\ registered' = {} /\ Goto(c, "rest") /\ UNCHANGED <<held, stuck, svc, pol, faults>>

(* the others, and those of a standalone service, are polled by the caller *)
StopRest(c) ==
  /\ \/ pc[c] = "rest"
     \/ pc[c] = "quiesce" /\ svc.on = "standalone"
  /\ pol' = [w \in Workers |-> IF w \in svc.pollers THEN "stopped" ELSE pol[w]]
  /\ Goto(c, "close") /\ UNCHANGED <<held, stuck, svc, registered, faults>>

(* a service that could not be closed stays published; a failed create drops it *)
StopClose(c) ==
  /\ pc[c] = "close" /\ \A w \in svc.pollers : pol[w] = "stopped"
  /\ close /\ Return(c) /\ published' = (how[c] = "stop" /\ stuck')
  /\ svc' = IF published' THEN [svc EXCEPT !.life = "stopped"] ELSE Absent
  /\ UNCHANGED <<registered, pol>>

Step(c) ==
  \/ LifecycleGuard(c) \/ device_start(c) \/ device_start_on_runtime(c) \/ load_config(c)
  \/ Claim(c) \/ EnvInit(c) \/ Connect(c) \/ Identify(c) \/ Construct(c) \/ Register(c)
  \/ AwaitReady(c) \/ Publish(c) \/ device_stop(c) \/ StopRequest(c) \/ StopRegistered(c)
  \/ StopRest(c) \/ StopClose(c)

Work == (\E c \in Callers : Step(c)) \/ (\E w \in Workers : poll_from_runtime(w))

Next == Work \/ (\E c \in Callers : Call(c)) \/ (\E w \in Workers : poll_standalone_once(w))

(***************************************************************************)
(* A caller goes on, and the workers of the runtime poll what is           *)
(* registered.  Calls are bounded, and so are their steps and the polls    *)
(* that change anything.                                                   *)
(***************************************************************************)
Fairness == WF_vars(Work)

----------------------------------------------------------------------------
\* Whatever fails on the way, a start leaves either a service whose pollers have all
\* been polled, or nothing: no claim that refuses the next start, no environment, no
\* controller (unless the controller itself could not be detached), no registered
\* poller.  What is registered is polled on an open controller only, and what
\* SpdkNvmeBackend::open takes is taken in order.
StartSafe ==
  /\ ~published /\ guard = NONE /\ ~stuck => held = {} /\ registered = {}
  /\ published /\ svc.life = "running" =>
       /\ held = {"claim", "env", "ctrl"}
       /\ svc.on = "runtime" => svc.ready = svc.pollers
  /\ registered # {} => "ctrl" \in held
  /\ ("ctrl" \in held => "env" \in held) /\ ("env" \in held => "claim" \in held)

\* Every start and every stop returns, also when a poller could not be set up or
\* only some were registered: of the finitely many calls none stays on its way.
StartEnds == <>[](\A c \in Callers : pc[c] = "idle")
=============================================================================
