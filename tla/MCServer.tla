------------------------------ MODULE MCServer ------------------------------
(***************************************************************************)
(* The server and its clients, in five small instances: the lanes of a     *)
(* session (IpcLane); the handshake that makes it and the stop that ends   *)
(* it (Handshake: two clients of one server, or one client and two         *)
(* incarnations, one of which may be killed); the requests on its handles  *)
(* at the server (ServerHandles); the tasks of a program on one File at    *)
(* the client (ClientFile); and the process of the server with its         *)
(* migrations (KfsLife: two requests, one candidate per run).  A behaviour *)
(* is one of one of them; the others stay in their initial state.          *)
(***************************************************************************)
EXTENDS IpcLane, TLC

CONSTANTS a1, a2, a3, stop, noItem, MaxHandle, Asked, MaxChunk, MaxSize, MaxPos,
          MaxFaults, Clients, Servers, Backlog, w1, w2, Runners, MigrateNum, Threshold

VARIABLES part,
  scene, name, owner, flags, backlog, pending, overdue, accepting, sessions, retired, draining,
  joining, phase, wants, peer, at, hello, reply, state, sess, kills, failures,
  table, issued, kind, appends, closing, writes, place, life, cursor, opened, op, target, pc,
  start, gated, stopping, cleanup, left,
  size, offset, append, listed, there, offset_gate, stage, job, base, completed, moved, result, faults,
  main, up, asked, mig_stopping, mig_active, bound, mig_inbox, localq, used, step, plan, taken,
  retry, added, migrated, stale, discarded, troubles

-----------------------------------------------------------------------------
Situation(o, i, d, m) == [owner |-> o, inbox |-> i, directs |-> d, mishaps |-> m]

\* A shutdown and a request of another thread, with every mishap; a shutdown that
\* overtakes two requests; and three blocking callers.
Situations == {Situation({stop}, {a3}, {}, Mishaps),
               Situation({a1, stop}, {a3}, {}, {}),
               Situation({a1, a2, stop}, {}, {}, {}),
               Situation({}, {}, {a1, a2, a3}, {}),
               Situation({}, {}, {a1, a2}, {"server stops"})}

Connecting(clients, servers, requests, kill, fault, timeouts) ==
  [clients |-> clients, servers |-> servers, requests |-> requests,
   kills |-> kill, faults |-> fault, timeouts |-> timeouts]

MCHandshakes == { Connecting({a1, a2}, {1}, {"fits"}, 0, 0, FALSE),
                  Connecting({a1}, {1, 2}, {"fits", "large"}, 1, 1, TRUE) }

J(o, a, n) == [op |-> o, at |-> a, length |-> n]
Idle == [t \in {a1, a2, a3} |-> J("seek", 1, 0)]

\* Transfers of up to three requests against each other and against everything that
\* moves the offset, the end of the file or the flags under them.
MCJobs ==
  { Idle,
    a1 :> J("write", 0, 3) @@ a2 :> J("write", 0, 5) @@ a3 :> J("seek", 1, 0),
    a1 :> J("read", 0, 5) @@ a2 :> J("write", 0, 3) @@ a3 :> J("truncate", 1, 0),
    a1 :> J("read", 0, 3) @@ a2 :> J("seek", 1, 0) @@ a3 :> J("write_at", 1, 3),
    a1 :> J("write", 0, 3) @@ a2 :> J("read", 0, 3) @@ a3 :> J("write_at", 1, 3),
    a1 :> J("write", 0, 3) @@ a2 :> J("set_flags", 0, 0) @@ a3 :> J("read_at", 1, 3),
    a1 :> J("next_batch", 3, 9) @@ a2 :> J("next_batch", 3, 1) @@ a3 :> J("stat", 0, 0),
    a1 :> J("write_at", 7, 2) @@ a2 :> J("truncate", 1, 0) @@ a3 :> J("write_at", 7, 3) }

H == INSTANCE Handshake WITH srv <- owner, asked <- wants, faults <- failures, Scenes <- MCHandshakes
S == INSTANCE ServerHandles WITH Requests <- {a1, a2, a3}, offset <- place
C == INSTANCE ClientFile WITH Tasks <- {a1, a2, a3}, Scenes <- MCJobs,
                              up <- there, pc <- stage, gate <- offset_gate
L == INSTANCE KfsLife WITH Writers <- {w1, w2}, stopping <- mig_stopping, active <- mig_active,
                           inbox <- mig_inbox, pc <- step, faults <- troubles

hvars == <<scene, name, owner, flags, backlog, pending, overdue, accepting, sessions, retired,
           draining, joining, phase, wants, peer, at, hello, reply, state, sess, kills, failures>>
svars == <<table, issued, kind, appends, closing, writes, place, life, cursor, opened, op, target,
           pc, start, gated, stopping, cleanup, left>>
cvars == <<size, offset, append, listed, there, offset_gate, stage, job, base, completed, moved,
           result, faults>>
lvars == <<main, up, asked, mig_stopping, mig_active, bound, mig_inbox, localq, used, step, plan,
           taken, retry, added, migrated, stale, discarded, troubles>>
AllVars == <<part, vars, hvars, svars, cvars, lvars>>

MCInit ==
  /\ part \in {"lane", "handshake", "handles", "file", "life"}
  /\ Init /\ (part = "lane" \/ setup = CHOOSE x \in Setups : TRUE)
  /\ H!Init /\ (part = "handshake" \/ scene = CHOOSE x \in MCHandshakes : x.faults = 0)
  /\ S!Init
  /\ C!Init /\ (part = "file" \/ (size = 0 /\ append = FALSE /\ job = Idle))
  /\ L!Init

\* Requests, and the clients of one scene, are alike until they come: they come in order.
RequestsOrdered == /\ pc[a2] # "new" => pc[a1] # "new"
                   /\ pc[a3] # "new" => pc[a2] # "new"
ClientsOrdered == phase[a2] # "idle" => phase[a1] # "idle"
WritersOrdered == step[w2] # "idle" => step[w1] # "idle"

Lane == part = "lane" /\ Next /\ UNCHANGED <<part, hvars, svars, cvars, lvars>>
Handshaking ==
  part = "handshake" /\ H!Next /\ ClientsOrdered' /\ UNCHANGED <<part, vars, svars, cvars, lvars>>
Handling ==
  part = "handles" /\ S!Next /\ RequestsOrdered' /\ UNCHANGED <<part, vars, hvars, cvars, lvars>>
Filing == part = "file" /\ C!Next /\ UNCHANGED <<part, vars, hvars, svars, lvars>>
Living == part = "life" /\ L!Next /\ WritersOrdered' /\ UNCHANGED <<part, vars, hvars, svars, cvars>>

MCNext == Lane \/ Handshaking \/ Handling \/ Filing \/ Living

\* The fairness of the modules, for the part that runs.
In(p, A) == part = p /\ A

LaneFairness ==
  /\ WF_vars(In("lane", ClientPoller)) /\ WF_vars(In("lane", ControlPoll))
  /\ WF_vars(In("lane", ServerPoller)) /\ WF_vars(In("lane", ServerControl))
  /\ WF_vars(In("lane", \E c \in Calls : Execute(c)))
  /\ SF_vars(In("lane", \E c \in Calls : Enqueue(c)))
  /\ WF_vars(In("lane", \E c \in Calls : EnqueuePush(c) \/ DirectStep(c)))
  /\ SF_vars(In("lane", \E d \in Calls : DirectGate(d)))

HandshakeFairness ==
  /\ \A c \in Clients : WF_hvars(In("handshake", H!ClientTurn(c)))
  /\ \A s \in Servers : WF_hvars(In("handshake", H!ServerTurn(s)))
  /\ \A c \in H!Conns : WF_hvars(In("handshake", H!SessionTurn(c)))

HandlesFairness ==
  /\ \A q \in {a1, a2, a3} : WF_svars(In("handles", S!Step(q)))
  /\ WF_svars(In("handles", S!Cleanup))

LifeFairness ==
  /\ WF_lvars(In("life", L!Main))
  /\ \A w \in {w1, w2} : WF_lvars(In("life", L!Going(w)))
  /\ \A r \in Runners : WF_lvars(In("life", L!Running(r)))

MCSpec ==
  /\ MCInit /\ [][MCNext]_AllVars
  /\ LaneFairness /\ HandshakeFairness /\ HandlesFairness /\ LifeFairness

-----------------------------------------------------------------------------
\* Every call of the lanes ends, and so does every session that has to (Session::Impl and
\* ServerSession, whoever stops or dies first).
CallsEnd == AllEnds

\* A session has both its ends or is given up by the one that is left, it is not
\* released while ControlServer or Server::Impl still names it, and the name of the
\* socket is that of the server that listens.
HandshakeSafe == H!HandshakeSafe

\* A write works on a file that its handle holds open (HandleState::acquire_write against
\* do_close), and a handle has one closer at a time (mark_closing).
OpenWhileUsed == S!OpenWhileUsed

\* A connect ends (ClientConnector::poll), whatever becomes of the server, and so does a
\* session whose client is gone; a server that was asked to stop joins its sessions
\* (Server::Impl::join); every request on a handle ends, a close with writes under way
\* included, and a session that stops is cleaned up (cleanup_all_handles).
SessionsEnd == H!HandshakeEnds /\ S!SessionEnds

\* An implicit-offset operation at the server starts from the offset the one before it
\* left (do_read, do_write under offset_gate), and a chunked transfer at the client is
\* one piece with its bytes where the offset or the call puts them (File::read,
\* File::write, File::seek under offset_gate_), except beside an appending
\* File::write_at, which takes no gate; appended bytes never meet.
OffsetsKept == S!OffsetKept /\ C!TransfersWhole

\* What close_kernelFS takes down is needed by nobody any more, one migration runs at a
\* time and every candidate is in one place (orchfs_async_schedule_migration).
LifeSafe == L!LifeSafe

\* The process exits once a part has failed to start or main has seen stop_requested,
\* although migrations start one another, and requests and migrations end.
LifeEnds == <>[](part = "life" => L!LifeOver)
=============================================================================
