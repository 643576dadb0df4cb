----------------------------- MODULE Handshake -----------------------------
(***************************************************************************)
(* How a client and the server come to share a session and how the server  *)
(* ends one: the control socket of Async/ipc_transport.cpp (ControlServer, *)
(* ClientConnector and the two transports) and the owner of the sessions   *)
(* in Async/server.cpp (Server::Impl).                                     *)
(*                                                                         *)
(* The server may be killed and started again; an incarnation is a number. *)
(* A connection carries the name of who made it: a client, or an           *)
(* incarnation of the server that probed the pathname before taking it.    *)
(* What a session does between its start and the end of its cleanup is in  *)
(* IpcLane and ServerHandles.                                              *)
(***************************************************************************)
EXTENDS Naturals, Sequences, SequencesExt

CONSTANTS
  Clients,   \* clients, each of which connects once
  Servers,   \* 1..n: the incarnations of the server
  Backlog,   \* connections the kernel keeps for accept4 (128 in listen)
  Scenes     \* what may happen: records with
             \*   clients, servers: who may start,
             \*   requests: what a client may ask for: "fits" or "large" (more than the limits),
             \*   kills: bound on the processes killed,
             \*   faults: bound on the failures of memfd_create, mmap, eventfd and register_poller,
             \*   timeouts: whether a deadline of a handshake may pass

Conns == Clients \cup Servers
None == 0

VARIABLES
  scene,     \* the scene of the behaviour
  name,      \* the incarnation whose socket the pathname names, or None
  srv,       \* what an incarnation is doing
  flags,     \* its stop_requested_, drain_requested_ and session_stop_propagated_; join was called
  backlog,   \* connections the kernel has queued for the listener
  pending,   \* pending_handshakes, in order
  overdue,   \* those past their deadline
  accepting, \* the connection whose session poll_accept has just started, or None
  sessions,  \* sessions_: those the registry owns
  retired,   \* the retirement inbox
  draining,  \* those drain_retired_sessions has taken from it
  joining,   \* those Server::Impl::join waits for
  phase,     \* of a client: its ClientConnector's, then its transport's
  asked,     \* what it asks for
  peer,      \* the incarnation a connection leads to
  at,        \* the server's end of a connection: who holds it
  hello,     \* the client's message has been sent and not read
  reply,     \* the server's message that the client has not read
  state,     \* SharedSessionHeader::state
  sess,      \* the ServerSession of a connection
  kills, faults

vars == <<scene, name, srv, flags, backlog, pending, overdue, accepting, sessions, retired, draining,
          joining, phase, asked, peer, at, hello, reply, state, sess, kills, faults>>

server == <<scene, name, srv, flags>>
queues == <<backlog, pending, overdue, accepting>>
registry == <<sessions, retired, draining, joining>>
wire == <<peer, at, hello, reply>>
bounds == <<kills, faults>>

\* A listener that is closed, or bound and not yet listening, refuses connections.
Listening(s) == srv[s] \in {"up", "joining", "joined"}

Gone == {"gone", "killed", "failed"}

\* The client's end is closed: its connector or transport is destroyed, or it has died.
Hung(c) == phase[c] \in {"failed", "closed"}

Init ==
  /\ scene \in Scenes
  /\ name = None
  /\ srv = [s \in Servers |-> "off"]
  /\ flags = [stop |-> FALSE, drain |-> FALSE, propagated |-> FALSE, join |-> FALSE]
  /\ backlog = <<>> /\ pending = <<>> /\ overdue = {} /\ accepting = None
  /\ sessions = {} /\ retired = {} /\ draining = {} /\ joining = {}
  /\ phase = [c \in Conns |-> "idle"]
  /\ asked \in [Clients -> scene.requests]
  /\ peer = [c \in Conns |-> None]
  /\ at = [c \in Conns |-> "none"]
  /\ hello = [c \in Conns |-> FALSE]
  /\ reply = [c \in Conns |-> "none"]
  /\ state = [c \in Conns |-> "none"]
  /\ sess = [c \in Conns |-> "none"]
  /\ kills = 0 /\ faults = 0

-----------------------------------------------------------------------------
(* ControlServer::listen.  Nobody starts a server while another one is in  *)
(* the middle of listen or of its destructor.                              *)

Settled == \A s \in Servers : srv[s] \notin {"stale", "unlinked", "bound", "closing", "unlinking"}

\* bind finds the pathname free.
bind(s) ==
  /\ \/ srv[s] = "off" /\ s \in scene.servers /\ Settled /\ (s > 1 => srv[s - 1] # "off")
     \/ srv[s] = "unlinked"
  /\ name = None
  /\ name' = s
  /\ srv' = [srv EXCEPT ![s] = "bound"]
  /\ UNCHANGED <<scene, flags, queues, registry, phase, asked, wire, state, sess, bounds>>

\* Mistake: bind's EADDRINUSE alone proves the pathname stale.
ProbeTrusting(s) ==
  /\ srv[s] = "off" /\ s \in scene.servers /\ Settled /\ name # None
  /\ srv' = [srv EXCEPT ![s] = "stale"]
  /\ UNCHANGED <<scene, name, flags, queues, registry, phase, asked, wire, state, sess, bounds>>

\* It does not: only a refused connection proves that nobody listens.  A probe that
\* connects is a connection the other server finds closed.
Probe(s) ==
  /\ srv[s] = "off" /\ s \in scene.servers /\ Settled /\ name # None
  /\ IF Listening(name)
     THEN /\ Len(backlog) < Backlog
          /\ srv' = [srv EXCEPT ![s] = "failed"]
          /\ backlog' = Append(backlog, s)
          /\ peer' = [peer EXCEPT ![s] = name]
          /\ at' = [at EXCEPT ![s] = "backlog"]
          /\ phase' = [phase EXCEPT ![s] = "closed"]
     ELSE /\ srv' = [srv EXCEPT ![s] = "stale"]
          /\ UNCHANGED <<backlog, peer, at, phase>>
  /\ UNCHANGED <<scene, name, flags, pending, overdue, accepting, registry, asked, hello, reply,
                 state, sess, bounds>>

unlink(s) ==
  /\ srv[s] = "stale"
  /\ name' = None
  /\ srv' = [srv EXCEPT ![s] = "unlinked"]
  /\ UNCHANGED <<scene, flags, queues, registry, phase, asked, wire, state, sess, bounds>>

\* listen and, in Server::start, the registration of the accept poller.
listen(s) ==
  /\ srv[s] = "bound"
  /\ srv' = [srv EXCEPT ![s] = "up"]
  /\ flags' = [stop |-> FALSE, drain |-> FALSE, propagated |-> FALSE, join |-> FALSE]
  /\ UNCHANGED <<scene, name, queues, registry, phase, asked, wire, state, sess, bounds>>

-----------------------------------------------------------------------------
(* A client: ClientConnector and ClientTransport.                          *)

Fail(c) == phase' = [phase EXCEPT ![c] = "failed"]

\* start.  A full backlog answers a non-blocking connect with EAGAIN, which for a
\* Unix socket does not mean that the connection is under way.
start(c) ==
  /\ phase[c] = "idle" /\ c \in scene.clients
  /\ IF name = None \/ ~Listening(name)
     THEN Fail(c) /\ UNCHANGED <<backlog, peer, at>>
     ELSE IF Len(backlog) = Backlog
          THEN /\ phase' = [phase EXCEPT ![c] = "connecting"]
               /\ UNCHANGED <<backlog, peer, at>>
          ELSE /\ phase' = [phase EXCEPT ![c] = "sending"]
               /\ backlog' = Append(backlog, c)
               /\ peer' = [peer EXCEPT ![c] = name]
               /\ at' = [at EXCEPT ![c] = "backlog"]
  /\ UNCHANGED <<server, pending, overdue, accepting, registry, asked, hello, reply, state, sess, bounds>>

\* poll while connecting: SO_ERROR is clear, and the hello meets ENOTCONN.
PollConnecting(c) ==
  /\ phase[c] = "connecting"
  /\ Fail(c)
  /\ UNCHANGED <<server, queues, registry, asked, wire, state, sess, bounds>>

PollSending(c) ==
  /\ phase[c] = "sending"
  /\ IF at[c] = "closed"
     THEN Fail(c) /\ UNCHANGED hello
     ELSE /\ phase' = [phase EXCEPT ![c] = "receiving"]
          /\ hello' = [hello EXCEPT ![c] = TRUE]
  /\ UNCHANGED <<server, queues, registry, asked, peer, at, reply, state, sess, bounds>>

\* The server ended the session before the client has mapped it: stale_session.
StillActive(c) == state[c] = "active"

\* poll while receiving: a refusal, an end of file, a session that is over, one whose
\* memory the client cannot map, or one it takes.
PollReceiving(c) ==
  /\ phase[c] = "receiving"
  /\ \/ /\ reply[c] = "session" /\ StillActive(c)
        /\ phase' = [phase EXCEPT ![c] = "up"]
        /\ UNCHANGED faults
     \/ /\ \/ reply[c] = "session" /\ ~StillActive(c)
           \/ reply[c] = "reject"
           \/ reply[c] = "none" /\ at[c] = "closed"
        /\ Fail(c)
        /\ UNCHANGED faults
     \/ /\ reply[c] = "session" /\ faults < scene.faults
        /\ Fail(c)
        /\ faults' = faults + 1
  /\ reply' = [reply EXCEPT ![c] = "none"]
  /\ UNCHANGED <<server, queues, registry, asked, peer, at, hello, state, sess, kills>>

\* ClientTransport::connect, the blocking form, gives up after kControlHandshakeTimeoutMs.
GiveUp(c) ==
  /\ scene.timeouts /\ phase[c] \in {"sending", "receiving"}
  /\ Fail(c)
  /\ UNCHANGED <<server, queues, registry, asked, wire, state, sess, bounds>>

\* ClientTransport::peer_alive, by which the client's Session decides to stop.
ClientPeerAlive(c) == state[c] = "active" /\ at[c] # "closed"

\* ~ClientTransport, when the application closes the session or its peer is gone.
CloseClient(c) ==
  /\ phase[c] = "up"
  /\ phase' = [phase EXCEPT ![c] = "closed"]
  /\ state' = [state EXCEPT ![c] = IF @ = "active" THEN "closing" ELSE @]
  /\ UNCHANGED <<server, queues, registry, asked, wire, sess, bounds>>

\* The client's process dies: the kernel closes its end, nobody writes the header.
KillClient(c) ==
  /\ kills < scene.kills
  /\ phase[c] \in {"sending", "receiving", "up"}
  /\ phase' = [phase EXCEPT ![c] = "closed"]
  /\ kills' = kills + 1
  /\ UNCHANGED <<server, queues, registry, asked, wire, state, sess, faults>>

-----------------------------------------------------------------------------
(* The accept poller of Server::Impl on worker 0.                          *)

\* The poller runs and is not inside an accept or a join of a retired session.
Polling(s) == srv[s] = "up" /\ accepting = None /\ draining = {}

Ready(c) == hello[c] \/ Hung(c)

Closed(C) == [c \in Conns |-> IF c \in C THEN "closed" ELSE at[c]]

\* The connections try_accept looks at: those past their deadline are dropped, then the
\* listener's queue is emptied.
Waiting == SelectSeq(pending, LAMBDA c : c \notin overdue) \o backlog

\* try_accept finds no message.
NoneReady(s) ==
  /\ Polling(s) /\ ~flags.stop
  /\ pending # Waiting
  /\ \A c \in Range(Waiting) : ~Ready(c)
  /\ pending' = Waiting
  /\ backlog' = <<>>
  /\ overdue' = {}
  /\ at' = [c \in Conns |-> CASE c \in overdue -> "closed"
                               [] c \in Range(backlog) -> "pending"
                               [] OTHER -> at[c]]
  /\ UNCHANGED <<server, accepting, registry, phase, asked, peer, hello, reply, state, sess, bounds>>

\* The first connection with a message or an end of file leaves the list.
FirstReady ==
  Waiting[CHOOSE i \in DOMAIN Waiting :
             Ready(Waiting[i]) /\ \A j \in 1..(i - 1) : ~Ready(Waiting[j])]

Taken(c) ==
  /\ pending' = Remove(Waiting, c)
  /\ backlog' = <<>>
  /\ overdue' = {}

\* at, when c goes to w.
TakenTo(c, w) ==
  [d \in Conns |-> CASE d = c -> w
                     [] d \in overdue \ {c} -> "closed"
                     [] d \in Range(backlog) \ {c} -> "pending"
                     [] OTHER -> at[d]]

\* The message of the connection, which may be its end of file.
receive_packet(c) == hello[c]

\* The lanes, the rings and the slots asked for are within the limits and make a layout.
make_layout(c) == asked[c] = "fits"

\* A message to a peer that is gone fails.
send_packet(c) == ~Hung(c)

\* accept_connected without a session: an end of file, or a hello that is refused.
Refuse(s, c) ==
  /\ Taken(c)
  /\ \/ ~receive_packet(c) /\ UNCHANGED <<reply, faults>>
     \/ /\ receive_packet(c) /\ ~make_layout(c)
        /\ reply' = [reply EXCEPT ![c] = "reject"]
        /\ UNCHANGED faults
     \/ /\ receive_packet(c) /\ make_layout(c) /\ faults < scene.faults
        /\ reply' = [reply EXCEPT ![c] = "reject"]
        /\ faults' = faults + 1
  /\ hello' = [hello EXCEPT ![c] = FALSE]
  /\ at' = TakenTo(c, "closed")
  /\ UNCHANGED <<accepting, sessions, state, sess>>

\* accept_connected maps the session, makes it active and sends its descriptors.  When
\* the client is gone the send fails and ~ServerTransport marks the session dead.
Establish(s, c) ==
  /\ Taken(c)
  /\ receive_packet(c) /\ make_layout(c)
  /\ hello' = [hello EXCEPT ![c] = FALSE]
  /\ IF send_packet(c)
     THEN /\ state' = [state EXCEPT ![c] = "active"]
          /\ at' = TakenTo(c, "session")
          /\ reply' = [reply EXCEPT ![c] = "session"]
          /\ accepting' = c
          /\ sessions' = sessions \cup {c}
          /\ sess' = [sess EXCEPT ![c] = "new"]
     ELSE /\ state' = [state EXCEPT ![c] = "dead"]
          /\ at' = TakenTo(c, "closed")
          /\ UNCHANGED <<reply, accepting, sessions, sess>>
  /\ UNCHANGED faults

\* One round of poll_accept's loop.
try_accept(s) ==
  /\ Polling(s) /\ ~flags.stop
  /\ \E c \in Range(Waiting) : Ready(c)
  /\ Refuse(s, FirstReady) \/ Establish(s, FirstReady)
  /\ UNCHANGED <<server, retired, draining, joining, phase, asked, peer, kills>>

\* ServerSession::start, which the client may outrun: it registers the pollers of the
\* session.  A session whose start fails is destroyed; one that has started while the
\* server was asked to stop is told so.
StartSession(s) ==
  /\ srv[s] = "up" /\ accepting # None
  /\ accepting' = None
  /\ \/ /\ sess' = [sess EXCEPT ![accepting] = IF flags.stop THEN "stop" ELSE "run"]
        /\ UNCHANGED <<sessions, at, state, faults>>
     \/ /\ faults < scene.faults
        /\ faults' = faults + 1
        /\ sess' = [sess EXCEPT ![accepting] = "finished"]
        /\ sessions' = sessions \ {accepting}
        /\ at' = [at EXCEPT ![accepting] = "closed"]
        /\ state' = [state EXCEPT ![accepting] = "dead"]
  /\ UNCHANGED <<server, backlog, pending, overdue, retired, draining, joining, phase, asked, peer,
                 hello, reply, kills>>

\* A connection that has not spoken within kControlHandshakeTimeoutMs.
Overdue(c) ==
  /\ scene.timeouts /\ c \in Range(pending) \ overdue
  /\ overdue' = overdue \cup {c}
  /\ UNCHANGED <<server, backlog, pending, accepting, registry, phase, asked, wire, state, sess, bounds>>

Stopped(C) == [c \in Conns |-> IF c \in C /\ sess[c] = "run" THEN "stop" ELSE sess[c]]

\* The first round of poll_accept that sees the stop tells every session, unless the
\* server drains.
PropagateStop(s) ==
  /\ Polling(s) /\ flags.stop /\ ~flags.drain /\ ~flags.propagated
  /\ flags' = [flags EXCEPT !.propagated = TRUE]
  /\ sess' = Stopped(sessions)
  /\ UNCHANGED <<scene, name, srv, queues, registry, phase, asked, wire, state, bounds>>

\* drain_retired_sessions empties the inbox ...
DrainRetired(s) ==
  /\ Polling(s) /\ retired # {}
  /\ draining' = retired
  /\ retired' = {}
  /\ UNCHANGED <<server, queues, sessions, joining, phase, asked, wire, state, sess, bounds>>

\* ... and joins each of its sessions, whose last owner it is.
JoinRetired(s, c) ==
  /\ srv[s] = "up" /\ c \in draining
  /\ sess[c] = "finished"
  /\ draining' = draining \ {c}
  /\ sessions' = sessions \ {c}
  /\ UNCHANGED <<server, queues, retired, joining, phase, asked, wire, state, sess, bounds>>

-----------------------------------------------------------------------------
(* The control poller of a session.                                        *)

Serving(c) == peer[c] # None /\ srv[peer[c]] \in {"up", "joining"}

\* Mistake: the header alone says whether the client is there.
ServerPeerAliveByHeader(c) == state[c] = "active"

\* The socket shows whether the client's end is open.
socket_peer_alive(c) == ~Hung(c)

\* ServerTransport::peer_alive.
ServerPeerAlive(c) == state[c] = "active" /\ socket_peer_alive(c)

Health(c) ==
  /\ sess[c] = "run" /\ Serving(c)
  /\ ~ServerPeerAlive(c)
  /\ sess' = [sess EXCEPT ![c] = "stop"]
  /\ UNCHANGED <<server, queues, registry, phase, asked, wire, state, bounds>>

\* The lanes are drained and the handles closed: mark_dead.
MarkDead(c) ==
  /\ sess[c] = "stop" /\ Serving(c)
  /\ sess' = [sess EXCEPT ![c] = "quiet"]
  /\ state' = [state EXCEPT ![c] = "dead"]
  /\ at' = [at EXCEPT ![c] = "closed"]
  /\ UNCHANGED <<server, queues, registry, phase, asked, peer, hello, reply, bounds>>

\* Mistake: finished_ is stored before the callback runs.
PublishLast(c) ==
  /\ Serving(c)
  /\ \/ /\ sess[c] = "quiet"
        /\ sess' = [sess EXCEPT ![c] = "finished"]
        /\ UNCHANGED retired
     \/ /\ sess[c] = "finished" /\ c \notin retired
        /\ retired' = retired \cup {c}
        /\ UNCHANGED sess
  /\ UNCHANGED <<server, queues, sessions, draining, joining, phase, asked, wire, state, bounds>>

\* publish_retirement_entry, then finished_.
Publish(c) ==
  /\ Serving(c)
  /\ \/ /\ sess[c] = "quiet"
        /\ sess' = [sess EXCEPT ![c] = "published"]
        /\ retired' = retired \cup {c}
     \/ /\ sess[c] = "published"
        /\ sess' = [sess EXCEPT ![c] = "finished"]
        /\ UNCHANGED retired
  /\ UNCHANGED <<server, queues, sessions, draining, joining, phase, asked, wire, state, bounds>>

-----------------------------------------------------------------------------
(* The end of a server.                                                    *)

\* Server::request_stop and request_drain, from any thread.
request_stop(s) ==
  /\ srv[s] = "up" /\ ~flags.stop
  /\ flags' = [flags EXCEPT !.stop = TRUE]
  /\ UNCHANGED <<scene, name, srv, queues, registry, phase, asked, wire, state, sess, bounds>>

request_drain(s) ==
  /\ srv[s] = "up" /\ ~flags.drain /\ ~flags.join
  /\ flags' = [flags EXCEPT !.stop = TRUE, !.drain = TRUE]
  /\ UNCHANGED <<scene, name, srv, queues, registry, phase, asked, wire, state, sess, bounds>>

\* Server::Impl::join asks for a stop itself ...
join(s) ==
  /\ srv[s] = "up" /\ ~flags.join
  /\ flags' = [flags EXCEPT !.stop = TRUE, !.join = TRUE]
  /\ UNCHANGED <<scene, name, srv, queues, registry, phase, asked, wire, state, sess, bounds>>

\* ... takes the accept poller off, for which it waits until the poller does not run,
\* and takes the sessions over.
TakeSessions(s) ==
  /\ Polling(s) /\ flags.join
  /\ srv' = [srv EXCEPT ![s] = "joining"]
  /\ joining' = sessions
  /\ sessions' = {}
  /\ sess' = IF flags.drain THEN sess ELSE Stopped(sessions)
  /\ UNCHANGED <<scene, name, flags, queues, retired, draining, phase, asked, wire, state, bounds>>

\* Mistake: join does not wait for the sessions.
AllJoinedAtOnce == TRUE

AllJoined == \A c \in joining : sess[c] = "finished"

JoinSessions(s) ==
  /\ srv[s] = "joining" /\ AllJoined
  /\ srv' = [srv EXCEPT ![s] = "joined"]
  /\ joining' = {}
  /\ retired' = {}
  /\ UNCHANGED <<scene, name, flags, queues, sessions, draining, phase, asked, wire, state, sess, bounds>>

\* ~ControlServer: the listener is closed, and with it what the kernel had queued.
CloseListener(s) ==
  /\ srv[s] = "joined"
  /\ srv' = [srv EXCEPT ![s] = "closing"]
  /\ at' = Closed(Range(backlog))
  /\ backlog' = <<>>
  /\ UNCHANGED <<scene, name, flags, pending, overdue, accepting, registry, phase, asked, peer, hello, reply,
                 state, sess, bounds>>

\* The pathname is removed if it still names this socket; the handshakes go last.
RemoveName(s) ==
  /\ srv[s] = "closing"
  /\ srv' = [srv EXCEPT ![s] = "gone"]
  /\ name' = IF name = s THEN None ELSE name
  /\ at' = Closed(Range(pending))
  /\ pending' = <<>>
  /\ overdue' = {}
  /\ UNCHANGED <<scene, flags, backlog, accepting, registry, phase, asked, peer, hello, reply, state, sess, bounds>>

\* The server's process dies: its descriptors are closed, its socket's name and the
\* headers of its sessions stay as they are.
KillServer(s) ==
  /\ kills < scene.kills
  /\ srv[s] \notin {"off"} \cup Gone
  /\ kills' = kills + 1
  /\ srv' = [srv EXCEPT ![s] = "killed"]
  /\ LET mine == {c \in Conns : peer[c] = s}
     IN /\ at' = Closed(mine)
        /\ sess' = [c \in Conns |-> IF c \in mine /\ sess[c] # "none" THEN "lost" ELSE sess[c]]
        /\ IF Listening(s) \/ srv[s] = "closing"
           THEN /\ backlog' = <<>> /\ pending' = <<>> /\ overdue' = {} /\ accepting' = None
                /\ sessions' = {} /\ retired' = {} /\ draining' = {} /\ joining' = {}
           ELSE UNCHANGED <<queues, registry>>
  /\ UNCHANGED <<scene, name, flags, phase, asked, peer, hello, reply, state, faults>>

-----------------------------------------------------------------------------
ClientSteps(c) ==
  \/ start(c) \/ PollConnecting(c) \/ PollSending(c) \/ PollReceiving(c)
  \/ GiveUp(c) \/ CloseClient(c) \/ KillClient(c)

ServerSteps(s) ==
  \/ bind(s) \/ Probe(s) \/ unlink(s) \/ listen(s)
  \/ NoneReady(s) \/ try_accept(s) \/ StartSession(s) \/ PropagateStop(s) \/ DrainRetired(s)
  \/ (\E c \in Conns : JoinRetired(s, c))
  \/ request_stop(s) \/ request_drain(s) \/ join(s) \/ TakeSessions(s) \/ JoinSessions(s)
  \/ CloseListener(s) \/ RemoveName(s) \/ KillServer(s)

SessionSteps(c) == Overdue(c) \/ Health(c) \/ MarkDead(c) \/ Publish(c)

Next ==
  \/ \E c \in Clients : ClientSteps(c)
  \/ \E s \in Servers : ServerSteps(s)
  \/ \E c \in Conns : SessionSteps(c)

\* A client's poller and the server's are polled for ever (Runtime), a call that has
\* begun goes on, who asks the server to stop joins it (orchfs_async_server_stop), and an
\* application closes the session it has opened in the end.  Nobody need start, stop or
\* be killed.
ClientTurn(c) == PollConnecting(c) \/ PollSending(c) \/ PollReceiving(c) \/ CloseClient(c)
SessionTurn(c) == Health(c) \/ MarkDead(c) \/ Publish(c)
ServerTurn(s) ==
  \/ unlink(s) \/ (srv[s] = "unlinked" /\ bind(s)) \/ listen(s)
  \/ NoneReady(s) \/ try_accept(s) \/ StartSession(s) \/ PropagateStop(s)
  \/ DrainRetired(s) \/ (\E c \in Conns : JoinRetired(s, c))
  \/ (flags.stop /\ join(s)) \/ TakeSessions(s)
  \/ JoinSessions(s) \/ CloseListener(s) \/ RemoveName(s)

Fairness ==
  /\ \A c \in Clients : WF_vars(ClientTurn(c))
  /\ \A s \in Servers : WF_vars(ServerTurn(s))
  /\ \A c \in Conns : WF_vars(SessionTurn(c))

Spec == Init /\ [][Next]_vars /\ Fairness

-----------------------------------------------------------------------------
(* Properties.                                                             *)

Live(c) == sess[c] \in {"new", "run", "stop", "quiet", "published"}

\* A client that has its transport and sees its peer alive (ClientTransport::peer_alive)
\* has a session at the server, of the incarnation that answered it: no half of a
\* session survives a refused start, a stop, a crash or a restart of the other side.
NoHalfSession ==
  \A c \in Clients :
    phase[c] = "up" /\ ClientPeerAlive(c) =>
      sess[c] \in {"new", "run", "stop"} /\ c \in sessions \cup joining /\ Serving(c)

\* Every open end of a connection at the server has an owner that will close it: the
\* listener's queue, the list of handshakes or a session that has not finished.
EndsOwned ==
  \A c \in Conns :
    /\ at[c] = "backlog" <=> c \in Range(backlog)
    /\ at[c] = "pending" <=> c \in Range(pending)
    /\ at[c] = "session" => Live(c) /\ c \in sessions \cup joining
    /\ at[c] \in {"backlog", "pending", "session"} => Listening(peer[c]) \/ srv[peer[c]] = "closing"

\* A session that retires touches the Server::Impl it got as a raw pointer, and the
\* inbox holds raw pointers to sessions: join does not return before every session is
\* past its callback, and no session is released while the inbox names it.
RetirementSafe ==
  /\ \A c \in Conns : Live(c) => Serving(c) /\ c \in sessions \cup joining
  /\ retired \cup draining \subseteq sessions \cup joining

\* The pathname names the server that listens, until it closes its listener: a second
\* server that is started by mistake or after a crash never takes the name of one that
\* is alive (listen: "Never remove an active listener").
NameKept == \A s \in Servers : Listening(s) => name = s

HandshakeSafe == NoHalfSession /\ EndsOwned /\ RetirementSafe /\ NameKept

\* A client that connects gets an answer or an error, whatever becomes of the server; the
\* session of a client that is gone is retired; and a server that is asked to stop ends.
HandshakeEnds ==
  <>[](/\ \A c \in Clients : /\ phase[c] \notin {"connecting", "sending", "receiving"}
                             /\ Hung(c) => ~Live(c)
       /\ \A s \in Servers : srv[s] \in {"off"} \cup Gone \/ (srv[s] = "up" /\ ~flags.stop))
=============================================================================
