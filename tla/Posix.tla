------------------------------- MODULE Posix -------------------------------
(***************************************************************************)
(* The POSIX boundary of LibFS: the preloaded wrappers                     *)
(* (LibFS/orchfs_wrapper.c) and the blocking adapter behind them           *)
(* (LibFS/async_adapter.cpp), with the Client, File and Directory objects  *)
(* of Async/client.cpp that they drive.                                    *)
(*                                                                         *)
(* Application threads call libc functions; a wrapper sends the call to    *)
(* the adapter, to libc, or to the adapter first and to libc after a miss. *)
(* The adapter owns one Runtime and at most one live session, reconnects   *)
(* when a session died, and maps descriptors and DIR streams to slots.     *)
(* Two kinds of spin/wait gates order the callers: one lifecycle gate for  *)
(* the process and one gate per slot.                                      *)
(***************************************************************************)
EXTENDS Integers, FiniteSets, FiniteSetsExt

CONSTANTS Threads,     \* application threads
          Exiting,     \* the thread that runs the DSO destructor
          Fds,         \* descriptor numbers, 1..n (3..kMaximumLocalFd in the code)
          MaxSlots,    \* bound: slots ever created
          MaxDeaths,   \* bound: sessions that die
          Loads,       \* what each thread may call and how often (bound), and what is open at first
          Outages      \* how connect(2) fails while the server is away

NoOne == "no one"   \* a free gate

----------------------------------------------------------------------------
(***************************************************************************)
(* The wrapped operations.  "by" is what selects the namespace: a path, a  *)
(* descriptor, a DIR stream, or (openat) a path and a descriptor.  "call"  *)
(* is the adapter function it makes.  "retry" says when a relative path    *)
(* that OrchFS refused goes to libc: after a lookup miss, or only when no  *)
(* session was ever there ("absent").                                      *)
(***************************************************************************)
Path(c) == [by |-> "path", call |-> c, retry |-> "miss"]
Fd(c) == [by |-> "fd", call |-> c, retry |-> "never"]
Dir(c) == [by |-> "dir", call |-> c, retry |-> "never"]

OPEN == Path("open")
OPEN64 == OPEN
LIBC_OPEN64 == OPEN
OPENAT == [by |-> "at", call |-> "openat", retry |-> "miss"]
openat64 == OPENAT
CREAT == Path("open")
CLOSE == Fd("close")
ACCESS == Path("lookup")
SEEK == Fd("use")
SEEK64 == SEEK
TRUNC == Path("lookup")
FTRUNC == Fd("use")
FTRUNC64 == FTRUNC
LINK == [by |-> "link", call |-> "lookup", retry |-> "miss"]
UNLINK == Path("lookup")
FSYNC == Fd("sync")
READ == Fd("use")
READ2 == READ
WRITE == Fd("use")
PREAD == Fd("use")
PREAD64 == PREAD
PWRITE == Fd("use")
PWRITE64 == PWRITE
XSTAT == Path("lookup")
STAT == Path("lookup")
STAT64 == Path("lookup")
FXSTAT == Fd("use")
FSTAT == Fd("use")
FSTAT64 == FSTAT
LSTAT == Path("lookup")
RENAME == [by |-> "path", call |-> "lookup", retry |-> "absent"]
MKDIR == Path("lookup")
RMDIR == Path("lookup")
STATFS == Path("statfs")
FSTATFS == Fd("use")
FDATASYNC == FSYNC
FCNTL == Fd("flags")
OPENDIR == Path("opendir")
CLOSEDIR == Dir("close")
READDIR == Dir("readdir")
READDIR64 == READDIR
SYNC_FILE_RANGE == FSYNC
FOPEN == Path("fopen")
FREAD == Fd("use")
FWRITE == Fd("use")
FSEEK == Fd("use")
FCLOSE == Fd("close")

AllOps == {OPEN, OPEN64, LIBC_OPEN64, OPENAT, openat64, CREAT, CLOSE, ACCESS, SEEK, SEEK64, TRUNC,
           FTRUNC, FTRUNC64, LINK, UNLINK, FSYNC, READ, READ2, WRITE, PREAD, PREAD64, PWRITE,
           PWRITE64, XSTAT, FXSTAT, STAT, STAT64, FSTAT, FSTAT64, LSTAT, RENAME, MKDIR, RMDIR, STATFS, FSTATFS,
           FDATASYNC, FCNTL, OPENDIR, CLOSEDIR, READDIR, READDIR64, SYNC_FILE_RANGE, FOPEN, FREAD,
           FWRITE, FSEEK, FCLOSE}

ASSUME PosixAssumption ==
  /\ Exiting \in Threads /\ NoOne \notin Threads
  /\ Fds = 1..Cardinality(Fds)
  /\ \A l \in Loads : /\ DOMAIN l.ops = Threads /\ \A t \in Threads : l.ops[t] \subseteq AllOps
                     /\ DOMAIN l.calls = Threads /\ l.open \in {"nothing", "file", "stream"}
  /\ Outages \subseteq {"refused", "missing"}

VARIABLES
  accepting,   \* AdapterState::accepting_calls
  runtime,     \* AdapterState::runtime exists
  current,     \* generation of current_epoch, 0 when there is none
  epochs,      \* next_epoch - 1: sessions made so far
  trouble,     \* initialization_error: "none", "ENOENT" (no socket) or "other"
  ever,        \* ever_connected
  active,      \* active_calls
  gate,        \* holder of lifecycle_owner
  live,        \* generation whose session is available(), 0 when none is
  clients,     \* generations whose Client still owns its Session
  server,      \* "up", or how connect(2) fails now
  slots,       \* FileSlot and DirectorySlot objects, by number
  files,       \* FileTable: descriptor -> slot, 0 when absent
  streams,     \* DirectoryTable: the slots that are in it
  nextFd,      \* next_fd
  thread,      \* what each thread is doing
  left,        \* calls each thread may still make
  load         \* the member of Loads this run is about

vars == <<accepting, runtime, current, epochs, trouble, ever, active, gate, live, clients, server,
          slots, files, streams, nextFd, thread, left, load>>

SlotIds == 1..MaxSlots
Used == {s \in SlotIds : slots[s].state # "none"}

NoSlot == [state |-> "none", dir |-> FALSE, epoch |-> 0, inflight |-> 0, owner |-> NoOne,
           handle |-> FALSE, aux |-> "unknown", cursor |-> 0, count |-> 0]

(***************************************************************************)
(* What a thread is doing: the step it is at, the adapter call and its     *)
(* retry rule, the descriptor, the slot and the epoch its leases refer to, *)
(* what adapter_ready answered, the error it carries, and the slots that a *)
(* shutdown has still to close.                                            *)
(***************************************************************************)
Idle == [pc |-> "idle", call |-> "none", retry |-> "never", fd |-> 0, slot |-> 0, epoch |-> 0,
         ready |-> FALSE, asked |-> FALSE, err |-> "none", stream |-> 0, rest |-> {}]

Is(t, p) == thread[t].pc = p
Slot(t) == slots[thread[t].slot]
To(t, p) == thread' = [thread EXCEPT ![t].pc = p]
Fails(t, p, e) == thread' = [thread EXCEPT ![t].pc = p, ![t].err = e]
Free == gate = NoOne
Holds(t) == gate = t

adapterVars == <<accepting, runtime, current, epochs, trouble, ever>>
sessionVars == <<live, clients, server>>
tableVars == <<slots, files, streams, nextFd>>

ready_locked == accepting /\ runtime /\ current # 0 /\ live = current
unavailable_error ==
  IF ~accepting THEN "other" ELSE IF trouble # "none" THEN trouble ELSE "other"

(***************************************************************************)
(* init_method has run adapter_init: there is a session, possibly with a   *)
(* descriptor or a stream already open on it, or none, because the server  *)
(* is away.                                                                *)
(***************************************************************************)
Opened == [NoSlot EXCEPT !.state = "open", !.handle = TRUE, !.epoch = 1]
Init ==
  /\ load \in Loads
  /\ accepting = TRUE /\ active = 0 /\ gate = NoOne
  /\ \/ /\ server = "up" /\ runtime = TRUE /\ current = 1 /\ epochs = 1 /\ live = 1
        /\ clients = {1} /\ ever = TRUE /\ trouble = "none"
     \/ /\ load.open = "nothing" /\ server \in Outages /\ runtime = FALSE /\ current = 0 /\ epochs = 0 /\ live = 0
        /\ clients = {} /\ ever = FALSE
        /\ trouble = IF server = "missing" THEN "ENOENT" ELSE "other"
  /\ slots = [s \in SlotIds |-> IF s = 1 /\ load.open # "nothing"
                               THEN [Opened EXCEPT !.dir = (load.open = "stream")] ELSE NoSlot]
  /\ files = [f \in Fds |-> IF f = 1 /\ load.open = "file" THEN 1 ELSE 0]
  /\ streams = IF load.open = "stream" THEN {1} ELSE {}
  /\ nextFd = 1
  /\ thread = [t \in Threads |-> Idle]
  /\ left = load.calls

----------------------------------------------------------------------------
(***************************************************************************)
(* A slot lives while a table, a lease or the map that a shutdown took     *)
(* away refers to it; its destructor closes what it still owns.            *)
(***************************************************************************)
Referenced(s, fs, ds, th) ==
  \/ \E f \in Fds : fs[f] = s
  \/ s \in ds
  \/ \E t \in Threads : th[t].slot = s \/ s \in th[t].rest
Collect == slots' = [s \in SlotIds |->
                       IF Referenced(s, files, streams, thread') THEN slots[s] ELSE NoSlot]

(* where a call goes when the adapter has answered with error e, "none" for success *)
Returned(t, e) ==
  LET c == thread[t] IN
  IF c.call = "flush" THEN [Idle EXCEPT !.pc = "shut"]
  ELSE IF e # "none" /\ c.retry # "never"
       THEN [Idle EXCEPT !.pc = "fallback", !.retry = c.retry, !.ready = c.ready, !.err = e,
                         !.asked = c.asked]
       ELSE Idle
Return(t, e) == thread' = [thread EXCEPT ![t] = Returned(t, e)] /\ Collect

(* what a remote call on the session of epoch e may answer *)
Answers(e) == IF live = e THEN {"none", "ENOENT", "other"} ELSE {"other"}

----------------------------------------------------------------------------
(***************************************************************************)
(* The wrappers.  A path with the OrchFS prefix is never retried; an       *)
(* absolute host path, a host descriptor or a libc stream goes straight to *)
(* libc and meets no adapter state.                                        *)
(***************************************************************************)
Starts(t, c) == thread' = [thread EXCEPT ![t] = c] /\ left' = [left EXCEPT ![t] = @ - 1]

MaySpend(t) == Is(t, "idle") /\ left[t] > 0
Opening(c) == c \in {"open", "fopen", "opendir", "openat"}
Pending == {t \in Threads : Opening(thread[t].call) /\ thread[t].pc # "fallback"}
Room == Cardinality(Used) + Cardinality(Pending) < MaxSlots   \* bound

Begin(t) ==
  /\ MaySpend(t)
  /\ \E o \in load.ops[t] :
       LET call == [Idle EXCEPT !.call = o.call] IN
       /\ Opening(o.call) => Room
       /\ \/ /\ o.by \in {"path", "link"}
             /\ \E r \in {o.retry, "never"} :
                  /\ o.by = "link" => r # "never"
                  /\ Starts(t, [call EXCEPT !.pc = "ready", !.retry = r])
          \/ /\ o.by = "at"
             /\ \/ \E r \in {o.retry, "never"} :
                     Starts(t, [call EXCEPT !.pc = "ready", !.retry = r])
                \/ \E f \in Fds : Starts(t, [call EXCEPT !.pc = "ready", !.fd = f])
          \/ o.by = "fd" /\ \E f \in Fds : Starts(t, [call EXCEPT !.pc = "find", !.fd = f])
          \/ o.by = "dir" /\ \E s \in streams : Starts(t, [call EXCEPT !.pc = "find", !.stream = s])
  /\ UNCHANGED <<adapterVars, active, gate, sessionVars, tableVars, load>>

(* a relative path that OrchFS refused: may libc have it? *)
allow_host_fallback(t) == IF thread[t].ready THEN thread[t].err = "ENOENT" ELSE ~ever
should_fallback(t) ==
  /\ thread[t].retry = "absent" => ~thread[t].ready
  /\ allow_host_fallback(t)
Fallback(t) ==
  /\ Is(t, "fallback") /\ Free
  /\ thread' = [thread EXCEPT ![t] = IF should_fallback(t) THEN [@ EXCEPT !.pc = "host"] ELSE Idle]
  /\ UNCHANGED <<adapterVars, active, gate, sessionVars, tableVars, left, load>>

HostCall(t) ==
  /\ Is(t, "host")
  /\ thread' = [thread EXCEPT ![t] = Idle]
  /\ UNCHANGED <<adapterVars, active, gate, sessionVars, tableVars, left, load>>

----------------------------------------------------------------------------
(***************************************************************************)
(* adapter_ready and adapter_init: the lazy reconnect of path calls.  The  *)
(* second of them holds the lifecycle gate while it connects.              *)
(***************************************************************************)
Proceed(t, yes) ==
  thread' = [thread EXCEPT ![t].ready = yes,
                           ![t].pc = IF thread[t].call = "openat" THEN "recheck" ELSE "lease"]

adapter_ready(t) ==
  /\ Is(t, "ready") /\ Free
  /\ IF accepting /\ ~ready_locked THEN To(t, "init") ELSE Proceed(t, accepting)
  /\ UNCHANGED <<adapterVars, active, gate, sessionVars, tableVars, left, load>>

adapter_init(t) ==
  /\ Is(t, "init") /\ Free
  /\ \/ /\ ~accepting \/ ready_locked
        /\ Proceed(t, accepting)
        /\ UNCHANGED <<adapterVars, gate>>
     \/ /\ accepting /\ ~ready_locked
        /\ To(t, IF runtime THEN "reconnect" ELSE "connect")
        /\ gate' = t /\ runtime' = TRUE /\ current' = 0
        /\ UNCHANGED <<accepting, epochs, trouble, ever>>
     \/ /\ accepting /\ ~runtime          \* Runtime::create failed
        /\ Proceed(t, FALSE)
        /\ trouble' = "other"
        /\ UNCHANGED <<accepting, runtime, current, epochs, ever, gate>>
  /\ UNCHANGED <<active, sessionVars, tableVars, left, load>>

(* Mistake: a connection that failed keeps the lifecycle gate. *)
ConnectGated(t) ==
  /\ thread[t].pc \in {"connect", "reconnect"}
  /\ \/ /\ server = "up"
        /\ epochs' = epochs + 1 /\ current' = epochs' /\ live' = epochs'
        /\ clients' = clients \cup {epochs'}
        /\ ever' = TRUE /\ trouble' = "none" /\ gate' = NoOne
        /\ Proceed(t, TRUE)
        /\ UNCHANGED runtime
     \/ /\ server # "up"
        /\ trouble' = IF server = "missing" THEN "ENOENT" ELSE "other"
        /\ runtime' = Is(t, "reconnect")
        /\ Proceed(t, FALSE)
        /\ UNCHANGED <<epochs, current, live, clients, ever, gate>>
  /\ UNCHANGED <<accepting, active, server, tableVars, left, load>>

(* a Runtime made for a connection that failed is stopped again *)
Connect(t) ==
  /\ thread[t].pc \in {"connect", "reconnect"}
  /\ \/ /\ server = "up"
        /\ epochs' = epochs + 1 /\ current' = epochs' /\ live' = epochs'
        /\ clients' = clients \cup {epochs'}
        /\ ever' = TRUE /\ trouble' = "none"
        /\ Proceed(t, TRUE)
        /\ UNCHANGED runtime
     \/ /\ server # "up"
        /\ trouble' = IF server = "missing" THEN "ENOENT" ELSE "other"
        /\ runtime' = Is(t, "reconnect")
        /\ Proceed(t, FALSE)
        /\ UNCHANGED <<epochs, current, live, clients, ever>>
  /\ gate' = NoOne
  /\ UNCHANGED <<accepting, active, server, tableVars, left, load>>

(* the first thing orchfs_async_openat does; a relative name under a descriptor needs its slot *)
Recheck(t) ==
  /\ Is(t, "recheck") /\ Free
  /\ IF ready_locked
     THEN To(t, IF thread[t].fd = 0 THEN "lease" ELSE "find") /\ UNCHANGED slots
     ELSE Return(t, unavailable_error)
  /\ UNCHANGED <<adapterVars, active, gate, sessionVars, files, streams, nextFd, left, load>>

acquire_epoch(t) ==
  /\ Is(t, "lease") /\ Free
  /\ \/ /\ ready_locked
        /\ thread' = [thread EXCEPT ![t].pc = "remote", ![t].epoch = current, ![t].asked = TRUE]
        /\ active' = active + 1
        /\ UNCHANGED slots
     \/ /\ ~ready_locked
        /\ Return(t, unavailable_error)
        /\ UNCHANGED active
  /\ UNCHANGED <<adapterVars, gate, sessionVars, files, streams, nextFd, left, load>>

----------------------------------------------------------------------------
(***************************************************************************)
(* Path calls: one remote operation under the epoch's lease, and for the   *)
(* opening ones the new slot.                                              *)
(***************************************************************************)
RemoteOpen(t) ==
  /\ Is(t, "remote") /\ Opening(thread[t].call)
  /\ \E r \in Answers(thread[t].epoch) : Fails(t, IF r = "none" THEN "install" ELSE "finish", r)
  /\ UNCHANGED <<adapterVars, active, gate, sessionVars, tableVars, left, load>>

PathCall(t) ==
  /\ Is(t, "remote") /\ ~Opening(thread[t].call)
  /\ \E r \in Answers(thread[t].epoch) :
       Fails(t, IF r = "none" /\ thread[t].call = "statfs" THEN "statfs" ELSE "finish", r)
  /\ UNCHANGED <<adapterVars, active, gate, sessionVars, tableVars, left, load>>

(* statfs asks through a File of its own, closed before the call returns *)
Statfs(t) ==
  /\ Is(t, "statfs")
  /\ \E r \in Answers(thread[t].epoch) : Fails(t, "finish", r)
  /\ UNCHANGED <<adapterVars, active, gate, sessionVars, tableVars, left, load>>

After(f) == (f % Cardinality(Fds)) + 1
Distance(f) == (f - nextFd + Cardinality(Fds)) % Cardinality(Fds)
Vacant == {f \in Fds : files[f] = 0}
Candidate == CHOOSE f \in Vacant : \A g \in Vacant : Distance(f) <= Distance(g)

Finishing(t) == IF thread[t].slot = 0 THEN "finish" ELSE "finishSlot"

install_opened_file(t) ==
  /\ Is(t, "install") /\ thread[t].call # "opendir"
  /\ IF Vacant = {}
     THEN /\ Fails(t, Finishing(t), "other")          \* EMFILE: the File closes itself
          /\ nextFd' = After(nextFd)
          /\ UNCHANGED <<slots, files>>
     ELSE LET f == Candidate
              s == Min(SlotIds \ Used)
          IN /\ slots' = [slots EXCEPT ![s] = [NoSlot EXCEPT !.state = "open", !.handle = TRUE,
                                                            !.epoch = thread[t].epoch]]
             /\ files' = [files EXCEPT ![f] = s]
             /\ nextFd' = After(f)
             /\ thread' = [thread EXCEPT ![t].pc = Finishing(t), ![t].fd = f]
  /\ UNCHANGED <<adapterVars, active, gate, sessionVars, streams, left, load>>

insert_directory(t) ==
  /\ Is(t, "install") /\ thread[t].call = "opendir"
  /\ LET s == Min(SlotIds \ Used) IN
       /\ slots' = [slots EXCEPT ![s] = [NoSlot EXCEPT !.state = "open", !.handle = TRUE,
                                                      !.dir = TRUE, !.epoch = thread[t].epoch]]
       /\ streams' = streams \cup {s}
  /\ To(t, "finish")
  /\ UNCHANGED <<adapterVars, active, gate, sessionVars, files, nextFd, left, load>>

----------------------------------------------------------------------------
(***************************************************************************)
(* Leases.  A lease counts itself out first, of the slot and then of the   *)
(* adapter, and lets go of the slot and of the epoch afterwards.           *)
(***************************************************************************)
finish_slot_call(t) ==
  /\ Is(t, "finishSlot")
  /\ slots' = [slots EXCEPT ![thread[t].slot].inflight = @ - 1]
  /\ To(t, "finish")
  /\ UNCHANGED <<adapterVars, active, gate, sessionVars, files, streams, nextFd, left, load>>

finish_active_call(t) ==
  /\ Is(t, "finish")
  /\ active' = active - 1
  /\ To(t, "drop")
  /\ UNCHANGED <<adapterVars, gate, sessionVars, tableVars, left, load>>

(* fopencookie may fail after its open: orchfs_async_fopen closes the descriptor again *)
DropLease(t) ==
  /\ Is(t, "drop")
  /\ \/ Return(t, thread[t].err)
     \/ /\ thread[t].call = "fopen" /\ thread[t].err = "none"
        /\ thread' = [thread EXCEPT ![t] = [Idle EXCEPT !.pc = "find", !.call = "close",
                                                        !.fd = thread[t].fd]]
        /\ UNCHANGED slots
  /\ UNCHANGED <<adapterVars, active, gate, sessionVars, files, streams, nextFd, left, load>>

----------------------------------------------------------------------------
(***************************************************************************)
(* Calls on a descriptor or a stream.  acquire_file and acquire_directory  *)
(* take the lifecycle gate, find the slot, and wait for the slot's gate    *)
(* with the lifecycle gate in hand; a close does the same.                 *)
(***************************************************************************)
Found(t) == IF thread[t].stream # 0 THEN IF thread[t].stream \in streams THEN thread[t].stream ELSE 0
            ELSE files[thread[t].fd]

FindSlot(t) ==
  /\ Is(t, "find") /\ Free
  /\ \/ /\ accepting /\ Found(t) # 0
        /\ thread' = [thread EXCEPT ![t].pc = "enter", ![t].slot = Found(t)]
        /\ gate' = t
        /\ UNCHANGED slots
     \/ /\ ~accepting \/ Found(t) = 0               \* ESHUTDOWN, EBADF
        /\ Return(t, "other")
        /\ UNCHANGED gate
  /\ UNCHANGED <<adapterVars, active, sessionVars, files, streams, nextFd, left, load>>

SlotFree(t) == Slot(t).owner = NoOne
Operation(c) == CASE c \in {"use", "flush"} -> "use" [] c = "sync" -> "finishSlot" [] OTHER -> "own"

acquire_slot(t) ==
  /\ Is(t, "enter") /\ SlotFree(t) /\ thread[t].call # "close"
  /\ gate' = NoOne
  /\ \/ /\ Slot(t).state = "open" /\ Slot(t).epoch = live
        /\ slots' = [slots EXCEPT ![thread[t].slot].inflight = @ + 1]
        /\ active' = active + 1
        /\ thread' = [thread EXCEPT ![t].pc = Operation(thread[t].call), ![t].asked = TRUE,
                                    ![t].epoch = Slot(t).epoch]
     \/ /\ Slot(t).state # "open" \/ Slot(t).epoch # live
        /\ Return(t, IF Slot(t).state # "open" THEN "other" ELSE unavailable_error)
        /\ UNCHANGED active
  /\ UNCHANGED <<adapterVars, sessionVars, files, streams, nextFd, left, load>>

(* read, write, pread, pwrite, lseek, fstat, fstatfs, ftruncate: the slot's gate is not needed *)
FileCall(t) ==
  /\ Is(t, "use")
  /\ \E r \in Answers(thread[t].epoch) : Fails(t, "finishSlot", r)
  /\ UNCHANGED <<adapterVars, active, gate, sessionVars, tableVars, left, load>>

Owns(t) == slots' = [slots EXCEPT ![thread[t].slot].owner = t]
Disowned(t) == [Slot(t) EXCEPT !.owner = NoOne]
SetSlot(t, s) == slots' = [slots EXCEPT ![thread[t].slot] = s]
SlotStep == UNCHANGED <<adapterVars, active, gate, sessionVars, files, streams, nextFd, left, load>>

(* fcntl: the descriptor flags are local, the file flags are the server's *)
fcntl(t) ==
  /\ thread[t].call = "flags"
  /\ \/ Is(t, "own") /\ SlotFree(t) /\ To(t, "finishSlot") /\ UNCHANGED slots
     \/ Is(t, "own") /\ SlotFree(t) /\ To(t, "flags") /\ Owns(t)
     \/ /\ Is(t, "flags")
        /\ \E r \in Answers(thread[t].epoch) : Fails(t, "finishSlot", r)
        /\ SetSlot(t, Disowned(t))
  /\ SlotStep

(* readdir: an entry of the batch, or a new batch of one entry or none *)
read_directory_entry(t) ==
  /\ thread[t].call = "readdir"
  /\ \/ /\ Is(t, "own") /\ SlotFree(t) /\ Slot(t).cursor # Slot(t).count
        /\ SetSlot(t, [Slot(t) EXCEPT !.cursor = @ + 1])
        /\ To(t, "finishSlot")
     \/ /\ Is(t, "own") /\ SlotFree(t) /\ Slot(t).cursor = Slot(t).count
        /\ SetSlot(t, [Slot(t) EXCEPT !.owner = t, !.cursor = 0])
        /\ To(t, "batch")
     \/ /\ Is(t, "batch")
        /\ \E r \in Answers(thread[t].epoch) : Fails(t, "finishSlot", r) /\
             IF r # "none" THEN SetSlot(t, Disowned(t))
             ELSE \E n \in 0..1 : SetSlot(t, [Disowned(t) EXCEPT !.count = n, !.cursor = n])
  /\ SlotStep

(***************************************************************************)
(* openat under a descriptor: make sure, once per slot, of a directory     *)
(* handle for the inode the descriptor has open (ensure_directory_handle), *)
(* let the slot go, take it again and open through that handle.            *)
(***************************************************************************)
path_for_openat(t) ==
  /\ thread[t].call = "openat"
  /\ \/ /\ Is(t, "own") /\ SlotFree(t)
        /\ CASE Slot(t).aux = "open" -> To(t, "own2") /\ UNCHANGED slots
             [] Slot(t).aux = "file" -> Fails(t, "finishSlot", "other") /\ UNCHANGED slots
             [] OTHER -> To(t, "ensure") /\ Owns(t)
     \/ /\ Is(t, "ensure")
        /\ \E r \in Answers(thread[t].epoch), isDirectory \in BOOLEAN :
             \/ /\ r = "none" /\ isDirectory
                /\ SetSlot(t, [Disowned(t) EXCEPT !.aux = "open"])
                /\ To(t, "own2")
             \/ /\ r = "none" /\ ~isDirectory
                /\ SetSlot(t, [Disowned(t) EXCEPT !.aux = "file"])
                /\ Fails(t, "finishSlot", "other")
             \/ /\ r # "none"
                /\ SetSlot(t, Disowned(t))
                /\ Fails(t, "finishSlot", r)
  /\ SlotStep

openat(t) ==
  /\ thread[t].call = "openat"
  /\ \/ /\ Is(t, "own2") /\ SlotFree(t)
        /\ To(t, "openAt") /\ Owns(t)
     \/ /\ Is(t, "openAt")
        /\ \E r \in Answers(thread[t].epoch) :
             Fails(t, IF r = "none" THEN "install" ELSE "finishSlot", r)
        /\ SetSlot(t, Disowned(t))
  /\ SlotStep

----------------------------------------------------------------------------
(***************************************************************************)
(* close and closedir: mark the slot, wait for the calls under way, close  *)
(* the remote handle, retire the slot.  A failure of a live session leaves *)
(* the slot open for another attempt; a dead session cannot be asked.      *)
(***************************************************************************)
close_slot(t) ==
  /\ Is(t, "enter") /\ SlotFree(t) /\ thread[t].call = "close"
  /\ gate' = NoOne
  /\ \/ /\ Slot(t).state = "open"
        /\ SetSlot(t, [Slot(t) EXCEPT !.state = "closing"])
        /\ active' = active + 1
        /\ thread' = [thread EXCEPT ![t].pc = "drain", ![t].epoch = Slot(t).epoch]
     \/ /\ Slot(t).state # "open"
        /\ Return(t, "other")
        /\ UNCHANGED active
  /\ UNCHANGED <<adapterVars, sessionVars, files, streams, nextFd, left, load>>

(* Mistake: a close does not wait for the calls under way. *)
wait_for_no_calls(t) ==
  /\ Is(t, "drain")
  /\ To(t, IF thread[t].epoch = live THEN "closing" ELSE "retire")
  /\ UNCHANGED slots
  /\ SlotStep

wait_for_slot_calls(t) ==
  /\ Is(t, "drain") /\ Slot(t).inflight = 0
  /\ To(t, IF thread[t].epoch = live THEN "closing" ELSE "retire")
  /\ UNCHANGED slots
  /\ SlotStep

(* without a session File::close and Directory::close report success and send nothing *)
RemoteClose(t, closed) ==
  /\ \/ /\ thread[t].epoch = live
        /\ SetSlot(t, [Slot(t) EXCEPT !.handle = FALSE])
        /\ To(t, closed)
     \/ thread[t].epoch = live /\ Fails(t, "reopen", "other") /\ UNCHANGED slots
     \/ thread[t].epoch # live /\ (To(t, closed) \/ To(t, "retire")) /\ UNCHANGED slots
  /\ SlotStep

CloseFile(t) == Is(t, "closing") /\ ~Slot(t).dir /\ RemoteClose(t, "aux")
closedir(t) == Is(t, "closing") /\ Slot(t).dir /\ RemoteClose(t, "retire")

Reopen(t) ==
  /\ Is(t, "reopen") /\ SlotFree(t)
  /\ SetSlot(t, [Slot(t) EXCEPT !.state = "open"])
  /\ To(t, "finish")
  /\ SlotStep

(* the directory handle kept for openat goes too, under the slot's gate *)
CloseAux(t) ==
  /\ \/ /\ Is(t, "aux") /\ SlotFree(t)
        /\ IF Slot(t).aux = "open" THEN To(t, "auxClose") /\ Owns(t)
           ELSE To(t, "erase") /\ SetSlot(t, [Slot(t) EXCEPT !.state = "closed"])
     \/ /\ Is(t, "auxClose")
        /\ SetSlot(t, [Disowned(t) EXCEPT !.state = "closed", !.aux = "unknown"])
        /\ To(t, "erase")
  /\ SlotStep

Retire(t) ==
  /\ Is(t, "retire") /\ SlotFree(t)
  /\ SetSlot(t, [Slot(t) EXCEPT !.state = "closed", !.aux = "unknown"])
  /\ To(t, "erase")
  /\ SlotStep

erase(t) ==
  /\ Is(t, "erase")
  /\ files' = [f \in Fds |-> IF files[f] = thread[t].slot THEN 0 ELSE files[f]]
  /\ streams' = streams \ {thread[t].slot}
  /\ To(t, "finish")
  /\ UNCHANGED <<adapterVars, active, gate, sessionVars, slots, nextFd, left, load>>

----------------------------------------------------------------------------
(***************************************************************************)
(* over_method, which the process runs on its way out: flush the stdio     *)
(* streams (their cookies write through the adapter), then shut down.      *)
(***************************************************************************)
over_method(t) ==
  /\ t = Exiting /\ Is(t, "idle")
  /\ \/ thread' = [thread EXCEPT ![t].pc = "shut"]
     \/ \E f \in Fds : thread' = [thread EXCEPT ![t].pc = "find", ![t].call = "flush", ![t].fd = f]
  /\ UNCHANGED <<adapterVars, active, gate, sessionVars, tableVars, left, load>>

ShutBegin(t) ==
  /\ Is(t, "shut") /\ Free
  /\ gate' = t /\ accepting' = FALSE
  /\ To(t, "quiesce")
  /\ UNCHANGED <<runtime, current, epochs, trouble, ever, active, sessionVars, tableVars, left, load>>

wait_for_active_calls(t) ==
  /\ Is(t, "quiesce") /\ active = 0
  /\ \/ /\ runtime
        /\ thread' = [thread EXCEPT ![t].pc = "slots",
                                    ![t].rest = {s \in SlotIds : \E f \in Fds : files[f] = s}
                                                  \cup streams]
        /\ files' = [f \in Fds |-> 0] /\ streams' = {}
        /\ UNCHANGED <<current, gate>>
     \/ /\ ~runtime
        /\ current' = 0 /\ gate' = NoOne
        /\ To(t, "gone")
        /\ UNCHANGED <<files, streams>>
  /\ UNCHANGED <<accepting, runtime, epochs, trouble, ever, active, sessionVars, slots, nextFd, left, load>>

ShutSlot(t) ==
  /\ Is(t, "slots")
  /\ \E s \in thread[t].rest, answered \in BOOLEAN :
       /\ slots[s].owner = NoOne /\ slots[s].inflight = 0
       /\ slots' = [slots EXCEPT ![s] = [@ EXCEPT !.state = "closed", !.aux = "unknown",
                                         !.handle = ~(answered /\ slots[s].epoch = live)]]
       /\ thread' = [thread EXCEPT ![t].rest = @ \ {s}]
  /\ SlotStep

(* the maps are destroyed, then the session, then the Runtime *)
ShutSession(t) ==
  /\ Is(t, "slots") /\ thread[t].rest = {}
  /\ To(t, "stop")
  /\ Collect
  /\ clients' = clients \ {e \in {current} : e = live}
  /\ live' = 0 /\ current' = 0
  /\ UNCHANGED <<accepting, runtime, epochs, trouble, ever, active, gate, server, files, streams,
                 nextFd, left, load>>

ShutRuntime(t) ==
  /\ Is(t, "stop")
  /\ runtime' = FALSE /\ gate' = NoOne
  /\ To(t, "gone")
  /\ UNCHANGED <<accepting, current, epochs, trouble, ever, active, sessionVars, tableVars, left, load>>

----------------------------------------------------------------------------
(* the transport fails, or the server goes away with it *)
SessionDies ==
  /\ live # 0 /\ epochs <= MaxDeaths
  /\ live' = 0
  /\ server' \in Outages \cup {"up"}
  /\ UNCHANGED <<adapterVars, active, gate, clients, tableVars, thread, left, load>>

ServerRestarts ==
  /\ server # "up" /\ server' = "up"
  /\ UNCHANGED <<adapterVars, active, gate, live, clients, tableVars, thread, left, load>>

Step(t) ==
  \/ Fallback(t) \/ HostCall(t)
  \/ adapter_ready(t) \/ adapter_init(t) \/ Connect(t) \/ Recheck(t) \/ acquire_epoch(t)
  \/ RemoteOpen(t) \/ PathCall(t) \/ Statfs(t) \/ install_opened_file(t) \/ insert_directory(t)
  \/ finish_slot_call(t) \/ finish_active_call(t) \/ DropLease(t)
  \/ FindSlot(t) \/ acquire_slot(t) \/ FileCall(t) \/ fcntl(t) \/ read_directory_entry(t)
  \/ path_for_openat(t) \/ openat(t)
  \/ close_slot(t) \/ wait_for_slot_calls(t) \/ CloseFile(t) \/ closedir(t) \/ Reopen(t) \/ CloseAux(t)
  \/ Retire(t) \/ erase(t)
  \/ ShutBegin(t) \/ wait_for_active_calls(t) \/ ShutSlot(t) \/ ShutSession(t) \/ ShutRuntime(t)

Next == (\E t \in Threads : Begin(t) \/ over_method(t) \/ Step(t)) \/ SessionDies \/ ServerRestarts

(* the kernel schedules every thread; a remote call is answered or its session dies *)
Fairness == \A t \in Threads : WF_vars(Step(t))
Spec == Init /\ [][Next]_vars /\ Fairness

----------------------------------------------------------------------------
RemoteSlotSteps == {"use", "flags", "batch", "ensure", "openAt"}
RemoteSteps == RemoteSlotSteps \cup {"remote", "statfs", "closing", "auxClose", "slots"}
ClosingSteps == {"drain", "closing", "reopen", "aux", "auxClose", "retire", "erase"}
LeasedSteps == RemoteSlotSteps \cup {"own", "own2", "finishSlot"}
Leased(t) == thread[t].pc \in LeasedSteps \/ (Is(t, "install") /\ thread[t].slot # 0)

(* The variables are in the states the code can put them in. *)
TypeOK ==
  /\ accepting \in BOOLEAN /\ runtime \in BOOLEAN /\ ever \in BOOLEAN
  /\ current \in 0..(MaxDeaths + 1) /\ epochs \in 0..(MaxDeaths + 1) /\ live \in {0, epochs}
  /\ trouble \in {"none", "ENOENT", "other"}
  /\ active \in 0..Cardinality(Threads) /\ gate \in Threads \cup {NoOne}
  /\ clients \subseteq 1..epochs /\ server \in {"up", "refused", "missing"}
  /\ files \in [Fds -> 0..MaxSlots] /\ streams \subseteq SlotIds /\ nextFd \in Fds
  /\ \A s \in SlotIds : /\ slots[s].state \in {"none", "open", "closing", "closed"}
                        /\ slots[s].inflight \in 0..Cardinality(Threads)
                        /\ slots[s].owner \in Threads \cup {NoOne}

(* inflight counts the leases on a slot, active_calls the calls a shutdown has to wait for *)
Counted ==
  /\ \A s \in Used : slots[s].inflight = Cardinality({t \in Threads : Leased(t) /\ thread[t].slot = s})
  /\ active = Cardinality({t \in Threads : thread[t].epoch # 0 /\ ~Is(t, "drop")})

(* while a call on a slot is under way its remote handle is open, and the Runtime is there *)
HandleOpen ==
  \A t \in Threads :
    /\ thread[t].pc \in RemoteSlotSteps => Slot(t).handle /\ Slot(t).state # "closed"
    /\ thread[t].pc \in {"own2", "openAt"} => Slot(t).aux = "open"
    /\ thread[t].pc \in RemoteSteps => runtime

(* one thread at a time closes a slot, and a table names only slots that exist *)
OneCloser ==
  /\ \A s \in Used : Cardinality({t \in Threads : thread[t].slot = s /\ thread[t].pc \in ClosingSteps})
                       <= IF slots[s].state = "open" THEN 0 ELSE 1
  /\ \A f \in Fds : files[f] # 0 => slots[files[f]].state # "none"
  /\ \A f, g \in Fds : files[f] = files[g] /\ files[f] # 0 => f = g
  /\ \A s \in Used : slots[s].state = "closing" =>
       \E t \in Threads : thread[t].slot = s /\ thread[t].pc \in ClosingSteps

(* after orchfs_async_adapter_shutdown: no descriptor, no stream, no session, nobody in a call *)
ShutDownClean ==
  Is(Exiting, "gone") =>
    /\ ~accepting /\ ~runtime /\ current = 0 /\ live = 0 /\ active = 0 /\ gate # Exiting
    /\ streams = {} /\ \A f \in Fds : files[f] = 0
    /\ \A t \in Threads : thread[t].pc \notin RemoteSteps

(***************************************************************************)
(* A remote operation uses its handle only before the close of that handle *)
(* has succeeded and while the Runtime runs, whatever the calls of two     *)
(* threads on one descriptor, a dying session and an exiting process do;   *)
(* the counts that closers and the shutdown wait for are exact; and a      *)
(* shutdown leaves nothing behind (async_adapter.cpp: SlotLease,           *)
(* orchfs_async_close, orchfs_async_adapter_shutdown).                     *)
(***************************************************************************)
HandlesSafe == TypeOK /\ Counted /\ HandleOpen /\ OneCloser /\ ShutDownClean

(***************************************************************************)
(* A relative path goes to libc only when OrchFS looked it up and missed   *)
(* (never, for rename), or when no session had ever been made: what the    *)
(* comment in should_fallback_relative_path (orchfs_wrapper.c) says.  The  *)
(* code breaks it when the control socket is missing: unavailable_error    *)
(* hands out the ENOENT of another thread's connect(2), and                *)
(* allow_host_fallback takes it for a lookup miss.                         *)
(***************************************************************************)
HostOnlyAfterMiss ==
  [][\A t \in Threads : thread'[t].pc = "host" /\ thread[t].pc # "host" =>
       IF ever THEN thread[t].asked /\ thread[t].err = "ENOENT" /\ thread[t].retry = "miss"
               ELSE ~thread[t].asked]_vars

(***************************************************************************)
(* Every call returns: no gate is left held, a close gets its turn when    *)
(* the calls under way have ended, and an exiting process gets through     *)
(* orchfs_async_adapter_shutdown.                                          *)
(***************************************************************************)
CallsReturn == \A t \in Threads : (thread[t].pc # "idle") ~> (thread[t].pc \in {"idle", "gone"})
============================================================================
