--------------------------- MODULE ServerHandles ---------------------------
(***************************************************************************)
(* The remote handles of one ServerSession (Async/server.cpp): the request *)
(* coroutines that open, use and close them, and the cleanup that closes   *)
(* what is left when the session ends.                                     *)
(*                                                                         *)
(* A request finds its handle, keeps the HandleState alive, and only then  *)
(* coordinates with the others through the handle's lifecycle gate (a      *)
(* RangeArbiter: readers share it, a close takes it alone), its            *)
(* active_writes counter and its offset gate.  Between any two co_await    *)
(* points other requests run, on this worker or on another one.            *)
(***************************************************************************)
EXTENDS Integers, Sequences, SequencesExt, FiniteSets

CONSTANTS Requests,   \* requests the session may accept
          Asked,      \* the operations that they ask for
          MaxHandle   \* bound: the handles that add_handle may give out

Handles == 1..MaxHandle
NoHandle == 0

(***************************************************************************)
(* What an operation coordinates on.  A write that finds O_APPEND set      *)
(* becomes an "append", positioned or not, and takes the offset gate.      *)
(***************************************************************************)
PathOps == {"open", "open_directory", "path"}   \* "path": stat, mkdir, rmdir, unlink, rename, truncate
LifeReaders == {"open_at", "open_directory_handle", "read", "read_at", "seek", "read_directory",
                "stat", "truncate", "sync", "set_flags"}
Writers == {"write", "write_at", "append"}
Closers == {"close", "close_directory"}
(* what a request may ask for *)
Ops == PathOps \cup LifeReaders \cup (Writers \ {"append"}) \cup Closers
AllOps == PathOps \cup LifeReaders \cup Writers \cup Closers

(* the type of a handle: a regular file, a directory, a directory stream *)
Kinds == {"file", "dir", "stream"}

(* the tests of a handler that depend on the type *)
Suits(o, k) ==
  CASE o \in {"read", "read_at", "write", "write_at", "seek", "truncate"} -> k = "file"
    [] o \in {"open_at", "open_directory_handle"} -> k # "file"
    [] o \in {"read_directory", "close_directory"} -> k = "stream"
    [] o = "close" -> k # "stream"
    [] OTHER -> TRUE

VARIABLES
  table,      \* the published handle map: the set of numbers in it
  issued,     \* numbers add_handle has given out (next_handle_)
  kind,       \* handle -> its type
  appends,    \* handle -> O_APPEND is set in HandleState::open_flags
  closing,    \* handle -> HandleState::closing
  writes,     \* handle -> HandleState::active_writes
  offset,     \* handle -> HandleState::offset
  life,       \* handle -> lifecycle_gate: its holders and waiters, in order
  cursor,     \* handle -> offset_gate, likewise
  opened,     \* handle -> times the file system opened it minus times it closed it
  op, target, \* request -> what it asks for, and of which handle
  pc,         \* request -> step
  start,      \* request -> the offset it started from
  gated,      \* requests that hold or await the offset gate
  stopping,   \* closing_ with a stop or a shutdown: nothing more is accepted
  cleanup,    \* step of cleanup_all_handles
  left        \* handles of its snapshot still to be closed

vars == <<table, issued, kind, appends, closing, writes, offset, life, cursor, opened,
          op, target, pc, start, gated, stopping, cleanup, left>>

handleVars == <<table, issued, kind, appends, closing, writes, offset, life, cursor, opened>>
requestVars == <<op, target, start, gated>>
mapVars == <<table, issued, kind, appends, opened>>
sessionVars == <<stopping, cleanup, left>>

(* a waiter of a gate is admitted when it is compatible with all ahead of it *)
SharesLife(q) == op[q] \in LifeReaders

Admitted(queue, q, shares(_)) ==
  \E i \in 1 .. Len(queue) :
    /\ queue[i] = q
    /\ \A j \in 1 .. i - 1 : shares(q) /\ shares(queue[j])

HoldsLife(h, q) == Admitted(life[h], q, SharesLife)
HoldsCursor(h, q) == Admitted(cursor[h], q, LAMBDA x : FALSE)

Join(gate, h, q) == [gate EXCEPT ![h] = Append(@, q)]
Leave(gate, h, q) == [gate EXCEPT ![h] = SelectSeq(@, LAMBDA x : x # q)]

Init ==
  /\ table = {} /\ issued = {}
  /\ kind = [h \in Handles |-> "file"] /\ appends = [h \in Handles |-> FALSE]
  /\ closing = [h \in Handles |-> FALSE] /\ writes = [h \in Handles |-> 0]
  /\ offset = [h \in Handles |-> 0] /\ opened = [h \in Handles |-> 0]
  /\ life = [h \in Handles |-> <<>>] /\ cursor = [h \in Handles |-> <<>>]
  /\ op = [q \in Requests |-> "path"] /\ target = [q \in Requests |-> NoHandle]
  /\ pc = [q \in Requests |-> "new"] /\ start = [q \in Requests |-> 0] /\ gated = {}
  /\ stopping = FALSE /\ cleanup = "no" /\ left = {}

Goto(q, step) == pc' = [pc EXCEPT ![q] = step]

----------------------------------------------------------------------------
(***************************************************************************)
(* submit_incoming and dispatch: the handle is looked up before the        *)
(* request moves to the worker that owns the inode, and the handler may    *)
(* refuse the request for its arguments.                                   *)
(***************************************************************************)
Found(h) == h \in table /\ ~closing[h]

Dispatch(q) ==
  /\ pc[q] = "new" /\ ~stopping
  /\ \E o \in Ops \cap Asked, h \in issued \cup {NoHandle} :
       /\ (o \in PathOps) = (h = NoHandle)
       /\ op' = [op EXCEPT ![q] = o] /\ target' = [target EXCEPT ![q] = h]
       /\ \/ Goto(q, "done")                              \* EBADF, EISDIR, EINVAL, ...
          \/ h = NoHandle /\ Goto(q, "fs")
          \/ /\ h # NoHandle /\ Found(h) /\ Suits(o, kind[h])
             /\ Goto(q, IF o \in Writers THEN "check"
                        ELSE IF o \in Closers THEN "mark" ELSE "life")
  /\ UNCHANGED <<handleVars, start, gated, sessionVars>>

(* HandleState::acquire_write: look, count, look again *)
CheckWrite(q) ==
  /\ pc[q] = "check"
  /\ Goto(q, IF closing[target[q]] THEN "done" ELSE "count")
  /\ UNCHANGED <<handleVars, requestVars, sessionVars>>

CountWrite(q) ==
  /\ pc[q] = "count" /\ Goto(q, "recheck")
  /\ writes' = [writes EXCEPT ![target[q]] = @ + 1]
  /\ UNCHANGED <<mapVars, closing, offset, life, cursor, requestVars, sessionVars>>

(* Mistake: the write is not looked at again once it is counted *)
RecheckWriteNever(q) ==
  /\ pc[q] = "recheck" /\ Goto(q, "flags")
  /\ UNCHANGED <<handleVars, requestVars, sessionVars>>

RecheckWrite(q) ==
  LET h == target[q] IN
  /\ pc[q] = "recheck"
  /\ \/ closing[h] /\ Goto(q, "done") /\ writes' = [writes EXCEPT ![h] = @ - 1]
     \/ ~closing[h] /\ Goto(q, "flags") /\ UNCHANGED writes
  /\ UNCHANGED <<mapVars, closing, offset, life, cursor, requestVars, sessionVars>>

(* on the worker of the inode, the write reads the flags once *)
ReadFlags(q) ==
  /\ pc[q] = "flags"
  /\ op' = IF appends[target[q]] THEN [op EXCEPT ![q] = "append"] ELSE op
  /\ Goto(q, IF op'[q] = "write_at" THEN "fs" ELSE "cursor")
  /\ UNCHANGED <<handleVars, target, start, gated, sessionVars>>

(* mark_closing: one close of a handle wins *)
MarkClosing(q) ==
  LET h == target[q] IN
  /\ pc[q] = "mark"
  /\ \/ (closing[h] \/ h \notin table) /\ Goto(q, "done") /\ UNCHANGED closing
     \/ ~closing[h] /\ h \in table /\ Goto(q, "life") /\ closing' = [closing EXCEPT ![h] = TRUE]
  /\ UNCHANGED <<mapVars, writes, offset, life, cursor, requestVars, sessionVars>>

(* the lifecycle gate: readers share it, a close waits for them *)
JoinLife(q) ==
  /\ pc[q] = "life" /\ Goto(q, "alive")
  /\ life' = Join(life, target[q], q)
  /\ UNCHANGED <<mapVars, closing, writes, offset, cursor, requestVars, sessionVars>>

PassLife(q) ==
  /\ pc[q] = "alive" /\ HoldsLife(target[q], q)
  /\ Goto(q, IF op[q] \in {"read", "seek", "read_directory"} THEN "cursor"
             ELSE IF op[q] \in Closers THEN "drain" ELSE "fs")
  /\ UNCHANGED <<handleVars, requestVars, sessionVars>>

(* Mistake: the close waits for every request that has found the handle *)
DrainWritesAndReads(q) ==
  /\ pc[q] = "drain" /\ Goto(q, "fs")
  /\ \A p \in Requests \ {q} : target[p] = target[q] => pc[p] \in {"new", "done"}
  /\ UNCHANGED <<handleVars, requestVars, sessionVars>>

(* do_close yields until no write is counted *)
DrainWrites(q) ==
  /\ pc[q] = "drain" /\ writes[target[q]] = 0 /\ Goto(q, "fs")
  /\ UNCHANGED <<handleVars, requestVars, sessionVars>>

(* the offset gate *)
JoinCursor(q) ==
  /\ pc[q] = "cursor" /\ Goto(q, "wait")
  /\ cursor' = Join(cursor, target[q], q) /\ gated' = gated \cup {q}
  /\ UNCHANGED <<mapVars, closing, writes, offset, life, op, target, start, sessionVars>>

(* Mistake: the offset is read without waiting for the gate *)
PassCursorUngated(q) ==
  /\ pc[q] = "wait"
  /\ start' = [start EXCEPT ![q] = offset[target[q]]] /\ Goto(q, "fs")
  /\ UNCHANGED <<handleVars, op, target, gated, sessionVars>>

PassCursor(q) ==
  /\ pc[q] = "wait" /\ HoldsCursor(target[q], q)
  /\ start' = [start EXCEPT ![q] = offset[target[q]]] /\ Goto(q, "fs")
  /\ UNCHANGED <<handleVars, op, target, gated, sessionVars>>

(***************************************************************************)
(* The call of the file system, and what each handler does with its        *)
(* result.  A call that fails leaves the handle as it was.                 *)
(***************************************************************************)
AddHandle(kinds) ==
  \/ \E h \in Handles \ issued, k \in kinds, a \in BOOLEAN :
       /\ 1..(h - 1) \subseteq issued                 \* next_handle_ counts up
       /\ issued' = issued \cup {h} /\ table' = table \cup {h}
       /\ kind' = [kind EXCEPT ![h] = k] /\ appends' = [appends EXCEPT ![h] = a /\ k = "file"]
       /\ opened' = [opened EXCEPT ![h] = @ + 1]
  \/ UNCHANGED mapVars

DoOpen(q) ==
  op[q] \in {"open", "open_at"} /\ AddHandle({"file", "dir"}) /\ UNCHANGED <<closing, offset>>

DoOpenDirectory(q) ==
  /\ op[q] \in {"open_directory", "open_directory_handle"} /\ AddHandle({"stream"})
  /\ UNCHANGED <<closing, offset>>

(* a failed close gives the handle back to its users *)
DoClose(q) ==
  LET h == target[q] IN
  /\ op[q] \in Closers
  /\ \/ /\ opened' = [opened EXCEPT ![h] = @ - 1] /\ table' = table \ {h}
        /\ UNCHANGED closing
     \/ closing' = [closing EXCEPT ![h] = FALSE] /\ UNCHANGED <<table, opened>>
  /\ UNCHANGED <<issued, kind, appends, offset>>

SetOffset(q, values) ==
  /\ \/ \E n \in values : offset' = [offset EXCEPT ![target[q]] = n]
     \/ UNCHANGED offset
  /\ UNCHANGED <<mapVars, closing>>

DoRead(q) ==
  op[q] \in {"read", "read_at"} /\ SetOffset(q, IF op[q] = "read" THEN {start[q] + 1} ELSE {})

(* an append answers with the end of the file *)
DoWrite(q) ==
  /\ op[q] \in Writers
  /\ SetOffset(q, CASE op[q] = "write" -> {start[q] + 1} [] op[q] = "append" -> {0, 1} [] OTHER -> {})

DoSeek(q) == op[q] = "seek" /\ SetOffset(q, {0, 1})

DoReadDirectory(q) == op[q] = "read_directory" /\ SetOffset(q, {start[q] + 1})

DoFlags(q) ==
  /\ op[q] = "set_flags"
  /\ \E a \in BOOLEAN : appends' = [appends EXCEPT ![target[q]] = a /\ kind[target[q]] = "file"]
  /\ UNCHANGED <<table, issued, kind, opened, closing, offset>>

(* calls that leave the session's state alone *)
DoOther(q) ==
  op[q] \in {"stat", "truncate", "sync", "path"} /\ UNCHANGED <<mapVars, closing, offset>>

FsCall(q) ==
  /\ pc[q] = "fs" /\ Goto(q, "leave")
  /\ \/ DoOpen(q) \/ DoOpenDirectory(q) \/ DoClose(q) \/ DoRead(q) \/ DoWrite(q) \/ DoSeek(q)
     \/ DoReadDirectory(q) \/ DoFlags(q) \/ DoOther(q)
  /\ UNCHANGED <<writes, life, cursor, requestVars, sessionVars>>

(* the permits are released in the opposite order, a write is uncounted last *)
LeaveCursor(q) ==
  /\ pc[q] = "leave" /\ q \in gated
  /\ cursor' = Leave(cursor, target[q], q) /\ gated' = gated \ {q}
  /\ UNCHANGED <<mapVars, closing, writes, offset, life, op, target, pc, start, sessionVars>>

LeaveHandle(q) ==
  LET h == target[q] IN
  /\ pc[q] = "leave" /\ q \notin gated /\ Goto(q, "done")
  /\ life' = IF op[q] \in LifeReaders \cup Closers THEN Leave(life, h, q) ELSE life
  /\ writes' = IF op[q] \in Writers THEN [writes EXCEPT ![h] = @ - 1] ELSE writes
  /\ UNCHANGED <<mapVars, closing, offset, cursor, requestVars, sessionVars>>

----------------------------------------------------------------------------
(* A stop, a shutdown request or the client's death ends the session; when
   nothing is in flight any more the handles left are closed. *)
StopSession ==
  /\ ~stopping /\ stopping' = TRUE
  /\ UNCHANGED <<handleVars, pc, requestVars, cleanup, left>>

Drained == stopping /\ \A q \in Requests : pc[q] \in {"new", "done"}

CleanupStart ==
  /\ Drained /\ cleanup = "no"
  /\ cleanup' = "running" /\ left' = table
  /\ UNCHANGED <<handleVars, pc, requestVars, stopping>>

(* the handle is erased whether or not the file system closed it *)
CleanupOne ==
  /\ cleanup = "running"
  /\ \E h \in left :
       /\ life[h] = <<>>
       /\ closing' = [closing EXCEPT ![h] = TRUE]
       /\ table' = table \ {h} /\ left' = left \ {h}
       /\ \/ opened' = [opened EXCEPT ![h] = @ - 1]
          \/ UNCHANGED opened
  /\ UNCHANGED <<issued, kind, appends, writes, offset, life, cursor, pc, requestVars,
                 stopping, cleanup>>

CleanupDone ==
  /\ cleanup = "running" /\ left = {} /\ cleanup' = "done"
  /\ UNCHANGED <<handleVars, pc, requestVars, stopping, left>>

Step(q) ==
  \/ CheckWrite(q) \/ CountWrite(q) \/ RecheckWrite(q) \/ ReadFlags(q) \/ MarkClosing(q)
  \/ JoinLife(q) \/ PassLife(q) \/ DrainWrites(q) \/ JoinCursor(q) \/ PassCursor(q)
  \/ FsCall(q) \/ LeaveCursor(q) \/ LeaveHandle(q)

Cleanup == CleanupStart \/ CleanupOne \/ CleanupDone

(* the session is then retired *)
Retired == cleanup = "done" /\ UNCHANGED vars

Next == \/ \E q \in Requests : Dispatch(q) \/ Step(q)
        \/ StopSession \/ Cleanup \/ Retired

Spec == Init /\ [][Next]_vars

(* the runtime resumes every scheduled coroutine *)
LiveSpec == Spec /\ (\A q \in Requests : WF_vars(Step(q))) /\ WF_vars(Cleanup)

----------------------------------------------------------------------------
(* Properties *)

(* The session's state has the shape the code gives it. *)
TypeOK ==
  /\ table \subseteq issued /\ issued \subseteq Handles
  /\ kind \in [Handles -> Kinds] /\ appends \in [Handles -> BOOLEAN]
  /\ closing \in [Handles -> BOOLEAN] /\ writes \in [Handles -> Nat]
  /\ offset \in [Handles -> Nat] /\ opened \in [Handles -> {0, 1}]
  /\ life \in [Handles -> Seq(Requests)] /\ cursor \in [Handles -> Seq(Requests)]
  /\ op \in [Requests -> AllOps] /\ target \in [Requests -> Handles \cup {NoHandle}]
  /\ pc \in [Requests -> {"new", "check", "count", "recheck", "flags", "mark", "life", "alive",
                          "drain", "cursor", "wait", "fs", "leave", "done"}]
  /\ gated \subseteq Requests /\ start \in [Requests -> Nat] /\ stopping \in BOOLEAN
  /\ cleanup \in {"no", "running", "done"} /\ left \subseteq Handles

(* A write that has been admitted works on a file that its handle still holds
   open: close waits for it, or the write sees the close and gives up. *)
WritesOpen == \A q \in Requests :
  pc[q] = "fs" /\ op[q] \in Writers => opened[target[q]] = 1

(* While an operation that uses the handle's offset is in the file system,
   the offset is the one it started from: none of them is lost. *)
OffsetKept == \A q \in Requests :
  pc[q] = "fs" /\ q \in gated => start[q] = offset[target[q]]

(* Only one close of a handle gets through: no file is closed twice and none
   is closed while a close of it is under way. *)
OneCloser == \A p, q \in Requests :
  /\ p # q /\ op[p] \in Closers /\ op[q] \in Closers /\ target[p] = target[q]
  /\ pc[p] \in {"life", "alive", "drain", "fs"}
  => pc[q] \notin {"life", "alive", "drain", "fs"}

(* A finished cleanup leaves no handle, no counted write and no permit. *)
NothingLeft == cleanup = "done" =>
  /\ table = {}
  /\ \A h \in Handles : writes[h] = 0 /\ life[h] = <<>> /\ cursor[h] = <<>>

(* A stopped session that is cleaned up. *)
CleanedUp == stopping => (cleanup = "done" /\ NothingLeft)

(* A write works on a file that its handle holds open, and a handle has one
   closer at a time, whatever else the session does. *)
OpenWhileUsed == TypeOK /\ WritesOpen /\ OneCloser

(* Every request ends, a close of a handle with writes under way included (it
   never waits for good on the writes it drains), and a session that stops is
   cleaned up and leaves nothing behind. *)
SessionEnds == <>[]((\A q \in Requests : pc[q] \in {"new", "done"}) /\ CleanedUp)
============================================================================
