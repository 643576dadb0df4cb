----------------------------- MODULE ClientFile -----------------------------
(***************************************************************************)
(* The operations of a client's File and Directory (Async/client.cpp).  A  *)
(* transfer that is longer than a payload slot travels as a sequence of    *)
(* requests, one after the other; those that use the file's own offset     *)
(* hold the File's offset_gate_ from the first to the last.  Several tasks *)
(* of a program share the File.  The server answers one request in one     *)
(* step (ServerHandles has its inside).                                    *)
(***************************************************************************)
EXTENDS Integers, FiniteSets

CONSTANTS Tasks,
          Scenes,     \* what the tasks may ask for: functions from Tasks to records op, at,
                      \* length (a transfer has bytes)
          MaxChunk,   \* payload bytes of a request
          MaxSize,    \* bound: a write beyond it finds no space
          MaxPos,     \* the largest file offset
          MaxFaults   \* bound: requests that fail

NONE == "none"
ERROR == -1
UNKNOWN == -2
Transfers == {"read", "write", "read_at", "write_at"}
Implicit == {"read", "write", "seek"}     \* those that hold the offset gate

VARIABLES
  size, offset, append,   \* at the server: the file, the handle's offset and O_APPEND
  listed,                 \* the directory handle's cursor
  up,                     \* the session is there
  gate,                   \* the task inside offset_gate_
  pc, job,                \* task -> "new", "wait", "loop" or "done"; what it does
  base,                   \* task -> where its transfer began
  completed, moved,       \* task -> bytes transferred; the bytes' places in the file
  result,                 \* task -> what it was told
  faults

vars == <<size, offset, append, listed, up, gate, pc, job, base, completed, moved, result, faults>>
server == <<size, offset, append, listed>>

Minimum(a, b) == IF a < b THEN a ELSE b

Init ==
  /\ size \in {0, MaxChunk + 1} /\ offset = 0 /\ append \in BOOLEAN /\ listed = 0 /\ up = TRUE
  /\ gate = NONE /\ pc = [t \in Tasks |-> "new"] /\ job \in Scenes
  /\ base = [t \in Tasks |-> 0] /\ completed = [t \in Tasks |-> 0]
  /\ moved = [t \in Tasks |-> {}] /\ result = [t \in Tasks |-> UNKNOWN] /\ faults = 0

----------------------------------------------------------------------------
Answer(t, r) ==
  /\ pc' = [pc EXCEPT ![t] = "done"] /\ result' = [result EXCEPT ![t] = r]
  /\ gate' = IF gate = t THEN NONE ELSE gate

\* Mistake: seek does not go through the offset gate.
GatedTransfers(o) == o \in {"read", "write"}

Gated(o) == o \in Implicit

(* positioned_range_error: the range ends below the largest offset *)
positioned_range_error(j) == j.op \in {"read_at", "write_at"} /\ j.at + j.length > MaxPos

(* the range of a positioned transfer is looked at before anything is sent *)
Begin(t) ==
  /\ pc[t] = "new"
  /\ IF positioned_range_error(job[t]) THEN Answer(t, ERROR)
     ELSE /\ pc' = [pc EXCEPT ![t] = IF Gated(job[t].op) THEN "wait" ELSE "loop"]
          /\ UNCHANGED <<gate, result>>
  /\ base' = [base EXCEPT ![t] = job[t].at]
  /\ UNCHANGED <<server, up, job, completed, moved, faults>>

Enter(t) ==
  /\ pc[t] = "wait" /\ gate = NONE /\ gate' = t /\ pc' = [pc EXCEPT ![t] = "loop"]
  /\ base' = [base EXCEPT ![t] = offset]
  /\ UNCHANGED <<server, up, job, completed, moved, result, faults>>

(***************************************************************************)
(* One turn of a transfer's loop: n bytes at place p were transferred.  A  *)
(* short answer ends the loop; so does the last byte.                      *)
(***************************************************************************)
Chunk(t) == Minimum(MaxChunk, job[t].length - completed[t])

(* the places of n bytes from p on *)
Span(p, n) == p..(p + n - 1)

Advance(t, p, n) ==
  /\ completed' = [completed EXCEPT ![t] = @ + n]
  /\ moved' = [moved EXCEPT ![t] = @ \cup Span(p, n)]
  /\ IF n # Chunk(t) \/ completed[t] + n = job[t].length
     THEN Answer(t, completed[t] + n)
     ELSE UNCHANGED <<pc, result, gate>>
  /\ UNCHANGED <<up, job, base, faults, append, listed>>

Running(t, o) == up /\ pc[t] = "loop" /\ job[t].op = o

Readable(p, n) == IF p >= size THEN 0 ELSE Minimum(n, size - p)

read_unlocked(t) ==
  LET n == Readable(offset, Chunk(t)) IN
  /\ Running(t, "read") /\ Advance(t, offset, n) /\ offset' = offset + n /\ UNCHANGED size

read_at(t) ==
  LET p == job[t].at + completed[t]
      n == Readable(p, Chunk(t)) IN
  /\ Running(t, "read_at") /\ Advance(t, p, n) /\ UNCHANGED <<offset, size>>

(* with O_APPEND the server writes at the end, whatever the request says *)
Place(p) == IF append THEN size ELSE p
Larger(a, b) == IF a > b THEN a ELSE b

(* do_write at the server moves the handle's offset to the end of what it wrote when *)
(* the request names no place, and with O_APPEND also when it does                   *)
OffsetAfter(implicit, end) == IF implicit \/ append THEN end ELSE offset

write_unlocked(t) ==
  LET p == Place(offset) IN
  /\ Running(t, "write") /\ p + Chunk(t) <= MaxSize
  /\ Advance(t, p, Chunk(t)) /\ size' = Larger(size, p + Chunk(t))
  /\ offset' = OffsetAfter(TRUE, p + Chunk(t))

(* not through the File's offset gate *)
write_at(t) ==
  LET p == Place(job[t].at + completed[t]) IN
  /\ Running(t, "write_at") /\ p + Chunk(t) <= MaxSize
  /\ Advance(t, p, Chunk(t)) /\ size' = Larger(size, p + Chunk(t))
  /\ offset' = OffsetAfter(FALSE, p + Chunk(t))

(* no room at the server for a chunk *)
NoRoom(t) ==
  /\ up /\ pc[t] = "loop"
  /\ \/ job[t].op = "write" /\ Place(offset) + Chunk(t) > MaxSize
     \/ job[t].op = "write_at" /\ Place(job[t].at + completed[t]) + Chunk(t) > MaxSize
  /\ Answer(t, ERROR) /\ UNCHANGED <<server, up, job, base, completed, moved, faults>>

(* status_error: the server refuses a request, and the call fails as a whole *)
Refused(t) ==
  /\ up /\ pc[t] = "loop" /\ faults < MaxFaults /\ faults' = faults + 1
  /\ Answer(t, ERROR) /\ UNCHANGED <<server, up, job, base, completed, moved>>

----------------------------------------------------------------------------
Kept(t) == UNCHANGED <<up, job, base, completed, moved, faults>>

(* SEEK_SET and SEEK_END *)
seek_unlocked(t) ==
  /\ Running(t, "seek") /\ \E p \in {job[t].at, size} : offset' = p /\ Answer(t, p)
  /\ Kept(t) /\ UNCHANGED <<size, append, listed>>

stat(t) == Running(t, "stat") /\ Answer(t, size) /\ Kept(t) /\ UNCHANGED server

truncate(t) ==
  /\ Running(t, "truncate") /\ size' = job[t].at /\ Answer(t, 0)
  /\ Kept(t) /\ UNCHANGED <<offset, append, listed>>

set_flags(t) ==
  /\ Running(t, "set_flags") /\ append' = ~append /\ Answer(t, 0)
  /\ Kept(t) /\ UNCHANGED <<size, offset, listed>>

(* Directory::next_batch: as many entries as fit a payload, of job.at of them *)
next_batch(t) ==
  LET n == Minimum(Minimum(job[t].length, MaxChunk), job[t].at - listed) IN
  /\ Running(t, "next_batch") /\ listed' = listed + n /\ Answer(t, n)
  /\ Kept(t) /\ UNCHANGED <<size, offset, append>>

(* the session ends: what is under way fails, also after the server did its part *)
Lost ==
  /\ up /\ faults < MaxFaults /\ faults' = faults + 1 /\ up' = FALSE
  /\ UNCHANGED <<server, gate, pc, job, base, completed, moved, result>>

Failed(t) ==
  /\ ~up /\ pc[t] = "loop" /\ Answer(t, ERROR)
  /\ UNCHANGED <<server, up, job, base, completed, moved, faults>>

Step(t) ==
  \/ Begin(t) \/ Enter(t) \/ read_unlocked(t) \/ read_at(t) \/ write_unlocked(t) \/ write_at(t)
  \/ NoRoom(t) \/ Refused(t) \/ seek_unlocked(t) \/ stat(t) \/ truncate(t) \/ set_flags(t)
  \/ next_batch(t) \/ Failed(t)

Next == Lost \/ \E t \in Tasks : Step(t)

----------------------------------------------------------------------------
MayAppend == append \/ \E u \in Tasks : job[u].op = "set_flags"

\* O_APPEND neither says where the bytes of t go nor moves the offset under t: only a
\* positioned write does that, past the offset gate
Located(t) ==
  MayAppend => /\ job[t].op \notin {"write", "write_at"}
               /\ Gated(job[t].op) => \A u \in Tasks : job[u].op # "write_at"

Writes(t) == job[t].op \in {"write", "write_at"}
EndMoves(t) == job[t].op \in {"truncate", "set_flags"}

\* A transfer with the file's own offset is one piece, however many requests carry it
\* and whatever the program's other tasks do with the File, unless they write at given
\* places with O_APPEND: nobody else moves the offset meanwhile (offset_gate_), it has
\* moved by exactly the bytes transferred so far, and their places follow each other.  A
\* positioned transfer has its bytes at the places it named.  With O_APPEND no byte is
\* written over another, whoever wrote it.  The count a call returns is the number of
\* bytes transferred.
TransfersWhole ==
  \A t \in Tasks :
    /\ gate = t /\ Located(t) => offset = base[t] + completed[t]
    /\ job[t].op \in Transfers /\ Located(t) => moved[t] = Span(base[t], completed[t])
    /\ job[t].op \in Transfers /\ result[t] >= 0 => result[t] = completed[t]
    /\ append /\ Writes(t) /\ (\A u \in Tasks : ~EndMoves(u)) =>
         /\ Cardinality(moved[t]) = completed[t]
         /\ \A u \in Tasks \ {t} : Writes(u) => moved[t] \cap moved[u] = {}
=============================================================================
