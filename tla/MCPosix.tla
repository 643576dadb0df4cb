------------------------------ MODULE MCPosix ------------------------------
(***************************************************************************)
(* Two threads, one of which ends the process, two descriptors, a session  *)
(* that may die once, and five loads of calls.                             *)
(***************************************************************************)
EXTENDS Posix

MCFds == 1..2
Both(ops) == [t \in Threads |-> ops]
Times(n, m) == [t \in Threads |-> IF t = Exiting THEN n ELSE m]

(* paths: which namespace, with reconnects *)
Routing == [ops |-> Both({UNLINK, RENAME, LINK, STATFS}), calls |-> Times(1, 2), open |-> "nothing"]
(* one descriptor, used and closed by both threads *)
Sharing == [ops |-> Both({READ, FSYNC, FCNTL, CLOSE}), calls |-> Times(1, 2), open |-> "file"]
(* openat under that descriptor *)
Resolving == [ops |-> [t \in Threads |-> IF t = Exiting THEN {CLOSE} ELSE {OPENAT}],
              calls |-> Times(1, 2), open |-> "file"]
(* one stream, read and closed by both threads *)
Listing == [ops |-> Both({READDIR, CLOSEDIR}), calls |-> Times(2, 2), open |-> "stream"]
(* a descriptor table that fills up *)
Filling == [ops |-> [t \in Threads |-> IF t = Exiting THEN {OPEN} ELSE {FOPEN, OPENDIR}],
            calls |-> Times(1, 1), open |-> "file"]

MCLoads == {Routing, Sharing, Resolving, Listing, Filling}
============================================================================
