---------------------------- MODULE MCSpdkDevice ----------------------------
(***************************************************************************)
(* Loads of a device with two queue pairs and LBAs of three bytes.         *)
(***************************************************************************)
EXTENDS SpdkDevice, TLC

CONSTANTS w1, w2, f, rd, p0, p1

AllKinds == (w1 :> "write") @@ (w2 :> "write") @@ (f :> "flush") @@ (rd :> "read")
AllPollers == (w1 :> p0) @@ (w2 :> p1) @@ (f :> p0) @@ (rd :> p0)

Load(pollers, requests, stop, kinds) ==
  [pollers |-> pollers, requests |-> requests, stop |-> stop, faults |-> kinds,
   offset |-> (w1 :> 0) @@ (w2 :> 1) @@ (f :> 0) @@ (rd :> 1),
   length |-> (w1 :> 1) @@ (w2 :> 1) @@ (f :> 0) @@ (rd :> 3)]

(* one request with any range *)
Alone(r, offset, length) ==
  [Load({p0}, {r}, FALSE, {}) EXCEPT !.offset[r] = offset, !.length[r] = length]

AnyRange == {Alone(r, o, l) : r \in {w1, rd}, o \in 0..Top, l \in 0..Top}

AllFaults == {"init", "admin", "qpair", "status", "submit", "detach"}

(* a write and a flush on different pollers; two writes that share the first
   LBA and no byte, on different pollers, and a stop; a write and a read that
   share a bounce buffer, and every fault *)
MCLoads == AnyRange \cup {Load({p0, p1}, {w2, f}, FALSE, {}),
                         Load({p0, p1}, {w1, w2}, TRUE, {}),
                         Load({p0}, {w1, rd}, TRUE, AllFaults)}
============================================================================
