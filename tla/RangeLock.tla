----------------------------- MODULE RangeLock -----------------------------
(***************************************************************************)
(* What the inode range arbiter promises its users: a lock on byte ranges, *)
(* shared by readers and exclusive for writers.  Several requests may be   *)
(* granted in one step, as when one release frees many of them.            *)
(***************************************************************************)
EXTENDS Naturals

CONSTANTS Procs, Requests

VARIABLES
    state,      \* "free", "wanted" or "held", for each user
    range       \* the byte range and mode of its last request

vars == <<state, range>>

Clash(r, s) ==
    /\ r.offset <= s.offset + s.length - 1
    /\ s.offset <= r.offset + r.length - 1
    /\ r.mode = "write" \/ s.mode = "write"

Exclusive(S, rng) ==
    \A p, q \in S : p # q => ~Clash(rng[p], rng[q])

Holders == {p \in Procs : state[p] = "held"}
Seekers == {p \in Procs : state[p] = "wanted"}
-----------------------------------------------------------------------------
Init ==
    /\ state = [p \in Procs |-> "free"]
    /\ range \in [Procs -> Requests]

Ask(p, r) ==
    /\ state[p] = "free"
    /\ range' = [range EXCEPT ![p] = r]
    /\ \/ state' = [state EXCEPT ![p] = "wanted"]
       \/ /\ Exclusive(Holders \cup {p}, range')
          /\ state' = [state EXCEPT ![p] = "held"]

Refuse(p) ==
    /\ state[p] = "wanted"
    /\ state' = [state EXCEPT ![p] = "free"]
    /\ UNCHANGED range

Grant(G) ==
    /\ G \subseteq Seekers
    /\ Exclusive(Holders \cup G, range)
    /\ state' = [p \in Procs |-> IF p \in G THEN "held" ELSE state[p]]
    /\ UNCHANGED range

Release(p, G) ==
    /\ state[p] = "held"
    /\ G \subseteq Seekers
    /\ Exclusive((Holders \ {p}) \cup G, range)
    /\ state' = [q \in Procs |-> IF q \in G THEN "held" ELSE
                                 IF q = p THEN "free" ELSE state[q]]
    /\ UNCHANGED range

Next ==
    \/ \E p \in Procs, r \in Requests : Ask(p, r)
    \/ \E p \in Procs : Refuse(p)
    \/ \E G \in SUBSET Procs : Grant(G)
    \/ \E p \in Procs, G \in SUBSET Procs : Release(p, G)

Spec == Init /\ [][Next]_vars
=============================================================================
