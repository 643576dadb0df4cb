---------------------------- MODULE AtomicStore ----------------------------
(***************************************************************************)
(* What the metadata journal promises: a store of metadata words and       *)
(* allocated blocks that changes by whole transactions only, and never     *)
(* because of a crash.  "ok" is answered only for a transaction that       *)
(* landed; one whose answer was lost may have landed or not.               *)
(***************************************************************************)
CONSTANTS Words, Blocks, Contents, Stores

VARIABLES
    home,       \* the words
    used,       \* the allocated blocks
    content,    \* the transaction being committed
    phase,      \* "idle", "pending" or "landed"
    answer      \* the last answer to a caller

vars == <<home, used, content, phase, answer>>

Changed(c, h) == [w \in Words |-> IF w \in c.words THEN c.image[w] ELSE h[w]]
-----------------------------------------------------------------------------
Init ==
    /\ home \in Stores
    /\ used \in SUBSET Blocks
    /\ content \in Contents
    /\ phase = "idle"
    /\ answer = "none"

Submit(c) ==
    /\ phase = "idle"
    /\ phase' = "pending"
    /\ content' = c
    /\ UNCHANGED <<home, used, answer>>

Land ==
    /\ phase = "pending"
    /\ phase' = "landed"
    /\ home' = Changed(content, home)
    /\ used' = (used \cup content.allocs) \ content.frees
    /\ UNCHANGED <<content, answer>>

Return ==
    /\ phase = "landed"
    /\ phase' = "idle"
    /\ answer' = "ok"
    /\ UNCHANGED <<home, used, content>>

\* A transaction that is refused leaves no trace; a crash takes the answer.
Fail(a) ==
    /\ a \in {"failed", "lost"}
    /\ a = "failed" => phase = "idle"
    /\ phase' = "idle"
    /\ answer' = a
    /\ UNCHANGED <<home, used, content>>

Next ==
    \/ \E c \in Contents : Submit(c)
    \/ Land
    \/ Return
    \/ \E a \in {"failed", "lost"} : Fail(a)

Spec == Init /\ [][Next]_vars
=============================================================================
