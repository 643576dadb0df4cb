----------------------------- MODULE MCRuntime -----------------------------
(***************************************************************************)
(* Small programs for the Runtime, chosen in the initial state.            *)
(***************************************************************************)
EXTENDS Runtime

CONSTANTS c1, c2, nobody

Program(w, r, b, f, m) ==
  [workers |-> w, roots |-> r, blocking |-> b, foreign |-> f, moves |-> m]

(* a root that moves, suspends and pins; a blocking root; and one
   worker with a root and an outside completion *)
Programs == {Program({0, 1}, {c1}, {}, {}, 2), Program({0, 1}, {}, {c1}, {}, 0),
             Program({0}, {c1}, {}, {c2}, 1)}
============================================================================
