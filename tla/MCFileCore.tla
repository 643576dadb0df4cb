----------------------------- MODULE MCFileCore -----------------------------
(***************************************************************************)
(* Instances of FileCore: blocks of two pages of two units, so that a      *)
(* request can cover part of a page, a page, a block or parts of two.      *)
(***************************************************************************)
EXTENDS FileCore, TLC

W(o, n) == [kind |-> "write", off |-> o, len |-> n]
A(n) == [kind |-> "append", off |-> 0, len |-> n]
R(o, n) == [kind |-> "read", off |-> o, len |-> n]
T(n) == [kind |-> "truncate", off |-> 0, len |-> n]
O(k) == [kind |-> k, off |-> 0, len |-> 0]

\* Writes and reads of every shape while full blocks migrate; both blocks in one leaf
Data == [clients |-> 2, flush |-> FALSE, migration |-> TRUE, leaf |-> 2, ops |-> 4,
         dfaults |-> 0, cfaults |-> 0, crashes |-> 0,
         requests |-> {W(0, 2), W(2, 2), W(0, 4), W(1, 1), W(4, 3), W(3, 5), R(0, 3), R(4, 4)}]

\* The two caches: appends and truncations change the size, migrations the mapping
Caching == [Data EXCEPT !.ops = 5, !.requests =
              {W(0, 2), W(2, 2), W(4, 3), W(1, 1), A(1), T(2), R(0, 2), R(4, 1), O("fstat")}]

\* A device that needs a flush, and a crash; the blocks are on either side of the
\* boundary of two leaves
Crashing == [Data EXCEPT !.flush = TRUE, !.migration = FALSE, !.leaf = 1, !.crashes = 1,
               !.requests = {W(0, 2), W(0, 4), W(1, 1), W(2, 4), A(2), T(1), T(6)}]

\* One client whose device and journal fail, with the migration, or alone in one leaf
Failing == [Data EXCEPT !.clients = 1, !.leaf = 1, !.dfaults = 1, !.cfaults = 1, !.crashes = 1,
              !.requests = {W(0, 4), W(1, 1), W(2, 4), T(1)}]
Alone == [Failing EXCEPT !.migration = FALSE, !.leaf = 2]

\* Opens with O_TRUNC and stat by path
Opening == [Data EXCEPT !.ops = 5, !.requests =
              {W(0, 2), W(2, 2), W(1, 1), W(3, 5), O("stat"), O("open_trunc")}]

MCScenes == {Data, Caching, Crashing, Failing, Alone, Opening}

Symmetry == Permutations(Tasks)
=============================================================================
