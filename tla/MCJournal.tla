----------------------------- MODULE MCJournal -----------------------------
(***************************************************************************)
(* The journal, the space allocator whose bitmaps it makes durable and the *)
(* file index whose changes it carries, each on an instance of its own:    *)
(* two transactions on two words and a block; two workers that reserve and *)
(* release blocks of a bitmap of three (shards of one and two); and a file *)
(* of up to eight blocks with two pages each, under an index of three      *)
(* layers, with plenty of space or little.  A behaviour is one of one of   *)
(* them; the others stay in their initial states.                          *)
(***************************************************************************)
EXTENDS Journal, TLC

CONSTANTS t1, t2, w1, w2, f1, b1, Shards, Total, MaxAsk, MaxOps, MaxMishaps,
          Layers, Width, PagesPer, Lengths, Backs, MaxTx

VARIABLES part, bits, count, cursor, stored, live, worker, ops, mishaps,
          tree, pmem, noted, pool, taken, freed, root, size, doing, phase, torn, committed, changes

A == INSTANCE BlockAlloc WITH used <- count, durable <- stored

Supply(n, v, p, m, b) == [node |-> n, vir |-> v, page |-> p, meta |-> m, ssd |-> b]
MCSupplies == {Supply(12, 6, 10, 6, 8), Supply(5, 3, 6, 2, 4)}

X == INSTANCE FileIndex WITH mem <- tree, disk <- pmem, log <- noted, ops <- changes,
                             MaxOps <- MaxTx, Slots <- PagesPer, Supplies <- MCSupplies

avars == <<bits, count, cursor, stored, live, worker, ops, mishaps>>

xvars == <<tree, pmem, noted, pool, taken, freed, root, size, doing, phase, torn, committed, changes>>

\* an unused index is that of no file, on a device with little space
Unused == phase = "gone" /\ 12 \notin pool["node"]
MCInit == /\ part \in {"journal", "space", "index"} /\ Init /\ A!Init /\ X!Init
          /\ part # "index" => Unused

JournalStep == part = "journal" /\ Next /\ UNCHANGED <<part, avars, xvars>>
SpaceStep == part = "space" /\ A!Next /\ UNCHANGED <<part, vars, xvars>>
IndexStep == part = "index" /\ X!Next /\ UNCHANGED <<part, vars, avars>>

\* The operations on the bitmap and on the file are bounded.
Stopped == part \in {"space", "index"} /\ UNCHANGED <<part, vars, avars, xvars>>

MCSpec == MCInit /\ [][JournalStep \/ SpaceStep \/ IndexStep \/ Stopped]_<<part, vars, avars, xvars>>

MCSymmetry == Permutations({t1, t2}) \cup Permutations({w1, w2})

\* Every set bit of a bitmap has one owner, a committed block or a worker that claimed it
\* (claim_bit) or will give it back (do_dealloc); bmp_used_num is exact, also after a
\* crash; ENOSPC means that no block stayed free during the scan (allocate_one); and the
\* bitmap in PMEM marks just what committed metadata refers to.  The file index does
\* its part: between transactions the cached tree and the one in PMEM map every block of
\* the file alike, contiguously and up to its size, and refer to each allocated node, page
\* and block once, after any writes, truncations, migrations and aborts (index.c).
SpaceSafe == A!SpaceSafe /\ (part = "index" => X!TreeRight)
=============================================================================
