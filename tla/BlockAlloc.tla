----------------------------- MODULE BlockAlloc -----------------------------
(***************************************************************************)
(* The space allocator: the bitmap of one kind of block with its shard per *)
(* Runtime worker (KernelFS/balloc.c), and the reservations and releases   *)
(* the transactions make through LibFS/libspace.c and lib_log.c.  The six  *)
(* kinds (inode, index node, virtual node, buffer metadata, NVM page, SSD  *)
(* block) have a bitmap each and share the code; no step touches two.      *)
(*                                                                         *)
(* A step is one atomic operation on a byte or on the counter of used      *)
(* blocks.  What a commit writes and in which order is in Journal.         *)
(***************************************************************************)
EXTENDS Naturals, FiniteSets

CONSTANTS
  Shards,     \* shard_count, the workers being 0 .. Shards - 1
  Total,      \* bmp_capacity * 8
  MaxAsk,     \* bound on the blocks of one reservation
  MaxOps,     \* bound on the reservations and releases
  MaxMishaps  \* bound on failed allocations of memory, failed commits and restarts

Workers == 0..(Shards - 1)
Numbers == 0..(Total - 1)

VARIABLES
  bits,     \* the bitmap in memory: the blocks whose bit is set
  used,     \* bmp_used_num
  cursor,   \* shard_cursor, modulo the span of the shard
  durable,  \* the bitmap in PMEM
  live,     \* the blocks that committed metadata refers to
  worker,   \* what a worker does, and its transaction
  ops,      \* the reservations and releases so far
  mishaps

vars == <<bits, used, cursor, durable, live, worker, ops, mishaps>>

\* got: claimed and not yet recorded; allocs, frees: transaction->allocations and
\* deallocations; todo: blocks to give back.  kept: a block that nobody took since the
\* scan began.
Fresh ==
  [at |-> "idle", ask |-> 0, got |-> {}, start |-> 0, i |-> 0, kept |-> {},
   bound |-> TRUE, allocs |-> {}, frees |-> {}, error |-> FALSE, todo |-> {}, warned |-> FALSE]

Init ==
  /\ bits = {0} /\ used = 1 /\ durable = {0} /\ live = {0}
  /\ cursor = [s \in Workers |-> 0]
  /\ worker = [t \in Workers |-> Fresh]
  /\ ops = 0 /\ mishaps = 0

Begin(s) == (Total * s) \div Shards
End(s) == (Total * (s + 1)) \div Shards
Span(s) == End(s) - Begin(s)

Set(t, r) == worker' = [worker EXCEPT ![t] = r]

-----------------------------------------------------------------------------
(* do_alloc                                                                *)

\* reserve and reserve_many: one block or several.  A migration reserves its block before
\* it has a transaction.
reserve(t, n, bound) ==
  LET w == worker[t] IN
  /\ w.at = "idle"
  /\ ops < MaxOps /\ ops' = ops + 1
  /\ ~bound => n = 1 /\ w.allocs \cup w.frees = {} /\ ~w.error
  /\ w.bound
  /\ Set(t, [w EXCEPT !.at = "cursor", !.ask = n, !.bound = bound])
  /\ UNCHANGED <<bits, used, cursor, durable, live, mishaps>>

\* allocate_one takes the next place of its shard to start from ...
TakeCursor(t) ==
  LET w == worker[t] IN
  /\ w.at = "cursor"
  /\ cursor' = [cursor EXCEPT ![t] = IF Span(t) = 0 THEN 0 ELSE (@ + 1) % Span(t)]
  /\ Set(t, [w EXCEPT !.at = "scan", !.start = cursor[t], !.i = 0, !.kept = Numbers \ bits])
  /\ UNCHANGED <<bits, used, durable, live, ops, mishaps>>

\* Mistake: the scan of the other shards starts one place too far.
PlaceSkipping(s, start, i) ==
  IF i < Span(s) THEN Begin(s) + ((start + i) % Span(s))
  ELSE (End(s) + 1 + i - Span(s)) % Total

\* ... scans the shard and then the rest of the bitmap from the end of the shard on.
Place(s, start, i) ==
  IF i < Span(s) THEN Begin(s) + ((start + i) % Span(s))
  ELSE (End(s) + i - Span(s)) % Total

\* A claim by anyone ends what a scan may still count on.
Claimed(b) == [q \in Workers |-> [worker[q] EXCEPT !.kept = @ \ {b}]]

\* Mistake: the claim reads the byte and writes it back.
claim_bit_blind(t) ==
  LET w == worker[t]  b == Place(t, w.start, w.i) IN
  /\ w.at = "scan" /\ w.i < Total
  /\ bits' = bits \cup {b}
  /\ worker' = [Claimed(b) EXCEPT ![t].at = "count", ![t].got = @ \cup {b},
                                  ![t].start = 0, ![t].i = 0, ![t].kept = {}]
  /\ UNCHANGED <<used, cursor, durable, live, ops, mishaps>>

claim_bit(t) ==
  LET w == worker[t]  b == Place(t, w.start, w.i) IN
  /\ w.at = "scan" /\ w.i < Total
  /\ bits' = bits \cup {b}
  /\ worker' = IF b \in bits
               THEN [worker EXCEPT ![t].i = @ + 1]
               ELSE [Claimed(b) EXCEPT ![t].at = "count", ![t].got = @ \cup {b},
                                    ![t].start = 0, ![t].i = 0, ![t].kept = {}]
  /\ UNCHANGED <<used, cursor, durable, live, ops, mishaps>>

\* do_alloc goes on until it has all.
Complete(w) == Cardinality(w.got) = w.ask

CountUp(t) ==
  LET w == worker[t] IN
  /\ w.at = "count"
  /\ used' = used + 1
  /\ Set(t, [w EXCEPT !.at = IF Complete(w) THEN "record" ELSE "cursor"])
  /\ UNCHANGED <<bits, cursor, durable, live, ops, mishaps>>

Giving(S) == IF S = {} THEN "idle" ELSE "give"

\* Mistake: a reservation that cannot be completed keeps what it has.
UndoneNone(w) == [w EXCEPT !.at = "idle", !.got = {}, !.bound = TRUE,
                             !.start = 0, !.i = 0]

\* do_alloc gives back what it has claimed before it fails with ENOSPC.
Undone(w) == [w EXCEPT !.at = Giving(w.got), !.todo = w.got, !.got = {}, !.bound = TRUE,
                             !.start = 0, !.i = 0]

ENOSPC(t) ==
  LET w == worker[t] IN
  /\ w.at = "scan" /\ w.i = Total
  /\ Set(t, Undone(w))
  /\ UNCHANGED <<bits, used, cursor, durable, live, ops, mishaps>>

-----------------------------------------------------------------------------
(* The transaction.                                                        *)

\* orchfs_log_record_current_allocation; without a transaction the caller has the block.
Record(t) ==
  LET w == worker[t] IN
  /\ w.at = "record"
  /\ \E b \in w.got :
       \/ /\ Set(t, [w EXCEPT !.allocs = @ \cup {b}, !.got = @ \ {b},
                              !.at = IF w.got = {b} THEN "idle" ELSE "record"])
          /\ UNCHANGED mishaps
       \/ /\ w.bound
          /\ mishaps < MaxMishaps
          /\ mishaps' = mishaps + 1
          /\ Set(t, [w EXCEPT !.error = TRUE, !.todo = w.got, !.got = {}, !.at = "give"])
  /\ UNCHANGED <<bits, used, cursor, durable, live, ops>>

\* KfsCoroutineCore::migrate hands its block to a transaction, or releases it.
Attach(t) ==
  LET w == worker[t] IN
  /\ w.at = "idle" /\ ~w.bound
  /\ \/ /\ Set(t, [w EXCEPT !.bound = TRUE])
        /\ UNCHANGED mishaps
     \/ /\ mishaps < MaxMishaps
        /\ mishaps' = mishaps + 1
        /\ Set(t, [w EXCEPT !.bound = TRUE, !.todo = w.allocs, !.allocs = {}, !.at = "give"])
  /\ UNCHANGED <<bits, used, cursor, durable, live, ops>>

\* Mistake: a release inside a transaction takes effect at once.
DeferredNot(w, b) == [w EXCEPT !.todo = {b}, !.at = "give", !.allocs = @ \ {b}]

\* release and orchfs_log_defer_current_release: the block is given back after the commit.
DeferredRelease(w, b) == [w EXCEPT !.frees = @ \cup {b}]

\* The file's range permit keeps two transactions from releasing the same block.
release(t, b) ==
  LET w == worker[t] IN
  /\ w.at = "idle" /\ w.bound
  /\ ops < MaxOps /\ ops' = ops + 1
  /\ b \in live \cup (w.allocs \ w.frees)
  /\ \/ /\ live' = live \ {b}
        /\ Set(t, DeferredRelease(w, b))
        /\ UNCHANGED mishaps
     \/ /\ mishaps < MaxMishaps
        /\ mishaps' = mishaps + 1
        /\ Set(t, [w EXCEPT !.error = TRUE])
        /\ UNCHANGED live
  /\ UNCHANGED <<bits, used, cursor, durable>>

Ended(w, S) == [w EXCEPT !.allocs = {}, !.frees = {}, !.error = FALSE, !.todo = S, !.at = Giving(S)]

\* orchfs_bitmap_persist_change for every allocation and then for every deallocation.
\* Only one worker commits at a time (JournalService), so no byte is changed by two.
Persisted(w) == (durable \cup w.allocs) \ w.frees

\* orchfs_log_transaction_commit_group, and then free_deallocations.
Commit(t) ==
  LET w == worker[t] IN
  /\ w.at = "idle" /\ w.bound /\ ~w.error
  /\ w.allocs \cup w.frees # {}
  /\ durable' = Persisted(w)
  /\ live' = live \cup (w.allocs \ w.frees)
  /\ Set(t, Ended(w, w.frees))
  /\ UNCHANGED <<bits, used, cursor, ops, mishaps>>

\* orchfs_log_transaction_abort: free_allocations gives back; the releases are forgotten.
Abort(t) ==
  LET w == worker[t] IN
  /\ w.at = "idle" /\ w.bound
  /\ w.error \/ w.allocs \cup w.frees # {}
  /\ w.error \/ mishaps < MaxMishaps
  /\ mishaps' = IF w.error THEN mishaps ELSE mishaps + 1
  /\ live' = live \cup (w.frees \ w.allocs)
  /\ Set(t, Ended(w, w.allocs))
  /\ UNCHANGED <<bits, used, cursor, durable, ops>>

\* orchfs_kfs_dealloc_direct stops at the first block that was free.
AlreadyFree(w) == [w EXCEPT !.todo = {}, !.at = "idle", !.warned = TRUE]

do_dealloc(t) ==
  LET w == worker[t] IN
  /\ w.at = "give"
  /\ \E b \in w.todo :
       /\ bits' = bits \ {b}
       /\ Set(t, IF b \in bits
                 THEN [w EXCEPT !.todo = @ \ {b}, !.at = "discount"]
                 ELSE AlreadyFree(w))
  /\ UNCHANGED <<used, cursor, durable, live, ops, mishaps>>

CountDown(t) ==
  LET w == worker[t] IN
  /\ w.at = "discount"
  /\ used' = used - 1
  /\ Set(t, [w EXCEPT !.at = Giving(w.todo)])
  /\ UNCHANGED <<bits, cursor, durable, live, ops, mishaps>>

-----------------------------------------------------------------------------
(* Restarts.                                                               *)

Reset ==
  /\ cursor' = [s \in Workers |-> 0]
  /\ worker' = [t \in Workers |-> Fresh]
  /\ UNCHANGED <<live, ops>>

\* sync_all_mem_bmp writes the bitmaps and their counts when nothing runs any more, and
\* init_mem_bmp reads them.
sync_all_mem_bmp ==
  /\ mishaps < MaxMishaps
  /\ mishaps' = mishaps + 1
  /\ \A t \in Workers :
       worker[t].at = "idle" /\ worker[t].allocs \cup worker[t].frees = {} /\ ~worker[t].error
  /\ durable' = bits
  /\ UNCHANGED <<bits, used>>
  /\ Reset

\* Mistake: the counts are those of the superblock.
RecountedNot == used

\* orchfs_bitmap_recompute_counts
Recounted == Cardinality(durable)

\* The process dies.  init_mem_bmp reads the bitmap back and orchfs_log_recover replays
\* (orchfs_bitmap_replay_change) what is committed, and counts.
Crash ==
  /\ mishaps < MaxMishaps
  /\ mishaps' = mishaps + 1
  /\ bits' = durable
  /\ used' = Recounted
  /\ live' = durable
  /\ cursor' = [s \in Workers |-> 0]
  /\ worker' = [t \in Workers |-> Fresh]
  /\ UNCHANGED <<durable, ops>>

-----------------------------------------------------------------------------
Step(t) ==
  \/ TakeCursor(t) \/ claim_bit(t) \/ CountUp(t) \/ ENOSPC(t)
  \/ Record(t) \/ Attach(t) \/ Commit(t) \/ Abort(t) \/ do_dealloc(t) \/ CountDown(t)

Next ==
  \/ \E t \in Workers :
       \/ Step(t)
       \/ \E n \in 1..MaxAsk, bound \in BOOLEAN : reserve(t, n, bound)
       \/ \E b \in Numbers : release(t, b)
  \/ sync_all_mem_bmp \/ Crash

Spec == Init /\ [][Next]_vars

-----------------------------------------------------------------------------
Deferred(t) == worker[t].frees \ worker[t].allocs
Owns(t) == worker[t].got \cup worker[t].allocs \cup worker[t].todo \cup Deferred(t)
At(l) == Cardinality({t \in Workers : worker[t].at = l})

\* claim_bit, do_dealloc and the lists of the transaction: every set bit has one owner,
\* a committed block or the one worker that claimed it or will give it back; nothing is
\* given back twice, and what committed metadata refers to is never free.
OneOwner ==
  /\ \A t \in Workers : /\ Owns(t) \cap live = {}
                        /\ ~worker[t].warned
                        /\ \A q \in Workers \ {t} : Owns(t) \cap Owns(q) = {}
  /\ bits = live \cup UNION {Owns(t) : t \in Workers}

\* bmp_used_num lags behind the bitmap only by the operations under way, after a restart
\* too.
CountExact == used + At("count") = Cardinality(bits) + At("discount")

\* allocate_one: ENOSPC only when no block stayed free during the scan.
FullWhenNoSpace == \A t \in Workers : worker[t].at = "scan" /\ worker[t].i = Total => worker[t].kept = {}

\* The bitmap in PMEM marks just the blocks of committed metadata.
DurableCommitted == durable = live \cup UNION {Deferred(t) : t \in Workers}

SpaceSafe == OneOwner /\ CountExact /\ FullWhenNoSpace /\ DurableCommitted

=============================================================================
