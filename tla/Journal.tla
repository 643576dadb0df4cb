------------------------------ MODULE Journal ------------------------------
(***************************************************************************)
(* The metadata journal of LibFS/lib_log.c: transactions collect images of *)
(* changed words and allocation changes, a commit writes one redo frame at *)
(* the start of the journal, applies it to its home locations, advances a  *)
(* two-slot checkpoint and clears the journal; recovery replays a complete *)
(* frame.  A power failure keeps of the stores since the last fence any    *)
(* part, cache line by cache line, possibly torn.                          *)
(*                                                                         *)
(* A word is a range of metadata that is logged as one image (a flag word  *)
(* of an index leaf, an inode); its fields are the parts that different    *)
(* operations change.  The checksums of a frame tie its lines together:    *)
(* each frame that is built gets a number, and a line of the log holds the *)
(* number of the frame it was written for.                                 *)
(***************************************************************************)
EXTENDS Naturals, FiniteSets

CONSTANTS
    Txs,            \* transactions that can be open together
    Words,          \* metadata words
    Fields,         \* the fields of a word
    Values,         \* the values of a field
    Blocks,         \* blocks of the allocation bitmaps
    MaxFrames,      \* bound: frames ever built
    MaxGeneration,  \* bound: checkpoints written before the last crash
    MaxLine         \* the last line of the journal area

ASSUME JournalAssumption ==
    /\ IsFiniteSet(Words)
    /\ IsFiniteSet(Blocks)
    /\ MaxFrames \in Nat
    /\ MaxGeneration \in Nat
    /\ MaxLine \in Nat

VARIABLES
    log, home, used, ckpt,      \* persistent memory as loads see it
    dlog, dhome, dused, dckpt,  \* what of it a power failure leaves
    frames,     \* what was built: the content and txid of each frame
    built,      \* number of frames built
    mem,        \* the cached metadata words
    busy,       \* the allocation bitmap in memory
    tx,         \* "none", "open", "ready" or "committing"
    cells,      \* the fields each transaction has changed
    recs,       \* the content of each transaction
    stage,      \* where the journal is
    cur,        \* the frame it works on, 0 for none
    nextTxid, durable, generation,
    answer      \* the last answer of a commit

nvm == <<log, home, used, ckpt>>
settled == <<dlog, dhome, dused, dckpt>>
built_ == <<frames, built>>
volatile == <<mem, busy, tx, cells, recs>>
journal == <<stage, cur, nextTxid, durable, generation>>
vars == <<log, home, used, ckpt, dlog, dhome, dused, dckpt, frames, built,
          mem, busy, tx, cells, recs, stage, cur, nextTxid, durable,
          generation, answer>>

Images == [Words -> [Fields -> Values]]
Contents == [words : SUBSET Words, image : Images,
             allocs : SUBSET Blocks, frees : SUBSET Blocks]
Lines == 0 .. MaxLine
Slots == {0, 1}
-----------------------------------------------------------------------------
Live(t) == tx[t] # "none"
Empty(c) == c.words = {} /\ c.allocs = {} /\ c.frees = {}

\* A frame: its header in line 0, a line for each record, the commit record.
CommitLine(c) ==
    1 + Cardinality(c.words) + Cardinality(c.allocs) + Cardinality(c.frees)

Valid(l) ==
    /\ l[0] # 0
    /\ \A i \in 0 .. CommitLine(frames[l[0]].content) : l[i] = l[0]

ApplyWords(c, h) ==
    [w \in Words |-> IF w \in c.words THEN c.image[w] ELSE h[w]]
ApplyBlocks(c, u) == (u \cup c.allocs) \ c.frees

\* latest_checkpoint: a slot with a broken checksum has generation 0.
Latest(k) == IF k[1].gen = 0 \/ (k[0].gen # 0 /\ k[0].gen >= k[1].gen)
             THEN k[0] ELSE k[1]
NoCheckpoint == [gen |-> 0, txid |-> 0]

\* _mm_sfence on the worker that issued the stores.
Fence ==
    /\ dlog' = log
    /\ dhome' = home
    /\ dused' = used
    /\ dckpt' = ckpt
-----------------------------------------------------------------------------
Zero == [w \in Words |-> [f \in Fields |-> CHOOSE v \in Values : TRUE]]
NoContent == [words |-> {}, image |-> Zero, allocs |-> {}, frees |-> {}]

\* A formatted device, before the first recovery.
Init ==
    /\ log = [i \in Lines |-> 0] /\ dlog = log
    /\ home = Zero /\ dhome = Zero /\ mem = Zero
    /\ used = {} /\ dused = {} /\ busy = {}
    /\ ckpt = [s \in Slots |-> IF s = 0 THEN [gen |-> 1, txid |-> 0]
                                       ELSE NoCheckpoint]
    /\ dckpt = ckpt
    /\ frames = [n \in 1 .. MaxFrames |-> [txid |-> 0, content |-> NoContent]]
    /\ built = 0
    /\ tx = [t \in Txs |-> "none"]
    /\ cells = [t \in Txs |-> {}]
    /\ recs = [t \in Txs |-> NoContent]
    /\ stage = "down"
    /\ cur = 0
    /\ nextTxid = 0 /\ durable = 0 /\ generation = 0
    /\ answer = "none"
-----------------------------------------------------------------------------
\* orchfs_log_transaction_create, once the journal is initialized.
Begin(t) ==
    /\ nextTxid # 0
    /\ tx[t] = "none"
    /\ tx' = [tx EXCEPT ![t] = "open"]
    /\ UNCHANGED <<nvm, settled, built_, mem, busy, cells, recs, journal, answer>>

\* What write_change_log copies: the whole word as it is in memory now.
Image(w, f, v) == [mem[w] EXCEPT ![f] = v]

\* Mistake: an operation that does not hold the lock of the field.
ChangeUnlocked(t, w, f, v) ==
    /\ tx[t] = "open"
    /\ v # mem[w][f]
    /\ mem' = [mem EXCEPT ![w][f] = v]
    /\ recs' = [recs EXCEPT ![t].words = @ \cup {w},
                            ![t].image[w] = Image(w, f, v)]
    /\ cells' = [cells EXCEPT ![t] = @ \cup {<<w, f>>}]
    /\ UNCHANGED <<nvm, settled, built_, busy, tx, journal, answer>>

\* A metadata update: in memory at once, and logged.  The locks of the file
\* system keep two open transactions from changing the same field.
Change(t, w, f, v) ==
    /\ tx[t] = "open"
    /\ \A u \in Txs \ {t} : <<w, f>> \notin cells[u]
    /\ v # mem[w][f]
    /\ mem' = [mem EXCEPT ![w][f] = v]
    /\ recs' = [recs EXCEPT ![t].words = @ \cup {w},
                            ![t].image[w] = Image(w, f, v)]
    /\ cells' = [cells EXCEPT ![t] = @ \cup {<<w, f>>}]
    /\ UNCHANGED <<nvm, settled, built_, busy, tx, journal, answer>>

\* reserve: claim_bit in memory, recorded for the frame and for the rollback.
Allocate(t, b) ==
    /\ tx[t] = "open"
    /\ b \notin busy
    /\ busy' = busy \cup {b}
    /\ recs' = [recs EXCEPT ![t].allocs = @ \cup {b}]
    /\ UNCHANGED <<nvm, settled, built_, mem, tx, cells, journal, answer>>

\* Mistake: the bit is cleared when the release is asked for.
ReleaseAtOnce(t, b) ==
    /\ tx[t] = "open"
    /\ b \in busy
    /\ \A u \in Txs : b \notin recs[u].frees \cup recs[u].allocs
    /\ busy' = busy \ {b}
    /\ recs' = [recs EXCEPT ![t].frees = @ \cup {b}]
    /\ UNCHANGED <<nvm, settled, built_, mem, tx, cells, journal, answer>>

\* release: deferred until the transaction is durable.
Release(t, b) ==
    /\ tx[t] = "open"
    /\ b \in busy
    /\ \A u \in Txs : /\ b \notin recs[u].frees
                      /\ u # t => b \notin recs[u].allocs
    /\ recs' = [recs EXCEPT ![t].frees = @ \cup {b}]
    /\ UNCHANGED <<nvm, settled, built_, mem, busy, tx, cells, journal, answer>>

\* The data of the operation is written and durable: it may now commit.
DataDurable(t) ==
    /\ tx[t] = "open"
    /\ tx' = [tx EXCEPT ![t] = "ready"]
    /\ UNCHANGED <<nvm, settled, built_, mem, busy, cells, recs, journal, answer>>

Forget(t) ==
    /\ tx' = [tx EXCEPT ![t] = "none"]
    /\ cells' = [cells EXCEPT ![t] = {}]
    /\ recs' = [recs EXCEPT ![t] = NoContent]

\* The words of an aborted transaction, read back from persistent memory.
Restored(t) ==
    [w \in Words |-> IF w \in recs[t].words THEN home[w] ELSE mem[w]]

\* orchfs_log_transaction_abort.
Abort(t) ==
    /\ tx[t] \in {"open", "ready"}
    /\ mem' = Restored(t)
    /\ busy' = busy \ recs[t].allocs
    /\ Forget(t)
    /\ UNCHANGED <<nvm, settled, built_, journal, answer>>
-----------------------------------------------------------------------------
Idle == stage = "idle"

\* commit_one refuses a transaction (no memory, too large): it is aborted.
CommitFails(t) ==
    /\ Idle
    /\ tx[t] = "ready"
    /\ ~Empty(recs[t])
    /\ mem' = Restored(t)
    /\ busy' = busy \ recs[t].allocs
    /\ Forget(t)
    /\ answer' = "failed"
    /\ UNCHANGED <<nvm, settled, built_, journal>>

\* An empty transaction is committed without a frame.
CommitEmpty(t) ==
    /\ Idle
    /\ tx[t] = "ready"
    /\ Empty(recs[t])
    /\ Forget(t)
    /\ UNCHANGED <<nvm, settled, built_, mem, busy, journal, answer>>

\* commit_one builds the frame and writes all of it but the commit record.
WriteBody(t) ==
    /\ Idle
    /\ tx[t] = "ready"
    /\ ~Empty(recs[t])
    /\ CommitLine(recs[t]) <= MaxLine
    /\ built < MaxFrames
    /\ built' = built + 1
    /\ frames' = [frames EXCEPT ![built + 1] =
                    [txid |-> nextTxid, content |-> recs[t]]]
    /\ log' = [i \in Lines |-> IF i < CommitLine(recs[t]) THEN built + 1
                                                          ELSE log[i]]
    /\ tx' = [tx EXCEPT ![t] = "committing"]
    /\ cur' = built + 1
    /\ durable' = nextTxid
    /\ stage' = "body"
    /\ UNCHANGED <<home, used, ckpt, settled, mem, busy, cells, recs, nextTxid,
                   generation, answer>>

WriteCommit ==
    /\ stage = "body"
    /\ Fence
    /\ log' = [log EXCEPT ![CommitLine(frames[cur].content)] = cur]
    /\ stage' = "commit"
    /\ UNCHANGED <<home, used, ckpt, built_, volatile, cur, nextTxid, durable,
                   generation, answer>>

\* Mistake: the home locations are written before the commit record is durable.
ApplyUnfenced ==
    /\ stage = "commit"
    /\ home' = ApplyWords(frames[cur].content, home)
    /\ used' = ApplyBlocks(frames[cur].content, used)
    /\ stage' = "home"
    /\ UNCHANGED <<log, ckpt, settled, built_, volatile, cur, nextTxid, durable,
                   generation, answer>>

ApplyFrame ==
    /\ stage = "commit"
    /\ Fence
    /\ home' = ApplyWords(frames[cur].content, home)
    /\ used' = ApplyBlocks(frames[cur].content, used)
    /\ stage' = "home"
    /\ UNCHANGED <<log, ckpt, built_, volatile, cur, nextTxid, durable,
                   generation, answer>>

\* The slot of a checkpoint generation.
Slot(g) == (g - 1) % 2

WriteCheckpoint ==
    /\ stage = "home"
    /\ Fence
    /\ generation' = generation + 1
    /\ ckpt' = [ckpt EXCEPT ![Slot(generation + 1)] =
                    [gen |-> generation + 1, txid |-> durable]]
    /\ stage' = "ckpt"
    /\ UNCHANGED <<log, home, used, built_, volatile, cur, nextTxid, durable,
                   answer>>

ClearJournal ==
    /\ stage = "ckpt"
    /\ Fence
    /\ log' = [log EXCEPT ![0] = 0]
    /\ stage' = "clear"
    /\ UNCHANGED <<home, used, ckpt, built_, volatile, cur, nextTxid, durable,
                   generation, answer>>

\* The commit returns: the deferred releases are carried out.
CommitDone(t) ==
    /\ stage = "clear"
    /\ tx[t] = "committing"
    /\ Fence
    /\ nextTxid' = nextTxid + 1
    /\ busy' = busy \ recs[t].frees
    /\ Forget(t)
    /\ stage' = "idle"
    /\ cur' = 0
    /\ answer' = "ok"
    /\ UNCHANGED <<nvm, built_, mem, durable, generation>>
-----------------------------------------------------------------------------
Higher(a, b) == IF a > b THEN a ELSE b

\* orchfs_log_recover up to the checkpoint: a complete frame is replayed.
Recover ==
    /\ stage = "down"
    /\ Latest(ckpt).gen # 0
    /\ generation' = Latest(ckpt).gen
    /\ IF Valid(log)
       THEN LET f == frames[log[0]] IN
            /\ cur' = log[0]
            /\ home' = ApplyWords(f.content, home)
            /\ used' = ApplyBlocks(f.content, used)
            /\ durable' = Higher(f.txid, Latest(ckpt).txid)
       ELSE /\ cur' = 0
            /\ durable' = Latest(ckpt).txid
            /\ UNCHANGED <<home, used>>
    /\ mem' = home'
    /\ busy' = used'
    /\ stage' = "home"
    /\ UNCHANGED <<log, ckpt, settled, built_, tx, cells, recs, nextTxid, answer>>

RecoveryDone ==
    /\ stage = "clear"
    /\ \A t \in Txs : tx[t] # "committing"
    /\ Fence
    /\ nextTxid' = durable + 1
    /\ stage' = "idle"
    /\ cur' = 0
    /\ UNCHANGED <<nvm, built_, volatile, durable, generation, answer>>

\* Stores reach the persistence domain in any order before the next fence.
Evict ==
    /\ UNCHANGED <<nvm, built_, volatile, journal, answer>>
    /\ \/ \E i \in Lines : \E n \in {log[i], 0} :
            /\ log[i] # dlog[i]
            /\ dlog' = [dlog EXCEPT ![i] = n]
            /\ UNCHANGED <<dhome, dused, dckpt>>
       \/ \E w \in Words, f \in Fields :
            /\ home[w][f] # dhome[w][f]
            /\ dhome' = [dhome EXCEPT ![w][f] = home[w][f]]
            /\ UNCHANGED <<dlog, dused, dckpt>>
       \/ \E b \in Blocks :
            /\ (b \in used) # (b \in dused)
            /\ dused' = IF b \in used THEN dused \cup {b} ELSE dused \ {b}
            /\ UNCHANGED <<dlog, dhome, dckpt>>
       \/ \E s \in Slots : \E c \in {ckpt[s], NoCheckpoint} :
            /\ ckpt[s] # dckpt[s]
            /\ dckpt' = [dckpt EXCEPT ![s] = c]
            /\ UNCHANGED <<dlog, dhome, dused>>

Crash ==
    /\ generation < MaxGeneration
    /\ log' = dlog /\ home' = dhome /\ used' = dused /\ ckpt' = dckpt
    /\ mem' = Zero /\ busy' = {}
    /\ tx' = [t \in Txs |-> "none"]
    /\ cells' = [t \in Txs |-> {}]
    /\ recs' = [t \in Txs |-> NoContent]
    /\ stage' = "down"
    /\ cur' = 0 /\ nextTxid' = 0 /\ durable' = 0 /\ generation' = 0
    /\ answer' = "lost"
    /\ UNCHANGED <<settled, built_>>
Next ==
    \/ \E t \in Txs : Begin(t)
    \/ \E t \in Txs, w \in Words, f \in Fields, v \in Values : Change(t, w, f, v)
    \/ \E t \in Txs, b \in Blocks : Allocate(t, b)
    \/ \E t \in Txs, b \in Blocks : Release(t, b)
    \/ \E t \in Txs : DataDurable(t)
    \/ \E t \in Txs : Abort(t)
    \/ \E t \in Txs : CommitFails(t)
    \/ \E t \in Txs : CommitEmpty(t)
    \/ \E t \in Txs : WriteBody(t)
    \/ WriteCommit
    \/ ApplyFrame
    \/ WriteCheckpoint
    \/ ClearJournal
    \/ \E t \in Txs : CommitDone(t)
    \/ Recover
    \/ RecoveryDone
    \/ Evict
    \/ Crash

Spec == Init /\ [][Next]_vars
-----------------------------------------------------------------------------
Frames == [txid : Nat, content : Contents]
Checkpoints == [gen : Nat, txid : Nat]

\* The variables keep their types.
TypeOK ==
    /\ log \in [Lines -> 0 .. MaxFrames] /\ dlog \in [Lines -> 0 .. MaxFrames]
    /\ home \in Images /\ dhome \in Images /\ mem \in Images
    /\ used \subseteq Blocks /\ dused \subseteq Blocks /\ busy \subseteq Blocks
    /\ ckpt \in [Slots -> Checkpoints] /\ dckpt \in [Slots -> Checkpoints]
    /\ frames \in [1 .. MaxFrames -> Frames]
    /\ built \in 0 .. MaxFrames
    /\ tx \in [Txs -> {"none", "open", "ready", "committing"}]
    /\ cells \in [Txs -> SUBSET (Words \X Fields)]
    /\ recs \in [Txs -> Contents]
    /\ stage \in {"down", "idle", "body", "commit", "home", "ckpt", "clear"}
    /\ cur \in 0 .. MaxFrames
    /\ nextTxid \in Nat /\ durable \in Nat /\ generation \in Nat
    /\ answer \in {"none", "ok", "failed", "lost"}

\* What recovery would make of the persistent memory after a power failure.
StoreHome == IF Valid(dlog) THEN ApplyWords(frames[dlog[0]].content, dhome)
                            ELSE dhome
StoreUsed == IF Valid(dlog) THEN ApplyBlocks(frames[dlog[0]].content, dused)
                            ELSE dused

Committing == \E t \in Txs : tx[t] = "committing"

StorePhase ==
    IF ~Committing THEN "idle" ELSE
    IF stage \in {"home", "ckpt", "clear"} \/ (Valid(dlog) /\ dlog[0] = cur)
    THEN "landed" ELSE "pending"

Store == INSTANCE AtomicStore WITH
    Stores <- Images, home <- StoreHome, used <- StoreUsed,
    content <- IF built = 0 THEN NoContent ELSE frames[built].content,
    phase <- StorePhase

\* What recovery would restore changes by whole transactions only: not when
\* their frame is half written or torn, not while it is applied, nor by a
\* crash at any of these points or during a recovery; and a commit that
\* answered success has landed.
ImplementsAtomicStore == Store!Spec

\* A block handed out to an open transaction, whose contents it may overwrite
\* at once, belongs to nothing that recovery would restore: a block is given
\* back only when the transaction that frees it is durable.
FreshBlocks ==
    \A t \in Txs : tx[t] \in {"open", "ready"} => recs[t].allocs \cap StoreUsed = {}

\* The cached word of metadata that no transaction is changing is the word on
\* persistent memory: an abort takes back what the transaction changed.
MemoryCoherent ==
    stage # "down" =>
        \A w \in Words : (\A t \in Txs : w \notin recs[t].words) => mem[w] = home[w]

\* A power failure at any time leaves a checkpoint that recovery can start
\* from.
CheckpointSurvives == Latest(dckpt).gen # 0

\* While an operation has data to write, nothing that recovery would restore
\* shows its metadata change.
MappingAfterData ==
    [][\A t \in Txs : tx[t] = "open" =>
         \A c \in cells[t] : StoreHome'[c[1]][c[2]] = StoreHome[c[1]][c[2]]]_vars

\* What the running server and the next recovery rely on at every moment: state
\* within its types, blocks handed out that nothing durable owns, cached words
\* that agree with persistent memory, and a checkpoint to start from.
Recoverable == TypeOK /\ FreshBlocks /\ MemoryCoherent /\ CheckpointSurvives
=============================================================================
