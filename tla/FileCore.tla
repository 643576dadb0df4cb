------------------------------ MODULE FileCore ------------------------------
(***************************************************************************)
(* The data path of one regular file in KfsCoroutineCore.                  *)
(*                                                                         *)
(* A file is a sequence of blocks.  A block lives on PMEM pages only       *)
(* ("virtual"), on one SSD block ("ssd"), or on an SSD block overlaid by   *)
(* segments of PMEM pages ("strata").  The tasks of this module are the    *)
(* coroutines that read, write, append to, truncate, stat and migrate the  *)
(* file; each holds the range permits of RangeArbiter on the blocks it     *)
(* touches, plans synchronously on the worker that owns the inode, awaits  *)
(* the device and the journal, and then publishes two caches: the extent   *)
(* snapshot that later reads and overwrites use instead of the index, and  *)
(* the inode snapshot that fstat answers from.                             *)
(*                                                                         *)
(* Bytes are abstracted to UnitsPerPage units per page.  Every write puts  *)
(* its own number into the units it covers, so the contents of the media   *)
(* say which write each unit comes from.  The journal commits atomically   *)
(* and in the order of submission: module Journal shows the first.         *)
(***************************************************************************)
EXTENDS Integers, Sequences, FiniteSets

CONSTANTS
    Tasks,            \* coroutines of client requests
    Mig,              \* the coroutine of the migration scheduler
    UnitsPerPage,     \* kPageSize, in units
    PagesPerBlock,    \* ORCHFS_CORE_PAGE_COUNT
    FileBlocks,       \* kMaximumFileSize, in blocks
    PageThreshold,    \* kStrataSsdPageThreshold
    MaxSegments,      \* kMaximumBufferSegments
    SsdIds, PageIds,  \* what the allocator has
    MaxOps,           \* bound: requests that are made
    Scenes            \* what happens to the file

(***************************************************************************)
(* A scene is a record: how many clients run together, the requests they   *)
(* may make, whether write_durability() is flush (otherwise completion or  *)
(* FUA), whether migration is enabled, leaf, how many blocks one index     *)
(* leaf maps (NODE_SON_CAPACITY), and bounds: ops requests are made,       *)
(* dfaults device batches and cfaults transactions fail, and the server    *)
(* crashes at most crashes times.                                          *)
(***************************************************************************)

VARIABLES
    scene,            \* clients, requests, policies and bounds
    index, size,      \* the mapping and i_size, in the metadata cache
    cindex, csize,    \* the same as the last committed transaction left them
    extents, stat,    \* published extent snapshot and inode snapshot
    ssd, ssdSafe,     \* SSD contents: as the device answers, and without its cache
    pm, pmSafe,       \* PMEM page contents: as loads see them, and fenced
    meta,             \* buffer metadata of each strata page
    freeS, freeP,     \* free SSD blocks and PMEM pages
    queue,            \* migration candidates
    jq,               \* transactions submitted to the journal service
    task,             \* the frame of each coroutine
    data,             \* what the completed requests have put into each unit
    ops, dfaults, cfaults, crashes

caches == <<extents, stat>>
media == <<ssd, ssdSafe, pm, pmSafe, meta>>
space == <<freeS, freeP>>
counts == <<ops, dfaults, cfaults, crashes>>
vars == <<scene, index, size, cindex, csize, caches, media, space, queue, jq, task, data, counts>>

BlockUnits == UnitsPerPage * PagesPerBlock
MaxSize == BlockUnits * FileBlocks
Blocks == 0 .. FileBlocks - 1
Pages == 0 .. PagesPerBlock - 1
Units == 0 .. MaxSize - 1
NoId == 0
Garbage == MaxOps + 1
Values == 0 .. Garbage
None == [kind |-> "none"]
Workers == Tasks \cup {Mig}

LeastOf(S) == CHOOSE x \in S : \A y \in S : x <= y
Smaller(a, b) == IF a < b THEN a ELSE b
Larger(a, b) == IF a > b THEN a ELSE b
BlockCount(n) == (n + BlockUnits - 1) \div BlockUnits

(***************************************************************************)
(* Mappings (struct orchfs_core_block) and what they say a unit holds.     *)
(* type is what the slot of the index leaf names, and flag its bit in      *)
(* virnd_flag, which all slots of a leaf share: the bit says that the slot *)
(* names a node (virtual or strata) and not an SSD block.                  *)
(***************************************************************************)
NoPages == [p \in Pages |-> NoId]
Empty == [type |-> "empty", ssd |-> NoId, page |-> NoPages, flag |-> FALSE]
IsNode(m) == m.type \in {"virtual", "strata"}
\* a node's number taken for a block's, or a block's for a node's
Torn(m) == m.type # "empty" /\ m.flag # IsNode(m)
NoSegments == [n |-> 0, units |-> {}]

PagesOf(m) == {m.page[p] : p \in Pages} \ {NoId}
SsdOf(m) == {m.ssd} \ {NoId}
UsedPages(ix) == UNION {PagesOf(ix[b]) : b \in Blocks}
UsedSsd(ix) == UNION {SsdOf(ix[b]) : b \in Blocks}

\* overlay_page: a segment of a strata page hides what the SSD holds under it
FromPmem(m, i) ==
    LET g == m.page[i \div UnitsPerPage] IN
    \/ m.type = "virtual"
    \/ m.type = "strata" /\ g # NoId /\ i % UnitsPerPage \in meta[g].units

Holds(m, i, onSsd, onPmem) ==
    IF FromPmem(m, i) THEN onPmem[m.page[i \div UnitsPerPage]][i % UnitsPerPage]
                      ELSE onSsd[m.ssd][i]

\* Contents after the stores S, a set of triples <<place, position, value>>
Stored(old, S) ==
    [x \in DOMAIN old |-> [i \in DOMAIN old[x] |->
        IF \E v \in Values : <<x, i, v>> \in S
        THEN CHOOSE v \in Values : <<x, i, v>> \in S
        ELSE old[x][i]]]

(***************************************************************************)
(* Extent snapshots.                                                       *)
(***************************************************************************)
\* build_extent_snapshot, from the index in memory
Built == [kind |-> "extents", size |-> size,
          map |-> [b \in 0 .. BlockCount(size) - 1 |-> index[b]]]

\* extents_for: the published snapshot when its size is the file's, else a new one
ExtentsFor == IF extents # None /\ extents.size = size THEN extents ELSE Built

\* publish_extent_update: replace some mappings and clip to the new size
Updated(current, old, new, replaced) ==
    IF current = None \/ current.size # old THEN Built
    ELSE [kind |-> "extents", size |-> new,
          map |-> [b \in (DOMAIN current.map \cup DOMAIN replaced)
                             \cap (0 .. BlockCount(new) - 1) |->
                   IF b \in DOMAIN replaced THEN replaced[b] ELSE current.map[b]]]

(***************************************************************************)
(* Coroutine frames and the range permits they hold.                       *)
(***************************************************************************)
NoMap == [b \in {} |-> Empty]
NoWord == [b \in {} |-> FALSE]
Idle == [pc |-> "idle", kind |-> "none", off |-> 0, len |-> 0, val |-> 0,
         held |-> {}, excl |-> FALSE, old |-> 0, end |-> 0, stable |-> FALSE,
         map |-> NoMap, word |-> NoWord, newP |-> {}, newS |-> {}, freed |-> {},
         toSsd |-> {}, toPmem |-> {}, toMeta |-> {}, res |-> <<>>, ext |-> None]

BlocksIn(off, len) == {b \in Blocks : b * BlockUnits < off + len /\ off < (b + 1) * BlockUnits}

Free(t, S, excl) ==
    \A w \in Workers \ {t} : task[w].held \cap S = {} \/ ~(excl \/ task[w].excl)

Granted(t, S, excl) == [task[t] EXCEPT !.held = S, !.excl = excl, !.pc = "locked"]

Release(t) == task' = [task EXCEPT ![t] = Idle]

\* Mistake: a read does not wait for the writers of its blocks
RangeOfUnshared(r) ==
    IF r.kind = "read" THEN {} ELSE IF r.kind = "write" THEN BlocksIn(r.off, r.len) ELSE Blocks

\* The range each entry point locks: append, truncate and sync take the whole file
RangeOf(r) == IF r.kind \in {"write", "read"} THEN BlocksIn(r.off, r.len) ELSE Blocks

\* No more clients than the scene has
Admitted ==
    Cardinality({t \in Tasks : task[t].pc # "idle"}) < scene.clients

\* read, write, append, truncate(inode), sync
Enter(t) ==
    /\ task[t].pc = "idle" /\ ops < scene.ops /\ Admitted
    /\ \E r \in scene.requests :
        /\ r.kind \in {"write", "append", "read", "truncate"}
        /\ Free(t, RangeOf(r), r.kind # "read")
        /\ task' = [task EXCEPT ![t] = [Idle EXCEPT
               !.pc = "locked", !.kind = r.kind, !.off = r.off, !.len = r.len,
               !.val = IF r.kind \in {"write", "append"} THEN ops + 1 ELSE 0,
               !.held = RangeOf(r), !.excl = r.kind # "read"]]
    /\ ops' = ops + 1
    /\ UNCHANGED <<scene, index, size, cindex, csize, caches, media, space, queue, jq, data,
                   dfaults, cfaults, crashes>>

(***************************************************************************)
(* The write plan of write_unlocked, for the units off .. end - 1.         *)
(***************************************************************************)
\* the part of block b that the request covers
Low(b, off) == Larger(off, b * BlockUnits) - b * BlockUnits
High(b, end) == Smaller(end, (b + 1) * BlockUnits) - b * BlockUnits
Whole(b, off, end) == Low(b, off) = 0 /\ High(b, end) = BlockUnits
Aligned(off, end) == off % BlockUnits = 0 /\ end % BlockUnits = 0

\* A write that changes no mapping; large unaligned ones ask the index, not the snapshot
Large(off, end) == end - off > BlockUnits
FromIndex(off, end) == Large(off, end) /\ ~Aligned(off, end)
Known(off, end) == IF FromIndex(off, end) THEN index ELSE ExtentsFor.map
StableBlock(m, b, off, end) ==
    \/ m.type = "virtual"
    \/ m.type = "ssd" /\ (Whole(b, off, end) \/ Large(off, end))
StableOverwrite(k, off, end, S) ==
    /\ k # "append" /\ end <= size
    /\ \A b \in S : /\ b \in DOMAIN Known(off, end)
                    /\ StableBlock(Known(off, end)[b], b, off, end)

\* acquire_op_blk_info: pages that block b needs in a virtual block
RequiredPages(b, S, end) ==
    IF \E c \in S : c > b THEN Pages ELSE 0 .. (High(b, end) - 1) \div UnitsPerPage

\* append_blocks: a new block is an SSD block unless it ends the write part-way
Prepared(m, b, S, end) ==
    IF m.type # "empty" THEN m
    ELSE IF (\E c \in S : c > b) \/ High(b, end) = BlockUnits THEN [m EXCEPT !.type = "ssd"]
    ELSE [m EXCEPT !.type = "virtual"]

\* orchfs_core_ensure_strata: a partial write of an SSD block goes to PMEM pages over it
Shaped(b, off, end, S) ==
    LET m == Prepared(index[b], b, S, end) IN
    IF m.type = "ssd" /\ ~Whole(b, off, end) THEN [m EXCEPT !.type = "strata"] ELSE m

NewSsd(m) == m.type \in {"ssd", "strata"} /\ m.ssd = NoId
NewPages(m, b, off, end, S) ==
    LET touched == Low(b, off) \div UnitsPerPage .. (High(b, end) - 1) \div UnitsPerPage
        needed == IF m.type = "virtual" THEN RequiredPages(b, S, end)
                  ELSE IF m.type = "strata" /\ ~Whole(b, off, end) THEN touched ELSE {}
    IN {p \in needed : m.page[p] = NoId}

\* require_ssd_block_id and require_nvm_page_id: some free identifier for each place
Assigned(places, free) ==
    CHOOSE f \in [places -> free] : \A x, y \in places : f[x] = f[y] => x = y

NewMap(off, end, S) ==
    LET shape == [b \in S |-> Shaped(b, off, end, S)]
        sOf == Assigned({b \in S : NewSsd(shape[b])}, freeS)
        pOf == Assigned({bp \in S \X Pages :
                             bp[2] \in NewPages(shape[bp[1]], bp[1], off, end, S)}, freeP)
    IN [b \in S |-> [shape[b] EXCEPT
            !.flag = @ \/ IsNode(shape[b]),
            !.ssd = IF NewSsd(shape[b]) THEN sOf[b] ELSE @,
            !.page = [p \in Pages |-> IF <<b, p>> \in DOMAIN pOf THEN pOf[<<b, p>>] ELSE @[p]]]]

\* The flags that a change of slots S logs: all of the leaf's, as memory has them
Word(S, ix) ==
    [b \in {c \in Blocks : \E d \in S : c \div scene.leaf = d \div scene.leaf} |-> ix[b].flag]

\* Slots that become a node are the ones whose flags are logged with them
NewNodes(map) == {b \in DOMAIN map : IsNode(map[b]) /\ ~IsNode(index[b])}

NoSpace(off, end, S) ==
    LET shape == [b \in S |-> Shaped(b, off, end, S)] IN
    \/ Cardinality({b \in S : NewSsd(shape[b])}) > Cardinality(freeS)
    \/ Cardinality({bp \in S \X Pages : bp[2] \in NewPages(shape[bp[1]], bp[1], off, end, S)})
           > Cardinality(freeP)

\* a partial write of a strata block sends whole pages to the SSD when there are enough
FullPages(b, off, end) ==
    {p \in Pages : p * UnitsPerPage >= Low(b, off) /\ (p + 1) * UnitsPerPage <= High(b, end)}
Direct(b, off, end) ==
    IF Cardinality(FullPages(b, off, end)) >= PageThreshold THEN FullPages(b, off, end) ELSE {}

Covered(b, off, end) == Low(b, off) .. High(b, end) - 1
PageUnits(p) == p * UnitsPerPage .. (p + 1) * UnitsPerPage - 1
Touched(b, off, end) == {i \div UnitsPerPage : i \in Covered(b, off, end)}
Segmented(m, b, off, end) == m.type = "strata" /\ ~Whole(b, off, end)
SegmentsOf(g, fresh) == IF g \in fresh THEN NoSegments ELSE meta[g]

MergePages(m, b, off, end, fresh) ==
    {p \in Touched(b, off, end) \ Direct(b, off, end) :
        SegmentsOf(m.page[p], fresh).n = MaxSegments}

\* what goes to the SSD, what to PMEM pages, and the new buffer metadata
SsdStores(m, b, off, end, v, fresh) ==
    IF m.type = "virtual" THEN {}
    ELSE IF ~Segmented(m, b, off, end) THEN {<<m.ssd, i, v>> : i \in Covered(b, off, end)}
    ELSE {<<m.ssd, i, v>> : i \in UNION {PageUnits(p) : p \in Direct(b, off, end)}}
         \cup UNION {{<<m.ssd, i, pm[m.page[p]][i % UnitsPerPage]>> :
                        i \in {j \in PageUnits(p) : FromPmem(m, j)}}
                     : p \in MergePages(m, b, off, end, fresh)}

PmemStores(m, b, off, end, v) ==
    IF m.type = "virtual" \/ Segmented(m, b, off, end)
    THEN {<<m.page[i \div UnitsPerPage], i % UnitsPerPage, v>> :
            i \in {j \in Covered(b, off, end) :
                     \/ m.type = "virtual"
                     \/ j \div UnitsPerPage \notin Direct(b, off, end)}}
    ELSE {}

\* the buffer metadata of a page after a partial write of its block
Resegmented(m, p, b, off, end, fresh) ==
    LET before == IF p \in MergePages(m, b, off, end, fresh)
                  THEN NoSegments ELSE SegmentsOf(m.page[p], fresh)
        added == {i % UnitsPerPage : i \in PageUnits(p) \cap Covered(b, off, end)}
    IN IF p \in Direct(b, off, end) THEN NoSegments
       ELSE [n |-> before.n + 1, units |-> before.units \cup added]

MetaStores(m, b, off, end, fresh) ==
    IF m.type # "strata" THEN {}
    ELSE IF Whole(b, off, end) THEN {<<g, NoSegments>> : g \in PagesOf(m)}
    ELSE {<<m.page[p], Resegmented(m, p, b, off, end, fresh)>> : p \in Touched(b, off, end)}

\* add_migrate_node: a virtual block that has all its pages is a migration candidate
Candidates(map, S, end) ==
    IF ~scene.migration THEN {}
    ELSE {[block |-> b, page |-> map[b].page] :
            b \in {c \in S : index[c].type = "virtual" /\ RequiredPages(c, S, end) = Pages}}

Start(t) == IF task[t].kind = "write" THEN task[t].off ELSE size
\* truncate extends the file chunk by chunk, one block's worth of zeros at a time
End(t) == IF task[t].kind = "truncate" THEN Smaller(task[t].len, size + BlockUnits)
          ELSE Start(t) + task[t].len

IsWrite(t) == \/ task[t].kind \in {"write", "append"}
              \/ task[t].kind = "truncate" /\ task[t].len > size

\* EIO: the snapshot's virtual block lacks a page that the write covers
Unbacked(off, end, S) ==
    \E b \in S : LET m == Known(off, end)[b] IN
        m.type = "virtual" /\ \E p \in Touched(b, off, end) : m.page[p] = NoId

\* EIO: append_nvm_pages begins at the file's last block and does not step over a strata one
Stratified(end, S) ==
    \E b \in S \ {0} : /\ index[b].type = "empty" /\ index[b - 1].type = "strata"
                       /\ Prepared(index[b], b, S, end).type = "virtual"

\* Early returns of write_unlocked: past the end, too large, no page, or no space
Refused(t) ==
    /\ task[t].pc = "locked" /\ IsWrite(t)
    /\ \/ Start(t) > size
       \/ End(t) > MaxSize
       \/ LET S == BlocksIn(Start(t), End(t) - Start(t)) IN
          IF StableOverwrite(task[t].kind, Start(t), End(t), S)
          THEN Unbacked(Start(t), End(t), S)
          ELSE NoSpace(Start(t), End(t), S) \/ Stratified(End(t), S)
    /\ Release(t)
    /\ UNCHANGED <<scene, index, size, cindex, csize, caches, media, space, queue, jq,
                   data, counts>>

\* write_unlocked up to its first await: decide, allocate, map, and plan the stores
Plan(t) ==
    LET off == Start(t)
        end == End(t)
        S == BlocksIn(off, end - off)
        stable == StableOverwrite(task[t].kind, off, end, S)
        known == Known(off, end)
        map == IF stable THEN [b \in S |-> known[b]] ELSE NewMap(off, end, S)
        newP == UNION {PagesOf(map[b]) \ PagesOf(index[b]) : b \in S}
        newS == UNION {SsdOf(map[b]) \ SsdOf(index[b]) : b \in S}
        onSsd == UNION {SsdStores(map[b], b, off, end, task[t].val, newP) : b \in S}
    IN
    /\ task[t].pc = "locked" /\ IsWrite(t)
    /\ off <= size /\ end <= MaxSize
    /\ IF stable THEN ~Unbacked(off, end, S) ELSE ~(NoSpace(off, end, S) \/ Stratified(end, S))
    /\ extents' = IF task[t].kind # "append" /\ end <= size /\ ~FromIndex(off, end)
                  THEN ExtentsFor ELSE extents
    /\ index' = IF stable THEN index
                ELSE [b \in Blocks |-> IF b \in S THEN map[b] ELSE index[b]]
    /\ freeP' = IF stable THEN freeP ELSE freeP \ newP
    /\ freeS' = IF stable THEN freeS ELSE freeS \ newS
    /\ queue' = IF stable THEN queue ELSE queue \cup Candidates(map, S, end)
    /\ meta' = [g \in PageIds |-> IF ~stable /\ g \in newP THEN NoSegments ELSE meta[g]]
    /\ task' = [task EXCEPT ![t] = [@ EXCEPT
           !.pc = IF onSsd = {} THEN "pmem" ELSE "device",
           !.off = off, !.end = end, !.old = size, !.stable = stable, !.map = map,
           !.word = IF stable THEN NoWord ELSE Word(NewNodes(map), index'),
           !.newP = IF stable THEN {} ELSE newP, !.newS = IF stable THEN {} ELSE newS,
           !.toSsd = onSsd,
           !.toPmem = UNION {PmemStores(map[b], b, off, end, task[t].val) : b \in S},
           !.toMeta = UNION {MetaStores(map[b], b, off, end, newP) : b \in S}]]
    /\ UNCHANGED <<scene, size, cindex, csize, stat, ssd, ssdSafe, pm, pmSafe, jq, data,
                   counts>>

(***************************************************************************)
(* Device, PMEM and journal steps of a planned write or migration.         *)
(***************************************************************************)
\* The device answers reads with the new contents; they may still be in its cache
DeviceWrite(t) ==
    /\ task[t].pc = "device"
    /\ ssd' = Stored(ssd, task[t].toSsd)
    /\ task' = [task EXCEPT ![t].pc = "flush"]
    /\ UNCHANGED <<scene, index, size, cindex, csize, caches, ssdSafe, pm, pmSafe, meta,
                   space,
                   queue, jq, data, counts>>

\* Mistake: the write goes on before its data is durable
HardenedNot(t) == ssdSafe

\* Completion or FUA makes the request's own stores durable, a flush all of them
Hardened(t) == IF scene.flush THEN ssd ELSE Stored(ssdSafe, task[t].toSsd)

Flush(t) ==
    /\ task[t].pc = "flush" /\ t # Mig
    /\ ssdSafe' = Hardened(t)
    /\ task' = [task EXCEPT ![t].pc = "pmem"]
    /\ UNCHANGED <<scene, index, size, cindex, csize, caches, ssd, pm, pmSafe, meta, space,
                   queue, jq, data, counts>>

\* orchfs_core_write_pmem: non-temporal stores, not yet fenced
PmemWrite(t) ==
    /\ task[t].pc = "pmem"
    /\ pm' = Stored(pm, task[t].toPmem)
    /\ task' = [task EXCEPT ![t].pc = "persist"]
    /\ UNCHANGED <<scene, index, size, cindex, csize, caches, ssd, ssdSafe, pmSafe, meta,
                   space,
                   queue, jq, data, counts>>

Written(t) == [u \in Units |-> IF u \in task[t].off .. task[t].end - 1 THEN {task[t].val}
                               ELSE data[u]]

\* Fence, record the new size and hand the transaction to the journal service
Persist(t) ==
    /\ task[t].pc = "persist"
    /\ pmSafe' = pm
    /\ IF task[t].stable
       THEN /\ data' = Written(t)
            /\ Release(t)
            /\ UNCHANGED <<size, jq>>
       ELSE /\ size' = IF task[t].end > task[t].old THEN task[t].end ELSE size
            /\ jq' = Append(jq, t)
            /\ task' = [task EXCEPT ![t].pc = "commit"]
            /\ UNCHANGED data
    /\ UNCHANGED <<scene, index, cindex, csize, caches, ssd, ssdSafe, pm, meta, space,
                   queue, counts>>

\* truncate to a smaller or equal size, and the O_TRUNC of an open: only i_size changes
Shrink(t) ==
    /\ task[t].pc = "locked" /\ ~IsWrite(t) /\ task[t].kind \in {"truncate", "open_trunc"}
    /\ size' = task[t].len
    /\ jq' = Append(jq, t)
    /\ task' = [task EXCEPT ![t].pc = "commit", ![t].end = task[t].len,
                            ![t].old = IF task[t].kind = "truncate" THEN size ELSE @]
    /\ UNCHANGED <<scene, index, cindex, csize, caches, media, space, queue, data, counts>>

SetsSize(t) == task[t].kind \in {"truncate", "open_trunc"} \/ task[t].end > task[t].old

\* Mistake: only the slots are logged, not the flags of their leaf
CommittedSlots(t) ==
    [b \in Blocks |-> IF b \in DOMAIN task[t].map
                      THEN [task[t].map[b] EXCEPT !.flag = cindex[b].flag] ELSE cindex[b]]

\* The slots of the transaction, and the flags of their leaves as they were when the
\* transaction logged them, with what other transactions had changed by then
Committed(t) ==
    [b \in Blocks |-> IF b \in DOMAIN task[t].map THEN task[t].map[b]
                      ELSE IF b \in DOMAIN task[t].word
                      THEN [cindex[b] EXCEPT !.flag = task[t].word[b]] ELSE cindex[b]]

\* The journal service commits the oldest transaction
Commit ==
    LET t == Head(jq) IN
    /\ jq # <<>>
    /\ cindex' = Committed(t)
    /\ csize' = IF SetsSize(t) THEN task[t].end ELSE csize
    /\ meta' = [g \in PageIds |-> IF \E s \in task[t].toMeta : s[1] = g
                                  THEN (CHOOSE s \in task[t].toMeta : s[1] = g)[2]
                                  ELSE meta[g]]
    /\ freeP' = freeP \cup task[t].freed
    /\ data' = IF task[t].map # NoMap /\ t # Mig THEN Written(t) ELSE data
    /\ jq' = Tail(jq)
    /\ task' = [task EXCEPT ![t].pc = "publish", ![t].newP = {}, ![t].newS = {}]
    /\ UNCHANGED <<scene, index, size, caches, ssd, ssdSafe, pm, pmSafe, freeS, queue,
                   counts>>

(***************************************************************************)
(* Failures: the transaction aborts, which reloads the records it changed  *)
(* from PMEM and gives its allocations back.                               *)
(***************************************************************************)
Aborted(t) ==
    [b \in Blocks |-> IF b \in DOMAIN task[t].map /\ ~task[t].stable THEN cindex[b]
                      ELSE IF b \in DOMAIN task[t].word
                      THEN [index[b] EXCEPT !.flag = cindex[b].flag] ELSE index[b]]
Attempted(t) == [u \in Units |-> IF t # Mig /\ task[t].map # NoMap
                                    /\ u \in task[t].off .. task[t].end - 1
                                 THEN data[u] \cup {task[t].val} ELSE data[u]]
GiveBack(t) == /\ freeP' = freeP \cup task[t].newP
               /\ freeS' = freeS \cup task[t].newS

\* Part of a batch reached the device before it reported an error
DeviceError(t) ==
    /\ task[t].pc = "device" /\ dfaults < scene.dfaults
    /\ \E Q \in SUBSET {<<s[1], s[2] \div UnitsPerPage>> : s \in task[t].toSsd} :
        ssd' = Stored(ssd, {s \in task[t].toSsd : <<s[1], s[2] \div UnitsPerPage>> \in Q})
    /\ index' = IF t = Mig THEN index ELSE Aborted(t)
    /\ GiveBack(t)
    /\ queue' = IF t = Mig THEN queue \cup {[block |-> b, page |-> index[b].page] : b \in task[t].held}
                ELSE queue
    /\ data' = Attempted(t)
    /\ Release(t)
    /\ dfaults' = dfaults + 1
    /\ UNCHANGED <<scene, size, cindex, csize, caches, ssdSafe, pm, pmSafe, meta, jq,
                   ops, cfaults, crashes>>

\* commit_one refuses a transaction (its frame cannot be built) and aborts it
CommitError ==
    LET t == Head(jq) IN
    /\ jq # <<>> /\ cfaults < scene.cfaults
    /\ index' = Aborted(t)
    /\ size' = IF SetsSize(t) THEN csize ELSE size
    /\ GiveBack(t)
    /\ data' = Attempted(t)
    /\ jq' = Tail(jq)
    /\ Release(t)
    /\ cfaults' = cfaults + 1
    /\ UNCHANGED <<scene, cindex, csize, caches, media, queue, ops, dfaults, crashes>>

\* the inode read again after the commit
Snapshot(t) == [kind |-> "stat", size |-> size]

(***************************************************************************)
(* After the commit, on the inode's owner: publish both caches and release *)
(* the range.                                                              *)
(***************************************************************************)
Publish(t) ==
    LET big == Large(task[t].off, task[t].end) /\ ~Aligned(task[t].off, task[t].end)
        more == task[t].kind = "truncate" /\ task[t].map # NoMap /\ task[t].end < task[t].len
    IN
    /\ task[t].pc = "publish" /\ task[t].kind # "open_trunc" /\ t # Mig
    /\ stat' = Snapshot(t)
    /\ extents' = IF task[t].map # NoMap /\ big THEN None
                  ELSE Updated(extents, task[t].old, size, task[t].map)
    /\ task' = [task EXCEPT ![t] =
                  IF more THEN [Granted(t, Blocks, TRUE) EXCEPT !.map = NoMap] ELSE Idle]
    /\ UNCHANGED <<scene, index, size, cindex, csize, media, space, queue, jq, data,
                   counts>>

(***************************************************************************)
(* Reads.                                                                  *)
(***************************************************************************)
ReadPlan(t) ==
    LET S == task[t].off .. Smaller(task[t].off + task[t].len, size) - 1
        need == {u \div BlockUnits : u \in S}
    IN
    /\ task[t].pc = "locked" /\ task[t].kind = "read"
    /\ IF S = {} THEN Release(t) /\ UNCHANGED extents
       ELSE /\ extents' = ExtentsFor
            /\ task' = [task EXCEPT ![t] = [@ EXCEPT
                   !.pc = IF need \subseteq DOMAIN ExtentsFor.map THEN "reading" ELSE "failed",
                   !.end = task[t].off + Cardinality(S),
                   !.map = [b \in need \cap DOMAIN ExtentsFor.map |-> ExtentsFor.map[b]]]]
    /\ UNCHANGED <<scene, index, size, cindex, csize, stat, media, space, queue, jq,
                   data, counts>>

\* The device answers; strata pages are overlaid with the metadata PMEM holds now
ReadDone(t) ==
    /\ task[t].pc = "reading"
    /\ task' = [task EXCEPT ![t].pc = "got",
           ![t].res = [u \in task[t].off .. task[t].end - 1 |->
               Holds(task[t].map[u \div BlockUnits], u % BlockUnits, ssd, pm)]]
    /\ UNCHANGED <<scene, index, size, cindex, csize, caches, media, space, queue, jq,
                   data, counts>>

ReadReturn(t) ==
    /\ task[t].pc \in {"got", "failed"}
    /\ Release(t)
    /\ UNCHANGED <<scene, index, size, cindex, csize, caches, media, space, queue, jq,
                   data, counts>>

(***************************************************************************)
(* stat(inode), stat(path) and open with O_TRUNC.                          *)
(***************************************************************************)
\* stat(inode): on the owner, from the published snapshot or a new one
FStat(t) ==
    /\ task[t].pc = "idle" /\ ops < scene.ops /\ Admitted
    /\ [kind |-> "fstat", off |-> 0, len |-> 0] \in scene.requests
    /\ stat' = IF stat = None THEN [kind |-> "stat", size |-> size] ELSE stat
    /\ ops' = ops + 1
    /\ UNCHANGED <<scene, index, size, cindex, csize, extents, media, space, queue, jq,
                   task, data,
                   dfaults, cfaults, crashes>>

\* resolve: the inode is copied while its parent directory is locked, not the file
Locate(t) ==
    /\ task[t].pc = "idle" /\ ops < scene.ops /\ Admitted
    /\ \E r \in scene.requests :
        /\ r.kind \in {"stat", "open_trunc"}
        /\ task' = [task EXCEPT ![t] = [Idle EXCEPT !.pc = "located", !.kind = r.kind, !.old = size]]
    /\ ops' = ops + 1
    /\ UNCHANGED <<scene, index, size, cindex, csize, caches, media, space, queue, jq, data,
                   dfaults, cfaults, crashes>>

\* stat(path) publishes the copy it took
StatPublish(t) ==
    /\ task[t].pc = "located" /\ task[t].kind = "stat"
    /\ stat' = [kind |-> "stat", size |-> task[t].old]
    /\ Release(t)
    /\ UNCHANGED <<scene, index, size, cindex, csize, extents, media, space, queue, jq,
                   data, counts>>

TruncLock(t) ==
    /\ task[t].pc = "located" /\ task[t].kind = "open_trunc"
    /\ Free(t, Blocks, TRUE)
    /\ task' = [task EXCEPT ![t] = Granted(t, Blocks, TRUE)]
    /\ UNCHANGED <<scene, index, size, cindex, csize, caches, media, space, queue, jq,
                   data, counts>>

\* finish_open_locked releases the range first, then builds and publishes, on the
\* worker of the parent directory
TruncRelease(t) ==
    /\ task[t].pc = "publish" /\ task[t].kind = "open_trunc"
    /\ task' = [task EXCEPT ![t].pc = "load", ![t].held = {}, ![t].excl = FALSE]
    /\ UNCHANGED <<scene, index, size, cindex, csize, caches, media, space, queue, jq,
                   data, counts>>

TruncLoad(t) ==
    /\ task[t].pc = "load"
    /\ task' = [task EXCEPT ![t].pc = "store", ![t].end = size,
                            ![t].ext = Updated(extents, task[t].old, size, NoMap)]
    /\ UNCHANGED <<scene, index, size, cindex, csize, caches, media, space, queue, jq,
                   data, counts>>

TruncStore(t) ==
    /\ task[t].pc = "store"
    /\ extents' = task[t].ext
    /\ stat' = [kind |-> "stat", size |-> task[t].end]
    /\ Release(t)
    /\ UNCHANGED <<scene, index, size, cindex, csize, media, space, queue, jq, data,
                   counts>>

(***************************************************************************)
(* migrate: move a full virtual block to an SSD block.                     *)
(***************************************************************************)
Take ==
    /\ task[Mig].pc = "idle"
    /\ \E c \in queue :
        /\ queue' = queue \ {c}
        /\ task' = [task EXCEPT ![Mig] = [Idle EXCEPT
               !.pc = "taken", !.kind = "migrate", !.off = c.block, !.ext = c]]
    /\ UNCHANGED <<scene, index, size, cindex, csize, caches, media, space, jq, data,
                   counts>>

\* orchfs_prepare_migration_io, once the range is granted: the candidate may be stale
Migratable == /\ index[task[Mig].off].type = "virtual"
              /\ index[task[Mig].off].page = task[Mig].ext.page

Skip ==
    /\ task[Mig].pc = "taken" /\ Free(Mig, {task[Mig].off}, TRUE)
    /\ ~Migratable \/ freeS = {}
    /\ queue' = IF Migratable THEN queue \cup {task[Mig].ext} ELSE queue
    /\ Release(Mig)
    /\ UNCHANGED <<scene, index, size, cindex, csize, caches, media, space, jq, data,
                   counts>>

\* Mistake: the pages of a migrated block are never released
DeferredNone(m) == {}

\* change_virnd_to_ssdblk releases the pages once its transaction has committed
Deferred(m) == PagesOf(m)

Copy ==
    LET b == task[Mig].off
        s == LeastOf(freeS)
        m == [Empty EXCEPT !.type = "ssd", !.ssd = s]
    IN
    /\ task[Mig].pc = "taken" /\ Free(Mig, {b}, TRUE)
    /\ Migratable /\ freeS # {}
    /\ freeS' = freeS \ {s}
    /\ task' = [task EXCEPT ![Mig] = [@ EXCEPT
           !.pc = "device", !.held = {b}, !.excl = TRUE, !.map = [x \in {b} |-> m],
           !.newS = {s}, !.freed = Deferred(index[b]),
           !.toSsd = {<<s, i, Holds(index[b], i, ssd, pm)>> : i \in 0 .. BlockUnits - 1}]]
    /\ UNCHANGED <<scene, index, size, cindex, csize, caches, media, freeP, queue, jq,
                   data, counts>>

\* The write has completed, with no flush: change_virnd_to_ssdblk, then the journal
Remap ==
    /\ task[Mig].pc = "flush"
    /\ ssdSafe' = IF scene.flush THEN ssdSafe ELSE Hardened(Mig)
    /\ index' = [b \in Blocks |-> IF b \in DOMAIN task[Mig].map THEN task[Mig].map[b] ELSE index[b]]
    /\ jq' = Append(jq, Mig)
    /\ task' = [task EXCEPT ![Mig].pc = "commit", ![Mig].word = Word({task[Mig].off}, index')]
    /\ UNCHANGED <<scene, size, cindex, csize, caches, ssd, pm, pmSafe, meta, space,
                   queue, data, counts>>

\* Mistake: the migration leaves the published snapshot as it is
MigPublishNothing ==
    /\ task[Mig].pc = "publish"
    /\ Release(Mig)
    /\ UNCHANGED <<scene, index, size, cindex, csize, caches, media, space, queue, jq,
                   data, counts>>

\* refresh_extent_range
MigPublish ==
    /\ task[Mig].pc = "publish"
    /\ extents' = Updated(extents, size, size, task[Mig].map)
    /\ Release(Mig)
    /\ UNCHANGED <<scene, index, size, cindex, csize, stat, media, space, queue, jq,
                   data, counts>>

(***************************************************************************)
(* Crash and recovery: memory is lost; unflushed SSD pages and unfenced    *)
(* PMEM pages may or may not have reached the medium.                      *)
(***************************************************************************)
DirtySsd == {sp \in SsdIds \X Pages : \E i \in PageUnits(sp[2]) : ssd[sp[1]][i] # ssdSafe[sp[1]][i]}
DirtyPmem == {g \in PageIds : pm[g] # pmSafe[g]}

Crash ==
    /\ crashes < scene.crashes
    /\ \E Q \in SUBSET DirtySsd, R \in SUBSET DirtyPmem :
        LET s1 == [s \in SsdIds |-> [i \in 0 .. BlockUnits - 1 |->
                     IF <<s, i \div UnitsPerPage>> \in Q THEN ssd[s][i] ELSE ssdSafe[s][i]]]
            p1 == [g \in PageIds |-> IF g \in R THEN pm[g] ELSE pmSafe[g]]
        IN /\ ssd' = s1 /\ ssdSafe' = s1
           /\ pm' = p1 /\ pmSafe' = p1
           /\ data' = [u \in Units |-> IF u < csize
                         THEN {Holds(cindex[u \div BlockUnits], u % BlockUnits, s1, p1)}
                         ELSE data[u]]
    /\ index' = cindex /\ size' = csize
    /\ extents' = None /\ stat' = None
    /\ freeS' = SsdIds \ UsedSsd(cindex) /\ freeP' = PageIds \ UsedPages(cindex)
    /\ queue' = {} /\ jq' = <<>>
    /\ task' = [t \in Workers |-> Idle]
    /\ crashes' = crashes + 1
    /\ UNCHANGED <<scene, cindex, csize, meta, ops, dfaults, cfaults>>

Init ==
    /\ scene \in Scenes
    /\ index = [b \in Blocks |-> Empty] /\ cindex = index
    /\ size = 0 /\ csize = 0
    /\ extents = None /\ stat = None
    /\ ssd = [s \in SsdIds |-> [i \in 0 .. BlockUnits - 1 |-> Garbage]] /\ ssdSafe = ssd
    /\ pm = [g \in PageIds |-> [k \in 0 .. UnitsPerPage - 1 |-> Garbage]] /\ pmSafe = pm
    /\ meta = [g \in PageIds |-> NoSegments]
    /\ freeS = SsdIds /\ freeP = PageIds
    /\ queue = {} /\ jq = <<>>
    /\ task = [t \in Workers |-> Idle]
    /\ data = [u \in Units |-> {Garbage}]
    /\ ops = 0 /\ dfaults = 0 /\ cfaults = 0 /\ crashes = 0

TaskStep(t) ==
    \/ Enter(t) \/ Refused(t) \/ Plan(t) \/ PmemWrite(t) \/ Persist(t) \/ Flush(t)
    \/ Shrink(t) \/ Publish(t)
    \/ ReadPlan(t) \/ ReadDone(t) \/ ReadReturn(t)
    \/ FStat(t) \/ Locate(t) \/ StatPublish(t)
    \/ TruncLock(t) \/ TruncRelease(t) \/ TruncLoad(t) \/ TruncStore(t)

MigStep == Take \/ Skip \/ Copy \/ Remap \/ MigPublish

Next ==
    \/ \E t \in Tasks : TaskStep(t)
    \/ \E t \in Workers : DeviceWrite(t) \/ DeviceError(t)
    \/ MigStep
    \/ Commit \/ CommitError
    \/ Crash

Spec == Init /\ [][Next]_vars

(***************************************************************************)
(* Properties.                                                             *)
(***************************************************************************)
Mappings == [type : {"empty", "virtual", "ssd", "strata"}, ssd : SsdIds \cup {NoId},
             page : [Pages -> PageIds \cup {NoId}], flag : BOOLEAN]

\* Every field of every frame and medium stays within the ranges of the code's types, and
\* the cached leaf tells nodes from blocks
TypeOK ==
    /\ scene \in Scenes
    /\ index \in [Blocks -> Mappings] /\ cindex \in [Blocks -> Mappings]
    /\ \A b \in Blocks : ~Torn(index[b])
    /\ size \in 0 .. MaxSize /\ csize \in 0 .. MaxSize
    /\ extents = None \/ \A b \in DOMAIN extents.map : extents.map[b] \in Mappings
    /\ \A s \in SsdIds, i \in 0 .. BlockUnits - 1 : ssd[s][i] \in Values /\ ssdSafe[s][i] \in Values
    /\ \A g \in PageIds : meta[g].n \in 0 .. MaxSegments
                          /\ meta[g].units \subseteq 0 .. UnitsPerPage - 1
    /\ freeS \subseteq SsdIds /\ freeP \subseteq PageIds
    /\ \A k \in 1 .. Len(jq) : task[jq[k]].pc = "commit"

WriteLocked(b) == \E t \in Workers : task[t].excl /\ b \in task[t].held
Quiet == \A t \in Workers : task[t].pc = "idle"

\* stat by path and O_TRUNC publish caches without the permit of the file
PathPublishes == \E r \in scene.requests : r.kind \in {"stat", "open_trunc"}

\* Among the requests on an open file, a read returns, for every unit below the size it
\* saw, what the last completed write put there (or, after a failed write, that write's
\* attempt): whatever mixture of virtual, SSD and strata blocks, merges, truncations,
\* failures, crashes and migrations lies between, and never EIO for a missing mapping
ReadsRight ==
    PathPublishes \/ \A t \in Tasks :
        /\ task[t].pc # "failed"
        /\ task[t].pc = "got" => \A u \in DOMAIN task[t].res : task[t].res[u] \in data[u]

\* The published extent snapshot, when its size matches the file's so that reads and
\* overwrites will use it, maps every block no writer holds exactly as the index does
ExtentsAgree ==
    ~PathPublishes /\ extents # None /\ extents.size = size =>
        \A b \in 0 .. BlockCount(size) - 1 :
            ~WriteLocked(b) => b \in DOMAIN extents.map /\ extents.map[b] = index[b]

\* Once no request is running, fstat answers with the size the completed ones left
StatFresh == ~PathPublishes /\ Quiet /\ stat # None => stat.size = size

InFlight(u) == {task[t].val : t \in {w \in Tasks : /\ task[w].map # NoMap
                                                   /\ task[w].excl
                                                   /\ u \in task[w].off .. task[w].end - 1}}

\* Two transactions may have changes of one leaf under way: the flags that one of them
\* commits can then be the other's, too early, or its own look at them, too late
SharedLeaf == scene.leaf > 1 /\ (scene.clients > 1 \/ scene.migration)

\* Among the requests on an open file, a crash at any moment loses no completed write
\* and mixes in nothing else: under the committed slots and size, whatever subset of
\* the unflushed stores reached the media, every unit holds its last completed write or
\* one still running; and the committed flags of a leaf tell its nodes from its blocks
\* unless two requests change slots of that leaf together
CrashSafe ==
    PathPublishes \/ \A u \in Units : u < csize =>
        LET m == cindex[u \div BlockUnits]
            i == u % BlockUnits
        IN /\ m.type # "empty"
           /\ SharedLeaf \/ ~Torn(m)
           /\ {Holds(m, i, ssd, pm), Holds(m, i, ssdSafe, pmSafe)} \subseteq data[u] \cup InFlight(u)

Slots(ix) == [b \in Blocks |-> [ix[b] EXCEPT !.flag = FALSE]]

\* Free space is exactly what nothing refers to: nothing free is mapped, in memory or on
\* PMEM, and when no request runs nothing has leaked and memory agrees with PMEM (but for
\* the flags of a leaf that requests have changed together)
SpaceExact ==
    /\ freeP \cap (UsedPages(index) \cup UsedPages(cindex)) = {}
    /\ freeS \cap (UsedSsd(index) \cup UsedSsd(cindex)) = {}
    /\ \A b, c \in Blocks : b # c => PagesOf(index[b]) \cap PagesOf(index[c]) = {}
                                     /\ SsdOf(index[b]) \cap SsdOf(index[c]) = {}
    /\ Quiet => /\ Slots(index) = Slots(cindex) /\ size = csize
                /\ SharedLeaf \/ index = cindex
                /\ freeP = PageIds \ UsedPages(index) /\ freeS = SsdIds \ UsedSsd(index)

\* What the caches in front of a file say (the extents that reads and stable overwrites
\* trust, the inode copy that fstat answers from) agrees with the file
CachesAgree == TypeOK /\ ExtentsAgree /\ StatFresh
=============================================================================
