----------------------------- MODULE FileIndex -----------------------------
(***************************************************************************)
(* The index of a file (LibFS/index.c) and its use by a write, a migration *)
(* and a deletion (kfs_data_plan.c, migrate.c, lib_inode.c): a radix tree  *)
(* over block numbers whose nodes skip the layers in which every key is    *)
(* zero; a leaf's entries are SSD blocks or virtual nodes, which hold PMEM *)
(* pages and, for a strata node, also an SSD block and page metadata.      *)
(*                                                                         *)
(* The tree is changed in memory (meta_cache.c), and each change is logged *)
(* for the journal with the image it has at that moment.  A commit makes   *)
(* the logged images durable; an abort reads what was logged back from     *)
(* PMEM.  One transaction is under way at a time: what becomes of two that *)
(* change one node is Journal's question.                                  *)
(***************************************************************************)
EXTENDS Integers, Sequences, FiniteSets, TLC

CONSTANTS Layers,      \* KEY_LEN / LAYER_BITWIDTH
          Width,       \* NODE_SON_CAPACITY
          Slots,       \* VLN_SLOT_SUM
          Supplies,    \* how many nodes, virtual nodes, pages and SSD blocks there are
          Lengths,     \* bound: how many units a write may have
          Backs,       \* bound: how far before the end a write or truncation may begin
          MaxOps       \* bound: transactions

VARIABLES
  mem, disk,   \* <<node, field>> -> value, in the metadata cache and in PMEM
  log,         \* the changes logged by the transaction, likewise
  pool,        \* what is free, by kind
  taken, freed,\* allocations and deferred releases of the transaction
  root,        \* the inode's i_idxroot
  size,        \* the file's size in units of half a page
  doing,       \* the transaction under way and, for a write, its end
  phase,       \* "gone", "idle", "open", "failed", "dead"
  torn,        \* a split failed half-way (see TreeRight)
  committed,   \* the mapping at the last commit
  ops

vars == <<mem, disk, log, pool, taken, freed, root, size, doing, phase, torn, committed, ops>>

EMPTY == -1
\* the fields of a node beside its sons 0..Width-1, those of a root and of a virtual node
TYPE == -1
ZIPPED == -2
FLAGS == -3
ENTRY == 0
MAXBLK == 1
SSD == -2
MAXPOS == -3
IDX_ROOT == 0
NOT_LEAF == 1
LEAF == 2
VIR_LEAF == 3
STRATA == 4
GARBAGE == 9

Keys == 0..(Width^Layers - 1)
Digit(key, layer) == (key \div Width^(Layers - layer)) % Width
Smallest(S) == CHOOSE x \in S : \A y \in S : x <= y

\* virtual nodes are numbered apart from the nodes; page i and its metadata are fields
Vir(n) == 1000 + n
Page(i) == i
Meta(i) == Slots + i
NodeFields == {TYPE, ZIPPED, FLAGS} \cup 0..(Width - 1)
VirFields == {TYPE, SSD, MAXPOS} \cup 0..(2 * Slots - 1)

----------------------------------------------------------------------------
(***************************************************************************)
(* The operations thread a record s through their steps: the memory, the   *)
(* log, what is free, what was allocated and released.  After an error     *)
(* (~s.ok) the remaining steps are not taken.                              *)
(***************************************************************************)
Fail(s) == [s EXCEPT !.ok = FALSE]
Get(s, id, field) == s.mem[<<id, field>>]
Set(s, id, field, value) == IF s.ok THEN [s EXCEPT !.mem[<<id, field>>] = value] ELSE s
write_change_log(s, id, fields) ==
  IF s.ok THEN [s EXCEPT !.log = [a \in {id} \X fields |-> s.mem[a]] @@ @] ELSE s

(* one of the free identifiers, ENOSPC without any *)
TakeOf(s, kind, id) ==
  [s EXCEPT !.pool[kind] = @ \ {id}, !.taken = @ \cup {<<kind, id>>}, !.new = id]
require(s, kind) ==
  IF ~s.ok THEN s ELSE IF s.pool[kind] = {} THEN Fail(s) ELSE TakeOf(s, kind, Smallest(s.pool[kind]))

RECURSIVE require_ids(_, _, _)
Got(s, kind, n) ==
  IF ~s.ok THEN s ELSE require_ids([s EXCEPT !.ids = Append(@, s.new)], kind, n - 1)
require_ids(s, kind, n) == IF n = 0 THEN s ELSE Got(require(s, kind), kind, n)

(* the node just allocated *)
node_init(s, zipped, type) ==
  IF ~s.ok THEN s
  ELSE [s EXCEPT !.mem = [a \in {s.new} \X NodeFields |->
          CASE a[2] = TYPE -> type [] a[2] = ZIPPED -> zipped [] a[2] = FLAGS -> {} [] OTHER -> EMPTY] @@ @]
vir_node_init(s, type) ==
  IF ~s.ok THEN s
  ELSE [s EXCEPT !.mem = [a \in {Vir(s.new)} \X VirFields |->
          CASE a[2] = TYPE -> type [] a[2] = MAXPOS -> 0 [] OTHER -> EMPTY] @@ @]
LogNew(s) == write_change_log(s, s.new, NodeFields)

(* the checks of a node against the layers that are left *)
Sane(s, id, searched) ==
  /\ Get(s, id, TYPE) \in {LEAF, NOT_LEAF}
  /\ Get(s, id, ZIPPED) \in 0..(Layers - 1)
  /\ Get(s, id, ZIPPED) + (IF Get(s, id, TYPE) = LEAF THEN 0 ELSE 1) <= Layers - searched

(* the zipped layers of the key at which it is not zero *)
Branching(s, id, searched, key) ==
  {i \in 1..Get(s, id, ZIPPED) : Digit(key, searched + i) # 0}

RECURSIVE search_leaf_node(_, _, _, _)
Search(s, id, below, key) == search_leaf_node(s, Get(s, id, Digit(key, below)), below, key)
search_leaf_node(s, id, searched, key) ==
  IF id = EMPTY THEN EMPTY
  ELSE IF ~Sane(s, id, searched) \/ Branching(s, id, searched, key) # {} THEN EMPTY
  ELSE IF Get(s, id, TYPE) = LEAF THEN id
  ELSE Search(s, id, searched + Get(s, id, ZIPPED) + 1, key)

RECURSIVE insert_node_into_index(_, _, _, _, _, _)

(* below a node: the son for the key, made if there is none *)
HangNew(s, id, i) == write_change_log(Set(s, id, i, s.new), id, {i})
AddSon(s, id, i, below) ==
  IF Get(s, id, i) # EMPTY THEN s
  ELSE HangNew(LogNew(node_init(require(s, "node"), 0,
                                IF below = Layers - 1 THEN LEAF ELSE NOT_LEAF)), id, i)
LogSon(s, id, i) == IF s.modified THEN write_change_log(s, id, {i}) ELSE s
IntoSon(s, id, i, below, key) ==
  IF ~s.ok THEN s
  ELSE [LogSon(insert_node_into_index(s, Get(s, id, i), id, i, below, key), id, i)
          EXCEPT !.modified = FALSE]
Descend(s, id, below, key) ==
  IntoSon(AddSon(s, id, Digit(key, below), below), id, Digit(key, below), below, key)

\* Mistake: the old subtree goes below the branch of the new key.
OldBranchNew(key, layer) == Digit(key, layer)

(* "The existing compressed subtree represents the all-zero prefix." *)
OldBranch(key, layer) == 0

\* Mistake: the shortened node is not logged.
ShortenUnlogged(s, id, zipped) == Set(s, id, ZIPPED, zipped)

(* a node is put above the one whose zipped layers the key does not share *)
Shorten(s, id, zipped) == write_change_log(Set(s, id, ZIPPED, zipped), id, {ZIPPED})
Above(s, key, layer, id) == LogNew(Set(s, s.new, OldBranch(key, layer), id))
Modified(s) == IF s.ok THEN [s EXCEPT !.modified = TRUE] ELSE [s EXCEPT !.torn = TRUE]
Beside(s, father, slot, searched, key) ==
  IF ~s.ok THEN s
  ELSE Modified(insert_node_into_index(Set(s, father, slot, s.new), s.new, s.new, 0, searched, key))
Split(s, id, father, slot, searched, key, allow) ==
  Beside(Shorten(Above(node_init(require(s, "node"), allow, NOT_LEAF), key, searched + allow + 1, id),
                 id, Get(s, id, ZIPPED) - allow - 1),
         father, slot, searched, key)

insert_node_into_index(s, id, father, slot, searched, key) ==
  IF ~Sane(s, id, searched) THEN Fail(s)
  ELSE IF Branching(s, id, searched, key) # {}
  THEN Split(s, id, father, slot, searched, key, Smallest(Branching(s, id, searched, key)) - 1)
  ELSE IF Get(s, id, TYPE) = LEAF THEN s
  ELSE Descend(s, id, searched + Get(s, id, ZIPPED) + 1, key)

(* the entry node is made with the first block *)
NameEntry(s, rt) == write_change_log(Set(s, rt, ENTRY, s.new), rt, {ENTRY})
check_root_id(s, rt) ==
  IF ~s.ok THEN s
  ELSE IF Get(s, rt, ENTRY) # EMPTY THEN s
  ELSE LogNew(node_init(NameEntry(require(s, "node"), rt), Layers - 1, LEAF))

Leaf(s, rt, key) == search_leaf_node(s, Get(s, rt, ENTRY), 0, key)

(* the state with a leaf for the key, if there is room *)
Found(s, rt, key) == IF s.ok THEN IF Leaf(s, rt, key) = EMPTY THEN Fail(s) ELSE s ELSE s
get_and_add_leafnode(s, rt, key) ==
  IF ~s.ok THEN s
  ELSE IF Leaf(s, rt, key) # EMPTY THEN s
  ELSE Found(LogSon(insert_node_into_index([s EXCEPT !.modified = FALSE],
                                           Get(s, rt, ENTRY), rt, ENTRY, 0, key), rt, ENTRY), rt, key)

----------------------------------------------------------------------------
Fewer(a, b) == IF a < b THEN a ELSE b
LogMax(s, rt, max) == write_change_log(Set(s, rt, MAXBLK, max), rt, {MAXBLK})

(* the blocks go into the entries of one leaf after another, which must be free *)
PutBlocks(s, leaf, S, blocks) ==
  IF \E i \in S : Get(s, leaf, i) # EMPTY THEN Fail(s)
  ELSE write_change_log([s EXCEPT !.mem = [a \in {leaf} \X S |-> blocks[a[2] - Smallest(S) + 1]] @@ @],
                        leaf, S)
RECURSIVE FillLeaves(_, _, _, _)
FillLeaf(s, rt, at, blocks, n) ==
  IF ~s.ok THEN s
  ELSE FillLeaves(PutBlocks(s, Leaf(s, rt, at), (at % Width)..((at % Width) + n - 1), blocks),
                  rt, at + n, SubSeq(blocks, n + 1, Len(blocks)))
FillLeaves(s, rt, at, blocks) ==
  IF ~s.ok \/ blocks = <<>> THEN s
  ELSE FillLeaf(get_and_add_leafnode(s, rt, at), rt, at, blocks, Fewer(Len(blocks), Width - (at % Width)))

AppendSsd(s, rt) ==
  IF ~s.ok THEN s
  ELSE IF Get(s, rt, MAXBLK) + Len(s.ids) \notin Keys THEN Fail(s)
  ELSE LogMax(FillLeaves(s, rt, Get(s, rt, MAXBLK) + 1, s.ids), rt, Get(s, rt, MAXBLK) + Len(s.ids))
append_ssd_blocks(s, rt) == AppendSsd(check_root_id(s, rt), rt)

IsVir(s, leaf, pos) == pos \in Get(s, leaf, FLAGS)
MakeVir(s, leaf, pos) ==
  write_change_log(Set(Set(s, leaf, pos, Vir(s.new)), leaf, FLAGS, Get(s, leaf, FLAGS) \cup {pos}),
                   leaf, {FLAGS, pos})

(* pages go behind the last one of a virtual node; those left over into the next block *)
RECURSIVE FillBlocks(_, _, _, _)
PutPages(s, v, pages, max, n) ==
  write_change_log(
    Set([s EXCEPT !.mem = [a \in {v} \X (max..(max + n - 1)) |-> pages[a[2] - max + 1]] @@ @],
        v, MAXPOS, max + n), v, VirFields)
FillVir(s, rt, at, v, pages, n) ==
  IF n < Len(pages)
  THEN FillBlocks(PutPages(s, v, pages, Get(s, v, MAXPOS), n), rt, at + 1, SubSeq(pages, n + 1, Len(pages)))
  ELSE LogMax(PutPages(s, v, pages, Get(s, v, MAXPOS), n), rt, at)
VirAt(s, leaf, pos) ==
  IF Get(s, leaf, pos) = EMPTY THEN MakeVir(vir_node_init(require(s, "vir"), VIR_LEAF), leaf, pos)
  ELSE IF ~IsVir(s, leaf, pos) THEN Fail(s)
  ELSE IF Get(s, Get(s, leaf, pos), TYPE) # VIR_LEAF THEN Fail(s) ELSE s
IntoVir(s, rt, at, leaf, pages) ==
  IF ~s.ok THEN s
  ELSE FillVir(s, rt, at, Get(s, leaf, at % Width), pages,
               Fewer(Len(pages), Slots - Get(s, Get(s, leaf, at % Width), MAXPOS)))
IntoLeaf(s, rt, at, pages) ==
  IF ~s.ok THEN s
  ELSE IntoVir(VirAt(s, Leaf(s, rt, at), at % Width), rt, at, Leaf(s, rt, at), pages)
FillBlocks(s, rt, at, pages) == IntoLeaf(get_and_add_leafnode(s, rt, at), rt, at, pages)

\* Mistake: the pages always begin in the block behind the last one.
FirstForPagesBehind(s, rt, max) == max + 1

(* append_nvm_pages begins in the last block, if that is not an SSD block *)
FirstForPages(s, rt, max) ==
  IF max = -1 THEN 0
  ELSE IF IsVir(s, Leaf(s, rt, max), max % Width) THEN max ELSE max + 1
AppendPages(s, rt) ==
  IF ~s.ok THEN s ELSE FillBlocks(s, rt, FirstForPages(s, rt, Get(s, rt, MAXBLK)), s.ids)
append_nvm_pages(s, rt) == AppendPages(check_root_id(s, rt), rt)

(* what the index says of a block *)
NoBlock == [kind |-> "none", ssd |-> EMPTY, page |-> <<>>, meta |-> <<>>]
Pages(s, v) == [i \in 1..Slots |-> Get(s, v, Page(i - 1))]
VirInfo(s, v) ==
  IF Get(s, v, TYPE) # STRATA THEN [NoBlock EXCEPT !.kind = "virtual", !.page = Pages(s, v)]
  ELSE [kind |-> "strata", ssd |-> Get(s, v, SSD), page |-> Pages(s, v),
        meta |-> [i \in 1..Slots |-> Get(s, v, Meta(i - 1))]]
LeafInfo(s, leaf, pos) ==
  IF leaf = EMPTY THEN NoBlock
  ELSE IF Get(s, leaf, pos) = EMPTY THEN NoBlock
  ELSE IF IsVir(s, leaf, pos) THEN VirInfo(s, Get(s, leaf, pos))
  ELSE [NoBlock EXCEPT !.kind = "ssd", !.ssd = Get(s, leaf, pos)]
query_offset_info(s, rt, key) == LeafInfo(s, Leaf(s, rt, key), key % Width)

----------------------------------------------------------------------------
(***************************************************************************)
(* The blocks of a write that ends at unit end; a page has two units.      *)
(***************************************************************************)
Units == 2 * Slots
LastBlock(end) == (end - 1) \div Units
LastPages(end) == ((end - 1) % Units) \div 2 + 1
WholeBlock(end) == end % Units = 0
Fresh(s) == [s EXCEPT !.ids = <<>>]

SsdPart(s, rt, n) == IF n = 0 THEN s ELSE append_ssd_blocks(require_ids(Fresh(s), "ssd", n), rt)
PagePart(s, rt, n) == IF ~s.ok THEN s ELSE append_nvm_pages(require_ids(Fresh(s), "page", n), rt)
append_blocks(s, rt, first, end) ==
  IF WholeBlock(end) THEN SsdPart(s, rt, LastBlock(end) - first + 1)
  ELSE PagePart(SsdPart(s, rt, LastBlock(end) - first), rt, LastPages(end))

(* the pages that a virtual block lacks are appended one by one *)
RECURSIVE AddPages(_, _, _)
AddPages(s, rt, n) == IF n = 0 \/ ~s.ok THEN s ELSE AddPages(PagePart(s, rt, 1), rt, n - 1)
Lacking(q, required) == Cardinality({i \in 1..required : q.page[i] = EMPTY})
OnBlock(s, rt, block, end, q) ==
  IF q.kind # "virtual" THEN s
  ELSE AddPages(s, rt, Lacking(q, IF block = LastBlock(end) THEN LastPages(end) ELSE Slots))

RECURSIVE acquire_op_blk_info(_, _, _, _)
acquire_op_blk_info(s, rt, block, end) ==
  IF ~s.ok \/ block > LastBlock(end) THEN s
  ELSE IF query_offset_info(s, rt, block).kind = "none" THEN append_blocks(s, rt, block, end)
  ELSE acquire_op_blk_info(OnBlock(s, rt, block, end, query_offset_info(s, rt, block)), rt, block + 1, end)

(* an SSD block becomes the bottom of a new strata node *)
StrataOver(s, block) ==
  write_change_log(Set(s, Vir(s.new), SSD, block), Vir(s.new), VirFields)
insert_strata_node(s, leaf, pos) ==
  MakeVir(StrataOver(vir_node_init(require(s, "vir"), STRATA), Get(s, leaf, pos)), leaf, pos)

PutStrata(s, v, i, page, meta) ==
  IF ~s.ok THEN s
  ELSE IF Get(s, v, TYPE) # STRATA \/ Get(s, v, Page(i)) # EMPTY THEN Fail(s)
  ELSE write_change_log(Set(Set(s, v, Page(i), page), v, Meta(i), meta), v, {Page(i), Meta(i)})
InStrata(s, leaf, pos, i, page, meta) == PutStrata(s, Get(s, leaf, pos), i, page, meta)
insert_strata_page_and_metabuf(s, leaf, pos, i, page, meta) ==
  InStrata(IF IsVir(s, leaf, pos) THEN s ELSE insert_strata_node(s, leaf, pos),
           leaf, pos, i, page, meta)

(* ids holds the pages and then as many pieces of metadata *)
RECURSIVE InsertAll(_, _, _, _, _)
InsertAll(s, leaf, pos, missing, ids) ==
  IF missing = {} \/ ~s.ok THEN s
  ELSE InsertAll(insert_strata_page_and_metabuf(s, leaf, pos, Smallest(missing), Head(ids),
                                                ids[Cardinality(missing) + 1]),
                 leaf, pos, missing \ {Smallest(missing)},
                 Tail(SubSeq(ids, 1, Cardinality(missing))) \o SubSeq(ids, Cardinality(missing) + 2, Len(ids)))
Inserted(s, rt, key, missing) ==
  IF ~s.ok THEN s ELSE InsertAll(s, Leaf(s, rt, key), key % Width, missing, s.ids)
Missing(q, touched) == {i \in touched : IF q.kind = "ssd" THEN TRUE ELSE q.page[i + 1] = EMPTY}
StrataFor(s, rt, key, missing) ==
  Inserted(require_ids(require_ids(Fresh(s), "page", Cardinality(missing)), "meta", Cardinality(missing)),
           rt, key, missing)

(* a partial write of an SSD or strata block touches some pages *)
create_strata_structure(s, rt, key, touched) ==
  StrataFor(s, rt, key, Missing(query_offset_info(s, rt, key), touched))

(* everything under a node *)
Present(s, v, fields) == {Get(s, v, f) : f \in fields} \ {EMPTY}
\* Mistake: only the first page is released with its node.
VirSpaceFirst(s, v) == {<<"page", Get(s, v, Page(0))>>, <<"vir", v - Vir(0)>>}

VirSpace(s, v) == {<<"page", g>> : g \in Present(s, v, 0..(Slots - 1))} \cup {<<"vir", v - Vir(0)>>}
StrataSpace(s, v) ==
  IF Get(s, v, TYPE) # STRATA THEN {}
  ELSE {<<"meta", g>> : g \in Present(s, v, Slots..(2 * Slots - 1))} \cup {<<"ssd", Get(s, v, SSD)>>}
LeafSpace(s, id, i) ==
  IF Get(s, id, i) = EMPTY THEN {}
  ELSE IF IsVir(s, id, i) THEN VirSpace(s, Get(s, id, i)) \cup StrataSpace(s, Get(s, id, i))
  ELSE {<<"ssd", Get(s, id, i)>>}

RECURSIVE delete_all_index_operation(_, _)
delete_all_index_operation(s, id) ==
  IF id = EMPTY THEN {}
  ELSE {<<"node", id>>} \cup
       UNION {IF Get(s, id, TYPE) = LEAF THEN LeafSpace(s, id, i)
              ELSE delete_all_index_operation(s, Get(s, id, i)) : i \in 0..(Width - 1)}
delete_all_index(s, rt) == {<<"node", rt>>} \cup delete_all_index_operation(s, Get(s, rt, ENTRY))

(* the migration's remap: the pages and the virtual node are released with the commit *)
Remap(s, leaf, pos, block) ==
  write_change_log(Set(Set(s, leaf, pos, block), leaf, FLAGS, Get(s, leaf, FLAGS) \ {pos}),
                   leaf, {FLAGS, pos})
Freeing(s, space) == [s EXCEPT !.freed = @ \cup space]
change_virnd_to_ssdblk(s, leaf, pos) ==
  Freeing(Remap(s, leaf, pos, s.new), VirSpace(s, Get(s, leaf, pos)))

----------------------------------------------------------------------------
Kinds == {"node", "vir", "page", "meta", "ssd"}
Garbage(supply) ==
  [a \in (1..supply["node"]) \X NodeFields \cup {Vir(n) : n \in 1..supply["vir"]} \X VirFields
     |-> GARBAGE]
Whole(supply) == [k \in Kinds |-> 1..supply[k]]

Now == [mem |-> mem, log |-> log, pool |-> pool, taken |-> taken, freed |-> freed,
        new |-> EMPTY, ids |-> <<>>, modified |-> FALSE, ok |-> TRUE, torn |-> torn]
Map(m, rt) == [k \in Keys |-> IF rt = EMPTY THEN NoBlock ELSE query_offset_info([mem |-> m], rt, k)]

(* mkfs makes the root directory's index with one page *)
Rooted(s, id, entry, max) == Set(Set(Set(s, id, TYPE, IDX_ROOT), id, ENTRY, entry), id, MAXBLK, max)
WithPage(s) ==
  MakeVir(Set(Set(vir_node_init(require(require(s, "page"), "vir"), VIR_LEAF), Vir(1), Page(0), 1),
              Vir(1), MAXPOS, 1), 2, 0)
create_index_with_page(s) ==
  Rooted(WithPage(node_init(require(require(s, "node"), "node"), Layers - 1, LEAF)), 1, 2, 0)

Blank(supply) ==
  [mem |-> Garbage(supply), log |-> <<>>, pool |-> Whole(supply), taken |-> {}, new |-> EMPTY, ok |-> TRUE]
Starts(s, rt, units) ==
  /\ mem = s.mem /\ disk = s.mem /\ pool = s.pool
  /\ root = rt /\ size = units
  /\ phase = IF rt = EMPTY THEN "gone" ELSE "idle"
  /\ committed = Map(s.mem, rt)
Init ==
  /\ \E supply \in Supplies : \/ Starts(Blank(supply), EMPTY, 0)
                              \/ Starts(create_index_with_page(Blank(supply)), 1, 1)
  /\ log = <<>> /\ taken = {} /\ freed = {} /\ torn = FALSE /\ ops = 0
  /\ doing = [kind |-> "none", end |-> 0]

Begin(kind, end, s) ==
  /\ ops < MaxOps
  /\ ops' = ops + 1
  /\ doing' = [kind |-> kind, end |-> end]
  /\ mem' = s.mem /\ log' = s.log /\ pool' = s.pool
  /\ taken' = s.taken /\ freed' = s.freed /\ torn' = s.torn
  /\ phase' = IF s.ok THEN "open" ELSE "failed"
  /\ UNCHANGED <<disk, size, committed>>

CreateIndex(s, rt) ==
  /\ root' = rt
  /\ Begin("create", 0, write_change_log(Rooted(s, rt, EMPTY, -1), rt, {TYPE, ENTRY, MAXBLK}))
create_index ==
  /\ phase = "gone" /\ pool["node"] # {}
  /\ \E s \in {require(Now, "node")} : CreateIndex(s, s.new)

(* the part of a block that a write from off to end covers *)
Low(b, off) == IF off > b * Units THEN off - b * Units ELSE 0
High(b, end) == IF end < (b + 1) * Units THEN end - b * Units ELSE Units
Partial(b, off, end) == Low(b, off) # 0 \/ High(b, end) # Units
Touched(b, off, end) == (Low(b, off) \div 2)..((High(b, end) - 1) \div 2)

(* the loop of write_unlocked over its blocks, after they are prepared *)
RECURSIVE EnsureStrata(_, _, _, _, _)
EnsureStrata(s, rt, b, off, end) ==
  IF ~s.ok \/ b > LastBlock(end) THEN s
  ELSE EnsureStrata(IF query_offset_info(s, rt, b).kind \in {"ssd", "strata"} /\ Partial(b, off, end)
                    THEN create_strata_structure(s, rt, b, Touched(b, off, end)) ELSE s,
                    rt, b + 1, off, end)

(* an overwrite that changes no mapping has no transaction *)
Stable(off, end) ==
  /\ end <= size
  /\ \A b \in (off \div Units)..LastBlock(end) :
       \/ committed[b].kind = "virtual"
       \/ committed[b].kind = "ssd" /\ (~Partial(b, off, end) \/ end - off > Units)

write_unlocked(off, end) ==
  /\ phase = "idle" /\ off <= size /\ LastBlock(end) \in Keys /\ ~Stable(off, end)
  /\ \E s \in {acquire_op_blk_info(Now, root, off \div Units, end)} :
     \E t \in {EnsureStrata(s, root, off \div Units, off, end)} : Begin("write", end, t)
  /\ UNCHANGED root

Full(b) == committed[b].kind = "virtual" /\ \A i \in 1..Slots : committed[b].page[i] # EMPTY

migrate(b) ==
  /\ phase = "idle" /\ Full(b) /\ pool["ssd"] # {}
  /\ \E s \in {require(Now, "ssd")} :
       Begin("migrate", b, change_virnd_to_ssdblk(s, Leaf(s, root, b), b % Width))
  /\ UNCHANGED root

delete_inode ==
  /\ phase = "idle"
  /\ Begin("delete", 0, [Now EXCEPT !.freed = delete_all_index(Now, root)])
  /\ UNCHANGED root

(* a truncation keeps the blocks *)
truncate(n) ==
  /\ phase = "idle" /\ n < size /\ ops < MaxOps
  /\ size' = n /\ ops' = ops + 1
  /\ UNCHANGED <<mem, disk, log, pool, taken, freed, root, doing, phase, torn, committed>>

Returned(S) == [k \in Kinds |-> pool[k] \cup {x[2] : x \in {y \in S : y[1] = k}}]
Close(S, gone) ==
  /\ pool' = Returned(S)
  /\ root' = IF gone THEN EMPTY ELSE root
  /\ phase' = IF torn THEN "dead" ELSE IF gone THEN "gone" ELSE "idle"
  /\ log' = <<>> /\ taken' = {} /\ freed' = {}
  /\ doing' = [kind |-> "none", end |-> 0]
  /\ UNCHANGED <<torn, ops>>

Commit ==
  /\ phase = "open"
  /\ disk' = log @@ disk
  /\ Close(freed, doing.kind = "delete")
  /\ size' = IF doing.kind \in {"create", "delete"} THEN 0
             ELSE IF doing.kind = "write" /\ doing.end > size THEN doing.end ELSE size
  /\ committed' = Map(mem, root')
  /\ UNCHANGED mem

\* Mistake: an abort leaves the cached nodes as the transaction made them.
RestoredNot == mem

(* what was logged is read back from PMEM *)
Restored == [a \in DOMAIN log |-> disk[a]] @@ mem

Abort ==
  /\ phase \in {"open", "failed"}
  /\ mem' = Restored
  /\ Close(taken, doing.kind = "create")
  /\ UNCHANGED <<disk, size, committed>>

Next ==
  \/ create_index \/ delete_inode \/ Commit \/ Abort
  \/ \E d \in Backs, n \in Lengths : d <= size /\ write_unlocked(size - d, size - d + n)
  \/ \E b \in Keys : migrate(b)
  \/ \E d \in Backs : d <= size /\ truncate(size - d)

Spec == Init /\ [][Next]_vars

----------------------------------------------------------------------------
Between == phase \in {"idle", "gone"}
Mapped(k) == committed[k].kind # "none"

\* the blocks of a mapping use nothing twice, and together just what is allocated
References(kind) ==
  {<<k, i>> \in Keys \X (0..Slots) :
     CASE kind = "ssd" -> i = 0 /\ committed[k].ssd # EMPTY
       [] kind = "page" -> i \in DOMAIN committed[k].page /\ committed[k].page[i] # EMPTY
       [] OTHER -> i \in DOMAIN committed[k].meta /\ committed[k].meta[i] # EMPTY}
Referred(kind) ==
  {CASE kind = "ssd" -> committed[r[1]].ssd [] kind = "page" -> committed[r[1]].page[r[2]]
     [] OTHER -> committed[r[1]].meta[r[2]] : r \in References(kind)}
Owned == IF root = EMPTY THEN {} ELSE delete_all_index([mem |-> mem], root)
OwnedOf(kind) == {x[2] : x \in {y \in Owned : y[1] = kind}}
Accounted(supply) ==
  /\ \A k \in Kinds : pool[k] \cap OwnedOf(k) = {} /\ pool[k] \cup OwnedOf(k) = 1..supply[k]
  /\ \A k \in {"ssd", "page", "meta"} :
       Referred(k) = OwnedOf(k) /\ Cardinality(References(k)) = Cardinality(OwnedOf(k))

\* a block keeps what it had; an SSD block may become the bottom of strata
Kept(old, new) ==
  \/ old.kind = "none"
  \/ /\ new.kind \in (IF old.kind = "ssd" THEN {"ssd", "strata"} ELSE {old.kind})
     /\ new.ssd = old.ssd
     /\ \A i \in DOMAIN old.page : old.page[i] # EMPTY => new.page[i] = old.page[i]

\* Between transactions the index in the cache and the one in PMEM give every block the
\* same mapping, that of the last commit: each change of a node is logged, in an order in
\* which later images win, and an abort restores them (insert_node_into_index,
\* orchfs_log_transaction_abort).  The file's blocks are contiguous and every page below
\* its size is mapped, for any sequence of writes, truncations and migrations; what is
\* allocated is exactly what the tree refers to, once each, so a deletion frees it all; a
\* write under way keeps the blocks there were, and fails only for want of space or
\* because the last block is a strata one.  A split that fails half-way is left out: the
\* father's entry was changed but not logged.
TreeRight ==
  ~torn =>
    /\ Between => /\ Map(mem, root) = committed /\ Map(disk, root) = committed
                  /\ \E supply \in Supplies : Accounted(supply)
                  /\ \A k \in Keys : Mapped(k) <=> root # EMPTY /\ k <= mem[<<root, MAXBLK>>]
                  /\ \A u \in 0..(size - 1) :
                       LET b == committed[u \div Units] IN
                       \/ b.kind \in {"ssd", "strata"}
                       \/ b.kind = "virtual" /\ b.page[(u % Units) \div 2 + 1] # EMPTY
    /\ phase = "open" /\ doing.kind = "write" =>
         \A k \in Keys : Kept(committed[k], Map(mem, root)[k])
    /\ phase = "failed" =>
         \/ \E k \in Kinds : pool[k] = {}
         \/ \E k \in Keys : committed[k].kind = "strata" /\ \A j \in Keys : j > k => ~Mapped(j)
=============================================================================
