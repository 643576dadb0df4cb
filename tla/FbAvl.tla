-------------------------------- MODULE FbAvl --------------------------------
(***************************************************************************)
(* The AVL tree in which filebench keeps the entries of a fileset          *)
(* (filebench/fb_avl.c).  The nodes are embedded in the caller's objects,  *)
(* so the same node is inserted and removed again and again and its key    *)
(* belongs to the caller.  A tree is its root, its node count and, for     *)
(* every node, the two children, the parent, the side of the parent the    *)
(* node hangs on and the balance (height of the right subtree minus that   *)
(* of the left one).  The caller holds the lock of the tree, so every      *)
(* operation is one step, except avl_destroy_nodes, which hands out one    *)
(* node per call and lets the caller free it before the next.              *)
(***************************************************************************)
EXTENDS Integers, FiniteSets, Sequences, SequencesExt, FiniteSetsExt

CONSTANTS AvlNodes,   \* the objects that may be in the tree, positive integers
          AvlSetups   \* [keys, dismantle]: the keys some of the objects may
                      \* have, and whether the caller ever destroys the tree

VARIABLES avlsetup, \* the setup of this behaviour
          tree,     \* [root, numnodes, child, up, side, bal]
          key,      \* the key of every object; 0 when it is not in the tree
          cookie,   \* avl_destroy_nodes: the place of the next call
          given     \* the nodes avl_destroy_nodes has handed out

avl_vars == <<avlsetup, tree, key, cookie, given>>

NULL == 0
Side == {0, 1}            \* 0 is left (AVL_BEFORE), 1 is right (AVL_AFTER)

(* Where a new node would go: AVL_MKINDEX(node, child). *)
NoCookie == [node |-> NULL, side |-> -1]
LastCookie == [node |-> NULL, side |-> 1]

avl_create == [root |-> NULL, numnodes |-> 0,
               child |-> [n \in AvlNodes |-> [s \in Side |-> NULL]],
               up |-> [n \in AvlNodes |-> NULL],
               side |-> [n \in AvlNodes |-> 0],
               bal |-> [n \in AvlNodes |-> 0]]

AvlInit ==
  /\ avlsetup \in AvlSetups
  /\ tree = avl_create
  /\ key = [n \in AvlNodes |-> 0]
  /\ cookie = NoCookie
  /\ given = <<>>

(***************************************************************************)
(* Walking the tree.                                                       *)
(***************************************************************************)
RECURSIVE Down(_, _, _)
Down(t, n, s) == IF t.child[n][s] = NULL THEN n ELSE Down(t, t.child[n][s], s)

avl_first(t) == IF t.root = NULL THEN NULL ELSE Down(t, t.root, 0)
avl_last(t)  == IF t.root = NULL THEN NULL ELSE Down(t, t.root, 1)

(* The ancestor reached by going up until the step came from the other side. *)
RECURSIVE Climb(_, _, _)
Climb(t, n, left) ==
  IF t.up[n] = NULL THEN NULL
  ELSE IF t.side[n] = 1 - left THEN t.up[n] ELSE Climb(t, t.up[n], left)

avl_walk(t, n, left) ==
  IF n = NULL THEN NULL
  ELSE IF t.child[n][left] # NULL THEN Down(t, t.child[n][left], 1 - left)
  ELSE Climb(t, n, left)

(* The node whose key is v, and otherwise where it would be inserted. *)
RECURSIVE FindFrom(_, _, _, _)
FindFrom(t, k, v, n) ==
  LET s == IF v < k[n] THEN 0 ELSE 1
  IN IF k[n] = v THEN [found |-> n, where |-> NoCookie]
     ELSE IF t.child[n][s] = NULL
          THEN [found |-> NULL, where |-> [node |-> n, side |-> s]]
     ELSE FindFrom(t, k, v, t.child[n][s])

avl_find(t, k, v) ==
  IF t.root = NULL THEN [found |-> NULL, where |-> [node |-> NULL, side |-> 0]]
  ELSE FindFrom(t, k, v, t.root)

(* The neighbour of a place found empty, in the given direction. *)
avl_nearest(t, where, direction) ==
  IF where.node = NULL THEN NULL
  ELSE IF where.side # direction THEN where.node
  ELSE avl_walk(t, where.node, direction)

(***************************************************************************)
(* Rotation.  The result is the tree and whether the subtree got shorter.  *)
(***************************************************************************)
(* Hang n (possibly nothing) on side s of p, or make it the root. *)
Hang(t, p, s, n) ==
  LET a == IF p = NULL THEN [t EXCEPT !.root = n] ELSE [t EXCEPT !.child[p][s] = n]
  IN IF n = NULL THEN a ELSE [a EXCEPT !.up[n] = p, !.side[n] = s]

(* Case 1: the child leans the same way as the node, or not at all. *)
RotateOnce(t, n, left, heavy) ==
  LET right == 1 - left
      child == t.child[n][left]
      cbal  == t.bal[child] - heavy
      a == Hang(t, t.up[n], t.side[n], child)
      b == Hang(a, n, left, t.child[child][right])
      c == Hang(b, child, right, n)
  IN [tree |-> [c EXCEPT !.bal[n] = -cbal, !.bal[child] = cbal],
      shorter |-> cbal = 0]

(* Case 2: the child leans the other way, and its child comes to the top. *)
RotateTwice(t, n, left, heavy) ==
  LET right  == 1 - left
      child  == t.child[n][left]
      gchild == t.child[child][right]
      a == Hang(t, t.up[n], t.side[n], gchild)
      b == Hang(a, n, left, t.child[gchild][right])
      c == Hang(b, child, right, t.child[gchild][left])
      d == Hang(c, gchild, left, child)
      e == Hang(d, gchild, right, n)
  IN [tree |-> [e EXCEPT !.bal[child] = IF t.bal[gchild] = -heavy THEN heavy ELSE 0,
                         !.bal[n] = IF t.bal[gchild] = heavy THEN -heavy ELSE 0,
                         !.bal[gchild] = 0],
      shorter |-> TRUE]

avl_rotation(t, n, balance) ==
  LET left  == IF balance < 0 THEN 0 ELSE 1
      heavy == IF balance < 0 THEN -1 ELSE 1
  IN IF t.bal[t.child[n][left]] # -heavy THEN RotateOnce(t, n, left, heavy)
     ELSE RotateTwice(t, n, left, heavy)

(***************************************************************************)
(* Insertion.                                                              *)
(***************************************************************************)
child2balance(s) == IF s = 0 THEN -1 ELSE 1

(* Back up from side s of n, which has grown. *)
RECURSIVE Grow(_, _, _)
Grow(t, n, s) ==
  IF n = NULL THEN t
  ELSE LET new == t.bal[n] + child2balance(s)
       IN IF new # 0 /\ t.bal[n] # 0 THEN avl_rotation(t, n, new).tree
          ELSE LET a == [t EXCEPT !.bal[n] = new]
               IN IF new = 0 THEN a ELSE Grow(a, t.up[n], t.side[n])

avl_insert(t, n, where) ==
  LET a == [t EXCEPT !.numnodes = @ + 1, !.child[n] = [s \in Side |-> NULL],
                     !.bal[n] = 0]
  IN Grow(Hang(a, where.node, where.side, n), where.node, where.side)

(* Insert next to a node of the tree, on the given side of it. *)
avl_insert_here(t, n, here, direction) ==
  LET c == t.child[here][direction]
  IN IF c = NULL THEN avl_insert(t, n, [node |-> here, side |-> direction])
     ELSE avl_insert(t, n, [node |-> Down(t, c, 1 - direction),
                            side |-> 1 - direction])

avl_add(t, k, n) ==
  LET f == avl_find(t, k, k[n])
  IN IF f.found # NULL THEN t ELSE avl_insert(t, n, f.where)

(***************************************************************************)
(* Removal.  A node with two children first changes places with its        *)
(* neighbour on the taller side, which has at most one child.              *)
(***************************************************************************)
(* The tree with the names d and n exchanged everywhere. *)
Exchanged(t, d, n) ==
  LET sw(x) == IF x = d THEN n ELSE IF x = n THEN d ELSE x
  IN [t EXCEPT !.root = sw(@),
               !.child = [x \in AvlNodes |-> [s \in Side |-> sw(t.child[sw(x)][s])]],
               !.up = [x \in AvlNodes |-> sw(t.up[sw(x)])],
               !.side = [x \in AvlNodes |-> t.side[sw(x)]],
               !.bal = [x \in AvlNodes |-> t.bal[sw(x)]]]

(* Back up from side s of n, which has become shorter. *)
RECURSIVE Shrink(_, _, _)
Shrink(t, n, s) ==
  IF n = NULL THEN t
  ELSE LET new == t.bal[n] - child2balance(s)
           r == avl_rotation(t, n, new)
       IN IF t.bal[n] = 0 THEN [t EXCEPT !.bal[n] = new]
          ELSE IF new = 0
               THEN Shrink([t EXCEPT !.bal[n] = 0], t.up[n], t.side[n])
          ELSE IF r.shorter THEN Shrink(r.tree, t.up[n], t.side[n])
          ELSE r.tree

(* Mistake: only the parent of the unlinked node is balanced again. *)
UnlinkNearby(t, d) ==
  LET s == IF t.child[d][0] # NULL THEN 0 ELSE 1
      p == t.up[d]
      new == t.bal[p] - child2balance(t.side[d])
      a == Hang([t EXCEPT !.numnodes = @ - 1], p, t.side[d], t.child[d][s])
      b == IF p = NULL THEN a
           ELSE IF new \in {-2, 2} THEN avl_rotation(a, p, new).tree
           ELSE [a EXCEPT !.bal[p] = new]
  IN [b EXCEPT !.child[d] = [x \in Side |-> NULL], !.up[d] = NULL,
               !.side[d] = 0, !.bal[d] = 0]

(* Unlink a node that has at most one child. *)
Unlink(t, d) ==
  LET s == IF t.child[d][0] # NULL THEN 0 ELSE 1
      a == Hang([t EXCEPT !.numnodes = @ - 1], t.up[d], t.side[d], t.child[d][s])
      b == Shrink(a, t.up[d], t.side[d])
  IN [b EXCEPT !.child[d] = [x \in Side |-> NULL], !.up[d] = NULL,
               !.side[d] = 0, !.bal[d] = 0]

avl_remove(t, d) ==
  LET left == IF t.bal[d] = 1 THEN 1 ELSE 0
      next == Down(t, t.child[d][left], 1 - left)
  IN IF \E s \in Side : t.child[d][s] = NULL THEN Unlink(t, d)
     ELSE Unlink(Exchanged(t, d, next), d)

(***************************************************************************)
(* An object whose key the caller has changed in place.                    *)
(***************************************************************************)
AVL_REINSERT(t, k, n) == avl_add(avl_remove(t, n), k, n)

Above(t, k, n) == LET p == avl_walk(t, n, 0) IN p = NULL \/ k[n] >= k[p]
Below(t, k, n) == LET p == avl_walk(t, n, 1) IN p = NULL \/ k[n] <= k[p]

(* avl_update_lt refuses an object that has become larger than the next. *)
avl_update_lt(t, k, n) ==
  IF Below(t, k, n) /\ ~Above(t, k, n) THEN AVL_REINSERT(t, k, n) ELSE t

avl_update_gt(t, k, n) ==
  IF Above(t, k, n) /\ ~Below(t, k, n) THEN AVL_REINSERT(t, k, n) ELSE t

avl_update(t, k, n) ==
  IF ~Above(t, k, n) \/ ~Below(t, k, n) THEN AVL_REINSERT(t, k, n) ELSE t

(***************************************************************************)
(* The calls.  Keys in the tree are distinct, as entry indices are.        *)
(***************************************************************************)
Held == {n \in AvlNodes : key[n] # 0}
Whole == cookie = NoCookie
Unused(v) == \A n \in Held : key[n] # v

AvlAdd(n, v) ==
  /\ Whole
  /\ n \notin Held
  /\ Unused(v)
  /\ key' = [key EXCEPT ![n] = v]
  /\ tree' = avl_add(tree, key', n)
  /\ UNCHANGED <<avlsetup, cookie, given>>

(* The caller knows the neighbour and spares the search. *)
AvlAddHere(n, v, direction) ==
  LET where == avl_find(tree, key, v).where
      here  == avl_nearest(tree, where, 1 - direction)
  IN /\ Whole
     /\ n \notin Held
     /\ Unused(v)
     /\ here # NULL
     /\ key' = [key EXCEPT ![n] = v]
     /\ tree' = avl_insert_here(tree, n, here, direction)
     /\ UNCHANGED <<avlsetup, cookie, given>>

AvlRemove(n) ==
  /\ Whole
  /\ n \in Held
  /\ key' = [key EXCEPT ![n] = 0]
  /\ tree' = avl_remove(tree, n)
  /\ UNCHANGED <<avlsetup, cookie, given>>

AvlUpdate(n, v) ==
  /\ Whole
  /\ n \in Held
  /\ Unused(v)
  /\ key' = [key EXCEPT ![n] = v]
  /\ tree' \in {avl_update(tree, key', n),
                IF v < key[n] THEN avl_update_lt(tree, key', n)
                ELSE avl_update_gt(tree, key', n)}
  /\ UNCHANGED <<avlsetup, cookie, given>>

(* From n, the leftmost of a subtree, to the leaf that is given out first. *)
RightmostSide(t, n) ==
  IF t.child[n][1] = NULL THEN n ELSE t.child[n][1]

HandOut(t, n) ==
  /\ given' = Append(given, n)
  /\ cookie' = IF t.up[n] = NULL THEN LastCookie
               ELSE [node |-> t.up[n], side |-> t.side[n]]

(* One call of avl_destroy_nodes; the caller may then free the node. *)
avl_destroy_nodes ==
  /\ avlsetup.dismantle
  /\ UNCHANGED <<avlsetup, key>>
  /\ \/ /\ cookie = NoCookie
        /\ tree.root # NULL
        /\ HandOut(tree, RightmostSide(tree, avl_first(tree)))
        /\ UNCHANGED tree
     \/ /\ cookie # NoCookie
        /\ cookie.node # NULL
        /\ LET p == cookie.node
               t == [tree EXCEPT !.child[p][cookie.side] = NULL,
                                 !.numnodes = @ - 1]
           IN /\ tree' = t
              /\ IF cookie.side = 1 \/ t.child[p][1] = NULL THEN HandOut(t, p)
                 ELSE HandOut(t, RightmostSide(t, Down(t, t.child[p][1], 0)))

(* The last call finds no parent, empties the tree and returns nothing. *)
DestroyDone ==
  /\ cookie = LastCookie
  /\ tree' = [avl_create EXCEPT !.root = NULL]
  /\ key' = [n \in AvlNodes |-> 0]
  /\ cookie' = NoCookie
  /\ given' = <<>>
  /\ UNCHANGED avlsetup

AvlNext ==
  \/ \E n \in DOMAIN avlsetup.keys : \E v \in avlsetup.keys[n] :
        \/ AvlAdd(n, v)
        \/ AvlUpdate(n, v)
        \/ \E s \in Side : AvlAddHere(n, v, s)
  \/ \E n \in AvlNodes : AvlRemove(n)
  \/ avl_destroy_nodes
  \/ DestroyDone

(***************************************************************************)
(* What a search tree promises.                                            *)
(***************************************************************************)
RECURSIVE Height(_, _)
Height(t, n) ==
  IF n = NULL THEN 0
  ELSE 1 + Max({Height(t, t.child[n][0]), Height(t, t.child[n][1])})

RECURSIVE InOrder(_, _)
InOrder(t, n) ==
  IF n = NULL THEN <<>>
  ELSE InOrder(t, t.child[n][0]) \o <<n>> \o InOrder(t, t.child[n][1])

(* Every link has its back link, and balances say the difference of heights. *)
Linked ==
  \A n \in Held :
     /\ IF tree.up[n] = NULL THEN tree.root = n
        ELSE tree.child[tree.up[n]][tree.side[n]] = n
     /\ tree.bal[n] = Height(tree, tree.child[n][1]) - Height(tree, tree.child[n][0])
     /\ tree.bal[n] \in -1..1

(* The nodes stand in the order of their keys, and the walks, the search and *)
(* the neighbours of a missing key are those of that order.                  *)
Ordered ==
  LET order == InOrder(tree, tree.root)
      at(i) == IF i \in DOMAIN order THEN order[i] ELSE NULL
  IN /\ ToSet(order) = Held
     /\ Len(order) = tree.numnodes
     /\ \A i \in 1..(Len(order) - 1) : key[order[i]] < key[order[i + 1]]
     /\ avl_first(tree) = at(1)
     /\ avl_last(tree) = at(Len(order))
     /\ \A i \in DOMAIN order :
           /\ avl_walk(tree, order[i], 1) = at(i + 1)
           /\ avl_walk(tree, order[i], 0) = at(i - 1)
           /\ avl_find(tree, key, key[order[i]]).found = order[i]
     /\ \A v \in {x \in UNION {avlsetup.keys[n] : n \in DOMAIN avlsetup.keys} : Unused(x)} :
           LET f == avl_find(tree, key, v)
               lower == Cardinality({n \in Held : key[n] < v})
           IN /\ f.found = NULL
              /\ avl_nearest(tree, f.where, 0) = at(lower)
              /\ avl_nearest(tree, f.where, 1) = at(lower + 1)

(* While the nodes are handed out, the one handed out hangs on nothing that  *)
(* is still to come but its parent, no node comes twice, and the last call   *)
(* leaves none behind.                                                       *)
HandedOut ==
  /\ IsInjective(given)
  /\ \A i \in DOMAIN given : \A s \in Side : tree.child[given[i]][s] = NULL
  /\ cookie.node \notin ToSet(given)
  /\ (cookie = LastCookie) => (ToSet(given) = Held)

(* Whatever calls were made, the tree is ordered, balanced and threaded, and *)
(* searches find what was put in; dismantling it hands out every node once.  *)
AvlRight == (Whole => Linked /\ Ordered) /\ HandedOut
==============================================================================
