------------------------------- MODULE RBTree -------------------------------
(***************************************************************************)
(* c-rbtree, the intrusive red-black tree under every registry of the      *)
(* broker.  A node is its own key (the comparison functions order keys).   *)
(* The heap is kept as the library keeps it: child pointers, one parent    *)
(* word that is the parent, the tree (for a root), NULL, or the node       *)
(* itself (unlinked), and the colour flag.  The mirrored halves of the     *)
(* library's cases are one definition with a side as its parameter.        *)
(* Besides the modifications, the module walks the tree with the two       *)
(* iterators under which nodes may be removed: in order, with the current  *)
(* node being unlinked, and the post-order walk that resets nodes without  *)
(* rebalancing.                                                            *)
(***************************************************************************)
EXTENDS Integers, Sequences, FiniteSets, SequencesExt

CONSTANTS Node,     \* the nodes, which are their keys: a set of integers
          MaxWalks  \* walks per behaviour

NullNode == 0
ASSUME NodeAssumption == Node \subseteq Nat \ {NullNode} /\ IsFiniteSet(Node)

Trees == {-1, -2}   \* the addresses of two trees
Sides == {"left", "right"}
Mirror(d) == IF d = "left" THEN "right" ELSE "left"

VARIABLES heap,   \* roots, child pointers, parent words and colours
          walk,   \* the iterator of a loop over a tree
          walks   \* walks begun so far

rbVars == <<heap, walk, walks>>

Unlinked(n) == heap.up[n] = n

-----------------------------------------------------------------------------
(* Accessors and the primitive stores. *)

Kid(h, n, d) == h.kid[n][d]
Parent(h, n) == IF h.up[n] \in Trees THEN NullNode ELSE h.up[n]
IsRed(h, n) == h.red[n]
RedKid(h, n, d) == Kid(h, n, d) # NullNode /\ IsRed(h, Kid(h, n, d))
IsInTree(h, n) == n # NullNode /\ Parent(h, n) # n

Store(h, n, d, x) == [h EXCEPT !.kid[n][d] = x]
SetParent(h, n, p, red) ==
    IF n = NullNode THEN h ELSE [h EXCEPT !.up[n] = p, !.red[n] = red]
KeepColour(h, n, p) ==
    IF n = NullNode THEN h ELSE SetParent(h, n, p, IsRed(h, n))

PopRoot(h, n) == IF h.up[n] \in Trees THEN [h EXCEPT !.up[n] = NullNode] ELSE h
TreeOf(h, n) == IF h.up[n] \in Trees THEN h.up[n] ELSE NullNode
PushRoot(h, n, t) ==
    IF t = NullNode THEN h
    ELSE [(IF n = NullNode THEN h ELSE [h EXCEPT !.up[n] = t])
             EXCEPT !.root[t] = n]

SwapChild(h, old, new) ==
    LET p == Parent(h, old) IN
    IF p = NullNode THEN h
    ELSE Store(h, p, IF Kid(h, p, "left") = old THEN "left" ELSE "right", new)

-----------------------------------------------------------------------------
(* Traversal. *)

RECURSIVE Outmost(_, _, _)
Outmost(h, n, d) ==
    IF n = NullNode \/ Kid(h, n, d) = NullNode THEN n ELSE Outmost(h, Kid(h, n, d), d)

RECURSIVE Deepest(_, _, _)
Deepest(h, n, d) ==
    CASE n = NullNode -> n
      [] n # NullNode /\ Kid(h, n, d) # NullNode -> Deepest(h, Kid(h, n, d), d)
      [] n # NullNode /\ Kid(h, n, d) = NullNode /\ Kid(h, n, Mirror(d)) # NullNode
           -> Deepest(h, Kid(h, n, Mirror(d)), d)
      [] OTHER -> n

RECURSIVE Ascend(_, _, _)
Ascend(h, n, d) ==
    LET p == Parent(h, n) IN
    IF p # NullNode /\ n = Kid(h, p, d) THEN Ascend(h, p, d) ELSE p

Neighbour(h, n, d) ==
    CASE ~IsInTree(h, n) -> NullNode
      [] IsInTree(h, n) /\ Kid(h, n, d) # NullNode
           -> Outmost(h, Kid(h, n, d), Mirror(d))
      [] OTHER -> Ascend(h, n, d)

NextPostorder(h, n) ==
    IF ~IsInTree(h, n) THEN NullNode
    ELSE LET p == Parent(h, n) IN
         IF p # NullNode /\ n = Kid(h, p, "left") /\ Kid(h, p, "right") # NullNode
         THEN Deepest(h, Kid(h, p, "right"), "left") ELSE p

RECURSIVE LeftUncle(_, _)
LeftUncle(h, n) ==
    LET p == Parent(h, n) IN
    IF p = NullNode THEN NullNode
    ELSE IF Kid(h, p, "left") \notin {NullNode, n} THEN Kid(h, p, "left")
    ELSE LeftUncle(h, p)

PrevPostorder(h, n) ==
    CASE ~IsInTree(h, n) -> NullNode
      [] IsInTree(h, n) /\ Kid(h, n, "right") # NullNode -> Kid(h, n, "right")
      [] IsInTree(h, n) /\ Kid(h, n, "right") = NullNode
         /\ Kid(h, n, "left") # NullNode -> Kid(h, n, "left")
      [] OTHER -> LeftUncle(h, n)

FirstNode(h, t) == Outmost(h, h.root[t], "left")
LastNode(h, t) == Outmost(h, h.root[t], "right")
FirstPostorder(h, t) == Deepest(h, h.root[t], "left")
LastPostorder(h, t) == h.root[t]

-----------------------------------------------------------------------------
(* Search: the node with a key, or the parent and the side to link it at. *)

RECURSIVE Search(_, _, _, _, _)
Search(h, k, i, p, d) ==
    IF i = NullNode \/ i = k THEN [node |-> i, parent |-> p, side |-> d]
    ELSE LET e == IF k < i THEN "left" ELSE "right"
         IN  Search(h, k, Kid(h, i, e), i, e)

FindNode(h, t, k) == Search(h, k, h.root[t], NullNode, "left").node
FindSlot(h, t, k) == Search(h, k, h.root[t], NullNode, "left")

-----------------------------------------------------------------------------
(* Insertion. *)

\* A red node under a red parent with a black uncle: at most two rotations.
PaintTerminal(h0, n) ==
    LET p0 == Parent(h0, n)
        g  == Parent(h0, p0)
        gg == Parent(h0, g)
        d  == IF p0 = Kid(h0, g, "left") THEN "left" ELSE "right"
        e  == Mirror(d)
        inner == n = Kid(h0, p0, e)
        x1 == Kid(h0, n, d)
        h1 == IF ~inner THEN h0
              ELSE KeepColour(KeepColour(Store(Store(h0, p0, e, x1), n, d, p0), x1, p0), p0, n)
        p  == IF inner THEN n ELSE p0
        x  == Kid(h1, p, e)
        t  == TreeOf(h1, g)
        h2 == SwapChild(Store(Store(PopRoot(h1, g), g, d, x), p, e, g), g, p)
    IN  PushRoot(SetParent(SetParent(SetParent(h2, x, g, FALSE), p, gg, FALSE), g, p, TRUE), p, t)

\* Recolour towards the root; the result names the node that still needs the
\* rotation, if any.
RECURSIVE PaintPath(_, _)
PaintPath(h, n) ==
    LET p == Parent(h, n) IN
    IF p = NullNode THEN [heap |-> SetParent(h, n, h.up[n], FALSE), at |-> NullNode]
    ELSE IF ~IsRed(h, p) THEN [heap |-> h, at |-> NullNode]
    ELSE LET g == Parent(h, p)
             u == Kid(h, g, IF p = Kid(h, g, "left") THEN "right" ELSE "left")
         IN  IF u = NullNode \/ ~IsRed(h, u) THEN [heap |-> h, at |-> n]
             ELSE PaintPath(SetParent(SetParent(SetParent(h, p, g, FALSE), u, g, FALSE),
                                      g, h.up[g], TRUE), g)

Paint(h, n) ==
    LET r == PaintPath(h, n) IN
    IF r.at = NullNode THEN r.heap ELSE PaintTerminal(r.heap, r.at)

RbnodeLink(h, p, d, n) ==
    Paint(Store([SetParent(h, n, p, TRUE) EXCEPT !.kid[n] = [s \in Sides |-> NullNode]],
                p, d, n), n)

RbtreeAdd(h, t, p, d, n) ==
    IF p # NullNode THEN RbnodeLink(h, p, d, n)
    ELSE Paint(PushRoot([SetParent(h, n, p, TRUE)
                           EXCEPT !.kid[n] = [s \in Sides |-> NullNode]], n, t), n)

-----------------------------------------------------------------------------
(* Removal. *)

RebalanceTerminal(h0, p, previous) ==
    LET d  == IF previous = Kid(h0, p, "left") THEN "left" ELSE "right"
        e  == Mirror(d)
        \* case 2: a red sibling is rotated onto this side
        s0 == Kid(h0, p, e)
        red == IsRed(h0, s0)
        x0 == Kid(h0, s0, d)
        g0 == Parent(h0, p)
        t0 == TreeOf(h0, p)
        r1 == SwapChild(Store(Store(PopRoot(h0, p), p, e, x0), s0, d, p), p, s0)
        h1 == IF ~red THEN h0
              ELSE PushRoot(SetParent(SetParent(SetParent(r1, x0, p, FALSE), s0, g0, FALSE),
                                      p, s0, TRUE), s0, t0)
        s1 == IF red THEN x0 ELSE s0
        outer == RedKid(h1, s1, e)
        y1 == Kid(h1, s1, d)
        \* case 5: the red inner nephew is rotated above the sibling
        x2 == Kid(h1, y1, e)
        r2 == Store(Store(Store(h1, s1, d, x2), y1, e, s1), p, e, y1)
        h2 == IF outer THEN h1 ELSE SetParent(r2, x2, s1, FALSE)
        x  == IF outer THEN Kid(h1, s1, e) ELSE s1
        s  == IF outer THEN s1 ELSE y1
        \* case 6: rotation onto this side, and the colours
        g  == Parent(h2, p)
        t  == TreeOf(h2, p)
        y  == Kid(h2, s, d)
        r3 == SwapChild(Store(Store(PopRoot(h2, p), p, e, y), s, d, p), p, s)
        r4 == KeepColour(SetParent(r3, x, s, FALSE), y, p)
    IN  IF ~outer /\ ~RedKid(h1, s1, d)
        THEN \* cases 3 and 4: the parent is red here
             SetParent(SetParent(h1, s1, p, TRUE), p, Parent(h1, p), FALSE)
        ELSE PushRoot(SetParent(SetParent(r4, s, g, IsRed(r4, p)), p, s, FALSE), s, t)

RECURSIVE RebalancePath(_, _, _)
RebalancePath(h, p, previous) ==
    IF p = NullNode THEN [heap |-> h, at |-> NullNode, previous |-> previous]
    ELSE LET s == Kid(h, p, IF previous = Kid(h, p, "left") THEN "right" ELSE "left")
             h1 == SetParent(h, s, p, TRUE)
         IN  IF IsRed(h, s) \/ RedKid(h, s, "left") \/ RedKid(h, s, "right")
             THEN [heap |-> h, at |-> p, previous |-> previous]
             ELSE IF IsRed(h1, p)
             THEN [heap |-> SetParent(h1, p, Parent(h1, p), FALSE), at |-> NullNode,
                   previous |-> previous]
             ELSE RebalancePath(h1, Parent(h1, p), p)

Rebalance(h, n) ==
    LET r == RebalancePath(h, n, NullNode) IN
    IF r.at = NullNode THEN r.heap ELSE RebalanceTerminal(r.heap, r.at, r.previous)

\* Case 1.3, a node with two children: its successor takes its place.
UnlinkFull(h0, n) ==
    LET t == TreeOf(h0, n)
        r == Kid(h0, n, "right")
        near == Kid(h0, r, "left") = NullNode
        s == IF near THEN r ELSE Outmost(h0, r, "left")
        p == IF near THEN s ELSE Parent(h0, s)
        c == Kid(h0, s, "right")
        h1 == PopRoot(h0, n)
        h2 == IF near THEN h1
              ELSE KeepColour(Store(Store(h1, p, "left", c), s, "right", Kid(h1, n, "right")),
                              r, s)
        h3 == KeepColour(Store(h2, s, "left", Kid(h2, n, "left")), Kid(h2, n, "left"), s)
        next == IF c = NullNode /\ ~IsRed(h3, s) THEN p ELSE NullNode
        h4 == SetParent(h3, c, p, FALSE)
        h5 == SetParent(h4, s, Parent(h4, n), IsRed(h4, n))
        h6 == PushRoot(SwapChild(h5, n, s), s, t)
    IN  IF next = NullNode THEN h6 ELSE Rebalance(h6, next)

UnlinkStale(h, n) ==
    LET t == TreeOf(h, n)
        popped == PopRoot(h, n)
        only == IF Kid(h, n, "right") # NullNode THEN Kid(h, n, "right") ELSE Kid(h, n, "left")
        moved == PushRoot(SetParent(SwapChild(popped, n, only), only, Parent(popped, n), FALSE),
                          only, t)
    IN  IF Kid(h, n, "left") # NullNode /\ Kid(h, n, "right") # NullNode
        THEN UnlinkFull(h, n)
        ELSE IF only = NullNode /\ ~IsRed(h, n) THEN Rebalance(moved, Parent(moved, n))
        ELSE moved

RbnodeInit(h, n) ==
    [h EXCEPT !.up[n] = n, !.red[n] = FALSE, !.kid[n] = [s \in Sides |-> NullNode]]

RbnodeUnlink(h, n) == IF IsInTree(h, n) THEN RbnodeInit(UnlinkStale(h, n), n) ELSE h

-----------------------------------------------------------------------------
(* The library's operations as actions. *)

NoWalk == [kind |-> "none", tree |-> -1, cur |-> NullNode, safe |-> NullNode,
           seen |-> <<>>, all |-> {}]

RBInit ==
    /\ heap = [root |-> [t \in Trees |-> NullNode],
               kid |-> [n \in Node |-> [d \in Sides |-> NullNode]],
               up |-> [n \in Node |-> n],
               red |-> [n \in Node |-> FALSE]]
    /\ walk = NoWalk
    /\ walks = 0

\* c_rbtree_find_slot() and c_rbtree_add(); all nodes go to one tree.
Add(t, n) ==
    /\ walk.kind = "none"
    /\ Unlinked(n)
    /\ \A o \in Trees \ {t} : heap.root[o] = NullNode
    /\ LET slot == FindSlot(heap, t, n) IN
       heap' = RbtreeAdd(heap, t, slot.parent, slot.side, n)
    /\ UNCHANGED <<walk, walks>>

UnlinkNode(n) ==
    /\ walk.kind = "none"
    /\ ~Unlinked(n)
    /\ heap' = RbnodeUnlink(heap, n)
    /\ UNCHANGED <<walk, walks>>

\* c_rbtree_move(): the whole tree, by its root.
Move(from, to) ==
    /\ walk.kind = "none"
    /\ heap.root[to] = NullNode /\ heap.root[from] # NullNode
    /\ LET r == heap.root[from]
           moved == [PopRoot(heap, r) EXCEPT !.root[to] = r, !.root[from] = NullNode]
       IN  heap' = PushRoot(moved, r, to)
    /\ UNCHANGED <<walk, walks>>

\* c_rbtree_for_each_safe() and c_rbtree_for_each_safe_postorder_unlink():
\* the successor is taken before the body runs.
WalkBegin(t, kind) ==
    /\ walk.kind = "none" /\ walks < MaxWalks
    /\ LET cur  == IF kind = "in_order" THEN FirstNode(heap, t) ELSE FirstPostorder(heap, t)
           safe == IF kind = "in_order" THEN Neighbour(heap, cur, "right")
                                        ELSE NextPostorder(heap, cur)
       IN  walk' = [kind |-> kind, tree |-> t, cur |-> cur, safe |-> safe, seen |-> <<>>,
                    all |-> IF heap.root[t] = NullNode THEN {}
                            ELSE {n \in Node : ~Unlinked(n)}]
    /\ walks' = walks + 1
    /\ UNCHANGED heap

\* Faulty variant: the plain loop, which asks the node it just unlinked for
\* its successor.
WalkTurnUnsafe ==
    /\ walk.kind # "none" /\ walk.cur # NullNode
    /\ \/ walk.kind = "in_order" /\ heap' = RbnodeUnlink(heap, walk.cur)
       \/ walk.kind = "in_order" /\ UNCHANGED heap
       \/ walk.kind = "postorder_unlink" /\ heap' = RbnodeInit(heap, walk.cur)
    /\ walk' = [walk EXCEPT !.seen = Append(@, walk.cur),
                            !.cur = Neighbour(heap', walk.cur, "right")]
    /\ UNCHANGED walks

\* One turn of the loop: the body may unlink the current node (in order), the
\* loop itself resets it (post-order).
WalkTurn ==
    /\ walk.kind # "none" /\ walk.cur # NullNode
    /\ \/ walk.kind = "in_order" /\ heap' = RbnodeUnlink(heap, walk.cur)
       \/ walk.kind = "in_order" /\ UNCHANGED heap
       \/ walk.kind = "postorder_unlink" /\ heap' = RbnodeInit(heap, walk.cur)
    /\ walk' = [walk EXCEPT !.seen = Append(@, walk.cur), !.cur = walk.safe,
                            !.safe = IF walk.kind = "in_order"
                                     THEN Neighbour(heap', walk.safe, "right")
                                     ELSE NextPostorder(heap', walk.safe)]
    /\ UNCHANGED walks

WalkEnd ==
    /\ walk.kind # "none" /\ walk.cur = NullNode
    /\ heap' = IF walk.kind = "postorder_unlink"
               THEN [heap EXCEPT !.root[walk.tree] = NullNode] ELSE heap
    /\ walk' = NoWalk
    /\ UNCHANGED walks

RBNext ==
    \/ \E t \in Trees, n \in Node : Add(t, n)
    \/ \E n \in Node : UnlinkNode(n)
    \/ \E t \in Trees, o \in Trees : t # o /\ Move(t, o)
    \/ \E t \in Trees, k \in {"in_order", "postorder_unlink"} : WalkBegin(t, k)
    \/ WalkTurn
    \/ WalkEnd

-----------------------------------------------------------------------------
(* What the registries rely on. *)

RECURSIVE Traversal(_, _)
Traversal(h, n) ==
    IF n = NullNode THEN <<>>
    ELSE Traversal(h, Kid(h, n, "left")) \o <<n>> \o Traversal(h, Kid(h, n, "right"))

\* The number of black nodes on every path below n, or -1 when paths differ.
RECURSIVE BlackHeight(_, _)
BlackHeight(h, n) ==
    IF n = NullNode THEN 0
    ELSE LET l == BlackHeight(h, Kid(h, n, "left"))
             r == BlackHeight(h, Kid(h, n, "right"))
         IN  IF l = -1 \/ l # r THEN -1 ELSE l + (IF IsRed(h, n) THEN 0 ELSE 1)

Whole == walk.kind # "postorder_unlink"

(* Outside of the loop that dismantles it, a tree is a red-black tree: a    *)
(* lookup finds exactly the linked nodes in ascending order, no red node    *)
(* has a red child, all paths hold the same number of black nodes, the      *)
(* parent words mirror the child pointers and the root's names its tree;    *)
(* and the iterators agree with the order (next and previous, in order and  *)
(* in post-order, are inverse).                                             *)
RedBlack ==
    Whole => \A t \in Trees :
        LET order == Traversal(heap, heap.root[t])
            set == ToSet(order)
        IN  /\ \A i \in 1..(Len(order) - 1) : order[i] < order[i + 1]
            /\ \A n \in set : heap.up[n] # n
            /\ heap.root[t] # NullNode => /\ set = {n \in Node : ~Unlinked(n)}
                                          /\ heap.up[heap.root[t]] = t
                                          /\ ~IsRed(heap, heap.root[t])
            /\ BlackHeight(heap, heap.root[t]) # -1
            /\ \A n \in set, d \in Sides :
                  /\ Kid(heap, n, d) # NullNode => Parent(heap, Kid(heap, n, d)) = n
                  /\ IsRed(heap, n) => ~RedKid(heap, n, d)
            /\ \A k \in Node : FindNode(heap, t, k) = IF k \in set THEN k ELSE NullNode
            /\ \A i \in DOMAIN order :
                  /\ Neighbour(heap, order[i], "right")
                       = IF i = Len(order) THEN NullNode ELSE order[i + 1]
                  /\ Neighbour(heap, order[i], "left")
                       = IF i = 1 THEN NullNode ELSE order[i - 1]
            /\ \A n \in set : LET m == NextPostorder(heap, n) IN
                  IF m = NullNode THEN n = LastPostorder(heap, t)
                  ELSE PrevPostorder(heap, m) = n
            /\ order # <<>> => /\ FirstNode(heap, t) = Head(order) /\ LastNode(heap, t) = order[Len(order)]
                               /\ PrevPostorder(heap, FirstPostorder(heap, t)) = NullNode

(* A loop visits every node that was linked when it began exactly once,     *)
(* although its body unlinks the nodes it visits and the tree rebalances    *)
(* under it; in order, it visits them by key; the dismantling loop leaves   *)
(* every node unlinked.                                                     *)
WalksVisitAll ==
    walk.kind # "none" =>
        /\ IsInjective(walk.seen)
        /\ ToSet(walk.seen) \subseteq walk.all
        /\ walk.kind = "in_order" =>
              \A i \in 1..(Len(walk.seen) - 1) : walk.seen[i] < walk.seen[i + 1]
        /\ walk.cur = NullNode => ToSet(walk.seen) = walk.all
        /\ walk.kind = "postorder_unlink"
              => \A n \in walk.all : Unlinked(n) = (n \in ToSet(walk.seen))

(* The tree stays one under every order of insertions and removals, those   *)
(* of the loops over it included, and the loops visit what they should.     *)
TreeSound == RedBlack /\ WalksVisitAll
=============================================================================
