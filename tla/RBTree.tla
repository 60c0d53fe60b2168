------------------------------- MODULE RBTree -------------------------------
(***************************************************************************)
(* include/rbt_tree.h: the red-black trees of the hash tables, which allow *)
(* several nodes of one value.  A slot is a pointer of the tree, <<"left", *)
(* n>> or <<"next", n>> of node n, or the root of the header; the anchor   *)
(* of a node is the slot that points to it.  The code has each loop twice, *)
(* for left and right; here a side is a parameter.                         *)
(***************************************************************************)
EXTENDS Integers, Sequences, FiniteSets

CONSTANTS
    Nodes,
    value(_),       \* rbt_value of a node
    NIL

Sides == {"left", "next"}
Opposite(side) == IF side = "left" THEN "next" ELSE "left"
RootSlot == <<"root", NIL>>

RBT_HEAD_INIT ==
    [kid |-> [s \in (Sides \X Nodes) \cup {RootSlot} |-> NIL],
     parent |-> [n \in Nodes |-> NIL], anchor |-> [n \in Nodes |-> RootSlot],
     red |-> {}, leftmost |-> NIL, rightmost |-> NIL, num_node |-> 0]

root(t) == t.kid[RootSlot]
Kid(t, side, n) == t.kid[<<side, n>>]

(* *slot = n, and, unless n is null, n->parent and n->anchor.              *)
Put(t, slot, parent, n) ==
    IF n = NIL THEN [t EXCEPT !.kid[slot] = NIL]
    ELSE [t EXCEPT !.kid[slot] = n, !.parent[n] = parent, !.anchor[n] = slot]

Red(t, nodes) == [t EXCEPT !.red = @ \cup nodes]
Black(t, nodes) == [t EXCEPT !.red = @ \ nodes]

-----------------------------------------------------------------------------
(* Finding and walking                                                     *)

(* while (n->side) n = n->side;                                            *)
RECURSIVE Outermost(_, _, _)
Outermost(t, side, n) == IF Kid(t, side, n) = NIL THEN n ELSE Outermost(t, side, Kid(t, side, n))

RECURSIVE Climb(_, _)
Climb(t, n) ==
    LET p == t.parent[n]
    IN  IF p # NIL /\ Kid(t, "next", p) = n THEN Climb(t, p) ELSE p

RBT_INCREMENT(t, n) ==
    IF Kid(t, "next", n) = NIL THEN Climb(t, n) ELSE Outermost(t, "left", Kid(t, "next", n))

RECURSIVE Descend(_, _, _)
Descend(t, x, val) ==
    LET down == Kid(t, IF value(x) > val THEN "left" ELSE "next", x)
    IN  IF value(x) = val \/ down = NIL THEN x ELSE Descend(t, down, val)

RBT_FIND(t, val) == IF root(t) = NIL THEN NIL ELSE Descend(t, root(t), val)

(* From a node of the value to the first one: left past equal nodes, then  *)
(* right from a smaller node, in turn.  found is the leftmost so far.      *)
RECURSIVE FirstEqual(_, _, _, _)
FirstEqual(t, side, x, found) ==
    LET y == Kid(t, side, x)
    IN  IF y = NIL THEN found
        ELSE IF value(y) = value(found) THEN FirstEqual(t, "left", y, y)
        ELSE FirstEqual(t, "next", y, found)

RBT_FIND_LEFT(t, val) ==
    LET x == RBT_FIND(t, val)
    IN  IF x = NIL \/ value(x) # val THEN NIL ELSE FirstEqual(t, "left", x, x)

-----------------------------------------------------------------------------
(* Changing                                                                *)

(* RBT_ROTATE_LEFT for side = "left", RBT_ROTATE_RIGHT for "next".         *)
RBT_ROTATE(t, side, x) ==
    LET y == Kid(t, Opposite(side), x)
        t1 == Put(t, <<Opposite(side), x>>, x, Kid(t, side, y))
        t2 == Put(t1, t.anchor[x], t.parent[x], y)
    IN  Put(t2, <<side, y>>, y, x)

(* Mistake: an equal node goes to the right, although it may be taken.     *)
InsertSlot_Right(t, val, par) ==
    IF par = NIL THEN RootSlot ELSE <<IF val < value(par) THEN "left" ELSE "next", par>>

(* Where RBT_INSERT links a node of value val, given the result of         *)
(* RBT_FIND: after the predecessor of an equal node with two children.     *)
InsertSlot(t, val, par) ==
    IF par = NIL THEN RootSlot
    ELSE IF val = value(par) /\ Kid(t, "left", par) # NIL /\ Kid(t, "next", par) # NIL
    THEN <<"next", Outermost(t, "next", Kid(t, "left", par))>>
    ELSE IF val > value(par) \/ (val = value(par) /\ Kid(t, "left", par) # NIL)
    THEN <<"next", par>> ELSE <<"left", par>>

Link(t, n, par) ==
    LET slot == InsertSlot(t, value(n), par)
    IN  [Put(t, slot, slot[2], n) EXCEPT
            !.num_node = @ + 1,
            !.leftmost = IF par = NIL \/ (slot = <<"left", par>> /\ par = @) THEN n ELSE @,
            !.rightmost = IF par = NIL \/ (slot = <<"next", par>> /\ par = @) THEN n ELSE @]

(* The loop of RBT_INSERT: x becomes red; under a red parent, either the   *)
(* grandparent takes the red from parent and uncle and is next, or one or  *)
(* two rotations put a black node above x and the grandparent.             *)
RECURSIVE FixRed(_, _)
FixRed(t, x) ==
    LET p == t.parent[x]
        g == t.parent[p]
        side == IF p = Kid(t, "left", g) THEN "left" ELSE "next"
        uncle == Kid(t, Opposite(side), g)
        inner == x = Kid(t, Opposite(side), p)
        turned == IF inner THEN RBT_ROTATE(Red(t, {x}), side, p) ELSE Red(t, {x})
        top == IF inner THEN x ELSE p
    IN  IF p = NIL THEN t
        ELSE IF p \notin t.red THEN Red(t, {x})
        ELSE IF uncle \in t.red THEN FixRed(Black(Red(t, {x}), {p, uncle}), g)
        ELSE RBT_ROTATE(Red(Black(turned, {top}), {g}), Opposite(side), g)

RBT_INSERT(t, n, par) == FixRed(Link(t, n, par), n)

(* A node with two children gives its place and colour to its successor y; *)
(* x, the only child of y or null, takes y's place under z.                *)
UnlinkTwo(t, n) ==
    LET y == Outermost(t, "left", Kid(t, "next", n))
        x == Kid(t, "next", y)
        beside == y = Kid(t, "next", n)
        z == IF beside THEN y ELSE t.parent[y]
        t1 == Put(t, <<"left", y>>, y, Kid(t, "left", n))
        t2 == IF beside THEN t1
              ELSE Put(Put(t1, <<"left", z>>, z, x), <<"next", y>>, y, Kid(t, "next", n))
        t3 == Put(t2, t.anchor[n], t.parent[n], y)
    IN  [tree |-> IF n \in t.red THEN Red(t3, {y}) ELSE Black(t3, {y}),
         x |-> x, z |-> z, rebalance |-> y \notin t.red]

(* A node with one child, or none, is replaced by it.                      *)
UnlinkOne(t, n) ==
    LET z == t.parent[n]
        x == IF Kid(t, "next", n) # NIL THEN Kid(t, "next", n) ELSE Kid(t, "left", n)
        End(side) == IF x = NIL THEN z ELSE Outermost(t, side, x)
    IN  [tree |-> [Put(t, t.anchor[n], z, x) EXCEPT
                      !.leftmost = IF @ = n THEN End("left") ELSE @,
                      !.rightmost = IF @ = n THEN End("next") ELSE @],
         x |-> x, z |-> z, rebalance |-> n \notin t.red]

(* The loop of RBT_UNLINK: the paths through x, a child of z, lack a black *)
(* node.                                                                   *)
RECURSIVE FixBlack(_, _, _)
FixBlack(t, x, z) ==
    LET side == IF x = Kid(t, "left", z) THEN "left" ELSE "next"
        other == Opposite(side)
        s == Kid(t, other, z)
        t1 == IF s \in t.red THEN RBT_ROTATE(Red(Black(t, {s}), {z}), side, z) ELSE t
        y == Kid(t1, other, z)
        t2 == IF Kid(t1, other, y) \in t1.red THEN t1
              ELSE RBT_ROTATE(Red(Black(t1, {Kid(t1, side, y)}), {y}), other, y)
        w == Kid(t2, other, z)
        t3 == IF z \in t2.red THEN Red(t2, {w}) ELSE Black(t2, {w})
    IN  IF z = NIL \/ x \in t.red THEN Black(t, {x})
        ELSE IF {Kid(t1, "left", y), Kid(t1, "next", y)} \cap t1.red = {}
        THEN FixBlack(Red(t1, {y}), z, t1.parent[z])
        ELSE Black(RBT_ROTATE(Black(t3, {z, Kid(t3, other, w)}), side, z), {x})

(* The fields of a node outside the tree are those of RBT_HEAD_INIT:       *)
(* RBT_INSERT sets them all.                                               *)
Forget(t, n) ==
    [Black(t, {n}) EXCEPT !.kid[<<"left", n>>] = NIL, !.kid[<<"next", n>>] = NIL,
                          !.parent[n] = NIL, !.anchor[n] = RootSlot]

RBT_UNLINK(t, n) ==
    LET two == Kid(t, "left", n) # NIL /\ Kid(t, "next", n) # NIL
        u == IF two THEN UnlinkTwo(t, n) ELSE UnlinkOne(t, n)
        done == IF u.rebalance THEN FixBlack(u.tree, u.x, u.z) ELSE u.tree
    IN  [Forget(done, n) EXCEPT !.num_node = @ - 1]

-----------------------------------------------------------------------------
RECURSIVE NodesInOrder(_, _)
NodesInOrder(t, x) ==
    IF x = NIL THEN <<>>
    ELSE NodesInOrder(t, Kid(t, "left", x)) \o <<x>> \o NodesInOrder(t, Kid(t, "next", x))

(* The numbers of black nodes on the ways down from x.                     *)
RECURSIVE BlackCounts(_, _)
BlackCounts(t, x) ==
    IF x = NIL THEN {0}
    ELSE {c + (IF x \in t.red THEN 0 ELSE 1) :
             c \in BlackCounts(t, Kid(t, "left", x)) \cup BlackCounts(t, Kid(t, "next", x))}

(* What RBT_VERIFY tests, on all nodes and all ways down: the order, the   *)
(* walk with RBT_INCREMENT from leftmost to rightmost, the links, the      *)
(* number of nodes, and the balance.                                       *)
Sound(t) ==
    LET walk == NodesInOrder(t, root(t))
        n == Len(walk)
    IN  /\ t.num_node = n /\ \A i, j \in 1..n : i < j => walk[i] # walk[j]
        /\ t.leftmost = IF n = 0 THEN NIL ELSE walk[1]
        /\ t.rightmost = IF n = 0 THEN NIL ELSE walk[n]
        /\ \A i \in 1..n :
              /\ RBT_INCREMENT(t, walk[i]) = IF i = n THEN NIL ELSE walk[i + 1]
              /\ i < n => value(walk[i]) <= value(walk[i + 1])
              /\ t.kid[t.anchor[walk[i]]] = walk[i]
              /\ t.anchor[walk[i]][2] = t.parent[walk[i]]
              /\ walk[i] \in t.red => t.parent[walk[i]] \notin t.red
        /\ Cardinality(BlackCounts(t, root(t))) = 1
=============================================================================
