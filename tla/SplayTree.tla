----------------------------- MODULE SplayTree ------------------------------
(***************************************************************************)
(* The top-down splay trees of src/runtime/splay.c.  A tree is Nil or a    *)
(* triple of an item and two subtrees; an item is a record with a field    *)
(* key, an integer that is ordered as the tree's cmp function orders the   *)
(* items.                                                                  *)
(***************************************************************************)
EXTENDS Integers, SequencesExt

Nil == <<>>
LEFT == 2
RIGHT == 3
OPP(d) == 5 - d
Leaf(item) == <<item, Nil, Nil>>
DIR(k, t) == IF k < t[1].key THEN LEFT ELSE RIGHT

\* Mutant: the subtree between the two nodes is lost
RotatedLost(t, d) == [t[d] EXCEPT ![OPP(d)] = [t EXCEPT ![d] = Nil]]

\* The child of t in direction d becomes the root
Rotated(t, d) == [t[d] EXCEPT ![OPP(d)] = [t EXCEPT ![d] = t[d][OPP(d)]]]

\* The loop of splay.  holes[d] holds the nodes that were linked to the tree
\* with a hole on side d, each with its hole in the direction OPP(d).
RECURSIVE SplayFrom(_, _, _)
SplayFrom(k, t, holes) ==
    LET d == DIR(k, t)
        c == t[d]
        rotate == c # Nil /\ k # c[1].key /\ DIR(k, c) = d
        u == IF rotate THEN Rotated(t, d) ELSE t
    IN  IF k = t[1].key \/ u[d] = Nil THEN [tree |-> u, holes |-> holes]
        ELSE SplayFrom(k, u[d], [holes EXCEPT ![OPP(d)] = Append(@, u)])

splay(k, t) == SplayFrom(k, t, <<Nil, Nil, Nil>>)

\* result[d], with the last hole filled with t
Fill(nodes, d, t) == FoldRight(LAMBDA n, acc : [n EXCEPT ![OPP(d)] = acc], nodes, t)

assemble(t, holes) ==
    <<t[1], Fill(holes[LEFT], LEFT, t[LEFT]), Fill(holes[RIGHT], RIGHT, t[RIGHT])>>

\* splay and assemble
Splayed(k, t) == LET s == splay(k, t) IN assemble(s.tree, s.holes)

\* sml_tree_find: the tree is changed, too
sml_tree_find(k, t) == IF t = Nil THEN Nil ELSE Splayed(k, t)
Found(k, t) == t # Nil /\ t[1].key = k

\* sml_tree_insert, insert_node: a new root if the key is not found
Insert(item, t) ==
    LET s == splay(item.key, t)
        d == DIR(item.key, s.tree)
        root == [Leaf(item) EXCEPT ![OPP(d)] = s.tree]
    IN  IF t = Nil THEN Leaf(item)
        ELSE IF s.tree[1].key = item.key THEN assemble([s.tree EXCEPT ![1] = item], s.holes)
        ELSE assemble(root, s.holes)

\* join: the largest item on the left becomes the root
join(t) ==
    LET s == splay(t[1].key, t[LEFT])
    IN  IF t[LEFT] = Nil THEN t[RIGHT]
        ELSE assemble([s.tree EXCEPT ![RIGHT] = t[RIGHT]], s.holes)

sml_tree_delete(k, t) ==
    LET s == splay(k, t)
    IN  IF t = Nil THEN Nil
        ELSE IF s.tree[1].key # k THEN assemble(s.tree, s.holes)
        ELSE IF join(s.tree) # Nil THEN assemble(join(s.tree), s.holes)
        ELSE join(assemble(s.tree, s.holes))

\* sml_tree_each: the items from left to right
RECURSIVE Items(_)
Items(t) == IF t = Nil THEN <<>> ELSE Items(t[LEFT]) \o <<t[1]>> \o Items(t[RIGHT])

\* sml_tree_reject of the items with these keys, from left to right: the tree
\* that is left and the items that were rejected.  A rejected item is replaced
\* by its right subtree, or by the largest item on the left, which was looked at
\* already.
RECURSIVE sml_tree_reject(_, _)
sml_tree_reject(keys, t) ==
    LET left == sml_tree_reject(keys, t[LEFT])
        right == sml_tree_reject(keys, t[RIGHT])
    IN  IF t = Nil THEN [tree |-> Nil, run |-> <<>>]
        ELSE IF t[1].key \notin keys
        THEN [tree |-> <<t[1], left.tree, right.tree>>, run |-> left.run \o right.run]
        ELSE [tree |-> IF left.tree = Nil THEN right.tree
                       ELSE [join(<<t[1], left.tree, t[RIGHT]>>) EXCEPT ![RIGHT] = right.tree],
              run |-> left.run \o <<t[1]>> \o right.run]

\* sml_tree_rebuild: the nodes are inserted anew in postorder
RECURSIVE Postorder(_)
Postorder(t) ==
    IF t = Nil THEN <<>> ELSE Postorder(t[LEFT]) \o Postorder(t[RIGHT]) \o <<t[1]>>
sml_tree_rebuild(t) == FoldLeft(LAMBDA acc, item : Insert(item, acc), Nil, Postorder(t))

=============================================================================
