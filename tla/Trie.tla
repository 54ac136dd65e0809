-------------------------------- MODULE Trie --------------------------------
(***************************************************************************)
(* data_structures/trie.c: the ternary search tree of the options and of   *)
(* both command sets.  A node is the path that leads to it from the root;  *)
(* a tree maps the nodes that were allocated to their character and their  *)
(* value or handler.  Characters are numbers, a fresh node has character   *)
(* 0.  The root is there from the start: nothing looks before it is.       *)
(***************************************************************************)
EXTENDS Integers, Sequences, FiniteSets

CONSTANT None   \* no value, and the NULL that ends a walk

Chars == Int \ {0}
Ways == {"left", "centre", "right"}

Root == <<>>
FreshNode == [c |-> 0, value |-> None]
EmptyTrie == [n \in {Root} |-> FreshNode]
NodeAt(t, n) == IF n \in DOMAIN t THEN t[n] ELSE FreshNode

\* Slip: a character that sorts left of a node's is looked for to its right.
OnlyRight ==
    [c \in Int |-> [at \in Int |-> IF at = 0 \/ c = at THEN "centre" ELSE "right"]]

\* Where the loop of insert_to_trie goes with character c from a node with
\* character at: a fresh node takes the character.
InsertWay ==
    [c \in Int |-> [at \in Int |->
        IF at = 0 \/ c = at THEN "centre" ELSE IF c > at THEN "right" ELSE "left"]]

\* Where traverse_to_child_char goes.
ChildWay ==
    [c \in Int |-> [at \in Int |->
        IF c > at THEN "right" ELSE IF c < at THEN "left" ELSE "centre"]]

-----------------------------------------------------------------------------
(* Walking down the tree with a key: a place is a node and the number of    *)
(* characters used up so far.  Only a step to the centre uses one up.       *)

AtRoot == [node |-> Root, used |-> 0]
Places == [node : Seq(Ways), used : Nat]

Onward(w, way) ==
    [node |-> Append(w.node, way), used |-> IF way = "centre" THEN w.used + 1 ELSE w.used]

\* The walk ends with the key, or with a node outside nodes.  Off the tree
\* every step uses up a character, so that none takes more steps than this.
Walk(t, key, way, nodes) ==
    LET next == [w \in Places |->
                    IF w.used = Len(key) \/ w.node \notin nodes THEN w
                    ELSE Onward(w, way[key[w.used + 1]][NodeAt(t, w.node).c])]
        at[j \in 0..(Cardinality(DOMAIN t) + Len(key))] ==
            IF j = 0 THEN AtRoot ELSE next[at[j - 1]]
    IN  at

\* insert_to_trie and insert_kv_pair_to_trie: the nodes of the walk that are
\* missing are allocated, those left with a character get it if they have
\* none, the last one gets the value.
Insert(t, key, value) ==
    LET at == Walk(t, key, InsertWay, Seq(Ways))
        path == {at[j].node : j \in DOMAIN at}
        used(n) == at[Len(n)].used
    IN  [n \in DOMAIN t \cup path |->
            [c     |-> IF n \in path /\ used(n) < Len(key) /\ NodeAt(t, n).c = 0
                       THEN key[used(n) + 1] ELSE NodeAt(t, n).c,
             value |-> IF n \in path /\ used(n) = Len(key) THEN value ELSE NodeAt(t, n).value]]

\* What a caller finds that walks down with traverse_to_child_char, one
\* character after the other.
Lookup(t, key) ==
    LET end == Walk(t, key, ChildWay, DOMAIN t)[Cardinality(DOMAIN t) + Len(key)]
    IN  IF end.used = Len(key) /\ end.node \in DOMAIN t THEN t[end.node].value ELSE None
=============================================================================
