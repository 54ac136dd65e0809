---------------------------- MODULE StartupProofs ----------------------------
(***************************************************************************)
(* The options: the tree of trie.c is a map, for any names and values, and *)
(* so is what config_read_options makes of a file of any length.  The      *)
(* start: the servers find what they need, whatever the options and        *)
(* however many.                                                           *)
(***************************************************************************)
EXTENDS Startup, TLAPS, FiniteSetTheorems, SequenceTheorems, WellFoundedInduction

-----------------------------------------------------------------------------
(* Counting                                                                 *)

\* Every set of natural numbers has a least element.
LEMMA LeastNumber ==
    ASSUME NEW T \in SUBSET Nat, T # {}
    PROVE  \E x \in T : \A y \in T : x <= y
<1> DEFINE Less == {ss \in Nat \X Nat : ss[1] < ss[2]}
<1>1. IsWellFoundedOn(Less, Nat)
  BY NatLessThanWellFounded DEF OpToRel
<1>2. PICK x \in T : \A y \in T : ~(<<y, x>> \in Less)
  BY <1>1, WFMin
<1>3. ASSUME NEW y \in T PROVE x <= y
  <2>1. <<y, x>> \in Less <=> y < x
    OBVIOUS
  <2> QED
    BY <1>2, <2>1
<1> QED
  BY <1>3

\* A set that has 0, and with every number below n the next one, has all
\* numbers up to n.
LEMMA StepsUp ==
    ASSUME NEW n \in Nat, NEW T, 0 \in T,
           \A j \in 0..(n - 1) : j \in T => j + 1 \in T
    PROVE  \A j \in 0..n : j \in T
<1> DEFINE Bad == {j \in 0..n : j \notin T}
<1>1. SUFFICES ASSUME Bad # {} PROVE FALSE
  OBVIOUS
<1>2. Bad \in SUBSET Nat
  OBVIOUS
<1>3. \E x \in Bad : \A y \in Bad : x <= y
  <2> HIDE DEF Bad
  <2> QED
    BY <1>1, <1>2, LeastNumber
<1>4. PICK m \in Bad : \A y \in Bad : m <= y
  BY <1>3
<1>5. m # 0 /\ m \in 0..n /\ m \notin T
  OBVIOUS
<1>6. m - 1 \in 0..(n - 1) /\ m - 1 \notin Bad /\ (m - 1) + 1 = m
  BY <1>4, <1>5
<1> QED
  BY <1>5, <1>6

\* The other way round, from n down to 0.
LEMMA StepsDown ==
    ASSUME NEW n \in Nat, NEW T, n \in T,
           \A j \in 0..(n - 1) : j + 1 \in T => j \in T
    PROVE  \A j \in 0..n : j \in T
<1> DEFINE U == {j \in 0..n : n - j \in T}
<1>1. 0 \in U
  OBVIOUS
<1>2. ASSUME NEW j \in 0..(n - 1), j \in U PROVE j + 1 \in U
  <2>1. n - (j + 1) \in 0..(n - 1) /\ (n - (j + 1)) + 1 = n - j /\ n - j \in T /\ j + 1 \in 0..n
    BY <1>2
  <2>2. n - (j + 1) \in T
    BY <2>1
  <2> QED
    BY <2>1, <2>2
<1> HIDE DEF U
<1>3. \A j \in 0..n : j \in U
  BY <1>1, <1>2, StepsUp
<1>4. ASSUME NEW j \in 0..n PROVE j \in T
  <2>1. n - j \in 0..n /\ n - (n - j) = j
    OBVIOUS
  <2>2. n - j \in U
    BY <1>3, <2>1
  <2> QED
    BY <2>1, <2>2 DEF U
<1> QED
  BY <1>4

\* A function over 0..n that goes on from first by next: there is one, so that
\* a recursive definition has a value.
Goes(g, first, next, n) == g[0] = first /\ \A j \in 1..n : g[j] = next[g[j - 1]]

LEMMA Iterated ==
    ASSUME NEW n \in Nat, NEW first, NEW next
    PROVE  \E g : Goes(g, first, next, n)
<1> DEFINE Is(g, m) == Goes(g, first, next, m)
           T == {m \in Nat : \E g : Is(g, m)}
<1>1. 0 \in T
  <2>1. Is([j \in {0} |-> first], 0)
    BY DEF Goes
  <2> QED
    BY <2>1
<1>2. ASSUME NEW m \in 0..(n - 1), m \in T PROVE m + 1 \in T
  <2>1. PICK g : Is(g, m)
    BY <1>2
  <2> DEFINE h == [j \in 0..(m + 1) |-> IF j = m + 1 THEN next[g[m]] ELSE g[j]]
  <2>2. h[0] = first
    BY <2>1 DEF Goes
  <2>3. ASSUME NEW j \in 1..(m + 1) PROVE h[j] = next[h[j - 1]]
    <3>1. CASE j = m + 1
      BY <3>1
    <3>2. CASE j # m + 1
      <4>1. j \in 1..m /\ j - 1 \in 0..m
        BY <3>2
      <4>2. h[j] = g[j] /\ h[j - 1] = g[j - 1]
        BY <4>1
      <4> QED
        BY <2>1, <4>1, <4>2 DEF Goes
    <3> QED
      BY <3>1, <3>2
  <2>4. m + 1 \in Nat
    OBVIOUS
  <2>5. Is(h, m + 1)
    BY <2>2, <2>3 DEF Goes
  <2> HIDE DEF h, Is
  <2> QED
    BY <2>4, <2>5
<1> HIDE DEF T
<1>3. \A j \in 0..n : j \in T
  BY <1>1, <1>2, StepsUp
<1>4. n \in T
  BY <1>3
<1>5. PICK g : Is(g, n)
  BY <1>4 DEF T
<1> QED
  BY <1>5

-----------------------------------------------------------------------------
(* Walking down a tree                                                      *)

\* A tree as insertions make it: of every node that is there the parent is,
\* too, and the parent has its character.
Tree(t) ==
    /\ DOMAIN t \subseteq Seq(Ways) /\ IsFiniteSet(DOMAIN t)
    /\ Root \in DOMAIN t
    /\ \A n \in DOMAIN t : t[n].c \in Int
    /\ \A n \in Seq(Ways), way \in Ways :
          Append(n, way) \in DOMAIN t => n \in DOMAIN t /\ t[n].c # 0

\* Steps 1 to J of h go down a path from the root.
Chain(h, J) ==
    /\ h[0] = AtRoot
    /\ \A j \in 0..J : h[j] \in Places /\ Len(h[j].node) = j
    /\ \A j \in 0..(J - 1) : \E way \in Ways : h[j + 1] = Onward(h[j], way)

\* For J steps h goes where name leads in t.
StepsOn(h, t, name, way, nodes, j) ==
    /\ h[j].used # Len(name) /\ h[j].node \in nodes
    /\ h[j + 1] = Onward(h[j], way[name[h[j].used + 1]][NodeAt(t, h[j].node).c])
Follows(h, t, name, way, nodes, J) ==
    /\ h[0] = AtRoot
    /\ \A j \in 0..(J - 1) : StepsOn(h, t, name, way, nodes, j)

Directions == {InsertWay, ChildWay}

LEMMA WayFacts ==
    /\ \A way \in Directions, c \in Int, d \in Int : way[c][d] \in Ways
    /\ \A c \in Int, d \in Int :
          /\ d # 0 => InsertWay[c][d] = ChildWay[c][d]
          /\ InsertWay[c][0] = "centre"
          /\ ChildWay[c][d] = "centre" <=> c = d
BY DEF Directions, InsertWay, ChildWay, Ways

LEMMA OnwardFacts ==
    ASSUME NEW w \in Places, NEW way \in Ways
    PROVE  /\ Onward(w, way) \in Places
           /\ Onward(w, way).node = Append(w.node, way)
           /\ Len(Onward(w, way).node) = Len(w.node) + 1
           /\ Onward(w, way).used = IF way = "centre" THEN w.used + 1 ELSE w.used
<1>1. Append(w.node, way) \in Seq(Ways) /\ Len(Append(w.node, way)) = Len(w.node) + 1
  BY AppendProperties DEF Places
<1>2. w.used \in Nat
  BY DEF Places
<1> QED
  BY <1>1, <1>2 DEF Onward, Places

\* The last step to a node, and the place it started at, are known from it.
LEMMA OnwardInjective ==
    ASSUME NEW p \in Places, NEW q \in Places, NEW w \in Ways, NEW v \in Ways,
           Onward(p, w).node = Onward(q, v).node
    PROVE  p.node = q.node /\ w = v
<1>1. PICK n \in Seq(Ways) : n = p.node
  BY DEF Places
<1>2. PICK o \in Seq(Ways) : o = q.node
  BY DEF Places
<1>3. Onward(p, w).node = Append(n, w)
  BY <1>1, OnwardFacts
<1>4. Onward(q, v).node = Append(o, v)
  BY <1>2, OnwardFacts
<1>5. Append(n, w) = Append(o, v)
  BY <1>3, <1>4
<1>6. n = o /\ w = v
  BY <1>5, AppendInjective
<1> QED
  BY <1>1, <1>2, <1>6

LEMMA NodeFacts ==
    ASSUME NEW t, Tree(t), NEW n PROVE NodeAt(t, n).c \in Int
BY DEF NodeAt, FreshNode, Tree

LEMMA RootFacts == AtRoot \in Places /\ AtRoot.used = 0 /\ AtRoot.node = Root /\ Len(Root) = 0
BY DEF AtRoot, Places, Root

\* One step of a walk, from a place that it may be at.
LEMMA OneStep ==
    ASSUME NEW t, Tree(t), NEW name \in Seq(Chars), NEW way \in Directions, NEW nodes,
           NEW h, NEW j \in Nat, StepsOn(h, t, name, way, nodes, j),
           h[j] \in Places, h[j].used \in 0..Len(name)
    PROVE  /\ \E w \in Ways : h[j + 1] = Onward(h[j], w)
           /\ h[j + 1] \in Places
           /\ Len(h[j + 1].node) = Len(h[j].node) + 1
           /\ h[j + 1].used \in 0..Len(name)
<1> DEFINE c == name[h[j].used + 1]
           w == way[c][NodeAt(t, h[j].node).c]
<1>1. Len(name) \in Nat /\ h[j].used # Len(name) /\ h[j + 1] = Onward(h[j], w)
  BY DEF StepsOn
<1>2. h[j].used + 1 \in 1..Len(name)
  BY <1>1
<1>3. c \in Int
  BY <1>2 DEF Chars
<1>4. w \in Ways
  BY <1>3, NodeFacts, WayFacts
<1> HIDE DEF w
<1> QED
  BY <1>1, <1>2, <1>4, OnwardFacts

LEMMA FollowsChain ==
    ASSUME NEW t, Tree(t), NEW name \in Seq(Chars), NEW way \in Directions, NEW nodes,
           NEW h, NEW J \in Nat, Follows(h, t, name, way, nodes, J)
    PROVE  Chain(h, J) /\ \A j \in 0..J : h[j].used \in 0..Len(name)
<1> DEFINE T == {j \in 0..J : h[j] \in Places /\ Len(h[j].node) = j /\ h[j].used \in 0..Len(name)}
<1>1. 0 \in T
  BY RootFacts DEF Follows
<1>2. ASSUME NEW j \in 0..(J - 1), j \in T
      PROVE  j + 1 \in T /\ \E w \in Ways : h[j + 1] = Onward(h[j], w)
  <2>1. StepsOn(h, t, name, way, nodes, j) /\ j \in Nat /\ j + 1 \in 0..J
    BY DEF Follows
  <2>2. h[j] \in Places /\ Len(h[j].node) = j /\ h[j].used \in 0..Len(name)
    BY <1>2
  <2>3. /\ \E w \in Ways : h[j + 1] = Onward(h[j], w)
        /\ h[j + 1] \in Places
        /\ Len(h[j + 1].node) = Len(h[j].node) + 1
        /\ h[j + 1].used \in 0..Len(name)
    BY <2>1, <2>2, OneStep
  <2> QED
    BY <2>1, <2>2, <2>3
<1>3. \A j \in 0..J : j \in T
  <2> HIDE DEF T
  <2> QED
    BY <1>1, <1>2, StepsUp
<1>4. \A j \in 0..(J - 1) : \E w \in Ways : h[j + 1] = Onward(h[j], w)
  <2> SUFFICES ASSUME NEW j \in 0..(J - 1) PROVE \E w \in Ways : h[j + 1] = Onward(h[j], w)
    OBVIOUS
  <2>1. j \in T
    BY <1>3
  <2> HIDE DEF T
  <2> QED
    BY <1>2, <2>1
<1>5. h[0] = AtRoot
  BY DEF Follows
<1> QED
  BY <1>3, <1>4, <1>5 DEF Chain

\* Of a path that ends at a node of the tree all nodes are in the tree, and
\* those on the way have their characters.
LEMMA ChainInTree ==
    ASSUME NEW t, Tree(t), NEW h, NEW J \in Nat, Chain(h, J), h[J].node \in DOMAIN t
    PROVE  /\ \A j \in 0..J : h[j].node \in DOMAIN t
           /\ \A j \in 0..(J - 1) : t[h[j].node].c # 0
<1> DEFINE T == {j \in 0..J : h[j].node \in DOMAIN t}
<1>1. J \in T
  OBVIOUS
<1>2. ASSUME NEW j \in 0..(J - 1), h[j + 1].node \in DOMAIN t
      PROVE  h[j].node \in DOMAIN t /\ t[h[j].node].c # 0
  <2>1. PICK w \in Ways : h[j + 1] = Onward(h[j], w)
    BY DEF Chain
  <2>2. h[j] \in Places /\ h[j].node \in Seq(Ways)
    <3>1. j \in 0..J
      OBVIOUS
    <3> QED
      BY <3>1 DEF Chain, Places
  <2>3. h[j + 1].node = Append(h[j].node, w)
    BY <2>1, <2>2, OnwardFacts
  <2> QED
    BY <1>2, <2>2, <2>3 DEF Tree
<1>3. \A j \in 0..(J - 1) : j + 1 \in T => j \in T
  BY <1>2
<1>4. \A j \in 0..J : j \in T
  <2> HIDE DEF T
  <2> QED
    BY <1>1, <1>3, StepsDown
<1>5. \A j \in 0..J : h[j].node \in DOMAIN t
  BY <1>4
<1>6. ASSUME NEW j \in 0..(J - 1) PROVE t[h[j].node].c # 0
  <2>1. j + 1 \in 0..J
    OBVIOUS
  <2> QED
    BY <1>2, <1>5, <2>1
<1> QED
  BY <1>5, <1>6

\* A path in the tree has fewer steps than the tree has nodes.
LEMMA Depth ==
    ASSUME NEW t, Tree(t), NEW h, NEW J \in Nat, Chain(h, J), h[J].node \in DOMAIN t
    PROVE  J + 1 <= Cardinality(DOMAIN t) /\ Cardinality(DOMAIN t) \in Nat
<1> DEFINE f == [j \in 0..J |-> h[j].node]
<1>1. f \in [0..J -> DOMAIN t]
  BY ChainInTree
<1>2. ASSUME NEW i \in 0..J, NEW j \in 0..J, f[i] = f[j] PROVE i = j
  <2>1. h[i].node = h[j].node
    BY <1>2
  <2> QED
    BY <2>1 DEF Chain
<1>3. IsFiniteSet(DOMAIN t)
  BY DEF Tree
<1> HIDE DEF f
<1>4. f \in Injection(0..J, DOMAIN t)
  BY <1>1, <1>2 DEF Injection, IsInjective
<1>5. Cardinality(0..J) <= Cardinality(DOMAIN t)
  BY <1>3, <1>4, FS_Injection
<1>6. Cardinality(0..J) = J + 1
  <2>1. Cardinality(0..J) = IF 0 > J THEN 0 ELSE (J - 0) + 1
    BY FS_Interval
  <2> QED
    BY <2>1
<1> QED
  BY <1>3, <1>5, <1>6, FS_CardinalityType

\* A walk goes on until it ends, and then stays where it is.
Ended(w, name, nodes) == w.used = Len(name) \/ w.node \notin nodes
Size(t, name) == Cardinality(DOMAIN t) + Len(name)

LEMMA SizeFacts ==
    ASSUME NEW t, Tree(t), NEW name \in Seq(Chars)
    PROVE  Size(t, name) \in Nat /\ Cardinality(DOMAIN t) \in Nat /\ Len(name) \in Nat
BY FS_CardinalityType DEF Size, Tree

LEMMA WalkIs ==
    ASSUME NEW t, Tree(t), NEW name \in Seq(Chars), NEW way \in Directions, NEW nodes,
           NEW at, at = Walk(t, name, way, nodes)
    PROVE  /\ DOMAIN at = 0..Size(t, name)
           /\ at[0] = AtRoot
           /\ \A j \in 0..(Size(t, name) - 1) :
                 at[j] \in Places =>
                    \/ Ended(at[j], name, nodes) /\ at[j + 1] = at[j]
                    \/ ~Ended(at[j], name, nodes) /\ StepsOn(at, t, name, way, nodes, j)
<1>1. Size(t, name) \in Nat
  BY SizeFacts
<1>2. PICK n \in Nat : n = Size(t, name)
  BY <1>1
<1>3. PICK next : next = [w \in Places |->
                            IF w.used = Len(name) \/ w.node \notin nodes THEN w
                            ELSE Onward(w, way[name[w.used + 1]][NodeAt(t, w.node).c])]
  OBVIOUS
<1>4. PICK first : first = AtRoot
  OBVIOUS
<1>5. PICK g : Goes(g, first, next, n)
  BY Iterated
<1> DEFINE F(f) == f = [j \in 0..n |-> IF j = 0 THEN first ELSE next[f[j - 1]]]
           h == [j \in 0..n |-> g[j]]
<1>6. F(h)
  <2> SUFFICES ASSUME NEW j \in 0..n PROVE g[j] = IF j = 0 THEN first ELSE next[h[j - 1]]
    OBVIOUS
  <2>1. j # 0 => h[j - 1] = g[j - 1]
    OBVIOUS
  <2> QED
    BY <1>5, <2>1 DEF Goes
<1>7. F(at)
  <2>1. at = CHOOSE f : F(f)
    BY <1>2, <1>3, <1>4 DEF Walk, Size
  <2> HIDE DEF F, h
  <2> QED
    BY <1>6, <2>1
<1>8. /\ DOMAIN at = 0..n
      /\ at[0] = first
      /\ \A j \in 1..n : at[j] = next[at[j - 1]]
  <2>1. at = [j \in 0..n |-> IF j = 0 THEN first ELSE next[at[j - 1]]]
    BY <1>7
  <2>2. DOMAIN at = 0..n
    BY <2>1
  <2>3. at[0] = first
    BY <2>1
  <2>4. ASSUME NEW j \in 1..n PROVE at[j] = next[at[j - 1]]
    <3>1. j \in 0..n /\ j # 0
      OBVIOUS
    <3>2. at[j] = IF j = 0 THEN first ELSE next[at[j - 1]]
      <4>1. \A i \in 0..n : at[i] = IF i = 0 THEN first ELSE next[at[i - 1]]
        BY <2>1, Zenon
      <4> QED
        BY <3>1, <4>1, Zenon
    <3> QED
      BY <3>1, <3>2, Zenon
  <2> QED
    BY <2>2, <2>3, <2>4
<1>9. ASSUME NEW j \in 0..(n - 1), at[j] \in Places
      PROVE  \/ Ended(at[j], name, nodes) /\ at[j + 1] = at[j]
             \/ ~Ended(at[j], name, nodes) /\ StepsOn(at, t, name, way, nodes, j)
  <2>1. j + 1 \in 1..n /\ (j + 1) - 1 = j
    OBVIOUS
  <2>2. at[j + 1] = next[at[j]]
    BY <1>8, <2>1
  <2>3. CASE Ended(at[j], name, nodes)
    BY <1>3, <1>9, <2>2, <2>3 DEF Ended
  <2>4. CASE ~Ended(at[j], name, nodes)
    BY <1>3, <1>9, <2>2, <2>4 DEF Ended, StepsOn
  <2> QED
    BY <2>3, <2>4
<1> QED
  BY <1>2, <1>8, <1>9, <1>4

LEMMA WalkFollows ==
    ASSUME NEW t, Tree(t), NEW name \in Seq(Chars), NEW way \in Directions, NEW nodes,
           NEW at, at = Walk(t, name, way, nodes)
    PROVE  \E J \in 0..Size(t, name) :
              /\ Follows(at, t, name, way, nodes, J)
              /\ J = Size(t, name) \/ Ended(at[J], name, nodes)
              /\ \A j \in J..Size(t, name) : at[j] = at[J]
<1> DEFINE n == Size(t, name)
           Stops == {j \in 0..n : j = n \/ Ended(at[j], name, nodes)}
<1>1. n \in Nat
  BY SizeFacts
<1> HIDE DEF n
<1>2. n \in Stops /\ Stops \in SUBSET Nat
  BY <1>1
<1>3. PICK J \in Stops : \A y \in Stops : J <= y
  <2> HIDE DEF Stops
  <2> QED
    BY <1>2, LeastNumber
<1>4. J \in 0..n /\ (J = n \/ Ended(at[J], name, nodes))
  BY <1>3
<1>5. \A j \in 0..(J - 1) : j \in 0..(n - 1) /\ ~Ended(at[j], name, nodes)
  <2> SUFFICES ASSUME NEW j \in 0..(J - 1) PROVE j \in 0..(n - 1) /\ ~Ended(at[j], name, nodes)
    OBVIOUS
  <2>1. j \in 0..n /\ j # n /\ ~(J <= j) /\ j \in 0..(n - 1)
    BY <1>1, <1>4
  <2> QED
    BY <1>3, <2>1
<1>6. at[0] = AtRoot
  BY WalkIs
<1>7. \A j \in 0..(n - 1) :
        at[j] \in Places =>
            \/ Ended(at[j], name, nodes) /\ at[j + 1] = at[j]
            \/ ~Ended(at[j], name, nodes) /\ StepsOn(at, t, name, way, nodes, j)
  BY WalkIs DEF n
<1> DEFINE T == {j \in 0..J : at[j] \in Places /\ at[j].used \in 0..Len(name)}
<1>8. 0 \in T
  BY <1>4, <1>6, RootFacts, SizeFacts
<1>9. ASSUME NEW j \in 0..(J - 1), j \in T
      PROVE  j + 1 \in T
  <2>1. at[j] \in Places /\ at[j].used \in 0..Len(name)
    BY <1>9
  <2>2. StepsOn(at, t, name, way, nodes, j)
    BY <1>5, <1>7, <2>1
  <2>3. j \in Nat /\ j + 1 \in 0..J
    BY <1>4
  <2>4. at[j + 1] \in Places /\ at[j + 1].used \in 0..Len(name)
    BY <2>1, <2>2, <2>3, OneStep
  <2> QED
    BY <2>3, <2>4
<1>10. \A j \in 0..J : j \in T
  <2>1. J \in Nat
    BY <1>4
  <2> HIDE DEF T
  <2> QED
    BY <1>8, <1>9, <2>1, StepsUp
<1>11. ASSUME NEW j \in 0..(J - 1) PROVE StepsOn(at, t, name, way, nodes, j)
  <2>1. j \in T
    BY <1>4, <1>10
  <2> QED
    BY <1>5, <1>7, <2>1
<1>12. Follows(at, t, name, way, nodes, J)
  BY <1>6, <1>11 DEF Follows
<1>13. at[J] \in Places
  <2>1. J \in T
    BY <1>4, <1>10
  <2> QED
    BY <2>1
<1> DEFINE S == {i \in 0..(n - J) : at[J + i] = at[J]}
<1>14. 0 \in S
  BY <1>1, <1>4
<1>15. ASSUME NEW i \in 0..((n - J) - 1), i \in S PROVE i + 1 \in S
  <2>1. /\ J + i \in 0..(n - 1) /\ i + 1 \in 0..(n - J) /\ (J + i) + 1 = J + (i + 1)
        /\ J # n
    BY <1>1, <1>4
  <2>2. at[J + i] = at[J]
    BY <1>15
  <2>3. at[(J + i) + 1] = at[J + i]
    BY <1>4, <1>7, <1>13, <2>1, <2>2
  <2> QED
    BY <2>1, <2>2, <2>3
<1>16. \A i \in 0..(n - J) : i \in S
  <2>1. n - J \in Nat
    BY <1>1, <1>4
  <2> HIDE DEF S
  <2> QED
    BY <1>14, <1>15, <2>1, StepsUp
<1>17. ASSUME NEW j \in J..n PROVE at[j] = at[J]
  <2>1. j - J \in 0..(n - J) /\ J + (j - J) = j
    BY <1>1, <1>4
  <2>2. j - J \in S
    BY <1>16, <2>1
  <2> QED
    BY <2>1, <2>2
<1> HIDE DEF S, T, Stops
<1> QED
  BY <1>4, <1>12, <1>17 DEF n

\* Where a name leads does not depend on who walks.
LEMMA FollowsSame ==
    ASSUME NEW t, NEW name, NEW way, NEW nodes, NEW J \in Nat,
           NEW g, Follows(g, t, name, way, nodes, J),
           NEW h, Follows(h, t, name, way, nodes, J)
    PROVE  \A j \in 0..J : g[j] = h[j]
<1> DEFINE T == {j \in 0..J : g[j] = h[j]}
<1>1. 0 \in T
  BY DEF Follows
<1>2. ASSUME NEW j \in 0..(J - 1), j \in T PROVE j + 1 \in T
  <2>1. j + 1 \in 0..J /\ g[j] = h[j]
    BY <1>2
  <2>2. g[j + 1] = h[j + 1]
    BY <2>1 DEF Follows, StepsOn
  <2> QED
    BY <2>1, <2>2
<1>3. \A j \in 0..J : j \in T
  <2> HIDE DEF T
  <2> QED
    BY <1>1, <1>2, StepsUp
<1> QED
  BY <1>3

\* A name that leads to a node of the tree finds its value.
Finds(h, t, name, J) ==
    /\ Follows(h, t, name, ChildWay, DOMAIN t, J)
    /\ h[J].used = Len(name) /\ h[J].node \in DOMAIN t

LEMMA LookupFinds ==
    ASSUME NEW t, Tree(t), NEW name \in Seq(Chars), NEW h, NEW J \in Nat, Finds(h, t, name, J)
    PROVE  Lookup(t, name) = t[h[J].node].value
<1> DEFINE n == Size(t, name)
           at == Walk(t, name, ChildWay, DOMAIN t)
<1>1. ChildWay \in Directions
  BY DEF Directions
<1>2. \E K \in 0..n :
          /\ Follows(at, t, name, ChildWay, DOMAIN t, K)
          /\ K = n \/ Ended(at[K], name, DOMAIN t)
          /\ \A j \in K..n : at[j] = at[K]
  BY <1>1, WalkFollows
<1> HIDE DEF n, at
<1>3. PICK K \in 0..n :
          /\ Follows(at, t, name, ChildWay, DOMAIN t, K)
          /\ K = n \/ Ended(at[K], name, DOMAIN t)
          /\ \A j \in K..n : at[j] = at[K]
  BY <1>2
<1>4. Chain(h, J)
  BY <1>1, FollowsChain DEF Finds
<1>5. n \in Nat /\ J <= n
  BY <1>4, Depth, SizeFacts DEF Finds, n, Size
<1>6. Ended(h[J], name, DOMAIN t)
  BY DEF Finds, Ended
<1>7. K = J
  <2>1. CASE K < J
    <3>1. Follows(h, t, name, ChildWay, DOMAIN t, K) /\ StepsOn(h, t, name, ChildWay, DOMAIN t, K)
      BY <1>3, <1>5, <2>1 DEF Finds, Follows
    <3>2. at[K] = h[K]
      BY <1>3, <3>1, FollowsSame
    <3>3. K # n
      BY <1>3, <1>5, <2>1
    <3> QED
      BY <1>3, <3>1, <3>2, <3>3 DEF Ended, StepsOn
  <2>2. CASE J < K
    <3>1. Follows(at, t, name, ChildWay, DOMAIN t, J) /\ StepsOn(at, t, name, ChildWay, DOMAIN t, J)
      BY <1>3, <1>5, <2>2 DEF Follows
    <3>2. at[J] = h[J]
      BY <3>1, FollowsSame DEF Finds
    <3> QED
      BY <1>6, <3>1, <3>2 DEF Ended, StepsOn
  <2> QED
    BY <1>3, <1>5, <2>1, <2>2
<1>8. at[n] = h[J]
  <2>1. at[J] = h[J]
    BY <1>3, <1>7, FollowsSame DEF Finds
  <2>2. n \in K..n
    BY <1>3, <1>5
  <2> QED
    BY <1>3, <1>7, <2>1, <2>2
<1> QED
  BY <1>8 DEF Lookup, Finds, at, n, Size

LEMMA LookupMisses ==
    ASSUME NEW t, Tree(t), NEW name \in Seq(Chars), \A J \in Nat : \A h : ~Finds(h, t, name, J)
    PROVE  Lookup(t, name) = None
<1> DEFINE n == Size(t, name)
           at == Walk(t, name, ChildWay, DOMAIN t)
<1>1. ChildWay \in Directions
  BY DEF Directions
<1>2. \E K \in 0..n :
          /\ Follows(at, t, name, ChildWay, DOMAIN t, K)
          /\ K = n \/ Ended(at[K], name, DOMAIN t)
          /\ \A j \in K..n : at[j] = at[K]
  BY <1>1, WalkFollows
<1>3. n \in Nat
  BY SizeFacts
<1> HIDE DEF n, at
<1>4. PICK K \in 0..n :
          /\ Follows(at, t, name, ChildWay, DOMAIN t, K)
          /\ \A j \in K..n : at[j] = at[K]
  BY <1>2
<1>5. n \in K..n /\ K \in Nat
  BY <1>3
<1>6. at[n] = at[K] /\ ~Finds(at, t, name, K)
  BY <1>4, <1>5
<1>7. ~(at[n].used = Len(name) /\ at[n].node \in DOMAIN t)
  BY <1>4, <1>6 DEF Finds
<1> QED
  BY <1>7 DEF Lookup, at, n, Size

-----------------------------------------------------------------------------
(* What an insertion does to the tree                                       *)

\* u is t with x inserted for name, and f the walk of the insertion.
InsertedAt(f, t, u, name, j) ==
    u[f[j].node].c = IF NodeAt(t, f[j].node).c = 0 THEN name[f[j].used + 1]
                     ELSE NodeAt(t, f[j].node).c
Inserted(t, u, name, x, f, J) ==
    /\ J \in Nat
    /\ Follows(f, t, name, InsertWay, Seq(Ways), J) /\ f[J].used = Len(name)
    /\ DOMAIN u = DOMAIN t \cup {f[j].node : j \in 0..J}
    /\ \A j \in 0..(J - 1) : InsertedAt(f, t, u, name, j)
    /\ u[f[J].node].value = x
    /\ \A n \in DOMAIN u : n # f[J].node => u[n].value = NodeAt(t, n).value
    /\ \A n \in DOMAIN u : (\A j \in 0..(J - 1) : n # f[j].node) => u[n].c = NodeAt(t, n).c

\* The walk of an insertion has enough steps for the whole name: it leaves the
\* tree before it has taken as many as the tree has nodes, and off the tree
\* every node is fresh.
LEMMA WalkReachesEnd ==
    ASSUME NEW t, Tree(t), NEW name \in Seq(Chars), NEW at, NEW J \in Nat,
           Follows(at, t, name, InsertWay, Seq(Ways), J),
           J = Size(t, name) \/ Ended(at[J], name, Seq(Ways))
    PROVE  at[J].used = Len(name)
<1> DEFINE size == Cardinality(DOMAIN t)
           T == {j \in 0..J : at[j].node \in DOMAIN t \/ at[j].used + size >= j}
<1>1. size \in Nat /\ Len(name) \in Nat /\ Size(t, name) = size + Len(name)
  BY SizeFacts DEF Size
<1>2. Chain(at, J) /\ \A j \in 0..J : at[j].used \in 0..Len(name)
  <2>1. InsertWay \in Directions
    BY DEF Directions
  <2> QED
    BY <2>1, FollowsChain
<1> HIDE DEF size
<1>3. \A j \in 0..J : at[j].node \in DOMAIN t => j + 1 <= size
  <2> SUFFICES ASSUME NEW j \in 0..J, at[j].node \in DOMAIN t PROVE j + 1 <= size
    OBVIOUS
  <2>1. Chain(at, j)
    BY <1>2 DEF Chain
  <2> QED
    BY <2>1, Depth DEF size
<1>4. 0 \in T
  BY <1>1, RootFacts DEF Follows, Tree
<1>5. ASSUME NEW j \in 0..(J - 1), j \in T PROVE j + 1 \in T
  <2>1. j \in 0..J /\ j + 1 \in 0..J /\ at[j] \in Places
    BY <1>2 DEF Chain
  <2>2. StepsOn(at, t, name, InsertWay, Seq(Ways), j)
    BY DEF Follows
  <2>3. at[j].used \in Nat /\ at[j + 1].used \in Nat
    BY <1>2, <2>1
  <2>4. CASE at[j].node \in DOMAIN t
    BY <1>1, <1>3, <2>1, <2>3, <2>4
  <2>5. CASE at[j].node \notin DOMAIN t
    <3>1. at[j].used \in 0..Len(name) /\ at[j].used # Len(name)
      BY <1>2, <2>1, <2>2 DEF StepsOn
    <3>2. name[at[j].used + 1] \in Int
      <4>1. at[j].used + 1 \in 1..Len(name)
        BY <1>1, <3>1
      <4> QED
        BY <4>1 DEF Chars
    <3>3. NodeAt(t, at[j].node).c = 0
      BY <2>5 DEF NodeAt, FreshNode
    <3>4. at[j + 1] = Onward(at[j], "centre")
      BY <2>2, <3>2, <3>3, WayFacts DEF StepsOn
    <3>5. at[j + 1].used = at[j].used + 1
      BY <2>1, <3>4, OnwardFacts DEF Ways
    <3>6. at[j].used + size >= j
      BY <1>5, <2>5
    <3>7. at[j + 1].used + size >= j + 1
      BY <1>1, <2>3, <3>5, <3>6
    <3> QED
      BY <2>1, <3>7
  <2> QED
    BY <2>4, <2>5
<1>6. J \in T
  <2> HIDE DEF T
  <2>1. \A j \in 0..J : j \in T
    BY <1>4, <1>5, StepsUp
  <2> QED
    BY <2>1
<1>7. at[J].used \in 0..Len(name) /\ at[J].node \in Seq(Ways)
  <2>1. J \in 0..J
    OBVIOUS
  <2> QED
    BY <1>2, <2>1 DEF Chain, Places
<1>8. CASE J = Size(t, name)
  <2>1. at[J].node \notin DOMAIN t
    <3>1. J \in 0..J /\ ~(J + 1 <= size)
      BY <1>1, <1>8
    <3> QED
      BY <1>3, <3>1
  <2>2. at[J].used + size >= J
    BY <1>6, <2>1
  <2> QED
    BY <1>1, <1>7, <1>8, <2>2
<1>9. CASE Ended(at[J], name, Seq(Ways))
  BY <1>7, <1>9 DEF Ended
<1> QED
  BY <1>8, <1>9

LEMMA InsertIs ==
    ASSUME NEW t, Tree(t), NEW name \in Seq(Chars), NEW x
    PROVE  \E f, J : Inserted(t, Insert(t, name, x), name, x, f, J)
<1> DEFINE n == Size(t, name)
           at == Walk(t, name, InsertWay, Seq(Ways))
           u == Insert(t, name, x)
           path == {at[j].node : j \in DOMAIN at}
           used(m) == at[Len(m)].used
<1>0. InsertWay \in Directions
  BY DEF Directions
<1>1. DOMAIN at = 0..n /\ n \in Nat
  BY <1>0, WalkIs, SizeFacts
<1>2. \E J \in 0..n :
          /\ Follows(at, t, name, InsertWay, Seq(Ways), J)
          /\ J = n \/ Ended(at[J], name, Seq(Ways))
          /\ \A j \in J..n : at[j] = at[J]
  BY <1>0, WalkFollows
<1>3. u = [m \in DOMAIN t \cup path |->
            [c     |-> IF m \in path /\ used(m) < Len(name) /\ NodeAt(t, m).c = 0
                       THEN name[used(m) + 1] ELSE NodeAt(t, m).c,
             value |-> IF m \in path /\ used(m) = Len(name) THEN x ELSE NodeAt(t, m).value]]
  BY DEF Insert
<1>4. /\ DOMAIN u = DOMAIN t \cup path
      /\ \A m \in DOMAIN t \cup path :
            /\ u[m].c = IF m \in path /\ used(m) < Len(name) /\ NodeAt(t, m).c = 0
                        THEN name[used(m) + 1] ELSE NodeAt(t, m).c
            /\ u[m].value = IF m \in path /\ used(m) = Len(name) THEN x ELSE NodeAt(t, m).value
  <2> HIDE DEF u, used, path
  <2> QED
    BY <1>3
<1> HIDE DEF n, at, u
<1>5. PICK J \in 0..n :
          /\ Follows(at, t, name, InsertWay, Seq(Ways), J)
          /\ J = n \/ Ended(at[J], name, Seq(Ways))
          /\ \A j \in J..n : at[j] = at[J]
  BY <1>2
<1>6. J \in Nat
  BY <1>1
<1>7. at[J].used = Len(name)
  BY <1>5, <1>6, WalkReachesEnd DEF n
<1>8. Chain(at, J) /\ \A j \in 0..J : at[j].used \in 0..Len(name)
  BY <1>0, <1>5, <1>6, FollowsChain
<1>9. path = {at[j].node : j \in 0..J}
  <2>1. ASSUME NEW j \in 0..n PROVE \E i \in 0..J : at[j] = at[i]
    <3>1. CASE j <= J
      BY <3>1
    <3>2. CASE j >= J
      BY <1>1, <1>5, <1>6, <3>2
    <3> QED
      BY <1>6, <3>1, <3>2
  <2>2. \A j \in 0..J : j \in 0..n
    BY <1>1
  <2>3. path = {at[j].node : j \in 0..n}
    BY <1>1
  <2>4. ASSUME NEW m \in {at[j].node : j \in 0..n} PROVE m \in {at[j].node : j \in 0..J}
    <3>1. PICK j \in 0..n : m = at[j].node
      OBVIOUS
    <3>2. PICK i \in 0..J : at[j] = at[i]
      BY <2>1
    <3> QED
      BY <3>1, <3>2
  <2>5. {at[j].node : j \in 0..J} \subseteq {at[j].node : j \in 0..n}
    BY <2>2
  <2> HIDE DEF path
  <2> QED
    BY <2>3, <2>4, <2>5
<1>10. ASSUME NEW j \in 0..J PROVE at[j].node \in path /\ used(at[j].node) = at[j].used
  BY <1>8, <1>9 DEF Chain
<1>11. ASSUME NEW j \in 0..(J - 1)
       PROVE  /\ j \in 0..J /\ at[j].used < Len(name)
              /\ InsertedAt(at, t, u, name, j)
  <2>1. j \in 0..J
    BY <1>6
  <2>2. at[j].used < Len(name)
    <3>1. at[j].used # Len(name) /\ at[j].used \in 0..Len(name) /\ Len(name) \in Nat
      BY <1>5, <1>8, <2>1 DEF Follows, StepsOn
    <3> QED
      BY <3>1
  <2>3. PICK m : m = at[j].node
    OBVIOUS
  <2>4. m \in path /\ used(m) = at[j].used
    BY <1>10, <2>1, <2>3
  <2>5. u[m].c = IF NodeAt(t, m).c = 0 THEN name[at[j].used + 1] ELSE NodeAt(t, m).c
    <3> HIDE DEF used, path
    <3> QED
      BY <1>4, <2>2, <2>4
  <2> QED
    BY <2>1, <2>2, <2>3, <2>5 DEF InsertedAt
<1>12. u[at[J].node].value = x
  <2>1. J \in 0..J
    BY <1>6
  <2> HIDE DEF used, path
  <2> QED
    BY <1>4, <1>7, <1>10, <2>1
<1>13. ASSUME NEW m \in DOMAIN u, m # at[J].node PROVE u[m].value = NodeAt(t, m).value
  <2>1. ~(m \in path /\ used(m) = Len(name))
    <3> SUFFICES ASSUME m \in path PROVE used(m) # Len(name)
      OBVIOUS
    <3>1. PICK j \in 0..J : m = at[j].node
      BY <1>9
    <3>2. j \in 0..(J - 1)
      BY <1>6, <1>13, <3>1
    <3>3. used(m) = at[j].used /\ at[j].used < Len(name) /\ at[j].used \in 0..Len(name)
      BY <1>8, <1>10, <1>11, <3>1, <3>2
    <3> HIDE DEF used
    <3> QED
      BY <3>3
  <2> HIDE DEF used, path
  <2> QED
    BY <1>4, <2>1
<1>14. ASSUME NEW m \in DOMAIN u, \A j \in 0..(J - 1) : m # at[j].node
       PROVE  u[m].c = NodeAt(t, m).c
  <2>1. ~(m \in path /\ used(m) < Len(name))
    <3> SUFFICES ASSUME m \in path PROVE ~(used(m) < Len(name))
      OBVIOUS
    <3>1. PICK j \in 0..J : m = at[j].node
      BY <1>9
    <3>2. j = J
      BY <1>6, <1>14, <3>1
    <3>3. used(m) = Len(name) /\ Len(name) \in Nat
      BY <1>7, <1>10, <3>1, <3>2
    <3> HIDE DEF used
    <3> QED
      BY <3>3
  <2> HIDE DEF used, path
  <2> QED
    BY <1>4, <2>1
<1>15. DOMAIN u = DOMAIN t \cup {at[j].node : j \in 0..J}
  BY <1>4, <1>9
<1>16. Inserted(t, u, name, x, at, J)
  BY <1>5, <1>6, <1>7, <1>11, <1>12, <1>13, <1>14, <1>15 DEF Inserted
<1> QED
  BY <1>16 DEF u

\* On its way the walk gave every node a character, and a lookup in the new
\* tree goes the same way.
LEMMA PathIsNamed ==
    ASSUME NEW t, Tree(t), NEW name \in Seq(Chars), NEW u, NEW x, NEW f, NEW J,
           Inserted(t, u, name, x, f, J)
    PROVE  /\ Chain(f, J)
           /\ \A j \in 0..(J - 1) : /\ u[f[j].node].c \in Int \ {0}
                                   /\ StepsOn(f, u, name, ChildWay, DOMAIN u, j)
<1>1. J \in Nat /\ Follows(f, t, name, InsertWay, Seq(Ways), J)
  BY DEF Inserted
<1>2. Chain(f, J) /\ \A j \in 0..J : f[j].used \in 0..Len(name)
  <2>1. InsertWay \in Directions
    BY DEF Directions
  <2> QED
    BY <1>1, <2>1, FollowsChain
<1>3. ASSUME NEW j \in 0..(J - 1)
      PROVE  u[f[j].node].c \in Int \ {0} /\ StepsOn(f, u, name, ChildWay, DOMAIN u, j)
  <2>1. j \in 0..J /\ f[j].node \in DOMAIN u
    <3>1. j \in 0..J
      BY <1>1
    <3> QED
      BY <3>1 DEF Inserted
  <2>2. StepsOn(f, t, name, InsertWay, Seq(Ways), j)
    BY <1>1 DEF Follows
  <2>3. PICK c : c = name[f[j].used + 1]
    OBVIOUS
  <2>4. PICK d : d = NodeAt(t, f[j].node).c
    OBVIOUS
  <2>5. c \in Int \ {0}
    <3>1. f[j].used \in 0..Len(name) /\ f[j].used # Len(name) /\ Len(name) \in Nat
      BY <1>2, <2>1, <2>2 DEF StepsOn
    <3>2. f[j].used + 1 \in 1..Len(name)
      BY <3>1
    <3> QED
      BY <2>3, <3>2 DEF Chars
  <2>6. d \in Int
    BY <2>4, NodeFacts
  <2>7. u[f[j].node].c = IF d = 0 THEN c ELSE d
    BY <2>3, <2>4 DEF Inserted, InsertedAt
  <2>8. NodeAt(u, f[j].node).c = IF d = 0 THEN c ELSE d
    BY <2>1, <2>7 DEF NodeAt
  <2>9. ChildWay[c][IF d = 0 THEN c ELSE d] = InsertWay[c][d]
    BY <2>5, <2>6, WayFacts
  <2>10. f[j + 1] = Onward(f[j], InsertWay[c][d])
    BY <2>2, <2>3, <2>4 DEF StepsOn
  <2>11. f[j + 1] = Onward(f[j], ChildWay[c][NodeAt(u, f[j].node).c])
    BY <2>8, <2>9, <2>10
  <2> QED
    BY <2>1, <2>2, <2>3, <2>5, <2>6, <2>7, <2>11 DEF StepsOn
<1> QED
  BY <1>2, <1>3

LEMMA InsertedTree ==
    ASSUME NEW t, Tree(t), NEW name \in Seq(Chars), NEW u, NEW x, NEW f, NEW J,
           Inserted(t, u, name, x, f, J)
    PROVE  Tree(u)
<1> DEFINE path == {f[j].node : j \in 0..J}
<1>1. J \in Nat /\ DOMAIN u = DOMAIN t \cup path
  BY DEF Inserted
<1>2. Chain(f, J) /\ \A j \in 0..(J - 1) : u[f[j].node].c \in Int \ {0}
  BY PathIsNamed
<1>3. path \subseteq Seq(Ways)
  BY <1>2 DEF Chain, Places
<1>4. IsFiniteSet(path)
  <2> DEFINE g == [j \in 0..J |-> f[j].node]
  <2>1. g \in Surjection(0..J, path)
    BY DEF Surjection
  <2>2. IsFiniteSet(0..J)
    BY <1>1, FS_Interval
  <2> HIDE DEF g, path
  <2> QED
    BY <2>1, <2>2, FS_Surjection
<1>5. IsFiniteSet(DOMAIN u)
  <2>1. IsFiniteSet(DOMAIN t)
    BY DEF Tree
  <2> HIDE DEF path
  <2>2. IsFiniteSet(DOMAIN t \cup path)
    BY <1>4, <2>1, FS_Union
  <2> QED
    BY <1>1, <2>2
<1>6. DOMAIN u \subseteq Seq(Ways) /\ Root \in DOMAIN u
  BY <1>1, <1>3 DEF Tree
<1>7. ASSUME NEW n \in DOMAIN u PROVE u[n].c \in Int
  <2>1. CASE \E j \in 0..(J - 1) : n = f[j].node
    BY <1>2, <2>1
  <2>2. CASE \A j \in 0..(J - 1) : n # f[j].node
    <3>1. u[n].c = NodeAt(t, n).c
      BY <2>2 DEF Inserted
    <3> QED
      BY <3>1, NodeFacts
  <2> QED
    BY <2>1, <2>2
<1>8. ASSUME NEW n \in Seq(Ways), NEW way \in Ways, Append(n, way) \in DOMAIN u
      PROVE  n \in DOMAIN u /\ u[n].c # 0
  <2>1. CASE Append(n, way) \in DOMAIN t
    <3>1. n \in DOMAIN t /\ t[n].c # 0
      BY <2>1 DEF Tree
    <3>2. CASE \E j \in 0..(J - 1) : n = f[j].node
      BY <1>1, <1>2, <3>1, <3>2
    <3>3. CASE \A j \in 0..(J - 1) : n # f[j].node
      <4>1. n \in DOMAIN u
        BY <1>1, <3>1
      <4>2. u[n].c = NodeAt(t, n).c
        BY <3>3, <4>1 DEF Inserted
      <4> QED
        BY <3>1, <4>1, <4>2 DEF NodeAt
    <3> QED
      BY <3>2, <3>3
  <2>2. CASE Append(n, way) \in path
    <3>1. PICK i \in 0..J : Append(n, way) = f[i].node
      BY <2>2
    <3>2. i # 0
      <4>1. f[0].node = Root /\ Append(n, way) # <<>>
        BY <1>2, RootFacts, AppendProperties DEF Chain
      <4> QED
        BY <3>1, <4>1 DEF Root
    <3>3. i - 1 \in 0..(J - 1) /\ (i - 1) + 1 = i /\ i - 1 \in 0..J
      BY <1>1, <3>2
    <3>4. PICK w \in Ways : f[i] = Onward(f[i - 1], w)
      BY <1>2, <3>3 DEF Chain
    <3>5. f[i - 1].node \in Seq(Ways) /\ f[i].node = Append(f[i - 1].node, w)
      BY <1>2, <3>3, <3>4, OnwardFacts DEF Chain, Places
    <3>6. n = f[i - 1].node
      BY <3>1, <3>5, AppendInjective
    <3> QED
      BY <1>1, <1>2, <3>3, <3>6
  <2> QED
    BY <1>1, <1>8, <2>1, <2>2
<1> QED
  BY <1>5, <1>6, <1>7, <1>8 DEF Tree

\* What had a character keeps it.
LEMMA NamesKept ==
    ASSUME NEW t, Tree(t), NEW name \in Seq(Chars), NEW u, NEW x, NEW f, NEW J,
           Inserted(t, u, name, x, f, J), NEW n \in DOMAIN t
    PROVE  n \in DOMAIN u /\ (t[n].c # 0 => u[n].c = t[n].c)
<1>1. n \in DOMAIN u /\ NodeAt(t, n) = t[n]
  BY DEF Inserted, NodeAt
<1>2. CASE \E j \in 0..(J - 1) : n = f[j].node
  BY <1>1, <1>2 DEF Inserted, InsertedAt
<1>3. CASE \A j \in 0..(J - 1) : n # f[j].node
  BY <1>1, <1>3 DEF Inserted
<1> QED
  BY <1>1, <1>2, <1>3

\* So that a lookup that ends at an old node goes the same way in both trees.
LEMMA OldWayKept ==
    ASSUME NEW t, Tree(t), NEW name \in Seq(Chars), NEW u, NEW x, NEW f, NEW J,
           Inserted(t, u, name, x, f, J),
           NEW k \in Seq(Chars), NEW h, NEW K \in Nat, h[K].node \in DOMAIN t
    PROVE  Finds(h, t, k, K) <=> Finds(h, u, k, K)
<1>1. ChildWay \in Directions /\ Tree(u)
  BY InsertedTree DEF Directions
<1>2. ASSUME Chain(h, K), NEW j \in 0..(K - 1)
      PROVE  StepsOn(h, t, k, ChildWay, DOMAIN t, j) <=> StepsOn(h, u, k, ChildWay, DOMAIN u, j)
  <2>1. j \in 0..K
    OBVIOUS
  <2>2. h[j].node \in DOMAIN t /\ t[h[j].node].c # 0
    BY <1>2, <2>1, ChainInTree
  <2>3. h[j].node \in DOMAIN u /\ u[h[j].node].c = t[h[j].node].c
    BY <2>2, NamesKept
  <2>4. NodeAt(t, h[j].node).c = NodeAt(u, h[j].node).c
    BY <2>2, <2>3 DEF NodeAt
  <2> QED
    BY <2>2, <2>3, <2>4 DEF StepsOn
<1>3. Finds(h, t, k, K) => Chain(h, K)
  BY <1>1, FollowsChain DEF Finds
<1>4. Finds(h, u, k, K) => Chain(h, K)
  BY <1>1, FollowsChain DEF Finds
<1>5. h[K].node \in DOMAIN u
  BY NamesKept
<1> QED
  BY <1>2, <1>3, <1>4, <1>5 DEF Finds, Follows

\* Two names that lead to the same node are the same.
LEMMA NodeHasOneName ==
    ASSUME NEW u, Tree(u), NEW k \in Seq(Chars), NEW h, NEW K \in Nat, Finds(h, u, k, K),
           NEW m \in Seq(Chars), NEW g, NEW L \in Nat, Finds(g, u, m, L),
           h[K].node = g[L].node
    PROVE  k = m
<1>1. /\ Chain(h, K) /\ \A j \in 0..K : h[j].used \in 0..Len(k)
      /\ Chain(g, L) /\ \A j \in 0..L : g[j].used \in 0..Len(m)
  BY FollowsChain DEF Finds, Directions
<1>2. K = L
  <2>1. K \in 0..K /\ L \in 0..L
    OBVIOUS
  <2>2. Len(h[K].node) = K /\ Len(g[L].node) = L
    BY <1>1, <2>1 DEF Chain
  <2> QED
    BY <2>2
<1>3. ASSUME NEW j \in 0..(K - 1), h[j + 1].node = g[j + 1].node
      PROVE  /\ h[j].node = g[j].node
             /\ \E w \in Ways : h[j + 1] = Onward(h[j], w) /\ g[j + 1] = Onward(g[j], w)
  <2>1. PICK w \in Ways : h[j + 1] = Onward(h[j], w)
    BY <1>1 DEF Chain
  <2>2. PICK v \in Ways : g[j + 1] = Onward(g[j], v)
    BY <1>1, <1>2 DEF Chain
  <2>3. j \in 0..K
    OBVIOUS
  <2>4. h[j] \in Places /\ g[j] \in Places
    BY <1>1, <1>2, <2>3 DEF Chain
  <2>5. Onward(h[j], w).node = Onward(g[j], v).node
    BY <1>3, <2>1, <2>2
  <2>6. h[j].node = g[j].node /\ w = v
    BY <2>4, <2>5, OnwardInjective
  <2> QED
    BY <2>1, <2>2, <2>6
<1> DEFINE T == {j \in 0..K : h[j].node = g[j].node}
<1>4. \A j \in 0..K : j \in T
  <2>1. K \in T
    BY <1>2
  <2>2. \A j \in 0..(K - 1) : j + 1 \in T => j \in T
    BY <1>3
  <2> HIDE DEF T
  <2> QED
    BY <2>1, <2>2, StepsDown
<1> DEFINE S == {j \in 0..K : h[j].used = g[j].used /\ \A i \in 1..h[j].used : k[i] = m[i]}
<1>5. 0 \in S
  BY <1>1, RootFacts DEF Chain
<1>6. ASSUME NEW j \in 0..(K - 1), j \in S PROVE j + 1 \in S
  <2>1. j \in 0..K /\ j + 1 \in 0..K
    OBVIOUS
  <2>2. h[j].node = g[j].node /\ h[j + 1].node = g[j + 1].node
    <3>1. j \in T /\ j + 1 \in T
      BY <1>4, <2>1
    <3> QED
      BY <3>1
  <2>3. PICK w \in Ways : h[j + 1] = Onward(h[j], w) /\ g[j + 1] = Onward(g[j], w)
    BY <1>3, <2>2
  <2>4. h[j] \in Places /\ g[j] \in Places
    BY <1>1, <1>2, <2>1 DEF Chain
  <2>5. PICK b \in Nat : b = h[j].used /\ b = g[j].used
    BY <1>6, <2>4 DEF Places
  <2>6. \A i \in 1..b : k[i] = m[i]
    BY <1>6, <2>5
  <2>7. PICK p \in Places, q \in Places : p = h[j] /\ q = g[j]
    BY <2>4
  <2>8. Onward(p, w).used = IF w = "centre" THEN b + 1 ELSE b
    BY <2>5, <2>7, OnwardFacts
  <2>9. Onward(q, w).used = IF w = "centre" THEN b + 1 ELSE b
    BY <2>5, <2>7, OnwardFacts
  <2>10. CASE w # "centre"
    <3>1. h[j + 1].used = b /\ g[j + 1].used = b
      BY <2>3, <2>7, <2>8, <2>9, <2>10
    <3> QED
      BY <2>1, <2>6, <3>1
  <2>11. CASE w = "centre"
    <3>1. h[j + 1].used = b + 1 /\ g[j + 1].used = b + 1
      BY <2>3, <2>7, <2>8, <2>9, <2>11
    <3>2. PICK d \in Int : d = NodeAt(u, h[j].node).c
      BY NodeFacts
    <3>3. /\ StepsOn(h, u, k, ChildWay, DOMAIN u, j)
          /\ StepsOn(g, u, m, ChildWay, DOMAIN u, j)
      BY <1>2 DEF Finds, Follows
    <3>4. b + 1 \in 1..Len(k) /\ b + 1 \in 1..Len(m)
      <4>1. b \in 0..Len(k) /\ b \in 0..Len(m) /\ b # Len(k) /\ b # Len(m)
        BY <1>1, <1>2, <2>1, <2>5, <3>3 DEF StepsOn
      <4>2. Len(k) \in Nat /\ Len(m) \in Nat
        OBVIOUS
      <4> QED
        BY <4>1, <4>2
    <3>5. k[b + 1] \in Int /\ m[b + 1] \in Int
      BY <3>4 DEF Chars
    <3>6. /\ h[j + 1] = Onward(p, ChildWay[k[b + 1]][d])
          /\ g[j + 1] = Onward(q, ChildWay[m[b + 1]][d])
      BY <2>2, <2>5, <2>7, <3>2, <3>3 DEF StepsOn
    <3>7. ChildWay[k[b + 1]][d] \in Ways /\ ChildWay[m[b + 1]][d] \in Ways
      BY <3>5, WayFacts DEF Directions
    <3>8. ChildWay[k[b + 1]][d] = "centre" /\ ChildWay[m[b + 1]][d] = "centre"
      <4>1. h[j + 1] = Onward(p, w) /\ g[j + 1] = Onward(q, w)
        BY <2>3, <2>7
      <4>2. ChildWay[k[b + 1]][d] = w
        <5>1. PICK v \in Ways : v = ChildWay[k[b + 1]][d]
          BY <3>7
        <5>2. Onward(p, v).node = Onward(p, w).node
          BY <3>6, <4>1, <5>1
        <5>3. v = w
          BY <5>2, OnwardInjective
        <5> QED
          BY <5>1, <5>3
      <4>3. ChildWay[m[b + 1]][d] = w
        <5>1. PICK v \in Ways : v = ChildWay[m[b + 1]][d]
          BY <3>7
        <5>2. Onward(q, v).node = Onward(q, w).node
          BY <3>6, <4>1, <5>1
        <5>3. v = w
          BY <5>2, OnwardInjective
        <5> QED
          BY <5>1, <5>3
      <4> QED
        BY <2>11, <4>2, <4>3
    <3>9. k[b + 1] = d /\ m[b + 1] = d
      BY <3>5, <3>8, WayFacts
    <3>10. \A i \in 1..(b + 1) : k[i] = m[i]
      <4> SUFFICES ASSUME NEW i \in 1..(b + 1) PROVE k[i] = m[i]
        OBVIOUS
      <4>1. i \in 1..b \/ i = b + 1
        OBVIOUS
      <4> QED
        BY <2>6, <3>9, <4>1
    <3> QED
      BY <2>1, <3>1, <3>10
  <2> QED
    BY <2>10, <2>11
<1>7. K \in S
  <2> HIDE DEF S
  <2>1. \A j \in 0..K : j \in S
    BY <1>5, <1>6, StepsUp
  <2> QED
    BY <2>1
<1>8. Len(k) = Len(m) /\ \A i \in 1..Len(k) : k[i] = m[i]
  BY <1>2, <1>7 DEF Finds
<1> QED
  BY <1>8, SeqEqual

\* After an insertion every name leads to what it led to before, except the
\* one inserted: trie.c is a map.
THEOREM InsertedIsFound ==
    ASSUME NEW t, Tree(t), NEW name \in Seq(Chars), NEW x, NEW k \in Seq(Chars)
    PROVE  /\ Tree(Insert(t, name, x))
           /\ Lookup(Insert(t, name, x), k) = IF k = name THEN x ELSE Lookup(t, k)
<1>1. PICK u : u = Insert(t, name, x)
  OBVIOUS
<1>2. PICK f, J : Inserted(t, u, name, x, f, J)
  BY <1>1, InsertIs
<1>3. Tree(u)
  BY <1>2, InsertedTree
<1>4. J \in Nat /\ Finds(f, u, name, J) /\ u[f[J].node].value = x
  <2>1. J \in 0..J
    BY <1>2 DEF Inserted
  <2> QED
    BY <1>2, <2>1, PathIsNamed DEF Inserted, Finds, Follows
<1>5. CASE k = name
  BY <1>1, <1>3, <1>4, <1>5, LookupFinds
<1>6. ASSUME k # name PROVE Lookup(u, k) = Lookup(t, k)
  <2>1. ASSUME NEW h, NEW K \in Nat, Finds(h, u, k, K)
        PROVE  h[K].node # f[J].node /\ u[h[K].node].value = NodeAt(t, h[K].node).value
    <3>1. h[K].node # f[J].node
      BY <1>3, <1>4, <1>6, <2>1, NodeHasOneName
    <3>2. h[K].node \in DOMAIN u
      BY <2>1 DEF Finds
    <3> QED
      BY <1>2, <3>1, <3>2 DEF Inserted
  <2>2. ASSUME NEW h, NEW K \in Nat, Finds(h, t, k, K) PROVE Lookup(u, k) = Lookup(t, k)
    <3>1. h[K].node \in DOMAIN t /\ Lookup(t, k) = t[h[K].node].value
      BY <2>2, LookupFinds DEF Finds
    <3>2. Finds(h, u, k, K)
      BY <1>2, <2>2, <3>1, OldWayKept
    <3>3. Lookup(u, k) = u[h[K].node].value
      BY <1>3, <3>2, LookupFinds
    <3> QED
      BY <2>1, <3>1, <3>2, <3>3 DEF NodeAt
  <2>3. ASSUME \A K \in Nat : \A h : ~Finds(h, t, k, K) PROVE Lookup(u, k) = Lookup(t, k)
    <3>1. Lookup(t, k) = None
      BY <2>3, LookupMisses
    <3>2. ASSUME NEW h, NEW K \in Nat, Finds(h, u, k, K) PROVE Lookup(u, k) = None
      <4>1. Lookup(u, k) = u[h[K].node].value
        BY <1>3, <3>2, LookupFinds
      <4>2. h[K].node \notin DOMAIN t
        BY <1>2, <2>3, <3>2, OldWayKept
      <4> QED
        BY <2>1, <3>2, <4>1, <4>2 DEF NodeAt, FreshNode
    <3>3. CASE \A K \in Nat : \A h : ~Finds(h, u, k, K)
      BY <1>3, <3>1, <3>3, LookupMisses
    <3> QED
      BY <3>1, <3>2, <3>3
  <2> QED
    BY <2>2, <2>3
<1> QED
  BY <1>1, <1>3, <1>5, <1>6

\* A tree that nothing was inserted in has no name.
LEMMA EmptyHasNone ==
    /\ Tree(EmptyTrie)
    /\ \A k \in Seq(Chars) : Lookup(EmptyTrie, k) = None
<1>1. DOMAIN EmptyTrie = {Root} /\ EmptyTrie[Root] = FreshNode
  BY DEF EmptyTrie
<1>2. Tree(EmptyTrie)
  <2>1. IsFiniteSet({Root}) /\ Root \in Seq(Ways)
    <3>1. IsFiniteSet({Root})
      BY FS_Singleton
    <3>2. Root \in Seq(Ways)
      BY DEF Root
    <3> QED
      BY <3>1, <3>2
  <2>2. EmptyTrie[Root].c = 0
    BY <1>1 DEF FreshNode
  <2>3. ASSUME NEW n \in Seq(Ways), NEW way \in Ways PROVE Append(n, way) # Root
    BY AppendProperties DEF Root
  <2> QED
    BY <1>1, <2>1, <2>2, <2>3 DEF Tree
<1>3. ASSUME NEW k \in Seq(Chars) PROVE Lookup(EmptyTrie, k) = None
  <2>1. CASE \A K \in Nat : \A h : ~Finds(h, EmptyTrie, k, K)
    BY <1>2, <2>1, LookupMisses
  <2>2. ASSUME NEW K \in Nat, NEW h, Finds(h, EmptyTrie, k, K) PROVE Lookup(EmptyTrie, k) = None
    <3>1. Lookup(EmptyTrie, k) = EmptyTrie[h[K].node].value /\ h[K].node \in DOMAIN EmptyTrie
      BY <1>2, <2>2, LookupFinds DEF Finds
    <3> QED
      BY <1>1, <3>1 DEF FreshNode
  <2> QED
    BY <2>1, <2>2
<1> QED
  BY <1>2, <1>3

-----------------------------------------------------------------------------
(* The options file                                                         *)

\* The buffers hold characters, and the tree is one that insertions made.
ConfigInv ==
    /\ Tree(opt_trie)
    /\ key \in Seq(Chars) /\ value \in Seq(Chars)
    /\ file \in Seq(Lines)
    /\ strayed \in Nat

LEMMA LineFacts ==
    ASSUME NEW l \in Lines \cup Strays
    PROVE  l.key \in Seq(Chars) /\ l.value \in Seq(Chars)
BY ConfigAssumption

LEMMA KeysAreNames == Keys \subseteq Seq(Chars)
<1> SUFFICES ASSUME NEW l \in Lines \cup Strays, NEW k \in 0..Len(l.key)
             PROVE  SubSeq(l.key, 1, k) \in Seq(Chars)
  BY DEF Keys
<1>1. PICK n \in Seq(Chars) : n = l.key
  BY LineFacts
<1>2. k \in 0..Len(n) /\ Len(n) \in Nat
  BY <1>1
<1>3. \A i \in 1..k : n[i] \in Chars
  BY <1>2
<1>4. SubSeq(n, 1, k) \in Seq(Chars)
  BY <1>2, <1>3, SubSeqProperties
<1> QED
  BY <1>1, <1>4

\* What stays of the buffer behind a new value.
LEMMA OverlayFacts ==
    ASSUME NEW new \in Seq(Chars), NEW old \in Seq(Chars)
    PROVE  /\ Overlay(new, old) \in Seq(Chars)
           /\ Len(new) >= Len(old) => Overlay(new, old) = new
<1> DEFINE rest == SubSeq(old, Len(new) + 1, Len(old))
<1>1. rest \in Seq(Chars)
  <2>1. Len(new) \in Nat /\ Len(old) \in Nat
    OBVIOUS
  <2>2. \A i \in (Len(new) + 1)..Len(old) : old[i] \in Chars
    BY <2>1
  <2> QED
    BY <2>1, <2>2, SubSeqProperties
<1>2. Len(new) >= Len(old) => rest = <<>>
  <2>1. Len(new) \in Nat /\ Len(old) \in Nat
    OBVIOUS
  <2> QED
    BY <2>1, SubSeqEmpty
<1>3. Overlay(new, old) = new \o rest
  BY DEF Overlay
<1> HIDE DEF rest
<1> QED
  BY <1>1, <1>2, <1>3, ConcatProperties, ConcatEmptySeq

\* What one line does to the buffers and to the options.
LEMMA ScanFacts ==
    ASSUME ConfigInv, NEW l \in Lines \cup Strays, Scan(l)
    PROVE  /\ Tree(opt_trie)' /\ key' \in Seq(Chars) /\ value' \in Seq(Chars)
           /\ \A k \in Seq(Chars) :
                 Lookup(opt_trie, k)' = IF k = key' THEN value' ELSE Lookup(opt_trie, k)
<1>1. l.key \in Seq(Chars) /\ l.value \in Seq(Chars)
  BY LineFacts
<1>2. key' \in Seq(Chars) /\ value' \in Seq(Chars)
  BY <1>1, OverlayFacts DEF Scan, ConfigInv
<1>3. opt_trie' = Insert(opt_trie, key', value') /\ Tree(opt_trie)
  BY DEF Scan, ConfigInv
<1>4. \A n \in Seq(Chars), x, k \in Seq(Chars) :
          /\ Tree(Insert(opt_trie, n, x))
          /\ Lookup(Insert(opt_trie, n, x), k) = IF k = n THEN x ELSE Lookup(opt_trie, k)
  BY <1>3, InsertedIsFound
<1> QED
  BY <1>2, <1>3, <1>4

\* A step reads a line, of the file or from behind it, or leaves the options
\* alone.
LEMMA ConfigStep ==
    ASSUME [Next]_startupVars
    PROVE  \/ \E l \in Lines : ReadLine(l)
           \/ \E l \in Strays : ReadStray(l)
           \/ UNCHANGED configVars
BY DEF Next, ReadConfig, ConfigRead, NoConfigFile, Refuse, Ignore, NavdataFromVrep, Again,
       NoSimulator, FromVrep, FromElsewhere, Option, BuildFtpTrie, StartFtp, StartComm, StartVideo,
       StartNavdata, BuildControlTrie, StartControl, BuildTrie, Start, PassOver, Prepares,
       startupVars

LEMMA ConfigInvInit == Init => ConfigInv
<1> SUFFICES ASSUME Init PROVE ConfigInv
  OBVIOUS
<1>1. opt_trie = EmptyTrie /\ key = <<>> /\ value = <<>> /\ file = <<>> /\ strayed = 0
  BY DEF Init, ConfigInit
<1>2. <<>> \in Seq(Chars) /\ <<>> \in Seq(Lines)
  OBVIOUS
<1> QED
  BY <1>1, <1>2, EmptyHasNone DEF ConfigInv

LEMMA ConfigInvNext ==
    ASSUME ConfigInv, [Next]_startupVars PROVE ConfigInv'
<1>1. ASSUME NEW l \in Lines, ReadLine(l) PROVE ConfigInv'
  <2>1. Scan(l) /\ file' = Append(file, l) /\ strayed' = strayed
    BY <1>1 DEF ReadLine
  <2>2. Tree(opt_trie)' /\ key' \in Seq(Chars) /\ value' \in Seq(Chars)
    BY <2>1, ScanFacts
  <2>3. file' \in Seq(Lines)
    BY <2>1, AppendProperties DEF ConfigInv
  <2> QED
    BY <2>1, <2>2, <2>3 DEF ConfigInv
<1>2. ASSUME NEW l \in Strays, ReadStray(l) PROVE ConfigInv'
  <2>1. Scan(l) /\ file' = file /\ strayed' = strayed + 1
    BY <1>2 DEF ReadStray
  <2>2. Tree(opt_trie)' /\ key' \in Seq(Chars) /\ value' \in Seq(Chars)
    BY <2>1, ScanFacts
  <2> QED
    BY <2>1, <2>2 DEF ConfigInv
<1>3. CASE UNCHANGED configVars
  BY <1>3 DEF ConfigInv, configVars
<1> QED
  BY <1>1, <1>2, <1>3, ConfigStep

LEMMA ConfigInvAlways == Spec => []ConfigInv
<1>1. ConfigInv /\ [Next]_startupVars => ConfigInv'
  BY ConfigInvNext
<1> QED
  BY <1>1, ConfigInvInit, PTL DEF Spec

\* A line, wherever it comes from, is one option put.
LEMMA ScanIsPut ==
    ASSUME ConfigInv, NEW l \in Lines \cup Strays, Scan(l)
    PROVE  Options' = [Options EXCEPT ![key'] = value']
<1>1. \A k \in Keys : Lookup(opt_trie, k)' = IF k = key' THEN value' ELSE Lookup(opt_trie, k)
  BY ScanFacts, KeysAreNames
<1>2. Options' = [k \in Keys |-> Lookup(opt_trie, k)']
  BY DEF Options
<1>3. [Options EXCEPT ![key'] = value'] =
          [k \in Keys |-> IF k = key' THEN value' ELSE Lookup(opt_trie, k)]
  BY DEF Options
<1> QED
  BY <1>1, <1>2, <1>3

\* Read into the tree of trie.c, line by line, the options are a map from
\* names to values, for files of any length with any names and values.
THEOREM OptionsAreMap == Spec => ImplementsMap
<1>1. Init => Map!MapInit
  <2> SUFFICES ASSUME Init PROVE Map!MapInit
    OBVIOUS
  <2>1. opt_trie = EmptyTrie /\ file = <<>> /\ strayed = 0
    BY DEF Init, ConfigInit
  <2>2. Options = [k \in Keys |-> None]
    BY <2>1, EmptyHasNone, KeysAreNames DEF Options
  <2>3. Len(file) + strayed = 0
    BY <2>1
  <2> QED
    BY <2>2, <2>3 DEF Map!MapInit
<1>2. ConfigInv /\ [Next]_startupVars => [Map!Put]_(Map!mapVars)
  <2> SUFFICES ASSUME ConfigInv, [Next]_startupVars PROVE Map!Put \/ UNCHANGED Map!mapVars
    OBVIOUS
  <2>1. ASSUME NEW l \in Lines, ReadLine(l) PROVE Map!Put
    <3>1. strayed = 0 /\ Scan(l) /\ file' = Append(file, l) /\ strayed' = strayed
      BY <2>1 DEF ReadLine
    <3>2. Options' = [Options EXCEPT ![key'] = value']
      BY <3>1, ScanIsPut
    <3>3. Len(file') = Len(file) + 1 /\ Len(file) \in Nat
      BY <3>1, AppendProperties DEF ConfigInv
    <3>4. (Len(file) + strayed)' = (Len(file) + strayed) + 1
      BY <3>1, <3>3
    <3> QED
      BY <3>2, <3>4 DEF Map!Put
  <2>2. ASSUME NEW l \in Strays, ReadStray(l) PROVE Map!Put
    <3>1. Scan(l) /\ file' = file /\ strayed' = strayed + 1
      BY <2>2 DEF ReadStray
    <3>2. Options' = [Options EXCEPT ![key'] = value']
      BY <3>1, ScanIsPut
    <3>3. (Len(file) + strayed)' = (Len(file) + strayed) + 1
      <4>1. Len(file) \in Nat /\ strayed \in Nat
        BY DEF ConfigInv
      <4> QED
        BY <3>1, <4>1
    <3> QED
      BY <3>2, <3>3 DEF Map!Put
  <2>3. CASE UNCHANGED configVars
    BY <2>3 DEF configVars, Map!mapVars, Options
  <2> QED
    BY <2>1, <2>2, <2>3, ConfigStep
<1> QED
  BY <1>1, <1>2, ConfigInvAlways, PTL DEF Spec, ImplementsMap, Map!MapSpec

-----------------------------------------------------------------------------
(* A plain file                                                             *)

Named(lines, k) == \E i \in DOMAIN lines : lines[i].key = k
InForce(lines, i, k) ==
    /\ i \in DOMAIN lines /\ lines[i].key = k
    /\ \A j \in (i + 1)..Len(lines) : lines[j].key # k

\* While the file read so far is plain, the value buffer holds the value of
\* its last line and nothing else, and the tree has for every name the value
\* in force.
HoldsLast(lines) == value = IF lines = <<>> THEN <<>> ELSE lines[Len(lines)].value
HasValue(lines, k) ==
    IF Named(lines, k) THEN \E i \in DOMAIN lines : InForce(lines, i, k) /\ Lookup(opt_trie, k) = lines[i].value
    ELSE Lookup(opt_trie, k) = None
PlainInv ==
    Plain(file) /\ strayed = 0 => HoldsLast(file) /\ \A k \in Seq(Chars) : HasValue(file, k)

\* The line in force for a name is the one LastFor finds.
LEMMA LastForIs ==
    ASSUME NEW lines \in Seq(Lines), NEW k, NEW i, InForce(lines, i, k)
    PROVE  LastFor(lines, k) = i
<1> DEFINE P(j) == lines[j].key = k /\ \A m \in (j + 1)..Len(lines) : lines[m].key # k
<1>1. i \in DOMAIN lines /\ P(i) /\ DOMAIN lines = 1..Len(lines) /\ Len(lines) \in Nat
  BY DEF InForce
<1>2. ASSUME NEW j \in DOMAIN lines, P(j) PROVE j = i
  <2>1. CASE j < i
    <3>1. i \in (j + 1)..Len(lines)
      BY <1>1, <2>1
    <3> QED
      BY <1>1, <1>2, <3>1
  <2>2. CASE i < j
    <3>1. j \in (i + 1)..Len(lines)
      BY <1>1, <2>2
    <3> QED
      BY <1>1, <1>2, <3>1
  <2> QED
    BY <1>1, <2>1, <2>2
<1>3. LastFor(lines, k) = CHOOSE j \in DOMAIN lines : P(j)
  BY DEF LastFor
<1> HIDE DEF P
<1> QED
  BY <1>1, <1>2, <1>3

\* One more line in the file.
LEMMA OneMoreLine ==
    ASSUME NEW lines \in Seq(Lines), NEW l \in Lines, Plain(Append(lines, l))
    PROVE  /\ Plain(lines)
           /\ l.kind = "full"
           /\ lines # <<>> => Len(l.value) >= Len(lines[Len(lines)].value)
<1> DEFINE more == Append(lines, l)
           n == Len(lines)
<1>1. /\ n \in Nat /\ DOMAIN lines = 1..n
      /\ more \in Seq(Lines) /\ Len(more) = n + 1 /\ DOMAIN more = 1..(n + 1)
      /\ \A i \in 1..n : more[i] = lines[i]
      /\ more[n + 1] = l
  BY AppendProperties
<1>2. /\ \A i \in 1..(n + 1) : more[i].kind = "full"
      /\ \A i \in 2..(n + 1) : Len(more[i].value) >= Len(more[i - 1].value)
  BY <1>1 DEF Plain
<1>3. lines # <<>> => n # 0
  OBVIOUS
<1> HIDE DEF more, n
<1>4. l.kind = "full"
  BY <1>1, <1>2
<1>5. ASSUME NEW i \in 1..n PROVE lines[i].kind = "full"
  BY <1>1, <1>2
<1>6. ASSUME NEW i \in 2..n PROVE Len(lines[i].value) >= Len(lines[i - 1].value)
  <2>1. i \in 1..n /\ i - 1 \in 1..n /\ i \in 2..(n + 1)
    BY <1>1
  <2> QED
    BY <1>1, <1>2, <2>1
<1>7. ASSUME n # 0 PROVE Len(l.value) >= Len(lines[n].value)
  <2>1. n + 1 \in 2..(n + 1) /\ (n + 1) - 1 = n /\ n \in 1..n
    BY <1>1, <1>7
  <2>2. Len(more[n + 1].value) >= Len(more[(n + 1) - 1].value)
    BY <1>2, <2>1
  <2> QED
    BY <1>1, <2>1, <2>2
<1>8. Plain(lines)
  BY <1>1, <1>5, <1>6 DEF Plain, n
<1> QED
  BY <1>3, <1>4, <1>7, <1>8 DEF n

LEMMA PlainLine ==
    ASSUME ConfigInv, PlainInv, NEW l \in Lines, ReadLine(l), Plain(file')
    PROVE  (HoldsLast(file) /\ \A k \in Seq(Chars) : HasValue(file, k))'
<1>1. strayed = 0 /\ Scan(l) /\ file' = Append(file, l) /\ strayed' = strayed
  BY DEF ReadLine
<1>2. PICK n \in Nat : n = Len(file)
  BY DEF ConfigInv
<1>3. /\ DOMAIN file = 1..n
      /\ Len(file') = n + 1 /\ DOMAIN file' = 1..(n + 1)
      /\ \A i \in 1..n : file'[i] = file[i]
      /\ file'[n + 1] = l
  BY <1>1, <1>2, AppendProperties DEF ConfigInv
<1>4. /\ Plain(file) /\ l.kind = "full"
      /\ file # <<>> => Len(l.value) >= Len(file[n].value)
  BY <1>1, <1>2, OneMoreLine DEF ConfigInv
<1>5. HoldsLast(file) /\ \A k \in Seq(Chars) : HasValue(file, k)
  BY <1>1, <1>4 DEF PlainInv
<1>6. l.key \in Seq(Chars) /\ l.value \in Seq(Chars)
  BY LineFacts
<1>7. key' = l.key /\ value' = l.value
  <2>1. Len(l.value) >= Len(value)
    <3>1. CASE file = <<>>
      <4>1. Len(value) = 0 /\ Len(l.value) \in Nat
        BY <1>5, <1>6, <3>1 DEF HoldsLast
      <4> QED
        BY <4>1
    <3>2. CASE file # <<>>
      BY <1>2, <1>4, <1>5, <3>2 DEF HoldsLast
    <3> QED
      BY <3>1, <3>2
  <2>2. value \in Seq(Chars)
    BY DEF ConfigInv
  <2>3. Overlay(l.value, value) = l.value
    BY <1>6, <2>1, <2>2, OverlayFacts
  <2> QED
    BY <1>1, <1>4, <2>3 DEF Scan
<1>8. HoldsLast(file)'
  <2>1. file' # <<>>
    BY <1>3
  <2> QED
    BY <1>3, <1>7, <2>1 DEF HoldsLast
<1>9. ASSUME NEW k \in Seq(Chars) PROVE HasValue(file, k)'
  <2>1. Lookup(opt_trie, k)' = IF k = l.key THEN l.value ELSE Lookup(opt_trie, k)
    BY <1>1, <1>7, ScanFacts
  <2>2. CASE k = l.key
    <3>1. n + 1 \in DOMAIN file' /\ file'[n + 1].key = k
      BY <1>3, <2>2
    <3>2. \A j \in ((n + 1) + 1)..Len(file') : file'[j].key # k
      BY <1>3
    <3>3. InForce(file', n + 1, k) /\ Named(file', k)
      BY <3>1, <3>2 DEF InForce, Named
    <3>4. Lookup(opt_trie, k)' = file'[n + 1].value
      BY <1>3, <2>1, <2>2
    <3> QED
      BY <3>1, <3>3, <3>4 DEF HasValue
  <2>3. CASE k # l.key /\ Named(file, k)
    <3>1. PICK i \in DOMAIN file : InForce(file, i, k) /\ Lookup(opt_trie, k) = file[i].value
      BY <1>5, <2>3 DEF HasValue
    <3>2. i \in 1..n /\ i \in DOMAIN file' /\ file'[i] = file[i]
      BY <1>3
    <3>3. ASSUME NEW j \in (i + 1)..(n + 1) PROVE file'[j].key # k
      <4>1. CASE j = n + 1
        BY <1>3, <2>3, <4>1
      <4>2. CASE j # n + 1
        <5>1. j \in (i + 1)..Len(file) /\ j \in 1..n
          BY <1>2, <3>2, <4>2
        <5> QED
          BY <1>3, <3>1, <5>1 DEF InForce
      <4> QED
        BY <4>1, <4>2
    <3>4. InForce(file', i, k) /\ Named(file', k)
      BY <1>3, <3>1, <3>2, <3>3 DEF InForce, Named
    <3>5. Lookup(opt_trie, k)' = file'[i].value
      BY <2>1, <2>3, <3>1, <3>2
    <3> QED
      BY <3>2, <3>4, <3>5 DEF HasValue
  <2>4. CASE k # l.key /\ ~Named(file, k)
    <3>1. ~Named(file', k)
      <4> SUFFICES ASSUME NEW i \in 1..(n + 1) PROVE file'[i].key # k
        BY <1>3 DEF Named
      <4>1. CASE i = n + 1
        BY <1>3, <2>4, <4>1
      <4>2. CASE i # n + 1
        <5>1. i \in 1..n
          BY <4>2
        <5> QED
          BY <1>3, <2>4, <5>1 DEF Named
      <4> QED
        BY <4>1, <4>2
    <3>2. Lookup(opt_trie, k) = None
      BY <1>5, <2>4 DEF HasValue
    <3> QED
      BY <2>1, <2>4, <3>1, <3>2 DEF HasValue
  <2> QED
    BY <2>2, <2>3, <2>4
<1> QED
  BY <1>8, <1>9

LEMMA PlainInit == Init => PlainInv
<1> SUFFICES ASSUME Init PROVE PlainInv
  OBVIOUS
<1>1. opt_trie = EmptyTrie /\ value = <<>> /\ file = <<>>
  BY DEF Init, ConfigInit
<1>2. \A k : ~Named(file, k)
  BY <1>1 DEF Named
<1> QED
  BY <1>1, <1>2, EmptyHasNone DEF PlainInv, HoldsLast, HasValue

LEMMA PlainNext ==
    ASSUME ConfigInv, PlainInv, [Next]_startupVars PROVE PlainInv'
<1>1. ASSUME NEW l \in Lines, ReadLine(l) PROVE PlainInv'
  <2> SUFFICES ASSUME Plain(file')
               PROVE  (HoldsLast(file) /\ \A k \in Seq(Chars) : HasValue(file, k))'
    BY DEF PlainInv
  <2> QED
    BY <1>1, PlainLine
<1>2. ASSUME NEW l \in Strays, ReadStray(l) PROVE PlainInv'
  <2>1. strayed \in Nat /\ strayed' = strayed + 1
    BY <1>2 DEF ReadStray, ConfigInv
  <2> QED
    BY <2>1 DEF PlainInv
<1>3. CASE UNCHANGED configVars
  BY <1>3 DEF PlainInv, HoldsLast, HasValue, configVars
<1> QED
  BY <1>1, <1>2, <1>3, ConfigStep

\* A plain file of any length is read as it stands: of the lines for a name
\* the last one counts, and what earlier lines left in the buffers is never
\* seen.
THEOREM PlainFilesAreRead == Spec => []PlainFileIsRead
<1>1. ConfigInv /\ PlainInv /\ [Next]_startupVars => PlainInv'
  BY PlainNext
<1>2. ConfigInv /\ PlainInv => PlainFileIsRead
  <2> SUFFICES ASSUME ConfigInv, PlainInv, Plain(file), strayed = 0, NEW k \in Keys
               PROVE  Options[k] = IF Named(file, k) THEN file[LastFor(file, k)].value ELSE None
    BY DEF PlainFileIsRead, Named
  <2>1. Options[k] = Lookup(opt_trie, k) /\ k \in Seq(Chars)
    BY KeysAreNames DEF Options
  <2>2. HasValue(file, k)
    BY <2>1 DEF PlainInv
  <2>3. CASE Named(file, k)
    <3>1. PICK i \in DOMAIN file : InForce(file, i, k) /\ Lookup(opt_trie, k) = file[i].value
      BY <2>2, <2>3 DEF HasValue
    <3>2. LastFor(file, k) = i
      BY <3>1, LastForIs DEF ConfigInv
    <3> QED
      BY <2>1, <2>3, <3>1, <3>2
  <2>4. CASE ~Named(file, k)
    BY <2>1, <2>2, <2>4 DEF HasValue
  <2> QED
    BY <2>3, <2>4
<1> QED
  BY <1>1, <1>2, PlainInit, ConfigInvAlways, PTL DEF Spec

-----------------------------------------------------------------------------
(* The command line and the start of the servers                           *)

Sources == {None, "vrep", "webcam", "print"}
Stages == {"config", "options", "ftp", "comm", "video", "navdata", "control_trie", "control", "join"}

StartupTypes ==
    /\ stage \in Stages
    /\ parsed \in Seq([server : Servers \cup {None}, source : Sources])
    /\ source \in [Servers -> Sources]
    /\ client_id \in [Servers -> {None, "connected", "unset"}]
    /\ vrep_init \in BOOLEAN /\ flip_video \in BOOLEAN

\* An option up to place i connects.
ConnectedBy(i) == \E j \in 1..i : Connects(j)

\* What the options parsed so far have come to.
SourcesFit ==
    /\ \A i \in DOMAIN parsed : parsed[i].server # None => source[parsed[i].server] = parsed[i].source
    /\ \A s \in Servers : source[s] # None => \E i \in DOMAIN parsed : parsed[i].server = s
    /\ \A i \in DOMAIN parsed : parsed[i].server = None <=> parsed[i].source = None
ConnectionFits ==
    /\ flip_video <=> \E i \in DOMAIN parsed : Connects(i) /\ parsed[i].server = "video"
    /\ vrep_init <=> ConnectedBy(Len(parsed))
    /\ connections = IF vrep_init THEN 1 ELSE 0
IdsFit ==
    \A i \in DOMAIN parsed : parsed[i].source = "vrep" =>
        client_id[parsed[i].server] = IF ConnectedBy(i) THEN "connected" ELSE "unset"
OptionsFit == SourcesFit /\ ConnectionFits /\ IdsFit

\* The servers started are those that main has passed and an option asked for,
\* and the tries were built before.
Passed ==
    CASE stage \in {"config", "options", "ftp"} -> {}
      [] stage = "comm"    -> {"ftp"}
      [] stage = "video"   -> {"ftp", "controlcomm"}
      [] stage = "navdata" -> {"ftp", "controlcomm", "video"}
      [] stage \in {"control_trie", "control"} -> {"ftp", "controlcomm", "video", "navdata"}
      [] stage = "join"    -> {"ftp", "controlcomm"} \cup Servers
ServersFit ==
    /\ threads = {s \in Passed : Wanted(s)}
    /\ stage \notin {"config", "options"} => "ftp" \in tries
    /\ stage = "control" => "control" \in tries
    /\ threads \cap {"ftp", "control"} \subseteq tries

WiringInv == status = "running" => StartupTypes /\ OptionsFit /\ ServersFit

LEMMA WiringInit == Init => WiringInv
<1> SUFFICES ASSUME Init PROVE WiringInv
  OBVIOUS
<1>1. /\ parsed = <<>> /\ source = [s \in Servers |-> None] /\ client_id = [s \in Servers |-> None]
      /\ ~flip_video /\ ~vrep_init /\ flip_video \in BOOLEAN /\ vrep_init \in BOOLEAN
      /\ connections = 0 /\ threads = {} /\ tries = {} /\ stage = "config"
  BY DEF Init
<1>2. parsed \in Seq([server : Servers \cup {None}, source : Sources]) /\ Len(parsed) = 0
      /\ DOMAIN parsed = {}
  BY <1>1
<1>3. StartupTypes
  BY <1>1, <1>2 DEF StartupTypes, Sources, Stages
<1>4. SourcesFit /\ IdsFit
  BY <1>1, <1>2 DEF SourcesFit, IdsFit
<1>5. ConnectionFits
  <2>1. ~ConnectedBy(Len(parsed))
    BY <1>2 DEF ConnectedBy
  <2> QED
    BY <1>1, <1>2, <2>1 DEF ConnectionFits
<1>6. ServersFit
  BY <1>1 DEF ServersFit, Passed
<1> QED
  BY <1>3, <1>4, <1>5, <1>6 DEF WiringInv, OptionsFit

LEMMA ElementOf == ASSUME NEW S, NEW q \in Seq(S) PROVE \A i \in DOMAIN q : q[i] \in S
BY ElementOfSeq

\* While the options are parsed no server is there yet.
LEMMA NoServerYet ==
    ASSUME ServersFit, stage \in {"config", "options"}, stage' \in {"config", "options"},
           UNCHANGED serverVars
    PROVE  ServersFit'
<1>1. threads = {} /\ threads' = {}
  BY DEF ServersFit, Passed, serverVars
<1>2. Passed' = {}
  BY DEF Passed
<1> QED
  BY <1>1, <1>2 DEF ServersFit

\* The options do not change when servers start.
LEMMA OptionsStay ==
    ASSUME StartupTypes, OptionsFit, UNCHANGED <<parsed, optionVars>>, stage' \in Stages
    PROVE  (StartupTypes /\ OptionsFit)'
<1>1. StartupTypes'
  BY DEF StartupTypes, optionVars
<1>2. OptionsFit'
  BY DEF OptionsFit, SourcesFit, ConnectionFits, IdsFit, ConnectedBy, Connects, optionVars
<1> QED
  BY <1>1, <1>2

\* One more option at the end: what was said of the places before stands.
LEMMA OneMoreOption ==
    ASSUME StartupTypes, NEW s \in Servers \cup {None}, NEW m \in Sources, Option(s, m)
    PROVE  /\ Len(parsed) \in Nat /\ Len(parsed') = Len(parsed) + 1
           /\ DOMAIN parsed = 1..Len(parsed) /\ DOMAIN parsed' = 1..(Len(parsed) + 1)
           /\ \A i \in DOMAIN parsed : /\ parsed'[i] = parsed[i]
                                       /\ parsed[i].server \in Servers \cup {None}
                                       /\ Connects(i)' = Connects(i)
                                       /\ ConnectedBy(i)' = ConnectedBy(i)
           /\ parsed'[Len(parsed')].server = s /\ parsed'[Len(parsed')].source = m
           /\ Connects(Len(parsed))' <=> s \in {"video", "control"} /\ m = "vrep"
           /\ ConnectedBy(Len(parsed))' <=> ConnectedBy(Len(parsed)) \/ Connects(Len(parsed))'
           /\ parsed' \in Seq([server : Servers \cup {None}, source : Sources])
<1> DEFINE o == [server |-> s, source |-> m]
<1>1. parsed' = Append(parsed, o) /\ o \in [server : Servers \cup {None}, source : Sources]
  BY DEF Option
<1>2. parsed \in Seq([server : Servers \cup {None}, source : Sources])
  BY DEF StartupTypes
<1>3. o.server = s /\ o.source = m
  OBVIOUS
<1> HIDE DEF o
<1>4. /\ Len(parsed) \in Nat /\ Len(parsed') = Len(parsed) + 1
      /\ DOMAIN parsed = 1..Len(parsed) /\ DOMAIN parsed' = 1..(Len(parsed) + 1)
      /\ \A i \in 1..Len(parsed) : parsed'[i] = parsed[i]
      /\ parsed'[Len(parsed) + 1] = o
      /\ parsed' \in Seq([server : Servers \cup {None}, source : Sources])
  BY <1>1, <1>2, AppendProperties
<1>5. \A i \in 1..Len(parsed) : Connects(i)' = Connects(i)
  <2> SUFFICES ASSUME NEW i \in 1..Len(parsed) PROVE Connects(i)' = Connects(i)
    OBVIOUS
  <2> QED
    BY <1>4 DEF Connects
<1>6. \A i \in 1..Len(parsed) : ConnectedBy(i)' = ConnectedBy(i)
  <2> SUFFICES ASSUME NEW i \in 1..Len(parsed) PROVE ConnectedBy(i)' = ConnectedBy(i)
    OBVIOUS
  <2>1. \A j \in 1..i : j \in 1..Len(parsed)
    BY <1>4
  <2> QED
    BY <1>5, <2>1 DEF ConnectedBy
<1>7. Connects(Len(parsed))' <=> s \in {"video", "control"} /\ m = "vrep"
  BY <1>3, <1>4 DEF Connects
<1>8. ConnectedBy(Len(parsed))' <=> ConnectedBy(Len(parsed)) \/ Connects(Len(parsed))'
  <2>1. 1..Len(parsed') = (1..Len(parsed)) \cup {Len(parsed')}
    BY <1>4
  <2>2. (\E j \in 1..Len(parsed') : Connects(j)') <=>
        (\E j \in 1..Len(parsed) : Connects(j)') \/ Connects(Len(parsed))'
    BY <2>1
  <2> QED
    BY <1>5, <2>2 DEF ConnectedBy
<1>9. \A i \in DOMAIN parsed : parsed[i].server \in Servers \cup {None}
  <2>1. \A i \in DOMAIN parsed : parsed[i] \in [server : Servers \cup {None}, source : Sources]
    BY <1>2, ElementOf
  <2> QED
    BY <2>1
<1> QED
  BY <1>3, <1>4, <1>5, <1>6, <1>7, <1>8, <1>9

\* An option that gives server s the source m.
LEMMA SourceGiven ==
    ASSUME StartupTypes, SourcesFit, NEW s \in Servers, NEW m \in Sources \ {None}, Option(s, m),
           source[s] = None, source' = [source EXCEPT ![s] = m]
    PROVE  /\ SourcesFit' /\ source' \in [Servers -> Sources]
           /\ \A i \in DOMAIN parsed : parsed[i].server # s
<1>1. /\ DOMAIN parsed = 1..Len(parsed) /\ DOMAIN parsed' = 1..Len(parsed')
      /\ Len(parsed') = Len(parsed) + 1 /\ Len(parsed) \in Nat
      /\ \A i \in DOMAIN parsed : parsed'[i] = parsed[i] /\ parsed[i].server \in Servers \cup {None}
      /\ parsed'[Len(parsed')].server = s /\ parsed'[Len(parsed')].source = m
  BY OneMoreOption
<1>2. s # None
  BY StartupAssumption DEF Servers
<1>3. \A i \in DOMAIN parsed : parsed[i].server # s
  BY <1>2 DEF SourcesFit
<1>4. /\ source' \in [Servers -> Sources] /\ source'[s] = m
      /\ \A u \in Servers \ {s} : source'[u] = source[u]
  BY DEF StartupTypes
<1>5. SourcesFit'
  <2>1. ASSUME NEW i \in DOMAIN parsed'
        PROVE  /\ parsed'[i].server # None => source'[parsed'[i].server] = parsed'[i].source
               /\ parsed'[i].server = None <=> parsed'[i].source = None
    <3>1. CASE i = Len(parsed')
      BY <1>1, <1>2, <1>4, <3>1
    <3>2. CASE i \in DOMAIN parsed
      BY <1>1, <1>3, <1>4, <3>2 DEF SourcesFit
    <3> QED
      BY <1>1, <3>1, <3>2
  <2>2. ASSUME NEW u \in Servers, source'[u] # None PROVE \E i \in DOMAIN parsed' : parsed'[i].server = u
    <3>1. CASE u = s
      BY <1>1, <3>1
    <3>2. CASE u # s
      BY <1>1, <1>4, <2>2, <3>2 DEF SourcesFit
    <3> QED
      BY <3>1, <3>2
  <2> QED
    BY <2>1, <2>2 DEF SourcesFit
<1> QED
  BY <1>3, <1>4, <1>5

\* ... and a client id.
LEMMA IdGiven ==
    ASSUME StartupTypes, OptionsFit, NEW s \in Servers, NEW m \in Sources \ {None}, Option(s, m),
           \A i \in DOMAIN parsed : parsed[i].server # s,
           \A u \in Servers \ {s} : client_id'[u] = client_id[u],
           m = "vrep" => client_id'[s] = IF ConnectedBy(Len(parsed))' THEN "connected" ELSE "unset"
    PROVE  IdsFit'
<1>1. /\ DOMAIN parsed = 1..Len(parsed) /\ DOMAIN parsed' = 1..Len(parsed')
      /\ Len(parsed') = Len(parsed) + 1 /\ Len(parsed) \in Nat
      /\ \A i \in DOMAIN parsed : /\ parsed'[i] = parsed[i]
                                  /\ parsed[i].server \in Servers \cup {None}
                                  /\ ConnectedBy(i)' = ConnectedBy(i)
      /\ parsed'[Len(parsed')].server = s /\ parsed'[Len(parsed')].source = m
  BY OneMoreOption
<1> SUFFICES ASSUME NEW i \in DOMAIN parsed', parsed'[i].source = "vrep"
             PROVE  client_id'[parsed'[i].server] = IF ConnectedBy(i)' THEN "connected" ELSE "unset"
  BY DEF IdsFit
<1>2. CASE i = Len(parsed')
  BY <1>1, <1>2
<1>3. CASE i \in DOMAIN parsed
  <2>1. client_id[parsed[i].server] = IF ConnectedBy(i) THEN "connected" ELSE "unset"
    BY <1>1, <1>3 DEF OptionsFit, IdsFit
  <2>2. parsed[i].server \in Servers \ {s}
    BY <1>1, <1>3, StartupAssumption DEF OptionsFit, SourcesFit
  <2> QED
    BY <1>1, <1>3, <2>1, <2>2
<1> QED
  BY <1>1, <1>2, <1>3

\* An option that asks for nothing main counts.
LEMMA NothingAsked ==
    ASSUME StartupTypes, OptionsFit, Option(None, None), UNCHANGED optionVars
    PROVE  (StartupTypes /\ OptionsFit)'
<1>1. /\ DOMAIN parsed = 1..Len(parsed) /\ DOMAIN parsed' = 1..Len(parsed')
      /\ Len(parsed') = Len(parsed) + 1 /\ Len(parsed) \in Nat
      /\ \A i \in DOMAIN parsed : /\ parsed'[i] = parsed[i]
                                  /\ Connects(i)' = Connects(i) /\ ConnectedBy(i)' = ConnectedBy(i)
      /\ parsed'[Len(parsed')].server = None /\ parsed'[Len(parsed')].source = None
      /\ ~Connects(Len(parsed))' /\ (ConnectedBy(Len(parsed))' <=> ConnectedBy(Len(parsed)))
      /\ parsed' \in Seq([server : Servers \cup {None}, source : Sources])
  BY OneMoreOption, StartupAssumption DEF Sources
<1>2. stage' = "options" /\ UNCHANGED <<source, client_id, vrep_init, connections, flip_video>>
  BY DEF Option, Goto, optionVars
<1>3. StartupTypes'
  BY <1>1, <1>2 DEF StartupTypes, Stages
<1>4. SourcesFit'
  <2>1. \A u \in Servers : u # None
    BY StartupAssumption DEF Servers
  <2>2. \A i \in DOMAIN parsed' : i \in DOMAIN parsed \/ i = Len(parsed')
    BY <1>1
  <2> QED
    BY <1>1, <1>2, <2>1, <2>2 DEF OptionsFit, SourcesFit
<1>5. ConnectionFits'
  <2>1. (\E i \in DOMAIN parsed' : Connects(i)' /\ parsed'[i].server = "video") <=>
        (\E i \in DOMAIN parsed : Connects(i) /\ parsed[i].server = "video")
    BY <1>1
  <2> QED
    BY <1>1, <1>2, <2>1 DEF OptionsFit, ConnectionFits
<1>6. IdsFit'
  BY <1>1, <1>2, StartupAssumption DEF OptionsFit, IdsFit
<1> QED
  BY <1>3, <1>4, <1>5, <1>6 DEF OptionsFit

\* An option that gives server s the source m; vrep_init and flip_video follow
\* the options that connect.
LEMMA ServerAsked ==
    ASSUME StartupTypes, OptionsFit, NEW s \in Servers, NEW m \in Sources \ {None}, Option(s, m),
           source[s] = None, source' = [source EXCEPT ![s] = m],
           client_id' \in [Servers -> {None, "connected", "unset"}],
           \A u \in Servers \ {s} : client_id'[u] = client_id[u],
           m = "vrep" => client_id'[s] = IF vrep_init' THEN "connected" ELSE "unset",
           vrep_init' = (vrep_init \/ Connects(Len(parsed))'),
           connections' = IF vrep_init' THEN 1 ELSE 0,
           flip_video' = (flip_video \/ (s = "video" /\ m = "vrep"))
    PROVE  (StartupTypes /\ OptionsFit)'
<1>1. /\ DOMAIN parsed = 1..Len(parsed) /\ DOMAIN parsed' = 1..Len(parsed')
      /\ Len(parsed') = Len(parsed) + 1 /\ Len(parsed) \in Nat
      /\ \A i \in DOMAIN parsed : parsed'[i] = parsed[i] /\ Connects(i)' = Connects(i)
      /\ parsed'[Len(parsed')].server = s
      /\ Connects(Len(parsed))' <=> s \in {"video", "control"} /\ m = "vrep"
      /\ ConnectedBy(Len(parsed))' <=> ConnectedBy(Len(parsed)) \/ Connects(Len(parsed))'
      /\ parsed' \in Seq([server : Servers \cup {None}, source : Sources])
  BY OneMoreOption
<1>2. /\ SourcesFit' /\ source' \in [Servers -> Sources]
      /\ \A i \in DOMAIN parsed : parsed[i].server # s
  BY SourceGiven DEF OptionsFit
<1>3. stage' = "options"
  BY DEF Option, Goto
<1>4. vrep_init' \in BOOLEAN /\ flip_video' \in BOOLEAN
  BY DEF StartupTypes
<1>5. StartupTypes'
  BY <1>1, <1>2, <1>3, <1>4 DEF StartupTypes, Stages
<1>6. ConnectionFits'
  <2>1. (\E i \in DOMAIN parsed' : Connects(i)' /\ parsed'[i].server = "video") <=>
        \/ \E i \in DOMAIN parsed : Connects(i) /\ parsed[i].server = "video"
        \/ s = "video" /\ m = "vrep"
    BY <1>1
  <2>2. vrep_init' <=> ConnectedBy(Len(parsed))'
    BY <1>1 DEF OptionsFit, ConnectionFits
  <2> QED
    BY <2>1, <2>2 DEF OptionsFit, ConnectionFits
<1>7. IdsFit'
  <2>1. m = "vrep" => client_id'[s] = IF ConnectedBy(Len(parsed))' THEN "connected" ELSE "unset"
    BY <1>6 DEF ConnectionFits
  <2> QED
    BY <1>2, <2>1, IdGiven
<1> QED
  BY <1>2, <1>5, <1>6, <1>7 DEF OptionsFit

\* A trie is built.
LEMMA TrieBuilt ==
    ASSUME ServersFit, NEW s, NEW from, NEW to, BuildTrie(s, from, to), Passed' = Passed,
           stage' \notin {"config", "options"} => "ftp" \in tries',
           stage' = "control" => "control" \in tries'
    PROVE  ServersFit'
BY DEF ServersFit, BuildTrie, Prepares, Wanted, optionVars

\* One more server starts, or main passes it over.
LEMMA ServerStarts ==
    ASSUME ServersFit, NEW s, NEW from, NEW to, Start(s, from, to) \/ PassOver(s, from, to),
           Passed' = Passed \cup {s}, stage' \notin {"config", "options"} => "ftp" \in tries,
           stage' # "control", s \in {"ftp", "control"} => s \in tries
    PROVE  ServersFit'
<1>1. UNCHANGED <<source, tries>>
  BY DEF Start, PassOver, Prepares, optionVars, serverVars
<1>2. threads' = IF Wanted(s) THEN threads \cup {s} ELSE threads
  BY DEF Start, PassOver, serverVars
<1>3. \A u : Wanted(u)' <=> Wanted(u)
  BY <1>1 DEF Wanted
<1>4. threads' = {u \in Passed' : Wanted(u)'}
  BY <1>2, <1>3 DEF ServersFit
<1>5. threads' \cap {"ftp", "control"} \subseteq tries'
  BY <1>1, <1>2 DEF ServersFit
<1> QED
  BY <1>1, <1>4, <1>5 DEF ServersFit

LEMMA WiringNext ==
    ASSUME WiringInv, [Next]_startupVars PROVE WiringInv'
<1> SUFFICES ASSUME status' = "running" PROVE (StartupTypes /\ OptionsFit /\ ServersFit)'
  BY DEF WiringInv
<1>1. CASE status # "running"
  <2>1. UNCHANGED startupVars
    BY <1>1 DEF Next, ReadConfig, ConfigRead, NoConfigFile, Refuse, Again, NoSimulator, Ignore,
           FromVrep, NavdataFromVrep, FromElsewhere, Option, BuildFtpTrie, StartFtp, StartComm,
           StartVideo, StartNavdata, BuildControlTrie, StartControl, BuildTrie, Start, PassOver,
           Prepares, Goto
  <2> QED
    BY <1>1, <2>1 DEF startupVars
<1> SUFFICES ASSUME status = "running" PROVE (StartupTypes /\ OptionsFit /\ ServersFit)'
  BY <1>1
<1>2. StartupTypes /\ OptionsFit /\ ServersFit
  BY DEF WiringInv
<1>3. CASE ReadConfig \/ ConfigRead \/ NoConfigFile
  <2>1. /\ stage \in {"config", "options"} /\ stage' \in {"config", "options"}
        /\ UNCHANGED <<parsed, optionVars, serverVars>>
    BY <1>3 DEF ReadConfig, ConfigRead, NoConfigFile, Goto
  <2> QED
    BY <1>2, <2>1, OptionsStay, NoServerYet DEF Stages
<1>4. ASSUME NEW s, NEW m, Option(s, m) PROVE ServersFit'
  <2>1. stage = "options" /\ stage' = "options" /\ UNCHANGED serverVars
    BY <1>4 DEF Option, Goto
  <2> QED
    BY <1>2, <2>1, NoServerYet
<1>5. ~(Refuse \/ \E s \in Servers : Again(s) \/ NoSimulator(s))
  BY DEF Refuse, Again, NoSimulator, Stop
<1>6. CASE Ignore
  BY <1>2, <1>4, <1>6, NothingAsked DEF Ignore
<1>7. CASE NavdataFromVrep
  <2>1. /\ Option("navdata", "vrep") /\ source["navdata"] = None
        /\ source' = [source EXCEPT !["navdata"] = "vrep"]
        /\ client_id' = [client_id EXCEPT !["navdata"] = IF vrep_init THEN "connected" ELSE "unset"]
        /\ UNCHANGED <<vrep_init, connections, flip_video>>
    BY <1>7 DEF NavdataFromVrep
  <2>2. "navdata" \in Servers /\ "vrep" \in Sources \ {None}
    BY StartupAssumption DEF Servers, Sources
  <2>3. /\ client_id' \in [Servers -> {None, "connected", "unset"}]
        /\ \A u \in Servers \ {"navdata"} : client_id'[u] = client_id[u]
        /\ client_id'["navdata"] = IF vrep_init' THEN "connected" ELSE "unset"
    BY <1>2, <2>1, <2>2 DEF StartupTypes
  <2>4. ~Connects(Len(parsed))'
    BY <1>2, <2>1, <2>2, OneMoreOption
  <2>5. connections = IF vrep_init THEN 1 ELSE 0
    BY <1>2 DEF OptionsFit, ConnectionFits
  <2>6. vrep_init' = (vrep_init \/ Connects(Len(parsed))')
    BY <1>2, <2>1, <2>4 DEF StartupTypes
  <2>7. flip_video' = (flip_video \/ ("navdata" = "video" /\ "vrep" = "vrep"))
    BY <1>2, <2>1 DEF StartupTypes
  <2>8. (StartupTypes /\ OptionsFit)'
    BY <1>2, <2>1, <2>2, <2>3, <2>5, <2>6, <2>7, ServerAsked
  <2> QED
    BY <1>4, <2>1, <2>8
<1>8. ASSUME NEW s \in Servers, FromVrep(s) PROVE (StartupTypes /\ OptionsFit /\ ServersFit)'
  <2>1. /\ Option(s, "vrep") /\ s # "navdata" /\ source[s] = None
        /\ vrep_init' = TRUE /\ connections' = (IF vrep_init THEN connections ELSE connections + 1)
        /\ source' = [source EXCEPT ![s] = "vrep"]
        /\ client_id' = [client_id EXCEPT ![s] = "connected"]
        /\ flip_video' = (flip_video \/ s = "video")
    BY <1>8 DEF FromVrep, Connect
  <2>2. "vrep" \in Sources \ {None} /\ s \in {"video", "control"}
    BY <2>1, StartupAssumption DEF Servers, Sources
  <2>3. /\ client_id' \in [Servers -> {None, "connected", "unset"}] /\ client_id'[s] = "connected"
        /\ \A u \in Servers \ {s} : client_id'[u] = client_id[u]
    BY <1>2, <2>1 DEF StartupTypes
  <2>4. Connects(Len(parsed))'
    BY <1>2, <2>1, <2>2, OneMoreOption
  <2>5. connections' = IF vrep_init' THEN 1 ELSE 0
    BY <1>2, <2>1 DEF OptionsFit, ConnectionFits
  <2>6. vrep_init' = (vrep_init \/ Connects(Len(parsed))')
    BY <2>1, <2>4
  <2>7. (StartupTypes /\ OptionsFit)'
    BY <1>2, <2>1, <2>2, <2>3, <2>5, <2>6, ServerAsked
  <2> QED
    BY <1>4, <2>1, <2>7
<1>9. ASSUME NEW s \in Servers, FromElsewhere(s) PROVE (StartupTypes /\ OptionsFit /\ ServersFit)'
  <2>1. /\ Option(s, Elsewhere(s)) /\ source[s] = None
        /\ source' = [source EXCEPT ![s] = Elsewhere(s)]
        /\ UNCHANGED <<vrep_init, connections, client_id, flip_video>>
    BY <1>9 DEF FromElsewhere
  <2>2. Elsewhere(s) \in Sources \ {None} /\ Elsewhere(s) # "vrep"
    BY StartupAssumption DEF Elsewhere, Sources
  <2>3. ~Connects(Len(parsed))'
    BY <1>2, <2>1, <2>2, OneMoreOption
  <2>4. /\ client_id' \in [Servers -> {None, "connected", "unset"}]
        /\ \A u \in Servers \ {s} : client_id'[u] = client_id[u]
        /\ vrep_init' = (vrep_init \/ Connects(Len(parsed))')
        /\ flip_video' = (flip_video \/ (s = "video" /\ Elsewhere(s) = "vrep"))
    BY <1>2, <2>1, <2>2, <2>3 DEF StartupTypes
  <2>5. connections' = IF vrep_init' THEN 1 ELSE 0
    BY <1>2, <2>1 DEF OptionsFit, ConnectionFits
  <2>6. (StartupTypes /\ OptionsFit)'
    BY <1>2, <2>1, <2>2, <2>4, <2>5, ServerAsked
  <2> QED
    BY <1>4, <2>1, <2>6
<1>10. ASSUME NEW from, NEW to, to \in Stages, Prepares(from, to) PROVE (StartupTypes /\ OptionsFit)'
  BY <1>2, <1>10, OptionsStay DEF Prepares, Goto
<1>11. CASE BuildFtpTrie
  <2>1. BuildTrie("ftp", "options", "ftp") /\ stage = "options" /\ stage' = "ftp"
    BY <1>11 DEF BuildFtpTrie, BuildTrie, Prepares, Goto
  <2>2. Passed' = Passed /\ tries' = tries \cup {"ftp"}
    BY <2>1 DEF Passed, BuildTrie
  <2> QED
    BY <1>2, <1>10, <2>1, <2>2, TrieBuilt DEF BuildTrie, Stages
<1>12. CASE StartFtp
  <2>1. Start("ftp", "ftp", "comm") /\ stage = "ftp" /\ stage' = "comm"
    BY <1>12 DEF StartFtp, Start, Prepares, Goto
  <2>2. Passed' = Passed \cup {"ftp"} /\ "ftp" \in tries
    BY <1>2, <2>1 DEF Passed, ServersFit
  <2> QED
    BY <1>2, <1>10, <2>1, <2>2, ServerStarts DEF Start, Stages
<1>13. CASE StartComm
  <2>1. Start("controlcomm", "comm", "video") /\ stage = "comm" /\ stage' = "video"
    BY <1>13 DEF StartComm, Start, Prepares, Goto
  <2>2. Passed' = Passed \cup {"controlcomm"} /\ "ftp" \in tries
    BY <1>2, <2>1 DEF Passed, ServersFit
  <2> QED
    BY <1>2, <1>10, <2>1, <2>2, ServerStarts DEF Start, Stages
<1>14. CASE StartVideo
  <2>1. /\ Start("video", "video", "navdata") \/ PassOver("video", "video", "navdata")
        /\ stage = "video" /\ stage' = "navdata" /\ Prepares("video", "navdata")
    BY <1>14 DEF StartVideo, Start, PassOver, Prepares, Goto
  <2>2. Passed' = Passed \cup {"video"} /\ "ftp" \in tries
    BY <1>2, <2>1 DEF Passed, ServersFit
  <2> QED
    BY <1>2, <1>10, <2>1, <2>2, ServerStarts DEF Stages
<1>15. CASE StartNavdata
  <2>1. /\ Start("navdata", "navdata", "control_trie") \/ PassOver("navdata", "navdata", "control_trie")
        /\ stage = "navdata" /\ stage' = "control_trie" /\ Prepares("navdata", "control_trie")
    BY <1>15 DEF StartNavdata, Start, PassOver, Prepares, Goto
  <2>2. Passed' = Passed \cup {"navdata"} /\ "ftp" \in tries
    BY <1>2, <2>1 DEF Passed, ServersFit
  <2> QED
    BY <1>2, <1>10, <2>1, <2>2, ServerStarts DEF Stages
<1>16. CASE BuildControlTrie
  <2>1. CASE Wanted("control") /\ BuildTrie("control", "control_trie", "control")
    <3>1. stage = "control_trie" /\ stage' = "control" /\ Prepares("control_trie", "control")
          /\ BuildTrie("control", "control_trie", "control") /\ tries' = tries \cup {"control"}
      BY <2>1 DEF BuildTrie, Prepares, Goto
    <3>2. Passed' = Passed /\ "ftp" \in tries
      BY <1>2, <3>1 DEF Passed, ServersFit
    <3> QED
      BY <1>2, <1>10, <3>1, <3>2, TrieBuilt DEF Stages
  <2>2. CASE PassOver("control", "control_trie", "join")
    <3>1. stage = "control_trie" /\ stage' = "join" /\ Prepares("control_trie", "join")
          /\ ~Wanted("control") /\ UNCHANGED <<tries, threads, source>>
      BY <2>2 DEF PassOver, Prepares, Goto, serverVars, optionVars
    <3>2. Passed' = Passed \cup {"control"} /\ "ftp" \in tries
      BY <1>2, <3>1 DEF Passed, ServersFit, Servers
    <3>3. ServersFit'
      BY <1>2, <3>1, <3>2 DEF ServersFit, Wanted
    <3> QED
      BY <1>10, <3>1, <3>3 DEF Stages
  <2> QED
    BY <1>16, <2>1, <2>2 DEF BuildControlTrie
<1>17. CASE StartControl
  <2>1. Start("control", "control", "join") /\ stage = "control" /\ stage' = "join"
        /\ Prepares("control", "join")
    BY <1>17 DEF StartControl, Start, Prepares, Goto
  <2>2. Passed' = Passed \cup {"control"} /\ {"ftp", "control"} \subseteq tries
    BY <1>2, <2>1 DEF Passed, ServersFit, Servers
  <2> QED
    BY <1>2, <1>10, <2>1, <2>2, ServerStarts DEF Stages
<1>18. CASE UNCHANGED startupVars
  <2>1. UNCHANGED <<stage, parsed, optionVars, serverVars, source>>
    BY <1>18 DEF startupVars, optionVars
  <2>2. (StartupTypes /\ OptionsFit)'
    BY <1>2, <2>1, OptionsStay DEF StartupTypes
  <2>3. ServersFit'
    BY <1>2, <2>1 DEF ServersFit, Passed, Wanted, serverVars
  <2> QED
    BY <2>2, <2>3
<1> QED
  BY <1>3, <1>5, <1>6, <1>7, <1>8, <1>9, <1>11, <1>12, <1>13, <1>14, <1>15, <1>16, <1>17, <1>18
     DEF Next

\* However many options there are and in whatever order, what the servers are
\* started with is what the options before came to; navdata gets its id only
\* from an option that connects and comes before its own.
THEOREM WiringAlways == Spec => []Wiring
<1>1. WiringInv /\ [Next]_startupVars => WiringInv'
  BY WiringNext
<1>2. WiringInv => Wiring
  <2> SUFFICES ASSUME StartupTypes, OptionsFit, ServersFit PROVE Wiring
    BY DEF WiringInv, Wiring
  <2>1. threads \cap {"ftp", "control"} \subseteq tries
    BY DEF ServersFit
  <2>2. ASSUME NEW s \in threads \cap Servers
        PROVE  \E i \in DOMAIN parsed : parsed[i] = [server |-> s, source |-> source[s]]
    <3>1. source[s] # None
      BY DEF ServersFit, Wanted
    <3>2. PICK i \in DOMAIN parsed : parsed[i].server = s
      BY <3>1 DEF OptionsFit, SourcesFit
    <3>3. parsed[i] \in [server : Servers \cup {None}, source : Sources]
      BY ElementOf DEF StartupTypes
    <3>4. parsed[i].source = source[s]
      BY <3>2, StartupAssumption DEF OptionsFit, SourcesFit, Servers
    <3> QED
      BY <3>2, <3>3, <3>4
  <2>3. /\ flip_video <=> \E i \in DOMAIN parsed : Connects(i) /\ parsed[i].server = "video"
        /\ connections = IF \E i \in DOMAIN parsed : Connects(i) THEN 1 ELSE 0
    <3>1. DOMAIN parsed = 1..Len(parsed)
      BY DEF StartupTypes
    <3> QED
      BY <3>1 DEF OptionsFit, ConnectionFits, ConnectedBy
  <2>4. \A i \in DOMAIN parsed : parsed[i].source = "vrep" =>
            client_id[parsed[i].server] = IF \E j \in 1..i : Connects(j) THEN "connected" ELSE "unset"
    BY DEF OptionsFit, IdsFit, ConnectedBy
  <2>5. ASSUME stage = "join"
        PROVE  threads = {"ftp", "controlcomm"} \cup
                         {s \in Servers : \E i \in DOMAIN parsed : parsed[i].server = s}
    <3>1. Passed = {"ftp", "controlcomm"} \cup Servers
      BY <2>5 DEF Passed
    <3>2. {"ftp", "controlcomm"} \cap Servers = {}
      BY DEF Servers
    <3>3. \A s \in Servers : source[s] # None <=> \E i \in DOMAIN parsed : parsed[i].server = s
      BY StartupAssumption DEF OptionsFit, SourcesFit, Servers
    <3> QED
      BY <3>1, <3>2, <3>3 DEF ServersFit, Wanted
  <2> QED
    BY <2>1, <2>2, <2>3, <2>4, <2>5 DEF Wiring
<1> QED
  BY <1>1, <1>2, WiringInit, PTL DEF Spec
=============================================================================
